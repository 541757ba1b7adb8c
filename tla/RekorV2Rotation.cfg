\* Rekor v2: what is searched in the round that follows a rotation.
CONSTANTS
  NoIndex = NoIndex
  NoCheckpoint = NoCheckpoint
  EmptyFile = EmptyFile
  Platforms <- OnePlatform
  Entries = {"hit"}
  Matching = {"hit"}
  Unreadable = {}
  MaxShards = 2
  MaxLog <- ThreeAndTwo
  TileWidth = 2
  Flags <- CronOnly
  MayRewrite = FALSE
SPECIFICATION Spec
INVARIANT Coverage
