\* Rekor v2: which shard a daemon searches after a rotation.
CONSTANTS
  NoIndex = NoIndex
  NoCheckpoint = NoCheckpoint
  EmptyFile = EmptyFile
  Platforms <- OnePlatform
  Entries = {"hit"}
  Matching = {"hit"}
  Unreadable = {}
  MaxShards = 2
  MaxLog <- ThreeAndTwo
  TileWidth = 2
  Flags <- RegularFlags
  MayRewrite = FALSE
SPECIFICATION Spec
INVARIANT SearchedShardIsChecked
