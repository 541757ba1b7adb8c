\* Rekor v2 with a shard rotation and a shard that may rewrite its past.
CONSTANTS
  NoIndex = NoIndex
  NoCheckpoint = NoCheckpoint
  EmptyFile = EmptyFile
  Platforms <- OnePlatform
  Entries = {"hit", "bad", "other"}
  Matching = {"hit"}
  Unreadable = {"bad"}
  MaxShards = 2
  MaxLog <- ThreeAndOne
  TileWidth = 2
  Flags <- RegularFlags
  MayRewrite = TRUE
SPECIFICATION Spec
INVARIANTS TypeOK CoverageOfFirstShard RecordedBeforeStored QuietRound
PROPERTIES StoredChain RotationSeen PromiseOfFirstShard
