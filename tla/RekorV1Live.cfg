\* Rekor v1, an append-only log: what must happen some time.
CONSTANTS
  NoIndex = NoIndex
  NoCheckpoint = NoCheckpoint
  EmptyFile = EmptyFile
  Garbage = Garbage
  Platforms <- OnePlatform
  Flags <- RegularFlags
  TornWrites = FALSE
  Entries = {"hit"}
  Matching = {"hit"}
  Unreadable = {}
  InactiveSize = 1
  MaxLog = 3
  MayRewrite = FALSE
  BatchSize = 1
SPECIFICATION FairSpec
PROPERTIES EventuallyReported SignalStops
