\* Rekor v1 when a write of the checkpoint file may be cut short: what still holds.
CONSTANTS
  NoIndex = NoIndex
  NoCheckpoint = NoCheckpoint
  EmptyFile = EmptyFile
  Garbage = Garbage
  Platforms <- OnePlatform
  Flags <- RegularFlags
  TornWrites = TRUE
  Entries = {"hit", "other"}
  Matching = {"hit"}
  Unreadable = {}
  InactiveSize = 0
  MaxLog = 3
  MayRewrite = TRUE
  BatchSize = 2
SPECIFICATION Spec
INVARIANT QuietRound
PROPERTY UnreadableFileStops
