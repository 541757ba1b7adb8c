\* A CT log that gives one entry in one answer.
CONSTANTS
  NoIndex = NoIndex
  NoCheckpoint = NoCheckpoint
  EmptyFile = EmptyFile
  Garbage = Garbage
  Platforms <- OnePlatform
  Flags <- RegularFlags
  TornWrites = FALSE
  Entries = {"hit"}
  Matching = {"hit"}
  Unreadable = {}
  MaxLog = 3
  MayRewrite = FALSE
  MaxGetEntries = 1
SPECIFICATION Spec
INVARIANT Coverage
