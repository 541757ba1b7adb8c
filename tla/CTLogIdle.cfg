\* A CT log that has not grown when the daemon's next round begins.
CONSTANTS
  NoIndex = NoIndex
  NoCheckpoint = NoCheckpoint
  EmptyFile = EmptyFile
  Garbage = Garbage
  Platforms <- OnePlatform
  Flags <- DaemonFlags
  TornWrites = FALSE
  Entries = {"hit"}
  Matching = {"hit"}
  Unreadable = {}
  MaxLog = 3
  MayRewrite = FALSE
  MaxGetEntries = 3
SPECIFICATION Spec
INVARIANT SearchCanSucceed
