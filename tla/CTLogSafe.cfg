\* A CT log that answers every request in full, under every fault but a torn write.
CONSTANTS
  NoIndex = NoIndex
  NoCheckpoint = NoCheckpoint
  EmptyFile = EmptyFile
  Garbage = Garbage
  Platforms <- OnePlatform
  Flags <- AllFlags
  TornWrites = FALSE
  Entries = {"hit", "bad"}
  Matching = {"hit"}
  Unreadable = {"bad"}
  MaxLog = 3
  MayRewrite = TRUE
  MaxGetEntries = 3
SPECIFICATION Spec
INVARIANTS TypeOK Coverage Delivery QuietRound OverlapOfOne BeginsAtStored
PROPERTIES StoredChain KeepsPromise
