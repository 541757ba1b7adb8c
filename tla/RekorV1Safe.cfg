\* Rekor v1 under every fault but a torn checkpoint write.
CONSTANTS
  NoIndex = NoIndex
  NoCheckpoint = NoCheckpoint
  EmptyFile = EmptyFile
  Garbage = Garbage
  Platforms <- TwoPlatforms
  Flags <- AllFlags
  TornWrites = FALSE
  Entries = {"hit", "bad"}
  Matching = {"hit"}
  Unreadable = {"bad"}
  InactiveSize = 0
  MaxLog = 3
  MayRewrite = TRUE
  BatchSize = 2
SPECIFICATION Spec
INVARIANTS TypeOK Coverage MetadataCoverage Delivery QuietRound FetchedOnce SearchesWhatIsNew
PROPERTIES StoredChain KeepsPromise
