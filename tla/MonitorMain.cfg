SPECIFICATION FairSpec
CONSTANTS
  NoConfig = NoConfig
  Programs <- MCPrograms
  CommandLines <- MCCommandLines
  SigningConfigs <- MCSigningConfigs
  OptionLists <- MCOptionLists
  Durations <- MCDurations
  MaxBatches = 2
INVARIANTS
  TypeOK
  OperatorCAsKept
  LoopMonitorsConfigured
  InTime
  StopsOnCancellation
  AfterSignalBounded
PROPERTIES
  FilesRemoved
  SignalEndsProcess
