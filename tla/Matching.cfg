\* Every configuration against every pair of entries.
CONSTANTS
  Names <- MCNames
  Expressions <- MCExpressions
  Denotes <- MCDenotes
  Configs <- MCConfigs
  Entries <- MCEntries
  BatchSize = 2
SPECIFICATION Spec
INVARIANTS TypeOK Complete Sound
