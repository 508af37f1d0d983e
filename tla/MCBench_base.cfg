SPECIFICATION Spec
CONSTANTS
  Flags <- MCFlags
  BatchSize = 2
  SyncPart = 2
  LargePart = 3
INVARIANTS TypeOK FreesAreLive AllIsFreed OneConnection FillsAreComplete
PROPERTIES Terminates ComesCloser
CHECK_DEADLOCK FALSE
