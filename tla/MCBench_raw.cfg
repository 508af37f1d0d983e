SPECIFICATION Spec
CONSTANTS
  Flags <- MCRaw
  BatchSize = 2
  SyncPart = 2
  LargePart = 3
INVARIANTS FreesAreLive
CHECK_DEADLOCK FALSE
