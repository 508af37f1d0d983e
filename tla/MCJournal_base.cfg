CONSTANTS
  Zero = Zero
  Torn = Torn
  MaxPages = 2
  MaxTx = 2
  MaxCrashes = 2
  MaxFaults = 1
SPECIFICATION Spec
INVARIANTS TypeOK ReadyIsCommitted
PROPERTIES ImplementsStore Recovers SetBackOnly
CHECK_DEADLOCK FALSE
