SPECIFICATION Spec
CONSTANTS
  Base = 1
  TotalSize = 27
  StructSize = 2
  Alignment = 2
  SizeMax = 127
  Requests = {0, 1, 2, 5, 80, 126}
  CallocArgs <- MCCallocArgs
  MayShrink = FALSE
  MaxMallocs = 6
INVARIANTS TypeOK BlocksTile Coalesced LiveUsable Accounting NoOverrun
PROPERTIES ImplementsAllocator
CHECK_DEADLOCK FALSE
