SPECIFICATION Spec
CONSTANTS
  Base = 1
  TotalSize = 27
  StructSize = 2
  Alignment = 2
  SizeMax = 127
  Requests = {0, 1, 2, 5, 80, 126}
  CallocArgs <- MCCallocArgs
  MayShrink = TRUE
  MaxMallocs = 7
INVARIANTS NoOverrun
CHECK_DEADLOCK FALSE
