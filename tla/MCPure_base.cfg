CONSTANTS
  Bits = 7
  A = 17
  Seeds = {0, 1, 2, 3, 100, 126, 127, 128, 255}
  Cap = 60
  PieceLen = 10
  Raws = {1, 3, 5, 10, 12}
  Limits <- LimitList
  Values = {0, 1, 2, 4, 5, 8}
  MaxValues = 5
  FirstSize = 1024
  Lines = {60, 75, 199}
  DashesLen = 55
  Marks = {0, 20}
  NoDir = "none"
  Root = "root"
  Listed <- PathList
  Given <- GivenDirs
  DirLen <- PathLen
  PrefixLen = 7
  BufLens = {29, 30, 31, 33, 44, 130}
SPECIFICATION Spec
INVARIANTS NextIsProduct CountsValues MedianIsNear TextFits NameIsRight
CHECK_DEADLOCK FALSE
