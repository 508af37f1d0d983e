CONSTANTS
  NStatic = 2
  NDynamic = 1
  Objects = {o1, o2, o3, o4}
  Null = Null
  Threads = {t1, t2}
  NoThread = NoThread
  MaxEnters = 2
  Concurrent = FALSE
SPECIFICATION Spec
INVARIANTS TypeOK Exclusion LocksBalance NothingLost
PROPERTIES CallsFinish
