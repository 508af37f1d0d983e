CONSTANTS
  NStatic = 2
  NDynamic = 0
  Objects = {o1, o2, o3, o4}
  Null = Null
  Threads = {t1, t2}
  NoThread = NoThread
  MaxEnters = 1
  Concurrent = TRUE
SPECIFICATION Spec
PROPERTIES InitKeepsMutexes
