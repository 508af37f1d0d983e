SPECIFICATION Spec
CONSTANTS
  Handles = {h1, h2}
  Threads = {t1, t2}
  NoThread = NoThread
  Disciplined = TRUE
INVARIANTS TypeOK SemaphoreFollowsLock RefusedOnlyWithoutSemaphore
PROPERTIES CallsFinish
