\* Two workers and two clients share two tasks; every resource may fail.
\* A threadpool_free that cannot create its thread wakes nobody: a deadlock, so it is not checked.
CONSTANTS
  THREAD_POOL_QUEUE_SIZE = 2
  NULL = NULL
  Workers = {w1, w2}
  Producers = {p1, p2}
  Stopper = stopper
  Routines = {cb, NULL}
  ResourcesMayFail = TRUE
  MaxCalls = 3
  MaxSpurious = 1
SPECIFICATION Spec
INVARIANTS TypeOK SlotExclusive NoSlotLost NoLostWakeup NoInternalError NoUseAfterFree
PROPERTIES ImplementsTaskPool
SYMMETRY Symmetry
CHECK_DEADLOCK FALSE
