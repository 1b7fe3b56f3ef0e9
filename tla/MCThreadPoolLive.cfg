\* Four calls on two tasks: both clients can be blocked with both tasks in use, and
\* the pool is freed at any moment, busy, idle or waiting.
CONSTANTS
  THREAD_POOL_QUEUE_SIZE = 2
  NULL = NULL
  Workers = {w1}
  Producers = {p1, p2}
  Stopper = stopper
  Routines = {cb}
  ResourcesMayFail = FALSE
  MaxCalls = 4
  MaxSpurious = 0
SPECIFICATION FairSpec
PROPERTIES AcceptedTaskFinishes AddTaskReturns FreeTearsDown
