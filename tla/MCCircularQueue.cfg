\* Three cells and three items: the queue fills, wraps around and empties.
CONSTANTS
  THREAD_POOL_QUEUE_SIZE = 3
  NULL = NULL
  Items = {a, b, c}
SPECIFICATION QueueSpec
INVARIANTS QueueWellFormed
PROPERTY ImplementsFifo
