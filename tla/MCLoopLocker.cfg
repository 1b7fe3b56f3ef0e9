\* The int is wide enough to tell the three threads apart.
CONSTANTS
  t1 = t1
  t2 = t2
  t3 = t3
  Threads = {t1, t2, t3}
  pthread_self <- SpacedSelves
  INT_MODULUS = 32
  MaxDepth = 3
  NULL = NULL
SPECIFICATION Spec
INVARIANTS MutualExclusion OwnerKnown
