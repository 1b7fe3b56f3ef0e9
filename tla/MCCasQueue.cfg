\* Three pushes and four pops, overlapping or in turn.
CONSTANTS
  Nodes = {n1, n2, n3}
  Dummy = dummy
  Pushes = 3
  Pops = 4
  NULL = NULL
SPECIFICATION Spec
INVARIANTS QueueIntact OutputInOrder
PROPERTY ThreadsEndInTurn
