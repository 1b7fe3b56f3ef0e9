\* The smallest program in which an overlapping pop loses an element.
CONSTANTS
  Nodes = {n1, n2}
  Dummy = dummy
  Pushes = 2
  Pops = 2
  NULL = NULL
SPECIFICATION Spec
INVARIANT NothingLost
