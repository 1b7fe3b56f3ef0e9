\* Three threads add three nodes and ask for the length at any moment.
CONSTANTS
  Threads = {t1, t2, t3}
  Nodes = {n1, n2, n3}
  Main = main
  ListHead = head
  NULL = NULL
SPECIFICATION Spec
INVARIANTS ListIntact AllReclaimed
PROPERTY ImplementsSharedList
SYMMETRY Symmetry
