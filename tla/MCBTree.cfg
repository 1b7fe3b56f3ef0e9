\* BTree(3), as in test(); enough entries for inner nodes to split below the root.
CONSTANTS
  Keys = {1, 2}
  L = 3
  MaxInserts = 16
SPECIFICATION Spec
INVARIANTS TreeSound SeparatorsDivide ChainFollowsTree LookupExact
CHECK_DEADLOCK FALSE
