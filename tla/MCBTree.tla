------------------------------ MODULE MCBTree -------------------------------
(* BTree with few keys and many duplicates. *)
EXTENDS BTree
=============================================================================
