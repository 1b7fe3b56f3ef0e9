------------------------------ MODULE MCDList ------------------------------
(* DList for a few threads and nodes. *)
EXTENDS DList, TLC

(* Threads are interchangeable, and so are the addresses malloc returns. *)
Symmetry == Permutations(Threads) \cup Permutations(Nodes)
=============================================================================
