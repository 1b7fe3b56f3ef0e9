---------------------------- MODULE MCThreadPool ----------------------------
(* ThreadPool on small instances: a few threads, a queue of a few cells.   *)
EXTENDS ThreadPool, TLC

(* Threads of one kind are interchangeable. *)
Symmetry == Permutations(Workers) \cup Permutations(Producers)
=============================================================================
