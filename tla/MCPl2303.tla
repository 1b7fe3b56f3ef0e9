------------------------------ MODULE MCPl2303 ------------------------------
(* Pl2303 for a few threads. *)
EXTENDS Pl2303, TLC

(* No definition tells the threads apart. *)
ThreadSymmetry == Permutations(Threads)
=============================================================================
