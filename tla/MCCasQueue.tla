----------------------------- MODULE MCCasQueue -----------------------------
(* CasQueue for a few pushes and pops. *)
EXTENDS CasQueue
=============================================================================
