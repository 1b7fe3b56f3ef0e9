---------------------------- MODULE MCLoopLocker ----------------------------
(* LoopLocker for three threads and a small int.                           *)
EXTENDS LoopLocker

CONSTANTS t1, t2, t3

(* Stacks, and with them the values of pthread_self, lie 8 apart.          *)
SpacedSelves == [t \in {t1, t2, t3} |-> CASE t = t1 -> 9 [] t = t2 -> 17 [] t = t3 -> 25]
=============================================================================
