--------------------------- MODULE MCCircularQueue ---------------------------
(* CircularQueue with a queue of a few cells, so that full, empty, the     *)
(* wrap-around of head and tail and the rewind to 0 all happen.            *)
EXTENDS CircularQueue
=============================================================================
