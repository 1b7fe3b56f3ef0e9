----------------------------- MODULE BoundedFifo -----------------------------
(***************************************************************************)
(* What threadpool_queue promises its callers: a first-in first-out buffer *)
(* with room for Capacity items.  Put on a full buffer and Get on an empty *)
(* one report failure and change nothing.                                  *)
(***************************************************************************)
EXTENDS Integers, Sequences

CONSTANTS Items, Capacity, NULL

VARIABLES
  items,   \* the buffered items, oldest first
  ret,     \* result of the last Put: 0 or -1
  got      \* result of the last Get: an item, or NULL

vars == <<items, ret, got>>

Init ==
  /\ items = << >>
  /\ ret = 0
  /\ got = NULL

Put(d) ==
  /\ \/ /\ Len(items) < Capacity
        /\ items' = Append(items, d)
        /\ ret' = 0
     \/ /\ Len(items) = Capacity
        /\ ret' = -1
        /\ UNCHANGED items
  /\ UNCHANGED got

Get ==
  /\ \/ /\ items # << >>
        /\ got' = Head(items)
        /\ items' = Tail(items)
     \/ /\ items = << >>
        /\ got' = NULL
        /\ UNCHANGED items
  /\ UNCHANGED ret

Next == Get \/ \E d \in Items : Put(d)

Spec == Init /\ [][Next]_vars
=============================================================================
