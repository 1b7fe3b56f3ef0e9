----------------------------- MODULE SharedList -----------------------------
(***************************************************************************)
(* What dlist.h promises threads that share a list: additions at either    *)
(* end and length queries that each happen at one moment.                  *)
(***************************************************************************)
EXTENDS Integers, Sequences

CONSTANTS Threads, Nodes

VARIABLES
  items,    \* the nodes of the list, front first
  length    \* the last result of list_length in each thread

vars == <<items, length>>

Init ==
  /\ items = << >>
  /\ length = [t \in Threads |-> 0]

AddFront(n) == items' = <<n>> \o items /\ UNCHANGED length
AddBack(n)  == items' = Append(items, n) /\ UNCHANGED length

Length(t) ==
  /\ length' = [length EXCEPT ![t] = Len(items)]
  /\ UNCHANGED items

Clear == items' = << >> /\ UNCHANGED length

Next ==
  \/ \E n \in Nodes : AddFront(n) \/ AddBack(n)
  \/ \E t \in Threads : Length(t)
  \/ Clear

Spec == Init /\ [][Next]_vars
=============================================================================
