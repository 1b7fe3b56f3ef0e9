------------------------------ MODULE CasQueue ------------------------------
(***************************************************************************)
(* The linked queue of c-study/dllist/ring_01/ring1.c, changed with        *)
(* compare-and-swap by one thread that pushes and one that pops.           *)
(*                                                                         *)
(* Every access to shared memory is a step of its own.  The i-th element   *)
(* pushed is the number i.  The sleeps between the calls order nothing, so *)
(* a call may start at any moment; overlapped records whether one ever     *)
(* started while the other thread was inside a call.                       *)
(***************************************************************************)
EXTENDS Integers, Sequences, FiniteSets

CONSTANTS
  Nodes,          \* the addresses malloc can return
  Dummy,          \* the node of QueInit: que.front, which never changes
  Pushes, Pops,   \* how often the threads call QuePush (10) and QuePop (12)
  NULL

ASSUME CasQueueAssumption ==
  /\ IsFiniteSet(Nodes) /\ Dummy \notin Nodes /\ NULL \notin Nodes \cup {Dummy}
  /\ Pushes \in Nat \ {0} /\ Pops \in Nat \ {0} /\ Cardinality(Nodes) >= Pushes

VARIABLES
  rear, next, data,   \* que.rear and the fields of the nodes
  heap,               \* the nodes allocated and not freed
  push, pop,          \* the locals of QuePush and QuePop, and the loop counters c
  output,             \* the elements thread_pop printed
  corrupt,            \* freed memory was written
  overlapped

vars == <<rear, next, data, heap, push, pop, output, corrupt, overlapped>>

Cells == Nodes \cup {Dummy}
Pushing == {"idle", "read_rear", "link", "swing_rear"}
Popping == {"idle", "empty", "first", "second", "unlink", "swing_rear", "return"}
Call(PC) == [pc : PC, c : Nat, temp : Cells \cup {NULL}, p : Cells \cup {NULL}]

(* QueInit. *)
Init ==
  /\ rear = Dummy
  /\ next = [n \in Cells |-> NULL]
  /\ data = [n \in Cells |-> 0]
  /\ heap = {}
  /\ push = [pc |-> "idle", c |-> 0, temp |-> NULL, p |-> NULL]
  /\ pop = [pc |-> "idle", c |-> 0, temp |-> NULL, p |-> NULL]
  /\ output = << >>
  /\ corrupt = FALSE
  /\ overlapped = FALSE

-----------------------------------------------------------------------------
(* QuePush *)

PushAlloc ==
  /\ push.pc = "idle" /\ push.c < Pushes
  /\ overlapped' = (overlapped \/ pop.pc # "idle")
  /\ \E n \in Nodes \ heap :
       /\ heap' = heap \cup {n}
       /\ data' = [data EXCEPT ![n] = push.c + 1]
       /\ next' = [next EXCEPT ![n] = NULL]
       /\ push' = [push EXCEPT !.pc = "read_rear", !.temp = n]
  /\ UNCHANGED <<rear, pop, output, corrupt>>

(* p = que.rear; *)
PushReadRear ==
  /\ push.pc = "read_rear"
  /\ push' = [push EXCEPT !.pc = "link", !.p = rear]
  /\ UNCHANGED <<rear, next, data, heap, pop, output, corrupt, overlapped>>

(* The compare-and-swap of p->next from NULL.  If QuePop has freed p since *)
(* it was read, p->next holds anything: the swap fails, or it succeeds and *)
(* writes into the allocator's memory.                                     *)
PushLink ==
  /\ push.pc = "link"
  /\ \/ /\ push.p \notin heap \cup {Dummy}
        /\ corrupt' = TRUE
        /\ UNCHANGED <<next, push>>
     \/ /\ push.p \in heap \cup {Dummy} /\ next[push.p] = NULL
        /\ next' = [next EXCEPT ![push.p] = push.temp]
        /\ push' = [push EXCEPT !.pc = "swing_rear"]
        /\ UNCHANGED corrupt
     \/ /\ push.p \in heap \cup {Dummy} => next[push.p] # NULL
        /\ push' = [push EXCEPT !.pc = "read_rear"]
        /\ UNCHANGED <<next, corrupt>>
  /\ UNCHANGED <<rear, data, heap, pop, output, overlapped>>

(* A faulty RearAfterPush: que.rear stays where it is. *)
RearAfterPushSame == rear

RearAfterPush == IF rear = push.p THEN push.temp ELSE rear

(* The compare-and-swap of que.rear, whose result nobody looks at. *)
PushSwingRear ==
  /\ push.pc = "swing_rear"
  /\ rear' = RearAfterPush
  /\ push' = [push EXCEPT !.pc = "idle", !.c = @ + 1]
  /\ UNCHANGED <<next, data, heap, pop, output, corrupt, overlapped>>

-----------------------------------------------------------------------------
(* QuePop *)

PopCall ==
  /\ pop.pc = "idle" /\ pop.c < Pops
  /\ overlapped' = (overlapped \/ push.pc # "idle")
  /\ pop' = [pop EXCEPT !.pc = "empty"]
  /\ UNCHANGED <<rear, next, data, heap, push, output, corrupt>>

(* QueEmpty: the swap of que.rear from que.front to itself is a test. *)
PopEmpty ==
  /\ pop.pc = "empty"
  /\ pop' = IF rear = Dummy THEN [pop EXCEPT !.pc = "idle", !.c = @ + 1]
                            ELSE [pop EXCEPT !.pc = "first"]
  /\ UNCHANGED <<rear, next, data, heap, push, output, corrupt, overlapped>>

(* temp = que.front->next; *)
PopFirst ==
  /\ pop.pc = "first"
  /\ pop' = [pop EXCEPT !.pc = "second", !.temp = next[Dummy]]
  /\ UNCHANGED <<rear, next, data, heap, push, output, corrupt, overlapped>>

(* p = temp->next, or NULL. *)
PopSecond ==
  /\ pop.pc = "second"
  /\ pop' = [pop EXCEPT !.pc = "unlink",
                        !.p = IF pop.temp = NULL THEN NULL ELSE next[pop.temp]]
  /\ UNCHANGED <<rear, next, data, heap, push, output, corrupt, overlapped>>

(* A faulty Unlinked: the swap puts back what it found. *)
UnlinkedNot == next

Unlinked == IF next[Dummy] = pop.temp THEN [next EXCEPT ![Dummy] = pop.p] ELSE next

(* The compare-and-swap of que.front->next from temp to p; when it fails   *)
(* the loop starts again with QueEmpty.                                    *)
PopUnlink ==
  /\ pop.pc = "unlink"
  /\ next' = Unlinked
  /\ pop' = [pop EXCEPT !.pc = IF next[Dummy] = pop.temp THEN "swing_rear" ELSE "empty"]
  /\ UNCHANGED <<rear, data, heap, push, output, corrupt, overlapped>>

(* A faulty RearAfterPop: que.rear keeps pointing at the freed node. *)
RearAfterPopSame == rear

RearAfterPop == IF rear = pop.temp THEN Dummy ELSE rear

(* que.rear goes back to que.front if temp was the last node. *)
PopSwingRear ==
  /\ pop.pc = "swing_rear"
  /\ rear' = RearAfterPop
  /\ pop' = [pop EXCEPT !.pc = "return"]
  /\ UNCHANGED <<next, data, heap, push, output, corrupt, overlapped>>

PopReturn ==
  /\ pop.pc = "return"
  /\ pop' = [pop EXCEPT !.pc = "idle", !.c = @ + 1]
  /\ \/ /\ pop.temp # NULL
        /\ output' = Append(output, data[pop.temp])
        /\ heap' = heap \ {pop.temp}
     \/ /\ pop.temp = NULL
        /\ UNCHANGED <<output, heap>>
  /\ UNCHANGED <<rear, next, data, push, corrupt, overlapped>>

-----------------------------------------------------------------------------
(* thread_push and thread_pop; nothing is said of a corrupted heap. *)

PushStep == ~corrupt /\ (PushAlloc \/ PushReadRear \/ PushLink \/ PushSwingRear)
PopStep ==
  /\ ~corrupt
  /\ PopCall \/ PopEmpty \/ PopFirst \/ PopSecond \/ PopUnlink \/ PopSwingRear \/ PopReturn

Ended == push.pc = "idle" /\ push.c = Pushes /\ pop.pc = "idle" /\ pop.c = Pops

Over == (Ended \/ corrupt) /\ UNCHANGED vars

Next == PushStep \/ PopStep \/ Over

Spec == Init /\ [][Next]_vars /\ WF_vars(PushStep) /\ WF_vars(PopStep)

-----------------------------------------------------------------------------
(* Types of the variables. *)
TypeOK ==
  /\ rear \in Cells
  /\ next \in [Cells -> Cells \cup {NULL}]
  /\ data \in [Cells -> 0 .. Pushes]
  /\ heap \subseteq Nodes
  /\ push \in Call(Pushing) /\ push.c =< Pushes
  /\ pop \in Call(Popping) /\ pop.c =< Pops
  /\ output \in Seq(1 .. Pushes)
  /\ corrupt \in BOOLEAN /\ overlapped \in BOOLEAN

(* The node reached from the dummy node in k steps, or NULL.               *)
After[k \in 0 .. Cardinality(Cells)] ==
  IF k = 0 THEN Dummy ELSE IF After[k - 1] = NULL THEN NULL ELSE next[After[k - 1]]

Reachable == {After[k] : k \in 0 .. Cardinality(Cells)} \ {NULL}

(* Elements whose QuePush has returned and that no QuePop has printed or   *)
(* is about to print.                                                      *)
Waiting ==
  (1 .. push.c) \ ({output[i] : i \in DOMAIN output} \cup
                    (IF pop.pc \in {"swing_rear", "return"} /\ pop.temp # NULL
                     THEN {data[pop.temp]} ELSE {}))

(* As long as no calls have overlapped, the chain from que.front holds     *)
(* between calls exactly the waiting elements, oldest first, ends at       *)
(* que.rear, and is all the memory in use.                                 *)
QueueIntact ==
  ~overlapped /\ push.pc = "idle" /\ pop.pc = "idle" =>
    LET n == Cardinality(Waiting)
    IN  /\ \A k \in 1 .. n : After[k] # NULL /\ data[After[k]] = push.c - n + k
        /\ rear = After[n] /\ next[rear] = NULL
        /\ heap = Reachable \ {Dummy}

(* An element that was inserted with the atomic operation of QuePush can   *)
(* be reached by QuePop until it is taken out.                             *)
NothingLost == ~corrupt => Waiting \subseteq {data[n] : n \in Reachable}

(* Elements come out in the order of insertion and at most once, whatever  *)
(* the two threads do to each other.                                       *)
OutputInOrder ==
  TypeOK /\ \A i, j \in DOMAIN output : i < j => output[i] < output[j]

(* Both loops come to an end, so the joins of main return, as long as the  *)
(* calls do not overlap: no swap of QuePush is then retried for ever.      *)
ThreadsEndInTurn == <>(Ended \/ overlapped)
=============================================================================
