------------------------------- MODULE DList -------------------------------
(***************************************************************************)
(* The doubly linked list of c-study/dllist/chunxiao_list/dlist.c, shared  *)
(* by threads that call list_add, list_add_tail and list_length, and       *)
(* destroyed by the main thread after it has joined them, as test.c does.  *)
(*                                                                         *)
(* The list is circular through a head node.  Pointer writes are separate  *)
(* steps; the lock is the one of LoopLocker, taken and given up in one     *)
(* step each, since no function of dlist.c locks twice.                    *)
(***************************************************************************)
EXTENDS Integers, Sequences, FiniteSets

CONSTANTS
  Threads,
  Nodes,          \* the addresses malloc can return; bounds the additions
  Main,           \* the thread that creates, joins and destroys
  ListHead,       \* &list->head
  NULL

ASSUME DListAssumption ==
  /\ IsFiniteSet(Nodes) /\ ListHead \notin Nodes /\ Main \notin Threads
  /\ NULL \notin Nodes \cup Threads \cup {ListHead, Main}

VARIABLES
  list,         \* "live", "destroying" or "freed"; "crashed" if the program died
  next, prev,   \* the links of ListHead and of all nodes
  heap,         \* nodes allocated and not freed
  lock,         \* who holds the list's lock, or NULL
  pc,           \* where each thread is
  node, place,  \* list_add: the new node and the pair (prev, next) to put it between
  iter, len,    \* list_length: the loop; list_destroy uses iter[Main]
  length        \* what list_length returned last

linkVars == <<next, prev>>
addVars  == <<node, place>>
lenVars  == <<iter, len, length>>
vars == <<list, linkVars, heap, lock, pc, addVars, lenVars>>

Links == Nodes \cup {ListHead}
PC == {"idle", "add_lock", "add_tail_lock", "add_next_prev", "add_new", "add_prev_next",
       "add_unlock", "len_lock", "len_walk", "len_unlock"}

(* list_create. *)
Init ==
  /\ list = "live"
  /\ next = [x \in Links |-> IF x = ListHead THEN ListHead ELSE NULL]
  /\ prev = [x \in Links |-> IF x = ListHead THEN ListHead ELSE NULL]
  /\ heap = {}
  /\ lock = NULL
  /\ pc = [t \in Threads |-> "idle"]
  /\ node = [t \in Threads |-> NULL]
  /\ place = [t \in Threads |-> <<ListHead, ListHead>>]
  /\ iter = [t \in Threads \cup {Main} |-> ListHead]
  /\ len = [t \in Threads |-> 0]
  /\ length = [t \in Threads |-> 0]

Go(t, to) == pc' = [pc EXCEPT ![t] = to]

(* A faulty dlist_lock: it lets everybody in. *)
dlist_lockNot(t) == lock' = t

dlist_lock(t) == lock = NULL /\ lock' = t

dlist_unlock == lock' = NULL

-----------------------------------------------------------------------------
(* list_add and list_add_tail *)

(* node_create. *)
NodeCreate(t, tail) ==
  /\ pc[t] = "idle" /\ list = "live"
  /\ \E n \in Nodes \ heap :
       /\ heap' = heap \cup {n}
       /\ node' = [node EXCEPT ![t] = n]
  /\ Go(t, IF tail THEN "add_tail_lock" ELSE "add_lock")
  /\ UNCHANGED <<list, linkVars, lock, place, lenVars>>

(* malloc returns NULL, and node_create writes through it before anybody   *)
(* looks at it.                                                            *)
NodeCreateFails(t) ==
  /\ pc[t] = "idle" /\ list = "live"
  /\ list' = "crashed"
  /\ UNCHANGED <<linkVars, heap, lock, pc, addVars, lenVars>>

(* dlist_lock, and the arguments of __list_add, read with the lock held. *)
AddLock(t) ==
  /\ pc[t] = "add_lock"
  /\ dlist_lock(t)
  /\ place' = [place EXCEPT ![t] = <<ListHead, next[ListHead]>>]
  /\ Go(t, "add_next_prev")
  /\ UNCHANGED <<list, linkVars, heap, node, lenVars>>

(* A faulty TailPlace: the node goes in behind the first one. *)
TailPlaceSwapped == <<next[ListHead], ListHead>>

TailPlace == <<prev[ListHead], ListHead>>

AddTailLock(t) ==
  /\ pc[t] = "add_tail_lock"
  /\ dlist_lock(t)
  /\ place' = [place EXCEPT ![t] = TailPlace]
  /\ Go(t, "add_next_prev")
  /\ UNCHANGED <<list, linkVars, heap, node, lenVars>>

(* __list_add: next->prev = _new; *)
AddNextPrev(t) ==
  /\ pc[t] = "add_next_prev"
  /\ prev' = [prev EXCEPT ![place[t][2]] = node[t]]
  /\ Go(t, "add_new")
  /\ UNCHANGED <<list, next, heap, lock, addVars, lenVars>>

(* _new->next = next; _new->prev = prev; *)
AddNew(t) ==
  /\ pc[t] = "add_new"
  /\ prev' = [prev EXCEPT ![node[t]] = place[t][1]]
  /\ next' = [next EXCEPT ![node[t]] = place[t][2]]
  /\ Go(t, "add_prev_next")
  /\ UNCHANGED <<list, heap, lock, addVars, lenVars>>

(* prev->next = _new; *)
AddPrevNext(t) ==
  /\ pc[t] = "add_prev_next"
  /\ next' = [next EXCEPT ![place[t][1]] = node[t]]
  /\ Go(t, "add_unlock")
  /\ UNCHANGED <<list, prev, heap, lock, addVars, lenVars>>

AddUnlock(t) ==
  /\ pc[t] = "add_unlock"
  /\ dlist_unlock
  /\ node' = [node EXCEPT ![t] = NULL]
  /\ Go(t, "idle")
  /\ UNCHANGED <<list, linkVars, heap, place, lenVars>>

-----------------------------------------------------------------------------
(* list_length *)

LengthCall(t) ==
  /\ pc[t] = "idle" /\ list = "live"
  /\ Go(t, "len_lock")
  /\ UNCHANGED <<list, linkVars, heap, lock, addVars, lenVars>>

LengthLock(t) ==
  /\ pc[t] = "len_lock"
  /\ dlist_lock(t)
  /\ iter' = [iter EXCEPT ![t] = ListHead]
  /\ len' = [len EXCEPT ![t] = 0]
  /\ Go(t, "len_walk")
  /\ UNCHANGED <<list, linkVars, heap, addVars, length>>

LengthWalk(t) ==
  /\ pc[t] = "len_walk"
  /\ \/ /\ next[iter[t]] # ListHead
        /\ len' = [len EXCEPT ![t] = @ + 1]
        /\ iter' = [iter EXCEPT ![t] = next[@]]
        /\ UNCHANGED pc
     \/ /\ next[iter[t]] = ListHead
        /\ Go(t, "len_unlock")
        /\ UNCHANGED <<iter, len>>
  /\ UNCHANGED <<list, linkVars, heap, lock, addVars, length>>

LengthUnlock(t) ==
  /\ pc[t] = "len_unlock"
  /\ dlist_unlock
  /\ length' = [length EXCEPT ![t] = len[t]]
  /\ Go(t, "idle")
  /\ UNCHANGED <<list, linkVars, heap, addVars, iter, len>>

-----------------------------------------------------------------------------
(* list_destroy, by the main thread once the others have been joined *)

DestroyLock ==
  /\ list = "live" /\ \A t \in Threads : pc[t] = "idle"
  /\ dlist_lock(Main)
  /\ iter' = [iter EXCEPT ![Main] = next[ListHead]]
  /\ list' = "destroying"
  /\ UNCHANGED <<linkVars, heap, pc, addVars, len, length>>

list_destroy_node(n) ==
  /\ next' = [next EXCEPT ![n] = NULL]
  /\ prev' = [prev EXCEPT ![n] = NULL]
  /\ heap' = heap \ {n}

(* A faulty LoopOver: the loop tests iter->next, so the last node stays. *)
LoopOverEarly == iter[Main] = ListHead \/ next[iter[Main]] = ListHead

LoopOver == iter[Main] = ListHead

(* One turn of the loop. *)
DestroyNode ==
  /\ list = "destroying" /\ ~ LoopOver
  /\ list_destroy_node(iter[Main])
  /\ iter' = [iter EXCEPT ![Main] = next[@]]
  /\ UNCHANGED <<list, lock, pc, addVars, len, length>>

(* The lock is given up, destroyed and freed. *)
dlist_destroy_locker == lock' = NULL

(* The head is reset, and the lock and the list are freed.                 *)
DestroyEnd ==
  /\ list = "destroying" /\ LoopOver
  /\ next' = [next EXCEPT ![ListHead] = ListHead]
  /\ prev' = [prev EXCEPT ![ListHead] = ListHead]
  /\ dlist_destroy_locker
  /\ list' = "freed"
  /\ UNCHANGED <<heap, pc, addVars, lenVars>>

Over == list \in {"freed", "crashed"} /\ UNCHANGED vars

ThreadStep(t) ==
  /\ list # "crashed"
  /\ \/ \E tail \in BOOLEAN : NodeCreate(t, tail)
     \/ NodeCreateFails(t)
     \/ AddLock(t) \/ AddTailLock(t) \/ AddNextPrev(t) \/ AddNew(t) \/ AddPrevNext(t)
     \/ AddUnlock(t)
     \/ LengthCall(t) \/ LengthLock(t) \/ LengthWalk(t) \/ LengthUnlock(t)

Next ==
  \/ \E t \in Threads : ThreadStep(t)
  \/ DestroyLock \/ DestroyNode \/ DestroyEnd
  \/ Over

Spec == Init /\ [][Next]_vars

-----------------------------------------------------------------------------
(* Types of the variables. *)
TypeOK ==
  /\ list \in {"live", "destroying", "freed", "crashed"}
  /\ next \in [Links -> Links \cup {NULL}] /\ prev \in [Links -> Links \cup {NULL}]
  /\ heap \subseteq Nodes
  /\ lock \in Threads \cup {Main, NULL}
  /\ pc \in [Threads -> PC]
  /\ node \in [Threads -> Nodes \cup {NULL}]
  /\ place \in [Threads -> Links \X Links]
  /\ iter \in [Threads \cup {Main} -> Links]
  /\ len \in [Threads -> 0 .. Cardinality(Nodes)]
  /\ length \in [Threads -> 0 .. Cardinality(Nodes)]

(* The node reached after k steps forward from the head.                   *)
After[k \in 0 .. Cardinality(Links)] ==
  IF k = 0 \/ After[k - 1] = NULL THEN ListHead ELSE next[After[k - 1]]

(* The list as a thread that walks it forward finds it.                    *)
Forward ==
  LET back == {k \in 1 .. Cardinality(Links) : After[k] = ListHead}
      end  == CHOOSE k \in back : \A j \in back : k =< j
  IN  IF back = {} THEN << >> ELSE [i \in 1 .. (end - 1) |-> After[i]]

(* Nodes whose creator has not yet put them in the list.                   *)
Pending == {n \in heap : \E t \in Threads : node[t] = n /\ pc[t] # "add_unlock"}

(* Whenever the lock is free the list is a proper ring: forward from the   *)
(* head it visits every node that has been added, once, and each prev      *)
(* pointer undoes the next pointer before it.  At all times the walks of   *)
(* list_length and list_destroy stand on a node or on the head (TypeOK).   *)
ListIntact ==
  /\ TypeOK
  /\ list = "live" /\ lock = NULL =>
       /\ {Forward[i] : i \in 1 .. Len(Forward)} = heap \ Pending
       /\ Len(Forward) = Cardinality(heap \ Pending)
       /\ \A x \in (heap \ Pending) \cup {ListHead} : prev[next[x]] = x

Abstract == INSTANCE SharedList
              WITH items <- IF list \in {"live", "crashed"} THEN Forward ELSE << >>

(* Threads that share the list see additions at its front and at its back  *)
(* and lengths as if each call happened at one moment, although a walk and *)
(* an insertion take many steps.                                           *)
ImplementsSharedList == Abstract!Spec

(* list_destroy frees every node that was ever added.                      *)
AllReclaimed == list = "freed" => heap = {}
=============================================================================
