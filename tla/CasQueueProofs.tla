---------------------------- MODULE CasQueueProofs ----------------------------
(***************************************************************************)
(* Safety of the queue of ring1.c for every number of nodes, pushes and    *)
(* pops.  The inductive invariant of the racing threads is                 *)
(*   TypeOK    types of the variables;                                     *)
(*   Calls     what the locals of QuePush and QuePop say of the queue;     *)
(*   Linked    the nodes QuePop can still come to: where their next        *)
(*             pointers lead, and that the elements in them ascend;        *)
(*   Printed   the elements printed are smaller than those to come.        *)
(* While the calls do not overlap it is strengthened by InTurn: the nodes  *)
(* in use form one chain that holds consecutive elements.                  *)
(***************************************************************************)
EXTENDS CasQueue, FiniteSetTheorems, TLAPS

(* QuePop has taken temp out of the chain and will free it. *)
Removing == pop.pc \in {"swing_rear", "return"}

(* QuePop has temp, and has not freed it. *)
Taking == pop.pc \in {"second", "unlink", "swing_rear", "return"}

(* The dummy node and the nodes in use, less the one being removed. *)
Live == (heap \cup {Dummy}) \ (IF Removing THEN {pop.temp} ELSE {})

Calls ==
  /\ rear \in heap \cup {Dummy}
  /\ push.pc # "idle" =>
       /\ push.c < Pushes /\ push.temp \in heap /\ data[push.temp] = push.c + 1
       /\ Taking => pop.temp # push.temp
  /\ push.pc \in {"read_rear", "link"} =>
       /\ rear # push.temp
       /\ next[push.temp] = NULL
       /\ \A n \in Live : next[n] # push.temp
  /\ push.pc \in {"link", "swing_rear"} =>
       push.p \in Cells /\ push.p # push.temp /\ rear \in {push.p, Dummy}
  /\ push.pc = "swing_rear" /\ push.p \in Live => next[push.p] = push.temp
  /\ pop.pc # "idle" => pop.c < Pops
  /\ pop.pc \in {"first", "second", "unlink", "swing_rear"} => rear # Dummy
  /\ pop.pc \in {"second", "unlink"} => next[Dummy] = pop.temp
  /\ pop.pc = "unlink" /\ pop.p # NULL => pop.temp # NULL /\ next[pop.temp] = pop.p
  /\ pop.pc = "return" => rear # pop.temp
  /\ Taking => pop.temp \in heap \cup {NULL}

Linked ==
  /\ data[Dummy] = 0
  /\ \A n \in heap :
       data[n] \in 1 .. push.c \/ (push.pc # "idle" /\ n = push.temp)
  /\ \A n \in Live : next[n] # NULL =>
       /\ next[n] \in heap /\ next[n] \in Live
       /\ data[n] < data[next[n]]
       /\ \A m \in Live : next[m] = next[n] => m = n

Printed ==
  /\ \A i \in 1 .. Len(output) :
       /\ output[i] \in 1 .. push.c
       /\ next[Dummy] # NULL => output[i] < data[next[Dummy]]
       /\ Removing /\ pop.temp # NULL => output[i] < data[pop.temp]
  /\ Removing /\ pop.temp # NULL /\ next[Dummy] # NULL => data[pop.temp] < data[next[Dummy]]
  /\ \A i, j \in 1 .. Len(output) : i < j => output[i] < output[j]

RaceInv == TypeOK /\ Calls /\ Linked /\ Printed

LEMMA RaceInit == Init => RaceInv
<1> SUFFICES ASSUME Init PROVE RaceInv
  OBVIOUS
<1>1. TypeOK
  <2>1. push \in Call(Pushing) /\ pop \in Call(Popping) /\ push.c = 0 /\ pop.c = 0
    BY DEF Init, Call, Pushing, Popping
  <2>2. 0 \in 0 .. Pushes /\ 0 =< Pushes /\ 0 =< Pops
    BY CasQueueAssumption
  <2>3. << >> \in Seq(1 .. Pushes)
    OBVIOUS
  <2> QED
    BY <2>1, <2>2, <2>3 DEF Init, TypeOK, Cells
<1>2. Calls /\ Linked /\ Printed
  BY CasQueueAssumption DEF Init, Calls, Linked, Printed, Cells, Removing, Taking, Live
<1> QED
  BY <1>1, <1>2 DEF RaceInv

(* The types, with the records taken apart. *)
Fields ==
  /\ rear \in Cells /\ heap \subseteq Nodes
  /\ next \in [Cells -> Cells \cup {NULL}] /\ data \in [Cells -> 0 .. Pushes]
  /\ push.pc \in Pushing /\ pop.pc \in Popping
  /\ push.c \in Nat /\ push.c =< Pushes /\ pop.c \in Nat /\ pop.c =< Pops
  /\ push.temp \in Cells \cup {NULL} /\ push.p \in Cells \cup {NULL}
  /\ pop.temp \in Cells \cup {NULL} /\ pop.p \in Cells \cup {NULL}
  /\ output \in Seq(1 .. Pushes) /\ Len(output) \in Nat
  /\ Dummy \in Cells /\ Dummy \notin heap /\ Nodes \subseteq Cells
  /\ NULL \notin Cells /\ NULL \notin heap /\ Pushes \in Nat /\ Pops \in Nat

LEMMA FieldsLemma == TypeOK => Fields
BY CasQueueAssumption DEF TypeOK, Fields, Cells, Call

(* QuePush keeps the invariant. *)
LEMMA PushAllocKeeps == RaceInv /\ PushAlloc => RaceInv'
<1> SUFFICES ASSUME RaceInv, PushAlloc PROVE RaceInv'
  OBVIOUS
<1>f. Fields
  BY FieldsLemma DEF RaceInv
<1>0. PICK n \in Nodes \ heap :
        /\ heap' = heap \cup {n}
        /\ data' = [data EXCEPT ![n] = push.c + 1]
        /\ next' = [next EXCEPT ![n] = NULL]
        /\ push' = [push EXCEPT !.pc = "read_rear", !.temp = n]
  BY DEF PushAlloc
<1>1. /\ push.pc = "idle" /\ push.c < Pushes
      /\ overlapped' = (overlapped \/ pop.pc # "idle")
      /\ UNCHANGED <<rear, pop, output, corrupt>>
  BY DEF PushAlloc
<1>2. /\ push'.pc = "read_rear" /\ push'.temp = n /\ push'.c = push.c /\ push'.p = push.p
      /\ push' \in Call(Pushing)
  BY <1>0, <1>f DEF RaceInv, TypeOK, Call, Pushing, Fields
<1>3. /\ n \in Cells /\ n # Dummy /\ n # NULL
      /\ next'[n] = NULL /\ data'[n] = push.c + 1
      /\ \A m \in Cells : m # n => next'[m] = next[m] /\ data'[m] = data[m]
  <2>1. n \in Cells /\ n # Dummy /\ n # NULL
    BY <1>0, CasQueueAssumption DEF Cells
  <2> QED
    BY <1>0, <1>f, <2>1 DEF Fields
<1>4. (Taking' <=> Taking) /\ (Removing' <=> Removing)
  BY <1>1 DEF Taking, Removing
<1>5. Taking => pop.temp # n
  BY <1>0, <1>f DEF RaceInv, Calls, Fields
<1>6. Live' = Live \cup {n} /\ n \notin Live /\ Live \subseteq Cells
  BY <1>0, <1>1, <1>3, <1>4, <1>5, <1>f DEF Live, Taking, Removing, Fields
<1>7. TypeOK'
  <2>1. data' \in [Cells -> 0 .. Pushes] /\ next' \in [Cells -> Cells \cup {NULL}]
    BY <1>0, <1>1, <1>f DEF Fields
  <2>2. heap' \subseteq Nodes /\ overlapped' \in BOOLEAN
    BY <1>0, <1>1, <1>f DEF Fields, RaceInv, TypeOK
  <2> QED
    BY <1>1, <1>2, <2>1, <2>2 DEF RaceInv, TypeOK
<1>8. \A m \in Live : next'[m] # n
  <2> SUFFICES ASSUME NEW m \in Live, next[m] = n PROVE FALSE
    BY <1>3, <1>6
  <2> QED
    BY <1>0, <1>3 DEF RaceInv, Linked
<1>9. Calls'
  BY <1>0, <1>1, <1>2, <1>3, <1>4, <1>5, <1>6, <1>8, <1>f
     DEF RaceInv, Calls, Fields, Taking, Removing
<1>10. Linked'
  <2>1. \A m \in heap' : data'[m] \in 1 .. push'.c \/ (push'.pc # "idle" /\ m = push'.temp)
    BY <1>0, <1>1, <1>2, <1>3, <1>f DEF RaceInv, Linked, Fields
  <2>2. \A m \in Live' : next'[m] # NULL =>
          /\ m \in Live /\ next'[m] = next[m] /\ next[m] \in Live /\ next[m] # n
          /\ data'[m] = data[m] /\ data'[next[m]] = data[next[m]]
    BY <1>3, <1>6 DEF RaceInv, Linked
  <2>3. data'[Dummy] = 0
    BY <1>3, <1>f DEF RaceInv, Linked, Fields
  <2> QED
    BY <1>0, <1>6, <2>1, <2>2, <2>3 DEF RaceInv, Linked
<1>11. Printed'
  <2>1. next'[Dummy] = next[Dummy]
        /\ (next[Dummy] # NULL => data'[next[Dummy]] = data[next[Dummy]])
    <3>1. Dummy \in Live /\ Dummy \in Cells
      BY <1>f DEF Live, Fields, RaceInv, Calls, Taking, Removing
    <3>2. next[Dummy] # NULL => next[Dummy] \in Live
      BY <3>1 DEF RaceInv, Linked
    <3> QED
      BY <1>3, <1>6, <3>1, <3>2
  <2>2. Removing /\ pop.temp # NULL => data'[pop.temp] = data[pop.temp]
    BY <1>3, <1>5, <1>f DEF Taking, Removing, Fields
  <2> QED
    BY <1>1, <1>2, <1>4, <2>1, <2>2 DEF RaceInv, Printed
<1> QED
  BY <1>7, <1>9, <1>10, <1>11 DEF RaceInv

LEMMA PushReadRearKeeps == RaceInv /\ PushReadRear => RaceInv'
<1> SUFFICES ASSUME RaceInv, PushReadRear PROVE RaceInv'
  OBVIOUS
<1>f. Fields
  BY FieldsLemma DEF RaceInv
<1>1. /\ push.pc = "read_rear"
      /\ UNCHANGED <<rear, next, data, heap, pop, output, corrupt, overlapped>>
  BY DEF PushReadRear
<1>2. /\ push'.pc = "link" /\ push'.temp = push.temp /\ push'.c = push.c /\ push'.p = rear
      /\ push' \in Call(Pushing)
  BY <1>f DEF RaceInv, TypeOK, Call, Pushing, Fields, PushReadRear
<1>3. (Taking' <=> Taking) /\ (Removing' <=> Removing) /\ Live' = Live
  BY <1>1 DEF Taking, Removing, Live
<1>4. TypeOK'
  BY <1>1, <1>2 DEF RaceInv, TypeOK
<1>5. Calls'
  BY <1>1, <1>2, <1>3, <1>f DEF RaceInv, Calls, Fields
<1>6. Linked' /\ Printed'
  BY <1>1, <1>2, <1>3 DEF RaceInv, Linked, Printed
<1> QED
  BY <1>4, <1>5, <1>6 DEF RaceInv

LEMMA PushLinkKeeps == RaceInv /\ PushLink => RaceInv'
<1> SUFFICES ASSUME RaceInv, PushLink PROVE RaceInv'
  OBVIOUS
<1>f. Fields
  BY FieldsLemma DEF RaceInv
<1>1. push.pc = "link" /\ UNCHANGED <<rear, data, heap, pop, output, overlapped>>
  BY DEF PushLink
<1>3. (Taking' <=> Taking) /\ (Removing' <=> Removing) /\ Live' = Live
  BY <1>1 DEF Taking, Removing, Live
<1>4. CASE corrupt' = TRUE /\ UNCHANGED <<next, push>>
  <2>1. TypeOK'
    BY <1>1, <1>4 DEF RaceInv, TypeOK
  <2> QED
    BY <1>1, <1>3, <1>4, <2>1 DEF RaceInv, Calls, Linked, Printed
<1>5. CASE push' = [push EXCEPT !.pc = "read_rear"] /\ UNCHANGED <<next, corrupt>>
  <2>1. /\ push'.pc = "read_rear" /\ push'.temp = push.temp /\ push'.c = push.c
        /\ push' \in Call(Pushing)
    BY <1>5, <1>f DEF RaceInv, TypeOK, Call, Pushing, Fields
  <2>2. TypeOK'
    BY <1>1, <1>5, <2>1 DEF RaceInv, TypeOK
  <2>3. Calls'
    BY <1>1, <1>3, <1>5, <2>1 DEF RaceInv, Calls
  <2> QED
    BY <1>1, <1>3, <1>5, <2>1, <2>2, <2>3 DEF RaceInv, Linked, Printed
<1>6. CASE /\ push.p \in heap \cup {Dummy} /\ next[push.p] = NULL
           /\ next' = [next EXCEPT ![push.p] = push.temp]
           /\ push' = [push EXCEPT !.pc = "swing_rear"]
           /\ UNCHANGED corrupt
  <2>1. /\ push'.pc = "swing_rear" /\ push'.temp = push.temp /\ push'.c = push.c
        /\ push'.p = push.p /\ push' \in Call(Pushing)
    BY <1>6, <1>f DEF RaceInv, TypeOK, Call, Pushing, Fields
  <2>2. /\ push.p \in Cells /\ push.temp \in heap /\ push.p # push.temp
        /\ push.temp \in Cells /\ push.temp # NULL /\ push.temp # Dummy
        /\ data[push.temp] = push.c + 1 /\ push.c < Pushes
    BY <1>1, <1>6, <1>f DEF RaceInv, Calls, Fields
  <2>3. /\ next'[push.p] = push.temp
        /\ \A m \in Cells : m # push.p => next'[m] = next[m]
    BY <1>6, <2>2, <1>f DEF Fields
  <2>4. Live \subseteq Cells /\ Dummy \in Live /\ push.temp \in Live
    BY <1>1, <1>f, <2>2 DEF RaceInv, Calls, Live, Fields, Taking, Removing
  <2>5. TypeOK'
    BY <1>1, <1>6, <2>1, <2>2, <1>f DEF RaceInv, TypeOK, Fields
  <2>6. \A n \in Live : next[n] # push.temp
    BY <1>1 DEF RaceInv, Calls
  <2>7. push.p = Dummy => rear = Dummy
    BY <1>1 DEF RaceInv, Calls
  <2>8. pop.pc \in {"second", "unlink"} => next'[Dummy] = pop.temp
    BY <2>3, <2>7, <1>f DEF RaceInv, Calls, Fields
  <2>9. pop.pc = "unlink" /\ pop.p # NULL => next'[pop.temp] = pop.p
    BY <1>6, <2>3, <1>f DEF RaceInv, Calls, Fields
  <2>10. Calls'
    BY <1>1, <1>3, <2>1, <2>2, <2>3, <2>8, <2>9 DEF RaceInv, Calls
  <2>11. data[push.p] < data[push.temp]
    BY <1>6, <1>f, <2>2 DEF RaceInv, Linked, Fields
  <2>12. ASSUME NEW n \in Live, next'[n] # NULL
         PROVE  /\ next'[n] \in heap /\ next'[n] \in Live
                /\ data[n] < data[next'[n]]
                /\ \A m \in Live : next'[m] = next'[n] => m = n
    <3>1. CASE n = push.p
      BY <2>2, <2>3, <2>4, <2>6, <2>11, <3>1
    <3>2. CASE n # push.p
      BY <2>2, <2>3, <2>4, <2>6, <2>12, <3>2 DEF RaceInv, Linked
    <3> QED
      BY <3>1, <3>2
  <2>13. Linked'
    BY <1>1, <1>3, <2>1, <2>12 DEF RaceInv, Linked
  <2>14. Printed'
    <3>1. CASE push.p = Dummy
      <4>1. next'[Dummy] = push.temp
        BY <2>3, <3>1
      <4>2. \A i \in 1 .. Len(output) : output[i] < push.c + 1
        BY <1>f DEF RaceInv, Printed, Fields
      <4>3. Removing /\ pop.temp # NULL => data[pop.temp] < push.c + 1
        BY <1>1, <1>f, <2>2 DEF RaceInv, Calls, Linked, Fields, Taking, Removing
      <4> QED
        BY <1>1, <1>3, <2>1, <2>2, <4>1, <4>2, <4>3 DEF RaceInv, Printed
    <3>2. CASE push.p # Dummy
      <4>1. next'[Dummy] = next[Dummy]
        BY <2>3, <2>4, <3>2
      <4> QED
        BY <1>1, <1>3, <2>1, <4>1 DEF RaceInv, Printed
    <3> QED
      BY <3>1, <3>2
  <2> QED
    BY <2>5, <2>10, <2>13, <2>14 DEF RaceInv
<1> QED
  BY <1>4, <1>5, <1>6 DEF PushLink

LEMMA PushSwingRearKeeps == RaceInv /\ PushSwingRear => RaceInv'
<1> SUFFICES ASSUME RaceInv, PushSwingRear PROVE RaceInv'
  OBVIOUS
<1>f. Fields
  BY FieldsLemma DEF RaceInv
<1>1. /\ push.pc = "swing_rear"
      /\ UNCHANGED <<next, data, heap, pop, output, corrupt, overlapped>>
  BY DEF PushSwingRear
<1>2. /\ push'.pc = "idle" /\ push'.temp = push.temp /\ push'.c = push.c + 1
      /\ push.c < Pushes /\ push' \in Call(Pushing)
  <2>1. push.c < Pushes /\ push.c + 1 \in Nat
    BY <1>1, <1>f DEF RaceInv, Calls, Fields
  <2>2. push \in Call(Pushing) /\ push' = [push EXCEPT !.pc = "idle", !.c = push.c + 1]
    BY DEF RaceInv, TypeOK, PushSwingRear
  <2> QED
    BY <2>1, <2>2 DEF Call, Pushing
<1>3. (Taking' <=> Taking) /\ (Removing' <=> Removing) /\ Live' = Live
  BY <1>1 DEF Taking, Removing, Live
<1>4. rear' \in {rear, push.temp} /\ push.temp \in heap /\ push.temp # Dummy
      /\ data[push.temp] = push.c + 1 /\ (Taking => pop.temp # push.temp)
  BY <1>1, <1>f DEF RaceInv, Calls, Fields, PushSwingRear, RearAfterPush
<1>5. TypeOK'
  BY <1>1, <1>2, <1>4, <1>f DEF RaceInv, TypeOK, Fields
<1>6. Calls'
  BY <1>1, <1>2, <1>3, <1>4 DEF RaceInv, Calls, Taking
<1>7. Linked'
  <2>1. \A n \in heap : data[n] \in 1 .. (push.c + 1)
    BY <1>4, <1>f DEF RaceInv, Linked, Fields
  <2> QED
    BY <1>1, <1>2, <1>3, <2>1 DEF RaceInv, Linked
<1>8. Printed'
  <2>1. \A i \in 1 .. Len(output) : output[i] \in 1 .. (push.c + 1)
    BY <1>f DEF RaceInv, Printed, Fields
  <2> QED
    BY <1>1, <1>2, <1>3, <2>1 DEF RaceInv, Printed
<1> QED
  BY <1>5, <1>6, <1>7, <1>8 DEF RaceInv

(* QuePop keeps it.  A step that only moves pop on within a call. *)
LEMMA PopCallKeeps == RaceInv /\ PopCall => RaceInv'
<1> SUFFICES ASSUME RaceInv, PopCall PROVE RaceInv'
  OBVIOUS
<1>f. Fields
  BY FieldsLemma DEF RaceInv
<1>1. /\ pop.pc = "idle" /\ pop.c < Pops
      /\ overlapped' \in BOOLEAN
      /\ UNCHANGED <<rear, next, data, heap, push, output, corrupt>>
  BY DEF PopCall, RaceInv, TypeOK
<1>2. pop'.pc = "empty" /\ pop'.c = pop.c /\ pop' \in Call(Popping)
  BY <1>f DEF RaceInv, TypeOK, Call, Popping, Fields, PopCall
<1>3. ~Taking /\ ~Taking' /\ ~Removing /\ ~Removing' /\ Live' = Live
  BY <1>1, <1>2 DEF Taking, Removing, Live
<1>4. TypeOK'
  BY <1>1, <1>2, <1>f DEF RaceInv, TypeOK, Fields
<1>5. Calls'
  BY <1>1, <1>2, <1>3 DEF RaceInv, Calls
<1>6. Linked' /\ Printed'
  BY <1>1, <1>2, <1>3 DEF RaceInv, Linked, Printed
<1> QED
  BY <1>4, <1>5, <1>6 DEF RaceInv

LEMMA PopEmptyKeeps == RaceInv /\ PopEmpty => RaceInv'
<1> SUFFICES ASSUME RaceInv, PopEmpty PROVE RaceInv'
  OBVIOUS
<1>f. Fields
  BY FieldsLemma DEF RaceInv
<1>1. /\ pop.pc = "empty"
      /\ UNCHANGED <<rear, next, data, heap, push, output, corrupt, overlapped>>
  BY DEF PopEmpty
<1>2. /\ pop' \in Call(Popping) /\ pop'.c =< Pops
      /\ pop'.pc = "idle" \/ (pop'.pc = "first" /\ rear # Dummy /\ pop'.c < Pops)
  <2>1. pop.c < Pops /\ pop.c + 1 \in Nat /\ pop.c + 1 =< Pops
    BY <1>1, <1>f DEF RaceInv, Calls, Fields
  <2>2. pop \in Call(Popping)
    BY DEF RaceInv, TypeOK
  <2>3. CASE rear = Dummy
    <3>1. pop' = [pop EXCEPT !.pc = "idle", !.c = pop.c + 1]
      BY <2>3 DEF PopEmpty
    <3> QED
      BY <2>1, <2>2, <3>1 DEF Call, Popping
  <2>4. CASE rear # Dummy
    <3>1. pop' = [pop EXCEPT !.pc = "first"]
      BY <2>4 DEF PopEmpty
    <3> QED
      BY <2>1, <2>2, <2>4, <3>1, <1>f DEF Call, Popping, Fields
  <2> QED
    BY <2>3, <2>4
<1>3. ~Taking /\ ~Taking' /\ ~Removing /\ ~Removing' /\ Live' = Live
  BY <1>1, <1>2 DEF Taking, Removing, Live
<1>4. TypeOK'
  BY <1>1, <1>2, <1>f DEF RaceInv, TypeOK, Fields
<1>5. Calls'
  BY <1>1, <1>2, <1>3 DEF RaceInv, Calls
<1>6. Linked' /\ Printed'
  BY <1>1, <1>2, <1>3 DEF RaceInv, Linked, Printed
<1> QED
  BY <1>4, <1>5, <1>6 DEF RaceInv

LEMMA PopFirstKeeps == RaceInv /\ PopFirst => RaceInv'
<1> SUFFICES ASSUME RaceInv, PopFirst PROVE RaceInv'
  OBVIOUS
<1>f. Fields
  BY FieldsLemma DEF RaceInv
<1>1. /\ pop.pc = "first"
      /\ UNCHANGED <<rear, next, data, heap, push, output, corrupt, overlapped>>
  BY DEF PopFirst
<1>2. /\ pop'.pc = "second" /\ pop'.c = pop.c /\ pop'.temp = next[Dummy]
      /\ pop' \in Call(Popping)
  BY <1>f DEF RaceInv, TypeOK, Call, Popping, Fields, PopFirst
<1>3. ~Taking /\ Taking' /\ ~Removing /\ ~Removing' /\ Live' = Live
  BY <1>1, <1>2 DEF Taking, Removing, Live
<1>4. Dummy \in Live /\ Live = heap \cup {Dummy}
  BY <1>3 DEF Live
<1>5. TypeOK'
  BY <1>1, <1>2, <1>f DEF RaceInv, TypeOK, Fields
<1>6. next[Dummy] \in heap \cup {NULL}
  BY <1>4 DEF RaceInv, Linked
<1>7. ASSUME push.pc # "idle", next[Dummy] = push.temp PROVE FALSE
  <2>1. push.temp # NULL /\ push.pc \in {"read_rear", "link", "swing_rear"}
    BY <1>f, <1>7 DEF RaceInv, Calls, Fields, Pushing
  <2>2. CASE push.pc \in {"read_rear", "link"}
    BY <1>4, <1>7, <2>2 DEF RaceInv, Calls
  <2>3. CASE push.pc = "swing_rear"
    <3>1. rear = push.p /\ rear # Dummy /\ push.p \in Live
      BY <1>1, <1>4, <2>3 DEF RaceInv, Calls
    <3>2. next[push.p] = push.temp
      BY <2>3, <3>1 DEF RaceInv, Calls
    <3> QED
      BY <1>4, <1>7, <2>1, <3>1, <3>2 DEF RaceInv, Linked
  <2> QED
    BY <2>1, <2>2, <2>3
<1>8. Calls'
  BY <1>1, <1>2, <1>3, <1>6, <1>7 DEF RaceInv, Calls
<1>9. Linked' /\ Printed'
  BY <1>1, <1>2, <1>3 DEF RaceInv, Linked, Printed
<1> QED
  BY <1>5, <1>8, <1>9 DEF RaceInv

LEMMA PopSecondKeeps == RaceInv /\ PopSecond => RaceInv'
<1> SUFFICES ASSUME RaceInv, PopSecond PROVE RaceInv'
  OBVIOUS
<1>f. Fields
  BY FieldsLemma DEF RaceInv
<1>1. /\ pop.pc = "second"
      /\ UNCHANGED <<rear, next, data, heap, push, output, corrupt, overlapped>>
  BY DEF PopSecond
<1>2. /\ pop'.pc = "unlink" /\ pop'.c = pop.c /\ pop'.temp = pop.temp
      /\ pop'.p # NULL => pop.temp # NULL /\ next[pop.temp] = pop'.p
      /\ pop' \in Call(Popping)
  <2>1. (IF pop.temp = NULL THEN NULL ELSE next[pop.temp]) \in Cells \cup {NULL}
    BY <1>f DEF Fields
  <2>2. pop \in Call(Popping)
    BY DEF RaceInv, TypeOK
  <2> QED
    BY <2>1, <2>2 DEF Call, Popping, PopSecond
<1>3. Taking /\ Taking' /\ ~Removing /\ ~Removing' /\ Live' = Live
  BY <1>1, <1>2 DEF Taking, Removing, Live
<1>4. TypeOK'
  BY <1>1, <1>2, <1>f DEF RaceInv, TypeOK, Fields
<1>5. Calls'
  BY <1>1, <1>2, <1>3 DEF RaceInv, Calls
<1>6. Linked' /\ Printed'
  BY <1>1, <1>2, <1>3 DEF RaceInv, Linked, Printed
<1> QED
  BY <1>4, <1>5, <1>6 DEF RaceInv

LEMMA PopUnlinkKeeps == RaceInv /\ PopUnlink => RaceInv'
<1> SUFFICES ASSUME RaceInv, PopUnlink PROVE RaceInv'
  OBVIOUS
<1>f. Fields
  BY FieldsLemma DEF RaceInv
<1>1. /\ pop.pc = "unlink" /\ next[Dummy] = pop.temp
      /\ UNCHANGED <<rear, data, heap, push, output, corrupt, overlapped>>
  BY DEF PopUnlink, RaceInv, Calls
<1>2. /\ pop'.pc = "swing_rear" /\ pop'.c = pop.c /\ pop'.temp = pop.temp /\ pop'.p = pop.p
      /\ pop' \in Call(Popping)
  BY <1>1, <1>f DEF RaceInv, TypeOK, Call, Popping, Fields, PopUnlink
<1>3. /\ next' = [next EXCEPT ![Dummy] = pop.p]
      /\ next'[Dummy] = pop.p /\ \A m \in Cells : m # Dummy => next'[m] = next[m]
  BY <1>1, <1>f DEF PopUnlink, Unlinked, Fields
<1>4. Taking /\ Taking' /\ ~Removing /\ Removing'
  BY <1>1, <1>2 DEF Taking, Removing
<1>5. Live = heap \cup {Dummy} /\ Live' = Live \ {pop.temp} /\ Live \subseteq Cells
  BY <1>1, <1>2, <1>4, <1>f DEF Live, Fields
<1>6. /\ pop.temp \in heap \cup {NULL} /\ pop.temp # Dummy
      /\ pop.temp # NULL => pop.temp \in Live
      /\ pop.temp = NULL => pop.p = NULL
      /\ pop.p # NULL => /\ next[pop.temp] = pop.p /\ pop.p \in heap /\ pop.p \in Live
                         /\ pop.p # pop.temp /\ data[pop.temp] < data[pop.p]
  <2>1. /\ pop.temp \in heap \cup {NULL} /\ pop.temp # Dummy
        /\ pop.p # NULL => pop.temp # NULL /\ next[pop.temp] = pop.p
    BY <1>1, <1>4, <1>f DEF RaceInv, Calls, Fields
  <2>2. pop.temp # NULL => pop.temp \in Live
    BY <1>5, <2>1
  <2>3. pop.p # NULL => pop.p \in heap /\ pop.p \in Live /\ data[pop.temp] < data[pop.p]
    BY <2>1, <2>2 DEF RaceInv, Linked
  <2>4. pop.p # NULL => pop.p # pop.temp
    <3>1. pop.p # NULL => data[pop.temp] \in Int
      BY <2>1, <1>f DEF Fields
    <3> QED
      BY <2>3, <3>1
  <2> QED
    BY <2>1, <2>2, <2>3, <2>4
<1>7. TypeOK'
  BY <1>1, <1>2, <1>3, <1>f DEF RaceInv, TypeOK, Fields
<1>8. \A m \in Live' : m # Dummy => next'[m] = next[m] /\ m \in Live
  BY <1>3, <1>5
<1>9. rear # Dummy
  BY <1>1 DEF RaceInv, Calls
<1>10. \A n \in Live' : next'[n] # NULL =>
         /\ next'[n] \in heap /\ next'[n] \in Live'
         /\ data[n] < data[next'[n]]
         /\ \A m \in Live' : next'[m] = next'[n] => m = n
  <2>0. Dummy \in Live /\ next[Dummy] = pop.temp /\ data[Dummy] = 0
    BY <1>1, <1>5 DEF RaceInv, Linked
  <2>1. \A m \in Live : m # Dummy => next[m] # pop.temp \/ pop.temp = NULL
    BY <2>0 DEF RaceInv, Linked
  <2>2. \A m \in Live' : m # Dummy => next[m] # pop.p \/ pop.p = NULL
    BY <1>5, <1>6 DEF RaceInv, Linked
  <2>3. pop.p # NULL => 0 < data[pop.p]
    BY <1>6, <1>f, CasQueueAssumption DEF RaceInv, Linked, Fields
  <2>4. \A m \in Live : next[m] # NULL => /\ next[m] \in heap /\ next[m] \in Live
                                          /\ data[m] < data[next[m]]
                                          /\ \A n \in Live : next[n] = next[m] => n = m
    BY DEF RaceInv, Linked
  <2>5. ASSUME NEW n \in Live', n # Dummy, next'[n] # NULL
        PROVE  /\ next'[n] \in heap /\ next'[n] \in Live' /\ data[n] < data[next'[n]]
               /\ \A m \in Live' : next'[m] = next'[n] => m = n
    BY <1>3, <1>5, <1>8, <2>1, <2>2, <2>4, <2>5
  <2>6. next'[Dummy] # NULL =>
               /\ next'[Dummy] \in heap /\ next'[Dummy] \in Live'
               /\ data[Dummy] < data[next'[Dummy]]
               /\ \A m \in Live' : next'[m] = next'[Dummy] => m = Dummy
    BY <1>3, <1>5, <1>6, <1>8, <2>0, <2>2, <2>3
  <2> QED
    BY <2>5, <2>6
<1>11. Linked'
  BY <1>1, <1>10 DEF RaceInv, Linked
<1>12. Calls'
  <2>1. push.pc \in {"read_rear", "link"} =>
          next'[push.temp] = NULL /\ \A n \in Live' : next'[n] # push.temp
    <3>1. push.pc \in {"read_rear", "link"} =>
            /\ push.temp \in heap /\ push.temp # Dummy /\ push.temp \in Cells
            /\ next[push.temp] = NULL /\ push.temp # pop.temp
            /\ \A n \in Live : next[n] # push.temp
      BY <1>4, <1>f DEF RaceInv, Calls, Fields
    <3>2. push.pc \in {"read_rear", "link"} => pop.p # push.temp
      BY <1>6, <3>1, <1>f DEF Fields
    <3> QED
      BY <1>3, <1>8, <3>1, <3>2
  <2>2. push.pc = "swing_rear" /\ push.p \in Live' => next'[push.p] = push.temp
    <3>1. push.pc = "swing_rear" => push.p # Dummy
      BY <1>9 DEF RaceInv, Calls
    <3> QED
      BY <1>8, <3>1 DEF RaceInv, Calls
  <2> QED
    BY <1>1, <1>2, <1>4, <1>9, <2>1, <2>2 DEF RaceInv, Calls
<1>13. Printed'
  <2>1. \A i \in 1 .. Len(output) : pop.temp # NULL => output[i] < data[pop.temp]
    BY <1>1 DEF RaceInv, Printed
  <2>2. \A i \in 1 .. Len(output) : pop.p # NULL => output[i] < data[pop.p]
    <3> SUFFICES ASSUME NEW i \in 1 .. Len(output), pop.p # NULL
                 PROVE  output[i] < data[pop.p]
      OBVIOUS
    <3>1. /\ output[i] < data[pop.temp] /\ data[pop.temp] < data[pop.p]
          /\ data[pop.temp] \in Int /\ data[pop.p] \in Int /\ output[i] \in Int
      BY <1>6, <2>1, <1>f DEF Fields, RaceInv, Printed
    <3> QED
      BY <3>1
  <2> QED
    BY <1>1, <1>2, <1>3, <1>6, <2>1, <2>2 DEF RaceInv, Printed
<1> QED
  BY <1>7, <1>11, <1>12, <1>13 DEF RaceInv

LEMMA PopSwingRearKeeps == RaceInv /\ PopSwingRear => RaceInv'
<1> SUFFICES ASSUME RaceInv, PopSwingRear PROVE RaceInv'
  OBVIOUS
<1>f. Fields
  BY FieldsLemma DEF RaceInv
<1>1. /\ pop.pc = "swing_rear"
      /\ UNCHANGED <<next, data, heap, push, output, corrupt, overlapped>>
  BY DEF PopSwingRear
<1>2. /\ pop'.pc = "return" /\ pop'.c = pop.c /\ pop'.temp = pop.temp
      /\ pop' \in Call(Popping)
  BY <1>f DEF RaceInv, TypeOK, Call, Popping, Fields, PopSwingRear
<1>3. Taking /\ Taking' /\ Removing /\ Removing' /\ Live' = Live
  BY <1>1, <1>2 DEF Taking, Removing, Live
<1>4. /\ rear' \in {rear, Dummy} /\ rear' # pop.temp
  BY <1>3, <1>f DEF PopSwingRear, RearAfterPop, RaceInv, Calls, Fields
<1>5. TypeOK'
  BY <1>1, <1>2, <1>4, <1>f DEF RaceInv, TypeOK, Fields
<1>6. Calls'
  <2>1. push.pc # "idle" => push.temp # Dummy
    BY <1>f DEF RaceInv, Calls, Fields
  <2> QED
    BY <1>1, <1>2, <1>3, <1>4, <2>1 DEF RaceInv, Calls
<1>7. Linked' /\ Printed'
  BY <1>1, <1>2, <1>3 DEF RaceInv, Linked, Printed
<1> QED
  BY <1>5, <1>6, <1>7 DEF RaceInv

LEMMA PopReturnKeeps == RaceInv /\ PopReturn => RaceInv'
<1> SUFFICES ASSUME RaceInv, PopReturn PROVE RaceInv'
  OBVIOUS
<1>f. Fields
  BY FieldsLemma DEF RaceInv
<1>1. /\ pop.pc = "return"
      /\ UNCHANGED <<rear, next, data, push, corrupt, overlapped>>
  BY DEF PopReturn
<1>2. pop'.pc = "idle" /\ pop' \in Call(Popping) /\ pop'.c =< Pops
  <2>1. pop.c < Pops /\ pop.c + 1 \in Nat /\ pop.c + 1 =< Pops
    BY <1>1, <1>f DEF RaceInv, Calls, Fields
  <2>2. pop \in Call(Popping) /\ pop' = [pop EXCEPT !.pc = "idle", !.c = pop.c + 1]
    BY DEF RaceInv, TypeOK, PopReturn
  <2> QED
    BY <2>1, <2>2 DEF Call, Popping
<1>3. Taking /\ ~Taking' /\ Removing /\ ~Removing'
  BY <1>1, <1>2 DEF Taking, Removing
<1>4. heap' = heap \ {pop.temp}
  BY <1>f DEF PopReturn, Fields
<1>5. Live' = Live /\ pop.temp # Dummy /\ Dummy \in Live
  BY <1>3, <1>4, <1>f DEF Live, RaceInv, Calls, Fields
<1>6. \A n \in Live : next[n] # NULL => next[n] # pop.temp
  BY <1>3 DEF RaceInv, Linked, Live
<1>7. pop.temp # NULL => data[pop.temp] \in 1 .. push.c
  BY <1>3, <1>f DEF RaceInv, Calls, Linked, Fields
<1>8. TypeOK'
  <2>1. output' \in Seq(1 .. Pushes)
    <3>1. pop.temp # NULL => data[pop.temp] \in 1 .. Pushes
      BY <1>7, <1>f DEF Fields
    <3>2. output \in Seq(1 .. Pushes)
      BY <1>f DEF Fields
    <3>3. CASE pop.temp = NULL
      BY <3>2, <3>3 DEF PopReturn
    <3>4. CASE pop.temp # NULL
      <4>1. output' = Append(output, data[pop.temp])
        BY <3>4 DEF PopReturn
      <4> QED
        BY <3>1, <3>2, <3>4, <4>1
    <3> QED
      BY <3>3, <3>4
  <2>2. heap' \subseteq Nodes
    BY <1>4, <1>f DEF Fields
  <2> QED
    BY <1>1, <1>2, <2>1, <2>2 DEF RaceInv, TypeOK
<1>9. Calls'
  <2>1. rear \in heap' \cup {Dummy}
    BY <1>1, <1>4, <1>5 DEF RaceInv, Calls
  <2>2. push.pc # "idle" => push.temp \in heap'
    BY <1>3, <1>4 DEF RaceInv, Calls
  <2> QED
    BY <1>1, <1>2, <1>3, <1>5, <2>1, <2>2 DEF RaceInv, Calls
<1>10. Linked'
  BY <1>1, <1>2, <1>4, <1>5, <1>6 DEF RaceInv, Linked
<1>11. Printed'
  <2>1. CASE pop.temp = NULL
    <3>1. output' = output
      BY <2>1 DEF PopReturn
    <3> QED
      BY <1>1, <1>3, <3>1 DEF RaceInv, Printed
  <2>2. CASE pop.temp # NULL
    <3>1. output' = Append(output, data[pop.temp])
      BY <2>2 DEF PopReturn
    <3>2. /\ Len(output') = Len(output) + 1 /\ output'[Len(output) + 1] = data[pop.temp]
          /\ \A i \in 1 .. Len(output) : output'[i] = output[i]
      BY <3>1, <1>f DEF Fields
    <3>3. \A i \in 1 .. Len(output') : i \in 1 .. Len(output) \/ i = Len(output) + 1
      BY <3>2, <1>f DEF Fields
    <3>4. \A i \in 1 .. Len(output) : i < Len(output) + 1 /\ ~(Len(output) + 1 < i)
      BY <1>f DEF Fields
    <3>5. \A i \in 1 .. Len(output) :
            /\ output[i] \in 1 .. push.c /\ output[i] < data[pop.temp]
            /\ next[Dummy] # NULL => output[i] < data[next[Dummy]]
      BY <1>3, <2>2 DEF RaceInv, Printed
    <3>6. next[Dummy] # NULL => data[pop.temp] < data[next[Dummy]]
      BY <1>3, <2>2 DEF RaceInv, Printed
    <3>7. \A i, j \in 1 .. Len(output') : i < j => output'[i] < output'[j]
      <4> SUFFICES ASSUME NEW i \in 1 .. Len(output'), NEW j \in 1 .. Len(output'), i < j
                   PROVE  output'[i] < output'[j]
        OBVIOUS
      <4>1. i \in 1 .. Len(output)
        BY <3>2, <1>f DEF Fields
      <4>2. CASE j \in 1 .. Len(output)
        BY <3>2, <4>1, <4>2 DEF RaceInv, Printed
      <4>3. CASE j = Len(output) + 1
        BY <3>2, <3>5, <4>1, <4>3
      <4> QED
        BY <3>3, <4>2, <4>3
    <3>8. \A i \in 1 .. Len(output') :
            /\ output'[i] \in 1 .. push.c
            /\ next[Dummy] # NULL => output'[i] < data[next[Dummy]]
      BY <1>7, <2>2, <3>2, <3>3, <3>5, <3>6
    <3> QED
      BY <1>1, <1>3, <3>7, <3>8 DEF Printed
  <2> QED
    BY <2>1, <2>2
<1> QED
  BY <1>8, <1>9, <1>10, <1>11 DEF RaceInv

LEMMA RaceStep == RaceInv /\ [Next]_vars => RaceInv'
<1> SUFFICES ASSUME RaceInv, [Next]_vars PROVE RaceInv'
  OBVIOUS
<1>1. CASE PushStep
  BY <1>1, PushAllocKeeps, PushReadRearKeeps, PushLinkKeeps, PushSwingRearKeeps DEF PushStep
<1>2. CASE PopStep
  BY <1>2, PopCallKeeps, PopEmptyKeeps, PopFirstKeeps, PopSecondKeeps, PopUnlinkKeeps,
     PopSwingRearKeeps, PopReturnKeeps
     DEF PopStep
<1>3. CASE Over \/ UNCHANGED vars
  <2>1. UNCHANGED vars
    BY <1>3 DEF Over
  <2> QED
    BY <2>1 DEF vars, RaceInv, TypeOK, Calls, Linked, Printed, Removing, Taking, Live
<1> QED
  BY <1>1, <1>2, <1>3 DEF Next

LEMMA RaceInvariant == Spec => []RaceInv
BY RaceInit, RaceStep, PTL DEF Spec

(* However QuePush and QuePop interleave their compare-and-swaps, what     *)
(* thread_pop prints ascends: no element twice, none before an older one.  *)
THEOREM PrintedInOrder == Spec => []OutputInOrder
<1>1. RaceInv => OutputInOrder
  <2> SUFFICES ASSUME RaceInv PROVE OutputInOrder
    OBVIOUS
  <2>1. DOMAIN output = 1 .. Len(output)
    BY FieldsLemma DEF RaceInv, Fields
  <2> QED
    BY <2>1 DEF RaceInv, Printed, OutputInOrder
<1> QED
  BY <1>1, RaceInvariant, PTL

-----------------------------------------------------------------------------
(* Calls in turn.  The nodes of S hold the elements lo + 1 .. hi, each one *)
(* linked to the next from the dummy node on.                              *)
Chain(S, lo, hi) ==
  /\ \A n \in S : data[n] \in (lo + 1) .. hi
  /\ \A m, n \in S : data[m] = data[n] => m = n
  /\ \A e \in (lo + 1) .. hi : \E n \in S : data[n] = e
  /\ \A n \in S : IF data[n] = hi THEN next[n] = NULL
                  ELSE next[n] \in S /\ data[next[n]] = data[n] + 1
  /\ IF lo = hi THEN next[Dummy] = NULL
     ELSE next[Dummy] \in S /\ data[next[Dummy]] = lo + 1

(* The nodes in the chain, and the elements they hold.                     *)
InChain ==
  heap \ ((IF push.pc \in {"read_rear", "link"} THEN {push.temp} ELSE {}) \cup
          (IF Removing THEN {pop.temp} ELSE {}))
Oldest == Len(output) + (IF Removing THEN 1 ELSE 0)
Newest == push.c + (IF push.pc = "swing_rear" THEN 1 ELSE 0)

(* While calls do not overlap, the chain is complete after every step, and *)
(* rear is its end except between the two swaps of a call.                 *)
InTurn ==
  /\ push.pc = "idle" \/ pop.pc = "idle"
  /\ \A i \in 1 .. Len(output) : output[i] = i
  /\ Oldest =< Newest /\ Chain(InChain, Oldest, Newest)
  /\ push.pc # "swing_rear" /\ pop.pc # "swing_rear" =>
       IF Oldest = Newest THEN rear = Dummy ELSE rear \in InChain /\ data[rear] = Newest
  /\ push.pc \in {"link", "swing_rear"} => push.p = rear
  /\ pop.pc = "unlink" => pop.p = next[pop.temp]
  /\ Removing => pop.temp # NULL /\ data[pop.temp] = Oldest
  /\ pop.pc = "swing_rear" =>
       IF Oldest = Newest THEN rear = pop.temp ELSE rear \in InChain /\ data[rear] = Newest

TurnInv == ~overlapped => InTurn

LEMMA TurnInit == Init => TurnInv
<1> SUFFICES ASSUME Init PROVE InTurn
  BY DEF TurnInv
<1>1. /\ ~Removing /\ push.pc = "idle" /\ pop.pc = "idle" /\ push.c = 0 /\ Len(output) = 0
      /\ heap = {} /\ next[Dummy] = NULL /\ rear = Dummy
  BY DEF Init, Removing, Cells
<1>2. Oldest = 0 /\ Newest = 0 /\ InChain = {}
  BY <1>1 DEF Oldest, Newest, InChain
<1>3. Chain({}, 0, 0)
  BY <1>1 DEF Chain
<1> QED
  BY <1>1, <1>2, <1>3 DEF InTurn

(* What every step of calls in turn starts from.                           *)
LEMMA TurnFacts ==
  ASSUME RaceInv, InTurn
  PROVE  /\ Fields /\ Oldest \in Nat /\ Newest \in Nat
         /\ InChain \subseteq heap /\ InChain \subseteq Cells
         /\ Dummy \notin InChain /\ NULL \notin InChain
         /\ \A n \in InChain : data[n] \in Nat
<1>1. Fields
  BY FieldsLemma DEF RaceInv
<1>2. Oldest \in Nat /\ Newest \in Nat
  BY <1>1 DEF Fields, Oldest, Newest
<1>3. InChain \subseteq heap
  BY DEF InChain
<1> QED
  BY <1>1, <1>2, <1>3 DEF Fields

(* A step that changes no pointer and no element of the chain keeps it.    *)
LEMMA ChainKept ==
  ASSUME RaceInv, InTurn,
         InChain' = InChain, Oldest' = Oldest, Newest' = Newest,
         \A n \in InChain \cup {Dummy} : next'[n] = next[n],
         \A n \in InChain : data'[n] = data[n]
  PROVE  Oldest' =< Newest' /\ Chain(InChain, Oldest, Newest)'
<1>1. PICK S, lo, hi : S = InChain /\ lo = Oldest /\ hi = Newest
  OBVIOUS
<1>2. Chain(S, lo, hi) /\ lo =< hi
  BY <1>1 DEF InTurn
<1>3. Chain(S, lo, hi)'
  BY <1>1, <1>2 DEF Chain
<1> QED
  BY <1>1, <1>2, <1>3 DEF Chain

LEMMA PushAllocInTurn == RaceInv /\ TurnInv /\ PushAlloc => TurnInv'
<1> SUFFICES ASSUME RaceInv, TurnInv, PushAlloc, ~overlapped' PROVE InTurn'
  BY DEF TurnInv
<1>1. /\ push.pc = "idle" /\ pop.pc = "idle" /\ ~overlapped
      /\ UNCHANGED <<rear, pop, output>>
  BY DEF PushAlloc
<1>2. InTurn
  BY <1>1 DEF TurnInv
<1>f. Fields
  BY FieldsLemma DEF RaceInv
<1>3. PICK n \in Nodes \ heap :
        /\ heap' = heap \cup {n}
        /\ data' = [data EXCEPT ![n] = push.c + 1]
        /\ next' = [next EXCEPT ![n] = NULL]
        /\ push' = [push EXCEPT !.pc = "read_rear", !.temp = n]
  BY DEF PushAlloc
<1>4. push'.pc = "read_rear" /\ push'.temp = n /\ push'.c = push.c
  BY <1>3, <1>f DEF RaceInv, TypeOK, Call
<1>5. ~Removing /\ ~Removing'
  BY <1>1 DEF Removing
<1>6. InChain = heap /\ InChain' = heap
  BY <1>1, <1>3, <1>4, <1>5 DEF InChain
<1>7. Oldest' = Oldest /\ Newest' = Newest
  BY <1>1, <1>4, <1>5 DEF Oldest, Newest
<1>8. \A m \in heap \cup {Dummy} : next'[m] = next[m] /\ data'[m] = data[m]
  BY <1>3, <1>f, CasQueueAssumption DEF Fields
<1>9. Oldest' =< Newest' /\ Chain(InChain, Oldest, Newest)'
  BY <1>2, <1>6, <1>7, <1>8, ChainKept
<1> QED
  BY <1>1, <1>2, <1>4, <1>5, <1>6, <1>7, <1>8, <1>9 DEF InTurn

LEMMA PushReadRearInTurn == RaceInv /\ TurnInv /\ PushReadRear => TurnInv'
<1> SUFFICES ASSUME RaceInv, TurnInv, PushReadRear, ~overlapped' PROVE InTurn'
  BY DEF TurnInv
<1>1. /\ push.pc = "read_rear" /\ ~overlapped
      /\ UNCHANGED <<rear, next, data, heap, pop, output>>
  BY DEF PushReadRear
<1>2. InTurn /\ pop.pc = "idle"
  BY <1>1 DEF TurnInv, InTurn
<1>3. push'.pc = "link" /\ push'.temp = push.temp /\ push'.c = push.c /\ push'.p = rear
  BY DEF RaceInv, TypeOK, Call, PushReadRear
<1>4. ~Removing /\ ~Removing'
  BY <1>1, <1>2 DEF Removing
<1>5. InChain' = InChain /\ Oldest' = Oldest /\ Newest' = Newest
  BY <1>1, <1>3, <1>4 DEF InChain, Oldest, Newest
<1>6. Oldest' =< Newest' /\ Chain(InChain, Oldest, Newest)'
  BY <1>1, <1>2, <1>5, ChainKept
<1> QED
  BY <1>1, <1>2, <1>3, <1>4, <1>5, <1>6 DEF InTurn

LEMMA PushLinkInTurn == RaceInv /\ TurnInv /\ PushLink => TurnInv'
<1> SUFFICES ASSUME RaceInv, TurnInv, PushLink, ~overlapped' PROVE InTurn'
  BY DEF TurnInv
<1>1. /\ push.pc = "link" /\ ~overlapped
      /\ UNCHANGED <<rear, data, heap, pop, output>>
  BY DEF PushLink
<1>2. InTurn /\ pop.pc = "idle"
  BY <1>1 DEF TurnInv, InTurn
<1>f. /\ Fields /\ Oldest \in Nat /\ Newest \in Nat
      /\ InChain \subseteq heap /\ InChain \subseteq Cells
      /\ Dummy \notin InChain /\ NULL \notin InChain
      /\ \A n \in InChain : data[n] \in Nat
  BY <1>2, TurnFacts
<1>3. ~Removing /\ ~Removing' /\ Oldest' = Oldest
  BY <1>1, <1>2 DEF Removing, Oldest
<1>4. CASE UNCHANGED <<next, push>>
  <2>1. InChain' = InChain /\ Newest' = Newest
    BY <1>1, <1>3, <1>4 DEF InChain, Newest
  <2>2. Oldest' =< Newest' /\ Chain(InChain, Oldest, Newest)'
    BY <1>1, <1>2, <1>3, <1>4, <2>1, ChainKept
  <2> QED
    BY <1>1, <1>2, <1>3, <1>4, <2>1, <2>2 DEF InTurn
<1>5. CASE push' = [push EXCEPT !.pc = "read_rear"] /\ UNCHANGED next
  <2>0. push'.pc = "read_rear" /\ push'.temp = push.temp /\ push'.c = push.c
    BY <1>5 DEF RaceInv, TypeOK, Call
  <2>1. InChain' = InChain /\ Newest' = Newest
    BY <1>1, <1>3, <2>0 DEF InChain, Newest
  <2>2. Oldest' =< Newest' /\ Chain(InChain, Oldest, Newest)'
    BY <1>1, <1>2, <1>3, <1>5, <2>1, ChainKept
  <2> QED
    BY <1>1, <1>2, <1>3, <1>5, <2>0, <2>1, <2>2 DEF InTurn
<1>6. CASE /\ next' = [next EXCEPT ![push.p] = push.temp]
           /\ push' = [push EXCEPT !.pc = "swing_rear"]
  <2>0. /\ push'.pc = "swing_rear" /\ push'.temp = push.temp /\ push'.c = push.c
        /\ push'.p = push.p
    BY <1>6 DEF RaceInv, TypeOK, Call
  <2>1. /\ push.temp \in heap /\ data[push.temp] = push.c + 1 /\ next[push.temp] = NULL
        /\ push.p = rear /\ rear # push.temp /\ push.p \in Cells /\ push.temp \in Cells
    BY <1>1, <1>2, <1>f DEF RaceInv, Calls, InTurn, Fields
  <2>2. /\ InChain = heap \ {push.temp} /\ InChain' = heap /\ Newest = push.c
        /\ Newest' = push.c + 1
    <3>1. InChain = heap \ {push.temp} /\ InChain' = heap
      BY <1>1, <1>3, <2>0 DEF InChain
    <3>2. Newest = push.c /\ Newest' = push.c + 1
      BY <1>1, <1>f, <2>0 DEF Newest, Fields
    <3> QED
      BY <3>1, <3>2
  <2>3. /\ next'[rear] = push.temp
        /\ \A m \in Cells : m # rear => next'[m] = next[m]
    BY <1>6, <2>1, <1>f DEF Fields
  <2>4. Chain(InChain, Oldest, push.c) /\ Oldest =< push.c
    BY <1>2, <2>2 DEF InTurn
  <2>5. IF Oldest = push.c THEN rear = Dummy ELSE rear \in InChain /\ data[rear] = push.c
    BY <1>1, <1>2, <2>2 DEF InTurn
  <2>6. PICK lo, c : lo = Oldest /\ c = push.c /\ lo \in Nat /\ c \in Nat
    BY <1>f DEF Fields
  <2>7. /\ \A n \in heap : data[n] \in (lo + 1) .. (c + 1)
        /\ \A m, n \in heap : data[m] = data[n] => m = n
    BY <2>1, <2>2, <2>4, <2>6, <1>f DEF Chain
  <2>8. \A e \in (lo + 1) .. (c + 1) : \E n \in heap : data[n] = e
    BY <2>1, <2>2, <2>4, <2>6, <1>f DEF Chain
  <2>9. ASSUME NEW n \in heap
        PROVE  IF data[n] = c + 1 THEN next'[n] = NULL
               ELSE next'[n] \in heap /\ data[next'[n]] = data[n] + 1
    <3>1. CASE n = push.temp
      BY <2>1, <2>3, <2>6, <3>1
    <3>2. CASE n # push.temp
      <4>1. n \in InChain /\ n \in Cells /\ data[n] \in (lo + 1) .. c
        BY <2>2, <2>4, <2>6, <3>2, <1>f DEF Chain
      <4>2. data[n] # c + 1
        BY <4>1, <2>6
      <4>3. CASE n = rear
        <5>1. data[n] = c
          BY <2>5, <2>6, <4>1, <4>3, <1>f
        <5> QED
          BY <2>1, <2>3, <2>6, <4>2, <4>3, <5>1
      <4>4. CASE n # rear
        <5>1. data[n] # c
          <6> SUFFICES ASSUME data[n] = c PROVE FALSE
            OBVIOUS
          <6>1. lo # c
            BY <2>6, <4>1
          <6>2. rear \in InChain /\ data[rear] = c
            BY <2>5, <2>6, <6>1
          <6> QED
            BY <2>4, <4>1, <4>4, <6>2 DEF Chain
        <5>2. next[n] \in InChain /\ data[next[n]] = data[n] + 1
          BY <2>4, <2>6, <4>1, <5>1 DEF Chain
        <5> QED
          BY <2>2, <2>3, <4>1, <4>2, <4>4, <5>2
      <4> QED
        BY <4>3, <4>4
    <3> QED
      BY <3>1, <3>2
  <2>10. lo # c + 1 /\ next'[Dummy] \in heap /\ data[next'[Dummy]] = lo + 1
    <3>1. CASE lo = c
      <4>1. rear = Dummy
        BY <2>5, <2>6, <3>1
      <4> QED
        BY <2>1, <2>3, <2>6, <3>1, <4>1
    <3>2. CASE lo # c
      <4>1. rear # Dummy /\ next[Dummy] \in InChain /\ data[next[Dummy]] = lo + 1
        BY <2>4, <2>5, <2>6, <3>2, <1>f DEF Chain
      <4> QED
        BY <2>2, <2>3, <2>4, <2>6, <4>1, <1>f DEF Fields
    <3> QED
      BY <3>1, <3>2
  <2>11. Chain(InChain, Oldest, Newest)'
    BY <1>1, <1>3, <2>2, <2>6, <2>7, <2>8, <2>9, <2>10 DEF Chain
  <2>12. Oldest' =< Newest'
    BY <1>3, <2>2, <2>4, <2>6
  <2> QED
    BY <1>1, <1>2, <1>3, <2>0, <2>1, <2>11, <2>12 DEF InTurn
<1> QED
  BY <1>4, <1>5, <1>6 DEF PushLink

LEMMA PushSwingRearInTurn == RaceInv /\ TurnInv /\ PushSwingRear => TurnInv'
<1> SUFFICES ASSUME RaceInv, TurnInv, PushSwingRear, ~overlapped' PROVE InTurn'
  BY DEF TurnInv
<1>1. /\ push.pc = "swing_rear" /\ ~overlapped
      /\ UNCHANGED <<next, data, heap, pop, output>>
  BY DEF PushSwingRear
<1>2. InTurn /\ pop.pc = "idle"
  BY <1>1 DEF TurnInv, InTurn
<1>f. Fields
  BY FieldsLemma DEF RaceInv
<1>3. push'.pc = "idle" /\ push'.c = push.c + 1
  BY DEF RaceInv, TypeOK, Call, PushSwingRear
<1>4. ~Removing /\ ~Removing'
  BY <1>1, <1>2 DEF Removing
<1>5. InChain = heap /\ InChain' = heap /\ Newest = push.c + 1 /\ Oldest = Len(output)
  BY <1>1, <1>3, <1>4, <1>f DEF InChain, Newest, Oldest, Fields
<1>6. Oldest' = Oldest /\ Newest' = Newest
  BY <1>1, <1>3, <1>4, <1>f DEF Oldest, Newest, Fields
<1>7. Oldest' =< Newest' /\ Chain(InChain, Oldest, Newest)'
  BY <1>1, <1>2, <1>5, <1>6, ChainKept
<1>8. rear' = push.temp /\ push.temp \in heap /\ data[push.temp] = push.c + 1
  BY <1>1, <1>2 DEF PushSwingRear, RearAfterPush, InTurn, RaceInv, Calls
<1>9. Len(output) # push.c + 1
  <2> SUFFICES ASSUME Len(output) = push.c + 1 PROVE FALSE
    OBVIOUS
  <2>1. Len(output) \in 1 .. Len(output)
    BY <1>f DEF Fields
  <2>2. output[Len(output)] = Len(output) /\ output[Len(output)] \in 1 .. push.c
    BY <1>2, <2>1 DEF InTurn, RaceInv, Printed
  <2> QED
    BY <2>2, <1>f DEF Fields
<1> QED
  BY <1>1, <1>2, <1>3, <1>4, <1>5, <1>6, <1>7, <1>8, <1>9 DEF InTurn

(* The steps of QuePop before it takes a node out of the chain.            *)
LEMMA PopWalkInTurn ==
  ASSUME RaceInv, TurnInv, ~overlapped', PopCall \/ PopEmpty \/ PopFirst \/ PopSecond
  PROVE  InTurn'
<1>1. /\ push.pc = "idle" /\ ~overlapped /\ ~Removing /\ ~Removing'
      /\ UNCHANGED <<rear, next, data, heap, push, output>>
  <2>0. PopCall => (overlapped' <=> (overlapped \/ push.pc # "idle"))
    BY Zenon DEF PopCall
  <2>1. ~overlapped /\ UNCHANGED <<rear, next, data, heap, push, output>>
    BY <2>0 DEF PopCall, PopEmpty, PopFirst, PopSecond
  <2>2. push.pc = "idle"
    BY <2>0, <2>1 DEF PopCall, PopEmpty, PopFirst, PopSecond, TurnInv, InTurn
  <2>3. pop'.pc \in {"idle", "empty", "first", "second", "unlink"}
    BY DEF PopCall, PopEmpty, PopFirst, PopSecond, RaceInv, TypeOK, Call
  <2> QED
    BY <2>1, <2>2, <2>3 DEF Removing, PopCall, PopEmpty, PopFirst, PopSecond
<1>2. InTurn
  BY <1>1 DEF TurnInv
<1>3. InChain' = InChain /\ Oldest' = Oldest /\ Newest' = Newest
  BY <1>1 DEF InChain, Oldest, Newest
<1>4. Oldest' =< Newest' /\ Chain(InChain, Oldest, Newest)'
  BY <1>1, <1>2, <1>3, ChainKept
<1>5. pop'.pc = "unlink" => pop'.p = next'[pop'.temp]
  <2> SUFFICES ASSUME pop'.pc = "unlink" PROVE pop'.p = next'[pop'.temp]
    OBVIOUS
  <2>1. /\ pop.pc = "second" /\ pop'.temp = pop.temp
        /\ pop'.p = IF pop.temp = NULL THEN NULL ELSE next[pop.temp]
    BY DEF PopCall, PopEmpty, PopFirst, PopSecond, RaceInv, TypeOK, Call
  <2>2. rear # Dummy /\ next[Dummy] = pop.temp
    BY <2>1 DEF RaceInv, Calls
  <2>3. Oldest # Newest
    BY <1>1, <1>2, <2>1, <2>2 DEF InTurn
  <2>4. next[Dummy] \in InChain
    BY <1>2, <2>3 DEF InTurn, Chain
  <2>5. NULL \notin InChain
    BY <1>2, TurnFacts
  <2> QED
    BY <1>1, <2>1, <2>2, <2>4, <2>5
<1>6. pop.pc # "swing_rear" /\ pop'.pc # "swing_rear"
  BY <1>1 DEF Removing
<1> QED
  BY <1>1, <1>2, <1>3, <1>4, <1>5, <1>6 DEF InTurn

LEMMA PopUnlinkInTurn == RaceInv /\ TurnInv /\ PopUnlink => TurnInv'
<1> SUFFICES ASSUME RaceInv, TurnInv, PopUnlink, ~overlapped' PROVE InTurn'
  BY DEF TurnInv
<1>1. /\ pop.pc = "unlink" /\ ~overlapped
      /\ UNCHANGED <<rear, data, heap, push, output>>
  BY DEF PopUnlink
<1>2. InTurn /\ push.pc = "idle"
  BY <1>1 DEF TurnInv, InTurn
<1>f. /\ Fields /\ Oldest \in Nat /\ Newest \in Nat
      /\ InChain \subseteq heap /\ InChain \subseteq Cells
      /\ Dummy \notin InChain /\ NULL \notin InChain
      /\ \A n \in InChain : data[n] \in Nat
  BY <1>2, TurnFacts
<1>3. next[Dummy] = pop.temp /\ rear # Dummy /\ pop.p = next[pop.temp]
  BY <1>1, <1>2 DEF RaceInv, Calls, InTurn
<1>4. pop'.pc = "swing_rear" /\ pop'.temp = pop.temp
  BY <1>3 DEF PopUnlink, RaceInv, TypeOK, Call
<1>5. ~Removing /\ Removing'
  BY <1>1, <1>4 DEF Removing
<1>6. InChain = heap /\ InChain' = heap \ {pop.temp}
  BY <1>1, <1>2, <1>4, <1>5 DEF InChain
<1>7. Oldest = Len(output) /\ Oldest' = Oldest + 1 /\ Newest' = Newest
  BY <1>1, <1>2, <1>5, <1>f DEF Oldest, Newest, Fields
<1>8. PICK lo, hi, t : lo = Oldest /\ hi = Newest /\ t = pop.temp /\ lo \in Nat /\ hi \in Nat
  BY <1>f
<1>9. Chain(heap, lo, hi) /\ lo =< hi
  BY <1>2, <1>6, <1>8 DEF InTurn
<1>10. lo # hi /\ rear \in heap /\ data[rear] = hi
  BY <1>1, <1>2, <1>3, <1>6, <1>8 DEF InTurn
<1>11. t \in heap /\ data[t] = lo + 1
  BY <1>3, <1>8, <1>9, <1>10 DEF Chain
<1>12. next'[Dummy] = next[t] /\ \A n \in heap : next'[n] = next[n]
  BY <1>3, <1>8, <1>f DEF PopUnlink, Unlinked, Fields
<1>13. \A n \in heap \ {t} : data[n] \in (lo + 2) .. hi
  <2> SUFFICES ASSUME NEW n \in heap, n # t PROVE data[n] \in (lo + 2) .. hi
    OBVIOUS
  <2>1. data[n] \in (lo + 1) .. hi /\ data[n] # lo + 1
    BY <1>9, <1>11 DEF Chain
  <2> QED
    BY <1>8, <2>1
<1>14. \A e \in (lo + 2) .. hi : \E n \in heap \ {t} : data[n] = e
  <2> SUFFICES ASSUME NEW e \in (lo + 2) .. hi PROVE \E n \in heap \ {t} : data[n] = e
    OBVIOUS
  <2>1. e \in (lo + 1) .. hi /\ e # lo + 1
    BY <1>8
  <2> QED
    BY <1>9, <1>11, <2>1 DEF Chain
<1>15. \A n \in heap \ {t} : IF data[n] = hi THEN next'[n] = NULL
         ELSE next'[n] \in heap \ {t} /\ data[next'[n]] = data[n] + 1
  <2> SUFFICES ASSUME NEW n \in heap, n # t, data[n] # hi
               PROVE  next[n] \in heap /\ data[next[n]] = data[n] + 1 /\ next[n] # t
    BY <1>9, <1>12 DEF Chain
  <2>1. next[n] \in heap /\ data[next[n]] = data[n] + 1
    BY <1>9 DEF Chain
  <2>2. data[n] + 1 # lo + 1
    BY <1>8, <1>13
  <2> QED
    BY <1>11, <2>1, <2>2
<1>16. IF lo + 1 = hi THEN next'[Dummy] = NULL
       ELSE next'[Dummy] \in heap \ {t} /\ data[next'[Dummy]] = (lo + 1) + 1
  <2>1. CASE lo + 1 = hi
    BY <1>9, <1>11, <1>12, <2>1 DEF Chain
  <2>2. CASE lo + 1 # hi
    <3>1. next[t] \in heap /\ data[next[t]] = lo + 1 + 1
      BY <1>9, <1>11, <2>2 DEF Chain
    <3>2. lo + 1 + 1 # lo + 1
      BY <1>8
    <3> QED
      BY <1>11, <1>12, <2>2, <3>1, <3>2
  <2> QED
    BY <2>1, <2>2
<1>17. (lo + 1) + 1 = lo + 2 /\ lo + 1 =< hi
  BY <1>8, <1>9, <1>10
<1>18. \A m, n \in heap \ {t} : data[m] = data[n] => m = n
  BY <1>9 DEF Chain
<1>19. Oldest' =< Newest' /\ Chain(InChain, Oldest, Newest)'
  BY <1>1, <1>6, <1>7, <1>8, <1>13, <1>14, <1>15, <1>16, <1>17, <1>18 DEF Chain
<1>20. IF lo + 1 = hi THEN rear = t ELSE rear \in heap \ {t} /\ data[rear] = hi
  BY <1>9, <1>10, <1>11 DEF Chain
<1>21. /\ Removing' => pop'.temp # NULL /\ data'[pop'.temp] = Oldest'
       /\ pop'.pc = "swing_rear" => IF Oldest' = Newest' THEN rear' = pop'.temp
                                    ELSE rear' \in InChain' /\ data'[rear'] = Newest'
  BY <1>1, <1>4, <1>6, <1>7, <1>8, <1>11, <1>20, <1>f DEF Fields
<1> QED
  BY <1>1, <1>2, <1>4, <1>19, <1>21 DEF InTurn

LEMMA PopSwingRearInTurn == RaceInv /\ TurnInv /\ PopSwingRear => TurnInv'
<1> SUFFICES ASSUME RaceInv, TurnInv, PopSwingRear, ~overlapped' PROVE InTurn'
  BY DEF TurnInv
<1>1. /\ pop.pc = "swing_rear" /\ ~overlapped
      /\ UNCHANGED <<next, data, heap, push, output>>
      /\ rear' = IF rear = pop.temp THEN Dummy ELSE rear
  BY DEF PopSwingRear, RearAfterPop
<1>2. InTurn /\ push.pc = "idle"
  BY <1>1 DEF TurnInv, InTurn
<1>3. pop'.pc = "return" /\ pop'.temp = pop.temp
  BY DEF PopSwingRear, RaceInv, TypeOK, Call
<1>4. Removing /\ Removing'
  BY <1>1, <1>3 DEF Removing
<1>5. InChain' = InChain /\ Oldest' = Oldest /\ Newest' = Newest
  BY <1>1, <1>3, <1>4 DEF InChain, Oldest, Newest
<1>6. Oldest' =< Newest' /\ Chain(InChain, Oldest, Newest)'
  BY <1>1, <1>2, <1>5, ChainKept
<1>7. IF Oldest = Newest THEN rear' = Dummy ELSE rear' \in InChain /\ data[rear'] = Newest
  <2>1. pop.temp \notin InChain
    BY <1>4 DEF InChain
  <2> QED
    BY <1>1, <1>2, <2>1 DEF InTurn
<1> QED
  BY <1>1, <1>2, <1>3, <1>4, <1>5, <1>6, <1>7 DEF InTurn

LEMMA PopReturnInTurn == RaceInv /\ TurnInv /\ PopReturn => TurnInv'
<1> SUFFICES ASSUME RaceInv, TurnInv, PopReturn, ~overlapped' PROVE InTurn'
  BY DEF TurnInv
<1>1. /\ pop.pc = "return" /\ ~overlapped
      /\ UNCHANGED <<rear, next, data, push>>
  BY DEF PopReturn
<1>f. Fields
  BY FieldsLemma DEF RaceInv
<1>2. InTurn /\ push.pc = "idle"
  BY <1>1 DEF TurnInv, InTurn
<1>3. pop'.pc = "idle"
  BY DEF PopReturn, RaceInv, TypeOK, Call
<1>4. Removing /\ ~Removing'
  BY <1>1, <1>3 DEF Removing
<1>5. Oldest = Len(output) + 1
  BY <1>4 DEF Oldest
<1>6. /\ data[pop.temp] = Len(output) + 1 /\ pop.temp \in Cells
      /\ output' = Append(output, Len(output) + 1) /\ heap' = heap \ {pop.temp}
  BY <1>2, <1>4, <1>5, <1>f DEF InTurn, PopReturn, Fields
<1>7. /\ Len(output') = Len(output) + 1
      /\ \A i \in 1 .. Len(output') : output'[i] = i
  <2>1. output \in Seq(Int) /\ Len(output) + 1 \in Int
    BY <1>f DEF Fields
  <2>2. Len(output') = Len(output) + 1
    BY <1>6, <2>1
  <2>3. ASSUME NEW i \in 1 .. Len(output) + 1 PROVE output'[i] = i
    <3>1. CASE i = Len(output) + 1
      BY <1>6, <2>1, <3>1
    <3>2. CASE i # Len(output) + 1
      <4>1. i \in 1 .. Len(output)
        BY <3>2, <1>f DEF Fields
      <4> QED
        BY <1>2, <1>6, <2>1, <4>1 DEF InTurn
    <3> QED
      BY <3>1, <3>2
  <2> QED
    BY <2>2, <2>3
<1>8. InChain' = InChain
  BY <1>1, <1>2, <1>4, <1>6 DEF InChain
<1>9. Oldest' = Oldest /\ Newest' = Newest
  BY <1>1, <1>4, <1>5, <1>7, <1>f DEF Oldest, Newest, Fields
<1>10. Oldest' =< Newest' /\ Chain(InChain, Oldest, Newest)'
  BY <1>1, <1>2, <1>8, <1>9, ChainKept
<1> QED
  BY <1>1, <1>2, <1>3, <1>4, <1>7, <1>8, <1>9, <1>10 DEF InTurn

LEMMA TurnInvariant == Spec => [](RaceInv /\ TurnInv)
<1>1. Init => RaceInv /\ TurnInv
  BY RaceInit, TurnInit
<1>2. RaceInv /\ TurnInv /\ [Next]_vars => TurnInv'
  <2> SUFFICES ASSUME RaceInv, TurnInv, [Next]_vars PROVE TurnInv'
    OBVIOUS
  <2>1. CASE UNCHANGED vars
    BY <2>1 DEF vars, TurnInv, InTurn, Chain, InChain, Oldest, Newest, Removing
  <2>2. CASE PushStep
    BY <2>2, PushAllocInTurn, PushReadRearInTurn, PushLinkInTurn, PushSwingRearInTurn
       DEF PushStep
  <2>3. CASE PopStep
    BY <2>3, PopWalkInTurn, PopUnlinkInTurn, PopSwingRearInTurn, PopReturnInTurn
       DEF PopStep, TurnInv
  <2> QED
    BY <2>1, <2>2, <2>3 DEF Next, Over
<1> QED
  BY <1>1, <1>2, RaceInvariant, PTL DEF Spec

-----------------------------------------------------------------------------
(* Every set of natural numbers has a least element: what is false of some *)
(* number is false of a first one.                                         *)
LEMMA LeastElement ==
  ASSUME NEW B, B \subseteq Nat, B # {}
  PROVE  \E k \in B : \A j \in B : k =< j
<1> DEFINE S == FiniteSubsetsOf(Nat)
           R == StrictSubsetOrdering(Nat)
           T == {0 .. k : k \in B}
<1>1. IsWellFoundedOn(R, S)
  BY FS_StrictSubsetOrderingWellFounded
<1>2. T # {}
  OBVIOUS
<1>3. T \subseteq S
  <2> SUFFICES ASSUME NEW k \in B PROVE 0 .. k \in S
    OBVIOUS
  <2>1. k \in Nat /\ 0 \in Int /\ k \in Int
    OBVIOUS
  <2>2. IsFiniteSet(0 .. k)
    BY <2>1, FS_Interval
  <2>3. 0 .. k \in SUBSET Nat
    BY <2>1
  <2> QED
    BY <2>2, <2>3 DEF FiniteSubsetsOf
<1>4. PICK X \in T : \A Y \in T : ~(<<Y, X>> \in R)
  <2> HIDE DEF R, S, T
  <2> QED
    BY <1>1, <1>2, <1>3, WFMin
<1>5. PICK k \in B : X = 0 .. k
  OBVIOUS
<1>6. ASSUME NEW j \in B PROVE k =< j
  <2> SUFFICES ASSUME j < k PROVE FALSE
    OBVIOUS
  <2>1. 0 .. j \subseteq 0 .. k /\ 0 .. j # 0 .. k
    OBVIOUS
  <2>2. 0 .. j \in SUBSET Nat /\ 0 .. k \in SUBSET Nat
    OBVIOUS
  <2>3. <<0 .. j, 0 .. k>> \in R
    BY <2>1, <2>2, Zenon DEF StrictSubsetOrdering
  <2> QED
    BY <1>4, <1>5, <2>3
<1> QED
  BY <1>6

(* After is the only sequence of nodes that starts at the dummy node and   *)
(* follows the next pointers.                                              *)
LEMMA AfterIs ==
  ASSUME NEW N \in Nat, N = Cardinality(Cells), NEW f,
         f = [k \in 0 .. N |-> IF k = 0 THEN Dummy
                               ELSE IF f[k - 1] = NULL THEN NULL ELSE next[f[k - 1]]]
  PROVE  After = f
<1> DEFINE Follows(g) == g = [k \in 0 .. N |-> IF k = 0 THEN Dummy
                               ELSE IF g[k - 1] = NULL THEN NULL ELSE next[g[k - 1]]]
<1>1. After = CHOOSE g : Follows(g)
  BY DEF After
<1>2. Follows(f)
  OBVIOUS
<1>3. Follows(After)
  <2> HIDE DEF Follows
  <2> QED
    BY <1>1, <1>2
<1>4. PICK h : h = After
  OBVIOUS
<1>5. Follows(h)
  BY <1>3, <1>4
<1>6. \A k \in 0 .. N : h[k] = f[k]
  <2> DEFINE Bad == {k \in 0 .. N : h[k] # f[k]}
  <2> SUFFICES ASSUME Bad # {} PROVE FALSE
    OBVIOUS
  <2>1. Bad \subseteq Nat
    OBVIOUS
  <2>2. PICK k \in Bad : \A j \in Bad : k =< j
    <3> HIDE DEF Bad
    <3> QED
      BY <2>1, LeastElement
  <2>3. k \in 0 .. N /\ h[k] # f[k]
    OBVIOUS
  <2>4. k # 0
    BY <2>3, <1>2, <1>5
  <2>5. k - 1 \in 0 .. N /\ k - 1 \notin Bad
    BY <2>2, <2>3, <2>4
  <2>6. h[k - 1] = f[k - 1]
    BY <2>5
  <2>7. /\ h[k] = IF h[k - 1] = NULL THEN NULL ELSE next[h[k - 1]]
        /\ f[k] = IF f[k - 1] = NULL THEN NULL ELSE next[f[k - 1]]
    BY <2>3, <2>4, <1>2, <1>5
  <2> QED
    BY <2>3, <2>6, <2>7
<1>7. h = [k \in 0 .. N |-> h[k]] /\ f = [k \in 0 .. N |-> f[k]]
  BY <1>2, <1>5
<1> QED
  BY <1>4, <1>6, <1>7

(* The chain, read from the dummy node on.                                 *)
LEMMA ChainRead ==
  ASSUME RaceInv, InTurn, NEW lo \in Nat, NEW hi \in Nat, lo =< hi, hi =< Pushes,
         Chain(heap, lo, hi)
  PROVE  /\ hi - lo \in 0 .. Cardinality(Cells)
         /\ After[0] = Dummy
         /\ \A k \in 1 .. (hi - lo) : After[k] \in heap /\ data[After[k]] = lo + k
         /\ Reachable = heap \cup {Dummy}
<1>f. Fields
  BY FieldsLemma DEF RaceInv
<1>1. PICK N : N = Cardinality(Cells) /\ N \in Nat /\ Pushes =< N
  <2>1. IsFiniteSet(Nodes) /\ Cardinality(Nodes) \in Nat /\ Pushes =< Cardinality(Nodes)
    BY CasQueueAssumption, FS_CardinalityType
  <2>2. Cardinality(Cells) = Cardinality(Nodes) + 1
    BY <2>1, CasQueueAssumption, FS_AddElement DEF Cells
  <2> QED
    BY <2>1, <2>2, CasQueueAssumption
<1>2. PICK n : n = hi - lo /\ n \in 0 .. N /\ lo + n = hi
  BY <1>1, CasQueueAssumption
<1> DEFINE cell(k) == CHOOSE x \in heap : data[x] = lo + k
           f == [k \in 0 .. N |-> IF k = 0 THEN Dummy ELSE IF k =< n THEN cell(k) ELSE NULL]
<1>3. \A k \in 1 .. n : cell(k) \in heap /\ data[cell(k)] = lo + k
  <2> SUFFICES ASSUME NEW k \in 1 .. n PROVE cell(k) \in heap /\ data[cell(k)] = lo + k
    OBVIOUS
  <2>1. lo + k \in (lo + 1) .. hi
    BY <1>1, <1>2
  <2>2. \E x \in heap : data[x] = lo + k
    BY <2>1 DEF Chain
  <2> QED
    BY <2>2
<1>4. \A x, y \in heap : data[x] = data[y] => x = y
  BY DEF Chain
<1> HIDE DEF cell
<1>5. f[0] = Dummy /\ (\A k \in 1 .. n : f[k] = cell(k)) /\ \A k \in (n + 1) .. N : f[k] = NULL
  BY <1>1, <1>2
<1>6. f \in [0 .. N -> Cells \cup {NULL}]
  BY <1>2, <1>3, <1>f DEF Fields
<1>7. ASSUME NEW k \in 1 .. N
      PROVE  f[k] = IF f[k - 1] = NULL THEN NULL ELSE next[f[k - 1]]
  <2>0. k \in Int /\ k - 1 \in 0 .. N /\ n \in Int /\ N \in Int
    BY <1>1, <1>2
  <2> HIDE DEF f
  <2>1. CASE k = 1 /\ 1 =< n
    <3>1. lo # hi /\ 1 \in 1 .. n
      BY <1>2, <2>1
    <3>2. next[Dummy] \in heap /\ data[next[Dummy]] = lo + 1
      BY <3>1 DEF Chain
    <3>3. f[k] = cell(1) /\ f[k - 1] = Dummy /\ Dummy # NULL
      BY <1>5, <1>f, <2>1, <3>1 DEF Fields
    <3>4. cell(1) \in heap /\ data[cell(1)] = lo + 1
      BY <1>3, <3>1
    <3> QED
      BY <1>4, <3>2, <3>3, <3>4
  <2>2. CASE k # 1 /\ k =< n
    <3>1. k \in 1 .. n /\ k - 1 \in 1 .. n /\ lo + (k - 1) # hi /\ lo + (k - 1) + 1 = lo + k
      BY <1>2, <2>0, <2>2
    <3>2. cell(k - 1) \in heap /\ data[cell(k - 1)] = lo + (k - 1)
      BY <1>3, <3>1
    <3>3. next[cell(k - 1)] \in heap /\ data[next[cell(k - 1)]] = lo + (k - 1) + 1
      BY <3>1, <3>2 DEF Chain
    <3>4. f[k] = cell(k) /\ f[k - 1] = cell(k - 1) /\ cell(k - 1) # NULL
      BY <1>5, <1>f, <3>1, <3>2 DEF Fields
    <3>5. cell(k) \in heap /\ data[cell(k)] = lo + k
      BY <1>3, <3>1
    <3> QED
      BY <1>4, <3>1, <3>3, <3>4, <3>5
  <2>3. CASE k = n + 1
    <3>1. f[k] = NULL
      BY <1>5, <1>2, <2>0, <2>3
    <3>2. CASE n = 0
      <4>1. lo = hi /\ f[k - 1] = Dummy
        BY <1>2, <1>5, <2>3, <3>2
      <4> QED
        BY <3>1, <4>1 DEF Chain
    <3>3. CASE n # 0
      <4>1. n \in 1 .. n /\ k - 1 = n
        BY <1>2, <2>0, <2>3, <3>3
      <4>2. f[k - 1] = cell(n) /\ cell(n) \in heap /\ data[cell(n)] = hi
        BY <1>2, <1>3, <1>5, <4>1
      <4> QED
        BY <3>1, <4>2 DEF Chain
    <3> QED
      BY <3>2, <3>3
  <2>4. CASE k > n + 1
    <3>1. k \in (n + 1) .. N /\ k - 1 \in (n + 1) .. N
      BY <1>2, <2>0, <2>4
    <3> QED
      BY <1>5, <3>1
  <2> QED
    BY <1>2, <2>0, <2>1, <2>2, <2>3, <2>4
<1>8. f = [k \in 0 .. N |-> IF k = 0 THEN Dummy
                            ELSE IF f[k - 1] = NULL THEN NULL ELSE next[f[k - 1]]]
  <2>1. PICK g : g = f
    OBVIOUS
  <2>2. g = [k \in 0 .. N |-> g[k]] /\ g[0] = Dummy
    BY <2>1, <1>5
  <2>3. \A k \in 0 .. N : g[k] = IF k = 0 THEN Dummy
                            ELSE IF g[k - 1] = NULL THEN NULL ELSE next[g[k - 1]]
    <3> SUFFICES ASSUME NEW k \in 0 .. N
                 PROVE  g[k] = IF k = 0 THEN Dummy
                            ELSE IF g[k - 1] = NULL THEN NULL ELSE next[g[k - 1]]
      OBVIOUS
    <3>1. k = 0 \/ k \in 1 .. N
      BY <1>1
    <3> QED
      BY <1>7, <2>1, <2>2, <3>1
  <2>4. g = [k \in 0 .. N |-> IF k = 0 THEN Dummy
                            ELSE IF g[k - 1] = NULL THEN NULL ELSE next[g[k - 1]]]
    BY <2>2, <2>3
  <2> QED
    BY <2>1, <2>4
<1>9. After = f
  <2> HIDE DEF f
  <2> QED
    BY <1>1, <1>8, AfterIs
<1>10. After[0] = Dummy /\ \A k \in 1 .. n : After[k] \in heap /\ data[After[k]] = lo + k
  <2> HIDE DEF f
  <2> QED
    BY <1>3, <1>5, <1>9
<1>11. Reachable = heap \cup {Dummy}
  <2> HIDE DEF f
  <2>1. Reachable = {f[k] : k \in 0 .. N} \ {NULL}
    BY <1>1, <1>9 DEF Reachable
  <2>2. ASSUME NEW k \in 0 .. N, f[k] # NULL PROVE f[k] \in heap \cup {Dummy}
    <3>1. k = 0 \/ k \in 1 .. n \/ k \in (n + 1) .. N
      BY <1>1, <1>2
    <3> QED
      BY <1>3, <1>5, <2>2, <3>1
  <2>3. ASSUME NEW x \in heap PROVE x \in Reachable
    <3>1. data[x] \in (lo + 1) .. hi /\ x # NULL
      BY <1>f DEF Chain, Fields
    <3>2. PICK k \in 1 .. n : data[x] = lo + k
      <4>1. data[x] - lo \in 1 .. n /\ data[x] = lo + (data[x] - lo)
        BY <1>2, <3>1
      <4> QED
        BY <4>1
    <3>3. f[k] = x
      BY <1>3, <1>4, <1>5, <3>2
    <3>4. k \in 0 .. N
      BY <1>1, <1>2
    <3> QED
      BY <2>1, <3>1, <3>3, <3>4
  <2>4. Dummy \in Reachable
    <3>1. 0 \in 0 .. N /\ Dummy # NULL
      BY <1>1, <1>f DEF Fields
    <3> QED
      BY <1>5, <2>1, <3>1
  <2> QED
    BY <2>1, <2>2, <2>3, <2>4
<1> QED
  BY <1>1, <1>2, <1>10, <1>11

(* As long as the calls of QuePush and QuePop do not overlap, the queue    *)
(* holds between them exactly the elements pushed and not popped, oldest   *)
(* first, que.rear is its last node, and no node is lost or left over.     *)
THEOREM QueueKeptInTurn == Spec => []QueueIntact
<1>1. RaceInv /\ TurnInv => QueueIntact
  <2> SUFFICES ASSUME RaceInv, InTurn, push.pc = "idle", pop.pc = "idle"
               PROVE  LET n == Cardinality(Waiting)
                      IN  /\ \A k \in 1 .. n : After[k] # NULL /\ data[After[k]] = push.c - n + k
                          /\ rear = After[n] /\ next[rear] = NULL
                          /\ heap = Reachable \ {Dummy}
    BY DEF TurnInv, QueueIntact
  <2>f. Fields
    BY FieldsLemma DEF RaceInv
  <2>1. PICK lo, hi : lo = Len(output) /\ hi = push.c /\ lo \in Nat /\ hi \in Nat
    BY <2>f DEF Fields
  <2>2. ~Removing
    BY DEF Removing
  <2>3. InChain = heap /\ Oldest = lo /\ Newest = hi
    BY <2>1, <2>2 DEF InChain, Oldest, Newest
  <2>4. lo =< hi /\ Chain(heap, lo, hi) /\ hi =< Pushes
    BY <2>1, <2>3, <2>f DEF InTurn, Fields
  <2>5. IF lo = hi THEN rear = Dummy ELSE rear \in heap /\ data[rear] = hi
    BY <2>3 DEF InTurn
  <2>6. Waiting = (lo + 1) .. hi
    <3>1. DOMAIN output = 1 .. lo
      BY <2>1, <2>f DEF Fields
    <3>2. {output[i] : i \in DOMAIN output} = 1 .. lo
      BY <2>1, <3>1 DEF InTurn
    <3>3. Waiting = (1 .. hi) \ (1 .. lo)
      BY <2>1, <3>2 DEF Waiting
    <3> QED
      BY <2>1, <3>3
  <2>7. Cardinality(Waiting) = hi - lo
    <3>1. lo + 1 \in Int /\ hi \in Int
      BY <2>1
    <3>2. Cardinality((lo + 1) .. hi) = IF lo + 1 > hi THEN 0 ELSE hi - (lo + 1) + 1
      BY <3>1, FS_Interval
    <3> QED
      BY <2>1, <2>4, <2>6, <3>2
  <2>8. PICK n : n = hi - lo /\ n \in Nat
    BY <2>1, <2>4
  <2>9. /\ n \in 0 .. Cardinality(Cells) /\ After[0] = Dummy
        /\ \A k \in 1 .. n : After[k] \in heap /\ data[After[k]] = lo + k
        /\ Reachable = heap \cup {Dummy}
    BY <2>1, <2>4, <2>8, ChainRead
  <2>10. \A k \in 1 .. n : After[k] # NULL /\ data[After[k]] = push.c - n + k
    <3>1. push.c - n = lo
      BY <2>1, <2>8
    <3> QED
      BY <2>9, <2>f, <3>1 DEF Fields
  <2>11. rear = After[n] /\ next[rear] = NULL
    <3>1. CASE lo = hi
      <4>1. n = 0
        BY <2>1, <2>8, <3>1
      <4> QED
        BY <2>4, <2>5, <2>9, <3>1, <4>1 DEF Chain
    <3>2. CASE lo # hi
      <4>1. n \in 1 .. n /\ lo + n = hi
        BY <2>1, <2>4, <2>8, <3>2
      <4>2. After[n] \in heap /\ data[After[n]] = hi
        BY <2>9, <4>1
      <4> QED
        BY <2>4, <2>5, <3>2, <4>2 DEF Chain
    <3> QED
      BY <3>1, <3>2
  <2>12. heap = Reachable \ {Dummy}
    BY <2>9, <2>f DEF Fields
  <2> QED
    BY <2>7, <2>8, <2>10, <2>11, <2>12
<1> QED
  BY <1>1, TurnInvariant, PTL
=============================================================================
