----------------------------- MODULE DListProofs -----------------------------
(***************************************************************************)
(* Safety of the list of dlist.c for every number of threads and nodes,    *)
(* and its refinement of SharedList.  The inductive invariant is           *)
(*   TypeOK      types of the variables;                                   *)
(*   Discipline  who holds the lock, and that a node has one creator;      *)
(*   Insertions  what __list_add has written so far;                       *)
(*   Ringed      the nodes added form a ring, which is exhibited as a      *)
(*               function from positions to nodes; one prev pointer may be *)
(*               ahead of the others while __list_add is under way;        *)
(*   Unwinding   during list_destroy, the rest of the ring;                *)
(*   AllReclaimed.                                                         *)
(***************************************************************************)
EXTENDS DList, FiniteSetTheorems, SequenceTheorems, TLAPS

(* Where a thread holds the lock, owns a node, and is inside __list_add.   *)
Locked  == {"add_next_prev", "add_new", "add_prev_next", "add_unlock", "len_walk",
            "len_unlock"}
Linking == {"add_new", "add_prev_next"}
Inserting == {"add_next_prev"} \cup Linking
Adding  == {"add_lock", "add_tail_lock", "add_unlock"} \cup Inserting

Added == heap \ Pending

Discipline ==
  /\ \A t \in Threads :
       /\ pc[t] \in Locked <=> lock = t
       /\ IF pc[t] \in Adding THEN node[t] \in heap ELSE node[t] = NULL
       /\ list \in {"destroying", "freed"} => pc[t] = "idle"
  /\ \A t, u \in Threads : node[t] = node[u] /\ node[t] # NULL => t = u
  /\ list = "destroying" <=> lock = Main

(* The new node goes to the front or to the back.                          *)
Insertion(t) ==
  /\ pc[t] \in Inserting =>
       /\ place[t][1] \in Added \cup {ListHead} /\ next[place[t][1]] = place[t][2]
       /\ place[t][1] = ListHead \/ place[t][2] = ListHead
  /\ pc[t] \in Linking => prev[place[t][2]] = node[t]
  /\ pc[t] = "add_prev_next" => prev[node[t]] = place[t][1] /\ next[node[t]] = place[t][2]

Insertions == \A t \in Threads : Insertion(t)

(* r goes once around from the head through the n nodes of S.              *)
Shape(n, r, S) ==
  /\ r[0] = ListHead /\ r[n + 1] = ListHead
  /\ S = {r[k] : k \in 1 .. n}
  /\ \A j, k \in 1 .. n : r[j] = r[k] => j = k

Ring(n, r) ==
  /\ Shape(n, r, Added)
  /\ \A k \in 0 .. n : next[r[k]] = r[k + 1]
  /\ \A k \in 0 .. n : \/ prev[r[k + 1]] = r[k]
                       \/ \E t \in Threads : pc[t] \in Linking /\ place[t][2] = r[k + 1]

(* The walks of list_length, on that ring.                                 *)
Walks(n, r) ==
  \A t \in Threads :
    /\ pc[t] = "len_walk" => \E k \in 0 .. n : iter[t] = r[k] /\ len[t] = k
    /\ pc[t] = "len_unlock" => len[t] = n

Ringed ==
  list \in {"live", "crashed"} =>
    \E n \in Nat : \E r \in [0 .. (n + 1) -> Links] : Ring(n, r) /\ Walks(n, r)

(* What list_destroy still has to visit.                                   *)
Rest(n, r) ==
  /\ Shape(n, r, heap)
  /\ iter[Main] = r[1]
  /\ \A k \in 1 .. n : next[r[k]] = r[k + 1]

Unwinding ==
  list = "destroying" => \E n \in Nat : \E r \in [0 .. (n + 1) -> Links] : Rest(n, r)

DListInv == TypeOK /\ Discipline /\ Insertions /\ Ringed /\ Unwinding /\ AllReclaimed

-----------------------------------------------------------------------------
(* Rings *)

(* Every set of natural numbers has a least element: what is false of some *)
(* number is false of a first one.                                         *)
LEMMA LeastElement ==
  ASSUME NEW B, B \subseteq Nat, B # {}
  PROVE  \E k \in B : \A j \in B : k =< j
<1> DEFINE S == FiniteSubsetsOf(Nat)
           R == StrictSubsetOrdering(Nat)
           T == {0 .. k : k \in B}
<1>1. IsWellFoundedOn(R, S)
  BY FS_StrictSubsetOrderingWellFounded
<1>2. T # {}
  OBVIOUS
<1>3. T \subseteq S
  <2> SUFFICES ASSUME NEW k \in B PROVE 0 .. k \in S
    OBVIOUS
  <2>1. k \in Nat /\ 0 \in Int /\ k \in Int
    OBVIOUS
  <2>2. IsFiniteSet(0 .. k)
    BY <2>1, FS_Interval
  <2>3. 0 .. k \in SUBSET Nat
    BY <2>1
  <2> QED
    BY <2>2, <2>3 DEF FiniteSubsetsOf
<1>4. PICK X \in T : \A Y \in T : ~(<<Y, X>> \in R)
  <2> HIDE DEF R, S, T
  <2> QED
    BY <1>1, <1>2, <1>3, WFMin
<1>5. PICK k \in B : X = 0 .. k
  OBVIOUS
<1>6. ASSUME NEW j \in B PROVE k =< j
  <2> SUFFICES ASSUME j < k PROVE FALSE
    OBVIOUS
  <2>1. 0 .. j \subseteq 0 .. k /\ 0 .. j # 0 .. k
    OBVIOUS
  <2>2. 0 .. j \in SUBSET Nat /\ 0 .. k \in SUBSET Nat
    OBVIOUS
  <2>3. <<0 .. j, 0 .. k>> \in R
    BY <2>1, <2>2, Zenon DEF StrictSubsetOrdering
  <2> QED
    BY <1>4, <1>5, <2>3
<1> QED
  BY <1>6

LEMMA ShapeFacts ==
  ASSUME NEW n \in Nat, NEW r \in [0 .. (n + 1) -> Links], NEW S, S \subseteq Nodes,
         Shape(n, r, S)
  PROVE  /\ \A k \in 1 .. n : r[k] \in S /\ r[k] # ListHead
         /\ \A k \in 0 .. (n + 1) : r[k] \in S \cup {ListHead}
         /\ \A x \in S : \E k \in 1 .. n : r[k] = x
         /\ \A x \in S \cup {ListHead} : \E k \in 0 .. n : r[k] = x
         /\ \A x \in S \cup {ListHead} : \E k \in 0 .. n : r[k + 1] = x
         /\ \A j, k \in 0 .. n : r[j] = r[k] => j = k
         /\ \A j, k \in 0 .. n : r[j + 1] = r[k + 1] => j = k
<1>1. \A k \in 1 .. n : r[k] \in S /\ r[k] # ListHead
  BY DListAssumption DEF Shape
<1>2. \A k \in 0 .. (n + 1) : k = 0 \/ k \in 1 .. n \/ k = n + 1
  OBVIOUS
<1>3. \A k \in 0 .. (n + 1) : r[k] \in S \cup {ListHead}
  BY <1>1, <1>2 DEF Shape
<1>4. \A x \in S : \E k \in 1 .. n : r[k] = x
  BY DEF Shape
<1>5. \A x \in S \cup {ListHead} : \E k \in 0 .. n : r[k] = x
  BY <1>4 DEF Shape
<1>6. \A x \in S \cup {ListHead} : \E k \in 0 .. n : r[k + 1] = x
  <2> SUFFICES ASSUME NEW x \in S \cup {ListHead} PROVE \E k \in 0 .. n : r[k + 1] = x
    OBVIOUS
  <2>1. CASE x = ListHead
    BY <2>1 DEF Shape
  <2>2. CASE x \in S
    <3>1. PICK k \in 1 .. n : r[k] = x
      BY <1>4, <2>2
    <3>2. k - 1 \in 0 .. n /\ (k - 1) + 1 = k
      OBVIOUS
    <3> QED
      BY <3>1, <3>2
  <2> QED
    BY <2>1, <2>2
<1>7. \A j, k \in 0 .. n : r[j] = r[k] => j = k
  <2>1. \A k \in 0 .. n : k = 0 \/ k \in 1 .. n
    OBVIOUS
  <2> QED
    BY <1>1, <2>1 DEF Shape
<1>8. \A j, k \in 0 .. n : r[j + 1] = r[k + 1] => j = k
  <2> SUFFICES ASSUME NEW j \in 0 .. n, NEW k \in 0 .. n, r[j + 1] = r[k + 1]
               PROVE  j = k
    OBVIOUS
  <2>1. (j = n \/ j + 1 \in 1 .. n) /\ (k = n \/ k + 1 \in 1 .. n)
    OBVIOUS
  <2>2. j + 1 \in 1 .. n /\ k + 1 \in 1 .. n => j + 1 = k + 1
    BY DEF Shape
  <2>3. r[n + 1] = ListHead
    BY DEF Shape
  <2>4. (j + 1 \in 1 .. n => r[j + 1] # ListHead) /\ (k + 1 \in 1 .. n => r[k + 1] # ListHead)
    BY <1>1
  <2> QED
    BY <2>1, <2>2, <2>3, <2>4
<1> QED
  BY <1>1, <1>3, <1>4, <1>5, <1>6, <1>7, <1>8

(* A ring is as long as it has nodes.                                      *)
LEMMA ShapeSize ==
  ASSUME NEW n \in Nat, NEW r \in [0 .. (n + 1) -> Links], NEW S, S \subseteq Nodes,
         Shape(n, r, S)
  PROVE  IsFiniteSet(S) /\ Cardinality(S) = n /\ n =< Cardinality(Nodes)
         /\ Cardinality(Nodes) \in Nat
<1>1. IsFiniteSet(1 .. n) /\ Cardinality(1 .. n) = n
  <2>1. 1 \in Int /\ n \in Int
    OBVIOUS
  <2>2. IsFiniteSet(1 .. n) /\ Cardinality(1 .. n) = IF 1 > n THEN 0 ELSE n - 1 + 1
    BY <2>1, FS_Interval
  <2> QED
    BY <2>2
<1>2. [k \in 1 .. n |-> r[k]] \in Bijection(1 .. n, S)
  <2> DEFINE g == [k \in 1 .. n |-> r[k]]
  <2>1. g \in [1 .. n -> S]
    BY Zenon DEF Shape
  <2>2. \A j, k \in 1 .. n : g[j] = g[k] => j = k
    BY DEF Shape
  <2>3. \A x \in S : \E k \in 1 .. n : g[k] = x
    BY DEF Shape
  <2>4. g \in Bijection(1 .. n, S)
    <3> HIDE DEF g
    <3> QED
      BY <2>1, <2>2, <2>3 DEF Bijection, Injection, Surjection, IsInjective
  <2> QED
    BY <2>4
<1>3. IsFiniteSet(S) /\ Cardinality(S) = n
  BY <1>1, <1>2, FS_Bijection DEF ExistsBijection
<1>4. Cardinality(S) =< Cardinality(Nodes) /\ Cardinality(Nodes) \in Nat
  BY DListAssumption, FS_Subset, FS_CardinalityType
<1> QED
  BY <1>3, <1>4

(* A node x is put in after position p.                                    *)
With(n, r, p, x) ==
  [k \in 0 .. (n + 2) |-> IF k =< p THEN r[k] ELSE IF k = p + 1 THEN x ELSE r[k - 1]]

LEMMA WithFacts ==
  ASSUME NEW n \in Nat, NEW r \in [0 .. (n + 1) -> Links], NEW S, S \subseteq Nodes,
         Shape(n, r, S), NEW p \in 0 .. n, NEW x \in Nodes, x \notin S
  PROVE  /\ With(n, r, p, x) \in [0 .. ((n + 1) + 1) -> Links]
         /\ \A k \in 0 .. p : With(n, r, p, x)[k] = r[k]
         /\ With(n, r, p, x)[p + 1] = x
         /\ \A k \in (p + 2) .. (n + 2) : With(n, r, p, x)[k] = r[k - 1]
         /\ Shape(n + 1, With(n, r, p, x), S \cup {x})
<1> DEFINE q == With(n, r, p, x)
<1>0. (n + 1) + 1 = n + 2 /\ x \in Links /\ x # ListHead
  BY DListAssumption DEF Links
<1>1. /\ \A k \in 0 .. p : q[k] = r[k]
      /\ q[p + 1] = x
      /\ \A k \in (p + 2) .. (n + 2) : q[k] = r[k - 1]
  BY DEF With
<1>2. \A k \in 0 .. (n + 2) : k \in 0 .. p \/ k = p + 1 \/ k \in (p + 2) .. (n + 2)
  OBVIOUS
<1>3. q \in [0 .. (n + 2) -> Links]
  <2>1. q = [k \in 0 .. (n + 2) |-> q[k]]
    BY DEF With
  <2>2. ASSUME NEW k \in 0 .. (n + 2) PROVE q[k] \in Links
    <3>1. /\ k \in 0 .. p => k \in 0 .. (n + 1)
          /\ k \in (p + 2) .. (n + 2) => k - 1 \in 0 .. (n + 1)
      OBVIOUS
    <3> HIDE DEF q
    <3> QED
      BY <1>0, <1>1, <1>2, <3>1
  <2> HIDE DEF q
  <2> QED
    BY <2>1, <2>2, Zenon
<1> HIDE DEF q
<1>4. q[0] = ListHead /\ q[(n + 1) + 1] = ListHead
  <2>1. 0 \in 0 .. p /\ n + 2 \in (p + 2) .. (n + 2) /\ (n + 2) - 1 = n + 1
    OBVIOUS
  <2> QED
    BY <1>0, <1>1, <2>1 DEF Shape
<1>5. \A k \in 1 .. (n + 1) : k \in 1 .. p \/ k = p + 1 \/ (k \in (p + 2) .. (n + 1))
  OBVIOUS
<1>6. /\ \A k \in 1 .. p : k \in 0 .. p /\ k \in 1 .. n
      /\ \A k \in (p + 2) .. (n + 1) : k \in (p + 2) .. (n + 2) /\ k - 1 \in 1 .. n
  OBVIOUS
<1>7. \A k \in 1 .. n : r[k] \in S /\ r[k] # x
  BY DEF Shape
<1>8. \A k \in 1 .. (n + 1) : q[k] \in S \cup {x}
  BY <1>1, <1>5, <1>6, <1>7
<1>9. ASSUME NEW y \in S \cup {x} PROVE \E k \in 1 .. (n + 1) : q[k] = y
  <2>1. CASE y = x
    <3>1. p + 1 \in 1 .. (n + 1)
      OBVIOUS
    <3> QED
      BY <1>1, <2>1, <3>1
  <2>2. CASE y # x
    <3>1. PICK k \in 1 .. n : r[k] = y
      BY <2>2 DEF Shape
    <3>2. CASE k =< p
      <4>1. k \in 0 .. p /\ k \in 1 .. (n + 1)
        BY <3>2
      <4> QED
        BY <1>1, <3>1, <4>1
    <3>3. CASE ~(k =< p)
      <4>1. k + 1 \in (p + 2) .. (n + 2) /\ k + 1 \in 1 .. (n + 1) /\ (k + 1) - 1 = k
        BY <3>3
      <4> QED
        BY <1>1, <3>1, <4>1
    <3> QED
      BY <3>2, <3>3
  <2> QED
    BY <2>1, <2>2
<1>10. ASSUME NEW j \in 1 .. (n + 1), NEW k \in 1 .. (n + 1), q[j] = q[k] PROVE j = k
  <2> DEFINE old(i) == IF i =< p THEN i ELSE i - 1
  <2>1. \A i \in 1 .. (n + 1) : i # p + 1 => old(i) \in 1 .. n /\ q[i] = r[old(i)]
    BY <1>1, <1>5, <1>6
  <2>2. CASE j = p + 1 \/ k = p + 1
    <3>1. \A i \in 1 .. (n + 1) : q[i] = x => i = p + 1
      BY <1>7, <2>1
    <3> QED
      BY <1>1, <1>10, <2>2, <3>1
  <2>3. CASE j # p + 1 /\ k # p + 1
    <3>1. old(j) = old(k)
      <4> HIDE DEF old
      <4> QED
        BY <1>10, <2>1, <2>3 DEF Shape
    <3> QED
      BY <2>3, <3>1
  <2> QED
    BY <2>2, <2>3
<1>11. S \cup {x} = {q[k] : k \in 1 .. (n + 1)}
  BY <1>8, <1>9
<1>12. Shape(n + 1, q, S \cup {x})
  BY <1>4, <1>10, <1>11 DEF Shape
<1>13. q \in [0 .. ((n + 1) + 1) -> Links]
  BY <1>0, <1>3
<1> QED
  BY <1>1, <1>12, <1>13 DEF q

-----------------------------------------------------------------------------
(* The list that a walk finds is the ring.                                 *)

(* The recursion that defines After has a solution, built step by step.    *)
LEMMA AfterSteps ==
  ASSUME NEW N \in Nat, N = Cardinality(Links)
  PROVE  /\ After[0] = ListHead
         /\ \A k \in 1 .. N :
              After[k] = IF After[k - 1] = NULL THEN ListHead ELSE next[After[k - 1]]
<1> DEFINE Follows(m, g) ==
      g = [k \in 0 .. m |-> IF k = 0 \/ g[k - 1] = NULL THEN ListHead ELSE next[g[k - 1]]]
<1>1. \A m \in 0 .. N : \E g : Follows(m, g)
  <2> DEFINE Bad == {m \in 0 .. N : ~ \E g : Follows(m, g)}
  <2> SUFFICES ASSUME Bad # {} PROVE FALSE
    OBVIOUS
  <2>1. PICK m \in Bad : \A j \in Bad : m =< j
    <3>1. Bad \subseteq Nat
      OBVIOUS
    <3> HIDE DEF Bad
    <3> QED
      BY <3>1, LeastElement
  <2>2. CASE m = 0
    <3> DEFINE g == [k \in 0 .. 0 |-> ListHead]
    <3>1. \A k \in 0 .. 0 : k = 0
      OBVIOUS
    <3>2. Follows(0, g)
      BY <3>1
    <3> QED
      BY <2>2, <3>2
  <2>3. CASE m # 0
    <3>1. m \in Nat /\ m - 1 \in 0 .. N /\ m - 1 \notin Bad
      BY <2>1, <2>3
    <3>2. PICK f : Follows(m - 1, f)
      BY <3>1
    <3> DEFINE g == [k \in 0 .. m |-> IF k = m THEN IF f[m - 1] = NULL THEN ListHead
                                                    ELSE next[f[m - 1]]
                                      ELSE f[k]]
    <3>3. ASSUME NEW k \in 0 .. m
          PROVE  g[k] = IF k = 0 \/ g[k - 1] = NULL THEN ListHead ELSE next[g[k - 1]]
      <4>1. CASE k = m
        <5>1. m - 1 \in 0 .. m /\ m - 1 # m
          BY <2>3, <3>1
        <5> QED
          BY <2>3, <4>1, <5>1
      <4>2. CASE k # m
        <5>1. k \in 0 .. (m - 1) /\ g[k] = f[k]
          BY <3>1, <4>2
        <5>2. k # 0 => k - 1 \in 0 .. m /\ k - 1 # m
          BY <3>1, <4>2
        <5>3. k # 0 => g[k - 1] = f[k - 1]
          BY <5>2
        <5>4. f[k] = IF k = 0 \/ f[k - 1] = NULL THEN ListHead ELSE next[f[k - 1]]
          BY <3>2, <5>1
        <5> QED
          BY <5>1, <5>3, <5>4
      <4> QED
        BY <4>1, <4>2
    <3>4. g = [k \in 0 .. m |-> g[k]]
      OBVIOUS
    <3>5. Follows(m, g)
      <4> HIDE DEF g
      <4> QED
        BY <3>3, <3>4
    <3>6. m \notin Bad
      <4> HIDE DEF Follows, g
      <4> QED
        BY <3>5
    <3> QED
      BY <3>6
  <2> QED
    BY <2>2, <2>3
<1>2. After = CHOOSE g : Follows(N, g)
  BY DEF After
<1>3. Follows(N, After)
  <2>1. \E g : Follows(N, g)
    BY <1>1
  <2> HIDE DEF Follows
  <2> QED
    BY <1>2, <2>1
<1>4. PICK h : h = After
  OBVIOUS
<1>5. Follows(N, h)
  BY <1>3, <1>4
<1>6. h[0] = ListHead
  BY <1>5
<1>7. \A k \in 1 .. N : h[k] = IF h[k - 1] = NULL THEN ListHead ELSE next[h[k - 1]]
  BY <1>5
<1> QED
  BY <1>4, <1>6, <1>7

(* On a ring, the first return to the head is after n + 1 steps, and the   *)
(* walk until then is r.                                                   *)
LEMMA WalkRing ==
  ASSUME NEW n \in Nat, NEW r \in [0 .. (n + 1) -> Links], NEW S, S \subseteq Nodes,
         Shape(n, r, S), \A k \in 0 .. n : next[r[k]] = r[k + 1]
  PROVE  Forward = [i \in 1 .. n |-> r[i]]
<1>1. PICK N : N = Cardinality(Links) /\ N \in Nat /\ n + 1 =< N
  <2>1. Cardinality(Links) = Cardinality(Nodes) + 1
    BY DListAssumption, FS_AddElement DEF Links
  <2> QED
    BY <2>1, ShapeSize
<1>2. PICK h : h = After
  OBVIOUS
<1>3. /\ h[0] = ListHead
      /\ \A k \in 1 .. N : h[k] = IF h[k - 1] = NULL THEN ListHead ELSE next[h[k - 1]]
  BY <1>1, <1>2, AfterSteps
<1>4. \A k \in 0 .. (n + 1) : h[k] = r[k]
  <2> DEFINE Bad == {k \in 0 .. (n + 1) : h[k] # r[k]}
  <2> SUFFICES ASSUME Bad # {} PROVE FALSE
    OBVIOUS
  <2>1. PICK k \in Bad : \A j \in Bad : k =< j
    <3>1. Bad \subseteq Nat
      OBVIOUS
    <3> HIDE DEF Bad
    <3> QED
      BY <3>1, LeastElement
  <2>2. k # 0
    BY <1>3 DEF Shape
  <2>3. k \in 1 .. N /\ k - 1 \in 0 .. n /\ k - 1 \notin Bad /\ (k - 1) + 1 = k
    BY <1>1, <2>1, <2>2
  <2>4. h[k - 1] = r[k - 1] /\ r[k - 1] \in Links
    BY <2>3
  <2>5. r[k - 1] # NULL
    BY <2>4, DListAssumption DEF Links
  <2>6. h[k] = next[r[k - 1]]
    BY <1>3, <2>3, <2>4, <2>5
  <2>7. next[r[k - 1]] = r[k]
    BY <2>3
  <2> QED
    BY <2>6, <2>7
<1> DEFINE back == {k \in 1 .. N : h[k] = ListHead}
           end == CHOOSE k \in back : \A j \in back : k =< j
<1>5. n + 1 \in back /\ \A j \in back : n + 1 =< j
  <2>1. n + 1 \in back
    BY <1>1, <1>4 DEF Shape
  <2>2. ASSUME NEW j \in back PROVE n + 1 =< j
    <3> SUFFICES ASSUME j < n + 1 PROVE FALSE
      BY <1>1
    <3>1. j \in 1 .. n
      BY <1>1
    <3>2. r[j] # ListHead
      BY <3>1, ShapeFacts
    <3> QED
      BY <1>4, <3>1, <3>2
  <2> QED
    BY <2>1, <2>2
<1>6. end = n + 1
  <2>1. \A j \in back : j \in Int
    BY <1>1
  <2> HIDE DEF back
  <2>2. end \in back /\ \A j \in back : end =< j
    BY <1>5
  <2> HIDE DEF end
  <2> QED
    BY <1>5, <2>1, <2>2
<1>7. Forward = [i \in 1 .. (end - 1) |-> h[i]]
  <2>1. back # {}
    BY <1>5
  <2> QED
    BY <1>1, <1>2, <2>1 DEF Forward
<1> HIDE DEF end, back
<1>8. end - 1 = n
  BY <1>6
<1>9. \A i \in 1 .. n : h[i] = r[i]
  BY <1>4
<1> QED
  BY <1>7, <1>8, <1>9

-----------------------------------------------------------------------------
(* The steps *)

LEMMA DListInit == Init => DListInv
<1> SUFFICES ASSUME Init PROVE DListInv
  OBVIOUS
<1>1. Cardinality(Nodes) \in Nat
  BY DListAssumption, FS_CardinalityType
<1>2. TypeOK
  <2>1. \A t \in Threads : <<ListHead, ListHead>> \in Links \X Links
    BY DEF Links
  <2>2. 0 \in 0 .. Cardinality(Nodes)
    BY <1>1
  <2>3. /\ node \in [Threads -> Nodes \cup {NULL}] /\ place \in [Threads -> Links \X Links]
        /\ iter \in [Threads \cup {Main} -> Links] /\ len \in [Threads -> 0 .. Cardinality(Nodes)]
        /\ length \in [Threads -> 0 .. Cardinality(Nodes)]
        /\ pc \in [Threads -> PC]
    BY <2>1, <2>2 DEF Init, Links, PC
  <2>4. next \in [Links -> Links \cup {NULL}] /\ prev \in [Links -> Links \cup {NULL}]
    BY DEF Init, Links
  <2> QED
    BY <2>3, <2>4 DEF Init, TypeOK
<1>3. /\ \A t \in Threads : pc[t] = "idle" /\ node[t] = NULL /\ lock # t
      /\ lock # Main /\ list = "live" /\ heap = {}
  BY DListAssumption DEF Init
<1>4. Discipline /\ Insertions
  BY <1>3 DEF Discipline, Insertions, Insertion, Locked, Linking, Inserting, Adding
<1>5. Ringed
  <2> DEFINE r == [k \in 0 .. (0 + 1) |-> ListHead]
  <2>1. r \in [0 .. (0 + 1) -> Links] /\ r[0] = ListHead /\ r[0 + 1] = ListHead
    BY DEF Links
  <2>2. Added = {}
    BY <1>3 DEF Added
  <2>3. next[ListHead] = ListHead /\ prev[ListHead] = ListHead
    BY DEF Init, Links
  <2>4. 1 .. 0 = {} /\ \A k \in 0 .. 0 : k = 0
    OBVIOUS
  <2> HIDE DEF r
  <2>5. Ring(0, r)
    BY <2>1, <2>2, <2>3, <2>4 DEF Ring, Shape
  <2>6. Walks(0, r)
    BY <1>3 DEF Walks
  <2> QED
    BY <2>1, <2>5, <2>6 DEF Ringed
<1> QED
  BY <1>2, <1>3, <1>4, <1>5 DEF DListInv, Unwinding, AllReclaimed

(* The lock admits one thread at a time.                                   *)
LEMMA OneHolder ==
  ASSUME Discipline, NEW t \in Threads, NEW u \in Threads,
         pc[t] \in Locked, pc[u] \in Locked
  PROVE  t = u
BY DEF Discipline

(* What a step of thread t leaves alone.                                   *)
Apart(t) ==
  /\ \A u \in Threads : u # t =>
       /\ pc'[u] = pc[u] /\ node'[u] = node[u] /\ place'[u] = place[u]
       /\ iter'[u] = iter[u] /\ len'[u] = len[u]
  /\ iter'[Main] = iter[Main]

LEMMA ThreadApart ==
  ASSUME TypeOK, NEW t \in Threads, ThreadStep(t)
  PROVE  Apart(t)
<1>1. Main # t
  BY DListAssumption
<1>2. pc' = pc \/ \E c : pc' = [pc EXCEPT ![t] = c]
  BY DEF ThreadStep, NodeCreate, NodeCreateFails, AddLock, AddTailLock, AddNextPrev, AddNew,
         AddPrevNext, AddUnlock, LengthCall, LengthLock, LengthWalk, LengthUnlock, Go, addVars,
         lenVars
<1>3. node' = node \/ \E n : node' = [node EXCEPT ![t] = n]
  BY DEF ThreadStep, NodeCreate, NodeCreateFails, AddLock, AddTailLock, AddNextPrev, AddNew,
         AddPrevNext, AddUnlock, LengthCall, LengthLock, LengthWalk, LengthUnlock, addVars
<1>4. place' = place \/ \E n : place' = [place EXCEPT ![t] = n]
  BY DEF ThreadStep, NodeCreate, NodeCreateFails, AddLock, AddTailLock, AddNextPrev, AddNew,
         AddPrevNext, AddUnlock, LengthCall, LengthLock, LengthWalk, LengthUnlock, addVars
<1>5. iter' = iter \/ \E n : iter' = [iter EXCEPT ![t] = n]
  BY DEF ThreadStep, NodeCreate, NodeCreateFails, AddLock, AddTailLock, AddNextPrev, AddNew,
         AddPrevNext, AddUnlock, LengthCall, LengthLock, LengthWalk, LengthUnlock, lenVars
<1>6. len' = len \/ \E n : len' = [len EXCEPT ![t] = n]
  BY DEF ThreadStep, NodeCreate, NodeCreateFails, AddLock, AddTailLock, AddNextPrev, AddNew,
         AddPrevNext, AddUnlock, LengthCall, LengthLock, LengthWalk, LengthUnlock, lenVars
<1> QED
  BY <1>1, <1>2, <1>3, <1>4, <1>5, <1>6 DEF Apart, TypeOK

(* Steps of thread t that leave the ring as it is.                         *)
LEMMA RingedKept ==
  ASSUME DListInv, NEW t \in Threads, Apart(t), Added' = Added,
         list \in {"live", "crashed"},
         \A x \in Added \cup {ListHead} : next'[x] = next[x],
         \A x \in Added \cup {ListHead} :
           prev'[x] = prev[x] \/ (pc'[t] \in Linking /\ place'[t][2] = x),
         pc[t] \in Linking => pc'[t] \in Linking /\ place'[t] = place[t],
         pc'[t] \notin {"len_walk", "len_unlock"}
  PROVE  Ringed'
<1>0. PICK n \in Nat : \E r \in [0 .. (n + 1) -> Links] : Ring(n, r) /\ Walks(n, r)
  BY DEF DListInv, Ringed
<1>1. PICK r \in [0 .. (n + 1) -> Links] : Ring(n, r) /\ Walks(n, r)
  BY <1>0
<1>2. Added \subseteq Nodes
  BY DEF DListInv, TypeOK, Added
<1>3. /\ \A k \in 0 .. (n + 1) : r[k] \in Added \cup {ListHead}
      /\ \A k \in 0 .. n : k \in 0 .. (n + 1) /\ k + 1 \in 0 .. (n + 1)
  BY <1>1, <1>2, ShapeFacts DEF Ring
<1>4. Ring(n, r)'
  <2>1. Shape(n, r, Added)'
    BY <1>1 DEF Ring, Shape
  <2>2. \A k \in 0 .. n : next'[r[k]] = r[k + 1]
    BY <1>1, <1>3 DEF Ring
  <2>3. ASSUME NEW k \in 0 .. n
        PROVE  \/ prev'[r[k + 1]] = r[k]
               \/ \E u \in Threads : pc'[u] \in Linking /\ place'[u][2] = r[k + 1]
    <3>1. r[k + 1] \in Added \cup {ListHead}
      BY <1>3
    <3>2. \/ prev[r[k + 1]] = r[k]
          \/ \E u \in Threads : pc[u] \in Linking /\ place[u][2] = r[k + 1]
      BY <1>1 DEF Ring
    <3> QED
      BY <3>1, <3>2 DEF Apart
  <2> QED
    BY <2>1, <2>2, <2>3 DEF Ring
<1>5. Walks(n, r)'
  BY <1>1 DEF Walks, Apart
<1> QED
  BY <1>4, <1>5 DEF Ringed

(* The other threads' insertions are not disturbed: none is under way when *)
(* t has the lock.                                                         *)
LEMMA InsertionsApart ==
  ASSUME DListInv, NEW t \in Threads, Apart(t),
         (UNCHANGED <<next, prev>> /\ Added' = Added) \/ pc[t] \in Locked,
         Insertion(t)'
  PROVE  Insertions'
<1> SUFFICES ASSUME NEW u \in Threads, u # t PROVE Insertion(u)'
  BY DEF Insertions
<1>1. pc'[u] = pc[u] /\ node'[u] = node[u] /\ place'[u] = place[u]
  BY DEF Apart
<1>2. Insertion(u)
  BY DEF DListInv, Insertions
<1>3. CASE pc[t] \in Locked
  <2>1. pc[u] \notin Locked
    BY <1>3, OneHolder DEF DListInv
  <2> QED
    BY <1>1, <2>1 DEF Insertion, Locked, Linking, Inserting
<1>4. CASE UNCHANGED <<next, prev>> /\ Added' = Added
  BY <1>1, <1>2, <1>4 DEF Insertion
<1> QED
  BY <1>3, <1>4

(* The ring in terms of the pointers.                                      *)
LEMMA RingFacts ==
  ASSUME DListInv, list \in {"live", "crashed"}
  PROVE  /\ Added \subseteq Nodes /\ Added \subseteq Links /\ ListHead \in Links
         /\ ListHead \notin Added /\ NULL \notin Added
         /\ \A x \in Added \cup {ListHead} : next[x] \in Added \cup {ListHead}
         /\ lock = NULL => \A x \in Added \cup {ListHead} :
              prev[x] \in Added \cup {ListHead} /\ next[prev[x]] = x
<1>0. PICK n \in Nat : \E r \in [0 .. (n + 1) -> Links] : Ring(n, r) /\ Walks(n, r)
  BY DEF DListInv, Ringed
<1>1. PICK r \in [0 .. (n + 1) -> Links] : Ring(n, r) /\ Walks(n, r)
  BY <1>0
<1>2. /\ Added \subseteq Nodes /\ Added \subseteq Links /\ ListHead \in Links
      /\ ListHead \notin Added /\ NULL \notin Added
  BY DListAssumption DEF DListInv, TypeOK, Added, Links
<1>3. /\ \A k \in 0 .. (n + 1) : r[k] \in Added \cup {ListHead}
      /\ \A k \in 0 .. n : k \in 0 .. (n + 1) /\ k + 1 \in 0 .. (n + 1)
      /\ \A x \in Added \cup {ListHead} : \E k \in 0 .. n : r[k] = x
      /\ \A x \in Added \cup {ListHead} : \E k \in 0 .. n : r[k + 1] = x
  BY <1>1, <1>2, ShapeFacts DEF Ring
<1>4. \A x \in Added \cup {ListHead} : next[x] \in Added \cup {ListHead}
  BY <1>1, <1>3 DEF Ring
<1>5. ASSUME lock = NULL, NEW x \in Added \cup {ListHead}
      PROVE  prev[x] \in Added \cup {ListHead} /\ next[prev[x]] = x
  <2>1. PICK k \in 0 .. n : r[k + 1] = x
    BY <1>3
  <2>2. \A t \in Threads : pc[t] \notin Linking
    BY <1>5, DListAssumption DEF DListInv, Discipline, Linking, Locked
  <2> QED
    BY <1>1, <1>3, <2>1, <2>2 DEF Ring
<1> QED
  BY <1>2, <1>4, <1>5

(* The parts of the invariant about list_destroy do not concern threads.   *)
LEMMA DestroyApart ==
  ASSUME DListInv, NEW t \in Threads, ThreadStep(t)
  PROVE  /\ list \in {"live", "crashed"} /\ list' \in {"live", "crashed"}
         /\ Unwinding' /\ AllReclaimed'
<1>1. list \in {"live", "crashed"}
  BY DEF DListInv, TypeOK, Discipline, ThreadStep, NodeCreate, NodeCreateFails, AddLock,
     AddTailLock, AddNextPrev, AddNew, AddPrevNext, AddUnlock, LengthCall, LengthLock,
     LengthWalk, LengthUnlock
<1>2. list' = list \/ list' = "crashed"
  BY DEF ThreadStep, NodeCreate, NodeCreateFails, AddLock, AddTailLock, AddNextPrev, AddNew,
     AddPrevNext, AddUnlock, LengthCall, LengthLock, LengthWalk, LengthUnlock
<1> QED
  BY <1>1, <1>2 DEF Unwinding, AllReclaimed

LEMMA NodeCreateKeeps ==
  ASSUME DListInv, NEW t \in Threads, ThreadStep(t), NEW tail \in BOOLEAN, NodeCreate(t, tail)
  PROVE  DListInv'
<1>1. PICK n \in Nodes \ heap : heap' = heap \cup {n} /\ node' = [node EXCEPT ![t] = n]
  BY DEF NodeCreate
<1>2. /\ pc[t] = "idle" /\ list = "live"
      /\ UNCHANGED <<list, next, prev, lock, place, iter, len, length>>
  BY DEF NodeCreate, linkVars, lenVars
<1>3. pc'[t] \in {"add_lock", "add_tail_lock"} /\ pc' \in [Threads -> PC]
  BY DEF NodeCreate, Go, DListInv, TypeOK, PC
<1>4. Apart(t) /\ node'[t] = n /\ n # NULL
  BY <1>1, ThreadApart, DListAssumption DEF DListInv, TypeOK
<1>5. TypeOK'
  BY <1>1, <1>2, <1>3 DEF DListInv, TypeOK
<1>6. Discipline'
  BY <1>1, <1>2, <1>3, <1>4 DEF DListInv, Discipline, Locked, Adding, Inserting, Linking, Apart
<1>7. Added' = Added
  <2>1. node[t] = NULL /\ NULL \notin heap /\ NULL # n
    BY <1>2, DListAssumption, <1>4 DEF DListInv, Discipline, TypeOK, Adding, Inserting, Linking
  <2>2. n \in Pending' /\ n \notin Added
    BY <1>1, <1>3, <1>4 DEF Pending, Added
  <2>3. \A x \in heap : x \in Pending' <=> x \in Pending
    BY <1>1, <1>3, <1>4, <2>1 DEF Pending, Apart
  <2> QED
    BY <1>1, <2>2, <2>3 DEF Added
<1>8. Insertions'
  <2>1. Insertion(t)'
    BY <1>3 DEF Insertion, Inserting, Linking
  <2> QED
    BY <1>2, <1>4, <1>7, <2>1, InsertionsApart
<1>9. Ringed'
  <2>1. pc[t] \notin Linking
    BY <1>2 DEF Linking
  <2> QED
    BY <1>2, <1>3, <1>4, <1>7, <2>1, RingedKept
<1> QED
  BY <1>5, <1>6, <1>8, <1>9, DestroyApart DEF DListInv

LEMMA NodeCreateFailsKeeps ==
  ASSUME DListInv, NEW t \in Threads, ThreadStep(t), NodeCreateFails(t)
  PROVE  DListInv'
<1>1. /\ pc[t] = "idle" /\ list = "live" /\ list' = "crashed"
      /\ UNCHANGED <<next, prev, heap, lock, pc, node, place, iter, len, length>>
  BY DEF NodeCreateFails, linkVars, addVars, lenVars
<1>2. Apart(t)
  BY ThreadApart DEF DListInv
<1>3. TypeOK' /\ Discipline'
  BY <1>1 DEF DListInv, TypeOK, Discipline
<1>4. Added' = Added
  BY <1>1 DEF Added, Pending
<1>5. Insertions'
  <2>1. Insertion(t)'
    BY <1>1 DEF Insertion, Inserting, Linking
  <2> QED
    BY <1>1, <1>2, <1>4, <2>1, InsertionsApart
<1>6. Ringed'
  <2>1. pc[t] \notin Linking
    BY <1>1 DEF Linking
  <2> QED
    BY <1>1, <1>2, <1>4, <2>1, RingedKept
<1> QED
  BY <1>3, <1>5, <1>6, DestroyApart DEF DListInv

(* Taking the lock at either end finds the two neighbours of the new node. *)
LEMMA AddLockKeeps ==
  ASSUME DListInv, NEW t \in Threads, ThreadStep(t), AddLock(t) \/ AddTailLock(t)
  PROVE  DListInv'
<1>1. /\ pc[t] \in {"add_lock", "add_tail_lock"} /\ lock = NULL /\ lock' = t
      /\ UNCHANGED <<list, next, prev, heap, node, iter, len, length>>
      /\ \/ place' = [place EXCEPT ![t] = <<ListHead, next[ListHead]>>]
         \/ place' = [place EXCEPT ![t] = <<prev[ListHead], ListHead>>]
  BY DEF AddLock, AddTailLock, TailPlace, dlist_lock, linkVars, lenVars
<1>2. pc'[t] = "add_next_prev" /\ pc' \in [Threads -> PC]
  BY DEF AddLock, AddTailLock, Go, DListInv, TypeOK, PC
<1>3. Apart(t)
  BY ThreadApart DEF DListInv
<1>4. list \in {"live", "crashed"}
  BY DestroyApart
<1>5. /\ Added \subseteq Links /\ ListHead \in Links
      /\ next[ListHead] \in Added \cup {ListHead}
      /\ prev[ListHead] \in Added \cup {ListHead} /\ next[prev[ListHead]] = ListHead
  BY <1>1, <1>4, RingFacts
<1>6. /\ place'[t][1] \in Added \cup {ListHead} /\ next[place'[t][1]] = place'[t][2]
      /\ place'[t][1] = ListHead \/ place'[t][2] = ListHead
  BY <1>1, <1>5 DEF DListInv, TypeOK
<1>7. TypeOK'
  <2>1. place' \in [Threads -> Links \X Links]
    BY <1>1, <1>5 DEF DListInv, TypeOK
  <2>2. lock' \in Threads \cup {Main, NULL}
    BY <1>1
  <2> QED
    BY <1>1, <1>2, <2>1, <2>2 DEF DListInv, TypeOK
<1>8. Discipline'
  BY <1>1, <1>2, <1>3, <1>4, DListAssumption
     DEF DListInv, Discipline, Locked, Adding, Inserting, Linking, Apart
<1>9. Added' = Added
  BY <1>1, <1>2, <1>3 DEF Added, Pending, Apart
<1>10. Insertions'
  <2>1. Insertion(t)'
    BY <1>1, <1>2, <1>6, <1>9 DEF Insertion, Linking
  <2> QED
    BY <1>1, <1>3, <1>9, <2>1, InsertionsApart
<1>11. Ringed'
  <2>1. pc[t] \notin Linking
    BY <1>1 DEF Linking
  <2> QED
    BY <1>1, <1>2, <1>3, <1>4, <1>9, <2>1, RingedKept
<1> QED
  BY <1>7, <1>8, <1>10, <1>11, DestroyApart DEF DListInv

(* A node that is being inserted is none of the ring.                      *)
LEMMA NewNode ==
  ASSUME DListInv, NEW t \in Threads, pc[t] \in Inserting
  PROVE  /\ node[t] \in heap /\ node[t] \in Nodes /\ node[t] \in Links
         /\ node[t] \notin Added \cup {ListHead} /\ lock = t
         /\ place[t][1] \in Added \cup {ListHead} /\ place[t][2] \in Added \cup {ListHead}
         /\ place[t][1] \in Links /\ place[t][2] \in Links
         /\ next[place[t][1]] = place[t][2]
         /\ list \in {"live", "crashed"}
<1>1. /\ node[t] \in heap /\ lock = t /\ list \in {"live", "crashed"}
      /\ pc[t] # "add_unlock"
  BY DEF DListInv, TypeOK, Discipline, Locked, Adding, Inserting, Linking
<1>2. node[t] \in Nodes /\ node[t] \in Links /\ node[t] # ListHead
  BY <1>1, DListAssumption DEF DListInv, TypeOK, Links
<1>3. node[t] \notin Added
  BY <1>1 DEF Added, Pending
<1>4. place[t][1] \in Added \cup {ListHead} /\ next[place[t][1]] = place[t][2]
  BY DEF DListInv, Insertions, Insertion
<1> QED
  BY <1>1, <1>2, <1>3, <1>4, RingFacts

LEMMA AddNextPrevKeeps ==
  ASSUME DListInv, NEW t \in Threads, ThreadStep(t), AddNextPrev(t)
  PROVE  DListInv'
<1>1. /\ pc[t] = "add_next_prev" /\ prev' = [prev EXCEPT ![place[t][2]] = node[t]]
      /\ UNCHANGED <<list, next, heap, lock, node, place, iter, len, length>>
  BY DEF AddNextPrev, addVars, lenVars
<1>2. pc'[t] = "add_new" /\ pc' \in [Threads -> PC]
  BY DEF AddNextPrev, Go, DListInv, TypeOK, PC
<1>3. Apart(t)
  BY ThreadApart DEF DListInv
<1>4. pc[t] \in Inserting /\ pc[t] \in Locked /\ pc[t] \notin Linking
  BY <1>1 DEF Inserting, Locked, Linking
<1>5. /\ node[t] \in Links /\ place[t][2] \in Links /\ list \in {"live", "crashed"}
      /\ Added \subseteq Links
  BY <1>4, NewNode, RingFacts
<1>6. prev'[place[t][2]] = node[t] /\ \A x \in Links : x # place[t][2] => prev'[x] = prev[x]
  BY <1>1, <1>5 DEF DListInv, TypeOK
<1>7. TypeOK'
  BY <1>1, <1>2, <1>5 DEF DListInv, TypeOK
<1>8. Discipline'
  BY <1>1, <1>2, <1>3 DEF DListInv, Discipline, Locked, Adding, Inserting, Linking, Apart
<1>9. Added' = Added
  BY <1>1, <1>2, <1>3 DEF Added, Pending, Apart
<1>10. Insertions'
  <2>1. Insertion(t)'
    BY <1>1, <1>2, <1>4, <1>6, <1>9 DEF Insertion, DListInv, Insertions
  <2> QED
    BY <1>3, <1>4, <2>1, InsertionsApart
<1>11. Ringed'
  <2>1. pc'[t] \in Linking
    BY <1>2 DEF Linking
  <2>2. \A x \in Added \cup {ListHead} : x \in Links
    BY <1>5 DEF Links
  <2> QED
    BY <1>1, <1>2, <1>3, <1>4, <1>5, <1>6, <1>9, <2>1, <2>2, RingedKept
<1> QED
  BY <1>7, <1>8, <1>10, <1>11, DestroyApart DEF DListInv

LEMMA AddNewKeeps ==
  ASSUME DListInv, NEW t \in Threads, ThreadStep(t), AddNew(t)
  PROVE  DListInv'
<1>1. /\ pc[t] = "add_new"
      /\ prev' = [prev EXCEPT ![node[t]] = place[t][1]]
      /\ next' = [next EXCEPT ![node[t]] = place[t][2]]
      /\ UNCHANGED <<list, heap, lock, node, place, iter, len, length>>
  BY DEF AddNew, addVars, lenVars
<1>2. pc'[t] = "add_prev_next" /\ pc' \in [Threads -> PC]
  BY DEF AddNew, Go, DListInv, TypeOK, PC
<1>3. Apart(t)
  BY ThreadApart DEF DListInv
<1>4. pc[t] \in Inserting /\ pc[t] \in Locked /\ pc[t] \in Linking
  BY <1>1 DEF Inserting, Locked, Linking
<1>5. /\ node[t] \in Links /\ place[t][1] \in Links /\ place[t][2] \in Links
      /\ list \in {"live", "crashed"} /\ Added \subseteq Links /\ ListHead \in Links
      /\ node[t] \notin Added \cup {ListHead}
      /\ place[t][1] \in Added \cup {ListHead} /\ place[t][2] \in Added \cup {ListHead}
  BY <1>4, NewNode, RingFacts
<1>6. /\ prev'[node[t]] = place[t][1] /\ next'[node[t]] = place[t][2]
      /\ \A x \in Links : x # node[t] => prev'[x] = prev[x] /\ next'[x] = next[x]
  BY <1>1, <1>5 DEF DListInv, TypeOK
<1>7. TypeOK'
  BY <1>1, <1>2, <1>5 DEF DListInv, TypeOK
<1>8. Discipline'
  BY <1>1, <1>2, <1>3 DEF DListInv, Discipline, Locked, Adding, Inserting, Linking, Apart
<1>9. Added' = Added
  BY <1>1, <1>2, <1>3 DEF Added, Pending, Apart
<1>10. Insertions'
  <2>1. Insertion(t)'
    BY <1>1, <1>2, <1>4, <1>5, <1>6, <1>9 DEF Insertion, DListInv, Insertions
  <2> QED
    BY <1>3, <1>4, <2>1, InsertionsApart
<1>11. Ringed'
  <2>1. pc'[t] \in Linking
    BY <1>2 DEF Linking
  <2>2. \A x \in Added \cup {ListHead} : prev'[x] = prev[x] /\ next'[x] = next[x]
    BY <1>5, <1>6
  <2> QED
    BY <1>1, <1>2, <1>3, <1>5, <1>9, <2>1, <2>2, RingedKept
<1> QED
  BY <1>7, <1>8, <1>10, <1>11, DestroyApart DEF DListInv

LEMMA AddUnlockKeeps ==
  ASSUME DListInv, NEW t \in Threads, ThreadStep(t), AddUnlock(t)
  PROVE  DListInv'
<1>1. /\ pc[t] = "add_unlock" /\ lock' = NULL /\ node' = [node EXCEPT ![t] = NULL]
      /\ UNCHANGED <<list, next, prev, heap, place, iter, len, length>>
  BY DEF AddUnlock, dlist_unlock, linkVars, lenVars
<1>2. pc'[t] = "idle" /\ pc' \in [Threads -> PC]
  BY DEF AddUnlock, Go, DListInv, TypeOK, PC
<1>3. Apart(t) /\ node'[t] = NULL
  BY <1>1, ThreadApart DEF DListInv, TypeOK
<1>4. pc[t] \in Locked /\ pc[t] \notin Linking /\ list \in {"live", "crashed"}
  BY <1>1, DestroyApart DEF Locked, Linking
<1>5. node[t] \in heap /\ NULL \notin heap
  BY <1>1, DListAssumption DEF DListInv, Discipline, Adding, TypeOK
<1>6. TypeOK'
  BY <1>1, <1>2 DEF DListInv, TypeOK
<1>7. Discipline'
  <2>1. lock = t
    BY <1>4 DEF DListInv, Discipline
  <2> QED
    BY <1>1, <1>2, <1>3, <1>4, <2>1, DListAssumption
       DEF DListInv, Discipline, Locked, Adding, Inserting, Linking, Apart
<1>8. Added' = Added
  BY <1>1, <1>2, <1>3, <1>5 DEF Added, Pending, Apart
<1>9. Insertions'
  <2>1. Insertion(t)'
    BY <1>2 DEF Insertion, Inserting, Linking
  <2> QED
    BY <1>3, <1>4, <2>1, InsertionsApart
<1>10. Ringed'
  BY <1>1, <1>2, <1>3, <1>4, <1>8, RingedKept
<1> QED
  BY <1>6, <1>7, <1>9, <1>10, DestroyApart DEF DListInv

(* prev->next = _new closes the ring around the new node.                  *)
LEMMA RingGrows ==
  ASSUME DListInv, NEW t \in Threads, ThreadStep(t), AddPrevNext(t),
         NEW n \in Nat, NEW r \in [0 .. (n + 1) -> Links], Ring(n, r),
         NEW p \in 0 .. n, r[p] = place[t][1]
  PROVE  /\ Added' = Added \cup {node[t]} /\ r[p + 1] = place[t][2]
         /\ Ring(n + 1, With(n, r, p, node[t]))'
<1>1. /\ pc[t] = "add_prev_next" /\ next' = [next EXCEPT ![place[t][1]] = node[t]]
      /\ UNCHANGED <<list, prev, heap, lock, node, place>>
  BY DEF AddPrevNext, addVars
<1>2. pc'[t] = "add_unlock"
  BY DEF AddPrevNext, Go, DListInv, TypeOK
<1>3. Apart(t)
  BY ThreadApart DEF DListInv
<1>4. pc[t] \in Inserting /\ pc[t] \in Linking /\ pc[t] \in Locked
  BY <1>1 DEF Inserting, Linking, Locked
<1>5. /\ node[t] \in heap /\ node[t] \in Nodes /\ node[t] \in Links
      /\ node[t] \notin Added \cup {ListHead}
      /\ place[t][1] \in Added \cup {ListHead}
      /\ place[t][1] \in Links /\ place[t][2] \in Links
      /\ next[place[t][1]] = place[t][2]
  BY <1>4, NewNode
<1>6. /\ prev[place[t][2]] = node[t]
      /\ prev[node[t]] = place[t][1] /\ next[node[t]] = place[t][2]
  BY <1>1, <1>4 DEF DListInv, Insertions, Insertion
<1>7. Added' = Added \cup {node[t]}
  <2>1. \A u \in Threads : node[u] = node[t] => u = t
    BY <1>5, DListAssumption DEF DListInv, Discipline, TypeOK
  <2>2. \A x \in heap : x \in Pending' <=> x \in Pending /\ x # node[t]
    BY <1>1, <1>2, <1>3, <2>1 DEF Pending, Apart
  <2>3. node[t] \in Pending
    BY <1>1, <1>5 DEF Pending
  <2> QED
    BY <1>1, <1>5, <2>2, <2>3 DEF Added
<1>8. r[p + 1] = place[t][2]
  BY <1>5 DEF Ring
<1>9. next'[place[t][1]] = node[t] /\ \A x \in Links : x # place[t][1] => next'[x] = next[x]
  BY <1>1, <1>5 DEF DListInv, TypeOK
<1>10. PICK q, x : q = With(n, r, p, x) /\ x = node[t]
  OBVIOUS
<1>11. Added \subseteq Nodes /\ Shape(n, r, Added)
  BY DEF Ring, DListInv, TypeOK, Added
<1>12. /\ q \in [0 .. ((n + 1) + 1) -> Links]
       /\ \A k \in 0 .. p : q[k] = r[k]
       /\ q[p + 1] = x
       /\ \A k \in (p + 2) .. (n + 2) : q[k] = r[k - 1]
       /\ Shape(n + 1, q, Added \cup {x})
  <2>1. x \in Nodes /\ x \notin Added
    BY <1>5, <1>10
  <2>2. PICK S : S = Added
    OBVIOUS
  <2>3. S \subseteq Nodes /\ Shape(n, r, S) /\ x \notin S
    BY <1>11, <2>1, <2>2
  <2>4. /\ With(n, r, p, x) \in [0 .. ((n + 1) + 1) -> Links]
        /\ \A k \in 0 .. p : With(n, r, p, x)[k] = r[k]
        /\ With(n, r, p, x)[p + 1] = x
        /\ \A k \in (p + 2) .. (n + 2) : With(n, r, p, x)[k] = r[k - 1]
        /\ Shape(n + 1, With(n, r, p, x), S \cup {x})
    BY <2>1, <2>3, WithFacts
  <2> QED
    BY <1>10, <2>2, <2>4
<1>13. /\ \A j, k \in 0 .. n : r[j] = r[k] => j = k
       /\ \A j, k \in 0 .. n : r[j + 1] = r[k + 1] => j = k
       /\ \A k \in 0 .. n : r[k] \in Links /\ r[k + 1] \in Links
  <2>1. \A k \in 0 .. n : r[k] \in Links /\ r[k + 1] \in Links
    OBVIOUS
  <2> QED
    BY <1>11, <2>1, ShapeFacts
<1>14. \A k \in 0 .. n : k # p => next'[r[k]] = r[k + 1] /\ prev'[r[k + 1]] = r[k]
  <2> SUFFICES ASSUME NEW k \in 0 .. n, k # p
               PROVE  next'[r[k]] = r[k + 1] /\ prev'[r[k + 1]] = r[k]
    OBVIOUS
  <2>1. r[k] # place[t][1] /\ r[k + 1] # place[t][2]
    BY <1>8, <1>13
  <2>2. \A u \in Threads : pc[u] \in Linking => u = t
    BY <1>4, OneHolder DEF DListInv, Linking, Locked
  <2> QED
    BY <1>1, <1>9, <1>13, <2>1, <2>2 DEF Ring
<1>15. x # place[t][1] /\ x \in Links
  BY <1>5, <1>10
<1>16. ASSUME NEW k \in 0 .. (n + 1)
       PROVE  next'[q[k]] = q[k + 1] /\ prev'[q[k + 1]] = q[k]
  <2>1. CASE k < p
    <3>1. k \in 0 .. p /\ k + 1 \in 0 .. p /\ k \in 0 .. n /\ k # p
      BY <2>1
    <3> QED
      BY <1>12, <1>14, <3>1
  <2>2. CASE k = p
    <3>1. q[k] = r[p] /\ q[k + 1] = x
      BY <1>12, <2>2
    <3> QED
      BY <1>1, <1>6, <1>9, <1>10, <3>1
  <2>3. CASE k = p + 1
    <3>1. k + 1 \in (p + 2) .. (n + 2) /\ (k + 1) - 1 = p + 1
      BY <2>3
    <3>2. q[k] = x /\ q[k + 1] = place[t][2]
      BY <1>8, <1>12, <2>3, <3>1
    <3> QED
      BY <1>1, <1>6, <1>9, <1>10, <1>15, <3>2
  <2>4. CASE k > p + 1
    <3>1. /\ k \in (p + 2) .. (n + 2) /\ k + 1 \in (p + 2) .. (n + 2) /\ (k + 1) - 1 = k
          /\ k - 1 \in 0 .. n /\ k - 1 # p /\ (k - 1) + 1 = k
      BY <2>4
    <3>2. q[k] = r[k - 1] /\ q[k + 1] = r[k]
      BY <1>12, <3>1
    <3>3. next'[r[k - 1]] = r[k] /\ prev'[r[k]] = r[k - 1]
      BY <1>14, <3>1
    <3> QED
      BY <3>2, <3>3
  <2> QED
    BY <2>1, <2>2, <2>3, <2>4
<1>17. Ring(n + 1, q)'
  <2>1. Shape(n + 1, q, Added)'
    BY <1>7, <1>10, <1>12 DEF Shape
  <2> QED
    BY <1>16, <2>1 DEF Ring
<1>18. Ring(n + 1, With(n, r, p, node[t]))' <=> Ring(n + 1, q)'
  BY <1>1, <1>10 DEF Ring, Shape
<1> QED
  BY <1>7, <1>8, <1>17, <1>18

LEMMA AddPrevNextKeeps ==
  ASSUME DListInv, NEW t \in Threads, ThreadStep(t), AddPrevNext(t)
  PROVE  DListInv'
<1>1. /\ pc[t] = "add_prev_next" /\ next' = [next EXCEPT ![place[t][1]] = node[t]]
      /\ UNCHANGED <<list, prev, heap, lock, node, place, iter, len, length>>
  BY DEF AddPrevNext, addVars, lenVars
<1>2. pc'[t] = "add_unlock" /\ pc' \in [Threads -> PC]
  BY DEF AddPrevNext, Go, DListInv, TypeOK, PC
<1>3. Apart(t)
  BY ThreadApart DEF DListInv
<1>4. pc[t] \in Inserting /\ pc[t] \in Locked
  BY <1>1 DEF Inserting, Linking, Locked
<1>5. /\ node[t] \in Nodes /\ node[t] \in Links /\ node[t] \notin Added
      /\ place[t][1] \in Added \cup {ListHead}
      /\ place[t][1] \in Links /\ list \in {"live", "crashed"}
  BY <1>4, NewNode
<1>6. TypeOK'
  BY <1>1, <1>2, <1>5 DEF DListInv, TypeOK
<1>7. Discipline'
  BY <1>1, <1>2, <1>3 DEF DListInv, Discipline, Locked, Adding, Inserting, Linking, Apart
<1>8. Insertions'
  <2>1. Insertion(t)'
    BY <1>2 DEF Insertion, Inserting, Linking
  <2> QED
    BY <1>3, <1>4, <2>1, InsertionsApart
<1>9. Ringed'
  <2>1. PICK n \in Nat : \E r \in [0 .. (n + 1) -> Links] : Ring(n, r) /\ Walks(n, r)
    BY <1>5 DEF DListInv, Ringed
  <2>2. PICK r \in [0 .. (n + 1) -> Links] : Ring(n, r) /\ Walks(n, r)
    BY <2>1
  <2>3. Added \subseteq Nodes /\ Shape(n, r, Added)
    BY <2>2 DEF Ring, DListInv, TypeOK, Added
  <2>4. PICK p \in 0 .. n : r[p] = place[t][1]
    BY <1>5, <2>3, ShapeFacts
  <2>5. Ring(n + 1, With(n, r, p, node[t]))'
    BY <2>2, <2>4, RingGrows
  <2>6. With(n, r, p, node[t]) \in [0 .. ((n + 1) + 1) -> Links]
    BY <1>5, <2>3, WithFacts
  <2>7. PICK q : q = With(n, r, p, node[t])
    OBVIOUS
  <2>8. Ring(n + 1, q)'
    BY <1>1, <2>5, <2>7 DEF Ring, Shape
  <2>9. Walks(n + 1, q)'
    <3>1. ASSUME NEW u \in Threads PROVE pc'[u] # "len_walk" /\ pc'[u] # "len_unlock"
      <4>1. pc[u] \in Locked => u = t
        BY <1>4, OneHolder DEF DListInv
      <4> QED
        BY <1>2, <1>3, <4>1 DEF Apart, Locked
    <3> QED
      BY <3>1 DEF Walks
  <2>10. n + 1 \in Nat /\ q \in [0 .. ((n + 1) + 1) -> Links]
    BY <2>6, <2>7
  <2> QED
    BY <2>8, <2>9, <2>10 DEF Ringed
<1> QED
  BY <1>6, <1>7, <1>8, <1>9, DestroyApart DEF DListInv

LEMMA LengthCallKeeps ==
  ASSUME DListInv, NEW t \in Threads, ThreadStep(t), LengthCall(t)
  PROVE  DListInv'
<1>1. /\ pc[t] = "idle"
      /\ UNCHANGED <<list, next, prev, heap, lock, node, place, iter, len, length>>
  BY DEF LengthCall, linkVars, addVars, lenVars
<1>2. pc'[t] = "len_lock" /\ pc' \in [Threads -> PC]
  BY DEF LengthCall, Go, DListInv, TypeOK, PC
<1>3. Apart(t) /\ list \in {"live", "crashed"}
  BY ThreadApart, DestroyApart DEF DListInv
<1>4. TypeOK'
  BY <1>1, <1>2 DEF DListInv, TypeOK
<1>5. Discipline'
  BY <1>1, <1>2, <1>3 DEF DListInv, Discipline, Locked, Adding, Inserting, Linking, Apart
<1>6. Added' = Added
  BY <1>1, <1>2, <1>3 DEF Added, Pending, Apart
<1>7. Insertions'
  <2>1. Insertion(t)'
    BY <1>2 DEF Insertion, Inserting, Linking
  <2> QED
    BY <1>1, <1>3, <1>6, <2>1, InsertionsApart
<1>8. Ringed'
  <2>1. pc[t] \notin Linking
    BY <1>1 DEF Linking
  <2> QED
    BY <1>1, <1>2, <1>3, <1>6, <2>1, RingedKept
<1> QED
  BY <1>4, <1>5, <1>7, <1>8, DestroyApart DEF DListInv

(* A step that changes no pointer, and where nobody is inside __list_add.  *)
LEMMA RingSame ==
  ASSUME TypeOK, NEW t \in Threads, Apart(t), UNCHANGED <<next, prev>>, Added' = Added,
         pc[t] \notin Linking, pc'[t] \notin Linking,
         NEW n \in Nat, NEW r \in [0 .. (n + 1) -> Links], Ring(n, r)
  PROVE  Ring(n, r)'
<1>1. Shape(n, r, Added)'
  BY DEF Ring, Shape
<1>2. \A k \in 0 .. n : next'[r[k]] = r[k + 1]
  BY DEF Ring
<1>3. \A k \in 0 .. n :
        \/ prev'[r[k + 1]] = r[k]
        \/ \E u \in Threads : pc'[u] \in Linking /\ place'[u][2] = r[k + 1]
  BY DEF Ring, Apart
<1> QED
  BY <1>1, <1>2, <1>3 DEF Ring

LEMMA LengthLockKeeps ==
  ASSUME DListInv, NEW t \in Threads, ThreadStep(t), LengthLock(t)
  PROVE  DListInv'
<1>1. /\ pc[t] = "len_lock" /\ lock = NULL /\ lock' = t
      /\ iter' = [iter EXCEPT ![t] = ListHead] /\ len' = [len EXCEPT ![t] = 0]
      /\ UNCHANGED <<list, next, prev, heap, node, place, length>>
  BY DEF LengthLock, dlist_lock, linkVars, addVars
<1>2. pc'[t] = "len_walk" /\ pc' \in [Threads -> PC]
  BY DEF LengthLock, Go, DListInv, TypeOK, PC
<1>3. Apart(t) /\ list \in {"live", "crashed"}
  BY ThreadApart, DestroyApart DEF DListInv
<1>4. iter'[t] = ListHead /\ len'[t] = 0
  BY <1>1 DEF DListInv, TypeOK
<1>5. TypeOK'
  <2>1. Cardinality(Nodes) \in Nat
    BY DListAssumption, FS_CardinalityType
  <2>2. iter' \in [Threads \cup {Main} -> Links] /\ len' \in [Threads -> 0 .. Cardinality(Nodes)]
    BY <1>1, <2>1 DEF DListInv, TypeOK, Links
  <2>3. lock' \in Threads \cup {Main, NULL}
    BY <1>1
  <2> QED
    BY <1>1, <1>2, <2>2, <2>3 DEF DListInv, TypeOK
<1>6. Discipline'
  BY <1>1, <1>2, <1>3, DListAssumption
     DEF DListInv, Discipline, Locked, Adding, Inserting, Linking, Apart
<1>7. Added' = Added
  BY <1>1, <1>2, <1>3 DEF Added, Pending, Apart
<1>8. Insertions'
  <2>1. Insertion(t)'
    BY <1>2 DEF Insertion, Inserting, Linking
  <2> QED
    BY <1>1, <1>3, <1>7, <2>1, InsertionsApart
<1>9. Ringed'
  <2>1. PICK n \in Nat : \E r \in [0 .. (n + 1) -> Links] : Ring(n, r) /\ Walks(n, r)
    BY <1>3 DEF DListInv, Ringed
  <2>2. PICK r \in [0 .. (n + 1) -> Links] : Ring(n, r) /\ Walks(n, r)
    BY <2>1
  <2>3. pc[t] \notin Linking /\ pc'[t] \notin Linking
    BY <1>1, <1>2 DEF Linking
  <2>4. Ring(n, r)'
    BY <1>1, <1>3, <1>7, <2>2, <2>3, RingSame DEF DListInv
  <2>5. iter'[t] = r[0] /\ len'[t] = 0 /\ 0 \in 0 .. n
    BY <1>4, <2>2 DEF Ring, Shape
  <2>6. Walks(n, r)'
    BY <1>2, <1>3, <2>2, <2>5 DEF Walks, Apart
  <2> QED
    BY <2>4, <2>6 DEF Ringed
<1> QED
  BY <1>5, <1>6, <1>8, <1>9, DestroyApart DEF DListInv

(* The walk counts the nodes it passes: it is at position len of the ring. *)
LEMMA LengthWalkKeeps ==
  ASSUME DListInv, NEW t \in Threads, ThreadStep(t), LengthWalk(t)
  PROVE  DListInv'
<1>1. /\ pc[t] = "len_walk"
      /\ UNCHANGED <<list, next, prev, heap, lock, node, place, length>>
      /\ \/ /\ next[iter[t]] # ListHead
            /\ len' = [len EXCEPT ![t] = len[t] + 1]
            /\ iter' = [iter EXCEPT ![t] = next[iter[t]]]
            /\ UNCHANGED pc
         \/ /\ next[iter[t]] = ListHead
            /\ pc' = [pc EXCEPT ![t] = "len_unlock"]
            /\ UNCHANGED <<iter, len>>
  BY DEF LengthWalk, Go, linkVars, addVars, DListInv, TypeOK
<1>2. Apart(t) /\ list \in {"live", "crashed"}
  BY ThreadApart, DestroyApart DEF DListInv
<1>3. pc'[t] \in {"len_walk", "len_unlock"} /\ pc' \in [Threads -> PC]
  BY <1>1 DEF DListInv, TypeOK, PC
<1>4. PICK n \in Nat : \E r \in [0 .. (n + 1) -> Links] : Ring(n, r) /\ Walks(n, r)
  BY <1>2 DEF DListInv, Ringed
<1>5. PICK r \in [0 .. (n + 1) -> Links] : Ring(n, r) /\ Walks(n, r)
  BY <1>4
<1>6. Added \subseteq Nodes /\ Shape(n, r, Added)
  BY <1>5 DEF Ring, DListInv, TypeOK, Added
<1>7. PICK k \in 0 .. n : iter[t] = r[k] /\ len[t] = k
  BY <1>1, <1>5 DEF Walks
<1>8. next[iter[t]] = r[k + 1] /\ r[k + 1] \in Links
  BY <1>5, <1>7 DEF Ring
<1>9. next[iter[t]] = ListHead <=> k = n
  <2>0. r[n + 1] = ListHead
    BY <1>6 DEF Shape
  <2>1. r[n + 1] = ListHead /\ \A j \in 1 .. n : r[j] # ListHead
    BY <1>6, <2>0, ShapeFacts
  <2>2. k # n => k + 1 \in 1 .. n
    OBVIOUS
  <2> QED
    BY <1>8, <2>1, <2>2
<1>10. n =< Cardinality(Nodes) /\ Cardinality(Nodes) \in Nat
  BY <1>6, ShapeSize
<1>11. TypeOK'
  <2>1. iter' \in [Threads \cup {Main} -> Links]
    BY <1>1, <1>8 DEF DListInv, TypeOK
  <2>2. len' \in [Threads -> 0 .. Cardinality(Nodes)]
    <3>1. k # n => k + 1 \in 0 .. Cardinality(Nodes)
      BY <1>10
    <3> QED
      BY <1>1, <1>7, <1>9, <3>1 DEF DListInv, TypeOK
  <2> QED
    BY <1>1, <1>3, <2>1, <2>2 DEF DListInv, TypeOK
<1>12. Discipline'
  BY <1>1, <1>2, <1>3 DEF DListInv, Discipline, Locked, Adding, Inserting, Linking, Apart
<1>13. Added' = Added
  BY <1>1, <1>2, <1>3 DEF Added, Pending, Apart
<1>14. Insertions'
  <2>1. Insertion(t)'
    BY <1>3 DEF Insertion, Inserting, Linking
  <2> QED
    BY <1>1, <1>2, <1>13, <2>1, InsertionsApart
<1>15. Ringed'
  <2>1. pc[t] \notin Linking /\ pc'[t] \notin Linking
    BY <1>1, <1>3 DEF Linking
  <2>2. Ring(n, r)'
    BY <1>1, <1>2, <1>5, <1>13, <2>1, RingSame DEF DListInv
  <2>3. /\ pc'[t] = "len_walk" => \E j \in 0 .. n : iter'[t] = r[j] /\ len'[t] = j
        /\ pc'[t] = "len_unlock" => len'[t] = n
    <3>1. CASE k = n
      <4>1. pc'[t] = "len_unlock" /\ len'[t] = n
        BY <1>1, <1>7, <1>9, <3>1 DEF DListInv, TypeOK
      <4> QED
        BY <4>1
    <3>2. CASE k # n
      <4>1. k + 1 \in 0 .. n
        BY <3>2
      <4>2. pc'[t] = "len_walk" /\ iter'[t] = r[k + 1] /\ len'[t] = k + 1
        BY <1>1, <1>7, <1>8, <1>9, <3>2 DEF DListInv, TypeOK
      <4> QED
        BY <4>1, <4>2
    <3> QED
      BY <3>1, <3>2
  <2>4. Walks(n, r)'
    BY <1>2, <1>5, <2>3 DEF Walks, Apart
  <2> QED
    BY <2>2, <2>4 DEF Ringed
<1> QED
  BY <1>11, <1>12, <1>14, <1>15, DestroyApart DEF DListInv

LEMMA LengthUnlockKeeps ==
  ASSUME DListInv, NEW t \in Threads, ThreadStep(t), LengthUnlock(t)
  PROVE  DListInv'
<1>1. /\ pc[t] = "len_unlock" /\ lock' = NULL /\ length' = [length EXCEPT ![t] = len[t]]
      /\ UNCHANGED <<list, next, prev, heap, node, place, iter, len>>
  BY DEF LengthUnlock, dlist_unlock, linkVars, addVars
<1>2. pc'[t] = "idle" /\ pc' \in [Threads -> PC]
  BY DEF LengthUnlock, Go, DListInv, TypeOK, PC
<1>3. Apart(t) /\ list \in {"live", "crashed"}
  BY ThreadApart, DestroyApart DEF DListInv
<1>4. TypeOK'
  BY <1>1, <1>2 DEF DListInv, TypeOK
<1>5. Discipline'
  <2>1. lock = t
    BY <1>1 DEF DListInv, Discipline, Locked
  <2> QED
    BY <1>1, <1>2, <1>3, <2>1, DListAssumption
       DEF DListInv, Discipline, Locked, Adding, Inserting, Linking, Apart
<1>6. Added' = Added
  BY <1>1, <1>2, <1>3 DEF Added, Pending, Apart
<1>7. Insertions'
  <2>1. Insertion(t)'
    BY <1>2 DEF Insertion, Inserting, Linking
  <2> QED
    BY <1>1, <1>3, <1>6, <2>1, InsertionsApart
<1>8. Ringed'
  <2>1. pc[t] \notin Linking
    BY <1>1 DEF Linking
  <2> QED
    BY <1>1, <1>2, <1>3, <1>6, <2>1, RingedKept
<1> QED
  BY <1>4, <1>5, <1>7, <1>8, DestroyApart DEF DListInv

(* list_destroy starts on the whole ring, which then holds all nodes.      *)
LEMMA DestroyLockKeeps ==
  ASSUME DListInv, DestroyLock
  PROVE  DListInv'
<1>1. /\ list = "live" /\ (\A t \in Threads : pc[t] = "idle") /\ lock = NULL /\ lock' = Main
      /\ iter' = [iter EXCEPT ![Main] = next[ListHead]] /\ list' = "destroying"
      /\ UNCHANGED <<next, prev, heap, pc, node, place, len, length>>
  BY DEF DestroyLock, dlist_lock, linkVars, addVars
<1>2. \A t \in Threads : node[t] = NULL
  BY <1>1 DEF DListInv, Discipline, Adding, Inserting, Linking
<1>3. Added = heap
  BY <1>1, <1>2, DListAssumption DEF Added, Pending, DListInv, TypeOK
<1>4. PICK n \in Nat : \E r \in [0 .. (n + 1) -> Links] : Ring(n, r) /\ Walks(n, r)
  BY <1>1 DEF DListInv, Ringed
<1>5. PICK r \in [0 .. (n + 1) -> Links] : Ring(n, r) /\ Walks(n, r)
  BY <1>4
<1>6. next[ListHead] = r[1] /\ r[1] \in Links
  <2>1. 0 \in 0 .. n /\ r[0] = ListHead /\ 0 + 1 = 1
    BY <1>5 DEF Ring, Shape
  <2>2. next[r[0]] = r[0 + 1]
    BY <1>5, <2>1 DEF Ring
  <2> QED
    BY <2>1, <2>2
<1>7. Rest(n, r)'
  <2>1. Shape(n, r, heap)'
    BY <1>1, <1>3, <1>5 DEF Ring, Shape
  <2>2. iter'[Main] = r[1]
    BY <1>1, <1>6 DEF DListInv, TypeOK
  <2>3. \A k \in 1 .. n : next'[r[k]] = r[k + 1]
    BY <1>1, <1>5 DEF Ring
  <2> QED
    BY <2>1, <2>2, <2>3 DEF Rest
<1>8. Unwinding' /\ Ringed' /\ AllReclaimed'
  BY <1>1, <1>7 DEF Unwinding, Ringed, AllReclaimed
<1>9. TypeOK'
  <2>1. iter' \in [Threads \cup {Main} -> Links]
    BY <1>1, <1>6 DEF DListInv, TypeOK
  <2> QED
    BY <1>1, <2>1 DEF DListInv, TypeOK
<1>10. Discipline'
  BY <1>1, DListAssumption DEF DListInv, Discipline, Locked, Adding, Inserting, Linking
<1>11. Insertions'
  BY <1>1 DEF Insertions, Insertion, Inserting, Linking
<1> QED
  BY <1>8, <1>9, <1>10, <1>11 DEF DListInv

(* Each turn of its loop frees the first of the nodes left.                *)
LEMMA DestroyNodeKeeps ==
  ASSUME DListInv, DestroyNode
  PROVE  DListInv'
<1>1. /\ list = "destroying" /\ iter[Main] # ListHead
      /\ next' = [next EXCEPT ![iter[Main]] = NULL]
      /\ prev' = [prev EXCEPT ![iter[Main]] = NULL]
      /\ heap' = heap \ {iter[Main]}
      /\ iter' = [iter EXCEPT ![Main] = next[iter[Main]]]
      /\ UNCHANGED <<list, lock, pc, node, place, len, length>>
  BY DEF DestroyNode, LoopOver, list_destroy_node, addVars, DListInv, TypeOK
<1>2. PICK n \in Nat : \E r \in [0 .. (n + 1) -> Links] : Rest(n, r)
  BY <1>1 DEF DListInv, Unwinding
<1>3. PICK r \in [0 .. (n + 1) -> Links] : Rest(n, r)
  BY <1>2
<1>4. heap \subseteq Nodes /\ Shape(n, r, heap)
  BY <1>3 DEF Rest, DListInv, TypeOK
<1>5. n # 0 /\ 1 \in 1 .. n
  <2>1. n = 0 => r[1] = ListHead
    BY <1>4 DEF Shape
  <2> QED
    BY <1>1, <1>3, <2>1 DEF Rest
<1>6. PICK x : x = iter[Main] /\ x = r[1] /\ x \in Links /\ x \in heap /\ next[x] = r[2]
               /\ r[2] \in Links
  <2>1. iter[Main] = r[1] /\ next[r[1]] = r[1 + 1] /\ 1 + 1 = 2
    BY <1>3, <1>5 DEF Rest
  <2>2. r[1] \in heap
    BY <1>4, <1>5, ShapeFacts
  <2>3. 1 \in 0 .. (n + 1) /\ 2 \in 0 .. (n + 1)
    BY <1>5
  <2> QED
    BY <2>1, <2>2, <2>3
<1>7. TypeOK'
  <2>1. /\ next' \in [Links -> Links \cup {NULL}] /\ prev' \in [Links -> Links \cup {NULL}]
        /\ iter' \in [Threads \cup {Main} -> Links] /\ heap' \subseteq Nodes
    BY <1>1, <1>6 DEF DListInv, TypeOK
  <2> QED
    BY <1>1, <2>1 DEF DListInv, TypeOK
<1>8. Discipline' /\ Insertions'
  <2>1. \A t \in Threads : pc[t] = "idle"
    BY <1>1 DEF DListInv, Discipline
  <2>2. Discipline'
    BY <1>1, <2>1 DEF DListInv, Discipline, Adding, Inserting, Linking
  <2> QED
    BY <1>1, <2>1, <2>2 DEF Insertions, Insertion, Inserting, Linking
<1>9. Unwinding'
  <2> DEFINE q == [k \in 0 .. ((n - 1) + 1) |-> IF k = 0 THEN ListHead ELSE r[k + 1]]
  <2>1. n - 1 \in Nat /\ (n - 1) + 1 = n
    BY <1>5
  <2>2. q[0] = ListHead /\ \A k \in 1 .. n : q[k] = r[k + 1]
    BY <2>1
  <2>3. q \in [0 .. ((n - 1) + 1) -> Links]
    <3>1. \A k \in 0 .. n : k # 0 => r[k + 1] \in Links
      OBVIOUS
    <3>2. ListHead \in Links
      BY DEF Links
    <3> QED
      BY <2>1, <3>1, <3>2
  <2> HIDE DEF q
  <2>4. \A k \in 1 .. (n - 1) : k \in 1 .. n /\ k + 1 \in 1 .. n /\ k + 1 # 1
    BY <1>5
  <2>5. Shape(n - 1, q, heap \ {x})
    <3>1. q[(n - 1) + 1] = ListHead
      <4>1. n \in 1 .. n
        BY <1>5
      <4> QED
        BY <1>4, <2>1, <2>2, <4>1 DEF Shape
    <3>2. \A k \in 1 .. (n - 1) : q[k] \in heap \ {x}
      BY <1>4, <1>5, <1>6, <2>2, <2>4 DEF Shape
    <3>3. ASSUME NEW y \in heap \ {x} PROVE \E k \in 1 .. (n - 1) : q[k] = y
      <4>1. PICK k \in 1 .. n : r[k] = y
        BY <1>4 DEF Shape
      <4>2. k # 1
        BY <1>6, <4>1
      <4>3. k - 1 \in 1 .. (n - 1) /\ k - 1 \in 1 .. n /\ (k - 1) + 1 = k
        BY <4>2
      <4> QED
        BY <2>2, <4>1, <4>3
    <3>4. \A j, k \in 1 .. (n - 1) : q[j] = q[k] => j = k
      <4> SUFFICES ASSUME NEW j \in 1 .. (n - 1), NEW k \in 1 .. (n - 1), q[j] = q[k]
                   PROVE  j = k
        OBVIOUS
      <4>1. r[j + 1] = r[k + 1]
        BY <2>2, <2>4
      <4>2. j + 1 = k + 1
        BY <1>4, <2>4, <4>1 DEF Shape
      <4> QED
        BY <4>2
    <3>5. heap \ {x} = {q[k] : k \in 1 .. (n - 1)}
      BY <3>2, <3>3
    <3> QED
      BY <2>2, <3>1, <3>4, <3>5 DEF Shape
  <2>6. iter'[Main] = q[1]
    <3>1. q[1] = r[2]
      BY <1>5, <2>2
    <3>2. iter'[Main] = next[iter[Main]]
      BY <1>1 DEF DListInv, TypeOK
    <3> QED
      BY <1>6, <3>1, <3>2
  <2>7. ASSUME NEW k \in 1 .. (n - 1) PROVE next'[q[k]] = q[k + 1]
    <3>1. q[k] = r[k + 1] /\ q[k + 1] = r[(k + 1) + 1]
      BY <2>2, <2>4
    <3>2. r[k + 1] # x /\ r[k + 1] \in Links
      <4>1. r[k + 1] \in Links
        BY <2>4
      <4> QED
        BY <1>4, <1>5, <1>6, <2>4, <4>1 DEF Shape
    <3>3. next'[r[k + 1]] = next[r[k + 1]]
      BY <1>1, <1>6, <3>2 DEF DListInv, TypeOK
    <3>4. next[r[k + 1]] = r[(k + 1) + 1]
      BY <1>3, <2>4 DEF Rest
    <3> QED
      BY <3>1, <3>3, <3>4
  <2>8. Rest(n - 1, q)'
    <3>1. Shape(n - 1, q, heap)'
      BY <1>1, <1>6, <2>5 DEF Shape
    <3> QED
      BY <2>6, <2>7, <3>1 DEF Rest
  <2> QED
    BY <2>1, <2>3, <2>8 DEF Unwinding
<1>10. Ringed' /\ AllReclaimed'
  BY <1>1 DEF Ringed, AllReclaimed
<1> QED
  BY <1>7, <1>8, <1>9, <1>10 DEF DListInv

(* The loop is back at the head only when no node is left.                 *)
LEMMA DestroyEndKeeps ==
  ASSUME DListInv, DestroyEnd
  PROVE  DListInv'
<1>1. /\ list = "destroying" /\ iter[Main] = ListHead
      /\ next' = [next EXCEPT ![ListHead] = ListHead]
      /\ prev' = [prev EXCEPT ![ListHead] = ListHead]
      /\ lock' = NULL /\ list' = "freed"
      /\ UNCHANGED <<heap, pc, node, place, iter, len, length>>
  BY DEF DestroyEnd, LoopOver, dlist_destroy_locker, addVars, lenVars
<1>2. PICK n \in Nat : \E r \in [0 .. (n + 1) -> Links] : Rest(n, r)
  BY <1>1 DEF DListInv, Unwinding
<1>3. PICK r \in [0 .. (n + 1) -> Links] : Rest(n, r)
  BY <1>2
<1>4. heap \subseteq Nodes /\ Shape(n, r, heap)
  BY <1>3 DEF Rest, DListInv, TypeOK
<1>5. n = 0
  <2>1. \A k \in 1 .. n : r[k] # ListHead
    BY <1>4, ShapeFacts
  <2>2. n # 0 => 1 \in 1 .. n
    OBVIOUS
  <2> QED
    BY <1>1, <1>3, <2>1, <2>2 DEF Rest
<1>6. heap = {}
  <2>1. 1 .. n = {}
    BY <1>5
  <2> QED
    BY <1>4, <2>1 DEF Shape
<1>7. TypeOK'
  <2>1. next' \in [Links -> Links \cup {NULL}] /\ prev' \in [Links -> Links \cup {NULL}]
    BY <1>1 DEF DListInv, TypeOK, Links
  <2> QED
    BY <1>1, <2>1 DEF DListInv, TypeOK
<1>8. Discipline' /\ Insertions'
  <2>1. \A t \in Threads : pc[t] = "idle"
    BY <1>1 DEF DListInv, Discipline
  <2>2. Discipline'
    BY <1>1, <2>1, DListAssumption DEF DListInv, Discipline, Locked, Adding, Inserting, Linking
  <2> QED
    BY <1>1, <2>1, <2>2 DEF Insertions, Insertion, Inserting, Linking
<1>9. Unwinding' /\ Ringed' /\ AllReclaimed'
  BY <1>1, <1>6 DEF Unwinding, Ringed, AllReclaimed
<1> QED
  BY <1>7, <1>8, <1>9 DEF DListInv

LEMMA DListStep == DListInv /\ [Next]_vars => DListInv'
<1> SUFFICES ASSUME DListInv, [Next]_vars PROVE DListInv'
  OBVIOUS
<1>1. CASE UNCHANGED vars
  <2>1. UNCHANGED <<list, next, prev, heap, lock, pc, node, place, iter, len, length>>
    BY <1>1 DEF vars, linkVars, addVars, lenVars
  <2>2. Added' = Added
    BY <2>1 DEF Added, Pending
  <2>3. TypeOK' /\ Discipline' /\ Insertions' /\ AllReclaimed'
    BY <2>1, <2>2 DEF DListInv, TypeOK, Discipline, Insertions, Insertion, AllReclaimed
  <2>4. \A n, r : /\ Ring(n, r)' <=> Ring(n, r)
                  /\ Walks(n, r)' <=> Walks(n, r)
                  /\ Rest(n, r)' <=> Rest(n, r)
    BY <2>1, <2>2 DEF Ring, Walks, Rest, Shape
  <2>5. Ringed' /\ Unwinding'
    BY <2>1, <2>4 DEF DListInv, Ringed, Unwinding
  <2> QED
    BY <2>3, <2>5 DEF DListInv
<1>2. ASSUME NEW t \in Threads, ThreadStep(t) PROVE DListInv'
  <2>1. ASSUME NEW tail \in BOOLEAN, NodeCreate(t, tail) PROVE DListInv'
    BY <1>2, <2>1, NodeCreateKeeps
  <2> QED
    BY <1>2, <2>1, NodeCreateFailsKeeps, AddLockKeeps, AddNextPrevKeeps, AddNewKeeps,
       AddPrevNextKeeps, AddUnlockKeeps, LengthCallKeeps, LengthLockKeeps, LengthWalkKeeps,
       LengthUnlockKeeps
       DEF ThreadStep
<1> QED
  BY <1>1, <1>2, DestroyLockKeeps, DestroyNodeKeeps, DestroyEndKeeps DEF Next, Over

LEMMA DListInvariant == Spec => []DListInv
BY DListInit, DListStep, PTL DEF Spec

-----------------------------------------------------------------------------
(* Whatever threads share the list, whenever its lock is free list_add and *)
(* list_add_tail have left a ring of all the nodes added, with next and    *)
(* prev inverse to each other.                                             *)
THEOREM ListAlwaysIntact == Spec => []ListIntact
<1>1. DListInv => ListIntact
  <2> SUFFICES ASSUME DListInv, list = "live", lock = NULL
               PROVE  /\ {Forward[i] : i \in 1 .. Len(Forward)} = Added
                      /\ Len(Forward) = Cardinality(Added)
                      /\ \A x \in Added \cup {ListHead} : prev[next[x]] = x
    BY DEF ListIntact, DListInv, Added
  <2>1. PICK n \in Nat : \E r \in [0 .. (n + 1) -> Links] : Ring(n, r) /\ Walks(n, r)
    BY DEF DListInv, Ringed
  <2>2. PICK r \in [0 .. (n + 1) -> Links] : Ring(n, r) /\ Walks(n, r)
    BY <2>1
  <2>3. Added \subseteq Nodes /\ Shape(n, r, Added) /\ \A k \in 0 .. n : next[r[k]] = r[k + 1]
    BY <2>2 DEF Ring, DListInv, TypeOK, Added
  <2>4. Forward = [i \in 1 .. n |-> r[i]]
    BY <2>3, WalkRing
  <2>5. Len(Forward) = n
    BY <2>4
  <2>6. {Forward[i] : i \in 1 .. Len(Forward)} = Added
    <3>1. \A i \in 1 .. n : Forward[i] = r[i]
      BY <2>4
    <3> QED
      BY <2>3, <2>5, <3>1 DEF Shape
  <2>7. Len(Forward) = Cardinality(Added)
    BY <2>3, <2>5, ShapeSize
  <2>8. ASSUME NEW x \in Added \cup {ListHead} PROVE prev[next[x]] = x
    <3>1. PICK k \in 0 .. n : r[k] = x
      BY <2>3, ShapeFacts
    <3>2. \A t \in Threads : pc[t] \notin Linking
      BY DListAssumption DEF DListInv, Discipline, Linking, Locked
    <3> QED
      BY <2>2, <3>1, <3>2 DEF Ring
  <2> QED
    BY <2>6, <2>7, <2>8
<1> QED
  BY <1>1, DListInvariant, PTL

(* list_destroy, called after the threads have been joined, frees every    *)
(* node that list_add and list_add_tail ever linked.                       *)
THEOREM DestroyReclaims == Spec => []AllReclaimed
<1>1. DListInv => AllReclaimed
  BY DEF DListInv
<1> QED
  BY <1>1, DListInvariant, PTL

-----------------------------------------------------------------------------
(* The refinement of SharedList *)

Items == IF list \in {"live", "crashed"} THEN Forward ELSE << >>

(* WalkRing as a formula of one state.                                     *)
WalksAsRing ==
  \A n \in Nat : \A r \in [0 .. (n + 1) -> Links] : \A S \in SUBSET Nodes :
    Shape(n, r, S) /\ (\A k \in 0 .. n : next[r[k]] = r[k + 1]) =>
      Forward = [i \in 1 .. n |-> r[i]]

LEMMA WalkNow == WalksAsRing
BY WalkRing DEF WalksAsRing

LEMMA WalkThen == WalksAsRing'
BY WalkNow, PTL

(* A step that changes no next pointer of the ring changes no list.        *)
LEMMA ForwardSame ==
  ASSUME DListInv, list \in {"live", "crashed"},
         \A x \in Added \cup {ListHead} : next'[x] = next[x]
  PROVE  Forward' = Forward
<1>1. PICK n \in Nat : \E r \in [0 .. (n + 1) -> Links] : Ring(n, r) /\ Walks(n, r)
  BY DEF DListInv, Ringed
<1>2. PICK r \in [0 .. (n + 1) -> Links] : Ring(n, r) /\ Walks(n, r)
  BY <1>1
<1>3. Added \in SUBSET Nodes /\ Shape(n, r, Added) /\ \A k \in 0 .. n : next[r[k]] = r[k + 1]
  BY <1>2 DEF Ring, DListInv, TypeOK, Added
<1>4. PICK S \in SUBSET Nodes : S = Added
  BY <1>3
<1>5. \A k \in 0 .. n : next'[r[k]] = r[k + 1]
  <2>1. \A k \in 0 .. (n + 1) : r[k] \in Added \cup {ListHead}
    BY <1>3, ShapeFacts
  <2>2. \A k \in 0 .. n : k \in 0 .. (n + 1)
    OBVIOUS
  <2> QED
    BY <1>3, <2>1, <2>2
<1>6. Shape(n, r, S)
  BY <1>3, <1>4
<1>7. Forward = [i \in 1 .. n |-> r[i]]
  BY <1>3, <1>6, WalkNow DEF WalksAsRing
<1>8. Shape(n, r, S)'
  BY <1>6 DEF Shape
<1>9. Forward' = [i \in 1 .. n |-> r[i]]
  BY <1>5, <1>8, WalkThen DEF WalksAsRing
<1> QED
  BY <1>7, <1>9

(* prev->next = _new is the moment at which an addition happens.           *)
LEMMA AddHappens ==
  ASSUME DListInv, NEW t \in Threads, ThreadStep(t), AddPrevNext(t)
  PROVE  /\ node[t] \in Nodes
         /\ Forward' = <<node[t]>> \o Forward \/ Forward' = Append(Forward, node[t])
<1>1. pc[t] = "add_prev_next" /\ pc[t] \in Inserting
  BY DEF AddPrevNext, Inserting, Linking
<1>2. /\ node[t] \in Nodes /\ node[t] \notin Added /\ list \in {"live", "crashed"}
      /\ place[t][1] \in Added \cup {ListHead}
  BY <1>1, NewNode
<1>3. PICK n \in Nat : \E r \in [0 .. (n + 1) -> Links] : Ring(n, r) /\ Walks(n, r)
  BY <1>2 DEF DListInv, Ringed
<1>4. PICK r \in [0 .. (n + 1) -> Links] : Ring(n, r) /\ Walks(n, r)
  BY <1>3
<1>5. Added \subseteq Nodes /\ Shape(n, r, Added) /\ \A k \in 0 .. n : next[r[k]] = r[k + 1]
  BY <1>4 DEF Ring, DListInv, TypeOK, Added
<1>6. PICK p \in 0 .. n : r[p] = place[t][1]
  BY <1>2, <1>5, ShapeFacts
<1>7. PICK x, q : x = node[t] /\ q = With(n, r, p, x) /\ x \in Nodes
  BY <1>2
<1>8. /\ Added' = Added \cup {x} /\ r[p + 1] = place[t][2]
      /\ Ring(n + 1, With(n, r, p, node[t]))'
  BY <1>4, <1>6, <1>7, RingGrows
<1>9. Ring(n + 1, q)'
  <2>1. UNCHANGED node
    BY DEF AddPrevNext, addVars
  <2>2. q = With(n, r, p, node'[t])
    BY <1>7, <2>1
  <2> QED
    BY <1>8, <2>2 DEF Ring, Shape
<1>10. /\ q \in [0 .. ((n + 1) + 1) -> Links]
       /\ \A k \in 0 .. p : q[k] = r[k]
       /\ q[p + 1] = x
       /\ \A k \in (p + 2) .. (n + 2) : q[k] = r[k - 1]
  <2>1. PICK S : S = Added
    OBVIOUS
  <2>2. S \subseteq Nodes /\ Shape(n, r, S) /\ x \notin S
    BY <1>2, <1>5, <1>7, <2>1
  <2>3. x \in Nodes
    BY <1>7
  <2>4. /\ With(n, r, p, x) \in [0 .. ((n + 1) + 1) -> Links]
        /\ \A k \in 0 .. p : With(n, r, p, x)[k] = r[k]
        /\ With(n, r, p, x)[p + 1] = x
        /\ \A k \in (p + 2) .. (n + 2) : With(n, r, p, x)[k] = r[k - 1]
        /\ Shape(n + 1, With(n, r, p, x), S \cup {x})
    BY <2>2, <2>3, WithFacts
  <2> QED
    BY <1>7, <2>4
<1>11. Forward = [i \in 1 .. n |-> r[i]]
  BY <1>5, WalkRing
<1>12. Forward' = [i \in 1 .. (n + 1) |-> q[i]]
  <2>1. PICK S \in SUBSET Nodes : S = Added'
    BY <1>5, <1>7, <1>8
  <2>2. Shape(n + 1, q, S)' /\ \A k \in 0 .. (n + 1) : next'[q[k]] = q[k + 1]
    BY <1>9, <2>1 DEF Ring, Shape
  <2>3. n + 1 \in Nat
    OBVIOUS
  <2> QED
    BY <1>10, <2>2, <2>3, WalkThen DEF WalksAsRing
<1>13. PICK f, g : f = Forward /\ g = Forward'
  OBVIOUS
<1>14. f \in Seq(Links) /\ Len(f) = n /\ \A i \in 1 .. n : f[i] = r[i]
  BY <1>11, <1>13
<1>15. g \in Seq(Links) /\ Len(g) = n + 1 /\ \A i \in 1 .. (n + 1) : g[i] = q[i]
  BY <1>10, <1>12, <1>13
<1>16. x \in Links
  BY <1>7 DEF Links
<1>17. CASE place[t][1] = ListHead
  <2>1. p = 0
    <3>1. \A k \in 1 .. n : r[k] # ListHead
      BY <1>5, ShapeFacts
    <3> QED
      BY <1>6, <1>17, <3>1
  <2>2. /\ <<x>> \o f \in Seq(Links) /\ Len(<<x>> \o f) = n + 1
        /\ (<<x>> \o f)[1] = x /\ \A i \in 2 .. (n + 1) : (<<x>> \o f)[i] = f[i - 1]
    BY <1>14, <1>16
  <2>3. ASSUME NEW i \in 1 .. (n + 1) PROVE g[i] = (<<x>> \o f)[i]
    <3>1. CASE i = 1
      BY <1>10, <1>15, <2>1, <2>2, <3>1
    <3>2. CASE i # 1
      <4>1. i \in (p + 2) .. (n + 2) /\ i \in 2 .. (n + 1) /\ i - 1 \in 1 .. n
        BY <2>1, <3>2
      <4> QED
        BY <1>10, <1>14, <1>15, <2>2, <4>1
    <3> QED
      BY <3>1, <3>2
  <2>4. g = <<x>> \o f
    BY <1>15, <2>2, <2>3, SeqEqual
  <2> QED
    BY <1>7, <1>13, <2>4
<1>18. CASE place[t][2] = ListHead
  <2>1. p = n
    <3>1. \A k \in 1 .. n : r[k] # ListHead
      BY <1>5, ShapeFacts
    <3>2. p + 1 \notin 1 .. n
      BY <1>8, <1>18, <3>1
    <3> QED
      BY <3>2
  <2>2. /\ Append(f, x) \in Seq(Links) /\ Len(Append(f, x)) = n + 1
        /\ Append(f, x)[n + 1] = x /\ \A i \in 1 .. n : Append(f, x)[i] = f[i]
    BY <1>14, <1>16
  <2>3. ASSUME NEW i \in 1 .. (n + 1) PROVE g[i] = Append(f, x)[i]
    <3>1. CASE i = n + 1
      BY <1>10, <1>15, <2>1, <2>2, <3>1
    <3>2. CASE i # n + 1
      <4>1. i \in 0 .. p /\ i \in 1 .. n
        BY <2>1, <3>2
      <4> QED
        BY <1>10, <1>14, <1>15, <2>2, <4>1
    <3> QED
      BY <3>1, <3>2
  <2>4. g = Append(f, x)
    BY <1>15, <2>2, <2>3, SeqEqual
  <2> QED
    BY <1>7, <1>13, <2>4
<1> QED
  BY <1>1, <1>2, <1>17, <1>18 DEF DListInv, Insertions, Insertion

(* list_length returns the length the list has when it gives up the lock.  *)
LEMMA LengthHappens ==
  ASSUME DListInv, NEW t \in Threads, ThreadStep(t), LengthUnlock(t)
  PROVE  len[t] = Len(Forward)
<1>1. pc[t] = "len_unlock" /\ list \in {"live", "crashed"}
  BY DestroyApart DEF LengthUnlock
<1>2. PICK n \in Nat : \E r \in [0 .. (n + 1) -> Links] : Ring(n, r) /\ Walks(n, r)
  BY <1>1 DEF DListInv, Ringed
<1>3. PICK r \in [0 .. (n + 1) -> Links] : Ring(n, r) /\ Walks(n, r)
  BY <1>2
<1>4. Added \subseteq Nodes /\ Shape(n, r, Added) /\ \A k \in 0 .. n : next[r[k]] = r[k + 1]
  BY <1>3 DEF Ring, DListInv, TypeOK, Added
<1>5. Forward = [i \in 1 .. n |-> r[i]]
  BY <1>4, WalkRing
<1>6. Len(Forward) = n
  BY <1>5
<1> QED
  BY <1>1, <1>3, <1>6 DEF Walks

LEMMA ListInitRefines == Init => Abstract!Init
<1> SUFFICES ASSUME Init PROVE Abstract!Init
  OBVIOUS
<1>1. Forward = << >>
  <2> DEFINE r == [k \in 0 .. (0 + 1) |-> ListHead]
  <2>1. r \in [0 .. (0 + 1) -> Links] /\ r[0] = ListHead /\ r[0 + 1] = ListHead
    BY DEF Links
  <2>2. next[ListHead] = ListHead
    BY DEF Init, Links
  <2>3. 1 .. 0 = {} /\ \A k \in 0 .. 0 : k = 0
    OBVIOUS
  <2> HIDE DEF r
  <2>4. Shape(0, r, {})
    BY <2>1, <2>3 DEF Shape
  <2>5. \A k \in 0 .. 0 : next[r[k]] = r[k + 1]
    BY <2>1, <2>2, <2>3
  <2>6. Forward = [i \in 1 .. 0 |-> r[i]]
    <3>1. 0 \in Nat /\ {} \in SUBSET Nodes
      OBVIOUS
    <3> QED
      BY <2>1, <2>4, <2>5, <3>1, WalkNow DEF WalksAsRing
  <2> QED
    BY <2>6
<1> QED
  BY <1>1 DEF Init, Abstract!Init

(* A step of the list is a step of SharedList or leaves its variables.     *)
LEMMA ListStepRefines ==
  ASSUME DListInv, [Next]_vars
  PROVE  [Abstract!Next]_(Abstract!vars)
<1>q. ASSUME Items' = Items, length' = length PROVE UNCHANGED Abstract!vars
  BY <1>q DEF Items, Abstract!vars
<1>1. CASE UNCHANGED vars
  <2>1. list' = list /\ length' = length /\ next' = next
    BY <1>1 DEF vars, linkVars, lenVars
  <2>2. list \in {"live", "crashed"} => Forward' = Forward
    BY <2>1, ForwardSame
  <2> QED
    BY <1>q, <2>1, <2>2 DEF Items
<1>2. ASSUME NEW t \in Threads, ThreadStep(t) PROVE [Abstract!Next]_(Abstract!vars)
  <2>0. list \in {"live", "crashed"} /\ list' \in {"live", "crashed"}
    BY <1>2, DestroyApart
  <2>1. CASE AddPrevNext(t)
    <3>1. length' = length
      BY <2>1 DEF AddPrevNext, lenVars
    <3>2. PICK n \in Nodes : Forward' = <<n>> \o Forward \/ Forward' = Append(Forward, n)
      BY <1>2, <2>1, AddHappens
    <3>3. Abstract!AddFront(n) \/ Abstract!AddBack(n)
      BY <2>0, <3>1, <3>2 DEF Abstract!AddFront, Abstract!AddBack
    <3> QED
      BY <3>3 DEF Abstract!Next
  <2>2. CASE LengthUnlock(t)
    <3>1. length' = [length EXCEPT ![t] = Len(Forward)] /\ next' = next
      BY <1>2, <2>2, LengthHappens DEF LengthUnlock, linkVars
    <3>2. Forward' = Forward
      BY <2>0, <3>1, ForwardSame
    <3>3. Abstract!Length(t)
      BY <2>0, <3>1, <3>2 DEF Abstract!Length
    <3> QED
      BY <3>3 DEF Abstract!Next
  <2>3. CASE AddNew(t)
    <3>1. length' = length /\ next' = [next EXCEPT ![node[t]] = place[t][2]]
      BY <2>3 DEF AddNew, lenVars
    <3>2. node[t] \notin Added \cup {ListHead}
      BY <2>3, NewNode DEF AddNew, Inserting, Linking
    <3>3. \A x \in Added \cup {ListHead} : next'[x] = next[x]
      <4>1. Added \subseteq Links /\ ListHead \in Links
        BY <2>0, RingFacts
      <4> QED
        BY <3>1, <3>2, <4>1 DEF DListInv, TypeOK
    <3>4. Forward' = Forward
      BY <2>0, <3>3, ForwardSame
    <3> QED
      BY <1>q, <2>0, <3>1, <3>4 DEF Items
  <2>4. CASE ~AddPrevNext(t) /\ ~LengthUnlock(t) /\ ~AddNew(t)
    <3>1. length' = length /\ next' = next
      BY <1>2, <2>4 DEF ThreadStep, NodeCreate, NodeCreateFails, AddLock, AddTailLock,
         AddNextPrev, AddUnlock, LengthCall, LengthLock, LengthWalk, linkVars, lenVars
    <3>2. Forward' = Forward
      BY <2>0, <3>1, ForwardSame
    <3> QED
      BY <1>q, <2>0, <3>1, <3>2 DEF Items
  <2> QED
    BY <2>1, <2>2, <2>3, <2>4
<1>3. CASE DestroyLock
  <2>1. length' = length /\ list' = "destroying"
    BY <1>3 DEF DestroyLock
  <2>2. Abstract!Clear
    BY <2>1 DEF Abstract!Clear
  <2> QED
    BY <2>2 DEF Abstract!Next
<1>4. CASE DestroyNode \/ DestroyEnd
  <2>1. length' = length /\ list = "destroying" /\ list' \in {"destroying", "freed"}
    BY <1>4 DEF DestroyNode, DestroyEnd, lenVars
  <2> QED
    BY <1>q, <2>1 DEF Items
<1> QED
  BY <1>1, <1>2, <1>3, <1>4 DEF Next, Over

(* However the threads interleave, callers of list_add, list_add_tail and  *)
(* list_length see what SharedList allows: every insertion and every       *)
(* length happens at one moment between call and return.                   *)
THEOREM ListRefines == Spec => ImplementsSharedList
<1>1. DListInv /\ [Next]_vars => [Abstract!Next]_(Abstract!vars)
  BY ListStepRefines
<1> QED
  BY <1>1, ListInitRefines, DListInvariant, PTL
     DEF Spec, ImplementsSharedList, Abstract!Spec
=============================================================================
