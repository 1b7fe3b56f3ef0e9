--------------------------- MODULE DfaMatchProofs ---------------------------
(***************************************************************************)
(* The lists of NFA states that match works on, and the cache of DStates,  *)
(* for every set of regular expressions, every alphabet and every size of  *)
(* the cache.                                                              *)
(***************************************************************************)
EXTENDS DfaMatch, FiniteSetTheorems, WellFoundedInduction, TLAPS

-----------------------------------------------------------------------------
(* Loops *)

(* Every set of natural numbers has a least element: what is false of some *)
(* number is false of a first one.                                         *)
LEMMA LeastElement ==
  ASSUME NEW B, B \subseteq Nat, B # {}
  PROVE  \E k \in B : \A j \in B : k =< j
<1> DEFINE S == FiniteSubsetsOf(Nat)
           R == StrictSubsetOrdering(Nat)
           T == {0 .. k : k \in B}
<1>1. IsWellFoundedOn(R, S)
  BY FS_StrictSubsetOrderingWellFounded
<1>2. T # {}
  OBVIOUS
<1>3. T \subseteq S
  <2> SUFFICES ASSUME NEW k \in B PROVE 0 .. k \in S
    OBVIOUS
  <2>1. k \in Nat /\ 0 \in Int /\ k \in Int
    OBVIOUS
  <2>2. IsFiniteSet(0 .. k)
    BY <2>1, FS_Interval
  <2>3. 0 .. k \in SUBSET Nat
    BY <2>1
  <2> QED
    BY <2>2, <2>3 DEF FiniteSubsetsOf
<1>4. PICK X \in T : \A Y \in T : ~(<<Y, X>> \in R)
  <2> HIDE DEF R, S, T
  <2> QED
    BY <1>1, <1>2, <1>3, WFMin
<1>5. PICK k \in B : X = 0 .. k
  OBVIOUS
<1>6. ASSUME NEW j \in B PROVE k =< j
  <2> SUFFICES ASSUME j < k PROVE FALSE
    OBVIOUS
  <2>1. 0 .. j \subseteq 0 .. k /\ 0 .. j # 0 .. k
    OBVIOUS
  <2>2. 0 .. j \in SUBSET Nat /\ 0 .. k \in SUBSET Nat
    OBVIOUS
  <2>3. <<0 .. j, 0 .. k>> \in R
    BY <2>1, <2>2, Zenon DEF StrictSubsetOrdering
  <2> QED
    BY <1>4, <1>5, <2>3
<1> QED
  BY <1>6

(* The recursion that defines Rounds has a solution, built round by round. *)
LEMMA RoundsSteps ==
  ASSUME NEW n \in Nat, NEW body, NEW a
  PROVE  \E f : /\ f[0] = a
                /\ \A k \in 1 .. n : f[k] = body[k][f[k - 1]]
                /\ f[n] = Rounds(n, body, a)
<1> DEFINE Follows(m, g) ==
      g = [k \in 0 .. m |-> IF k = 0 THEN a ELSE body[k][g[k - 1]]]
<1>1. \A m \in 0 .. n : \E g : Follows(m, g)
  <2> DEFINE Wrong == {m \in 0 .. n : ~ \E g : Follows(m, g)}
  <2> SUFFICES ASSUME Wrong # {} PROVE FALSE
    OBVIOUS
  <2>1. PICK m \in Wrong : \A j \in Wrong : m =< j
    <3>1. Wrong \subseteq Nat
      OBVIOUS
    <3> HIDE DEF Wrong
    <3> QED
      BY <3>1, LeastElement
  <2>2. CASE m = 0
    <3> DEFINE g == [k \in 0 .. 0 |-> a]
    <3>1. \A k \in 0 .. 0 : k = 0
      OBVIOUS
    <3>2. Follows(0, g)
      BY <3>1
    <3> QED
      BY <2>2, <3>2
  <2>3. CASE m # 0
    <3>1. m \in Nat /\ m - 1 \in 0 .. n /\ m - 1 \notin Wrong
      BY <2>1, <2>3
    <3>2. PICK f : Follows(m - 1, f)
      BY <3>1
    <3> DEFINE g == [k \in 0 .. m |-> IF k = m THEN body[m][f[m - 1]] ELSE f[k]]
    <3>3. ASSUME NEW k \in 0 .. m
          PROVE  g[k] = IF k = 0 THEN a ELSE body[k][g[k - 1]]
      <4>1. CASE k = m
        <5>1. m - 1 \in 0 .. m /\ m - 1 # m
          BY <2>3, <3>1
        <5> QED
          BY <2>3, <4>1, <5>1
      <4>2. CASE k # m
        <5>1. k \in 0 .. (m - 1) /\ g[k] = f[k]
          BY <3>1, <4>2
        <5>2. k # 0 => k - 1 \in 0 .. m /\ k - 1 # m
          BY <3>1, <4>2
        <5>3. k # 0 => g[k - 1] = f[k - 1]
          BY <5>2
        <5>4. f[k] = IF k = 0 THEN a ELSE body[k][f[k - 1]]
          BY <3>2, <5>1
        <5> QED
          BY <5>1, <5>3, <5>4
      <4> QED
        BY <4>1, <4>2
    <3>4. g = [k \in 0 .. m |-> g[k]]
      OBVIOUS
    <3>5. Follows(m, g)
      <4> HIDE DEF g
      <4> QED
        BY <3>3, <3>4
    <3>6. m \notin Wrong
      <4> HIDE DEF Follows, g
      <4> QED
        BY <3>5
    <3> QED
      BY <3>6
  <2> QED
    BY <2>2, <2>3
<1>2. Rounds(n, body, a) = (CHOOSE g : Follows(n, g))[n]
  BY DEF Rounds
<1>3. PICK h : h = CHOOSE g : Follows(n, g)
  OBVIOUS
<1>4. Follows(n, h)
  <2>1. \E g : Follows(n, g)
    BY <1>1
  <2> HIDE DEF Follows
  <2> QED
    BY <1>3, <2>1
<1>5. h[0] = a
  BY <1>4
<1>6. \A k \in 1 .. n : h[k] = body[k][h[k - 1]]
  BY <1>4
<1>7. h[n] = Rounds(n, body, a)
  <2> HIDE DEF Follows
  <2> QED
    BY <1>2, <1>3
<1> QED
  <2> HIDE DEF Follows
  <2> QED
    BY <1>5, <1>6, <1>7

(* What a loop keeps: a set for every round, such that the round leads from *)
(* the set before it into its own.                                         *)
LEMMA RoundsKeep ==
  ASSUME NEW n \in Nat, NEW body, NEW a, NEW P, a \in P[0],
         \A k \in 1 .. n : \A x \in P[k - 1] : body[k][x] \in P[k]
  PROVE  Rounds(n, body, a) \in P[n]
<1>1. PICK f : /\ f[0] = a
               /\ \A k \in 1 .. n : f[k] = body[k][f[k - 1]]
               /\ f[n] = Rounds(n, body, a)
  BY RoundsSteps
<1> DEFINE Wrong == {k \in 0 .. n : f[k] \notin P[k]}
<1>2. CASE Wrong = {}
  BY <1>1, <1>2
<1>3. CASE Wrong # {}
  <2>1. PICK k \in Wrong : \A j \in Wrong : k =< j
    <3>1. Wrong \subseteq Nat
      OBVIOUS
    <3> HIDE DEF Wrong
    <3> QED
      BY <1>3, <3>1, LeastElement
  <2>2. k # 0
    BY <1>1
  <2>3. k \in 1 .. n /\ k - 1 \in 0 .. n /\ k - 1 \notin Wrong
    BY <2>1, <2>2
  <2>4. f[k - 1] \in P[k - 1]
    BY <2>3
  <2> QED
    BY <1>1, <2>1, <2>3, <2>4
<1> QED
  BY <1>2, <1>3

-----------------------------------------------------------------------------
(* Trees *)

(* The links of every node lead to nodes or are NULL. *)
Linked(m) ==
  /\ NULL \notin DOMAIN m
  /\ \A x \in DOMAIN m : m[x].left \in DOMAIN m \cup {NULL} /\ m[x].right \in DOMAIN m \cup {NULL}

TreeClosed(m, S) ==
  \A z \in S : m[z].left \in S \cup {NULL} /\ m[z].right \in S \cup {NULL}

(* A closed set with the root in it contains the tree. *)
LEMMA TreeLeast ==
  ASSUME NEW m, NEW x, NEW S \in SUBSET DOMAIN m, x \in S \cup {NULL}, TreeClosed(m, S)
  PROVE  Tree(m, x) \subseteq S
BY DEF Tree, TreeClosed

LEMMA TreeWithin ==
  ASSUME NEW m, NEW x
  PROVE  Tree(m, x) \subseteq DOMAIN m
BY DEF Tree

(* Nothing is reached from NULL. *)
LEMMA TreeOfNull ==
  ASSUME NEW m
  PROVE  Tree(m, NULL) = {}
<1>1. TreeClosed(m, {})
  BY DEF TreeClosed
<1> QED
  BY <1>1, TreeLeast

LEMMA TreeSelf ==
  ASSUME NEW m, Linked(m), NEW x \in DOMAIN m
  PROVE  x \in Tree(m, x)
BY DEF Tree, Linked

(* Where a node is, the nodes its links lead to are. *)
LEMMA TreeDown ==
  ASSUME NEW m, Linked(m), NEW x
  PROVE  TreeClosed(m, Tree(m, x))
<1> SUFFICES ASSUME NEW z \in Tree(m, x), NEW y \in {m[z].left, m[z].right}, y # NULL
             PROVE  y \in Tree(m, x)
  BY DEF TreeClosed
<1>1. z \in DOMAIN m /\ y \in DOMAIN m
  BY DEF Tree, Linked
<1>2. ASSUME NEW S \in SUBSET DOMAIN m, x \in S \cup {NULL}, TreeClosed(m, S)
      PROVE  y \in S
  <2>1. z \in S
    BY <1>2, TreeLeast
  <2> QED
    BY <1>2, <2>1 DEF TreeClosed
<1> QED
  BY <1>1, <1>2 DEF Tree, TreeClosed

(* What is reached from a node of a tree is in that tree. *)
LEMMA TreeInTree ==
  ASSUME NEW m, Linked(m), NEW x, NEW y \in Tree(m, x)
  PROVE  Tree(m, y) \subseteq Tree(m, x)
BY TreeDown, TreeLeast, TreeWithin

(* A tree is its root and the two trees below it. *)
LEMMA TreeParts ==
  ASSUME NEW m, Linked(m), NEW x \in DOMAIN m
  PROVE  Tree(m, x) = {x} \cup Tree(m, m[x].left) \cup Tree(m, m[x].right)
<1> DEFINE S == {x} \cup Tree(m, m[x].left) \cup Tree(m, m[x].right)
<1>1. S \in SUBSET DOMAIN m
  BY TreeWithin
<1>2. \A y \in {m[x].left, m[x].right} : y # NULL => y \in Tree(m, y)
  BY TreeSelf DEF Linked
<1>3. TreeClosed(m, S)
  <2>1. TreeClosed(m, Tree(m, m[x].left)) /\ TreeClosed(m, Tree(m, m[x].right))
    BY TreeDown
  <2> QED
    BY <1>2, <2>1 DEF TreeClosed
<1>4. Tree(m, x) \subseteq S
  <2> HIDE DEF S
  <2>1. x \in S
    BY DEF S
  <2> QED
    BY <1>1, <1>3, <2>1, TreeLeast
<1>5. x \in Tree(m, x) /\ TreeClosed(m, Tree(m, x))
  BY TreeSelf, TreeDown
<1>6. \A y \in {m[x].left, m[x].right} : Tree(m, y) \subseteq Tree(m, x)
  <2> TAKE y \in {m[x].left, m[x].right}
  <2>1. CASE y = NULL
    BY <2>1, TreeOfNull
  <2>2. CASE y # NULL
    <3>1. y \in Tree(m, x)
      BY <1>5, <2>2 DEF TreeClosed
    <3> QED
      BY <3>1, TreeInTree
  <2> QED
    BY <2>1, <2>2
<1> QED
  BY <1>4, <1>5, <1>6

(* All nodes of a tree but its root have a parent in it. *)
LEMMA TreeParent ==
  ASSUME NEW m, Linked(m), NEW x \in DOMAIN m \cup {NULL}, NEW y \in Tree(m, x), y # x
  PROVE  \E z \in Tree(m, x) : m[z].left = y \/ m[z].right = y
<1> SUFFICES ASSUME \A z \in Tree(m, x) : m[z].left # y /\ m[z].right # y
             PROVE  FALSE
  OBVIOUS
<1> DEFINE S == Tree(m, x) \ {y}
<1>1. S \in SUBSET DOMAIN m
  BY TreeWithin
<1>2. TreeClosed(m, S)
  BY TreeDown DEF TreeClosed
<1>3. x \in S \cup {NULL}
  BY TreeSelf
<1>4. Tree(m, x) \subseteq S
  <2> HIDE DEF S
  <2> QED
    BY <1>1, <1>2, <1>3, TreeLeast
<1> QED
  BY <1>4

(* Memory changed elsewhere leaves a tree as it is. *)
LEMMA TreeSame ==
  ASSUME NEW m, Linked(m), NEW m2, Linked(m2), NEW x \in DOMAIN m \cup {NULL},
         DOMAIN m \subseteq DOMAIN m2,
         \A y \in Tree(m, x) : m2[y].left = m[y].left /\ m2[y].right = m[y].right
  PROVE  Tree(m2, x) = Tree(m, x)
<1>1. Tree(m2, x) \subseteq Tree(m, x)
  <2>1. TreeClosed(m2, Tree(m, x))
    BY TreeDown DEF TreeClosed
  <2>2. x \in Tree(m, x) \cup {NULL}
    BY TreeSelf
  <2> QED
    BY <2>1, <2>2, TreeLeast, TreeWithin
<1> DEFINE S == Tree(m2, x) \cap Tree(m, x)
<1>2. Tree(m, x) \subseteq S
  <2>1. S \in SUBSET DOMAIN m
    BY TreeWithin
  <2>2. TreeClosed(m, S)
    <3>1. TreeClosed(m, Tree(m, x)) /\ TreeClosed(m2, Tree(m2, x))
      BY TreeDown
    <3> QED
      BY <3>1 DEF TreeClosed
  <2>3. x \in S \cup {NULL}
    <3>1. x # NULL => x \in Tree(m, x)
      BY TreeSelf
    <3>2. x # NULL => x \in Tree(m2, x)
      BY TreeSelf
    <3> QED
      BY <3>1, <3>2
  <2> HIDE DEF S
  <2> QED
    BY <2>1, <2>2, <2>3, TreeLeast
<1> QED
  BY <1>1, <1>2

(* m2 is m with a new leaf x below node p of the tree. *)
Attached(m, m2, r, p, x) ==
  /\ DOMAIN m \subseteq DOMAIN m2 /\ x \in DOMAIN m2 \ Tree(m, r) /\ p \in Tree(m, r)
  /\ m2[x].left = NULL /\ m2[x].right = NULL
  /\ \A y \in Tree(m, r) :
       /\ m2[y].left = m[y].left \/ (y = p /\ m[p].left = NULL /\ m2[p].left = x)
       /\ m2[y].right = m[y].right \/ (y = p /\ m[p].right = NULL /\ m2[p].right = x)
  /\ m2[p].left = x \/ m2[p].right = x

(* A new leaf x below the node p becomes part of the trees that p is in. *)
LEMMA TreeGrows ==
  ASSUME NEW m, Linked(m), NEW m2, Linked(m2), NEW r, NEW p, NEW x,
         Attached(m, m2, r, p, x), NEW y \in Tree(m, r)
  PROVE  Tree(m2, y) = Tree(m, y) \cup (IF p \in Tree(m, y) THEN {x} ELSE {})
<1> USE DEF Attached
<1> DEFINE S == Tree(m, y) \cup (IF p \in Tree(m, y) THEN {x} ELSE {})
<1>0. y \in DOMAIN m /\ y \in Tree(m, y) /\ Tree(m, y) \subseteq Tree(m, r)
      /\ TreeClosed(m, Tree(m, y)) /\ TreeClosed(m2, Tree(m2, y))
      /\ Tree(m, y) \subseteq DOMAIN m /\ y \in Tree(m2, y) /\ p # NULL /\ x # NULL
  <2>1. y \in DOMAIN m /\ y \in DOMAIN m2 /\ p \in DOMAIN m
    BY TreeWithin
  <2> QED
    BY <2>1, TreeSelf, TreeInTree, TreeDown, TreeWithin DEF Linked
<1>1. Tree(m2, y) \subseteq S
  <2>1. TreeClosed(m2, S)
    BY <1>0 DEF TreeClosed
  <2>2. S \in SUBSET DOMAIN m2
    BY <1>0
  <2>3. y \in S
    BY <1>0
  <2> HIDE DEF S
  <2> QED
    BY <2>1, <2>2, <2>3, TreeLeast
<1> DEFINE T == Tree(m2, y) \cap Tree(m, y)
<1>2. Tree(m, y) \subseteq T
  <2>1. TreeClosed(m, T)
    BY <1>0 DEF TreeClosed
  <2>2. T \in SUBSET DOMAIN m /\ y \in T
    BY <1>0
  <2> HIDE DEF T
  <2> QED
    BY <2>1, <2>2, TreeLeast
<1>3. p \in Tree(m, y) => x \in Tree(m2, y)
  BY <1>0, <1>2 DEF TreeClosed
<1> QED
  BY <1>1, <1>2, <1>3

-----------------------------------------------------------------------------
(* Search trees *)

Lists(m) == \A x \in DOMAIN m : m[x].l \in Seq(Int)

(* The lists to the left of a node come before its own, those to the right *)
(* of it after.                                                            *)
SearchTree(m, r) ==
  \A z \in Tree(m, r) :
    /\ \A y \in Tree(m, m[z].left) : ListLess(m[y].l, m[z].l)
    /\ \A y \in Tree(m, m[z].right) : ListLess(m[z].l, m[y].l)

(* At most one link of the tree leads to each node. *)
OneParent(m, r) ==
  \A x, y \in Tree(m, r) :
    /\ m[x].left # NULL /\ m[x].left = m[y].left => x = y
    /\ m[x].right # NULL /\ m[x].right = m[y].right => x = y
    /\ m[x].left # NULL => m[x].left # m[y].right

(* listcmp never finds each of two lists less than the other. *)
LEMMA LessOneWay ==
  ASSUME NEW l1 \in Seq(Int), NEW l2 \in Seq(Int), ListLess(l1, l2)
  PROVE  ~ ListLess(l2, l1) /\ l1 # l2
<1>1. CASE Len(l1) < Len(l2)
  BY <1>1 DEF ListLess
<1>2. CASE ~ (Len(l1) < Len(l2))
  <2>1. Len(l1) = Len(l2)
    BY <1>2 DEF ListLess
  <2>2. PICK i \in DOMAIN l1 : l1[i] < l2[i] /\ \A j \in 1 .. i - 1 : l1[j] = l2[j]
    BY <1>2 DEF ListLess
  <2>3. ASSUME NEW k \in DOMAIN l2, l2[k] < l1[k], \A j \in 1 .. k - 1 : l2[j] = l1[j]
        PROVE  FALSE
    <3>1. i \in Nat /\ k \in Nat /\ i >= 1 /\ k >= 1
      BY <2>2, <2>3
    <3>2. l1[i] \in Int /\ l2[i] \in Int /\ l1[k] \in Int /\ l2[k] \in Int
      BY <2>1, <2>2, <2>3
    <3>3. CASE i < k
      <4>1. i \in 1 .. k - 1
        BY <3>1, <3>3
      <4>2. l2[i] = l1[i]
        BY <2>3, <4>1
      <4> QED
        BY <2>2, <3>2, <4>2
    <3>4. CASE k < i
      <4>1. k \in 1 .. i - 1
        BY <3>1, <3>4
      <4>2. l1[k] = l2[k]
        BY <2>2, <4>1
      <4> QED
        BY <2>3, <3>2, <4>2
    <3>5. CASE i = k
      BY <2>2, <2>3, <3>2, <3>5
    <3> QED
      BY <3>1, <3>3, <3>4, <3>5
  <2>4. ~ ListLess(l2, l1)
    BY <2>1, <2>3 DEF ListLess
  <2> QED
    BY <2>2, <2>4
<1> QED
  BY <1>1, <1>2

(* listcmp tells any two different lists apart. *)
LEMMA LessTotal ==
  ASSUME NEW l1 \in Seq(Int), NEW l2 \in Seq(Int), l1 # l2, ~ ListLess(l1, l2)
  PROVE  ListLess(l2, l1)
<1>1. CASE Len(l1) # Len(l2)
  BY <1>1 DEF ListLess
<1>2. CASE Len(l1) = Len(l2)
  <2> DEFINE Differ == {i \in 1 .. Len(l1) : l1[i] # l2[i]}
  <2>1. Differ # {}
    BY <1>2
  <2>2. Differ \subseteq Nat
    OBVIOUS
  <2>3. PICK i \in Differ : \A j \in Differ : i =< j
    <3> HIDE DEF Differ
    <3> QED
      BY <2>1, <2>2, LeastElement
  <2>4. i \in 1 .. Len(l1) /\ l1[i] # l2[i] /\ l1[i] \in Int /\ l2[i] \in Int
    BY <1>2, <2>3
  <2>5. \A j \in 1 .. i - 1 : j \in 1 .. Len(l1) /\ ~ (i =< j)
    BY <2>4
  <2>6. \A j \in 1 .. i - 1 : l1[j] = l2[j]
    BY <2>3, <2>5
  <2>7. ~ (l1[i] < l2[i])
    <3> SUFFICES ASSUME l1[i] < l2[i] PROVE ListLess(l1, l2)
      OBVIOUS
    <3>1. i \in DOMAIN l1
      BY <2>4
    <3> HIDE DEF Differ
    <3> QED
      BY <1>2, <2>6, <3>1 DEF ListLess
  <2>8. l2[i] < l1[i] /\ \A j \in 1 .. i - 1 : l2[j] = l1[j]
    BY <2>4, <2>6, <2>7
  <2>9. i \in DOMAIN l2 /\ Len(l2) = Len(l1)
    BY <1>2, <2>4
  <2> QED
    BY <2>8, <2>9 DEF ListLess
<1> QED
  BY <1>1, <1>2

(* The parts of a search tree have no node in common. *)
LEMMA PartsApart ==
  ASSUME NEW m, Linked(m), Lists(m), NEW r, SearchTree(m, r), NEW z \in Tree(m, r)
  PROVE  /\ z \notin Tree(m, m[z].left) /\ z \notin Tree(m, m[z].right)
         /\ Tree(m, m[z].left) \cap Tree(m, m[z].right) = {}
<1>1. z \in DOMAIN m /\ m[z].l \in Seq(Int)
  BY TreeWithin DEF Lists
<1>2. \A y : y \in Tree(m, m[z].left) => y \in DOMAIN m /\ m[y].l \in Seq(Int)
  BY TreeWithin DEF Lists
<1>3. \A y \in Tree(m, m[z].left) : ListLess(m[y].l, m[z].l)
  BY DEF SearchTree
<1>4. \A y \in Tree(m, m[z].right) : ListLess(m[z].l, m[y].l)
  BY DEF SearchTree
<1> QED
  BY <1>1, <1>2, <1>3, <1>4, LessOneWay

(* The trees below a node have fewer nodes than the one from it on. *)
LEMMA TreeFinite ==
  ASSUME NEW m, IsFiniteSet(DOMAIN m), NEW x
  PROVE  IsFiniteSet(Tree(m, x)) /\ Cardinality(Tree(m, x)) \in Nat
         /\ Cardinality(Tree(m, x)) =< Cardinality(DOMAIN m)
<1>1. Tree(m, x) \subseteq DOMAIN m
  BY TreeWithin
<1> QED
  BY <1>1, FS_Subset, FS_CardinalityType

LEMMA TreeSmaller ==
  ASSUME NEW m, Linked(m), Lists(m), IsFiniteSet(DOMAIN m), NEW r, SearchTree(m, r),
         NEW z \in Tree(m, r), NEW y \in {m[z].left, m[z].right}
  PROVE  Cardinality(Tree(m, y)) < Cardinality(Tree(m, z))
<1>1. IsFiniteSet(Tree(m, z)) /\ IsFiniteSet(Tree(m, y))
      /\ Cardinality(Tree(m, z)) \in Nat /\ Cardinality(Tree(m, y)) \in Nat
  BY TreeFinite
<1>2. z \in DOMAIN m
  BY TreeWithin
<1>3. Tree(m, y) \subseteq Tree(m, z) \ {z}
  BY <1>2, TreeParts, PartsApart
<1>4. z \in Tree(m, z)
  BY <1>2, TreeSelf
<1>5. /\ IsFiniteSet(Tree(m, z) \ {z})
      /\ Cardinality(Tree(m, z) \ {z}) = Cardinality(Tree(m, z)) - 1
  BY <1>1, <1>4, FS_RemoveElement
<1>6. Cardinality(Tree(m, y)) =< Cardinality(Tree(m, z) \ {z})
  BY <1>3, <1>5, FS_Subset
<1> QED
  BY <1>1, <1>5, <1>6

-----------------------------------------------------------------------------
(* The search of dstate *)

Live == Tree(mem, alldstates)

(* What the cache is as a data structure: a search tree in memory. *)
IsCacheTree ==
  /\ Linked(mem) /\ Lists(mem) /\ Len(mem) \in Nat /\ DOMAIN mem = 1 .. Len(mem)
  /\ alldstates \in Pointer
  /\ SearchTree(mem, alldstates) /\ OneParent(mem, alldstates)

(* A node with list l below p is on the right side of all nodes above it. *)
Fits(l, p) ==
  p.field # "root" =>
    /\ p.node \in Live
    /\ p.field = "left" => ListLess(l, mem[p.node].l)
    /\ p.field = "right" => ListLess(mem[p.node].l, l)
    /\ \A a \in Live :
         /\ p.node \in Tree(mem, mem[a].left) => ListLess(l, mem[a].l)
         /\ p.node \in Tree(mem, mem[a].right) => ListLess(mem[a].l, l)

(* Where the search for l can be: nothing it left aside has list l. *)
Reached(l, p) ==
  /\ p \in Places /\ Fits(l, p)
  /\ At(p) \in Live \cup {NULL}
  /\ \A y \in Live : mem[y].l = l => y \in Tree(mem, At(p))

LEMMA DomainFinite ==
  ASSUME IsCacheTree
  PROVE  /\ Len(mem) \in Nat
         /\ IsFiniteSet(DOMAIN mem) /\ Cardinality(DOMAIN mem) = Len(mem)
<1>1. Len(mem) \in Nat /\ 1 \in Int /\ Len(mem) \in Int /\ DOMAIN mem = 1 .. Len(mem)
  BY DEF IsCacheTree
<1>2. /\ IsFiniteSet(1 .. Len(mem))
      /\ Cardinality(1 .. Len(mem)) = IF 1 > Len(mem) THEN 0 ELSE Len(mem) - 1 + 1
  BY <1>1, FS_Interval
<1> QED
  BY <1>1, <1>2

(* A round of the search of dstate stays on the one path to list l. *)
LEMMA DescendKeeps ==
  ASSUME IsCacheTree, NEW l \in Seq(Int), NEW p, Reached(l, p)
  PROVE  /\ Reached(l, Descend(l, p))
         /\ At(p) # NULL /\ ~ Found(l, p) =>
              Cardinality(Tree(mem, At(Descend(l, p)))) < Cardinality(Tree(mem, At(p)))
<1>0. CASE At(p) = NULL \/ Found(l, p)
  BY <1>0 DEF Descend
<1>1. CASE At(p) # NULL /\ ~ Found(l, p)
  <2> DEFINE x == At(p)
             left == ListLess(l, mem[x].l)
             q == [node |-> x, field |-> IF left THEN "left" ELSE "right"]
  <2>1. Descend(l, p) = q
    BY <1>1 DEF Descend
  <2>2. x \in Live /\ x \in DOMAIN mem /\ x \in Pointer /\ mem[x].l # l
        /\ mem[x].l \in Seq(Int) /\ x # NULL
    BY <1>1, TreeWithin DEF Reached, Found, Pointer, IsCacheTree, Lists, Live
  <2>3. q \in Places /\ q.node = x /\ q.field \in {"left", "right"} /\ q.field # "root"
    BY <2>2 DEF Places
  <2>4. At(q) = IF left THEN mem[x].left ELSE mem[x].right
    <3>1. PICK y : y = x
      OBVIOUS
    <3>2. q = [node |-> y, field |-> IF left THEN "left" ELSE "right"]
      BY <3>1
    <3>3. left \in BOOLEAN
      BY DEF ListLess
    <3> HIDE DEF x, left, q
    <3> QED
      BY <3>1, <3>2, <3>3 DEF At
  <2>5. At(q) \in {mem[x].left, mem[x].right}
    BY <2>4
  <2>6. ~ left => ListLess(mem[x].l, l)
    BY <2>2, LessTotal
  <2>7. TreeClosed(mem, Live)
    BY TreeDown DEF Live, IsCacheTree
  <2>8. At(q) \in Live \cup {NULL}
    BY <2>2, <2>5, <2>7 DEF TreeClosed
  <2>9. ASSUME NEW y \in Live, mem[y].l = l PROVE y \in Tree(mem, At(q))
    <3>1. y \in Tree(mem, x)
      BY <2>9 DEF Reached
    <3>2. y \in Tree(mem, mem[x].left) \/ y \in Tree(mem, mem[x].right)
      BY <2>2, <2>9, <3>1, TreeParts DEF IsCacheTree
    <3>3. y \in Tree(mem, mem[x].left) => ListLess(l, mem[x].l)
      BY <2>2, <2>9 DEF IsCacheTree, SearchTree, Live
    <3>4. y \in Tree(mem, mem[x].right) => ListLess(mem[x].l, l)
      BY <2>2, <2>9 DEF IsCacheTree, SearchTree, Live
    <3> QED
      BY <2>2, <2>4, <3>2, <3>3, <3>4, LessOneWay
  <2>10. ASSUME NEW a \in Live, NEW b \in {mem[a].left, mem[a].right}, x \in Tree(mem, b)
         PROVE  \/ b = x /\ p.field # "root" /\ p.node = a
                         /\ (b = mem[a].left => p.field = "left")
                         /\ (b = mem[a].right => p.field = "right")
                \/ p.field # "root" /\ p.node \in Tree(mem, b)
    <3>1. b \in Live /\ b # NULL /\ b \in DOMAIN mem
      <4>1. b # NULL
        BY <2>10, TreeOfNull
      <4>2. b \in Live
        BY <2>7, <4>1 DEF TreeClosed
      <4> QED
        BY <4>1, <4>2, TreeWithin DEF Live
    <3>2. p.field # "root"
      <4> SUFFICES ASSUME p.field = "root" PROVE FALSE
        OBVIOUS
      <4>1. x = alldstates
        BY DEF At
      <4>2. a \in Tree(mem, b)
        BY <2>10, <4>1, TreeInTree DEF Live, IsCacheTree
      <4> QED
        BY <4>2, PartsApart DEF Live, IsCacheTree
    <3>3. p.node \in Live /\ p.field \in {"left", "right"}
      BY <3>2 DEF Reached, Fits, Places
    <3>4. p.field = "left" => x = mem[p.node].left
      BY DEF At
    <3>5. p.field = "right" => x = mem[p.node].right
      BY DEF At
    <3>6. CASE b = x
      <4>1. a = p.node
        BY <2>2, <3>3, <3>4, <3>5, <3>6 DEF IsCacheTree, OneParent, Live
      <4>2. mem[a].left # mem[a].right \/ mem[a].left = NULL
        BY DEF IsCacheTree, OneParent, Live
      <4> QED
        BY <2>2, <3>2, <3>3, <3>4, <3>5, <3>6, <4>1, <4>2
    <3>7. CASE b # x
      <4>1. PICK z \in Tree(mem, b) : mem[z].left = x \/ mem[z].right = x
        BY <2>10, <3>1, <3>7, TreeParent DEF IsCacheTree
      <4>2. z \in Live
        BY <3>1, <4>1, TreeInTree DEF Live, IsCacheTree
      <4>3. z = p.node
        BY <2>2, <3>3, <3>4, <3>5, <4>1, <4>2 DEF IsCacheTree, OneParent, Live
      <4> QED
        BY <3>2, <4>1, <4>3
    <3> QED
      BY <3>6, <3>7
  <2>11. ASSUME NEW a \in Live
         PROVE  /\ x \in Tree(mem, mem[a].left) => ListLess(l, mem[a].l)
                /\ x \in Tree(mem, mem[a].right) => ListLess(mem[a].l, l)
    <3>1. ASSUME x \in Tree(mem, mem[a].left) PROVE ListLess(l, mem[a].l)
      <4> DEFINE b == mem[a].left
      <4>1. b \in {mem[a].left, mem[a].right}
        OBVIOUS
      <4>2. \/ p.field # "root" /\ p.node = a /\ p.field = "left"
            \/ p.field # "root" /\ p.node \in Tree(mem, b)
        BY <2>10, <3>1, <4>1
      <4> QED
        BY <4>2 DEF Reached, Fits
    <3>2. ASSUME x \in Tree(mem, mem[a].right) PROVE ListLess(mem[a].l, l)
      <4> DEFINE b == mem[a].right
      <4>1. b \in {mem[a].left, mem[a].right}
        OBVIOUS
      <4>2. \/ p.field # "root" /\ p.node = a /\ p.field = "right"
            \/ p.field # "root" /\ p.node \in Tree(mem, b)
        BY <2>10, <3>2, <4>1
      <4> QED
        BY <4>2 DEF Reached, Fits
    <3> QED
      BY <3>1, <3>2
  <2>12. Fits(l, q)
    BY <2>2, <2>3, <2>6, <2>11 DEF Fits
  <2>13. Reached(l, q)
    BY <2>3, <2>8, <2>9, <2>12 DEF Reached
  <2>14. Cardinality(Tree(mem, At(q))) < Cardinality(Tree(mem, x))
    <3>1. IsFiniteSet(DOMAIN mem)
      BY DomainFinite
    <3> HIDE DEF x, q
    <3> QED
      BY <2>2, <2>5, <3>1, TreeSmaller DEF IsCacheTree, Live
  <2> QED
    BY <2>1, <2>13, <2>14
<1> QED
  BY <1>0, <1>1

(* The search finds list l if it is in the tree, and else the one place     *)
(* where it belongs.                                                       *)
LEMMA SearchRight ==
  ASSUME IsCacheTree, NEW l \in Seq(Int)
  PROVE  /\ Reached(l, Search(l))
         /\ At(Search(l)) = NULL \/ Found(l, Search(l))
<1> DEFINE n == Len(mem)
           body == [k \in 1 .. n |-> [p \in Places |-> Descend(l, p)]]
           Ended(p) == At(p) = NULL \/ Found(l, p)
           P == [k \in 0 .. n |->
                   {p \in Places : Reached(l, p) /\
                      (Ended(p) \/ Cardinality(Tree(mem, At(p))) + k =< n)}]
<1>1. n \in Nat /\ IsFiniteSet(DOMAIN mem) /\ Cardinality(DOMAIN mem) = n
  BY DomainFinite
<1>2. \A x : Cardinality(Tree(mem, x)) \in Nat /\ Cardinality(Tree(mem, x)) =< n
  BY <1>1, TreeFinite
<1>3. Root \in P[0]
  <2>1. Root \in Places /\ At(Root) = alldstates /\ Root.field = "root"
    BY DEF Root, Places, At, Pointer
  <2>2. alldstates \in Live \cup {NULL}
    BY TreeSelf DEF Live, IsCacheTree, Pointer
  <2>3. Reached(l, Root)
    BY <2>1, <2>2 DEF Reached, Fits, Live
  <2>4. 0 \in 0 .. n
    BY <1>1
  <2>5. Cardinality(Tree(mem, At(Root))) + 0 =< n
    BY <1>2
  <2> HIDE DEF Ended
  <2> QED
    BY <2>1, <2>3, <2>4, <2>5
<1>4. ASSUME NEW k \in 1 .. n, NEW p \in P[k - 1] PROVE body[k][p] \in P[k]
  <2>1. k - 1 \in 0 .. n /\ k \in 0 .. n /\ k \in Nat
    BY <1>1
  <2>2. p \in Places /\ Reached(l, p)
        /\ (Ended(p) \/ Cardinality(Tree(mem, At(p))) + (k - 1) =< n)
    BY <1>4, <2>1
  <2> DEFINE q == Descend(l, p)
  <2>3. body[k][p] = q
    BY <2>2
  <2>4. Reached(l, q) /\ q \in Places
    BY <2>2, DescendKeeps DEF Reached
  <2>5. CASE Ended(p)
    <3>1. q = p
      BY <2>5 DEF Descend
    <3> HIDE DEF Ended, q
    <3> QED
      BY <2>1, <2>3, <2>4, <2>5, <3>1
  <2>6. CASE ~ Ended(p)
    <3>1. Cardinality(Tree(mem, At(q))) < Cardinality(Tree(mem, At(p)))
      BY <2>2, <2>6, DescendKeeps
    <3>2. Cardinality(Tree(mem, At(q))) + k =< n
      BY <1>1, <1>2, <2>1, <2>2, <2>6, <3>1
    <3> HIDE DEF Ended, q
    <3> QED
      BY <2>1, <2>3, <2>4, <3>2
  <2> QED
    BY <2>5, <2>6
<1>5. Rounds(n, body, Root) \in P[n]
  <2> HIDE DEF body, P, n
  <2> QED
    BY <1>1, <1>3, <1>4, RoundsKeep
<1>6. Search(l) \in P[n]
  BY <1>5 DEF Search
<1>7. Reached(l, Search(l)) /\ (Ended(Search(l)) \/ Cardinality(Tree(mem, At(Search(l)))) + n =< n)
  <2> HIDE DEF Ended
  <2> QED
    BY <1>1, <1>6
<1>8. ASSUME ~ Ended(Search(l)) PROVE FALSE
  <2> DEFINE x == At(Search(l))
  <2>1. Cardinality(Tree(mem, x)) = 0
    BY <1>1, <1>2, <1>7, <1>8
  <2>2. Tree(mem, x) = {}
    BY <1>1, <2>1, TreeFinite, FS_EmptySet
  <2>3. x \in DOMAIN mem
    BY <1>7, <1>8, TreeWithin DEF Reached, Live
  <2> QED
    BY <2>2, <2>3, TreeSelf DEF IsCacheTree
<1> QED
  BY <1>7, <1>8

-----------------------------------------------------------------------------
(* The free list *)

(* The free list that begins with x runs through F in the order of q. *)
Listed(m, x, F, n, q) ==
  /\ F = {q[i] : i \in 1 .. n}
  /\ \A i, j \in 1 .. n : q[i] = q[j] => i = j
  /\ x = IF n = 0 THEN NULL ELSE q[1]
  /\ \A i \in 1 .. n : m[q[i]].left = IF i = n THEN NULL ELSE q[i + 1]

(* F are the nodes of the free list that begins with x, each once. *)
IsFree(m, x, F) == \E n \in Nat : \E q \in [1 .. n -> DOMAIN m] : Listed(m, x, F, n, q)

LEMMA FreeNone ==
  ASSUME NEW m
  PROVE  IsFree(m, NULL, {})
<1> DEFINE q == [i \in 1 .. 0 |-> NULL]
<1>1. q \in [1 .. 0 -> DOMAIN m] /\ {q[i] : i \in 1 .. 0} = {}
  OBVIOUS
<1> HIDE DEF q
<1> QED
  BY <1>1 DEF IsFree, Listed

(* What FreeNodes finds is what is on the list. *)
LEMMA FreeFound ==
  ASSUME NEW m, NULL \notin DOMAIN m, NEW x, NEW F, IsFree(m, x, F)
  PROVE  FreeNodes(m, x) = F
<1>0. PICK n \in Nat : \E q \in [1 .. n -> DOMAIN m] : Listed(m, x, F, n, q)
  BY DEF IsFree
<1>1. PICK q \in [1 .. n -> DOMAIN m] :
        /\ F = {q[i] : i \in 1 .. n}
        /\ \A i, j \in 1 .. n : q[i] = q[j] => i = j
        /\ x = IF n = 0 THEN NULL ELSE q[1]
        /\ \A i \in 1 .. n : m[q[i]].left = IF i = n THEN NULL ELSE q[i + 1]
  BY <1>0 DEF Listed
<1>2. F \in SUBSET DOMAIN m
  BY <1>1
<1>3. x \in F \cup {NULL}
  BY <1>1
<1>4. ASSUME NEW z \in F PROVE m[z].left \in F \cup {NULL}
  <2>1. PICK i \in 1 .. n : z = q[i]
    BY <1>1
  <2>2. i # n => i + 1 \in 1 .. n
    OBVIOUS
  <2> QED
    BY <1>1, <2>1, <2>2
<1>5. FreeNodes(m, x) \subseteq F
  BY <1>2, <1>3, <1>4 DEF FreeNodes
<1>6. ASSUME NEW S \in SUBSET DOMAIN m, x \in S \cup {NULL},
             \A z \in S : m[z].left \in S \cup {NULL}
      PROVE  F \subseteq S
  <2> DEFINE Wrong == {i \in 1 .. n : q[i] \notin S}
  <2>1. CASE Wrong = {}
    BY <1>1, <2>1
  <2>2. CASE Wrong # {}
    <3>1. PICK i \in Wrong : \A j \in Wrong : i =< j
      <4>1. Wrong \subseteq Nat
        OBVIOUS
      <4> HIDE DEF Wrong
      <4> QED
        BY <2>2, <4>1, LeastElement
    <3>2. i \in 1 .. n /\ q[i] \notin S /\ q[i] # NULL
      BY <3>1
    <3>3. i # 1
      BY <1>1, <1>6, <3>2
    <3>4. i - 1 \in 1 .. n /\ i - 1 # n /\ (i - 1) + 1 = i /\ i - 1 \notin Wrong
      BY <3>1, <3>2, <3>3
    <3>5. q[i - 1] \in S /\ m[q[i - 1]].left = q[i]
      BY <1>1, <3>4
    <3> QED
      BY <1>6, <3>2, <3>5
  <2> QED
    BY <2>1, <2>2
<1>7. F \subseteq FreeNodes(m, x)
  BY <1>2, <1>6 DEF FreeNodes
<1> QED
  BY <1>5, <1>7

(* A node goes to the front of the list. *)
LEMMA FreePush ==
  ASSUME NEW m, NEW x, NEW F, IsFree(m, x, F), NEW y \in DOMAIN m, y \notin F,
         NEW m2, DOMAIN m2 = DOMAIN m, m2[y].left = x,
         \A z \in F : m2[z].left = m[z].left
  PROVE  IsFree(m2, y, F \cup {y})
<1>0. PICK n \in Nat : \E q \in [1 .. n -> DOMAIN m] : Listed(m, x, F, n, q)
  BY DEF IsFree
<1>1. PICK q \in [1 .. n -> DOMAIN m] :
        /\ F = {q[i] : i \in 1 .. n}
        /\ \A i, j \in 1 .. n : q[i] = q[j] => i = j
        /\ x = IF n = 0 THEN NULL ELSE q[1]
        /\ \A i \in 1 .. n : m[q[i]].left = IF i = n THEN NULL ELSE q[i + 1]
  BY <1>0 DEF Listed
<1> DEFINE r == [i \in 1 .. (n + 1) |-> IF i = 1 THEN y ELSE q[i - 1]]
<1>2. \A i \in 1 .. (n + 1) : i # 1 => i - 1 \in 1 .. n
  OBVIOUS
<1>3. r \in [1 .. (n + 1) -> DOMAIN m2]
  BY <1>2
<1>4. r[1] = y
  OBVIOUS
<1>5. \A i \in 1 .. n : i + 1 \in 1 .. (n + 1) /\ i + 1 # 1 /\ (i + 1) - 1 = i
  OBVIOUS
<1>6. \A i \in 1 .. n : r[i + 1] = q[i]
  BY <1>5
<1>7. \A i \in 1 .. (n + 1) : i # 1 => r[i] = q[i - 1] /\ q[i - 1] \in F /\ q[i - 1] # y
  BY <1>1, <1>2
<1>8. F \cup {y} = {r[i] : i \in 1 .. (n + 1)}
  <2>1. \A z \in F : \E i \in 1 .. (n + 1) : z = r[i]
    BY <1>1, <1>5, <1>6
  <2>2. 1 \in 1 .. (n + 1)
    OBVIOUS
  <2> HIDE DEF r
  <2> QED
    BY <1>4, <1>7, <2>1, <2>2
<1>9. \A i, j \in 1 .. (n + 1) : r[i] = r[j] => i = j
  <2> TAKE i, j \in 1 .. (n + 1)
  <2> HAVE r[i] = r[j]
  <2>1. i # 1 /\ j # 1 => i - 1 = j - 1
    <3> HIDE DEF r
    <3> QED
      BY <1>1, <1>2, <1>7
  <2>2. i = 1 <=> j = 1
    <3> HIDE DEF r
    <3> QED
      BY <1>4, <1>7
  <2> QED
    BY <2>1, <2>2
<1>10. ASSUME NEW i \in 1 .. (n + 1)
       PROVE  m2[r[i]].left = IF i = n + 1 THEN NULL ELSE r[i + 1]
  <2>1. CASE i = 1
    <3>1. m2[r[i]].left = x
      BY <1>4, <2>1
    <3>2. n # 0 => 1 \in 1 .. n /\ r[2] = q[1]
      BY <1>6
    <3>3. n # 0 => 1 # n + 1
      OBVIOUS
    <3> HIDE DEF r
    <3> QED
      BY <1>1, <2>1, <3>1, <3>2, <3>3
  <2>2. CASE i # 1
    <3>1. i - 1 \in 1 .. n /\ r[i] = q[i - 1] /\ q[i - 1] \in F
      BY <1>2, <1>7, <2>2
    <3>2. m2[r[i]].left = IF i - 1 = n THEN NULL ELSE q[(i - 1) + 1]
      BY <1>1, <3>1
    <3>3. i - 1 # n => i \in 1 .. n /\ r[i + 1] = q[i]
      BY <1>6, <3>1
    <3>4. (i - 1) + 1 = i /\ (i - 1 = n <=> i = n + 1)
      OBVIOUS
    <3> HIDE DEF r
    <3> QED
      BY <3>2, <3>3, <3>4
  <2> QED
    BY <2>1, <2>2
<1>11. n + 1 \in Nat /\ n + 1 # 0
  OBVIOUS
<1> HIDE DEF r
<1>12. Listed(m2, y, F \cup {y}, n + 1, r)
  BY <1>4, <1>8, <1>9, <1>10, <1>11 DEF Listed
<1> QED
  BY <1>3, <1>11, <1>12 DEF IsFree

(* The first node is taken off the list. *)
LEMMA FreePop ==
  ASSUME NEW m, NULL \notin DOMAIN m, NEW x, x # NULL, NEW F, IsFree(m, x, F),
         NEW m2, DOMAIN m2 = DOMAIN m,
         \A z \in F \ {x} : m2[z].left = m[z].left
  PROVE  x \in F /\ x \in DOMAIN m /\ IsFree(m2, m[x].left, F \ {x})
<1>0. PICK n \in Nat : \E q \in [1 .. n -> DOMAIN m] : Listed(m, x, F, n, q)
  BY DEF IsFree
<1>1. PICK q \in [1 .. n -> DOMAIN m] :
        /\ F = {q[i] : i \in 1 .. n}
        /\ \A i, j \in 1 .. n : q[i] = q[j] => i = j
        /\ x = IF n = 0 THEN NULL ELSE q[1]
        /\ \A i \in 1 .. n : m[q[i]].left = IF i = n THEN NULL ELSE q[i + 1]
  BY <1>0 DEF Listed
<1>2. n # 0 /\ n - 1 \in Nat /\ 1 \in 1 .. n /\ x = q[1]
  BY <1>1
<1> DEFINE r == [i \in 1 .. (n - 1) |-> q[i + 1]]
<1>3. \A i \in 1 .. (n - 1) : i + 1 \in 1 .. n /\ i + 1 # 1
  OBVIOUS
<1>4. r \in [1 .. (n - 1) -> DOMAIN m2] /\ \A i \in 1 .. (n - 1) : r[i] = q[i + 1]
  BY <1>3
<1> HIDE DEF r
<1>5. \A i \in 1 .. (n - 1) : r[i] \in F \ {x}
  BY <1>1, <1>2, <1>3, <1>4
<1>6. F \ {x} = {r[i] : i \in 1 .. (n - 1)}
  <2>1. ASSUME NEW z \in F \ {x} PROVE \E i \in 1 .. (n - 1) : z = r[i]
    <3>1. PICK i \in 1 .. n : z = q[i]
      BY <1>1
    <3>2. i # 1
      BY <1>2, <3>1
    <3>3. i - 1 \in 1 .. (n - 1) /\ (i - 1) + 1 = i
      BY <3>2
    <3> QED
      BY <1>4, <3>1, <3>3
  <2> QED
    BY <1>5, <2>1
<1>7. \A i, j \in 1 .. (n - 1) : r[i] = r[j] => i = j
  <2> TAKE i, j \in 1 .. (n - 1)
  <2> HAVE r[i] = r[j]
  <2>1. i + 1 = j + 1
    BY <1>1, <1>3, <1>4
  <2> QED
    BY <2>1
<1>8. m[x].left = IF n - 1 = 0 THEN NULL ELSE r[1]
  <2>1. n # 1 => 1 \in 1 .. (n - 1)
    BY <1>2
  <2>2. m[x].left = IF 1 = n THEN NULL ELSE q[1 + 1]
    BY <1>1, <1>2
  <2>3. n - 1 = 0 <=> 1 = n
    OBVIOUS
  <2> QED
    BY <1>4, <2>1, <2>2, <2>3
<1>9. ASSUME NEW i \in 1 .. (n - 1)
      PROVE  m2[r[i]].left = IF i = n - 1 THEN NULL ELSE r[i + 1]
  <2>1. m2[r[i]].left = m[q[i + 1]].left
    BY <1>4, <1>5
  <2>2. m[q[i + 1]].left = IF i + 1 = n THEN NULL ELSE q[(i + 1) + 1]
    BY <1>1, <1>3
  <2>3. i # n - 1 => i + 1 \in 1 .. (n - 1)
    OBVIOUS
  <2>4. i + 1 = n <=> i = n - 1
    OBVIOUS
  <2> QED
    BY <1>4, <2>1, <2>2, <2>3, <2>4
<1>10. IsFree(m2, m[x].left, F \ {x})
  BY <1>2, <1>4, <1>6, <1>7, <1>8, <1>9 DEF IsFree, Listed
<1> QED
  BY <1>1, <1>2, <1>10

(* If the free list is empty, no node is free. *)
LEMMA FreeEnds ==
  ASSUME NEW m, NULL \notin DOMAIN m, NEW F, IsFree(m, NULL, F)
  PROVE  F = {}
<1>0. PICK n \in Nat : \E q \in [1 .. n -> DOMAIN m] : Listed(m, NULL, F, n, q)
  BY DEF IsFree
<1>1. PICK q \in [1 .. n -> DOMAIN m] :
        F = {q[i] : i \in 1 .. n} /\ NULL = IF n = 0 THEN NULL ELSE q[1]
  BY <1>0 DEF Listed
<1>2. n = 0
  BY <1>1
<1> QED
  BY <1>1, <1>2

-----------------------------------------------------------------------------
(* freestates *)

(* s has the elements of T, each once. *)
Enumerates(s, T) ==
  /\ s \in Seq(T)
  /\ \A y \in T : \E i \in 1 .. Len(s) : s[i] = y
  /\ \A i, j \in 1 .. Len(s) : s[i] = s[j] => i = j

(* Two sets without a common element, one after the other. *)
LEMMA EnumerateBoth ==
  ASSUME NEW T1, NEW T2, T1 \cap T2 = {}, NEW s1, Enumerates(s1, T1), NEW s2, Enumerates(s2, T2)
  PROVE  Enumerates(s1 \o s2, T1 \cup T2)
<1> DEFINE s == s1 \o s2
           a == Len(s1)
           b == Len(s2)
<1>1. s1 \in Seq(T1) /\ s2 \in Seq(T2) /\ a \in Nat /\ b \in Nat
  BY DEF Enumerates
<1>2. s \in Seq(T1 \cup T2) /\ Len(s) = a + b
  BY <1>1
<1>3. \A i \in 1 .. a : i \in 1 .. (a + b) /\ s[i] = s1[i] /\ s[i] \in T1
  BY <1>1
<1>4. \A i \in 1 .. (a + b) : ~ (i \in 1 .. a) => i - a \in 1 .. b
  BY <1>1
<1>5. \A i \in 1 .. (a + b) : ~ (i \in 1 .. a) => s[i] = s2[i - a] /\ s[i] \in T2
  BY <1>1, <1>4
<1>6. \A i \in 1 .. b : i + a \in 1 .. (a + b) /\ s[i + a] = s2[i]
  BY <1>1
<1>7. \A y \in T1 \cup T2 : \E i \in 1 .. (a + b) : s[i] = y
  <2>1. \A y \in T1 : \E i \in 1 .. (a + b) : s[i] = y
    <3> HIDE DEF s
    <3> QED
      BY <1>3 DEF Enumerates
  <2>2. \A y \in T2 : \E i \in 1 .. (a + b) : s[i] = y
    <3> HIDE DEF s
    <3> QED
      BY <1>6 DEF Enumerates
  <2> QED
    BY <2>1, <2>2
<1>8. ASSUME NEW i \in 1 .. (a + b), NEW j \in 1 .. (a + b), s[i] = s[j] PROVE i = j
  <2> HIDE DEF s
  <2>1. CASE i \in 1 .. a /\ j \in 1 .. a
    BY <1>3, <1>8, <2>1 DEF Enumerates
  <2>2. CASE ~ (i \in 1 .. a) /\ ~ (j \in 1 .. a)
    <3>1. i - a \in 1 .. b /\ j - a \in 1 .. b /\ s2[i - a] = s2[j - a]
      BY <1>4, <1>5, <1>8, <2>2
    <3>2. i - a = j - a
      BY <3>1 DEF Enumerates
    <3> QED
      BY <1>1, <3>2
  <2>3. CASE ~ (i \in 1 .. a <=> j \in 1 .. a)
    BY <1>3, <1>5, <1>8, <2>3
  <2> QED
    BY <2>1, <2>2, <2>3
<1> QED
  <2> HIDE DEF s
  <2>1. Enumerates(s, T1 \cup T2)
    BY <1>2, <1>7, <1>8 DEF Enumerates
  <2> QED
    BY <2>1 DEF s

LEMMA EnumerateOne ==
  ASSUME NEW x
  PROVE  Enumerates(<<x>>, {x})
<1>1. <<x>> \in Seq({x}) /\ Len(<<x>>) = 1 /\ <<x>>[1] = x
  OBVIOUS
<1> QED
  BY <1>1 DEF Enumerates

LEMMA EnumerateNone == Enumerates(<< >>, {})
BY DEF Enumerates

(* freestates visits the nodes of the tree and each of them once. *)
LEMMA PostOrderRight ==
  ASSUME IsCacheTree
  PROVE  Enumerates(PostOrder[alldstates], Live)
<1> DEFINE n == Len(mem)
           Orders == [Pointer -> Seq(DOMAIN mem)]
           body == [k \in 1 .. n |-> [post \in Orders |-> Deeper(post)]]
           start == [x \in Pointer |-> << >>]
           Right(k, post) == \A x \in Live \cup {NULL} :
             Cardinality(Tree(mem, x)) =< k => Enumerates(post[x], Tree(mem, x))
           P == [k \in 0 .. n |-> {post \in Orders : Right(k, post)}]
<1>1. n \in Nat /\ IsFiniteSet(DOMAIN mem) /\ Cardinality(DOMAIN mem) = n
  BY DomainFinite
<1>2. \A x : /\ Cardinality(Tree(mem, x)) \in Nat /\ Cardinality(Tree(mem, x)) =< n
             /\ IsFiniteSet(Tree(mem, x))
  BY <1>1, TreeFinite
<1>3. \A x \in Live : x \in DOMAIN mem /\ x \in Tree(mem, x) /\ x # NULL
  BY TreeWithin, TreeSelf DEF Live, IsCacheTree, Linked
<1>4. Live \subseteq Pointer /\ NULL \in Pointer /\ alldstates \in Live \cup {NULL}
  BY TreeWithin, TreeSelf DEF Live, IsCacheTree, Pointer
<1>5. start \in P[0]
  <2>1. start \in Orders
    OBVIOUS
  <2>2. ASSUME NEW x \in Live \cup {NULL}, Cardinality(Tree(mem, x)) =< 0
        PROVE  Enumerates(start[x], Tree(mem, x))
    <3>1. Cardinality(Tree(mem, x)) = 0
      BY <1>2, <2>2
    <3>2. Tree(mem, x) = {}
      BY <1>2, <3>1, FS_EmptySet
    <3>3. start[x] = << >>
      BY <1>4
    <3> QED
      BY <3>2, <3>3, EnumerateNone
  <2>3. Right(0, start)
    BY <2>2
  <2>4. 0 \in 0 .. n
    BY <1>1
  <2> HIDE DEF Right, start, Orders
  <2> QED
    BY <2>1, <2>3, <2>4
<1>6. ASSUME NEW k \in 1 .. n, NEW post \in P[k - 1] PROVE body[k][post] \in P[k]
  <2>1. k - 1 \in 0 .. n /\ k \in 0 .. n /\ k \in Nat
    BY <1>1
  <2>2. post \in Orders /\ Right(k - 1, post)
    <3> HIDE DEF Right, Orders
    <3> QED
      BY <1>6, <2>1
  <2> DEFINE q == Deeper(post)
  <2>3. body[k][post] = q
    <3> HIDE DEF Orders, q
    <3> QED
      BY <2>2 DEF q
  <2>4. q \in Orders
    <3>1. ASSUME NEW x \in Pointer, x # NULL
          PROVE  post[mem[x].left] \o post[mem[x].right] \o <<x>> \in Seq(DOMAIN mem)
      <4>1. x \in DOMAIN mem /\ mem[x].left \in Pointer /\ mem[x].right \in Pointer
        BY <3>1 DEF Pointer, IsCacheTree, Linked
      <4>2. post[mem[x].left] \in Seq(DOMAIN mem) /\ post[mem[x].right] \in Seq(DOMAIN mem)
        BY <2>2, <4>1
      <4>3. <<x>> \in Seq(DOMAIN mem)
        BY <4>1
      <4> QED
        BY <4>2, <4>3
    <3>2. << >> \in Seq(DOMAIN mem)
      OBVIOUS
    <3> QED
      BY <3>1, <3>2 DEF Deeper
  <2>5. ASSUME NEW x \in Live \cup {NULL}, Cardinality(Tree(mem, x)) =< k
        PROVE  Enumerates(q[x], Tree(mem, x))
    <3>1. CASE x = NULL
      <4>1. q[x] = << >> /\ Tree(mem, x) = {}
        BY <1>4, <3>1, TreeOfNull DEF Deeper
      <4> QED
        BY <4>1, EnumerateNone
    <3>2. CASE x # NULL
      <4> DEFINE u == mem[x].left
                 v == mem[x].right
      <4>1. x \in Live /\ x \in DOMAIN mem
        BY <1>3, <3>2
      <4>2. u \in Live \cup {NULL} /\ v \in Live \cup {NULL}
        BY <4>1, TreeDown DEF TreeClosed, Live, IsCacheTree
      <4>3. Cardinality(Tree(mem, u)) < Cardinality(Tree(mem, x))
            /\ Cardinality(Tree(mem, v)) < Cardinality(Tree(mem, x))
        BY <1>1, <4>1, TreeSmaller DEF IsCacheTree, Live
      <4>4. Cardinality(Tree(mem, u)) =< k - 1 /\ Cardinality(Tree(mem, v)) =< k - 1
        BY <1>2, <2>1, <2>5, <4>3
      <4>5. Enumerates(post[u], Tree(mem, u)) /\ Enumerates(post[v], Tree(mem, v))
        BY <2>2, <4>2, <4>4
      <4>6. /\ x \notin Tree(mem, u) /\ x \notin Tree(mem, v)
            /\ Tree(mem, u) \cap Tree(mem, v) = {}
        BY <4>1, PartsApart DEF IsCacheTree, Live
      <4>7. Enumerates(post[u] \o post[v], Tree(mem, u) \cup Tree(mem, v))
        BY <4>5, <4>6, EnumerateBoth
      <4>8. Enumerates((post[u] \o post[v]) \o <<x>>, (Tree(mem, u) \cup Tree(mem, v)) \cup {x})
        BY <4>6, <4>7, EnumerateOne, EnumerateBoth
      <4>9. Tree(mem, x) = (Tree(mem, u) \cup Tree(mem, v)) \cup {x}
        BY <4>1, TreeParts DEF IsCacheTree
      <4>10. q[x] = post[u] \o post[v] \o <<x>>
        BY <1>4, <3>2, <4>1 DEF Deeper
      <4> QED
        BY <4>8, <4>9, <4>10
    <3> QED
      BY <3>1, <3>2
  <2>6. Right(k, q)
    BY <2>5
  <2> HIDE DEF Right, Orders, q
  <2> QED
    BY <2>1, <2>3, <2>4, <2>6
<1>7. Rounds(n, body, start) \in P[n]
  <2> HIDE DEF body, P, n, start
  <2> QED
    BY <1>1, <1>5, <1>6, RoundsKeep
<1>8. PostOrder = Rounds(n, body, start)
  BY DEF PostOrder
<1>9. Right(n, PostOrder)
  <2> HIDE DEF Right, body, start, Orders
  <2> QED
    BY <1>1, <1>7, <1>8
<1> QED
  BY <1>2, <1>4, <1>9 DEF Live

(* After freestates all nodes of the tree are on the free list, in front of *)
(* those that were there, and their lists are untouched.                   *)
LEMMA FreestatesRight ==
  ASSUME IsCacheTree, mem \in Seq(DStates), freelist \in Pointer,
         NEW F, IsFree(mem, freelist, F), F \cap Live = {}
  PROVE  /\ freestates \in Heaps
         /\ Len(freestates.mem) = Len(mem)
         /\ IsFree(freestates.mem, freestates.freelist, F \cup Live)
         /\ \A x \in DOMAIN mem : freestates.mem[x].l = mem[x].l
<1> DEFINE order == PostOrder[alldstates]
           n == Len(order)
           body == [i \in DOMAIN order |-> [k \in Heaps |-> Release(k, order[i])]]
           Done(k) == {order[i] : i \in 1 .. k}
           Right(k, h) == /\ Len(h.mem) = Len(mem)
                          /\ IsFree(h.mem, h.freelist, F \cup Done(k))
                          /\ \A x \in DOMAIN mem : h.mem[x].l = mem[x].l
           P == [k \in 0 .. n |-> {h \in Heaps : Right(k, h)}]
<1>1. Enumerates(order, Live)
  BY PostOrderRight
<1>2. n \in Nat /\ DOMAIN order = 1 .. n /\ \A i \in 1 .. n : order[i] \in Live
  <2> HIDE DEF order
  <2> QED
    BY <1>1 DEF Enumerates
<1>3. Live \subseteq DOMAIN mem /\ DOMAIN mem = 1 .. Len(mem)
  BY TreeWithin DEF Live, IsCacheTree
<1>4. Heap \in P[0]
  <2>1. Heap \in Heaps /\ Heap.mem = mem /\ Heap.freelist = freelist
    BY DEF Heap, Heaps
  <2>2. Done(0) = {} /\ F \cup {} = F
    OBVIOUS
  <2>3. Right(0, Heap)
    BY <2>1, <2>2
  <2>4. 0 \in 0 .. n
    BY <1>2
  <2> HIDE DEF Right, n
  <2> QED
    BY <2>1, <2>3, <2>4
<1>5. ASSUME NEW k \in 1 .. n, NEW h \in P[k - 1] PROVE body[k][h] \in P[k]
  <2>1. k - 1 \in 0 .. n /\ k \in 0 .. n
    BY <1>2
  <2>2. h \in Heaps /\ Right(k - 1, h)
    <3> HIDE DEF Right, n
    <3> QED
      BY <1>5, <2>1
  <2> DEFINE x == order[k]
             r == Release(h, x)
  <2>3. body[k][h] = r
    <3> HIDE DEF order, n
    <3> QED
      BY <1>2, <2>2
  <2>4. x \in Live /\ x \in DOMAIN mem /\ x \in Pointer
    BY <1>2, <1>3 DEF Pointer
  <2>5. h.mem \in Seq(DStates) /\ h.freelist \in Pointer /\ DOMAIN h.mem = DOMAIN mem
    <3>1. h.mem \in Seq(DStates) /\ h.freelist \in Pointer /\ Len(h.mem) = Len(mem)
      BY <2>2 DEF Heaps
    <3> QED
      BY <1>3, <3>1
  <2>6. /\ r.mem = [h.mem EXCEPT ![x].left = h.freelist] /\ r.freelist = x
        /\ r = [mem |-> r.mem, freelist |-> r.freelist]
    BY DEF Release
  <2> HIDE DEF x, r, order, n
  <2>7. h.mem[x] \in DStates
    BY <2>4, <2>5
  <2>8. [h.mem[x] EXCEPT !.left = h.freelist] \in DStates
    BY <2>5, <2>7 DEF DStates
  <2>9. r.mem \in Seq(DStates) /\ Len(r.mem) = Len(h.mem) /\ DOMAIN r.mem = DOMAIN mem
    BY <2>4, <2>5, <2>6, <2>8
  <2>10. r \in Heaps
    BY <2>4, <2>6, <2>9 DEF Heaps
  <2>11. r.mem[x].left = h.freelist /\ r.mem[x].l = h.mem[x].l
    BY <2>4, <2>5, <2>6, <2>7 DEF DStates
  <2>12. \A y \in DOMAIN mem : y # x => r.mem[y] = h.mem[y]
    BY <2>5, <2>6
  <2>13. x \notin F \cup Done(k - 1)
    <3>1. ASSUME NEW i \in 1 .. (k - 1) PROVE order[i] # x
      <4>1. i \in 1 .. n /\ k \in 1 .. n /\ i # k
        BY <1>2
      <4> QED
        BY <1>1, <4>1 DEF Enumerates, x, n
    <3> QED
      BY <2>4, <3>1
  <2>14. Done(k) = Done(k - 1) \cup {x}
    <3>1. \A i \in 1 .. k : i = k \/ i \in 1 .. (k - 1)
      BY <1>2
    <3>2. k \in 1 .. k /\ \A i \in 1 .. (k - 1) : i \in 1 .. k
      BY <1>2
    <3> QED
      BY <3>1, <3>2 DEF x
  <2>15. \A z \in F \cup Done(k - 1) : z \in DOMAIN mem
    <3>1. PICK w \in Nat : \E q \in [1 .. w -> DOMAIN mem] : Listed(mem, freelist, F, w, q)
      BY DEF IsFree
    <3>2. F \subseteq DOMAIN mem
      BY <3>1 DEF Listed
    <3>3. \A i \in 1 .. (k - 1) : i \in 1 .. n
      BY <1>2
    <3> QED
      BY <1>2, <1>3, <3>2, <3>3
  <2>16. IsFree(r.mem, x, (F \cup Done(k - 1)) \cup {x})
    <3>1. IsFree(h.mem, h.freelist, F \cup Done(k - 1))
      BY <2>2
    <3>2. \A z \in F \cup Done(k - 1) : r.mem[z].left = h.mem[z].left
      BY <2>12, <2>13, <2>15
    <3> HIDE DEF Done
    <3> QED
      BY <2>4, <2>5, <2>9, <2>11, <2>13, <3>1, <3>2, FreePush
  <2>17. Right(k, r)
    <3>1. F \cup Done(k) = (F \cup Done(k - 1)) \cup {x}
      BY <2>14
    <3>2. IsFree(r.mem, r.freelist, F \cup Done(k))
      BY <2>6, <2>16, <3>1
    <3>3. \A y \in DOMAIN mem : r.mem[y].l = mem[y].l
      BY <2>2, <2>11, <2>12
    <3>4. Len(r.mem) = Len(mem)
      BY <2>2, <2>9
    <3> QED
      BY <3>2, <3>3, <3>4
  <2> HIDE DEF Right
  <2> QED
    BY <2>1, <2>3, <2>10, <2>17
<1>6. Rounds(n, body, Heap) \in P[n]
  <2> HIDE DEF body, P, n
  <2> QED
    BY <1>2, <1>4, <1>5, RoundsKeep
<1>7. freestates = Rounds(n, body, Heap)
  BY DEF freestates
<1>8. freestates \in Heaps /\ Right(n, freestates)
  <2> HIDE DEF Right, body, n
  <2> QED
    BY <1>2, <1>6, <1>7
<1>9. Done(n) = Live
  <2> HIDE DEF order
  <2> QED
    BY <1>1, <1>2 DEF Enumerates
<1> QED
  BY <1>8, <1>9

-----------------------------------------------------------------------------
(* Lists of NFA states *)

Addresses(nfa) == {NULL} \cup (0 .. Len(nfa))

(* All links of the NFA lead to its states, to matchstate or are NULL. *)
NfaOK(nfa) ==
  nfa \in Seq([c : Labels, out : Addresses(nfa), out1 : Addresses(nfa)])

SplitStates(nfa) == {s \in 1 .. Len(nfa) : nfa[s].c = "Split"}

(* A list of different states, none of them a Split.  An NFA without Splits *)
(* is in one state at a time.                                              *)
ListOK(nfa, l) ==
  /\ l \in Seq(0 .. Len(nfa))
  /\ \A i, j \in 1 .. Len(l) : l[i] = l[j] => i = j
  /\ \A i \in 1 .. Len(l) : l[i] \notin SplitStates(nfa)
  /\ SplitStates(nfa) = {} => Len(l) =< 1

(* In the middle of addstate the states in the list are marked, so that     *)
(* none is added again.                                                    *)
MarkingOK(nfa, m) ==
  /\ m \in Markings
  /\ m.l \in Seq(0 .. Len(nfa)) /\ m.todo \in Seq(Addresses(nfa))
  /\ m.marked \subseteq 0 .. Len(nfa)
  /\ \A i, j \in 1 .. Len(m.l) : m.l[i] = m.l[j] => i = j
  /\ \A i \in 1 .. Len(m.l) : m.l[i] \in m.marked /\ m.l[i] \notin SplitStates(nfa)

(* What the calls still to come can add: two for each Split not yet marked. *)
Pending(nfa, m) == 2 * Cardinality(SplitStates(nfa) \ m.marked) + Len(m.todo)

LEMMA Joined ==
  ASSUME NEW T, NEW p \in Seq(T), NEW q \in Seq(T)
  PROVE  p \o q \in Seq(T) /\ Len(p \o q) = Len(p) + Len(q)
OBVIOUS

LEMMA StateLinks ==
  ASSUME NEW nfa, NfaOK(nfa), NEW s \in 1 .. Len(nfa)
  PROVE  /\ nfa[s].c \in Labels
         /\ nfa[s].out \in Addresses(nfa) /\ nfa[s].out1 \in Addresses(nfa)
<1> DEFINE A == Addresses(nfa)
<1>1. nfa \in Seq([c : Labels, out : A, out1 : A])
  BY DEF NfaOK
<1> HIDE DEF A
<1>2. nfa[s] \in [c : Labels, out : A, out1 : A]
  <2> DEFINE T == [c : Labels, out : A, out1 : A]
  <2> HIDE DEF T
  <2>1. nfa \in Seq(T)
    BY <1>1 DEF T
  <2>2. nfa[s] \in T
    BY <2>1
  <2> QED
    BY <2>2 DEF T
<1>3. nfa[s].c \in Labels /\ nfa[s].out \in A /\ nfa[s].out1 \in A
  BY <1>2
<1> QED
  BY <1>3 DEF A

LEMMA SplitsFinite ==
  ASSUME NEW nfa, NfaOK(nfa), NEW S
  PROVE  /\ IsFiniteSet(SplitStates(nfa) \ S)
         /\ Cardinality(SplitStates(nfa) \ S) \in Nat
         /\ Cardinality(SplitStates(nfa) \ S) \in 0 .. Len(nfa)
<1>1. Len(nfa) \in Nat /\ 1 \in Int /\ Len(nfa) \in Int
  BY DEF NfaOK
<1>2. /\ IsFiniteSet(1 .. Len(nfa))
      /\ Cardinality(1 .. Len(nfa)) = IF 1 > Len(nfa) THEN 0 ELSE Len(nfa) - 1 + 1
  BY <1>1, FS_Interval
<1>3. SplitStates(nfa) \ S \subseteq 1 .. Len(nfa)
  BY DEF SplitStates
<1>4. /\ IsFiniteSet(SplitStates(nfa) \ S)
      /\ Cardinality(SplitStates(nfa) \ S) =< Cardinality(1 .. Len(nfa))
      /\ Cardinality(SplitStates(nfa) \ S) \in Nat
  BY <1>2, <1>3, FS_Subset, FS_CardinalityType
<1> QED
  BY <1>1, <1>2, <1>4

(* A call of addstate keeps the marks right and is one of the calls to     *)
(* come.                                                                   *)
LEMMA VisitKeeps ==
  ASSUME NEW nfa, NfaOK(nfa), NEW m, MarkingOK(nfa, m)
  PROVE  LET v == Visit(nfa, m)
         IN /\ MarkingOK(nfa, v)
            /\ m.todo = << >> => v = m
            /\ m.todo # << >> => Pending(nfa, v) < Pending(nfa, m)
            /\ SplitStates(nfa) = {} => Len(v.l) + Len(v.todo) =< Len(m.l) + Len(m.todo)
<1> DEFINE s == Head(m.todo)
           rest == [m EXCEPT !.todo = Tail(@)]
           marked == [rest EXCEPT !.marked = @ \cup {s}]
           v == Visit(nfa, m)
<1>0. /\ Len(nfa) \in Nat
      /\ m = [l |-> m.l, marked |-> m.marked, todo |-> m.todo]
      /\ m.l \in Seq(Int) /\ m.l \in Seq(0 .. Len(nfa)) /\ Len(m.l) \in Nat
      /\ m.todo \in Seq(Addresses(nfa)) /\ Len(m.todo) \in Nat
      /\ m.marked \subseteq 0 .. Len(nfa)
  BY DEF MarkingOK, Markings, NfaOK
<1>1. CASE m.todo = << >>
  <2>1. v = m
    BY <1>1 DEF Visit
  <2> QED
    BY <1>0, <1>1, <2>1
<1>2. CASE m.todo # << >>
  <2>1. /\ s \in Addresses(nfa) /\ Tail(m.todo) \in Seq(Addresses(nfa))
        /\ Len(Tail(m.todo)) = Len(m.todo) - 1 /\ Len(m.todo) >= 1
    BY <1>0, <1>2
  <2>2. Addresses(nfa) \subseteq Int
    BY <1>0 DEF Addresses, NULL
  <2>3. \A q \in Seq(Addresses(nfa)) : q \in Seq(Int)
    BY <2>2
  <2>4. Cardinality(SplitStates(nfa) \ m.marked) \in Nat
    BY <1>0, SplitsFinite
  <2>5. CASE s = NULL \/ s \in m.marked
    <3>1. v = [l |-> m.l, marked |-> m.marked, todo |-> Tail(m.todo)]
      BY <1>0, <1>2, <2>5 DEF Visit
    <3>2. v.l = m.l /\ v.marked = m.marked /\ v.todo = Tail(m.todo)
      BY <3>1
    <3>3. v \in Markings
      BY <1>0, <2>1, <2>3, <3>1 DEF Markings, MarkingOK
    <3> HIDE DEF v
    <3>4. MarkingOK(nfa, v)
      BY <2>1, <3>2, <3>3 DEF MarkingOK
    <3>5. Pending(nfa, v) < Pending(nfa, m)
      BY <1>0, <2>1, <2>4, <3>2 DEF Pending
    <3> QED
      BY <1>0, <1>2, <2>1, <3>2, <3>4, <3>5 DEF v
  <2>6. CASE s # NULL /\ s \notin m.marked
    <3>1. s \in 0 .. Len(nfa) /\ s \in Int
      BY <1>0, <2>1, <2>6 DEF Addresses
    <3>2. m.marked \cup {s} \subseteq 0 .. Len(nfa) /\ m.marked \cup {s} \in SUBSET Int
      BY <1>0, <3>1
    <3>3. CASE IsSplit(nfa, s)
      <4>1. s \in SplitStates(nfa) /\ s \in 1 .. Len(nfa)
        BY <1>0, <3>1, <3>3 DEF IsSplit, SplitStates, Match
      <4> DEFINE two == <<nfa[s].out, nfa[s].out1>>
      <4>2. v = [l |-> m.l, marked |-> m.marked \cup {s}, todo |-> two \o Tail(m.todo)]
        BY <1>0, <1>2, <2>6, <3>3 DEF Visit
      <4>3. nfa[s].out \in Addresses(nfa) /\ nfa[s].out1 \in Addresses(nfa)
        BY <4>1, StateLinks
      <4>4. two \in Seq(Addresses(nfa)) /\ Len(two) = 2
        BY <4>3
      <4>5. two \o Tail(m.todo) \in Seq(Addresses(nfa))
            /\ Len(two \o Tail(m.todo)) = Len(m.todo) + 1
        <5> HIDE DEF two
        <5>1. /\ two \o Tail(m.todo) \in Seq(Addresses(nfa))
              /\ Len(two \o Tail(m.todo)) = Len(two) + Len(Tail(m.todo))
          BY <2>1, <4>4, Joined
        <5> QED
          BY <1>0, <2>1, <4>4, <5>1
      <4> HIDE DEF two
      <4>6. v.l = m.l /\ v.marked = m.marked \cup {s} /\ v.todo = two \o Tail(m.todo)
        BY <4>2
      <4>7. v \in Markings
        BY <1>0, <2>3, <3>2, <4>2, <4>5 DEF Markings
      <4> HIDE DEF v
      <4>8. MarkingOK(nfa, v)
        BY <3>2, <4>5, <4>6, <4>7 DEF MarkingOK
      <4>9. SplitStates(nfa) \ v.marked = (SplitStates(nfa) \ m.marked) \ {s}
        BY <4>6
      <4>10. Cardinality(SplitStates(nfa) \ v.marked)
               = Cardinality(SplitStates(nfa) \ m.marked) - 1
        <5>1. s \in SplitStates(nfa) \ m.marked /\ IsFiniteSet(SplitStates(nfa) \ m.marked)
          BY <2>6, <4>1, SplitsFinite
        <5> QED
          BY <4>9, <5>1, FS_RemoveElement
      <4>11. Pending(nfa, v) < Pending(nfa, m)
        BY <1>0, <2>4, <4>5, <4>6, <4>10 DEF Pending
      <4> QED
        BY <1>2, <4>1, <4>8, <4>11 DEF v
    <3>4. CASE ~ IsSplit(nfa, s)
      <4>1. v = [l |-> Append(m.l, s), marked |-> m.marked \cup {s}, todo |-> Tail(m.todo)]
        BY <1>0, <1>2, <2>6, <3>4 DEF Visit
      <4>2. v.l = Append(m.l, s) /\ v.marked = m.marked \cup {s} /\ v.todo = Tail(m.todo)
        BY <4>1
      <4>3. /\ v.l \in Seq(0 .. Len(nfa)) /\ v.l \in Seq(Int) /\ Len(v.l) = Len(m.l) + 1
            /\ v.l[Len(m.l) + 1] = s
            /\ \A i \in 1 .. Len(m.l) : v.l[i] = m.l[i]
        BY <1>0, <3>1, <4>2
      <4>4. v \in Markings
        BY <2>1, <2>3, <3>2, <4>1, <4>2, <4>3 DEF Markings
      <4>5. s \notin SplitStates(nfa)
        BY <3>1, <3>4 DEF IsSplit, SplitStates, Match
      <4> HIDE DEF v
      <4>6. \A i \in 1 .. Len(v.l) : i = Len(m.l) + 1 \/ i \in 1 .. Len(m.l)
        BY <1>0, <4>3
      <4>7. \A i \in 1 .. Len(m.l) : m.l[i] # s
        BY <2>6 DEF MarkingOK
      <4>8. ASSUME NEW i \in 1 .. Len(v.l), NEW j \in 1 .. Len(v.l), v.l[i] = v.l[j]
            PROVE  i = j
        <5>1. CASE i \in 1 .. Len(m.l) /\ j \in 1 .. Len(m.l)
          BY <4>3, <4>8, <5>1 DEF MarkingOK
        <5> QED
          BY <4>3, <4>6, <4>7, <4>8, <5>1
      <4>9. \A i \in 1 .. Len(v.l) : v.l[i] \in v.marked /\ v.l[i] \notin SplitStates(nfa)
        BY <4>2, <4>3, <4>5, <4>6 DEF MarkingOK
      <4>10. MarkingOK(nfa, v)
        BY <2>1, <3>2, <4>2, <4>3, <4>4, <4>8, <4>9 DEF MarkingOK
      <4>11. SplitStates(nfa) \ v.marked = SplitStates(nfa) \ m.marked
        BY <4>2, <4>5
      <4>12. Pending(nfa, v) < Pending(nfa, m)
        <5>1. Len(v.todo) = Len(m.todo) - 1
          BY <2>1, <4>2
        <5>2. Cardinality(SplitStates(nfa) \ v.marked) = Cardinality(SplitStates(nfa) \ m.marked)
          BY <4>11
        <5> QED
          BY <1>0, <2>4, <5>1, <5>2 DEF Pending
      <4> QED
        BY <1>0, <1>2, <2>1, <4>2, <4>3, <4>10, <4>12 DEF v
    <3> QED
      BY <3>3, <3>4
  <2> QED
    BY <2>5, <2>6
<1> QED
  BY <1>1, <1>2

(* addstate keeps the list one of different states, and Calls are enough    *)
(* calls for it to come to its end.                                        *)
LEMMA AddstateRight ==
  ASSUME NEW nfa, NfaOK(nfa), NEW m, MarkingOK(nfa, m), NEW s \in Addresses(nfa)
  PROVE  LET r == addstate(nfa, m, s)
         IN /\ MarkingOK(nfa, r) /\ r.todo = << >>
            /\ SplitStates(nfa) = {} => Len(r.l) =< Len(m.l) + 1
<1> DEFINE n == Calls(nfa)
           body == [k \in 1 .. n |-> [x \in Markings |-> Visit(nfa, x)]]
           a == [m EXCEPT !.todo = <<s>>]
           Right(k, x) ==
             /\ MarkingOK(nfa, x)
             /\ x.todo = << >> \/ Pending(nfa, x) + k =< n
             /\ SplitStates(nfa) = {} => Len(x.l) + Len(x.todo) =< Len(m.l) + 1
           P == [k \in 0 .. n |-> {x \in Markings : Right(k, x)}]
<1>1. Len(nfa) \in Nat /\ n \in Nat /\ n = 2 * Len(nfa) + 1
  BY DEF NfaOK, Calls
<1>2. \A x : MarkingOK(nfa, x) => x \in Markings /\ Pending(nfa, x) \in Nat
                                   /\ Len(x.l) \in Nat /\ Len(x.todo) \in Nat
  <2> TAKE x
  <2> HAVE MarkingOK(nfa, x)
  <2>1. Len(x.l) \in Nat /\ Len(x.todo) \in Nat /\ x \in Markings
    BY DEF MarkingOK
  <2>2. Cardinality(SplitStates(nfa) \ x.marked) \in 0 .. Len(nfa)
    BY SplitsFinite
  <2> QED
    BY <1>1, <2>1, <2>2 DEF Pending
<1>3. a \in P[0]
  <2>1. /\ a = [l |-> m.l, marked |-> m.marked, todo |-> <<s>>]
        /\ a.l = m.l /\ a.marked = m.marked /\ a.todo = <<s>>
    BY DEF MarkingOK, Markings
  <2>2. /\ <<s>> \in Seq(Addresses(nfa)) /\ Len(<<s>>) = 1 /\ <<s>> \in Seq(Int)
    <3>1. s \in Int
      BY <1>1 DEF Addresses, NULL
    <3> QED
      BY <3>1
  <2>3. a \in Markings
    BY <2>1, <2>2 DEF MarkingOK, Markings
  <2> HIDE DEF a
  <2>4. MarkingOK(nfa, a)
    BY <2>1, <2>2, <2>3 DEF MarkingOK
  <2>5. Pending(nfa, a) + 0 =< n
    <3>1. Cardinality(SplitStates(nfa) \ a.marked) \in 0 .. Len(nfa)
      BY SplitsFinite
    <3> QED
      BY <1>1, <2>1, <2>2, <3>1 DEF Pending
  <2>6. Len(a.l) + Len(a.todo) =< Len(m.l) + 1
    BY <1>2, <2>1, <2>2
  <2>7. Right(0, a)
    BY <2>4, <2>5, <2>6
  <2>8. 0 \in 0 .. n
    BY <1>1
  <2> HIDE DEF Right, n
  <2> QED
    BY <2>3, <2>7, <2>8
<1>4. ASSUME NEW k \in 1 .. n, NEW x \in P[k - 1] PROVE body[k][x] \in P[k]
  <2>1. k - 1 \in 0 .. n /\ k \in 0 .. n /\ k \in Nat
    BY <1>1
  <2>2. x \in Markings /\ Right(k - 1, x)
    <3> HIDE DEF Right, n
    <3> QED
      BY <1>4, <2>1
  <2> DEFINE v == Visit(nfa, x)
  <2>3. body[k][x] = v
    BY <2>2
  <2>4. /\ MarkingOK(nfa, v)
        /\ x.todo = << >> => v = x
        /\ x.todo # << >> => Pending(nfa, v) < Pending(nfa, x)
        /\ SplitStates(nfa) = {} => Len(v.l) + Len(v.todo) =< Len(x.l) + Len(x.todo)
    BY <2>2, VisitKeeps
  <2> HIDE DEF v
  <2>5. Right(k, v)
    <3>1. v.todo = << >> \/ Pending(nfa, v) + k =< n
      BY <1>1, <1>2, <2>1, <2>2, <2>4
    <3>2. SplitStates(nfa) = {} => Len(v.l) + Len(v.todo) =< Len(m.l) + 1
      <4>1. /\ Len(v.l) \in Nat /\ Len(v.todo) \in Nat
            /\ Len(x.l) \in Nat /\ Len(x.todo) \in Nat /\ Len(m.l) \in Nat
        BY <1>2, <2>2, <2>4
      <4> HAVE SplitStates(nfa) = {}
      <4>2. /\ Len(x.l) + Len(x.todo) =< Len(m.l) + 1
            /\ Len(v.l) + Len(v.todo) =< Len(x.l) + Len(x.todo)
        BY <2>2, <2>4
      <4>3. \A p, q, u, w, z \in Nat : p + q =< u + w /\ u + w =< z + 1 => p + q =< z + 1
        OBVIOUS
      <4> QED
        BY <4>1, <4>2, <4>3, Zenon
    <3> QED
      BY <2>4, <3>1, <3>2
  <2>6. v \in Markings
    BY <1>2, <2>4
  <2> HIDE DEF Right, n
  <2> QED
    BY <2>1, <2>3, <2>5, <2>6
<1>5. Rounds(n, body, a) \in P[n]
  <2> HIDE DEF body, P, n, a
  <2> QED
    BY <1>1, <1>3, <1>4, RoundsKeep
<1> DEFINE r == addstate(nfa, m, s)
<1>6. r = Rounds(n, body, a)
  BY DEF addstate
<1>7. Right(n, r)
  <2> HIDE DEF Right, body, n, a, r
  <2> QED
    BY <1>1, <1>5, <1>6
<1> HIDE DEF r
<1>8. r.todo = << >>
  <2>1. r.todo # << >> => Pending(nfa, r) = 0
    BY <1>1, <1>2, <1>7
  <2>2. r.todo # << >> => Len(r.todo) # 0
    BY <1>7 DEF MarkingOK
  <2>3. Len(r.todo) \in Nat /\ Cardinality(SplitStates(nfa) \ r.marked) \in Nat
    BY <1>2, <1>7, SplitsFinite
  <2> QED
    BY <2>1, <2>2, <2>3 DEF Pending
<1>9. SplitStates(nfa) = {} => Len(r.l) =< Len(m.l) + 1
  <2>1. Len(r.l) \in Nat /\ Len(r.todo) \in Nat /\ Len(m.l) \in Nat
    BY <1>2, <1>7
  <2> HAVE SplitStates(nfa) = {}
  <2>2. Len(r.l) + Len(r.todo) =< Len(m.l) + 1
    BY <1>7
  <2>3. \A p, q, w \in Nat : p + q =< w + 1 => p =< w + 1
    OBVIOUS
  <2> QED
    BY <2>1, <2>2, <2>3, Zenon
<1> QED
  BY <1>7, <1>8, <1>9 DEF r

(* A list fits into Len(nfa) elements: where there is a Split, it leaves    *)
(* the room that matchstate takes.                                         *)
LEMMA ListBound ==
  ASSUME NEW nfa, NfaOK(nfa), Len(nfa) >= 1, NEW l, ListOK(nfa, l)
  PROVE  Len(l) =< Len(nfa)
<1>1. Len(nfa) \in Nat /\ Len(l) \in Nat /\ l \in Seq(0 .. Len(nfa))
  BY DEF NfaOK, ListOK
<1>2. CASE SplitStates(nfa) = {}
  <2>1. Len(l) =< 1
    BY <1>2 DEF ListOK
  <2> QED
    BY <1>1, <2>1
<1>3. CASE SplitStates(nfa) # {}
  <2>1. PICK s \in SplitStates(nfa) : TRUE
    BY <1>3
  <2>2. s \in 0 .. Len(nfa)
    BY <1>1 DEF SplitStates
  <2> DEFINE S == 1 .. Len(l)
             T == (0 .. Len(nfa)) \ {s}
             n == Len(nfa)
  <2>3. IsFiniteSet(S) /\ Cardinality(S) = Len(l)
    <3>0. 1 \in Int /\ Len(l) \in Int
      BY <1>1
    <3>1. /\ IsFiniteSet(1 .. Len(l))
          /\ Cardinality(1 .. Len(l)) = IF 1 > Len(l) THEN 0 ELSE Len(l) - 1 + 1
      BY <3>0, FS_Interval
    <3> QED
      BY <1>1, <3>1
  <2>4. IsFiniteSet(T) /\ Cardinality(T) = n
    <3>1. /\ IsFiniteSet(0 .. n)
          /\ Cardinality(0 .. n) = IF 0 > n THEN 0 ELSE n - 0 + 1
      BY <1>1, FS_Interval
    <3>2. Cardinality(0 .. n) = n + 1
      BY <1>1, <3>1
    <3>3. IsFiniteSet(T) /\ Cardinality(T) = Cardinality(0 .. n) - 1
      BY <2>2, <3>1, FS_RemoveElement
    <3> QED
      BY <1>1, <3>2, <3>3
  <2>5. l \in [S -> T]
    <3>1. \A i \in S : l[i] \in 0 .. Len(nfa) /\ l[i] # s
      BY <1>1, <2>1 DEF ListOK
    <3>2. DOMAIN l = S /\ l = [i \in DOMAIN l |-> l[i]]
      BY <1>1
    <3> QED
      BY <3>1, <3>2
  <2>6. ASSUME n < Len(l) PROVE FALSE
    <3>1. Cardinality(T) < Cardinality(S)
      BY <2>3, <2>4, <2>6
    <3>2. PICK i, j \in S : i # j /\ l[i] = l[j]
      <4> HIDE DEF S, T
      <4> QED
        BY <2>3, <2>4, <2>5, <3>1, FS_PigeonHole
    <3> QED
      BY <3>2 DEF ListOK
  <2> QED
    BY <1>1, <2>6
<1> QED
  BY <1>2, <1>3

LEMMA EmptyMarking ==
  ASSUME NEW nfa, NfaOK(nfa)
  PROVE  /\ MarkingOK(nfa, EmptyList) /\ EmptyList \in Markings
         /\ EmptyList.todo = << >> /\ Len(EmptyList.l) = 0
<1>1. /\ EmptyList.l = << >> /\ EmptyList.todo = << >> /\ EmptyList.marked = {}
      /\ EmptyList = [l |-> << >>, marked |-> {}, todo |-> << >>]
  BY DEF EmptyList
<1>2. << >> \in Seq(Int) /\ Len(<< >>) = 0 /\ << >> \in Seq(0 .. Len(nfa))
      /\ << >> \in Seq(Addresses(nfa))
  OBVIOUS
<1>3. EmptyList \in Markings
  BY <1>1, <1>2 DEF Markings
<1> QED
  BY <1>1, <1>2, <1>3 DEF MarkingOK

(* What a marking that is at its end holds is a list. *)
LEMMA MarkingList ==
  ASSUME NEW nfa, NEW m, MarkingOK(nfa, m), SplitStates(nfa) = {} => Len(m.l) =< 1
  PROVE  ListOK(nfa, m.l)
BY DEF MarkingOK, ListOK

(* startlist returns a list without repetitions. *)
LEMMA StartlistRight ==
  ASSUME NEW nfa, NfaOK(nfa), NEW s \in Addresses(nfa)
  PROVE  ListOK(nfa, startlist(nfa, s))
<1> DEFINE r == addstate(nfa, EmptyList, s)
<1>1. MarkingOK(nfa, r) /\ (SplitStates(nfa) = {} => Len(r.l) =< Len(EmptyList.l) + 1)
  BY EmptyMarking, AddstateRight
<1> HIDE DEF r
<1>2. SplitStates(nfa) = {} => Len(r.l) =< 1
  BY <1>1, EmptyMarking
<1>3. ListOK(nfa, r.l)
  BY <1>1, <1>2, MarkingList
<1> QED
  BY <1>3 DEF startlist, r

(* So does step, from any such list. *)
LEMMA StepRight ==
  ASSUME NEW nfa, NfaOK(nfa), NEW l, ListOK(nfa, l), NEW c
  PROVE  ListOK(nfa, step(nfa, l, c))
<1> DEFINE n == Len(l)
           body == [i \in DOMAIN l |-> [m \in Markings |-> StepState(nfa, m, l[i], c)]]
           Right(k, m) ==
             /\ MarkingOK(nfa, m) /\ m.todo = << >>
             /\ SplitStates(nfa) = {} => Len(m.l) =< k
           P == [k \in 0 .. n |-> {m \in Markings : Right(k, m)}]
<1>1. n \in Nat /\ l \in Seq(0 .. Len(nfa)) /\ DOMAIN l = 1 .. n /\ Len(nfa) \in Nat
  BY DEF ListOK, NfaOK
<1>2. EmptyList \in P[0]
  <2>1. Right(0, EmptyList) /\ EmptyList \in Markings
    BY EmptyMarking
  <2>2. 0 \in 0 .. n
    BY <1>1
  <2> HIDE DEF Right, n
  <2> QED
    BY <2>1, <2>2
<1>3. ASSUME NEW k \in 1 .. n, NEW m \in P[k - 1] PROVE body[k][m] \in P[k]
  <2>1. k - 1 \in 0 .. n /\ k \in 0 .. n /\ k \in Nat /\ k \in DOMAIN l
    BY <1>1
  <2>2. m \in Markings /\ Right(k - 1, m)
    <3> HIDE DEF Right, n
    <3> QED
      BY <1>3, <2>1
  <2> DEFINE v == StepState(nfa, m, l[k], c)
  <2>3. body[k][m] = v
    BY <2>1, <2>2
  <2>4. Right(k, v)
    <3>1. CASE l[k] # Match /\ SameChar(nfa[l[k]].c, c)
      <4>1. l[k] \in 1 .. Len(nfa)
        <5>1. l[k] \in 0 .. Len(nfa)
          BY <1>1, <2>1
        <5> QED
          BY <1>1, <3>1, <5>1 DEF Match
      <4>2. nfa[l[k]].out \in Addresses(nfa)
        BY <4>1, StateLinks
      <4>3. v = addstate(nfa, m, nfa[l[k]].out)
        BY <3>1 DEF StepState
      <4>4. /\ MarkingOK(nfa, v) /\ v.todo = << >>
            /\ SplitStates(nfa) = {} => Len(v.l) =< Len(m.l) + 1
        BY <2>2, <4>2, <4>3, AddstateRight
      <4>5. Len(v.l) \in Nat /\ Len(m.l) \in Nat
        BY <2>2, <4>4 DEF MarkingOK
      <4> HIDE DEF v
      <4>6. SplitStates(nfa) = {} => Len(v.l) =< k
        <5> HAVE SplitStates(nfa) = {}
        <5>1. Len(v.l) =< Len(m.l) + 1 /\ Len(m.l) =< k - 1
          BY <2>2, <4>4
        <5>2. \A p, q, z \in Nat : p =< q + 1 /\ q =< z - 1 => p =< z
          OBVIOUS
        <5> QED
          BY <2>1, <4>5, <5>1, <5>2
      <4> QED
        BY <4>4, <4>6
    <3>2. CASE ~(l[k] # Match /\ SameChar(nfa[l[k]].c, c))
      <4>1. v = m
        BY <3>2 DEF StepState
      <4>2. Len(m.l) \in Nat
        BY <2>2 DEF MarkingOK
      <4>3. SplitStates(nfa) = {} => Len(m.l) =< k
        <5> HAVE SplitStates(nfa) = {}
        <5>1. Len(m.l) =< k - 1
          BY <2>2
        <5>2. \A q, z \in Nat : q =< z - 1 => q =< z
          OBVIOUS
        <5> QED
          BY <2>1, <4>2, <5>1, <5>2
      <4> HIDE DEF v
      <4> QED
        BY <2>2, <4>1, <4>3
    <3> QED
      BY <3>1, <3>2
  <2>5. v \in Markings
    <3> HIDE DEF v
    <3> QED
      BY <2>4 DEF MarkingOK
  <2> HIDE DEF v, Right, n
  <2> QED
    BY <2>1, <2>3, <2>4, <2>5
<1>4. Rounds(n, body, EmptyList) \in P[n]
  <2> HIDE DEF body, P, n
  <2> QED
    BY <1>1, <1>2, <1>3, RoundsKeep
<1> DEFINE r == Rounds(n, body, EmptyList)
<1>5. Right(n, r)
  <2> HIDE DEF Right, body, n
  <2> QED
    BY <1>1, <1>4
<1> HIDE DEF r
<1>6. SplitStates(nfa) = {} => Len(r.l) =< 1
  <2> HAVE SplitStates(nfa) = {}
  <2>1. Len(r.l) =< Len(l) /\ Len(l) =< 1 /\ Len(r.l) \in Nat
    BY <1>5 DEF ListOK, MarkingOK
  <2>2. \A p, q \in Nat : p =< q /\ q =< 1 => p =< 1
    OBVIOUS
  <2> QED
    BY <1>1, <2>1, <2>2
<1>7. ListOK(nfa, r.l)
  BY <1>5, <1>6, MarkingList
<1> QED
  BY <1>7 DEF step, r

-----------------------------------------------------------------------------
(* The compiler *)

LEMMA WordParts ==
  ASSUME NEW n \in Nat
  PROVE  Dots(n) \in Seq(Labels) /\ Bars(n) \in Seq(Labels)
<1>0. "|" \in Labels /\ "." \in Labels
  BY DEF Labels, Operators
<1>1. Bars(n) \in [1 .. n -> Labels]
  BY <1>0, Zenon DEF Bars
<1>2. n > 1 => n - 1 \in Nat /\ Dots(n) \in [1 .. n - 1 -> Labels]
  <2> HAVE n > 1
  <2>1. Dots(n) = [i \in 1 .. n - 1 |-> "."]
    BY DEF Dots
  <2>2. Dots(n) \in [1 .. n - 1 -> Labels]
    BY <1>0, <2>1, Zenon
  <2> QED
    BY <2>2
<1>3. ~(n > 1) => Dots(n) = << >>
  BY DEF Dots
<1>4. \A k \in Nat : \A f \in [1 .. k -> Labels] : f \in Seq(Labels)
  OBVIOUS
<1>5. << >> \in Seq(Labels)
  OBVIOUS
<1> QED
  BY <1>1, <1>2, <1>3, <1>4, <1>5, Zenon

(* A round of re2post keeps its variables in their types: natom and nalt   *)
(* are never negative.                                                     *)
LEMMA PostCharKeeps ==
  ASSUME NEW p \in Posts, NEW c \in Labels
  PROVE  PostChar(p, c) \in Posts
<1>1. /\ p = [dst |-> p.dst, nalt |-> p.nalt, natom |-> p.natom, paren |-> p.paren, ok |-> p.ok]
      /\ p.dst \in Seq(Labels) /\ p.nalt \in Nat /\ p.natom \in Nat
      /\ p.paren \in Seq(Nat \X Nat) /\ p.ok \in BOOLEAN
  BY DEF Posts
<1>2. \A dst \in Seq(Labels), nalt, natom \in Nat, paren \in Seq(Nat \X Nat), ok \in BOOLEAN :
        [dst |-> dst, nalt |-> nalt, natom |-> natom, paren |-> paren, ok |-> ok] \in Posts
  BY DEF Posts
<1>3. \A n \in Nat : Dots(n) \in Seq(Labels) /\ Bars(n) \in Seq(Labels)
  BY WordParts
<1>1a. p.nalt \in Nat /\ p.natom \in Nat /\ p.paren \in Seq(Nat \X Nat) /\ p.ok \in BOOLEAN
  BY <1>1
<1>4. Bad(p) \in Posts
  BY DEF Bad, Posts
<1> DEFINE j == JoinAtoms(p)
<1>5. /\ j = [dst |-> j.dst, nalt |-> p.nalt, natom |-> j.natom, paren |-> p.paren, ok |-> p.ok]
      /\ j.dst \in Seq(Labels) /\ j.natom \in Nat /\ j.nalt = p.nalt /\ j.paren = p.paren
      /\ j.ok = p.ok
  <2>1. CASE p.natom > 1
    <3>1. j = [dst |-> Append(p.dst, "."), nalt |-> p.nalt, natom |-> p.natom - 1,
               paren |-> p.paren, ok |-> p.ok]
      BY <1>1, <2>1 DEF JoinAtoms
    <3>2. Append(p.dst, ".") \in Seq(Labels) /\ p.natom - 1 \in Nat
      <4>1. "." \in Labels
        BY DEF Labels, Operators
      <4> QED
        BY <1>1, <2>1, <4>1
    <3> HIDE DEF j
    <3> QED
      BY <3>1, <3>2
  <2>2. CASE ~(p.natom > 1)
    <3>1. j = p
      BY <2>2 DEF JoinAtoms
    <3> HIDE DEF j
    <3> QED
      BY <1>1, <3>1
  <2> QED
    BY <2>1, <2>2
<1>5a. j.dst \in Seq(Labels) /\ j.natom \in Nat
  BY <1>5
<1>6. CASE ~ p.ok
  BY <1>6 DEF PostChar
<1>7a. CASE p.ok /\ c = "(" /\ Len(p.paren) >= ParenSize
  <2>1. PostChar(p, c) = Bad(j)
    BY <1>7a DEF PostChar
  <2>2. Bad(j) = [j EXCEPT !.ok = FALSE]
    BY DEF Bad
  <2> HIDE DEF j
  <2>3. Bad(j) = [dst |-> j.dst, nalt |-> p.nalt, natom |-> j.natom, paren |-> p.paren, ok |-> FALSE]
    BY <1>5, <2>2
  <2> QED
    BY <1>1a, <1>2, <1>5a, <2>1, <2>3, FALSE \in BOOLEAN, Zenon
<1>7. CASE p.ok /\ c = "(" /\ ~(Len(p.paren) >= ParenSize)
  <2>1. PostChar(p, c) = [dst |-> j.dst, nalt |-> 0, natom |-> 0,
                          paren |-> Append(p.paren, <<p.nalt, j.natom>>), ok |-> p.ok]
    <3>1. PostChar(p, c) = [j EXCEPT !.paren = Append(@, <<j.nalt, j.natom>>), !.nalt = 0, !.natom = 0]
      BY <1>7 DEF PostChar
    <3> HIDE DEF j
    <3> QED
      BY <1>5, <3>1
  <2>2. Append(p.paren, <<p.nalt, j.natom>>) \in Seq(Nat \X Nat)
    <3>1. <<p.nalt, j.natom>> \in Nat \X Nat
      BY <1>1, <1>5
    <3> DEFINE T == Nat \X Nat
    <3> HIDE DEF T
    <3>2. p.paren \in Seq(T) /\ <<p.nalt, j.natom>> \in T
      BY <1>1, <3>1 DEF T
    <3>3. Append(p.paren, <<p.nalt, j.natom>>) \in Seq(T)
      BY <3>2
    <3> QED
      BY <3>3 DEF T
  <2> HIDE DEF j
  <2> QED
    BY <1>1a, <1>2, <1>5a, <2>1, <2>2, 0 \in Nat, Zenon
<1>8. CASE p.ok /\ c = "|"
  <2>1. CASE p.natom = 0
    BY <1>4, <1>8, <2>1 DEF PostChar
  <2>2. CASE p.natom # 0
    <3>1. PostChar(p, c) = [p EXCEPT !.dst = @ \o Dots(p.natom), !.natom = 0, !.nalt = @ + 1]
      BY <1>8, <2>2 DEF PostChar
    <3>2. PostChar(p, c) = [dst |-> p.dst \o Dots(p.natom), nalt |-> p.nalt + 1, natom |-> 0,
                            paren |-> p.paren, ok |-> p.ok]
      BY <1>1, <3>1
    <3>3. p.dst \o Dots(p.natom) \in Seq(Labels) /\ p.nalt + 1 \in Nat
      BY <1>1, <1>3, Joined
    <3> QED
      BY <1>1, <1>2, <3>2, <3>3
  <2> QED
    BY <2>1, <2>2
<1>9. CASE p.ok /\ c = ")"
  <2>1. CASE ~ CanClose(p)
    BY <1>4, <1>9, <2>1 DEF PostChar
  <2>2. CASE CanClose(p)
    <3>1. PostChar(p, c)
            = [p EXCEPT !.dst = @ \o Dots(p.natom) \o Bars(p.nalt),
                        !.nalt = Last(p.paren)[1], !.natom = Last(p.paren)[2] + 1,
                        !.paren = Front(@)]
      BY <1>9, <2>2 DEF PostChar
    <3>2. PostChar(p, c) = [dst |-> p.dst \o Dots(p.natom) \o Bars(p.nalt),
                            nalt |-> Last(p.paren)[1], natom |-> Last(p.paren)[2] + 1,
                            paren |-> Front(p.paren), ok |-> p.ok]
      BY <1>1, <3>1
    <3>3. p.dst \o Dots(p.natom) \o Bars(p.nalt) \in Seq(Labels)
      <4>1. p.dst \o Dots(p.natom) \in Seq(Labels)
        BY <1>1, <1>3, Joined
      <4> QED
        BY <1>1, <1>3, <4>1, Joined
    <3>4. Last(p.paren) \in Nat \X Nat /\ Front(p.paren) \in Seq(Nat \X Nat)
      <4> DEFINE T == Nat \X Nat
      <4> HIDE DEF T
      <4>1. p.paren \in Seq(T) /\ p.paren # << >>
        BY <1>1, <2>2 DEF T, CanClose
      <4>2. Last(p.paren) \in T /\ Front(p.paren) \in Seq(T)
        BY <4>1 DEF Last, Front
      <4> QED
        BY <4>2 DEF T
    <3>5. Last(p.paren)[1] \in Nat /\ Last(p.paren)[2] + 1 \in Nat
      BY <3>4
    <3> QED
      <4> DEFINE x == p.dst \o Dots(p.natom) \o Bars(p.nalt)
                 y == Last(p.paren)[1]
                 z == Last(p.paren)[2] + 1
                 q == Front(p.paren)
      <4>1. PostChar(p, c) = [dst |-> x, nalt |-> y, natom |-> z, paren |-> q, ok |-> p.ok]
        BY <3>2
      <4>2. x \in Seq(Labels) /\ y \in Nat /\ z \in Nat /\ q \in Seq(Nat \X Nat)
        BY <3>3, <3>4, <3>5
      <4> HIDE DEF x, y, z, q
      <4> QED
        BY <1>1a, <1>2, <4>1, <4>2, Zenon
  <2> QED
    BY <2>1, <2>2
<1>10. CASE p.ok /\ c \in {"*", "+", "?"}
  <2>1. CASE p.natom = 0
    BY <1>4, <1>10, <2>1 DEF PostChar
  <2>2. CASE p.natom # 0
    <3>1. PostChar(p, c) = [p EXCEPT !.dst = Append(@, c)]
      BY <1>10, <2>2 DEF PostChar
    <3>2. PostChar(p, c) = [dst |-> Append(p.dst, c), nalt |-> p.nalt, natom |-> p.natom,
                            paren |-> p.paren, ok |-> p.ok]
      BY <1>1, <3>1
    <3>3. Append(p.dst, c) \in Seq(Labels)
      BY <1>1
    <3> QED
      BY <1>1, <1>2, <3>2, <3>3
  <2> QED
    BY <2>1, <2>2
<1>11. CASE p.ok /\ c \notin {"(", "|", ")", "*", "+", "?"}
  <2>1. PostChar(p, c) = [j EXCEPT !.dst = Append(@, c), !.natom = @ + 1]
    BY <1>11 DEF PostChar
  <2> HIDE DEF j
  <2>2. PostChar(p, c) = [dst |-> Append(j.dst, c), nalt |-> p.nalt, natom |-> j.natom + 1,
                          paren |-> p.paren, ok |-> p.ok]
    BY <1>5, <2>1
  <2>3. Append(j.dst, c) \in Seq(Labels) /\ j.natom + 1 \in Nat
    BY <1>5
  <2> QED
    BY <1>1, <1>2, <2>2, <2>3
<1> QED
  BY <1>6, <1>7, <1>7a, <1>8, <1>9, <1>10, <1>11

(* Whatever re2post accepts, it makes a postfix string of it. *)
LEMMA Re2postRight ==
  ASSUME NEW s \in Seq(Labels)
  PROVE  re2post(s).post \in Seq(Labels) /\ re2post(s).ok \in BOOLEAN
<1> DEFINE n == Len(s)
           body == [i \in DOMAIN s |-> [p \in Posts |-> PostChar(p, s[i])]]
           a == [dst |-> << >>, nalt |-> 0, natom |-> 0, paren |-> << >>, ok |-> TRUE]
           P == [k \in 0 .. n |-> Posts]
           r == Rounds(n, body, a)
<1>1. n \in Nat /\ DOMAIN s = 1 .. n
  OBVIOUS
<1>2. a \in P[0]
  <2>1. a \in Posts
    BY DEF Posts
  <2>2. 0 \in 0 .. n
    BY <1>1
  <2> HIDE DEF n, a
  <2> QED
    BY <2>1, <2>2
<1>3. ASSUME NEW k \in 1 .. n, NEW p \in P[k - 1] PROVE body[k][p] \in P[k]
  <2>1. k - 1 \in 0 .. n /\ k \in 0 .. n /\ k \in DOMAIN s /\ s[k] \in Labels
    BY <1>1
  <2>2. p \in Posts
    BY <2>1
  <2>3. body[k][p] = PostChar(p, s[k])
    BY <2>1, <2>2
  <2> HIDE DEF n
  <2> QED
    BY <2>1, <2>2, <2>3, PostCharKeeps
<1>4. r \in P[n]
  <2> HIDE DEF body, P, n, a
  <2> QED
    BY <1>1, <1>2, <1>3, RoundsKeep
<1>5. r \in Posts
  <2>1. n \in 0 .. n
    BY <1>1
  <2> HIDE DEF n, r
  <2> QED
    BY <1>4, <2>1
<1>6. re2post(s) = [ok |-> n < BufSize \div 2 /\ r.ok /\ r.paren = << >>,
                    post |-> r.dst \o Dots(r.natom) \o Bars(r.nalt)]
  BY DEF re2post
<1> HIDE DEF r
<1>7. r.dst \in Seq(Labels) /\ r.natom \in Nat /\ r.nalt \in Nat
  BY <1>5 DEF Posts
<1>8. Dots(r.natom) \in Seq(Labels) /\ Bars(r.nalt) \in Seq(Labels)
  BY <1>7, WordParts
<1>9. r.dst \o Dots(r.natom) \o Bars(r.nalt) \in Seq(Labels)
  <2>1. r.dst \o Dots(r.natom) \in Seq(Labels)
    BY <1>7, <1>8, Joined
  <2> QED
    BY <1>8, <2>1, Joined
<1> QED
  BY <1>6, <1>9

Fragments(n) == [start : 1 .. n, out : Seq(Int \X {"out", "out1"})]

BuildOK(b) == b \in Builds /\ NfaOK(b.nfa) /\ b.stack \in Seq(Fragments(Len(b.nfa)))

LEMMA NfaFromStates ==
  ASSUME NEW n \in Nat, NEW f, DOMAIN f = 1 .. n, f = [i \in 1 .. n |-> f[i]],
         \A i \in 1 .. n : /\ f[i] = [c |-> f[i].c, out |-> f[i].out, out1 |-> f[i].out1]
                           /\ f[i].c \in Labels
                           /\ f[i].out \in {NULL} \cup (0 .. n)
                           /\ f[i].out1 \in {NULL} \cup (0 .. n)
  PROVE  NfaOK(f) /\ Len(f) = n
<1> DEFINE A == {NULL} \cup (0 .. n)
           T == [c : Labels, out : A, out1 : A]
<1>1. \A i \in 1 .. n : f[i] \in T
  <2> TAKE i \in 1 .. n
  <2> HIDE DEF A
  <2>1. f[i].c \in Labels /\ f[i].out \in A /\ f[i].out1 \in A
    BY DEF A
  <2>2. [c |-> f[i].c, out |-> f[i].out, out1 |-> f[i].out1] \in T
    BY <2>1
  <2> QED
    BY <2>2, Zenon
<1> HIDE DEF T
<1>2. f \in [1 .. n -> T]
  BY <1>1
<1>3. f \in Seq(T) /\ Len(f) = n
  BY <1>2
<1> QED
  BY <1>3 DEF NfaOK, Addresses, T

LEMMA StateParts ==
  ASSUME NEW nfa, NfaOK(nfa), NEW i \in 1 .. Len(nfa)
  PROVE  /\ nfa[i] = [c |-> nfa[i].c, out |-> nfa[i].out, out1 |-> nfa[i].out1]
         /\ nfa[i].c \in Labels
         /\ nfa[i].out \in Addresses(nfa) /\ nfa[i].out1 \in Addresses(nfa)
<1> DEFINE A == Addresses(nfa)
           T == [c : Labels, out : A, out1 : A]
<1>1. nfa \in Seq(T)
  BY DEF NfaOK
<1> HIDE DEF A
<1>2. nfa[i] \in T
  <2> HIDE DEF T
  <2> QED
    BY <1>1
<1>3. nfa[i] = [c |-> nfa[i].c, out |-> nfa[i].out, out1 |-> nfa[i].out1]
  BY <1>2
<1> QED
  BY <1>3, StateLinks

(* patch adds no state, and fills in links that lead to states. *)
LEMMA PatchRight ==
  ASSUME NEW nfa, NfaOK(nfa), NEW l, NEW s \in Addresses(nfa)
  PROVE  NfaOK(patch(nfa, l, s)) /\ Len(patch(nfa, l, s)) = Len(nfa)
<1> DEFINE n == Len(nfa)
           f == patch(nfa, l, s)
           O(i) == IF \E k \in DOMAIN l : l[k] = <<i, "out">> THEN s ELSE nfa[i].out
           O1(i) == IF \E k \in DOMAIN l : l[k] = <<i, "out1">> THEN s ELSE nfa[i].out1
<1>1. n \in Nat /\ DOMAIN nfa = 1 .. n
  BY DEF NfaOK
<1>2. DOMAIN f = 1 .. n /\ f = [i \in 1 .. n |-> f[i]]
  BY <1>1 DEF patch
<1>3. ASSUME NEW i \in 1 .. n
      PROVE  f[i] = [c |-> nfa[i].c, out |-> O(i), out1 |-> O1(i)]
  <2>1. f[i] = [nfa[i] EXCEPT !.out = O(i), !.out1 = O1(i)]
    BY <1>1 DEF patch
  <2>2. nfa[i] = [c |-> nfa[i].c, out |-> nfa[i].out, out1 |-> nfa[i].out1]
    BY StateParts
  <2> HIDE DEF f, O, O1
  <2> QED
    BY <2>1, <2>2
<1>4. ASSUME NEW i \in 1 .. n
      PROVE  nfa[i].c \in Labels /\ O(i) \in Addresses(nfa) /\ O1(i) \in Addresses(nfa)
  BY StateParts
<1> HIDE DEF f, O, O1
<1>5. \A i \in 1 .. n : /\ f[i] = [c |-> f[i].c, out |-> f[i].out, out1 |-> f[i].out1]
                        /\ f[i].c \in Labels
                        /\ f[i].out \in {NULL} \cup (0 .. n)
                        /\ f[i].out1 \in {NULL} \cup (0 .. n)
  <2> TAKE i \in 1 .. n
  <2>1. f[i] = [c |-> nfa[i].c, out |-> O(i), out1 |-> O1(i)]
    BY <1>3
  <2>2. f[i].c = nfa[i].c /\ f[i].out = O(i) /\ f[i].out1 = O1(i)
    BY <2>1
  <2> QED
    BY <1>4, <2>1, <2>2 DEF Addresses
<1>6. NfaOK(f) /\ Len(f) = n
  <2> HIDE DEF n
  <2> QED
    BY <1>1, <1>2, <1>5, NfaFromStates
<1> QED
  BY <1>6 DEF f

(* state() adds a state whose links are those it was given. *)
LEMMA NewStateRight ==
  ASSUME NEW nfa, NfaOK(nfa), NEW c \in Labels,
         NEW out \in Addresses(nfa), NEW out1 \in Addresses(nfa)
  PROVE  LET new == Append(nfa, state(c, out, out1))
         IN NfaOK(new) /\ Len(new) = Len(nfa) + 1
<1> DEFINE n == Len(nfa) + 1
           f == Append(nfa, state(c, out, out1))
           A == {NULL} \cup (0 .. n)
<1>1. Len(nfa) \in Nat /\ n \in Nat
  BY DEF NfaOK
<1>2. /\ DOMAIN f = 1 .. n /\ f = [i \in 1 .. n |-> f[i]]
      /\ f[n] = state(c, out, out1)
      /\ \A i \in 1 .. Len(nfa) : f[i] = nfa[i]
  <2> DEFINE T == [c : Labels, out : Addresses(nfa), out1 : Addresses(nfa)]
             s == state(c, out, out1)
  <2>1. nfa \in Seq(T)
    BY DEF NfaOK
  <2>2. s \in T
    BY DEF state
  <2> HIDE DEF T, s
  <2>3. /\ DOMAIN f = 1 .. n /\ f = [i \in DOMAIN f |-> f[i]] /\ f[n] = s
        /\ \A i \in 1 .. Len(nfa) : f[i] = nfa[i]
    <3>1. f = Append(nfa, s)
      BY DEF s
    <3> HIDE DEF f
    <3>2. f \in Seq(T) /\ Len(f) = n
      BY <1>1, <2>1, <2>2, <3>1
    <3>3. DOMAIN f = 1 .. n
      BY <3>2
    <3>4. f = [i \in DOMAIN f |-> f[i]]
      BY <3>2
    <3>5. f[n] = s /\ \A i \in 1 .. Len(nfa) : f[i] = nfa[i]
      BY <1>1, <2>1, <2>2, <3>1
    <3> QED
      BY <3>3, <3>4, <3>5
  <2> QED
    BY <2>3 DEF s
<1>3. \A i \in 1 .. n : i = n \/ i \in 1 .. Len(nfa)
  BY <1>1
<1>4. Addresses(nfa) \subseteq A
  BY <1>1 DEF Addresses
<1> HIDE DEF f
<1>5. \A i \in 1 .. n : /\ f[i] = [c |-> f[i].c, out |-> f[i].out, out1 |-> f[i].out1]
                        /\ f[i].c \in Labels /\ f[i].out \in A /\ f[i].out1 \in A
  <2> TAKE i \in 1 .. n
  <2>1. CASE i = n
    <3>1. f[i] = [c |-> c, out |-> out, out1 |-> out1]
      BY <1>2, <2>1 DEF state
    <3>2. f[i].c = c /\ f[i].out = out /\ f[i].out1 = out1
      BY <3>1
    <3> HIDE DEF A
    <3> QED
      BY <1>4, <3>1, <3>2
  <2>2. CASE i \in 1 .. Len(nfa)
    <3>1. f[i] = nfa[i]
      BY <1>2, <2>2
    <3>2. /\ nfa[i] = [c |-> nfa[i].c, out |-> nfa[i].out, out1 |-> nfa[i].out1]
          /\ nfa[i].c \in Labels
          /\ nfa[i].out \in Addresses(nfa) /\ nfa[i].out1 \in Addresses(nfa)
      BY <2>2, StateParts
    <3> HIDE DEF A
    <3> QED
      BY <1>4, <3>1, <3>2
  <2> QED
    BY <1>3, <2>1, <2>2
<1>6. NfaOK(f) /\ Len(f) = n
  <2> HIDE DEF n
  <2> QED
    BY <1>1, <1>2, <1>5, NfaFromStates DEF A
<1> QED
  BY <1>6 DEF f

LEMMA FragmentsGrow ==
  ASSUME NEW n \in Nat, NEW m \in Nat, n =< m, NEW q \in Seq(Fragments(n))
  PROVE  q \in Seq(Fragments(m))
<1>1. Fragments(n) \subseteq Fragments(m)
  <2> DEFINE O == Seq(Int \X {"out", "out1"})
  <2> HIDE DEF O
  <2>1. 1 .. n \subseteq 1 .. m
    OBVIOUS
  <2>2. [start : 1 .. n, out : O] \subseteq [start : 1 .. m, out : O]
    BY <2>1
  <2> QED
    BY <2>2 DEF Fragments, O
<1> QED
  BY <1>1

LEMMA NfaStates ==
  ASSUME NEW nfa, NfaOK(nfa)
  PROVE  nfa \in Seq(States)
<1> DEFINE A == Addresses(nfa)
           T == [c : Labels, out : A, out1 : A]
<1>1. nfa \in Seq(T)
  BY DEF NfaOK
<1>2. A \subseteq Int
  BY DEF Addresses, NULL, NfaOK
<1>3. T \subseteq States
  <2> HIDE DEF A
  <2> QED
    BY <1>2 DEF States
<1> HIDE DEF T
<1> QED
  BY <1>1, <1>3

LEMMA FragmentsFrags ==
  ASSUME NEW n \in Nat, NEW q \in Seq(Fragments(n))
  PROVE  q \in Seq(Frags)
<1>1. Fragments(n) \subseteq Frags
  <2> DEFINE O == Seq(Int \X {"out", "out1"})
  <2> HIDE DEF O
  <2>1. 1 .. n \subseteq Int
    OBVIOUS
  <2>2. [start : 1 .. n, out : O] \subseteq [start : Int, out : O]
    BY <2>1
  <2> QED
    BY <2>2 DEF Fragments, Frags, O
<1> QED
  BY <1>1

(* A round leaves the fragments it does not pop, and pushes one. *)
LEMMA RoundRight ==
  ASSUME NEW b, BuildOK(b), NEW nfa, NfaOK(nfa), Len(nfa) >= Len(b.nfa),
         NEW k \in Nat, k =< Len(b.stack), NEW f \in Fragments(Len(nfa))
  PROVE  BuildOK([b EXCEPT !.nfa = nfa,
                           !.stack = Append(SubSeq(@, 1, Len(@) - k), f)])
<1> DEFINE st == Append(SubSeq(b.stack, 1, Len(b.stack) - k), f)
           r == [b EXCEPT !.nfa = nfa, !.stack = Append(SubSeq(@, 1, Len(@) - k), f)]
<1>1. /\ b = [nfa |-> b.nfa, stack |-> b.stack, ok |-> b.ok] /\ b.ok \in BOOLEAN
      /\ Len(nfa) \in Nat /\ Len(b.nfa) \in Nat
      /\ b.stack \in Seq(Fragments(Len(b.nfa)))
  BY DEF BuildOK, Builds, NfaOK
<1>2. r = [nfa |-> nfa, stack |-> st, ok |-> b.ok]
  <2>1. b = [nfa |-> b.nfa, stack |-> b.stack, ok |-> b.ok]
    BY <1>1
  <2>2. r = [b EXCEPT !.nfa = nfa, !.stack = st]
    BY <2>1
  <2> HIDE DEF st, r
  <2> QED
    BY <2>1, <2>2
<1>3. b.stack \in Seq(Fragments(Len(nfa)))
  BY <1>1, FragmentsGrow
<1>4. st \in Seq(Fragments(Len(nfa)))
  <2> DEFINE T == Fragments(Len(nfa))
  <2>1. b.stack \in Seq(T) /\ f \in T
    BY <1>3
  <2> HIDE DEF T
  <2>2. Len(b.stack) - k \in 0 .. Len(b.stack)
    BY <2>1
  <2>3. SubSeq(b.stack, 1, Len(b.stack) - k) \in Seq(T)
    BY <2>1, <2>2
  <2>4. st \in Seq(T)
    BY <2>1, <2>3
  <2> QED
    BY <2>4 DEF T
<1> HIDE DEF st, r
<1>5. r.nfa = nfa /\ r.stack = st /\ r.ok = b.ok
  BY <1>2
<1>6. nfa \in Seq(States)
  BY NfaStates
<1>7. st \in Seq(Frags)
  BY <1>1, <1>4, FragmentsFrags
<1>8. r \in Builds
  BY <1>1, <1>2, <1>6, <1>7 DEF Builds
<1> QED
  BY <1>4, <1>5, <1>8 DEF BuildOK, r

(* A round of post2nfa leaves no link to a state that does not exist. *)
LEMMA NfaCharKeeps ==
  ASSUME NEW b, BuildOK(b), NEW c \in Labels
  PROVE  BuildOK(NfaChar(b, c))
<1> DEFINE N == Len(b.nfa)
           n == N + 1
           O == Seq(Int \X {"out", "out1"})
           k == Arity(c)
           Result(nfa, f) ==
             [b EXCEPT !.nfa = nfa, !.stack = Append(SubSeq(@, 1, Len(@) - k), f)]
           e == Last(b.stack)
           e1 == b.stack[Len(b.stack) - 1]
<1>1. /\ NfaOK(b.nfa) /\ N \in Nat /\ n \in Nat
      /\ b.stack \in Seq(Fragments(N)) /\ Len(b.stack) \in Nat /\ b \in Builds
  BY DEF BuildOK, NfaOK
<1>2. k \in {0, 1, 2}
  BY DEF Arity
<1> DEFINE outside == Len(b.stack) < k \/ Len(b.stack) - k >= StackSize
<1>3. CASE ~ b.ok \/ outside
  <2> DEFINE r == [b EXCEPT !.ok = FALSE]
  <2>1. NfaChar(b, c) = r
    BY <1>3 DEF NfaChar
  <2>2. r \in Builds
    BY <1>1 DEF Builds
  <2>3. r.nfa = b.nfa /\ r.stack = b.stack
    BY <1>1 DEF Builds
  <2> HIDE DEF r
  <2>4. BuildOK(r)
    BY <1>1, <2>2, <2>3 DEF BuildOK
  <2> QED
    BY <2>1, <2>4
<1>4. CASE b.ok /\ ~ outside
  <2>1. ASSUME NEW nfa, NfaOK(nfa), Len(nfa) = N \/ Len(nfa) = n, NEW f \in Fragments(Len(nfa))
        PROVE  BuildOK(Result(nfa, f))
    <3>1. k \in Nat /\ k =< Len(b.stack) /\ Len(nfa) >= Len(b.nfa)
      BY <1>1, <1>2, <1>4, <2>1
    <3> HIDE DEF k
    <3> QED
      BY <2>1, <3>1, RoundRight
  <2>2. ASSUME NEW m \in Nat, NEW s \in 1 .. m, NEW out \in O
        PROVE  frag(s, out) \in Fragments(m)
    <3> HIDE DEF O
    <3>1. frag(s, out) \in [start : 1 .. m, out : O]
      BY DEF frag
    <3> QED
      BY <3>1 DEF Fragments, O
  <2>3. ASSUME NEW f \in Fragments(N)
        PROVE  /\ f.start \in 1 .. N /\ f.start \in 1 .. n /\ f.out \in O
               /\ f.start \in Addresses(b.nfa)
    <3> HIDE DEF O
    <3>1. f \in [start : 1 .. N, out : O]
      BY DEF Fragments, O
    <3>2. f.start \in 1 .. N /\ f.out \in O
      BY <3>1
    <3> QED
      BY <1>1, <3>2 DEF Addresses
  <2>4. k >= 1 => e \in Fragments(N)
    <3> DEFINE T == Fragments(N)
    <3> HIDE DEF T, k
    <3>1. b.stack \in Seq(T)
      BY <1>1 DEF T
    <3>2. k >= 1 => Len(b.stack) >= 1
      BY <1>1, <1>2, <1>4
    <3>3. k >= 1 => e \in T
      BY <3>1, <3>2 DEF Last
    <3> QED
      BY <3>3 DEF T
  <2>5. k = 2 => e1 \in Fragments(N)
    <3> DEFINE T == Fragments(N)
    <3> HIDE DEF T, k
    <3>1. b.stack \in Seq(T)
      BY <1>1 DEF T
    <3>2. k = 2 => Len(b.stack) - 1 \in 1 .. Len(b.stack)
      BY <1>1, <1>4
    <3>3. k = 2 => e1 \in T
      BY <3>1, <3>2
    <3> QED
      BY <3>3 DEF T
  <2>6. /\ \A x \in {"out", "out1"} : <<n, x>> \in Int \X {"out", "out1"}
        /\ \A x \in {"out", "out1"} : <<<<n, x>>>> \in O
    <3>1. \A x \in {"out", "out1"} : <<n, x>> \in Int \X {"out", "out1"}
      BY <1>1
    <3> DEFINE T == Int \X {"out", "out1"}
    <3>2. \A y \in T : <<y>> \in Seq(T)
      <4> HIDE DEF T
      <4> QED
        OBVIOUS
    <3> QED
      BY <3>1, <3>2
  <2>7. NULL \in Addresses(b.nfa)
    BY DEF Addresses
  <2>8. ASSUME NEW l, NEW x \in Labels, NEW out \in Addresses(b.nfa), NEW out1 \in Addresses(b.nfa)
        PROVE  LET new == Append(b.nfa, state(x, out, out1))
               IN /\ NfaOK(new) /\ Len(new) = n
                  /\ NfaOK(patch(new, l, n)) /\ Len(patch(new, l, n)) = n
    <3> DEFINE new == Append(b.nfa, state(x, out, out1))
    <3>1. NfaOK(new) /\ Len(new) = n
      BY <1>1, NewStateRight
    <3> HIDE DEF new
    <3>2. n \in Addresses(new)
      BY <1>1, <3>1 DEF Addresses
    <3>3. NfaOK(patch(new, l, n)) /\ Len(patch(new, l, n)) = n
      BY <3>1, <3>2, PatchRight
    <3> QED
      BY <3>1, <3>3 DEF new
  <2>9. n \in 1 .. n
    BY <1>1
  <2>10. "Split" \in Labels
    BY DEF Labels
  <2>11. CASE c = "."
    <3>1. k = 2 /\ e \in Fragments(N) /\ e1 \in Fragments(N)
      BY <2>4, <2>5, <2>11 DEF Arity
    <3>2. NfaChar(b, c) = Result(patch(b.nfa, e1.out, e.start), frag(e1.start, e.out))
      BY <1>4, <2>11 DEF NfaChar
    <3> HIDE DEF e, e1, Result, O, k
    <3>3. /\ NfaOK(patch(b.nfa, e1.out, e.start)) /\ Len(patch(b.nfa, e1.out, e.start)) = N
      BY <1>1, <2>3, <3>1, PatchRight
    <3>4. frag(e1.start, e.out) \in Fragments(N)
      BY <1>1, <2>2, <2>3, <3>1
    <3> QED
      BY <2>1, <3>2, <3>3, <3>4
  <2>12. CASE c = "|"
    <3>1. k = 2 /\ e \in Fragments(N) /\ e1 \in Fragments(N)
      BY <2>4, <2>5, <2>12 DEF Arity
    <3> DEFINE new == Append(b.nfa, state("Split", e1.start, e.start))
    <3>2. NfaChar(b, c) = Result(new, frag(n, e1.out \o e.out))
      BY <1>4, <2>12 DEF NfaChar
    <3>3. e1.out \o e.out \in O
      BY <2>3, <3>1, Joined
    <3>4. NfaOK(new) /\ Len(new) = n
      BY <2>3, <2>8, <2>10, <3>1
    <3> HIDE DEF e, e1, Result, O, k, new
    <3>5. frag(n, e1.out \o e.out) \in Fragments(n)
      BY <1>1, <2>2, <2>9, <3>3
    <3> QED
      BY <2>1, <3>2, <3>4, <3>5
  <2>13. CASE c = "?"
    <3>1. k = 1 /\ e \in Fragments(N)
      BY <2>4, <2>13 DEF Arity
    <3> DEFINE new == Append(b.nfa, state("Split", e.start, NULL))
    <3>2. NfaChar(b, c) = Result(new, frag(n, Append(e.out, <<n, "out1">>)))
      BY <1>4, <2>13 DEF NfaChar
    <3>3. Append(e.out, <<n, "out1">>) \in O
      <4> DEFINE T == Int \X {"out", "out1"}
      <4>1. e.out \in Seq(T) /\ <<n, "out1">> \in T
        BY <2>3, <2>6, <3>1
      <4> HIDE DEF T
      <4>2. Append(e.out, <<n, "out1">>) \in Seq(T)
        BY <4>1
      <4> QED
        BY <4>2 DEF T
    <3>4. NfaOK(new) /\ Len(new) = n
      BY <2>3, <2>7, <2>8, <2>10, <3>1
    <3> HIDE DEF e, e1, Result, O, k, new
    <3>5. frag(n, Append(e.out, <<n, "out1">>)) \in Fragments(n)
      BY <1>1, <2>2, <2>9, <3>3
    <3> QED
      BY <2>1, <3>2, <3>4, <3>5
  <2>14. CASE c \in {"*", "+"}
    <3>1. k = 1 /\ e \in Fragments(N)
      BY <2>4, <2>14 DEF Arity
    <3> DEFINE new == Append(b.nfa, state("Split", e.start, NULL))
               p == patch(new, e.out, n)
               start == IF c = "*" THEN n ELSE e.start
    <3>2. NfaChar(b, c) = Result(p, frag(start, <<<<n, "out1">>>>))
      BY <1>4, <2>14 DEF NfaChar
    <3>3. NfaOK(p) /\ Len(p) = n
      BY <2>3, <2>7, <2>8, <2>10, <3>1
    <3>4. start \in 1 .. n
      BY <2>3, <2>9, <3>1
    <3> HIDE DEF e, e1, Result, O, k, new, p, start
    <3>5. frag(start, <<<<n, "out1">>>>) \in Fragments(n)
      BY <1>1, <2>2, <2>6, <3>4
    <3> QED
      BY <2>1, <3>2, <3>3, <3>5
  <2>15. CASE c \notin {".", "|", "?", "*", "+"}
    <3> DEFINE new == Append(b.nfa, state(c, NULL, NULL))
    <3>2. NfaChar(b, c) = Result(new, frag(n, <<<<n, "out">>>>))
      BY <1>4, <2>15 DEF NfaChar
    <3>3. NfaOK(new) /\ Len(new) = n
      BY <2>7, <2>8
    <3> HIDE DEF e, e1, Result, O, k, new
    <3>4. frag(n, <<<<n, "out">>>>) \in Fragments(n)
      BY <1>1, <2>2, <2>6, <2>9
    <3> QED
      BY <2>1, <3>2, <3>3, <3>4
  <2> QED
    BY <2>11, <2>12, <2>13, <2>14, <2>15
<1> QED
  BY <1>3, <1>4

(* The NFA that main works with. *)
LEMMA Post2nfaRight ==
  ASSUME NEW s \in Seq(Labels), post2nfa(s).ok
  PROVE  /\ NfaOK(post2nfa(s).nfa)
         /\ post2nfa(s).start \in 1 .. Len(post2nfa(s).nfa)
<1> DEFINE n == Len(s)
           body == [i \in DOMAIN s |-> [b \in Builds |-> NfaChar(b, s[i])]]
           a == [nfa |-> << >>, stack |-> << >>, ok |-> TRUE]
           P == [k \in 0 .. n |-> {b \in Builds : BuildOK(b)}]
           r == Rounds(n, body, a)
<1>1. n \in Nat /\ DOMAIN s = 1 .. n
  OBVIOUS
<1>2. a \in P[0]
  <2>1. /\ a \in Builds /\ a.nfa = << >> /\ a.stack = << >>
    BY DEF Builds
  <2>2. << >> \in Seq([c : Labels, out : Addresses(<< >>), out1 : Addresses(<< >>)])
    OBVIOUS
  <2>3. << >> \in Seq(Fragments(Len(<< >>)))
    OBVIOUS
  <2>4. BuildOK(a)
    <3> HIDE DEF a
    <3> QED
      BY <2>1, <2>2, <2>3 DEF BuildOK, NfaOK
  <2>5. 0 \in 0 .. n
    BY <1>1
  <2> HIDE DEF n, a
  <2> QED
    BY <2>1, <2>4, <2>5
<1>3. ASSUME NEW k \in 1 .. n, NEW b \in P[k - 1] PROVE body[k][b] \in P[k]
  <2>1. k - 1 \in 0 .. n /\ k \in 0 .. n /\ k \in DOMAIN s /\ s[k] \in Labels
    BY <1>1
  <2>2. b \in Builds /\ BuildOK(b)
    BY <2>1
  <2>3. body[k][b] = NfaChar(b, s[k])
    BY <2>1, <2>2
  <2>4. BuildOK(NfaChar(b, s[k]))
    BY <2>1, <2>2, NfaCharKeeps
  <2>5. NfaChar(b, s[k]) \in Builds
    BY <2>4 DEF BuildOK
  <2> HIDE DEF n
  <2> QED
    BY <2>1, <2>3, <2>4, <2>5
<1>4. r \in P[n]
  <2> HIDE DEF body, P, n, a
  <2> QED
    BY <1>1, <1>2, <1>3, RoundsKeep
<1>5. BuildOK(r)
  <2>1. n \in 0 .. n
    BY <1>1
  <2> HIDE DEF n, r
  <2> QED
    BY <1>4, <2>1
<1> DEFINE e == Last(r.stack)
<1>6. post2nfa(s) = IF r.ok /\ Len(r.stack) = 1
                    THEN [ok |-> TRUE, nfa |-> patch(r.nfa, e.out, Match), start |-> e.start]
                    ELSE [ok |-> FALSE, nfa |-> << >>, start |-> NULL]
  BY DEF post2nfa
<1> HIDE DEF r
<1>7. Len(r.stack) = 1
  BY <1>6
<1>8. post2nfa(s).nfa = patch(r.nfa, e.out, Match) /\ post2nfa(s).start = e.start
  BY <1>6
<1>9. NfaOK(r.nfa) /\ Len(r.nfa) \in Nat
  BY <1>5 DEF BuildOK, NfaOK
<1>10. e.start \in 1 .. Len(r.nfa)
  <2> DEFINE T == Fragments(Len(r.nfa))
  <2> HIDE DEF T
  <2>1. r.stack \in Seq(T)
    BY <1>5 DEF BuildOK, T
  <2>2. e \in T
    BY <1>7, <2>1 DEF Last
  <2> HIDE DEF e
  <2> QED
    BY <2>2 DEF T, Fragments
<1>11. Match \in Addresses(r.nfa)
  BY <1>9 DEF Addresses, Match
<1>12. /\ NfaOK(patch(r.nfa, e.out, Match))
       /\ Len(patch(r.nfa, e.out, Match)) = Len(r.nfa)
  BY <1>9, <1>11, PatchRight
<1> QED
  BY <1>8, <1>10, <1>12

-----------------------------------------------------------------------------
(* The cache as a whole *)

(* DStates of a memory of k nodes. *)
Nodes(k) ==
  [l : Seq(Int), next : [Alphabet -> {NULL} \cup (1 .. k)],
   left : {NULL} \cup (1 .. k), right : {NULL} \cup (1 .. k)]

(* Every transition of the tree leads to the node in it that step leads to. *)
Transitions(nfa, m, r) ==
  \A x \in Tree(m, r) : \A c \in Alphabet :
    m[x].next[c] # NULL => /\ m[x].next[c] \in Tree(m, r)
                           /\ m[m[x].next[c]].l = step(nfa, m[x].l, c)

(* Memory m, with the tree of n nodes below r and the free list from fl. *)
CacheOK(nfa, m, r, fl, n) ==
  /\ m \in Seq(Nodes(Len(m))) /\ r \in {NULL} \cup (1 .. Len(m))
  /\ \A x \in 1 .. Len(m) : ListOK(nfa, m[x].l)
  /\ SearchTree(m, r) /\ OneParent(m, r)
  /\ IsFree(m, fl, DOMAIN m \ Tree(m, r))
  /\ n = Cardinality(Tree(m, r)) /\ n =< maxstates
  /\ Transitions(nfa, m, r)

(* The inductive invariant. *)
CacheInv ==
  /\ re \in Regexps /\ phase \in {"compile", "bad", "undefined", "ready", "match"}
  /\ text \in Seq(Alphabet)
  /\ phase \in {"ready", "match"} =>
       /\ NfaOK(prog.nfa) /\ prog.start \in 1 .. Len(prog.nfa)
       /\ CacheOK(prog.nfa, mem, alldstates, freelist, nstates)
  /\ phase \notin {"ready", "match"} =>
       mem = << >> /\ alldstates = NULL /\ freelist = NULL /\ nstates = 0
  /\ phase = "match" => d \in Live
  /\ phase # "match" => d = NULL

(* What the type of the memory says of each node. *)
LEMMA MemoryFacts ==
  ASSUME NEW m, m \in Seq(Nodes(Len(m)))
  PROVE  /\ Len(m) \in Nat /\ DOMAIN m = 1 .. Len(m) /\ NULL \notin DOMAIN m
         /\ Linked(m) /\ Lists(m) /\ IsFiniteSet(DOMAIN m)
         /\ \A x \in DOMAIN m :
              /\ m[x] = [l |-> m[x].l, next |-> m[x].next, left |-> m[x].left, right |-> m[x].right]
              /\ m[x].l \in Seq(Int)
              /\ m[x].next \in [Alphabet -> {NULL} \cup (1 .. Len(m))]
              /\ m[x].left \in {NULL} \cup (1 .. Len(m))
              /\ m[x].right \in {NULL} \cup (1 .. Len(m))
<1>1. Len(m) \in Nat /\ DOMAIN m = 1 .. Len(m) /\ 1 \in Int /\ Len(m) \in Int
  <2> DEFINE T == Nodes(Len(m))
  <2> HIDE DEF T
  <2>1. m \in Seq(T)
    BY DEF T
  <2> QED
    BY <2>1
<1>2. NULL \notin DOMAIN m
  BY <1>1 DEF NULL
<1>3. ASSUME NEW x \in DOMAIN m
      PROVE  /\ m[x] = [l |-> m[x].l, next |-> m[x].next, left |-> m[x].left, right |-> m[x].right]
             /\ m[x].l \in Seq(Int)
             /\ m[x].next \in [Alphabet -> {NULL} \cup (1 .. Len(m))]
             /\ m[x].left \in {NULL} \cup (1 .. Len(m))
             /\ m[x].right \in {NULL} \cup (1 .. Len(m))
  <2> DEFINE T == Nodes(Len(m))
             P == {NULL} \cup (1 .. Len(m))
  <2>1. m[x] \in T
    <3> HIDE DEF T
    <3>1. m \in Seq(T)
      BY DEF T
    <3> QED
      BY <3>1
  <2> HIDE DEF P
  <2>2. m[x] \in [l : Seq(Int), next : [Alphabet -> P], left : P, right : P]
    BY <2>1 DEF Nodes, P
  <2>3. /\ m[x] = [l |-> m[x].l, next |-> m[x].next, left |-> m[x].left, right |-> m[x].right]
        /\ m[x].l \in Seq(Int) /\ m[x].next \in [Alphabet -> P]
        /\ m[x].left \in P /\ m[x].right \in P
    BY <2>2
  <2> QED
    BY <2>3 DEF P
<1>4. Linked(m) /\ Lists(m)
  BY <1>1, <1>2, <1>3 DEF Linked, Lists
<1>5. IsFiniteSet(DOMAIN m)
  BY <1>1, FS_Interval
<1> QED
  BY <1>1, <1>2, <1>3, <1>4, <1>5

(* Fits, for any memory. *)
FitsIn(m, r, l, p) ==
  p.field # "root" =>
    /\ p.node \in Tree(m, r)
    /\ p.field = "left" => ListLess(l, m[p.node].l)
    /\ p.field = "right" => ListLess(m[p.node].l, l)
    /\ \A a \in Tree(m, r) :
         /\ p.node \in Tree(m, m[a].left) => ListLess(l, m[a].l)
         /\ p.node \in Tree(m, m[a].right) => ListLess(m[a].l, l)

(* A place of the tree below r where there is no node yet. *)
Vacant(m, r, p) ==
  /\ p.field \in {"root", "left", "right"}
  /\ p.field = "root" => r = NULL
  /\ p.field = "left" => m[p.node].left = NULL
  /\ p.field = "right" => m[p.node].right = NULL

(* m is m0 with a new node for list l at x, in place p, to which transition *)
(* nextp leads.                                                            *)
Extended(m0, m, x, l, p, nextp) ==
  /\ DOMAIN m = DOMAIN m0 \cup {x}
  /\ m[x] = DState(l)
  /\ \A y \in DOMAIN m0 \ {x} :
       /\ m[y].l = m0[y].l
       /\ m[y].left = IF p.field = "left" /\ p.node = y THEN x ELSE m0[y].left
       /\ m[y].right = IF p.field = "right" /\ p.node = y THEN x ELSE m0[y].right
       /\ \A c \in Alphabet :
            m[y].next[c] = IF nextp = <<y, c>> THEN x ELSE m0[y].next[c]

NewRoot(p, x, r) == IF p.field = "root" THEN x ELSE r

(* The new node keeps the tree a search tree. *)
LEMMA TreeExtended ==
  ASSUME NEW m0, m0 \in Seq(Nodes(Len(m0))), NEW r0 \in {NULL} \cup (1 .. Len(m0)),
         SearchTree(m0, r0), OneParent(m0, r0),
         NEW l \in Seq(Int), NEW p, Vacant(m0, r0, p), FitsIn(m0, r0, l, p),
         NEW m, m \in Seq(Nodes(Len(m))),
         NEW x, x \notin Tree(m0, r0), NEW nextp, Extended(m0, m, x, l, p, nextp),
         NEW r, r = NewRoot(p, x, r0)
  PROVE  Tree(m, r) = Tree(m0, r0) \cup {x} /\ SearchTree(m, r) /\ OneParent(m, r)
<1> DEFINE L == Tree(m0, r0)
           q == p.node
<1>1. /\ Linked(m0) /\ Linked(m) /\ Lists(m0) /\ DOMAIN m0 = 1 .. Len(m0)
      /\ NULL \notin DOMAIN m0 /\ NULL \notin DOMAIN m
  BY MemoryFacts
<1>2. /\ x \in DOMAIN m /\ DOMAIN m0 \subseteq DOMAIN m /\ x # NULL
      /\ m[x].l = l /\ m[x].left = NULL /\ m[x].right = NULL
  BY <1>1 DEF Extended, DState
<1>3. Tree(m, x) = {x}
  <2>1. Tree(m, x) = {x} \cup Tree(m, NULL) \cup Tree(m, NULL)
    BY <1>1, <1>2, TreeParts
  <2> QED
    BY <2>1, TreeOfNull
<1>4. CASE p.field = "root"
  <2>1. r0 = NULL /\ L = {} /\ r = x
    BY <1>4, TreeOfNull DEF Vacant, NewRoot
  <2>2. Tree(m, r) = L \cup {x}
    BY <1>3, <2>1
  <2>3. SearchTree(m, r)
    BY <1>2, <1>3, <2>1, TreeOfNull DEF SearchTree
  <2>4. OneParent(m, r)
    BY <1>2, <1>3, <2>1 DEF OneParent
  <2> QED
    BY <2>2, <2>3, <2>4
<1>5. CASE p.field \in {"left", "right"}
  <2>1. /\ r = r0 /\ q \in L /\ L \subseteq DOMAIN m0 /\ x \notin L
    BY <1>5, TreeWithin DEF FitsIn, NewRoot
  <2>2. \A y \in L :
          /\ m[y].l = m0[y].l
          /\ m[y].left = IF p.field = "left" /\ q = y THEN x ELSE m0[y].left
          /\ m[y].right = IF p.field = "right" /\ q = y THEN x ELSE m0[y].right
    BY <2>1 DEF Extended
  <2>3. /\ p.field = "left" => m0[q].left = NULL /\ m[q].left = x
        /\ p.field = "right" => m0[q].right = NULL /\ m[q].right = x
    BY <2>1, <2>2 DEF Vacant
  <2>4. \A y \in L :
          /\ m[y].left = m0[y].left \/ (y = q /\ m0[q].left = NULL /\ m[q].left = x)
          /\ m[y].right = m0[y].right \/ (y = q /\ m0[q].right = NULL /\ m[q].right = x)
    BY <2>2, <2>3
  <2>5. m[q].left = x \/ m[q].right = x
    BY <1>5, <2>3
  <2>6. r0 \in DOMAIN m0 \cup {NULL}
    BY <1>1
  <2>7. ASSUME NEW y \in L
        PROVE  Tree(m, y) = Tree(m0, y) \cup (IF q \in Tree(m0, y) THEN {x} ELSE {})
    <3>1. Attached(m0, m, r0, q, x)
      BY <1>2, <2>1, <2>4, <2>5 DEF Attached
    <3> QED
      BY <1>1, <3>1, TreeGrows
  <2>8. Tree(m, r) = L \cup {x}
    <3>1. r0 # NULL
      BY <2>1, TreeOfNull
    <3>2. r0 \in L
      BY <1>1, <2>6, <3>1, TreeSelf
    <3> QED
      BY <2>1, <2>7, <3>2
  <2>9. TreeClosed(m0, L)
    BY <1>1, TreeDown
  <2>10. \A y \in L : m0[y].left \in L \cup {NULL} /\ m0[y].right \in L \cup {NULL}
    BY <2>9 DEF TreeClosed
  <2>11. ASSUME NEW z \in Tree(m, r)
         PROVE  /\ \A y \in Tree(m, m[z].left) : ListLess(m[y].l, m[z].l)
                /\ \A y \in Tree(m, m[z].right) : ListLess(m[z].l, m[y].l)
    <3>1. CASE z = x
      BY <1>2, <3>1, TreeOfNull
    <3>2. CASE z \in L
      <4>1. /\ \A y \in Tree(m0, m0[z].left) : ListLess(m0[y].l, m0[z].l)
            /\ \A y \in Tree(m0, m0[z].right) : ListLess(m0[z].l, m0[y].l)
        BY <3>2 DEF SearchTree
      <4>2. /\ q \in Tree(m0, m0[z].left) => ListLess(l, m0[z].l)
            /\ q \in Tree(m0, m0[z].right) => ListLess(m0[z].l, l)
        BY <1>5, <3>2 DEF FitsIn
      <4>3. ASSUME NEW w \in L \cup {NULL}, NEW y \in Tree(m, w)
            PROVE  \/ y \in Tree(m0, w) /\ y \in L /\ m[y].l = m0[y].l
                   \/ y = x /\ m[y].l = l /\ q \in Tree(m0, w)
        <5>1. w \in L
          BY <4>3, TreeOfNull
        <5>2. Tree(m0, w) \subseteq L
          BY <1>1, <5>1, TreeInTree
        <5>3. y \in Tree(m0, w) \/ (y = x /\ q \in Tree(m0, w))
          BY <2>7, <5>1
        <5> QED
          BY <1>2, <2>2, <5>2, <5>3
      <4>4. ASSUME NEW y \in Tree(m, m[z].left) PROVE ListLess(m[y].l, m[z].l)
        <5>1. CASE m[z].left = m0[z].left
          <6>1. m0[z].left \in L \cup {NULL}
            BY <2>10, <3>2
          <6>2. y \in Tree(m, m0[z].left)
            BY <5>1
          <6>3. \/ y \in Tree(m0, m0[z].left) /\ m[y].l = m0[y].l
                \/ m[y].l = l /\ q \in Tree(m0, m0[z].left)
            BY <4>3, <6>1, <6>2
          <6> QED
            BY <2>2, <3>2, <4>1, <4>2, <6>3
        <5>2. CASE p.field = "left" /\ z = q /\ m[z].left = x
          <6>1. y = x
            BY <1>3, <5>2
          <6>2. ListLess(l, m0[z].l)
            BY <1>5, <5>2 DEF FitsIn
          <6> QED
            BY <1>2, <2>2, <3>2, <6>1, <6>2
        <5> QED
          BY <2>2, <3>2, <5>1, <5>2
      <4>5. ASSUME NEW y \in Tree(m, m[z].right) PROVE ListLess(m[z].l, m[y].l)
        <5>1. CASE m[z].right = m0[z].right
          <6>1. m0[z].right \in L \cup {NULL}
            BY <2>10, <3>2
          <6>2. y \in Tree(m, m0[z].right)
            BY <5>1
          <6>3. \/ y \in Tree(m0, m0[z].right) /\ m[y].l = m0[y].l
                \/ m[y].l = l /\ q \in Tree(m0, m0[z].right)
            BY <4>3, <6>1, <6>2
          <6> QED
            BY <2>2, <3>2, <4>1, <4>2, <6>3
        <5>2. CASE p.field = "right" /\ z = q /\ m[z].right = x
          <6>1. y = x
            BY <1>3, <5>2
          <6>2. ListLess(m0[z].l, l)
            BY <1>5, <5>2 DEF FitsIn
          <6> QED
            BY <1>2, <2>2, <3>2, <6>1, <6>2
        <5> QED
          BY <2>2, <3>2, <5>1, <5>2
      <4> QED
        BY <4>4, <4>5
    <3> QED
      BY <2>8, <3>1, <3>2
  <2>12. SearchTree(m, r)
    BY <2>11 DEF SearchTree
  <2>13. ASSUME NEW a \in Tree(m, r), NEW b \in Tree(m, r)
         PROVE  /\ m[a].left # NULL /\ m[a].left = m[b].left => a = b
                /\ m[a].right # NULL /\ m[a].right = m[b].right => a = b
                /\ m[a].left # NULL => m[a].left # m[b].right
    <3>1. CASE a = x
      <4>1. b \in L \cup {x}
        BY <2>8
      <4> QED
        BY <1>2, <3>1, <4>1
    <3>2. CASE b = x
      BY <1>2, <3>2
    <3>3. CASE a \in L /\ b \in L
      <4>1. /\ m0[a].left # NULL /\ m0[a].left = m0[b].left => a = b
            /\ m0[a].right # NULL /\ m0[a].right = m0[b].right => a = b
            /\ m0[a].left # NULL => m0[a].left # m0[b].right
        BY <3>3 DEF OneParent
      <4>2. m0[a].left # x /\ m0[a].right # x /\ m0[b].left # x /\ m0[b].right # x
        BY <1>2, <2>1, <2>10, <3>3
      <4>3. /\ m[a].left = IF p.field = "left" /\ q = a THEN x ELSE m0[a].left
            /\ m[a].right = IF p.field = "right" /\ q = a THEN x ELSE m0[a].right
            /\ m[b].left = IF p.field = "left" /\ q = b THEN x ELSE m0[b].left
            /\ m[b].right = IF p.field = "right" /\ q = b THEN x ELSE m0[b].right
        BY <2>2, <3>3
      <4> QED
        BY <4>1, <4>2, <4>3
    <3> QED
      BY <2>8, <3>1, <3>2, <3>3
  <2>14. OneParent(m, r)
    BY <2>13 DEF OneParent
  <2> QED
    BY <2>8, <2>12, <2>14
<1> QED
  BY <1>4, <1>5 DEF Vacant

(* A new node keeps the whole cache right, when the rest of the free list   *)
(* is left as it is and nextp is a transition of the tree to its list.     *)
LEMMA CacheExtended ==
  ASSUME NEW nfa, NEW m0, NEW r0, NEW fl0, NEW n0, CacheOK(nfa, m0, r0, fl0, n0),
         n0 < maxstates, NEW l, ListOK(nfa, l), l \in Seq(Int),
         NEW p, Vacant(m0, r0, p), FitsIn(m0, r0, l, p),
         NEW m, m \in Seq(Nodes(Len(m))), NEW x, x \notin Tree(m0, r0),
         NEW nextp, Extended(m0, m, x, l, p, nextp),
         \A y \in Tree(m0, r0), c \in Alphabet : nextp = <<y, c>> => step(nfa, m0[y].l, c) = l,
         NEW fl, IsFree(m, fl, DOMAIN m \ (Tree(m0, r0) \cup {x})),
         NEW r, r = NewRoot(p, x, r0)
  PROVE  CacheOK(nfa, m, r, fl, n0 + 1) /\ x \in Tree(m, r)
<1> DEFINE L == Tree(m0, r0)
<1>1. /\ m0 \in Seq(Nodes(Len(m0))) /\ r0 \in {NULL} \cup (1 .. Len(m0))
      /\ \A y \in 1 .. Len(m0) : ListOK(nfa, m0[y].l)
      /\ SearchTree(m0, r0) /\ OneParent(m0, r0)
      /\ n0 = Cardinality(L) /\ Transitions(nfa, m0, r0)
  BY DEF CacheOK
<1>2. /\ Len(m0) \in Nat /\ DOMAIN m0 = 1 .. Len(m0) /\ IsFiniteSet(DOMAIN m0)
      /\ Len(m) \in Nat /\ DOMAIN m = 1 .. Len(m) /\ NULL \notin DOMAIN m
  BY <1>1, MemoryFacts
<1>3. Tree(m, r) = L \cup {x} /\ SearchTree(m, r) /\ OneParent(m, r)
  BY <1>1, TreeExtended
<1>4. /\ DOMAIN m = DOMAIN m0 \cup {x} /\ x \in DOMAIN m
      /\ m[x].l = l /\ m[x].next = [c \in Alphabet |-> NULL]
      /\ L \subseteq DOMAIN m0
  BY TreeWithin DEF Extended, DState
<1>5. r \in {NULL} \cup (1 .. Len(m))
  BY <1>1, <1>2, <1>4 DEF NewRoot
<1>6. \A y \in DOMAIN m0 \ {x} : m[y].l = m0[y].l
  BY DEF Extended
<1>7. \A y \in 1 .. Len(m) : ListOK(nfa, m[y].l)
  BY <1>1, <1>2, <1>4, <1>6
<1>8. n0 + 1 = Cardinality(Tree(m, r)) /\ n0 + 1 =< maxstates
  <2>1. IsFiniteSet(L) /\ n0 \in Nat
    BY <1>1, <1>2, TreeFinite
  <2>2. Cardinality(L \cup {x}) = n0 + 1
    BY <1>1, <2>1, FS_AddElement
  <2>3. n0 + 1 =< maxstates
    BY <2>1, DfaAssumption
  <2> QED
    BY <1>3, <2>2, <2>3
<1>9. Transitions(nfa, m, r)
  <2> SUFFICES ASSUME NEW y \in L \cup {x}, NEW c \in Alphabet, m[y].next[c] # NULL
               PROVE  /\ m[y].next[c] \in L \cup {x}
                      /\ m[m[y].next[c]].l = step(nfa, m[y].l, c)
    BY <1>3 DEF Transitions
  <2>1. y \in L /\ y \in DOMAIN m0 \ {x}
    BY <1>4
  <2>2. /\ m[y].next[c] = IF nextp = <<y, c>> THEN x ELSE m0[y].next[c]
        /\ m[y].l = m0[y].l
    BY <2>1 DEF Extended
  <2>3. CASE nextp = <<y, c>>
    BY <1>4, <2>1, <2>2, <2>3
  <2>4. CASE nextp # <<y, c>>
    <3>1. /\ m0[y].next[c] \in L
          /\ m0[m0[y].next[c]].l = step(nfa, m0[y].l, c)
      BY <1>1, <2>1, <2>2, <2>4 DEF Transitions
    <3>2. m[m0[y].next[c]].l = m0[m0[y].next[c]].l
      BY <1>4, <1>6, <3>1
    <3> QED
      BY <2>2, <2>4, <3>1, <3>2
  <2> QED
    BY <2>3, <2>4
<1>10. IsFree(m, fl, DOMAIN m \ Tree(m, r))
  BY <1>3
<1> QED
  BY <1>3, <1>5, <1>7, <1>8, <1>9, <1>10 DEF CacheOK

SetNode(m, q, node) == [m EXCEPT ![q] = node]

LEMMA NodeSet ==
  ASSUME NEW m, m \in Seq(Nodes(Len(m))), NEW q \in DOMAIN m, NEW node \in Nodes(Len(m))
  PROVE  LET m2 == SetNode(m, q, node)
         IN /\ m2 \in Seq(Nodes(Len(m2))) /\ Len(m2) = Len(m) /\ DOMAIN m2 = DOMAIN m
            /\ m2[q] = node /\ \A y \in DOMAIN m \ {q} : m2[y] = m[y]
<1> DEFINE T == Nodes(Len(m))
           m2 == SetNode(m, q, node)
<1>1. m \in Seq(T) /\ node \in T
  OBVIOUS
<1> HIDE DEF T
<1>2. /\ m2 \in Seq(T) /\ Len(m2) = Len(m) /\ DOMAIN m2 = DOMAIN m
      /\ m2[q] = node /\ \A y \in DOMAIN m \ {q} : m2[y] = m[y]
  BY <1>1 DEF SetNode
<1> HIDE DEF m2
<1>3. m2 \in Seq(Nodes(Len(m2)))
  BY <1>2 DEF T
<1> QED
  BY <1>2, <1>3 DEF m2

LEMMA NodesGrow ==
  ASSUME NEW k \in Nat, NEW n \in Nat, k =< n
  PROVE  Nodes(k) \subseteq Nodes(n)
<1> DEFINE P == {NULL} \cup (1 .. k)
           Q == {NULL} \cup (1 .. n)
<1>1. P \subseteq Q
  OBVIOUS
<1> HIDE DEF P, Q
<1>2. [Alphabet -> P] \subseteq [Alphabet -> Q]
  BY <1>1
<1> DEFINE F == [Alphabet -> P]
           G == [Alphabet -> Q]
<1> HIDE DEF F, G
<1>3. F \subseteq G
  BY <1>2 DEF F, G
<1>4. [l : Seq(Int), next : F, left : P, right : P]
        \subseteq [l : Seq(Int), next : G, left : Q, right : Q]
  BY <1>1, <1>3
<1> QED
  BY <1>4 DEF Nodes, P, Q, F, G

LEMMA DStateNode ==
  ASSUME NEW l \in Seq(Int), NEW k \in Nat
  PROVE  DState(l) \in Nodes(k)
<1> DEFINE P == {NULL} \cup (1 .. k)
           F == [Alphabet -> P]
<1>1. [c \in Alphabet |-> NULL] \in F /\ NULL \in P
  OBVIOUS
<1> HIDE DEF P, F
<1>2. DState(l) \in [l : Seq(Int), next : F, left : P, right : P]
  BY <1>1 DEF DState
<1> QED
  BY <1>2 DEF Nodes, P, F

(* allocdstate: from the free list, or else from malloc. *)
NewAt(m, fl) == IF fl # NULL THEN fl ELSE Len(m) + 1
NewMem(m, fl, x, l) == IF fl # NULL THEN [m EXCEPT ![x] = DState(l)] ELSE Append(m, DState(l))
NewFree(m, fl) == IF fl # NULL THEN m[fl].left ELSE NULL

(* m1 is m0 with a fresh node at x. *)
Added(m0, m1, x, l) ==
  /\ DOMAIN m1 = DOMAIN m0 \cup {x} /\ m1[x] = DState(l)
  /\ \A y \in DOMAIN m0 \ {x} : m1[y] = m0[y]

(* The nodes that are neither in the tree nor x are the free list from fl,  *)
(* as long as their links are not changed.                                 *)
FreeAfter(m0, r0, m1, x, fl) ==
  \A m : /\ DOMAIN m = DOMAIN m1
         /\ \A y \in DOMAIN m \ (Tree(m0, r0) \cup {x}) : m[y].left = m0[y].left
         => IsFree(m, fl, DOMAIN m \ (Tree(m0, r0) \cup {x}))

(* allocdstate takes the first free node, or a new one, out of the         *)
(* others' reach.                                                          *)
LEMMA Allocated ==
  ASSUME NEW nfa, NEW m0, NEW r0, NEW fl0, NEW n0, CacheOK(nfa, m0, r0, fl0, n0),
         NEW l \in Seq(Int),
         NEW x, x = NewAt(m0, fl0), NEW m1, m1 = NewMem(m0, fl0, x, l),
         NEW fl, fl = NewFree(m0, fl0)
  PROVE  /\ m1 \in Seq(Nodes(Len(m1))) /\ Added(m0, m1, x, l)
         /\ x \notin Tree(m0, r0) /\ FreeAfter(m0, r0, m1, x, fl)
<1> DEFINE L == Tree(m0, r0)
           F == DOMAIN m0 \ L
<1>1. m0 \in Seq(Nodes(Len(m0))) /\ IsFree(m0, fl0, F)
  BY DEF CacheOK
<1>2. Len(m0) \in Nat /\ DOMAIN m0 = 1 .. Len(m0) /\ NULL \notin DOMAIN m0
  BY <1>1, MemoryFacts
<1>3. L \subseteq DOMAIN m0
  BY TreeWithin
<1>4. CASE fl0 # NULL
  <2>1. x = fl0 /\ x # NULL /\ m1 = [m0 EXCEPT ![x] = DState(l)] /\ fl = m0[x].left
    BY <1>4 DEF NewAt, NewMem, NewFree
  <2>2. x \in F /\ x \in DOMAIN m0
    <3>1. \A z \in F \ {x} : m0[z].left = m0[z].left
      OBVIOUS
    <3> HIDE DEF F
    <3>2. IsFree(m0, x, F)
      BY <1>1, <2>1
    <3> QED
      BY <1>2, <2>1, <3>1, <3>2, FreePop
  <2>3. /\ m1 \in Seq(Nodes(Len(m1))) /\ DOMAIN m1 = DOMAIN m0 /\ m1[x] = DState(l)
        /\ \A y \in DOMAIN m0 \ {x} : m1[y] = m0[y]
    <3>1. DState(l) \in Nodes(Len(m0))
      BY <1>2, DStateNode
    <3> QED
      <4>1. m1 = SetNode(m0, x, DState(l))
        BY <2>1 DEF SetNode
      <4>2. m0 \in Seq(Nodes(Len(m0))) /\ x \in DOMAIN m0
        BY <1>1, <2>2
      <4> DEFINE m2 == SetNode(m0, x, DState(l))
      <4>3. /\ m2 \in Seq(Nodes(Len(m2))) /\ Len(m2) = Len(m0) /\ DOMAIN m2 = DOMAIN m0
            /\ m2[x] = DState(l) /\ \A y \in DOMAIN m0 \ {x} : m2[y] = m0[y]
        BY <3>1, <4>2, NodeSet
      <4> HIDE DEF m2
      <4>4. m1 = m2
        BY <4>1 DEF m2
      <4> QED
        BY <4>3, <4>4, Zenon
  <2>4. ASSUME NEW m, DOMAIN m = DOMAIN m1,
               \A y \in DOMAIN m \ (L \cup {x}) : m[y].left = m0[y].left
        PROVE  IsFree(m, fl, DOMAIN m \ (L \cup {x}))
    <3>1. DOMAIN m = DOMAIN m0 /\ DOMAIN m \ (L \cup {x}) = F \ {x}
      BY <2>3, <2>4
    <3>2. \A y \in F \ {x} : m[y].left = m0[y].left
      BY <2>4, <3>1
    <3> HIDE DEF F
    <3>3. IsFree(m, m0[x].left, F \ {x})
      BY <1>1, <1>2, <2>1, <3>1, <3>2, FreePop
    <3> QED
      BY <2>1, <3>1, <3>3
  <2> QED
    BY <2>2, <2>3, <2>4 DEF Added, FreeAfter
<1>5. CASE fl0 = NULL
  <2>1. x = Len(m0) + 1 /\ m1 = Append(m0, DState(l)) /\ fl = NULL
    BY <1>5 DEF NewAt, NewMem, NewFree
  <2>2. F = {}
    BY <1>1, <1>2, <1>5, FreeEnds
  <2>3. x \notin DOMAIN m0 /\ x \notin L
    <3>1. Len(m0) + 1 \notin 1 .. Len(m0)
      BY <1>2
    <3> QED
      BY <1>2, <1>3, <2>1, <3>1, Zenon
  <2>4. /\ m1 \in Seq(Nodes(Len(m1))) /\ DOMAIN m1 = DOMAIN m0 \cup {x} /\ m1[x] = DState(l)
        /\ \A y \in DOMAIN m0 \ {x} : m1[y] = m0[y]
    <3> DEFINE T == Nodes(Len(m0) + 1)
               s == DState(l)
    <3>1. Nodes(Len(m0)) \subseteq T
      BY <1>2, NodesGrow
    <3>2. m0 \in Seq(T) /\ s \in T
      <4>1. s \in T
        BY <1>2, DStateNode
      <4> HIDE DEF T
      <4> QED
        BY <1>1, <3>1, <4>1
    <3>3. m1 = Append(m0, s)
      BY <2>1
    <3> HIDE DEF T, s
    <3>4. m1 \in Seq(T) /\ Len(m1) = Len(m0) + 1
      BY <3>2, <3>3
    <3>5. DOMAIN m1 = 1 .. Len(m0) + 1
      BY <3>4
    <3>6. m1[Len(m0) + 1] = s /\ \A y \in 1 .. Len(m0) : m1[y] = m0[y]
      BY <3>2, <3>3
    <3>7. DOMAIN m1 = DOMAIN m0 \cup {x}
      <4>1. 1 .. Len(m0) + 1 = 1 .. Len(m0) \cup {Len(m0) + 1}
        BY <1>2
      <4> QED
        BY <1>2, <2>1, <3>5, <4>1, Zenon
    <3>8. m1 \in Seq(Nodes(Len(m1)))
      BY <3>4 DEF T
    <3>9. m1[x] = DState(l)
      BY <2>1, <3>6 DEF s
    <3> QED
      BY <1>2, <3>6, <3>7, <3>8, <3>9
  <2>5. ASSUME NEW m, DOMAIN m = DOMAIN m1
        PROVE  IsFree(m, fl, DOMAIN m \ (L \cup {x}))
    <3>1. DOMAIN m \ (L \cup {x}) = {}
      BY <2>2, <2>4, <2>5
    <3> QED
      BY <2>1, <3>1, FreeNone
  <2> QED
    BY <2>3, <2>4, <2>5 DEF Added, FreeAfter
<1> QED
  BY <1>4, <1>5

LEMMA NodeBuilt ==
  ASSUME NEW k \in Nat, NEW l \in Seq(Int), NEW next \in [Alphabet -> {NULL} \cup (1 .. k)],
         NEW left \in {NULL} \cup (1 .. k), NEW right \in {NULL} \cup (1 .. k)
  PROVE  [l |-> l, next |-> next, left |-> left, right |-> right] \in Nodes(k)
<1> DEFINE P == {NULL} \cup (1 .. k)
           F == [Alphabet -> P]
<1>1. next \in F /\ left \in P /\ right \in P
  OBVIOUS
<1> HIDE DEF P, F
<1>2. [l |-> l, next |-> next, left |-> left, right |-> right]
        \in [l : Seq(Int), next : F, left : P, right : P]
  BY <1>1
<1> QED
  BY <1>2 DEF Nodes, P, F

WithLeft(m, q, x) == [m EXCEPT ![q].left = x]

LEMMA LeftSet ==
  ASSUME NEW m, m \in Seq(Nodes(Len(m))), NEW q \in DOMAIN m, NEW x \in DOMAIN m
  PROVE  LET m2 == WithLeft(m, q, x)
         IN /\ m2 \in Seq(Nodes(Len(m2))) /\ DOMAIN m2 = DOMAIN m
            /\ \A y \in DOMAIN m \ {q} : m2[y] = m[y]
            /\ m2[q].left = x
            /\ m2[q].l = m[q].l
            /\ m2[q].next = m[q].next
            /\ m2[q].right = m[q].right
<1> DEFINE N == Len(m)
           v == x
           node == [l |-> m[q].l, next |-> m[q].next, left |-> v, right |-> m[q].right]
           m2 == WithLeft(m, q, x)
<1>1. /\ N \in Nat /\ DOMAIN m = 1 .. N
      /\ m[q] = [l |-> m[q].l, next |-> m[q].next, left |-> m[q].left, right |-> m[q].right]
      /\ m[q].l \in Seq(Int) /\ m[q].next \in [Alphabet -> {NULL} \cup (1 .. N)]
      /\ m[q].left \in {NULL} \cup (1 .. N) /\ m[q].right \in {NULL} \cup (1 .. N)
  BY MemoryFacts
<1>2. v \in {NULL} \cup (1 .. N)
  BY <1>1
<1>3. m2 = SetNode(m, q, node)
  <2>1. m2 = [m EXCEPT ![q] = [m[q] EXCEPT !.left = v]]
    BY DEF WithLeft
  <2> HIDE DEF v
  <2>2. [m[q] EXCEPT !.left = v] = node
    BY <1>1
  <2> HIDE DEF node, m2
  <2> QED
    BY <2>1, <2>2 DEF SetNode
<1> HIDE DEF v
<1>4. node \in Nodes(N)
  BY <1>1, <1>2, NodeBuilt
<1>5. /\ node.left = v
      /\ node.l = m[q].l
      /\ node.next = m[q].next
      /\ node.right = m[q].right
  OBVIOUS
<1> HIDE DEF node
<1> DEFINE s == SetNode(m, q, node)
<1>6. /\ s \in Seq(Nodes(Len(s))) /\ DOMAIN s = DOMAIN m /\ s[q] = node
      /\ \A y \in DOMAIN m \ {q} : s[y] = m[y]
  BY <1>4, NodeSet
<1> HIDE DEF s, m2
<1>7. m2 = s
  BY <1>3 DEF s
<1>8. /\ m2 \in Seq(Nodes(Len(m2))) /\ DOMAIN m2 = DOMAIN m /\ m2[q] = node
      /\ \A y \in DOMAIN m \ {q} : m2[y] = m[y]
  BY <1>6, <1>7, Zenon
<1> QED
  BY <1>5, <1>8 DEF m2, v

WithRight(m, q, x) == [m EXCEPT ![q].right = x]

LEMMA RightSet ==
  ASSUME NEW m, m \in Seq(Nodes(Len(m))), NEW q \in DOMAIN m, NEW x \in DOMAIN m
  PROVE  LET m2 == WithRight(m, q, x)
         IN /\ m2 \in Seq(Nodes(Len(m2))) /\ DOMAIN m2 = DOMAIN m
            /\ \A y \in DOMAIN m \ {q} : m2[y] = m[y]
            /\ m2[q].right = x
            /\ m2[q].l = m[q].l
            /\ m2[q].next = m[q].next
            /\ m2[q].left = m[q].left
<1> DEFINE N == Len(m)
           v == x
           node == [l |-> m[q].l, next |-> m[q].next, left |-> m[q].left, right |-> v]
           m2 == WithRight(m, q, x)
<1>1. /\ N \in Nat /\ DOMAIN m = 1 .. N
      /\ m[q] = [l |-> m[q].l, next |-> m[q].next, left |-> m[q].left, right |-> m[q].right]
      /\ m[q].l \in Seq(Int) /\ m[q].next \in [Alphabet -> {NULL} \cup (1 .. N)]
      /\ m[q].left \in {NULL} \cup (1 .. N) /\ m[q].right \in {NULL} \cup (1 .. N)
  BY MemoryFacts
<1>2. v \in {NULL} \cup (1 .. N)
  BY <1>1
<1>3. m2 = SetNode(m, q, node)
  <2>1. m2 = [m EXCEPT ![q] = [m[q] EXCEPT !.right = v]]
    BY DEF WithRight
  <2> HIDE DEF v
  <2>2. [m[q] EXCEPT !.right = v] = node
    BY <1>1
  <2> HIDE DEF node, m2
  <2> QED
    BY <2>1, <2>2 DEF SetNode
<1> HIDE DEF v
<1>4. node \in Nodes(N)
  BY <1>1, <1>2, NodeBuilt
<1>5. /\ node.right = v
      /\ node.l = m[q].l
      /\ node.next = m[q].next
      /\ node.left = m[q].left
  OBVIOUS
<1> HIDE DEF node
<1> DEFINE s == SetNode(m, q, node)
<1>6. /\ s \in Seq(Nodes(Len(s))) /\ DOMAIN s = DOMAIN m /\ s[q] = node
      /\ \A y \in DOMAIN m \ {q} : s[y] = m[y]
  BY <1>4, NodeSet
<1> HIDE DEF s, m2
<1>7. m2 = s
  BY <1>3 DEF s
<1>8. /\ m2 \in Seq(Nodes(Len(m2))) /\ DOMAIN m2 = DOMAIN m /\ m2[q] = node
      /\ \A y \in DOMAIN m \ {q} : m2[y] = m[y]
  BY <1>6, <1>7, Zenon
<1> QED
  BY <1>5, <1>8 DEF m2, v

WithNext(m, q, c, x) == [m EXCEPT ![q].next[c] = x]

LEMMA NextSet ==
  ASSUME NEW m, m \in Seq(Nodes(Len(m))), NEW q \in DOMAIN m, NEW c \in Alphabet, NEW x \in DOMAIN m
  PROVE  LET m2 == WithNext(m, q, c, x)
         IN /\ m2 \in Seq(Nodes(Len(m2))) /\ DOMAIN m2 = DOMAIN m
            /\ \A y \in DOMAIN m \ {q} : m2[y] = m[y]
            /\ m2[q].next[c] = x /\ \A b \in Alphabet \ {c} : m2[q].next[b] = m[q].next[b]
            /\ m2[q].l = m[q].l
            /\ m2[q].left = m[q].left
            /\ m2[q].right = m[q].right
<1> DEFINE N == Len(m)
           v == [m[q].next EXCEPT ![c] = x]
           node == [l |-> m[q].l, next |-> v, left |-> m[q].left, right |-> m[q].right]
           m2 == WithNext(m, q, c, x)
<1>1. /\ N \in Nat /\ DOMAIN m = 1 .. N
      /\ m[q] = [l |-> m[q].l, next |-> m[q].next, left |-> m[q].left, right |-> m[q].right]
      /\ m[q].l \in Seq(Int) /\ m[q].next \in [Alphabet -> {NULL} \cup (1 .. N)]
      /\ m[q].left \in {NULL} \cup (1 .. N) /\ m[q].right \in {NULL} \cup (1 .. N)
  BY MemoryFacts
<1>2. v \in [Alphabet -> {NULL} \cup (1 .. N)] /\ v[c] = x /\ \A b \in Alphabet \ {c} : v[b] = m[q].next[b]
  <2> DEFINE P == {NULL} \cup (1 .. N)
  <2>1. m[q].next \in [Alphabet -> P] /\ x \in P
    BY <1>1
  <2> HIDE DEF P
  <2>2. v \in [Alphabet -> P] /\ v[c] = x /\ \A b \in Alphabet \ {c} : v[b] = m[q].next[b]
    BY <2>1
  <2> QED
    BY <2>2 DEF P
<1>3. m2 = SetNode(m, q, node)
  <2>1. m2 = [m EXCEPT ![q] = [m[q] EXCEPT !.next = v]]
    BY DEF WithNext
  <2> HIDE DEF v
  <2>2. [m[q] EXCEPT !.next = v] = node
    BY <1>1
  <2> HIDE DEF node, m2
  <2> QED
    BY <2>1, <2>2 DEF SetNode
<1> HIDE DEF v
<1>4. node \in Nodes(N)
  BY <1>1, <1>2, NodeBuilt
<1>5. /\ node.next = v
      /\ node.l = m[q].l
      /\ node.left = m[q].left
      /\ node.right = m[q].right
  OBVIOUS
<1> HIDE DEF node
<1> DEFINE s == SetNode(m, q, node)
<1>6. /\ s \in Seq(Nodes(Len(s))) /\ DOMAIN s = DOMAIN m /\ s[q] = node
      /\ \A y \in DOMAIN m \ {q} : s[y] = m[y]
  BY <1>4, NodeSet
<1> HIDE DEF s, m2
<1>7. m2 = s
  BY <1>3 DEF s
<1>8. /\ m2 \in Seq(Nodes(Len(m2))) /\ DOMAIN m2 = DOMAIN m /\ m2[q] = node
      /\ \A y \in DOMAIN m \ {q} : m2[y] = m[y]
  BY <1>6, <1>7, Zenon
<1>9. m2[q].next[c] = x /\ \A b \in Alphabet \ {c} : m2[q].next[b] = m[q].next[b]
  BY <1>2, <1>5, <1>8
<1> QED
  BY <1>5, <1>8, <1>9 DEF m2

(* *dp = d; *)
Filled(m, p, x) ==
  CASE p.field = "root" -> m
    [] p.field = "left" -> [m EXCEPT ![p.node].left = x]
    [] p.field = "right" -> [m EXCEPT ![p.node].right = x]

(* *dp = d adds the new node to the tree and nothing else. *)
LEMMA PlaceFilled ==
  ASSUME NEW m0, NEW r0, NEW l \in Seq(Int), NEW p, Vacant(m0, r0, p), FitsIn(m0, r0, l, p),
         NEW x, x \notin Tree(m0, r0),
         NEW m1, m1 \in Seq(Nodes(Len(m1))), Added(m0, m1, x, l),
         NEW m2, m2 = Filled(m1, p, x)
  PROVE  m2 \in Seq(Nodes(Len(m2))) /\ Extended(m0, m2, x, l, p, << >>)
<1> DEFINE q == p.node
<1>2. \A y, c : << >> # <<y, c>>
  OBVIOUS
<1>3. CASE p.field = "root"
  <2>1. m2 = m1
    BY <1>3 DEF Filled
  <2> QED
    BY <1>2, <1>3, <2>1 DEF Extended, Added
<1>4. CASE p.field = "left"
  <2>1. q \in DOMAIN m1 /\ x \in DOMAIN m1 /\ q \in DOMAIN m0 \ {x}
    BY <1>4, TreeWithin DEF FitsIn, Added
  <2> DEFINE s == WithLeft(m1, q, x)
  <2>2. m2 = s
    BY <1>4 DEF WithLeft, Filled
  <2>3. /\ s \in Seq(Nodes(Len(s))) /\ DOMAIN s = DOMAIN m1
        /\ \A y \in DOMAIN m1 \ {q} : s[y] = m1[y]
        /\ s[q].left = x /\ s[q].l = m1[q].l /\ s[q].next = m1[q].next
        /\ s[q].right = m1[q].right
    BY <2>1, LeftSet
  <2> HIDE DEF s
  <2>4. s[x] = DState(l)
    BY <2>1, <2>3 DEF Added
  <2>5. ASSUME NEW y \in DOMAIN m0 \ {x}
        PROVE  /\ s[y].l = m0[y].l
               /\ s[y].left = IF p.field = "left" /\ p.node = y THEN x ELSE m0[y].left
               /\ s[y].right = IF p.field = "right" /\ p.node = y THEN x ELSE m0[y].right
               /\ s[y].next = m0[y].next
    <3>1. CASE y = q
      BY <1>4, <2>1, <2>3, <3>1 DEF Added
    <3>2. CASE y # q
      BY <1>4, <2>3, <3>2 DEF Added
    <3> QED
      BY <3>1, <3>2
  <2>6. DOMAIN s = DOMAIN m0 \cup {x}
    BY <2>3 DEF Added
  <2>7. Extended(m0, s, x, l, p, << >>)
    BY <1>2, <2>4, <2>5, <2>6 DEF Extended
  <2> QED
    BY <2>2, <2>3, <2>7
<1>5. CASE p.field = "right"
  <2>1. q \in DOMAIN m1 /\ x \in DOMAIN m1 /\ q \in DOMAIN m0 \ {x}
    BY <1>5, TreeWithin DEF FitsIn, Added
  <2> DEFINE s == WithRight(m1, q, x)
  <2>2. m2 = s
    BY <1>5 DEF WithRight, Filled
  <2>3. /\ s \in Seq(Nodes(Len(s))) /\ DOMAIN s = DOMAIN m1
        /\ \A y \in DOMAIN m1 \ {q} : s[y] = m1[y]
        /\ s[q].right = x /\ s[q].l = m1[q].l /\ s[q].next = m1[q].next
        /\ s[q].left = m1[q].left
    BY <2>1, RightSet
  <2> HIDE DEF s
  <2>4. s[x] = DState(l)
    BY <2>1, <2>3 DEF Added
  <2>5. ASSUME NEW y \in DOMAIN m0 \ {x}
        PROVE  /\ s[y].l = m0[y].l
               /\ s[y].left = IF p.field = "left" /\ p.node = y THEN x ELSE m0[y].left
               /\ s[y].right = IF p.field = "right" /\ p.node = y THEN x ELSE m0[y].right
               /\ s[y].next = m0[y].next
    <3>1. CASE y = q
      BY <1>5, <2>1, <2>3, <3>1 DEF Added
    <3>2. CASE y # q
      BY <1>5, <2>3, <3>2 DEF Added
    <3> QED
      BY <3>1, <3>2
  <2>6. DOMAIN s = DOMAIN m0 \cup {x}
    BY <2>3 DEF Added
  <2>7. Extended(m0, s, x, l, p, << >>)
    BY <1>2, <2>4, <2>5, <2>6 DEF Extended
  <2> QED
    BY <2>2, <2>3, <2>7
<1> QED
  BY <1>3, <1>4, <1>5 DEF Vacant

(* *nextp = d; *)
Noted(m, nextp, x) ==
  IF nextp # << >> THEN [m EXCEPT ![nextp[1]].next[nextp[2]] = x] ELSE m

(* *nextp = d changes this one transition. *)
LEMMA TransitionSet ==
  ASSUME NEW m0, NEW r0, NEW l, NEW p, NEW x, x \notin Tree(m0, r0),
         NEW m2, m2 \in Seq(Nodes(Len(m2))), Extended(m0, m2, x, l, p, << >>),
         NEW q \in Tree(m0, r0), NEW c \in Alphabet,
         NEW m, m = WithNext(m2, q, c, x)
  PROVE  m \in Seq(Nodes(Len(m))) /\ Extended(m0, m, x, l, p, <<q, c>>)
<1>1. /\ DOMAIN m2 = DOMAIN m0 \cup {x} /\ m2[x] = DState(l)
      /\ \A y \in DOMAIN m0 \ {x} :
           /\ m2[y].l = m0[y].l
           /\ m2[y].left = IF p.field = "left" /\ p.node = y THEN x ELSE m0[y].left
           /\ m2[y].right = IF p.field = "right" /\ p.node = y THEN x ELSE m0[y].right
           /\ \A b \in Alphabet : m2[y].next[b] = m0[y].next[b]
  BY DEF Extended
<1>2. q \in DOMAIN m2 /\ x \in DOMAIN m2 /\ q \in DOMAIN m0 \ {x}
  BY <1>1, TreeWithin
<1> DEFINE s == WithNext(m2, q, c, x)
<1>3. /\ s \in Seq(Nodes(Len(s))) /\ DOMAIN s = DOMAIN m2
      /\ \A y \in DOMAIN m2 \ {q} : s[y] = m2[y]
      /\ s[q].next[c] = x /\ \A b \in Alphabet \ {c} : s[q].next[b] = m2[q].next[b]
      /\ s[q].l = m2[q].l /\ s[q].left = m2[q].left /\ s[q].right = m2[q].right
  BY <1>2, NextSet
<1>4. m = s
  OBVIOUS
<1> HIDE DEF s
<1>5. s[x] = DState(l)
  BY <1>1, <1>2, <1>3
<1>6. ASSUME NEW y \in DOMAIN m0 \ {x}
      PROVE  /\ s[y].l = m0[y].l
             /\ s[y].left = IF p.field = "left" /\ p.node = y THEN x ELSE m0[y].left
             /\ s[y].right = IF p.field = "right" /\ p.node = y THEN x ELSE m0[y].right
             /\ \A b \in Alphabet : s[y].next[b] = IF <<q, c>> = <<y, b>> THEN x ELSE m0[y].next[b]
  <2>1. CASE y = q
    <3>0. s[y].l = m2[y].l /\ s[y].left = m2[y].left /\ s[y].right = m2[y].right
      BY <1>3, <2>1
    <3>1. /\ s[y].l = m0[y].l
          /\ s[y].left = IF p.field = "left" /\ p.node = y THEN x ELSE m0[y].left
          /\ s[y].right = IF p.field = "right" /\ p.node = y THEN x ELSE m0[y].right
      BY <1>1, <3>0, Zenon
    <3>2. \A b \in Alphabet : <<q, c>> = <<y, b>> <=> b = c
      BY <2>1
    <3>3. \A b \in Alphabet : s[y].next[b] = IF b = c THEN x ELSE m0[y].next[b]
      BY <1>1, <1>3, <2>1
    <3>4. \A b \in Alphabet : s[y].next[b] = IF <<q, c>> = <<y, b>> THEN x ELSE m0[y].next[b]
      <4> TAKE b \in Alphabet
      <4>1. CASE b = c
        BY <3>3, <2>1, <4>1
      <4>2. CASE b # c
        BY <3>2, <3>3, <4>2
      <4> QED
        BY <4>1, <4>2
    <3> QED
      BY <3>1, <3>4, Zenon
  <2>2. CASE y # q
    <3>1. s[y] = m2[y]
      BY <1>1, <1>3, <2>2
    <3>2. \A b \in Alphabet : <<q, c>> # <<y, b>>
      BY <2>2
    <3> QED
      BY <1>1, <3>1, <3>2
  <2> QED
    BY <2>1, <2>2
<1>7. Extended(m0, s, x, l, p, <<q, c>>)
  BY <1>1, <1>3, <1>5, <1>6 DEF Extended
<1> QED
  BY <1>3, <1>4, <1>7

(* A new node, taken from the free list or from malloc, in its place of the *)
(* tree and at the end of transition nextp.                                *)
LEMMA NewNode ==
  ASSUME NEW nfa, NEW m0, NEW r0, NEW fl0, NEW n0, CacheOK(nfa, m0, r0, fl0, n0),
         n0 < maxstates, NEW l, ListOK(nfa, l),
         NEW p, Vacant(m0, r0, p), FitsIn(m0, r0, l, p),
         NEW nextp, \/ nextp = << >>
                    \/ \E q \in Tree(m0, r0) : \E c \in Alphabet :
                         nextp = <<q, c>> /\ step(nfa, m0[q].l, c) = l,
         NEW x, x = NewAt(m0, fl0), NEW m1, m1 = NewMem(m0, fl0, x, l),
         NEW m2, m2 = Filled(m1, p, x), NEW m, m = Noted(m2, nextp, x),
         NEW fl, fl = NewFree(m0, fl0), NEW r, r = NewRoot(p, x, r0)
  PROVE  CacheOK(nfa, m, r, fl, n0 + 1) /\ x \in Tree(m, r) /\ m[x].l = l
<1>1. l \in Seq(Int)
  BY DEF ListOK
<1>2. /\ m1 \in Seq(Nodes(Len(m1))) /\ Added(m0, m1, x, l)
      /\ x \notin Tree(m0, r0) /\ FreeAfter(m0, r0, m1, x, fl)
  BY <1>1, Allocated
<1>3. DOMAIN m1 = DOMAIN m0 \cup {x}
  BY <1>2 DEF Added
<1>4. m2 \in Seq(Nodes(Len(m2))) /\ Extended(m0, m2, x, l, p, << >>)
  BY <1>1, <1>2, PlaceFilled
<1>5. m \in Seq(Nodes(Len(m))) /\ Extended(m0, m, x, l, p, nextp)
  <2>1. CASE nextp = << >>
    BY <1>4, <2>1 DEF Noted
  <2>2. CASE nextp # << >>
    <3>1. PICK q \in Tree(m0, r0), c \in Alphabet : nextp = <<q, c>>
      BY <2>2
    <3>2. m = WithNext(m2, q, c, x)
      BY <2>2, <3>1 DEF Noted, WithNext
    <3>3. m \in Seq(Nodes(Len(m))) /\ Extended(m0, m, x, l, p, <<q, c>>)
      BY <1>2, <1>4, <3>2, TransitionSet
    <3> QED
      BY <3>1, <3>3
  <2> QED
    BY <2>1, <2>2
<1>6. IsFree(m, fl, DOMAIN m \ (Tree(m0, r0) \cup {x}))
  <2>1. DOMAIN m = DOMAIN m0 \cup {x}
    BY <1>5 DEF Extended
  <2>2. ASSUME NEW y \in DOMAIN m \ (Tree(m0, r0) \cup {x}) PROVE m[y].left = m0[y].left
    <3>1. y \in DOMAIN m0 \ {x}
      BY <2>1
    <3>2. m[y].left = IF p.field = "left" /\ p.node = y THEN x ELSE m0[y].left
      BY <1>5, <3>1 DEF Extended
    <3>3. p.field = "left" => p.node \in Tree(m0, r0)
      BY DEF FitsIn
    <3> QED
      BY <3>2, <3>3
  <2> QED
    BY <1>2, <1>3, <2>1, <2>2 DEF FreeAfter
<1>7. \A y \in Tree(m0, r0), c \in Alphabet : nextp = <<y, c>> => step(nfa, m0[y].l, c) = l
  <2> TAKE y \in Tree(m0, r0), c \in Alphabet
  <2> HAVE nextp = <<y, c>>
  <2>1. nextp # << >>
    OBVIOUS
  <2>2. PICK q \in Tree(m0, r0), b \in Alphabet : nextp = <<q, b>> /\ step(nfa, m0[q].l, b) = l
    BY <2>1
  <2>3. q = y /\ b = c
    BY <2>2
  <2> QED
    BY <2>2, <2>3
<1>8. CacheOK(nfa, m, r, fl, n0 + 1) /\ x \in Tree(m, r)
  BY <1>1, <1>2, <1>5, <1>6, <1>7, CacheExtended
<1>9. m[x].l = l
  BY <1>5 DEF Extended, DState
<1> QED
  BY <1>8, <1>9

LEMMA CacheFacts ==
  ASSUME NEW nfa, CacheOK(nfa, mem, alldstates, freelist, nstates)
  PROVE  /\ IsCacheTree /\ mem \in Seq(DStates) /\ freelist \in Pointer
         /\ Pointer = {NULL} \cup (1 .. Len(mem)) /\ Live \subseteq DOMAIN mem
         /\ IsFree(mem, freelist, DOMAIN mem \ Live)
         /\ nstates = Cardinality(Live) /\ nstates \in Nat /\ IsFiniteSet(Live)
         /\ DStates = Nodes(Len(mem))
<1>1. /\ mem \in Seq(Nodes(Len(mem))) /\ alldstates \in {NULL} \cup (1 .. Len(mem))
      /\ SearchTree(mem, alldstates) /\ OneParent(mem, alldstates)
      /\ IsFree(mem, freelist, DOMAIN mem \ Live) /\ nstates = Cardinality(Live)
  BY DEF CacheOK, Live
<1>2. /\ Linked(mem) /\ Lists(mem) /\ Len(mem) \in Nat /\ DOMAIN mem = 1 .. Len(mem)
      /\ IsFiniteSet(DOMAIN mem) /\ NULL \notin DOMAIN mem
  BY <1>1, MemoryFacts
<1>3. Pointer = {NULL} \cup (1 .. Len(mem))
  BY <1>2 DEF Pointer
<1>4. IsCacheTree
  BY <1>1, <1>2, <1>3 DEF IsCacheTree
<1>5. DStates = Nodes(Len(mem))
  BY <1>3 DEF DStates, Nodes
<1>6. freelist \in Pointer
  <2>1. freelist # NULL => freelist \in DOMAIN mem
    BY <1>1, <1>2, FreePop
  <2> QED
    BY <2>1 DEF Pointer
<1>7. Live \subseteq DOMAIN mem /\ IsFiniteSet(Live) /\ nstates \in Nat
  BY <1>1, <1>2, TreeWithin, TreeFinite DEF Live
<1> QED
  BY <1>1, <1>3, <1>4, <1>5, <1>6, <1>7

(* freecache leaves an empty tree, and all nodes on the free list. *)
LEMMA FreecacheRight ==
  ASSUME NEW nfa, CacheOK(nfa, mem, alldstates, freelist, nstates)
  PROVE  CacheOK(nfa, freestates.mem, NULL, freestates.freelist, 0)
<1> DEFINE k == freestates
           F == DOMAIN mem \ Live
<1>1. /\ IsCacheTree /\ mem \in Seq(DStates) /\ freelist \in Pointer
      /\ IsFree(mem, freelist, F) /\ Live \subseteq DOMAIN mem /\ DStates = Nodes(Len(mem))
      /\ DOMAIN mem = 1 .. Len(mem) /\ Len(mem) \in Nat
  BY CacheFacts DEF IsCacheTree
<1>2. /\ k \in Heaps /\ Len(k.mem) = Len(mem) /\ IsFree(k.mem, k.freelist, F \cup Live)
      /\ \A x \in DOMAIN mem : k.mem[x].l = mem[x].l
  <2>1. F \cap Live = {}
    OBVIOUS
  <2> HIDE DEF F
  <2> QED
    BY <1>1, <2>1, FreestatesRight
<1> HIDE DEF k
<1>3. k.mem \in Seq(Nodes(Len(k.mem)))
  <2>1. k.mem \in Seq(DStates)
    BY <1>2 DEF Heaps
  <2> QED
    BY <1>1, <1>2, <2>1
<1>4. DOMAIN k.mem = DOMAIN mem
  BY <1>1, <1>2, <1>3, MemoryFacts
<1>5. Tree(k.mem, NULL) = {}
  BY TreeOfNull
<1>6. IsFree(k.mem, k.freelist, DOMAIN k.mem \ Tree(k.mem, NULL))
  <2>1. F \cup Live = DOMAIN k.mem \ Tree(k.mem, NULL)
    BY <1>1, <1>4, <1>5
  <2> QED
    BY <1>2, <2>1
<1>7. \A x \in 1 .. Len(k.mem) : ListOK(nfa, k.mem[x].l)
  <2>1. \A x \in 1 .. Len(mem) : ListOK(nfa, mem[x].l)
    BY DEF CacheOK
  <2> QED
    BY <1>1, <1>2, <2>1
<1>8. 0 = Cardinality(Tree(k.mem, NULL)) /\ 0 =< maxstates
  BY <1>5, FS_EmptySet, DfaAssumption
<1>9. /\ SearchTree(k.mem, NULL) /\ OneParent(k.mem, NULL) /\ Transitions(nfa, k.mem, NULL)
  BY <1>5 DEF SearchTree, OneParent, Transitions
<1> QED
  BY <1>3, <1>6, <1>7, <1>8, <1>9 DEF CacheOK, k

(* dstate keeps the cache right and returns a node of it that holds list   *)
(* l.                                                                      *)
LEMMA DstateRight ==
  ASSUME CacheOK(prog.nfa, mem, alldstates, freelist, nstates),
         NEW l, ListOK(prog.nfa, l),
         NEW nextp, \/ nextp = << >>
                    \/ \E q \in Live : \E c \in Alphabet :
                         nextp = <<q, c>> /\ step(prog.nfa, mem[q].l, c) = l,
         dstate(l, nextp)
  PROVE  /\ CacheOK(prog.nfa, mem', alldstates', freelist', nstates')
         /\ d' \in Tree(mem', alldstates') /\ mem'[d'].l = l
<1> DEFINE p == Search(l)
<1>1. IsCacheTree /\ l \in Seq(Int) /\ nstates \in Nat
  BY CacheFacts DEF ListOK
<1>2. Reached(l, p) /\ (At(p) = NULL \/ Found(l, p))
  BY <1>1, SearchRight
<1>3. CASE Found(l, p)
  <2>1. d' = At(p) /\ UNCHANGED cacheVars
    BY <1>3 DEF dstate
  <2>2. At(p) \in Live /\ mem[At(p)].l = l
    BY <1>2, <1>3 DEF Found, Reached
  <2> HIDE DEF p
  <2> QED
    BY <2>1, <2>2 DEF cacheVars, Live
<1>4. CASE ~ Found(l, p)
  <2> DEFINE k == IF Full THEN freestates ELSE Heap
             dp == IF Full THEN Root ELSE p
             np == IF Full THEN << >> ELSE nextp
             x == NewAt(k.mem, k.freelist)
             m1 == NewMem(k.mem, k.freelist, x, l)
             m2 == Filled(m1, dp, x)
  <2>1. NewDState(l, p, nextp)
    BY <1>4 DEF dstate
  <2> HIDE DEF p
  <2>2. /\ mem' = Noted(m2, np, x)
        /\ freelist' = NewFree(k.mem, k.freelist)
        /\ alldstates' = NewRoot(dp, x, alldstates)
        /\ nstates' = IF Full THEN 1 ELSE nstates + 1
        /\ d' = x
    <3>1. d' = x
      BY <2>1 DEF NewDState, NewAt
    <3>2. freelist' = NewFree(k.mem, k.freelist) /\ nstates' = IF Full THEN 1 ELSE nstates + 1
      BY <2>1 DEF NewDState, NewFree
    <3>3. alldstates' = NewRoot(dp, x, alldstates)
      BY <2>1 DEF NewDState, NewAt, NewRoot
    <3>4. mem' = IF nextp # << >> /\ ~ Full
                 THEN [m2 EXCEPT ![nextp[1]].next[nextp[2]] = x] ELSE m2
      BY <2>1 DEF NewDState, NewAt, NewMem, Filled, Fresh, KeepsNextp
    <3>5. Noted(m2, np, x) = IF nextp # << >> /\ ~ Full
                             THEN [m2 EXCEPT ![nextp[1]].next[nextp[2]] = x] ELSE m2
      <4> HIDE DEF m2, x
      <4> QED
        BY DEF Noted
    <3> QED
      BY <3>1, <3>2, <3>3, <3>4, <3>5, Zenon
  <2>3. CASE ~ Full
    <3>1. k = Heap /\ dp = p /\ np = nextp
      BY <2>3
    <3>2. k.mem = mem /\ k.freelist = freelist
      BY <3>1 DEF Heap
    <3>3. nstates < maxstates
      BY <1>1, <2>3, DfaAssumption DEF Full
    <3>4. At(p) = NULL
      BY <1>2, <1>4 DEF p
    <3>5. p.field \in {"root", "left", "right"}
      BY <1>2 DEF Reached, Places
    <3>6. Vacant(mem, alldstates, p)
      BY <3>4, <3>5 DEF At, Vacant
    <3>7. FitsIn(mem, alldstates, l, p)
      BY <1>2 DEF Reached, Fits, FitsIn, Live
    <3>8. \/ nextp = << >>
          \/ \E q \in Tree(mem, alldstates) : \E c \in Alphabet :
               nextp = <<q, c>> /\ step(prog.nfa, mem[q].l, c) = l
      BY DEF Live
    <3>9. nstates' = nstates + 1 /\ mem' = Noted(m2, nextp, x) /\ m2 = Filled(m1, p, x)
          /\ x = NewAt(mem, freelist) /\ m1 = NewMem(mem, freelist, x, l)
          /\ freelist' = NewFree(mem, freelist) /\ alldstates' = NewRoot(p, x, alldstates)
      <4> HIDE DEF k, dp, np
      <4> QED
        BY <2>2, <2>3, <3>1, <3>2
    <3> HIDE DEF k, dp, np, x, m1, m2
    <3>10. /\ CacheOK(prog.nfa, mem', alldstates', freelist', nstates + 1)
           /\ x \in Tree(mem', alldstates') /\ mem'[x].l = l
      BY <3>3, <3>6, <3>7, <3>8, <3>9, NewNode
    <3> QED
      BY <2>2, <3>9, <3>10
  <2>4. CASE Full
    <3>1. k = freestates /\ dp = Root /\ np = << >>
      BY <2>4
    <3>2. CacheOK(prog.nfa, k.mem, NULL, k.freelist, 0)
      BY <3>1, FreecacheRight
    <3>3. 0 < maxstates
      BY DfaAssumption
    <3>4. Root.field = "root"
      BY DEF Root
    <3>5. Vacant(k.mem, NULL, Root) /\ FitsIn(k.mem, NULL, l, Root)
      BY <3>4 DEF Vacant, FitsIn
    <3>6. nstates' = 0 + 1 /\ mem' = Noted(m2, << >>, x) /\ m2 = Filled(m1, Root, x)
          /\ alldstates' = NewRoot(Root, x, NULL)
      <4>1. NewRoot(Root, x, alldstates) = NewRoot(Root, x, NULL)
        BY <3>4 DEF NewRoot
      <4> HIDE DEF k, dp, np
      <4> QED
        BY <2>2, <2>4, <3>1, <4>1
    <3>7. x = NewAt(k.mem, k.freelist) /\ m1 = NewMem(k.mem, k.freelist, x, l)
          /\ freelist' = NewFree(k.mem, k.freelist)
      BY <2>2
    <3> HIDE DEF k, dp, np, x, m1, m2
    <3>8. /\ CacheOK(prog.nfa, mem', alldstates', freelist', 0 + 1)
          /\ x \in Tree(mem', alldstates') /\ mem'[x].l = l
      BY <3>2, <3>3, <3>5, <3>6, <3>7, NewNode
    <3> QED
      BY <2>2, <3>6, <3>8
  <2> QED
    BY <2>3, <2>4
<1> QED
  BY <1>3, <1>4

-----------------------------------------------------------------------------
(* The theorems *)

LEMMA SeqWider ==
  ASSUME NEW S, NEW T, S \subseteq T, NEW q \in Seq(S)
  PROVE  q \in Seq(T)
OBVIOUS

(* There is nothing wrong with an empty cache. *)
LEMMA EmptyCache ==
  ASSUME NEW nfa
  PROVE  CacheOK(nfa, << >>, NULL, NULL, 0)
<1>1. << >> \in Seq(Nodes(Len(<< >>))) /\ 1 .. Len(<< >>) = {} /\ DOMAIN << >> = {}
  OBVIOUS
<1>2. Tree(<< >>, NULL) = {}
  BY TreeOfNull
<1>3. SearchTree(<< >>, NULL) /\ OneParent(<< >>, NULL) /\ Transitions(nfa, << >>, NULL)
  BY <1>2 DEF SearchTree, OneParent, Transitions
<1>4. IsFree(<< >>, NULL, DOMAIN << >> \ Tree(<< >>, NULL))
  <2>1. DOMAIN << >> \ Tree(<< >>, NULL) = {}
    BY <1>1
  <2> QED
    BY <2>1, FreeNone
<1>5. 0 = Cardinality(Tree(<< >>, NULL)) /\ 0 =< maxstates
  BY <1>2, FS_EmptySet, DfaAssumption
<1> QED
  BY <1>1, <1>3, <1>4, <1>5 DEF CacheOK

(* No list is in the tree twice: the search would find only one of them. *)
LEMMA ListsDiffer ==
  ASSUME IsCacheTree, NEW x \in Live, NEW y \in Live, mem[x].l = mem[y].l
  PROVE  x = y
<1> DEFINE l == mem[x].l
           p == Search(l)
           z == At(p)
<1>1. Linked(mem) /\ Lists(mem) /\ Live \subseteq DOMAIN mem
  BY TreeWithin DEF IsCacheTree, Live
<1>2. l \in Seq(Int)
  BY <1>1 DEF Lists
<1>3. Reached(l, p) /\ (z = NULL \/ Found(l, p))
  BY <1>2, SearchRight
<1> HIDE DEF p
<1>4. x \in Tree(mem, z) /\ y \in Tree(mem, z) /\ z \in Live \cup {NULL}
  BY <1>3 DEF Reached
<1>5. z \in Live
  BY <1>4, TreeOfNull
<1>6. z # NULL /\ mem[z].l = l
  <2>1. z # NULL
    BY <1>1, <1>5 DEF Linked
  <2> QED
    BY <1>3, <2>1 DEF Found
<1> HIDE DEF z, l
<1>7. Tree(mem, z) = {z} \cup Tree(mem, mem[z].left) \cup Tree(mem, mem[z].right)
  BY <1>1, <1>5, TreeParts
<1>8. ASSUME NEW w \in Live, w \in Tree(mem, z), mem[w].l = l PROVE w = z
  <2>1. ~ ListLess(l, l)
    BY <1>2, LessOneWay
  <2>2. w \in Tree(mem, mem[z].left) => ListLess(l, l)
    BY <1>5, <1>6, <1>8 DEF IsCacheTree, SearchTree, Live
  <2>3. w \in Tree(mem, mem[z].right) => ListLess(l, l)
    BY <1>5, <1>6, <1>8 DEF IsCacheTree, SearchTree, Live
  <2> QED
    BY <1>7, <1>8, <2>1, <2>2, <2>3
<1>9. mem[x].l = l /\ mem[y].l = l
  BY DEF l
<1> QED
  BY <1>4, <1>8, <1>9

(* The invariant holds when main begins, *)
LEMMA InvInit == Init => CacheInv
<1> SUFFICES ASSUME Init PROVE CacheInv
  OBVIOUS
<1>1. /\ re \in Regexps /\ phase = "compile" /\ text = << >> /\ d = NULL
      /\ mem = << >> /\ alldstates = NULL /\ freelist = NULL /\ nstates = 0
  BY DEF Init
<1>2. << >> \in Seq(Alphabet)
  OBVIOUS
<1> QED
  BY <1>1, <1>2 DEF CacheInv

(* after it has compiled the expression, *)
LEMMA InvCompile == CacheInv /\ Compile => CacheInv'
<1> SUFFICES ASSUME CacheInv, Compile PROVE CacheInv'
  OBVIOUS
<1> DEFINE post == re2post(re)
<1>1. /\ phase = "compile" /\ prog' = IF post.ok THEN post2nfa(post.post) ELSE prog
      /\ phase' = CASE ~ post.ok -> "bad" [] post.ok /\ ~ prog'.ok -> "undefined" [] OTHER -> "ready"
      /\ re' = re /\ mem' = mem /\ alldstates' = alldstates /\ freelist' = freelist
      /\ nstates' = nstates /\ d' = d /\ text' = text
  BY DEF Compile, cacheVars
<1>2. /\ mem = << >> /\ alldstates = NULL /\ freelist = NULL /\ nstates = 0 /\ d = NULL
      /\ re \in Regexps /\ text \in Seq(Alphabet)
  BY <1>1 DEF CacheInv
<1>3. post.post \in Seq(Labels)
  <2>1. re \in Seq(STRING)
    BY <1>2, DfaAssumption
  <2>2. STRING \subseteq Labels
    BY DEF Labels
  <2>3. re \in Seq(Labels)
    BY <2>1, <2>2, SeqWider
  <2> QED
    BY <2>3, Re2postRight
<1> HIDE DEF post
<1>4. phase' \in {"bad", "undefined", "ready"}
  BY <1>1
<1>5. phase' = "ready" => post.ok /\ prog'.ok
  BY <1>1
<1>6. phase' = "ready" => NfaOK(prog'.nfa) /\ prog'.start \in 1 .. Len(prog'.nfa)
  <2> HAVE phase' = "ready"
  <2>1. prog' = post2nfa(post.post) /\ post2nfa(post.post).ok
    BY <1>1, <1>5
  <2>2. /\ NfaOK(post2nfa(post.post).nfa)
        /\ post2nfa(post.post).start \in 1 .. Len(post2nfa(post.post).nfa)
    BY <1>3, <2>1, Post2nfaRight
  <2> QED
    BY <2>1, <2>2
<1>7. CacheOK(prog'.nfa, mem', alldstates', freelist', nstates')
  <2>1. CacheOK(prog'.nfa, << >>, NULL, NULL, 0)
    BY EmptyCache
  <2> QED
    BY <1>1, <1>2, <2>1
<1> QED
  BY <1>1, <1>2, <1>4, <1>6, <1>7 DEF CacheInv

(* when a string begins, *)
LEMMA InvStart == CacheInv /\ startdstate => CacheInv'
<1> SUFFICES ASSUME CacheInv, startdstate PROVE CacheInv'
  OBVIOUS
<1>1. /\ phase = "ready" /\ dstate(startlist(prog.nfa, prog.start), << >>) /\ phase' = "match"
      /\ re' = re /\ prog' = prog /\ text' = text
  BY DEF startdstate
<1>2. /\ NfaOK(prog.nfa) /\ prog.start \in 1 .. Len(prog.nfa)
      /\ CacheOK(prog.nfa, mem, alldstates, freelist, nstates)
      /\ re \in Regexps /\ text \in Seq(Alphabet)
  BY <1>1 DEF CacheInv
<1>3. prog.start \in Addresses(prog.nfa)
  BY <1>2 DEF Addresses
<1>4. ListOK(prog.nfa, startlist(prog.nfa, prog.start))
  BY <1>2, <1>3, StartlistRight
<1>5. PICK l : l = startlist(prog.nfa, prog.start)
  OBVIOUS
<1>6. ListOK(prog.nfa, l) /\ dstate(l, << >>)
  BY <1>1, <1>4, <1>5
<1>7. /\ CacheOK(prog.nfa, mem', alldstates', freelist', nstates')
      /\ d' \in Tree(mem', alldstates')
  BY <1>2, <1>6, DstateRight
<1> QED
  BY <1>1, <1>2, <1>7 DEF CacheInv, Live

(* after each of its characters, whether the transition was cached or      *)
(* not,                                                                    *)
LEMMA InvMatchChar == \A c \in Alphabet : CacheInv /\ MatchChar(c) => CacheInv'
<1> SUFFICES ASSUME NEW c \in Alphabet, CacheInv, MatchChar(c) PROVE CacheInv'
  OBVIOUS
<1>1. /\ phase = "match" /\ text' = Append(text, c)
      /\ re' = re /\ phase' = phase /\ prog' = prog
  BY DEF MatchChar
<1>2. /\ NfaOK(prog.nfa) /\ prog.start \in 1 .. Len(prog.nfa)
      /\ CacheOK(prog.nfa, mem, alldstates, freelist, nstates)
      /\ re \in Regexps /\ text \in Seq(Alphabet) /\ d \in Live
  BY <1>1 DEF CacheInv
<1>3. text' \in Seq(Alphabet)
  BY <1>1, <1>2
<1>4. /\ CacheOK(prog.nfa, mem', alldstates', freelist', nstates')
      /\ d' \in Tree(mem', alldstates')
  <2>1. CASE mem[d].next[c] # NULL
    <3>1. d' = mem[d].next[c] /\ UNCHANGED cacheVars
      BY <2>1 DEF MatchChar
    <3>2. mem[d].next[c] \in Tree(mem, alldstates)
      BY <1>2, <2>1 DEF CacheOK, Transitions, Live
    <3> QED
      BY <1>2, <3>1, <3>2 DEF cacheVars
  <2>2. CASE mem[d].next[c] = NULL
    <3>1. dstate(step(prog.nfa, mem[d].l, c), <<d, c>>)
      BY <2>2 DEF MatchChar
    <3>2. ListOK(prog.nfa, mem[d].l)
      <4>1. d \in 1 .. Len(mem)
        BY <1>2, CacheFacts DEF IsCacheTree
      <4> QED
        BY <1>2, <4>1 DEF CacheOK
    <3>3. ListOK(prog.nfa, step(prog.nfa, mem[d].l, c))
      BY <1>2, <3>2, StepRight
    <3>4. PICK l, nextp : l = step(prog.nfa, mem[d].l, c) /\ nextp = <<d, c>>
      OBVIOUS
    <3>5. ListOK(prog.nfa, l) /\ dstate(l, nextp)
      BY <3>1, <3>3, <3>4
    <3>6. \E q \in Live : \E b \in Alphabet : nextp = <<q, b>> /\ step(prog.nfa, mem[q].l, b) = l
      BY <1>2, <3>4
    <3> QED
      BY <1>2, <3>5, <3>6, DstateRight
  <2> QED
    BY <2>1, <2>2
<1> QED
  BY <1>1, <1>2, <1>3, <1>4 DEF CacheInv, Live

(* and at its end. *)
LEMMA InvMatchEnd == CacheInv /\ MatchEnd => CacheInv'
<1> SUFFICES ASSUME CacheInv, MatchEnd PROVE CacheInv'
  OBVIOUS
<1>1. /\ phase = "match" /\ phase' = "ready" /\ d' = NULL /\ text' = << >>
      /\ re' = re /\ prog' = prog /\ mem' = mem /\ alldstates' = alldstates
      /\ freelist' = freelist /\ nstates' = nstates
  BY DEF MatchEnd, cacheVars
<1>2. << >> \in Seq(Alphabet)
  OBVIOUS
<1> QED
  BY <1>1, <1>2 DEF CacheInv

LEMMA InvNext == CacheInv /\ [Next]_vars => CacheInv'
<1> SUFFICES ASSUME CacheInv, [Next]_vars PROVE CacheInv'
  OBVIOUS
<1>1. CASE UNCHANGED vars
  BY <1>1 DEF CacheInv, Live, vars, cacheVars
<1> QED
  BY <1>1, InvCompile, InvStart, InvMatchChar, InvMatchEnd DEF Next

LEMMA InvAlways == Spec => []CacheInv
BY InvInit, InvNext, PTL DEF Spec

(* It bounds the lists, *)
LEMMA InvTypes == CacheInv => TypeOK
<1> SUFFICES ASSUME CacheInv PROVE TypeOK
  OBVIOUS
<1>1. /\ re \in Regexps /\ phase \in {"compile", "bad", "undefined", "ready", "match"}
      /\ text \in Seq(Alphabet)
  BY DEF CacheInv
<1>2. CASE phase \notin {"ready", "match"}
  <2>1. mem = << >> /\ alldstates = NULL /\ freelist = NULL /\ nstates = 0 /\ d = NULL
    BY <1>2 DEF CacheInv
  <2>2. DOMAIN mem = {} /\ Pointer = {NULL}
    BY <2>1 DEF Pointer
  <2> QED
    BY <1>1, <2>1, <2>2 DEF TypeOK
<1>3. CASE phase \in {"ready", "match"}
  <2>1. /\ NfaOK(prog.nfa) /\ prog.start \in 1 .. Len(prog.nfa)
        /\ CacheOK(prog.nfa, mem, alldstates, freelist, nstates)
    BY <1>3 DEF CacheInv
  <2>2. /\ IsCacheTree /\ freelist \in Pointer /\ nstates \in Nat
        /\ Pointer = {NULL} \cup (1 .. Len(mem)) /\ Live \subseteq DOMAIN mem
    BY <2>1, CacheFacts
  <2>3. d \in Pointer
    BY <2>2 DEF CacheInv, Pointer
  <2>4. alldstates \in Pointer
    BY <2>2 DEF IsCacheTree
  <2>5. Len(prog.nfa) \in Nat /\ Len(prog.nfa) >= 1 /\ DOMAIN prog.nfa = 1 .. Len(prog.nfa)
    BY <2>1 DEF NfaOK
  <2>6. 0 .. Len(prog.nfa) = {Match} \cup DOMAIN prog.nfa
    BY <2>5 DEF Match
  <2>7. ASSUME NEW x \in DOMAIN mem
        PROVE  /\ mem[x].l \in Seq({Match} \cup DOMAIN prog.nfa)
               /\ IsInjective(mem[x].l) /\ Len(mem[x].l) <= Len(prog.nfa)
               /\ mem[x].next \in [Alphabet -> Pointer]
               /\ {mem[x].left, mem[x].right} \subseteq Pointer
    <3>1. ListOK(prog.nfa, mem[x].l)
      BY <2>1, <2>2 DEF CacheOK, IsCacheTree
    <3>2. mem[x].l \in Seq({Match} \cup DOMAIN prog.nfa)
      BY <2>6, <3>1 DEF ListOK
    <3>3. IsInjective(mem[x].l)
      <4>1. DOMAIN mem[x].l = 1 .. Len(mem[x].l)
        BY <3>2
      <4> QED
        BY <3>1, <4>1 DEF ListOK, IsInjective
    <3>4. Len(mem[x].l) <= Len(prog.nfa)
      BY <2>1, <2>5, <3>1, ListBound
    <3>5. /\ mem[x].next \in [Alphabet -> {NULL} \cup (1 .. Len(mem))]
          /\ mem[x].left \in {NULL} \cup (1 .. Len(mem))
          /\ mem[x].right \in {NULL} \cup (1 .. Len(mem))
      BY <2>1, MemoryFacts DEF CacheOK
    <3> QED
      BY <2>2, <3>2, <3>3, <3>4, <3>5
  <2> QED
    BY <1>1, <2>2, <2>3, <2>4, <2>7 DEF TypeOK
<1> QED
  BY <1>2, <1>3

(* The lists that match works with fit into the arrays that main and        *)
(* allocdstate allocate for them, whatever the regular expression: a list  *)
(* holds no state twice and at most nstate of them.                        *)
THEOREM MatcherTypes == Spec => []TypeOK
BY InvAlways, InvTypes, PTL

(* and says what CacheCoherent says, the free list being the nodes that    *)
(* left leads to.                                                          *)
LEMMA InvCoherent == CacheInv => CacheCoherent
<1> SUFFICES ASSUME CacheInv PROVE CacheCoherent
  OBVIOUS
<1> DEFINE Free == FreeNodes(mem, freelist)
<1>1. CASE phase \notin {"ready", "match"}
  <2>1. /\ mem = << >> /\ alldstates = NULL /\ freelist = NULL /\ nstates = 0 /\ phase # "match"
    BY <1>1 DEF CacheInv
  <2>2. Live = {} /\ DOMAIN mem = {}
    BY <2>1, TreeOfNull DEF Live
  <2>3. Free = {}
    BY <2>2 DEF FreeNodes
  <2>4. Cardinality(Live) = nstates /\ nstates <= maxstates
    BY <2>1, <2>2, FS_EmptySet, DfaAssumption
  <2> QED
    BY <2>1, <2>2, <2>3, <2>4 DEF CacheCoherent, Live
<1>2. CASE phase \in {"ready", "match"}
  <2>1. CacheOK(prog.nfa, mem, alldstates, freelist, nstates)
    BY <1>2 DEF CacheInv
  <2>2. /\ IsCacheTree /\ Live \subseteq DOMAIN mem /\ nstates = Cardinality(Live)
        /\ IsFree(mem, freelist, DOMAIN mem \ Live) /\ NULL \notin DOMAIN mem
    BY <2>1, CacheFacts DEF IsCacheTree, Linked
  <2>3. Free = DOMAIN mem \ Live
    BY <2>2, FreeFound
  <2>4. Cardinality(Live) = nstates /\ nstates <= maxstates
    BY <2>1, <2>2 DEF CacheOK
  <2>5. phase = "match" => d \in Live
    BY DEF CacheInv
  <2>6. \A x, y \in Live : x # y => mem[x].l # mem[y].l
    BY <2>2, ListsDiffer
  <2>7. \A x \in Live : \A c \in Alphabet :
          mem[x].next[c] # NULL =>
            mem[x].next[c] \in Live /\ mem[mem[x].next[c]].l = step(prog.nfa, mem[x].l, c)
    BY <2>1 DEF CacheOK, Transitions, Live
  <2>8. Live \cap Free = {} /\ Live \cup Free = DOMAIN mem
    BY <2>2, <2>3
  <2> HIDE DEF Free
  <2> QED
    BY <2>4, <2>5, <2>6, <2>7, <2>8 DEF CacheCoherent, Live, Free
<1> QED
  BY <1>1, <1>2

(* However small the cache and whatever the strings, throwing the cache     *)
(* away (freecache) leaves no transition to a node that was freed or holds *)
(* another list now, no node is both in the tree and on the free list, and *)
(* none is lost.                                                           *)
THEOREM CacheKept == Spec => []CacheCoherent
BY InvAlways, InvCoherent, PTL
-----------------------------------------------------------------------------
(* The matcher without a cache *)

LEMMA NfaInit == Init => Nfa!Init
BY DEF Init, Nfa!Init, CurrentList

LEMMA NfaCompile == Compile => Nfa!Compile
<1> SUFFICES ASSUME Compile PROVE Nfa!Compile
  OBVIOUS
<1> QED
  BY DEF Compile, Nfa!Compile, CurrentList, cacheVars

(* startdstate, in whatever state the earlier strings have left the cache,  *)
(* stands on the list that startlist computes.                             *)
LEMMA NfaStart == CacheInv /\ startdstate => Nfa!MatchBegin
<1> SUFFICES ASSUME CacheInv, startdstate PROVE Nfa!MatchBegin
  OBVIOUS
<1>1. /\ phase = "ready" /\ strings < MaxStrings /\ phase' = "match"
      /\ dstate(startlist(prog.nfa, prog.start), << >>)
      /\ re' = re /\ prog' = prog /\ text' = text /\ strings' = strings
  BY DEF startdstate
<1>2. /\ NfaOK(prog.nfa) /\ prog.start \in 1 .. Len(prog.nfa)
      /\ CacheOK(prog.nfa, mem, alldstates, freelist, nstates)
  BY <1>1 DEF CacheInv
<1>3. prog.start \in Addresses(prog.nfa)
  BY <1>2 DEF Addresses
<1>4. PICK l : l = startlist(prog.nfa, prog.start)
  OBVIOUS
<1>5. ListOK(prog.nfa, l) /\ dstate(l, << >>)
  BY <1>1, <1>2, <1>3, <1>4, StartlistRight
<1>6. mem'[d'].l = l
  BY <1>2, <1>5, DstateRight
<1>7. CurrentList' = startlist(prog.nfa, prog.start)
  BY <1>1, <1>4, <1>6 DEF CurrentList
<1> QED
  BY <1>1, <1>7 DEF Nfa!MatchBegin

(* A cached transition leads to the list that step computes, and so does   *)
(* nextstate, whether it finds the list or throws the cache away for it.   *)
LEMMA NfaMatchChar == \A c \in Alphabet : CacheInv /\ MatchChar(c) => Nfa!MatchChar(c)
<1> SUFFICES ASSUME NEW c \in Alphabet, CacheInv, MatchChar(c) PROVE Nfa!MatchChar(c)
  OBVIOUS
<1>1. /\ phase = "match" /\ Len(text) < MaxChars /\ text' = Append(text, c)
      /\ re' = re /\ phase' = phase /\ prog' = prog /\ strings' = strings
  BY DEF MatchChar
<1>2. /\ NfaOK(prog.nfa) /\ CacheOK(prog.nfa, mem, alldstates, freelist, nstates) /\ d \in Live
  BY <1>1 DEF CacheInv
<1>3. mem'[d'].l = step(prog.nfa, mem[d].l, c)
  <2>1. CASE mem[d].next[c] # NULL
    <3>1. d' = mem[d].next[c] /\ mem' = mem
      BY <2>1 DEF MatchChar, cacheVars
    <3>2. mem[mem[d].next[c]].l = step(prog.nfa, mem[d].l, c)
      BY <1>2, <2>1 DEF CacheOK, Transitions, Live
    <3> QED
      BY <3>1, <3>2
  <2>2. CASE mem[d].next[c] = NULL
    <3>1. dstate(step(prog.nfa, mem[d].l, c), <<d, c>>)
      BY <2>2 DEF MatchChar
    <3>2. d \in 1 .. Len(mem)
      BY <1>2, CacheFacts DEF IsCacheTree
    <3>3. ListOK(prog.nfa, mem[d].l)
      BY <1>2, <3>2 DEF CacheOK
    <3>4. PICK l, nextp : l = step(prog.nfa, mem[d].l, c) /\ nextp = <<d, c>>
      OBVIOUS
    <3>5. ListOK(prog.nfa, l) /\ dstate(l, nextp)
      BY <1>2, <3>1, <3>3, <3>4, StepRight
    <3>6. \E q \in Live : \E b \in Alphabet : nextp = <<q, b>> /\ step(prog.nfa, mem[q].l, b) = l
      BY <1>2, <3>4
    <3> QED
      BY <1>2, <3>4, <3>5, <3>6, DstateRight
  <2> QED
    BY <2>1, <2>2
<1>4. CurrentList = mem[d].l /\ CurrentList' = step(prog.nfa, mem[d].l, c)
  BY <1>1, <1>3 DEF CurrentList
<1> QED
  BY <1>1, <1>4 DEF Nfa!MatchChar

LEMMA NfaMatchEnd == MatchEnd => Nfa!MatchEnd
BY DEF MatchEnd, Nfa!MatchEnd, CurrentList

(* Every step of the matcher with a cache is one of the matcher without.   *)
LEMMA NfaNext == CacheInv /\ [Next]_vars => [Nfa!Next]_Nfa!vars
<1> SUFFICES ASSUME CacheInv, [Next]_vars PROVE [Nfa!Next]_Nfa!vars
  OBVIOUS
<1>1. CASE UNCHANGED vars
  BY <1>1 DEF vars, cacheVars, Nfa!vars, CurrentList
<1>2. CASE Next
  <2>1. Nfa!Next
    BY <1>2, NfaCompile, NfaStart, NfaMatchChar, NfaMatchEnd DEF Next, Nfa!Next
  <2> QED
    BY <2>1
<1> QED
  BY <1>1, <1>2

(* The matcher of bounded-mem-dfa.c implements that of nfa.c: for every     *)
(* expression, every sequence of strings and every cache size, match stands *)
(* on the list that nfa.c would have, and so returns the same.             *)
THEOREM CacheInvisible == Spec => ImplementsNfa
BY InvAlways, NfaInit, NfaNext, PTL DEF Spec, ImplementsNfa, Nfa!Spec
=============================================================================
