-------------------------------- MODULE BTree --------------------------------
(***************************************************************************)
(* The B+ tree of python-study/simple_code/bplus_tree_v2.py: insert, and   *)
(* the look-ups that walk the leaves through their bro lists.              *)
(*                                                                         *)
(* An object is an index into the sequence nodes, in order of creation,    *)
(* and 0 is None.  The i-th call of insert stores the value i.             *)
(***************************************************************************)
EXTENDS Integers, SequencesExt

CONSTANTS
  Keys,         \* the keys inserted
  L,            \* upper_keyx_keys: the keys a node may store
  MaxInserts    \* bound on the calls of insert

M == L + 1

ASSUME BTreeAssumption == Keys \subseteq Int /\ L \in Nat /\ M > 3 /\ MaxInserts \in Nat

VARIABLES
  nodes,   \* the node objects
  root,    \* self.__root; self.__leaf is always node 1
  log      \* history: the keys in the order of insertion

vars == <<nodes, root, log>>

Bptree_Leaf(vlist, par) == [isleaf |-> TRUE, vlist |-> vlist, bro |-> << >>, par |-> par]
Bptree_InterNode(ilist, clist, par) ==
  [isleaf |-> FALSE, ilist |-> ilist, clist |-> clist, par |-> par]

isfull(n) == IF n.isleaf THEN Len(n.vlist) > L ELSE Len(n.ilist) >= M

(* bisect_right and bisect_left of a sorted sequence of keys. *)
bisect_right(keys, k) == Cardinality({i \in DOMAIN keys : keys[i] =< k})
bisect_left(keys, k) == Cardinality({i \in DOMAIN keys : keys[i] < k})

KeysOf(vlist) == [i \in DOMAIN vlist |-> vlist[i].key]

-----------------------------------------------------------------------------
(* insert, on a tree t = [nodes, root] *)

(* A faulty Adopt: the children moved to a new node keep their parent. *)
AdoptNot(ns, new) == ns

(* for c in newnode.clist: c.par = newnode *)
Adopt(ns, new) ==
  [n \in DOMAIN ns |-> IF Contains(ns[new].clist, n) THEN [ns[n] EXCEPT !.par = new] ELSE ns[n]]

(* A node without parent was split: n and new go under a new root. *)
NewRoot(t, n, new, sep) ==
  [ nodes |-> [Append(t.nodes, Bptree_InterNode(<<sep>>, <<n, new>>, 0))
                 EXCEPT ![n].par = Len(t.nodes) + 1, ![new].par = Len(t.nodes) + 1],
    root |-> Len(t.nodes) + 1 ]

(* The new node goes next to n, behind the separator sep. *)
Attach(t, n, new, sep) ==
  LET par == t.nodes[n].par
      i == SelectInSeq(t.nodes[par].clist, LAMBDA c : c = n)
  IN IF par = 0 THEN NewRoot(t, n, new, sep)
     ELSE [ t EXCEPT !.nodes[par].ilist = InsertAt(@, i, sep),
                     !.nodes[par].clist = InsertAt(@, i + 1, new) ]

(* A faulty Promoted: one separator too far to the right. *)
PromotedNext(ilist, mid) == ilist[mid + 1]

(* The separator that moves up, n1.ilist[mid-1]. *)
Promoted(ilist, mid) == ilist[mid]

(* split_node; the parent is split, if it is full now, before n1 is cut.    *)
RECURSIVE split_node(_, _)
split_node(t, n1) ==
  LET mid == (M + 2) \div 2
      n == t.nodes[n1]
      new == Len(t.nodes) + 1
      newnode == Bptree_InterNode(SubSeq(n.ilist, mid + 1, Len(n.ilist)),
                                  SubSeq(n.clist, mid + 1, Len(n.clist)), n.par)
      attached == Attach([t EXCEPT !.nodes = Adopt(Append(@, newnode), new)],
                         n1, new, Promoted(n.ilist, mid))
      t1 == IF n.par # 0 /\ isfull(attached.nodes[n.par])
            THEN split_node(attached, n.par) ELSE attached
  IN [t1 EXCEPT !.nodes[n1].ilist = SubSeq(n.ilist, 1, mid - 1),
                !.nodes[n1].clist = SubSeq(n.clist, 1, mid)]

(* A faulty NewBro: the new leaf goes to the front of the list. *)
NewBroFront(bro, new) == <<new>> \o bro

(* n2.bro.append(newleaf) *)
NewBro(bro, new) == Append(bro, new)

split_leaf(t, n2) ==
  LET mid == (L + 2) \div 2
      n == t.nodes[n2]
      new == Len(t.nodes) + 1
      newleaf == Bptree_Leaf(SubSeq(n.vlist, mid + 1, Len(n.vlist)), n.par)
      attached == Attach([t EXCEPT !.nodes = Append(@, newleaf)], n2, new, n.vlist[mid + 1].key)
      t1 == IF n.par # 0 /\ isfull(attached.nodes[n.par])
            THEN split_node(attached, n.par) ELSE attached
  IN [t1 EXCEPT !.nodes[n2].vlist = SubSeq(n.vlist, 1, mid),
                !.nodes[n2].bro = NewBro(@, new)]

(* A faulty Place: a key goes before the ones equal to it. *)
PlaceLeft(vlist, k) == bisect_left(KeysOf(vlist), k)

Place(vlist, k) == bisect_right(KeysOf(vlist), k)

RECURSIVE insert_node(_, _, _)
insert_node(t, n, kv) ==
  LET node == t.nodes[n]
      t1 == [t EXCEPT !.nodes[n].vlist = InsertAt(@, Place(@, kv.key) + 1, kv)]
      t2 == split_node(t, n)
  IN CASE node.isleaf -> IF isfull(t1.nodes[n]) THEN split_leaf(t1, n) ELSE t1
       [] ~ node.isleaf /\ isfull(node) -> insert_node(t2, t2.nodes[n].par, kv)
       [] OTHER -> insert_node(t, node.clist[bisect_right(node.ilist, kv.key) + 1], kv)

(* __init__ *)
Init == nodes = << Bptree_Leaf(<< >>, 0) >> /\ root = 1 /\ log = << >>

insert(key) ==
  LET t == insert_node([nodes |-> nodes, root |-> root], root,
                       [key |-> key, value |-> Len(log) + 1])
  IN /\ Len(log) < MaxInserts
     /\ nodes' = t.nodes /\ root' = t.root
     /\ log' = Append(log, key)

Next == \E key \in Keys : insert(key)

Spec == Init /\ [][Next]_vars

-----------------------------------------------------------------------------
(* traversal from a leaf, lookup_range and lookup *)

RECURSIVE traversal(_)
traversal(n) ==
  LET bro == Reverse(nodes[n].bro)
  IN nodes[n].vlist \o FlattenSeq([i \in DOMAIN bro |-> traversal(bro[i])])

lookup_range(low, up) ==
  LET q == traversal(1)
      keys == KeysOf(q)
      found == SubSeq(q, bisect_left(keys, low) + 1, bisect_right(keys, up))
  IN [i \in DOMAIN found |-> found[i].value]

(* 0 is None. *)
lookup(key) == LET q == lookup_range(key, key) IN IF q = << >> THEN 0 ELSE q[1]

-----------------------------------------------------------------------------
(* Properties *)

TypeOK ==
  /\ root \in DOMAIN nodes /\ \A n \in DOMAIN nodes : nodes[n].par = 0 <=> n = root
  /\ log \in Seq(Keys) /\ Len(log) =< MaxInserts
  /\ \A n \in DOMAIN nodes :
       /\ nodes[n].par \in 0 .. Len(nodes)
       /\ IF nodes[n].isleaf
          THEN /\ nodes[n].bro \in Seq(DOMAIN nodes)
               /\ nodes[n].vlist \in Seq([key : Keys, value : 1 .. MaxInserts])
          ELSE nodes[n].ilist \in Seq(Keys) /\ nodes[n].clist \in Seq(DOMAIN nodes)

(* The children of a node know it as their parent, and no node stores more  *)
(* than "the upper_keyximum number of keys" (line 150), also after a split  *)
(* has run up through several levels before the nodes below were cut.      *)
TreeSound ==
  /\ TypeOK
  /\ \A n \in DOMAIN nodes :
       IF nodes[n].isleaf THEN Len(nodes[n].vlist) =< L
       ELSE /\ Len(nodes[n].ilist) \in 1 .. L
            /\ Len(nodes[n].clist) = Len(nodes[n].ilist) + 1
            /\ \A i \in DOMAIN nodes[n].clist : nodes[nodes[n].clist[i]].par = n

(* The leaves below a node, from left to right. *)
RECURSIVE Below(_)
Below(n) ==
  IF nodes[n].isleaf THEN nodes[n].vlist
  ELSE FlattenSeq([i \in DOMAIN nodes[n].clist |-> Below(nodes[n].clist[i])])

(* Every separator divides the keys to its left from those to its right.    *)
SeparatorsDivide ==
  \A n \in DOMAIN nodes : ~ nodes[n].isleaf =>
    \A i \in DOMAIN nodes[n].ilist :
      /\ \A kv \in Range(Below(nodes[n].clist[i])) : kv.key =< nodes[n].ilist[i]
      /\ \A kv \in Range(Below(nodes[n].clist[i + 1])) : nodes[n].ilist[i] =< kv.key

(* The chain of bro lists, which look-ups use, and the tree, which insert   *)
(* uses, hold the same entries in the same order.                          *)
ChainFollowsTree == traversal(1) = Below(root)

(* Look-ups find every entry inserted and nothing else, sorted by key and   *)
(* duplicates in the order of insertion ("return the first one added",     *)
(* line 261).                                                              *)
LookupExact ==
  LET Before(i, j) == log[i] < log[j] \/ (log[i] = log[j] /\ i < j)
  IN \A low, up \in Keys :
       /\ low =< up =>
            LET found == lookup_range(low, up)
            IN /\ Range(found) = {i \in DOMAIN log : low =< log[i] /\ log[i] =< up}
               /\ \A i, j \in DOMAIN found : i < j => Before(found[i], found[j])
       /\ lookup(low) = SelectInSeq(log, LAMBDA k : k = low)
=============================================================================
