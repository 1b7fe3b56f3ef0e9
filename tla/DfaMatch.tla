------------------------------ MODULE DfaMatch ------------------------------
(***************************************************************************)
(* The program of c-study/dfa-about/bounded-mem-dfa.c: it compiles a       *)
(* regular expression and matches strings with a DFA built on the fly.     *)
(* DStates are kept in a search tree of at most maxstates nodes; when it   *)
(* is full, all of them go to a free list and are used again.              *)
(*                                                                         *)
(* malloc succeeds, as the code assumes.  ptrcmp compares the places of    *)
(* two list elements and not the elements, so qsort finds every list       *)
(* sorted and leaves it as it is.                                          *)
(***************************************************************************)
EXTENDS Regexp, FiniteSets

CONSTANTS
  Regexps,      \* the regular expressions to try
  Alphabet,
  maxstates,
  MaxStrings, MaxChars  \* how many strings are matched, how long each can be

ASSUME DfaAssumption ==
  /\ Regexps \subseteq Seq(STRING)
  /\ maxstates \in Nat \ {0} /\ MaxStrings \in Nat /\ MaxChars \in Nat

VARIABLES
  re,           \* argv[1]
  phase,        \* "compile", "bad" (re2post returned NULL), "undefined" (the
                \* fragment stack underflows), "ready" or "match"
  prog,         \* the NFA and its start state
  mem,          \* the DStates malloc has returned, by address
  alldstates, freelist, nstates,
  d, text,      \* match: the current DState and the characters read so far
  strings       \* how many strings were matched

cacheVars == <<mem, alldstates, freelist, nstates>>
vars == <<re, phase, prog, cacheVars, d, text, strings>>

DState(l) == [l |-> l, next |-> [c \in Alphabet |-> NULL], left |-> NULL, right |-> NULL]

Init ==
  /\ re \in Regexps
  /\ phase = "compile"
  /\ prog = [ok |-> FALSE, nfa |-> <<>>, start |-> NULL]
  /\ mem = <<>>
  /\ alldstates = NULL /\ freelist = NULL /\ nstates = 0
  /\ d = NULL /\ text = <<>> /\ strings = 0

(* main up to the loop. *)
Compile ==
  /\ phase = "compile"
  /\ LET post == re2post(re)
     IN /\ prog' = IF post.ok THEN post2nfa(post.post) ELSE prog
        /\ phase' = CASE ~ post.ok -> "bad"
                      [] post.ok /\ ~ prog'.ok -> "undefined"
                      [] OTHER -> "ready"
  /\ UNCHANGED <<re, cacheVars, d, text, strings>>

-----------------------------------------------------------------------------
(* The cache *)

(* listcmp < 0: shorter, or smaller at the first difference. *)
ListLess(l1, l2) ==
  \/ Len(l1) < Len(l2)
  \/ /\ Len(l1) = Len(l2)
     /\ \E i \in DOMAIN l1 : l1[i] < l2[i] /\ \A j \in 1 .. i - 1 : l1[j] = l2[j]

Pointer == {NULL} \cup DOMAIN mem

(* dp of dstate: the address of alldstates or of a field of a DState.      *)
Places == [node : Pointer, field : {"root", "left", "right"}]
Root == [node |-> NULL, field |-> "root"]

(* *dp *)
At(p) ==
  CASE p.field = "root" -> alldstates
    [] p.field = "left" -> mem[p.node].left
    [] p.field = "right" -> mem[p.node].right

(* A faulty Found: the loop of listcmp leaves out the last element. *)
FoundButLast(l, p) ==
  /\ At(p) # NULL /\ Len(mem[At(p)].l) = Len(l)
  /\ \A i \in 1 .. Len(l) - 1 : mem[At(p)].l[i] = l[i]

Found(l, p) == At(p) # NULL /\ mem[At(p)].l = l

(* One round of the search of dstate, which ends at list l or at NULL.     *)
Descend(l, p) ==
  IF At(p) = NULL \/ Found(l, p) THEN p
  ELSE [node |-> At(p), field |-> IF ListLess(l, mem[At(p)].l) THEN "left" ELSE "right"]

(* No path is longer than the number of nodes. *)
Search(l) == Rounds(Len(mem), [k \in 1 .. Len(mem) |-> [p \in Places |-> Descend(l, p)]], Root)

(* One level more of the recursion of freestates: the order in which it     *)
(* puts the nodes below x on the free list, given that for its subtrees.   *)
Deeper(post) ==
  [x \in Pointer |-> IF x = NULL THEN <<>>
                      ELSE post[mem[x].left] \o post[mem[x].right] \o <<x>>]

PostOrder ==
  Rounds(Len(mem), [k \in 1 .. Len(mem) |-> [post \in [Pointer -> Seq(DOMAIN mem)] |-> Deeper(post)]],
         [x \in Pointer |-> <<>>])

DStates == [l : Seq(Int), next : [Alphabet -> Pointer], left : Pointer, right : Pointer]
Heaps == [mem : Seq(DStates), freelist : Pointer]

(* d->left = freelist; freelist = d; *)
Release(k, x) == [mem |-> [k.mem EXCEPT ![x].left = k.freelist], freelist |-> x]

Heap == [mem |-> mem, freelist |-> freelist]

(* freestates(alldstates) *)
freestates ==
  LET order == PostOrder[alldstates]
  IN Rounds(Len(order), [i \in DOMAIN order |-> [k \in Heaps |-> Release(k, order[i])]], Heap)

(* A faulty Fresh: memset is forgotten. *)
FreshStale(m, x, l) == IF x \in DOMAIN m THEN [DState(l) EXCEPT !.next = m[x].next] ELSE DState(l)

(* What allocdstate and memmove make of the node at x. *)
Fresh(m, x, l) == DState(l)

(* A faulty KeepsNextp: it is forgotten that the cache was thrown away. *)
KeepsNextpAlways(full) == TRUE

(* nextp = NULL when the cache was thrown away. *)
KeepsNextp(full) == ~ full

Full == nstates >= maxstates

(* The rest of dstate: a new node for list l, at place dp or, after          *)
(* freecache, as the root of a new tree.                                   *)
NewDState(l, place, nextp) ==
  LET k  == IF Full THEN freestates ELSE Heap
      dp == IF Full THEN Root ELSE place
      x  == IF k.freelist # NULL THEN k.freelist ELSE Len(k.mem) + 1
      m1 == IF k.freelist # NULL THEN [k.mem EXCEPT ![x] = Fresh(k.mem, x, l)]
                                 ELSE Append(k.mem, Fresh(k.mem, x, l))
      m2 == CASE dp.field = "root" -> m1
              [] dp.field = "left" -> [m1 EXCEPT ![dp.node].left = x]
              [] dp.field = "right" -> [m1 EXCEPT ![dp.node].right = x]
  IN /\ mem' = IF nextp # <<>> /\ KeepsNextp(Full)
               THEN [m2 EXCEPT ![nextp[1]].next[nextp[2]] = x] ELSE m2
     /\ freelist' = IF k.freelist # NULL THEN k.mem[k.freelist].left ELSE NULL
     /\ alldstates' = IF dp.field = "root" THEN x ELSE alldstates
     /\ nstates' = IF Full THEN 1 ELSE nstates + 1
     /\ d' = x

(* nextp is <<state, character>>, or empty for NULL. *)
dstate(l, nextp) ==
  LET p == Search(l)
  IN IF Found(l, p) THEN d' = At(p) /\ UNCHANGED cacheVars
                    ELSE NewDState(l, p, nextp)

-----------------------------------------------------------------------------
(* The loop of main, string by string and character by character.          *)

startdstate ==
  /\ phase = "ready" /\ strings < MaxStrings
  /\ dstate(startlist(prog.nfa, prog.start), <<>>)
  /\ phase' = "match"
  /\ UNCHANGED <<re, prog, text, strings>>

(* One round of match: the cached state, or nextstate. *)
MatchChar(c) ==
  /\ phase = "match" /\ Len(text) < MaxChars
  /\ IF mem[d].next[c] # NULL
     THEN d' = mem[d].next[c] /\ UNCHANGED cacheVars
     ELSE dstate(step(prog.nfa, mem[d].l, c), <<d, c>>)
  /\ text' = Append(text, c)
  /\ UNCHANGED <<re, phase, prog, strings>>

(* The end of the string; match returns Matched. *)
Matched == ismatch(mem[d].l)

MatchEnd ==
  /\ phase = "match"
  /\ phase' = "ready"
  /\ d' = NULL /\ text' = <<>> /\ strings' = strings + 1
  /\ UNCHANGED <<re, prog, cacheVars>>

Next == Compile \/ startdstate \/ (\E c \in Alphabet : MatchChar(c)) \/ MatchEnd

Spec == Init /\ [][Next]_vars

-----------------------------------------------------------------------------
(* Properties *)

(* With it, a list holds no state twice and fits into the nstate elements   *)
(* that main (line 536) and allocdstate (line 402) allocate, although       *)
(* matchstate is not counted in nstate.                                    *)
TypeOK ==
  /\ re \in Regexps
  /\ phase \in {"compile", "bad", "undefined", "ready", "match"}
  /\ \A x \in DOMAIN mem :
       /\ mem[x].l \in Seq({Match} \cup DOMAIN prog.nfa)
       /\ IsInjective(mem[x].l) /\ Len(mem[x].l) <= Len(prog.nfa)
       /\ mem[x].next \in [Alphabet -> Pointer]
       /\ {mem[x].left, mem[x].right} \subseteq Pointer
  /\ {alldstates, freelist, d} \subseteq Pointer
  /\ nstates \in Nat /\ text \in Seq(Alphabet)

(* The nodes that left and right lead to from x: those in every set that    *)
(* has x and is closed under both.                                         *)
Tree(m, x) ==
  {y \in DOMAIN m : \A S \in SUBSET DOMAIN m :
     /\ x \in S \cup {NULL}
     /\ \A z \in S : m[z].left \in S \cup {NULL} /\ m[z].right \in S \cup {NULL}
     => y \in S}

(* The nodes of the free list that begins with x. *)
FreeNodes(m, x) ==
  {y \in DOMAIN m : \A S \in SUBSET DOMAIN m :
     /\ x \in S \cup {NULL}
     /\ \A z \in S : m[z].left \in S \cup {NULL}
     => y \in S}

(* The cache holds nstates <= maxstates nodes of different lists, the others *)
(* are on the free list, and freecache (line 428) leaves nothing behind: no  *)
(* cached transition leads to a node that was freed or has become another   *)
(* state since, and match never stands on a freed node.                    *)
CacheCoherent ==
  LET Live == Tree(mem, alldstates)
      Free == FreeNodes(mem, freelist)
  IN /\ Cardinality(Live) = nstates /\ nstates <= maxstates
     /\ Live \cap Free = {} /\ Live \cup Free = DOMAIN mem
     /\ phase = "match" => d \in Live
     /\ \A x, y \in Live : x # y => mem[x].l # mem[y].l
     /\ \A x \in Live : \A c \in Alphabet :
          LET n == mem[x].next[c]
          IN n # NULL => n \in Live /\ mem[n].l = step(prog.nfa, mem[x].l, c)

(* The current list of states, which d stands for. *)
CurrentList == IF phase = "match" THEN mem[d].l ELSE <<>>

Nfa == INSTANCE NfaMatch WITH clist <- CurrentList

(* The cache does not show: after every character of every string the list  *)
(* of the DState that match stands on, computed now (nextstate, line 489)   *)
(* or long ago for another string (line 505), is the one that nfa.c         *)
(* computes, with its states in the same order.                            *)
ImplementsNfa == Nfa!Spec
=============================================================================
