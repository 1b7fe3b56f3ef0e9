------------------------------- MODULE Regexp -------------------------------
(***************************************************************************)
(* The regular expression compiler and the Thompson simulation of          *)
(* c-study/dfa-about/bounded-mem-dfa.c (nfa.c and dfa.c hold the same      *)
(* functions), as operators.  A regular expression is a sequence of        *)
(* characters, of which "(", "|", ")", "*", "+" and "?" are operators and  *)
(* "." is the concatenation that re2post inserts.                          *)
(*                                                                         *)
(* An NFA is the sequence of its states in the order state() allocates     *)
(* them, so a state's address is its index; 0 is matchstate, -1 is NULL.   *)
(***************************************************************************)
EXTENDS Integers, Sequences, SequencesExt

Match == 0
NULL == -1
Operators == {"(", "|", ")", "*", "+", "?", "."}

(* What an NFA state can be labelled with.  All of them are strings; those  *)
(* with a meaning of their own are named for the provers' sake.            *)
Labels == STRING \cup Operators \cup {"Split"}

(* sizeof buf, and how many elements paren and stack have. *)
BufSize == 8000
ParenSize == 100
StackSize == 1000

(* A loop of n rounds: a, then body[1] of it, then body[2] of that, ...    *)
Rounds(n, body, a) ==
  LET after[k \in 0 .. n] == IF k = 0 THEN a ELSE body[k][after[k - 1]]
  IN after[n]

-----------------------------------------------------------------------------
(* re2post *)

(* while(--natom > 0) *dst++ = '.'; and for(; nalt > 0; nalt--) *dst++ = '|'; *)
Dots(natom) == IF natom > 1 THEN [i \in 1 .. natom - 1 |-> "."] ELSE <<>>
Bars(nalt) == [i \in 1 .. nalt |-> "|"]

(* if(natom > 1){ --natom; *dst++ = '.'; } *)
JoinAtoms(p) ==
  IF p.natom > 1 THEN [p EXCEPT !.natom = @ - 1, !.dst = Append(@, ".")] ELSE p

Bad(p) == [p EXCEPT !.ok = FALSE]


(* A ")" is accepted: one is open, and something is in it. *)
CanClose(p) == p.paren # <<>> /\ p.natom # 0

(* The variables of re2post; ok is FALSE once it has returned NULL. *)
Posts == [dst : Seq(Labels), nalt : Nat, natom : Nat, paren : Seq(Nat \X Nat), ok : BOOLEAN]

(* One round of the loop. *)
PostChar(p, c) ==
  IF ~ p.ok THEN p ELSE
  CASE c = "(" ->
         LET j == JoinAtoms(p)
         IN IF Len(p.paren) >= ParenSize THEN Bad(j)
            ELSE [j EXCEPT !.paren = Append(@, <<j.nalt, j.natom>>), !.nalt = 0, !.natom = 0]
    [] c = "|" ->
         IF p.natom = 0 THEN Bad(p)
         ELSE [p EXCEPT !.dst = @ \o Dots(p.natom), !.natom = 0, !.nalt = @ + 1]
    [] c = ")" ->
         IF ~ CanClose(p) THEN Bad(p)
         ELSE [p EXCEPT !.dst = @ \o Dots(p.natom) \o Bars(p.nalt),
                        !.nalt = Last(p.paren)[1], !.natom = Last(p.paren)[2] + 1,
                        !.paren = Front(@)]
    [] c \in {"*", "+", "?"} ->
         IF p.natom = 0 THEN Bad(p) ELSE [p EXCEPT !.dst = Append(@, c)]
    [] OTHER ->
         LET j == JoinAtoms(p)
         IN [j EXCEPT !.dst = Append(@, c), !.natom = @ + 1]

(* The postfix form, with ok = FALSE where the code returns NULL. *)
re2post(re) ==
  LET p == Rounds(Len(re), [i \in DOMAIN re |-> [p \in Posts |-> PostChar(p, re[i])]],
             [dst |-> <<>>, nalt |-> 0, natom |-> 0, paren |-> <<>>, ok |-> TRUE])
  IN [ok |-> Len(re) < BufSize \div 2 /\ p.ok /\ p.paren = <<>>,
      post |-> p.dst \o Dots(p.natom) \o Bars(p.nalt)]

-----------------------------------------------------------------------------
(* post2nfa *)

(* patch: l is the list of places <<state, "out" or "out1">> to fill in. *)
patch(nfa, l, s) ==
  [i \in DOMAIN nfa |->
     [nfa[i] EXCEPT !.out  = IF \E k \in DOMAIN l : l[k] = <<i, "out">>  THEN s ELSE @,
                    !.out1 = IF \E k \in DOMAIN l : l[k] = <<i, "out1">> THEN s ELSE @]]

state(c, out, out1) == [c |-> c, out |-> out, out1 |-> out1]
frag(start, out) == [start |-> start, out |-> out]

(* How many fragments a postfix character pops. *)
Arity(c) == CASE c \in {".", "|"} -> 2 [] c \in {"*", "+", "?"} -> 1 [] OTHER -> 0

(* The variables of post2nfa. *)
States == [c : Labels, out : Int, out1 : Int]
Frags == [start : Int, out : Seq(Int \X {"out", "out1"})]
Builds == [nfa : Seq(States), stack : Seq(Frags), ok : BOOLEAN]

(* One round of the loop.  b.ok becomes FALSE if pop() or push() leaves the *)
(* stack.                                                                  *)
NfaChar(b, c) ==
  LET n  == Len(b.nfa) + 1                        \* the address of a new state
      e  == Last(b.stack)                         \* e, or e2
      e1 == b.stack[Len(b.stack) - 1]
      New(s)  == Append(b.nfa, s)
      Result(nfa, f) ==
        [b EXCEPT !.nfa = nfa,
                  !.stack = Append(SubSeq(@, 1, Len(@) - Arity(c)), f)]
  IN IF ~ b.ok \/ Len(b.stack) < Arity(c) \/ Len(b.stack) - Arity(c) >= StackSize
     THEN [b EXCEPT !.ok = FALSE]
     ELSE CASE c = "." -> Result(patch(b.nfa, e1.out, e.start), frag(e1.start, e.out))
            [] c = "|" -> Result(New(state("Split", e1.start, e.start)),
                                 frag(n, e1.out \o e.out))
            [] c = "?" -> Result(New(state("Split", e.start, NULL)),
                                 frag(n, Append(e.out, <<n, "out1">>)))
            [] c = "*" -> Result(patch(New(state("Split", e.start, NULL)), e.out, n),
                                 frag(n, <<<<n, "out1">>>>))
            [] c = "+" -> Result(patch(New(state("Split", e.start, NULL)), e.out, n),
                                 frag(e.start, <<<<n, "out1">>>>))
            [] OTHER   -> Result(New(state(c, NULL, NULL)), frag(n, <<<<n, "out">>>>))

(* ok is FALSE where the stack is left or, at the end, does not hold one    *)
(* fragment.                                                               *)
post2nfa(postfix) ==
  LET b == Rounds(Len(postfix),
                  [i \in DOMAIN postfix |-> [b \in Builds |-> NfaChar(b, postfix[i])]],
                  [nfa |-> <<>>, stack |-> <<>>, ok |-> TRUE])
      e == Last(b.stack)
  IN IF b.ok /\ Len(b.stack) = 1
     THEN [ok |-> TRUE, nfa |-> patch(b.nfa, e.out, Match), start |-> e.start]
     ELSE [ok |-> FALSE, nfa |-> <<>>, start |-> NULL]

-----------------------------------------------------------------------------
(* The simulation: a List is a sequence of states.                         *)

(* m.l is the list, m.marked the states with lastlist = listid, and m.todo  *)
(* the states of the calls of addstate that are still to be made.          *)
Markings == [l : Seq(Int), marked : SUBSET Int, todo : Seq(Int)]

IsSplit(nfa, s) == s # Match /\ nfa[s].c = "Split"

(* A faulty Visit: a state that is not a Split is not marked. *)
VisitUnmarked(nfa, m) ==
  LET s == Head(m.todo)
      rest == [m EXCEPT !.todo = Tail(@)]
  IN CASE m.todo = <<>> -> m
       [] m.todo # <<>> /\ (s = NULL \/ s \in m.marked) -> rest
       [] m.todo # <<>> /\ s # NULL /\ s \notin m.marked ->
            IF IsSplit(nfa, s)
            THEN [rest EXCEPT !.marked = @ \cup {s}, !.todo = <<nfa[s].out, nfa[s].out1>> \o @]
            ELSE [rest EXCEPT !.l = Append(@, s)]

(* One call of addstate; a Split calls it again, for out and then for out1. *)
Visit(nfa, m) ==
  LET s == Head(m.todo)
      rest == [m EXCEPT !.todo = Tail(@)]
      marked == [rest EXCEPT !.marked = @ \cup {s}]
  IN CASE m.todo = <<>> -> m
       [] m.todo # <<>> /\ (s = NULL \/ s \in m.marked) -> rest
       [] m.todo # <<>> /\ s # NULL /\ s \notin m.marked ->
            IF IsSplit(nfa, s)
            THEN [marked EXCEPT !.todo = <<nfa[s].out, nfa[s].out1>> \o @]
            ELSE [marked EXCEPT !.l = Append(@, s)]

(* No state is marked twice, so that there are no more calls than these.   *)
Calls(nfa) == 2 * Len(nfa) + 1

addstate(nfa, m, s) ==
  Rounds(Calls(nfa), [k \in 1 .. Calls(nfa) |-> [x \in Markings |-> Visit(nfa, x)]],
         [m EXCEPT !.todo = <<s>>])

EmptyList == [l |-> <<>>, marked |-> {}, todo |-> <<>>]

startlist(nfa, start) == addstate(nfa, EmptyList, start).l

(* The bytes from 0x80 on, which are negative as a char; one stands for all. *)
HighBytes == {"high"}

(* s->c == c: the label is a char made an int, c a char cut to 0 .. 255, so *)
(* a high byte is not equal to itself.                                     *)
SameChar(label, c) == label = c /\ c \notin HighBytes

StepState(nfa, m, s, c) ==
  IF s # Match /\ SameChar(nfa[s].c, c) THEN addstate(nfa, m, nfa[s].out) ELSE m

step(nfa, clist, c) ==
  Rounds(Len(clist),
         [i \in DOMAIN clist |-> [m \in Markings |-> StepState(nfa, m, clist[i], c)]],
         EmptyList).l

ismatch(l) == \E i \in DOMAIN l : l[i] = Match
=============================================================================
