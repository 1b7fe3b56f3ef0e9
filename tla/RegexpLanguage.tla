--------------------------- MODULE RegexpLanguage ---------------------------
(***************************************************************************)
(* What a regular expression means, by its grammar and without a stack or  *)
(* an automaton: the reference for Regexp and DfaMatch.  Languages are cut *)
(* to strings of at most k characters.                                     *)
(***************************************************************************)
EXTENDS Integers, Sequences, FiniteSets, SequencesExt

Postfix == {"*", "+", "?"}

(* How many parentheses are open after the first i characters. *)
Depth(re, i) == Cardinality({j \in 1 .. i : re[j] = "("}) - Cardinality({j \in 1 .. i : re[j] = ")"})

(* The bars that separate alternatives, and the places between two factors. *)
TopBars(re) == {i \in DOMAIN re : re[i] = "|" /\ Depth(re, i) = 0}
TopCuts(re) == {i \in 1 .. Len(re) - 1 :
                  Depth(re, i) = 0 /\ re[i + 1] \notin Postfix \cup {"|", ")"}}

Parts(re, i, j) == <<SubSeq(re, 1, i), SubSeq(re, j, Len(re))>>

(* The two sides at the first bar or, without a bar, at the first cut. *)
AltParts(re) == LET i == CHOOSE i \in TopBars(re) : TRUE IN Parts(re, i - 1, i + 1)
CatParts(re) == LET i == CHOOSE i \in TopCuts(re) : TRUE IN Parts(re, i, i + 1)

RECURSIVE WellFormed(_)
WellFormed(re) ==
  /\ re # <<>>
  /\ \A i \in DOMAIN re : Depth(re, i) >= 0
  /\ Depth(re, Len(re)) = 0
  /\ CASE TopBars(re) # {} -> \A x \in ToSet(AltParts(re)) : WellFormed(x)
       [] TopBars(re) = {} /\ TopCuts(re) # {} -> \A x \in ToSet(CatParts(re)) : WellFormed(x)
       [] OTHER -> CASE Last(re) \in Postfix -> WellFormed(Front(re))
                     [] Last(re) = ")" -> WellFormed(SubSeq(re, 2, Len(re) - 1))
                     [] OTHER -> TRUE

Cat(A, B, k) == {s \in {a \o b : a \in A, b \in B} : Len(s) <= k}

(* At most n strings of A, one after the other; k of them are enough. *)
RECURSIVE UpTo(_, _, _)
UpTo(A, n, k) == IF n = 0 THEN {<<>>} ELSE {<<>>} \cup Cat(A, UpTo(A, n - 1, k), k)

RECURSIVE Language(_, _)
Language(re, k) ==
  LET In(x) == Language(x, k)
  IN CASE TopBars(re) # {} -> In(AltParts(re)[1]) \cup In(AltParts(re)[2])
       [] TopBars(re) = {} /\ TopCuts(re) # {} -> Cat(In(CatParts(re)[1]), In(CatParts(re)[2]), k)
       [] OTHER -> CASE Last(re) = "*" -> UpTo(In(Front(re)), k, k)
                     [] Last(re) = "+" -> Cat(In(Front(re)), UpTo(In(Front(re)), k, k), k)
                     [] Last(re) = "?" -> {<<>>} \cup In(Front(re))
                     [] Last(re) = ")" -> In(SubSeq(re, 2, Len(re) - 1))
                     [] OTHER -> {re}
=============================================================================
