------------------------------ MODULE NfaMatch ------------------------------
(***************************************************************************)
(* The program of c-study/dfa-about/nfa.c, which matches strings without   *)
(* a cache: it keeps the list of the states that the NFA can be in and     *)
(* computes the next one for every character.  The matcher with a cache    *)
(* (DfaMatch) has to behave like this one.  The compiler and the simulation *)
(* are parameters: nfa.c has the functions of module Regexp.               *)
(***************************************************************************)
EXTENDS Integers, Sequences

CONSTANTS
  re2post(_), post2nfa(_), startlist(_, _), step(_, _, _), NULL,  \* as in Regexp
  Regexps, Alphabet, MaxStrings, MaxChars                         \* as in DfaMatch

VARIABLES
  re, phase, prog, text, strings,                    \* as in DfaMatch
  clist                                              \* match: the current list

vars == <<re, phase, prog, text, strings, clist>>

Init ==
  /\ re \in Regexps
  /\ phase = "compile"
  /\ prog = [ok |-> FALSE, nfa |-> <<>>, start |-> NULL]
  /\ text = <<>> /\ strings = 0 /\ clist = <<>>

(* main up to the loop. *)
Compile ==
  /\ phase = "compile"
  /\ LET post == re2post(re)
     IN /\ prog' = IF post.ok THEN post2nfa(post.post) ELSE prog
        /\ phase' = CASE ~ post.ok -> "bad"
                      [] post.ok /\ ~ prog'.ok -> "undefined"
                      [] OTHER -> "ready"
  /\ UNCHANGED <<re, text, strings, clist>>

(* match up to its loop. *)
MatchBegin ==
  /\ phase = "ready" /\ strings < MaxStrings
  /\ clist' = startlist(prog.nfa, prog.start)
  /\ phase' = "match"
  /\ UNCHANGED <<re, prog, text, strings>>

(* One round of match: step, and the two lists change places. *)
MatchChar(c) ==
  /\ phase = "match" /\ Len(text) < MaxChars
  /\ clist' = step(prog.nfa, clist, c)
  /\ text' = Append(text, c)
  /\ UNCHANGED <<re, phase, prog, strings>>

(* The end of the string; match returns ismatch(clist). *)
MatchEnd ==
  /\ phase = "match"
  /\ phase' = "ready"
  /\ clist' = <<>> /\ text' = <<>> /\ strings' = strings + 1
  /\ UNCHANGED <<re, prog>>

Next == Compile \/ MatchBegin \/ (\E c \in Alphabet : MatchChar(c)) \/ MatchEnd

Spec == Init /\ [][Next]_vars
=============================================================================
