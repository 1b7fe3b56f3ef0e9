----------------------------- MODULE DfaLanguage -----------------------------
(***************************************************************************)
(* DfaMatch against the meaning of regular expressions (RegexpLanguage).   *)
(***************************************************************************)
EXTENDS DfaMatch

Ref == INSTANCE RegexpLanguage

ASSUME AlphabetAssumption == Alphabet \cap Operators = {}

(* The strings that match, for every regular expression that means something. *)
Languages == [r \in {r \in Regexps : Ref!WellFormed(r)} |-> Ref!Language(r, MaxChars)]


(* After every prefix of every string, with whatever is left in the cache   *)
(* of earlier strings and however often it was thrown away since, match     *)
(* would return what the regular expression says, except that no string     *)
(* with a byte from 0x80 on matches (line 235 keeps its sign, line 504 does *)
(* not).                                                                   *)
MatchesLanguage ==
  phase = "match" =>
    (Matched <=> text \in Languages[re] /\ ToSet(text) \cap HighBytes = {})
=============================================================================
