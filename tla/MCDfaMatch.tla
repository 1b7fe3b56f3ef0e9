----------------------------- MODULE MCDfaMatch -----------------------------
(* DfaMatch for all short regular expressions over the letters, some longer *)
(* ones and some with a byte from 0x80 on.                                  *)
EXTENDS DfaLanguage

CONSTANT MaxLength

Characters == (Alphabet \ HighBytes) \cup (Operators \ {"."})

Longer == {
  <<"(", "a", "|", "b", ")", "*", "a", "b">>,
  <<"(", "a", "|", "b", ")", "*", "a", "(", "a", "|", "b", ")">>,
  <<"(", "a", "*", "b", "?", ")", "*", "a">>,
  <<"(", "a", "?", "b", ")", "+", "|", "a", "a">>,
  <<"(", "a", "*", ")", "*", "|", "(", "b", "|", "a", ")", "b">> }

WithHighByte == { <<"high">>, <<"a", "|", "high">>, <<"high", "*", "a">>, <<"b", "high", "?">> }

MCRegexps == BoundedSeq(Characters, MaxLength) \cup Longer \cup WithHighByte
=============================================================================
