\* Every regular expression of up to four characters over a and b, some longer
\* ones and some with a high byte; three strings on a cache of three states.
CONSTANTS
  Regexps <- MCRegexps
  Alphabet = {"a", "b", "high"}
  MaxLength = 4
  maxstates = 3
  MaxStrings = 3
  MaxChars = 4
SPECIFICATION Spec
INVARIANTS TypeOK  MatchesLanguage CacheCoherent
PROPERTY ImplementsNfa
CHECK_DEADLOCK FALSE
