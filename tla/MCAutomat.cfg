CONSTANTS
    Names = {a, b}
    Heaps = {1, 2, 3}
    MaxChar = 1
    Matches <- MCMatches
    Extend <- MCExtend
    Texts <- MCTexts
    MaxWord = 3
    MaxStates = 10
    MaxOps = 5
SYMMETRY Symmetry
SPECIFICATION RegexprSpec
CHECK_DEADLOCK FALSE
INVARIANTS
    AcceptsGrammar
    MatchesLanguage
    Deterministic
    HeapsHoldStates
PROPERTY
    MinimalBehindStart
