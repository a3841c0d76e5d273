CONSTANTS
    Names = {a}
    Heaps = {1, 2, 3}
    MaxChar = 1
    Matches <- MCMatches
    Extend <- MCExtend
    Texts <- MCBeyond
    MaxWord = 3
    MaxStates = 10
    MaxOps = 1
SPECIFICATION RegexprSpec
CHECK_DEADLOCK FALSE
INVARIANT FollowsGrammar
