CONSTANTS
    Funcs = {f1, f2, f3}
    NoFunc = NoFunc
    N = 2
    Waits = {w1, w2}
    CanFail = TRUE
SPECIFICATION FairSpec
INVARIANTS
    MovePossible
    QueuesOK
    RunsEachOnce
    NoFunctionLost
PROPERTIES
    ImplementsScheduler
    WokenRuns
