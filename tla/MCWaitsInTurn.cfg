CONSTANTS
    Threads = {t1, t2, t3}
    NoThread = NoThread
    Signalled = {t1}
    Timed = {t1, t2}
    MaxCounted = 2
    Tasks = {run}
    NoTask = NoTask
SPECIFICATION InTurnSpec
INVARIANTS
    EventInv
    WLInv
PROPERTIES
    ImplementsEventCounter
    WaitersServed
    WokenReturns
    FreeWakesAll
