CONSTANTS
    Threads = {t1, t2, t3}
    NoThread = NoThread
    Signalled = {t1, t2}
    MaxReader = 2
SPECIFICATION InTurnSpec
INVARIANTS
    RWInv
    MutualExclusion
    NeverEnterThisBranch
    MutexInv
    OneOwner
PROPERTIES
    ImplementsPhaseFairLock
    WriterEnters
    ReaderEnters
    ImplementsFifoLock
    LockGranted
