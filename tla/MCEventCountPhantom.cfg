CONSTANTS
    Threads = {t1, t2}
    NoThread = NoThread
    Signalled = {}
    Timed = {t1}
    MaxCounted = 2
SPECIFICATION Spec
INVARIANT
    NoPhantomEvent
