CONSTANTS
    Clients = {owner, c1}
    NoClient = NoClient
    Owner = owner
    Tasks = {i1, i2, i3}
    NoTask = NoTask
    Invalid = {i3}
    MaxInsert = 2
SPECIFICATION FairSpec
INVARIANTS
    WorkerAwake
    TasksTracked
    EventPerTask
PROPERTY
    EveryTaskProcessed
