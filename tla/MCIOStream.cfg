CONSTANTS
    Clients = {owner}
    NoClient = NoClient
    Owner = owner
    Tasks = {0, 1, 2}
    NoTask = NoTask
    Invalid = {}
    MaxInsert = 2
    BufferSize = 2
    MaxFileSize = 9
    ShortReads = FALSE
SPECIFICATION StreamFairSpec
INVARIANTS
    BlocksInOrder
    EndMeansAllRead
PROPERTY
    ReadNextReturns
