CONSTANTS
    Clients = {owner, c1}
    NoClient = NoClient
    Owner = owner
    Tasks = {i1, i2}
    NoTask = NoTask
    Invalid = {}
    MaxInsert = 2
SPECIFICATION FairSpec
PROPERTY StopCancelsTasks
