CONSTANTS
    Blocks = {b1, b2}
    PageSizes = {1, 3}
    SmallSize = 1
    BlockPages = 1
    SubSize = 3
    NrSubblocks = 3
    MaxAllocated = 10
SYMMETRY Symmetry
SPECIFICATION Spec
INVARIANTS
    PagesAccounted
    ListsComplete
    AcceptsAllocated
    OneIdleBlock
