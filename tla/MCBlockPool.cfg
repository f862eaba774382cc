SPECIFICATION Spec
CONSTANTS
    NumBlocks = 3
    Handles = {h1, h2, h3}
    MaxUntracked = 2
INVARIANTS
    TypeOK
    RefCountExact
    FreeListExact
