SPECIFICATION RTSpec
CONSTANTS
    Metas <- MCMetas
    Block = 2
    Limit = 5
    Gzip = TRUE
    MaxEmit = 2
    MaxEntries = 2
    Faults = {}
    StopOnError = TRUE
    Iterators = {i1}
    BlockCap = 2
    ChunkCap = 2
    MaxRefills = 1
    Window = 3
INVARIANTS
    TailFound
    WellFormed
    ReadBack
CHECK_DEADLOCK FALSE
