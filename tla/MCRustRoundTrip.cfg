SPECIFICATION RTSpec
CONSTANTS
    Metas <- MCMetas
    Globals = {1}
    Interval = 2
    Gzip = TRUE
    MaxEmit = 1
    MaxEntries = 2
    Faults = {"error", "source"}
    Iterators = {i1}
    BufCap = 2
    ChunkCap = 2
    MaxRefills = 2
    Window = 8
    GuessLen = 3
    LineLimit = 1
    IoFaults = TRUE
INVARIANTS
    TypeOK
    IndexSound
    SpacingBounded
    WellFormed
    ReadBack
CHECK_DEADLOCK FALSE
