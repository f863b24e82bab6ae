SPECIFICATION Spec
CONSTANTS
    Archives <- MCArchives
    Iterators = {i1, i2}
    BlockCap = 2
    ChunkCap = 2
    MaxRefills = 2
    IoFaults = TRUE
SYMMETRY IteratorSymmetry
INVARIANTS
    TypeOK
    IteratorsFaithful
    MetaCorrect
    ContentCorrect
    ReachesHeaders
    NearestCheckpoint
CHECK_DEADLOCK FALSE
