SPECIFICATION Spec
CONSTANTS
    Metas <- MCMetas
    Block = 2
    Limit = 5
    Gzip = TRUE
    MaxEmit = 2
    MaxEntries = 3
    Faults = {"error", "source"}
    StopOnError = TRUE
INVARIANTS
    TypeOK
    IndexSound
    CheckpointsUsable
    SeekBounded
    BlockAligned
    TailSound
    NothingLost
PROPERTIES
    Implements
CHECK_DEADLOCK FALSE
