SPECIFICATION CmdSpec
CONSTANTS
    Archives <- LossyArchives
    i1 = i1
    i2 = i2
    Iterators = {i1, i2}
    BlockCap = 2
    ChunkCap = 2
    MaxRefills = 2
    IoFaults = FALSE
    EntryNames <- SiblingNames
    FileMembers <- SiblingFiles
    Handles <- MCHandles
    Commands <- LossyCommands
CHECK_DEADLOCK FALSE
INVARIANT StatusTells
