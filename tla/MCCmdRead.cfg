SPECIFICATION CmdSpec
CONSTANTS
    Archives <- MCArchives
    i1 = i1
    i2 = i2
    Iterators = {i1, i2}
    BlockCap = 2
    ChunkCap = 2
    MaxRefills = 1
    IoFaults = TRUE
    EntryNames <- MCNames
    FileMembers <- MCFileMembers
    Handles <- MCHandles
    Commands <- MCCommands
INVARIANTS
    CmdTypeOK
    InOrder
    StatusTells
    CatContents
PROPERTIES
    Terminates
CHECK_DEADLOCK FALSE
