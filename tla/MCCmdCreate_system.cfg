SPECIFICATION CmdSpec
CONSTANTS
    Metas <- MCMetas
    Block = 2
    Limit = 3
    Gzip = TRUE
    MaxEmit = 1
    MaxEntries = 7
    Faults = {"source"}
    StopOnError = FALSE
    Nodes <- MCNodes
    IsDir <- MCIsDir
    Children <- MCChildren
    NodeMeta <- MCNodeMeta
    Args <- MCArgs
    SlashArgs = {"last"}
    SysFaults = {"stat", "open", "list"}
INVARIANTS
    CmdTypeOK
    ParentsFirst
    SubtreesContiguous
    ArgumentsArchived
PROPERTIES
    Terminates
CHECK_DEADLOCK FALSE
