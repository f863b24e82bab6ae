SPECIFICATION CmdSpec
CONSTANTS
    Metas <- MCMetas
    Block = 2
    Limit = 3
    Gzip = TRUE
    MaxEmit = 1
    MaxEntries = 7
    Faults = {"source", "short"}
    StopOnError = FALSE
    Nodes <- MCNodes
    IsDir <- MCIsDir
    Children <- MCChildren
    NodeMeta <- MCNodeMeta
    Args <- MCArgs
    SlashArgs = {"last"}
    SysFaults = {}
INVARIANTS
    SealedIntact
CHECK_DEADLOCK FALSE
