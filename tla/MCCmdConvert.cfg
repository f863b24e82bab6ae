SPECIFICATION Spec
CONSTANTS
    Block = 2
    Width = 2
    Base = 2
    Digits = 2
    MaxGroups = 3
    ZeroBlocks = 2
    Faults = TRUE
    Tars <- MCTars
CHECK_DEADLOCK FALSE
INVARIANTS
    TypeOK
    MembersFaithful
    ConvertPreserves
    TruncationDetected
    IndexNames
    AcceptsComplete
PROPERTIES
    Terminates
