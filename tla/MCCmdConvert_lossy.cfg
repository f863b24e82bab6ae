SPECIFICATION Spec
CONSTANTS
    Block = 2
    Width = 2
    Base = 2
    Digits = 2
    MaxGroups = 3
    ZeroBlocks = 4
    Faults = FALSE
    Tars <- LossyTars
CHECK_DEADLOCK FALSE
INVARIANT ConvertPreserves
