SPECIFICATION Spec
CONSTANT Lengths <- MCLengths
INVARIANT SelfDescribing
CHECK_DEADLOCK FALSE
