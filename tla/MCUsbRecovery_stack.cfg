SPECIFICATION Spec
CONSTANTS
    Attempts = 2
    Faults = 2
    MaxTries = 1
    MaxCycles = 1
INVARIANT StackFree
CHECK_DEADLOCK FALSE
