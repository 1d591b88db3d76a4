SPECIFICATION Spec
CONSTANTS
    N = 4
    Repeats = {2}
CHECK_DEADLOCK FALSE
INVARIANTS
    AllWithinLimit
