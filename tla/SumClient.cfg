SPECIFICATION Spec
CONSTANTS
    N = 4
    Repeats = {0, 2}
CHECK_DEADLOCK FALSE
INVARIANTS
    TypeOK
    MeasuredWithinLimit
    RoundsDontOverlap
    EveryRankRepeats
PROPERTIES
    AllExit
