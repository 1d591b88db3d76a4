SPECIFICATION Spec
CONSTANTS
    MaxRanks = 7
    MaxDegree = 3
CHECK_DEADLOCK FALSE
INVARIANTS
    TypeOK
    DeliveredOnce
    LevelsAreFull
PROPERTIES
    ReachesAll
