SPECIFICATION Spec
CONSTANTS
    MaxRanks = 5
    Rounds = 2
    Streams = 4
    Runs <- MCRuns
CONSTRAINT Followed
CHECK_DEADLOCK FALSE
INVARIANTS
    TypeOK
    ResultIsMax
    NoUseAfterFree
    ForwardsOnce
    NothingLeftAtTheEnd
PROPERTIES
    RoundsComplete
