SPECIFICATION Spec
CONSTANTS
    MaxRanks = 3
    Rounds = 1
    Streams = 2
    Runs <- MCRaceRuns
CHECK_DEADLOCK FALSE
INVARIANTS
    CountsResponses
