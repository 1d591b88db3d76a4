SPECIFICATION Spec
CONSTANTS
    Clients = {1, 2}
    MaxCount = 2
    MaxLimit = 5
    Streams = 2
CHECK_DEADLOCK FALSE
INVARIANTS
    TypeOK
    AnsweredWithinLimit
PROPERTIES
    ServerEnds
