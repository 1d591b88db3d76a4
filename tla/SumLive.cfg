SPECIFICATION Spec
CONSTANTS
    o1 = o1
    o2 = o2
    Ops = {o1, o2}
    Callers = {0, 1, 2, 3}
    N = 4
    Streams = 1
    MaxFaults = 0
CHECK_DEADLOCK FALSE
INVARIANTS
    OneRequestPerRank
    ExactSum
    RepliesAfterChildren
PROPERTIES
    ServiceSpec
