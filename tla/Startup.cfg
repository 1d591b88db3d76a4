SPECIFICATION Spec
CONSTANTS
    N = 3
    Clients = {"c0", "c1"}
    NodeOf <- MCNodeOf
    Faults = TRUE
CHECK_DEADLOCK FALSE
INVARIANTS
    TypeOK
    CallsThisRun
    CallsAreRegistered
    TestsDontOverlap
    FailureStopsAll
PROPERTIES
    AllComeUp
    LateClientsConnect
