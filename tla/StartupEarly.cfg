SPECIFICATION Spec
CONSTANTS
    N = 3
    Clients = {"c0", "c1"}
    NodeOf <- MCNodeOf
    Faults = FALSE
CHECK_DEADLOCK FALSE
INVARIANTS
    EarlyClientsWait
