SPECIFICATION Spec
CONSTANTS
    N = 2
    Clients = {0, 1}
    NodeOf <- MCNodeOf
    Workloads <- MCWorkloads
    MaxCount = 1
    MaxRepeat = 2
    Streams = 1
    MaxFaults = 1
CHECK_DEADLOCK FALSE
INVARIANTS
    FailureReturnsMinusOne
