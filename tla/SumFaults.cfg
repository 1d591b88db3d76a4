SPECIFICATION Spec
CONSTANTS
    o1 = o1
    Ops = {o1}
    Callers = {0, 3}
    N = 5
    Streams = 1
    MaxFaults = 2
CHECK_DEADLOCK FALSE
INVARIANTS
    TypeOK
    CountedAtMostOnce
    ErrorIsLocal
    LossIsExplained
    SilenceHangsTheCall
PROPERTIES
    ServiceSafeSpec
    EveryCallReturns
