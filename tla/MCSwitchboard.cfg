SPECIFICATION SwitchSpec
CONSTANTS
    t1 = t1
    t2 = t2
    Threads = {t1, t2}
    Requests <- MCRequests
    Nobody = Nobody
    MaxCalls = 4
    MaxFaults = 2
INVARIANTS
    ChainVerifies
    TestedBeforeActive
    ActivationsAccounted
PROPERTY EveryCallEnds
CHECK_DEADLOCK FALSE
