CONSTANTS
    t1 = t1
    t2 = t2
    proc1 = proc1
    proc2 = proc2
    NoThread = NoThread
    Processes <- OneProcess
    Threads <- TwoThreads
    ProcessOf <- Together
    Payloads = {"pay1", "pay2", "huge"}
    Oversized = {"huge"}
    MaxRecords = 3
    MaxCrashes = 1
    MaxFaults = 1
SPECIFICATION FairSpec
INVARIANTS
    IInv
    ChainIntact
    FailedAppendLeavesNoRecord
PROPERTIES
    ImplementsLog
    LockReleased
