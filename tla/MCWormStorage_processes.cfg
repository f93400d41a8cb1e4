CONSTANTS
    t1 = t1
    t2 = t2
    proc1 = proc1
    proc2 = proc2
    NoThread = NoThread
    Processes <- TwoProcesses
    Threads <- TwoThreads
    ProcessOf <- Apart
    Payloads = {"pay1", "pay2"}
    Oversized = {}
    MaxRecords = 3
    MaxCrashes = 0
    MaxFaults = 0
SPECIFICATION Spec
INVARIANT AckedRecordsKept
