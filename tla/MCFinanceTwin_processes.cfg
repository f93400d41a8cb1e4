CONSTANTS
    t1 = t1
    t2 = t2
    proc1 = proc1
    proc2 = proc2
    NoThread = NoThread
    Processes <- TwoProcesses
    Threads <- TwoThreads
    ProcessOf <- Apart
    AccountIds = {"alice", "bob"}
    TransactionIds = {"tx1"}
    InvoiceIds = {"inv1"}
    ObligationIds = {}
    RawAmounts <- Amounts
    MaxBalance = 4
    MaxTransaction = 3
    Commands <- MoneyCommands
    MaxOps = 2
    MaxEvents = 4
    VerifyOverlaps = FALSE
    ProcessesOverlap = TRUE
SPECIFICATION Spec
INVARIANT
    LogReplayable
