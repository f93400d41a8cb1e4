CONSTANTS
    t1 = t1
    t2 = t2
    proc1 = proc1
    proc2 = proc2
    NoThread = NoThread
    Processes <- OneProcess
    Threads <- TwoThreads
    ProcessOf <- Together
    AccountIds = {"alice", "bob"}
    TransactionIds = {"tx1"}
    InvoiceIds = {"inv1"}
    ObligationIds = {}
    RawAmounts <- Amounts
    MaxBalance = 4
    MaxTransaction = 3
    Commands <- MoneyCommands
    MaxOps = 2
    MaxEvents = 4
    VerifyOverlaps = TRUE
    ProcessesOverlap = FALSE
SPECIFICATION Spec
INVARIANT
    LogReplayable
