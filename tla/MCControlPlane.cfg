SPECIFICATION Spec
CONSTANTS
    a = a
    b = b
    c = c
    Sources <- MCSources
    NoSource = NoSource
    MaxCalls = 2
    Threads = {t1, t2}
    MaxRequests = 7
    older = older
    newer = newer
    Goroutines = {g1, g2}
    EventIds = {older, newer}
    Capacities = {3}
    DefaultCapacity = 2
    LastMilli = 1
    Workloads <- MCWorkloads
    MaxMishaps = 1
    Chats = {t1, t2}
    DemoIssues = 1
    MaxSprints = 2
    MaxIssues = 2
    MaxStops = 1
INVARIANTS
    HarnessInv
    ResultsSound
    QuietWhenDone
    NoStepSkipped
    CheckpointsCover
    AnswersAgree
    ProofsVerify
    BoardConsistent
    FlushKeeps
PROPERTY EveryRunEnds
CHECK_DEADLOCK FALSE
