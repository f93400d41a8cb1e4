CONSTANTS
    Drivers = {"driver"}
    Engines = {"engine"}
    Payloads = {"pay1", "pay2"}
    LineSize = 3
    Measured = 2
    Limit = 8
    EngineLimit = 6
    OneWriter = TRUE
    MaxWrites = 4
    MaxFaults = 1
    MaxAnchors = 3
SPECIFICATION Spec
INVARIANTS
    IInv
    ChainSharedByWriters
    WithinLimits
    AckedReadable
    AnchorsAttest
PROPERTY
    ReadStable
