CONSTANTS
    Drivers = {"driver"}
    Engines = {"engine"}
    Payloads = {"pay1", "pay2"}
    LineSize = 3
    Measured = 2
    Limit = 8
    EngineLimit = 6
    OneWriter = FALSE
    MaxWrites = 4
    MaxFaults = 0
    MaxAnchors = 1
SPECIFICATION Spec
INVARIANT
    AckedReadable
