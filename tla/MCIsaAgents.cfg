SPECIFICATION Spec
CONSTANTS
    Sources <- MCSources
    Limits = {3, 9}
    MaxAgents = 2
    MaxCalls = 2
INVARIANTS
    RoundRobin
    ConfinedWithoutPush
PROPERTIES
    GraphCoversRuns
    EveryCallEnds
CHECK_DEADLOCK FALSE
