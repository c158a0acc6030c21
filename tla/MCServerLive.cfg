SPECIFICATION FairSpec
CONSTANTS
    QueueCapacity = 1
    MaxSessions = 1
    MaxCalls = 2
INVARIANTS
    SendsReachSession
PROPERTIES
    ShutdownTerminates
    DisconnectTakesEffect
CHECK_DEADLOCK FALSE
