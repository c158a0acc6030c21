SPECIFICATION Spec
CONSTANTS
    QueueCapacity = 2
    MaxSessions = 1
    MaxCalls = 1
INVARIANTS
    DisconnectAlwaysReported
CHECK_DEADLOCK FALSE
