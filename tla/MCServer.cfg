SPECIFICATION Spec
CONSTANTS
    QueueCapacity = 2
    MaxSessions = 2
    MaxCalls = 1
INVARIANTS
    AcceptLoopAlive
    ConnectFirst
    TableIsExact
    ClosedIsReported
CHECK_DEADLOCK FALSE
