SPECIFICATION FairSpec
CONSTANTS
    QueueCapacity = 1
    MAX_PENDING_WRITE_FRAMES = 2
    HEARTBEAT_INTERVAL = 1
    HEARTBEAT_TIMEOUT = 2
    MaxPackets = 2
    MaxSends = 2
INVARIANTS
    OneRead
    PacketsInOrder
    SendsInOrder
PROPERTIES
    LossIsNoticed
    ShutdownReturns
CHECK_DEADLOCK FALSE
