SPECIFICATION FairSpec
CONSTANTS
    MAX_PENDING_WRITE_FRAMES = 2
    HEARTBEAT_INTERVAL = 1
    HEARTBEAT_TIMEOUT = 3
    MaxFrames = 2
    MaxCloses = 1
INVARIANTS
    OneReadChain
    WriteBufferStable
    ClosesOnce
    FramesInOrder
PROPERTIES
    SilenceEndsTheSession
    ClosedIsReleased
CHECK_DEADLOCK FALSE
