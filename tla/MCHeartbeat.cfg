SPECIFICATION Spec
CONSTANTS
    HEARTBEAT_INTERVAL = 3
    HEARTBEAT_TIMEOUT = 9
    MaxConnect = 1
    MaxAccept = 1
    MaxLag = 1
    MaxDelay = 2
INVARIANTS
    NoFalseTimeout
    DeadPeerNoticed
