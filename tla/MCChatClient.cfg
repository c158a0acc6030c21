SPECIFICATION WindowFairSpec
CONSTANTS
    ann = ann
    Ann = Ann
    bob = bob
    Windows = {w1}
    RoomIds = {1001}
    DisplayNames <- MCNames
    EmptyName = EmptyName
    Fold <- MCFold
    Inputs = {hello}
    Packets <- MCPackets
    MaxQueued = 2
    MaxRequestId = 3
CHECK_DEADLOCK FALSE
INVARIANTS
    ConnectIffNoClient
PROPERTIES
    PolledWhileConnected
