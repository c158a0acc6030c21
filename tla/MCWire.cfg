SPECIFICATION WireSpec
CONSTANTS
    MAX_PAYLOAD_SIZE = 8
    Payloads <- MCPayloads
    ForeignHeaders <- MCForeignHeaders
    MaxFrames = 3
CHECK_DEADLOCK FALSE
INVARIANTS
    FramesRecovered
    BodyBounded
