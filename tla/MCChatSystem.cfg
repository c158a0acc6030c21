SPECIFICATION SystemSpec
CONSTANTS
    Windows = {w1, w2}
    SessionIds = {s1, s2}
    RoomIds = {1001, 1002}
    Names = {ann, bob}
    EmptyName = EmptyName
    LongName = LongName
    Fold <- MCFold
    RequestIds = {1, 2, 3, 4, 5, 6}
    Texts = {hello}
    EmptyText = EmptyText
    LongText = LongText
    MaxClicks = 4
SYMMETRY Symmetry
VIEW View
CHECK_DEADLOCK FALSE
INVARIANTS
    RoomAgrees
    UserListCovers
    FirstRoomExact
    EventsMatchRoom
