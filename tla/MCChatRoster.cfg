SPECIFICATION RosterSpec
CONSTANTS
    SessionIds = {s1, s2, s3}
    RoomIds = {1001, 1002}
    Names = {alice, bob, carol}
    EmptyName = EmptyName
    LongName = LongName
    RequestIds = {1}
    Texts = {hello}
    EmptyText = EmptyText
    LongText = LongText
    MaxBatch = 2
SYMMETRY Symmetry
INVARIANTS
    TypeOK
    RoomIndexConsistent
    LoggedInNamesUnique
    OnlyNamedMembers
    RosterAccurate
PROPERTIES
    ChatReachesExactlyTheRoom
    ServesPresence
