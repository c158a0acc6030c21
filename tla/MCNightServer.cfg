SPECIFICATION FairServerSpec
CONSTANTS
    s1 = s1
    s2 = s2
    SessionIds = {s1, s2}
    RoomIds = {1001}
    Names = {alice}
    alice = alice
    EmptyName = EmptyName
    LongName = LongName
    RequestIds = {1, 2}
    Texts = {hello}
    EmptyText = EmptyText
    LongText = LongText
    QueueCapacity = 2
    MaxRequests <- MCMaxRequests
    Requests <- MCRequests
INVARIANTS
    GhostsOnlyAfterOverflow
    ResponsesInOrder
PROPERTIES
    NoResurrection
    RequestsAnswered
    EndsOnBothSides
