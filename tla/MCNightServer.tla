--------------------------- MODULE MCNightServer ---------------------------
EXTENDS NightServer

CONSTANTS alice, s1, s2

Login == [type |-> "LoginRequest", display_name |-> alice]

\* One session sends what changes the server's state, what it refuses, what it
\* cannot decode and a login without its table; the other competes with it for
\* the queue and the name.
MCRequests ==
    [s \in SessionIds |->
        IF s = s1 THEN {Login,
                        [type |-> "JoinRoomRequest", room_id |-> 1001],
                        [type |-> "DisconnectRequest"],
                        [type |-> "LoginRequest"],
                        [type |-> "Garbage"]}
                  ELSE {Login}]

MCMaxRequests == [s \in SessionIds |-> IF s = s1 THEN 2 ELSE 1]

=============================================================================
