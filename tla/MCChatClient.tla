---------------------------- MODULE MCChatClient ----------------------------
EXTENDS ChatClient

CONSTANTS ann, Ann, bob

\* "ann" and "Ann" differ only in case.
MCNames == {ann, Ann, bob}
MCFold == [n \in MCNames |-> IF n = Ann THEN ann ELSE n]

User(n) == [user_id |-> 1, display_name |-> n]

\* Packets for every branch of DecodePacket, but for the two that only write
\* to the log as a malformed one does.
MCPackets ==
    {[type |-> t] : t \in {"Malformed", "LeaveRoomResponse"}}
    \cup {[type |-> "LoginResponse", success |-> TRUE, user |-> u] :
            u \in {NoUser, User(ann)}}
    \cup {[type |-> "LoginResponse", success |-> FALSE, user |-> NoUser]}
    \cup {[type |-> "RoomListResponse", rooms |-> [r \in {} |-> NoRoom]]}
    \cup {[type |-> "JoinRoomResponse", success |-> TRUE,
           room |-> [room_id |-> r, user_count |-> 1]] : r \in RoomIds}
    \cup {[type |-> "JoinRoomResponse", success |-> s, room |-> NoRoom] :
            s \in BOOLEAN}
    \cup {[type |-> "UserJoinedEvent", user |-> u] :
            u \in {NoUser} \cup {User(n) : n \in MCNames}}
    \cup {[type |-> "UserLeftEvent", user |-> u] :
            u \in {NoUser} \cup {User(n) : n \in MCNames}}

=============================================================================
