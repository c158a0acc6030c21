----------------------------- MODULE RoomSystem -----------------------------
(***************************************************************************)
(* NightServer/RoomSystem: the two tables behind the chat server, and its  *)
(* whole public interface as operators on the pair of tables.              *)
(*                                                                         *)
(*   rs.sessions   sessions_: the sessions that exist, each with its name, *)
(*                 its room and whether it is logged in                    *)
(*   rs.rooms      rooms_: for each room, the ids of its members           *)
(*                                                                         *)
(* "s is in room r" is recorded twice, in the session's room_id and in the *)
(* room's member set; no statement of the code updates both at once.       *)
(*                                                                         *)
(* user_id is session_id under another name (AddSession copies it and      *)
(* nothing changes it), so a session id stands for both.                   *)
(***************************************************************************)
EXTENDS Integers, FiniteSets, Functions

CONSTANTS
    SessionIds,   \* ids the transport hands out
    RoomIds,      \* ids of the rooms made by the constructor
    Names,        \* display names of an admissible length (1 to 32 bytes)
    EmptyName,    \* the empty string, also the name before the first login
    LongName      \* any name of more than 32 bytes

no_room_id == 0

ASSUME RoomSystemAssumption ==
    /\ IsFiniteSet(SessionIds)
    /\ RoomIds \subseteq Nat \ {no_room_id}
    /\ EmptyName \notin Names
    /\ LongName \notin Names \cup {EmptyName}

-----------------------------------------------------------------------------

SessionState == [display_name : Names \cup {EmptyName},
                 room_id      : RoomIds \cup {no_room_id},
                 logged_in    : BOOLEAN]

\* The members of rs have the types of sessions_ and rooms_.
IsRoomSystem(rs) ==
    /\ rs = [sessions |-> rs.sessions, rooms |-> rs.rooms]
    /\ DOMAIN rs.sessions \subseteq SessionIds
    /\ rs.sessions \in [DOMAIN rs.sessions -> SessionState]
    /\ rs.rooms \in [RoomIds -> SUBSET SessionIds]

NewRoomSystem ==
    [sessions |-> [s \in {} |-> [display_name |-> EmptyName,
                                 room_id      |-> no_room_id,
                                 logged_in    |-> FALSE]],
     rooms    |-> [r \in RoomIds |-> {}]]

FindSession(rs, sid) == sid \in DOMAIN rs.sessions

FindRoom(rs, rid) == rid \in DOMAIN rs.rooms

\* try_emplace: a session that is already there is left as it is.
AddSession(rs, sid) ==
    IF FindSession(rs, sid) THEN rs
    ELSE [sessions |-> [s \in DOMAIN rs.sessions \cup {sid} |->
                          IF s = sid
                          THEN [display_name |-> EmptyName,
                                room_id      |-> no_room_id,
                                logged_in    |-> FALSE]
                          ELSE rs.sessions[s]],
          rooms    |-> rs.rooms]

\* Mutant of RemoveSessionFromCurrentRoom: the session state is reset whole.
RemoveFromRoom_ResetsSession(rs, sid) ==
    IF ~FindSession(rs, sid) THEN rs
    ELSE [sessions |-> [rs.sessions EXCEPT
                          ![sid] = [display_name |-> EmptyName,
                                    room_id      |-> no_room_id,
                                    logged_in    |-> FALSE]],
          rooms    |-> [r \in DOMAIN rs.rooms |-> rs.rooms[r] \ {sid}]]

RemoveSessionFromCurrentRoom(rs, sid) ==
    IF ~FindSession(rs, sid) THEN rs
    ELSE LET rid == rs.sessions[sid].room_id
         IN  IF rid = no_room_id THEN rs
             ELSE [sessions |-> [rs.sessions EXCEPT
                                   ![sid] = [@ EXCEPT !.room_id = no_room_id]],
                   rooms    |-> IF FindRoom(rs, rid)
                                THEN [rs.rooms EXCEPT ![rid] = @ \ {sid}]
                                ELSE rs.rooms]

\* Mutant of RemoveSession: the room is not left first.
RemoveSession_StaysListed(rs, sid) ==
    [sessions |-> Restrict(rs.sessions, DOMAIN rs.sessions \ {sid}),
     rooms    |-> rs.rooms]

RemoveSession(rs, sid) ==
    LET out == RemoveSessionFromCurrentRoom(rs, sid)
    IN  [sessions |-> Restrict(out.sessions, DOMAIN out.sessions \ {sid}),
         rooms    |-> out.rooms]

MoveSessionToRoom(rs, sid, rid) ==
    IF ~FindSession(rs, sid) \/ ~FindRoom(rs, rid) THEN rs
    ELSE LET out == IF rs.sessions[sid].room_id \in {no_room_id, rid}
                    THEN rs
                    ELSE RemoveSessionFromCurrentRoom(rs, sid)
         IN  [sessions |-> [out.sessions EXCEPT ![sid] = [@ EXCEPT !.room_id = rid]],
              rooms    |-> [out.rooms EXCEPT ![rid] = @ \cup {sid}]]

SetLoggedIn(rs, sid, name) ==
    IF ~FindSession(rs, sid) THEN rs
    ELSE [sessions |-> [rs.sessions EXCEPT
                          ![sid] = [display_name |-> name,
                                    room_id      |-> @.room_id,
                                    logged_in    |-> TRUE]],
          rooms    |-> rs.rooms]

\* Mutant of IsDisplayNameTaken: only sessions in a room are looked at.
IsDisplayNameTaken_InRooms(rs, name, except) ==
    \E s \in DOMAIN rs.sessions \ {except} :
        /\ rs.sessions[s].room_id # no_room_id
        /\ rs.sessions[s].display_name = name

IsDisplayNameTaken(rs, name, except) ==
    \E s \in DOMAIN rs.sessions \ {except} :
        rs.sessions[s].logged_in /\ rs.sessions[s].display_name = name

\* exclude is {} for std::nullopt, {id} otherwise.
GetRoomMembers(rs, rid, exclude) ==
    IF FindRoom(rs, rid)
    THEN {s \in rs.rooms[rid] \ exclude : FindSession(rs, s)}
    ELSE {}

-----------------------------------------------------------------------------
(* What makes a state of the two tables coherent.                          *)

\* The two records of "s is in room r" agree, for every session and room.
MembershipAgrees(rs) ==
    \A s \in SessionIds, r \in RoomIds :
        s \in rs.rooms[r] <=> /\ FindSession(rs, s)
                             /\ rs.sessions[s].room_id = r

\* No two sessions are logged in under one name.
NamesDiffer(rs) ==
    \A s, t \in DOMAIN rs.sessions :
        /\ s # t
        /\ rs.sessions[s].logged_in
        /\ rs.sessions[t].logged_in
        => rs.sessions[s].display_name # rs.sessions[t].display_name

\* Only a session that has logged in, under a proper name, is in a room.
MembersAreNamed(rs) ==
    \A s \in DOMAIN rs.sessions :
        /\ rs.sessions[s].room_id # no_room_id => rs.sessions[s].logged_in
        /\ rs.sessions[s].logged_in => rs.sessions[s].display_name \in Names

=============================================================================
