--------------------------- MODULE GameLogicSystem ---------------------------
(***************************************************************************)
(* NightServer/GameLogicSystem: one handler per server event.  A handler   *)
(* reads and changes the RoomSystem, appends messages to                   *)
(* outgoing_messages_ and session ids to pending_disconnects_; the main    *)
(* loop later takes both and hands them to the transport.                  *)
(*                                                                         *)
(* outgoing_messages_ is one vector of (recipient, payload) pairs.  Here   *)
(* it is kept as one stream of payloads per recipient: the order between   *)
(* messages to different sessions is fixed by the iteration order of an    *)
(* unordered_set and no session can see it.                                *)
(*                                                                         *)
(* Wording and timestamps are left out.  QueueMessage drops a payload of   *)
(* more than 2048 bytes; names have at most 32 bytes and chat texts 512,   *)
(* so no payload a handler builds is that long.                            *)
(***************************************************************************)
EXTENDS RoomSystem, SequencesExt

CONSTANTS
    RequestIds,   \* values of Message.request_id (0 marks a server event)
    Texts,        \* chat texts of an admissible length (1 to 512 bytes)
    EmptyText,    \* the empty chat text
    LongText      \* any chat text of more than 512 bytes

ASSUME GameLogicAssumption ==
    /\ RequestIds \subseteq Nat
    /\ EmptyText \notin Texts
    /\ LongText \notin Texts \cup {EmptyText}

VARIABLES
    room_system,          \* room_system_
    outgoing_messages,    \* outgoing_messages_, a stream per recipient
    pending_disconnects   \* pending_disconnects_

logicVars == <<room_system, outgoing_messages, pending_disconnects>>

-----------------------------------------------------------------------------
(* Payloads.  NoUser and NoRoom stand for an absent flatbuffers table.     *)

NoUser == [user_id |-> no_room_id, display_name |-> EmptyName]
NoRoom == [room_id |-> no_room_id, user_count |-> 0]

BuildUserInfo(rs, sid) ==
    [user_id |-> sid, display_name |-> rs.sessions[sid].display_name]

BuildRoomInfo(rs, rid) ==
    [room_id |-> rid, user_count |-> Cardinality(rs.rooms[rid])]

LoginResponse(request_id, success, error_code, user) ==
    [type |-> "LoginResponse", request_id |-> request_id,
     success |-> success, error_code |-> error_code, user |-> user]

RoomListResponse(request_id, rooms) ==
    [type |-> "RoomListResponse", request_id |-> request_id, rooms |-> rooms]

JoinRoomResponse(request_id, success, error_code, room) ==
    [type |-> "JoinRoomResponse", request_id |-> request_id,
     success |-> success, error_code |-> error_code, room |-> room]

LeaveRoomResponse(request_id, success, error_code) ==
    [type |-> "LeaveRoomResponse", request_id |-> request_id,
     success |-> success, error_code |-> error_code]

DisconnectResponse(request_id) ==
    [type |-> "DisconnectResponse", request_id |-> request_id]

ChatBroadcast(room_id, sender, content) ==
    [type |-> "ChatBroadcast", request_id |-> 0,
     room_id |-> room_id, sender |-> sender, content |-> content]

UserJoinedEvent(room_id, user) ==
    [type |-> "UserJoinedEvent", request_id |-> 0,
     room_id |-> room_id, user |-> user]

UserLeftEvent(room_id, user) ==
    [type |-> "UserLeftEvent", request_id |-> 0,
     room_id |-> room_id, user |-> user]

SystemMessageEvent(room_id) ==
    [type |-> "SystemMessageEvent", request_id |-> 0, room_id |-> room_id]

-----------------------------------------------------------------------------
(* Streams: what one call queues, per recipient.                           *)

NoMessages == [t \in SessionIds |-> <<>>]

To(sid, payloads) == [t \in SessionIds |-> IF t = sid THEN payloads ELSE <<>>]

ToAll(members, payload) ==
    [t \in SessionIds |-> IF t \in members THEN <<payload>> ELSE <<>>]

Then(first, second) == [t \in SessionIds |-> first[t] \o second[t]]

Queue(messages) == outgoing_messages' = Then(outgoing_messages, messages)

\* What NotifyRoomLeave queues when it is called for sid in state rs.
NotifyRoomLeave(rs, sid) ==
    LET session == rs.sessions[sid]
    IN  IF session.room_id = no_room_id \/ ~session.logged_in
        THEN NoMessages
        ELSE ToAll(GetRoomMembers(rs, session.room_id, {sid}),
                   UserLeftEvent(session.room_id, BuildUserInfo(rs, sid)))

-----------------------------------------------------------------------------
(* Handlers.                                                               *)

HandleSessionConnected(e) ==
    /\ room_system' = AddSession(room_system, e.session_id)
    /\ UNCHANGED <<outgoing_messages, pending_disconnects>>

HandleSessionDisconnected(e) ==
    /\ IF FindSession(room_system, e.session_id)
       THEN Queue(NotifyRoomLeave(room_system, e.session_id))
       ELSE UNCHANGED outgoing_messages
    /\ room_system' = RemoveSession(room_system, e.session_id)
    /\ UNCHANGED pending_disconnects

\* No session is looked up: the notice is queued even for a session id that
\* has already been removed.
HandleInvalidPacket(e) ==
    /\ Queue(To(e.session_id, <<SystemMessageEvent(no_room_id)>>))
    /\ UNCHANGED <<room_system, pending_disconnects>>

RefuseLogin(e, error_code) ==
    /\ Queue(To(e.session_id,
                <<LoginResponse(e.request_id, FALSE, error_code, NoUser)>>))
    /\ UNCHANGED <<room_system, pending_disconnects>>

AcceptLogin(e) ==
    /\ room_system' = SetLoggedIn(room_system, e.session_id, e.display_name)
    /\ Queue(To(e.session_id,
                <<LoginResponse(e.request_id, TRUE, "NONE",
                                BuildUserInfo(room_system', e.session_id))>>))
    /\ UNCHANGED pending_disconnects

\* Mutant of HandleLoginRequest: the length of the name is not checked.
HandleLoginRequest_AnyLength(e) ==
    \/ /\ ~FindSession(room_system, e.session_id)
       /\ UNCHANGED logicVars
    \/ /\ FindSession(room_system, e.session_id)
       /\ IF IsDisplayNameTaken(room_system, e.display_name, e.session_id)
          THEN RefuseLogin(e, "DUPLICATE_NAME")
          ELSE AcceptLogin(e)

\* Mutant of HandleLoginRequest: a session that is not found is created.
HandleLoginRequest_FindOrAdd(e) ==
    /\ room_system' = SetLoggedIn(AddSession(room_system, e.session_id),
                                  e.session_id, e.display_name)
    /\ Queue(To(e.session_id,
                <<LoginResponse(e.request_id, TRUE, "NONE", NoUser)>>))
    /\ UNCHANGED pending_disconnects

HandleLoginRequest(e) ==
    \/ /\ ~FindSession(room_system, e.session_id)
       /\ UNCHANGED logicVars
    \/ /\ FindSession(room_system, e.session_id)
       /\ \/ /\ e.display_name \in {EmptyName, LongName}
             /\ RefuseLogin(e, "INVALID_NAME")
          \/ /\ e.display_name \in Names
             /\ IsDisplayNameTaken(room_system, e.display_name, e.session_id)
             /\ RefuseLogin(e, "DUPLICATE_NAME")
          \/ /\ e.display_name \in Names
             /\ ~IsDisplayNameTaken(room_system, e.display_name, e.session_id)
             /\ AcceptLogin(e)

\* Answered whether or not the session exists or is logged in.
HandleRoomListRequest(e) ==
    /\ Queue(To(e.session_id,
                <<RoomListResponse(e.request_id,
                    [r \in RoomIds |-> BuildRoomInfo(room_system, r)])>>))
    /\ UNCHANGED <<room_system, pending_disconnects>>

\* Mutant of RefuseJoin: the refusal is not sent.
RefuseJoin_Silently(e, error_code) == UNCHANGED logicVars

RefuseJoin(e, error_code) ==
    /\ Queue(To(e.session_id,
                <<JoinRoomResponse(e.request_id, FALSE, error_code, NoRoom)>>))
    /\ UNCHANGED <<room_system, pending_disconnects>>

\* Mutant of EnterRoom: the old room is told after it has been left, when
\* NotifyRoomLeave no longer knows which room it was.
EnterRoom_NotifiesLate(e) ==
    LET sid      == e.session_id
        left     == RemoveSessionFromCurrentRoom(room_system, sid)
        existing == GetRoomMembers(left, e.room_id, {})
        moved    == MoveSessionToRoom(left, sid, e.room_id)
        greeting == <<JoinRoomResponse(e.request_id, TRUE, "NONE",
                                       BuildRoomInfo(moved, e.room_id))>>
    IN  /\ room_system' = moved
        /\ \E order \in SetToSeqs(existing) :
             LET roll == [i \in DOMAIN order |->
                            UserJoinedEvent(e.room_id,
                                            BuildUserInfo(left, order[i]))]
             IN  Queue(Then(NotifyRoomLeave(left, sid),
                       Then(To(sid, greeting \o roll),
                            ToAll(existing,
                                  UserJoinedEvent(e.room_id,
                                                  BuildUserInfo(moved, sid))))))
        /\ UNCHANGED pending_disconnects

\* Mutant of EnterRoom: the members are introduced before the answer.
EnterRoom_IntroducesFirst(e) ==
    LET sid      == e.session_id
        left     == RemoveSessionFromCurrentRoom(room_system, sid)
        existing == GetRoomMembers(left, e.room_id, {})
        moved    == MoveSessionToRoom(left, sid, e.room_id)
        Introduce(t) == UserJoinedEvent(e.room_id, BuildUserInfo(moved, t))
        roll     == SetToSeq({Introduce(t) : t \in existing})
    IN  /\ room_system' = moved
        /\ Queue(Then(NotifyRoomLeave(room_system, sid),
                 Then(To(sid, Append(roll, JoinRoomResponse(e.request_id, TRUE, "NONE",
                                                BuildRoomInfo(moved, e.room_id)))),
                      ToAll(existing, Introduce(sid)))))
        /\ UNCHANGED pending_disconnects

\* Leave the old room (its members are told first), snapshot the members of
\* the new one, move, answer, and introduce the newcomer and the members to
\* each other.  order is the iteration order of the new room's member set.
EnterRoom(e) ==
    LET sid      == e.session_id
        left     == RemoveSessionFromCurrentRoom(room_system, sid)
        existing == {t \in GetRoomMembers(left, e.room_id, {}) :
                        left.sessions[t].logged_in}
        moved    == MoveSessionToRoom(left, sid, e.room_id)
        greeting == <<JoinRoomResponse(e.request_id, TRUE, "NONE",
                                       BuildRoomInfo(moved, e.room_id)),
                      SystemMessageEvent(e.room_id)>>
    IN  /\ room_system' = moved
        /\ \E order \in SetToSeqs(existing) :
             LET roll == [i \in DOMAIN order |->
                            UserJoinedEvent(e.room_id,
                                            BuildUserInfo(left, order[i]))]
             IN  Queue(Then(NotifyRoomLeave(room_system, sid),
                       Then(To(sid, greeting \o roll),
                            ToAll(existing,
                                  UserJoinedEvent(e.room_id,
                                                  BuildUserInfo(moved, sid))))))
        /\ UNCHANGED pending_disconnects

\* Mutant of HandleJoinRoomRequest: logged_in is not checked.
HandleJoinRoomRequest_Anonymous(e) ==
    \/ /\ ~FindSession(room_system, e.session_id)
       /\ UNCHANGED logicVars
    \/ /\ FindSession(room_system, e.session_id)
       /\ IF FindRoom(room_system, e.room_id)
          THEN EnterRoom(e)
          ELSE RefuseJoin(e, "ROOM_NOT_FOUND")

HandleJoinRoomRequest(e) ==
    LET session == room_system.sessions[e.session_id]
    IN  \/ /\ ~FindSession(room_system, e.session_id)
           /\ UNCHANGED logicVars
        \/ /\ FindSession(room_system, e.session_id)
           /\ \/ /\ ~session.logged_in
                 /\ RefuseJoin(e, "INVALID_NAME")
              \/ /\ session.logged_in
                 /\ ~FindRoom(room_system, e.room_id)
                 /\ RefuseJoin(e, "ROOM_NOT_FOUND")
              \/ /\ session.logged_in
                 /\ FindRoom(room_system, e.room_id)
                 /\ session.room_id = e.room_id
                 /\ RefuseJoin(e, "ALREADY_IN_ROOM")
              \/ /\ session.logged_in
                 /\ FindRoom(room_system, e.room_id)
                 /\ session.room_id # e.room_id
                 /\ EnterRoom(e)

\* Mutant of HandleChatSendRequest: the sender is excluded.
HandleChatSendRequest_NoEcho(e) ==
    /\ IF /\ FindSession(room_system, e.session_id)
          /\ room_system.sessions[e.session_id].room_id # no_room_id
          /\ e.content \in Texts
       THEN LET rid == room_system.sessions[e.session_id].room_id
            IN  Queue(ToAll(GetRoomMembers(room_system, rid, {e.session_id}),
                            ChatBroadcast(rid,
                                          BuildUserInfo(room_system, e.session_id),
                                          e.content)))
       ELSE UNCHANGED outgoing_messages
    /\ UNCHANGED <<room_system, pending_disconnects>>

\* A chat request of a session that is not logged in is dropped in silence;
\* one that cannot be sent is answered by a system message.
HandleChatSendRequest(e) ==
    LET session == room_system.sessions[e.session_id]
        Say(messages) == /\ Queue(messages)
                         /\ UNCHANGED <<room_system, pending_disconnects>>
        heard == FindSession(room_system, e.session_id) /\ session.logged_in
    IN  \/ /\ ~heard
           /\ UNCHANGED logicVars
        \/ /\ heard
           /\ \/ /\ session.room_id = no_room_id
                 /\ Say(To(e.session_id, <<SystemMessageEvent(no_room_id)>>))
              \/ /\ session.room_id # no_room_id
                 /\ e.content \in {EmptyText, LongText}
                 /\ Say(To(e.session_id, <<SystemMessageEvent(session.room_id)>>))
              \/ /\ session.room_id # no_room_id
                 /\ e.content \in Texts
                 /\ Say(ToAll(GetRoomMembers(room_system, session.room_id, {}),
                              ChatBroadcast(session.room_id,
                                            BuildUserInfo(room_system, e.session_id),
                                            e.content)))

HandleLeaveRoomRequest(e) ==
    LET sid == e.session_id
        rid == room_system.sessions[sid].room_id
    IN  \/ /\ ~FindSession(room_system, sid)
           /\ UNCHANGED logicVars
        \/ /\ FindSession(room_system, sid)
           /\ rid = no_room_id
           /\ Queue(To(sid, <<LeaveRoomResponse(e.request_id, FALSE, "NOT_IN_ROOM")>>))
           /\ UNCHANGED <<room_system, pending_disconnects>>
        \/ /\ FindSession(room_system, sid)
           /\ rid # no_room_id
           /\ Queue(Then(NotifyRoomLeave(room_system, sid),
                         To(sid, <<LeaveRoomResponse(e.request_id, TRUE, "NONE"),
                                   SystemMessageEvent(rid)>>)))
           /\ room_system' = RemoveSessionFromCurrentRoom(room_system, sid)
           /\ UNCHANGED pending_disconnects

\* The session is forgotten here and now; the transport learns of it when
\* pending_disconnects is flushed, and its own Disconnect event comes later.
HandleDisconnectRequest(e) ==
    LET sid == e.session_id
        response == To(sid, <<DisconnectResponse(e.request_id)>>)
    IN  /\ IF FindSession(room_system, sid)
           THEN Queue(Then(response, NotifyRoomLeave(room_system, sid)))
           ELSE Queue(response)
        /\ room_system' = RemoveSession(room_system, sid)
        /\ pending_disconnects' = Append(pending_disconnects, sid)

-----------------------------------------------------------------------------
(* Events, and Update's dispatch of one of them.                           *)

SessionEvent == [type : {"Connected", "Disconnected", "InvalidPacket"},
                 session_id : SessionIds]

RequestEvent ==
    [type : {"LoginRequest"}, session_id : SessionIds, request_id : RequestIds,
     display_name : Names \cup {EmptyName, LongName}]
    \cup
    [type : {"JoinRoomRequest"}, session_id : SessionIds,
     request_id : RequestIds, room_id : RoomIds \cup {no_room_id}]
    \cup
    [type : {"ChatSendRequest"}, session_id : SessionIds,
     request_id : RequestIds, content : Texts \cup {EmptyText, LongText}]
    \cup
    [type : {"RoomListRequest", "LeaveRoomRequest", "DisconnectRequest"},
     session_id : SessionIds, request_id : RequestIds]

ServerEvent == SessionEvent \cup RequestEvent

Handle(e) ==
    \/ e.type = "Connected"         /\ HandleSessionConnected(e)
    \/ e.type = "Disconnected"      /\ HandleSessionDisconnected(e)
    \/ e.type = "InvalidPacket"     /\ HandleInvalidPacket(e)
    \/ e.type = "LoginRequest"      /\ HandleLoginRequest(e)
    \/ e.type = "RoomListRequest"   /\ HandleRoomListRequest(e)
    \/ e.type = "JoinRoomRequest"   /\ HandleJoinRoomRequest(e)
    \/ e.type = "ChatSendRequest"   /\ HandleChatSendRequest(e)
    \/ e.type = "LeaveRoomRequest"  /\ HandleLeaveRoomRequest(e)
    \/ e.type = "DisconnectRequest" /\ HandleDisconnectRequest(e)

\* TakeOutgoingMessages and TakePendingDisconnects, which the main loop calls
\* back to back when Update has returned.
Take ==
    /\ outgoing_messages' = NoMessages
    /\ pending_disconnects' = <<>>
    /\ UNCHANGED room_system

-----------------------------------------------------------------------------
(* The component on its own: any event, at any time, in any order.  What   *)
(* holds here holds whatever the transport delivers, late, lost or not.    *)

Init ==
    /\ room_system = NewRoomSystem
    /\ outgoing_messages = NoMessages
    /\ pending_disconnects = <<>>

Next ==
    \/ \E e \in ServerEvent : Handle(e)
    \/ Take

Spec == Init /\ [][Next]_logicVars

-----------------------------------------------------------------------------
(* Properties.                                                             *)

UserInfo == [user_id : SessionIds, display_name : Names \cup {EmptyName}]
RoomInfo == [room_id : RoomIds, user_count : Nat]

ErrorCode == {"NONE", "INVALID_NAME", "DUPLICATE_NAME", "ROOM_NOT_FOUND",
              "NOT_IN_ROOM", "ALREADY_IN_ROOM"}

Payload ==
    [type : {"LoginResponse"}, request_id : RequestIds, success : BOOLEAN,
     error_code : ErrorCode, user : UserInfo \cup {NoUser}]
    \cup
    [type : {"RoomListResponse"}, request_id : RequestIds,
     rooms : [RoomIds -> RoomInfo]]
    \cup
    [type : {"JoinRoomResponse"}, request_id : RequestIds, success : BOOLEAN,
     error_code : ErrorCode, room : RoomInfo \cup {NoRoom}]
    \cup
    [type : {"LeaveRoomResponse"}, request_id : RequestIds,
     success : BOOLEAN, error_code : ErrorCode]
    \cup
    [type : {"DisconnectResponse"}, request_id : RequestIds]
    \cup
    [type : {"ChatBroadcast"}, request_id : {0}, room_id : RoomIds,
     sender : UserInfo, content : Texts]
    \cup
    [type : {"UserJoinedEvent", "UserLeftEvent"}, request_id : {0},
     room_id : RoomIds, user : UserInfo]
    \cup
    [type : {"SystemMessageEvent"}, request_id : {0},
     room_id : RoomIds \cup {no_room_id}]

\* Type correctness of the GameLogicSystem's members (GameLogicSystem.h).
TypeOK ==
    /\ IsRoomSystem(room_system)
    /\ outgoing_messages \in [SessionIds -> Seq(Payload)]
    /\ pending_disconnects \in Seq(SessionIds)

\* Whatever order the events come in, RoomSystem's two records of who is in
\* which room never disagree: no member without a session, no session in a
\* room that does not list it, nobody in two rooms.
RoomIndexConsistent == MembershipAgrees(room_system)

\* HandleLoginRequest lets no two live sessions hold one display name.
LoggedInNamesUnique == NamesDiffer(room_system)

\* A room lists only sessions that logged in under a proper name, although
\* MoveSessionToRoom itself does not look at logged_in.
OnlyNamedMembers == MembersAreNamed(room_system)

\* What a step appended to the stream of t.
Appended(t) == SubSeq(outgoing_messages'[t],
                      Len(outgoing_messages[t]) + 1, Len(outgoing_messages'[t]))

\* Positions, in what a step appended to the stream of t, of chat texts.
Chats(t) == {i \in DOMAIN Appended(t) : Appended(t)[i].type = "ChatBroadcast"}

\* A chat text comes from a session that is logged in, is labelled with that
\* session's room and reaches exactly the sessions that are in the room when
\* it is handled: the sender itself, every other member, each of them once,
\* and nobody else (HandleChatSendRequest).
ChatStep ==
    \A t \in SessionIds : \A i \in Chats(t) :
        LET m      == Appended(t)[i]
            sender == m.sender.user_id
            Present(u) == /\ FindSession(room_system, u)
                          /\ room_system.sessions[u].room_id = m.room_id
        IN  /\ Present(sender) /\ room_system.sessions[sender].logged_in
            /\ \A u \in SessionIds :
                 IF Present(u) THEN \E k \in Chats(u) : Chats(u) = {k} /\ Appended(u)[k] = m
                               ELSE Chats(u) = {}
ChatReachesExactlyTheRoom == [][ChatStep]_logicVars

-----------------------------------------------------------------------------
(* The tables implement the presence service.                              *)

Away == -1

PlaceOf(rs) == [s \in SessionIds |->
                  IF FindSession(rs, s) THEN rs.sessions[s].room_id ELSE Away]

NameOf(rs) == [s \in SessionIds |->
                 IF FindSession(rs, s) /\ rs.sessions[s].logged_in
                 THEN rs.sessions[s].display_name ELSE EmptyName]

place == PlaceOf(room_system)
name == NameOf(room_system)

Presence == INSTANCE ChatService
            WITH Visitors <- SessionIds, Rooms <- RoomIds, NameSet <- Names,
                 Nameless <- EmptyName, Outside <- no_room_id

\* Every handler is, as far as presence goes, one step of the abstract chat
\* service or none: a room change is never seen half done, and a name is
\* free again in the very step in which its holder disappears.
ServesPresence == Presence!Spec

=============================================================================
