-------------------------- MODULE GameLogicProofs --------------------------
(***************************************************************************)
(* The GameLogicSystem keeps its tables coherent and its queues well       *)
(* typed, whatever events it is fed and in whatever order, for any number  *)
(* of sessions, rooms, names and texts; it implements the abstract chat    *)
(* service; and a chat text reaches just the room it was sent in.          *)
(***************************************************************************)
EXTENDS GameLogicSystem, FiniteSetTheorems, TLAPS

-----------------------------------------------------------------------------
(* The tables: every operation of RoomSystem keeps them coherent.          *)

\* The tables have their types, agree on membership, hold no name twice and
\* put only named sessions into rooms.
Coherent(rs) ==
    /\ IsRoomSystem(rs)
    /\ MembershipAgrees(rs)
    /\ NamesDiffer(rs)
    /\ MembersAreNamed(rs)

\* The constructor makes coherent tables.
LEMMA NewRoomSystemCoherent == Coherent(NewRoomSystem)
  BY DEF Coherent, IsRoomSystem, NewRoomSystem, MembershipAgrees, NamesDiffer,
         MembersAreNamed, FindSession

\* AddSession: the new session is in no room and has no name.
LEMMA AddSessionCoherent ==
  ASSUME NEW rs, Coherent(rs), NEW sid \in SessionIds
  PROVE  Coherent(AddSession(rs, sid))
<1> USE RoomSystemAssumption
<1>1. CASE FindSession(rs, sid)
  BY <1>1 DEF AddSession
<1>2. CASE ~FindSession(rs, sid)
  <2> DEFINE new == AddSession(rs, sid)
             fresh == [display_name |-> EmptyName, room_id |-> no_room_id,
                       logged_in |-> FALSE]
  <2>1. /\ new = [sessions |-> new.sessions, rooms |-> new.rooms]
        /\ new.rooms = rs.rooms
        /\ DOMAIN new.sessions = DOMAIN rs.sessions \cup {sid}
        /\ new.sessions[sid] = fresh
        /\ \A s \in DOMAIN rs.sessions : new.sessions[s] = rs.sessions[s]
        /\ new.sessions = [s \in DOMAIN rs.sessions \cup {sid} |->
                             IF s = sid THEN fresh ELSE rs.sessions[s]]
    BY <1>2 DEF AddSession, FindSession
  <2> HIDE DEF new
  <2>2. fresh \in SessionState
    BY DEF SessionState
  <2> HIDE DEF fresh
  <2>3. IsRoomSystem(new)
    BY <2>1, <2>2 DEF Coherent, IsRoomSystem
  <2>4. MembershipAgrees(new)
    BY <2>1, <1>2 DEF Coherent, IsRoomSystem, MembershipAgrees, FindSession, fresh,
       no_room_id
  <2>5. NamesDiffer(new)
    BY <2>1 DEF Coherent, NamesDiffer, fresh
  <2>6. MembersAreNamed(new)
    BY <2>1 DEF Coherent, MembersAreNamed, fresh
  <2> QED
    BY <2>3, <2>4, <2>5, <2>6 DEF Coherent, new
<1> QED
  BY <1>1, <1>2

\* Assigning to room_id of a SessionState, spelled out.
LEMMA RoomIdUpdate ==
  ASSUME NEW st \in SessionState, NEW x
  PROVE  [st EXCEPT !.room_id = x] = [display_name |-> st.display_name,
                                      room_id      |-> x,
                                      logged_in    |-> st.logged_in]
<1>1. PICK d, r, l : st = [display_name |-> d, room_id |-> r, logged_in |-> l]
  BY DEF SessionState
<1>2. st.display_name = d /\ st.logged_in = l
  BY <1>1
<1>3. [st EXCEPT !.room_id = x] =
        [display_name |-> d, room_id |-> x, logged_in |-> l]
  BY <1>1
<1> QED
  BY <1>2, <1>3

\* out is rs, except that session sid is in no room.
LeftRoom(rs, out, sid) ==
    /\ IsRoomSystem(out)
    /\ DOMAIN out.sessions = DOMAIN rs.sessions
    /\ out.sessions[sid] = [display_name |-> rs.sessions[sid].display_name,
                            room_id      |-> no_room_id,
                            logged_in    |-> rs.sessions[sid].logged_in]
    /\ \A s \in DOMAIN rs.sessions \ {sid} : out.sessions[s] = rs.sessions[s]
    /\ \A r \in RoomIds : out.rooms[r] = rs.rooms[r] \ {sid}

\* What RemoveSessionFromCurrentRoom does, whether or not sid is in a room.
LEMMA RemoveFromRoomEffect ==
  ASSUME NEW rs, Coherent(rs), NEW sid \in SessionIds, FindSession(rs, sid)
  PROVE  LeftRoom(rs, RemoveSessionFromCurrentRoom(rs, sid), sid)
<1> USE RoomSystemAssumption
<1> DEFINE out == RemoveSessionFromCurrentRoom(rs, sid)
           rid == rs.sessions[sid].room_id
<1>1. /\ rs = [sessions |-> rs.sessions, rooms |-> rs.rooms]
      /\ DOMAIN rs.sessions \subseteq SessionIds
      /\ rs.sessions \in [DOMAIN rs.sessions -> SessionState]
      /\ rs.rooms \in [RoomIds -> SUBSET SessionIds]
      /\ sid \in DOMAIN rs.sessions
      /\ rs.sessions[sid] \in SessionState
      /\ rid \in RoomIds \cup {no_room_id}
  BY DEF Coherent, IsRoomSystem, FindSession, SessionState
<1>2. \A r \in RoomIds : sid \in rs.rooms[r] <=> rid = r
  BY DEF Coherent, MembershipAgrees
<1>3. CASE rid = no_room_id
  <2>1. out = rs
    BY <1>3 DEF RemoveSessionFromCurrentRoom
  <2>2. rs.sessions[sid] = [display_name |-> rs.sessions[sid].display_name,
                            room_id      |-> no_room_id,
                            logged_in    |-> rs.sessions[sid].logged_in]
    BY <1>1, <1>3 DEF SessionState
  <2>3. \A r \in RoomIds : rs.rooms[r] = rs.rooms[r] \ {sid}
    BY <1>2, <1>3, <1>1 DEF no_room_id
  <2> QED
    BY <2>1, <2>2, <2>3, <1>1 DEF Coherent, LeftRoom
<1>4. CASE rid \in RoomIds
  <2>1. out = [sessions |-> [rs.sessions EXCEPT ![sid] = [@ EXCEPT !.room_id = no_room_id]],
               rooms    |-> [rs.rooms EXCEPT ![rid] = @ \ {sid}]]
    BY <1>1, <1>4 DEF RemoveSessionFromCurrentRoom, FindSession, FindRoom, no_room_id
  <2> DEFINE less == [display_name |-> rs.sessions[sid].display_name,
                      room_id      |-> no_room_id,
                      logged_in    |-> rs.sessions[sid].logged_in]
  <2>2. less \in SessionState
    BY <1>1 DEF SessionState
  <2>3. out.sessions = [rs.sessions EXCEPT ![sid] = less]
    BY <2>1, <1>1, RoomIdUpdate
  <2>4. out.rooms = [rs.rooms EXCEPT ![rid] = rs.rooms[rid] \ {sid}]
    BY <2>1
  <2>5. \A r \in RoomIds : out.rooms[r] = rs.rooms[r] \ {sid}
    BY <2>4, <1>1, <1>2
  <2> HIDE DEF out, less
  <2>6. /\ DOMAIN out.sessions = DOMAIN rs.sessions
        /\ out.sessions[sid] = less
        /\ \A s \in DOMAIN rs.sessions \ {sid} : out.sessions[s] = rs.sessions[s]
        /\ out.sessions \in [DOMAIN out.sessions -> SessionState]
        /\ out.rooms \in [RoomIds -> SUBSET SessionIds]
    BY <2>2, <2>3, <2>4, <1>1, <1>4
  <2>7. out = [sessions |-> out.sessions, rooms |-> out.rooms]
    BY <2>1
  <2> QED
    BY <2>5, <2>6, <2>7, <1>1 DEF IsRoomSystem, LeftRoom, out, less
<1> QED
  BY <1>1, <1>3, <1>4

\* Leaving a room keeps the tables coherent.
LEMMA RemoveFromRoomCoherent ==
  ASSUME NEW rs, Coherent(rs), NEW sid \in SessionIds
  PROVE  Coherent(RemoveSessionFromCurrentRoom(rs, sid))
<1> USE RoomSystemAssumption
<1>1. CASE ~FindSession(rs, sid)
  BY <1>1 DEF RemoveSessionFromCurrentRoom
<1>2. CASE FindSession(rs, sid)
  <2> DEFINE out == RemoveSessionFromCurrentRoom(rs, sid)
  <2>1. /\ DOMAIN out.sessions = DOMAIN rs.sessions
        /\ out.sessions[sid].room_id = no_room_id
        /\ out.sessions[sid].display_name = rs.sessions[sid].display_name
        /\ out.sessions[sid].logged_in = rs.sessions[sid].logged_in
        /\ \A s \in DOMAIN rs.sessions \ {sid} : out.sessions[s] = rs.sessions[s]
        /\ \A r \in RoomIds : out.rooms[r] = rs.rooms[r] \ {sid}
        /\ IsRoomSystem(out)
    <3>1. rs.sessions[sid] \in SessionState
      BY <1>2 DEF Coherent, IsRoomSystem, FindSession
    <3>2. LeftRoom(rs, out, sid)
      BY <1>2, RemoveFromRoomEffect
    <3> QED
      BY <3>1, <3>2 DEF SessionState, LeftRoom
  <2> HIDE DEF out
  <2>2. MembershipAgrees(out)
    <3> SUFFICES ASSUME NEW s \in SessionIds, NEW r \in RoomIds
                 PROVE  s \in out.rooms[r] <=> /\ s \in DOMAIN out.sessions
                                              /\ out.sessions[s].room_id = r
      BY DEF MembershipAgrees, FindSession
    <3>1. s \in rs.rooms[r] <=> /\ s \in DOMAIN rs.sessions
                               /\ rs.sessions[s].room_id = r
      BY DEF Coherent, MembershipAgrees, FindSession
    <3>2. out.rooms[r] = rs.rooms[r] \ {sid}
      BY <2>1
    <3>3. CASE s = sid
      <4>1. r # no_room_id
        OBVIOUS
      <4> QED
        BY <3>2, <3>3, <4>1, <2>1
    <3>4. CASE s # sid
      BY <3>1, <3>2, <3>4, <2>1
    <3> QED
      BY <3>3, <3>4
  <2>3. NamesDiffer(out)
    BY <2>1, <1>2 DEF Coherent, NamesDiffer, FindSession
  <2>4. MembersAreNamed(out)
    BY <2>1, <1>2 DEF Coherent, MembersAreNamed, FindSession
  <2> QED
    BY <2>1, <2>2, <2>3, <2>4 DEF Coherent, out
<1> QED
  BY <1>1, <1>2

\* RemoveSession: the session leaves its room before it leaves the table.
LEMMA RemoveSessionCoherent ==
  ASSUME NEW rs, Coherent(rs), NEW sid \in SessionIds
  PROVE  /\ Coherent(RemoveSession(rs, sid))
         /\ DOMAIN RemoveSession(rs, sid).sessions = DOMAIN rs.sessions \ {sid}
         /\ \A s \in DOMAIN rs.sessions \ {sid} :
                RemoveSession(rs, sid).sessions[s] = rs.sessions[s]
<1> USE RoomSystemAssumption
<1> DEFINE out == RemoveSessionFromCurrentRoom(rs, sid)
           new == RemoveSession(rs, sid)
<1>1. Coherent(out)
  BY RemoveFromRoomCoherent
<1>2. /\ DOMAIN out.sessions = DOMAIN rs.sessions
      /\ \A s \in DOMAIN rs.sessions \ {sid} : out.sessions[s] = rs.sessions[s]
      /\ \A r \in RoomIds : sid \notin out.rooms[r]
  <2>1. CASE FindSession(rs, sid)
    <3>1. LeftRoom(rs, out, sid)
      BY <2>1, RemoveFromRoomEffect
    <3> QED
      BY <3>1 DEF LeftRoom
  <2>2. CASE ~FindSession(rs, sid)
    BY <2>2 DEF RemoveSessionFromCurrentRoom, Coherent, MembershipAgrees
  <2> QED
    BY <2>1, <2>2
<1>3. /\ new = [sessions |-> new.sessions, rooms |-> new.rooms]
      /\ new.rooms = out.rooms
      /\ new.sessions = [s \in DOMAIN out.sessions \ {sid} |-> out.sessions[s]]
  BY DEF RemoveSession, Restrict
<1> HIDE DEF out, new
<1>4. /\ DOMAIN new.sessions = DOMAIN rs.sessions \ {sid}
      /\ \A s \in DOMAIN rs.sessions \ {sid} : new.sessions[s] = out.sessions[s]
  BY <1>2, <1>3
<1>5. IsRoomSystem(new)
  BY <1>1, <1>2, <1>3, <1>4 DEF Coherent, IsRoomSystem
<1>6. MembershipAgrees(new)
  BY <1>1, <1>2, <1>3, <1>4 DEF Coherent, MembershipAgrees, FindSession
<1>7. NamesDiffer(new)
  BY <1>1, <1>2, <1>4 DEF Coherent, NamesDiffer
<1>8. MembersAreNamed(new)
  BY <1>1, <1>2, <1>4 DEF Coherent, MembersAreNamed
<1> QED
  BY <1>2, <1>4, <1>5, <1>6, <1>7, <1>8 DEF Coherent, new

\* SetLoggedIn: a name that IsDisplayNameTaken denies stays unique.
LEMMA SetLoggedInCoherent ==
  ASSUME NEW rs, Coherent(rs), NEW sid \in SessionIds, NEW n \in Names,
         FindSession(rs, sid), ~IsDisplayNameTaken(rs, n, sid)
  PROVE  LET new == SetLoggedIn(rs, sid, n)
         IN  /\ Coherent(new)
             /\ DOMAIN new.sessions = DOMAIN rs.sessions
             /\ new.sessions[sid].logged_in
             /\ new.sessions[sid].display_name = n
             /\ new.sessions[sid].room_id = rs.sessions[sid].room_id
             /\ \A s \in DOMAIN rs.sessions \ {sid} :
                    new.sessions[s] = rs.sessions[s]
<1> USE RoomSystemAssumption
<1> DEFINE new == SetLoggedIn(rs, sid, n)
           named == [display_name |-> n, room_id |-> rs.sessions[sid].room_id,
                     logged_in |-> TRUE]
<1>1. /\ sid \in DOMAIN rs.sessions
      /\ rs.sessions \in [DOMAIN rs.sessions -> SessionState]
      /\ rs.sessions[sid] \in SessionState
  BY DEF Coherent, IsRoomSystem, FindSession
<1>2. named \in SessionState
  BY <1>1 DEF SessionState
<1>3. new = [sessions |-> [rs.sessions EXCEPT ![sid] = named], rooms |-> rs.rooms]
  BY <1>1, <1>2 DEF SetLoggedIn, FindSession
<1>4. /\ named.logged_in = TRUE
      /\ named.display_name = n
      /\ named.room_id = rs.sessions[sid].room_id
  OBVIOUS
<1> HIDE DEF new, named
<1>5. /\ new = [sessions |-> new.sessions, rooms |-> new.rooms]
      /\ new.rooms = rs.rooms
      /\ DOMAIN new.sessions = DOMAIN rs.sessions
      /\ new.sessions[sid] = named
      /\ \A s \in DOMAIN rs.sessions \ {sid} : new.sessions[s] = rs.sessions[s]
      /\ new.sessions \in [DOMAIN new.sessions -> SessionState]
  BY <1>1, <1>2, <1>3
<1>6. IsRoomSystem(new)
  BY <1>5 DEF Coherent, IsRoomSystem
<1>7. MembershipAgrees(new)
  BY <1>1, <1>4, <1>5 DEF Coherent, MembershipAgrees, FindSession
<1>8. NamesDiffer(new)
  BY <1>1, <1>4, <1>5 DEF Coherent, NamesDiffer, IsDisplayNameTaken
<1>9. MembersAreNamed(new)
  BY <1>1, <1>4, <1>5 DEF Coherent, MembersAreNamed
<1> QED
  BY <1>4, <1>5, <1>6, <1>7, <1>8, <1>9 DEF Coherent, new

\* MoveSessionToRoom, called as HandleJoinRoomRequest calls it: for a session
\* that is logged in and has just left its room.
LEMMA MoveCoherent ==
  ASSUME NEW rs, Coherent(rs), NEW sid \in SessionIds, NEW rid \in RoomIds,
         FindSession(rs, sid), rs.sessions[sid].logged_in,
         rs.sessions[sid].room_id = no_room_id
  PROVE  LET new == MoveSessionToRoom(rs, sid, rid)
         IN  /\ Coherent(new)
             /\ DOMAIN new.sessions = DOMAIN rs.sessions
             /\ new.sessions[sid].logged_in
             /\ new.sessions[sid].display_name = rs.sessions[sid].display_name
             /\ new.sessions[sid].room_id = rid
             /\ \A s \in DOMAIN rs.sessions \ {sid} :
                    new.sessions[s] = rs.sessions[s]
<1> USE RoomSystemAssumption
<1> DEFINE new == MoveSessionToRoom(rs, sid, rid)
           moved == [display_name |-> rs.sessions[sid].display_name,
                     room_id |-> rid, logged_in |-> rs.sessions[sid].logged_in]
<1>1. /\ sid \in DOMAIN rs.sessions
      /\ rs.sessions \in [DOMAIN rs.sessions -> SessionState]
      /\ rs.sessions[sid] \in SessionState
      /\ rs.rooms \in [RoomIds -> SUBSET SessionIds]
  BY DEF Coherent, IsRoomSystem, FindSession
<1>2. moved \in SessionState
  BY <1>1 DEF SessionState
<1>3. new = [sessions |-> [rs.sessions EXCEPT ![sid] = moved],
             rooms    |-> [rs.rooms EXCEPT ![rid] = rs.rooms[rid] \cup {sid}]]
  BY <1>1, RoomIdUpdate DEF MoveSessionToRoom, FindSession, FindRoom
<1>4. /\ moved.logged_in = rs.sessions[sid].logged_in
      /\ moved.display_name = rs.sessions[sid].display_name
      /\ moved.room_id = rid
  OBVIOUS
<1> HIDE DEF new, moved
<1>5. /\ new = [sessions |-> new.sessions, rooms |-> new.rooms]
      /\ DOMAIN new.sessions = DOMAIN rs.sessions
      /\ new.sessions[sid] = moved
      /\ \A s \in DOMAIN rs.sessions \ {sid} : new.sessions[s] = rs.sessions[s]
      /\ new.sessions \in [DOMAIN new.sessions -> SessionState]
      /\ new.rooms[rid] = rs.rooms[rid] \cup {sid}
      /\ \A r \in RoomIds \ {rid} : new.rooms[r] = rs.rooms[r]
      /\ new.rooms \in [RoomIds -> SUBSET SessionIds]
  BY <1>1, <1>2, <1>3
<1>6. IsRoomSystem(new)
  BY <1>5 DEF Coherent, IsRoomSystem
<1>7. MembershipAgrees(new)
  BY <1>1, <1>4, <1>5 DEF Coherent, MembershipAgrees, FindSession, no_room_id
<1>8. NamesDiffer(new)
  BY <1>1, <1>4, <1>5 DEF Coherent, NamesDiffer
<1>9. MembersAreNamed(new)
  BY <1>1, <1>4, <1>5 DEF Coherent, MembersAreNamed
<1> QED
  BY <1>4, <1>5, <1>6, <1>7, <1>8, <1>9 DEF Coherent, new

-----------------------------------------------------------------------------
(* The invariant of the GameLogicSystem.                                   *)

\* The parts of TypeOK and of the safety invariants together: Coherent
\* is inductive only as a whole, since IsDisplayNameTaken looks at logged_in,
\* and MoveSessionToRoom relies on its caller having checked it.
IInv ==
    /\ Coherent(room_system)
    /\ outgoing_messages \in [SessionIds -> Seq(Payload)]
    /\ pending_disconnects \in Seq(SessionIds)

Streams == [SessionIds -> Seq(Payload)]

-----------------------------------------------------------------------------
(* Streams.                                                                *)

\* The ways to build a stream build streams.
LEMMA StreamOperators ==
  /\ NoMessages \in Streams
  /\ \A sid, ps : ps \in Seq(Payload) => To(sid, ps) \in Streams
  /\ \A sid : \A p \in Payload : To(sid, <<p>>) \in Streams
  /\ \A ms, p : p \in Payload => ToAll(ms, p) \in Streams
  /\ \A a \in Streams, b \in Streams : Then(a, b) \in Streams
<1> HIDE DEF Payload
<1>1. NoMessages \in Streams
  BY DEF NoMessages, Streams
<1>2. \A sid, ps : ps \in Seq(Payload) => To(sid, ps) \in Streams
  BY DEF To, Streams
<1>3. \A ms, p : p \in Payload => ToAll(ms, p) \in Streams
  BY DEF ToAll, Streams
<1>4. \A a \in Streams, b \in Streams : Then(a, b) \in Streams
  BY DEF Then, Streams
<1>5. \A sid : \A p \in Payload : To(sid, <<p>>) \in Streams
  <2>1. \A p \in Payload : <<p>> \in Seq(Payload)
    OBVIOUS
  <2> QED
    BY <2>1, <1>2
<1> QED
  BY <1>1, <1>2, <1>3, <1>4, <1>5

\* What Queue does to a well-typed queue.
LEMMA QueueType ==
  ASSUME outgoing_messages \in Streams, NEW ms \in Streams, Queue(ms)
  PROVE  outgoing_messages' \in Streams
  BY StreamOperators DEF Queue

\* The tables inside payloads.
LEMMA InfoTypes ==
  ASSUME NEW rs, Coherent(rs)
  PROVE  /\ \A s \in DOMAIN rs.sessions : BuildUserInfo(rs, s) \in UserInfo
         /\ \A r \in RoomIds : BuildRoomInfo(rs, r) \in RoomInfo
<1>1. ASSUME NEW s \in DOMAIN rs.sessions
      PROVE  BuildUserInfo(rs, s) \in UserInfo
  BY <1>1 DEF Coherent, IsRoomSystem, SessionState, BuildUserInfo, UserInfo
<1>2. ASSUME NEW r \in RoomIds
      PROVE  BuildRoomInfo(rs, r) \in RoomInfo
  <2>1. rs.rooms[r] \in SUBSET SessionIds
    BY DEF Coherent, IsRoomSystem
  <2>2. Cardinality(rs.rooms[r]) \in Nat
    BY <2>1, FS_Subset, FS_CardinalityType, RoomSystemAssumption
  <2> QED
    BY <2>2 DEF BuildRoomInfo, RoomInfo
<1> QED
  BY <1>1, <1>2

\* Every payload constructor builds a Payload.
LEMMA PayloadTypes ==
  ASSUME NEW i \in RequestIds, NEW ok \in BOOLEAN, NEW ec \in ErrorCode
  PROVE  /\ \A u \in UserInfo \cup {NoUser} :
                LoginResponse(i, ok, ec, u) \in Payload
         /\ \A rooms \in [RoomIds -> RoomInfo] :
                RoomListResponse(i, rooms) \in Payload
         /\ \A room \in RoomInfo \cup {NoRoom} :
                JoinRoomResponse(i, ok, ec, room) \in Payload
         /\ LeaveRoomResponse(i, ok, ec) \in Payload
         /\ DisconnectResponse(i) \in Payload
<1> HIDE DEF NoUser, NoRoom, UserInfo, RoomInfo, ErrorCode
<1>1. ASSUME NEW u \in UserInfo \cup {NoUser}
      PROVE  LoginResponse(i, ok, ec, u) \in Payload
  BY DEF LoginResponse, Payload
<1>2. ASSUME NEW rooms \in [RoomIds -> RoomInfo]
      PROVE  RoomListResponse(i, rooms) \in Payload
  BY DEF RoomListResponse, Payload
<1>3. ASSUME NEW room \in RoomInfo \cup {NoRoom}
      PROVE  JoinRoomResponse(i, ok, ec, room) \in Payload
  BY DEF JoinRoomResponse, Payload
<1>4. LeaveRoomResponse(i, ok, ec) \in Payload
  BY DEF LeaveRoomResponse, Payload
<1>5. DisconnectResponse(i) \in Payload
  BY DEF DisconnectResponse, Payload
<1> QED
  BY <1>1, <1>2, <1>3, <1>4, <1>5

\* The same for the events, which carry request_id 0.
LEMMA EventPayloadTypes ==
  ASSUME NEW r \in RoomIds, NEW u \in UserInfo
  PROVE  /\ \A c \in Texts : ChatBroadcast(r, u, c) \in Payload
         /\ UserJoinedEvent(r, u) \in Payload
         /\ UserLeftEvent(r, u) \in Payload
<1> HIDE DEF UserInfo
<1>1. ASSUME NEW c \in Texts PROVE ChatBroadcast(r, u, c) \in Payload
  BY DEF ChatBroadcast, Payload
<1>2. UserJoinedEvent(r, u) \in Payload
  BY DEF UserJoinedEvent, Payload
<1>3. UserLeftEvent(r, u) \in Payload
  BY DEF UserLeftEvent, Payload
<1> QED
  BY <1>1, <1>2, <1>3

\* SystemMessageEvent takes a room or none.
LEMMA SystemMessageType ==
  \A r \in RoomIds \cup {no_room_id} : SystemMessageEvent(r) \in Payload
  BY DEF SystemMessageEvent, Payload

\* NotifyRoomLeave queues well-typed messages.
LEMMA NotifyType ==
  ASSUME NEW rs, Coherent(rs), NEW sid \in DOMAIN rs.sessions
  PROVE  NotifyRoomLeave(rs, sid) \in Streams
<1>1. CASE rs.sessions[sid].room_id = no_room_id \/ ~rs.sessions[sid].logged_in
  BY <1>1, StreamOperators DEF NotifyRoomLeave
<1>2. CASE ~(rs.sessions[sid].room_id = no_room_id \/ ~rs.sessions[sid].logged_in)
  <2>1. rs.sessions[sid].room_id \in RoomIds
    BY <1>2 DEF Coherent, IsRoomSystem, SessionState
  <2>2. UserLeftEvent(rs.sessions[sid].room_id, BuildUserInfo(rs, sid)) \in Payload
    BY <2>1, InfoTypes, EventPayloadTypes
  <2> QED
    BY <1>2, <2>2, StreamOperators DEF NotifyRoomLeave
<1> QED
  BY <1>1, <1>2

-----------------------------------------------------------------------------
(* Events.                                                                 *)

\* The fields of an event that its handler reads.
LEMMA EventFields ==
  ASSUME NEW e \in ServerEvent
  PROVE  /\ e.session_id \in SessionIds
         /\ e.type \notin {"Connected", "Disconnected", "InvalidPacket"} =>
                e.request_id \in RequestIds
         /\ e.type = "LoginRequest" =>
                e.display_name \in Names \cup {EmptyName, LongName}
         /\ e.type = "JoinRoomRequest" => e.room_id \in RoomIds \cup {no_room_id}
         /\ e.type = "ChatSendRequest" =>
                e.content \in Texts \cup {EmptyText, LongText}
<1>1. CASE e \in SessionEvent
  BY <1>1 DEF SessionEvent
<1>2. CASE e \in RequestEvent
  BY <1>2 DEF RequestEvent
<1> QED
  BY <1>1, <1>2 DEF ServerEvent

-----------------------------------------------------------------------------
(* One lemma per handler.                                                  *)

\* HandleSessionConnected keeps the invariant.
LEMMA ConnectedStep ==
  ASSUME IInv, NEW e, e.session_id \in SessionIds, HandleSessionConnected(e)
  PROVE  IInv'
  BY AddSessionCoherent DEF IInv, HandleSessionConnected

\* HandleSessionDisconnected keeps the invariant.
LEMMA DisconnectedStep ==
  ASSUME IInv, NEW e, e.session_id \in SessionIds, HandleSessionDisconnected(e)
  PROVE  IInv'
<1>1. Coherent(room_system')
  BY RemoveSessionCoherent DEF IInv, HandleSessionDisconnected
<1>2. outgoing_messages' \in Streams
  <2>1. CASE FindSession(room_system, e.session_id)
    <3>1. NotifyRoomLeave(room_system, e.session_id) \in Streams
      BY <2>1, NotifyType DEF IInv, FindSession
    <3> QED
      BY <2>1, <3>1, QueueType DEF IInv, HandleSessionDisconnected, Streams
  <2>2. CASE ~FindSession(room_system, e.session_id)
    BY <2>2 DEF IInv, HandleSessionDisconnected, Streams
  <2> QED
    BY <2>1, <2>2
<1> QED
  BY <1>1, <1>2 DEF IInv, HandleSessionDisconnected, Streams

\* A handler that queues well-typed messages and does nothing else.
LEMMA ReplyStep ==
  ASSUME IInv, NEW ms \in Streams, Queue(ms),
         UNCHANGED <<room_system, pending_disconnects>>
  PROVE  IInv'
  BY QueueType DEF IInv, Streams

\* A handler that sends one well-typed message to one session.
LEMMA ReplyToStep ==
  ASSUME IInv, NEW sid, NEW p \in Payload, Queue(To(sid, <<p>>)),
         UNCHANGED <<room_system, pending_disconnects>>
  PROVE  IInv'
<1>1. To(sid, <<p>>) \in Streams
  BY StreamOperators
<1> QED
  BY <1>1, ReplyStep

\* HandleInvalidPacket keeps the invariant.
LEMMA InvalidStep ==
  ASSUME IInv, NEW e, HandleInvalidPacket(e)
  PROVE  IInv'
<1>1. SystemMessageEvent(no_room_id) \in Payload
  BY SystemMessageType
<1> QED
  BY <1>1, ReplyToStep DEF HandleInvalidPacket

\* HandleLoginRequest keeps the invariant: AcceptLogin is reached only when
\* the name is admissible and not taken.
LEMMA LoginStep ==
  ASSUME IInv, NEW e, e.session_id \in SessionIds, e.request_id \in RequestIds,
         HandleLoginRequest(e)
  PROVE  IInv'
<1> DEFINE sid == e.session_id
<1>1. CASE UNCHANGED logicVars
  BY <1>1 DEF IInv, logicVars
<1>2. ASSUME NEW code \in {"INVALID_NAME", "DUPLICATE_NAME"}, RefuseLogin(e, code)
      PROVE  IInv'
  <2>1. LoginResponse(e.request_id, FALSE, code, NoUser) \in Payload
    BY <1>2, PayloadTypes DEF ErrorCode
  <2> QED
    BY <1>2, <2>1, ReplyToStep DEF RefuseLogin
<1>3. CASE /\ FindSession(room_system, sid)
           /\ e.display_name \in Names
           /\ ~IsDisplayNameTaken(room_system, e.display_name, sid)
           /\ AcceptLogin(e)
  <2> DEFINE n == e.display_name
             new == SetLoggedIn(room_system, sid, n)
  <2>1. room_system' = new
    BY <1>3 DEF AcceptLogin
  <2>2. /\ Coherent(new)
        /\ DOMAIN new.sessions = DOMAIN room_system.sessions
    BY <1>3, SetLoggedInCoherent DEF IInv
  <2>3. sid \in DOMAIN new.sessions
    BY <1>3, <2>2 DEF FindSession
  <2>4. BuildUserInfo(new, sid) \in UserInfo
    BY <2>2, <2>3, InfoTypes
  <2>5. LoginResponse(e.request_id, TRUE, "NONE", BuildUserInfo(new, sid)) \in Payload
    BY <2>4, PayloadTypes DEF ErrorCode
  <2> HIDE DEF new
  <2>6. To(sid, <<LoginResponse(e.request_id, TRUE, "NONE",
                                BuildUserInfo(new, sid))>>) \in Streams
    BY <2>5, StreamOperators
  <2>7. outgoing_messages' \in Streams
    BY <1>3, <2>1, <2>6, QueueType DEF IInv, Streams, AcceptLogin
  <2> QED
    BY <1>3, <2>1, <2>2, <2>7 DEF IInv, Streams, AcceptLogin
<1> QED
  BY <1>1, <1>2, <1>3 DEF HandleLoginRequest

\* HandleRoomListRequest keeps the invariant.
LEMMA RoomListStep ==
  ASSUME IInv, NEW e, e.request_id \in RequestIds, HandleRoomListRequest(e)
  PROVE  IInv'
<1> DEFINE rooms == [r \in RoomIds |-> BuildRoomInfo(room_system, r)]
<1>1. rooms \in [RoomIds -> RoomInfo]
  BY InfoTypes DEF IInv
<1> HIDE DEF rooms
<1>2. RoomListResponse(e.request_id, rooms) \in Payload
  BY <1>1, PayloadTypes DEF ErrorCode
<1> QED
  BY <1>2, ReplyToStep DEF HandleRoomListRequest, rooms

\* EnterRoom keeps the invariant: the session has left its old room before it
\* is moved, and everyone it is introduced to has a session.
LEMMA EnterRoomStep ==
  ASSUME IInv, NEW e, e.session_id \in SessionIds, e.request_id \in RequestIds,
         FindSession(room_system, e.session_id),
         room_system.sessions[e.session_id].logged_in,
         e.room_id \in RoomIds,
         EnterRoom(e)
  PROVE  IInv'
<1> DEFINE sid      == e.session_id
           rid      == e.room_id
           left     == RemoveSessionFromCurrentRoom(room_system, sid)
           existing == {t \in GetRoomMembers(left, rid, {}) :
                           left.sessions[t].logged_in}
           moved    == MoveSessionToRoom(left, sid, rid)
           response == JoinRoomResponse(e.request_id, TRUE, "NONE",
                                        BuildRoomInfo(moved, rid))
           greeting == <<response, SystemMessageEvent(rid)>>
           joined(rs, t) == UserJoinedEvent(rid, BuildUserInfo(rs, t))
           roll(order) == [i \in DOMAIN order |-> joined(left, order[i])]
<1>1. Coherent(left)
  BY RemoveFromRoomCoherent DEF IInv
<1>2. /\ DOMAIN left.sessions = DOMAIN room_system.sessions
      /\ left.sessions[sid].room_id = no_room_id
      /\ left.sessions[sid].logged_in
  <2>1. LeftRoom(room_system, left, sid)
    BY RemoveFromRoomEffect DEF IInv
  <2> QED
    BY <2>1 DEF LeftRoom
<1>3. sid \in DOMAIN left.sessions
  BY <1>2 DEF FindSession
<1>4. Coherent(moved) /\ DOMAIN moved.sessions = DOMAIN left.sessions
  BY <1>1, <1>2, <1>3, MoveCoherent DEF FindSession
<1>5. existing \subseteq DOMAIN left.sessions
  BY DEF GetRoomMembers, FindSession
<1> HIDE DEF left, moved, existing
<1>6. response \in Payload
  BY <1>4, InfoTypes, PayloadTypes DEF ErrorCode
<1>7. \A t \in existing : joined(left, t) \in Payload
  BY <1>1, <1>5, InfoTypes, EventPayloadTypes
<1>8. joined(moved, sid) \in Payload
  BY <1>3, <1>4, InfoTypes, EventPayloadTypes
<1>9. SystemMessageEvent(rid) \in Payload
  BY SystemMessageType
<1> HIDE DEF joined, response
<1>10. greeting \in Seq(Payload)
  BY <1>6, <1>9
<1>11. ASSUME NEW order \in SetToSeqs(existing)
       PROVE  greeting \o roll(order) \in Seq(Payload)
  <2>1. Cardinality(existing) \in Nat
    <3>1. existing \in SUBSET SessionIds
      BY <1>1, <1>5 DEF Coherent, IsRoomSystem
    <3> QED
      BY <3>1, FS_Subset, FS_CardinalityType, RoomSystemAssumption
  <2>2. order \in [1 .. Cardinality(existing) -> existing]
    BY DEF SetToSeqs
  <2>3. roll(order) \in [1 .. Cardinality(existing) -> Payload]
    BY <2>2, <1>7
  <2>4. roll(order) \in Seq(Payload)
    BY <2>1, <2>3
  <2> QED
    BY <2>4, <1>10
<1>12. PICK order \in SetToSeqs(existing) :
         Queue(Then(NotifyRoomLeave(room_system, sid),
               Then(To(sid, greeting \o roll(order)),
                    ToAll(existing, joined(moved, sid)))))
  BY DEF EnterRoom, left, moved, existing, joined, response
<1>13. NotifyRoomLeave(room_system, sid) \in Streams
  BY NotifyType DEF IInv, FindSession
<1>14. To(sid, greeting \o roll(order)) \in Streams
  BY <1>11, StreamOperators
<1>15. ToAll(existing, joined(moved, sid)) \in Streams
  BY <1>8, StreamOperators
<1> HIDE DEF greeting, roll
<1>16. outgoing_messages' \in Streams
  <2>1. Then(NotifyRoomLeave(room_system, sid),
             Then(To(sid, greeting \o roll(order)),
                  ToAll(existing, joined(moved, sid)))) \in Streams
    BY <1>13, <1>14, <1>15, StreamOperators
  <2> QED
    BY <1>12, <2>1, QueueType DEF IInv, Streams
<1>17. room_system' = moved /\ UNCHANGED pending_disconnects
  BY DEF EnterRoom, moved, left
<1> QED
  BY <1>4, <1>16, <1>17 DEF IInv, Streams

\* HandleJoinRoomRequest keeps the invariant.
LEMMA JoinStep ==
  ASSUME IInv, NEW e, e.session_id \in SessionIds, e.request_id \in RequestIds,
         e.room_id \in RoomIds \cup {no_room_id}, HandleJoinRoomRequest(e)
  PROVE  IInv'
<1>1. CASE UNCHANGED logicVars
  BY <1>1 DEF IInv, logicVars
<1>2. ASSUME NEW code \in {"INVALID_NAME", "ROOM_NOT_FOUND", "ALREADY_IN_ROOM"},
             RefuseJoin(e, code)
      PROVE  IInv'
  <2>1. JoinRoomResponse(e.request_id, FALSE, code, NoRoom) \in Payload
    BY <1>2, PayloadTypes DEF ErrorCode
  <2> QED
    BY <1>2, <2>1, ReplyToStep DEF RefuseJoin
<1>3. CASE /\ FindSession(room_system, e.session_id)
           /\ room_system.sessions[e.session_id].logged_in
           /\ FindRoom(room_system, e.room_id)
           /\ EnterRoom(e)
  <2>1. e.room_id \in RoomIds
    BY <1>3 DEF IInv, Coherent, IsRoomSystem, FindRoom
  <2> QED
    BY <1>3, <2>1, EnterRoomStep
<1> QED
  BY <1>1, <1>2, <1>3 DEF HandleJoinRoomRequest

\* HandleChatSendRequest keeps the invariant.
LEMMA ChatSendStep ==
  ASSUME IInv, NEW e, e.session_id \in SessionIds,
         e.content \in Texts \cup {EmptyText, LongText}, HandleChatSendRequest(e)
  PROVE  IInv'
<1> DEFINE sid == e.session_id
           rid == room_system.sessions[sid].room_id
           said == ChatBroadcast(rid, BuildUserInfo(room_system, sid), e.content)
           heard == ToAll(GetRoomMembers(room_system, rid, {}), said)
<1>1. CASE UNCHANGED logicVars
  BY <1>1 DEF IInv, logicVars
<1>2. ASSUME NEW r \in RoomIds \cup {no_room_id},
             Queue(To(sid, <<SystemMessageEvent(r)>>)),
             UNCHANGED <<room_system, pending_disconnects>>
      PROVE  IInv'
  BY <1>2, SystemMessageType, ReplyToStep
<1>3. CASE /\ FindSession(room_system, sid)
           /\ rid # no_room_id
           /\ e.content \in Texts
           /\ Queue(heard)
           /\ UNCHANGED <<room_system, pending_disconnects>>
  <2>1. rid \in RoomIds
    BY <1>3 DEF IInv, Coherent, IsRoomSystem, SessionState, FindSession
  <2>2. said \in Payload
    BY <1>3, <2>1, InfoTypes, EventPayloadTypes DEF IInv, FindSession
  <2> HIDE DEF said
  <2>3. heard \in Streams
    BY <2>2, StreamOperators
  <2> QED
    BY <1>3, <2>3, ReplyStep
<1>4. FindSession(room_system, sid) => rid \in RoomIds \cup {no_room_id}
  BY DEF IInv, Coherent, IsRoomSystem, SessionState, FindSession
<1> QED
  BY <1>1, <1>2, <1>3, <1>4 DEF HandleChatSendRequest

\* HandleLeaveRoomRequest keeps the invariant.
LEMMA LeaveStep ==
  ASSUME IInv, NEW e, e.session_id \in SessionIds, e.request_id \in RequestIds,
         HandleLeaveRoomRequest(e)
  PROVE  IInv'
<1> DEFINE sid == e.session_id
           rid == room_system.sessions[sid].room_id
           told == NotifyRoomLeave(room_system, sid)
           left == LeaveRoomResponse(e.request_id, TRUE, "NONE")
           notice == SystemMessageEvent(rid)
           answer == To(sid, <<left, notice>>)
<1>1. CASE UNCHANGED logicVars
  BY <1>1 DEF IInv, logicVars
<1>2. CASE /\ Queue(To(sid, <<LeaveRoomResponse(e.request_id, FALSE,
                                                "NOT_IN_ROOM")>>))
           /\ UNCHANGED <<room_system, pending_disconnects>>
  <2>1. LeaveRoomResponse(e.request_id, FALSE, "NOT_IN_ROOM") \in Payload
    BY PayloadTypes DEF ErrorCode
  <2> QED
    BY <1>2, <2>1, ReplyToStep
<1>3. CASE /\ FindSession(room_system, sid)
           /\ Queue(Then(told, answer))
           /\ room_system' = RemoveSessionFromCurrentRoom(room_system, sid)
           /\ UNCHANGED pending_disconnects
  <2>1. rid \in RoomIds \cup {no_room_id}
    BY <1>3 DEF IInv, Coherent, IsRoomSystem, SessionState, FindSession
  <2>2. left \in Payload /\ notice \in Payload
    BY <2>1, PayloadTypes, SystemMessageType DEF ErrorCode
  <2>3. answer \in Streams
    <3> HIDE DEF left, notice
    <3>1. <<left, notice>> \in Seq(Payload)
      BY <2>2
    <3> QED
      BY <3>1, StreamOperators
  <2>4. told \in Streams
    BY <1>3, NotifyType DEF IInv, FindSession
  <2> HIDE DEF told, answer
  <2>5. outgoing_messages' \in Streams
    BY <1>3, <2>3, <2>4, StreamOperators, QueueType DEF IInv, Streams
  <2>6. Coherent(room_system')
    BY <1>3, RemoveFromRoomCoherent DEF IInv
  <2> QED
    BY <1>3, <2>5, <2>6 DEF IInv, Streams
<1> QED
  BY <1>1, <1>2, <1>3 DEF HandleLeaveRoomRequest

\* HandleDisconnectRequest keeps the invariant.
LEMMA DisconnectRequestStep ==
  ASSUME IInv, NEW e, e.session_id \in SessionIds, e.request_id \in RequestIds,
         HandleDisconnectRequest(e)
  PROVE  IInv'
<1> DEFINE sid == e.session_id
           response == To(sid, <<DisconnectResponse(e.request_id)>>)
           told == NotifyRoomLeave(room_system, sid)
<1>1. response \in Streams
  BY PayloadTypes, StreamOperators DEF ErrorCode
<1>2. FindSession(room_system, sid) => told \in Streams
  BY NotifyType DEF IInv, FindSession
<1>3. Coherent(room_system')
  BY RemoveSessionCoherent DEF IInv, HandleDisconnectRequest
<1>4. pending_disconnects' \in Seq(SessionIds)
  BY DEF IInv, HandleDisconnectRequest
<1>5. IF FindSession(room_system, sid) THEN Queue(Then(response, told))
                                       ELSE Queue(response)
  BY DEF HandleDisconnectRequest
<1> HIDE DEF response, told
<1>6. outgoing_messages' \in Streams
  BY <1>1, <1>2, <1>5, StreamOperators, QueueType DEF IInv, Streams
<1> QED
  BY <1>3, <1>4, <1>6 DEF IInv, Streams

-----------------------------------------------------------------------------
(* The invariant.                                                          *)

\* The constructed object.
LEMMA InitStep ==
  ASSUME Init
  PROVE  IInv
<1>1. Coherent(room_system)
  BY NewRoomSystemCoherent DEF Init
<1>2. outgoing_messages \in Streams
  BY StreamOperators DEF Init
<1>3. pending_disconnects \in Seq(SessionIds)
  BY DEF Init
<1> QED
  BY <1>1, <1>2, <1>3 DEF IInv, Streams

\* Any event.
LEMMA HandleStep ==
  ASSUME IInv, NEW e \in ServerEvent, Handle(e)
  PROVE  IInv'
<1>1. CASE e.type = "Connected" /\ HandleSessionConnected(e)
  BY <1>1, EventFields, ConnectedStep
<1>2. CASE e.type = "Disconnected" /\ HandleSessionDisconnected(e)
  BY <1>2, EventFields, DisconnectedStep
<1>3. CASE e.type = "InvalidPacket" /\ HandleInvalidPacket(e)
  BY <1>3, InvalidStep
<1>4. CASE e.type = "LoginRequest" /\ HandleLoginRequest(e)
  BY <1>4, EventFields, LoginStep
<1>5. CASE e.type = "RoomListRequest" /\ HandleRoomListRequest(e)
  BY <1>5, EventFields, RoomListStep
<1>6. CASE e.type = "JoinRoomRequest" /\ HandleJoinRoomRequest(e)
  BY <1>6, EventFields, JoinStep
<1>7. CASE e.type = "ChatSendRequest" /\ HandleChatSendRequest(e)
  BY <1>7, EventFields, ChatSendStep
<1>8. CASE e.type = "LeaveRoomRequest" /\ HandleLeaveRoomRequest(e)
  BY <1>8, EventFields, LeaveStep
<1>9. CASE e.type = "DisconnectRequest" /\ HandleDisconnectRequest(e)
  BY <1>9, EventFields, DisconnectRequestStep
<1> QED
  BY <1>1, <1>2, <1>3, <1>4, <1>5, <1>6, <1>7, <1>8, <1>9 DEF Handle

\* A flush.
LEMMA TakeStep ==
  ASSUME IInv, Take
  PROVE  IInv'
<1>1. outgoing_messages' \in Streams
  BY StreamOperators DEF Take
<1> QED
  BY <1>1 DEF Take, IInv, Streams

\* IInv is inductive: it holds of the constructed object, and every event and
\* every flush preserves it.
THEOREM Inductive == Spec => []IInv
<1>1. Init => IInv
  BY InitStep
<1>2. IInv /\ [Next]_logicVars => IInv'
  <2>1. ASSUME IInv, UNCHANGED logicVars PROVE IInv'
    BY <2>1 DEF IInv, logicVars
  <2> QED
    BY <2>1, HandleStep, TakeStep DEF Next
<1> QED
  BY <1>1, <1>2, PTL DEF Spec

\* The members of GameLogicSystem always have their types.
THEOREM TypeCorrect == Spec => []TypeOK
<1>1. IInv => TypeOK
  BY DEF IInv, Coherent, TypeOK
<1> QED
  BY <1>1, Inductive, PTL

\* RoomSystem's two records of who is in which room agree after every handler
\* (RoomSystem.cpp writes them in separate statements), for any number of
\* sessions and rooms and any order of events.
THEOREM MembershipTheorem == Spec => []RoomIndexConsistent
<1>1. IInv => RoomIndexConsistent
  BY DEF IInv, Coherent, RoomIndexConsistent
<1> QED
  BY <1>1, Inductive, PTL

\* HandleLoginRequest never lets two sessions hold one display name.
THEOREM UniqueNamesTheorem == Spec => []LoggedInNamesUnique
<1>1. IInv => LoggedInNamesUnique
  BY DEF IInv, Coherent, LoggedInNamesUnique
<1> QED
  BY <1>1, Inductive, PTL

\* Only sessions that logged in under a proper name are ever in a room.
THEOREM NamedMembersTheorem == Spec => []OnlyNamedMembers
<1>1. IInv => OnlyNamedMembers
  BY DEF IInv, Coherent, OnlyNamedMembers
<1> QED
  BY <1>1, Inductive, PTL

-----------------------------------------------------------------------------
(* The GameLogicSystem implements ChatService: seen through place and      *)
(* name, each of its steps is one step of the abstract service or none.    *)

\* What each RoomSystem operation does to the presence of its session.
LEMMA AddSessionPresence ==
  ASSUME NEW rs, Coherent(rs), NEW sid \in SessionIds, ~FindSession(rs, sid)
  PROVE  LET new == AddSession(rs, sid)
         IN  /\ PlaceOf(new) = [PlaceOf(rs) EXCEPT ![sid] = no_room_id]
             /\ NameOf(new) = NameOf(rs)
<1> DEFINE new == AddSession(rs, sid)
<1>1. /\ DOMAIN new.sessions = DOMAIN rs.sessions \cup {sid}
      /\ new.sessions[sid].room_id = no_room_id
      /\ new.sessions[sid].logged_in = FALSE
      /\ \A s \in DOMAIN rs.sessions : new.sessions[s] = rs.sessions[s]
  BY DEF AddSession, FindSession
<1> HIDE DEF new
<1>2. PlaceOf(new) = [PlaceOf(rs) EXCEPT ![sid] = no_room_id]
  BY <1>1 DEF PlaceOf, FindSession
<1>3. NameOf(new) = NameOf(rs)
  BY <1>1 DEF NameOf, FindSession
<1> QED
  BY <1>2, <1>3 DEF new

\* RemoveSession gives up place and name together.
LEMMA RemoveSessionPresence ==
  ASSUME NEW rs, Coherent(rs), NEW sid \in SessionIds
  PROVE  LET new == RemoveSession(rs, sid)
         IN  /\ PlaceOf(new) = [PlaceOf(rs) EXCEPT ![sid] = Away]
             /\ NameOf(new) = [NameOf(rs) EXCEPT ![sid] = EmptyName]
<1> DEFINE new == RemoveSession(rs, sid)
<1>1. /\ DOMAIN new.sessions = DOMAIN rs.sessions \ {sid}
      /\ \A s \in DOMAIN rs.sessions \ {sid} : new.sessions[s] = rs.sessions[s]
  BY RemoveSessionCoherent
<1> HIDE DEF new
<1>2. PlaceOf(new) = [PlaceOf(rs) EXCEPT ![sid] = Away]
  BY <1>1 DEF PlaceOf, FindSession
<1>3. NameOf(new) = [NameOf(rs) EXCEPT ![sid] = EmptyName]
  BY <1>1 DEF NameOf, FindSession
<1> QED
  BY <1>2, <1>3 DEF new

\* SetLoggedIn changes the name only.
LEMMA SetLoggedInPresence ==
  ASSUME NEW rs, Coherent(rs), NEW sid \in SessionIds, NEW n \in Names,
         FindSession(rs, sid), ~IsDisplayNameTaken(rs, n, sid)
  PROVE  LET new == SetLoggedIn(rs, sid, n)
         IN  /\ PlaceOf(new) = PlaceOf(rs)
             /\ NameOf(new) = [NameOf(rs) EXCEPT ![sid] = n]
             /\ \A u \in SessionIds \ {sid} : NameOf(rs)[u] # n
<1> DEFINE new == SetLoggedIn(rs, sid, n)
<1>1. /\ DOMAIN new.sessions = DOMAIN rs.sessions
      /\ new.sessions[sid].logged_in
      /\ new.sessions[sid].display_name = n
      /\ new.sessions[sid].room_id = rs.sessions[sid].room_id
      /\ \A s \in DOMAIN rs.sessions \ {sid} : new.sessions[s] = rs.sessions[s]
  BY SetLoggedInCoherent
<1> HIDE DEF new
<1>2. PlaceOf(new) = PlaceOf(rs)
  BY <1>1 DEF PlaceOf, FindSession
<1>3. NameOf(new) = [NameOf(rs) EXCEPT ![sid] = n]
  BY <1>1 DEF NameOf, FindSession
<1>4. \A u \in SessionIds \ {sid} : NameOf(rs)[u] # n
  BY RoomSystemAssumption DEF NameOf, FindSession, IsDisplayNameTaken
<1> QED
  BY <1>2, <1>3, <1>4 DEF new

\* Leaving a room changes the place only.
LEMMA LeaveRoomPresence ==
  ASSUME NEW rs, Coherent(rs), NEW sid \in SessionIds, FindSession(rs, sid)
  PROVE  LET out == RemoveSessionFromCurrentRoom(rs, sid)
         IN  /\ PlaceOf(out) = [PlaceOf(rs) EXCEPT ![sid] = no_room_id]
             /\ NameOf(out) = NameOf(rs)
<1> DEFINE out == RemoveSessionFromCurrentRoom(rs, sid)
<1>1. LeftRoom(rs, out, sid)
  BY RemoveFromRoomEffect
<1> HIDE DEF out
<1>2. /\ DOMAIN out.sessions = DOMAIN rs.sessions
      /\ out.sessions[sid].room_id = no_room_id
      /\ out.sessions[sid].logged_in = rs.sessions[sid].logged_in
      /\ out.sessions[sid].display_name = rs.sessions[sid].display_name
      /\ \A s \in DOMAIN rs.sessions \ {sid} : out.sessions[s] = rs.sessions[s]
  BY <1>1 DEF LeftRoom
<1>3. PlaceOf(out) = [PlaceOf(rs) EXCEPT ![sid] = no_room_id]
  BY <1>2 DEF PlaceOf, FindSession
<1>4. NameOf(out) = NameOf(rs)
  BY <1>2 DEF NameOf, FindSession
<1> QED
  BY <1>3, <1>4 DEF out

\* Leaving one room and entering another is one change of place.
LEMMA EnterRoomPresence ==
  ASSUME NEW rs, Coherent(rs), NEW sid \in SessionIds, NEW rid \in RoomIds,
         FindSession(rs, sid), rs.sessions[sid].logged_in
  PROVE  LET new == MoveSessionToRoom(RemoveSessionFromCurrentRoom(rs, sid),
                                      sid, rid)
         IN  /\ PlaceOf(new) = [PlaceOf(rs) EXCEPT ![sid] = rid]
             /\ NameOf(new) = NameOf(rs)
<1> DEFINE out == RemoveSessionFromCurrentRoom(rs, sid)
           new == MoveSessionToRoom(out, sid, rid)
<1>1. LeftRoom(rs, out, sid) /\ Coherent(out)
  BY RemoveFromRoomEffect, RemoveFromRoomCoherent
<1>2. /\ FindSession(out, sid)
      /\ out.sessions[sid].room_id = no_room_id
      /\ out.sessions[sid].logged_in
      /\ out.sessions[sid].display_name = rs.sessions[sid].display_name
  BY <1>1 DEF LeftRoom, FindSession
<1> HIDE DEF out
<1>3. /\ DOMAIN new.sessions = DOMAIN out.sessions
      /\ new.sessions[sid].logged_in
      /\ new.sessions[sid].display_name = out.sessions[sid].display_name
      /\ new.sessions[sid].room_id = rid
      /\ \A s \in DOMAIN out.sessions \ {sid} : new.sessions[s] = out.sessions[s]
  BY <1>1, <1>2, MoveCoherent
<1> HIDE DEF new
<1>4. /\ DOMAIN new.sessions = DOMAIN rs.sessions
      /\ \A s \in DOMAIN rs.sessions \ {sid} : new.sessions[s] = rs.sessions[s]
  BY <1>1, <1>3 DEF LeftRoom
<1>5. PlaceOf(new) = [PlaceOf(rs) EXCEPT ![sid] = rid]
  BY <1>3, <1>4 DEF PlaceOf, FindSession
<1>6. NameOf(new) = NameOf(rs)
  BY <1>2, <1>3, <1>4 DEF NameOf, FindSession
<1> QED
  BY <1>5, <1>6 DEF new, out

-----------------------------------------------------------------------------

\* One event is one step of the service, or none.
LEMMA HandlePresence ==
  ASSUME IInv, NEW e \in ServerEvent, Handle(e)
  PROVE  [Presence!Next]_<<place, name>>
<1> DEFINE rs == room_system
           sid == e.session_id
<1>1. Coherent(rs) /\ sid \in SessionIds
  BY EventFields DEF IInv
<1>2. CASE UNCHANGED room_system
  BY <1>2 DEF place, name
<1>3. CASE room_system' = AddSession(rs, sid)
  <2>1. CASE FindSession(rs, sid)
    BY <1>2, <1>3, <2>1 DEF AddSession
  <2>2. CASE ~FindSession(rs, sid)
    <3>1. place' = [place EXCEPT ![sid] = no_room_id] /\ name' = name
      BY <1>1, <1>3, <2>2, AddSessionPresence DEF place, name
    <3>2. place[sid] = Away
      BY <1>1, <2>2 DEF place, PlaceOf
    <3> QED
      BY <1>1, <3>1, <3>2 DEF Presence!Next, Presence!Arrive
  <2> QED
    BY <2>1, <2>2
<1>4. CASE room_system' = RemoveSession(rs, sid)
  <2>1. /\ place' = [place EXCEPT ![sid] = Away]
        /\ name' = [name EXCEPT ![sid] = EmptyName]
    BY <1>1, <1>4, RemoveSessionPresence DEF place, name
  <2>2. CASE place[sid] # Away
    BY <1>1, <2>1, <2>2 DEF Presence!Next, Presence!Depart
  <2>3. CASE place[sid] = Away
    <3>1. ~FindSession(rs, sid)
      BY <1>1, <2>3, RoomSystemAssumption
         DEF place, PlaceOf, Away, Coherent, IsRoomSystem, SessionState,
             FindSession, no_room_id
    <3>2. name[sid] = EmptyName
      BY <1>1, <3>1 DEF name, NameOf
    <3>3. place' = place /\ name' = name
      BY <1>1, <2>1, <2>3, <3>2 DEF place, name, PlaceOf, NameOf
    <3> QED
      BY <3>3
  <2> QED
    BY <2>2, <2>3
<1>5. ASSUME NEW n \in Names, FindSession(rs, sid),
             ~IsDisplayNameTaken(rs, n, sid),
             room_system' = SetLoggedIn(rs, sid, n)
      PROVE  [Presence!Next]_<<place, name>>
  <2>1. /\ place' = place
        /\ name' = [name EXCEPT ![sid] = n]
        /\ \A u \in SessionIds \ {sid} : name[u] # n
    BY <1>1, <1>5, SetLoggedInPresence DEF place, name
  <2>2. place[sid] # Away
    BY <1>1, <1>5, RoomSystemAssumption
       DEF place, PlaceOf, Away, Coherent, IsRoomSystem, SessionState,
           FindSession, no_room_id
  <2> QED
    BY <1>1, <1>5, <2>1, <2>2 DEF Presence!Next, Presence!TakeName
<1>6. CASE /\ FindSession(rs, sid)
           /\ rs.sessions[sid].room_id # no_room_id
           /\ room_system' = RemoveSessionFromCurrentRoom(rs, sid)
  <2>1. place' = [place EXCEPT ![sid] = no_room_id] /\ name' = name
    BY <1>1, <1>6, LeaveRoomPresence DEF place, name
  <2>2. place[sid] \in RoomIds
    BY <1>1, <1>6 DEF place, PlaceOf, Coherent, IsRoomSystem, SessionState,
                      FindSession
  <2> QED
    BY <1>1, <2>1, <2>2 DEF Presence!Next, Presence!Leave
<1>7. ASSUME NEW rid \in RoomIds, FindSession(rs, sid),
             rs.sessions[sid].logged_in, rs.sessions[sid].room_id # rid,
             room_system' = MoveSessionToRoom(
                              RemoveSessionFromCurrentRoom(rs, sid), sid, rid)
      PROVE  [Presence!Next]_<<place, name>>
  <2>1. place' = [place EXCEPT ![sid] = rid] /\ name' = name
    BY <1>1, <1>7, EnterRoomPresence DEF place, name
  <2>2. place[sid] \notin {Away, rid}
    BY <1>1, <1>7, RoomSystemAssumption
       DEF place, PlaceOf, Away, Coherent, IsRoomSystem, SessionState,
           FindSession, no_room_id
  <2>3. name[sid] # EmptyName
    BY <1>1, <1>7, RoomSystemAssumption
       DEF name, NameOf, Coherent, MembersAreNamed, FindSession
  <2> QED
    BY <1>1, <1>7, <2>1, <2>2, <2>3 DEF Presence!Next, Presence!Enter
<1>8. CASE e.type = "Connected" /\ HandleSessionConnected(e)
  BY <1>8, <1>3 DEF HandleSessionConnected
<1>9. CASE e.type = "Disconnected" /\ HandleSessionDisconnected(e)
  BY <1>9, <1>4 DEF HandleSessionDisconnected
<1>10. CASE e.type = "InvalidPacket" /\ HandleInvalidPacket(e)
  BY <1>10, <1>2 DEF HandleInvalidPacket
<1>11. CASE e.type = "LoginRequest" /\ HandleLoginRequest(e)
  BY <1>11, <1>2, <1>5 DEF HandleLoginRequest, RefuseLogin, AcceptLogin, logicVars
<1>12. CASE e.type = "RoomListRequest" /\ HandleRoomListRequest(e)
  BY <1>12, <1>2 DEF HandleRoomListRequest
<1>13. CASE e.type = "JoinRoomRequest" /\ HandleJoinRoomRequest(e)
  <2>1. FindRoom(rs, e.room_id) => e.room_id \in RoomIds
    BY <1>1 DEF Coherent, IsRoomSystem, FindRoom
  <2>2. EnterRoom(e) => room_system' = MoveSessionToRoom(
                          RemoveSessionFromCurrentRoom(rs, sid), sid, e.room_id)
    BY DEF EnterRoom
  <2> QED
    BY <1>13, <1>2, <1>7, <2>1, <2>2
       DEF HandleJoinRoomRequest, RefuseJoin, logicVars
<1>14. CASE e.type = "ChatSendRequest" /\ HandleChatSendRequest(e)
  BY <1>14, <1>2 DEF HandleChatSendRequest, logicVars
<1>15. CASE e.type = "LeaveRoomRequest" /\ HandleLeaveRoomRequest(e)
  BY <1>15, <1>2, <1>6 DEF HandleLeaveRoomRequest, logicVars
<1>16. CASE e.type = "DisconnectRequest" /\ HandleDisconnectRequest(e)
  BY <1>16, <1>4 DEF HandleDisconnectRequest
<1> QED
  BY <1>8, <1>9, <1>10, <1>11, <1>12, <1>13, <1>14, <1>15, <1>16 DEF Handle

\* The server's tables and handlers implement the presence service: every
\* behaviour of GameLogicSystem, under any feed of events, is a behaviour of
\* ChatService.
THEOREM Implementation == Spec => ServesPresence
<1>1. Init => Presence!Init
  BY DEF Init, NewRoomSystem, Presence!Init, place, name, PlaceOf, NameOf,
         FindSession
<1>2. IInv /\ [Next]_logicVars => [Presence!Next]_<<place, name>>
  <2> SUFFICES ASSUME IInv, [Next]_logicVars
               PROVE  [Presence!Next]_<<place, name>>
    OBVIOUS
  <2>1. ASSUME NEW e \in ServerEvent, Handle(e)
        PROVE  [Presence!Next]_<<place, name>>
    BY <2>1, HandlePresence
  <2>2. CASE Take
    BY <2>2 DEF Take, place, name
  <2>3. CASE UNCHANGED logicVars
    BY <2>3 DEF logicVars, place, name
  <2> QED
    BY <2>1, <2>2, <2>3 DEF Next
<1>3. Init /\ []IInv /\ [][Next]_logicVars => ServesPresence
  BY <1>1, <1>2, PTL DEF ServesPresence, Presence!Spec, Presence!presence
<1> QED
  BY <1>3, Inductive, PTL DEF Spec

-----------------------------------------------------------------------------
(* Chat texts reach the room.                                              *)

\* Payloads other than chat texts, and streams of them.
Plain == {p \in Payload : p.type # "ChatBroadcast"}
PlainStreams == [SessionIds -> Seq(Plain)]

\* The ways to build a stream build plain ones from plain payloads.
LEMMA PlainOperators ==
  /\ NoMessages \in PlainStreams
  /\ \A sid, ps : ps \in Seq(Plain) => To(sid, ps) \in PlainStreams
  /\ \A sid : \A p \in Plain : To(sid, <<p>>) \in PlainStreams
  /\ \A ms, p : p \in Plain => ToAll(ms, p) \in PlainStreams
  /\ \A a \in PlainStreams, b \in PlainStreams : Then(a, b) \in PlainStreams
<1> HIDE DEF Plain
<1>1. NoMessages \in PlainStreams
  BY DEF NoMessages, PlainStreams
<1>2. \A sid, ps : ps \in Seq(Plain) => To(sid, ps) \in PlainStreams
  BY DEF To, PlainStreams
<1>3. \A ms, p : p \in Plain => ToAll(ms, p) \in PlainStreams
  BY DEF ToAll, PlainStreams
<1>4. \A a \in PlainStreams, b \in PlainStreams : Then(a, b) \in PlainStreams
  BY DEF Then, PlainStreams
<1>5. \A sid : \A p \in Plain : To(sid, <<p>>) \in PlainStreams
  <2>1. \A p \in Plain : <<p>> \in Seq(Plain)
    OBVIOUS
  <2> QED
    BY <2>1, <1>2
<1> QED
  BY <1>1, <1>2, <1>3, <1>4, <1>5

\* NotifyRoomLeave queues no chat text.
LEMMA NotifyPlain ==
  ASSUME NEW rs, Coherent(rs), NEW sid \in DOMAIN rs.sessions
  PROVE  NotifyRoomLeave(rs, sid) \in PlainStreams
<1> DEFINE rid == rs.sessions[sid].room_id
           left == UserLeftEvent(rid, BuildUserInfo(rs, sid))
<1>1. CASE rid = no_room_id \/ ~rs.sessions[sid].logged_in
  BY <1>1, PlainOperators DEF NotifyRoomLeave
<1>2. CASE ~(rid = no_room_id \/ ~rs.sessions[sid].logged_in)
  <2>1. rid \in RoomIds
    BY <1>2 DEF Coherent, IsRoomSystem, SessionState
  <2>2. left \in Payload
    BY <2>1, InfoTypes, EventPayloadTypes
  <2>3. left.type = "UserLeftEvent"
    BY DEF UserLeftEvent
  <2>4. left \in Plain
    BY <2>2, <2>3 DEF Plain
  <2> QED
    BY <1>2, <2>4, PlainOperators DEF NotifyRoomLeave
<1> QED
  BY <1>1, <1>2

\* EnterRoom queues no chat text.
LEMMA EnterRoomPlain ==
  ASSUME IInv, NEW e, e.session_id \in SessionIds, e.request_id \in RequestIds,
         FindSession(room_system, e.session_id),
         room_system.sessions[e.session_id].logged_in,
         e.room_id \in RoomIds,
         EnterRoom(e)
  PROVE  \E ms \in PlainStreams : Queue(ms)
<1> DEFINE sid      == e.session_id
           rid      == e.room_id
           left     == RemoveSessionFromCurrentRoom(room_system, sid)
           existing == {t \in GetRoomMembers(left, rid, {}) :
                           left.sessions[t].logged_in}
           moved    == MoveSessionToRoom(left, sid, rid)
           response == JoinRoomResponse(e.request_id, TRUE, "NONE",
                                        BuildRoomInfo(moved, rid))
           welcome  == SystemMessageEvent(rid)
           joined(rs, t) == UserJoinedEvent(rid, BuildUserInfo(rs, t))
           roll(order) == [i \in DOMAIN order |-> joined(left, order[i])]
<1>1. Coherent(left)
  BY RemoveFromRoomCoherent DEF IInv
<1>2. /\ DOMAIN left.sessions = DOMAIN room_system.sessions
      /\ left.sessions[sid].room_id = no_room_id
      /\ left.sessions[sid].logged_in
  <2>1. LeftRoom(room_system, left, sid)
    BY RemoveFromRoomEffect DEF IInv
  <2> QED
    BY <2>1 DEF LeftRoom
<1>3. sid \in DOMAIN left.sessions
  BY <1>2 DEF FindSession
<1>4. Coherent(moved) /\ DOMAIN moved.sessions = DOMAIN left.sessions
  BY <1>1, <1>2, <1>3, MoveCoherent DEF FindSession
<1>5. existing \subseteq DOMAIN left.sessions
  BY DEF GetRoomMembers, FindSession
<1>6. PICK order \in SetToSeqs(existing) :
         Queue(Then(NotifyRoomLeave(room_system, sid),
               Then(To(sid, <<response, welcome>> \o roll(order)),
                    ToAll(existing, joined(moved, sid)))))
  BY DEF EnterRoom
<1> HIDE DEF left, moved, existing
<1>7. /\ response.type = "JoinRoomResponse" /\ welcome.type = "SystemMessageEvent"
      /\ \A rs, t : joined(rs, t).type = "UserJoinedEvent"
  BY DEF JoinRoomResponse, SystemMessageEvent, UserJoinedEvent
<1>8. response \in Payload
  BY <1>4, InfoTypes, PayloadTypes DEF ErrorCode
<1>9. welcome \in Payload
  BY SystemMessageType
<1>10. \A t \in existing : joined(left, t) \in Payload
  BY <1>1, <1>5, InfoTypes, EventPayloadTypes
<1>11. joined(moved, sid) \in Payload
  BY <1>3, <1>4, InfoTypes, EventPayloadTypes
<1> HIDE DEF joined, response, welcome
<1>12. /\ response \in Plain /\ welcome \in Plain
       /\ \A t \in existing : joined(left, t) \in Plain
       /\ joined(moved, sid) \in Plain
  BY <1>7, <1>8, <1>9, <1>10, <1>11 DEF Plain
<1>13. roll(order) \in Seq(Plain)
  <2>1. Cardinality(existing) \in Nat
    <3>1. existing \in SUBSET SessionIds
      BY <1>1, <1>5 DEF Coherent, IsRoomSystem
    <3> QED
      BY <3>1, FS_Subset, FS_CardinalityType, RoomSystemAssumption
  <2>2. order \in [1 .. Cardinality(existing) -> existing]
    BY DEF SetToSeqs
  <2>3. roll(order) \in [1 .. Cardinality(existing) -> Plain]
    BY <2>2, <1>12
  <2> QED
    BY <2>1, <2>3
<1>14. <<response, welcome>> \in Seq(Plain)
  BY <1>12
<1> DEFINE greeting == <<response, welcome>> \o roll(order)
<1>15. greeting \in Seq(Plain)
  BY <1>13, <1>14
<1>16. NotifyRoomLeave(room_system, sid) \in PlainStreams
  BY NotifyPlain DEF IInv, FindSession
<1> HIDE DEF greeting, roll
<1>17. Then(NotifyRoomLeave(room_system, sid),
            Then(To(sid, greeting), ToAll(existing, joined(moved, sid)))) \in PlainStreams
  BY <1>12, <1>15, <1>16, PlainOperators
<1> QED
  BY <1>6, <1>17 DEF greeting

\* Of all events only a chat request makes a handler queue anything but plain
\* payloads.
LEMMA HandlePlain ==
  ASSUME IInv, NEW e \in ServerEvent, Handle(e)
  PROVE  \/ outgoing_messages' = outgoing_messages
         \/ \E ms \in PlainStreams : Queue(ms)
         \/ e.type = "ChatSendRequest"
<1> DEFINE sid == e.session_id
           Goal == \/ outgoing_messages' = outgoing_messages
                   \/ \E ms \in PlainStreams : Queue(ms)
                   \/ e.type = "ChatSendRequest"
<1>1. sid \in SessionIds
  BY EventFields
<1>2. ASSUME NEW m \in Payload, m.type # "ChatBroadcast", Queue(To(sid, <<m>>)) PROVE Goal
  BY <1>2, PlainOperators DEF Plain
<1>3. FindSession(room_system, sid) => NotifyRoomLeave(room_system, sid) \in PlainStreams
  BY NotifyPlain DEF IInv, FindSession
<1>4. CASE e.type = "Connected" /\ HandleSessionConnected(e)
  BY <1>4 DEF HandleSessionConnected
<1>5. CASE e.type = "Disconnected" /\ HandleSessionDisconnected(e)
  BY <1>3, <1>5 DEF HandleSessionDisconnected
<1>6. CASE e.type = "InvalidPacket" /\ HandleInvalidPacket(e)
  <2>1. SystemMessageEvent(no_room_id) \in Payload
    BY SystemMessageType
  <2>2. SystemMessageEvent(no_room_id).type = "SystemMessageEvent"
    BY DEF SystemMessageEvent
  <2> QED
    BY <1>2, <1>6, <2>1, <2>2 DEF HandleInvalidPacket
<1>7. CASE e.type = "LoginRequest" /\ HandleLoginRequest(e)
  <2>1. e.request_id \in RequestIds /\ e.display_name \in Names \cup {EmptyName, LongName}
    BY <1>7, EventFields
  <2>2. CASE UNCHANGED logicVars
    BY <2>2 DEF logicVars
  <2>3. ASSUME NEW ok \in BOOLEAN, NEW code \in ErrorCode, NEW user \in UserInfo \cup {NoUser},
               Queue(To(sid, <<LoginResponse(e.request_id, ok, code, user)>>))
        PROVE  Goal
    <3>1. LoginResponse(e.request_id, ok, code, user) \in Payload
      BY <2>1, PayloadTypes
    <3>2. LoginResponse(e.request_id, ok, code, user).type = "LoginResponse"
      BY DEF LoginResponse
    <3> QED
      BY <1>2, <2>3, <3>1, <3>2
  <2>4. ASSUME NEW code \in ErrorCode, RefuseLogin(e, code) PROVE Goal
    BY <2>3, <2>4 DEF RefuseLogin
  <2>5. CASE AcceptLogin(e) /\ FindSession(room_system, sid)
    <3>1. Coherent(room_system')
      BY <1>7, <2>1, HandleStep DEF IInv
    <3>2. sid \in DOMAIN room_system'.sessions
      BY <2>5 DEF AcceptLogin, SetLoggedIn, FindSession
    <3>3. BuildUserInfo(room_system', sid) \in UserInfo
      BY <3>1, <3>2, InfoTypes
    <3> QED
      BY <2>3, <2>5, <3>3 DEF AcceptLogin, ErrorCode
  <2> QED
    BY <1>7, <2>2, <2>4, <2>5 DEF HandleLoginRequest, ErrorCode
<1>8. CASE e.type = "RoomListRequest" /\ HandleRoomListRequest(e)
  <2> DEFINE rooms == [r \in RoomIds |-> BuildRoomInfo(room_system, r)]
             m == RoomListResponse(e.request_id, rooms)
  <2>1. rooms \in [RoomIds -> RoomInfo]
    BY InfoTypes DEF IInv
  <2>2. e.request_id \in RequestIds
    BY <1>8, EventFields
  <2>3. Queue(To(sid, <<m>>))
    BY <1>8 DEF HandleRoomListRequest
  <2> HIDE DEF rooms
  <2>4. m \in Payload
    BY <2>1, <2>2, PayloadTypes DEF ErrorCode
  <2>5. m.type = "RoomListResponse"
    BY DEF RoomListResponse
  <2> QED
    BY <1>2, <2>3, <2>4, <2>5
<1>9. CASE e.type = "JoinRoomRequest" /\ HandleJoinRoomRequest(e)
  <2>1. e.request_id \in RequestIds /\ e.room_id \in RoomIds \cup {no_room_id}
    BY <1>9, EventFields
  <2>2. CASE UNCHANGED logicVars
    BY <2>2 DEF logicVars
  <2>3. ASSUME NEW code \in ErrorCode, RefuseJoin(e, code) PROVE Goal
    <3> DEFINE m == JoinRoomResponse(e.request_id, FALSE, code, NoRoom)
    <3>1. m \in Payload
      BY <2>1, PayloadTypes
    <3>2. m.type = "JoinRoomResponse"
      BY DEF JoinRoomResponse
    <3> QED
      BY <1>2, <2>3, <3>1, <3>2 DEF RefuseJoin
  <2>4. CASE /\ FindSession(room_system, sid)
             /\ room_system.sessions[sid].logged_in
             /\ FindRoom(room_system, e.room_id)
             /\ EnterRoom(e)
    <3>1. e.room_id \in RoomIds
      BY <2>4 DEF FindRoom, IInv, Coherent, IsRoomSystem
    <3> QED
      BY <1>1, <2>1, <2>4, <3>1, EnterRoomPlain
  <2> QED
    BY <1>9, <2>2, <2>3, <2>4 DEF HandleJoinRoomRequest, ErrorCode
<1>10. CASE e.type = "LeaveRoomRequest" /\ HandleLeaveRoomRequest(e)
  <2> DEFINE rid == room_system.sessions[sid].room_id
             told == NotifyRoomLeave(room_system, sid)
             Answer(ok, code) == LeaveRoomResponse(e.request_id, ok, code)
             notice == SystemMessageEvent(rid)
  <2>1. CASE UNCHANGED logicVars
    BY <2>1 DEF logicVars
  <2>2. \A ok \in BOOLEAN, code \in ErrorCode : Answer(ok, code) \in Plain
    <3> SUFFICES ASSUME NEW ok \in BOOLEAN, NEW code \in ErrorCode
                 PROVE  Answer(ok, code) \in Plain
      OBVIOUS
    <3>1. Answer(ok, code) \in Payload
      BY <1>10, EventFields, PayloadTypes
    <3>2. Answer(ok, code).type = "LeaveRoomResponse"
      BY DEF LeaveRoomResponse
    <3> QED
      BY <3>1, <3>2 DEF Plain
  <2>3. Answer(TRUE, "NONE") \in Plain /\ Answer(FALSE, "NOT_IN_ROOM") \in Plain
    BY <2>2 DEF ErrorCode
  <2>4. CASE Queue(To(sid, <<Answer(FALSE, "NOT_IN_ROOM")>>))
    BY <2>3, <2>4, PlainOperators
  <2>5. CASE /\ FindSession(room_system, sid)
             /\ Queue(Then(told, To(sid, <<Answer(TRUE, "NONE"), notice>>)))
    <3>1. rid \in RoomIds \cup {no_room_id}
      BY <2>5 DEF IInv, Coherent, IsRoomSystem, SessionState, FindSession
    <3>2. notice \in Payload
      BY <3>1, SystemMessageType
    <3>3. notice.type = "SystemMessageEvent"
      BY DEF SystemMessageEvent
    <3>4. notice \in Plain
      BY <3>2, <3>3 DEF Plain
    <3>5. <<Answer(TRUE, "NONE"), notice>> \in Seq(Plain)
      <4> DEFINE left == Answer(TRUE, "NONE")
      <4>1. left \in Plain
        BY <2>3
      <4> HIDE DEF left, notice, Plain
      <4>2. <<left, notice>> \in Seq(Plain)
        BY <3>4, <4>1
      <4> QED
        BY <4>2 DEF left
    <3> HIDE DEF notice, Answer
    <3>6. Then(told, To(sid, <<Answer(TRUE, "NONE"), notice>>)) \in PlainStreams
      BY <1>3, <2>5, <3>5, PlainOperators
    <3> QED
      BY <2>5, <3>6
  <2> QED
    BY <1>10, <2>1, <2>4, <2>5 DEF HandleLeaveRoomRequest
<1>11. CASE e.type = "DisconnectRequest" /\ HandleDisconnectRequest(e)
  <2> DEFINE m == DisconnectResponse(e.request_id)
             told == NotifyRoomLeave(room_system, sid)
  <2>1. m \in Payload
    BY <1>11, EventFields, PayloadTypes DEF ErrorCode
  <2>2. m.type = "DisconnectResponse"
    BY DEF DisconnectResponse
  <2>3. IF FindSession(room_system, sid) THEN Queue(Then(To(sid, <<m>>), told))
                                         ELSE Queue(To(sid, <<m>>))
    BY <1>11 DEF HandleDisconnectRequest
  <2> HIDE DEF m
  <2>4. To(sid, <<m>>) \in PlainStreams
    BY <2>1, <2>2, PlainOperators DEF Plain
  <2> HIDE DEF told
  <2>5. FindSession(room_system, sid) => Then(To(sid, <<m>>), told) \in PlainStreams
    BY <1>3, <2>4, PlainOperators DEF told
  <2> QED
    BY <2>3, <2>4, <2>5
<1>12. CASE e.type = "ChatSendRequest" /\ HandleChatSendRequest(e)
  BY <1>12
<1> HIDE DEF Goal
<1> QED
  BY <1>4, <1>5, <1>6, <1>7, <1>8, <1>9, <1>10, <1>11, <1>12 DEF Handle, Goal

\* What Queue appends.
LEMMA AppendedQueue ==
  ASSUME outgoing_messages \in Streams, NEW ms \in Streams, Queue(ms),
         NEW t \in SessionIds
  PROVE  Appended(t) = ms[t]
<1> DEFINE old == outgoing_messages[t]
           new == ms[t]
<1> HIDE DEF Payload
<1>1. old \in Seq(Payload) /\ new \in Seq(Payload)
  BY DEF Streams
<1>2. outgoing_messages'[t] = old \o new
  BY DEF Queue, Then
<1>3. Appended(t) = SubSeq(old \o new, Len(old) + 1, Len(old \o new))
  BY <1>2 DEF Appended
<1> HIDE DEF old, new
<1>4. SubSeq(old \o new, Len(old) + 1, Len(old \o new)) = new
  BY <1>1
<1> QED
  BY <1>3, <1>4 DEF new

\* A step that appends nothing, or no chat text, spreads none.
LEMMA NoChats ==
  ASSUME \A t \in SessionIds : Chats(t) = {}
  PROVE  ChatStep
  BY DEF ChatStep

LEMMA PlainChat ==
  ASSUME IInv, NEW ms \in PlainStreams, Queue(ms)
  PROVE  ChatStep
<1>1. ms \in Streams
  <2>0. Plain \subseteq Payload
    BY DEF Plain
  <2>1. \A t \in SessionIds : ms[t] \in Seq(Payload)
    <3> HIDE DEF Plain, Payload
    <3> QED
      BY <2>0 DEF PlainStreams
  <2> QED
    BY <2>1 DEF PlainStreams, Streams
<1>2. ASSUME NEW t \in SessionIds PROVE Chats(t) = {}
  <2>1. Appended(t) = ms[t]
    BY <1>1, AppendedQueue DEF IInv, Streams
  <2>2. \A i \in DOMAIN ms[t] : ms[t][i] \in Plain
    <3>1. ms[t] \in Seq(Plain)
      BY DEF PlainStreams
    <3> HIDE DEF Plain
    <3> QED
      BY <3>1
  <2> QED
    BY <2>1, <2>2 DEF Chats, Plain
<1> QED
  BY <1>2, NoChats

LEMMA SilentChat ==
  ASSUME IInv, outgoing_messages' = outgoing_messages \/ Take
  PROVE  ChatStep
<1>1. ASSUME NEW t \in SessionIds PROVE Chats(t) = {}
  <2>1. Len(outgoing_messages[t]) \in Nat
    BY DEF IInv
  <2>2. Len(outgoing_messages'[t]) < Len(outgoing_messages[t]) + 1
        /\ Len(outgoing_messages'[t]) \in Nat
    BY <2>1 DEF Take, NoMessages
  <2>3. Appended(t) = <<>>
    <3> DEFINE s == outgoing_messages'[t]
               n == Len(outgoing_messages[t]) + 1
    <3>1. n \in Nat /\ Len(s) \in Nat /\ Len(s) < n
      BY <2>1, <2>2
    <3>2. Appended(t) = SubSeq(s, n, Len(s))
      BY DEF Appended
    <3> HIDE DEF s, n
    <3> QED
      BY <3>1, <3>2
  <2> QED
    BY <2>3 DEF Chats
<1> QED
  BY <1>1, NoChats

\* The members of a room are the sessions that say they are in it.
LEMMA Members ==
  ASSUME NEW rs, Coherent(rs), NEW r \in RoomIds
  PROVE  GetRoomMembers(rs, r, {}) =
           {u \in SessionIds : FindSession(rs, u) /\ rs.sessions[u].room_id = r}
<1>1. rs.rooms[r] \subseteq SessionIds /\ FindRoom(rs, r)
  BY DEF Coherent, IsRoomSystem, FindRoom
<1> QED
  BY <1>1 DEF GetRoomMembers, Coherent, MembershipAgrees

\* A chat request.
LEMMA ChatSendChat ==
  ASSUME IInv, NEW e, e.session_id \in SessionIds,
         e.content \in Texts \cup {EmptyText, LongText}, HandleChatSendRequest(e)
  PROVE  ChatStep
<1> DEFINE sid == e.session_id
           rid == room_system.sessions[sid].room_id
           said == ChatBroadcast(rid, BuildUserInfo(room_system, sid), e.content)
           members == GetRoomMembers(room_system, rid, {})
<1>1. CASE UNCHANGED logicVars
  BY <1>1, SilentChat DEF logicVars
<1>2. ASSUME NEW r \in RoomIds \cup {no_room_id},
             Queue(To(sid, <<SystemMessageEvent(r)>>))
      PROVE  ChatStep
  <2>1. SystemMessageEvent(r) \in Payload
    BY SystemMessageType
  <2>2. SystemMessageEvent(r).type = "SystemMessageEvent"
    BY DEF SystemMessageEvent
  <2>3. SystemMessageEvent(r) \in Plain
    BY <2>1, <2>2 DEF Plain
  <2> QED
    BY <1>2, <2>3, PlainOperators, PlainChat
<1>3. CASE /\ FindSession(room_system, sid)
           /\ room_system.sessions[sid].logged_in
           /\ rid # no_room_id
           /\ e.content \in Texts
           /\ Queue(ToAll(members, said))
  <2>1. rid \in RoomIds
    BY <1>3 DEF IInv, Coherent, IsRoomSystem, SessionState, FindSession
  <2>2. said \in Payload
    BY <1>3, <2>1, InfoTypes, EventPayloadTypes DEF IInv, FindSession
  <2>3. said.type = "ChatBroadcast" /\ said.room_id = rid /\ said.sender.user_id = sid
    BY DEF ChatBroadcast, BuildUserInfo
  <2>4. members = {u \in SessionIds : /\ FindSession(room_system, u)
                                      /\ room_system.sessions[u].room_id = rid}
    BY <2>1, Members DEF IInv
  <2> HIDE DEF said, members
  <2>5. ToAll(members, said) \in Streams
    BY <2>2, StreamOperators
  <2>6. ASSUME NEW u \in SessionIds
        PROVE  Appended(u) = IF u \in members THEN <<said>> ELSE <<>>
    <3>1. Appended(u) = ToAll(members, said)[u]
      BY <1>3, <2>5, AppendedQueue DEF IInv, Streams
    <3> QED
      BY <3>1 DEF ToAll
  <2>7. ASSUME NEW u \in SessionIds
        PROVE  /\ u \in members => Chats(u) = {1} /\ Appended(u)[1] = said
               /\ u \notin members => Chats(u) = {}
    <3>1. CASE u \in members
      <4>1. DOMAIN <<said>> = {1} /\ <<said>>[1] = said
        OBVIOUS
      <4> QED
        BY <2>3, <2>6, <3>1, <4>1 DEF Chats
    <3>2. CASE u \notin members
      BY <2>6, <3>2 DEF Chats
    <3> QED
      BY <3>1, <3>2
  <2>8. \A t \in SessionIds : \A i \in Chats(t) : Appended(t)[i] = said
    BY <2>7
  <2> QED
    BY <1>3, <2>3, <2>4, <2>7, <2>8 DEF ChatStep
<1>4. FindSession(room_system, sid) => rid \in RoomIds \cup {no_room_id}
  BY DEF IInv, Coherent, IsRoomSystem, SessionState, FindSession
<1> QED
  BY <1>1, <1>2, <1>3, <1>4 DEF HandleChatSendRequest

\* A chat text that HandleChatSendRequest accepts reaches exactly the members of
\* the sender's room, the sender included, each once; no other handler and no
\* flush brings a chat text to anybody.
THEOREM ChatTheorem == Spec => ChatReachesExactlyTheRoom
<1>1. IInv /\ Next => ChatStep
  <2> SUFFICES ASSUME IInv, Next PROVE ChatStep
    OBVIOUS
  <2>1. ASSUME NEW e \in ServerEvent, Handle(e) PROVE ChatStep
    <3>1. CASE e.type = "ChatSendRequest"
      <4>1. HandleChatSendRequest(e)
        BY <2>1, <3>1 DEF Handle
      <4> QED
        BY <3>1, <4>1, EventFields, ChatSendChat
    <3>2. CASE e.type # "ChatSendRequest"
      BY <2>1, <3>2, HandlePlain, PlainChat, SilentChat
    <3> QED
      BY <3>1, <3>2
  <2>2. CASE Take
    BY <2>2, SilentChat
  <2> QED
    BY <2>1, <2>2 DEF Next
<1>2. []IInv /\ [][Next]_logicVars => ChatReachesExactlyTheRoom
  BY <1>1, PTL DEF ChatReachesExactlyTheRoom
<1> QED
  BY <1>2, Inductive, PTL DEF Spec

=============================================================================
