------------------------- MODULE NightServerProofs -------------------------
(***************************************************************************)
(* The server process: sessions whose connection has ended are forgotten   *)
(* and never come back, and responses go out in the order of the requests, *)
(* for any number of connections, any capacity of the packet queue and any *)
(* interleaving of the I/O threads with the main loop.                     *)
(***************************************************************************)
EXTENDS NightServer, GameLogicProofs, StrandProofs

Sendable == UNION {Requests[s] : s \in SessionIds}

Packet ==
    [type : {"Connect", "Disconnect"}, session_id : SessionIds]
    \cup
    [type : {"Data"}, session_id : SessionIds, data : Sendable, request_id : RequestIds]

\* The event made of a packet that makes one.
EventOf(p) == Head(Decode(p))

ServerTypeOK ==
    /\ IInv
    /\ link \in [SessionIds -> {"new", "refused", "open", "closed", "gone"}]
    /\ sent \in [SessionIds -> Nat]
    /\ packet_queue \in Seq(Packet)
    /\ dropped_packets \in BOOLEAN
    /\ events \in Seq(ServerEvent)
    /\ answered \in [SessionIds -> Seq(Nat)]

-----------------------------------------------------------------------------
(* Connections.                                                            *)

\* Nothing of s has been queued, and nothing is left of it.
Silent(s) ==
    /\ \A i \in DOMAIN packet_queue : packet_queue[i].session_id # s
    /\ \A i \in DOMAIN events : events[i].session_id # s

\* Of a connection that has not been let in the server knows nothing.
NotYetKnown ==
    \A s \in SessionIds : link[s] \in {"new", "refused"} =>
        Silent(s) /\ ~FindSession(room_system, s)

\* Connect comes before everything else of its connection.
ConnectFirst ==
    \A s \in SessionIds :
        /\ \A j \in DOMAIN events : events[j] = EventOf(Connect(s)) =>
              \A i \in 1 .. j - 1 : events[i].session_id # s
        /\ \A j \in DOMAIN packet_queue : packet_queue[j] = Connect(s) =>
              /\ \A i \in 1 .. j - 1 : packet_queue[i].session_id # s
              /\ \A i \in DOMAIN events : events[i].session_id # s

\* GhostsOnlyAfterOverflow, for sessions that are still to be added as well.
EndsReported ==
    \A s \in SessionIds :
        /\ link[s] # "open"
        /\ FindSession(room_system, s) \/ Awaited(Connect(s))
        => dropped_packets \/ Awaited(Disconnect(s))

Connections == ServerTypeOK /\ NotYetKnown /\ ConnectFirst /\ EndsReported

-----------------------------------------------------------------------------
(* Requests and responses.                                                 *)

\* The request_id of an event, 0 if it is no request.
IdOf(e) == IF e.type \in {"Connected", "Disconnected", "InvalidPacket"}
           THEN 0 ELSE e.request_id

\* The id that an event or a packet has for s, and those of a queue of them.
EventId(e, s) == IF e.session_id = s THEN IdOf(e) ELSE 0
PacketId(p, s) == IF p.type = "Data" /\ p.session_id = s THEN p.request_id ELSE 0

EventIds(queue, s) == [i \in DOMAIN queue |-> EventId(queue[i], s)]
PacketIds(queue, s) == [i \in DOMAIN queue |-> PacketId(queue[i], s)]

\* What is not 0 in later exceeds all of earlier.
Below(earlier, later) == \A x \in ToSet(earlier), y \in ToSet(later) : y = 0 \/ x < y

UpTo(ids, n) == \A x \in ToSet(ids) : x <= n

\* Ids rise along the way from packets through events and messages queued to
\* messages flushed, and none exceeds n.
InOrder(flushed, queued, due, packets, n) ==
    /\ Rising(flushed) /\ Rising(queued) /\ Rising(due) /\ Rising(packets)
    /\ Below(flushed, queued) /\ Below(flushed, due) /\ Below(flushed, packets)
    /\ Below(queued, due) /\ Below(queued, packets) /\ Below(due, packets)
    /\ UpTo(flushed, n) /\ UpTo(queued, n) /\ UpTo(due, n) /\ UpTo(packets, n)

IdsRise(s) ==
    InOrder(answered[s], Ids(outgoing_messages[s]),
            EventIds(events, s), PacketIds(packet_queue, s), sent[s])

AllIdsRise == \A s \in SessionIds : IdsRise(s)

-----------------------------------------------------------------------------
(* Packets and events.                                                     *)

LEMMA ConnectPackets ==
    ASSUME NEW s \in SessionIds
    PROVE  /\ Connect(s) \in Packet /\ Disconnect(s) \in Packet
           /\ Connect(s).session_id = s /\ Disconnect(s).session_id = s
           /\ Connect(s).type = "Connect" /\ Disconnect(s).type = "Disconnect"
           /\ EventOf(Connect(s)) = [type |-> "Connected", session_id |-> s]
           /\ EventOf(Disconnect(s)) = [type |-> "Disconnected", session_id |-> s]
           /\ Decode(Connect(s)) = <<EventOf(Connect(s))>>
           /\ Decode(Disconnect(s)) = <<EventOf(Disconnect(s))>>
<1>1. /\ Connect(s) \in Packet /\ Disconnect(s) \in Packet
      /\ Connect(s).session_id = s /\ Disconnect(s).session_id = s
      /\ Connect(s).type = "Connect" /\ Disconnect(s).type = "Disconnect"
  BY DEF Connect, Disconnect, Packet
<1>2. /\ Decode(Connect(s)) = <<[type |-> "Connected", session_id |-> s]>>
      /\ Decode(Disconnect(s)) = <<[type |-> "Disconnected", session_id |-> s]>>
  BY <1>1 DEF Decode
<1> QED  BY <1>1, <1>2 DEF EventOf

LEMMA PacketCases ==
    ASSUME NEW p \in Packet
    PROVE  /\ p.session_id \in SessionIds
           /\ \/ p = Connect(p.session_id) /\ p.type = "Connect"
              \/ p = Disconnect(p.session_id) /\ p.type = "Disconnect"
              \/ p.type = "Data" /\ p.data \in Sendable /\ p.request_id \in RequestIds
<1>1. CASE p \in [type : {"Connect", "Disconnect"}, session_id : SessionIds]
  BY <1>1 DEF Connect, Disconnect
<1>2. CASE p \in [type : {"Data"}, session_id : SessionIds, data : Sendable,
                  request_id : RequestIds]
  BY <1>2
<1> QED  BY <1>1, <1>2 DEF Packet

\* DecodeProtocolPacket keeps the ids of a request it knows.
LEMMA RequestDecoded ==
    ASSUME NEW s \in SessionIds, NEW d \in Sendable, NEW i \in RequestIds, HasTable(d)
    PROVE  LET e == EventOfPayload(s, d, i)
           IN  /\ e \in ServerEvent /\ e.session_id = s
               /\ e.type \notin {"Connected", "Disconnected"}
               /\ IdOf(e) \in {0, i}
<1> DEFINE e == EventOfPayload(s, d, i)
<1>0. /\ d.type = "LoginRequest" => d.display_name \in Names \cup {EmptyName, LongName}
      /\ d.type = "JoinRoomRequest" => d.room_id \in RoomIds \cup {no_room_id}
      /\ d.type = "ChatSendRequest" => d.content \in Texts \cup {EmptyText, LongText}
  BY NightServerAssumption DEF Sendable
<1>1. CASE d.type = "LoginRequest"
  <2>1. e = [type |-> "LoginRequest", session_id |-> s, request_id |-> i,
             display_name |-> d.display_name]
    BY <1>1 DEF EventOfPayload
  <2> QED  BY <1>0, <1>1, <2>1 DEF ServerEvent, RequestEvent, IdOf
<1>2. CASE d.type = "JoinRoomRequest"
  <2>1. e = [type |-> "JoinRoomRequest", session_id |-> s, request_id |-> i,
             room_id |-> d.room_id]
    BY <1>2 DEF EventOfPayload
  <2> QED  BY <1>0, <1>2, <2>1 DEF ServerEvent, RequestEvent, IdOf
<1>3. CASE d.type = "ChatSendRequest"
  <2>1. e = [type |-> "ChatSendRequest", session_id |-> s, request_id |-> i,
             content |-> d.content]
    BY <1>3 DEF EventOfPayload
  <2> QED  BY <1>0, <1>3, <2>1 DEF ServerEvent, RequestEvent, IdOf
<1>4. CASE d.type \in {"RoomListRequest", "LeaveRoomRequest", "DisconnectRequest"}
  <2>1. e = [type |-> d.type, session_id |-> s, request_id |-> i]
    BY <1>4 DEF EventOfPayload
  <2> QED  BY <1>4, <2>1 DEF ServerEvent, RequestEvent, IdOf
<1>5. CASE d.type \notin {"LoginRequest", "JoinRoomRequest", "ChatSendRequest",
                          "RoomListRequest", "LeaveRoomRequest", "DisconnectRequest"}
  <2>1. e = [type |-> "InvalidPacket", session_id |-> s]
    BY <1>5 DEF EventOfPayload
  <2> QED  BY <2>1 DEF ServerEvent, SessionEvent, IdOf
<1> QED  BY <1>1, <1>2, <1>3, <1>4, <1>5

\* Receive makes one event of a packet, or none of a request without its table.
LEMMA DecodedLength ==
    ASSUME NEW p \in Packet
    PROVE  \/ Decode(p) = <<EventOf(p)>>
           \/ Decode(p) = <<>> /\ p.type = "Data"
<1>1. CASE p = Connect(p.session_id) \/ p = Disconnect(p.session_id)
  <2>1. p.session_id \in SessionIds  BY PacketCases
  <2>2. /\ Decode(Connect(p.session_id)) = <<EventOf(Connect(p.session_id))>>
        /\ Decode(Disconnect(p.session_id)) = <<EventOf(Disconnect(p.session_id))>>
    BY <2>1, ConnectPackets
  <2> QED  BY <1>1, <2>2
<1>2. CASE p.type = "Data"
  <2>1. Decode(p) = DecodeProtocolPacket(p.session_id, p.data, p.request_id)
    BY <1>2 DEF Decode
  <2>2. CASE ~HasTable(p.data)  BY <1>2, <2>1, <2>2 DEF DecodeProtocolPacket
  <2>3. CASE HasTable(p.data)
    <3>1. Decode(p) = <<EventOfPayload(p.session_id, p.data, p.request_id)>>
      BY <2>1, <2>3 DEF DecodeProtocolPacket
    <3>2. EventOf(p) = EventOfPayload(p.session_id, p.data, p.request_id)
      BY <3>1 DEF EventOf
    <3> QED  BY <3>1, <3>2
  <2> QED  BY <2>2, <2>3
<1> QED  BY <1>1, <1>2, PacketCases

\* The event is of the packet's session, and the first and the last packet of a
\* connection are told from the others.
LEMMA Decoded ==
    ASSUME NEW p \in Packet, Decode(p) # <<>>
    PROVE  /\ EventOf(p) \in ServerEvent /\ EventOf(p).session_id = p.session_id
           /\ \A s \in SessionIds : /\ EventOf(p) = EventOf(Connect(s)) <=> p = Connect(s)
                                    /\ EventOf(p) = EventOf(Disconnect(s)) <=> p = Disconnect(s)
           /\ p.type # "Data" => IdOf(EventOf(p)) = 0
           /\ p.type = "Data" => IdOf(EventOf(p)) \in {0, p.request_id}
<1> DEFINE s0 == p.session_id
<1>0. s0 \in SessionIds  BY PacketCases
<1>1. CASE p = Connect(s0) /\ p.type = "Connect"
  <2>1. EventOf(p) = [type |-> "Connected", session_id |-> s0]  BY <1>0, <1>1, ConnectPackets
  <2>2. EventOf(p) \in ServerEvent /\ EventOf(p).session_id = s0
    BY <1>0, <2>1 DEF ServerEvent, SessionEvent
  <2>3. IdOf(EventOf(p)) = 0  BY <2>1 DEF IdOf
  <2>4. ASSUME NEW s \in SessionIds
        PROVE  /\ EventOf(p) = EventOf(Connect(s)) <=> p = Connect(s)
               /\ EventOf(p) = EventOf(Disconnect(s)) <=> p = Disconnect(s)
    <3>1. /\ EventOf(Connect(s)) = [type |-> "Connected", session_id |-> s]
          /\ EventOf(Disconnect(s)) = [type |-> "Disconnected", session_id |-> s]
      BY ConnectPackets
    <3>2. s = s0 => EventOf(p) = EventOf(Connect(s)) /\ p = Connect(s)  BY <1>1, <2>1, <3>1
    <3>3. s # s0 => EventOf(p) # EventOf(Connect(s)) /\ p # Connect(s)
      BY <1>1, <2>1, <3>1 DEF Connect
    <3>4. EventOf(p) # EventOf(Disconnect(s)) /\ p # Disconnect(s)  BY <1>1, <2>1, <3>1 DEF Connect, Disconnect
    <3> QED  BY <3>2, <3>3, <3>4
  <2> QED  BY <1>1, <2>2, <2>3, <2>4
<1>2. CASE p = Disconnect(s0) /\ p.type = "Disconnect"
  <2>1. EventOf(p) = [type |-> "Disconnected", session_id |-> s0]  BY <1>0, <1>2, ConnectPackets
  <2>2. EventOf(p) \in ServerEvent /\ EventOf(p).session_id = s0
    BY <1>0, <2>1 DEF ServerEvent, SessionEvent
  <2>3. IdOf(EventOf(p)) = 0  BY <2>1 DEF IdOf
  <2>4. ASSUME NEW s \in SessionIds
        PROVE  /\ EventOf(p) = EventOf(Connect(s)) <=> p = Connect(s)
               /\ EventOf(p) = EventOf(Disconnect(s)) <=> p = Disconnect(s)
    <3>1. /\ EventOf(Connect(s)) = [type |-> "Connected", session_id |-> s]
          /\ EventOf(Disconnect(s)) = [type |-> "Disconnected", session_id |-> s]
      BY ConnectPackets
    <3>2. s = s0 => EventOf(p) = EventOf(Disconnect(s)) /\ p = Disconnect(s)  BY <1>2, <2>1, <3>1
    <3>3. s # s0 => EventOf(p) # EventOf(Disconnect(s)) /\ p # Disconnect(s)
      BY <1>2, <2>1, <3>1 DEF Disconnect
    <3>4. EventOf(p) # EventOf(Connect(s)) /\ p # Connect(s)  BY <1>2, <2>1, <3>1 DEF Disconnect, Connect
    <3> QED  BY <3>2, <3>3, <3>4
  <2> QED  BY <1>2, <2>2, <2>3, <2>4
<1>3. CASE p.type = "Data" /\ p.data \in Sendable /\ p.request_id \in RequestIds
  <2> DEFINE e == EventOfPayload(s0, p.data, p.request_id)
  <2>0. HasTable(p.data) /\ Decode(p) = <<e>>  BY <1>3 DEF Decode, DecodeProtocolPacket
  <2>1. EventOf(p) = e  BY <2>0 DEF EventOf
  <2>2. /\ e \in ServerEvent /\ e.session_id = s0
        /\ e.type \notin {"Connected", "Disconnected"} /\ IdOf(e) \in {0, p.request_id}
    BY <1>0, <1>3, <2>0, RequestDecoded
  <2> HIDE DEF e
  <2>3. ASSUME NEW s \in SessionIds
        PROVE  /\ EventOf(p) # EventOf(Connect(s)) /\ p # Connect(s)
               /\ EventOf(p) # EventOf(Disconnect(s)) /\ p # Disconnect(s)
    BY <1>3, <2>1, <2>2, ConnectPackets
  <2> QED  BY <1>3, <2>1, <2>2, <2>3
<1> QED  BY <1>1, <1>2, <1>3, PacketCases

-----------------------------------------------------------------------------
(* What handlers do to the set of sessions.                                *)

LEMMA HandleSessions ==
    ASSUME NEW e, Handle(e), NEW t
    PROVE  /\ t # e.session_id =>
                (FindSession(room_system', t) <=> FindSession(room_system, t))
           /\ e.type \in {"Disconnected", "DisconnectRequest"} =>
                ~FindSession(room_system', e.session_id)
           /\ e.type \notin {"Connected", "Disconnected", "DisconnectRequest"} =>
                (FindSession(room_system', t) <=> FindSession(room_system, t))
<1> DEFINE sid == e.session_id
<1>0. \A rs, s : DOMAIN RemoveSessionFromCurrentRoom(rs, s).sessions = DOMAIN rs.sessions
  BY DEF RemoveSessionFromCurrentRoom
<1>1. \A rs, s, r : DOMAIN MoveSessionToRoom(rs, s, r).sessions = DOMAIN rs.sessions
  BY <1>0 DEF MoveSessionToRoom
<1>2. \A rs, s, n : DOMAIN SetLoggedIn(rs, s, n).sessions = DOMAIN rs.sessions
  BY DEF SetLoggedIn
<1>3. \A rs, s : DOMAIN RemoveSession(rs, s).sessions = DOMAIN rs.sessions \ {s}
  BY <1>0 DEF RemoveSession, Restrict
<1>4. DOMAIN AddSession(room_system, sid).sessions \in
        {DOMAIN room_system.sessions, DOMAIN room_system.sessions \cup {sid}}
  BY DEF AddSession
<1>5. CASE e.type = "Connected" /\ HandleSessionConnected(e)
  BY <1>4, <1>5 DEF HandleSessionConnected, FindSession
<1>6. CASE \/ e.type = "Disconnected" /\ HandleSessionDisconnected(e)
           \/ e.type = "DisconnectRequest" /\ HandleDisconnectRequest(e)
  <2>1. room_system' = RemoveSession(room_system, sid)
    BY <1>6 DEF HandleSessionDisconnected, HandleDisconnectRequest
  <2> QED  BY <1>3, <1>6, <2>1 DEF FindSession
<1>7. ASSUME e.type \notin {"Connected", "Disconnected", "DisconnectRequest"}
      PROVE  DOMAIN room_system'.sessions = DOMAIN room_system.sessions
  <2>1. CASE e.type = "InvalidPacket" /\ HandleInvalidPacket(e)
    BY <2>1 DEF HandleInvalidPacket
  <2>2. CASE e.type = "LoginRequest" /\ HandleLoginRequest(e)
    BY <1>2, <2>2 DEF HandleLoginRequest, RefuseLogin, AcceptLogin, logicVars
  <2>3. CASE e.type = "RoomListRequest" /\ HandleRoomListRequest(e)
    BY <2>3 DEF HandleRoomListRequest
  <2>4. CASE e.type = "JoinRoomRequest" /\ HandleJoinRoomRequest(e)
    <3>1. CASE room_system' = room_system  BY <3>1
    <3>2. CASE EnterRoom(e)  BY <1>0, <1>1, <3>2 DEF EnterRoom
    <3> QED  BY <2>4, <3>1, <3>2 DEF HandleJoinRoomRequest, RefuseJoin, logicVars
  <2>5. CASE e.type = "ChatSendRequest" /\ HandleChatSendRequest(e)
    BY <2>5 DEF HandleChatSendRequest, logicVars
  <2>6. CASE e.type = "LeaveRoomRequest" /\ HandleLeaveRoomRequest(e)
    BY <1>0, <2>6 DEF HandleLeaveRoomRequest, logicVars
  <2> QED  BY <1>7, <2>1, <2>2, <2>3, <2>4, <2>5, <2>6 DEF Handle
<1>8. CASE e.type \notin {"Connected", "Disconnected", "DisconnectRequest"}
  BY <1>7, <1>8 DEF FindSession
<1> QED  BY <1>5, <1>6, <1>8 DEF Handle

-----------------------------------------------------------------------------
(* The steps of the server process, as far as sessions and responses go.   *)

\* An I/O thread pushes a packet of the connection s.
Pushes(s, p) ==
    /\ push_packet(p)
    /\ UNCHANGED <<logicVars, events, answered>>
    /\ \/ /\ p = Connect(s) /\ link[s] = "new"
          /\ link' = [link EXCEPT ![s] = IF Full THEN "refused" ELSE "open"]
          /\ sent' = sent
       \/ /\ \E d \in Requests[s] : p = Data(s, d, sent[s] + 1)
          /\ sent[s] < MaxRequests[s]
          /\ sent' = [sent EXCEPT ![s] = @ + 1]
          /\ \/ link[s] = "open" /\ link' = link
             \/ link[s] = "closed" /\ link' = [link EXCEPT ![s] = "gone"]
       \/ /\ p = Disconnect(s) /\ link[s] = "open"
          /\ link' = [link EXCEPT ![s] = "closed"]
          /\ sent' = sent

Quiet == UNCHANGED <<logicVars, link, sent, packet_queue, dropped_packets, events, answered>>

LEMMA StepKinds ==
    ASSUME [ServerNext]_serverVars
    PROVE  \/ \E s \in SessionIds : \E p : Pushes(s, p)
           \/ Quiet \/ PollPacket \/ Update \/ Flush
<1>1. CASE UNCHANGED serverVars  BY <1>1 DEF serverVars, Quiet, logicVars
<1>2. ASSUME NEW s \in SessionIds, Accept(s) PROVE \E p : Pushes(s, p)
  BY <1>2 DEF Accept, Pushes, loopVars
<1>3. ASSUME NEW s \in SessionIds, Close(s) PROVE \E p : Pushes(s, p)
  BY <1>3 DEF Close, Pushes, loopVars
<1>4. ASSUME NEW s \in SessionIds, Kick(s) PROVE Quiet \/ \E p : Pushes(s, p)
  <2>1. CASE link[s] = "open"  BY <1>4, <2>1 DEF Kick, Pushes, loopVars
  <2>2. CASE link[s] # "open"  BY <1>4, <2>2 DEF Kick, Quiet, loopVars
  <2> QED  BY <2>1, <2>2
<1>5. ASSUME NEW s \in SessionIds, NEW d \in Requests[s], Receive(s, d) \/ LateReceive(s, d)
      PROVE  \E p : Pushes(s, p)
  <2>1. Arrive(s, d) /\ \/ link[s] = "open" /\ link' = link
                        \/ link[s] = "closed" /\ link' = [link EXCEPT ![s] = "gone"]
    BY <1>5 DEF Receive, LateReceive
  <2>2. Pushes(s, Data(s, d, sent[s] + 1))
    BY <2>1 DEF Arrive, Pushes, loopVars
  <2> QED  BY <2>2
<1>6. CASE EndReceive  BY <1>6 DEF EndReceive, Quiet, transportVars
<1> QED
  BY <1>1, <1>2, <1>3, <1>4, <1>5, <1>6 DEF ServerNext, GameThread

\* What a push does: the packet fits, or is dropped.
LEMMA PushCases ==
    ASSUME ServerTypeOK, NEW s \in SessionIds, NEW p, Pushes(s, p)
    PROVE  /\ p \in Packet /\ p.session_id = s
           /\ packet_queue' \in Seq(Packet) /\ dropped_packets' \in BOOLEAN
           /\ \/ packet_queue' = Append(packet_queue, p) /\ dropped_packets' = dropped_packets /\ ~Full
              \/ packet_queue' = packet_queue /\ dropped_packets' /\ Full
           /\ link'[s] \in {"new", "refused"} => packet_queue' = packet_queue /\ link[s] = "new"
           /\ \A t \in SessionIds : t # s => link'[t] = link[t] /\ sent'[t] = sent[t]
           /\ link' \in [SessionIds -> {"new", "refused", "open", "closed", "gone"}]
           /\ sent' \in [SessionIds -> Nat]
<1>0. /\ link \in [SessionIds -> {"new", "refused", "open", "closed", "gone"}]
      /\ sent \in [SessionIds -> Nat] /\ packet_queue \in Seq(Packet)
      /\ dropped_packets \in BOOLEAN
  BY DEF ServerTypeOK
<1>1. p \in Packet /\ p.session_id = s
  <2>1. CASE p = Connect(s) \/ p = Disconnect(s)  BY <2>1, ConnectPackets
  <2>2. ASSUME NEW d \in Requests[s], p = Data(s, d, sent[s] + 1), sent[s] < MaxRequests[s]
        PROVE  p \in Packet /\ p.session_id = s
    <3>1. MaxRequests[s] \in RequestIds \cup {0} /\ sent[s] \in Nat
      BY <1>0, NightServerAssumption
    <3>2. MaxRequests[s] \in RequestIds  BY <2>2, <3>1
    <3>3. MaxRequests[s] \in Nat /\ 1 .. MaxRequests[s] \subseteq RequestIds
      BY <3>2, NightServerAssumption
    <3>4. sent[s] + 1 \in 1 .. MaxRequests[s]  BY <2>2, <3>1, <3>3
    <3>5. sent[s] + 1 \in RequestIds  BY <3>3, <3>4
    <3>6. d \in Sendable  BY <2>2 DEF Sendable
    <3> QED  BY <2>2, <3>5, <3>6 DEF Data, Packet
  <2> QED  BY <2>1, <2>2 DEF Pushes
<1>2. \/ packet_queue' = Append(packet_queue, p) /\ dropped_packets' = dropped_packets /\ ~Full
      \/ packet_queue' = packet_queue /\ dropped_packets' = TRUE /\ Full
  BY DEF Pushes, push_packet
<1>3. packet_queue' \in Seq(Packet)
  <2> HIDE DEF Packet
  <2>1. Append(packet_queue, p) \in Seq(Packet)  BY <1>0, <1>1
  <2> QED  BY <1>0, <1>2, <2>1
<1>4. dropped_packets' \in BOOLEAN /\ (dropped_packets' = TRUE => dropped_packets')
  BY <1>0, <1>2
<1>5. link'[s] \in {"new", "refused"} => packet_queue' = packet_queue /\ link[s] = "new"
  BY <1>0, <1>2 DEF Pushes
<1>6. /\ \A t \in SessionIds : t # s => link'[t] = link[t] /\ sent'[t] = sent[t]
      /\ link' \in [SessionIds -> {"new", "refused", "open", "closed", "gone"}]
  BY <1>0 DEF Pushes
<1>7. sent' \in [SessionIds -> Nat]  BY <1>0 DEF Pushes
<1> QED  BY <1>1, <1>2, <1>3, <1>4, <1>5, <1>6, <1>7

LEMMA PollCases ==
    ASSUME ServerTypeOK, PollPacket
    PROVE  LET p == Head(packet_queue)
           IN  /\ packet_queue # <<>> /\ p \in Packet /\ p = packet_queue[1]
               /\ packet_queue' = Tail(packet_queue) /\ packet_queue' \in Seq(Packet)
               /\ \/ Decode(p) # <<>> /\ events' = Append(events, EventOf(p))
                  \/ p.type = "Data" /\ events' = events
               /\ events' \in Seq(ServerEvent)
               /\ UNCHANGED <<logicVars, link, sent, dropped_packets, answered>>
<1>1. packet_queue \in Seq(Packet) /\ events \in Seq(ServerEvent)  BY DEF ServerTypeOK
<1>2. /\ packet_queue # <<>> /\ packet_queue' = Tail(packet_queue)
      /\ events' = events \o Decode(Head(packet_queue))
      /\ UNCHANGED <<logicVars, link, sent, dropped_packets, answered>>
  BY DEF PollPacket
<1>3. Head(packet_queue) \in Packet /\ Head(packet_queue) = packet_queue[1]
      /\ packet_queue' \in Seq(Packet)
  BY <1>1, <1>2
<1> DEFINE p == Head(packet_queue)
<1> HIDE DEF p
<1>4. p \in Packet  BY <1>3 DEF p
<1>5. CASE Decode(p) = <<EventOf(p)>>
  <2>1. Decode(p) # <<>>  BY <1>5
  <2>2. EventOf(p) \in ServerEvent  BY <1>4, <2>1, Decoded
  <2>3. events \o <<EventOf(p)>> = Append(events, EventOf(p))
        /\ Append(events, EventOf(p)) \in Seq(ServerEvent)
    BY <1>1, <2>2
  <2> QED  BY <1>2, <1>3, <1>5, <2>1, <2>3 DEF p
<1>6. CASE Decode(p) = <<>> /\ p.type = "Data"
  <2>1. events \o <<>> = events  BY <1>1
  <2> QED  BY <1>1, <1>2, <1>3, <1>6, <2>1 DEF p
<1> QED  BY <1>4, <1>5, <1>6, DecodedLength

LEMMA UpdateCases ==
    ASSUME ServerTypeOK, Update
    PROVE  LET e == Head(events)
           IN  /\ events # <<>> /\ e \in ServerEvent /\ e = events[1]
               /\ Handle(e) /\ IInv'
               /\ events' = Tail(events) /\ events' \in Seq(ServerEvent)
               /\ UNCHANGED <<link, sent, packet_queue, dropped_packets, answered>>
<1>1. events \in Seq(ServerEvent) /\ IInv  BY DEF ServerTypeOK
<1>2. events # <<>> /\ Handle(Head(events)) /\ events' = Tail(events)
      /\ UNCHANGED <<link, sent, packet_queue, dropped_packets, answered>>
  BY DEF Update, transportVars
<1>3. Head(events) \in ServerEvent /\ Head(events) = events[1]
      /\ events' \in Seq(ServerEvent)
  BY <1>1, <1>2
<1>4. IInv'  BY <1>1, <1>2, <1>3, HandleStep
<1> QED  BY <1>2, <1>3, <1>4

\* The ids of a stream of payloads.
LEMMA PayloadIds ==
    ASSUME NEW ms \in Seq(Payload)
    PROVE  Ids(ms) \in Seq(Nat) /\ Len(Ids(ms)) = Len(ms) /\ DOMAIN Ids(ms) = DOMAIN ms
<1>1. ASSUME NEW m \in Payload PROVE m.request_id \in Nat
  <2>1. m.request_id \in RequestIds \/ m.request_id \in {0}  BY Zenon DEF Payload
  <2>2. RequestIds \subseteq Nat  BY GameLogicAssumption
  <2>3. \A i \in {0} : i \in Nat  OBVIOUS
  <2> QED  BY <2>1, <2>2, <2>3, Zenon
<1>2. /\ DOMAIN ms = 1 .. Len(ms) /\ Len(ms) \in Nat /\ \A i \in DOMAIN ms : ms[i] \in Payload
  OBVIOUS
<1>3. Ids(ms) \in [1 .. Len(ms) -> Nat]  BY <1>1, <1>2 DEF Ids
<1> QED  BY <1>2, <1>3

LEMMA FlushCases ==
    ASSUME ServerTypeOK, Flush
    PROVE  /\ answered' = [s \in SessionIds |-> answered[s] \o Ids(outgoing_messages[s])]
           /\ answered' \in [SessionIds -> Seq(Nat)]
           /\ outgoing_messages' = [s \in SessionIds |-> <<>>]
           /\ room_system' = room_system /\ IInv'
           /\ UNCHANGED <<link, sent, packet_queue, dropped_packets, events>>
<1>1. /\ Take /\ answered' = [s \in SessionIds |-> answered[s] \o Ids(outgoing_messages[s])]
      /\ UNCHANGED <<link, sent, packet_queue, dropped_packets, events>>
  BY DEF Flush
<1>2. IInv'  BY <1>1, TakeStep DEF ServerTypeOK
<1>3. answered' \in [SessionIds -> Seq(Nat)]
  <2>1. ASSUME NEW s \in SessionIds
        PROVE  answered[s] \o Ids(outgoing_messages[s]) \in Seq(Nat)
    <3>1. outgoing_messages[s] \in Seq(Payload) /\ answered[s] \in Seq(Nat)
      BY DEF ServerTypeOK, IInv
    <3>2. Ids(outgoing_messages[s]) \in Seq(Nat)  BY <3>1, PayloadIds
    <3> QED  BY <3>1, <3>2
  <2> QED  BY <1>1, <2>1
<1> QED  BY <1>1, <1>2, <1>3 DEF Take, NoMessages

LEMMA InitType == ServerInit => ServerTypeOK
<1> SUFFICES ASSUME ServerInit PROVE ServerTypeOK  OBVIOUS
<1>1. IInv  BY InitStep DEF ServerInit
<1>2. packet_queue = <<>> /\ events = <<>> /\ dropped_packets = FALSE
  BY DEF ServerInit
<1>3. packet_queue \in Seq(Packet) /\ events \in Seq(ServerEvent)  BY <1>2
<1>4. dropped_packets \in BOOLEAN  BY <1>2
<1>5. answered \in [SessionIds -> Seq(Nat)]  BY DEF ServerInit
<1>6. link \in [SessionIds -> {"new", "refused", "open", "closed", "gone"}]
      /\ sent \in [SessionIds -> Nat]
  BY DEF ServerInit
<1> QED  BY <1>1, <1>3, <1>4, <1>5, <1>6 DEF ServerTypeOK

LEMMA StepType == ServerTypeOK /\ [ServerNext]_serverVars => ServerTypeOK'
<1> SUFFICES ASSUME ServerTypeOK, [ServerNext]_serverVars PROVE ServerTypeOK'
  OBVIOUS
<1>1. UNCHANGED logicVars => IInv'  BY DEF ServerTypeOK, IInv, logicVars
<1>2. ASSUME NEW s \in SessionIds, NEW p, Pushes(s, p) PROVE ServerTypeOK'
  BY <1>1, <1>2, PushCases DEF Pushes, ServerTypeOK
<1>3. CASE Quiet  BY <1>1, <1>3 DEF Quiet, ServerTypeOK
<1>4. CASE PollPacket  BY <1>1, <1>4, PollCases DEF ServerTypeOK
<1>5. CASE Update  BY <1>5, UpdateCases DEF ServerTypeOK
<1>6. CASE Flush  BY <1>6, FlushCases DEF ServerTypeOK
<1> QED  BY <1>2, <1>3, <1>4, <1>5, <1>6, StepKinds

-----------------------------------------------------------------------------
(* Connections.                                                            *)

LEMMA AwaitedPush ==
    ASSUME ServerTypeOK, NEW s \in SessionIds, NEW p, Pushes(s, p), NEW q
    PROVE  /\ Awaited(q) => Awaited(q)'
           /\ packet_queue' = packet_queue => (Awaited(q)' <=> Awaited(q))
           /\ packet_queue' = Append(packet_queue, p) => (Awaited(q)' <=> Awaited(q) \/ p = q)
<1>1. p \in Packet /\ packet_queue \in Seq(Packet)  BY PushCases DEF ServerTypeOK
<1>2. events' = events /\ (packet_queue' = packet_queue \/ packet_queue' = Append(packet_queue, p))
  BY PushCases DEF Pushes
<1>3. Contains(Append(packet_queue, p), q) <=> Contains(packet_queue, q) \/ p = q
  BY <1>1, ContainsAppend
<1>4. CASE packet_queue' = packet_queue  BY <1>2, <1>3, <1>4 DEF Awaited
<1>5. CASE packet_queue' = Append(packet_queue, p)  BY <1>2, <1>3, <1>5 DEF Awaited
<1> QED  BY <1>2, <1>4, <1>5

\* Receive loses neither the first nor the last packet of a connection.
LEMMA AwaitedPoll ==
    ASSUME ServerTypeOK, PollPacket, NEW t \in SessionIds
    PROVE  /\ Awaited(Connect(t))' <=> Awaited(Connect(t))
           /\ Awaited(Disconnect(t))' <=> Awaited(Disconnect(t))
<1> DEFINE p == Head(packet_queue)
<1>1. /\ packet_queue # <<>> /\ p \in Packet /\ p = packet_queue[1]
      /\ packet_queue' = Tail(packet_queue)
      /\ \/ Decode(p) # <<>> /\ events' = Append(events, EventOf(p))
         \/ p.type = "Data" /\ events' = events
  BY PollCases
<1>2. packet_queue \in Seq(Packet) /\ events \in Seq(ServerEvent)  BY DEF ServerTypeOK
<1>3. Contains(packet_queue, p)  BY <1>1, <1>2 DEF Contains
<1> HIDE DEF p
<1>4. ASSUME NEW q
      PROVE  /\ Contains(packet_queue', q) => Contains(packet_queue, q)
             /\ Contains(packet_queue, q) => Contains(packet_queue', q) \/ p = q
  BY <1>1, <1>2, ContainsTail DEF p
<1>5. CASE Decode(p) # <<>> /\ events' = Append(events, EventOf(p))
  <2>1. EventOf(p) \in ServerEvent  BY <1>1, <1>5, Decoded
  <2>2. ASSUME NEW q, EventOf(p) = EventOf(q) <=> p = q
        PROVE  Awaited(q)' <=> Awaited(q)
    <3>1. Contains(events', EventOf(q)) <=> Contains(events, EventOf(q)) \/ EventOf(p) = EventOf(q)
      BY <1>2, <1>5, <2>1, ContainsAppend
    <3> QED  BY <1>3, <1>4, <2>2, <3>1 DEF Awaited, EventOf
  <2>3. /\ EventOf(p) = EventOf(Connect(t)) <=> p = Connect(t)
        /\ EventOf(p) = EventOf(Disconnect(t)) <=> p = Disconnect(t)
    BY <1>1, <1>5, Decoded
  <2> QED  BY <2>2, <2>3
<1>6. CASE p.type = "Data" /\ events' = events
  <2>1. p # Connect(t) /\ p # Disconnect(t)  BY <1>6, ConnectPackets
  <2> QED  BY <1>4, <1>6, <2>1 DEF Awaited
<1> QED  BY <1>1, <1>5, <1>6

LEMMA AwaitedUpdate ==
    ASSUME ServerTypeOK, Update, NEW q
    PROVE  /\ Awaited(q)' => Awaited(q)
           /\ Awaited(q) => Awaited(q)' \/ Head(events) = EventOf(q)
<1>1. events # <<>> /\ events' = Tail(events) /\ packet_queue' = packet_queue
  BY UpdateCases
<1>2. events \in Seq(ServerEvent)  BY DEF ServerTypeOK
<1>3. /\ Contains(events', EventOf(q)) => Contains(events, EventOf(q))
      /\ Contains(events, EventOf(q)) => Contains(events', EventOf(q)) \/ Head(events) = EventOf(q)
  BY <1>1, <1>2, ContainsTail
<1> QED  BY <1>1, <1>3 DEF Awaited, EventOf

\* Only the handling of its Connect makes a session known.
LEMMA MadeKnown ==
    ASSUME ServerTypeOK, Update, NEW t \in SessionIds,
           FindSession(room_system', t), ~FindSession(room_system, t)
    PROVE  Head(events) = EventOf(Connect(t)) /\ Awaited(Connect(t))
<1> DEFINE e == Head(events)
<1>1. events # <<>> /\ e \in ServerEvent /\ e = events[1] /\ Handle(e)  BY UpdateCases
<1>2. e.session_id = t /\ e.type = "Connected"  BY <1>1, HandleSessions
<1>3. e = [type |-> "Connected", session_id |-> t]
  BY <1>1, <1>2 DEF ServerEvent, SessionEvent, RequestEvent
<1>4. e = EventOf(Connect(t))  BY <1>3, ConnectPackets
<1>5. Contains(events, EventOf(Connect(t)))  BY <1>1, <1>4 DEF ServerTypeOK, Contains
<1> QED  BY <1>4, <1>5 DEF Awaited, EventOf

\* When something of t is handled, its Connect is behind.
LEMMA ConnectBehind ==
    ASSUME ServerTypeOK, ConnectFirst, Update, NEW t \in SessionIds,
           Head(events).session_id = t
    PROVE  ~Awaited(Connect(t))'
<1>1. /\ events # <<>> /\ Head(events) = events[1] /\ events' = Tail(events)
      /\ packet_queue' = packet_queue /\ events' \in Seq(ServerEvent)
  BY UpdateCases
<1>2. packet_queue \in Seq(Packet) /\ events \in Seq(ServerEvent)  BY DEF ServerTypeOK
<1>3. 1 \in DOMAIN events  BY <1>1, <1>2
<1>4. ASSUME NEW j \in 1 .. Len(packet_queue'), packet_queue'[j] = Connect(t) PROVE FALSE
  <2>1. j \in DOMAIN packet_queue /\ packet_queue[j] = Connect(t)  BY <1>1, <1>2, <1>4
  <2> QED  BY <1>1, <1>3, <2>1 DEF ConnectFirst
<1>5. ASSUME NEW j \in 1 .. Len(events'), events'[j] = EventOf(Connect(t)) PROVE FALSE
  <2>1. j + 1 \in DOMAIN events /\ events[j + 1] = EventOf(Connect(t)) /\ 1 \in 1 .. (j + 1) - 1
    BY <1>1, <1>2, <1>5
  <2> QED  BY <1>1, <2>1 DEF ConnectFirst
<1> QED  BY <1>4, <1>5 DEF Awaited, EventOf, Contains

LEMMA NotYetKnownStep ==
    ASSUME ServerTypeOK, NotYetKnown, [ServerNext]_serverVars
    PROVE  NotYetKnown'
<1> SUFFICES ASSUME NEW t \in SessionIds, link'[t] \in {"new", "refused"}
             PROVE  Silent(t)' /\ ~FindSession(room_system', t)
  BY DEF NotYetKnown
<1>0. packet_queue \in Seq(Packet) /\ events \in Seq(ServerEvent)  BY DEF ServerTypeOK
<1>1. link[t] \in {"new", "refused"} => Silent(t) /\ ~FindSession(room_system, t)
  BY DEF NotYetKnown
<1>2. ASSUME NEW s \in SessionIds, NEW p, Pushes(s, p)
      PROVE  Silent(t)' /\ ~FindSession(room_system', t)
  <2>1. /\ p \in Packet /\ p.session_id = s
        /\ packet_queue' = Append(packet_queue, p) \/ packet_queue' = packet_queue
        /\ link'[s] \in {"new", "refused"} => packet_queue' = packet_queue /\ link[s] = "new"
        /\ s # t => link'[t] = link[t]
        /\ events' = events /\ room_system' = room_system
    BY <1>2, PushCases DEF Pushes, logicVars
  <2>2. Silent(t) /\ ~FindSession(room_system, t)  BY <1>1, <2>1
  <2>3. CASE packet_queue' = packet_queue  BY <2>1, <2>2, <2>3 DEF Silent
  <2>4. CASE packet_queue' = Append(packet_queue, p) /\ s # t
    <3>1. \A i \in DOMAIN packet_queue' : packet_queue'[i].session_id # t
      BY <1>0, <2>1, <2>2, <2>4 DEF Silent
    <3> QED  BY <2>1, <2>2, <3>1 DEF Silent
  <2> QED  BY <2>1, <2>3, <2>4
<1>3. CASE Quiet  BY <1>1, <1>3 DEF Quiet, Silent, logicVars
<1>4. CASE PollPacket
  <2> DEFINE p == Head(packet_queue)
  <2>1. /\ packet_queue # <<>> /\ p \in Packet /\ p = packet_queue[1]
        /\ packet_queue' = Tail(packet_queue)
        /\ \/ Decode(p) # <<>> /\ events' = Append(events, EventOf(p))
           \/ events' = events
        /\ link' = link /\ room_system' = room_system
    BY <1>4, PollCases DEF logicVars
  <2>2. Silent(t) /\ ~FindSession(room_system, t)  BY <1>1, <2>1
  <2>3. Decode(p) # <<>> => EventOf(p) \in ServerEvent /\ EventOf(p).session_id # t
    BY <1>0, <2>1, <2>2, Decoded DEF Silent
  <2>4. \A i \in DOMAIN packet_queue' : packet_queue'[i].session_id # t
    BY <1>0, <2>1, <2>2 DEF Silent
  <2>5. \A i \in DOMAIN events' : events'[i].session_id # t
    BY <1>0, <2>1, <2>2, <2>3 DEF Silent
  <2> QED  BY <2>1, <2>2, <2>4, <2>5 DEF Silent
<1>5. CASE Update
  <2>1. /\ events # <<>> /\ Head(events) = events[1] /\ Handle(Head(events))
        /\ events' = Tail(events) /\ packet_queue' = packet_queue /\ link' = link
    BY <1>5, UpdateCases
  <2>2. Silent(t) /\ ~FindSession(room_system, t)  BY <1>1, <2>1
  <2>3. Head(events).session_id # t  BY <1>0, <2>1, <2>2 DEF Silent
  <2>4. ~FindSession(room_system', t)  BY <2>1, <2>2, <2>3, HandleSessions
  <2>5. \A i \in DOMAIN events' : events'[i].session_id # t
    BY <1>0, <2>1, <2>2 DEF Silent
  <2> QED  BY <2>1, <2>2, <2>4, <2>5 DEF Silent
<1>6. CASE Flush
  BY <1>1, <1>6, FlushCases DEF Silent
<1> QED  BY <1>2, <1>3, <1>4, <1>5, <1>6, StepKinds

LEMMA ConnectFirstStep ==
    ASSUME ServerTypeOK, NotYetKnown, ConnectFirst, [ServerNext]_serverVars
    PROVE  ConnectFirst'
<1> DEFINE EventsOf(t) == \A j \in DOMAIN events : events[j] = EventOf(Connect(t)) =>
                              \A i \in 1 .. j - 1 : events[i].session_id # t
           PacketsOf(t) == \A j \in DOMAIN packet_queue : packet_queue[j] = Connect(t) =>
                              /\ \A i \in 1 .. j - 1 : packet_queue[i].session_id # t
                              /\ \A i \in DOMAIN events : events[i].session_id # t
<1> SUFFICES ASSUME NEW t \in SessionIds PROVE EventsOf(t)' /\ PacketsOf(t)'
  BY DEF ConnectFirst
<1>0. packet_queue \in Seq(Packet) /\ events \in Seq(ServerEvent)  BY DEF ServerTypeOK
<1>1. EventsOf(t) /\ PacketsOf(t)  BY DEF ConnectFirst
<1>2. ASSUME NEW s \in SessionIds, NEW p, Pushes(s, p)
      PROVE  EventsOf(t)' /\ PacketsOf(t)'
  <2>1. /\ p \in Packet /\ p.session_id = s
        /\ packet_queue' = Append(packet_queue, p) \/ packet_queue' = packet_queue
        /\ events' = events
    BY <1>2, PushCases DEF Pushes
  <2>2. ASSUME p = Connect(t) PROVE Silent(t)
    <3>1. s = t  BY <2>1, <2>2, ConnectPackets
    <3>2. link[t] = "new"  BY <1>2, <2>2, <3>1 DEF Pushes, Connect, Disconnect, Data
    <3> QED  BY <3>2 DEF NotYetKnown
  <2>3. EventsOf(t)'  BY <1>1, <2>1
  <2>4. CASE packet_queue' = packet_queue  BY <1>1, <2>1, <2>4
  <2>5. CASE packet_queue' = Append(packet_queue, p)
    <3> SUFFICES ASSUME NEW j \in DOMAIN packet_queue', packet_queue'[j] = Connect(t)
                 PROVE  /\ \A i \in 1 .. j - 1 : packet_queue'[i].session_id # t
                        /\ \A i \in DOMAIN events : events[i].session_id # t
      BY <2>1, <2>3
    <3>1. CASE j \in DOMAIN packet_queue
      <4>1. packet_queue[j] = Connect(t) /\ \A i \in 1 .. j - 1 : packet_queue'[i] = packet_queue[i]
        BY <1>0, <2>1, <2>5, <3>1
      <4> QED  BY <1>1, <3>1, <4>1
    <3>2. CASE j = Len(packet_queue) + 1
      <4>1. p = Connect(t) /\ \A i \in 1 .. j - 1 : i \in DOMAIN packet_queue
                                                    /\ packet_queue'[i] = packet_queue[i]
        BY <1>0, <2>1, <2>5, <3>2
      <4> QED  BY <2>2, <4>1 DEF Silent
    <3> QED  BY <1>0, <2>1, <2>5, <3>1, <3>2
  <2> QED  BY <2>1, <2>3, <2>4, <2>5
<1>3. CASE Quiet  BY <1>1, <1>3 DEF Quiet
<1>4. CASE PollPacket
  <2> DEFINE p == Head(packet_queue)
  <2>1. /\ packet_queue # <<>> /\ p \in Packet /\ p = packet_queue[1]
        /\ packet_queue' = Tail(packet_queue)
        /\ \/ Decode(p) # <<>> /\ events' = Append(events, EventOf(p))
           \/ events' = events
    BY <1>4, PollCases
  <2>2. Decode(p) # <<>> =>
          /\ EventOf(p) \in ServerEvent /\ EventOf(p).session_id = p.session_id
          /\ EventOf(p) = EventOf(Connect(t)) => p = Connect(t)
    BY <2>1, Decoded
  <2>3. /\ \A i \in DOMAIN events : events'[i] = events[i]
        /\ \A i \in DOMAIN events' :
              \/ i \in DOMAIN events
              \/ i = Len(events) + 1 /\ Decode(p) # <<>> /\ events'[i] = EventOf(p)
        /\ \A i \in DOMAIN packet_queue' : i + 1 \in DOMAIN packet_queue
                                           /\ packet_queue'[i] = packet_queue[i + 1]
    <3>1. \A i \in DOMAIN packet_queue' : i + 1 \in DOMAIN packet_queue
                                           /\ packet_queue'[i] = packet_queue[i + 1]
      BY <1>0, <2>1
    <3>2. CASE events' = events  BY <3>1, <3>2
    <3>3. CASE Decode(p) # <<>> /\ events' = Append(events, EventOf(p))
      <4>1. EventOf(p) \in ServerEvent  BY <2>2, <3>3
      <4> DEFINE e == EventOf(p)
      <4> HIDE DEF e
      <4>2. /\ \A i \in DOMAIN events : Append(events, e)[i] = events[i]
            /\ \A i \in DOMAIN Append(events, e) :
                  i \in DOMAIN events \/ (i = Len(events) + 1 /\ Append(events, e)[i] = e)
        BY <1>0, <4>1 DEF e
      <4> QED  BY <3>1, <3>3, <4>2 DEF e
    <3> QED  BY <2>1, <3>2, <3>3
  <2>4. 1 \in DOMAIN packet_queue  BY <1>0, <2>1
  <2> HIDE DEF p
  <2>5. ASSUME NEW j \in DOMAIN events', events'[j] = EventOf(Connect(t)),
               NEW i \in 1 .. j - 1
        PROVE  events'[i].session_id # t
    <3>1. CASE j \in DOMAIN events  
      <4>1. i \in DOMAIN events  BY <1>0, <3>1
      <4> QED  BY <1>1, <2>3, <2>5, <3>1, <4>1
    <3>2. CASE j = Len(events) + 1 /\ Decode(p) # <<>> /\ events'[j] = EventOf(p)
      <4>1. i \in DOMAIN events  BY <1>0, <3>2
      <4>2. packet_queue[1] = Connect(t)  BY <2>1, <2>2, <2>3, <2>5, <3>2
      <4> QED  BY <1>1, <2>3, <2>4, <4>1, <4>2
    <3> QED  BY <2>3, <3>1, <3>2
  <2>6. ASSUME NEW j \in DOMAIN packet_queue', packet_queue'[j] = Connect(t)
        PROVE  /\ \A i \in 1 .. j - 1 : packet_queue'[i].session_id # t
               /\ \A i \in DOMAIN events' : events'[i].session_id # t
    <3>1. j + 1 \in DOMAIN packet_queue /\ packet_queue[j + 1] = Connect(t)  BY <2>3, <2>6
    <3>2. /\ \A i \in 1 .. (j + 1) - 1 : packet_queue[i].session_id # t
          /\ \A i \in DOMAIN events : events[i].session_id # t
      BY <1>1, <3>1
    <3>3. j \in Nat \ {0} /\ \A i \in 1 .. j - 1 : i \in DOMAIN packet_queue' /\ i + 1 \in 1 .. (j + 1) - 1
      BY <1>0, <2>1
    <3>4. \A i \in 1 .. j - 1 : packet_queue'[i].session_id # t  BY <2>3, <3>2, <3>3
    <3>5. Decode(p) # <<>> => EventOf(p).session_id # t  BY <2>1, <2>2, <3>2, <3>3
    <3> QED  BY <2>3, <3>2, <3>4, <3>5
  <2> QED  BY <2>5, <2>6
<1>5. CASE Update
  <2>1. events # <<>> /\ events' = Tail(events) /\ packet_queue' = packet_queue
    BY <1>5, UpdateCases
  <2>2. \A i \in DOMAIN events' : i + 1 \in DOMAIN events /\ events'[i] = events[i + 1]
    BY <1>0, <2>1
  <2>3. ASSUME NEW j \in DOMAIN events', events'[j] = EventOf(Connect(t)),
               NEW i \in 1 .. j - 1
        PROVE  events'[i].session_id # t
    <3>1. i \in DOMAIN events' /\ i + 1 \in 1 .. (j + 1) - 1  BY <1>0, <2>1, <2>3
    <3> QED  BY <1>1, <2>2, <2>3, <3>1
  <2> QED  BY <1>1, <2>1, <2>2, <2>3
<1>6. CASE Flush  BY <1>1, <1>6, FlushCases
<1> QED  BY <1>2, <1>3, <1>4, <1>5, <1>6, StepKinds

LEMMA EndsReportedStep ==
    ASSUME Connections, [ServerNext]_serverVars
    PROVE  EndsReported'
<1> DEFINE Known(t) == FindSession(room_system, t) \/ Awaited(Connect(t))
<1> SUFFICES ASSUME NEW t \in SessionIds, link'[t] # "open", Known(t)'
             PROVE  dropped_packets' \/ Awaited(Disconnect(t))'
  BY DEF EndsReported
<1>0. ServerTypeOK /\ ConnectFirst  BY DEF Connections
<1>1. link[t] # "open" /\ Known(t) => dropped_packets \/ Awaited(Disconnect(t))
  BY DEF Connections, EndsReported
<1>2. ASSUME NEW s \in SessionIds, NEW p, Pushes(s, p)
      PROVE  dropped_packets' \/ Awaited(Disconnect(t))'
  <2>1. \/ packet_queue' = Append(packet_queue, p) /\ dropped_packets' = dropped_packets /\ ~Full
        \/ dropped_packets'
    BY <1>0, <1>2, PushCases
  <2>2. CASE packet_queue' = Append(packet_queue, p) /\ dropped_packets' = dropped_packets /\ ~Full
    <3>1. /\ Awaited(Connect(t))' <=> Awaited(Connect(t)) \/ p = Connect(t)
          /\ Awaited(Disconnect(t))' <=> Awaited(Disconnect(t)) \/ p = Disconnect(t)
      BY <1>0, <1>2, <2>2, AwaitedPush
    <3>2. /\ p.session_id = s /\ room_system' = room_system
          /\ s # t => link'[t] = link[t]
          /\ link \in [SessionIds -> {"new", "refused", "open", "closed", "gone"}]
      BY <1>0, <1>2, PushCases DEF Pushes, logicVars, ServerTypeOK
    <3>3. Connect(t).session_id = t /\ Connect(t).type = "Connect"
          /\ Disconnect(t).type = "Disconnect"
      BY ConnectPackets
    <3>4. CASE s # t  BY <1>1, <2>2, <3>1, <3>2, <3>3, <3>4
    <3>5. CASE s = t /\ p = Connect(t)
      BY <1>2, <2>2, <3>2, <3>3, <3>5 DEF Pushes, Data
    <3>6. CASE s = t /\ p.type = "Data"
      <4>1. link[t] # "open"  BY <1>2, <3>2, <3>3, <3>6 DEF Pushes
      <4> QED  BY <1>1, <2>2, <3>1, <3>2, <3>3, <3>6, <4>1
    <3>7. CASE s = t /\ p = Disconnect(t)  BY <3>1, <3>7
    <3> QED  BY <1>2, <3>4, <3>5, <3>6, <3>7 DEF Pushes, Data
  <2> QED  BY <2>1, <2>2
<1>3. CASE Quiet
  <2>1. /\ Awaited(Connect(t))' <=> Awaited(Connect(t))
        /\ Awaited(Disconnect(t))' <=> Awaited(Disconnect(t))
    BY <1>3 DEF Quiet, Awaited
  <2> QED  BY <1>1, <1>3, <2>1 DEF Quiet, logicVars
<1>4. CASE PollPacket
  <2>1. link' = link /\ room_system' = room_system /\ dropped_packets' = dropped_packets
    BY <1>4 DEF PollPacket, logicVars
  <2> QED  BY <1>0, <1>1, <1>4, <2>1, AwaitedPoll
<1>5. CASE Update
  <2>1. /\ link' = link /\ dropped_packets' = dropped_packets /\ Handle(Head(events))
    BY <1>0, <1>5, UpdateCases
  <2>2. Known(t)  BY <1>0, <1>5, AwaitedUpdate, MadeKnown
  <2>3. CASE Head(events) = EventOf(Disconnect(t))
    <3>1. Head(events).session_id = t /\ Head(events).type = "Disconnected"
      BY <2>3, ConnectPackets
    <3>2. ~FindSession(room_system', t)  BY <2>1, <3>1, HandleSessions
    <3>3. ~Awaited(Connect(t))'  BY <1>0, <1>5, <3>1, ConnectBehind
    <3> QED  BY <3>2, <3>3
  <2>4. CASE Head(events) # EventOf(Disconnect(t))
    BY <1>0, <1>1, <1>5, <2>1, <2>2, <2>4, AwaitedUpdate
  <2> QED  BY <2>3, <2>4
<1>6. CASE Flush
  <2>1. /\ room_system' = room_system
        /\ UNCHANGED <<link, packet_queue, dropped_packets, events>>
    BY <1>0, <1>6, FlushCases
  <2>2. /\ Awaited(Connect(t))' <=> Awaited(Connect(t))
        /\ Awaited(Disconnect(t))' <=> Awaited(Disconnect(t))
    BY <2>1 DEF Awaited
  <2> QED  BY <1>1, <2>1, <2>2
<1> QED  BY <1>0, <1>2, <1>3, <1>4, <1>5, <1>6, StepKinds

LEMMA InitConnections == ServerInit => Connections
<1> SUFFICES ASSUME ServerInit PROVE Connections  OBVIOUS
<1>1. ServerTypeOK  BY InitType
<1>2. packet_queue = <<>> /\ events = <<>> /\ room_system = NewRoomSystem
  BY DEF ServerInit, Init
<1>3. DOMAIN packet_queue = {} /\ DOMAIN events = {}  BY <1>2
<1>4. \A s : ~FindSession(room_system, s)  BY <1>2 DEF NewRoomSystem, FindSession
<1>5. \A q : ~Awaited(q)  BY <1>2 DEF Awaited, Contains
<1>6. NotYetKnown  BY <1>3, <1>4 DEF NotYetKnown, Silent
<1>7. ConnectFirst  BY <1>3 DEF ConnectFirst
<1>8. EndsReported  BY <1>4, <1>5 DEF EndsReported
<1> QED  BY <1>1, <1>6, <1>7, <1>8 DEF Connections

\* Connections is inductive.
THEOREM ConnectionsTheorem == ServerSpec => []Connections
<1>1. Connections /\ [ServerNext]_serverVars => Connections'
  BY StepType, NotYetKnownStep, ConnectFirstStep, EndsReportedStep DEF Connections
<1> QED  BY <1>1, InitConnections, PTL DEF ServerSpec

\* A session that outlives its connection is about to be removed, unless
\* push_packet has dropped a packet: whatever I/O threads and main loop do in
\* between, Disconnect reaches a session after its Connect.
THEOREM GhostsTheorem == ServerSpec => []GhostsOnlyAfterOverflow
<1>1. Connections => GhostsOnlyAfterOverflow
  <2> SUFFICES ASSUME Connections, NEW s \in DOMAIN room_system.sessions,
                      link[s] # "open", ~Awaited(Disconnect(s))
               PROVE  dropped_packets
    BY DEF GhostsOnlyAfterOverflow
  <2>1. s \in SessionIds
    BY DEF Connections, ServerTypeOK, IInv, Coherent, IsRoomSystem
  <2> QED  BY <2>1 DEF Connections, EndsReported, FindSession
<1> QED  BY <1>1, ConnectionsTheorem, PTL

LEMMA StaysForgotten ==
    ASSUME Connections, [ServerNext]_serverVars, NEW t \in SessionIds, Forgotten(t)
    PROVE  Forgotten(t)'
<1>0. ServerTypeOK  BY DEF Connections
<1>1. /\ link[t] \notin {"new", "refused"} /\ ~Awaited(Connect(t))
      /\ ~FindSession(room_system, t)
  BY DEF Forgotten
<1>2. ASSUME NEW s \in SessionIds, NEW p, Pushes(s, p) PROVE Forgotten(t)'
  <2>1. /\ packet_queue' = Append(packet_queue, p) \/ packet_queue' = packet_queue
        /\ p.session_id = s /\ room_system' = room_system
        /\ link'[s] \in {"new", "refused"} => link[s] = "new"
        /\ s # t => link'[t] = link[t]
    BY <1>0, <1>2, PushCases DEF Pushes, logicVars
  <2>2. p # Connect(t)
    <3>1. ASSUME p = Connect(t) PROVE FALSE
      <4>1. s = t /\ p.type = "Connect"  BY <2>1, <3>1, ConnectPackets
      <4>2. link[t] = "new"  BY <1>2, <4>1 DEF Pushes, Disconnect, Data
      <4> QED  BY <1>1, <4>2
    <3> QED  BY <3>1
  <2>3. ~Awaited(Connect(t))'  BY <1>0, <1>1, <1>2, <2>1, <2>2, AwaitedPush
  <2> QED  BY <1>1, <2>1, <2>3 DEF Forgotten
<1>3. CASE Quiet
  <2>1. ~Awaited(Connect(t))'  BY <1>1, <1>3 DEF Quiet, Awaited
  <2> QED  BY <1>1, <1>3, <2>1 DEF Quiet, logicVars, Forgotten
<1>4. CASE PollPacket
  <2>1. ~Awaited(Connect(t))'  BY <1>0, <1>1, <1>4, AwaitedPoll
  <2> QED  BY <1>1, <1>4, <2>1 DEF PollPacket, logicVars, Forgotten
<1>5. CASE Update
  <2>1. ~Awaited(Connect(t))'  BY <1>0, <1>1, <1>5, AwaitedUpdate
  <2>2. ~FindSession(room_system', t)  BY <1>0, <1>1, <1>5, MadeKnown
  <2>3. link' = link  BY <1>0, <1>5, UpdateCases
  <2> QED  BY <1>1, <2>1, <2>2, <2>3 DEF Forgotten
<1>6. CASE Flush
  <2>1. room_system' = room_system /\ UNCHANGED <<link, packet_queue, events>>
    BY <1>0, <1>6, FlushCases
  <2>2. ~Awaited(Connect(t))'  BY <1>1, <2>1 DEF Awaited
  <2> QED  BY <1>1, <2>1, <2>2 DEF Forgotten
<1> QED  BY <1>0, <1>2, <1>3, <1>4, <1>5, <1>6, StepKinds

\* A session that the server has removed never comes back: AddSession runs
\* only on Connect, and a connection pushes that once, before anything else.
THEOREM NoResurrectionTheorem == ServerSpec => NoResurrection
<1>1. Connections /\ [ServerNext]_serverVars
        => [\A s \in SessionIds : Forgotten(s) => Forgotten(s)']_serverVars
  BY StaysForgotten
<1> QED  BY <1>1, ConnectionsTheorem, PTL DEF ServerSpec, NoResurrection

-----------------------------------------------------------------------------
(* Ids in order.                                                           *)

LEMMA AppendParts ==
    ASSUME NEW S, NEW a \in Seq(S), NEW x \in S
    PROVE  \A i \in DOMAIN Append(a, x) : \/ i \in DOMAIN a /\ Append(a, x)[i] = a[i]
                                          \/ i = Len(a) + 1 /\ Append(a, x)[i] = x
  OBVIOUS

LEMMA TailParts ==
    ASSUME NEW S, NEW a \in Seq(S), a # <<>>
    PROVE  /\ ToSet(Tail(a)) \subseteq ToSet(a) /\ Head(a) \in ToSet(a)
           /\ Head(a) = a[1] /\ 1 \in DOMAIN a
           /\ \A i \in DOMAIN Tail(a) : /\ i \in Nat \ {0} /\ i + 1 \in DOMAIN a
                                        /\ Tail(a)[i] = a[i + 1]
<1>1. /\ Head(a) = a[1] /\ 1 \in DOMAIN a
      /\ \A i \in DOMAIN Tail(a) : /\ i \in Nat \ {0} /\ i + 1 \in DOMAIN a
                                   /\ Tail(a)[i] = a[i + 1]
  OBVIOUS
<1> QED  BY <1>1 DEF ToSet

LEMMA ConcatParts ==
    ASSUME NEW S, NEW a \in Seq(S), NEW b \in Seq(S)
    PROVE  /\ a \o b \in Seq(S) /\ ToSet(a \o b) = ToSet(a) \cup ToSet(b)
           /\ Len(a) \in Nat
           /\ \A i \in DOMAIN (a \o b) :
                 /\ i \in Nat
                 /\ \/ i \in DOMAIN a /\ (a \o b)[i] = a[i] /\ i <= Len(a)
                    \/ i - Len(a) \in DOMAIN b /\ (a \o b)[i] = b[i - Len(a)] /\ i > Len(a)
<1> DEFINE c == a \o b
<1>1. c \in Seq(S) /\ Len(c) = Len(a) + Len(b) /\ Len(a) \in Nat /\ Len(b) \in Nat
      /\ DOMAIN a = 1 .. Len(a) /\ DOMAIN b = 1 .. Len(b) /\ DOMAIN c = 1 .. Len(a) + Len(b)
  OBVIOUS
<1>2. /\ \A i \in DOMAIN a : c[i] = a[i]
      /\ \A j \in DOMAIN b : c[Len(a) + j] = b[j]
  OBVIOUS
<1>3. \A i \in DOMAIN c : \/ i \in DOMAIN a /\ i <= Len(a)
                          \/ i - Len(a) \in DOMAIN b /\ i > Len(a) /\ i = Len(a) + (i - Len(a))
  BY <1>1
<1>4. /\ \A i \in DOMAIN a : i \in DOMAIN c
      /\ \A j \in DOMAIN b : Len(a) + j \in DOMAIN c
  BY <1>1
<1> HIDE DEF c
<1>5. \A i \in DOMAIN c :
        /\ i \in Nat
        /\ \/ i \in DOMAIN a /\ c[i] = a[i] /\ i <= Len(a)
           \/ i - Len(a) \in DOMAIN b /\ c[i] = b[i - Len(a)] /\ i > Len(a)
  BY <1>1, <1>2, <1>3
<1>6. ToSet(c) = ToSet(a) \cup ToSet(b)  BY <1>2, <1>4, <1>5 DEF ToSet
<1> QED  BY <1>1, <1>5, <1>6 DEF c

LEMMA RisingAppend ==
    ASSUME NEW a \in Seq(Nat), NEW n \in Nat, Rising(a),
           n = 0 \/ \A x \in ToSet(a) : x < n
    PROVE  Rising(Append(a, n))
<1>1. Append(a, n) \in Seq(Nat)  OBVIOUS
<1>2. \A i \in DOMAIN a : a[i] \in ToSet(a)  BY DEF ToSet
<1> SUFFICES ASSUME NEW i \in DOMAIN Append(a, n), NEW j \in DOMAIN Append(a, n), i < j
             PROVE  Append(a, n)[j] = 0 \/ Append(a, n)[i] < Append(a, n)[j]
  BY DEF Rising
<1>3. /\ i \in DOMAIN a /\ Append(a, n)[i] = a[i]
      /\ \/ j \in DOMAIN a /\ Append(a, n)[j] = a[j]
         \/ Append(a, n)[j] = n
  <2>1. DOMAIN a = 1 .. Len(a) /\ Len(a) \in Nat /\ DOMAIN Append(a, n) = 1 .. Len(a) + 1
    OBVIOUS
  <2> QED  BY <2>1, AppendParts
<1> QED  BY <1>2, <1>3 DEF Rising

LEMMA RisingTail ==
    ASSUME NEW a \in Seq(Nat), a # <<>>, Rising(a)
    PROVE  /\ Rising(Tail(a))
           /\ \A y \in ToSet(Tail(a)) : y = 0 \/ Head(a) < y
<1>1. /\ Head(a) = a[1] /\ 1 \in DOMAIN a
      /\ \A i \in DOMAIN Tail(a) : /\ i \in Nat \ {0} /\ i + 1 \in DOMAIN a
                                   /\ Tail(a)[i] = a[i + 1]
  BY TailParts
<1>2. \A i \in DOMAIN Tail(a), j \in DOMAIN Tail(a) : i < j => i + 1 < j + 1  BY <1>1
<1>3. Rising(Tail(a))  BY <1>1, <1>2 DEF Rising
<1>4. \A i \in DOMAIN Tail(a) : Tail(a)[i] = 0 \/ Head(a) < Tail(a)[i]
  BY <1>1 DEF Rising
<1> QED  BY <1>3, <1>4 DEF ToSet

LEMMA RisingConcat ==
    ASSUME NEW a \in Seq(Nat), NEW b \in Seq(Nat), Rising(a), Rising(b), Below(a, b)
    PROVE  Rising(a \o b)
<1> DEFINE c == a \o b
<1>1. /\ Len(a) \in Nat
      /\ \A i \in DOMAIN c :
           /\ i \in Nat
           /\ \/ i \in DOMAIN a /\ c[i] = a[i] /\ i <= Len(a)
              \/ i - Len(a) \in DOMAIN b /\ c[i] = b[i - Len(a)] /\ i > Len(a)
  BY ConcatParts
<1> HIDE DEF c
<1> SUFFICES ASSUME NEW i \in DOMAIN c, NEW j \in DOMAIN c, i < j
             PROVE  c[j] = 0 \/ c[i] < c[j]
  BY DEF Rising, c
<1>2. CASE j \in DOMAIN a /\ c[j] = a[j] /\ j <= Len(a)
  <2>1. i \in DOMAIN a /\ c[i] = a[i]  BY <1>1, <1>2
  <2> QED  BY <1>2, <2>1 DEF Rising
<1>3. CASE i \in DOMAIN a /\ c[i] = a[i] /\ j - Len(a) \in DOMAIN b /\ c[j] = b[j - Len(a)]
  BY <1>3 DEF Below, ToSet
<1>4. CASE /\ i - Len(a) \in DOMAIN b /\ c[i] = b[i - Len(a)]
           /\ j - Len(a) \in DOMAIN b /\ c[j] = b[j - Len(a)]
  <2>1. i - Len(a) < j - Len(a)  BY <1>1
  <2> QED  BY <1>4, <2>1 DEF Rising
<1> QED  BY <1>1, <1>2, <1>3, <1>4

LEMMA IdsAreNumbers == \A a \in Seq(Nat) : ToSet(a) \subseteq Nat
  BY DEF ToSet

LEMMA AppendId ==
    \A a \in Seq(Nat), x \in Nat : ToSet(Append(a, x)) = ToSet(a) \cup {x}
<1> SUFFICES ASSUME NEW a \in Seq(Nat), NEW x \in Nat
             PROVE  ToSet(Append(a, x)) = ToSet(a) \cup {x}
  OBVIOUS
<1>1. /\ \A i \in DOMAIN Append(a, x) : \/ i \in DOMAIN a /\ Append(a, x)[i] = a[i]
                                        \/ i = Len(a) + 1 /\ Append(a, x)[i] = x
      /\ \A i \in DOMAIN a : i \in DOMAIN Append(a, x) /\ Append(a, x)[i] = a[i]
      /\ Len(a) + 1 \in DOMAIN Append(a, x) /\ Append(a, x)[Len(a) + 1] = x
  OBVIOUS
<1> QED  BY <1>1 DEF ToSet

\* A packet is pushed with the id 0 or the next one, or the next id is lost.
LEMMA OrderPush ==
    ASSUME NEW f \in Seq(Nat), NEW q \in Seq(Nat), NEW d \in Seq(Nat), NEW p \in Seq(Nat),
           NEW n \in Nat, InOrder(f, q, d, p, n)
    PROVE  /\ InOrder(f, q, d, Append(p, 0), n)
           /\ InOrder(f, q, d, Append(p, n + 1), n + 1)
           /\ InOrder(f, q, d, p, n + 1)
<1>1. /\ ToSet(f) \subseteq Nat /\ ToSet(q) \subseteq Nat /\ ToSet(d) \subseteq Nat
      /\ ToSet(p) \subseteq Nat
  BY IdsAreNumbers
<1>2. ToSet(Append(p, 0)) = ToSet(p) \cup {0} /\ ToSet(Append(p, n + 1)) = ToSet(p) \cup {n + 1}
  <2>1. 0 \in Nat /\ n + 1 \in Nat  OBVIOUS
  <2> QED  BY <2>1, AppendId, Zenon
<1>3. /\ UpTo(f, n + 1) /\ UpTo(q, n + 1) /\ UpTo(d, n + 1) /\ UpTo(p, n + 1)
  BY <1>1 DEF InOrder, UpTo
<1>4. /\ \A x \in ToSet(f) : x < n + 1
      /\ \A x \in ToSet(q) : x < n + 1
      /\ \A x \in ToSet(d) : x < n + 1
      /\ \A x \in ToSet(p) : x < n + 1
  BY <1>1 DEF InOrder, UpTo
<1>5. Rising(Append(p, 0)) /\ Rising(Append(p, n + 1))
  BY <1>4, RisingAppend DEF InOrder
<1>6. /\ Below(f, Append(p, 0)) /\ Below(q, Append(p, 0)) /\ Below(d, Append(p, 0))
      /\ UpTo(Append(p, 0), n)
  BY <1>2 DEF InOrder, Below, UpTo
<1>7. /\ Below(f, Append(p, n + 1)) /\ Below(q, Append(p, n + 1)) /\ Below(d, Append(p, n + 1))
      /\ UpTo(Append(p, n + 1), n + 1)
  BY <1>2, <1>3, <1>4 DEF InOrder, Below, UpTo
<1> QED  BY <1>3, <1>5, <1>6, <1>7 DEF InOrder

\* A packet becomes an event, which keeps its id or has none.
LEMMA OrderPoll ==
    ASSUME NEW f \in Seq(Nat), NEW q \in Seq(Nat), NEW d \in Seq(Nat), NEW p \in Seq(Nat),
           NEW n \in Nat, InOrder(f, q, d, p, n), p # <<>>, NEW m \in {0, Head(p)}
    PROVE  InOrder(f, q, Append(d, m), Tail(p), n)
<1>1. /\ ToSet(f) \subseteq Nat /\ ToSet(q) \subseteq Nat /\ ToSet(d) \subseteq Nat
      /\ ToSet(p) \subseteq Nat
  BY IdsAreNumbers
<1>2. ToSet(Tail(p)) \subseteq ToSet(p) /\ Head(p) \in ToSet(p)  BY TailParts
<1>3. m \in Nat  BY <1>1, <1>2
<1>4. ToSet(Append(d, m)) = ToSet(d) \cup {m}  BY <1>3, AppendId, Zenon
<1>5. Rising(Tail(p)) /\ \A y \in ToSet(Tail(p)) : y = 0 \/ Head(p) < y
  BY RisingTail DEF InOrder
<1>6. \A y \in ToSet(Tail(p)) : y = 0 \/ m < y  BY <1>1, <1>2, <1>5
<1>7. /\ m = 0 \/ \A x \in ToSet(d) : x < m
      /\ m = 0 \/ \A x \in ToSet(q) : x < m
      /\ m = 0 \/ \A x \in ToSet(f) : x < m
      /\ m <= n
  BY <1>1, <1>2 DEF InOrder, Below, UpTo
<1>8. Rising(Append(d, m))  BY <1>3, <1>7, RisingAppend DEF InOrder
<1>9. Below(f, Append(d, m)) /\ Below(q, Append(d, m)) /\ UpTo(Append(d, m), n)
  BY <1>4, <1>7 DEF InOrder, Below, UpTo
<1>10. /\ Below(f, Tail(p)) /\ Below(q, Tail(p)) /\ Below(Append(d, m), Tail(p))
       /\ UpTo(Tail(p), n)
  BY <1>2, <1>4, <1>6 DEF InOrder, Below, UpTo
<1> QED  BY <1>5, <1>8, <1>9, <1>10 DEF InOrder

\* A packet is passed over.
LEMMA OrderPassOver ==
    ASSUME NEW f \in Seq(Nat), NEW q \in Seq(Nat), NEW d \in Seq(Nat), NEW p \in Seq(Nat),
           NEW n \in Nat, InOrder(f, q, d, p, n), p # <<>>
    PROVE  InOrder(f, q, d, Tail(p), n)
<1>1. ToSet(Tail(p)) \subseteq ToSet(p)  BY TailParts
<1>2. Rising(Tail(p))  BY RisingTail DEF InOrder
<1>3. /\ Below(f, Tail(p)) /\ Below(q, Tail(p)) /\ Below(d, Tail(p))
      /\ UpTo(Tail(p), n)
  BY <1>1 DEF InOrder, Below, UpTo
<1> QED  BY <1>2, <1>3 DEF InOrder

\* An event is handled; one of the messages queued carries its id at most.
LEMMA OrderHandle ==
    ASSUME NEW f \in Seq(Nat), NEW q \in Seq(Nat), NEW d \in Seq(Nat), NEW p \in Seq(Nat),
           NEW n \in Nat, InOrder(f, q, d, p, n), d # <<>>,
           NEW r \in Seq(Nat), NEW k,
           \A i \in DOMAIN r : r[i] = IF i = k THEN Head(d) ELSE 0
    PROVE  /\ InOrder(f, q \o r, Tail(d), p, n)
           /\ InOrder(f, q, Tail(d), p, n)
<1> DEFINE h == Head(d)
<1>1. /\ ToSet(f) \subseteq Nat /\ ToSet(q) \subseteq Nat /\ ToSet(d) \subseteq Nat
      /\ ToSet(p) \subseteq Nat
  BY IdsAreNumbers
<1>2. ToSet(Tail(d)) \subseteq ToSet(d) /\ h \in ToSet(d)  BY TailParts
<1>3. h \in Nat  BY <1>1, <1>2
<1>4. Rising(Tail(d)) /\ \A y \in ToSet(Tail(d)) : y = 0 \/ h < y
  BY RisingTail DEF InOrder
<1> HIDE DEF h
<1>5. \A i \in DOMAIN r : r[i] = IF i = k THEN h ELSE 0  BY DEF h
<1>6. \A x \in ToSet(r) : x = 0 \/ x = h  BY <1>5 DEF ToSet
<1>7. Rising(r)
  <2> SUFFICES ASSUME NEW i \in DOMAIN r, NEW j \in DOMAIN r, i < j
               PROVE  r[j] = 0 \/ r[i] < r[j]
    BY DEF Rising
  <2>1. i # j  OBVIOUS
  <2>2. CASE j = k  BY <1>3, <1>5, <2>1, <2>2
  <2>3. CASE j # k  BY <1>5, <2>3
  <2> QED  BY <2>2, <2>3
<1>8. /\ h = 0 \/ \A x \in ToSet(q) : x < h
      /\ h = 0 \/ \A x \in ToSet(f) : x < h
      /\ \A y \in ToSet(p) : y = 0 \/ h < y
      /\ h <= n
  BY <1>2 DEF InOrder, Below, UpTo
<1>9. Below(q, r)  BY <1>6, <1>8 DEF Below
<1>10. Rising(q \o r)  BY <1>7, <1>9, RisingConcat DEF InOrder
<1>11. ToSet(q \o r) = ToSet(q) \cup ToSet(r)  BY ConcatParts
<1>12. Below(f, q \o r)  BY <1>6, <1>8, <1>11 DEF InOrder, Below
<1>13. Below(q \o r, Tail(d))
  <2> SUFFICES ASSUME NEW x \in ToSet(q \o r), NEW y \in ToSet(Tail(d)), y # 0
               PROVE  x < y
    BY DEF Below
  <2>1. x \in ToSet(q) => x < y  BY <1>2 DEF InOrder, Below
  <2>2. h < y /\ y \in Nat  BY <1>1, <1>2, <1>4
  <2>3. x \in ToSet(r) => x < y  BY <1>3, <1>6, <2>2
  <2> QED  BY <1>11, <2>1, <2>3
<1>14. Below(q \o r, p)
  <2> SUFFICES ASSUME NEW x \in ToSet(q \o r), NEW y \in ToSet(p), y # 0
               PROVE  x < y
    BY DEF Below
  <2>1. x \in ToSet(q) => x < y  BY DEF InOrder, Below
  <2>2. h < y /\ y \in Nat  BY <1>1, <1>8
  <2>3. x \in ToSet(r) => x < y  BY <1>3, <1>6, <2>2
  <2> QED  BY <1>11, <2>1, <2>3
<1>15. UpTo(q \o r, n)
  <2>1. UpTo(q, n)  BY DEF InOrder
  <2>2. ASSUME NEW x \in ToSet(r) PROVE x <= n
    <3>1. CASE x = 0  BY <3>1
    <3>2. CASE x = h  BY <1>8, <3>2
    <3> QED  BY <1>6, <3>1, <3>2
  <2> QED  BY <1>11, <2>1, <2>2 DEF UpTo
<1>16. /\ Below(f, Tail(d)) /\ Below(q, Tail(d)) /\ Below(Tail(d), p) /\ UpTo(Tail(d), n)
  BY <1>2 DEF InOrder, Below, UpTo
<1> QED  BY <1>4, <1>10, <1>12, <1>13, <1>14, <1>15, <1>16 DEF InOrder

\* What is queued is flushed.
LEMMA OrderFlush ==
    ASSUME NEW f \in Seq(Nat), NEW q \in Seq(Nat), NEW d \in Seq(Nat), NEW p \in Seq(Nat),
           NEW n \in Nat, InOrder(f, q, d, p, n)
    PROVE  InOrder(f \o q, <<>>, d, p, n)
<1>1. ToSet(f \o q) = ToSet(f) \cup ToSet(q) /\ ToSet(<<>>) = {}
  <2>1. ToSet(f \o q) = ToSet(f) \cup ToSet(q)  BY ConcatParts
  <2>2. ToSet(<<>>) = {}  BY DEF ToSet
  <2> QED  BY <2>1, <2>2
<1>2. Rising(f \o q)  BY RisingConcat DEF InOrder
<1>3. Rising(<<>>)  BY DEF Rising
<1> QED  BY <1>1, <1>2, <1>3 DEF InOrder, Below, UpTo

-----------------------------------------------------------------------------
(* What handlers queue.                                                    *)

\* A sequence of messages: one of them carries the request_id n at most, the
\* others are events.
Reply(messages, n) ==
    /\ messages \in Seq(ToSet(messages))
    /\ \E k \in Nat : \A i \in DOMAIN messages :
          messages[i].request_id = IF i = k THEN n ELSE 0

\* Only sid is sent a reply.
Replies(streams, sid, n) ==
    \A t \in SessionIds : Reply(streams[t], IF t = sid THEN n ELSE 0)

LEMMA ReplyConcat ==
    ASSUME NEW a, NEW b, NEW m, NEW n, Reply(a, m), Reply(b, n), m = 0 \/ n = 0
    PROVE  Reply(a \o b, IF m = 0 THEN n ELSE m)
<1> DEFINE S == ToSet(a) \cup ToSet(b)
           c == a \o b
<1>1. a \in Seq(S) /\ b \in Seq(S)
  <2>1. a \in Seq(ToSet(a)) /\ b \in Seq(ToSet(b))  BY DEF Reply
  <2> QED  BY <2>1
<1> HIDE DEF S
<1>2. /\ c \in Seq(S) /\ ToSet(c) = S /\ Len(a) \in Nat
      /\ \A i \in DOMAIN c :
           /\ i \in Nat
           /\ \/ i \in DOMAIN a /\ c[i] = a[i] /\ i <= Len(a)
              \/ i - Len(a) \in DOMAIN b /\ c[i] = b[i - Len(a)] /\ i > Len(a)
  BY <1>1, ConcatParts DEF S
<1> HIDE DEF c
<1>3. c \in Seq(ToSet(c))  BY <1>2
<1>4. PICK k \in Nat : \A i \in DOMAIN a : a[i].request_id = IF i = k THEN m ELSE 0
  BY DEF Reply
<1>5. PICK l \in Nat : \A i \in DOMAIN b : b[i].request_id = IF i = l THEN n ELSE 0
  BY DEF Reply
<1>6. CASE m = 0
  <2>1. \A i \in DOMAIN c : c[i].request_id = IF i = Len(a) + l /\ l # 0 THEN n ELSE 0
    <3> SUFFICES ASSUME NEW i \in DOMAIN c
                 PROVE  c[i].request_id = IF i = Len(a) + l /\ l # 0 THEN n ELSE 0
      OBVIOUS
    <3>1. CASE i \in DOMAIN a /\ c[i] = a[i] /\ i <= Len(a)
      <4>1. ~(i = Len(a) + l /\ l # 0)  BY <1>2, <3>1
      <4> QED  BY <1>4, <1>6, <3>1, <4>1
    <3>2. CASE i - Len(a) \in DOMAIN b /\ c[i] = b[i - Len(a)] /\ i > Len(a)
      <4>1. i - Len(a) = l <=> i = Len(a) + l /\ l # 0  BY <1>2, <3>2
      <4> QED  BY <1>5, <3>2, <4>1
    <3> QED  BY <1>2, <3>1, <3>2
  <2>2. CASE l = 0
    <3>1. \A i \in DOMAIN c : i # 0
      <4>1. DOMAIN c = 1 .. Len(c)  BY <1>2
      <4> QED  BY <4>1
    <3>2. \A i \in DOMAIN c : c[i].request_id = IF i = 0 THEN n ELSE 0  BY <2>1, <2>2, <3>1
    <3> QED  BY <1>3, <1>6, <3>2 DEF Reply, c
  <2>3. CASE l # 0
    <3>1. Len(a) + l \in Nat  BY <1>2
    <3> QED  BY <1>3, <1>6, <2>1, <2>3, <3>1 DEF Reply, c
  <2> QED  BY <2>2, <2>3
<1>7. CASE m # 0 /\ n = 0
  <2>1. \A i \in DOMAIN c : c[i].request_id = IF i = k /\ k <= Len(a) THEN m ELSE 0
    <3> SUFFICES ASSUME NEW i \in DOMAIN c
                 PROVE  c[i].request_id = IF i = k /\ k <= Len(a) THEN m ELSE 0
      OBVIOUS
    <3>1. CASE i \in DOMAIN a /\ c[i] = a[i] /\ i <= Len(a)  BY <1>4, <3>1
    <3>2. CASE i - Len(a) \in DOMAIN b /\ c[i] = b[i - Len(a)] /\ i > Len(a)
      <4>1. ~(i = k /\ k <= Len(a))  BY <1>2, <3>2
      <4> QED  BY <1>5, <1>7, <3>2, <4>1
    <3> QED  BY <1>2, <3>1, <3>2
  <2>2. CASE k <= Len(a)  BY <1>3, <1>7, <2>1, <2>2 DEF Reply, c
  <2>3. CASE ~(k <= Len(a))
    <3>1. \A i \in DOMAIN c : i # 0
      <4>1. DOMAIN c = 1 .. Len(c)  BY <1>2
      <4> QED  BY <4>1
    <3>2. \A i \in DOMAIN c : c[i].request_id = IF i = 0 THEN m ELSE 0  BY <2>1, <2>3, <3>1
    <3> QED  BY <1>3, <1>7, <3>2 DEF Reply, c
  <2> QED  BY <2>2, <2>3
<1> QED  BY <1>6, <1>7

LEMMA ReplyOne ==
    /\ \A n : Reply(<<>>, n)
    /\ \A m : Reply(<<m>>, m.request_id)
<1>1. ASSUME NEW n PROVE Reply(<<>>, n)
  BY DEF Reply, ToSet
<1>2. ASSUME NEW m PROVE Reply(<<m>>, m.request_id)
  <2>1. ToSet(<<m>>) = {m} /\ <<m>> \in Seq({m})  BY DEF ToSet
  <2>2. \A i \in DOMAIN <<m>> : i = 1 /\ <<m>>[i] = m  OBVIOUS
  <2> QED  BY <2>1, <2>2 DEF Reply
<1> QED  BY <1>1, <1>2

LEMMA ReplyPair ==
    ASSUME NEW a, NEW b, b.request_id = 0
    PROVE  Reply(<<a, b>>, a.request_id)
<1>1. ToSet(<<a, b>>) = {a, b}  BY DEF ToSet
<1>2. <<a, b>> \in Seq({a, b})  OBVIOUS
<1>3. \A i \in DOMAIN <<a, b>> : \/ i = 1 /\ <<a, b>>[i] = a
                                 \/ i = 2 /\ <<a, b>>[i] = b
  OBVIOUS
<1>4. \A i \in DOMAIN <<a, b>> : <<a, b>>[i].request_id = IF i = 1 THEN a.request_id ELSE 0
  BY <1>3
<1> QED  BY <1>1, <1>2, <1>4 DEF Reply

LEMMA StreamReplies ==
    /\ \A sid, n : Replies(NoMessages, sid, n)
    /\ \A sid, n, ps : Reply(ps, n) => Replies(To(sid, ps), sid, n)
    /\ \A sid, members, p : p.request_id = 0 => Replies(ToAll(members, p), sid, 0)
<1>1. \A sid, n : Replies(NoMessages, sid, n)  BY ReplyOne DEF Replies, NoMessages
<1>2. \A sid, n, ps : Reply(ps, n) => Replies(To(sid, ps), sid, n)
  BY ReplyOne DEF Replies, To
<1>3. \A sid, members, p : p.request_id = 0 => Replies(ToAll(members, p), sid, 0)
  BY ReplyOne DEF Replies, ToAll
<1> QED  BY <1>1, <1>2, <1>3

LEMMA RepliesThen ==
    ASSUME NEW a, NEW b, NEW sid, NEW n
    PROVE  /\ Replies(a, sid, 0) /\ Replies(b, sid, n) => Replies(Then(a, b), sid, n)
           /\ Replies(a, sid, n) /\ Replies(b, sid, 0) => Replies(Then(a, b), sid, n)
<1>1. ASSUME NEW m1, NEW m2, m1 = 0 \/ m2 = 0, NEW t \in SessionIds,
             Replies(a, sid, m1), Replies(b, sid, m2)
      PROVE  Reply(Then(a, b)[t], IF t = sid THEN IF m1 = 0 THEN m2 ELSE m1 ELSE 0)
  <2>1. Then(a, b)[t] = a[t] \o b[t]  BY DEF Then
  <2>2. CASE t = sid
    <3>1. Reply(a[t], m1) /\ Reply(b[t], m2)  BY <1>1, <2>2 DEF Replies
    <3>2. Reply(a[t] \o b[t], IF m1 = 0 THEN m2 ELSE m1)  BY <1>1, <3>1, ReplyConcat
    <3> QED  BY <2>1, <2>2, <3>2
  <2>3. CASE t # sid
    <3>1. Reply(a[t], 0) /\ Reply(b[t], 0)  BY <1>1, <2>3 DEF Replies
    <3>2. Reply(a[t] \o b[t], 0)  BY <3>1, ReplyConcat
    <3> QED  BY <2>1, <2>3, <3>2
  <2> QED  BY <2>2, <2>3
<1>2. ASSUME Replies(a, sid, 0), Replies(b, sid, n), NEW t \in SessionIds
      PROVE  Reply(Then(a, b)[t], IF t = sid THEN n ELSE 0)
  BY <1>1, <1>2
<1>3. ASSUME Replies(a, sid, n), Replies(b, sid, 0), NEW t \in SessionIds
      PROVE  Reply(Then(a, b)[t], IF t = sid THEN n ELSE 0)
  <2>1. CASE n = 0  BY <1>1, <1>3, <2>1
  <2>2. CASE n # 0  BY <1>1, <1>3, <2>2
  <2> QED  BY <2>1, <2>2
<1> QED  BY <1>2, <1>3 DEF Replies

\* NotifyRoomLeave sends events only.
LEMMA NotifyReplies == \A rs, sid : Replies(NotifyRoomLeave(rs, sid), sid, 0)
<1> SUFFICES ASSUME NEW rs, NEW sid PROVE Replies(NotifyRoomLeave(rs, sid), sid, 0)
  OBVIOUS
<1> DEFINE m == UserLeftEvent(rs.sessions[sid].room_id, BuildUserInfo(rs, sid))
           members == GetRoomMembers(rs, rs.sessions[sid].room_id, {sid})
<1>1. m.request_id = 0  BY DEF UserLeftEvent
<1>2. NotifyRoomLeave(rs, sid) = NoMessages \/ NotifyRoomLeave(rs, sid) = ToAll(members, m)
  BY DEF NotifyRoomLeave
<1> HIDE DEF m, members
<1> QED  BY <1>1, <1>2, StreamReplies

\* EnterRoom answers once; the greeting and the introductions are events.
LEMMA EnterRoomReplies ==
    ASSUME IInv, NEW e, e.session_id \in SessionIds, EnterRoom(e)
    PROVE  \E ms : Queue(ms) /\ Replies(ms, e.session_id, e.request_id)
<1> DEFINE sid      == e.session_id
           rid      == e.room_id
           left     == RemoveSessionFromCurrentRoom(room_system, sid)
           existing == {t \in GetRoomMembers(left, rid, {}) : left.sessions[t].logged_in}
           moved    == MoveSessionToRoom(left, sid, rid)
           response == JoinRoomResponse(e.request_id, TRUE, "NONE", BuildRoomInfo(moved, rid))
           welcome  == SystemMessageEvent(rid)
           joined(rs, t) == UserJoinedEvent(rid, BuildUserInfo(rs, t))
           roll(order) == [i \in DOMAIN order |-> joined(left, order[i])]
<1>1. PICK order \in SetToSeqs(existing) :
         Queue(Then(NotifyRoomLeave(room_system, sid),
               Then(To(sid, <<response, welcome>> \o roll(order)),
                    ToAll(existing, joined(moved, sid)))))
  BY DEF EnterRoom
<1>2. Cardinality(existing) \in Nat
  <2>1. existing \subseteq DOMAIN left.sessions  BY DEF GetRoomMembers, FindSession
  <2>2. DOMAIN left.sessions \subseteq SessionIds
    BY RemoveFromRoomCoherent DEF IInv, Coherent, IsRoomSystem
  <2>3. existing \in SUBSET SessionIds  BY <2>1, <2>2
  <2> QED  BY <2>3, FS_Subset, FS_CardinalityType, RoomSystemAssumption
<1> HIDE DEF existing, left, moved
<1>3. order \in [1 .. Cardinality(existing) -> existing]  BY DEF SetToSeqs
<1>4. /\ response.request_id = e.request_id /\ welcome.request_id = 0
      /\ \A rs, t : joined(rs, t).request_id = 0
  BY DEF JoinRoomResponse, SystemMessageEvent, UserJoinedEvent
<1> HIDE DEF response, welcome, joined
<1>5. Reply(roll(order), 0)
  <2>1. DOMAIN roll(order) = 1 .. Cardinality(existing)
        /\ \A i \in DOMAIN roll(order) : roll(order)[i].request_id = 0
    BY <1>3, <1>4
  <2>2. roll(order) \in [1 .. Cardinality(existing) -> ToSet(roll(order))]
    BY <1>3 DEF ToSet
  <2> HIDE DEF roll
  <2>3. roll(order) \in Seq(ToSet(roll(order)))  BY <1>2, <2>2
  <2> QED  BY <2>1, <2>3 DEF Reply
<1>6. Reply(<<response, welcome>>, e.request_id)  BY <1>4, ReplyPair
<1> DEFINE greeting == <<response, welcome>>
<1> HIDE DEF roll, greeting
<1>7. Reply(greeting \o roll(order), e.request_id)
  <2>1. Reply(greeting, e.request_id)  BY <1>6 DEF greeting
  <2>2. CASE e.request_id = 0  BY <1>5, <2>1, <2>2, ReplyConcat
  <2>3. CASE e.request_id # 0  BY <1>5, <2>1, <2>3, ReplyConcat
  <2> QED  BY <2>2, <2>3
<1>8. Replies(To(sid, greeting \o roll(order)), sid, e.request_id)  BY <1>7, StreamReplies
<1>9. Replies(ToAll(existing, joined(moved, sid)), sid, 0)  BY <1>4, StreamReplies
<1>10. Replies(NotifyRoomLeave(room_system, sid), sid, 0)  BY NotifyReplies
<1>11. Replies(Then(NotifyRoomLeave(room_system, sid),
                    Then(To(sid, greeting \o roll(order)), ToAll(existing, joined(moved, sid)))),
               sid, e.request_id)
  BY <1>8, <1>9, <1>10, RepliesThen
<1> QED  BY <1>1, <1>11 DEF greeting

\* Every handler answers its event at most once, and nobody else.
LEMMA HandleReplies ==
    ASSUME IInv, NEW e \in ServerEvent, Handle(e)
    PROVE  \/ outgoing_messages' = outgoing_messages
           \/ \E ms : Queue(ms) /\ Replies(ms, e.session_id, IdOf(e))
<1> DEFINE sid == e.session_id
           Goal == \/ outgoing_messages' = outgoing_messages
                   \/ \E ms : Queue(ms) /\ Replies(ms, sid, IdOf(e))
<1>0. sid \in SessionIds  BY EventFields
<1>1. ASSUME NEW m, Queue(To(sid, <<m>>)), m.request_id = IdOf(e) PROVE Goal
  <2>1. Reply(<<m>>, IdOf(e))  BY <1>1, ReplyOne
  <2>2. Replies(To(sid, <<m>>), sid, IdOf(e))  BY <2>1, StreamReplies
  <2> QED  BY <1>1, <2>2
<1>2. ASSUME NEW r, Queue(To(sid, <<SystemMessageEvent(r)>>)) PROVE Goal
  <2> DEFINE m == SystemMessageEvent(r)
  <2>1. m.request_id = 0  BY DEF SystemMessageEvent
  <2>2. To(sid, <<m>>) = ToAll({sid}, m)  BY DEF To, ToAll
  <2> HIDE DEF m
  <2>3. \A n : Replies(ToAll({sid}, m), sid, n) <=> Reply(<<m>>, n)
    <3> SUFFICES ASSUME NEW n PROVE Replies(ToAll({sid}, m), sid, n) <=> Reply(<<m>>, n)
      OBVIOUS
    <3>1. \A t \in SessionIds : ToAll({sid}, m)[t] = IF t = sid THEN <<m>> ELSE <<>>
      BY DEF ToAll
    <3> QED  BY <1>0, <3>1, ReplyOne DEF Replies
  <2>4. Reply(<<m>>, 0)  BY <2>1, ReplyOne
  <2>5. \A n : Reply(<<m>>, n)
    <3>1. \A i \in DOMAIN <<m>> : i # 0 /\ <<m>>[i].request_id = 0  BY <2>1
    <3> QED  BY <2>4, <3>1 DEF Reply
  <2> QED  BY <1>2, <2>2, <2>3, <2>5 DEF m
<1>3. CASE e.type = "Connected" /\ HandleSessionConnected(e)
  BY <1>3 DEF HandleSessionConnected
<1>4. CASE e.type = "Disconnected" /\ HandleSessionDisconnected(e)
  <2>1. IdOf(e) = 0  BY <1>4 DEF IdOf
  <2> QED  BY <1>4, <2>1, NotifyReplies DEF HandleSessionDisconnected
<1>5. CASE e.type = "InvalidPacket" /\ HandleInvalidPacket(e)
  BY <1>2, <1>5 DEF HandleInvalidPacket
<1>6. CASE e.type = "LoginRequest" /\ HandleLoginRequest(e)
  <2>1. IdOf(e) = e.request_id  BY <1>6 DEF IdOf
  <2>2. CASE UNCHANGED logicVars  BY <2>2 DEF logicVars
  <2>3. ASSUME NEW ok, NEW code, NEW user,
               Queue(To(sid, <<LoginResponse(e.request_id, ok, code, user)>>))
        PROVE  Goal
    BY <1>1, <2>1, <2>3 DEF LoginResponse
  <2> QED  BY <1>6, <2>2, <2>3 DEF HandleLoginRequest, RefuseLogin, AcceptLogin
<1>7. CASE e.type = "RoomListRequest" /\ HandleRoomListRequest(e)
  <2>1. IdOf(e) = e.request_id  BY <1>7 DEF IdOf
  <2>2. ASSUME NEW rooms, Queue(To(sid, <<RoomListResponse(e.request_id, rooms)>>))
        PROVE  Goal
    BY <1>1, <2>1, <2>2 DEF RoomListResponse
  <2> QED  BY <1>7, <2>2 DEF HandleRoomListRequest
<1>8. CASE e.type = "JoinRoomRequest" /\ HandleJoinRoomRequest(e)
  <2>1. IdOf(e) = e.request_id  BY <1>8 DEF IdOf
  <2>2. CASE UNCHANGED logicVars  BY <2>2 DEF logicVars
  <2>3. ASSUME NEW code, RefuseJoin(e, code) PROVE Goal
    BY <1>1, <2>1, <2>3 DEF RefuseJoin, JoinRoomResponse
  <2>4. CASE EnterRoom(e)  BY <1>0, <2>1, <2>4, EnterRoomReplies
  <2> QED  BY <1>8, <2>2, <2>3, <2>4 DEF HandleJoinRoomRequest
<1>9. CASE e.type = "ChatSendRequest" /\ HandleChatSendRequest(e)
  <2>1. CASE UNCHANGED logicVars  BY <2>1 DEF logicVars
  <2>2. ASSUME NEW members, NEW r, NEW u, NEW c,
               Queue(ToAll(members, ChatBroadcast(r, u, c)))
        PROVE  Goal
    <3> DEFINE m == ChatBroadcast(r, u, c)
    <3>1. m.request_id = 0  BY DEF ChatBroadcast
    <3> HIDE DEF m
    <3>2. \A n : Reply(<<m>>, n)
      <4>1. \A i \in DOMAIN <<m>> : i # 0 /\ <<m>>[i].request_id = 0  BY <3>1
      <4>2. Reply(<<m>>, 0)  BY <3>1, ReplyOne
      <4> QED  BY <4>1, <4>2 DEF Reply
    <3>3. Replies(ToAll(members, m), sid, IdOf(e))  BY <3>2, ReplyOne DEF Replies, ToAll
    <3> QED  BY <2>2, <3>3 DEF m
  <2> QED  BY <1>2, <1>9, <2>1, <2>2 DEF HandleChatSendRequest
<1>10. CASE e.type = "LeaveRoomRequest" /\ HandleLeaveRoomRequest(e)
  <2> DEFINE told == NotifyRoomLeave(room_system, sid)
  <2>1. IdOf(e) = e.request_id  BY <1>10 DEF IdOf
  <2>2. CASE UNCHANGED logicVars  BY <2>2 DEF logicVars
  <2>3. ASSUME NEW ok, NEW code,
               Queue(To(sid, <<LeaveRoomResponse(e.request_id, ok, code)>>))
        PROVE  Goal
    BY <1>1, <2>1, <2>3 DEF LeaveRoomResponse
  <2>4. ASSUME NEW r, Queue(Then(told, To(sid, <<LeaveRoomResponse(e.request_id, TRUE, "NONE"),
                                                SystemMessageEvent(r)>>)))
        PROVE  Goal
    <3> DEFINE response == LeaveRoomResponse(e.request_id, TRUE, "NONE")
               notice == SystemMessageEvent(r)
    <3>1. response.request_id = e.request_id /\ notice.request_id = 0
      BY DEF LeaveRoomResponse, SystemMessageEvent
    <3> HIDE DEF response, notice
    <3>2. Reply(<<response, notice>>, e.request_id)  BY <3>1, ReplyPair
    <3>3. Replies(To(sid, <<response, notice>>), sid, e.request_id)  BY <3>2, StreamReplies
    <3>4. Replies(Then(told, To(sid, <<response, notice>>)), sid, e.request_id)
      BY <3>3, NotifyReplies, RepliesThen
    <3> QED  BY <2>1, <2>4, <3>4 DEF response, notice
  <2> QED  BY <1>10, <2>2, <2>3, <2>4 DEF HandleLeaveRoomRequest
<1>11. CASE e.type = "DisconnectRequest" /\ HandleDisconnectRequest(e)
  <2> DEFINE told == NotifyRoomLeave(room_system, sid)
             response == DisconnectResponse(e.request_id)
  <2>1. IdOf(e) = e.request_id /\ response.request_id = e.request_id
    BY <1>11 DEF IdOf, DisconnectResponse
  <2>2. Queue(To(sid, <<response>>)) \/ Queue(Then(To(sid, <<response>>), told))
    BY <1>11 DEF HandleDisconnectRequest
  <2> HIDE DEF response
  <2>3. Reply(<<response>>, e.request_id)  BY <2>1, ReplyOne
  <2>4. Replies(To(sid, <<response>>), sid, e.request_id)  BY <2>3, StreamReplies
  <2>5. Replies(Then(To(sid, <<response>>), told), sid, e.request_id)
    BY <2>4, NotifyReplies, RepliesThen
  <2> QED  BY <2>1, <2>2, <2>4, <2>5
<1> HIDE DEF Goal
<1> QED  BY <1>3, <1>4, <1>5, <1>6, <1>7, <1>8, <1>9, <1>10, <1>11 DEF Handle, Goal

-----------------------------------------------------------------------------
(* Responses follow requests.                                              *)

LEMMA SameIds ==
    ASSUME NEW a \in Seq(Nat), NEW b \in Seq(Nat), DOMAIN a = DOMAIN b,
           \A i \in DOMAIN a : a[i] = b[i]
    PROVE  a = b
<1>1. /\ Len(a) \in Nat /\ Len(b) \in Nat /\ DOMAIN a = 1 .. Len(a) /\ DOMAIN b = 1 .. Len(b)
      /\ a = [i \in DOMAIN a |-> a[i]] /\ b = [i \in DOMAIN b |-> b[i]]
  OBVIOUS
<1> QED  BY <1>1

LEMMA IdTypes ==
    /\ \A e \in ServerEvent : \A s : EventId(e, s) \in Nat
    /\ \A p \in Packet : \A s : PacketId(p, s) \in Nat
<1>1. RequestIds \subseteq Nat  BY GameLogicAssumption
<1>2. ASSUME NEW e \in ServerEvent, NEW s PROVE EventId(e, s) \in Nat
  <2>1. IdOf(e) \in Nat
    <3>1. CASE e.type \in {"Connected", "Disconnected", "InvalidPacket"}  BY <3>1 DEF IdOf
    <3>2. CASE e.type \notin {"Connected", "Disconnected", "InvalidPacket"}
      <4>1. e.request_id \in RequestIds  BY <3>2, EventFields
      <4>2. IdOf(e) = e.request_id  BY <3>2 DEF IdOf
      <4> QED  BY <1>1, <4>1, <4>2
    <3> QED  BY <3>1, <3>2
  <2> QED  BY <2>1 DEF EventId
<1>3. ASSUME NEW p \in Packet, NEW s PROVE PacketId(p, s) \in Nat
  <2>1. CASE p.type = "Data"
    <3>1. p.request_id \in RequestIds  BY <2>1, PacketCases, ConnectPackets
    <3>2. p.request_id \in Nat  BY <1>1, <3>1
    <3> QED  BY <3>2 DEF PacketId
  <2>2. CASE p.type # "Data"  BY <2>2 DEF PacketId
  <2> QED  BY <2>1, <2>2
<1> QED  BY <1>2, <1>3

LEMMA EventIdsType ==
    ASSUME NEW q \in Seq(ServerEvent), NEW s
    PROVE  EventIds(q, s) \in Seq(Nat) /\ DOMAIN EventIds(q, s) = DOMAIN q
<1>1. /\ DOMAIN q = 1 .. Len(q) /\ Len(q) \in Nat /\ \A i \in DOMAIN q : q[i] \in ServerEvent
  OBVIOUS
<1>2. \A i \in 1 .. Len(q) : EventId(q[i], s) \in Nat  BY <1>1, IdTypes
<1>3. EventIds(q, s) \in [1 .. Len(q) -> Nat]  BY <1>1, <1>2 DEF EventIds
<1> QED  BY <1>1, <1>3

LEMMA PacketIdsType ==
    ASSUME NEW q \in Seq(Packet), NEW s
    PROVE  PacketIds(q, s) \in Seq(Nat) /\ DOMAIN PacketIds(q, s) = DOMAIN q
<1>1. /\ DOMAIN q = 1 .. Len(q) /\ Len(q) \in Nat /\ \A i \in DOMAIN q : q[i] \in Packet
  OBVIOUS
<1>2. \A i \in 1 .. Len(q) : PacketId(q[i], s) \in Nat  BY <1>1, IdTypes
<1>3. PacketIds(q, s) \in [1 .. Len(q) -> Nat]  BY <1>1, <1>2 DEF PacketIds
<1> QED  BY <1>1, <1>3

\* The ids of a sequence to which one more is appended, or whose first is
\* taken.
LEMMA AppendedIds ==
    ASSUME NEW S, NEW q \in Seq(S), NEW x \in S, NEW a \in Seq(Nat), NEW b \in Seq(Nat),
           NEW n \in Nat, DOMAIN a = DOMAIN q, DOMAIN b = DOMAIN Append(q, x),
           \A i \in DOMAIN q : b[i] = a[i], b[Len(q) + 1] = n
    PROVE  b = Append(a, n)
<1>1. /\ DOMAIN q = 1 .. Len(q) /\ Len(q) \in Nat /\ DOMAIN a = 1 .. Len(a) /\ Len(a) \in Nat
      /\ DOMAIN Append(q, x) = 1 .. Len(q) + 1
  OBVIOUS
<1>2. Len(a) = Len(q)  BY <1>1
<1>3. /\ Append(a, n) \in Seq(Nat) /\ DOMAIN Append(a, n) = 1 .. Len(a) + 1
      /\ \A i \in 1 .. Len(a) : Append(a, n)[i] = a[i]
      /\ Append(a, n)[Len(a) + 1] = n
  OBVIOUS
<1>4. \A i \in 1 .. Len(a) + 1 : i \in 1 .. Len(a) \/ i = Len(a) + 1  BY <1>1
<1> QED  BY <1>1, <1>2, <1>3, <1>4, SameIds

LEMMA TakenIds ==
    ASSUME NEW S, NEW q \in Seq(S), q # <<>>, NEW a \in Seq(Nat), NEW b \in Seq(Nat),
           DOMAIN a = DOMAIN q, DOMAIN b = DOMAIN Tail(q),
           \A i \in DOMAIN b : b[i] = a[i + 1]
    PROVE  a # <<>> /\ Head(a) = a[1] /\ b = Tail(a)
<1>1. /\ DOMAIN q = 1 .. Len(q) /\ Len(q) \in Nat /\ DOMAIN a = 1 .. Len(a) /\ Len(a) \in Nat
      /\ DOMAIN Tail(q) = 1 .. Len(q) - 1 /\ Len(q) > 0
  OBVIOUS
<1>2. Len(a) = Len(q)  BY <1>1
<1>3. a # <<>>  BY <1>1, <1>2
<1>4. /\ Tail(a) \in Seq(Nat) /\ DOMAIN Tail(a) = 1 .. Len(a) - 1
      /\ \A i \in 1 .. Len(a) - 1 : Tail(a)[i] = a[i + 1]
      /\ Head(a) = a[1]
  BY <1>3
<1> QED  BY <1>1, <1>2, <1>3, <1>4, SameIds

LEMMA EventIdsAppend ==
    ASSUME NEW q \in Seq(ServerEvent), NEW e \in ServerEvent, NEW s
    PROVE  EventIds(Append(q, e), s) = Append(EventIds(q, s), EventId(e, s))
<1> DEFINE a == EventIds(q, s)
           b == EventIds(Append(q, e), s)
<1>1. a \in Seq(Nat) /\ DOMAIN a = DOMAIN q  BY EventIdsType
<1>2. Append(q, e) \in Seq(ServerEvent)  OBVIOUS
<1>3. b \in Seq(Nat) /\ DOMAIN b = DOMAIN Append(q, e)  BY <1>2, EventIdsType
<1>4. EventId(e, s) \in Nat  BY IdTypes
<1>5. /\ \A i \in DOMAIN q : i \in DOMAIN Append(q, e) /\ Append(q, e)[i] = q[i]
      /\ Len(q) + 1 \in DOMAIN Append(q, e) /\ Append(q, e)[Len(q) + 1] = e
  OBVIOUS
<1>6. /\ \A i \in DOMAIN q : b[i] = a[i]
      /\ b[Len(q) + 1] = EventId(e, s)
  BY <1>5 DEF EventIds
<1> HIDE DEF a, b
<1>7. b = Append(a, EventId(e, s))  BY <1>1, <1>3, <1>4, <1>6, AppendedIds
<1> QED  BY <1>7 DEF a, b

LEMMA EventIdsTail ==
    ASSUME NEW q \in Seq(ServerEvent), q # <<>>, NEW s
    PROVE  /\ EventIds(q, s) # <<>> /\ Head(EventIds(q, s)) = EventId(Head(q), s)
           /\ EventIds(Tail(q), s) = Tail(EventIds(q, s))
<1> DEFINE a == EventIds(q, s)
           b == EventIds(Tail(q), s)
<1>1. a \in Seq(Nat) /\ DOMAIN a = DOMAIN q  BY EventIdsType
<1>2. Tail(q) \in Seq(ServerEvent)  OBVIOUS
<1>3. b \in Seq(Nat) /\ DOMAIN b = DOMAIN Tail(q)  BY <1>2, EventIdsType
<1>4. /\ \A i \in DOMAIN Tail(q) : i + 1 \in DOMAIN q /\ Tail(q)[i] = q[i + 1]
      /\ 1 \in DOMAIN q /\ Head(q) = q[1]
  OBVIOUS
<1>5. /\ \A i \in DOMAIN Tail(q) : b[i] = a[i + 1]
      /\ a[1] = EventId(Head(q), s)
  BY <1>4 DEF EventIds
<1> HIDE DEF a, b
<1>6. a # <<>> /\ Head(a) = a[1] /\ b = Tail(a)  BY <1>1, <1>3, <1>5, TakenIds
<1> QED  BY <1>5, <1>6 DEF a, b

LEMMA PacketIdsAppend ==
    ASSUME NEW q \in Seq(Packet), NEW p \in Packet, NEW s
    PROVE  PacketIds(Append(q, p), s) = Append(PacketIds(q, s), PacketId(p, s))
<1> DEFINE a == PacketIds(q, s)
           b == PacketIds(Append(q, p), s)
<1>1. a \in Seq(Nat) /\ DOMAIN a = DOMAIN q  BY PacketIdsType
<1>2. Append(q, p) \in Seq(Packet)  OBVIOUS
<1>3. b \in Seq(Nat) /\ DOMAIN b = DOMAIN Append(q, p)  BY <1>2, PacketIdsType
<1>4. PacketId(p, s) \in Nat  BY IdTypes
<1>5. /\ \A i \in DOMAIN q : i \in DOMAIN Append(q, p) /\ Append(q, p)[i] = q[i]
      /\ Len(q) + 1 \in DOMAIN Append(q, p) /\ Append(q, p)[Len(q) + 1] = p
  OBVIOUS
<1>6. /\ \A i \in DOMAIN q : b[i] = a[i]
      /\ b[Len(q) + 1] = PacketId(p, s)
  BY <1>5 DEF PacketIds
<1> HIDE DEF a, b
<1>7. b = Append(a, PacketId(p, s))  BY <1>1, <1>3, <1>4, <1>6, AppendedIds
<1> QED  BY <1>7 DEF a, b

LEMMA PacketIdsTail ==
    ASSUME NEW q \in Seq(Packet), q # <<>>, NEW s
    PROVE  /\ PacketIds(q, s) # <<>> /\ Head(PacketIds(q, s)) = PacketId(Head(q), s)
           /\ PacketIds(Tail(q), s) = Tail(PacketIds(q, s))
<1> DEFINE a == PacketIds(q, s)
           b == PacketIds(Tail(q), s)
<1>1. a \in Seq(Nat) /\ DOMAIN a = DOMAIN q  BY PacketIdsType
<1>2. Tail(q) \in Seq(Packet)  OBVIOUS
<1>3. b \in Seq(Nat) /\ DOMAIN b = DOMAIN Tail(q)  BY <1>2, PacketIdsType
<1>4. /\ \A i \in DOMAIN Tail(q) : i + 1 \in DOMAIN q /\ Tail(q)[i] = q[i + 1]
      /\ 1 \in DOMAIN q /\ Head(q) = q[1]
  OBVIOUS
<1>5. /\ \A i \in DOMAIN Tail(q) : b[i] = a[i + 1]
      /\ a[1] = PacketId(Head(q), s)
  BY <1>4 DEF PacketIds
<1> HIDE DEF a, b
<1>6. a # <<>> /\ Head(a) = a[1] /\ b = Tail(a)  BY <1>1, <1>3, <1>5, TakenIds
<1> QED  BY <1>5, <1>6 DEF a, b

LEMMA IdsConcat ==
    ASSUME NEW S, NEW a \in Seq(S), NEW b \in Seq(S), Ids(a) \in Seq(Nat), Ids(b) \in Seq(Nat)
    PROVE  Ids(a \o b) = Ids(a) \o Ids(b)
<1> DEFINE c == a \o b
           d == Ids(a) \o Ids(b)
<1>1. /\ DOMAIN a = 1 .. Len(a) /\ DOMAIN b = 1 .. Len(b) /\ Len(a) \in Nat /\ Len(b) \in Nat
      /\ DOMAIN c = 1 .. Len(a) + Len(b)
      /\ \A i \in 1 .. Len(a) : c[i] = a[i]
      /\ \A j \in 1 .. Len(b) : c[Len(a) + j] = b[j]
  OBVIOUS
<1>2. Len(Ids(a)) = Len(a) /\ Len(Ids(b)) = Len(b)
  <2>1. DOMAIN Ids(a) = 1 .. Len(a) /\ DOMAIN Ids(b) = 1 .. Len(b)  BY <1>1 DEF Ids
  <2>2. /\ DOMAIN Ids(a) = 1 .. Len(Ids(a)) /\ DOMAIN Ids(b) = 1 .. Len(Ids(b))
        /\ Len(Ids(a)) \in Nat /\ Len(Ids(b)) \in Nat
    OBVIOUS
  <2> QED  BY <1>1, <2>1, <2>2
<1>3. /\ d \in Seq(Nat) /\ DOMAIN d = 1 .. Len(a) + Len(b)
      /\ \A i \in 1 .. Len(a) : d[i] = Ids(a)[i]
      /\ \A j \in 1 .. Len(b) : d[Len(a) + j] = Ids(b)[j]
  <2> DEFINE x == Ids(a)
             y == Ids(b)
  <2>1. x \in Seq(Nat) /\ y \in Seq(Nat)  OBVIOUS
  <2> HIDE DEF x, y
  <2>2. /\ x \o y \in Seq(Nat) /\ DOMAIN (x \o y) = 1 .. Len(x) + Len(y)
        /\ \A i \in 1 .. Len(x) : (x \o y)[i] = x[i]
        /\ \A j \in 1 .. Len(y) : (x \o y)[Len(x) + j] = y[j]
    BY <2>1
  <2> QED  BY <1>2, <2>2 DEF x, y
<1> HIDE DEF c, d
<1>4. /\ DOMAIN Ids(c) = 1 .. Len(a) + Len(b)
      /\ \A i \in 1 .. Len(a) + Len(b) : Ids(c)[i] = c[i].request_id
      /\ \A i \in 1 .. Len(a) : Ids(a)[i] = a[i].request_id
      /\ \A j \in 1 .. Len(b) : Ids(b)[j] = b[j].request_id
  BY <1>1 DEF Ids
<1>5. \A i \in 1 .. Len(a) + Len(b) : Ids(c)[i] = d[i]
  <2> TAKE i \in 1 .. Len(a) + Len(b)
  <2>1. CASE i <= Len(a)
    <3>1. i \in 1 .. Len(a)  BY <1>1, <2>1
    <3> QED  BY <1>1, <1>3, <1>4, <3>1
  <2>2. CASE i > Len(a)
    <3>1. i - Len(a) \in 1 .. Len(b) /\ i = Len(a) + (i - Len(a))  BY <1>1, <2>2
    <3>2. c[i] = b[i - Len(a)] /\ d[i] = Ids(b)[i - Len(a)]  BY <1>1, <1>3, <3>1
    <3> QED  BY <1>4, <3>1, <3>2
  <2> QED  BY <1>1, <2>1, <2>2
<1>6. Ids(c) \in Seq(Nat)
  <2>1. \A i \in 1 .. Len(a) + Len(b) : d[i] \in Nat  BY <1>3
  <2>2. Ids(c) \in [1 .. Len(a) + Len(b) -> Nat]  BY <1>4, <1>5, <2>1 DEF Ids
  <2>3. Len(a) + Len(b) \in Nat  BY <1>1
  <2>4. \A N \in Nat : \A g \in [1 .. N -> Nat] : g \in Seq(Nat)  OBVIOUS
  <2> QED  BY <2>2, <2>3, <2>4, Zenon
<1>7. Ids(c) = d  BY <1>3, <1>4, <1>5, <1>6, SameIds
<1> QED  BY <1>7 DEF c, d

\* The ids of a Reply, and ids to which they have been appended.
Carries(ids, n) == \E k \in Nat : \A i \in DOMAIN ids : ids[i] = IF i = k THEN n ELSE 0
Extended(new, old, n) == \E r \in Seq(Nat) : new = old \o r /\ Carries(r, n)

\* What a handler queues for s, as ids.
LEMMA QueuedIds ==
    ASSUME IInv, NEW ms, Queue(ms), NEW sid, NEW n, Replies(ms, sid, n),
           NEW s \in SessionIds, NEW h \in Nat, h = IF s = sid THEN n ELSE 0
    PROVE  Extended(Ids(outgoing_messages'[s]), Ids(outgoing_messages[s]), h)
<1> DEFINE a == outgoing_messages[s]
           b == ms[s]
           S == Payload \cup ToSet(b)
<1>1. a \in Seq(Payload)  BY DEF IInv
<1>2. Ids(a) \in Seq(Nat)  BY <1>1, PayloadIds
<1>3. b \in Seq(ToSet(b))  BY DEF Replies, Reply
<1>4. PICK k \in Nat : \A i \in DOMAIN b : b[i].request_id = IF i = k THEN h ELSE 0
  BY DEF Replies, Reply
<1>5. outgoing_messages'[s] = a \o b  BY DEF Queue, Then
<1> HIDE DEF b, a
<1>6. a \in Seq(S) /\ b \in Seq(S)
  <2> HIDE DEF Payload
  <2> QED  BY <1>1, <1>3
<1> HIDE DEF S
<1>8. /\ DOMAIN Ids(b) = DOMAIN b
      /\ \A i \in DOMAIN b : Ids(b)[i] = IF i = k THEN h ELSE 0
  BY <1>4 DEF Ids
<1>9. Ids(b) \in Seq(Nat)
  <2>1. DOMAIN b = 1 .. Len(b) /\ Len(b) \in Nat  BY <1>6
  <2>2. \A i \in DOMAIN b : Ids(b)[i] \in Nat  BY <1>8
  <2>3. Ids(b) \in [1 .. Len(b) -> Nat]  BY <1>8, <2>1, <2>2 DEF Ids
  <2> QED  BY <2>1, <2>3
<1>10. Ids(a \o b) = Ids(a) \o Ids(b)  BY <1>2, <1>6, <1>9, IdsConcat
<1>11. Carries(Ids(b), h)  BY <1>8 DEF Carries
<1> QED  BY <1>5, <1>9, <1>10, <1>11 DEF a, Extended

LEMMA IdsRiseStep ==
    ASSUME ServerTypeOK, AllIdsRise, [ServerNext]_serverVars
    PROVE  AllIdsRise'
<1> SUFFICES ASSUME NEW s \in SessionIds PROVE IdsRise(s)'
  BY DEF AllIdsRise
<1> DEFINE f == answered[s]
           q == Ids(outgoing_messages[s])
           d == EventIds(events, s)
           p == PacketIds(packet_queue, s)
           n == sent[s]
<1>1. InOrder(f, q, d, p, n)  BY DEF AllIdsRise, IdsRise
<1>2. packet_queue \in Seq(Packet) /\ events \in Seq(ServerEvent)
      /\ outgoing_messages[s] \in Seq(Payload) /\ IInv
  BY DEF ServerTypeOK, IInv
<1>3. f \in Seq(Nat) /\ n \in Nat  BY DEF ServerTypeOK
<1>4. q \in Seq(Nat) /\ d \in Seq(Nat) /\ p \in Seq(Nat)
  BY <1>2, PayloadIds, EventIdsType, PacketIdsType
<1>5. ASSUME NEW t \in SessionIds, NEW x, Pushes(t, x) PROVE IdsRise(s)'
  <2>1. /\ x \in Packet /\ x.session_id = t
        /\ packet_queue' = Append(packet_queue, x) \/ packet_queue' = packet_queue
        /\ s # t => sent'[s] = n
        /\ outgoing_messages' = outgoing_messages /\ events' = events /\ answered' = answered
    BY <1>5, PushCases DEF Pushes, logicVars
  <2>2. \/ PacketId(x, s) = 0 /\ sent'[s] = n
        \/ PacketId(x, s) = n + 1 /\ sent'[s] = n + 1
    <3>1. CASE s # t  BY <2>1, <3>1 DEF PacketId
    <3>2. CASE s = t /\ (x = Connect(t) \/ x = Disconnect(t))
      <4>1. x.type # "Data"  BY <3>2, ConnectPackets
      <4>2. sent' = sent  BY <1>5, <4>1 DEF Pushes, Data
      <4> QED  BY <4>1, <4>2 DEF PacketId
    <3>3. CASE s = t /\ x # Connect(t) /\ x # Disconnect(t)
      <4>1. /\ \E r \in Requests[s] : x = Data(s, r, sent[s] + 1)
            /\ sent' = [sent EXCEPT ![s] = @ + 1]
        BY <1>5, <3>3 DEF Pushes
      <4>2. x.type = "Data" /\ x.session_id = s /\ x.request_id = n + 1  BY <4>1 DEF Data
      <4>3. sent'[s] = n + 1  BY <4>1 DEF ServerTypeOK
      <4> QED  BY <4>2, <4>3 DEF PacketId
    <3> QED  BY <3>1, <3>2, <3>3
  <2>3. PacketIds(Append(packet_queue, x), s) = Append(p, PacketId(x, s))
    BY <1>2, <2>1, PacketIdsAppend
  <2> HIDE DEF f, q, d, p, n
  <2>4. /\ InOrder(f, q, d, Append(p, 0), n)
        /\ InOrder(f, q, d, Append(p, n + 1), n + 1)
        /\ InOrder(f, q, d, p, n + 1)
    BY <1>1, <1>3, <1>4, OrderPush
  <2>5. CASE packet_queue' = packet_queue
    <3>1. InOrder(f, q, d, p, sent'[s])  BY <1>1, <2>2, <2>4
    <3> QED  BY <2>1, <2>5, <3>1 DEF IdsRise, f, q, d, p
  <2>6. CASE packet_queue' = Append(packet_queue, x)
    <3>1. InOrder(f, q, d, Append(p, PacketId(x, s)), sent'[s])  BY <2>2, <2>4
    <3> QED  BY <2>1, <2>3, <2>6, <3>1 DEF IdsRise, f, q, d
  <2> QED  BY <2>1, <2>5, <2>6
<1>6. CASE Quiet  BY <1>1, <1>6 DEF Quiet, logicVars, IdsRise
<1>7. CASE PollPacket
  <2> DEFINE x == Head(packet_queue)
  <2>1. /\ packet_queue # <<>> /\ x \in Packet
        /\ packet_queue' = Tail(packet_queue)
        /\ \/ Decode(x) # <<>> /\ events' = Append(events, EventOf(x))
           \/ events' = events
        /\ outgoing_messages' = outgoing_messages /\ sent' = sent /\ answered' = answered
    BY <1>7, PollCases DEF logicVars
  <2>2. /\ p # <<>> /\ Head(p) = PacketId(x, s)
        /\ PacketIds(packet_queue', s) = Tail(p)
    BY <1>2, <2>1, PacketIdsTail
  <2>3. CASE Decode(x) # <<>> /\ events' = Append(events, EventOf(x))
    <3>1. /\ EventOf(x) \in ServerEvent /\ EventOf(x).session_id = x.session_id
          /\ x.type # "Data" => IdOf(EventOf(x)) = 0
          /\ x.type = "Data" => IdOf(EventOf(x)) \in {0, x.request_id}
      BY <2>1, <2>3, Decoded
    <3>2. EventIds(events', s) = Append(d, EventId(EventOf(x), s))
      BY <1>2, <2>3, <3>1, EventIdsAppend
    <3>3. EventId(EventOf(x), s) \in {0, PacketId(x, s)}  BY <3>1 DEF EventId, PacketId
    <3> HIDE DEF f, q, d, p, n, x
    <3>4. InOrder(f, q, Append(d, EventId(EventOf(x), s)), Tail(p), n)
      BY <1>1, <1>3, <1>4, <2>2, <3>3, OrderPoll
    <3> QED  BY <2>1, <2>2, <3>2, <3>4 DEF IdsRise, f, q, n
  <2>4. CASE events' = events
    <3> HIDE DEF f, q, d, p, n, x
    <3>1. InOrder(f, q, d, Tail(p), n)  BY <1>1, <1>3, <1>4, <2>2, OrderPassOver
    <3> QED  BY <2>1, <2>2, <2>4, <3>1 DEF IdsRise, f, q, d, n
  <2> QED  BY <2>1, <2>3, <2>4
<1>8. CASE Update
  <2> DEFINE e == Head(events)
  <2>1. /\ events # <<>> /\ e \in ServerEvent /\ Handle(e) /\ events' = Tail(events)
        /\ packet_queue' = packet_queue /\ sent' = sent /\ answered' = answered
    BY <1>8, UpdateCases
  <2>2. d # <<>> /\ Head(d) = EventId(e, s) /\ EventIds(events', s) = Tail(d)
    BY <1>2, <2>1, EventIdsTail
  <2>3. \/ outgoing_messages' = outgoing_messages
        \/ \E ms : Queue(ms) /\ Replies(ms, e.session_id, IdOf(e))
    BY <1>2, <2>1, HandleReplies
  <2>4. CASE outgoing_messages' = outgoing_messages
    <3>1. <<>> \in Seq(Nat) /\ \A i \in DOMAIN <<>> : <<>>[i] = IF i = 0 THEN Head(d) ELSE 0
      OBVIOUS
    <3> HIDE DEF f, q, d, p, n, e
    <3>2. InOrder(f, q, Tail(d), p, n)  BY <1>1, <1>3, <1>4, <2>2, <3>1, OrderHandle
    <3> QED  BY <2>1, <2>2, <2>4, <3>2 DEF IdsRise, f, q, p, n
  <2>5. ASSUME NEW ms, Queue(ms), Replies(ms, e.session_id, IdOf(e)) PROVE IdsRise(s)'
    <3>1. Head(d) \in Nat  BY <2>1, <2>2, IdTypes
    <3>2. Head(d) = IF s = e.session_id THEN IdOf(e) ELSE 0  BY <2>2 DEF EventId
    <3> HIDE DEF f, q, d, p, n, e
    <3>3. Extended(Ids(outgoing_messages'[s]), q, Head(d))
      BY <1>2, <2>5, <3>1, <3>2, QueuedIds DEF q
    <3>4. PICK r \in Seq(Nat) : Ids(outgoing_messages'[s]) = q \o r /\ Carries(r, Head(d))
      BY <3>3 DEF Extended
    <3>5. InOrder(f, q \o r, Tail(d), p, n)
      BY <1>1, <1>3, <1>4, <2>2, <3>4, OrderHandle DEF Carries
    <3> QED  BY <2>1, <2>2, <3>4, <3>5 DEF IdsRise, f, p, n
  <2> QED  BY <2>3, <2>4, <2>5
<1>9. CASE Flush
  <2>1. /\ answered'[s] = f \o q /\ outgoing_messages'[s] = <<>>
        /\ sent' = sent /\ packet_queue' = packet_queue /\ events' = events
    BY <1>9, FlushCases
  <2>2. Ids(outgoing_messages'[s]) = <<>>  BY <2>1 DEF Ids
  <2> HIDE DEF f, q, d, p, n
  <2>3. InOrder(f \o q, <<>>, d, p, n)  BY <1>1, <1>3, <1>4, OrderFlush
  <2> QED  BY <2>1, <2>2, <2>3 DEF IdsRise, d, p, n
<1> QED  BY <1>5, <1>6, <1>7, <1>8, <1>9, StepKinds

LEMMA InitIdsRise == ServerInit => AllIdsRise
<1> SUFFICES ASSUME ServerInit, NEW s \in SessionIds PROVE IdsRise(s)
  BY DEF AllIdsRise
<1>1. /\ answered[s] = <<>> /\ outgoing_messages[s] = <<>> /\ events = <<>>
      /\ packet_queue = <<>> /\ sent[s] = 0
  BY DEF ServerInit, Init, NoMessages
<1>2. Ids(<<>>) = <<>> /\ EventIds(<<>>, s) = <<>> /\ PacketIds(<<>>, s) = <<>>
  BY DEF Ids, EventIds, PacketIds
<1>3. Rising(<<>>) /\ ToSet(<<>>) = {}  BY DEF Rising, ToSet
<1>4. InOrder(<<>>, <<>>, <<>>, <<>>, 0)  BY <1>3 DEF InOrder, Below, UpTo
<1> QED  BY <1>1, <1>2, <1>4 DEF IdsRise

\* Responses reach a session in the order of its requests and none is given
\* twice: packet_queue, events and outgoing_messages are served in order, and
\* every handler answers once at most.
THEOREM ResponsesTheorem == ServerSpec => []ResponsesInOrder
<1>1. ServerInit => ServerTypeOK /\ AllIdsRise  BY InitType, InitIdsRise
<1>2. ServerTypeOK /\ AllIdsRise /\ [ServerNext]_serverVars => (ServerTypeOK /\ AllIdsRise)'
  BY StepType, IdsRiseStep
<1>3. AllIdsRise => ResponsesInOrder
  BY DEF AllIdsRise, IdsRise, InOrder, ResponsesInOrder
<1> QED  BY <1>1, <1>2, <1>3, PTL DEF ServerSpec

=============================================================================
