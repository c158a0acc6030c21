---------------------------- MODULE NightServer ----------------------------
(***************************************************************************)
(* The server process: the main loop of NightServer.cpp (Receive, Update,  *)
(* Flush), NetworkSystem, which turns transport packets into events, and   *)
(* the GameLogicSystem, fed by the transport through the bounded packet    *)
(* queue.                                                                  *)
(*                                                                         *)
(* Of the transport only its contract is here: a connection pushes         *)
(* Connect before anything else, Data while it is open, Disconnect once    *)
(* when it closes, and possibly one Data more, whose read had completed    *)
(* before the close (Session's read handler does not look at closed_).  A  *)
(* packet that does not fit is dropped and counted.                        *)
(***************************************************************************)
EXTENDS GameLogicSystem

CONSTANTS
    QueueCapacity,   \* capacity of packet_queue (8192)
    Requests,        \* Requests[s]: payloads s may send, without its ids
    MaxRequests      \* MaxRequests[s]: bound: payloads sent by s

\* The requests with fields.  A message may name one of them as its payload and
\* still carry no table for it: it passes verification, and payload_as_...()
\* returns null.  Here such a payload lacks the field, whereas a field that is
\* missing from a table reads as the empty string or 0.  The tables of the
\* other requests are never looked at.
FieldOf == [LoginRequest |-> "display_name", JoinRoomRequest |-> "room_id",
            ChatSendRequest |-> "content"]
HasTable(d) == d.type \in DOMAIN FieldOf => FieldOf[d.type] \in DOMAIN d

ASSUME NightServerAssumption ==
    /\ QueueCapacity \in Nat \ {0}
    /\ MaxRequests \in [SessionIds -> RequestIds \cup {0}]
    /\ \A i \in RequestIds : i \in Nat \ {0} /\ 1 .. i \subseteq RequestIds
    /\ \A s \in SessionIds : \A d \in Requests[s] : HasTable(d) =>
        /\ d.type = "LoginRequest" => d.display_name \in Names \cup {EmptyName, LongName}
        /\ d.type = "JoinRoomRequest" => d.room_id \in RoomIds \cup {no_room_id}
        /\ d.type = "ChatSendRequest" => d.content \in Texts \cup {EmptyText, LongText}

VARIABLES
    link,              \* link[s]: state of the connection with id s
    sent,              \* sent[s]: payloads sent on it, hence its last request_id
    packet_queue,      \* Server::Impl::packet_queue
    dropped_packets,   \* Server::Impl::dropped_packets has left zero
    phase,             \* where the main loop is
    events,            \* the events of this tick not yet handled
    kicked,            \* server_.disconnect(s) posted and not yet run
    owed,              \* owed[s]: queued requests that call for a response
    answered           \* answered[s]: request_ids of the messages flushed to s

transportVars == <<link, sent, packet_queue, dropped_packets, kicked, owed>>
serverVars == <<room_system, outgoing_messages, pending_disconnects,
                link, sent, packet_queue, dropped_packets, phase, events,
                kicked, owed, answered>>

-----------------------------------------------------------------------------
(* I/O threads.                                                            *)

Connect(s) == [type |-> "Connect", session_id |-> s]
Disconnect(s) == [type |-> "Disconnect", session_id |-> s]
Data(s, d, i) == [type |-> "Data", session_id |-> s, data |-> d, request_id |-> i]

Full == Len(packet_queue) >= QueueCapacity

push_packet(p) ==
    \/ /\ ~Full
       /\ packet_queue' = Append(packet_queue, p)
       /\ UNCHANGED dropped_packets
    \/ /\ Full
       /\ dropped_packets' = TRUE
       /\ UNCHANGED packet_queue

loopVars == <<phase, events, answered>>

\* A connection whose Connect event does not fit is let go at once.
Accept(s) ==
    /\ link[s] = "new"
    /\ push_packet(Connect(s))
    /\ link' = [link EXCEPT ![s] = IF Full THEN "refused" ELSE "open"]
    /\ UNCHANGED <<logicVars, loopVars, sent, kicked, owed>>

\* Requests that are answered by a message that carries their request_id.
Answerable(d) ==
    /\ d.type \in {"LoginRequest", "RoomListRequest", "JoinRoomRequest",
                  "LeaveRoomRequest", "DisconnectRequest"}
    /\ HasTable(d)

Arrive(s, d) ==
    /\ sent[s] < MaxRequests[s]
    /\ sent' = [sent EXCEPT ![s] = @ + 1]
    /\ push_packet(Data(s, d, sent[s] + 1))
    /\ owed' = [owed EXCEPT ![s] = IF ~Full /\ Answerable(d)
                                   THEN @ \cup {sent[s] + 1} ELSE @]
    /\ UNCHANGED <<logicVars, loopVars, kicked>>

Receive(s, d) ==
    /\ link[s] = "open"
    /\ Arrive(s, d)
    /\ UNCHANGED link

\* The one read that had completed before handle_close ran.
LateReceive(s, d) ==
    /\ link[s] = "closed"
    /\ Arrive(s, d)
    /\ link' = [link EXCEPT ![s] = "gone"]

\* Mutant of Close: on_close does not push Disconnect.
Close_Unreported(s) ==
    /\ link[s] = "open"
    /\ link' = [link EXCEPT ![s] = "closed"]
    /\ UNCHANGED <<logicVars, loopVars, packet_queue, dropped_packets, sent,
                   kicked, owed>>

\* The peer hung up, a read or write failed, the heartbeat ran out.
Close(s) ==
    /\ link[s] = "open"
    /\ push_packet(Disconnect(s))
    /\ link' = [link EXCEPT ![s] = "closed"]
    /\ UNCHANGED <<logicVars, loopVars, sent, kicked, owed>>

\* The task posted by Server::disconnect runs on the server strand.
Kick(s) ==
    /\ s \in kicked
    /\ kicked' = kicked \ {s}
    /\ IF link[s] = "open"
       THEN /\ push_packet(Disconnect(s))
            /\ link' = [link EXCEPT ![s] = "closed"]
       ELSE UNCHANGED <<packet_queue, dropped_packets, link>>
    /\ UNCHANGED <<logicVars, loopVars, sent, owed>>

-----------------------------------------------------------------------------
(* The game thread.                                                        *)

\* A buffer that fails verification and a payload the server does not handle
\* both become InvalidPacket.
EventOfPayload(s, d, i) ==
    CASE d.type = "LoginRequest" ->
            [type |-> d.type, session_id |-> s, request_id |-> i,
             display_name |-> d.display_name]
      [] d.type = "JoinRoomRequest" ->
            [type |-> d.type, session_id |-> s, request_id |-> i,
             room_id |-> d.room_id]
      [] d.type = "ChatSendRequest" ->
            [type |-> d.type, session_id |-> s, request_id |-> i,
             content |-> d.content]
      [] d.type \in {"RoomListRequest", "LeaveRoomRequest", "DisconnectRequest"} ->
            [type |-> d.type, session_id |-> s, request_id |-> i]
      [] OTHER -> [type |-> "InvalidPacket", session_id |-> s]

\* A request without its table is passed over: it makes no event, not even
\* InvalidPacket.
DecodeProtocolPacket(s, d, i) ==
    IF HasTable(d) THEN <<EventOfPayload(s, d, i)>> ELSE <<>>

\* Mutant of Decode: Disconnect has no case of its own.
Decode_NoDisconnect(p) ==
    CASE p.type = "Connect" -> <<[type |-> "Connected", session_id |-> p.session_id]>>
      [] p.type = "Data" -> DecodeProtocolPacket(p.session_id, p.data, p.request_id)
      [] OTHER -> <<[type |-> "InvalidPacket", session_id |-> p.session_id]>>

\* The events that Receive makes of a packet: one or none.
Decode(p) ==
    CASE p.type = "Connect" -> <<[type |-> "Connected", session_id |-> p.session_id]>>
      [] p.type = "Disconnect" ->
            <<[type |-> "Disconnected", session_id |-> p.session_id]>>
      [] p.type = "Data" -> DecodeProtocolPacket(p.session_id, p.data, p.request_id)

\* Mutant of PollPacket: the newest packet is handled first.
PollPacket_NewestFirst ==
    /\ phase = "receive"
    /\ packet_queue # <<>>
    /\ packet_queue' = Tail(packet_queue)
    /\ events' = Decode(Head(packet_queue)) \o events
    /\ UNCHANGED <<logicVars, link, sent, dropped_packets, kicked, owed, phase,
                   answered>>

\* One round of Receive's loop.
PollPacket ==
    /\ phase = "receive"
    /\ packet_queue # <<>>
    /\ packet_queue' = Tail(packet_queue)
    /\ events' = events \o Decode(Head(packet_queue))
    /\ UNCHANGED <<logicVars, link, sent, dropped_packets, kicked, owed, phase,
                   answered>>

EndReceive ==
    /\ phase = "receive"
    /\ packet_queue = <<>>
    /\ phase' = "update"
    /\ UNCHANGED <<logicVars, transportVars, events, answered>>

Update ==
    /\ phase = "update"
    /\ events # <<>>
    /\ Handle(Head(events))
    /\ events' = Tail(events)
    /\ UNCHANGED <<transportVars, phase, answered>>

\* The request_ids a stream carries; that of an event of the server is 0.
Ids(messages) == [i \in DOMAIN messages |-> messages[i].request_id]

\* All messages are sent before any session is disconnected; Server::send and
\* Server::disconnect only post to the server strand.
Flush ==
    /\ phase = "update"
    /\ events = <<>>
    /\ Take
    /\ answered' = [s \in SessionIds |-> answered[s] \o Ids(outgoing_messages[s])]
    /\ kicked' = kicked \cup ToSet(pending_disconnects)
    /\ phase' = "receive"
    /\ UNCHANGED <<link, sent, packet_queue, dropped_packets, owed, events>>

-----------------------------------------------------------------------------

ServerInit ==
    /\ Init
    /\ link = [s \in SessionIds |-> "new"]
    /\ sent = [s \in SessionIds |-> 0]
    /\ packet_queue = <<>>
    /\ dropped_packets = FALSE
    /\ phase = "receive"
    /\ events = <<>>
    /\ kicked = {}
    /\ owed = [s \in SessionIds |-> {}]
    /\ answered = [s \in SessionIds |-> <<>>]

GameThread == PollPacket \/ EndReceive \/ Update \/ Flush

ServerNext ==
    \/ \E s \in SessionIds : Accept(s) \/ Close(s) \/ Kick(s)
    \/ \E s \in SessionIds : \E d \in Requests[s] : Receive(s, d) \/ LateReceive(s, d)
    \/ GameThread

ServerSpec == ServerInit /\ [][ServerNext]_serverVars

\* The main loop never stops, and the I/O threads run what is posted to them.
\* Nothing is assumed of the clients.
FairServerSpec ==
    /\ ServerSpec
    /\ WF_serverVars(GameThread)
    /\ \A s \in SessionIds : WF_serverVars(Kick(s))

-----------------------------------------------------------------------------

\* A Connect or Disconnect packet, or the event made of it, still has to be
\* handled.
Awaited(packet) ==
    \/ Contains(packet_queue, packet)
    \/ Contains(events, Head(Decode(packet)))

\* A session the server still knows although its connection has ended is about
\* to be removed by a Disconnect event on its way, unless the packet queue
\* overflowed: push_packet's result is ignored by the close callback.
GhostsOnlyAfterOverflow ==
    \A s \in DOMAIN room_system.sessions :
        link[s] # "open" /\ ~Awaited(Disconnect(s)) => dropped_packets

\* The server has handled Connect for s and has since forgotten s.
Forgotten(s) ==
    /\ link[s] \notin {"new", "refused"}
    /\ ~Awaited(Connect(s))
    /\ ~FindSession(room_system, s)

\* A session that has been removed, by its own DisconnectRequest or by the
\* Disconnect event, never comes back: requests that were queued behind, and
\* the late one pushed after Disconnect, cannot revive it.
NoResurrection ==
    [][\A s \in SessionIds : Forgotten(s) => Forgotten(s)']_serverVars

\* What is not 0 exceeds all that comes before it.
Rising(ids) == \A i, j \in DOMAIN ids : i < j => ids[j] = 0 \/ ids[i] < ids[j]

\* Responses reach a session in the order of its requests, and none is
\* answered twice: request_id is the only link between the two.
ResponsesInOrder ==
    \A s \in SessionIds : Rising(answered[s])

\* Every request that fits into the packet queue and carries its table is
\* answered, unless the session is removed first, whatever garbage and requests
\* without a table, which are never answered, surround it.
RequestsAnswered ==
    \A s \in SessionIds, i \in RequestIds :
        i \in owed[s] ~> \/ i \in ToSet(answered[s])
                         \/ Forgotten(s)

\* A session that ends on one side ends on the other.  A connection that is
\* closed is forgotten, and its name and its place in the room are given up,
\* unless the packet queue overflowed; a session that the server removes
\* because of its request is closed even if its peer never hangs up.
EndsOnBothSides ==
    \A s \in SessionIds :
        /\ link[s] = "closed" ~> ~FindSession(room_system, s) \/ dropped_packets
        /\ Forgotten(s) ~> link[s] # "open"

=============================================================================
