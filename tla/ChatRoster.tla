----------------------------- MODULE ChatRoster -----------------------------
(***************************************************************************)
(* The GameLogicSystem together with its readers.  A tick hands Update a   *)
(* batch of events and then flushes what the handlers queued; each session *)
(* reads its own stream, in order, and keeps the roster of its room from   *)
(* nothing else: it starts a new one at a successful JoinRoomResponse or   *)
(* LeaveRoomResponse, adds at a UserJoinedEvent, removes at a              *)
(* UserLeftEvent.                                                          *)
(*                                                                         *)
(* Events are unconstrained, except that an id that connects names a new   *)
(* connection, for which nothing is queued yet.                            *)
(***************************************************************************)
EXTENDS GameLogicSystem

CONSTANT MaxBatch   \* bound: events handled between two flushes

ASSUME RosterAssumption == MaxBatch \in Nat \ {0}

VARIABLES
    view,    \* view[s]: the room s believes to be in, and who else is there
    batch    \* number of events handled since the last flush

rosterVars == <<room_system, outgoing_messages, pending_disconnects, view, batch>>

NoView == [room |-> no_room_id, users |-> {}]

Observe(v, m) ==
    CASE m.type = "JoinRoomResponse" /\ m.success ->
            [room |-> m.room.room_id, users |-> {}]
      [] m.type = "LeaveRoomResponse" /\ m.success -> NoView
      [] m.type = "UserJoinedEvent" -> [v EXCEPT !.users = @ \cup {m.user.user_id}]
      [] m.type = "UserLeftEvent" -> [v EXCEPT !.users = @ \ {m.user.user_id}]
      [] OTHER -> v

\* Views(v, ms)[n]: what a reader that believed v believes after the first n
\* of the messages ms.
Views(v, ms) ==
    LET after[n \in 0 .. Len(ms)] == IF n = 0 THEN v ELSE Observe(after[n - 1], ms[n])
    IN  after

ObserveAll(v, ms) == Views(v, ms)[Len(ms)]

RosterInit ==
    /\ Init
    /\ view = [s \in SessionIds |-> NoView]
    /\ batch = 0

Process(e) ==
    /\ batch < MaxBatch
    /\ Handle(e)
    /\ batch' = batch + 1
    /\ UNCHANGED view

NewConnection(s) ==
    /\ ~FindSession(room_system, s)
    /\ outgoing_messages[s] = <<>>
    /\ batch < MaxBatch
    /\ Handle([type |-> "Connected", session_id |-> s])
    /\ batch' = batch + 1
    /\ view' = [view EXCEPT ![s] = NoView]

Flush ==
    /\ batch > 0
    /\ Take
    /\ view' = [s \in SessionIds |->
                   ObserveAll(view[s], outgoing_messages[s])]
    /\ batch' = 0

RosterNext ==
    \/ \E s \in SessionIds : NewConnection(s)
    \/ \E e \in ServerEvent : e.type # "Connected" /\ Process(e)
    \/ Flush

RosterSpec == RosterInit /\ [][RosterNext]_rosterVars

-----------------------------------------------------------------------------

\* Between two ticks every live session, whatever it and the others did, has
\* been told exactly who shares its room: the stream of JoinRoomResponse,
\* UserJoinedEvent and UserLeftEvent messages adds up to the member set.
RosterAccurate ==
    batch = 0 =>
        \A s \in DOMAIN room_system.sessions :
            LET rid == room_system.sessions[s].room_id
            IN  view[s] = [room  |-> rid,
                           users |-> IF rid = no_room_id THEN {}
                                     ELSE room_system.rooms[rid] \ {s}]

=============================================================================
