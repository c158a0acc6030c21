----------------------------- MODULE ChatSystem -----------------------------
(***************************************************************************)
(* The chat application as its users meet it: windows (ChatClient) over    *)
(* connections to one server (GameLogicSystem).  A window that reconnects  *)
(* gets a new session, while the server may still keep the old one.        *)
(*                                                                         *)
(* A connection is two streams: requests, in the order the window sent     *)
(* them, and outgoing_messages, in the order the server queued them.       *)
(* Modules NightServer, Session, Server and Client are about how the       *)
(* transport and the main loop keep that order; queues do not overflow     *)
(* here.  Either end may notice the loss of the connection at any time and *)
(* in either order, and what is then still under way is lost.              *)
(*                                                                         *)
(* Polling is one step here, which shows the messages under way:           *)
(* receive_queue is not told from the rest of the stream.  What happens    *)
(* inside OnPollTimer is the subject of ChatClient.  Users do not refresh  *)
(* the list (each connection asks for it once) and do not type what the    *)
(* server refuses for its length; to the server, closing a window is the   *)
(* loss of a connection.                                                   *)
(***************************************************************************)
EXTENDS GameLogicSystem

CONSTANTS
    Windows, Fold,   \* see ChatClient
    MaxClicks        \* bound: requests by hand

ASSUME ChatSystemAssumption ==
    /\ MaxClicks \in Nat
    /\ 1 .. MaxClicks + 2 \subseteq RequestIds   \* the ids of one connection

VARIABLES
    frame, polling, connected, receive_queue, requests,   \* see ChatClient
    history,   \* history[w]: the sessions of w's connections, oldest first
    phase,     \* phase[s]: "free", "open" or "closed", as the server sees it
    backlog,   \* backlog[s]: requests of a connection its window has given up
    entered,   \* entered[s]: the rooms s has ever been in
    clicks     \* requests made by hand so far

Window == INSTANCE ChatClient
          WITH DisplayNames <- Names, Inputs <- Texts, Packets <- {}, MaxQueued <- 0,
               MaxRequestId <- MaxClicks + 2

linkVars == <<history, phase, backlog>>
systemVars == <<logicVars, frame, polling, connected, receive_queue, requests,
                linkVars, entered, clicks>>

SystemInit ==
    /\ Init
    /\ Window!WindowInit
    /\ history = [w \in Windows |-> <<>>]
    /\ phase = [s \in SessionIds |-> "free"]
    /\ backlog = [s \in SessionIds |-> <<>>]
    /\ entered = [s \in SessionIds |-> {}]
    /\ clicks = 0

\* The session of w's connection, and the window a session belongs to.
IsCurrent(w, s) == history[w] # <<>> /\ Last(history[w]) = s

-----------------------------------------------------------------------------

\* The server's part, one more session in no room, commutes with everything
\* that can happen before it, so both parts are one step.
Connect(w, s) ==
    /\ phase[s] = "free"
    /\ \E typed \in Names : Window!OnConnectClicked(w, typed)
    /\ Handle([type |-> "Connected", session_id |-> s])
    /\ phase' = [phase EXCEPT ![s] = "open"]
    /\ history' = [history EXCEPT ![w] = Append(@, s)]
    /\ backlog' = [t \in SessionIds |->
                     IF IsCurrent(w, t) THEN requests[w] ELSE backlog[t]]
    /\ UNCHANGED <<entered, clicks>>

Click(w) ==
    /\ clicks < MaxClicks
    /\ clicks' = clicks + 1
    /\ \/ \E r \in RoomIds : Window!OnJoinRoomClicked(w, r)
       \/ \E text \in Texts : Window!OnSendClicked(w, text)
    /\ UNCHANGED <<logicVars, linkVars, entered>>

\* OnPollTimer polls until nothing is left.
Show(w, s) ==
    /\ IsCurrent(w, s) /\ Window!IsConnected(w)
    /\ outgoing_messages[s] # <<>>
    /\ frame' = [frame EXCEPT
                   ![w] = Window!Process(@, outgoing_messages[s], EmptyName)]
    /\ outgoing_messages' = [outgoing_messages EXCEPT ![s] = <<>>]
    /\ UNCHANGED <<room_system, pending_disconnects, polling, connected,
                   receive_queue, requests, linkVars, entered, clicks>>

\* The I/O thread notices a loss during a poll, whose end finds it.  (When it
\* notices one between two polls the window can only be closed.)
Lose(w) ==
    /\ Window!IsConnected(w)
    /\ frame' = [frame EXCEPT ![w].client = FALSE, ![w].controls = FALSE]
    /\ Window!Disconnect(w)
    /\ UNCHANGED <<logicVars, polling, requests, linkVars, entered, clicks>>

\* The event the server makes of a request of s.
EventOf(s, request) ==
    [field \in DOMAIN request \cup {"session_id"} |->
        IF field = "session_id" THEN s ELSE request[field]]

\* The server handles the next request of s.
HandleRequest(s, request) ==
    /\ phase[s] = "open"
    /\ Handle(EventOf(s, request))
    /\ entered' = [entered EXCEPT
                     ![s] = @ \cup ({room_system'.sessions[s].room_id} \ {no_room_id})]
    /\ UNCHANGED <<frame, polling, connected, receive_queue, history, phase, clicks>>

Serve(w, s) ==
    /\ IsCurrent(w, s)
    /\ requests[w] # <<>>
    /\ HandleRequest(s, Head(requests[w]))
    /\ requests' = [requests EXCEPT ![w] = Tail(@)]
    /\ UNCHANGED backlog

ServeBacklog(s) ==
    /\ backlog[s] # <<>>
    /\ HandleRequest(s, Head(backlog[s]))
    /\ backlog' = [backlog EXCEPT ![s] = Tail(@)]
    /\ UNCHANGED requests

ServerLoses(s) ==
    /\ phase[s] = "open"
    /\ phase' = [phase EXCEPT ![s] = "closed"]
    /\ Handle([type |-> "Disconnected", session_id |-> s])
    /\ UNCHANGED <<frame, polling, connected, receive_queue, requests, history,
                   backlog, entered, clicks>>

SystemNext ==
    \/ \E w \in Windows : Click(w) \/ Lose(w)
    \/ \E w \in Windows, s \in SessionIds :
         Connect(w, s) \/ Show(w, s) \/ Serve(w, s)
    \/ \E s \in SessionIds : ServeBacklog(s) \/ ServerLoses(s)

SystemSpec == SystemInit /\ [][SystemNext]_systemVars

-----------------------------------------------------------------------------
(* Properties.                                                             *)

\* Window w as it will be when it has shown all of that.
CaughtUp(w, s) == Window!Process(frame[w], outgoing_messages[s], EmptyName)

\* w and the server both take s for a live connection.
Live(w, s) ==
    IsCurrent(w, s) /\ Window!IsConnected(w) /\ phase[s] = "open"

RoomOf(s) == room_system.sessions[s].room_id

\* Once it has caught up, a window shows the room its session is in, however
\* joins, chats, reconnections and losses were interleaved.  (While the
\* session is in no room the window may show one from an earlier connection.)
RoomAgrees ==
    \A w \in Windows, s \in SessionIds :
        Live(w, s) /\ RoomOf(s) # no_room_id =>
            CaughtUp(w, s).current_room_id = RoomOf(s)

\* The names FindString can tell from every other.
Distinct == {n \in Names : \A m \in Names : Fold[m] = Fold[n] => m = n}

MemberNames(r) ==
    {room_system.sessions[s].display_name : s \in room_system.rooms[r]}

\* Once it has caught up, a window lists every member of its room, itself
\* included, whose name is not another's in different case: no event of a
\* room it has left, or of a session it has given up, removes a member.
UserListCovers ==
    \A w \in Windows, s \in SessionIds :
        Live(w, s) /\ RoomOf(s) # no_room_id =>
            MemberNames(RoomOf(s)) \cap Distinct \subseteq CaughtUp(w, s).user_list

\* Until a window changes rooms or reconnects its list shows nobody else.
FirstRoomExact ==
    \A w \in Windows, s \in SessionIds :
        Live(w, s) /\ Len(history[w]) = 1 /\ Cardinality(entered[s]) = 1 =>
            CaughtUp(w, s).user_list \cap Distinct =
                MemberNames(RoomOf(s)) \cap Distinct

\* The window never looks at the room_id of a chat, a UserJoinedEvent or a
\* UserLeftEvent, and need not: when it comes to show one, it shows the room
\* that it is about.
EventsMatchRoom ==
    \A w \in Windows, s \in SessionIds : IsCurrent(w, s) =>
        LET packets == outgoing_messages[s]
        IN  \A i \in DOMAIN packets :
              packets[i].type \in {"ChatBroadcast", "UserJoinedEvent", "UserLeftEvent"}
              => packets[i].room_id =
                   Window!Shown(frame[w], packets, EmptyName)[i - 1].current_room_id

=============================================================================
