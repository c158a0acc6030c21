----------------------------- MODULE ChatClient -----------------------------
(***************************************************************************)
(* NightClient: the chat window (ChatClientFrame) and the protocol client  *)
(* it owns (ChatProtocolClient), for every window of a set.  All handlers  *)
(* run on the window's thread, one at a time; beside them the I/O thread   *)
(* of client_ pushes packets to its receive_queue and clears its connected *)
(* flag at any moment.  OnPollTimer reads both more than once and is       *)
(* therefore three steps.                                                  *)
(*                                                                         *)
(* A message box is shown last before a return, so the events that its     *)
(* nested loop handles meanwhile are handled as if it had returned.  The   *)
(* chat log, labels and status text are written and never read.            *)
(***************************************************************************)
EXTENDS Integers, Sequences, SequencesExt

CONSTANTS
    Windows,
    RoomIds,        \* rooms of the mock data, which are the server's
    DisplayNames,   \* names that can be typed or received, other than ""
    EmptyName,      \* ""
    Fold,           \* Fold[n]: n as wxListBox::FindString compares it
    Inputs,         \* texts that can be typed, other than ""
    Packets,        \* packets a server can send
    MaxQueued,      \* bound: packets in receive_queue
    MaxRequestId    \* bound: request ids of one connection

ASSUME ChatClientAssumption ==
    /\ RoomIds \subseteq Nat \ {0}
    /\ EmptyName \notin DisplayNames
    /\ Fold \in [DisplayNames -> DisplayNames]
    /\ MaxQueued \in Nat
    /\ MaxRequestId \in Nat

VARIABLES
    frame,           \* members of the window and of its protocol client
    polling,         \* how far OnPollTimer has got
    connected,       \* client_->is_connected()
    receive_queue,   \* packets client_ has received and nobody has polled
    requests         \* requests client_ has taken, in order

windowVars == <<frame, polling, connected, receive_queue, requests>>

\* What an absent table of a message is read as.
NoUser == [user_id |-> 0, display_name |-> EmptyName]
NoRoom == [room_id |-> 0, user_count |-> 0]

-----------------------------------------------------------------------------
(* DecodePacket: the events of one packet, none or one.  A message whose   *)
(* payload table is absent makes none, like those of the last case.        *)

\* A UserJoinedEvent or UserLeftEvent without a user is no event.
UserEvent(type, user) ==
    IF user = NoUser THEN <<>>
    ELSE <<[type |-> type, display_name |-> user.display_name]>>

DecodePacket(p) ==
    CASE p.type = "Malformed" -> <<[type |-> "ProtocolError"]>>
      [] p.type = "LoginResponse" ->
           IF p.success
           THEN <<[type |-> "LoginSucceeded", display_name |-> p.user.display_name]>>
           ELSE <<[type |-> "LoginFailed"]>>
      [] p.type = "RoomListResponse" -> <<[type |-> "RoomList", rooms |-> DOMAIN p.rooms]>>
      [] p.type = "JoinRoomResponse" ->
           IF p.success /\ p.room # NoRoom
           THEN <<[type |-> "JoinSucceeded", room_id |-> p.room.room_id]>>
           ELSE <<[type |-> "JoinFailed"]>>
      [] p.type = "ChatBroadcast" -> <<[type |-> "MessageReceived"]>>
      [] p.type = "UserJoinedEvent" -> UserEvent("UserJoined", p.user)
      [] p.type = "UserLeftEvent" -> UserEvent("UserLeft", p.user)
      [] p.type = "SystemMessageEvent" -> <<[type |-> "SystemMessage"]>>
      [] OTHER -> <<>>

-----------------------------------------------------------------------------
(* What the window makes of an event.                                      *)

Found(f, n) == {m \in f.user_list : Fold[m] = Fold[n]}

AddUser(f, n) ==
    IF n = EmptyName \/ Found(f, n) # {} THEN f
    ELSE [f EXCEPT !.user_list = @ \cup {n}]

\* Mutant of RemoveUser: nobody is removed.
RemoveUser_Keeps(f, n) == f

RemoveUser(f, n) ==
    IF n = EmptyName THEN f
    ELSE [f EXCEPT !.user_list = @ \ Found(f, n)]

\* Mutant of ProcessProtocolEvent: joining a room empties the user list, the
\* user's own name included.
ProcessProtocolEvent_ClearsUsers(f, e, typed) ==
    CASE e.type = "LoginSucceeded" -> AddUser(f, e.display_name)
      [] e.type = "RoomList" -> [f EXCEPT !.rooms = e.rooms]
      [] e.type = "JoinSucceeded" ->
           [f EXCEPT !.current_room_id = e.room_id, !.user_list = {}]
      [] e.type = "UserJoined" -> AddUser(f, e.display_name)
      [] e.type = "UserLeft" -> RemoveUser(f, e.display_name)
      [] OTHER -> f

\* Mutant of ProcessProtocolEvent: the first room is kept.
ProcessProtocolEvent_KeepsRoom(f, e, typed) ==
    CASE e.type = "LoginSucceeded" -> AddUser(f, e.display_name)
      [] e.type = "RoomList" -> [f EXCEPT !.rooms = e.rooms]
      [] e.type = "JoinSucceeded" /\ f.current_room_id = 0 ->
           [f EXCEPT !.current_room_id = e.room_id]
      [] e.type = "UserJoined" -> AddUser(f, e.display_name)
      [] e.type = "UserLeft" -> RemoveUser(f, e.display_name)
      [] OTHER -> f

\* typed is the content of the name control, used for a login response that
\* names no user.
ProcessProtocolEvent(f, e, typed) ==
    CASE e.type = "LoginSucceeded" ->
           AddUser(f, IF e.display_name = EmptyName THEN typed ELSE e.display_name)
      [] e.type = "RoomList" -> [f EXCEPT !.rooms = e.rooms]
      [] e.type = "JoinSucceeded" -> [f EXCEPT !.current_room_id = e.room_id]
      [] e.type = "UserJoined" -> AddUser(f, e.display_name)
      [] e.type = "UserLeft" -> RemoveUser(f, e.display_name)
      [] OTHER -> f

ShowPacket(f, p, typed) ==
    LET events == DecodePacket(p)
    IN  IF events = <<>> THEN f ELSE ProcessProtocolEvent(f, events[1], typed)

\* Shown(f, packets, typed)[n]: the window when the first n of the packets have
\* been decoded and their events handled.
Shown(f, packets, typed) ==
    LET after[n \in 0 .. Len(packets)] ==
            IF n = 0 THEN f ELSE ShowPacket(after[n - 1], packets[n], typed)
    IN  after

Process(f, packets, typed) == Shown(f, packets, typed)[Len(packets)]

CreateMockEvents == <<[type |-> "RoomList", rooms |-> RoomIds],
                      [type |-> "SystemMessage"]>>

\* Each of the mock events in turn.  What is cleared before them is still empty:
\* only the constructor calls it.
LoadMockData(f) ==
    ProcessProtocolEvent(ProcessProtocolEvent(f, CreateMockEvents[1], EmptyName),
                         CreateMockEvents[2], EmptyName)

\* The constructor: SetConnectionState(false) and LoadMockData.
NewFrame ==
    LoadMockData([open |-> TRUE, client |-> FALSE, controls |-> FALSE,
                  rooms |-> {}, current_room_id |-> 0, user_list |-> {},
                  next_request_id |-> 1])

WindowInit ==
    /\ frame = [w \in Windows |-> NewFrame]
    /\ polling = [w \in Windows |-> "idle"]
    /\ connected = [w \in Windows |-> FALSE]
    /\ receive_queue = [w \in Windows |-> <<>>]
    /\ requests = [w \in Windows |-> <<>>]

-----------------------------------------------------------------------------
(* Handlers of the window.                                                 *)

IsConnected(w) == frame[w].client /\ connected[w]

Idle(w) == frame[w].open /\ polling[w] = "idle"

LoginRequest(id, typed) ==
    [type |-> "LoginRequest", request_id |-> id, display_name |-> typed]
RoomListRequest(id) == [type |-> "RoomListRequest", request_id |-> id]
JoinRoomRequest(id, r) ==
    [type |-> "JoinRoomRequest", request_id |-> id, room_id |-> r]
ChatSendRequest(id, text) ==
    [type |-> "ChatSendRequest", request_id |-> id, content |-> text]

\* The connect button is enabled while the controls are not.  An empty host,
\* port or name, or a create that fails, leaves the window as it was.  The
\* room and the users of an earlier connection are not cleared.
OnConnectClicked(w, typed) ==
    /\ Idle(w) /\ ~frame[w].controls
    /\ typed # EmptyName
    /\ frame' = [frame EXCEPT ![w].client = TRUE, ![w].controls = TRUE,
                              ![w].next_request_id = 3]
    /\ connected' = [connected EXCEPT ![w] = TRUE]
    /\ receive_queue' = [receive_queue EXCEPT ![w] = <<>>]
    /\ requests' = [requests EXCEPT ![w] = <<LoginRequest(1, typed),
                                            RoomListRequest(2)>>]
    /\ UNCHANGED polling

\* Each send takes a request id.  A connection that is lost between the test
\* of IsConnected and the send is one that is lost right after it.
Send(w, request) ==
    /\ Idle(w) /\ IsConnected(w)
    /\ frame[w].next_request_id <= MaxRequestId
    /\ requests' = [requests EXCEPT ![w] = Append(@, request)]
    /\ frame' = [frame EXCEPT ![w].next_request_id = @ + 1]
    /\ UNCHANGED <<polling, connected, receive_queue>>

OnRefreshRoomsClicked(w) ==
    /\ frame[w].controls
    /\ Send(w, RoomListRequest(frame[w].next_request_id))

\* By the button, or by activating a row of the list, which is never disabled.
OnJoinRoomClicked(w, r) ==
    /\ r \in frame[w].rooms
    /\ Send(w, JoinRoomRequest(frame[w].next_request_id, r))

OnSendClicked(w, text) ==
    /\ frame[w].controls
    /\ frame[w].current_room_id # 0
    /\ Send(w, ChatSendRequest(frame[w].next_request_id, text))

\* ~Client: what client_ has received and not delivered goes with it.
Disconnect(w) ==
    /\ connected' = [connected EXCEPT ![w] = FALSE]
    /\ receive_queue' = [receive_queue EXCEPT ![w] = <<>>]

\* A timer event while client_ is not connected has no effect at all.
PollTest(w) ==
    /\ Idle(w) /\ IsConnected(w)
    /\ polling' = [polling EXCEPT ![w] = "draining"]
    /\ UNCHANGED <<frame, connected, receive_queue, requests>>

\* Mutant of PollEvents: the newest packet is left for the next poll.
PollEvents_LeavesOne(w, typed) ==
    /\ polling[w] = "draining"
    /\ frame' = [frame EXCEPT ![w] = Process(@, receive_queue[w], typed)]
    /\ receive_queue' = [receive_queue EXCEPT
                           ![w] = IF @ = <<>> THEN @ ELSE <<Last(@)>>]
    /\ polling' = [polling EXCEPT ![w] = "testing"]
    /\ UNCHANGED <<connected, requests>>

PollEvents(w, typed) ==
    /\ polling[w] = "draining"
    /\ frame' = [frame EXCEPT ![w] = Process(@, receive_queue[w], typed)]
    /\ receive_queue' = [receive_queue EXCEPT ![w] = <<>>]
    /\ polling' = [polling EXCEPT ![w] = "testing"]
    /\ UNCHANGED <<connected, requests>>

\* Mutant of PollEnd: the client is kept.
PollEnd_KeepsClient(w) ==
    /\ polling[w] = "testing"
    /\ polling' = [polling EXCEPT ![w] = "idle"]
    /\ frame' = [frame EXCEPT ![w].controls = IsConnected(w)]
    /\ UNCHANGED <<connected, receive_queue, requests>>

PollEnd(w) ==
    /\ polling[w] = "testing"
    /\ polling' = [polling EXCEPT ![w] = "idle"]
    /\ \/ /\ IsConnected(w)
          /\ UNCHANGED <<frame, connected, receive_queue>>
       \/ /\ ~IsConnected(w)
          /\ Disconnect(w)
          /\ frame' = [frame EXCEPT ![w].client = FALSE, ![w].controls = FALSE]
    /\ UNCHANGED requests

OnClose(w) ==
    /\ Idle(w)
    /\ frame' = [frame EXCEPT ![w].open = FALSE, ![w].client = FALSE]
    /\ Disconnect(w)
    /\ UNCHANGED <<polling, requests>>

-----------------------------------------------------------------------------
(* The I/O thread of client_ (module Client).                              *)

\* A read that has completed when connected is cleared still pushes its packet:
\* its handler tests the error code of the read, not the flag.  That is one step
\* (still FALSE), because nothing the window does between the two depends on
\* their being apart: it only takes packets from the queue, or destroys client_.
ReceivePacket(w, p, still) ==
    /\ IsConnected(w)
    /\ Len(receive_queue[w]) < MaxQueued
    /\ receive_queue' = [receive_queue EXCEPT ![w] = Append(@, p)]
    /\ connected' = [connected EXCEPT ![w] = still]
    /\ UNCHANGED <<frame, polling, requests>>

LoseConnection(w) ==
    /\ IsConnected(w)
    /\ connected' = [connected EXCEPT ![w] = FALSE]
    /\ UNCHANGED <<frame, polling, receive_queue, requests>>

-----------------------------------------------------------------------------
(* Windows whose servers send anything at any time.                        *)

Typed == DisplayNames \cup {EmptyName}

OnPollTimer(w) ==
    \/ PollTest(w)
    \/ \E typed \in Typed : PollEvents(w, typed)
    \/ PollEnd(w)

Handler(w) ==
    \/ \E typed \in Typed : OnConnectClicked(w, typed)
    \/ OnRefreshRoomsClicked(w)
    \/ \E r \in RoomIds : OnJoinRoomClicked(w, r)
    \/ \E text \in Inputs : OnSendClicked(w, text)
    \/ OnClose(w)

IoThread(w) ==
    \/ LoseConnection(w)
    \/ \E p \in Packets, still \in BOOLEAN : ReceivePacket(w, p, still)

WindowNext == \E w \in Windows : Handler(w) \/ OnPollTimer(w) \/ IoThread(w)

WindowSpec == WindowInit /\ [][WindowNext]_windowVars

\* The timer fires every 33 ms and the window's thread handles it.  Nothing
\* makes the user, the server or the network do anything.
WindowFairSpec == WindowSpec /\ \A w \in Windows : WF_windowVars(OnPollTimer(w))

-----------------------------------------------------------------------------
(* Properties.                                                             *)

\* Whatever the I/O thread does during a poll, the connect button is offered
\* exactly while there is no client_: Connect never replaces a live client,
\* which would block the window in ~Client, and never stays out of reach when
\* the client has been destroyed.
ConnectIffNoClient ==
    \A w \in Windows : frame[w].open => (frame[w].controls <=> frame[w].client)

\* A packet that client_ has received is shown by a later poll, unless the
\* connection is lost first.
PolledWhileConnected ==
    \A w \in Windows :
        receive_queue[w] # <<>> ~> (receive_queue[w] = <<>> \/ ~connected[w])

\* Client.h and NightNetwork's README ask of an owner that it polls until
\* poll_packet returns nullopt, so no packet stays in receive_queue.
QueueIsDrained ==
    \A w \in Windows : receive_queue[w] # <<>> ~> receive_queue[w] = <<>>

=============================================================================
