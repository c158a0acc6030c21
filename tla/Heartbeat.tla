----------------------------- MODULE Heartbeat -----------------------------
(***************************************************************************)
(* The heartbeats of both ends of one connection against each other and    *)
(* the clock: start_heartbeat of NightNetwork/src/Session.cpp and of       *)
(* NightNetwork/src/Client.cpp.                                            *)
(*                                                                         *)
(* Each end sends a keepalive every HEARTBEAT_INTERVAL and looks, in the   *)
(* same handler, whether its last_activity is HEARTBEAT_TIMEOUT ago.       *)
(* Session and Client check the handlers of one end; here the question is  *)
(* one of time: what the two periods leave for a slow connect, a server    *)
(* that is late to accept, a late handler and a slow network.              *)
(*                                                                         *)
(* Time passes in ticks.  A tick is held back by what must happen before   *)
(* it: an overdue handler, a frame that has travelled MaxDelay, a connect  *)
(* or an accept that has taken its longest.                                *)
(***************************************************************************)
EXTENDS Integers, FiniteSets

CONSTANTS
    HEARTBEAT_INTERVAL, \* 5 s
    HEARTBEAT_TIMEOUT,  \* 15 s
    MaxConnect,         \* bound: ticks the blocking connect() takes
    MaxAccept,          \* bound: ticks a connection waits to be accepted
    MaxLag,             \* bound: ticks an expired timer's handler is late
    MaxDelay            \* bound: ticks a frame travels

ASSUME HeartbeatAssumption ==
    /\ HEARTBEAT_INTERVAL \in Nat \ {0}
    /\ HEARTBEAT_TIMEOUT \in Nat
    /\ MaxConnect \in Nat /\ MaxConnect < HEARTBEAT_TIMEOUT
    /\ MaxAccept \in Nat /\ MaxLag \in Nat /\ MaxDelay \in Nat

End == {"client", "server"}
Peer(e) == IF e = "client" THEN "server" ELSE "client"

VARIABLES
    state,      \* "none", then "open", then "timeout" or "closed"
    wait,       \* ticks connect(), then the accept, has taken
    since,      \* ticks since the timer of an end was armed
    age,        \* ticks since last_activity of an end
    flight,     \* for each end, the ticks left to the frames bound for it
    cut,        \* the network carries nothing any more
    silent      \* ticks since cut, at most Noticed

vars == <<state, wait, since, age, flight, cut, silent>>

\* The longest an end may take to notice that its peer is gone.
Noticed == MaxAccept + HEARTBEAT_TIMEOUT + HEARTBEAT_INTERVAL + MaxLag

\* last_activity of a Client is set by the constructor of its Impl, before
\* create() calls connect().
Init ==
    /\ state = [e \in End |-> "none"]
    /\ wait = 0
    /\ since = [e \in End |-> 0]
    /\ age = [e \in End |-> 0]
    /\ flight = [e \in End |-> {}]
    /\ cut = FALSE /\ silent = 0

\* connect() has returned and start_io arms the timer.
Connected ==
    /\ state["client"] = "none"
    /\ state' = [state EXCEPT !["client"] = "open"]
    /\ since' = [since EXCEPT !["client"] = 0]
    /\ wait' = 0
    /\ UNCHANGED <<age, flight, cut, silent>>

\* do_accept makes the Session, which sets last_activity_, and starts it.
Accept ==
    /\ state["client"] # "none" /\ state["server"] = "none"
    /\ state' = [state EXCEPT !["server"] = "open"]
    /\ since' = [since EXCEPT !["server"] = 0]
    /\ age' = [age EXCEPT !["server"] = 0]
    /\ wait' = 0
    /\ UNCHANGED <<flight, cut, silent>>

\* A frame is written to the socket of e.
Transmit(e) ==
    flight' = IF cut THEN flight
              ELSE [flight EXCEPT ![Peer(e)] = @ \union {MaxDelay}]

\* Mutant of Heartbeat: what is sent counts as activity.
Heartbeat_SendIsActivity(e) ==
    /\ state[e] = "open"
    /\ since[e] >= HEARTBEAT_INTERVAL
    /\ \/ /\ age[e] >= HEARTBEAT_TIMEOUT
          /\ state' = [state EXCEPT ![e] = "timeout"]
          /\ UNCHANGED <<since, age, flight>>
       \/ /\ age[e] < HEARTBEAT_TIMEOUT
          /\ Transmit(e)
          /\ since' = [since EXCEPT ![e] = 0]
          /\ age' = [age EXCEPT ![e] = 0]
          /\ UNCHANGED state
    /\ UNCHANGED <<wait, cut, silent>>

\* The handler of start_heartbeat.
Heartbeat(e) ==
    /\ state[e] = "open"
    /\ since[e] >= HEARTBEAT_INTERVAL
    /\ \/ /\ age[e] >= HEARTBEAT_TIMEOUT
          /\ state' = [state EXCEPT ![e] = "timeout"]
          /\ UNCHANGED <<since, flight>>
       \/ /\ age[e] < HEARTBEAT_TIMEOUT
          /\ Transmit(e)
          /\ since' = [since EXCEPT ![e] = 0]
          /\ UNCHANGED state
    /\ UNCHANGED <<wait, age, cut, silent>>

\* A data frame of the layer above.
SendData(e) ==
    /\ state[e] = "open"
    /\ Transmit(e)
    /\ UNCHANGED <<state, wait, since, age, cut, silent>>

\* Mutant of Receive: a keepalive is read and not noted.
Receive_NotNoted(e) ==
    /\ state[e] = "open"
    /\ \E l \in flight[e] :
         /\ \A m \in flight[e] : l <= m
         /\ flight' = [flight EXCEPT ![e] = @ \ {l}]
    /\ UNCHANGED <<state, wait, since, age, cut, silent>>

\* The handler of do_read_header, for a header of either kind: TCP delivers
\* in order.
Receive(e) ==
    /\ state[e] = "open"
    /\ \E l \in flight[e] :
         /\ \A m \in flight[e] : l <= m
         /\ flight' = [flight EXCEPT ![e] = @ \ {l}]
    /\ age' = [age EXCEPT ![e] = 0]
    /\ UNCHANGED <<state, wait, since, cut, silent>>

\* An end closes for any other reason: it was told to, its peer closed, its
\* write queue is full, a header is invalid, the socket failed.
Close(e) ==
    /\ state[e] = "open"
    /\ state' = [state EXCEPT ![e] = "closed"]
    /\ UNCHANGED <<wait, since, age, flight, cut, silent>>

\* The network goes silent: a cable is pulled, a host crashes.
Cut ==
    /\ state["client"] # "none" /\ ~cut
    /\ cut' = TRUE
    /\ flight' = [e \in End |-> {}]
    /\ UNCHANGED <<state, wait, since, age, silent>>

\* Nothing is due at once.
MayPass ==
    /\ state["client"] = "none" => wait < MaxConnect
    /\ state["client"] # "none" /\ state["server"] = "none" => wait < MaxAccept
    /\ \A e \in End : state[e] = "open" =>
         /\ since[e] < HEARTBEAT_INTERVAL + MaxLag
         /\ 0 \notin flight[e]

\* A frame that has arrived waits for the Session to be made.
Tick ==
    /\ MayPass
    /\ wait' = IF state["server"] = "none" THEN wait + 1 ELSE wait
    /\ since' = [e \in End |-> IF state[e] = "open" THEN since[e] + 1 ELSE since[e]]
    /\ age' = [e \in End |->
                 IF state[e] = "open" \/ (e = "client" /\ state[e] = "none")
                 THEN age[e] + 1 ELSE age[e]]
    /\ flight' = [e \in End |-> {IF l > 0 THEN l - 1 ELSE 0 : l \in flight[e]}]
    /\ silent' = IF cut /\ silent < Noticed THEN silent + 1 ELSE silent
    /\ UNCHANGED <<state, cut>>

Next ==
    \/ Connected \/ Accept \/ Cut \/ Tick
    \/ \E e \in End : Heartbeat(e) \/ SendData(e) \/ Receive(e) \/ Close(e)

Spec == Init /\ [][Next]_vars

-----------------------------------------------------------------------------
(* Properties.                                                             *)

HeartbeatTypeOK ==
    /\ state \in [End -> {"none", "open", "timeout", "closed"}]
    /\ wait \in Nat /\ silent \in Nat /\ cut \in BOOLEAN
    /\ since \in [End -> Nat] /\ age \in [End -> Nat]
    /\ flight \in [End -> SUBSET (0 .. MaxDelay)]

\* While both ends are alive and the network delivers, neither end mistakes
\* the other for dead, idle as the connection may be.  Connecting, accepting,
\* the keepalive period, a late handler and a slow frame share the timeout.
NoFalseTimeout ==
    (\E e \in End : state[e] = "timeout") =>
        cut \/ \E e \in End : state[e] = "closed"

\* A peer that is gone without a word is noticed: no end stays open longer
\* than a timeout and one more late period after the last frame, and what an
\* end sends into the void does not count as life.
DeadPeerNoticed == \A e \in End : state[e] = "open" => silent < Noticed

=============================================================================
