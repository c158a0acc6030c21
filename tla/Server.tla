------------------------------- MODULE Server -------------------------------
(***************************************************************************)
(* NightNetwork/src/Server.cpp: the accept loop, the table of sessions,    *)
(* the packet queue and the shutdown protocol.                             *)
(*                                                                         *)
(* Three parties meet here: the owner (the game thread, which polls, sends *)
(* and finally destroys the server), the tasks of server_strand, one at a  *)
(* time, and the callbacks of the sessions, on the sessions' own strands.  *)
(* push_packet tests shutting_down and pushes in two steps, so each of its *)
(* callers may be overtaken in between.                                    *)
(*                                                                         *)
(* The strand of a session is made over the executor of its socket, which  *)
(* is server_strand because the acceptor's is: today's build runs the      *)
(* callbacks one at a time with the tasks of server_strand.  The module    *)
(* does not rely on that and lets them overlap, which allows more.         *)
(*                                                                         *)
(* A session is what module Session shows it to be: it delivers data while *)
(* open, calls on_close once, and delivers at most one packet after that.  *)
(***************************************************************************)
EXTENDS Strand

CONSTANTS
    QueueCapacity,   \* capacity of packet_queue (8192)
    MaxSessions,     \* bound: connections accepted
    MaxCalls         \* bound: calls of send, broadcast and disconnect

ASSUME ServerAssumption ==
    /\ QueueCapacity \in Nat \ {0}
    /\ MaxSessions \in Nat \ {0}
    /\ MaxCalls \in Nat

Ids == 1 .. MaxSessions

VARIABLES
    server_strand,    \* tasks posted to server_strand, oldest first
    accepts,          \* outstanding async_accept operations
    accepting,        \* step of the accept handler that is running
    next_id,          \* next_id
    sessions,         \* ids in sessions
    link,             \* link[s]: the life of session s
    callback,         \* callback[s]: step of the callback of s that is running
    close_posted,     \* sessions whose close() has been called, task not run
    packet_queue,     \* packet_queue
    dropped_packets,  \* dropped_packets has left zero
    shutting_down,    \* shutting_down
    stopped,          \* io.stop() has been called
    owner,            \* how far the owner has got in destroying the server
    calls,            \* number of calls made by the owner
    polled,           \* polled[s]: Connect and Disconnect packets polled for s
    called,           \* called[s]: sends made to s after its Connect was polled
    disconnected,     \* open sessions passed to Server::disconnect
    handed            \* handed[s]: calls whose frame reached session s

acceptVars  == <<accepts, accepting, next_id>>
ownerVars   == <<owner, calls, polled, called, disconnected>>
sessionVars == <<sessions, link, callback, close_posted>>
queueVars   == <<packet_queue, dropped_packets>>
stopVars    == <<shutting_down, stopped>>
otherVars   == <<queueVars, stopVars, ownerVars, handed>>
vars == <<server_strand, acceptVars, sessionVars, otherVars>>

Packet(type, s) == [type |-> type, session_id |-> s]
Task(name, s, n) == [op |-> name, session_id |-> s, call |-> n]
NoId == 0

Full == Len(packet_queue) >= QueueCapacity

\* The second half of push_packet.
Push(packet) ==
    IF Full THEN /\ dropped_packets' = TRUE
                 /\ UNCHANGED packet_queue
            ELSE /\ packet_queue' = Append(packet_queue, packet)
                 /\ UNCHANGED dropped_packets

-----------------------------------------------------------------------------
(* server_strand: the accept handler, in steps.                            *)

\* No other task runs while the accept handler does, and none at all once
\* the io_context has been stopped.
StrandFree == accepting = "idle" /\ ~stopped

Run(name) ==
    /\ StrandFree
    /\ server_strand # <<>>
    /\ Head(server_strand).op = name
    /\ server_strand' = Tail(server_strand)

AcceptCompletes(result) ==
    /\ accepts > 0
    /\ ~stopped
    /\ result = "accepted" =>
         next_id <= MaxSessions /\ owner \notin {"closed", "joining", "destroyed"}
    /\ accepts' = accepts - 1
    /\ server_strand' = Append(server_strand, Task(result, NoId, 0))
    /\ UNCHANGED <<accepting, next_id, sessionVars, otherVars>>

\* Mutant of AcceptFails: an error ends the accept loop.
AcceptFails_Returns ==
    /\ Run("accept_failed")
    /\ UNCHANGED <<acceptVars, sessionVars, otherVars>>

AcceptFails ==
    /\ Run("accept_failed")
    /\ accepting' = "again"
    /\ UNCHANGED <<accepts, next_id, sessionVars, otherVars>>

\* Mutant of Accepted: the session is started before Connect is pushed.
Accepted_StartsFirst ==
    /\ Run("accepted")
    /\ accepting' = "check"
    /\ next_id' = next_id + 1
    /\ link' = [link EXCEPT ![next_id] = "open"]
    /\ UNCHANGED <<accepts, sessions, callback, close_posted, otherVars>>

Accepted ==
    /\ Run("accepted")
    /\ IF shutting_down
       THEN accepting' = "again" /\ UNCHANGED next_id
       ELSE accepting' = "check" /\ next_id' = next_id + 1
    /\ UNCHANGED <<accepts, sessionVars, otherVars>>

\* push_packet looks at shutting_down once more.
AcceptCheck ==
    /\ accepting = "check"
    /\ accepting' = IF shutting_down THEN "again" ELSE "push"
    /\ UNCHANGED <<server_strand, accepts, next_id, sessionVars, otherVars>>

\* A session whose Connect packet does not fit is dropped unstarted.
AcceptPush ==
    /\ accepting = "push"
    /\ Push(Packet("Connect", next_id - 1))
    /\ accepting' = IF Full THEN "again" ELSE "enter"
    /\ UNCHANGED <<server_strand, accepts, next_id, sessionVars, stopVars,
                   ownerVars, handed>>

AcceptEnter ==
    /\ accepting = "enter"
    /\ sessions' = sessions \cup {next_id - 1}
    /\ accepting' = "start"
    /\ UNCHANGED <<server_strand, accepts, next_id, link, callback,
                   close_posted, otherVars>>

AcceptStart ==
    /\ accepting = "start"
    /\ link' = [link EXCEPT ![next_id - 1] = "open"]
    /\ accepting' = "again"
    /\ UNCHANGED <<server_strand, accepts, next_id, sessions, callback,
                   close_posted, otherVars>>

do_accept ==
    /\ accepting = "again"
    /\ accepting' = "idle"
    /\ accepts' = IF shutting_down THEN accepts ELSE accepts + 1
    /\ UNCHANGED <<server_strand, next_id, sessionVars, otherVars>>

-----------------------------------------------------------------------------
(* server_strand: posted tasks.                                            *)

EraseTask ==
    /\ Run("erase")
    /\ sessions' = sessions \ {Head(server_strand).session_id}
    /\ UNCHANGED <<acceptVars, link, callback, close_posted, otherVars>>

\* enqueue_raw_frame on each session of receivers; a closed session drops it.
HandOver(receivers, n) ==
    handed' = [s \in Ids |-> IF s \in receivers /\ link[s] = "open"
                             THEN Append(handed[s], n) ELSE handed[s]]

SendTask ==
    /\ Run("send")
    /\ IF shutting_down THEN UNCHANGED handed
       ELSE HandOver(sessions \cap {Head(server_strand).session_id},
                     Head(server_strand).call)
    /\ UNCHANGED <<acceptVars, sessionVars, queueVars, stopVars, ownerVars>>

BroadcastTask ==
    /\ Run("broadcast")
    /\ IF shutting_down THEN UNCHANGED handed
       ELSE HandOver(sessions, Head(server_strand).call)
    /\ UNCHANGED <<acceptVars, sessionVars, queueVars, stopVars, ownerVars>>

DisconnectTask ==
    /\ Run("disconnect")
    /\ close_posted' = IF shutting_down THEN close_posted
                       ELSE close_posted \cup
                              (sessions \cap {Head(server_strand).session_id})
    /\ UNCHANGED <<acceptVars, sessions, link, callback, otherVars>>

\* Mutant of ShutdownTask: the promise is not kept.
ShutdownTask_NoPromise ==
    /\ Run("shutdown")
    /\ close_posted' = close_posted \cup sessions
    /\ UNCHANGED <<acceptVars, sessions, link, callback, otherVars>>

\* The acceptor is closed: an accept that completes from now on has failed.
ShutdownTask ==
    /\ Run("shutdown")
    /\ close_posted' = close_posted \cup sessions
    /\ owner' = "closed"
    /\ UNCHANGED <<acceptVars, sessions, link, callback, queueVars, stopVars,
                   calls, polled, called, disconnected, handed>>

-----------------------------------------------------------------------------
(* Session callbacks, on the strands of the sessions.                      *)

SessionReady(s) == callback[s] = "idle" /\ ~stopped

Goto(s, step) == callback' = [callback EXCEPT ![s] = step]

\* on_receive: push_packet's test of shutting_down ...
OnReceive(s) ==
    /\ SessionReady(s)
    /\ \/ link[s] = "open" /\ UNCHANGED link
       \/ link[s] = "closed" /\ link' = [link EXCEPT ![s] = "gone"]
    /\ Goto(s, IF shutting_down THEN "idle" ELSE "data")
    /\ UNCHANGED <<server_strand, acceptVars, sessions, close_posted,
                   otherVars>>

\* ... and its push.
PushData(s) ==
    /\ callback[s] = "data"
    /\ Push(Packet("Data", s))
    /\ Goto(s, "idle")
    /\ UNCHANGED <<server_strand, acceptVars, sessions, link, close_posted,
                   stopVars, ownerVars, handed>>

\* Mutant of OnClose: a close asked for by the server is not reported.
OnClose_Quiet(s) ==
    /\ SessionReady(s)
    /\ link[s] = "open"
    /\ link' = [link EXCEPT ![s] = "closed"]
    /\ close_posted' = close_posted \ {s}
    /\ Goto(s, IF shutting_down \/ s \in close_posted THEN "erase" ELSE "disconnect")
    /\ UNCHANGED <<server_strand, acceptVars, sessions, otherVars>>

\* handle_close runs for a reason of its own, or for a call of close(); a
\* close() of a session that is closed does nothing.
OnClose(s) ==
    /\ SessionReady(s)
    /\ link[s] = "open"
    /\ link' = [link EXCEPT ![s] = "closed"]
    /\ close_posted' = close_posted \ {s}
    /\ Goto(s, IF shutting_down THEN "erase" ELSE "disconnect")
    /\ UNCHANGED <<server_strand, acceptVars, sessions, otherVars>>

CloseAgain(s) ==
    /\ SessionReady(s)
    /\ s \in close_posted
    /\ link[s] # "open"
    /\ close_posted' = close_posted \ {s}
    /\ UNCHANGED <<server_strand, acceptVars, sessions, link, callback,
                   otherVars>>

\* push_packet's result is not looked at.
PushDisconnect(s) ==
    /\ callback[s] = "disconnect"
    /\ Push(Packet("Disconnect", s))
    /\ Goto(s, "erase")
    /\ UNCHANGED <<server_strand, acceptVars, sessions, link, close_posted,
                   stopVars, ownerVars, handed>>

\* Mutant of PostErase: the session is never erased.
PostErase_Skipped(s) ==
    /\ callback[s] = "erase"
    /\ Goto(s, "idle")
    /\ UNCHANGED <<server_strand, acceptVars, sessions, link, close_posted,
                   otherVars>>

PostErase(s) ==
    /\ callback[s] = "erase"
    /\ server_strand' = Append(server_strand, Task("erase", s, 0))
    /\ Goto(s, "idle")
    /\ UNCHANGED <<acceptVars, sessions, link, close_posted, otherVars>>

-----------------------------------------------------------------------------
(* The owner.                                                              *)

poll_packet ==
    /\ owner = "running"
    /\ packet_queue # <<>>
    /\ packet_queue' = Tail(packet_queue)
    /\ LET p == Head(packet_queue)
       IN  polled' = [polled EXCEPT ![p.session_id] = @ \cup ({p.type} \ {"Data"})]
    /\ UNCHANGED <<server_strand, acceptVars, sessionVars, dropped_packets,
                   stopVars, owner, calls, called, disconnected, handed>>

\* Mutant of Call: the task overtakes those already posted.
Call_Overtakes(name, s) ==
    /\ owner = "running"
    /\ calls < MaxCalls
    /\ calls' = calls + 1
    /\ server_strand' = <<Task(name, s, calls + 1)>> \o server_strand
    /\ UNCHANGED <<acceptVars, sessionVars, queueVars, stopVars, owner,
                   polled, handed>>

Call(name, s) ==
    /\ owner = "running"
    /\ calls < MaxCalls
    /\ calls' = calls + 1
    /\ server_strand' = Append(server_strand, Task(name, s, calls + 1))
    /\ UNCHANGED <<acceptVars, sessionVars, queueVars, stopVars, owner,
                   polled, handed>>

send(s) ==
    /\ Call("send", s)
    /\ called' = IF "Connect" \in polled[s]
                 THEN [called EXCEPT ![s] = @ \cup {calls + 1}] ELSE called
    /\ UNCHANGED disconnected

broadcast == Call("broadcast", NoId) /\ UNCHANGED <<called, disconnected>>

disconnect(s) ==
    /\ Call("disconnect", s)
    /\ disconnected' = IF "Connect" \in polled[s] /\ link[s] = "open"
                       THEN disconnected \cup {s} ELSE disconnected
    /\ UNCHANGED called

BeginShutdown ==
    /\ owner = "running"
    /\ shutting_down' = TRUE
    /\ owner' = "posting"
    /\ UNCHANGED <<server_strand, acceptVars, sessionVars, queueVars, stopped,
                   calls, polled, called, disconnected, handed>>

\* The owner then waits for the promise that ShutdownTask keeps.
PostShutdown ==
    /\ owner = "posting"
    /\ owner' = "waiting"
    /\ server_strand' = Append(server_strand, Task("shutdown", NoId, 0))
    /\ UNCHANGED <<acceptVars, sessionVars, queueVars, stopVars, calls,
                   polled, called, disconnected, handed>>

Stop ==
    /\ owner = "closed"
    /\ owner' = "joining"
    /\ stopped' = TRUE
    /\ UNCHANGED <<server_strand, acceptVars, sessionVars, queueVars,
                   shutting_down, calls, polled, called, disconnected,
                   handed>>

\* A handler that is running when the io_context stops runs to its end; then
\* the threads can be joined, and the destructor empties the queue.
JoinAndDrain ==
    /\ owner = "joining"
    /\ accepting = "idle"
    /\ \A s \in Ids : callback[s] = "idle"
    /\ owner' = "destroyed"
    /\ packet_queue' = <<>>
    /\ UNCHANGED <<server_strand, acceptVars, sessionVars, dropped_packets,
                   stopVars, calls, polled, called, disconnected, handed>>

-----------------------------------------------------------------------------

\* Server::Server has called do_accept and started the threads.
Init ==
    /\ server_strand = <<>>
    /\ accepts = 1 /\ accepting = "idle" /\ next_id = 1
    /\ sessions = {}
    /\ link = [s \in Ids |-> "new"]
    /\ callback = [s \in Ids |-> "idle"]
    /\ close_posted = {}
    /\ packet_queue = <<>> /\ dropped_packets = FALSE
    /\ shutting_down = FALSE /\ stopped = FALSE
    /\ owner = "running" /\ calls = 0
    /\ polled = [s \in Ids |-> {}]
    /\ called = [s \in Ids |-> {}]
    /\ disconnected = {}
    /\ handed = [s \in Ids |-> <<>>]

AcceptHandler == AcceptFails \/ Accepted \/ AcceptCheck \/ AcceptPush
                 \/ AcceptEnter \/ AcceptStart \/ do_accept

ServerStrand == AcceptHandler \/ EraseTask \/ SendTask \/ BroadcastTask
                \/ DisconnectTask \/ ShutdownTask

Callback(s) == PushData(s) \/ PushDisconnect(s) \/ PostErase(s)

Shutdown == PostShutdown \/ Stop \/ JoinAndDrain

Next ==
    \/ \E r \in {"accepted", "accept_failed"} : AcceptCompletes(r)
    \/ ServerStrand
    \/ \E s \in Ids : \/ OnReceive(s) \/ OnClose(s) \/ CloseAgain(s)
                      \/ Callback(s)
                      \/ send(s) \/ disconnect(s)
    \/ broadcast \/ poll_packet
    \/ BeginShutdown \/ Shutdown

Spec == Init /\ [][Next]_vars

\* The I/O threads run what is posted and finish what they run, and the owner
\* goes through with a shutdown.  A posted close() waits in the FIFO of its
\* session's strand and so is not overtaken by data for ever: hence SF.
\* Nothing makes the owner poll, call or shut down.
FairSpec ==
    /\ Spec
    /\ WF_vars(ServerStrand)
    /\ \A s \in Ids : /\ WF_vars(Callback(s))
                      /\ SF_vars(s \in close_posted /\ OnClose(s))
    /\ WF_vars(Shutdown)

-----------------------------------------------------------------------------
(* Properties.                                                             *)

Queued(name) == Count(server_strand, name)

Posted(name, s, n) == Contains(server_strand, Task(name, s, n))

InQueue(packet) == Contains(packet_queue, packet)

\* While the server runs there is always exactly one accept under way: the
\* loop survives failed accepts and refused sessions, and never forks.
AcceptLoopAlive ==
    ~shutting_down =>
        accepts + Queued("accepted") + Queued("accept_failed")
          = IF accepting = "idle" THEN 1 ELSE 0

\* Connect is the first packet of a session, and no other is: although it is
\* pushed before the session is entered and started, and data is pushed by the
\* session's own handlers.
ConnectFirst ==
    \A i \in DOMAIN packet_queue :
        LET s == packet_queue[i].session_id
        IN  packet_queue[i].type = "Connect" <=>
              /\ "Connect" \notin polled[s]
              /\ \A j \in 1 .. i - 1 : packet_queue[j].session_id # s

\* A session in the table is alive, or its removal is certain: the callback
\* that posts it is running or the erase task is queued.  A session that is
\* open is in the table, so disconnect and shutdown find it.
TableIsExact ==
    \A s \in Ids :
        /\ s \in sessions /\ link[s] \in {"closed", "gone"} =>
             \/ callback[s] \in {"disconnect", "erase"}
             \/ Posted("erase", s, 0)
        /\ link[s] = "open" => s \in sessions

\* Once the owner has polled Connect, what it sends to a session that stays
\* open reaches it, each frame once and in the order of the calls, broadcasts
\* in between notwithstanding.
SendsReachSession ==
    \A s \in Ids :
        /\ \A i, j \in DOMAIN handed[s] : i < j => handed[s][i] < handed[s][j]
        /\ link[s] = "open" /\ ~shutting_down => \A n \in called[s] :
             Contains(handed[s], n) \/ Posted("send", s, n)

\* A session whose Connect was polled and that is no longer open has its
\* Disconnect on the way or delivered, as long as nothing was dropped and the
\* server runs.
DisconnectDelivered(s) ==
    \/ callback[s] = "disconnect"
    \/ InQueue(Packet("Disconnect", s))
    \/ "Disconnect" \in polled[s]
ClosedIsReported ==
    \A s \in Ids :
        link[s] \in {"closed", "gone"} /\ ~dropped_packets /\ ~shutting_down =>
            DisconnectDelivered(s)

\* NightNetwork/README.md: after disconnect() the Disconnect event of the
\* session is delivered through poll_packet().  It is not when packet_queue is
\* full at that moment, because nobody looks at push_packet's result.
DisconnectAlwaysReported ==
    \A s \in disconnected :
        link[s] \in {"closed", "gone"} /\ ~shutting_down => DisconnectDelivered(s)

\* ~Server terminates: the promise is kept, the threads stop, whatever the
\* sessions and the accept loop are doing meanwhile.
ShutdownTerminates == shutting_down ~> owner = "destroyed"

\* A session that disconnect() finds is closed and leaves the table, unless
\* the server is shut down first.
DisconnectTakesEffect ==
    \A s \in Ids : s \in close_posted ~> s \notin sessions \/ shutting_down

=============================================================================
