------------------------------- MODULE Client -------------------------------
(***************************************************************************)
(* NightNetwork/src/Client.cpp: the client's end of a connection.  Two     *)
(* threads: the I/O thread runs the handlers that are ready, one at a time *)
(* and oldest first; the owner (the window's thread) polls packets, sends, *)
(* and finally destroys the client.  They share connected, shutting_down   *)
(* and the bounded receive_queue.                                          *)
(*                                                                         *)
(* Completions of reads, writes and timer waits are queued as in module    *)
(* Session; every handler here also tests shutting_down, and the handler   *)
(* of a body read does so twice before it pushes.  The socket is open      *)
(* exactly while connected is set: both are changed by one handler.        *)
(*                                                                         *)
(* Packets and frames are numbered in the order they are read and sent;    *)
(* frame 0 is a keepalive.                                                 *)
(***************************************************************************)
EXTENDS Strand

CONSTANTS
    QueueCapacity,              \* capacity of receive_queue (4096)
    MAX_PENDING_WRITE_FRAMES,   \* 1024
    HEARTBEAT_INTERVAL,         \* 5 s, in ticks of the clock
    HEARTBEAT_TIMEOUT,          \* 15 s, in ticks of the clock
    MaxPackets,                 \* bound: packets the server sends
    MaxSends                    \* bound: calls of send

ASSUME ClientAssumption ==
    /\ QueueCapacity \in Nat \ {0}
    /\ MAX_PENDING_WRITE_FRAMES \in Nat \ {0}
    /\ HEARTBEAT_INTERVAL \in Nat \ {0}
    /\ HEARTBEAT_TIMEOUT \in Nat
    /\ HEARTBEAT_INTERVAL < HEARTBEAT_TIMEOUT
    /\ MaxPackets \in Nat
    /\ MaxSends \in Nat

VARIABLES
    ready,           \* handlers that are ready, oldest first
    running,         \* step of the body handler that is running
    header_reads,    \* outstanding reads of do_read_header
    body_reads,      \* outstanding reads of do_read_body
    arrived,         \* packets read from the socket
    receive_queue,   \* receive_queue
    dropped_packets, \* dropped_packets
    polled,          \* packets the owner has polled
    write_queue,     \* write_queue
    writing,         \* writing
    writes,          \* outstanding writes of do_write
    sent,            \* frames posted by send
    written,         \* data frames the socket has written, in order
    waits,           \* outstanding waits on heartbeat_timer
    cancelled,       \* the outstanding wait has been cancelled
    timer,           \* ticks left until heartbeat_timer expires
    age,             \* ticks since last_activity, at most HEARTBEAT_TIMEOUT
    connected,       \* connected, and the socket is open
    shutting_down,   \* shutting_down
    stopped,         \* io.stop() has been called
    owner            \* how far the owner has got in destroying the client

readVars  == <<running, header_reads, body_reads, arrived>>
queueVars == <<receive_queue, dropped_packets>>
writeVars == <<write_queue, writing, writes>>
timerVars == <<waits, timer, age>>
lossVars  == <<connected, cancelled>>
stopVars  == <<shutting_down, stopped, owner>>
vars == <<ready, readVars, queueVars, polled, writeVars, sent, written,
          timerVars, lossVars, stopVars>>

-----------------------------------------------------------------------------
(* What handlers do.                                                       *)

do_read_header == header_reads' = header_reads + 1 /\ UNCHANGED body_reads
do_read_body   == body_reads' = body_reads + 1 /\ UNCHANGED header_reads

\* queue is write_queue as do_write finds it.
do_write(queue) ==
    IF queue = <<>> THEN writing' = FALSE /\ UNCHANGED writes
                    ELSE writing' = TRUE /\ writes' = writes + 1

close_socket == connected' = FALSE /\ cancelled' = (waits > 0)

handle_disconnect ==
    IF connected THEN close_socket ELSE UNCHANGED lossVars

Pending == Len(write_queue)

enqueue_frame(frame) ==
    \/ /\ shutting_down \/ ~connected
       /\ UNCHANGED <<writeVars, lossVars>>
    \/ /\ ~shutting_down /\ connected
       /\ Pending >= MAX_PENDING_WRITE_FRAMES
       /\ handle_disconnect
       /\ UNCHANGED writeVars
    \/ /\ ~shutting_down /\ connected
       /\ Pending < MAX_PENDING_WRITE_FRAMES
       /\ write_queue' = Append(write_queue, frame)
       /\ IF writing THEN UNCHANGED <<writing, writes>> ELSE do_write(write_queue')
       /\ UNCHANGED lossVars

start_heartbeat == timer' = HEARTBEAT_INTERVAL /\ waits' = waits + 1

-----------------------------------------------------------------------------
(* Completion of outstanding operations.                                   *)

Ready(op, result) ==
    /\ ~stopped
    /\ ready' = Append(ready, [op |-> op, result |-> result])

\* What the server sent, as decode_header sees it; "bad" is any header that
\* decode_header rejects.
HeaderArrives(result) ==
    /\ header_reads > 0
    /\ result = "error" \/ connected
    /\ result = "data" => arrived < MaxPackets
    /\ header_reads' = header_reads - 1
    /\ Ready("header", result)
    /\ UNCHANGED <<running, body_reads, arrived, queueVars, polled, writeVars,
                   sent, written, timerVars, lossVars, stopVars>>

BodyArrives(result) ==
    /\ body_reads > 0
    /\ result = "error" \/ connected
    /\ body_reads' = body_reads - 1
    /\ arrived' = IF result = "ok" THEN arrived + 1 ELSE arrived
    /\ Ready("body", result)
    /\ UNCHANGED <<running, header_reads, queueVars, polled, writeVars, sent,
                   written, timerVars, lossVars, stopVars>>

WriteEnds(result) ==
    /\ writes > 0
    /\ result = "error" \/ connected
    /\ writes' = writes - 1
    /\ Ready("written", result)
    /\ written' = IF result = "ok" /\ Head(write_queue) # keepalive
                  THEN Append(written, Head(write_queue)) ELSE written
    /\ UNCHANGED <<readVars, queueVars, polled, write_queue, writing, sent,
                   timerVars, lossVars, stopVars>>

TimerExpires ==
    /\ waits > 0 /\ ~cancelled /\ timer = 0
    /\ waits' = waits - 1
    /\ Ready("timer", "ok")
    /\ UNCHANGED <<readVars, queueVars, polled, writeVars, sent, written,
                   timer, age, lossVars, stopVars>>

WaitAborted ==
    /\ waits > 0 /\ cancelled
    /\ waits' = waits - 1
    /\ cancelled' = FALSE
    /\ Ready("timer", "error")
    /\ UNCHANGED <<readVars, queueVars, polled, writeVars, sent, written,
                   timer, age, connected, stopVars>>

\* The clock.  Nothing makes a handler run before the next tick.
Tick ==
    /\ age < HEARTBEAT_TIMEOUT \/ timer > 0
    /\ age' = IF age < HEARTBEAT_TIMEOUT THEN age + 1 ELSE age
    /\ timer' = IF timer > 0 THEN timer - 1 ELSE timer
    /\ UNCHANGED <<ready, readVars, queueVars, polled, writeVars, sent,
                   written, waits, lossVars, stopVars>>

-----------------------------------------------------------------------------
(* Handlers, on the I/O thread; each takes the oldest that is ready.       *)

Run(op) ==
    /\ running = "idle" /\ ~stopped
    /\ ready # <<>>
    /\ Head(ready).op = op
    /\ ready' = Tail(ready)

Failed == Head(ready).result = "error" \/ shutting_down

OnHeader ==
    /\ Run("header")
    /\ \/ /\ Failed \/ Head(ready).result = "bad"
          /\ handle_disconnect
          /\ UNCHANGED <<header_reads, body_reads, age>>
       \/ /\ ~Failed /\ Head(ready).result = "keepalive"
          /\ age' = 0
          /\ do_read_header
          /\ UNCHANGED lossVars
       \/ /\ ~Failed /\ Head(ready).result = "data"
          /\ age' = 0
          /\ do_read_body
          /\ UNCHANGED lossVars
    /\ UNCHANGED <<running, arrived, queueVars, polled, writeVars, sent,
                   written, waits, timer, stopVars>>

OnBody ==
    /\ Run("body")
    /\ \/ /\ Failed
          /\ handle_disconnect
          /\ UNCHANGED running
       \/ /\ ~Failed
          /\ running' = "test"
          /\ UNCHANGED lossVars
    /\ UNCHANGED <<header_reads, body_reads, arrived, queueVars, polled,
                   writeVars, sent, written, timerVars, stopVars>>

\* The second test of shutting_down; the handler returns without a new read.
TestShutdown ==
    /\ running = "test"
    /\ running' = IF shutting_down THEN "idle" ELSE "push"
    /\ UNCHANGED <<ready, header_reads, body_reads, arrived, queueVars, polled,
                   writeVars, sent, written, timerVars, lossVars, stopVars>>

Full == Len(receive_queue) >= QueueCapacity

\* Mutant of PushPacket: no further read after a packet that does not fit.
PushPacket_GivesUp ==
    /\ running = "push"
    /\ running' = "idle"
    /\ IF Full
       THEN /\ dropped_packets' = dropped_packets + 1
            /\ UNCHANGED <<receive_queue, header_reads, body_reads>>
       ELSE /\ receive_queue' = Append(receive_queue, arrived)
            /\ do_read_header
            /\ UNCHANGED dropped_packets
    /\ UNCHANGED <<ready, arrived, polled, writeVars, sent, written, timerVars,
                   lossVars, stopVars>>

\* Mutant of PushPacket: a packet that does not fit is not counted.
PushPacket_Uncounted ==
    /\ running = "push"
    /\ running' = "idle"
    /\ receive_queue' = IF Full THEN receive_queue ELSE Append(receive_queue, arrived)
    /\ do_read_header
    /\ UNCHANGED <<ready, arrived, dropped_packets, polled, writeVars, sent,
                   written, timerVars, lossVars, stopVars>>

PushPacket ==
    /\ running = "push"
    /\ running' = "idle"
    /\ \/ /\ ~Full
          /\ receive_queue' = Append(receive_queue, arrived)
          /\ UNCHANGED dropped_packets
       \/ /\ Full
          /\ dropped_packets' = dropped_packets + 1
          /\ UNCHANGED receive_queue
    /\ do_read_header
    /\ UNCHANGED <<ready, arrived, polled, writeVars, sent, written, timerVars,
                   lossVars, stopVars>>

\* The frame is popped whether or not it was written.
OnWritten ==
    /\ Run("written")
    /\ write_queue' = Tail(write_queue)
    /\ \/ /\ Failed
          /\ handle_disconnect
          /\ UNCHANGED <<writing, writes>>
       \/ /\ ~Failed
          /\ do_write(write_queue')
          /\ UNCHANGED lossVars
    /\ UNCHANGED <<readVars, queueVars, polled, sent, written, timerVars,
                   stopVars>>

\* Mutant of OnTimer: the timer is not armed again.
OnTimer_Once ==
    /\ Run("timer")
    /\ IF Head(ready).result = "ok" /\ age >= HEARTBEAT_TIMEOUT
       THEN handle_disconnect ELSE UNCHANGED lossVars
    /\ UNCHANGED <<readVars, queueVars, polled, writeVars, sent, written,
                   timerVars, stopVars>>

\* This handler does not test shutting_down; enqueue_frame does.
OnTimer ==
    /\ Run("timer")
    /\ \/ /\ Head(ready).result = "error"
          /\ UNCHANGED <<writeVars, lossVars, waits, timer>>
       \/ /\ Head(ready).result = "ok"
          /\ age >= HEARTBEAT_TIMEOUT
          /\ handle_disconnect
          /\ UNCHANGED <<writeVars, waits, timer>>
       \/ /\ Head(ready).result = "ok"
          /\ age < HEARTBEAT_TIMEOUT
          /\ enqueue_frame(keepalive)
          /\ start_heartbeat
    /\ UNCHANGED <<readVars, queueVars, polled, sent, written, age, stopVars>>

SendTask ==
    /\ Run("send")
    /\ enqueue_frame(Head(ready).frame)
    /\ UNCHANGED <<readVars, queueVars, polled, sent, written, timerVars,
                   stopVars>>

\* Mutant of ShutdownTask: the promise is not kept.
ShutdownTask_NoPromise ==
    /\ Run("shutdown")
    /\ close_socket
    /\ UNCHANGED <<readVars, queueVars, polled, writeVars, sent, written,
                   timerVars, stopVars>>

ShutdownTask ==
    /\ Run("shutdown")
    /\ close_socket
    /\ owner' = "closed"
    /\ UNCHANGED <<readVars, queueVars, polled, writeVars, sent, written,
                   timerVars, shutting_down, stopped>>

-----------------------------------------------------------------------------
(* The owner.                                                              *)

poll_packet ==
    /\ owner = "running"
    /\ receive_queue # <<>>
    /\ receive_queue' = Tail(receive_queue)
    /\ polled' = Append(polled, Head(receive_queue))
    /\ UNCHANGED <<ready, readVars, dropped_packets, writeVars, sent, written,
                   timerVars, lossVars, stopVars>>

\* Mutant of send: the frame is handed over ahead of those posted before.
send_Overtakes ==
    /\ owner = "running"
    /\ connected
    /\ sent < MaxSends
    /\ sent' = sent + 1
    /\ ready' = <<[op |-> "send", frame |-> sent + 1]>> \o ready
    /\ UNCHANGED <<readVars, queueVars, polled, writeVars, written, timerVars,
                   lossVars, stopVars>>

\* A client that has noticed the loss of the connection sends nothing.
send ==
    /\ owner = "running"
    /\ connected
    /\ sent < MaxSends
    /\ sent' = sent + 1
    /\ ready' = Append(ready, [op |-> "send", frame |-> sent + 1])
    /\ UNCHANGED <<readVars, queueVars, polled, writeVars, written, timerVars,
                   lossVars, stopVars>>

BeginShutdown ==
    /\ owner = "running"
    /\ shutting_down' = TRUE
    /\ owner' = "posting"
    /\ UNCHANGED <<ready, readVars, queueVars, polled, writeVars, sent, written,
                   timerVars, lossVars, stopped>>

\* The owner then waits for the promise that ShutdownTask keeps.
PostShutdown ==
    /\ owner = "posting"
    /\ owner' = "waiting"
    /\ Ready("shutdown", "ok")
    /\ UNCHANGED <<readVars, queueVars, polled, writeVars, sent, written,
                   timerVars, lossVars, shutting_down, stopped>>

Stop ==
    /\ owner = "closed"
    /\ owner' = "joining"
    /\ stopped' = TRUE
    /\ UNCHANGED <<ready, readVars, queueVars, polled, writeVars, sent, written,
                   timerVars, lossVars, shutting_down>>

JoinAndDrain ==
    /\ owner = "joining"
    /\ running = "idle"
    /\ owner' = "destroyed"
    /\ receive_queue' = <<>>
    /\ UNCHANGED <<ready, readVars, dropped_packets, polled, writeVars, sent,
                   written, timerVars, lossVars, shutting_down, stopped>>

-----------------------------------------------------------------------------

\* Client::create has connected, and start_io has begun to read and to wait.
Init ==
    /\ ready = <<>> /\ running = "idle"
    /\ header_reads = 1 /\ body_reads = 0 /\ arrived = 0
    /\ receive_queue = <<>> /\ dropped_packets = 0 /\ polled = <<>>
    /\ write_queue = <<>> /\ writing = FALSE /\ writes = 0
    /\ sent = 0 /\ written = <<>>
    /\ waits = 1 /\ timer = HEARTBEAT_INTERVAL /\ age = 0
    /\ connected = TRUE /\ cancelled = FALSE
    /\ shutting_down = FALSE /\ stopped = FALSE /\ owner = "running"

Completion ==
    \/ \E r \in {"error", "bad", "keepalive", "data"} : HeaderArrives(r)
    \/ \E r \in {"error", "ok"} : BodyArrives(r) \/ WriteEnds(r)

IoThread == OnHeader \/ OnBody \/ TestShutdown \/ PushPacket \/ OnWritten
            \/ OnTimer \/ SendTask \/ ShutdownTask

Shutdown == PostShutdown \/ Stop \/ JoinAndDrain

Next ==
    \/ Completion \/ TimerExpires \/ WaitAborted \/ Tick
    \/ IoThread
    \/ poll_packet \/ send \/ BeginShutdown \/ Shutdown

Spec == Init /\ [][Next]_vars

\* The I/O thread runs what is ready, the clock and the timer go on, and the
\* owner goes through with a shutdown.  Nothing makes the server answer or
\* take what is written, or the owner poll, send or shut down.
FairSpec ==
    /\ Spec
    /\ WF_vars(IoThread)
    /\ WF_vars(Tick) /\ WF_vars(TimerExpires) /\ WF_vars(WaitAborted)
    /\ WF_vars(Shutdown)

-----------------------------------------------------------------------------
(* Properties.                                                             *)

\* Handlers of kind op that are ready.
Queued(op) == Count(ready, op)

\* There is never more than one read, and while the client is connected and
\* not shutting down there is one: neither a full receive_queue nor the
\* handler's two tests of shutting_down leave the connection deaf.
OneRead ==
    LET chain == header_reads + body_reads + Queued("header") + Queued("body")
                 + (IF running = "idle" THEN 0 ELSE 1)
    IN  /\ chain <= 1
        /\ connected /\ ~shutting_down => chain = 1

\* A packet has been read and is on its way to receive_queue.
InHand == running # "idle" \/ Contains(ready, [op |-> "body", result |-> "ok"])

\* The owner polls packets in the order in which the server sent them, and
\* every packet that is missing has been counted by dropped_packets.
PacketsInOrder ==
    LET seen == polled \o receive_queue
    IN  /\ \A i, j \in DOMAIN seen : i < j => seen[i] < seen[j]
        /\ ~shutting_down =>
             Len(seen) + dropped_packets + (IF InHand THEN 1 ELSE 0) = arrived

\* While the client is connected and not shutting down no frame is lost,
\* doubled or overtaken; what has been written is always a prefix of what was
\* sent.
SendsInOrder ==
    /\ written = [i \in 1 .. Len(written) |-> i]
    /\ connected /\ ~shutting_down =>
         InTransit(ready, "send", write_queue, Len(written), sent)

\* A server that falls silent is noticed: is_connected() turns false, even if
\* a write is stuck, unless the client is destroyed first.
LossIsNoticed ==
    []<>(~connected \/ age < HEARTBEAT_TIMEOUT \/ shutting_down)

\* ~Client terminates, whatever the I/O thread is doing meanwhile: an owner that
\* has begun to destroy the client, which it never takes back, gets to the end.
ShutdownReturns == []<>(owner \in {"running", "destroyed"})

=============================================================================
