------------------------------ MODULE Session ------------------------------
(***************************************************************************)
(* NightNetwork/src/Session.cpp: one TCP connection of the server.         *)
(*                                                                         *)
(* The handlers of a session run one at a time on its strand, a FIFO of    *)
(* completed operations and posted tasks.  An asynchronous operation (a    *)
(* header read, a body read, a write, a timer wait) is started by a        *)
(* handler, completes at any later time and then queues its own handler.   *)
(* handle_close shuts the socket: operations that complete afterwards      *)
(* fail, but a handler already queued keeps its result, and only           *)
(* enqueue_write and handle_close look at closed_.                         *)
(*                                                                         *)
(* start() runs in the accept handler, on the server strand.  The strand   *)
(* of the session is made over the executor of the accepted socket, which  *)
(* is that server strand: no handler of the session runs inside start().   *)
(*                                                                         *)
(* Outstanding operations are counted, so that nothing in the model rules  *)
(* out two reads or two writes at a time.  Frames 1, 2, ... are data, in   *)
(* the order in which they are posted; frame 0 is a keepalive.             *)
(***************************************************************************)
EXTENDS Strand

CONSTANTS
    MAX_PENDING_WRITE_FRAMES,   \* 1024
    HEARTBEAT_INTERVAL,         \* 5 s, in ticks of the clock
    HEARTBEAT_TIMEOUT,          \* 15 s, in ticks of the clock
    MaxFrames,                  \* bound: data frames posted
    MaxCloses                   \* bound: calls of close()

ASSUME SessionAssumption ==
    /\ MAX_PENDING_WRITE_FRAMES \in Nat \ {0}
    /\ HEARTBEAT_INTERVAL \in Nat \ {0}
    /\ HEARTBEAT_TIMEOUT \in Nat
    /\ HEARTBEAT_INTERVAL < HEARTBEAT_TIMEOUT
    /\ MaxFrames \in Nat
    /\ MaxCloses \in Nat

VARIABLES
    started,        \* start() has run
    strand,         \* handlers that are ready, oldest first
    header_reads,   \* outstanding reads of do_read_header
    body_reads,     \* outstanding reads of do_read_body
    write_queue,    \* write_queue_
    writing,        \* writing_
    writes,         \* outstanding writes of do_write
    on_wire,        \* the frame the last write was started with
    waits,          \* outstanding waits on heartbeat_timer_
    cancelled,      \* the outstanding wait has been cancelled
    timer,          \* ticks left until heartbeat_timer_ expires
    age,            \* ticks since last_activity_, at most HEARTBEAT_TIMEOUT
    closed,         \* closed_, and the socket is shut
    disconnects,    \* calls of on_close_
    late_data,      \* calls of on_receive_ after that of on_close_
    posted,         \* data frames posted by enqueue_raw_frame
    closes,         \* calls of close()
    delivered       \* data frames the socket has written, in order

startVars == <<started, posted, closes>>
readVars  == <<header_reads, body_reads, late_data>>
writeVars == <<write_queue, writing, writes, on_wire>>
timerVars == <<waits, timer>>
closeVars == <<closed, cancelled, disconnects>>
vars == <<startVars, strand, readVars, writeVars, timerVars, closeVars,
          age, delivered>>

NoFrame == -1

-----------------------------------------------------------------------------
(* What handlers do.                                                       *)

do_read_header == header_reads' = header_reads + 1 /\ UNCHANGED body_reads
do_read_body   == body_reads' = body_reads + 1 /\ UNCHANGED header_reads

\* queue is write_queue_ as do_write finds it.
do_write(queue) ==
    IF queue = <<>>
    THEN /\ writing' = FALSE
         /\ UNCHANGED <<writes, on_wire>>
    ELSE /\ writing' = TRUE
         /\ writes' = writes + 1
         /\ on_wire' = Head(queue)

\* Mutant of handle_close: closed_ is not tested.
handle_close_Again ==
    /\ closed' = TRUE
    /\ cancelled' = (waits > 0)
    /\ disconnects' = disconnects + 1

handle_close ==
    IF closed
    THEN UNCHANGED closeVars
    ELSE /\ closed' = TRUE
         /\ cancelled' = (waits > 0)
         /\ disconnects' = disconnects + 1

\* Detail::enqueue_frame, where it does not report a full queue.
enqueue_frame(frame) ==
    /\ Len(write_queue) < MAX_PENDING_WRITE_FRAMES
    /\ write_queue' = Append(write_queue, frame)
    /\ IF writing THEN UNCHANGED <<writing, writes, on_wire>>
                  ELSE do_write(write_queue')

\* Mutant of enqueue_write: a write is started even if one is under way.
enqueue_write_Always(frame) ==
    IF closed \/ Len(write_queue) >= MAX_PENDING_WRITE_FRAMES
    THEN UNCHANGED <<writeVars, closeVars>>
    ELSE /\ write_queue' = Append(write_queue, frame)
         /\ do_write(write_queue')
         /\ UNCHANGED closeVars

\* Mutant of enqueue_write: a frame that does not fit is dropped.
enqueue_write_Drops(frame) ==
    IF closed \/ Len(write_queue) >= MAX_PENDING_WRITE_FRAMES
    THEN UNCHANGED <<writeVars, closeVars>>
    ELSE enqueue_frame(frame) /\ UNCHANGED closeVars

enqueue_write(frame) ==
    \/ /\ closed
       /\ UNCHANGED <<writeVars, closeVars>>
    \/ /\ ~closed
       /\ Len(write_queue) >= MAX_PENDING_WRITE_FRAMES
       /\ handle_close
       /\ UNCHANGED writeVars
    \/ /\ ~closed
       /\ enqueue_frame(frame)
       /\ UNCHANGED closeVars

start_heartbeat ==
    /\ timer' = HEARTBEAT_INTERVAL
    /\ waits' = waits + 1

-----------------------------------------------------------------------------
(* The server strand: start(), and later the tasks posted to the session.  *)

start ==
    /\ ~started
    /\ started' = TRUE
    /\ do_read_header
    /\ start_heartbeat
    /\ UNCHANGED <<posted, closes, strand, late_data, writeVars, closeVars, age,
                   delivered>>

enqueue_raw_frame ==
    /\ started
    /\ posted < MaxFrames
    /\ posted' = posted + 1
    /\ strand' = Append(strand, [op |-> "enqueue", frame |-> posted + 1])
    /\ UNCHANGED <<started, closes, readVars, writeVars, timerVars, closeVars,
                   age, delivered>>

close ==
    /\ started
    /\ closes < MaxCloses
    /\ closes' = closes + 1
    /\ strand' = Append(strand, [op |-> "close"])
    /\ UNCHANGED <<started, posted, readVars, writeVars, timerVars, closeVars,
                   age, delivered>>

-----------------------------------------------------------------------------
(* Completion of outstanding operations.                                   *)

Ready(op, result) == strand' = Append(strand, [op |-> op, result |-> result])

\* What the peer sent, as decode_header sees it; "bad" is any header that
\* decode_header rejects.
HeaderArrives(result) ==
    /\ header_reads > 0
    /\ result = "error" \/ ~closed
    /\ header_reads' = header_reads - 1
    /\ Ready("header", result)
    /\ UNCHANGED <<startVars, body_reads, late_data, writeVars, timerVars,
                   closeVars, age, delivered>>

BodyArrives(result) ==
    /\ body_reads > 0
    /\ result = "error" \/ ~closed
    /\ body_reads' = body_reads - 1
    /\ Ready("body", result)
    /\ UNCHANGED <<startVars, header_reads, late_data, writeVars, timerVars,
                   closeVars, age, delivered>>

WriteEnds(result) ==
    /\ writes > 0
    /\ result = "error" \/ ~closed
    /\ writes' = writes - 1
    /\ Ready("written", result)
    /\ delivered' = IF result = "ok" /\ on_wire # keepalive
                    THEN Append(delivered, on_wire) ELSE delivered
    /\ UNCHANGED <<startVars, readVars, write_queue, writing, on_wire,
                   timerVars, closeVars, age>>

TimerExpires ==
    /\ waits > 0
    /\ ~cancelled
    /\ timer = 0
    /\ waits' = waits - 1
    /\ Ready("timer", "ok")
    /\ UNCHANGED <<startVars, readVars, writeVars, timer, closeVars, age,
                   delivered>>

WaitAborted ==
    /\ waits > 0
    /\ cancelled
    /\ waits' = waits - 1
    /\ cancelled' = FALSE
    /\ Ready("timer", "error")
    /\ UNCHANGED <<startVars, readVars, writeVars, timer, closed, disconnects,
                   age, delivered>>

\* The clock.  Nothing makes a handler run before the next tick.
Tick ==
    /\ age < HEARTBEAT_TIMEOUT \/ timer > 0
    /\ age' = IF age < HEARTBEAT_TIMEOUT THEN age + 1 ELSE age
    /\ timer' = IF timer > 0 THEN timer - 1 ELSE timer
    /\ UNCHANGED <<startVars, strand, readVars, writeVars, waits, closeVars,
                   delivered>>

-----------------------------------------------------------------------------
(* Handlers, one action each; each takes the head of the strand.           *)

Run(op) ==
    /\ strand # <<>>
    /\ Head(strand).op = op
    /\ strand' = Tail(strand)

EnqueueTask ==
    /\ Run("enqueue")
    /\ enqueue_write(Head(strand).frame)
    /\ UNCHANGED <<startVars, readVars, timerVars, age, delivered>>

CloseTask ==
    /\ Run("close")
    /\ handle_close
    /\ UNCHANGED <<startVars, readVars, writeVars, timerVars, age, delivered>>

\* Mutant of OnHeader: the keepalive branch does not return.
OnHeader_FallsThrough ==
    /\ Run("header")
    /\ \/ /\ Head(strand).result \in {"error", "bad"}
          /\ handle_close
          /\ UNCHANGED <<header_reads, body_reads, age>>
       \/ /\ Head(strand).result \in {"keepalive", "data"}
          /\ age' = 0
          /\ header_reads' = IF Head(strand).result = "keepalive"
                             THEN header_reads + 1 ELSE header_reads
          /\ body_reads' = body_reads + 1
          /\ UNCHANGED closeVars
    /\ UNCHANGED <<startVars, late_data, writeVars, timerVars, delivered>>

OnHeader ==
    /\ Run("header")
    /\ \/ /\ Head(strand).result \in {"error", "bad"}
          /\ handle_close
          /\ UNCHANGED <<header_reads, body_reads, age>>
       \/ /\ Head(strand).result = "keepalive"
          /\ age' = 0
          /\ do_read_header
          /\ UNCHANGED closeVars
       \/ /\ Head(strand).result = "data"
          /\ age' = 0
          /\ do_read_body
          /\ UNCHANGED closeVars
    /\ UNCHANGED <<startVars, late_data, writeVars, timerVars, delivered>>

OnBody ==
    /\ Run("body")
    /\ \/ /\ Head(strand).result = "error"
          /\ handle_close
          /\ UNCHANGED readVars
       \/ /\ Head(strand).result = "ok"
          /\ late_data' = IF closed THEN late_data + 1 ELSE late_data
          /\ do_read_header
          /\ UNCHANGED closeVars
    /\ UNCHANGED <<startVars, writeVars, timerVars, age, delivered>>

\* The frame is popped whether or not it was written.
OnWritten ==
    /\ Run("written")
    /\ write_queue' = Tail(write_queue)
    /\ \/ /\ Head(strand).result = "error"
          /\ handle_close
          /\ UNCHANGED <<writing, writes, on_wire>>
       \/ /\ Head(strand).result = "ok"
          /\ do_write(write_queue')
          /\ UNCHANGED closeVars
    /\ UNCHANGED <<startVars, readVars, timerVars, age, delivered>>

\* Mutant of OnTimer: the timer is not armed again.
OnTimer_Once ==
    /\ Run("timer")
    /\ IF Head(strand).result = "ok" /\ age >= HEARTBEAT_TIMEOUT
       THEN handle_close ELSE UNCHANGED closeVars
    /\ UNCHANGED <<startVars, readVars, writeVars, timerVars, age, delivered>>

\* Mutant of OnTimer: no return after the timeout has closed the session.
OnTimer_NoReturn ==
    /\ Run("timer")
    /\ IF Head(strand).result = "ok"
       THEN /\ IF age >= HEARTBEAT_TIMEOUT THEN handle_close ELSE UNCHANGED closeVars
            /\ start_heartbeat
       ELSE UNCHANGED <<closeVars, timerVars>>
    /\ UNCHANGED <<startVars, readVars, writeVars, age, delivered>>

\* send_keepalive may itself close the session; the timer is armed all the
\* same, as it is when closed_ was set while this handler was queued.
OnTimer ==
    /\ Run("timer")
    /\ \/ /\ Head(strand).result = "error"
          /\ UNCHANGED <<writeVars, closeVars, timerVars>>
       \/ /\ Head(strand).result = "ok"
          /\ age >= HEARTBEAT_TIMEOUT
          /\ handle_close
          /\ UNCHANGED <<writeVars, timerVars>>
       \/ /\ Head(strand).result = "ok"
          /\ age < HEARTBEAT_TIMEOUT
          /\ enqueue_write(keepalive)
          /\ start_heartbeat
    /\ UNCHANGED <<startVars, readVars, age, delivered>>

-----------------------------------------------------------------------------

Init ==
    /\ started = FALSE
    /\ strand = <<>>
    /\ header_reads = 0 /\ body_reads = 0
    /\ write_queue = <<>> /\ writing = FALSE /\ writes = 0 /\ on_wire = NoFrame
    /\ waits = 0 /\ cancelled = FALSE /\ timer = 0 /\ age = 0
    /\ closed = FALSE /\ disconnects = 0 /\ late_data = 0
    /\ posted = 0 /\ closes = 0 /\ delivered = <<>>

Completion ==
    \/ \E r \in {"error", "bad", "keepalive", "data"} : HeaderArrives(r)
    \/ \E r \in {"error", "ok"} : BodyArrives(r)
    \/ \E r \in {"error", "ok"} : WriteEnds(r)

Handler == EnqueueTask \/ CloseTask \/ OnHeader \/ OnBody \/ OnWritten \/ OnTimer

Next ==
    \/ start \/ enqueue_raw_frame \/ close
    \/ Completion \/ TimerExpires \/ WaitAborted \/ Tick
    \/ Handler

Spec == Init /\ [][Next]_vars

\* The I/O threads run what is ready, the clock and the timer go on, and an
\* operation on a socket that has been shut ends.  The peer promises nothing:
\* an operation on an open socket may stay outstanding for ever.
FairSpec ==
    /\ Spec
    /\ WF_vars(start) /\ WF_vars(Handler)
    /\ WF_vars(Tick) /\ WF_vars(TimerExpires) /\ WF_vars(WaitAborted)
    /\ WF_vars(closed /\ Completion)

-----------------------------------------------------------------------------
(* Properties.                                                             *)

\* Handlers of kind op waiting on the strand.
Queued(op) == Count(strand, op)

\* The chain header -> body -> header is never forked (two reads would share
\* header_buf_ and the socket) and never lost while the session is open.
OneReadChain ==
    LET chain == header_reads + body_reads + Queued("header") + Queued("body")
    IN  /\ chain <= 1
        /\ ~closed /\ started => chain = 1

\* The buffer handed to async_write is the front of write_queue_ until the
\* write's handler has run: no second write is started meanwhile, nobody else
\* pops the queue, and the handler never pops an empty queue.
WriteBufferStable ==
    LET chain == writes + Queued("written")
    IN  /\ chain <= 1
        /\ chain = 1 => /\ write_queue # <<>>
                        /\ Head(write_queue) = on_wire
        /\ ~closed => (writing <=> chain = 1)
        /\ ~closed /\ ~writing => write_queue = <<>>

\* on_close_ is called once, when the session closes; at most one packet is
\* delivered after that.
ClosesOnce ==
    /\ disconnects = IF closed THEN 1 ELSE 0
    /\ late_data <= disconnects

\* While the session is open no posted frame is lost, duplicated or
\* overtaken, keepalives in between notwithstanding.  What a closed session
\* has written is a prefix of what was posted.
FramesInOrder ==
    /\ delivered = [i \in 1 .. Len(delivered) |-> i]
    /\ ~closed => InTransit(strand, "enqueue", write_queue, Len(delivered), posted)

\* Nothing holds a reference to the session any more.
Released ==
    /\ started
    /\ strand = <<>>
    /\ header_reads + body_reads + writes + waits = 0

\* A peer that falls silent is disconnected, even one whose socket takes no
\* more bytes and reports no error.
SilenceEndsTheSession == []<>(closed \/ age < HEARTBEAT_TIMEOUT)

\* A closed session is let go, although the timer may be armed again after
\* handle_close has cancelled it, by a timer handler that was already queued.
ClosedIsReleased == closed ~> Released

=============================================================================
