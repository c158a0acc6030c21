--------------------------- MODULE SessionProofs ---------------------------
(***************************************************************************)
(* A session never runs two reads or two writes at a time, reports its end *)
(* once, and keeps the order of the frames posted to it, for every number  *)
(* of frames, of calls of close and of pending writes, and every timing of *)
(* the heartbeat.                                                          *)
(***************************************************************************)
EXTENDS Session, StrandProofs, SequenceTheorems

Results == {"error", "bad", "keepalive", "data", "ok"}

Handlers ==
    [op : {"enqueue"}, frame : Nat \ {0}]
    \cup [op : {"close"}]
    \cup [op : {"header", "body", "written", "timer"}, result : Results]

TypeOK ==
    /\ started \in BOOLEAN
    /\ strand \in Seq(Handlers)
    /\ header_reads \in Nat /\ body_reads \in Nat
    /\ write_queue \in Seq(Nat)
    /\ writing \in BOOLEAN /\ writes \in Nat /\ on_wire \in Int
    /\ waits \in Nat /\ cancelled \in BOOLEAN
    /\ timer \in Nat /\ age \in Nat
    /\ closed \in BOOLEAN /\ disconnects \in Nat /\ late_data \in Nat
    /\ posted \in Nat /\ closes \in Nat
    /\ delivered \in Seq(Nat)

\* Nothing happens before start().
NotStarted ==
    ~started =>
        /\ strand = <<>> /\ ~closed
        /\ header_reads = 0 /\ body_reads = 0 /\ writes = 0 /\ waits = 0

\* After the one packet that may follow on_close_, what is left of the read
\* chain can only fail.
LateIsLast ==
    /\ ~closed => late_data = 0
    /\ late_data # 0 => \A i \in DOMAIN strand :
          strand[i].op \in {"header", "body"} => strand[i].result = "error"
    /\ late_data <= 1

\* The read chain, the write chain and the end of the session.
Chains == TypeOK /\ NotStarted /\ OneReadChain /\ WriteBufferStable
          /\ LateIsLast /\ ClosesOnce

\* An open session that has been started always has exactly one heartbeat
\* pending, and no session ever has two, although both start() and the timer's
\* handler arm the timer; a wait is cancelled by the end of the session only.
OneHeartbeat ==
    /\ waits + Queued("timer") <= 1
    /\ ~started => waits + Queued("timer") = 0
    /\ started /\ ~closed => waits + Queued("timer") = 1
    /\ cancelled => closed
    /\ \A i \in DOMAIN strand :
         strand[i].op = "timer" /\ strand[i].result = "error" => closed

-----------------------------------------------------------------------------
(* What queueing and running a handler does to the strand.                 *)

Ops == {"enqueue", "close", "header", "body", "written", "timer"}

LEMMA HeadAppend ==
    ASSUME NEW S, NEW s \in Seq(S), NEW e \in S
    PROVE  /\ Append(s, e) \in Seq(S) /\ Append(s, e) # <<>>
           /\ s # <<>> => Head(Append(s, e)) = Head(s)
<1>1. Append(s, e) \in Seq(S) /\ Append(s, e) # <<>>  BY AppendProperties
<1>2. ASSUME s # <<>> PROVE Head(Append(s, e)) = Head(s)
  <2>1. 1 \in 1 .. Len(s)  BY <1>2
  <2>2. Append(s, e)[1] = s[1]  BY <2>1, AppendProperties
  <2> QED  BY <1>1, <1>2, <2>2
<1> QED  BY <1>1, <1>2

LEMMA CountNat ==
    ASSUME TypeOK
    PROVE  \A o \in Ops : Queued(o) \in Nat
<1>1. strand \in Seq(Handlers)  BY DEF TypeOK
<1> QED  BY <1>1, CountType DEF Queued

LEMMA AppendCounts ==
    ASSUME TypeOK, NEW h \in Handlers, strand' = Append(strand, h)
    PROVE  /\ strand' \in Seq(Handlers)
           /\ \A o \in Ops : Queued(o)' = IF h.op = o THEN Queued(o) + 1
                                                      ELSE Queued(o)
<1>1. strand \in Seq(Handlers)  BY DEF TypeOK
<1>2. strand' \in Seq(Handlers)  BY <1>1
<1> SUFFICES ASSUME NEW o \in Ops
             PROVE  Queued(o)' = IF h.op = o THEN Queued(o) + 1 ELSE Queued(o)
  BY <1>2
<1> QED  BY <1>1, CountAppend DEF Queued

LEMMA ReadyCounts ==
    ASSUME TypeOK, NEW op \in {"header", "body", "written", "timer"},
           NEW result \in Results, Ready(op, result)
    PROVE  /\ strand' \in Seq(Handlers)
           /\ strand' = Append(strand, [op |-> op, result |-> result])
           /\ \A o \in Ops : Queued(o)' = IF o = op THEN Queued(o) + 1
                                                    ELSE Queued(o)
<1> DEFINE h == [op |-> op, result |-> result]
<1>1. h \in Handlers /\ h.op = op  BY DEF Handlers
<1>2. strand' = Append(strand, h)  BY DEF Ready
<1> HIDE DEF h
<1>3. /\ strand' \in Seq(Handlers)
      /\ \A o \in Ops : Queued(o)' = IF h.op = o THEN Queued(o) + 1 ELSE Queued(o)
  BY <1>1, <1>2, AppendCounts
<1>4. \A o \in Ops : Queued(o)' = IF o = op THEN Queued(o) + 1 ELSE Queued(o)
  BY <1>1, <1>3
<1> QED  BY <1>2, <1>3, <1>4 DEF h

LEMMA RunCounts ==
    ASSUME TypeOK, NEW op \in Ops, Run(op)
    PROVE  /\ strand' \in Seq(Handlers)
           /\ strand # <<>> /\ strand' = Tail(strand)
           /\ strand[1] \in Handlers /\ Head(strand) = strand[1]
           /\ strand[1].op = op /\ 1 \in DOMAIN strand
           /\ \A o \in Ops : Queued(o)' = IF o = op THEN Queued(o) - 1
                                                    ELSE Queued(o)
           /\ Queued(op) > 0
<1>1. strand \in Seq(Handlers) /\ strand # <<>> /\ strand' = Tail(strand)
      /\ Head(strand).op = op
  BY DEF TypeOK, Run
<1>2. strand' \in Seq(Handlers) /\ strand[1] \in Handlers /\ Head(strand) = strand[1]
      /\ 1 \in DOMAIN strand
  BY <1>1
<1>3. \A o \in Ops : Queued(o)' = IF o = op THEN Queued(o) - 1 ELSE Queued(o)
  <2> TAKE o \in Ops
  <2>1. Queued(o)' = IF Head(strand).op = o THEN Queued(o) - 1 ELSE Queued(o)
    BY <1>1, CountTail DEF Queued
  <2> QED  BY <1>1, <2>1
<1>4. Queued(op) # 0  BY <1>1, <1>2, CountZero DEF Queued
<1> QED  BY <1>1, <1>2, <1>3, <1>4, CountNat

-----------------------------------------------------------------------------
(* The two operations that several handlers share.                         *)

LEMMA HandleCloseCloses ==
    ASSUME Chains, handle_close
    PROVE  /\ closed' = TRUE /\ closed' \in BOOLEAN /\ cancelled' \in BOOLEAN
           /\ disconnects' = 1 /\ disconnects' \in Nat
           /\ ~closed => late_data = 0
<1>1. closed' = TRUE /\ disconnects' = 1 /\ (~closed => late_data = 0)
  BY DEF Chains, TypeOK, ClosesOnce, LateIsLast, handle_close, closeVars
<1>2. cancelled' = (waits > 0) \/ cancelled' = cancelled
  BY DEF handle_close, closeVars
<1>3. (waits > 0) = TRUE \/ (waits > 0) = FALSE  BY DEF Chains, TypeOK
<1>4. cancelled' \in BOOLEAN  BY <1>2, <1>3 DEF Chains, TypeOK
<1>5. closed' \in BOOLEAN /\ disconnects' \in Nat  BY <1>1
<1> QED  BY <1>1, <1>4, <1>5

\* enqueue_write starts a write only if none is under way.
LEMMA EnqueueKeepsWriteChain ==
    ASSUME Chains, NEW frame \in Nat, enqueue_write(frame),
           Queued("written")' = Queued("written")
    PROVE  /\ write_queue' \in Seq(Nat) /\ writing' \in BOOLEAN /\ writes' \in Nat
           /\ on_wire' \in Int
           /\ WriteBufferStable'
           /\ \/ UNCHANGED closeVars
              \/ closed' = TRUE /\ disconnects' = 1 /\ cancelled' \in BOOLEAN
<1> USE DEF Chains, TypeOK, WriteBufferStable
<1>0. Queued("written") \in Nat  BY CountNat DEF Ops
<1>1. CASE closed /\ UNCHANGED <<writeVars, closeVars>>
  BY <1>0, <1>1 DEF writeVars, closeVars
<1>2. CASE ~closed /\ handle_close /\ UNCHANGED writeVars
  BY <1>0, <1>2, HandleCloseCloses DEF writeVars
<1>3. CASE ~closed /\ enqueue_frame(frame) /\ UNCHANGED closeVars
  <2>1. write_queue' = Append(write_queue, frame) /\ closed' = closed
    BY <1>3 DEF enqueue_frame, closeVars
  <2>2. /\ write_queue' \in Seq(Nat) /\ write_queue' # <<>>
        /\ write_queue # <<>> => Head(write_queue') = Head(write_queue)
    BY <2>1, HeadAppend
  <2>3. CASE writing
    <3>1. UNCHANGED <<writing, writes, on_wire>>  BY <1>3, <2>3 DEF enqueue_frame
    <3> QED  BY <1>0, <1>3, <2>1, <2>2, <2>3, <3>1
  <2>4. CASE ~writing
    <3>1. writing' = TRUE /\ writes' = writes + 1 /\ on_wire' = Head(write_queue')
      BY <1>3, <2>2, <2>4 DEF enqueue_frame, do_write
    <3>2. writes = 0 /\ Queued("written") = 0  BY <1>0, <1>3, <2>4
    <3>3. Head(write_queue') \in Nat  BY <2>2
    <3> QED  BY <1>3, <2>1, <2>2, <3>1, <3>2, <3>3
  <2> QED  BY <2>3, <2>4
<1> QED  BY <1>1, <1>2, <1>3 DEF enqueue_write

-----------------------------------------------------------------------------
(* The chains.                                                             *)

LEMMA InitChains == Init => Chains
<1> SUFFICES ASSUME Init PROVE Chains  OBVIOUS
<1>1. \A o : Queued(o) = 0  BY CountEmpty DEF Init, Queued
<1>2. TypeOK
  <2>1. strand \in Seq(Handlers) /\ write_queue \in Seq(Nat) /\ delivered \in Seq(Nat)
    BY DEF Init
  <2>2. /\ closed \in BOOLEAN /\ writing \in BOOLEAN /\ cancelled \in BOOLEAN
        /\ started \in BOOLEAN
    BY DEF Init
  <2> QED  BY <2>1, <2>2 DEF Init, TypeOK, NoFrame
<1> QED  BY <1>1, <1>2 DEF Init, Chains, NotStarted, OneReadChain,
                           WriteBufferStable, LateIsLast, ClosesOnce

\* Steps of the server strand and of the clock.
LEMMA StartChains ==
    ASSUME Chains, start \/ enqueue_raw_frame \/ close \/ Tick
    PROVE  Chains'
<1> USE DEF Chains, readVars, writeVars, timerVars, closeVars, startVars
<1>0. \A o \in Ops : Queued(o) \in Nat  BY CountNat
<1>1. CASE start
  <2>1. TypeOK'
    BY <1>1, SessionAssumption DEF start, TypeOK, do_read_header, start_heartbeat
  <2>2. strand' = strand /\ strand = <<>> /\ UNCHANGED <<writeVars, closeVars, late_data>>
        /\ header_reads' = 1 /\ body_reads' = 0 /\ started'
    BY <1>1 DEF start, do_read_header, TypeOK, NotStarted
  <2>3. \A o : Queued(o) = 0 /\ Queued(o)' = 0  BY <2>2, CountEmpty DEF Queued
  <2>4. OneReadChain'  BY <2>2, <2>3 DEF OneReadChain
  <2>5. WriteBufferStable'  BY <2>2, <2>3 DEF WriteBufferStable
  <2>6. LateIsLast' /\ ClosesOnce'  BY <2>2 DEF LateIsLast, ClosesOnce
  <2> QED  BY <2>1, <2>2, <2>4, <2>5, <2>6 DEF NotStarted
<1>2. CASE enqueue_raw_frame \/ close
  <2>1. PICK h \in Handlers : strand' = Append(strand, h) /\ h.op \in {"enqueue", "close"}
    <3>1. CASE enqueue_raw_frame
      <4> DEFINE e == [op |-> "enqueue", frame |-> posted + 1]
      <4>1. e \in Handlers  BY DEF Handlers, TypeOK
      <4>2. strand' = Append(strand, e)  BY <3>1 DEF enqueue_raw_frame
      <4> QED  BY <4>1, <4>2
    <3>2. CASE close
      BY <3>2 DEF close, Handlers
    <3> QED  BY <1>2, <3>1, <3>2
  <2>2. started /\ started' = started
        /\ UNCHANGED <<readVars, writeVars, timerVars, closeVars, age, delivered>>
        /\ posted' \in Nat /\ closes' \in Nat
    <3>1. CASE enqueue_raw_frame  BY <3>1 DEF enqueue_raw_frame, TypeOK
    <3>2. CASE close  BY <3>2 DEF close, TypeOK
    <3> QED  BY <1>2, <3>1, <3>2
  <2>3. strand' \in Seq(Handlers) /\ \A o \in Ops \ {"enqueue", "close"} : Queued(o)' = Queued(o)
    BY <2>1, AppendCounts
  <2>4. TypeOK'  BY <2>2, <2>3 DEF TypeOK
  <2>5. OneReadChain' /\ WriteBufferStable'
    BY <2>2, <2>3 DEF OneReadChain, WriteBufferStable, Ops
  <2>6. LateIsLast'
    <3>1. \A i \in DOMAIN strand' : (i \in DOMAIN strand /\ strand'[i] = strand[i])
                                    \/ strand'[i] = h
      BY <2>1 DEF TypeOK
    <3> QED  BY <2>1, <2>2, <3>1 DEF LateIsLast
  <2>7. ClosesOnce'  BY <2>2 DEF ClosesOnce
  <2> QED  BY <2>2, <2>4, <2>5, <2>6, <2>7 DEF NotStarted
<1>3. CASE Tick
  <2>1. TypeOK'  BY <1>3, SessionAssumption DEF Tick, TypeOK
  <2>2. UNCHANGED <<startVars, strand, readVars, writeVars, waits, closeVars>>
    BY <1>3 DEF Tick
  <2>3. \A o : Queued(o)' = Queued(o)  BY <2>2 DEF Queued
  <2>4. OneReadChain' /\ WriteBufferStable'
    BY <2>2, <2>3 DEF OneReadChain, WriteBufferStable
  <2> QED  BY <2>1, <2>2, <2>4 DEF NotStarted, LateIsLast, ClosesOnce
<1> QED  BY <1>1, <1>2, <1>3

\* Operations that complete.
LEMMA CompletionChains ==
    ASSUME Chains, Completion \/ TimerExpires \/ WaitAborted
    PROVE  Chains'
<1> USE DEF Chains, readVars, writeVars, timerVars, closeVars, startVars
<1>0. \A o \in Ops : Queued(o) \in Nat  BY CountNat
<1>1. ASSUME NEW op \in {"header", "body", "written", "timer"}, NEW r \in Results,
             Ready(op, r), UNCHANGED <<late_data, closed>>,
             op \in {"header", "body"} => r = "error" \/ ~closed
      PROVE  LateIsLast'
  <2>1. strand' = Append(strand, [op |-> op, result |-> r])  BY <1>1 DEF Ready
  <2>2. \A i \in DOMAIN strand' : \/ i \in DOMAIN strand /\ strand'[i] = strand[i]
                                  \/ strand'[i] = [op |-> op, result |-> r]
    BY <2>1 DEF TypeOK
  <2> QED  BY <1>1, <2>2 DEF LateIsLast
<1>2. ASSUME NEW r \in {"error", "bad", "keepalive", "data"}, HeaderArrives(r)
      PROVE  Chains'
  <2>1. Ready("header", r) /\ r \in Results  BY <1>2 DEF HeaderArrives, Results
  <2>2. header_reads > 0 /\ (r = "error" \/ ~closed) /\ header_reads' = header_reads - 1
        /\ UNCHANGED <<startVars, body_reads, late_data, writeVars, timerVars,
                       closeVars, age, delivered>>
    BY <1>2 DEF HeaderArrives
  <2>3. strand' \in Seq(Handlers)
        /\ \A o \in Ops : Queued(o)' = IF o = "header" THEN Queued(o) + 1 ELSE Queued(o)
    BY <2>1, ReadyCounts
  <2>4. TypeOK'  BY <2>2, <2>3 DEF TypeOK
  <2>5. OneReadChain' /\ WriteBufferStable'
    <3>1. /\ Queued("header")' = Queued("header") + 1 /\ Queued("body")' = Queued("body")
          /\ Queued("written")' = Queued("written")
      BY <2>3 DEF Ops
    <3>2. /\ header_reads \in Nat /\ body_reads \in Nat
          /\ Queued("header") \in Nat /\ Queued("body") \in Nat
      BY <1>0 DEF Ops, TypeOK
    <3>3. header_reads' + body_reads' + Queued("header")' + Queued("body")'
          = header_reads + body_reads + Queued("header") + Queued("body")
      BY <2>2, <3>1, <3>2
    <3>4. OneReadChain'  BY <2>2, <3>3 DEF OneReadChain
    <3>5. WriteBufferStable'  BY <2>2, <3>1 DEF WriteBufferStable
    <3> QED  BY <3>4, <3>5
  <2>6. LateIsLast'  BY <1>1, <2>1, <2>2
  <2> QED  BY <2>2, <2>4, <2>5, <2>6 DEF NotStarted, ClosesOnce
<1>3. ASSUME NEW r \in {"error", "ok"}, BodyArrives(r)
      PROVE  Chains'
  <2>1. Ready("body", r) /\ r \in Results  BY <1>3 DEF BodyArrives, Results
  <2>2. body_reads > 0 /\ (r = "error" \/ ~closed) /\ body_reads' = body_reads - 1
        /\ UNCHANGED <<startVars, header_reads, late_data, writeVars, timerVars,
                       closeVars, age, delivered>>
    BY <1>3 DEF BodyArrives
  <2>3. strand' \in Seq(Handlers)
        /\ \A o \in Ops : Queued(o)' = IF o = "body" THEN Queued(o) + 1 ELSE Queued(o)
    BY <2>1, ReadyCounts
  <2>4. TypeOK'  BY <2>2, <2>3 DEF TypeOK
  <2>5. OneReadChain' /\ WriteBufferStable'
    <3>1. /\ Queued("header")' = Queued("header") /\ Queued("body")' = Queued("body") + 1
          /\ Queued("written")' = Queued("written")
      BY <2>3 DEF Ops
    <3>2. /\ header_reads \in Nat /\ body_reads \in Nat
          /\ Queued("header") \in Nat /\ Queued("body") \in Nat
      BY <1>0 DEF Ops, TypeOK
    <3>3. header_reads' + body_reads' + Queued("header")' + Queued("body")'
          = header_reads + body_reads + Queued("header") + Queued("body")
      BY <2>2, <3>1, <3>2
    <3>4. OneReadChain'  BY <2>2, <3>3 DEF OneReadChain
    <3>5. WriteBufferStable'  BY <2>2, <3>1 DEF WriteBufferStable
    <3> QED  BY <3>4, <3>5
  <2>6. LateIsLast'  BY <1>1, <2>1, <2>2
  <2> QED  BY <2>2, <2>4, <2>5, <2>6 DEF NotStarted, ClosesOnce
<1>4. ASSUME NEW r \in {"error", "ok"}, WriteEnds(r)
      PROVE  Chains'
  <2>1. Ready("written", r) /\ r \in Results  BY <1>4 DEF WriteEnds, Results
  <2>2. writes > 0 /\ writes' = writes - 1
        /\ UNCHANGED <<startVars, readVars, write_queue, writing, on_wire,
                       timerVars, closeVars, age>>
        /\ delivered' = IF r = "ok" /\ on_wire # keepalive
                        THEN Append(delivered, on_wire) ELSE delivered
    BY <1>4 DEF WriteEnds
  <2>3. strand' \in Seq(Handlers)
        /\ \A o \in Ops : Queued(o)' = IF o = "written" THEN Queued(o) + 1 ELSE Queued(o)
    BY <2>1, ReadyCounts
  <2>4. on_wire \in Nat
    BY <1>0, <2>2 DEF WriteBufferStable, TypeOK, Ops
  <2>5. TypeOK'  BY <2>2, <2>3, <2>4 DEF TypeOK
  <2>6. OneReadChain' /\ WriteBufferStable'
    <3>1. /\ Queued("written")' = Queued("written") + 1
          /\ Queued("header")' = Queued("header") /\ Queued("body")' = Queued("body")
      BY <2>3 DEF Ops
    <3>2. writes \in Nat /\ Queued("written") \in Nat  BY <1>0 DEF Ops, TypeOK
    <3>3. writes' + Queued("written")' = writes + Queued("written")  BY <2>2, <3>1, <3>2
    <3>4. OneReadChain'  BY <2>2, <3>1 DEF OneReadChain
    <3>5. WriteBufferStable'  BY <2>2, <3>3 DEF WriteBufferStable
    <3> QED  BY <3>4, <3>5
  <2>7. LateIsLast'  BY <1>1, <2>1, <2>2
  <2> QED  BY <2>2, <2>5, <2>6, <2>7 DEF NotStarted, ClosesOnce
<1>5. CASE TimerExpires \/ WaitAborted
  <2>1. PICK r \in Results : Ready("timer", r)
    BY <1>5 DEF TimerExpires, WaitAborted, Results
  <2>2. waits > 0 /\ waits' = waits - 1 /\ cancelled' \in BOOLEAN
        /\ UNCHANGED <<startVars, readVars, writeVars, timer, closed, disconnects,
                       age, delivered>>
    BY <1>5 DEF TimerExpires, WaitAborted, TypeOK
  <2>3. strand' \in Seq(Handlers)
        /\ \A o \in Ops : Queued(o)' = IF o = "timer" THEN Queued(o) + 1 ELSE Queued(o)
    BY <2>1, ReadyCounts
  <2>4. TypeOK'  BY <2>2, <2>3 DEF TypeOK
  <2>5. OneReadChain' /\ WriteBufferStable'
    BY <2>2, <2>3 DEF OneReadChain, WriteBufferStable, Ops
  <2>6. LateIsLast'  BY <1>1, <2>1, <2>2
  <2> QED  BY <2>2, <2>4, <2>5, <2>6 DEF NotStarted, ClosesOnce
<1> QED  BY <1>2, <1>3, <1>4, <1>5 DEF Completion

\* Handlers.
LEMMA TaskChains ==
    ASSUME Chains, EnqueueTask \/ CloseTask \/ OnTimer
    PROVE  Chains'
<1> USE DEF Chains, startVars, readVars, timerVars
<1>0. \A o \in Ops : Queued(o) \in Nat  BY CountNat
<1>1. PICK op \in {"enqueue", "close", "timer"} : Run(op)
  BY DEF EnqueueTask, CloseTask, OnTimer
<1>2. /\ strand' \in Seq(Handlers) /\ strand # <<>> /\ strand' = Tail(strand)
      /\ strand[1] \in Handlers /\ Head(strand) = strand[1] /\ strand[1].op = op
      /\ Queued("header")' = Queued("header") /\ Queued("body")' = Queued("body")
      /\ Queued("written")' = Queued("written")
  BY <1>1, RunCounts DEF Ops
<1>3. UNCHANGED <<startVars, readVars, age, delivered>>
  BY DEF EnqueueTask, CloseTask, OnTimer
<1>4. /\ write_queue' \in Seq(Nat) /\ writing' \in BOOLEAN /\ writes' \in Nat
      /\ on_wire' \in Int /\ WriteBufferStable'
      /\ \/ UNCHANGED closeVars
         \/ closed' = TRUE /\ disconnects' = 1 /\ cancelled' \in BOOLEAN
      /\ waits' \in Nat /\ timer' \in Nat
  <2>1. ASSUME handle_close, UNCHANGED <<writeVars, timerVars>> PROVE <1>4
    <3>1. WriteBufferStable'
      BY <2>1, <1>0, <1>2, HandleCloseCloses
      DEF WriteBufferStable, writeVars, TypeOK
    <3> QED  BY <2>1, <3>1, HandleCloseCloses DEF writeVars, TypeOK
  <2>2. CASE EnqueueTask
    <3>1. enqueue_write(strand[1].frame) /\ strand[1].op = "enqueue"
          /\ UNCHANGED timerVars
      BY <2>2, <1>2 DEF EnqueueTask, Run
    <3>2. strand[1].frame \in Nat  BY <3>1, <1>2 DEF Handlers
    <3> QED  BY <1>2, <3>1, <3>2, EnqueueKeepsWriteChain DEF TypeOK
  <2>3. CASE CloseTask  BY <2>1, <2>3 DEF CloseTask
  <2>4. CASE OnTimer
    <3>1. CASE UNCHANGED <<writeVars, closeVars, timerVars>>
      BY <1>2, <3>1 DEF WriteBufferStable, writeVars, closeVars, TypeOK
    <3>2. CASE handle_close /\ UNCHANGED <<writeVars, timerVars>>  BY <2>1, <3>2
    <3>3. CASE enqueue_write(keepalive) /\ start_heartbeat
      <4>1. keepalive \in Nat  BY DEF keepalive
      <4>2. waits' \in Nat /\ timer' \in Nat
        BY <3>3, SessionAssumption DEF start_heartbeat, TypeOK
      <4> QED  BY <1>2, <3>3, <4>1, <4>2, EnqueueKeepsWriteChain
    <3> QED  BY <2>4, <3>1, <3>2, <3>3 DEF OnTimer
  <2> QED  BY <2>2, <2>3, <2>4
<1>5. TypeOK'
  <2>1. closed' \in BOOLEAN /\ disconnects' \in Nat /\ cancelled' \in BOOLEAN
    <3>1. CASE UNCHANGED closeVars  BY <3>1 DEF TypeOK, closeVars
    <3>2. CASE closed' = TRUE /\ disconnects' = 1 /\ cancelled' \in BOOLEAN
      BY <3>2
    <3> QED  BY <1>4, <3>1, <3>2
  <2> QED  BY <1>2, <1>3, <1>4, <2>1 DEF TypeOK
<1>6. OneReadChain'
  BY <1>0, <1>2, <1>3, <1>4 DEF OneReadChain, closeVars
<1>7. LateIsLast' /\ ClosesOnce'
  <2>1. \A i \in DOMAIN strand' : i + 1 \in DOMAIN strand /\ strand'[i] = strand[i + 1]
    BY <1>2 DEF TypeOK
  <2> QED  BY <1>3, <1>4, <2>1 DEF LateIsLast, ClosesOnce, closeVars, TypeOK
<1>8. NotStarted'  BY <1>2, <1>3 DEF NotStarted
<1> QED  BY <1>4, <1>5, <1>6, <1>7, <1>8

LEMMA ReadChains ==
    ASSUME Chains, OnHeader \/ OnBody
    PROVE  Chains'
<1> USE DEF Chains, startVars, writeVars, timerVars
<1>0. \A o \in Ops : Queued(o) \in Nat  BY CountNat
<1>1. PICK op \in {"header", "body"} : Run(op)  BY DEF OnHeader, OnBody
<1>2. /\ strand' \in Seq(Handlers) /\ strand # <<>> /\ strand' = Tail(strand)
      /\ strand[1] \in Handlers /\ Head(strand) = strand[1] /\ strand[1].op = op
      /\ 1 \in DOMAIN strand
  BY <1>1, RunCounts DEF Ops
<1>3. UNCHANGED <<startVars, writeVars, timerVars, delivered>> /\ age' \in Nat
  BY DEF OnHeader, OnBody, TypeOK
<1>4. header_reads = 0 /\ body_reads = 0 /\ Queued("header") + Queued("body") = 1
      /\ Queued("header")' = 0 /\ Queued("body")' = 0
      /\ Queued("written")' = Queued("written")
  <2>0. /\ Queued("header") \in Nat /\ Queued("body") \in Nat
        /\ header_reads \in Nat /\ body_reads \in Nat
        /\ header_reads + body_reads + Queued("header") + Queued("body") <= 1
    BY <1>0 DEF Ops, TypeOK, OneReadChain
  <2>00. TypeOK  OBVIOUS
  <2> HIDE DEF Chains
  <2>1. CASE Run("header")
    <3>1. /\ Queued("header") > 0 /\ Queued("header")' = Queued("header") - 1
          /\ Queued("body")' = Queued("body") /\ Queued("written")' = Queued("written")
      BY <2>00, <2>1, RunCounts DEF Ops
    <3> QED  BY <2>0, <3>1
  <2>2. CASE Run("body")
    <3>1. /\ Queued("body") > 0 /\ Queued("body")' = Queued("body") - 1
          /\ Queued("header")' = Queued("header")
          /\ Queued("written")' = Queued("written")
      BY <2>00, <2>2, RunCounts DEF Ops
    <3> QED  BY <2>0, <3>1
  <2> QED  BY <1>1, <2>1, <2>2
<1>5. \A i \in DOMAIN strand' : strand'[i].op \notin {"header", "body"}
  <2>1. strand' \in Seq(Handlers)  BY <1>2
  <2>2. (\A i \in DOMAIN strand' : strand'[i].op # "header")
        /\ (\A i \in DOMAIN strand' : strand'[i].op # "body")
    BY <1>4, <2>1, CountZero DEF Queued
  <2> QED  BY <2>2
<1>6. \/ /\ handle_close
         /\ UNCHANGED readVars
      \/ /\ UNCHANGED closeVars
         /\ \/ header_reads' = 1 /\ body_reads' = 0
            \/ header_reads' = 0 /\ body_reads' = 1
         /\ \/ late_data' = late_data
            \/ strand[1].result = "ok" /\ closed /\ late_data' = late_data + 1
  BY <1>2, <1>4 DEF OnHeader, OnBody, do_read_header, do_read_body, readVars, TypeOK
<1>7. late_data # 0 => strand[1].result = "error"
  BY <1>2 DEF LateIsLast
<1>8. /\ header_reads' \in Nat /\ body_reads' \in Nat
      /\ closed' \in BOOLEAN /\ disconnects' \in Nat /\ cancelled' \in BOOLEAN
      /\ late_data' \in Nat
  <2>1. CASE handle_close /\ UNCHANGED readVars
    BY <2>1, HandleCloseCloses DEF TypeOK, readVars
  <2>2. CASE ~(handle_close /\ UNCHANGED readVars)
    BY <1>6, <2>2 DEF TypeOK, closeVars
  <2> QED  BY <2>1, <2>2
<1>9. TypeOK'  BY <1>2, <1>3, <1>8 DEF TypeOK
<1>10. OneReadChain'
  <2>1. CASE handle_close /\ UNCHANGED readVars
    <3>1. closed'  BY <2>1, HandleCloseCloses
    <3> QED  BY <1>4, <2>1, <3>1 DEF OneReadChain, readVars
  <2>2. CASE header_reads' = 1 /\ body_reads' = 0  BY <1>4, <2>2 DEF OneReadChain
  <2>3. CASE header_reads' = 0 /\ body_reads' = 1  BY <1>4, <2>3 DEF OneReadChain
  <2> QED  BY <1>6, <2>1, <2>2, <2>3
<1>11. WriteBufferStable'
  BY <1>3, <1>4, <1>6, HandleCloseCloses DEF WriteBufferStable, closeVars
<1>12. LateIsLast' /\ ClosesOnce'
  <2>1. CASE handle_close /\ UNCHANGED readVars
    BY <1>5, <2>1, HandleCloseCloses DEF LateIsLast, ClosesOnce, readVars, TypeOK
  <2>2. CASE UNCHANGED closeVars /\ late_data' = late_data
    BY <1>5, <2>2 DEF LateIsLast, ClosesOnce, closeVars, TypeOK
  <2>3. CASE /\ UNCHANGED closeVars
             /\ strand[1].result = "ok" /\ closed /\ late_data' = late_data + 1
    BY <1>5, <1>7, <2>3 DEF LateIsLast, ClosesOnce, closeVars, TypeOK
  <2> QED  BY <1>6, <2>1, <2>2, <2>3
<1>13. NotStarted'  BY <1>2, <1>3 DEF NotStarted
<1> QED  BY <1>9, <1>10, <1>11, <1>12, <1>13

LEMMA WriteChains ==
    ASSUME Chains, OnWritten
    PROVE  Chains'
<1> USE DEF Chains, startVars, readVars, timerVars
<1>0. \A o \in Ops : Queued(o) \in Nat  BY CountNat
<1>1. Run("written")  BY DEF OnWritten
<1>2. /\ strand' \in Seq(Handlers) /\ strand # <<>> /\ strand' = Tail(strand)
      /\ \A o \in Ops : Queued(o)' = IF o = "written" THEN Queued(o) - 1 ELSE Queued(o)
      /\ Queued("written") > 0
  BY <1>1, RunCounts DEF Ops
<1>3. UNCHANGED <<startVars, readVars, timerVars, age, delivered>>
      /\ write_queue' = Tail(write_queue)
  BY DEF OnWritten
<1>4. writes = 0 /\ Queued("written") = 1 /\ Queued("written")' = 0
      /\ write_queue # <<>> /\ (~closed => writing)
  BY <1>0, <1>2 DEF WriteBufferStable, TypeOK, Ops
<1>5. write_queue' \in Seq(Nat)  BY <1>3, <1>4 DEF TypeOK
<1>6. \/ handle_close /\ UNCHANGED <<writing, writes, on_wire>>
      \/ do_write(write_queue') /\ UNCHANGED closeVars
  BY DEF OnWritten
<1>7. /\ writing' \in BOOLEAN /\ writes' \in Nat /\ on_wire' \in Int
      /\ closed' \in BOOLEAN /\ disconnects' \in Nat /\ cancelled' \in BOOLEAN
  <2>1. CASE handle_close /\ UNCHANGED <<writing, writes, on_wire>>
    BY <2>1, HandleCloseCloses DEF TypeOK
  <2>2. CASE do_write(write_queue') /\ UNCHANGED closeVars
    <3>1. write_queue' # <<>> => Head(write_queue') \in Nat  BY <1>5
    <3>2. writing' \in BOOLEAN /\ writes' \in Nat /\ on_wire' \in Int
      <4>1. CASE write_queue' = <<>>
        BY <2>2, <4>1 DEF do_write, TypeOK
      <4>2. CASE write_queue' # <<>>
        BY <2>2, <3>1, <4>2 DEF do_write, TypeOK
      <4> QED  BY <4>1, <4>2
    <3> QED  BY <2>2, <3>2 DEF TypeOK, closeVars
  <2> QED  BY <1>6, <2>1, <2>2
<1>8. TypeOK'  BY <1>2, <1>3, <1>5, <1>7 DEF TypeOK
<1>9. OneReadChain'
  BY <1>2, <1>3, <1>6, HandleCloseCloses DEF OneReadChain, Ops, closeVars
<1>10. WriteBufferStable'
  <2>1. CASE handle_close /\ UNCHANGED <<writing, writes, on_wire>>
    <3>1. closed'  BY <2>1, HandleCloseCloses
    <3> QED  BY <1>4, <2>1, <3>1 DEF WriteBufferStable
  <2>2. CASE do_write(write_queue') /\ UNCHANGED closeVars
    BY <1>4, <2>2 DEF WriteBufferStable, do_write, closeVars
  <2> QED  BY <1>6, <2>1, <2>2
<1>11. LateIsLast' /\ ClosesOnce'
  <2>1. \A i \in DOMAIN strand' : i + 1 \in DOMAIN strand /\ strand'[i] = strand[i + 1]
    BY <1>2 DEF TypeOK
  <2>2. CASE handle_close
    <3>1. closed' /\ disconnects' = 1  BY <2>2, HandleCloseCloses
    <3> QED  BY <1>3, <2>1, <3>1 DEF LateIsLast, ClosesOnce, TypeOK
  <2>3. CASE UNCHANGED closeVars
    BY <1>3, <2>1, <2>3 DEF LateIsLast, ClosesOnce, closeVars
  <2> QED  BY <1>6, <2>2, <2>3
<1>12. NotStarted'  BY <1>2, <1>3 DEF NotStarted
<1> QED  BY <1>8, <1>9, <1>10, <1>11, <1>12

LEMMA StepChains == Chains /\ [Next]_vars => Chains'
<1> SUFFICES ASSUME Chains, [Next]_vars PROVE Chains'  OBVIOUS
<1>1. CASE UNCHANGED vars
  BY <1>1 DEF vars, startVars, readVars, writeVars, timerVars, closeVars, Chains,
              TypeOK, NotStarted, OneReadChain, WriteBufferStable, LateIsLast,
              ClosesOnce, Queued
<1>2. CASE Next
  BY <1>2, StartChains, CompletionChains, TaskChains, ReadChains, WriteChains
  DEF Next, Handler
<1> QED  BY <1>1, <1>2

\* There is always exactly one read under way while the session is open, and
\* never a second one to share header_buf_ and the socket with it.
THEOREM OneReadAtATime == Spec => []OneReadChain
<1>1. Chains => OneReadChain  BY DEF Chains
<1> QED  BY <1>1, InitChains, StepChains, PTL DEF Spec

\* async_write's buffer is the front of write_queue_ until its handler has run.
THEOREM WriteBufferIsStable == Spec => []WriteBufferStable
<1>1. Chains => WriteBufferStable  BY DEF Chains
<1> QED  BY <1>1, InitChains, StepChains, PTL DEF Spec

\* on_close_ is called exactly once, and at most one packet follows it.
THEOREM SessionClosesOnce == Spec => []ClosesOnce
<1>1. Chains => ClosesOnce  BY DEF Chains
<1> QED  BY <1>1, InitChains, StepChains, PTL DEF Spec

-----------------------------------------------------------------------------
(* The order of the frames.                                                *)

LEMMA OrderBounds ==
    ASSUME Chains
    PROVE  /\ Len(delivered) \in Nat /\ posted \in Nat /\ delivered \in Seq(Nat)
           /\ write_queue \in Seq(Nat) /\ strand \in Seq(Handlers)
  BY DEF Chains, TypeOK

\* A frame is posted.
LEMMA PostOrder ==
    ASSUME Chains, FramesInOrder, enqueue_raw_frame
    PROVE  FramesInOrder'
<1> DEFINE h == [op |-> "enqueue", frame |-> posted + 1]
<1>1. UNCHANGED <<write_queue, delivered, closed>> /\ posted' = posted + 1
      /\ strand' = Append(strand, h)
  BY DEF enqueue_raw_frame, writeVars, closeVars
<1>2. h \in Handlers /\ h.op = "enqueue" /\ h.frame = posted + 1 /\ h # Ack
  BY DEF Handlers, Chains, TypeOK, Ack
<1> HIDE DEF h
<1> QED  BY <1>1, <1>2, OrderBounds, TransitPost DEF FramesInOrder

\* The front of the queue is written, or not.
LEMMA WrittenOrder ==
    ASSUME Chains, FramesInOrder, NEW r \in {"error", "ok"}, WriteEnds(r)
    PROVE  FramesInOrder'
<1> DEFINE h == [op |-> "written", result |-> r]
<1>1. /\ writes > 0 /\ (r = "error" \/ ~closed)
      /\ strand' = Append(strand, h) /\ UNCHANGED <<write_queue, posted, closed>>
      /\ delivered' = IF r = "ok" /\ on_wire # keepalive
                      THEN Append(delivered, on_wire) ELSE delivered
  BY DEF WriteEnds, Ready, startVars, closeVars
<1>2. h \in Handlers /\ h.op = "written"  BY DEF Handlers, Results
<1>3. Count(strand, "written") = 0 /\ write_queue # <<>> /\ Head(write_queue) = on_wire
  <2>1. Queued("written") \in Nat /\ writes \in Nat
    BY CountNat DEF Chains, Ops, TypeOK
  <2> QED  BY <1>1, <2>1 DEF Chains, WriteBufferStable, Queued
<1>4. CASE r = "error"
  <2>1. delivered' = delivered /\ h # Ack  BY <1>1, <1>4 DEF Ack
  <2> HIDE DEF h
  <2> QED  BY <1>1, <1>2, <2>1, OrderBounds, TransitAppendOther DEF FramesInOrder
<1>5. CASE r = "ok"
  <2>1. ~closed /\ h = Ack /\ Ack \in Handlers  BY <1>1, <1>2, <1>5 DEF Ack
  <2> HIDE DEF h
  <2>2. InTransit(strand, "enqueue", write_queue, Len(delivered), posted)
    BY <2>1 DEF FramesInOrder
  <2>3. CASE on_wire = keepalive
    <3>1. delivered' = delivered  BY <1>1, <2>3
    <3> QED
      BY <1>1, <1>3, <2>1, <2>2, <2>3, <3>1, OrderBounds, TransitWritten DEF FramesInOrder
  <2>4. CASE on_wire # keepalive
    <3>1. /\ on_wire = Len(delivered) + 1
          /\ InTransit(Append(strand, Ack), "enqueue", write_queue, Len(delivered) + 1, posted)
      BY <1>3, <2>1, <2>2, <2>4, OrderBounds, TransitWritten
    <3>2. delivered' = Append(delivered, Len(delivered) + 1)
      BY <1>1, <1>5, <2>4, <3>1
    <3>3. delivered' \in Seq(Nat)  BY <3>2, OrderBounds
    <3>4. Len(delivered') = Len(delivered) + 1 /\ delivered' = [i \in 1 .. Len(delivered') |-> i]
      BY <3>2, <3>3, OrderBounds, WrittenPrefix DEF FramesInOrder
    <3> QED  BY <1>1, <2>1, <3>1, <3>4 DEF FramesInOrder
  <2> QED  BY <2>3, <2>4
<1> QED  BY <1>4, <1>5

\* A posted frame reaches the queue.
LEMMA EnqueueOrder ==
    ASSUME Chains, FramesInOrder, EnqueueTask
    PROVE  FramesInOrder'
<1>1. Run("enqueue") /\ enqueue_write(Head(strand).frame)
      /\ UNCHANGED <<posted, delivered>>
  BY DEF EnqueueTask, startVars
<1>2. CASE closed'  BY <1>1, <1>2 DEF FramesInOrder
<1>3. CASE ~closed'
  <2>1. ~closed /\ write_queue' = Append(write_queue, Head(strand).frame)
    <3>1. ~handle_close  BY <1>3, HandleCloseCloses
    <3> QED  BY <1>1, <1>3, <3>1 DEF enqueue_write, enqueue_frame, closeVars
  <2>2. strand # <<>> /\ Head(strand).op = "enqueue" /\ strand' = Tail(strand)
    BY <1>1 DEF Run
  <2>3. write_queue = <<>> => Count(strand, "written") = 0
    <3>1. Queued("written") \in Nat /\ writes \in Nat
      BY CountNat DEF Chains, Ops, TypeOK
    <3> QED  BY <3>1 DEF Chains, WriteBufferStable, Queued
  <2>4. InTransit(strand, "enqueue", write_queue, Len(delivered), posted)
    BY <2>1 DEF FramesInOrder
  <2>5. InTransit(strand', "enqueue", write_queue', Len(delivered), posted)
    BY <2>1, <2>2, <2>3, <2>4, OrderBounds, TransitEnqueue
  <2> QED  BY <1>1, <2>5 DEF FramesInOrder
<1> QED  BY <1>2, <1>3

\* The front of the queue is popped.
LEMMA PoppedOrder ==
    ASSUME Chains, FramesInOrder, OnWritten
    PROVE  FramesInOrder'
<1>1. Run("written") /\ write_queue' = Tail(write_queue) /\ UNCHANGED <<posted, delivered>>
  BY DEF OnWritten, startVars
<1>2. CASE closed'  BY <1>1, <1>2 DEF FramesInOrder
<1>3. CASE ~closed'
  <2>1. ~closed /\ Head(strand).result = "ok"
    <3>1. ~handle_close  BY <1>3, HandleCloseCloses
    <3> QED  BY <1>3, <3>1 DEF OnWritten, closeVars
  <2>2. /\ strand # <<>> /\ strand' = Tail(strand)
        /\ strand[1] \in Handlers /\ Head(strand) = strand[1] /\ strand[1].op = "written"
        /\ Queued("written") > 0
    <3>1. TypeOK  BY DEF Chains
    <3> QED  BY <1>1, <3>1, RunCounts DEF Ops
  <2>3. Head(strand) = Ack  BY <2>1, <2>2 DEF Handlers, Ack
  <2>4. write_queue # <<>> /\ Count(strand, "written") <= 1
    <3>1. Queued("written") \in Nat /\ writes \in Nat
      BY CountNat DEF Chains, Ops, TypeOK
    <3> QED  BY <2>2, <3>1 DEF Chains, WriteBufferStable, Queued
  <2>5. InTransit(strand, "enqueue", write_queue, Len(delivered), posted)
    BY <2>1 DEF FramesInOrder
  <2>6. InTransit(strand', "enqueue", write_queue', Len(delivered), posted)
    BY <1>1, <2>2, <2>3, <2>4, <2>5, OrderBounds, TransitPop
  <2> QED  BY <1>1, <2>6 DEF FramesInOrder
<1> QED  BY <1>2, <1>3

LEMMA InitOrder == Init => FramesInOrder
<1> SUFFICES ASSUME Init PROVE FramesInOrder  OBVIOUS
<1>1. Len(delivered) = 0 /\ posted = 0 /\ delivered = <<>> /\ strand = <<>>
      /\ write_queue = <<>>
  BY DEF Init
<1>2. delivered = [i \in 1 .. Len(delivered) |-> i]  BY <1>1
<1> QED  BY <1>1, <1>2, TransitEmpty DEF FramesInOrder

LEMMA StepOrder == Chains /\ FramesInOrder /\ [Next]_vars => FramesInOrder'
<1> SUFFICES ASSUME Chains, FramesInOrder, [Next]_vars PROVE FramesInOrder'
  OBVIOUS
<1> USE DEF startVars, readVars, writeVars, timerVars, closeVars
<1>1. ASSUME UNCHANGED <<strand, write_queue, posted, delivered, closed>>
      PROVE  FramesInOrder'
  BY <1>1 DEF FramesInOrder
<1>2. CASE UNCHANGED vars \/ start \/ Tick
  BY <1>1, <1>2 DEF vars, start, Tick
<1>3. ASSUME NEW h \in Handlers, h.op # "enqueue", h # Ack, strand' = Append(strand, h),
             UNCHANGED <<write_queue, posted, delivered, closed>>
      PROVE  FramesInOrder'
  BY <1>3, OrderBounds, TransitAppendOther DEF FramesInOrder
<1>4. CASE close
  <2> DEFINE h == [op |-> "close"]
  <2>1. h \in Handlers /\ h.op # "enqueue" /\ h # Ack  BY DEF Handlers, Ack
  <2>2. strand' = Append(strand, h)
        /\ UNCHANGED <<write_queue, posted, delivered, closed>>
    BY <1>4 DEF close
  <2> HIDE DEF h
  <2> QED  BY <1>3, <2>1, <2>2
<1>5. ASSUME NEW op \in {"header", "body", "timer"}, NEW r \in Results, Ready(op, r),
             UNCHANGED <<write_queue, posted, delivered, closed>>
      PROVE  FramesInOrder'
  <2> DEFINE h == [op |-> op, result |-> r]
  <2>1. h \in Handlers /\ h.op # "enqueue" /\ h # Ack  BY DEF Handlers, Ack
  <2>2. strand' = Append(strand, h)  BY <1>5 DEF Ready
  <2> HIDE DEF h
  <2> QED  BY <1>3, <1>5, <2>1, <2>2
<1>6. CASE Completion
  <2>1. ASSUME NEW r \in {"error", "bad", "keepalive", "data"}, HeaderArrives(r)
        PROVE  FramesInOrder'
    BY <1>5, <2>1 DEF HeaderArrives, Results
  <2>2. ASSUME NEW r \in {"error", "ok"}, BodyArrives(r)
        PROVE  FramesInOrder'
    BY <1>5, <2>2 DEF BodyArrives, Results
  <2> QED  BY <1>6, <2>1, <2>2, WrittenOrder DEF Completion
<1>7. CASE TimerExpires \/ WaitAborted
  BY <1>5, <1>7 DEF TimerExpires, WaitAborted, Results
<1>8. ASSUME NEW op \in {"header", "body", "timer", "close"}, Run(op),
             \/ write_queue' = write_queue
             \/ write_queue' = Append(write_queue, keepalive),
             closed' = closed \/ closed' = TRUE,
             UNCHANGED <<posted, delivered>>
      PROVE  FramesInOrder'
  <2>1. CASE closed'  BY <1>8, <2>1 DEF FramesInOrder
  <2>2. CASE ~closed'
    <3>1. InTransit(strand, "enqueue", write_queue, Len(delivered), posted)
      BY <1>8, <2>2 DEF FramesInOrder
    <3>2. strand # <<>> /\ Head(strand).op = op /\ strand' = Tail(strand)
      BY <1>8 DEF Run
    <3>3. Head(strand).op # "enqueue" /\ Head(strand) # Ack  BY <3>2 DEF Ack
    <3>4. InTransit(strand', "enqueue", write_queue', Len(delivered), posted)
      BY <1>8, <3>1, <3>2, <3>3, OrderBounds, TransitRunOther
    <3> QED  BY <1>8, <3>4 DEF FramesInOrder
  <2> QED  BY <2>1, <2>2
<1>9. handle_close => closed' = TRUE  BY HandleCloseCloses
<1>10. CASE CloseTask  BY <1>8, <1>9, <1>10 DEF CloseTask
<1>11. CASE OnHeader  BY <1>8, <1>9, <1>11 DEF OnHeader
<1>12. CASE OnBody  BY <1>8, <1>9, <1>12 DEF OnBody
<1>13. CASE OnTimer
  <2>1. Run("timer") /\ UNCHANGED <<posted, delivered>>  BY <1>13 DEF OnTimer
  <2>2. /\ \/ write_queue' = write_queue
           \/ write_queue' = Append(write_queue, keepalive)
        /\ closed' = closed \/ closed' = TRUE
    BY <1>9, <1>13 DEF OnTimer, enqueue_write, enqueue_frame
  <2> QED  BY <1>8, <2>1, <2>2
<1> QED
  BY <1>2, <1>4, <1>6, <1>7, <1>10, <1>11, <1>12, <1>13, PostOrder, EnqueueOrder,
     PoppedOrder
  DEF Next, Handler

\* While a session is open no frame posted to it is lost, duplicated or
\* overtaken, and what it has written is always a prefix of what was posted.
THEOREM FramesStayInOrder == Spec => []FramesInOrder
<1>1. Init => Chains /\ FramesInOrder  BY InitChains, InitOrder
<1>2. Chains /\ FramesInOrder /\ [Next]_vars => (Chains /\ FramesInOrder)'
  BY StepChains, StepOrder
<1> QED  BY <1>1, <1>2, PTL DEF Spec

-----------------------------------------------------------------------------
(* The heartbeat.                                                          *)

LEMMA InitHeartbeat == Init => OneHeartbeat
<1> SUFFICES ASSUME Init PROVE OneHeartbeat  OBVIOUS
<1>1. Queued("timer") = 0  BY CountEmpty DEF Init, Queued
<1> QED  BY <1>1 DEF Init, OneHeartbeat

LEMMA StepHeartbeat == Chains /\ OneHeartbeat /\ [Next]_vars => OneHeartbeat'
<1> SUFFICES ASSUME Chains, OneHeartbeat, [Next]_vars PROVE OneHeartbeat'
  OBVIOUS
<1> USE DEF startVars, readVars, writeVars, timerVars, closeVars
<1>0. TypeOK /\ Queued("timer") \in Nat /\ waits \in Nat /\ strand \in Seq(Handlers)
      /\ (~started => strand = <<>>)
  BY CountNat DEF Chains, TypeOK, Ops, NotStarted
\* Steps that leave the timer alone, and may close the session.
<1>1. ASSUME UNCHANGED <<started, waits>>, Queued("timer")' = Queued("timer"),
             \A i \in DOMAIN strand' :
                strand'[i].op # "timer" \/ \E j \in DOMAIN strand : strand'[i] = strand[j],
             UNCHANGED <<closed, cancelled>> \/ closed' = TRUE
      PROVE  OneHeartbeat'
  BY <1>0, <1>1 DEF OneHeartbeat
<1>2. ASSUME NEW h \in Handlers, h.op \in Ops \ {"timer"}, strand' = Append(strand, h),
             UNCHANGED <<started, waits, closed, cancelled>>
      PROVE  OneHeartbeat'
  <2>1. Queued("timer")' = Queued("timer")  BY <1>0, <1>2, AppendCounts DEF Ops
  <2>2. \A i \in DOMAIN strand' : strand'[i] = h \/ \E j \in DOMAIN strand : strand'[i] = strand[j]
    BY <1>0, <1>2
  <2> QED  BY <1>1, <1>2, <2>1, <2>2
<1>3. ASSUME NEW op \in Ops \ {"timer"}, Run(op), UNCHANGED <<started, waits>>,
             UNCHANGED <<closed, cancelled>> \/ closed' = TRUE
      PROVE  OneHeartbeat'
  <2>1. Queued("timer")' = Queued("timer") /\ strand' = Tail(strand) /\ strand # <<>>
    BY <1>0, <1>3, RunCounts DEF Ops
  <2>2. \A i \in DOMAIN strand' : i + 1 \in DOMAIN strand /\ strand'[i] = strand[i + 1]
    BY <1>0, <2>1
  <2> QED  BY <1>1, <1>3, <2>1, <2>2
<1>4. CASE UNCHANGED vars \/ Tick
  <2>1. UNCHANGED <<started, waits, strand, closed, cancelled>>
    BY <1>4 DEF vars, Tick
  <2>2. Queued("timer")' = Queued("timer")  BY <2>1 DEF Queued
  <2> QED  BY <1>0, <2>1, <2>2 DEF OneHeartbeat
<1>5. CASE start
  <2>1. ~started /\ started' = TRUE /\ waits' = waits + 1
        /\ UNCHANGED <<strand, closed, cancelled>>
    BY <1>5 DEF start, start_heartbeat
  <2>2. Queued("timer")' = Queued("timer")  BY <2>1 DEF Queued
  <2> QED  BY <1>0, <2>1, <2>2 DEF OneHeartbeat
<1>6. CASE enqueue_raw_frame \/ close
  <2>1. PICK h \in Handlers : strand' = Append(strand, h) /\ h.op \in {"enqueue", "close"}
    <3>1. CASE enqueue_raw_frame
      <4> DEFINE e == [op |-> "enqueue", frame |-> posted + 1]
      <4>1. e \in Handlers  BY <1>0 DEF Handlers, TypeOK
      <4>2. strand' = Append(strand, e)  BY <3>1 DEF enqueue_raw_frame
      <4> QED  BY <4>1, <4>2
    <3>2. CASE close  BY <3>2 DEF close, Handlers
    <3> QED  BY <1>6, <3>1, <3>2
  <2>2. UNCHANGED <<started, waits, closed, cancelled>>
    BY <1>6 DEF enqueue_raw_frame, close
  <2> QED  BY <1>2, <2>1, <2>2 DEF Ops
<1>7. ASSUME NEW op \in {"header", "body", "written"}, NEW r \in Results, Ready(op, r),
             UNCHANGED <<started, waits, closed, cancelled>>
      PROVE  OneHeartbeat'
  <2> DEFINE h == [op |-> op, result |-> r]
  <2>1. h \in Handlers /\ h.op \in Ops \ {"timer"}  BY DEF Handlers, Ops
  <2>2. strand' = Append(strand, h)  BY <1>7 DEF Ready
  <2> HIDE DEF h
  <2> QED  BY <1>2, <1>7, <2>1, <2>2
<1>8. CASE Completion
  <2>1. ASSUME NEW r \in {"error", "bad", "keepalive", "data"}, HeaderArrives(r)
        PROVE  OneHeartbeat'
    BY <1>7, <2>1 DEF HeaderArrives, Results
  <2>2. ASSUME NEW r \in {"error", "ok"}, BodyArrives(r) \/ WriteEnds(r)
        PROVE  OneHeartbeat'
    BY <1>7, <2>2 DEF BodyArrives, WriteEnds, Results
  <2> QED  BY <1>8, <2>1, <2>2 DEF Completion
<1>9. ASSUME NEW r \in {"ok", "error"}, Ready("timer", r), waits > 0, waits' = waits - 1,
             UNCHANGED <<started, closed>>, cancelled' => cancelled, r = "error" => closed
      PROVE  OneHeartbeat'
  <2>1. Queued("timer")' = Queued("timer") + 1
        /\ strand' = Append(strand, [op |-> "timer", result |-> r])
    <3>1. r \in Results  BY DEF Results
    <3> QED  BY <1>0, <1>9, <3>1, ReadyCounts DEF Ops
  <2>2. \A i \in DOMAIN strand' : \/ strand'[i] = [op |-> "timer", result |-> r]
                                  \/ \E j \in DOMAIN strand : strand'[i] = strand[j]
    BY <1>0, <2>1
  <2>3. waits' + Queued("timer")' = waits + Queued("timer")  BY <1>0, <1>9, <2>1
  <2> QED  BY <1>9, <2>2, <2>3 DEF OneHeartbeat
<1>10. CASE TimerExpires  BY <1>9, <1>10 DEF TimerExpires
<1>11. CASE WaitAborted
  <2>1. closed  BY <1>11 DEF WaitAborted, OneHeartbeat
  <2> QED  BY <1>9, <1>11, <2>1 DEF WaitAborted
<1>12. handle_close => closed' = TRUE  BY HandleCloseCloses
<1>13. CASE EnqueueTask
  <2>1. UNCHANGED <<closed, cancelled>> \/ closed' = TRUE
    BY <1>12, <1>13 DEF EnqueueTask, enqueue_write, enqueue_frame
  <2> QED  BY <1>3, <1>13, <2>1 DEF EnqueueTask, Ops
<1>14. CASE CloseTask  BY <1>3, <1>12, <1>14 DEF CloseTask, Ops
<1>15. CASE OnHeader  BY <1>3, <1>12, <1>15 DEF OnHeader, Ops
<1>16. CASE OnBody  BY <1>3, <1>12, <1>16 DEF OnBody, Ops
<1>17. CASE OnWritten  BY <1>3, <1>12, <1>17 DEF OnWritten, Ops
<1>18. CASE OnTimer
  <2>1. Run("timer") /\ UNCHANGED started  BY <1>18 DEF OnTimer
  <2>2. /\ strand' = Tail(strand) /\ strand # <<>> /\ 1 \in DOMAIN strand
        /\ Head(strand) = strand[1] /\ strand[1].op = "timer"
        /\ Queued("timer")' = Queued("timer") - 1 /\ Queued("timer") > 0
    BY <1>0, <2>1, RunCounts DEF Ops
  <2>3. waits = 0 /\ Queued("timer") = 1 /\ Queued("timer")' = 0 /\ started
    BY <1>0, <2>2 DEF OneHeartbeat, Chains, TypeOK
  <2>4. \A i \in DOMAIN strand' : i + 1 \in DOMAIN strand /\ strand'[i] = strand[i + 1]
    BY <1>0, <2>2
  <2>5. \/ closed' = TRUE /\ waits' = waits
        \/ UNCHANGED <<closed, cancelled>> /\ waits' = waits + 1
        \/ closed' = TRUE /\ waits' = waits + 1
    <3>1. CASE strand[1].result = "error"
      <4>1. closed = TRUE  BY <2>2, <3>1 DEF OneHeartbeat, Chains, TypeOK
      <4> QED  BY <1>18, <2>2, <3>1, <4>1 DEF OnTimer
    <3>2. CASE strand[1].result # "error"
      BY <1>12, <1>18, <2>2, <3>2
      DEF OnTimer, enqueue_write, enqueue_frame, start_heartbeat
    <3> QED  BY <3>1, <3>2
  <2> QED  BY <2>1, <2>3, <2>4, <2>5 DEF OneHeartbeat
<1> QED
  BY <1>4, <1>5, <1>6, <1>8, <1>10, <1>11, <1>13, <1>14, <1>15, <1>16, <1>17, <1>18
  DEF Next, Handler

\* The heartbeat of an open session is always armed, and armed once.
THEOREM HeartbeatStaysArmed == Spec => []OneHeartbeat
<1>1. Init => Chains /\ OneHeartbeat  BY InitChains, InitHeartbeat
<1>2. Chains /\ OneHeartbeat /\ [Next]_vars => (Chains /\ OneHeartbeat)'
  BY StepChains, StepHeartbeat
<1> QED  BY <1>1, <1>2, PTL DEF Spec

=============================================================================
