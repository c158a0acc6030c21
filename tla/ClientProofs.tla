---------------------------- MODULE ClientProofs ----------------------------
(***************************************************************************)
(* A client reads its connection without pause and never twice at a time,  *)
(* the owner polls what arrives in order, and what it sends is written in  *)
(* order: for every number of packets and sends, every capacity of the     *)
(* two queues and every timing of the heartbeat and of the destructor.     *)
(***************************************************************************)
EXTENDS Client, StrandProofs, SequenceTheorems

Handlers ==
    [op : {"send"}, frame : Nat \ {0}]
    \cup [op : {"header"}, result : {"error", "bad", "keepalive", "data"}]
    \cup [op : {"body", "written", "timer", "shutdown"}, result : {"error", "ok"}]

TypeOK ==
    /\ ready \in Seq(Handlers)
    /\ running \in {"idle", "test", "push"}
    /\ header_reads \in Nat /\ body_reads \in Nat /\ arrived \in Nat
    /\ receive_queue \in Seq(Nat) /\ dropped_packets \in Nat /\ polled \in Seq(Nat)
    /\ write_queue \in Seq(Nat)
    /\ writing \in BOOLEAN /\ writes \in Nat
    /\ sent \in Nat /\ written \in Seq(Nat)
    /\ waits \in Nat /\ timer \in Nat /\ age \in Nat
    /\ connected \in BOOLEAN /\ cancelled \in BOOLEAN
    /\ shutting_down \in BOOLEAN /\ stopped \in BOOLEAN
    /\ owner \in {"running", "posting", "waiting", "closed", "joining", "destroyed"}

\* There is one write at a time, of the front of write_queue; while the client
\* is connected and not shutting down, writing says whether there is one, and
\* nothing waits without one.
WriteChain ==
    LET chain == writes + Queued("written")
    IN  /\ chain <= 1
        /\ chain = 1 => write_queue # <<>>
        /\ connected /\ ~shutting_down => /\ writing <=> chain = 1
                                          /\ ~writing => write_queue = <<>>

\* A packet in hand is younger than all that the owner has or will see.
SeenBefore ==
    LET seen == polled \o receive_queue
    IN  \A i \in DOMAIN seen : /\ seen[i] <= arrived
                               /\ InHand => seen[i] < arrived

\* A write that is under way when the destructor begins still writes the next
\* frame.
NextFrame ==
    connected /\ writes > 0 =>
        Head(write_queue) \in {keepalive, Len(written) + 1}

\* The destructor sets shutting_down before it does anything else.
Destroying == owner # "running" \/ Queued("shutdown") # 0 => shutting_down

-----------------------------------------------------------------------------
(* What becomes ready, and what runs.                                      *)

Ops == {"send", "header", "body", "written", "timer", "shutdown"}

LEMMA CountNat ==
    ASSUME TypeOK
    PROVE  \A o \in Ops : Queued(o) \in Nat
<1>1. ready \in Seq(Handlers)  BY DEF TypeOK
<1> QED  BY <1>1, CountType DEF Queued

LEMMA AppendCounts ==
    ASSUME TypeOK, NEW h \in Handlers, ready' = Append(ready, h)
    PROVE  /\ ready' \in Seq(Handlers)
           /\ \A o \in Ops : Queued(o)' = IF h.op = o THEN Queued(o) + 1
                                                      ELSE Queued(o)
<1>1. ready \in Seq(Handlers)  BY DEF TypeOK
<1>2. ready' \in Seq(Handlers)  BY <1>1
<1> SUFFICES ASSUME NEW o \in Ops
             PROVE  Queued(o)' = IF h.op = o THEN Queued(o) + 1 ELSE Queued(o)
  BY <1>2
<1> QED  BY <1>1, CountAppend DEF Queued

LEMMA ReadyCounts ==
    ASSUME TypeOK, NEW op \in Ops, NEW result, Ready(op, result),
           [op |-> op, result |-> result] \in Handlers
    PROVE  /\ ready' \in Seq(Handlers)
           /\ ready' = Append(ready, [op |-> op, result |-> result])
           /\ \A o \in Ops : Queued(o)' = IF o = op THEN Queued(o) + 1
                                                    ELSE Queued(o)
<1> DEFINE h == [op |-> op, result |-> result]
<1>1. h \in Handlers /\ h.op = op  OBVIOUS
<1>2. ready' = Append(ready, h)  BY DEF Ready
<1> HIDE DEF h
<1>3. /\ ready' \in Seq(Handlers)
      /\ \A o \in Ops : Queued(o)' = IF h.op = o THEN Queued(o) + 1 ELSE Queued(o)
  BY <1>1, <1>2, AppendCounts
<1>4. \A o \in Ops : Queued(o)' = IF o = op THEN Queued(o) + 1 ELSE Queued(o)
  BY <1>1, <1>3
<1> QED  BY <1>2, <1>3, <1>4 DEF h

LEMMA RunCounts ==
    ASSUME TypeOK, NEW op \in Ops, Run(op)
    PROVE  /\ ready' \in Seq(Handlers)
           /\ ready # <<>> /\ ready' = Tail(ready)
           /\ Head(ready) \in Handlers /\ Head(ready) = ready[1] /\ 1 \in DOMAIN ready
           /\ Head(ready).op = op /\ running = "idle"
           /\ \A o \in Ops : Queued(o)' = IF o = op THEN Queued(o) - 1
                                                    ELSE Queued(o)
           /\ Queued(op) > 0
<1>1. ready \in Seq(Handlers) /\ ready # <<>> /\ ready' = Tail(ready)
      /\ Head(ready).op = op /\ running = "idle"
  BY DEF TypeOK, Run
<1>2. ready' \in Seq(Handlers) /\ Head(ready) \in Handlers /\ Head(ready) = ready[1]
      /\ 1 \in DOMAIN ready
  BY <1>1
<1>3. \A o \in Ops : Queued(o)' = IF o = op THEN Queued(o) - 1 ELSE Queued(o)
  <2> TAKE o \in Ops
  <2>1. Queued(o)' = IF Head(ready).op = o THEN Queued(o) - 1 ELSE Queued(o)
    BY <1>1, CountTail DEF Queued
  <2> QED  BY <1>1, <2>1
<1>4. Queued(op) # 0  BY <1>1, <1>2, CountZero DEF Queued
<1> QED  BY <1>1, <1>2, <1>3, <1>4, CountNat

-----------------------------------------------------------------------------
(* The read chain and the write chain.                                     *)

Chains == TypeOK /\ OneRead /\ WriteChain

\* The connection and the destructor only go one way.
OneWay == (connected' => connected) /\ (shutting_down => shutting_down')

LEMMA QuietRead ==
    ASSUME OneRead, UNCHANGED <<running, header_reads, body_reads>>, OneWay,
           Queued("header")' = Queued("header"), Queued("body")' = Queued("body")
    PROVE  OneRead'
  BY DEF OneRead, OneWay

LEMMA QuietWrite ==
    ASSUME WriteChain, UNCHANGED writeVars, OneWay,
           Queued("written")' = Queued("written")
    PROVE  WriteChain'
  BY DEF WriteChain, OneWay, writeVars

LEMMA DisconnectLoses ==
    ASSUME TypeOK, handle_disconnect \/ close_socket
    PROVE  connected' = FALSE /\ connected' \in BOOLEAN /\ cancelled' \in BOOLEAN
<1>1. connected' = FALSE
  BY DEF TypeOK, handle_disconnect, close_socket, lossVars
<1>2. cancelled' = (waits > 0) \/ cancelled' = cancelled
  BY DEF handle_disconnect, close_socket, lossVars
<1>3. (waits > 0) = TRUE \/ (waits > 0) = FALSE  BY DEF TypeOK
<1>4. cancelled' \in BOOLEAN  BY <1>2, <1>3 DEF TypeOK
<1> QED  BY <1>1, <1>4

\* enqueue_frame starts a write only if none is under way.
LEMMA EnqueueChain ==
    ASSUME Chains, NEW frame \in Nat, enqueue_frame(frame), shutting_down' = shutting_down,
           Queued("written")' = Queued("written")
    PROVE  /\ write_queue' \in Seq(Nat) /\ writing' \in BOOLEAN /\ writes' \in Nat
           /\ connected' \in BOOLEAN /\ cancelled' \in BOOLEAN
           /\ WriteChain' /\ OneWay
<1>0. TypeOK /\ WriteChain /\ Queued("written") \in Nat
      /\ writes \in Nat /\ write_queue \in Seq(Nat)
  BY CountNat DEF Chains, Ops, TypeOK
<1>1. CASE UNCHANGED <<writeVars, lossVars>>
  <2>1. OneWay  BY <1>1 DEF lossVars, OneWay
  <2> QED  BY <1>0, <1>1, <2>1, QuietWrite DEF writeVars, lossVars, TypeOK
<1>2. CASE handle_disconnect /\ UNCHANGED writeVars
  <2>1. connected' = FALSE /\ connected' \in BOOLEAN /\ cancelled' \in BOOLEAN
    BY <1>0, <1>2, DisconnectLoses
  <2>2. OneWay  BY <2>1 DEF OneWay
  <2> QED  BY <1>0, <1>2, <2>1, <2>2, QuietWrite DEF writeVars, TypeOK
<1>3. CASE /\ ~shutting_down /\ connected
           /\ write_queue' = Append(write_queue, frame)
           /\ IF writing THEN UNCHANGED <<writing, writes>> ELSE do_write(write_queue')
           /\ UNCHANGED lossVars
  <2>1. write_queue' \in Seq(Nat) /\ write_queue' # <<>>
    BY <1>0, <1>3, AppendProperties
  <2>2. connected' = connected /\ cancelled' = cancelled /\ OneWay
    BY <1>3 DEF lossVars, OneWay
  <2>3. CASE writing
    <3>1. UNCHANGED <<writing, writes>>  BY <1>3, <2>3
    <3> QED  BY <1>0, <1>3, <2>1, <2>2, <2>3, <3>1 DEF WriteChain, TypeOK
  <2>4. CASE ~writing
    <3>1. writing' = TRUE /\ writes' = writes + 1
      BY <1>3, <2>1, <2>4 DEF do_write
    <3>2. writes = 0 /\ Queued("written") = 0  BY <1>0, <1>3, <2>4 DEF WriteChain, TypeOK
    <3>3. WriteChain'  BY <1>3, <2>1, <2>2, <3>1, <3>2 DEF WriteChain
    <3> QED  BY <1>0, <2>1, <2>2, <3>1, <3>3 DEF TypeOK
  <2> QED  BY <2>3, <2>4
<1> QED  BY <1>1, <1>2, <1>3 DEF enqueue_frame

LEMMA InitChains == Init => Chains
<1> SUFFICES ASSUME Init PROVE Chains  OBVIOUS
<1>1. \A o : Queued(o) = 0  BY CountEmpty DEF Init, Queued
<1>2. TypeOK
  <2>1. ready \in Seq(Handlers) /\ write_queue \in Seq(Nat) /\ written \in Seq(Nat)
        /\ receive_queue \in Seq(Nat) /\ polled \in Seq(Nat)
    BY DEF Init
  <2>2. connected \in BOOLEAN /\ writing \in BOOLEAN /\ cancelled \in BOOLEAN
        /\ shutting_down \in BOOLEAN /\ stopped \in BOOLEAN
    BY DEF Init
  <2> QED  BY <2>1, <2>2, ClientAssumption DEF Init, TypeOK
<1> QED  BY <1>1, <1>2 DEF Init, Chains, OneRead, WriteChain

\* Operations that complete, and the clock.
LEMMA CompletionChains ==
    ASSUME Chains, Completion \/ TimerExpires \/ WaitAborted \/ Tick
    PROVE  Chains'
<1> USE DEF readVars, queueVars, writeVars, timerVars, lossVars, stopVars
<1>0. TypeOK /\ OneRead /\ WriteChain  BY DEF Chains
<1>1. \A o \in Ops : Queued(o) \in Nat  BY <1>0, CountNat
<1>2. ASSUME NEW r \in {"error", "bad", "keepalive", "data"}, HeaderArrives(r)
      PROVE  Chains'
  <2>1. [op |-> "header", result |-> r] \in Handlers  BY DEF Handlers
  <2>2. Ready("header", r) /\ header_reads > 0 /\ header_reads' = header_reads - 1
        /\ UNCHANGED <<running, body_reads, arrived, queueVars, polled, writeVars,
                       sent, written, timerVars, lossVars, stopVars>>
    BY <1>2 DEF HeaderArrives
  <2>3. ready' \in Seq(Handlers)
        /\ \A o \in Ops : Queued(o)' = IF o = "header" THEN Queued(o) + 1 ELSE Queued(o)
    BY <1>0, <2>1, <2>2, ReadyCounts DEF Ops
  <2>4. TypeOK'  BY <1>0, <2>2, <2>3 DEF TypeOK
  <2>5. OneRead'
    <3>1. Queued("header")' = Queued("header") + 1 /\ Queued("body")' = Queued("body")
      BY <2>3 DEF Ops
    <3>2. /\ header_reads \in Nat /\ body_reads \in Nat
          /\ Queued("header") \in Nat /\ Queued("body") \in Nat
      BY <1>0, <1>1 DEF Ops, TypeOK
    <3>3. header_reads' + body_reads' + Queued("header")' + Queued("body")'
          = header_reads + body_reads + Queued("header") + Queued("body")
      BY <2>2, <3>1, <3>2
    <3> QED  BY <1>0, <2>2, <3>3 DEF OneRead
  <2>6. WriteChain'  BY <1>0, <2>2, <2>3 DEF WriteChain, Ops
  <2> QED  BY <2>4, <2>5, <2>6 DEF Chains
<1>3. ASSUME NEW r \in {"error", "ok"}, BodyArrives(r) PROVE Chains'
  <2>1. [op |-> "body", result |-> r] \in Handlers  BY DEF Handlers
  <2>2. Ready("body", r) /\ body_reads > 0 /\ body_reads' = body_reads - 1
        /\ arrived' = (IF r = "ok" THEN arrived + 1 ELSE arrived)
        /\ UNCHANGED <<running, header_reads, queueVars, polled, writeVars,
                       sent, written, timerVars, lossVars, stopVars>>
    BY <1>3 DEF BodyArrives
  <2>3. ready' \in Seq(Handlers)
        /\ \A o \in Ops : Queued(o)' = IF o = "body" THEN Queued(o) + 1 ELSE Queued(o)
    BY <1>0, <2>1, <2>2, ReadyCounts DEF Ops
  <2>4. TypeOK'  BY <1>0, <2>2, <2>3 DEF TypeOK
  <2>5. OneRead'
    <3>1. Queued("header")' = Queued("header") /\ Queued("body")' = Queued("body") + 1
      BY <2>3 DEF Ops
    <3>2. /\ header_reads \in Nat /\ body_reads \in Nat
          /\ Queued("header") \in Nat /\ Queued("body") \in Nat
      BY <1>0, <1>1 DEF Ops, TypeOK
    <3>3. header_reads' + body_reads' + Queued("header")' + Queued("body")'
          = header_reads + body_reads + Queued("header") + Queued("body")
      BY <2>2, <3>1, <3>2
    <3> QED  BY <1>0, <2>2, <3>3 DEF OneRead
  <2>6. WriteChain'  BY <1>0, <2>2, <2>3 DEF WriteChain, Ops
  <2> QED  BY <2>4, <2>5, <2>6 DEF Chains
<1>4. ASSUME NEW r \in {"error", "ok"}, WriteEnds(r) PROVE Chains'
  <2>1. [op |-> "written", result |-> r] \in Handlers  BY DEF Handlers
  <2>2. Ready("written", r) /\ writes > 0 /\ writes' = writes - 1
        /\ written' = (IF r = "ok" /\ Head(write_queue) # keepalive
                       THEN Append(written, Head(write_queue)) ELSE written)
        /\ UNCHANGED <<readVars, queueVars, polled, write_queue, writing, sent,
                       timerVars, lossVars, stopVars>>
    BY <1>4 DEF WriteEnds
  <2>3. ready' \in Seq(Handlers)
        /\ \A o \in Ops : Queued(o)' = IF o = "written" THEN Queued(o) + 1 ELSE Queued(o)
    BY <1>0, <2>1, <2>2, ReadyCounts DEF Ops
  <2>4. write_queue # <<>>  BY <1>0, <1>1, <2>2 DEF WriteChain, Ops, TypeOK
  <2>5. written' \in Seq(Nat)
    <3>1. Head(write_queue) \in Nat  BY <1>0, <2>4 DEF TypeOK
    <3> QED  BY <1>0, <2>2, <3>1 DEF TypeOK
  <2>6. TypeOK'  BY <1>0, <2>2, <2>3, <2>5 DEF TypeOK
  <2>7. OneRead'  BY <1>0, <2>2, <2>3 DEF OneRead, Ops
  <2>8. WriteChain'  BY <1>0, <1>1, <2>2, <2>3 DEF WriteChain, Ops, TypeOK
  <2> QED  BY <2>6, <2>7, <2>8 DEF Chains
<1>5. CASE TimerExpires \/ WaitAborted
  <2>1. PICK r \in {"error", "ok"} : Ready("timer", r)
    BY <1>5 DEF TimerExpires, WaitAborted
  <2>2. [op |-> "timer", result |-> r] \in Handlers  BY DEF Handlers
  <2>3. /\ waits > 0 /\ waits' = waits - 1 /\ cancelled' \in BOOLEAN
        /\ UNCHANGED <<readVars, queueVars, polled, writeVars, sent, written,
                       timer, age, connected, stopVars>>
    BY <1>0, <1>5 DEF TimerExpires, WaitAborted, TypeOK
  <2>4. ready' \in Seq(Handlers)
        /\ \A o \in Ops : Queued(o)' = IF o = "timer" THEN Queued(o) + 1 ELSE Queued(o)
    BY <1>0, <2>1, <2>2, ReadyCounts DEF Ops
  <2>5. TypeOK'  BY <1>0, <2>3, <2>4 DEF TypeOK
  <2>6. OneRead' /\ WriteChain'
    BY <1>0, <2>3, <2>4 DEF OneRead, WriteChain, Ops
  <2> QED  BY <2>5, <2>6 DEF Chains
<1>6. CASE Tick
  <2>1. TypeOK'  BY <1>0, <1>6, ClientAssumption DEF Tick, TypeOK
  <2>2. UNCHANGED <<ready, readVars, writeVars, lossVars, stopVars>>  BY <1>6 DEF Tick
  <2>3. OneRead' /\ WriteChain'
    BY <1>0, <2>2 DEF OneRead, WriteChain, Queued
  <2> QED  BY <2>1, <2>3 DEF Chains
<1> QED  BY <1>2, <1>3, <1>4, <1>5, <1>6 DEF Completion

\* Handlers on the I/O thread.
LEMMA HandlerChains ==
    ASSUME Chains, IoThread
    PROVE  Chains'
<1> USE DEF readVars, queueVars, writeVars, timerVars, lossVars, stopVars
<1>0. TypeOK /\ OneRead /\ WriteChain  BY DEF Chains
<1>1. \A o \in Ops : Queued(o) \in Nat  BY <1>0, CountNat
<1>2. handle_disconnect => connected' = FALSE /\ connected' \in BOOLEAN
                           /\ cancelled' \in BOOLEAN
  BY <1>0, DisconnectLoses
<1>3. CASE OnHeader
  <2>1. Run("header") /\ UNCHANGED <<running, arrived, queueVars, polled, writeVars, sent,
                                     written, waits, timer, stopVars>>
    BY <1>3 DEF OnHeader
  <2>2. /\ ready' \in Seq(Handlers) /\ running = "idle" /\ Queued("header") > 0
        /\ \A o \in Ops : Queued(o)' = IF o = "header" THEN Queued(o) - 1 ELSE Queued(o)
    BY <1>0, <2>1, RunCounts DEF Ops
  <2>3. \/ /\ connected' = FALSE /\ connected' \in BOOLEAN /\ cancelled' \in BOOLEAN
           /\ UNCHANGED <<header_reads, body_reads, age>>
        \/ /\ UNCHANGED <<connected, cancelled>> /\ age' = 0
           /\ \/ header_reads' = header_reads + 1 /\ body_reads' = body_reads
              \/ header_reads' = header_reads /\ body_reads' = body_reads + 1
    BY <1>2, <1>3 DEF OnHeader, do_read_header, do_read_body
  <2>4. TypeOK'  BY <1>0, <2>1, <2>2, <2>3 DEF TypeOK
  <2>5. OneRead'
    <3>1. header_reads = 0 /\ body_reads = 0 /\ Queued("header") = 1 /\ Queued("body") = 0
      <4>1. header_reads \in Nat /\ body_reads \in Nat
            /\ Queued("header") \in Nat /\ Queued("body") \in Nat
        BY <1>0, <1>1 DEF Ops, TypeOK
      <4>2. header_reads + body_reads + Queued("header") + Queued("body") + 0 <= 1
        BY <1>0, <2>2 DEF OneRead
      <4> QED  BY <2>2, <4>1, <4>2
    <3>2. Queued("header")' = 0 /\ Queued("body")' = 0 /\ running' = "idle"
      BY <2>1, <2>2, <3>1 DEF Ops
    <3>3. CASE connected' = FALSE /\ UNCHANGED <<header_reads, body_reads>>
      BY <3>1, <3>2, <3>3 DEF OneRead
    <3>4. CASE header_reads' = 1 /\ body_reads' = 0  BY <3>2, <3>4 DEF OneRead
    <3>5. CASE header_reads' = 0 /\ body_reads' = 1  BY <3>2, <3>5 DEF OneRead
    <3>6. \/ connected' = FALSE /\ UNCHANGED <<header_reads, body_reads>>
          \/ header_reads' = 1 /\ body_reads' = 0
          \/ header_reads' = 0 /\ body_reads' = 1
      BY <2>3, <3>1
    <3> QED  BY <3>3, <3>4, <3>5, <3>6
  <2>6. WriteChain'
    <3>1. OneWay  BY <2>1, <2>3 DEF OneWay
    <3> QED  BY <1>0, <2>1, <2>2, <3>1, QuietWrite DEF Ops
  <2> QED  BY <2>4, <2>5, <2>6 DEF Chains
<1>4. CASE OnBody
  <2>1. Run("body") /\ UNCHANGED <<header_reads, body_reads, arrived, queueVars, polled,
                                   writeVars, sent, written, timerVars, stopVars>>
    BY <1>4 DEF OnBody
  <2>2. /\ ready' \in Seq(Handlers) /\ running = "idle" /\ Queued("body") > 0
        /\ \A o \in Ops : Queued(o)' = IF o = "body" THEN Queued(o) - 1 ELSE Queued(o)
    BY <1>0, <2>1, RunCounts DEF Ops
  <2>3. \/ /\ connected' = FALSE /\ connected' \in BOOLEAN /\ cancelled' \in BOOLEAN
           /\ running' = running
        \/ running' = "test" /\ UNCHANGED <<connected, cancelled>>
    BY <1>2, <1>4 DEF OnBody
  <2>4. TypeOK'  BY <1>0, <2>1, <2>2, <2>3 DEF TypeOK
  <2>5. OneRead'
    <3>1. header_reads = 0 /\ body_reads = 0 /\ Queued("header") = 0 /\ Queued("body") = 1
      <4>1. header_reads \in Nat /\ body_reads \in Nat
            /\ Queued("header") \in Nat /\ Queued("body") \in Nat
        BY <1>0, <1>1 DEF Ops, TypeOK
      <4>2. header_reads + body_reads + Queued("header") + Queued("body") + 0 <= 1
        BY <1>0, <2>2 DEF OneRead
      <4> QED  BY <2>2, <4>1, <4>2
    <3>2. header_reads' = 0 /\ body_reads' = 0 /\ Queued("header")' = 0 /\ Queued("body")' = 0
      BY <2>1, <2>2, <3>1 DEF Ops
    <3>3. CASE connected' = FALSE /\ running' = running
      BY <2>2, <3>2, <3>3 DEF OneRead
    <3>4. CASE running' = "test"  BY <3>2, <3>4 DEF OneRead
    <3> QED  BY <2>3, <3>3, <3>4
  <2>6. WriteChain'
    <3>1. OneWay  BY <2>1, <2>3 DEF OneWay
    <3> QED  BY <1>0, <2>1, <2>2, <3>1, QuietWrite DEF Ops
  <2> QED  BY <2>4, <2>5, <2>6 DEF Chains
<1>5. CASE TestShutdown
  <2>1. /\ running = "test" /\ running' \in {"idle", "push"}
        /\ running' = "idle" => shutting_down
        /\ UNCHANGED <<ready, header_reads, body_reads, arrived, queueVars, polled,
                       writeVars, sent, written, timerVars, lossVars, stopVars>>
    BY <1>5 DEF TestShutdown
  <2>2. TypeOK'  BY <1>0, <2>1 DEF TypeOK
  <2>3. OneRead'
    <3>1. \A o : Queued(o)' = Queued(o)  BY <2>1 DEF Queued
    <3> QED  BY <1>0, <1>1, <2>1, <3>1 DEF OneRead, Ops, TypeOK
  <2>4. WriteChain'  BY <1>0, <2>1 DEF WriteChain, Queued
  <2> QED  BY <2>2, <2>3, <2>4 DEF Chains
<1>6. CASE PushPacket
  <2>1. /\ running = "push" /\ running' = "idle"
        /\ header_reads' = header_reads + 1 /\ body_reads' = body_reads
        /\ UNCHANGED <<ready, arrived, polled, writeVars, sent, written, timerVars,
                       lossVars, stopVars>>
    BY <1>6 DEF PushPacket, do_read_header
  <2>2. receive_queue' \in Seq(Nat) /\ dropped_packets' \in Nat
    <3>1. receive_queue \in Seq(Nat) /\ arrived \in Nat /\ dropped_packets \in Nat
      BY <1>0 DEF TypeOK
    <3>2. \/ receive_queue' = Append(receive_queue, arrived)
             /\ dropped_packets' = dropped_packets
          \/ receive_queue' = receive_queue /\ dropped_packets' = dropped_packets + 1
      BY <1>6 DEF PushPacket
    <3>3. Append(receive_queue, arrived) \in Seq(Nat)  BY <3>1
    <3>4. dropped_packets + 1 \in Nat  BY <3>1
    <3>5. CASE receive_queue' = receive_queue  BY <3>1, <3>2, <3>4, <3>5
    <3>6. CASE receive_queue' = Append(receive_queue, arrived)  BY <3>1, <3>2, <3>3, <3>4, <3>6
    <3> QED  BY <3>2, <3>5, <3>6
  <2>3. TypeOK'  BY <1>0, <2>1, <2>2 DEF TypeOK
  <2>4. OneRead'
    <3>1. \A o : Queued(o)' = Queued(o)  BY <2>1 DEF Queued
    <3>2. header_reads = 0 /\ body_reads = 0 /\ Queued("header") = 0 /\ Queued("body") = 0
      BY <1>0, <1>1, <2>1 DEF OneRead, Ops, TypeOK
    <3> QED  BY <2>1, <3>1, <3>2 DEF OneRead
  <2>5. WriteChain'  BY <1>0, <2>1 DEF WriteChain, Queued
  <2> QED  BY <2>3, <2>4, <2>5 DEF Chains
<1>7. CASE OnWritten
  <2>1. Run("written") /\ write_queue' = Tail(write_queue)
        /\ UNCHANGED <<readVars, queueVars, polled, sent, written, timerVars, stopVars>>
    BY <1>7 DEF OnWritten
  <2>2. /\ ready' \in Seq(Handlers) /\ Queued("written") > 0
        /\ \A o \in Ops : Queued(o)' = IF o = "written" THEN Queued(o) - 1 ELSE Queued(o)
    BY <1>0, <2>1, RunCounts DEF Ops
  <2>3. writes = 0 /\ Queued("written") = 1 /\ Queued("written")' = 0 /\ write_queue # <<>>
    BY <1>0, <1>1, <2>2 DEF WriteChain, Ops, TypeOK
  <2>4. write_queue' \in Seq(Nat)  BY <1>0, <2>1, <2>3 DEF TypeOK
  <2>5. \/ /\ connected' = FALSE /\ connected' \in BOOLEAN /\ cancelled' \in BOOLEAN
           /\ UNCHANGED <<writing, writes>>
        \/ UNCHANGED <<connected, cancelled>> /\ do_write(write_queue')
    BY <1>2, <1>7 DEF OnWritten
  <2>6. /\ writing' \in BOOLEAN /\ writes' \in Nat /\ connected' \in BOOLEAN
        /\ cancelled' \in BOOLEAN /\ OneWay
        /\ writes' = 0 \/ (writes' = 1 /\ write_queue' # <<>>)
        /\ connected' => /\ writing' <=> writes' = 1
                         /\ ~writing' => write_queue' = <<>>
    <3>0. writing \in BOOLEAN /\ connected \in BOOLEAN /\ cancelled \in BOOLEAN
      BY <1>0 DEF TypeOK
    <3>1. CASE /\ connected' = FALSE /\ connected' \in BOOLEAN /\ cancelled' \in BOOLEAN
               /\ UNCHANGED <<writing, writes>>
      BY <2>1, <2>3, <3>0, <3>1 DEF OneWay
    <3>2. CASE UNCHANGED <<connected, cancelled>> /\ do_write(write_queue')
      <4>1. CASE write_queue' = <<>>
        <5>1. writing' = FALSE /\ writes' = 0  BY <2>3, <3>2, <4>1 DEF do_write
        <5>2. ~writing' /\ writing' \in BOOLEAN  BY <5>1
        <5> QED  BY <2>1, <3>0, <3>2, <4>1, <5>1, <5>2 DEF OneWay
      <4>2. CASE write_queue' # <<>>
        <5>1. writing' = TRUE /\ writes' = 1  BY <2>3, <3>2, <4>2 DEF do_write
        <5> QED  BY <2>1, <3>0, <3>2, <4>2, <5>1 DEF OneWay
      <4> QED  BY <4>1, <4>2
    <3> QED  BY <2>5, <3>1, <3>2
  <2>7. TypeOK'  BY <1>0, <2>1, <2>2, <2>4, <2>6 DEF TypeOK
  <2>8. OneRead'  BY <1>0, <2>1, <2>2, <2>6, QuietRead DEF Ops
  <2>9. WriteChain'  BY <2>3, <2>6 DEF WriteChain
  <2> QED  BY <2>7, <2>8, <2>9 DEF Chains
<1>8. ASSUME NEW op \in {"timer", "send"}, NEW frame \in Nat, Run(op),
             \/ enqueue_frame(frame)
             \/ handle_disconnect /\ UNCHANGED writeVars
             \/ UNCHANGED <<writeVars, lossVars>>,
             waits' \in Nat, timer' \in Nat,
             UNCHANGED <<readVars, queueVars, polled, sent, written, age, stopVars>>
      PROVE  Chains'
  <2>1. /\ ready' \in Seq(Handlers)
        /\ \A o \in Ops \ {"timer", "send"} : Queued(o)' = Queued(o)
    BY <1>0, <1>8, RunCounts DEF Ops
  <2>2. /\ write_queue' \in Seq(Nat) /\ writing' \in BOOLEAN /\ writes' \in Nat
        /\ connected' \in BOOLEAN /\ cancelled' \in BOOLEAN
        /\ WriteChain' /\ OneWay
    <3>1. CASE enqueue_frame(frame)  BY <1>8, <2>1, <3>1, EnqueueChain DEF Ops
    <3>2. CASE UNCHANGED writeVars /\ (handle_disconnect \/ UNCHANGED lossVars)
      <4>1. OneWay  BY <1>2, <1>8, <3>2 DEF OneWay
      <4>2. WriteChain'  BY <1>0, <2>1, <3>2, <4>1, QuietWrite DEF Ops
      <4> QED  BY <1>0, <1>2, <3>2, <4>1, <4>2 DEF TypeOK
    <3> QED  BY <1>8, <3>1, <3>2
  <2>3. TypeOK'  BY <1>0, <1>8, <2>1, <2>2 DEF TypeOK
  <2>4. OneRead'  BY <1>0, <1>8, <2>1, <2>2, QuietRead DEF Ops
  <2> QED  BY <2>2, <2>3, <2>4 DEF Chains
<1>9. CASE OnTimer
  <2>1. Run("timer") /\ UNCHANGED <<readVars, queueVars, polled, sent, written, age, stopVars>>
    BY <1>9 DEF OnTimer
  <2>2. \/ enqueue_frame(keepalive)
        \/ handle_disconnect /\ UNCHANGED writeVars
        \/ UNCHANGED <<writeVars, lossVars>>
    BY <1>9 DEF OnTimer
  <2>3. waits' \in Nat /\ timer' \in Nat
    BY <1>0, <1>9, ClientAssumption DEF OnTimer, start_heartbeat, TypeOK
  <2>4. keepalive \in Nat  BY DEF keepalive
  <2> QED  BY <1>8, <2>1, <2>2, <2>3, <2>4
<1>10. CASE SendTask
  <2>1. Run("send") /\ enqueue_frame(Head(ready).frame)
        /\ UNCHANGED <<readVars, queueVars, polled, sent, written, timerVars, stopVars>>
    BY <1>10 DEF SendTask
  <2>2. Head(ready) \in Handlers /\ Head(ready).op = "send"
    BY <1>0, <2>1, RunCounts DEF Ops
  <2>3. Head(ready).frame \in Nat  BY <2>2 DEF Handlers
  <2> QED  BY <1>0, <1>8, <2>1, <2>3 DEF TypeOK
<1>11. CASE ShutdownTask
  <2>1. Run("shutdown") /\ close_socket /\ owner' = "closed"
        /\ UNCHANGED <<readVars, queueVars, polled, writeVars, sent, written, timerVars,
                       shutting_down, stopped>>
    BY <1>11 DEF ShutdownTask
  <2>2. /\ ready' \in Seq(Handlers)
        /\ \A o \in Ops \ {"shutdown"} : Queued(o)' = Queued(o)
    BY <1>0, <2>1, RunCounts DEF Ops
  <2>3. connected' = FALSE /\ connected' \in BOOLEAN /\ cancelled' \in BOOLEAN /\ OneWay
    BY <1>0, <2>1, DisconnectLoses DEF OneWay
  <2>4. TypeOK'  BY <1>0, <2>1, <2>2, <2>3 DEF TypeOK
  <2>5. OneRead' /\ WriteChain'
    BY <1>0, <2>1, <2>2, <2>3, QuietRead, QuietWrite DEF Ops
  <2> QED  BY <2>4, <2>5 DEF Chains
<1> QED  BY <1>3, <1>4, <1>5, <1>6, <1>7, <1>9, <1>10, <1>11 DEF IoThread

\* The owner.
LEMMA OwnerChains ==
    ASSUME Chains, poll_packet \/ send \/ BeginShutdown \/ Shutdown
    PROVE  Chains'
<1> USE DEF readVars, queueVars, writeVars, timerVars, lossVars, stopVars
<1>0. TypeOK /\ OneRead /\ WriteChain  BY DEF Chains
<1>1. ASSUME TypeOK', UNCHANGED <<running, header_reads, body_reads, writeVars>>, OneWay,
             \A o \in {"header", "body", "written"} : Queued(o)' = Queued(o)
      PROVE  Chains'
  BY <1>0, <1>1, QuietRead, QuietWrite DEF Chains
<1>2. ASSUME ready' = ready PROVE \A o : Queued(o)' = Queued(o)
  BY <1>2 DEF Queued
<1>3. CASE poll_packet
  <2>1. receive_queue # <<>> /\ receive_queue' = Tail(receive_queue)
        /\ polled' = Append(polled, Head(receive_queue))
        /\ UNCHANGED <<ready, readVars, dropped_packets, writeVars, sent, written,
                       timerVars, lossVars, stopVars>>
    BY <1>3 DEF poll_packet
  <2>2. receive_queue' \in Seq(Nat) /\ polled' \in Seq(Nat)  BY <1>0, <2>1 DEF TypeOK
  <2>3. TypeOK'  BY <1>0, <2>1, <2>2 DEF TypeOK
  <2> QED  BY <1>1, <1>2, <2>1, <2>3 DEF OneWay
<1>4. CASE send
  <2> DEFINE h == [op |-> "send", frame |-> sent + 1]
  <2>1. ready' = Append(ready, h) /\ sent' = sent + 1
        /\ UNCHANGED <<readVars, queueVars, polled, writeVars, written, timerVars,
                       lossVars, stopVars>>
    BY <1>4 DEF send
  <2>2. h \in Handlers /\ h.op = "send"  BY <1>0 DEF Handlers, TypeOK
  <2> HIDE DEF h
  <2>3. ready' \in Seq(Handlers) /\ \A o \in Ops \ {"send"} : Queued(o)' = Queued(o)
    BY <1>0, <2>1, <2>2, AppendCounts
  <2>4. TypeOK'  BY <1>0, <2>1, <2>3 DEF TypeOK
  <2> QED  BY <1>1, <2>1, <2>3, <2>4 DEF OneWay, Ops
<1>5. CASE BeginShutdown
  <2>1. TypeOK'  BY <1>0, <1>5 DEF BeginShutdown, TypeOK
  <2> QED  BY <1>1, <1>2, <1>5, <2>1 DEF BeginShutdown, OneWay
<1>6. CASE PostShutdown
  <2>1. [op |-> "shutdown", result |-> "ok"] \in Handlers  BY DEF Handlers
  <2>2. ready' \in Seq(Handlers) /\ \A o \in Ops \ {"shutdown"} : Queued(o)' = Queued(o)
    BY <1>0, <1>6, <2>1, ReadyCounts DEF PostShutdown, Ops
  <2>3. TypeOK'  BY <1>0, <1>6, <2>2 DEF PostShutdown, TypeOK
  <2> QED  BY <1>1, <1>6, <2>2, <2>3 DEF PostShutdown, OneWay, Ops
<1>7. CASE Stop
  <2>1. TypeOK'  BY <1>0, <1>7 DEF Stop, TypeOK
  <2> QED  BY <1>1, <1>2, <1>7, <2>1 DEF Stop, OneWay
<1>8. CASE JoinAndDrain
  <2>1. receive_queue' \in Seq(Nat)  BY <1>8 DEF JoinAndDrain
  <2>2. TypeOK'  BY <1>0, <1>8, <2>1 DEF JoinAndDrain, TypeOK
  <2> QED  BY <1>1, <1>2, <1>8, <2>2 DEF JoinAndDrain, OneWay
<1> QED  BY <1>3, <1>4, <1>5, <1>6, <1>7, <1>8 DEF Shutdown

LEMMA StepChains == Chains /\ [Next]_vars => Chains'
<1> SUFFICES ASSUME Chains, [Next]_vars PROVE Chains'  OBVIOUS
<1>1. CASE UNCHANGED vars
  BY <1>1 DEF vars, readVars, queueVars, writeVars, timerVars, lossVars, stopVars,
              Chains, TypeOK, OneRead, WriteChain, Queued
<1>2. CASE Next
  BY <1>2, CompletionChains, HandlerChains, OwnerChains DEF Next
<1> QED  BY <1>1, <1>2

\* A connected client is never deaf and never reads twice at a time, however
\* often receive_queue is full and whenever the destructor comes.
THEOREM OneReadAtATime == Spec => []OneRead
<1>1. Chains => OneRead  BY DEF Chains
<1> QED  BY <1>1, InitChains, StepChains, PTL DEF Spec

-----------------------------------------------------------------------------
(* Packets, from the socket to the owner.                                  *)

BodyRead == [op |-> "body", result |-> "ok"]

Packets == PacketsInOrder /\ SeenBefore /\ Destroying

\* A step that moves no packet.
LEMMA QuietPackets ==
    ASSUME PacketsInOrder, SeenBefore,
           UNCHANGED <<polled, receive_queue, dropped_packets, arrived>>,
           shutting_down => shutting_down',
           InHand' => InHand, ~shutting_down' => (InHand => InHand')
    PROVE  PacketsInOrder' /\ SeenBefore'
<1> DEFINE seen == polled \o receive_queue
<1>1. seen' = seen  OBVIOUS
<1>2. /\ \A i, j \in DOMAIN seen : i < j => seen[i] < seen[j]
      /\ ~shutting_down => Len(seen) + dropped_packets + (IF InHand THEN 1 ELSE 0) = arrived
      /\ \A i \in DOMAIN seen : seen[i] <= arrived /\ (InHand => seen[i] < arrived)
  BY DEF PacketsInOrder, SeenBefore
<1> HIDE DEF seen
<1>3. /\ \A i, j \in DOMAIN seen' : i < j => seen'[i] < seen'[j]
      /\ ~shutting_down' => Len(seen') + dropped_packets' + (IF InHand' THEN 1 ELSE 0) = arrived'
      /\ \A i \in DOMAIN seen' : seen'[i] <= arrived' /\ (InHand' => seen'[i] < arrived')
  BY <1>1, <1>2
<1> QED  BY <1>3 DEF PacketsInOrder, SeenBefore, seen

\* Something other than a packet becomes ready, or something else runs.
LEMMA AppendHand ==
    ASSUME TypeOK, NEW h \in Handlers, h # BodyRead, ready' = Append(ready, h),
           running' = running
    PROVE  InHand' <=> InHand
<1>1. Contains(ready', BodyRead) <=> Contains(ready, BodyRead)
  BY ContainsAppend DEF TypeOK
<1> QED  BY <1>1 DEF InHand, BodyRead

LEMMA RunHand ==
    ASSUME TypeOK, NEW op \in Ops, Run(op), running' = running
    PROVE  /\ InHand' => InHand
           /\ Head(ready) # BodyRead => (InHand => InHand')
<1>1. ready \in Seq(Handlers) /\ ready # <<>> /\ ready' = Tail(ready)
  BY DEF TypeOK, Run
<1>2. /\ Contains(ready', BodyRead) => Contains(ready, BodyRead)
      /\ Contains(ready, BodyRead) => Contains(ready', BodyRead) \/ Head(ready) = BodyRead
  BY <1>1, ContainsTail
<1> QED  BY <1>2 DEF InHand, BodyRead

\* No second packet is ready while one is in hand or a read is under way.
LEMMA NoneReady ==
    ASSUME Chains, body_reads > 0 \/ running # "idle"
    PROVE  (running # "idle" => body_reads = 0 /\ header_reads = 0)
           /\ (body_reads > 0 => running = "idle")
           /\ ~Contains(ready, BodyRead)
<1>0. TypeOK /\ OneRead  BY DEF Chains
<1>1. header_reads \in Nat /\ body_reads \in Nat
      /\ Queued("header") \in Nat /\ Queued("body") \in Nat
  BY <1>0, CountNat DEF Ops, TypeOK
<1>2. header_reads + body_reads + Queued("header") + Queued("body")
      + (IF running = "idle" THEN 0 ELSE 1) <= 1
  BY <1>0 DEF OneRead
<1>3. Queued("body") = 0 /\ (running # "idle" => body_reads = 0 /\ header_reads = 0)
  BY <1>1, <1>2
<1>4. BodyRead.op = "body"  BY DEF BodyRead
<1>5. ready \in Seq(Handlers)  BY <1>0 DEF TypeOK
<1>6. ~Contains(ready, BodyRead)  BY <1>3, <1>4, <1>5, ContainsCount DEF Queued
<1>7. body_reads > 0 => running = "idle"  BY <1>1, <1>3
<1> QED  BY <1>3, <1>6, <1>7

\* The packet in hand reaches receive_queue, or is dropped.
LEMMA PushPackets ==
    ASSUME Chains, PacketsInOrder, SeenBefore, PushPacket
    PROVE  PacketsInOrder' /\ SeenBefore'
<1> DEFINE seen == polled \o receive_queue
<1>0. /\ polled \in Seq(Nat) /\ receive_queue \in Seq(Nat) /\ arrived \in Nat
      /\ dropped_packets \in Nat /\ seen \in Seq(Nat)
  BY DEF Chains, TypeOK
<1>1. /\ running = "push" /\ running' = "idle"
      /\ UNCHANGED <<ready, arrived, polled, shutting_down>>
  BY DEF PushPacket, stopVars
<1>2. ~Contains(ready, BodyRead)  BY <1>1, NoneReady
<1>3. InHand /\ ~InHand'  BY <1>1, <1>2 DEF InHand, BodyRead
<1>4. /\ \A i, j \in DOMAIN seen : i < j => seen[i] < seen[j]
      /\ ~shutting_down => Len(seen) + dropped_packets + 1 = arrived
      /\ \A i \in DOMAIN seen : seen[i] < arrived
  BY <1>3 DEF PacketsInOrder, SeenBefore
<1>5. CASE receive_queue' = Append(receive_queue, arrived) /\ dropped_packets' = dropped_packets
  <2>1. seen' = Append(seen, arrived)  BY <1>0, <1>1, <1>5
  <2> HIDE DEF seen
  <2>2. /\ Len(seen') = Len(seen) + 1 /\ DOMAIN seen' = 1 .. Len(seen) + 1
        /\ DOMAIN seen = 1 .. Len(seen) /\ Len(seen) \in Nat
        /\ seen'[Len(seen) + 1] = arrived
        /\ \A i \in DOMAIN seen : seen'[i] = seen[i] /\ seen[i] \in Nat
    BY <1>0, <2>1
  <2>3. \A i, j \in DOMAIN seen' : i < j => seen'[i] < seen'[j]
    BY <1>4, <2>2
  <2>4. \A i \in DOMAIN seen' : seen'[i] <= arrived
    <3> TAKE i \in DOMAIN seen'
    <3>1. CASE i = Len(seen) + 1  BY <1>0, <2>2, <3>1
    <3>2. CASE i \in DOMAIN seen
      <4>1. seen'[i] \in Nat /\ seen'[i] < arrived  BY <1>4, <2>2, <3>2
      <4> QED  BY <1>0, <4>1
    <3> QED  BY <2>2, <3>1, <3>2
  <2>5. ~shutting_down => Len(seen') + dropped_packets' + 0 = arrived
    BY <1>0, <1>4, <1>5, <2>2
  <2> QED  BY <1>1, <1>3, <2>3, <2>4, <2>5 DEF PacketsInOrder, SeenBefore, seen
<1>6. CASE receive_queue' = receive_queue /\ dropped_packets' = dropped_packets + 1
  <2>1. seen' = seen  BY <1>1, <1>6
  <2> HIDE DEF seen
  <2>2. Len(seen) \in Nat /\ \A i \in DOMAIN seen : seen[i] \in Nat  BY <1>0
  <2>3. ~shutting_down => Len(seen') + dropped_packets' + 0 = arrived
    BY <1>0, <1>4, <1>6, <2>1, <2>2
  <2>4. \A i \in DOMAIN seen' : seen'[i] <= arrived  BY <1>0, <1>4, <2>1, <2>2
  <2>5. \A i, j \in DOMAIN seen' : i < j => seen'[i] < seen'[j]  BY <1>4, <2>1
  <2> QED  BY <1>1, <1>3, <2>3, <2>4, <2>5 DEF PacketsInOrder, SeenBefore, seen
<1> QED  BY <1>5, <1>6 DEF PushPacket

\* A packet is read.
LEMMA ReadPackets ==
    ASSUME Chains, PacketsInOrder, SeenBefore, BodyArrives("ok")
    PROVE  PacketsInOrder' /\ SeenBefore'
<1> DEFINE seen == polled \o receive_queue
<1>0. /\ polled \in Seq(Nat) /\ receive_queue \in Seq(Nat) /\ arrived \in Nat
      /\ dropped_packets \in Nat /\ seen \in Seq(Nat) /\ ready \in Seq(Handlers)
  BY DEF Chains, TypeOK
<1>1. /\ body_reads > 0 /\ arrived' = arrived + 1 /\ ready' = Append(ready, BodyRead)
      /\ UNCHANGED <<running, polled, receive_queue, dropped_packets, shutting_down>>
  BY DEF BodyArrives, Ready, BodyRead, queueVars, stopVars
<1>2. ~InHand  BY <1>1, NoneReady DEF InHand, BodyRead
<1>3. InHand'
  <2>1. BodyRead \in Handlers  BY DEF BodyRead, Handlers
  <2>2. Contains(ready', BodyRead)  BY <1>0, <1>1, <2>1, ContainsAppend
  <2> QED  BY <2>2 DEF InHand, BodyRead
<1>4. seen' = seen  BY <1>1
<1>5. /\ \A i, j \in DOMAIN seen : i < j => seen[i] < seen[j]
      /\ ~shutting_down => Len(seen) + dropped_packets + 0 = arrived
      /\ \A i \in DOMAIN seen : seen[i] <= arrived
  BY <1>2 DEF PacketsInOrder, SeenBefore
<1> HIDE DEF seen
<1>6. Len(seen) \in Nat /\ \A i \in DOMAIN seen : seen[i] \in Nat  BY <1>0
<1>7. ~shutting_down' => Len(seen') + dropped_packets' + 1 = arrived'
  <2>1. ~shutting_down' => Len(seen) + dropped_packets = arrived  BY <1>0, <1>1, <1>5, <1>6
  <2>2. Len(seen') = Len(seen) /\ dropped_packets' = dropped_packets  BY <1>1, <1>4
  <2> QED  BY <1>1, <2>1, <2>2
<1>8. \A i \in DOMAIN seen' : seen'[i] <= arrived' /\ seen'[i] < arrived'
  <2> TAKE i \in DOMAIN seen'
  <2>1. seen'[i] \in Nat /\ seen'[i] <= arrived  BY <1>4, <1>5, <1>6
  <2> QED  BY <1>0, <1>1, <2>1
<1>9. \A i, j \in DOMAIN seen' : i < j => seen'[i] < seen'[j]  BY <1>4, <1>5
<1> QED  BY <1>3, <1>7, <1>8, <1>9 DEF PacketsInOrder, SeenBefore, seen

LEMMA HeadMoves ==
    ASSUME NEW p \in Seq(Nat), NEW q \in Seq(Nat), q # <<>>
    PROVE  Append(p, Head(q)) \o Tail(q) = p \o q
<1> DEFINE a == Append(p, Head(q)) \o Tail(q)
           b == p \o q
<1>1. a \in Seq(Nat) /\ b \in Seq(Nat) /\ Len(a) = Len(p) + Len(q) /\ Len(b) = Len(p) + Len(q)
  OBVIOUS
<1>2. ASSUME NEW i \in 1 .. Len(p) + Len(q) PROVE a[i] = b[i]
  <2>1. CASE i <= Len(p)  BY <2>1
  <2>2. CASE i = Len(p) + 1  BY <2>2
  <2>3. CASE i > Len(p) + 1  BY <2>3
  <2> QED  BY <2>1, <2>2, <2>3
<1> HIDE DEF a, b
<1>3. a = b  BY <1>1, <1>2
<1> QED  BY <1>3 DEF a, b

\* The owner polls, which moves a packet from one end to the other.
LEMMA PollPackets ==
    ASSUME Chains, PacketsInOrder, SeenBefore, poll_packet
    PROVE  PacketsInOrder' /\ SeenBefore'
<1>0. polled \in Seq(Nat) /\ receive_queue \in Seq(Nat)  BY DEF Chains, TypeOK
<1>1. /\ receive_queue # <<>> /\ receive_queue' = Tail(receive_queue)
      /\ polled' = Append(polled, Head(receive_queue))
      /\ UNCHANGED <<ready, running, arrived, dropped_packets, shutting_down>>
  BY DEF poll_packet, readVars, stopVars
<1>2. polled' \o receive_queue' = polled \o receive_queue
  <2>1. Append(polled, Head(receive_queue)) \o Tail(receive_queue) = polled \o receive_queue
    BY <1>0, <1>1, HeadMoves
  <2> QED  BY <1>1, <2>1
<1>3. InHand' <=> InHand  BY <1>1 DEF InHand
<1> QED  BY <1>1, <1>2, <1>3 DEF PacketsInOrder, SeenBefore

\* The destructor drops what has not been polled.
LEMMA DrainPackets ==
    ASSUME Chains, Packets, JoinAndDrain
    PROVE  PacketsInOrder' /\ SeenBefore'
<1> DEFINE seen == polled \o receive_queue
<1>0. polled \in Seq(Nat) /\ receive_queue \in Seq(Nat)  BY DEF Chains, TypeOK
<1>1. /\ owner = "joining" /\ receive_queue' = <<>>
      /\ UNCHANGED <<ready, running, arrived, polled, shutting_down>>
  BY DEF JoinAndDrain, readVars
<1>2. shutting_down'  BY <1>1 DEF Packets, Destroying
<1>3. InHand' <=> InHand  BY <1>1 DEF InHand
<1>4. DOMAIN seen' \subseteq DOMAIN seen /\ \A i \in DOMAIN seen' : seen'[i] = seen[i]
  <2>1. polled' \o <<>> = polled  BY <1>0, <1>1
  <2>2. DOMAIN polled \subseteq DOMAIN seen /\ \A i \in DOMAIN polled : seen[i] = polled[i]
    BY <1>0
  <2> QED  BY <1>1, <2>1, <2>2
<1>5. /\ \A i, j \in DOMAIN seen : i < j => seen[i] < seen[j]
      /\ \A i \in DOMAIN seen : seen[i] <= arrived /\ (InHand => seen[i] < arrived)
  BY DEF Packets, PacketsInOrder, SeenBefore
<1> HIDE DEF seen
<1>6. \A i, j \in DOMAIN seen' : i < j => seen'[i] < seen'[j]  BY <1>4, <1>5
<1>7. \A i \in DOMAIN seen' : seen'[i] <= arrived' /\ (InHand' => seen'[i] < arrived')
  BY <1>1, <1>3, <1>4, <1>5
<1> QED  BY <1>2, <1>6, <1>7 DEF PacketsInOrder, SeenBefore, seen

LEMMA InitPackets == Init => Packets
<1> SUFFICES ASSUME Init PROVE Packets  OBVIOUS
<1>1. polled \o receive_queue = <<>>  BY DEF Init
<1>2. ~InHand  BY DEF Init, InHand, Contains
<1>3. Queued("shutdown") = 0  BY CountEmpty DEF Init, Queued
<1> QED
  BY <1>1, <1>2, <1>3 DEF Init, Packets, PacketsInOrder, SeenBefore, Destroying

\* The destructor sets shutting_down before anything else.
LEMMA StepDestroying == Chains /\ Destroying /\ [Next]_vars => Destroying'
<1> SUFFICES ASSUME Chains, Destroying, [Next]_vars PROVE Destroying'
  OBVIOUS
<1> USE DEF stopVars
<1>0. TypeOK  BY DEF Chains
<1>1. ASSUME UNCHANGED <<ready, owner, shutting_down>> PROVE Destroying'
  BY <1>1 DEF Destroying, Queued
<1>2. CASE UNCHANGED vars \/ Tick \/ TestShutdown \/ PushPacket \/ poll_packet
  BY <1>1, <1>2 DEF vars, Tick, TestShutdown, PushPacket, poll_packet
<1>3. ASSUME UNCHANGED <<owner, shutting_down>>, Queued("shutdown")' = Queued("shutdown")
      PROVE  Destroying'
  BY <1>3 DEF Destroying
<1>4. ASSUME NEW op \in Ops \ {"shutdown"}, NEW r, Ready(op, r),
             [op |-> op, result |-> r] \in Handlers, UNCHANGED <<owner, shutting_down>>
      PROVE  Destroying'
  <2>1. Queued("shutdown")' = Queued("shutdown")  BY <1>0, <1>4, ReadyCounts DEF Ops
  <2> QED  BY <1>3, <1>4, <2>1
<1>5. CASE Completion
  <2>1. ASSUME NEW r \in {"error", "bad", "keepalive", "data"}, HeaderArrives(r)
        PROVE  Destroying'
    BY <1>4, <2>1 DEF HeaderArrives, Handlers, Ops
  <2>2. ASSUME NEW r \in {"error", "ok"}, BodyArrives(r) \/ WriteEnds(r)
        PROVE  Destroying'
    BY <1>4, <2>2 DEF BodyArrives, WriteEnds, Handlers, Ops
  <2> QED  BY <1>5, <2>1, <2>2 DEF Completion
<1>6. CASE TimerExpires \/ WaitAborted
  BY <1>4, <1>6 DEF TimerExpires, WaitAborted, Handlers, Ops
<1>7. ASSUME NEW op \in Ops \ {"shutdown"}, Run(op), UNCHANGED <<owner, shutting_down>>
      PROVE  Destroying'
  <2>1. Queued("shutdown")' = Queued("shutdown")  BY <1>0, <1>7, RunCounts DEF Ops
  <2> QED  BY <1>3, <1>7, <2>1
<1>8. CASE OnHeader \/ OnBody \/ OnWritten \/ OnTimer \/ SendTask
  BY <1>7, <1>8 DEF OnHeader, OnBody, OnWritten, OnTimer, SendTask, Ops
<1>9. CASE ShutdownTask
  <2>1. Queued("shutdown") > 0 /\ shutting_down' = shutting_down
    BY <1>0, <1>9, RunCounts DEF ShutdownTask, Ops
  <2>2. Queued("shutdown") \in Nat  BY <1>0, CountNat DEF Ops
  <2> QED  BY <2>1, <2>2 DEF Destroying
<1>10. CASE send
  <2> DEFINE h == [op |-> "send", frame |-> sent + 1]
  <2>1. ready' = Append(ready, h) /\ UNCHANGED <<owner, shutting_down>>
    BY <1>10 DEF send
  <2>2. h \in Handlers /\ h.op = "send"  BY <1>0 DEF Handlers, TypeOK
  <2> HIDE DEF h
  <2>3. Queued("shutdown")' = Queued("shutdown")
    BY <1>0, <2>1, <2>2, AppendCounts DEF Ops
  <2> QED  BY <1>3, <2>1, <2>3
<1>11. CASE BeginShutdown  BY <1>11 DEF BeginShutdown, Destroying
<1>12. CASE Shutdown
  BY <1>12 DEF Shutdown, PostShutdown, Stop, JoinAndDrain, Destroying
<1> QED
  BY <1>2, <1>5, <1>6, <1>8, <1>9, <1>10, <1>11, <1>12 DEF Next, IoThread

LEMMA StepPackets ==
    Chains /\ Packets /\ [Next]_vars => PacketsInOrder' /\ SeenBefore'
<1> SUFFICES ASSUME Chains, Packets, [Next]_vars PROVE PacketsInOrder' /\ SeenBefore'
  OBVIOUS
<1> USE DEF readVars, queueVars, stopVars
<1>0. TypeOK /\ PacketsInOrder /\ SeenBefore  BY DEF Chains, Packets
<1> DEFINE Still == UNCHANGED <<polled, receive_queue, dropped_packets, arrived>>
<1>1. ASSUME Still, UNCHANGED <<ready, running>>, shutting_down => shutting_down'
      PROVE  PacketsInOrder' /\ SeenBefore'
  <2>1. InHand' <=> InHand  BY <1>1 DEF InHand
  <2> QED  BY <1>0, <1>1, <2>1, QuietPackets
<1>2. CASE UNCHANGED vars \/ Tick \/ BeginShutdown \/ Stop
  BY <1>1, <1>2 DEF vars, Tick, BeginShutdown, Stop
<1>3. ASSUME Still, UNCHANGED <<running, shutting_down>>, NEW h \in Handlers, h # BodyRead,
             ready' = Append(ready, h)
      PROVE  PacketsInOrder' /\ SeenBefore'
  BY <1>0, <1>3, AppendHand, QuietPackets
<1>4. ASSUME Still, UNCHANGED <<running, shutting_down>>, NEW op, NEW r, Ready(op, r),
             [op |-> op, result |-> r] \in Handlers, op # "body" \/ r = "error"
      PROVE  PacketsInOrder' /\ SeenBefore'
  <2> DEFINE h == [op |-> op, result |-> r]
  <2>1. h \in Handlers /\ h # BodyRead  BY <1>4 DEF BodyRead
  <2>2. ready' = Append(ready, h)  BY <1>4 DEF Ready
  <2> HIDE DEF h
  <2> QED  BY <1>3, <1>4, <2>1, <2>2
<1>5. CASE Completion
  <2>1. ASSUME NEW r \in {"error", "bad", "keepalive", "data"}, HeaderArrives(r)
        PROVE  PacketsInOrder' /\ SeenBefore'
    BY <1>4, <2>1 DEF HeaderArrives, Handlers
  <2>2. ASSUME NEW r \in {"error", "ok"}, WriteEnds(r)
        PROVE  PacketsInOrder' /\ SeenBefore'
    BY <1>4, <2>2 DEF WriteEnds, Handlers
  <2>3. ASSUME BodyArrives("error") PROVE PacketsInOrder' /\ SeenBefore'
    BY <1>4, <2>3 DEF BodyArrives, Handlers
  <2> QED  BY <1>0, <1>5, <2>1, <2>2, <2>3, ReadPackets DEF Completion
<1>6. CASE TimerExpires \/ WaitAborted
  BY <1>4, <1>6 DEF TimerExpires, WaitAborted, Handlers
<1>7. ASSUME Still, UNCHANGED <<running, shutting_down>>, NEW op \in Ops, op # "body", Run(op)
      PROVE  PacketsInOrder' /\ SeenBefore'
  <2>1. Head(ready) # BodyRead  BY <1>7 DEF Run, BodyRead
  <2> QED  BY <1>0, <1>7, <2>1, RunHand, QuietPackets
<1>8. CASE OnHeader \/ OnWritten \/ OnTimer \/ SendTask \/ ShutdownTask
  BY <1>7, <1>8 DEF OnHeader, OnWritten, OnTimer, SendTask, ShutdownTask, Ops
<1>9. CASE OnBody
  <2>1. Run("body") /\ Still /\ shutting_down' = shutting_down /\ running = "idle"
    BY <1>9 DEF OnBody, Run
  <2>2. Head(ready) \in Handlers /\ Head(ready).op = "body" /\ Head(ready) = ready[1]
        /\ 1 \in DOMAIN ready
    BY <1>0, <2>1, RunCounts DEF Ops
  <2>3. Head(ready) = BodyRead <=> Head(ready).result # "error"
    BY <2>2 DEF Handlers, BodyRead
  <2>4. CASE Failed /\ running' = running
    <3>1. InHand' => InHand  BY <1>0, <2>1, <2>4, RunHand DEF Ops
    <3>2. ~shutting_down' => (InHand => InHand')
      BY <1>0, <2>1, <2>3, <2>4, RunHand DEF Ops, Failed
    <3> QED  BY <1>0, <2>1, <3>1, <3>2, QuietPackets
  <2>5. CASE ~Failed /\ running' = "test"
    <3>1. Contains(ready, BodyRead)  BY <2>2, <2>3, <2>5 DEF Failed, Contains
    <3>2. InHand /\ InHand'  BY <2>5, <3>1 DEF InHand, BodyRead
    <3> QED  BY <1>0, <2>1, <3>2, QuietPackets
  <2> QED  BY <1>9, <2>4, <2>5 DEF OnBody
<1>10. CASE TestShutdown
  <2>1. Still /\ UNCHANGED shutting_down /\ running = "test"
        /\ (running' = "idle" => shutting_down')
    BY <1>10 DEF TestShutdown
  <2>2. InHand /\ (~shutting_down' => InHand')  BY <2>1 DEF InHand
  <2> QED  BY <1>0, <2>1, <2>2, QuietPackets
<1>11. CASE send
  <2> DEFINE h == [op |-> "send", frame |-> sent + 1]
  <2>1. ready' = Append(ready, h) /\ Still /\ UNCHANGED <<running, shutting_down>>
    BY <1>11 DEF send
  <2>2. h \in Handlers /\ h # BodyRead  BY <1>0 DEF Handlers, TypeOK, BodyRead
  <2> HIDE DEF h
  <2> QED  BY <1>3, <2>1, <2>2
<1>12. CASE PostShutdown  BY <1>4, <1>12 DEF PostShutdown, Handlers
<1> QED
  BY <1>0, <1>2, <1>5, <1>6, <1>8, <1>9, <1>10, <1>11, <1>12, PushPackets, PollPackets,
     DrainPackets
  DEF Next, IoThread, Shutdown

\* The owner polls packets in the order in which they arrived, and every
\* packet that is missing was counted when receive_queue was full.
THEOREM PacketsStayInOrder == Spec => []PacketsInOrder
<1>1. Init => Chains /\ Packets  BY InitChains, InitPackets
<1>2. Chains /\ Packets /\ [Next]_vars => (Chains /\ Packets)'
  BY StepChains, StepPackets, StepDestroying DEF Packets
<1>3. Packets => PacketsInOrder  BY DEF Packets
<1> QED  BY <1>1, <1>2, <1>3, PTL DEF Spec

-----------------------------------------------------------------------------
(* Frames, from send to the socket.                                        *)

Sends == SendsInOrder /\ NextFrame

LEMMA SendBounds ==
    ASSUME Chains
    PROVE  /\ ready \in Seq(Handlers) /\ write_queue \in Seq(Nat)
           /\ written \in Seq(Nat) /\ Len(written) \in Nat /\ sent \in Nat
           /\ (writes > 0 => Count(ready, "written") = 0 /\ write_queue # <<>>)
           /\ (Count(ready, "written") # 0 => writes = 0 /\ write_queue # <<>>)
           /\ Count(ready, "written") <= 1
<1>0. TypeOK /\ WriteChain  BY DEF Chains
<1>1. /\ ready \in Seq(Handlers) /\ write_queue \in Seq(Nat) /\ written \in Seq(Nat)
      /\ sent \in Nat /\ writes \in Nat
  BY <1>0 DEF TypeOK
<1>2. Queued("written") \in Nat  BY <1>0, CountNat DEF Ops
<1>3. /\ (writes > 0 => Queued("written") = 0 /\ write_queue # <<>>)
      /\ (Queued("written") # 0 => writes = 0 /\ write_queue # <<>>)
      /\ Queued("written") <= 1
  BY <1>0, <1>1, <1>2 DEF WriteChain
<1> QED  BY <1>1, <1>3 DEF Queued

\* While the client is connected and not shutting down, NextFrame says nothing
\* new.
LEMMA OpenNextFrame ==
    ASSUME Chains', SendsInOrder', connected', ~shutting_down'
    PROVE  NextFrame'
<1>0. TypeOK' /\ WriteChain'  BY DEF Chains
<1>1. /\ ready' \in Seq(Handlers) /\ write_queue' \in Seq(Nat) /\ written' \in Seq(Nat)
      /\ sent' \in Nat /\ writes' \in Nat
  BY <1>0 DEF TypeOK
<1>2. Queued("written")' \in Nat  BY <1>1, CountType DEF Queued
<1>3. InTransit(ready', "send", write_queue', Len(written'), sent')  BY DEF SendsInOrder
<1>4. ASSUME writes' > 0 PROVE Head(write_queue') \in {keepalive, Len(written') + 1}
  <2>1. Queued("written")' = 0 /\ write_queue' # <<>>
    BY <1>0, <1>1, <1>2, <1>4 DEF WriteChain
  <2>2. Count(ready', "written") = 0  BY <2>1 DEF Queued
  <2>3. Ack \in Handlers  BY DEF Ack, Handlers
  <2>4. Len(written') \in Nat  BY <1>1
  <2> QED  BY <1>1, <1>3, <2>1, <2>2, <2>3, <2>4, TransitWritten
<1> QED  BY <1>4 DEF NextFrame

\* A step that moves no frame into or out of write_queue.
LEMMA QuietSends ==
    ASSUME Chains, Sends, OneWay, UNCHANGED <<write_queue, writes, written, sent>>,
           \/ ready' = ready
           \/ \E h \in Handlers : h.op # "send" /\ h # Ack /\ ready' = Append(ready, h)
           \/ \E op \in Ops \ {"send", "written"} : Run(op)
    PROVE  Sends'
<1>1. NextFrame'  BY DEF Sends, NextFrame, OneWay
<1>2. ASSUME connected', ~shutting_down'
      PROVE  InTransit(ready', "send", write_queue', Len(written'), sent')
  <2>1. InTransit(ready, "send", write_queue, Len(written), sent)
    BY <1>2 DEF Sends, SendsInOrder, OneWay
  <2>2. InTransit(ready', "send", write_queue, Len(written), sent)
    <3>1. CASE ready' = ready  BY <2>1, <3>1
    <3>2. ASSUME NEW h \in Handlers, h.op # "send", h # Ack, ready' = Append(ready, h)
          PROVE  InTransit(ready', "send", write_queue, Len(written), sent)
      BY <2>1, <3>2, SendBounds, TransitAppendOther
    <3>3. ASSUME NEW op \in Ops \ {"send", "written"}, Run(op)
          PROVE  InTransit(ready', "send", write_queue, Len(written), sent)
      <4>1. ready # <<>> /\ Head(ready).op = op /\ ready' = Tail(ready)  BY <3>3 DEF Run
      <4>2. Head(ready).op # "send" /\ Head(ready) # Ack  BY <4>1 DEF Ack
      <4> QED  BY <2>1, <4>1, <4>2, SendBounds, TransitRunOther
    <3> QED  BY <3>1, <3>2, <3>3
  <2> QED  BY <2>2
<1>3. SendsInOrder'  BY <1>2 DEF Sends, SendsInOrder
<1> QED  BY <1>1, <1>3 DEF Sends

\* The owner sends.
LEMMA PostSends ==
    ASSUME Chains, Sends, send
    PROVE  Sends'
<1> DEFINE h == [op |-> "send", frame |-> sent + 1]
<1>1. /\ UNCHANGED <<write_queue, writes, written, connected, shutting_down>>
      /\ sent' = sent + 1 /\ ready' = Append(ready, h)
  BY DEF send, writeVars, lossVars, stopVars
<1>2. h \in Handlers /\ h.op = "send" /\ h.frame = sent + 1 /\ h # Ack
  BY SendBounds DEF Handlers, Ack
<1> HIDE DEF h
<1>3. connected' /\ ~shutting_down' =>
        InTransit(ready', "send", write_queue', Len(written'), sent')
  BY <1>1, <1>2, SendBounds, TransitPost DEF Sends, SendsInOrder
<1>4. NextFrame'  BY <1>1 DEF Sends, NextFrame
<1> QED  BY <1>1, <1>3, <1>4 DEF Sends, SendsInOrder

\* The front of the queue is written, or not.
LEMMA WrittenSends ==
    ASSUME Chains, Sends, NEW r \in {"error", "ok"}, WriteEnds(r)
    PROVE  Sends'
<1> DEFINE h == [op |-> "written", result |-> r]
<1>1. /\ writes > 0 /\ writes' = writes - 1 /\ (r = "error" \/ connected)
      /\ ready' = Append(ready, h)
      /\ UNCHANGED <<write_queue, sent, connected, shutting_down>>
      /\ written' = (IF r = "ok" /\ Head(write_queue) # keepalive
                     THEN Append(written, Head(write_queue)) ELSE written)
  BY DEF WriteEnds, Ready, lossVars, stopVars
<1>2. h \in Handlers /\ h.op = "written"  BY DEF Handlers
<1>3. Count(ready, "written") = 0 /\ write_queue # <<>>  BY <1>1, SendBounds
<1>4. NextFrame'
  <2>1. writes \in Nat /\ writes <= 1
    <3>1. Queued("written") \in Nat /\ writes \in Nat
      BY CountNat DEF Chains, Ops, TypeOK
    <3> QED  BY <3>1 DEF Chains, WriteChain
  <2> QED  BY <1>1, <2>1 DEF NextFrame
<1>5. CASE r = "error"
  <2>1. written' = written /\ h # Ack /\ h.op # "send"  BY <1>1, <1>5 DEF Ack
  <2> HIDE DEF h
  <2>2. SendsInOrder'
    BY <1>1, <1>2, <2>1, SendBounds, TransitAppendOther DEF Sends, SendsInOrder
  <2> QED  BY <1>4, <2>2 DEF Sends
<1>6. CASE r = "ok"
  <2>1. connected /\ h = Ack /\ Ack \in Handlers  BY <1>1, <1>2, <1>6 DEF Ack
  <2> HIDE DEF h
  <2>2. ~shutting_down => InTransit(ready, "send", write_queue, Len(written), sent)
    BY <2>1 DEF Sends, SendsInOrder
  <2>3. CASE Head(write_queue) = keepalive
    <3>1. written' = written  BY <1>1, <2>3
    <3>2. ~shutting_down => InTransit(Append(ready, Ack), "send", write_queue, Len(written), sent)
      BY <1>3, <2>1, <2>2, <2>3, SendBounds, TransitWritten
    <3>3. SendsInOrder'  BY <1>1, <2>1, <3>1, <3>2 DEF Sends, SendsInOrder
    <3> QED  BY <1>4, <3>3 DEF Sends
  <2>4. CASE Head(write_queue) # keepalive
    <3>1. Head(write_queue) = Len(written) + 1
      BY <1>1, <2>1, <2>4 DEF Sends, NextFrame
    <3>2. ~shutting_down =>
            InTransit(Append(ready, Ack), "send", write_queue, Len(written) + 1, sent)
      BY <1>3, <2>1, <2>2, <2>4, SendBounds, TransitWritten
    <3>3. written' = Append(written, Len(written) + 1)  BY <1>1, <1>6, <2>4, <3>1
    <3>4. written' \in Seq(Nat)  BY <3>3, SendBounds
    <3>5. Len(written') = Len(written) + 1 /\ written' = [i \in 1 .. Len(written') |-> i]
      BY <3>3, <3>4, SendBounds, WrittenPrefix DEF Sends, SendsInOrder
    <3>6. SendsInOrder'  BY <1>1, <2>1, <3>2, <3>5 DEF SendsInOrder
    <3> QED  BY <1>4, <3>6 DEF Sends
  <2> QED  BY <2>3, <2>4
<1> QED  BY <1>5, <1>6

\* What enqueue_frame does to write_queue: nothing, unless the client is
\* connected, not shutting down, and stays so.
LEMMA EnqueueCases ==
    ASSUME Chains, NEW frame, enqueue_frame(frame), shutting_down' = shutting_down
    PROVE  \/ connected' = FALSE
           \/ /\ shutting_down /\ connected' = connected
              /\ UNCHANGED <<write_queue, writes>>
           \/ /\ connected /\ connected' = connected /\ ~shutting_down
              /\ write_queue' = Append(write_queue, frame)
<1>1. handle_disconnect => connected' = FALSE  BY DisconnectLoses DEF Chains
<1>2. connected \in BOOLEAN  BY DEF Chains, TypeOK
<1> QED  BY <1>1, <1>2 DEF enqueue_frame, writeVars, lossVars

\* A frame reaches the queue: one that was sent, or a keepalive.
LEMMA EnqueueSends ==
    ASSUME Chains, Chains', Sends, NEW op \in {"send", "timer"}, Run(op), NEW frame,
           op = "send" => frame = Head(ready).frame,
           op = "timer" => frame = keepalive,
           enqueue_frame(frame), UNCHANGED <<sent, written, shutting_down>>
    PROVE  Sends'
<1>1. ready # <<>> /\ Head(ready).op = op /\ ready' = Tail(ready)  BY DEF Run
<1>2. CASE connected' = FALSE
  BY <1>2 DEF Sends, SendsInOrder, NextFrame
<1>3. CASE shutting_down /\ connected' = connected /\ UNCHANGED <<write_queue, writes>>
  BY <1>3 DEF Sends, SendsInOrder, NextFrame
<1>4. CASE /\ connected /\ connected' = connected /\ ~shutting_down
           /\ write_queue' = Append(write_queue, frame)
  <2>1. InTransit(ready, "send", write_queue, Len(written), sent)
    BY <1>4 DEF Sends, SendsInOrder
  <2>2. InTransit(ready', "send", write_queue', Len(written), sent)
    <3>1. CASE op = "send"
      <4>1. write_queue = <<>> => Count(ready, "written") = 0  BY SendBounds
      <4>2. InTransit(Tail(ready), "send", Append(write_queue, Head(ready).frame),
                      Len(written), sent)
        BY <1>1, <2>1, <3>1, <4>1, SendBounds, TransitEnqueue
      <4> QED  BY <1>1, <1>4, <3>1, <4>2
    <3>2. CASE op = "timer"
      <4>1. Head(ready).op # "send" /\ Head(ready) # Ack  BY <1>1, <3>2 DEF Ack
      <4>2. InTransit(Tail(ready), "send", Append(write_queue, keepalive), Len(written), sent)
        BY <1>1, <2>1, <4>1, SendBounds, TransitRunOther
      <4> QED  BY <1>1, <1>4, <3>2, <4>2
    <3> QED  BY <3>1, <3>2
  <2>3. SendsInOrder'  BY <2>2 DEF Sends, SendsInOrder
  <2>4. NextFrame'  BY <1>4, <2>3, OpenNextFrame
  <2> QED  BY <2>3, <2>4 DEF Sends
<1> QED  BY <1>2, <1>3, <1>4, EnqueueCases

\* The front of the queue is popped.
LEMMA PoppedSends ==
    ASSUME Chains, Chains', Sends, OnWritten
    PROVE  Sends'
<1>1. /\ Run("written") /\ write_queue' = Tail(write_queue)
      /\ UNCHANGED <<sent, written, shutting_down>>
  BY DEF OnWritten, stopVars
<1>2. CASE connected' = FALSE  BY <1>1, <1>2 DEF Sends, SendsInOrder, NextFrame
<1>3. CASE ~Failed /\ connected' = connected /\ connected
  <2>1. ~shutting_down /\ Head(ready).result # "error"  BY <1>3 DEF Failed
  <2>2. /\ ready # <<>> /\ ready' = Tail(ready) /\ Head(ready) \in Handlers
        /\ Head(ready).op = "written" /\ Queued("written") > 0
    <3>1. TypeOK  BY DEF Chains
    <3> QED  BY <1>1, <3>1, RunCounts DEF Ops
  <2>3. Head(ready) = Ack  BY <2>1, <2>2 DEF Handlers, Ack
  <2>4. write_queue # <<>> /\ Count(ready, "written") <= 1
    <3>1. Queued("written") # 0  BY <2>2
    <3> QED  BY <3>1, SendBounds DEF Queued
  <2>5. InTransit(ready, "send", write_queue, Len(written), sent)
    BY <1>3, <2>1 DEF Sends, SendsInOrder
  <2>6. InTransit(ready', "send", write_queue', Len(written), sent)
    BY <1>1, <2>2, <2>3, <2>4, <2>5, SendBounds, TransitPop
  <2>7. SendsInOrder'  BY <1>1, <2>6 DEF Sends, SendsInOrder
  <2>8. NextFrame'  BY <1>1, <1>3, <2>1, <2>7, OpenNextFrame
  <2> QED  BY <2>7, <2>8 DEF Sends
<1>4. connected' = FALSE \/ (~Failed /\ connected' = connected /\ connected)
  <2>1. handle_disconnect => connected' = FALSE  BY DisconnectLoses DEF Chains
  <2>2. connected \in BOOLEAN  BY DEF Chains, TypeOK
  <2> QED  BY <2>1, <2>2 DEF OnWritten, lossVars
<1> QED  BY <1>2, <1>3, <1>4

LEMMA InitSends == Init => Sends
<1> SUFFICES ASSUME Init PROVE Sends  OBVIOUS
<1>1. Len(written) = 0 /\ sent = 0 /\ written = <<>> /\ ready = <<>>
      /\ write_queue = <<>> /\ writes = 0
  BY DEF Init
<1>2. written = [i \in 1 .. Len(written) |-> i]  BY <1>1
<1> QED  BY <1>1, <1>2, TransitEmpty DEF Sends, SendsInOrder, NextFrame

LEMMA StepSends == Chains /\ Chains' /\ Sends /\ [Next]_vars => Sends'
<1> SUFFICES ASSUME Chains, Chains', Sends, [Next]_vars PROVE Sends'
  OBVIOUS
<1> USE DEF readVars, queueVars, writeVars, timerVars, lossVars, stopVars
<1> DEFINE Still == UNCHANGED <<write_queue, writes, written, sent>>
<1>1. CASE \/ UNCHANGED vars \/ Tick \/ TestShutdown \/ PushPacket \/ poll_packet
           \/ BeginShutdown \/ Stop \/ JoinAndDrain
  <2>1. Still /\ OneWay /\ ready' = ready
    BY <1>1
    DEF vars, Tick, TestShutdown, PushPacket, poll_packet, BeginShutdown, Stop,
        JoinAndDrain, OneWay
  <2> QED  BY <2>1, QuietSends
<1>2. ASSUME Still, OneWay, NEW op \in Ops \ {"send", "written"}, NEW r, Ready(op, r),
             [op |-> op, result |-> r] \in Handlers
      PROVE  Sends'
  <2> DEFINE h == [op |-> op, result |-> r]
  <2>1. h \in Handlers /\ h.op # "send" /\ h # Ack  BY <1>2 DEF Ack
  <2>2. ready' = Append(ready, h)  BY <1>2 DEF Ready
  <2> HIDE DEF h
  <2> QED  BY <1>2, <2>1, <2>2, QuietSends
<1>3. CASE Completion
  <2>1. ASSUME NEW r \in {"error", "bad", "keepalive", "data"}, HeaderArrives(r)
        PROVE  Sends'
    <3>1. Ready("header", r) /\ Still /\ OneWay  BY <2>1 DEF HeaderArrives, OneWay
    <3> QED  BY <1>2, <3>1 DEF Handlers, Ops
  <2>2. ASSUME NEW r \in {"error", "ok"}, BodyArrives(r) PROVE Sends'
    <3>1. Ready("body", r) /\ Still /\ OneWay  BY <2>2 DEF BodyArrives, OneWay
    <3> QED  BY <1>2, <3>1 DEF Handlers, Ops
  <2> QED  BY <1>3, <2>1, <2>2, WrittenSends DEF Completion
<1>4. CASE TimerExpires \/ WaitAborted
  <2>1. PICK r \in {"error", "ok"} : Ready("timer", r)
    BY <1>4 DEF TimerExpires, WaitAborted
  <2>2. Still /\ OneWay  BY <1>4 DEF TimerExpires, WaitAborted, OneWay
  <2> QED  BY <1>2, <2>1, <2>2 DEF Handlers, Ops
<1>5. CASE PostShutdown
  <2>1. Ready("shutdown", "ok") /\ Still /\ OneWay  BY <1>5 DEF PostShutdown, OneWay
  <2> QED  BY <1>2, <2>1 DEF Handlers, Ops
<1>6. handle_disconnect \/ close_socket => connected' = FALSE
  BY DisconnectLoses DEF Chains
<1>7. CASE OnHeader \/ OnBody \/ ShutdownTask
  <2>1. PICK op \in Ops \ {"send", "written"} : Run(op)
    BY <1>7 DEF OnHeader, OnBody, ShutdownTask, Ops
  <2>2. Still /\ OneWay  BY <1>6, <1>7 DEF OnHeader, OnBody, ShutdownTask, OneWay
  <2> QED  BY <2>1, <2>2, QuietSends
<1>8. CASE OnTimer
  <2>1. Run("timer") /\ UNCHANGED <<sent, written, shutting_down>>  BY <1>8 DEF OnTimer
  <2>2. CASE enqueue_frame(keepalive)  BY <2>1, <2>2, EnqueueSends
  <2>3. CASE UNCHANGED writeVars /\ (handle_disconnect \/ UNCHANGED lossVars)
    <3>1. Still /\ OneWay  BY <1>6, <2>1, <2>3 DEF OneWay
    <3> QED  BY <2>1, <3>1, QuietSends DEF Ops
  <2> QED  BY <1>8, <2>2, <2>3 DEF OnTimer
<1>9. CASE SendTask  BY <1>9, EnqueueSends DEF SendTask
<1> QED
  BY <1>1, <1>3, <1>4, <1>5, <1>7, <1>8, <1>9, PostSends, PoppedSends
  DEF Next, IoThread, Shutdown

\* While the client is connected and not shutting down no frame is lost,
\* duplicated or overtaken, and what it has written is always a prefix of what
\* was sent, also after the destructor has begun.
THEOREM SendsStayInOrder == Spec => []SendsInOrder
<1>1. Init => Chains /\ Sends  BY InitChains, InitSends
<1>2. Chains /\ Sends /\ [Next]_vars => (Chains /\ Sends)'
  BY StepChains, StepSends
<1>3. Sends => SendsInOrder  BY DEF Sends
<1> QED  BY <1>1, <1>2, <1>3, PTL DEF Spec

=============================================================================
