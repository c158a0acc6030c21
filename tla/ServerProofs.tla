---------------------------- MODULE ServerProofs ----------------------------
(***************************************************************************)
(* The accept loop stays alive and never forks, Connect is the first       *)
(* packet of every session, the table of sessions is exact, and what is    *)
(* sent to an open session reaches it in order: for every number of        *)
(* sessions and calls and every capacity of the packet queue.              *)
(***************************************************************************)
EXTENDS Server, StrandProofs, SequenceTheorems

CallNames == {"send", "broadcast", "disconnect"}
TaskNames == CallNames \cup {"accepted", "accept_failed", "erase", "shutdown"}
TaskSet == [op : TaskNames, session_id : 0 .. MaxSessions, call : Nat]
Packets == [type : {"Connect", "Data", "Disconnect"}, session_id : Ids]

TypeOK ==
    /\ server_strand \in Seq(TaskSet)
    /\ accepts \in Nat
    /\ accepting \in {"idle", "check", "push", "enter", "start", "again"}
    /\ next_id \in 1 .. MaxSessions + 1
    /\ sessions \subseteq Ids
    /\ link \in [Ids -> {"new", "open", "closed", "gone"}]
    /\ callback \in [Ids -> {"idle", "data", "disconnect", "erase"}]
    /\ close_posted \subseteq Ids
    /\ packet_queue \in Seq(Packets)
    /\ dropped_packets \in BOOLEAN /\ shutting_down \in BOOLEAN /\ stopped \in BOOLEAN
    /\ owner \in {"running", "posting", "waiting", "closed", "joining", "destroyed"}
    /\ calls \in Nat
    /\ polled \in [Ids -> SUBSET {"Connect", "Disconnect"}]
    /\ called \in [Ids -> SUBSET Nat]
    /\ disconnected \subseteq Ids
    /\ handed \in [Ids -> Seq(Nat)]

\* The session the accept handler is busy with.
Current == next_id - 1
Handling == accepting \in {"check", "push", "enter", "start"}
Pushed == accepting \in {"enter", "start"}

\* The accept handler numbers the sessions: one that it has not reached, or is
\* busy with, is not started.
Numbering ==
    /\ Handling => Current \in Ids /\ link[Current] = "new"
    /\ Queued("accepted") # 0 /\ ~shutting_down => next_id <= MaxSessions
    /\ \A s \in Ids : s >= next_id => link[s] = "new"

\* How far the destructor has got, seen from the I/O threads.
Ending ==
    /\ owner # "running" => shutting_down
    /\ owner \in {"joining", "destroyed"} => stopped
    /\ owner = "destroyed" => /\ accepting = "idle" /\ packet_queue = <<>>
                              /\ \A s \in Ids : callback[s] = "idle"

\* Only the destructor posts the shutdown task.
ShutdownPosted ==
    \A i \in DOMAIN server_strand : server_strand[i].op = "shutdown" => shutting_down

\* The owner has been told of s, or will be by a packet in the queue.
Introduced(s) ==
    \/ "Connect" \in polled[s]
    \/ \E i \in DOMAIN packet_queue : packet_queue[i].session_id = s

\* A session is announced before it is started, and nobody else is.
Announced ==
    \A s \in Ids :
        /\ link[s] = "new" /\ Introduced(s) => Pushed /\ s = Current
        /\ link[s] # "new" \/ (Pushed /\ s = Current) =>
              Introduced(s) \/ owner = "destroyed"
        /\ callback[s] # "idle" => link[s] # "new"

\* A session on its way out of the table has been closed.
Leaving ==
    /\ \A s \in Ids : callback[s] \in {"disconnect", "erase"} => link[s] \in {"closed", "gone"}
    /\ \A i \in DOMAIN server_strand : server_strand[i].op = "erase" =>
          /\ server_strand[i].session_id \in Ids /\ server_strand[i].call = 0
          /\ link[server_strand[i].session_id] \in {"closed", "gone"}
    /\ accepting = "start" => Current \in sessions

IsCall(i) == server_strand[i].op \in CallNames

\* The calls on the strand are in the order in which they were made, and
\* younger than those whose frames have been handed over.
CallOrder ==
    /\ \A i \in DOMAIN server_strand : IsCall(i) => server_strand[i].call <= calls
    /\ \A i, j \in DOMAIN server_strand :
          IsCall(i) /\ IsCall(j) /\ i < j => server_strand[i].call < server_strand[j].call
    /\ \A s \in Ids : \A k \in DOMAIN handed[s] :
          /\ handed[s][k] <= calls
          /\ \A i \in DOMAIN server_strand : IsCall(i) => handed[s][k] < server_strand[i].call

\* What is sent to an announced session is not lost before it is started
\* either: the tasks wait until the accept handler has finished.
SendsKept ==
    \A s \in Ids :
        /\ called[s] # {} => "Connect" \in polled[s]
        /\ link[s] \in {"new", "open"} /\ ~shutting_down => \A n \in called[s] :
             Contains(handed[s], n) \/ Posted("send", s, n)

-----------------------------------------------------------------------------
(* What posting and running a task does to the strand.                     *)

LEMMA Constants == MaxSessions \in Nat /\ MaxSessions > 0 /\ QueueCapacity \in Nat
                   /\ MaxCalls \in Nat
  BY ServerAssumption

LEMMA IdsType == \A s \in Ids : s \in Nat /\ s > 0 /\ s \in 0 .. MaxSessions
  BY Constants DEF Ids

Accepts == {"accepted", "accept_failed"}

LEMMA CountNat ==
    ASSUME server_strand \in Seq(TaskSet)
    PROVE  Queued("accepted") \in Nat /\ Queued("accept_failed") \in Nat
  BY CountType DEF Queued

LEMMA TaskType ==
    ASSUME NEW name \in TaskNames, NEW s \in 0 .. MaxSessions, NEW n \in Nat
    PROVE  Task(name, s, n) \in TaskSet /\ Task(name, s, n).op = name
           /\ Task(name, s, n).session_id = s /\ Task(name, s, n).call = n
  BY DEF Task, TaskSet

LEMMA PostTask ==
    ASSUME server_strand \in Seq(TaskSet), NEW name \in TaskNames,
           NEW s \in 0 .. MaxSessions, NEW n \in Nat,
           server_strand' = Append(server_strand, Task(name, s, n))
    PROVE  /\ server_strand' \in Seq(TaskSet)
           /\ Queued("accepted")' = Queued("accepted")
                                    + (IF name = "accepted" THEN 1 ELSE 0)
           /\ Queued("accept_failed")' = Queued("accept_failed")
                                         + (IF name = "accept_failed" THEN 1 ELSE 0)
           /\ ShutdownPosted /\ (shutting_down => shutting_down')
                /\ (name = "shutdown" => shutting_down') => ShutdownPosted'
<1> DEFINE t == Task(name, s, n)
<1>1. t \in TaskSet /\ t.op = name  BY TaskType
<1> HIDE DEF t
<1>2. server_strand' = Append(server_strand, t)  BY DEF t
<1>3. server_strand' \in Seq(TaskSet)  BY <1>1, <1>2
<1>4. \A o : Count(server_strand', o) =
               IF t.op = o THEN Count(server_strand, o) + 1 ELSE Count(server_strand, o)
  BY <1>1, <1>2, CountAppend
<1>5. \A i \in DOMAIN server_strand' :
        server_strand'[i] = t \/ (i \in DOMAIN server_strand /\ server_strand'[i] = server_strand[i])
  BY <1>1, <1>2
<1>6. ShutdownPosted /\ (shutting_down => shutting_down')
        /\ (name = "shutdown" => shutting_down') => ShutdownPosted'
  BY <1>1, <1>5 DEF ShutdownPosted
<1> QED  BY <1>1, <1>3, <1>4, <1>6, CountNat DEF Queued

LEMMA RunTask ==
    ASSUME server_strand \in Seq(TaskSet), NEW name \in TaskNames, Run(name)
    PROVE  /\ server_strand' \in Seq(TaskSet)
           /\ server_strand # <<>> /\ server_strand' = Tail(server_strand)
           /\ server_strand[1] \in TaskSet /\ 1 \in DOMAIN server_strand
           /\ Head(server_strand) = server_strand[1] /\ server_strand[1].op = name
           /\ \A i \in DOMAIN server_strand' : /\ i + 1 \in DOMAIN server_strand
                                               /\ server_strand'[i] = server_strand[i + 1]
           /\ \A i \in DOMAIN server_strand : i # 1 =>
                /\ i - 1 \in DOMAIN server_strand'
                /\ server_strand'[i - 1] = server_strand[i]
           /\ Queued("accepted")' = Queued("accepted")
                                    - (IF name = "accepted" THEN 1 ELSE 0)
           /\ Queued("accept_failed")' = Queued("accept_failed")
                                         - (IF name = "accept_failed" THEN 1 ELSE 0)
           /\ name = "accepted" => Queued("accepted") # 0
           /\ name = "accept_failed" => Queued("accept_failed") # 0
           /\ accepting = "idle" /\ ~stopped
           /\ ShutdownPosted /\ name = "shutdown" => shutting_down
           /\ ShutdownPosted /\ (shutting_down => shutting_down') => ShutdownPosted'
<1>1. server_strand # <<>> /\ server_strand' = Tail(server_strand)
      /\ Head(server_strand).op = name /\ accepting = "idle" /\ ~stopped
  BY DEF Run, StrandFree
<1>2. server_strand' \in Seq(TaskSet) /\ server_strand[1] \in TaskSet
      /\ 1 \in DOMAIN server_strand /\ Head(server_strand) = server_strand[1]
  BY <1>1
<1>3. /\ \A i \in DOMAIN server_strand' : /\ i + 1 \in DOMAIN server_strand
                                          /\ server_strand'[i] = server_strand[i + 1]
      /\ \A i \in DOMAIN server_strand : i # 1 =>
                /\ i - 1 \in DOMAIN server_strand'
                /\ server_strand'[i - 1] = server_strand[i]
  BY <1>1
<1>4. \A o : Count(server_strand', o) =
               IF name = o THEN Count(server_strand, o) - 1 ELSE Count(server_strand, o)
  BY <1>1, CountTail
<1>5. Count(server_strand, name) # 0  BY <1>1, <1>2, CountZero
<1>6. /\ Queued("accepted")' = Queued("accepted")
                               - (IF name = "accepted" THEN 1 ELSE 0)
      /\ Queued("accept_failed")' = Queued("accept_failed")
                                    - (IF name = "accept_failed" THEN 1 ELSE 0)
  BY <1>4, CountNat DEF Queued
<1>7. /\ name = "accepted" => Queued("accepted") # 0
      /\ name = "accept_failed" => Queued("accept_failed") # 0
  BY <1>5 DEF Queued
<1>8. /\ ShutdownPosted /\ name = "shutdown" => shutting_down
      /\ ShutdownPosted /\ (shutting_down => shutting_down') => ShutdownPosted'
  BY <1>1, <1>2, <1>3 DEF ShutdownPosted
<1> QED  BY <1>1, <1>2, <1>3, <1>6, <1>7, <1>8

LEMMA PushType ==
    ASSUME TypeOK, NEW p \in Packets, Push(p)
    PROVE  packet_queue' \in Seq(Packets) /\ dropped_packets' \in BOOLEAN
<1>1. packet_queue \in Seq(Packets) /\ dropped_packets \in BOOLEAN  BY DEF TypeOK
<1>2. CASE Full  BY <1>1, <1>2 DEF Push
<1>3. CASE ~Full  BY <1>1, <1>3 DEF Push
<1> QED  BY <1>2, <1>3

-----------------------------------------------------------------------------
(* Types, the accept loop and the destructor.                              *)

Base == TypeOK /\ Numbering /\ AcceptLoopAlive /\ Ending /\ ShutdownPosted

LEMMA InitBase == Init => Base
<1> SUFFICES ASSUME Init PROVE Base  OBVIOUS
<1>1. \A o : Queued(o) = 0  BY CountEmpty DEF Init, Queued
<1>2. server_strand \in Seq(TaskSet) /\ packet_queue \in Seq(Packets)  BY DEF Init
<1>3. handed \in [Ids -> Seq(Nat)] /\ called \in [Ids -> SUBSET Nat]
      /\ polled \in [Ids -> SUBSET {"Connect", "Disconnect"}]
  BY DEF Init
<1>4. TypeOK
  <2>1. next_id \in 1 .. MaxSessions + 1 /\ accepts \in Nat /\ calls \in Nat
    BY Constants DEF Init
  <2>2. dropped_packets \in BOOLEAN /\ shutting_down \in BOOLEAN /\ stopped \in BOOLEAN
    BY DEF Init
  <2>3. link \in [Ids -> {"new", "open", "closed", "gone"}]
        /\ callback \in [Ids -> {"idle", "data", "disconnect", "erase"}]
    BY DEF Init
  <2> QED  BY <1>2, <1>3, <2>1, <2>2, <2>3 DEF Init, TypeOK
<1>5. Numbering  BY <1>1 DEF Init, Numbering, Handling
<1>6. AcceptLoopAlive  BY <1>1 DEF Init, AcceptLoopAlive
<1>7. Ending /\ ShutdownPosted  BY DEF Init, Ending, ShutdownPosted
<1> QED  BY <1>4, <1>5, <1>6, <1>7 DEF Base

\* A step that leaves the accept loop and the links alone.
LEMMA QuietBase ==
    ASSUME Base, TypeOK', Ending', ShutdownPosted', UNCHANGED <<acceptVars, link>>,
           shutting_down => shutting_down',
           Queued("accepted")' = Queued("accepted"),
           Queued("accept_failed")' = Queued("accept_failed")
    PROVE  Base'
<1>1. Numbering'
  BY DEF Base, Numbering, Handling, Current, acceptVars, TypeOK
<1>2. AcceptLoopAlive'  BY DEF Base, AcceptLoopAlive, acceptVars, TypeOK
<1> QED  BY <1>1, <1>2 DEF Base

LEMMA AcceptBase ==
    ASSUME Base, \/ \E r \in {"accepted", "accept_failed"} : AcceptCompletes(r)
                 \/ AcceptFails \/ Accepted \/ AcceptCheck \/ AcceptPush
                 \/ AcceptEnter \/ AcceptStart \/ do_accept
    PROVE  Base'
<1> USE Constants DEF acceptVars, sessionVars, queueVars, stopVars, ownerVars, otherVars
<1>0. TypeOK /\ Numbering /\ AcceptLoopAlive /\ Ending /\ ShutdownPosted  BY DEF Base
<1>1. server_strand \in Seq(TaskSet) /\ accepts \in Nat /\ next_id \in 1 .. MaxSessions + 1
      /\ Queued("accepted") \in Nat /\ Queued("accept_failed") \in Nat
  BY <1>0, CountNat DEF TypeOK
<1>2. ASSUME NEW r \in Accepts, AcceptCompletes(r) PROVE Base'
  <2>1. /\ accepts > 0 /\ accepts' = accepts - 1
        /\ r = "accepted" => next_id <= MaxSessions
        /\ server_strand' = Append(server_strand, Task(r, 0, 0))
        /\ UNCHANGED <<accepting, next_id, sessionVars, otherVars>>
    BY <1>2 DEF AcceptCompletes, NoId
  <2>2. r \in TaskNames /\ 0 \in 0 .. MaxSessions  BY DEF TaskNames, Accepts
  <2>3. /\ server_strand' \in Seq(TaskSet)
        /\ Queued("accepted")' = Queued("accepted") + (IF r = "accepted" THEN 1 ELSE 0)
        /\ Queued("accept_failed")' = Queued("accept_failed")
                                      + (IF r = "accept_failed" THEN 1 ELSE 0)
        /\ ShutdownPosted'
    BY <1>0, <1>1, <2>1, <2>2, PostTask DEF Accepts
  <2>4. TypeOK'  BY <1>0, <2>1, <2>3 DEF TypeOK
  <2>5. Numbering'
    BY <1>0, <1>1, <2>1, <2>3 DEF Numbering, Handling, Current
  <2>6. AcceptLoopAlive'
    BY <1>0, <1>1, <2>1, <2>3 DEF AcceptLoopAlive, Accepts
  <2>7. Ending'  BY <1>0, <2>1 DEF Ending
  <2> QED  BY <2>3, <2>4, <2>5, <2>6, <2>7 DEF Base
<1>3. CASE AcceptFails
  <2>1. Run("accept_failed") /\ accepting' = "again"
        /\ UNCHANGED <<accepts, next_id, sessionVars, otherVars>>
    BY <1>3 DEF AcceptFails
  <2>2. /\ server_strand' \in Seq(TaskSet) /\ accepting = "idle" /\ ~stopped
        /\ Queued("accepted")' = Queued("accepted")
        /\ Queued("accept_failed")' = Queued("accept_failed") - 1
        /\ Queued("accept_failed") # 0 /\ ShutdownPosted'
    BY <1>0, <1>1, <2>1, RunTask DEF TaskNames
  <2>3. TypeOK'  BY <1>0, <2>1, <2>2 DEF TypeOK
  <2>4. Numbering'  BY <1>0, <1>1, <2>1, <2>2 DEF Numbering, Handling
  <2>5. AcceptLoopAlive'  BY <1>0, <1>1, <2>1, <2>2 DEF AcceptLoopAlive
  <2>6. Ending'  BY <1>0, <2>1, <2>2 DEF Ending
  <2> QED  BY <2>2, <2>3, <2>4, <2>5, <2>6 DEF Base
<1>4. CASE Accepted
  <2>1. /\ Run("accepted")
        /\ IF shutting_down
           THEN accepting' = "again" /\ next_id' = next_id
           ELSE accepting' = "check" /\ next_id' = next_id + 1
        /\ UNCHANGED <<accepts, sessionVars, otherVars>>
    BY <1>4 DEF Accepted
  <2>2. /\ server_strand' \in Seq(TaskSet) /\ accepting = "idle" /\ ~stopped
        /\ Queued("accepted")' = Queued("accepted") - 1 /\ Queued("accepted") # 0
        /\ Queued("accept_failed")' = Queued("accept_failed") /\ ShutdownPosted'
    BY <1>0, <1>1, <2>1, RunTask DEF TaskNames
  <2>3. ~shutting_down => next_id <= MaxSessions /\ accepts = 0 /\ Queued("accepted")' = 0
                          /\ Queued("accept_failed") = 0
    BY <1>0, <1>1, <2>2 DEF Numbering, AcceptLoopAlive
  <2>4. TypeOK'  BY <1>0, <1>1, <2>1, <2>2, <2>3 DEF TypeOK
  <2>5. Numbering'
    <3>1. CASE shutting_down
      BY <1>0, <1>1, <2>1, <2>2, <3>1 DEF Numbering, Handling
    <3>2. CASE ~shutting_down
      BY <1>0, <1>1, <2>1, <2>2, <2>3, <3>2 DEF Numbering, Handling, Current, Ids
    <3> QED  BY <3>1, <3>2
  <2>6. AcceptLoopAlive'  BY <1>0, <1>1, <2>1, <2>2, <2>3 DEF AcceptLoopAlive
  <2>7. Ending'  BY <1>0, <2>1, <2>2 DEF Ending
  <2> QED  BY <2>2, <2>4, <2>5, <2>6, <2>7 DEF Base
<1>5. CASE AcceptCheck \/ AcceptPush \/ AcceptEnter
  <2>1. /\ accepting \in {"check", "push", "enter"}
        /\ accepting' \in {"again", "push", "enter", "start"}
        /\ UNCHANGED <<server_strand, accepts, next_id, link, callback, close_posted,
                       stopVars, ownerVars, handed>>
        /\ sessions' = sessions \/ sessions' = sessions \cup {Current}
        /\ packet_queue' = packet_queue \/ owner # "destroyed"
    <3>1. CASE AcceptCheck  BY <3>1 DEF AcceptCheck
    <3>2. CASE AcceptPush  BY <1>0, <3>2 DEF AcceptPush, Ending
    <3>3. CASE AcceptEnter  BY <3>3 DEF AcceptEnter, Current
    <3> QED  BY <1>5, <3>1, <3>2, <3>3
  <2>2. Current \in Ids  BY <1>0, <2>1 DEF Numbering, Handling
  <2>3. packet_queue' \in Seq(Packets) /\ dropped_packets' \in BOOLEAN
    <3>1. CASE AcceptPush
      <4>1. Packet("Connect", Current) \in Packets  BY <2>2 DEF Packet, Packets
      <4> QED  BY <1>0, <3>1, <4>1, PushType DEF AcceptPush, Current
    <3>2. CASE AcceptCheck \/ AcceptEnter
      BY <1>0, <3>2 DEF AcceptCheck, AcceptEnter, TypeOK
    <3> QED  BY <1>5, <3>1, <3>2
  <2>4. TypeOK'  BY <1>0, <2>1, <2>2, <2>3 DEF TypeOK
  <2>5. \A o : Queued(o)' = Queued(o)  BY <2>1 DEF Queued
  <2>6. Numbering'
    BY <1>0, <2>1, <2>2, <2>5 DEF Numbering, Handling, Current
  <2>7. AcceptLoopAlive'  BY <1>0, <2>1, <2>5 DEF AcceptLoopAlive
  <2>8. Ending' /\ ShutdownPosted'  BY <1>0, <2>1 DEF Ending, ShutdownPosted
  <2> QED  BY <2>4, <2>6, <2>7, <2>8 DEF Base
<1>6. CASE AcceptStart
  <2>1. /\ accepting = "start" /\ accepting' = "again"
        /\ link' = [link EXCEPT ![Current] = "open"]
        /\ UNCHANGED <<server_strand, accepts, next_id, sessions, callback,
                       close_posted, otherVars>>
    BY <1>6 DEF AcceptStart, Current
  <2>2. Current \in Ids /\ Current < next_id
    BY <1>0, <1>1, <2>1 DEF Numbering, Handling, Current
  <2>3. TypeOK'
    <3>1. link' \in [Ids -> {"new", "open", "closed", "gone"}]
      BY <1>0, <2>1, <2>2 DEF TypeOK
    <3> QED  BY <1>0, <2>1, <3>1 DEF TypeOK
  <2>4. \A o : Queued(o)' = Queued(o)  BY <2>1 DEF Queued
  <2>5. Numbering'
    <3>1. \A s \in Ids : s >= next_id => link'[s] = link[s]
      BY <1>0, <1>1, <2>1, <2>2, IdsType DEF TypeOK
    <3> QED  BY <1>0, <2>1, <2>4, <3>1 DEF Numbering, Handling
  <2>6. AcceptLoopAlive'  BY <1>0, <2>1, <2>4 DEF AcceptLoopAlive
  <2>7. Ending' /\ ShutdownPosted'  BY <1>0, <2>1 DEF Ending, ShutdownPosted
  <2> QED  BY <2>3, <2>5, <2>6, <2>7 DEF Base
<1>7. CASE do_accept
  <2>1. /\ accepting = "again" /\ accepting' = "idle"
        /\ accepts' = IF shutting_down THEN accepts ELSE accepts + 1
        /\ UNCHANGED <<server_strand, next_id, sessionVars, otherVars>>
    BY <1>7 DEF do_accept
  <2>2. TypeOK'  BY <1>0, <1>1, <2>1 DEF TypeOK
  <2>3. \A o : Queued(o)' = Queued(o)  BY <2>1 DEF Queued
  <2>4. Numbering'  BY <1>0, <2>1, <2>3 DEF Numbering, Handling
  <2>5. AcceptLoopAlive'  BY <1>0, <1>1, <2>1, <2>3 DEF AcceptLoopAlive
  <2>6. Ending' /\ ShutdownPosted'  BY <1>0, <2>1 DEF Ending, ShutdownPosted
  <2> QED  BY <2>2, <2>4, <2>5, <2>6 DEF Base
<1> QED  BY <1>2, <1>3, <1>4, <1>5, <1>6, <1>7 DEF Accepts

\* The tasks posted to the strand, and the owner.
LEMMA TaskBase ==
    ASSUME Base, \/ EraseTask \/ SendTask \/ BroadcastTask \/ DisconnectTask
                 \/ ShutdownTask
    PROVE  Base'
<1> USE Constants DEF acceptVars, sessionVars, queueVars, stopVars, ownerVars, otherVars
<1>0. TypeOK /\ Ending /\ ShutdownPosted /\ server_strand \in Seq(TaskSet)
  BY DEF Base, TypeOK
<1>1. PICK name \in TaskNames \ Accepts : Run(name)
  BY DEF EraseTask, SendTask, BroadcastTask, DisconnectTask, ShutdownTask, TaskNames,
         CallNames, Accepts
<1>2. /\ server_strand' \in Seq(TaskSet) /\ accepting = "idle" /\ ~stopped
      /\ server_strand[1] \in TaskSet /\ Head(server_strand) = server_strand[1]
      /\ Queued("accepted")' = Queued("accepted")
      /\ Queued("accept_failed")' = Queued("accept_failed")
      /\ (shutting_down => shutting_down') => ShutdownPosted'
  <2>1. name \in TaskNames /\ name # "accepted" /\ name # "accept_failed"
    BY <1>1 DEF Accepts
  <2>2. Queued("accepted") \in Nat /\ Queued("accept_failed") \in Nat  BY <1>0, CountNat
  <2> QED  BY <1>0, <1>1, <2>1, <2>2, RunTask
<1>3. /\ UNCHANGED <<acceptVars, link, callback, queueVars, stopVars, calls, polled,
                     called, disconnected>>
      /\ owner' = owner \/ (owner' = "closed" /\ ShutdownTask)
  <2>1. CASE EraseTask  BY <2>1 DEF EraseTask
  <2>2. CASE SendTask  BY <2>2 DEF SendTask
  <2>3. CASE BroadcastTask  BY <2>3 DEF BroadcastTask
  <2>4. CASE DisconnectTask  BY <2>4 DEF DisconnectTask
  <2>5. CASE ShutdownTask  BY <2>5 DEF ShutdownTask
  <2> QED  BY <2>1, <2>2, <2>3, <2>4, <2>5
<1>4. sessions' \subseteq sessions /\ close_posted' \subseteq close_posted \cup sessions
  BY DEF EraseTask, SendTask, BroadcastTask, DisconnectTask, ShutdownTask
<1>5. handed' \in [Ids -> Seq(Nat)]
  <2>1. handed \in [Ids -> Seq(Nat)] /\ server_strand[1].call \in Nat
    BY <1>0, <1>2 DEF TypeOK, TaskSet
  <2>2. \A R : HandOver(R, server_strand[1].call) => handed' \in [Ids -> Seq(Nat)]
    BY <2>1 DEF HandOver
  <2> QED
    BY <1>2, <2>1, <2>2
    DEF EraseTask, SendTask, BroadcastTask, DisconnectTask, ShutdownTask
<1>6. shutting_down \/ owner' = owner
  <2>1. ASSUME ShutdownTask PROVE shutting_down
    <3>1. Run("shutdown")  BY <2>1 DEF ShutdownTask
    <3> QED  BY <1>0, <3>1, RunTask DEF TaskNames
  <2> QED  BY <1>3, <2>1
<1>7. TypeOK'
  <2>1. owner' \in {"running", "posting", "waiting", "closed", "joining", "destroyed"}
    BY <1>0, <1>3 DEF TypeOK
  <2> QED  BY <1>0, <1>2, <1>3, <1>4, <1>5, <2>1 DEF TypeOK
<1>8. Ending'  BY <1>0, <1>2, <1>3, <1>6 DEF Ending
<1> QED  BY <1>2, <1>3, <1>7, <1>8, QuietBase

\* The callbacks of the sessions.
LEMMA CallbackBase ==
    ASSUME Base, NEW s \in Ids,
           \/ OnReceive(s) \/ OnClose(s) \/ CloseAgain(s)
           \/ PushData(s) \/ PushDisconnect(s) \/ PostErase(s)
    PROVE  Base'
<1> USE Constants DEF acceptVars, sessionVars, queueVars, stopVars, ownerVars, otherVars
<1>0. TypeOK /\ Numbering /\ AcceptLoopAlive /\ Ending /\ ShutdownPosted
      /\ server_strand \in Seq(TaskSet)
      /\ Queued("accepted") \in Nat /\ Queued("accept_failed") \in Nat
  BY CountNat DEF Base, TypeOK
<1>1. /\ UNCHANGED <<acceptVars, sessions, stopVars, ownerVars, handed>>
      /\ close_posted' \subseteq close_posted
      /\ owner # "destroyed"
      /\ \E c \in {"idle", "data", "disconnect", "erase"} :
            callback' = [callback EXCEPT ![s] = c]
      /\ link' = link \/ (link[s] # "new" /\ link' = [link EXCEPT ![s] = "closed"])
           \/ (link[s] # "new" /\ link' = [link EXCEPT ![s] = "gone"])
  <2> USE <1>0 DEF Ending, SessionReady, Goto
  <2>1. CASE OnReceive(s)  BY <2>1 DEF OnReceive
  <2>2. CASE OnClose(s)  BY <2>2 DEF OnClose
  <2>3. CASE CloseAgain(s)
    <3>1. callback' = [callback EXCEPT ![s] = "idle"]
      BY <2>3 DEF CloseAgain, TypeOK
    <3> QED  BY <2>3, <3>1 DEF CloseAgain
  <2>4. CASE PushData(s)  BY <2>4 DEF PushData
  <2>5. CASE PushDisconnect(s)  BY <2>5 DEF PushDisconnect
  <2>6. CASE PostErase(s)  BY <2>6 DEF PostErase
  <2> QED  BY <2>1, <2>2, <2>3, <2>4, <2>5, <2>6
<1>2. packet_queue' \in Seq(Packets) /\ dropped_packets' \in BOOLEAN
  <2>1. CASE PushData(s) \/ PushDisconnect(s)
    <3>1. Packet("Data", s) \in Packets /\ Packet("Disconnect", s) \in Packets
      BY DEF Packet, Packets
    <3> QED  BY <1>0, <2>1, <3>1, PushType DEF PushData, PushDisconnect
  <2>2. CASE UNCHANGED <<packet_queue, dropped_packets>>
    BY <1>0, <2>2 DEF TypeOK
  <2> QED  BY <2>1, <2>2 DEF OnReceive, OnClose, CloseAgain, PostErase
<1>3. /\ server_strand' \in Seq(TaskSet) /\ ShutdownPosted'
      /\ Queued("accepted")' = Queued("accepted")
      /\ Queued("accept_failed")' = Queued("accept_failed")
  <2>1. CASE PostErase(s)
    <3>1. "erase" \in TaskNames /\ s \in 0 .. MaxSessions  BY IdsType DEF TaskNames
    <3> QED  BY <1>0, <1>1, <2>1, <3>1, PostTask DEF PostErase
  <2>2. CASE server_strand' = server_strand
    BY <1>0, <1>1, <2>2 DEF Queued, ShutdownPosted
  <2> QED  BY <2>1, <2>2 DEF OnReceive, OnClose, CloseAgain, PushData, PushDisconnect
<1>4. link' \in [Ids -> {"new", "open", "closed", "gone"}]
      /\ callback' \in [Ids -> {"idle", "data", "disconnect", "erase"}]
  <2>1. PICK c \in {"idle", "data", "disconnect", "erase"} :
          callback' = [callback EXCEPT ![s] = c]
    BY <1>1
  <2>2. callback' \in [Ids -> {"idle", "data", "disconnect", "erase"}]
    BY <1>0, <2>1 DEF TypeOK
  <2>3. link' \in [Ids -> {"new", "open", "closed", "gone"}]  BY <1>0, <1>1 DEF TypeOK
  <2> QED  BY <2>2, <2>3
<1>5. TypeOK'  BY <1>0, <1>1, <1>2, <1>3, <1>4 DEF TypeOK
<1>6. Numbering'
  <2>1. \A r \in Ids : link[r] = "new" => link'[r] = "new"
    BY <1>0, <1>1 DEF TypeOK
  <2> QED  BY <1>0, <1>1, <1>3, <2>1 DEF Numbering, Handling, Current
<1>7. AcceptLoopAlive'  BY <1>0, <1>1, <1>3 DEF AcceptLoopAlive
<1>8. Ending'  BY <1>0, <1>1 DEF Ending
<1> QED  BY <1>3, <1>5, <1>6, <1>7, <1>8 DEF Base

LEMMA OwnerBase ==
    ASSUME Base, \/ \E s \in Ids : send(s) \/ disconnect(s)
                 \/ broadcast \/ poll_packet \/ BeginShutdown
                 \/ PostShutdown \/ Stop \/ JoinAndDrain
    PROVE  Base'
<1> USE Constants DEF acceptVars, sessionVars, queueVars, stopVars, ownerVars, otherVars
<1>0. TypeOK /\ Numbering /\ AcceptLoopAlive /\ Ending /\ ShutdownPosted
      /\ server_strand \in Seq(TaskSet) /\ calls \in Nat
      /\ Queued("accepted") \in Nat /\ Queued("accept_failed") \in Nat
  BY CountNat DEF Base, TypeOK
<1>1. ASSUME NEW name \in CallNames, NEW s \in 0 .. MaxSessions, Call(name, s),
             called' \in [Ids -> SUBSET Nat], disconnected' \subseteq Ids
      PROVE  Base'
  <2>1. /\ owner = "running" /\ calls' = calls + 1
        /\ server_strand' = Append(server_strand, Task(name, s, calls + 1))
        /\ UNCHANGED <<acceptVars, sessionVars, queueVars, stopVars, owner, polled, handed>>
    BY <1>1 DEF Call
  <2>2. name \in TaskNames /\ name \notin {"accepted", "accept_failed", "shutdown"}
        /\ calls + 1 \in Nat
    BY <1>0 DEF TaskNames, CallNames
  <2>3. /\ server_strand' \in Seq(TaskSet) /\ ShutdownPosted'
        /\ Queued("accepted")' = Queued("accepted")
        /\ Queued("accept_failed")' = Queued("accept_failed")
    BY <1>0, <2>1, <2>2, PostTask
  <2>4. TypeOK'  BY <1>0, <1>1, <2>1, <2>2, <2>3 DEF TypeOK
  <2>5. Ending'  BY <1>0, <2>1 DEF Ending
  <2> QED  BY <2>1, <2>3, <2>4, <2>5, QuietBase
<1>2. ASSUME NEW s \in Ids, send(s) PROVE Base'
  <2>1. Call("send", s) /\ disconnected' = disconnected  BY <1>2 DEF send
  <2>2. called' \in [Ids -> SUBSET Nat]
    <3>1. calls + 1 \in Nat  BY <1>0
    <3> QED  BY <1>0, <1>2, <3>1 DEF send, TypeOK
  <2> QED  BY <1>0, <1>1, <2>1, <2>2, IdsType DEF CallNames, TypeOK
<1>3. ASSUME NEW s \in Ids, disconnect(s) PROVE Base'
  <2>1. Call("disconnect", s) /\ called' = called /\ disconnected' \subseteq Ids
    BY <1>0, <1>3 DEF disconnect, TypeOK
  <2> QED  BY <1>0, <1>1, <2>1, IdsType DEF CallNames, TypeOK
<1>4. CASE broadcast
  <2>1. Call("broadcast", 0) /\ UNCHANGED <<called, disconnected>> /\ 0 \in 0 .. MaxSessions
    BY <1>4 DEF broadcast, NoId
  <2> QED  BY <1>0, <1>1, <2>1 DEF CallNames, TypeOK
<1>5. ASSUME UNCHANGED <<server_strand, acceptVars, sessionVars>>, TypeOK', Ending',
             shutting_down => shutting_down'
      PROVE  Base'
  <2>1. \A o : Queued(o)' = Queued(o)  BY <1>5 DEF Queued
  <2>2. ShutdownPosted'  BY <1>0, <1>5 DEF ShutdownPosted
  <2> QED  BY <1>5, <2>1, <2>2, QuietBase
<1>6. CASE poll_packet
  <2> DEFINE p == Head(packet_queue)
  <2>1. /\ owner = "running" /\ packet_queue # <<>> /\ packet_queue' = Tail(packet_queue)
        /\ polled' = [polled EXCEPT ![p.session_id] = @ \cup ({p.type} \ {"Data"})]
        /\ UNCHANGED <<server_strand, acceptVars, sessionVars, dropped_packets,
                       stopVars, owner, calls, called, disconnected, handed>>
    BY <1>6 DEF poll_packet
  <2>2. packet_queue' \in Seq(Packets) /\ p \in Packets
    BY <1>0, <2>1 DEF TypeOK
  <2>3. p.type \in {"Connect", "Data", "Disconnect"} /\ p.session_id \in Ids
    BY <2>2 DEF Packets
  <2> HIDE DEF p
  <2>4. polled' \in [Ids -> SUBSET {"Connect", "Disconnect"}]
    BY <1>0, <2>1, <2>3 DEF TypeOK
  <2>5. TypeOK'  BY <1>0, <2>1, <2>2, <2>4 DEF TypeOK
  <2>6. Ending'  BY <1>0, <2>1 DEF Ending
  <2> QED  BY <1>5, <2>1, <2>5, <2>6
<1>7. CASE BeginShutdown
  <2>1. TypeOK'  BY <1>0, <1>7 DEF BeginShutdown, TypeOK
  <2>2. Ending'  BY <1>0, <1>7 DEF BeginShutdown, Ending
  <2> QED  BY <1>5, <1>7, <2>1, <2>2 DEF BeginShutdown
<1>8. CASE PostShutdown
  <2>1. /\ owner = "posting" /\ owner' = "waiting" /\ shutting_down
        /\ server_strand' = Append(server_strand, Task("shutdown", 0, 0))
        /\ UNCHANGED <<acceptVars, sessionVars, queueVars, stopVars, calls,
                       polled, called, disconnected, handed>>
    BY <1>0, <1>8 DEF PostShutdown, NoId, Ending
  <2>2. "shutdown" \in TaskNames /\ 0 \in 0 .. MaxSessions  BY DEF TaskNames
  <2>3. /\ server_strand' \in Seq(TaskSet) /\ ShutdownPosted'
        /\ Queued("accepted")' = Queued("accepted")
        /\ Queued("accept_failed")' = Queued("accept_failed")
    BY <1>0, <2>1, <2>2, PostTask
  <2>4. TypeOK'  BY <1>0, <2>1, <2>3 DEF TypeOK
  <2>5. Ending'  BY <1>0, <2>1 DEF Ending
  <2> QED  BY <2>1, <2>3, <2>4, <2>5, QuietBase
<1>9. CASE Stop
  <2>1. TypeOK'  BY <1>0, <1>9 DEF Stop, TypeOK
  <2>2. Ending'  BY <1>0, <1>9 DEF Stop, Ending
  <2> QED  BY <1>5, <1>9, <2>1, <2>2 DEF Stop
<1>10. CASE JoinAndDrain
  <2>1. packet_queue' \in Seq(Packets)  BY <1>10 DEF JoinAndDrain
  <2>2. TypeOK'  BY <1>0, <1>10, <2>1 DEF JoinAndDrain, TypeOK
  <2>3. Ending'  BY <1>0, <1>10 DEF JoinAndDrain, Ending
  <2> QED  BY <1>5, <1>10, <2>2, <2>3 DEF JoinAndDrain
<1> QED  BY <1>2, <1>3, <1>4, <1>6, <1>7, <1>8, <1>9, <1>10

LEMMA StepBase == Base /\ [Next]_vars => Base'
<1> SUFFICES ASSUME Base, [Next]_vars PROVE Base'  OBVIOUS
<1>1. CASE UNCHANGED vars
  BY <1>1 DEF vars, acceptVars, sessionVars, queueVars, stopVars, ownerVars, otherVars,
              Base, TypeOK, Numbering, AcceptLoopAlive, Ending, ShutdownPosted, Queued,
              Handling, Current
<1>2. CASE Next
  BY <1>2, AcceptBase, TaskBase, CallbackBase, OwnerBase
  DEF Next, ServerStrand, AcceptHandler, Callback, Shutdown
<1> QED  BY <1>1, <1>2

\* The accept loop survives failed accepts and refused sessions, and never
\* forks, for any number of connections.
THEOREM AcceptLoopStaysAlive == Spec => []AcceptLoopAlive
<1>1. Base => AcceptLoopAlive  BY DEF Base
<1> QED  BY <1>1, InitBase, StepBase, PTL DEF Spec

-----------------------------------------------------------------------------
(* Connect first.                                                          *)

First == Announced /\ ConnectFirst

\* A packet is pushed: Connect for a session not yet introduced, or another
\* packet for one that is.
LEMMA PushFirst ==
    ASSUME TypeOK, ConnectFirst, NEW p \in Packets, polled' = polled,
           packet_queue' = Append(packet_queue, p),
           p.type = "Connect" <=> ~Introduced(p.session_id)
    PROVE  /\ ConnectFirst'
           /\ \A s : Introduced(s)' <=> Introduced(s) \/ s = p.session_id
<1> DEFINE n == Len(packet_queue) + 1
<1>1. packet_queue \in Seq(Packets)  BY DEF TypeOK
<1>2. /\ DOMAIN packet_queue = 1 .. Len(packet_queue) /\ Len(packet_queue) \in Nat
      /\ DOMAIN packet_queue' = (1 .. Len(packet_queue)) \cup {n}
      /\ packet_queue'[n] = p
      /\ \A i \in 1 .. Len(packet_queue) : packet_queue'[i] = packet_queue[i]
  BY <1>1
<1>3. ConnectFirst'
  <2> SUFFICES ASSUME NEW i \in DOMAIN packet_queue'
               PROVE  LET s == packet_queue'[i].session_id
                      IN  packet_queue'[i].type = "Connect" <=>
                            /\ "Connect" \notin polled[s]
                            /\ \A j \in 1 .. i - 1 : packet_queue'[j].session_id # s
    BY DEF ConnectFirst
  <2>1. CASE i = n
    <3>1. 1 .. i - 1 = DOMAIN packet_queue  BY <1>2, <2>1
    <3> QED  BY <1>2, <2>1, <3>1 DEF Introduced
  <2>2. CASE i # n
    <3>1. i \in 1 .. Len(packet_queue) /\ 1 .. i - 1 \subseteq 1 .. Len(packet_queue)
      BY <1>2, <2>2
    <3> QED  BY <1>2, <3>1 DEF ConnectFirst
  <2> QED  BY <2>1, <2>2
<1>4. \A s : Introduced(s)' <=> Introduced(s) \/ s = p.session_id
  BY <1>2 DEF Introduced
<1> QED  BY <1>3, <1>4

\* The owner polls: what was the first packet of a session was its Connect.
LEMMA PollFirst ==
    ASSUME TypeOK, ConnectFirst, poll_packet
    PROVE  ConnectFirst' /\ \A s \in Ids : Introduced(s)' <=> Introduced(s)
<1> DEFINE p == packet_queue[1]
<1>1. packet_queue \in Seq(Packets) /\ packet_queue # <<>>
      /\ packet_queue' = Tail(packet_queue)
      /\ polled' = [polled EXCEPT ![Head(packet_queue).session_id] =
                        @ \cup ({Head(packet_queue).type} \ {"Data"})]
  BY DEF TypeOK, poll_packet
<1>2. /\ 1 \in DOMAIN packet_queue /\ Head(packet_queue) = p /\ p \in Packets
      /\ DOMAIN packet_queue = 1 .. Len(packet_queue) /\ Len(packet_queue) \in Nat
      /\ DOMAIN packet_queue' = 1 .. Len(packet_queue) - 1
      /\ \A i \in 1 .. Len(packet_queue) - 1 :
            packet_queue'[i] = packet_queue[i + 1] /\ packet_queue[i + 1] \in Packets
  BY <1>1
<1>3. p.session_id \in Ids  BY <1>2 DEF Packets
<1>4. p.type = "Connect" <=> "Connect" \notin polled[p.session_id]
  <2>1. \A j \in 1 .. 1 - 1 : packet_queue[j].session_id # p.session_id  OBVIOUS
  <2> QED  BY <1>2, <2>1 DEF ConnectFirst
<1> HIDE DEF p
<1>5. polled' = [polled EXCEPT ![p.session_id] = @ \cup ({p.type} \ {"Data"})]
  BY <1>1, <1>2
<1>6. "Connect" \in polled'[p.session_id]
      /\ \A s \in Ids : s # p.session_id => polled'[s] = polled[s]
  BY <1>3, <1>4, <1>5 DEF TypeOK
<1>7. ConnectFirst'
  <2> SUFFICES ASSUME NEW i \in DOMAIN packet_queue'
               PROVE  LET s == packet_queue'[i].session_id
                      IN  packet_queue'[i].type = "Connect" <=>
                            /\ "Connect" \notin polled'[s]
                            /\ \A j \in 1 .. i - 1 : packet_queue'[j].session_id # s
    BY DEF ConnectFirst
  <2> DEFINE s == packet_queue[i + 1].session_id
  <2>1. packet_queue'[i] = packet_queue[i + 1] /\ s \in Ids /\ i \in Nat /\ i > 0
        /\ i + 1 \in DOMAIN packet_queue
    BY <1>2 DEF Packets
  <2>2. packet_queue[i + 1].type = "Connect" <=>
          /\ "Connect" \notin polled[s]
          /\ \A j \in 1 .. (i + 1) - 1 : packet_queue[j].session_id # s
    BY <2>1 DEF ConnectFirst
  <2>3. 1 \in 1 .. (i + 1) - 1  BY <2>1
  <2>4. CASE s = p.session_id
    <3>1. packet_queue[i + 1].type # "Connect"  BY <2>2, <2>3, <2>4 DEF p
    <3> QED  BY <1>6, <2>1, <2>4, <3>1
  <2>5. CASE s # p.session_id
    <3>1. polled'[s] = polled[s]  BY <1>6, <2>1, <2>5
    <3>2. (\A j \in 1 .. (i + 1) - 1 : packet_queue[j].session_id # s) <=>
          \A j \in 1 .. i - 1 : packet_queue'[j].session_id # s
      <4>1. ASSUME \A j \in 1 .. i - 1 : packet_queue'[j].session_id # s,
                   NEW j \in 1 .. (i + 1) - 1
            PROVE  packet_queue[j].session_id # s
        <5>1. CASE j = 1  BY <2>5, <5>1 DEF p
        <5>2. CASE j # 1
          <6>1. j - 1 \in 1 .. i - 1 /\ packet_queue'[j - 1] = packet_queue[j]
            BY <1>2, <2>1, <5>2
          <6> QED  BY <4>1, <6>1
        <5> QED  BY <5>1, <5>2
      <4>2. ASSUME \A j \in 1 .. (i + 1) - 1 : packet_queue[j].session_id # s,
                   NEW j \in 1 .. i - 1
            PROVE  packet_queue'[j].session_id # s
        <5>1. j + 1 \in 1 .. (i + 1) - 1 /\ packet_queue'[j] = packet_queue[j + 1]
          BY <1>2, <2>1
        <5> QED  BY <4>2, <5>1
      <4> QED  BY <4>1, <4>2
    <3> QED  BY <2>1, <2>2, <3>1, <3>2
  <2> QED  BY <2>4, <2>5
<1>8. ASSUME NEW s \in Ids PROVE Introduced(s)' <=> Introduced(s)
  <2>1. CASE s = p.session_id
    BY <1>2, <1>6, <2>1 DEF Introduced, p
  <2>2. CASE s # p.session_id
    <3>1. polled'[s] = polled[s]  BY <1>6, <2>2
    <3>2. ASSUME NEW i \in DOMAIN packet_queue, packet_queue[i].session_id = s
          PROVE  \E j \in DOMAIN packet_queue' : packet_queue'[j].session_id = s
      <4>1. i # 1  BY <2>2, <3>2 DEF p
      <4>2. i - 1 \in DOMAIN packet_queue' /\ packet_queue'[i - 1] = packet_queue[i]
        BY <1>2, <4>1
      <4> QED  BY <3>2, <4>2
    <3>3. ASSUME NEW j \in DOMAIN packet_queue', packet_queue'[j].session_id = s
          PROVE  \E i \in DOMAIN packet_queue : packet_queue[i].session_id = s
      <4>1. j + 1 \in DOMAIN packet_queue /\ packet_queue'[j] = packet_queue[j + 1]
        BY <1>2
      <4> QED  BY <3>3, <4>1
    <3> QED  BY <3>1, <3>2, <3>3 DEF Introduced
  <2> QED  BY <2>1, <2>2
<1> QED  BY <1>7, <1>8

\* A step that pushes and polls nothing, and starts no session.
LEMMA QuietFirst ==
    ASSUME First, UNCHANGED <<packet_queue, polled>>, Pushed' <=> Pushed,
           Pushed' => next_id' = next_id,
           owner = "destroyed" => owner' = "destroyed",
           \A s \in Ids : (link'[s] = "new" <=> link[s] = "new"),
           \A s \in Ids : callback'[s] # "idle" => link[s] # "new"
    PROVE  First'
<1>1. ConnectFirst'  BY DEF First, ConnectFirst
<1>2. \A s : Introduced(s)' <=> Introduced(s)  BY DEF Introduced
<1>3. Announced'  BY <1>2 DEF First, Announced, Current
<1> QED  BY <1>1, <1>3 DEF First

LEMMA AcceptFirst ==
    ASSUME Base, First,
           \/ \E r \in {"accepted", "accept_failed"} : AcceptCompletes(r)
           \/ AcceptFails \/ Accepted \/ AcceptCheck \/ AcceptPush
           \/ AcceptEnter \/ AcceptStart \/ do_accept
    PROVE  First'
<1> USE DEF acceptVars, sessionVars, queueVars, stopVars, ownerVars, otherVars
<1>0. TypeOK /\ Numbering /\ Ending /\ Announced /\ ConnectFirst  BY DEF Base, First
<1>1. \A s \in Ids : callback[s] # "idle" => link[s] # "new"  BY <1>0 DEF Announced
<1>2. ASSUME UNCHANGED <<packet_queue, polled, owner, link, callback>>, ~Pushed, ~Pushed'
      PROVE  First'
  BY <1>1, <1>2, QuietFirst
<1>3. ASSUME NEW r \in {"accepted", "accept_failed"}, AcceptCompletes(r) PROVE First'
  <2>1. UNCHANGED <<packet_queue, polled, owner, link, callback, accepting, next_id>>
    BY <1>3 DEF AcceptCompletes
  <2> QED  BY <1>1, <2>1, QuietFirst DEF Pushed
<1>4. CASE AcceptFails  BY <1>2, <1>4 DEF AcceptFails, Run, StrandFree, Pushed
<1>5. CASE Accepted
  <2>1. accepting' \in {"again", "check"} /\ accepting = "idle"
        /\ UNCHANGED <<packet_queue, polled, owner, link, callback>>
    BY <1>5 DEF Accepted, Run, StrandFree
  <2> QED  BY <1>2, <2>1 DEF Pushed
<1>6. CASE AcceptCheck
  <2>1. accepting' \in {"again", "push"} /\ accepting = "check"
        /\ UNCHANGED <<packet_queue, polled, owner, link, callback>>
    BY <1>6 DEF AcceptCheck
  <2> QED  BY <1>2, <2>1 DEF Pushed
<1>7. CASE AcceptEnter
  <2>1. accepting' = "start" /\ accepting = "enter"
        /\ UNCHANGED <<packet_queue, polled, owner, link, callback, next_id>>
    BY <1>7 DEF AcceptEnter
  <2> QED  BY <1>1, <2>1, QuietFirst DEF Pushed
<1>8. CASE do_accept
  BY <1>2, <1>8 DEF do_accept, Pushed
<1>9. CASE AcceptPush
  <2>1. accepting = "push" /\ Push(Packet("Connect", Current))
        /\ accepting' = (IF Full THEN "again" ELSE "enter")
        /\ UNCHANGED <<polled, owner, link, callback, next_id>>
    BY <1>9 DEF AcceptPush, Current
  <2>2. CASE Full
    <3>1. UNCHANGED packet_queue /\ accepting' = "again"  BY <2>1, <2>2 DEF Push
    <3> QED  BY <1>2, <2>1, <3>1 DEF Pushed
  <2>3. CASE ~Full
    <3> DEFINE p == Packet("Connect", Current)
    <3>1. Current \in Ids /\ link[Current] = "new"  BY <1>0, <2>1 DEF Numbering, Handling
    <3>2. p \in Packets /\ p.type = "Connect" /\ p.session_id = Current
      BY <3>1 DEF Packet, Packets
    <3>3. packet_queue' = Append(packet_queue, p) /\ accepting' = "enter"
      BY <2>1, <2>3 DEF Push
    <3>4. ~Introduced(Current)  BY <1>0, <2>1, <3>1 DEF Announced, Pushed
    <3> HIDE DEF p
    <3>5. ConnectFirst' /\ \A s : Introduced(s)' <=> Introduced(s) \/ s = Current
      BY <1>0, <2>1, <3>2, <3>3, <3>4, PushFirst
    <3>6. Announced'
      <4>1. Pushed' /\ Current' = Current /\ ~Pushed  BY <2>1, <3>3 DEF Pushed, Current
      <4> QED  BY <1>0, <2>1, <3>5, <4>1 DEF Announced
    <3> QED  BY <3>5, <3>6 DEF First
  <2> QED  BY <2>2, <2>3
<1>10. CASE AcceptStart
  <2>1. accepting = "start" /\ accepting' = "again"
        /\ link' = [link EXCEPT ![Current] = "open"]
        /\ UNCHANGED <<packet_queue, polled, owner, callback, next_id>>
    BY <1>10 DEF AcceptStart, Current
  <2>2. Current \in Ids /\ Pushed /\ ~Pushed'
    BY <1>0, <2>1 DEF Numbering, Handling, Pushed
  <2>3. /\ link'[Current] = "open"
        /\ \A s \in Ids : s # Current => link'[s] = link[s]
    BY <1>0, <2>1, <2>2 DEF TypeOK
  <2>4. \A s : Introduced(s)' <=> Introduced(s)  BY <2>1 DEF Introduced
  <2>5. Announced'  BY <1>0, <2>1, <2>2, <2>3, <2>4 DEF Announced
  <2>6. ConnectFirst'  BY <1>0, <2>1 DEF ConnectFirst
  <2> QED  BY <2>5, <2>6 DEF First
<1> QED  BY <1>3, <1>4, <1>5, <1>6, <1>7, <1>8, <1>9, <1>10

LEMMA CallbackFirst ==
    ASSUME Base, First, NEW s \in Ids,
           OnReceive(s) \/ OnClose(s) \/ CloseAgain(s) \/ Callback(s)
    PROVE  First'
<1> USE DEF acceptVars, sessionVars, queueVars, stopVars, ownerVars, otherVars
<1>0. TypeOK /\ Ending /\ Announced /\ ConnectFirst  BY DEF Base, First
<1>1. \/ /\ UNCHANGED <<polled, owner, accepting, next_id>>
         /\ \A r \in Ids : link'[r] = "new" <=> link[r] = "new"
         /\ link[s] # "new" /\ \A r \in Ids : r # s => callback'[r] = callback[r]
      \/ CloseAgain(s) /\ UNCHANGED <<polled, owner, accepting, next_id, link, callback>>
  <2>1. CASE OnReceive(s)
    BY <1>0, <2>1 DEF OnReceive, Goto, TypeOK
  <2>2. CASE OnClose(s)
    BY <1>0, <2>2 DEF OnClose, Goto, TypeOK
  <2>3. CASE CloseAgain(s)  BY <2>3 DEF CloseAgain
  <2>4. CASE Callback(s)
    <3>1. callback[s] # "idle" /\ \A r \in Ids : r # s => callback'[r] = callback[r]
      BY <1>0, <2>4 DEF Callback, PushData, PushDisconnect, PostErase, Goto, TypeOK
    <3>2. UNCHANGED <<polled, owner, accepting, next_id, link>>
      BY <2>4 DEF Callback, PushData, PushDisconnect, PostErase
    <3> QED  BY <1>0, <3>1, <3>2 DEF Announced
  <2> QED  BY <2>1, <2>2, <2>3, <2>4
<1>2. \A r \in Ids : callback'[r] # "idle" => link[r] # "new"
  BY <1>0, <1>1 DEF Announced
<1>3. CASE UNCHANGED packet_queue
  BY <1>1, <1>2, <1>3, QuietFirst DEF Pushed
<1>4. ASSUME NEW type \in {"Data", "Disconnect"}, callback[s] # "idle",
             Push(Packet(type, s)), ~Full, ~CloseAgain(s)
      PROVE  First'
  <2> DEFINE p == Packet(type, s)
  <2>1. p \in Packets /\ p.type # "Connect" /\ p.session_id = s
        /\ packet_queue' = Append(packet_queue, p)
    BY <1>4 DEF Packet, Packets, Push
  <2> HIDE DEF p
  <2>2. Introduced(s)  BY <1>0, <1>1, <1>4 DEF Announced, Ending
  <2>3. ConnectFirst' /\ \A r : Introduced(r)' <=> Introduced(r) \/ r = s
    BY <1>0, <1>1, <1>4, <2>1, <2>2, PushFirst
  <2>4. Announced'
    <3>1. (Pushed' <=> Pushed) /\ Current' = Current  BY <1>1, <1>4 DEF Pushed, Current
    <3> QED  BY <1>0, <1>1, <1>2, <1>4, <2>2, <2>3, <3>1 DEF Announced
  <2> QED  BY <2>3, <2>4 DEF First
<1>5. CASE PushData(s) \/ PushDisconnect(s)
  <2>1. CASE Full  BY <1>3, <1>5, <2>1 DEF PushData, PushDisconnect, Push
  <2>2. CASE ~Full
    <3>1. ~CloseAgain(s)
      BY <1>5 DEF PushData, PushDisconnect, CloseAgain, SessionReady
    <3> QED  BY <1>4, <1>5, <2>2, <3>1 DEF PushData, PushDisconnect
  <2> QED  BY <2>1, <2>2
<1> QED  BY <1>3, <1>5 DEF OnReceive, OnClose, CloseAgain, Callback, PostErase

LEMMA StepFirst == Base /\ First /\ [Next]_vars => First'
<1> SUFFICES ASSUME Base, First, [Next]_vars PROVE First'  OBVIOUS
<1> USE DEF acceptVars, sessionVars, queueVars, stopVars, ownerVars, otherVars
<1>0. TypeOK /\ Ending /\ Announced /\ ConnectFirst  BY DEF Base, First
<1>1. ASSUME UNCHANGED <<packet_queue, polled, accepting, next_id, link, callback>>,
             owner # "destroyed" \/ owner' = owner
      PROVE  First'
  <2>1. \A s \in Ids : callback[s] # "idle" => link[s] # "new"  BY <1>0 DEF Announced
  <2> QED  BY <1>1, <2>1, QuietFirst DEF Pushed
<1>2. CASE EraseTask \/ SendTask \/ BroadcastTask \/ DisconnectTask \/ ShutdownTask
  <2>1. ~stopped /\ owner # "destroyed"
    BY <1>0, <1>2 DEF EraseTask, SendTask, BroadcastTask, DisconnectTask, ShutdownTask,
                      Run, StrandFree, Ending
  <2> QED
    BY <1>1, <1>2, <2>1 DEF EraseTask, SendTask, BroadcastTask, DisconnectTask, ShutdownTask
<1>3. ASSUME NEW s \in Ids, send(s) \/ disconnect(s) PROVE First'
  BY <1>1, <1>3 DEF send, disconnect, Call
<1>4. CASE broadcast  BY <1>1, <1>4 DEF broadcast, Call
<1>5. CASE BeginShutdown \/ PostShutdown \/ Stop
  BY <1>1, <1>5 DEF BeginShutdown, PostShutdown, Stop
<1>6. CASE poll_packet
  <2>1. UNCHANGED <<accepting, next_id, link, callback, owner>>
    BY <1>6 DEF poll_packet
  <2>2. ConnectFirst' /\ \A s \in Ids : Introduced(s)' <=> Introduced(s)
    BY <1>0, <1>6, PollFirst
  <2>3. Announced'  BY <1>0, <2>1, <2>2 DEF Announced, Pushed, Current
  <2> QED  BY <2>2, <2>3 DEF First
<1>7. CASE JoinAndDrain
  <2>1. /\ accepting = "idle" /\ owner' = "destroyed" /\ packet_queue' = <<>>
        /\ UNCHANGED <<polled, accepting, next_id, link, callback>>
    BY <1>7 DEF JoinAndDrain
  <2>2. ConnectFirst'  BY <2>1 DEF ConnectFirst
  <2>3. \A s : Introduced(s)' => Introduced(s)  BY <2>1 DEF Introduced
  <2>4. Announced'  BY <1>0, <2>1, <2>3 DEF Announced, Pushed, Current
  <2> QED  BY <2>2, <2>4 DEF First
<1>8. CASE UNCHANGED vars  BY <1>1, <1>8 DEF vars
<1>9. CASE Next
  BY <1>2, <1>3, <1>4, <1>5, <1>6, <1>7, <1>9, AcceptFirst, CallbackFirst
  DEF Next, ServerStrand, AcceptHandler, Shutdown
<1> QED  BY <1>8, <1>9

LEMMA InitFirst == Init => First
  BY DEF Init, First, Announced, ConnectFirst, Introduced, Pushed

\* Whatever other sessions and the owner do between the push of Connect and the
\* start of the session, the owner polls Connect before any other packet of the session,
\* and only once.
THEOREM ConnectIsFirst == Spec => []ConnectFirst
<1>1. First => ConnectFirst  BY DEF First
<1> QED  BY <1>1, InitBase, StepBase, InitFirst, StepFirst, PTL DEF Spec

-----------------------------------------------------------------------------
(* The table of sessions.                                                  *)

Table == Leaving /\ TableIsExact

\* A step that neither posts nor runs an erase task.
ErasesKept ==
    /\ \A s \in Ids : Posted("erase", s, 0) => Posted("erase", s, 0)'
    /\ \A i \in DOMAIN server_strand' : server_strand'[i].op = "erase" =>
          \E j \in DOMAIN server_strand : server_strand[j] = server_strand'[i]

LEMMA PostPosted ==
    ASSUME server_strand \in Seq(TaskSet), NEW t \in TaskSet,
           server_strand' = Append(server_strand, t)
    PROVE  /\ \A i \in DOMAIN server_strand' :
                server_strand'[i] = t \/ (i \in DOMAIN server_strand
                                          /\ server_strand'[i] = server_strand[i])
           /\ \A i \in DOMAIN server_strand :
                i \in DOMAIN server_strand' /\ server_strand'[i] = server_strand[i]
           /\ \A name, s, n : Posted(name, s, n)' <=> Posted(name, s, n) \/ t = Task(name, s, n)
<1>1. \A i \in DOMAIN server_strand' :
        server_strand'[i] = t \/ (i \in DOMAIN server_strand
                                  /\ server_strand'[i] = server_strand[i])
  OBVIOUS
<1>2. \A i \in DOMAIN server_strand :
        i \in DOMAIN server_strand' /\ server_strand'[i] = server_strand[i]
  OBVIOUS
<1> QED  BY <1>1, <1>2, ContainsAppend DEF Posted

LEMMA RunPosted ==
    ASSUME server_strand \in Seq(TaskSet), NEW name \in TaskNames, Run(name)
    PROVE  /\ \A o, s, n : Posted(o, s, n)' => Posted(o, s, n)
           /\ \A o, s, n : Posted(o, s, n) =>
                Posted(o, s, n)' \/ server_strand[1] = Task(o, s, n)
<1>1. server_strand # <<>> /\ server_strand' = Tail(server_strand)
      /\ Head(server_strand) = server_strand[1]
  BY RunTask
<1> QED  BY <1>1, ContainsTail DEF Posted

LEMMA OtherTask ==
    ASSUME TypeOK, NEW name \in TaskNames, name # "erase",
           NEW s \in 0 .. MaxSessions, NEW n \in Nat,
           Run(name) \/ server_strand' = Append(server_strand, Task(name, s, n))
    PROVE  ErasesKept
<1>0. server_strand \in Seq(TaskSet)  BY DEF TypeOK
<1>1. CASE Run(name)
  <2>1. server_strand[1].op = name
        /\ \A i \in DOMAIN server_strand' : i + 1 \in DOMAIN server_strand
                                            /\ server_strand'[i] = server_strand[i + 1]
    BY <1>0, <1>1, RunTask
  <2>2. \A r : Task("erase", r, 0).op = "erase"  BY DEF Task
  <2>3. \A r : Posted("erase", r, 0) => Posted("erase", r, 0)'
    BY <1>0, <1>1, <2>1, <2>2, RunPosted
  <2> QED  BY <2>1, <2>3 DEF ErasesKept
<1>2. CASE server_strand' = Append(server_strand, Task(name, s, n))
  <2>1. Task(name, s, n) \in TaskSet /\ Task(name, s, n).op = name  BY TaskType
  <2> QED  BY <1>0, <1>2, <2>1, PostPosted DEF ErasesKept
<1> QED  BY <1>1, <1>2

LEMMA QuietTable ==
    ASSUME Table, ErasesKept, UNCHANGED <<sessions, link, callback>>,
           accepting' = "start" => accepting = "start" /\ next_id' = next_id
    PROVE  Table'
<1>1. Leaving /\ TableIsExact  BY DEF Table
<1>2. Leaving'  BY <1>1 DEF Leaving, ErasesKept, Current
<1>3. TableIsExact'  BY <1>1 DEF TableIsExact, ErasesKept
<1> QED  BY <1>2, <1>3 DEF Table

LEMMA AcceptTable ==
    ASSUME Base, Table,
           \/ \E r \in {"accepted", "accept_failed"} : AcceptCompletes(r)
           \/ AcceptFails \/ Accepted \/ AcceptCheck \/ AcceptPush
           \/ AcceptEnter \/ AcceptStart \/ do_accept
    PROVE  Table'
<1> USE DEF acceptVars, sessionVars, queueVars, stopVars, ownerVars, otherVars
<1>0. TypeOK /\ Numbering /\ Leaving /\ TableIsExact /\ 0 \in 0 .. MaxSessions
  BY Constants DEF Base, Table
<1>1. ASSUME NEW r \in {"accepted", "accept_failed"}, AcceptCompletes(r) PROVE Table'
  <2>1. r \in TaskNames /\ r # "erase"  BY DEF TaskNames
  <2>2. ErasesKept  BY <1>0, <1>1, <2>1, OtherTask DEF AcceptCompletes, NoId
  <2> QED  BY <1>1, <2>2, QuietTable DEF AcceptCompletes
<1>2. CASE AcceptFails
  <2>1. ErasesKept  BY <1>0, <1>2, OtherTask DEF AcceptFails, TaskNames
  <2> QED  BY <1>2, <2>1, QuietTable DEF AcceptFails
<1>3. CASE Accepted
  <2>1. ErasesKept  BY <1>0, <1>3, OtherTask DEF Accepted, TaskNames
  <2>2. accepting' # "start" /\ UNCHANGED <<sessions, link, callback>>
    BY <1>3 DEF Accepted
  <2> QED  BY <2>1, <2>2, QuietTable
<1>4. ASSUME server_strand' = server_strand PROVE ErasesKept
  BY <1>4 DEF ErasesKept, Posted
<1>5. CASE AcceptCheck \/ AcceptPush \/ do_accept
  <2>1. accepting' # "start" /\ UNCHANGED <<server_strand, sessions, link, callback>>
    BY <1>5 DEF AcceptCheck, AcceptPush, do_accept
  <2> QED  BY <1>4, <2>1, QuietTable
<1>6. CASE AcceptEnter
  <2>1. /\ accepting = "enter" /\ sessions' = sessions \cup {Current}
        /\ UNCHANGED <<server_strand, next_id, link, callback>>
    BY <1>6 DEF AcceptEnter, Current
  <2>2. link[Current] = "new" /\ Current' = Current
    BY <1>0, <2>1 DEF Numbering, Handling, Current
  <2>3. Leaving'  BY <1>0, <2>1, <2>2 DEF Leaving
  <2>4. TableIsExact'  BY <1>0, <2>1, <2>2 DEF TableIsExact, Posted
  <2> QED  BY <2>3, <2>4 DEF Table
<1>7. CASE AcceptStart
  <2>1. /\ accepting = "start" /\ accepting' = "again"
        /\ link' = [link EXCEPT ![Current] = "open"]
        /\ UNCHANGED <<server_strand, sessions, callback>>
    BY <1>7 DEF AcceptStart, Current
  <2>2. Current \in Ids /\ link[Current] = "new"
    BY <1>0, <2>1 DEF Numbering, Handling
  <2>3. link'[Current] = "open" /\ \A s \in Ids : s # Current => link'[s] = link[s]
    BY <1>0, <2>1, <2>2 DEF TypeOK
  <2>4. Leaving'  BY <1>0, <2>1, <2>2, <2>3 DEF Leaving
  <2>5. TableIsExact'
    BY <1>0, <2>1, <2>2, <2>3 DEF TableIsExact, Posted, Leaving
  <2> QED  BY <2>4, <2>5 DEF Table
<1> QED  BY <1>1, <1>2, <1>3, <1>5, <1>6, <1>7

LEMMA EraseTable ==
    ASSUME Base, Table, EraseTask
    PROVE  Table'
<1> USE DEF acceptVars
<1> DEFINE r == server_strand[1].session_id
<1>0. TypeOK /\ Leaving /\ TableIsExact /\ server_strand \in Seq(TaskSet)
  BY DEF Base, Table, TypeOK
<1>1. Run("erase") /\ sessions' = sessions \ {Head(server_strand).session_id}
      /\ UNCHANGED <<accepting, next_id, link, callback>>
  BY DEF EraseTask
<1>2. /\ Head(server_strand) = server_strand[1] /\ 1 \in DOMAIN server_strand
      /\ server_strand[1].op = "erase" /\ accepting = "idle"
      /\ \A i \in DOMAIN server_strand' : i + 1 \in DOMAIN server_strand
                                          /\ server_strand'[i] = server_strand[i + 1]
  BY <1>0, <1>1, RunTask DEF TaskNames
<1>3. \A s : Posted("erase", s, 0) => Posted("erase", s, 0)' \/ r = s
  <2>1. \A s : Task("erase", s, 0).session_id = s  BY DEF Task
  <2> QED  BY <1>0, <1>1, <2>1, RunPosted DEF TaskNames
<1>4. r \in Ids /\ link[r] \in {"closed", "gone"} /\ sessions' = sessions \ {r}
  BY <1>0, <1>1, <1>2 DEF Leaving
<1> HIDE DEF r
<1>5. Leaving'  BY <1>0, <1>1, <1>2, <1>4 DEF Leaving
<1>6. TableIsExact'  BY <1>0, <1>1, <1>3, <1>4 DEF TableIsExact
<1> QED  BY <1>5, <1>6 DEF Table

LEMMA CallbackTable ==
    ASSUME Base, Table, NEW s \in Ids,
           OnReceive(s) \/ OnClose(s) \/ Callback(s)
    PROVE  Table'
<1> USE DEF acceptVars
<1>0. TypeOK /\ Leaving /\ TableIsExact /\ server_strand \in Seq(TaskSet)
  BY DEF Base, Table, TypeOK
<1>1. /\ UNCHANGED <<accepting, next_id, sessions>>
      /\ \A r \in Ids : r # s => link'[r] = link[r] /\ callback'[r] = callback[r]
  BY <1>0 DEF OnReceive, OnClose, Callback, PushData, PushDisconnect, PostErase, Goto, TypeOK
<1>2. ASSUME NEW l \in {"open", "closed", "gone"},
             link'[s] = l, l = "open" => link[s] = "open",
             link[s] \in {"closed", "gone"} => l \in {"closed", "gone"},
             callback'[s] \in {"disconnect", "erase"} => l \in {"closed", "gone"},
             server_strand' = server_strand,
             l \in {"closed", "gone"} =>
                \/ s \notin sessions
                \/ callback'[s] \in {"disconnect", "erase"}
                \/ Posted("erase", s, 0)
      PROVE  Table'
  <2>1. Leaving'  BY <1>0, <1>1, <1>2 DEF Leaving, Current
  <2>2. TableIsExact'  BY <1>0, <1>1, <1>2 DEF TableIsExact, Posted
  <2> QED  BY <2>1, <2>2 DEF Table
<1>3. CASE OnReceive(s)
  <2>1. /\ callback[s] = "idle" /\ callback'[s] \in {"idle", "data"}
        /\ server_strand' = server_strand
        /\ \/ link[s] = "open" /\ link'[s] = "open"
           \/ link[s] = "closed" /\ link'[s] = "gone"
    BY <1>0, <1>3 DEF OnReceive, SessionReady, Goto, TypeOK
  <2>2. link[s] = "closed" => s \notin sessions \/ Posted("erase", s, 0)
    BY <1>0, <2>1 DEF TableIsExact
  <2> QED  BY <1>2, <2>1, <2>2
<1>4. CASE OnClose(s)
  <2>1. /\ callback'[s] \in {"disconnect", "erase"} /\ link'[s] = "closed"
        /\ server_strand' = server_strand
    BY <1>0, <1>4 DEF OnClose, Goto, TypeOK
  <2> QED  BY <1>2, <2>1
<1>5. CASE PushData(s)
  <2>1. callback[s] = "data" /\ callback'[s] = "idle" /\ UNCHANGED <<server_strand, link>>
    BY <1>0, <1>5 DEF PushData, Goto, TypeOK
  <2>2. Leaving'  BY <1>0, <1>1, <2>1 DEF Leaving, Current
  <2>3. TableIsExact'  BY <1>0, <1>1, <2>1 DEF TableIsExact, Posted
  <2> QED  BY <2>2, <2>3 DEF Table
<1>6. CASE PushDisconnect(s)
  <2>1. callback[s] = "disconnect" /\ callback'[s] = "erase"
        /\ UNCHANGED <<server_strand, link>>
    BY <1>0, <1>6 DEF PushDisconnect, Goto, TypeOK
  <2>2. Leaving'  BY <1>0, <1>1, <2>1 DEF Leaving, Current
  <2>3. TableIsExact'  BY <1>0, <1>1, <2>1 DEF TableIsExact, Posted
  <2> QED  BY <2>2, <2>3 DEF Table
<1>7. CASE PostErase(s)
  <2> DEFINE t == Task("erase", s, 0)
  <2>1. callback[s] = "erase" /\ callback'[s] = "idle" /\ link' = link
        /\ server_strand' = Append(server_strand, t)
    BY <1>0, <1>7 DEF PostErase, Goto, TypeOK
  <2>2. t \in TaskSet /\ t.op = "erase" /\ t.session_id = s /\ t.call = 0
    BY IdsType, TaskType DEF TaskNames
  <2>3. \A r : t = Task("erase", r, 0) <=> r = s  BY DEF Task
  <2> HIDE DEF t
  <2>4. \A r : Posted("erase", r, 0)' <=> Posted("erase", r, 0) \/ r = s
    BY <1>0, <2>1, <2>2, <2>3, PostPosted
  <2>5. link[s] \in {"closed", "gone"}  BY <1>0, <2>1 DEF Leaving
  <2>6. \A i \in DOMAIN server_strand' :
          server_strand'[i] = t \/ (i \in DOMAIN server_strand
                                    /\ server_strand'[i] = server_strand[i])
    BY <1>0, <2>1, <2>2, PostPosted
  <2>7. Leaving'  BY <1>0, <1>1, <2>1, <2>2, <2>5, <2>6 DEF Leaving, Current
  <2>8. TableIsExact'  BY <1>0, <1>1, <2>1, <2>4 DEF TableIsExact
  <2> QED  BY <2>7, <2>8 DEF Table
<1> QED  BY <1>3, <1>4, <1>5, <1>6, <1>7 DEF Callback

LEMMA StepTable == Base /\ Table /\ [Next]_vars => Table'
<1> SUFFICES ASSUME Base, Table, [Next]_vars PROVE Table'  OBVIOUS
<1> USE DEF acceptVars, sessionVars, queueVars, stopVars, ownerVars, otherVars
<1>0. TypeOK /\ calls + 1 \in Nat /\ 0 \in 0 .. MaxSessions  BY Constants DEF Base, TypeOK
<1>1. ASSUME ErasesKept, UNCHANGED <<sessions, link, callback, accepting, next_id>>
      PROVE  Table'
  BY <1>1, QuietTable
<1>2. ASSUME server_strand' = server_strand PROVE ErasesKept
  BY <1>2 DEF ErasesKept, Posted
<1>3. CASE SendTask \/ BroadcastTask \/ DisconnectTask \/ ShutdownTask
  <2>1. ErasesKept
    BY <1>0, <1>3, OtherTask DEF SendTask, BroadcastTask, DisconnectTask, ShutdownTask,
                                 TaskNames, CallNames
  <2> QED
    BY <1>1, <1>3, <2>1 DEF SendTask, BroadcastTask, DisconnectTask, ShutdownTask
<1>4. ASSUME NEW name \in CallNames, NEW s \in 0 .. MaxSessions, Call(name, s) PROVE Table'
  <2>1. ErasesKept  BY <1>0, <1>4, OtherTask DEF Call, TaskNames, CallNames
  <2> QED  BY <1>1, <1>4, <2>1 DEF Call
<1>5. ASSUME NEW s \in Ids, send(s) \/ disconnect(s) PROVE Table'
  BY <1>4, <1>5, IdsType DEF send, disconnect, CallNames
<1>6. CASE broadcast  BY <1>0, <1>4, <1>6 DEF broadcast, CallNames, NoId
<1>7. CASE PostShutdown
  <2>1. ErasesKept  BY <1>0, <1>7, OtherTask DEF PostShutdown, TaskNames, NoId
  <2> QED  BY <1>1, <1>7, <2>1 DEF PostShutdown
<1>8. CASE poll_packet \/ BeginShutdown \/ Stop \/ JoinAndDrain
  BY <1>1, <1>2, <1>8 DEF poll_packet, BeginShutdown, Stop, JoinAndDrain
<1>9. ASSUME NEW s \in Ids, CloseAgain(s) PROVE Table'
  BY <1>1, <1>2, <1>9 DEF CloseAgain
<1>10. CASE UNCHANGED vars  BY <1>1, <1>2, <1>10 DEF vars
<1>11. CASE Next
  BY <1>3, <1>5, <1>6, <1>7, <1>8, <1>9, <1>11, AcceptTable, EraseTable, CallbackTable
  DEF Next, ServerStrand, AcceptHandler, Shutdown
<1> QED  BY <1>10, <1>11

LEMMA InitTable == Init => Table
  BY DEF Init, Table, Leaving, TableIsExact

\* disconnect and shutdown find every open session in the table, and a session
\* that is no longer open leaves it: nobody's erase task is lost or overtaken.
THEOREM TableStaysExact == Spec => []TableIsExact
<1>1. Table => TableIsExact  BY DEF Table
<1> QED  BY <1>1, InitBase, StepBase, InitTable, StepTable, PTL DEF Spec

-----------------------------------------------------------------------------
(* The end of a session is reported.                                       *)

LEMMA ReportedInQueue ==
    ASSUME TypeOK, NEW p \in Packets, packet_queue' = Append(packet_queue, p)
    PROVE  InQueue(p)' /\ \A q : InQueue(q) => InQueue(q)'
<1>1. packet_queue \in Seq(Packets)  BY DEF TypeOK
<1> QED  BY <1>1, ContainsAppend DEF InQueue

LEMMA QuietReported ==
    ASSUME ClosedIsReported, dropped_packets => dropped_packets',
           shutting_down => shutting_down',
           \A s \in Ids : link'[s] \in {"closed", "gone"} => link[s] \in {"closed", "gone"},
           \A s \in Ids : DisconnectDelivered(s) => DisconnectDelivered(s)'
    PROVE  ClosedIsReported'
  BY DEF ClosedIsReported

LEMMA StepReported ==
    Base /\ Base' /\ ClosedIsReported /\ [Next]_vars => ClosedIsReported'
<1> SUFFICES ASSUME Base, Base', ClosedIsReported, [Next]_vars PROVE ClosedIsReported'
  OBVIOUS
<1> USE DEF acceptVars, sessionVars, queueVars, stopVars, ownerVars, otherVars
<1>0. TypeOK /\ TypeOK' /\ Numbering /\ Ending  BY DEF Base
<1>1. ASSUME UNCHANGED <<packet_queue, polled, link, callback, dropped_packets>>,
             shutting_down => shutting_down'
      PROVE  ClosedIsReported'
  BY <1>1, QuietReported DEF DisconnectDelivered, InQueue
<1>2. ASSUME \/ \E r \in {"accepted", "accept_failed"} : AcceptCompletes(r)
             \/ AcceptFails \/ Accepted \/ AcceptCheck \/ AcceptEnter \/ do_accept
      PROVE  ClosedIsReported'
  BY <1>1, <1>2 DEF AcceptCompletes, AcceptFails, Accepted, AcceptCheck, AcceptEnter, do_accept
<1>3. ASSUME NEW p \in Packets, Push(p), UNCHANGED <<polled, link, callback, shutting_down>>
      PROVE  ClosedIsReported'
  <2>1. CASE Full
    <3>1. packet_queue' = packet_queue /\ dropped_packets'  BY <1>3, <2>1 DEF Push
    <3> QED  BY <3>1 DEF ClosedIsReported
  <2>2. CASE ~Full
    <3>1. packet_queue' = Append(packet_queue, p) /\ dropped_packets' = dropped_packets
      BY <1>3, <2>2 DEF Push
    <3>2. \A s \in Ids : DisconnectDelivered(s) => DisconnectDelivered(s)'
      BY <1>0, <1>3, <3>1, ReportedInQueue DEF DisconnectDelivered
    <3> QED  BY <1>3, <3>1, <3>2, QuietReported
  <2> QED  BY <2>1, <2>2
<1>4. CASE AcceptPush
  <2>1. Packet("Connect", Current) \in Packets
    BY <1>0, <1>4 DEF AcceptPush, Numbering, Handling, Packet, Packets
  <2> QED  BY <1>3, <1>4, <2>1 DEF AcceptPush, Current
<1>5. CASE AcceptStart
  <2>1. link' = [link EXCEPT ![next_id - 1] = "open"]
        /\ UNCHANGED <<packet_queue, polled, callback, dropped_packets, shutting_down>>
    BY <1>5 DEF AcceptStart
  <2>2. \A s \in Ids : link'[s] \in {"closed", "gone"} => link[s] \in {"closed", "gone"}
    BY <1>0, <2>1 DEF TypeOK
  <2> QED  BY <2>1, <2>2, QuietReported DEF DisconnectDelivered, InQueue
<1>6. CASE EraseTask \/ SendTask \/ BroadcastTask \/ DisconnectTask \/ ShutdownTask
  BY <1>1, <1>6 DEF EraseTask, SendTask, BroadcastTask, DisconnectTask, ShutdownTask
<1>7. ASSUME NEW s \in Ids, OnReceive(s) PROVE ClosedIsReported'
  <2>1. /\ callback[s] = "idle" /\ \A r \in Ids : r # s => callback'[r] = callback[r]
        /\ UNCHANGED <<packet_queue, polled, dropped_packets, shutting_down>>
        /\ \A r \in Ids : link'[r] \in {"closed", "gone"} => link[r] \in {"closed", "gone"}
    BY <1>0, <1>7 DEF OnReceive, SessionReady, Goto, TypeOK
  <2> QED  BY <2>1, QuietReported DEF DisconnectDelivered, InQueue
<1>8. ASSUME NEW s \in Ids, OnClose(s) PROVE ClosedIsReported'
  <2>1. /\ callback[s] = "idle"
        /\ callback' = [callback EXCEPT ![s] = IF shutting_down THEN "erase" ELSE "disconnect"]
        /\ link' = [link EXCEPT ![s] = "closed"]
        /\ UNCHANGED <<packet_queue, polled, dropped_packets, shutting_down>>
    BY <1>8 DEF OnClose, SessionReady, Goto
  <2>2. /\ ~shutting_down => callback'[s] = "disconnect"
        /\ \A r \in Ids : r # s => callback'[r] = callback[r] /\ link'[r] = link[r]
    BY <1>0, <2>1 DEF TypeOK
  <2> QED  BY <2>1, <2>2 DEF ClosedIsReported, DisconnectDelivered, InQueue
<1>9. ASSUME NEW s \in Ids, CloseAgain(s) PROVE ClosedIsReported'
  BY <1>1, <1>9 DEF CloseAgain
<1>10. ASSUME NEW s \in Ids, callback[s] # "disconnect", callback'[s] # "disconnect",
              \A r \in Ids : r # s => callback'[r] = callback[r],
              dropped_packets => dropped_packets',
              \A p : InQueue(p) => InQueue(p)',
              UNCHANGED <<polled, link, shutting_down>>
       PROVE  ClosedIsReported'
  <2>1. \A r \in Ids : DisconnectDelivered(r) => DisconnectDelivered(r)'
    BY <1>10 DEF DisconnectDelivered
  <2> QED  BY <1>10, <2>1, QuietReported
<1>11. ASSUME NEW s \in Ids, PostErase(s) PROVE ClosedIsReported'
  <2>1. /\ callback[s] = "erase" /\ callback'[s] = "idle"
        /\ \A r \in Ids : r # s => callback'[r] = callback[r]
        /\ UNCHANGED <<packet_queue, polled, link, dropped_packets, shutting_down>>
    BY <1>0, <1>11 DEF PostErase, Goto, TypeOK
  <2> QED  BY <1>10, <2>1 DEF InQueue
<1>12. ASSUME NEW s \in Ids, PushData(s) PROVE ClosedIsReported'
  <2>1. /\ callback[s] = "data" /\ callback'[s] = "idle" /\ Push(Packet("Data", s))
        /\ \A r \in Ids : r # s => callback'[r] = callback[r]
        /\ UNCHANGED <<polled, link, shutting_down>>
    BY <1>0, <1>12 DEF PushData, Goto, TypeOK
  <2>2. Packet("Data", s) \in Packets  BY DEF Packet, Packets
  <2>3. (dropped_packets => dropped_packets') /\ \A p : InQueue(p) => InQueue(p)'
    <3>1. CASE Full  BY <2>1, <3>1 DEF Push, InQueue
    <3>2. CASE ~Full  BY <1>0, <2>1, <2>2, <3>2, ReportedInQueue DEF Push
    <3> QED  BY <3>1, <3>2
  <2> QED  BY <1>10, <2>1, <2>3
<1>13. ASSUME NEW s \in Ids, PushDisconnect(s) PROVE ClosedIsReported'
  <2>1. /\ Push(Packet("Disconnect", s)) /\ UNCHANGED <<polled, link, shutting_down>>
        /\ \A r \in Ids : r # s => callback'[r] = callback[r]
    BY <1>0, <1>13 DEF PushDisconnect, Goto, TypeOK
  <2>2. CASE Full
    <3>1. dropped_packets'  BY <2>1, <2>2 DEF Push
    <3> QED  BY <3>1 DEF ClosedIsReported
  <2>3. CASE ~Full
    <3> DEFINE p == Packet("Disconnect", s)
    <3>1. p \in Packets  BY DEF Packet, Packets
    <3>2. packet_queue' = Append(packet_queue, p) /\ dropped_packets' = dropped_packets
      BY <2>1, <2>3 DEF Push
    <3>3. InQueue(p)' /\ \A q : InQueue(q) => InQueue(q)'
      <4> HIDE DEF p
      <4> QED  BY <1>0, <3>1, <3>2, ReportedInQueue
    <3>4. \A r \in Ids : DisconnectDelivered(r) => DisconnectDelivered(r)'
      BY <2>1, <3>3 DEF DisconnectDelivered
    <3> QED  BY <2>1, <3>2, <3>4, QuietReported
  <2> QED  BY <2>2, <2>3
<1>14. ASSUME NEW s \in Ids, send(s) \/ disconnect(s) PROVE ClosedIsReported'
  BY <1>1, <1>14 DEF send, disconnect, Call
<1>15. CASE broadcast  BY <1>1, <1>15 DEF broadcast, Call
<1>16. CASE poll_packet
  <2> DEFINE p == packet_queue[1]
  <2>1. /\ packet_queue \in Seq(Packets) /\ packet_queue # <<>>
        /\ packet_queue' = Tail(packet_queue)
        /\ polled' = [polled EXCEPT ![Head(packet_queue).session_id] =
                          @ \cup ({Head(packet_queue).type} \ {"Data"})]
        /\ UNCHANGED <<link, callback, dropped_packets, shutting_down>>
    BY <1>0, <1>16 DEF poll_packet, TypeOK
  <2>2. /\ Head(packet_queue) = p /\ p \in Packets
    BY <2>1
  <2>3. \A q : InQueue(q) => InQueue(q)' \/ q = p
    BY <2>1, <2>2, ContainsTail DEF InQueue
  <2> HIDE DEF p
  <2>4. \A r \in Ids : polled[r] \subseteq polled'[r]
    BY <1>0, <2>1 DEF TypeOK
  <2>5. \A r \in Ids : p = Packet("Disconnect", r) => "Disconnect" \in polled'[r]
    <3> SUFFICES ASSUME NEW r \in Ids, p = Packet("Disconnect", r)
                 PROVE  "Disconnect" \in polled'[r]
      OBVIOUS
    <3>1. p.session_id = r /\ p.type = "Disconnect"  BY DEF Packet
    <3> QED  BY <1>0, <2>1, <2>2, <3>1 DEF TypeOK
  <2>6. \A r \in Ids : DisconnectDelivered(r) => DisconnectDelivered(r)'
    BY <2>1, <2>3, <2>4, <2>5 DEF DisconnectDelivered
  <2> QED  BY <2>1, <2>6, QuietReported
<1>17. CASE BeginShutdown \/ PostShutdown \/ Stop
  BY <1>1, <1>17 DEF BeginShutdown, PostShutdown, Stop
<1>18. CASE JoinAndDrain
  BY <1>0, <1>18 DEF JoinAndDrain, Ending, ClosedIsReported
<1>19. CASE UNCHANGED vars  BY <1>1, <1>19 DEF vars
<1>20. CASE Next
  BY <1>2, <1>4, <1>5, <1>6, <1>7, <1>8, <1>9, <1>11, <1>12, <1>13, <1>14, <1>15,
     <1>16, <1>17, <1>18, <1>20
  DEF Next, ServerStrand, AcceptHandler, Callback, Shutdown
<1> QED  BY <1>19, <1>20

\* As long as nothing has been dropped, the owner hears of the end of every
\* session, whatever data is pushed and polled meanwhile.
THEOREM EveryCloseIsReported == Spec => []ClosedIsReported
<1>1. Init => ClosedIsReported  BY DEF Init, ClosedIsReported
<1> QED  BY <1>1, InitBase, StepBase, StepReported, PTL DEF Spec

-----------------------------------------------------------------------------
(* What is sent to an open session reaches it, in order.                   *)

Sends == CallOrder /\ SendsKept /\ SendsReachSession

\* A step that neither calls, nor runs a task: it may post one that is not a
\* call, close a session, or poll.
LEMMA QuietSends ==
    ASSUME Sends, UNCHANGED <<calls, called, handed>>,
           \A o, s, n : Posted(o, s, n) => Posted(o, s, n)',
           \A i \in DOMAIN server_strand' :
              \/ server_strand'[i].op \notin CallNames
              \/ i \in DOMAIN server_strand /\ server_strand'[i] = server_strand[i],
           \A s \in Ids : polled[s] \subseteq polled'[s],
           shutting_down => shutting_down',
           \A s \in Ids : link'[s] \in {"new", "open"} => link[s] \in {"new", "open"}
    PROVE  Sends'
<1>0. CallOrder /\ SendsKept /\ SendsReachSession  BY DEF Sends
<1>1. \A i \in DOMAIN server_strand' : IsCall(i)' =>
        i \in DOMAIN server_strand /\ server_strand'[i] = server_strand[i] /\ IsCall(i)
  BY DEF IsCall
<1>2. CallOrder'  BY <1>0, <1>1 DEF CallOrder
<1>3. SendsKept'  BY <1>0 DEF SendsKept
<1>4. SendsReachSession'  BY <1>0, <1>3 DEF SendsReachSession, SendsKept
<1> QED  BY <1>2, <1>3, <1>4 DEF Sends

\* A task is run: handed grows at most by the call at the head of the strand,
\* and does so when that is a send to an open session.
LEMMA RunSends ==
    ASSUME Base, First, Table, Sends, NEW name \in TaskNames, Run(name),
           UNCHANGED <<calls, called, polled, link>>, shutting_down' = shutting_down,
           \A s \in Ids :
              \/ handed'[s] = handed[s]
              \/ name \in CallNames /\ handed'[s] = Append(handed[s], server_strand[1].call),
           \A s \in Ids : name = "send" /\ server_strand[1].session_id = s
                          /\ s \in sessions /\ link[s] = "open" /\ ~shutting_down =>
              handed'[s] = Append(handed[s], server_strand[1].call)
    PROVE  Sends'
<1>0. /\ TypeOK /\ Announced /\ TableIsExact /\ CallOrder /\ SendsKept /\ SendsReachSession
      /\ server_strand \in Seq(TaskSet) /\ calls \in Nat
      /\ \A s \in Ids : handed[s] \in Seq(Nat)
  BY DEF Base, First, Table, Sends, TypeOK
<1> DEFINE n == server_strand[1].call
<1>1. /\ accepting = "idle" /\ 1 \in DOMAIN server_strand /\ server_strand[1].op = name
      /\ server_strand[1] \in TaskSet
      /\ \A i \in DOMAIN server_strand' : /\ i + 1 \in DOMAIN server_strand
                                          /\ server_strand'[i] = server_strand[i + 1]
      /\ server_strand' \in Seq(TaskSet)
  BY <1>0, RunTask
<1>2. n \in Nat  BY <1>1 DEF TaskSet
<1>3. \A i \in DOMAIN server_strand' : i \in Nat /\ i > 0 /\ server_strand'[i] \in TaskSet
                                       /\ (IsCall(i)' => IsCall(i + 1))
  BY <1>1 DEF IsCall
<1>4. name \in CallNames => IsCall(1)  BY <1>1 DEF IsCall
<1>5. ASSUME NEW s \in Ids
      PROVE  /\ \A k \in DOMAIN handed'[s] :
                  \/ k \in DOMAIN handed[s] /\ handed'[s][k] = handed[s][k]
                  \/ handed'[s][k] = n /\ IsCall(1) /\ k = Len(handed[s]) + 1
             /\ \A k \in DOMAIN handed[s] :
                  k \in DOMAIN handed'[s] /\ handed'[s][k] = handed[s][k]
  <2>1. CASE handed'[s] = handed[s]  BY <2>1
  <2>2. CASE name \in CallNames /\ handed'[s] = Append(handed[s], n)
    BY <1>0, <1>2, <1>4, <2>2
  <2> QED  BY <2>1, <2>2
<1> HIDE DEF n
<1>6. CallOrder'
  <2>1. \A i \in DOMAIN server_strand' : IsCall(i)' => server_strand'[i].call <= calls'
    BY <1>0, <1>1, <1>3 DEF CallOrder
  <2>2. ASSUME NEW i \in DOMAIN server_strand', NEW j \in DOMAIN server_strand',
               IsCall(i)', IsCall(j)', i < j
        PROVE  server_strand'[i].call < server_strand'[j].call
    <3>1. /\ i + 1 \in DOMAIN server_strand /\ j + 1 \in DOMAIN server_strand
          /\ server_strand'[i] = server_strand[i + 1] /\ server_strand'[j] = server_strand[j + 1]
          /\ IsCall(i + 1) /\ IsCall(j + 1) /\ i + 1 < j + 1
      BY <1>1, <1>3, <2>2
    <3> QED  BY <1>0, <3>1 DEF CallOrder
  <2>3. ASSUME NEW s \in Ids, NEW k \in DOMAIN handed'[s]
        PROVE  /\ handed'[s][k] <= calls'
               /\ \A i \in DOMAIN server_strand' :
                     IsCall(i)' => handed'[s][k] < server_strand'[i].call
    <3>1. CASE k \in DOMAIN handed[s] /\ handed'[s][k] = handed[s][k]
      BY <1>0, <1>1, <1>3, <3>1 DEF CallOrder
    <3>2. CASE handed'[s][k] = n /\ IsCall(1)
      <4>1. \A i \in DOMAIN server_strand' : IsCall(i)' => n < server_strand[i + 1].call
        BY <1>0, <1>1, <1>3, <3>2 DEF CallOrder, n
      <4>2. n <= calls  BY <1>0, <1>1, <3>2 DEF CallOrder, n
      <4> QED  BY <1>1, <3>2, <4>1, <4>2
    <3> QED  BY <1>5, <3>1, <3>2
  <2> QED  BY <2>1, <2>2, <2>3 DEF CallOrder
<1>7. SendsKept'
  <2>1. \A s \in Ids : called'[s] # {} => "Connect" \in polled'[s]
    BY <1>0 DEF SendsKept
  <2>2. ASSUME NEW s \in Ids, link[s] \in {"new", "open"}, ~shutting_down, NEW m \in called[s]
        PROVE  Contains(handed'[s], m) \/ Posted("send", s, m)'
    <3>0. handed[s] \in Seq(Nat) /\ \A x : Contains(Append(handed[s], n), x) <=>
                                             Contains(handed[s], x) \/ n = x
      <4>1. handed[s] \in Seq(Nat)  BY <1>0
      <4> QED  BY <1>2, <4>1, ContainsAppend
    <3>1. CASE Contains(handed[s], m)
      BY <3>0, <3>1 DEF n
    <3>2. CASE Posted("send", s, m) /\ server_strand[1] # Task("send", s, m)
      BY <1>0, <3>2, RunPosted
    <3>3. CASE server_strand[1] = Task("send", s, m)
      <4>1. name = "send" /\ server_strand[1].session_id = s /\ n = m
        BY <1>1, <3>3 DEF Task, n
      <4>2. link[s] = "open"
        <5>1. Introduced(s)  BY <1>0, <2>2 DEF SendsKept, Introduced
        <5>2. ~Pushed  BY <1>1 DEF Pushed
        <5> QED  BY <1>0, <2>2, <5>1, <5>2 DEF Announced
      <4>3. s \in sessions  BY <1>0, <4>2 DEF TableIsExact
      <4>4. handed'[s] = Append(handed[s], n)  BY <2>2, <4>1, <4>2, <4>3 DEF n
      <4>5. Contains(handed'[s], n)  BY <3>0, <4>4
      <4> QED  BY <4>1, <4>5
    <3> QED  BY <1>0, <2>2, <3>1, <3>2, <3>3 DEF SendsKept
  <2> QED  BY <2>1, <2>2 DEF SendsKept
<1>8. SendsReachSession'
  <2>1. ASSUME NEW s \in Ids, NEW i \in DOMAIN handed'[s], NEW j \in DOMAIN handed'[s], i < j
        PROVE  handed'[s][i] < handed'[s][j]
    <3>1. DOMAIN handed[s] = 1 .. Len(handed[s]) /\ Len(handed[s]) \in Nat  BY <1>0
    <3>2. CASE j \in DOMAIN handed[s]
      <4>1. i \in DOMAIN handed[s] /\ handed'[s][i] = handed[s][i]
            /\ handed'[s][j] = handed[s][j]
        BY <1>5, <2>1, <3>1, <3>2
      <4> QED  BY <1>0, <2>1, <3>2, <4>1 DEF SendsReachSession
    <3>3. CASE j \notin DOMAIN handed[s]
      <4>1. handed'[s][j] = n /\ IsCall(1) /\ j = Len(handed[s]) + 1  BY <1>5, <3>3
      <4>2. i \in DOMAIN handed[s] /\ handed'[s][i] = handed[s][i]
        BY <1>5, <2>1, <3>1, <4>1
      <4> QED  BY <1>0, <1>1, <4>1, <4>2 DEF CallOrder, n
    <3> QED  BY <3>2, <3>3
  <2> QED  BY <1>7, <2>1 DEF SendsReachSession, SendsKept
<1> QED  BY <1>6, <1>7, <1>8 DEF Sends

\* The owner calls.
LEMMA CallSends ==
    ASSUME Base, Sends, NEW name \in CallNames, NEW s \in 0 .. MaxSessions, Call(name, s),
           \A r \in Ids :
              \/ called'[r] = called[r]
              \/ /\ name = "send" /\ r = s /\ "Connect" \in polled[r]
                 /\ called'[r] = called[r] \cup {calls + 1}
    PROVE  Sends'
<1> USE DEF acceptVars, sessionVars, queueVars, stopVars
<1> DEFINE t == Task(name, s, calls + 1)
<1>0. /\ CallOrder /\ SendsKept /\ SendsReachSession
      /\ server_strand \in Seq(TaskSet) /\ calls \in Nat
      /\ \A r \in Ids : handed[r] \in Seq(Nat)
  BY DEF Base, Sends, TypeOK
<1>1. /\ server_strand' = Append(server_strand, t) /\ calls' = calls + 1
      /\ UNCHANGED <<polled, handed, link, shutting_down>>
  BY DEF Call
<1>2. t \in TaskSet /\ t.op = name /\ t.session_id = s /\ t.call = calls + 1
  <2>1. name \in TaskNames /\ calls + 1 \in Nat  BY <1>0 DEF TaskNames
  <2> QED  BY <2>1, TaskType
<1> HIDE DEF t
<1>3. LET l == Len(server_strand)
      IN  /\ DOMAIN server_strand = 1 .. l /\ l \in Nat
          /\ DOMAIN server_strand' = 1 .. l + 1 /\ server_strand'[l + 1] = t
          /\ \A i \in 1 .. l : server_strand'[i] = server_strand[i]
                               /\ server_strand[i] \in TaskSet
  BY <1>0, <1>1, <1>2
<1>4. \A i \in DOMAIN server_strand :
        server_strand[i].call \in Nat /\ (IsCall(i)' <=> IsCall(i))
  BY <1>3 DEF IsCall, TaskSet
<1>5. CallOrder'
  <2>1. \A i \in DOMAIN server_strand' : IsCall(i)' => server_strand'[i].call <= calls'
    BY <1>0, <1>1, <1>2, <1>3, <1>4 DEF CallOrder
  <2>2. ASSUME NEW i \in DOMAIN server_strand', NEW j \in DOMAIN server_strand',
               IsCall(i)', IsCall(j)', i < j
        PROVE  server_strand'[i].call < server_strand'[j].call
    <3>1. i \in DOMAIN server_strand /\ server_strand'[i] = server_strand[i]  BY <1>3, <2>2
    <3>2. CASE j \in DOMAIN server_strand
      BY <1>0, <1>3, <1>4, <2>2, <3>1, <3>2 DEF CallOrder
    <3>3. CASE server_strand'[j] = t
      <4>1. server_strand[i].call <= calls  BY <1>0, <1>4, <2>2, <3>1 DEF CallOrder
      <4> QED  BY <1>0, <1>2, <1>4, <3>1, <3>3, <4>1
    <3> QED  BY <1>3, <3>2, <3>3
  <2>3. ASSUME NEW r \in Ids, NEW k \in DOMAIN handed'[r]
        PROVE  /\ handed'[r][k] <= calls'
               /\ \A i \in DOMAIN server_strand' :
                     IsCall(i)' => handed'[r][k] < server_strand'[i].call
    <3>1. /\ handed'[r][k] = handed[r][k] /\ handed[r][k] \in Nat /\ handed[r][k] <= calls
          /\ k \in DOMAIN handed[r]
      BY <1>0, <1>1 DEF CallOrder
    <3>2. ASSUME NEW i \in DOMAIN server_strand', IsCall(i)'
          PROVE  handed[r][k] < server_strand'[i].call
      <4>1. CASE i \in DOMAIN server_strand
        BY <1>0, <1>3, <1>4, <3>1, <3>2, <4>1 DEF CallOrder
      <4>2. CASE server_strand'[i] = t
        BY <1>0, <1>2, <3>1, <4>2
      <4> QED  BY <1>3, <4>1, <4>2
    <3> QED  BY <1>0, <1>1, <3>1, <3>2
  <2> QED  BY <2>1, <2>2, <2>3 DEF CallOrder
<1>6. \A o, r, n : Posted(o, r, n)' <=> Posted(o, r, n) \/ t = Task(o, r, n)
  BY <1>0, <1>1, <1>2, PostPosted
<1>7. SendsKept'
  <2>1. ASSUME NEW r \in Ids, link[r] \in {"new", "open"}, ~shutting_down, NEW n \in called'[r]
        PROVE  Contains(handed[r], n) \/ Posted("send", r, n)'
    <3>1. CASE n \in called[r]  BY <1>0, <1>6, <2>1, <3>1 DEF SendsKept
    <3>2. CASE n = calls + 1 /\ name = "send" /\ r = s  BY <1>6, <3>2 DEF t
    <3> QED  BY <2>1, <3>1, <3>2
  <2>2. \A r \in Ids : called'[r] # {} => "Connect" \in polled[r]
    BY <1>0 DEF SendsKept
  <2> QED  BY <1>1, <2>1, <2>2 DEF SendsKept
<1>8. SendsReachSession'
  BY <1>0, <1>1, <1>7 DEF SendsReachSession, SendsKept
<1> QED  BY <1>5, <1>7, <1>8 DEF Sends

LEMMA StepSends == Base /\ First /\ Table /\ Sends /\ [Next]_vars => Sends'
<1> SUFFICES ASSUME Base, First, Table, Sends, [Next]_vars PROVE Sends'  OBVIOUS
<1> USE DEF acceptVars, sessionVars, queueVars, stopVars, ownerVars, otherVars
<1>0. /\ TypeOK /\ Numbering /\ server_strand \in Seq(TaskSet) /\ 0 \in 0 .. MaxSessions
      /\ handed \in [Ids -> Seq(Nat)]
  BY Constants DEF Base, TypeOK
<1>1. ASSUME UNCHANGED <<server_strand, calls, called, handed>>,
             \A s \in Ids : polled[s] \subseteq polled'[s],
             shutting_down => shutting_down',
             \A s \in Ids : link'[s] \in {"new", "open"} => link[s] \in {"new", "open"}
      PROVE  Sends'
  BY <1>1, QuietSends DEF Posted
<1>2. ASSUME NEW name \in TaskNames \ CallNames, NEW s \in 0 .. MaxSessions,
             server_strand' = Append(server_strand, Task(name, s, 0)),
             UNCHANGED <<calls, called, handed, polled, shutting_down, link>>
      PROVE  Sends'
  <2>1. Task(name, s, 0) \in TaskSet /\ Task(name, s, 0).op = name  BY TaskType
  <2>2. /\ \A i \in DOMAIN server_strand' :
             \/ server_strand'[i] = Task(name, s, 0)
             \/ i \in DOMAIN server_strand /\ server_strand'[i] = server_strand[i]
        /\ \A o, r, n : Posted(o, r, n) => Posted(o, r, n)'
    BY <1>0, <1>2, <2>1, PostPosted
  <2> QED  BY <1>2, <2>1, <2>2, QuietSends
<1>3. ASSUME NEW r \in {"accepted", "accept_failed"}, AcceptCompletes(r) PROVE Sends'
  BY <1>0, <1>2, <1>3 DEF AcceptCompletes, NoId, TaskNames, CallNames
<1>4. ASSUME NEW name \in TaskNames \ {"send"}, Run(name),
             UNCHANGED <<calls, called, handed, polled, link, shutting_down>>
      PROVE  Sends'
  BY <1>4, RunSends
<1>5. CASE AcceptFails \/ Accepted \/ EraseTask \/ DisconnectTask \/ ShutdownTask
  BY <1>4, <1>5 DEF AcceptFails, Accepted, EraseTask, DisconnectTask, ShutdownTask,
                    TaskNames, CallNames
<1>6. CASE AcceptCheck \/ AcceptPush \/ AcceptEnter \/ do_accept
  BY <1>1, <1>6 DEF AcceptCheck, AcceptPush, AcceptEnter, do_accept
<1>7. CASE AcceptStart
  <2>1. /\ link' = [link EXCEPT ![Current] = "open"] /\ Current \in Ids
        /\ link[Current] = "new"
        /\ UNCHANGED <<server_strand, calls, called, handed, polled, shutting_down>>
    BY <1>0, <1>7 DEF AcceptStart, Numbering, Handling, Current
  <2>2. \A s \in Ids : link'[s] \in {"new", "open"} => link[s] \in {"new", "open"}
    BY <1>0, <2>1 DEF TypeOK
  <2> QED  BY <1>1, <2>1, <2>2
<1>8. CASE SendTask
  <2> DEFINE h == server_strand[1]
  <2>1. Run("send") /\ UNCHANGED <<calls, called, polled, link, shutting_down, sessions>>
    BY <1>8 DEF SendTask
  <2>2. Head(server_strand) = h  BY <1>0, <2>1, RunTask DEF TaskNames, CallNames
  <2>3. CASE shutting_down
    <3>1. handed' = handed  BY <1>8, <2>3 DEF SendTask
    <3> QED  BY <2>1, <2>3, <3>1, RunSends DEF TaskNames, CallNames
  <2>4. CASE ~shutting_down
    <3>1. handed' = [s \in Ids |-> IF s \in sessions \cap {h.session_id} /\ link[s] = "open"
                                   THEN Append(handed[s], h.call) ELSE handed[s]]
      BY <1>8, <2>2, <2>4 DEF SendTask, HandOver
    <3>2. \A s \in Ids : handed'[s] = handed[s] \/ handed'[s] = Append(handed[s], h.call)
      BY <3>1
    <3>3. \A s \in Ids : h.session_id = s /\ s \in sessions /\ link[s] = "open" =>
            handed'[s] = Append(handed[s], h.call)
      BY <3>1
    <3> QED  BY <2>1, <3>2, <3>3, RunSends DEF TaskNames, CallNames
  <2> QED  BY <2>3, <2>4
<1>9. CASE BroadcastTask
  <2> DEFINE h == server_strand[1]
  <2>1. Run("broadcast") /\ UNCHANGED <<calls, called, polled, link, shutting_down>>
    BY <1>9 DEF BroadcastTask
  <2>2. Head(server_strand) = h  BY <1>0, <2>1, RunTask DEF TaskNames, CallNames
  <2>3. CASE shutting_down
    <3>1. handed' = handed  BY <1>9, <2>3 DEF BroadcastTask
    <3> QED  BY <1>4, <2>1, <3>1 DEF TaskNames, CallNames
  <2>4. CASE ~shutting_down
    <3>1. handed' = [s \in Ids |-> IF s \in sessions /\ link[s] = "open"
                                   THEN Append(handed[s], h.call) ELSE handed[s]]
      BY <1>9, <2>2, <2>4 DEF BroadcastTask, HandOver
    <3>2. \A s \in Ids : handed'[s] = handed[s] \/ handed'[s] = Append(handed[s], h.call)
      BY <3>1
    <3> QED  BY <2>1, <3>2, RunSends DEF TaskNames, CallNames
  <2> QED  BY <2>3, <2>4
<1>10. ASSUME NEW s \in Ids, OnReceive(s) \/ OnClose(s) PROVE Sends'
  <2>1. /\ UNCHANGED <<server_strand, calls, called, handed, polled, shutting_down>>
        /\ \A r \in Ids : link'[r] \in {"new", "open"} => link[r] \in {"new", "open"}
    BY <1>0, <1>10 DEF OnReceive, OnClose, TypeOK
  <2> QED  BY <1>1, <2>1
<1>11. ASSUME NEW s \in Ids, CloseAgain(s) \/ PushData(s) \/ PushDisconnect(s) PROVE Sends'
  BY <1>1, <1>11 DEF CloseAgain, PushData, PushDisconnect
<1>12. ASSUME NEW s \in Ids, PostErase(s) PROVE Sends'
  BY <1>2, <1>12, IdsType DEF PostErase, TaskNames, CallNames
<1>13. ASSUME NEW s \in Ids, send(s) PROVE Sends'
  <2>1. Call("send", s) /\ calls' = calls + 1
        /\ called' = (IF "Connect" \in polled[s]
                      THEN [called EXCEPT ![s] = @ \cup {calls + 1}] ELSE called)
    BY <1>13 DEF send, Call
  <2>2. \A r \in Ids : \/ called'[r] = called[r]
                       \/ /\ r = s /\ "Connect" \in polled[r]
                          /\ called'[r] = called[r] \cup {calls + 1}
    BY <1>0, <2>1 DEF TypeOK
  <2> QED  BY <2>1, <2>2, IdsType, CallSends DEF CallNames
<1>14. ASSUME NEW s \in Ids, disconnect(s) PROVE Sends'
  BY <1>14, IdsType, CallSends DEF disconnect, CallNames
<1>15. CASE broadcast  BY <1>0, <1>15, CallSends DEF broadcast, CallNames, NoId
<1>16. CASE poll_packet
  <2>1. /\ UNCHANGED <<server_strand, calls, called, handed, link, shutting_down>>
        /\ \A s \in Ids : polled[s] \subseteq polled'[s]
    BY <1>0, <1>16 DEF poll_packet, TypeOK
  <2> QED  BY <1>1, <2>1
<1>17. CASE BeginShutdown \/ Stop \/ JoinAndDrain
  BY <1>1, <1>17 DEF BeginShutdown, Stop, JoinAndDrain
<1>18. CASE PostShutdown
  BY <1>0, <1>2, <1>18 DEF PostShutdown, TaskNames, CallNames, NoId
<1>19. CASE UNCHANGED vars  BY <1>1, <1>19 DEF vars
<1>20. CASE Next
  BY <1>3, <1>5, <1>6, <1>7, <1>8, <1>9, <1>10, <1>11, <1>12, <1>13, <1>14, <1>15,
     <1>16, <1>17, <1>18, <1>20
  DEF Next, ServerStrand, AcceptHandler, Callback, Shutdown
<1> QED  BY <1>19, <1>20

LEMMA InitSends == Init => Sends
<1> SUFFICES ASSUME Init PROVE Sends  OBVIOUS
<1>1. CallOrder  BY DEF Init, CallOrder
<1>2. SendsKept /\ SendsReachSession  BY DEF Init, SendsKept, SendsReachSession
<1> QED  BY <1>1, <1>2 DEF Sends

\* What the owner sends to a session whose Connect it has polled is handed to
\* the session while that stays open, once and in the order of the calls, even
\* when the session is not yet started at the time of the call.
THEOREM SendsAlwaysReachSession == Spec => []SendsReachSession
<1>1. Sends => SendsReachSession  BY DEF Sends
<1> QED  BY <1>1, InitBase, StepBase, InitFirst, StepFirst, InitTable, StepTable,
            InitSends, StepSends, PTL DEF Spec

=============================================================================
