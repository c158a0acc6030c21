----------------------------- MODULE ChatProofs -----------------------------
(***************************************************************************)
(* What the users of the chat are shown is what the server's tables say,   *)
(* for every number of sessions, rooms, names, texts and windows.          *)
(*                                                                         *)
(* The handlers (lemma HandleEffect): whatever the event, one of four      *)
(* things happens to where the sessions are and what they are called, each *)
(* with the messages that go with it.                                      *)
(*                                                                         *)
(* Readers (module ChatRoster): whoever reads its stream to the end knows  *)
(* the room it is in and who shares it (RInv).                             *)
(*                                                                         *)
(* Windows (module ChatSystem): a window that has read what is under way   *)
(* shows the room of its session and the members of that room, through     *)
(* reconnections, losses and requests that outlive their connection        *)
(* (SInv).                                                                 *)
(*                                                                         *)
(* What a reader makes of a stream is a recursive function of its prefixes.*)
(* Facts about it are proved by induction on the set of the lengths for    *)
(* which they hold (SetInduction).                                         *)
(***************************************************************************)
EXTENDS ChatRoster, ChatSystem, GameLogicProofs, WellFoundedInduction, SequenceTheorems

-----------------------------------------------------------------------------
(* Induction.                                                              *)

\* A set of numbers with 0 and with the successor of each of its elements is
\* Nat: induction, without a predicate as a parameter.
LEMMA SetInduction ==
  ASSUME NEW S \in SUBSET Nat, 0 \in S, \A n \in S : n + 1 \in S
  PROVE  S = Nat
<1> DEFINE R == OpToRel(<, Nat)
           T == Nat \ S
<1>1. SUFFICES ASSUME T # {} PROVE FALSE
  OBVIOUS
<1>2. IsWellFoundedOn(R, Nat)
  BY NatLessThanWellFounded
<1>3. T \subseteq Nat
  OBVIOUS
<1>4. PICK x \in T : \A y \in T : ~ (<<y, x>> \in R)
  <2> HIDE DEF R, T
  <2> QED
    BY <1>1, <1>2, <1>3, WFMin
<1>5. x \in Nat /\ x # 0
  OBVIOUS
<1>6. x - 1 \in Nat /\ (x - 1) + 1 = x /\ x - 1 < x
  BY <1>5
<1>7. <<x - 1, x>> \in R
  BY <1>5, <1>6 DEF OpToRel
<1>8. x - 1 \notin T
  BY <1>4, <1>7
<1> QED
  BY <1>5, <1>6, <1>8

-----------------------------------------------------------------------------
(* What a reader makes of a stream.                                        *)

\* The recursive function inside Views exists: it is what its definition says.
LEMMA ViewsDefined ==
  ASSUME NEW v, NEW ms, Len(ms) \in Nat
  PROVE  Views(v, ms) = [n \in 0 .. Len(ms) |->
                           IF n = 0 THEN v ELSE Observe(Views(v, ms)[n - 1], ms[n])]
<1> DEFINE Is(f, k) == f = [n \in 0 .. k |-> IF n = 0 THEN v ELSE Observe(f[n - 1], ms[n])]
           S == {k \in Nat : \E f : Is(f, k)}
<1>1. 0 \in S
  <2> DEFINE f == [n \in 0 .. 0 |-> v]
  <2>1. Is(f, 0)
    OBVIOUS
  <2> QED
    BY <2>1
<1>2. ASSUME NEW k \in S PROVE k + 1 \in S
  <2>1. PICK f : Is(f, k)
    BY <1>2
  <2> DEFINE g == [n \in 0 .. k + 1 |->
                     IF n = k + 1 THEN Observe(f[k], ms[k + 1]) ELSE f[n]]
  <2>2. k \in Nat
    OBVIOUS
  <2>3. ASSUME NEW n \in 0 .. k + 1
        PROVE  g[n] = IF n = 0 THEN v ELSE Observe(g[n - 1], ms[n])
    <3>1. CASE n = 0
      BY <2>1, <2>2, <3>1
    <3>2. CASE n = k + 1
      BY <2>1, <2>2, <3>2
    <3>3. CASE n # 0 /\ n # k + 1
      <4>1. n \in 0 .. k /\ n - 1 \in 0 .. k /\ n - 1 # k + 1 /\ n - 1 \in 0 .. k + 1
        BY <2>2, <3>3
      <4>2. g[n] = f[n] /\ g[n - 1] = f[n - 1]
        BY <3>3, <4>1
      <4> QED
        BY <2>1, <3>3, <4>1, <4>2
    <3> QED
      BY <3>1, <3>2, <3>3
  <2>4. Is(g, k + 1)
    BY <2>3
  <2> HIDE DEF g, Is
  <2> QED
    BY <2>2, <2>4
<1>3. Len(ms) \in S
  <2> HIDE DEF S
  <2>1. S \subseteq Nat
    BY DEF S
  <2>2. S = Nat
    BY <1>1, <1>2, <2>1, SetInduction
  <2> QED
    BY <2>2
<1>4. \E f : f = [n \in 0 .. Len(ms) |-> IF n = 0 THEN v ELSE Observe(f[n - 1], ms[n])]
  BY <1>3
<1> HIDE DEF Is, S
<1> QED
  BY <1>4 DEF Views

\* Before the first message, and after each.
LEMMA ViewsFirst ==
  ASSUME NEW v, NEW ms, Len(ms) \in Nat
  PROVE  Views(v, ms)[0] = v
<1> DEFINE f == Views(v, ms)
           N == Len(ms)
<1>1. f = [n \in 0 .. N |-> IF n = 0 THEN v ELSE Observe(f[n - 1], ms[n])]
  BY ViewsDefined
<1>2. N \in Nat
  OBVIOUS
<1> HIDE DEF f, N
<1>3. f[0] = v
  BY <1>1, <1>2
<1> QED
  BY <1>3 DEF f

LEMMA ViewsStep ==
  ASSUME NEW v, NEW ms, Len(ms) \in Nat, NEW n \in 1 .. Len(ms)
  PROVE  Views(v, ms)[n] = Observe(Views(v, ms)[n - 1], ms[n])
<1> DEFINE f == Views(v, ms)
           N == Len(ms)
<1>1. f = [k \in 0 .. N |-> IF k = 0 THEN v ELSE Observe(f[k - 1], ms[k])]
  BY ViewsDefined
<1>2. N \in Nat /\ n \in 1 .. N
  OBVIOUS
<1> HIDE DEF f, N
<1>3. f[n] = Observe(f[n - 1], ms[n])
  BY <1>1, <1>2
<1> QED
  BY <1>3 DEF f

\* After two streams, one behind the other.
ViewsJoin(v, a, b) ==
    /\ \A n \in 0 .. Len(a) : Views(v, a \o b)[n] = Views(v, a)[n]
    /\ \A n \in 0 .. Len(b) :
           Views(v, a \o b)[Len(a) + n] = Views(ObserveAll(v, a), b)[n]

LEMMA ViewsConcat ==
  ASSUME NEW M, NEW v, NEW a \in Seq(M), NEW b \in Seq(M)
  PROVE  ViewsJoin(v, a, b)
<1> DEFINE c == a \o b
           f == Views(v, c)
           g == Views(v, a)
           u == ObserveAll(v, a)
           h == Views(u, b)
           A == Len(a)
           B == Len(b)
<1>1. /\ A \in Nat /\ B \in Nat /\ Len(c) = A + B
      /\ \A i \in 1 .. A : c[i] = a[i]
      /\ \A i \in 1 .. B : c[A + i] = b[i]
  BY LenProperties, ConcatProperties
<1>2. f[0] = v /\ \A n \in 1 .. A + B : f[n] = Observe(f[n - 1], c[n])
  <2> HIDE DEF c
  <2> QED
    BY <1>1, ViewsFirst, ViewsStep
<1>3. g[0] = v /\ \A n \in 1 .. A : g[n] = Observe(g[n - 1], a[n])
  BY <1>1, ViewsFirst, ViewsStep
<1>4. h[0] = u /\ \A n \in 1 .. B : h[n] = Observe(h[n - 1], b[n])
  BY <1>1, ViewsFirst, ViewsStep
<1>5. u = g[A]
  BY DEF ObserveAll
<1> HIDE DEF f, g, u, h, A, B, c
<1>6. \A n \in 0 .. A : f[n] = g[n]
  <2> DEFINE S == {n \in Nat : n <= A => f[n] = g[n]}
  <2>1. 0 \in S
    BY <1>2, <1>3
  <2>2. ASSUME NEW n \in S PROVE n + 1 \in S
    <3>1. n \in Nat
      OBVIOUS
    <3>2. ASSUME n + 1 <= A PROVE f[n + 1] = g[n + 1]
      <4>1. n + 1 \in 1 .. A /\ n + 1 \in 1 .. A + B /\ n <= A /\ (n + 1) - 1 = n
        BY <1>1, <3>1, <3>2
      <4>2. f[n] = g[n]
        BY <4>1
      <4>3. f[n + 1] = Observe(f[n], c[n + 1]) /\ g[n + 1] = Observe(g[n], a[n + 1])
        BY <1>2, <1>3, <4>1
      <4> QED
        BY <1>1, <4>1, <4>2, <4>3
    <3> QED
      BY <3>1, <3>2
  <2> HIDE DEF S
  <2>3. S \subseteq Nat
    BY DEF S
  <2>4. S = Nat
    BY <2>1, <2>2, <2>3, SetInduction
  <2> QED
    BY <1>1, <2>4 DEF S
<1>7. \A n \in 0 .. B : f[A + n] = h[n]
  <2> DEFINE S == {n \in Nat : n <= B => f[A + n] = h[n]}
  <2>1. 0 \in S
    BY <1>1, <1>4, <1>5, <1>6
  <2>2. ASSUME NEW n \in S PROVE n + 1 \in S
    <3>1. n \in Nat
      OBVIOUS
    <3>2. ASSUME n + 1 <= B PROVE f[A + (n + 1)] = h[n + 1]
      <4>1. /\ n + 1 \in 1 .. B /\ A + (n + 1) \in 1 .. A + B /\ n <= B
            /\ (n + 1) - 1 = n /\ (A + (n + 1)) - 1 = A + n
        BY <1>1, <3>1, <3>2
      <4>2. f[A + n] = h[n]
        BY <4>1
      <4>3. f[A + (n + 1)] = Observe(f[A + n], c[A + (n + 1)])
        BY <1>2, <4>1
      <4>4. h[n + 1] = Observe(h[n], b[n + 1])
        BY <1>4, <4>1
      <4> QED
        BY <1>1, <4>1, <4>2, <4>3, <4>4
    <3> QED
      BY <3>1, <3>2
  <2> HIDE DEF S
  <2>3. S \subseteq Nat
    BY DEF S
  <2>4. S = Nat
    BY <2>1, <2>2, <2>3, SetInduction
  <2> QED
    BY <1>1, <2>4 DEF S
<1> QED
  BY <1>6, <1>7 DEF f, g, u, h, A, B, c, ViewsJoin

\* The same for the whole of the streams.
LEMMA ObserveConcat ==
  ASSUME NEW M, NEW v, NEW a \in Seq(M), NEW b \in Seq(M)
  PROVE  ObserveAll(v, a \o b) = ObserveAll(ObserveAll(v, a), b)
<1>1. Len(b) \in Nat /\ Len(b) \in 0 .. Len(b) /\ Len(a \o b) = Len(a) + Len(b)
  BY LenProperties, ConcatProperties
<1>2. ViewsJoin(v, a, b)
  BY ViewsConcat
<1>3. Views(v, a \o b)[Len(a) + Len(b)] = Views(ObserveAll(v, a), b)[Len(b)]
  BY <1>1, <1>2, Zenon DEF ViewsJoin
<1> QED
  BY <1>1, <1>3 DEF ObserveAll

\* No message, one and two.
LEMMA ObserveNone ==
  ASSUME NEW v
  PROVE  ObserveAll(v, <<>>) = v
  BY ViewsFirst DEF ObserveAll

LEMMA ObserveOne ==
  ASSUME NEW v, NEW m
  PROVE  ObserveAll(v, <<m>>) = Observe(v, m)
<1> DEFINE s == <<m>>
<1>1. Len(s) = 1 /\ s[1] = m /\ 1 \in 1 .. 1
  OBVIOUS
<1> HIDE DEF s
<1>2. Views(v, s)[0] = v /\ Views(v, s)[1] = Observe(Views(v, s)[1 - 1], s[1])
  BY <1>1, ViewsFirst, ViewsStep
<1> QED
  BY <1>1, <1>2 DEF ObserveAll, s

LEMMA ObserveTwo ==
  ASSUME NEW v, NEW m, NEW p
  PROVE  ObserveAll(v, <<m, p>>) = Observe(Observe(v, m), p)
<1> DEFINE s == <<m, p>>
<1>1. Len(s) = 2 /\ s[1] = m /\ s[2] = p
  OBVIOUS
<1> HIDE DEF s
<1>2. Len(s) \in Nat /\ 1 \in 1 .. Len(s) /\ 2 \in 1 .. Len(s)
  BY <1>1
<1>3. Views(v, s)[0] = v
  BY <1>2, ViewsFirst
<1>4. Views(v, s)[1] = Observe(Views(v, s)[1 - 1], s[1])
  BY <1>2, ViewsStep
<1>5. Views(v, s)[2] = Observe(Views(v, s)[2 - 1], s[2])
  BY <1>2, ViewsStep
<1> QED
  BY <1>1, <1>3, <1>4, <1>5 DEF ObserveAll, s

-----------------------------------------------------------------------------
(* What a handler does, in terms of places and names.                      *)

\* Places and names: where the sessions are and what they are called.
Places == [SessionIds -> RoomIds \cup {no_room_id, Away}]
Naming == [SessionIds -> Names \cup {EmptyName}]

Info(names, s) == [user_id |-> s, display_name |-> names[s]]

\* The members order lists, introduced one by one.
Roll(q, order, names) ==
    [i \in DOMAIN order |-> UserJoinedEvent(q, Info(names, order[i]))]

\* Messages that tell nothing about who is where.
Silent(m) ==
    \/ m.type \in {"RoomListResponse", "DisconnectResponse", "SystemMessageEvent"}
    \/ m.type \in {"LoginResponse", "JoinRoomResponse", "LeaveRoomResponse"} /\ ~m.success

\* Nobody moves: sid may be answered, and members of a room hear chat texts
\* of that room.
Quiet(at, sid, ms) ==
    \A t \in SessionIds :
        \/ ms[t] = <<>>
        \/ \E m \in Payload :
             /\ ms[t] = <<m>>
             /\ \/ t = sid /\ Silent(m)
                \/ m.type = "ChatBroadcast" /\ m.room_id = at[t] /\ at[t] \in RoomIds

\* What the others hear when sid goes to q.
Heard(at, names, sid, q, t) ==
    IF at[t] \notin RoomIds THEN <<>>
    ELSE IF at[t] = at[sid] THEN <<UserLeftEvent(at[t], Info(names, sid))>>
    ELSE IF at[t] = q THEN <<UserJoinedEvent(q, Info(names, sid))>>
    ELSE <<>>

\* What sid itself is told.
Welcomed(at, names, sid, q, told) ==
    \E id \in RequestIds, room \in RoomInfo, order \in Seq(SessionIds) :
        /\ room.room_id = q
        /\ {order[i] : i \in DOMAIN order} = {t \in SessionIds : at[t] = q}
        /\ told = <<JoinRoomResponse(id, TRUE, "NONE", room), SystemMessageEvent(q)>>
                  \o Roll(q, order, names)

Dismissed(r, told) ==
    \E id \in RequestIds :
        told = <<LeaveRoomResponse(id, TRUE, "NONE"), SystemMessageEvent(r)>>

Going(at, names, sid, q, ms) ==
    /\ at[sid] \notin {Away, q}
    /\ \A t \in SessionIds \ {sid} : ms[t] = Heard(at, names, sid, q, t)
    /\ \/ q \in RoomIds /\ names[sid] # EmptyName /\ Welcomed(at, names, sid, q, ms[sid])
       \/ q = no_room_id /\ Dismissed(at[sid], ms[sid])
       \/ q = Away /\ (ms[sid] = <<>> \/ \E m \in Payload : Silent(m) /\ ms[sid] = <<m>>)

\* The four kinds of effect an event e has that turns the tables rs into new
\* and queues ms.
Stays(rs, new, e, ms) ==
    /\ PlaceOf(new) = PlaceOf(rs)
    /\ NameOf(new) = NameOf(rs)
    /\ Quiet(PlaceOf(rs), e.session_id, ms)

Arrives(rs, new, e, ms) ==
    /\ e.type = "Connected"
    /\ PlaceOf(rs)[e.session_id] = Away
    /\ PlaceOf(new) = [PlaceOf(rs) EXCEPT ![e.session_id] = no_room_id]
    /\ NameOf(new) = NameOf(rs)
    /\ ms = NoMessages

LogsIn(rs, new, e, ms) ==
    /\ e.type = "LoginRequest"
    /\ e.display_name \in Names
    /\ PlaceOf(rs)[e.session_id] # Away
    /\ PlaceOf(new) = PlaceOf(rs)
    /\ NameOf(new) = [NameOf(rs) EXCEPT ![e.session_id] = e.display_name]
    /\ \A u \in SessionIds \ {e.session_id} : NameOf(rs)[u] # e.display_name
    /\ \E id \in RequestIds :
         ms = To(e.session_id, <<LoginResponse(id, TRUE, "NONE",
                                               Info(NameOf(new), e.session_id))>>)

GoesTo(rs, new, e, ms, q) ==
    /\ \/ q \in RoomIds /\ e.type = "JoinRoomRequest"
       \/ q = no_room_id /\ e.type = "LeaveRoomRequest"
       \/ q = Away /\ e.type \in {"Disconnected", "DisconnectRequest"}
    /\ PlaceOf(new) = [PlaceOf(rs) EXCEPT ![e.session_id] = q]
    /\ NameOf(new) = IF q = Away THEN [NameOf(rs) EXCEPT ![e.session_id] = EmptyName]
                     ELSE NameOf(rs)
    /\ Going(PlaceOf(rs), NameOf(rs), e.session_id, q, ms)

Effect(rs, new, e, ms) ==
    \/ Stays(rs, new, e, ms)
    \/ Arrives(rs, new, e, ms)
    \/ LogsIn(rs, new, e, ms)
    \/ \E q \in RoomIds \cup {no_room_id, Away} : GoesTo(rs, new, e, ms, q)

\* Coherent tables say where everybody is and what they are called: a session
\* has a place, a member of a room a name, and no two share one.
LEMMA Presences ==
  ASSUME NEW rs, Coherent(rs)
  PROVE  /\ PlaceOf(rs) \in Places
         /\ NameOf(rs) \in Naming
         /\ \A s \in SessionIds : FindSession(rs, s) <=> PlaceOf(rs)[s] # Away
         /\ \A s \in SessionIds : FindSession(rs, s) => PlaceOf(rs)[s] = rs.sessions[s].room_id
         /\ \A s \in SessionIds : PlaceOf(rs)[s] \in RoomIds =>
                /\ rs.sessions[s].logged_in
                /\ NameOf(rs)[s] = rs.sessions[s].display_name
                /\ NameOf(rs)[s] \in Names
         /\ \A s \in SessionIds : NameOf(rs)[s] # EmptyName =>
                \A t \in SessionIds \ {s} : NameOf(rs)[t] # NameOf(rs)[s]
<1> USE RoomSystemAssumption
<1>1. /\ DOMAIN rs.sessions \subseteq SessionIds
      /\ \A s \in DOMAIN rs.sessions : rs.sessions[s] \in SessionState
      /\ MembersAreNamed(rs) /\ NamesDiffer(rs)
  BY DEF Coherent, IsRoomSystem
<1>2. \A s \in DOMAIN rs.sessions : /\ rs.sessions[s].room_id \in RoomIds \cup {no_room_id}
                                    /\ rs.sessions[s].room_id # Away
                                    /\ rs.sessions[s].display_name \in Names \cup {EmptyName}
                                    /\ rs.sessions[s].logged_in \in BOOLEAN
  BY <1>1 DEF SessionState, Away, no_room_id
<1>3. PlaceOf(rs) \in Places /\ NameOf(rs) \in Naming
  BY <1>2 DEF Places, Naming, PlaceOf, NameOf, FindSession
<1>4. \A s \in SessionIds : FindSession(rs, s) <=> PlaceOf(rs)[s] # Away
  BY <1>2 DEF PlaceOf, FindSession
<1>5. \A s \in SessionIds : FindSession(rs, s) => PlaceOf(rs)[s] = rs.sessions[s].room_id
  BY DEF PlaceOf
<1>6. ASSUME NEW s \in SessionIds, PlaceOf(rs)[s] \in RoomIds
      PROVE  /\ rs.sessions[s].logged_in
             /\ NameOf(rs)[s] = rs.sessions[s].display_name
             /\ NameOf(rs)[s] \in Names
  <2>1. Away \notin RoomIds /\ no_room_id \notin RoomIds
    BY DEF Away, no_room_id
  <2>2. s \in DOMAIN rs.sessions /\ rs.sessions[s].room_id \in RoomIds
    BY <1>4, <1>5, <1>6, <2>1 DEF FindSession
  <2>3. rs.sessions[s].logged_in
    BY <1>1, <2>1, <2>2 DEF MembersAreNamed
  <2>4. rs.sessions[s].display_name \in Names
    BY <1>1, <2>2, <2>3 DEF MembersAreNamed
  <2> QED
    BY <2>2, <2>3, <2>4 DEF NameOf, FindSession
<1>7. ASSUME NEW s \in SessionIds, NameOf(rs)[s] # EmptyName,
             NEW t \in SessionIds \ {s}
      PROVE  NameOf(rs)[t] # NameOf(rs)[s]
  <2>1. /\ s \in DOMAIN rs.sessions /\ rs.sessions[s].logged_in
        /\ NameOf(rs)[s] = rs.sessions[s].display_name
    BY <1>7 DEF NameOf, FindSession
  <2>2. CASE t \in DOMAIN rs.sessions /\ rs.sessions[t].logged_in
    <3>1. NameOf(rs)[t] = rs.sessions[t].display_name
      BY <2>2 DEF NameOf, FindSession
    <3> QED
      BY <1>1, <1>7, <2>1, <2>2, <3>1 DEF NamesDiffer
  <2>3. CASE ~(t \in DOMAIN rs.sessions /\ rs.sessions[t].logged_in)
    <3>1. NameOf(rs)[t] = EmptyName
      BY <2>3 DEF NameOf, FindSession
    <3> QED
      BY <1>7, <3>1
  <2> QED
    BY <2>2, <2>3
<1> QED
  BY <1>3, <1>4, <1>5, <1>6, <1>7

\* What NotifyRoomLeave queues: the other members of the room hear of it.
LEMMA NotifyHeard ==
  ASSUME NEW rs, Coherent(rs), NEW sid \in SessionIds, FindSession(rs, sid),
         NEW t \in SessionIds
  PROVE  LET at == PlaceOf(rs)
         IN  NotifyRoomLeave(rs, sid)[t] =
               IF t # sid /\ at[t] \in RoomIds /\ at[t] = at[sid]
               THEN <<UserLeftEvent(at[sid], Info(NameOf(rs), sid))>> ELSE <<>>
<1> DEFINE at == PlaceOf(rs)
           rid == rs.sessions[sid].room_id
           left == UserLeftEvent(at[sid], Info(NameOf(rs), sid))
<1>1. at \in Places /\ at[sid] = rid /\ rid \in RoomIds \cup {no_room_id}
  BY Presences DEF Coherent, IsRoomSystem, SessionState, FindSession
<1>2. CASE rid = no_room_id
  <2>1. NotifyRoomLeave(rs, sid) = NoMessages
    BY <1>2 DEF NotifyRoomLeave
  <2>2. at[sid] \notin RoomIds
    BY <1>1, <1>2, RoomSystemAssumption DEF no_room_id
  <2> QED
    BY <2>1, <2>2 DEF NoMessages
<1>3. CASE rid \in RoomIds
  <2>1. /\ rs.sessions[sid].logged_in
        /\ BuildUserInfo(rs, sid) = Info(NameOf(rs), sid)
    BY <1>1, <1>3, Presences DEF BuildUserInfo, Info
  <2>2. rid # no_room_id
    BY <1>3, RoomSystemAssumption DEF no_room_id
  <2>3. NotifyRoomLeave(rs, sid) = ToAll(GetRoomMembers(rs, rid, {sid}), left)
    BY <1>1, <2>1, <2>2 DEF NotifyRoomLeave
  <2>4. t \in GetRoomMembers(rs, rid, {sid}) <=> t # sid /\ at[t] = rid
    <3>1. FindRoom(rs, rid) /\ rs.rooms[rid] \subseteq SessionIds
      BY <1>3 DEF Coherent, IsRoomSystem, FindRoom
    <3>2. t \in rs.rooms[rid] <=> FindSession(rs, t) /\ rs.sessions[t].room_id = rid
      BY <1>3 DEF Coherent, MembershipAgrees
    <3>3. t \in rs.rooms[rid] <=> at[t] = rid
      <4>1. rid # Away
        BY <1>3, RoomSystemAssumption DEF Away
      <4> QED
        BY <3>2, <4>1, Presences
    <3> QED
      BY <3>1, <3>2, <3>3 DEF GetRoomMembers
  <2> HIDE DEF left
  <2>5. NotifyRoomLeave(rs, sid)[t] = IF t # sid /\ at[t] = rid THEN <<left>> ELSE <<>>
    BY <2>3, <2>4 DEF ToAll
  <2> QED
    BY <1>1, <1>3, <2>5 DEF left
<1> QED
  BY <1>1, <1>2, <1>3

\* An answer to sid that tells nothing.
LEMMA AnswerQuiet ==
  ASSUME NEW at, NEW sid, NEW m \in Payload, Silent(m)
  PROVE  Quiet(at, sid, To(sid, <<m>>))
  BY DEF Quiet, To

\* Queueing nothing changes nothing.
LEMMA QueueNothing ==
  ASSUME outgoing_messages \in Streams
  PROVE  /\ UNCHANGED outgoing_messages <=> Queue(NoMessages)
         /\ \A at, sid : Quiet(at, sid, NoMessages)
<1> HIDE DEF Payload
<1>1. Then(outgoing_messages, NoMessages) = outgoing_messages
  <2>1. \A t \in SessionIds : outgoing_messages[t] \o <<>> = outgoing_messages[t]
    BY DEF Streams
  <2> QED
    BY <2>1 DEF Then, NoMessages, Streams
<1>2. \A at, sid : Quiet(at, sid, NoMessages)
  BY DEF Quiet, NoMessages
<1> QED
  BY <1>1, <1>2 DEF Queue

\* Nothing happens to the tables, and sid is told nothing about places.
LEMMA StaysEffect ==
  ASSUME IInv, NEW e, UNCHANGED room_system,
         NEW ms \in Streams, Queue(ms), Quiet(PlaceOf(room_system), e.session_id, ms)
  PROVE  \E d \in Streams : Queue(d) /\ Effect(room_system, room_system', e, d)
  BY DEF Effect, Stays

LEMMA UnchangedEffect ==
  ASSUME IInv, NEW e, UNCHANGED logicVars
  PROVE  \E d \in Streams : Queue(d) /\ Effect(room_system, room_system', e, d)
<1>1. outgoing_messages \in Streams /\ NoMessages \in Streams
  BY StreamOperators DEF IInv, Streams
<1>2. Queue(NoMessages) /\ Quiet(PlaceOf(room_system), e.session_id, NoMessages)
  BY <1>1, QueueNothing DEF logicVars
<1> QED
  BY <1>1, <1>2, StaysEffect DEF logicVars

LEMMA AnswerEffect ==
  ASSUME IInv, NEW e, UNCHANGED room_system,
         NEW m \in Payload, Silent(m), Queue(To(e.session_id, <<m>>))
  PROVE  \E d \in Streams : Queue(d) /\ Effect(room_system, room_system', e, d)
<1>1. To(e.session_id, <<m>>) \in Streams
  BY StreamOperators
<1>2. Quiet(PlaceOf(room_system), e.session_id, To(e.session_id, <<m>>))
  BY AnswerQuiet
<1> QED
  BY <1>1, <1>2, StaysEffect

\* A sequence that lists a finite set without repetition lists all of it.
LEMMA OrderCovers ==
  ASSUME NEW S, IsFiniteSet(S), NEW order \in SetToSeqs(S)
  PROVE  /\ order \in Seq(S)
         /\ {order[i] : i \in DOMAIN order} = S
<1> DEFINE N == Cardinality(S)
           D == 1 .. N
<1>1. N \in Nat
  BY FS_CardinalityType
<1>2. order \in [D -> S] /\ \A i, j \in D : i # j => order[i] # order[j]
  BY DEF SetToSeqs
<1>3. order \in Seq(S)
  BY <1>1, <1>2
<1>4. ASSUME NEW x \in S, \A i \in D : order[i] # x PROVE FALSE
  <2> DEFINE T == S \ {x}
  <2>1. IsFiniteSet(T) /\ Cardinality(T) = N - 1
    BY FS_RemoveElement
  <2>2. IsFiniteSet(D) /\ Cardinality(D) = N
    <3>1. IsFiniteSet(D) /\ Cardinality(D) = IF 1 > N THEN 0 ELSE N - 1 + 1
      BY <1>1, FS_Interval
    <3> QED
      BY <1>1, <3>1
  <2>3. order \in [D -> T]
    BY <1>2, <1>4
  <2>4. Cardinality(T) < Cardinality(D)
    BY <1>1, <2>1, <2>2
  <2> HIDE DEF T, D
  <2>5. \E i, j \in D : i # j /\ order[i] = order[j]
    BY <2>1, <2>2, <2>3, <2>4, FS_PigeonHole
  <2> QED
    BY <1>2, <2>5
<1>5. DOMAIN order = D
  BY <1>2
<1> HIDE DEF D, N
<1>6. {order[i] : i \in D} = S
  BY <1>2, <1>4
<1> QED
  BY <1>3, <1>5, <1>6

\* EnterRoom: the old room hears that sid left, the new one that it joined, and
\* sid is introduced to everyone who is there.
LEMMA EnterRoomEffect ==
  ASSUME IInv, NEW e, e.type = "JoinRoomRequest",
         e.session_id \in SessionIds, e.request_id \in RequestIds,
         FindSession(room_system, e.session_id),
         room_system.sessions[e.session_id].logged_in,
         e.room_id \in RoomIds,
         room_system.sessions[e.session_id].room_id # e.room_id,
         EnterRoom(e)
  PROVE  \E d \in Streams : Queue(d) /\ Effect(room_system, room_system', e, d)
<1> DEFINE sid      == e.session_id
           q        == e.room_id
           rs       == room_system
           at       == PlaceOf(rs)
           names    == NameOf(rs)
           left     == RemoveSessionFromCurrentRoom(rs, sid)
           existing == {t \in GetRoomMembers(left, q, {}) :
                           left.sessions[t].logged_in}
           moved    == MoveSessionToRoom(left, sid, q)
           room     == BuildRoomInfo(moved, q)
           response == JoinRoomResponse(e.request_id, TRUE, "NONE", room)
           welcome  == SystemMessageEvent(q)
           joined(r, t) == UserJoinedEvent(q, BuildUserInfo(r, t))
           roll(order) == [i \in DOMAIN order |-> joined(left, order[i])]
<1> USE RoomSystemAssumption
<1>1. Coherent(rs) /\ Coherent(left) /\ LeftRoom(rs, left, sid)
  BY RemoveFromRoomCoherent, RemoveFromRoomEffect DEF IInv
<1>2. /\ DOMAIN left.sessions = DOMAIN rs.sessions
      /\ left.sessions[sid].room_id = no_room_id
      /\ left.sessions[sid].logged_in
      /\ left.sessions[sid].display_name = rs.sessions[sid].display_name
      /\ sid \in DOMAIN left.sessions
      /\ \A s \in DOMAIN rs.sessions \ {sid} : left.sessions[s] = rs.sessions[s]
  BY <1>1 DEF LeftRoom, FindSession
<1>3. /\ Coherent(moved) /\ DOMAIN moved.sessions = DOMAIN left.sessions
      /\ moved.sessions[sid].display_name = rs.sessions[sid].display_name
  <2>1. FindSession(left, sid) /\ left.sessions[sid].logged_in
        /\ left.sessions[sid].room_id = no_room_id
        /\ sid \in SessionIds /\ q \in RoomIds
    BY <1>2 DEF FindSession
  <2> HIDE DEF left, sid, q
  <2>2. /\ Coherent(moved) /\ DOMAIN moved.sessions = DOMAIN left.sessions
        /\ moved.sessions[sid].display_name = left.sessions[sid].display_name
    BY ONLY <1>1, <2>1, MoveCoherent
  <2> QED
    BY <1>2, <2>2
<1>4. PlaceOf(moved) = [at EXCEPT ![sid] = q] /\ NameOf(moved) = names
  BY <1>1, EnterRoomPresence
<1>5. at \in Places /\ names \in Naming /\ at[sid] \notin {Away, q} /\ names[sid] # EmptyName
  <2>1. at[sid] = rs.sessions[sid].room_id /\ at[sid] # Away
    BY <1>1, Presences
  <2>2. names[sid] \in Names
    BY <1>1 DEF NameOf, Coherent, MembersAreNamed, FindSession
  <2> QED
    BY <1>1, <2>1, <2>2, Presences
<1>6. existing = {t \in SessionIds : at[t] = q}
  <2>1. GetRoomMembers(left, q, {}) =
          {u \in SessionIds : FindSession(left, u) /\ left.sessions[u].room_id = q}
    <3>1. Coherent(left) /\ q \in RoomIds
      BY <1>1
    <3> HIDE DEF left, q
    <3> QED
      BY ONLY <3>1, Members
  <2>2. q # no_room_id /\ q # Away
    BY DEF no_room_id, Away
  <2>3. ASSUME NEW t \in SessionIds
        PROVE  at[t] = q <=> FindSession(left, t) /\ left.sessions[t].room_id = q
    BY <1>2, <1>5, <2>2 DEF PlaceOf, FindSession
  <2>4. ASSUME NEW t \in SessionIds, at[t] = q PROVE left.sessions[t].logged_in
    <3>1. t # sid /\ t \in DOMAIN rs.sessions /\ rs.sessions[t].logged_in
      BY <1>1, <1>5, <2>2, <2>4, Presences DEF FindSession
    <3> QED
      BY <1>2, <3>1
  <2> QED
    BY <2>1, <2>3, <2>4
<1>7. ASSUME NEW t \in existing PROVE BuildUserInfo(left, t) = Info(names, t)
  <2>1. t \in SessionIds /\ at[t] \in RoomIds /\ t # sid
    BY <1>5, <1>6
  <2>2. t \in DOMAIN rs.sessions /\ names[t] = rs.sessions[t].display_name
    <3>1. at[t] # Away
      BY <2>1 DEF Away
    <3> QED
      BY <1>1, <2>1, <3>1, Presences DEF FindSession
  <2> QED
    BY <1>2, <2>1, <2>2 DEF BuildUserInfo, Info
<1>8. BuildUserInfo(moved, sid) = Info(names, sid)
  <2>1. names[sid] = rs.sessions[sid].display_name
    BY DEF NameOf
  <2> QED
    BY <1>3, <2>1 DEF BuildUserInfo, Info
<1>9. IsFiniteSet(existing) /\ existing \subseteq SessionIds
  <2>1. existing \in SUBSET SessionIds
    BY <1>6
  <2> HIDE DEF existing
  <2> QED
    BY <2>1, FS_Subset
<1>10. PICK order \in SetToSeqs(existing) :
         Queue(Then(NotifyRoomLeave(rs, sid),
               Then(To(sid, <<response, welcome>> \o roll(order)),
                    ToAll(existing, joined(moved, sid)))))
  BY DEF EnterRoom
<1>11. room_system' = moved
  BY DEF EnterRoom
<1>12. /\ order \in Seq(existing) /\ order \in Seq(SessionIds)
       /\ {order[i] : i \in DOMAIN order} = {t \in SessionIds : at[t] = q}
  <2> HIDE DEF existing
  <2>1. order \in Seq(existing) /\ {order[i] : i \in DOMAIN order} = existing
    BY <1>9, OrderCovers
  <2> QED
    BY <1>6, <1>9, <2>1
<1>13. roll(order) = Roll(q, order, names)
  <2>1. \A i \in DOMAIN order : order[i] \in existing
    BY <1>12
  <2> QED
    BY <1>7, <2>1 DEF Roll
<1>14. room \in RoomInfo /\ room.room_id = q
  BY <1>3, InfoTypes DEF BuildRoomInfo
<1> DEFINE told == <<response, welcome>> \o Roll(q, order, names)
           seen == UserJoinedEvent(q, Info(names, sid))
           parting == NotifyRoomLeave(rs, sid)
           d == Then(parting, Then(To(sid, told), ToAll(existing, seen)))
<1>15. Queue(d)
  BY <1>8, <1>10, <1>13
<1>16. d \in Streams
  <2>1. response \in Payload /\ welcome \in Payload
    BY <1>14, PayloadTypes, SystemMessageType DEF ErrorCode
  <2>2. \A t \in existing : joined(left, t) \in Payload
    BY <1>1, <1>2, <1>6, InfoTypes, EventPayloadTypes DEF GetRoomMembers, FindSession
  <2>3. roll(order) \in Seq(Payload)
    <3> HIDE DEF existing, joined
    <3>1. PICK n \in Nat : order \in [1 .. n -> existing]
      BY <1>12
    <3>2. roll(order) \in [1 .. n -> Payload]
      BY <2>2, <3>1
    <3> QED
      BY <3>2
  <2>4. seen \in Payload
    <3>1. BuildUserInfo(moved, sid) \in UserInfo
      BY <1>2, <1>3, InfoTypes
    <3> QED
      BY <1>8, <3>1, EventPayloadTypes
  <2>5. told \in Seq(Payload)
    <3> DEFINE tail == Roll(q, order, names)
    <3>1. tail \in Seq(Payload)
      BY <1>13, <2>3
    <3> HIDE DEF tail, response, welcome, Payload
    <3>2. <<response, welcome>> \in Seq(Payload)
      BY <2>1
    <3>3. <<response, welcome>> \o tail \in Seq(Payload)
      BY <3>1, <3>2
    <3> QED
      BY <3>3 DEF tail
  <2>6. parting \in Streams
    BY <1>1, NotifyType DEF FindSession
  <2> HIDE DEF told, seen, parting, existing
  <2> QED
    BY <2>4, <2>5, <2>6, StreamOperators
<1>17. d[sid] = told
  <2>1. parting[sid] = <<>>
    BY <1>1, NotifyHeard
  <2>2. sid \notin existing
    BY <1>5, <1>6
  <2>3. told \in Seq(Payload)
    <3>1. d[sid] = parting[sid] \o (told \o <<>>)
      BY <2>2 DEF Then, To, ToAll
    <3> HIDE DEF told, d, Payload
    <3> QED
      BY <1>16, <2>1, <3>1 DEF Streams
  <2> HIDE DEF told, parting, existing, seen, Payload
  <2>4. d[sid] = <<>> \o (told \o <<>>)
    BY <2>1, <2>2 DEF Then, To, ToAll
  <2> QED
    BY <2>3, <2>4
<1>18. ASSUME NEW t \in SessionIds \ {sid}
       PROVE  d[t] = Heard(at, names, sid, q, t)
  <2> DEFINE gone == UserLeftEvent(at[sid], Info(names, sid))
  <2>1. parting[t] = IF at[t] \in RoomIds /\ at[t] = at[sid] THEN <<gone>> ELSE <<>>
    BY <1>1, NotifyHeard
  <2>2. t \in existing <=> at[t] = q
    BY <1>6
  <2> HIDE DEF told, parting, existing, seen, gone
  <2>3. d[t] = parting[t] \o (<<>> \o (IF at[t] = q THEN <<seen>> ELSE <<>>))
    BY <2>2 DEF Then, To, ToAll
  <2>4. CASE at[t] \in RoomIds /\ at[t] = at[sid]
    <3>1. at[t] # q
      BY <1>5, <2>4
    <3>2. d[t] = <<gone>> \o (<<>> \o <<>>)
      BY <2>1, <2>3, <2>4, <3>1
    <3>3. d[t] = <<gone>>
      BY <3>2
    <3> QED
      BY <2>4, <3>3 DEF Heard, gone
  <2>5. CASE ~(at[t] \in RoomIds /\ at[t] = at[sid]) /\ at[t] = q
    <3>1. d[t] = <<>> \o (<<>> \o <<seen>>)
      BY <2>1, <2>3, <2>5
    <3>2. d[t] = <<seen>>
      BY <3>1
    <3> QED
      BY <2>5, <3>2 DEF Heard, seen
  <2>6. CASE ~(at[t] \in RoomIds /\ at[t] = at[sid]) /\ at[t] # q
    <3>1. d[t] = <<>> \o (<<>> \o <<>>)
      BY <2>1, <2>3, <2>6
    <3> QED
      BY <2>6, <3>1 DEF Heard
  <2> QED
    BY <2>4, <2>5, <2>6
<1>19. Welcomed(at, names, sid, q, d[sid])
  <2> HIDE DEF d, room
  <2> QED
    BY <1>12, <1>14, <1>17 DEF Welcomed
<1> HIDE DEF d, moved
<1>20. Going(at, names, sid, q, d)
  BY <1>5, <1>18, <1>19 DEF Going
<1>21. GoesTo(rs, moved, e, d, q)
  <2>1. q # Away
    BY DEF Away
  <2> QED
    BY <1>4, <1>20, <2>1 DEF GoesTo
<1> QED
  BY <1>11, <1>15, <1>16, <1>21 DEF Effect

\* A session that is given up: its room hears of it, and it may be answered.
LEMMA DepartureEffect ==
  ASSUME IInv, NEW e, e.type \in {"Disconnected", "DisconnectRequest"},
         e.session_id \in SessionIds, FindSession(room_system, e.session_id),
         room_system' = RemoveSession(room_system, e.session_id),
         NEW told \in Seq(Payload),
         told = <<>> \/ \E m \in Payload : Silent(m) /\ told = <<m>>,
         Queue(Then(To(e.session_id, told), NotifyRoomLeave(room_system, e.session_id)))
  PROVE  \E d \in Streams : Queue(d) /\ Effect(room_system, room_system', e, d)
<1> DEFINE sid == e.session_id
           rs == room_system
           at == PlaceOf(rs)
           names == NameOf(rs)
           parting == NotifyRoomLeave(rs, sid)
           d == Then(To(sid, told), parting)
<1> HIDE DEF Payload
<1>1. Coherent(rs)
  BY DEF IInv
<1>2. at \in Places /\ at[sid] # Away
  BY <1>1, Presences
<1>3. d \in Streams
  <2>1. parting \in Streams
    BY <1>1, NotifyType DEF FindSession
  <2>2. To(sid, told) \in Streams
    BY StreamOperators
  <2> HIDE DEF parting
  <2> QED
    BY <2>1, <2>2, StreamOperators
<1>4. ASSUME NEW t \in SessionIds \ {sid}
      PROVE  d[t] = Heard(at, names, sid, Away, t)
  <2> DEFINE gone == UserLeftEvent(at[sid], Info(names, sid))
  <2>1. parting[t] = IF at[t] \in RoomIds /\ at[t] = at[sid] THEN <<gone>> ELSE <<>>
    BY <1>1, NotifyHeard
  <2>2. Away \notin RoomIds
    BY RoomSystemAssumption DEF Away
  <2> HIDE DEF parting, gone
  <2>3. d[t] = <<>> \o parting[t]
    BY DEF Then, To
  <2>4. CASE at[t] \in RoomIds /\ at[t] = at[sid]
    <3>1. d[t] = <<>> \o <<gone>>
      BY <2>1, <2>3, <2>4
    <3>2. d[t] = <<gone>>
      BY <3>1
    <3> QED
      BY <2>4, <3>2 DEF Heard, gone
  <2>5. CASE ~(at[t] \in RoomIds /\ at[t] = at[sid])
    <3>1. d[t] = <<>> \o <<>>
      BY <2>1, <2>3, <2>5
    <3> QED
      BY <2>2, <2>5, <3>1 DEF Heard
  <2> QED
    BY <2>4, <2>5
<1>5. PlaceOf(room_system') = [at EXCEPT ![sid] = Away]
      /\ NameOf(room_system') = [names EXCEPT ![sid] = EmptyName]
  BY <1>1, RemoveSessionPresence
<1>6. Queue(d)
  OBVIOUS
<1>7. d[sid] = told
  <2>1. parting[sid] = <<>>
    BY <1>1, NotifyHeard
  <2> HIDE DEF parting
  <2>2. d[sid] = told \o <<>>
    BY <2>1 DEF Then, To
  <2> QED
    BY <2>2
<1> HIDE DEF d
<1>8. Going(at, names, sid, Away, d)
  BY <1>2, <1>4, <1>7 DEF Going
<1>9. GoesTo(rs, room_system', e, d, Away)
  BY <1>5, <1>8 DEF GoesTo
<1> QED
  BY <1>3, <1>6, <1>9 DEF Effect

\* A session that is not there cannot be given up.
LEMMA RemoveNobody ==
  ASSUME NEW rs, Coherent(rs), NEW sid \in SessionIds, ~FindSession(rs, sid)
  PROVE  /\ PlaceOf(RemoveSession(rs, sid)) = PlaceOf(rs)
         /\ NameOf(RemoveSession(rs, sid)) = NameOf(rs)
<1>1. /\ PlaceOf(RemoveSession(rs, sid)) = [PlaceOf(rs) EXCEPT ![sid] = Away]
      /\ NameOf(RemoveSession(rs, sid)) = [NameOf(rs) EXCEPT ![sid] = EmptyName]
  BY RemoveSessionPresence
<1>2. PlaceOf(rs)[sid] = Away /\ NameOf(rs)[sid] = EmptyName
  BY DEF PlaceOf, NameOf
<1>3. PlaceOf(rs) \in Places /\ NameOf(rs) \in Naming
  BY Presences
<1> QED
  BY <1>1, <1>2, <1>3 DEF Places, Naming

\* HandleSessionDisconnected.
LEMMA DisconnectedEffect ==
  ASSUME IInv, NEW e, e.type = "Disconnected", e.session_id \in SessionIds,
         HandleSessionDisconnected(e)
  PROVE  \E d \in Streams : Queue(d) /\ Effect(room_system, room_system', e, d)
<1> DEFINE sid == e.session_id
           parting == NotifyRoomLeave(room_system, sid)
<1>1. Coherent(room_system) /\ outgoing_messages \in Streams /\ NoMessages \in Streams
  BY StreamOperators DEF IInv, Streams
<1>2. room_system' = RemoveSession(room_system, sid)
  BY DEF HandleSessionDisconnected
<1>3. CASE FindSession(room_system, sid)
  <2>1. Queue(parting)
    BY <1>3 DEF HandleSessionDisconnected
  <2>2. parting \in Streams
    BY <1>1, <1>3, NotifyType DEF FindSession
  <2>3. Then(To(sid, <<>>), parting) = parting
    <3> HIDE DEF parting, Payload
    <3>1. \A t \in SessionIds : <<>> \o parting[t] = parting[t]
      BY <2>2 DEF Streams
    <3> QED
      BY <2>2, <3>1 DEF Then, To, Streams
  <2> DEFINE told == <<>>
  <2>4. /\ told \in Seq(Payload) /\ e.type \in {"Disconnected", "DisconnectRequest"}
        /\ Queue(Then(To(sid, told), parting))
        /\ (told = <<>> \/ \E m \in Payload : Silent(m) /\ told = <<m>>)
    BY <2>1, <2>3
  <2> HIDE DEF told
  <2> QED
    BY ONLY IInv, e.session_id \in SessionIds, <1>2, <1>3, <2>4, DepartureEffect
<1>4. CASE ~FindSession(room_system, sid)
  <2>1. Queue(NoMessages) /\ Quiet(PlaceOf(room_system), sid, NoMessages)
    BY <1>1, <1>4, QueueNothing DEF HandleSessionDisconnected
  <2>2. Stays(room_system, room_system', e, NoMessages)
    BY <1>1, <1>2, <1>4, <2>1, RemoveNobody DEF Stays
  <2> QED
    BY <1>1, <2>1, <2>2 DEF Effect
<1> QED
  BY <1>3, <1>4

\* HandleDisconnectRequest.
LEMMA DisconnectRequestEffect ==
  ASSUME IInv, NEW e, e.type = "DisconnectRequest", e.session_id \in SessionIds,
         e.request_id \in RequestIds, HandleDisconnectRequest(e)
  PROVE  \E d \in Streams : Queue(d) /\ Effect(room_system, room_system', e, d)
<1> DEFINE sid == e.session_id
           m == DisconnectResponse(e.request_id)
           parting == NotifyRoomLeave(room_system, sid)
<1>1. Coherent(room_system)
  BY DEF IInv
<1>2. room_system' = RemoveSession(room_system, sid)
  BY DEF HandleDisconnectRequest
<1>3. m \in Payload /\ m.type = "DisconnectResponse"
  <2>1. m \in Payload
    BY PayloadTypes DEF ErrorCode
  <2> QED
    BY <2>1 DEF DisconnectResponse
<1>4. IF FindSession(room_system, sid) THEN Queue(Then(To(sid, <<m>>), parting))
                                       ELSE Queue(To(sid, <<m>>))
  BY DEF HandleDisconnectRequest
<1> HIDE DEF m
<1>5. CASE FindSession(room_system, sid)
  <2> DEFINE told == <<m>>
  <2>1. told \in Seq(Payload)
    <3> HIDE DEF Payload
    <3> QED
      BY <1>3
  <2>2. /\ e.type \in {"Disconnected", "DisconnectRequest"}
        /\ Queue(Then(To(sid, told), parting))
    BY <1>4, <1>5
  <2>3. told = <<>> \/ \E p \in Payload : Silent(p) /\ told = <<p>>
    BY <1>3 DEF Silent
  <2> HIDE DEF told
  <2> QED
    BY ONLY IInv, e.session_id \in SessionIds, <1>2, <1>5, <2>1, <2>2, <2>3, DepartureEffect
<1>6. CASE ~FindSession(room_system, sid)
  <2>1. To(sid, <<m>>) \in Streams
    BY <1>3, StreamOperators
  <2>2. Quiet(PlaceOf(room_system), sid, To(sid, <<m>>))
    BY <1>3, AnswerQuiet DEF Silent
  <2>3. Stays(room_system, room_system', e, To(sid, <<m>>))
    BY <1>1, <1>2, <1>6, <2>2, RemoveNobody DEF Stays
  <2> QED
    BY <1>4, <1>6, <2>1, <2>3 DEF Effect
<1> QED
  BY <1>5, <1>6

\* HandleLeaveRoomRequest.
LEMMA LeaveEffect ==
  ASSUME IInv, NEW e, e.type = "LeaveRoomRequest", e.session_id \in SessionIds,
         e.request_id \in RequestIds, HandleLeaveRoomRequest(e)
  PROVE  \E d \in Streams : Queue(d) /\ Effect(room_system, room_system', e, d)
<1> DEFINE sid == e.session_id
           rs == room_system
           at == PlaceOf(rs)
           names == NameOf(rs)
           rid == rs.sessions[sid].room_id
           parting == NotifyRoomLeave(rs, sid)
           refusal == LeaveRoomResponse(e.request_id, FALSE, "NOT_IN_ROOM")
           answer == LeaveRoomResponse(e.request_id, TRUE, "NONE")
           notice == SystemMessageEvent(rid)
           d == Then(parting, To(sid, <<answer, notice>>))
<1>1. Coherent(rs)
  BY DEF IInv
<1>2. refusal \in Payload /\ answer \in Payload
  BY PayloadTypes DEF ErrorCode
<1>3. CASE UNCHANGED logicVars
  BY <1>3, UnchangedEffect
<1>4. CASE Queue(To(sid, <<refusal>>)) /\ UNCHANGED room_system
  <2>1. Silent(refusal)
    BY DEF Silent, LeaveRoomResponse
  <2> HIDE DEF refusal
  <2> QED
    BY <1>2, <1>4, <2>1, AnswerEffect
<1>5. CASE /\ FindSession(rs, sid) /\ rid # no_room_id
           /\ Queue(d)
           /\ room_system' = RemoveSessionFromCurrentRoom(rs, sid)
  <2>1. at \in Places /\ names \in Naming /\ at[sid] = rid /\ at[sid] # Away
    BY <1>1, <1>5, Presences
  <2>2. rid \in RoomIds \cup {no_room_id}
    BY <1>1, <1>5 DEF Coherent, IsRoomSystem, SessionState, FindSession
  <2>3. notice \in Payload
    BY <2>2, SystemMessageType
  <2>4. parting \in Streams
    BY <1>1, <1>5, NotifyType DEF FindSession
  <2>5. <<answer, notice>> \in Seq(Payload)
    <3> HIDE DEF answer, notice, Payload
    <3> QED
      BY <1>2, <2>3
  <2>6. d \in Streams
    <3> HIDE DEF parting, answer, notice
    <3> QED
      BY <2>4, <2>5, StreamOperators
  <2>7. d[sid] = <<answer, notice>>
    <3>1. parting[sid] = <<>>
      BY <1>1, <1>5, NotifyHeard
    <3> HIDE DEF parting, answer, notice
    <3>2. d[sid] = <<>> \o <<answer, notice>>
      BY <3>1 DEF Then, To
    <3> QED
      BY <3>2
  <2>8. no_room_id # Away /\ no_room_id \notin RoomIds
    BY RoomSystemAssumption DEF no_room_id, Away
  <2>9. ASSUME NEW t \in SessionIds \ {sid}
        PROVE  d[t] = Heard(at, names, sid, no_room_id, t)
    <3> DEFINE gone == UserLeftEvent(at[sid], Info(names, sid))
    <3>1. parting[t] = IF at[t] \in RoomIds /\ at[t] = at[sid] THEN <<gone>> ELSE <<>>
      BY <1>1, <1>5, NotifyHeard
    <3> HIDE DEF parting, gone
    <3>2. d[t] = parting[t] \o <<>>
      BY DEF Then, To
    <3>3. CASE at[t] \in RoomIds /\ at[t] = at[sid]
      <4>1. d[t] = <<gone>> \o <<>>
        BY <3>1, <3>2, <3>3
      <4>2. <<gone>> \o <<>> = <<gone>>
        OBVIOUS
      <4> QED
        BY <3>3, <4>1, <4>2 DEF Heard, gone
    <3>4. CASE ~(at[t] \in RoomIds /\ at[t] = at[sid])
      <4>1. d[t] = <<>> \o <<>>
        BY <3>1, <3>2, <3>4
      <4> QED
        BY <2>8, <3>4, <4>1 DEF Heard
    <3> QED
      BY <3>3, <3>4
  <2>10. /\ PlaceOf(room_system') = [at EXCEPT ![sid] = no_room_id]
         /\ NameOf(room_system') = names
    BY <1>1, <1>5, LeaveRoomPresence
  <2>11. Dismissed(at[sid], d[sid])
    BY <2>1, <2>7 DEF Dismissed
  <2> HIDE DEF d
  <2>12. Going(at, names, sid, no_room_id, d)
    BY <1>5, <2>1, <2>9, <2>11 DEF Going
  <2>13. GoesTo(rs, room_system', e, d, no_room_id)
    BY <2>8, <2>10, <2>12 DEF GoesTo
  <2> QED
    BY <1>5, <2>6, <2>13 DEF Effect
<1> QED
  BY <1>3, <1>4, <1>5 DEF HandleLeaveRoomRequest

\* HandleLoginRequest.
LEMMA LoginEffect ==
  ASSUME IInv, NEW e, e.type = "LoginRequest", e.session_id \in SessionIds,
         e.request_id \in RequestIds, HandleLoginRequest(e)
  PROVE  \E d \in Streams : Queue(d) /\ Effect(room_system, room_system', e, d)
<1> DEFINE sid == e.session_id
           n == e.display_name
           rs == room_system
<1>1. CASE UNCHANGED logicVars
  BY <1>1, UnchangedEffect
<1>2. ASSUME NEW code \in {"INVALID_NAME", "DUPLICATE_NAME"}, RefuseLogin(e, code)
      PROVE  \E d \in Streams : Queue(d) /\ Effect(room_system, room_system', e, d)
  <2> DEFINE m == LoginResponse(e.request_id, FALSE, code, NoUser)
  <2>1. m \in Payload
    BY <1>2, PayloadTypes DEF ErrorCode
  <2>2. Silent(m)
    BY DEF Silent, LoginResponse
  <2>3. Queue(To(sid, <<m>>)) /\ UNCHANGED room_system
    BY <1>2 DEF RefuseLogin
  <2> HIDE DEF m
  <2> QED
    BY <2>1, <2>2, <2>3, AnswerEffect
<1>3. CASE /\ FindSession(rs, sid)
           /\ n \in Names
           /\ ~IsDisplayNameTaken(rs, n, sid)
           /\ AcceptLogin(e)
  <2> DEFINE new == SetLoggedIn(rs, sid, n)
             d == To(sid, <<LoginResponse(e.request_id, TRUE, "NONE", Info(NameOf(new), sid))>>)
  <2>1. Coherent(rs) /\ PlaceOf(rs)[sid] # Away
    BY <1>3, Presences DEF IInv
  <2>2. /\ Coherent(new) /\ FindSession(new, sid)
        /\ new.sessions[sid].logged_in /\ new.sessions[sid].display_name = n
    BY <1>3, <2>1, SetLoggedInCoherent DEF FindSession
  <2>3. /\ PlaceOf(new) = PlaceOf(rs)
        /\ NameOf(new) = [NameOf(rs) EXCEPT ![sid] = n]
        /\ \A u \in SessionIds \ {sid} : NameOf(rs)[u] # n
    BY <1>3, <2>1, SetLoggedInPresence
  <2> HIDE DEF new
  <2>4. BuildUserInfo(new, sid) = Info(NameOf(new), sid)
    BY <2>2 DEF BuildUserInfo, Info, NameOf
  <2>5. Info(NameOf(new), sid) \in UserInfo
    BY <2>2, <2>4, InfoTypes DEF FindSession
  <2>6. d \in Streams
    BY <2>5, PayloadTypes, StreamOperators DEF ErrorCode
  <2>7. room_system' = new /\ Queue(d)
    BY <1>3, <2>4 DEF AcceptLogin, new
  <2>8. LogsIn(rs, new, e, d)
    BY <1>3, <2>1, <2>3 DEF LogsIn
  <2> QED
    BY <2>6, <2>7, <2>8 DEF Effect
<1> QED
  BY <1>1, <1>2, <1>3 DEF HandleLoginRequest

\* HandleRoomListRequest.
LEMMA RoomListEffect ==
  ASSUME IInv, NEW e, e.request_id \in RequestIds, HandleRoomListRequest(e)
  PROVE  \E d \in Streams : Queue(d) /\ Effect(room_system, room_system', e, d)
<1> DEFINE rooms == [r \in RoomIds |-> BuildRoomInfo(room_system, r)]
           m == RoomListResponse(e.request_id, rooms)
<1>1. rooms \in [RoomIds -> RoomInfo]
  BY InfoTypes DEF IInv
<1>2. Queue(To(e.session_id, <<m>>)) /\ UNCHANGED room_system
  BY DEF HandleRoomListRequest
<1> HIDE DEF rooms
<1>3. m \in Payload
  BY <1>1, PayloadTypes DEF ErrorCode
<1>4. Silent(m)
  BY DEF Silent, RoomListResponse
<1> HIDE DEF m
<1> QED
  BY <1>2, <1>3, <1>4, AnswerEffect

\* A system message to the sender.
LEMMA NoticeEffect ==
  ASSUME IInv, NEW e, NEW r \in RoomIds \cup {no_room_id},
         Queue(To(e.session_id, <<SystemMessageEvent(r)>>)), UNCHANGED room_system
  PROVE  \E d \in Streams : Queue(d) /\ Effect(room_system, room_system', e, d)
<1>1. SystemMessageEvent(r) \in Payload
  BY SystemMessageType
<1>2. Silent(SystemMessageEvent(r))
  BY DEF Silent, SystemMessageEvent
<1> QED
  BY <1>1, <1>2, AnswerEffect

\* HandleJoinRoomRequest.
LEMMA JoinEffect ==
  ASSUME IInv, NEW e, e.type = "JoinRoomRequest", e.session_id \in SessionIds,
         e.request_id \in RequestIds, HandleJoinRoomRequest(e)
  PROVE  \E d \in Streams : Queue(d) /\ Effect(room_system, room_system', e, d)
<1>1. CASE UNCHANGED logicVars
  BY <1>1, UnchangedEffect
<1>2. ASSUME NEW code \in {"INVALID_NAME", "ROOM_NOT_FOUND", "ALREADY_IN_ROOM"},
             RefuseJoin(e, code)
      PROVE  \E d \in Streams : Queue(d) /\ Effect(room_system, room_system', e, d)
  <2> DEFINE m == JoinRoomResponse(e.request_id, FALSE, code, NoRoom)
  <2>1. m \in Payload
    BY <1>2, PayloadTypes DEF ErrorCode
  <2>2. Silent(m)
    BY DEF Silent, JoinRoomResponse
  <2>3. Queue(To(e.session_id, <<m>>)) /\ UNCHANGED room_system
    BY <1>2 DEF RefuseJoin
  <2> HIDE DEF m
  <2> QED
    BY <2>1, <2>2, <2>3, AnswerEffect
<1>3. CASE /\ FindSession(room_system, e.session_id)
           /\ room_system.sessions[e.session_id].logged_in
           /\ FindRoom(room_system, e.room_id)
           /\ room_system.sessions[e.session_id].room_id # e.room_id
           /\ EnterRoom(e)
  <2>1. e.room_id \in RoomIds
    BY <1>3 DEF IInv, Coherent, IsRoomSystem, FindRoom
  <2> QED
    BY <1>3, <2>1, EnterRoomEffect
<1> QED
  BY <1>1, <1>2, <1>3 DEF HandleJoinRoomRequest

\* HandleChatSendRequest.
LEMMA ChatEffect ==
  ASSUME IInv, NEW e, e.session_id \in SessionIds, HandleChatSendRequest(e)
  PROVE  \E d \in Streams : Queue(d) /\ Effect(room_system, room_system', e, d)
<1> DEFINE sid == e.session_id
           rs == room_system
           rid == rs.sessions[sid].room_id
           said == ChatBroadcast(rid, BuildUserInfo(rs, sid), e.content)
           members == GetRoomMembers(rs, rid, {})
           d == ToAll(members, said)
<1>1. CASE UNCHANGED logicVars
  BY <1>1, UnchangedEffect
<1>2. CASE /\ FindSession(rs, sid)
           /\ \/ Queue(To(sid, <<SystemMessageEvent(no_room_id)>>))
              \/ Queue(To(sid, <<SystemMessageEvent(rid)>>))
           /\ UNCHANGED room_system
  <2>1. rid \in RoomIds \cup {no_room_id}
    BY <1>2 DEF IInv, Coherent, IsRoomSystem, SessionState, FindSession
  <2> QED
    BY <1>2, <2>1, NoticeEffect
<1>3. CASE /\ FindSession(rs, sid)
           /\ rid # no_room_id
           /\ e.content \in Texts
           /\ Queue(d)
           /\ UNCHANGED room_system
  <2>1. rid \in RoomIds
    BY <1>3 DEF IInv, Coherent, IsRoomSystem, SessionState, FindSession
  <2>2. said \in Payload
    BY <1>3, <2>1, InfoTypes, EventPayloadTypes DEF IInv, FindSession
  <2>3. said.type = "ChatBroadcast" /\ said.room_id = rid
    BY DEF ChatBroadcast
  <2>4. members = {u \in SessionIds : FindSession(rs, u) /\ rs.sessions[u].room_id = rid}
    BY <2>1, Members DEF IInv
  <2> HIDE DEF said, members
  <2>5. d \in Streams
    BY <2>2, StreamOperators
  <2>6. ASSUME NEW t \in SessionIds
        PROVE  \/ d[t] = <<>>
               \/ d[t] = <<said>> /\ PlaceOf(rs)[t] = rid
    BY <2>4 DEF ToAll, PlaceOf
  <2>7. Quiet(PlaceOf(rs), sid, d)
    BY <2>1, <2>2, <2>3, <2>6 DEF Quiet
  <2> QED
    BY <1>3, <2>5, <2>7, StaysEffect
<1> QED
  BY <1>1, <1>2, <1>3 DEF HandleChatSendRequest

\* HandleSessionConnected.
LEMMA ConnectedEffect ==
  ASSUME IInv, NEW e, e.type = "Connected", e.session_id \in SessionIds,
         HandleSessionConnected(e)
  PROVE  \E d \in Streams : Queue(d) /\ Effect(room_system, room_system', e, d)
<1> DEFINE sid == e.session_id
           rs == room_system
<1>1. Coherent(rs) /\ outgoing_messages \in Streams /\ NoMessages \in Streams
  BY StreamOperators DEF IInv, Streams
<1>2. Queue(NoMessages) /\ Quiet(PlaceOf(rs), sid, NoMessages)
  BY <1>1, QueueNothing DEF HandleSessionConnected
<1>3. room_system' = AddSession(rs, sid)
  BY DEF HandleSessionConnected
<1>4. CASE FindSession(rs, sid)
  <2>1. UNCHANGED room_system
    BY <1>3, <1>4 DEF AddSession
  <2> QED
    BY <1>1, <1>2, <2>1, StaysEffect
<1>5. CASE ~FindSession(rs, sid)
  <2>1. PlaceOf(rs)[sid] = Away
    BY <1>5 DEF PlaceOf
  <2>2. /\ PlaceOf(room_system') = [PlaceOf(rs) EXCEPT ![sid] = no_room_id]
        /\ NameOf(room_system') = NameOf(rs)
    BY <1>1, <1>3, <1>5, AddSessionPresence
  <2>3. Arrives(rs, room_system', e, NoMessages)
    BY <2>1, <2>2 DEF Arrives
  <2> QED
    BY <1>1, <1>2, <2>3 DEF Effect
<1> QED
  BY <1>4, <1>5

\* Every event does one of four things: nothing to anybody's place or name, an
\* arrival, a login, or a move from one place to another.
LEMMA HandleEffect ==
  ASSUME IInv, NEW e \in ServerEvent, Handle(e)
  PROVE  \E d \in Streams : Queue(d) /\ Effect(room_system, room_system', e, d)
<1>1. CASE e.type = "Connected" /\ HandleSessionConnected(e)
  BY <1>1, EventFields, ConnectedEffect
<1>2. CASE e.type = "Disconnected" /\ HandleSessionDisconnected(e)
  BY <1>2, EventFields, DisconnectedEffect
<1>3. CASE e.type = "InvalidPacket" /\ HandleInvalidPacket(e)
  <2>1. no_room_id \in RoomIds \cup {no_room_id}
    OBVIOUS
  <2> QED
    BY <1>3, <2>1, NoticeEffect DEF HandleInvalidPacket
<1>4. CASE e.type = "LoginRequest" /\ HandleLoginRequest(e)
  BY <1>4, EventFields, LoginEffect
<1>5. CASE e.type = "RoomListRequest" /\ HandleRoomListRequest(e)
  BY <1>5, EventFields, RoomListEffect
<1>6. CASE e.type = "JoinRoomRequest" /\ HandleJoinRoomRequest(e)
  BY <1>6, EventFields, JoinEffect
<1>7. CASE e.type = "ChatSendRequest" /\ HandleChatSendRequest(e)
  BY <1>7, EventFields, ChatEffect
<1>8. CASE e.type = "LeaveRoomRequest" /\ HandleLeaveRoomRequest(e)
  BY <1>8, EventFields, LeaveEffect
<1>9. CASE e.type = "DisconnectRequest" /\ HandleDisconnectRequest(e)
  BY <1>9, EventFields, DisconnectRequestEffect
<1> QED
  BY <1>1, <1>2, <1>3, <1>4, <1>5, <1>6, <1>7, <1>8, <1>9 DEF Handle

-----------------------------------------------------------------------------
(* Every reader knows who shares its room.                                 *)

\* What t should believe when everybody is where at says.
RosterOf(at, t) ==
    [room  |-> at[t],
     users |-> IF at[t] = no_room_id THEN {} ELSE {u \in SessionIds \ {t} : at[u] = at[t]}]

\* What a reader makes of each message.
LEMMA ObserveSilent ==
  ASSUME NEW v, NEW m, Silent(m) \/ m.type = "ChatBroadcast"
  PROVE  Observe(v, m) = v
  BY DEF Silent, Observe

LEMMA ObserveLogin ==
  ASSUME NEW v, NEW id, NEW user
  PROVE  Observe(v, LoginResponse(id, TRUE, "NONE", user)) = v
  BY DEF Observe, LoginResponse

LEMMA ObserveNotice ==
  ASSUME NEW v, NEW r
  PROVE  Observe(v, SystemMessageEvent(r)) = v
  BY DEF Observe, SystemMessageEvent

LEMMA ObserveJoin ==
  ASSUME NEW v, NEW id, NEW room
  PROVE  Observe(v, JoinRoomResponse(id, TRUE, "NONE", room)) =
           [room |-> room.room_id, users |-> {}]
  BY DEF Observe, JoinRoomResponse

LEMMA ObserveLeave ==
  ASSUME NEW v, NEW id
  PROVE  Observe(v, LeaveRoomResponse(id, TRUE, "NONE")) = NoView
  BY DEF Observe, LeaveRoomResponse

LEMMA ObserveUserJoined ==
  ASSUME NEW x, NEW us, NEW r, NEW names, NEW u
  PROVE  Observe([room |-> x, users |-> us], UserJoinedEvent(r, Info(names, u))) =
           [room |-> x, users |-> us \cup {u}]
  BY DEF Observe, UserJoinedEvent, Info

LEMMA ObserveUserLeft ==
  ASSUME NEW x, NEW us, NEW r, NEW names, NEW u
  PROVE  Observe([room |-> x, users |-> us], UserLeftEvent(r, Info(names, u))) =
           [room |-> x, users |-> us \ {u}]
  BY DEF Observe, UserLeftEvent, Info

\* The introductions of EnterRoom add up to the members they introduce.
LEMMA ObserveRoll ==
  ASSUME NEW q, NEW names, NEW order \in Seq(SessionIds)
  PROVE  ObserveAll([room |-> q, users |-> {}], Roll(q, order, names)) =
           [room |-> q, users |-> {order[i] : i \in DOMAIN order}]
<1> DEFINE N == Len(order)
           v == [room |-> q, users |-> {}]
           ms == Roll(q, order, names)
           f == Views(v, ms)
           Met(n) == {order[i] : i \in 1 .. n}
           S == {n \in Nat : n <= N => f[n] = [room |-> q, users |-> Met(n)]}
<1>1. N \in Nat /\ DOMAIN order = 1 .. N
  BY LenProperties
<1>2. /\ Len(ms) = N
      /\ \A n \in 1 .. N : ms[n] = UserJoinedEvent(q, Info(names, order[n]))
  <2>1. ms = [i \in 1 .. N |-> UserJoinedEvent(q, Info(names, order[i]))]
    BY <1>1 DEF Roll
  <2> HIDE DEF N, ms
  <2> QED
    BY <1>1, <2>1
<1> HIDE DEF ms
<1>3. f[0] = v
  BY <1>1, <1>2, ViewsFirst
<1>4. \A n \in 1 .. N : f[n] = Observe(f[n - 1], ms[n])
  BY <1>1, <1>2, ViewsStep
<1> HIDE DEF f, N
<1>5. 0 \in S
  <2>1. Met(0) = {}
    OBVIOUS
  <2> HIDE DEF Met
  <2> QED
    BY <1>3, <2>1
<1>6. ASSUME NEW n \in S PROVE n + 1 \in S
  <2>1. n \in Nat
    OBVIOUS
  <2>2. ASSUME n + 1 <= N
        PROVE  f[n + 1] = [room |-> q, users |-> Met(n + 1)]
    <3>1. n + 1 \in 1 .. N /\ (n + 1) - 1 = n /\ n <= N
      BY <1>1, <2>1, <2>2
    <3>2. f[n] = [room |-> q, users |-> Met(n)]
      BY <3>1
    <3>3. f[n + 1] = Observe(f[n], UserJoinedEvent(q, Info(names, order[n + 1])))
      BY <1>2, <1>4, <3>1
    <3>4. Met(n + 1) = Met(n) \cup {order[n + 1]}
      <4>1. \A i \in 1 .. n + 1 : i \in 1 .. n \/ i = n + 1
        BY <2>1
      <4>2. \A i \in 1 .. n : i \in 1 .. n + 1
        BY <2>1
      <4>3. n + 1 \in 1 .. n + 1
        BY <2>1
      <4> QED
        BY <4>1, <4>2, <4>3
    <3> HIDE DEF Met
    <3> QED
      BY <3>2, <3>3, <3>4, ObserveUserJoined
  <2> QED
    BY <2>1, <2>2
<1>7. S = Nat
  <2> HIDE DEF S
  <2>1. S \subseteq Nat
    BY DEF S
  <2> QED
    BY <1>5, <1>6, <2>1, SetInduction
<1>8. f[N] = [room |-> q, users |-> Met(N)]
  <2> HIDE DEF Met, S
  <2>1. N \in S /\ N <= N
    BY <1>1, <1>7
  <2> QED
    BY <2>1 DEF S
<1> QED
  BY <1>1, <1>2, <1>8 DEF ObserveAll, f, ms

\* Whatever an event does, the messages it queues for a session that is there
\* before and after bring its roster up to date.
LEMMA RosterEffect ==
  ASSUME NEW rs, NEW new, Coherent(rs), NEW e, e.session_id \in SessionIds,
         NEW d \in Streams, Effect(rs, new, e, d), NEW t \in SessionIds,
         PlaceOf(rs)[t] # Away, PlaceOf(new)[t] # Away
  PROVE  ObserveAll(RosterOf(PlaceOf(rs), t), d[t]) = RosterOf(PlaceOf(new), t)
<1> DEFINE at == PlaceOf(rs)
           to == PlaceOf(new)
           names == NameOf(rs)
           sid == e.session_id
           v == RosterOf(at, t)
<1>1. at \in Places /\ Away # no_room_id /\ Away \notin RoomIds /\ no_room_id \notin RoomIds
  BY Presences, RoomSystemAssumption DEF Away, no_room_id
<1>2. ASSUME d[t] = <<>> PROVE ObserveAll(v, d[t]) = v
  BY <1>2, ObserveNone
<1>3. ASSUME NEW m, d[t] = <<m>> PROVE ObserveAll(v, d[t]) = Observe(v, m)
  BY <1>3, ObserveOne
<1>4. CASE Stays(rs, new, e, d)
  <2>1. ObserveAll(v, d[t]) = v
    <3>1. CASE d[t] = <<>>
      BY <1>2, <3>1
    <3>2. ASSUME NEW m \in Payload, d[t] = <<m>>,
                 Silent(m) \/ m.type = "ChatBroadcast"
          PROVE  ObserveAll(v, d[t]) = v
      BY <1>3, <3>2, ObserveSilent
    <3> QED
      BY <1>4, <3>1, <3>2 DEF Stays, Quiet
  <2> QED
    BY <1>4, <2>1 DEF Stays
<1>5. CASE Arrives(rs, new, e, d)
  <2>1. d[t] = <<>> /\ at[sid] = Away /\ to = [at EXCEPT ![sid] = no_room_id] /\ t # sid
    BY <1>5 DEF Arrives, NoMessages
  <2>2. RosterOf(to, t) = v
    <3> HIDE DEF at, to, sid
    <3>1. sid \in SessionIds /\ t \in SessionIds
      BY DEF sid
    <3>2. /\ to[t] = at[t] /\ at[t] # Away
          /\ \A u \in SessionIds \ {sid} : to[u] = at[u]
          /\ to[sid] = no_room_id
      BY <1>1, <2>1, <3>1 DEF Places, at
    <3>3. at[t] # no_room_id =>
            {u \in SessionIds \ {t} : to[u] = to[t]} = {u \in SessionIds \ {t} : at[u] = at[t]}
      BY <2>1, <3>1, <3>2
    <3> QED
      BY <3>2, <3>3 DEF RosterOf
  <2> QED
    BY <1>2, <2>1, <2>2
<1>6. CASE LogsIn(rs, new, e, d)
  <2>1. PICK id \in RequestIds :
          d = To(sid, <<LoginResponse(id, TRUE, "NONE", Info(NameOf(new), sid))>>)
    BY <1>6 DEF LogsIn
  <2>2. ObserveAll(v, d[t]) = v
    <3>1. CASE t = sid
      BY <1>3, <2>1, <3>1, ObserveLogin DEF To
    <3>2. CASE t # sid
      BY <1>2, <2>1, <3>2 DEF To
    <3> QED
      BY <3>1, <3>2
  <2> QED
    BY <1>6, <2>2 DEF LogsIn
<1>7. ASSUME NEW q \in RoomIds \cup {no_room_id, Away}, GoesTo(rs, new, e, d, q)
      PROVE  ObserveAll(v, d[t]) = RosterOf(to, t)
  <2>1. Going(at, names, sid, q, d) /\ to = [at EXCEPT ![sid] = q]
    BY <1>7 DEF GoesTo
  <2>2. /\ sid \in SessionIds /\ t \in SessionIds
        /\ \A u \in SessionIds \ {sid} : to[u] = at[u]
        /\ to[sid] = q /\ at[t] # Away /\ to[t] # Away /\ at[sid] # q
    BY <1>1, <2>1 DEF Places, Going
  <2> HIDE DEF at, to, sid, names
  <2>3. CASE t # sid
    <3>1. d[t] = Heard(at, names, sid, q, t) /\ to[t] = at[t]
      BY <2>1, <2>2, <2>3 DEF Going
    <3> DEFINE before == {u \in SessionIds \ {t} : at[u] = at[t]}
               after == {u \in SessionIds \ {t} : to[u] = at[t]}
    <3>2. CASE at[t] \notin RoomIds
      <4>1. at[t] = no_room_id
        BY <1>1, <2>2, <3>2 DEF Places
      <4>2. RosterOf(to, t) = v
        BY <3>1, <4>1 DEF RosterOf
      <4> QED
        BY <1>2, <3>1, <3>2, <4>2 DEF Heard
    <3>3. CASE at[t] \in RoomIds /\ at[t] = at[sid]
      <4>1. ObserveAll(v, d[t]) = Observe(v, UserLeftEvent(at[t], Info(names, sid)))
        BY <1>3, <3>1, <3>3 DEF Heard
      <4>2. after = before \ {sid}
        BY <2>2, <3>3
      <4>3. v = [room |-> at[t], users |-> before]
            /\ RosterOf(to, t) = [room |-> at[t], users |-> after]
        BY <1>1, <3>1, <3>3 DEF RosterOf
      <4> HIDE DEF before, after, v
      <4> QED
        BY <4>1, <4>2, <4>3, ObserveUserLeft
    <3>4. CASE at[t] \in RoomIds /\ at[t] # at[sid] /\ at[t] = q
      <4>1. ObserveAll(v, d[t]) = Observe(v, UserJoinedEvent(q, Info(names, sid)))
        BY <1>3, <3>1, <3>4 DEF Heard
      <4>2. after = before \cup {sid}
        BY <2>2, <2>3, <3>4
      <4>3. v = [room |-> at[t], users |-> before]
            /\ RosterOf(to, t) = [room |-> at[t], users |-> after]
        BY <1>1, <3>1, <3>4 DEF RosterOf
      <4> HIDE DEF before, after, v
      <4> QED
        BY <4>1, <4>2, <4>3, ObserveUserJoined
    <3>5. CASE at[t] \in RoomIds /\ at[t] # at[sid] /\ at[t] # q
      <4>1. ObserveAll(v, d[t]) = v
        BY <1>2, <3>1, <3>5 DEF Heard
      <4>2. after = before
        BY <2>2, <2>3, <3>5
      <4>3. v = [room |-> at[t], users |-> before]
            /\ RosterOf(to, t) = [room |-> at[t], users |-> after]
        BY <1>1, <3>1, <3>5 DEF RosterOf
      <4> HIDE DEF before, after, v
      <4> QED
        BY <4>1, <4>2, <4>3
    <3> QED
      BY <3>2, <3>3, <3>4, <3>5
  <2>4. CASE t = sid
    <3>1. q # Away /\ to[t] = q
      BY <2>2, <2>4
    <3>2. CASE q \in RoomIds
      <4>1. Welcomed(at, names, sid, q, d[t])
        BY <1>1, <2>1, <2>4, <3>1, <3>2 DEF Going
      <4>2. PICK id \in RequestIds, room \in RoomInfo, order \in Seq(SessionIds) :
              /\ room.room_id = q
              /\ {order[i] : i \in DOMAIN order} = {u \in SessionIds : at[u] = q}
              /\ d[t] = <<JoinRoomResponse(id, TRUE, "NONE", room), SystemMessageEvent(q)>>
                        \o Roll(q, order, names)
        BY <4>1 DEF Welcomed
      <4> DEFINE a == JoinRoomResponse(id, TRUE, "NONE", room)
                 b == SystemMessageEvent(q)
                 roll == Roll(q, order, names)
                 u0 == [room |-> q, users |-> {}]
      <4>3. ObserveAll(v, <<a, b>>) = u0
        <5>1. ObserveAll(v, <<a, b>>) = Observe(Observe(v, a), b)
          <6> HIDE DEF a, b, v
          <6> QED
            BY ObserveTwo
        <5>2. Observe(v, a) = [room |-> room.room_id, users |-> {}]
          <6> HIDE DEF v
          <6> QED
            BY ObserveJoin
        <5>3. Observe(u0, b) = u0
          BY ObserveNotice
        <5> QED
          BY <4>2, <5>1, <5>2, <5>3
      <4>4. ObserveAll(u0, roll) = [room |-> q, users |-> {order[i] : i \in DOMAIN order}]
        <5>1. order \in Seq(SessionIds)
          OBVIOUS
        <5> HIDE DEF names
        <5> QED
          BY ONLY <5>1, ObserveRoll DEF roll, u0
      <4>5. ObserveAll(v, d[t]) = ObserveAll(ObserveAll(v, <<a, b>>), roll)
        <5> DEFINE M == {a, b} \cup {UserJoinedEvent(q, Info(names, order[i])) : i \in DOMAIN order}
        <5>1. <<a, b>> \in Seq(M)
          <6>1. a \in M /\ b \in M
            OBVIOUS
          <6> HIDE DEF M, a, b
          <6> QED
            BY <6>1
        <5>2. roll \in Seq(M)
          <6>1. PICK n \in Nat : DOMAIN order = 1 .. n
            BY <4>2
          <6>2. \A i \in 1 .. n : UserJoinedEvent(q, Info(names, order[i])) \in M
            BY <6>1
          <6>3. roll = [i \in 1 .. n |-> UserJoinedEvent(q, Info(names, order[i]))]
            BY <6>1 DEF Roll
          <6> HIDE DEF M, roll
          <6>4. roll \in [1 .. n -> M]
            BY <6>2, <6>3
          <6> QED
            BY <6>4
        <5>3. d[t] = <<a, b>> \o roll
          BY <4>2
        <5> DEFINE pre == <<a, b>>
        <5>4. pre \in Seq(M) /\ d[t] = pre \o roll
          BY <5>1, <5>3
        <5> HIDE DEF M, pre, roll, v
        <5>5. ObserveAll(v, pre \o roll) = ObserveAll(ObserveAll(v, pre), roll)
          BY ONLY <5>2, <5>4, ObserveConcat
        <5> QED
          BY <5>4, <5>5 DEF pre
      <4>6. {order[i] : i \in DOMAIN order} = {u \in SessionIds \ {t} : to[u] = to[t]}
        BY <2>2, <2>4, <3>1, <4>2
      <4> QED
        BY <1>1, <3>1, <3>2, <4>3, <4>4, <4>5, <4>6 DEF RosterOf
    <3>3. CASE q = no_room_id
      <4>1. Dismissed(at[sid], d[t])
        BY <1>1, <2>1, <2>4, <3>1, <3>3 DEF Going
      <4>2. PICK id \in RequestIds :
              d[t] = <<LeaveRoomResponse(id, TRUE, "NONE"), SystemMessageEvent(at[sid])>>
        BY <4>1 DEF Dismissed
      <4> DEFINE a == LeaveRoomResponse(id, TRUE, "NONE")
                 b == SystemMessageEvent(at[sid])
      <4>3. ObserveAll(v, <<a, b>>) = Observe(Observe(v, a), b)
        <5> HIDE DEF a, b, v
        <5> QED
          BY ObserveTwo
      <4>4. Observe(v, a) = NoView /\ Observe(NoView, b) = NoView
        BY ObserveLeave, ObserveNotice
      <4>5. RosterOf(to, t) = NoView
        BY <3>1, <3>3 DEF RosterOf, NoView
      <4> QED
        BY <4>2, <4>3, <4>4, <4>5
    <3> QED
      BY <3>1, <3>2, <3>3
  <2> QED
    BY <2>3, <2>4
<1> QED
  BY <1>4, <1>5, <1>6, <1>7 DEF Effect

\* Only an accepted connection brings somebody who was away.
LEMMA ArrivalEffect ==
  ASSUME NEW rs, NEW new, Coherent(rs), NEW e, e.session_id \in SessionIds, NEW d,
         Effect(rs, new, e, d), NEW t \in SessionIds,
         PlaceOf(rs)[t] = Away, PlaceOf(new)[t] # Away
  PROVE  Arrives(rs, new, e, d) /\ t = e.session_id
<1> DEFINE at == PlaceOf(rs)
           to == PlaceOf(new)
           sid == e.session_id
<1>1. at \in Places
  BY Presences
<1> HIDE DEF at, to
<1>2. CASE Stays(rs, new, e, d) \/ LogsIn(rs, new, e, d)
  BY <1>2 DEF Stays, LogsIn, at, to
<1>3. CASE Arrives(rs, new, e, d)
  <2>1. to = [at EXCEPT ![sid] = no_room_id]
    BY <1>3 DEF Arrives, at, to
  <2>2. t = sid
    BY <1>1, <2>1 DEF Places, at, to
  <2> QED
    BY <1>3, <2>2
<1>4. ASSUME NEW q, GoesTo(rs, new, e, d, q) PROVE FALSE
  <2>1. to = [at EXCEPT ![sid] = q] /\ at[sid] # Away
    BY <1>4 DEF GoesTo, Going, at, to
  <2>2. t # sid
    BY <2>1 DEF at
  <2>3. to[t] = at[t]
    BY <1>1, <2>1, <2>2 DEF Places
  <2> QED
    BY <2>3 DEF at, to
<1> QED
  BY <1>2, <1>3, <1>4 DEF Effect

\* The invariant of the readers: what a session believes, brought up to date
\* with what is queued for it, is who shares its room.
RInv ==
    /\ IInv
    /\ batch \in Nat
    /\ batch = 0 => outgoing_messages = NoMessages
    /\ DOMAIN view = SessionIds /\ view = [s \in SessionIds |-> view[s]]
    /\ \A s \in SessionIds :
         PlaceOf(room_system)[s] # Away =>
             ObserveAll(view[s], outgoing_messages[s]) = RosterOf(PlaceOf(room_system), s)

\* An event keeps that, except that somebody who arrives has read nothing.
LEMMA RosterHandle ==
  ASSUME RInv, NEW e \in ServerEvent, Handle(e), NEW t \in SessionIds,
         PlaceOf(room_system')[t] # Away
  PROVE  /\ PlaceOf(room_system)[t] # Away =>
                ObserveAll(view[t], outgoing_messages'[t]) = RosterOf(PlaceOf(room_system'), t)
         /\ PlaceOf(room_system)[t] = Away =>
                /\ e.type = "Connected" /\ e.session_id = t
                /\ PlaceOf(room_system')[t] = no_room_id
                /\ outgoing_messages'[t] = outgoing_messages[t] \o <<>>
<1>1. PICK d \in Streams : Queue(d) /\ Effect(room_system, room_system', e, d)
  BY HandleEffect DEF RInv
<1>2. Coherent(room_system) /\ outgoing_messages \in Streams /\ e.session_id \in SessionIds
  BY EventFields DEF RInv, IInv, Streams
<1>3. outgoing_messages'[t] = outgoing_messages[t] \o d[t]
  BY <1>1 DEF Queue, Then
<1>4. CASE PlaceOf(room_system)[t] # Away
  <2>1. ObserveAll(RosterOf(PlaceOf(room_system), t), d[t]) = RosterOf(PlaceOf(room_system'), t)
    BY <1>1, <1>2, <1>4, RosterEffect
  <2>2. ObserveAll(view[t], outgoing_messages[t]) = RosterOf(PlaceOf(room_system), t)
    BY <1>4 DEF RInv
  <2> DEFINE a == outgoing_messages[t]
             b == d[t]
             v == view[t]
  <2>3. a \in Seq(Payload) /\ b \in Seq(Payload)
    <3> HIDE DEF Payload
    <3> QED
      BY <1>2 DEF Streams
  <2>4. ObserveAll(v, a \o b) = ObserveAll(ObserveAll(v, a), b)
    <3> HIDE DEF Payload, a, b, v
    <3> QED
      BY ONLY <2>3, ObserveConcat
  <2> QED
    BY <1>3, <1>4, <2>1, <2>2, <2>4
<1>5. CASE PlaceOf(room_system)[t] = Away
  <2>1. Arrives(room_system, room_system', e, d) /\ t = e.session_id
    BY <1>1, <1>2, <1>5, ArrivalEffect
  <2>2. PlaceOf(room_system) \in Places
    BY <1>2, Presences
  <2> QED
    BY <1>3, <1>5, <2>1, <2>2 DEF Arrives, NoMessages, Places
<1> QED
  BY <1>4, <1>5

\* The readers' steps.
LEMMA RosterInitStep ==
  ASSUME RosterInit
  PROVE  RInv
<1>1. IInv
  BY InitStep DEF RosterInit
<1>2. \A s \in SessionIds : PlaceOf(room_system)[s] = Away
  BY DEF RosterInit, Init, NewRoomSystem, PlaceOf, FindSession
<1>3. batch \in Nat /\ outgoing_messages = NoMessages
  BY DEF RosterInit, Init
<1>4. view = [s \in SessionIds |-> NoView]
  BY DEF RosterInit
<1> QED
  BY <1>1, <1>2, <1>3, <1>4 DEF RInv

LEMMA ProcessStep ==
  ASSUME RInv, NEW e \in ServerEvent, e.type # "Connected", Process(e)
  PROVE  RInv'
<1>1. Handle(e) /\ batch' = batch + 1 /\ view' = view
  BY DEF Process
<1>2. IInv'
  BY <1>1, HandleStep DEF RInv
<1>3. ASSUME NEW s \in SessionIds, PlaceOf(room_system')[s] # Away
      PROVE  ObserveAll(view[s], outgoing_messages'[s]) = RosterOf(PlaceOf(room_system'), s)
  BY <1>1, <1>3, RosterHandle
<1>4. batch' \in Nat /\ batch' # 0
  BY <1>1 DEF RInv
<1> QED
  BY <1>1, <1>2, <1>3, <1>4 DEF RInv

LEMMA NewConnectionStep ==
  ASSUME RInv, NEW s \in SessionIds, NewConnection(s)
  PROVE  RInv'
<1> DEFINE e == [type |-> "Connected", session_id |-> s]
<1>1. /\ Handle(e) /\ batch' = batch + 1 /\ view' = [view EXCEPT ![s] = NoView]
      /\ ~FindSession(room_system, s) /\ outgoing_messages[s] = <<>>
  BY DEF NewConnection
<1>2. e \in ServerEvent /\ e.session_id = s
  BY DEF ServerEvent, SessionEvent
<1> HIDE DEF e
<1>3. IInv'
  BY <1>1, <1>2, HandleStep DEF RInv
<1>4. batch' \in Nat /\ batch' # 0
  BY <1>1 DEF RInv
<1>5. /\ DOMAIN view = SessionIds
      /\ view'[s] = NoView /\ \A t \in SessionIds \ {s} : view'[t] = view[t]
      /\ DOMAIN view' = SessionIds /\ view' = [t \in SessionIds |-> view'[t]]
  BY <1>1 DEF RInv
<1>6. ASSUME NEW t \in SessionIds, PlaceOf(room_system')[t] # Away
      PROVE  ObserveAll(view'[t], outgoing_messages'[t]) = RosterOf(PlaceOf(room_system'), t)
  <2>1. CASE t # s
    <3>1. PlaceOf(room_system)[t] # Away
      BY <1>1, <1>2, <1>6, <2>1, RosterHandle
    <3> QED
      BY <1>1, <1>2, <1>5, <1>6, <2>1, <3>1, RosterHandle
  <2>2. CASE t = s
    <3>1. PlaceOf(room_system)[t] = Away
      BY <1>1, <2>2 DEF PlaceOf
    <3>2. /\ PlaceOf(room_system')[t] = no_room_id
          /\ outgoing_messages'[t] = outgoing_messages[t] \o <<>>
      BY <1>1, <1>2, <1>6, <3>1, RosterHandle
    <3>3. outgoing_messages'[t] = <<>>
      BY <1>1, <2>2, <3>2
    <3>4. ObserveAll(NoView, <<>>) = NoView
      BY ObserveNone
    <3> QED
      BY <1>5, <2>2, <3>2, <3>3, <3>4 DEF RosterOf, NoView
  <2> QED
    BY <2>1, <2>2
<1> QED
  BY <1>3, <1>4, <1>5, <1>6 DEF RInv

LEMMA FlushStep ==
  ASSUME RInv, Flush
  PROVE  RInv'
<1>1. /\ Take /\ batch' = 0
      /\ view' = [s \in SessionIds |-> ObserveAll(view[s], outgoing_messages[s])]
  BY DEF Flush
<1>2. IInv'
  BY <1>1, TakeStep DEF RInv
<1>3. outgoing_messages' = NoMessages /\ room_system' = room_system
  BY <1>1 DEF Take
<1>4. ASSUME NEW s \in SessionIds
      PROVE  /\ view'[s] = ObserveAll(view[s], outgoing_messages[s])
             /\ ObserveAll(view'[s], outgoing_messages'[s]) = view'[s]
  <2>1. outgoing_messages'[s] = <<>>
    BY <1>3 DEF NoMessages
  <2> QED
    BY <1>1, <2>1, ObserveNone
<1>5. ASSUME NEW s \in SessionIds, PlaceOf(room_system')[s] # Away
      PROVE  ObserveAll(view'[s], outgoing_messages'[s]) = RosterOf(PlaceOf(room_system'), s)
  BY <1>3, <1>4, <1>5 DEF RInv
<1>6. DOMAIN view' = SessionIds /\ view' = [s \in SessionIds |-> view'[s]]
  BY <1>1
<1> QED
  BY <1>1, <1>2, <1>3, <1>5, <1>6 DEF RInv

LEMMA RosterImplied ==
  ASSUME RInv
  PROVE  RosterAccurate
<1> SUFFICES ASSUME batch = 0, NEW s \in DOMAIN room_system.sessions
             PROVE  LET rid == room_system.sessions[s].room_id
                    IN  view[s] = [room  |-> rid,
                                   users |-> IF rid = no_room_id THEN {}
                                             ELSE room_system.rooms[rid] \ {s}]
  BY DEF RosterAccurate
<1> DEFINE rs == room_system
           rid == rs.sessions[s].room_id
           at == PlaceOf(rs)
<1>1. Coherent(rs) /\ s \in SessionIds
  BY DEF RInv, IInv, Coherent, IsRoomSystem
<1>2. at[s] = rid /\ at[s] # Away /\ rid \in RoomIds \cup {no_room_id}
  BY <1>1, Presences DEF FindSession, Coherent, IsRoomSystem, SessionState
<1>3. view[s] = RosterOf(at, s)
  <2>1. outgoing_messages[s] = <<>>
    BY <1>1 DEF RInv, NoMessages
  <2>2. ObserveAll(view[s], outgoing_messages[s]) = RosterOf(at, s)
    BY <1>1, <1>2 DEF RInv
  <2> QED
    BY <2>1, <2>2, ObserveNone
<1>4. CASE rid = no_room_id
  BY <1>2, <1>3, <1>4 DEF RosterOf
<1>5. CASE rid \in RoomIds
  <2>1. rs.rooms[rid] \subseteq SessionIds
    BY <1>1, <1>5 DEF Coherent, IsRoomSystem
  <2>2. \A u \in SessionIds : u \in rs.rooms[rid] <=> at[u] = rid
    <3>1. rid # Away
      BY <1>5, RoomSystemAssumption DEF Away
    <3> QED
      BY <1>1, <1>5, <3>1, Presences DEF Coherent, MembershipAgrees
  <2>3. rs.rooms[rid] \ {s} = {u \in SessionIds \ {s} : at[u] = rid}
    BY <2>1, <2>2
  <2>4. rid # no_room_id
    BY <1>5, RoomSystemAssumption DEF no_room_id
  <2> QED
    BY <1>2, <1>3, <2>3, <2>4 DEF RosterOf
<1> QED
  BY <1>2, <1>4, <1>5

\* Between two ticks every session, however many there are and whatever they do,
\* has been told exactly who shares its room: the JoinRoomResponse, UserJoinedEvent
\* and UserLeftEvent messages the handlers queue add up to the member sets.
THEOREM RosterTheorem == RosterSpec => []RosterAccurate
<1>1. RosterInit => RInv
  BY RosterInitStep
<1>2. RInv /\ [RosterNext]_rosterVars => RInv'
  <2>1. ASSUME RInv, UNCHANGED rosterVars PROVE RInv'
    BY <2>1 DEF RInv, IInv, rosterVars
  <2> QED
    BY <2>1, ProcessStep, NewConnectionStep, FlushStep DEF RosterNext
<1>3. RInv => RosterAccurate
  BY RosterImplied
<1> QED
  BY <1>1, <1>2, <1>3, PTL DEF RosterSpec

-----------------------------------------------------------------------------
(* What a window makes of its stream.                                      *)

\* One packet, the frames along a stream, and the frame after it.
Reads(f, m) == Window!ShowPacket(f, m, EmptyName)
Reading(f, ms) == Window!Shown(f, ms, EmptyName)
ReadAll(f, ms) == Window!Process(f, ms, EmptyName)

\* A window's members.
IsFrame(f) ==
    /\ f = [open |-> f.open, client |-> f.client, controls |-> f.controls,
            rooms |-> f.rooms, current_room_id |-> f.current_room_id,
            user_list |-> f.user_list, next_request_id |-> f.next_request_id]
    /\ f.user_list \subseteq Names
    /\ f.next_request_id \in Nat \ {0}

\* Two frames that show the same room and the same users.
SameView(f, g) ==
    f.current_room_id = g.current_room_id /\ f.user_list = g.user_list

\* The users a frame lists whose names cannot be mistaken.
Listed(f) == f.user_list \cap Distinct

\* t and those who share its room, and the names the window of t must list.
Mates(at, t) ==
    {u \in SessionIds : u = t \/ (at[t] \in RoomIds /\ at[u] = at[t])}

Known(at, names, t) == {names[u] : u \in Mates(at, t)} \cap Distinct

\* Frame f shows the room of each event of ms when it comes to it.
RoomEvent == {"ChatBroadcast", "UserJoinedEvent", "UserLeftEvent"}

InPlace(f, ms) ==
    \A i \in 1 .. Len(ms) :
        ms[i].type \in RoomEvent => ms[i].room_id = Reading(f, ms)[i - 1].current_room_id

\* Frame f shows the room t is in.
RoomShown(f, at, t) == at[t] \in RoomIds => f.current_room_id = at[t]

\* The requests of a window.
Requests ==
    [type : {"LoginRequest"}, request_id : RequestIds, display_name : Names]
    \cup
    [type : {"RoomListRequest"}, request_id : RequestIds]
    \cup
    [type : {"JoinRoomRequest"}, request_id : RequestIds, room_id : RoomIds]
    \cup
    [type : {"ChatSendRequest"}, request_id : RequestIds, content : Texts]

\* The login comes first, and only once: n is the name the session has.
Orderly(q, n) ==
    \A i \in 1 .. Len(q) : q[i].type = "LoginRequest" => i = 1 /\ n = EmptyName

-----------------------------------------------------------------------------
(* The invariant of the application.                                       *)

\* Sessions and the connections they belong to.
Links ==
    /\ phase \in [SessionIds -> {"free", "open", "closed"}]
    /\ \A s \in SessionIds : phase[s] = "open" <=> PlaceOf(room_system)[s] # Away
    /\ \A s \in SessionIds : phase[s] = "free" =>
         outgoing_messages[s] = <<>> /\ backlog[s] = <<>> /\ entered[s] = {}
    /\ history \in [Windows -> Seq(SessionIds)]
    /\ \A w \in Windows, s \in SessionIds : IsCurrent(w, s) =>
         phase[s] # "free" /\ backlog[s] = <<>>
    /\ \A w, v \in Windows : \A s \in SessionIds :
         IsCurrent(w, s) /\ IsCurrent(v, s) => w = v

\* The requests under way.
Asked ==
    /\ requests \in [Windows -> Seq(Requests)]
    /\ backlog \in [SessionIds -> Seq(Requests)]
    /\ \A w \in Windows, s \in SessionIds : IsCurrent(w, s) =>
         Orderly(requests[w], NameOf(room_system)[s])
    /\ \A s \in SessionIds : Orderly(backlog[s], NameOf(room_system)[s])

\* The rooms a session has been in.
Travels ==
    /\ entered \in [SessionIds -> SUBSET RoomIds]
    /\ \A s \in SessionIds :
         /\ IsFiniteSet(entered[s])
         /\ PlaceOf(room_system)[s] \in RoomIds => PlaceOf(room_system)[s] \in entered[s]
         /\ PlaceOf(room_system)[s] = no_room_id => entered[s] = {}

\* A window with frame f, connections hist and the packets ms of session s to
\* read, when s has been in the rooms ent.
Tracked(f, ms, at, names, s, hist, ent) ==
    /\ InPlace(f, ms)
    /\ at[s] # Away =>
         /\ RoomShown(ReadAll(f, ms), at, s)
         /\ Known(at, names, s) \subseteq Listed(ReadAll(f, ms))
         /\ Len(hist) = 1 /\ ent \subseteq {at[s]} =>
              Listed(ReadAll(f, ms)) = Known(at, names, s)

\* The windows, and what they will show when they have caught up.
Shows ==
    /\ frame = [w \in Windows |-> frame[w]]
    /\ \A w \in Windows : IsFrame(frame[w]) /\ (history[w] = <<>> => frame[w].user_list = {})
    /\ \A w \in Windows, s \in SessionIds : IsCurrent(w, s) =>
         Tracked(frame[w], outgoing_messages[s], PlaceOf(room_system), NameOf(room_system),
                 s, history[w], entered[s])

SInv == IInv /\ Links /\ Asked /\ Travels /\ Shows

-----------------------------------------------------------------------------
(* Along a stream.                                                         *)

\* The recursive function inside Shown exists: it is what its definition says.
LEMMA ReadingDefined ==
  ASSUME NEW f, NEW ms, Len(ms) \in Nat
  PROVE  Reading(f, ms) = [n \in 0 .. Len(ms) |->
                             IF n = 0 THEN f ELSE Reads(Reading(f, ms)[n - 1], ms[n])]
<1> DEFINE Is(a, k) == a = [n \in 0 .. k |-> IF n = 0 THEN f ELSE Reads(a[n - 1], ms[n])]
           S == {k \in Nat : \E a : Is(a, k)}
<1>1. 0 \in S
  <2> DEFINE a == [n \in 0 .. 0 |-> f]
  <2>1. Is(a, 0)
    OBVIOUS
  <2> QED
    BY <2>1
<1>2. ASSUME NEW k \in S PROVE k + 1 \in S
  <2>1. PICK a : Is(a, k)
    BY <1>2
  <2> DEFINE g == [n \in 0 .. k + 1 |->
                     IF n = k + 1 THEN Reads(a[k], ms[k + 1]) ELSE a[n]]
  <2>2. k \in Nat
    OBVIOUS
  <2>3. ASSUME NEW n \in 0 .. k + 1
        PROVE  g[n] = IF n = 0 THEN f ELSE Reads(g[n - 1], ms[n])
    <3>1. CASE n = 0
      BY <2>1, <2>2, <3>1
    <3>2. CASE n = k + 1
      BY <2>1, <2>2, <3>2
    <3>3. CASE n # 0 /\ n # k + 1
      <4>1. n \in 0 .. k /\ n - 1 \in 0 .. k /\ n - 1 # k + 1 /\ n - 1 \in 0 .. k + 1
        BY <2>2, <3>3
      <4>2. g[n] = a[n] /\ g[n - 1] = a[n - 1]
        BY <3>3, <4>1
      <4> QED
        BY <2>1, <3>3, <4>1, <4>2
    <3> QED
      BY <3>1, <3>2, <3>3
  <2>4. Is(g, k + 1)
    BY <2>3
  <2> HIDE DEF g, Is
  <2> QED
    BY <2>2, <2>4
<1>3. Len(ms) \in S
  <2> HIDE DEF S
  <2>1. S \subseteq Nat
    BY DEF S
  <2>2. S = Nat
    BY <1>1, <1>2, <2>1, SetInduction
  <2> QED
    BY <2>2
<1>4. \E a : a = [n \in 0 .. Len(ms) |-> IF n = 0 THEN f ELSE Reads(a[n - 1], ms[n])]
  BY <1>3
<1> HIDE DEF Is, S
<1> QED
  BY <1>4 DEF Reading, Reads, Window!Shown

\* Before the first packet, and after each.
LEMMA ReadingFirst ==
  ASSUME NEW f, NEW ms, Len(ms) \in Nat
  PROVE  Reading(f, ms)[0] = f
<1> DEFINE a == Reading(f, ms)
           N == Len(ms)
<1>1. a = [n \in 0 .. N |-> IF n = 0 THEN f ELSE Reads(a[n - 1], ms[n])]
  BY ReadingDefined
<1>2. N \in Nat
  OBVIOUS
<1> HIDE DEF a, N
<1>3. a[0] = f
  BY <1>1, <1>2
<1> QED
  BY <1>3 DEF a

LEMMA ReadingStep ==
  ASSUME NEW f, NEW ms, Len(ms) \in Nat, NEW n \in 1 .. Len(ms)
  PROVE  Reading(f, ms)[n] = Reads(Reading(f, ms)[n - 1], ms[n])
<1> DEFINE a == Reading(f, ms)
           N == Len(ms)
<1>1. a = [k \in 0 .. N |-> IF k = 0 THEN f ELSE Reads(a[k - 1], ms[k])]
  BY ReadingDefined
<1>2. N \in Nat /\ n \in 1 .. N
  OBVIOUS
<1> HIDE DEF a, N
<1>3. a[n] = Reads(a[n - 1], ms[n])
  BY <1>1, <1>2
<1> QED
  BY <1>3 DEF a

\* Two streams, one behind the other.
ReadingJoin(f, a, b) ==
    /\ \A n \in 0 .. Len(a) : Reading(f, a \o b)[n] = Reading(f, a)[n]
    /\ \A n \in 0 .. Len(b) :
           Reading(f, a \o b)[Len(a) + n] = Reading(ReadAll(f, a), b)[n]

LEMMA ReadingConcat ==
  ASSUME NEW M, NEW v, NEW a \in Seq(M), NEW b \in Seq(M)
  PROVE  ReadingJoin(v, a, b)
<1> DEFINE c == a \o b
           f == Reading(v, c)
           g == Reading(v, a)
           u == ReadAll(v, a)
           h == Reading(u, b)
           A == Len(a)
           B == Len(b)
<1>1. /\ A \in Nat /\ B \in Nat /\ Len(c) = A + B
      /\ \A i \in 1 .. A : c[i] = a[i]
      /\ \A i \in 1 .. B : c[A + i] = b[i]
  BY LenProperties, ConcatProperties
<1>2. f[0] = v /\ \A n \in 1 .. A + B : f[n] = Reads(f[n - 1], c[n])
  <2> HIDE DEF c
  <2> QED
    BY <1>1, ReadingFirst, ReadingStep
<1>3. g[0] = v /\ \A n \in 1 .. A : g[n] = Reads(g[n - 1], a[n])
  BY <1>1, ReadingFirst, ReadingStep
<1>4. h[0] = u /\ \A n \in 1 .. B : h[n] = Reads(h[n - 1], b[n])
  BY <1>1, ReadingFirst, ReadingStep
<1>5. u = g[A]
  BY DEF ReadAll, Reading, Window!Process
<1> HIDE DEF f, g, u, h, A, B, c
<1>6. \A n \in 0 .. A : f[n] = g[n]
  <2> DEFINE S == {n \in Nat : n <= A => f[n] = g[n]}
  <2>1. 0 \in S
    BY <1>2, <1>3
  <2>2. ASSUME NEW n \in S PROVE n + 1 \in S
    <3>1. n \in Nat
      OBVIOUS
    <3>2. ASSUME n + 1 <= A PROVE f[n + 1] = g[n + 1]
      <4>1. n + 1 \in 1 .. A /\ n + 1 \in 1 .. A + B /\ n <= A /\ (n + 1) - 1 = n
        BY <1>1, <3>1, <3>2
      <4>2. f[n] = g[n]
        BY <4>1
      <4>3. f[n + 1] = Reads(f[n], c[n + 1]) /\ g[n + 1] = Reads(g[n], a[n + 1])
        BY <1>2, <1>3, <4>1
      <4> QED
        BY <1>1, <4>1, <4>2, <4>3
    <3> QED
      BY <3>1, <3>2
  <2> HIDE DEF S
  <2>3. S \subseteq Nat
    BY DEF S
  <2>4. S = Nat
    BY <2>1, <2>2, <2>3, SetInduction
  <2> QED
    BY <1>1, <2>4 DEF S
<1>7. \A n \in 0 .. B : f[A + n] = h[n]
  <2> DEFINE S == {n \in Nat : n <= B => f[A + n] = h[n]}
  <2>1. 0 \in S
    BY <1>1, <1>4, <1>5, <1>6
  <2>2. ASSUME NEW n \in S PROVE n + 1 \in S
    <3>1. n \in Nat
      OBVIOUS
    <3>2. ASSUME n + 1 <= B PROVE f[A + (n + 1)] = h[n + 1]
      <4>1. /\ n + 1 \in 1 .. B /\ A + (n + 1) \in 1 .. A + B /\ n <= B
            /\ (n + 1) - 1 = n /\ (A + (n + 1)) - 1 = A + n
        BY <1>1, <3>1, <3>2
      <4>2. f[A + n] = h[n]
        BY <4>1
      <4>3. f[A + (n + 1)] = Reads(f[A + n], c[A + (n + 1)])
        BY <1>2, <4>1
      <4>4. h[n + 1] = Reads(h[n], b[n + 1])
        BY <1>4, <4>1
      <4> QED
        BY <1>1, <4>1, <4>2, <4>3, <4>4
    <3> QED
      BY <3>1, <3>2
  <2> HIDE DEF S
  <2>3. S \subseteq Nat
    BY DEF S
  <2>4. S = Nat
    BY <2>1, <2>2, <2>3, SetInduction
  <2> QED
    BY <1>1, <2>4 DEF S
<1> QED
  BY <1>6, <1>7 DEF f, g, u, h, A, B, c, ReadingJoin

LEMMA ReadConcat ==
  ASSUME NEW M, NEW f, NEW a \in Seq(M), NEW b \in Seq(M)
  PROVE  ReadAll(f, a \o b) = ReadAll(ReadAll(f, a), b)
<1>1. Len(b) \in Nat /\ Len(b) \in 0 .. Len(b) /\ Len(a \o b) = Len(a) + Len(b)
  BY LenProperties, ConcatProperties
<1>2. ReadingJoin(f, a, b)
  BY ReadingConcat
<1>3. Reading(f, a \o b)[Len(a) + Len(b)] = Reading(ReadAll(f, a), b)[Len(b)]
  BY <1>1, <1>2, Zenon DEF ReadingJoin
<1> QED
  BY <1>1, <1>3 DEF ReadAll, Reading, Window!Process

\* No packet and one.
LEMMA ReadNone ==
  ASSUME NEW f
  PROVE  ReadAll(f, <<>>) = f
<1>1. Reading(f, <<>>)[0] = f
  BY ReadingFirst
<1> QED
  BY <1>1 DEF ReadAll, Reading, Window!Process

LEMMA ReadOne ==
  ASSUME NEW f, NEW m
  PROVE  ReadAll(f, <<m>>) = Reads(f, m)
<1> DEFINE s == <<m>>
<1>1. Len(s) = 1 /\ s[1] = m /\ 1 \in 1 .. 1
  OBVIOUS
<1> HIDE DEF s
<1>2. Reading(f, s)[0] = f /\ Reading(f, s)[1] = Reads(Reading(f, s)[1 - 1], s[1])
  BY <1>1, ReadingFirst, ReadingStep
<1> QED
  BY <1>1, <1>2 DEF ReadAll, Reading, Window!Process, s

\* Events in place, along two streams, none, and one packet.
LEMMA InPlaceConcat ==
  ASSUME NEW M, NEW f, NEW a \in Seq(M), NEW b \in Seq(M),
         InPlace(f, a), InPlace(ReadAll(f, a), b)
  PROVE  InPlace(f, a \o b)
<1> DEFINE c == a \o b
           A == Len(a)
           B == Len(b)
           g == ReadAll(f, a)
<1>1. /\ A \in Nat /\ B \in Nat /\ Len(c) = A + B
      /\ \A i \in 1 .. A : c[i] = a[i]
      /\ \A i \in 1 .. B : c[A + i] = b[i]
  BY LenProperties, ConcatProperties
<1>2. /\ \A n \in 0 .. A : Reading(f, c)[n] = Reading(f, a)[n]
      /\ \A n \in 0 .. B : Reading(f, c)[A + n] = Reading(g, b)[n]
  <2>1. ReadingJoin(f, a, b)
    BY ReadingConcat
  <2> QED
    BY <2>1 DEF ReadingJoin
<1>3. /\ \A i \in 1 .. A : a[i].type \in RoomEvent =>
                              a[i].room_id = Reading(f, a)[i - 1].current_room_id
      /\ \A i \in 1 .. B : b[i].type \in RoomEvent =>
                              b[i].room_id = Reading(g, b)[i - 1].current_room_id
  BY DEF InPlace
<1> HIDE DEF A, B, c, g
<1>4. ASSUME NEW i \in 1 .. A + B, c[i].type \in RoomEvent
      PROVE  c[i].room_id = Reading(f, c)[i - 1].current_room_id
  <2>1. CASE i <= A
    <3>1. i \in 1 .. A /\ i - 1 \in 0 .. A
      BY <1>1, <2>1
    <3> QED
      BY <1>1, <1>2, <1>3, <1>4, <3>1
  <2>2. CASE i > A
    <3>1. PICK k \in 1 .. B : i = A + k /\ k - 1 \in 0 .. B /\ i - 1 = A + (k - 1)
      <4>1. i - A \in 1 .. B /\ i = A + (i - A) /\ (i - A) - 1 \in 0 .. B
            /\ i - 1 = A + ((i - A) - 1)
        BY <1>1, <2>2
      <4> QED
        BY <4>1
    <3>2. c[i] = b[k] /\ Reading(f, c)[i - 1] = Reading(g, b)[k - 1]
      BY <1>1, <1>2, <3>1
    <3> QED
      BY <1>3, <1>4, <3>2
  <2> QED
    BY <1>1, <2>1, <2>2
<1> QED
  BY <1>1, <1>4 DEF InPlace, c

LEMMA InPlaceNone ==
  ASSUME NEW f
  PROVE  InPlace(f, <<>>)
  BY DEF InPlace

LEMMA InPlaceOne ==
  ASSUME NEW f, NEW m, m.type \in RoomEvent => m.room_id = f.current_room_id
  PROVE  InPlace(f, <<m>>)
<1> DEFINE s == <<m>>
<1>1. Len(s) = 1 /\ s[1] = m
  OBVIOUS
<1> HIDE DEF s
<1>2. Reading(f, s)[0] = f
  BY <1>1, ReadingFirst
<1>3. \A i \in 1 .. 1 : i = 1 /\ i - 1 = 0
  OBVIOUS
<1>4. InPlace(f, s)
  BY <1>1, <1>2, <1>3 DEF InPlace
<1> QED
  BY <1>4 DEF s

\* Two packets.
LEMMA ReadTwo ==
  ASSUME NEW f, NEW m, NEW p, m.type \notin RoomEvent, p.type \notin RoomEvent
  PROVE  /\ ReadAll(f, <<m, p>>) = Reads(Reads(f, m), p)
         /\ InPlace(f, <<m, p>>)
<1> DEFINE s == <<m, p>>
<1>1. Len(s) = 2 /\ s[1] = m /\ s[2] = p
  OBVIOUS
<1> HIDE DEF s
<1>2. Len(s) \in Nat /\ 1 \in 1 .. Len(s) /\ 2 \in 1 .. Len(s)
  BY <1>1
<1>3. Reading(f, s)[0] = f
  BY <1>2, ReadingFirst
<1>4. Reading(f, s)[1] = Reads(Reading(f, s)[1 - 1], s[1])
  BY <1>2, ReadingStep
<1>5. Reading(f, s)[2] = Reads(Reading(f, s)[2 - 1], s[2])
  BY <1>2, ReadingStep
<1>6. ReadAll(f, s) = Reading(f, s)[2]
  BY <1>1 DEF ReadAll, Reading, Window!Process
<1>7. InPlace(f, s)
  <2>1. \A i \in 1 .. 2 : i = 1 \/ i = 2
    OBVIOUS
  <2> QED
    BY <1>1, <2>1 DEF InPlace
<1> QED
  BY <1>1, <1>3, <1>4, <1>5, <1>6, <1>7 DEF s

-----------------------------------------------------------------------------
(* Each packet.                                                            *)

\* One member of a window is assigned.
LEMMA SetUsers ==
  ASSUME NEW f, IsFrame(f), NEW x \in SUBSET Names
  PROVE  /\ IsFrame([f EXCEPT !.user_list = x])
         /\ [f EXCEPT !.user_list = x].user_list = x
         /\ [f EXCEPT !.user_list = x].current_room_id = f.current_room_id
  BY DEF IsFrame

LEMMA SetRoom ==
  ASSUME NEW f, IsFrame(f), NEW x
  PROVE  /\ IsFrame([f EXCEPT !.current_room_id = x])
         /\ [f EXCEPT !.current_room_id = x].current_room_id = x
         /\ [f EXCEPT !.current_room_id = x].user_list = f.user_list
  BY DEF IsFrame

LEMMA SetRooms ==
  ASSUME NEW f, IsFrame(f), NEW x
  PROVE  IsFrame([f EXCEPT !.rooms = x]) /\ SameView(f, [f EXCEPT !.rooms = x])
  BY DEF IsFrame, SameView

\* AddUser and RemoveUser: exact for the names that cannot be mistaken.
LEMMA AddUserLists ==
  ASSUME NEW f, IsFrame(f), NEW n \in Names \cup {EmptyName}
  PROVE  /\ IsFrame(Window!AddUser(f, n))
         /\ Window!AddUser(f, n).current_room_id = f.current_room_id
         /\ Listed(Window!AddUser(f, n)) = Listed(f) \cup ({n} \cap Distinct)
<1> DEFINE found == {m \in f.user_list : Fold[m] = Fold[n]}
<1>1. f.user_list \subseteq Names /\ EmptyName \notin Distinct
  BY RoomSystemAssumption DEF IsFrame, Distinct
<1>2. Window!Found(f, n) = found
  BY DEF Window!Found
<1>3. CASE n = EmptyName \/ found # {}
  <2>1. Window!AddUser(f, n) = f
    BY <1>2, <1>3 DEF Window!AddUser
  <2>2. n \in Distinct => n \in f.user_list
    BY <1>1, <1>3 DEF Distinct
  <2> QED
    BY <2>1, <2>2 DEF Listed
<1>4. CASE n # EmptyName /\ found = {}
  <2>1. Window!AddUser(f, n) = [f EXCEPT !.user_list = f.user_list \cup {n}]
    BY <1>2, <1>4 DEF Window!AddUser
  <2>2. f.user_list \cup {n} \in SUBSET Names
    BY <1>1, <1>4
  <2> QED
    BY <2>1, <2>2, SetUsers DEF Listed
<1> QED
  BY <1>3, <1>4

LEMMA RemoveUserLists ==
  ASSUME NEW f, IsFrame(f), NEW n \in Names \cup {EmptyName}
  PROVE  /\ IsFrame(Window!RemoveUser(f, n))
         /\ Window!RemoveUser(f, n).current_room_id = f.current_room_id
         /\ Listed(Window!RemoveUser(f, n)) = Listed(f) \ {n}
<1> DEFINE found == {m \in f.user_list : Fold[m] = Fold[n]}
<1>1. f.user_list \subseteq Names /\ EmptyName \notin Distinct
  BY RoomSystemAssumption DEF IsFrame, Distinct
<1>2. Window!Found(f, n) = found
  BY DEF Window!Found
<1>3. CASE n = EmptyName
  <2>1. Window!RemoveUser(f, n) = f
    BY <1>3 DEF Window!RemoveUser
  <2> QED
    BY <1>1, <1>3, <2>1 DEF Listed
<1>4. CASE n # EmptyName
  <2>1. Window!RemoveUser(f, n) = [f EXCEPT !.user_list = f.user_list \ found]
    BY <1>2, <1>4 DEF Window!RemoveUser
  <2>2. f.user_list \ found \in SUBSET Names
    BY <1>1
  <2>3. (f.user_list \ found) \cap Distinct = (f.user_list \cap Distinct) \ {n}
    BY <1>1, <1>4 DEF Distinct
  <2> HIDE DEF found
  <2> QED
    BY <2>1, <2>2, <2>3, SetUsers DEF Listed
<1> QED
  BY <1>3, <1>4

\* A packet that tells nothing of places.
LEMMA ReadsSilent ==
  ASSUME NEW f, IsFrame(f), NEW m, Silent(m) \/ m.type = "ChatBroadcast"
  PROVE  IsFrame(Reads(f, m)) /\ SameView(f, Reads(f, m))
<1> DEFINE es == Window!DecodePacket(m)
<1>0. SameView(f, f)
  BY DEF SameView
<1>1. CASE m.type = "RoomListResponse"
  <2>1. es = <<[type |-> "RoomList", rooms |-> DOMAIN m.rooms]>>
    BY <1>1 DEF Window!DecodePacket
  <2>2. Reads(f, m) = [f EXCEPT !.rooms = DOMAIN m.rooms]
    BY <2>1 DEF Reads, Window!ShowPacket, Window!ProcessProtocolEvent
  <2> QED
    BY <2>2, SetRooms
<1>2. CASE m.type = "DisconnectResponse" \/ m.type = "LeaveRoomResponse"
  <2>1. es = <<>>
    BY <1>2 DEF Window!DecodePacket
  <2> QED
    BY <1>0, <2>1 DEF Reads, Window!ShowPacket
<1>3. CASE m.type = "SystemMessageEvent"
  <2>1. es = <<[type |-> "SystemMessage"]>>
    BY <1>3 DEF Window!DecodePacket
  <2> QED
    BY <1>0, <2>1 DEF Reads, Window!ShowPacket, Window!ProcessProtocolEvent
<1>4. CASE m.type = "ChatBroadcast"
  <2>1. es = <<[type |-> "MessageReceived"]>>
    BY <1>4 DEF Window!DecodePacket
  <2> QED
    BY <1>0, <2>1 DEF Reads, Window!ShowPacket, Window!ProcessProtocolEvent
<1>5. CASE m.type = "LoginResponse" /\ ~m.success
  <2>1. es = <<[type |-> "LoginFailed"]>>
    BY <1>5 DEF Window!DecodePacket
  <2> QED
    BY <1>0, <2>1 DEF Reads, Window!ShowPacket, Window!ProcessProtocolEvent
<1>6. CASE m.type = "JoinRoomResponse" /\ ~m.success
  <2>1. es = <<[type |-> "JoinFailed"]>>
    BY <1>6 DEF Window!DecodePacket
  <2> QED
    BY <1>0, <2>1 DEF Reads, Window!ShowPacket, Window!ProcessProtocolEvent
<1> QED
  BY <1>1, <1>2, <1>3, <1>4, <1>5, <1>6 DEF Silent

\* An accepted login.
LEMMA ReadsLogin ==
  ASSUME NEW f, IsFrame(f), NEW m, m.type = "LoginResponse", m.success,
         m.user.display_name \in Names \cup {EmptyName}
  PROVE  /\ IsFrame(Reads(f, m))
         /\ Reads(f, m).current_room_id = f.current_room_id
         /\ Listed(Reads(f, m)) = Listed(f) \cup ({m.user.display_name} \cap Distinct)
<1> DEFINE n == m.user.display_name
<1>1. Window!DecodePacket(m) = <<[type |-> "LoginSucceeded", display_name |-> n]>>
  BY DEF Window!DecodePacket
<1> HIDE DEF n
<1>2. Reads(f, m) = Window!AddUser(f, IF n = EmptyName THEN EmptyName ELSE n)
  BY <1>1 DEF Reads, Window!ShowPacket, Window!ProcessProtocolEvent
<1>3. Reads(f, m) = Window!AddUser(f, n)
  BY <1>2
<1>4. n \in Names \cup {EmptyName}
  BY DEF n
<1> QED
  BY <1>3, <1>4, AddUserLists DEF n

\* A room joined.
LEMMA ReadsJoin ==
  ASSUME NEW f, IsFrame(f), NEW m, m.type = "JoinRoomResponse", m.success,
         m.room.room_id # 0
  PROVE  /\ IsFrame(Reads(f, m))
         /\ Reads(f, m).current_room_id = m.room.room_id
         /\ Reads(f, m).user_list = f.user_list
<1>1. m.room # Window!NoRoom
  BY DEF Window!NoRoom
<1>2. Window!DecodePacket(m) = <<[type |-> "JoinSucceeded", room_id |-> m.room.room_id]>>
  BY <1>1 DEF Window!DecodePacket
<1>3. Reads(f, m) = [f EXCEPT !.current_room_id = m.room.room_id]
  BY <1>2 DEF Reads, Window!ShowPacket, Window!ProcessProtocolEvent
<1> QED
  BY <1>3, SetRoom

\* Somebody comes, somebody goes.
LEMMA ReadsUserJoined ==
  ASSUME NEW f, IsFrame(f), NEW m, m.type = "UserJoinedEvent",
         m.user.display_name \in Names \cup {EmptyName}
  PROVE  /\ IsFrame(Reads(f, m))
         /\ Reads(f, m).current_room_id = f.current_room_id
         /\ Listed(Reads(f, m)) = Listed(f) \cup ({m.user.display_name} \cap Distinct)
<1> DEFINE n == m.user.display_name
<1>1. CASE m.user = Window!NoUser
  <2>1. n = EmptyName
    BY <1>1 DEF Window!NoUser
  <2>2. Window!DecodePacket(m) = <<>>
    BY <1>1 DEF Window!DecodePacket, Window!UserEvent
  <2>3. Reads(f, m) = f
    BY <2>2 DEF Reads, Window!ShowPacket
  <2>4. EmptyName \notin Distinct
    BY RoomSystemAssumption DEF Distinct
  <2> QED
    BY <2>1, <2>3, <2>4
<1>2. CASE m.user # Window!NoUser
  <2>1. Window!DecodePacket(m) = <<[type |-> "UserJoined", display_name |-> n]>>
    BY <1>2 DEF Window!DecodePacket, Window!UserEvent
  <2>2. n \in Names \cup {EmptyName}
    OBVIOUS
  <2> HIDE DEF n
  <2>3. Reads(f, m) = Window!AddUser(f, n)
    BY <2>1 DEF Reads, Window!ShowPacket, Window!ProcessProtocolEvent
  <2> QED
    BY <2>2, <2>3, AddUserLists DEF n
<1> QED
  BY <1>1, <1>2

LEMMA ReadsUserLeft ==
  ASSUME NEW f, IsFrame(f), NEW m, m.type = "UserLeftEvent",
         m.user.display_name \in Names \cup {EmptyName}
  PROVE  /\ IsFrame(Reads(f, m))
         /\ Reads(f, m).current_room_id = f.current_room_id
         /\ Listed(Reads(f, m)) = Listed(f) \ {m.user.display_name}
<1> DEFINE n == m.user.display_name
<1>1. CASE m.user = Window!NoUser
  <2>1. n = EmptyName
    BY <1>1 DEF Window!NoUser
  <2>2. Window!DecodePacket(m) = <<>>
    BY <1>1 DEF Window!DecodePacket, Window!UserEvent
  <2>3. Reads(f, m) = f
    BY <2>2 DEF Reads, Window!ShowPacket
  <2>4. EmptyName \notin Listed(f)
    BY RoomSystemAssumption DEF Distinct, Listed
  <2> QED
    BY <2>1, <2>3, <2>4
<1>2. CASE m.user # Window!NoUser
  <2>1. Window!DecodePacket(m) = <<[type |-> "UserLeft", display_name |-> n]>>
    BY <1>2 DEF Window!DecodePacket, Window!UserEvent
  <2>2. n \in Names \cup {EmptyName}
    OBVIOUS
  <2> HIDE DEF n
  <2>3. Reads(f, m) = Window!RemoveUser(f, n)
    BY <2>1 DEF Reads, Window!ShowPacket, Window!ProcessProtocolEvent
  <2> QED
    BY <2>2, <2>3, RemoveUserLists DEF n
<1> QED
  BY <1>1, <1>2

\* The kinds of packet there are.
LEMMA PacketKinds ==
  ASSUME NEW m \in Payload
  PROVE  \/ Silent(m) \/ m.type = "ChatBroadcast"
         \/ m.type = "LeaveRoomResponse"
         \/ /\ m.type = "LoginResponse" /\ m.success
            /\ m.user.display_name \in Names \cup {EmptyName}
         \/ m.type = "JoinRoomResponse" /\ m.success
         \/ /\ m.type \in {"UserJoinedEvent", "UserLeftEvent"}
            /\ m.user.display_name \in Names \cup {EmptyName}
  BY DEF Payload, Silent, UserInfo, NoUser

\* Every packet leaves a frame.
LEMMA ReadsType ==
  ASSUME NEW f, IsFrame(f), NEW m \in Payload
  PROVE  IsFrame(Reads(f, m))
<1>1. CASE Silent(m) \/ m.type = "ChatBroadcast"
  BY <1>1, ReadsSilent
<1>2. CASE m.type = "LeaveRoomResponse"
  <2>1. Window!DecodePacket(m) = <<>>
    BY <1>2 DEF Window!DecodePacket
  <2> QED
    BY <2>1 DEF Reads, Window!ShowPacket
<1>3. CASE /\ m.type = "LoginResponse" /\ m.success
           /\ m.user.display_name \in Names \cup {EmptyName}
  BY <1>3, ReadsLogin
<1>4. CASE m.type = "JoinRoomResponse" /\ m.success
  <2>1. CASE m.room = Window!NoRoom
    <3>1. Window!DecodePacket(m) = <<[type |-> "JoinFailed"]>>
      BY <1>4, <2>1 DEF Window!DecodePacket
    <3> QED
      BY <3>1 DEF Reads, Window!ShowPacket, Window!ProcessProtocolEvent
  <2>2. CASE m.room # Window!NoRoom
    <3>1. Window!DecodePacket(m) = <<[type |-> "JoinSucceeded", room_id |-> m.room.room_id]>>
      BY <1>4, <2>2 DEF Window!DecodePacket
    <3>2. Reads(f, m) = [f EXCEPT !.current_room_id = m.room.room_id]
      BY <3>1 DEF Reads, Window!ShowPacket, Window!ProcessProtocolEvent
    <3> QED
      BY <3>2, SetRoom
  <2> QED
    BY <2>1, <2>2
<1>5. CASE /\ m.type \in {"UserJoinedEvent", "UserLeftEvent"}
           /\ m.user.display_name \in Names \cup {EmptyName}
  BY <1>5, ReadsUserJoined, ReadsUserLeft
<1> QED
  BY <1>1, <1>2, <1>3, <1>4, <1>5, PacketKinds

\* Frames that show the same still do after the same packet.
LEMMA EventSame ==
  ASSUME NEW f, NEW g, IsFrame(f), IsFrame(g), SameView(f, g), NEW e
  PROVE  SameView(Window!ProcessProtocolEvent(f, e, EmptyName),
                  Window!ProcessProtocolEvent(g, e, EmptyName))
<1>1. ASSUME NEW x
      PROVE  /\ SameView([f EXCEPT !.user_list = x], [g EXCEPT !.user_list = x])
             /\ SameView([f EXCEPT !.current_room_id = x], [g EXCEPT !.current_room_id = x])
             /\ SameView([f EXCEPT !.rooms = x], [g EXCEPT !.rooms = x])
  BY DEF SameView, IsFrame
<1>2. f.user_list = g.user_list
  BY DEF SameView
<1>3. ASSUME NEW n PROVE SameView(Window!AddUser(f, n), Window!AddUser(g, n))
  <2>1. Window!Found(f, n) = Window!Found(g, n)
    BY <1>2 DEF Window!Found
  <2>2. CASE n = EmptyName \/ Window!Found(f, n) # {}
    BY <2>1, <2>2 DEF Window!AddUser
  <2>3. CASE ~(n = EmptyName \/ Window!Found(f, n) # {})
    <3>1. /\ Window!AddUser(f, n) = [f EXCEPT !.user_list = f.user_list \cup {n}]
          /\ Window!AddUser(g, n) = [g EXCEPT !.user_list = f.user_list \cup {n}]
      BY <1>2, <2>1, <2>3 DEF Window!AddUser
    <3> QED
      BY <1>1, <3>1
  <2> QED
    BY <2>2, <2>3
<1>4. ASSUME NEW n PROVE SameView(Window!RemoveUser(f, n), Window!RemoveUser(g, n))
  <2>1. Window!Found(f, n) = Window!Found(g, n)
    BY <1>2 DEF Window!Found
  <2>2. CASE n = EmptyName
    BY <2>2 DEF Window!RemoveUser
  <2>3. CASE n # EmptyName
    <3> DEFINE x == f.user_list \ Window!Found(f, n)
    <3>1. /\ Window!RemoveUser(f, n) = [f EXCEPT !.user_list = x]
          /\ Window!RemoveUser(g, n) = [g EXCEPT !.user_list = x]
      BY <1>2, <2>1, <2>3 DEF Window!RemoveUser
    <3> QED
      BY <1>1, <3>1
  <2> QED
    BY <2>2, <2>3
<1> QED
  BY <1>1, <1>3, <1>4 DEF Window!ProcessProtocolEvent

LEMMA ReadsSame ==
  ASSUME NEW f, NEW g, IsFrame(f), IsFrame(g), SameView(f, g), NEW m
  PROVE  SameView(Reads(f, m), Reads(g, m))
  BY EventSame DEF Reads, Window!ShowPacket

\* Along a stream frames stay frames, and two that show the same do so all along.
LEMMA ReadingSame ==
  ASSUME NEW f, NEW g, IsFrame(f), IsFrame(g), SameView(f, g),
         NEW ms \in Seq(Payload), NEW n \in 0 .. Len(ms)
  PROVE  /\ IsFrame(Reading(f, ms)[n]) /\ IsFrame(Reading(g, ms)[n])
         /\ SameView(Reading(f, ms)[n], Reading(g, ms)[n])
<1> DEFINE N == Len(ms)
           a == Reading(f, ms)
           b == Reading(g, ms)
           Good(k) == IsFrame(a[k]) /\ IsFrame(b[k]) /\ SameView(a[k], b[k])
           S == {k \in Nat : k <= N => Good(k)}
<1> HIDE DEF Payload
<1>1. N \in Nat /\ \A k \in 1 .. N : ms[k] \in Payload
  OBVIOUS
<1>2. a[0] = f /\ b[0] = g
  BY <1>1, ReadingFirst
<1>3. \A k \in 1 .. N : a[k] = Reads(a[k - 1], ms[k]) /\ b[k] = Reads(b[k - 1], ms[k])
  BY <1>1, ReadingStep
<1> HIDE DEF a, b
<1>4. 0 \in S
  BY <1>2
<1>5. ASSUME NEW k \in S PROVE k + 1 \in S
  <2>1. k \in Nat
    OBVIOUS
  <2> HIDE DEF N
  <2>2. ASSUME k + 1 <= N PROVE Good(k + 1)
    <3>1. k + 1 \in 1 .. N /\ k <= N /\ (k + 1) - 1 = k
      BY <1>1, <2>1, <2>2
    <3>2. Good(k) /\ ms[k + 1] \in Payload
      BY <1>1, <3>1
    <3>3. a[k + 1] = Reads(a[k], ms[k + 1]) /\ b[k + 1] = Reads(b[k], ms[k + 1])
      BY <1>3, <3>1
    <3>4. /\ IsFrame(Reads(a[k], ms[k + 1])) /\ IsFrame(Reads(b[k], ms[k + 1]))
          /\ SameView(Reads(a[k], ms[k + 1]), Reads(b[k], ms[k + 1]))
      BY <3>2, ReadsType, ReadsSame
    <3> QED
      BY <3>3, <3>4
  <2> QED
    BY <2>1, <2>2
<1>6. S = Nat
  <2> HIDE DEF S
  <2>1. S \subseteq Nat
    BY DEF S
  <2> QED
    BY <1>4, <1>5, <2>1, SetInduction
<1>7. Good(n)
  <2>1. n \in Nat /\ n <= N
    BY <1>1
  <2>2. n \in S
    BY <1>6, <2>1
  <2> HIDE DEF Good, N
  <2> QED
    BY <2>1, <2>2
<1> QED
  BY <1>7 DEF a, b

LEMMA ReadType ==
  ASSUME NEW f, IsFrame(f), NEW ms \in Seq(Payload)
  PROVE  IsFrame(ReadAll(f, ms))
<1> HIDE DEF Payload
<1>1. SameView(f, f) /\ Len(ms) \in 0 .. Len(ms)
  BY DEF SameView
<1>2. IsFrame(Reading(f, ms)[Len(ms)])
  BY <1>1, ReadingSame
<1> QED
  BY <1>2 DEF ReadAll, Reading, Window!Process

LEMMA ReadSame ==
  ASSUME NEW f, NEW g, IsFrame(f), IsFrame(g), SameView(f, g), NEW ms \in Seq(Payload)
  PROVE  SameView(ReadAll(f, ms), ReadAll(g, ms))
<1> HIDE DEF Payload
<1>1. Len(ms) \in 0 .. Len(ms)
  OBVIOUS
<1>2. SameView(Reading(f, ms)[Len(ms)], Reading(g, ms)[Len(ms)])
  BY <1>1, ReadingSame
<1> QED
  BY <1>2 DEF ReadAll, Reading, Window!Process

LEMMA InPlaceSame ==
  ASSUME NEW f, NEW g, IsFrame(f), IsFrame(g), SameView(f, g), NEW ms \in Seq(Payload),
         InPlace(f, ms)
  PROVE  InPlace(g, ms)
<1> HIDE DEF Payload
<1>1. Len(ms) \in Nat
  OBVIOUS
<1>2. ASSUME NEW i \in 1 .. Len(ms)
      PROVE  Reading(f, ms)[i - 1].current_room_id = Reading(g, ms)[i - 1].current_room_id
  <2>1. i - 1 \in 0 .. Len(ms)
    BY <1>1
  <2>2. SameView(Reading(f, ms)[i - 1], Reading(g, ms)[i - 1])
    BY <2>1, ReadingSame
  <2> QED
    BY <2>2 DEF SameView
<1> QED
  BY <1>2 DEF InPlace

\* The introductions of EnterRoom: all of them in place, and all of them listed.
LEMMA ReadRoll ==
  ASSUME NEW q, NEW names \in Naming, NEW order \in Seq(SessionIds),
         NEW f, IsFrame(f), f.current_room_id = q
  PROVE  LET g == ReadAll(f, Roll(q, order, names))
         IN  /\ IsFrame(g) /\ g.current_room_id = q
             /\ Listed(g) = Listed(f) \cup ({names[order[i]] : i \in DOMAIN order} \cap Distinct)
             /\ InPlace(f, Roll(q, order, names))
<1> DEFINE N == Len(order)
           ms == Roll(q, order, names)
           a == Reading(f, ms)
           Met(n) == {names[order[i]] : i \in 1 .. n}
           Good(n) == /\ IsFrame(a[n]) /\ a[n].current_room_id = q
                      /\ Listed(a[n]) = Listed(f) \cup (Met(n) \cap Distinct)
           S == {n \in Nat : n <= N => Good(n)}
<1>1. N \in Nat /\ DOMAIN order = 1 .. N
  BY LenProperties
<1>2. /\ Len(ms) = N
      /\ \A n \in 1 .. N : ms[n] = UserJoinedEvent(q, Info(names, order[n]))
  <2>1. ms = [i \in 1 .. N |-> UserJoinedEvent(q, Info(names, order[i]))]
    BY <1>1 DEF Roll
  <2> HIDE DEF N, ms
  <2> QED
    BY <1>1, <2>1
<1>3. \A n \in 1 .. N : /\ ms[n].type = "UserJoinedEvent" /\ ms[n].room_id = q
                        /\ ms[n].user.display_name = names[order[n]]
                        /\ names[order[n]] \in Names \cup {EmptyName}
  <2> HIDE DEF ms
  <2>1. \A n \in 1 .. N : names[order[n]] \in Names \cup {EmptyName}
    BY <1>1 DEF Naming
  <2> HIDE DEF N
  <2> QED
    BY <1>2, <2>1 DEF UserJoinedEvent, Info
<1> HIDE DEF ms
<1>4. a[0] = f
  BY <1>1, <1>2, ReadingFirst
<1>5. \A n \in 1 .. N : a[n] = Reads(a[n - 1], ms[n])
  BY <1>1, <1>2, ReadingStep
<1> HIDE DEF a, N
<1>6. 0 \in S
  <2>1. Met(0) = {}
    OBVIOUS
  <2> HIDE DEF Met
  <2>2. Good(0)
    BY <1>4, <2>1
  <2> QED
    BY <2>2
<1>7. ASSUME NEW n \in S PROVE n + 1 \in S
  <2>1. n \in Nat
    OBVIOUS
  <2>2. ASSUME n + 1 <= N PROVE Good(n + 1)
    <3>1. n + 1 \in 1 .. N /\ (n + 1) - 1 = n /\ n <= N
      BY <1>1, <2>1, <2>2
    <3>2. Good(n)
      BY <3>1
    <3> DEFINE m == ms[n + 1]
               new == names[order[n + 1]]
    <3>3. /\ a[n + 1] = Reads(a[n], m)
          /\ m.type = "UserJoinedEvent" /\ m.user.display_name = new
          /\ new \in Names \cup {EmptyName}
      BY <1>3, <1>5, <3>1
    <3>4. Met(n + 1) = Met(n) \cup {new}
      <4>1. \A i \in 1 .. n + 1 : i \in 1 .. n \/ i = n + 1
        BY <2>1
      <4>2. \A i \in 1 .. n : i \in 1 .. n + 1
        BY <2>1
      <4>3. n + 1 \in 1 .. n + 1
        BY <2>1
      <4> QED
        BY <4>1, <4>2, <4>3
    <3> HIDE DEF Met, m, new
    <3>5. /\ IsFrame(Reads(a[n], m))
          /\ Reads(a[n], m).current_room_id = a[n].current_room_id
          /\ Listed(Reads(a[n], m)) = Listed(a[n]) \cup ({new} \cap Distinct)
      BY <3>2, <3>3, ReadsUserJoined
    <3> QED
      BY <3>2, <3>3, <3>4, <3>5
  <2> QED
    BY <2>1, <2>2
<1>8. S = Nat
  <2> HIDE DEF S
  <2>1. S \subseteq Nat
    BY DEF S
  <2> QED
    BY <1>6, <1>7, <2>1, SetInduction
<1>9. ASSUME NEW n \in 0 .. N PROVE Good(n)
  <2>1. n \in Nat /\ n <= N
    BY <1>1
  <2>2. n \in S
    BY <1>8, <2>1
  <2> HIDE DEF Good
  <2> QED
    BY <2>1, <2>2
<1>10. InPlace(f, ms)
  <2>1. ASSUME NEW i \in 1 .. N PROVE ms[i].room_id = a[i - 1].current_room_id
    <3>1. i - 1 \in 0 .. N
      BY <1>1
    <3>2. Good(i - 1)
      BY <1>9, <3>1
    <3> QED
      BY <1>3, <3>2
  <2> QED
    BY <1>2, <2>1 DEF InPlace, a
<1>11. N \in 0 .. N /\ ReadAll(f, ms) = a[N]
  BY <1>1, <1>2 DEF ReadAll, Reading, Window!Process, a
<1>12. Good(N)
  BY <1>9, <1>11
<1> HIDE DEF Met
<1>13. Met(N) = {names[order[i]] : i \in DOMAIN order}
  BY <1>1 DEF Met
<1> QED
  BY <1>10, <1>11, <1>12, <1>13 DEF ms

\* The welcome a session gets in its new room.
LEMMA ReadWelcome ==
  ASSUME NEW at, NEW names \in Naming, NEW sid, NEW q \in RoomIds, NEW told,
         Welcomed(at, names, sid, q, told), NEW f, IsFrame(f)
  PROVE  LET g == ReadAll(f, told)
         IN  /\ g.current_room_id = q
             /\ Listed(g) = Listed(f) \cup
                    ({names[u] : u \in {t \in SessionIds : at[t] = q}} \cap Distinct)
             /\ InPlace(f, told)
<1>1. PICK id \in RequestIds, room \in RoomInfo, order \in Seq(SessionIds) :
        /\ room.room_id = q
        /\ {order[i] : i \in DOMAIN order} = {t \in SessionIds : at[t] = q}
        /\ told = <<JoinRoomResponse(id, TRUE, "NONE", room), SystemMessageEvent(q)>>
                  \o Roll(q, order, names)
  BY DEF Welcomed
<1> DEFINE a == JoinRoomResponse(id, TRUE, "NONE", room)
           b == SystemMessageEvent(q)
           roll == Roll(q, order, names)
           pre == <<a, b>>
           M == {a, b} \cup {UserJoinedEvent(q, Info(names, order[i])) : i \in DOMAIN order}
           f1 == Reads(f, a)
           f2 == Reads(f1, b)
           g == ReadAll(f2, roll)
<1>2. q # 0
  BY RoomSystemAssumption DEF no_room_id
<1>3. a.type = "JoinRoomResponse" /\ a.success /\ a.room.room_id = q
  BY <1>1 DEF JoinRoomResponse
<1>4. b.type = "SystemMessageEvent" /\ Silent(b)
  BY DEF SystemMessageEvent, Silent
<1>5. a \in M /\ b \in M
  OBVIOUS
<1>6. roll \in Seq(M)
  <2>1. PICK n \in Nat : DOMAIN order = 1 .. n
    BY <1>1
  <2>2. \A i \in 1 .. n : UserJoinedEvent(q, Info(names, order[i])) \in M
    BY <2>1
  <2>3. roll = [i \in 1 .. n |-> UserJoinedEvent(q, Info(names, order[i]))]
    BY <2>1 DEF Roll
  <2> HIDE DEF M, roll
  <2>4. roll \in [1 .. n -> M]
    BY <2>2, <2>3
  <2> QED
    BY <2>4
<1>7. told = pre \o roll
  BY <1>1
<1> HIDE DEF a, b, roll, M
<1>8. IsFrame(f1) /\ f1.current_room_id = q /\ f1.user_list = f.user_list
  BY <1>2, <1>3, ReadsJoin
<1>9. IsFrame(f2) /\ f2.current_room_id = q /\ f2.user_list = f.user_list
  BY <1>4, <1>8, ReadsSilent DEF SameView
<1>10. /\ IsFrame(g) /\ g.current_room_id = q
       /\ Listed(g) = Listed(f2) \cup ({names[order[i]] : i \in DOMAIN order} \cap Distinct)
       /\ InPlace(f2, roll)
  BY <1>1, <1>9, ReadRoll DEF roll
<1>11. pre \in Seq(M)
  BY <1>5
<1>12. ReadAll(f, pre) = f2 /\ InPlace(f, pre)
  <2>1. a.type \notin RoomEvent /\ b.type \notin RoomEvent
    BY <1>3, <1>4 DEF RoomEvent
  <2> QED
    BY <2>1, ReadTwo
<1> HIDE DEF pre, f1, f2
<1>13. ReadAll(f, told) = g
  <2>1. ReadAll(f, pre \o roll) = ReadAll(ReadAll(f, pre), roll)
    BY ONLY <1>6, <1>11, ReadConcat
  <2> QED
    BY <1>7, <1>12, <2>1
<1>14. InPlace(f, told)
  BY <1>6, <1>7, <1>10, <1>11, <1>12, InPlaceConcat
<1>15. {names[order[i]] : i \in DOMAIN order} =
         {names[u] : u \in {t \in SessionIds : at[t] = q}}
  <2> DEFINE O == {order[i] : i \in DOMAIN order}
  <2>1. {names[order[i]] : i \in DOMAIN order} = {names[u] : u \in O}
    OBVIOUS
  <2> QED
    BY <1>1, <2>1
<1>16. Listed(f2) = Listed(f)
  BY <1>9 DEF Listed
<1> HIDE DEF g
<1> QED
  BY <1>10, <1>13, <1>14, <1>15, <1>16

\* Whatever an event queues for t, its events find the window of t in their room.
LEMMA EffectInPlace ==
  ASSUME NEW rs, NEW new, Coherent(rs), NEW e, e.session_id \in SessionIds,
         e.type # "LeaveRoomRequest",
         NEW d \in Streams, Effect(rs, new, e, d), NEW t \in SessionIds,
         NEW f, IsFrame(f), RoomShown(f, PlaceOf(rs), t)
  PROVE  InPlace(f, d[t])
<1> DEFINE at == PlaceOf(rs)
           names == NameOf(rs)
           sid == e.session_id
<1>1. at \in Places /\ names \in Naming
      /\ Away # no_room_id /\ Away \notin RoomIds /\ no_room_id \notin RoomIds
  BY Presences, RoomSystemAssumption DEF Away, no_room_id
<1>2. ASSUME d[t] = <<>> PROVE InPlace(f, d[t])
  BY <1>2, InPlaceNone
<1>3. ASSUME NEW m, d[t] = <<m>>, m.type \in RoomEvent => m.room_id = f.current_room_id
      PROVE  InPlace(f, d[t])
  BY <1>3, InPlaceOne
<1>4. CASE Stays(rs, new, e, d)
  <2>1. ASSUME NEW m \in Payload, d[t] = <<m>>, Silent(m)
        PROVE  InPlace(f, d[t])
    BY <1>3, <2>1 DEF Silent, RoomEvent
  <2>2. ASSUME NEW m \in Payload, d[t] = <<m>>, m.room_id = at[t], at[t] \in RoomIds
        PROVE  InPlace(f, d[t])
    BY <1>3, <2>2 DEF RoomShown
  <2> QED
    BY <1>2, <1>4, <2>1, <2>2 DEF Stays, Quiet
<1>5. CASE Arrives(rs, new, e, d)
  BY <1>2, <1>5 DEF Arrives, NoMessages
<1>6. CASE LogsIn(rs, new, e, d)
  <2>1. PICK id \in RequestIds :
          d = To(sid, <<LoginResponse(id, TRUE, "NONE", Info(NameOf(new), sid))>>)
    BY <1>6 DEF LogsIn
  <2> DEFINE m == LoginResponse(id, TRUE, "NONE", Info(NameOf(new), sid))
  <2>2. m.type = "LoginResponse"
    BY DEF LoginResponse
  <2> HIDE DEF m
  <2>3. d[t] = <<>> \/ d[t] = <<m>>
    BY <2>1 DEF To, m
  <2> QED
    BY <1>2, <1>3, <2>2, <2>3 DEF RoomEvent
<1>7. ASSUME NEW q \in RoomIds \cup {no_room_id, Away}, GoesTo(rs, new, e, d, q)
      PROVE  InPlace(f, d[t])
  <2>1. Going(at, names, sid, q, d) /\ q # no_room_id
    BY <1>1, <1>7 DEF GoesTo
  <2> HIDE DEF at, names, sid
  <2>2. CASE t # sid
    <3>1. d[t] = Heard(at, names, sid, q, t)
      BY <2>1, <2>2 DEF Going
    <3>2. \/ d[t] = <<>>
          \/ at[t] \in RoomIds /\ d[t] = <<UserLeftEvent(at[t], Info(names, sid))>>
          \/ at[t] \in RoomIds /\ d[t] = <<UserJoinedEvent(at[t], Info(names, sid))>>
      BY <3>1 DEF Heard
    <3>3. at[t] \in RoomIds => f.current_room_id = at[t]
      BY DEF RoomShown, at
    <3>4. UserLeftEvent(at[t], Info(names, sid)).room_id = at[t]
      BY DEF UserLeftEvent
    <3>5. UserJoinedEvent(at[t], Info(names, sid)).room_id = at[t]
      BY DEF UserJoinedEvent
    <3> QED
      BY <1>2, <1>3, <3>2, <3>3, <3>4, <3>5
  <2>3. CASE t = sid /\ q \in RoomIds
    <3>1. Welcomed(at, names, sid, q, d[t])
      BY <1>1, <2>1, <2>3 DEF Going
    <3> QED
      BY <1>1, <2>3, <3>1, ReadWelcome
  <2>4. CASE t = sid /\ q = Away
    <3>1. ASSUME NEW m \in Payload, d[t] = <<m>>, Silent(m)
          PROVE  InPlace(f, d[t])
      BY <1>3, <3>1 DEF Silent, RoomEvent
    <3> QED
      BY <1>1, <1>2, <2>1, <2>4, <3>1 DEF Going
  <2> QED
    BY <2>1, <2>2, <2>3, <2>4
<1> QED
  BY <1>4, <1>5, <1>6, <1>7 DEF Effect

\* Who is known, by those who share the room and by what they are called.
LEMMA KnownSame ==
  ASSUME NEW at, NEW names, NEW to, NEW called, NEW t,
         Mates(to, t) = Mates(at, t), \A u \in Mates(at, t) : called[u] = names[u]
  PROVE  Known(to, called, t) = Known(at, names, t)
  BY DEF Known

\* g follows from f as the places and names move on, for the window of t.
Follows(f, g, at, names, to, called, t) ==
    /\ RoomShown(g, to, t)
    /\ Known(at, names, t) \subseteq Listed(f) => Known(to, called, t) \subseteq Listed(g)
    /\ /\ to[t] = at[t] \/ at[t] = no_room_id
       /\ Known(at, names, t) = Listed(f)
       => Known(to, called, t) = Listed(g)

\* Nothing that concerns t happens.
LEMMA FollowsSame ==
  ASSUME NEW f, NEW g, NEW at, NEW names, NEW to, NEW called, NEW t,
         SameView(f, g), to[t] = at[t], RoomShown(f, at, t),
         Mates(to, t) = Mates(at, t), \A u \in Mates(at, t) : called[u] = names[u]
  PROVE  Follows(f, g, at, names, to, called, t)
<1>1. Known(to, called, t) = Known(at, names, t)
  BY KnownSame
<1>2. Listed(g) = Listed(f) /\ RoomShown(g, to, t)
  BY DEF SameView, Listed, RoomShown
<1> QED
  BY <1>1, <1>2 DEF Follows

\* sid goes: a member of its room forgets its name.
LEMMA FollowsLeft ==
  ASSUME NEW at \in Places, NEW names \in Naming, NEW to, NEW called,
         NEW sid \in SessionIds, NEW t \in SessionIds \ {sid},
         at[t] \in RoomIds, at[t] = at[sid], to[sid] # at[t],
         \A u \in SessionIds \ {sid} :
            to[u] = at[u] /\ called[u] = names[u] /\ names[u] # names[sid],
         NEW f, NEW g, g.current_room_id = f.current_room_id, RoomShown(f, at, t),
         Listed(g) = Listed(f) \ {names[sid]}
  PROVE  Follows(f, g, at, names, to, called, t)
<1>1. Mates(at, t) = Mates(to, t) \cup {sid} /\ sid \notin Mates(to, t)
  BY DEF Mates
<1>2. \A u \in Mates(to, t) : called[u] = names[u] /\ names[u] # names[sid]
  BY <1>1 DEF Mates
<1>3. Known(to, called, t) = Known(at, names, t) \ {names[sid]}
  BY <1>1, <1>2 DEF Known
<1>4. RoomShown(g, to, t)
  BY DEF RoomShown
<1> QED
  BY <1>3, <1>4 DEF Follows

\* sid comes: a member of its new room learns its name.
LEMMA FollowsJoined ==
  ASSUME NEW at \in Places, NEW names \in Naming, NEW to, NEW called,
         NEW sid \in SessionIds, NEW t \in SessionIds \ {sid},
         at[t] \in RoomIds, at[t] # at[sid], to[sid] = at[t],
         \A u \in SessionIds \ {sid} : to[u] = at[u],
         \A u \in SessionIds : called[u] = names[u],
         NEW f, NEW g, g.current_room_id = f.current_room_id, RoomShown(f, at, t),
         Listed(g) = Listed(f) \cup ({names[sid]} \cap Distinct)
  PROVE  Follows(f, g, at, names, to, called, t)
<1>1. Mates(to, t) = Mates(at, t) \cup {sid}
  BY DEF Mates
<1>2. \A u \in Mates(to, t) : called[u] = names[u]
  BY DEF Mates
<1>3. Known(to, called, t) = Known(at, names, t) \cup ({names[sid]} \cap Distinct)
  BY <1>1, <1>2 DEF Known
<1>4. RoomShown(g, to, t)
  BY DEF RoomShown
<1> QED
  BY <1>3, <1>4 DEF Follows

\* sid is in a new room, and has been told who is there.
LEMMA FollowsMove ==
  ASSUME NEW at \in Places, NEW names \in Naming, NEW to, NEW called,
         NEW sid \in SessionIds, NEW q \in RoomIds, to[sid] = q, at[sid] # q,
         \A u \in SessionIds \ {sid} : to[u] = at[u],
         \A u \in SessionIds : called[u] = names[u],
         NEW f, NEW g, g.current_room_id = q,
         Listed(g) = Listed(f) \cup
             ({names[u] : u \in {t \in SessionIds : at[t] = q}} \cap Distinct)
  PROVE  Follows(f, g, at, names, to, called, sid)
<1> DEFINE there == {t \in SessionIds : at[t] = q}
<1>1. Mates(to, sid) = there \cup {sid} /\ sid \in Mates(at, sid)
  BY DEF Mates
<1>2. \A u \in Mates(to, sid) : called[u] = names[u]
  BY DEF Mates
<1>3. Known(to, called, sid) = ({names[u] : u \in there} \cup {names[sid]}) \cap Distinct
  <2> HIDE DEF there
  <2> QED
    BY <1>1, <1>2 DEF Known
<1>4. {names[sid]} \cap Distinct \subseteq Known(at, names, sid)
  BY <1>1 DEF Known
<1>5. at[sid] = no_room_id => Known(at, names, sid) = {names[sid]} \cap Distinct
  <2>1. no_room_id \notin RoomIds
    BY RoomSystemAssumption DEF no_room_id
  <2>2. at[sid] = no_room_id => Mates(at, sid) = {sid}
    BY <2>1 DEF Mates
  <2> QED
    BY <2>2 DEF Known
<1>6. RoomShown(g, to, sid)
  BY DEF RoomShown
<1> HIDE DEF there
<1>7. Listed(g) = Listed(f) \cup ({names[u] : u \in there} \cap Distinct)
  BY DEF there
<1> QED
  BY <1>3, <1>4, <1>5, <1>6, <1>7 DEF Follows

\* sid logs in and is told its name.
LEMMA FollowsLogin ==
  ASSUME NEW at \in Places, NEW names \in Naming, NEW called,
         NEW sid \in SessionIds, at[sid] \notin RoomIds, names[sid] = EmptyName,
         NEW f, NEW g, Listed(g) = Listed(f) \cup ({called[sid]} \cap Distinct)
  PROVE  Follows(f, g, at, names, at, called, sid)
<1>1. Mates(at, sid) = {sid}
  BY DEF Mates
<1>2. Known(at, called, sid) = {called[sid]} \cap Distinct
  BY <1>1 DEF Known
<1>3. Known(at, names, sid) = {}
  <2>1. EmptyName \notin Distinct
    BY RoomSystemAssumption DEF Distinct
  <2> QED
    BY <1>1, <2>1 DEF Known
<1>4. RoomShown(g, at, sid)
  BY DEF RoomShown
<1> QED
  BY <1>2, <1>3, <1>4 DEF Follows

\* Whatever an event does, what it queues for a session that is there before and
\* after brings its window up to date.
LEMMA EffectFollows ==
  ASSUME NEW rs, NEW new, Coherent(rs), NEW e, e.session_id \in SessionIds,
         e.type # "LeaveRoomRequest",
         e.type = "LoginRequest" => NameOf(rs)[e.session_id] = EmptyName,
         NEW d \in Streams, Effect(rs, new, e, d), NEW t \in SessionIds,
         PlaceOf(rs)[t] # Away, PlaceOf(new)[t] # Away,
         NEW f, IsFrame(f), RoomShown(f, PlaceOf(rs), t)
  PROVE  Follows(f, ReadAll(f, d[t]), PlaceOf(rs), NameOf(rs), PlaceOf(new), NameOf(new), t)
<1> DEFINE at == PlaceOf(rs)
           to == PlaceOf(new)
           names == NameOf(rs)
           called == NameOf(new)
           sid == e.session_id
           g == ReadAll(f, d[t])
<1> SUFFICES Follows(f, g, at, names, to, called, t)
  OBVIOUS
<1>1. /\ at \in Places /\ names \in Naming
      /\ Away # no_room_id /\ Away \notin RoomIds /\ no_room_id \notin RoomIds
      /\ \A s \in SessionIds : at[s] \in RoomIds => names[s] \in Names
      /\ \A s \in SessionIds : names[s] # EmptyName =>
             \A u \in SessionIds \ {s} : names[u] # names[s]
  BY Presences, RoomSystemAssumption DEF Away, no_room_id
<1>2. ASSUME d[t] = <<>> PROVE g = f
  BY <1>2, ReadNone
<1>3. ASSUME NEW m, d[t] = <<m>> PROVE g = Reads(f, m)
  BY <1>3, ReadOne
<1>4. sid \in SessionIds /\ SameView(f, f)
  BY DEF SameView
<1>5. CASE Stays(rs, new, e, d)
  <2>1. SameView(f, g)
    <3>1. ASSUME NEW m \in Payload, d[t] = <<m>>,
                 Silent(m) \/ m.type = "ChatBroadcast"
          PROVE  SameView(f, g)
      BY <1>3, <3>1, ReadsSilent
    <3> QED
      BY <1>2, <1>4, <1>5, <3>1 DEF Stays, Quiet
  <2>2. to = at /\ called = names
    BY <1>5 DEF Stays
  <2> HIDE DEF g, at, to, names, called
  <2>3. RoomShown(f, at, t)
    BY DEF at
  <2> QED
    BY <2>1, <2>2, <2>3, FollowsSame
<1>6. CASE Arrives(rs, new, e, d)
  <2>1. /\ d[t] = <<>> /\ at[sid] = Away /\ t # sid
        /\ to = [at EXCEPT ![sid] = no_room_id] /\ called = names
    BY <1>6 DEF Arrives, NoMessages
  <2>2. g = f
    BY <1>2, <2>1
  <2> HIDE DEF g, at, to, names, called, sid
  <2>3. to[t] = at[t] /\ Mates(to, t) = Mates(at, t)
    BY <1>1, <1>4, <2>1 DEF Places, Mates
  <2>4. RoomShown(f, at, t)
    BY DEF at
  <2> QED
    BY <1>4, <2>1, <2>2, <2>3, <2>4, FollowsSame
<1>7. CASE LogsIn(rs, new, e, d)
  <2>1. PICK id \in RequestIds :
          d = To(sid, <<LoginResponse(id, TRUE, "NONE", Info(called, sid))>>)
    BY <1>7 DEF LogsIn
  <2> DEFINE m == LoginResponse(id, TRUE, "NONE", Info(called, sid))
  <2>2. /\ to = at /\ called = [names EXCEPT ![sid] = e.display_name]
        /\ e.display_name \in Names /\ names[sid] = EmptyName
    BY <1>7 DEF LogsIn
  <2>3. at[sid] \notin RoomIds
    BY <1>1, <1>4, <2>2, RoomSystemAssumption
  <2>4. CASE t = sid
    <3>1. d[t] = <<m>>
      BY <2>1, <2>4 DEF To
    <3>2. called[sid] = e.display_name
      BY <1>1, <1>4, <2>2 DEF Naming
    <3>3. m.type = "LoginResponse" /\ m.success /\ m.user.display_name = called[sid]
      BY DEF LoginResponse, Info
    <3> HIDE DEF m
    <3>4. g = Reads(f, m)
      BY <1>3, <3>1
    <3>5. Listed(g) = Listed(f) \cup ({called[sid]} \cap Distinct)
      BY <2>2, <3>2, <3>3, <3>4, ReadsLogin
    <3> HIDE DEF g, at, to, names, called, sid
    <3> QED
      BY <1>1, <1>4, <2>2, <2>3, <2>4, <3>5, FollowsLogin
  <2>5. CASE t # sid
    <3>1. d[t] = <<>>
      BY <2>1, <2>5 DEF To
    <3>2. g = f
      BY <1>2, <3>1
    <3> HIDE DEF g, at, to, names, called, sid
    <3>3. sid \notin Mates(at, t)
      BY <2>3, <2>5 DEF Mates
    <3>4. \A u \in Mates(at, t) : called[u] = names[u]
      BY <1>1, <2>2, <3>3 DEF Mates, Naming
    <3>5. RoomShown(f, at, t)
      BY DEF at
    <3> QED
      BY <1>4, <2>2, <3>2, <3>4, <3>5, FollowsSame
  <2> QED
    BY <2>4, <2>5
<1>8. ASSUME NEW q \in RoomIds \cup {no_room_id, Away}, GoesTo(rs, new, e, d, q)
      PROVE  Follows(f, g, at, names, to, called, t)
  <2>1. /\ Going(at, names, sid, q, d) /\ to = [at EXCEPT ![sid] = q]
        /\ called = IF q = Away THEN [names EXCEPT ![sid] = EmptyName] ELSE names
        /\ q # no_room_id
    BY <1>1, <1>8 DEF GoesTo
  <2> HIDE DEF at, to, sid, names, called, g
  <2>2. /\ \A u \in SessionIds \ {sid} : to[u] = at[u] /\ called[u] = names[u]
        /\ to[sid] = q /\ at[sid] # q /\ at[t] # Away /\ to[t] # Away
        /\ RoomShown(f, at, t)
    BY <1>1, <1>4, <2>1 DEF Places, Naming, Going, at, to
  <2>3. CASE t # sid
    <3>1. d[t] = Heard(at, names, sid, q, t) /\ to[t] = at[t]
      BY <2>1, <2>2, <2>3 DEF Going
    <3>2. CASE at[t] \notin RoomIds
      <4>1. g = f
        BY <1>2, <3>1, <3>2 DEF Heard
      <4>2. Mates(to, t) = {t} /\ Mates(at, t) = {t}
        BY <3>1, <3>2 DEF Mates
      <4> QED
        BY <1>4, <2>2, <2>3, <3>1, <4>1, <4>2, FollowsSame
    <3>3. CASE at[t] \in RoomIds /\ at[t] = at[sid]
      <4> DEFINE m == UserLeftEvent(at[t], Info(names, sid))
      <4>1. d[t] = <<m>>
        BY <3>1, <3>3 DEF Heard
      <4>2. m.type = "UserLeftEvent" /\ m.user.display_name = names[sid]
        BY DEF UserLeftEvent, Info
      <4>3. names[sid] \in Names /\ names[sid] # EmptyName
        BY <1>1, <1>4, <3>3, RoomSystemAssumption
      <4> HIDE DEF m
      <4>4. g = Reads(f, m)
        BY <1>3, <4>1
      <4>5. /\ g.current_room_id = f.current_room_id
            /\ Listed(g) = Listed(f) \ {names[sid]}
        BY <4>2, <4>3, <4>4, ReadsUserLeft
      <4>6. /\ \A u \in SessionIds \ {sid} :
                  to[u] = at[u] /\ called[u] = names[u] /\ names[u] # names[sid]
            /\ to[sid] # at[t] /\ t \in SessionIds \ {sid}
        BY <1>1, <1>4, <2>2, <2>3, <3>3, <4>3
      <4> QED
        BY ONLY <1>1, <1>4, <2>2, <3>3, <4>5, <4>6, FollowsLeft
    <3>4. CASE at[t] \in RoomIds /\ at[t] # at[sid] /\ at[t] = q
      <4> DEFINE m == UserJoinedEvent(q, Info(names, sid))
      <4>1. d[t] = <<m>>
        BY <3>1, <3>4 DEF Heard
      <4>2. m.type = "UserJoinedEvent" /\ m.user.display_name = names[sid]
        BY DEF UserJoinedEvent, Info
      <4>3. names[sid] \in Names \cup {EmptyName}
        BY <1>1, <1>4 DEF Naming
      <4> HIDE DEF m
      <4>4. g = Reads(f, m)
        BY <1>3, <4>1
      <4>5. /\ g.current_room_id = f.current_room_id
            /\ Listed(g) = Listed(f) \cup ({names[sid]} \cap Distinct)
        BY <4>2, <4>3, <4>4, ReadsUserJoined
      <4>6. called = names /\ t \in SessionIds \ {sid}
        BY <1>1, <2>1, <2>3, <3>4
      <4>7. \A u \in SessionIds \ {sid} : to[u] = at[u]
        BY <2>2
      <4> QED
        BY <1>1, <1>4, <2>2, <3>4, <4>5, <4>6, <4>7, FollowsJoined
    <3>5. CASE at[t] \in RoomIds /\ at[t] # at[sid] /\ at[t] # q
      <4>1. g = f
        BY <1>2, <3>1, <3>5 DEF Heard
      <4>2. Mates(to, t) = Mates(at, t) /\ sid \notin Mates(at, t)
        BY <2>2, <2>3, <3>1, <3>5 DEF Mates
      <4>3. \A u \in Mates(at, t) : called[u] = names[u]
        BY <2>2, <4>2 DEF Mates
      <4> QED
        BY <1>4, <2>2, <3>1, <4>1, <4>2, <4>3, FollowsSame
    <3> QED
      BY <3>2, <3>3, <3>4, <3>5
  <2>4. CASE t = sid
    <3>1. q \in RoomIds /\ q # Away
      BY <1>8, <2>1, <2>2, <2>4
    <3>2. Welcomed(at, names, sid, q, d[t])
      BY <1>1, <2>1, <2>4, <3>1 DEF Going
    <3>3. /\ g.current_room_id = q
          /\ Listed(g) = Listed(f) \cup
                ({names[u] : u \in {v \in SessionIds : at[v] = q}} \cap Distinct)
      BY <1>1, <3>1, <3>2, ReadWelcome DEF g
    <3>4. called = names
      BY <2>1, <3>1
    <3>5. \A u \in SessionIds \ {sid} : to[u] = at[u]
      BY <2>2
    <3> QED
      BY ONLY <1>1, <1>4, <2>2, <2>4, <3>1, <3>3, <3>4, <3>5, FollowsMove
  <2> QED
    BY <2>3, <2>4
<1> QED
  BY <1>5, <1>6, <1>7, <1>8 DEF Effect

-----------------------------------------------------------------------------
(* Requests and the events they become.                                    *)

LEMMA EventOfLogin ==
  ASSUME NEW s \in SessionIds, NEW i \in RequestIds, NEW n \in Names
  PROVE  EventOf(s, [type |-> "LoginRequest", request_id |-> i, display_name |-> n]) =
           [type |-> "LoginRequest", session_id |-> s, request_id |-> i, display_name |-> n]
<1> DEFINE a == [type |-> "LoginRequest", request_id |-> i, display_name |-> n]
           c == [type |-> "LoginRequest", session_id |-> s, request_id |-> i,
                 display_name |-> n]
           D == {"type", "request_id", "display_name", "session_id"}
<1>1. DOMAIN a = {"type", "request_id", "display_name"}
  OBVIOUS
<1>2. a["type"] = "LoginRequest" /\ a["request_id"] = i /\ a["display_name"] = n
  OBVIOUS
<1>3. /\ c["type"] = "LoginRequest" /\ c["request_id"] = i /\ c["display_name"] = n
      /\ c["session_id"] = s
  OBVIOUS
<1>4. c = [x \in D |-> c[x]]
  OBVIOUS
<1> HIDE DEF a, c
<1>5. DOMAIN a \cup {"session_id"} = D
  BY <1>1
<1>6. \A x \in D : c[x] = IF x = "session_id" THEN s ELSE a[x]
  BY <1>2, <1>3
<1>7. EventOf(s, a) = [x \in D |-> IF x = "session_id" THEN s ELSE a[x]]
  BY <1>5 DEF EventOf
<1> HIDE DEF D
<1>8. EventOf(s, a) = c
  BY <1>4, <1>6, <1>7
<1> QED
  BY <1>8 DEF a, c

LEMMA EventOfJoin ==
  ASSUME NEW s \in SessionIds, NEW i \in RequestIds, NEW r \in RoomIds
  PROVE  EventOf(s, [type |-> "JoinRoomRequest", request_id |-> i, room_id |-> r]) =
           [type |-> "JoinRoomRequest", session_id |-> s, request_id |-> i, room_id |-> r]
<1> DEFINE a == [type |-> "JoinRoomRequest", request_id |-> i, room_id |-> r]
           c == [type |-> "JoinRoomRequest", session_id |-> s, request_id |-> i,
                 room_id |-> r]
           D == {"type", "request_id", "room_id", "session_id"}
<1>1. DOMAIN a = {"type", "request_id", "room_id"}
  OBVIOUS
<1>2. a["type"] = "JoinRoomRequest" /\ a["request_id"] = i /\ a["room_id"] = r
  OBVIOUS
<1>3. /\ c["type"] = "JoinRoomRequest" /\ c["request_id"] = i /\ c["room_id"] = r
      /\ c["session_id"] = s
  OBVIOUS
<1>4. c = [x \in D |-> c[x]]
  OBVIOUS
<1> HIDE DEF a, c
<1>5. DOMAIN a \cup {"session_id"} = D
  BY <1>1
<1>6. \A x \in D : c[x] = IF x = "session_id" THEN s ELSE a[x]
  BY <1>2, <1>3
<1>7. EventOf(s, a) = [x \in D |-> IF x = "session_id" THEN s ELSE a[x]]
  BY <1>5 DEF EventOf
<1> HIDE DEF D
<1>8. EventOf(s, a) = c
  BY <1>4, <1>6, <1>7
<1> QED
  BY <1>8 DEF a, c

LEMMA EventOfChat ==
  ASSUME NEW s \in SessionIds, NEW i \in RequestIds, NEW x \in Texts
  PROVE  EventOf(s, [type |-> "ChatSendRequest", request_id |-> i, content |-> x]) =
           [type |-> "ChatSendRequest", session_id |-> s, request_id |-> i, content |-> x]
<1> DEFINE a == [type |-> "ChatSendRequest", request_id |-> i, content |-> x]
           c == [type |-> "ChatSendRequest", session_id |-> s, request_id |-> i,
                 content |-> x]
           D == {"type", "request_id", "content", "session_id"}
<1>1. DOMAIN a = {"type", "request_id", "content"}
  OBVIOUS
<1>2. a["type"] = "ChatSendRequest" /\ a["request_id"] = i /\ a["content"] = x
  OBVIOUS
<1>3. /\ c["type"] = "ChatSendRequest" /\ c["request_id"] = i /\ c["content"] = x
      /\ c["session_id"] = s
  OBVIOUS
<1>4. c = [y \in D |-> c[y]]
  OBVIOUS
<1> HIDE DEF a, c
<1>5. DOMAIN a \cup {"session_id"} = D
  BY <1>1
<1>6. \A y \in D : c[y] = IF y = "session_id" THEN s ELSE a[y]
  BY <1>2, <1>3
<1>7. EventOf(s, a) = [y \in D |-> IF y = "session_id" THEN s ELSE a[y]]
  BY <1>5 DEF EventOf
<1> HIDE DEF D
<1>8. EventOf(s, a) = c
  BY <1>4, <1>6, <1>7
<1> QED
  BY <1>8 DEF a, c

LEMMA EventOfRoomList ==
  ASSUME NEW s \in SessionIds, NEW i \in RequestIds
  PROVE  EventOf(s, [type |-> "RoomListRequest", request_id |-> i]) =
           [type |-> "RoomListRequest", session_id |-> s, request_id |-> i]
<1> DEFINE a == [type |-> "RoomListRequest", request_id |-> i]
           c == [type |-> "RoomListRequest", session_id |-> s, request_id |-> i]
           D == {"type", "request_id", "session_id"}
<1>1. DOMAIN a = {"type", "request_id"}
  OBVIOUS
<1>2. a["type"] = "RoomListRequest" /\ a["request_id"] = i
  OBVIOUS
<1>3. c["type"] = "RoomListRequest" /\ c["request_id"] = i /\ c["session_id"] = s
  OBVIOUS
<1>4. c = [y \in D |-> c[y]]
  OBVIOUS
<1> HIDE DEF a, c
<1>5. DOMAIN a \cup {"session_id"} = D
  BY <1>1
<1>6. \A y \in D : c[y] = IF y = "session_id" THEN s ELSE a[y]
  BY <1>2, <1>3
<1>7. EventOf(s, a) = [y \in D |-> IF y = "session_id" THEN s ELSE a[y]]
  BY <1>5 DEF EventOf
<1> HIDE DEF D
<1>8. EventOf(s, a) = c
  BY <1>4, <1>6, <1>7
<1> QED
  BY <1>8 DEF a, c

\* A request becomes an event of the session that sent it, of the same type.
RequestTypes == {"LoginRequest", "RoomListRequest", "JoinRoomRequest", "ChatSendRequest"}

LEMMA EventOfRequest ==
  ASSUME NEW s \in SessionIds, NEW r \in Requests
  PROVE  /\ EventOf(s, r) \in ServerEvent
         /\ EventOf(s, r).session_id = s
         /\ EventOf(s, r).type = r.type
         /\ r.type \in RequestTypes
<1>1. CASE r \in [type : {"LoginRequest"}, request_id : RequestIds, display_name : Names]
  <2>1. PICK i \in RequestIds, n \in Names :
          r = [type |-> "LoginRequest", request_id |-> i, display_name |-> n]
    BY <1>1
  <2> DEFINE c == [type |-> "LoginRequest", session_id |-> s, request_id |-> i,
                   display_name |-> n]
  <2>2. EventOf(s, r) = c
    BY <2>1, EventOfLogin
  <2>3. c \in ServerEvent /\ c.session_id = s /\ c.type = "LoginRequest"
    BY DEF ServerEvent, RequestEvent
  <2>4. r.type = "LoginRequest"
    BY <2>1
  <2> HIDE DEF c
  <2> QED
    BY <2>2, <2>3, <2>4 DEF RequestTypes
<1>2. CASE r \in [type : {"RoomListRequest"}, request_id : RequestIds]
  <2>1. PICK i \in RequestIds : r = [type |-> "RoomListRequest", request_id |-> i]
    BY <1>2
  <2> DEFINE c == [type |-> "RoomListRequest", session_id |-> s, request_id |-> i]
  <2>2. EventOf(s, r) = c
    BY <2>1, EventOfRoomList
  <2>3. c \in ServerEvent /\ c.session_id = s /\ c.type = "RoomListRequest"
    BY DEF ServerEvent, RequestEvent
  <2>4. r.type = "RoomListRequest"
    BY <2>1
  <2> HIDE DEF c
  <2> QED
    BY <2>2, <2>3, <2>4 DEF RequestTypes
<1>3. CASE r \in [type : {"JoinRoomRequest"}, request_id : RequestIds, room_id : RoomIds]
  <2>1. PICK i \in RequestIds, q \in RoomIds :
          r = [type |-> "JoinRoomRequest", request_id |-> i, room_id |-> q]
    BY <1>3
  <2> DEFINE c == [type |-> "JoinRoomRequest", session_id |-> s, request_id |-> i,
                   room_id |-> q]
  <2>2. EventOf(s, r) = c
    BY <2>1, EventOfJoin
  <2>3. c \in ServerEvent /\ c.session_id = s /\ c.type = "JoinRoomRequest"
    BY DEF ServerEvent, RequestEvent
  <2>4. r.type = "JoinRoomRequest"
    BY <2>1
  <2> HIDE DEF c
  <2> QED
    BY <2>2, <2>3, <2>4 DEF RequestTypes
<1>4. CASE r \in [type : {"ChatSendRequest"}, request_id : RequestIds, content : Texts]
  <2>1. PICK i \in RequestIds, x \in Texts :
          r = [type |-> "ChatSendRequest", request_id |-> i, content |-> x]
    BY <1>4
  <2> DEFINE c == [type |-> "ChatSendRequest", session_id |-> s, request_id |-> i,
                   content |-> x]
  <2>2. EventOf(s, r) = c
    BY <2>1, EventOfChat
  <2>3. c \in ServerEvent /\ c.session_id = s /\ c.type = "ChatSendRequest"
    BY DEF ServerEvent, RequestEvent
  <2>4. r.type = "ChatSendRequest"
    BY <2>1
  <2> HIDE DEF c
  <2> QED
    BY <2>2, <2>3, <2>4 DEF RequestTypes
<1> QED
  BY <1>1, <1>2, <1>3, <1>4 DEF Requests

\* Queues of requests: what a click adds, what the server takes.
LEMMA OrderlyAppend ==
  ASSUME NEW q \in Seq(Requests), NEW n, Orderly(q, n), NEW r \in Requests,
         r.type # "LoginRequest"
  PROVE  Append(q, r) \in Seq(Requests) /\ Orderly(Append(q, r), n)
<1> HIDE DEF Requests
<1> DEFINE p == Append(q, r)
<1>1. /\ p \in Seq(Requests) /\ Len(q) \in Nat /\ Len(p) = Len(q) + 1
      /\ \A i \in 1 .. Len(q) : p[i] = q[i]
      /\ p[Len(q) + 1] = r
  OBVIOUS
<1> HIDE DEF p
<1>2. \A i \in 1 .. Len(p) : i \in 1 .. Len(q) \/ i = Len(q) + 1
  BY <1>1
<1>3. Orderly(p, n)
  BY <1>1, <1>2 DEF Orderly
<1> QED
  BY <1>1, <1>3 DEF p

LEMMA OrderlyTail ==
  ASSUME NEW q \in Seq(Requests), NEW n, Orderly(q, n), q # <<>>, NEW k
  PROVE  /\ Tail(q) \in Seq(Requests) /\ Orderly(Tail(q), k)
         /\ Head(q) \in Requests /\ (Head(q).type = "LoginRequest" => n = EmptyName)
<1> HIDE DEF Requests
<1> DEFINE p == Tail(q)
<1>1. /\ p \in Seq(Requests) /\ Len(q) \in Nat /\ Len(p) = Len(q) - 1 /\ Len(q) >= 1
      /\ \A i \in 1 .. Len(p) : p[i] = q[i + 1]
      /\ Head(q) = q[1] /\ Head(q) \in Requests
  OBVIOUS
<1> HIDE DEF p
<1>2. \A i \in 1 .. Len(p) : i + 1 \in 1 .. Len(q) /\ i + 1 # 1
  BY <1>1
<1>3. Orderly(p, k)
  BY <1>1, <1>2 DEF Orderly
<1>4. Head(q).type = "LoginRequest" => n = EmptyName
  <2>1. 1 \in 1 .. Len(q)
    BY <1>1
  <2> QED
    BY <1>1, <2>1 DEF Orderly
<1> QED
  BY <1>1, <1>3, <1>4 DEF p

LEMMA OrderlyNone ==
  ASSUME NEW n
  PROVE  Orderly(<<>>, n)
  BY DEF Orderly

\* What a connection sends first.
LEMMA FirstRequests ==
  ASSUME NEW n \in Names
  PROVE  LET q == <<Window!LoginRequest(1, n), Window!RoomListRequest(2)>>
         IN  q \in Seq(Requests) /\ Orderly(q, EmptyName)
<1> DEFINE a == Window!LoginRequest(1, n)
           b == Window!RoomListRequest(2)
           q == <<a, b>>
<1>1. 1 \in RequestIds /\ 2 \in RequestIds
  BY ChatSystemAssumption
<1>2. a \in Requests /\ b \in Requests /\ b.type = "RoomListRequest"
  BY <1>1 DEF Requests, Window!LoginRequest, Window!RoomListRequest
<1> HIDE DEF a, b, Requests
<1>3. q \in Seq(Requests) /\ Len(q) = 2 /\ q[1] = a /\ q[2] = b
  BY <1>2
<1> HIDE DEF q
<1>4. \A i \in 1 .. 2 : i = 1 \/ i = 2
  OBVIOUS
<1>5. Orderly(q, EmptyName)
  BY <1>2, <1>3, <1>4 DEF Orderly
<1> QED
  BY <1>3, <1>5 DEF q, a, b

-----------------------------------------------------------------------------
(* A handler, as far as the windows are concerned.                         *)

\* Only the sender's place and name change.
LEMMA EffectOthers ==
  ASSUME NEW rs, NEW new, Coherent(rs), NEW e, e.session_id \in SessionIds, NEW d,
         Effect(rs, new, e, d), NEW t \in SessionIds \ {e.session_id}
  PROVE  PlaceOf(new)[t] = PlaceOf(rs)[t] /\ NameOf(new)[t] = NameOf(rs)[t]
<1> DEFINE at == PlaceOf(rs)
           to == PlaceOf(new)
           names == NameOf(rs)
           called == NameOf(new)
           sid == e.session_id
<1>1. at \in Places /\ names \in Naming /\ t # sid /\ t \in SessionIds
  BY Presences
<1>2. \E q, n : /\ to = at \/ to = [at EXCEPT ![sid] = q]
                /\ called = names \/ called = [names EXCEPT ![sid] = n]
  BY DEF Effect, Stays, Arrives, LogsIn, GoesTo
<1> HIDE DEF at, to, names, called, sid
<1>3. to[t] = at[t] /\ called[t] = names[t]
  BY <1>1, <1>2 DEF Places, Naming
<1> QED
  BY <1>3 DEF at, to, names, called

\* Where a request takes its sender.
LEMMA EffectSender ==
  ASSUME NEW rs, NEW new, Coherent(rs), NEW e, e.session_id \in SessionIds, NEW d,
         Effect(rs, new, e, d), e.type \in RequestTypes
  PROVE  \/ PlaceOf(new)[e.session_id] = PlaceOf(rs)[e.session_id]
         \/ PlaceOf(new)[e.session_id] \in RoomIds /\ PlaceOf(rs)[e.session_id] # Away
<1> DEFINE at == PlaceOf(rs)
           to == PlaceOf(new)
           sid == e.session_id
<1>1. at \in Places /\ sid \in SessionIds
  BY Presences
<1>2. CASE Stays(rs, new, e, d) \/ LogsIn(rs, new, e, d)
  BY <1>2 DEF Stays, LogsIn
<1>3. CASE Arrives(rs, new, e, d)
  BY <1>3 DEF Arrives, RequestTypes
<1>4. ASSUME NEW q, GoesTo(rs, new, e, d, q)
      PROVE  to[sid] \in RoomIds /\ at[sid] # Away
  <2>1. q \in RoomIds /\ to = [at EXCEPT ![sid] = q] /\ at[sid] # Away
    BY <1>4 DEF GoesTo, Going, RequestTypes
  <2> HIDE DEF at, to, sid
  <2> QED
    BY <1>1, <2>1 DEF Places
<1> QED
  BY <1>2, <1>3, <1>4 DEF Effect

\* Nothing is queued for a session that is not there and did not ask.
LEMMA EffectAbsent ==
  ASSUME NEW rs, NEW new, Coherent(rs), NEW e, e.session_id \in SessionIds, NEW d,
         Effect(rs, new, e, d), NEW t \in SessionIds \ {e.session_id},
         PlaceOf(rs)[t] = Away
  PROVE  d[t] = <<>>
<1>1. Away \notin RoomIds
  BY RoomSystemAssumption DEF Away
<1>2. CASE Stays(rs, new, e, d)
  BY <1>1, <1>2 DEF Stays, Quiet
<1>3. CASE Arrives(rs, new, e, d)
  BY <1>3 DEF Arrives, NoMessages
<1>4. CASE LogsIn(rs, new, e, d)
  BY <1>4 DEF LogsIn, To
<1>5. ASSUME NEW q, GoesTo(rs, new, e, d, q) PROVE d[t] = <<>>
  BY <1>1, <1>5 DEF GoesTo, Going, Heard
<1> QED
  BY <1>2, <1>3, <1>4, <1>5 DEF Effect

\* A frame stays on track when an event is handled.  before and after are the
\* rooms the session has been in.
LEMMA HandleTracks ==
  ASSUME IInv, NEW e \in ServerEvent, Handle(e), e.type # "LeaveRoomRequest",
         e.type = "LoginRequest" => NameOf(room_system)[e.session_id] = EmptyName,
         NEW s \in SessionIds, e.type = "Connected" => s # e.session_id,
         NEW f, IsFrame(f), NEW hist, NEW before, NEW after,
         Tracked(f, outgoing_messages[s], PlaceOf(room_system), NameOf(room_system),
                 s, hist, before),
         before \subseteq after,
         PlaceOf(room_system)[s] \in RoomIds => PlaceOf(room_system)[s] \in before,
         PlaceOf(room_system)[s] = no_room_id => before = {},
         PlaceOf(room_system)[s] = Away \/ PlaceOf(room_system)[s] \in RoomIds \cup {no_room_id}
  PROVE  Tracked(f, outgoing_messages'[s], PlaceOf(room_system'), NameOf(room_system'),
                 s, hist, after)
<1> DEFINE at == PlaceOf(room_system)
           to == PlaceOf(room_system')
           names == NameOf(room_system)
           called == NameOf(room_system')
           a == outgoing_messages[s]
           z == outgoing_messages'[s]
           c == ReadAll(f, a)
<1>1. PICK d \in Streams : Queue(d) /\ Effect(room_system, room_system', e, d)
  BY HandleEffect
<1>2. Coherent(room_system) /\ outgoing_messages \in Streams /\ e.session_id \in SessionIds
  BY EventFields DEF IInv, Streams
<1> DEFINE b == d[s]
           g == ReadAll(c, b)
<1>3. a \in Seq(Payload) /\ b \in Seq(Payload) /\ z = a \o b
  <2>1. z = a \o b
    BY <1>1 DEF Queue, Then
  <2> HIDE DEF Payload
  <2> QED
    BY <1>2, <2>1 DEF Streams
<1>4. IsFrame(c)
  <2> HIDE DEF a, Payload
  <2> QED
    BY <1>3, ReadType
<1>5. InPlace(f, a) /\ (at[s] # Away => RoomShown(c, at, s))
  BY DEF Tracked
<1>6. RoomShown(c, at, s)
  <2>1. Away \notin RoomIds
    BY RoomSystemAssumption DEF Away
  <2> QED
    BY <1>5, <2>1 DEF RoomShown
<1>7. InPlace(c, b)
  <2> HIDE DEF c
  <2> QED
    BY <1>1, <1>2, <1>4, <1>6, EffectInPlace
<1>8. InPlace(f, z) /\ ReadAll(f, z) = g
  <2> HIDE DEF a, b, z, Payload
  <2>1. ReadAll(f, a \o b) = ReadAll(ReadAll(f, a), b)
    BY ONLY <1>3, ReadConcat
  <2>2. InPlace(f, a \o b)
    BY <1>3, <1>5, <1>7, InPlaceConcat
  <2> QED
    BY <1>3, <2>1, <2>2
<1>9. ASSUME to[s] # Away
      PROVE  /\ RoomShown(g, to, s)
             /\ Known(to, called, s) \subseteq Listed(g)
             /\ Len(hist) = 1 /\ after \subseteq {to[s]} => Listed(g) = Known(to, called, s)
  <2>1. at[s] # Away
    <3>1. ASSUME at[s] = Away PROVE FALSE
      <4>1. Arrives(room_system, room_system', e, d) /\ s = e.session_id
        BY <1>1, <1>2, <1>9, <3>1, ArrivalEffect
      <4> QED
        BY <4>1 DEF Arrives
    <3> QED
      BY <3>1
  <2>2. Follows(c, g, at, names, to, called, s)
    <3> HIDE DEF c
    <3> QED
      BY <1>1, <1>2, <1>4, <1>6, <1>9, <2>1, EffectFollows
  <2>3. /\ Known(at, names, s) \subseteq Listed(c)
        /\ Len(hist) = 1 /\ before \subseteq {at[s]} => Listed(c) = Known(at, names, s)
    BY <2>1 DEF Tracked
  <2> HIDE DEF c, g, at, to, names, called
  <2>4. ASSUME Len(hist) = 1, after \subseteq {to[s]}
        PROVE  Listed(g) = Known(to, called, s)
    <3>1. at[s] \in RoomIds \cup {no_room_id} /\ before \subseteq {to[s]}
          /\ (at[s] \in RoomIds => at[s] \in before)
          /\ (at[s] = no_room_id => before = {})
      BY <2>1, <2>4 DEF at
    <3>2. before \subseteq {at[s]} /\ (to[s] = at[s] \/ at[s] = no_room_id)
      BY <3>1
    <3> QED
      BY <2>2, <2>3, <2>4, <3>2 DEF Follows
  <2> QED
    BY <2>2, <2>3, <2>4 DEF Follows
<1> HIDE DEF g, to, called, z
<1>10. Tracked(f, z, to, called, s, hist, after)
  BY <1>8, <1>9 DEF Tracked
<1> QED
  BY <1>10 DEF z, to, called

\* A frame that shows the same is on track too.
LEMMA TrackedSame ==
  ASSUME NEW f, NEW g, IsFrame(f), IsFrame(g), SameView(f, g), NEW ms \in Seq(Payload),
         NEW at, NEW names, NEW s, NEW hist, NEW ent,
         Tracked(f, ms, at, names, s, hist, ent)
  PROVE  Tracked(g, ms, at, names, s, hist, ent)
<1> HIDE DEF Payload
<1>1. InPlace(g, ms)
  BY InPlaceSame DEF Tracked
<1>2. SameView(ReadAll(f, ms), ReadAll(g, ms))
  BY ReadSame
<1>3. /\ Listed(ReadAll(g, ms)) = Listed(ReadAll(f, ms))
      /\ RoomShown(ReadAll(f, ms), at, s) => RoomShown(ReadAll(g, ms), at, s)
  BY <1>2 DEF SameView, Listed, RoomShown
<1> QED
  BY <1>1, <1>3 DEF Tracked

\* When the packets have been read.
LEMMA TrackedRead ==
  ASSUME NEW f, NEW ms, NEW at, NEW names, NEW s, NEW hist, NEW ent,
         Tracked(f, ms, at, names, s, hist, ent)
  PROVE  Tracked(ReadAll(f, ms), <<>>, at, names, s, hist, ent)
<1> DEFINE c == ReadAll(f, ms)
<1>1. ReadAll(c, <<>>) = c /\ InPlace(c, <<>>)
  BY ReadNone, InPlaceNone
<1>2. at[s] # Away =>
         /\ RoomShown(c, at, s)
         /\ Known(at, names, s) \subseteq Listed(c)
         /\ Len(hist) = 1 /\ ent \subseteq {at[s]} => Listed(c) = Known(at, names, s)
  BY DEF Tracked
<1> HIDE DEF c
<1>3. Tracked(c, <<>>, at, names, s, hist, ent)
  BY <1>1, <1>2 DEF Tracked
<1> QED
  BY <1>3 DEF c

-----------------------------------------------------------------------------
(* The steps of the application.                                           *)

\* A session's place, from its phase, and what the invariant says of its rooms.
LEMMA Whereabouts ==
  ASSUME SInv, NEW s \in SessionIds
  PROVE  /\ PlaceOf(room_system)[s] \in RoomIds \cup {no_room_id, Away}
         /\ PlaceOf(room_system)[s] = Away => NameOf(room_system)[s] = EmptyName
         /\ PlaceOf(room_system)[s] \in RoomIds => PlaceOf(room_system)[s] \in entered[s]
         /\ PlaceOf(room_system)[s] = no_room_id => entered[s] = {}
         /\ phase[s] = "open" <=> PlaceOf(room_system)[s] # Away
         /\ outgoing_messages[s] \in Seq(Payload)
<1>1. Coherent(room_system) /\ outgoing_messages \in Streams
  BY DEF SInv, IInv, Streams
<1>2. PlaceOf(room_system)[s] \in RoomIds \cup {no_room_id, Away}
  BY <1>1, Presences DEF Places
<1>3. PlaceOf(room_system)[s] = Away => NameOf(room_system)[s] = EmptyName
  <2>1. FindSession(room_system, s) <=> PlaceOf(room_system)[s] # Away
    BY <1>1, Presences
  <2> QED
    BY <2>1 DEF NameOf
<1>4. outgoing_messages[s] \in Seq(Payload)
  <2> HIDE DEF Payload
  <2> QED
    BY <1>1 DEF Streams
<1> QED
  BY <1>2, <1>3, <1>4 DEF SInv, Links, Travels

\* The windows when an event has been handled: all on track but that of a new
\* connection.
LEMMA HandleShows ==
  ASSUME SInv, NEW e \in ServerEvent, Handle(e), e.type # "LeaveRoomRequest",
         e.type = "LoginRequest" => NameOf(room_system)[e.session_id] = EmptyName,
         NEW w \in Windows, NEW s \in SessionIds, IsCurrent(w, s),
         e.type = "Connected" => s # e.session_id,
         NEW after, entered[s] \subseteq after
  PROVE  Tracked(frame[w], outgoing_messages'[s], PlaceOf(room_system'), NameOf(room_system'),
                 s, history[w], after)
<1> DEFINE f == frame[w]
           hist == history[w]
           before == entered[s]
<1>1. /\ IInv /\ IsFrame(f)
      /\ Tracked(f, outgoing_messages[s], PlaceOf(room_system), NameOf(room_system),
                 s, hist, before)
  BY DEF SInv, Shows
<1>2. /\ PlaceOf(room_system)[s] \in RoomIds => PlaceOf(room_system)[s] \in before
      /\ PlaceOf(room_system)[s] = no_room_id => before = {}
      /\ PlaceOf(room_system)[s] = Away \/ PlaceOf(room_system)[s] \in RoomIds \cup {no_room_id}
  BY Whereabouts
<1> HIDE DEF f, hist, before
<1>3. before \subseteq after
  BY DEF before
<1>4. Tracked(f, outgoing_messages'[s], PlaceOf(room_system'), NameOf(room_system'),
              s, hist, after)
  BY <1>1, <1>2, <1>3, HandleTracks
<1> QED
  BY <1>4 DEF f, hist

\* What an event of a live session does to the tables and queues of the others.
LEMMA HandleOthers ==
  ASSUME SInv, NEW e \in ServerEvent, Handle(e), NEW t \in SessionIds \ {e.session_id}
  PROVE  /\ PlaceOf(room_system')[t] = PlaceOf(room_system)[t]
         /\ NameOf(room_system')[t] = NameOf(room_system)[t]
         /\ phase[t] = "free" => outgoing_messages'[t] = <<>>
<1>1. PICK d \in Streams : Queue(d) /\ Effect(room_system, room_system', e, d)
  BY HandleEffect DEF SInv
<1>2. Coherent(room_system) /\ e.session_id \in SessionIds
  BY EventFields DEF SInv, IInv
<1>3. /\ PlaceOf(room_system')[t] = PlaceOf(room_system)[t]
      /\ NameOf(room_system')[t] = NameOf(room_system)[t]
  BY <1>1, <1>2, EffectOthers
<1>4. ASSUME phase[t] = "free" PROVE outgoing_messages'[t] = <<>>
  <2>1. PlaceOf(room_system)[t] = Away /\ outgoing_messages[t] = <<>>
    BY <1>4 DEF SInv, Links
  <2>2. d[t] = <<>>
    BY <1>1, <1>2, <2>1, EffectAbsent
  <2>3. outgoing_messages'[t] = outgoing_messages[t] \o d[t]
    BY <1>1 DEF Queue, Then
  <2> QED
    BY <2>1, <2>2, <2>3
<1> QED
  BY <1>3, <1>4

\* The server handles a request.
LEMMA RequestStep ==
  ASSUME SInv, NEW s \in SessionIds, NEW r \in Requests, HandleRequest(s, r),
         r.type = "LoginRequest" => NameOf(room_system)[s] = EmptyName
  PROVE  /\ IInv' /\ Travels' /\ Shows'
         /\ \A t \in SessionIds : phase[t] = "open" <=> PlaceOf(room_system')[t] # Away
         /\ \A t \in SessionIds : phase[t] = "free" =>
               outgoing_messages'[t] = <<>> /\ entered'[t] = {}
         /\ \A t \in SessionIds \ {s} : NameOf(room_system')[t] = NameOf(room_system)[t]
<1> DEFINE e == EventOf(s, r)
           at == PlaceOf(room_system)
           to == PlaceOf(room_system')
<1>1. /\ phase[s] = "open" /\ Handle(e)
      /\ entered' = [entered EXCEPT
            ![s] = @ \cup ({room_system'.sessions[s].room_id} \ {no_room_id})]
      /\ frame' = frame /\ history' = history
  BY DEF HandleRequest
<1>2. e \in ServerEvent /\ e.session_id = s /\ e.type = r.type /\ e.type \in RequestTypes
  <2>1. r.type \in RequestTypes
    BY EventOfRequest
  <2> QED
    BY <2>1, EventOfRequest
<1> HIDE DEF e
<1>3. IInv' /\ Coherent(room_system')
  <2>1. IInv'
    BY <1>1, <1>2, HandleStep DEF SInv
  <2> QED
    BY <2>1 DEF IInv
<1>4. PICK d \in Streams : Queue(d) /\ Effect(room_system, room_system', e, d)
  BY <1>1, <1>2, HandleEffect DEF SInv
<1>5. at[s] # Away /\ at[s] \in RoomIds \cup {no_room_id}
  BY <1>1, Whereabouts
<1>6. to[s] = at[s] \/ to[s] \in RoomIds
  <2>1. Coherent(room_system)
    BY DEF SInv, IInv
  <2> QED
    BY <1>2, <1>4, <2>1, EffectSender
<1>7. to[s] # Away /\ to[s] \in RoomIds \cup {no_room_id}
  BY <1>5, <1>6, RoomSystemAssumption DEF Away
<1>8. ASSUME NEW t \in SessionIds \ {s}
      PROVE  /\ to[t] = at[t] /\ NameOf(room_system')[t] = NameOf(room_system)[t]
             /\ phase[t] = "free" => outgoing_messages'[t] = <<>>
  BY <1>1, <1>2, HandleOthers
<1>9. room_system'.sessions[s].room_id = to[s]
  <2>1. FindSession(room_system', s)
    BY <1>3, <1>7, Presences
  <2> QED
    BY <1>3, <2>1, Presences
<1>10. /\ entered \in [SessionIds -> SUBSET RoomIds]
       /\ \A t \in SessionIds : IsFiniteSet(entered[t])
  BY DEF SInv, Travels
<1>11. /\ entered'[s] = entered[s] \cup ({to[s]} \ {no_room_id})
       /\ \A t \in SessionIds \ {s} : entered'[t] = entered[t]
       /\ entered' \in [SessionIds -> SUBSET RoomIds]
  <2> HIDE DEF to
  <2> QED
    BY <1>1, <1>7, <1>9, <1>10
<1>12. IsFiniteSet(entered'[s])
  <2>1. CASE to[s] = no_room_id
    <3>1. entered'[s] = entered[s]
      BY <1>11, <2>1
    <3> QED
      BY <1>10, <3>1
  <2>2. CASE to[s] # no_room_id
    <3> DEFINE S == entered[s]
               x == to[s]
    <3>1. entered'[s] = S \cup {x} /\ IsFiniteSet(S)
      BY <1>10, <1>11, <2>2
    <3> HIDE DEF S, x
    <3>2. IsFiniteSet(S \cup {x})
      BY <3>1, FS_AddElement
    <3> QED
      BY <3>1, <3>2
  <2> QED
    BY <2>1, <2>2
<1>13. Travels'
  <2>1. ASSUME NEW t \in SessionIds
        PROVE  /\ IsFiniteSet(entered'[t])
               /\ to[t] \in RoomIds => to[t] \in entered'[t]
               /\ to[t] = no_room_id => entered'[t] = {}
    <3>1. CASE t = s
      <4>1. no_room_id \notin RoomIds
        BY RoomSystemAssumption DEF no_room_id
      <4>2. to[s] \in RoomIds => to[s] \in entered'[s]
        BY <1>11, <4>1
      <4>3. to[s] = no_room_id => entered'[s] = {}
        <5>1. ASSUME to[s] = no_room_id PROVE entered'[s] = {}
          <6>1. at[s] = no_room_id
            BY <1>6, <4>1, <5>1
          <6>2. entered[s] = {}
            BY <6>1, Whereabouts
          <6> QED
            BY <1>11, <5>1, <6>2
        <5> QED
          BY <5>1
      <4> QED
        BY <1>12, <3>1, <4>2, <4>3
    <3>2. CASE t # s
      <4>1. to[t] = at[t] /\ entered'[t] = entered[t]
        BY <1>8, <1>11, <3>2
      <4> QED
        BY <1>10, <4>1, Whereabouts
    <3> QED
      BY <3>1, <3>2
  <2> HIDE DEF to
  <2> QED
    BY <1>11, <2>1 DEF Travels, to
<1>14. Shows'
  <2>1. ASSUME NEW w \in Windows, NEW t \in SessionIds, IsCurrent(w, t)
        PROVE  Tracked(frame[w], outgoing_messages'[t], PlaceOf(room_system'),
                       NameOf(room_system'), t, history[w], entered'[t])
    <3>1. entered[t] \subseteq entered'[t]
      BY <1>11
    <3>2. e.type # "LeaveRoomRequest" /\ e.type # "Connected"
      BY <1>2 DEF RequestTypes
    <3> DEFINE after == entered'[t]
    <3> HIDE DEF after
    <3>3. entered[t] \subseteq after
      BY <3>1 DEF after
    <3>4. Tracked(frame[w], outgoing_messages'[t], PlaceOf(room_system'),
                  NameOf(room_system'), t, history[w], after)
      BY <1>1, <1>2, <2>1, <3>2, <3>3, HandleShows
    <3> QED
      BY <3>4 DEF after
  <2>2. \A w \in Windows, t \in SessionIds : IsCurrent(w, t)' <=> IsCurrent(w, t)
    BY <1>1 DEF IsCurrent
  <2> QED
    BY <1>1, <2>1, <2>2 DEF SInv, Shows
<1>15. ASSUME NEW t \in SessionIds PROVE phase[t] = "open" <=> to[t] # Away
  <2>1. CASE t = s
    BY <1>1, <1>7, <2>1
  <2>2. CASE t # s
    BY <1>8, <2>2, Whereabouts
  <2> QED
    BY <2>1, <2>2
<1>16. ASSUME NEW t \in SessionIds, phase[t] = "free"
       PROVE  outgoing_messages'[t] = <<>> /\ entered'[t] = {}
  <2>1. t # s /\ entered[t] = {}
    BY <1>1, <1>16 DEF SInv, Links
  <2> QED
    BY <1>8, <1>11, <1>16, <2>1
<1> QED
  BY <1>3, <1>8, <1>13, <1>14, <1>15, <1>16

\* Who is connected does not change when only the server works.
LEMMA LinksKept ==
  ASSUME SInv, history' = history, phase' = phase,
         \A t \in SessionIds : phase[t] = "open" <=> PlaceOf(room_system')[t] # Away,
         \A t \in SessionIds : phase[t] = "free" =>
               outgoing_messages'[t] = <<>> /\ entered'[t] = {},
         \A t \in SessionIds : backlog[t] = <<>> => backlog'[t] = <<>>
  PROVE  Links'
<1>1. /\ phase \in [SessionIds -> {"free", "open", "closed"}]
      /\ history \in [Windows -> Seq(SessionIds)]
      /\ \A t \in SessionIds : phase[t] = "free" => backlog[t] = <<>>
      /\ \A w \in Windows, t \in SessionIds : IsCurrent(w, t) =>
            phase[t] # "free" /\ backlog[t] = <<>>
      /\ \A w, v \in Windows : \A t \in SessionIds :
            IsCurrent(w, t) /\ IsCurrent(v, t) => w = v
  BY DEF SInv, Links
<1>2. \A w \in Windows, t \in SessionIds : IsCurrent(w, t)' <=> IsCurrent(w, t)
  BY DEF IsCurrent
<1>3. \A w \in Windows, t \in SessionIds : IsCurrent(w, t)' =>
            phase'[t] # "free" /\ backlog'[t] = <<>>
  BY <1>1, <1>2
<1>4. \A w, v \in Windows : \A t \in SessionIds :
            IsCurrent(w, t)' /\ IsCurrent(v, t)' => w = v
  BY <1>1, <1>2
<1> QED
  BY <1>1, <1>3, <1>4 DEF Links

\* The server takes the next request of a connection.
LEMMA ServeStep ==
  ASSUME SInv, NEW w \in Windows, NEW s \in SessionIds, Serve(w, s)
  PROVE  SInv'
<1> DEFINE q == requests[w]
           n == NameOf(room_system)[s]
<1>1. /\ IsCurrent(w, s) /\ q # <<>> /\ HandleRequest(s, Head(q))
      /\ requests' = [requests EXCEPT ![w] = Tail(@)] /\ backlog' = backlog
      /\ history' = history /\ phase' = phase
  BY DEF Serve, HandleRequest
<1>2. /\ requests \in [Windows -> Seq(Requests)]
      /\ backlog \in [SessionIds -> Seq(Requests)]
      /\ Orderly(q, n)
      /\ backlog[s] = <<>>
  BY <1>1 DEF SInv, Asked, Links
<1>3. q \in Seq(Requests)
  <2> HIDE DEF Requests
  <2> QED
    BY <1>2
<1> DEFINE r == Head(q)
<1>4. r \in Requests /\ (r.type = "LoginRequest" => n = EmptyName)
  <2> HIDE DEF q, n
  <2> QED
    BY <1>1, <1>2, <1>3, OrderlyTail
<1> HIDE DEF r
<1>5. HandleRequest(s, r)
  BY <1>1 DEF r
<1>6. /\ IInv' /\ Travels' /\ Shows'
      /\ \A t \in SessionIds : phase[t] = "open" <=> PlaceOf(room_system')[t] # Away
      /\ \A t \in SessionIds : phase[t] = "free" =>
            outgoing_messages'[t] = <<>> /\ entered'[t] = {}
      /\ \A t \in SessionIds \ {s} : NameOf(room_system')[t] = NameOf(room_system)[t]
  BY <1>4, <1>5, RequestStep
<1>7. Links'
  BY <1>1, <1>6, LinksKept
<1>8. ASSUME NEW k PROVE Tail(q) \in Seq(Requests) /\ Orderly(Tail(q), k)
  <2> HIDE DEF q, n
  <2> QED
    BY <1>1, <1>2, <1>3, OrderlyTail
<1>9. requests' \in [Windows -> Seq(Requests)] /\ requests'[w] = Tail(q)
  <2>1. Tail(q) \in Seq(Requests)
    BY <1>8
  <2> HIDE DEF Requests
  <2> QED
    BY <1>1, <1>2, <2>1
<1>10. ASSUME NEW v \in Windows, NEW t \in SessionIds, IsCurrent(v, t)
       PROVE  Orderly(requests'[v], NameOf(room_system')[t])
  <2>1. CASE v = w
    BY <1>8, <1>9, <2>1
  <2>2. CASE v # w
    <3>1. t # s
      BY <1>1, <1>10, <2>2 DEF SInv, Links
    <3>2. requests'[v] = requests[v] /\ NameOf(room_system')[t] = NameOf(room_system)[t]
      BY <1>1, <1>2, <1>6, <2>2, <3>1
    <3>3. Orderly(requests[v], NameOf(room_system)[t])
      BY <1>10 DEF SInv, Asked
    <3> QED
      BY <3>2, <3>3
  <2> QED
    BY <2>1, <2>2
<1>11. ASSUME NEW t \in SessionIds
       PROVE  Orderly(backlog'[t], NameOf(room_system')[t])
  <2>1. CASE t = s
    BY <1>1, <1>2, <2>1, OrderlyNone
  <2>2. CASE t # s
    BY <1>1, <1>6, <2>2 DEF SInv, Asked
  <2> QED
    BY <2>1, <2>2
<1>12. \A v \in Windows, t \in SessionIds : IsCurrent(v, t)' <=> IsCurrent(v, t)
  BY <1>1 DEF IsCurrent
<1>13. Asked'
  <2> HIDE DEF q, Requests
  <2> QED
    BY <1>1, <1>2, <1>9, <1>10, <1>11, <1>12 DEF Asked
<1> QED
  BY <1>6, <1>7, <1>13 DEF SInv

\* The server takes the next request of a connection that has been given up.
LEMMA ServeBacklogStep ==
  ASSUME SInv, NEW s \in SessionIds, ServeBacklog(s)
  PROVE  SInv'
<1> DEFINE q == backlog[s]
           n == NameOf(room_system)[s]
<1>1. /\ q # <<>> /\ HandleRequest(s, Head(q))
      /\ backlog' = [backlog EXCEPT ![s] = Tail(@)] /\ requests' = requests
      /\ history' = history /\ phase' = phase
  BY DEF ServeBacklog, HandleRequest
<1>2. /\ requests \in [Windows -> Seq(Requests)]
      /\ backlog \in [SessionIds -> Seq(Requests)]
      /\ Orderly(q, n)
  BY <1>1 DEF SInv, Asked
<1>3. q \in Seq(Requests)
  <2> HIDE DEF Requests
  <2> QED
    BY <1>2
<1> DEFINE r == Head(q)
<1>4. r \in Requests /\ (r.type = "LoginRequest" => n = EmptyName)
  <2> HIDE DEF q, n
  <2> QED
    BY <1>1, <1>2, <1>3, OrderlyTail
<1> HIDE DEF r
<1>5. HandleRequest(s, r)
  BY <1>1 DEF r
<1>6. /\ IInv' /\ Travels' /\ Shows'
      /\ \A t \in SessionIds : phase[t] = "open" <=> PlaceOf(room_system')[t] # Away
      /\ \A t \in SessionIds : phase[t] = "free" =>
            outgoing_messages'[t] = <<>> /\ entered'[t] = {}
      /\ \A t \in SessionIds \ {s} : NameOf(room_system')[t] = NameOf(room_system)[t]
  BY <1>4, <1>5, RequestStep
<1>7. ASSUME NEW k PROVE Tail(q) \in Seq(Requests) /\ Orderly(Tail(q), k)
  <2> HIDE DEF q, n
  <2> QED
    BY <1>1, <1>2, <1>3, OrderlyTail
<1>8. /\ backlog' \in [SessionIds -> Seq(Requests)] /\ backlog'[s] = Tail(q)
      /\ \A t \in SessionIds \ {s} : backlog'[t] = backlog[t]
  <2>1. Tail(q) \in Seq(Requests)
    BY <1>7
  <2> HIDE DEF Requests
  <2> QED
    BY <1>1, <1>2, <2>1
<1>9. Links'
  <2>1. \A t \in SessionIds : backlog[t] = <<>> => backlog'[t] = <<>>
    BY <1>1, <1>8
  <2> QED
    BY <1>1, <1>6, <2>1, LinksKept
<1>10. ASSUME NEW v \in Windows, NEW t \in SessionIds, IsCurrent(v, t)
       PROVE  Orderly(requests[v], NameOf(room_system')[t])
  <2>1. t # s
    BY <1>1, <1>10 DEF SInv, Links
  <2> QED
    BY <1>6, <1>10, <2>1 DEF SInv, Asked
<1>11. ASSUME NEW t \in SessionIds
       PROVE  Orderly(backlog'[t], NameOf(room_system')[t])
  <2>1. CASE t = s
    BY <1>7, <1>8, <2>1
  <2>2. CASE t # s
    BY <1>6, <1>8, <2>2 DEF SInv, Asked
  <2> QED
    BY <2>1, <2>2
<1>12. \A v \in Windows, t \in SessionIds : IsCurrent(v, t)' <=> IsCurrent(v, t)
  BY <1>1 DEF IsCurrent
<1>13. Asked'
  <2> HIDE DEF q, Requests
  <2> QED
    BY <1>1, <1>2, <1>8, <1>10, <1>11, <1>12 DEF Asked
<1> QED
  BY <1>6, <1>9, <1>13 DEF SInv

\* The server learns that a connection has gone.
LEMMA ServerLosesStep ==
  ASSUME SInv, NEW s \in SessionIds, ServerLoses(s)
  PROVE  SInv'
<1> DEFINE e == [type |-> "Disconnected", session_id |-> s]
           at == PlaceOf(room_system)
           to == PlaceOf(room_system')
           names == NameOf(room_system)
           called == NameOf(room_system')
<1>1. /\ phase[s] = "open" /\ phase' = [phase EXCEPT ![s] = "closed"]
      /\ Handle(e) /\ frame' = frame /\ requests' = requests /\ history' = history
      /\ backlog' = backlog /\ entered' = entered
  BY DEF ServerLoses
<1>2. /\ e \in ServerEvent /\ e.session_id = s /\ e.type = "Disconnected"
  BY DEF ServerEvent, SessionEvent
<1> HIDE DEF e
<1>3. IInv' /\ Coherent(room_system) /\ at \in Places /\ names \in Naming
  <2>1. IInv'
    BY <1>1, <1>2, HandleStep DEF SInv
  <2>2. Coherent(room_system)
    BY DEF SInv, IInv
  <2> QED
    BY <2>1, <2>2, Presences
<1>4. room_system' = RemoveSession(room_system, s)
  BY <1>1, <1>2 DEF Handle, HandleSessionDisconnected
<1>5. to = [at EXCEPT ![s] = Away] /\ called = [names EXCEPT ![s] = EmptyName]
  BY <1>3, <1>4, RemoveSessionPresence
<1>6. /\ to[s] = Away /\ called[s] = EmptyName
      /\ \A t \in SessionIds \ {s} : to[t] = at[t] /\ called[t] = names[t]
  <2> HIDE DEF at, to, names, called
  <2> QED
    BY <1>3, <1>5 DEF Places, Naming
<1>7. ASSUME NEW t \in SessionIds \ {s}, phase[t] = "free" PROVE outgoing_messages'[t] = <<>>
  BY <1>1, <1>2, <1>7, HandleOthers
<1>8. /\ phase \in [SessionIds -> {"free", "open", "closed"}]
      /\ history \in [Windows -> Seq(SessionIds)]
      /\ \A t \in SessionIds : phase[t] = "open" <=> at[t] # Away
      /\ \A t \in SessionIds : phase[t] = "free" => backlog[t] = <<>> /\ entered[t] = {}
      /\ \A w \in Windows, t \in SessionIds : IsCurrent(w, t) =>
            phase[t] # "free" /\ backlog[t] = <<>>
      /\ \A w, v \in Windows : \A t \in SessionIds :
            IsCurrent(w, t) /\ IsCurrent(v, t) => w = v
  BY DEF SInv, Links
<1>9. \A w \in Windows, t \in SessionIds : IsCurrent(w, t)' <=> IsCurrent(w, t)
  BY <1>1 DEF IsCurrent
<1>10. /\ phase' \in [SessionIds -> {"free", "open", "closed"}] /\ phase'[s] = "closed"
       /\ \A t \in SessionIds \ {s} : phase'[t] = phase[t]
  BY <1>1, <1>8
<1>11. Links'
  <2>1. \A t \in SessionIds : phase'[t] = "open" <=> to[t] # Away
    BY <1>6, <1>8, <1>10
  <2>2. \A t \in SessionIds : phase'[t] = "free" =>
           outgoing_messages'[t] = <<>> /\ backlog'[t] = <<>> /\ entered'[t] = {}
    BY <1>1, <1>7, <1>8, <1>10
  <2>3. \A w \in Windows, t \in SessionIds : IsCurrent(w, t)' =>
           phase'[t] # "free" /\ backlog'[t] = <<>>
    BY <1>1, <1>8, <1>9, <1>10
  <2>4. \A w, v \in Windows : \A t \in SessionIds :
           IsCurrent(w, t)' /\ IsCurrent(v, t)' => w = v
    BY <1>8, <1>9
  <2> QED
    BY <1>1, <1>8, <1>10, <2>1, <2>2, <2>3, <2>4 DEF Links
<1>12. Asked'
  <2>1. ASSUME NEW t \in SessionIds, NEW q, Orderly(q, names[t])
        PROVE  Orderly(q, called[t])
    <3>1. Orderly(q, EmptyName)
      BY <2>1 DEF Orderly
    <3>2. called[t] = EmptyName \/ called[t] = names[t]
      BY <1>6
    <3> QED
      BY <2>1, <3>1, <3>2
  <2>2. /\ requests \in [Windows -> Seq(Requests)]
        /\ backlog \in [SessionIds -> Seq(Requests)]
        /\ \A w \in Windows, t \in SessionIds : IsCurrent(w, t) => Orderly(requests[w], names[t])
        /\ \A t \in SessionIds : Orderly(backlog[t], names[t])
    BY DEF SInv, Asked
  <2>3. /\ \A w \in Windows, t \in SessionIds : IsCurrent(w, t) => Orderly(requests[w], called[t])
        /\ \A t \in SessionIds : Orderly(backlog[t], called[t])
    BY <2>1, <2>2
  <2> HIDE DEF Requests
  <2> QED
    BY <1>1, <1>9, <2>2, <2>3 DEF Asked
<1>13. Travels'
  <2>1. Away \notin RoomIds /\ Away # no_room_id
    BY RoomSystemAssumption DEF Away, no_room_id
  <2>2. /\ entered \in [SessionIds -> SUBSET RoomIds]
        /\ \A t \in SessionIds :
             /\ IsFiniteSet(entered[t])
             /\ at[t] \in RoomIds => at[t] \in entered[t]
             /\ at[t] = no_room_id => entered[t] = {}
    BY DEF SInv, Travels
  <2>3. \A t \in SessionIds :
             /\ IsFiniteSet(entered[t])
             /\ to[t] \in RoomIds => to[t] \in entered[t]
             /\ to[t] = no_room_id => entered[t] = {}
    BY <1>6, <2>1, <2>2
  <2> QED
    BY <1>1, <2>2, <2>3 DEF Travels
<1>14. Shows'
  <2>1. ASSUME NEW w \in Windows, NEW t \in SessionIds, IsCurrent(w, t)
        PROVE  Tracked(frame[w], outgoing_messages'[t], to, called, t, history[w], entered[t])
    <3> DEFINE after == entered[t]
    <3>1. entered[t] \subseteq after
      OBVIOUS
    <3> HIDE DEF after
    <3>2. Tracked(frame[w], outgoing_messages'[t], PlaceOf(room_system'),
                  NameOf(room_system'), t, history[w], after)
      BY <1>1, <1>2, <2>1, <3>1, HandleShows
    <3> QED
      BY <3>2 DEF after
  <2> QED
    BY <1>1, <1>9, <2>1 DEF SInv, Shows
<1> QED
  BY <1>3, <1>11, <1>12, <1>13, <1>14 DEF SInv

-----------------------------------------------------------------------------
(* A window's members, one assignment at a time.                           *)

LEMMA SetClient ==
  ASSUME NEW f, IsFrame(f), NEW x
  PROVE  IsFrame([f EXCEPT !.client = x]) /\ SameView(f, [f EXCEPT !.client = x])
  BY DEF IsFrame, SameView

LEMMA SetControls ==
  ASSUME NEW f, IsFrame(f), NEW x
  PROVE  IsFrame([f EXCEPT !.controls = x]) /\ SameView(f, [f EXCEPT !.controls = x])
  BY DEF IsFrame, SameView

LEMMA SetRequestId ==
  ASSUME NEW f, IsFrame(f), NEW x \in Nat \ {0}
  PROVE  /\ IsFrame([f EXCEPT !.next_request_id = x])
         /\ SameView(f, [f EXCEPT !.next_request_id = x])
  BY DEF IsFrame, SameView

\* A window that connects, and one that has lost its connection.
LEMMA FrameConnects ==
  ASSUME NEW f, IsFrame(f)
  PROVE  LET g == [f EXCEPT !.client = TRUE, !.controls = TRUE, !.next_request_id = 3]
         IN  IsFrame(g) /\ SameView(f, g)
<1> DEFINE a == [f EXCEPT !.client = TRUE]
           b == [a EXCEPT !.controls = TRUE]
           c == [b EXCEPT !.next_request_id = 3]
           g == [f EXCEPT !.client = TRUE, !.controls = TRUE, !.next_request_id = 3]
<1>1. g = c
  OBVIOUS
<1>2. IsFrame(a) /\ SameView(f, a)
  BY SetClient
<1>3. IsFrame(b) /\ SameView(a, b)
  <2> HIDE DEF a
  <2> QED
    BY <1>2, SetControls
<1>4. IsFrame(c) /\ SameView(b, c)
  <2> HIDE DEF b
  <2> QED
    BY <1>3, SetRequestId
<1> HIDE DEF a, b, c, g
<1>5. IsFrame(g) /\ SameView(f, g)
  BY <1>1, <1>2, <1>3, <1>4 DEF SameView
<1> QED
  BY <1>5 DEF g

LEMMA FrameLoses ==
  ASSUME NEW f, IsFrame(f)
  PROVE  LET g == [f EXCEPT !.client = FALSE, !.controls = FALSE]
         IN  IsFrame(g) /\ SameView(f, g)
<1> DEFINE a == [f EXCEPT !.client = FALSE]
           b == [a EXCEPT !.controls = FALSE]
           g == [f EXCEPT !.client = FALSE, !.controls = FALSE]
<1>1. g = b
  OBVIOUS
<1>2. IsFrame(a) /\ SameView(f, a)
  BY SetClient
<1>3. IsFrame(b) /\ SameView(a, b)
  <2> HIDE DEF a
  <2> QED
    BY <1>2, SetControls
<1> HIDE DEF a, b, g
<1>4. IsFrame(g) /\ SameView(f, g)
  BY <1>1, <1>2, <1>3 DEF SameView
<1> QED
  BY <1>4 DEF g

-----------------------------------------------------------------------------
(* The steps of the windows.                                               *)

\* The frames when that of w has become g.
LEMMA ShowsChange ==
  ASSUME SInv, history' = history, entered' = entered, room_system' = room_system,
         NEW w \in Windows, NEW g, IsFrame(g), frame' = [frame EXCEPT ![w] = g],
         history[w] = <<>> => g.user_list = {},
         \A v \in Windows \ {w}, t \in SessionIds : IsCurrent(v, t) =>
             outgoing_messages'[t] = outgoing_messages[t],
         \A t \in SessionIds : IsCurrent(w, t) =>
             Tracked(g, outgoing_messages'[t], PlaceOf(room_system), NameOf(room_system),
                     t, history[w], entered[t])
  PROVE  Shows'
<1>1. /\ frame = [v \in Windows |-> frame[v]]
      /\ \A v \in Windows : IsFrame(frame[v]) /\ (history[v] = <<>> => frame[v].user_list = {})
      /\ \A v \in Windows, t \in SessionIds : IsCurrent(v, t) =>
            Tracked(frame[v], outgoing_messages[t], PlaceOf(room_system), NameOf(room_system),
                    t, history[v], entered[t])
  BY DEF SInv, Shows
<1>2. /\ frame' = [v \in Windows |-> frame'[v]] /\ frame'[w] = g
      /\ \A v \in Windows \ {w} : frame'[v] = frame[v]
  BY <1>1
<1>3. \A v \in Windows, t \in SessionIds : IsCurrent(v, t)' <=> IsCurrent(v, t)
  BY DEF IsCurrent
<1>4. \A v \in Windows : IsFrame(frame'[v]) /\ (history[v] = <<>> => frame'[v].user_list = {})
  BY <1>1, <1>2
<1>5. ASSUME NEW v \in Windows, NEW t \in SessionIds, IsCurrent(v, t)
      PROVE  Tracked(frame'[v], outgoing_messages'[t], PlaceOf(room_system),
                     NameOf(room_system), t, history[v], entered[t])
  <2>1. CASE v = w
    BY <1>2, <1>5, <2>1
  <2>2. CASE v # w
    BY <1>1, <1>2, <1>5, <2>2
  <2> QED
    BY <2>1, <2>2
<1> QED
  BY <1>2, <1>3, <1>4, <1>5 DEF Shows

\* Nothing but the frames and the packets under way changes.
LEMMA RestUnchanged ==
  ASSUME SInv, UNCHANGED <<room_system, pending_disconnects, requests, linkVars, entered>>,
         outgoing_messages' \in Streams,
         \A t \in SessionIds : outgoing_messages[t] = <<>> => outgoing_messages'[t] = <<>>
  PROVE  IInv' /\ Links' /\ Asked' /\ Travels'
<1>1. /\ room_system' = room_system /\ pending_disconnects' = pending_disconnects
      /\ requests' = requests /\ history' = history /\ phase' = phase
      /\ backlog' = backlog /\ entered' = entered
  BY DEF linkVars
<1>2. \A v \in Windows, t \in SessionIds : IsCurrent(v, t)' <=> IsCurrent(v, t)
  BY <1>1 DEF IsCurrent
<1>3. IInv'
  <2> HIDE DEF Payload
  <2> QED
    BY <1>1 DEF SInv, IInv, Streams
<1>4. Links'
  <2>1. \A t \in SessionIds : phase[t] = "open" <=> PlaceOf(room_system)[t] # Away
    BY DEF SInv, Links
  <2>2. \A t \in SessionIds : phase[t] = "free" =>
           outgoing_messages'[t] = <<>> /\ entered'[t] = {}
    BY <1>1 DEF SInv, Links
  <2> QED
    BY <1>1, <2>1, <2>2, LinksKept
<1>5. Asked'
  BY <1>1, <1>2 DEF SInv, Asked
<1>6. Travels'
  BY <1>1 DEF SInv, Travels
<1> QED
  BY <1>3, <1>4, <1>5, <1>6

\* OnPollTimer shows what has come.
LEMMA ShowStep ==
  ASSUME SInv, NEW w \in Windows, NEW s \in SessionIds, Show(w, s)
  PROVE  SInv'
<1> DEFINE f == frame[w]
           ms == outgoing_messages[s]
           g == ReadAll(f, ms)
<1>1. /\ IsCurrent(w, s) /\ frame' = [frame EXCEPT ![w] = g]
      /\ outgoing_messages' = [outgoing_messages EXCEPT ![s] = <<>>]
      /\ UNCHANGED <<room_system, pending_disconnects, requests, linkVars, entered>>
  <2>1. frame' = [frame EXCEPT ![w] = Window!Process(frame[w], outgoing_messages[s], EmptyName)]
    BY DEF Show
  <2> QED
    BY <2>1 DEF Show, ReadAll
<1>2. room_system' = room_system /\ history' = history /\ entered' = entered
  BY <1>1 DEF linkVars
<1>3. outgoing_messages \in Streams /\ ms \in Seq(Payload) /\ IsFrame(f)
  <2>1. outgoing_messages \in Streams
    BY DEF SInv, IInv, Streams
  <2>2. IsFrame(f)
    BY DEF SInv, Shows
  <2> HIDE DEF Payload
  <2> QED
    BY <2>1, <2>2 DEF Streams
<1>4. /\ outgoing_messages' \in Streams /\ outgoing_messages'[s] = <<>>
      /\ \A t \in SessionIds \ {s} : outgoing_messages'[t] = outgoing_messages[t]
  <2>1. <<>> \in Seq(Payload)
    OBVIOUS
  <2> HIDE DEF Payload
  <2> QED
    BY <1>1, <1>3, <2>1 DEF Streams
<1>5. IsFrame(g)
  <2> HIDE DEF f, ms, Payload
  <2> QED
    BY <1>3, ReadType
<1>6. history[w] # <<>>
  BY <1>1 DEF IsCurrent
<1>7. ASSUME NEW v \in Windows \ {w}, NEW t \in SessionIds, IsCurrent(v, t)
      PROVE  outgoing_messages'[t] = outgoing_messages[t]
  <2>1. t # s
    BY <1>1, <1>7 DEF SInv, Links
  <2> QED
    BY <1>4, <2>1
<1>8. ASSUME NEW t \in SessionIds, IsCurrent(w, t)
      PROVE  Tracked(g, outgoing_messages'[t], PlaceOf(room_system), NameOf(room_system),
                     t, history[w], entered[t])
  <2>1. t = s
    BY <1>1, <1>8 DEF IsCurrent
  <2> DEFINE at == PlaceOf(room_system)
             names == NameOf(room_system)
             hist == history[w]
             ent == entered[s]
  <2>2. Tracked(f, ms, at, names, s, hist, ent)
    BY <1>1 DEF SInv, Shows
  <2> HIDE DEF f, ms, at, names, hist, ent
  <2>3. Tracked(g, <<>>, at, names, s, hist, ent)
    BY <2>2, TrackedRead
  <2> QED
    BY <1>4, <2>1, <2>3 DEF at, names, hist, ent
<1> HIDE DEF g
<1>9. Shows'
  BY <1>1, <1>2, <1>5, <1>6, <1>7, <1>8, ShowsChange
<1>10. \A t \in SessionIds : outgoing_messages[t] = <<>> => outgoing_messages'[t] = <<>>
  BY <1>4
<1>11. IInv' /\ Links' /\ Asked' /\ Travels'
  BY <1>1, <1>4, <1>10, RestUnchanged
<1> QED
  BY <1>9, <1>11 DEF SInv

\* A frame changes and shows the same.
LEMMA SameShown ==
  ASSUME SInv, history' = history, entered' = entered, room_system' = room_system,
         outgoing_messages' = outgoing_messages,
         NEW w \in Windows, NEW g, IsFrame(g), SameView(frame[w], g),
         frame' = [frame EXCEPT ![w] = g]
  PROVE  Shows'
<1> DEFINE f == frame[w]
<1>1. IsFrame(f) /\ (history[w] = <<>> => f.user_list = {})
  BY DEF SInv, Shows
<1>2. history[w] = <<>> => g.user_list = {}
  BY <1>1 DEF SameView
<1>3. ASSUME NEW t \in SessionIds, IsCurrent(w, t)
      PROVE  Tracked(g, outgoing_messages'[t], PlaceOf(room_system), NameOf(room_system),
                     t, history[w], entered[t])
  <2> DEFINE at == PlaceOf(room_system)
             names == NameOf(room_system)
             hist == history[w]
             ent == entered[t]
             ms == outgoing_messages[t]
  <2>1. Tracked(f, ms, at, names, t, hist, ent) /\ SameView(f, g)
    BY <1>3 DEF SInv, Shows
  <2>2. ms \in Seq(Payload)
    BY Whereabouts
  <2> HIDE DEF f, ms, at, names, hist, ent, Payload
  <2>3. Tracked(g, ms, at, names, t, hist, ent)
    BY <1>1, <2>1, <2>2, TrackedSame
  <2> QED
    BY <2>3 DEF at, names, hist, ent, ms
<1>4. \A v \in Windows \ {w}, t \in SessionIds : IsCurrent(v, t) =>
          outgoing_messages'[t] = outgoing_messages[t]
  OBVIOUS
<1> QED
  BY <1>2, <1>3, <1>4, ShowsChange

\* A window finds that its connection is lost.
LEMMA LoseStep ==
  ASSUME SInv, NEW w \in Windows, Lose(w)
  PROVE  SInv'
<1> DEFINE f == frame[w]
           g == [f EXCEPT !.client = FALSE, !.controls = FALSE]
<1>1. /\ frame' = [frame EXCEPT ![w].client = FALSE, ![w].controls = FALSE]
      /\ UNCHANGED <<room_system, outgoing_messages, pending_disconnects, requests,
                     linkVars, entered>>
  BY DEF Lose, logicVars
<1>2. room_system' = room_system /\ history' = history /\ entered' = entered
      /\ outgoing_messages' = outgoing_messages
  BY <1>1 DEF linkVars
<1>3. frame = [v \in Windows |-> frame[v]] /\ IsFrame(f)
  BY DEF SInv, Shows
<1>4. frame' = [frame EXCEPT ![w] = g]
  BY <1>1, <1>3
<1>5. IsFrame(g) /\ SameView(f, g)
  <2> HIDE DEF f
  <2> QED
    BY <1>3, FrameLoses
<1> HIDE DEF g
<1>6. Shows'
  BY <1>2, <1>4, <1>5, SameShown
<1>7. outgoing_messages' \in Streams
  BY <1>2 DEF SInv, IInv, Streams
<1>8. IInv' /\ Links' /\ Asked' /\ Travels'
  BY <1>1, <1>2, <1>7, RestUnchanged
<1> QED
  BY <1>6, <1>8 DEF SInv

\* A window sends a request.
LEMMA SendStep ==
  ASSUME SInv, NEW w \in Windows, NEW r \in Requests, r.type # "LoginRequest",
         Window!Send(w, r), UNCHANGED <<logicVars, linkVars, entered>>
  PROVE  SInv'
<1> DEFINE f == frame[w]
           k == f.next_request_id + 1
           g == [f EXCEPT !.next_request_id = k]
           q == requests[w]
<1>1. /\ requests' = [requests EXCEPT ![w] = Append(q, r)]
      /\ frame' = [frame EXCEPT ![w].next_request_id = @ + 1]
  BY DEF Window!Send
<1>2. /\ room_system' = room_system /\ outgoing_messages' = outgoing_messages
      /\ pending_disconnects' = pending_disconnects
      /\ history' = history /\ phase' = phase /\ backlog' = backlog /\ entered' = entered
  BY DEF logicVars, linkVars
<1>3. frame = [v \in Windows |-> frame[v]] /\ IsFrame(f)
  BY DEF SInv, Shows
<1>4. frame' = [frame EXCEPT ![w] = g]
  BY <1>1, <1>3
<1>5. IsFrame(g) /\ SameView(f, g)
  <2>1. k \in Nat \ {0}
    BY <1>3 DEF IsFrame
  <2> HIDE DEF f, k
  <2> QED
    BY <1>3, <2>1, SetRequestId
<1> HIDE DEF g
<1>6. Shows'
  BY <1>2, <1>4, <1>5, SameShown
<1>7. \A v \in Windows, t \in SessionIds : IsCurrent(v, t)' <=> IsCurrent(v, t)
  BY <1>2 DEF IsCurrent
<1>8. /\ requests \in [Windows -> Seq(Requests)]
      /\ backlog \in [SessionIds -> Seq(Requests)]
      /\ \A v \in Windows, t \in SessionIds : IsCurrent(v, t) =>
            Orderly(requests[v], NameOf(room_system)[t])
      /\ \A t \in SessionIds : Orderly(backlog[t], NameOf(room_system)[t])
  BY DEF SInv, Asked
<1>9. /\ requests' \in [Windows -> Seq(Requests)] /\ requests'[w] = Append(q, r)
      /\ \A v \in Windows \ {w} : requests'[v] = requests[v]
      /\ q \in Seq(Requests)
  <2> HIDE DEF Requests
  <2> QED
    BY <1>1, <1>8
<1>10. ASSUME NEW v \in Windows, NEW t \in SessionIds, IsCurrent(v, t)
       PROVE  Orderly(requests'[v], NameOf(room_system)[t])
  <2> DEFINE n == NameOf(room_system)[t]
  <2>1. CASE v = w
    <3>1. Orderly(q, n)
      BY <1>8, <1>10, <2>1
    <3> HIDE DEF q, n
    <3>2. Orderly(Append(q, r), n)
      BY <1>9, <3>1, OrderlyAppend
    <3> QED
      BY <1>9, <2>1, <3>2 DEF n
  <2>2. CASE v # w
    BY <1>8, <1>9, <1>10, <2>2
  <2> QED
    BY <2>1, <2>2
<1>11. Asked'
  <2> HIDE DEF Requests, q
  <2> QED
    BY <1>2, <1>7, <1>8, <1>9, <1>10 DEF Asked
<1>12. IInv' /\ Travels'
  BY <1>2 DEF SInv, IInv, Travels
<1>13. Links'
  <2>1. \A t \in SessionIds : phase[t] = "open" <=> PlaceOf(room_system)[t] # Away
    BY DEF SInv, Links
  <2>2. \A t \in SessionIds : phase[t] = "free" =>
           outgoing_messages'[t] = <<>> /\ entered'[t] = {}
    BY <1>2 DEF SInv, Links
  <2> QED
    BY <1>2, <2>1, <2>2, LinksKept
<1> QED
  BY <1>6, <1>11, <1>12, <1>13 DEF SInv

\* The user joins a room or writes.
LEMMA ClickStep ==
  ASSUME SInv, NEW w \in Windows, Click(w)
  PROVE  SInv'
<1> DEFINE id == frame[w].next_request_id
<1>1. UNCHANGED <<logicVars, linkVars, entered>>
  BY DEF Click
<1>2. ASSUME NEW r, Window!Send(w, r) PROVE id \in RequestIds
  <2>1. id \in Nat \ {0}
    BY DEF SInv, Shows, IsFrame
  <2>2. id <= MaxClicks + 2
    BY <1>2 DEF Window!Send
  <2> HIDE DEF id
  <2> QED
    BY <2>1, <2>2, ChatSystemAssumption
<1>3. ASSUME NEW room \in RoomIds, Window!OnJoinRoomClicked(w, room) PROVE SInv'
  <2> DEFINE r == Window!JoinRoomRequest(id, room)
  <2>1. Window!Send(w, r)
    BY <1>3 DEF Window!OnJoinRoomClicked
  <2>2. id \in RequestIds
    BY <1>2, <2>1
  <2> HIDE DEF id
  <2>3. r \in Requests /\ r.type # "LoginRequest"
    BY <2>2 DEF Requests, Window!JoinRoomRequest
  <2> HIDE DEF r
  <2> QED
    BY <1>1, <2>1, <2>3, SendStep
<1>4. ASSUME NEW text \in Texts, Window!OnSendClicked(w, text) PROVE SInv'
  <2> DEFINE r == Window!ChatSendRequest(id, text)
  <2>1. Window!Send(w, r)
    BY <1>4 DEF Window!OnSendClicked
  <2>2. id \in RequestIds
    BY <1>2, <2>1
  <2> HIDE DEF id
  <2>3. r \in Requests /\ r.type # "LoginRequest"
    BY <2>2 DEF Requests, Window!ChatSendRequest
  <2> HIDE DEF r
  <2> QED
    BY <1>1, <2>1, <2>3, SendStep
<1> QED
  BY <1>3, <1>4 DEF Click

\* A window connects, perhaps again.
LEMMA ConnectStep ==
  ASSUME SInv, NEW w \in Windows, NEW s \in SessionIds, Connect(w, s)
  PROVE  SInv'
<1> DEFINE e == [type |-> "Connected", session_id |-> s]
           at == PlaceOf(room_system)
           to == PlaceOf(room_system')
           names == NameOf(room_system)
           called == NameOf(room_system')
           f == frame[w]
           g == [f EXCEPT !.client = TRUE, !.controls = TRUE, !.next_request_id = 3]
<1>1. PICK typed \in Names : Window!OnConnectClicked(w, typed)
  BY DEF Connect
<1> DEFINE first == <<Window!LoginRequest(1, typed), Window!RoomListRequest(2)>>
<1>2. /\ phase[s] = "free" /\ Handle(e)
      /\ phase' = [phase EXCEPT ![s] = "open"]
      /\ history' = [history EXCEPT ![w] = Append(@, s)]
      /\ backlog' = [t \in SessionIds |-> IF IsCurrent(w, t) THEN requests[w] ELSE backlog[t]]
      /\ entered' = entered
      /\ frame' = [frame EXCEPT ![w].client = TRUE, ![w].controls = TRUE,
                                ![w].next_request_id = 3]
      /\ requests' = [requests EXCEPT ![w] = first]
  BY <1>1 DEF Connect, Window!OnConnectClicked
<1>3. e \in ServerEvent /\ e.session_id = s /\ e.type = "Connected"
  BY DEF ServerEvent, SessionEvent
<1> HIDE DEF e
<1>4. IInv' /\ Coherent(room_system) /\ at \in Places
  <2>1. IInv'
    BY <1>2, <1>3, HandleStep DEF SInv
  <2>2. Coherent(room_system)
    BY DEF SInv, IInv
  <2> QED
    BY <2>1, <2>2, Presences
<1>5. room_system' = AddSession(room_system, s) /\ outgoing_messages' = outgoing_messages
  BY <1>2, <1>3 DEF Handle, HandleSessionConnected
<1>6. at[s] = Away /\ names[s] = EmptyName
  BY <1>2, Whereabouts
<1>7. to = [at EXCEPT ![s] = no_room_id] /\ called = names
  <2>1. ~FindSession(room_system, s)
    BY <1>4, <1>6, Presences
  <2> QED
    BY <1>4, <1>5, <2>1, AddSessionPresence
<1>8. to[s] = no_room_id /\ \A t \in SessionIds \ {s} : to[t] = at[t]
  <2> HIDE DEF at, to
  <2> QED
    BY <1>4, <1>7 DEF Places
<1>9. no_room_id \notin RoomIds /\ Away # no_room_id
  BY RoomSystemAssumption DEF Away, no_room_id
<1>10. /\ phase \in [SessionIds -> {"free", "open", "closed"}]
       /\ history \in [Windows -> Seq(SessionIds)]
       /\ \A t \in SessionIds : phase[t] = "open" <=> at[t] # Away
       /\ \A t \in SessionIds : phase[t] = "free" =>
             outgoing_messages[t] = <<>> /\ backlog[t] = <<>> /\ entered[t] = {}
       /\ \A v \in Windows, t \in SessionIds : IsCurrent(v, t) =>
             phase[t] # "free" /\ backlog[t] = <<>>
       /\ \A v, u \in Windows : \A t \in SessionIds :
             IsCurrent(v, t) /\ IsCurrent(u, t) => v = u
  BY DEF SInv, Links
<1>11. /\ history' \in [Windows -> Seq(SessionIds)] /\ history'[w] = Append(history[w], s)
       /\ \A v \in Windows \ {w} : history'[v] = history[v]
       /\ history[w] \in Seq(SessionIds)
  BY <1>2, <1>10
<1>12. history'[w] # <<>> /\ Last(history'[w]) = s
       /\ (Len(history'[w]) = 1 => history[w] = <<>>)
  <2> DEFINE h == history[w]
  <2>1. Append(h, s) # <<>> /\ Last(Append(h, s)) = s /\ (Len(Append(h, s)) = 1 => h = <<>>)
    <3>1. h \in Seq(SessionIds)
      BY <1>11
    <3> HIDE DEF h
    <3> QED
      BY <3>1 DEF Last
  <2> QED
    BY <1>11, <2>1
<1>13. /\ \A t \in SessionIds : IsCurrent(w, t)' <=> t = s
       /\ \A v \in Windows \ {w}, t \in SessionIds : IsCurrent(v, t)' <=> IsCurrent(v, t)
  BY <1>11, <1>12 DEF IsCurrent
<1>14. \A v \in Windows : ~IsCurrent(v, s)
  BY <1>2, <1>10
<1>15. /\ phase' \in [SessionIds -> {"free", "open", "closed"}] /\ phase'[s] = "open"
       /\ \A t \in SessionIds \ {s} : phase'[t] = phase[t]
  BY <1>2, <1>10
<1>16. /\ \A t \in SessionIds : IsCurrent(w, t) => backlog'[t] = requests[w]
       /\ \A t \in SessionIds : ~IsCurrent(w, t) => backlog'[t] = backlog[t]
  BY <1>2
<1>17. Links'
  <2>1. \A t \in SessionIds : phase'[t] = "open" <=> to[t] # Away
    BY <1>8, <1>9, <1>10, <1>15
  <2>2. \A t \in SessionIds : phase'[t] = "free" =>
           outgoing_messages'[t] = <<>> /\ backlog'[t] = <<>> /\ entered'[t] = {}
    BY <1>2, <1>5, <1>10, <1>15, <1>16
  <2>3. ASSUME NEW v \in Windows, NEW t \in SessionIds, IsCurrent(v, t)'
        PROVE  phase'[t] # "free" /\ backlog'[t] = <<>>
    <3>1. CASE v = w
      BY <1>2, <1>10, <1>13, <1>14, <1>15, <1>16, <2>3, <3>1
    <3>2. CASE v # w
      <4>1. IsCurrent(v, t) /\ t # s /\ ~IsCurrent(w, t)
        BY <1>10, <1>13, <1>14, <2>3, <3>2
      <4> QED
        BY <1>10, <1>15, <1>16, <4>1
    <3> QED
      BY <3>1, <3>2
  <2>4. ASSUME NEW v \in Windows, NEW u \in Windows, NEW t \in SessionIds,
               IsCurrent(v, t)', IsCurrent(u, t)'
        PROVE  v = u
    <3>1. CASE t = s
      <4>1. ASSUME NEW x \in Windows, x # w PROVE ~IsCurrent(x, s)'
        BY <1>13, <1>14, <4>1
      <4> QED
        BY <2>4, <3>1, <4>1
    <3>2. CASE t # s
      <4>1. v # w /\ u # w
        BY <1>13, <2>4, <3>2
      <4>2. IsCurrent(v, t) /\ IsCurrent(u, t)
        BY <1>13, <2>4, <4>1
      <4> QED
        BY <1>10, <4>2
    <3> QED
      BY <3>1, <3>2
  <2> QED
    BY <1>11, <1>15, <2>1, <2>2, <2>3, <2>4 DEF Links
<1>18. first \in Seq(Requests) /\ Orderly(first, EmptyName)
  BY FirstRequests
<1> HIDE DEF first
<1>19. /\ requests \in [Windows -> Seq(Requests)]
       /\ backlog \in [SessionIds -> Seq(Requests)]
       /\ \A v \in Windows, t \in SessionIds : IsCurrent(v, t) => Orderly(requests[v], names[t])
       /\ \A t \in SessionIds : Orderly(backlog[t], names[t])
  BY DEF SInv, Asked
<1>20. /\ requests' \in [Windows -> Seq(Requests)] /\ requests'[w] = first
       /\ \A v \in Windows \ {w} : requests'[v] = requests[v]
       /\ backlog' \in [SessionIds -> Seq(Requests)]
  <2> HIDE DEF Requests
  <2> QED
    BY <1>2, <1>18, <1>19
<1>21. Asked'
  <2>1. ASSUME NEW v \in Windows, NEW t \in SessionIds, IsCurrent(v, t)'
        PROVE  Orderly(requests'[v], called[t])
    <3>1. CASE v = w
      BY <1>6, <1>7, <1>13, <1>18, <1>20, <2>1, <3>1
    <3>2. CASE v # w
      BY <1>7, <1>13, <1>19, <1>20, <2>1, <3>2
    <3> QED
      BY <3>1, <3>2
  <2>2. \A t \in SessionIds : Orderly(backlog'[t], called[t])
    BY <1>7, <1>16, <1>19
  <2> HIDE DEF Requests
  <2> QED
    BY <1>20, <2>1, <2>2 DEF Asked
<1>22. Travels'
  <2>1. /\ entered \in [SessionIds -> SUBSET RoomIds]
        /\ \A t \in SessionIds :
             /\ IsFiniteSet(entered[t])
             /\ at[t] \in RoomIds => at[t] \in entered[t]
             /\ at[t] = no_room_id => entered[t] = {}
    BY DEF SInv, Travels
  <2>2. entered[s] = {}
    BY <1>2, <1>10
  <2>3. \A t \in SessionIds :
             /\ IsFiniteSet(entered[t])
             /\ to[t] \in RoomIds => to[t] \in entered[t]
             /\ to[t] = no_room_id => entered[t] = {}
    BY <1>8, <1>9, <2>1, <2>2
  <2> QED
    BY <1>2, <2>1, <2>3 DEF Travels
<1>23. frame = [v \in Windows |-> frame[v]] /\ IsFrame(f)
       /\ (history[w] = <<>> => f.user_list = {})
  BY DEF SInv, Shows
<1>24. /\ frame' = [v \in Windows |-> frame'[v]] /\ frame'[w] = g
       /\ \A v \in Windows \ {w} : frame'[v] = frame[v]
  <2>1. frame' = [frame EXCEPT ![w] = g]
    BY <1>2, <1>23
  <2> HIDE DEF g
  <2> QED
    BY <1>23, <2>1
<1>25. IsFrame(g) /\ SameView(f, g)
  <2> HIDE DEF f
  <2> QED
    BY <1>23, FrameConnects
<1> HIDE DEF g
<1>26. ASSUME NEW v \in Windows, NEW t \in SessionIds, IsCurrent(v, t)'
       PROVE  Tracked(frame'[v], outgoing_messages'[t], to, called, t, history'[v], entered'[t])
  <2>1. CASE v = w
    <3>1. t = s /\ frame'[v] = g /\ outgoing_messages'[t] = <<>>
      BY <1>2, <1>5, <1>10, <1>13, <1>24, <2>1, <1>26
    <3>2. ReadAll(g, <<>>) = g /\ InPlace(g, <<>>)
      BY ReadNone, InPlaceNone
    <3>3. RoomShown(g, to, s)
      BY <1>8, <1>9 DEF RoomShown
    <3>4. Known(to, called, s) = {}
      <4>1. Mates(to, s) = {s}
        BY <1>8, <1>9 DEF Mates
      <4>2. EmptyName \notin Names
        BY RoomSystemAssumption
      <4>3. called[s] \notin Distinct
        BY <1>6, <1>7, <4>2 DEF Distinct
      <4> QED
        BY <4>1, <4>3 DEF Known
    <3>5. Len(history'[v]) = 1 => Listed(g) = {}
      BY <1>12, <1>23, <1>25, <2>1 DEF SameView, Listed
    <3> DEFINE hist == history'[v]
               ent == entered'[t]
    <3> HIDE DEF to, called
    <3>6. Tracked(g, <<>>, to, called, s, hist, ent)
      BY <3>2, <3>3, <3>4, <3>5 DEF Tracked
    <3> QED
      BY <3>1, <3>6
  <2>2. CASE v # w
    <3>1. /\ IsCurrent(v, t) /\ t # s /\ frame'[v] = frame[v] /\ history'[v] = history[v]
          /\ entered'[t] = entered[t]
      BY <1>2, <1>11, <1>13, <1>14, <1>24, <1>26, <2>2
    <3> DEFINE after == entered[t]
    <3>2. entered[t] \subseteq after
      OBVIOUS
    <3> HIDE DEF after
    <3>3. Tracked(frame[v], outgoing_messages'[t], PlaceOf(room_system'),
                  NameOf(room_system'), t, history[v], after)
      BY <1>2, <1>3, <3>1, <3>2, HandleShows
    <3> QED
      BY <3>1, <3>3 DEF after
  <2> QED
    BY <2>1, <2>2
<1>27. ASSUME NEW v \in Windows
       PROVE  IsFrame(frame'[v]) /\ (history'[v] = <<>> => frame'[v].user_list = {})
  <2>1. CASE v = w
    BY <1>12, <1>24, <1>25, <2>1
  <2>2. CASE v # w
    BY <1>11, <1>24, <2>2 DEF SInv, Shows
  <2> QED
    BY <2>1, <2>2
<1>28. Shows'
  BY <1>24, <1>26, <1>27 DEF Shows
<1> QED
  BY <1>4, <1>17, <1>21, <1>22, <1>28 DEF SInv

-----------------------------------------------------------------------------
(* The invariant holds, and what follows from it.                          *)

LEMMA SystemInitStep == SystemInit => SInv
<1> SUFFICES ASSUME SystemInit PROVE SInv
  OBVIOUS
<1>1. /\ Init /\ history = [w \in Windows |-> <<>>] /\ phase = [s \in SessionIds |-> "free"]
      /\ backlog = [s \in SessionIds |-> <<>>] /\ entered = [s \in SessionIds |-> {}]
      /\ frame = [w \in Windows |-> Window!NewFrame]
      /\ requests = [w \in Windows |-> <<>>]
  BY DEF SystemInit, Window!WindowInit
<1>2. IInv
  BY <1>1, InitStep
<1>3. /\ \A s \in SessionIds : PlaceOf(room_system)[s] = Away
      /\ outgoing_messages = NoMessages
  BY <1>1 DEF Init, NewRoomSystem, PlaceOf, FindSession
<1>4. \A w \in Windows, s \in SessionIds : ~IsCurrent(w, s)
  BY <1>1 DEF IsCurrent
<1>5. Links
  BY <1>1, <1>3, <1>4 DEF Links, NoMessages
<1>6. Asked
  <2> HIDE DEF Requests
  <2> QED
    BY <1>1, <1>4, OrderlyNone DEF Asked
<1>7. Travels
  <2>1. Away \notin RoomIds /\ Away # no_room_id
    BY RoomSystemAssumption DEF Away, no_room_id
  <2> QED
    BY <1>1, <1>3, <2>1, FS_EmptySet DEF Travels
<1>8. IsFrame(Window!NewFrame) /\ Window!NewFrame.user_list = {}
  <2> DEFINE f == [open |-> TRUE, client |-> FALSE, controls |-> FALSE, rooms |-> {},
                   current_room_id |-> 0, user_list |-> {}, next_request_id |-> 1]
             g == [f EXCEPT !.rooms = RoomIds]
             a == [type |-> "RoomList", rooms |-> RoomIds]
             b == [type |-> "SystemMessage"]
  <2>1. IsFrame(f) /\ f.user_list = {}
    BY DEF IsFrame
  <2>2. IsFrame(g) /\ g.user_list = f.user_list
    <3> HIDE DEF f
    <3> QED
      BY <2>1 DEF IsFrame
  <2>3. Window!ProcessProtocolEvent(f, a, EmptyName) = g
    <3>1. a.type = "RoomList" /\ a.rooms = RoomIds
      OBVIOUS
    <3> HIDE DEF a, f
    <3> QED
      BY <3>1 DEF Window!ProcessProtocolEvent
  <2>4. Window!ProcessProtocolEvent(g, b, EmptyName) = g
    <3>1. b.type = "SystemMessage"
      OBVIOUS
    <3> HIDE DEF b, g
    <3> QED
      BY <3>1 DEF Window!ProcessProtocolEvent
  <2>5. Window!CreateMockEvents[1] = a /\ Window!CreateMockEvents[2] = b
    BY DEF Window!CreateMockEvents
  <2>6. Window!NewFrame = g
    <3> HIDE DEF a, b, g
    <3> QED
      BY <2>3, <2>4, <2>5 DEF Window!NewFrame, Window!LoadMockData
  <2> HIDE DEF g
  <2> QED
    BY <2>1, <2>2, <2>6
<1>9. Shows
  BY <1>1, <1>4, <1>8 DEF Shows
<1> QED
  BY <1>2, <1>5, <1>6, <1>7, <1>9 DEF SInv

LEMMA SystemStep == SInv /\ [SystemNext]_systemVars => SInv'
<1> SUFFICES ASSUME SInv, [SystemNext]_systemVars PROVE SInv'
  OBVIOUS
<1>1. CASE UNCHANGED systemVars
  <2>1. UNCHANGED <<room_system, outgoing_messages, pending_disconnects, frame, requests,
                    history, phase, backlog, entered>>
    BY <1>1 DEF systemVars, logicVars, linkVars
  <2> QED
    BY <2>1 DEF SInv, IInv, Links, Asked, Travels, Shows, IsCurrent
<1>2. ASSUME NEW w \in Windows, Click(w) \/ Lose(w) PROVE SInv'
  BY <1>2, ClickStep, LoseStep
<1>3. ASSUME NEW w \in Windows, NEW s \in SessionIds,
             Connect(w, s) \/ Show(w, s) \/ Serve(w, s)
      PROVE  SInv'
  BY <1>3, ConnectStep, ShowStep, ServeStep
<1>4. ASSUME NEW s \in SessionIds, ServeBacklog(s) \/ ServerLoses(s) PROVE SInv'
  BY <1>4, ServeBacklogStep, ServerLosesStep
<1> QED
  BY <1>1, <1>2, <1>3, <1>4 DEF SystemNext

LEMMA SystemInvariant == SystemSpec => []SInv
  BY SystemInitStep, SystemStep, PTL DEF SystemSpec

\* A live connection: its session is there, and the window is on track.
LEMMA LiveTracked ==
  ASSUME SInv, NEW w \in Windows, NEW s \in SessionIds, Live(w, s)
  PROVE  /\ PlaceOf(room_system)[s] = RoomOf(s)
         /\ RoomOf(s) \in RoomIds \cup {no_room_id}
         /\ RoomShown(CaughtUp(w, s), PlaceOf(room_system), s)
         /\ Known(PlaceOf(room_system), NameOf(room_system), s) \subseteq Listed(CaughtUp(w, s))
         /\ Len(history[w]) = 1 /\ entered[s] \subseteq {RoomOf(s)} =>
              Listed(CaughtUp(w, s)) = Known(PlaceOf(room_system), NameOf(room_system), s)
<1> DEFINE at == PlaceOf(room_system)
           names == NameOf(room_system)
<1>1. IsCurrent(w, s) /\ phase[s] = "open" /\ Coherent(room_system)
  BY DEF Live, SInv, IInv
<1>2. at[s] # Away /\ at[s] \in RoomIds \cup {no_room_id}
  BY <1>1, Whereabouts
<1>3. at[s] = RoomOf(s)
  <2>1. FindSession(room_system, s)
    BY <1>1, <1>2, Presences
  <2> QED
    BY <1>1, <2>1, Presences DEF RoomOf
<1>4. CaughtUp(w, s) = ReadAll(frame[w], outgoing_messages[s])
  BY DEF CaughtUp, ReadAll
<1>5. Tracked(frame[w], outgoing_messages[s], at, names, s, history[w], entered[s])
  BY <1>1 DEF SInv, Shows
<1> HIDE DEF at, names
<1>6. /\ RoomShown(CaughtUp(w, s), at, s)
      /\ Known(at, names, s) \subseteq Listed(CaughtUp(w, s))
      /\ Len(history[w]) = 1 /\ entered[s] \subseteq {at[s]} =>
           Listed(CaughtUp(w, s)) = Known(at, names, s)
  BY <1>2, <1>4, <1>5 DEF Tracked
<1> QED
  BY <1>2, <1>3, <1>6 DEF at, names

\* The members of a room are those who are in it.
LEMMA MembersKnown ==
  ASSUME SInv, NEW s \in SessionIds, PlaceOf(room_system)[s] \in RoomIds
  PROVE  MemberNames(PlaceOf(room_system)[s]) \cap Distinct =
           Known(PlaceOf(room_system), NameOf(room_system), s)
<1> DEFINE at == PlaceOf(room_system)
           names == NameOf(room_system)
           r == at[s]
<1>1. Coherent(room_system)
  BY DEF SInv, IInv
<1>2. \A u \in SessionIds : u \in room_system.rooms[r] <=> at[u] = r
  <2>1. \A u \in SessionIds : FindSession(room_system, u) <=> at[u] # Away
    BY <1>1, Presences
  <2>2. \A u \in SessionIds : FindSession(room_system, u) =>
            at[u] = room_system.sessions[u].room_id
    BY <1>1, Presences
  <2>3. r # Away
    BY RoomSystemAssumption DEF Away
  <2>4. MembershipAgrees(room_system)
    BY <1>1 DEF Coherent
  <2> QED
    BY <2>1, <2>2, <2>3, <2>4 DEF MembershipAgrees, FindSession
<1>3. room_system.rooms[r] = Mates(at, s)
  <2>1. room_system.rooms[r] \subseteq SessionIds
    BY <1>1 DEF Coherent, IsRoomSystem
  <2> QED
    BY <1>2, <2>1 DEF Mates
<1>4. \A u \in Mates(at, s) : room_system.sessions[u].display_name = names[u]
  <2>1. \A u \in Mates(at, s) : u \in SessionIds /\ at[u] \in RoomIds
    BY DEF Mates
  <2> QED
    BY <1>1, <2>1, Presences
<1> HIDE DEF at, names
<1>5. MemberNames(r) = {names[u] : u \in Mates(at, s)}
  BY <1>3, <1>4 DEF MemberNames
<1> QED
  BY <1>5 DEF Known, at, names

\* Once it has caught up, a window shows the room its session is in:
\* JoinRoomResponse comes before every event of the room it is about, and no
\* other packet changes current_room_id_.
THEOREM RoomAgreesTheorem == SystemSpec => []RoomAgrees
<1>1. SInv => RoomAgrees
  <2> SUFFICES ASSUME SInv, NEW w \in Windows, NEW s \in SessionIds, Live(w, s),
                      RoomOf(s) # no_room_id
               PROVE  CaughtUp(w, s).current_room_id = RoomOf(s)
    BY DEF RoomAgrees
  <2>1. /\ PlaceOf(room_system)[s] = RoomOf(s)
        /\ RoomOf(s) \in RoomIds \cup {no_room_id}
        /\ RoomShown(CaughtUp(w, s), PlaceOf(room_system), s)
    BY LiveTracked
  <2> QED
    BY <2>1 DEF RoomShown
<1> QED
  BY <1>1, SystemInvariant, PTL

\* The window need not look at the room_id of a chat, a UserJoinedEvent or a
\* UserLeftEvent: when it comes to show one it shows the room it is about.
THEOREM EventsMatchRoomTheorem == SystemSpec => []EventsMatchRoom
<1>1. SInv => EventsMatchRoom
  <2> SUFFICES ASSUME SInv, NEW w \in Windows, NEW s \in SessionIds, IsCurrent(w, s),
                      NEW i \in DOMAIN outgoing_messages[s],
                      outgoing_messages[s][i].type \in
                          {"ChatBroadcast", "UserJoinedEvent", "UserLeftEvent"}
               PROVE  outgoing_messages[s][i].room_id =
                        Window!Shown(frame[w], outgoing_messages[s], EmptyName)[i - 1].current_room_id
    BY DEF EventsMatchRoom
  <2> DEFINE ms == outgoing_messages[s]
  <2>1. InPlace(frame[w], ms)
    BY DEF SInv, Shows, Tracked
  <2>2. DOMAIN ms = 1 .. Len(ms)
    <3>1. ms \in Seq(Payload)
      BY Whereabouts
    <3> HIDE DEF ms, Payload
    <3> QED
      BY <3>1
  <2> QED
    BY <2>1, <2>2 DEF InPlace, RoomEvent, Reading
<1> QED
  BY <1>1, SystemInvariant, PTL

\* Once it has caught up, a window lists every member of its room whose name
\* FindString cannot take for another's: whoever joins a room is told of its
\* members and its members of them, and no event of a room the window has left
\* or of a session it has given up takes a member away.
THEOREM UserListCoversTheorem == SystemSpec => []UserListCovers
<1>1. SInv => UserListCovers
  <2> SUFFICES ASSUME SInv, NEW w \in Windows, NEW s \in SessionIds, Live(w, s),
                      RoomOf(s) # no_room_id
               PROVE  MemberNames(RoomOf(s)) \cap Distinct \subseteq CaughtUp(w, s).user_list
    BY DEF UserListCovers
  <2>1. /\ PlaceOf(room_system)[s] = RoomOf(s)
        /\ RoomOf(s) \in RoomIds \cup {no_room_id}
        /\ Known(PlaceOf(room_system), NameOf(room_system), s) \subseteq Listed(CaughtUp(w, s))
    BY LiveTracked
  <2>2. MemberNames(RoomOf(s)) \cap Distinct =
          Known(PlaceOf(room_system), NameOf(room_system), s)
    BY <2>1, MembersKnown
  <2> QED
    BY <2>1, <2>2 DEF Listed
<1> QED
  BY <1>1, SystemInvariant, PTL

\* Until a window changes rooms or reconnects its list shows nobody else: every
\* departure from the one room it has been in reaches it.
THEOREM FirstRoomExactTheorem == SystemSpec => []FirstRoomExact
<1>1. SInv => FirstRoomExact
  <2> SUFFICES ASSUME SInv, NEW w \in Windows, NEW s \in SessionIds, Live(w, s),
                      Len(history[w]) = 1, Cardinality(entered[s]) = 1
               PROVE  CaughtUp(w, s).user_list \cap Distinct =
                        MemberNames(RoomOf(s)) \cap Distinct
    BY DEF FirstRoomExact
  <2>1. /\ PlaceOf(room_system)[s] = RoomOf(s)
        /\ RoomOf(s) \in RoomIds \cup {no_room_id}
        /\ Len(history[w]) = 1 /\ entered[s] \subseteq {RoomOf(s)} =>
             Listed(CaughtUp(w, s)) = Known(PlaceOf(room_system), NameOf(room_system), s)
    BY LiveTracked
  <2>2. \E x : entered[s] = {x}
    <3> DEFINE S == entered[s]
    <3>1. IsFiniteSet(S) /\ Cardinality(S) = 1
      BY DEF SInv, Travels
    <3> HIDE DEF S
    <3>2. \E x : S = {x}
      BY <3>1, FS_Singleton
    <3> QED
      BY <3>2 DEF S
  <2>3. RoomOf(s) \in RoomIds /\ RoomOf(s) \in entered[s]
    BY <2>1, <2>2, Whereabouts
  <2>4. entered[s] \subseteq {RoomOf(s)}
    BY <2>2, <2>3
  <2>5. MemberNames(RoomOf(s)) \cap Distinct =
          Known(PlaceOf(room_system), NameOf(room_system), s)
    BY <2>1, <2>3, MembersKnown
  <2> QED
    BY <2>1, <2>4, <2>5 DEF Listed
<1> QED
  BY <1>1, SystemInvariant, PTL

=============================================================================
