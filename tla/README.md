# ProjectNight in TLA+

ProjectNight is a small chat system in C++: a server (`src/NightServer`), a
desktop client (`src/NightClient`), a TCP transport used by both
(`src/NightNetwork`) and a FlatBuffers schema (`src/schema`). This directory
models the server, from its sockets to its chat rooms, and the client, from its
sockets to its window, checks them with TLC on small instances, alone and
against each other, and proves with TLAPS, for every instance, the handlers and
the main loop of the server, the transport on both sides, the framing of the
byte stream, the timing of the heartbeats, and that what the users' windows show
agrees with what the server has in its tables.

## The system

| part | state | operations | talks to |
|---|---|---|---|
| `RoomSystem` | `sessions_`, `rooms_` | add, remove, move, log in, look up | called by the handlers |
| `GameLogicSystem` | `outgoing_messages_`, `pending_disconnects_` | one handler per event, `Take...` | `RoomSystem`; main loop |
| `NetworkSystem`, `main` | the events of a tick | `Receive`, `Update`, `Flush`, every 33 ms | polls, sends and disconnects on `Server` |
| `Server` | `sessions`, `packet_queue` (8192), `shutting_down`, `next_id` | accept loop, `poll_packet`, `send`, `broadcast`, `disconnect`, `shutdown` | game thread; I/O threads; `Session` callbacks |
| `Session` | `write_queue_` (1024), `writing_`, `closed_`, `heartbeat_timer_` | read chain, write chain, heartbeat, `close` | socket; calls `on_receive_`, `on_close_` |
| `TransportDetail`, `Protocol` | none | header encoding and decoding, `enqueue_frame` | `Session`, `Client` |
| `BufferPool` | a cache of buffers per thread | `acquire`, `release` | all of the transport |
| `Client` | `receive_queue` (4096), `write_queue`, `connected` | `poll_packet`, `send`, `shutdown`, heartbeat | I/O thread; `ChatProtocolClient` |
| `ChatProtocolClient` | `client_`, `next_request_id_` | one function per request, `PollEvents` | `Client`, `ChatClientFrame` |
| `ChatClientFrame` | rooms, user list, current room, connection state | buttons, poll timer | `ChatProtocolClient` |

What is hard about it:

* The game thread and the I/O threads share the `Server`. What the game thread
  or a session's callback posts to `server_strand` runs later, when a session it
  names may have closed, or not yet be in the table.
* A handler that was queued before the session closed still runs after it.
* The packet queue is bounded and its users ignore that a push may fail.
* "Who is in which room" is recorded twice, and the clients learn of it only
  through a stream of messages, each sent at the right moment or never.
* The window learns of a lost connection only by asking, and asks only while
  it is connected. What it shows is a copy kept by events, over several
  sessions if it reconnects.
* Two heartbeats judge each other by elapsed time, each with its own start.
* The process ends by draining queues that other threads may still be filling.

PROJECT.json lists these hazards, one by one, at their lines.

## Modules

`RoomSystem` — the two tables, each operation an operator from tables to
tables. No variables.

`GameLogicSystem` — extends it with the variables `room_system`,
`outgoing_messages` and `pending_disconnects`, and has one action per handler.
`Handle` is `Update`'s dispatch. `outgoing_messages` is a stream per recipient:
the vector's order between different recipients depends on the iteration order
of an `unordered_set`, and no session can observe it. The order in which a
newcomer is told about the members does depend on it and is chosen by `\E`.
Names and texts are model values of three classes (empty, admissible, too
long), which are all the handlers tell apart. A name that holds a NUL byte,
which `c_str()` would cut short in messages, is not represented.

`ChatService` — the abstract specification: visitors arrive, take a free name,
enter one room at a time, leave and depart. `GameLogicSystem` implements it
under the mapping `PlaceOf`, `NameOf`.

`ChatRoster` — the handlers together with their readers: a tick handles a batch
of events and then flushes, and every session reads its stream into a roster.
`Observe` is what the message types mean (a successful join or leave starts
afresh, joined adds, left removes) and `Views` the rosters along a stream, as a
recursive function of its prefixes; what the client's window makes of the same
stream is the subject of `ChatSystem`.

`NightServer` — the main loop, with decoding, between a bounded `packet_queue`
and connections that obey the transport's contract: `Connect` first, `Data`
while open, `Disconnect` once, and possibly one `Data` after it. `Session` and
`Server` show that the transport keeps this contract (`ClosesOnce`,
`ConnectFirst`, `ClosedIsReported`). A packet becomes one event or none: a
message may name a request as its payload and carry no table for it, which
passes the FlatBuffers verifier, and `DecodeProtocolPacket` then passes it over
(`if (!request) break;`). Such a request is never answered, and
`RequestsAnswered` is about those that carry their table (`Answerable`).
`answered` records, for each session, the request ids of all messages flushed to
it, 0 for those that answer no request.

`Strand` — a FIFO of ready handlers, with what the three modules below say of
one: how many handlers of a kind are queued, and that numbered frames are in
order on their way from a post through a write queue to the socket
(`InTransit`). No variables.

`Session` — one connection. The strand is a FIFO of ready handlers; asynchronous
operations are counters of what is outstanding, so that two reads at a time are
expressible. `start()` is one step: it runs on the server strand, and the
session's strand is made over the executor of the accepted socket, which is that
same server strand (`Server.cpp` line 43, `Session.cpp` line 17), so no handler
of the session runs inside it. The clock is a pair of counters, ticks since the
last activity and ticks until the timer expires, and ticks arbitrarily fast.

`Server` — the accept handler in steps (test, push, enter, start, loop),
the posted tasks, the session callbacks in steps (`push_packet` tests
`shutting_down` first and pushes later), the owner's calls and the
destruction. A `Session` is reduced to what module `Session` shows. Its callbacks
may overlap with the tasks of `server_strand` here. In the code they cannot, by
the nesting of strands just described, which nothing in `Server.cpp` mentions or
needs: the module allows more than the code does, and what holds of it does not
depend on which executor a socket is given.

`Client` — the client's end: the I/O thread with its FIFO of handlers, and the
owner that polls, sends and destroys. The handler of a body read takes three
steps (test, test again, push), so that the owner's shutdown can fall between
them. It differs from `Session` in what it tests: every handler looks at
`shutting_down`, and there is one thread and no strand.

`ChatClient` — the window and its protocol client, with one action per handler
and a server that may send anything. `OnPollTimer` reads `connected` twice, with
the draining of the queue in between, and is three actions (`PollTest`,
`PollEvents`, `PollEnd`), so that the I/O thread can push packets and lose the
connection at each point, and push the packet of a read that had completed
before the loss. `DecodePacket` and `ProcessProtocolEvent` are
operators; `Shown` has the window after each of the packets of a poll. The user
list is a set of names; `Fold` says which names `wxListBox::FindString` takes for
the same.

`ChatSystem` — windows against the real handlers: instances of `ChatClient` and
`GameLogicSystem` joined by two streams per connection. Either end may notice a
loss first; a window that reconnects has a new session, while the server may
keep the old one and go on handling what it had sent (`EventOf` is the event the
server decodes from a request). A poll is one step here.

`Wire` — the frame header byte by byte, `write_header` and `decode_header`, and
the two reads that cut a stream of bytes into payloads. `async_write` puts a
frame on the wire. A peer is either honest (it uses `write_header`) or sends
headers of its own making.

`Heartbeat` — both ends' timers against one clock. Time passes in ticks; a tick
cannot overtake an overdue handler or frame, so `MaxConnect`, `MaxAccept`,
`MaxLag` and `MaxDelay` say how late things may be, and nothing else is assumed
about when they happen.

`MC*` — constants for TLC. `*Proofs` — the theorems.

Operators marked "Mutant of" are deliberate bugs: each replaces the definition
it names to show that a property would notice. No specification uses them.

## What the runs show

| run | bounds | shows |
|---|---|---|
| `chat_roster` | 3 sessions, 2 rooms, 3 names, 2 events per tick | the tables are coherent, every session can reconstruct its room, chat reaches exactly the room, `ChatService` is implemented |
| `night_server` | 2 connections, 2 requests of 5 kinds and 1 login, queue of 2 | requests are answered in order, a forgotten session stays forgotten, sessions linger only after an overflow, what ends on one side ends on the other |
| `session` | 2 data frames, queue of 2, timeout of 3 intervals, 1 call of `close` | the read and write chains neither fork nor die, frames are in order, `on_close_` is called once, silence ends a session, a closed session is released |
| `server` | 2 sessions, queue of 2, 1 call | accept loop, packet order, session table, every end is reported |
| `server_live` | 1 session, queue of 1, 2 calls | calls keep their order and reach the session, `disconnect()` takes effect, shutdown terminates |
| `client` | 2 packets, receive queue of 1, 2 sends, write queue of 2, timeout of 2 intervals | the read chain neither forks nor stops, every missing packet is counted, no frame is lost, doubled or overtaken, a silent server is noticed, `~Client` terminates |
| `chat_client` | 1 window, 1 room, 3 names of which 2 differ in case, queue of 2, 3 request ids | the button and the client agree, packets are shown while the connection lasts |
| `chat_system` | 2 windows, 2 sessions, 2 rooms, 2 names, 4 clicks | a window that has caught up shows its session's room and all its members, also after a reconnection; in its first room nobody else; every event is shown in its own room |
| `wire` | 3 frames, maximum payload 8, 6 payloads, 96 foreign headers | payloads are recovered whole and in order, no body is empty or too large |
| `heartbeat` | interval 3, timeout 9, connect 1, accept 1, lag 1, delay 2 | no living peer is cut off, every dead one is |
| `chat_client_loss` | as `chat_client` | a violation, see below |
| `server_overflow` | 1 session, queue of 2, 1 call | a violation, see below |

Why the bounds suffice. Three sessions and two rooms let one session move
between rooms that both hold another, and three names let every session hold one
and one change it. Two events in a batch are the least for one handler to run on
another's effect before anything is flushed. A queue of two overflows with two
connections, both between `Connect` and `Disconnect` of one and between those of
different ones. A write queue of two has a frame in flight and one behind it,
and two frames with a keepalive overflow it. A timeout of three intervals is the
code's own ratio (15 s to 5 s); two, in `client`, still leave a keepalive
between the last activity and the timeout. In `chat_roster` and `chat_system`
ids and names are only compared, so permuting them is sound. In `night_server`
one session sends what changes the server's state, what it refuses, what it
cannot decode and a login without its table, and the other competes with it for
the queue and the name; the remaining kinds of requests go through the same
steps and their handlers are all in `chat_roster`. The two frames sent in
`client` wait behind each other, before, behind and between keepalives. Two
packets overflow a receive queue of one, or follow one another if the first has
been polled. Four clicks let both windows join and one of them move and chat;
one window that takes both sessions reconnects and meets its own ghost.
`chat_system` compares states by a `VIEW` of what can still have an effect: it
leaves out messages to a session whose window has gone, requests of a session
that is closed, and variables of `ChatClient` that `ChatSystem` does not use.
`wire` has payloads that are themselves headers and foreign headers at and
beside every limit of `decode_header`. `heartbeat` is at the edge: with one tick
more of any of its four delays TLC finds `NoFalseTimeout` violated. Deadlock is
not checked where a session, a server, a client or a window that has been
destroyed stops, or where the clicks, sessions or frames are used up. The other
runs check it.

Fairness. `night_server` assumes that the main loop goes on and that tasks
posted to the server strand run; nothing of the clients. `session` assumes that
ready handlers run, that the clock goes on, that timers expire and that
operations on a closed socket end, which asio guarantees; operations on an open
socket may hang for ever. `client` assumes the same of the client's I/O thread,
and nothing of the server it talks to. `server_live` assumes that the I/O
threads run posted tasks and finish callbacks, and that a thread that has begun
to destroy the server carries on. `Server` has no queue for a session's strand,
so a posted `close()` needs strong fairness there: in the FIFO it cannot be
overtaken for ever, but in this model data callbacks could do so.

`chat_client` and `chat_client_loss` assume that the poll timer, which fires every
33 ms on the window's thread, is handled again and again; nothing of the user,
the server or the network. The bounds of `heartbeat` are not fairness but
safety: how late a handler or a frame may be is stated in ticks.

The findings. First, `NightNetwork/README.md` line 445 promises that
`disconnect()` is followed by a `Disconnect` event from `poll_packet()`. The
close callback (`Server.cpp` line 165) ignores that `push_packet` fails when the
queue is full, so the event can be dropped. The chat server then keeps a ghost:
its name stays taken and its room counts it until the process ends.
`GhostsOnlyAfterOverflow` shows that this is the only way to get one.

Second, line 442 of the same file, and `Client.h`, ask the owner of a `Client` to
poll until `poll_packet()` returns `nullopt`. `OnPollTimer` (`ChatClientFrame.cpp`
line 394) returns at once when the client is not connected. When the I/O thread
notices the loss between two polls, which is nearly always, what it had received
is never shown, the window never says that the connection is closed and the
connect button stays disabled. Only a loss noticed during a poll is handled.

The condition under which `NoFalseTimeout` holds deserves a remark. A `Client`
takes `last_activity` in the constructor of its `Impl` (`Client.cpp` line 56),
before the blocking `connect()`, so the time spent resolving and connecting
counts as silence: `MaxConnect` is a summand of `Timely` (below). If connecting
took ten seconds or more, the first heartbeat, five seconds later, closes a
living connection unless the server's first frame has already arrived.

## What is proved

`GameLogicProofs` first shows that each operation of the tables preserves
`Coherent`, the conjunction of the tables' types, of `MembershipAgrees`,
`NamesDiffer` and `MembersAreNamed`, and then lifts this to the handlers: `IInv`
is `Coherent` and the types of the two queues; there is one lemma per handler.

* `TypeCorrect`: `Spec => []TypeOK`
* `MembershipTheorem`: `Spec => []RoomIndexConsistent`
* `UniqueNamesTheorem`: `Spec => []LoggedInNamesUnique`
* `NamedMembersTheorem`: `Spec => []OnlyNamedMembers`
* `Implementation`: `Spec => ServesPresence`, the refinement
* `ChatTheorem`: `Spec => ChatReachesExactlyTheRoom`, an action property. Every
  handler but one queues plain payloads only (`HandlePlain`), and the members
  that one asks for are the sessions in the room, which is `MembershipAgrees`

Why the parts must be proved together: removing a session from a room preserves
`MembershipAgrees` only if no other room lists it, which is `MembershipAgrees`
itself before the step; the move relies on the removal before it; and
`MembersAreNamed` is preserved by a login only because the login handler
refuses improper names, and by a join only because it tests `logged_in`.
`MoveSessionToRoom` alone preserves none of this.

Assumptions: `SessionIds` is finite, rooms are non-zero naturals, and the empty
and the too long name and text are not among the admissible ones. No bound on
sessions, rooms, names or batches. The specification feeds the handlers any
event at any time, so the theorems hold for whatever the transport delivers,
lost, late or doubled.

`NightServerProofs` is about the main loop, the queue before it and any number
of connections. `Connections` has three parts beside the types: of a connection
that has not been let in the server knows nothing (`NotYetKnown`), `Connect`
precedes all else of its connection in the queue and in the tick's events
(`ConnectFirst`), and a connection that has ended has its `Disconnect` on the
way if its session exists or is still to be added (`EndsReported`). The last of
these is `GhostsOnlyAfterOverflow` with the second alternative added: without
it a `Connect` handled after the end would make a ghost out of nothing.

* `ConnectionsTheorem`: `ServerSpec => []Connections`
* `GhostsTheorem`: `ServerSpec => []GhostsOnlyAfterOverflow`
* `NoResurrectionTheorem`: `ServerSpec => NoResurrection`, an action property: a
  `Connect` that could bring a session back would have to follow something else
  of its connection, which `ConnectFirst` excludes
* `ResponsesTheorem`: `ServerSpec => []ResponsesInOrder`

The last one rests on `AllIdsRise`: for each session the ids already flushed,
those in `outgoing_messages`, those of the tick's events and those in the packet
queue rise within each stage and from one to the next. `ResponsesInOrder` alone is
about the first stage and says nothing of what a flush will append. The lemma
`HandleReplies` carries it through the handlers: whichever handler runs, it
appends at most one message with a request id, to the sender, with the id of
the request. Assumptions: a queue of at least one place, and requests whose
names, rooms and texts are of the classes the handlers are modelled for.

`StrandProofs` has lemmas and no theorem of its own: what appending to and
taking from a strand do to `Count`, to `Ascending` and to `InTransit`. The three
that follow rest on it. Each has an inductive conjunction whose parts lean on
one another, and proves it action by action.

`SessionProofs`. `Chains` has the read chain, the write chain and the end of the
session together: the handlers test `closed_` and not which chain they belong
to, so none of the three is inductive without the others; `LateIsLast` says
why a second late packet is impossible (what remains of the read chain can
only fail).

* `OneReadAtATime`, `WriteBufferIsStable`, `SessionClosesOnce`: `Spec` implies always
  `OneReadChain`, `WriteBufferStable`, `ClosesOnce`
* `FramesStayInOrder`: `Spec => []FramesInOrder`, by `Chains`: a write that
  succeeded is counted once because there is one write at a time
* `HeartbeatStaysArmed`: `Spec => []OneHeartbeat`: once started and while open, a
  session has exactly one heartbeat pending, and never two, although `start()` and
  the timer's handler both arm it

`ServerProofs`. `Base` is about the accept loop and the destructor, `First` about
announcements, `Table` about the table, `Sends` about the owner's calls; each
uses the ones before it.

* `AcceptLoopStaysAlive`: `Spec => []AcceptLoopAlive`
* `ConnectIsFirst`: `Spec => []ConnectFirst`, by `Announced`: a session is started
  only after its `Connect` was pushed, and nobody else is announced
* `TableStaysExact`: `Spec => []TableIsExact`, by `Leaving`: an erase is posted
  for closed sessions only
* `EveryCloseIsReported`: `Spec => []ClosedIsReported`
* `SendsAlwaysReachSession`: `Spec => []SendsReachSession`. `SendsKept` extends it
  to sessions announced and not yet started, whose tasks wait on the strand
  behind the accept handler; `CallOrder` puts the posted calls in order after
  the frames handed over

`ClientProofs`. `Chains` as for `Session`, with the body handler's steps as links
of the read chain.

* `OneReadAtATime`: `Spec => []OneRead`
* `PacketsStayInOrder`: `Spec => []PacketsInOrder`, with `SeenBefore` (the packet in
  hand is younger than all the owner has or will see) and `Destroying`
* `SendsStayInOrder`: `Spec => []SendsInOrder`, with `NextFrame`: a write under way
  when the destructor begins, of which `SendsInOrder` then says nothing, still
  writes the next frame

Assumptions of the three: capacities, intervals and bounds are naturals, none
of the capacities and not the interval is 0, and the interval is below the
timeout. The bounds on sessions, frames, packets and calls are arbitrary.

`ChatProofs` is about what the server's messages tell, first whoever reads them
by their meaning (`ChatRoster`), then the windows (`ChatSystem`). Both rest on one
lemma, `HandleEffect`: every event has one of four effects on where the sessions
are and what they are called, each with the messages that go with it, recipient
by recipient (`Effect`): nobody moves and nobody is told of a move (`Stays`), a
session appears (`Arrives`), gets its name (`LogsIn`), or goes from one place to
another (`GoesTo`): those it leaves hear that it left, those it comes to that it
joined, and it is told of each of them, in some order. There is one lemma per
handler below it, and everything after it needs no handler again.

* `RosterTheorem`: `RosterSpec => []RosterAccurate`. `RosterAccurate` is about what has
  been flushed. The inductive `RInv` speaks of every state in between: a
  session's roster, once it has read what is still queued for it, is the room
  it is in and those who share it; `RosterEffect` carries that through the four
  effects.

For the windows the inductive invariant is `SInv`. It has five parts. `IInv` is the
server's. `Links` ties sessions to connections: a session is in the tables
exactly while its connection is open, and is the current one of at most one
window. `Asked` is about the requests under way, also those of connections that
were given up: a login comes first in its queue and only for a session without a
name. Without that a session could change its name while it is in a room, and
no message tells the others. `Travels` relates the rooms a session has been in
to the one it is in. `Shows` is what the theorems are about, for the window as it
will be after the packets under way (`Tracked`): each event is about the room
shown when it comes up, the room shown last is the session's, the list covers
its members, and is exact while the window has had one connection and one room.
The list must be exact already before the first room is entered and the room
shown at each packet, not only at the end, for a step to preserve it.

* `RoomAgreesTheorem`, `EventsMatchRoomTheorem`, `UserListCoversTheorem` and
  `FirstRoomExactTheorem`: `SystemSpec` implies always `RoomAgrees`,
  `EventsMatchRoom`, `UserListCovers`, `FirstRoomExact`

Assumptions: those of `GameLogicProofs`, and that the request ids one connection
can use up are request ids. Any number of windows, sessions, rooms, names and
clicks, and any `Fold`: nothing is assumed of how `FindString` compares names, as
the invariant speaks only of names it cannot mistake (`Distinct`).

What a reader makes of a stream is a recursive function of the stream's
prefixes. That this function exists, what it does on a concatenation and what
it preserves is proved by induction on the set of the lengths for which it
holds (`SetInduction`, from the well-foundedness of `<`), which needs no operator
as a parameter.

`ConnectionProofs` has three parts. The first is about frames. `SizeBytes` and
`BytesSize` show that the four size bytes and the 32-bit number determine each
other; `DecodeBytes` follows the tests of `decode_header` one by one.

* `RoundTrip`: for every flags byte and every 32-bit size, `decode_header` reads
  back what `write_header` wrote, and accepts it exactly if it is `Legal`
* `DecodeExact`: any eight bytes it accepts are those `write_header` writes
* `BodyBoundedTheorem`: `WireSpec => []BodyBounded`, by the inductive `ReaderInv`, which
  adds that the stream consists of bytes
* `FramesRecoveredTheorem`: `WireSpec => []FramesRecovered`. The inductive `FramedInv`
  says what the bytes under way from an honest sender are: the body that is
  being read, if one is, and whole frames after it, with marks where each ends
  and how many payloads it completes (`Layout`). A reader that took a header
  elsewhere than at a mark could read a payload as a header.

It assumes that payloads and foreign headers consist of bytes and that
`MAX_PAYLOAD_SIZE` fits into the header's 32 bits.

The second is about time. `Basic` holds for all constants with
`MaxConnect < HEARTBEAT_TIMEOUT`: an open end's timer is not overdue, its last
check passed (`age < HEARTBEAT_TIMEOUT + since`), and nothing has arrived since the
cut. `Fresh` needs `Timely`, that connecting, accepting, one period, a late
handler and the slowest frame fit into the timeout: an end has heard from its
peer since the peer last armed its timer, or the frame that says so is under
way (`Heard`). Neither half of `Heard` is inductive without the other.

* `DeadPeerTheorem`: `Spec => []DeadPeerNoticed`
* `NoFalseTimeoutTheorem`: under `Timely`, `Spec => []NoFalseTimeout`

The third is about the window, against a server that may send anything.

* `ConnectIffNoClientTheorem`: `WindowSpec => []ConnectIffNoClient`. `WInv` adds what
  the members of a window and its queue are; that no packet touches the client
  or the controls, however many a poll shows, is again an induction on their
  number (`PollKeepsClient`).

Only model-checked: the liveness properties, since fairness and `ENABLED` are
out of the prover's reach (`RequestsAnswered`, `EndsOnBothSides`,
`SilenceEndsTheSession`, `ClosedIsReleased`, `ShutdownTerminates`,
`DisconnectTakesEffect`, `LossIsNoticed`, `ShutdownReturns`,
`PolledWhileConnected`). Every invariant and every action property of a passing
run is the subject of a theorem.

## What is not modelled, and the plan

Done: the modules above, in this order, since the chat rooms are what the server
is for and the transport is what can go wrong underneath.

Every invariant the runs check is proved. What would be next is that the
connections `NightServer` assumes are what `Server` provides, as a refinement;
now each clause of that contract is a theorem of its own (`ClosesOnce`,
`ConnectFirst`, `ClosedIsReported`).

Left out for good: the generated FlatBuffers code (accessors that compute
nothing), window layout, labels and the chat log (written, never read), log
output, timestamps, `listen()` (system calls made before any thread exists),
tests and scripts. `BufferPool` keeps spare buffers in a list per thread
(`thread_local`), so no two threads share one; it decides where memory comes
from and never what is sent. Not modelled: the wrap of `next_id` after 2^32
connections, and a tick whose `Receive` never ends because packets arrive faster
than they are polled.
