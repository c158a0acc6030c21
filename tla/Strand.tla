------------------------------- MODULE Strand -------------------------------
(***************************************************************************)
(* A strand, or the one thread of an io_context, as a sequence of what is  *)
(* ready to run, oldest first; every entry has a field op.                 *)
(***************************************************************************)
EXTENDS Integers, FiniteSets, SequencesExt

\* Positions of the entries of kind op.
At(s, op) == {i \in DOMAIN s : s[i].op = op}

\* The number of entries of kind op.
Count(s, op) == Cardinality(At(s, op))

\* f, a function on positions, takes the values from + 1, ..., to, each once
\* and in the order of the positions.
Ascending(f, from, to) ==
    /\ {f[i] : i \in DOMAIN f} = (from + 1) .. to
    /\ \A i, j \in DOMAIN f : i < j => f[i] < f[j]

-----------------------------------------------------------------------------
(* Frames, as the transport numbers them: 1, 2, ... are data, in the order *)
(* in which they are posted.                                               *)

keepalive == 0

\* Frames carried by the tasks of kind op, by position on the strand.
Frames(s, op) == [i \in At(s, op) |-> s[i].frame]

\* Data frames of a write queue, from position first on.
DataFrames(queue, first) ==
    [i \in {j \in DOMAIN queue : j >= first /\ queue[j] # keepalive} |-> queue[i]]

\* The handler of a write that has succeeded; until it runs, what was written
\* is still the front of the queue.
Ack == [op |-> "written", result |-> "ok"]
Acknowledged(s) == Contains(s, Ack)

\* Data frames of a write queue that are not yet written.
Waiting(s, queue) == DataFrames(queue, IF Acknowledged(s) THEN 2 ELSE 1)

\* Of the frames 1, ..., posted just those up to written have been written:
\* the ones that follow wait in the queue, in order, and the rest is carried,
\* in order, by tasks of kind op.
InTransit(s, op, queue, written, posted) ==
    \E k \in written .. posted : /\ Ascending(Waiting(s, queue), written, k)
                                 /\ Ascending(Frames(s, op), k, posted)

=============================================================================
