---------------------------- MODULE MCChatSystem ----------------------------
EXTENDS ChatSystem

\* No two of the names differ only in case.
MCFold == [n \in Names |-> n]

Symmetry == Permutations(SessionIds) \cup Permutations(Windows)
            \cup Permutations(Names)

\* States are told apart by what can still have an effect: not by messages
\* to a session whose window has gone, nor by requests of a closed session.
View ==
    LET Heard(s) == \E w \in Windows : IsCurrent(w, s) /\ Window!IsConnected(w)
        Open(s)  == phase[s] = "open"
    IN  <<room_system, frame, connected, history, phase, entered, clicks,
          [s \in SessionIds |-> IF Heard(s) THEN outgoing_messages[s] ELSE <<>>],
          [s \in SessionIds |-> IF Open(s) THEN backlog[s] ELSE <<>>],
          [w \in Windows |-> IF \E s \in SessionIds : IsCurrent(w, s) /\ Open(s)
                             THEN requests[w] ELSE <<>>]>>

=============================================================================
