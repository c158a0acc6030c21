---------------------------- MODULE ChatService ----------------------------
(***************************************************************************)
(* What the chat server promises about presence, without its tables: each  *)
(* visitor is away or present; a present visitor may hold a name no other  *)
(* present visitor holds; a visitor with a name is in at most one room and *)
(* changes rooms in one step.                                              *)
(***************************************************************************)
CONSTANTS Visitors, Rooms, NameSet,
          Nameless,   \* the visitor has not chosen a name
          Outside,    \* present, but in no room
          Away        \* not present at all

VARIABLES
    place,   \* place[v]: a room, Outside or Away
    name     \* name[v]: a name or Nameless

presence == <<place, name>>

Init ==
    /\ place = [v \in Visitors |-> Away]
    /\ name = [v \in Visitors |-> Nameless]

Arrive(v) ==
    /\ place[v] = Away
    /\ place' = [place EXCEPT ![v] = Outside]
    /\ UNCHANGED name

\* A visitor may take a name, also a second one while in a room.
TakeName(v, n) ==
    /\ place[v] # Away
    /\ \A u \in Visitors \ {v} : name[u] # n
    /\ name' = [name EXCEPT ![v] = n]
    /\ UNCHANGED place

Enter(v, r) ==
    /\ place[v] \notin {Away, r}
    /\ name[v] # Nameless
    /\ place' = [place EXCEPT ![v] = r]
    /\ UNCHANGED name

Leave(v) ==
    /\ place[v] \in Rooms
    /\ place' = [place EXCEPT ![v] = Outside]
    /\ UNCHANGED name

\* A visitor that goes away gives its name back in the same step.
Depart(v) ==
    /\ place[v] # Away
    /\ place' = [place EXCEPT ![v] = Away]
    /\ name' = [name EXCEPT ![v] = Nameless]

Next ==
    \E v \in Visitors :
        \/ Arrive(v)
        \/ \E n \in NameSet : TakeName(v, n)
        \/ \E r \in Rooms : Enter(v, r)
        \/ Leave(v)
        \/ Depart(v)

Spec == Init /\ [][Next]_presence

=============================================================================
