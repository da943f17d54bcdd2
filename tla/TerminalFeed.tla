---------------------------- MODULE TerminalFeed ----------------------------
(***************************************************************************)
(* What an interactive terminal promises its subscribers, whatever queues  *)
(* lie between: each is sent the bytes of the output in order, from the    *)
(* moment it joined and without a gap, and on leaving is told that the     *)
(* session ended only if it has all of it, and that it was too slow only   *)
(* if it has not.                                                          *)
(***************************************************************************)
EXTENDS Naturals

CONSTANT Subscribers

VARIABLES
    total,      \* bytes of output so far
    closed,     \* there will be no more
    presence,   \* "away", "joined" or "left", of each subscriber
    seen,       \* the bytes before this one it has, from the snapshot or sent
    farewell    \* what it was told

feed == <<total, closed, presence, seen, farewell>>

Init ==
    /\ total = 0
    /\ closed = FALSE
    /\ presence = [s \in Subscribers |-> "away"]
    /\ seen = [s \in Subscribers |-> 0]
    /\ farewell = [s \in Subscribers |-> "none"]

Output ==
    /\ ~closed
    /\ total' \in Nat /\ total' > total
    /\ UNCHANGED <<closed, presence, seen, farewell>>

End ==
    /\ ~closed
    /\ closed' = TRUE
    /\ UNCHANGED <<total, presence, seen, farewell>>

Join(s) ==
    /\ presence[s] = "away"
    /\ presence' = [presence EXCEPT ![s] = "joined"]
    /\ seen' = [seen EXCEPT ![s] = total]
    /\ UNCHANGED <<total, closed, farewell>>

Deliver(s) ==
    /\ presence[s] = "joined"
    /\ \E next \in seen[s] + 1 .. total : seen' = [seen EXCEPT ![s] = next]
    /\ UNCHANGED <<total, closed, presence, farewell>>

Leave(s, told) ==
    /\ presence[s] = "joined"
    /\ told = "ended" => closed /\ seen[s] = total
    /\ told = "backpressure" => seen[s] < total
    /\ presence' = [presence EXCEPT ![s] = "left"]
    /\ farewell' = [farewell EXCEPT ![s] = told]
    /\ UNCHANGED <<total, closed, seen>>

Next ==
    \/ Output \/ End
    \/ \E s \in Subscribers :
        \/ Join(s) \/ Deliver(s)
        \/ \E told \in {"none", "ended", "backpressure"} : Leave(s, told)

Spec == Init /\ [][Next]_feed
=============================================================================
