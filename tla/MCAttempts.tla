----------------------------- MODULE MCAttempts -----------------------------
(***************************************************************************)
(* Attempts on plans of three tasks for TLC.                               *)
(***************************************************************************)
EXTENDS Attempts

Line(ops) == [deps |-> [t \in Tasks |-> {t - 1} \ {0}], op |-> ops]
Stairs(ops) == [deps |-> [t \in Tasks |-> 1 .. (t - 1)], op |-> ops]
Fork(ops) == [deps |-> [t \in Tasks |-> {1} \ {t}], op |-> ops]
\* A line, an implementation that was advised on, reviews one after the other
\* and reviews side by side.
SomePlans == {Line(<<"implement", "verify", "review">>), Line(<<"advisory", "implement", "review">>),
              Stairs(<<"implement", "review", "review">>), Fork(<<"implement", "review", "review">>)}
=============================================================================
