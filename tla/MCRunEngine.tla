---------------------------- MODULE MCRunEngine ----------------------------
EXTENDS RunEngine

\* Dependencies and operations of three tasks as tuples, the i-th for task i.
Deps(d1, d2, d3) == <<d1, d2, d3>>

\* Implementation, verification of it, review of both.
Chain == [deps |-> Deps({}, {1}, {2}), op |-> <<"implement", "verify", "review">>]

\* An analysis before the implementation that a review evaluates.
Advised == [deps |-> Deps({}, {1}, {2}), op |-> <<"advisory", "implement", "review">>]

\* A review beside an analysis that also depends on the implementation.
Fork == [deps |-> Deps({}, {1}, {1}), op |-> <<"implement", "advisory", "review">>]

OnlyChain == {Chain}
OnlyAdvised == {Advised}
ChainAndFork == {Chain, Fork}
=============================================================================
