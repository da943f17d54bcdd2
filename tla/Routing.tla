------------------------------ MODULE Routing ------------------------------
(***************************************************************************)
(* Choosing the agent of an attempt.  A run executes on one thread with a  *)
(* Factory of its own, so that each run has its own table of agent loads;  *)
(* inside a run the slot of the worker is still held when the reviewer of  *)
(* the same attempt is chosen.  What the evaluation database, the policies *)
(* and the machine say about the agents is an input of every choice.       *)
(* Scores are the source's, in units of 1/200, with the part that comes    *)
(* from the history of an agent (quality, rework, speed) as one number.    *)
(***************************************************************************)
EXTENDS Integers, FiniteSets, SequencesExt, Sift

CONSTANTS RouteRuns, Pool, NameRank, Limit, ExplorationInterval,
          Facts,             \* what may be known of the agents at a choice
          MaxDispatches      \* bound on the attempts of a run

NoAgent == "no agent"              \* a name has no space in it
ASSUME RoutingConstants ==
  /\ Pool \in Seq(STRING \ {NoAgent}) /\ IsInjective(Pool) /\ Len(Pool) > 0
  /\ Limit \in [Range(Pool) -> Nat \ {0}]
  /\ NameRank \in [Range(Pool) -> Nat] /\ IsInjective(NameRank)
  /\ {ExplorationInterval, MaxDispatches} \subseteq Nat \ {0}

Agents == Range(Pool)
Unknown == -1                      \* no reliable performance slice
Modes == {"round_robin", "manual", "performance"}

(* The facts of one choice: who may run the operation, who is installed,   *)
(* the history of each, the role's preferred agent, a pinned one, and who  *)
(* was rejected on this task before.                                       *)
IsFact(f) ==
  f \in [mode : Modes, explore : BOOLEAN,
         permitted : SUBSET Agents, installed : SUBSET Agents, rejected : SUBSET Agents,
         merit : [Agents -> Nat \cup {Unknown}],
         preferred : Agents \cup {NoAgent}, pinned : Agents \cup {NoAgent}]

ASSUME FactsAreFacts == \A f \in Facts : IsFact(f)

NoFacts == [mode |-> "none"]

VARIABLES load,      \* in-flight invocations, per run and agent
          held,      \* the guards of a run, the latest last
          facts,     \* of the choice a run is about to make, or NoFacts
          attempts,  \* attempts of the run so far, the rotation index
          observed   \* attempts recorded for an agent in the database
RouteVars == <<load, held, facts, attempts, observed>>

RouteTypeOK ==
  /\ load \in [RouteRuns -> [Agents -> Nat]]
  /\ \A r \in RouteRuns : held[r] \in Seq([agent : Agents, reserved : BOOLEAN])
  /\ DOMAIN facts = RouteRuns /\ \A r \in RouteRuns : facts[r] = NoFacts \/ IsFact(facts[r])
  /\ attempts \in [RouteRuns -> 0 .. MaxDispatches]
  /\ observed \in [Agents -> Nat]

RouteInit ==
  /\ load = [r \in RouteRuns |-> [a \in Agents |-> 0]]
  /\ held = [r \in RouteRuns |-> <<>>]
  /\ facts = [r \in RouteRuns |-> NoFacts]
  /\ attempts = [r \in RouteRuns |-> 0]
  /\ observed = [a \in Agents |-> 0]

-----------------------------------------------------------------------------
Position(a) == CHOOSE i \in DOMAIN Pool : Pool[i] = a
AtIndex(sequence, i) == sequence[(i % Len(sequence)) + 1]

(* Capacity-aware round robin over the whole pool: the least loaded, and   *)
(* among equals by the rotation index.  If that one may not run the        *)
(* operation, the next of the pool that may.                               *)
LeastLoaded(l) ==
  Sift(Pool, {a \in Agents : \A b \in Agents : l[a] =< l[b]})
SelectWithCapacity(l, index) == AtIndex(LeastLoaded(l), index)
FromIndex(index) == [i \in DOMAIN Pool |-> AtIndex(Pool, index + i - 1)]
SelectForTask(l, index, permitted) ==
  LET first == SelectWithCapacity(l, index)
      rest == Sift(FromIndex(index), permitted) IN
  IF first \in permitted THEN first ELSE IF rest = <<>> THEN NoAgent ELSE Head(rest)

(* The score of a candidate with reliable history.                         *)
FreeSlots(l, a) == Limit[a] - (IF l[a] < Limit[a] THEN l[a] ELSE Limit[a])
Score(f, l, a) == 2 * f.merit[a] + (30 * FreeSlots(l, a)) \div Limit[a]
                  + (IF a = f.preferred THEN 4 ELSE 0) - (IF a \in f.rejected THEN 10 ELSE 0)
Reliable(f, a) == f.merit[a] # Unknown
Before(f, l, a, b) ==
  \/ Reliable(f, a) /\ ~Reliable(f, b)
  \/ /\ Reliable(f, a) <=> Reliable(f, b)
     /\ \/ Reliable(f, a) /\ Score(f, l, a) > Score(f, l, b)
        \/ /\ Reliable(f, a) => Score(f, l, a) = Score(f, l, b)
           /\ \/ a = f.preferred /\ b # f.preferred
              \/ (a = f.preferred <=> b = f.preferred) /\ Position(a) < Position(b)
Candidates(f) == Sift(Pool, f.permitted \cap f.installed)
Ranked(f, l) ==
  LET C == ToSet(Candidates(f)) IN
  CHOOSE s \in [1 .. Cardinality(C) -> C] :
    \A i, j \in DOMAIN s : i < j => Before(f, l, s[i], s[j])

(* Every Nth attempt goes to the candidate without history seen least.     *)
Unranked(f, l) == {a \in ToSet(Candidates(f)) : ~Reliable(f, a) /\ FreeSlots(l, a) > 0}
Explorer(f, l, index) ==
  IF /\ f.explore /\ index % ExplorationInterval = 0
     /\ \E a \in ToSet(Candidates(f)) : Reliable(f, a)
     /\ Unranked(f, l) # {}
  THEN CHOOSE a \in Unranked(f, l) :
         \A b \in Unranked(f, l) : \/ observed[a] < observed[b]
                                   \/ observed[a] = observed[b] /\ NameRank[a] =< NameRank[b]
  ELSE NoAgent

(* What a choice comes to: the agent, and whether its slot was reserved    *)
(* under the limit (try_acquire) or only counted (acquire).  NoAgent is an *)
(* error that ends the run's execution.                                    *)
Counted(a, f) == [agent |-> IF a \in f.installed THEN a ELSE NoAgent, reserved |-> FALSE]
Reserved(a) == [agent |-> a, reserved |-> TRUE]

RoundRobin(f, l, index) == Counted(SelectForTask(l, index, f.permitted), f)
Manual(f, l, index) ==
  IF f.preferred \in f.permitted \cap f.installed /\ l[f.preferred] < Limit[f.preferred]
  THEN Reserved(f.preferred) ELSE RoundRobin(f, l, index)
Performance(f, l, index) ==
  LET free == Sift(Ranked(f, l), {a \in Agents : Reliable(f, a) /\ FreeSlots(l, a) > 0}) IN
  CASE Candidates(f) = <<>> -> [agent |-> NoAgent, reserved |-> FALSE]
    [] Candidates(f) # <<>> /\ Explorer(f, l, index) # NoAgent -> Reserved(Explorer(f, l, index))
    [] Candidates(f) # <<>> /\ Explorer(f, l, index) = NoAgent /\ free # <<>> -> Reserved(Head(free))
    [] OTHER -> RoundRobin(f, l, index)
Pinned(f) == IF f.pinned \in f.permitted THEN Counted(f.pinned, f)
                                         ELSE [agent |-> NoAgent, reserved |-> FALSE]

Choice(f, l, index) ==
  CASE f.pinned # NoAgent -> Pinned(f)
    [] f.pinned = NoAgent /\ f.mode = "round_robin" -> RoundRobin(f, l, index)
    [] f.pinned = NoAgent /\ f.mode = "manual" -> Manual(f, l, index)
    [] OTHER -> Performance(f, l, index)

(* What the API says of a task beforehand. Its Factory is opened for the   *)
(* question and has no load; it asks nobody whether he is installed, takes *)
(* no rejection into account, and looks at history in performance mode     *)
(* only. The agent it names, if any, is not the pinned one, which the      *)
(* answer has beside it.                                                   *)
NoLoad == [a \in Agents |-> 0]
PreviewFacts(f) ==
  [f EXCEPT !.installed = @ \cup f.permitted, !.rejected = {},
            !.merit = IF f.mode = "performance" THEN @ ELSE [a \in Agents |-> Unknown]]
LikelyAgent(f, index) ==
  LET g == PreviewFacts(f)
      explorer == Explorer(g, NoLoad, index)
      reliable == Sift(Ranked(g, NoLoad), {a \in Agents : Reliable(g, a)}) IN
  IF explorer # NoAgent THEN explorer ELSE IF reliable = <<>> THEN NoAgent ELSE Head(reliable)

-----------------------------------------------------------------------------
(* The worker (or adviser, or special reviewer) of an attempt; then, with  *)
(* its guard still held, the built-in reviewer, who is never pinned.       *)
Consider(r) ==
  /\ facts[r] = NoFacts /\ Len(held[r]) < 2
  /\ held[r] = <<>> => attempts[r] < MaxDispatches
  /\ \E f \in Facts : /\ held[r] # <<>> => f.pinned = NoAgent
                      /\ facts' = [facts EXCEPT ![r] = f]
  /\ UNCHANGED <<load, held, attempts, observed>>

Chosen(r) == Choice(facts[r], load[r], attempts[r])

Route(r) ==
  /\ facts[r] # NoFacts
  /\ Chosen(r).agent # NoAgent
  /\ load' = [load EXCEPT ![r][Chosen(r).agent] = @ + 1]
  /\ held' = [held EXCEPT ![r] = Append(@, Chosen(r))]
  /\ IF held[r] = <<>>
     THEN /\ attempts' = [attempts EXCEPT ![r] = @ + 1]
          /\ observed' = [observed EXCEPT ![Chosen(r).agent] = @ + 1]
     ELSE UNCHANGED <<attempts, observed>>
  /\ facts' = [facts EXCEPT ![r] = NoFacts]

(* No agent: the error leaves the executor, every guard with it.           *)
NoRoute(r) ==
  /\ facts[r] # NoFacts /\ Chosen(r).agent = NoAgent
  /\ load' = [load EXCEPT ![r] = [a \in Agents |-> 0]]
  /\ held' = [held EXCEPT ![r] = <<>>]
  /\ facts' = [facts EXCEPT ![r] = NoFacts]
  /\ UNCHANGED <<attempts, observed>>

\* Mutant: a guard is dropped without giving its slot back.
Forget(r) ==
  /\ held[r] # <<>> /\ facts[r] = NoFacts
  /\ held' = [held EXCEPT ![r] = Front(@)]
  /\ UNCHANGED <<load, facts, attempts, observed>>
(* The guards of an attempt are dropped in the reverse order.              *)
Drop(r) ==
  /\ held[r] # <<>> /\ facts[r] = NoFacts
  /\ LET a == Last(held[r]).agent IN
       load' = [load EXCEPT ![r][a] = IF @ = 0 THEN 0 ELSE @ - 1]
  /\ held' = [held EXCEPT ![r] = Front(@)]
  /\ UNCHANGED <<facts, attempts, observed>>

RouteNext == \E r \in RouteRuns :
  Consider(r) \/ Route(r) \/ NoRoute(r) \/ Drop(r)
RouteSpec == RouteInit /\ [][RouteNext]_RouteVars

-----------------------------------------------------------------------------
Guards(r, a) == {i \in DOMAIN held[r] : held[r][i].agent = a}

(* The load of an agent is the number of guards that count it: a slot is   *)
(* neither lost nor given back twice.                                      *)
LoadIsGuards == \A r \in RouteRuns, a \in Agents : load[r][a] = Cardinality(Guards(r, a))

(* A reservation never takes an agent past its limit: whoever holds more   *)
(* slots of an agent than the limit holds one that was only counted.       *)
ReservedWithinLimit ==
  \A r \in RouteRuns : \A i \in DOMAIN held[r] :
    held[r][i].reserved =>
      Cardinality({j \in Guards(r, held[r][i].agent) : j =< i}) =< Limit[held[r][i].agent]

(* Whatever the mode, the agent chosen may run the operation and is        *)
(* installed; and when a ranked candidate is free, performance mode does   *)
(* not overload another one.                                               *)
ChoiceEligible ==
  \A r \in RouteRuns : facts[r] # NoFacts =>
    LET f == facts[r]
        a == Chosen(r).agent IN
      /\ a # NoAgent => a \in f.permitted \cap f.installed
      /\ /\ f.mode = "performance" /\ f.pinned = NoAgent
         /\ \E b \in f.permitted \cap f.installed : Reliable(f, b) /\ load[r][b] < Limit[b]
         => a # NoAgent /\ load[r][a] < Limit[a]

(* The ranking is a total order of the candidates that does not depend on  *)
(* how they were sorted, with every candidate once.                        *)
RankingTotal ==
  \A r \in RouteRuns : facts[r] # NoFacts =>
    LET f == facts[r]
        s == Ranked(f, load[r]) IN
      /\ ToSet(s) = f.permitted \cap f.installed /\ IsInjective(s)
      /\ \A i, j \in DOMAIN s : i < j => Before(f, load[r], s[i], s[j])
                                         /\ ~Before(f, load[r], s[j], s[i])

(* The preview names no agent that may not run the operation, and none     *)
(* but in performance mode; and where nothing that it leaves out tells     *)
(* otherwise, the agent it names is the one that is chosen.                *)
PreviewAgrees ==
  \A r \in RouteRuns : facts[r] # NoFacts =>
    LET f == facts[r]
        told == LikelyAgent(f, attempts[r]) IN
      told # NoAgent =>
        /\ told \in f.permitted /\ f.mode = "performance"
        /\ (held[r] = <<>> /\ f.pinned = NoAgent /\ f.rejected = {} /\ f.permitted \subseteq f.installed)
             => Chosen(r).agent = told

(* The load counts what is at work, and the choice heeds it.               *)
RoutingSound ==
  /\ RouteTypeOK /\ LoadIsGuards /\ ReservedWithinLimit
  /\ ChoiceEligible /\ RankingTotal /\ PreviewAgrees
=============================================================================
