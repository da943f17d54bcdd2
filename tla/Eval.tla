-------------------------------- MODULE Eval --------------------------------
(***************************************************************************)
(* How agents are measured.  The history of the attempts grows; a report   *)
(* reduces it to one record per task and aggregates the records of a       *)
(* slice; the router looks an agent up, from the most specific slice to    *)
(* the whole history, and takes the first that has enough samples.  Every  *)
(* level of a lookup loads the history anew, while attempts begin and end; *)
(* the two SELECTs of one load are a single step.                          *)
(*                                                                         *)
(* Of an error's text only the class that its prefix tells is kept; the    *)
(* role, the operation and the touched languages of a task are constants.  *)
(***************************************************************************)
EXTENDS Integers, FiniteSets, Sequences, SequencesExt, FiniteSetsExt, Functions, Sift

CONSTANTS MeasuredTasks, MeasuredAgents,
          About,            \* [MeasuredTasks -> [role, operation, languages]]
          Endings,          \* how an attempt may end: [status, cause, sessions]
          HowLanded,        \* which ways to land are explored
          Questions,        \* of the router: [agent, task, language]
          MinReliable, Week, Month,
          MaxPast, MaxDay   \* bounds of the exploration

VARIABLES past,      \* the attempts of each task
          landings,  \* the recorded integrations of each task
          day,
          lookup     \* of the router: what it asks, where it is, what it has read
EvalVars == <<past, landings, day, lookup>>

NoTimer == -1
Missing == -1
Anything == "any"
AtRest == [pc |-> "rest", agent |-> Anything, levels |-> <<>>, at |-> 1, samples |-> Missing, quiet |-> TRUE]

FailureCauses == {"agent_failed", "policy_blocked", "configuration_error"}
EndedStatuses == {"approved", "changes_requested", "failed", "cancelled", "interrupted"}
Timed == [operation : STRING, ms : Nat \cup {NoTimer}]
ASSUME EvalConstants ==
  /\ IsFiniteSet(MeasuredTasks) /\ IsFiniteSet(MeasuredAgents) /\ Anything \notin MeasuredAgents
  /\ DOMAIN About = MeasuredTasks
  /\ \A q \in Questions : q.agent \in MeasuredAgents /\ q.task \in MeasuredTasks
  /\ \A e \in Endings :
       /\ e.status \in EndedStatuses /\ e.sessions \in Seq(Timed)
       /\ e.cause \in IF e.status = "failed" THEN FailureCauses ELSE {"none"}
  /\ HowLanded \subseteq {"clean", "rebased", "conflict"}
  /\ MinReliable \in Nat /\ Week \in Nat /\ Month \in Nat /\ Week =< Month
  /\ MaxPast \in Nat /\ MaxDay \in Nat

IsOpen(x) == x.status \in {"running", "reviewing"}

(* The sum of what a function, or a sequence, says; its entries in some    *)
(* order; a finite set in the order of a rank, equals in whatever order.   *)
Total(f) ==
  LET upto[S \in SUBSET DOMAIN f] ==
        IF S = {} THEN 0 ELSE LET one == CHOOSE m \in S : TRUE IN upto[S \ {one}] + f[one]
  IN upto[DOMAIN f]
Entries(f) == [i \in 1 .. Cardinality(DOMAIN f) |-> f[SetToSeq(DOMAIN f)[i]]]
Ordered(S, rank) ==
  CHOOSE order \in SetToSeqs(S) :
    \A i, j \in DOMAIN order : i < j => rank[order[i]] =< rank[order[j]]

-----------------------------------------------------------------------------
(* One evaluator of outcomes.                                              *)
ClassifyAttempt(x) ==
  CASE x.status = "failed" -> x.cause
    [] IsOpen(x) -> "in_progress"
    [] OTHER -> x.status
\* Mutant: a failure of the agent is no sample of its quality.
FailuresExcluded(outcome) == outcome \in {"approved", "changes_requested"}
IsAgentQuality(outcome) == outcome \in {"approved", "changes_requested", "agent_failed"}
Outcomes9 == {"approved", "changes_requested", "agent_failed", "integration_conflict", "cancelled",
              "interrupted", "policy_blocked", "configuration_error", "in_progress"}

(* An approval wins, then a conflict of the latest integration, then the   *)
(* last attempt.                                                           *)
ClassifyTask(attempts, kinds) ==
  LET each == [i \in DOMAIN attempts |-> ClassifyAttempt(attempts[i])]
      outcome == CASE "approved" \in ToSet(each) -> "approved"
                   [] "approved" \notin ToSet(each) /\ kinds # <<>> /\ Last(kinds) = "conflict" ->
                        "integration_conflict"
                   [] OTHER -> Last(each)
  IN [outcome |-> outcome, qualifying |-> IsAgentQuality(outcome),
      firstPass |-> IsAgentQuality(outcome) /\ outcome = "approved" /\ each[1] = "approved",
      changed |-> "changes_requested" \in ToSet(each)]

(* A session of the review of someone else's work is no work of the agent. *)
IsReview(session, attempt) == session = "review" /\ attempt # "review"

SessionTimes(x, op, ofReview) ==
  Sift([j \in DOMAIN x.sessions |->
          IF IsReview(x.sessions[j].operation, op) <=> ofReview THEN x.sessions[j].ms ELSE NoTimer], Nat)

(* Work is timed by the sessions; only a task none of whose sessions was   *)
(* timed is given the time its attempts took.                              *)
WallTimes(attempts, op) ==
  Sift([i \in DOMAIN attempts |->
          IF SessionTimes(attempts[i], op, FALSE) # <<>> \/ attempts[i].to = Missing THEN 0
          ELSE attempts[i].to - attempts[i].from], Nat \ {0})
ExecTime(attempts, op) ==
  LET timed == Sift([i \in DOMAIN attempts |-> Total(SessionTimes(attempts[i], op, FALSE))], Nat \ {0})
      wall == WallTimes(attempts, op) IN
  CASE timed # <<>> -> [ms |-> Total(timed), approx |-> FALSE]
    [] timed = <<>> /\ wall # <<>> -> [ms |-> Total(wall), approx |-> TRUE]
    [] OTHER -> [ms |-> Missing, approx |-> FALSE]
ReviewTime(attempts, op) ==
  LET ms == Total([i \in DOMAIN attempts |-> Total(SessionTimes(attempts[i], op, TRUE))]) IN
  IF ms > 0 THEN ms ELSE Missing
TotalTime(attempts) ==
  LET first == Min({attempts[i].from : i \in DOMAIN attempts})
      last == Max({attempts[i].to : i \in DOMAIN attempts}) IN
  IF last > first THEN last - first ELSE Missing

(* The language labels of a task: from what evidence says was changed.     *)
DetectLanguages(t, attempts) ==
  IF \E i \in DOMAIN attempts : attempts[i].status \in {"approved", "changes_requested", "reviewing"}
  THEN About[t].languages ELSE {}

BuildRecord(t, attempts, kinds) ==
  [agent |-> attempts[1].agent, role |-> About[t].role, operation |-> About[t].operation,
   languages |-> DetectLanguages(t, attempts), attempts |-> Len(attempts),
   class |-> ClassifyTask(attempts, kinds),
   started |-> Max({attempts[i].from : i \in DOMAIN attempts}),
   exec |-> ExecTime(attempts, About[t].operation), total |-> TotalTime(attempts),
   review |-> ReviewTime(attempts, About[t].operation),
   landed |-> IF kinds = <<>> THEN "none" ELSE Last(kinds)]

(* History::load: a record for every task that has attempts.               *)
History(attempts, kinds) ==
  [t \in {x \in MeasuredTasks : attempts[x] # <<>>} |-> BuildRecord(t, attempts[t], kinds[t])]

-----------------------------------------------------------------------------
(* Slices and what is counted of them.                                     *)
Windows == {"all_time", "last_30_days", "last_7_days"}
Since(window, now) ==
  CASE window = "all_time" -> 0   \* the first day
    [] window = "last_30_days" -> now - Month
    [] window = "last_7_days" -> now - Week
InWindow(h, window, now) == {t \in DOMAIN h : h[t].started >= Since(window, now)}

AnyWork == [agent |-> Anything, role |-> Anything, operation |-> Anything, language |-> Anything]
RecordMatches(x, q) ==
  /\ q.agent \in {Anything, x.agent} /\ q.role \in {Anything, x.role}
  /\ q.operation \in {Anything, x.operation}
  /\ q.language \in {Anything} \cup x.languages
Slice(h, tasks, q) == {t \in tasks : RecordMatches(h[t], q)}

Rate(successes, total) == [successes |-> successes, total |-> total, reliable |-> total >= MinReliable]
(* Nearest rank, and the mean of the two in the middle, half rounded up.   *)
Ascending(samples) ==
  LET order == Ordered(DOMAIN samples, samples) IN [i \in DOMAIN samples |-> samples[order[i]]]
P95(samples) ==
  LET n == Len(samples) IN
  IF n = 0 THEN Missing ELSE Ascending(samples)[(95 * n + 99) \div 100]
MedianOf(samples) ==
  LET n == Len(samples)
      s == Ascending(samples) IN
  CASE n = 0 -> Missing
    [] n % 2 = 1 -> s[n \div 2 + 1]
    [] OTHER -> (s[n \div 2] + s[n \div 2 + 1] + 1) \div 2
DurationStats(samples) ==
  [samples |-> Len(samples), median |-> MedianOf(samples), p95 |-> P95(samples)]
Present(of) == DurationStats(Sift(Entries(of), Nat))

IntegrationStats(h, tasks) ==
  LET of == [k \in {"clean", "rebased", "conflict"} |-> Cardinality({t \in tasks : h[t].landed = k})]
      all == of["clean"] + of["rebased"] + of["conflict"] IN
  [counts |-> of, clean |-> Rate(of["clean"], all), conflict |-> Rate(of["conflict"], all)]
Qualifying(h, tasks) == {t \in tasks : h[t].class.qualifying}
Aggregate(h, tasks) ==
  LET quality == Qualifying(h, tasks)
      q == Cardinality(quality)
      counts == [o \in Outcomes9 |-> Cardinality({t \in tasks : h[t].class.outcome = o})] IN
  [tasks |-> Cardinality(tasks), attempts |-> Total([t \in tasks |-> h[t].attempts]),
   counts |-> counts, qualifying |-> q,
   first |-> Rate(Cardinality({t \in quality : h[t].class.firstPass}), q),
   eventual |-> Rate(counts["approved"], q),
   changes |-> Rate(Cardinality({t \in quality : h[t].class.changed}), q),
   retry |-> Rate(Cardinality({t \in quality : h[t].attempts > 1}), q),
   failure |-> Rate(counts["agent_failed"], q),
   execution |-> Present([t \in tasks |-> h[t].exec.ms]),
   review |-> Present([t \in tasks |-> h[t].review]),
   duration |-> Present([t \in tasks |-> h[t].total]),
   integration |-> IntegrationStats(h, tasks)]

(* The overview: every agent that has tasks of the slice, the busiest      *)
(* first.  A breakdown: the same, by what a dimension says of a task.      *)
Busiest(groups) ==
  LET some == {k \in DOMAIN groups : groups[k] # {}} IN
  Ordered(some, [k \in some |-> -Cardinality(groups[k])])
Evaluate(h, tasks, q) ==
  LET of == [a \in MeasuredAgents |-> {t \in Slice(h, tasks, q) : h[t].agent = a}]
      order == Busiest(of) IN
  [i \in DOMAIN order |-> [agent |-> order[i], metrics |-> Aggregate(h, of[order[i]])]]
Facets(h, tasks) ==
  [roles |-> {h[t].role : t \in tasks}, operations |-> {h[t].operation : t \in tasks},
   languages |-> UNION {h[t].languages : t \in tasks}]
KeysOf(record, dimension) ==
  IF dimension = "languages" THEN record.languages ELSE {record[dimension]}
Breakdown(h, tasks, dimension) ==
  LET of == [k \in UNION {KeysOf(h[t], dimension) : t \in tasks} |->
               {t \in tasks : k \in KeysOf(h[t], dimension)}]
      order == Busiest(of) IN
  [i \in DOMAIN order |-> [key |-> order[i], metrics |-> Aggregate(h, of[order[i]])]]

(* The trend: the latest qualifying tasks, and this week beside the last.  *)
Latest(h, tasks, n) ==
  LET quality == Qualifying(h, tasks)
      order == Ordered(quality, [t \in quality |-> -h[t].started]) IN
  {order[i] : i \in 1 .. Min({n, Cardinality(quality)})}
ThisWeek(h, tasks, now) == {t \in Qualifying(h, tasks) : h[t].started >= now - Week}
WeekBefore(h, tasks, now) ==
  {t \in Qualifying(h, tasks) : h[t].started < now - Week /\ h[t].started >= now - 2 * Week}
TrendWindow(h, tasks) ==
  [first |-> Rate(Cardinality({t \in tasks : h[t].class.firstPass}), Cardinality(tasks)),
   median |-> Present([t \in tasks |-> h[t].exec.ms]).median]
Recent == {10, 25}
TrendSummary(h, tasks, now) ==
  [recent |-> [n \in Recent |-> TrendWindow(h, Latest(h, tasks, n))],
   current |-> TrendWindow(h, ThisWeek(h, tasks, now)),
   previous |-> TrendWindow(h, WeekBefore(h, tasks, now))]

(* One agent: what it did in the window, divided by role, by operation and *)
(* by language, and the trend, for which no window is asked.               *)
EvaluateAgent(h, agent, window, now) ==
  LET q == [AnyWork EXCEPT !.agent = agent]
      tasks == Slice(h, InWindow(h, window, now), q) IN
  [metrics |-> Aggregate(h, tasks), roles |-> Breakdown(h, tasks, "role"),
   operations |-> Breakdown(h, tasks, "operation"),
   languages |-> Breakdown(h, tasks, "languages"),
   trend |-> TrendSummary(h, Slice(h, DOMAIN h, q), now)]

-----------------------------------------------------------------------------
Now == History(past, landings)

EvalInit ==
  /\ past = [t \in MeasuredTasks |-> <<>>]
  /\ landings = [t \in MeasuredTasks |-> <<>>]
  /\ day = 0
  /\ lookup = AtRest

Noticed == lookup' = [lookup EXCEPT !.quiet = FALSE]

BeginsAttempt(t, agent) ==
  /\ Total([x \in MeasuredTasks |-> Len(past[x])]) < MaxPast
  /\ past[t] # <<>> => ~IsOpen(Last(past[t]))
  /\ past' = [past EXCEPT ![t] = Append(@, [agent |-> agent, status |-> "running", cause |-> "none",
                from |-> day, to |-> Missing, sessions |-> <<>>])]
  /\ Noticed /\ UNCHANGED <<landings, day>>

EndsAttempt(t, ending) ==
  /\ past[t] # <<>> /\ IsOpen(Last(past[t]))
  /\ past' = [past EXCEPT ![t] = Append(Front(@), [Last(@) EXCEPT
                !.status = ending.status, !.cause = ending.cause, !.to = day,
                !.sessions = ending.sessions])]
  /\ Noticed /\ UNCHANGED <<landings, day>>

(* How the work under review landed is recorded before it is approved.     *)
Lands(t, kind) ==
  /\ past[t] # <<>> /\ IsOpen(Last(past[t])) /\ Len(landings[t]) < Len(past[t])
  /\ past' = [past EXCEPT ![t] = Append(Front(@), [Last(@) EXCEPT !.status = "reviewing"])]
  /\ landings' = [landings EXCEPT ![t] = Append(@, kind)]
  /\ Noticed /\ UNCHANGED day

NextDay == day < MaxDay /\ lookup.pc = "rest" /\ day' = day + 1 /\ UNCHANGED <<past, landings, lookup>>

(* resolve_performance: the levels a lookup goes through, each a query of  *)
(* the whole history; a language is asked for only when one is known.      *)
LevelsFor(agent, role, operation, language) ==
  LET at(r, o, l) == [agent |-> agent, role |-> r, operation |-> o, language |-> l]
      specific == <<at(role, operation, language)>>
      known == <<at(role, operation, Anything), at(role, Anything, Anything),
                 at(Anything, Anything, Anything)>> IN
  IF language = Anything THEN known ELSE specific \o known

LookUp(agent, t, language) ==
  /\ lookup.pc = "rest"
  /\ lookup' = [lookup EXCEPT !.pc = "level", !.agent = agent, !.quiet = TRUE,
                  !.levels = LevelsFor(agent, About[t].role, About[t].operation, language)]
  /\ UNCHANGED <<past, landings, day>>

(* The samples of a question; only they decide whether it is answered.     *)
Samples(h, q) == Cardinality(Qualifying(h, Slice(h, DOMAIN h, q)))
LoadLevel ==
  /\ lookup.pc = "level"
  /\ LET n == Samples(Now, lookup.levels[lookup.at])
         enough == Rate(0, n).reliable
         last == lookup.at = Len(lookup.levels) IN
     lookup' = [lookup EXCEPT !.pc = IF enough \/ last THEN "answered" ELSE "level",
                  !.at = IF enough \/ last THEN @ ELSE @ + 1,
                  !.samples = IF enough THEN n ELSE Missing]
  /\ UNCHANGED <<past, landings, day>>

EvalNext ==
  \/ \E t \in MeasuredTasks : \/ \E a \in MeasuredAgents : BeginsAttempt(t, a)
                              \/ \E e \in Endings : EndsAttempt(t, e)
                              \/ \E k \in HowLanded : Lands(t, k)
  \/ \E q \in Questions : LookUp(q.agent, q.task, q.language)
  \/ NextDay \/ LoadLevel
EvalSpec == EvalInit /\ [][EvalNext]_EvalVars

-----------------------------------------------------------------------------
Tried == [agent : MeasuredAgents, status : {"running", "reviewing"} \cup EndedStatuses,
          cause : {"none"} \cup FailureCauses, from : Nat, to : Nat \cup {Missing}, sessions : Seq(Timed)]
Levels == [agent : MeasuredAgents \cup {Anything}, role : {About[t].role : t \in MeasuredTasks} \cup {Anything},
           operation : {About[t].operation : t \in MeasuredTasks} \cup {Anything},
           language : {q.language : q \in Questions} \cup {Anything}]
OneByOne(attempts, kinds) ==
  /\ Len(kinds) =< Len(attempts)
  /\ \A i \in DOMAIN attempts :
       /\ IsOpen(attempts[i]) => i = Len(attempts)
       /\ attempts[i].status = "failed" => attempts[i].cause \in FailureCauses
EvalTypeOK ==
  /\ past \in [MeasuredTasks -> Seq(Tried)]
  /\ landings \in [MeasuredTasks -> Seq(HowLanded)]
  /\ \A t \in MeasuredTasks : OneByOne(past[t], landings[t])
  /\ day \in 0 .. MaxDay
  /\ lookup.pc \in {"rest", "level", "answered"} /\ lookup.quiet \in BOOLEAN
  /\ lookup.pc # "rest" => lookup.levels \in Seq(Levels) /\ lookup.at \in DOMAIN lookup.levels

(* Whatever slice of whatever history is measured, each task has one       *)
(* outcome, no rate has more successes than samples, an approval at the    *)
(* first attempt is an approval, and the rows of the agents, like those of *)
(* each agent by role and by operation, divide the tasks among them; and   *)
(* every filter that is offered shows a task.                              *)
Rates(m) == {m.first, m.eventual, m.changes, m.retry, m.failure, m.integration.clean,
             m.integration.conflict}
TasksOf(table) == Total([i \in DOMAIN table |-> table[i].metrics.tasks])
MetricsAddUp(h) ==
  \A w \in Windows :
    LET tasks == InWindow(h, w, day)
        m == Aggregate(h, tasks) IN
    /\ Total(m.counts) = m.tasks
    /\ \A r \in Rates(m) : r.successes =< r.total
    /\ m.first.successes =< m.eventual.successes
    /\ m.tasks =< m.attempts
    /\ \A stats \in {m.execution, m.review, m.duration} : stats.median =< stats.p95
    /\ TasksOf(Evaluate(h, tasks, AnyWork)) = m.tasks
    /\ LET offered == Facets(h, tasks) IN
         /\ \A r \in offered.roles : Slice(h, tasks, [AnyWork EXCEPT !.role = r]) # {}
         /\ \A o \in offered.operations : Slice(h, tasks, [AnyWork EXCEPT !.operation = o]) # {}
         /\ \A l \in offered.languages : Slice(h, tasks, [AnyWork EXCEPT !.language = l]) # {}

(* The overview has one row for each agent of the history, and says of it *)
(* what its own page says, whose trend counts only the tasks that qualify, *)
(* all of them when there are no more than it asks for, and no task in two *)
(* of its weeks.                                                           *)
AgentsAddUp(h) ==
  LET all == Evaluate(h, DOMAIN h, AnyWork) IN
  /\ {all[i].agent : i \in DOMAIN all} = {h[t].agent : t \in DOMAIN h}
  /\ \A i, j \in DOMAIN all : i # j => all[i].agent # all[j].agent
  /\ \A i \in DOMAIN all :
       LET row == all[i]
           one == EvaluateAgent(h, row.agent, "all_time", day) IN
       /\ row.metrics = one.metrics
       /\ TasksOf(one.roles) = one.metrics.tasks /\ TasksOf(one.operations) = one.metrics.tasks
       /\ \A n \in Recent : LET late == one.trend.recent[n].first IN
            /\ late.total = Min({n, one.metrics.qualifying})
            /\ late.successes =< one.metrics.first.successes
            /\ one.metrics.qualifying =< n => late.successes = one.metrics.first.successes
       /\ one.trend.current.first.total + one.trend.previous.first.total =< one.metrics.qualifying

(* A window shows no task that a longer one does not; this week and the    *)
(* one before share no task and miss none of the fortnight; and a task the *)
(* trend leaves out started no later than those it counts.                 *)
WindowsNest(h) ==
  LET all == DOMAIN h
      quality == Qualifying(h, all) IN
  /\ InWindow(h, "last_7_days", day) \subseteq InWindow(h, "last_30_days", day)
  /\ InWindow(h, "last_30_days", day) \subseteq InWindow(h, "all_time", day)
  /\ ThisWeek(h, all, day) \cap WeekBefore(h, all, day) = {}
  /\ ThisWeek(h, all, day) \cup WeekBefore(h, all, day)
       = {t \in quality : h[t].started >= day - 2 * Week}
  /\ \A n \in Recent \cup {1} : \A t \in Latest(h, all, n), u \in quality \ Latest(h, all, n) :
       h[t].started >= h[u].started

(* A lookup answers only with enough samples; undisturbed, it answers with *)
(* the most specific slice that has them, and fails only when the agent's  *)
(* whole history has too few.  A slice never has more than a wider one.    *)
LookupIsHonest ==
  LET h == Now
      enough(i) == Samples(h, lookup.levels[i]) >= MinReliable IN
  /\ lookup.pc = "level" /\ lookup.at = 1 => \A i, j \in DOMAIN lookup.levels : i < j /\ enough(i) => enough(j)
  /\ lookup.pc = "answered" =>
       /\ lookup.samples # Missing => lookup.samples >= MinReliable
       /\ lookup.quiet => \A i \in 1 .. lookup.at :
            enough(i) <=> (i = lookup.at /\ lookup.samples # Missing)

(* Every rate an agent is measured and chosen by counts the attempts of    *)
(* its tasks once, in the window and the slice it is asked for.            *)
MeasuresSound ==
  /\ EvalTypeOK /\ LookupIsHonest
  /\ lookup.pc = "rest" => LET h == Now IN h # <<>> => MetricsAddUp(h) /\ AgentsAddUp(h) /\ WindowsNest(h)
=============================================================================
