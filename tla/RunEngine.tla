----------------------------- MODULE RunEngine -----------------------------
(***************************************************************************)
(* The life of one run in the Factory server: planning, starting, the      *)
(* sequential execution of its tasks with retries, reviews, rework and     *)
(* integration, cancellation by a concurrent request, manual retry, and    *)
(* the recovery of a server that stopped.                                  *)
(*                                                                         *)
(* A step is what runs between two effects another party can see: one      *)
(* SQLite statement (each commits on its own), one load or store of the    *)
(* cancellation flag, or the end of an agent process.  The server may stop *)
(* between any two of them.                                                *)
(*                                                                         *)
(* The thread that works for the run (the request handler that reserves    *)
(* it, then the background thread) is one program with counter pc; the     *)
(* handler of a cancel request is another, with counter cpc.               *)
(***************************************************************************)
EXTENDS TaskGraph, Sequences

CONSTANTS
    Plans,          \* the plans a planner may answer with
    NoPlan,         \* the run has no task rows yet
    MaxAttempts,    \* MAX_TASK_ATTEMPTS
    Faults          \* which of FaultKinds the environment may inject

\* "crash": the server stops at any point.  "error": an error other than the
\* agent's own failure (SQLite, Git, routing, an integration conflict) leaves
\* the executor through `?`.  "retry": the user retries a failed or blocked
\* task.
FaultKinds == {"crash", "error", "retry"}

ASSUME EngineAssumption ==
    /\ \A p \in Plans : p \in PlanType /\ Acyclic(p)
    /\ NoPlan \notin Plans
    /\ MaxAttempts \in Nat \ {0}
    /\ Faults \subseteq FaultKinds

NoTask == 0

\* Statuses of a task's latest attempt; "none" before the first one.  A failed,
\* rejected, cancelled or interrupted attempt is "over": nothing in the engine
\* tells these apart.
AttemptStatuses == {"none", "running", "reviewing", "approved", "over"}

Live(a) == a \in {"running", "reviewing"}

VARIABLES
    \* in SQLite
    plan,       \* dependencies and operations of the task rows
    status,     \* runs.status, or "none" before the row exists
    task,       \* tasks.state
    tries,      \* number of the task's latest attempt
    attempt,    \* status of the task's latest attempt
    \* in the server's memory
    active,     \* the run's entry in the map of live operations
    cancel,     \* the cancellation flag of that entry
    pc,         \* what the run's thread does next
    cur,        \* the task it executes
    verdict,    \* the final status it is about to write
    todo,       \* ancestors a rejected review still has to unwind
    mark,       \* the call of mark_task in progress, and where it returns
    walk,       \* that call's walk over the dependents
    recon,      \* the status reconcile_run is about to write, and its return
    cpc         \* what the cancel request's handler does next

database == <<plan, status, task, tries, attempt>>
thread   == <<pc, cur, verdict, todo, mark, walk, recon>>
vars     == <<plan, status, task, tries, attempt, active, cancel, pc, cur,
              verdict, todo, mark, walk, recon, cpc>>

Labels ==
    {"idle", "reserve", "plan", "launchPlanner", "planner", "doomedPlanner", "start", "retry", "activate",
     "spawn", "loop", "pick", "begin", "launch", "invoke", "doomed", "again",
     "launchReview", "review", "doomedReview", "integrate", "cleanup",
     "rework", "unwind", "kick", "mark", "walk", "recon", "reconWrite",
     "fail", "verdict", "release",
     "down", "recoverAttempts", "recoverTasks", "recoverRuns"}

NoMark  == [task |-> NoTask, target |-> "ready", after |-> "idle"]
NoWalk  == [top |-> NoTask, frontier |-> <<>>, visited |-> {}]
NoRecon == [status |-> "planned", after |-> "idle"]

TypeOK ==
    /\ plan \in Plans \cup {NoPlan}
    /\ status \in RunStatuses \cup {"none"}
    /\ task \in [Tasks -> TaskStates]
    /\ tries \in [Tasks -> 0 .. MaxAttempts]
    /\ attempt \in [Tasks -> AttemptStatuses]
    /\ active \in {"none", "planning", "executing"}
    /\ cancel \in BOOLEAN
    /\ pc \in Labels
    /\ cur \in Tasks \cup {NoTask}
    /\ verdict \in RunStatuses
    /\ todo \in SUBSET Tasks
    /\ mark \in [task : Tasks \cup {NoTask}, target : TaskStates, after : Labels]
    /\ walk \in [top : Tasks \cup {NoTask}, frontier : Seq(Tasks),
                 visited : SUBSET (Tasks \cup {NoTask})]
    /\ recon \in [status : RunStatuses, after : Labels]
    /\ cpc \in {"idle", "store", "stale", "read", "write"}

Init ==
    /\ plan = NoPlan
    /\ status = "none"
    /\ task = [t \in Tasks |-> "pending"]
    /\ tries = [t \in Tasks |-> 0]
    /\ attempt = [t \in Tasks |-> "none"]
    /\ active = "none"
    /\ cancel = FALSE
    /\ pc = "idle"
    /\ cur = NoTask
    /\ verdict = "failed"
    /\ todo = {}
    /\ mark = NoMark
    /\ walk = NoWalk
    /\ recon = NoRecon
    /\ cpc = "idle"

-----------------------------------------------------------------------------
(***************************************************************************)
(* mark_task: one guarded change of a task's state, then a walk over its   *)
(* transitive dependents, depth first and each visited once, that          *)
(* recomputes their states.  Every change of a state is followed by        *)
(* reconcile_run, which derives the run's status again.  `after` is where  *)
(* the caller continues.                                                   *)
(***************************************************************************)
StartMark(t, target, after) ==
    /\ pc' = "mark"
    /\ mark' = [task |-> t, target |-> target, after |-> after]

Reconcile(after) ==
    /\ pc' = "recon"
    /\ recon' = [status |-> NoRecon.status, after |-> after]

\* Where an error goes: out of prepare_retry, or out of the executor.
OnError == IF pc = "activate" \/ mark.after = "activate" THEN "release" ELSE "fail"

\* An illegal transition is an error of the caller.
MarkUpdate ==
    /\ pc = "mark"
    /\ IF CanTransition(task[mark.task], mark.target)
       THEN /\ task' = [task EXCEPT ![mark.task] = mark.target]
            /\ walk' = [top |-> mark.task, frontier |-> <<>>, visited |-> {mark.task}]
            /\ Reconcile("walk")
            /\ UNCHANGED mark
       ELSE /\ pc' = OnError
            /\ mark' = NoMark
            /\ UNCHANGED <<task, walk, recon>>
    /\ UNCHANGED <<plan, status, tries, attempt, active, cancel, cur, verdict,
                   todo, cpc>>

\* reconcile_run's reads: the tasks, and the status it must not overwrite.
ReconcileRead ==
    /\ pc = "recon"
    /\ LET derived == FromTasks({task[t] : t \in Tasks})
       IN  IF status \in {"planning", "cancelled", derived}
           THEN /\ pc' = recon.after
                /\ recon' = NoRecon
           ELSE /\ pc' = "reconWrite"
                /\ recon' = [status |-> derived, after |-> recon.after]
    /\ UNCHANGED <<database, active, cancel, cur, verdict, todo, mark, walk, cpc>>

\* ... and its write, which does not look at the status again.
ReconcileWrite ==
    /\ pc = "reconWrite"
    /\ status' = recon.status
    /\ pc' = recon.after
    /\ recon' = NoRecon
    /\ UNCHANGED <<plan, task, tries, attempt, active, cancel, cur, verdict,
                   todo, mark, walk, cpc>>

Unvisited == Dependents(plan, walk.top) \ walk.visited

\* Mutant: completed dependents are recomputed like the others.
KeepsNoState(d) == FALSE

\* A completed dependent keeps its state and is not walked through.
KeepsState(d) == task[d] = "completed"

\* The next dependent of the task on top, in the order of positions.
WalkVisit ==
    /\ pc = "walk"
    /\ \E d \in Unvisited :
        /\ \A e \in Unvisited : d <= e
        /\ LET next == NextStateForDependent({task[u] : u \in plan.deps[d]})
           IN  /\ walk' = [top |-> walk.top,
                           frontier |-> IF KeepsState(d) THEN walk.frontier
                                        ELSE <<d>> \o walk.frontier,
                           visited |-> walk.visited \cup {d}]
               /\ IF KeepsState(d) \/ task[d] = next
                  THEN UNCHANGED <<task, pc, recon>>
                  ELSE /\ task' = [task EXCEPT ![d] = next]
                       /\ Reconcile("walk")
    /\ UNCHANGED <<plan, status, tries, attempt, active, cancel, cur, verdict,
                   todo, mark, cpc>>

WalkDescend ==
    /\ pc = "walk"
    /\ Unvisited = {}
    /\ walk.frontier # <<>>
    /\ walk' = [top |-> Head(walk.frontier), frontier |-> Tail(walk.frontier),
                visited |-> walk.visited]
    /\ UNCHANGED <<database, active, cancel, pc, cur, verdict, todo, mark, recon, cpc>>

MarkReturn ==
    /\ pc = "walk"
    /\ Unvisited = {}
    /\ walk.frontier = <<>>
    /\ pc' = mark.after
    /\ mark' = NoMark
    /\ walk' = NoWalk
    /\ UNCHANGED <<database, active, cancel, cur, verdict, todo, recon, cpc>>

MarkTask ==
    \/ MarkUpdate \/ ReconcileRead \/ ReconcileWrite
    \/ WalkVisit \/ WalkDescend \/ MarkReturn

-----------------------------------------------------------------------------
(***************************************************************************)
(* Planning, starting and retrying: the request handlers and the planner.  *)
(***************************************************************************)
Goto(label) ==
    /\ pc' = label
    /\ UNCHANGED <<database, active, cancel, cur, verdict, todo, mark, walk, recon, cpc>>

\* Runtime::reserve, which refuses a run that has a live operation.
Reserve(kind) ==
    /\ active = "none"
    /\ active' = kind
    /\ cancel' = FALSE

BeginRun ==
    /\ pc = "idle" /\ status = "none"
    /\ status' = "planning"
    /\ pc' = "reserve"
    /\ UNCHANGED <<plan, task, tries, attempt, active, cancel, cur, verdict,
                   todo, mark, walk, recon, cpc>>

ReservePlanning ==
    /\ pc = "reserve"
    /\ Reserve("planning")
    /\ pc' = "plan"
    /\ UNCHANGED <<database, cur, verdict, todo, mark, walk, recon, cpc>>

PlanRun ==
    /\ pc = "plan"
    /\ Goto(IF status = "planning" THEN "launchPlanner" ELSE "fail")

\* An accepted plan: one transaction writes the rows and the status, whatever
\* the status has become.
PersistPlan ==
    /\ pc = "planner"
    /\ \E p \in Plans :
        /\ plan' = p
        /\ task' = [t \in Tasks |-> InitialState(p.deps[t])]
    /\ status' = "planned"
    /\ pc' = "release"
    /\ UNCHANGED <<tries, attempt, active, cancel, cur, verdict, todo, mark,
                   walk, recon, cpc>>

\* The planner failed, was cancelled, or was rejected once too often.  (The
\* rejections before the last only start it again.)
PlannerFails == pc \in {"planner", "doomedPlanner"} /\ Goto("fail")

StartWorkflow ==
    /\ pc = "idle" /\ status # "none"
    /\ Reserve("executing")
    /\ pc' = "start"
    /\ UNCHANGED <<database, cur, verdict, todo, mark, walk, recon, cpc>>

\* prepare_start: the status is read, the plan, team and agents validated.
PrepareStart ==
    /\ pc = "start"
    /\ IF status \in {"planned", "blocked"}
       THEN Goto("activate") \/ Goto("release")
       ELSE Goto("release")

\* Mutant: one attempt too many.
OneMoreAttempt(t) == tries[t] <= MaxAttempts

\* Another attempt of the task is within the bound.
AttemptsLeft(t) == tries[t] < MaxAttempts

MayRetry(t) == task[t] \in {"failed", "blocked"} /\ AttemptsLeft(t)

\* Mutant: a run the policy refuses fails.
PolicyFails == "failed"

\* The status of a run the policy refuses to start.
PolicyStatus == "blocked"

\* The policy gate of a start or a retry refuses: the run is blocked.
PolicyBlocks ==
    /\ \/ pc = "start" /\ status \in {"planned", "blocked"}
       \/ pc = "retry" /\ MayRetry(cur)
    /\ status' = PolicyStatus
    /\ pc' = "release"
    /\ UNCHANGED <<plan, task, tries, attempt, active, cancel, cur, verdict,
                   todo, mark, walk, recon, cpc>>

\* The last write of a start and of a retry; then the executor is spawned.
Activate ==
    /\ pc = "activate"
    /\ status' = "active"
    /\ pc' = "spawn"
    /\ UNCHANGED <<plan, task, tries, attempt, active, cancel, cur, verdict,
                   todo, mark, walk, recon, cpc>>

RetryTask ==
    /\ "retry" \in Faults
    /\ pc = "idle" /\ plan # NoPlan
    /\ Reserve("executing")
    /\ \E t \in Tasks : cur' = t
    /\ pc' = "retry"
    /\ UNCHANGED <<database, verdict, todo, mark, walk, recon, cpc>>

\* prepare_retry.  It asks nothing of the run's status or the dependencies.
PrepareRetry ==
    /\ pc = "retry"
    /\ \/ /\ MayRetry(cur)
          /\ StartMark(cur, "ready", "activate")
          /\ UNCHANGED <<database, active, cancel, cur, verdict, todo, walk,
                         recon, cpc>>
       \/ Goto("release")

Prepare ==
    \/ ReservePlanning \/ PlanRun
    \/ PrepareStart \/ PolicyBlocks \/ Activate \/ PrepareRetry

-----------------------------------------------------------------------------
(***************************************************************************)
(* The executor: pick the ready task of lowest position, run it by its     *)
(* operation, until none is ready.                                         *)
(***************************************************************************)
SpawnExecution == pc = "spawn" /\ Goto("loop")

CheckCancel ==
    /\ pc = "loop"
    /\ IF cancel
       THEN /\ verdict' = "cancelled"
            /\ pc' = "verdict"
       ELSE /\ pc' = "pick"
            /\ UNCHANGED verdict
    /\ UNCHANGED <<database, active, cancel, cur, todo, mark, walk, recon, cpc>>

ReadyTasks == {t \in Tasks : task[t] = "ready"}

PickTask ==
    /\ pc = "pick"
    /\ \E t \in ReadyTasks :
        /\ \A u \in ReadyTasks : t <= u
        /\ cur' = t
    /\ pc' = "begin"
    /\ UNCHANGED <<database, active, cancel, verdict, todo, mark, walk, recon, cpc>>

\* The status of a run in which no task is ready, from the tasks' states.  A
\* superseded task counts as unfinished here, unlike in FromTasks.
RestingVerdict(states) ==
    IF states \subseteq {"completed"} THEN "completed"
    ELSE IF "failed" \in states THEN "failed"
    ELSE "blocked"

NothingReady ==
    /\ pc = "pick"
    /\ ReadyTasks = {}
    /\ verdict' = RestingVerdict({task[t] : t \in Tasks})
    /\ pc' = "verdict"
    /\ UNCHANGED <<database, active, cancel, cur, todo, mark, walk, recon, cpc>>

\* Mutant: the number is read and never advanced.
SameAttempt(t) == tries[t]

NextAttempt(t) == tries[t] + 1

\* An attempt is numbered and recorded, then its task marked running.
BeginAttempt ==
    /\ pc = "begin"
    /\ AttemptsLeft(cur)
    /\ tries' = [tries EXCEPT ![cur] = NextAttempt(cur)]
    /\ attempt' = [attempt EXCEPT ![cur] = "running"]
    /\ StartMark(cur, "running", "launch")
    /\ UNCHANGED <<plan, status, task, active, cancel, cur, verdict, todo,
                   walk, recon, cpc>>

AttemptsExhausted ==
    /\ pc \in {"begin", "again"}
    /\ ~AttemptsLeft(cur)
    /\ Goto("fail")

\* Mutant: the task is not made ready again before the next attempt.
TryAgainUnready == pc = "again" /\ AttemptsLeft(cur) /\ Goto("begin")

TryAgain ==
    /\ pc = "again"
    /\ AttemptsLeft(cur)
    /\ StartMark(cur, "ready", "begin")
    /\ UNCHANGED <<database, active, cancel, cur, verdict, todo, walk, recon, cpc>>

\* An agent started with the flag already set ends cancelled or in an error:
\* run_observed looks at the flag before it first looks for an exit status.
Launch ==
    \/ pc = "launchPlanner" /\ Goto(IF cancel THEN "doomedPlanner" ELSE "planner")
    \/ pc = "launch" /\ Goto(IF cancel THEN "doomed" ELSE "invoke")
    \/ pc = "launchReview" /\ Goto(IF cancel THEN "doomedReview" ELSE "review")

\* The attempt is finished, and its task marked for it.
Settle(outcome, target, after) ==
    /\ attempt' = [attempt EXCEPT ![cur] = outcome]
    /\ StartMark(cur, target, after)
    /\ UNCHANGED <<plan, status, task, tries, active, cancel, cur, verdict,
                   todo, walk, recon, cpc>>

\* Mutant: reviewers are not watched.
KillableWorkers == {"invoke", "doomed"}

\* Where a process runs that the flag makes run_observed kill.
Killable == {"invoke", "doomed", "review", "doomedReview"}

AgentCancelled ==
    /\ pc \in Killable
    /\ cancel
    /\ Settle("over", "failed", "fail")

\* The agent could not run or exited with a failure: worth another attempt.
AgentFails ==
    /\ pc \in {"invoke", "doomed"}
    /\ Settle("over", "failed", "again")

\* A misconfigured agent, too much output, or a policy violation: not worth one.
AgentAborts ==
    /\ pc \in {"invoke", "doomed", "review", "doomedReview"}
    /\ Settle("over", "failed", "fail")

Implements(t) == plan.op[t] \in {"implement", "verify", "post_process"}

ProducerSucceeds ==
    /\ pc = "invoke" /\ Implements(cur)
    /\ attempt' = [attempt EXCEPT ![cur] = "reviewing"]
    /\ pc' = "launchReview"
    /\ UNCHANGED <<plan, status, task, tries, active, cancel, cur, verdict,
                   todo, mark, walk, recon, cpc>>

AdvisorySucceeds ==
    /\ pc = "invoke" /\ plan.op[cur] = "advisory"
    /\ Settle("approved", "completed", "cleanup")

\* The built-in reviewer's decision on a producer's attempt.  Anything but an
\* approval it can parse is a request for changes.
ReviewerApproves == pc = "review" /\ Goto("integrate")

ReviewerRequestsChanges ==
    /\ pc \in {"review", "doomedReview"}
    /\ Settle("over", "failed", "again")

\* Mutant: the task is completed before the attempt is approved.
IntegrateFirst ==
    /\ pc = "integrate"
    /\ StartMark(cur, "completed", "cleanup")
    /\ UNCHANGED <<database, active, cancel, cur, verdict, todo, walk, recon, cpc>>

Integrate ==
    /\ pc = "integrate"
    /\ Settle("approved", "completed", "cleanup")

\* The decision of a task that is itself a review.
ReviewTaskApproves ==
    /\ pc = "invoke" /\ plan.op[cur] = "review"
    /\ Settle("approved", "completed", "cleanup")

ReviewTaskRequestsChanges ==
    /\ pc = "invoke" /\ plan.op[cur] = "review"
    /\ attempt' = [attempt EXCEPT ![cur] = "over"]
    /\ pc' = "rework"
    /\ UNCHANGED <<plan, status, task, tries, active, cancel, cur, verdict,
                   todo, mark, walk, recon, cpc>>

\* rework_after_review: unwind the completed ancestors other than the seed to
\* pending, block the review, and make the seed ready again.
StartRework ==
    /\ pc = "rework"
    /\ \E s \in ReworkSeeds(plan, cur) :
        /\ AttemptsLeft(s)
        /\ todo' = {a \in Ancestors(plan, cur) \ {s} : task[a] = "completed"}
    /\ pc' = "unwind"
    /\ UNCHANGED <<database, active, cancel, cur, verdict, mark, walk, recon, cpc>>

NoRework ==
    /\ pc = "rework"
    /\ \A s \in ReworkSeeds(plan, cur) : ~AttemptsLeft(s)
    /\ StartMark(cur, "failed", "fail")
    /\ UNCHANGED <<database, active, cancel, cur, verdict, todo, walk, recon, cpc>>

\* In the order of a hash set: any.
Unwind ==
    /\ pc = "unwind"
    /\ \E a \in todo :
        /\ task' = [task EXCEPT ![a] = "pending"]
        /\ todo' = todo \ {a}
    /\ Reconcile("unwind")
    /\ UNCHANGED <<plan, status, tries, attempt, active, cancel, cur, verdict,
                   mark, walk, cpc>>

BlockReview ==
    /\ pc = "unwind" /\ todo = {}
    /\ StartMark(cur, "blocked", "kick")
    /\ UNCHANGED <<database, active, cancel, cur, verdict, todo, walk, recon, cpc>>

KickSeed ==
    /\ pc = "kick"
    /\ \E s \in ReworkSeeds(plan, cur) : StartMark(s, "ready", "loop")
    /\ UNCHANGED <<database, active, cancel, cur, verdict, todo, walk, recon, cpc>>

CleanUp == pc = "cleanup" /\ Goto("loop")

\* execute_task returned false or an error: both end the run the same way.
DecideVerdict ==
    /\ pc = "fail"
    /\ verdict' = IF cancel THEN "cancelled" ELSE "failed"
    /\ pc' = "verdict"
    /\ UNCHANGED <<database, active, cancel, cur, todo, mark, walk, recon, cpc>>

WriteVerdict ==
    /\ pc = "verdict"
    /\ status' = verdict
    /\ pc' = "release"
    /\ UNCHANGED <<plan, task, tries, attempt, active, cancel, cur, verdict,
                   todo, mark, walk, recon, cpc>>

\* The thread's locals die with it.
ForgetThread ==
    /\ cur' = NoTask
    /\ verdict' = "failed"
    /\ todo' = {}
    /\ mark' = NoMark
    /\ walk' = NoWalk
    /\ recon' = NoRecon

Release ==
    /\ pc = "release"
    /\ active' = "none"
    /\ cancel' = FALSE
    /\ pc' = "idle"
    /\ ForgetThread
    /\ cpc' = IF cpc = "store" THEN "stale" ELSE cpc
    /\ UNCHANGED database

\* What an agent process does, and what the executor does by itself.
AgentStep ==
    \/ AgentFails \/ AgentAborts \/ ProducerSucceeds \/ AdvisorySucceeds
    \/ ReviewerApproves \/ ReviewerRequestsChanges
    \/ ReviewTaskApproves \/ ReviewTaskRequestsChanges
    \/ PersistPlan \/ PlannerFails

\* At the end of an agent, which nothing but its cancellation is sure to bring.
Waiting == pc \in {"planner", "doomedPlanner", "invoke", "doomed", "review", "doomedReview"}

Execute ==
    \/ SpawnExecution \/ CheckCancel \/ PickTask \/ NothingReady
    \/ BeginAttempt \/ AttemptsExhausted \/ TryAgain \/ Launch
    \/ Integrate \/ StartRework \/ NoRework \/ Unwind \/ BlockReview
    \/ KickSeed \/ CleanUp \/ DecideVerdict \/ WriteVerdict \/ Release

\* The labels at which the executor, or prepare_retry, makes a fallible call.  (A
\* final status that could not be written is replaced by another.)
Fallible ==
    {"activate", "pick", "begin", "launch", "invoke", "doomed", "again",
     "launchReview", "review", "doomedReview", "integrate", "cleanup",
     "rework", "unwind", "kick", "mark", "walk", "recon", "reconWrite",
     "verdict"}

\* An error of SQLite, Git or routing, or an integration conflict, where the
\* code returns it with `?`: what was written so far stays.
ErrorEscapes ==
    /\ "error" \in Faults
    /\ pc \in Fallible
    /\ pc' = OnError
    /\ todo' = {}
    /\ mark' = NoMark
    /\ walk' = NoWalk
    /\ recon' = NoRecon
    /\ UNCHANGED <<database, active, cancel, cur, verdict, cpc>>

\* ... and that could not be written either: the error is dropped.
VerdictLost == "error" \in Faults /\ pc = "verdict" /\ Goto("release")

\* The run's team could not be stored, or the background thread could not open
\* the project: the run is left as it is.
OpenFails ==
    /\ "error" \in Faults
    /\ pc \in {"reserve", "plan", "spawn"}
    /\ Goto("release")

-----------------------------------------------------------------------------
(***************************************************************************)
(* The handler of a cancel request: it takes the operation's flag from the *)
(* map, sets it, and then writes the status, if the status it read allows  *)
(* it.  The operation may end, and another begin, in between.              *)
(***************************************************************************)
CancelWorkflow ==
    /\ cpc = "idle" /\ active # "none"
    /\ cpc' = "store"
    /\ UNCHANGED <<database, active, cancel, thread>>

CancelStore ==
    /\ cpc \in {"store", "stale"}
    /\ cancel' = (cancel \/ cpc = "store")
    /\ cpc' = "read"
    /\ UNCHANGED <<database, active, thread>>

CancelRead ==
    /\ cpc = "read"
    /\ cpc' = IF status \in {"planning", "active"} THEN "write" ELSE "idle"
    /\ UNCHANGED <<database, active, cancel, thread>>

CancelWrite ==
    /\ cpc = "write"
    /\ status' = "cancelled"
    /\ cpc' = "idle"
    /\ UNCHANGED <<plan, task, tries, attempt, active, cancel, thread>>

\* The handler could not open the project, or not write: the flag stays set.
CancelLost ==
    /\ "error" \in Faults
    /\ cpc \in {"read", "write"}
    /\ cpc' = "idle"
    /\ UNCHANGED <<database, active, cancel, thread>>

CancelRun == CancelStore \/ CancelRead \/ CancelWrite \/ CancelLost

-----------------------------------------------------------------------------
(***************************************************************************)
(* The server stops, and starts again: reconcile_interrupted, one          *)
(* statement at a time, before any request is served.                      *)
(***************************************************************************)
Recovering == {"down", "recoverAttempts", "recoverTasks", "recoverRuns"}

Crash ==
    /\ "crash" \in Faults
    /\ pc # "down"
    /\ pc' = "down"
    /\ active' = "none"
    /\ cancel' = FALSE
    /\ cpc' = "idle"
    /\ ForgetThread
    /\ UNCHANGED database

Restart == pc = "down" /\ Goto("recoverAttempts")

\* Mutant: attempts under review are forgotten.
InterruptibleRunning == {"running"}

\* The attempts recovery closes.
Interruptible == {"running", "reviewing"}

RecoverAttempts ==
    /\ pc = "recoverAttempts"
    /\ attempt' = [t \in Tasks |-> IF attempt[t] \in Interruptible THEN "over"
                                   ELSE attempt[t]]
    /\ pc' = "recoverTasks"
    /\ UNCHANGED <<plan, status, task, tries, active, cancel, cur, verdict,
                   todo, mark, walk, recon, cpc>>

\* The executor never uses the integration states; recovery handles them.
RecoverTasks ==
    /\ pc = "recoverTasks"
    /\ task' = [t \in Tasks |->
                    CASE task[t] = "running" -> "failed"
                      [] task[t] = "integrating" -> "awaiting_integration"
                      [] OTHER -> task[t]]
    /\ pc' = "recoverRuns"
    /\ UNCHANGED <<plan, status, tries, attempt, active, cancel, cur, verdict,
                   todo, mark, walk, recon, cpc>>

RecoverRuns ==
    /\ pc = "recoverRuns"
    /\ status' = IF status \in {"planning", "active"} THEN "failed" ELSE status
    /\ pc' = "idle"
    /\ UNCHANGED <<plan, task, tries, attempt, active, cancel, cur, verdict,
                   todo, mark, walk, recon, cpc>>

Recover == Restart \/ RecoverAttempts \/ RecoverTasks \/ RecoverRuns

-----------------------------------------------------------------------------
Next ==
    \/ BeginRun \/ Prepare \/ StartWorkflow \/ RetryTask
    \/ Execute \/ MarkTask \/ AgentStep \/ AgentCancelled
    \/ ErrorEscapes \/ VerdictLost \/ OpenFails
    \/ CancelWorkflow \/ CancelRun
    \/ Crash \/ Recover

Spec == Init /\ [][Next]_vars

\* The server's threads run on; a cancelled agent's process tree is killed, so
\* it ends.  Nothing is asked of users, of agents left alone, or of faults.
FairSpec ==
    /\ Spec
    /\ WF_vars(Prepare \/ Execute \/ MarkTask \/ Recover)
    /\ WF_vars(cancel /\ (AgentCancelled \/ PlannerFails))
    /\ WF_vars(CancelRun)

-----------------------------------------------------------------------------
(***************************************************************************)
(* Safety.                                                                 *)
(***************************************************************************)

\* A task is completed only by an attempt that was approved, and stays so only
\* as long as that attempt is its latest: finish_task_attempt and mark_task are
\* separate writes, and retries, rework and recovery all reset tasks.
CompletedTaskApproved ==
    \A t \in Tasks : task[t] = "completed" => attempt[t] = "approved"

\* A run reported as completed has every task completed, whoever wrote the
\* status (the executor, reconcile_run) and whoever is about to write.
\* Delivery to GitHub opens on this status.
CompletedRunDone ==
    status = "completed" => plan # NoPlan /\ \A t \in Tasks : task[t] = "completed"

\* What "completed" says of a task and of a run is so.
EngineSound == TypeOK /\ CompletedTaskApproved /\ CompletedRunDone

\* The engine never asks mark_task for a transition it refuses.
MarksAreLegal == pc = "mark" => CanTransition(task[mark.task], mark.target)

\* Between operations no task is left running, no attempt is left open and no
\* run in progress, also after the server stopped at any point and recovered.
IdleIsSettled ==
    pc = "idle" =>
        /\ status \notin {"planning", "active"}
        /\ \A t \in Tasks : task[t] # "running" /\ ~Live(attempt[t])

\* Every change of state is legal, and every operation leaves things settled.
ControlSound == MarksAreLegal /\ IdleIsSettled

\* An agent works on a task only once the task's dependencies are completed.
DependenciesFirst ==
    pc \in {"invoke", "review", "integrate"} =>
        \A d \in plan.deps[cur] : task[d] = "completed"

\* Between operations every pending task waits for a dependency that is not
\* completed: otherwise nothing would ever make it ready.
PendingWaits ==
    pc = "idle" /\ plan # NoPlan =>
        \A t \in Tasks : task[t] = "pending" =>
            \E d \in plan.deps[t] : task[d] # "completed"

\* A run that failed can be carried on: some task can be retried, unless one
\* has used up its attempts.
FailedRunRetryable ==
    pc = "idle" /\ plan # NoPlan /\ status = "failed" =>
        \E t \in Tasks : MayRetry(t) \/ tries[t] = MaxAttempts

\* Tasks run after what they depend on, none waits for nothing, and a run that
\* failed leaves something that can be retried.
ScheduleSound == DependenciesFirst /\ PendingWaits /\ FailedRunRetryable

\* Plans for which ScheduleSound is proved: whatever a rejected review unwinds
\* depends on the task it sends back to work, so the cascade from that task
\* reaches it again.  A plan with two implementations before a review is none.
ReworkReaches(p) ==
    \A r \in Tasks : p.op[r] = "review" =>
        \A s \in ReworkSeeds(p, r) : \A a \in Ancestors(p, r) \ {s} : s \in Ancestors(p, a)

(***************************************************************************)
(* What a step may never do.                                               *)
(***************************************************************************)

\* An attempt is opened only after the task's previous one was closed, and one
\* number after it.
AttemptsInTurn ==
    [][\A t \in Tasks : tries'[t] # tries[t] =>
            tries'[t] = tries[t] + 1 /\ ~Live(attempt[t])]_vars

\* Recovery ends with nothing left running, no attempt open and no run in
\* progress, even if the server stopped during recovery too.
RecoveryLeavesNoOrphans ==
    [][(pc \in Recovering /\ pc' = "idle") =>
            (/\ \A t \in Tasks : task'[t] # "running" /\ ~Live(attempt'[t])
             /\ status' \notin {"planning", "active"})]_vars

\* Work that was approved is undone only by a review's request for changes.
CompletedUndoneByReview ==
    [][\A t \in Tasks : task[t] = "completed" /\ task'[t] # "completed" =>
            plan.op[cur] = "review" /\ t \in Ancestors(plan, cur)]_vars

\* Only a retry takes a cancelled run up again.
CancelledStays ==
    [][status = "cancelled" => status' = "cancelled" \/ pc = "activate"]_vars

(***************************************************************************)
(* Liveness.                                                               *)
(***************************************************************************)

\* The thread never waits forever for an agent.
AgentsEnd == []<>(~Waiting)

\* An operation whose agents all end comes to rest: automatic retries, rework and
\* manual retries are bounded.
OperationsEnd == AgentsEnd => (active # "none" ~> active = "none")

\* A cancelled operation comes to rest, even if its agent would run forever.
CancelEnds == cancel ~> active = "none"
=============================================================================
