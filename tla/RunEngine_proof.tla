--------------------------- MODULE RunEngine_proof ---------------------------
(***************************************************************************)
(* Theorems about the run engine, for every set of tasks, every set of     *)
(* acyclic plans, every bound on attempts and every choice of faults.      *)
(***************************************************************************)
EXTENDS RunEngine, SequenceTheorems, TLAPS

(***************************************************************************)
(* The inductive invariant.  The properties speak of what is stored; what  *)
(* makes them inductive is what the thread knows between two writes.       *)
(***************************************************************************)
Reconciling == pc \in {"recon", "reconWrite"}

\* The thread is inside mark_task: before its first write, and after it.
BeforeMark == pc = "mark"
AfterMark  == pc = "walk" \/ (Reconciling /\ recon.after = "walk")

\* The thread is about to unwind the ancestors of a rejected review.
Unwinding == pc = "unwind" \/ (Reconciling /\ recon.after = "unwind")

\* The labels at which the executor works on cur, which is not completed.
Working ==
    {"begin", "launch", "invoke", "doomed", "launchReview", "review",
     "doomedReview", "integrate", "again", "rework", "kick"}

\* The labels of an operation on a run that has a plan, and of planning.
Planned == Working \cup {"retry", "activate", "spawn", "loop", "pick",
    "cleanup", "mark", "walk", "recon", "reconWrite", "unwind"}
Planning == {"reserve", "plan", "launchPlanner", "planner", "doomedPlanner"}

AllDone == \A t \in Tasks : task[t] = "completed"

\* There is a plan wherever one is used.
PlanInv ==
    /\ pc \in Planned => plan # NoPlan
    /\ status \in {"planned", "blocked", "completed"} => plan # NoPlan
    /\ pc = "verdict" /\ verdict \notin {"failed", "cancelled"} => plan # NoPlan
    /\ status = "none" \/ pc \in Planning => plan = NoPlan
    /\ plan = NoPlan => \A t \in Tasks : task[t] = "pending"

\* The task being worked on, and the one being marked.
WorkInv ==
    /\ pc = "retry" => cur \in Tasks
    /\ pc \in Working \/ Unwinding => cur \in Tasks /\ task[cur] # "completed"
    /\ BeforeMark \/ AfterMark => mark.task \in Tasks
    /\ Reconciling => recon.after \in {"walk", "unwind"}
    /\ (BeforeMark \/ AfterMark) /\ mark.after \in Working =>
            mark.task = cur /\ mark.target # "completed"
    /\ (BeforeMark \/ AfterMark) =>
            mark.after \in {"begin", "launch", "again", "kick", "fail",
                            "activate", "loop", "cleanup"}
    /\ AfterMark => mark.task \in walk.visited /\ task[mark.task] = mark.target
    /\ BeforeMark => ~AllDone

\* An approval precedes the mark that relies on it.
ApprovalInv ==
    BeforeMark /\ mark.target = "completed" => attempt[mark.task] = "approved"

\* Only a review's request for changes takes a completed task back.
ReviewInv ==
    /\ (\/ pc \in {"rework", "kick"} \/ Unwinding
        \/ (BeforeMark \/ AfterMark) /\ mark.after = "kick")
       => plan.op[cur] = "review"
    /\ Unwinding => todo \subseteq Ancestors(plan, cur)
    /\ BeforeMark /\ task[mark.task] = "completed" /\ mark.target # "completed" =>
            plan.op[cur] = "review" /\ mark.task \in Ancestors(plan, cur)

\* Whoever is about to write "completed" has seen every task completed.
VerdictInv ==
    /\ \A t \in Tasks : task[t] # "superseded"
    /\ BeforeMark => mark.target # "superseded"
    /\ pc = "reconWrite" /\ recon.status = "completed" => AllDone
    /\ pc = "verdict" /\ verdict = "completed" => AllDone

IInv ==
    /\ PlanInv /\ WorkInv /\ ApprovalInv /\ ReviewInv /\ VerdictInv
    /\ CompletedTaskApproved
    /\ CompletedRunDone

-----------------------------------------------------------------------------
(***************************************************************************)
(* What the pure functions of the task graph return.                       *)
(***************************************************************************)

\* The state derived for a dependent (next_state_for_dependent) is a task
\* state, and is never one that claims the dependent's own work is done.
LEMMA NextStateType ==
    ASSUME NEW S
    PROVE  NextStateForDependent(S) \in {"pending", "ready", "blocked"}
BY DEF NextStateForDependent

\* The status derived from the tasks (from_tasks) is a run status, and is
\* "completed" only if no task is in another state than completed or superseded.
LEMMA FromTasksType ==
    ASSUME NEW S
    PROVE  /\ FromTasks(S) \in RunStatuses
           /\ FromTasks(S) = "completed" => S \subseteq {"completed", "superseded"}
BY DEF FromTasks, RunStatuses

\* The status in which the executor leaves a run with nothing ready is
\* "completed" only if every task is.
LEMMA RestingVerdictType ==
    ASSUME NEW S
    PROVE  /\ RestingVerdict(S) \in {"completed", "failed", "blocked"}
           /\ RestingVerdict(S) = "completed" => S \subseteq {"completed"}
BY DEF RestingVerdict

\* A plan starts with its tasks pending or ready.
LEMMA InitialStateType ==
    ASSUME NEW D
    PROVE  InitialState(D) \in {"pending", "ready"}
BY DEF InitialState

-----------------------------------------------------------------------------
(***************************************************************************)
(* Type correctness.                                                       *)
(***************************************************************************)

\* The names the actions use are labels, states and statuses: cited in place
\* of the enumerations themselves, which the steps below leave folded.
LEMMA Names ==
    /\ "idle" \in Labels /\ "reserve" \in Labels /\ "plan" \in Labels
    /\ "launchPlanner" \in Labels /\ "planner" \in Labels
    /\ "doomedPlanner" \in Labels /\ "start" \in Labels
    /\ "retry" \in Labels /\ "activate" \in Labels /\ "spawn" \in Labels
    /\ "loop" \in Labels /\ "pick" \in Labels /\ "begin" \in Labels
    /\ "launch" \in Labels /\ "invoke" \in Labels /\ "doomed" \in Labels
    /\ "again" \in Labels /\ "launchReview" \in Labels
    /\ "review" \in Labels /\ "doomedReview" \in Labels
    /\ "integrate" \in Labels /\ "cleanup" \in Labels /\ "rework" \in Labels
    /\ "unwind" \in Labels /\ "kick" \in Labels /\ "mark" \in Labels
    /\ "walk" \in Labels /\ "recon" \in Labels /\ "reconWrite" \in Labels
    /\ "fail" \in Labels /\ "verdict" \in Labels /\ "release" \in Labels
    /\ "down" \in Labels /\ "recoverAttempts" \in Labels
    /\ "recoverTasks" \in Labels /\ "recoverRuns" \in Labels
    /\ "pending" \in TaskStates /\ "ready" \in TaskStates
    /\ "running" \in TaskStates /\ "failed" \in TaskStates
    /\ "blocked" \in TaskStates /\ "completed" \in TaskStates
    /\ "awaiting_integration" \in TaskStates
    /\ "planning" \in RunStatuses /\ "planned" \in RunStatuses
    /\ "active" \in RunStatuses /\ "blocked" \in RunStatuses
    /\ "completed" \in RunStatuses /\ "failed" \in RunStatuses
    /\ "cancelled" \in RunStatuses
    /\ "running" \in AttemptStatuses /\ "reviewing" \in AttemptStatuses
    /\ "approved" \in AttemptStatuses /\ "over" \in AttemptStatuses
    /\ "none" \in AttemptStatuses
BY DEF Labels, TaskStates, RunStatuses, AttemptStatuses

LEMMA TypeInit == Init => TypeOK
<1> SUFFICES ASSUME Init PROVE TypeOK
    OBVIOUS
<1> USE EngineAssumption, Names DEF Init
<1>1. /\ plan \in Plans \cup {NoPlan}
      /\ status \in RunStatuses \cup {"none"}
      /\ task \in [Tasks -> TaskStates]
    OBVIOUS
<1>1a. tries \in [Tasks -> 0 .. MaxAttempts]
    OBVIOUS
<1>2. attempt \in [Tasks -> AttemptStatuses]
    OBVIOUS
<1>3. pc \in Labels
    OBVIOUS
<1>4. mark \in [task : Tasks \cup {NoTask}, target : TaskStates, after : Labels]
    BY DEF NoMark
<1>5. walk \in [top : Tasks \cup {NoTask}, frontier : Seq(Tasks),
                 visited : SUBSET (Tasks \cup {NoTask})]
    BY DEF NoWalk
<1>6. recon \in [status : RunStatuses, after : Labels]
    BY DEF NoRecon
<1> QED BY <1>1, <1>1a, <1>2, <1>3, <1>4, <1>5, <1>6 DEF TypeOK

LEMMA TypeNext == TypeOK /\ [Next]_vars => TypeOK'
<1> SUFFICES ASSUME TypeOK, [Next]_vars PROVE TypeOK'
    OBVIOUS
<1> USE Names DEF TypeOK, database, thread
<1>0. ASSUME ForgetThread
      PROVE  /\ cur' \in Tasks \cup {NoTask} /\ verdict' \in RunStatuses
             /\ todo' \in SUBSET Tasks
             /\ mark' \in [task : Tasks \cup {NoTask}, target : TaskStates,
                          after : Labels]
             /\ walk' \in [top : Tasks \cup {NoTask}, frontier : Seq(Tasks),
                          visited : SUBSET (Tasks \cup {NoTask})]
             /\ recon' \in [status : RunStatuses, after : Labels]
  <2>1. cur' = NoTask /\ verdict' = "failed" /\ todo' = {}
      BY <1>0 DEF ForgetThread
  <2>2. mark' \in [task : Tasks \cup {NoTask}, target : TaskStates, after : Labels]
      BY <1>0 DEF ForgetThread, NoMark
  <2>3. walk' \in [top : Tasks \cup {NoTask}, frontier : Seq(Tasks),
                   visited : SUBSET (Tasks \cup {NoTask})]
      BY <1>0, EmptySeq DEF ForgetThread, NoWalk
  <2>4. recon' \in [status : RunStatuses, after : Labels]
      BY <1>0 DEF ForgetThread, NoRecon
  <2> QED BY <2>1, <2>2, <2>3, <2>4
<1>1. CASE MarkUpdate
  <2>1. OnError \in Labels
      BY DEF OnError
  <2>2. ASSUME CanTransition(task[mark.task], mark.target) PROVE TypeOK'
    <3>1. task' \in [Tasks -> TaskStates]
        BY <1>1, <2>2 DEF MarkUpdate
    <3>2. pc' = "recon" /\ recon' \in [status : RunStatuses, after : Labels]
        BY <1>1, <2>2 DEF MarkUpdate, Reconcile, NoRecon
    <3>3. walk' \in [top : Tasks \cup {NoTask}, frontier : Seq(Tasks),
                     visited : SUBSET (Tasks \cup {NoTask})]
      <4>1. mark.task \in Tasks \cup {NoTask}
          OBVIOUS
      <4>2. walk' = [top |-> mark.task, frontier |-> <<>>, visited |-> {mark.task}]
          BY <1>1, <2>2 DEF MarkUpdate
      <4> QED BY <4>1, <4>2, EmptySeq
    <3> QED
        BY <1>1, <2>2, <3>1, <3>2, <3>3 DEF MarkUpdate
  <2>3. ASSUME ~CanTransition(task[mark.task], mark.target) PROVE TypeOK'
      BY <1>1, <2>1, <2>3 DEF MarkUpdate, NoMark, NoTask
  <2> QED BY <2>2, <2>3
<1>2. CASE ReconcileRead
    BY <1>2, FromTasksType DEF ReconcileRead, NoRecon
<1>3. CASE ReconcileWrite
    BY <1>3 DEF ReconcileWrite, NoRecon
<1>4. CASE WalkVisit
  <2>1. PICK d \in Tasks :
          LET next == NextStateForDependent({task[u] : u \in plan.deps[d]})
          IN  /\ walk' = [top |-> walk.top,
                          frontier |-> IF KeepsState(d) THEN walk.frontier
                                       ELSE <<d>> \o walk.frontier,
                          visited |-> walk.visited \cup {d}]
              /\ IF KeepsState(d) \/ task[d] = next
                 THEN UNCHANGED <<task, pc, recon>>
                 ELSE /\ task' = [task EXCEPT ![d] = next]
                      /\ Reconcile("walk")
      BY <1>4 DEF WalkVisit, Unvisited, Dependents
  <2>2. <<d>> \o walk.frontier \in Seq(Tasks)
      BY ConcatProperties
  <2>3. walk' \in [top : Tasks \cup {NoTask}, frontier : Seq(Tasks),
                   visited : SUBSET (Tasks \cup {NoTask})]
      BY <2>1, <2>2
  <2>4. task' \in [Tasks -> TaskStates]
    <3> DEFINE next == NextStateForDependent({task[u] : u \in plan.deps[d]})
    <3>1. next \in TaskStates
        BY NextStateType
    <3>2. task' = task \/ task' = [task EXCEPT ![d] = next]
        BY <2>1
    <3> HIDE DEF next
    <3> QED BY <3>1, <3>2
  <2>5. pc' \in Labels /\ recon' \in [status : RunStatuses, after : Labels]
      BY <2>1 DEF Reconcile, NoRecon
  <2> QED BY <1>4, <2>3, <2>4, <2>5 DEF WalkVisit
<1>5. CASE WalkDescend
  <2>1. Head(walk.frontier) \in Tasks /\ Tail(walk.frontier) \in Seq(Tasks)
      BY <1>5, HeadTailProperties DEF WalkDescend
  <2> QED BY <1>5, <2>1 DEF WalkDescend
<1>6. CASE MarkReturn
    BY <1>6 DEF MarkReturn, NoMark, NoWalk, NoTask
<1>7. CASE BeginRun
    BY <1>7 DEF BeginRun
<1>8. CASE ReservePlanning
    BY <1>8 DEF ReservePlanning, Reserve
<1>9. CASE PlanRun
    BY <1>9 DEF PlanRun, Goto
<1>10. CASE PersistPlan
  <2>1. PICK p \in Plans : plan' = p /\ task' = [t \in Tasks |-> InitialState(p.deps[t])]
      BY <1>10 DEF PersistPlan
  <2>2. task' \in [Tasks -> TaskStates]
      BY <2>1, InitialStateType
  <2> QED BY <1>10, <2>1, <2>2 DEF PersistPlan
<1>11. CASE PlannerFails
    BY <1>11 DEF PlannerFails, Goto
<1>12. CASE StartWorkflow
    BY <1>12 DEF StartWorkflow, Reserve
<1>13. CASE PrepareStart
    BY <1>13 DEF PrepareStart, Goto
<1>14. CASE PolicyBlocks
    BY <1>14 DEF PolicyBlocks, PolicyStatus
<1>15. CASE Activate
    BY <1>15 DEF Activate
<1>16. CASE RetryTask
    BY <1>16 DEF RetryTask, Reserve
<1>17. CASE PrepareRetry
    BY <1>17 DEF PrepareRetry, StartMark, Goto
<1>18. CASE SpawnExecution
    BY <1>18 DEF SpawnExecution, Goto
<1>19. CASE CheckCancel
    BY <1>19 DEF CheckCancel
<1>20. CASE PickTask
    BY <1>20 DEF PickTask, ReadyTasks
<1>21. CASE NothingReady
  <2>1. RestingVerdict({task[t] : t \in Tasks}) \in RunStatuses
      BY DEF RestingVerdict
  <2> QED BY <1>21, <2>1 DEF NothingReady
<1>22. CASE BeginAttempt
  <2>1. tries' \in [Tasks -> 0 .. MaxAttempts]
    <3>1. tries' = [tries EXCEPT ![cur] = tries[cur] + 1]
          /\ tries[cur] < MaxAttempts
        BY <1>22 DEF BeginAttempt, NextAttempt, AttemptsLeft
    <3>2. ASSUME cur \in Tasks PROVE tries[cur] + 1 \in 0 .. MaxAttempts
        BY <3>1, <3>2, EngineAssumption
    <3> QED BY <3>1, <3>2
  <2>2. attempt' \in [Tasks -> AttemptStatuses]
      BY <1>22 DEF BeginAttempt
  <2> QED BY <1>22, <2>1, <2>2 DEF BeginAttempt, StartMark
<1>23. CASE AttemptsExhausted
    BY <1>23 DEF AttemptsExhausted, Goto
<1>24. CASE TryAgain
    BY <1>24 DEF TryAgain, StartMark
<1>25. CASE Launch
    BY <1>25 DEF Launch, Goto
<1>26. CASE AgentCancelled
    BY <1>26 DEF AgentCancelled, Settle, StartMark
<1>27. CASE AgentFails
    BY <1>27 DEF AgentFails, Settle, StartMark
<1>28. CASE AgentAborts
    BY <1>28 DEF AgentAborts, Settle, StartMark
<1>29. CASE ProducerSucceeds
    BY <1>29 DEF ProducerSucceeds
<1>30. CASE AdvisorySucceeds
    BY <1>30 DEF AdvisorySucceeds, Settle, StartMark
<1>31. CASE ReviewerApproves
    BY <1>31 DEF ReviewerApproves, Goto
<1>32. CASE ReviewerRequestsChanges
    BY <1>32 DEF ReviewerRequestsChanges, Settle, StartMark
<1>33. CASE Integrate
    BY <1>33 DEF Integrate, Settle, StartMark
<1>34. CASE ReviewTaskApproves
    BY <1>34 DEF ReviewTaskApproves, Settle, StartMark
<1>35. CASE ReviewTaskRequestsChanges
    BY <1>35 DEF ReviewTaskRequestsChanges
<1>36. CASE StartRework
    BY <1>36 DEF StartRework, Ancestors
<1>37. CASE NoRework
    BY <1>37 DEF NoRework, StartMark
<1>38. CASE Unwind
    BY <1>38 DEF Unwind, Reconcile, NoRecon
<1>39. CASE BlockReview
    BY <1>39 DEF BlockReview, StartMark
<1>40. CASE KickSeed
  <2>1. PICK s \in Tasks : StartMark(s, "ready", "loop")
      BY <1>40 DEF KickSeed, ReworkSeeds, Ancestors
  <2> QED BY <1>40, <2>1 DEF KickSeed, StartMark
<1>41. CASE CleanUp
    BY <1>41 DEF CleanUp, Goto
<1>42. CASE DecideVerdict
    BY <1>42 DEF DecideVerdict
<1>43. CASE WriteVerdict
    BY <1>43 DEF WriteVerdict
<1>44. CASE Release
    BY <1>44, <1>0 DEF Release
<1>45. CASE ErrorEscapes
    BY <1>45 DEF ErrorEscapes, OnError, NoMark, NoWalk, NoRecon, NoTask
<1>46. CASE VerdictLost \/ OpenFails
    BY <1>46 DEF VerdictLost, OpenFails, Goto
<1>47. CASE CancelWorkflow \/ CancelRun
    BY <1>47 DEF CancelWorkflow, CancelRun, CancelStore, CancelRead, CancelWrite,
           CancelLost
<1>48. CASE Crash
    BY <1>48, <1>0 DEF Crash
<1>49. CASE Restart
    BY <1>49 DEF Restart, Goto
<1>50. CASE RecoverAttempts
    BY <1>50 DEF RecoverAttempts
<1>51. CASE RecoverTasks
    BY <1>51 DEF RecoverTasks
<1>52. CASE RecoverRuns
    BY <1>52 DEF RecoverRuns
<1>53. CASE UNCHANGED vars
    BY <1>53 DEF vars
<1> QED
    BY <1>1, <1>2, <1>3, <1>4, <1>5, <1>6, <1>7, <1>8, <1>9, <1>10, <1>11,
       <1>12, <1>13, <1>14, <1>15, <1>16, <1>17, <1>18, <1>19, <1>20, <1>21,
       <1>22, <1>23, <1>24, <1>25, <1>26, <1>27, <1>28, <1>29, <1>30, <1>31,
       <1>32, <1>33, <1>34, <1>35, <1>36, <1>37, <1>38, <1>39, <1>40, <1>41,
       <1>42, <1>43, <1>44, <1>45, <1>46, <1>47, <1>48, <1>49, <1>50, <1>51,
       <1>52, <1>53
    DEF Next, Prepare, Execute, MarkTask, AgentStep, CancelRun, Recover

\* Every variable keeps its type, the numbers of attempts their bound.
THEOREM TypeCorrect == Spec => []TypeOK
BY TypeInit, TypeNext, PTL DEF Spec

-----------------------------------------------------------------------------
(***************************************************************************)
(* The inductive invariant holds.                                          *)
(***************************************************************************)
LEMMA IInvInit == Init => IInv
BY DEF Init, IInv, PlanInv, WorkInv, ApprovalInv, ReviewInv, VerdictInv,
       CompletedTaskApproved, CompletedRunDone, Reconciling, BeforeMark,
       AfterMark, Unwinding, Working, Planned, Planning

LEMMA IInvNext == TypeOK /\ TypeOK' /\ IInv /\ [Next]_vars => IInv'
<1> SUFFICES ASSUME TypeOK, TypeOK', IInv, [Next]_vars PROVE IInv'
    OBVIOUS
<1> USE EngineAssumption DEF TypeOK, database, thread, IInv, PlanInv, WorkInv,
        ApprovalInv, ReviewInv, VerdictInv, CompletedTaskApproved,
        CompletedRunDone, AllDone, Reconciling, BeforeMark, AfterMark,
        Unwinding, Working, Planned, Planning
<1>1. CASE MarkUpdate
    BY <1>1 DEF MarkUpdate, Reconcile, OnError, NoMark, CanTransition
<1>2. CASE ReconcileRead
  <2> DEFINE derived == FromTasks({task[t] : t \in Tasks})
  <2>1. derived = "completed" => AllDone
    <3> DEFINE states == {task[t] : t \in Tasks}
    <3>1. \A t \in Tasks : task[t] \in states
        OBVIOUS
    <3> HIDE DEF states
    <3>2. FromTasks(states) = "completed" => states \subseteq {"completed", "superseded"}
        BY FromTasksType
    <3> QED BY <3>1, <3>2 DEF states
  <2> HIDE DEF derived
  <2>2. /\ pc = "recon" /\ UNCHANGED <<plan, status, task, attempt, cur, verdict,
                                       todo, mark, walk>>
        /\ \/ pc' = recon.after
           \/ pc' = "reconWrite" /\ recon' = [status |-> derived, after |-> recon.after]
      BY <1>2 DEF ReconcileRead, derived
  <2> QED BY <2>1, <2>2
<1>3. CASE ReconcileWrite
    BY <1>3 DEF ReconcileWrite, NoRecon, RunStatuses
<1>4. CASE WalkVisit
  <2>1. PICK d \in Unvisited :
          LET next == NextStateForDependent({task[u] : u \in plan.deps[d]})
          IN  IF KeepsState(d) \/ task[d] = next
              THEN UNCHANGED <<task, pc, recon>>
              ELSE task' = [task EXCEPT ![d] = next] /\ Reconcile("walk")
      BY <1>4 DEF WalkVisit
  <2> DEFINE next == NextStateForDependent({task[u] : u \in plan.deps[d]})
  <2>2. d # mark.task /\ next \in {"pending", "ready", "blocked"}
      BY <1>4, <2>1, NextStateType DEF Unvisited, WalkVisit
  <2>3. \/ UNCHANGED <<task, pc, recon>>
        \/ /\ task[d] # "completed"
           /\ task' = [task EXCEPT ![d] = next] /\ Reconcile("walk")
      BY <2>1 DEF KeepsState
  <2> HIDE DEF next
  <2>4. mark.task \in walk'.visited
      BY <1>4 DEF WalkVisit
  <2>5. pc = "walk" /\ UNCHANGED <<plan, status, attempt, cur, verdict, todo, mark>>
      BY <1>4 DEF WalkVisit
  <2>6. CASE UNCHANGED <<task, pc, recon>>
      BY <2>4, <2>5, <2>6
  <2>7. CASE /\ task[d] # "completed"
             /\ task' = [task EXCEPT ![d] = next] /\ Reconcile("walk")
    <3>1. /\ task[mark.task] = mark.target /\ task'[mark.task] = mark.target
          /\ \A t \in Tasks : task'[t] = "completed" <=> task[t] = "completed"
          /\ \A t \in Tasks : task'[t] # "superseded"
        BY <2>2, <2>5, <2>7
    <3>2. pc' = "recon" /\ recon'.after = "walk"
        BY <2>7 DEF Reconcile
    <3> QED BY <2>4, <2>5, <3>1, <3>2
  <2> QED BY <2>3, <2>6, <2>7
<1>5. CASE WalkDescend
    BY <1>5 DEF WalkDescend
<1>6. CASE MarkReturn
    BY <1>6 DEF MarkReturn, NoMark
<1>7. CASE BeginRun
    BY <1>7 DEF BeginRun
<1>8. CASE ReservePlanning
    BY <1>8 DEF ReservePlanning, Reserve
<1>9. CASE PlanRun
    BY <1>9 DEF PlanRun, Goto
<1>10. CASE PersistPlan
  <2>1. \A t \in Tasks : task'[t] \in {"pending", "ready"}
      BY <1>10, InitialStateType DEF PersistPlan
  <2> QED BY <1>10, <2>1 DEF PersistPlan
<1>11. CASE PlannerFails
    BY <1>11 DEF PlannerFails, Goto
<1>12. CASE StartWorkflow
    BY <1>12 DEF StartWorkflow, Reserve
<1>13. CASE PrepareStart
    BY <1>13 DEF PrepareStart, Goto
<1>14. CASE PolicyBlocks
    BY <1>14 DEF PolicyBlocks, PolicyStatus
<1>15. CASE Activate
    BY <1>15 DEF Activate
<1>16. CASE RetryTask
    BY <1>16 DEF RetryTask, Reserve
<1>17. CASE PrepareRetry
    BY <1>17 DEF PrepareRetry, StartMark, Goto, MayRetry
<1>18. CASE SpawnExecution
    BY <1>18 DEF SpawnExecution, Goto
<1>19. CASE CheckCancel
    BY <1>19 DEF CheckCancel
<1>20. CASE PickTask
    BY <1>20 DEF PickTask, ReadyTasks
<1>21. CASE NothingReady
  <2> DEFINE resting == RestingVerdict({task[t] : t \in Tasks})
  <2>1. resting = "completed" => AllDone
    <3> DEFINE states == {task[t] : t \in Tasks}
    <3>1. \A t \in Tasks : task[t] \in states
        OBVIOUS
    <3> HIDE DEF states
    <3>2. RestingVerdict(states) = "completed" => states \subseteq {"completed"}
        BY RestingVerdictType
    <3> QED BY <3>1, <3>2 DEF states
  <2> HIDE DEF resting
  <2> QED BY <1>21, <2>1 DEF NothingReady, resting
<1>22. CASE BeginAttempt
    BY <1>22 DEF BeginAttempt, StartMark, NextAttempt
<1>23. CASE AttemptsExhausted
    BY <1>23 DEF AttemptsExhausted, Goto
<1>24. CASE TryAgain
    BY <1>24 DEF TryAgain, StartMark
<1>25. CASE Launch
    BY <1>25 DEF Launch, Goto
<1>26. CASE AgentCancelled
    BY <1>26 DEF AgentCancelled, Killable, Settle, StartMark
<1>27. CASE AgentFails
    BY <1>27 DEF AgentFails, Settle, StartMark
<1>28. CASE AgentAborts
    BY <1>28 DEF AgentAborts, Settle, StartMark
<1>29. CASE ProducerSucceeds
    BY <1>29 DEF ProducerSucceeds
<1>30. CASE AdvisorySucceeds
    BY <1>30 DEF AdvisorySucceeds, Settle, StartMark
<1>31. CASE ReviewerApproves
    BY <1>31 DEF ReviewerApproves, Goto
<1>32. CASE ReviewerRequestsChanges
    BY <1>32 DEF ReviewerRequestsChanges, Settle, StartMark
<1>33. CASE Integrate
    BY <1>33 DEF Integrate, Settle, StartMark
<1>34. CASE ReviewTaskApproves
    BY <1>34 DEF ReviewTaskApproves, Settle, StartMark
<1>35. CASE ReviewTaskRequestsChanges
    BY <1>35 DEF ReviewTaskRequestsChanges
<1>36. CASE StartRework
    BY <1>36 DEF StartRework
<1>37. CASE NoRework
    BY <1>37 DEF NoRework, StartMark
<1>38. CASE Unwind
    BY <1>38 DEF Unwind, Reconcile
<1>39. CASE BlockReview
    BY <1>39 DEF BlockReview, StartMark
<1>40. CASE KickSeed
  <2>1. PICK s \in Ancestors(plan, cur) : StartMark(s, "ready", "loop")
      BY <1>40 DEF KickSeed, ReworkSeeds
  <2>2. s \in Tasks
      BY DEF Ancestors
  <2> QED BY <1>40, <2>1, <2>2 DEF KickSeed, StartMark
<1>41. CASE CleanUp
    BY <1>41 DEF CleanUp, Goto
<1>42. CASE DecideVerdict
    BY <1>42 DEF DecideVerdict
<1>43. CASE WriteVerdict
    BY <1>43 DEF WriteVerdict, RunStatuses
<1>44. CASE Release
    BY <1>44 DEF Release, ForgetThread, NoMark, NoRecon
<1>45. CASE ErrorEscapes
    BY <1>45 DEF ErrorEscapes, OnError, Fallible, NoMark, NoRecon
<1>46. CASE VerdictLost \/ OpenFails
    BY <1>46 DEF VerdictLost, OpenFails, Goto
<1>47. CASE CancelWorkflow \/ CancelRun
    BY <1>47 DEF CancelWorkflow, CancelRun, CancelStore, CancelRead, CancelWrite, CancelLost
<1>48. CASE Crash
    BY <1>48 DEF Crash, ForgetThread, NoMark, NoRecon
<1>49. CASE Restart
    BY <1>49 DEF Restart, Goto
<1>50. CASE RecoverAttempts
    BY <1>50 DEF RecoverAttempts, Interruptible
<1>51. CASE RecoverTasks
    BY <1>51 DEF RecoverTasks
<1>52. CASE RecoverRuns
    BY <1>52 DEF RecoverRuns
<1>53. CASE UNCHANGED vars
    BY <1>53 DEF vars
<1> QED
    BY <1>1, <1>2, <1>3, <1>4, <1>5, <1>6, <1>7, <1>8, <1>9, <1>10,
       <1>11, <1>12, <1>13, <1>14, <1>15, <1>16, <1>17, <1>18, <1>19,
       <1>20, <1>21, <1>22, <1>23, <1>24, <1>25, <1>26, <1>27, <1>28,
       <1>29, <1>30, <1>31, <1>32, <1>33, <1>34, <1>35, <1>36, <1>37,
       <1>38, <1>39, <1>40, <1>41, <1>42, <1>43, <1>44, <1>45, <1>46,
       <1>47, <1>48, <1>49, <1>50, <1>51, <1>52, <1>53
    DEF Next, Prepare, Execute, MarkTask, AgentStep, Recover

LEMMA IInvAlways == Spec => [](TypeOK /\ IInv)
<1>1. Init => TypeOK /\ IInv
    BY TypeInit, IInvInit
<1>2. TypeOK /\ IInv /\ [Next]_vars => (TypeOK /\ IInv)'
    BY TypeNext, IInvNext
<1> QED BY <1>1, <1>2, PTL DEF Spec

-----------------------------------------------------------------------------
(***************************************************************************)
(* What follows from it.                                                   *)
(***************************************************************************)

\* A completed task's latest attempt is an approved one, whatever fails and
\* wherever the server stops between finish_task_attempt and mark_task.
THEOREM CompletedTasksApproved == Spec => []CompletedTaskApproved
<1>1. TypeOK /\ IInv => CompletedTaskApproved
    BY DEF IInv
<1> QED BY <1>1, IInvAlways, PTL

\* A run that reads completed has completed every task: neither the executor's
\* verdict nor reconcile_run's later write can be about an older state.
THEOREM CompletedRunsDone == Spec => []CompletedRunDone
<1>1. TypeOK /\ IInv => CompletedRunDone
    BY DEF IInv
<1> QED BY <1>1, IInvAlways, PTL

\* The invariants of the engine together: types, completed tasks, completed runs.
THEOREM EngineIsSound == Spec => []EngineSound
<1>1. TypeOK /\ CompletedTaskApproved /\ CompletedRunDone => EngineSound
    BY DEF EngineSound
<1> QED BY <1>1, TypeCorrect, CompletedTasksApproved, CompletedRunsDone, PTL

\* Only rework_after_review, for an ancestor of the review task, takes a
\* completed task back.
THEOREM UndoneOnlyByReview == Spec => CompletedUndoneByReview
<1>1. TypeOK /\ IInv /\ [Next]_vars =>
        [\A t \in Tasks : task[t] = "completed" /\ task'[t] # "completed" =>
            plan.op[cur] = "review" /\ t \in Ancestors(plan, cur)]_vars
  <2> SUFFICES ASSUME TypeOK, IInv, Next, NEW t \in Tasks,
                      task[t] = "completed", task'[t] # "completed"
               PROVE  plan.op[cur] = "review" /\ t \in Ancestors(plan, cur)
      OBVIOUS
  <2> USE DEF TypeOK, database, thread
  <2>1. CASE MarkUpdate
    <3>1. t = mark.task /\ mark.target # "completed" /\ pc = "mark"
        BY <2>1 DEF MarkUpdate
    <3> QED BY <3>1 DEF IInv, ReviewInv, BeforeMark
  <2>2. CASE Unwind
    <3>1. t \in todo /\ Unwinding
        BY <2>2 DEF Unwind, Unwinding
    <3> QED BY <3>1 DEF IInv, ReviewInv
  <2>3. CASE WalkVisit
      BY <2>3 DEF WalkVisit, KeepsState
  <2>4. CASE PersistPlan
      BY <2>4 DEF PersistPlan, IInv, PlanInv, Planning
  <2>5. CASE RecoverTasks
      BY <2>5 DEF RecoverTasks
  <2> QED
      BY <2>1, <2>2, <2>3, <2>4, <2>5
      DEF Next, Prepare, Execute, MarkTask, AgentStep, CancelRun, Recover,
          ReconcileRead, ReconcileWrite, WalkDescend, MarkReturn, BeginRun,
          ReservePlanning, PlanRun, PlannerFails, StartWorkflow, PrepareStart,
          PolicyBlocks, Activate, RetryTask, PrepareRetry, SpawnExecution,
          CheckCancel, PickTask, NothingReady, BeginAttempt,
          AttemptsExhausted, TryAgain, Launch, AgentCancelled, AgentFails,
          AgentAborts, ProducerSucceeds, AdvisorySucceeds, ReviewerApproves,
          ReviewerRequestsChanges, Integrate, ReviewTaskApproves,
          ReviewTaskRequestsChanges, StartRework, NoRework, BlockReview,
          KickSeed, CleanUp, DecideVerdict, WriteVerdict, Release,
          ErrorEscapes, VerdictLost, OpenFails, CancelWorkflow, CancelStore,
          CancelRead, CancelWrite, CancelLost, Crash, Restart, RecoverAttempts,
          RecoverRuns, Goto, Settle
<1> QED BY <1>1, IInvAlways, PTL DEF Spec, CompletedUndoneByReview

-----------------------------------------------------------------------------
(***************************************************************************)
(* Recovery.  What each of its statements leaves for the next, which holds *)
(* across another stop because recovery then starts over.                  *)
(***************************************************************************)
RecoverInv ==
    /\ pc \in {"recoverTasks", "recoverRuns"} => \A t \in Tasks : ~Live(attempt[t])
    /\ pc = "recoverRuns" => \A t \in Tasks : task[t] # "running"

LEMMA RecoverNext == TypeOK /\ IInv /\ RecoverInv /\ [Next]_vars => RecoverInv'
<1> SUFFICES ASSUME TypeOK, IInv, RecoverInv, [Next]_vars PROVE RecoverInv'
    OBVIOUS
<1> USE DEF TypeOK, database, thread, RecoverInv, Live
<1>1. CASE RecoverAttempts
    BY <1>1 DEF RecoverAttempts, Interruptible
<1>2. CASE RecoverTasks
    BY <1>2 DEF RecoverTasks
<1>3. CASE \/ RecoverRuns \/ Restart \/ Crash \/ ErrorEscapes \/ UNCHANGED vars
    BY <1>3 DEF RecoverRuns, Restart, Crash, OnError, ErrorEscapes, Goto, vars
<1>6. CASE MarkTask
  <2>1. pc' \notin {"recoverTasks", "recoverRuns"}
      BY <1>6
      DEF MarkTask, MarkUpdate, OnError, Reconcile, ReconcileRead,
          ReconcileWrite, WalkVisit, WalkDescend, MarkReturn, IInv, WorkInv,
          Reconciling, BeforeMark, AfterMark
  <2> QED BY <2>1
<1>4. CASE Execute \/ AgentStep \/ AgentCancelled
    BY <1>4
    DEF Execute, AgentStep, SpawnExecution, CheckCancel, PickTask,
        NothingReady, BeginAttempt, AttemptsExhausted, TryAgain, Launch,
        Integrate, StartRework, NoRework, Unwind, BlockReview, KickSeed,
        CleanUp, DecideVerdict, WriteVerdict, Release, AgentFails,
        AgentAborts, ProducerSucceeds, AdvisorySucceeds, ReviewerApproves,
        ReviewerRequestsChanges, ReviewTaskApproves,
        ReviewTaskRequestsChanges, PersistPlan, PlannerFails, AgentCancelled,
        Killable, Goto, StartMark, Settle, Reconcile
<1>5. CASE \/ BeginRun \/ Prepare \/ StartWorkflow \/ RetryTask
           \/ VerdictLost \/ OpenFails \/ CancelWorkflow \/ CancelRun
    BY <1>5
    DEF BeginRun, Prepare, ReservePlanning, PlanRun, PrepareStart,
        PolicyBlocks, Activate, PrepareRetry, StartWorkflow, RetryTask,
        VerdictLost, OpenFails, CancelWorkflow, CancelRun, CancelStore,
        CancelRead, CancelWrite, CancelLost, Goto, StartMark
<1> QED
    BY <1>1, <1>2, <1>3, <1>4, <1>5, <1>6 DEF Next, Recover

\* Whatever the server was doing when it stopped, and however often it stops
\* again while it recovers, recovery ends with every attempt closed, no task
\* running and no run in progress.
THEOREM RecoverySettles == Spec => RecoveryLeavesNoOrphans
<1>1. Init => RecoverInv
    BY DEF Init, RecoverInv
<1>2. TypeOK /\ RecoverInv /\ [Next]_vars =>
        [(pc \in Recovering /\ pc' = "idle") =>
            (/\ \A t \in Tasks : task'[t] # "running" /\ ~Live(attempt'[t])
             /\ status' \notin {"planning", "active"})]_vars
  <2> SUFFICES ASSUME TypeOK, RecoverInv, Next, pc \in Recovering, pc' = "idle"
               PROVE  /\ \A t \in Tasks : task'[t] # "running" /\ ~Live(attempt'[t])
                      /\ status' \notin {"planning", "active"}
      OBVIOUS
  <2>1. RecoverRuns
      BY DEF Next, BeginRun, Prepare, StartWorkflow, RetryTask, Execute,
          MarkTask, AgentStep, AgentCancelled, ErrorEscapes, VerdictLost,
          OpenFails, CancelWorkflow, CancelRun, Crash, Recover, Recovering,
          MarkUpdate, ReconcileRead, ReconcileWrite, WalkVisit, WalkDescend,
          MarkReturn, ReservePlanning, PlanRun, PrepareStart, PolicyBlocks,
          Activate, PrepareRetry, SpawnExecution, CheckCancel, PickTask,
          NothingReady, BeginAttempt, AttemptsExhausted, TryAgain, Launch,
          Integrate, StartRework, NoRework, Unwind, BlockReview, KickSeed,
          CleanUp, DecideVerdict, WriteVerdict, Release, AgentFails,
          AgentAborts, ProducerSucceeds, AdvisorySucceeds, ReviewerApproves,
          ReviewerRequestsChanges, ReviewTaskApproves,
          ReviewTaskRequestsChanges, PersistPlan, PlannerFails, Killable,
          Fallible, CancelStore, CancelRead, CancelWrite, CancelLost, Restart,
          RecoverAttempts, RecoverTasks, Goto, thread
  <2> QED BY <2>1 DEF RecoverRuns, RecoverInv, Live
<1> QED
    BY <1>1, <1>2, RecoverNext, IInvAlways, PTL DEF Spec, RecoveryLeavesNoOrphans

-----------------------------------------------------------------------------
(***************************************************************************)
(* Theorems about a run whose operations fail only as the executor         *)
(* provides for: agents fail, are cancelled and are asked for changes, the *)
(* server stops and recovers, users cancel and retry, but no error of      *)
(* SQLite, Git or routing leaves the executor through `?`.  (With those    *)
(* errors the properties below are not true: an attempt and its task may   *)
(* stay running until the server restarts.)                                *)
(***************************************************************************)

\* The executor has a task in hand, which is marked running.
Busy == {"launch", "invoke", "doomed", "launchReview", "review",
         "doomedReview", "integrate", "rework"}

\* The marks the engine makes: where each continues, and the state it sets.
Target(after) ==
    CASE after = "launch"             -> "running"
      [] after \in {"again", "fail"}  -> "failed"
      [] after = "cleanup"            -> "completed"
      [] after = "kick"               -> "blocked"
      [] OTHER                        -> "ready"

\* The marks that end a task's execution, those that begin it, and those that
\* set some task ready while none is executed.
EndsExecution   == mark.after \in {"again", "fail", "cleanup", "kick"}
BeginsExecution == mark.after = "launch"

\* Some task may be running, if it is cur: the executor holds it.
HoldsRunning ==
    \/ pc \in Busy \/ Unwinding
    \/ BeforeMark /\ EndsExecution
    \/ AfterMark /\ BeginsExecution

\* Some attempt may be open, if it is cur's.
HoldsOpen ==
    \/ pc \in Busy \ {"rework"}
    \/ (BeforeMark \/ AfterMark) /\ BeginsExecution

\* What the marks ask for, and the state they find.
MarkInv ==
    /\ BeforeMark \/ AfterMark =>
            /\ mark.target = Target(mark.after)
            /\ EndsExecution \/ BeginsExecution => mark.task = cur
    /\ BeforeMark /\ EndsExecution => task[cur] = "running"
    /\ BeforeMark /\ BeginsExecution => task[cur] = "ready"
    /\ pc \in Busy \/ Unwinding => task[cur] = "running"
    /\ pc = "begin" => task[cur] = "ready"
    /\ pc = "again" => task[cur] = "failed"
    /\ Unwinding => \A a \in todo : task[a] = "completed"

\* Nothing but cur is running or open, unless the server has just stopped.
HoldInv ==
    \A t \in Tasks :
        /\ task[t] \notin {"awaiting_integration", "integrating"}
        /\ task[t] = "running" =>
                \/ t = cur /\ HoldsRunning
                \/ pc \in {"down", "recoverAttempts", "recoverTasks"}
        /\ Live(attempt[t]) =>
                \/ t = cur /\ HoldsOpen
                \/ pc \in {"down", "recoverAttempts"}

\* A run is in progress only during an operation, and before recovery is over.
RestInv ==
    /\ pc \in {"idle", "release", "start", "retry"} => status \notin {"planning", "active"}
    /\ pc = "verdict" => verdict \notin {"planning", "active"}

OrderInv == MarkInv /\ HoldInv /\ RestInv

-----------------------------------------------------------------------------
LEMMA OrderInit == Init => OrderInv
BY DEF Init, OrderInv, MarkInv, HoldInv, RestInv, BeforeMark, AfterMark,
       Unwinding, Reconciling, Busy, Live

\* What mark_task is asked for is a transition it accepts.
LEMMA LegalMark ==
    ASSUME TypeOK, IInv, OrderInv, pc = "mark"
    PROVE  CanTransition(task[mark.task], mark.target)
<1> USE DEF BeforeMark, AfterMark, EndsExecution, BeginsExecution
<1>1. mark.task \in Tasks /\ mark.target = Target(mark.after)
    BY DEF IInv, WorkInv, OrderInv, MarkInv
<1>2. CASE EndsExecution \/ BeginsExecution
    BY <1>1, <1>2 DEF OrderInv, MarkInv, Target, CanTransition
<1>3. CASE ~EndsExecution /\ ~BeginsExecution
  <2>1. ~HoldsRunning
      BY <1>3 DEF HoldsRunning, Busy, Unwinding, Reconciling
  <2>2. task[mark.task] \in {"pending", "ready", "blocked", "failed", "completed"}
      BY <1>1, <2>1 DEF TypeOK, TaskStates, OrderInv, HoldInv, IInv, VerdictInv
  <2>3. mark.target = "ready"
      BY <1>1, <1>3 DEF Target
  <2> QED BY <2>2, <2>3 DEF CanTransition
<1> QED BY <1>2, <1>3

\* Settling cur's attempt closes it, with cur still to be marked.
LEMMA SettleHolds ==
    ASSUME TypeOK, OrderInv, NEW outcome \in {"over", "approved"}, NEW target,
           NEW after \in {"again", "fail", "cleanup"},
           pc \in Busy \ {"rework"}, Settle(outcome, target, after)
    PROVE  HoldInv'
<1> USE DEF TypeOK, OrderInv, HoldInv, BeforeMark, AfterMark, EndsExecution
<1>1. /\ pc' = "mark" /\ mark'.after = after
      /\ attempt' = [attempt EXCEPT ![cur] = outcome]
      /\ UNCHANGED <<task, cur>>
    BY DEF Settle, StartMark
<1>2. HoldsRunning' /\ pc \notin {"down", "recoverAttempts", "recoverTasks"}
    BY <1>1 DEF HoldsRunning, Busy
<1>3. \A t \in Tasks : Live(attempt'[t]) => t # cur /\ Live(attempt[t])
    BY <1>1 DEF Live
<1> QED BY <1>1, <1>2, <1>3

LEMMA OrderNext ==
    ASSUME "error" \notin Faults, TypeOK, TypeOK', IInv, OrderInv, [Next]_vars
    PROVE  OrderInv'
<1> USE DEF TypeOK, database, thread, IInv, WorkInv, OrderInv, MarkInv, HoldInv,
        RestInv, Reconciling, BeforeMark, AfterMark, Unwinding, Busy,
        EndsExecution, BeginsExecution, HoldsRunning, HoldsOpen, Live, Working
<1>1. CASE MarkUpdate
  <2>1. mark.after \in {"begin", "launch", "again", "kick", "fail", "activate",
                        "loop", "cleanup"}
      BY <1>1 DEF MarkUpdate
  <2>2. CanTransition(task[mark.task], mark.target)
      BY <1>1, LegalMark DEF MarkUpdate
  <2>3. /\ task' = [task EXCEPT ![mark.task] = mark.target]
        /\ pc = "mark" /\ pc' = "recon" /\ recon'.after = "walk"
        /\ UNCHANGED <<status, attempt, cur, verdict, todo, mark>>
      BY <1>1, <2>2 DEF MarkUpdate, Reconcile
  <2>4. MarkInv' /\ RestInv'
      BY <2>3
  <2>5. HoldInv'
      BY <2>1, <2>3 DEF Target
  <2> QED BY <2>4, <2>5
<1>2. CASE ReconcileRead
    BY <1>2 DEF ReconcileRead, NoRecon
<1>3. CASE ReconcileWrite
    BY <1>3 DEF ReconcileWrite, NoRecon
<1>4. CASE WalkVisit
  <2>1. PICK d \in Unvisited :
          LET next == NextStateForDependent({task[u] : u \in plan.deps[d]})
          IN  IF KeepsState(d) \/ task[d] = next
              THEN UNCHANGED <<task, pc, recon>>
              ELSE task' = [task EXCEPT ![d] = next] /\ Reconcile("walk")
      BY <1>4 DEF WalkVisit
  <2> DEFINE next == NextStateForDependent({task[u] : u \in plan.deps[d]})
  <2>2. next \in {"pending", "ready", "blocked"}
      BY NextStateType
  <2>3. \/ UNCHANGED <<task, pc, recon>>
        \/ task' = [task EXCEPT ![d] = next] /\ Reconcile("walk")
      BY <2>1
  <2> HIDE DEF next
  <2>4. pc = "walk" /\ UNCHANGED <<status, attempt, cur, verdict, todo, mark>>
      BY <1>4 DEF WalkVisit
  <2>5. \A t \in Tasks : \/ task'[t] = task[t]
                         \/ task'[t] \in {"pending", "ready", "blocked"}
      BY <2>2, <2>3
  <2>6. \/ pc' = "walk" /\ UNCHANGED recon
        \/ pc' = "recon" /\ recon'.after = "walk"
      BY <2>3, <2>4 DEF Reconcile
  <2>7. AfterMark /\ AfterMark' /\ ~BeforeMark /\ ~BeforeMark' /\ ~Unwinding'
      BY <2>4, <2>6
  <2>8. MarkInv' /\ RestInv'
      BY <2>4, <2>6, <2>7
  <2>9. HoldInv'
    <3>1. HoldsRunning => HoldsRunning'
        BY <2>4, <2>7
    <3>2. HoldsOpen => HoldsOpen'
        BY <2>4, <2>7
    <3> HIDE DEF HoldsRunning, HoldsOpen, AfterMark, BeforeMark, Unwinding
    <3>3. ASSUME NEW t \in Tasks
          PROVE  /\ task'[t] \notin {"awaiting_integration", "integrating"}
                 /\ task'[t] = "running" => t = cur /\ HoldsRunning'
      <4>1. /\ task[t] \notin {"awaiting_integration", "integrating"}
            /\ task[t] = "running" => t = cur /\ HoldsRunning
          BY <2>4
      <4>2. task'[t] = task[t] \/ task'[t] \in {"pending", "ready", "blocked"}
          BY <2>5
      <4> QED BY <3>1, <4>1, <4>2
    <3>4. ASSUME NEW t \in Tasks, Live(attempt[t])
          PROVE  t = cur /\ HoldsOpen'
        BY <2>4, <3>2, <3>4
    <3> QED BY <2>4, <3>3, <3>4
  <2> QED BY <2>8, <2>9
<1>5. CASE WalkDescend
    BY <1>5 DEF WalkDescend
<1>6. CASE MarkReturn
    BY <1>6 DEF MarkReturn, NoMark, Target
<1>7. CASE BeginRun
    BY <1>7 DEF BeginRun
<1>8. CASE ReservePlanning
    BY <1>8 DEF ReservePlanning, Reserve
<1>9. CASE PlanRun
    BY <1>9 DEF PlanRun, Goto
<1>10. CASE PersistPlan
  <2>1. MarkInv'
      BY <1>10 DEF PersistPlan
  <2>2. HoldInv'
    <3>1. \A t \in Tasks : task'[t] \in {"pending", "ready"}
        BY <1>10, InitialStateType DEF PersistPlan
    <3>2. \A t \in Tasks : ~Live(attempt[t])
        BY <1>10 DEF PersistPlan
    <3> QED BY <1>10, <3>1, <3>2 DEF PersistPlan
  <2>3. RestInv'
      BY <1>10 DEF PersistPlan
  <2> QED BY <2>1, <2>2, <2>3
<1>11. CASE PlannerFails
  <2>1. MarkInv'
      BY <1>11 DEF PlannerFails, Goto
  <2>2. HoldInv'
      BY <1>11 DEF PlannerFails, Goto
  <2>3. RestInv'
      BY <1>11 DEF PlannerFails, Goto
  <2> QED BY <2>1, <2>2, <2>3
<1>12. CASE StartWorkflow
    BY <1>12 DEF StartWorkflow, Reserve
<1>13. CASE PrepareStart
    BY <1>13 DEF PrepareStart, Goto
<1>14. CASE PolicyBlocks
    BY <1>14 DEF PolicyBlocks, PolicyStatus
<1>15. CASE Activate
    BY <1>15 DEF Activate
<1>16. CASE RetryTask
    BY <1>16 DEF RetryTask, Reserve
<1>17. CASE PrepareRetry
    BY <1>17 DEF PrepareRetry, StartMark, Goto, MayRetry, Target
<1>18. CASE SpawnExecution
    BY <1>18 DEF SpawnExecution, Goto
<1>19. CASE CheckCancel
    BY <1>19 DEF CheckCancel
<1>20. CASE PickTask
    BY <1>20 DEF PickTask, ReadyTasks
<1>21. CASE NothingReady
    BY <1>21 DEF NothingReady, RestingVerdict
<1>22. CASE BeginAttempt
    BY <1>22 DEF BeginAttempt, StartMark, NextAttempt, Target
<1>23. CASE AttemptsExhausted
    BY <1>23 DEF AttemptsExhausted, Goto
<1>24. CASE TryAgain
    BY <1>24 DEF TryAgain, StartMark, Target
<1>25. CASE Launch
  <2>1. MarkInv'
      BY <1>25 DEF Launch, Goto
  <2>2. HoldInv'
    <3>1. CASE pc = "launchPlanner"
        BY <1>25, <3>1 DEF Launch, Goto
    <3>2. CASE pc \in {"launch", "launchReview"}
      <4>1. pc' \in {"invoke", "doomed", "review", "doomedReview"}
            /\ UNCHANGED <<task, attempt, cur>>
          BY <1>25, <3>2 DEF Launch, Goto
      <4> QED BY <4>1, <3>2
    <3> QED BY <1>25, <3>1, <3>2 DEF Launch
  <2>3. RestInv'
      BY <1>25 DEF Launch, Goto
  <2> QED BY <2>1, <2>2, <2>3
<1>26. CASE AgentCancelled
    BY <1>26 DEF AgentCancelled, Killable, Settle, StartMark, Target
<1>27. CASE AgentFails
  <2>1. MarkInv'
      BY <1>27 DEF AgentFails, Settle, StartMark, Target
  <2>2. HoldInv'
      BY <1>27, SettleHolds DEF AgentFails
  <2>3. RestInv'
      BY <1>27 DEF AgentFails, Settle, StartMark, Target
  <2> QED BY <2>1, <2>2, <2>3
<1>28. CASE AgentAborts
  <2>1. MarkInv'
      BY <1>28 DEF AgentAborts, Settle, StartMark, Target
  <2>2. HoldInv'
      BY <1>28, SettleHolds DEF AgentAborts
  <2>3. RestInv'
      BY <1>28 DEF AgentAborts, Settle, StartMark, Target
  <2> QED BY <2>1, <2>2, <2>3
<1>29. CASE ProducerSucceeds
    BY <1>29 DEF ProducerSucceeds
<1>30. CASE AdvisorySucceeds
    BY <1>30 DEF AdvisorySucceeds, Settle, StartMark, Target
<1>31. CASE ReviewerApproves
    BY <1>31 DEF ReviewerApproves, Goto
<1>32. CASE ReviewerRequestsChanges
  <2>1. MarkInv'
      BY <1>32 DEF ReviewerRequestsChanges, Settle, StartMark, Target
  <2>2. HoldInv'
      BY <1>32, SettleHolds DEF ReviewerRequestsChanges
  <2>3. RestInv'
      BY <1>32 DEF ReviewerRequestsChanges, Settle, StartMark, Target
  <2> QED BY <2>1, <2>2, <2>3
<1>33. CASE Integrate
    BY <1>33 DEF Integrate, Settle, StartMark, Target
<1>34. CASE ReviewTaskApproves
    BY <1>34 DEF ReviewTaskApproves, Settle, StartMark, Target
<1>35. CASE ReviewTaskRequestsChanges
    BY <1>35 DEF ReviewTaskRequestsChanges
<1>36. CASE StartRework
    BY <1>36 DEF StartRework
<1>37. CASE NoRework
    BY <1>37 DEF NoRework, StartMark, Target
<1>38. CASE Unwind
    BY <1>38 DEF Unwind, Reconcile
<1>39. CASE BlockReview
    BY <1>39 DEF BlockReview, StartMark, Target
<1>40. CASE KickSeed
    BY <1>40 DEF KickSeed, StartMark, Target
<1>41. CASE CleanUp
    BY <1>41 DEF CleanUp, Goto
<1>42. CASE DecideVerdict
    BY <1>42 DEF DecideVerdict
<1>43. CASE WriteVerdict
    BY <1>43 DEF WriteVerdict
<1>44. CASE Release
    BY <1>44 DEF Release, ForgetThread, NoMark, NoRecon
<1>45. CASE ErrorEscapes \/ VerdictLost \/ OpenFails
    BY <1>45 DEF ErrorEscapes, VerdictLost, OpenFails
<1>46. CASE CancelWorkflow \/ CancelRun
    BY <1>46 DEF CancelWorkflow, CancelRun, CancelStore, CancelRead, CancelWrite, CancelLost
<1>47. CASE Crash
    BY <1>47 DEF Crash, ForgetThread, NoMark, NoRecon
<1>48. CASE Restart
    BY <1>48 DEF Restart, Goto
<1>49. CASE RecoverAttempts
    BY <1>49 DEF RecoverAttempts, Interruptible
<1>50. CASE RecoverTasks
    BY <1>50 DEF RecoverTasks
<1>51. CASE RecoverRuns
    BY <1>51 DEF RecoverRuns
<1>52. CASE UNCHANGED vars
    BY <1>52 DEF vars
<1> QED
    BY <1>1, <1>2, <1>3, <1>4, <1>5, <1>6, <1>7, <1>8, <1>9, <1>10,
       <1>11, <1>12, <1>13, <1>14, <1>15, <1>16, <1>17, <1>18, <1>19,
       <1>20, <1>21, <1>22, <1>23, <1>24, <1>25, <1>26, <1>27, <1>28,
       <1>29, <1>30, <1>31, <1>32, <1>33, <1>34, <1>35, <1>36, <1>37,
       <1>38, <1>39, <1>40, <1>41, <1>42, <1>43, <1>44, <1>45, <1>46,
       <1>47, <1>48, <1>49, <1>50, <1>51, <1>52
    DEF Next, Prepare, Execute, MarkTask, AgentStep, Recover

LEMMA OrderAlways ==
    ASSUME "error" \notin Faults PROVE Spec => [](TypeOK /\ IInv /\ OrderInv)
<1>1. Init => TypeOK /\ IInv /\ OrderInv
    BY TypeInit, IInvInit, OrderInit
<1>2. TypeOK /\ IInv /\ OrderInv /\ [Next]_vars => (TypeOK /\ IInv /\ OrderInv)'
    BY TypeNext, IInvNext, OrderNext
<1> QED BY <1>1, <1>2, PTL DEF Spec

-----------------------------------------------------------------------------
(***************************************************************************)
(* What follows from it.                                                   *)
(***************************************************************************)

\* The executor, prepare_retry and rework_after_review only ask mark_task for
\* transitions can_transition allows, whatever state the graph is in.
THEOREM MarksLegal ==
    ASSUME "error" \notin Faults PROVE Spec => []MarksAreLegal
<1>1. TypeOK /\ IInv /\ OrderInv => MarksAreLegal
    BY LegalMark DEF MarksAreLegal
<1> QED BY <1>1, OrderAlways, PTL

\* Whenever no operation is live, nothing is left running, open or in progress:
\* every path out of the executor, and recovery, settles what it had begun.
THEOREM IdleSettled ==
    ASSUME "error" \notin Faults PROVE Spec => []IdleIsSettled
<1>1. TypeOK /\ IInv /\ OrderInv => IdleIsSettled
    BY DEF IdleIsSettled, OrderInv, HoldInv, RestInv, HoldsRunning, HoldsOpen,
           Busy, Unwinding, Reconciling, BeforeMark, AfterMark
<1> QED BY <1>1, OrderAlways, PTL

\* Both together: legal marks, and nothing left in progress between operations.
THEOREM ControlIsSound ==
    ASSUME "error" \notin Faults PROVE Spec => []ControlSound
<1>1. MarksAreLegal /\ IdleIsSettled => ControlSound
    BY DEF ControlSound
<1> QED BY <1>1, MarksLegal, IdleSettled, PTL

\* Attempts of a task follow one another: none is opened while another is open,
\* and their numbers leave no gap.
THEOREM AttemptsFollow ==
    ASSUME "error" \notin Faults PROVE Spec => AttemptsInTurn
<1>1. TypeOK /\ IInv /\ OrderInv /\ [Next]_vars =>
        [\A t \in Tasks : tries'[t] # tries[t] =>
            tries'[t] = tries[t] + 1 /\ ~Live(attempt[t])]_vars
  <2> SUFFICES ASSUME TypeOK, IInv, OrderInv, Next, NEW t \in Tasks, tries'[t] # tries[t]
               PROVE  tries'[t] = tries[t] + 1 /\ ~Live(attempt[t])
      OBVIOUS
  <2>1. BeginAttempt
      BY DEF database, Next, Prepare, Execute, MarkTask, AgentStep, CancelRun,
          Recover, MarkUpdate, ReconcileRead, ReconcileWrite, WalkVisit,
          WalkDescend, MarkReturn, BeginRun, ReservePlanning, PlanRun,
          PersistPlan, PlannerFails, StartWorkflow, PrepareStart,
          PolicyBlocks, Activate, RetryTask, PrepareRetry, SpawnExecution,
          CheckCancel, PickTask, NothingReady, AttemptsExhausted, TryAgain,
          Launch, AgentCancelled, AgentFails, AgentAborts, ProducerSucceeds,
          AdvisorySucceeds, ReviewerApproves, ReviewerRequestsChanges,
          Integrate, ReviewTaskApproves, ReviewTaskRequestsChanges,
          StartRework, NoRework, Unwind, BlockReview, KickSeed, CleanUp,
          DecideVerdict, WriteVerdict, Release, ErrorEscapes, VerdictLost,
          OpenFails, CancelWorkflow, CancelStore, CancelRead, CancelWrite, CancelLost,
          Crash, Restart, RecoverAttempts, RecoverTasks, RecoverRuns, Goto,
          Settle
  <2>2. t = cur /\ tries'[t] = tries[t] + 1
      BY <2>1 DEF BeginAttempt, NextAttempt, TypeOK
  <2>3. ~HoldsOpen /\ pc = "begin"
      BY <2>1 DEF BeginAttempt, HoldsOpen, Busy, BeforeMark, AfterMark, Reconciling
  <2> QED BY <2>2, <2>3 DEF OrderInv, HoldInv
<1> QED BY <1>1, OrderAlways, PTL DEF Spec, AttemptsInTurn
-----------------------------------------------------------------------------
(***************************************************************************)
(* The schedule, of a run in which nothing fails but agents: whatever they *)
(* do, are asked to change or are cancelled at, each task runs after what  *)
(* it depends on, and what waits has something to wait for.  (A stop, an   *)
(* error or a manual retry between two statements breaks this, and so does *)
(* a plan whose rework unwinds a task that does not depend on the seed:    *)
(* runs show both.)                                                        *)
(***************************************************************************)

Marking == BeforeMark \/ AfterMark
DepsDone(t) == \A d \in plan.deps[t] : task[d] = "completed"

\* A rejected review is being unwound; the walk from its seed is repairing what
\* that did, and has not come to t.
Reworking ==
    \/ Unwinding \/ pc = "kick"
    \/ Marking /\ mark.after = "kick"
    \/ BeforeMark /\ mark.after = "loop"
Repairing  == AfterMark /\ mark.after = "loop"
Excused(t) == Reworking \/ (Repairing /\ t \notin walk.visited)

\* Nobody is at work on something that the engine alone would not do.
CalmInv ==
    /\ pc # "retry" /\ pc \notin Recovering
    /\ Marking => mark.after # "activate"

ReadyInv ==
    \A t \in Tasks : task[t] = "ready" =>
        \A d \in plan.deps[t] :
            task[d] = "completed" \/ (d \in Ancestors(plan, cur) /\ Excused(t))

PendingInv ==
    \A t \in Tasks : task[t] = "pending" =>
        \/ ~DepsDone(t)
        \/ t \in Ancestors(plan, cur) /\ Excused(t)
        \/ /\ AfterMark /\ mark.target = "completed"
           /\ mark.task \in plan.deps[t] /\ t \notin walk.visited

\* The task in hand was ready when it was picked, and is again for a retry.
HandInv ==
    \/ pc \in Busy \cup {"begin", "again"}
    \/ Marking /\ mark.after \in {"launch", "again", "begin"}
    => DepsDone(cur)

\* What the walk has visited is completed, still to be walked from, or behind it.
WalkInv ==
    AfterMark =>
        /\ walk.top = mark.task \/ Dependents(plan, mark.task) \subseteq walk.visited
        /\ \A v \in walk.visited :
            \/ v \in Tasks /\ task[v] = "completed"
            \/ v = walk.top
            \/ \E i \in DOMAIN walk.frontier : walk.frontier[i] = v
            \/ Dependents(plan, v) \subseteq walk.visited

\* A rework leaves no ancestor of the review completed but the seed.
ReworkInv ==
    /\ Marking /\ mark.after = "loop" =>
            mark.task \in ReworkSeeds(plan, cur) /\ plan.op[cur] = "review"
    /\ Reworking \/ Repairing =>
            /\ cur \in Tasks
            /\ \A s \in ReworkSeeds(plan, cur) : \A a \in Ancestors(plan, cur) \ {s} :
                    task[a] = "completed" => Unwinding /\ a \in todo

\* Some task can be retried, or has used up its attempts.
Spent == \E t \in Tasks : task[t] = "failed" \/ tries[t] = MaxAttempts
FailInv ==
    \/ pc = "fail"
    \/ pc = "verdict" /\ verdict = "failed"
    \/ pc \in {"release", "idle", "start"} /\ status = "failed"
    => Spent

GraphInv == ReadyInv /\ PendingInv /\ HandInv /\ WalkInv /\ ReworkInv /\ FailInv
SchedInv == CalmInv /\ (plan # NoPlan => GraphInv)

-----------------------------------------------------------------------------
\* Ancestors is the least set that holds a task's dependencies and is closed.
LEMMA Closed ==
    ASSUME NEW p \in PlanType, NEW t \in Tasks
    PROVE  /\ Ancestors(p, t) \subseteq Tasks
           /\ p.deps[t] \subseteq Ancestors(p, t)
           /\ \A a \in Ancestors(p, t) : p.deps[a] \subseteq Ancestors(p, t)
<1>1. p.deps \in [Tasks -> SUBSET Tasks]
    BY DEF PlanType
<1>2. Ancestors(p, t) \subseteq Tasks /\ p.deps[t] \subseteq Ancestors(p, t)
    BY <1>1 DEF Ancestors
<1>3. ASSUME NEW a \in Ancestors(p, t), NEW d \in p.deps[a] PROVE d \in Ancestors(p, t)
  <2>1. d \in Tasks
      BY <1>1, <1>2
  <2>2. ASSUME NEW S \in SUBSET Tasks, p.deps[t] \subseteq S, \A s \in S : p.deps[s] \subseteq S
        PROVE  d \in S
    <3>1. a \in S
        BY <2>2 DEF Ancestors
    <3> QED BY <2>2, <3>1
  <2> QED BY <2>1, <2>2 DEF Ancestors
<1> QED BY <1>2, <1>3

LEMMA Least ==
    ASSUME NEW p \in PlanType, NEW t \in Tasks, NEW S \in SUBSET Tasks,
           p.deps[t] \subseteq S, \A s \in S : p.deps[s] \subseteq S
    PROVE  Ancestors(p, t) \subseteq S
BY DEF Ancestors

\* A review has one seed at most.
LEMMA OneSeed ==
    ASSUME NEW p \in PlanType, NEW r \in Tasks,
           NEW s \in ReworkSeeds(p, r), NEW u \in ReworkSeeds(p, r)
    PROVE  s = u
<1> DEFINE ancestors(op) == {a \in Ancestors(p, r) : p.op[a] = op}
           candidates == IF ancestors("implement") # {} THEN ancestors("implement")
                         ELSE ancestors("verify")
<1>1. candidates \subseteq Nat
    BY Closed, TasksAssumption
<1>2. /\ s \in candidates /\ \A v \in candidates : v <= s
      /\ u \in candidates /\ \A v \in candidates : v <= u
    BY DEF ReworkSeeds
<1> QED BY <1>1, <1>2

\* Where a rework reaches everything, its seed depends on nothing.
LEMMA SeedIsRoot ==
    ASSUME NEW p \in PlanType, Acyclic(p), ReworkReaches(p), NEW r \in Tasks,
           p.op[r] = "review", NEW s \in ReworkSeeds(p, r)
    PROVE  s \in Tasks /\ s \in Ancestors(p, r) /\ s # r /\ p.deps[s] = {}
<1>1. s \in Ancestors(p, r) /\ s \in Tasks /\ s # r
    BY Closed DEF ReworkSeeds, Acyclic
<1>2. ASSUME NEW d \in p.deps[s] PROVE FALSE
  <2>1. d \in Ancestors(p, r) /\ d \in Ancestors(p, s) /\ d \in Tasks /\ d # s
      BY <1>1, Closed DEF Acyclic
  <2>2. s \in Ancestors(p, d)
      BY <2>1 DEF ReworkReaches
  <2>3. Ancestors(p, d) \subseteq Ancestors(p, s)
      BY <1>1, <2>1, Closed, Least
  <2> QED BY <1>1, <2>2, <2>3 DEF Acyclic
<1> QED BY <1>1, <1>2

\* A set that holds the seed and, with each of the review's ancestors, the
\* dependents of that ancestor, holds all the ancestors.
LEMMA SeedReaches ==
    ASSUME NEW p \in PlanType, ReworkReaches(p), NEW r \in Tasks, p.op[r] = "review",
           NEW s \in ReworkSeeds(p, r), NEW V, s \in V,
           \A v \in V \cap Ancestors(p, r) : Dependents(p, v) \subseteq V
    PROVE  Ancestors(p, r) \subseteq V
<1> SUFFICES ASSUME NEW y \in Ancestors(p, r), y \notin V PROVE FALSE
    OBVIOUS
<1> DEFINE T == Ancestors(p, r) \ V
<1>1. T \in SUBSET Tasks /\ y \in T /\ y # s
    BY Closed
<1>2. ASSUME NEW z \in T, NEW d \in p.deps[z] PROVE d \in T
  <2>1. d \in Ancestors(p, r) /\ z \in Dependents(p, d)
      BY <1>1, Closed DEF Dependents
  <2> QED BY <2>1
<1>3. s \in Ancestors(p, y)
    BY <1>1 DEF ReworkReaches
<1>4. Ancestors(p, y) \subseteq T
    BY <1>1, <1>2, Least
<1> QED BY <1>3, <1>4

LEMMA SchedInit == Init => SchedInv
BY DEF Init, SchedInv, CalmInv, Marking, BeforeMark, AfterMark, Reconciling, Recovering,
       GraphInv, ReadyInv, PendingInv, HandInv, WalkInv, ReworkInv, FailInv

\* What is known of the plan in force.
LEMMA PlanIs ==
    ASSUME TypeOK, plan # NoPlan, \A p \in Plans : ReworkReaches(p)
    PROVE  /\ plan \in PlanType /\ Acyclic(plan) /\ ReworkReaches(plan)
           /\ \A t \in Tasks : plan.deps[t] \subseteq Tasks /\ t \notin plan.deps[t]
<1>1. plan \in PlanType /\ Acyclic(plan) /\ ReworkReaches(plan)
    BY EngineAssumption DEF TypeOK
<1> QED BY <1>1, Closed DEF PlanType, Acyclic

\* The first write of mark_task: the task marked for, and the walk's first top.
LEMMA MarkSchedule ==
    ASSUME \A p \in Plans : ReworkReaches(p), TypeOK, IInv, OrderInv, SchedInv, plan # NoPlan,
           MarkUpdate
    PROVE  GraphInv'
<1> DEFINE x == mark.task
<1> USE DEF Marking, BeforeMark, AfterMark
<1>1. /\ pc = "mark" /\ x \in Tasks /\ mark.target = Target(mark.after)
      /\ mark.after \in {"begin", "launch", "again", "kick", "fail", "loop", "cleanup"}
    BY DEF MarkUpdate, IInv, WorkInv, OrderInv, MarkInv, SchedInv, CalmInv
<1>2. /\ task' = [task EXCEPT ![x] = mark.target]
      /\ walk' = [top |-> x, frontier |-> <<>>, visited |-> {x}]
      /\ pc' = "recon" /\ recon'.after = "walk"
      /\ UNCHANGED <<plan, status, tries, cur, mark, todo>>
    BY <1>1, LegalMark DEF MarkUpdate, Reconcile
<1>3. /\ AfterMark' /\ ~BeforeMark' /\ ~Unwinding' /\ ~Unwinding /\ Marking' /\ ~AfterMark
      /\ Reworking' <=> mark.after = "kick"
      /\ Repairing' <=> mark.after = "loop"
      /\ Reworking <=> mark.after \in {"kick", "loop"}
      /\ ~Repairing
    BY <1>1, <1>2 DEF Unwinding, Reconciling, Reworking, Repairing
<1>4. GraphInv
    BY DEF SchedInv
<1>5. /\ \A t \in Tasks : t # x => task'[t] = task[t]
      /\ task'[x] = mark.target
    BY <1>1, <1>2 DEF TypeOK
<1>6. plan \in PlanType /\ Acyclic(plan) /\ ReworkReaches(plan)
      /\ \A t \in Tasks : plan.deps[t] \subseteq Tasks /\ t \notin plan.deps[t]
    BY PlanIs
<1>7. /\ mark.after \notin {"loop"} => x = cur
      /\ mark.after = "loop" => /\ x \in ReworkSeeds(plan, cur) /\ cur \in Tasks
                                /\ plan.op[cur] = "review" /\ mark.target = "ready"
    BY <1>1, <1>3, <1>4 DEF IInv, WorkInv, Working, OrderInv, MarkInv, EndsExecution, BeginsExecution,
       GraphInv, ReworkInv, Target
<1>8. mark.after = "loop" => x \in Ancestors(plan, cur) /\ x # cur /\ plan.deps[x] = {}
    BY <1>6, <1>7, SeedIsRoot
<1>9. task[x] = "completed" /\ mark.target # "completed" => mark.after = "loop"
  <2>1. task[x] = "completed" /\ mark.target # "completed" =>
          plan.op[cur] = "review" /\ x \in Ancestors(plan, cur)
      BY <1>1 DEF IInv, ReviewInv
  <2>2. x = cur => x \notin Ancestors(plan, cur)
      BY <1>1, <1>6 DEF Acyclic
  <2> QED BY <1>7, <2>1, <2>2
<1> HIDE DEF x
<1>10. ReadyInv'
  <2> SUFFICES ASSUME NEW t \in Tasks, task'[t] = "ready", NEW d \in plan.deps[t], task'[d] # "completed"
               PROVE  d \in Ancestors(plan, cur) /\ Excused(t)'
      BY <1>2 DEF ReadyInv
  <2>1. d \in Tasks /\ d # t
      BY <1>6
  <2>2. CASE t = x
    <3>1. mark.after \in {"begin", "loop"}
        BY <1>1, <1>5, <2>2 DEF Target
    <3>2. mark.after = "begin" /\ x = cur /\ DepsDone(cur)
        BY <1>1, <1>4, <1>7, <1>8, <2>2, <3>1 DEF GraphInv, HandInv
    <3> QED BY <1>5, <2>1, <2>2, <3>2 DEF DepsDone
  <2>3. CASE t # x
    <3>1. task[t] = "ready"
        BY <1>5, <2>3
    <3>2. CASE task[d] = "completed"
      <4>1. d = x /\ mark.after = "loop"
          BY <1>5, <1>9, <2>1, <3>2
      <4> QED BY <1>2, <1>3, <1>8, <2>3, <4>1 DEF Excused
    <3>3. CASE task[d] # "completed"
      <4>1. d \in Ancestors(plan, cur) /\ Reworking
          BY <1>3, <1>4, <3>1, <3>3 DEF GraphInv, ReadyInv, Excused
      <4> QED BY <1>2, <1>3, <2>3, <4>1 DEF Excused
    <3> QED BY <3>2, <3>3
  <2> QED BY <2>2, <2>3
<1>11. PendingInv'
  <2> SUFFICES ASSUME NEW t \in Tasks, task'[t] = "pending", DepsDone(t)'
               PROVE  \/ t \in Ancestors(plan, cur) /\ Excused(t)'
                      \/ mark.target = "completed" /\ x \in plan.deps[t] /\ t # x
      BY <1>2, <1>3 DEF PendingInv, x
  <2>1. t # x /\ task[t] = "pending"
      BY <1>1, <1>5 DEF Target
  <2>2. CASE DepsDone(t)
    <3>1. t \in Ancestors(plan, cur) /\ Reworking
        BY <1>3, <1>4, <2>1, <2>2 DEF GraphInv, PendingInv, Excused
    <3> QED BY <1>2, <1>3, <2>1, <3>1 DEF Excused
  <2>3. CASE ~DepsDone(t)
    <3>1. PICK d \in plan.deps[t] : task[d] # "completed"
        BY <2>3 DEF DepsDone
    <3>2. task'[d] = "completed" /\ d \in Tasks
        BY <1>2, <1>6, <3>1 DEF DepsDone
    <3> QED BY <1>5, <2>1, <3>1, <3>2
  <2> QED BY <2>2, <2>3
<1>12. HandInv'
  <2> SUFFICES ASSUME mark.after \in {"launch", "again", "begin"} PROVE DepsDone(cur)'
      BY <1>2 DEF HandInv, Busy
  <2>1. x = cur /\ DepsDone(cur)
      BY <1>1, <1>4, <1>7 DEF GraphInv, HandInv
  <2> QED BY <1>1, <1>2, <1>5, <1>6, <2>1 DEF DepsDone
<1>13. WalkInv'
    BY <1>2 DEF WalkInv, x
<1>14. ReworkInv'
  <2>1. mark.after = "loop" => x \in ReworkSeeds(plan, cur) /\ plan.op[cur] = "review"
      BY <1>7
  <2>2. ASSUME mark.after \in {"kick", "loop"}
        PROVE  /\ cur \in Tasks
               /\ \A s \in ReworkSeeds(plan, cur) : \A a \in Ancestors(plan, cur) \ {s} :
                      task'[a] # "completed"
    <3>1. /\ cur \in Tasks
          /\ \A s \in ReworkSeeds(plan, cur) : \A a \in Ancestors(plan, cur) \ {s} :
                  task[a] # "completed"
        BY <1>3, <1>4, <2>2 DEF GraphInv, ReworkInv
    <3>2. mark.target # "completed"
        BY <1>1, <2>2 DEF Target
    <3>3. Ancestors(plan, cur) \subseteq Tasks
        BY <1>6, <3>1, Closed
    <3> QED BY <1>5, <3>1, <3>2, <3>3
  <2> QED BY <1>2, <1>3, <2>1, <2>2 DEF ReworkInv, x
<1>15. FailInv'
    BY <1>2 DEF FailInv
<1> QED BY <1>10, <1>11, <1>12, <1>13, <1>14, <1>15 DEF GraphInv

\* The state a dependent takes tells whether its dependencies are completed.
LEMMA NextStateTells ==
    ASSUME NEW D, NEW f
    PROVE  LET next == NextStateForDependent({f[u] : u \in D})
           IN  /\ next = "ready" => \A u \in D : f[u] \in {"completed", "superseded"}
               /\ next = "pending" => \E u \in D : f[u] # "completed"
<1> DEFINE S == {f[u] : u \in D}
<1>1. \A u \in D : f[u] \in S
    OBVIOUS
<1>2. \A y \in S : \E u \in D : f[u] = y
    OBVIOUS
<1> HIDE DEF S
<1>3. /\ NextStateForDependent(S) = "ready" => S \subseteq {"completed", "superseded"}
      /\ NextStateForDependent(S) = "pending" => \E y \in S : y # "completed"
    BY DEF NextStateForDependent
<1> QED BY <1>1, <1>2, <1>3 DEF S

\* Prepending shifts every element by one place.
LEMMA PrependShifts ==
    ASSUME NEW T, NEW q \in Seq(T), NEW e \in T, NEW i \in DOMAIN q
    PROVE  i + 1 \in DOMAIN (<<e>> \o q) /\ (<<e>> \o q)[i + 1] = q[i]
OBVIOUS

\* One visit of the walk changes the state of the visited dependent only, and
\* completes nothing.
LEMMA VisitSchedule ==
    ASSUME \A p \in Plans : ReworkReaches(p), TypeOK, IInv, OrderInv, SchedInv, plan # NoPlan,
           WalkVisit
    PROVE  GraphInv'
<1> USE DEF Marking, BeforeMark, AfterMark
<1>1. PICK d \in Unvisited :
        /\ walk' = [top |-> walk.top,
                    frontier |-> IF KeepsState(d) THEN walk.frontier ELSE <<d>> \o walk.frontier,
                    visited |-> walk.visited \cup {d}]
        /\ LET next == NextStateForDependent({task[u] : u \in plan.deps[d]})
           IN  IF KeepsState(d) \/ task[d] = next
               THEN UNCHANGED <<task, pc, recon>>
               ELSE task' = [task EXCEPT ![d] = next] /\ Reconcile("walk")
    BY DEF WalkVisit
<1>2. pc = "walk" /\ UNCHANGED <<plan, status, tries, cur, mark, todo>>
    BY DEF WalkVisit
<1> DEFINE next == NextStateForDependent({task[u] : u \in plan.deps[d]})
<1>3. /\ next \in {"pending", "ready", "blocked"}
      /\ next = "ready" => DepsDone(d)
      /\ next = "pending" => ~DepsDone(d)
  <2>1. plan.deps[d] \subseteq Tasks
      BY PlanIs DEF Unvisited, Dependents
  <2>2. \A u \in Tasks : task[u] # "superseded"
      BY DEF IInv, VerdictInv
  <2> QED BY <2>1, <2>2, NextStateType, NextStateTells DEF DepsDone
<1>4. /\ KeepsState(d) \/ task[d] = next => UNCHANGED <<task, pc, recon>>
      /\ ~(KeepsState(d) \/ task[d] = next) => task' = [task EXCEPT ![d] = next] /\ Reconcile("walk")
    BY <1>1
<1> HIDE DEF next
<1>5. d \in Tasks /\ d \notin walk.visited /\ d \in Dependents(plan, walk.top)
    BY DEF Unvisited, Dependents
<1>6. /\ \A t \in Tasks : t # d => task'[t] = task[t]
      /\ \/ task'[d] = "completed" /\ task[d] = "completed"
         \/ task'[d] = next /\ task[d] # "completed"
  <2>1. CASE KeepsState(d) \/ task[d] = next
      BY <1>4, <2>1 DEF KeepsState
  <2>2. CASE ~(KeepsState(d) \/ task[d] = next)
      BY <1>4, <1>5, <2>2 DEF TypeOK, KeepsState
  <2> QED BY <2>1, <2>2
<1>7. \A t \in Tasks : task'[t] = "completed" <=> task[t] = "completed"
    BY <1>3, <1>6
<1>8. /\ AfterMark /\ AfterMark' /\ ~BeforeMark /\ ~BeforeMark' /\ Marking /\ Marking'
      /\ ~Unwinding /\ ~Unwinding'
      /\ pc \in {"walk"} /\ pc' \in {"walk", "recon"}
    BY <1>2, <1>4 DEF Reconcile, Reconciling, Unwinding
<1>9. (Reworking' <=> Reworking) /\ (Repairing' <=> Repairing)
    BY <1>2, <1>8 DEF Reworking, Repairing
<1>10. \A t \in Tasks : t # d => (Excused(t)' <=> Excused(t))
    BY <1>1, <1>9 DEF Excused
<1>11. \A t \in Tasks : DepsDone(t)' <=> DepsDone(t)
  <2>1. \A t \in Tasks : plan.deps[t] \subseteq Tasks
      BY PlanIs
  <2> QED BY <1>2, <1>7, <2>1 DEF DepsDone
<1>12. GraphInv /\ plan.deps \in [Tasks -> SUBSET Tasks] /\ walk'.visited = walk.visited \cup {d}
    BY <1>1, PlanIs DEF SchedInv, PlanType
<1> HIDE DEF AfterMark, BeforeMark
<1>13. ReadyInv'
  <2> SUFFICES ASSUME NEW t \in Tasks, task'[t] = "ready", NEW u \in plan.deps[t], task'[u] # "completed"
               PROVE  u \in Ancestors(plan, cur) /\ Excused(t)'
      BY <1>2 DEF ReadyInv
  <2>1. u \in Tasks /\ task[u] # "completed"
      BY <1>7, <1>12
  <2>2. t # d
      BY <1>3, <1>6, <2>1 DEF DepsDone
  <2> QED BY <1>6, <1>10, <1>12, <2>1, <2>2 DEF GraphInv, ReadyInv
<1>14. PendingInv'
  <2> SUFFICES ASSUME NEW t \in Tasks, task'[t] = "pending", DepsDone(t)
               PROVE  \/ t \in Ancestors(plan, cur) /\ Excused(t)'
                      \/ mark.target = "completed" /\ mark.task \in plan.deps[t] /\ t \notin walk'.visited
      BY <1>2, <1>8, <1>11 DEF PendingInv
  <2>1. t # d
      BY <1>3, <1>6
  <2> QED BY <1>6, <1>10, <1>12, <2>1 DEF GraphInv, PendingInv
<1>15. HandInv'
  <2> SUFFICES ASSUME mark.after \in {"launch", "again", "begin"} PROVE DepsDone(cur)'
      BY <1>2, <1>8 DEF HandInv, Busy
  <2>1. DepsDone(cur) /\ cur \in Tasks
      BY <1>8, <1>12 DEF GraphInv, HandInv, IInv, WorkInv, OrderInv, MarkInv, EndsExecution,
         BeginsExecution, Working
  <2> QED BY <1>2, <1>11, <2>1 DEF DepsDone
<1>16. WalkInv'
  <2>1. /\ walk'.top = walk.top
        /\ walk.top = mark.task \/ Dependents(plan, mark.task) \subseteq walk.visited
      BY <1>1, <1>8, <1>12 DEF GraphInv, WalkInv
  <2>2. ASSUME NEW v \in walk'.visited
        PROVE  \/ v \in Tasks /\ task'[v] = "completed"
               \/ v = walk'.top
               \/ \E i \in DOMAIN walk'.frontier : walk'.frontier[i] = v
               \/ Dependents(plan, v) \subseteq walk'.visited
    <3>1. walk.frontier \in Seq(Tasks)
        BY DEF TypeOK
    <3>2. /\ KeepsState(d) => walk'.frontier = walk.frontier
          /\ ~KeepsState(d) => walk'.frontier = <<d>> \o walk.frontier
        BY <1>1
    <3>3. CASE v = d
      <4>1. CASE KeepsState(d)
          BY <1>5, <1>7, <3>3, <4>1 DEF KeepsState
      <4>2. CASE ~KeepsState(d)
        <5>1. 1 \in DOMAIN walk'.frontier /\ walk'.frontier[1] = v
            BY <1>5, <3>1, <3>2, <3>3, <4>2
        <5> QED BY <5>1
      <4> QED BY <4>1, <4>2
    <3>4. CASE v # d
      <4>1. v \in walk.visited
          BY <1>12, <3>4
      <4>2. \/ v \in Tasks /\ task[v] = "completed"
            \/ v = walk.top
            \/ \E i \in DOMAIN walk.frontier : walk.frontier[i] = v
            \/ Dependents(plan, v) \subseteq walk.visited
          BY <1>8, <1>12, <4>1 DEF GraphInv, WalkInv
      <4>3. ASSUME NEW i \in DOMAIN walk.frontier, walk.frontier[i] = v
            PROVE  \E j \in DOMAIN walk'.frontier : walk'.frontier[j] = v
        <5>1. CASE KeepsState(d)
            BY <3>2, <4>3, <5>1
        <5>2. CASE ~KeepsState(d)
          <6>1. i + 1 \in DOMAIN (<<d>> \o walk.frontier) /\ (<<d>> \o walk.frontier)[i + 1] = v
              BY <1>5, <3>1, <4>3, PrependShifts
          <6>2. i + 1 \in DOMAIN walk'.frontier /\ walk'.frontier[i + 1] = v
              BY <3>2, <5>2, <6>1
          <6> QED BY <6>2
        <5> QED BY <5>1, <5>2
      <4> QED BY <1>7, <1>12, <2>1, <4>2, <4>3
    <3> QED BY <3>3, <3>4
  <2> QED BY <1>2, <1>12, <2>1, <2>2 DEF WalkInv
<1>17. ReworkInv'
  <2>1. mark.after = "loop" => mark.task \in ReworkSeeds(plan, cur) /\ plan.op[cur] = "review"
      BY <1>8, <1>12 DEF GraphInv, ReworkInv
  <2>2. ASSUME Reworking \/ Repairing
        PROVE  /\ cur \in Tasks
               /\ \A s \in ReworkSeeds(plan, cur) : \A a \in Ancestors(plan, cur) \ {s} :
                      task'[a] # "completed"
    <3>1. /\ cur \in Tasks
          /\ \A s \in ReworkSeeds(plan, cur) : \A a \in Ancestors(plan, cur) \ {s} :
                  task[a] # "completed"
        BY <1>8, <1>12, <2>2 DEF GraphInv, ReworkInv
    <3>2. Ancestors(plan, cur) \subseteq Tasks
        BY PlanIs, <3>1, Closed
    <3> QED BY <1>7, <3>1, <3>2
  <2> QED BY <1>2, <1>9, <2>1, <2>2 DEF ReworkInv
<1>18. FailInv'
    BY <1>8 DEF FailInv
<1> QED BY <1>13, <1>14, <1>15, <1>16, <1>17, <1>18 DEF GraphInv

\* Going on to the next task of the frontier leaves nothing behind unvisited.
LEMMA DescendSchedule ==
    ASSUME TypeOK, SchedInv, plan # NoPlan, WalkDescend
    PROVE  GraphInv'
<1> USE DEF Marking, BeforeMark, AfterMark
<1>1. /\ pc = "walk" /\ pc' = "walk" /\ Dependents(plan, walk.top) \subseteq walk.visited
      /\ walk.frontier # <<>>
      /\ walk' = [top |-> Head(walk.frontier), frontier |-> Tail(walk.frontier),
                  visited |-> walk.visited]
      /\ UNCHANGED <<plan, status, task, tries, cur, mark, todo, recon>>
    BY DEF WalkDescend, Unvisited, database
<1>2. GraphInv
    BY DEF SchedInv
<1>3. /\ ReadyInv' /\ PendingInv' /\ HandInv' /\ ReworkInv' /\ FailInv'
    BY <1>1, <1>2 DEF GraphInv, ReadyInv, PendingInv, HandInv, ReworkInv, FailInv, DepsDone, Excused,
       Reworking, Repairing, Unwinding, Reconciling, Busy
<1>4. WalkInv'
  <2>1. /\ walk'.visited = walk.visited
        /\ walk.top = mark.task \/ Dependents(plan, mark.task) \subseteq walk.visited
      BY <1>1, <1>2 DEF GraphInv, WalkInv
  <2>2. ASSUME NEW v \in walk.visited
        PROVE  \/ v \in Tasks /\ task[v] = "completed"
               \/ v = walk'.top
               \/ \E i \in DOMAIN walk'.frontier : walk'.frontier[i] = v
               \/ Dependents(plan, v) \subseteq walk.visited
    <3>1. \/ v \in Tasks /\ task[v] = "completed"
          \/ v = walk.top
          \/ \E i \in DOMAIN walk.frontier : walk.frontier[i] = v
          \/ Dependents(plan, v) \subseteq walk.visited
        BY <1>1, <1>2 DEF GraphInv, WalkInv
    <3>2. ASSUME NEW i \in DOMAIN walk.frontier, walk.frontier[i] = v
          PROVE  \/ v = walk'.top
                 \/ \E j \in DOMAIN walk'.frontier : walk'.frontier[j] = v
      <4>1. walk.frontier \in Seq(Tasks) /\ walk'.top = Head(walk.frontier)
            /\ walk'.frontier = Tail(walk.frontier)
          BY <1>1 DEF TypeOK
      <4>2. CASE i = 1
          BY <3>2, <4>1, <4>2
      <4>3. CASE i # 1
        <5>1. i - 1 \in DOMAIN Tail(walk.frontier) /\ Tail(walk.frontier)[i - 1] = v
            BY <1>1, <3>2, <4>1, <4>3
        <5> QED BY <4>1, <5>1
      <4> QED BY <4>2, <4>3
    <3> QED BY <1>1, <3>1, <3>2
  <2> QED BY <1>1, <2>1, <2>2 DEF WalkInv
<1> QED BY <1>3, <1>4 DEF GraphInv

\* The end of the walk: all it visited is behind it, and so is all that a rework
\* had unwound.
LEMMA ReturnSchedule ==
    ASSUME \A p \in Plans : ReworkReaches(p), TypeOK, IInv, OrderInv, SchedInv, plan # NoPlan,
           MarkReturn
    PROVE  GraphInv'
<1> USE DEF Marking, BeforeMark, AfterMark
<1>1. /\ pc = "walk" /\ pc' = mark.after /\ Dependents(plan, walk.top) \subseteq walk.visited
      /\ walk.frontier = <<>>
      /\ UNCHANGED <<plan, status, task, tries, cur, todo, recon>>
    BY DEF MarkReturn, Unvisited, database
<1>2. /\ mark.after \in {"begin", "launch", "again", "kick", "fail", "loop", "cleanup"}
      /\ mark.task \in walk.visited /\ mark.task \in Tasks
      /\ task[mark.task] = mark.target /\ mark.target = Target(mark.after)
    BY <1>1 DEF IInv, WorkInv, SchedInv, CalmInv, OrderInv, MarkInv
<1>3. GraphInv /\ ~AfterMark' /\ ~BeforeMark' /\ ~Unwinding' /\ ~Unwinding
      /\ (Reworking' <=> mark.after = "kick") /\ (Reworking <=> mark.after = "kick")
      /\ ~Repairing' /\ (Repairing <=> mark.after = "loop")
    BY <1>1, <1>2 DEF SchedInv, Unwinding, Reconciling, Reworking, Repairing
<1>4. \A v \in walk.visited : \/ v \in Tasks /\ task[v] = "completed"
                              \/ Dependents(plan, v) \subseteq walk.visited
  <2>1. DOMAIN walk.frontier = {}
      BY <1>1
  <2> QED BY <1>1, <1>3, <2>1 DEF GraphInv, WalkInv
<1>5. Dependents(plan, mark.task) \subseteq walk.visited
    BY <1>1, <1>3 DEF GraphInv, WalkInv
<1>6. plan \in PlanType /\ Acyclic(plan) /\ ReworkReaches(plan)
      /\ \A t \in Tasks : plan.deps[t] \subseteq Tasks /\ t \notin plan.deps[t]
    BY PlanIs
<1>7. mark.after = "loop" =>
        /\ Ancestors(plan, cur) \subseteq walk.visited
        /\ \A a \in Ancestors(plan, cur) : task[a] # "completed"
  <2> SUFFICES ASSUME mark.after = "loop"
               PROVE  /\ Ancestors(plan, cur) \subseteq walk.visited
                      /\ \A a \in Ancestors(plan, cur) : task[a] # "completed"
      OBVIOUS
  <2>1. /\ cur \in Tasks /\ mark.task \in ReworkSeeds(plan, cur) /\ plan.op[cur] = "review"
        /\ \A a \in Ancestors(plan, cur) \ {mark.task} : task[a] # "completed"
      BY <1>1, <1>3 DEF GraphInv, ReworkInv
  <2>2. \A a \in Ancestors(plan, cur) : task[a] # "completed"
      BY <1>2, <2>1 DEF Target
  <2>3. \A v \in walk.visited \cap Ancestors(plan, cur) : Dependents(plan, v) \subseteq walk.visited
      BY <1>4, <2>2
  <2>4. Ancestors(plan, cur) \subseteq walk.visited
      BY <1>2, <1>6, <2>1, <2>3, SeedReaches
  <2> QED BY <2>2, <2>4
<1> HIDE DEF AfterMark, BeforeMark
<1>8. ReadyInv'
  <2> SUFFICES ASSUME NEW t \in Tasks, task[t] = "ready", NEW d \in plan.deps[t], task[d] # "completed"
               PROVE  d \in Ancestors(plan, cur) /\ Excused(t)'
      BY <1>1 DEF ReadyInv
  <2>1. d \in Ancestors(plan, cur) /\ Excused(t)
      BY <1>3 DEF GraphInv, ReadyInv
  <2>2. mark.after = "loop" => t \in walk.visited
    <3>1. d \in Tasks /\ t \in Dependents(plan, d)
        BY <1>6 DEF Dependents
    <3> QED BY <1>4, <1>7, <2>1, <3>1
  <2> QED BY <1>1, <1>3, <2>1, <2>2 DEF Excused
<1>9. PendingInv'
  <2> SUFFICES ASSUME NEW t \in Tasks, task[t] = "pending", DepsDone(t)
               PROVE  t \in Ancestors(plan, cur) /\ Excused(t)'
      BY <1>1 DEF PendingInv, DepsDone
  <2>1. \/ t \in Ancestors(plan, cur) /\ Excused(t)
        \/ mark.task \in plan.deps[t] /\ t \notin walk.visited
      BY <1>3 DEF GraphInv, PendingInv
  <2>2. t \in Ancestors(plan, cur) /\ Excused(t)
      BY <1>5, <2>1 DEF Dependents
  <2> QED BY <1>1, <1>3, <1>7, <2>2 DEF Excused
<1>10. HandInv'
  <2> SUFFICES ASSUME mark.after \in {"launch", "again", "begin"} PROVE DepsDone(cur)'
      BY <1>1, <1>2, <1>3 DEF HandInv, Busy
  <2>1. DepsDone(cur)
      BY <1>1, <1>3 DEF GraphInv, HandInv, AfterMark
  <2> QED BY <1>1, <2>1 DEF DepsDone
<1>11. WalkInv'
    BY <1>3 DEF WalkInv
<1>12. ReworkInv'
    BY <1>1, <1>3 DEF GraphInv, ReworkInv
<1>13. FailInv'
  <2> SUFFICES ASSUME mark.after = "fail" PROVE Spent'
      BY <1>1, <1>2 DEF FailInv
  <2> QED BY <1>1, <1>2 DEF Spent, Target
<1> QED BY <1>8, <1>9, <1>10, <1>11, <1>12, <1>13 DEF GraphInv

\* A completed ancestor is unwound.
LEMMA UnwindSchedule ==
    ASSUME \A p \in Plans : ReworkReaches(p), TypeOK, IInv, OrderInv, SchedInv, plan # NoPlan,
           Unwind
    PROVE  GraphInv'
<1> USE DEF Marking, BeforeMark, AfterMark
<1>1. PICK a \in todo : task' = [task EXCEPT ![a] = "pending"] /\ todo' = todo \ {a}
    BY DEF Unwind
<1>2. /\ pc = "unwind" /\ pc' = "recon" /\ recon'.after = "unwind"
      /\ UNCHANGED <<plan, status, tries, cur, mark, walk>>
    BY DEF Unwind, Reconcile
<1>3. /\ ~Marking /\ ~Marking' /\ Unwinding /\ Unwinding' /\ Reworking /\ Reworking'
      /\ ~Repairing /\ ~Repairing'
    BY <1>2 DEF Unwinding, Reconciling, Reworking, Repairing
<1>4. a \in Ancestors(plan, cur) /\ a \in Tasks /\ cur \in Tasks /\ GraphInv
    BY <1>3 DEF IInv, ReviewInv, WorkInv, SchedInv, TypeOK
<1>5. /\ \A t \in Tasks : t # a => task'[t] = task[t]
      /\ task'[a] = "pending"
    BY <1>1, <1>4 DEF TypeOK
<1>6. \A t \in Tasks : plan.deps[t] \subseteq Tasks
    BY PlanIs
<1> HIDE DEF Marking, BeforeMark, AfterMark
<1>7. ReadyInv'
  <2> SUFFICES ASSUME NEW t \in Tasks, task'[t] = "ready", NEW d \in plan.deps[t], task'[d] # "completed"
               PROVE  d \in Ancestors(plan, cur)
      BY <1>2, <1>3 DEF ReadyInv, Excused
  <2>1. task[t] = "ready" /\ d \in Tasks
      BY <1>5, <1>6
  <2> QED BY <1>4, <1>5, <2>1 DEF GraphInv, ReadyInv
<1>8. PendingInv'
  <2> SUFFICES ASSUME NEW t \in Tasks, task'[t] = "pending", DepsDone(t)'
               PROVE  t \in Ancestors(plan, cur)
      BY <1>2, <1>3 DEF PendingInv, Excused
  <2>1. CASE t = a
      BY <1>4, <2>1
  <2>2. CASE t # a
    <3>1. task[t] = "pending" /\ DepsDone(t)
        BY <1>2, <1>5, <1>6, <2>2 DEF DepsDone
    <3> QED BY <1>3, <1>4, <3>1 DEF GraphInv, PendingInv, Marking
  <2> QED BY <2>1, <2>2
<1>9. HandInv' /\ WalkInv' /\ FailInv'
    BY <1>2, <1>3 DEF HandInv, WalkInv, FailInv, Busy, Marking
<1>10. ReworkInv'
  <2>1. \A s \in ReworkSeeds(plan, cur) : \A u \in Ancestors(plan, cur) \ {s} :
            task'[u] = "completed" => u \in todo'
    <3>1. Ancestors(plan, cur) \subseteq Tasks
        BY <1>4, PlanIs, Closed
    <3>2. \A s \in ReworkSeeds(plan, cur) : \A u \in Ancestors(plan, cur) \ {s} :
            task[u] = "completed" => u \in todo
        BY <1>3, <1>4 DEF GraphInv, ReworkInv
    <3> QED BY <1>1, <1>5, <3>1, <3>2
  <2> QED BY <1>2, <1>3, <1>4, <2>1 DEF ReworkInv
<1> QED BY <1>7, <1>8, <1>9, <1>10 DEF GraphInv

\* Neither a stop, an error nor a manual retry, as none may be injected.
LEMMA CalmNext ==
    ASSUME Faults = {}, TypeOK, IInv, SchedInv, [Next]_vars
    PROVE  CalmInv'
<1> USE DEF CalmInv, Marking, BeforeMark, AfterMark, Reconciling, Recovering, SchedInv
<1>1. CASE MarkTask
  <2>1. /\ Reconciling => recon.after \in {"walk", "unwind"}
        /\ Marking => mark.after \in {"begin", "launch", "again", "kick", "fail", "loop", "cleanup"}
      BY DEF IInv, WorkInv
  <2>2. CASE MarkUpdate \/ WalkVisit
    <3>1. pc' \in {"recon", "walk", "fail"} /\ (pc' # "fail" => mark'.after = mark.after) /\ Marking
        BY <2>1, <2>2 DEF MarkUpdate, WalkVisit, Reconcile, OnError
    <3> QED BY <2>1, <3>1
  <2>3. CASE ReconcileRead \/ ReconcileWrite
      BY <2>1, <2>3 DEF ReconcileRead, ReconcileWrite
  <2>4. CASE WalkDescend \/ MarkReturn
      BY <2>1, <2>4 DEF WalkDescend, MarkReturn, NoMark
  <2> QED BY <1>1, <2>2, <2>3, <2>4 DEF MarkTask
<1>2. CASE Execute
  <2> USE DEF Goto, StartMark, Reconcile
  <2>1. CASE SpawnExecution \/ CheckCancel \/ PickTask \/ NothingReady
      BY <2>1 DEF SpawnExecution, CheckCancel, PickTask, NothingReady
  <2>2. CASE BeginAttempt \/ AttemptsExhausted \/ TryAgain \/ Launch
      BY <2>2 DEF BeginAttempt, AttemptsExhausted, TryAgain, Launch
  <2>3. CASE Integrate \/ StartRework \/ NoRework
      BY <2>3 DEF Integrate, StartRework, NoRework, Settle
  <2>4. CASE Unwind \/ BlockReview \/ KickSeed
      BY <2>4 DEF Unwind, BlockReview, KickSeed
  <2>5. CASE CleanUp \/ DecideVerdict \/ WriteVerdict \/ Release
      BY <2>5 DEF CleanUp, DecideVerdict, WriteVerdict, Release, ForgetThread, NoMark, NoRecon
  <2> QED BY <1>2, <2>1, <2>2, <2>3, <2>4, <2>5 DEF Execute
<1>3. CASE Prepare
    BY <1>3 DEF Prepare, ReservePlanning, PlanRun, PrepareStart, PolicyBlocks, Activate, PrepareRetry,
       Reserve, Goto
<1>4. CASE AgentStep \/ AgentCancelled
  <2>1. CASE PersistPlan \/ PlannerFails \/ ProducerSucceeds \/ ReviewerApproves \/ ReviewTaskRequestsChanges
      BY <2>1 DEF PersistPlan, PlannerFails, ProducerSucceeds, ReviewerApproves, ReviewTaskRequestsChanges, Goto
  <2>2. CASE \/ AgentCancelled \/ AgentFails \/ AgentAborts \/ AdvisorySucceeds
             \/ ReviewerRequestsChanges \/ ReviewTaskApproves
      BY <2>2 DEF AgentCancelled, AgentFails, AgentAborts, AdvisorySucceeds, ReviewerRequestsChanges,
         ReviewTaskApproves, Settle, StartMark
  <2> QED BY <1>4, <2>1, <2>2 DEF AgentStep
<1>5. CASE BeginRun \/ StartWorkflow \/ CancelWorkflow \/ CancelRun \/ UNCHANGED vars
    BY <1>5 DEF BeginRun, StartWorkflow, CancelWorkflow, CancelRun, CancelStore, CancelRead, CancelWrite,
       CancelLost, thread, vars
<1>6. CASE RetryTask \/ ErrorEscapes \/ VerdictLost \/ OpenFails \/ Crash \/ Recover
    BY <1>6 DEF RetryTask, ErrorEscapes, VerdictLost, OpenFails, Crash, Recover, Restart, RecoverAttempts,
       RecoverTasks, RecoverRuns
<1> QED BY <1>1, <1>2, <1>3, <1>4, <1>5, <1>6 DEF Next

\* The rows of a plan are written.
LEMMA PersistSchedule ==
    ASSUME TypeOK, TypeOK', IInv, OrderInv, PersistPlan
    PROVE  GraphInv'
<1>1. PICK p \in Plans : plan' = p /\ task' = [t \in Tasks |-> InitialState(p.deps[t])]
    BY DEF PersistPlan
<1>2. p \in PlanType
    BY EngineAssumption
<1>3. \A t \in Tasks : /\ task'[t] = "ready" => p.deps[t] = {}
                       /\ task'[t] = "pending" => p.deps[t] # {}
                       /\ task'[t] # "completed"
    BY <1>1 DEF InitialState
<1>4. \A t \in Tasks : p.deps[t] \subseteq Tasks
    BY <1>2 DEF PlanType
<1>5. pc' = "release" /\ status' = "planned"
    BY DEF PersistPlan
<1>6. ReadyInv'
    BY <1>1, <1>3 DEF ReadyInv
<1>7. PendingInv'
    BY <1>1, <1>3, <1>4 DEF PendingInv, DepsDone
<1>8. HandInv' /\ WalkInv' /\ ReworkInv' /\ FailInv'
    BY <1>5 DEF HandInv, WalkInv, ReworkInv, FailInv, Busy, Marking, BeforeMark, AfterMark, Reconciling,
       Reworking, Repairing, Unwinding
<1> QED BY <1>6, <1>7, <1>8 DEF GraphInv

\* A step that changes nothing a task's state is judged by, outside mark_task and
\* rework_after_review or standing still in them.
LEMMA StillSchedule ==
    ASSUME GraphInv, UNCHANGED <<plan, task, tries, cur, todo, mark, walk, recon>>,
           \/ pc' = pc
           \/ {pc, pc'} \cap {"mark", "walk", "recon", "reconWrite", "unwind", "kick"} = {},
           HandInv', FailInv'
    PROVE  GraphInv'
<1> USE DEF GraphInv, DepsDone, Marking, BeforeMark, AfterMark, Reconciling, Unwinding
<1>1. /\ (AfterMark' <=> AfterMark) /\ (BeforeMark' <=> BeforeMark)
      /\ (Unwinding' <=> Unwinding)
      /\ (Reworking' <=> Reworking) /\ (Repairing' <=> Repairing)
    BY DEF Reworking, Repairing
<1>2. ReadyInv' /\ PendingInv'
    BY <1>1 DEF ReadyInv, PendingInv, Excused
<1>3. WalkInv' /\ ReworkInv'
    BY <1>1 DEF WalkInv, ReworkInv
<1> QED BY <1>2, <1>3

\* The steps that change no task.
LEMMA OtherSchedule ==
    ASSUME Faults = {}, \A p \in Plans : ReworkReaches(p), TypeOK, TypeOK', IInv, OrderInv, SchedInv,
           plan # NoPlan, [Next]_vars, ~MarkUpdate, ~WalkVisit, ~WalkDescend, ~MarkReturn, ~Unwind,
           ~PersistPlan
    PROVE  GraphInv'
<1> USE DEF GraphInv, ReadyInv, PendingInv, HandInv, WalkInv, ReworkInv, FailInv, Spent, DepsDone, Excused,
        Reworking, Repairing, Unwinding, Marking, BeforeMark, AfterMark, Reconciling, Busy, TypeOK,
        database, thread
<1>0. GraphInv /\ CalmInv
    BY DEF SchedInv
<1>1. CASE ReconcileRead
    BY <1>0, <1>1 DEF ReconcileRead, NoRecon, IInv, WorkInv
<1>2. CASE ReconcileWrite
    BY <1>0, <1>2 DEF ReconcileWrite, NoRecon, IInv, WorkInv
<1>3. CASE BeginRun
    BY <1>0, <1>3 DEF BeginRun
<1>4. CASE ReservePlanning
    BY <1>0, <1>4 DEF ReservePlanning, Reserve
<1>5. CASE PlanRun
    BY <1>0, <1>5 DEF PlanRun, Goto, IInv, PlanInv, Planning
<1>6. CASE PlannerFails
    BY <1>0, <1>6 DEF PlannerFails, Goto, IInv, PlanInv, Planning
<1>7. CASE StartWorkflow
    BY <1>0, <1>7 DEF StartWorkflow, Reserve
<1>8. CASE PrepareStart
  <2>1. HandInv'
      BY <1>0, <1>8 DEF PrepareStart, Goto
  <2>2. FailInv'
      BY <1>0, <1>8 DEF PrepareStart, Goto
  <2>3. /\ UNCHANGED <<plan, task, tries, cur, todo, mark, walk, recon>>
        /\ \/ pc' = pc
           \/ {pc, pc'} \cap {"mark", "walk", "recon", "reconWrite", "unwind", "kick"} = {}
      BY <1>8 DEF PrepareStart, Goto
  <2> QED BY <1>0, <2>1, <2>2, <2>3, StillSchedule
<1>9. CASE PolicyBlocks
  <2>1. HandInv'
      BY <1>0, <1>9 DEF PolicyBlocks, PolicyStatus
  <2>2. FailInv'
      BY <1>0, <1>9 DEF PolicyBlocks, PolicyStatus
  <2>3. /\ UNCHANGED <<plan, task, tries, cur, todo, mark, walk, recon>>
        /\ \/ pc' = pc
           \/ {pc, pc'} \cap {"mark", "walk", "recon", "reconWrite", "unwind", "kick"} = {}
      BY <1>9 DEF PolicyBlocks, PolicyStatus
  <2> QED BY <1>0, <2>1, <2>2, <2>3, StillSchedule
<1>10. CASE Activate
    BY <1>0, <1>10 DEF Activate
<1>11. CASE SpawnExecution
    BY <1>0, <1>11 DEF SpawnExecution, Goto
<1>12. CASE CheckCancel
    BY <1>0, <1>12 DEF CheckCancel
<1>13. CASE PickTask
    BY <1>0, <1>13 DEF PickTask, ReadyTasks
<1>14. CASE NothingReady
  <2> DEFINE resting == RestingVerdict({task[t] : t \in Tasks})
  <2>1. resting = "failed" => \E t \in Tasks : task[t] = "failed"
    <3> DEFINE states == {task[t] : t \in Tasks}
    <3>1. \A y \in states : \E t \in Tasks : y = task[t]
        OBVIOUS
    <3> HIDE DEF states
    <3>2. RestingVerdict(states) = "failed" => "failed" \in states
        BY DEF RestingVerdict
    <3> QED BY <3>1, <3>2 DEF states
  <2> HIDE DEF resting
  <2> QED BY <1>0, <1>14, <2>1 DEF NothingReady, resting
<1>15. CASE BeginAttempt
    BY <1>0, <1>15 DEF BeginAttempt, StartMark, NextAttempt, AttemptsLeft
<1>16. CASE AttemptsExhausted
  <2>1. HandInv'
      BY <1>0, <1>16 DEF AttemptsExhausted, Goto, AttemptsLeft
  <2>2. FailInv'
    <3>1. cur \in Tasks /\ ~(tries[cur] < MaxAttempts) /\ pc' = "fail" /\ tries' = tries
        BY <1>16 DEF AttemptsExhausted, Goto, AttemptsLeft, IInv, WorkInv, Working
    <3>2. tries[cur] = MaxAttempts
        BY <3>1, EngineAssumption
    <3> QED BY <3>1, <3>2
  <2>3. /\ UNCHANGED <<plan, task, tries, cur, todo, mark, walk, recon>>
        /\ \/ pc' = pc
           \/ {pc, pc'} \cap {"mark", "walk", "recon", "reconWrite", "unwind", "kick"} = {}
      BY <1>16 DEF AttemptsExhausted, Goto, AttemptsLeft
  <2> QED BY <1>0, <2>1, <2>2, <2>3, StillSchedule
<1>17. CASE TryAgain
    BY <1>0, <1>17 DEF TryAgain, StartMark
<1>18. CASE Launch
  <2>1. HandInv'
      BY <1>0, <1>18 DEF Launch, Goto
  <2>2. FailInv'
      BY <1>0, <1>18 DEF Launch, Goto
  <2>3. /\ UNCHANGED <<plan, task, tries, cur, todo, mark, walk, recon>>
        /\ \/ pc' = pc
           \/ {pc, pc'} \cap {"mark", "walk", "recon", "reconWrite", "unwind", "kick"} = {}
      BY <1>18 DEF Launch, Goto
  <2> QED BY <1>0, <2>1, <2>2, <2>3, StillSchedule
<1>19. CASE AgentCancelled
    BY <1>0, <1>19 DEF AgentCancelled, Killable, Settle, StartMark
<1>20. CASE AgentFails
    BY <1>0, <1>20 DEF AgentFails, Settle, StartMark
<1>21. CASE AgentAborts
    BY <1>0, <1>21 DEF AgentAborts, Settle, StartMark
<1>22. CASE ProducerSucceeds
    BY <1>0, <1>22 DEF ProducerSucceeds
<1>23. CASE AdvisorySucceeds
    BY <1>0, <1>23 DEF AdvisorySucceeds, Settle, StartMark
<1>24. CASE ReviewerApproves
    BY <1>0, <1>24 DEF ReviewerApproves, Goto
<1>25. CASE ReviewerRequestsChanges
    BY <1>0, <1>25 DEF ReviewerRequestsChanges, Settle, StartMark
<1>26. CASE Integrate
    BY <1>0, <1>26 DEF Integrate, Settle, StartMark
<1>27. CASE ReviewTaskApproves
    BY <1>0, <1>27 DEF ReviewTaskApproves, Settle, StartMark
<1>28. CASE ReviewTaskRequestsChanges
    BY <1>0, <1>28 DEF ReviewTaskRequestsChanges
<1>29. CASE StartRework
  <2>1. PICK s \in ReworkSeeds(plan, cur) :
            todo' = {u \in Ancestors(plan, cur) \ {s} : task[u] = "completed"}
      BY <1>29 DEF StartRework
  <2>2. cur \in Tasks /\ \A u \in ReworkSeeds(plan, cur) : u = s
      BY <1>29, <2>1, PlanIs, OneSeed DEF StartRework, IInv, WorkInv, Working
  <2> QED BY <1>0, <1>29, <2>1, <2>2 DEF StartRework
<1>30. CASE NoRework
    BY <1>0, <1>30 DEF NoRework, StartMark, IInv, WorkInv, ReviewInv
<1>31. CASE BlockReview
    BY <1>0, <1>31 DEF BlockReview, StartMark, IInv, WorkInv, ReviewInv
<1>32. CASE KickSeed
    BY <1>0, <1>32 DEF KickSeed, StartMark, IInv, WorkInv, ReviewInv
<1>33. CASE CleanUp
    BY <1>0, <1>33 DEF CleanUp, Goto
<1>34. CASE DecideVerdict
    BY <1>0, <1>34 DEF DecideVerdict
<1>35. CASE WriteVerdict
    BY <1>0, <1>35 DEF WriteVerdict
<1>36. CASE Release
    BY <1>0, <1>36 DEF Release, ForgetThread, NoMark, NoRecon
<1>37. CASE CancelWorkflow
  <2>1. HandInv'
      BY <1>0, <1>37 DEF CancelWorkflow
  <2>2. FailInv'
      BY <1>0, <1>37 DEF CancelWorkflow
  <2>3. /\ UNCHANGED <<plan, task, tries, cur, todo, mark, walk, recon>>
        /\ \/ pc' = pc
           \/ {pc, pc'} \cap {"mark", "walk", "recon", "reconWrite", "unwind", "kick"} = {}
      BY <1>37 DEF CancelWorkflow
  <2> QED BY <1>0, <2>1, <2>2, <2>3, StillSchedule
<1>38. CASE CancelRun
  <2>1. HandInv'
      BY <1>0, <1>38 DEF CancelRun, CancelStore, CancelRead, CancelWrite, CancelLost
  <2>2. FailInv'
      BY <1>0, <1>38 DEF CancelRun, CancelStore, CancelRead, CancelWrite, CancelLost
  <2>3. /\ UNCHANGED <<plan, task, tries, cur, todo, mark, walk, recon>>
        /\ \/ pc' = pc
           \/ {pc, pc'} \cap {"mark", "walk", "recon", "reconWrite", "unwind", "kick"} = {}
      BY <1>38 DEF CancelRun, CancelStore, CancelRead, CancelWrite, CancelLost
  <2> QED BY <1>0, <2>1, <2>2, <2>3, StillSchedule
<1>39. CASE UNCHANGED vars
  <2>1. HandInv'
      BY <1>0, <1>39 DEF vars
  <2>2. FailInv'
      BY <1>0, <1>39 DEF vars
  <2>3. /\ UNCHANGED <<plan, task, tries, cur, todo, mark, walk, recon>>
        /\ \/ pc' = pc
           \/ {pc, pc'} \cap {"mark", "walk", "recon", "reconWrite", "unwind", "kick"} = {}
      BY <1>39 DEF vars
  <2> QED BY <1>0, <2>1, <2>2, <2>3, StillSchedule
<1>40. ~(RetryTask \/ PrepareRetry \/ ErrorEscapes \/ VerdictLost \/ OpenFails \/ Crash \/ Recover)
    BY <1>0 DEF CalmInv, Recovering, RetryTask, PrepareRetry, ErrorEscapes, VerdictLost, OpenFails, Crash,
       Recover, Restart, RecoverAttempts, RecoverTasks, RecoverRuns
<1> HIDE DEF GraphInv
<1> QED
    BY <1>40,
       <1>1, <1>2, <1>3, <1>4, <1>5, <1>6, <1>7, <1>8, <1>9, <1>10, <1>11, <1>12, <1>13, <1>14,
       <1>15, <1>16, <1>17, <1>18, <1>19, <1>20, <1>21, <1>22, <1>23, <1>24, <1>25, <1>26, <1>27,
       <1>28, <1>29, <1>30, <1>31, <1>32, <1>33, <1>34, <1>35, <1>36, <1>37, <1>38, <1>39
    DEF Next, Prepare, Execute, MarkTask, AgentStep

LEMMA SchedNext ==
    ASSUME Faults = {}, \A p \in Plans : ReworkReaches(p), TypeOK, TypeOK', IInv, OrderInv, SchedInv,
           [Next]_vars
    PROVE  SchedInv'
<1>1. CalmInv'
    BY CalmNext
<1>2. CASE PersistPlan
    BY <1>1, <1>2, PersistSchedule DEF SchedInv
<1>3. CASE ~PersistPlan
  <2>1. plan' = plan
      BY <1>3 DEF database, Next, Prepare, Execute, MarkTask, AgentStep, CancelRun,
          Recover, MarkUpdate, ReconcileRead, ReconcileWrite, WalkVisit,
          WalkDescend, MarkReturn, BeginRun, ReservePlanning, PlanRun,
          PersistPlan, PlannerFails, StartWorkflow, PrepareStart,
          PolicyBlocks, Activate, RetryTask, PrepareRetry, SpawnExecution,
          CheckCancel, PickTask, NothingReady, BeginAttempt, AttemptsExhausted, TryAgain,
          Launch, AgentCancelled, AgentFails, AgentAborts, ProducerSucceeds,
          AdvisorySucceeds, ReviewerApproves, ReviewerRequestsChanges,
          Integrate, ReviewTaskApproves, ReviewTaskRequestsChanges,
          StartRework, NoRework, Unwind, BlockReview, KickSeed, CleanUp,
          DecideVerdict, WriteVerdict, Release, ErrorEscapes, VerdictLost,
          OpenFails, CancelWorkflow, CancelStore, CancelRead, CancelWrite, CancelLost,
          Crash, Restart, RecoverAttempts, RecoverTasks, RecoverRuns, Goto,
          Settle, vars
  <2>2. plan # NoPlan => GraphInv'
      BY <1>3, MarkSchedule, VisitSchedule, DescendSchedule, ReturnSchedule, UnwindSchedule,
         OtherSchedule
  <2> QED BY <1>1, <2>1, <2>2 DEF SchedInv
<1> QED BY <1>2, <1>3

LEMMA SchedAlways ==
    ASSUME Faults = {}, \A p \in Plans : ReworkReaches(p)
    PROVE  Spec => [](TypeOK /\ IInv /\ OrderInv /\ SchedInv)
<1>1. TypeOK /\ IInv /\ OrderInv /\ (TypeOK /\ IInv /\ OrderInv)' /\ SchedInv /\ [Next]_vars => SchedInv'
    BY SchedNext
<1>2. "error" \notin Faults
    OBVIOUS
<1>3. Spec => [](TypeOK /\ IInv /\ OrderInv)
    BY <1>2, OrderAlways
<1> QED BY <1>1, <1>3, SchedInit, PTL DEF Spec

\* For every plan whose reworks reach what they unwind, any failed attempts, rejected
\* reviews and cancellations, but no stop of the server, escaping error or manual
\* retry: a task is worked on only after what it depends on, no task is left
\* pending with nothing to wait for, and a failed run has something to retry.
THEOREM ScheduleIsSound ==
    ASSUME Faults = {}, \A p \in Plans : ReworkReaches(p)
    PROVE  Spec => []ScheduleSound
<1> USE DEF Marking, BeforeMark, AfterMark, Reconciling, Unwinding, Busy
<1>1. TypeOK /\ IInv /\ OrderInv /\ SchedInv => DependenciesFirst
  <2> SUFFICES ASSUME IInv, SchedInv, pc \in {"invoke", "review", "integrate"} PROVE DepsDone(cur)
      BY DEF DependenciesFirst, DepsDone
  <2> QED BY DEF SchedInv, GraphInv, HandInv, IInv, PlanInv, Planned, Working
<1>2. TypeOK /\ IInv /\ OrderInv /\ SchedInv => PendingWaits
    BY DEF PendingWaits, SchedInv, GraphInv, PendingInv, DepsDone, Excused, Reworking, Repairing
<1>3. TypeOK /\ IInv /\ OrderInv /\ SchedInv => FailedRunRetryable
    BY EngineAssumption DEF FailedRunRetryable, TypeOK, SchedInv, GraphInv, FailInv, Spent, MayRetry,
       AttemptsLeft
<1> QED BY <1>1, <1>2, <1>3, SchedAlways, PTL DEF ScheduleSound
=============================================================================
