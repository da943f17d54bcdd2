------------------------------ MODULE Attempts ------------------------------
(***************************************************************************)
(* What the executor does to the Git repository while it works through a   *)
(* run: a worktree and a branch per task, the attempt with its session,    *)
(* its grant and its evidence, the review of that evidence, and the        *)
(* integration of approved work onto the run's branch.                     *)
(*                                                                         *)
(* A patch is the change one agent made in one attempt; every patch is to  *)
(* files of its own.  A commit is the sequence of patches its history is   *)
(* made of, so ancestry is the prefix order and the tree of a commit is    *)
(* the set of its patches.  The states of tasks and runs are the ones of   *)
(* RunEngine, whose interleavings with requests are left to it: here the   *)
(* writes that close an attempt are one step, and the repository's own     *)
(* writes, which no transaction joins, are steps of their own.             *)
(***************************************************************************)
EXTENDS TaskGraph, SequencesExt, Sift

CONSTANTS Plans,        \* the plans a run may have: dependencies and operations
          MaxAttempts,  \* MAX_TASK_ATTEMPTS
          Hazards,      \* what may go wrong: "stop", "conflict", "main",
                        \* "unblock" (a blocked task is retried)
          Writers,      \* the operations whose agents change files
          MaxStops      \* bound on the times the server stops

ASSUME AttemptsAssumption ==
    /\ Plans \subseteq PlanType /\ \A p \in Plans : Acyclic(p)
    /\ MaxAttempts \in Nat \ {0} /\ MaxStops \in Nat
    /\ Writers \subseteq Operations

\* The run's own branch stands among the tasks' branches under this name.
RunBranch == 0

VARIABLES plan,      \* the run's plan
          main,      \* the user's branch, and the head of the main worktree
          branch,    \* the branches Factory made: a commit each
          tree,      \* the task worktrees: HEAD, uncommitted work, mid-rebase
          path,      \* the tasks whose row names a worktree
          recorded,  \* the integration commit of the run's row, if any
          outcomes,  \* integration_outcomes, oldest first
          task,      \* the tasks' states
          tries,     \* the number of the latest attempt of each task
          latest,    \* the latest attempt of each task
          artifacts, \* the attempts that left an artifact
          run,       \* the run's status
          cur,       \* the task the executor works on
          pc,        \* the executor's next step
          base,      \* the commit the attempt's evidence is measured from
          session,   \* the open agent session: its agent's job and its end
          ticket,     \* whether the session holds a grant for tools
          commit,    \* the commit the approved attempt was integrated as
          judged,    \* the attempt each specialized review evaluated
          stops      \* how often the server has stopped

Git == <<plan, main, branch, tree>>
Rows == <<path, recorded, outcomes, task, tries, latest, artifacts, run>>
Hand == <<base, session, ticket, commit, judged>>
AttemptVars == <<plan, main, branch, tree, path, recorded, outcomes, task, tries,
                 latest, artifacts, run, cur, pc, base, session, ticket,
                 commit, judged, stops>>

Patches == [of : Tasks \cup {0}, attempt : Nat, how : {"commit", "work"}]
NoSession == [job |-> "none", ended |-> "no"]
OpenSession(job) == [job |-> job, ended |-> "no"]
NoAttempt == [status |-> "none", changed |-> {}, seen |-> {}, commit |-> <<>>]
NewAttempt == [NoAttempt EXCEPT !.status = "running"]

AttemptsInit ==
    /\ plan \in Plans
    /\ main = <<>> /\ branch = <<>> /\ tree = <<>>
    /\ path = {} /\ recorded = {} /\ outcomes = <<>>
    /\ task = [t \in Tasks |-> InitialState(plan.deps[t])]
    /\ tries = [t \in Tasks |-> 0]
    /\ latest = [t \in Tasks |-> NoAttempt]
    /\ artifacts = {} /\ run = "active"
    /\ cur = 0 /\ pc = "choose"
    /\ base = <<>> /\ session = NoSession /\ ticket = FALSE /\ commit = <<>>
    /\ judged = [t \in Tasks |-> 0]
    /\ stops = 0

To(step) == pc' = step

-----------------------------------------------------------------------------
(***************************************************************************)
(* Git.                                                                    *)
(***************************************************************************)
Contents(h) == ToSet(h)

BranchExists(b) == b \in DOMAIN branch

Registered(t) == t \in DOMAIN tree

IsAncestor(h, of) == IsPrefix(h, of)

Dirty(t) == tree[t].work # {}

\* f with the value v at x, which it may not have had a value at.
With(f, x, v) == [y \in DOMAIN f \cup {x} |-> IF y = x THEN v ELSE f[y]]

\* Points a branch at a commit, whatever it pointed at.
UpdateRef(b, h) == branch' = With(branch, b, h)

\* Where a worktree whose branch does not exist yet starts.
WorktreeBase == IF BranchExists(RunBranch) THEN branch[RunBranch] ELSE main

\* A registered worktree is kept as it is and a branch that exists is checked
\* out; only a new branch starts from the base.
AddWorktree(t) ==
    IF Registered(t) THEN UNCHANGED <<branch, tree>>
    ELSE LET head == IF BranchExists(t) THEN branch[t] ELSE WorktreeBase
         IN  /\ UpdateRef(t, head)
             /\ tree' = With(tree, t, [head |-> head, work |-> {}, stuck |-> FALSE])

\* Mutant: what is not committed is thrown away with its worktree.
RemovesAnything(t) == TRUE

\* The worktree of t can be removed without force.
Removable(t) == ~Dirty(t)

WithoutTree(S) == [u \in DOMAIN tree \ S |-> tree[u]]

\* Commits on top of HEAD, which moves the branch unless HEAD is detached.
Advance(t, h, work) ==
    /\ tree' = [tree EXCEPT ![t].head = h, ![t].work = work]
    /\ IF tree[t].stuck THEN UNCHANGED branch ELSE UpdateRef(t, h)

CommitChanges(t) == Advance(t, tree[t].head \o SetToSeq(tree[t].work), {})

\* What a rebase replays: the commits that are not in the other history yet.
Replayed(h, onto) == Sift(h, Contents(h) \ Contents(onto))

\* Files that differ between the base's tree and the worktree's, committed or
\* not: `git diff` knows of no author.
ChangedFiles(t) ==
    LET b == Contents(base)  h == Contents(tree[t].head)
    IN  (b \ h) \cup (h \ b) \cup tree[t].work

-----------------------------------------------------------------------------
(***************************************************************************)
(* The task states.                                                        *)
(***************************************************************************)
\* The states after `mark` wrote t's state: what depends on it, directly or
\* through tasks that are not completed, is computed anew.
Cascade(states, t) ==
    LET reached[u \in Tasks] ==
            \E d \in plan.deps[u] : d = t \/ (reached[d] /\ states[d] # "completed")
        new[u \in Tasks] ==
            IF reached[u] /\ u # t /\ states[u] # "completed"
            THEN NextStateForDependent({new[d] : d \in plan.deps[u]})
            ELSE states[u]
    IN  new

MarkIn(states, t, state) == Cascade([states EXCEPT ![t] = state], t)

MarkTask(t, state) == task' = MarkIn(task, t, state)

\* The run ends with an error or is given up: the executor stops.
Stop(status) == run' = status /\ To("idle")

\* The open attempt is closed, with the evidence there is.
FinishAttempt(t, status) == latest' = [latest EXCEPT ![t].status = status]

\* An attempt failed and may be repeated: the task is failed, and ready again
\* unless that was the last attempt.
TryAgain(t) ==
    IF tries[t] >= MaxAttempts THEN MarkTask(t, "failed") /\ Stop("failed")
    ELSE MarkTask(t, "ready") /\ To("locate") /\ UNCHANGED run

GiveUp(t, status) == MarkTask(t, "failed") /\ Stop(status)

-----------------------------------------------------------------------------
(***************************************************************************)
(* Beginning an attempt.                                                   *)
(***************************************************************************)
ReadyTasks == {t \in Tasks : task[t] = "ready"}

Choose ==
    /\ pc = "choose"
    /\ IF \A t \in Tasks : task[t] = "completed" THEN Stop("completed") /\ UNCHANGED cur
       ELSE IF ReadyTasks = {}
       THEN /\ Stop(IF \E t \in Tasks : task[t] = "failed" THEN "failed" ELSE "blocked")
            /\ UNCHANGED cur
       ELSE /\ cur' \in {t \in ReadyTasks : \A u \in ReadyTasks : t <= u}
            /\ To("locate") /\ UNCHANGED run
    /\ base' = <<>> /\ commit' = <<>>       \* locals of the attempt before
    /\ UNCHANGED <<Git, path, recorded, outcomes, task, tries, latest,
                   artifacts, session, ticket, judged, stops>>

\* The worktree of the row is used; a task without one gets one made.
Locate ==
    /\ pc = "locate"
    /\ IF tries[cur] >= MaxAttempts
       THEN Stop("failed") /\ UNCHANGED <<branch, tree>>
       ELSE IF cur \in path
       THEN To("begin") /\ UNCHANGED <<branch, tree, run>>
       ELSE AddWorktree(cur) /\ To("attach") /\ UNCHANGED run
    /\ UNCHANGED <<plan, main, path, recorded, outcomes, task, tries, latest,
                   artifacts, cur, Hand, stops>>

Attach ==
    /\ pc = "attach"
    /\ path' = path \cup {cur}
    /\ To("begin")
    /\ UNCHANGED <<Git, recorded, outcomes, task, tries, latest, artifacts,
                   run, cur, Hand, stops>>

\* The row may name a worktree that is gone: Git then fails.
BeginFails ==
    /\ pc = "begin" /\ ~Registered(cur)
    /\ Stop("failed")
    /\ UNCHANGED <<Git, path, recorded, outcomes, task, tries, latest,
                   artifacts, cur, Hand, stops>>

\* The commit the attempt's evidence is measured from.
AttemptBase == IF recorded = {} THEN tree[cur].head ELSE CHOOSE h \in recorded : TRUE

\* What a specialized review evaluates: of its dependencies, the last that
\* implements, or that verifies, or the last of all.
EvaluationTarget(t) ==
    LET deps == plan.deps[t]
        of(op) == {d \in deps : plan.op[d] = op}
        candidates == IF of("implement") # {} THEN of("implement")
                      ELSE IF of("verify") # {} THEN of("verify") ELSE deps
    IN  {d \in candidates : \A e \in candidates : e <= d}

\* The latest attempt of that task is what the review is shown.
Judges(t) ==
    IF EvaluationTarget(t) = {} THEN 0
    ELSE tries[CHOOSE d \in EvaluationTarget(t) : TRUE]

Begin ==
    /\ pc = "begin" /\ Registered(cur)
    /\ base' = AttemptBase
    /\ tries' = [tries EXCEPT ![cur] = @ + 1]
    /\ latest' = [latest EXCEPT ![cur] = NewAttempt]
    /\ MarkTask(cur, "running")
    /\ judged' = [judged EXCEPT ![cur] = IF plan.op[cur] = "review" THEN Judges(cur) ELSE 0]
    /\ To("launch")
    /\ UNCHANGED <<Git, path, recorded, outcomes, artifacts, run, cur, session,
                   ticket, commit, stops>>

-----------------------------------------------------------------------------
(***************************************************************************)
(* An agent's session.  The job is to work on the task, or to review the   *)
(* work of the attempt.                                                    *)
(***************************************************************************)
Job == IF latest[cur].status = "reviewing" THEN "reviewer" ELSE "producer"

\* Only a session with tools to offer gets a grant.
GrantTools == ticket' \in BOOLEAN

\* What the mission of a task holds of other tasks' work.
UpstreamArtifacts(t) == {a \in artifacts : a[1] \in plan.deps[t]}

Launch ==
    /\ pc = "launch"
    /\ session' = OpenSession(Job)
    /\ GrantTools
    /\ To("agent")
    /\ UNCHANGED <<Git, Rows, cur, base, commit, judged, stops>>

\* What an agent leaves in the worktree: a commit, uncommitted files, both or
\* nothing; one that finds the worktree in the middle of a rebase may finish
\* that first.
AgentWrites ==
    LET patch(how) == [of |-> cur, attempt |-> tries[cur], how |-> how]
        w == tree[cur]
    IN  \/ UNCHANGED <<branch, tree>>
        \/ /\ (IF session.job = "reviewer" THEN "review" ELSE plan.op[cur]) \in Writers
           /\ \/ Advance(cur, w.head, w.work \cup {patch("work")})
              \/ session.job = "producer" /\ ~w.stuck
                   /\ Advance(cur, Append(w.head, patch("commit")), w.work)
              \/ /\ session.job = "producer" /\ w.stuck
                 /\ LET h == w.head \o SetToSeq(w.work)
                    IN  /\ tree' = [tree EXCEPT ![cur] =
                                        [head |-> h, work |-> {}, stuck |-> FALSE]]
                        /\ UpdateRef(cur, h)

\* Ways for an agent's process to end.  A reviewer's answer is part of it.
Ends == {"approve", "changes", "garbled", "exit", "spawn", "config", "cancelled", "toolong"}

AgentEnds ==
    /\ pc = "agent"
    /\ \/ \E e \in Ends \ {"spawn", "config"} :
            session' = [session EXCEPT !.ended = e] /\ AgentWrites
       \/ \E e \in {"spawn", "config"} :
            session' = [session EXCEPT !.ended = e] /\ UNCHANGED <<branch, tree>>
    /\ To("revoke")
    /\ UNCHANGED <<plan, main, Rows, cur, base, ticket, commit, judged, stops>>

\* Mutant: the grant stays until it expires.
KeepGrant == UNCHANGED ticket

\* The grant is revoked before any state of the task changes.
WithdrawGrant == ticket' = FALSE

Revoke ==
    /\ pc = "revoke"
    /\ WithdrawGrant
    /\ To(IF session.job = "reviewer" THEN "verdict" ELSE "evidence")
    /\ UNCHANGED <<Git, Rows, cur, base, session, commit, judged, stops>>

CloseSession == session' = NoSession

-----------------------------------------------------------------------------
(***************************************************************************)
(* What follows from the producer's end.                                   *)
(***************************************************************************)
\* Output beyond the limit is not judged at all: no evidence is taken.
OutputLimit ==
    /\ session.ended = "toolong"
    /\ FinishAttempt(cur, "failed") /\ GiveUp(cur, "failed")

Evidence(t) ==
    [status |-> latest[t].status, changed |-> ChangedFiles(t),
     seen |-> Contents(tree[t].head) \cup tree[t].work,
     commit |-> IF tree[t].head = base THEN <<>> ELSE tree[t].head]

CollectEvidence ==
    /\ pc = "evidence"
    /\ \/ OutputLimit /\ CloseSession
       \/ /\ session.ended # "toolong"
          /\ latest' = [latest EXCEPT ![cur] = Evidence(cur)]
          /\ To("settle")
          /\ UNCHANGED <<task, run, session>>
    /\ UNCHANGED <<Git, path, recorded, outcomes, tries, artifacts, cur, base,
                   ticket, commit, judged, stops>>

\* Evidence of a file outside the session's scopes fails the attempt and the
\* run; whether a changed file is in scope is the configuration's matter.
EnforceEvidencePolicy ==
    /\ latest[cur].changed # {}
    /\ FinishAttempt(cur, "failed") /\ GiveUp(cur, "failed")
    /\ UNCHANGED artifacts

ProducerFailed ==
    \/ /\ session.ended = "cancelled"
       /\ FinishAttempt(cur, "cancelled") /\ GiveUp(cur, "cancelled")
       /\ UNCHANGED artifacts
    \/ /\ session.ended \in {"exit", "spawn"}
       /\ FinishAttempt(cur, "failed") /\ TryAgain(cur)
       /\ UNCHANGED artifacts
    \/ /\ session.ended = "config"
       /\ FinishAttempt(cur, "failed") /\ GiveUp(cur, "failed")
       /\ UNCHANGED artifacts

Answered == session.ended \in {"approve", "changes", "garbled"}

PersistArtifact == artifacts' = artifacts \cup {<<cur, tries[cur]>>}

\* Implementation, verification and post-processing go to the reviewer.
ToReviewer ==
    /\ Answered /\ plan.op[cur] \in {"implement", "verify", "post_process"}
    /\ IF plan.op[cur] = "implement" THEN UNCHANGED artifacts ELSE PersistArtifact
    /\ FinishAttempt(cur, "reviewing")
    /\ To("launch") /\ UNCHANGED <<task, run>>

\* An advisory task's product is its artifact: it needs no review.
AdvisoryDone ==
    /\ Answered /\ plan.op[cur] = "advisory"
    /\ PersistArtifact
    /\ FinishAttempt(cur, "approved") /\ MarkTask(cur, "completed")
    /\ To("prune") /\ UNCHANGED run

\* Mutant: only the reworked task and the review itself are looked at.
NothingUnwound(states, t, seed) == states

\* The tasks a rejected review unwinds: everything completed that it rests on,
\* but the task that is reworked.
Unwound(states, t, seed) ==
    [u \in Tasks |-> IF u \in Ancestors(plan, t) \ {seed} /\ states[u] = "completed"
                     THEN "pending" ELSE states[u]]

\* A specialized review that asks for changes sends the task it rests on back
\* to work, if that task has attempts left.
ReworkAfterReview ==
    LET open == {s \in ReworkSeeds(plan, cur) : tries[s] < MaxAttempts}
    IN  \/ \E seed \in open :
             /\ task' = MarkIn(MarkIn(Unwound(task, cur, seed), cur, "blocked"), seed, "ready")
             /\ To("choose") /\ UNCHANGED run
        \/ open = {} /\ GiveUp(cur, "failed")

SpecializedVerdict ==
    /\ Answered /\ plan.op[cur] = "review"
    /\ PersistArtifact
    /\ IF session.ended = "approve"
       THEN /\ FinishAttempt(cur, "approved") /\ MarkTask(cur, "completed")
            /\ To("prune") /\ UNCHANGED run
       ELSE FinishAttempt(cur, "changes_requested") /\ ReworkAfterReview

Settle ==
    /\ pc = "settle"
    /\ \/ EnforceEvidencePolicy
       \/ ProducerFailed
       \/ ToReviewer
       \/ AdvisoryDone
       \/ SpecializedVerdict
    /\ CloseSession
    /\ UNCHANGED <<Git, path, recorded, outcomes, tries, cur, base, ticket,
                   commit, judged, stops>>

\* The built-in reviewer's answer about an implementation.
Verdict ==
    /\ pc = "verdict"
    /\ \/ /\ session.ended = "approve"
          /\ To("integrate") /\ UNCHANGED <<latest, task, run>>
       \/ /\ session.ended = "cancelled"
          /\ FinishAttempt(cur, "cancelled") /\ GiveUp(cur, "cancelled")
       \/ OutputLimit
       \/ /\ session.ended = "config"
          /\ FinishAttempt(cur, "failed") /\ GiveUp(cur, "failed")
       \/ /\ session.ended \in {"changes", "garbled", "exit", "spawn"}
          /\ FinishAttempt(cur, "changes_requested") /\ TryAgain(cur)
    /\ CloseSession
    /\ UNCHANGED <<Git, path, recorded, outcomes, tries, artifacts, cur, base,
                   ticket, commit, judged, stops>>

-----------------------------------------------------------------------------
(***************************************************************************)
(* Integration: the branch, the row and the outcome are written one after  *)
(* the other.                                                              *)
(***************************************************************************)
Untouched == <<path, task, tries, artifacts, cur, base, session, ticket,
               judged, stops>>

\* The run's branch is created at the user's head, once.
Integrate ==
    /\ pc = "integrate"
    /\ IF BranchExists(RunBranch) THEN UNCHANGED branch ELSE UpdateRef(RunBranch, main)
    /\ To("commit")
    /\ UNCHANGED <<Untouched, plan, main, tree, recorded, outcomes, latest, run, commit>>

CommitOutput ==
    /\ pc = "commit"
    /\ IF Dirty(cur) THEN CommitChanges(cur) ELSE UNCHANGED <<branch, tree>>
    /\ To("move")
    /\ UNCHANGED <<Untouched, plan, main, recorded, outcomes, latest, run, commit>>

\* Mutant: the run's branch is pointed at the task, whatever it holds.
AlwaysForward(t) == TRUE

\* The run's branch can be moved to the worktree's head as it is.
FastForward(t) == IsAncestor(branch[RunBranch], tree[t].head)

\* The task brought no commit: nothing is integrated.
NothingNew ==
    /\ tree[cur].head = branch[RunBranch]
    /\ commit' = latest[cur].commit
    /\ To("approve")
    /\ UNCHANGED <<branch, tree, outcomes, run>>

Clean ==
    /\ tree[cur].head # branch[RunBranch] /\ FastForward(cur)
    /\ UpdateRef(RunBranch, tree[cur].head)
    /\ commit' = tree[cur].head
    /\ To("record")
    /\ UNCHANGED <<tree, outcomes, run>>

Diverged == tree[cur].head # branch[RunBranch] /\ ~FastForward(cur)

Rebase ==
    /\ Diverged /\ ~tree[cur].stuck
    /\ Advance(cur, branch[RunBranch] \o Replayed(tree[cur].head, branch[RunBranch]), {})
    /\ To("follow")
    /\ UNCHANGED <<outcomes, commit, run>>

Outcome(kind) == <<cur, kind>>

\* The rebase stops half-way, and the worktree is left as it is then: HEAD on
\* the run's commits, the rest in conflict.  A rebase in progress only fails.
Conflict ==
    /\ Diverged /\ "conflict" \in Hazards
    /\ IF tree[cur].stuck THEN UNCHANGED tree
       ELSE /\ Replayed(tree[cur].head, branch[RunBranch]) # <<>>
            /\ tree' = [tree EXCEPT ![cur] =
                    [head |-> branch[RunBranch], stuck |-> TRUE,
                     work |-> Contents(Replayed(tree[cur].head, branch[RunBranch]))]]
    /\ outcomes' = Append(outcomes, Outcome("conflict"))
    /\ Stop("failed")
    /\ UNCHANGED <<branch, commit>>

Move ==
    /\ pc = "move"
    /\ NothingNew \/ Clean \/ Rebase \/ Conflict
    /\ UNCHANGED <<Untouched, plan, main, recorded, latest>>

\* The run's branch follows a rebased task.
Follow ==
    /\ pc = "follow"
    /\ UpdateRef(RunBranch, tree[cur].head)
    /\ commit' = tree[cur].head
    /\ To("recordRebased")
    /\ UNCHANGED <<Untouched, plan, main, tree, recorded, outcomes, latest, run>>

SetRunIntegration ==
    /\ pc \in {"record", "recordRebased"}
    /\ recorded' = {commit}
    /\ To(IF pc = "record" THEN "outcome" ELSE "outcomeRebased")
    /\ UNCHANGED <<Untouched, Git, outcomes, latest, run, commit>>

RecordOutcome ==
    /\ pc \in {"outcome", "outcomeRebased"}
    /\ outcomes' = Append(outcomes, Outcome(IF pc = "outcome" THEN "clean" ELSE "rebased"))
    /\ To("approve")
    /\ UNCHANGED <<Untouched, Git, recorded, latest, run, commit>>

Approve ==
    /\ pc = "approve"
    /\ latest' = [latest EXCEPT ![cur].status = "approved", ![cur].commit = commit]
    /\ MarkTask(cur, "completed")
    /\ To("remove")
    /\ UNCHANGED <<Git, path, recorded, outcomes, tries, artifacts, run, cur,
                   Hand, stops>>

-----------------------------------------------------------------------------
(***************************************************************************)
(* The worktree of a completed task.                                       *)
(***************************************************************************)
RemoveWorktree ==
    /\ pc = "remove"
    /\ \/ Removable(cur) /\ tree' = WithoutTree({cur}) /\ To("detach") /\ UNCHANGED run
       \/ ~Removable(cur) /\ Stop("failed") /\ UNCHANGED tree
    /\ UNCHANGED <<plan, main, branch, path, recorded, outcomes, task, tries,
                   latest, artifacts, cur, Hand, stops>>

\* Advisory and review tasks keep a worktree that is not clean.
PruneInertWorktree ==
    /\ pc = "prune"
    /\ To(IF Removable(cur) THEN "remove" ELSE "choose")
    /\ UNCHANGED <<Git, Rows, cur, Hand, stops>>

Detach ==
    /\ pc = "detach"
    /\ path' = path \ {cur}
    /\ To("choose")
    /\ UNCHANGED <<Git, recorded, outcomes, task, tries, latest, artifacts,
                   run, cur, Hand, stops>>

-----------------------------------------------------------------------------
(***************************************************************************)
(* What happens around the executor.                                       *)
(***************************************************************************)
\* The user commits to the branch of the main worktree, at any time: a commit
\* commutes with every step but the two that read main, so it is enough to have
\* it right before those.
UserCommits ==
    /\ "main" \in Hazards /\ main = <<>>
    /\ pc \in {"locate", "integrate"}
    /\ RunBranch \notin DOMAIN branch       \* main is not read afterwards
    /\ main' = <<[of |-> 0, attempt |-> 0, how |-> "commit"]>>
    /\ UNCHANGED <<plan, branch, tree, Rows, cur, pc, Hand, stops>>

\* prepare_retry: of a failed task, or of a blocked one.
RetryTask(t) ==
    /\ pc = "idle" /\ run # "active"
    /\ task[t] = "failed" \/ (task[t] = "blocked" /\ "unblock" \in Hazards)
    /\ tries[t] < MaxAttempts
    /\ MarkTask(t, "ready")
    /\ run' = "active" /\ To("choose")
    /\ UNCHANGED <<Git, path, recorded, outcomes, tries, latest, artifacts,
                   cur, Hand, stops>>

\* The server stops anywhere, or an error of SQLite or Git ends the run where
\* it stands and the server is restarted later; the agent goes with it.
ServerStops ==
    /\ "stop" \in Hazards /\ stops < MaxStops
    /\ pc # "down"
    /\ stops' = stops + 1
    /\ To("down")
    /\ UNCHANGED <<Git, Rows, cur, Hand>>

\* Worktrees that are clean are reclaimed at the start, and their rows.
PruneCleanWorktrees ==
    LET clean == {t \in DOMAIN tree : Removable(t)}
    IN  tree' = WithoutTree(clean) /\ path' = path \ clean

\* reconcile_interrupted
Reconcile ==
    /\ pc = "down"
    /\ latest' = [t \in Tasks |->
                    IF latest[t].status \in {"running", "reviewing"}
                    THEN [latest[t] EXCEPT !.status = "interrupted"] ELSE latest[t]]
    /\ task' = [t \in Tasks |-> IF task[t] = "running" THEN "failed" ELSE task[t]]
    /\ run' = IF run = "active" THEN "failed" ELSE run
    /\ session' = NoSession
    /\ ticket' = FALSE
    /\ PruneCleanWorktrees
    /\ To("idle")
    /\ UNCHANGED <<plan, main, branch, recorded, outcomes, tries, artifacts, cur,
                   base, commit, judged, stops>>

-----------------------------------------------------------------------------
ExecutorStep ==
    \/ Choose \/ Locate \/ Attach \/ BeginFails \/ Begin
    \/ Launch \/ AgentEnds \/ Revoke
    \/ CollectEvidence \/ Settle \/ Verdict
    \/ Integrate \/ CommitOutput \/ Move \/ Follow \/ SetRunIntegration
    \/ RecordOutcome \/ Approve
    \/ RemoveWorktree \/ PruneInertWorktree \/ Detach

AttemptsNext ==
    \/ ExecutorStep
    \/ UserCommits
    \/ \E t \in Tasks : RetryTask(t)
    \/ ServerStops \/ Reconcile

AttemptsSpec == AttemptsInit /\ [][AttemptsNext]_AttemptVars

-----------------------------------------------------------------------------
(***************************************************************************)
(* Properties.                                                             *)
(***************************************************************************)
Implementing == {t \in Tasks : plan.op[t] \in {"implement", "verify", "post_process"}}

OnBranches == UNION {Contents(branch[b]) : b \in DOMAIN branch}
InTrees == UNION {Contents(tree[t].head) \cup tree[t].work : t \in DOMAIN tree}

\* What the reviewer of a completed task was shown is on the run's branch.
ApprovedIsIntegrated ==
    \A t \in Implementing : task[t] = "completed" =>
        RunBranch \in DOMAIN branch /\ latest[t].seen \subseteq Contents(branch[RunBranch])

\* What an attempt left is still on a branch or in a worktree, wherever the
\* server stopped; a task whose rebase failed once is the exception.
NothingLost ==
    \A t \in Tasks : <<t, "conflict">> \in ToSet(outcomes) \/
        latest[t].seen \subseteq OnBranches \cup InTrees

\* The recorded commit is on the run's branch, and is its head when no write
\* was cut short.
RecordedIsOnBranch ==
    \A h \in recorded :
        /\ RunBranch \in DOMAIN branch /\ IsAncestor(h, branch[RunBranch])
        /\ stops = 0 /\ pc \notin {"record", "recordRebased"} => h = branch[RunBranch]

\* Every task row that names a worktree has it, and every worktree its row,
\* when no write was cut short.
RowsNameTrees ==
    stops = 0 =>
        /\ path \ (IF pc = "detach" THEN {cur} ELSE {}) \subseteq DOMAIN tree
        /\ DOMAIN tree \subseteq path \cup (IF pc = "attach" THEN {cur} ELSE {})

\* An agent is told what its task's dependencies reported last.
MissionsAreBriefed ==
    pc = "agent" => \A d \in plan.deps[cur] :
        plan.op[d] # "implement" /\ task[d] = "completed" =>
            <<d, tries[d]>> \in UpstreamArtifacts(cur)

\* Nothing approved is lost on its way to the run's branch, whatever attempts,
\* reviews, rebases and restarts came in between, and the rows agree with the
\* repository.
WorkIsKept ==
    ApprovedIsIntegrated /\ NothingLost /\ RecordedIsOnBranch /\ RowsNameTrees

\* A grant lives no longer than the agent it was made for: it is gone before
\* the task, its attempt or the run's branch changes.
GrantsAreShort == ticket => pc \in {"agent", "revoke", "down"} /\ session # NoSession

\* In a completed run every specialized review has judged the attempt that
\* was integrated: a rework after the review undid the review too. The rework
\* undoes only what the rejecting review depends on: a review beside it, of
\* which neither depends on the other, may stand on the work sent back.
Beside(t, u) == t # u /\ t \notin Ancestors(plan, u) /\ u \notin Ancestors(plan, t)
ReviewsAreCurrent ==
    run = "completed" =>
        \A t \in Tasks : plan.op[t] = "review" =>
            \/ judged[t] = Judges(t)
            \/ \E u \in Tasks : plan.op[u] = "review" /\ Beside(t, u) /\ tries[u] > 1

\* Each agent works with what it is granted and given, and what was judged is
\* what is integrated.
WorkIsJudged == GrantsAreShort /\ MissionsAreBriefed /\ ReviewsAreCurrent

\* The run's branch is only ever extended.
RunBranchGrows ==
    [][(RunBranch \in DOMAIN branch) =>
            IsAncestor(branch[RunBranch], branch'[RunBranch])]_AttemptVars

\* README.md:218-219: the worktree of a task holds what the tasks it depends
\* on had integrated.
StartsFromDependencies ==
    pc = "agent" /\ session.job = "producer" =>
        \A d \in plan.deps[cur] \cap Implementing :
            latest[d].seen \subseteq Contents(tree[cur].head) \cup tree[cur].work
=============================================================================
