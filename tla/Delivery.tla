------------------------------ MODULE Delivery ------------------------------
(***************************************************************************)
(* Delivery of a completed run to GitHub: requests that validate and claim *)
(* the run's delivery operation in SQLite, the background worker that      *)
(* pushes the branch and creates or links the pull request, requests that  *)
(* reconcile an interrupted delivery, and the recovery at start.           *)
(*                                                                         *)
(* A step is what runs between two effects another party can see: one      *)
(* SQLite statement, one critical section of a map of the runtime, or one  *)
(* git or gh command.  The run stays completed; its database row is        *)
(* created by the first request, and an absent row reads as "not_ready".   *)
(***************************************************************************)
EXTENDS Naturals

CONSTANTS
    Requests,       \* concurrent POST .../pull-request handlers
    Reconcilers,    \* concurrent POST .../delivery/reconcile handlers
    MaxOperations,  \* bound: delivery operations ever claimed
    PullRequests,   \* bound: pull requests ever opened on the branch
    NoPull,
    Faults          \* which of FaultKinds the environment may inject

\* "crash": the server stops at any point.  "error": SQLite fails, or the
\* project cannot be opened, where the code gives up.  "panic": the worker
\* panics.  "late": a create command that was given up on, or outlived the
\* server, takes effect later.  "close": a user closes or merges the pull
\* request.  "drift": a user commits on the run's branch.  "disconnect": the
\* client of a reconcile request goes away.
FaultKinds ==
    {"crash", "error", "panic", "late", "close", "drift", "disconnect"}

ASSUME DeliveryAssumption ==
    /\ MaxOperations \in Nat
    /\ NoPull \notin PullRequests
    /\ Faults \subseteq FaultKinds

Ids == 1 .. MaxOperations

NoOperation == 0

VARIABLES
    \* in SQLite
    state,          \* github_deliveries.state
    owner,          \* operation_id, by order of the claims
    link,           \* the linked pull request
    \* in the server's memory
    up,             \* the server serves requests
    operation,      \* the run's entry in delivery_operations
    reconciling,    \* the run has an entry in delivery_reconciles
    request,        \* what each delivery request does next
    claimed,        \* the operation it claimed
    worker,         \* what the worker of each operation does next
    found,          \* the pull request that worker listed or created
    reconcile,      \* what each reconcile request, or its task, does next
    copy,           \* the operation id it read, and the pull request it found
    gone,           \* its handler was dropped
    \* outside
    local,          \* head of the local branch factory/run-<id>
    remote,         \* head of the branch on the remote
    pulls,          \* every pull request ever opened for the branch
    open,           \* the open one
    flight          \* operations whose create command may still take effect

record     == <<state, owner, link>>
requests   == <<request, claimed>>
workers    == <<operation, worker, found>>
reconciles == <<reconciling, reconcile, copy, gone>>
outside    == <<local, remote, pulls, open, flight>>
vars       == <<record, up, requests, workers, reconciles, outside>>

DeliveryStates ==
    {"not_ready", "ready", "pushing", "creating_pr", "published", "failed",
     "interrupted"}

ActiveStates == {"pushing", "creating_pr"}

Active == state \in ActiveStates

\* Where a worker owns the record, and where it acts on the remote.
Holding ==
    {"open", "push", "creating", "list", "create", "publish", "fail", "lost",
     "panicked"}
Acting == {"push", "create"}

TypeOK ==
    /\ state \in DeliveryStates
    /\ owner \in 0 .. MaxOperations
    /\ link \in PullRequests \cup {NoPull}
    /\ up \in BOOLEAN
    /\ operation \in 0 .. MaxOperations
    /\ reconciling \in BOOLEAN
    /\ request \in [Requests -> {"idle", "checked", "claimed"}]
    /\ claimed \in [Requests -> 0 .. MaxOperations]
    /\ worker \in [Ids -> Holding \cup {"none", "leave"}]
    /\ found \in [Ids -> PullRequests \cup {NoPull}]
    /\ reconcile \in [Reconcilers -> {"idle", "enter", "read", "list", "write", "exit"}]
    /\ copy \in [Reconcilers ->
                    [owner : 0 .. MaxOperations, pull : PullRequests \cup {NoPull}]]
    /\ gone \in [Reconcilers -> BOOLEAN]
    /\ local \in {"integrated", "drifted"}
    /\ remote \in {"none", "integrated", "drifted"}
    /\ pulls \in SUBSET PullRequests
    /\ open \in pulls \cup {NoPull}
    /\ flight \in SUBSET Ids

NoCopy == [owner |-> NoOperation, pull |-> NoPull]

\* The branch may have drifted before anything is delivered.
Init ==
    /\ state = "not_ready"
    /\ owner = NoOperation
    /\ link = NoPull
    /\ up = TRUE
    /\ operation = NoOperation
    /\ reconciling = FALSE
    /\ request = [r \in Requests |-> "idle"]
    /\ claimed = [r \in Requests |-> NoOperation]
    /\ worker = [op \in Ids |-> "none"]
    /\ found = [op \in Ids |-> NoPull]
    /\ reconcile = [c \in Reconcilers |-> "idle"]
    /\ copy = [c \in Reconcilers |-> NoCopy]
    /\ gone = [c \in Reconcilers |-> FALSE]
    /\ local \in {"integrated", "drifted"}
    /\ remote = "none"
    /\ pulls = {}
    /\ open = NoPull
    /\ flight = {}

-----------------------------------------------------------------------------
(***************************************************************************)
(* A delivery request: begin_delivery, then start_delivery, in one         *)
(* blocking task that a dropped connection does not stop.                  *)
(***************************************************************************)
RequestGoto(r, label) == request' = [request EXCEPT ![r] = label]

\* Mutant: a drifted branch is delivered like any other.
EligibleThoughDrifted == TRUE

\* delivery_eligibility of a completed run.
Eligible == local = "integrated"

\* An existing pull request is returned as it is, and a run that is not
\* eligible refused, without a trace.
BeginDelivery(r) ==
    /\ up /\ request[r] = "idle"
    /\ link = NoPull /\ state # "published"
    /\ Eligible
    /\ RequestGoto(r, "checked")
    /\ UNCHANGED <<record, up, claimed, workers, reconciles, outside>>

\* Mutant: an interrupted delivery can be claimed.
ClaimableAnyEnded == state \notin ActiveStates \cup {"published"} /\ link = NoPull

\* The condition of the updates that claim the record, or fail it while idle.
Claimable == state \in {"not_ready", "ready", "failed"} /\ link = NoPull

\* Mutant: the failure is written over whatever the record holds.
FailAnyway(r) ==
    /\ request[r] = "checked"
    /\ RequestGoto(r, "idle")
    /\ state' = "failed"
    /\ UNCHANGED <<owner, link, up, claimed, workers, reconciles, outside>>

\* The remote has no base branch, or does not answer.
BaseUnavailable(r) ==
    /\ request[r] = "checked"
    /\ RequestGoto(r, "idle")
    /\ state' = IF Claimable THEN "failed" ELSE state
    /\ UNCHANGED <<owner, link, up, claimed, workers, reconciles, outside>>

\* claim_delivery: a compare and set.
Claim(r) ==
    /\ request[r] = "checked"
    /\ Claimable
    /\ owner < MaxOperations
    /\ state' = "pushing"
    /\ owner' = owner + 1
    /\ RequestGoto(r, "claimed")
    /\ claimed' = [claimed EXCEPT ![r] = owner + 1]
    /\ UNCHANGED <<link, up, workers, reconciles, outside>>

ClaimLost(r) ==
    /\ request[r] = "checked"
    /\ ~Claimable
    /\ RequestGoto(r, "idle")
    /\ UNCHANGED <<record, up, claimed, workers, reconciles, outside>>

\* Runtime::start_delivery refuses while an operation is in the map, also one
\* whose worker has written its outcome and not left yet.
StartDelivery(r) ==
    /\ request[r] = "claimed"
    /\ IF operation = NoOperation
       THEN /\ operation' = claimed[r]
            /\ worker' = [worker EXCEPT ![claimed[r]] = "open"]
       ELSE UNCHANGED <<operation, worker>>
    /\ RequestGoto(r, "idle")
    /\ claimed' = [claimed EXCEPT ![r] = NoOperation]
    /\ UNCHANGED <<record, up, found, reconciles, outside>>

\* An error of SQLite before the claim, or when the claimed row is read back.
RequestFails(r) ==
    /\ "error" \in Faults
    /\ request[r] \in {"checked", "claimed"}
    /\ RequestGoto(r, "idle")
    /\ claimed' = [claimed EXCEPT ![r] = NoOperation]
    /\ UNCHANGED <<record, up, workers, reconciles, outside>>

Request(r) ==
    \/ BaseUnavailable(r) \/ Claim(r) \/ ClaimLost(r) \/ StartDelivery(r)
    \/ RequestFails(r)

-----------------------------------------------------------------------------
(***************************************************************************)
(* The worker of an operation: execute_delivery, under a handler of panics.*)
(***************************************************************************)
WorkerGoto(op, label) == worker' = [worker EXCEPT ![op] = label]

\* Only the label of the worker changes.
WorkerStep(op, from, to) ==
    /\ worker[op] = from
    /\ WorkerGoto(op, to)
    /\ UNCHANGED <<record, up, requests, operation, found, reconciles, outside>>

\* set_delivery_if_operation, with the worker's next label if it applies.  While
\* it does, the rest of the worker's copy of the record is current.
WriteIfOwner(op, newState, newLink, next) ==
    /\ IF owner = op /\ Active
       THEN /\ state' = newState
            /\ link' = newLink
            /\ WorkerGoto(op, next)
       ELSE /\ WorkerGoto(op, "leave")
            /\ UNCHANGED <<state, link>>
    /\ UNCHANGED <<owner, up, requests, operation, found, reconciles, outside>>

WorkerOpens(op) == WorkerStep(op, "open", IF owner = op THEN "push" ELSE "leave")

\* git push, never forced: a branch that is behind the remote's is rejected.
PushSucceeds(op) ==
    /\ worker[op] = "push"
    /\ ~(remote = "drifted" /\ local = "integrated")
    /\ remote' = local
    /\ WorkerGoto(op, "creating")
    /\ UNCHANGED <<record, up, requests, operation, found, reconciles, local,
                   pulls, open, flight>>

PushRejected(op) == WorkerStep(op, "push", "fail")

\* A dropped connection, a missed deadline, an unrecognized message.
PushUncertain(op) ==
    /\ worker[op] = "push"
    /\ remote' \in IF remote = "drifted" THEN {remote} ELSE {remote, local}
    /\ WorkerGoto(op, "lost")
    /\ UNCHANGED <<record, up, requests, operation, found, reconciles, local,
                   pulls, open, flight>>

\* Mutant: a state that no reader of the row knows.
MarkMisspelt(op) ==
    /\ worker[op] = "creating"
    /\ WriteIfOwner(op, "creating", link, "list")

MarkCreating(op) ==
    /\ worker[op] = "creating"
    /\ WriteIfOwner(op, "creating_pr", link, "list")

\* gh pr list, open pull requests only: an existing one is linked.
ListOpen(op) ==
    /\ worker[op] = "list"
    /\ found' = [found EXCEPT ![op] = open]
    /\ WorkerGoto(op, IF open = NoPull THEN "create" ELSE "publish")
    /\ UNCHANGED <<record, up, requests, operation, reconciles, outside>>

ListFails(op) == \E next \in {"fail", "lost"} : WorkerStep(op, "list", next)

\* GitHub opens no second pull request while one is open, and none without
\* the branch.
OpenPull(p) ==
    /\ p \in PullRequests \ pulls
    /\ open = NoPull
    /\ remote # "none"
    /\ pulls' = pulls \cup {p}
    /\ open' = p

CreateSucceeds(op) ==
    /\ worker[op] = "create"
    /\ \E p \in PullRequests :
        /\ OpenPull(p)
        /\ found' = [found EXCEPT ![op] = p]
    /\ WorkerGoto(op, "publish")
    /\ UNCHANGED <<record, up, requests, operation, reconciles, local, remote, flight>>

\* Mutant: "already exists" counts as published.
RefusalPublishes(op) == WorkerStep(op, "create", "publish")

\* A recognized refusal: one exists already, no permission, no commits.
CreateRefused(op) == WorkerStep(op, "create", "fail")

\* What may have come of a create command nobody waits for any more.
CreateUnobserved(op) ==
    \/ UNCHANGED <<pulls, open, flight>>
    \/ (\E p \in PullRequests : OpenPull(p)) /\ UNCHANGED flight
    \/ "late" \in Faults /\ flight' = flight \cup {op} /\ UNCHANGED <<pulls, open>>

\* Mutant: a create command that times out counts as failed.
CreateTimesOut(op) ==
    /\ worker[op] = "create"
    /\ CreateUnobserved(op)
    /\ WorkerGoto(op, "fail")
    /\ UNCHANGED <<record, up, requests, operation, found, reconciles, local, remote>>

\* A missed deadline, a dropped connection, an unrecognized failure.
CreateUncertain(op) ==
    /\ worker[op] = "create"
    /\ CreateUnobserved(op)
    /\ WorkerGoto(op, "lost")
    /\ UNCHANGED <<record, up, requests, operation, found, reconciles, local, remote>>

Publish(op) ==
    /\ worker[op] = "publish"
    /\ WriteIfOwner(op, "published", found[op], "leave")

\* finish_failed_delivery: a definitive failure, or an unknown outcome.
FinishFailed(op) ==
    \/ worker[op] = "fail" /\ WriteIfOwner(op, "failed", link, "leave")
    \/ worker[op] = "lost" /\ WriteIfOwner(op, "interrupted", link, "leave")

\* Errors of SQLite or of opening the project: the record is left as it is.
WorkerErrors(op) ==
    /\ "error" \in Faults
    /\ worker[op] \in Holding \ (Acting \cup {"list"})
    /\ WorkerStep(op, worker[op], "leave")

WorkerPanics(op) ==
    /\ "panic" \in Faults
    /\ worker[op] \in Holding \ {"panicked"}
    /\ WorkerStep(op, worker[op], "panicked")

\* Mutant: a panic ends the worker without a trace.
ForgetPanic(op) == WorkerStep(op, "panicked", "leave")

\* mark_delivery_interrupted.
MarkInterrupted(op) ==
    /\ worker[op] = "panicked"
    /\ WriteIfOwner(op, "interrupted", link, "leave")

WorkerLeaves(op) ==
    /\ worker[op] = "leave"
    /\ operation' = NoOperation
    /\ WorkerGoto(op, "none")
    /\ found' = [found EXCEPT ![op] = NoPull]
    /\ UNCHANGED <<record, up, requests, reconciles, outside>>

Worker(op) ==
    \/ WorkerOpens(op)
    \/ PushSucceeds(op) \/ PushRejected(op) \/ PushUncertain(op)
    \/ MarkCreating(op) \/ ListOpen(op) \/ ListFails(op)
    \/ CreateSucceeds(op) \/ CreateRefused(op) \/ CreateUncertain(op)
    \/ Publish(op) \/ FinishFailed(op) \/ MarkInterrupted(op) \/ WorkerLeaves(op)

-----------------------------------------------------------------------------
(***************************************************************************)
(* A reconcile request: the runtime's two maps, then a blocking task that  *)
(* only reads from GitHub, whose result the handler waits for.             *)
(***************************************************************************)
ReconcileGoto(c, label) == reconcile' = [reconcile EXCEPT ![c] = label]

ReconcileCheck(c) ==
    /\ up /\ reconcile[c] = "idle"
    /\ operation = NoOperation
    /\ ReconcileGoto(c, "enter")
    /\ UNCHANGED <<record, up, requests, workers, reconciling, copy, gone, outside>>

\* Mutant: two requests may reconcile at once.
EnterAnyway(c) ==
    /\ reconcile[c] = "enter"
    /\ reconciling' = TRUE
    /\ ReconcileGoto(c, "read")
    /\ UNCHANGED <<record, up, requests, workers, copy, gone, outside>>

\* One reconciliation at a time.
ReconcileEnter(c) ==
    /\ reconcile[c] = "enter"
    /\ reconciling' = TRUE
    /\ ReconcileGoto(c, IF reconciling THEN "idle" ELSE "read")
    /\ UNCHANGED <<record, up, requests, workers, copy, gone, outside>>

\* Mutant: whatever is not published can be reconciled.
ReconcilableUnpublished == state # "published"

Reconcilable == state = "interrupted"

ReconcileRead(c) ==
    /\ reconcile[c] = "read"
    /\ ReconcileGoto(c, IF Reconcilable THEN "list" ELSE "exit")
    /\ copy' = [copy EXCEPT ![c] = [owner |-> owner, pull |-> NoPull]]
    /\ UNCHANGED <<record, up, requests, workers, reconciling, gone, outside>>

\* Mutant: as the worker lists, open pull requests only.
OpenOnly == IF open = NoPull THEN {} ELSE {open}

\* gh pr list, whatever the state of the pull requests.
Candidates == pulls

\* One candidate is linked; none frees the record; several prove nothing.
ReconcileList(c) ==
    /\ reconcile[c] = "list"
    /\ \/ /\ Candidates = {}
          /\ ReconcileGoto(c, "write")
          /\ UNCHANGED copy
       \/ \E p \in Candidates :
          /\ Candidates = {p}
          /\ ReconcileGoto(c, "write")
          /\ copy' = [copy EXCEPT ![c].pull = p]
       \/ /\ \E p, q \in Candidates : p # q
          /\ ReconcileGoto(c, "exit")
          /\ UNCHANGED copy
    /\ UNCHANGED <<record, up, requests, workers, reconciling, gone, outside>>

\* GitHub could not be asked: unconfirmed.
ReconcileUnconfirmed(c) ==
    /\ reconcile[c] = "list"
    /\ ReconcileGoto(c, "exit")
    /\ UNCHANGED <<record, up, requests, workers, reconciling, copy, gone, outside>>

\* set_delivery overwrites the record, whatever it holds by now.
ReconcileWrite(c) ==
    /\ reconcile[c] = "write"
    /\ state' = IF copy[c].pull = NoPull THEN "failed" ELSE "published"
    /\ owner' = copy[c].owner
    /\ link' = copy[c].pull
    /\ ReconcileGoto(c, "exit")
    /\ UNCHANGED <<up, requests, workers, reconciling, copy, gone, outside>>

\* Mutant: the entry stays in the map.
LeaveEntry(c) ==
    /\ reconcile[c] = "exit"
    /\ ReconcileGoto(c, "idle")
    /\ copy' = [copy EXCEPT ![c] = NoCopy]
    /\ gone' = [gone EXCEPT ![c] = FALSE]
    /\ UNCHANGED <<record, up, requests, workers, reconciling, outside>>

\* The task is over: its handler, if there still is one, removes the entry.
ReconcileExit(c) ==
    /\ reconcile[c] = "exit"
    /\ reconciling' = (reconciling /\ gone[c])
    /\ ReconcileGoto(c, "idle")
    /\ copy' = [copy EXCEPT ![c] = NoCopy]
    /\ gone' = [gone EXCEPT ![c] = FALSE]
    /\ UNCHANGED <<record, up, requests, workers, outside>>

ReconcileErrors(c) ==
    /\ "error" \in Faults
    /\ reconcile[c] \in {"read", "list", "write"}
    /\ ReconcileGoto(c, "exit")
    /\ UNCHANGED <<record, up, requests, workers, reconciling, copy, gone, outside>>

\* The server drops the handler of a connection that was closed.
Disconnect(c) ==
    /\ "disconnect" \in Faults
    /\ reconcile[c] \in {"read", "list", "write", "exit"}
    /\ gone' = [gone EXCEPT ![c] = TRUE]
    /\ UNCHANGED <<record, up, requests, workers, reconciling, reconcile, copy, outside>>

Reconcile(c) ==
    \/ ReconcileEnter(c) \/ ReconcileRead(c) \/ ReconcileList(c)
    \/ ReconcileUnconfirmed(c) \/ ReconcileWrite(c) \/ ReconcileExit(c)

-----------------------------------------------------------------------------
(***************************************************************************)
(* The server stops; git and gh commands it ran may outlive it.  The next  *)
(* start demotes what was active before it serves requests.                *)
(***************************************************************************)
Crash ==
    /\ "crash" \in Faults
    /\ up
    /\ up' = FALSE
    /\ operation' = NoOperation
    /\ reconciling' = FALSE
    /\ request' = [r \in Requests |-> "idle"]
    /\ claimed' = [r \in Requests |-> NoOperation]
    /\ worker' = [op \in Ids |-> "none"]
    /\ found' = [op \in Ids |-> NoPull]
    /\ reconcile' = [c \in Reconcilers |-> "idle"]
    /\ copy' = [c \in Reconcilers |-> NoCopy]
    /\ gone' = [c \in Reconcilers |-> FALSE]
    /\ \/ UNCHANGED <<remote, pulls, open, flight>>
       \/ /\ \E op \in Ids : worker[op] = "push"
          /\ ~(remote = "drifted" /\ local = "integrated")
          /\ remote' = local
          /\ UNCHANGED <<pulls, open, flight>>
       \/ /\ \E op \in Ids : worker[op] = "create" /\ CreateUnobserved(op)
          /\ UNCHANGED remote
    /\ UNCHANGED <<record, local>>

\* Runtime::new: demote_interrupted_deliveries.
Restart ==
    /\ ~up
    /\ up' = TRUE
    /\ state' = IF Active THEN "interrupted" ELSE state
    /\ UNCHANGED <<owner, link, requests, workers, reconciles, outside>>

-----------------------------------------------------------------------------
(***************************************************************************)
(* GitHub and its users.                                                   *)
(***************************************************************************)
LandLate ==
    /\ \E op \in flight : flight' = flight \ {op}
    /\ \/ \E p \in PullRequests : OpenPull(p)
       \/ UNCHANGED <<pulls, open>>
    /\ UNCHANGED <<record, up, requests, workers, reconciles, local, remote>>

ClosePull ==
    /\ "close" \in Faults
    /\ open # NoPull
    /\ open' = NoPull
    /\ UNCHANGED <<record, up, requests, workers, reconciles, local, remote,
                   pulls, flight>>

CommitOnBranch ==
    /\ "drift" \in Faults
    /\ local' = "drifted"
    /\ UNCHANGED <<record, up, requests, workers, reconciles, remote, pulls,
                   open, flight>>

ResetBranch ==
    /\ local' = "integrated"
    /\ UNCHANGED <<record, up, requests, workers, reconciles, remote, pulls,
                   open, flight>>

Environment == LandLate \/ ClosePull \/ CommitOnBranch \/ ResetBranch

Next ==
    \/ \E r \in Requests : BeginDelivery(r) \/ Request(r)
    \/ \E op \in Ids : Worker(op) \/ WorkerErrors(op) \/ WorkerPanics(op)
    \/ \E c \in Reconcilers :
        \/ ReconcileCheck(c) \/ Reconcile(c)
        \/ ReconcileErrors(c) \/ Disconnect(c)
    \/ Crash \/ Restart
    \/ Environment

Spec == Init /\ [][Next]_vars

\* Started tasks run on, and every git and gh command has a deadline.  Nothing
\* is asked of users, of GitHub's answers, or of a stopped server.
FairSpec ==
    /\ Spec
    /\ \A r \in Requests : WF_vars(Request(r))
    /\ \A op \in Ids : WF_vars(Worker(op))
    /\ \A c \in Reconcilers : WF_vars(Reconcile(c))

-----------------------------------------------------------------------------
(***************************************************************************)
(* delivery_report: what the dashboard is told of the record and the head. *)
(* A recovery is required of an interrupted record, and of no other.       *)
(***************************************************************************)
EffectiveState ==
    IF link # NoPull \/ state = "published" THEN "published"
    ELSE IF state \in ActiveStates \cup {"failed", "interrupted"} THEN state
    ELSE IF Eligible THEN "ready" ELSE "not_ready"

RetrySafe ==
    /\ link = NoPull
    /\ state \notin ActiveStates \cup {"published", "interrupted"}
    /\ Eligible

-----------------------------------------------------------------------------
(***************************************************************************)
(* Safety.                                                                 *)
(***************************************************************************)

\* A worker that pushes, lists, creates or is about to write an outcome owns the
\* active record: so there is one at a time, and no outcome is written over it.
WorkUnderClaim ==
    \A op \in Ids : worker[op] \in Holding => Active /\ owner = op

\* A record that can be claimed has no pull request behind it: an outcome that
\* is not known is never shown as one that may be retried.
RetryableIsClean == Claimable => pulls = {}

\* A delivery recorded as published is linked to a pull request that was opened.
PublishedHasPull == state = "published" <=> link \in pulls

\* While a worker may act, the report says so; it says published of a record
\* with a pull request only; and it tells a user that a retry is safe when one
\* could be claimed, nothing is under way, and the head is the integrated one:
\* whatever it shows as ready is.
ReportTells ==
    /\ (\E op \in Ids : worker[op] \in Holding) => EffectiveState \in ActiveStates /\ ~RetrySafe
    /\ EffectiveState = "published" <=> link \in pulls
    /\ EffectiveState = "ready" => RetrySafe
    /\ RetrySafe => Claimable /\ \A c \in Reconcilers : reconcile[c] \notin {"list", "write"}

\* The record, its owner and its link agree, and the report agrees with them.
ClaimsSound == TypeOK /\ WorkUnderClaim /\ PublishedHasPull /\ ReportTells

\* At most one pull request is ever opened for the run, also if users close it
\* before the server knows of it.
OnePull == \A p, q \in pulls : p = q

\* At most one pull request, and none behind a record that may be claimed.
PullsSound == OnePull /\ RetryableIsClean

\* What is pushed is the integrated state of the run.
PushedIsIntegrated == remote # "drifted"

\* A claimed operation has its worker, or a request that starts it.
ClaimedHasWorker ==
    up /\ Active =>
        \/ worker[owner] \in Holding
        \/ \E r \in Requests : request[r] = "claimed" /\ claimed[r] = owner

(***************************************************************************)
(* What a step may never do.                                               *)
(***************************************************************************)

\* A published delivery stays published with its pull request, whatever stale
\* requests, workers and reconciliations still have to write.
PublishedStays ==
    [][state = "published" => state' = "published" /\ link' = link]_vars

\* An unknown outcome is left only by a reconciliation.
UnknownNeedsReconcile ==
    [][state = "interrupted" /\ state' # "interrupted" =>
            \E c \in Reconcilers : reconcile[c] = "write"]_vars

(***************************************************************************)
(* Liveness.                                                               *)
(***************************************************************************)

\* An operation whose worker was started does not stay active, unless the server
\* stops; then the next start resolves it.
OperationsResolve ==
    \A op \in Ids : operation = op ~> ~up \/ ~(Active /\ owner = op)

\* A reconciliation that entered makes way for the next one.
ReconcileFreed == reconciling ~> ~reconciling

(***************************************************************************)
(* The ledger this implements: see DeliveryLedger.                         *)
(***************************************************************************)
Ledger == INSTANCE DeliveryLedger WITH
    phase <- IF Active THEN "owned"
             ELSE IF state = "interrupted" THEN "unknown"
             ELSE IF state = "published" THEN "published"
             ELSE "released",
    working <- {op \in Ids : worker[op] \in Acting}

\* Requests, workers, reconciliations and restarts together keep the ledger's
\* promises: one owner acts, one pull request, no blind retry, published stays.
ImplementsLedger == Ledger!Spec
=============================================================================
