--------------------------- MODULE Delivery_proof ----------------------------
(***************************************************************************)
(* Theorems about the delivery, for any number of requests, of concurrent  *)
(* reconciliations, of operations and of pull requests, and for every      *)
(* choice of faults; about the supervision of a child process, which the   *)
(* programs it runs and the agents are under; and about what is recorded   *)
(* of the output of such a process.                                        *)
(***************************************************************************)
EXTENDS Delivery, Processes, Streams, Inductions_proof

(***************************************************************************)
(* The inductive invariant: who holds the record, and what those who will  *)
(* write it know of it.                                                    *)
(***************************************************************************)

\* A claimed operation that has no worker yet is the latest one, and active.
ClaimInv ==
    \A r \in Requests : request[r] = "claimed" =>
        /\ Active
        /\ claimed[r] = owner
        /\ owner \in Ids
        /\ worker[owner] = "none"

\* Only one request holds a claim.
ClaimUnique ==
    \A r, s \in Requests : request[r] = "claimed" /\ request[s] = "claimed" => r = s

\* The map names the operation of every worker.
WorkerInv ==
    \A op \in Ids : worker[op] # "none" => operation = op /\ op <= owner

\* A reconciliation past the map is the only one; the record it read is still
\* there when it writes.
Inside(c) == reconcile[c] \in {"read", "list", "write", "exit"}

ReconcileInv ==
    /\ \A c \in Reconcilers : Inside(c) => reconciling
    /\ \A c, d \in Reconcilers : Inside(c) /\ Inside(d) => c = d
    /\ \A c \in Reconcilers : reconcile[c] \in {"list", "write"} =>
            state = "interrupted" /\ copy[c].owner = owner
    /\ \A c \in Reconcilers : copy[c].pull \in pulls \cup {NoPull}

\* What a worker found, and what the record links, was opened.
PullInv ==
    /\ \A op \in Ids : worker[op] = "publish" => found[op] \in pulls
    /\ link \in pulls \cup {NoPull}
    /\ state = "published" <=> link # NoPull

\* Nothing of the server runs while it is down.
DownInv ==
    ~up =>
        /\ \A r \in Requests : request[r] = "idle"
        /\ \A op \in Ids : worker[op] = "none"
        /\ \A c \in Reconcilers : reconcile[c] = "idle"

IInv ==
    /\ TypeOK /\ DownInv
    /\ ClaimInv /\ ClaimUnique /\ WorkerInv /\ WorkUnderClaim
    /\ ReconcileInv /\ PullInv

LEMMA InitIInv == Init => IInv
<1> SUFFICES ASSUME Init PROVE IInv
  OBVIOUS
<1>1. TypeOK
  <2>1. /\ owner \in 0 .. MaxOperations /\ operation \in 0 .. MaxOperations
        /\ claimed \in [Requests -> 0 .. MaxOperations]
        /\ worker \in [Ids -> Holding \cup {"none", "leave"}]
    BY DeliveryAssumption DEF Init, NoOperation
  <2>2. copy \in [Reconcilers ->
                   [owner : 0 .. MaxOperations, pull : PullRequests \cup {NoPull}]]
    BY DeliveryAssumption DEF Init, NoCopy, NoOperation
  <2>3. /\ state \in DeliveryStates /\ link \in PullRequests \cup {NoPull}
        /\ up \in BOOLEAN /\ reconciling \in BOOLEAN
        /\ local \in {"integrated", "drifted"}
        /\ remote \in {"none", "integrated", "drifted"}
        /\ pulls \in SUBSET PullRequests /\ open \in pulls \cup {NoPull}
        /\ flight \in SUBSET Ids
    BY DEF Init, DeliveryStates
  <2>4. /\ request \in [Requests -> {"idle", "checked", "claimed"}]
        /\ found \in [Ids -> PullRequests \cup {NoPull}]
        /\ reconcile \in [Reconcilers -> {"idle", "enter", "read", "list", "write", "exit"}]
        /\ gone \in [Reconcilers -> BOOLEAN]
    BY DEF Init
  <2> QED BY <2>1, <2>2, <2>3, <2>4 DEF TypeOK
<1>2. ReconcileInv /\ PullInv
  BY DEF Init, ReconcileInv, Inside, PullInv, NoCopy
<1>3. DownInv /\ ClaimInv /\ ClaimUnique /\ WorkerInv /\ WorkUnderClaim
  BY DEF Init, DownInv, ClaimInv, ClaimUnique, WorkerInv, WorkUnderClaim, Holding
<1> QED BY <1>1, <1>2, <1>3 DEF IInv

USE DEF Ids, NoOperation

\* The steps of the requests.
LEMMA RequestSteps ==
    ASSUME IInv, NEW r \in Requests, BeginDelivery(r) \/ Request(r)
    PROVE  IInv'
<1> USE DeliveryAssumption DEF IInv, TypeOK, DeliveryStates, ActiveStates, Active,
        record, requests, workers, reconciles, outside, RequestGoto
<1>1. CASE BeginDelivery(r)
  BY <1>1 DEF BeginDelivery, DownInv, ClaimInv, ClaimUnique, WorkerInv, WorkUnderClaim, ReconcileInv, Inside, PullInv
<1>2. CASE BaseUnavailable(r)
  BY <1>2 DEF BaseUnavailable, Claimable, DownInv, ClaimInv, ClaimUnique, WorkerInv, WorkUnderClaim, ReconcileInv, Inside, PullInv
<1>3. CASE Claim(r)
  BY <1>3 DEF Claim, Claimable, DownInv, ClaimInv, ClaimUnique, WorkerInv, WorkUnderClaim, ReconcileInv, Inside, PullInv
<1>4. CASE ClaimLost(r)
  BY <1>4 DEF ClaimLost, DownInv, ClaimInv, ClaimUnique, WorkerInv, WorkUnderClaim, ReconcileInv, Inside, PullInv
<1>5. CASE StartDelivery(r)
  BY <1>5 DEF StartDelivery, Holding, DownInv, ClaimInv, ClaimUnique, WorkerInv, WorkUnderClaim, ReconcileInv, Inside, PullInv
<1>6. CASE RequestFails(r)
  BY <1>6 DEF RequestFails, DownInv, ClaimInv, ClaimUnique, WorkerInv, WorkUnderClaim, ReconcileInv, Inside, PullInv
<1> QED BY <1>1, <1>2, <1>3, <1>4, <1>5, <1>6 DEF Request

\* The steps of a worker, its errors and its panics included.
LEMMA WorkerSteps ==
    ASSUME IInv, NEW op \in Ids, Worker(op) \/ WorkerErrors(op) \/ WorkerPanics(op)
    PROVE  IInv'
<1> USE DeliveryAssumption DEF IInv, TypeOK, DeliveryStates, ActiveStates, Active,
        record, requests, workers, reconciles, outside, WorkerGoto, Holding
<1>1. ASSUME NEW from \in Holding, NEW to \in (Holding \ {"publish"}) \cup {"leave"},
             WorkerStep(op, from, to)
      PROVE  IInv'
  BY <1>1 DEF WorkerStep, DownInv, ClaimInv, ClaimUnique, WorkerInv, WorkUnderClaim, ReconcileInv, Inside, PullInv
<1>2. CASE WorkerOpens(op)
  BY <1>1, <1>2 DEF WorkerOpens
<1>3. CASE PushRejected(op) \/ CreateRefused(op)
  BY <1>1, <1>3 DEF PushRejected, CreateRefused
<1>4. CASE ListFails(op)
  <2>1. PICK next \in {"fail", "lost"} : WorkerStep(op, "list", next)
    BY <1>4 DEF ListFails
  <2> QED BY <1>1, <2>1
<1>5. CASE WorkerErrors(op)
  BY <1>1, <1>5 DEF WorkerErrors
<1>6. CASE WorkerPanics(op)
  BY <1>1, <1>6 DEF WorkerPanics
<1>7. CASE PushSucceeds(op) \/ PushUncertain(op)
  <2>1. TypeOK'
    BY <1>7 DEF PushSucceeds, PushUncertain
  <2> DEFINE label == IF PushSucceeds(op) THEN "creating" ELSE "lost"
  <2>2. /\ worker[op] = "push" /\ worker' = [worker EXCEPT ![op] = label]
        /\ label \in {"creating", "lost"}
        /\ UNCHANGED <<record, up, requests, operation, found, reconciles, pulls>>
    BY <1>7 DEF PushSucceeds, PushUncertain
  <2> HIDE DEF label
  <2>3. (ReconcileInv /\ PullInv)'
    BY <2>2 DEF ReconcileInv, Inside, PullInv
  <2>4. (DownInv /\ ClaimInv /\ ClaimUnique /\ WorkerInv /\ WorkUnderClaim)'
    BY <2>2 DEF DownInv, ClaimInv, ClaimUnique, WorkerInv, WorkUnderClaim
  <2> QED BY <2>1, <2>3, <2>4
<1>8. CASE ListOpen(op)
  BY <1>8 DEF ListOpen, DownInv, ClaimInv, ClaimUnique, WorkerInv, WorkUnderClaim, ReconcileInv, Inside, PullInv
<1>9. CASE CreateSucceeds(op)
  BY <1>9 DEF CreateSucceeds, OpenPull, DownInv, ClaimInv, ClaimUnique, WorkerInv, WorkUnderClaim, ReconcileInv, Inside, PullInv
<1>10. CASE CreateUncertain(op)
  BY <1>10 DEF CreateUncertain, CreateUnobserved, OpenPull, DownInv, ClaimInv, ClaimUnique, WorkerInv, WorkUnderClaim, ReconcileInv, Inside, PullInv
<1>11. ASSUME NEW s \in {"creating_pr", "failed", "interrupted"},
              NEW next \in {"list", "leave"},
              s # "creating_pr" => next = "leave",
              worker[op] \in Holding,
              WriteIfOwner(op, s, link, next)
       PROVE  IInv'
  BY <1>11 DEF WriteIfOwner, DownInv, ClaimInv, ClaimUnique, WorkerInv, WorkUnderClaim, ReconcileInv, Inside, PullInv
<1>12. CASE MarkCreating(op) \/ FinishFailed(op) \/ MarkInterrupted(op)
  BY <1>11, <1>12 DEF MarkCreating, FinishFailed, MarkInterrupted
<1>13. CASE Publish(op)
  BY <1>13 DEF Publish, WriteIfOwner, DownInv, ClaimInv, ClaimUnique, WorkerInv, WorkUnderClaim, ReconcileInv, Inside, PullInv
<1>14. CASE WorkerLeaves(op)
  BY <1>14 DEF WorkerLeaves, DownInv, ClaimInv, ClaimUnique, WorkerInv, WorkUnderClaim, ReconcileInv, Inside, PullInv
<1> QED BY <1>2, <1>3, <1>4, <1>5, <1>6, <1>7, <1>8, <1>9, <1>10, <1>12, <1>13, <1>14 DEF Worker

\* The steps of the reconciliations.
LEMMA ReconcileSteps ==
    ASSUME IInv, NEW c \in Reconcilers,
           ReconcileCheck(c) \/ Reconcile(c) \/ ReconcileErrors(c) \/ Disconnect(c)
    PROVE  IInv'
<1> USE DeliveryAssumption DEF IInv, TypeOK, DeliveryStates, ActiveStates, Active,
        record, requests, workers, reconciles, outside, ReconcileGoto,
        DownInv, ClaimInv, ClaimUnique, WorkerInv, WorkUnderClaim, Inside, PullInv
<1>1. CASE ReconcileCheck(c)
  BY <1>1 DEF ReconcileCheck, ReconcileInv
<1>2. CASE ReconcileEnter(c)
  BY <1>2 DEF ReconcileEnter, ReconcileInv
<1>3. CASE ReconcileRead(c)
  BY <1>3 DEF ReconcileRead, Reconcilable, ReconcileInv
<1>4. CASE ReconcileList(c)
  <2>1. ASSUME NEW p \in pulls,
               reconcile[c] = "list",
               copy' = [copy EXCEPT ![c].pull = p],
               reconcile' = [reconcile EXCEPT ![c] = "write"],
               UNCHANGED <<record, up, requests, workers, reconciling, gone, outside>>
        PROVE  IInv'
    <3>1. copy' \in [Reconcilers ->
                     [owner : 0 .. MaxOperations, pull : PullRequests \cup {NoPull}]]
      BY <2>1
    <3>2. TypeOK'
      BY <2>1, <3>1
    <3>3. (DownInv /\ ClaimInv /\ ClaimUnique /\ WorkerInv /\ WorkUnderClaim /\ PullInv)'
      BY <2>1
    <3>4. \A d \in Reconcilers :
              copy'[d].owner = copy[d].owner /\ copy'[d].pull \in {copy[d].pull, p}
      BY <2>1
    <3>5. ReconcileInv'
      BY <2>1, <3>4 DEF ReconcileInv
    <3> QED BY <3>2, <3>3, <3>5
  <2>2. ASSUME NEW to \in {"write", "exit"},
               reconcile[c] = "list",
               reconcile' = [reconcile EXCEPT ![c] = to],
               UNCHANGED <<record, up, requests, workers, reconciling, copy, gone, outside>>
        PROVE  IInv'
    <3>1. TypeOK'
      BY <2>2
    <3>2. (DownInv /\ ClaimInv /\ ClaimUnique /\ WorkerInv /\ WorkUnderClaim /\ PullInv)'
      BY <2>2
    <3>3. ReconcileInv'
      BY <2>2 DEF ReconcileInv
    <3> QED BY <3>1, <3>2, <3>3
  <2>3. /\ reconcile[c] = "list"
        /\ UNCHANGED <<record, up, requests, workers, reconciling, gone, outside>>
    BY <1>4 DEF ReconcileList
  <2>4. CASE /\ reconcile' = [reconcile EXCEPT ![c] = "write"]
             /\ UNCHANGED copy
    BY <2>2, <2>3, <2>4
  <2>5. CASE /\ reconcile' = [reconcile EXCEPT ![c] = "exit"]
             /\ UNCHANGED copy
    BY <2>2, <2>3, <2>5
  <2>6. CASE \E p \in pulls :
                /\ reconcile' = [reconcile EXCEPT ![c] = "write"]
                /\ copy' = [copy EXCEPT ![c].pull = p]
    BY <2>1, <2>3, <2>6
  <2>7. \/ reconcile' = [reconcile EXCEPT ![c] = "write"] /\ UNCHANGED copy
        \/ reconcile' = [reconcile EXCEPT ![c] = "exit"] /\ UNCHANGED copy
        \/ \E p \in pulls :
              /\ reconcile' = [reconcile EXCEPT ![c] = "write"]
              /\ copy' = [copy EXCEPT ![c].pull = p]
    BY <1>4 DEF ReconcileList, Candidates
  <2> QED BY <2>4, <2>5, <2>6, <2>7
<1>5. CASE ReconcileUnconfirmed(c)
  BY <1>5 DEF ReconcileUnconfirmed, ReconcileInv
<1>9. CASE ReconcileErrors(c)
  BY <1>9 DEF ReconcileErrors, ReconcileInv
<1>6. CASE ReconcileWrite(c)
  BY <1>6 DEF ReconcileWrite, ReconcileInv
<1>7. CASE ReconcileExit(c)
  BY <1>7 DEF ReconcileExit, NoCopy, ReconcileInv
<1>8. CASE Disconnect(c)
  BY <1>8 DEF Disconnect, ReconcileInv
<1> QED BY <1>1, <1>2, <1>3, <1>4, <1>5, <1>6, <1>7, <1>8, <1>9 DEF Reconcile

\* A stop of the server, the next start, and what happens outside.
LEMMA EnvironmentSteps ==
    ASSUME IInv, Crash \/ Restart \/ Environment
    PROVE  IInv'
<1> USE DeliveryAssumption DEF IInv, TypeOK, DeliveryStates, ActiveStates, Active,
        record, requests, workers, reconciles, outside, Holding,
        DownInv, ClaimInv, ClaimUnique, WorkerInv, WorkUnderClaim, Inside, PullInv, ReconcileInv
<1>1. CASE Crash
  <2>1. /\ pulls' \in SUBSET PullRequests /\ pulls \subseteq pulls'
        /\ open' \in pulls' \cup {NoPull}
        /\ flight' \in SUBSET Ids /\ remote' \in {"none", "integrated", "drifted"}
    BY <1>1 DEF Crash, CreateUnobserved, OpenPull
  <2>2. TypeOK'
    <3>1. /\ claimed' \in [Requests -> 0 .. MaxOperations]
          /\ copy' \in [Reconcilers ->
                   [owner : 0 .. MaxOperations, pull : PullRequests \cup {NoPull}]]
      BY <1>1 DEF Crash, NoCopy
    <3>2. /\ request' \in [Requests -> {"idle", "checked", "claimed"}]
          /\ worker' \in [Ids -> Holding \cup {"none", "leave"}]
          /\ found' \in [Ids -> PullRequests \cup {NoPull}]
          /\ reconcile' \in [Reconcilers -> {"idle", "enter", "read", "list", "write", "exit"}]
          /\ gone' \in [Reconcilers -> BOOLEAN]
      BY <1>1 DEF Crash
    <3>3. UNCHANGED <<state, owner, link, local>>
      BY <1>1 DEF Crash
    <3>4. up' = FALSE /\ reconciling' = FALSE /\ operation' = 0
      BY <1>1 DEF Crash
    <3>5. operation' \in 0 .. MaxOperations
      BY <3>4, DeliveryAssumption
    <3>6. local' \in {"integrated", "drifted"} /\ state' \in DeliveryStates
          /\ owner' \in 0 .. MaxOperations /\ link' \in PullRequests \cup {NoPull}
      BY <3>3
    <3>7. up' \in BOOLEAN /\ reconciling' \in BOOLEAN
      BY <3>4
    <3> QED BY <2>1, <3>1, <3>2, <3>5, <3>6, <3>7
  <2>3. (DownInv /\ ClaimInv /\ ClaimUnique /\ WorkerInv /\ WorkUnderClaim)'
    BY <1>1 DEF Crash
  <2>4. \A c \in Reconcilers : reconcile'[c] = "idle" /\ copy'[c].pull = NoPull
    BY <1>1 DEF Crash, NoCopy
  <2>5. (ReconcileInv /\ PullInv)'
    <3>1. ReconcileInv'
      BY <2>4
    <3>2. \A op \in Ids : worker'[op] = "none"
      BY <1>1 DEF Crash
    <3>3. PullInv'
      BY <1>1, <2>1, <3>2 DEF Crash
    <3> QED BY <3>1, <3>3
  <2> QED BY <2>2, <2>3, <2>5
<1>2. CASE Restart
  <2>1. TypeOK'
    BY <1>2 DEF Restart
  <2>2. (DownInv /\ ClaimInv /\ ClaimUnique /\ WorkerInv /\ WorkUnderClaim)'
    BY <1>2 DEF Restart
  <2>3. (ReconcileInv /\ PullInv)'
    BY <1>2 DEF Restart
  <2> QED BY <2>1, <2>2, <2>3
<1>3. CASE LandLate
  BY <1>3 DEF LandLate, OpenPull
<1>4. CASE ClosePull \/ CommitOnBranch \/ ResetBranch
  <2>1. TypeOK'
    BY <1>4 DEF ClosePull, CommitOnBranch, ResetBranch
  <2>2. (DownInv /\ ClaimInv /\ ClaimUnique /\ WorkerInv /\ WorkUnderClaim)'
    BY <1>4 DEF ClosePull, CommitOnBranch, ResetBranch
  <2>3. (ReconcileInv /\ PullInv)'
    BY <1>4 DEF ClosePull, CommitOnBranch, ResetBranch
  <2> QED BY <2>1, <2>2, <2>3
<1> QED BY <1>1, <1>2, <1>3, <1>4 DEF Environment

LEMMA Invariance == Spec => []IInv
<1>1. IInv /\ [Next]_vars => IInv'
  <2> SUFFICES ASSUME IInv, [Next]_vars PROVE IInv'
    OBVIOUS
  <2>1. CASE UNCHANGED vars
    BY <2>1 DEF vars, record, requests, workers, reconciles, outside, IInv, TypeOK, DownInv, ClaimInv,
       ClaimUnique, WorkerInv, WorkUnderClaim, ReconcileInv, Inside, PullInv, Active
  <2>2. CASE Next
    BY <2>2, RequestSteps, WorkerSteps, ReconcileSteps, EnvironmentSteps DEF Next
  <2> QED BY <2>1, <2>2
<1> QED BY <1>1, InitIInv, PTL DEF Spec
(***************************************************************************)
(* What follows from the invariant.                                        *)
(***************************************************************************)

\* Every reachable state of the record, the two maps, the requests, the workers
\* and GitHub is well typed.
THEOREM DeliveryTypeCorrect == Spec => []TypeOK
BY Invariance, PTL DEF IInv

\* Whatever is claimed, lost, reconciled or restarted, a worker that acts on the
\* remote or is about to write an outcome owns the active record.
THEOREM WorkersOwn == Spec => []WorkUnderClaim
BY Invariance, PTL DEF IInv

\* A record that says published links a pull request that was opened.
THEOREM PublishedLinked == Spec => []PublishedHasPull
<1>1. IInv => PublishedHasPull
  BY DeliveryAssumption DEF IInv, TypeOK, PullInv, PublishedHasPull
<1> QED BY <1>1, Invariance, PTL

\* Whatever the report tells of the record is so.
LEMMA ReportAgrees == IInv => ReportTells
<1> SUFFICES ASSUME IInv PROVE ReportTells
  OBVIOUS
<1>1. /\ TypeOK /\ WorkUnderClaim
      /\ link \in pulls \cup {NoPull} /\ (state = "published" <=> link # NoPull)
      /\ NoPull \notin pulls
      /\ \A c \in Reconcilers : reconcile[c] \in {"list", "write"} => state = "interrupted"
  BY DeliveryAssumption DEF IInv, PullInv, ReconcileInv, TypeOK
<1>2. ASSUME NEW op \in Ids, worker[op] \in Holding
      PROVE  EffectiveState \in ActiveStates /\ ~RetrySafe
  <2>1. state \in ActiveStates
    BY <1>1, <1>2 DEF WorkUnderClaim, Active
  <2> QED BY <1>1, <2>1 DEF EffectiveState, RetrySafe, ActiveStates
<1>3. EffectiveState = "published" <=> link \in pulls
  BY <1>1 DEF EffectiveState, ActiveStates
<1>4. EffectiveState = "ready" => RetrySafe
  BY <1>1 DEF EffectiveState, RetrySafe, ActiveStates
<1>5. RetrySafe => Claimable /\ \A c \in Reconcilers : reconcile[c] \notin {"list", "write"}
  BY <1>1 DEF RetrySafe, Claimable, TypeOK, DeliveryStates, ActiveStates
<1> QED BY <1>2, <1>3, <1>4, <1>5 DEF ReportTells

\* Types, ownership and link of the record together, and the report of them.
THEOREM ClaimsAreSound == Spec => []ClaimsSound
<1>1. IInv /\ PublishedHasPull => ClaimsSound
  BY ReportAgrees DEF IInv, ClaimsSound
<1> QED BY <1>1, Invariance, PublishedLinked, PTL

\* No step of a stale request, worker or reconciliation changes a published
\* record.
THEOREM PublishedFinal == Spec => PublishedStays
<1>1. IInv /\ [Next]_vars =>
        [state = "published" => state' = "published" /\ link' = link]_vars
  <2> SUFFICES ASSUME IInv, Next, state = "published"
               PROVE  state' = "published" /\ link' = link
    BY DEF vars, record
  <2> USE DEF IInv, record, Active, ActiveStates
  <2>1. ASSUME NEW r \in Requests, BeginDelivery(r) \/ Request(r)
        PROVE  UNCHANGED <<state, link>>
    BY <2>1 DEF BeginDelivery, Request, BaseUnavailable, Claim, Claimable, ClaimLost,
       StartDelivery, RequestFails
  <2>2. ASSUME NEW op \in Ids, Worker(op) \/ WorkerErrors(op) \/ WorkerPanics(op)
        PROVE  UNCHANGED <<state, link>>
    BY <2>2 DEF Worker, WorkerErrors, WorkerPanics, WorkerStep, WriteIfOwner, WorkerOpens,
       PushSucceeds, PushRejected, PushUncertain, MarkCreating, ListOpen, ListFails,
       CreateSucceeds, CreateRefused, CreateUncertain, Publish, FinishFailed,
       MarkInterrupted, WorkerLeaves
  <2>3. ASSUME NEW c \in Reconcilers,
               ReconcileCheck(c) \/ Reconcile(c) \/ ReconcileErrors(c) \/ Disconnect(c)
        PROVE  UNCHANGED <<state, link>>
    BY <2>3 DEF ReconcileCheck, Reconcile, ReconcileErrors, Disconnect, ReconcileEnter,
       ReconcileRead, ReconcileList, ReconcileUnconfirmed, ReconcileWrite, ReconcileExit,
       ReconcileInv
  <2>4. ASSUME Crash \/ Restart \/ Environment PROVE UNCHANGED <<state, link>>
    BY <2>4 DEF Crash, Restart, Environment, LandLate, ClosePull, CommitOnBranch, ResetBranch
  <2> QED BY <2>1, <2>2, <2>3, <2>4 DEF Next
<1> QED BY <1>1, Invariance, PTL DEF Spec, PublishedStays

\* An unknown outcome is resolved by a reconciliation that asked GitHub, and by
\* nothing else: no request, worker or restart touches it.
THEOREM UnknownKept == Spec => UnknownNeedsReconcile
<1>1. IInv /\ [Next]_vars =>
        [state = "interrupted" /\ state' # "interrupted" =>
            \E c \in Reconcilers : reconcile[c] = "write"]_vars
  <2> SUFFICES ASSUME IInv, Next, state = "interrupted",
                      \A c \in Reconcilers : reconcile[c] # "write"
               PROVE  state' = state
    BY DEF vars, record
  <2> USE DEF IInv, record, Active, ActiveStates
  <2>1. ASSUME NEW r \in Requests, BeginDelivery(r) \/ Request(r)
        PROVE  UNCHANGED state
    BY <2>1 DEF BeginDelivery, Request, BaseUnavailable, Claim, Claimable, ClaimLost,
       StartDelivery, RequestFails
  <2>2. ASSUME NEW op \in Ids, Worker(op) \/ WorkerErrors(op) \/ WorkerPanics(op)
        PROVE  UNCHANGED state
    BY <2>2 DEF Worker, WorkerErrors, WorkerPanics, WorkerStep, WriteIfOwner, WorkerOpens,
       PushSucceeds, PushRejected, PushUncertain, MarkCreating, ListOpen, ListFails,
       CreateSucceeds, CreateRefused, CreateUncertain, Publish, FinishFailed,
       MarkInterrupted, WorkerLeaves
  <2>3. ASSUME NEW c \in Reconcilers,
               ReconcileCheck(c) \/ Reconcile(c) \/ ReconcileErrors(c) \/ Disconnect(c)
        PROVE  UNCHANGED state
    BY <2>3 DEF ReconcileCheck, Reconcile, ReconcileErrors, Disconnect, ReconcileEnter,
       ReconcileRead, ReconcileList, ReconcileUnconfirmed, ReconcileWrite, ReconcileExit
  <2>4. ASSUME Crash \/ Restart \/ Environment PROVE UNCHANGED state
    BY <2>4 DEF Crash, Restart, Environment, LandLate, ClosePull, CommitOnBranch, ResetBranch
  <2> QED BY <2>1, <2>2, <2>3, <2>4 DEF Next
<1> QED BY <1>1, Invariance, PTL DEF Spec, UnknownNeedsReconcile
(***************************************************************************)
(* Nothing but a commit of a user's changes the head after it was checked: *)
(* where no one makes one, what is checked is what is pushed.              *)
(***************************************************************************)
HeadInv ==
    /\ remote # "drifted"
    /\ \A r \in Requests : request[r] # "idle" => local = "integrated"
    /\ \A op \in Ids : worker[op] # "none" => local = "integrated"

LEMMA HeadKept ==
    ASSUME "drift" \notin Faults, TypeOK, HeadInv, [Next]_vars
    PROVE  HeadInv'
<1> USE DEF HeadInv, TypeOK, record, requests, workers, reconciles, outside
<1>1. CASE UNCHANGED vars
  BY <1>1 DEF vars
<1>2. ASSUME NEW r \in Requests, BeginDelivery(r) \/ Request(r) PROVE HeadInv'
  BY <1>2 DEF BeginDelivery, Eligible, Request, BaseUnavailable, Claim, ClaimLost, StartDelivery,
              RequestFails, RequestGoto
<1>3. ASSUME NEW op \in Ids, Worker(op) \/ WorkerErrors(op) \/ WorkerPanics(op) PROVE HeadInv'
  <2> USE DEF WorkerGoto
  <2>1. ASSUME NEW from \in Holding, NEW to, WorkerStep(op, from, to) PROVE HeadInv'
    BY <2>1 DEF WorkerStep, Holding
  <2>2. CASE WorkerErrors(op) \/ WorkerPanics(op)
    BY <2>1, <2>2 DEF WorkerErrors, WorkerPanics
  <2>3. CASE WorkerOpens(op) \/ PushRejected(op) \/ ListFails(op) \/ CreateRefused(op)
    BY <2>1, <2>3 DEF WorkerOpens, PushRejected, ListFails, CreateRefused, Holding
  <2>4. CASE PushSucceeds(op) \/ PushUncertain(op)
    BY <2>4 DEF PushSucceeds, PushUncertain
  <2>5. CASE CreateSucceeds(op) \/ CreateUncertain(op)
    BY <2>5 DEF CreateSucceeds, CreateUncertain, CreateUnobserved, OpenPull
  <2>6. CASE MarkCreating(op) \/ Publish(op) \/ FinishFailed(op) \/ MarkInterrupted(op)
    BY <2>6 DEF MarkCreating, Publish, FinishFailed, MarkInterrupted, WriteIfOwner
  <2>7. CASE ListOpen(op) \/ WorkerLeaves(op)
    BY <2>7 DEF ListOpen, WorkerLeaves
  <2> QED BY <1>3, <2>2, <2>3, <2>4, <2>5, <2>6, <2>7 DEF Worker
<1>4. ASSUME NEW c \in Reconcilers,
             ReconcileCheck(c) \/ Reconcile(c) \/ ReconcileErrors(c) \/ Disconnect(c)
      PROVE  HeadInv'
  BY <1>4 DEF ReconcileCheck, Reconcile, ReconcileEnter, ReconcileRead, ReconcileList,
              ReconcileUnconfirmed, ReconcileWrite, ReconcileExit, ReconcileErrors, Disconnect
<1>5. CASE Crash
  <2>1. remote' # "drifted"
    BY <1>5 DEF Crash
  <2> QED BY <1>5, <2>1 DEF Crash
<1>6. CASE Restart \/ Environment
  BY <1>6 DEF Restart, Environment, LandLate, ClosePull, CommitOnBranch, ResetBranch
<1> QED BY <1>1, <1>2, <1>3, <1>4, <1>5, <1>6 DEF Next

\* While no user commits on the run's branch, only the run's integrated state is
\* ever pushed, whatever is retried, reconciled or cut off; a run shows what such
\* a commit does.
THEOREM OnlyIntegratedPushed ==
    ASSUME "drift" \notin Faults PROVE Spec => []PushedIsIntegrated
<1>1. Init => HeadInv
  BY DEF Init, HeadInv
<1>2. TypeOK /\ HeadInv /\ [Next]_vars => HeadInv'
  BY HeadKept
<1>3. HeadInv => PushedIsIntegrated
  BY DEF HeadInv, PushedIsIntegrated
<1> QED BY <1>1, <1>2, <1>3, DeliveryTypeCorrect, PTL DEF Spec

-----------------------------------------------------------------------------
(***************************************************************************)
(* The delivery implements its ledger, as long as no create command takes  *)
(* effect after the server gave up on it: for any number of requests,      *)
(* reconciliations, operations and pull requests, and all other faults.    *)
(***************************************************************************)

\* Where nothing has been created yet, because only the owner creates.
Unopened == {"open", "push", "creating", "list", "create", "fail"}

\* The record is free, or held by somebody who has created nothing, only while
\* no pull request exists.
CleanInv ==
    /\ flight = {}
    /\ state \in {"not_ready", "ready", "failed"} => pulls = {}
    /\ \A r \in Requests : request[r] = "claimed" => pulls = {}
    /\ \A op \in Ids : worker[op] \in Unopened => pulls = {}
    /\ \A c \in Reconcilers :
            reconcile[c] = "write" /\ copy[c].pull = NoPull => pulls = {}
    /\ OnePull

LInv == IInv /\ CleanInv

Acts == {op \in Ids : worker[op] \in Acting}

Phase ==
    IF Active THEN "owned"
    ELSE IF state = "interrupted" THEN "unknown"
    ELSE IF state = "published" THEN "published"
    ELSE "released"

Implements == [Ledger!Next]_(Ledger!ledger)

USE DEF Ids, NoOperation

LEMMA LedgerStutter ==
    UNCHANGED <<Phase, owner, Acts, pulls, link>> => Implements
BY DEF Implements, Phase, Acts, Ledger!ledger

\* Only the owner can act.
LEMMA ActsOwner ==
    ASSUME IInv
    PROVE  /\ \A op \in Ids : worker[op] \in Acting => Acts = {owner} /\ op = owner /\ Active
           /\ Acts = {} \/ Acts = {owner}
           /\ ~Active => Acts = {}
BY DEF IInv, Acts, Acting, Holding, WorkUnderClaim

LEMMA RequestImplements ==
    ASSUME LInv, NEW r \in Requests, BeginDelivery(r) \/ Request(r)
    PROVE  CleanInv' /\ Implements
<1> USE DEF LInv, record, requests, workers, reconciles, outside, RequestGoto
<1>1. CleanInv'
  BY DEF IInv, TypeOK, CleanInv, OnePull, Unopened, BeginDelivery, Request, BaseUnavailable, Claim,
     Claimable, ClaimLost, StartDelivery, RequestFails
<1>2. Acts' = Acts
  BY DEF IInv, TypeOK, Acts, Acting, BeginDelivery, Request, BaseUnavailable, Claim, ClaimLost,
     StartDelivery, RequestFails, ClaimInv
<1>3. CASE Claim(r)
  <2>1. Ledger!Claim
    BY <1>2, <1>3 DEF Claim, Claimable, Ledger!Claim, Acts, Active, ActiveStates
  <2> QED BY <2>1, <1>1 DEF Implements, Ledger!Next
<1>4. CASE ~Claim(r)
  <2>1. UNCHANGED <<Phase, owner, pulls, link>>
    BY <1>4 DEF BeginDelivery, Request, BaseUnavailable, Claimable, ClaimLost, StartDelivery,
       RequestFails, Phase, Active, ActiveStates
  <2> QED BY <1>1, <1>2, <2>1, LedgerStutter
<1> QED BY <1>3, <1>4
\* A worker that changes its label only between acting and not acting.
LEMMA WorkerImplements ==
    ASSUME "late" \notin Faults, LInv, NEW op \in Ids,
           Worker(op) \/ WorkerErrors(op) \/ WorkerPanics(op)
    PROVE  CleanInv' /\ Implements
<1> USE DEF LInv, record, requests, workers, reconciles, outside, WorkerGoto
<1>1. ASSUME NEW from \in Holding, NEW to \in Holding \cup {"leave"},
             to \in Unopened => from \in Unopened,
             to \in Acting => from \notin Acting,
             WorkerStep(op, from, to)
      PROVE  CleanInv' /\ Implements
  <2>1. CleanInv'
    BY <1>1 DEF IInv, TypeOK, CleanInv, OnePull, WorkerStep, Holding, Unopened
  <2>2. UNCHANGED <<Phase, owner, pulls, link>>
    BY <1>1 DEF WorkerStep, Phase, Active
  <2>3. Active /\ op = owner
    BY <1>1 DEF IInv, WorkUnderClaim, WorkerStep
  <2>4. CASE to \in Acting
    <3>1. Acts = {} /\ Acts' = {owner}
      BY <1>1, <2>3, <2>4, ActsOwner DEF IInv, TypeOK, WorkUnderClaim, WorkerStep, Acts, Acting, Holding
    <3>2. Ledger!StartWork
      BY <2>2, <2>3, <3>1 DEF Ledger!StartWork, Phase, Acts
    <3> QED BY <2>1, <3>2 DEF Implements, Ledger!Next
  <2>5. CASE to \notin Acting /\ from \in Acting
    <3>1. Acts = {owner} /\ Acts' = {}
      BY <1>1, <2>3, <2>5, ActsOwner DEF IInv, TypeOK, WorkUnderClaim, WorkerStep, Acts, Acting, Holding
    <3>2. Ledger!EndWork
      BY <2>2, <2>3, <3>1 DEF Ledger!EndWork, Phase, Acts
    <3> QED BY <2>1, <3>2 DEF Implements, Ledger!Next
  <2>6. CASE to \notin Acting /\ from \notin Acting
    <3>1. Acts' = Acts
      BY <1>1, <2>6 DEF IInv, TypeOK, WorkerStep, Acts
    <3> QED BY <2>1, <2>2, <3>1, LedgerStutter
  <2> QED BY <2>4, <2>5, <2>6
<1>2. CASE WorkerOpens(op)
  BY <1>1, <1>2 DEF WorkerOpens, Holding, Unopened, Acting
<1>3. CASE PushRejected(op) \/ CreateRefused(op)
  BY <1>1, <1>3 DEF PushRejected, CreateRefused, Holding, Unopened, Acting
<1>4. CASE ListFails(op)
  <2>1. PICK next \in {"fail", "lost"} : WorkerStep(op, "list", next)
    BY <1>4 DEF ListFails
  <2> QED BY <1>1, <2>1 DEF Holding, Unopened, Acting
<1>5. CASE WorkerErrors(op)
  BY <1>1, <1>5 DEF WorkerErrors, Holding, Unopened, Acting
<1>6. CASE WorkerPanics(op)
  BY <1>1, <1>6 DEF WorkerPanics, Holding, Unopened, Acting
\* The commands end: nothing was opened, or the first pull request.
<1>7. CASE PushSucceeds(op) \/ PushUncertain(op) \/ CreateSucceeds(op) \/ CreateUncertain(op)
  <2>1. /\ worker[op] \in Acting
        /\ \E to \in {"creating", "publish", "lost"} :
              /\ to = "creating" => worker[op] = "push"
              /\ worker' = [worker EXCEPT ![op] = to]
        /\ UNCHANGED <<state, owner, link, up, requests, reconciles, flight>>
        /\ \/ UNCHANGED pulls
           \/ worker[op] = "create" /\ \E p \in PullRequests : pulls' = pulls \cup {p}
        /\ worker'[op] = "creating" => UNCHANGED pulls
    BY <1>7 DEF IInv, TypeOK, PushSucceeds, PushUncertain, CreateSucceeds, CreateUncertain,
       CreateUnobserved, OpenPull, Acting
  <2>2. pulls = {}
    BY <2>1 DEF CleanInv, Acting, Unopened
  <2>3. Active /\ op = owner /\ Acts = {owner}
    BY <2>1, ActsOwner DEF Acting
  <2>4. Acts' = {}
    BY <2>1, <2>3 DEF IInv, TypeOK, Acts, Acting
  <2>5. Ledger!EndWork
    BY <2>1, <2>2, <2>3, <2>4 DEF Ledger!EndWork, Active, Acts
  <2>6. CleanInv'
    <3>1. UNCHANGED flight /\ (OnePull /\ flight = {})'
      BY <2>1, <2>2 DEF OnePull, CleanInv
    <3>2. \A o \in Ids : worker'[o] \in Unopened => pulls' = {}
      BY <2>1, <2>2, <2>3 DEF IInv, TypeOK, WorkUnderClaim, Unopened, Holding
    <3>3. \A r \in Requests : request[r] # "claimed"
      BY <2>1, <2>3 DEF IInv, ClaimInv, Acting
    <3>4. \A c \in Reconcilers : reconcile[c] # "write"
      BY <2>3 DEF IInv, ReconcileInv, Active, ActiveStates
    <3>5. state \notin {"not_ready", "ready", "failed"}
      BY <2>3 DEF Active, ActiveStates
    <3> QED BY <2>1, <3>1, <3>2, <3>3, <3>4, <3>5 DEF CleanInv
  <2> QED BY <2>5, <2>6 DEF Implements, Ledger!Next
<1>8. CASE ListOpen(op)
  <2>1. CleanInv'
    BY <1>8 DEF IInv, TypeOK, CleanInv, OnePull, ListOpen, Unopened
  <2>2. open = NoPull
    BY <1>8 DEF IInv, TypeOK, CleanInv, ListOpen, Unopened
  <2>3. Active /\ op = owner
    BY <1>8 DEF IInv, WorkUnderClaim, ListOpen, Holding
  <2>4. Acts = {} /\ Acts' = {owner}
    BY <1>8, <2>2, <2>3, ActsOwner DEF IInv, TypeOK, WorkUnderClaim, ListOpen, Acts, Acting, Holding
  <2>5. Ledger!StartWork
    BY <1>8, <2>3, <2>4 DEF ListOpen, Ledger!StartWork, Active, Acts
  <2> QED BY <2>1, <2>5 DEF Implements, Ledger!Next
\* The guarded writes.
<1>9. CASE MarkCreating(op) \/ FinishFailed(op) \/ MarkInterrupted(op) \/ Publish(op)
  <2>1. /\ worker[op] \in Holding \ Acting /\ worker' [op] \notin Acting
        /\ \A o \in Ids \ {op} : worker'[o] = worker[o]
        /\ UNCHANGED <<owner, up, requests, reconciles, outside>>
    BY <1>9 DEF IInv, TypeOK, MarkCreating, FinishFailed, MarkInterrupted, Publish, WriteIfOwner,
       Holding, Acting
  <2>2. Active /\ op = owner /\ Acts = {} /\ Acts' = {}
    BY <2>1, ActsOwner DEF IInv, WorkUnderClaim, Acts, Acting, Holding
  <2>3. CASE MarkCreating(op)
    <3>1. UNCHANGED <<Phase, owner, Acts, pulls, link>>
      BY <2>1, <2>2, <2>3 DEF MarkCreating, WriteIfOwner, Phase, Active, ActiveStates
    <3>2. CleanInv'
      BY <2>2, <2>3 DEF IInv, TypeOK, CleanInv, OnePull, MarkCreating, WriteIfOwner, Unopened
    <3> QED BY <3>1, <3>2, LedgerStutter
  <2>4. CASE Publish(op)
    <3>1. Ledger!Publish
      BY <2>1, <2>2, <2>4 DEF Publish, WriteIfOwner, Ledger!Publish, IInv, PullInv, Active,
         ActiveStates, Acts
    <3>2. CleanInv'
      BY <2>2, <2>4 DEF IInv, TypeOK, CleanInv, OnePull, Publish, WriteIfOwner, Unopened
    <3> QED BY <3>1, <3>2 DEF Implements, Ledger!Next
  <2>5. CASE worker[op] = "fail" /\ WriteIfOwner(op, "failed", link, "leave")
    <3>1. Ledger!Release
      BY <2>1, <2>2, <2>5 DEF WriteIfOwner, Ledger!Release, CleanInv, Unopened, Active,
         ActiveStates, Acts
    <3>2. CleanInv'
      BY <2>2, <2>5 DEF IInv, TypeOK, CleanInv, OnePull, WriteIfOwner, Unopened
    <3> QED BY <3>1, <3>2 DEF Implements, Ledger!Next
  <2>6. CASE /\ worker[op] \in {"lost", "panicked"}
             /\ WriteIfOwner(op, "interrupted", link, "leave")
    <3>1. Ledger!LoseTrack
      BY <2>1, <2>2, <2>6 DEF WriteIfOwner, Ledger!LoseTrack, Active, ActiveStates, Acts
    <3>2. CleanInv'
      BY <2>2, <2>6 DEF IInv, TypeOK, CleanInv, OnePull, WriteIfOwner, Unopened
    <3> QED BY <3>1, <3>2 DEF Implements, Ledger!Next
  <2> QED BY <1>9, <2>3, <2>4, <2>5, <2>6 DEF FinishFailed, MarkInterrupted
<1>10. CASE WorkerLeaves(op)
  <2>1. CleanInv'
    BY <1>10 DEF IInv, TypeOK, CleanInv, OnePull, WorkerLeaves, Unopened
  <2>2. Acts' = Acts
    BY <1>10 DEF IInv, TypeOK, WorkerLeaves, Acts, Acting
  <2>3. UNCHANGED <<Phase, owner, pulls, link>>
    BY <1>10 DEF WorkerLeaves, Phase, Active
  <2> QED BY <2>1, <2>2, <2>3, LedgerStutter
<1> QED BY <1>2, <1>3, <1>4, <1>5, <1>6, <1>7, <1>8, <1>9, <1>10 DEF Worker

LEMMA ReconcileImplements ==
    ASSUME LInv, NEW c \in Reconcilers,
           ReconcileCheck(c) \/ Reconcile(c) \/ ReconcileErrors(c) \/ Disconnect(c)
    PROVE  CleanInv' /\ Implements
<1> USE DEF LInv, record, requests, workers, reconciles, outside, ReconcileGoto
<1>1. UNCHANGED <<worker, Acts, pulls, request, flight>>
  BY DEF Acts, ReconcileCheck, Reconcile, ReconcileErrors, Disconnect, ReconcileEnter,
     ReconcileRead, ReconcileList, ReconcileUnconfirmed, ReconcileWrite, ReconcileExit
<1>2. CASE ReconcileWrite(c)
  <2>1. /\ state = "interrupted" /\ copy[c].owner = owner
        /\ copy[c].pull \in pulls \cup {NoPull}
        /\ copy[c].pull = NoPull => pulls = {}
        /\ link = NoPull /\ Acts = {}
    BY <1>2, ActsOwner DEF ReconcileWrite, IInv, ReconcileInv, PullInv, CleanInv, Active, ActiveStates
  <2>2. \A d \in Reconcilers : reconcile'[d] # "write"
    BY <1>2 DEF IInv, TypeOK, ReconcileInv, Inside, ReconcileWrite
  <2>3. CleanInv'
    BY <1>1, <1>2, <2>1, <2>2 DEF ReconcileWrite, CleanInv, OnePull
  <2>4. CASE copy[c].pull = NoPull
    <3>1. Ledger!Release
      BY <1>1, <1>2, <2>1, <2>4 DEF ReconcileWrite, Ledger!Release, Active, ActiveStates, Acts
    <3> QED BY <2>3, <3>1 DEF Implements, Ledger!Next
  <2>5. CASE copy[c].pull # NoPull
    <3>1. Ledger!Publish
      BY <1>1, <1>2, <2>1, <2>5 DEF ReconcileWrite, Ledger!Publish, Active, ActiveStates, Acts
    <3> QED BY <2>3, <3>1 DEF Implements, Ledger!Next
  <2> QED BY <2>4, <2>5
<1>3. CASE ~ReconcileWrite(c)
  <2>1. UNCHANGED <<state, owner, link>>
    BY <1>3 DEF ReconcileCheck, Reconcile, ReconcileErrors, Disconnect, ReconcileEnter,
       ReconcileRead, ReconcileList, ReconcileUnconfirmed, ReconcileExit
  <2>2. \A d \in Reconcilers :
            reconcile'[d] = "write" /\ copy'[d].pull = NoPull => pulls' = {}
    <3>1. CASE ReconcileList(c)
      <4> SUFFICES ASSUME NEW d \in Reconcilers, reconcile'[d] = "write", copy'[d].pull = NoPull
                   PROVE  pulls' = {}
        OBVIOUS
      <4>1. CASE d = c
        BY <1>1, <3>1, <4>1, DeliveryAssumption DEF ReconcileList, Candidates, IInv, TypeOK, CleanInv
      <4>2. CASE d # c
        BY <1>1, <3>1, <4>2 DEF ReconcileList, IInv, TypeOK, CleanInv
      <4> QED BY <4>1, <4>2
    <3>2. CASE ~ReconcileList(c)
      BY <1>1, <1>3, <3>2 DEF IInv, TypeOK, CleanInv, ReconcileCheck, Reconcile, ReconcileErrors,
         Disconnect, ReconcileEnter, ReconcileRead, ReconcileUnconfirmed, ReconcileExit
    <3> QED BY <3>1, <3>2
  <2>3. CleanInv'
    BY <1>1, <2>1, <2>2 DEF CleanInv, OnePull
  <2>4. UNCHANGED Phase
    BY <2>1 DEF Phase, Active
  <2> QED BY <1>1, <2>1, <2>3, <2>4, LedgerStutter
<1> QED BY <1>2, <1>3

LEMMA EnvironmentImplements ==
    ASSUME "late" \notin Faults, LInv, Crash \/ Restart \/ Environment
    PROVE  CleanInv' /\ Implements
<1> USE DEF LInv, record, requests, workers, reconciles, outside
<1>1. CASE Crash
  <2>1. /\ UNCHANGED <<state, owner, link, flight>>
        /\ \A o \in Ids : worker'[o] = "none"
        /\ \A r \in Requests : request'[r] = "idle"
        /\ \A c \in Reconcilers : reconcile'[c] = "idle"
        /\ \/ UNCHANGED pulls
           \/ /\ \E o \in Ids : worker[o] = "create"
              /\ \E p \in PullRequests : pulls' = pulls \cup {p}
    BY <1>1 DEF Crash, CreateUnobserved, OpenPull
  <2>2. Acts' = {}
    BY <2>1 DEF Acts, Acting
  <2>3. UNCHANGED Phase
    BY <2>1 DEF Phase, Active
  <2>4. CASE Acts = {}
    <3>1. UNCHANGED pulls
      BY <2>1, <2>4 DEF Acts, Acting
    <3>2. CleanInv'
      BY <2>1, <3>1 DEF CleanInv, OnePull, Unopened
    <3> QED BY <2>1, <2>2, <2>3, <2>4, <3>1, <3>2, LedgerStutter
  <2>5. CASE Acts # {}
    <3>1. PICK o \in Ids : worker[o] \in Acting
      BY <2>5 DEF Acts
    <3>2. Active /\ pulls = {}
      BY <3>1, ActsOwner DEF CleanInv, Acting, Unopened
    <3>3. Ledger!EndWork
      BY <2>1, <2>2, <2>5, <3>2 DEF Ledger!EndWork, Active, Acts
    <3>4. CleanInv'
      BY <2>1, <3>2 DEF CleanInv, OnePull, Unopened, Active, ActiveStates
    <3> QED BY <3>3, <3>4 DEF Implements, Ledger!Next
  <2> QED BY <2>4, <2>5
<1>2. CASE Restart
  <2>1. CleanInv'
    BY <1>2 DEF Restart, CleanInv, OnePull
  <2>2. Acts = {} /\ Acts' = {}
    BY <1>2 DEF Restart, IInv, DownInv, Acts, Acting
  <2>3. CASE Active
    <3>1. Ledger!LoseTrack
      BY <1>2, <2>2, <2>3 DEF Restart, Ledger!LoseTrack, Active, ActiveStates, Acts
    <3> QED BY <2>1, <3>1 DEF Implements, Ledger!Next
  <2>4. CASE ~Active
    <3>1. UNCHANGED <<Phase, owner, pulls, link>>
      BY <1>2, <2>4 DEF Restart, Phase, Active
    <3> QED BY <2>1, <2>2, <3>1, LedgerStutter
  <2> QED BY <2>3, <2>4
<1>3. CASE Environment
  <2>1. UNCHANGED <<state, owner, link, request, worker, reconcile, copy, pulls, flight>>
    BY <1>3 DEF Environment, LandLate, ClosePull, CommitOnBranch, ResetBranch, CleanInv
  <2>2. CleanInv'
    BY <2>1 DEF CleanInv, OnePull
  <2>3. UNCHANGED <<Phase, Acts>>
    BY <2>1 DEF Phase, Active, Acts
  <2> QED BY <2>1, <2>2, <2>3, LedgerStutter
<1> QED BY <1>1, <1>2, <1>3

LEMMA CleanAlways ==
    ASSUME "late" \notin Faults PROVE Spec => []LInv
<1>1. Init => CleanInv
  BY DEF Init, CleanInv, OnePull, Unopened
<1>2. LInv /\ [Next]_vars => CleanInv'
  <2>1. ASSUME LInv, Next PROVE CleanInv'
    BY <2>1, RequestImplements, WorkerImplements, ReconcileImplements, EnvironmentImplements DEF Next
  <2>2. ASSUME LInv, UNCHANGED vars PROVE CleanInv'
    BY <2>2 DEF LInv, CleanInv, OnePull, vars, record, requests, workers, reconciles, outside
  <2> QED BY <2>1, <2>2
<1> QED BY <1>1, <1>2, Invariance, PTL DEF Spec, LInv

\* However many requests, restarts and reconciliations there are, and whether or
\* not users close it, one pull request at most is opened for a run.
THEOREM OnePullRequest ==
    ASSUME "late" \notin Faults PROVE Spec => []OnePull
BY CleanAlways, PTL DEF LInv, CleanInv

\* A record that may be claimed for another try has no pull request behind it.
THEOREM RetriesAreClean ==
    ASSUME "late" \notin Faults PROVE Spec => []RetryableIsClean
<1>1. LInv => RetryableIsClean
  BY DEF LInv, CleanInv, RetryableIsClean, Claimable
<1> QED BY <1>1, CleanAlways, PTL

\* Both together.
THEOREM PullsAreSound ==
    ASSUME "late" \notin Faults PROVE Spec => []PullsSound
<1>1. OnePull /\ RetryableIsClean => PullsSound
  BY DEF PullsSound
<1> QED BY <1>1, OnePullRequest, RetriesAreClean, PTL

\* The delivery implements its ledger: initial states map to the ledger's, and
\* every step to a step of the ledger or to none.
THEOREM DeliveryImplementsLedger ==
    ASSUME "late" \notin Faults PROVE Spec => ImplementsLedger
<1>1. Init => Ledger!Init
  BY DEF Init, Ledger!Init, Active, ActiveStates, Acting
<1>2. LInv /\ [Next]_vars => [Ledger!Next]_(Ledger!ledger)
  <2>1. ASSUME LInv, Next PROVE [Ledger!Next]_(Ledger!ledger)
    BY <2>1, RequestImplements, WorkerImplements, ReconcileImplements, EnvironmentImplements
       DEF Next, Implements
  <2>2. ASSUME UNCHANGED vars PROVE [Ledger!Next]_(Ledger!ledger)
    BY <2>2 DEF Ledger!ledger, vars, record, requests, workers, reconciles, outside, Active
  <2> QED BY <2>1, <2>2
<1> QED BY <1>1, <1>2, CleanAlways, PTL DEF Spec, Ledger!Spec, ImplementsLedger

(***************************************************************************)
(* What the supervisors of external processes promise, for every amount of *)
(* output, channel and batch.                                              *)
(***************************************************************************)
ReaderStates == {"reading", "sending", "eof", "failed"}
Signals == {"none", "obeys", "ignores", "escaped"}
Places7 == {"poll", "terminate", "reap", "drain", "grace", "finish", "done"}

SupervisionTypes ==
  /\ supervisor \in {"bounded", "agent"}
  /\ child \in {"running", "exited", "reaped"}
  /\ helper \in [signals : Signals, holds : BOOLEAN, alive : BOOLEAN]
  /\ written \in [Streams -> Nat] /\ read \in [Streams -> Nat] /\ received \in [Streams -> Nat]
  /\ reader \in [Streams -> ReaderStates]
  /\ stdin \in {"none", "writing", "written", "broken"}
  /\ channel \in Seq(Streams)
  /\ pc \in Places7 /\ turn \in 0 .. Batch
  /\ late \in BOOLEAN /\ grace \in {"unused", "running", "over"} /\ cancel \in BOOLEAN
  /\ timedOut \in BOOLEAN /\ wasCancelled \in BOOLEAN /\ outcome \in Outcomes

(* What a reader has taken is what it found, and all there will be once it *)
(* has met the end.                                                        *)
ReadersTell ==
  \A s \in Streams : /\ read[s] =< written[s]
                     /\ reader[s] = "eof" => read[s] = written[s] /\ ~Held
(* A chunk an agent's reader has taken is in its hands, on the way, or     *)
(* handled.                                                                *)
ChunksAccounted ==
  supervisor = "agent" =>
    \A s \in Streams :
      read[s] = received[s] + HowMany(channel, {s}) + (IF reader[s] = "sending" THEN 1 ELSE 0)
(* What the supervisor remembers of the clock and of the flag is true.     *)
MarksTrue ==
  /\ timedOut => late /\ supervisor = "bounded"
  /\ wasCancelled => cancel
(* Past the supervision loop the child is reaped; past the grace, so is    *)
(* every helper of the group.                                              *)
ReapedInTime ==
  /\ pc \in {"drain", "grace", "finish"} => child = "reaped"
  /\ pc = "grace" => (helper.alive => helper.signals = "escaped")
(* An outcome is given at the end only, for the reason it names.           *)
OutcomeTells ==
  /\ pc # "done" => outcome = "none"
  /\ outcome \in {"ok", "timed_out", "cancelled"} => child = "reaped"
  /\ outcome = "ok" => Complete /\ ~timedOut /\ ~wasCancelled /\ (supervisor = "agent" => channel = <<>>)
  /\ outcome = "timed_out" => timedOut
  /\ outcome = "cancelled" => wasCancelled
  /\ supervisor = "bounded" /\ outcome \in {"timed_out", "cancelled"} =>
       (helper.alive /\ helper.holds => helper.signals = "escaped" \/ \E s \in Streams : reader[s] = "failed")

CallInv == SupervisionTypes /\ ReadersTell /\ ChunksAccounted /\ MarksTrue /\ ReapedInTime /\ OutcomeTells

LEMMA InitCall == ProcessInit => CallInv
<1> SUFFICES ASSUME ProcessInit PROVE CallInv
  OBVIOUS
<1> USE DEF ProcessInit
<1>1. SupervisionTypes
  <2>1. turn \in 0 .. Batch
    BY ProcessAssumption
  <2>2. helper \in [signals : Signals, holds : BOOLEAN, alive : BOOLEAN]
    BY DEF Helpers, Signals
  <2>3. stdin \in {"none", "writing", "written", "broken"}
    OBVIOUS
  <2>4. /\ written \in [Streams -> Nat] /\ read \in [Streams -> Nat] /\ received \in [Streams -> Nat]
        /\ reader \in [Streams -> ReaderStates] /\ channel \in Seq(Streams)
    BY DEF ReaderStates
  <2> QED BY <2>1, <2>2, <2>3, <2>4 DEF SupervisionTypes, Places7, Outcomes
<1>2. ReadersTell /\ MarksTrue /\ ReapedInTime /\ OutcomeTells
  BY DEF ReadersTell, MarksTrue, ReapedInTime, OutcomeTells
<1>3. ChunksAccounted
  BY CountEmpty DEF ChunksAccounted
<1> QED BY <1>1, <1>2, <1>3 DEF CallInv

(* Whoever holds the pipes held them before: no step starts a process.     *)
NobodyStarts == (Held' => Held) /\ (helper'.alive => helper.alive) /\ helper'.signals = helper.signals
                /\ helper'.holds = helper.holds

LEMMA KilledIs ==
  ASSUME SupervisionTypes, NEW hard \in BOOLEAN, TerminateTree(hard)
  PROVE  /\ child' \in {"exited", "reaped"} /\ (child = "reaped" => child' = "reaped")
         /\ helper' \in [signals : Signals, holds : BOOLEAN, alive : BOOLEAN] /\ NobodyStarts
         /\ hard => (helper'.alive => helper'.signals = "escaped")
  BY DEF SupervisionTypes, TerminateTree, Killed, NobodyStarts, Held, Signals

(* The processes, the clock and the readers.                               *)
LEMMA OutsideKeeps ==
  ASSUME CallInv, \/ ChildExits \/ HelperExits \/ DeadlinePasses \/ GracePasses \/ CancelRequested \/ StdinWriter
  PROVE  CallInv'
<1> USE DEF CallInv, ChildExits, HelperExits, DeadlinePasses, GracePasses, CancelRequested, StdinWriter,
            SupervisorVars, PipeVars, ClockVars
<1>1. SupervisionTypes'
  <2>0. helper \in [signals : Signals, holds : BOOLEAN, alive : BOOLEAN]
    BY DEF SupervisionTypes
  <2>1. CASE ChildExits \/ HelperExits
    <3>1. [helper EXCEPT !.alive = FALSE] \in [signals : Signals, holds : BOOLEAN, alive : BOOLEAN]
      BY <2>0
    <3>2. CASE ChildExits
      BY <3>2 DEF SupervisionTypes
    <3>3. CASE HelperExits
      BY <3>1, <3>3 DEF SupervisionTypes
    <3> QED BY <2>1, <3>2, <3>3
  <2>2. CASE DeadlinePasses \/ GracePasses \/ CancelRequested
    <3>1. CASE DeadlinePasses
      BY <3>1 DEF SupervisionTypes
    <3>2. CASE GracePasses
      BY <3>2 DEF SupervisionTypes
    <3>3. CASE CancelRequested
      BY <3>3 DEF SupervisionTypes
    <3> QED BY <2>2, <3>1, <3>2, <3>3
  <2>3. CASE StdinWriter
    BY <2>3 DEF SupervisionTypes
  <2> QED BY <2>1, <2>2, <2>3
<1>2. NobodyStarts
  BY DEF SupervisionTypes, NobodyStarts, Held
<1>3. ReadersTell'
  BY <1>2 DEF ReadersTell, NobodyStarts
<1>4. ChunksAccounted'
  BY DEF ChunksAccounted
<1>5. MarksTrue' /\ ReapedInTime'
  BY DEF MarksTrue, ReapedInTime, SupervisionTypes
<1>6. OutcomeTells'
  BY <1>2 DEF OutcomeTells, NobodyStarts, Complete
<1> QED BY <1>1, <1>3, <1>4, <1>5, <1>6

LEMMA PipesKeep ==
  ASSUME CallInv, NEW s \in Streams, Emit(s) \/ ReaderStep(s) \/ ReaderFails(s) \/ Send(s)
  PROVE  CallInv'
<1> USE DEF CallInv, SupervisorVars, ClockVars
<1>1. CASE Emit(s)
  <2> USE <1>1 DEF Emit
  <2>1. SupervisionTypes'
    BY DEF SupervisionTypes
  <2>2. ReadersTell'
    BY DEF ReadersTell, SupervisionTypes, Held
  <2>3. ChunksAccounted' /\ MarksTrue' /\ ReapedInTime'
    BY DEF ChunksAccounted, MarksTrue, ReapedInTime
  <2>4. OutcomeTells'
    BY DEF OutcomeTells, Complete
  <2> QED BY <2>1, <2>2, <2>3, <2>4
<1>2. CASE ReaderStep(s)
  <2>0. /\ UNCHANGED <<supervisor, child, helper, written, stdin, channel, received>>
        /\ UNCHANGED <<SupervisorVars, ClockVars>>
        /\ reader[s] = "reading"
        /\ \/ /\ read[s] < written[s] /\ read' = [read EXCEPT ![s] = @ + 1] /\ supervisor = "agent"
              /\ reader' = [reader EXCEPT ![s] = "sending"]
           \/ /\ read[s] < written[s] /\ read' = [read EXCEPT ![s] = @ + 1] /\ supervisor = "bounded"
              /\ reader' = reader
           \/ /\ read[s] = written[s] /\ ~Held /\ reader' = [reader EXCEPT ![s] = "eof"] /\ read' = read
    BY <1>2 DEF ReaderStep, SupervisionTypes
  <2>1. SupervisionTypes'
    <3>0. read \in [Streams -> Nat] /\ read[s] + 1 \in Nat /\ reader \in [Streams -> ReaderStates]
      BY DEF SupervisionTypes
    <3>1. read' = [read EXCEPT ![s] = read[s] + 1] \/ read' = read
      BY <2>0
    <3>2. read' \in [Streams -> Nat]
      BY <3>0, <3>1
    <3>3. reader' \in [Streams -> ReaderStates]
      BY <2>0, <3>0 DEF ReaderStates
    <3> QED BY <2>0, <3>2, <3>3 DEF SupervisionTypes
  <2>2. ReadersTell'
    <3>1. \A u \in Streams : written[u] \in Nat /\ read[u] \in Nat
      BY DEF SupervisionTypes
    <3>2. /\ \A u \in Streams : read'[u] =< written[u] /\ (u # s => read'[u] = read[u] /\ reader'[u] = reader[u])
          /\ reader'[s] = "eof" => read'[s] = written[s] /\ ~Held
      BY <2>0, <3>1 DEF ReadersTell, SupervisionTypes
    <3>3. (Held' <=> Held) /\ written' = written
      BY <2>0 DEF Held
    <3>4. ASSUME NEW u \in Streams PROVE reader'[u] = "eof" => read'[u] = written'[u] /\ ~Held'
      <4>1. CASE u = s
        BY <3>2, <3>3, <4>1
      <4>2. CASE u # s
        BY <3>2, <3>3, <4>2 DEF ReadersTell
      <4> QED BY <4>1, <4>2
    <3> QED BY <3>2, <3>3, <3>4 DEF ReadersTell
  <2>3. ChunksAccounted'
    <3>1. \A u \in Streams : HowMany(channel, {u}) \in Nat /\ read[u] \in Nat /\ received[u] \in Nat
      BY PlacesFinite DEF SupervisionTypes
    <3>2. ASSUME supervisor = "agent", NEW u \in Streams
          PROVE  read'[u] = received[u] + HowMany(channel, {u}) + (IF reader'[u] = "sending" THEN 1 ELSE 0)
      <4>1. read[u] = received[u] + HowMany(channel, {u}) + (IF reader[u] = "sending" THEN 1 ELSE 0)
        BY <3>2 DEF ChunksAccounted
      <4>2. CASE u # s
        BY <2>0, <4>1, <4>2 DEF SupervisionTypes
      <4>3. CASE u = s
        <5>1. \/ read'[s] = read[s] + 1 /\ reader'[s] = "sending" /\ reader[s] = "reading"
              \/ read'[s] = read[s] /\ reader'[s] = "eof" /\ reader[s] = "reading"
          BY <2>0, <3>2 DEF SupervisionTypes
        <5> QED BY <3>1, <4>1, <4>3, <5>1
      <4> QED BY <4>2, <4>3
    <3> QED BY <2>0, <3>2 DEF ChunksAccounted
  <2>4. MarksTrue' /\ ReapedInTime'
    BY <2>0 DEF MarksTrue, ReapedInTime
  <2>5. OutcomeTells'
    BY <2>0 DEF OutcomeTells, Complete, SupervisionTypes
  <2> QED BY <2>1, <2>2, <2>3, <2>4, <2>5
<1>3. CASE ReaderFails(s)
  <2> USE <1>3 DEF ReaderFails
  <2>1. SupervisionTypes'
    BY DEF SupervisionTypes, ReaderStates
  <2>2. ReadersTell'
    BY DEF ReadersTell, SupervisionTypes, Held
  <2>3. ChunksAccounted'
    BY DEF ChunksAccounted, SupervisionTypes
  <2>4. MarksTrue' /\ ReapedInTime'
    BY DEF MarksTrue, ReapedInTime
  <2>5. OutcomeTells'
    BY DEF OutcomeTells, Complete, SupervisionTypes
  <2> QED BY <2>1, <2>2, <2>3, <2>4, <2>5
<1>4. CASE Send(s)
  <2> USE <1>4 DEF Send
  <2>1. SupervisionTypes'
    BY DEF SupervisionTypes, ReaderStates
  <2>2. ReadersTell'
    BY DEF ReadersTell, SupervisionTypes, Held
  <2>3. ChunksAccounted'
    <3>1. \A u \in Streams : /\ HowMany(channel, {u}) \in Nat /\ read[u] \in Nat /\ received[u] \in Nat
                             /\ HowMany(channel', {u}) = HowMany(channel, {u}) + (IF s \in {u} THEN 1 ELSE 0)
      BY PlacesFinite, CountAppend DEF SupervisionTypes
    <3>2. ASSUME supervisor = "agent", NEW u \in Streams
          PROVE  read[u] = received[u] + HowMany(channel', {u}) + (IF reader'[u] = "sending" THEN 1 ELSE 0)
      <4>1. read[u] = received[u] + HowMany(channel, {u}) + (IF reader[u] = "sending" THEN 1 ELSE 0)
        BY <3>2 DEF ChunksAccounted
      <4>2. reader'[u] = IF u = s THEN "reading" ELSE reader[u]
        BY DEF SupervisionTypes
      <4> QED BY <3>1, <4>1, <4>2
    <3> QED BY <3>2 DEF ChunksAccounted
  <2>4. MarksTrue' /\ ReapedInTime'
    BY DEF MarksTrue, ReapedInTime
  <2>5. OutcomeTells'
    BY DEF OutcomeTells, Complete, SupervisionTypes
  <2> QED BY <2>1, <2>2, <2>3, <2>4, <2>5
<1> QED BY <1>1, <1>2, <1>3, <1>4

(* run_with_cancel.                                                        *)
LEMMA BoundedKeeps ==
  ASSUME CallInv, BoundedCall \/ PollFails
  PROVE  CallInv'
<1> USE DEF CallInv, BoundedStep, PipeVars, ClockVars
<1>1. /\ supervisor = "bounded" /\ supervisor' = "bounded" /\ ChunksAccounted'
      /\ UNCHANGED <<written, read, reader, channel, received>>
  BY DEF BoundedCall, PollChild, PollFails, Terminate, Reap, DrainSlice, ForceDrain, ChunksAccounted
<1>2. Complete' = Complete /\ ReadersDone' = ReadersDone
  BY <1>1 DEF Complete, ReadersDone
<1>3. ASSUME NobodyStarts PROVE ReadersTell'
  BY <1>1, <1>3 DEF ReadersTell, NobodyStarts
<1>4. CASE PollChild
  <2>1. SupervisionTypes'
    BY <1>4 DEF SupervisionTypes, PollChild, Places7
  <2>2. NobodyStarts
    BY <1>4 DEF SupervisionTypes, PollChild, NobodyStarts, Held
  <2>3. MarksTrue' /\ ReapedInTime' /\ OutcomeTells'
    BY <1>1, <1>2, <1>4 DEF PollChild, MarksTrue, ReapedInTime, OutcomeTells
  <2> QED BY <1>1, <1>3, <2>1, <2>2, <2>3
<1>5. CASE PollFails
  <2>0. TerminateTree(FALSE)
    BY <1>5 DEF PollFails
  <2>1. SupervisionTypes'
    BY <1>5, <2>0, KilledIs DEF SupervisionTypes, PollFails, Places7, Outcomes
  <2>2. NobodyStarts
    BY <2>0, KilledIs
  <2>3. MarksTrue' /\ ReapedInTime' /\ OutcomeTells'
    BY <1>5 DEF PollFails, MarksTrue, ReapedInTime, OutcomeTells
  <2> QED BY <1>1, <1>3, <2>1, <2>2, <2>3
<1>6. CASE Terminate
  <2>0. TerminateTree(FALSE)
    BY <1>6 DEF Terminate
  <2>1. SupervisionTypes'
    BY <1>6, <2>0, KilledIs DEF SupervisionTypes, Terminate, Places7
  <2>2. NobodyStarts
    BY <2>0, KilledIs
  <2>3. MarksTrue' /\ ReapedInTime' /\ OutcomeTells'
    BY <1>6 DEF Terminate, MarksTrue, ReapedInTime, OutcomeTells
  <2> QED BY <1>1, <1>3, <2>1, <2>2, <2>3
<1>7. CASE Reap
  <2>1. SupervisionTypes'
    BY <1>7 DEF SupervisionTypes, Reap, Places7
  <2>2. NobodyStarts
    BY <1>7 DEF SupervisionTypes, Reap, NobodyStarts, Held
  <2>3. MarksTrue' /\ ReapedInTime' /\ OutcomeTells'
    BY <1>7 DEF Reap, MarksTrue, ReapedInTime, OutcomeTells
  <2> QED BY <1>1, <1>3, <2>1, <2>2, <2>3
<1>8. CASE DrainSlice /\ (late \/ cancel)
  <2>0. TerminateTree(TRUE) /\ child = "reaped"
    BY <1>8 DEF DrainSlice, ReapedInTime
  <2>1. SupervisionTypes'
    BY <1>8, <2>0, KilledIs DEF SupervisionTypes, DrainSlice, Places7
  <2>2. NobodyStarts
    BY <2>0, KilledIs
  <2>3. MarksTrue' /\ ReapedInTime'
    BY <1>8, <2>0, KilledIs DEF DrainSlice, MarksTrue, ReapedInTime, SupervisionTypes
  <2>4. OutcomeTells'
    BY <1>8 DEF DrainSlice, OutcomeTells
  <2> QED BY <1>1, <1>3, <2>1, <2>2, <2>3, <2>4
<1>9. CASE ForceDrain \/ (DrainSlice /\ ~(late \/ cancel))
  <2>0. /\ outcome' = Result(timedOut, wasCancelled, Complete) /\ pc' = "done" /\ child = "reaped"
        /\ UNCHANGED <<child, helper, timedOut, wasCancelled, ClockVars>>
        /\ (helper.alive => helper.signals = "escaped") \/ ReadersDone
    BY <1>9 DEF ForceDrain, DrainSlice, ReapedInTime
  <2>1. SupervisionTypes'
    BY <1>1, <1>9, <2>0 DEF SupervisionTypes, Places7, Outcomes, Result, ForceDrain, DrainSlice
  <2>2. NobodyStarts
    BY <2>0 DEF NobodyStarts, Held
  <2>3. MarksTrue' /\ ReapedInTime'
    BY <1>1, <2>0 DEF MarksTrue, ReapedInTime
  <2>4. ReadersDone => (\E s \in Streams : reader[s] = "failed") \/ ~(helper.alive /\ helper.holds)
    <3>1. ASSUME ReadersDone, \A s \in Streams : reader[s] # "failed" PROVE ~(helper.alive /\ helper.holds)
      <4>1. "stdout" \in Streams /\ reader["stdout"] = "eof"
        BY <3>1 DEF ReadersDone, Streams
      <4> QED BY <4>1 DEF ReadersTell, Held
    <3> QED BY <3>1
  <2>5. OutcomeTells'
    BY <1>1, <1>2, <2>0, <2>4 DEF OutcomeTells, Result
  <2> QED BY <1>1, <1>3, <2>1, <2>2, <2>3, <2>5
<1> QED BY <1>4, <1>5, <1>6, <1>7, <1>8, <1>9 DEF BoundedCall

(* run_observed.                                                           *)
LEMMA AgentKeeps ==
  ASSUME CallInv, AgentCall \/ TryWaitFails
  PROVE  CallInv'
<1> USE DEF CallInv, AgentStep, ClockVars
<1>1. /\ supervisor = "agent" /\ supervisor' = "agent" /\ Complete' = Complete
      /\ UNCHANGED <<written, read, reader, stdin, timedOut, late, grace, cancel>>
  BY DEF AgentCall, HandleChunk, LookAtChild, Finish, Joined, TryWaitFails, Complete
<1>2. ASSUME NobodyStarts PROVE ReadersTell'
  BY <1>1, <1>2 DEF ReadersTell, NobodyStarts
<1>3. ASSUME UNCHANGED <<channel, received>> PROVE ChunksAccounted'
  BY <1>1, <1>3 DEF ChunksAccounted
<1>4. ASSUME ReceiveChunk
      PROVE  channel \in Seq(Streams) /\ channel' \in Seq(Streams) /\ received' \in [Streams -> Nat] /\ ChunksAccounted'
  <2>1. channel # <<>> /\ channel \in Seq(Streams) /\ channel' = Tail(channel)
    BY <1>4 DEF ReceiveChunk, SupervisionTypes
  <2>2. /\ Tail(channel) \in Seq(Streams) /\ Head(channel) \in Streams
        /\ \A u \in Streams : HowMany(channel, {u}) = HowMany(Tail(channel), {u}) + (IF Head(channel) \in {u} THEN 1 ELSE 0)
    BY <2>1, CountTail
  <2>3. \A u \in Streams : HowMany(channel', {u}) \in Nat
    BY <2>1, <2>2, PlacesFinite
  <2>4. received' = [received EXCEPT ![Head(channel)] = @ + 1] /\ received \in [Streams -> Nat] /\ read \in [Streams -> Nat]
    BY <1>4 DEF ReceiveChunk, SupervisionTypes
  <2>5. \A u \in Streams : received'[u] = received[u] + (IF Head(channel) \in {u} THEN 1 ELSE 0)
    BY <2>2, <2>4
  <2>6. \A u \in Streams : received[u] \in Nat /\ received'[u] \in Nat
    BY <2>2, <2>4
  <2>7. ASSUME NEW u \in Streams
        PROVE  read[u] = received'[u] + HowMany(channel', {u}) + (IF reader[u] = "sending" THEN 1 ELSE 0)
    <3>1. read[u] = received[u] + HowMany(channel, {u}) + (IF reader[u] = "sending" THEN 1 ELSE 0)
      BY <1>1 DEF ChunksAccounted
    <3>2. HowMany(channel, {u}) = HowMany(channel', {u}) + (IF Head(channel) \in {u} THEN 1 ELSE 0)
      BY <2>1, <2>2
    <3>3. received[u] + HowMany(channel, {u}) = received'[u] + HowMany(channel', {u})
      BY <2>3, <2>5, <2>6, <3>2
    <3> QED BY <3>1, <3>3
  <2>8. ChunksAccounted'
    BY <1>1, <2>7 DEF ChunksAccounted
  <2> QED BY <2>1, <2>2, <2>4, <2>8
<1>5. CASE HandleChunk
  <2> USE <1>5 DEF HandleChunk
  <2>1. SupervisionTypes'
    BY <1>1, <1>4, ProcessAssumption DEF SupervisionTypes
  <2>2. NobodyStarts
    BY DEF NobodyStarts, Held
  <2>3. MarksTrue' /\ ReapedInTime' /\ OutcomeTells'
    BY <1>1 DEF MarksTrue, ReapedInTime, OutcomeTells
  <2> QED BY <1>1, <1>2, <1>4, <2>1, <2>2, <2>3
<1>6. CASE LookAtChild
  <2>0. /\ pc = "poll" /\ UNCHANGED <<channel, received, outcome>> /\ turn' \in 0 .. Batch
        /\ wasCancelled' = (wasCancelled \/ cancel)
        /\ \/ cancel /\ ~wasCancelled /\ TerminateTree(FALSE) /\ pc' = pc
           \/ ~(cancel /\ ~wasCancelled) /\ helper' = helper /\ child = "exited" /\ child' = "reaped" /\ pc' = "finish"
           \/ ~(cancel /\ ~wasCancelled) /\ UNCHANGED <<helper, child, pc>>
    <3>1. Batch \in 0 .. Batch
      BY ProcessAssumption
    <3>2. CASE cancel /\ ~wasCancelled
      BY <1>6, <3>1, <3>2 DEF LookAtChild
    <3>3. CASE ~(cancel /\ ~wasCancelled)
      BY <1>6, <3>1, <3>3 DEF LookAtChild
    <3> QED BY <3>2, <3>3
  <2>1. CASE cancel /\ ~wasCancelled
    <3>1. TerminateTree(FALSE) /\ wasCancelled' = TRUE /\ pc' = pc
      BY <2>0, <2>1 DEF SupervisionTypes
    <3>2. SupervisionTypes'
      BY <1>1, <2>0, <3>1, KilledIs DEF SupervisionTypes
    <3>3. NobodyStarts
      BY <3>1, KilledIs
    <3>4. MarksTrue' /\ ReapedInTime' /\ OutcomeTells'
      BY <1>1, <2>0, <2>1, <3>1 DEF MarksTrue, ReapedInTime, OutcomeTells
    <3> QED BY <1>1, <1>2, <1>3, <2>0, <3>2, <3>3, <3>4
  <2>2. CASE ~(cancel /\ ~wasCancelled)
    <3>1. wasCancelled' = wasCancelled
      BY <2>0, <2>2 DEF SupervisionTypes
    <3>2. SupervisionTypes'
      BY <1>1, <2>0, <2>2, <3>1 DEF SupervisionTypes, Places7
    <3>3. NobodyStarts
      BY <2>0, <2>2 DEF NobodyStarts, Held
    <3>4. MarksTrue' /\ ReapedInTime' /\ OutcomeTells'
      BY <1>1, <2>0, <2>2, <3>1 DEF MarksTrue, ReapedInTime, OutcomeTells
    <3> QED BY <1>1, <1>2, <1>3, <2>0, <3>2, <3>3, <3>4
  <2> QED BY <2>1, <2>2
<1>7. CASE Finish
  <2> USE <1>7 DEF Finish
  <2>1. SupervisionTypes'
    BY <1>1, <1>4 DEF SupervisionTypes
  <2>2. NobodyStarts
    BY DEF NobodyStarts, Held
  <2>3. MarksTrue' /\ ReapedInTime' /\ OutcomeTells'
    BY <1>1 DEF MarksTrue, ReapedInTime, OutcomeTells
  <2> QED BY <1>1, <1>2, <1>4, <2>1, <2>2, <2>3
<1>8. CASE Joined \/ TryWaitFails
  <2> USE <1>8 DEF Joined, TryWaitFails
  <2>1. SupervisionTypes'
    BY <1>1 DEF SupervisionTypes, Places7, Outcomes
  <2>2. NobodyStarts
    BY DEF NobodyStarts, Held
  <2>3. MarksTrue' /\ ReapedInTime'
    BY <1>1 DEF MarksTrue, ReapedInTime
  <2>4. OutcomeTells'
    <3>1. ~timedOut
      BY <1>1 DEF MarksTrue, SupervisionTypes
    <3> QED BY <1>1, <3>1 DEF OutcomeTells, ReapedInTime
  <2> QED BY <1>1, <1>2, <1>3, <2>1, <2>2, <2>3, <2>4
<1> QED BY <1>5, <1>6, <1>7, <1>8 DEF AgentCall

LEMMA CallKeeps == CallInv /\ [ProcessNext]_ProcessVars => CallInv'
<1> SUFFICES ASSUME CallInv, [ProcessNext]_ProcessVars PROVE CallInv'
  OBVIOUS
<1>1. CASE BoundedCall \/ PollFails
  BY <1>1, BoundedKeeps
<1>2. CASE AgentCall \/ TryWaitFails
  BY <1>2, AgentKeeps
<1>3. CASE StdinWriter \/ ChildExits \/ HelperExits \/ DeadlinePasses \/ GracePasses \/ CancelRequested
  BY <1>3, OutsideKeeps
<1>4. CASE \E s \in Streams : ReaderStep(s) \/ Send(s) \/ Emit(s) \/ ReaderFails(s)
  BY <1>4, PipesKeep
<1>5. CASE UNCHANGED ProcessVars
  BY <1>5 DEF ProcessVars, CallInv, SupervisionTypes, ReadersTell, ChunksAccounted, MarksTrue, ReapedInTime,
              OutcomeTells, Held, Complete
<1> QED BY <1>1, <1>2, <1>3, <1>4, <1>5 DEF ProcessNext, ProcessThreads

(* The readers, the channel, the deadline and the children of a call agree *)
(* with what it has counted and with what it will tell, at every moment.   *)
THEOREM CallInvariant == ProcessSpec => []CallInv
<1> QED BY InitCall, CallKeeps, PTL DEF ProcessSpec

(* A call that reports success has all that was written and leaves no      *)
(* zombie, a call says it was stopped only when it was, and one that was   *)
(* stopped leaves no process of its group on its pipes.                    *)
THEOREM CallsWhole == ProcessSpec => []CallsAreWhole
<1>1. ASSUME CallInv PROVE CallsAreWhole
  <2> USE <1>1 DEF CallInv
  <2>1. outcome = "ok" => /\ read = written /\ ~Held /\ (supervisor = "agent" => received = written)
                          /\ child = "reaped" /\ ~timedOut /\ ~wasCancelled
    <3> SUFFICES ASSUME outcome = "ok" PROVE /\ read = written /\ ~Held /\ (supervisor = "agent" => received = written)
                                             /\ child = "reaped" /\ ~timedOut /\ ~wasCancelled
      OBVIOUS
    <3>1. Complete /\ child = "reaped" /\ ~timedOut /\ ~wasCancelled /\ (supervisor = "agent" => channel = <<>>)
      BY DEF OutcomeTells
    <3>2. "stdout" \in Streams /\ ~Held /\ \A s \in Streams : read[s] = written[s]
      BY <3>1 DEF ReadersTell, Complete, Streams
    <3>3. read = written
      BY <3>2 DEF SupervisionTypes
    <3>4. ASSUME supervisor = "agent" PROVE received = written
      <4>1. \A s \in Streams : HowMany(channel, {s}) = 0 /\ reader[s] = "eof"
        BY <3>1, <3>4, CountEmpty DEF Complete
      <4>2. \A s \in Streams : received[s] \in Nat /\ read[s] = received[s] + 0 + 0
        BY <3>4, <4>1 DEF ChunksAccounted, SupervisionTypes
      <4>3. \A s \in Streams : received[s] = read[s]
        BY <4>2
      <4> QED BY <3>3, <4>3 DEF SupervisionTypes
    <3> QED BY <3>1, <3>2, <3>3, <3>4
  <2>2. (outcome = "timed_out" => late) /\ (outcome = "cancelled" => cancel /\ child = "reaped")
    BY DEF OutcomeTells, MarksTrue
  <2>3. supervisor = "bounded" /\ outcome \in {"timed_out", "cancelled"} =>
       /\ child = "reaped"
       /\ helper.alive /\ helper.holds =>
            helper.signals = "escaped" \/ \E s \in Streams : reader[s] = "failed"
    BY DEF OutcomeTells
  <2> QED BY <2>1, <2>2, <2>3 DEF CallsAreWhole
<1> QED BY <1>1, CallInvariant, PTL

-----------------------------------------------------------------------------
(***************************************************************************)
(* Proofs about Streams, for any alphabet, any finite sets of secrets that *)
(* are words of it, any limit of the capture and any length of the stream. *)
(* Decoding and replacing recur along a sequence: each is shown to be the  *)
(* one function with its recursion equation, and then to be taken in two   *)
(* parts, which is what reading in chunks does.  The invariant says what   *)
(* the record and the text held back are together.                         *)
(***************************************************************************)

(* A sequence without its first k elements, and joining sequences.         *)
Beyond(s, k) == SubSeq(s, k + 1, Len(s))

LEMMA Dropped ==
  ASSUME NEW T, NEW s \in Seq(T), NEW k \in 0 .. Len(s)
  PROVE  /\ Beyond(s, k) \in Seq(T) /\ Len(Beyond(s, k)) = Len(s) - k
         /\ \A i \in 1 .. Len(s) - k : Beyond(s, k)[i] = s[k + i]
<1>1. Len(s) \in Nat /\ k + 1 \in 1 .. Len(s) + 1
  OBVIOUS
<1> QED BY <1>1, SubSeqProperties DEF Beyond

LEMMA SameSequence ==
  ASSUME NEW T, NEW s \in Seq(T), NEW t \in Seq(T), Len(s) = Len(t),
         \A i \in 1 .. Len(s) : s[i] = t[i]
  PROVE  s = t
  OBVIOUS

LEMMA Concatenated ==
  ASSUME NEW T, NEW s \in Seq(T), NEW t \in Seq(T)
  PROVE  /\ s \o t \in Seq(T) /\ Len(s \o t) = Len(s) + Len(t)
         /\ \A i \in 1 .. Len(s) : (s \o t)[i] = s[i]
         /\ \A i \in 1 .. Len(t) : (s \o t)[Len(s) + i] = t[i]
  OBVIOUS

LEMMA DropNothing ==
  ASSUME NEW T, NEW s \in Seq(T)
  PROVE  Beyond(s, 0) = s /\ Beyond(s, Len(s)) = <<>>
<1>1. Len(s) \in Nat
  OBVIOUS
<1>2. Beyond(s, 0) = s
  BY <1>1, Dropped, SameSequence
<1>3. Beyond(s, Len(s)) = <<>>
  <2>1. Beyond(s, Len(s)) \in Seq(T) /\ Len(Beyond(s, Len(s))) = 0
    BY <1>1, Dropped
  <2> QED BY <2>1
<1> QED BY <1>2, <1>3

LEMMA DropTwice ==
  ASSUME NEW T, NEW s \in Seq(T), NEW k \in 0 .. Len(s), NEW m \in 0 .. Len(s) - k
  PROVE  Beyond(Beyond(s, k), m) = Beyond(s, k + m)
<1>1. Len(s) \in Nat /\ k \in Nat /\ m \in Nat /\ k + m \in 0 .. Len(s)
  OBVIOUS
<1>2. /\ Beyond(s, k) \in Seq(T) /\ Len(Beyond(s, k)) = Len(s) - k
      /\ \A i \in 1 .. Len(s) - k : Beyond(s, k)[i] = s[k + i]
  BY Dropped
<1>3. /\ Beyond(Beyond(s, k), m) \in Seq(T) /\ Len(Beyond(Beyond(s, k), m)) = Len(s) - k - m
      /\ \A i \in 1 .. Len(s) - k - m : Beyond(Beyond(s, k), m)[i] = Beyond(s, k)[m + i]
  <2>1. m \in 0 .. Len(Beyond(s, k))
    BY <1>2
  <2> QED BY <2>1, <1>2, Dropped
<1>4. /\ Beyond(s, k + m) \in Seq(T) /\ Len(Beyond(s, k + m)) = Len(s) - (k + m)
      /\ \A i \in 1 .. Len(s) - (k + m) : Beyond(s, k + m)[i] = s[k + m + i]
  BY <1>1, Dropped
<1>5. \A i \in 1 .. Len(s) - k - m : Beyond(Beyond(s, k), m)[i] = Beyond(s, k + m)[i]
  <2> TAKE i \in 1 .. Len(s) - k - m
  <2>1. m + i \in 1 .. Len(s) - k /\ k + (m + i) = k + m + i /\ i \in 1 .. Len(s) - (k + m)
    BY <1>1
  <2> QED BY <2>1, <1>2, <1>3, <1>4
<1> QED BY <1>1, <1>3, <1>4, <1>5, SameSequence

LEMMA DropJoined ==
  ASSUME NEW T, NEW s \in Seq(T), NEW t \in Seq(T), NEW k \in 0 .. Len(s)
  PROVE  Beyond(s \o t, k) = Beyond(s, k) \o t
<1> DEFINE a == s \o t
           b == Beyond(s, k)
           c == b \o t
           d == Beyond(a, k)
<1>1. Len(s) \in Nat /\ Len(t) \in Nat /\ k \in Nat /\ k =< Len(s)
  OBVIOUS
<1>2. /\ a \in Seq(T) /\ Len(a) = Len(s) + Len(t)
      /\ \A i \in 1 .. Len(s) : a[i] = s[i]
      /\ \A i \in 1 .. Len(t) : a[Len(s) + i] = t[i]
  BY Concatenated
<1>3. /\ b \in Seq(T) /\ Len(b) = Len(s) - k
      /\ \A i \in 1 .. Len(s) - k : b[i] = s[k + i]
  BY Dropped
<1> HIDE DEF a, b
<1>4. /\ d \in Seq(T) /\ Len(d) = Len(a) - k
      /\ \A i \in 1 .. Len(a) - k : d[i] = a[k + i]
  <2>1. k \in 0 .. Len(a)
    BY <1>1, <1>2
  <2> QED BY <2>1, <1>2, Dropped
<1>5. /\ c \in Seq(T) /\ Len(c) = Len(b) + Len(t)
      /\ \A i \in 1 .. Len(b) : c[i] = b[i]
      /\ \A i \in 1 .. Len(t) : c[Len(b) + i] = t[i]
  <2>1. b \in Seq(T)
    BY <1>3
  <2> HIDE DEF d
  <2> QED BY <2>1, Concatenated
<1> HIDE DEF c, d
<1>6. Len(c) = Len(d)
  BY ONLY <1>1, <1>2, <1>3, <1>4, <1>5
<1>7. ASSUME NEW i \in 1 .. Len(d) PROVE d[i] = c[i]
  <2>1. CASE i =< Len(s) - k
    <3>1. i \in 1 .. Len(s) - k /\ k + i \in 1 .. Len(s) /\ i \in 1 .. Len(a) - k
      BY <1>1, <1>2, <1>4, <2>1
    <3> QED BY <3>1, <1>2, <1>3, <1>4, <1>5
  <2>2. CASE i > Len(s) - k
    <3>1. PICK j \in 1 .. Len(t) : k + i = Len(s) + j /\ i = Len(b) + j
      <4> DEFINE j == i - (Len(s) - k)
      <4>1. j \in 1 .. Len(t)
        BY <1>1, <1>2, <1>4, <2>2
      <4>2. k + i = Len(s) + j /\ i = Len(b) + j
        BY <1>1, <1>3
      <4> HIDE DEF j
      <4> QED BY ONLY <4>1, <4>2
    <3>2. d[i] = a[k + i] /\ c[i] = t[j] /\ a[Len(s) + j] = t[j]
      BY <3>1, <1>2, <1>4, <1>5
    <3> QED BY <3>1, <3>2
  <2> QED BY <1>1, <1>2, <1>4, <2>1, <2>2
<1>8. d = c
  BY <1>4, <1>5, <1>6, <1>7, SameSequence
<1> QED BY <1>8 DEF a, b, c, d

LEMMA FirstAndRest ==
  ASSUME NEW T, NEW s \in Seq(T), s # <<>>
  PROVE  /\ Len(s) \in Nat \ {0} /\ s[1] \in T /\ 1 \in 0 .. Len(s)
         /\ Beyond(s, 1) \in Seq(T) /\ Len(Beyond(s, 1)) = Len(s) - 1
         /\ s = <<s[1]>> \o Beyond(s, 1)
<1>1. Len(s) \in Nat \ {0} /\ s[1] \in T /\ 1 \in 0 .. Len(s)
  OBVIOUS
<1>2. /\ Beyond(s, 1) \in Seq(T) /\ Len(Beyond(s, 1)) = Len(s) - 1
      /\ \A i \in 1 .. Len(s) - 1 : Beyond(s, 1)[i] = s[1 + i]
  BY <1>1, Dropped
<1>3. <<s[1]>> \in Seq(T) /\ Len(<<s[1]>>) = 1 /\ <<s[1]>>[1] = s[1]
  BY <1>1
<1>4. /\ <<s[1]>> \o Beyond(s, 1) \in Seq(T) /\ Len(<<s[1]>> \o Beyond(s, 1)) = Len(s)
      /\ (<<s[1]>> \o Beyond(s, 1))[1] = s[1]
      /\ \A i \in 1 .. Len(s) - 1 : (<<s[1]>> \o Beyond(s, 1))[1 + i] = s[1 + i]
  BY <1>1, <1>2, <1>3, Concatenated
<1>5. \A i \in 1 .. Len(s) : s[i] = (<<s[1]>> \o Beyond(s, 1))[i]
  <2> TAKE i \in 1 .. Len(s)
  <2>1. CASE i = 1
    BY <2>1, <1>4
  <2>2. CASE i # 1
    <3>1. i - 1 \in 1 .. Len(s) - 1 /\ i = 1 + (i - 1)
      BY <1>1, <2>2
    <3> QED BY <3>1, <1>4
  <2> QED BY <2>1, <2>2
<1> QED BY <1>1, <1>2, <1>4, <1>5, SameSequence

(* A scan of a text goes from each place to a later one.                   *)
Forward(next, m) == next \in [1 .. m -> 1 .. m + 1] /\ \A i \in 1 .. m : next[i] > i
StaysIn(T, m, base, H) == base \in T /\ \A i \in 1 .. m : \A v \in T : H[<<i, v>>] \in T
Scans(f, m, next, base, H) ==
  \A i \in 1 .. m + 1 : f[i] = IF i > m THEN base ELSE H[<<i, f[next[i]]>>]

LEMMA ScanDefined ==
  ASSUME NEW m \in Nat, NEW next, Forward(next, m), NEW T, NEW base, NEW H, StaysIn(T, m, base, H)
  PROVE  \E f \in [1 .. m + 1 -> T] : Scans(f, m, next, base, H)
<1> USE DEF Forward, StaysIn
<1> DEFINE D == [i \in 1 .. m + 1 |-> IF i > m THEN {} ELSE {next[i]}]
           HH == [p \in (1 .. m + 1) \X UNION {[D[i] -> T] : i \in 1 .. m + 1} |->
                    IF p[1] > m THEN base ELSE H[<<p[1], p[2][next[p[1]]]>>]]
<1>1. DOMAIN D = 1 .. m + 1 /\ IsFiniteSet(DOMAIN D)
  <2>1. m + 1 \in Int /\ 1 \in Int
    OBVIOUS
  <2>2. IsFiniteSet(1 .. m + 1)
    BY ONLY <2>1, FS_Interval
  <2> QED BY <2>2
<1>2. \A i \in DOMAIN D : D[i] \subseteq DOMAIN D
  OBVIOUS
<1>3. Rooted(D)
  <2> SUFFICES ASSUME NEW S \in SUBSET DOMAIN D, S # {} PROVE \E i \in S : D[i] \cap S = {}
    BY DEF Rooted
  <2>1. S \subseteq Nat /\ IsFiniteSet(S)
    <3>1. IsFiniteSet(S)
      BY <1>1, FS_Subset
    <3> QED BY <3>1
  <2>2. PICK i \in S : \A j \in S : j =< i
    <3> HIDE DEF D
    <3> QED BY <2>1, GreatestNumber
  <2>3. D[i] \cap S = {}
    <3>1. i \in 1 .. m + 1
      OBVIOUS
    <3>2. CASE i > m
      BY <3>1, <3>2
    <3>3. CASE ~(i > m)
      <4>1. i \in 1 .. m /\ D[i] = {next[i]} /\ next[i] > i /\ next[i] \in 1 .. m + 1
        BY <3>1, <3>3
      <4> QED BY <4>1, <2>1, <2>2
    <3> QED BY <3>2, <3>3
  <2> QED BY <2>3
<1>4. \A i \in DOMAIN D : \A g \in [D[i] -> T] :
        /\ HH[<<i, g>>] \in T
        /\ HH[<<i, g>>] = IF i > m THEN base ELSE H[<<i, g[next[i]]>>]
  <2> TAKE i \in DOMAIN D
  <2> TAKE g \in [D[i] -> T]
  <2>1. i \in 1 .. m + 1
    OBVIOUS
  <2>2. <<i, g>> \in (1 .. m + 1) \X UNION {[D[j] -> T] : j \in 1 .. m + 1}
    <3> HIDE DEF D
    <3> QED BY <2>1
  <2>3. HH[<<i, g>>] = IF i > m THEN base ELSE H[<<i, g[next[i]]>>]
    <3> HIDE DEF D
    <3> QED BY <2>2
  <2>4. ~(i > m) => g[next[i]] \in T /\ i \in 1 .. m
    BY <2>1
  <2> QED
    <3> HIDE DEF HH, D
    <3> QED BY <2>3, <2>4
<1>5. PICK f \in [DOMAIN D -> T] : SolvesAlong(f, D, HH)
  <2> HIDE DEF D, HH
  <2> QED BY <1>1, <1>2, <1>3, <1>4, RecursionDefined
<1>6. \A i \in 1 .. m + 1 : f[i] = IF i > m THEN base ELSE H[<<i, f[next[i]]>>]
  <2> TAKE i \in 1 .. m + 1
  <2> DEFINE g == [y \in D[i] |-> f[y]]
  <2>1. g \in [D[i] -> T] /\ f[i] = HH[<<i, g>>]
    <3>1. D[i] \subseteq DOMAIN D /\ i \in DOMAIN D
      BY <1>2
    <3> QED
      <4> HIDE DEF D, HH
      <4> QED BY <1>5, <3>1 DEF SolvesAlong
  <2>2. f[i] = IF i > m THEN base ELSE H[<<i, g[next[i]]>>]
    <3> HIDE DEF HH, g
    <3> QED BY <2>1, <1>4
  <2>3. ~(i > m) => g[next[i]] = f[next[i]]
    OBVIOUS
  <2> QED
    <3> HIDE DEF g
    <3> QED BY <2>2, <2>3
<1>7. f \in [1 .. m + 1 -> T]
  BY <1>1
<1> QED
  <2> HIDE DEF D, HH
  <2> QED BY <1>6, <1>7 DEF Scans

(* What holds of the place behind the last, and of each place as soon as   *)
(* it holds of the later ones, holds of all.                               *)
LEMMA Backwards ==
  ASSUME NEW n \in Nat, NEW S, n + 1 \in S,
         \A i \in 1 .. n : (\A j \in i + 1 .. n + 1 : j \in S) => i \in S
  PROVE  \A i \in 1 .. n + 1 : i \in S
<1> SUFFICES ASSUME (1 .. n + 1) \ S # {} PROVE FALSE
  OBVIOUS
<1>1. PICK i \in (1 .. n + 1) \ S : \A j \in (1 .. n + 1) \ S : j =< i
  <2>1. IsFiniteSet(1 .. n + 1)
    <3>1. 1 \in Int /\ n + 1 \in Int
      OBVIOUS
    <3> QED BY ONLY <3>1, FS_Interval
  <2>2. IsFiniteSet((1 .. n + 1) \ S) /\ (1 .. n + 1) \ S \subseteq Nat
    BY <2>1, FS_Subset
  <2> QED BY <2>2, GreatestNumber
<1>2. i \in 1 .. n
  OBVIOUS
<1>3. \A j \in i + 1 .. n + 1 : j \in S
  BY <1>1, <1>2
<1> QED BY <1>2, <1>3

-----------------------------------------------------------------------------
(* Occurrences of words in a text.                                         *)
Texts == Seq(Characters \cup {Marker})
AreWords(S) == S \subseteq Seq(Characters) \ {<<>>}

LEMMA WordIsText ==
  ASSUME NEW s \in Seq(Characters)
  PROVE  s \in Texts /\ Marker \in Characters \cup {Marker} /\ <<Marker>> \in Texts
<1>1. \A i \in 1 .. Len(s) : s[i] \in Characters \cup {Marker}
  OBVIOUS
<1>2. s \in Seq(Characters \cup {Marker})
  OBVIOUS
<1> QED BY <1>2 DEF Texts

LEMMA NoMarkerInWords ==
  Marker \notin Characters
  BY StreamConstants DEF Characters, Marker, Wide, Broken

LEMMA StartsIs ==
  ASSUME NEW T, NEW t \in Seq(T), NEW s \in Seq(T), NEW i \in Nat \ {0}
  PROVE  StartsAt(t, i, s) <=>
           /\ i + Len(s) - 1 =< Len(t)
           /\ \A j \in 1 .. Len(s) : t[i + j - 1] = s[j]
<1> DEFINE n == i + Len(s) - 1
<1>1. Len(s) \in Nat /\ Len(t) \in Nat /\ n \in Nat /\ n - i + 1 = Len(s)
  OBVIOUS
<1>2. ASSUME n =< Len(t)
      PROVE  /\ SubSeq(t, i, n) \in Seq(T) /\ Len(SubSeq(t, i, n)) = Len(s)
             /\ \A j \in 1 .. Len(s) : SubSeq(t, i, n)[j] = t[i + j - 1]
  <2>1. i =< n + 1 /\ \A m \in i .. n : m \in 1 .. Len(t)
    BY <1>1, <1>2
  <2> QED BY <1>1, <1>2, <2>1, SubSeqProperties
<1>3. ASSUME n =< Len(t), \A j \in 1 .. Len(s) : t[i + j - 1] = s[j] PROVE SubSeq(t, i, n) = s
  <2> HIDE DEF n
  <2> QED BY <1>1, <1>2, <1>3, SameSequence
<1> QED
  <2> HIDE DEF n
  <2>1. StartsAt(t, i, s) <=> n =< Len(t) /\ SubSeq(t, i, n) = s
    BY DEF StartsAt, n
  <2>2. i + Len(s) - 1 = n
    BY DEF n
  <2> QED BY <2>1, <2>2, <1>2, <1>3

LEMMA StartsLater ==
  ASSUME NEW T, NEW t \in Seq(T), NEW s \in Seq(T), NEW k \in 0 .. Len(t),
         NEW i \in 1 .. Len(t) - k + 1
  PROVE  StartsAt(Beyond(t, k), i, s) <=> StartsAt(t, k + i, s)
<1> DEFINE u == Beyond(t, k)
<1>1. Len(t) \in Nat /\ Len(s) \in Nat /\ k \in Nat /\ i \in Nat \ {0} /\ k + i \in Nat \ {0}
  OBVIOUS
<1>2. u \in Seq(T) /\ Len(u) = Len(t) - k /\ \A j \in 1 .. Len(t) - k : u[j] = t[k + j]
  BY Dropped
<1> HIDE DEF u
<1>3. StartsAt(u, i, s) <=>
        i + Len(s) - 1 =< Len(u) /\ \A j \in 1 .. Len(s) : u[i + j - 1] = s[j]
  BY <1>1, <1>2, StartsIs
<1>4. StartsAt(t, k + i, s) <=>
        k + i + Len(s) - 1 =< Len(t) /\ \A j \in 1 .. Len(s) : t[k + i + j - 1] = s[j]
  <2> DEFINE m == k + i
  <2>1. m \in Nat \ {0}
    BY <1>1
  <2> HIDE DEF m
  <2>2. StartsAt(t, m, s) <=>
          m + Len(s) - 1 =< Len(t) /\ \A j \in 1 .. Len(s) : t[m + j - 1] = s[j]
    BY ONLY <2>1, t \in Seq(T), s \in Seq(T), StartsIs
  <2> QED BY <2>2 DEF m
<1>5. i + Len(s) - 1 =< Len(u) <=> k + i + Len(s) - 1 =< Len(t)
  BY <1>1, <1>2
<1>6. ASSUME i + Len(s) - 1 =< Len(u), NEW j \in 1 .. Len(s)
      PROVE  u[i + j - 1] = t[k + i + j - 1]
  <2>1. i + j - 1 \in 1 .. Len(t) - k /\ k + (i + j - 1) = k + i + j - 1
    BY <1>1, <1>2, <1>6
  <2> QED BY <2>1, <1>2
<1>7. StartsAt(u, i, s) <=> StartsAt(t, k + i, s)
  BY <1>3, <1>4, <1>5, <1>6
<1> QED BY <1>7 DEF u

(* The longest of the words that start at a place.                         *)
LEMMA LongestIs ==
  ASSUME NEW S, AreWords(S), NEW t \in Texts, NEW i \in 1 .. Len(t)
  PROVE  /\ LongestAt(S, t, i) \in 0 .. Len(t) - i + 1
         /\ LongestAt(S, t, i) = 0 <=> \A s \in S : ~StartsAt(t, i, s)
         /\ LongestAt(S, t, i) # 0 => \E s \in S : StartsAt(t, i, s) /\ Len(s) = LongestAt(S, t, i)
         /\ \A s \in S : StartsAt(t, i, s) => Len(s) =< LongestAt(S, t, i)
<1> DEFINE hit == {s \in S : StartsAt(t, i, s)}
           lengths == {Len(s) : s \in hit}
<1>1. Len(t) \in Nat /\ i \in Nat \ {0} /\ i =< Len(t)
  BY DEF Texts
<1>2. \A s \in S : s \in Seq(Characters) /\ s \in Texts /\ Len(s) \in Nat \ {0}
  BY WordIsText DEF AreWords
<1>3. \A s \in hit : Len(s) \in 1 .. Len(t) - i + 1
  <2> SUFFICES ASSUME NEW s \in S, StartsAt(t, i, s) PROVE Len(s) \in 1 .. Len(t) - i + 1
    OBVIOUS
  <2> QED BY <1>1, <1>2 DEF StartsAt
<1>4. CASE hit = {}
  <2>1. LongestAt(S, t, i) = 0
    BY <1>4 DEF LongestAt
  <2> QED BY <2>1, <1>1, <1>4
<1>5. CASE hit # {}
  <2>1. IsFiniteSet(lengths) /\ lengths # {} /\ lengths \subseteq Nat
    <3>1. IsFiniteSet(1 .. Len(t) - i + 1)
      <4>1. 1 \in Int /\ Len(t) - i + 1 \in Int
        BY <1>1
      <4> QED BY ONLY <4>1, FS_Interval
    <3>2. lengths \subseteq 1 .. Len(t) - i + 1
      BY <1>3
    <3>3. IsFiniteSet(lengths)
      <4> HIDE DEF lengths
      <4> QED BY <3>1, <3>2, FS_Subset
    <3>4. lengths # {}
      BY <1>5
    <3>5. lengths \subseteq Nat
      <4> HIDE DEF lengths
      <4> QED BY <3>2
    <3> QED BY <3>3, <3>4, <3>5
  <2>2. PICK m \in lengths : \A n \in lengths : n =< m
    <3> HIDE DEF lengths
    <3> QED BY <2>1, GreatestNumber
  <2>3. \A s \in hit : Len(s) =< m
    BY <2>2
  <2>4. LongestAt(S, t, i) = CHOOSE n \in lengths : \A s \in hit : Len(s) =< n
    BY <1>5 DEF LongestAt
  <2>5. LongestAt(S, t, i) \in lengths /\ \A s \in hit : Len(s) =< LongestAt(S, t, i)
    <3> HIDE DEF lengths, hit
    <3> QED BY <2>3, <2>4
  <2>6. PICK s \in hit : LongestAt(S, t, i) = Len(s)
    BY <2>5
  <2>7. LongestAt(S, t, i) \in 1 .. Len(t) - i + 1
    BY <1>3, <2>6
  <2>8. s \in S /\ StartsAt(t, i, s)
    OBVIOUS
  <2>9. \A u \in S : StartsAt(t, i, u) => Len(u) =< LongestAt(S, t, i)
    BY <2>5
  <2> QED
    <3> HIDE DEF hit, lengths
    <3> QED BY <1>1, <2>6, <2>7, <2>8, <2>9
<1> QED BY <1>4, <1>5

-----------------------------------------------------------------------------
(* Replacing from the left: the function that the definition recurs by,    *)
(* and the equation it gives of a text and what is left of it.             *)
ReplacedEach(S, t, f) ==
  f = [i \in 1 .. Len(t) + 1 |->
         IF i > Len(t) THEN <<>>
         ELSE LET n == LongestAt(S, t, i)
              IN  IF n = 0 THEN <<t[i]>> \o f[i + 1] ELSE <<Marker>> \o f[i + n]]

LEMMA ReplacedExists ==
  ASSUME NEW S, AreWords(S), NEW t \in Texts
  PROVE  \E f \in [1 .. Len(t) + 1 -> Texts] : ReplacedEach(S, t, f)
<1> DEFINE m == Len(t)
           N(i) == LongestAt(S, t, i)
           next == [i \in 1 .. m |-> IF N(i) = 0 THEN i + 1 ELSE i + N(i)]
           H == [p \in (1 .. m) \X Texts |->
                   IF N(p[1]) = 0 THEN <<t[p[1]]>> \o p[2] ELSE <<Marker>> \o p[2]]
<1>1. m \in Nat
  BY DEF Texts
<1>2. \A i \in 1 .. m : N(i) \in 0 .. m - i + 1 /\ <<t[i]>> \in Texts
  <2> TAKE i \in 1 .. m
  <2>1. N(i) \in 0 .. m - i + 1
    BY LongestIs
  <2>2. t[i] \in Characters \cup {Marker}
    BY DEF Texts
  <2> QED BY <2>1, <2>2 DEF Texts
<1>3. <<>> \in Texts /\ <<Marker>> \in Texts
  BY DEF Texts
<1> HIDE DEF N
<1>4. next \in [1 .. m -> 1 .. m + 1] /\ \A i \in 1 .. m : next[i] > i
  <2> HIDE DEF m, H
  <2>1. \A i \in 1 .. m : next[i] \in 1 .. m + 1 /\ next[i] > i
    <3> TAKE i \in 1 .. m
    <3>1. next[i] = IF N(i) = 0 THEN i + 1 ELSE i + N(i)
      OBVIOUS
    <3>2. N(i) \in 0 .. m - i + 1
      BY <1>2
    <3> HIDE DEF next
    <3> QED BY <3>1, <3>2, <1>1
  <2> QED BY <2>1
<1>5. \A a, b \in Texts : a \o b \in Texts
  BY DEF Texts
<1>6. \A i \in 1 .. m : \A v \in Texts :
        /\ H[<<i, v>>] = IF N(i) = 0 THEN <<t[i]>> \o v ELSE <<Marker>> \o v
        /\ H[<<i, v>>] \in Texts
  <2> TAKE i \in 1 .. m
  <2> TAKE v \in Texts
  <2>1. H[<<i, v>>] = IF N(i) = 0 THEN <<t[i]>> \o v ELSE <<Marker>> \o v
    BY DEF H
  <2> HIDE DEF H
  <2> QED BY <2>1, <1>2, <1>3, <1>5
<1>7. PICK f \in [1 .. m + 1 -> Texts] :
        \A i \in 1 .. m + 1 : f[i] = IF i > m THEN <<>> ELSE H[<<i, f[next[i]]>>]
  <2> HIDE DEF m, next, H
  <2>1. StaysIn(Texts, m, <<>>, H)
    BY <1>3, <1>6 DEF StaysIn
  <2>2. Forward(next, m)
    BY <1>4 DEF Forward
  <2>3. \E f \in [1 .. m + 1 -> Texts] : Scans(f, m, next, <<>>, H)
    BY <1>1, <2>1, <2>2, ScanDefined
  <2> QED BY <2>3 DEF Scans
<1>8. ASSUME NEW i \in 1 .. m + 1
      PROVE  f[i] = IF i > m THEN <<>>
                    ELSE IF N(i) = 0 THEN <<t[i]>> \o f[i + 1] ELSE <<Marker>> \o f[i + N(i)]
  <2>1. CASE i > m
    BY <2>1, <1>7
  <2>2. CASE ~(i > m)
    <3>1. i \in 1 .. m /\ next[i] \in 1 .. m + 1
      BY <1>1, <1>4, <2>2
    <3>2. f[next[i]] \in Texts
      BY <3>1
    <3>3. f[i] = IF N(i) = 0 THEN <<t[i]>> \o f[next[i]] ELSE <<Marker>> \o f[next[i]]
      <4> HIDE DEF H, next
      <4> QED BY <1>6, <1>7, <2>2, <3>1, <3>2
    <3>4. next[i] = IF N(i) = 0 THEN i + 1 ELSE i + N(i)
      BY <3>1
    <3> HIDE DEF next, H
    <3> QED BY <2>2, <3>3, <3>4
  <2> QED BY <2>1, <2>2
<1>9. ReplacedEach(S, t, f)
  <2>1. f = [i \in 1 .. m + 1 |-> f[i]]
    BY <1>7
  <2>2. f = [i \in 1 .. m + 1 |->
               IF i > m THEN <<>>
               ELSE IF N(i) = 0 THEN <<t[i]>> \o f[i + 1] ELSE <<Marker>> \o f[i + N(i)]]
    <3> HIDE DEF m, next, H
    <3> QED BY <2>1, <1>8
  <2> HIDE DEF next, H
  <2> QED BY <2>2 DEF ReplacedEach, N
<1> QED
  <2> HIDE DEF H, next
  <2> QED BY <1>9

LEMMA LongestLater ==
  ASSUME NEW S, AreWords(S), NEW t \in Texts, NEW k \in 0 .. Len(t), NEW i \in 1 .. Len(t) - k
  PROVE  LongestAt(S, Beyond(t, k), i) = LongestAt(S, t, k + i)
<1>1. ASSUME NEW s \in S PROVE StartsAt(Beyond(t, k), i, s) <=> StartsAt(t, k + i, s)
  <2>1. s \in Texts /\ Len(t) \in Nat /\ i \in 1 .. Len(t) - k + 1
    BY WordIsText DEF AreWords, Texts
  <2> QED BY <2>1, StartsLater DEF Texts
<1> DEFINE A == {s \in S : StartsAt(Beyond(t, k), i, s)}
           B == {s \in S : StartsAt(t, k + i, s)}
           L(X) == IF X = {} THEN 0
                   ELSE CHOOSE x \in {Len(s) : s \in X} : \A s \in X : Len(s) =< x
<1>2. A = B
  BY <1>1
<1>3. LongestAt(S, Beyond(t, k), i) = L(A) /\ LongestAt(S, t, k + i) = L(B)
  BY DEF LongestAt
<1> HIDE DEF A, B, L
<1> QED BY <1>2, <1>3

LEMMA ReplacedLater ==
  ASSUME NEW S, AreWords(S), NEW t \in Texts, NEW k \in 0 .. Len(t),
         NEW f, ReplacedEach(S, t, f), NEW g, ReplacedEach(S, Beyond(t, k), g)
  PROVE  \A i \in 1 .. Len(t) - k + 1 : g[i] = f[k + i]
<1> DEFINE u == Beyond(t, k)
           n == Len(t) - k
           Same == {i \in 1 .. n + 1 : g[i] = f[k + i]}
<1>1. /\ Len(t) \in Nat /\ k \in Nat /\ n \in Nat
      /\ u \in Texts /\ Len(u) = n /\ \A i \in 1 .. n : u[i] = t[k + i]
  BY Dropped DEF Texts
<1> HIDE DEF u
<1>2. ASSUME NEW i \in 1 .. n PROVE LongestAt(S, u, i) = LongestAt(S, t, k + i)
  BY LongestLater DEF u
<1>3. ASSUME NEW i \in 1 .. n + 1
      PROVE  g[i] = IF i > n THEN <<>>
                    ELSE IF LongestAt(S, u, i) = 0 THEN <<u[i]>> \o g[i + 1]
                    ELSE <<Marker>> \o g[i + LongestAt(S, u, i)]
  <2>1. ReplacedEach(S, u, g)
    BY DEF u
  <2> HIDE DEF n
  <2> QED BY <1>1, <2>1 DEF ReplacedEach
<1>4. ASSUME NEW j \in 1 .. Len(t) + 1
      PROVE  f[j] = IF j > Len(t) THEN <<>>
                    ELSE IF LongestAt(S, t, j) = 0 THEN <<t[j]>> \o f[j + 1]
                    ELSE <<Marker>> \o f[j + LongestAt(S, t, j)]
  BY DEF ReplacedEach
<1>5. n + 1 \in Same
  <2>1. g[n + 1] = <<>>
    <3>1. n + 1 \in 1 .. n + 1 /\ n + 1 > n
      BY <1>1
    <3> HIDE DEF n
    <3> QED BY <3>1, <1>3
  <2>2. k + (n + 1) = Len(t) + 1 /\ Len(t) + 1 \in 1 .. Len(t) + 1 /\ Len(t) + 1 > Len(t)
    BY <1>1
  <2>3. f[Len(t) + 1] = <<>>
    BY <2>2, <1>4
  <2>4. n + 1 \in 1 .. n + 1
    BY <1>1
  <2> QED BY <2>1, <2>2, <2>3, <2>4
<1>6. ASSUME NEW i \in 1 .. n, \A j \in i + 1 .. n + 1 : j \in Same PROVE i \in Same
  <2> DEFINE j == k + i
             L == LongestAt(S, t, j)
  <2>1. j \in 1 .. Len(t) /\ j \in 1 .. Len(t) + 1 /\ i \in 1 .. n + 1 /\ ~(i > n) /\ ~(j > Len(t))
    BY <1>1
  <2>2. L \in 0 .. Len(t) - j + 1
    <3> HIDE DEF j
    <3> QED BY <2>1, LongestIs
  <2>3. LongestAt(S, u, i) = L
    BY <1>2
  <2> HIDE DEF L
  <2>4. CASE L = 0
    <3>1. g[i] = <<u[i]>> \o g[i + 1]
      BY <1>3, <2>1, <2>3, <2>4
    <3>2. f[j] = <<t[j]>> \o f[j + 1]
      <4> HIDE DEF j
      <4> QED BY <1>4, <2>1, <2>4 DEF L
    <3>3. u[i] = t[j]
      BY <1>1
    <3>4. g[i + 1] = f[j + 1]
      <4>1. i + 1 \in i + 1 .. n + 1
        BY <1>1
      <4>2. g[i + 1] = f[k + (i + 1)]
        BY <4>1, <1>6
      <4> QED BY <4>2, <1>1
    <3> QED BY <3>1, <3>2, <3>3, <3>4, <2>1
  <2>5. CASE L # 0
    <3>1. g[i] = <<Marker>> \o g[i + L]
      BY <1>3, <2>1, <2>3, <2>5
    <3>2. f[j] = <<Marker>> \o f[j + L]
      <4> HIDE DEF j
      <4> QED BY <1>4, <2>1, <2>5 DEF L
    <3>4. g[i + L] = f[j + L]
      <4>1. i + L \in i + 1 .. n + 1
        BY <1>1, <2>2, <2>5
      <4>2. g[i + L] = f[k + (i + L)]
        BY <4>1, <1>6
      <4> QED BY <4>2, <1>1, <2>2
    <3> QED BY <3>1, <3>2, <3>4, <2>1
  <2> QED BY <2>4, <2>5
<1>7. \A i \in 1 .. n + 1 : i \in Same
  <2> HIDE DEF Same, n
  <2> QED BY <1>1, <1>5, <1>6, Backwards
<1> QED BY <1>7

LEMMA ReplacedIs ==
  ASSUME NEW S, AreWords(S), NEW t \in Texts
  PROVE  /\ Replaced(S, t) \in Texts
         /\ t = <<>> => Replaced(S, t) = <<>>
         /\ t # <<>> =>
              /\ LongestAt(S, t, 1) = 0 => Replaced(S, t) = <<t[1]>> \o Replaced(S, Beyond(t, 1))
              /\ LongestAt(S, t, 1) # 0 =>
                   Replaced(S, t) = <<Marker>> \o Replaced(S, Beyond(t, LongestAt(S, t, 1)))
<1> DEFINE F(x) == CHOOSE f : ReplacedEach(S, x, f)
<1>1. \A x : Replaced(S, x) = F(x)[1]
  BY DEF Replaced, ReplacedEach
<1>2. ASSUME NEW x \in Texts PROVE ReplacedEach(S, x, F(x))
  <2>1. \E f : ReplacedEach(S, x, f)
    BY ReplacedExists
  <2> QED BY <2>1
<1> HIDE DEF F
<1>3. ASSUME NEW k \in 0 .. Len(t) PROVE Replaced(S, Beyond(t, k)) = F(t)[k + 1]
  <2>1. Beyond(t, k) \in Texts /\ Len(t) \in Nat
    BY Dropped DEF Texts
  <2>2. ReplacedEach(S, t, F(t)) /\ ReplacedEach(S, Beyond(t, k), F(Beyond(t, k)))
    BY <2>1, <1>2
  <2>3. F(Beyond(t, k))[1] = F(t)[k + 1]
    <3>1. 1 \in 1 .. Len(t) - k + 1
      BY <2>1
    <3> QED BY <2>2, <3>1, ReplacedLater
  <2> QED BY <2>3, <1>1
<1>4. PICK f \in [1 .. Len(t) + 1 -> Texts] : ReplacedEach(S, t, f)
  BY ReplacedExists
<1>5. Len(t) \in Nat /\ Beyond(t, 0) = t
  BY DropNothing DEF Texts
<1>6. F(t)[1] = f[1]
  <2>1. ReplacedEach(S, Beyond(t, 0), F(t)) /\ 0 \in 0 .. Len(t) /\ 1 \in 1 .. Len(t) - 0 + 1
    BY <1>2, <1>5
  <2>2. F(t)[1] = f[0 + 1]
    BY <2>1, <1>4, ReplacedLater
  <2> QED BY <2>2
<1>7. Replaced(S, t) \in Texts
  <2>1. 1 \in 1 .. Len(t) + 1
    BY <1>5
  <2> QED BY <1>1, <1>4, <1>6, <2>1
<1>8. F(t)[1] = IF 1 > Len(t) THEN <<>>
                ELSE IF LongestAt(S, t, 1) = 0 THEN <<t[1]>> \o F(t)[1 + 1]
                ELSE <<Marker>> \o F(t)[1 + LongestAt(S, t, 1)]
  <2>1. 1 \in 1 .. Len(t) + 1 /\ ReplacedEach(S, t, F(t))
    BY <1>2, <1>5
  <2> QED BY <2>1 DEF ReplacedEach
<1>9. t = <<>> => Replaced(S, t) = <<>>
  BY <1>1, <1>8
<1>10. ASSUME t # <<>>
       PROVE  /\ LongestAt(S, t, 1) = 0 => Replaced(S, t) = <<t[1]>> \o Replaced(S, Beyond(t, 1))
              /\ LongestAt(S, t, 1) # 0 =>
                   Replaced(S, t) = <<Marker>> \o Replaced(S, Beyond(t, LongestAt(S, t, 1)))
  <2>1. 1 \in 0 .. Len(t) /\ 1 \in 1 .. Len(t) /\ ~(1 > Len(t))
    BY <1>5, <1>10 DEF Texts
  <2>2. LongestAt(S, t, 1) \in 0 .. Len(t)
    <3>1. LongestAt(S, t, 1) \in 0 .. Len(t) - 1 + 1
      BY <2>1, LongestIs
    <3> QED BY <3>1, <1>5
  <2>3. Replaced(S, Beyond(t, 1)) = F(t)[1 + 1]
    BY <2>1, <1>3
  <2>4. Replaced(S, Beyond(t, LongestAt(S, t, 1))) = F(t)[1 + LongestAt(S, t, 1)]
    <3>1. Replaced(S, Beyond(t, LongestAt(S, t, 1))) = F(t)[LongestAt(S, t, 1) + 1]
      BY <2>2, <1>3
    <3> QED BY <3>1, <2>2
  <2> QED BY <2>1, <2>3, <2>4, <1>1, <1>8
<1> QED BY <1>7, <1>9, <1>10

LEMMA LengthOfText ==
  ASSUME NEW t \in Texts PROVE Len(t) \in Nat
  BY DEF Texts

LEMMA ReplacedIsText ==
  ASSUME NEW S, AreWords(S), NEW t \in Texts
  PROVE  Replaced(S, t) \in Texts /\ Len(Replaced(S, t)) \in Nat /\ Len(t) \in Nat
  BY ReplacedIs, LengthOfText

LEMMA ReplacedStep ==
  ASSUME NEW S, AreWords(S), NEW t \in Texts, t # <<>>
  PROVE  /\ Replaced(S, t) \in Texts /\ Len(Replaced(S, t)) \in Nat \ {0}
         /\ LongestAt(S, t, 1) \in 0 .. Len(t)
         /\ LongestAt(S, t, 1) = 0 =>
              Replaced(S, t)[1] = t[1] /\ Beyond(Replaced(S, t), 1) = Replaced(S, Beyond(t, 1))
         /\ LongestAt(S, t, 1) # 0 =>
              /\ Replaced(S, t)[1] = Marker
              /\ Beyond(Replaced(S, t), 1) = Replaced(S, Beyond(t, LongestAt(S, t, 1)))
<1> DEFINE r == Replaced(S, t)
           n == LongestAt(S, t, 1)
<1>1. Len(t) \in Nat \ {0} /\ 1 \in 1 .. Len(t) /\ t[1] \in Characters \cup {Marker}
  BY DEF Texts
<1>2. n \in 0 .. Len(t)
  <2>1. n \in 0 .. Len(t) - 1 + 1
    BY <1>1, LongestIs
  <2> QED BY <2>1, <1>1
<1>3. ASSUME NEW c \in Characters \cup {Marker}, NEW x \in Texts, r = <<c>> \o x
      PROVE  r \in Texts /\ Len(r) \in Nat \ {0} /\ r[1] = c /\ Beyond(r, 1) = x
  <2>1. <<c>> \in Texts /\ Len(<<c>>) = 1 /\ <<c>>[1] = c /\ Len(x) \in Nat
    BY DEF Texts
  <2>2. <<c>> \o x \in Texts /\ Len(<<c>> \o x) = 1 + Len(x) /\ (<<c>> \o x)[1] = c
    <3>1. 1 \in 1 .. 1
      OBVIOUS
    <3> QED BY <2>1, <3>1, Concatenated DEF Texts
  <2>3. Beyond(<<c>> \o x, 1) = Beyond(<<c>>, 1) \o x
    <3>1. 1 \in 0 .. Len(<<c>>)
      BY <2>1
    <3> QED BY <2>1, <3>1, DropJoined DEF Texts
  <2>4. Beyond(<<c>>, 1) = <<>>
    BY <2>1, DropNothing DEF Texts
  <2>5. <<>> \o x = x
    BY DEF Texts
  <2> DEFINE y == <<c>> \o x
  <2>6. y \in Texts /\ Len(y) = 1 + Len(x) /\ y[1] = c /\ Beyond(y, 1) = x
    BY <2>2, <2>3, <2>4, <2>5
  <2>7. r = y
    BY <1>3
  <2> HIDE DEF r, y
  <2> QED BY <2>1, <2>6, <2>7
<1>4. CASE n = 0
  <2>1. Beyond(t, 1) \in Texts
    BY <1>1, Dropped DEF Texts
  <2>2. Replaced(S, Beyond(t, 1)) \in Texts
    BY <2>1, ReplacedIs
  <2>3. r = <<t[1]>> \o Replaced(S, Beyond(t, 1))
    BY <1>4, ReplacedIs
  <2> HIDE DEF r, n
  <2>4. r \in Texts /\ Len(r) \in Nat \ {0} /\ r[1] = t[1] /\ Beyond(r, 1) = Replaced(S, Beyond(t, 1))
    BY <1>1, <1>3, <2>2, <2>3
  <2> QED BY <1>2, <1>4, <2>4 DEF r, n
<1>5. CASE n # 0
  <2>1. Beyond(t, n) \in Texts
    BY <1>2, Dropped DEF Texts
  <2>2. Replaced(S, Beyond(t, n)) \in Texts
    BY <2>1, ReplacedIs
  <2>3. r = <<Marker>> \o Replaced(S, Beyond(t, n))
    BY <1>5, ReplacedIs
  <2> HIDE DEF r, n
  <2>4. r \in Texts /\ Len(r) \in Nat \ {0} /\ r[1] = Marker /\ Beyond(r, 1) = Replaced(S, Beyond(t, n))
    BY <1>3, <2>2, <2>3
  <2> QED BY <1>2, <1>5, <2>4 DEF r, n
<1> QED BY <1>4, <1>5

LEMMA ReplacedEmpty ==
  ASSUME NEW S, AreWords(S), NEW t \in Texts
  PROVE  Replaced(S, t) = <<>> <=> t = <<>>
<1>1. ASSUME t # <<>> PROVE Replaced(S, t) # <<>>
  <2>1. Len(Replaced(S, t)) \in Nat \ {0}
    BY <1>1, ReplacedStep
  <2> QED BY <2>1
<1> QED BY <1>1, ReplacedIs

(* What comes before the first marker is the text that was there.          *)
LEMMA StretchStands ==
  ASSUME NEW S, AreWords(S), NEW t \in Texts, NEW k \in 0 .. Len(Replaced(S, t)),
         \A j \in 1 .. k : Replaced(S, t)[j] # Marker
  PROVE  /\ k =< Len(t)
         /\ \A j \in 1 .. k : t[j] = Replaced(S, t)[j] /\ LongestAt(S, t, j) = 0
         /\ Beyond(Replaced(S, t), k) = Replaced(S, Beyond(t, k))
<1> DEFINE r == Replaced(S, t)
           Holds(n) == /\ n =< Len(t)
                       /\ \A j \in 1 .. n : t[j] = r[j] /\ LongestAt(S, t, j) = 0
                       /\ Beyond(r, n) = Replaced(S, Beyond(t, n))
           N == {n \in Nat : n =< k => Holds(n)}
<1>1. r \in Texts /\ Len(r) \in Nat /\ Len(t) \in Nat /\ k \in Nat /\ k =< Len(r)
  BY ReplacedIsText
<1>2. 0 \in N
  <2>1. Beyond(r, 0) = r /\ Beyond(t, 0) = t
    BY <1>1, DropNothing DEF Texts
  <2>2. Holds(0)
    <3> HIDE DEF r
    <3> QED BY <1>1, <2>1 DEF r
  <2> HIDE DEF Holds
  <2> QED BY <2>2
<1>3. ASSUME NEW n \in Nat, n \in N PROVE n + 1 \in N
  <2>1. SUFFICES ASSUME n + 1 =< k PROVE Holds(n + 1)
    OBVIOUS
  <2> DEFINE u == Beyond(t, n)
             v == Replaced(S, u)
  <2>2. Holds(n)
    BY <1>1, <1>3, <2>1
  <2>3. n \in 0 .. Len(t) /\ n \in 0 .. Len(r) /\ 1 \in 0 .. Len(r) - n
    BY <1>1, <2>1, <2>2
  <2>4. /\ u \in Texts /\ Len(u) = Len(t) - n /\ \A i \in 1 .. Len(t) - n : u[i] = t[n + i]
    BY <2>3, Dropped DEF Texts
  <2>5. /\ Len(v) = Len(r) - n /\ \A i \in 1 .. Len(r) - n : v[i] = r[n + i]
    <3>1. v = Beyond(r, n)
      BY <2>2
    <3> HIDE DEF r, u, v
    <3> QED BY <1>1, <2>3, <3>1, Dropped DEF Texts
  <2>6. v[1] = r[n + 1] /\ v[1] # Marker
    <3>1. 1 \in 1 .. Len(r) - n /\ n + 1 \in 1 .. k
      BY <1>1, <2>1
    <3> QED BY <2>5, <3>1
  <2>7. u # <<>>
    <3>1. SUFFICES ASSUME u = <<>> PROVE FALSE
      OBVIOUS
    <3>2. Replaced(S, u) = <<>>
      BY <3>1, <2>4, ReplacedIs
    <3>3. Len(v) = 0
      BY <3>2
    <3> HIDE DEF r, u, v
    <3> QED BY <3>3, <2>5, <1>1, <2>1
  <2>8. Len(u) \in Nat \ {0} /\ n + 1 \in 0 .. Len(t) /\ 1 \in 0 .. Len(t) - n /\ 1 \in 1 .. Len(t) - n
    <3>1. Len(u) # 0
      BY <2>7, <2>4 DEF Texts
    <3> QED BY <3>1, <2>4, <2>3, <1>1
  <2>9. LongestAt(S, u, 1) = 0 /\ v[1] = u[1] /\ Beyond(v, 1) = Replaced(S, Beyond(u, 1))
    <3> HIDE DEF u
    <3> QED BY <2>4, <2>6, <2>7, ReplacedStep
  <2>10. LongestAt(S, t, n + 1) = 0
    BY <2>3, <2>8, <2>9, LongestLater
  <2>11. t[n + 1] = r[n + 1]
    BY <2>4, <2>6, <2>8, <2>9
  <2>12. Beyond(r, n + 1) = Replaced(S, Beyond(t, n + 1))
    <3>1. Beyond(r, n + 1) = Beyond(Beyond(r, n), 1)
      BY <1>1, <2>3, DropTwice DEF Texts
    <3>2. Beyond(t, n + 1) = Beyond(Beyond(t, n), 1)
      BY <2>3, <2>8, DropTwice DEF Texts
    <3>3. Beyond(r, n) = v
      BY <2>2
    <3> QED BY <3>1, <3>2, <3>3, <2>9
  <2>13. \A j \in 1 .. n + 1 : t[j] = r[j] /\ LongestAt(S, t, j) = 0
    <3> TAKE j \in 1 .. n + 1
    <3>1. CASE j = n + 1
      BY <3>1, <2>10, <2>11
    <3>2. CASE j # n + 1
      <4>1. j \in 1 .. n
        BY <3>2
      <4> QED BY <4>1, <2>2
    <3> QED BY <3>1, <3>2
  <2>14. n + 1 =< Len(t)
    BY <2>8
  <2> HIDE DEF r
  <2> QED BY <2>12, <2>13, <2>14
<1>4. Nat \subseteq N
  <2> HIDE DEF N
  <2> QED BY <1>2, <1>3, SetInduction
<1>5. Holds(k)
  <2> HIDE DEF Holds
  <2> QED BY <1>1, <1>4
<1> QED BY <1>1, <1>5

(* What is left of the outcome is the outcome of what is left.             *)
LEMMA RestOfReplaced ==
  ASSUME NEW S, AreWords(S), NEW t \in Texts, NEW p \in 0 .. Len(Replaced(S, t))
  PROVE  \E q \in 0 .. Len(t) : Beyond(Replaced(S, t), p) = Replaced(S, Beyond(t, q))
<1> DEFINE r == Replaced(S, t)
           N == {n \in Nat : n =< Len(r) => \E q \in 0 .. Len(t) : Beyond(r, n) = Replaced(S, Beyond(t, q))}
<1>1. r \in Texts /\ Len(r) \in Nat /\ Len(t) \in Nat /\ p \in Nat /\ p =< Len(r)
  BY ReplacedIsText
<1>2. 0 \in N
  <2>1. Beyond(r, 0) = r /\ Beyond(t, 0) = t /\ 0 \in 0 .. Len(t)
    BY <1>1, DropNothing DEF Texts
  <2> HIDE DEF r
  <2> QED BY <2>1 DEF r
<1>3. ASSUME NEW n \in Nat, n \in N PROVE n + 1 \in N
  <2>1. SUFFICES ASSUME n + 1 =< Len(r) PROVE \E q \in 0 .. Len(t) : Beyond(r, n + 1) = Replaced(S, Beyond(t, q))
    OBVIOUS
  <2>2. PICK q \in 0 .. Len(t) : Beyond(r, n) = Replaced(S, Beyond(t, q))
    <3> HIDE DEF r
    <3> QED BY <1>1, <1>3, <2>1
  <2> DEFINE u == Beyond(t, q)
  <2>3. u \in Texts /\ Len(u) = Len(t) - q
    BY Dropped DEF Texts
  <2>4. n \in 0 .. Len(r) /\ 1 \in 0 .. Len(r) - n
    BY <1>1, <2>1
  <2>5. Beyond(r, n) \in Texts /\ Len(Beyond(r, n)) = Len(r) - n
    <3> HIDE DEF r
    <3> QED BY <1>1, <2>4, Dropped DEF Texts
  <2>6. u # <<>>
    <3>1. SUFFICES ASSUME u = <<>> PROVE FALSE
      OBVIOUS
    <3>2. Replaced(S, u) = <<>>
      BY <3>1, <2>3, ReplacedIs
    <3>3. Len(Beyond(r, n)) = 0
      BY <3>2, <2>2
    <3> HIDE DEF r, u
    <3> QED BY <3>3, <2>5, <1>1, <2>1
  <2>7. Beyond(r, n + 1) = Beyond(Beyond(r, n), 1)
    <3> HIDE DEF r
    <3> QED BY <1>1, <2>4, DropTwice DEF Texts
  <2> DEFINE L == LongestAt(S, u, 1)
             m == IF L = 0 THEN 1 ELSE L
  <2>8. m \in 0 .. Len(u) /\ Beyond(Replaced(S, u), 1) = Replaced(S, Beyond(u, m))
    <3> HIDE DEF u
    <3>1. Len(u) \in Nat \ {0}
      BY <2>3, <2>6 DEF Texts
    <3>2. L \in 0 .. Len(u) /\ (L = 0 => Beyond(Replaced(S, u), 1) = Replaced(S, Beyond(u, 1)))
          /\ (L # 0 => Beyond(Replaced(S, u), 1) = Replaced(S, Beyond(u, L)))
      BY <2>3, <2>6, ReplacedStep
    <3> HIDE DEF L
    <3> QED BY <3>1, <3>2
  <2> HIDE DEF m
  <2>9. Beyond(u, m) = Beyond(t, q + m) /\ q + m \in 0 .. Len(t)
    <3>1. m \in 0 .. Len(t) - q /\ q + m \in 0 .. Len(t)
      BY <1>1, <2>3, <2>8
    <3> QED BY <3>1, DropTwice DEF Texts
  <2> HIDE DEF r, L
  <2> QED BY <2>2, <2>7, <2>8, <2>9
<1>4. Nat \subseteq N
  <2> HIDE DEF N
  <2> QED BY <1>2, <1>3, SetInduction
<1> QED
  <2> HIDE DEF r
  <2> QED BY <1>1, <1>4 DEF r

(* Replacing makes no occurrence of a word that was not there, and leaves  *)
(* none of what it replaces.                                               *)
LEMMA NothingNew ==
  ASSUME NEW S, AreWords(S), NEW t \in Texts, NEW w \in Seq(Characters), w # <<>>,
         NEW p \in 1 .. Len(Replaced(S, t)), StartsAt(Replaced(S, t), p, w)
  PROVE  w \notin S /\ \E q \in 1 .. Len(t) : StartsAt(t, q, w)
<1> DEFINE r == Replaced(S, t)
<1>1. r \in Texts /\ Len(r) \in Nat /\ Len(t) \in Nat /\ w \in Texts /\ Len(w) \in Nat \ {0}
      /\ p - 1 \in 0 .. Len(r) /\ p = (p - 1) + 1
  <2>1. r \in Texts /\ Len(r) \in Nat /\ Len(t) \in Nat
    BY ReplacedIsText
  <2>2. w \in Texts /\ Len(w) \in Nat \ {0}
    BY WordIsText
  <2> HIDE DEF r
  <2> QED BY <2>1, <2>2 DEF r
<1>2. PICK q \in 0 .. Len(t) : Beyond(r, p - 1) = Replaced(S, Beyond(t, q))
  BY <1>1, RestOfReplaced
<1> DEFINE u == Beyond(t, q)
           v == Replaced(S, u)
<1>3. u \in Texts /\ Len(u) = Len(t) - q
  BY Dropped DEF Texts
<1>4. v \in Texts /\ Len(v) \in Nat
  BY <1>3, ReplacedIsText
<1>5. StartsAt(v, 1, w)
  <2>1. 1 \in 1 .. Len(r) - (p - 1) + 1
    BY <1>1
  <2>2. StartsAt(Beyond(r, p - 1), 1, w) <=> StartsAt(r, (p - 1) + 1, w)
    <3> HIDE DEF r
    <3> QED BY ONLY <1>1, <2>1, StartsLater DEF Texts
  <2> HIDE DEF r
  <2> QED BY <2>2, <1>1, <1>2 DEF r
<1>6. Len(w) =< Len(v) /\ \A j \in 1 .. Len(w) : v[j] = w[j]
  <2> HIDE DEF v
  <2>1. /\ 1 + Len(w) - 1 =< Len(v)
        /\ \A j \in 1 .. Len(w) : v[1 + j - 1] = w[j]
    BY <1>1, <1>4, <1>5, StartsIs DEF Texts
  <2>2. \A j \in 1 .. Len(w) : 1 + j - 1 = j
    BY <1>1
  <2> QED BY <2>1, <2>2, <1>1, <1>4
<1>7. \A j \in 1 .. Len(w) : v[j] # Marker
  BY <1>6, NoMarkerInWords
<1>8. Len(w) =< Len(u) /\ \A j \in 1 .. Len(w) : u[j] = w[j] /\ LongestAt(S, u, j) = 0
  <2>1. Len(w) \in 0 .. Len(v)
    BY <1>1, <1>6, <1>4
  <2>2. /\ Len(w) =< Len(u)
        /\ \A j \in 1 .. Len(w) : u[j] = v[j] /\ LongestAt(S, u, j) = 0
    <3> HIDE DEF u
    <3> QED BY <1>3, <1>7, <2>1, StretchStands
  <2> QED BY <2>2, <1>6
<1>9. StartsAt(u, 1, w)
  <2>1. \A j \in 1 .. Len(w) : 1 + j - 1 = j
    BY <1>1
  <2>2. 1 + Len(w) - 1 =< Len(u) /\ \A j \in 1 .. Len(w) : u[1 + j - 1] = w[j]
    BY <2>1, <1>1, <1>3, <1>8
  <2> HIDE DEF r, u, v
  <2>3. u \in Texts /\ w \in Texts /\ 1 \in Nat \ {0}
    BY <1>1, <1>3
  <2> QED BY ONLY <2>2, <2>3, StartsIs DEF Texts
<1>10. LongestAt(S, u, 1) = 0 /\ 1 \in 1 .. Len(u)
  BY <1>1, <1>3, <1>8
<1>11. w \notin S
  <2> HIDE DEF u
  <2> QED BY <1>3, <1>9, <1>10, LongestIs
<1>12. StartsAt(t, q + 1, w) /\ q + 1 \in 1 .. Len(t)
  <2>1. 1 \in 1 .. Len(t) - q + 1 /\ q + 1 \in 1 .. Len(t)
    BY <1>1, <1>3, <1>10
  <2> QED BY <1>1, <1>9, <2>1, StartsLater DEF Texts
<1> QED BY <1>11, <1>12

-----------------------------------------------------------------------------
(* The whole text at once.                                                 *)
LEMMA SizeIsNumber ==
  ASSUME NEW T, NEW t \in Seq(T) PROVE SizeOf(t) \in Nat
<1> DEFINE W == {i \in DOMAIN t : t[i] \in {Wide, Broken}}
<1>1. DOMAIN t = 1 .. Len(t) /\ Len(t) \in Nat
  OBVIOUS
<1>2. IsFiniteSet(1 .. Len(t))
  <2>1. 1 \in Int /\ Len(t) \in Int
    BY <1>1
  <2> QED BY ONLY <2>1, FS_Interval
<1>3. IsFiniteSet(W)
  BY <1>1, <1>2, FS_Subset
<1>4. Cardinality(W) \in Nat
  <2> HIDE DEF W
  <2> QED BY <1>3, FS_CardinalityType
<1> QED BY <1>1, <1>4 DEF SizeOf

LEMMA LongestFirstIs ==
  ASSUME IsFiniteSet(secrets), AreWords(secrets)
  PROVE  /\ LongestFirst \in Seq(secrets)
         /\ \A s \in secrets : \E i \in 1 .. Len(LongestFirst) : LongestFirst[i] = s
         /\ \A i, j \in 1 .. Len(LongestFirst) : i # j => LongestFirst[i] # LongestFirst[j]
<1> DEFINE n == Cardinality(secrets)
<1>1. PICK g : g \in Bijection(1 .. n, secrets) /\ n \in Nat
  BY FS_CardinalityType DEF ExistsBijection
<1>2. \A s \in secrets : SizeOf(s) \in Nat
  BY SizeIsNumber DEF AreWords
<1>3. PICK num \in [secrets -> 1 .. n] : \A a, b \in secrets : num[a] = num[b] => a = b
  <2> DEFINE num == [s \in secrets |-> CHOOSE i \in 1 .. n : g[i] = s]
  <2>1. \A s \in secrets : num[s] \in 1 .. n /\ g[num[s]] = s
    <3> TAKE s \in secrets
    <3>1. \E i \in 1 .. n : g[i] = s
      BY <1>1 DEF Bijection, Surjection
    <3>2. num[s] = CHOOSE i \in 1 .. n : g[i] = s
      OBVIOUS
    <3> HIDE DEF num
    <3> QED BY <3>1, <3>2
  <2>2. num \in [secrets -> 1 .. n]
    BY <2>1
  <2> HIDE DEF num
  <2> QED BY <2>1, <2>2
<1> DEFINE Ahead(a, b) == SizeOf(a) > SizeOf(b) \/ (SizeOf(a) = SizeOf(b) /\ num[a] < num[b])
           R == {p \in secrets \X secrets : Ahead(p[1], p[2])}
<1>4. \A a, b \in secrets : <<a, b>> \in R <=> Ahead(a, b)
  OBVIOUS
<1>5. StrictOrder(R, secrets)
  <2>1. \A a \in secrets : num[a] \in Nat
    BY <1>3
  <2>2. \A a \in secrets : ~Ahead(a, a)
    BY <1>2, <2>1
  <2>3. \A a, b \in secrets : a # b => Ahead(a, b) \/ Ahead(b, a)
    BY <1>2, <1>3, <2>1
  <2>4. \A a, b, c \in secrets : Ahead(a, b) /\ Ahead(b, c) => Ahead(a, c)
    BY <1>2, <2>1
  <2> HIDE DEF R, Ahead
  <2> QED BY <1>4, <2>2, <2>3, <2>4 DEF StrictOrder
<1>6. PICK s \in [1 .. n -> secrets] : Sorted(R, s, n)
  <2> HIDE DEF R
  <2> QED BY <1>5, OrderExists
<1>7. \A i, j \in 1 .. n : i < j => <<s[i], s[j]>> \in R
  <2> HIDE DEF R
  <2> QED BY <1>1, <1>6 DEF Sorted
<1> DEFINE Falls(order) == \A i, j \in DOMAIN order : i < j => SizeOf(order[i]) >= SizeOf(order[j])
<1>8. s \in SetToSeqs(secrets) /\ Falls(s)
  <2>1. \A i, j \in 1 .. n : i # j => s[i] # s[j]
    <3> TAKE i, j \in 1 .. n
    <3>1. i # j => i < j \/ j < i
      BY <1>1
    <3>2. \A a \in secrets : <<a, a>> \notin R
      <4> HIDE DEF R
      <4> QED BY <1>5 DEF StrictOrder
    <3> HIDE DEF R
    <3> QED BY <3>1, <3>2, <1>6, <1>7
  <2>2. s \in SetToSeqs(secrets)
    BY <2>1, <1>6 DEF SetToSeqs
  <2>3. Falls(s)
    <3> SUFFICES ASSUME NEW i \in 1 .. n, NEW j \in 1 .. n, i < j PROVE SizeOf(s[i]) >= SizeOf(s[j])
      BY <1>6
    <3>1. s[i] \in secrets /\ s[j] \in secrets
      BY <1>6
    <3>2. Ahead(s[i], s[j])
      <4>1. <<s[i], s[j]>> \in R
        BY <1>7
      <4> HIDE DEF R, Ahead
      <4> QED BY <3>1, <4>1, <1>4
    <3> QED BY <3>1, <3>2, <1>2
  <2> QED BY <2>2, <2>3
<1>9. LongestFirst = CHOOSE order \in SetToSeqs(secrets) : Falls(order)
  BY DEF LongestFirst
<1>10. LongestFirst \in SetToSeqs(secrets)
  <2> HIDE DEF Falls
  <2> QED BY <1>8, <1>9
<1>11. LongestFirst \in [1 .. n -> secrets] /\ \A i, j \in 1 .. n : i # j => LongestFirst[i] # LongestFirst[j]
  BY <1>10 DEF SetToSeqs
<1> HIDE DEF n
<1>12. LongestFirst \in Seq(secrets) /\ Len(LongestFirst) = n
  BY <1>1, <1>11
<1>13. ASSUME NEW x \in secrets PROVE \E i \in 1 .. n : LongestFirst[i] = x
  <2>1. LongestFirst \in Injection(1 .. n, secrets)
    BY <1>11 DEF Injection, IsInjective
  <2>2. IsFiniteSet(1 .. n) /\ Cardinality(1 .. n) = n
    BY <1>1, FS_Interval
  <2>3. LongestFirst \in Surjection(1 .. n, secrets)
    <3>1. Cardinality(1 .. n) = Cardinality(secrets)
      BY <2>2 DEF n
    <3> QED BY <2>1, <2>2, <3>1, FS_Injection
  <2> QED BY <2>3 DEF Surjection
<1> QED BY <1>11, <1>12, <1>13

(* The redaction after each secret in turn.                                *)
RedactedEach(text, f) ==
  f = [n \in 0 .. Len(LongestFirst) |->
         IF n = 0 THEN text ELSE RedactOne(f[n - 1], LongestFirst[n])]
LEMMA RedactedIs ==
  ASSUME IsFiniteSet(secrets), AreWords(secrets), NEW t \in Texts
  PROVE  \E f \in [0 .. Len(LongestFirst) -> Texts] :
            /\ f[0] = t /\ Redacted(t) = f[Len(LongestFirst)]
            /\ \A n \in 1 .. Len(LongestFirst) : f[n] = Replaced({LongestFirst[n]}, f[n - 1])
<1> DEFINE m == Len(LongestFirst)
           D == [n \in 0 .. m |-> IF n = 0 THEN {} ELSE {n - 1}]
           H == [p \in (0 .. m) \X UNION {[D[n] -> Texts] : n \in 0 .. m} |->
                   IF p[1] = 0 THEN t ELSE Replaced({LongestFirst[p[1]]}, p[2][p[1] - 1])]
<1>1. m \in Nat /\ \A n \in 1 .. m : AreWords({LongestFirst[n]})
  <2>1. LongestFirst \in Seq(secrets)
    BY LongestFirstIs
  <2> QED BY <2>1 DEF AreWords
<1>2. DOMAIN D = 0 .. m /\ IsFiniteSet(DOMAIN D)
  <2>1. m \in Int /\ 0 \in Int
    BY <1>1
  <2>2. IsFiniteSet(0 .. m)
    BY ONLY <2>1, FS_Interval
  <2> QED BY <2>2
<1> HIDE DEF m
<1>3. \A n \in DOMAIN D : D[n] \subseteq DOMAIN D
  BY <1>1
<1>4. Rooted(D)
  <2> SUFFICES ASSUME NEW S \in SUBSET DOMAIN D, S # {} PROVE \E i \in S : D[i] \cap S = {}
    BY DEF Rooted
  <2>1. PICK i \in S : \A j \in S : i =< j
    <3>1. S \subseteq Nat
      BY <1>2
    <3> HIDE DEF D
    <3> QED BY <3>1, LeastNumber
  <2>2. i \in 0 .. m /\ D[i] \cap S = {}
    <3>1. i \in 0 .. m /\ S \subseteq 0 .. m
      BY <1>2
    <3>2. D[i] = IF i = 0 THEN {} ELSE {i - 1}
      BY <3>1
    <3> HIDE DEF D
    <3> QED BY <2>1, <3>1, <3>2, <1>1
  <2> QED BY <2>2
<1>5. \A n \in DOMAIN D : \A g \in [D[n] -> Texts] :
        /\ H[<<n, g>>] = IF n = 0 THEN t ELSE Replaced({LongestFirst[n]}, g[n - 1])
        /\ H[<<n, g>>] \in Texts
  <2> TAKE n \in DOMAIN D
  <2> TAKE g \in [D[n] -> Texts]
  <2>1. n \in 0 .. m
    OBVIOUS
  <2>2. <<n, g>> \in (0 .. m) \X UNION {[D[i] -> Texts] : i \in 0 .. m}
    <3> HIDE DEF D
    <3> QED BY <2>1
  <2>3. H[<<n, g>>] = IF n = 0 THEN t ELSE Replaced({LongestFirst[n]}, g[n - 1])
    <3> HIDE DEF D
    <3> QED BY <2>2
  <2>4. n # 0 => g[n - 1] \in Texts /\ n \in 1 .. m
    BY <2>1, <1>1
  <2>5. n # 0 => Replaced({LongestFirst[n]}, g[n - 1]) \in Texts
    <3> SUFFICES ASSUME n # 0 PROVE Replaced({LongestFirst[n]}, g[n - 1]) \in Texts
      OBVIOUS
    <3>1. AreWords({LongestFirst[n]}) /\ g[n - 1] \in Texts
      BY <2>4, <1>1
    <3> HIDE DEF D, H
    <3> QED BY <3>1, ReplacedIsText
  <2> HIDE DEF H, D
  <2> QED BY <2>3, <2>5
<1>6. PICK f \in [DOMAIN D -> Texts] : SolvesAlong(f, D, H)
  <2> HIDE DEF D, H
  <2> QED BY <1>2, <1>3, <1>4, <1>5, RecursionDefined
<1>7. ASSUME NEW n \in 0 .. m
      PROVE  f[n] = IF n = 0 THEN t ELSE Replaced({LongestFirst[n]}, f[n - 1])
  <2> DEFINE g == [y \in D[n] |-> f[y]]
  <2>1. g \in [D[n] -> Texts] /\ f[n] = H[<<n, g>>] /\ n \in DOMAIN D
    <3>1. D[n] \subseteq DOMAIN D /\ n \in DOMAIN D
      BY <1>3
    <3> QED
      <4> HIDE DEF D, H
      <4> QED BY <1>6, <3>1 DEF SolvesAlong
  <2>2. f[n] = IF n = 0 THEN t ELSE Replaced({LongestFirst[n]}, g[n - 1])
    <3> HIDE DEF H, g, D
    <3> QED BY <2>1, <1>5
  <2>3. n # 0 => g[n - 1] = f[n - 1]
    OBVIOUS
  <2> HIDE DEF g, D, H
  <2> QED BY <2>2, <2>3
<1>8. f \in [0 .. m -> Texts] /\ f = [n \in 0 .. m |-> f[n]]
  BY <1>6
<1> HIDE DEF D, H
<1>9. RedactedEach(t, f)
  <2>1. f = [n \in 0 .. m |-> IF n = 0 THEN t ELSE Replaced({LongestFirst[n]}, f[n - 1])]
    BY <1>7, <1>8
  <2> QED BY <2>1 DEF RedactedEach, RedactOne, m
<1> DEFINE F == CHOOSE g : RedactedEach(t, g)
<1>10. Redacted(t) = F[m]
  BY DEF Redacted, RedactedEach, m
<1>11. RedactedEach(t, F)
  BY <1>9
<1> HIDE DEF F
<1>12. \A n \in 0 .. m : F[n] = f[n]
  <2> DEFINE N == {n \in Nat : n =< m => F[n] = f[n]}
  <2>1. ASSUME NEW n \in 0 .. m
        PROVE  F[n] = IF n = 0 THEN t ELSE Replaced({LongestFirst[n]}, F[n - 1])
    BY <1>11 DEF RedactedEach, RedactOne, m
  <2>2. 0 \in N
    <3>1. 0 \in 0 .. m
      BY <1>1
    <3> QED BY <3>1, <2>1, <1>7
  <2>3. ASSUME NEW n \in Nat, n \in N PROVE n + 1 \in N
    <3> SUFFICES ASSUME n + 1 =< m PROVE F[n + 1] = f[n + 1]
      OBVIOUS
    <3>1. n + 1 \in 0 .. m /\ n + 1 # 0 /\ (n + 1) - 1 = n /\ F[n] = f[n]
      BY <1>1, <2>3
    <3> HIDE DEF N
    <3> QED BY <3>1, <2>1, <1>7
  <2>4. Nat \subseteq N
    <3> HIDE DEF N
    <3> QED BY <2>2, <2>3, SetInduction
  <2> QED BY <2>4
<1>13. f[0] = t /\ Redacted(t) = f[m] /\ \A n \in 1 .. m : f[n] = Replaced({LongestFirst[n]}, f[n - 1])
  <2>1. 0 \in 0 .. m /\ m \in 0 .. m /\ \A n \in 1 .. m : n \in 0 .. m /\ n # 0
    BY <1>1
  <2> QED BY <2>1, <1>7, <1>10, <1>12
<1> QED BY <1>8, <1>13 DEF m

(* No word of a set is in a text; a text from a place on is the beginning  *)
(* of a word, and not all of it.                                           *)
Clean(S, t) == \A s \in S : \A i \in 1 .. Len(t) : ~StartsAt(t, i, s)
Begins(t, p, s) ==
  Len(t) - p + 1 < Len(s) /\ \A j \in 1 .. Len(t) - p + 1 : t[p + j - 1] = s[j]

LEMMA ReplacedClean ==
  ASSUME NEW S, AreWords(S), NEW t \in Texts
  PROVE  Clean(S, Replaced(S, t))
<1> SUFFICES ASSUME NEW s \in S, NEW i \in 1 .. Len(Replaced(S, t)), StartsAt(Replaced(S, t), i, s)
             PROVE  FALSE
  BY DEF Clean
<1>1. s \in Seq(Characters) /\ s # <<>>
  BY DEF AreWords
<1> QED BY <1>1, NothingNew

LEMMA StaysClean ==
  ASSUME NEW S, AreWords(S), NEW t \in Texts, NEW Q, AreWords(Q), Clean(Q, t)
  PROVE  Clean(Q, Replaced(S, t))
<1> SUFFICES ASSUME NEW s \in Q, NEW i \in 1 .. Len(Replaced(S, t)), StartsAt(Replaced(S, t), i, s)
             PROVE  FALSE
  BY DEF Clean
<1>1. s \in Seq(Characters) /\ s # <<>>
  BY DEF AreWords
<1>2. \E q \in 1 .. Len(t) : StartsAt(t, q, s)
  BY <1>1, NothingNew
<1> QED BY <1>2 DEF Clean

LEMMA RedactedClean ==
  ASSUME IsFiniteSet(secrets), AreWords(secrets), NEW t \in Texts
  PROVE  Redacted(t) \in Texts /\ Clean(secrets, Redacted(t))
<1> DEFINE m == Len(LongestFirst)
           Done(n) == {LongestFirst[i] : i \in 1 .. n}
<1>1. PICK f \in [0 .. m -> Texts] :
        /\ f[0] = t /\ Redacted(t) = f[m]
        /\ \A n \in 1 .. m : f[n] = Replaced({LongestFirst[n]}, f[n - 1])
  BY RedactedIs
<1>2. m \in Nat /\ (\A i \in 1 .. m : LongestFirst[i] \in secrets) /\ secrets = Done(m)
  <2>1. LongestFirst \in Seq(secrets)
    BY LongestFirstIs
  <2>2. \A i \in 1 .. m : LongestFirst[i] \in secrets
    BY <2>1
  <2>3. \A s \in secrets : \E i \in 1 .. m : LongestFirst[i] = s
    BY LongestFirstIs
  <2> QED BY <2>1, <2>2, <2>3
<1> HIDE DEF m
<1> DEFINE N == {n \in Nat : n =< m => Clean(Done(n), f[n])}
<1>3. 0 \in N
  <2>1. Done(0) = {}
    OBVIOUS
  <2> HIDE DEF Done
  <2> QED BY <2>1 DEF Clean
<1>4. ASSUME NEW n \in Nat, n \in N PROVE n + 1 \in N
  <2> SUFFICES ASSUME n + 1 =< m PROVE Clean(Done(n + 1), f[n + 1])
    OBVIOUS
  <2>1. n + 1 \in 1 .. m /\ (n + 1) - 1 = n /\ n \in 0 .. m /\ n + 1 \in 0 .. m /\ n =< m
    BY <1>2
  <2> DEFINE s == LongestFirst[n + 1]
  <2>2. f[n + 1] = Replaced({s}, f[n]) /\ f[n] \in Texts /\ AreWords({s})
    <3>1. s \in secrets
      BY <2>1, <1>2
    <3>2. AreWords({s})
      BY <3>1 DEF AreWords
    <3> HIDE DEF s
    <3> QED BY <2>1, <1>1, <3>2 DEF s
  <2>3. AreWords(Done(n)) /\ Clean(Done(n), f[n])
    <3>1. \A i \in 1 .. n : LongestFirst[i] \in secrets
      BY <2>1, <1>2
    <3>2. Done(n) \subseteq secrets
      BY <3>1
    <3>3. AreWords(Done(n))
      <4> HIDE DEF Done
      <4> QED BY <3>2 DEF AreWords
    <3>4. Clean(Done(n), f[n])
      <4> HIDE DEF Done
      <4> QED BY <2>1, <1>4
    <3> QED BY <3>3, <3>4
  <2>4. Clean({s}, Replaced({s}, f[n])) /\ Clean(Done(n), Replaced({s}, f[n]))
    <3> HIDE DEF s, Done
    <3> QED BY <2>2, <2>3, ReplacedClean, StaysClean
  <2>5. Done(n + 1) \subseteq Done(n) \cup {s}
    <3> SUFFICES ASSUME NEW i \in 1 .. n + 1 PROVE LongestFirst[i] \in Done(n) \cup {s}
      OBVIOUS
    <3>1. CASE i = n + 1
      BY <3>1
    <3>2. CASE i # n + 1
      <4>1. i \in 1 .. n
        BY <3>2
      <4> QED BY <4>1
    <3> QED BY <3>1, <3>2
  <2> HIDE DEF s, Done
  <2> QED BY <2>2, <2>4, <2>5 DEF Clean
<1>5. Nat \subseteq N
  <2> HIDE DEF N
  <2> QED BY <1>3, <1>4, SetInduction
<1>6. m \in N /\ m \in 0 .. m /\ m =< m
  <2> HIDE DEF N
  <2> QED BY <1>2, <1>5
<1>7. Clean(Done(m), f[m])
  <2> HIDE DEF Done
  <2> QED BY <1>6
<1> HIDE DEF Done
<1> QED BY <1>1, <1>2, <1>6, <1>7

(* What must be held: the longest end that is the beginning of a secret.   *)
LEMMA SuffixIs ==
  ASSUME NEW T, NEW t \in Seq(T), NEW u \in Seq(T)
  PROVE  IsSuffix(u, t) <=>
           Len(u) =< Len(t) /\ \A j \in 1 .. Len(u) : t[Len(t) - Len(u) + j] = u[j]
<1> DEFINE a == Reverse(u)
           b == Reverse(t)
           n == Len(u)
           m == Len(t)
<1>1. n \in Nat /\ m \in Nat
  OBVIOUS
<1>2. /\ a \in Seq(T) /\ Len(a) = n /\ \A i \in 1 .. n : a[i] = u[n - i + 1]
  BY DEF Reverse
<1>3. /\ b \in Seq(T) /\ Len(b) = m /\ \A i \in 1 .. m : b[i] = t[m - i + 1]
  BY DEF Reverse
<1> HIDE DEF a, b, n, m
<1>4. IsSuffix(u, t) <=> n =< m /\ SubSeq(a, 1, n) = SubSeq(b, 1, n)
  BY <1>2, <1>3 DEF IsSuffix, IsPrefix, a, b
<1>5. ASSUME n =< m
      PROVE  SubSeq(a, 1, n) = SubSeq(b, 1, n) <=> \A i \in 1 .. n : a[i] = b[i]
  <2>1. /\ SubSeq(a, 1, n) \in Seq(T) /\ Len(SubSeq(a, 1, n)) = n
        /\ \A i \in 1 .. n : SubSeq(a, 1, n)[i] = a[i]
    <3>1. 1 =< n + 1 /\ (\A i \in 1 .. n : i \in 1 .. Len(a)) /\ n - 1 + 1 = n
          /\ \A i \in 1 .. n : 1 + i - 1 = i
      BY <1>1, <1>2
    <3> QED BY <1>1, <1>2, <3>1, SubSeqProperties
  <2>2. /\ SubSeq(b, 1, n) \in Seq(T) /\ Len(SubSeq(b, 1, n)) = n
        /\ \A i \in 1 .. n : SubSeq(b, 1, n)[i] = b[i]
    <3>1. 1 =< n + 1 /\ (\A i \in 1 .. n : i \in 1 .. Len(b)) /\ n - 1 + 1 = n
          /\ \A i \in 1 .. n : 1 + i - 1 = i
      BY <1>1, <1>3, <1>5
    <3> QED BY <1>1, <1>3, <3>1, SubSeqProperties
  <2>3. ASSUME \A i \in 1 .. n : a[i] = b[i] PROVE SubSeq(a, 1, n) = SubSeq(b, 1, n)
    BY <2>1, <2>2, <2>3, SameSequence
  <2>4. ASSUME SubSeq(a, 1, n) = SubSeq(b, 1, n), NEW i \in 1 .. n PROVE a[i] = b[i]
    BY <2>1, <2>2, <2>4
  <2> QED BY <2>3, <2>4
<1>6. ASSUME n =< m
      PROVE  (\A i \in 1 .. n : a[i] = b[i]) <=> \A j \in 1 .. n : t[m - n + j] = u[j]
  <2>1. ASSUME \A i \in 1 .. n : a[i] = b[i], NEW j \in 1 .. n PROVE t[m - n + j] = u[j]
    <3> DEFINE i == n - j + 1
    <3>1. i \in 1 .. n /\ i \in 1 .. m /\ n - i + 1 = j /\ m - i + 1 = m - n + j
      BY <1>1, <1>6
    <3> HIDE DEF i
    <3> QED BY <2>1, <3>1, <1>2, <1>3
  <2>2. ASSUME \A j \in 1 .. n : t[m - n + j] = u[j], NEW i \in 1 .. n PROVE a[i] = b[i]
    <3> DEFINE j == n - i + 1
    <3>1. j \in 1 .. n /\ i \in 1 .. m /\ m - n + j = m - i + 1
      BY <1>1, <1>6
    <3>2. t[m - n + j] = u[j] /\ a[i] = u[j] /\ b[i] = t[m - i + 1]
      BY <2>2, <3>1, <1>2, <1>3
    <3> QED BY <3>1, <3>2
  <2> QED BY <2>1, <2>2
<1> QED BY <1>4, <1>5, <1>6 DEF n, m

LEMMA RequiredHoldIs ==
  ASSUME AreWords(secrets), NEW t \in Texts
  PROVE  /\ RequiredHold(t) \in 0 .. Len(t)
         /\ RequiredHold(t) # 0 => \E s \in secrets : Begins(t, Len(t) - RequiredHold(t) + 1, s)
         /\ \A p \in 1 .. Len(t) - RequiredHold(t) : \A s \in secrets : ~Begins(t, p, s)
<1> DEFINE m == Len(t)
           Is(n, s) == n < Len(s) /\ IsSuffix(SubSeq(s, 1, n), t)
           ends == {n \in 1 .. m : \E s \in secrets : Is(n, s)}
<1>1. m \in Nat
  BY LengthOfText
<1>2. ASSUME NEW s \in secrets, NEW n \in 1 .. m PROVE Is(n, s) <=> Begins(t, m - n + 1, s)
  <2> DEFINE u == SubSeq(s, 1, n)
             p == m - n + 1
  <2>1. s \in Texts /\ Len(s) \in Nat /\ n \in Nat /\ p \in Nat /\ m - p + 1 = n
    <3>1. s \in Texts /\ Len(s) \in Nat
      BY WordIsText, LengthOfText DEF AreWords
    <3> QED BY <3>1, <1>1
  <2>2. ASSUME n < Len(s)
        PROVE  u \in Texts /\ Len(u) = n /\ \A j \in 1 .. n : u[j] = s[j]
    <3>1. 1 =< n + 1 /\ (\A j \in 1 .. n : j \in 1 .. Len(s)) /\ n - 1 + 1 = n
          /\ \A j \in 1 .. n : 1 + j - 1 = j
      BY <2>1, <2>2
    <3> QED BY <2>1, <3>1, SubSeqProperties DEF Texts
  <2>3. ASSUME n < Len(s) PROVE IsSuffix(u, t) <=> \A j \in 1 .. n : t[m - n + j] = s[j]
    <3>1. IsSuffix(u, t) <=> Len(u) =< m /\ \A j \in 1 .. Len(u) : t[m - Len(u) + j] = u[j]
      <4>1. u \in Texts
        BY <2>2, <2>3
      <4> HIDE DEF u
      <4> QED BY <4>1, SuffixIs DEF Texts
    <3>2. Len(u) = n /\ \A j \in 1 .. n : u[j] = s[j]
      BY <2>2, <2>3
    <3>3. n =< m
      BY <1>1
    <3> HIDE DEF u, m, p, Is, ends
    <3> QED BY <3>1, <3>2, <3>3
  <2>4. \A j \in 1 .. n : p + j - 1 = m - n + j
    BY <1>1, <2>1
  <2>5. Begins(t, p, s) <=> n < Len(s) /\ \A j \in 1 .. n : t[m - n + j] = s[j]
    BY <2>1, <2>4 DEF Begins
  <2> HIDE DEF p
  <2> QED BY <2>3, <2>5 DEF p
<1>3. ASSUME NEW n \in 1 .. m PROVE n \in ends <=> \E s \in secrets : Begins(t, m - n + 1, s)
  <2> HIDE DEF Is
  <2> QED BY <1>2
<1>4. CASE ends = {}
  <2>1. RequiredHold(t) = 0
    BY <1>4 DEF RequiredHold
  <2>2. ASSUME NEW p \in 1 .. m, NEW s \in secrets PROVE ~Begins(t, p, s)
    <3> DEFINE n == m - p + 1
    <3>1. n \in 1 .. m /\ m - n + 1 = p
      BY <1>1
    <3> HIDE DEF ends, n
    <3> QED BY <3>1, <1>3, <1>4
  <2> HIDE DEF ends
  <2> QED BY <1>1, <2>1, <2>2
<1>5. CASE ends # {}
  <2>1. IsFiniteSet(ends) /\ ends \subseteq Nat
    <3>1. IsFiniteSet(1 .. m)
      <4>1. 1 \in Int /\ m \in Int
        BY <1>1
      <4> QED BY ONLY <4>1, FS_Interval
    <3> QED BY <3>1, FS_Subset
  <2>2. \E n \in ends : \A k \in ends : k =< n
    <3> HIDE DEF ends
    <3> QED BY <1>5, <2>1, GreatestNumber
  <2>3. RequiredHold(t) = CHOOSE n \in ends : \A k \in ends : k =< n
    BY <1>5 DEF RequiredHold
  <2>4. RequiredHold(t) \in ends /\ \A k \in ends : k =< RequiredHold(t)
    <3> HIDE DEF ends
    <3> QED BY <2>2, <2>3
  <2>5. RequiredHold(t) \in 1 .. m
    BY <2>4
  <2>6. ASSUME NEW p \in 1 .. m - RequiredHold(t), NEW s \in secrets PROVE ~Begins(t, p, s)
    <3> DEFINE n == m - p + 1
    <3>1. n \in 1 .. m /\ m - n + 1 = p /\ ~(n =< RequiredHold(t))
      BY <1>1, <2>5
    <3> HIDE DEF ends, n
    <3> QED BY <3>1, <1>3, <2>4
  <2> HIDE DEF ends
  <2> QED BY <1>1, <1>3, <2>4, <2>5, <2>6
<1> QED BY <1>4, <1>5

LEMMA SplitAt ==
  ASSUME NEW T, NEW t \in Seq(T), NEW k \in 0 .. Len(t)
  PROVE  /\ SubSeq(t, 1, k) \in Seq(T) /\ Len(SubSeq(t, 1, k)) = k
         /\ \A i \in 1 .. k : SubSeq(t, 1, k)[i] = t[i]
         /\ SubSeq(t, 1, k) \o Beyond(t, k) = t
<1> DEFINE a == SubSeq(t, 1, k)
           b == Beyond(t, k)
           c == a \o b
<1>1. Len(t) \in Nat /\ k \in Nat /\ k =< Len(t)
  OBVIOUS
<1>2. a \in Seq(T) /\ Len(a) = k /\ \A i \in 1 .. k : a[i] = t[i]
  <2>1. 1 =< k + 1 /\ (\A i \in 1 .. k : i \in 1 .. Len(t)) /\ k - 1 + 1 = k
        /\ \A i \in 1 .. k : 1 + i - 1 = i
    BY <1>1
  <2> QED BY <1>1, <2>1, SubSeqProperties
<1>3. b \in Seq(T) /\ Len(b) = Len(t) - k /\ \A i \in 1 .. Len(t) - k : b[i] = t[k + i]
  BY Dropped
<1> HIDE DEF a, b
<1>4. /\ c \in Seq(T) /\ Len(c) = Len(a) + Len(b)
      /\ \A i \in 1 .. Len(a) : c[i] = a[i]
      /\ \A i \in 1 .. Len(b) : c[Len(a) + i] = b[i]
  <2>1. a \in Seq(T) /\ b \in Seq(T)
    BY <1>2, <1>3
  <2> QED BY <2>1, Concatenated
<1> HIDE DEF c
<1>5. ASSUME NEW i \in 1 .. Len(c) PROVE c[i] = t[i]
  <2>1. CASE i =< k
    BY <2>1, <1>1, <1>2, <1>4
  <2>2. CASE ~(i =< k)
    <3>1. i - k \in 1 .. Len(b) /\ i = Len(a) + (i - k) /\ i = k + (i - k) /\ i - k \in 1 .. Len(t) - k
      BY <2>2, <1>1, <1>2, <1>3, <1>4
    <3> QED BY <3>1, <1>3, <1>4
  <2> QED BY <2>1, <2>2
<1>6. c = t
  <2>1. Len(c) = Len(t)
    BY <1>1, <1>2, <1>3, <1>4
  <2> QED BY <1>4, <1>5, <2>1, SameSequence
<1> QED BY <1>2, <1>6 DEF a, b, c

(* Text that follows what was released makes no secret with it, and does   *)
(* not make the beginning of one, when what was held back was enough.      *)
Tight(S, t, n) == \A s \in S : \A p \in 1 .. n : ~Begins(t, p, s)
LEMMA Released ==
  ASSUME NEW S, AreWords(S), NEW r \in Texts, NEW w \in Texts, NEW x \in Texts,
         Clean(S, r \o w), Tight(S, r \o w, Len(r))
  PROVE  /\ Replaced(S, w \o x) \in Texts
         /\ Clean(S, r \o Replaced(S, w \o x))
         /\ Tight(S, r \o Replaced(S, w \o x), Len(r))
<1> DEFINE u == w \o x
           v == Replaced(S, u)
           a == r \o w
           b == r \o v
<1>1. /\ u \in Texts /\ Len(u) = Len(w) + Len(x)
      /\ \A i \in 1 .. Len(w) : u[i] = w[i]
      /\ Len(r) \in Nat /\ Len(w) \in Nat /\ Len(x) \in Nat
  <2>1. Len(r) \in Nat /\ Len(w) \in Nat /\ Len(x) \in Nat
    BY LengthOfText
  <2> QED BY <2>1, Concatenated DEF Texts
<1>2. v \in Texts /\ Len(v) \in Nat /\ Clean(S, v)
  <2> HIDE DEF u
  <2> QED BY <1>1, ReplacedIsText, ReplacedClean
<1> HIDE DEF u, v
<1>3. /\ a \in Texts /\ Len(a) = Len(r) + Len(w)
      /\ \A i \in 1 .. Len(r) : a[i] = r[i]
      /\ \A i \in 1 .. Len(w) : a[Len(r) + i] = w[i]
  BY Concatenated DEF Texts
<1>4. /\ b \in Texts /\ Len(b) = Len(r) + Len(v)
      /\ \A i \in 1 .. Len(r) : b[i] = r[i]
      /\ \A i \in 1 .. Len(v) : b[Len(r) + i] = v[i]
  <2>1. v \in Texts
    BY <1>2
  <2> QED BY <2>1, Concatenated DEF Texts
<1>5. Beyond(b, Len(r)) = v
  <2>1. v \in Texts /\ r \in Texts /\ Len(r) \in 0 .. Len(r)
    BY <1>1, <1>2
  <2>2. Beyond(r \o v, Len(r)) = Beyond(r, Len(r)) \o v
    BY <2>1, DropJoined DEF Texts
  <2>3. Beyond(r, Len(r)) = <<>> /\ <<>> \o v = v
    BY <2>1, DropNothing DEF Texts
  <2> QED BY <2>2, <2>3
<1> HIDE DEF a, b
(* As long as no marker comes, the new text goes on as the held one did.   *)
<1>6. ASSUME NEW k \in 0 .. Len(v), \A j \in 1 .. k : v[j] # Marker
      PROVE  /\ \A i \in 1 .. Len(r) + k : i =< Len(a) => b[i] = a[i]
             /\ k = Len(v) => Len(w) =< Len(v)
  <2>1. /\ k =< Len(u) /\ \A j \in 1 .. k : u[j] = v[j]
        /\ Beyond(v, k) = Replaced(S, Beyond(u, k))
    BY <1>1, <1>6, StretchStands DEF v
  <2>2. ASSUME NEW i \in 1 .. Len(r) + k, i =< Len(a) PROVE b[i] = a[i]
    <3>1. CASE i =< Len(r)
      BY <3>1, <1>1, <1>3, <1>4
    <3>2. CASE ~(i =< Len(r))
      <4> DEFINE j == i - Len(r)
      <4>1. j \in 1 .. k /\ j \in 1 .. Len(v) /\ j \in 1 .. Len(w) /\ i = Len(r) + j
        BY <3>2, <2>2, <1>1, <1>2, <1>3
      <4> HIDE DEF j
      <4> QED BY <4>1, <2>1, <1>1, <1>3, <1>4
    <3> QED BY <3>1, <3>2
  <2>3. ASSUME k = Len(v) PROVE Len(w) =< Len(v)
    <3>1. Beyond(v, k) = <<>>
      BY <2>3, <1>2, DropNothing DEF Texts
    <3>2. k \in 0 .. Len(u) /\ Len(u) \in Nat
      BY <1>1, <2>1
    <3>3. Beyond(u, k) \in Texts /\ Len(Beyond(u, k)) = Len(u) - k
      BY <1>1, <3>2, Dropped DEF Texts
    <3>4. Beyond(u, k) = <<>>
      BY <2>1, <3>1, <3>3, ReplacedEmpty
    <3>5. Len(u) = k
      <4>1. Len(Beyond(u, k)) = 0
        BY <3>4
      <4> QED BY <4>1, <3>2, <3>3
    <3> QED BY <3>5, <2>3, <1>1
  <2> QED BY <2>2, <2>3
<1>7. ASSUME NEW s \in S PROVE s \in Texts /\ Len(s) \in Nat \ {0} /\ \A j \in 1 .. Len(s) : s[j] # Marker
  <2>1. s \in Seq(Characters) /\ s # <<>>
    BY DEF AreWords
  <2>2. s \in Texts /\ Len(s) \in Nat \ {0}
    BY <2>1, WordIsText
  <2> QED BY <2>1, <2>2, NoMarkerInWords
<1>8. ASSUME NEW s \in S, NEW p \in 1 .. Len(b), StartsAt(b, p, s) PROVE FALSE
  <2>1. p + Len(s) - 1 =< Len(b) /\ \A j \in 1 .. Len(s) : b[p + j - 1] = s[j]
    <3>1. p \in Nat \ {0} /\ s \in Texts
      BY <1>7
    <3> QED BY ONLY <1>4, <1>8, <3>1, StartsIs DEF Texts
  <2>2. CASE p > Len(r)
    <3> DEFINE q == p - Len(r)
    <3>1. q \in 1 .. Len(v) /\ p = Len(r) + q /\ q \in 1 .. Len(b) - Len(r) + 1 /\ Len(r) \in 0 .. Len(b)
      BY <2>2, <1>1, <1>2, <1>4
    <3> HIDE DEF q
    <3>2. StartsAt(v, q, s)
      BY <3>1, <1>4, <1>5, <1>7, <1>8, StartsLater DEF Texts
    <3> QED BY <3>1, <3>2, <1>2 DEF Clean
  <2>3. CASE p =< Len(r)
    <3> DEFINE e == p + Len(s) - 1
               k == IF e =< Len(r) THEN 0 ELSE e - Len(r)
    <3>1. /\ e \in Nat /\ k \in 0 .. Len(v) /\ e =< Len(r) + k
      BY <2>1, <2>3, <1>1, <1>2, <1>4, <1>7
    <3>2. ASSUME NEW j \in 1 .. k PROVE v[j] # Marker
      <4>1. j \in 1 .. Len(v) /\ Len(r) + j - p + 1 \in 1 .. Len(s)
            /\ p + (Len(r) + j - p + 1) - 1 = Len(r) + j
        BY <2>3, <3>1, <1>1, <1>2, <1>7
      <4>2. v[j] = s[Len(r) + j - p + 1]
        BY <4>1, <2>1, <1>4
      <4> QED BY <4>1, <4>2, <1>7
    <3>3. \A i \in 1 .. Len(r) + k : i =< Len(a) => b[i] = a[i]
      <4> HIDE DEF k
      <4> QED BY <3>1, <3>2, <1>6
    <3> HIDE DEF k
    <3>4. ASSUME NEW j \in 1 .. Len(s), p + j - 1 =< Len(a) PROVE a[p + j - 1] = s[j]
      <4>1. p + j - 1 \in 1 .. Len(r) + k
        BY <3>1, <1>7
      <4> QED BY <4>1, <3>3, <3>4, <2>1
    <3>5. CASE e =< Len(a)
      <4>1. \A j \in 1 .. Len(s) : a[p + j - 1] = s[j]
        <5>1. \A j \in 1 .. Len(s) : p + j - 1 =< Len(a)
          BY <3>5, <3>1, <1>3, <1>1, <1>7
        <5> QED BY <5>1, <3>4
      <4>2. StartsAt(a, p, s) /\ p \in 1 .. Len(a)
        <5>1. p \in Nat \ {0} /\ p + Len(s) - 1 =< Len(a) /\ s \in Texts /\ p \in 1 .. Len(a)
          BY <3>5, <1>1, <1>3, <1>7, <2>3
        <5> QED BY ONLY <4>1, <5>1, <1>3, StartsIs DEF Texts
      <4> QED BY <4>2 DEF Clean, a
    <3>6. CASE ~(e =< Len(a))
      <4>1. Len(a) - p + 1 < Len(s) /\ \A j \in 1 .. Len(a) - p + 1 : j \in 1 .. Len(s) /\ p + j - 1 =< Len(a)
        BY <3>6, <1>1, <1>3, <1>7, <2>3
      <4>2. Begins(a, p, s)
        BY <4>1, <3>4 DEF Begins
      <4>3. p \in 1 .. Len(r)
        BY <2>3
      <4> QED BY <4>2, <4>3 DEF Tight, a
    <3> QED BY <3>5, <3>6
  <2> QED BY <2>2, <2>3, <1>1, <1>4
<1>9. ASSUME NEW s \in S, NEW p \in 1 .. Len(r), Begins(b, p, s) PROVE FALSE
  <2>1. Len(b) - p + 1 < Len(s) /\ \A j \in 1 .. Len(b) - p + 1 : b[p + j - 1] = s[j]
    BY <1>9 DEF Begins
  <2>2. ASSUME NEW j \in 1 .. Len(v) PROVE v[j] # Marker
    <3>1. Len(r) + j - p + 1 \in 1 .. Len(b) - p + 1 /\ Len(r) + j - p + 1 \in 1 .. Len(s)
          /\ p + (Len(r) + j - p + 1) - 1 = Len(r) + j
      BY <2>1, <1>1, <1>2, <1>4, <1>7
    <3>2. v[j] = s[Len(r) + j - p + 1]
      BY <3>1, <2>1, <1>4
    <3> QED BY <3>1, <3>2, <1>7
  <2>3. Len(w) =< Len(v) /\ \A i \in 1 .. Len(r) + Len(v) : i =< Len(a) => b[i] = a[i]
    <3>1. Len(v) \in 0 .. Len(v)
      BY <1>2
    <3> QED BY <2>2, <3>1, <1>6
  <2>4. Len(a) - p + 1 < Len(s)
    BY <2>1, <2>3, <1>1, <1>2, <1>3, <1>4, <1>7
  <2>5. ASSUME NEW j \in 1 .. Len(a) - p + 1 PROVE a[p + j - 1] = s[j]
    <3>1. j \in 1 .. Len(b) - p + 1 /\ p + j - 1 \in 1 .. Len(r) + Len(v) /\ p + j - 1 =< Len(a)
      BY <2>3, <1>1, <1>2, <1>3, <1>4
    <3> QED BY <3>1, <2>1, <2>3
  <2>6. Begins(a, p, s)
    BY <2>4, <2>5 DEF Begins
  <2> QED BY <2>6 DEF Tight, a
<1>10. Clean(S, b) /\ Tight(S, b, Len(r))
  BY <1>8, <1>9 DEF Clean, Tight
<1> QED BY <1>2, <1>10 DEF b, v, u

-----------------------------------------------------------------------------
(* Decoding: again the function, and the equation of the bytes and what    *)
(* follows the first character.                                            *)
Taken(b, i) == IF b[i] = "M" THEN Continuations(b, i) ELSE 0
CharAt(b, i) ==
  IF b[i] \in Letters THEN b[i] ELSE IF Taken(b, i) = 2 THEN Wide ELSE Broken
Decodings ==
  {d \in [text : Seq(Characters), left : Seq(Bytes)] : Len(d.left) < 3}
DecodedEach(b, f) ==
  f = [i \in 1 .. Len(b) + 1 |->
         IF i > Len(b) THEN [text |-> <<>>, left |-> <<>>]
         ELSE IF Incomplete(b, i)
         THEN [text |-> <<>>, left |-> SubSeq(b, i, Len(b))]
         ELSE [text |-> <<CharAt(b, i)>> \o f[i + Taken(b, i) + 1].text,
               left |-> f[i + Taken(b, i) + 1].left]]

LEMMA DecodeIsOf ==
  ASSUME NEW b PROVE Decode(b) = (CHOOSE f : DecodedEach(b, f))[1]
  BY DEF Decode, DecodedEach, Taken, CharAt

LEMMA ContinuationsAre ==
  ASSUME NEW b \in Seq(Bytes), NEW i \in 1 .. Len(b)
  PROVE  /\ Continuations(b, i) \in 0 .. 2 /\ i + Continuations(b, i) =< Len(b)
         /\ Continuations(b, i) = 2 <=> i + 2 =< Len(b) /\ b[i + 1] = "C" /\ b[i + 2] = "C"
         /\ Continuations(b, i) = 0 <=> ~(i + 1 =< Len(b) /\ b[i + 1] = "C")
<1>1. Len(b) \in Nat
  OBVIOUS
<1>2. CASE i + 2 =< Len(b) /\ b[i + 1] = "C" /\ b[i + 2] = "C"
  <2>1. Continuations(b, i) = 2
    BY <1>1, <1>2 DEF Continuations
  <2> QED BY <1>1, <1>2, <2>1
<1>3. CASE ~(i + 2 =< Len(b) /\ b[i + 1] = "C" /\ b[i + 2] = "C") /\ i + 1 =< Len(b) /\ b[i + 1] = "C"
  <2>1. Continuations(b, i) = 1
    BY <1>1, <1>3 DEF Continuations
  <2> QED BY <1>1, <1>3, <2>1
<1>4. CASE ~(i + 2 =< Len(b) /\ b[i + 1] = "C" /\ b[i + 2] = "C") /\ ~(i + 1 =< Len(b) /\ b[i + 1] = "C")
  <2>1. Continuations(b, i) = 0
    BY <1>1, <1>4 DEF Continuations
  <2> QED BY <1>1, <1>4, <2>1
<1> QED BY <1>2, <1>3, <1>4

LEMMA TakenIs ==
  ASSUME NEW b \in Seq(Bytes), NEW i \in 1 .. Len(b)
  PROVE  /\ Taken(b, i) \in 0 .. 2 /\ i + Taken(b, i) =< Len(b)
         /\ i + Taken(b, i) + 1 \in i + 1 .. Len(b) + 1
         /\ CharAt(b, i) \in Characters
<1>1. Len(b) \in Nat /\ b[i] \in Bytes
  OBVIOUS
<1>2. Taken(b, i) \in 0 .. 2 /\ i + Taken(b, i) =< Len(b)
  BY <1>1, ContinuationsAre DEF Taken
<1>3. CharAt(b, i) \in Characters
  BY DEF CharAt, Characters
<1> QED BY <1>1, <1>2, <1>3

LEMMA IncompleteLeft ==
  ASSUME NEW b \in Seq(Bytes), NEW i \in 1 .. Len(b), Incomplete(b, i)
  PROVE  SubSeq(b, i, Len(b)) \in Seq(Bytes) /\ Len(SubSeq(b, i, Len(b))) < 3
<1>1. Len(b) \in Nat
  OBVIOUS
<1>2. Len(b) - i < 2
  BY <1>1, ContinuationsAre DEF Incomplete
<1> QED BY <1>1, <1>2

LEMMA DecodedExists ==
  ASSUME NEW b \in Seq(Bytes)
  PROVE  \E f \in [1 .. Len(b) + 1 -> Decodings] : DecodedEach(b, f)
<1> DEFINE m == Len(b)
           none == [text |-> <<>>, left |-> <<>>]
           end(i) == [text |-> <<>>, left |-> SubSeq(b, i, Len(b))]
           then(i, v) == [text |-> <<CharAt(b, i)>> \o v.text, left |-> v.left]
           next == [i \in 1 .. m |-> i + Taken(b, i) + 1]
           H == [p \in (1 .. m) \X Decodings |-> IF Incomplete(b, p[1]) THEN end(p[1]) ELSE then(p[1], p[2])]
<1>1. m \in Nat
  OBVIOUS
<1>2. none \in Decodings
  <2>1. <<>> \in Seq(Characters) /\ <<>> \in Seq(Bytes) /\ Len(<<>>) < 3
    OBVIOUS
  <2> QED BY <2>1 DEF Decodings
<1>3. ASSUME NEW i \in 1 .. m, Incomplete(b, i) PROVE end(i) \in Decodings
  <2>1. SubSeq(b, i, Len(b)) \in Seq(Bytes) /\ Len(SubSeq(b, i, Len(b))) < 3
    BY <1>3, IncompleteLeft
  <2>2. <<>> \in Seq(Characters)
    OBVIOUS
  <2> QED BY <2>1, <2>2 DEF Decodings
<1>4. ASSUME NEW i \in 1 .. m, NEW v \in Decodings PROVE then(i, v) \in Decodings
  <2>1. CharAt(b, i) \in Characters /\ v.text \in Seq(Characters) /\ v.left \in Seq(Bytes) /\ Len(v.left) < 3
    BY TakenIs DEF Decodings
  <2>2. <<CharAt(b, i)>> \o v.text \in Seq(Characters)
    BY <2>1
  <2> QED BY <2>1, <2>2 DEF Decodings
<1>5. Forward(next, m)
  <2>1. \A i \in 1 .. m : next[i] \in 1 .. m + 1 /\ next[i] > i
    <3> TAKE i \in 1 .. m
    <3>1. next[i] = i + Taken(b, i) + 1 /\ i + Taken(b, i) + 1 \in i + 1 .. m + 1
      BY TakenIs
    <3> HIDE DEF next, m
    <3> QED BY <3>1, <1>1
  <2> HIDE DEF H
  <2> QED BY <2>1 DEF Forward
<1> HIDE DEF none, end, then
<1>6. \A i \in 1 .. m : \A v \in Decodings :
        /\ H[<<i, v>>] = IF Incomplete(b, i) THEN end(i) ELSE then(i, v)
        /\ H[<<i, v>>] \in Decodings
  <2> TAKE i \in 1 .. m
  <2> TAKE v \in Decodings
  <2>1. H[<<i, v>>] = IF Incomplete(b, i) THEN end(i) ELSE then(i, v)
    BY DEF H
  <2> HIDE DEF H
  <2> QED BY <2>1, <1>3, <1>4
<1>7. StaysIn(Decodings, m, none, H)
  <2> HIDE DEF H, m
  <2> QED BY <1>2, <1>6 DEF StaysIn
<1>8. PICK f \in [1 .. m + 1 -> Decodings] : Scans(f, m, next, none, H)
  <2> HIDE DEF H, m, next
  <2> QED BY <1>1, <1>5, <1>7, ScanDefined
<1>9. ASSUME NEW i \in 1 .. m + 1
      PROVE  f[i] = IF i > m THEN none
                    ELSE IF Incomplete(b, i) THEN end(i) ELSE then(i, f[i + Taken(b, i) + 1])
  <2>1. f[i] = IF i > m THEN none ELSE H[<<i, f[next[i]]>>]
    <3> HIDE DEF H, next
    <3> QED BY <1>8 DEF Scans
  <2>2. CASE i > m
    <3> HIDE DEF H, next
    <3> QED BY <2>1, <2>2
  <2>3. CASE ~(i > m)
    <3>1. i \in 1 .. m /\ next[i] = i + Taken(b, i) + 1
      BY <1>1, <2>3
    <3>2. f[next[i]] \in Decodings
      <4>1. next[i] \in 1 .. m + 1
        <5> HIDE DEF next
        <5> QED BY <1>5, <3>1 DEF Forward
      <4> HIDE DEF next
      <4> QED BY <4>1
    <3>3. H[<<i, f[next[i]]>>] = IF Incomplete(b, i) THEN end(i) ELSE then(i, f[next[i]])
      <4> HIDE DEF H, next
      <4> QED BY <3>1, <3>2, <1>6
    <3> HIDE DEF H, next
    <3> QED BY <2>1, <2>3, <3>1, <3>3
  <2> QED BY <2>2, <2>3
<1>10. DecodedEach(b, f)
  <2>1. f = [i \in 1 .. m + 1 |-> f[i]]
    BY <1>8
  <2>2. f = [i \in 1 .. m + 1 |->
               IF i > m THEN none
               ELSE IF Incomplete(b, i) THEN end(i) ELSE then(i, f[i + Taken(b, i) + 1])]
    <3> HIDE DEF m, next, H
    <3> QED BY <2>1, <1>9
  <2> HIDE DEF next, H
  <2> QED BY <2>2 DEF DecodedEach, none, end, then
<1> HIDE DEF H, next
<1> QED BY <1>10

LEMMA BytesLater ==
  ASSUME NEW b \in Seq(Bytes), NEW k \in 0 .. Len(b), NEW i \in 1 .. Len(b) - k
  PROVE  /\ Continuations(Beyond(b, k), i) = Continuations(b, k + i)
         /\ Taken(Beyond(b, k), i) = Taken(b, k + i)
         /\ CharAt(Beyond(b, k), i) = CharAt(b, k + i)
         /\ Incomplete(Beyond(b, k), i) <=> Incomplete(b, k + i)
         /\ SubSeq(Beyond(b, k), i, Len(Beyond(b, k))) = SubSeq(b, k + i, Len(b))
<1> DEFINE c == Beyond(b, k)
           j == k + i
<1>1. /\ c \in Seq(Bytes) /\ Len(c) = Len(b) - k /\ \A x \in 1 .. Len(b) - k : c[x] = b[k + x]
      /\ Len(b) \in Nat /\ k \in Nat /\ i \in Nat \ {0} /\ j \in 1 .. Len(b) /\ i \in 1 .. Len(c)
  <2>1. c \in Seq(Bytes) /\ Len(c) = Len(b) - k /\ \A x \in 1 .. Len(b) - k : c[x] = b[k + x]
    BY Dropped
  <2>2. Len(b) \in Nat
    OBVIOUS
  <2> HIDE DEF c
  <2>3. k \in Nat /\ i \in Nat \ {0} /\ j \in 1 .. Len(b)
    BY <2>2
  <2>4. i \in 1 .. Len(c)
    BY <2>1, <2>2, <2>3
  <2> QED BY <2>1, <2>2, <2>3, <2>4
<1>2. c[i] = b[j]
  BY <1>1
<1>3. i + 1 =< Len(c) <=> j + 1 =< Len(b)
  BY <1>1
<1>4. i + 2 =< Len(c) <=> j + 2 =< Len(b)
  BY <1>1
<1>5. i + 1 =< Len(c) => c[i + 1] = b[j + 1]
  <2> SUFFICES ASSUME i + 1 =< Len(c) PROVE c[i + 1] = b[j + 1]
    OBVIOUS
  <2> DEFINE x == i + 1
  <2>1. x \in 1 .. Len(b) - k /\ k + x = j + 1
    <3> HIDE DEF c
    <3> QED BY <1>1
  <2>2. \A y \in 1 .. Len(b) - k : c[y] = b[k + y]
    BY <1>1
  <2> HIDE DEF c, j, x
  <2>3. c[x] = b[k + x]
    BY ONLY <2>1, <2>2
  <2>4. c[x] = b[j + 1]
    BY ONLY <2>1, <2>3
  <2> QED BY <2>4 DEF x
<1>6. i + 2 =< Len(c) => c[i + 2] = b[j + 2]
  <2> SUFFICES ASSUME i + 2 =< Len(c) PROVE c[i + 2] = b[j + 2]
    OBVIOUS
  <2> DEFINE x == i + 2
  <2>1. x \in 1 .. Len(b) - k /\ k + x = j + 2
    <3> HIDE DEF c
    <3> QED BY <1>1
  <2>2. \A y \in 1 .. Len(b) - k : c[y] = b[k + y]
    BY <1>1
  <2> HIDE DEF c, j, x
  <2>3. c[x] = b[k + x]
    BY ONLY <2>1, <2>2
  <2>4. c[x] = b[j + 2]
    BY ONLY <2>1, <2>3
  <2> QED BY <2>4 DEF x
<1> HIDE DEF c, j
<1>7. Continuations(c, i) = Continuations(b, j)
  BY <1>3, <1>4, <1>5, <1>6 DEF Continuations
<1>8. Taken(c, i) = Taken(b, j) /\ CharAt(c, i) = CharAt(b, j)
  BY <1>2, <1>7 DEF Taken, CharAt
<1>9. Incomplete(c, i) <=> Incomplete(b, j)
  <2>1. Continuations(b, j) \in 0 .. 2
    BY <1>1, ContinuationsAre
  <2>2. i + Continuations(b, j) = Len(c) <=> j + Continuations(b, j) = Len(b)
    BY <1>1, <2>1 DEF j
  <2> QED BY <1>2, <1>7, <2>2 DEF Incomplete
<1>10. SubSeq(c, i, Len(c)) = SubSeq(b, j, Len(b))
  <2>1. i - 1 \in 0 .. Len(b) - k /\ k + (i - 1) = j - 1 /\ (i - 1) + 1 = i /\ (j - 1) + 1 = j
    BY <1>1 DEF j
  <2>2. Beyond(Beyond(b, k), i - 1) = Beyond(b, j - 1)
    BY <2>1, DropTwice
  <2> QED BY <2>1, <2>2 DEF Beyond, c
<1> QED BY <1>7, <1>8, <1>9, <1>10 DEF c, j

LEMMA DecodedLater ==
  ASSUME NEW b \in Seq(Bytes), NEW k \in 0 .. Len(b),
         NEW f, DecodedEach(b, f), NEW g, DecodedEach(Beyond(b, k), g)
  PROVE  \A i \in 1 .. Len(b) - k + 1 : g[i] = f[k + i]
<1> DEFINE c == Beyond(b, k)
           n == Len(b) - k
           none == [text |-> <<>>, left |-> <<>>]
           end(x, i) == [text |-> <<>>, left |-> SubSeq(x, i, Len(x))]
           then(x, i, v) == [text |-> <<CharAt(x, i)>> \o v.text, left |-> v.left]
           Same == {i \in 1 .. n + 1 : g[i] = f[k + i]}
<1>1. /\ Len(b) \in Nat /\ k \in Nat /\ n \in Nat
      /\ c \in Seq(Bytes) /\ Len(c) = n
  BY Dropped
<1> HIDE DEF c
<1>2. ASSUME NEW i \in 1 .. n + 1
      PROVE  g[i] = IF i > n THEN none
                    ELSE IF Incomplete(c, i) THEN end(c, i) ELSE then(c, i, g[i + Taken(c, i) + 1])
  <2>1. DecodedEach(c, g)
    BY DEF c
  <2> HIDE DEF n
  <2> QED BY <1>1, <2>1 DEF DecodedEach
<1>3. ASSUME NEW j \in 1 .. Len(b) + 1
      PROVE  f[j] = IF j > Len(b) THEN none
                    ELSE IF Incomplete(b, j) THEN end(b, j) ELSE then(b, j, f[j + Taken(b, j) + 1])
  BY DEF DecodedEach
<1>4. ASSUME NEW i \in 1 .. n
      PROVE  /\ Taken(c, i) = Taken(b, k + i) /\ (Incomplete(c, i) <=> Incomplete(b, k + i))
             /\ end(c, i) = end(b, k + i)
             /\ \A v : then(c, i, v) = then(b, k + i, v)
  BY BytesLater DEF c
<1> HIDE DEF none, end, then
<1>5. n + 1 \in Same
  <2>1. n + 1 \in 1 .. n + 1 /\ n + 1 > n /\ k + (n + 1) = Len(b) + 1
        /\ Len(b) + 1 \in 1 .. Len(b) + 1 /\ Len(b) + 1 > Len(b)
    BY <1>1
  <2>2. g[n + 1] = none
    <3> HIDE DEF n
    <3> QED BY <2>1, <1>2
  <2>3. f[Len(b) + 1] = none
    BY <2>1, <1>3
  <2> QED BY <2>1, <2>2, <2>3
<1>6. ASSUME NEW i \in 1 .. n, \A x \in i + 1 .. n + 1 : x \in Same PROVE i \in Same
  <2> DEFINE j == k + i
  <2>1. j \in 1 .. Len(b) /\ j \in 1 .. Len(b) + 1 /\ i \in 1 .. n + 1 /\ ~(i > n) /\ ~(j > Len(b))
        /\ i \in 1 .. Len(c)
    BY <1>1
  <2>2. Taken(c, i) = Taken(b, j) /\ (Incomplete(c, i) <=> Incomplete(b, j)) /\ end(c, i) = end(b, j)
        /\ \A v : then(c, i, v) = then(b, j, v)
    <3> HIDE DEF n
    <3> QED BY <1>4
  <2>3. Taken(b, j) \in 0 .. 2 /\ i + Taken(b, j) + 1 \in i + 1 .. n + 1
    <3>1. Taken(c, i) \in 0 .. 2 /\ i + Taken(c, i) + 1 \in i + 1 .. Len(c) + 1
      BY <1>1, <2>1, TakenIs
    <3> QED BY <3>1, <2>2, <1>1
  <2>4. g[i + Taken(b, j) + 1] = f[k + (i + Taken(b, j) + 1)]
    BY <2>3, <1>6
  <2>5. k + (i + Taken(b, j) + 1) = j + Taken(b, j) + 1
    <3> DEFINE y == Taken(b, j)
    <3>1. y \in 0 .. 2
      BY <2>3
    <3> HIDE DEF y
    <3>2. k + (i + y + 1) = k + i + y + 1
      BY <3>1, <1>1
    <3> QED BY <3>2 DEF y
  <2>6. f[j] = IF Incomplete(b, j) THEN end(b, j) ELSE then(b, j, f[j + Taken(b, j) + 1])
    <3> HIDE DEF j
    <3> QED BY <1>3, <2>1
  <2>7. g[i] = IF Incomplete(c, i) THEN end(c, i) ELSE then(c, i, g[i + Taken(c, i) + 1])
    <3> HIDE DEF n
    <3> QED BY <1>2, <2>1
  <2>8. g[i] = f[j]
    <3> HIDE DEF j
    <3> QED BY <2>2, <2>4, <2>5, <2>6, <2>7
  <2> QED BY <2>1, <2>8
<1>7. \A i \in 1 .. n + 1 : i \in Same
  <2> HIDE DEF Same, n
  <2> QED BY <1>1, <1>5, <1>6, Backwards
<1> QED BY <1>7

LEMMA DecodeIs ==
  ASSUME NEW b \in Seq(Bytes)
  PROVE  /\ Decode(b) \in Decodings
         /\ b = <<>> => Decode(b) = [text |-> <<>>, left |-> <<>>]
         /\ b # <<>> /\ Incomplete(b, 1) => Decode(b) = [text |-> <<>>, left |-> b]
         /\ b # <<>> /\ ~Incomplete(b, 1) =>
              /\ Taken(b, 1) \in 0 .. 2 /\ Taken(b, 1) + 1 =< Len(b)
              /\ Decode(b) = [text |-> <<CharAt(b, 1)>> \o Decode(Beyond(b, Taken(b, 1) + 1)).text,
                              left |-> Decode(Beyond(b, Taken(b, 1) + 1)).left]
<1> DEFINE F(x) == CHOOSE f : DecodedEach(x, f)
           none == [text |-> <<>>, left |-> <<>>]
           end == [text |-> <<>>, left |-> SubSeq(b, 1, Len(b))]
           then(v) == [text |-> <<CharAt(b, 1)>> \o v.text, left |-> v.left]
<1>1. \A x : Decode(x) = F(x)[1]
  BY DecodeIsOf
<1>2. ASSUME NEW x \in Seq(Bytes) PROVE DecodedEach(x, F(x))
  <2>1. \E f : DecodedEach(x, f)
    BY DecodedExists
  <2> QED BY <2>1
<1> HIDE DEF F
<1>3. ASSUME NEW k \in 0 .. Len(b) PROVE Decode(Beyond(b, k)) = F(b)[k + 1]
  <2>1. Beyond(b, k) \in Seq(Bytes) /\ Len(b) \in Nat
    BY Dropped
  <2>2. DecodedEach(b, F(b)) /\ DecodedEach(Beyond(b, k), F(Beyond(b, k)))
    BY <2>1, <1>2
  <2>3. F(Beyond(b, k))[1] = F(b)[k + 1]
    <3>1. 1 \in 1 .. Len(b) - k + 1
      BY <2>1
    <3> QED BY <2>2, <3>1, DecodedLater
  <2> QED BY <2>3, <1>1
<1>4. PICK f \in [1 .. Len(b) + 1 -> Decodings] : DecodedEach(b, f)
  BY DecodedExists
<1>5. Len(b) \in Nat /\ Beyond(b, 0) = b
  BY DropNothing
<1>6. F(b)[1] = f[1]
  <2>1. DecodedEach(Beyond(b, 0), F(b)) /\ 0 \in 0 .. Len(b) /\ 1 \in 1 .. Len(b) - 0 + 1
    BY <1>2, <1>5
  <2>2. F(b)[1] = f[0 + 1]
    BY <2>1, <1>4, DecodedLater
  <2> QED BY <2>2
<1>7. Decode(b) \in Decodings
  <2>1. 1 \in 1 .. Len(b) + 1
    BY <1>5
  <2> QED BY <1>1, <1>4, <1>6, <2>1
<1>8. F(b)[1] = IF 1 > Len(b) THEN none
                ELSE IF Incomplete(b, 1) THEN end ELSE then(F(b)[1 + Taken(b, 1) + 1])
  <2>1. 1 \in 1 .. Len(b) + 1 /\ DecodedEach(b, F(b))
    BY <1>2, <1>5
  <2> QED BY <2>1 DEF DecodedEach
<1>9. b = <<>> => Decode(b) = none
  <2> HIDE DEF none, end, then
  <2> QED BY <1>1, <1>8
<1>10. b # <<>> => Len(b) \in Nat \ {0} /\ ~(1 > Len(b)) /\ 1 \in 1 .. Len(b)
  BY <1>5
<1>11. SubSeq(b, 1, Len(b)) = b
  BY <1>5 DEF Beyond
<1>12. b # <<>> /\ Incomplete(b, 1) => Decode(b) = [text |-> <<>>, left |-> b]
  <2>1. end = [text |-> <<>>, left |-> b]
    BY <1>11
  <2> HIDE DEF none, end, then
  <2> QED BY <1>1, <1>8, <1>10, <2>1
<1>13. ASSUME b # <<>>, ~Incomplete(b, 1)
       PROVE  /\ Taken(b, 1) \in 0 .. 2 /\ Taken(b, 1) + 1 =< Len(b)
              /\ Decode(b) = then(Decode(Beyond(b, Taken(b, 1) + 1)))
  <2>1. Taken(b, 1) \in 0 .. 2 /\ 1 + Taken(b, 1) =< Len(b)
    BY <1>10, <1>13, TakenIs
  <2>2. Taken(b, 1) + 1 \in 0 .. Len(b) /\ Taken(b, 1) + 1 + 1 = 1 + Taken(b, 1) + 1 /\ Taken(b, 1) + 1 =< Len(b)
    BY <2>1, <1>5
  <2>3. Decode(Beyond(b, Taken(b, 1) + 1)) = F(b)[1 + Taken(b, 1) + 1]
    BY <2>2, <1>3
  <2> HIDE DEF none, end, then
  <2> QED BY <2>1, <2>2, <2>3, <1>1, <1>8, <1>10, <1>13
<1> QED BY <1>7, <1>9, <1>12, <1>13

(* What holds of a sequence as soon as it holds of all shorter ones, holds *)
(* of all.                                                                 *)
LEMMA ShorterFirst ==
  ASSUME NEW T, NEW P,
         \A s \in Seq(T) : (\A t \in Seq(T) : Len(t) < Len(s) => t \in P) => s \in P
  PROVE  \A s \in Seq(T) : s \in P
<1> DEFINE N == {n \in Nat : \A s \in Seq(T) : Len(s) < n => s \in P}
<1>1. 0 \in N
  OBVIOUS
<1>2. ASSUME NEW n \in Nat, n \in N PROVE n + 1 \in N
  <2>1. ASSUME NEW s \in Seq(T), Len(s) < n + 1 PROVE s \in P
    <3>1. \A t \in Seq(T) : Len(t) < Len(s) => t \in P
      <4>1. ASSUME NEW t \in Seq(T), Len(t) < Len(s) PROVE Len(t) < n
        <5>1. Len(t) \in Nat /\ Len(s) \in Nat
          OBVIOUS
        <5> QED BY <5>1, <4>1, <2>1
      <4> QED BY <4>1, <1>2
    <3> QED BY <3>1
  <2> QED BY <2>1
<1>3. Nat \subseteq N
  <2> HIDE DEF N
  <2> QED BY <1>1, <1>2, SetInduction
<1> TAKE s \in Seq(T)
<1>4. Len(s) + 1 \in N /\ Len(s) < Len(s) + 1
  <2>1. Len(s) \in Nat
    OBVIOUS
  <2> HIDE DEF N
  <2> QED BY <2>1, <1>3
<1> QED BY <1>4

(* What the bytes of a whole character are does not depend on what follows *)
LEMMA CharacterStands ==
  ASSUME NEW a \in Seq(Bytes), NEW b \in Seq(Bytes), a # <<>>, ~Incomplete(a, 1)
  PROVE  /\ a \o b # <<>> /\ ~Incomplete(a \o b, 1)
         /\ Taken(a \o b, 1) = Taken(a, 1) /\ CharAt(a \o b, 1) = CharAt(a, 1)
<1> DEFINE c == a \o b
<1>1. /\ c \in Seq(Bytes) /\ Len(c) = Len(a) + Len(b) /\ \A i \in 1 .. Len(a) : c[i] = a[i]
      /\ Len(a) \in Nat \ {0} /\ Len(b) \in Nat /\ 1 \in 1 .. Len(a)
  <2>1. Len(a) \in Nat \ {0} /\ Len(b) \in Nat /\ 1 \in 1 .. Len(a)
    OBVIOUS
  <2> QED BY <2>1, Concatenated
<1> HIDE DEF c
<1>2. c # <<>> /\ c[1] = a[1] /\ 1 \in 1 .. Len(c)
  BY <1>1
<1> DEFINE n == Continuations(a, 1)
<1>3. /\ n \in 0 .. 2 /\ 1 + n =< Len(a)
      /\ n = 2 <=> 1 + 2 =< Len(a) /\ a[1 + 1] = "C" /\ a[1 + 2] = "C"
      /\ n = 0 <=> ~(1 + 1 =< Len(a) /\ a[1 + 1] = "C")
  BY <1>1, ContinuationsAre
<1> HIDE DEF n
<1>4. CASE a[1] = "M"
  <2>1. ~(n < 2 /\ 1 + n = Len(a))
    BY <1>4 DEF Incomplete, n
  <2>2. Continuations(c, 1) = n
    <3>1. CASE n = 2
      <4>1. 3 \in 1 .. Len(a) /\ 2 \in 1 .. Len(a) /\ a[2] = "C" /\ a[3] = "C"
        BY <3>1, <1>3, <1>1
      <4>2. 1 + 2 =< Len(c) /\ c[1 + 1] = "C" /\ c[1 + 2] = "C"
        BY <4>1, <1>1
      <4> QED BY <4>2, <3>1 DEF Continuations
    <3>2. CASE n = 1
      <4>0. 1 + 1 = 2 /\ 1 + 2 = 3 /\ ~(n = 2) /\ ~(n = 0)
        BY <3>2
      <4>3. 2 =< Len(a) /\ a[2] = "C" /\ ~(3 =< Len(a) /\ a[2] = "C" /\ a[3] = "C")
        BY <4>0, <1>3
      <4>4. 3 =< Len(a)
        <5>1. n < 2 /\ 1 + n = 2
          BY <3>2
        <5>2. Len(a) # 2
          BY ONLY <2>1, <5>1
        <5>3. \A l \in Nat : 2 =< l /\ l # 2 => 3 =< l
          OBVIOUS
        <5>4. Len(a) \in Nat
          BY <1>1
        <5> QED BY ONLY <5>2, <5>3, <5>4, <4>3
      <4>1. 3 \in 1 .. Len(a) /\ 2 \in 1 .. Len(a) /\ a[2] = "C" /\ a[3] # "C"
        BY <4>3, <4>4, <1>1
      <4>2. 1 + 1 =< Len(c) /\ c[1 + 1] = "C" /\ c[1 + 2] # "C"
        BY <4>1, <1>1
      <4> QED BY <4>2, <3>2 DEF Continuations
    <3>3. CASE n = 0
      <4>0. 1 + 1 = 2
        OBVIOUS
      <4>3. ~(2 =< Len(a) /\ a[2] = "C")
        BY <3>3, <4>0, <1>3
      <4>4. 2 =< Len(a)
        <5>1. n < 2 /\ 1 + n = 1
          BY <3>3
        <5>2. Len(a) # 1
          BY ONLY <2>1, <5>1
        <5>3. \A l \in Nat \ {0} : l # 1 => 2 =< l
          OBVIOUS
        <5>4. Len(a) \in Nat \ {0}
          BY <1>1
        <5> QED BY ONLY <5>2, <5>3, <5>4
      <4>1. 2 \in 1 .. Len(a) /\ a[2] # "C"
        BY <4>3, <4>4, <1>1
      <4>2. c[1 + 1] # "C"
        BY <4>1, <1>1
      <4> QED BY <4>2, <3>3 DEF Continuations
    <3> QED BY <1>3, <3>1, <3>2, <3>3
  <2>3. ~Incomplete(c, 1)
    <3>1. ~(n < 2 /\ 1 + n = Len(c))
      BY <2>1, <1>1, <1>3
    <3> QED BY <3>1, <2>2 DEF Incomplete
  <2> QED BY <1>2, <2>2, <2>3 DEF Taken, CharAt, c, n
<1>5. CASE a[1] # "M"
  BY <1>2, <1>5 DEF Taken, CharAt, Incomplete, c
<1> QED BY <1>4, <1>5

(* Bytes may be decoded in two parts: what the first leaves is put before  *)
(* the second.                                                             *)
LEMMA DecodeJoined ==
  ASSUME NEW a \in Seq(Bytes), NEW b \in Seq(Bytes)
  PROVE  /\ Decode(a \o b).text = Decode(a).text \o Decode(Decode(a).left \o b).text
         /\ Decode(a \o b).left = Decode(Decode(a).left \o b).left
<1> DEFINE Splits(x) == /\ Decode(x \o b).text = Decode(x).text \o Decode(Decode(x).left \o b).text
                        /\ Decode(x \o b).left = Decode(Decode(x).left \o b).left
           P == {x \in Seq(Bytes) : Splits(x)}
<1>1. ASSUME NEW x \in Seq(Bytes), \A t \in Seq(Bytes) : Len(t) < Len(x) => t \in P
      PROVE  Splits(x)
  <2>0. x \o b \in Seq(Bytes) /\ <<>> \o b = b
    OBVIOUS
  <2>1. CASE x = <<>>
    <3>1. Decode(x) = [text |-> <<>>, left |-> <<>>]
      BY <2>1, DecodeIs
    <3>2. Decode(x).text = <<>> /\ Decode(x).left = <<>>
      BY <3>1
    <3>3. Decode(b) \in Decodings
      BY DecodeIs
    <3>4. <<>> \o Decode(b).text = Decode(b).text
      BY <3>3 DEF Decodings
    <3>5. x \o b = b /\ Decode(x).left \o b = b
      BY <2>0, <2>1, <3>2
    <3> QED BY <3>2, <3>4, <3>5
  <2>2. CASE x # <<>> /\ Incomplete(x, 1)
    <3>1. Decode(x) = [text |-> <<>>, left |-> x]
      BY <2>2, DecodeIs
    <3>2. Decode(x).text = <<>> /\ Decode(x).left = x
      BY <3>1
    <3>3. Decode(x \o b) \in Decodings
      BY <2>0, DecodeIs
    <3>4. <<>> \o Decode(x \o b).text = Decode(x \o b).text
      BY <3>3 DEF Decodings
    <3> QED BY <3>2, <3>4
  <2>3. CASE x # <<>> /\ ~Incomplete(x, 1)
    <3> DEFINE k == Taken(x, 1) + 1
               y == Beyond(x, k)
               z == x \o b
               d == Decode(y)
               e == Decode(y \o b)
               char == CharAt(x, 1)
    <3>1. k \in 1 .. Len(x) /\ k \in 0 .. Len(x)
          /\ Decode(x) = [text |-> <<char>> \o d.text, left |-> d.left]
      <4>1. /\ Taken(x, 1) \in 0 .. 2 /\ Taken(x, 1) + 1 =< Len(x)
            /\ Decode(x) = [text |-> <<CharAt(x, 1)>> \o Decode(Beyond(x, Taken(x, 1) + 1)).text,
                            left |-> Decode(Beyond(x, Taken(x, 1) + 1)).left]
        BY <2>3, DecodeIs
      <4>2. Len(x) \in Nat
        OBVIOUS
      <4> QED BY <4>1, <4>2
    <3>2. y \in Seq(Bytes) /\ Len(y) = Len(x) - k
      BY <3>1, Dropped
    <3>3. z # <<>> /\ ~Incomplete(z, 1) /\ Taken(z, 1) = Taken(x, 1) /\ CharAt(z, 1) = char
      BY <2>3, CharacterStands
    <3>4. Beyond(z, k) = y \o b
      BY <3>1, DropJoined
    <3>5. Decode(z) = [text |-> <<char>> \o e.text, left |-> e.left]
      <4> HIDE DEF y, z, char, e, d
      <4>1. Decode(z) = [text |-> <<CharAt(z, 1)>> \o Decode(Beyond(z, Taken(z, 1) + 1)).text,
                         left |-> Decode(Beyond(z, Taken(z, 1) + 1)).left]
        <5>1. z \in Seq(Bytes)
          BY <2>0 DEF z
        <5> QED BY <5>1, <3>3, DecodeIs
      <4> QED BY <4>1, <3>3, <3>4 DEF e
    <3>6. Splits(y)
      <4>1. Len(y) < Len(x)
        <5> HIDE DEF y
        <5>1. Len(x) \in Nat
          OBVIOUS
        <5> QED BY <5>1, <3>1, <3>2
      <4> HIDE DEF Splits, y
      <4> QED BY <4>1, <3>2, <1>1
    <3>7. d \in Decodings /\ char \in Characters
      <4>1. 1 \in 1 .. Len(x)
        BY <2>3
      <4> QED BY <3>2, <4>1, DecodeIs, TakenIs
    <3> DEFINE v == Decode(d.left \o b)
    <3>8. v \in Decodings
      <4>1. d.left \o b \in Seq(Bytes)
        <5> HIDE DEF d
        <5> QED BY <3>7 DEF Decodings
      <4> HIDE DEF d
      <4> QED BY <4>1, DecodeIs
    <3>9. e.text = d.text \o v.text /\ e.left = v.left
      BY <3>6
    <3> HIDE DEF d, e, v, char, y, k
    <3>10. <<char>> \o (d.text \o v.text) = (<<char>> \o d.text) \o v.text
      BY <3>7, <3>8 DEF Decodings
    <3>11. Decode(x).left = d.left /\ Decode(x).text = <<char>> \o d.text
      BY <3>1
    <3>12. Decode(z).left = e.left /\ Decode(z).text = <<char>> \o e.text
      BY <3>5
    <3> QED BY <3>9, <3>10, <3>11, <3>12 DEF v, z
  <2> QED BY <2>1, <2>2, <2>3
<1>2. \A x \in Seq(Bytes) : x \in P
  <2>1. \A x \in Seq(Bytes) : (\A t \in Seq(Bytes) : Len(t) < Len(x) => t \in P) => x \in P
    BY <1>1
  <2> HIDE DEF P
  <2> QED BY <2>1, ShorterFirst
<1> QED BY <1>2

-----------------------------------------------------------------------------
(* Where no secret shares text with another.  Text without a word in it is *)
(* kept as it is, as far as it goes.                                       *)
LEMMA StretchKept ==
  ASSUME NEW S, AreWords(S), NEW t \in Texts, NEW k \in 0 .. Len(t),
         \A j \in 1 .. k : LongestAt(S, t, j) = 0
  PROVE  /\ k =< Len(Replaced(S, t))
         /\ \A j \in 1 .. k : Replaced(S, t)[j] = t[j]
         /\ Beyond(Replaced(S, t), k) = Replaced(S, Beyond(t, k))
<1> DEFINE r == Replaced(S, t)
           Holds(n) == /\ n =< Len(r)
                       /\ \A j \in 1 .. n : r[j] = t[j]
                       /\ Beyond(r, n) = Replaced(S, Beyond(t, n))
           N == {n \in Nat : n =< k => Holds(n)}
<1>1. r \in Texts /\ Len(r) \in Nat /\ Len(t) \in Nat /\ k \in Nat /\ k =< Len(t)
  BY ReplacedIsText
<1>2. 0 \in N
  <2>1. Beyond(r, 0) = r /\ Beyond(t, 0) = t
    BY <1>1, DropNothing DEF Texts
  <2>2. Holds(0)
    <3> HIDE DEF r
    <3> QED BY <1>1, <2>1 DEF r
  <2> HIDE DEF Holds
  <2> QED BY <2>2
<1>3. ASSUME NEW n \in Nat, n \in N PROVE n + 1 \in N
  <2>1. SUFFICES ASSUME n + 1 =< k PROVE Holds(n + 1)
    OBVIOUS
  <2> DEFINE u == Beyond(t, n)
             v == Replaced(S, u)
  <2>2. Holds(n)
    BY <1>1, <1>3, <2>1
  <2>3. n \in 0 .. Len(t) /\ n \in 0 .. Len(r) /\ 1 \in 1 .. Len(t) - n /\ n + 1 \in 1 .. k
        /\ 1 \in 0 .. Len(t) - n
    <3> HIDE DEF r
    <3> QED BY <1>1, <2>1, <2>2
  <2>4. /\ u \in Texts /\ Len(u) = Len(t) - n /\ \A i \in 1 .. Len(t) - n : u[i] = t[n + i]
    BY <2>3, Dropped DEF Texts
  <2>5. u # <<>> /\ u[1] = t[n + 1]
    BY <2>3, <2>4
  <2>6. LongestAt(S, u, 1) = 0
    <3>1. LongestAt(S, u, 1) = LongestAt(S, t, n + 1)
      BY <2>3, LongestLater
    <3> QED BY <3>1, <2>3
  <2>7. v \in Texts /\ Len(v) \in Nat \ {0} /\ v[1] = u[1] /\ Beyond(v, 1) = Replaced(S, Beyond(u, 1))
    <3> HIDE DEF u
    <3> QED BY <2>4, <2>5, <2>6, ReplacedStep
  <2>8. v = Beyond(r, n)
    BY <2>2
  <2>9. Len(v) = Len(r) - n /\ \A i \in 1 .. Len(r) - n : v[i] = r[n + i]
    <3> HIDE DEF r, u, v
    <3> QED BY <1>1, <2>3, <2>8, Dropped DEF Texts
  <2>10. n + 1 =< Len(r) /\ 1 \in 1 .. Len(r) - n /\ 1 \in 0 .. Len(r) - n
    <3> HIDE DEF r, u, v
    <3> QED BY <1>1, <2>3, <2>7, <2>9
  <2>11. r[n + 1] = t[n + 1]
    <3> HIDE DEF r, u, v
    <3> QED BY <2>5, <2>7, <2>9, <2>10
  <2>12. Beyond(r, n + 1) = Replaced(S, Beyond(t, n + 1))
    <3>1. Beyond(r, n + 1) = Beyond(Beyond(r, n), 1)
      <4> HIDE DEF r
      <4> QED BY <1>1, <2>3, <2>10, DropTwice DEF Texts
    <3>2. Beyond(t, n + 1) = Beyond(Beyond(t, n), 1)
      BY <2>3, DropTwice DEF Texts
    <3> HIDE DEF r, v
    <3> QED BY <3>1, <3>2, <2>7, <2>8
  <2>13. \A j \in 1 .. n + 1 : r[j] = t[j]
    <3> TAKE j \in 1 .. n + 1
    <3>1. CASE j = n + 1
      BY <3>1, <2>11
    <3>2. CASE j # n + 1
      <4>1. j \in 1 .. n
        BY <3>2
      <4> QED BY <4>1, <2>2
    <3> QED BY <3>1, <3>2
  <2> HIDE DEF r
  <2> QED BY <2>10, <2>12, <2>13
<1>4. Nat \subseteq N
  <2> HIDE DEF N
  <2> QED BY <1>2, <1>3, SetInduction
<1>5. Holds(k)
  <2> HIDE DEF Holds
  <2> QED BY <1>1, <1>4
<1> QED BY <1>1, <1>5

LEMMA Unchanged ==
  ASSUME NEW S, AreWords(S), NEW t \in Texts, Clean(S, t)
  PROVE  Replaced(S, t) = t
<1> DEFINE r == Replaced(S, t)
           k == Len(t)
<1>1. r \in Texts /\ Len(r) \in Nat /\ k \in Nat /\ k \in 0 .. Len(t)
  BY ReplacedIsText
<1>2. \A j \in 1 .. k : LongestAt(S, t, j) = 0
  BY LongestIs DEF Clean
<1>3. k =< Len(r) /\ (\A j \in 1 .. k : r[j] = t[j]) /\ Beyond(r, k) = Replaced(S, Beyond(t, k))
  BY <1>1, <1>2, StretchKept
<1>4. Beyond(r, k) = <<>>
  <2>1. Beyond(t, k) = <<>>
    BY DropNothing DEF Texts
  <2>2. <<>> \in Texts
    BY DEF Texts
  <2>3. Replaced(S, <<>>) = <<>>
    BY <2>2, ReplacedIs
  <2> HIDE DEF r, k
  <2> QED BY <2>1, <2>3, <1>3
<1>5. Len(Beyond(r, k)) = Len(r) - k
  <2> HIDE DEF r, k
  <2>1. k \in 0 .. Len(r)
    BY <1>1, <1>3
  <2> QED BY <1>1, <2>1, Dropped DEF Texts
<1>6. Len(r) = k
  <2> HIDE DEF r, k
  <2>1. Len(Beyond(r, k)) = 0
    BY <1>4
  <2> QED BY <2>1, <1>1, <1>5
<1> HIDE DEF r
<1>7. r = t
  BY <1>1, <1>3, <1>6, SameSequence DEF Texts
<1> QED BY <1>7 DEF r

(* A text that is less than a word holds no other word.                    *)
Apart(S) == \A s, t \in S : PartOf(s, t) \/ Overlap(s, t) => s = t

LEMMA BeginningIsClean ==
  ASSUME NEW S, AreWords(S), Apart(S), NEW t \in Texts, NEW s \in S, Begins(t, 1, s)
  PROVE  Clean(S, t)
<1> SUFFICES ASSUME NEW w \in S, NEW i \in 1 .. Len(t), StartsAt(t, i, w) PROVE FALSE
  BY DEF Clean
<1>1. s \in Texts /\ w \in Texts /\ Len(s) \in Nat /\ Len(w) \in Nat \ {0} /\ Len(t) \in Nat /\ i \in Nat \ {0}
  <2>1. s \in Seq(Characters) /\ w \in Seq(Characters) /\ w # <<>>
    BY DEF AreWords
  <2> QED BY <2>1, WordIsText, LengthOfText
<1>2. Len(t) < Len(s) /\ \A j \in 1 .. Len(t) : t[j] = s[j]
  <2>1. Len(t) - 1 + 1 = Len(t) /\ \A j \in 1 .. Len(t) : 1 + j - 1 = j
    BY <1>1
  <2> QED BY <2>1 DEF Begins
<1>3. i + Len(w) - 1 =< Len(t) /\ \A j \in 1 .. Len(w) : t[i + j - 1] = w[j]
  BY <1>1, StartsIs DEF Texts
<1>4. i + Len(w) - 1 =< Len(s) /\ \A j \in 1 .. Len(w) : s[i + j - 1] = w[j]
  <2>1. i + Len(w) - 1 =< Len(s)
    BY <1>1, <1>2, <1>3
  <2>2. ASSUME NEW j \in 1 .. Len(w) PROVE s[i + j - 1] = w[j]
    <3>1. i + j - 1 \in 1 .. Len(t)
      BY <1>1, <1>3
    <3> QED BY <3>1, <1>2, <1>3
  <2> QED BY <2>1, <2>2
<1>5. StartsAt(s, i, w) /\ i \in 1 .. Len(s)
  BY <1>1, <1>2, <1>4, StartsIs DEF Texts
<1>6. w = s
  BY <1>5 DEF Apart, PartOf
<1> QED BY <1>1, <1>2, <1>3, <1>6

LEMMA OneStarts ==
  ASSUME NEW S, AreWords(S), Apart(S), NEW t \in Texts, NEW s \in S, StartsAt(t, 1, s),
         NEW w \in S, StartsAt(t, 1, w)
  PROVE  s = w
<1>1. s \in Texts /\ w \in Texts /\ Len(s) \in Nat \ {0} /\ Len(w) \in Nat \ {0} /\ Len(t) \in Nat
      /\ 1 \in Nat \ {0}
  <2>1. s \in Seq(Characters) /\ s # <<>> /\ w \in Seq(Characters) /\ w # <<>>
    BY DEF AreWords
  <2> QED BY <2>1, WordIsText, LengthOfText
<1>2. ASSUME NEW a \in S, NEW b \in S, a \in Texts, b \in Texts, StartsAt(t, 1, a), StartsAt(t, 1, b),
             Len(a) \in Nat \ {0}, Len(b) \in Nat \ {0}, Len(a) =< Len(b)
      PROVE  a = b
  <2>1. (1 + Len(a) - 1 =< Len(t) /\ \A j \in 1 .. Len(a) : t[1 + j - 1] = a[j])
        /\ (1 + Len(b) - 1 =< Len(t) /\ \A j \in 1 .. Len(b) : t[1 + j - 1] = b[j])
    <3>1. 1 + Len(a) - 1 =< Len(t) /\ \A j \in 1 .. Len(a) : t[1 + j - 1] = a[j]
      <4>1. a \in Texts /\ StartsAt(t, 1, a) /\ 1 \in Nat \ {0} /\ t \in Texts
        BY <1>2
      <4> QED BY ONLY <4>1, StartsIs DEF Texts
    <3>2. 1 + Len(b) - 1 =< Len(t) /\ \A j \in 1 .. Len(b) : t[1 + j - 1] = b[j]
      <4>1. b \in Texts /\ StartsAt(t, 1, b) /\ 1 \in Nat \ {0} /\ t \in Texts
        BY <1>2
      <4> QED BY ONLY <4>1, StartsIs DEF Texts
    <3> QED BY <3>1, <3>2
  <2>2. 1 + Len(a) - 1 =< Len(b) /\ \A j \in 1 .. Len(a) : b[1 + j - 1] = a[j]
    <3>1. \A j \in 1 .. Len(a) : 1 + j - 1 = j /\ j \in 1 .. Len(b)
      BY <1>2
    <3> QED BY <3>1, <2>1, <1>2
  <2>3. StartsAt(b, 1, a) /\ 1 \in 1 .. Len(b)
    <3>1. 1 \in 1 .. Len(b) /\ 1 \in Nat \ {0} /\ a \in Texts /\ b \in Texts
      BY <1>2
    <3> QED BY ONLY <3>1, <2>2, StartsIs DEF Texts
  <2> QED BY <2>3 DEF Apart, PartOf
<1> QED BY <1>1, <1>2

LEMMA LongestOf ==
  ASSUME NEW S, AreWords(S), Apart(S), NEW t \in Texts, t # <<>>, NEW s \in S, StartsAt(t, 1, s)
  PROVE  LongestAt(S, t, 1) = Len(s) /\ Len(s) \in Nat \ {0}
<1>1. 1 \in 1 .. Len(t)
  BY DEF Texts
<1>2. LongestAt(S, t, 1) # 0
  BY <1>1, LongestIs
<1>3. PICK w \in S : StartsAt(t, 1, w) /\ Len(w) = LongestAt(S, t, 1)
  BY <1>1, <1>2, LongestIs
<1>4. w = s
  BY <1>3, OneStarts
<1>5. s \in Seq(Characters) /\ s # <<>>
  BY DEF AreWords
<1> QED BY <1>3, <1>4, <1>5

LEMMA StartsJoined ==
  ASSUME NEW t \in Texts, NEW x \in Texts, NEW s \in Seq(Characters)
  PROVE  /\ StartsAt(t, 1, s) => StartsAt(t \o x, 1, s)
         /\ StartsAt(t \o x, 1, s) => StartsAt(t, 1, s) \/ Begins(t, 1, s)
<1> DEFINE u == t \o x
<1>1. /\ u \in Texts /\ Len(u) = Len(t) + Len(x) /\ \A i \in 1 .. Len(t) : u[i] = t[i]
      /\ Len(t) \in Nat /\ Len(x) \in Nat /\ s \in Texts /\ Len(s) \in Nat /\ 1 \in Nat \ {0}
  <2>1. Len(t) \in Nat /\ Len(x) \in Nat /\ s \in Texts /\ Len(s) \in Nat
    BY LengthOfText, WordIsText
  <2> QED BY <2>1, Concatenated DEF Texts
<1> HIDE DEF u
<1>2. StartsAt(t, 1, s) <=> 1 + Len(s) - 1 =< Len(t) /\ \A j \in 1 .. Len(s) : t[1 + j - 1] = s[j]
  BY <1>1, StartsIs DEF Texts
<1>3. StartsAt(u, 1, s) <=> 1 + Len(s) - 1 =< Len(u) /\ \A j \in 1 .. Len(s) : u[1 + j - 1] = s[j]
  BY <1>1, StartsIs DEF Texts
<1>4. /\ 1 + Len(s) - 1 = Len(s) /\ Len(t) - 1 + 1 = Len(t)
      /\ (\A j \in 1 .. Len(s) : 1 + j - 1 = j) /\ (\A j \in 1 .. Len(t) : 1 + j - 1 = j)
  BY <1>1
<1>5. StartsAt(t, 1, s) <=> Len(s) =< Len(t) /\ \A j \in 1 .. Len(s) : t[j] = s[j]
  BY <1>2, <1>4
<1>6. StartsAt(u, 1, s) <=> Len(s) =< Len(u) /\ \A j \in 1 .. Len(s) : u[j] = s[j]
  BY <1>3, <1>4
<1>7. Begins(t, 1, s) <=> Len(t) < Len(s) /\ \A j \in 1 .. Len(t) : t[j] = s[j]
  BY <1>4 DEF Begins
<1>8. CASE Len(s) =< Len(t)
  <2>1. \A j \in 1 .. Len(s) : u[j] = t[j]
    BY <1>1, <1>8
  <2>2. Len(s) =< Len(u)
    BY <1>1, <1>8
  <2> QED BY <1>5, <1>6, <1>8, <2>1, <2>2 DEF u
<1>9. CASE Len(t) < Len(s)
  <2>1. \A j \in 1 .. Len(t) : u[j] = t[j] /\ j \in 1 .. Len(s)
    BY <1>1, <1>9
  <2>2. ~(Len(s) =< Len(t))
    BY <1>1, <1>9
  <2> QED BY <1>5, <1>6, <1>7, <1>9, <2>1, <2>2 DEF u
<1> QED BY <1>1, <1>8, <1>9

LEMMA BeginsLater ==
  ASSUME NEW t \in Texts, NEW k \in 0 .. Len(t), NEW p \in 1 .. Len(t) - k, NEW s
  PROVE  Begins(Beyond(t, k), p, s) <=> Begins(t, k + p, s)
<1> DEFINE u == Beyond(t, k)
           m == Len(u) - p + 1
<1>1. /\ u \in Texts /\ Len(u) = Len(t) - k /\ \A i \in 1 .. Len(t) - k : u[i] = t[k + i]
      /\ Len(t) \in Nat /\ k \in Nat /\ p \in Nat \ {0}
  <2>1. u \in Texts /\ Len(u) = Len(t) - k /\ \A i \in 1 .. Len(t) - k : u[i] = t[k + i]
    BY Dropped DEF Texts
  <2>2. Len(t) \in Nat
    BY LengthOfText
  <2> HIDE DEF u
  <2>3. k \in Nat /\ p \in Nat \ {0}
    BY <2>2
  <2> QED BY <2>1, <2>2, <2>3
<1>2. Len(t) - (k + p) + 1 = Len(u) - p + 1
  BY <1>1
<1> HIDE DEF u
<1>3. \A j \in 1 .. Len(u) - p + 1 : u[p + j - 1] = t[k + p + j - 1]
  <2> TAKE j \in 1 .. Len(u) - p + 1
  <2>1. p + j - 1 \in 1 .. Len(t) - k /\ k + (p + j - 1) = k + p + j - 1
    BY <1>1
  <2> QED BY <2>1, <1>1
<1>4. Begins(u, p, s) <=> m < Len(s) /\ \A j \in 1 .. m : u[p + j - 1] = s[j]
  BY DEF Begins
<1>5. Begins(t, k + p, s) <=> m < Len(s) /\ \A j \in 1 .. m : t[k + p + j - 1] = s[j]
  BY <1>2 DEF Begins
<1>6. \A j \in 1 .. m : u[p + j - 1] = t[k + p + j - 1]
  BY <1>3
<1> HIDE DEF m
<1>7. Begins(u, p, s) <=> Begins(t, k + p, s)
  BY <1>4, <1>5, <1>6
<1> QED BY <1>7 DEF u

LEMMA TightLater ==
  ASSUME NEW S, NEW t \in Texts, NEW n \in 1 .. Len(t), Tight(S, t, n)
  PROVE  Tight(S, Beyond(t, 1), n - 1)
<1>1. Len(t) \in Nat
  BY LengthOfText
<1> SUFFICES ASSUME NEW s \in S, NEW p \in 1 .. n - 1, Begins(Beyond(t, 1), p, s) PROVE FALSE
  BY DEF Tight
<1>2. 1 \in 0 .. Len(t) /\ p \in 1 .. Len(t) - 1 /\ 1 + p \in 1 .. n
  BY <1>1
<1>3. Begins(t, 1 + p, s)
  BY <1>2, BeginsLater
<1> QED BY <1>2, <1>3 DEF Tight

(* The head of a text that is not its own beginning of a word stands       *)
(* whatever follows.                                                       *)
LEMMA LongestStands ==
  ASSUME NEW S, AreWords(S), Apart(S), NEW t \in Texts, t # <<>>, NEW x \in Texts,
         \A s \in S : ~Begins(Replaced(S, t), 1, s)
  PROVE  t \o x \in Texts /\ t \o x # <<>> /\ LongestAt(S, t \o x, 1) = LongestAt(S, t, 1)
<1> DEFINE u == t \o x
<1>1. /\ u \in Texts /\ Len(u) = Len(t) + Len(x) /\ Len(t) \in Nat \ {0} /\ Len(x) \in Nat
  <2>1. Len(t) \in Nat \ {0} /\ Len(x) \in Nat
    BY DEF Texts
  <2> QED BY <2>1, Concatenated DEF Texts
<1>2. \A s \in S : s \in Seq(Characters) /\ s # <<>>
  BY DEF AreWords
<1>3. u # <<>> /\ 1 \in 1 .. Len(u) /\ 1 \in 1 .. Len(t)
  <2> HIDE DEF u
  <2> QED BY <1>1
<1>4. CASE LongestAt(S, t, 1) # 0
  <2>1. PICK s \in S : StartsAt(t, 1, s) /\ Len(s) = LongestAt(S, t, 1)
    BY <1>3, <1>4, LongestIs
  <2>2. StartsAt(u, 1, s)
    BY <1>2, <2>1, StartsJoined
  <2> HIDE DEF u
  <2>3. LongestAt(S, u, 1) = Len(s)
    BY <1>1, <1>3, <2>2, LongestOf
  <2> QED BY <1>1, <1>3, <2>1, <2>3 DEF u
<1>5. CASE LongestAt(S, t, 1) = 0
  <2>1. ASSUME NEW s \in S, StartsAt(u, 1, s) PROVE FALSE
    <3>1. ~StartsAt(t, 1, s)
      BY <1>3, <1>5, LongestIs
    <3>2. Begins(t, 1, s)
      BY <1>2, <2>1, <3>1, StartsJoined
    <3>3. Replaced(S, t) = t
      BY <3>2, BeginningIsClean, Unchanged
    <3> QED BY <3>2, <3>3
  <2> HIDE DEF u
  <2>2. LongestAt(S, u, 1) = 0
    BY <1>1, <1>3, <2>1, LongestIs
  <2> QED BY <1>1, <1>3, <1>5, <2>2 DEF u
<1> QED BY <1>4, <1>5

(* The outcome of a text and what follows is what stands of the outcome of *)
(* the text, and the outcome of what was held back with what follows.      *)
InParts(S, t, r, w) ==
  /\ Replaced(S, t) = r \o w /\ Tight(S, r \o w, Len(r))
  /\ \A j \in 1 .. Len(w) : w[j] # Marker

LEMMA AllHeldBack ==
  ASSUME NEW S, AreWords(S), NEW t \in Texts, NEW w \in Texts, Replaced(S, t) = w,
         \A j \in 1 .. Len(w) : w[j] # Marker
  PROVE  t = w
<1> DEFINE k == Len(w)
<1>1. Len(w) \in Nat /\ Len(t) \in Nat /\ k \in 0 .. Len(Replaced(S, t))
  BY LengthOfText
<1>2. /\ k =< Len(t)
      /\ \A j \in 1 .. k : t[j] = Replaced(S, t)[j] /\ LongestAt(S, t, j) = 0
      /\ Beyond(Replaced(S, t), k) = Replaced(S, Beyond(t, k))
  BY <1>1, StretchStands
<1>3. Beyond(w, k) = <<>>
  BY DropNothing DEF Texts
<1>4. k \in 0 .. Len(t)
  BY <1>1, <1>2
<1>5. Beyond(t, k) \in Texts /\ Len(Beyond(t, k)) = Len(t) - k
  BY <1>4, Dropped DEF Texts
<1>6. Beyond(t, k) = <<>>
  <2>1. Replaced(S, Beyond(t, k)) = <<>>
    BY <1>2, <1>3
  <2> QED BY <2>1, <1>5, ReplacedEmpty
<1>7. Len(t) = Len(w)
  <2>1. Len(Beyond(t, k)) = 0
    BY <1>6
  <2> QED BY <2>1, <1>5, <1>1
<1>8. \A j \in 1 .. Len(t) : t[j] = w[j]
  BY <1>2, <1>7
<1> QED BY <1>7, <1>8, SameSequence DEF Texts

LEMMA ReplacedInParts ==
  ASSUME NEW S, AreWords(S), Apart(S), NEW x \in Texts, NEW t \in Texts,
         NEW r \in Texts, NEW w \in Texts, InParts(S, t, r, w)
  PROVE  Replaced(S, t \o x) = r \o Replaced(S, w \o x)
<1> DEFINE Goal(z) == \A a, b \in Texts :
             InParts(S, z, a, b) => Replaced(S, z \o x) = a \o Replaced(S, b \o x)
           P == {z \in Texts : Goal(z)}
<1>1. ASSUME NEW z \in Texts, \A y \in Texts : Len(y) < Len(z) => y \in P PROVE Goal(z)
  <2> SUFFICES ASSUME NEW a \in Texts, NEW b \in Texts, InParts(S, z, a, b)
               PROVE  Replaced(S, z \o x) = a \o Replaced(S, b \o x)
    OBVIOUS
  <2>0. Replaced(S, z) = a \o b /\ Tight(S, a \o b, Len(a)) /\ \A j \in 1 .. Len(b) : b[j] # Marker
    BY DEF InParts
  <2>1. b \o x \in Texts /\ Replaced(S, b \o x) \in Texts
    <3>1. b \o x \in Texts
      BY Concatenated DEF Texts
    <3> QED BY <3>1, ReplacedIsText
  <2> DEFINE v == Replaced(S, b \o x)
             c == a \o b
  <2>2. CASE a = <<>>
    <3>1. c = b /\ a \o v = v
      <4> HIDE DEF v
      <4> QED BY <2>1, <2>2 DEF Texts, v
    <3>2. z = b
      BY <2>0, <3>1, AllHeldBack
    <3> QED BY <3>1, <3>2
  <2>3. CASE a # <<>>
    <3>1. /\ Len(a) \in Nat \ {0} /\ a[1] \in Characters \cup {Marker} /\ 1 \in 0 .. Len(a)
          /\ Beyond(a, 1) \in Texts /\ Len(Beyond(a, 1)) = Len(a) - 1
          /\ a = <<a[1]>> \o Beyond(a, 1)
      BY <2>3, FirstAndRest DEF Texts
    <3>2. /\ c \in Texts /\ Len(c) = Len(a) + Len(b) /\ c[1] = a[1] /\ Len(b) \in Nat
      <4>1. Len(b) \in Nat /\ 1 \in 1 .. Len(a)
        BY <3>1, LengthOfText
      <4> QED BY <4>1, Concatenated DEF Texts
    <3>3. Beyond(c, 1) = Beyond(a, 1) \o b
      BY <3>1, DropJoined DEF Texts
    <3> HIDE DEF c, v
    <3>4. c # <<>> /\ c = Replaced(S, z) /\ z # <<>> /\ 1 \in 1 .. Len(a) /\ Len(a) \in 1 .. Len(c)
      <4>1. c = Replaced(S, z)
        BY <2>0 DEF c
      <4>2. c # <<>>
        BY <3>1, <3>2
      <4>3. z # <<>>
        BY <4>1, <4>2, ReplacedIs
      <4> QED BY <4>1, <4>2, <4>3, <3>1, <3>2
    <3>5. \A s \in S : ~Begins(c, 1, s)
      BY <2>0, <3>4 DEF Tight, c
    <3>6. z \o x \in Texts /\ z \o x # <<>> /\ LongestAt(S, z \o x, 1) = LongestAt(S, z, 1)
      BY <3>4, <3>5, LongestStands
    <3> DEFINE L == LongestAt(S, z, 1)
               n == IF L = 0 THEN 1 ELSE L
               y == Beyond(z, n)
    <3>7. /\ L \in 0 .. Len(z) /\ Len(z) \in Nat \ {0} /\ n \in 1 .. Len(z) /\ n \in 0 .. Len(z)
          /\ a[1] = (IF L = 0 THEN z[1] ELSE Marker)
          /\ Beyond(c, 1) = Replaced(S, y)
      <4>1. /\ L \in 0 .. Len(z)
            /\ L = 0 => c[1] = z[1] /\ Beyond(c, 1) = Replaced(S, Beyond(z, 1))
            /\ L # 0 => c[1] = Marker /\ Beyond(c, 1) = Replaced(S, Beyond(z, L))
        BY <3>4, ReplacedStep
      <4>2. Len(z) \in Nat \ {0}
        BY <3>4 DEF Texts
      <4> HIDE DEF L
      <4>3. CASE L = 0
        BY <4>1, <4>2, <4>3, <3>2
      <4>4. CASE L # 0
        BY <4>1, <4>2, <4>4, <3>2
      <4> QED BY <4>3, <4>4
    <3>8. y \in Texts /\ Len(y) = Len(z) - n
      <4> HIDE DEF n
      <4> QED BY <3>7, Dropped DEF Texts
    <3>9. Replaced(S, z \o x) = <<a[1]>> \o Replaced(S, Beyond(z \o x, n))
      <4> DEFINE u == z \o x
      <4>1. u \in Texts /\ u # <<>> /\ LongestAt(S, u, 1) = L
        BY <3>6
      <4>2. u[1] = z[1]
        <5>1. 1 \in 1 .. Len(z)
          BY <3>7
        <5> QED BY <5>1, Concatenated DEF Texts
      <4> HIDE DEF u, L
      <4>3. CASE L = 0
        <5>1. n = 1 /\ a[1] = u[1]
          BY <4>3, <3>7, <4>2
        <5>2. Replaced(S, u) = <<u[1]>> \o Replaced(S, Beyond(u, 1))
          BY <4>1, <4>3, ReplacedIs
        <5> QED BY <5>1, <5>2 DEF u
      <4>4. CASE L # 0
        <5>1. n = L /\ a[1] = Marker
          BY <4>4, <3>7
        <5>2. Replaced(S, u) = <<Marker>> \o Replaced(S, Beyond(u, L))
          BY <4>1, <4>4, ReplacedIs
        <5> QED BY <5>1, <5>2 DEF u
      <4> QED BY <4>3, <4>4
    <3> HIDE DEF n, L
    <3>10. Beyond(z \o x, n) = y \o x
      BY <3>7, DropJoined DEF Texts
    <3> HIDE DEF y
    <3>11. InParts(S, y, Beyond(a, 1), b)
      <4>1. Tight(S, Beyond(c, 1), Len(a) - 1)
        <5>1. Tight(S, c, Len(a))
          BY <2>0 DEF c
        <5> QED BY <5>1, <3>2, <3>4, TightLater
      <4> QED BY <4>1, <3>1, <3>3, <3>7, <2>0 DEF InParts
    <3>12. Replaced(S, y \o x) = Beyond(a, 1) \o v
      <4>1. Len(y) < Len(z)
        BY <3>7, <3>8
      <4>2. Goal(y)
        BY <4>1, <3>8, <1>1
      <4> QED BY <4>2, <3>1, <3>11 DEF v
    <3>13. <<a[1]>> \o (Beyond(a, 1) \o v) = (<<a[1]>> \o Beyond(a, 1)) \o v
      <4> DEFINE e == Beyond(a, 1)
                 h == a[1]
      <4>1. h \in Characters \cup {Marker} /\ e \in Seq(Characters \cup {Marker}) /\ v \in Seq(Characters \cup {Marker})
        BY <3>1, <2>1 DEF Texts, v
      <4> HIDE DEF e, h
      <4>2. <<h>> \o (e \o v) = (<<h>> \o e) \o v
        BY <4>1
      <4> QED BY <4>2 DEF e, h
    <3>14. Replaced(S, z \o x) = a \o v
      BY ONLY <3>1, <3>9, <3>10, <3>12, <3>13
    <3> QED BY <3>14 DEF v
  <2> QED BY <2>2, <2>3
<1>2. \A z \in Texts : z \in P
  <2>1. \A z \in Texts : (\A y \in Texts : Len(y) < Len(z) => y \in P) => z \in P
    BY <1>1
  <2> HIDE DEF P
  <2> QED BY <2>1, ShorterFirst DEF Texts
<1> QED BY <1>2

(* Replacing one more word in the outcome is replacing them all at once.   *)
LEMMA FewerWords ==
  ASSUME NEW S, NEW s, AreWords(S \cup {s}), Apart(S \cup {s})
  PROVE  /\ AreWords(S) /\ Apart(S) /\ AreWords({s}) /\ Apart({s})
         /\ s \in Seq(Characters) /\ s # <<>> /\ s \in Texts /\ Len(s) \in Nat \ {0}
<1>1. s \in Seq(Characters) /\ s # <<>>
  BY DEF AreWords
<1>2. s \in Texts /\ Len(s) \in Nat \ {0}
  BY <1>1, WordIsText
<1> QED BY <1>1, <1>2 DEF AreWords, Apart

LEMMA NoneInside ==
  ASSUME NEW S, NEW s, AreWords(S \cup {s}), Apart(S \cup {s}), NEW t \in Texts,
         StartsAt(t, 1, s), \A w \in S : ~StartsAt(t, 1, w),
         NEW p \in 1 .. Len(s), NEW w \in S
  PROVE  ~StartsAt(t, p, w)
<1> SUFFICES ASSUME StartsAt(t, p, w) PROVE FALSE
  OBVIOUS
<1>1. /\ s \in Texts /\ Len(s) \in Nat \ {0} /\ Len(t) \in Nat /\ w \in Texts /\ Len(w) \in Nat \ {0}
      /\ 1 \in Nat \ {0} /\ p \in Nat \ {0} /\ p =< Len(s)
  <2>1. w \in Seq(Characters) /\ w # <<>>
    BY DEF AreWords
  <2>2. s \in Texts /\ Len(s) \in Nat \ {0}
    BY FewerWords
  <2>3. w \in Texts /\ Len(w) \in Nat \ {0}
    BY <2>1, WordIsText
  <2> QED BY <2>2, <2>3, LengthOfText
<1>2. Len(s) =< Len(t) /\ \A j \in 1 .. Len(s) : t[j] = s[j]
  <2>1. 1 + Len(s) - 1 =< Len(t) /\ \A j \in 1 .. Len(s) : t[1 + j - 1] = s[j]
    BY <1>1, StartsIs DEF Texts
  <2>2. 1 + Len(s) - 1 = Len(s) /\ \A j \in 1 .. Len(s) : 1 + j - 1 = j
    BY <1>1
  <2> QED BY <2>1, <2>2
<1>3. p + Len(w) - 1 =< Len(t) /\ \A j \in 1 .. Len(w) : t[p + j - 1] = w[j]
  BY <1>1, StartsIs DEF Texts
<1>4. w # s
  BY <1>2
<1>5. CASE p + Len(w) - 1 =< Len(s)
  <2>1. \A j \in 1 .. Len(w) : s[p + j - 1] = w[j]
    <3> TAKE j \in 1 .. Len(w)
    <3>1. p + j - 1 \in 1 .. Len(s)
      BY <1>1, <1>5
    <3> QED BY <3>1, <1>2, <1>3
  <2>2. StartsAt(s, p, w)
    BY <1>1, <1>5, <2>1, StartsIs DEF Texts
  <2> QED BY <2>2, <1>4 DEF Apart, PartOf
<1>6. CASE p + Len(w) - 1 > Len(s) /\ p # 1
  <2> DEFINE n == Len(s) - p + 1
             u == SubSeq(w, 1, n)
  <2>1. n \in 1 .. Len(s) - 1 /\ n < Len(w) /\ n \in 0 .. Len(w)
    BY <1>1, <1>6
  <2> HIDE DEF n
  <2>2. u \in Texts /\ Len(u) = n /\ \A j \in 1 .. n : u[j] = w[j]
    BY <1>1, <2>1, SplitAt DEF Texts
  <2> HIDE DEF u
  <2>3. \A j \in 1 .. Len(u) : s[Len(s) - Len(u) + j] = u[j]
    <3> TAKE j \in 1 .. Len(u)
    <3>1. Len(s) - Len(u) + j = p + j - 1 /\ p + j - 1 \in 1 .. Len(s) /\ j \in 1 .. Len(w) /\ j \in 1 .. n
      BY <1>1, <2>1, <2>2 DEF n
    <3> QED BY <3>1, <1>2, <1>3, <2>2
  <2>4. Len(u) =< Len(s)
    BY <1>1, <2>1, <2>2
  <2>5. IsSuffix(u, s)
    BY <1>1, <2>2, <2>3, <2>4, SuffixIs DEF Texts
  <2>6. Overlap(s, w)
    BY <2>1, <2>5 DEF Overlap, u
  <2> QED BY <2>6, <1>4 DEF Apart
<1>7. p # 1
  OBVIOUS
<1> QED BY <1>1, <1>5, <1>6, <1>7

LEMMA OneMore ==
  ASSUME NEW S, NEW s, s \notin S, AreWords(S \cup {s}), Apart(S \cup {s}), NEW x \in Texts
  PROVE  Replaced({s}, Replaced(S, x)) = Replaced(S \cup {s}, x)
<1> DEFINE A == S \cup {s}
           O == {s}
           Same(z) == Replaced(O, Replaced(S, z)) = Replaced(A, z)
           P == {z \in Texts : Same(z)}
<1>0. /\ AreWords(S) /\ Apart(S) /\ AreWords(O) /\ Apart(O) /\ AreWords(A) /\ Apart(A)
      /\ s \in Seq(Characters) /\ s # <<>> /\ s \in Texts /\ Len(s) \in Nat \ {0}
  BY FewerWords
<1>1. s \in O /\ s \in A /\ (\A w \in S : w \in A) /\ (\A w \in O : w = s)
      /\ \A w \in A : w = s \/ w \in S
  OBVIOUS
<1>9. \A w \in A : w \in Seq(Characters) /\ w # <<>>
  BY <1>0 DEF AreWords
<1>2. ASSUME NEW z \in Texts, \A y \in Texts : Len(y) < Len(z) => y \in P PROVE Same(z)
  <2> DEFINE r == Replaced(S, z)
  <2>1. r \in Texts /\ Len(r) \in Nat /\ Len(z) \in Nat
    BY <1>0, ReplacedIsText
  <2>2. CASE z = <<>>
    <3>1. r = <<>> /\ Replaced(A, z) = <<>>
      <4> HIDE DEF A
      <4> QED BY <1>0, <2>2, ReplacedIs
    <3>2. Replaced(O, r) = <<>>
      <4> HIDE DEF O, r
      <4> QED BY <1>0, <2>1, <3>1, ReplacedIs
    <3> QED BY <3>1, <3>2
  <2>3. CASE z # <<>>
    <3>1. Len(z) \in Nat \ {0} /\ 1 \in 1 .. Len(z) /\ z[1] \in Characters \cup {Marker}
      BY <2>3 DEF Texts
    <3>2. r # <<>> /\ 1 \in 1 .. Len(r)
      <4>1. r # <<>>
        BY <1>0, <2>3, ReplacedEmpty
      <4> HIDE DEF r
      <4> QED BY <4>1, <2>1 DEF Texts
    <3>3. ASSUME NEW n \in 1 .. Len(z) PROVE Same(Beyond(z, n))
      <4>1. n \in 0 .. Len(z)
        BY <3>1
      <4>2. Beyond(z, n) \in Texts /\ Len(Beyond(z, n)) = Len(z) - n
        BY <4>1, Dropped DEF Texts
      <4>3. Len(Beyond(z, n)) < Len(z)
        BY <4>2, <3>1
      <4> HIDE DEF Same
      <4> QED BY <4>2, <4>3, <1>2
    \* One word starts in the outcome only where it starts in the text.
    <3>4. ASSUME StartsAt(r, 1, s)
          PROVE  StartsAt(z, 1, s) /\ \A w \in S : ~StartsAt(z, 1, w)
      <4>1. Len(s) =< Len(r) /\ \A j \in 1 .. Len(s) : r[j] = s[j]
        <5> HIDE DEF r
        <5>1. 1 \in Nat \ {0}
          OBVIOUS
        <5>2. 1 + Len(s) - 1 =< Len(r) /\ \A j \in 1 .. Len(s) : r[1 + j - 1] = s[j]
          <6> DEFINE T == Characters \cup {Marker}
          <6>1. r \in Seq(T) /\ s \in Seq(T) /\ 1 \in Nat \ {0} /\ StartsAt(r, 1, s)
            BY <1>0, <2>1, <3>4, <5>1 DEF Texts
          <6> HIDE DEF T
          <6> QED BY ONLY <6>1, StartsIs
        <5>3. 1 + Len(s) - 1 = Len(s) /\ \A j \in 1 .. Len(s) : 1 + j - 1 = j
          BY <1>0
        <5> QED BY <5>2, <5>3
      <4>2. Len(s) \in 0 .. Len(r) /\ \A j \in 1 .. Len(s) : r[j] # Marker
        <5>1. \A j \in 1 .. Len(s) : s[j] \in Characters
          BY <1>0
        <5> HIDE DEF r
        <5> QED BY <5>1, <4>1, <1>0, <2>1, NoMarkerInWords
      <4>3. /\ Len(s) =< Len(z)
            /\ \A j \in 1 .. Len(s) : z[j] = r[j] /\ LongestAt(S, z, j) = 0
        BY <1>0, <4>2, StretchStands
      <4>4. StartsAt(z, 1, s)
        <5>1. \A j \in 1 .. Len(s) : 1 + j - 1 = j
          BY <1>0
        <5>2. 1 + Len(s) - 1 =< Len(z) /\ \A j \in 1 .. Len(s) : z[1 + j - 1] = s[j]
          BY <5>1, <4>1, <4>3, <1>0
        <5>3. z \in Texts /\ 1 \in Nat \ {0}
          OBVIOUS
        <5> QED BY ONLY <1>0, <5>2, <5>3, StartsIs DEF Texts
      <4>5. LongestAt(S, z, 1) = 0
        <5>1. 1 \in 1 .. Len(s)
          BY <1>0
        <5> QED BY <5>1, <4>3
      <4> QED BY <4>4, <4>5, <1>0, <3>1, LongestIs
    <3>5. CASE \A w \in A : ~StartsAt(z, 1, w)
      <4>1. LongestAt(A, z, 1) = 0 /\ LongestAt(S, z, 1) = 0
        <5>1. \A w \in S : ~StartsAt(z, 1, w)
          BY <3>5
        <5> HIDE DEF A
        <5> QED BY <5>1, <1>0, <3>1, <3>5, LongestIs
      <4>2. Replaced(A, z) = <<z[1]>> \o Replaced(A, Beyond(z, 1))
        <5> HIDE DEF A
        <5> QED BY <1>0, <2>3, <4>1, ReplacedIs
      <4>3. r[1] = z[1] /\ Beyond(r, 1) = Replaced(S, Beyond(z, 1))
        BY <1>0, <2>3, <4>1, ReplacedStep
      <4>4. LongestAt(O, r, 1) = 0
        <5>1. \A w \in O : ~StartsAt(r, 1, w)
          BY <3>4, <3>5
        <5> HIDE DEF O, r
        <5> QED BY <5>1, <1>0, <2>1, <3>2, LongestIs
      <4>5. Replaced(O, r) = <<r[1]>> \o Replaced(O, Beyond(r, 1))
        <5> HIDE DEF O, r
        <5> QED BY <1>0, <2>1, <3>2, <4>4, ReplacedIs
      <4>6. Same(Beyond(z, 1))
        BY <3>1, <3>3
      <4> HIDE DEF r, O, A
      <4> QED BY <4>2, <4>3, <4>5, <4>6 DEF r
    <3>6. CASE \E w \in S : StartsAt(z, 1, w)
      <4>1. PICK w \in S : StartsAt(z, 1, w)
        BY <3>6
      <4>2. LongestAt(A, z, 1) = Len(w) /\ LongestAt(S, z, 1) = Len(w) /\ Len(w) \in Nat \ {0}
        <5>1. w \in A
          OBVIOUS
        <5> HIDE DEF A
        <5> QED BY <5>1, <1>0, <2>3, <4>1, LongestOf
      <4> DEFINE n == Len(w)
      <4>3. Replaced(A, z) = <<Marker>> \o Replaced(A, Beyond(z, n))
        <5> HIDE DEF A
        <5> QED BY <1>0, <2>3, <4>2, ReplacedIs
      <4>4. r[1] = Marker /\ Beyond(r, 1) = Replaced(S, Beyond(z, n)) /\ n \in 0 .. Len(z)
        BY <1>0, <2>3, <4>2, ReplacedStep
      <4>5. LongestAt(O, r, 1) = 0
        <5>1. \A v \in O : ~StartsAt(r, 1, v)
          BY <3>4, <4>1
        <5> HIDE DEF O, r
        <5> QED BY <5>1, <1>0, <2>1, <3>2, LongestIs
      <4>6. Replaced(O, r) = <<r[1]>> \o Replaced(O, Beyond(r, 1))
        <5> HIDE DEF O, r
        <5> QED BY <1>0, <2>1, <3>2, <4>5, ReplacedIs
      <4>7. Same(Beyond(z, n))
        <5>1. n \in 1 .. Len(z)
          BY <4>2, <4>4, <3>1
        <5> HIDE DEF Same, n
        <5> QED BY <5>1, <3>3
      <4> HIDE DEF r, O, A, n
      <4> QED BY <4>3, <4>4, <4>6, <4>7 DEF r
    <3>7. CASE StartsAt(z, 1, s) /\ \A w \in S : ~StartsAt(z, 1, w)
      <4> DEFINE n == Len(s)
      <4>1. LongestAt(A, z, 1) = n
        <5> HIDE DEF A
        <5> QED BY <1>0, <1>1, <2>3, <3>7, LongestOf
      <4>2. n \in 1 .. Len(z) /\ n \in 0 .. Len(z) /\ n # 0 /\ \A j \in 1 .. n : z[j] = s[j]
        <5>1. 1 + Len(s) - 1 =< Len(z) /\ \A j \in 1 .. Len(s) : z[1 + j - 1] = s[j]
          BY <1>0, <3>7, StartsIs DEF Texts
        <5>2. 1 + Len(s) - 1 = Len(s) /\ \A j \in 1 .. Len(s) : 1 + j - 1 = j
          BY <1>0
        <5> QED BY <5>1, <5>2, <1>0, <3>1
      <4>3. \A j \in 1 .. n : LongestAt(S, z, j) = 0
        <5> TAKE j \in 1 .. n
        <5>1. j \in 1 .. Len(z)
          BY <4>2, <1>0, <3>1
        <5>2. \A w \in S : ~StartsAt(z, j, w)
          BY <1>0, <3>7, NoneInside
        <5> QED BY <5>1, <5>2, <1>0, LongestIs
      <4>4. n =< Len(r) /\ (\A j \in 1 .. n : r[j] = z[j]) /\ Beyond(r, n) = Replaced(S, Beyond(z, n))
        BY <1>0, <4>2, <4>3, StretchKept
      <4>5. StartsAt(r, 1, s)
        <5> HIDE DEF r
        <5>1. \A j \in 1 .. Len(s) : 1 + j - 1 = j
          BY <1>0
        <5>2. 1 + Len(s) - 1 =< Len(r) /\ \A j \in 1 .. Len(s) : r[1 + j - 1] = s[j]
          BY <5>1, <4>2, <4>4, <1>0, <2>1
        <5>3. 1 \in Nat \ {0}
          OBVIOUS
        <5> QED BY ONLY <1>0, <2>1, <5>2, <5>3, StartsIs DEF Texts
      <4>6. LongestAt(O, r, 1) = n
        <5> HIDE DEF O, r
        <5> QED BY <1>0, <1>1, <2>1, <3>2, <4>5, LongestOf
      <4>7. Replaced(O, r) = <<Marker>> \o Replaced(O, Beyond(r, n))
        <5> HIDE DEF O, r, n
        <5> QED BY <1>0, <2>1, <3>2, <4>2, <4>6, ReplacedIs
      <4>8. Replaced(A, z) = <<Marker>> \o Replaced(A, Beyond(z, n))
        <5> HIDE DEF A, n
        <5> QED BY <1>0, <2>3, <4>1, <4>2, ReplacedIs
      <4>9. Same(Beyond(z, n))
        <5> HIDE DEF Same, n
        <5> QED BY <4>2, <3>3
      <4> HIDE DEF r, O, A, n
      <4> QED BY <4>4, <4>7, <4>8, <4>9 DEF r
    <3> QED BY <3>5, <3>6, <3>7
  <2> QED BY <2>2, <2>3
<1>3. \A z \in Texts : z \in P
  <2>1. \A z \in Texts : (\A y \in Texts : Len(y) < Len(z) => y \in P) => z \in P
    BY <1>2
  <2> HIDE DEF P
  <2> QED BY <2>1, ShorterFirst DEF Texts
<1> QED BY <1>3

(* Each secret in turn is all of them at once.                             *)
LEMMA RedactedIsReplaced ==
  ASSUME IsFiniteSet(secrets), AreWords(secrets), Apart(secrets), NEW t \in Texts
  PROVE  Redacted(t) = Replaced(secrets, t)
<1> DEFINE m == Len(LongestFirst)
           Done(n) == {LongestFirst[i] : i \in 1 .. n}
<1>1. PICK f \in [0 .. m -> Texts] :
        /\ f[0] = t /\ Redacted(t) = f[m]
        /\ \A n \in 1 .. m : f[n] = Replaced({LongestFirst[n]}, f[n - 1])
  BY RedactedIs
<1>2. /\ m \in Nat /\ (\A i \in 1 .. m : LongestFirst[i] \in secrets) /\ secrets = Done(m)
      /\ \A i, j \in 1 .. m : i # j => LongestFirst[i] # LongestFirst[j]
  <2>1. LongestFirst \in Seq(secrets)
    BY LongestFirstIs
  <2>2. m \in Nat /\ \A i \in 1 .. m : LongestFirst[i] \in secrets
    BY <2>1
  <2>3. \A s \in secrets : \E i \in 1 .. m : LongestFirst[i] = s
    BY LongestFirstIs
  <2>4. \A i, j \in 1 .. m : i # j => LongestFirst[i] # LongestFirst[j]
    BY LongestFirstIs
  <2>5. secrets = Done(m)
    <3> HIDE DEF m
    <3> QED BY <2>2, <2>3
  <2> QED BY <2>2, <2>4, <2>5
<1> HIDE DEF m
<1> DEFINE N == {n \in Nat : n =< m => f[n] = Replaced(Done(n), t)}
<1>3. 0 \in N
  <2>1. Done(0) = {}
    OBVIOUS
  <2>2. Replaced({}, t) = t
    <3>1. AreWords({}) /\ Clean({}, t)
      BY DEF AreWords, Clean
    <3> QED BY <3>1, Unchanged
  <2> HIDE DEF Done
  <2> QED BY <2>1, <2>2, <1>1
<1>4. ASSUME NEW n \in Nat, n \in N PROVE n + 1 \in N
  <2>1. SUFFICES ASSUME n + 1 =< m PROVE f[n + 1] = Replaced(Done(n + 1), t)
    OBVIOUS
  <2> DEFINE s == LongestFirst[n + 1]
  <2>2. n + 1 \in 1 .. m /\ n =< m /\ n + 1 - 1 = n
    BY <1>2, <2>1
  <2>3. f[n + 1] = Replaced({s}, f[n])
    <3> DEFINE k == n + 1
    <3>1. k \in 1 .. m /\ k - 1 = n
      BY <2>2
    <3> HIDE DEF k
    <3>2. f[k] = Replaced({LongestFirst[k]}, f[k - 1])
      BY <1>1, <3>1
    <3> QED BY <3>1, <3>2 DEF k
  <2>4. f[n] = Replaced(Done(n), t)
    BY <1>4, <2>2
  <2>5. Done(n + 1) = Done(n) \cup {s}
    <3>1. ASSUME NEW w \in Done(n + 1) PROVE w \in Done(n) \cup {s}
      <4>1. PICK i \in 1 .. n + 1 : w = LongestFirst[i]
        OBVIOUS
      <4>2. i \in 1 .. n \/ i = n + 1
        OBVIOUS
      <4> QED BY <4>1, <4>2
    <3>2. Done(n) \subseteq Done(n + 1)
      <4>1. \A i \in 1 .. n : i \in 1 .. n + 1
        OBVIOUS
      <4> QED BY <4>1
    <3>3. s \in Done(n + 1)
      <4>1. n + 1 \in 1 .. n + 1
        OBVIOUS
      <4> QED BY <4>1
    <3> HIDE DEF Done, s
    <3> QED BY <3>1, <3>2, <3>3
  <2>6. s \notin Done(n)
    <3>1. \A i \in 1 .. n : i \in 1 .. m /\ i # n + 1
      BY <2>2, <1>2
    <3> QED BY <3>1, <2>2, <1>2
  <2>7. Done(n) \cup {s} \subseteq secrets
    <3>1. \A i \in 1 .. n : i \in 1 .. m
      BY <2>2, <1>2
    <3> QED BY <3>1, <2>2, <1>2
  <2> HIDE DEF Done, s
  <2>8. AreWords(Done(n) \cup {s}) /\ Apart(Done(n) \cup {s})
    BY <2>7 DEF AreWords, Apart
  <2>9. Replaced({s}, Replaced(Done(n), t)) = Replaced(Done(n) \cup {s}, t)
    BY <2>6, <2>8, OneMore
  <2> QED BY <2>3, <2>4, <2>5, <2>9
<1>5. Nat \subseteq N
  <2> HIDE DEF N
  <2> QED BY <1>3, <1>4, SetInduction
<1>6. f[m] = Replaced(Done(m), t)
  <2> HIDE DEF Done
  <2> QED BY <1>2, <1>5
<1> HIDE DEF Done
<1> QED BY <1>1, <1>2, <1>6

-----------------------------------------------------------------------------
(* Bytes that decode without broken characters, and with nothing left.     *)
Sound(b) == \A i \in 1 .. Len(Decode(b).text) : Decode(b).text[i] # Broken
Whole(b) == Sound(b) /\ Decode(b).left = <<>>

LEMMA DecodedTypes ==
  ASSUME NEW b \in Seq(Bytes)
  PROVE  /\ Decode(b).text \in Seq(Characters) /\ Decode(b).left \in Seq(Bytes)
         /\ Len(Decode(b).left) < 3 /\ Len(Decode(b).text) \in Nat
<1>1. Decode(b) \in Decodings
  BY DecodeIs
<1> QED BY <1>1 DEF Decodings

LEMMA EmptyIsWhole ==
  Decode(<<>>).text = <<>> /\ Decode(<<>>).left = <<>> /\ Whole(<<>>)
<1>1. <<>> \in Seq(Bytes)
  OBVIOUS
<1>2. Decode(<<>>) = [text |-> <<>>, left |-> <<>>]
  BY <1>1, DecodeIs
<1>3. Decode(<<>>).text = <<>> /\ Decode(<<>>).left = <<>>
  BY <1>2
<1> QED BY <1>3 DEF Whole, Sound

LEMMA DecodeStep ==
  ASSUME NEW b \in Seq(Bytes), b # <<>>, ~Incomplete(b, 1)
  PROVE  /\ Len(b) \in Nat \ {0} /\ Taken(b, 1) + 1 \in 1 .. Len(b) /\ Taken(b, 1) \in 0 .. 2
         /\ Beyond(b, Taken(b, 1) + 1) \in Seq(Bytes)
         /\ Len(Beyond(b, Taken(b, 1) + 1)) = Len(b) - (Taken(b, 1) + 1)
         /\ Decode(b).text = <<CharAt(b, 1)>> \o Decode(Beyond(b, Taken(b, 1) + 1)).text
         /\ Decode(b).left = Decode(Beyond(b, Taken(b, 1) + 1)).left
<1> DEFINE k == Taken(b, 1) + 1
<1>1. Taken(b, 1) \in 0 .. 2 /\ k =< Len(b)
      /\ Decode(b) = [text |-> <<CharAt(b, 1)>> \o Decode(Beyond(b, k)).text, left |-> Decode(Beyond(b, k)).left]
  BY DecodeIs
<1>2. Len(b) \in Nat \ {0}
  OBVIOUS
<1>3. k \in 1 .. Len(b) /\ k \in 0 .. Len(b)
  BY <1>1, <1>2
<1>4. Beyond(b, k) \in Seq(Bytes) /\ Len(Beyond(b, k)) = Len(b) - k
  <2> HIDE DEF k
  <2> QED BY <1>3, Dropped
<1> HIDE DEF k
<1>5. Decode(b).text = <<CharAt(b, 1)>> \o Decode(Beyond(b, k)).text /\ Decode(b).left = Decode(Beyond(b, k)).left
  BY <1>1
<1> QED BY <1>1, <1>2, <1>3, <1>4, <1>5 DEF k

LEMMA SoundJoined ==
  ASSUME NEW a \in Seq(Bytes), NEW b \in Seq(Bytes)
  PROVE  /\ Sound(a \o b) <=> Sound(a) /\ Sound(Decode(a).left \o b)
         /\ Whole(a \o b) <=> Sound(a) /\ Whole(Decode(a).left \o b)
<1> DEFINE c == Decode(a).left \o b
           s == Decode(a).text
           t == Decode(c).text
<1>1. Decode(a \o b).text = s \o t /\ Decode(a \o b).left = Decode(c).left
  BY DecodeJoined
<1>2. c \in Seq(Bytes) /\ s \in Seq(Characters) /\ Len(s) \in Nat
  <2>1. Decode(a).left \in Seq(Bytes) /\ s \in Seq(Characters) /\ Len(s) \in Nat
    BY DecodedTypes
  <2> QED BY <2>1
<1>3. t \in Seq(Characters) /\ Len(t) \in Nat
  <2> HIDE DEF c
  <2> QED BY <1>2, DecodedTypes
<1>4. /\ Len(s \o t) = Len(s) + Len(t)
      /\ \A i \in 1 .. Len(s) : (s \o t)[i] = s[i]
      /\ \A i \in 1 .. Len(t) : (s \o t)[Len(s) + i] = t[i]
  <2> HIDE DEF s, t
  <2> QED BY <1>2, <1>3, Concatenated
<1> DEFINE v == s \o t
<1>5. (\A i \in 1 .. Len(v) : v[i] # Broken)
        <=> (\A i \in 1 .. Len(s) : s[i] # Broken) /\ (\A i \in 1 .. Len(t) : t[i] # Broken)
  <2> HIDE DEF s, t
  <2>1. Len(v) = Len(s) + Len(t) /\ (\A i \in 1 .. Len(s) : v[i] = s[i]) /\ \A i \in 1 .. Len(t) : v[Len(s) + i] = t[i]
    BY <1>4
  <2> HIDE DEF v
  <2>2. ASSUME \A i \in 1 .. Len(v) : v[i] # Broken
        PROVE  (\A i \in 1 .. Len(s) : s[i] # Broken) /\ (\A i \in 1 .. Len(t) : t[i] # Broken)
    <3>1. \A i \in 1 .. Len(s) : i \in 1 .. Len(v)
      BY <2>1, <1>2, <1>3
    <3>2. \A i \in 1 .. Len(t) : Len(s) + i \in 1 .. Len(v)
      BY <2>1, <1>2, <1>3
    <3> QED BY <3>1, <3>2, <2>1, <2>2
  <2>3. ASSUME \A i \in 1 .. Len(s) : s[i] # Broken, \A i \in 1 .. Len(t) : t[i] # Broken,
               NEW i \in 1 .. Len(v)
        PROVE  v[i] # Broken
    <3>1. CASE i =< Len(s)
      BY <3>1, <2>1, <2>3, <1>2
    <3>2. CASE ~(i =< Len(s))
      <4>1. i - Len(s) \in 1 .. Len(t) /\ i = Len(s) + (i - Len(s))
        BY <3>2, <2>1, <1>2, <1>3
      <4> QED BY <4>1, <2>1, <2>3
    <3> QED BY <3>1, <3>2
  <2> QED BY <2>2, <2>3
<1>6. Sound(a \o b) <=> Sound(a) /\ Sound(c)
  BY <1>1, <1>5 DEF Sound
<1>7. Whole(a \o b) <=> Sound(a) /\ Whole(c)
  BY <1>1, <1>6 DEF Whole
<1> QED BY <1>6, <1>7

(* What the first character of sound bytes is.                             *)
LEMMA SoundFirst ==
  ASSUME NEW b \in Seq(Bytes), b # <<>>, ~Incomplete(b, 1), CharAt(b, 1) # Broken
  PROVE  \/ b[1] \in Letters /\ Taken(b, 1) = 0 /\ b[1] # "M" /\ b[1] # "C"
         \/ b[1] = "M" /\ Taken(b, 1) = 2 /\ 3 =< Len(b) /\ b[2] = "C" /\ b[3] = "C"
<1>1. Len(b) \in Nat \ {0} /\ 1 \in 1 .. Len(b) /\ b[1] \in Bytes
  OBVIOUS
<1>2. CASE b[1] \in Letters
  <2>1. b[1] # "M" /\ b[1] # "C"
    BY <1>2, StreamConstants
  <2> QED BY <2>1, <1>2 DEF Taken
<1>3. CASE b[1] \notin Letters
  <2>1. Taken(b, 1) = 2
    BY <1>3 DEF CharAt
  <2>2. b[1] = "M" /\ Continuations(b, 1) = 2
    BY <2>1 DEF Taken
  <2>3. 1 + 2 =< Len(b) /\ b[1 + 1] = "C" /\ b[1 + 2] = "C"
    BY <1>1, <2>2, ContinuationsAre
  <2>4. 1 + 1 = 2 /\ 1 + 2 = 3
    OBVIOUS
  <2>5. 3 =< Len(b) /\ b[2] = "C" /\ b[3] = "C"
    BY <2>3, <2>4
  <2> QED BY <2>1, <2>2, <2>5
<1> QED BY <1>2, <1>3

LEMMA SoundStep ==
  ASSUME NEW b \in Seq(Bytes), b # <<>>, ~Incomplete(b, 1), Sound(b)
  PROVE  CharAt(b, 1) # Broken /\ Sound(Beyond(b, Taken(b, 1) + 1))
<1> DEFINE d == Decode(Beyond(b, Taken(b, 1) + 1)).text
           c == CharAt(b, 1)
           t == Decode(b).text
<1>1. t = <<c>> \o d /\ d \in Seq(Characters) /\ Len(d) \in Nat
  BY DecodeStep, DecodedTypes
<1>2. c \in Characters
  <2>1. 1 \in 1 .. Len(b)
    OBVIOUS
  <2> QED BY <2>1, TakenIs
<1> HIDE DEF c, d, t
<1>3. Len(t) = 1 + Len(d) /\ t[1] = c /\ \A i \in 1 .. Len(d) : t[1 + i] = d[i]
  BY <1>1, <1>2
<1>4. \A i \in 1 .. Len(t) : t[i] # Broken
  BY DEF Sound, t
<1>5. c # Broken
  <2>1. 1 \in 1 .. Len(t)
    BY <1>1, <1>3
  <2> QED BY <2>1, <1>3, <1>4
<1>6. \A i \in 1 .. Len(d) : d[i] # Broken
  <2> TAKE i \in 1 .. Len(d)
  <2>1. 1 + i \in 1 .. Len(t)
    BY <1>1, <1>3
  <2> QED BY <2>1, <1>3, <1>4
<1> QED BY <1>5, <1>6 DEF Sound, c, d

(* What a decoding leaves is the lead of a character and one continuation  *)
(* at most.                                                                *)
LEMMA LeftIs ==
  ASSUME NEW b \in Seq(Bytes)
  PROVE  LET l == Decode(b).left IN
           \/ l = <<>>
           \/ Len(l) = 1 /\ l[1] = "M"
           \/ Len(l) = 2 /\ l[1] = "M" /\ l[2] = "C"
<1> DEFINE Short(l) == \/ l = <<>>
                       \/ Len(l) = 1 /\ l[1] = "M"
                       \/ Len(l) = 2 /\ l[1] = "M" /\ l[2] = "C"
           P == {x \in Seq(Bytes) : Short(Decode(x).left)}
<1>1. ASSUME NEW x \in Seq(Bytes), \A y \in Seq(Bytes) : Len(y) < Len(x) => y \in P
      PROVE  Short(Decode(x).left)
  <2>1. CASE x = <<>>
    BY <2>1, EmptyIsWhole
  <2>2. CASE x # <<>> /\ Incomplete(x, 1)
    <3>1. Decode(x) = [text |-> <<>>, left |-> x]
      BY <2>2, DecodeIs
    <3>2. Decode(x).left = x
      BY <3>1
    <3> DEFINE n == Continuations(x, 1)
    <3>3. x[1] = "M" /\ n < 2 /\ 1 + n = Len(x)
      BY <2>2 DEF Incomplete
    <3>4. 1 \in 1 .. Len(x) /\ Len(x) \in Nat
      BY <2>2
    <3>5. n \in 0 .. 2 /\ (n = 0 <=> ~(1 + 1 =< Len(x) /\ x[1 + 1] = "C"))
      BY <3>4, ContinuationsAre
    <3> HIDE DEF n
    <3>6. CASE n = 0
      BY <3>2, <3>3, <3>6
    <3>7. CASE n = 1
      <4>1. x[1 + 1] = "C" /\ 1 + 1 = 2
        BY <3>5, <3>7
      <4>2. Len(x) = 2
        BY <3>3, <3>7
      <4> QED BY <3>2, <3>3, <4>1, <4>2
    <3> QED BY <3>3, <3>5, <3>6, <3>7
  <2>3. CASE x # <<>> /\ ~Incomplete(x, 1)
    <3> DEFINE y == Beyond(x, Taken(x, 1) + 1)
    <3>1. y \in Seq(Bytes) /\ Len(y) < Len(x) /\ Decode(x).left = Decode(y).left
      <4> DEFINE k == Taken(x, 1) + 1
      <4>1. Len(x) \in Nat /\ k \in 1 .. Len(x) /\ y \in Seq(Bytes) /\ Len(y) = Len(x) - k
            /\ Decode(x).left = Decode(y).left
        BY <2>3, DecodeStep
      <4> HIDE DEF y, k
      <4> QED BY <4>1
    <3> HIDE DEF y, Short
    <3> QED BY <3>1, <1>1
  <2> QED BY <2>1, <2>2, <2>3
<1>2. \A x \in Seq(Bytes) : x \in P
  <2>1. \A x \in Seq(Bytes) : (\A y \in Seq(Bytes) : Len(y) < Len(x) => y \in P) => x \in P
    BY <1>1
  <2> HIDE DEF P
  <2> QED BY <2>1, ShorterFirst
<1> HIDE DEF Short
<1>3. Short(Decode(b).left)
  BY <1>2
<1> QED BY <1>3 DEF Short

(* Sound bytes are whole ones and what is left of them.                    *)
LEMMA WholeAndLeft ==
  ASSUME NEW b \in Seq(Bytes), Sound(b)
  PROVE  \E q \in Seq(Bytes) : b = q \o Decode(b).left /\ Whole(q)
<1> DEFINE Splits(x) == \E q \in Seq(Bytes) : x = q \o Decode(x).left /\ Whole(q)
           P == {x \in Seq(Bytes) : Sound(x) => Splits(x)}
<1>1. ASSUME NEW x \in Seq(Bytes), \A y \in Seq(Bytes) : Len(y) < Len(x) => y \in P, Sound(x)
      PROVE  Splits(x)
  <2>0. <<>> \in Seq(Bytes) /\ <<>> \o x = x /\ <<>> \o <<>> = <<>>
    OBVIOUS
  <2>1. CASE x = <<>>
    BY <2>0, <2>1, EmptyIsWhole
  <2>2. CASE x # <<>> /\ Incomplete(x, 1)
    <3>1. Decode(x) = [text |-> <<>>, left |-> x]
      BY <2>2, DecodeIs
    <3>2. Decode(x).left = x
      BY <3>1
    <3> QED BY <3>2, <2>0, EmptyIsWhole
  <2>3. CASE x # <<>> /\ ~Incomplete(x, 1)
    <3> DEFINE k == Taken(x, 1) + 1
               y == Beyond(x, k)
               a == SubSeq(x, 1, k)
    <3>1. k \in 1 .. Len(x) /\ Len(x) \in Nat \ {0} /\ y \in Seq(Bytes) /\ Len(y) = Len(x) - k
          /\ Decode(x).left = Decode(y).left /\ CharAt(x, 1) # Broken /\ Sound(y)
      BY <2>3, <1>1, DecodeStep, SoundStep
    <3>2. \/ k = 1 /\ x[1] # "M"
          \/ k = 3 /\ x[1] = "M" /\ x[2] = "C" /\ x[3] = "C"
      BY <2>3, <3>1, SoundFirst
    <3> HIDE DEF k
    <3>3. /\ a \in Seq(Bytes) /\ Len(a) = k /\ (\A i \in 1 .. k : a[i] = x[i]) /\ a \o y = x
      <4>1. k \in 0 .. Len(x)
        BY <3>1
      <4> QED BY <4>1, SplitAt
    <3> HIDE DEF y, a
    <3>4. PICK q \in Seq(Bytes) : y = q \o Decode(y).left /\ Whole(q)
      <4>1. Len(y) < Len(x)
        BY <3>1
      <4>2. Splits(y)
        BY <4>1, <3>1, <1>1
      <4> QED BY <4>2
    <3>5. a # <<>> /\ ~Incomplete(a, 1)
      <4>1. CASE k = 1 /\ x[1] # "M"
        <5>1. a[1] # "M"
          BY <3>3, <4>1
        <5>2. a # <<>>
          <6>1. Len(a) = 1
            BY <3>3, <4>1
          <6>2. a = <<>> => Len(a) = 0
            BY ONLY Len(<<>>) = 0
          <6> QED BY ONLY <6>1, <6>2
        <5> QED BY <5>1, <5>2 DEF Incomplete
      <4>2. CASE k = 3 /\ x[1] = "M" /\ x[2] = "C" /\ x[3] = "C"
        <5>1. Len(a) = 3 /\ a[1] = "M" /\ a[2] = "C" /\ a[3] = "C"
          BY <3>3, <4>2
        <5>2. 1 + 2 =< Len(a) /\ a[1 + 1] = "C" /\ a[1 + 2] = "C"
          BY <5>1
        <5>3. Continuations(a, 1) = 2
          BY <5>2 DEF Continuations
        <5>4. a # <<>> /\ ~(Continuations(a, 1) < 2)
          <6>1. Len(a) = 3
            BY <5>1
          <6>4. a = <<>> => Len(a) = 0
            BY ONLY Len(<<>>) = 0
          <6>2. a # <<>>
            BY ONLY <6>1, <6>4
          <6>3. ~(Continuations(a, 1) < 2)
            BY ONLY <5>3
          <6> QED BY <6>2, <6>3
        <5> QED BY <5>4 DEF Incomplete
      <4> QED BY <3>2, <4>1, <4>2
    <3>6. Whole(a)
      <4> DEFINE j == Taken(a, 1) + 1
      <4>1. Taken(a, 1) + 1 = k
        <5>1. x = a \o y /\ Taken(a \o y, 1) = Taken(a, 1)
          BY <3>1, <3>3, <3>5, CharacterStands
        <5> QED BY <5>1 DEF k
      <4>2. CharAt(a, 1) = CharAt(x, 1)
        <5>1. x = a \o y /\ CharAt(a \o y, 1) = CharAt(a, 1)
          BY <3>1, <3>3, <3>5, CharacterStands
        <5> QED BY <5>1
      <4>3. Beyond(a, k) = <<>>
        BY <3>3, DropNothing
      <4>4. Decode(a).text = <<CharAt(a, 1)>> \o <<>> /\ Decode(a).left = <<>>
        <5>1. /\ Decode(a).text = <<CharAt(a, 1)>> \o Decode(Beyond(a, Taken(a, 1) + 1)).text
              /\ Decode(a).left = Decode(Beyond(a, Taken(a, 1) + 1)).left
          BY <3>3, <3>5, DecodeStep
        <5> QED BY <5>1, <4>1, <4>3, EmptyIsWhole
      <4>5. CharAt(a, 1) \in Characters
        <5>1. 1 \in 1 .. Len(a)
          BY <3>1, <3>3
        <5> QED BY <5>1, <3>3, TakenIs
      <4> DEFINE c == CharAt(a, 1)
                 t == Decode(a).text
      <4>6. t = <<c>> \o <<>> /\ c # Broken
        BY <4>2, <4>4, <3>1
      <4> HIDE DEF c, t
      <4>7. \A i \in 1 .. Len(t) : t[i] # Broken
        BY <4>6
      <4> QED BY <4>4, <4>7 DEF Whole, Sound, t
    <3>7. Whole(a \o q)
      <4>1. <<>> \o q = q
        OBVIOUS
      <4>2. Sound(a) /\ Decode(a).left = <<>>
        BY <3>6 DEF Whole
      <4>3. a \in Seq(Bytes)
        BY <3>3
      <4>4. Whole(a \o q) <=> Sound(a) /\ Whole(Decode(a).left \o q)
        BY ONLY <4>3, q \in Seq(Bytes), SoundJoined
      <4>5. Decode(a).left \o q = q
        BY ONLY <4>1, <4>2
      <4> QED BY ONLY <4>2, <4>4, <4>5, <3>4
    <3>8. x = (a \o q) \o Decode(x).left /\ a \o q \in Seq(Bytes)
      <4> DEFINE l == Decode(y).left
      <4>1. l \in Seq(Bytes)
        BY <3>1, DecodedTypes
      <4>2. y = q \o l /\ Decode(x).left = l
        BY <3>1, <3>4
      <4> HIDE DEF l
      <4>3. a \o (q \o l) = (a \o q) \o l /\ a \o q \in Seq(Bytes)
        <5>1. a \in Seq(Bytes) /\ q \in Seq(Bytes)
          BY <3>3
        <5> QED BY ONLY <4>1, <5>1
      <4> QED BY <4>2, <4>3, <3>3
    <3> QED BY <3>7, <3>8
  <2> QED BY <2>1, <2>2, <2>3
<1>2. \A x \in Seq(Bytes) : x \in P
  <2>1. \A x \in Seq(Bytes) : (\A y \in Seq(Bytes) : Len(y) < Len(x) => y \in P) => x \in P
    BY <1>1
  <2> HIDE DEF P
  <2> QED BY <2>1, ShorterFirst
<1> QED BY <1>2

-----------------------------------------------------------------------------
(* What is kept of the bytes read.                                         *)
LEMMA LimitsAre ==
  HeadLimit \in Nat /\ TailLimit \in Nat /\ HeadLimit + TailLimit = CaptureLimit
<1>1. CaptureLimit \in Nat
  BY StreamConstants
<1>2. CaptureLimit \div 4 \in Nat /\ CaptureLimit \div 4 =< CaptureLimit
  BY <1>1
<1> QED BY <1>1, <1>2 DEF HeadLimit, TailLimit

LEMMA SmallerIs ==
  ASSUME NEW a \in Nat, NEW b \in Nat
  PROVE  /\ Smaller(a, b) \in Nat /\ Smaller(a, b) =< a /\ Smaller(a, b) =< b
         /\ a < b => Smaller(a, b) = a
         /\ ~(a < b) => Smaller(a, b) = b
  BY DEF Smaller

LEMMA EndingIs ==
  ASSUME NEW T, NEW s \in Seq(T), NEW n \in Nat
  PROVE  \E k \in 0 .. Len(s) : /\ Ending(s, n) = Beyond(s, k)
                                /\ n < Len(s) => k = Len(s) - n
                                /\ ~(n < Len(s)) => k = 0
<1> DEFINE k == Len(s) - (IF n < Len(s) THEN n ELSE Len(s))
<1>1. Len(s) \in Nat
  OBVIOUS
<1>2. k \in 0 .. Len(s) /\ (n < Len(s) => k = Len(s) - n) /\ (~(n < Len(s)) => k = 0)
  BY <1>1
<1>3. Ending(s, n) = Beyond(s, k)
  BY DEF Ending, Beyond
<1> HIDE DEF k
<1> QED BY <1>2, <1>3

(* Cutting twice is cutting once.                                          *)
LEMMA EndingJoined ==
  ASSUME NEW T, NEW s \in Seq(T), NEW t \in Seq(T), NEW n \in Nat
  PROVE  Ending(Ending(s, n) \o t, n) = Ending(s \o t, n)
<1> DEFINE a == s \o t
<1>0. Len(s) \in Nat /\ Len(t) \in Nat
  OBVIOUS
<1>1. PICK k \in 0 .. Len(s) : /\ Ending(s, n) = Beyond(s, k)
                               /\ n < Len(s) => k = Len(s) - n
                               /\ ~(n < Len(s)) => k = 0
  BY EndingIs
<1>2. a \in Seq(T) /\ Len(a) = Len(s) + Len(t)
  BY Concatenated
<1>3. Ending(s, n) \o t = Beyond(a, k)
  BY <1>1, DropJoined
<1> HIDE DEF a
<1>4. k \in 0 .. Len(a)
  BY <1>0, <1>1, <1>2
<1>5. Beyond(a, k) \in Seq(T) /\ Len(Beyond(a, k)) = Len(a) - k
  BY <1>2, <1>4, Dropped
<1> DEFINE b == Beyond(a, k)
<1>6. PICK j \in 0 .. Len(b) : /\ Ending(b, n) = Beyond(b, j)
                               /\ n < Len(b) => j = Len(b) - n
                               /\ ~(n < Len(b)) => j = 0
  <2> HIDE DEF b
  <2>1. b \in Seq(T)
    BY <1>5 DEF b
  <2> QED BY <2>1, EndingIs
<1>7. PICK m \in 0 .. Len(a) : /\ Ending(a, n) = Beyond(a, m)
                               /\ n < Len(a) => m = Len(a) - n
                               /\ ~(n < Len(a)) => m = 0
  BY <1>2, EndingIs
<1>8. j \in 0 .. Len(a) - k
  BY <1>5, <1>6
<1>9. Beyond(b, j) = Beyond(a, k + j)
  BY <1>2, <1>4, <1>8, DropTwice
<1>10. Len(b) = Len(a) - k
  BY <1>5
<1> HIDE DEF b
<1>11. k + j = m
  <2>1. CASE n < Len(a)
    <3>1. m = Len(a) - n
      BY <1>7, <2>1
    <3>2. k =< Len(a) - n
      BY <1>0, <1>1, <1>2, <2>1
    <3>3. CASE n < Len(b)
      BY <3>1, <3>3, <1>0, <1>1, <1>2, <1>6, <1>10
    <3>4. CASE ~(n < Len(b))
      <4>1. Len(b) \in Nat /\ k \in Nat /\ Len(a) \in Nat /\ Len(b) =< n /\ j = 0
        BY <3>4, <1>0, <1>2, <1>5, <1>6, <1>10
      <4>2. Len(a) - k =< n
        BY <4>1, <1>10
      <4> QED BY ONLY <4>1, <4>2, <3>1, <3>2, n \in Nat
    <3> QED BY <3>3, <3>4
  <2>2. CASE ~(n < Len(a))
    <3>1. m = 0 /\ k = 0
      BY <1>0, <1>1, <1>2, <1>7, <2>2
    <3>2. ~(n < Len(b))
      BY <3>1, <1>0, <1>2, <1>10, <2>2
    <3> QED BY <3>1, <3>2, <1>6
  <2> QED BY <2>1, <2>2
<1>12. Ending(b, n) = Ending(a, n)
  BY <1>6, <1>7, <1>9, <1>11
<1> QED BY <1>3, <1>12 DEF a, b

(* The capture of the bytes read so far.                                   *)
Keeps(k, s) ==
  /\ k \in [head : Seq(Bytes), tail : Seq(Bytes), total : Nat]
  /\ k.total = Len(s)
  /\ k.head = SubSeq(s, 1, Smaller(HeadLimit, Len(s)))
  /\ k.tail = Ending(SubSeq(s, Len(k.head) + 1, Len(s)), TailLimit)

LEMMA NothingKept ==
  Keeps([head |-> <<>>, tail |-> <<>>, total |-> 0], <<>>)
<1> DEFINE e == <<>>
<1>1. e \in Seq(Bytes) /\ Len(e) = 0 /\ SubSeq(e, 1, 0) = e
  OBVIOUS
<1>2. Smaller(HeadLimit, 0) = 0
  BY LimitsAre, SmallerIs
<1>3. Ending(e, TailLimit) = e
  <2>1. PICK k \in 0 .. Len(e) : Ending(e, TailLimit) = Beyond(e, k)
    <3> HIDE DEF e
    <3> QED BY <1>1, LimitsAre, EndingIs
  <2>2. k = 0
    BY <1>1, <2>1
  <2> HIDE DEF e
  <2> QED BY <1>1, <2>1, <2>2, DropNothing
<1>4. SubSeq(e, Len(e) + 1, Len(e)) = e
  <2>1. Beyond(e, 0) = e
    <3> HIDE DEF e
    <3> QED BY <1>1, DropNothing
  <2> HIDE DEF e
  <2> QED BY <1>1, <2>1 DEF Beyond
<1> HIDE DEF e
<1>5. Keeps([head |-> e, tail |-> e, total |-> 0], e)
  BY <1>1, <1>2, <1>3, <1>4 DEF Keeps
<1> QED BY <1>5 DEF e

LEMMA PushKeeps ==
  ASSUME NEW s \in Seq(Bytes), NEW b \in Seq(Bytes), NEW k, Keeps(k, s)
  PROVE  Keeps(Push(k, b), s \o b)
<1> DEFINE h == Smaller(HeadLimit, Len(s))
           take == Smaller(Len(b), HeadLimit - Len(k.head))
           a == s \o b
           first == k.head \o SubSeq(b, 1, take)
           rest == SubSeq(b, take + 1, Len(b))
           tail == Ending(k.tail \o rest, TailLimit)
<1>1. /\ k \in [head : Seq(Bytes), tail : Seq(Bytes), total : Nat] /\ k.total = Len(s)
      /\ k.head = SubSeq(s, 1, h)
      /\ k.tail = Ending(Beyond(s, Len(k.head)), TailLimit)
  BY DEF Keeps, Beyond
<1>2. Len(s) \in Nat /\ Len(b) \in Nat /\ HeadLimit \in Nat /\ TailLimit \in Nat
  BY LimitsAre
<1>3. h \in 0 .. Len(s) /\ h =< HeadLimit /\ (h = HeadLimit \/ h = Len(s))
  <2>1. h = IF HeadLimit < Len(s) THEN HeadLimit ELSE Len(s)
    BY DEF Smaller
  <2> HIDE DEF h
  <2> QED BY <1>2, <2>1
<1>4. k.head \in Seq(Bytes) /\ Len(k.head) = h /\ \A i \in 1 .. h : k.head[i] = s[i]
  <2> HIDE DEF h
  <2> QED BY <1>1, <1>3, SplitAt
<1>5. take \in 0 .. Len(b) /\ take =< HeadLimit - h /\ (take = Len(b) \/ take = HeadLimit - h)
  <2>1. HeadLimit - Len(k.head) \in Nat
    <3> HIDE DEF h
    <3> QED BY <1>2, <1>3, <1>4
  <2>2. /\ take \in Nat /\ take =< Len(b) /\ take =< HeadLimit - Len(k.head)
        /\ take = Len(b) \/ take = HeadLimit - Len(k.head)
    BY <1>2, <2>1, SmallerIs
  <2> HIDE DEF take, h
  <2> QED BY <1>4, <2>2, <1>2
<1>6. take # 0 => h = Len(s)
  <2> HIDE DEF take, h
  <2> QED BY <1>2, <1>3, <1>5
<1>7. /\ a \in Seq(Bytes) /\ Len(a) = Len(s) + Len(b)
      /\ \A i \in 1 .. Len(s) : a[i] = s[i]
      /\ \A i \in 1 .. Len(b) : a[Len(s) + i] = b[i]
  BY Concatenated
<1>8. Smaller(HeadLimit, Len(a)) = h + take
  <2>1. Smaller(HeadLimit, Len(a)) = IF HeadLimit < Len(a) THEN HeadLimit ELSE Len(a)
    BY DEF Smaller
  <2> HIDE DEF h, take, a
  <2>2. h + take \in Nat /\ h + take =< HeadLimit /\ h + take =< Len(a) /\ Len(a) \in Nat
    BY <1>2, <1>3, <1>5, <1>7
  <2>3. h + take = HeadLimit \/ h + take = Len(a)
    <3>1. CASE h = HeadLimit
      BY <3>1, <1>2, <1>5
    <3>2. CASE h = Len(s)
      <4>1. CASE take = Len(b)
        BY <3>2, <4>1, <1>7
      <4>2. CASE take = HeadLimit - h
        <5>1. h \in Nat /\ HeadLimit \in Nat
          BY <3>2, <1>2
        <5>2. h + (HeadLimit - h) = HeadLimit
          BY ONLY <5>1
        <5> QED BY <4>2, <5>2
      <4> QED BY <1>5, <4>1, <4>2
    <3> QED BY <1>3, <3>1, <3>2
  <2> DEFINE m == h + take
  <2>4. m \in Nat /\ m =< HeadLimit /\ m =< Len(a) /\ Len(a) \in Nat /\ (m = HeadLimit \/ m = Len(a))
    BY <2>2, <2>3
  <2> HIDE DEF m
  <2>5. Smaller(HeadLimit, Len(a)) = m
    BY ONLY <1>2, <2>1, <2>4
  <2> QED BY <2>5 DEF m
<1> HIDE DEF a, h, take
<1>9. /\ SubSeq(b, 1, take) \in Seq(Bytes) /\ Len(SubSeq(b, 1, take)) = take
      /\ \A i \in 1 .. take : SubSeq(b, 1, take)[i] = b[i]
  BY <1>5, SplitAt
<1> DEFINE c == SubSeq(b, 1, take)
           d == k.head
<1>10. /\ first \in Seq(Bytes) /\ Len(first) = h + take
       /\ \A i \in 1 .. h : first[i] = s[i]
       /\ \A i \in 1 .. take : first[h + i] = b[i]
  <2>1. c \in Seq(Bytes) /\ Len(c) = take /\ (\A i \in 1 .. take : c[i] = b[i]) /\ d \in Seq(Bytes) /\ Len(d) = h
        /\ \A i \in 1 .. h : d[i] = s[i]
    BY <1>4, <1>9
  <2> HIDE DEF c, d
  <2>2. /\ d \o c \in Seq(Bytes) /\ Len(d \o c) = h + take
        /\ \A i \in 1 .. h : (d \o c)[i] = d[i]
        /\ \A i \in 1 .. take : (d \o c)[h + i] = c[i]
    <3>1. /\ d \o c \in Seq(Bytes) /\ Len(d \o c) = Len(d) + Len(c)
          /\ \A i \in 1 .. Len(d) : (d \o c)[i] = d[i]
          /\ \A i \in 1 .. Len(c) : (d \o c)[Len(d) + i] = c[i]
      <4>1. d \in Seq(Bytes) /\ c \in Seq(Bytes)
        BY <2>1
      <4> QED BY ONLY <4>1, Concatenated
    <3> QED BY <2>1, <3>1
  <2>3. first = d \o c
    BY DEF c, d
  <2> HIDE DEF first
  <2> QED BY <2>1, <2>2, <2>3
<1> HIDE DEF c, d, first
<1>11. h + take \in 0 .. Len(a)
  BY <1>2, <1>3, <1>5, <1>7
<1>12. first = SubSeq(a, 1, h + take)
  <2> DEFINE e == SubSeq(a, 1, h + take)
  <2>1. e \in Seq(Bytes) /\ Len(e) = h + take /\ \A i \in 1 .. h + take : e[i] = a[i]
    BY <1>7, <1>11, SplitAt
  <2> HIDE DEF e
  <2>2. ASSUME NEW i \in 1 .. h + take PROVE first[i] = e[i]
    <3>1. CASE i =< h
      <4>1. i \in 1 .. h /\ i \in 1 .. Len(s)
        BY <3>1, <1>2, <1>3, <1>5
      <4> QED BY <4>1, <1>7, <1>10, <2>1
    <3>2. CASE ~(i =< h)
      <4>1. i - h \in 1 .. take /\ i = h + (i - h) /\ take # 0 /\ i - h \in 1 .. Len(b)
        BY <3>2, <1>2, <1>3, <1>5
      <4>2. h = Len(s)
        BY <4>1, <1>6
      <4> QED BY <4>1, <4>2, <1>7, <1>10, <2>1
    <3> QED BY <3>1, <3>2
  <2>3. first = e
    BY <1>10, <2>1, <2>2, SameSequence
  <2> QED BY <2>3 DEF e
<1>13. rest = Beyond(b, take) /\ rest \in Seq(Bytes) /\ Beyond(s, h) \in Seq(Bytes)
  BY <1>3, <1>5, Dropped DEF Beyond
<1> HIDE DEF rest
<1>14. Beyond(a, h + take) = Beyond(s, h) \o rest
  <2>1. Beyond(a, h) = Beyond(s, h) \o b
    BY <1>3, DropJoined DEF a
  <2>2. h \in 0 .. Len(a) /\ take \in 0 .. Len(a) - h
    BY <1>2, <1>3, <1>5, <1>7, <1>11
  <2>3. Beyond(a, h + take) = Beyond(Beyond(a, h), take)
    BY <1>7, <2>2, DropTwice
  <2>4. CASE take = 0
    <3>1. rest = b
      BY <1>13, <2>4, DropNothing
    <3>2. Beyond(Beyond(a, h), 0) = Beyond(a, h)
      <4>1. Beyond(a, h) \in Seq(Bytes)
        BY <1>7, <2>2, Dropped
      <4> QED BY <4>1, DropNothing
    <3> QED BY <2>1, <2>3, <2>4, <3>1, <3>2
  <2>5. CASE take # 0
    <3>1. Beyond(s, h) = <<>>
      BY <1>6, <2>5, DropNothing
    <3>2. <<>> \o b = b /\ <<>> \o rest = rest
      BY <1>13
    <3> QED BY <1>13, <2>1, <2>3, <3>1, <3>2
  <2> QED BY <2>4, <2>5
<1>15. tail = Ending(Beyond(a, h + take), TailLimit)
  <2> DEFINE r == Beyond(s, h)
  <2>1. k.tail = Ending(r, TailLimit) /\ r \in Seq(Bytes)
    BY <1>1, <1>4, <1>13
  <2> HIDE DEF r
  <2>2. Ending(Ending(r, TailLimit) \o rest, TailLimit) = Ending(r \o rest, TailLimit)
    BY <1>2, <1>13, <2>1, EndingJoined
  <2> QED BY <2>1, <2>2, <1>14 DEF r
<1>16. tail \in Seq(Bytes)
  <2> DEFINE r == Beyond(a, h + take)
  <2>1. r \in Seq(Bytes)
    BY <1>7, <1>11, Dropped
  <2> HIDE DEF r
  <2>2. PICK j \in 0 .. Len(r) : Ending(r, TailLimit) = Beyond(r, j)
    BY <1>2, <2>1, EndingIs
  <2>3. Beyond(r, j) \in Seq(Bytes)
    BY <2>1, Dropped
  <2> QED BY <1>15, <2>2, <2>3 DEF r
<1>17. Push(k, b) = [head |-> first, tail |-> tail, total |-> k.total + Len(b)]
  BY DEF Push, first, take, rest
<1> HIDE DEF tail
<1> DEFINE p == [head |-> first, tail |-> tail, total |-> k.total + Len(b)]
<1>18. p \in [head : Seq(Bytes), tail : Seq(Bytes), total : Nat]
       /\ p.head = first /\ p.tail = tail /\ p.total = Len(a)
  BY <1>1, <1>2, <1>7, <1>10, <1>16
<1> HIDE DEF p
<1>19. Keeps(p, a)
  BY <1>8, <1>10, <1>12, <1>15, <1>18 DEF Keeps, Beyond
<1> QED BY <1>17, <1>19 DEF a, p

(* Text without broken characters, and what Lossy makes of whole bytes.    *)
NoBroken(t) == \A i \in 1 .. Len(t) : t[i] # Broken

LEMMA LossyIs ==
  ASSUME NEW b \in Seq(Bytes)
  PROVE  /\ Lossy(b) \in Seq(Characters)
         /\ NoBroken(Lossy(b)) <=> Whole(b)
<1> DEFINE t == Decode(b).text
           l == Decode(b).left
           f == Flush(l)
           y == t \o f
<1>1. t \in Seq(Characters) /\ Len(t) \in Nat
  BY DecodedTypes
<1>2. Lossy(b) = y
  BY DEF Lossy
<1>3. Broken \in Characters
  BY DEF Characters
<1>4. CASE l = <<>>
  <2>1. f = <<>>
    BY <1>4 DEF Flush
  <2> HIDE DEF t, f
  <2>2. y = t
    BY <1>1, <2>1
  <2>3. NoBroken(t) <=> Whole(b)
    BY <1>4 DEF NoBroken, Whole, Sound, t
  <2> HIDE DEF y
  <2> QED BY <1>1, <1>2, <2>2, <2>3
<1>5. CASE l # <<>>
  <2>1. f = <<Broken>>
    BY <1>5 DEF Flush
  <2>2. ~Whole(b)
    BY <1>5 DEF Whole
  <2> HIDE DEF t, f
  <2>3. y \in Seq(Characters) /\ Len(y) = Len(t) + 1 /\ y[Len(t) + 1] = Broken
    BY <1>1, <1>3, <2>1
  <2> HIDE DEF y
  <2>4. ~NoBroken(y)
    <3>1. Len(t) + 1 \in 1 .. Len(y)
      BY <1>1, <2>3
    <3> QED BY <3>1, <2>3 DEF NoBroken
  <2> QED BY <1>2, <2>2, <2>3, <2>4
<1> QED BY <1>4, <1>5

LEMMA BrokenLater ==
  ASSUME NEW T, NEW t \in Seq(T), NoBroken(t), NEW k \in 0 .. Len(t)
  PROVE  NoBroken(Beyond(t, k))
<1>1. Len(t) \in Nat
  OBVIOUS
<1>2. Len(Beyond(t, k)) = Len(t) - k /\ \A i \in 1 .. Len(t) - k : Beyond(t, k)[i] = t[k + i]
  BY Dropped
<1>3. \A i \in 1 .. Len(t) - k : k + i \in 1 .. Len(t)
  BY <1>1
<1> QED BY <1>2, <1>3 DEF NoBroken

(* The longest end of a text that fits is one of its ends.                 *)
LEMMA FitIs ==
  ASSUME NEW text \in Seq(Characters)
  PROVE  /\ \E k \in 0 .. Len(text) : FitToLimit(text) = Beyond(text, k)
         /\ SizeOf(FitToLimit(text)) =< CaptureLimit
<1> DEFINE Fits(t) == SizeOf(t) =< CaptureLimit
           S == {k \in 0 .. Len(text) : Fits(Beyond(text, k))}
           Ends == {SubSeq(text, i, Len(text)) : i \in 1 .. Len(text) + 1}
           Best(t) == /\ SizeOf(t) =< CaptureLimit
                      /\ \A i \in 1 .. Len(text) : LET u == SubSeq(text, i, Len(text)) IN
                           SizeOf(u) =< CaptureLimit => Len(u) =< Len(t)
<1>1. Len(text) \in Nat /\ CaptureLimit \in Nat
  BY StreamConstants
<1>2. Len(text) \in S
  <2>1. Beyond(text, Len(text)) = <<>>
    BY DropNothing
  <2>2. SizeOf(<<>>) = 0
    <3>1. {i \in DOMAIN <<>> : <<>>[i] \in {Wide, Broken}} = {}
      OBVIOUS
    <3>2. Len(<<>>) = 0
      OBVIOUS
    <3>3. Cardinality({}) = 0
      BY FS_EmptySet
    <3> QED BY <3>1, <3>2, <3>3 DEF SizeOf
  <2>3. Fits(Beyond(text, Len(text)))
    BY <2>1, <2>2, <1>1
  <2> HIDE DEF Fits
  <2> QED BY <2>3, <1>1
<1>3. PICK k \in S : \A j \in S : k =< j
  <2>1. S \subseteq Nat /\ S # {}
    <3> HIDE DEF Fits
    <3>1. S \subseteq Nat
      BY <1>1
    <3> HIDE DEF S
    <3> QED BY <1>2, <3>1
  <2> HIDE DEF S
  <2> QED BY <2>1, LeastNumber
<1>4. k \in 0 .. Len(text) /\ Fits(Beyond(text, k))
  <2> HIDE DEF Fits
  <2> QED BY <1>3
<1> DEFINE t == Beyond(text, k)
<1>5. Len(t) = Len(text) - k
  BY <1>4, Dropped
<1>6. t \in Ends
  <2>1. k + 1 \in 1 .. Len(text) + 1
    BY <1>1, <1>4
  <2> QED BY <2>1 DEF Beyond
<1>7. Best(t)
  <2>1. ASSUME NEW i \in 1 .. Len(text), SizeOf(SubSeq(text, i, Len(text))) =< CaptureLimit
        PROVE  Len(SubSeq(text, i, Len(text))) =< Len(t)
    <3> DEFINE j == i - 1
    <3>1. j \in 0 .. Len(text) /\ j + 1 = i
      BY <1>1
    <3> HIDE DEF j, t
    <3>2. SubSeq(text, i, Len(text)) = Beyond(text, j)
      BY <3>1 DEF Beyond
    <3>3. j \in S
      BY <2>1, <3>1, <3>2
    <3>4. k =< j
      <4> HIDE DEF S
      <4> QED BY <1>3, <3>3
    <3>5. Len(Beyond(text, j)) = Len(text) - j
      BY <3>1, Dropped
    <3> HIDE DEF S
    <3> QED BY <1>1, <1>4, <1>5, <3>1, <3>2, <3>4, <3>5
  <2>2. SizeOf(t) =< CaptureLimit
    BY <1>4
  <2> HIDE DEF t, S
  <2> QED BY <2>1, <2>2
<1>8. FitToLimit(text) = CHOOSE e \in Ends : Best(e)
  BY DEF FitToLimit
<1> HIDE DEF t, S
<1>9. FitToLimit(text) \in Ends /\ Best(FitToLimit(text))
  <2> HIDE DEF Ends, Best
  <2> QED BY <1>6, <1>7, <1>8
<1>10. PICK i \in 1 .. Len(text) + 1 : FitToLimit(text) = SubSeq(text, i, Len(text))
  BY <1>9
<1>11. i - 1 \in 0 .. Len(text) /\ (i - 1) + 1 = i
  BY <1>1
<1>12. FitToLimit(text) = Beyond(text, i - 1)
  BY <1>10, <1>11 DEF Beyond
<1> QED BY <1>9, <1>11, <1>12

(* Trimming: the cut head and the cut tail of whole bytes are whole.       *)
LEMMA TrimmedHeadIs ==
  ASSUME NEW b \in Seq(Bytes)
  PROVE  TrimmedHead(b) \in Seq(Bytes) /\ (Sound(b) => Whole(TrimmedHead(b)))
<1> DEFINE m == Smaller(3, Len(b))
           Cut(n) == SubSeq(b, 1, Len(b) - n)
           Good(n) == LET d == Decode(Cut(n)) IN
                        d.left = <<>> /\ \A i \in DOMAIN d.text : d.text[i] # Broken
           W == {n \in 0 .. m : Good(n)}
           Least == CHOOSE n \in W : \A k \in W : n =< k
<1>1. Len(b) \in Nat /\ m \in 0 .. Len(b) /\ (3 < Len(b) => m = 3) /\ (~(3 < Len(b)) => m = Len(b))
  <2>1. Len(b) \in Nat
    OBVIOUS
  <2>2. m = IF 3 < Len(b) THEN 3 ELSE Len(b)
    BY DEF Smaller
  <2> HIDE DEF m
  <2> QED BY <2>1, <2>2
<1> HIDE DEF m
<1>2. \A n \in 0 .. m : Cut(n) \in Seq(Bytes)
  <2> TAKE n \in 0 .. m
  <2>1. Len(b) - n \in 0 .. Len(b)
    BY <1>1
  <2> QED BY <2>1, SplitAt
<1>3. \A n \in 0 .. m : Good(n) <=> Whole(Cut(n))
  <2> TAKE n \in 0 .. m
  <2> DEFINE d == Decode(Cut(n))
  <2>1. d.text \in Seq(Characters)
    <3> HIDE DEF Cut
    <3> QED BY <1>2, DecodedTypes
  <2>2. DOMAIN d.text = 1 .. Len(d.text)
    <3> HIDE DEF d
    <3> QED BY <2>1
  <2> HIDE DEF Cut
  <2> QED BY <2>2 DEF Whole, Sound
<1>4. TrimmedHead(b) = IF W = {} THEN b ELSE Cut(Least)
  BY DEF TrimmedHead, m
<1>5. W # {} => Least \in W
  <2> SUFFICES ASSUME W # {} PROVE Least \in W
    OBVIOUS
  <2>1. W \subseteq Nat
    <3> HIDE DEF Good
    <3> QED BY <1>1
  <2>2. \E n \in W : \A k \in W : n =< k
    <3> HIDE DEF W
    <3> QED BY <2>1, LeastNumber
  <2> HIDE DEF W
  <2> QED BY <2>2
<1> HIDE DEF Least, Good
<1>6. W # {} => Least \in 0 .. m /\ Good(Least)
  BY <1>5
<1>7. TrimmedHead(b) \in Seq(Bytes)
  <2> HIDE DEF W, Cut
  <2> QED BY <1>2, <1>4, <1>6
<1>8. ASSUME Sound(b) PROVE W # {}
  <2>1. PICK q \in Seq(Bytes) : b = q \o Decode(b).left /\ Whole(q)
    BY <1>8, WholeAndLeft
  <2> DEFINE l == Decode(b).left
             n == Len(l)
  <2>2. l \in Seq(Bytes) /\ n \in Nat /\ n < 3
    <3>1. l \in Seq(Bytes) /\ n < 3
      BY DecodedTypes
    <3> HIDE DEF l
    <3> QED BY <3>1
  <2>3. b = q \o l
    BY <2>1
  <2> HIDE DEF l
  <2>4. Len(b) = Len(q) + n /\ Len(q) \in Nat /\ \A i \in 1 .. Len(q) : b[i] = q[i]
    <3>1. /\ Len(q \o l) = Len(q) + Len(l) /\ \A i \in 1 .. Len(q) : (q \o l)[i] = q[i]
      BY <2>2, Concatenated
    <3> QED BY <3>1, <2>3
  <2>5. n \in 0 .. m
    BY <1>1, <2>2, <2>4
  <2>6. Cut(n) = q
    <3>1. Len(b) - n = Len(q) /\ Len(q) \in 0 .. Len(b)
      BY <1>1, <2>2, <2>4
    <3> HIDE DEF n
    <3> DEFINE c == SubSeq(b, 1, Len(q))
    <3>2. c \in Seq(Bytes) /\ Len(c) = Len(q) /\ \A i \in 1 .. Len(q) : c[i] = b[i]
      BY <3>1, SplitAt
    <3> HIDE DEF c
    <3>3. c = q
      BY <2>4, <3>2, SameSequence
    <3> QED BY <3>1, <3>3 DEF c
  <2>7. Good(n)
    <3> HIDE DEF n, Cut
    <3> QED BY <1>3, <2>1, <2>5, <2>6
  <2> HIDE DEF n
  <2> QED BY <2>5, <2>7
<1>9. ASSUME Sound(b) PROVE Whole(TrimmedHead(b))
  <2> HIDE DEF W, Cut
  <2> QED BY <1>3, <1>4, <1>6, <1>8, <1>9
<1> QED BY <1>7, <1>9

LEMMA WholeStarts ==
  ASSUME NEW b \in Seq(Bytes), b # <<>>, Whole(b)
  PROVE  /\ ~Incomplete(b, 1) /\ b[1] # "C"
         /\ b[1] = "M" => /\ 3 =< Len(b) /\ b[2] = "C" /\ b[3] = "C"
                          /\ Whole(Beyond(b, 3))
<1>1. ~Incomplete(b, 1)
  <2> SUFFICES ASSUME Incomplete(b, 1) PROVE FALSE
    OBVIOUS
  <2>1. Decode(b) = [text |-> <<>>, left |-> b]
    BY DecodeIs
  <2>2. Decode(b).left = b
    BY <2>1
  <2> QED BY <2>2 DEF Whole
<1>2. CharAt(b, 1) # Broken /\ Sound(Beyond(b, Taken(b, 1) + 1))
  BY <1>1, SoundStep DEF Whole
<1>3. \/ b[1] \in Letters /\ Taken(b, 1) = 0 /\ b[1] # "M" /\ b[1] # "C"
      \/ b[1] = "M" /\ Taken(b, 1) = 2 /\ 3 =< Len(b) /\ b[2] = "C" /\ b[3] = "C"
  BY <1>1, <1>2, SoundFirst
<1>4. Decode(Beyond(b, Taken(b, 1) + 1)).left = <<>>
  <2>1. Decode(b).left = Decode(Beyond(b, Taken(b, 1) + 1)).left
    BY <1>1, DecodeStep
  <2> QED BY <2>1 DEF Whole
<1>5. Whole(Beyond(b, Taken(b, 1) + 1))
  BY <1>2, <1>4 DEF Whole
<1>6. Taken(b, 1) = 2 => Taken(b, 1) + 1 = 3
  OBVIOUS
<1> QED BY <1>1, <1>3, <1>5, <1>6

(* After the lead of a character: at most two continuations, then whole    *)
(* bytes.                                                                  *)
LEMMA CarriedOver ==
  ASSUME NEW l \in Seq(Bytes), NEW t \in Seq(Bytes), Whole(l \o t),
         \/ l = <<>>
         \/ Len(l) = 1 /\ l[1] = "M"
         \/ Len(l) = 2 /\ l[1] = "M" /\ l[2] = "C"
  PROVE  \E c \in 0 .. 2 : /\ c =< Len(t) /\ \A i \in 1 .. c : t[i] = "C"
                           /\ c = Len(t) \/ t[c + 1] # "C"
                           /\ Whole(Beyond(t, c))
<1>1. Len(t) \in Nat
  OBVIOUS
<1>2. ASSUME NEW c \in 0 .. 2, c =< Len(t), Whole(Beyond(t, c)) PROVE c = Len(t) \/ t[c + 1] # "C"
  <2> SUFFICES ASSUME c # Len(t) PROVE t[c + 1] # "C"
    OBVIOUS
  <2> DEFINE d == Beyond(t, c)
  <2>1. d \in Seq(Bytes) /\ Len(d) = Len(t) - c /\ \A i \in 1 .. Len(t) - c : d[i] = t[c + i]
    <3>1. c \in 0 .. Len(t)
      BY <1>1, <1>2
    <3> QED BY <3>1, Dropped
  <2>2. 1 \in 1 .. Len(t) - c
    BY <1>1, <1>2
  <2>3. d[1] = t[c + 1] /\ d # <<>>
    <3> HIDE DEF d
    <3> QED BY <2>1, <2>2
  <2>4. d[1] # "C"
    <3> HIDE DEF d
    <3>1. Whole(d)
      BY <1>2 DEF d
    <3> QED BY <2>1, <2>3, <3>1, WholeStarts
  <2> QED BY <2>3, <2>4
<1>3. CASE l = <<>>
  <2>1. l \o t = t
    BY <1>3
  <2>2. Beyond(t, 0) = t
    BY DropNothing
  <2>3. Whole(Beyond(t, 0)) /\ 0 =< Len(t) /\ \A i \in 1 .. 0 : t[i] = "C"
    BY <2>1, <2>2, <1>1
  <2>4. 0 = Len(t) \/ t[0 + 1] # "C"
    BY <1>2, <2>3
  <2> QED BY <2>3, <2>4
<1>4. CASE l # <<>>
  <2> DEFINE m == Len(l)
             x == l \o t
             c == 3 - m
  <2>1. (m = 1 \/ m = 2) /\ l[1] = "M"
    BY <1>4
  <2>2. /\ x \in Seq(Bytes) /\ Len(x) = m + Len(t) /\ x[1] = "M"
        /\ \A i \in 1 .. Len(t) : x[m + i] = t[i]
    <3>1. 1 \in 1 .. Len(l)
      BY <2>1
    <3> QED BY <3>1, <2>1, Concatenated
  <2>3. Beyond(x, m) = t
    <3>1. Beyond(x, m) = Beyond(l, Len(l)) \o t
      <4>1. Len(l) \in 0 .. Len(l)
        BY <2>1
      <4> QED BY <4>1, DropJoined
    <3>2. Beyond(l, Len(l)) = <<>> /\ <<>> \o t = t
      BY DropNothing
    <3> QED BY <3>1, <3>2
  <2>4. Whole(x)
    OBVIOUS
  <2> HIDE DEF x, m
  <2>5. x # <<>>
    <3> SUFFICES ASSUME x = <<>> PROVE FALSE
      OBVIOUS
    <3>1. Len(x) = 0
      BY ONLY x = <<>>
    <3> QED BY <3>1, <2>1, <2>2, <1>1
  <2>6. 3 =< Len(x) /\ x[2] = "C" /\ x[3] = "C" /\ Whole(Beyond(x, 3))
    BY <2>2, <2>4, <2>5, WholeStarts
  <2>7. c \in 0 .. 2 /\ c =< Len(t) /\ m + c = 3
    BY <2>1, <2>2, <2>6, <1>1
  <2>8. Beyond(t, c) = Beyond(x, 3)
    <3> HIDE DEF c
    <3>1. m \in 0 .. Len(x) /\ c \in 0 .. Len(x) - m
      BY <2>1, <2>2, <2>7, <1>1
    <3>2. Beyond(Beyond(x, m), c) = Beyond(x, m + c)
      BY <2>2, <3>1, DropTwice
    <3> QED BY <3>2, <2>3, <2>7
  <2>9. \A i \in 1 .. c : t[i] = "C"
    <3> TAKE i \in 1 .. c
    <3>1. i \in 1 .. Len(t)
      BY <2>7, <1>1
    <3>2. m + i = 2 \/ m + i = 3
      BY <2>1, <2>7
    <3> QED BY <2>2, <2>6, <3>1, <3>2
  <2>10. c = Len(t) \/ t[c + 1] # "C"
    <3> HIDE DEF c
    <3> QED BY <1>2, <2>6, <2>7, <2>8
  <2> HIDE DEF c
  <2> QED BY <2>6, <2>7, <2>8, <2>9, <2>10
<1> QED BY <1>3, <1>4

LEMMA TrimmedTailIs ==
  ASSUME NEW t \in Seq(Bytes)
  PROVE  /\ TrimmedTail(t) \in Seq(Bytes)
         /\ \A c \in 0 .. 2 : /\ c =< Len(t) /\ \A i \in 1 .. c : t[i] = "C"
                              /\ c = Len(t) \/ t[c + 1] # "C"
                              => TrimmedTail(t) = Beyond(t, c)
<1> DEFINE m == Smaller(3, Len(t))
           Good(n) == /\ \A i \in 1 .. n : t[i] = "C"
                      /\ n = m \/ t[n + 1] # "C"
           S == {n \in 0 .. m : n = m \/ t[n + 1] # "C"}
           Lead == CHOOSE n \in 0 .. m : Good(n)
<1>1. Len(t) \in Nat /\ m \in 0 .. Len(t) /\ (3 < Len(t) => m = 3) /\ (~(3 < Len(t)) => m = Len(t))
  <2>1. Len(t) \in Nat
    OBVIOUS
  <2>2. m = IF 3 < Len(t) THEN 3 ELSE Len(t)
    BY DEF Smaller
  <2> HIDE DEF m
  <2> QED BY <2>1, <2>2
<1>2. TrimmedTail(t) = Beyond(t, Lead)
  BY DEF TrimmedTail, Beyond
<1> HIDE DEF m
<1>3. \E n \in 0 .. m : Good(n)
  <2>1. PICK n \in S : \A j \in S : n =< j
    <3>1. S \subseteq Nat /\ m \in S
      BY <1>1
    <3> HIDE DEF S
    <3>2. S # {}
      BY <3>1
    <3> QED BY <3>1, <3>2, LeastNumber
  <2>2. ASSUME NEW i \in 1 .. n PROVE t[i] = "C"
    <3> SUFFICES ASSUME t[i] # "C" PROVE FALSE
      OBVIOUS
    <3> DEFINE j == i - 1
    <3>1. j \in 0 .. m /\ j + 1 = i /\ j < n
      BY <1>1, <2>1
    <3>2. j \in S
      <4> HIDE DEF j
      <4> QED BY <3>1
    <3> HIDE DEF j, S
    <3>3. n =< j
      BY <2>1, <3>2
    <3>4. n \in Nat
      BY <2>1, <1>1 DEF S
    <3> QED BY <3>1, <3>3, <3>4, <1>1
  <2>3. n \in 0 .. m /\ (n = m \/ t[n + 1] # "C")
    BY <2>1
  <2> QED BY <2>2, <2>3
<1>4. Lead \in 0 .. m /\ Good(Lead)
  <2> HIDE DEF Good
  <2> QED BY <1>3
<1> HIDE DEF Lead
<1>5. TrimmedTail(t) \in Seq(Bytes)
  <2>1. Lead \in 0 .. Len(t)
    BY <1>1, <1>4
  <2> QED BY <1>2, <2>1, Dropped
<1>6. ASSUME NEW c \in 0 .. 2, c =< Len(t), \A i \in 1 .. c : t[i] = "C", c = Len(t) \/ t[c + 1] # "C"
      PROVE  Lead = c
  <2>1. ~(c < Lead)
    <3> SUFFICES ASSUME c < Lead PROVE FALSE
      OBVIOUS
    <3>1. c + 1 \in 1 .. Lead /\ c # Len(t)
      BY <1>1, <1>4
    <3>2. t[c + 1] = "C"
      BY <1>4, <3>1
    <3> QED BY <1>6, <3>1, <3>2
  <2>2. ~(Lead < c)
    <3> SUFFICES ASSUME Lead < c PROVE FALSE
      OBVIOUS
    <3>1. Lead + 1 \in 1 .. c /\ Lead # m
      BY <1>1, <1>4, <1>6
    <3>2. t[Lead + 1] = "C"
      BY <1>6, <3>1
    <3> QED BY <1>4, <3>1, <3>2
  <2> QED BY <1>1, <1>4, <2>1, <2>2
<1> QED BY <1>2, <1>5, <1>6

(* The two ends of a stream that are kept, when they are not all of it.    *)
LEMMA RetainedIs ==
  ASSUME NEW s \in Seq(Bytes), NEW k, Keeps(k, s)
  PROVE  /\ Retained(k) \in Seq(Bytes)
         /\ ~Truncated(k) => Retained(k) = s
         /\ Whole(s) => Whole(Retained(k))
<1> DEFINE h == Smaller(HeadLimit, Len(s))
           r == Beyond(s, h)
<1>1. /\ k \in [head : Seq(Bytes), tail : Seq(Bytes), total : Nat] /\ k.total = Len(s)
      /\ k.head = SubSeq(s, 1, h)
      /\ k.tail = Ending(Beyond(s, Len(k.head)), TailLimit)
  BY DEF Keeps, Beyond
<1>2. Len(s) \in Nat /\ HeadLimit \in Nat /\ TailLimit \in Nat /\ HeadLimit + TailLimit = CaptureLimit
  BY LimitsAre
<1>3. h \in 0 .. Len(s) /\ (h = HeadLimit \/ h = Len(s))
  <2>1. h = IF HeadLimit < Len(s) THEN HeadLimit ELSE Len(s)
    BY DEF Smaller
  <2> HIDE DEF h
  <2> QED BY <1>2, <2>1
<1> HIDE DEF h
<1>4. k.head \in Seq(Bytes) /\ Len(k.head) = h /\ k.head \o r = s
  BY <1>1, <1>3, SplitAt
<1>5. k.tail = Ending(r, TailLimit)
  BY <1>1, <1>4
<1>6. r \in Seq(Bytes) /\ Len(r) = Len(s) - h
  BY <1>3, Dropped
<1> HIDE DEF r
<1>7. PICK j \in 0 .. Len(r) : /\ k.tail = Beyond(r, j)
                               /\ TailLimit < Len(r) => j = Len(r) - TailLimit
                               /\ ~(TailLimit < Len(r)) => j = 0
  <2>1. \E j \in 0 .. Len(r) : /\ Ending(r, TailLimit) = Beyond(r, j)
                               /\ TailLimit < Len(r) => j = Len(r) - TailLimit
                               /\ ~(TailLimit < Len(r)) => j = 0
    BY <1>2, <1>6, EndingIs
  <2> QED BY <1>5, <2>1
<1>8. k.tail \in Seq(Bytes)
  BY <1>1
<1>9. ASSUME ~Truncated(k) PROVE Retained(k) = s
  <2>1. Len(s) =< CaptureLimit
    BY <1>1, <1>2, <1>9 DEF Truncated
  <2>2. ~(TailLimit < Len(r))
    <3>1. CASE h = HeadLimit
      BY <3>1, <1>2, <1>6, <2>1
    <3>2. CASE h = Len(s)
      BY <3>2, <1>2, <1>6
    <3> QED BY <1>3, <3>1, <3>2
  <2>3. k.tail = r
    BY <1>6, <1>7, <2>2, DropNothing
  <2>4. Retained(k) = k.head \o k.tail
    BY <1>9 DEF Retained
  <2> QED BY <1>4, <2>3, <2>4
<1>10. TrimmedHead(k.head) \in Seq(Bytes) /\ TrimmedTail(k.tail) \in Seq(Bytes)
  BY <1>4, <1>8, TrimmedHeadIs, TrimmedTailIs
<1> DEFINE a == TrimmedHead(k.head)
           b == TrimmedTail(k.tail)
<1>11. Retained(k) \in Seq(Bytes)
  <2>1. a \o b \in Seq(Bytes) /\ k.head \o k.tail \in Seq(Bytes)
    <3> HIDE DEF a, b
    <3>1. a \in Seq(Bytes) /\ b \in Seq(Bytes)
      BY <1>10 DEF a, b
    <3> QED BY <3>1, <1>4, <1>8
  <2> QED BY <2>1 DEF Retained
<1>12. ASSUME Whole(s), Truncated(k) PROVE Whole(Retained(k))
  <2>1. Whole(a)
    <3>1. Sound(k.head)
      <4>1. Whole(k.head \o r) <=> Sound(k.head) /\ Whole(Decode(k.head).left \o r)
        BY <1>4, <1>6, SoundJoined
      <4> QED BY <4>1, <1>4, <1>12
    <3> QED BY <1>4, <3>1, TrimmedHeadIs
  <2>2. Whole(b)
    <3> DEFINE z == SubSeq(s, 1, h + j)
               l == Decode(z).left
    <3>1. h + j \in 0 .. Len(s) /\ h \in 0 .. Len(s) /\ j \in 0 .. Len(s) - h
      BY <1>2, <1>3, <1>6, <1>7
    <3>2. k.tail = Beyond(s, h + j)
      <4>1. Beyond(Beyond(s, h), j) = Beyond(s, h + j)
        BY <3>1, DropTwice
      <4> QED BY <4>1, <1>7 DEF r
    <3>3. z \in Seq(Bytes) /\ z \o k.tail = s
      BY <3>1, <3>2, SplitAt
    <3> HIDE DEF z
    <3>4. Whole(l \o k.tail)
      <4>1. Whole(z \o k.tail) <=> Sound(z) /\ Whole(l \o k.tail)
        BY <1>8, <3>3, SoundJoined
      <4> QED BY <4>1, <3>3, <1>12
    <3>5. l \in Seq(Bytes)
      BY <3>3, DecodedTypes
    <3>6. \/ l = <<>>
          \/ Len(l) = 1 /\ l[1] = "M"
          \/ Len(l) = 2 /\ l[1] = "M" /\ l[2] = "C"
      BY <3>3, LeftIs
    <3> HIDE DEF l
    <3> DEFINE t == k.tail
    <3>7. t \in Seq(Bytes) /\ Whole(l \o t)
      BY <1>8, <3>4
    <3> HIDE DEF t
    <3>8. PICK c \in 0 .. 2 : /\ c =< Len(t) /\ \A i \in 1 .. c : t[i] = "C"
                              /\ c = Len(t) \/ t[c + 1] # "C"
                              /\ Whole(Beyond(t, c))
      BY <3>5, <3>6, <3>7, CarriedOver
    <3>9. TrimmedTail(t) = Beyond(t, c)
      BY <3>7, <3>8, TrimmedTailIs
    <3> QED BY <3>8, <3>9 DEF t
  <2>3. Retained(k) = a \o b
    BY <1>12 DEF Retained
  <2> HIDE DEF a, b
  <2>4. a \in Seq(Bytes) /\ b \in Seq(Bytes)
    BY <1>10 DEF a, b
  <2>5. Sound(a) /\ Decode(a).left = <<>> /\ <<>> \o b = b
    BY <2>1, <2>4 DEF Whole
  <2>6. Whole(a \o b) <=> Sound(a) /\ Whole(Decode(a).left \o b)
    BY <2>4, SoundJoined
  <2> QED BY <2>2, <2>3, <2>5, <2>6
<1> QED BY <1>9, <1>11, <1>12

LEMMA CapturedIs ==
  ASSUME NEW s \in Seq(Bytes), NEW k, Keeps(k, s)
  PROVE  /\ Captured(k) \in Seq(Characters) /\ SizeOf(Captured(k)) =< CaptureLimit
         /\ NoBroken(Lossy(s)) => NoBroken(Captured(k))
<1> DEFINE y == Retained(k)
           t == Lossy(y)
<1>1. y \in Seq(Bytes) /\ (Whole(s) => Whole(y))
  BY RetainedIs
<1>2. t \in Seq(Characters) /\ (NoBroken(t) <=> Whole(y)) /\ (NoBroken(Lossy(s)) <=> Whole(s))
  <2> HIDE DEF y
  <2> QED BY <1>1, LossyIs
<1>3. Captured(k) = FitToLimit(t)
  BY DEF Captured
<1> HIDE DEF t, y
<1>4. PICK i \in 0 .. Len(t) : FitToLimit(t) = Beyond(t, i)
  BY <1>2, FitIs
<1>5. SizeOf(FitToLimit(t)) =< CaptureLimit
  BY <1>2, FitIs
<1>6. Beyond(t, i) \in Seq(Characters)
  BY <1>2, Dropped
<1>7. NoBroken(t) => NoBroken(Beyond(t, i))
  BY <1>2, BrokenLater
<1> QED BY <1>1, <1>2, <1>3, <1>4, <1>5, <1>6, <1>7

-----------------------------------------------------------------------------
(* The inductive invariant: what was recorded and what is held back hold   *)
(* no secret, nothing that is recorded is the beginning of one, and        *)
(* together they are the outcome of what was passed on.                    *)
Withholds(S, r, w) ==
  /\ r \in Texts /\ w \in Texts
  /\ Clean(S, r \o w) /\ Tight(S, r \o w, Len(r))
  /\ \A j \in 1 .. Len(w) : w[j] # Marker
  /\ w # <<>> => \E s \in S : Begins(w, 1, s)
Told(S, t, f) == Apart(S) => t = Replaced(S, f)

StreamsInv ==
  /\ /\ secrets \in SecretSets /\ stream \in Seq(Bytes) /\ undecoded \in Seq(Bytes)
     /\ Len(undecoded) < 3 /\ forwarded \in Seq(Characters) /\ forwarding \in BOOLEAN
     /\ phase \in {"reading", "read", "done", "stored"}
  /\ Keeps(kept, stream)
  /\ phase = "reading" => /\ undecoded = Decode(stream).left
                          /\ forwarding => forwarded = Decode(stream).text
  /\ phase # "reading" /\ forwarding => forwarded = Lossy(stream)
  /\ phase \in {"reading", "read"} => /\ Withholds(secrets, shown, withheld)
                                      /\ Told(secrets, shown \o withheld, forwarded)
  /\ phase \in {"done", "stored"} =>
       withheld = <<>> /\ shown \in Texts /\ Clean(secrets, shown)
  /\ phase = "done" => Told(secrets, shown, forwarded)

LEMMA SecretsAre ==
  ASSUME NEW S \in SecretSets PROVE IsFiniteSet(S) /\ AreWords(S)
  BY StreamConstants DEF AreWords

LEMMA CleanPart ==
  ASSUME NEW S, AreWords(S), NEW r \in Texts, NEW w \in Texts, Clean(S, r \o w)
  PROVE  Clean(S, r)
<1> SUFFICES ASSUME NEW s \in S, NEW i \in 1 .. Len(r), StartsAt(r, i, s) PROVE FALSE
  BY DEF Clean
<1> DEFINE c == r \o w
<1>1. s \in Texts /\ Len(s) \in Nat /\ Len(r) \in Nat /\ Len(w) \in Nat /\ i \in Nat \ {0}
  <2>1. s \in Seq(Characters)
    BY DEF AreWords
  <2> QED BY <2>1, WordIsText, LengthOfText
<1>2. c \in Texts /\ Len(c) = Len(r) + Len(w) /\ \A j \in 1 .. Len(r) : c[j] = r[j]
  BY Concatenated DEF Texts
<1> HIDE DEF c
<1>3. i + Len(s) - 1 =< Len(r) /\ \A j \in 1 .. Len(s) : r[i + j - 1] = s[j]
  BY <1>1, StartsIs DEF Texts
<1>4. i + Len(s) - 1 =< Len(c) /\ i \in 1 .. Len(c)
  BY <1>1, <1>2, <1>3
<1>5. \A j \in 1 .. Len(s) : c[i + j - 1] = s[j]
  <2> TAKE j \in 1 .. Len(s)
  <2>1. i + j - 1 \in 1 .. Len(r)
    BY <1>1, <1>3
  <2> QED BY <2>1, <1>2, <1>3
<1>6. StartsAt(c, i, s)
  BY <1>1, <1>2, <1>4, <1>5, StartsIs DEF Texts
<1> QED BY <1>4, <1>6 DEF Clean, c

(* One chunk of text: what is released of it, and what is held back.       *)
LEMMA PushHolds ==
  ASSUME AreWords(secrets), NEW r \in Texts, NEW w \in Texts, Withholds(secrets, r, w),
         NEW x \in Texts, NEW f \in Texts, Told(secrets, r \o w, f),
         NEW p, p = Replaced(secrets, w \o x),
         NEW cut, cut = Len(p) - RequiredHold(p)
  PROVE  /\ Withholds(secrets, r \o SubSeq(p, 1, cut), SubSeq(p, cut + 1, Len(p)))
         /\ Told(secrets, (r \o SubSeq(p, 1, cut)) \o SubSeq(p, cut + 1, Len(p)), f \o x)
<1> DEFINE S == secrets
           a == SubSeq(p, 1, cut)
           v == Beyond(p, cut)
           q == r \o a
           n == RequiredHold(p)
           c == r \o p
<1>1. p \in Texts /\ Clean(S, r \o p) /\ Tight(S, r \o p, Len(r))
  BY Released DEF Withholds
<1>2. Len(p) \in Nat /\ Len(r) \in Nat
  BY <1>1, LengthOfText
<1>3. /\ n \in 0 .. Len(p)
      /\ n # 0 => \E s \in S : Begins(p, Len(p) - n + 1, s)
      /\ \A i \in 1 .. Len(p) - n : \A s \in S : ~Begins(p, i, s)
  BY <1>1, RequiredHoldIs
<1> HIDE DEF n
<1>4. cut \in 0 .. Len(p) /\ cut = Len(p) - n /\ n = Len(p) - cut
  <2>1. cut = Len(p) - n
    BY DEF n
  <2>2. n \in 0 .. Len(p) /\ Len(p) \in Nat
    BY <1>2, <1>3
  <2> DEFINE l == Len(p)
  <2> HIDE DEF l
  <2>3. n \in 0 .. l /\ l \in Nat /\ cut = l - n
    BY <2>1, <2>2 DEF l
  <2>4. cut \in 0 .. l /\ cut = l - n /\ n = l - cut
    BY ONLY <2>3
  <2> QED BY <2>4 DEF l
<1>5. a \in Texts /\ Len(a) = cut /\ a \o v = p
  BY <1>1, <1>4, SplitAt DEF Texts
<1>6. v \in Texts /\ Len(v) = n /\ \A i \in 1 .. n : v[i] = p[cut + i]
  <2>1. v \in Texts /\ Len(v) = Len(p) - cut /\ \A i \in 1 .. Len(p) - cut : v[i] = p[cut + i]
    BY <1>1, <1>4, Dropped DEF Texts
  <2> QED BY <2>1, <1>4
<1> HIDE DEF a, v
<1>7. q \in Texts /\ Len(q) = Len(r) + cut
  BY <1>5, Concatenated DEF Texts
<1>8. q \o v = c
  <2>1. r \in Texts /\ (r \o a) \o v = r \o (a \o v)
    <3>1. a \in Texts /\ v \in Texts /\ r \in Texts
      BY <1>5, <1>6
    <3> QED BY ONLY <3>1 DEF Texts
  <2> QED BY <2>1, <1>5
<1>9. c \in Texts /\ Len(c) = Len(r) + Len(p) /\ Beyond(c, Len(r)) = p
  <2>1. c \in Texts /\ Len(c) = Len(r) + Len(p)
    BY <1>1, Concatenated DEF Texts
  <2>2. Beyond(c, Len(r)) = Beyond(r, Len(r)) \o p
    <3>1. Len(r) \in 0 .. Len(r)
      BY <1>2
    <3> QED BY <1>1, <3>1, DropJoined DEF Texts
  <2>3. Beyond(r, Len(r)) = <<>> /\ <<>> \o p = p
    BY <1>1, DropNothing DEF Texts
  <2> QED BY <2>1, <2>2, <2>3
<1> HIDE DEF c, q
<1>10. Tight(S, c, Len(q))
  <2> SUFFICES ASSUME NEW s \in S, NEW i \in 1 .. Len(q), Begins(c, i, s) PROVE FALSE
    BY DEF Tight
  <2>1. CASE i =< Len(r)
    <3>1. i \in 1 .. Len(r)
      BY <1>2, <1>7, <2>1
    <3> QED BY <1>1, <3>1 DEF Tight, c
  <2>2. CASE ~(i =< Len(r))
    <3> DEFINE j == i - Len(r)
    <3>1. j \in 1 .. Len(p) - n /\ j \in 1 .. Len(c) - Len(r) /\ Len(r) + j = i /\ Len(r) \in 0 .. Len(c)
      <4> DEFINE l == Len(p)
                 e == Len(r)
      <4>1. /\ i \in 1 .. e + cut /\ ~(i =< e) /\ cut \in 0 .. l /\ cut = l - n /\ Len(c) = e + l
            /\ e \in Nat /\ l \in Nat /\ n \in 0 .. l
        BY <1>2, <1>3, <1>4, <1>7, <1>9, <2>2
      <4> HIDE DEF l, e
      <4>2. i - e \in 1 .. l - n /\ i - e \in 1 .. Len(c) - e /\ e + (i - e) = i /\ e \in 0 .. Len(c)
        BY ONLY <4>1
      <4> QED BY <4>2 DEF l, e
    <3> HIDE DEF j
    <3>2. Begins(Beyond(c, Len(r)), j, s) <=> Begins(c, Len(r) + j, s)
      BY <1>9, <3>1, BeginsLater
    <3> QED BY <1>3, <1>9, <3>1, <3>2
  <2> QED BY <2>1, <2>2
<1>11. ASSUME v # <<>>
       PROVE  (\E s \in S : Begins(v, 1, s)) /\ \A j \in 1 .. Len(v) : v[j] # Marker
  <2>1. n # 0
    <3> SUFFICES ASSUME n = 0 PROVE FALSE
      OBVIOUS
    <3>1. v \in Seq(Characters \cup {Marker}) /\ Len(v) = 0
      BY <1>6 DEF Texts
    <3> QED BY ONLY <1>11, <3>1
  <2>2. PICK s \in S : Begins(p, Len(p) - n + 1, s)
    BY <1>3, <2>1
  <2>3. Len(p) - n + 1 = cut + 1 /\ 1 \in 1 .. Len(p) - cut
    <3> DEFINE l == Len(p)
    <3>1. n \in 0 .. l /\ n # 0 /\ l \in Nat /\ cut = l - n
      BY <1>2, <1>3, <1>4, <2>1
    <3> HIDE DEF l
    <3>2. l - n + 1 = cut + 1 /\ 1 \in 1 .. l - cut
      BY ONLY <3>1
    <3> QED BY <3>2 DEF l
  <2>4. Begins(v, 1, s)
    <3>1. Begins(Beyond(p, cut), 1, s) <=> Begins(p, cut + 1, s)
      BY <1>1, <1>4, <2>3, BeginsLater
    <3> QED BY <2>2, <2>3, <3>1 DEF v
  <2>5. s \in Seq(Characters)
    BY DEF AreWords
  <2>6. Len(v) < Len(s) /\ \A j \in 1 .. Len(v) : v[j] = s[j]
    <3>1. Len(v) - 1 + 1 = Len(v) /\ \A j \in 1 .. Len(v) : 1 + j - 1 = j
      BY <1>3, <1>6, <1>2
    <3> QED BY <2>4, <3>1 DEF Begins
  <2>7. \A j \in 1 .. Len(v) : s[j] \in Characters
    <3>1. Len(s) \in Nat /\ Len(v) \in Nat
      BY <2>5, <1>3, <1>6, <1>2
    <3> QED BY <3>1, <2>5, <2>6
  <2> QED BY <2>4, <2>6, <2>7, NoMarkerInWords
<1>12. \A j \in 1 .. Len(v) : v[j] # Marker
  <2>1. v = <<>> => Len(v) = 0
    BY ONLY Len(<<>>) = 0
  <2> QED BY <1>11, <2>1
<1>13. Withholds(S, q, v)
  <2>1. Clean(S, c)
    BY <1>1 DEF c
  <2> QED BY <1>6, <1>7, <1>8, <1>10, <1>11, <1>12, <2>1 DEF Withholds
<1>14. Told(S, q \o v, f \o x)
  <2> SUFFICES ASSUME Apart(S) PROVE q \o v = Replaced(S, f \o x)
    BY DEF Told
  <2>1. InParts(S, f, r, w)
    BY DEF Withholds, Told, InParts
  <2>2. Replaced(S, f \o x) = r \o p
    BY <2>1, ReplacedInParts
  <2> QED BY <2>2, <1>8 DEF c
<1> QED BY <1>13, <1>14 DEF q, a, v, Beyond

(* Text of the decoder, passed on or not.                                  *)
LEMMA TextHandled ==
  ASSUME StreamsInv, phase = "reading", NEW text \in Seq(Characters), NEW k, HandleText(text, k)
  PROVE  /\ kept' = k /\ forwarded' \in Seq(Characters) /\ forwarding' \in BOOLEAN
         /\ Withholds(secrets, shown', withheld') /\ Told(secrets, shown' \o withheld', forwarded')
         /\ forwarding' => forwarding /\ forwarded' = forwarded \o text
<1>1. /\ AreWords(secrets) /\ Withholds(secrets, shown, withheld)
      /\ Told(secrets, shown \o withheld, forwarded)
      /\ forwarded \in Seq(Characters) /\ forwarding \in BOOLEAN
  BY SecretsAre DEF StreamsInv
<1>2. shown \in Texts /\ withheld \in Texts /\ text \in Texts /\ forwarded \in Texts
  BY <1>1, WordIsText DEF Withholds
<1>3. kept' = k
  BY DEF HandleText
<1>4. CASE forwarding /\ text # <<>>
  <2>1. /\ PushChunk(text) /\ forwarded' = forwarded \o text
        /\ forwarding' = ~ReachedLimit(k)
    BY <1>4 DEF HandleText
  <2> DEFINE p == Replaced(secrets, withheld \o text)
             cut == Len(p) - RequiredHold(p)
  <2>2. shown' = shown \o SubSeq(p, 1, cut) /\ withheld' = SubSeq(p, cut + 1, Len(p))
    BY <2>1 DEF PushChunk
  <2>3. /\ Withholds(secrets, shown \o SubSeq(p, 1, cut), SubSeq(p, cut + 1, Len(p)))
        /\ Told(secrets, (shown \o SubSeq(p, 1, cut)) \o SubSeq(p, cut + 1, Len(p)), forwarded \o text)
    <3>1. p = Replaced(secrets, withheld \o text) /\ cut = Len(p) - RequiredHold(p)
      OBVIOUS
    <3> HIDE DEF p, cut
    <3> QED BY <1>1, <1>2, <3>1, PushHolds
  <2>4. forwarded' \in Seq(Characters) /\ forwarding' \in BOOLEAN
    BY <1>1, <2>1 DEF ReachedLimit
  <2> HIDE DEF p, cut
  <2> QED BY <1>3, <1>4, <2>1, <2>2, <2>3, <2>4
<1>5. CASE ~(forwarding /\ text # <<>>)
  <2>1. UNCHANGED <<withheld, shown, forwarded, forwarding>>
    BY <1>5 DEF HandleText
  <2>2. forwarding => text = <<>>
    BY <1>5
  <2>3. forwarded \o <<>> = forwarded
    BY <1>1
  <2> QED BY <1>1, <1>3, <2>1, <2>2, <2>3
<1> QED BY <1>4, <1>5

LEMMA StreamsInvInit == StreamsInit => StreamsInv
<1> SUFFICES ASSUME StreamsInit PROVE StreamsInv
  OBVIOUS
<1>1. /\ secrets \in SecretSets
      /\ stream = <<>> /\ undecoded = <<>> /\ withheld = <<>> /\ shown = <<>> /\ forwarded = <<>>
      /\ kept = [head |-> <<>>, tail |-> <<>>, total |-> 0]
      /\ forwarding = TRUE /\ phase = "reading"
  BY DEF StreamsInit
<1>2. AreWords(secrets)
  BY <1>1, SecretsAre
<1> DEFINE e == <<>>
<1>3. e \in Seq(Bytes) /\ e \in Seq(Characters) /\ e \in Texts /\ Len(e) = 0 /\ e \o e = e
  BY DEF Texts
<1>4. Decode(e).text = e /\ Decode(e).left = e
  BY EmptyIsWhole
<1>5. Keeps(kept, e)
  BY <1>1, NothingKept
<1>6. Replaced(secrets, e) = e
  BY <1>2, <1>3, ReplacedIs
<1>7. Withholds(secrets, e, e)
  <2> HIDE DEF e
  <2>1. Clean(secrets, e \o e) /\ Tight(secrets, e \o e, Len(e))
    BY <1>3 DEF Clean, Tight
  <2> QED BY <1>3, <2>1 DEF Withholds, e
<1>8. Told(secrets, e \o e, e)
  <2> HIDE DEF e
  <2> QED BY <1>3, <1>6 DEF Told
<1>9. stream = e /\ undecoded = e /\ withheld = e /\ shown = e /\ forwarded = e
  BY <1>1
<1> HIDE DEF e
<1> QED BY <1>1, <1>3, <1>4, <1>5, <1>7, <1>8, <1>9 DEF StreamsInv

LEMMA ReadsAreBytes ==
  ASSUME NEW bytes \in Reads PROVE bytes \in Seq(Bytes)
<1>1. PICK n \in 1 .. 2 : bytes \in [1 .. n -> Bytes]
  BY DEF Reads
<1>2. n \in Nat
  OBVIOUS
<1> QED BY <1>1, <1>2

LEMMA StreamsInvReads ==
  ASSUME StreamsInv, NEW bytes \in Reads, ReadChunk(bytes) PROVE StreamsInv'
<1> DEFINE d == Decode(undecoded \o bytes)
<1>1. /\ phase = "reading" /\ phase' = "reading" /\ secrets' = secrets
      /\ stream' = stream \o bytes /\ undecoded' = d.left
      /\ HandleText(d.text, Push(kept, bytes))
  BY DEF ReadChunk
<1>2. bytes \in Seq(Bytes)
  BY ReadsAreBytes
<1>3. /\ secrets \in SecretSets /\ stream \in Seq(Bytes) /\ undecoded \in Seq(Bytes)
      /\ Keeps(kept, stream) /\ undecoded = Decode(stream).left
      /\ forwarding => forwarded = Decode(stream).text
  BY <1>1 DEF StreamsInv
<1>4. d.text \in Seq(Characters) /\ d.left \in Seq(Bytes) /\ Len(d.left) < 3
  <2>1. undecoded \o bytes \in Seq(Bytes)
    BY <1>2, <1>3
  <2> QED BY <2>1, DecodedTypes
<1>5. Decode(stream \o bytes).text = Decode(stream).text \o d.text /\ Decode(stream \o bytes).left = d.left
  BY <1>2, <1>3, DecodeJoined
<1> HIDE DEF d
<1>6. /\ kept' = Push(kept, bytes) /\ forwarded' \in Seq(Characters) /\ forwarding' \in BOOLEAN
      /\ Withholds(secrets, shown', withheld') /\ Told(secrets, shown' \o withheld', forwarded')
      /\ forwarding' => forwarding /\ forwarded' = forwarded \o d.text
  BY <1>1, <1>4, TextHandled
<1>7. Keeps(kept', stream')
  <2>1. Keeps(Push(kept, bytes), stream \o bytes)
    BY <1>2, <1>3, PushKeeps
  <2> QED BY <2>1, <1>1, <1>6
<1>8. stream' \in Seq(Bytes)
  BY <1>1, <1>2, <1>3
<1>9. undecoded' = Decode(stream').left /\ (forwarding' => forwarded' = Decode(stream').text)
  BY <1>1, <1>3, <1>5, <1>6
<1> QED BY <1>1, <1>3, <1>4, <1>6, <1>7, <1>8, <1>9 DEF StreamsInv

LEMMA StreamsInvEnds ==
  ASSUME StreamsInv, EndOfStream PROVE StreamsInv'
<1> DEFINE f == Flush(undecoded)
<1>1. /\ phase = "reading" /\ phase' = "read" /\ secrets' = secrets /\ stream' = stream
      /\ undecoded' = <<>> /\ HandleText(f, kept)
  BY DEF EndOfStream
<1>2. /\ secrets \in SecretSets /\ stream \in Seq(Bytes) /\ Keeps(kept, stream)
      /\ undecoded = Decode(stream).left
      /\ forwarding => forwarded = Decode(stream).text
  BY <1>1 DEF StreamsInv
<1>3. f \in Seq(Characters)
  <2>1. Broken \in Characters
    BY DEF Characters
  <2>2. <<>> \in Seq(Characters) /\ <<Broken>> \in Seq(Characters)
    BY <2>1
  <2> QED BY <2>2 DEF Flush
<1>4. Lossy(stream) = Decode(stream).text \o f
  BY <1>2 DEF Lossy
<1> HIDE DEF f
<1>5. /\ kept' = kept /\ forwarded' \in Seq(Characters) /\ forwarding' \in BOOLEAN
      /\ Withholds(secrets, shown', withheld') /\ Told(secrets, shown' \o withheld', forwarded')
      /\ forwarding' => forwarding /\ forwarded' = forwarded \o f
  BY <1>1, <1>3, TextHandled
<1>6. forwarding' => forwarded' = Lossy(stream')
  BY <1>1, <1>2, <1>4, <1>5
<1>7. undecoded' \in Seq(Bytes) /\ Len(undecoded') < 3
  <2>1. <<>> \in Seq(Bytes) /\ Len(<<>>) < 3
    OBVIOUS
  <2> QED BY <2>1, <1>1
<1>8. Keeps(kept', stream')
  BY <1>1, <1>2, <1>5
<1> QED BY <1>1, <1>2, <1>5, <1>6, <1>7, <1>8 DEF StreamsInv

LEMMA StreamsInvFinishes ==
  ASSUME StreamsInv, FinishRedactor PROVE StreamsInv'
<1> DEFINE v == Replaced(secrets, withheld)
<1>1. /\ phase = "read" /\ phase' = "done" /\ withheld' = <<>> /\ shown' = shown \o v
      /\ UNCHANGED <<secrets, stream, undecoded, kept, forwarding, forwarded>>
  BY DEF FinishRedactor
<1>2. /\ secrets \in SecretSets /\ Withholds(secrets, shown, withheld)
      /\ Told(secrets, shown \o withheld, forwarded) /\ forwarded \in Seq(Characters)
  BY <1>1 DEF StreamsInv
<1>3. AreWords(secrets) /\ shown \in Texts /\ withheld \in Texts /\ forwarded \in Texts
  BY <1>2, SecretsAre, WordIsText DEF Withholds
<1> DEFINE e == <<>>
<1>4. e \in Texts /\ withheld \o e = withheld /\ forwarded \o e = forwarded
  BY <1>3 DEF Texts
<1> HIDE DEF e
<1>5. v \in Texts /\ Clean(secrets, shown \o v)
  <2>1. /\ Replaced(secrets, withheld \o e) \in Texts
        /\ Clean(secrets, shown \o Replaced(secrets, withheld \o e))
    BY <1>2, <1>3, <1>4, Released DEF Withholds
  <2> QED BY <2>1, <1>4
<1>6. Told(secrets, shown \o v, forwarded)
  <2> SUFFICES ASSUME Apart(secrets) PROVE shown \o v = Replaced(secrets, forwarded)
    BY DEF Told
  <2>1. InParts(secrets, forwarded, shown, withheld)
    BY <1>2 DEF Withholds, Told, InParts
  <2>2. Replaced(secrets, forwarded \o e) = shown \o Replaced(secrets, withheld \o e)
    <3>1. /\ AreWords(secrets) /\ Apart(secrets) /\ e \in Texts /\ forwarded \in Texts
          /\ shown \in Texts /\ withheld \in Texts /\ InParts(secrets, forwarded, shown, withheld)
      BY <1>3, <1>4, <2>1
    <3> QED BY ONLY <3>1, ReplacedInParts
  <2> QED BY <2>2, <1>4
<1>7. shown' \in Texts
  <2> HIDE DEF v
  <2> QED BY <1>1, <1>3, <1>5 DEF Texts
<1> HIDE DEF v
<1>8. Clean(secrets', shown') /\ Told(secrets', shown', forwarded')
  BY <1>1, <1>5, <1>6
<1> QED BY <1>1, <1>7, <1>8 DEF StreamsInv

LEMMA StreamsInvStores ==
  ASSUME StreamsInv, StoreCapture PROVE StreamsInv'
<1>1. /\ phase = "done" /\ phase' = "stored" /\ shown' = Redacted(Captured(kept))
      /\ UNCHANGED <<secrets, stream, undecoded, withheld, kept, forwarding, forwarded>>
  BY DEF StoreCapture
<1>2. secrets \in SecretSets /\ stream \in Seq(Bytes) /\ Keeps(kept, stream) /\ withheld = <<>>
  BY <1>1 DEF StreamsInv
<1>3. Captured(kept) \in Texts
  <2>1. Captured(kept) \in Seq(Characters)
    BY <1>2, CapturedIs
  <2> QED BY <2>1, WordIsText
<1>4. shown' \in Texts /\ Clean(secrets', shown')
  BY <1>1, <1>2, <1>3, SecretsAre, RedactedClean
<1> QED BY <1>1, <1>2, <1>4 DEF StreamsInv

LEMMA StreamsInvStep == StreamsInv /\ [StreamsNext]_StreamVars => StreamsInv'
<1> SUFFICES ASSUME StreamsInv, [StreamsNext]_StreamVars PROVE StreamsInv'
  OBVIOUS
<1>1. CASE \E bytes \in Reads : ReadChunk(bytes)
  BY <1>1, StreamsInvReads
<1>2. CASE EndOfStream
  BY <1>2, StreamsInvEnds
<1>3. CASE FinishRedactor
  BY <1>3, StreamsInvFinishes
<1>4. CASE StoreCapture
  BY <1>4, StreamsInvStores
<1>5. CASE UNCHANGED StreamVars
  BY <1>5 DEF StreamVars, StreamsInv
<1> QED BY <1>1, <1>2, <1>3, <1>4, <1>5 DEF StreamsNext

LEMMA StreamsInvIsSound == StreamsInv => StreamsSound
<1> SUFFICES ASSUME StreamsInv PROVE StreamsSound
  OBVIOUS
<1>1. secrets \in SecretSets /\ IsFiniteSet(secrets) /\ AreWords(secrets) /\ Keeps(kept, stream)
      /\ stream \in Seq(Bytes) /\ forwarded \in Seq(Characters)
  BY SecretsAre DEF StreamsInv
<1>2. phase \in {"reading", "read"} \/ phase \in {"done", "stored"}
  BY DEF StreamsInv
<1>3. NoSecretRecorded
  <2>1. Clean(secrets, shown)
    <3>1. CASE phase \in {"reading", "read"}
      <4>1. Withholds(secrets, shown, withheld)
        BY <3>1 DEF StreamsInv
      <4> QED BY <1>1, <4>1, CleanPart DEF Withholds
    <3>2. CASE phase \in {"done", "stored"}
      BY <3>2 DEF StreamsInv
    <3> QED BY <1>2, <3>1, <3>2
  <2> QED BY <2>1 DEF Clean, NoSecretRecorded
<1>4. HeldBackIsBounded
  <2>1. Len(undecoded) < 3
    BY DEF StreamsInv
  <2>2. ASSUME withheld # <<>> PROVE \E s \in secrets : Len(withheld) < Len(s)
    <3>1. phase \in {"reading", "read"}
      BY <1>2, <2>2 DEF StreamsInv
    <3>2. Withholds(secrets, shown, withheld)
      BY <3>1 DEF StreamsInv
    <3>3. PICK s \in secrets : Begins(withheld, 1, s)
      BY <2>2, <3>2 DEF Withholds
    <3>4. Len(withheld) \in Nat
      BY <3>2, LengthOfText DEF Withholds
    <3>5. Len(withheld) - 1 + 1 = Len(withheld)
      BY <3>4
    <3> QED BY <3>3, <3>5 DEF Begins
  <2> QED BY <2>1, <2>2 DEF HeldBackIsBounded
<1>5. ChunksLeaveNoTrace
  <2>1. forwarding /\ phase # "reading" => forwarded = Lossy(stream)
    BY DEF StreamsInv
  <2>2. ASSUME phase = "done", Independent PROVE shown = Redacted(forwarded)
    <3>1. Apart(secrets)
      BY <2>2 DEF Independent, Apart
    <3>2. shown = Replaced(secrets, forwarded)
      BY <2>2, <3>1 DEF StreamsInv, Told
    <3>3. forwarded \in Texts
      BY <1>1, WordIsText
    <3> QED BY <1>1, <3>1, <3>2, <3>3, RedactedIsReplaced
  <2> QED BY <2>1, <2>2 DEF ChunksLeaveNoTrace
<1>6. CaptureSound
  <2>1. /\ SizeOf(Captured(kept)) =< CaptureLimit
        /\ NoBroken(Lossy(stream)) => NoBroken(Captured(kept))
    BY <1>1, CapturedIs
  <2>2. ~Contains(Lossy(stream), Broken) => ~Contains(Captured(kept), Broken)
    BY <2>1 DEF NoBroken, Contains
  <2> QED BY <1>1, <2>1, <2>2 DEF CaptureSound, Keeps
<1> QED BY <1>3, <1>4, <1>5, <1>6 DEF StreamsSound

(* What a stream leaves behind, whatever the bytes and wherever the reads  *)
(* were cut: no secret in the record, less than a secret held back, the    *)
(* redaction of the whole stream where the secrets share no text, and a    *)
(* capture of the two ends of the stream that breaks no character.         *)
THEOREM StreamsAreSound == StreamsSpec => []StreamsSound
<1>1. StreamsInit => StreamsInv
  BY StreamsInvInit
<1>2. StreamsInv /\ [StreamsNext]_StreamVars => StreamsInv'
  BY StreamsInvStep
<1>3. StreamsInv => StreamsSound
  BY StreamsInvIsSound
<1> QED BY <1>1, <1>2, <1>3, PTL DEF StreamsSpec
=============================================================================
