----------------------------- MODULE Work_proof ------------------------------
(***************************************************************************)
(* Proofs about what an attempt of a task is given, an agent of the pool   *)
(* and the external tools that agent may call, about what the API tells of *)
(* it, and about how the agent is measured by its attempts.                *)
(***************************************************************************)
EXTENDS McpTools, Routing, Reads, Eval, Inductions_proof

(***************************************************************************)
(* Proofs about McpTools, for any finite set of calls, any tools, any      *)
(* limit and any timeouts: with calls that time out, are dropped or are    *)
(* killed at any moment, while the catalogue, the grant and the lease row  *)
(* change under them.                                                      *)
(***************************************************************************)

PCs == {"idle", "asked", "started", "check", "leaving", "done", "killed"} \cup Waits \cup HoldingPC
Records == [pc : PCs, tool : Tools, left : Nat, held : Nat, stale : BOOLEAN]

(* What is true of one call between any two statements. The first three    *)
(* parts relate it to its audit row, the fourth to the grant, the last two *)
(* to the age of the lease row, which no call owns.                        *)
CallHolds(c) ==
  /\ call[c].pc \in {"idle", "asked"} => audit[c] = "none"
  /\ call[c].pc = "done" => audit[c] \notin {"none", "running"}
  /\ call[c].pc \notin {"idle", "asked", "done", "killed"} => audit[c] # "none"
  /\ call[c].pc \notin {"idle", "done", "killed", "leaving"} => call[c].tool \in grant.tools
  /\ (call[c].pc = "queue" /\ call[c].stale /\ slots # NoRow)
        => \A h \in Holders : call[h].held > StaleAge
  /\ (c \in Holders /\ slots # NoRow) => call[c].held >= age

IInv ==
  /\ McpTypeOK
  /\ grant.state = "none" => grant.tools = {}
  /\ ~forgot => Cardinality(Holders) =< Row
  /\ \A c \in Calls : CallHolds(c)

-----------------------------------------------------------------------------
LEMMA Constants ==
  /\ MaxConcurrency \in Nat /\ MaxConcurrency > 0
  /\ CallTimeout \in Nat /\ DiscoveryTimeout \in Nat
  /\ StaleAge \in Nat /\ NoRow \in Nat /\ NoRow = MaxConcurrency + 1
  /\ \A e \in Exposures \cup Permits : e \subseteq Tools
<1>1. /\ MaxConcurrency \in Nat \ {0} /\ CallTimeout \in Nat \ {0} /\ DiscoveryTimeout \in Nat \ {0}
      /\ \A e \in Exposures \cup Permits : e \subseteq Tools
  BY McpConstants
<1> QED BY <1>1 DEF StaleAge, NoRow

LEMMA HoldersFinite ==
  /\ IsFiniteSet(Holders) /\ Cardinality(Holders) \in Nat
  /\ \A T \in SUBSET Holders : IsFiniteSet(T) /\ Cardinality(T) \in Nat /\ Cardinality(T) =< Cardinality(Holders)
<1>1. IsFiniteSet(Holders)
  BY McpConstants, FS_Subset DEF Holders
<1> QED BY <1>1, FS_Subset, FS_CardinalityType

LEMMA GotoIs ==
  ASSUME call \in [Calls -> Records], NEW c \in Calls, NEW pc \in PCs, NEW left \in Nat,
         Goto(c, pc, left)
  PROVE  /\ call' \in [Calls -> Records]
         /\ \A d \in Calls : d # c => call'[d] = call[d]
         /\ call'[c].pc = pc /\ call'[c].tool = call[c].tool
         /\ call'[c].held = call[c].held /\ call'[c].stale = call[c].stale
<1> DEFINE q == [call[c] EXCEPT !.pc = pc, !.left = left]
<1>1. q \in Records /\ q.pc = pc /\ q.tool = call[c].tool /\ q.held = call[c].held /\ q.stale = call[c].stale
  <2>1. call[c] \in Records
    OBVIOUS
  <2> QED BY <2>1 DEF Records
<1>2. call' = [call EXCEPT ![c] = q]
  BY DEF Goto
<1> HIDE DEF q
<1> QED BY <1>1, <1>2

(* One call moves on, and neither takes a slot nor enters the queue; its   *)
(* audit row may get a result.                                             *)
LEMMA MoveKeeps ==
  ASSUME IInv, NEW c \in Calls, NEW status \in Statuses,
         call' \in [Calls -> Records],
         \A d \in Calls : d # c => call'[d] = call[d],
         audit' = [audit EXCEPT ![c] = status],
         UNCHANGED <<grant, slots, age, forgot>>, catalog' \in SUBSET Tools,
         call'[c].pc \in HoldingPC => c \in Holders /\ call'[c].held = call[c].held,
         call'[c].pc \in {"idle", "asked"} => status = "none",
         call'[c].pc = "done" => status \notin {"none", "running"},
         call'[c].pc \notin {"idle", "asked", "done", "killed"} => status # "none",
         call'[c].pc \notin {"idle", "done", "killed", "leaving"} => call'[c].tool \in grant.tools,
         call'[c].pc # "queue"
  PROVE  IInv'
<1>1. McpTypeOK'
  BY DEF IInv, McpTypeOK, Records, PCs
<1>2. \A d \in Calls : audit'[d] = IF d = c THEN status ELSE audit[d]
  BY DEF IInv, McpTypeOK
<1>3. Holders' \subseteq Holders /\ \A h \in Holders' : call'[h].held = call[h].held
  BY DEF Holders
<1>4. ~forgot' => Cardinality(Holders') =< Row'
  <2>1. Cardinality(Holders') =< Cardinality(Holders) /\ Cardinality(Holders') \in Nat /\ Cardinality(Holders) \in Nat
    BY <1>3, HoldersFinite
  <2>2. Row \in Nat /\ Row' = Row
    BY Constants DEF Row, IInv, McpTypeOK
  <2> QED BY <2>1, <2>2 DEF IInv
<1>5. \A d \in Calls : CallHolds(d)'
  <2> SUFFICES ASSUME NEW d \in Calls PROVE CallHolds(d)'
    OBVIOUS
  <2>1. CallHolds(d) /\ NoRow' = NoRow /\ StaleAge' = StaleAge
    BY DEF IInv, NoRow, StaleAge
  <2>2. CASE d = c
    BY <1>2, <1>3, <2>1, <2>2 DEF CallHolds, Holders
  <2>3. CASE d # c
    BY <1>2, <1>3, <2>1, <2>3 DEF CallHolds, Holders
  <2> QED BY <2>2, <2>3
<1>6. (grant.state = "none" => grant.tools = {})'
  BY DEF IInv
<1> QED BY <1>1, <1>4, <1>5, <1>6 DEF IInv

(* The same for a step that is a Goto with a result, if any.               *)
LEMMA StepKeeps ==
  ASSUME IInv, NEW c \in Calls, NEW pc \in PCs \ {"idle", "asked", "queue"}, NEW left \in Nat,
         Goto(c, pc, left), NEW status \in Statuses \ {"none", "running"},
         \/ Finished(c, status)
         \/ UNCHANGED audit /\ pc # "done",
         UNCHANGED <<grant, slots, age, forgot>>, catalog' \in SUBSET Tools,
         pc \in HoldingPC => c \in Holders,
         call[c].pc \notin {"done", "killed"},
         call[c].pc \in {"idle", "asked"} => pc = "killed",
         call[c].pc = "leaving" => pc \in {"killed", "done"}
  PROVE  IInv'
<1>1. call \in [Calls -> Records] /\ audit \in [Calls -> Statuses] /\ CallHolds(c)
  BY DEF IInv, McpTypeOK, Records, PCs
<1>2. /\ call' \in [Calls -> Records]
      /\ \A d \in Calls : d # c => call'[d] = call[d]
      /\ call'[c].pc = pc /\ call'[c].tool = call[c].tool /\ call'[c].held = call[c].held
  BY <1>1, GotoIs
<1> DEFINE last == audit'[c]
<1>3. /\ audit' = [audit EXCEPT ![c] = last] /\ last \in Statuses
      /\ \/ last = audit[c] /\ (pc = "done" => last # "running")
         \/ audit[c] = "running" /\ last = status
  <2>1. CASE Finished(c, status)
    <3> DEFINE result == IF audit[c] = "running" THEN status ELSE audit[c]
    <3>1. audit' = [audit EXCEPT ![c] = result]
      BY <2>1 DEF Finished
    <3>2. result \in Statuses
      BY <1>1
    <3> HIDE DEF result
    <3>3. audit'[c] = result
      BY <1>1, <3>1
    <3>4. result = IF audit[c] = "running" THEN status ELSE audit[c]
      BY DEF result
    <3> QED BY <3>1, <3>2, <3>3, <3>4
  <2>2. CASE UNCHANGED audit /\ pc # "done"
    <3>1. last = audit[c] /\ audit[c] \in Statuses /\ [audit EXCEPT ![c] = audit[c]] = audit
      BY <1>1, <2>2
    <3> QED BY <2>2, <3>1
  <2> QED BY <2>1, <2>2
<1> HIDE DEF last
<1>4. /\ pc \notin {"idle", "asked"} /\ pc # "queue"
      /\ pc = "done" => last \notin {"none", "running"}
      /\ pc \notin {"idle", "asked", "done", "killed"} => last # "none"
  BY <1>1, <1>3 DEF CallHolds
<1>5. pc \notin {"idle", "done", "killed", "leaving"} => call'[c].tool \in grant.tools
  BY <1>1, <1>2 DEF CallHolds
<1> HIDE DEF IInv
<1> QED BY <1>2, <1>3, <1>4, <1>5, MoveKeeps

-----------------------------------------------------------------------------
LEMMA InitHolds == McpInit => IInv
<1> SUFFICES ASSUME McpInit PROVE IInv
  OBVIOUS
<1>1. \A c \in Calls : call[c] = Idle /\ Idle.pc = "idle"
  BY DEF McpInit, Idle
<1>2. Holders = {}
  BY <1>1 DEF Holders, HoldingPC
<1>3. \A c \in Calls : CallHolds(c)
  BY <1>1, <1>2 DEF McpInit, CallHolds
<1>4. Cardinality(Holders) = 0 /\ Row = 0
  BY <1>2, FS_EmptySet DEF McpInit, Row
<1>5. McpTypeOK
  <2>1. Idle \in Records
    BY McpConstants DEF Idle, Records, PCs
  <2>2. call \in [Calls -> Records]
    BY <2>1 DEF McpInit
  <2>3. slots \in 0 .. NoRow /\ age \in 0 .. StaleAge + 1
    BY Constants DEF McpInit
  <2>4. audit \in [Calls -> Statuses]
    BY DEF McpInit, Statuses
  <2> QED BY <2>2, <2>3, <2>4 DEF McpInit, McpTypeOK, Records, PCs
<1> QED BY <1>3, <1>4, <1>5 DEF McpInit, IInv

-----------------------------------------------------------------------------
(* The statements of a call, one by one.                                   *)

LEMMA AskKeeps ==
  ASSUME IInv, NEW c \in Calls, NEW t \in Tools, Ask(c, t) PROVE IInv'
<1> DEFINE granted == grant.state = "active" /\ t \in grant.tools
           q == [Idle EXCEPT !.tool = t, !.pc = IF granted THEN "asked" ELSE "done"]
           status == IF granted THEN "none" ELSE "permission_denied"
<1>1. call' = [call EXCEPT ![c] = q] /\ audit' = [audit EXCEPT ![c] = status]
      /\ UNCHANGED <<grant, catalog, slots, age, forgot>>
  BY DEF Ask
<1>2. /\ q \in Records /\ q.pc = (IF granted THEN "asked" ELSE "done") /\ q.tool = t
      /\ status \in Statuses
  BY DEF Idle, Records, PCs, Statuses, Failures
<1>3. granted => t \in grant.tools
  OBVIOUS
<1> HIDE DEF q, granted
<1>4. call' \in [Calls -> Records] /\ call'[c] = q /\ \A d \in Calls : d # c => call'[d] = call[d]
  BY <1>1, <1>2 DEF IInv, McpTypeOK, Records, PCs
<1>5. catalog' \in SUBSET Tools
  BY <1>1 DEF IInv, McpTypeOK
<1>6. /\ q.pc \notin HoldingPC /\ q.pc # "queue"
      /\ q.pc \in {"idle", "asked"} => status = "none"
      /\ q.pc = "done" => status \notin {"none", "running"}
      /\ q.pc \notin {"idle", "asked", "done", "killed"} => status # "none"
      /\ q.pc \notin {"idle", "done", "killed", "leaving"} => q.tool \in grant.tools
  BY <1>2, <1>3 DEF HoldingPC
<1> HIDE DEF IInv, status
<1> QED BY <1>1, <1>2, <1>4, <1>5, <1>6, MoveKeeps

LEMMA StartKeeps ==
  ASSUME IInv, NEW c \in Calls, StartInvocation(c) PROVE IInv'
<1>1. call \in [Calls -> Records] /\ CallHolds(c) /\ "started" \in PCs /\ catalog' \in SUBSET Tools
  BY DEF IInv, McpTypeOK, Records, PCs, StartInvocation
<1>2. /\ call' \in [Calls -> Records]
      /\ \A d \in Calls : d # c => call'[d] = call[d]
      /\ call'[c].pc = "started" /\ call'[c].tool = call[c].tool
  BY <1>1, GotoIs DEF StartInvocation
<1>3. call'[c].tool \in grant.tools
  BY <1>1, <1>2 DEF CallHolds, StartInvocation
<1>4. audit' = [audit EXCEPT ![c] = "running"] /\ "running" \in Statuses
      /\ UNCHANGED <<grant, slots, age, forgot>>
  BY DEF StartInvocation, Statuses
<1> HIDE DEF IInv
<1> QED BY <1>1, <1>2, <1>3, <1>4, MoveKeeps DEF HoldingPC

LEMMA CallSteps ==
  ASSUME IInv, NEW c \in Calls,
         \/ EnsureTool(c) \/ (\E exposed \in Exposures : DiscoveryEnds(c, exposed))
         \/ DiscoveryFails(c, "protocol_error") \/ QueueTimesOut(c) \/ Leave(c)
         \/ ServerAnswers(c) \/ ToolSucceeds(c) \/ CallTimesOut(c) \/ CallFails(c, "tool_failure")
         \/ FutureDropped(c) \/ Kill(c)
  PROVE  IInv'
<1> USE Constants
<1> DEFINE Results == Statuses \ {"none", "running"}
<1>1. /\ {"success", "cancelled"} \cup Failures \subseteq Results
      /\ catalog \in SUBSET Tools
      /\ c \in Holders <=> call[c].pc \in HoldingPC
  BY DEF Statuses, Failures, IInv, McpTypeOK, Holders
<1>2. /\ {"leaving", "done", "killed", "check", "discover", "connect", "list", "invoke", "recorded"}
           \subseteq PCs \ {"idle", "asked", "queue"}
      /\ {"success", "cancelled", "timeout", "server_unavailable", "invalid_schema", "protocol_error",
           "permission_denied", "tool_failure"} \subseteq Results
  BY <1>1 DEF PCs, Waits, HoldingPC, Failures
<1> HIDE DEF IInv, Results
<1> DEFINE From(pc, left, status) ==
              /\ Goto(c, pc, left) /\ (Finished(c, status) \/ (UNCHANGED audit /\ pc # "done"))
              /\ UNCHANGED <<grant, slots, age, forgot>> /\ catalog' \in SUBSET Tools
              /\ pc \in HoldingPC => call[c].pc \in HoldingPC
              /\ call[c].pc \notin {"done", "killed"}
              /\ call[c].pc \in {"idle", "asked"} => pc = "killed"
              /\ call[c].pc = "leaving" => pc \in {"killed", "done"}
<1>3. ASSUME NEW pc \in {"leaving", "done", "killed", "check", "discover", "connect", "list", "invoke", "recorded"},
             NEW left \in Nat, NEW status \in Results, From(pc, left, status)
      PROVE  IInv'
  BY <1>1, <1>2, <1>3, StepKeeps DEF Results
<1>4. CASE EnsureTool(c)
  <2>1. /\ call[c].pc = "started" /\ UNCHANGED <<grant, slots, age, forgot>> /\ catalog' \in SUBSET Tools
    BY <1>1, <1>4 DEF EnsureTool
  <2>2. CASE Fail(c, "server_unavailable")
    <3>1. From("leaving", 0, "server_unavailable")
      BY <2>1, <2>2 DEF Fail, HoldingPC
    <3> QED BY <1>2, <1>3, <3>1
  <2>3. CASE Goto(c, "check", 0) /\ UNCHANGED audit
    <3>1. From("check", 0, "success")
      BY <2>1, <2>3 DEF HoldingPC
    <3> QED BY <1>2, <1>3, <3>1
  <2>4. CASE Goto(c, "discover", DiscoveryTimeout) /\ UNCHANGED audit
    <3>1. From("discover", DiscoveryTimeout, "success")
      BY <2>1, <2>4 DEF HoldingPC
    <3> QED BY <1>2, <1>3, <3>1
  <2> QED BY <1>4, <2>2, <2>3, <2>4 DEF EnsureTool
<1>5. CASE \E exposed \in Exposures : DiscoveryEnds(c, exposed)
  <2>1. From("check", 0, "success") \/ From("leaving", 0, "invalid_schema")
    BY <1>5 DEF DiscoveryEnds, Fail, HoldingPC
  <2> QED BY <1>2, <1>3, <2>1
<1>6. CASE DiscoveryFails(c, "protocol_error") \/ QueueTimesOut(c)
  <2>1. From("leaving", 0, "protocol_error") \/ From("leaving", 0, "timeout")
    BY <1>1, <1>6 DEF DiscoveryFails, QueueTimesOut, Fail, HoldingPC
  <2> QED BY <1>2, <1>3, <2>1
<1>7. CASE Leave(c)
  <2>1. /\ call[c].pc = "leaving" /\ Goto(c, "done", 0) /\ Finished(c, "cancelled")
        /\ UNCHANGED <<grant, slots, age, forgot>> /\ catalog' \in SUBSET Tools
    BY <1>1, <1>7 DEF Leave
  <2>2. "done" \notin HoldingPC
    BY DEF HoldingPC
  <2>3. From("done", 0, "cancelled")
    BY <2>1, <2>2
  <2> QED BY <1>2, <1>3, <2>3
<1>8. CASE ServerAnswers(c)
  <2>1. CASE call[c].pc = "connect"
    <3>1. From("list", CallTimeout, "success")
      BY <1>1, <1>8, <2>1 DEF ServerAnswers, Following, HoldingPC
    <3> QED BY <1>2, <1>3, <3>1
  <2>2. CASE call[c].pc = "list"
    <3>1. From("invoke", CallTimeout, "success")
      BY <1>1, <1>8, <2>2 DEF ServerAnswers, Following, HoldingPC
    <3> QED BY <1>2, <1>3, <3>1
  <2> QED BY <1>8, <2>1, <2>2 DEF ServerAnswers
<1>9. CASE ToolSucceeds(c) \/ CallTimesOut(c) \/ CallFails(c, "tool_failure")
  <2>1. From("recorded", 0, "success") \/ From("recorded", 0, "timeout") \/ From("recorded", 0, "tool_failure")
    BY <1>1, <1>9 DEF ToolSucceeds, CallTimesOut, CallFails, Recorded, HoldingPC
  <2> QED BY <1>2, <1>3, <2>1
<1>10. CASE FutureDropped(c)
  <2>1. From("recorded", 0, "success") \/ From("leaving", 0, "success")
    BY <1>1, <1>10 DEF FutureDropped, HoldingPC, Waits
  <2> QED BY <1>2, <1>3, <2>1
<1>11. CASE Kill(c)
  <2>1. From("killed", 0, "success")
    BY <1>1, <1>11 DEF Kill, HoldingPC
  <2> QED BY <1>2, <1>3, <2>1
<1> QED BY <1>4, <1>5, <1>6, <1>7, <1>8, <1>9, <1>10, <1>11

(* A call enters the queue having looked at the age of the row.            *)
LEMMA QueueKeeps ==
  ASSUME IInv, NEW c \in Calls, CheckPolicy(c) PROVE IInv'
<1> USE Constants
<1>1. /\ call \in [Calls -> Records] /\ CallHolds(c) /\ age \in Nat /\ call[c].pc = "check"
      /\ catalog \in SUBSET Tools
  BY DEF IInv, McpTypeOK, Records, PCs, CheckPolicy
<1>2. CASE Fail(c, "permission_denied") /\ UNCHANGED <<grant, catalog, slots, age, forgot>>
  <2>1. "leaving" \in PCs \ {"idle", "asked", "queue"} /\ "permission_denied" \in Statuses \ {"none", "running"}
        /\ "leaving" \notin HoldingPC
    BY DEF PCs, Statuses, Failures, HoldingPC
  <2> HIDE DEF IInv
  <2> QED BY <1>1, <1>2, <2>1, StepKeeps DEF Fail
<1>3. CASE /\ call' = [call EXCEPT ![c].pc = "queue", ![c].left = CallTimeout, ![c].stale = (age > StaleAge)]
           /\ UNCHANGED <<grant, catalog, slots, age, audit, forgot>>
  <2> DEFINE late == age > StaleAge
             q == [call[c] EXCEPT !.pc = "queue", !.left = CallTimeout, !.stale = late]
  <2>1. /\ q \in Records /\ q.pc = "queue" /\ q.tool = call[c].tool /\ q.stale = late
    <3>1. call[c] \in Records /\ late \in BOOLEAN
      BY <1>1
    <3> HIDE DEF late
    <3> QED BY <3>1 DEF Records, PCs, Waits
  <2>2. call' = [call EXCEPT ![c] = q]
    BY <1>3
  <2> HIDE DEF q
  <2>3. call' \in [Calls -> Records] /\ call'[c] = q /\ \A d \in Calls : d # c => call'[d] = call[d]
    BY <1>1, <2>1, <2>2
  <2>4. Holders' = Holders /\ \A h \in Holders : call'[h] = call[h] /\ c \notin Holders
    BY <1>1, <2>1, <2>3 DEF Holders, HoldingPC
  <2>5. McpTypeOK'
    BY <1>3, <2>3 DEF IInv, McpTypeOK, Records, PCs
  <2>6. (slots # NoRow /\ late) => \A h \in Holders : call[h].held > StaleAge
    <3> SUFFICES ASSUME slots # NoRow, age > StaleAge, NEW h \in Holders PROVE call[h].held > StaleAge
      OBVIOUS
    <3>1. h \in Calls /\ call[h].held \in Nat /\ call[h].held >= age
      BY <1>1 DEF Holders, IInv, CallHolds, Records
    <3> QED BY <1>1, <3>1
  <2>7. \A d \in Calls : CallHolds(d)'
    <3> SUFFICES ASSUME NEW d \in Calls PROVE CallHolds(d)'
      OBVIOUS
    <3>1. CallHolds(d) /\ NoRow' = NoRow /\ StaleAge' = StaleAge
      BY DEF IInv, NoRow, StaleAge
    <3>2. CASE d = c
      BY <1>1, <1>3, <2>1, <2>3, <2>4, <2>6, <3>1, <3>2 DEF CallHolds
    <3>3. CASE d # c
      BY <1>3, <2>3, <2>4, <3>1, <3>3 DEF CallHolds, Holders
    <3> QED BY <3>2, <3>3
  <2>8. ~forgot' => Cardinality(Holders') =< Row'
    BY <1>3, <2>4 DEF IInv, Row
  <2> QED BY <1>3, <2>5, <2>7, <2>8 DEF IInv
<1> QED BY <1>2, <1>3 DEF CheckPolicy

(* Refreshed, nobody's row is stale.                                       *)
LEMMA RefreshIs ==
  ASSUME NEW calls \in [Calls -> Records]
  PROVE  /\ Refresh(calls) \in [Calls -> Records]
         /\ \A d \in Calls : /\ Refresh(calls)[d].pc = calls[d].pc /\ Refresh(calls)[d].tool = calls[d].tool
                           /\ Refresh(calls)[d].held = calls[d].held /\ ~Refresh(calls)[d].stale
<1>1. \A d \in Calls :
        /\ [calls[d] EXCEPT !.stale = FALSE] \in Records
        /\ [calls[d] EXCEPT !.stale = FALSE].pc = calls[d].pc
        /\ [calls[d] EXCEPT !.stale = FALSE].tool = calls[d].tool
        /\ [calls[d] EXCEPT !.stale = FALSE].held = calls[d].held
        /\ ~[calls[d] EXCEPT !.stale = FALSE].stale
  BY DEF Records
<1> QED BY <1>1 DEF Refresh

(* The call that takes a slot is one more holder and one more counted: the *)
(* count begins anew only where nobody holds one, or it is known that some *)
(* do.                                                                     *)
LEMMA AcquireKeeps ==
  ASSUME IInv, NEW c \in Calls, Acquire(c) PROVE IInv'
<1> USE Constants
<1>1. /\ call \in [Calls -> Records] /\ CallHolds(c) /\ call[c].pc = "queue" /\ Count(c) < MaxConcurrency
      /\ slots \in 0 .. NoRow
  BY DEF IInv, McpTypeOK, Records, PCs, Acquire, HasRoom
<1>2. Row \in Nat /\ Count(c) \in Nat /\ Row' = Count(c) + 1 /\ slots' = Count(c) + 1 /\ slots' # NoRow
  <2>1. Row \in Nat
    BY <1>1 DEF Row
  <2>2. Count(c) \in Nat
    BY <2>1 DEF Count
  <2> QED BY <1>1, <2>1, <2>2 DEF Acquire, Row, NoRow
<1> DEFINE q == [call[c] EXCEPT !.pc = "connect", !.left = DiscoveryTimeout, !.held = 0]
           calls == [call EXCEPT ![c] = q]
<1>3. q \in Records /\ q.pc = "connect" /\ q.tool = call[c].tool /\ q.held = 0
  <2>1. call[c] \in Records
    BY <1>1
  <2> QED BY <2>1 DEF Records, PCs, Waits
<1>4. call' = Refresh(calls)
  BY DEF Acquire
<1> HIDE DEF q
<1>5. calls \in [Calls -> Records] /\ calls[c] = q /\ \A d \in Calls : d # c => calls[d] = call[d]
  BY <1>1, <1>3
<1> HIDE DEF calls
<1>6. /\ call' \in [Calls -> Records]
      /\ \A d \in Calls : ~call'[d].stale /\ (d # c => /\ call'[d].pc = call[d].pc /\ call'[d].tool = call[d].tool
                                                       /\ call'[d].held = call[d].held)
      /\ call'[c].pc = "connect" /\ call'[c].tool = call[c].tool
  BY <1>3, <1>4, <1>5, RefreshIs
<1>7. Holders' = Holders \cup {c} /\ c \notin Holders
  BY <1>1, <1>6 DEF Holders, HoldingPC
<1>8. Cardinality(Holders') = Cardinality(Holders) + 1
  BY <1>7, HoldersFinite, FS_AddElement
<1>9. ~forgot' => Cardinality(Holders') =< Row'
  <2> SUFFICES ASSUME ~forgot' PROVE Cardinality(Holders) =< Count(c)
    BY <1>2, <1>8, HoldersFinite
  <2>1. ~forgot /\ (Resets(c) => Holders = {})
    BY DEF Acquire
  <2>2. CASE Resets(c)
    BY <1>2, <2>1, <2>2, FS_EmptySet
  <2>3. CASE ~Resets(c)
    BY <2>1, <2>3 DEF Count, IInv
  <2> QED BY <2>2, <2>3
<1>10. McpTypeOK'
  <2>1. slots' \in 0 .. NoRow /\ age' \in 0 .. StaleAge + 1 /\ forgot' \in BOOLEAN
    BY <1>1, <1>2 DEF Acquire, IInv, McpTypeOK
  <2> QED BY <1>6, <2>1 DEF Acquire, IInv, McpTypeOK, Records, PCs
<1>11. \A d \in Calls : CallHolds(d)'
  <2> SUFFICES ASSUME NEW d \in Calls PROVE CallHolds(d)'
    OBVIOUS
  <2>1. CallHolds(d) /\ call'[d].held \in Nat /\ UNCHANGED <<grant, audit>> /\ age' = 0 /\ ~call'[d].stale
    BY <1>6 DEF IInv, Acquire, Records
  <2>2. CASE d = c
    BY <1>1, <1>6, <2>1, <2>2 DEF CallHolds
  <2>3. CASE d # c
    BY <1>6, <2>1, <2>3 DEF CallHolds
  <2> QED BY <2>2, <2>3
<1> QED BY <1>9, <1>10, <1>11 DEF IInv, Acquire

(* A slot given back: one holder and, if the row is there, one counted     *)
(* less; the row is younger than before.                                   *)
LEMMA ReleaseKeeps ==
  ASSUME IInv, NEW c \in Calls, Release(c) PROVE IInv'
<1> USE Constants
<1>1. /\ call \in [Calls -> Records] /\ CallHolds(c) /\ call[c].pc = "recorded" /\ c \in Holders
      /\ slots \in 0 .. NoRow
  BY DEF IInv, McpTypeOK, Records, PCs, Release, Holders, HoldingPC
<1> DEFINE q == [call[c] EXCEPT !.pc = "leaving"]
           calls == [call EXCEPT ![c] = q]
<1>2. q \in Records /\ q.pc = "leaving"
  <2>1. call[c] \in Records
    BY <1>1
  <2> QED BY <2>1 DEF Records, PCs
<1>3. call' = IF slots = NoRow THEN calls ELSE Refresh(calls)
  BY DEF Release
<1> HIDE DEF q
<1>4. calls \in [Calls -> Records] /\ calls[c] = q /\ \A d \in Calls : d # c => calls[d] = call[d]
  BY <1>1, <1>2
<1> HIDE DEF calls
<1>5. /\ call' \in [Calls -> Records] /\ call'[c].pc = "leaving"
      /\ \A d \in Calls : d # c => /\ call'[d].pc = call[d].pc /\ call'[d].tool = call[d].tool
                                  /\ call'[d].held = call[d].held
      /\ slots # NoRow => \A d \in Calls : ~call'[d].stale
  <2>1. CASE slots = NoRow
    BY <1>2, <1>3, <1>4, <2>1
  <2>2. CASE slots # NoRow
    BY <1>2, <1>3, <1>4, <2>2, RefreshIs
  <2> QED BY <2>1, <2>2
<1>6. Holders' = Holders \ {c}
  BY <1>1, <1>5 DEF Holders, HoldingPC
<1>7. Cardinality(Holders') = Cardinality(Holders) - 1
  BY <1>1, <1>6, HoldersFinite, FS_RemoveElement
<1>8. /\ Row \in Nat /\ Row' = (IF Row = 0 THEN 0 ELSE Row - 1)
      /\ slots' \in 0 .. NoRow /\ (slots' = NoRow <=> slots = NoRow)
      /\ slots # NoRow => age' = 0
      /\ slots = NoRow => age' = age
  BY <1>1 DEF Release, Row, NoRow
<1>9. ~forgot' => Cardinality(Holders') =< Row'
  BY <1>7, <1>8, HoldersFinite DEF Release, IInv
<1>10. McpTypeOK'
  <2>1. age' \in 0 .. StaleAge + 1
    BY <1>8 DEF IInv, McpTypeOK
  <2> QED BY <1>5, <1>8, <2>1 DEF Release, IInv, McpTypeOK, Records, PCs
<1>11. \A d \in Calls : CallHolds(d)'
  <2> SUFFICES ASSUME NEW d \in Calls PROVE CallHolds(d)'
    OBVIOUS
  <2>1. CallHolds(d) /\ call'[d].held \in Nat /\ UNCHANGED <<grant, audit>> /\ NoRow' = NoRow /\ StaleAge' = StaleAge
    BY <1>5 DEF IInv, Release, Records, NoRow, StaleAge
  <2>2. CASE d = c
    BY <1>1, <1>5, <1>6, <2>1, <2>2 DEF CallHolds
  <2>3. CASE d # c
    <3>1. call'[d].pc = call[d].pc /\ call'[d].tool = call[d].tool /\ call'[d].held = call[d].held
          /\ (d \in Holders' <=> d \in Holders)
      BY <1>5, <1>6, <2>3
    <3> QED BY <1>5, <1>8, <2>1, <3>1 DEF CallHolds
  <2> QED BY <2>2, <2>3
<1> QED BY <1>9, <1>10, <1>11 DEF IInv, Release

-----------------------------------------------------------------------------
(* The session, the settings, and time.                                    *)

LEMMA GrantKeeps ==
  ASSUME IInv, (\E permitted \in Permits : CreateGrant(permitted)) \/ RevokeGrant PROVE IInv'
<1>1. UNCHANGED <<catalog, slots, age, call, audit, forgot>>
      /\ grant' \in [state : {"none", "active", "revoked"}, tools : SUBSET Tools]
      /\ grant'.state # "none" /\ grant.tools \subseteq grant'.tools
  <2>1. /\ grant \in [state : {"none", "active", "revoked"}, tools : SUBSET Tools]
        /\ catalog \in SUBSET Tools /\ (grant.state = "none" => grant.tools = {})
    BY DEF IInv, McpTypeOK
  <2>2. CASE \E permitted \in Permits : CreateGrant(permitted)
    BY <2>1, <2>2 DEF CreateGrant
  <2>3. CASE RevokeGrant
    BY <2>1, <2>3 DEF RevokeGrant
  <2> QED BY <2>2, <2>3
<1>2. McpTypeOK'
  BY <1>1 DEF IInv, McpTypeOK, Statuses, NoRow, StaleAge
<1>3. \A c \in Calls : CallHolds(c)'
  BY <1>1 DEF IInv, CallHolds, Holders, NoRow, StaleAge
<1>4. ~forgot' => Cardinality(Holders') =< Row'
  BY <1>1 DEF IInv, Holders, Row, NoRow
<1> QED BY <1>1, <1>2, <1>3, <1>4 DEF IInv

LEMMA CacheKeeps ==
  ASSUME IInv, (\E exposed \in Exposures : Rediscover(exposed)) \/ RemoveServerCache PROVE IInv'
<1> USE Constants
<1>1. UNCHANGED <<grant, call, audit>> /\ catalog' \in SUBSET Tools
  BY DEF Rediscover, RemoveServerCache
<1>2. CASE \E exposed \in Exposures : Rediscover(exposed)
  <2>1. UNCHANGED <<slots, age, forgot>>
    BY <1>2 DEF Rediscover
  <2> QED BY <1>1, <2>1 DEF IInv, McpTypeOK, CallHolds, Holders, Row, NoRow, StaleAge, Statuses
<1>3. CASE RemoveServerCache
  <2>1. slots' = NoRow /\ age' = 0 /\ Row' = 0 /\ (~forgot' => ~forgot /\ Holders' = {}) /\ forgot' \in BOOLEAN
    BY <1>1, <1>3 DEF RemoveServerCache, Row, NoRow, Holders, IInv, McpTypeOK
  <2>2. ~forgot' => Cardinality(Holders') =< Row'
    <3>1. Cardinality({}) = 0
      BY FS_EmptySet
    <3> QED BY <2>1, <3>1
  <2>3. McpTypeOK'
    BY <1>1, <2>1 DEF IInv, McpTypeOK, Statuses, NoRow
  <2>4. \A c \in Calls : CallHolds(c)'
    BY <1>1, <2>1 DEF IInv, CallHolds, Holders, NoRow
  <2> QED BY <1>1, <2>2, <2>3, <2>4 DEF IInv
<1> QED BY <1>2, <1>3

(* Time makes the row and whoever holds a slot older alike.                *)
LEMMA TickKeeps ==
  ASSUME IInv, Tick PROVE IInv'
<1> USE Constants
<1>1. call \in [Calls -> Records] /\ age \in 0 .. StaleAge + 1
  BY DEF IInv, McpTypeOK, Records, PCs
<1>0. age' = IF age > StaleAge \/ slots = NoRow THEN age ELSE age + 1
  BY DEF Tick
<1> DEFINE q(c) == [call[c] EXCEPT !.left = IF call[c].pc \in Waits THEN call[c].left - 1 ELSE call[c].left,
                                   !.held = IF c \in Holders /\ call[c].held =< StaleAge
                                            THEN call[c].held + 1 ELSE call[c].held]
<1>2. ASSUME NEW c \in Calls
      PROVE  /\ q(c) \in Records /\ q(c).pc = call[c].pc /\ q(c).tool = call[c].tool /\ q(c).stale = call[c].stale
             /\ q(c).held >= call[c].held
             /\ (c \in Holders /\ call[c].held =< StaleAge) => q(c).held = call[c].held + 1
  <2>1. call[c] \in Records /\ (call[c].pc \in Waits => call[c].left > 0)
    BY <1>1 DEF Tick
  <2> DEFINE left == IF call[c].pc \in Waits THEN call[c].left - 1 ELSE call[c].left
             hold == IF c \in Holders /\ call[c].held =< StaleAge THEN call[c].held + 1 ELSE call[c].held
  <2>2. left \in Nat /\ hold \in Nat /\ hold >= call[c].held
        /\ ((c \in Holders /\ call[c].held =< StaleAge) => hold = call[c].held + 1)
    BY <2>1 DEF Records
  <2> HIDE DEF left, hold
  <2>3. q(c) = [call[c] EXCEPT !.left = left, !.held = hold]
    BY DEF left, hold
  <2> HIDE DEF q
  <2> QED BY <2>1, <2>2, <2>3 DEF Records
<1>3. call' = [c \in Calls |-> q(c)]
  BY DEF Tick
<1> HIDE DEF q
<1>4. call' \in [Calls -> Records] /\ \A c \in Calls : call'[c] = q(c)
  BY <1>2, <1>3
<1>5. Holders' = Holders /\ UNCHANGED <<grant, catalog, slots, audit, forgot>>
  BY <1>2, <1>4 DEF Holders, Tick
<1>6. McpTypeOK'
  <2>1. age' \in 0 .. StaleAge + 1
    BY <1>0, <1>1
  <2> QED BY <1>4, <1>5, <2>1 DEF IInv, McpTypeOK, Records, PCs
<1>7. \A c \in Calls : CallHolds(c)'
  <2> SUFFICES ASSUME NEW c \in Calls PROVE CallHolds(c)'
    OBVIOUS
  <2>1. CallHolds(c) /\ NoRow' = NoRow /\ StaleAge' = StaleAge
    BY DEF IInv, NoRow, StaleAge
  <2>2. \A h \in Holders : h \in Calls /\ call[h].held \in Nat /\ call'[h].held \in Nat /\ call'[h].held >= call[h].held
    BY <1>1, <1>2, <1>4 DEF Holders, Records
  <2>3. (c \in Holders /\ slots # NoRow) => call'[c].held >= age'
    <3> SUFFICES ASSUME c \in Holders, slots # NoRow PROVE call'[c].held >= age'
      OBVIOUS
    <3>1. call[c].held >= age /\ call[c].held \in Nat /\ call'[c].held \in Nat
      BY <2>1, <2>2 DEF CallHolds
    <3>2. CASE age > StaleAge
      BY <1>0, <1>1, <2>2, <3>1, <3>2
    <3>3. CASE age =< StaleAge
      <4>1. age' = age + 1
        BY <1>0, <1>1, <3>3
      <4>2. CASE call[c].held =< StaleAge
        BY <1>1, <1>2, <1>4, <3>1, <4>1, <4>2
      <4>3. CASE call[c].held > StaleAge
        BY <1>1, <2>2, <3>1, <3>3, <4>1, <4>3
      <4> QED BY <3>1, <4>2, <4>3
    <3> QED BY <1>1, <3>2, <3>3
  <2>4. call'[c].pc = call[c].pc /\ call'[c].tool = call[c].tool /\ call'[c].stale = call[c].stale
    BY <1>2, <1>4
  <2>5. (\A h \in Holders : call[h].held > StaleAge) => \A h \in Holders : call'[h].held > StaleAge
    BY <2>2
  <2> QED BY <1>5, <2>1, <2>3, <2>4, <2>5 DEF CallHolds
<1>8. ~forgot' => Cardinality(Holders') =< Row'
  BY <1>5 DEF IInv, Row, NoRow
<1> QED BY <1>5, <1>6, <1>7, <1>8 DEF IInv

LEMMA NextKeeps == IInv /\ [McpNext]_McpVars => IInv'
<1> SUFFICES ASSUME IInv, [McpNext]_McpVars PROVE IInv'
  OBVIOUS
<1>1. CASE \E c \in Calls : ProcessStep(c)
  <2>1. PICK c \in Calls : ProcessStep(c)
    BY <1>1
  <2> QED BY <2>1, StartKeeps, CallSteps, QueueKeeps, AcquireKeeps, ReleaseKeeps DEF ProcessStep
<1>2. CASE \E c \in Calls : FutureDropped(c) \/ Kill(c) \/ \E t \in Tools : Ask(c, t)
  BY <1>2, CallSteps, AskKeeps
<1>3. CASE (\E permitted \in Permits : CreateGrant(permitted)) \/ RevokeGrant
  BY <1>3, GrantKeeps
<1>4. CASE (\E exposed \in Exposures : Rediscover(exposed)) \/ RemoveServerCache
  BY <1>4, CacheKeeps
<1>5. CASE Tick
  BY <1>5, TickKeeps
<1>6. CASE UNCHANGED McpVars
  BY <1>6 DEF McpVars, IInv, McpTypeOK, CallHolds, Holders, Row, NoRow, StaleAge, Statuses
<1> QED BY <1>1, <1>2, <1>3, <1>4, <1>5, <1>6 DEF McpNext

(* Of every `factory mcp call`: where it is, its audit row, its tool and   *)
(* the lease agree.                                                        *)
THEOREM McpHolds == McpSpec => []IInv
  BY InitHolds, NextKeeps, PTL DEF McpSpec

(* The state is well typed, the count of the lease covers every call in    *)
(* progress and keeps to the limit unless the row was reset or removed     *)
(* under one, only a call of more than twice the timeout loses its slot to *)
(* a reset, the server sees granted tools only, and every call that ended  *)
(* by itself has a result in the audit trail.                              *)
THEOREM ToolsAreSound == McpSpec => []ToolsSound
<1>1. IInv => ToolsSound
  <2> SUFFICES ASSUME IInv PROVE ToolsSound
    OBVIOUS
  <2>1. McpTypeOK
    BY DEF IInv
  <2>2. SlotsCoverCalls
    BY Constants DEF IInv, McpTypeOK, SlotsCoverCalls
  <2>3. StaleMeansOld
    BY DEF IInv, CallHolds, StaleMeansOld
  <2>4. OnlyGrantedToolsReachServer
    BY DEF IInv, CallHolds, OnlyGrantedToolsReachServer
  <2>5. EndedCallsAudited
    BY DEF IInv, CallHolds, EndedCallsAudited
  <2> QED BY <2>1, <2>2, <2>3, <2>4, <2>5 DEF ToolsSound
<1> QED BY <1>1, McpHolds, PTL

(* A result in the audit trail is final: neither another result nor the    *)
(* guards that are dropped after it replace it.                            *)
THEOREM AuditIsFinal == McpSpec => AuditFinal
<1>1. IInv /\ [McpNext]_McpVars
        => [\A c \in Calls : audit[c] \notin {"none", "running"} => audit'[c] = audit[c]]_audit
  <2> SUFFICES ASSUME IInv, [McpNext]_McpVars, NEW c \in Calls, audit[c] \notin {"none", "running"}
               PROVE  audit'[c] = audit[c]
    OBVIOUS
  <2>1. audit \in [Calls -> Statuses]
    BY DEF IInv, McpTypeOK
  <2>2. ASSUME NEW d \in Calls, NEW status, Finished(d, status) PROVE audit'[c] = audit[c]
    BY <2>1, <2>2 DEF Finished
  <2>3. ASSUME NEW d \in Calls, ProcessStep(d) \/ FutureDropped(d) \/ Kill(d) \/ \E t \in Tools : Ask(d, t)
        PROVE  audit'[c] = audit[c]
    <3>1. call[d].pc \in {"idle", "asked"} => audit[d] = "none"
      BY DEF IInv, CallHolds
    <3>2. CASE StartInvocation(d) \/ \E t \in Tools : Ask(d, t)
      BY <2>1, <3>1, <3>2 DEF StartInvocation, Ask
    <3>3. CASE UNCHANGED audit
      BY <3>3
    <3>4. CASE EnsureTool(d) \/ CheckPolicy(d) \/ \E exposed \in Exposures : DiscoveryEnds(d, exposed)
      BY <2>2, <3>3, <3>4 DEF EnsureTool, CheckPolicy, DiscoveryEnds, Fail
    <3>5. CASE DiscoveryFails(d, "protocol_error") \/ QueueTimesOut(d) \/ Leave(d)
      BY <2>2, <3>5 DEF DiscoveryFails, QueueTimesOut, Leave, Fail
    <3>6. CASE ToolSucceeds(d) \/ CallTimesOut(d) \/ CallFails(d, "tool_failure")
      BY <2>2, <3>6 DEF ToolSucceeds, CallTimesOut, CallFails, Recorded
    <3>7. CASE Acquire(d) \/ Release(d) \/ ServerAnswers(d) \/ FutureDropped(d) \/ Kill(d)
      BY <3>7 DEF Acquire, Release, ServerAnswers, FutureDropped, Kill
    <3> QED BY <2>3, <3>2, <3>4, <3>5, <3>6, <3>7 DEF ProcessStep
  <2>4. CASE \/ (\E permitted \in Permits : CreateGrant(permitted)) \/ RevokeGrant \/ RemoveServerCache
             \/ (\E exposed \in Exposures : Rediscover(exposed)) \/ Tick \/ UNCHANGED McpVars
    BY <2>4 DEF CreateGrant, RevokeGrant, RemoveServerCache, Rediscover, Tick, McpVars
  <2> QED BY <2>3, <2>4 DEF McpNext
<1> QED BY <1>1, McpHolds, PTL DEF McpSpec, AuditFinal

-----------------------------------------------------------------------------
(***************************************************************************)
(* What the routing of attempts promises, for every pool, every limit and  *)
(* everything that may be known of the agents.                             *)
(***************************************************************************)

LEMMA PoolIs ==
  /\ Pool \in Seq(Agents) /\ Pool # <<>> /\ Len(Pool) \in Nat \ {0} /\ DOMAIN Pool = 1 .. Len(Pool)
  /\ ToSet(Pool) = Agents /\ Agents # {} /\ IsFiniteSet(Agents) /\ NoAgent \notin Agents
  /\ \A a \in Agents : Limit[a] \in Nat \ {0} /\ NameRank[a] \in Nat
<1>1. Pool \in Seq(STRING \ {NoAgent}) /\ Len(Pool) > 0 /\ DOMAIN Pool = 1 .. Len(Pool) /\ Len(Pool) \in Nat \ {0}
  BY RoutingConstants
<1>2. Agents = ToSet(Pool)
  BY DEF Agents, ToSet, Range
<1>3. Pool \in Seq(Agents) /\ Agents \subseteq STRING \ {NoAgent}
  BY <1>1, <1>2 DEF ToSet
<1>4. Pool[1] \in Agents /\ Pool # <<>>
  BY <1>1, <1>2 DEF ToSet
<1>5. IsFiniteSet(Agents)
  BY <1>2, <1>3, ContentsFinite
<1>6. \A a \in Agents : Limit[a] \in Nat \ {0} /\ NameRank[a] \in Nat
  BY RoutingConstants DEF Agents
<1> QED BY <1>1, <1>2, <1>3, <1>4, <1>5, <1>6

LEMMA PositionIs ==
  \A a \in Agents : Position(a) \in DOMAIN Pool /\ Pool[Position(a)] = a
  BY PoolIs DEF Position, ToSet

Loads == [Agents -> Nat]

LEMMA AtIndexIs ==
  ASSUME NEW S, NEW s \in Seq(S), s # <<>>, NEW i \in Nat
  PROVE  AtIndex(s, i) \in S
<1>1. Len(s) \in Nat \ {0}
  OBVIOUS
<1>2. i % Len(s) \in 0 .. Len(s) - 1
  BY <1>1
<1>3. (i % Len(s)) + 1 \in 1 .. Len(s)
  BY <1>1, <1>2
<1> QED BY <1>3 DEF AtIndex

LEMMA LeastLoadedIs ==
  ASSUME NEW l \in Loads
  PROVE  LeastLoaded(l) \in Seq(Agents) /\ LeastLoaded(l) # <<>>
<1> DEFINE S == {a \in Agents : \A b \in Agents : l[a] =< l[b]}
<1>1. \E a \in Agents : \A b \in Agents : l[a] =< l[b]
  BY PoolIs, LeastMember DEF Loads
<1>2. S # {} /\ S \subseteq Agents
  BY <1>1
<1>3. LeastLoaded(l) = Sift(Pool, S)
  BY DEF LeastLoaded
<1> HIDE DEF S
<1>4. Sift(Pool, S) \in Seq(Agents) /\ ToSet(Sift(Pool, S)) = Agents \cap S
  BY PoolIs, SiftContents
<1>5. ToSet(Sift(Pool, S)) # {}
  BY <1>2, <1>4
<1> QED BY <1>3, <1>4, <1>5, ContentsInSet

(* Round robin: an agent that may run the operation and is installed.      *)
Eligible(f, a) == a \in f.permitted \cap f.installed
Answer(f, c) == /\ c \in [agent : Agents \cup {NoAgent}, reserved : BOOLEAN]
                /\ c.agent # NoAgent => Eligible(f, c.agent)

LEMMA RoundRobinIs ==
  ASSUME NEW f, IsFact(f), NEW l \in Loads, NEW index \in Nat
  PROVE  Answer(f, RoundRobin(f, l, index)) /\ ~RoundRobin(f, l, index).reserved
<1> DEFINE first == SelectWithCapacity(l, index)
           rest == Sift(FromIndex(index), f.permitted)
           chosen == SelectForTask(l, index, f.permitted)
<1>1. first \in Agents
  BY LeastLoadedIs, AtIndexIs DEF SelectWithCapacity
<1>2. f.permitted \subseteq Agents /\ f.installed \subseteq Agents
  BY DEF IsFact
<1>3. FromIndex(index) \in Seq(Agents)
  <2>1. \A i \in DOMAIN Pool : index + i - 1 \in Nat
    BY PoolIs
  <2>2. \A i \in DOMAIN Pool : AtIndex(Pool, index + i - 1) \in Agents
    BY <2>1, PoolIs, AtIndexIs
  <2> QED BY <2>2, PoolIs DEF FromIndex
<1>4. rest \in Seq(Agents) /\ ToSet(rest) \subseteq f.permitted
  <2>1. ToSet(rest) = ToSet(FromIndex(index)) \cap f.permitted /\ rest \in Seq(Agents)
    BY <1>3, SiftContents
  <2> HIDE DEF rest
  <2> QED BY <2>1
<1>5. chosen = IF first \in f.permitted THEN first ELSE IF rest = <<>> THEN NoAgent ELSE Head(rest)
  BY DEF SelectForTask
<1> HIDE DEF chosen, first, rest
<1>6. rest # <<>> => Head(rest) \in ToSet(rest)
  BY <1>4 DEF ToSet
<1>7. chosen # NoAgent => chosen \in f.permitted
  BY <1>4, <1>5, <1>6
<1>8. RoundRobin(f, l, index) = [agent |-> IF chosen \in f.installed THEN chosen ELSE NoAgent, reserved |-> FALSE]
  BY DEF RoundRobin, Counted, chosen
<1> QED BY <1>2, <1>7, <1>8 DEF Answer, Eligible

-----------------------------------------------------------------------------
(* The ranking.                                                            *)
LEMMA ScoreIs ==
  ASSUME NEW f, IsFact(f), NEW l \in Loads, NEW a \in Agents
  PROVE  FreeSlots(l, a) \in Nat /\ Score(f, l, a) \in Int /\ (FreeSlots(l, a) > 0 <=> l[a] < Limit[a])
<1>1. Limit[a] \in Nat \ {0} /\ l[a] \in Nat
  BY PoolIs DEF Loads
<1>2. FreeSlots(l, a) \in Nat /\ (FreeSlots(l, a) > 0 <=> l[a] < Limit[a])
  BY <1>1 DEF FreeSlots
<1>3. f.merit[a] \in Int
  BY DEF IsFact, Unknown
<1>4. 30 * FreeSlots(l, a) \in Int
  BY <1>2
<1>5. (30 * FreeSlots(l, a)) \div Limit[a] \in Int
  BY <1>1, <1>4
<1>6. (IF a = f.preferred THEN 4 ELSE 0) \in Int /\ (IF a \in f.rejected THEN 10 ELSE 0) \in Int
  OBVIOUS
<1>7. 2 * f.merit[a] \in Int
  BY <1>3
<1> QED BY <1>2, <1>5, <1>6, <1>7 DEF Score

RankOrder(f, l) == {p \in Agents \X Agents : Before(f, l, p[1], p[2])}

LEMMA OrderIs ==
  ASSUME NEW f, IsFact(f), NEW l \in Loads
  PROVE  StrictOrder(RankOrder(f, l), Agents)
<1>1. ASSUME NEW a \in Agents, NEW b \in Agents PROVE <<a, b>> \in RankOrder(f, l) <=> Before(f, l, a, b)
  BY DEF RankOrder
<1>2. \A a \in Agents : Score(f, l, a) \in Int
  BY ScoreIs
<1>3. \A a, b \in Agents : Position(a) \in Nat /\ (Position(a) = Position(b) => a = b)
  BY PositionIs, PoolIs
<1>4. \A a \in Agents : ~Before(f, l, a, a)
  BY <1>2, <1>3 DEF Before
<1>5. ASSUME NEW a \in Agents, NEW b \in Agents, a # b PROVE Before(f, l, a, b) \/ Before(f, l, b, a)
  <2>1. /\ Score(f, l, a) \in Int /\ Score(f, l, b) \in Int
        /\ Position(a) \in Nat /\ Position(b) \in Nat /\ Position(a) # Position(b)
    BY <1>2, <1>3, <1>5
  <2> QED BY <2>1 DEF Before, Reliable
<1>6. ASSUME NEW a \in Agents, NEW b \in Agents, NEW c \in Agents, Before(f, l, a, b), Before(f, l, b, c)
      PROVE  Before(f, l, a, c)
  <2>1. /\ Score(f, l, a) \in Int /\ Score(f, l, b) \in Int /\ Score(f, l, c) \in Int
        /\ Position(a) \in Nat /\ Position(b) \in Nat /\ Position(c) \in Nat
    BY <1>2, <1>3
  <2> QED BY <1>6, <2>1 DEF Before, Reliable
<1> QED BY <1>1, <1>4, <1>5, <1>6 DEF StrictOrder

LEMMA CandidatesAre ==
  ASSUME NEW f, IsFact(f)
  PROVE  /\ Candidates(f) \in Seq(Agents) /\ ToSet(Candidates(f)) = f.permitted \cap f.installed
         /\ IsFiniteSet(ToSet(Candidates(f))) /\ (Candidates(f) = <<>> <=> f.permitted \cap f.installed = {})
<1>1. f.permitted \cap f.installed \subseteq Agents
  BY DEF IsFact
<1>2. Candidates(f) \in Seq(Agents) /\ ToSet(Candidates(f)) = f.permitted \cap f.installed
  <2>1. /\ Sift(Pool, f.permitted \cap f.installed) \in Seq(Agents)
        /\ ToSet(Sift(Pool, f.permitted \cap f.installed)) = Agents \cap (f.permitted \cap f.installed)
    BY PoolIs, SiftContents
  <2> QED BY <1>1, <2>1 DEF Candidates
<1> QED BY <1>2, ContentsFinite, ContentsInSet

LEMMA RankedIs ==
  ASSUME NEW f, IsFact(f), NEW l \in Loads
  PROVE  LET s == Ranked(f, l) IN
           /\ s \in Seq(Agents) /\ ToSet(s) = f.permitted \cap f.installed /\ IsInjective(s)
           /\ \A i, j \in DOMAIN s : i < j => Before(f, l, s[i], s[j]) /\ ~Before(f, l, s[j], s[i])
<1> DEFINE C == ToSet(Candidates(f))
           n == Cardinality(C)
           R == RankOrder(f, l)
           s == Ranked(f, l)
<1>1. C \subseteq Agents /\ IsFiniteSet(C) /\ C = f.permitted \cap f.installed
  BY CandidatesAre DEF IsFact
<1>2. \A a, b \in Agents : <<a, b>> \in R <=> Before(f, l, a, b)
  BY DEF RankOrder
<1>3. StrictOrder(R, C)
  <2>1. StrictOrder(R, Agents)
    BY OrderIs
  <2> HIDE DEF C, R
  <2> QED BY <1>1, <2>1 DEF StrictOrder
<1>4. s = CHOOSE t \in [1 .. n -> C] : \A i, j \in DOMAIN t : i < j => Before(f, l, t[i], t[j])
  BY DEF Ranked
<1> HIDE DEF C, R, s
<1>5. \E t \in [1 .. n -> C] : Sorted(R, t, n)
  BY <1>1, <1>3, OrderExists
<1>6. \A t \in [1 .. n -> C] : Sorted(R, t, n) <=> \A i, j \in DOMAIN t : i < j => Before(f, l, t[i], t[j])
  <2> SUFFICES ASSUME NEW t \in [1 .. n -> C]
               PROVE  Sorted(R, t, n) <=> \A i, j \in DOMAIN t : i < j => Before(f, l, t[i], t[j])
    OBVIOUS
  <2>1. DOMAIN t = 1 .. n /\ \A i \in 1 .. n : t[i] \in Agents
    BY <1>1
  <2> HIDE DEF n
  <2> QED BY <1>2, <2>1 DEF Sorted
<1>7. s \in [1 .. n -> C] /\ Sorted(R, s, n)
  BY <1>4, <1>5, <1>6
<1>8. /\ s \in Seq(C) /\ ToSet(s) = C /\ IsInjective(s) /\ DOMAIN s = 1 .. n
      /\ \A i, j \in DOMAIN s : i < j => <<s[i], s[j]>> \in R /\ <<s[j], s[i]>> \notin R
  BY <1>1, <1>3, <1>7, OrderIsComplete
<1>9. s \in Seq(Agents)
  BY <1>1, <1>8
<1>10. \A i, j \in DOMAIN s : i < j => Before(f, l, s[i], s[j]) /\ ~Before(f, l, s[j], s[i])
  <2> SUFFICES ASSUME NEW i \in DOMAIN s, NEW j \in DOMAIN s, i < j
               PROVE  Before(f, l, s[i], s[j]) /\ ~Before(f, l, s[j], s[i])
    OBVIOUS
  <2>0. s[i] \in ToSet(s) /\ s[j] \in ToSet(s)
    BY DEF ToSet
  <2>1. s[i] \in Agents /\ s[j] \in Agents /\ <<s[i], s[j]>> \in R /\ <<s[j], s[i]>> \notin R
    BY <1>1, <1>8, <2>0
  <2> QED BY <1>2, <2>1
<1> QED BY <1>1, <1>8, <1>9, <1>10 DEF s

(* Whom exploration picks has a free slot.                                 *)
LEMMA ExplorerIs ==
  ASSUME NEW f, IsFact(f), NEW l \in Loads, NEW index \in Nat, observed \in [Agents -> Nat],
         Explorer(f, l, index) # NoAgent
  PROVE  Explorer(f, l, index) \in Unranked(f, l)
<1> DEFINE U == Unranked(f, l)
           better(a, b) == \/ observed[a] < observed[b]
                           \/ observed[a] = observed[b] /\ NameRank[a] =< NameRank[b]
<1>1. U # {} /\ Explorer(f, l, index) = CHOOSE a \in U : \A b \in U : better(a, b)
  BY DEF Explorer
<1>2. U \subseteq Agents
  BY CandidatesAre DEF Unranked, IsFact
<1> HIDE DEF U
<1>3. \A a \in U : observed[a] \in Nat /\ NameRank[a] \in Nat
  BY <1>2, PoolIs
<1>4. PICK m \in U : \A b \in U : observed[m] =< observed[b]
  BY <1>1, <1>3, LeastMember
<1> DEFINE V == {a \in U : observed[a] = observed[m]}
<1>5. PICK a \in V : \A b \in V : NameRank[a] =< NameRank[b]
  <2>1. V # {} /\ \A b \in V : NameRank[b] \in Nat
    BY <1>3
  <2> HIDE DEF V
  <2> QED BY <2>1, LeastMember
<1>6. a \in U /\ \A b \in U : better(a, b)
  BY <1>3, <1>4, <1>5
<1>7. \E x \in U : \A b \in U : better(x, b)
  BY <1>6
<1> HIDE DEF better
<1>8. Explorer(f, l, index) \in U
  BY <1>1, <1>7
<1> QED BY <1>8 DEF U

-----------------------------------------------------------------------------
(* Whatever the mode, the choice is eligible; a slot is reserved under the *)
(* limit only; and performance mode heeds a free candidate of known merit. *)
SomeoneFree(f, l) == \E b \in f.permitted \cap f.installed : Reliable(f, b) /\ l[b] < Limit[b]

LEMMA PerformanceIs ==
  ASSUME NEW f, IsFact(f), NEW l \in Loads, NEW index \in Nat, observed \in [Agents -> Nat]
  PROVE  LET c == Performance(f, l, index) IN
           /\ Answer(f, c) /\ (c.reserved => c.agent # NoAgent /\ l[c.agent] < Limit[c.agent])
           /\ SomeoneFree(f, l) => c.agent # NoAgent /\ l[c.agent] < Limit[c.agent]
<1> DEFINE c == Performance(f, l, index)
           e == Explorer(f, l, index)
           F == {a \in Agents : Reliable(f, a) /\ FreeSlots(l, a) > 0}
           free == Sift(Ranked(f, l), F)
           Fine == /\ Answer(f, c) /\ (c.reserved => c.agent # NoAgent /\ l[c.agent] < Limit[c.agent])
                   /\ SomeoneFree(f, l) => c.agent # NoAgent /\ l[c.agent] < Limit[c.agent]
<1>0. SUFFICES Fine
  OBVIOUS
<1>1. f.permitted \cap f.installed \subseteq Agents /\ NoAgent \notin Agents
  BY PoolIs DEF IsFact
<1>2. \A a \in Agents : FreeSlots(l, a) > 0 <=> l[a] < Limit[a]
  BY ScoreIs
<1>3. /\ free \in Seq(Agents) /\ ToSet(free) = f.permitted \cap f.installed \cap F
      /\ (free = <<>> <=> ToSet(free) = {})
  <2>1. Ranked(f, l) \in Seq(Agents) /\ ToSet(Ranked(f, l)) = f.permitted \cap f.installed
    BY RankedIs
  <2> HIDE DEF F
  <2>2. free \in Seq(Agents) /\ ToSet(free) = ToSet(Ranked(f, l)) \cap F
    BY <2>1, SiftContents
  <2>3. free = <<>> <=> ToSet(free) = {}
    BY <2>2, ContentsInSet
  <2> HIDE DEF free
  <2> QED BY <2>1, <2>2, <2>3
<1>4. CASE Candidates(f) = <<>>
  <2>1. c = [agent |-> NoAgent, reserved |-> FALSE]
    BY <1>4 DEF Performance
  <2>2. f.permitted \cap f.installed = {}
    BY <1>4, CandidatesAre
  <2> HIDE DEF c
  <2> QED BY <2>1, <2>2 DEF Answer, SomeoneFree
<1>5. CASE Candidates(f) # <<>> /\ e # NoAgent
  <2>1. c = [agent |-> e, reserved |-> TRUE]
    BY <1>5 DEF Performance, Reserved
  <2>2. e \in Unranked(f, l)
    BY <1>5, ExplorerIs
  <2>3. e \in f.permitted \cap f.installed /\ FreeSlots(l, e) > 0
    BY <2>2, CandidatesAre DEF Unranked
  <2> HIDE DEF c, e
  <2> QED BY <1>1, <1>2, <2>1, <2>3 DEF Answer, Eligible
<1>6. CASE Candidates(f) # <<>> /\ e = NoAgent /\ free # <<>>
  <2>1. c = [agent |-> Head(free), reserved |-> TRUE]
    BY <1>6 DEF Performance, Reserved
  <2> HIDE DEF c, free
  <2>2. Head(free) \in ToSet(free)
    BY <1>3, <1>6 DEF ToSet
  <2> QED BY <1>1, <1>2, <1>3, <2>1, <2>2 DEF Answer, Eligible
<1>7. CASE Candidates(f) # <<>> /\ e = NoAgent /\ free = <<>>
  <2>1. c = RoundRobin(f, l, index)
    BY <1>7 DEF Performance
  <2> HIDE DEF c, free
  <2>2. ~SomeoneFree(f, l)
    BY <1>1, <1>2, <1>3, <1>7 DEF SomeoneFree
  <2> QED BY <2>1, <2>2, RoundRobinIs
<1> QED BY <1>4, <1>5, <1>6, <1>7

LEMMA ChoiceIs ==
  ASSUME NEW f, IsFact(f), NEW l \in Loads, NEW index \in Nat, observed \in [Agents -> Nat]
  PROVE  LET c == Choice(f, l, index) IN
           /\ Answer(f, c) /\ (c.reserved => c.agent # NoAgent /\ l[c.agent] < Limit[c.agent])
           /\ f.mode = "performance" /\ f.pinned = NoAgent /\ SomeoneFree(f, l) =>
                c.agent # NoAgent /\ l[c.agent] < Limit[c.agent]
<1> DEFINE c == Choice(f, l, index)
           Fine == /\ Answer(f, c) /\ (c.reserved => c.agent # NoAgent /\ l[c.agent] < Limit[c.agent])
                   /\ f.mode = "performance" /\ f.pinned = NoAgent /\ SomeoneFree(f, l) =>
                        c.agent # NoAgent /\ l[c.agent] < Limit[c.agent]
<1>0. SUFFICES Fine
  OBVIOUS
<1>1. /\ f.mode \in Modes /\ f.pinned \in Agents \cup {NoAgent} /\ f.permitted \subseteq Agents
      /\ f.installed \subseteq Agents /\ NoAgent \notin Agents
  BY PoolIs DEF IsFact
<1>2. CASE f.pinned # NoAgent
  <2>1. c = Pinned(f)
    BY <1>2 DEF Choice
  <2> HIDE DEF c
  <2> QED BY <1>1, <1>2, <2>1 DEF Pinned, Counted, Answer, Eligible
<1>3. CASE f.pinned = NoAgent /\ f.mode = "round_robin"
  <2>1. c = RoundRobin(f, l, index)
    BY <1>3 DEF Choice
  <2> HIDE DEF c
  <2> QED BY <1>3, <2>1, RoundRobinIs
<1>4. CASE f.pinned = NoAgent /\ f.mode = "manual"
  <2>1. c = Manual(f, l, index)
    BY <1>4 DEF Choice
  <2>2. CASE f.preferred \in f.permitted \cap f.installed /\ l[f.preferred] < Limit[f.preferred]
    <3>1. c = [agent |-> f.preferred, reserved |-> TRUE]
      BY <2>1, <2>2 DEF Manual, Reserved
    <3> HIDE DEF c
    <3> QED BY <1>1, <1>4, <2>2, <3>1 DEF Answer, Eligible
  <2>3. CASE ~(f.preferred \in f.permitted \cap f.installed /\ l[f.preferred] < Limit[f.preferred])
    <3>1. c = RoundRobin(f, l, index)
      BY <2>1, <2>3 DEF Manual
    <3> HIDE DEF c
    <3> QED BY <1>4, <3>1, RoundRobinIs
  <2> QED BY <2>2, <2>3
<1>5. CASE f.pinned = NoAgent /\ f.mode = "performance"
  <2>1. c = Performance(f, l, index)
    BY <1>5 DEF Choice
  <2> HIDE DEF c
  <2> QED BY <1>5, <2>1, PerformanceIs
<1> QED BY <1>1, <1>2, <1>3, <1>4, <1>5 DEF Modes
(* The preview names a candidate; and where it leaves nothing out, its     *)
(* facts are those of the choice.                                          *)
LEMMA PreviewFactsAre ==
  ASSUME NEW f, IsFact(f)
  PROVE  LET g == PreviewFacts(f) IN
           /\ IsFact(g) /\ g.permitted = f.permitted /\ g.installed = f.installed \cup f.permitted
           /\ f.mode # "performance" => \A a \in Agents : ~Reliable(g, a)
           /\ (f.mode = "performance" /\ f.rejected = {} /\ f.permitted \subseteq f.installed) => g = f
  BY DEF PreviewFacts, IsFact, Reliable, Modes, Unknown

LEMMA LikelyIs ==
  ASSUME NEW f, IsFact(f), NEW index \in Nat, observed \in [Agents -> Nat],
         LikelyAgent(f, index) # NoAgent
  PROVE  LikelyAgent(f, index) \in f.permitted /\ f.mode = "performance"
<1> DEFINE g == PreviewFacts(f)
           e == Explorer(g, NoLoad, index)
           F == {a \in Agents : Reliable(g, a)}
           reliable == Sift(Ranked(g, NoLoad), F)
<1>1. IsFact(g) /\ g.permitted \cap g.installed = f.permitted /\ NoLoad \in Loads
  BY PreviewFactsAre DEF NoLoad, Loads
<1>2. f.mode # "performance" => \A a \in Agents : ~Reliable(g, a)
  BY PreviewFactsAre
<1>3. LikelyAgent(f, index) = IF e # NoAgent THEN e ELSE IF reliable = <<>> THEN NoAgent ELSE Head(reliable)
  BY DEF LikelyAgent
<1>4. f.permitted \subseteq Agents
  BY DEF IsFact
<1> HIDE DEF g
<1>5. CASE e # NoAgent
  <2>1. e \in Unranked(g, NoLoad)
    BY <1>1, <1>5, ExplorerIs
  <2>2. e \in f.permitted /\ \E a \in ToSet(Candidates(g)) : Reliable(g, a)
    BY <1>1, <1>5, <2>1, CandidatesAre DEF Unranked, Explorer
  <2>3. ToSet(Candidates(g)) \subseteq Agents
    BY <1>1, <1>4, CandidatesAre
  <2> QED BY <1>2, <1>3, <1>5, <2>2, <2>3
<1>6. CASE e = NoAgent
  <2>1. reliable # <<>> /\ LikelyAgent(f, index) = Head(reliable)
    BY <1>3, <1>6
  <2>2. Ranked(g, NoLoad) \in Seq(Agents) /\ ToSet(Ranked(g, NoLoad)) = f.permitted
    BY <1>1, RankedIs
  <2> HIDE DEF F
  <2>3. reliable \in Seq(Agents) /\ ToSet(reliable) = f.permitted \cap F
    BY <2>2, SiftContents
  <2> HIDE DEF reliable
  <2>4. Head(reliable) \in ToSet(reliable)
    BY <2>1, <2>3 DEF ToSet
  <2> QED BY <1>2, <2>1, <2>3, <2>4 DEF F
<1> QED BY <1>5, <1>6

LEMMA LikelyIsChosen ==
  ASSUME NEW f \in Facts, IsFact(f), NEW index \in Nat, observed \in [Agents -> Nat],
         f.pinned = NoAgent, f.rejected = {}, f.permitted \subseteq f.installed,
         LikelyAgent(f, index) # NoAgent, f.mode = "performance"
  PROVE  Choice(f, NoLoad, index).agent = LikelyAgent(f, index)
<1> DEFINE e == Explorer(f, NoLoad, index)
           F == {a \in Agents : Reliable(f, a)}
           G == {a \in Agents : Reliable(f, a) /\ FreeSlots(NoLoad, a) > 0}
           free == Sift(Ranked(f, NoLoad), G)
<1>1. NoLoad \in Loads /\ \A a \in Agents : NoLoad[a] = 0
  BY DEF NoLoad, Loads
<1>2. \A a \in Agents : FreeSlots(NoLoad, a) > 0
  <2> TAKE a \in Agents
  <2>1. NoLoad[a] = 0 /\ Limit[a] \in Nat \ {0}
    BY <1>1, PoolIs
  <2> QED BY <2>1 DEF FreeSlots
<1>3. F = G
  BY <1>2
<1>4. LikelyAgent(f, index) =
        IF e # NoAgent THEN e ELSE IF free = <<>> THEN NoAgent ELSE Head(free)
  <2>1. PreviewFacts(f) = f
    BY PreviewFactsAre
  <2> QED BY <1>3, <2>1 DEF LikelyAgent
<1>5. Choice(f, NoLoad, index) = Performance(f, NoLoad, index)
  BY DEF Choice
<1>6. Candidates(f) # <<>>
  BY LikelyIs, CandidatesAre
<1>7. Performance(f, NoLoad, index) =
        IF e # NoAgent THEN Reserved(e) ELSE IF free # <<>> THEN Reserved(Head(free))
                                        ELSE RoundRobin(f, NoLoad, index)
  BY <1>6 DEF Performance
<1> HIDE DEF e, free
<1> QED BY <1>4, <1>5, <1>7 DEF Reserved

-----------------------------------------------------------------------------
(* The guards of a run and the load they make.                             *)
Guard == [agent : Agents, reserved : BOOLEAN]
OfAgent(a) == {g \in Guard : g.agent = a}

RouteInv ==
  /\ RouteTypeOK
  /\ held \in [RouteRuns -> Seq(Guard)]
  /\ facts \in [RouteRuns -> Facts \cup {NoFacts}]
  /\ \A r \in RouteRuns : facts[r] # NoFacts /\ held[r] = <<>> => attempts[r] < MaxDispatches
  /\ LoadIsGuards /\ ReservedWithinLimit

LEMMA FactIs ==
  ASSUME RouteInv, NEW r \in RouteRuns, facts[r] # NoFacts
  PROVE  IsFact(facts[r]) /\ load[r] \in Loads /\ attempts[r] \in Nat /\ observed \in [Agents -> Nat]
  BY FactsAreFacts, RoutingConstants DEF RouteInv, RouteTypeOK, Loads

LEMMA GuardsAre ==
  ASSUME NEW r \in RouteRuns, held[r] \in Seq(Guard), NEW a \in Agents
  PROVE  /\ Guards(r, a) = Places(held[r], OfAgent(a)) /\ Cardinality(Guards(r, a)) = HowMany(held[r], OfAgent(a))
         /\ IsFiniteSet(Guards(r, a)) /\ Cardinality(Guards(r, a)) \in Nat
<1>1. \A i \in DOMAIN held[r] : held[r][i] \in Guard
  OBVIOUS
<1>2. Guards(r, a) = Places(held[r], OfAgent(a))
  BY <1>1 DEF Guards, Places, OfAgent
<1>3. IsFiniteSet(Places(held[r], OfAgent(a))) /\ HowMany(held[r], OfAgent(a)) \in Nat
  BY PlacesFinite
<1> QED BY <1>2, <1>3 DEF HowMany

LEMMA InitRoute == RouteInit => RouteInv
<1> SUFFICES ASSUME RouteInit PROVE RouteInv
  OBVIOUS
<1>1. held \in [RouteRuns -> Seq(Guard)] /\ facts \in [RouteRuns -> Facts \cup {NoFacts}]
  BY DEF RouteInit
<1>2. RouteTypeOK
  <2>1. 0 \in 0 .. MaxDispatches
    BY RoutingConstants
  <2> QED BY <2>1, <1>1 DEF RouteInit, RouteTypeOK
<1>3. \A r \in RouteRuns : held[r] = <<>>
  BY DEF RouteInit
<1>4. LoadIsGuards
  <2> SUFFICES ASSUME NEW r \in RouteRuns, NEW a \in Agents PROVE load[r][a] = Cardinality(Guards(r, a))
    BY DEF LoadIsGuards
  <2>1. Guards(r, a) = {}
    BY <1>3 DEF Guards
  <2> QED BY <2>1, FS_EmptySet DEF RouteInit
<1>5. ReservedWithinLimit
  BY <1>3 DEF ReservedWithinLimit
<1> QED BY <1>1, <1>2, <1>3, <1>4, <1>5 DEF RouteInv, RouteInit

LEMMA ConsiderKeeps == ASSUME RouteInv, NEW r \in RouteRuns, Consider(r) PROVE RouteInv'
<1> USE DEF RouteInv
<1>1. PICK f \in Facts : facts' = [facts EXCEPT ![r] = f]
  BY DEF Consider
<1>2. UNCHANGED <<load, held, attempts, observed>> /\ (held[r] = <<>> => attempts[r] < MaxDispatches)
  BY DEF Consider
<1>3. facts' \in [RouteRuns -> Facts \cup {NoFacts}] /\ \A q \in RouteRuns : q # r => facts'[q] = facts[q]
  BY <1>1
<1>4. RouteTypeOK'
  BY <1>2, <1>3, FactsAreFacts DEF RouteTypeOK
<1>5. LoadIsGuards' /\ ReservedWithinLimit'
  BY <1>2 DEF LoadIsGuards, ReservedWithinLimit, Guards
<1>6. \A q \in RouteRuns : facts'[q] # NoFacts /\ held'[q] = <<>> => attempts'[q] < MaxDispatches
  BY <1>2, <1>3
<1> QED BY <1>2, <1>3, <1>4, <1>5, <1>6

(* A reserved slot is under the limit, counting the guards before it.      *)
Room(s, i) ==
  s[i].reserved => Cardinality({j \in DOMAIN s : s[j].agent = s[i].agent /\ j =< i}) =< Limit[s[i].agent]

LEMMA RoomIs ==
  /\ ReservedWithinLimit <=> \A q \in RouteRuns : \A i \in DOMAIN held[q] : Room(held[q], i)
  /\ ReservedWithinLimit' <=> \A q \in RouteRuns : \A i \in DOMAIN held'[q] : Room(held'[q], i)
<1>1. \A q, i : {j \in Guards(q, held[q][i].agent) : j =< i}
                 = {j \in DOMAIN held[q] : held[q][j].agent = held[q][i].agent /\ j =< i}
  BY DEF Guards
<1>2. \A q, i : {j \in DOMAIN held'[q] : held'[q][j].agent = held'[q][i].agent /\ j =< i}
                 = {j \in {k \in DOMAIN held'[q] : held'[q][k].agent = held'[q][i].agent} : j =< i}
  OBVIOUS
<1>3. ReservedWithinLimit <=> \A q \in RouteRuns : \A i \in DOMAIN held[q] : Room(held[q], i)
  BY <1>1 DEF ReservedWithinLimit, Room
<1>4. ReservedWithinLimit' <=> \A q \in RouteRuns : \A i \in DOMAIN held'[q] : Room(held'[q], i)
  BY <1>2 DEF ReservedWithinLimit, Room, Guards
<1> QED BY <1>3, <1>4

LEMMA OthersStay ==
  ASSUME RouteInv, NEW q \in RouteRuns, held'[q] = held[q]
  PROVE  /\ \A a \in Agents : Guards(q, a)' = Guards(q, a)
         /\ \A i \in DOMAIN held'[q] : Room(held'[q], i)
  BY RoomIs DEF RouteInv, Guards

LEMMA RouteKeeps == ASSUME RouteInv, NEW r \in RouteRuns, Route(r) PROVE RouteInv'
<1> USE DEF RouteInv
<1> DEFINE c == Chosen(r)
<1>0. /\ facts[r] # NoFacts /\ c.agent # NoAgent
      /\ load' = [load EXCEPT ![r][c.agent] = @ + 1]
      /\ held' = [held EXCEPT ![r] = Append(@, c)]
      /\ facts' = [facts EXCEPT ![r] = NoFacts]
      /\ IF held[r] = <<>>
         THEN attempts' = [attempts EXCEPT ![r] = @ + 1] /\ observed' = [observed EXCEPT ![c.agent] = @ + 1]
         ELSE UNCHANGED <<attempts, observed>>
  BY DEF Route
<1>1. IsFact(facts[r]) /\ load[r] \in Loads /\ attempts[r] \in Nat /\ observed \in [Agents -> Nat]
  BY <1>0, FactIs
<1>2. /\ c \in Guard /\ c.agent \in Agents /\ c.reserved \in BOOLEAN
      /\ c.reserved => load[r][c.agent] < Limit[c.agent]
  <2>1. Answer(facts[r], c) /\ (c.reserved => load[r][c.agent] < Limit[c.agent])
    BY <1>1, ChoiceIs DEF Chosen
  <2> HIDE DEF c
  <2> QED BY <1>0, <2>1 DEF Answer, Guard
<1> HIDE DEF c
<1>3. /\ held \in [RouteRuns -> Seq(Guard)] /\ held[r] \in Seq(Guard) /\ Len(held[r]) \in Nat
      /\ facts \in [RouteRuns -> Facts \cup {NoFacts}] /\ load \in [RouteRuns -> [Agents -> Nat]]
  BY DEF RouteTypeOK
<1>4. /\ held' \in [RouteRuns -> Seq(Guard)] /\ held'[r] = Append(held[r], c)
      /\ \A q \in RouteRuns : q # r => held'[q] = held[q]
  <2>1. Append(held[r], c) \in Seq(Guard)
    BY <1>2, <1>3
  <2> QED BY <1>0, <1>3, <2>1
<1>5. /\ load' \in [RouteRuns -> [Agents -> Nat]] /\ \A q \in RouteRuns : q # r => load'[q] = load[q]
      /\ \A a \in Agents : load'[r][a] = load[r][a] + (IF a = c.agent THEN 1 ELSE 0)
  <2>1. load[r] \in [Agents -> Nat] /\ load[r][c.agent] + 1 \in Nat
    BY <1>2, <1>3
  <2>2. [load[r] EXCEPT ![c.agent] = load[r][c.agent] + 1] \in [Agents -> Nat]
    BY <2>1
  <2>3. load' = [load EXCEPT ![r] = [load[r] EXCEPT ![c.agent] = load[r][c.agent] + 1]]
    BY <1>0, <1>2, <1>3
  <2>4. load'[r] = [load[r] EXCEPT ![c.agent] = load[r][c.agent] + 1]
    BY <1>3, <2>3
  <2> QED BY <1>2, <1>3, <2>1, <2>2, <2>3, <2>4
<1>6. facts' \in [RouteRuns -> Facts \cup {NoFacts}] /\ facts'[r] = NoFacts /\ \A q \in RouteRuns : q # r => facts'[q] = facts[q]
  BY <1>0, <1>3
<1>7. /\ attempts' \in [RouteRuns -> 0 .. MaxDispatches] /\ \A q \in RouteRuns : q # r => attempts'[q] = attempts[q]
      /\ observed' \in [Agents -> Nat]
  <2>1. attempts \in [RouteRuns -> 0 .. MaxDispatches] /\ MaxDispatches \in Nat
    BY RoutingConstants DEF RouteTypeOK
  <2>2. CASE held[r] = <<>>
    <3>1. attempts[r] < MaxDispatches
      BY <1>0, <2>2
    <3>2. attempts[r] + 1 \in 0 .. MaxDispatches
      BY <2>1, <3>1
    <3>3. attempts' = [attempts EXCEPT ![r] = attempts[r] + 1] /\ observed' = [observed EXCEPT ![c.agent] = observed[c.agent] + 1]
      BY <1>0, <2>2
    <3>4. observed[c.agent] + 1 \in Nat
      BY <1>1, <1>2
    <3> QED BY <1>1, <2>1, <3>2, <3>3, <3>4
  <2>3. CASE held[r] # <<>>
    BY <1>0, <1>1, <2>1, <2>3
  <2> QED BY <2>2, <2>3
<1>8. RouteTypeOK'
  BY <1>4, <1>5, <1>6, <1>7, FactsAreFacts DEF RouteTypeOK, Guard
<1>9. \A q \in RouteRuns : facts'[q] # NoFacts /\ held'[q] = <<>> => attempts'[q] < MaxDispatches
  BY <1>4, <1>6, <1>7
<1>10. \A a \in Agents : Cardinality(Guards(r, a)') = Cardinality(Guards(r, a)) + (IF a = c.agent THEN 1 ELSE 0)
  <2> SUFFICES ASSUME NEW a \in Agents
               PROVE  Cardinality(Guards(r, a)') = Cardinality(Guards(r, a)) + (IF a = c.agent THEN 1 ELSE 0)
    OBVIOUS
  <2>1. Guards(r, a)' = Places(held'[r], OfAgent(a))
    <3>1. \A i \in DOMAIN held'[r] : held'[r][i] \in Guard
      BY <1>4
    <3> QED BY <3>1 DEF Guards, Places, OfAgent
  <2>2. HowMany(held'[r], OfAgent(a)) = HowMany(held[r], OfAgent(a)) + (IF c \in OfAgent(a) THEN 1 ELSE 0)
    BY <1>2, <1>3, <1>4, CountAppend
  <2>3. c \in OfAgent(a) <=> a = c.agent
    BY <1>2 DEF OfAgent
  <2> QED BY <1>3, <2>1, <2>2, <2>3, GuardsAre DEF HowMany
<1>11. LoadIsGuards'
  <2> SUFFICES ASSUME NEW q \in RouteRuns, NEW a \in Agents PROVE load'[q][a] = Cardinality(Guards(q, a)')
    BY DEF LoadIsGuards
  <2>1. load[q][a] = Cardinality(Guards(q, a))
    BY DEF LoadIsGuards
  <2>2. CASE q = r
    BY <1>5, <1>10, <2>1, <2>2
  <2>3. CASE q # r
    BY <1>4, <1>5, <2>1, <2>3, OthersStay
  <2> QED BY <2>2, <2>3
<1>12. ReservedWithinLimit'
  <2> SUFFICES ASSUME NEW q \in RouteRuns, NEW i \in DOMAIN held'[q] PROVE Room(held'[q], i)
    BY RoomIs
  <2>1. CASE q # r
    BY <1>4, <2>1, OthersStay
  <2>2. CASE q = r /\ i \in DOMAIN held[r]
    <3> DEFINE s == held[r]
               t == held'[r]
    <3>1. DOMAIN s = 1 .. Len(s) /\ DOMAIN t = 1 .. Len(s) + 1 /\ \A j \in DOMAIN s : t[j] = s[j]
      BY <1>2, <1>3, <1>4
    <3>2. Room(s, i) /\ i \in DOMAIN s /\ Len(s) \in Nat
      BY <1>3, <2>2, RoomIs
    <3> HIDE DEF s, t
    <3>3. {j \in DOMAIN t : t[j].agent = t[i].agent /\ j =< i} = {j \in DOMAIN s : s[j].agent = s[i].agent /\ j =< i}
      BY <3>1, <3>2
    <3>4. Room(t, i)
      BY <3>1, <3>2, <3>3 DEF Room
    <3> QED BY <2>2, <3>4 DEF t
  <2>3. CASE q = r /\ i \notin DOMAIN held[r]
    <3> DEFINE t == held'[r]
    <3>1. i = Len(held[r]) + 1 /\ t[i] = c /\ DOMAIN t = 1 .. i
      BY <1>2, <1>3, <1>4, <2>3
    <3>2. PICK x \in Agents : x = c.agent
      BY <1>2
    <3>3. Guards(r, x)' = {j \in DOMAIN t : t[j].agent = x}
      BY DEF Guards
    <3>4. load[r][x] = Cardinality(Guards(r, x)) /\ load[r][x] \in Nat
      BY <1>3 DEF LoadIsGuards
    <3>5. Cardinality(Guards(r, x)') = Cardinality(Guards(r, x)) + 1
      BY <1>10, <3>2
    <3>6. c.reserved => load[r][x] < Limit[x] /\ Limit[x] \in Nat
      BY <1>2, <3>2, PoolIs
    <3> HIDE DEF t
    <3>7. {j \in DOMAIN t : t[j].agent = t[i].agent /\ j =< i} = Guards(r, x)'
      <4>1. t[i].agent = x /\ \A j \in DOMAIN t : j =< i
        BY <1>3, <3>1, <3>2
      <4> QED BY <3>3, <4>1
    <3>8. Room(t, i)
      <4>1. t[i].agent = x /\ (t[i].reserved <=> c.reserved)
        BY <3>1, <3>2
      <4>2. c.reserved => Cardinality(Guards(r, x)') =< Limit[x]
        BY <3>4, <3>5, <3>6
      <4> QED BY <3>7, <4>1, <4>2 DEF Room
    <3> QED BY <2>3, <3>8 DEF t
  <2> QED BY <2>1, <2>2, <2>3
<1> QED BY <1>4, <1>6, <1>8, <1>9, <1>11, <1>12

LEMMA NoRouteKeeps == ASSUME RouteInv, NEW r \in RouteRuns, NoRoute(r) PROVE RouteInv'
<1> USE DEF RouteInv
<1>1. /\ load' = [load EXCEPT ![r] = [a \in Agents |-> 0]] /\ held' = [held EXCEPT ![r] = <<>>]
      /\ facts' = [facts EXCEPT ![r] = NoFacts] /\ UNCHANGED <<attempts, observed>>
  BY DEF NoRoute
<1>2. /\ load' \in [RouteRuns -> [Agents -> Nat]] /\ held' \in [RouteRuns -> Seq(Guard)]
      /\ facts' \in [RouteRuns -> Facts \cup {NoFacts}]
      /\ load'[r] = [a \in Agents |-> 0] /\ held'[r] = <<>> /\ facts'[r] = NoFacts
      /\ \A q \in RouteRuns : q # r => load'[q] = load[q] /\ held'[q] = held[q] /\ facts'[q] = facts[q]
  BY <1>1 DEF RouteTypeOK
<1>3. RouteTypeOK'
  BY <1>1, <1>2, FactsAreFacts DEF RouteTypeOK, Guard
<1>4. \A q \in RouteRuns : facts'[q] # NoFacts /\ held'[q] = <<>> => attempts'[q] < MaxDispatches
  BY <1>1, <1>2
<1>5. LoadIsGuards'
  <2> SUFFICES ASSUME NEW q \in RouteRuns, NEW a \in Agents PROVE load'[q][a] = Cardinality(Guards(q, a)')
    BY DEF LoadIsGuards
  <2>1. CASE q = r
    <3>1. Guards(r, a)' = {}
      BY <1>2 DEF Guards
    <3> QED BY <1>2, <2>1, <3>1, FS_EmptySet
  <2>2. CASE q # r
    <3>1. load[q][a] = Cardinality(Guards(q, a))
      BY DEF LoadIsGuards
    <3>2. Guards(q, a)' = Guards(q, a) /\ load'[q] = load[q]
      BY <1>2, <2>2, OthersStay
    <3> QED BY <3>1, <3>2
  <2> QED BY <2>1, <2>2
<1>6. ReservedWithinLimit'
  <2> SUFFICES ASSUME NEW q \in RouteRuns, NEW i \in DOMAIN held'[q] PROVE Room(held'[q], i)
    BY RoomIs
  <2>1. q # r
    BY <1>2
  <2> QED BY <1>2, <2>1, OthersStay
<1> QED BY <1>2, <1>3, <1>4, <1>5, <1>6

LEMMA DropKeeps == ASSUME RouteInv, NEW r \in RouteRuns, Drop(r) PROVE RouteInv'
<1> USE DEF RouteInv
<1> DEFINE a0 == Last(held[r]).agent
<1>1. /\ held[r] # <<>> /\ facts[r] = NoFacts /\ held' = [held EXCEPT ![r] = Front(@)]
      /\ load' = [load EXCEPT ![r][a0] = IF @ = 0 THEN 0 ELSE @ - 1]
      /\ UNCHANGED <<facts, attempts, observed>>
  BY DEF Drop
<1>2. /\ held \in [RouteRuns -> Seq(Guard)] /\ held[r] \in Seq(Guard) /\ load \in [RouteRuns -> [Agents -> Nat]]
      /\ Len(held[r]) \in Nat \ {0}
  BY <1>1 DEF RouteTypeOK
<1>3. /\ Front(held[r]) \in Seq(Guard) /\ Last(held[r]) \in Guard
      /\ \A S : HowMany(held[r], S) = HowMany(Front(held[r]), S) + (IF Last(held[r]) \in S THEN 1 ELSE 0)
  BY <1>1, <1>2, CountFront
<1>4. a0 \in Agents /\ \A a \in Agents : Last(held[r]) \in OfAgent(a) <=> a = a0
  BY <1>3 DEF Guard, OfAgent
<1> HIDE DEF a0
<1>5. /\ held' \in [RouteRuns -> Seq(Guard)] /\ held'[r] = Front(held[r])
      /\ \A q \in RouteRuns : q # r => held'[q] = held[q]
  BY <1>1, <1>2, <1>3
<1>6. \A a \in Agents : /\ Cardinality(Guards(r, a)) = Cardinality(Guards(r, a)') + (IF a = a0 THEN 1 ELSE 0)
                        /\ Cardinality(Guards(r, a)') \in Nat /\ Cardinality(Guards(r, a)) \in Nat
                        /\ load[r][a] = Cardinality(Guards(r, a))
  <2> SUFFICES ASSUME NEW a \in Agents
               PROVE  /\ Cardinality(Guards(r, a)) = Cardinality(Guards(r, a)') + (IF a = a0 THEN 1 ELSE 0)
                      /\ Cardinality(Guards(r, a)') \in Nat /\ Cardinality(Guards(r, a)) \in Nat
                      /\ load[r][a] = Cardinality(Guards(r, a))
    OBVIOUS
  <2>1. Guards(r, a)' = Places(Front(held[r]), OfAgent(a))
    <3>1. \A i \in DOMAIN held'[r] : held'[r][i] \in Guard
      BY <1>5
    <3> QED BY <1>5, <3>1 DEF Guards, Places, OfAgent
  <2>2. HowMany(Front(held[r]), OfAgent(a)) \in Nat
    BY <1>3, PlacesFinite
  <2>3. HowMany(held[r], OfAgent(a)) = HowMany(Front(held[r]), OfAgent(a)) + (IF a = a0 THEN 1 ELSE 0)
    BY <1>3, <1>4
  <2>4. load[r][a] = Cardinality(Guards(r, a))
    BY DEF LoadIsGuards
  <2> QED BY <1>2, <2>1, <2>2, <2>3, <2>4, GuardsAre DEF HowMany
<1>7. /\ load' \in [RouteRuns -> [Agents -> Nat]] /\ \A q \in RouteRuns : q # r => load'[q] = load[q]
      /\ \A a \in Agents : load'[r][a] = Cardinality(Guards(r, a)')
  <2>1. load[r] \in [Agents -> Nat] /\ load[r][a0] # 0
    <3>1. PICK y \in Agents : y = a0
      BY <1>4
    <3>2. /\ Cardinality(Guards(r, y)) = Cardinality(Guards(r, y)') + 1
          /\ Cardinality(Guards(r, y)') \in Nat /\ load[r][y] = Cardinality(Guards(r, y))
      BY <1>6, <3>1
    <3> QED BY <1>2, <3>1, <3>2
  <2>2. load[r][a0] - 1 \in Nat
    BY <1>4, <2>1
  <2>3. [load[r] EXCEPT ![a0] = load[r][a0] - 1] \in [Agents -> Nat]
    BY <2>1, <2>2
  <2>4. load' = [load EXCEPT ![r] = [load[r] EXCEPT ![a0] = load[r][a0] - 1]]
    BY <1>1, <1>2, <2>1
  <2>5. load'[r] = [load[r] EXCEPT ![a0] = load[r][a0] - 1]
    BY <1>2, <2>4
  <2>6. \A a \in Agents : load'[r][a] = Cardinality(Guards(r, a)')
    <3> SUFFICES ASSUME NEW a \in Agents PROVE load'[r][a] = Cardinality(Guards(r, a)')
      OBVIOUS
    <3>1. load'[r][a] = IF a = a0 THEN load[r][a0] - 1 ELSE load[r][a]
      BY <2>1, <2>5
    <3>2. /\ Cardinality(Guards(r, a)) = Cardinality(Guards(r, a)') + (IF a = a0 THEN 1 ELSE 0)
          /\ Cardinality(Guards(r, a)') \in Nat /\ load[r][a] = Cardinality(Guards(r, a))
      BY <1>6
    <3> QED BY <3>1, <3>2
  <2> QED BY <1>2, <2>3, <2>4, <2>6
<1>8. RouteTypeOK'
  BY <1>1, <1>5, <1>7 DEF RouteTypeOK, Guard
<1>9. \A q \in RouteRuns : facts'[q] # NoFacts /\ held'[q] = <<>> => attempts'[q] < MaxDispatches
  BY <1>1, <1>5
<1>10. LoadIsGuards'
  <2> SUFFICES ASSUME NEW q \in RouteRuns, NEW a \in Agents PROVE load'[q][a] = Cardinality(Guards(q, a)')
    BY DEF LoadIsGuards
  <2>1. CASE q # r
    <3>1. load[q][a] = Cardinality(Guards(q, a))
      BY DEF LoadIsGuards
    <3>2. Guards(q, a)' = Guards(q, a) /\ load'[q] = load[q]
      BY <1>5, <1>7, <2>1, OthersStay
    <3> QED BY <3>1, <3>2
  <2> QED BY <1>7, <2>1
<1>11. ReservedWithinLimit'
  <2> SUFFICES ASSUME NEW q \in RouteRuns, NEW i \in DOMAIN held'[q] PROVE Room(held'[q], i)
    BY RoomIs
  <2>1. CASE q # r
    BY <1>5, <2>1, OthersStay
  <2>2. CASE q = r
    <3> DEFINE s == held[r]
               t == held'[r]
    <3>1. /\ DOMAIN s = 1 .. Len(s) /\ DOMAIN t = 1 .. Len(s) - 1 /\ Len(s) \in Nat
          /\ \A j \in 1 .. Len(s) - 1 : t[j] = s[j]
      BY <1>2, <1>5 DEF Front
    <3>2. i \in DOMAIN t
      BY <2>2
    <3> HIDE DEF t
    <3>3. i \in 1 .. Len(s) - 1 /\ i \in DOMAIN s
      BY <3>1, <3>2
    <3>4. Room(s, i)
      BY <3>3, RoomIs
    <3> HIDE DEF s
    <3>5. {j \in DOMAIN t : t[j].agent = t[i].agent /\ j =< i} = {j \in DOMAIN s : s[j].agent = s[i].agent /\ j =< i}
      <4>1. t[i] = s[i] /\ \A j \in DOMAIN t : j \in DOMAIN s /\ t[j] = s[j]
        BY <3>1, <3>3
      <4>2. \A j \in DOMAIN s : j =< i => j \in DOMAIN t
        BY <3>1, <3>3
      <4> QED BY <4>1, <4>2
    <3>6. Room(t, i)
      BY <3>1, <3>3, <3>4, <3>5 DEF Room
    <3> QED BY <2>2, <3>6 DEF t
  <2> QED BY <2>1, <2>2
<1> QED BY <1>1, <1>5, <1>8, <1>9, <1>10, <1>11

LEMMA RouteInductive == RouteInv /\ [RouteNext]_RouteVars => RouteInv'
<1> SUFFICES ASSUME RouteInv, [RouteNext]_RouteVars PROVE RouteInv'
  OBVIOUS
<1>1. CASE UNCHANGED RouteVars
  <2>1. UNCHANGED <<load, held, facts, attempts, observed>>
    BY <1>1 DEF RouteVars
  <2>2. RouteTypeOK'
    BY <2>1 DEF RouteInv, RouteTypeOK
  <2>3. LoadIsGuards'
    BY <2>1 DEF RouteInv, LoadIsGuards, Guards
  <2>4. ReservedWithinLimit'
    BY <2>1 DEF RouteInv, ReservedWithinLimit, Guards
  <2> QED BY <2>1, <2>2, <2>3, <2>4 DEF RouteInv
<1> QED BY <1>1, ConsiderKeeps, RouteKeeps, NoRouteKeeps, DropKeeps DEF RouteNext

(* The table of loads counts the guards held, a reservation leaves an      *)
(* agent within its limit, and an attempt is only considered while the run *)
(* has one left: what routing decides from is true at every choice.        *)
THEOREM RouteInvariant == RouteSpec => []RouteInv
<1> QED BY InitRoute, RouteInductive, PTL DEF RouteSpec

(* The load of an agent is the guards that count it, a reservation never   *)
(* goes past the limit, whoever is chosen is eligible, and the ranking is  *)
(* one order of all the candidates.                                        *)
THEOREM RoutesSound == RouteSpec => []RoutingSound
<1>1. ASSUME RouteInv PROVE RoutingSound
  <2> USE <1>1
  <2>1. RouteTypeOK /\ LoadIsGuards /\ ReservedWithinLimit
    BY DEF RouteInv
  <2>2. ASSUME NEW r \in RouteRuns, facts[r] # NoFacts
        PROVE  LET c == Chosen(r) IN
                 /\ Answer(facts[r], c)
                 /\ facts[r].mode = "performance" /\ facts[r].pinned = NoAgent /\ SomeoneFree(facts[r], load[r]) =>
                      c.agent # NoAgent /\ load[r][c.agent] < Limit[c.agent]
    BY <2>2, FactIs, ChoiceIs DEF Chosen
  <2>3. ChoiceEligible
    BY <2>2 DEF ChoiceEligible, Answer, Eligible, SomeoneFree
  <2>4. RankingTotal
    BY FactIs, RankedIs DEF RankingTotal
  <2>5. PreviewAgrees
    <3> SUFFICES ASSUME NEW r \in RouteRuns, facts[r] # NoFacts,
                        LikelyAgent(facts[r], attempts[r]) # NoAgent
                 PROVE  LET f == facts[r]
                            told == LikelyAgent(f, attempts[r]) IN
                          /\ told \in f.permitted /\ f.mode = "performance"
                          /\ (held[r] = <<>> /\ f.pinned = NoAgent /\ f.rejected = {} /\ f.permitted \subseteq f.installed)
                               => Chosen(r).agent = told
      BY DEF PreviewAgrees
    <3>1. IsFact(facts[r]) /\ facts[r] \in Facts /\ attempts[r] \in Nat /\ observed \in [Agents -> Nat]
      BY FactIs DEF RouteInv
    <3>2. LikelyAgent(facts[r], attempts[r]) \in facts[r].permitted /\ facts[r].mode = "performance"
      BY <3>1, LikelyIs
    <3>3. ASSUME held[r] = <<>> PROVE load[r] = NoLoad
      <4>1. \A a \in Agents : Guards(r, a) = {}
        BY <3>3 DEF Guards
      <4>2. \A a \in Agents : load[r][a] = 0
        BY <2>1, <4>1, FS_EmptySet DEF LoadIsGuards
      <4> QED BY <2>1, <4>2 DEF RouteTypeOK, NoLoad
    <3> QED BY <3>1, <3>2, <3>3, LikelyIsChosen DEF Chosen
  <2> QED BY <2>1, <2>3, <2>4, <2>5 DEF RoutingSound
<1> QED BY <1>1, RouteInvariant, PTL

(***************************************************************************)
(* Proofs about Reads, for any tasks, any bound on the attempts and on the *)
(* runs and any size of a page.  The executor is described first (what its *)
(* tables say of each other between any two of its statements), then the   *)
(* answer in progress (what it has read already agrees with the tables it  *)
(* has still to read, whatever the executor writes in between).            *)
(***************************************************************************)
Settled == {"approved", "failed", "changes_requested"}
TrialStatus == Settled \cup {"running", "reviewing"}
ShownStates == {"pending", "ready", "running", "completed", "blocked"}
SessionRows == [task : TaskIds, status : {"running", "success", "failed"},
                output : {"none", "observed", "complete"}]
Handling == {"mark", "launch", "agent", "output", "land", "product", "fail", "approve", "changes"}
Marking == {"ready", "completed", "blocked", "dependents"}
Responses == [status : {"running", "success", "failed"}, output : {"none", "observed", "complete"}]

ReadTypeOK ==
  /\ IF writer.at = "plan" THEN states = <<>> ELSE states \in [TaskIds -> ShownStates]
  /\ trials \in [TaskIds -> Seq(TrialStatus)]
  /\ sessions \in Seq(SessionRows)
  /\ \/ writer \in [at : {"plan", "idle"}, task : {NoOne}]
     \/ writer \in [at : Handling \cup Marking, task : TaskIds]
  /\ runs \in Nat
  /\ Worker \in settings.agents \cup {Planner} /\ settings.planners \subseteq {Planner}

(* The executor: an approved attempt has been landed, or has its artifact; *)
(* a completed task has one, and a running one an attempt; only the last   *)
(* session of all may run, and every attempt but the one in hand has a     *)
(* session that has ended.                                                 *)
InHand(t) == writer.task = t /\ writer.at \in Handling
AttemptsTell ==
  \A t \in TaskIds :
    /\ InHand(t) => trials[t] # <<>> /\ Last(trials[t]) \in {"running", "reviewing"}
    /\ InHand(t) /\ writer.at \notin {"land", "approve"} => Last(trials[t]) = "running"
    /\ \A i \in DOMAIN trials[t] : trials[t][i] = "approved" =>
         <<t, i>> \in (IF Produces(t) THEN head ELSE products)
    /\ InHand(t) /\ writer.at = "approve" =>
         <<t, Number(t)>> \in (IF Produces(t) THEN head ELSE products)
    /\ InHand(t) /\ writer.at = "land" => Produces(t)
    /\ InHand(t) /\ writer.at \in {"product", "changes"} => ~Produces(t)
    /\ writer.task = t /\ writer.at = "completed" => "approved" \in ToSet(trials[t])
StatesTell(list, tried) ==
  \A t \in DOMAIN list : /\ list[t] = "completed" => "approved" \in ToSet(tried[t])
                         /\ list[t] = "running" => tried[t] # <<>>
SessionsTell ==
  /\ \A s \in DOMAIN sessions : sessions[s].status = "running" => writer.at = "agent" /\ s = Len(sessions)
  /\ writer.at \in {"agent", "output"} => sessions # <<>> /\ Last(sessions).task = writer.task
  /\ writer.at = "agent" => Last(sessions).status = "running"
  /\ \A t \in TaskIds :
       Number(t) = Cardinality(EndedSessions(sessions, t))
                     + (IF writer.task = t /\ writer.at \in {"mark", "launch", "agent"} THEN 1 ELSE 0)

WriterHolds == ReadTypeOK /\ AttemptsTell /\ StatesTell(states, trials) /\ SessionsTell

(* The answer: what was read first agrees with what was read after it, and *)
(* with what the tables say now where the rest is still to be read.        *)
Attempted(got, artifacts, branch, list) ==
  \A t \in TaskIds : \A i \in DOMAIN got[t] :
    /\ got[t][i] = "approved" => <<t, i>> \in (IF Produces(t) THEN branch ELSE artifacts)
    /\ got[t][i] # "running" => i =< Cardinality(EndedSessions(list, t))
DetailInv ==
  answer.kind = "detail" =>
    LET got == answer.got
        n == answer.at IN
    /\ n > 1 => /\ DOMAIN got.tasks \subseteq TaskIds
                /\ StatesTell(got.tasks, IF n > 2 THEN got.attempts ELSE trials)
    /\ n > 2 => /\ got.attempts \in [TaskIds -> Seq(TrialStatus)]
                /\ Attempted(got.attempts, IF n > 4 THEN got.artifacts ELSE products,
                             IF n > 5 THEN got.head ELSE head, IF n > 3 THEN got.sessions ELSE sessions)
GraphInv ==
  answer.kind = "graph" =>
    LET got == answer.got
        n == answer.at IN
    /\ n > 1 => got.config.planners \subseteq {Planner}
    /\ n > 2 => Worker \in got.agents \cup {Planner}
    /\ n > 3 => got.tasks = <<>> \/ DOMAIN got.tasks = TaskIds
    /\ n > 5 => got.sessions \in Seq(SessionRows)
PageInv ==
  answer.kind = "pages" =>
    /\ answer.known \in Nat /\ answer.known =< runs /\ answer.size \in PageSizes /\ answer.more \in BOOLEAN
    /\ \/ answer.more /\ answer.cursor = NoCursor /\ answer.seen = <<>>
       \/ \E m \in answer.known .. runs : \E k \in 0 .. m :
            /\ answer.seen = [i \in 1 .. k |-> m + 1 - i]
            /\ IF answer.more THEN k \in 1 .. m - 1 /\ answer.cursor = m + 1 - k ELSE k = m
StreamInv ==
  answer.kind = "stream" =>
    /\ answer.row \in DOMAIN sessions /\ answer.sent \in Seq(Responses)
    /\ answer.open \in BOOLEAN
    /\ \A i \in DOMAIN answer.sent : (answer.open \/ i < Len(answer.sent)) => Running(answer.sent[i])
    /\ \A i \in 1 .. Len(answer.sent) - 1 : answer.sent[i] # answer.sent[i + 1]
    /\ ~answer.open => /\ answer.sent # <<>> /\ ~Running(Last(answer.sent))
                       /\ Last(answer.sent).status = sessions[answer.row].status
AnswerShaped ==
  \/ answer = Quiet
  \/ /\ answer.kind \in {"detail", "graph"}
     /\ answer = [kind |-> answer.kind, at |-> answer.at, got |-> answer.got]
     /\ answer.at \in 1 .. 6
     /\ DOMAIN answer.got = {OrderOf(answer.kind)[i] : i \in 1 .. answer.at - 1}
  \/ /\ answer.kind = "pages"
     /\ answer = [kind |-> "pages", size |-> answer.size, cursor |-> answer.cursor,
                  more |-> answer.more, seen |-> answer.seen, known |-> answer.known]
  \/ /\ answer.kind = "stream"
     /\ answer = [kind |-> "stream", row |-> answer.row, sent |-> answer.sent, open |-> answer.open]
AnswerHolds == AnswerShaped /\ DetailInv /\ GraphInv /\ PageInv /\ StreamInv

-----------------------------------------------------------------------------
LEMMA RowIs ==
  ASSUME NEW s \in Seq(SessionRows), NEW i \in DOMAIN s
  PROVE  s[i] \in SessionRows /\ DOMAIN s = 1 .. Len(s) /\ Len(s) \in Nat
OBVIOUS

LEMMA EndedIs ==
  ASSUME NEW s \in Seq(SessionRows), NEW t
  PROVE  /\ EndedSessions(s, t) \subseteq 1 .. Len(s) /\ IsFiniteSet(EndedSessions(s, t))
         /\ Cardinality(EndedSessions(s, t)) \in Nat
<1>1. EndedSessions(s, t) \subseteq 1 .. Len(s)
  BY DEF EndedSessions
<1>2. IsFiniteSet(1 .. Len(s))
  BY FS_Interval
<1> QED BY <1>1, <1>2, FS_Subset, FS_CardinalityType

LEMMA EndedAppend ==
  ASSUME NEW s \in Seq(SessionRows), NEW row \in SessionRows, row.status = "running", NEW t
  PROVE  /\ Append(s, row) \in Seq(SessionRows)
         /\ EndedSessions(Append(s, row), t) = EndedSessions(s, t)
<1> DEFINE u == Append(s, row)
<1>1. /\ u \in Seq(SessionRows) /\ DOMAIN u = 1 .. Len(s) + 1 /\ DOMAIN s = 1 .. Len(s) /\ Len(s) \in Nat
      /\ \A i \in 1 .. Len(s) : u[i] = s[i]
      /\ u[Len(s) + 1] = row
  OBVIOUS
<1> HIDE DEF u
<1>2. EndedSessions(u, t) = EndedSessions(s, t)
  BY <1>1 DEF EndedSessions
<1> QED BY <1>1, <1>2 DEF u

OutputWritten(s, u, t) ==
  /\ u \in Seq(SessionRows) /\ Len(u) = Len(s)
  /\ \A i \in DOMAIN s : u[i].status = s[i].status /\ u[i].task = s[i].task
  /\ EndedSessions(u, t) = EndedSessions(s, t)
LEMMA RowOutput ==
  ASSUME NEW s \in Seq(SessionRows), s # <<>>, NEW v \in {"none", "observed", "complete"}, NEW t,
         NEW u, u = [s EXCEPT ![Len(s)]["output"] = v]
  PROVE  OutputWritten(s, u, t)
<1>1. Len(s) \in DOMAIN s /\ s[Len(s)] \in SessionRows /\ DOMAIN s = 1 .. Len(s) /\ Len(s) \in Nat
  OBVIOUS
<1> DEFINE row == [s[Len(s)] EXCEPT !["output"] = v]
<1>2. row \in SessionRows /\ row.status = s[Len(s)].status /\ row.task = s[Len(s)].task
  BY <1>1 DEF SessionRows
<1>3. u = [s EXCEPT ![Len(s)] = row]
  BY <1>1
<1> HIDE DEF row
<1>4. u \in Seq(SessionRows) /\ Len(u) = Len(s) /\ DOMAIN u = DOMAIN s
  <2>1. Len(s) \in 1 .. Len(s) /\ row \in SessionRows
    BY <1>1, <1>2
  <2>2. [s EXCEPT ![Len(s)] = row] \in Seq(SessionRows) /\ Len([s EXCEPT ![Len(s)] = row]) = Len(s)
    BY <2>1, ExceptSeq
  <2> QED BY <2>2, <1>3
<1>5. \A i \in DOMAIN s : u[i].status = s[i].status /\ u[i].task = s[i].task
  BY <1>1, <1>2, <1>3, ExceptSeq
<1>6. EndedSessions(u, t) = EndedSessions(s, t)
  BY <1>4, <1>5 DEF EndedSessions
<1> QED BY <1>4, <1>5, <1>6 DEF OutputWritten

StatusWritten(s, u, v, t) ==
  /\ u \in Seq(SessionRows) /\ Len(u) = Len(s)
  /\ \A i \in DOMAIN s : u[i].task = s[i].task /\ (i # Len(s) => u[i].status = s[i].status)
  /\ u[Len(s)].status = v
  /\ Cardinality(EndedSessions(u, t)) =
       Cardinality(EndedSessions(s, t)) + (IF s[Len(s)].task = t THEN 1 ELSE 0)
LEMMA RowEnds ==
  ASSUME NEW s \in Seq(SessionRows), s # <<>>, s[Len(s)].status = "running",
         NEW v \in {"success", "failed"}, NEW t,
         NEW u, u = [s EXCEPT ![Len(s)]["status"] = v]
  PROVE  StatusWritten(s, u, v, t)
<1>1. Len(s) \in DOMAIN s /\ s[Len(s)] \in SessionRows /\ DOMAIN s = 1 .. Len(s) /\ Len(s) \in Nat
  OBVIOUS
<1> DEFINE row == [s[Len(s)] EXCEPT !["status"] = v]
<1>2. row \in SessionRows /\ row.status = v /\ row.task = s[Len(s)].task
  BY <1>1 DEF SessionRows
<1>3. u = [s EXCEPT ![Len(s)] = row]
  BY <1>1
<1> HIDE DEF row
<1>4. u \in Seq(SessionRows) /\ Len(u) = Len(s) /\ DOMAIN u = DOMAIN s
  <2>1. Len(s) \in 1 .. Len(s) /\ row \in SessionRows
    BY <1>1, <1>2
  <2>2. [s EXCEPT ![Len(s)] = row] \in Seq(SessionRows) /\ Len([s EXCEPT ![Len(s)] = row]) = Len(s)
    BY <2>1, ExceptSeq
  <2> QED BY <2>2, <1>3
<1>5. \A i \in DOMAIN s : u[i].task = s[i].task /\ (i # Len(s) => u[i].status = s[i].status)
  BY <1>1, <1>2, <1>3, ExceptSeq
<1>6. u[Len(s)].status = v
  BY <1>1, <1>2, <1>3, ExceptSeq
<1>7. EndedSessions(u, t) = IF s[Len(s)].task = t THEN EndedSessions(s, t) \cup {Len(s)} ELSE EndedSessions(s, t)
  BY <1>1, <1>4, <1>5, <1>6 DEF EndedSessions
<1>8. Len(s) \notin EndedSessions(s, t)
  BY DEF EndedSessions
<1>9. Cardinality(EndedSessions(s, t) \cup {Len(s)}) = Cardinality(EndedSessions(s, t)) + 1
  BY <1>8, EndedIs, FS_AddElement
<1>10. Cardinality(EndedSessions(s, t)) \in Nat
  BY EndedIs
<1> QED BY <1>4, <1>5, <1>6, <1>7, <1>9, <1>10 DEF StatusWritten

LastReplaced(S, s, v, u) ==
  /\ u \in Seq(S) /\ Len(u) = Len(s) /\ u # <<>> /\ DOMAIN u = DOMAIN s
  /\ DOMAIN s = 1 .. Len(s) /\ Len(s) \in Nat \ {0}
  /\ Last(u) = v /\ u[Len(s)] = v
  /\ \A i \in DOMAIN s : i # Len(s) => u[i] = s[i]
LEMMA PutLast ==
  ASSUME NEW S, NEW s \in Seq(S), s # <<>>, NEW v \in S, NEW u, u = [s EXCEPT ![Len(s)] = v]
  PROVE  LastReplaced(S, s, v, u)
<1>1. Len(s) \in 1 .. Len(s) /\ DOMAIN s = 1 .. Len(s) /\ Len(s) \in Nat \ {0}
  OBVIOUS
<1>2. u \in Seq(S) /\ Len(u) = Len(s)
  BY <1>1, ExceptSeq
<1>3. \A i \in DOMAIN s : u[i] = IF i = Len(s) THEN v ELSE s[i]
  BY <1>1
<1> QED BY <1>1, <1>2, <1>3 DEF Last, LastReplaced

Added(S, s, v, u) ==
  /\ u \in Seq(S) /\ Len(u) = Len(s) + 1 /\ u # <<>> /\ DOMAIN u = 1 .. Len(s) + 1
  /\ DOMAIN s = 1 .. Len(s) /\ Len(s) \in Nat
  /\ Last(u) = v /\ u[Len(s) + 1] = v
  /\ \A i \in DOMAIN s : u[i] = s[i]
LEMMA AddLast ==
  ASSUME NEW S, NEW s \in Seq(S), NEW v \in S, NEW u, u = Append(s, v)
  PROVE  Added(S, s, v, u)
BY DEF Last, Added

-----------------------------------------------------------------------------
(* What is told once stays told: no statement takes back what an answer may *)
(* already have read.                                                      *)
Grows ==
  /\ head \subseteq head' /\ products \subseteq products' /\ runs =< runs' /\ answer' = answer
  /\ \A t \in TaskIds :
       /\ "approved" \in ToSet(trials[t]) => "approved" \in ToSet(trials'[t])
       /\ trials[t] # <<>> => trials'[t] # <<>>
       /\ Cardinality(EndedSessions(sessions, t)) =< Cardinality(EndedSessions(sessions', t))
  /\ \A row \in DOMAIN sessions :
       /\ row \in DOMAIN sessions'
       /\ sessions[row].status # "running" => sessions'[row].status = sessions[row].status

LEMMA EndedCount ==
  ASSUME ReadTypeOK
  PROVE  \A t \in TaskIds : Cardinality(EndedSessions(sessions, t)) \in Nat
BY EndedIs DEF ReadTypeOK

LEMMA WriterAt ==
  ASSUME ReadTypeOK, NEW t, NEW s, writer.task = t, Then(s)
  PROVE  writer' = [at |-> s, task |-> t]
BY DEF ReadTypeOK, Then

LEMMA PlanStep ==
  ASSUME WriterHolds, PersistPlan
  PROVE  WriterHolds' /\ Grows
<1>1. writer = [at |-> "plan", task |-> NoOne] /\ writer' = [at |-> "idle", task |-> NoOne]
  BY DEF WriterHolds, ReadTypeOK, PersistPlan, Handling, Marking
<1>2. NoOne \notin TaskIds
  BY ReadConstants DEF NoOne, TaskIds
<1>3. ReadTypeOK'
  BY <1>1 DEF WriterHolds, ReadTypeOK, PersistPlan, Elsewhere, ShownStates
<1>4. AttemptsTell'
  BY <1>1, <1>2 DEF WriterHolds, AttemptsTell, PersistPlan, InHand, Handling, Number
<1>5. StatesTell(states, trials)'
  BY DEF PersistPlan, StatesTell
<1>6. SessionsTell'
  BY <1>1 DEF WriterHolds, SessionsTell, PersistPlan, Number
<1>7. Grows
  BY EndedCount DEF WriterHolds, Grows, PersistPlan, Elsewhere, ReadTypeOK
<1> QED BY <1>3, <1>4, <1>5, <1>6, <1>7 DEF WriterHolds

LEMMA OpenStep ==
  ASSUME WriterHolds, NEW t \in TaskIds, OpenTrial(t)
  PROVE  WriterHolds' /\ Grows
<1>1. writer = [at |-> "idle", task |-> NoOne] /\ writer' = [at |-> "mark", task |-> t]
  BY DEF WriterHolds, ReadTypeOK, OpenTrial, Handling, Marking
<1>2. NoOne \notin TaskIds
  BY ReadConstants DEF NoOne, TaskIds
<1>3. trials \in [TaskIds -> Seq(TrialStatus)] /\ "running" \in TrialStatus
  BY DEF WriterHolds, ReadTypeOK, TrialStatus
<1>4. trials' = [trials EXCEPT ![t] = Append(trials[t], "running")]
  BY DEF OpenTrial
<1>5. /\ trials'[t] \in Seq(TrialStatus) /\ Len(trials'[t]) = Len(trials[t]) + 1 /\ trials'[t] # <<>>
      /\ DOMAIN trials'[t] = 1 .. Len(trials[t]) + 1 /\ DOMAIN trials[t] = 1 .. Len(trials[t])
      /\ Len(trials[t]) \in Nat /\ Last(trials'[t]) = "running" /\ trials'[t][Len(trials[t]) + 1] = "running"
      /\ \A i \in DOMAIN trials[t] : trials'[t][i] = trials[t][i]
  <2>1. trials[t] \in Seq(TrialStatus) /\ trials'[t] = Append(trials[t], "running")
    BY <1>3, <1>4
  <2>2. Added(TrialStatus, trials[t], "running", trials'[t])
    BY <2>1, <1>3, AddLast
  <2> QED BY <2>2 DEF Added
<1>6. \A u \in TaskIds \ {t} : trials'[u] = trials[u]
  BY <1>4, <1>3
<1>7. trials' \in [TaskIds -> Seq(TrialStatus)]
  BY <1>3, <1>4, <1>5
<1>8. ReadTypeOK'
  BY <1>1, <1>7 DEF WriterHolds, ReadTypeOK, OpenTrial, Elsewhere, Handling
<1>9. AttemptsTell'
  <2> SUFFICES ASSUME NEW u \in TaskIds PROVE AttemptsTell!(u)'
    BY DEF AttemptsTell
  <2> USE DEF WriterHolds, AttemptsTell, InHand, Handling, Number
  <2>1. CASE u = t
    <3>1. \A i \in DOMAIN trials'[t] : trials'[t][i] = "approved" => <<t, i>> \in (IF Produces(t) THEN head ELSE products)
      <4> SUFFICES ASSUME NEW i \in DOMAIN trials'[t], trials'[t][i] = "approved"
                   PROVE  <<t, i>> \in (IF Produces(t) THEN head ELSE products)
        OBVIOUS
      <4>1. i \in DOMAIN trials[t] /\ trials[t][i] = "approved"
        BY <1>5
      <4> QED BY <4>1
    <3> QED BY <2>1, <3>1, <1>1, <1>5 DEF OpenTrial
  <2>2. CASE u # t
    BY <2>2, <1>1, <1>2, <1>6 DEF OpenTrial
  <2> QED BY <2>1, <2>2
<1>10. \A u \in TaskIds : /\ "approved" \in ToSet(trials[u]) => "approved" \in ToSet(trials'[u])
                          /\ trials[u] # <<>> => trials'[u] # <<>>
  BY <1>5, <1>6 DEF ToSet
<1>11. DOMAIN states \subseteq TaskIds
  BY DEF WriterHolds, ReadTypeOK
<1>12. StatesTell(states, trials)'
  BY <1>10, <1>11 DEF WriterHolds, StatesTell, OpenTrial
<1>13. SessionsTell'
  <2>1. \A u \in TaskIds : Number(u)' = Cardinality(EndedSessions(sessions, u)) + (IF u = t THEN 1 ELSE 0)
    BY <1>1, <1>2, <1>5, <1>6, EndedCount DEF WriterHolds, SessionsTell, Number
  <2> QED BY <1>1, <2>1 DEF WriterHolds, SessionsTell, OpenTrial
<1>14. Grows
  <2>1. sessions' = sessions /\ head' = head /\ products' = products /\ runs' = runs /\ answer' = answer
    BY DEF OpenTrial, Elsewhere
  <2>2. runs \in Nat
    BY DEF WriterHolds, ReadTypeOK
  <2> QED BY <1>10, <2>1, <2>2, EndedCount DEF WriterHolds, Grows
<1> QED BY <1>8, <1>9, <1>12, <1>13, <1>14 DEF WriterHolds

(* Steps that only change the states, or add to what was produced.         *)
LEMMA QuietGrows ==
  ASSUME ReadTypeOK, trials' = trials, sessions' = sessions, head \subseteq head', products \subseteq products',
         answer' = answer, runs' \in {runs, runs + 1}
  PROVE  Grows
<1>1. runs \in Nat
  BY DEF ReadTypeOK
<1> QED BY <1>1, EndedCount DEF Grows

LEMMA MarkRunningStep ==
  ASSUME WriterHolds, NEW t \in TaskIds, MarkRunning(t)
  PROVE  WriterHolds' /\ Grows
<1>1. writer = [at |-> "mark", task |-> t] /\ writer' = [at |-> "launch", task |-> t]
  BY WriterAt DEF WriterHolds, MarkRunning, Does
<1>2. states \in [TaskIds -> ShownStates] /\ states' = [states EXCEPT ![t] = "running"]
  BY <1>1 DEF WriterHolds, ReadTypeOK, MarkRunning
<1>3. ReadTypeOK'
  BY <1>1, <1>2 DEF WriterHolds, ReadTypeOK, MarkRunning, Elsewhere, ShownStates, Handling
<1>4. AttemptsTell'
  BY <1>1 DEF WriterHolds, AttemptsTell, MarkRunning, InHand, Handling, Number
<1>5. trials[t] # <<>>
  BY <1>1 DEF WriterHolds, AttemptsTell, InHand, Handling
<1>6. StatesTell(states, trials)'
  BY <1>2, <1>5 DEF WriterHolds, MarkRunning, StatesTell
<1>7. SessionsTell'
  BY <1>1 DEF WriterHolds, SessionsTell, MarkRunning, Number
<1> QED BY <1>3, <1>4, <1>6, <1>7, QuietGrows DEF WriterHolds, MarkRunning, Elsewhere

LEMMA LandStep ==
  ASSUME WriterHolds, NEW t \in TaskIds, LandTrial(t)
  PROVE  WriterHolds' /\ Grows
<1>1. writer = [at |-> "land", task |-> t] /\ writer' = [at |-> "approve", task |-> t]
  BY WriterAt DEF WriterHolds, LandTrial, Does
<1>2. head' = head \cup {<<t, Number(t)>>} /\ UNCHANGED <<states, trials, sessions, products>>
  BY DEF LandTrial
<1>3. ReadTypeOK'
  BY <1>1, <1>2 DEF WriterHolds, ReadTypeOK, LandTrial, Elsewhere, Handling
<1>4. AttemptsTell'
  <2>1. Produces(t)
    BY <1>1 DEF WriterHolds, AttemptsTell, InHand, Handling
  <2> QED BY <1>1, <1>2, <2>1 DEF WriterHolds, AttemptsTell, InHand, Handling, Number
<1>5. StatesTell(states, trials)'
  BY <1>2 DEF WriterHolds, StatesTell
<1>6. SessionsTell'
  BY <1>1, <1>2 DEF WriterHolds, SessionsTell, Number
<1> QED BY <1>2, <1>3, <1>4, <1>5, <1>6, QuietGrows DEF WriterHolds, LandTrial, Elsewhere

LEMMA ArtifactStep ==
  ASSUME WriterHolds, NEW t \in TaskIds, InsertArtifact(t)
  PROVE  WriterHolds' /\ Grows
<1>1. PICK v \in {"approve", "changes"} : Then(v)
  BY DEF InsertArtifact
<1>2. writer = [at |-> "product", task |-> t] /\ writer' = [at |-> v, task |-> t]
  BY <1>1, WriterAt DEF WriterHolds, InsertArtifact, Does
<1>3. products' = products \cup {<<t, Number(t)>>} /\ UNCHANGED <<states, trials, sessions, head>>
  BY DEF InsertArtifact
<1>4. ReadTypeOK'
  BY <1>2, <1>3 DEF WriterHolds, ReadTypeOK, InsertArtifact, Elsewhere, Handling
<1>5. AttemptsTell'
  <2>1. ~Produces(t)
    BY <1>2 DEF WriterHolds, AttemptsTell, InHand, Handling
  <2> QED BY <1>2, <1>3, <2>1 DEF WriterHolds, AttemptsTell, InHand, Handling, Number
<1>6. StatesTell(states, trials)'
  BY <1>3 DEF WriterHolds, StatesTell
<1>7. SessionsTell'
  BY <1>2, <1>3 DEF WriterHolds, SessionsTell, Number
<1> QED BY <1>3, <1>4, <1>5, <1>6, <1>7, QuietGrows DEF WriterHolds, InsertArtifact, Elsewhere

LEMMA MarkTrialStep ==
  ASSUME WriterHolds, NEW t \in TaskIds, MarkTrial(t)
  PROVE  WriterHolds' /\ Grows
<1>1. writer.task = t /\ writer.at \in {"ready", "completed", "blocked"}
  BY DEF MarkTrial
<1>2. \E d \in TaskIds : writer' \in {[at |-> "ready", task |-> d], [at |-> "dependents", task |-> t]}
  BY <1>1, WriterAt, ReadConstants DEF WriterHolds, MarkTrial, TaskIds
<1>3. states \in [TaskIds -> ShownStates] /\ states' = [states EXCEPT ![t] = writer.at]
  BY <1>1 DEF WriterHolds, ReadTypeOK, MarkTrial
<1>4. UNCHANGED <<trials, sessions, products, head>>
  BY DEF MarkTrial
<1>5. ReadTypeOK'
  BY <1>1, <1>2, <1>3, <1>4 DEF WriterHolds, ReadTypeOK, MarkTrial, Elsewhere, ShownStates, Marking
<1>6. AttemptsTell'
  BY <1>1, <1>2, <1>4 DEF WriterHolds, AttemptsTell, InHand, Handling, Number
<1>7. StatesTell(states, trials)'
  BY <1>1, <1>3, <1>4 DEF WriterHolds, AttemptsTell, StatesTell
<1>8. SessionsTell'
  BY <1>1, <1>2, <1>4 DEF WriterHolds, SessionsTell, Number
<1> QED BY <1>4, <1>5, <1>6, <1>7, <1>8, QuietGrows DEF WriterHolds, MarkTrial, Elsewhere

LEMMA DependentsStep ==
  ASSUME WriterHolds, NEW t \in TaskIds, MarkDependents(t)
  PROVE  WriterHolds' /\ Grows
<1>1. writer = [at |-> "dependents", task |-> t] /\ writer' = [at |-> "idle", task |-> NoOne]
  BY DEF MarkDependents, Does
<1>2. states \in [TaskIds -> ShownStates]
  BY <1>1 DEF WriterHolds, ReadTypeOK
<1>3. /\ states' \in [TaskIds -> ShownStates]
      /\ \A d \in TaskIds : states'[d] \in {"ready", "pending", states[d]}
  BY <1>2 DEF MarkDependents, StateForDependent, ShownStates
<1>4. UNCHANGED <<trials, sessions, products, head>>
  BY DEF MarkDependents
<1>5. ReadTypeOK'
  BY <1>1, <1>3, <1>4 DEF WriterHolds, ReadTypeOK, MarkDependents, Elsewhere
<1>6. AttemptsTell'
  BY <1>1, <1>4 DEF WriterHolds, AttemptsTell, InHand, Handling, Number
<1>7. StatesTell(states, trials)'
  BY <1>2, <1>3, <1>4 DEF WriterHolds, StatesTell
<1>8. SessionsTell'
  BY <1>1, <1>4 DEF WriterHolds, SessionsTell, Number
<1> QED BY <1>4, <1>5, <1>6, <1>7, <1>8, QuietGrows DEF WriterHolds, MarkDependents, Elsewhere

LEMMA OthersStep ==
  ASSUME WriterHolds, CreateRun \/ SaveConfig
  PROVE  WriterHolds' /\ Grows
<1>1. UNCHANGED <<Tables, writer, answer>> /\ runs' \in {runs, runs + 1}
  BY DEF CreateRun, SaveConfig
<1>2. ReadTypeOK'
  BY <1>1 DEF WriterHolds, ReadTypeOK, CreateRun, SaveConfig, Tables
<1>3. AttemptsTell' /\ StatesTell(states, trials)' /\ SessionsTell'
  BY <1>1 DEF WriterHolds, AttemptsTell, StatesTell, SessionsTell, InHand, Number, Tables
<1> QED BY <1>1, <1>2, <1>3, QuietGrows DEF WriterHolds, Tables

(* Steps that change a row of the sessions.                                *)
RowStep(t, n) ==
  /\ sessions' \in Seq(SessionRows)
  /\ \A u \in TaskIds : Cardinality(EndedSessions(sessions', u)) =
                          Cardinality(EndedSessions(sessions, u)) + (IF u = t THEN n ELSE 0)
  /\ \A row \in DOMAIN sessions :
       /\ row \in DOMAIN sessions'
       /\ sessions[row].status # "running" => sessions'[row].status = sessions[row].status
LEMMA RowGrows ==
  ASSUME ReadTypeOK, NEW t, NEW n \in {0, 1}, RowStep(t, n), UNCHANGED <<states, trials, products, head>>, Elsewhere
  PROVE  Grows
<1>1. \A u \in TaskIds : Cardinality(EndedSessions(sessions, u)) =< Cardinality(EndedSessions(sessions', u))
  <2> TAKE u \in TaskIds
  <2>1. Cardinality(EndedSessions(sessions, u)) \in Nat
    BY EndedCount
  <2> QED BY <2>1 DEF RowStep
<1> QED BY <1>1 DEF Grows, RowStep, Elsewhere, ReadTypeOK

LEMMA InsertStep ==
  ASSUME WriterHolds, NEW t \in TaskIds, InsertSession(t)
  PROVE  WriterHolds' /\ Grows
<1>1. writer = [at |-> "launch", task |-> t] /\ writer' = [at |-> "agent", task |-> t]
  BY WriterAt DEF WriterHolds, InsertSession, Does
<1> DEFINE row == [task |-> t, status |-> "running", output |-> "none"]
<1>2. sessions \in Seq(SessionRows) /\ row \in SessionRows /\ row.status = "running" /\ row.task = t
  BY DEF WriterHolds, ReadTypeOK, SessionRows
<1>3. sessions' = Append(sessions, row) /\ UNCHANGED <<states, trials, products, head>> /\ Elsewhere
  BY DEF InsertSession
<1> HIDE DEF row
<1>4. /\ \A u \in TaskIds : EndedSessions(sessions', u) = EndedSessions(sessions, u)
      /\ sessions' \in Seq(SessionRows)
  BY <1>2, <1>3, EndedAppend
<1>5. Added(SessionRows, sessions, row, sessions')
  BY <1>2, <1>3, AddLast
<1>6. RowStep(t, 0)
  BY <1>4, <1>5, EndedCount DEF RowStep, Added, WriterHolds
<1>7. ReadTypeOK'
  BY <1>1, <1>3, <1>4 DEF WriterHolds, ReadTypeOK, Elsewhere, Handling
<1>8. AttemptsTell'
  BY <1>1, <1>3 DEF WriterHolds, AttemptsTell, InHand, Handling, Number
<1>9. StatesTell(states, trials)'
  BY <1>3 DEF WriterHolds, StatesTell
<1>10. SessionsTell'
  <2>1. Last(sessions') = row /\ sessions' # <<>>
    BY <1>5 DEF Added
  <2>2. ASSUME NEW s \in DOMAIN sessions', sessions'[s].status = "running" PROVE s = Len(sessions')
    BY <1>1, <1>5, <2>2 DEF WriterHolds, SessionsTell, Added
  <2> QED BY <1>1, <1>2, <1>3, <1>4, <2>1, <2>2 DEF WriterHolds, SessionsTell, Number
<1> QED BY <1>3, <1>6, <1>7, <1>8, <1>9, <1>10, RowGrows DEF WriterHolds

LEMMA OutputStep ==
  ASSUME WriterHolds, NEW t \in TaskIds, AppendOutput(t) \/ SetOutput(t)
  PROVE  WriterHolds' /\ Grows
<1>1. PICK s \in {"agent", "fail", "land", "product"} :
        /\ Then(s)
        /\ \/ writer = [at |-> "agent", task |-> t] /\ s = "agent"
           \/ /\ writer = [at |-> "output", task |-> t] /\ s # "agent"
              /\ s = "land" => Produces(t)
              /\ s = "product" => ~Produces(t)
  BY DEF AppendOutput, SetOutput, Does
<1>2. writer' = [at |-> s, task |-> t] /\ writer.task = t
  BY <1>1, WriterAt DEF WriterHolds
<1>3. PICK v \in {"none", "observed", "complete"} : sessions' = [sessions EXCEPT ![Len(sessions)]["output"] = v]
  BY DEF AppendOutput, SetOutput, SessionRow
<1>4. UNCHANGED <<states, trials, products, head>> /\ Elsewhere
  BY DEF AppendOutput, SetOutput
<1>5. sessions \in Seq(SessionRows) /\ sessions # <<>> /\ Last(sessions).task = t
  BY <1>1 DEF WriterHolds, ReadTypeOK, SessionsTell
<1>6. /\ sessions' \in Seq(SessionRows) /\ Len(sessions') = Len(sessions)
      /\ \A i \in DOMAIN sessions : sessions'[i].status = sessions[i].status /\ sessions'[i].task = sessions[i].task
      /\ \A u \in TaskIds : EndedSessions(sessions', u) = EndedSessions(sessions, u)
  <2>1. \A u : OutputWritten(sessions, sessions', u)
    BY <1>3, <1>5, RowOutput
  <2> QED BY <2>1 DEF OutputWritten
<1>7. DOMAIN sessions' = DOMAIN sessions /\ Len(sessions) \in DOMAIN sessions /\ sessions' # <<>>
  BY <1>5, <1>6
<1>8. RowStep(t, 0)
  BY <1>6, <1>7, EndedCount DEF RowStep, WriterHolds
<1>9. ReadTypeOK'
  BY <1>1, <1>2, <1>4, <1>6 DEF WriterHolds, ReadTypeOK, Elsewhere, Handling
<1>10. AttemptsTell'
  BY <1>1, <1>2, <1>4 DEF WriterHolds, AttemptsTell, InHand, Handling, Number
<1>11. StatesTell(states, trials)'
  BY <1>4 DEF WriterHolds, StatesTell
<1>12. SessionsTell'
  <2>1. Last(sessions').task = Last(sessions).task /\ Last(sessions').status = Last(sessions).status
    BY <1>6, <1>7 DEF Last
  <2> QED BY <1>1, <1>2, <1>4, <1>6, <1>7, <2>1 DEF WriterHolds, SessionsTell, Number
<1> QED BY <1>4, <1>8, <1>9, <1>10, <1>11, <1>12, RowGrows DEF WriterHolds

LEMMA FinishStep ==
  ASSUME WriterHolds, NEW t \in TaskIds, NEW status \in {"success", "failed"}, FinishSession(t, status)
  PROVE  WriterHolds' /\ Grows
<1>1. writer = [at |-> "agent", task |-> t] /\ writer' = [at |-> "output", task |-> t]
  BY WriterAt DEF WriterHolds, FinishSession, Does
<1>2. sessions' = [sessions EXCEPT ![Len(sessions)]["status"] = status]
  BY DEF FinishSession, SessionRow
<1>3. UNCHANGED <<states, trials, products, head>> /\ Elsewhere
  BY DEF FinishSession
<1>4. /\ sessions \in Seq(SessionRows) /\ sessions # <<>>
      /\ sessions[Len(sessions)].task = t /\ sessions[Len(sessions)].status = "running"
  BY <1>1 DEF WriterHolds, ReadTypeOK, SessionsTell, Last
<1>5. /\ sessions' \in Seq(SessionRows) /\ Len(sessions') = Len(sessions)
      /\ \A i \in DOMAIN sessions : sessions'[i].task = sessions[i].task
      /\ \A i \in DOMAIN sessions : i # Len(sessions) => sessions'[i].status = sessions[i].status
      /\ sessions'[Len(sessions)].status = status
      /\ \A u \in TaskIds : Cardinality(EndedSessions(sessions', u)) =
                               Cardinality(EndedSessions(sessions, u)) + (IF u = t THEN 1 ELSE 0)
  <2>1. \A u : StatusWritten(sessions, sessions', status, u)
    BY <1>2, <1>4, RowEnds
  <2> QED BY <1>4, <2>1 DEF StatusWritten
<1>6. DOMAIN sessions' = DOMAIN sessions /\ Len(sessions) \in DOMAIN sessions /\ sessions' # <<>>
  BY <1>4, <1>5
<1>7. RowStep(t, 1)
  BY <1>4, <1>5, <1>6 DEF RowStep
<1>8. ReadTypeOK'
  BY <1>1, <1>3, <1>5 DEF WriterHolds, ReadTypeOK, Elsewhere, Handling
<1>9. AttemptsTell'
  BY <1>1, <1>3 DEF WriterHolds, AttemptsTell, InHand, Handling, Number
<1>10. StatesTell(states, trials)'
  BY <1>3 DEF WriterHolds, StatesTell
<1>11. SessionsTell'
  <2>1. Last(sessions').task = t
    BY <1>4, <1>5, <1>6 DEF Last
  <2>2. \A s \in DOMAIN sessions' : sessions'[s].status # "running"
    BY <1>1, <1>4, <1>5, <1>6 DEF WriterHolds, SessionsTell
  <2>3. \A u \in TaskIds : Number(u)' = Cardinality(EndedSessions(sessions', u))
    <3> TAKE u \in TaskIds
    <3>1. Number(u)' = Number(u)
      BY <1>3 DEF Number
    <3>2. Number(u) = Cardinality(EndedSessions(sessions, u)) + (IF u = t THEN 1 ELSE 0)
      BY <1>1 DEF WriterHolds, SessionsTell
    <3> QED BY <1>5, <3>1, <3>2
  <2>4. \A u \in TaskIds : Cardinality(EndedSessions(sessions', u)) + 0 = Cardinality(EndedSessions(sessions', u))
    BY <1>5, EndedIs
  <2> QED BY <1>1, <1>6, <2>1, <2>2, <2>3, <2>4 DEF SessionsTell
<1> QED BY <1>3, <1>7, <1>8, <1>9, <1>10, <1>11, RowGrows DEF WriterHolds

(* Steps that change the status of an attempt.                             *)
LEMMA TrialStep ==
  ASSUME WriterHolds, NEW t \in TaskIds, Reviewing(t) \/ FinishTrial(t)
  PROVE  WriterHolds' /\ Grows
<1>1. PICK v \in Settled \cup {"reviewing"}, s \in {"land", "ready", "completed", "blocked"} :
        /\ trials' = [trials EXCEPT ![t][Number(t)] = v] /\ Then(s)
        /\ \/ writer.at = "land" /\ v = "reviewing" /\ s = "land"
           \/ writer.at \in {"fail", "changes"} /\ v # "approved" /\ s \in {"ready", "blocked"} /\ v # "reviewing"
           \/ writer.at = "approve" /\ v = "approved" /\ s = "completed"
        /\ writer.task = t
  <2>1. CASE Reviewing(t)
    BY <2>1 DEF Reviewing, Does, Settled
  <2>2. CASE FinishTrial(t)
    <3>1. writer.at \in {"fail", "approve", "changes"} /\ writer.task = t
      BY <2>2 DEF FinishTrial, TrialEnd
    <3>2. /\ trials' = [trials EXCEPT ![t][Number(t)] = TrialEnd[writer.at]] /\ Then(NextMark[writer.at])
      BY <2>2 DEF FinishTrial
    <3>3. CASE writer.at = "fail"
      <4>1. trials' = [trials EXCEPT ![t][Number(t)] = "failed"] /\ Then("ready") /\ "failed" \in Settled
        BY <3>2, <3>3 DEF TrialEnd, NextMark, Settled
      <4> QED BY <4>1, <3>1, <3>3
    <3>4. CASE writer.at = "approve"
      <4>1. trials' = [trials EXCEPT ![t][Number(t)] = "approved"] /\ Then("completed") /\ "approved" \in Settled
        BY <3>2, <3>4 DEF TrialEnd, NextMark, Settled
      <4> QED BY <4>1, <3>1, <3>4
    <3>5. CASE writer.at = "changes"
      <4>1. trials' = [trials EXCEPT ![t][Number(t)] = "changes_requested"] /\ Then("blocked") /\ "changes_requested" \in Settled
        BY <3>2, <3>5 DEF TrialEnd, NextMark, Settled
      <4> QED BY <4>1, <3>1, <3>5
    <3> QED BY <3>1, <3>3, <3>4, <3>5
  <2> QED BY <2>1, <2>2
<1>2. writer' = [at |-> s, task |-> t] /\ writer.at \in Handling /\ writer.at \notin {"mark", "launch", "agent", "output"}
  BY <1>1, WriterAt DEF WriterHolds, Handling
<1>3. UNCHANGED <<states, sessions, products, head>> /\ Elsewhere
  BY DEF Reviewing, FinishTrial
<1>4. trials \in [TaskIds -> Seq(TrialStatus)] /\ v \in TrialStatus
  BY DEF WriterHolds, ReadTypeOK, TrialStatus
<1>5. InHand(t) /\ trials[t] # <<>> /\ Last(trials[t]) \in {"running", "reviewing"}
  BY <1>1, <1>2 DEF WriterHolds, AttemptsTell, InHand
<1>6. trials[t] \in Seq(TrialStatus) /\ trials'[t] = [trials[t] EXCEPT ![Len(trials[t])] = v]
  BY <1>1, <1>4 DEF Number
<1>7. LastReplaced(TrialStatus, trials[t], v, trials'[t])
  BY <1>4, <1>5, <1>6, PutLast
<1>8. \A u \in TaskIds \ {t} : trials'[u] = trials[u]
  BY <1>1, <1>4
<1>9. trials' \in [TaskIds -> Seq(TrialStatus)]
  <2>1. trials'[t] \in Seq(TrialStatus)
    BY <1>7 DEF LastReplaced
  <2>2. DOMAIN trials' = TaskIds /\ trials' = [u \in TaskIds |-> trials'[u]]
    BY <1>1, <1>4
  <2> QED BY <1>4, <1>8, <2>1, <2>2
<1>10. ReadTypeOK'
  BY <1>2, <1>3, <1>9, <1>1 DEF WriterHolds, ReadTypeOK, Elsewhere, Handling, Marking
<1>11. \A u \in TaskIds : Number(u)' = Number(u)
  BY <1>7, <1>8 DEF Number, LastReplaced
<1>12. \A u \in TaskIds : /\ "approved" \in ToSet(trials[u]) => "approved" \in ToSet(trials'[u])
                          /\ trials[u] # <<>> => trials'[u] # <<>>
  <2> TAKE u \in TaskIds
  <2>1. CASE u = t
    <3>1. ASSUME "approved" \in ToSet(trials[t]) PROVE "approved" \in ToSet(trials'[t])
      <4>1. PICK i \in DOMAIN trials[t] : trials[t][i] = "approved"
        BY <3>1 DEF ToSet
      <4>2. i # Len(trials[t])
        BY <1>5, <4>1 DEF Last
      <4>3. i \in DOMAIN trials'[t] /\ trials'[t][i] = "approved"
        BY <1>7, <4>1, <4>2 DEF LastReplaced
      <4> QED BY <4>3 DEF ToSet
    <3> QED BY <1>7, <2>1, <3>1 DEF LastReplaced
  <2>2. CASE u # t
    BY <1>8, <2>2
  <2> QED BY <2>1, <2>2
<1>13. AttemptsTell'
  <2> SUFFICES ASSUME NEW u \in TaskIds PROVE AttemptsTell!(u)'
    BY DEF AttemptsTell
  <2>1. CASE u # t
    BY <2>1, <1>1, <1>2, <1>3, <1>8 DEF WriterHolds, AttemptsTell, InHand, Number
  <2>2. CASE u = t
    <3>1. InHand(t)' => s = "land"
      BY <1>2 DEF InHand, Handling
    <3>2. trials'[t] # <<>> /\ Last(trials'[t]) = v
      BY <1>7 DEF LastReplaced
    <3>3. s = "land" => writer.at = "land" /\ v = "reviewing"
      BY <1>1
    <3>4. s = "land" => Produces(t)
      BY <1>5, <3>3 DEF WriterHolds, AttemptsTell
    <3>5. ASSUME NEW i \in DOMAIN trials'[t], trials'[t][i] = "approved"
          PROVE  <<t, i>> \in (IF Produces(t) THEN head ELSE products)
      <4>1. CASE i # Len(trials[t])
        <5>1. i \in DOMAIN trials[t] /\ trials[t][i] = "approved"
          BY <1>7, <3>5, <4>1 DEF LastReplaced
        <5> QED BY <5>1 DEF WriterHolds, AttemptsTell
      <4>2. CASE i = Len(trials[t])
        <5>1. v = "approved"
          BY <1>7, <3>5, <4>2 DEF LastReplaced
        <5>2. writer.at = "approve"
          BY <1>1, <5>1
        <5> QED BY <1>5, <4>2, <5>2 DEF WriterHolds, AttemptsTell, Number
      <4> QED BY <4>1, <4>2
    <3>6. s = "completed" => "approved" \in ToSet(trials'[t])
      <4> SUFFICES ASSUME s = "completed" PROVE "approved" \in ToSet(trials'[t])
        OBVIOUS
      <4>1. v = "approved"
        BY <1>1
      <4>2. Len(trials[t]) \in DOMAIN trials'[t] /\ trials'[t][Len(trials[t])] = "approved"
        BY <1>7, <4>1 DEF LastReplaced
      <4> QED BY <4>2 DEF ToSet
    <3> QED BY <2>2, <1>2, <1>3, <3>1, <3>2, <3>3, <3>4, <3>5, <3>6
  <2> QED BY <2>1, <2>2
<1>14. StatesTell(states, trials)'
  <2>1. DOMAIN states \subseteq TaskIds
    BY DEF WriterHolds, ReadTypeOK
  <2> QED BY <1>3, <1>12, <2>1 DEF WriterHolds, StatesTell
<1>15. SessionsTell'
  BY <1>1, <1>2, <1>3, <1>11 DEF WriterHolds, SessionsTell
<1>16. Grows
  <2>1. sessions' = sessions /\ head' = head /\ products' = products /\ runs' = runs /\ answer' = answer
    BY <1>3 DEF Elsewhere
  <2>2. runs \in Nat
    BY DEF WriterHolds, ReadTypeOK
  <2> QED BY <1>12, <2>1, <2>2, EndedCount DEF WriterHolds, Grows
<1> QED BY <1>10, <1>13, <1>14, <1>15, <1>16 DEF WriterHolds

LEMMA WritesStep ==
  ASSUME WriterHolds, Writes
  PROVE  WriterHolds' /\ Grows
BY PlanStep, OpenStep, MarkRunningStep, InsertStep, OutputStep, FinishStep, TrialStep, LandStep,
   ArtifactStep, MarkTrialStep, DependentsStep, OthersStep DEF Writes

LEMMA WriterBegins == ReadInit => WriterHolds
<1> SUFFICES ASSUME ReadInit PROVE WriterHolds
  OBVIOUS
<1>1. ReadTypeOK
  BY DEF ReadInit, ReadTypeOK
<1>2. \A t \in TaskIds : Number(t) = 0 /\ EndedSessions(sessions, t) = {}
  BY DEF ReadInit, Number, EndedSessions
<1>3. Cardinality({}) = 0
  BY FS_EmptySet
<1>4. AttemptsTell /\ StatesTell(states, trials)
  BY DEF ReadInit, AttemptsTell, StatesTell, InHand, Handling
<1>5. SessionsTell
  <2>1. \A t \in TaskIds : Number(t) = Cardinality(EndedSessions(sessions, t)) + 0
    BY <1>2, <1>3
  <2>2. sessions = <<>> /\ writer.at = "plan"
    BY DEF ReadInit
  <2> QED BY <2>1, <2>2 DEF SessionsTell
<1> QED BY <1>1, <1>4, <1>5 DEF WriterHolds

-----------------------------------------------------------------------------
LEMMA CountsGrow ==
  ASSUME WriterHolds, WriterHolds', Grows, NEW t \in TaskIds
  PROVE  /\ Cardinality(EndedSessions(sessions, t)) \in Nat /\ Cardinality(EndedSessions(sessions', t)) \in Nat
         /\ Cardinality(EndedSessions(sessions, t)) =< Cardinality(EndedSessions(sessions', t))
BY EndedIs DEF WriterHolds, ReadTypeOK, Grows

LEMMA DetailKept ==
  ASSUME WriterHolds, WriterHolds', Grows, DetailInv
  PROVE  DetailInv'
<1> SUFFICES ASSUME answer.kind = "detail" PROVE DetailInv'
  BY DEF Grows, DetailInv
<1>1. answer' = answer
  BY DEF Grows
<1> DEFINE got == answer.got
           n == answer.at
           artifacts == IF n > 4 THEN got.artifacts ELSE products
           branch == IF n > 5 THEN got.head ELSE head
           list == IF n > 3 THEN got.sessions ELSE sessions
           artifactsN == IF n > 4 THEN got.artifacts ELSE products'
           branchN == IF n > 5 THEN got.head ELSE head'
           listN == IF n > 3 THEN got.sessions ELSE sessions'
<1>2. n > 1 => /\ DOMAIN got.tasks \subseteq TaskIds
               /\ StatesTell(got.tasks, IF n > 2 THEN got.attempts ELSE trials)
  BY DEF DetailInv
<1>3. n > 2 => /\ got.attempts \in [TaskIds -> Seq(TrialStatus)]
               /\ Attempted(got.attempts, artifacts, branch, list)
  BY DEF DetailInv
<1>4. n > 1 => StatesTell(got.tasks, IF n > 2 THEN got.attempts ELSE trials')
  BY <1>2 DEF StatesTell, Grows
<1>5. ASSUME n > 2 PROVE Attempted(got.attempts, artifactsN, branchN, listN)
  <2> SUFFICES ASSUME NEW t \in TaskIds, NEW i \in DOMAIN got.attempts[t]
               PROVE  /\ got.attempts[t][i] = "approved" => <<t, i>> \in (IF Produces(t) THEN branchN ELSE artifactsN)
                      /\ got.attempts[t][i] # "running" => i =< Cardinality(EndedSessions(listN, t))
    BY DEF Attempted
  <2>1. /\ got.attempts[t][i] = "approved" => <<t, i>> \in (IF Produces(t) THEN branch ELSE artifacts)
        /\ got.attempts[t][i] # "running" => i =< Cardinality(EndedSessions(list, t))
    BY <1>3, <1>5 DEF Attempted
  <2>2. i \in Nat
    BY <1>3, <1>5
  <2>3. branch \subseteq branchN /\ artifacts \subseteq artifactsN
    BY DEF Grows
  <2>4. list = listN \/ (list = sessions /\ listN = sessions')
    OBVIOUS
  <2> HIDE DEF list, listN, got, n, branch, branchN, artifacts, artifactsN
  <2>5. i =< Cardinality(EndedSessions(list, t)) => i =< Cardinality(EndedSessions(listN, t))
    BY <2>2, <2>4, CountsGrow
  <2> QED BY <2>1, <2>3, <2>5
<1> QED BY <1>1, <1>2, <1>3, <1>4, <1>5 DEF DetailInv

LEMMA AnswerKept ==
  ASSUME WriterHolds, WriterHolds', Grows, AnswerHolds
  PROVE  AnswerHolds'
<1>1. answer' = answer
  BY DEF Grows
<1>2. AnswerShaped' /\ GraphInv'
  BY <1>1 DEF AnswerHolds, AnswerShaped, GraphInv
<1>3. PageInv'
  <2>1. runs \in Nat /\ runs' \in Nat /\ runs =< runs'
    BY DEF WriterHolds, ReadTypeOK, Grows
  <2>2. \A known \in Nat : known =< runs => known .. runs \subseteq known .. runs'
    BY <2>1
  <2> SUFFICES ASSUME answer.kind = "pages" PROVE PageInv'
    BY <1>1 DEF PageInv
  <2>3. PageInv!2!1 /\ PageInv!2!2
    BY DEF AnswerHolds, PageInv
  <2>4. answer.known =< runs'
    BY <2>1, <2>3
  <2>5. CASE answer.more /\ answer.cursor = NoCursor /\ answer.seen = <<>>
    BY <1>1, <2>3, <2>4, <2>5 DEF PageInv
  <2>6. ASSUME NEW m \in answer.known .. runs, NEW k \in 0 .. m,
               answer.seen = [i \in 1 .. k |-> m + 1 - i],
               IF answer.more THEN k \in 1 .. m - 1 /\ answer.cursor = m + 1 - k ELSE k = m
        PROVE  PageInv'
    <3>1. m \in answer.known .. runs'
      BY <2>1, <2>3
    <3> QED BY <1>1, <2>3, <2>4, <2>6, <3>1 DEF PageInv
  <2> QED BY <2>3, <2>5, <2>6
<1>4. StreamInv'
  <2> SUFFICES ASSUME answer.kind = "stream" PROVE StreamInv'
    BY <1>1 DEF StreamInv
  <2>1. StreamInv!2
    BY DEF AnswerHolds, StreamInv
  <2>2. answer.row \in DOMAIN sessions'
    BY <2>1 DEF Grows
  <2>3. ASSUME ~answer.open PROVE Last(answer.sent).status = sessions'[answer.row].status
    <3>1. Last(answer.sent).status = sessions[answer.row].status /\ ~Running(Last(answer.sent))
      BY <2>1, <2>3
    <3> QED BY <2>1, <3>1 DEF Grows, Running
  <2> QED BY <1>1, <2>1, <2>2, <2>3 DEF StreamInv
<1> QED BY <1>2, <1>3, <1>4, DetailKept DEF AnswerHolds

LEMMA RequestStep ==
  ASSUME WriterHolds, NEW kind \in {"detail", "graph"}, Request(kind)
  PROVE  AnswerHolds'
<1>1. answer' = [kind |-> kind, at |-> 1, got |-> <<>>]
  BY DEF Request
<1>2. DOMAIN <<>> = {OrderOf(kind)[i] : i \in 1 .. 1 - 1}
  OBVIOUS
<1> QED BY <1>1, <1>2 DEF AnswerHolds, AnswerShaped, DetailInv, GraphInv, PageInv, StreamInv

LEMMA AskStep ==
  ASSUME WriterHolds, \/ \E size \in PageSizes : AskPages(size)
                      \/ \E row \in DOMAIN sessions : AskStream(row)
                      \/ ReadsDone
  PROVE  AnswerHolds'
<1>1. CASE \E size \in PageSizes : AskPages(size)
  <2>1. PICK size \in PageSizes : AskPages(size)
    BY <1>1
  <2>2. runs \in Nat
    BY DEF WriterHolds, ReadTypeOK
  <2> QED BY <2>1, <2>2 DEF AskPages, AnswerHolds, AnswerShaped, DetailInv, GraphInv, PageInv, StreamInv
<1>2. CASE \E row \in DOMAIN sessions : AskStream(row)
  <2>1. PICK row \in DOMAIN sessions : AskStream(row)
    BY <1>2
  <2> QED BY <2>1 DEF AskStream, AnswerHolds, AnswerShaped, DetailInv, GraphInv, PageInv, StreamInv, Tables
<1>3. CASE ReadsDone
  BY <1>3 DEF ReadsDone, Quiet, AnswerHolds, AnswerShaped, DetailInv, GraphInv, PageInv, StreamInv
<1> QED BY <1>1, <1>2, <1>3

LEMMA NextWithin ==
  ASSUME NEW n \in Nat, NEW i \in 1 .. n, i # n
  PROVE  i + 1 \in 1 .. n /\ i \in 1 .. n - 1
OBVIOUS

LEMMA PollStep ==
  ASSUME WriterHolds, AnswerHolds, Poll
  PROVE  AnswerHolds'
<1>1. answer.kind = "stream" /\ answer.open /\ UNCHANGED sessions
  BY DEF Poll, Tables
<1> DEFINE S == Responses
           response == SessionResponse(answer.row)
           sent == answer.sent
           next == IF sent # <<>> /\ Last(sent) = response THEN sent ELSE Append(sent, response)
<1>2. answer = [kind |-> "stream", row |-> answer.row, sent |-> sent, open |-> answer.open]
  BY <1>1 DEF AnswerHolds, AnswerShaped, Quiet
<1>3. answer' = [kind |-> "stream", row |-> answer.row, sent |-> next, open |-> Running(response)]
  BY <1>2 DEF Poll
<1>4. /\ answer.row \in DOMAIN sessions /\ sent \in Seq(S)
      /\ \A i \in DOMAIN sent : Running(sent[i])
      /\ \A i \in 1 .. Len(sent) - 1 : sent[i] # sent[i + 1]
  BY <1>1 DEF AnswerHolds, StreamInv
<1>5. response \in S /\ response.status = sessions[answer.row].status
  <2>1. sessions[answer.row] \in SessionRows
    BY <1>4 DEF WriterHolds, ReadTypeOK
  <2> QED BY <2>1 DEF SessionResponse, SessionRows, Responses
<1> HIDE DEF S, response, sent
<1>6. /\ next \in Seq(S) /\ next # <<>> /\ Last(next) = response /\ Len(next) \in Nat \ {0}
      /\ \A i \in 1 .. Len(next) : i < Len(next) => Running(next[i])
      /\ \A i \in 1 .. Len(next) - 1 : next[i] # next[i + 1]
  <2>1. CASE sent # <<>> /\ Last(sent) = response
    <3>1. next = sent /\ Len(sent) \in Nat \ {0} /\ DOMAIN sent = 1 .. Len(sent)
      BY <1>4, <2>1
    <3> QED BY <1>4, <2>1, <3>1
  <2>2. CASE ~(sent # <<>> /\ Last(sent) = response)
    <3>1. Added(S, sent, response, next)
      BY <1>4, <1>5, <2>2, AddLast
    <3>2. ASSUME NEW i \in 1 .. Len(next) - 1 PROVE next[i] # next[i + 1] /\ Running(next[i])
      <4>1. i \in 1 .. Len(sent) /\ next[i] = sent[i] /\ Len(sent) \in Nat
        BY <3>1 DEF Added
      <4>2. CASE i = Len(sent)
        BY <1>4, <2>2, <3>1, <4>1, <4>2 DEF Added, Last
      <4>3. CASE i # Len(sent)
        <5>1. i + 1 \in DOMAIN sent /\ i \in DOMAIN sent /\ i \in 1 .. Len(sent) - 1
          <6>1. DOMAIN sent = 1 .. Len(sent)
            BY <3>1 DEF Added
          <6>2. i \in 1 .. Len(sent) /\ Len(sent) \in Nat /\ i # Len(sent)
            BY <4>1, <4>3
          <6>3. i + 1 \in 1 .. Len(sent) /\ i \in 1 .. Len(sent) - 1
            BY <6>2, NextWithin
          <6> QED BY <6>1, <6>2, <6>3
        <5>2. next[i + 1] = sent[i + 1]
          BY <3>1, <5>1 DEF Added
        <5> QED BY <1>4, <4>1, <5>1, <5>2
      <4> QED BY <4>2, <4>3
    <3> QED BY <3>1, <3>2 DEF Added
  <2> QED BY <2>1, <2>2
<1> HIDE DEF next
<1>7. \A i \in 1 .. Len(next) : i = Len(next) => next[i] = response
  BY <1>6 DEF Last
<1>8. DOMAIN next = 1 .. Len(next)
  BY <1>6
<1>9. StreamInv'
  <2>1. answer'.row \in DOMAIN sessions' /\ answer'.sent \in Seq(S) /\ answer'.open \in BOOLEAN
    BY <1>1, <1>3, <1>4, <1>6 DEF Running
  <2>2. \A i \in DOMAIN next : (Running(response) \/ i < Len(next)) => Running(next[i])
    <3> SUFFICES ASSUME NEW i \in 1 .. Len(next), Running(response) \/ i < Len(next) PROVE Running(next[i])
      BY <1>8
    <3>1. CASE i < Len(next)
      BY <1>6, <3>1
    <3>2. CASE i = Len(next)
      BY <1>7, <3>2 DEF Running
    <3> QED BY <1>6, <3>1, <3>2
  <2>3. ~Running(response) => Last(next).status = sessions[answer.row].status
    BY <1>5, <1>6
  <2> QED BY <1>1, <1>3, <1>6, <2>1, <2>2, <2>3 DEF StreamInv, S
<1> QED BY <1>3, <1>9 DEF AnswerHolds, AnswerShaped, DetailInv, GraphInv, PageInv

LEMMA NowTold ==
  ASSUME WriterHolds
  PROVE  Attempted(trials, products, head, sessions)
<1> SUFFICES ASSUME NEW t \in TaskIds, NEW i \in DOMAIN trials[t], trials[t][i] # "running"
             PROVE  i =< Cardinality(EndedSessions(sessions, t))
  BY DEF WriterHolds, AttemptsTell, Attempted
<1>1. trials[t] \in Seq(TrialStatus)
  BY DEF WriterHolds, ReadTypeOK
<1>2. Number(t) = Len(trials[t]) /\ Len(trials[t]) \in Nat /\ i \in 1 .. Len(trials[t])
  BY <1>1 DEF Number
<1>3. Cardinality(EndedSessions(sessions, t)) \in Nat
  BY EndedCount DEF WriterHolds
<1>4. CASE writer.task = t /\ writer.at \in {"mark", "launch", "agent"}
  <2>1. Last(trials[t]) = "running"
    BY <1>4 DEF WriterHolds, AttemptsTell, InHand, Handling
  <2>2. i # Len(trials[t])
    BY <2>1 DEF Last
  <2>3. Number(t) = Cardinality(EndedSessions(sessions, t)) + 1
    BY <1>4 DEF WriterHolds, SessionsTell
  <2> QED BY <1>2, <1>3, <2>2, <2>3
<1>5. CASE ~(writer.task = t /\ writer.at \in {"mark", "launch", "agent"})
  <2>1. Number(t) = Cardinality(EndedSessions(sessions, t)) + 0
    BY <1>5 DEF WriterHolds, SessionsTell
  <2> QED BY <1>2, <1>3, <2>1
<1> QED BY <1>4, <1>5

(* A further table is put beside those that were read.                     *)
Named(i) == OrderOf(answer.kind)[i]
TableAdded ==
  /\ answer.kind \in {"detail", "graph"} /\ answer.at \in 1 .. 5
  /\ DOMAIN answer.got = {Named(i) : i \in 1 .. answer.at - 1}
  /\ answer' = [kind |-> answer.kind, at |-> answer.at + 1, got |-> answer'.got]
  /\ DOMAIN answer'.got = {Named(i) : i \in 1 .. answer.at}
  /\ answer'.got[Named(answer.at)] = Select(Named(answer.at))
  /\ \A k \in DOMAIN answer.got : k # Named(answer.at) => answer'.got[k] = answer.got[k]
  /\ UNCHANGED <<Tables, writer, runs, settings, topic>>

LEMMA Rewritten ==
  ASSUME NEW a, NEW kind, NEW n, NEW got, NEW m, NEW more, a = [kind |-> kind, at |-> n, got |-> got]
  PROVE  [a EXCEPT !.at = m, !.got = more] = [kind |-> kind, at |-> m, got |-> more]
<1> DEFINE b == [a EXCEPT !.at = m]
<1>1. b = [kind |-> kind, at |-> m, got |-> got]
  OBVIOUS
<1>2. [b EXCEPT !.got = more] = [kind |-> kind, at |-> m, got |-> more]
  <2> HIDE DEF b
  <2> QED BY <1>1
<1> QED BY <1>2

LEMMA FurtherTable ==
  ASSUME AnswerHolds, SelectNext
  PROVE  TableAdded
<1> DEFINE n == answer.at
           got == answer.got
           kind == answer.kind
           more == Joined(got, Named(n))
<1>1. answer.kind \in {"detail", "graph"} /\ ~(n > Len(OrderOf(kind)))
  BY DEF SelectNext, Complete
<1>2. Len(OrderOf(kind)) = 5
  BY <1>1 DEF OrderOf, DetailOrder, GraphOrder
<1>3. answer = [kind |-> kind, at |-> n, got |-> got] /\ n \in 1 .. 6 /\ DOMAIN got = {Named(i) : i \in 1 .. n - 1}
  BY <1>1 DEF AnswerHolds, AnswerShaped, Quiet, Named
<1>4. answer' = [answer EXCEPT !.at = n + 1, !.got = more]
  BY DEF SelectNext, Named
<1>5. answer' = [kind |-> kind, at |-> n + 1, got |-> more]
  BY <1>3, <1>4, Rewritten
<1>6. n \in 1 .. 5
  BY <1>1, <1>2, <1>3
<1>7. DOMAIN more = {Named(i) : i \in 1 .. n}
  <2>1. {Named(i) : i \in 1 .. n} = {Named(i) : i \in 1 .. n - 1} \cup {Named(n)}
    <3>1. 1 .. n = (1 .. n - 1) \cup {n}
      BY <1>6
    <3> QED BY <3>1
  <2>2. DOMAIN more = DOMAIN got \cup {Named(n)}
    BY DEF Joined
  <2> QED BY <1>3, <2>1, <2>2
<1>8. more[Named(n)] = Select(Named(n)) /\ \A k \in DOMAIN got : k # Named(n) => more[k] = got[k]
  BY DEF Joined
<1>9. answer'.got = more
  BY <1>5
<1>10. UNCHANGED <<Tables, writer, runs, settings, topic>>
  BY DEF SelectNext
<1> QED BY <1>1, <1>3, <1>5, <1>6, <1>7, <1>8, <1>9, <1>10 DEF TableAdded

(* What is read of the detail and of the graph, table by table.            *)
LEMMA DetailStep ==
  ASSUME WriterHolds, AnswerHolds, SelectNext, answer.kind = "detail"
  PROVE  DetailInv'
<1> DEFINE got == answer.got
           n == answer.at
           more == answer'.got
<1>1. TableAdded
  BY FurtherTable
<1>2. /\ UNCHANGED <<trials, products, head, sessions>> /\ answer'.at = n + 1 /\ answer'.kind = "detail"
      /\ n \in 1 .. 5
  BY <1>1 DEF TableAdded, Tables
<1>3. /\ Named(1) = "tasks" /\ Named(2) = "attempts" /\ Named(3) = "sessions" /\ Named(4) = "artifacts" /\ Named(5) = "head"
  BY DEF Named, OrderOf, DetailOrder
<1>4. /\ more[Named(n)] = Select(Named(n))
      /\ DOMAIN got = {Named(i) : i \in 1 .. n - 1}
      /\ \A k \in DOMAIN got : k # Named(n) => more[k] = got[k]
  BY <1>1 DEF TableAdded
<1>5. /\ StatesTell(states, trials) /\ DOMAIN states \subseteq TaskIds /\ trials \in [TaskIds -> Seq(TrialStatus)]
      /\ Attempted(trials, products, head, sessions)
  BY NowTold DEF WriterHolds, ReadTypeOK
<1>6. /\ n > 1 => /\ DOMAIN got.tasks \subseteq TaskIds
                  /\ StatesTell(got.tasks, IF n > 2 THEN got.attempts ELSE trials)
      /\ n > 2 => /\ got.attempts \in [TaskIds -> Seq(TrialStatus)]
                  /\ Attempted(got.attempts, IF n > 4 THEN got.artifacts ELSE products,
                               IF n > 5 THEN got.head ELSE head, IF n > 3 THEN got.sessions ELSE sessions)
  BY DEF AnswerHolds, DetailInv
<1> HIDE DEF got, n, more
<1>7. SUFFICES /\ DOMAIN more.tasks \subseteq TaskIds
               /\ StatesTell(more.tasks, IF n + 1 > 2 THEN more.attempts ELSE trials)
               /\ n + 1 > 2 =>
                    /\ more.attempts \in [TaskIds -> Seq(TrialStatus)]
                    /\ Attempted(more.attempts, IF n + 1 > 4 THEN more.artifacts ELSE products,
                                 IF n + 1 > 5 THEN more.head ELSE head, IF n + 1 > 3 THEN more.sessions ELSE sessions)
  BY <1>2 DEF DetailInv, more
<1>8. CASE n = 1
  BY <1>2, <1>3, <1>4, <1>5, <1>8 DEF Select, ListTasks
<1>9. CASE n = 2
  <2>1. more.attempts = trials /\ more.tasks = got.tasks
    BY <1>3, <1>4, <1>9 DEF Select, ListTaskAttempts
  <2> QED BY <1>5, <1>6, <1>9, <2>1
<1>10. CASE n = 3
  <2>1. more.sessions = sessions /\ more.tasks = got.tasks /\ more.attempts = got.attempts
    <3>1. Named(1) \in DOMAIN got /\ Named(2) \in DOMAIN got
      BY <1>4, <1>10
    <3> QED BY <1>3, <1>4, <1>10, <3>1 DEF Select, ListAgentSessions
  <2> QED BY <1>6, <1>10, <2>1
<1>11. CASE n = 4
  <2>1. more.artifacts = products /\ more.tasks = got.tasks /\ more.attempts = got.attempts /\ more.sessions = got.sessions
    <3>1. Named(1) \in DOMAIN got /\ Named(2) \in DOMAIN got /\ Named(3) \in DOMAIN got
      BY <1>4, <1>11
    <3> QED BY <1>3, <1>4, <1>11, <3>1 DEF Select, ListRoleArtifacts
  <2> QED BY <1>6, <1>11, <2>1
<1>12. CASE n = 5
  <2>1. /\ more.head = head /\ more.tasks = got.tasks /\ more.attempts = got.attempts
        /\ more.sessions = got.sessions /\ more.artifacts = got.artifacts
    <3>1. Named(1) \in DOMAIN got /\ Named(2) \in DOMAIN got /\ Named(3) \in DOMAIN got /\ Named(4) \in DOMAIN got
      BY <1>4, <1>12
    <3> QED BY <1>3, <1>4, <1>12, <3>1 DEF Select, GetRunIntegration
  <2> QED BY <1>6, <1>12, <2>1
<1> QED BY <1>2, <1>8, <1>9, <1>10, <1>11, <1>12

LEMMA GraphStep ==
  ASSUME WriterHolds, AnswerHolds, SelectNext, answer.kind = "graph"
  PROVE  GraphInv'
<1> DEFINE got == answer.got
           n == answer.at
           more == answer'.got
<1>1. TableAdded
  BY FurtherTable
<1>2. answer'.at = n + 1 /\ answer'.kind = "graph" /\ n \in 1 .. 5
  BY <1>1 DEF TableAdded, Tables
<1>3. /\ Named(1) = "config" /\ Named(2) = "agents" /\ Named(3) = "tasks" /\ Named(4) = "attempts" /\ Named(5) = "sessions"
  BY DEF Named, OrderOf, GraphOrder
<1>4. /\ more[Named(n)] = Select(Named(n))
      /\ DOMAIN got = {Named(i) : i \in 1 .. n - 1}
      /\ \A k \in DOMAIN got : k # Named(n) => more[k] = got[k]
  BY <1>1 DEF TableAdded
<1>5. /\ settings.planners \subseteq {Planner} /\ Worker \in settings.agents \cup {Planner}
      /\ states = <<>> \/ DOMAIN states = TaskIds
      /\ sessions \in Seq(SessionRows)
  BY DEF WriterHolds, ReadTypeOK
<1>6. /\ n > 1 => got.config.planners \subseteq {Planner}
      /\ n > 2 => Worker \in got.agents \cup {Planner}
      /\ n > 3 => got.tasks = <<>> \/ DOMAIN got.tasks = TaskIds
  BY DEF AnswerHolds, GraphInv
<1> HIDE DEF got, n, more
<1>7. SUFFICES /\ more.config.planners \subseteq {Planner}
               /\ n + 1 > 2 => Worker \in more.agents \cup {Planner}
               /\ n + 1 > 3 => more.tasks = <<>> \/ DOMAIN more.tasks = TaskIds
               /\ n + 1 > 5 => more.sessions \in Seq(SessionRows)
  BY <1>2 DEF GraphInv, more
<1>8. CASE n = 1
  BY <1>2, <1>3, <1>4, <1>5, <1>8 DEF Select, LoadConfig
<1>9. CASE n = 2
  <2>1. more.agents = settings.agents /\ more.config = got.config
    BY <1>3, <1>4, <1>9 DEF Select, LoadAgents
  <2> QED BY <1>5, <1>6, <1>9, <2>1
<1>10. CASE n = 3
  <2>1. more.tasks = states /\ more.config = got.config /\ more.agents = got.agents
    <3>1. Named(1) \in DOMAIN got /\ Named(2) \in DOMAIN got
      BY <1>4, <1>10
    <3> QED BY <1>3, <1>4, <1>10, <3>1 DEF Select, ListTasks
  <2> QED BY <1>5, <1>6, <1>10, <2>1
<1>11. CASE n = 4
  <2>1. more.tasks = got.tasks /\ more.config = got.config /\ more.agents = got.agents
    <3>1. Named(1) \in DOMAIN got /\ Named(2) \in DOMAIN got /\ Named(3) \in DOMAIN got
      BY <1>4, <1>11
    <3> QED BY <1>3, <1>4, <1>11, <3>1
  <2> QED BY <1>6, <1>11, <2>1
<1>12. CASE n = 5
  <2>1. more.sessions = sessions /\ more.tasks = got.tasks /\ more.config = got.config /\ more.agents = got.agents
    <3>1. Named(1) \in DOMAIN got /\ Named(2) \in DOMAIN got /\ Named(3) \in DOMAIN got
      BY <1>4, <1>12
    <3> QED BY <1>3, <1>4, <1>12, <3>1 DEF Select, ListAgentSessions
  <2> QED BY <1>5, <1>6, <1>12, <2>1
<1> QED BY <1>2, <1>8, <1>9, <1>10, <1>11, <1>12

LEMMA SelectStep ==
  ASSUME WriterHolds, AnswerHolds, SelectNext
  PROVE  AnswerHolds'
<1>1. TableAdded
  BY FurtherTable
<1>2. answer.kind \in {"detail", "graph"} /\ answer'.kind = answer.kind
  BY <1>1 DEF TableAdded
<1>3. AnswerShaped'
  <2>1. /\ answer.at \in 1 .. 5
        /\ answer' = [kind |-> answer.kind, at |-> answer.at + 1, got |-> answer'.got]
        /\ DOMAIN answer'.got = {OrderOf(answer.kind)[i] : i \in 1 .. answer.at}
    BY <1>1 DEF TableAdded, Named
  <2>2. answer'.at = answer.at + 1 /\ answer'.at \in 1 .. 6 /\ answer'.at - 1 = answer.at
    BY <2>1
  <2> QED BY <1>2, <2>1, <2>2 DEF AnswerShaped
<1>4. DetailInv'
  BY <1>2, DetailStep DEF DetailInv
<1>5. GraphInv'
  BY <1>2, GraphStep DEF GraphInv
<1> QED BY <1>2, <1>3, <1>4, <1>5 DEF AnswerHolds, PageInv, StreamInv

(* A page: of a list that goes down from a number, what comes next.        *)
LEMMA LesserOf ==
  ASSUME NEW a \in Nat, NEW b \in Nat
  PROVE  Min({a, b}) = IF a =< b THEN a ELSE b
BY DEF Min

Down(from, length) == [i \in 1 .. length |-> from + 1 - i]
LEMMA PlaceOf ==
  ASSUME NEW c \in Nat, NEW id \in 1 .. c
  PROVE  Place(id, 1 .. c) = c + 1 - id
<1> DEFINE X == {newer \in 1 .. c : newer > id}
<1>1. X = id + 1 .. c
  OBVIOUS
<1>2. Cardinality(id + 1 .. c) = IF id + 1 > c THEN 0 ELSE c - (id + 1) + 1
  <2>1. id + 1 \in Int /\ c \in Int
    OBVIOUS
  <2> QED BY <2>1, FS_Interval
<1>3. Place(id, 1 .. c) = Cardinality(X) + 1
  BY DEF Place
<1> HIDE DEF X
<1>4. Cardinality(X) = c - id
  BY <1>1, <1>2
<1> QED BY <1>3, <1>4

LEMMA ListedDown ==
  ASSUME NEW limit \in Nat, NEW cursor, NEW c \in Nat, Older(cursor) = 1 .. c
  PROVE  SummariesPage(limit, cursor) = Down(c, IF limit =< c THEN limit ELSE c)
<1> DEFINE r == IF limit =< c THEN limit ELSE c
<1>1. Cardinality(1 .. c) = c
  <2>1. 1 \in Int /\ c \in Int
    OBVIOUS
  <2> QED BY <2>1, FS_Interval
<1>2. SummariesPage(limit, cursor) = [i \in 1 .. r |-> CHOOSE id \in 1 .. c : Place(id, 1 .. c) = i]
  BY <1>1, LesserOf DEF SummariesPage
<1>3. ASSUME NEW i \in 1 .. r
      PROVE  (CHOOSE id \in 1 .. c : Place(id, 1 .. c) = i) = c + 1 - i
  <2>1. i \in 1 .. c /\ c + 1 - i \in 1 .. c
    OBVIOUS
  <2>2. ASSUME NEW id \in 1 .. c PROVE Place(id, 1 .. c) = i <=> id = c + 1 - i
    <3>1. Place(id, 1 .. c) = c + 1 - id
      BY PlaceOf
    <3> QED BY <2>1, <3>1
  <2> QED BY <2>1, <2>2
<1> QED BY <1>2, <1>3 DEF Down

LEMMA FirstOfDown ==
  ASSUME NEW c \in Nat, NEW r \in Nat, NEW p \in Nat, p =< r
  PROVE  /\ SubSeq(Down(c, r), 1, p) = Down(c, p) /\ Len(Down(c, r)) = r
         /\ p > 0 => Last(Down(c, p)) = c + 1 - p
<1>1. Down(c, r) \in Seq(Int) /\ Len(Down(c, r)) = r
  BY DEF Down
<1>2. /\ Len(SubSeq(Down(c, r), 1, p)) = p /\ SubSeq(Down(c, r), 1, p) \in Seq(Int)
      /\ \A i \in 1 .. p : SubSeq(Down(c, r), 1, p)[i] = Down(c, r)[1 + i - 1]
  BY <1>1
<1>3. \A i \in 1 .. p : Down(c, r)[i] = Down(c, p)[i]
  BY DEF Down
<1>4. DOMAIN SubSeq(Down(c, r), 1, p) = 1 .. p
  BY <1>2
<1>5. SubSeq(Down(c, r), 1, p) = Down(c, p)
  BY <1>2, <1>3, <1>4 DEF Down
<1>6. p > 0 => Last(Down(c, p)) = c + 1 - p
  BY DEF Last, Down
<1> QED BY <1>1, <1>5, <1>6

LEMMA DownJoined ==
  ASSUME NEW m \in Nat, NEW k \in 0 .. m, NEW p \in 0 .. m - k
  PROVE  Down(m, k) \o Down(m - k, p) = Down(m, k + p)
<1>1. Down(m, k) \in Seq(Int) /\ Len(Down(m, k)) = k /\ Down(m - k, p) \in Seq(Int) /\ Len(Down(m - k, p)) = p
  BY DEF Down
<1>2. /\ Down(m, k) \o Down(m - k, p) \in Seq(Int) /\ Len(Down(m, k) \o Down(m - k, p)) = k + p
  <2>1. \A s, t \in Seq(Int) : s \o t \in Seq(Int) /\ Len(s \o t) = Len(s) + Len(t)
    OBVIOUS
  <2> QED BY <1>1, <2>1
<1>3. \A i \in 1 .. k + p :
        (Down(m, k) \o Down(m - k, p))[i] = IF i =< k THEN Down(m, k)[i] ELSE Down(m - k, p)[i - k]
  BY <1>1
<1>4. ASSUME NEW i \in 1 .. k + p PROVE (Down(m, k) \o Down(m - k, p))[i] = m + 1 - i
  <2>1. CASE i =< k
    BY <1>3, <2>1 DEF Down
  <2>2. CASE ~(i =< k)
    <3>1. i - k \in 1 .. p /\ (m - k) + 1 - (i - k) = m + 1 - i
      BY <2>2
    <3> QED BY <1>3, <2>2, <3>1 DEF Down
  <2> QED BY <2>1, <2>2
<1>5. DOMAIN (Down(m, k) \o Down(m - k, p)) = 1 .. k + p
  BY <1>2
<1> QED BY <1>2, <1>4, <1>5 DEF Down

LEMMA PagesSo ==
  ASSUME runs' \in Nat, answer'.known \in Nat, answer'.known =< runs', answer'.size \in PageSizes,
         answer'.more \in BOOLEAN,
         NEW m \in answer'.known .. runs', NEW j \in 0 .. m, answer'.seen = Down(m, j),
         IF answer'.more THEN j \in 1 .. m - 1 /\ answer'.cursor = m + 1 - j ELSE j = m
  PROVE  PageInv'
BY DEF PageInv, Down

LEMMA NextPageStep ==
  ASSUME WriterHolds, AnswerHolds, NextPage
  PROVE  AnswerHolds'
<1> DEFINE size == answer.size
           records == SummariesPage(size + 1, answer.cursor)
           page == SubSeq(records, 1, Min({size, Len(records)}))
<1>1. /\ answer.kind = "pages" /\ answer.more /\ runs' = runs
      /\ answer' = [answer EXCEPT !.more = Len(records) > size,
                      !.cursor = IF Len(records) > size THEN Last(page) ELSE NoCursor,
                      !.seen = @ \o page]
  BY DEF NextPage
<1>2. answer = [kind |-> "pages", size |-> size, cursor |-> answer.cursor, more |-> answer.more,
                seen |-> answer.seen, known |-> answer.known]
  BY <1>1 DEF AnswerHolds, AnswerShaped, Quiet
<1>3. runs \in Nat /\ size \in Nat \ {0} /\ answer.known \in Nat /\ answer.known =< runs /\ size \in PageSizes
  BY <1>1, ReadConstants DEF AnswerHolds, PageInv, WriterHolds, ReadTypeOK
<1>4. PICK m \in answer.known .. runs, k \in Nat :
        /\ k \in 0 .. m /\ answer.seen = Down(m, k)
        /\ Older(answer.cursor) = 1 .. m - k
  <2>1. CASE answer.cursor = NoCursor /\ answer.seen = <<>>
    <3>1. Older(answer.cursor) = 1 .. runs - 0
      BY <1>3, <2>1 DEF Older, BeforeCursor
    <3>2. Down(runs, 0) = <<>>
      BY <1>3 DEF Down
    <3>3. runs \in answer.known .. runs /\ 0 \in 0 .. runs
      BY <1>3
    <3> QED BY <2>1, <3>1, <3>2, <3>3
  <2>2. ASSUME NEW m \in answer.known .. runs, NEW k \in 0 .. m,
               answer.seen = [i \in 1 .. k |-> m + 1 - i], k \in 1 .. m - 1 /\ answer.cursor = m + 1 - k
        PROVE  /\ k \in Nat /\ k \in 0 .. m /\ answer.seen = Down(m, k)
               /\ Older(answer.cursor) = 1 .. m - k
    <3>1. Older(answer.cursor) = 1 .. m - k
      BY <1>3, <2>2 DEF Older, BeforeCursor, NoCursor
    <3> QED BY <1>3, <2>2, <3>1 DEF Down
  <2> QED BY <1>1, <2>1, <2>2 DEF AnswerHolds, PageInv
<1> DEFINE c == m - k
           r == IF size + 1 =< c THEN size + 1 ELSE c
           p == IF size =< c THEN size ELSE c
<1>5. c \in Nat /\ r \in Nat /\ p \in Nat /\ p =< r /\ m \in Nat /\ p \in 0 .. m - k /\ k + p \in 0 .. m
  BY <1>3, <1>4
<1>6. records = Down(c, r)
  BY <1>3, <1>4, <1>5, ListedDown
<1>7. Len(records) = r /\ Min({size, Len(records)}) = p
  <2>1. Len(Down(c, r)) = r
    BY <1>5, FirstOfDown
  <2>2. Min({size, r}) = IF size =< r THEN size ELSE r
    BY <1>3, <1>5, LesserOf
  <2>3. (IF size =< r THEN size ELSE r) = p
    BY <1>3, <1>5
  <2> HIDE DEF records, r, p
  <2> QED BY <1>6, <2>1, <2>2, <2>3
<1>8. page = Down(c, p) /\ (p > 0 => Last(page) = c + 1 - p)
  <2>1. SubSeq(Down(c, r), 1, p) = Down(c, p) /\ (p > 0 => Last(Down(c, p)) = c + 1 - p)
    BY <1>5, FirstOfDown
  <2> HIDE DEF records, r, p, c
  <2> QED BY <1>6, <1>7, <2>1
<1>9. answer.seen \o page = Down(m, k + p)
  BY <1>4, <1>5, <1>8, DownJoined
<1>10. /\ answer'.kind = "pages" /\ answer'.size = size /\ answer'.known = answer.known
       /\ answer'.more = (r > size) /\ answer'.seen = Down(m, k + p)
       /\ answer'.cursor = IF r > size THEN c + 1 - p ELSE NoCursor
       /\ answer' = [kind |-> "pages", size |-> size, cursor |-> answer'.cursor, more |-> answer'.more,
                     seen |-> answer'.seen, known |-> answer.known]
  <2> HIDE DEF records, page
  <2>1. answer' = [kind |-> "pages", size |-> size, cursor |-> IF r > size THEN Last(page) ELSE NoCursor,
                   more |-> r > size, seen |-> answer.seen \o page, known |-> answer.known]
    BY <1>1, <1>2, <1>7
  <2>2. r > size => p > 0
    BY <1>3, <1>5
  <2> QED BY <1>8, <1>9, <2>1, <2>2
<1>11. PageInv'
  <2>1. answer'.more \in BOOLEAN
    BY <1>10
  <2>2. CASE r > size
    <3>1. k + p \in 1 .. m - 1 /\ c + 1 - p = m + 1 - (k + p)
      BY <1>3, <1>4, <1>5, <2>2
    <3> QED BY <1>1, <1>3, <1>4, <1>5, <1>10, <2>1, <2>2, <3>1, PagesSo
  <2>3. CASE ~(r > size)
    <3>1. k + p = m
      BY <1>3, <1>4, <1>5, <2>3
    <3> QED BY <1>1, <1>3, <1>4, <1>5, <1>10, <2>1, <2>3, <3>1, PagesSo
  <2> QED BY <2>2, <2>3
<1> QED BY <1>10, <1>11 DEF AnswerHolds, AnswerShaped, DetailInv, GraphInv, StreamInv

-----------------------------------------------------------------------------
(* The stages share out the tasks.                                         *)
Members(S, op) == {t \in S : Shown[t].op = op}
LEMMA SharedOut ==
  ASSUME NEW S, S \subseteq TaskIds
  PROVE  Cardinality(Members(S, "advisory")) + Cardinality(Members(S, "implement"))
           + Cardinality(Members(S, "verify")) + Cardinality(Members(S, "review"))
           + Cardinality(Members(S, "post_process")) = Cardinality(S)
<1> DEFINE A == Members(S, "advisory")
           B == Members(S, "implement")
           C == Members(S, "verify")
           D == Members(S, "review")
           E == Members(S, "post_process")
<1>1. IsFiniteSet(S)
  BY ReadConstants, FS_Subset DEF TaskIds
<1>2. IsFiniteSet(A) /\ IsFiniteSet(B) /\ IsFiniteSet(C) /\ IsFiniteSet(D) /\ IsFiniteSet(E)
  <2>1. A \subseteq S /\ B \subseteq S /\ C \subseteq S /\ D \subseteq S /\ E \subseteq S
    BY DEF Members
  <2> HIDE DEF A, B, C, D, E
  <2> QED BY <1>1, <2>1, FS_Subset
<1>3. S = A \cup (B \cup (C \cup (D \cup E)))
  BY ReadConstants DEF Members, Stages, TaskIds
<1>4. /\ A \cap (B \cup (C \cup (D \cup E))) = {} /\ B \cap (C \cup (D \cup E)) = {}
      /\ C \cap (D \cup E) = {} /\ D \cap E = {}
  BY DEF Members
<1>5. \A X, Y : IsFiniteSet(X) /\ IsFiniteSet(Y) /\ X \cap Y = {} =>
        /\ IsFiniteSet(X \cup Y) /\ Cardinality(X \cup Y) = Cardinality(X) + Cardinality(Y)
        /\ Cardinality(X) \in Nat /\ Cardinality(Y) \in Nat
  <2> SUFFICES ASSUME NEW X, NEW Y, IsFiniteSet(X), IsFiniteSet(Y), X \cap Y = {}
               PROVE  /\ IsFiniteSet(X \cup Y) /\ Cardinality(X \cup Y) = Cardinality(X) + Cardinality(Y)
                      /\ Cardinality(X) \in Nat /\ Cardinality(Y) \in Nat
    OBVIOUS
  <2>1. /\ IsFiniteSet(X \cup Y)
        /\ Cardinality(X \cup Y) = Cardinality(X) + Cardinality(Y) - Cardinality(X \cap Y)
    BY FS_Union
  <2>2. Cardinality(X \cap Y) = 0
    BY FS_EmptySet
  <2>3. Cardinality(X) \in Nat /\ Cardinality(Y) \in Nat
    BY FS_CardinalityType
  <2> QED BY <2>1, <2>2, <2>3
<1> HIDE DEF A, B, C, D, E
<1>6. IsFiniteSet(D \cup E) /\ Cardinality(D \cup E) = Cardinality(D) + Cardinality(E)
      /\ Cardinality(D) \in Nat /\ Cardinality(E) \in Nat
  BY <1>2, <1>4, <1>5
<1>7. /\ IsFiniteSet(C \cup (D \cup E)) /\ Cardinality(C) \in Nat
      /\ Cardinality(C \cup (D \cup E)) = Cardinality(C) + Cardinality(D \cup E)
  BY <1>2, <1>4, <1>5, <1>6
<1>8. /\ IsFiniteSet(B \cup (C \cup (D \cup E))) /\ Cardinality(B) \in Nat
      /\ Cardinality(B \cup (C \cup (D \cup E))) = Cardinality(B) + Cardinality(C \cup (D \cup E))
  BY <1>2, <1>4, <1>5, <1>7
<1>9. /\ Cardinality(A) \in Nat
      /\ Cardinality(S) = Cardinality(A) + Cardinality(B \cup (C \cup (D \cup E)))
  BY <1>2, <1>3, <1>4, <1>5, <1>8
<1>10. Cardinality(A) + Cardinality(B) + Cardinality(C) + Cardinality(D) + Cardinality(E) = Cardinality(S)
  BY <1>6, <1>7, <1>8, <1>9
<1> QED BY <1>10 DEF A, B, C, D, E

StageTotal(got, op) == IF op \in DOMAIN DeriveStages(got) THEN DeriveStages(got)[op].total ELSE 0
LEMMA TotalOfStage ==
  ASSUME NEW got, NEW op \in Stages
  PROVE  StageTotal(got, op) = Cardinality(Members(DOMAIN got.tasks, op))
<1>1. CASE \E t \in DOMAIN got.tasks : Shown[t].op = op
  <2>1. op \in DOMAIN DeriveStages(got) /\ DeriveStages(got)[op] = Stage(got, op)
    BY <1>1 DEF DeriveStages
  <2>2. Stage(got, op).total = Cardinality(Members(DOMAIN got.tasks, op))
    BY DEF Stage, Members
  <2> QED BY <2>1, <2>2 DEF StageTotal
<1>2. CASE ~ \E t \in DOMAIN got.tasks : Shown[t].op = op
  <2>1. op \notin DOMAIN DeriveStages(got)
    BY <1>2 DEF DeriveStages
  <2>2. Members(DOMAIN got.tasks, op) = {}
    BY <1>2 DEF Members
  <2> QED BY <2>1, <2>2, FS_EmptySet DEF StageTotal
<1> QED BY <1>1, <1>2

LEMMA DetailTold ==
  ASSUME AnswerHolds, answer.kind = "detail", Complete(answer)
  PROVE  DetailIsTold(answer.got)
<1> DEFINE got == answer.got
<1>1. answer.at > 5
  BY DEF Complete, OrderOf, DetailOrder
<1>2. /\ DOMAIN got.tasks \subseteq TaskIds /\ StatesTell(got.tasks, got.attempts)
      /\ got.attempts \in [TaskIds -> Seq(TrialStatus)]
      /\ Attempted(got.attempts, got.artifacts, got.head, got.sessions)
  <2>1. answer.at > 1 /\ answer.at > 2 /\ answer.at > 3 /\ answer.at > 4
    <3>1. answer.at \in Nat
      BY DEF AnswerHolds, AnswerShaped, Quiet
    <3> QED BY <1>1, <3>1
  <2> QED BY <1>1, <2>1 DEF AnswerHolds, DetailInv
<1> HIDE DEF got
<1>3. ASSUME NEW t \in IntegratedTasks(got) PROVE <<t, Len(got.attempts[t])>> \in got.head
  <2>1. t \in DOMAIN got.tasks /\ Produces(t) /\ got.attempts[t] # <<>> /\ Last(got.attempts[t]) = "approved"
    BY DEF IntegratedTasks
  <2>2. t \in TaskIds /\ got.attempts[t] \in Seq(TrialStatus)
    BY <1>2, <2>1
  <2>3. Len(got.attempts[t]) \in DOMAIN got.attempts[t]
    BY <2>1, <2>2
  <2> QED BY <1>2, <2>1, <2>2, <2>3 DEF Attempted, Last
<1>4. ASSUME NEW t \in DOMAIN got.tasks
      PROVE  /\ got.tasks[t] = "completed" => "approved" \in ToSet(got.attempts[t])
             /\ got.tasks[t] = "running" => got.attempts[t] # <<>>
             /\ \A i \in DOMAIN got.attempts[t] :
                  /\ got.attempts[t][i] = "approved" /\ ~Produces(t) => <<t, i>> \in got.artifacts
                  /\ got.attempts[t][i] # "running" =>
                       i =< Cardinality(EndedSessions(got.sessions, t))
  BY <1>2 DEF StatesTell, Attempted
<1>5. StageTotal(got, "advisory") + StageTotal(got, "implement") + StageTotal(got, "verify")
        + StageTotal(got, "review") + StageTotal(got, "post_process") = Cardinality(DOMAIN got.tasks)
  <2>1. \A op \in Stages : StageTotal(got, op) = Cardinality(Members(DOMAIN got.tasks, op))
    BY TotalOfStage
  <2> QED BY <1>2, <2>1, SharedOut DEF Stages
<1>6. DetailIsTold(got)
  BY <1>3, <1>4, <1>5 DEF DetailIsTold, StageTotal
<1> QED BY <1>6 DEF got

LEMMA GraphClosed ==
  ASSUME AnswerHolds, answer.kind = "graph", Complete(answer)
  PROVE  GraphIsClosed(answer.got)
<1> DEFINE got == answer.got
<1>1. answer.at > 5
  BY DEF Complete, OrderOf, GraphOrder
<1>2. /\ got.config.planners \subseteq {Planner} /\ Worker \in got.agents \cup {Planner}
      /\ got.tasks = <<>> \/ DOMAIN got.tasks = TaskIds
      /\ got.sessions \in Seq(SessionRows)
  <2>1. answer.at > 1 /\ answer.at > 2 /\ answer.at > 3
    <3>1. answer.at \in Nat
      BY DEF AnswerHolds, AnswerShaped, Quiet
    <3> QED BY <1>1, <3>1
  <2> QED BY <1>1, <2>1 DEF AnswerHolds, GraphInv
<1> HIDE DEF got
<1> DEFINE Known(end) == \/ end \in Nodes(got)
                         \/ end = <<"agent", Planner>> /\ Planner \notin got.agents
                         \/ end[1] = "task" /\ got.tasks = <<>>
<1>3. /\ \A a \in got.agents : <<"agent", a>> \in Nodes(got)
      /\ <<"role", "planner">> \in Nodes(got)
      /\ \A node \in RunNodes : node \in Nodes(got)
      /\ \A t \in DOMAIN got.tasks : <<"task", t>> \in Nodes(got)
  BY DEF Nodes, AgentNodes, RoleNodes, TaskNodes
<1>4. Known(<<"agent", Planner>>) /\ Known(<<"agent", Worker>>) /\ Known(<<"role", "planner">>)
  BY <1>2, <1>3
<1>5. \A node \in RunNodes : Known(node)
  BY <1>3
<1>6. \A t \in TaskIds : Known(<<"task", t>>)
  BY <1>2, <1>3
<1> HIDE DEF Known
<1>7. ASSUME NEW e \in Edges(got) PROVE Known(e.from) /\ Known(e.to)
  <2>1. CASE e \in Bindings(got)
    BY <1>2, <1>4, <2>1 DEF Bindings, Edge
  <2>2. CASE e \in Sources
    BY <1>5, <2>2 DEF Sources, Edge, RunNodes
  <2>3. CASE e \in PlannedBy(got)
    BY <1>4, <1>5, <2>3 DEF PlannedBy, Edge, RunNodes
  <2>4. CASE e \in Memberships(got)
    <3>1. PICK node \in TaskNodes(got) : e = Edge("contains", <<"run", 1>>, node)
      BY <2>4 DEF Memberships
    <3>2. node \in Nodes(got)
      BY DEF Nodes
    <3> QED BY <1>5, <3>1, <3>2 DEF Edge, RunNodes, Known
  <2>5. CASE e \in Activity(got)
    <3>1. PICK s \in ToSet(got.sessions) : e = Edge("works", <<"agent", Worker>>, <<"task", s.task>>)
      BY <2>5 DEF Activity
    <3>2. s \in SessionRows
      BY <1>2, <3>1 DEF ToSet
    <3>3. s.task \in TaskIds
      BY <3>2 DEF SessionRows
    <3> QED BY <1>4, <1>6, <3>1, <3>3 DEF Edge
  <2>6. CASE e \in Depends(got)
    <3>1. PICK t \in DOMAIN got.tasks : e \in {Edge("depends", <<"task", d>>, <<"task", t>>) : d \in Shown[t].deps}
      BY <2>6 DEF Depends
    <3>2. PICK d \in Shown[t].deps : e = Edge("depends", <<"task", d>>, <<"task", t>>)
      BY <3>1
    <3>3. t \in TaskIds /\ d \in TaskIds
      BY <1>2, <3>1, <3>2, ReadConstants DEF TaskIds
    <3> QED BY <1>6, <3>2, <3>3 DEF Edge
  <2> QED BY <2>1, <2>2, <2>3, <2>4, <2>5, <2>6 DEF Edges
<1>8. GraphIsClosed(got)
  BY <1>7 DEF GraphIsClosed, Known
<1> QED BY <1>8 DEF got

LEMMA PagesWhole ==
  ASSUME WriterHolds, AnswerHolds, answer.kind = "pages"
  PROVE  PagesAreWhole
<1>1. runs \in Nat /\ answer.known \in Nat /\ answer.known =< runs
  BY DEF WriterHolds, ReadTypeOK, AnswerHolds, PageInv
<1>2. CASE answer.more /\ answer.seen = <<>>
  BY <1>2 DEF PagesAreWhole
<1>3. ASSUME NEW m \in answer.known .. runs, NEW k \in 0 .. m,
             answer.seen = [i \in 1 .. k |-> m + 1 - i], ~answer.more => k = m
      PROVE  PagesAreWhole
  <2>1. Len(answer.seen) = k /\ k \in Nat /\ m \in Nat
    BY <1>1, <1>3
  <2>2. ASSUME NEW i \in 1 .. Len(answer.seen) - 1 PROVE answer.seen[i] > answer.seen[i + 1]
    <3>1. i \in 1 .. k /\ i + 1 \in 1 .. k
      BY <2>1
    <3> QED BY <1>3, <2>1, <3>1
  <2>3. ASSUME ~answer.more, NEW id \in 1 .. answer.known PROVE id \in ToSet(answer.seen)
    <3>1. m + 1 - id \in 1 .. k /\ m + 1 - (m + 1 - id) = id
      BY <1>1, <1>3, <2>1, <2>3
    <3> QED BY <1>3, <3>1 DEF ToSet
  <2> QED BY <2>2, <2>3 DEF PagesAreWhole
<1> QED BY <1>2, <1>3 DEF AnswerHolds, PageInv

LEMMA AnswerSound ==
  ASSUME WriterHolds, AnswerHolds
  PROVE  ReadsSound
<1>1. CASE answer = Quiet
  BY <1>1 DEF ReadsSound, Quiet
<1>2. CASE answer.kind = "detail"
  BY <1>2, DetailTold DEF ReadsSound
<1>3. CASE answer.kind = "graph"
  BY <1>3, GraphClosed DEF ReadsSound
<1>4. CASE answer.kind = "pages"
  BY <1>4, PagesWhole DEF ReadsSound
<1>5. CASE answer.kind = "stream"
  <2>1. StreamIsTrue
    <3>1. answer.sent \in Seq(Responses)
      BY <1>5 DEF AnswerHolds, StreamInv
    <3>2. Len(answer.sent) \in Nat /\ DOMAIN answer.sent = 1 .. Len(answer.sent)
      BY <3>1
    <3>3. \A i \in 1 .. Len(answer.sent) - 1 : i \in DOMAIN answer.sent /\ i < Len(answer.sent)
      BY <3>2
    <3> QED BY <1>5, <3>3 DEF AnswerHolds, StreamInv, StreamIsTrue
  <2> QED BY <1>5, <2>1 DEF ReadsSound
<1> QED BY <1>1, <1>2, <1>3, <1>4, <1>5 DEF AnswerHolds, AnswerShaped

(* ReadsSound, for any tasks, any number of attempts and runs, any size of *)
(* a page, and any statement of the executor between two SELECTs of an     *)
(* answer: it agrees with itself and with what was stored, a page leaves   *)
(* no run out, and a stream ends with how its session ended.               *)
THEOREM ReadsAreSound == ReadSpec => []ReadsSound
<1> DEFINE Held == WriterHolds /\ AnswerHolds
<1>1. ReadInit => Held
  <2> SUFFICES ASSUME ReadInit PROVE Held
    OBVIOUS
  <2>1. WriterHolds
    BY WriterBegins
  <2>2. AnswerHolds
    BY DEF ReadInit, Quiet, AnswerHolds, AnswerShaped, DetailInv, GraphInv, PageInv, StreamInv
  <2> QED BY <2>1, <2>2
<1>2. Held /\ [ReadNext]_ReadVars => Held'
  <2> SUFFICES ASSUME WriterHolds, AnswerHolds, [ReadNext]_ReadVars PROVE WriterHolds' /\ AnswerHolds'
    OBVIOUS
  <2>1. CASE Writes
    BY <2>1, WritesStep, AnswerKept
  <2>2. ASSUME UNCHANGED <<Tables, writer, runs, settings>> PROVE WriterHolds'
    BY <2>2 DEF Tables, WriterHolds, ReadTypeOK, AttemptsTell, StatesTell, SessionsTell, InHand, Number
  <2>3. CASE \E kind \in {"detail", "graph"} : Request(kind)
    BY <2>2, <2>3, RequestStep DEF Request
  <2>4. CASE \/ \E size \in PageSizes : AskPages(size)
             \/ \E row \in DOMAIN sessions : AskStream(row)
             \/ ReadsDone
    BY <2>2, <2>4, AskStep DEF AskPages, AskStream, ReadsDone
  <2>5. CASE SelectNext
    BY <2>2, <2>5, SelectStep DEF SelectNext
  <2>6. CASE NextPage
    BY <2>2, <2>6, NextPageStep DEF NextPage
  <2>7. CASE Poll
    BY <2>2, <2>7, PollStep DEF Poll
  <2>8. CASE UNCHANGED ReadVars
    <3>1. UNCHANGED answer
      BY <2>8 DEF ReadVars
    <3>2. Grows
      BY <2>8, QuietGrows DEF ReadVars, WriterHolds
    <3> QED BY <2>2, <2>8, <3>2, AnswerKept DEF ReadVars, Tables
  <2> QED BY <2>1, <2>3, <2>4, <2>5, <2>6, <2>7, <2>8 DEF ReadNext
<1>3. Held => ReadsSound
  BY AnswerSound
<1> QED BY <1>1, <1>2, <1>3, PTL DEF ReadSpec

-----------------------------------------------------------------------------
(***************************************************************************)
(* Proofs about Eval, for any tasks, agents and endings, any thresholds    *)
(* and windows.  The lemmas of the first part are about sums and orders:   *)
(* what is summed does not depend on the order of the members, parts that  *)
(* share no member add up to the whole, and a finite set can be put in the *)
(* order of a rank.  The second part reads them off a history, whatever    *)
(* slice of it is measured; the third follows the history and the lookup.  *)
(***************************************************************************)

LEMMA OrderByRank ==
  ASSUME NEW S, IsFiniteSet(S), NEW rank, \A a \in S : rank[a] \in Int
  PROVE  \E s \in SetToSeqs(S) : \A i, j \in DOMAIN s : i < j => rank[s[i]] =< rank[s[j]]
<1> DEFINE n == Cardinality(S)
<1>1. PICK g : g \in Bijection(1 .. n, S) /\ n \in Nat
  BY FS_CardinalityType DEF ExistsBijection
<1>2. PICK num \in [S -> 1 .. n] : \A a, b \in S : num[a] = num[b] => a = b
  <2> DEFINE num == [s \in S |-> CHOOSE i \in 1 .. n : g[i] = s]
  <2>1. \A s \in S : num[s] \in 1 .. n /\ g[num[s]] = s
    <3> TAKE s \in S
    <3>1. \E i \in 1 .. n : g[i] = s
      BY <1>1 DEF Bijection, Surjection
    <3>2. num[s] = CHOOSE i \in 1 .. n : g[i] = s
      OBVIOUS
    <3> HIDE DEF num
    <3> QED BY <3>1, <3>2
  <2>2. num \in [S -> 1 .. n]
    BY <2>1
  <2> HIDE DEF num
  <2> QED BY <2>1, <2>2
<1> DEFINE Ahead(a, b) == rank[a] < rank[b] \/ (rank[a] = rank[b] /\ num[a] < num[b])
           R == {p \in S \X S : Ahead(p[1], p[2])}
<1>3. \A a, b \in S : <<a, b>> \in R <=> Ahead(a, b)
  OBVIOUS
<1>4. StrictOrder(R, S)
  <2>1. \A a \in S : num[a] \in Nat /\ rank[a] \in Int
    BY <1>2
  <2>2. \A a \in S : ~Ahead(a, a)
    BY <2>1
  <2>3. \A a, b \in S : a # b => Ahead(a, b) \/ Ahead(b, a)
    BY <1>2, <2>1
  <2>4. \A a, b, c \in S : Ahead(a, b) /\ Ahead(b, c) => Ahead(a, c)
    BY <2>1
  <2> HIDE DEF R, Ahead
  <2> QED BY <1>3, <2>2, <2>3, <2>4 DEF StrictOrder
<1>5. PICK s \in [1 .. n -> S] : Sorted(R, s, n)
  <2> HIDE DEF R
  <2> QED BY <1>4, OrderExists
<1>6. \A i, j \in 1 .. n : i < j => <<s[i], s[j]>> \in R
  <2> HIDE DEF R
  <2> QED BY <1>1, <1>5 DEF Sorted
<1>7. \A i, j \in 1 .. n : i # j => s[i] # s[j]
  <2> TAKE i, j \in 1 .. n
  <2>1. i # j => i < j \/ j < i
    BY <1>1
  <2>2. \A a \in S : <<a, a>> \notin R
    <3> HIDE DEF R
    <3> QED BY <1>4 DEF StrictOrder
  <2> HIDE DEF R
  <2> QED BY <2>1, <2>2, <1>5, <1>6
<1>8. s \in SetToSeqs(S)
  BY <1>7, <1>5 DEF SetToSeqs
<1>9. ASSUME NEW i \in 1 .. n, NEW j \in 1 .. n, i < j PROVE rank[s[i]] =< rank[s[j]]
  <2>1. s[i] \in S /\ s[j] \in S
    BY <1>5
  <2>2. Ahead(s[i], s[j])
    <3>1. <<s[i], s[j]>> \in R
      BY <1>6, <1>9
    <3> HIDE DEF R, Ahead
    <3> QED BY <2>1, <3>1, <1>3
  <2> QED BY <2>1, <2>2
<1> QED BY <1>5, <1>8, <1>9

(* What SetToSeqs gives: each member once.                                 *)
LEMMA EachOnce ==
  ASSUME NEW S, IsFiniteSet(S), NEW s \in SetToSeqs(S)
  PROVE  /\ Cardinality(S) \in Nat /\ s \in [1 .. Cardinality(S) -> S]
         /\ \A i, j \in 1 .. Cardinality(S) : s[i] = s[j] => i = j
         /\ \A x \in S : \E i \in 1 .. Cardinality(S) : s[i] = x
<1> DEFINE n == Cardinality(S)
<1>1. n \in Nat
  BY FS_CardinalityType
<1>2. s \in [1 .. n -> S] /\ \A i, j \in 1 .. n : i # j => s[i] # s[j]
  BY DEF SetToSeqs
<1>3. s \in Injection(1 .. n, S)
  BY <1>2 DEF Injection, IsInjective
<1>4. IsFiniteSet(1 .. n) /\ Cardinality(1 .. n) = n
  BY <1>1, FS_Interval
<1>5. s \in Surjection(1 .. n, S)
  BY <1>3, <1>4, FS_Injection
<1> QED BY <1>1, <1>2, <1>5 DEF Surjection

-----------------------------------------------------------------------------
LEMMA OrderedIs ==
  ASSUME NEW S, IsFiniteSet(S), NEW rank, \A a \in S : rank[a] \in Int
  PROVE  /\ Ordered(S, rank) \in SetToSeqs(S)
         /\ \A i, j \in DOMAIN Ordered(S, rank) :
              i < j => rank[Ordered(S, rank)[i]] =< rank[Ordered(S, rank)[j]]
<1> DEFINE Rises(s) == \A i, j \in DOMAIN s : i < j => rank[s[i]] =< rank[s[j]]
<1>1. \E s \in SetToSeqs(S) : Rises(s)
  BY OrderByRank
<1>2. Ordered(S, rank) = CHOOSE s \in SetToSeqs(S) : Rises(s)
  BY DEF Ordered
<1>3. Ordered(S, rank) \in SetToSeqs(S) /\ Rises(Ordered(S, rank))
  <2> HIDE DEF Rises
  <2> QED BY <1>1, <1>2
<1> QED BY <1>3

(* A sum goes through the subsets, without one member after the other.     *)
IsSum(f, u) ==
  /\ u \in [SUBSET DOMAIN f -> Nat] /\ u[{}] = 0 /\ Total(f) = u[DOMAIN f]
  /\ \A S \in SUBSET DOMAIN f : S # {} => \E x \in S : u[S] = u[S \ {x}] + f[x]
LEMMA TotalIs ==
  ASSUME NEW f, IsFiniteSet(DOMAIN f), \A x \in DOMAIN f : f[x] \in Nat
  PROVE  \E u : IsSum(f, u)
<1> DEFINE C == SUBSET DOMAIN f
           one(S) == CHOOSE x \in S : TRUE
           D == [S \in C |-> IF S = {} THEN {} ELSE {S \ {one(S)}}]
           H == [p \in C \X UNION {[D[S] -> Nat] : S \in C} |->
                   IF p[1] = {} THEN 0 ELSE p[2][p[1] \ {one(p[1])}] + f[one(p[1])]]
<1>1. \A S \in C : S # {} => one(S) \in S /\ one(S) \in DOMAIN f /\ f[one(S)] \in Nat
  OBVIOUS
<1> HIDE DEF one
<1>2. DOMAIN D = C /\ IsFiniteSet(C)
  BY FS_SUBSET
<1>3. \A S \in DOMAIN D : D[S] \subseteq DOMAIN D
  OBVIOUS
<1>4. Rooted(D)
  <2> SUFFICES ASSUME NEW F \in SUBSET C, F # {} PROVE \E S \in F : D[S] \cap F = {}
    BY DEF Rooted
  <2> DEFINE N == {Cardinality(S) : S \in F}
  <2>1. \A S \in F : IsFiniteSet(S) /\ Cardinality(S) \in Nat
    BY FS_Subset, FS_CardinalityType
  <2>2. N \subseteq Nat /\ N # {}
    BY <2>1
  <2>3. PICK k \in N : \A m \in N : k =< m
    <3> HIDE DEF N
    <3> QED BY <2>2, LeastNumber
  <2>4. PICK S \in F : Cardinality(S) = k
    OBVIOUS
  <2>5. S # {} => Cardinality(S \ {one(S)}) = Cardinality(S) - 1
    BY <1>1, <2>1, FS_RemoveElement
  <2>6. S # {} => S \ {one(S)} \notin F
    BY <2>1, <2>3, <2>4, <2>5
  <2>7. D[S] = IF S = {} THEN {} ELSE {S \ {one(S)}}
    OBVIOUS
  <2> HIDE DEF D
  <2> QED BY <2>6, <2>7
<1>5. \A S \in C : \A g \in [D[S] -> Nat] :
        /\ H[<<S, g>>] = IF S = {} THEN 0 ELSE g[S \ {one(S)}] + f[one(S)]
        /\ H[<<S, g>>] \in Nat
  <2> TAKE S \in C
  <2> TAKE g \in [D[S] -> Nat]
  <2>1. <<S, g>> \in C \X UNION {[D[T] -> Nat] : T \in C}
    <3> HIDE DEF D
    <3> QED OBVIOUS
  <2>2. H[<<S, g>>] = IF S = {} THEN 0 ELSE g[S \ {one(S)}] + f[one(S)]
    <3> HIDE DEF D
    <3> QED BY <2>1
  <2>3. S # {} => g[S \ {one(S)}] \in Nat
    OBVIOUS
  <2> HIDE DEF D, H
  <2> QED BY <2>2, <2>3, <1>1
<1>6. PICK u \in [C -> Nat] : SolvesAlong(u, D, H)
  <2> HIDE DEF D, H
  <2> QED BY <1>2, <1>3, <1>4, <1>5, RecursionDefined
<1> DEFINE Solution(v) == v = [S \in C |-> IF S = {} THEN 0 ELSE v[S \ {one(S)}] + f[one(S)]]
<1>7. Solution(u)
  <2>1. ASSUME NEW S \in C PROVE u[S] = IF S = {} THEN 0 ELSE u[S \ {one(S)}] + f[one(S)]
    <3> DEFINE g == [T \in D[S] |-> u[T]]
    <3>1. u[S] = H[<<S, g>>]
      <4> HIDE DEF D, H
      <4> QED BY <1>6 DEF SolvesAlong
    <3>2. g \in [D[S] -> Nat] /\ (S # {} => g[S \ {one(S)}] = u[S \ {one(S)}])
      BY <1>6
    <3> HIDE DEF D, H, g
    <3> QED BY <3>1, <3>2, <1>5
  <2> QED BY <2>1
<1> DEFINE first == CHOOSE v : Solution(v)
<1>8. Solution(first)
  <2> HIDE DEF Solution
  <2> QED BY <1>7
<1>9. Total(f) = first[DOMAIN f]
  BY DEF Total, one
<1>10. first = u
  <2> DEFINE N == {k \in Nat : \A S \in C : Cardinality(S) = k => first[S] = u[S]}
  <2>1. \A S \in C : IsFiniteSet(S) /\ Cardinality(S) \in Nat
    BY FS_Subset, FS_CardinalityType
  <2> HIDE DEF first
  <2>2. \A S \in C : first[S] = IF S = {} THEN 0 ELSE first[S \ {one(S)}] + f[one(S)]
    BY <1>8
  <2>3. \A S \in C : u[S] = IF S = {} THEN 0 ELSE u[S \ {one(S)}] + f[one(S)]
    BY <1>7
  <2>4. 0 \in N
    BY <2>1, <2>2, <2>3, FS_EmptySet
  <2>5. ASSUME NEW k \in Nat, k \in N PROVE k + 1 \in N
    <3> SUFFICES ASSUME NEW S \in C, Cardinality(S) = k + 1 PROVE first[S] = u[S]
      OBVIOUS
    <3>1. S # {}
      <4>1. Cardinality(S) # 0
        OBVIOUS
      <4> QED BY <4>1, FS_EmptySet
    <3>2. Cardinality(S \ {one(S)}) = k /\ S \ {one(S)} \in C
      BY <1>1, <2>1, <3>1, FS_RemoveElement
    <3>3. first[S \ {one(S)}] = u[S \ {one(S)}]
      BY <2>5, <3>2
    <3> QED BY <2>2, <2>3, <3>1, <3>3
  <2>6. Nat \subseteq N
    <3> HIDE DEF N
    <3> QED BY <2>4, <2>5, SetInduction
  <2>7. \A S \in C : first[S] = u[S]
    BY <2>1, <2>6
  <2>8. first = [S \in C |-> first[S]]
    BY <1>8
  <2> QED BY <2>7, <2>8, <1>6
<1> QED
  <2>1. u[{}] = 0 /\ \A S \in C : S # {} => \E x \in S : u[S] = u[S \ {x}] + f[x]
    BY <1>1, <1>7
  <2> HIDE DEF first
  <2> QED BY <1>6, <1>9, <1>10, <2>1 DEF IsSum

(* What a claim about every subset needs: by the number of the members.    *)
LEMMA SumAtLeast ==
  ASSUME NEW f, IsFiniteSet(DOMAIN f), \A x \in DOMAIN f : f[x] \in Nat /\ f[x] >= 1
  PROVE  Total(f) \in Nat /\ Cardinality(DOMAIN f) =< Total(f)
<1> DEFINE C == SUBSET DOMAIN f
<1>1. PICK u : IsSum(f, u)
  BY TotalIs
<1>2. /\ u \in [C -> Nat] /\ u[{}] = 0 /\ Total(f) = u[DOMAIN f]
      /\ \A S \in C : S # {} => \E x \in S : u[S] = u[S \ {x}] + f[x]
  BY <1>1 DEF IsSum
<1>3. \A S \in C : IsFiniteSet(S) /\ Cardinality(S) \in Nat /\ u[S] \in Nat
  BY <1>2, FS_Subset, FS_CardinalityType
<1> DEFINE N == {k \in Nat : \A S \in C : Cardinality(S) = k => k =< u[S]}
<1>4. 0 \in N
  BY <1>3
<1>5. ASSUME NEW k \in Nat, k \in N PROVE k + 1 \in N
  <2> SUFFICES ASSUME NEW S \in C, Cardinality(S) = k + 1 PROVE k + 1 =< u[S]
    OBVIOUS
  <2>1. S # {}
    <3>1. Cardinality(S) # 0
      OBVIOUS
    <3> QED BY <3>1, FS_EmptySet
  <2>2. PICK x \in S : u[S] = u[S \ {x}] + f[x]
    BY <1>2, <2>1
  <2> DEFINE T == S \ {x}
  <2>3. Cardinality(T) = k /\ T \in C
    BY <1>3, <2>2, FS_RemoveElement
  <2>4. k =< u[T] /\ u[T] \in Nat
    <3> HIDE DEF T
    <3> QED BY <1>3, <1>5, <2>3
  <2>5. f[x] \in Nat /\ f[x] >= 1 /\ u[S] = u[T] + f[x]
    BY <2>2
  <2> HIDE DEF T
  <2> QED BY <2>4, <2>5
<1>6. Nat \subseteq N
  <2> HIDE DEF N
  <2> QED BY <1>4, <1>5, SetInduction
<1>7. DOMAIN f \in C
  OBVIOUS
<1>8. Cardinality(DOMAIN f) \in N
  BY <1>3, <1>6, <1>7
<1> QED BY <1>2, <1>3, <1>7, <1>8

(* The sizes of parts that share no member add up to the size of them all. *)
Parts(part) == UNION {part[k] : k \in DOMAIN part}
Apart2(part) == \A k, l \in DOMAIN part : k # l => part[k] \cap part[l] = {}
LEMMA PartsAddUp ==
  ASSUME NEW part, IsFiniteSet(DOMAIN part), \A k \in DOMAIN part : IsFiniteSet(part[k]), Apart2(part)
  PROVE  Total([k \in DOMAIN part |-> Cardinality(part[k])]) = Cardinality(Parts(part))
<1> DEFINE f == [k \in DOMAIN part |-> Cardinality(part[k])]
           C == SUBSET DOMAIN part
           All(S) == UNION {part[k] : k \in S}
<1>1. \A k \in DOMAIN part : f[k] = Cardinality(part[k]) /\ f[k] \in Nat
  BY FS_CardinalityType
<1>2. DOMAIN f = DOMAIN part
  OBVIOUS
<1> HIDE DEF f
<1>3. PICK u : IsSum(f, u)
  BY <1>1, <1>2, TotalIs
<1>4. /\ u \in [C -> Nat] /\ u[{}] = 0 /\ Total(f) = u[DOMAIN part]
      /\ \A S \in C : S # {} => \E x \in S : u[S] = u[S \ {x}] + f[x]
  BY <1>2, <1>3 DEF IsSum
<1>5. \A S \in C : IsFiniteSet(S) /\ Cardinality(S) \in Nat
  BY FS_Subset, FS_CardinalityType
<1> DEFINE N == {k \in Nat : \A S \in C : Cardinality(S) = k =>
                                IsFiniteSet(All(S)) /\ u[S] = Cardinality(All(S))}
<1>6. 0 \in N
  <2> SUFFICES ASSUME NEW S \in C, Cardinality(S) = 0 PROVE IsFiniteSet(All(S)) /\ u[S] = Cardinality(All(S))
    OBVIOUS
  <2>1. S = {}
    BY <1>5, FS_EmptySet
  <2>2. All(S) = {}
    BY <2>1
  <2> HIDE DEF All
  <2> QED BY <1>4, <2>1, <2>2, FS_EmptySet
<1>7. ASSUME NEW k \in Nat, k \in N PROVE k + 1 \in N
  <2> SUFFICES ASSUME NEW S \in C, Cardinality(S) = k + 1
               PROVE  IsFiniteSet(All(S)) /\ u[S] = Cardinality(All(S))
    OBVIOUS
  <2>1. S # {}
    <3>1. Cardinality(S) # 0
      OBVIOUS
    <3> QED BY <3>1, FS_EmptySet
  <2>2. PICK x \in S : u[S] = u[S \ {x}] + f[x]
    BY <1>4, <2>1
  <2> DEFINE T == S \ {x}
  <2>3. Cardinality(T) = k /\ T \in C
    <3>1. IsFiniteSet(S) /\ x \in S
      BY <1>5
    <3>2. Cardinality(S \ {x}) = Cardinality(S) - 1
      BY ONLY <3>1, FS_RemoveElement
    <3> QED BY <3>2
  <2>4. IsFiniteSet(All(T)) /\ u[T] = Cardinality(All(T))
    <3> HIDE DEF T
    <3> QED BY <1>7, <2>3
  <2>5. All(S) = All(T) \cup part[x]
    OBVIOUS
  <2>6. All(T) \cap part[x] = {}
    BY DEF Apart2
  <2>7. IsFiniteSet(part[x]) /\ f[x] = Cardinality(part[x]) /\ f[x] \in Nat /\ u[S] = u[T] + f[x]
    BY <1>1, <2>2
  <2> HIDE DEF All, T
  <2>8. Cardinality(All(T)) \in Nat
    BY <2>4, FS_CardinalityType
  <2>9. /\ IsFiniteSet(All(T) \cup part[x])
        /\ Cardinality(All(T) \cup part[x])
             = Cardinality(All(T)) + Cardinality(part[x]) - Cardinality(All(T) \cap part[x])
    BY <2>4, <2>7, FS_Union
  <2>10. Cardinality(All(T) \cap part[x]) = 0
    BY <2>6, FS_EmptySet
  <2> QED BY <2>4, <2>5, <2>7, <2>8, <2>9, <2>10
<1>8. Nat \subseteq N
  <2> HIDE DEF N
  <2> QED BY <1>6, <1>7, SetInduction
<1>9. DOMAIN part \in C
  OBVIOUS
<1>10. u[DOMAIN part] = Cardinality(All(DOMAIN part))
  <2>1. Cardinality(DOMAIN part) \in N
    BY <1>5, <1>8, <1>9
  <2> HIDE DEF All
  <2> QED BY <1>9, <2>1
<1> QED BY <1>4, <1>10 DEF f, Parts

(* The groups that have tasks, each once.                                  *)
LEMMA BusiestIs ==
  ASSUME NEW groups, IsFiniteSet(DOMAIN groups), \A k \in DOMAIN groups : IsFiniteSet(groups[k])
  PROVE  LET o == Busiest(groups) IN
         \E n \in Nat :
           /\ o \in [1 .. n -> DOMAIN groups]
           /\ \A i, j \in 1 .. n : o[i] = o[j] => i = j
           /\ {o[i] : i \in 1 .. n} = {k \in DOMAIN groups : groups[k] # {}}
<1> DEFINE some == {k \in DOMAIN groups : groups[k] # {}}
           rank == [k \in some |-> -Cardinality(groups[k])]
           n == Cardinality(some)
           o == Busiest(groups)
<1>1. IsFiniteSet(some)
  BY FS_Subset
<1>2. \A k \in some : rank[k] \in Int
  BY FS_CardinalityType
<1>3. o = Ordered(some, rank)
  BY DEF Busiest
<1>4. o \in SetToSeqs(some)
  <2> HIDE DEF some, rank, o
  <2> QED BY <1>1, <1>2, <1>3, OrderedIs
<1>5. /\ n \in Nat /\ o \in [1 .. n -> some]
      /\ \A i, j \in 1 .. n : o[i] = o[j] => i = j
      /\ \A x \in some : \E i \in 1 .. n : o[i] = x
  <2> HIDE DEF some, o
  <2> QED BY <1>1, <1>4, EachOnce
<1>6. some \subseteq DOMAIN groups
  OBVIOUS
<1>7. o \in [1 .. n -> DOMAIN groups] /\ {o[i] : i \in 1 .. n} = some
  <2> HIDE DEF some, o, n
  <2> QED BY <1>5, <1>6
<1> HIDE DEF o, n
<1> QED BY <1>5, <1>7 DEF o

LEMMA RowsAddUp ==
  ASSUME NEW groups, IsFiniteSet(DOMAIN groups), \A k \in DOMAIN groups : IsFiniteSet(groups[k]),
         Apart2(groups), NEW table, DOMAIN table = DOMAIN Busiest(groups),
         \A i \in DOMAIN table : table[i].metrics.tasks = Cardinality(groups[Busiest(groups)[i]])
  PROVE  TasksOf(table) = Cardinality(Parts(groups))
<1> DEFINE o == Busiest(groups)
<1>1. PICK n \in Nat :
        /\ o \in [1 .. n -> DOMAIN groups]
        /\ \A i, j \in 1 .. n : o[i] = o[j] => i = j
        /\ {o[i] : i \in 1 .. n} = {k \in DOMAIN groups : groups[k] # {}}
  BY BusiestIs
<1> DEFINE part == [i \in 1 .. n |-> groups[o[i]]]
<1> HIDE DEF o
<1>2. IsFiniteSet(1 .. n)
  BY FS_Interval
<1>3. DOMAIN part = 1 .. n /\ (\A i \in 1 .. n : part[i] = groups[o[i]] /\ IsFiniteSet(part[i]))
  BY <1>1
<1>4. Apart2(part)
  BY <1>1, <1>3 DEF Apart2
<1>5. Parts(part) = Parts(groups)
  <2>1. Parts(part) \subseteq Parts(groups)
    BY <1>1, <1>3 DEF Parts
  <2>2. ASSUME NEW t \in Parts(groups) PROVE t \in Parts(part)
    <3>1. PICK k \in DOMAIN groups : t \in groups[k]
      BY DEF Parts
    <3>2. PICK i \in 1 .. n : o[i] = k
      BY <1>1, <3>1
    <3>3. t \in part[i]
      BY <3>1, <3>2, <1>3
    <3> QED BY <3>3, <1>3 DEF Parts
  <2> QED BY <2>1, <2>2
<1>6. [i \in DOMAIN table |-> table[i].metrics.tasks] = [i \in DOMAIN part |-> Cardinality(part[i])]
  <2>1. DOMAIN table = 1 .. n
    BY <1>1 DEF o
  <2>2. \A i \in 1 .. n : table[i].metrics.tasks = Cardinality(part[i])
    BY <1>3, <2>1 DEF o
  <2> HIDE DEF part
  <2> QED BY <1>3, <2>1, <2>2
<1> HIDE DEF part
<1>7. Total([i \in DOMAIN part |-> Cardinality(part[i])]) = Cardinality(Parts(part))
  BY <1>2, <1>3, <1>4, PartsAddUp
<1> QED BY <1>5, <1>6, <1>7 DEF TasksOf

-----------------------------------------------------------------------------
(* What a statistic is of: natural numbers, in rising order.               *)
LEMMA AscendingIs ==
  ASSUME NEW s \in Seq(Nat)
  PROVE  /\ DOMAIN Ascending(s) = 1 .. Len(s) /\ Len(s) \in Nat
         /\ \A i \in 1 .. Len(s) : Ascending(s)[i] \in Nat
         /\ \A i, j \in 1 .. Len(s) : i < j => Ascending(s)[i] =< Ascending(s)[j]
<1> DEFINE D == 1 .. Len(s)
           o == Ordered(D, s)
<1>1. DOMAIN s = D /\ Len(s) \in Nat /\ IsFiniteSet(D) /\ \A i \in D : s[i] \in Nat
  <2>1. Len(s) \in Int /\ 1 \in Int
    OBVIOUS
  <2>2. IsFiniteSet(D)
    BY ONLY <2>1, FS_Interval
  <2> QED BY <2>2
<1>2. \A i \in D : s[i] \in Int
  BY <1>1
<1>3. o \in SetToSeqs(D) /\ \A i, j \in DOMAIN o : i < j => s[o[i]] =< s[o[j]]
  <2> HIDE DEF D
  <2> QED BY <1>1, <1>2, OrderedIs
<1>4. Cardinality(D) = Len(s)
  BY <1>1, FS_Interval
<1>5. o \in [D -> D]
  <2> HIDE DEF o
  <2>1. o \in [1 .. Cardinality(D) -> D]
    <3> HIDE DEF D
    <3> QED BY <1>1, <1>3, EachOnce
  <2> QED BY <1>4, <2>1
<1>6. Ascending(s) = [i \in D |-> s[o[i]]]
  BY <1>1 DEF Ascending
<1> HIDE DEF o, D
<1>7. DOMAIN Ascending(s) = D /\ \A i \in D : Ascending(s)[i] = s[o[i]] /\ o[i] \in D
  BY <1>5, <1>6
<1>8. \A i, j \in D : i < j => Ascending(s)[i] =< Ascending(s)[j]
  BY <1>3, <1>5, <1>7
<1>9. \A i \in D : Ascending(s)[i] \in Nat
  BY <1>1, <1>7
<1> QED BY <1>1, <1>7, <1>8, <1>9 DEF D

LEMMA MedianBelow ==
  ASSUME NEW s \in Seq(Nat)
  PROVE  DurationStats(s).median =< DurationStats(s).p95
<1> DEFINE n == Len(s)
           a == Ascending(s)
           top == (95 * n + 99) \div 100
           m == n \div 2 + 1
<1>1. /\ n \in Nat /\ \A i \in 1 .. n : a[i] \in Nat
      /\ \A i, j \in 1 .. n : i < j => a[i] =< a[j]
  BY AscendingIs
<1>2. DurationStats(s).median = MedianOf(s) /\ DurationStats(s).p95 = P95(s)
  BY DEF DurationStats
<1>3. P95(s) = IF n = 0 THEN Missing ELSE a[top]
  BY DEF P95
<1>4. /\ n = 0 => MedianOf(s) = Missing
      /\ n # 0 /\ n % 2 = 1 => MedianOf(s) = a[m]
      /\ n # 0 /\ n % 2 # 1 => MedianOf(s) = (a[n \div 2] + a[m] + 1) \div 2
  BY DEF MedianOf
<1> HIDE DEF a
<1>5. CASE n = 0
  BY <1>2, <1>3, <1>4, <1>5 DEF Missing
<1>6. CASE n # 0
  <2> HIDE DEF n
  <2>1. top \in 1 .. n /\ m =< top /\ m \in Nat /\ m >= 1
    BY <1>1, <1>6
  <2> HIDE DEF top
  <2>2. m \in 1 .. n
    BY <1>1, <2>1
  <2>3. a[m] =< a[top] /\ a[m] \in Nat /\ a[top] \in Nat
    <3> HIDE DEF m
    <3> QED BY <1>1, <2>1, <2>2
  <2>4. CASE n % 2 = 1
    BY <1>2, <1>3, <1>4, <1>6, <2>3, <2>4
  <2>5. CASE n % 2 # 1
    <3>1. n \div 2 \in 1 .. n /\ n \div 2 < m
      BY <1>1, <1>6, <2>5
    <3> DEFINE l == n \div 2
    <3>2. a[l] \in Nat /\ a[l] =< a[m]
      <4> HIDE DEF m, l
      <4>1. l \in 1 .. n /\ l < m
        BY <3>1 DEF l
      <4> QED BY <1>1, <2>2, <4>1
    <3>3. MedianOf(s) = (a[l] + a[m] + 1) \div 2
      BY <1>4, <1>6, <2>5
    <3> HIDE DEF l, m
    <3>4. (a[l] + a[m] + 1) \div 2 =< a[m]
      BY <2>3, <3>2
    <3>5. (a[l] + a[m] + 1) \div 2 \in Nat
      BY <2>3, <3>2
    <3> QED BY <1>2, <1>3, <1>6, <2>3, <3>3, <3>4, <3>5
  <2> QED BY <2>4, <2>5
<1> QED BY <1>5, <1>6

LEMMA PresentInOrder ==
  ASSUME NEW of, IsFiniteSet(DOMAIN of)
  PROVE  Present(of).median =< Present(of).p95
<1> DEFINE D == DOMAIN of
           V == {of[x] : x \in D}
           e == Entries(of)
           n == Cardinality(D)
<1>1. n \in Nat /\ SetToSeq(D) \in Seq(D) /\ ToSet(SetToSeq(D)) = D
  BY FS_CardinalityType, ContentsOfSetToSeq
<1>2. SetToSeq(D) \in [1 .. n -> D]
  <2>1. \E f \in [1 .. n -> D] : IsInjective(f)
    BY FS_CardinalityType DEF ExistsBijection, Bijection, Injection
  <2> QED BY <2>1 DEF SetToSeq
<1>3. e = [i \in 1 .. n |-> of[SetToSeq(D)[i]]]
  BY DEF Entries
<1>4. e \in [1 .. n -> V]
  <2> HIDE DEF n, e
  <2> QED BY <1>2, <1>3
<1>5. e \in Seq(V)
  <2> HIDE DEF n, e, V
  <2> QED BY <1>1, <1>4
<1> DEFINE s == Sift(e, Nat)
<1>6. s \in Seq(V) /\ ToSet(s) = ToSet(e) \cap Nat
  <2> HIDE DEF e, V
  <2> QED BY <1>5, SiftContents
<1> HIDE DEF s, V
<1>7. s \in Seq(Nat)
  <2>1. s \in [1 .. Len(s) -> V] /\ Len(s) \in Nat
    BY <1>6
  <2>2. \A i \in 1 .. Len(s) : s[i] \in ToSet(s)
    BY <2>1 DEF ToSet
  <2>3. s \in [1 .. Len(s) -> Nat]
    BY <1>6, <2>1, <2>2
  <2> QED BY <2>1, <2>3
<1>8. DurationStats(s).median =< DurationStats(s).p95
  BY <1>7, MedianBelow
<1> QED BY <1>8 DEF Present, s

-----------------------------------------------------------------------------
LEMMA ImageFinite ==
  ASSUME NEW f, IsFiniteSet(DOMAIN f), f = [x \in DOMAIN f |-> f[x]]
  PROVE  IsFiniteSet({f[x] : x \in DOMAIN f})
<1> DEFINE V == {f[x] : x \in DOMAIN f}
<1>1. f \in Surjection(DOMAIN f, V)
  BY DEF Surjection
<1> HIDE DEF V
<1> QED BY <1>1, FS_Surjection DEF V

(* What a history says of each task.                                       *)
Measured(h) ==
  /\ IsFiniteSet(DOMAIN h)
  /\ \A t \in DOMAIN h :
       /\ h[t].agent \in MeasuredAgents /\ h[t].started \in Nat
       /\ h[t].attempts \in Nat /\ h[t].attempts >= 1
       /\ h[t].class.outcome \in Outcomes9
       /\ h[t].class.qualifying <=> IsAgentQuality(h[t].class.outcome)
       /\ h[t].class.firstPass => h[t].class.outcome = "approved"

LEMMA TaskIsClassified ==
  ASSUME NEW tries \in Seq(Tried), tries # <<>>, NEW kinds,
         \A i \in DOMAIN tries : tries[i].status = "failed" => tries[i].cause \in FailureCauses
  PROVE  LET c == ClassifyTask(tries, kinds) IN
         /\ c.outcome \in Outcomes9
         /\ c.qualifying <=> IsAgentQuality(c.outcome)
         /\ c.firstPass => c.outcome = "approved"
<1> DEFINE each == [i \in DOMAIN tries |-> ClassifyAttempt(tries[i])]
           outcome == CASE "approved" \in ToSet(each) -> "approved"
                        [] "approved" \notin ToSet(each) /\ kinds # <<>> /\ Last(kinds) = "conflict" ->
                             "integration_conflict"
                        [] OTHER -> Last(each)
           c == ClassifyTask(tries, kinds)
<1>1. DOMAIN tries = 1 .. Len(tries) /\ Len(tries) \in Nat /\ Len(tries) \in DOMAIN tries
  OBVIOUS
<1>2. ASSUME NEW i \in DOMAIN tries PROVE each[i] \in Outcomes9
  <2>1. tries[i] \in Tried
    BY <1>2
  <2>2. tries[i].status \in {"running", "reviewing"} \cup EndedStatuses
    BY <2>1 DEF Tried
  <2>3. each[i] = ClassifyAttempt(tries[i])
    OBVIOUS
  <2> HIDE DEF each
  <2>4. CASE tries[i].status = "failed"
    BY <2>3, <2>4 DEF ClassifyAttempt, FailureCauses, Outcomes9
  <2>5. CASE tries[i].status \in {"running", "reviewing"}
    BY <2>3, <2>5 DEF ClassifyAttempt, IsOpen, Outcomes9
  <2>6. CASE tries[i].status \in EndedStatuses \ {"failed"}
    BY <2>3, <2>6 DEF ClassifyAttempt, IsOpen, Outcomes9, EndedStatuses
  <2> QED BY <2>2, <2>4, <2>5, <2>6
<1>3. Last(each) \in Outcomes9
  <2>1. each \in [1 .. Len(tries) -> Outcomes9]
    BY <1>1, <1>2
  <2> HIDE DEF each
  <2>2. Len(each) = Len(tries)
    BY <1>1, <2>1
  <2> QED BY <1>1, <2>1, <2>2 DEF Last
<1>4. c.outcome = outcome /\ (c.qualifying <=> IsAgentQuality(outcome))
      /\ (c.firstPass => outcome = "approved")
  BY DEF ClassifyTask
<1>5. outcome \in Outcomes9
  <2> HIDE DEF each
  <2> QED BY <1>3 DEF Outcomes9
<1> HIDE DEF outcome, c
<1> QED BY <1>4, <1>5 DEF c

LEMMA HistoryIsMeasured ==
  ASSUME EvalTypeOK
  PROVE  Measured(Now)
<1> DEFINE h == Now
<1>1. /\ DOMAIN h = {t \in MeasuredTasks : past[t] # <<>>}
      /\ \A t \in DOMAIN h : h[t] = BuildRecord(t, past[t], landings[t])
  BY DEF Now, History
<1> HIDE DEF h
<1>2. IsFiniteSet(DOMAIN h)
  BY <1>1, EvalConstants, FS_Subset
<1>3. ASSUME NEW t \in DOMAIN h
      PROVE  /\ h[t].agent \in MeasuredAgents /\ h[t].started \in Nat
             /\ h[t].attempts \in Nat /\ h[t].attempts >= 1
             /\ h[t].class.outcome \in Outcomes9
             /\ h[t].class.qualifying <=> IsAgentQuality(h[t].class.outcome)
             /\ h[t].class.firstPass => h[t].class.outcome = "approved"
  <2> DEFINE a == past[t]
             F == {a[i].from : i \in DOMAIN a}
  <2>1. a \in Seq(Tried) /\ a # <<>>
        /\ \A i \in DOMAIN a : a[i].status = "failed" => a[i].cause \in FailureCauses
    <3>1. t \in MeasuredTasks /\ a # <<>>
      BY <1>1, <1>3
    <3>2. past \in [MeasuredTasks -> Seq(Tried)]
      BY DEF EvalTypeOK
    <3>3. OneByOne(a, landings[t])
      BY <3>1 DEF EvalTypeOK
    <3>4. \A i \in DOMAIN a : a[i].status = "failed" => a[i].cause \in FailureCauses
      <4> HIDE DEF a
      <4> QED BY <3>3 DEF OneByOne
    <3> QED BY <3>1, <3>2, <3>4
  <2>2. h[t] = BuildRecord(t, a, landings[t])
    BY <1>1, <1>3
  <2> HIDE DEF a
  <2>3. Len(a) \in Nat /\ Len(a) >= 1 /\ DOMAIN a = 1 .. Len(a) /\ a[1] \in Tried
    BY <2>1
  <2>4. IsFiniteSet(F) /\ F \subseteq Nat /\ F # {}
    <3>1. IsFiniteSet(1 .. Len(a))
      BY <2>3, FS_Interval
    <3>2. IsFiniteSet(F)
      <4> DEFINE f == [i \in DOMAIN a |-> a[i].from]
      <4>1. IsFiniteSet(DOMAIN f) /\ f = [i \in DOMAIN f |-> f[i]]
        BY <2>3, <3>1
      <4>2. F = {f[i] : i \in DOMAIN f}
        OBVIOUS
      <4> HIDE DEF f, F
      <4> QED BY <4>1, <4>2, ImageFinite
    <3>3. \A i \in DOMAIN a : a[i] \in Tried
      BY <2>1
    <3>4. F \subseteq Nat
      BY <3>3 DEF Tried
    <3> QED BY <2>3, <3>2, <3>4
  <2>5. Max(F) \in Nat
    <3> HIDE DEF F
    <3>1. \E x \in F : \A y \in F : y =< x
      BY <2>4, GreatestNumber
    <3>2. \E x \in F : \A y \in F : x >= y
      BY <2>4, <3>1
    <3> QED BY <2>4, <3>2 DEF Max
  <2>6. /\ h[t].agent = a[1].agent /\ h[t].started = Max(F) /\ h[t].attempts = Len(a)
        /\ h[t].class = ClassifyTask(a, landings[t])
    BY <2>2 DEF BuildRecord
  <2>7. LET c == ClassifyTask(a, landings[t]) IN
        /\ c.outcome \in Outcomes9
        /\ c.qualifying <=> IsAgentQuality(c.outcome)
        /\ c.firstPass => c.outcome = "approved"
    BY <2>1, TaskIsClassified
  <2>8. a[1].agent \in MeasuredAgents
    BY <2>3 DEF Tried
  <2> HIDE DEF F
  <2> QED BY <2>3, <2>5, <2>6, <2>7, <2>8
<1> QED BY <1>2, <1>3 DEF Measured, h

-----------------------------------------------------------------------------
(* No rate counts more successes than samples, whatever the slice.         *)
LEMMA AggregateAddsUp ==
  ASSUME NEW h, Measured(h), NEW tasks, tasks \subseteq DOMAIN h
  PROVE  LET m == Aggregate(h, tasks) IN
         /\ Total(m.counts) = m.tasks
         /\ \A r \in Rates(m) : r.successes =< r.total
         /\ m.first.successes =< m.eventual.successes
         /\ m.tasks =< m.attempts
         /\ \A stats \in {m.execution, m.review, m.duration} : stats.median =< stats.p95
<1> DEFINE m == Aggregate(h, tasks)
           quality == Qualifying(h, tasks)
           q == Cardinality(quality)
           of(o) == {t \in tasks : h[t].class.outcome = o}
           first == {t \in quality : h[t].class.firstPass}
           changed == {t \in quality : h[t].class.changed}
           again == {t \in quality : h[t].attempts > 1}
           landed(k) == {t \in tasks : h[t].landed = k}
           each == [t \in tasks |-> h[t].attempts]
           counts == [o \in Outcomes9 |-> Cardinality(of(o))]
<1>1. IsFiniteSet(tasks) /\ \A S \in SUBSET tasks : IsFiniteSet(S) /\ Cardinality(S) \in Nat
  BY FS_Subset, FS_CardinalityType DEF Measured
<1>2. /\ m.tasks = Cardinality(tasks) /\ m.attempts = Total(each) /\ m.counts = counts
      /\ m.first = Rate(Cardinality(first), q) /\ m.eventual = Rate(counts["approved"], q)
      /\ m.changes = Rate(Cardinality(changed), q) /\ m.retry = Rate(Cardinality(again), q)
      /\ m.failure = Rate(counts["agent_failed"], q)
      /\ m.execution = Present([t \in tasks |-> h[t].exec.ms])
      /\ m.review = Present([t \in tasks |-> h[t].review])
      /\ m.duration = Present([t \in tasks |-> h[t].total])
      /\ m.integration = IntegrationStats(h, tasks)
  BY DEF Aggregate
<1> HIDE DEF m
<1>3. /\ quality \subseteq tasks /\ first \subseteq quality /\ changed \subseteq quality
      /\ again \subseteq quality /\ first \subseteq of("approved")
      /\ of("approved") \subseteq quality /\ of("agent_failed") \subseteq quality
  BY DEF Qualifying, Measured, IsAgentQuality
<1>4. \A S, T \in SUBSET tasks : S \subseteq T => Cardinality(S) =< Cardinality(T)
  BY <1>1, FS_Subset
<1>5. Total(m.counts) = m.tasks
  <2> DEFINE part == [o \in Outcomes9 |-> of(o)]
  <2>1. IsFiniteSet(Outcomes9)
    <3>1. \A S, o : IsFiniteSet(S) => IsFiniteSet(S \cup {o})
      BY FS_AddElement
    <3>2. IsFiniteSet({"approved"}) /\ IsFiniteSet({"cancelled"})
      BY FS_Singleton
    <3>3. IsFiniteSet((({"approved"} \cup {"changes_requested"}) \cup {"agent_failed"}) \cup {"in_progress"})
      BY <3>1, <3>2
    <3>4. IsFiniteSet(((({"cancelled"} \cup {"integration_conflict"}) \cup {"interrupted"})
                         \cup {"policy_blocked"}) \cup {"configuration_error"})
      BY <3>1, <3>2
    <3>5. Outcomes9 = ((({"approved"} \cup {"changes_requested"}) \cup {"agent_failed"}) \cup {"in_progress"})
                        \cup (((({"cancelled"} \cup {"integration_conflict"}) \cup {"interrupted"})
                                 \cup {"policy_blocked"}) \cup {"configuration_error"})
      BY DEF Outcomes9
    <3> QED BY <3>3, <3>4, <3>5, FS_Union
  <2>2. \A o \in Outcomes9 : part[o] = of(o) /\ of(o) \in SUBSET tasks
    OBVIOUS
  <2>3. DOMAIN part = Outcomes9
    OBVIOUS
  <2>4. Apart2(part)
    BY DEF Apart2
  <2>5. Parts(part) = tasks
    <3>1. \A t \in tasks : h[t].class.outcome \in Outcomes9 /\ t \in part[h[t].class.outcome]
      BY DEF Measured
    <3>2. \A o \in DOMAIN part : part[o] \subseteq tasks
      BY <2>2, <2>3
    <3> HIDE DEF part, of
    <3>3. \A t \in tasks : \E o \in DOMAIN part : t \in part[o]
      BY <3>1, <2>3
    <3>4. UNION {part[o] : o \in DOMAIN part} = tasks
      BY <3>2, <3>3
    <3> QED BY <3>4 DEF Parts
  <2> HIDE DEF part, of
  <2>6. Total([o \in DOMAIN part |-> Cardinality(part[o])]) = Cardinality(Parts(part))
    BY <1>1, <2>1, <2>2, <2>3, <2>4, PartsAddUp
  <2>7. [o \in DOMAIN part |-> Cardinality(part[o])] = counts
    BY <2>2, <2>3
  <2> QED BY <1>2, <2>5, <2>6, <2>7
<1>6. /\ q \in Nat /\ Cardinality(first) =< q /\ Cardinality(changed) =< q /\ Cardinality(again) =< q
      /\ counts["approved"] =< q /\ counts["agent_failed"] =< q
      /\ Cardinality(first) =< counts["approved"]
  <2>1. counts["approved"] = Cardinality(of("approved"))
        /\ counts["agent_failed"] = Cardinality(of("agent_failed"))
    BY DEF Outcomes9
  <2> HIDE DEF quality, first, changed, again, of, counts
  <2>2. q \in Nat
    BY <1>1, <1>3
  <2>3. Cardinality(first) =< q
    BY <1>3, <1>4
  <2>4. Cardinality(changed) =< q
    BY <1>3, <1>4
  <2>5. Cardinality(again) =< q
    BY <1>3, <1>4
  <2>6. Cardinality(of("approved")) =< q /\ Cardinality(of("agent_failed")) =< q
    BY <1>3, <1>4
  <2>7. Cardinality(first) =< Cardinality(of("approved"))
    BY <1>3, <1>4
  <2> HIDE DEF q
  <2> QED BY <2>1, <2>2, <2>3, <2>4, <2>5, <2>6, <2>7
<1>7. /\ m.integration.clean.successes =< m.integration.clean.total
      /\ m.integration.conflict.successes =< m.integration.conflict.total
  <2> DEFINE c == Cardinality(landed("clean"))
             r == Cardinality(landed("rebased"))
             x == Cardinality(landed("conflict"))
  <2>1. c \in Nat /\ r \in Nat /\ x \in Nat
    BY <1>1
  <2>2. m.integration.clean = Rate(c, c + r + x) /\ m.integration.conflict = Rate(x, c + r + x)
    BY <1>2 DEF IntegrationStats
  <2> HIDE DEF c, r, x
  <2> QED BY <2>1, <2>2 DEF Rate
<1>8. \A r \in Rates(m) : r.successes =< r.total
  <2> HIDE DEF quality, first, changed, again, of, counts, q
  <2>1. \A n : \A k : n =< k => Rate(n, k).successes =< Rate(n, k).total
    BY DEF Rate
  <2>2. m.first.successes =< m.first.total /\ m.eventual.successes =< m.eventual.total
        /\ m.changes.successes =< m.changes.total /\ m.retry.successes =< m.retry.total
        /\ m.failure.successes =< m.failure.total
    BY <1>2, <1>6, <2>1
  <2> QED BY <1>7, <2>2 DEF Rates
<1>9. m.first.successes =< m.eventual.successes
  <2> HIDE DEF first, counts, q
  <2> QED BY <1>2, <1>6 DEF Rate
<1>10. m.tasks =< m.attempts
  <2>1. DOMAIN each = tasks /\ \A t \in tasks : each[t] \in Nat /\ each[t] >= 1
    BY DEF Measured
  <2> HIDE DEF each
  <2> QED BY <1>1, <1>2, <2>1, SumAtLeast
<1>11. \A stats \in {m.execution, m.review, m.duration} : stats.median =< stats.p95
  <2>1. \A of1 : DOMAIN of1 = tasks => Present(of1).median =< Present(of1).p95
    BY <1>1, PresentInOrder
  <2> DEFINE e == [t \in tasks |-> h[t].exec.ms]
             v == [t \in tasks |-> h[t].review]
             d == [t \in tasks |-> h[t].total]
  <2>2. DOMAIN e = tasks /\ DOMAIN v = tasks /\ DOMAIN d = tasks
    OBVIOUS
  <2>3. m.execution = Present(e) /\ m.review = Present(v) /\ m.duration = Present(d)
    BY <1>2
  <2> HIDE DEF e, v, d
  <2> QED BY <2>1, <2>2, <2>3
<1> QED BY <1>5, <1>8, <1>9, <1>10, <1>11 DEF m

-----------------------------------------------------------------------------
(* The rows of a table divide the tasks of a slice among them.             *)
Groups(h, tasks) == [a \in MeasuredAgents |-> {t \in Slice(h, tasks, AnyWork) : h[t].agent = a}]
LEMMA GroupsAre ==
  ASSUME NEW h, Measured(h), NEW tasks, tasks \subseteq DOMAIN h
  PROVE  LET of == Groups(h, tasks) IN
         /\ DOMAIN of = MeasuredAgents /\ IsFiniteSet(MeasuredAgents)
         /\ \A a \in MeasuredAgents : of[a] = {t \in tasks : h[t].agent = a} /\ IsFiniteSet(of[a])
         /\ Apart2(of) /\ Parts(of) = tasks /\ IsFiniteSet(tasks)
<1> DEFINE of == Groups(h, tasks)
<1>1. Slice(h, tasks, AnyWork) = tasks
  BY DEF Slice, RecordMatches, AnyWork
<1>2. DOMAIN of = MeasuredAgents /\ \A a \in MeasuredAgents : of[a] = {t \in tasks : h[t].agent = a}
  BY <1>1 DEF Groups
<1>3. IsFiniteSet(tasks)
  BY FS_Subset DEF Measured
<1>4. \A a \in MeasuredAgents : IsFiniteSet(of[a])
  BY <1>2, <1>3, FS_Subset
<1> HIDE DEF of
<1>5. Apart2(of)
  BY <1>2 DEF Apart2
<1>6. Parts(of) = tasks
  <2>1. \A t \in tasks : h[t].agent \in MeasuredAgents
    BY DEF Measured
  <2>2. \A t \in tasks : \E a \in DOMAIN of : t \in of[a]
    BY <1>2, <2>1
  <2>3. \A a \in DOMAIN of : of[a] \subseteq tasks
    BY <1>2
  <2> QED BY <2>2, <2>3 DEF Parts
<1> QED BY <1>2, <1>3, <1>4, <1>5, <1>6, EvalConstants DEF of

LEMMA EvaluateIs ==
  ASSUME NEW h, NEW tasks
  PROVE  LET o == Busiest(Groups(h, tasks))
             all == Evaluate(h, tasks, AnyWork) IN
         /\ DOMAIN all = DOMAIN o
         /\ \A i \in DOMAIN o : /\ all[i].agent = o[i]
                                /\ all[i].metrics = Aggregate(h, Groups(h, tasks)[o[i]])
BY DEF Evaluate, Groups

LEMMA AgentsDivide ==
  ASSUME NEW h, Measured(h), NEW tasks, tasks \subseteq DOMAIN h
  PROVE  TasksOf(Evaluate(h, tasks, AnyWork)) = Cardinality(tasks)
<1> DEFINE of == Groups(h, tasks)
           all == Evaluate(h, tasks, AnyWork)
<1>1. /\ IsFiniteSet(DOMAIN of) /\ (\A a \in DOMAIN of : IsFiniteSet(of[a]))
      /\ Apart2(of) /\ Parts(of) = tasks
  BY GroupsAre
<1>2. DOMAIN all = DOMAIN Busiest(of)
      /\ \A i \in DOMAIN all : all[i].metrics = Aggregate(h, of[Busiest(of)[i]])
  BY EvaluateIs
<1>3. \A T : Aggregate(h, T).tasks = Cardinality(T)
  BY DEF Aggregate
<1> HIDE DEF of, all
<1>4. \A i \in DOMAIN all : all[i].metrics.tasks = Cardinality(of[Busiest(of)[i]])
  BY <1>2, <1>3
<1>5. TasksOf(all) = Cardinality(Parts(of))
  BY <1>1, <1>2, <1>4, RowsAddUp
<1> QED BY <1>1, <1>5 DEF all

LEMMA KeysDivide ==
  ASSUME NEW h, NEW tasks, IsFiniteSet(tasks), NEW d \in {"role", "operation"}
  PROVE  TasksOf(Breakdown(h, tasks, d)) = Cardinality(tasks)
<1> DEFINE K == UNION {KeysOf(h[t], d) : t \in tasks}
           of == [k \in K |-> {t \in tasks : k \in KeysOf(h[t], d)}]
           table == Breakdown(h, tasks, d)
           key == [t \in tasks |-> h[t][d]]
<1>1. \A t \in tasks : KeysOf(h[t], d) = {key[t]}
  BY DEF KeysOf
<1> HIDE DEF key
<1>2. IsFiniteSet(K)
  <2>1. DOMAIN key = tasks /\ key = [t \in DOMAIN key |-> key[t]]
    BY DEF key
  <2>2. IsFiniteSet({key[t] : t \in DOMAIN key})
    BY <2>1, ImageFinite
  <2>3. K = {key[t] : t \in DOMAIN key}
    BY <1>1, <2>1
  <2> HIDE DEF K
  <2> QED BY <2>2, <2>3
<1>3. DOMAIN of = K /\ \A k \in K : of[k] = {t \in tasks : key[t] = k}
  BY <1>1
<1>4. \A t \in tasks : key[t] \in K
  BY <1>1
<1>5. DOMAIN table = DOMAIN Busiest(of)
      /\ \A i \in DOMAIN table : table[i].metrics = Aggregate(h, of[Busiest(of)[i]])
  BY DEF Breakdown
<1> HIDE DEF K, of, table
<1>6. \A k \in DOMAIN of : IsFiniteSet(of[k])
  BY <1>3, FS_Subset
<1>7. Apart2(of)
  BY <1>3 DEF Apart2
<1>8. Parts(of) = tasks
  <2>1. \A t \in tasks : \E k \in DOMAIN of : t \in of[k]
    BY <1>3, <1>4
  <2>2. \A k \in DOMAIN of : of[k] \subseteq tasks
    BY <1>3
  <2> QED BY <2>1, <2>2 DEF Parts
<1>9. \A T : Aggregate(h, T).tasks = Cardinality(T)
  BY DEF Aggregate
<1>10. \A i \in DOMAIN table : table[i].metrics.tasks = Cardinality(of[Busiest(of)[i]])
  BY <1>5, <1>9
<1>11. TasksOf(table) = Cardinality(Parts(of))
  BY <1>2, <1>3, <1>5, <1>6, <1>7, <1>10, RowsAddUp
<1> QED BY <1>8, <1>11 DEF table

LEMMA MetricsOfHistory ==
  ASSUME NEW h, Measured(h)
  PROVE  MetricsAddUp(h)
<1> SUFFICES ASSUME NEW w \in Windows
    PROVE  LET tasks == InWindow(h, w, day)
               m == Aggregate(h, tasks) IN
           /\ Total(m.counts) = m.tasks
           /\ \A r \in Rates(m) : r.successes =< r.total
           /\ m.first.successes =< m.eventual.successes
           /\ m.tasks =< m.attempts
           /\ \A stats \in {m.execution, m.review, m.duration} : stats.median =< stats.p95
           /\ TasksOf(Evaluate(h, tasks, AnyWork)) = m.tasks
           /\ LET offered == Facets(h, tasks) IN
                /\ \A r \in offered.roles : Slice(h, tasks, [AnyWork EXCEPT !.role = r]) # {}
                /\ \A o \in offered.operations : Slice(h, tasks, [AnyWork EXCEPT !.operation = o]) # {}
                /\ \A l \in offered.languages : Slice(h, tasks, [AnyWork EXCEPT !.language = l]) # {}
  BY DEF MetricsAddUp
<1> DEFINE tasks == InWindow(h, w, day)
           m == Aggregate(h, tasks)
<1>1. tasks \subseteq DOMAIN h
  BY DEF InWindow
<1> HIDE DEF tasks
<1>2. LET a == Aggregate(h, tasks) IN
      /\ Total(a.counts) = a.tasks
      /\ \A r \in Rates(a) : r.successes =< r.total
      /\ a.first.successes =< a.eventual.successes
      /\ a.tasks =< a.attempts
      /\ \A stats \in {a.execution, a.review, a.duration} : stats.median =< stats.p95
  BY <1>1, AggregateAddsUp
<1>3. m.tasks = Cardinality(tasks)
  BY DEF Aggregate
<1>4. TasksOf(Evaluate(h, tasks, AnyWork)) = Cardinality(tasks)
  BY <1>1, AgentsDivide
<1>5. ASSUME NEW r \in Facets(h, tasks).roles PROVE Slice(h, tasks, [AnyWork EXCEPT !.role = r]) # {}
  <2>1. PICK t \in tasks : h[t].role = r
    BY DEF Facets
  <2>2. RecordMatches(h[t], [AnyWork EXCEPT !.role = r])
    BY <2>1 DEF RecordMatches, AnyWork
  <2> QED BY <2>2 DEF Slice
<1>6. ASSUME NEW o \in Facets(h, tasks).operations
      PROVE  Slice(h, tasks, [AnyWork EXCEPT !.operation = o]) # {}
  <2>1. PICK t \in tasks : h[t].operation = o
    BY DEF Facets
  <2>2. RecordMatches(h[t], [AnyWork EXCEPT !.operation = o])
    BY <2>1 DEF RecordMatches, AnyWork
  <2> QED BY <2>2 DEF Slice
<1>7. ASSUME NEW l \in Facets(h, tasks).languages
      PROVE  Slice(h, tasks, [AnyWork EXCEPT !.language = l]) # {}
  <2>1. PICK t \in tasks : l \in h[t].languages
    BY DEF Facets
  <2>2. RecordMatches(h[t], [AnyWork EXCEPT !.language = l])
    BY <2>1 DEF RecordMatches, AnyWork
  <2> QED BY <2>2 DEF Slice
<1> HIDE DEF m
<1> QED BY <1>2, <1>3, <1>4, <1>5, <1>6, <1>7 DEF m, tasks

-----------------------------------------------------------------------------
(* The latest tasks: as many as are asked for, and none older than one     *)
(* that is left out.                                                       *)
LEMMA LesserOfTwo ==
  ASSUME NEW a \in Nat, NEW b \in Nat
  PROVE  Min({a, b}) = IF a =< b THEN a ELSE b
<1>1. \E x \in {a, b} : \A y \in {a, b} : x =< y
  OBVIOUS
<1>2. Min({a, b}) \in {a, b} /\ \A y \in {a, b} : Min({a, b}) =< y
  BY <1>1 DEF Min
<1> QED BY <1>2

LEMMA LatestIs ==
  ASSUME NEW h, Measured(h), NEW tasks, tasks \subseteq DOMAIN h, NEW n \in Nat
  PROVE  LET quality == Qualifying(h, tasks)
             late == Latest(h, tasks, n) IN
         /\ late \subseteq quality /\ IsFiniteSet(quality)
         /\ Cardinality(late) = Min({n, Cardinality(quality)})
         /\ Cardinality(quality) =< n => late = quality
         /\ \A t \in late, u \in quality \ late : h[t].started >= h[u].started
<1> DEFINE quality == Qualifying(h, tasks)
           q == Cardinality(quality)
           rank == [t \in quality |-> -h[t].started]
           o == Ordered(quality, rank)
           m == Min({n, q})
           late == Latest(h, tasks, n)
<1>1. quality \subseteq DOMAIN h
  BY DEF Qualifying
<1> HIDE DEF quality
<1>2. IsFiniteSet(quality)
  BY <1>1, FS_Subset DEF Measured
<1>3. \A t \in quality : h[t].started \in Nat /\ rank[t] = -h[t].started
  BY <1>1 DEF Measured
<1>4. late = {o[i] : i \in 1 .. m}
  BY DEF Latest, quality
<1> HIDE DEF rank, late
<1>5. o \in SetToSeqs(quality) /\ \A i, j \in DOMAIN o : i < j => rank[o[i]] =< rank[o[j]]
  <2>1. \A t \in quality : rank[t] \in Int
    BY <1>3
  <2> QED BY <1>2, <2>1, OrderedIs
<1> HIDE DEF o
<1>6. /\ q \in Nat /\ o \in [1 .. q -> quality]
      /\ \A i, j \in 1 .. q : o[i] = o[j] => i = j
      /\ \A x \in quality : \E i \in 1 .. q : o[i] = x
  BY <1>2, <1>5, EachOnce
<1> HIDE DEF q
<1>7. m \in Nat /\ m =< q /\ (q =< n => m = q)
  <2>1. m = IF n =< q THEN n ELSE q
    BY <1>6, LesserOfTwo
  <2> HIDE DEF m
  <2> QED BY <2>1, <1>6
<1> HIDE DEF m
<1>8. 1 .. m \subseteq 1 .. q
  BY <1>6, <1>7
<1>9. late \subseteq quality
  BY <1>4, <1>6, <1>8
<1>10. Cardinality(late) = m
  <2> DEFINE f == [i \in 1 .. m |-> o[i]]
  <2>1. f \in Bijection(1 .. m, late)
    <3>1. f \in [1 .. m -> late] /\ \A x \in late : \E i \in 1 .. m : f[i] = x
      BY <1>4
    <3>2. \A i, j \in 1 .. m : f[i] = f[j] => i = j
      BY <1>6, <1>8
    <3> HIDE DEF f
    <3> QED BY <3>1, <3>2 DEF Bijection, Injection, IsInjective, Surjection
  <2>2. IsFiniteSet(1 .. m) /\ Cardinality(1 .. m) = m
    BY <1>7, FS_Interval
  <2>3. ExistsBijection(1 .. m, late)
    <3> HIDE DEF f
    <3> QED BY <2>1 DEF ExistsBijection
  <2> QED BY <2>2, <2>3, FS_Bijection
<1>11. q =< n => late = quality
  BY <1>4, <1>6, <1>7, <1>9
<1>12. ASSUME NEW t \in late, NEW u \in quality \ late PROVE h[t].started >= h[u].started
  <2>1. PICK i \in 1 .. m : o[i] = t
    BY <1>4
  <2>2. PICK j \in 1 .. q : o[j] = u
    BY <1>6
  <2>3. ~(j =< m)
    BY <1>4, <2>2
  <2>4. i < j /\ i \in DOMAIN o /\ j \in DOMAIN o
    BY <1>6, <1>7, <1>8, <2>3
  <2>5. rank[t] =< rank[u]
    BY <1>5, <2>1, <2>2, <2>4
  <2>6. t \in quality /\ u \in quality
    BY <1>9
  <2> QED BY <1>3, <2>5, <2>6
<1> QED BY <1>2, <1>9, <1>10, <1>11, <1>12 DEF quality, late, q, m

(* An agent's own page is about the tasks that carry its name.             *)
LEMMA PageIs ==
  ASSUME NEW h, Measured(h), NEW a \in MeasuredAgents
  PROVE  LET tasks == {t \in DOMAIN h : h[t].agent = a}
             one == EvaluateAgent(h, a, "all_time", day) IN
         /\ one.metrics = Aggregate(h, tasks)
         /\ one.roles = Breakdown(h, tasks, "role") /\ one.operations = Breakdown(h, tasks, "operation")
         /\ one.trend = TrendSummary(h, tasks, day)
<1> DEFINE q == [AnyWork EXCEPT !.agent = a]
           tasks == {t \in DOMAIN h : h[t].agent = a}
<1>1. InWindow(h, "all_time", day) = DOMAIN h
  <2>1. Since("all_time", day) = 0
    BY DEF Since
  <2>2. \A t \in DOMAIN h : h[t].started >= 0
    BY DEF Measured
  <2> QED BY <2>1, <2>2 DEF InWindow
<1>2. Slice(h, DOMAIN h, q) = tasks
  <2>1. a # Anything
    BY EvalConstants
  <2>2. q.agent = a /\ q.role = Anything /\ q.operation = Anything /\ q.language = Anything
    BY DEF AnyWork
  <2> HIDE DEF q
  <2> QED BY <2>1, <2>2 DEF Slice, RecordMatches
<1> HIDE DEF tasks
<1> QED BY <1>1, <1>2 DEF EvaluateAgent, tasks

(* Two parts of a set that share nothing are together no larger than it.   *)
LEMMA TwoParts ==
  ASSUME NEW S, IsFiniteSet(S), NEW A, A \subseteq S, NEW B, B \subseteq S, A \cap B = {}
  PROVE  Cardinality(A) + Cardinality(B) =< Cardinality(S)
<1>1. IsFiniteSet(A) /\ IsFiniteSet(B)
  BY FS_Subset
<1>2. Cardinality(A \cup B) = Cardinality(A) + Cardinality(B) - Cardinality(A \cap B)
  BY <1>1, FS_Union
<1>3. Cardinality(A \cap B) = 0
  BY FS_EmptySet
<1>4. A \cup B \subseteq S
  OBVIOUS
<1>5. Cardinality(A \cup B) =< Cardinality(S)
  BY <1>4, FS_Subset
<1>6. Cardinality(A) \in Nat /\ Cardinality(B) \in Nat
  BY <1>1, FS_CardinalityType
<1> QED BY <1>2, <1>3, <1>5, <1>6

LEMMA TrendOf ==
  ASSUME NEW h, Measured(h), NEW tasks, tasks \subseteq DOMAIN h, day \in Nat
  PROVE  LET m == Aggregate(h, tasks)
             trend == TrendSummary(h, tasks, day) IN
         /\ \A n \in Recent : LET late == trend.recent[n].first IN
              /\ late.total = Min({n, m.qualifying})
              /\ late.successes =< m.first.successes
              /\ m.qualifying =< n => late.successes = m.first.successes
         /\ trend.current.first.total + trend.previous.first.total =< m.qualifying
<1> DEFINE quality == Qualifying(h, tasks)
           q == Cardinality(quality)
           Good(S) == {t \in S : h[t].class.firstPass}
           m == Aggregate(h, tasks)
           trend == TrendSummary(h, tasks, day)
           this == ThisWeek(h, tasks, day)
           before == WeekBefore(h, tasks, day)
<1>1. m.qualifying = q /\ m.first.successes = Cardinality(Good(quality))
  BY DEF Aggregate, Rate
<1>2. \A S : TrendWindow(h, S).first.total = Cardinality(S)
             /\ TrendWindow(h, S).first.successes = Cardinality(Good(S))
  BY DEF TrendWindow, Rate
<1>3. /\ \A n \in Recent : trend.recent[n] = TrendWindow(h, Latest(h, tasks, n))
      /\ trend.current = TrendWindow(h, this) /\ trend.previous = TrendWindow(h, before)
  BY DEF TrendSummary
<1>4. /\ quality \subseteq DOMAIN h /\ this \subseteq quality /\ before \subseteq quality
      /\ \A t \in this : h[t].started >= day - Week
      /\ \A t \in before : h[t].started < day - Week
  BY DEF Qualifying, ThisWeek, WeekBefore
<1> HIDE DEF quality, m, trend, this, before
<1>5. IsFiniteSet(quality)
  BY <1>4, FS_Subset DEF Measured
<1>6. ASSUME NEW n \in Recent
      PROVE  LET late == trend.recent[n].first IN
             /\ late.total = Min({n, m.qualifying})
             /\ late.successes =< m.first.successes
             /\ m.qualifying =< n => late.successes = m.first.successes
  <2> DEFINE late == Latest(h, tasks, n)
  <2>1. n \in Nat
    BY DEF Recent
  <2>2. /\ late \subseteq quality /\ Cardinality(late) = Min({n, q})
        /\ q =< n => late = quality
    BY <2>1, LatestIs DEF quality
  <2> HIDE DEF late, q
  <2>3. Good(late) \subseteq Good(quality)
    BY <2>2
  <2>4. IsFiniteSet(Good(quality))
    BY <1>5, FS_Subset
  <2>5. Cardinality(Good(late)) =< Cardinality(Good(quality))
    BY <2>3, <2>4, FS_Subset
  <2>6. trend.recent[n] = TrendWindow(h, late)
    BY <1>3 DEF late
  <2> HIDE DEF Good
  <2> QED BY <1>1, <1>2, <2>2, <2>5, <2>6
<1>7. this \cap before = {}
  <2>1. \A t \in this \cap before : FALSE
    <3>1. \A t \in quality : h[t].started \in Nat
      BY <1>4 DEF Measured
    <3>2. day - Week \in Int
      BY EvalConstants
    <3> QED BY <1>4, <3>1, <3>2
  <2> QED BY <2>1
<1>8. Cardinality(this) + Cardinality(before) =< q
  BY <1>4, <1>5, <1>7, TwoParts
<1> HIDE DEF Good, q
<1> QED BY <1>1, <1>2, <1>3, <1>6, <1>8 DEF m, trend

LEMMA AgentsOfHistory ==
  ASSUME NEW h, Measured(h), day \in Nat
  PROVE  AgentsAddUp(h)
<1> DEFINE of == Groups(h, DOMAIN h)
           all == Evaluate(h, DOMAIN h, AnyWork)
           o == Busiest(of)
           mine(a) == {t \in DOMAIN h : h[t].agent = a}
<1>1. /\ DOMAIN of = MeasuredAgents /\ IsFiniteSet(MeasuredAgents)
      /\ \A a \in MeasuredAgents : of[a] = mine(a) /\ IsFiniteSet(of[a])
  BY GroupsAre
<1>2. /\ DOMAIN all = DOMAIN o
      /\ \A i \in DOMAIN o : all[i].agent = o[i] /\ all[i].metrics = Aggregate(h, of[o[i]])
  BY EvaluateIs
<1> HIDE DEF of, all
<1>3. PICK n \in Nat :
        /\ o \in [1 .. n -> DOMAIN of]
        /\ \A i, j \in 1 .. n : o[i] = o[j] => i = j
        /\ {o[i] : i \in 1 .. n} = {k \in DOMAIN of : of[k] # {}}
  BY <1>1, BusiestIs
<1> HIDE DEF o
<1>4. DOMAIN all = 1 .. n /\ \A i \in 1 .. n : o[i] \in MeasuredAgents
  BY <1>1, <1>2, <1>3
<1>5. {all[i].agent : i \in DOMAIN all} = {h[t].agent : t \in DOMAIN h}
  <2>1. {all[i].agent : i \in DOMAIN all} = {o[i] : i \in 1 .. n}
    BY <1>2, <1>4
  <2>2. {k \in MeasuredAgents : mine(k) # {}} = {h[t].agent : t \in DOMAIN h}
    BY DEF Measured
  <2>3. {k \in DOMAIN of : of[k] # {}} = {k \in MeasuredAgents : mine(k) # {}}
    BY <1>1
  <2> QED BY <1>3, <2>1, <2>2, <2>3
<1>6. \A i, j \in DOMAIN all : i # j => all[i].agent # all[j].agent
  BY <1>2, <1>3, <1>4
<1>7. ASSUME NEW i \in DOMAIN all
      PROVE  LET row == all[i]
                 one == EvaluateAgent(h, row.agent, "all_time", day) IN
             /\ row.metrics = one.metrics
             /\ TasksOf(one.roles) = one.metrics.tasks /\ TasksOf(one.operations) = one.metrics.tasks
             /\ \A k \in Recent : LET late == one.trend.recent[k].first IN
                  /\ late.total = Min({k, one.metrics.qualifying})
                  /\ late.successes =< one.metrics.first.successes
                  /\ one.metrics.qualifying =< k => late.successes = one.metrics.first.successes
             /\ one.trend.current.first.total + one.trend.previous.first.total
                  =< one.metrics.qualifying
  <2> DEFINE a == o[i]
             tasks == mine(a)
             one == EvaluateAgent(h, a, "all_time", day)
  <2>1. a \in MeasuredAgents /\ all[i].agent = a /\ all[i].metrics = Aggregate(h, tasks)
    <3>1. o[i] \in MeasuredAgents
      BY <1>4
    <3>2. all[i].agent = o[i] /\ all[i].metrics = Aggregate(h, of[o[i]])
      BY <1>2
    <3>3. of[o[i]] = mine(o[i])
      BY <1>1, <3>1
    <3> HIDE DEF mine
    <3> QED BY <3>1, <3>2, <3>3
  <2> HIDE DEF a
  <2>2. /\ one.metrics = Aggregate(h, tasks)
        /\ one.roles = Breakdown(h, tasks, "role") /\ one.operations = Breakdown(h, tasks, "operation")
        /\ one.trend = TrendSummary(h, tasks, day)
    BY <2>1, PageIs
  <2>3. tasks \subseteq DOMAIN h /\ IsFiniteSet(tasks)
    BY FS_Subset DEF Measured
  <2> HIDE DEF tasks, one
  <2>4. TasksOf(one.roles) = Cardinality(tasks) /\ TasksOf(one.operations) = Cardinality(tasks)
    BY <2>2, <2>3, KeysDivide
  <2>5. one.metrics.tasks = Cardinality(tasks)
    BY <2>2 DEF Aggregate
  <2>6. LET m == Aggregate(h, tasks)
            trend == TrendSummary(h, tasks, day) IN
        /\ \A k \in Recent : LET late == trend.recent[k].first IN
             /\ late.total = Min({k, m.qualifying})
             /\ late.successes =< m.first.successes
             /\ m.qualifying =< k => late.successes = m.first.successes
        /\ trend.current.first.total + trend.previous.first.total =< m.qualifying
    BY <2>3, TrendOf
  <2>7. one = EvaluateAgent(h, all[i].agent, "all_time", day)
    BY <2>1 DEF one
  <2> QED BY <2>1, <2>2, <2>4, <2>5, <2>6, <2>7
<1> QED BY <1>5, <1>6, <1>7 DEF AgentsAddUp, all

LEMMA WindowsOfHistory ==
  ASSUME NEW h, Measured(h), day \in Nat
  PROVE  WindowsNest(h)
<1> DEFINE all == DOMAIN h
           quality == Qualifying(h, all)
<1>1. /\ day - Week \in Int /\ day - 2 * Week \in Int /\ day - Month =< day - Week
      /\ day - 2 * Week =< day - Week
  BY EvalConstants
<1>2. \A t \in all : h[t].started \in Nat
  BY DEF Measured
<1>3. /\ Since("all_time", day) = 0 /\ Since("last_30_days", day) = day - Month
      /\ Since("last_7_days", day) = day - Week
  BY DEF Since
<1>4. InWindow(h, "last_7_days", day) \subseteq InWindow(h, "last_30_days", day)
  BY <1>1, <1>2, <1>3, EvalConstants DEF InWindow
<1>5. InWindow(h, "last_30_days", day) \subseteq InWindow(h, "all_time", day)
  BY <1>2, <1>3 DEF InWindow
<1>6. quality \subseteq all
  BY DEF Qualifying
<1>7. ThisWeek(h, all, day) \cap WeekBefore(h, all, day) = {}
  BY <1>1, <1>2 DEF ThisWeek, WeekBefore, Qualifying
<1>8. ThisWeek(h, all, day) \cup WeekBefore(h, all, day)
        = {t \in quality : h[t].started >= day - 2 * Week}
  <2>1. \A t \in quality : /\ h[t].started >= day - Week => h[t].started >= day - 2 * Week
                           /\ h[t].started < day - Week \/ h[t].started >= day - Week
    BY <1>1, <1>2, <1>6
  <2> QED BY <2>1 DEF ThisWeek, WeekBefore
<1>9. \A n \in Recent \cup {1} : \A t \in Latest(h, all, n), u \in quality \ Latest(h, all, n) :
        h[t].started >= h[u].started
  <2>1. \A n \in Recent \cup {1} : n \in Nat
    BY DEF Recent
  <2> QED BY <2>1, LatestIs
<1> QED BY <1>4, <1>5, <1>7, <1>8, <1>9 DEF WindowsNest

-----------------------------------------------------------------------------
(* The last of a sequence replaced, the way an attempt ends.               *)
LEMMA LastExchanged ==
  ASSUME NEW S, NEW s \in Seq(S), s # <<>>, NEW v \in S
  PROVE  LET r == Append(Front(s), v) IN
         /\ r \in Seq(S) /\ Len(r) = Len(s) /\ r[Len(s)] = v /\ Len(s) \in Nat \ {0}
         /\ Last(s) = s[Len(s)] /\ Last(s) \in S
         /\ \A i \in DOMAIN s : i # Len(s) => r[i] = s[i]
<1> DEFINE n == Len(s)
           f == Front(s)
<1>1. n \in Nat /\ n # 0 /\ DOMAIN s = 1 .. n /\ \A i \in 1 .. n : s[i] \in S
  OBVIOUS
<1>2. f = SubSeq(s, 1, n - 1)
  BY DEF Front
<1>3. f \in Seq(S) /\ Len(f) = n - 1 /\ \A i \in 1 .. n - 1 : f[i] = s[i]
  BY <1>1, <1>2
<1>4. Last(s) = s[n]
  BY DEF Last
<1> HIDE DEF f, n
<1>5. Append(f, v) \in Seq(S) /\ Len(Append(f, v)) = n /\ Append(f, v)[n] = v
      /\ \A i \in 1 .. n - 1 : Append(f, v)[i] = f[i]
  BY <1>1, <1>3
<1> QED BY <1>1, <1>3, <1>4, <1>5 DEF f, n

(* The levels of a lookup: each asks for no more than the one before.      *)
Widens(levels) ==
  \A i, j \in DOMAIN levels : i < j => \A f \in {"agent", "role", "operation", "language"} :
    levels[j][f] \in {Anything, levels[i][f]}
Enough(i) == Samples(Now, lookup.levels[i]) >= MinReliable

(* What an undisturbed lookup has established of the levels it has passed. *)
LookupInv ==
  /\ lookup \in [pc : {"rest", "level", "answered"}, agent : MeasuredAgents \cup {Anything},
                 levels : Seq(Levels), at : Nat, samples : Nat \cup {Missing}, quiet : BOOLEAN]
  /\ Widens(lookup.levels)
  /\ lookup.pc = "rest" => lookup.at = 1
  /\ lookup.pc # "rest" => lookup.at \in DOMAIN lookup.levels
  /\ lookup.pc = "level" /\ lookup.quiet => \A i \in 1 .. lookup.at - 1 : ~Enough(i)
  /\ lookup.pc = "answered" =>
       /\ lookup.samples # Missing => lookup.samples >= MinReliable
       /\ lookup.quiet => \A i \in 1 .. lookup.at :
            Enough(i) <=> (i = lookup.at /\ lookup.samples # Missing)

LEMMA SamplesCount ==
  ASSUME NEW h, Measured(h), NEW p, NEW q,
         \A f \in {"agent", "role", "operation", "language"} : q[f] \in {Anything, p[f]}
  PROVE  /\ Samples(h, p) \in Nat /\ Samples(h, q) \in Nat
         /\ Samples(h, p) =< Samples(h, q)
<1> DEFINE P == Qualifying(h, Slice(h, DOMAIN h, p))
           Q == Qualifying(h, Slice(h, DOMAIN h, q))
<1>1. \A r : RecordMatches(r, p) => RecordMatches(r, q)
  BY DEF RecordMatches
<1>2. P \subseteq Q /\ Q \subseteq DOMAIN h
  BY <1>1 DEF Qualifying, Slice
<1>3. Samples(h, p) = Cardinality(P) /\ Samples(h, q) = Cardinality(Q)
  BY DEF Samples
<1> HIDE DEF P, Q
<1>4. IsFiniteSet(Q)
  BY <1>2, FS_Subset DEF Measured
<1>5. IsFiniteSet(P) /\ Cardinality(P) =< Cardinality(Q)
  BY <1>2, <1>4, FS_Subset
<1>6. Cardinality(P) \in Nat /\ Cardinality(Q) \in Nat
  BY <1>4, <1>5, FS_CardinalityType
<1> QED BY <1>3, <1>5, <1>6

LEMMA SamplesAre ==
  ASSUME NEW h, Measured(h), NEW p
  PROVE  Samples(h, p) \in Nat
BY SamplesCount

LEMMA ConsThree ==
  ASSUME NEW a, NEW b, NEW c, NEW d
  PROVE  <<a>> \o <<b, c, d>> = <<a, b, c, d>>
<1> DEFINE S == {a, b, c, d}
           s == <<a>>
           u == <<b, c, d>>
           r == s \o u
<1>1. s \in Seq(S) /\ u \in Seq(S) /\ Len(s) = 1 /\ Len(u) = 3
      /\ s[1] = a /\ u[1] = b /\ u[2] = c /\ u[3] = d
  OBVIOUS
<1> HIDE DEF S, s, u
<1>2. /\ s \o u \in Seq(S) /\ Len(s \o u) = Len(s) + Len(u)
      /\ \A i \in 1 .. Len(s) + Len(u) : (s \o u)[i] = IF i =< Len(s) THEN s[i] ELSE u[i - Len(s)]
  BY <1>1, ConcatProperties
<1> HIDE DEF r
<1>3. r \in Seq(S) /\ Len(r) = 4 /\ r[1] = a /\ r[2] = b /\ r[3] = c /\ r[4] = d
  BY <1>1, <1>2 DEF r
<1>4. r = <<a, b, c, d>>
  BY <1>3
<1> QED BY <1>4 DEF r, s, u

LEMMA LevelsWiden ==
  ASSUME NEW q \in Questions
  PROVE  LET levels == LevelsFor(q.agent, About[q.task].role, About[q.task].operation, q.language) IN
         levels \in Seq(Levels) /\ levels # <<>> /\ Widens(levels)
<1> DEFINE a == q.agent
           r == About[q.task].role
           o == About[q.task].operation
           l == q.language
           at(r0, o0, l0) == [agent |-> a, role |-> r0, operation |-> o0, language |-> l0]
           levels == LevelsFor(a, r, o, l)
           known == <<at(r, o, Anything), at(r, Anything, Anything), at(Anything, Anything, Anything)>>
<1>1. /\ a \in MeasuredAgents /\ l \in {p.language : p \in Questions}
      /\ r \in {About[t].role : t \in MeasuredTasks} /\ o \in {About[t].operation : t \in MeasuredTasks}
  BY EvalConstants
<1>2. ASSUME NEW r0, NEW o0, NEW l0
      PROVE  at(r0, o0, l0) = [agent |-> a, role |-> r0, operation |-> o0, language |-> l0]
  OBVIOUS
<1>3. levels = IF l = Anything THEN known ELSE <<at(r, o, l)>> \o known
  BY DEF LevelsFor
<1> HIDE DEF at, levels, a, r, o, l
<1>4. /\ at(r, o, l) \in Levels /\ at(r, o, Anything) \in Levels /\ at(r, Anything, Anything) \in Levels
      /\ at(Anything, Anything, Anything) \in Levels
  BY <1>1, <1>2 DEF Levels
<1>5. known \in Seq(Levels) /\ <<at(r, o, l)>> \in Seq(Levels)
  BY <1>4
<1>6. CASE l = Anything
  <2>1. levels = known
    BY <1>3, <1>6
  <2>2. Widens(known)
    BY <1>2 DEF Widens
  <2> QED BY <1>5, <2>1, <2>2 DEF levels, a, r, o, l
<1>7. CASE l # Anything
  <2>1. levels = <<at(r, o, l), at(r, o, Anything), at(r, Anything, Anything),
                   at(Anything, Anything, Anything)>>
    <3> DEFINE p1 == at(r, o, Anything)
               p2 == at(r, Anything, Anything)
               p3 == at(Anything, Anything, Anything)
               p4 == at(r, o, l)
    <3>1. levels = <<p4>> \o <<p1, p2, p3>>
      BY <1>3, <1>7
    <3> HIDE DEF p1, p2, p3, p4
    <3>2. <<p4>> \o <<p1, p2, p3>> = <<p4, p1, p2, p3>>
      BY ConsThree
    <3> QED BY <3>1, <3>2 DEF p1, p2, p3, p4
  <2>2. levels \in Seq(Levels) /\ levels # <<>>
    BY <1>4, <2>1
  <2>3. Widens(levels)
    BY <1>2, <2>1 DEF Widens
  <2> QED BY <2>2, <2>3 DEF levels, a, r, o, l
<1> QED BY <1>6, <1>7

-----------------------------------------------------------------------------
EvalInv == EvalTypeOK /\ LookupInv

LEMMA EvalStarts == EvalInit => EvalInv
<1> SUFFICES ASSUME EvalInit PROVE EvalInv
  OBVIOUS
<1>1. \A t \in MeasuredTasks : past[t] = <<>> /\ landings[t] = <<>>
  BY DEF EvalInit
<1>2. \A t \in MeasuredTasks : OneByOne(past[t], landings[t])
  BY <1>1 DEF OneByOne
<1>3. past \in [MeasuredTasks -> Seq(Tried)] /\ landings \in [MeasuredTasks -> Seq(HowLanded)]
  BY DEF EvalInit
<1>4. day \in 0 .. MaxDay /\ lookup = AtRest
  BY EvalConstants DEF EvalInit
<1>5. EvalTypeOK
  BY <1>2, <1>3, <1>4 DEF EvalTypeOK, AtRest
<1>6. LookupInv
  <2>1. lookup = [pc |-> "rest", agent |-> Anything, levels |-> <<>>, at |-> 1, samples |-> Missing, quiet |-> TRUE]
    BY <1>4 DEF AtRest
  <2>2. Widens(<<>>)
    BY DEF Widens
  <2> QED BY <2>1, <2>2 DEF LookupInv, Missing
<1> QED BY <1>5, <1>6 DEF EvalInv

(* What is left of LookupInv once someone has changed the history.         *)
LEMMA Disturbed ==
  ASSUME LookupInv, Noticed
  PROVE  /\ LookupInv'
         /\ lookup'.pc = lookup.pc /\ lookup'.levels = lookup.levels /\ lookup'.at = lookup.at
         /\ lookup'.quiet = FALSE
BY DEF LookupInv, Noticed

LEMMA Undisturbed ==
  ASSUME LookupInv, past' = past, landings' = landings, lookup' = lookup
  PROVE  LookupInv'
BY DEF LookupInv, Enough, Now

LEMMA BeginKeeps ==
  ASSUME EvalInv, NEW t \in MeasuredTasks, NEW a \in MeasuredAgents, BeginsAttempt(t, a)
  PROVE  EvalInv'
<1> DEFINE s == past[t]
           v == [agent |-> a, status |-> "running", cause |-> "none",
                 from |-> day, to |-> Missing, sessions |-> <<>>]
           r == Append(s, v)
<1>1. past' = [past EXCEPT ![t] = r] /\ landings' = landings /\ day' = day
      /\ (s # <<>> => ~IsOpen(Last(s)))
  BY DEF BeginsAttempt
<1>2. past \in [MeasuredTasks -> Seq(Tried)] /\ OneByOne(s, landings[t]) /\ day \in 0 .. MaxDay
  BY DEF EvalInv, EvalTypeOK
<1>3. v \in Tried
  BY <1>2, EvalConstants DEF Tried
<1>4. s \in Seq(Tried)
  BY <1>2
<1> HIDE DEF v, s
<1>5. r \in Seq(Tried) /\ Len(r) = Len(s) + 1 /\ r[Len(s) + 1] = v /\ Len(s) \in Nat
      /\ DOMAIN r = 1 .. Len(s) + 1 /\ DOMAIN s = 1 .. Len(s)
      /\ \A i \in 1 .. Len(s) : r[i] = s[i]
  BY <1>3, <1>4
<1> HIDE DEF r
<1>6. \A i \in DOMAIN s : ~IsOpen(s[i])
  <2>1. \A i \in DOMAIN s : IsOpen(s[i]) => i = Len(s)
    BY <1>2 DEF OneByOne
  <2>2. s # <<>> => Last(s) = s[Len(s)]
    BY DEF Last
  <2>3. \A i \in DOMAIN s : s # <<>>
    BY <1>5
  <2> QED BY <1>1, <2>1, <2>2, <2>3
<1>7. OneByOne(r, landings[t])
  <2>1. Len(landings[t]) =< Len(s) /\ Len(landings[t]) \in Nat
    BY <1>2 DEF OneByOne, EvalInv, EvalTypeOK
  <2>2. Len(landings[t]) =< Len(r)
    BY <1>5, <2>1
  <2>3. ASSUME NEW i \in DOMAIN r
        PROVE  /\ IsOpen(r[i]) => i = Len(r)
               /\ r[i].status = "failed" => r[i].cause \in FailureCauses
    <3>1. CASE i = Len(s) + 1
      BY <1>5, <3>1 DEF v
    <3>2. CASE i \in 1 .. Len(s)
      BY <1>2, <1>5, <1>6, <3>2 DEF OneByOne
    <3> QED BY <1>5, <2>3, <3>1, <3>2
  <2> QED BY <2>2, <2>3 DEF OneByOne
<1>8. past' \in [MeasuredTasks -> Seq(Tried)] /\ past'[t] = r
      /\ \A u \in MeasuredTasks : u # t => past'[u] = past[u]
  BY <1>1, <1>2, <1>5
<1>9. \A u \in MeasuredTasks : OneByOne(past'[u], landings'[u])
  BY <1>1, <1>7, <1>8 DEF EvalInv, EvalTypeOK
<1>10. Noticed
  BY DEF BeginsAttempt
<1>11. LookupInv' /\ lookup'.pc = lookup.pc /\ lookup'.levels = lookup.levels /\ lookup'.at = lookup.at
       /\ lookup'.quiet = FALSE
  BY <1>10, Disturbed DEF EvalInv
<1> QED BY <1>1, <1>8, <1>9, <1>11 DEF EvalInv, EvalTypeOK

(* A step that only replaces the last attempt of a task.                   *)
LEMMA LastKeeps ==
  ASSUME EvalInv, NEW t \in MeasuredTasks, past[t] # <<>>, NEW v \in Tried,
         past' = [past EXCEPT ![t] = Append(Front(past[t]), v)],
         v.status = "failed" => v.cause \in FailureCauses,
         landings' \in [MeasuredTasks -> Seq(HowLanded)], Len(landings'[t]) =< Len(past[t]),
         \A u \in MeasuredTasks : u # t => landings'[u] = landings[u],
         day' = day, Noticed
  PROVE  EvalInv'
<1> DEFINE s == past[t]
           r == Append(Front(s), v)
<1>1. past \in [MeasuredTasks -> Seq(Tried)] /\ OneByOne(s, landings[t])
  BY DEF EvalInv, EvalTypeOK
<1>2. s \in Seq(Tried)
  BY <1>1
<1>3. /\ r \in Seq(Tried) /\ Len(r) = Len(s) /\ r[Len(s)] = v /\ Len(s) \in Nat \ {0}
      /\ \A i \in DOMAIN s : i # Len(s) => r[i] = s[i]
  <2>1. s # <<>> /\ v \in Tried
    OBVIOUS
  <2> DEFINE T == Tried
  <2>2. s \in Seq(T) /\ v \in T
    BY <1>2
  <2> HIDE DEF s, T
  <2>3. /\ r \in Seq(T) /\ Len(r) = Len(s) /\ r[Len(s)] = v /\ Len(s) \in Nat \ {0}
        /\ \A i \in DOMAIN s : i # Len(s) => r[i] = s[i]
    BY ONLY <2>1, <2>2, LastExchanged
  <2> QED BY <2>3 DEF T
<1>4. past' \in [MeasuredTasks -> Seq(Tried)] /\ past'[t] = r
      /\ \A u \in MeasuredTasks : u # t => past'[u] = past[u]
  <2> HIDE DEF r
  <2> QED BY <1>1, <1>3 DEF r
<1> HIDE DEF r
<1>5. OneByOne(r, landings'[t])
  <2> HIDE DEF s
  <2>1. DOMAIN r = 1 .. Len(s) /\ DOMAIN s = 1 .. Len(s)
    BY <1>2, <1>3
  <2>2. ASSUME NEW i \in DOMAIN r
        PROVE  /\ IsOpen(r[i]) => i = Len(r)
               /\ r[i].status = "failed" => r[i].cause \in FailureCauses
    <3>1. CASE i = Len(s)
      BY <1>3, <3>1
    <3>2. CASE i # Len(s)
      BY <1>1, <1>3, <2>1, <3>2 DEF OneByOne
    <3> QED BY <3>1, <3>2
  <2> QED BY <1>3, <2>2 DEF OneByOne, s
<1>6. \A u \in MeasuredTasks : OneByOne(past'[u], landings'[u])
  BY <1>4, <1>5 DEF EvalInv, EvalTypeOK
<1>7. LookupInv' /\ lookup'.pc = lookup.pc /\ lookup'.levels = lookup.levels /\ lookup'.at = lookup.at
      /\ lookup'.quiet = FALSE
  BY Disturbed DEF EvalInv
<1> QED BY <1>4, <1>6, <1>7 DEF EvalInv, EvalTypeOK

LEMMA EndKeeps ==
  ASSUME EvalInv, NEW t \in MeasuredTasks, NEW e \in Endings, EndsAttempt(t, e)
  PROVE  EvalInv'
<1> DEFINE s == past[t]
           v == [Last(s) EXCEPT !.status = e.status, !.cause = e.cause, !.to = day,
                   !.sessions = e.sessions]
<1>1. s # <<>> /\ past' = [past EXCEPT ![t] = Append(Front(s), v)] /\ landings' = landings
      /\ day' = day /\ Noticed
  BY DEF EndsAttempt
<1>2. past \in [MeasuredTasks -> Seq(Tried)] /\ day \in Nat
  BY EvalConstants DEF EvalInv, EvalTypeOK
<1>3. Last(s) \in Tried
  BY <1>1, <1>2, LastExchanged
<1>4. /\ e.status \in EndedStatuses /\ e.sessions \in Seq(Timed)
      /\ e.cause \in IF e.status = "failed" THEN FailureCauses ELSE {"none"}
  BY EvalConstants
<1> DEFINE z == Last(s)
<1> HIDE DEF s, z
<1>5. v = [z EXCEPT !.status = e.status, !.cause = e.cause, !.to = day, !.sessions = e.sessions]
  BY DEF z
<1>6. v \in Tried /\ v.status = e.status /\ v.cause = e.cause
  BY <1>2, <1>3, <1>4, <1>5 DEF Tried, z
<1> HIDE DEF v
<1>7. /\ landings' \in [MeasuredTasks -> Seq(HowLanded)] /\ Len(landings'[t]) =< Len(s)
      /\ \A u \in MeasuredTasks : u # t => landings'[u] = landings[u]
  BY <1>1 DEF EvalInv, EvalTypeOK, OneByOne, s
<1>8. v.status = "failed" => v.cause \in FailureCauses
  BY <1>4, <1>6
<1> QED BY <1>1, <1>6, <1>7, <1>8, LastKeeps DEF s

LEMMA LandKeeps ==
  ASSUME EvalInv, NEW t \in MeasuredTasks, NEW k \in HowLanded, Lands(t, k)
  PROVE  EvalInv'
<1> DEFINE s == past[t]
           v == [Last(s) EXCEPT !.status = "reviewing"]
<1>1. s # <<>> /\ past' = [past EXCEPT ![t] = Append(Front(s), v)]
      /\ landings' = [landings EXCEPT ![t] = Append(landings[t], k)]
      /\ Len(landings[t]) < Len(s) /\ day' = day /\ Noticed
  BY DEF Lands
<1>2. past \in [MeasuredTasks -> Seq(Tried)] /\ landings \in [MeasuredTasks -> Seq(HowLanded)]
  BY DEF EvalInv, EvalTypeOK
<1>3. Last(s) \in Tried
  BY <1>1, <1>2, LastExchanged
<1> DEFINE z == Last(s)
           l == landings[t]
<1>4. l \in Seq(HowLanded) /\ s \in Seq(Tried)
  BY <1>2
<1> HIDE DEF s, z, l
<1>5. v = [z EXCEPT !.status = "reviewing"]
  BY DEF z
<1>6. v \in Tried /\ v.status = "reviewing"
  BY <1>3, <1>5 DEF Tried, z
<1> HIDE DEF v
<1>7. Append(l, k) \in Seq(HowLanded) /\ Len(Append(l, k)) = Len(l) + 1 /\ Len(l) \in Nat /\ Len(s) \in Nat
  BY <1>4
<1>8. /\ landings' \in [MeasuredTasks -> Seq(HowLanded)] /\ landings'[t] = Append(l, k)
      /\ \A u \in MeasuredTasks : u # t => landings'[u] = landings[u]
  BY <1>1, <1>2, <1>7 DEF l
<1>9. Len(landings'[t]) =< Len(s)
  BY <1>1, <1>7, <1>8 DEF l
<1> QED BY <1>1, <1>6, <1>8, <1>9, LastKeeps DEF s

LEMMA LookUpKeeps ==
  ASSUME EvalInv, NEW q \in Questions, LookUp(q.agent, q.task, q.language)
  PROVE  EvalInv'
<1> DEFINE levels == LevelsFor(q.agent, About[q.task].role, About[q.task].operation, q.language)
<1>1. levels \in Seq(Levels) /\ levels # <<>> /\ Widens(levels)
  BY LevelsWiden
<1>2. /\ lookup.pc = "rest" /\ past' = past /\ landings' = landings /\ day' = day
      /\ lookup' = [lookup EXCEPT !.pc = "level", !.agent = q.agent, !.quiet = TRUE, !.levels = levels]
  BY DEF LookUp
<1>3. q.agent \in MeasuredAgents
  BY EvalConstants
<1> HIDE DEF levels
<1>4. /\ lookup \in [pc : {"rest", "level", "answered"}, agent : MeasuredAgents \cup {Anything},
                     levels : Seq(Levels), at : Nat, samples : Nat \cup {Missing}, quiet : BOOLEAN]
      /\ lookup.at = 1
  BY <1>2 DEF EvalInv, LookupInv
<1>5. /\ lookup' \in [pc : {"rest", "level", "answered"}, agent : MeasuredAgents \cup {Anything},
                      levels : Seq(Levels), at : Nat, samples : Nat \cup {Missing}, quiet : BOOLEAN]
      /\ lookup'.at = 1 /\ lookup'.levels = levels /\ lookup'.pc = "level" /\ lookup'.quiet
  BY <1>1, <1>2, <1>3, <1>4
<1>6. 1 \in DOMAIN levels
  BY <1>1
<1>7. \A i \in 1 .. lookup'.at - 1 : FALSE
  BY <1>5
<1>8. LookupInv'
  BY <1>1, <1>5, <1>6, <1>7 DEF LookupInv
<1>9. EvalTypeOK'
  BY <1>1, <1>2, <1>5, <1>6 DEF EvalInv, EvalTypeOK
<1> QED BY <1>8, <1>9 DEF EvalInv

LEMMA LoadKeeps ==
  ASSUME EvalInv, LoadLevel
  PROVE  EvalInv'
<1> DEFINE n == Samples(Now, lookup.levels[lookup.at])
           enough == Rate(0, n).reliable
           last == lookup.at = Len(lookup.levels)
<1>1. /\ lookup.pc = "level" /\ past' = past /\ landings' = landings /\ day' = day
      /\ lookup' = [lookup EXCEPT !.pc = IF enough \/ last THEN "answered" ELSE "level",
                      !.at = IF enough \/ last THEN lookup.at ELSE lookup.at + 1,
                      !.samples = IF enough THEN n ELSE Missing]
  BY DEF LoadLevel
<1>2. n \in Nat
  BY HistoryIsMeasured, SamplesAre DEF EvalInv
<1>3. enough <=> n >= MinReliable
  BY DEF Rate
<1>4. enough <=> Enough(lookup.at)
  BY <1>3 DEF Enough
<1>5. Now' = Now
  BY <1>1 DEF Now
<1> HIDE DEF n, enough, last
<1>6. /\ lookup \in [pc : {"rest", "level", "answered"}, agent : MeasuredAgents \cup {Anything},
                     levels : Seq(Levels), at : Nat, samples : Nat \cup {Missing}, quiet : BOOLEAN]
      /\ Widens(lookup.levels) /\ lookup.at \in DOMAIN lookup.levels
      /\ (lookup.quiet => \A i \in 1 .. lookup.at - 1 : ~Enough(i))
  BY <1>1 DEF EvalInv, LookupInv
<1> DEFINE pc == IF enough \/ last THEN "answered" ELSE "level"
           at == IF enough \/ last THEN lookup.at ELSE lookup.at + 1
           samples == IF enough THEN n ELSE Missing
<1>7a. pc \in {"rest", "level", "answered"} /\ at \in Nat /\ samples \in Nat \cup {Missing}
  BY <1>2, <1>6
<1>7b. lookup' = [lookup EXCEPT !.pc = pc, !.at = at, !.samples = samples]
  BY <1>1
<1> HIDE DEF pc, at, samples
<1>7. /\ lookup'.levels = lookup.levels /\ lookup'.quiet = lookup.quiet
      /\ lookup'.pc = (IF enough \/ last THEN "answered" ELSE "level")
      /\ lookup'.at = (IF enough \/ last THEN lookup.at ELSE lookup.at + 1)
      /\ lookup'.samples = (IF enough THEN n ELSE Missing)
      /\ lookup' \in [pc : {"rest", "level", "answered"}, agent : MeasuredAgents \cup {Anything},
                      levels : Seq(Levels), at : Nat, samples : Nat \cup {Missing}, quiet : BOOLEAN]
  <2>1. /\ lookup'.levels = lookup.levels /\ lookup'.quiet = lookup.quiet
        /\ lookup'.pc = pc /\ lookup'.at = at /\ lookup'.samples = samples
    BY <1>6, <1>7b
  <2>2. lookup' \in [pc : {"rest", "level", "answered"}, agent : MeasuredAgents \cup {Anything},
                     levels : Seq(Levels), at : Nat, samples : Nat \cup {Missing}, quiet : BOOLEAN]
    BY <1>6, <1>7a, <1>7b
  <2> QED BY <2>1, <2>2 DEF pc, at, samples
<1>8. \A i : Enough(i)' <=> Enough(i)
  BY <1>5, <1>7 DEF Enough
<1>9. lookup'.at \in DOMAIN lookup'.levels
  <2>1. lookup.levels \in Seq(Levels) /\ lookup.at \in Nat
    BY <1>6
  <2>2. DOMAIN lookup.levels = 1 .. Len(lookup.levels) /\ Len(lookup.levels) \in Nat
    BY <2>1
  <2>3. ~last => lookup.at + 1 \in DOMAIN lookup.levels
    BY <1>6, <2>1, <2>2 DEF last
  <2> QED BY <1>6, <1>7, <2>3
<1>10. lookup'.pc = "level" /\ lookup'.quiet => \A i \in 1 .. lookup'.at - 1 : ~Enough(i)'
  <2> SUFFICES ASSUME lookup'.pc = "level", lookup'.quiet, NEW i \in 1 .. lookup'.at - 1
               PROVE  ~Enough(i)
    BY <1>8
  <2>1. ~enough /\ ~last /\ lookup'.at = lookup.at + 1 /\ lookup.quiet
    BY <1>7
  <2>2. lookup.at \in Nat
    BY <1>6
  <2>3. i = lookup.at \/ i \in 1 .. lookup.at - 1
    BY <2>1, <2>2
  <2> QED BY <1>4, <1>6, <2>1, <2>3
<1>11. lookup'.pc = "answered" =>
         /\ lookup'.samples # Missing => lookup'.samples >= MinReliable
         /\ lookup'.quiet => \A i \in 1 .. lookup'.at :
              Enough(i)' <=> (i = lookup'.at /\ lookup'.samples # Missing)
  <2> SUFFICES ASSUME lookup'.pc = "answered"
               PROVE  /\ lookup'.samples # Missing => lookup'.samples >= MinReliable
                      /\ lookup'.quiet => \A i \in 1 .. lookup'.at :
                           Enough(i)' <=> (i = lookup'.at /\ lookup'.samples # Missing)
    OBVIOUS
  <2>1. lookup'.at = lookup.at
    BY <1>7
  <2>2. lookup'.samples # Missing <=> enough
    BY <1>2, <1>7 DEF Missing
  <2>3. lookup'.samples # Missing => lookup'.samples >= MinReliable
    BY <1>3, <1>7, <2>2 DEF enough
  <2>4. ASSUME lookup'.quiet, NEW i \in 1 .. lookup.at
        PROVE  Enough(i) <=> (i = lookup.at /\ enough)
    <3>1. lookup.at \in Nat /\ lookup.quiet
      BY <1>6, <1>7, <2>4
    <3>2. CASE i = lookup.at
      BY <1>4, <3>2
    <3>3. CASE i # lookup.at
      <4>1. i \in 1 .. lookup.at - 1
        BY <3>1, <3>3
      <4> QED BY <1>6, <3>1, <3>3, <4>1
    <3> QED BY <3>2, <3>3
  <2> QED BY <1>8, <2>1, <2>2, <2>3, <2>4
<1>12. lookup'.pc # "rest"
  BY <1>7
<1>13. LookupInv'
  BY <1>6, <1>7, <1>9, <1>10, <1>11, <1>12 DEF LookupInv
<1>14. EvalTypeOK'
  BY <1>1, <1>6, <1>7, <1>9, <1>12 DEF EvalInv, EvalTypeOK
<1> QED BY <1>13, <1>14 DEF EvalInv

LEMMA EvalStep == EvalInv /\ [EvalNext]_EvalVars => EvalInv'
<1> SUFFICES ASSUME EvalInv, [EvalNext]_EvalVars PROVE EvalInv'
  OBVIOUS
<1>1. ASSUME NEW t \in MeasuredTasks, NEW a \in MeasuredAgents, BeginsAttempt(t, a) PROVE EvalInv'
  BY <1>1, BeginKeeps
<1>2. ASSUME NEW t \in MeasuredTasks, NEW e \in Endings, EndsAttempt(t, e) PROVE EvalInv'
  BY <1>2, EndKeeps
<1>3. ASSUME NEW t \in MeasuredTasks, NEW k \in HowLanded, Lands(t, k) PROVE EvalInv'
  BY <1>3, LandKeeps
<1>4. ASSUME NEW q \in Questions, LookUp(q.agent, q.task, q.language) PROVE EvalInv'
  BY <1>4, LookUpKeeps
<1>5. CASE NextDay
  <2>1. past' = past /\ landings' = landings /\ lookup' = lookup /\ day' \in 0 .. MaxDay
    BY <1>5, EvalConstants DEF NextDay, EvalInv, EvalTypeOK
  <2>2. LookupInv'
    BY <2>1, Undisturbed DEF EvalInv
  <2> QED BY <2>1, <2>2 DEF EvalInv, EvalTypeOK
<1>6. CASE LoadLevel
  BY <1>6, LoadKeeps
<1>7. CASE UNCHANGED EvalVars
  <2>1. past' = past /\ landings' = landings /\ lookup' = lookup /\ day' = day
    BY <1>7 DEF EvalVars
  <2>2. LookupInv'
    BY <2>1, Undisturbed DEF EvalInv
  <2> QED BY <2>1, <2>2 DEF EvalInv, EvalTypeOK
<1> QED BY <1>1, <1>2, <1>3, <1>4, <1>5, <1>6, <1>7 DEF EvalNext

LEMMA EvalInvSound == EvalInv => MeasuresSound
<1> SUFFICES ASSUME EvalInv PROVE MeasuresSound
  OBVIOUS
<1>1. Measured(Now)
  BY HistoryIsMeasured DEF EvalInv
<1>2. day \in Nat
  BY EvalConstants DEF EvalInv, EvalTypeOK
<1>3. MetricsAddUp(Now) /\ AgentsAddUp(Now) /\ WindowsNest(Now)
  BY <1>1, <1>2, MetricsOfHistory, AgentsOfHistory, WindowsOfHistory
<1>4. ASSUME NEW i \in DOMAIN lookup.levels, NEW j \in DOMAIN lookup.levels, i < j, Enough(i)
      PROVE  Enough(j)
  <2>1. Widens(lookup.levels)
    BY DEF EvalInv, LookupInv
  <2>2. \A f \in {"agent", "role", "operation", "language"} :
          lookup.levels[j][f] \in {Anything, lookup.levels[i][f]}
    BY <1>4, <2>1 DEF Widens
  <2> DEFINE p == lookup.levels[i]
             q == lookup.levels[j]
  <2>3. /\ Samples(Now, p) \in Nat /\ Samples(Now, q) \in Nat
        /\ Samples(Now, p) =< Samples(Now, q)
    <3>1. \A f \in {"agent", "role", "operation", "language"} : q[f] \in {Anything, p[f]}
      BY <2>2
    <3> HIDE DEF p, q
    <3> QED BY <1>1, <3>1, SamplesCount
  <2>4. Samples(Now, p) >= MinReliable
    BY <1>4 DEF Enough
  <2>5. MinReliable \in Nat
    BY EvalConstants
  <2> HIDE DEF p, q
  <2>6. Samples(Now, q) >= MinReliable
    BY <2>3, <2>4, <2>5
  <2> QED BY <2>6 DEF Enough, q
<1>5. LookupIsHonest
  BY <1>4 DEF EvalInv, LookupInv, LookupIsHonest, Enough
<1> QED BY <1>3, <1>5 DEF MeasuresSound, EvalInv

(* Whatever the tasks, the agents, the ways an attempt may end, the        *)
(* thresholds and the windows are: every rate an agent is measured and     *)
(* chosen by counts the attempts of its tasks once, in the window and the  *)
(* slice it is asked for (the aggregates and tables of eval.rs, and        *)
(* resolve_performance's walk from the most specific slice to the widest). *)
THEOREM MeasuresAreSound == EvalSpec => []MeasuresSound
<1>1. EvalInit => EvalInv
  BY EvalStarts
<1>2. EvalInv /\ [EvalNext]_EvalVars => EvalInv'
  BY EvalStep
<1>3. EvalInv => MeasuresSound
  BY EvalInvSound
<1> QED BY <1>1, <1>2, <1>3, PTL DEF EvalSpec
=============================================================================
