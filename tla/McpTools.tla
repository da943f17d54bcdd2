------------------------------ MODULE McpTools ------------------------------
(***************************************************************************)
(* External tools: one MCP server, the grant of one agent session, and the *)
(* `factory mcp call` processes the agent starts with it.  Every process   *)
(* opens the database for each statement, so a step here is one statement  *)
(* (or one transaction) of factory-db, or the end of one wait on the       *)
(* server.  The concurrency lease is a row of the database that nobody     *)
(* owns: a count and the time it was last changed.                         *)
(*                                                                         *)
(* Time passes in Tick.  The waits of a call are bounded by the two        *)
(* timeouts of the server's configuration: DiscoveryTimeout for a          *)
(* connection (and for a whole discovery), CallTimeout for the queue, for  *)
(* listing the tools and for the tool itself.                              *)
(***************************************************************************)
EXTENDS Naturals, FiniteSets

CONSTANTS Calls,             \* the processes `factory mcp call`
          Tools,             \* the names of tools
          Exposures,         \* what the server may expose
          Permits,           \* what a policy may permit
          MaxConcurrency, CallTimeout, DiscoveryTimeout

ASSUME McpConstants ==
  /\ IsFiniteSet(Calls) /\ Tools # {}
  /\ Exposures \cup Permits \subseteq SUBSET Tools
  /\ {MaxConcurrency, CallTimeout, DiscoveryTimeout} \subseteq Nat \ {0}

VARIABLES grant,     \* [state, tools]: the row of tool_grants
          catalog,   \* the tools cached in mcp_tools
          slots,     \* active_calls, or NoRow
          age,       \* time since updated_at of the lease row
          call,      \* the processes
          audit,     \* status of the row each of them has in tool_invocations
          forgot     \* history: the lease row was reset or removed under a live call
McpVars == <<grant, catalog, slots, age, call, audit, forgot>>

NoRow == MaxConcurrency + 1
StaleAge == 2 * CallTimeout
Failures == {"timeout", "server_unavailable", "invalid_schema", "protocol_error",
             "permission_denied", "tool_failure"}
Statuses == {"none", "running", "success", "cancelled"} \cup Failures

(* Where a process is: it has read the grant (asked), owns an audit row    *)
(* (started), waits for a discovery, is to be checked against the policy,  *)
(* waits for a slot, has one and waits for the connection, the catalogue   *)
(* and the tool, has recorded the result with the slot still taken, has    *)
(* given the slot back, is done; or it was killed.                         *)
Idle == [pc |-> "idle", tool |-> CHOOSE t \in Tools : TRUE, left |-> 0, held |-> 0, stale |-> FALSE]
Waits == {"discover", "queue", "connect", "list", "invoke"}
HoldingPC == {"connect", "list", "invoke", "recorded"}
Holders == {c \in Calls : call[c].pc \in HoldingPC}

McpTypeOK ==
  /\ grant \in [state : {"none", "active", "revoked"}, tools : SUBSET Tools]
  /\ catalog \in SUBSET Tools
  /\ slots \in 0 .. NoRow
  /\ age \in 0 .. StaleAge + 1
  /\ call \in [Calls -> [pc : {"idle", "asked", "started", "check", "leaving", "done", "killed"}
                                \cup Waits \cup HoldingPC,
                         tool : Tools, left : Nat, held : Nat, stale : BOOLEAN]]
  /\ audit \in [Calls -> Statuses]
  /\ forgot \in BOOLEAN

McpInit ==
  /\ grant = [state |-> "none", tools |-> {}]
  /\ catalog = {} /\ slots = NoRow /\ age = 0
  /\ call = [c \in Calls |-> Idle]
  /\ audit = [c \in Calls |-> "none"]
  /\ forgot = FALSE

-----------------------------------------------------------------------------
(* The session of the agent: the catalogue its policy permits is frozen in *)
(* the grant, which is revoked when the agent's process has ended.         *)
CreateGrant(permitted) ==
  /\ grant.state = "none"
  /\ catalog \cap permitted # {}
  /\ grant' = [state |-> "active", tools |-> catalog \cap permitted]
  /\ UNCHANGED <<catalog, slots, age, call, audit, forgot>>

RevokeGrant ==
  /\ grant.state = "active"
  /\ grant' = [grant EXCEPT !.state = "revoked"]
  /\ UNCHANGED <<catalog, slots, age, call, audit, forgot>>

(* The catalogue is replaced as a whole by what the server exposes now.    *)
Rediscover(exposed) ==
  /\ catalog' = exposed
  /\ UNCHANGED <<grant, slots, age, call, audit, forgot>>

(* An edit of the server in the settings forgets its catalogue and lease.  *)
RemoveServerCache ==
  /\ catalog' = {} /\ slots' = NoRow /\ age' = 0
  /\ forgot' = (forgot \/ Holders # {})
  /\ UNCHANGED <<grant, call, audit>>

-----------------------------------------------------------------------------
Goto(c, pc, left) == call' = [call EXCEPT ![c].pc = pc, ![c].left = left]

(* A call names a tool and finds the grant of its token; an inactive grant *)
(* or a tool outside it is recorded as a refusal and nothing else happens. *)
Ask(c, t) ==
  /\ call[c].pc = "idle" /\ grant.state # "none"
  /\ LET granted == grant.state = "active" /\ t \in grant.tools IN
       /\ call' = [call EXCEPT ![c] = [Idle EXCEPT !.tool = t,
                                                   !.pc = IF granted THEN "asked" ELSE "done"]]
       /\ audit' = [audit EXCEPT ![c] = IF granted THEN "none" ELSE "permission_denied"]
  /\ UNCHANGED <<grant, catalog, slots, age, forgot>>

StartInvocation(c) ==
  /\ call[c].pc = "asked"
  /\ Goto(c, "started", 0)
  /\ audit' = [audit EXCEPT ![c] = "running"]
  /\ UNCHANGED <<grant, catalog, slots, age, forgot>>

(* finish_tool_invocation: only a row still running gets a result.         *)
\* Mutant: the last one to finish decides.
FinishedAnyway(c, status) == audit' = [audit EXCEPT ![c] = status]
Finished(c, status) ==
  audit' = [audit EXCEPT ![c] = IF audit[c] = "running" THEN status ELSE audit[c]]

Fail(c, status) == Goto(c, "leaving", 0) /\ Finished(c, status)

(* The server may have left the configuration the process has loaded; the  *)
(* tool is looked up in the cache, and discovered when it is not there.    *)
EnsureTool(c) ==
  /\ call[c].pc = "started"
  /\ \/ Fail(c, "server_unavailable")
     \/ call[c].tool \in catalog /\ Goto(c, "check", 0) /\ UNCHANGED audit
     \/ call[c].tool \notin catalog /\ Goto(c, "discover", DiscoveryTimeout) /\ UNCHANGED audit
  /\ UNCHANGED <<grant, catalog, slots, age, forgot>>

DiscoveryEnds(c, exposed) ==
  /\ call[c].pc = "discover"
  /\ catalog' = exposed
  /\ IF call[c].tool \in exposed THEN Goto(c, "check", 0) /\ UNCHANGED audit
                                 ELSE Fail(c, "invalid_schema")
  /\ UNCHANGED <<grant, slots, age, forgot>>

(* The policy of the configuration is asked again, after the discovery.    *)
CheckPolicy(c) ==
  /\ call[c].pc = "check"
  /\ \/ Fail(c, "permission_denied") /\ UNCHANGED <<grant, catalog, slots, age, forgot>>
     \/ /\ call' = [call EXCEPT ![c].pc = "queue", ![c].left = CallTimeout,
                                ![c].stale = (age > StaleAge)]
        /\ UNCHANGED <<grant, catalog, slots, age, audit, forgot>>

-----------------------------------------------------------------------------
(* The lease.  What counts as stale was fixed when the call entered the    *)
(* queue, so any later change of the row makes it fresh for everyone.      *)
Row == IF slots = NoRow THEN 0 ELSE slots
Resets(c) == slots # NoRow /\ call[c].stale
Count(c) == IF Resets(c) THEN 0 ELSE Row
\* Mutant: one call more than the limit.
RoomForOneMore(c) == Count(c) =< MaxConcurrency
HasRoom(c) == Count(c) < MaxConcurrency
Refresh(calls) == [d \in Calls |-> [calls[d] EXCEPT !.stale = FALSE]]

Acquire(c) ==
  /\ call[c].pc = "queue" /\ HasRoom(c)
  /\ slots' = Count(c) + 1 /\ age' = 0
  /\ call' = Refresh([call EXCEPT ![c].pc = "connect", ![c].left = DiscoveryTimeout,
                                  ![c].held = 0])
  /\ forgot' = (forgot \/ (Resets(c) /\ Holders # {}))
  /\ UNCHANGED <<grant, catalog, audit>>

QueueTimesOut(c) ==
  /\ call[c].pc = "queue" /\ call[c].left = 0 /\ ~HasRoom(c)
  /\ Fail(c, "timeout")
  /\ UNCHANGED <<grant, catalog, slots, age, forgot>>

(* Dropping the lease gives the slot back, whoever it was counted for.     *)
Release(c) ==
  /\ call[c].pc = "recorded"
  /\ slots' = IF slots \in {0, NoRow} THEN slots ELSE slots - 1
  /\ age' = IF slots = NoRow THEN age ELSE 0
  /\ call' = (IF slots = NoRow THEN [call EXCEPT ![c].pc = "leaving"]
                               ELSE Refresh([call EXCEPT ![c].pc = "leaving"]))
  /\ UNCHANGED <<grant, catalog, audit, forgot>>

-----------------------------------------------------------------------------
(* The call itself: connect, list the tools, find and call the tool.       *)
Following == [connect |-> "list", list |-> "invoke"]
ServerAnswers(c) ==
  /\ call[c].pc \in {"connect", "list"}
  /\ Goto(c, Following[call[c].pc], CallTimeout)
  /\ UNCHANGED <<grant, catalog, slots, age, audit, forgot>>

Recorded(c, status) ==
  /\ Goto(c, "recorded", 0) /\ Finished(c, status)
  /\ UNCHANGED <<grant, catalog, slots, age, forgot>>

ToolSucceeds(c) == call[c].pc = "invoke" /\ Recorded(c, "success")
CallFails(c, status) == call[c].pc \in {"connect", "list", "invoke"} /\ Recorded(c, status)
CallTimesOut(c) ==
  /\ call[c].pc \in {"connect", "list", "invoke"} /\ call[c].left = 0
  /\ Recorded(c, "timeout")
DiscoveryFails(c, status) ==
  /\ call[c].pc = "discover"
  /\ Fail(c, status)
  /\ UNCHANGED <<grant, catalog, slots, age, forgot>>

(* Dropping the guard of the audit row: cancelled, unless it has a result. *)
Leave(c) ==
  /\ call[c].pc = "leaving"
  /\ Goto(c, "done", 0) /\ Finished(c, "cancelled")
  /\ UNCHANGED <<grant, catalog, slots, age, forgot>>

(* The future of a call is dropped while it waits: no result is recorded,  *)
(* and the drops run in order, the lease first.                            *)
FutureDropped(c) ==
  /\ call[c].pc \in Waits
  /\ Goto(c, IF c \in Holders THEN "recorded" ELSE "leaving", 0)
  /\ UNCHANGED <<grant, catalog, slots, age, audit, forgot>>

(* The process is killed with the agent's process tree: no drop runs.      *)
Kill(c) ==
  /\ call[c].pc \notin {"idle", "done", "killed"}
  /\ Goto(c, "killed", 0)
  /\ UNCHANGED <<grant, catalog, slots, age, audit, forgot>>

(* Time, held back while a wait has used up its timeout.                   *)
Tick ==
  /\ \A c \in Calls : call[c].pc \in Waits => call[c].left > 0
  /\ age' = IF age > StaleAge \/ slots = NoRow THEN age ELSE age + 1
  /\ call' = [c \in Calls |->
       [call[c] EXCEPT !.left = IF call[c].pc \in Waits THEN @ - 1 ELSE @,
                       !.held = IF c \in Holders /\ @ =< StaleAge THEN @ + 1 ELSE @]]
  /\ UNCHANGED <<grant, catalog, slots, audit, forgot>>

ProcessStep(c) ==
  \/ StartInvocation(c) \/ EnsureTool(c) \/ CheckPolicy(c)
  \/ \E exposed \in Exposures : DiscoveryEnds(c, exposed)
  \/ DiscoveryFails(c, "protocol_error")
  \/ Acquire(c) \/ QueueTimesOut(c) \/ Release(c) \/ Leave(c)
  \/ ServerAnswers(c) \/ ToolSucceeds(c) \/ CallTimesOut(c)
  \/ CallFails(c, "tool_failure")

McpNext ==
  \/ \E permitted \in Permits : CreateGrant(permitted)
  \/ RevokeGrant \/ RemoveServerCache
  \/ \E exposed \in Exposures : Rediscover(exposed)
  \/ \E c \in Calls : \/ ProcessStep(c) \/ FutureDropped(c) \/ Kill(c)
                      \/ \E t \in Tools : Ask(c, t)
  \/ Tick

McpSpec == McpInit /\ [][McpNext]_McpVars

-----------------------------------------------------------------------------
(* As long as the lease row was never reset or removed under a live call,  *)
(* the count covers every call in progress, and never exceeds the limit.   *)
SlotsCoverCalls ==
  /\ slots # NoRow => slots =< MaxConcurrency
  /\ ~forgot => Cardinality(Holders) =< Row

(* A queue entry may take a row for stale only when nobody has acquired or *)
(* released for twice the call timeout: every call that loses its slot to  *)
(* the reset has held it longer than that.                                 *)
StaleMeansOld ==
  (\E c \in Calls : call[c].pc = "queue" /\ call[c].stale /\ slots # NoRow)
     => \A h \in Holders : call[h].held > StaleAge

(* The server is contacted only for a tool of the grant, although the      *)
(* catalogue and the grant's state change while the call is under way.     *)
OnlyGrantedToolsReachServer ==
  \A c \in Calls : call[c].pc \in {"discover", "connect", "list", "invoke", "recorded"}
    => call[c].tool \in grant.tools

(* A result in the audit trail is final: the drops that follow it, in this *)
(* process or any other, do not change it.                                 *)
AuditFinal ==
  [][\A c \in Calls : audit[c] \notin {"none", "running"} => audit'[c] = audit[c]]_audit

(* A call that ended by itself has a result; only a killed one can stay    *)
(* running, for nobody repairs it.                                         *)
EndedCallsAudited ==
  \A c \in Calls : /\ call[c].pc = "done" => audit[c] \notin {"none", "running"}
                   /\ audit[c] = "running" => call[c].pc \notin {"idle", "asked", "done"}

(* Slots, grants and audit rows together.                                  *)
ToolsSound ==
  McpTypeOK /\ SlotsCoverCalls /\ StaleMeansOld /\ OnlyGrantedToolsReachServer /\ EndedCallsAudited
=============================================================================
