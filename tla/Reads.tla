------------------------------- MODULE Reads -------------------------------
(***************************************************************************)
(* Requests that only read.  The server answers them from a connection of  *)
(* its own, one SELECT after the other and without a transaction, while    *)
(* the executor writes from another: what an answer says in one place may  *)
(* be older than what it says in the next.  The statements of the executor *)
(* come in the order of Attempts, of which only what is read here is kept; *)
(* the reviewer's session is left out.  A request changes nothing, so one  *)
(* at a time is enough; a behaviour has requests of one topic, and what no *)
(* request of that topic reads stands still in it.                         *)
(***************************************************************************)
EXTENDS Naturals, FiniteSets, Sequences, SequencesExt, FiniteSetsExt, TLC

CONSTANTS Shown,           \* the tasks of the first run: [1 .. n -> [op, deps]]
          Worker, Planner, \* the agents that work for it
          MaxTried, MaxRuns, PageSizes   \* bounds of the exploration

VARIABLES states,   \* the state of each task of the first run, once it has a plan
          trials,   \* the statuses of the attempts of each
          sessions, \* of the agent, in order: [task, status, output]
          products, \* the artifacts: <<task, attempt>>
          head,     \* what the recorded head of the run's branch holds: <<task, attempt>>
          writer,   \* the statement the executor comes to, for which task
          runs,     \* the number of runs
          settings, \* [agents, planners]: the agents there are, those that may plan
          answer,   \* of the request in progress
          topic     \* of the requests: detail, graph, pages or stream

Stages == {"advisory", "implement", "verify", "review", "post_process"}
ASSUME ReadConstants ==
  /\ IsFiniteSet(DOMAIN Shown) /\ DOMAIN Shown \subseteq Nat \ {0}
  /\ \A t \in DOMAIN Shown : Shown[t].op \in Stages /\ Shown[t].deps \subseteq DOMAIN Shown
  /\ PageSizes \subseteq Nat \ {0}

ReadVars == <<states, trials, sessions, products, head, writer, runs, settings, answer, topic>>

TaskIds == DOMAIN Shown
Produces(t) == Shown[t].op \in {"implement", "verify", "post_process"}
Number(t) == Len(trials[t])
NoOne == 0
Quiet == [kind |-> "none"]
Tables == <<states, trials, sessions, products, head>>

ReadInit ==
  /\ states = <<>> /\ trials = [t \in TaskIds |-> <<>>] /\ sessions = <<>>
  /\ products = {} /\ head = {}
  /\ writer = [at |-> "plan", task |-> NoOne]
  /\ runs = 2
  /\ settings = [agents |-> {Worker, Planner}, planners |-> {Planner}]
  /\ answer = Quiet
  /\ topic \in {"detail", "graph", "pages", "stream"}

-----------------------------------------------------------------------------
(* The executor.  An attempt begins, its agent works, what it produced is  *)
(* recorded, it is judged, the task is marked and then what waits for it.  *)
Does(statement, t) == writer = [at |-> statement, task |-> t]
Then(statement) == writer' = [writer EXCEPT !.at = statement]
Elsewhere == topic # "pages" /\ UNCHANGED <<runs, settings, answer, topic>>

StateForDependent(s, t) ==
  IF \A d \in Shown[t].deps : s[d] = "completed" THEN "ready" ELSE "pending"
PersistPlan ==
  /\ writer.at = "plan" /\ writer' = [writer EXCEPT !.at = "idle"]
  /\ states' = [t \in TaskIds |-> IF Shown[t].deps = {} THEN "ready" ELSE "pending"]
  /\ Elsewhere /\ UNCHANGED <<trials, sessions, products, head>>
OpenTrial(t) ==
  /\ writer.at = "idle" /\ states[t] = "ready" /\ Number(t) < MaxTried
  /\ trials' = [trials EXCEPT ![t] = Append(@, "running")]
  /\ writer' = [at |-> "mark", task |-> t]
  /\ Elsewhere /\ UNCHANGED <<states, sessions, products, head>>
MarkRunning(t) ==
  /\ Does("mark", t) /\ Then("launch")
  /\ states' = [states EXCEPT ![t] = "running"]
  /\ Elsewhere /\ UNCHANGED <<trials, sessions, products, head>>
InsertSession(t) ==
  /\ Does("launch", t) /\ Then("agent")
  /\ sessions' = Append(sessions, [task |-> t, status |-> "running", output |-> "none"])
  /\ Elsewhere /\ UNCHANGED <<states, trials, products, head>>

SessionRow(field, value) == sessions' = [sessions EXCEPT ![Len(sessions)][field] = value]
AppendOutput(t) ==
  /\ Does("agent", t) /\ Last(sessions).output = "none" /\ Then("agent")
  /\ SessionRow("output", "observed")
  /\ Elsewhere /\ UNCHANGED <<states, trials, products, head>>
FinishSession(t, status) ==
  /\ Does("agent", t) /\ Then("output")
  /\ SessionRow("status", status)
  /\ Elsewhere /\ UNCHANGED <<states, trials, products, head>>
SetOutput(t) ==
  /\ Does("output", t)
  /\ Then(CASE Last(sessions).status = "failed" -> "fail"
            [] Last(sessions).status # "failed" /\ Produces(t) -> "land"
            [] OTHER -> "product")
  /\ SessionRow("output", "complete")
  /\ Elsewhere /\ UNCHANGED <<states, trials, products, head>>

Reviewing(t) ==
  /\ Does("land", t) /\ Last(trials[t]) = "running" /\ Then("land")
  /\ trials' = [trials EXCEPT ![t][Number(t)] = "reviewing"]
  /\ Elsewhere /\ UNCHANGED <<states, sessions, products, head>>
LandTrial(t) ==
  /\ Does("land", t) /\ Last(trials[t]) = "reviewing" /\ Then("approve")
  /\ head' = head \cup {<<t, Number(t)>>}
  /\ Elsewhere /\ UNCHANGED <<states, trials, sessions, products>>
InsertArtifact(t) ==
  /\ Does("product", t) /\ \E verdict \in {"approve", "changes"} : Then(verdict)
  /\ products' = products \cup {<<t, Number(t)>>}
  /\ Elsewhere /\ UNCHANGED <<states, trials, sessions, head>>

TrialEnd == [fail |-> "failed", approve |-> "approved", changes |-> "changes_requested"]
NextMark == [fail |-> "ready", approve |-> "completed", changes |-> "blocked"]
FinishTrial(t) ==
  /\ writer.task = t /\ writer.at \in DOMAIN TrialEnd
  /\ trials' = [trials EXCEPT ![t][Number(t)] = TrialEnd[writer.at]]
  /\ Then(NextMark[writer.at])
  /\ Elsewhere /\ UNCHANGED <<states, sessions, products, head>>
(* A task that a review sent back has work to be done on what it judged.   *)
MarkTrial(t) ==
  /\ writer.task = t /\ writer.at \in {"ready", "completed", "blocked"}
  /\ states' = [states EXCEPT ![t] = writer.at]
  /\ IF writer.at = "blocked" /\ Shown[t].deps # {}
     THEN \E d \in Shown[t].deps : writer' = [at |-> "ready", task |-> d]
     ELSE Then("dependents")
  /\ Elsewhere /\ UNCHANGED <<trials, sessions, products, head>>
MarkDependents(t) ==
  /\ Does("dependents", t) /\ writer' = [at |-> "idle", task |-> NoOne]
  /\ states' = [d \in TaskIds |-> IF t \in Shown[d].deps /\ states[d] # "completed"
                                  THEN StateForDependent(states, d) ELSE states[d]]
  /\ Elsewhere /\ UNCHANGED <<trials, sessions, products, head>>

CreateRun ==
  /\ topic = "pages" /\ runs < MaxRuns /\ runs' = runs + 1
  /\ UNCHANGED <<Tables, writer, settings, answer, topic>>
SaveConfig ==
  /\ topic = "graph" /\ Planner \in settings.agents
  /\ settings' = [agents |-> settings.agents \ {Planner}, planners |-> {}]
  /\ UNCHANGED <<Tables, writer, runs, answer, topic>>

Writes ==
  \/ PersistPlan \/ CreateRun \/ SaveConfig
  \/ \E t \in TaskIds :
       \/ OpenTrial(t) \/ MarkRunning(t) \/ InsertSession(t) \/ AppendOutput(t)
       \/ \E status \in {"success", "failed"} : FinishSession(t, status)
       \/ SetOutput(t) \/ Reviewing(t) \/ LandTrial(t) \/ InsertArtifact(t)
       \/ FinishTrial(t) \/ MarkTrial(t) \/ MarkDependents(t)

-----------------------------------------------------------------------------
(* The SELECTs of an answer, in the order of the code.                     *)
ListTasks == states
ListTaskAttempts == trials
ListAgentSessions == sessions
ListRoleArtifacts == products
GetRunIntegration == head
LoadConfig == settings
LoadAgents == settings.agents

\* Mutant: the head of the branch is read with the run, before the tasks.
HeadFirst == <<"head", "tasks", "attempts", "sessions", "artifacts">>
DetailOrder == <<"tasks", "attempts", "sessions", "artifacts", "head">>
GraphOrder == <<"config", "agents", "tasks", "attempts", "sessions">>
OrderOf(kind) == IF kind = "detail" THEN DetailOrder ELSE GraphOrder

Select(table) ==
  CASE table = "tasks" -> ListTasks
    [] table = "attempts" -> ListTaskAttempts
    [] table = "sessions" -> ListAgentSessions
    [] table = "artifacts" -> ListRoleArtifacts
    [] table = "head" -> GetRunIntegration
    [] table = "config" -> LoadConfig
    [] table = "agents" -> LoadAgents

Request(kind) ==
  /\ topic = kind /\ answer = Quiet
  /\ answer' = [kind |-> kind, at |-> 1, got |-> <<>>]
  /\ UNCHANGED <<Tables, writer, runs, settings, topic>>
Complete(a) == a.at > Len(OrderOf(a.kind))
Joined(got, table) ==
  [t \in DOMAIN got \cup {table} |-> IF t = table THEN Select(table) ELSE got[t]]
SelectNext ==
  /\ answer.kind \in {"detail", "graph"} /\ ~Complete(answer)
  /\ LET table == OrderOf(answer.kind)[answer.at] IN
     answer' = [answer EXCEPT !.at = @ + 1, !.got = Joined(@, table)]
  /\ UNCHANGED <<Tables, writer, runs, settings, topic>>

(* get_run: what is told of the branch, and the overview of the stages.    *)
IntegratedTasks(got) ==
  {t \in DOMAIN got.tasks : /\ Produces(t) /\ got.attempts[t] # <<>>
                            /\ Last(got.attempts[t]) = "approved"}
Stage(got, op) ==
  LET members == {t \in DOMAIN got.tasks : Shown[t].op = op}
      completed == {t \in members : got.tasks[t] = "completed"} IN
  [total |-> Cardinality(members), completed |-> Cardinality(completed),
   state |-> CASE completed = members -> "completed"
               [] completed # members /\ \E t \in members : got.tasks[t] \in {"ready", "running"} -> "active"
               [] OTHER -> "pending"]
DeriveStages(got) ==
  [op \in {o \in Stages : \E t \in DOMAIN got.tasks : Shown[t].op = o} |-> Stage(got, op)]

(* build_graph: nodes are <<kind, id>>, edges [kind, from, to].            *)
AgentNodes(got) == {<<"agent", a>> : a \in got.agents}
RoleNodes(got) == {<<"role", r>> : r \in {"planner", "worker"}}
TaskNodes(got) == {<<"task", t>> : t \in DOMAIN got.tasks}
RunNodes == {<<"run", 1>>, <<"github_issue", 1>>, <<"github_pr", 1>>}
Nodes(got) == AgentNodes(got) \cup RoleNodes(got) \cup RunNodes \cup TaskNodes(got)

Edge(kind, from, to) == [kind |-> kind, from |-> from, to |-> to]
Bindings(got) == {Edge("binds", <<"role", "planner">>, <<"agent", a>>) : a \in got.config.planners}
Sources == {Edge("originates", <<"github_issue", 1>>, <<"run", 1>>),
            Edge("delivers", <<"run", 1>>, <<"github_pr", 1>>)}
PlannedBy(got) ==
  {Edge("plans", <<"run", 1>>,
        IF Planner \in got.config.planners THEN <<"role", "planner">> ELSE <<"agent", Planner>>)}
Memberships(got) == {Edge("contains", <<"run", 1>>, n) : n \in TaskNodes(got)}
Activity(got) ==
  {Edge("works", <<"agent", Worker>>, <<"task", s.task>>) :
     s \in {x \in ToSet(got.sessions) : x.status = "running"}}
Depends(got) ==
  UNION {{Edge("depends", <<"task", d>>, <<"task", t>>) : d \in Shown[t].deps} : t \in DOMAIN got.tasks}
Edges(got) == Bindings(got) \cup Sources \cup PlannedBy(got) \cup Memberships(got) \cup Activity(got) \cup Depends(got)

-----------------------------------------------------------------------------
(* The pages of the list of runs, newest first; a cursor excludes itself.  *)
NoCursor == 0
AskPages(size) ==
  /\ topic = "pages" /\ answer = Quiet
  /\ answer' = [kind |-> "pages", size |-> size, cursor |-> NoCursor, more |-> TRUE,
                seen |-> <<>>, known |-> runs]
  /\ UNCHANGED <<Tables, writer, runs, settings, topic>>
\* Mutant: the cursor is the first run of the page that follows.
InclusiveCursor(id, cursor) == cursor # NoCursor => id =< cursor
BeforeCursor(id, cursor) == cursor # NoCursor => id < cursor
Older(cursor) == {id \in 1 .. runs : BeforeCursor(id, cursor)}
Place(id, list) == Cardinality({newer \in list : newer > id}) + 1
SummariesPage(limit, cursor) ==
  [i \in 1 .. Min({limit, Cardinality(Older(cursor))}) |->
     CHOOSE id \in Older(cursor) : Place(id, Older(cursor)) = i]
NextPage ==
  /\ answer.kind = "pages" /\ answer.more
  /\ LET records == SummariesPage(answer.size + 1, answer.cursor)
         page == SubSeq(records, 1, Min({answer.size, Len(records)})) IN
     answer' = [answer EXCEPT !.more = Len(records) > answer.size,
                  !.cursor = IF Len(records) > answer.size THEN Last(page) ELSE NoCursor,
                  !.seen = @ \o page]
  /\ UNCHANGED <<Tables, writer, runs, settings, topic>>

(* The stream of a session: polled, sent when it has changed, over when    *)
(* the session is.                                                         *)
AskStream(row) ==
  /\ topic = "stream" /\ answer = Quiet /\ row \in DOMAIN sessions
  /\ answer' = [kind |-> "stream", row |-> row, sent |-> <<>>, open |-> TRUE]
  /\ UNCHANGED <<Tables, writer, runs, settings, topic>>
SessionResponse(row) == [status |-> sessions[row].status, output |-> sessions[row].output]
Running(response) == response.status \in {"running", "active"}
Poll ==
  /\ answer.kind = "stream" /\ answer.open
  /\ LET response == SessionResponse(answer.row) IN
     answer' = [answer EXCEPT !.open = Running(response),
                  !.sent = IF @ # <<>> /\ Last(@) = response THEN @ ELSE Append(@, response)]
  /\ UNCHANGED <<Tables, writer, runs, settings, topic>>

ReadsDone ==
  /\ \/ answer.kind \in {"detail", "graph"} /\ Complete(answer)
     \/ answer.kind = "pages" /\ ~answer.more
     \/ answer.kind = "stream" /\ ~answer.open
  /\ answer' = Quiet
  /\ UNCHANGED <<Tables, writer, runs, settings, topic>>

ReadNext ==
  \/ Writes
  \/ \E kind \in {"detail", "graph"} : Request(kind)
  \/ \E size \in PageSizes : AskPages(size)
  \/ \E row \in DOMAIN sessions : AskStream(row)
  \/ SelectNext \/ NextPage \/ Poll \/ ReadsDone
ReadSpec == ReadInit /\ [][ReadNext]_ReadVars

-----------------------------------------------------------------------------
(* A task that is told to be integrated has its approved work in the head  *)
(* that is told with it; one shown completed has an approved attempt, one  *)
(* shown running an attempt; a review shown approved has its artifact, and *)
(* an attempt that was judged a session that has ended.  The stages show   *)
(* every task once.                                                        *)
EndedSessions(list, t) == {s \in DOMAIN list : list[s].task = t /\ list[s].status # "running"}
DetailIsTold(got) ==
  /\ \A t \in IntegratedTasks(got) : <<t, Len(got.attempts[t])>> \in got.head
  /\ \A t \in DOMAIN got.tasks :
       /\ got.tasks[t] = "completed" => "approved" \in ToSet(got.attempts[t])
       /\ got.tasks[t] = "running" => got.attempts[t] # <<>>
       /\ \A i \in DOMAIN got.attempts[t] :
            /\ got.attempts[t][i] = "approved" /\ ~Produces(t) => <<t, i>> \in got.artifacts
            /\ got.attempts[t][i] # "running" =>
                 i =< Cardinality(EndedSessions(got.sessions, t))
  /\ LET total(op) == IF op \in DOMAIN DeriveStages(got) THEN DeriveStages(got)[op].total ELSE 0 IN
     total("advisory") + total("implement") + total("verify") + total("review") + total("post_process")
       = Cardinality(DOMAIN got.tasks)

(* Both ends of an edge are nodes, but for an agent that is no longer in   *)
(* the settings and for a task whose plan came in between.                 *)
GraphIsClosed(got) ==
  \A e \in Edges(got) :
    \A end \in {e.from, e.to} :
      \/ end \in Nodes(got)
      \/ end = <<"agent", Planner>> /\ Planner \notin got.agents
      \/ end[1] = "task" /\ got.tasks = <<>>

(* Page after page, every run there was at the first page is listed, once. *)
PagesAreWhole ==
  /\ \A i \in 1 .. Len(answer.seen) - 1 : answer.seen[i] > answer.seen[i + 1]
  /\ ~answer.more => 1 .. answer.known \subseteq ToSet(answer.seen)

(* A stream repeats nothing, goes on until the session is over, and ends   *)
(* with how it ended.                                                      *)
StreamIsTrue ==
  /\ \A i \in 1 .. Len(answer.sent) - 1 : /\ answer.sent[i] # answer.sent[i + 1]
                                          /\ Running(answer.sent[i])
  /\ ~answer.open => Last(answer.sent).status = sessions[answer.row].status

ReadsSound ==
  CASE answer.kind = "detail" /\ Complete(answer) -> DetailIsTold(answer.got)
    [] answer.kind = "graph" /\ Complete(answer) -> GraphIsClosed(answer.got)
    [] answer.kind = "pages" -> PagesAreWhole
    [] answer.kind = "stream" -> StreamIsTrue
    [] OTHER -> answer = Quiet \/ ~Complete(answer)
=============================================================================
