----------------------------- MODULE PlanIntake -----------------------------
(***************************************************************************)
(* From an objective to a run that may execute: a team is resolved from    *)
(* the configuration or a recipe, a planner proposes plans until one is    *)
(* accepted, and the start checks the plan, the team and the policies.     *)
(* Every request opens the project with the configuration of that moment.  *)
(* A start and a planner hold the run's operation; a change of the team    *)
(* and a pinned agent do not, and each reads the run before it writes it.  *)
(* Texts are left out, and so is what a policy is made of (see Policy).    *)
(***************************************************************************)
EXTENDS Naturals, FiniteSets, Sequences, Functions

CONSTANTS TeamAgents, ExtraRoles, ClassOf,   \* a custom role's execution class
          Permitted,         \* agents and the operations their policy allows
          Configs,           \* configurations the project goes through
          Proposals,         \* what a planner may answer
          TeamRecipes,       \* snapshots: [roles, forbids]
          AskedTeams,        \* the teams a user asks for
          MaxPlanTasks, MaxPlanTries

TaskRoleIds == {"worker"} \cup ExtraRoles
TeamRoleIds == {"planner", "reviewer"} \cup TaskRoleIds
Classes == {"planning", "execution", "review", "advisory", "post_process"}
PlanOperations == {"planning", "implement", "verify", "review", "advisory", "post_process"}
NoneGiven == "none"
NoRecipe == [roles |-> {}, forbids |-> {}]
Teams == [TeamRoleIds -> SUBSET TeamAgents]
NotAPlan == <<>>           \* also: blank texts, duplicate ids, more than MaxPlanTasks tasks

ASSUME IntakeConstants ==
  /\ ClassOf \in [ExtraRoles -> Classes]
  /\ Permitted \subseteq TeamAgents \X PlanOperations
  /\ \A c \in Configs : c.roles \subseteq ExtraRoles /\ c.assigned \subseteq TeamRoleIds \X TeamAgents
  /\ NotAPlan \in Proposals /\ AskedTeams \subseteq Teams
  /\ \A p \in Proposals :
       p \in Seq([role : STRING, operation : STRING, dependencies : Seq(Nat)])
  /\ MaxPlanTries \in Nat \ {0}
  \* The one role with a default of its own is a core role, which cannot be redefined.
  /\ "test_engineer" \in ExtraRoles => ClassOf["test_engineer"] = "execution"

VARIABLES config,    \* [roles, assigned, first: the preferred agent of a role]
          flow,      \* the run: [status, team, recipe, planner]
          tasks,     \* its tasks: sequence of [role, operation, dependencies, pin, state]
          planning,  \* the planner's operation
          starting,  \* the start in progress
          editing,   \* a change of the team that has passed its checks
          pinning,   \* a pin that has passed its checks
          given,     \* history: what the planner was given, roles and their catalog
          raced      \* history: a team or a pin landed after the start had read the run
IntakeVars == <<config, flow, tasks, planning, starting, editing, pinning, given, raced>>

Idle == [step |-> "none"]

-----------------------------------------------------------------------------
(* Teams.                                                                  *)
Assigned(c, role) == {a \in TeamAgents : <<role, a>> \in c.assigned}
RoleIsKnown(c, role) == role \notin ExtraRoles \/ role \in c.roles
Preferred(c, role) ==
  LET agents == Assigned(c, role)
  IN  IF agents = {} THEN {} ELSE {IF c.first \in agents THEN c.first ELSE CHOOSE a \in agents : TRUE}

ValidTeamIn(c, team, complete) ==
  /\ Cardinality(team["planner"]) = 1
  /\ complete => team["worker"] # {} /\ team["reviewer"] # {}
  /\ \A role \in TeamRoleIds : team[role] \subseteq Assigned(c, role)
  /\ \A role \in ExtraRoles : team[role] # {} => RoleIsKnown(c, role)

RolesAvailable(c, recipe) == \A role \in recipe.roles : Assigned(c, role) # {}
TeamFromRecipe(c, recipe) ==
  [role \in TeamRoleIds |->
     IF role \in ExtraRoles /\ role \notin recipe.roles THEN {} ELSE Preferred(c, role)]
(* Without a recipe the team is the same, with no additional role.         *)
NewTeams(c, recipe) ==
  {t \in AskedTeams : ValidTeamIn(c, t, TRUE)}
    \cup {t \in {TeamFromRecipe(c, recipe)} : ValidTeamIn(c, t, FALSE)}

TaskRoles(team) == {"worker"} \cup {role \in ExtraRoles : team[role] # {}}

-----------------------------------------------------------------------------
(* Plans.                                                                  *)
RoleOf(task) == IF task.role = NoneGiven THEN "worker" ELSE task.role
Class(c, role) == IF role \in ExtraRoles /\ role \in c.roles THEN ClassOf[role] ELSE "execution"
CompatibleOperations(class) ==
  CASE class = "planning" -> {"planning"}
    [] class = "advisory" -> {"advisory"}
    [] class = "execution" -> {"implement", "verify"}
    [] class = "review" -> {"review"}
    [] class = "post_process" -> {"post_process", "implement"}
\* Mutant: a role verifies by default, whatever its class.
AlwaysVerify(c, role) == "verify"
DefaultOperation(c, role) ==
  LET class == Class(c, role)
  IN  IF role = "test_engineer" THEN "verify"
      ELSE IF class = "execution" THEN "implement" ELSE class

(* A task is visited when the visited tasks it depends on are as many as   *)
(* the dependencies it lists; one that is listed twice is never counted.   *)
Visited(plan) ==
  LET round[n \in 0 .. Len(plan)] ==
        IF n = 0 THEN {}
        ELSE {t \in DOMAIN plan :
                Cardinality(Range(plan[t].dependencies) \cap round[n - 1])
                  = Len(plan[t].dependencies)}
  IN  round[Len(plan)]

ValidPlan(plan) ==
  /\ Len(plan) \in 1 .. MaxPlanTasks
  /\ \A t \in DOMAIN plan : \A d \in Range(plan[t].dependencies) : d # t /\ d \in DOMAIN plan
  /\ Visited(plan) = DOMAIN plan
  /\ \A t \in DOMAIN plan : plan[t].role # "planner" /\ plan[t].operation # "planning"

ValidPlanRoles(plan, allowed) ==
  \A t \in DOMAIN plan : plan[t].role \in allowed \cup {NoneGiven}
ValidPlanOperations(c, plan) ==
  \A t \in DOMAIN plan :
    plan[t].operation \in CompatibleOperations(Class(c, RoleOf(plan[t]))) \cup {NoneGiven}

NormalizedPlan(c, plan) ==
  [t \in DOMAIN plan |->
     [role |-> plan[t].role,
      operation |-> IF plan[t].operation = NoneGiven
                    THEN DefaultOperation(c, RoleOf(plan[t])) ELSE plan[t].operation,
      dependencies |-> Range(plan[t].dependencies),
      pin |-> NoneGiven,
      state |-> IF plan[t].dependencies = <<>> THEN "ready" ELSE "pending"]]

Accepted(c, plan, allowed) ==
  ValidPlan(plan) /\ ValidPlanRoles(plan, allowed) /\ ValidPlanOperations(c, plan)

-----------------------------------------------------------------------------
Reconfigure ==
  /\ config' \in Configs
  /\ UNCHANGED <<flow, tasks, planning, starting, editing, pinning, given, raced>>

TakeRun ==
  /\ flow.status = "absent"
  /\ \E recipe \in TeamRecipes :
       /\ RolesAvailable(config, recipe)
       /\ \E team \in NewTeams(config, recipe) :
            flow' = [status |-> "planning", team |-> team, recipe |-> recipe,
                     planner |-> team["planner"]]
  /\ UNCHANGED <<config, tasks, planning, starting, editing, pinning, given, raced>>

PlanRunBegins ==
  /\ flow.status = "planning" /\ planning = Idle
  /\ planning' = [step |-> "asking", tries |-> 0, catalog |-> config,
                  allowed |-> TaskRoles(flow.team)]
  /\ given' = [allowed |-> TaskRoles(flow.team), catalog |-> config]
  /\ UNCHANGED <<config, flow, tasks, starting, editing, pinning, raced>>

(* A valid answer is stored at once; any other is sent back with its       *)
(* reason, MaxPlanTries in all.                                            *)
PlannerAnswers ==
  /\ planning.step = "asking"
  /\ \E plan \in Proposals :
       IF Accepted(planning.catalog, plan, planning.allowed)
       THEN /\ tasks' = NormalizedPlan(planning.catalog, plan)
            /\ flow' = [flow EXCEPT !.status = "planned"]
            /\ planning' = Idle
       ELSE IF planning.tries + 1 < MaxPlanTries
       THEN /\ planning' = [planning EXCEPT !.tries = @ + 1]
            /\ UNCHANGED <<flow, tasks>>
       ELSE /\ flow' = [flow EXCEPT !.status = "failed"]
            /\ planning' = Idle /\ UNCHANGED tasks
  /\ UNCHANGED <<config, starting, editing, pinning, given, raced>>

(* The process fails or says too much, or the run is cancelled.            *)
PlannerGivesUp ==
  /\ planning.step = "asking"
  /\ \E status \in {"failed", "cancelled"} : flow' = [flow EXCEPT !.status = status]
  /\ planning' = Idle
  /\ UNCHANGED <<config, tasks, starting, editing, pinning, given, raced>>

-----------------------------------------------------------------------------
Awaiting == {"planning", "planned", "blocked"}

UpdateTeamChecks ==
  /\ editing = Idle /\ flow.status \in Awaiting
  /\ \E team \in AskedTeams :
       /\ ValidTeamIn(config, team, TRUE)
       /\ editing' = [step |-> "checked", team |-> team, status |-> flow.status]
  /\ UNCHANGED <<config, flow, tasks, planning, starting, pinning, given, raced>>
LandsLate == starting # Idle \/ flow.status = "active"
UpdateTeamWrites ==
  /\ editing # Idle
  /\ flow' = [flow EXCEPT !.team = editing.team,
                          !.planner = IF editing.status = "planning"
                                      THEN editing.team["planner"] ELSE @]
  /\ editing' = Idle
  /\ raced' = (raced \/ LandsLate)
  /\ UNCHANGED <<config, tasks, planning, starting, pinning, given>>

PinChecks ==
  /\ pinning = Idle
  /\ \E t \in DOMAIN tasks, a \in TeamAgents \cup {NoneGiven} :
       /\ tasks[t].state \in {"pending", "ready", "blocked", "failed"}
       /\ a # NoneGiven => a \in Assigned(config, RoleOf(tasks[t]))
       /\ pinning' = [step |-> "checked", task |-> t, agent |-> a]
  /\ UNCHANGED <<config, flow, tasks, planning, starting, editing, given, raced>>
PinWrites ==
  /\ pinning # Idle
  /\ tasks' = [tasks EXCEPT ![pinning.task].pin = pinning.agent]
  /\ pinning' = Idle
  /\ raced' = (raced \/ LandsLate)
  /\ UNCHANGED <<config, flow, planning, starting, editing, given>>

-----------------------------------------------------------------------------
(* The start.                                                              *)
PolicyAllows(recipe, agent, operation) ==
  <<agent, operation>> \in Permitted /\ operation \notin recipe.forbids

Filled(c, team) ==
  [role \in TeamRoleIds |->
     IF role \in {"worker", "reviewer"} /\ team[role] = {} THEN Preferred(c, role) ELSE team[role]]
NeedsDefaults(team) == team["worker"] = {} \/ team["reviewer"] = {}
HasDefaults(c) == \A role \in {"planner", "worker", "reviewer"} : Assigned(c, role) # {}

PinAllowed(team, recipe, task) ==
  task.pin = NoneGiven
    \/ (task.pin \in team[RoleOf(task)] /\ PolicyAllows(recipe, task.pin, task.operation))
RolesCovered(team, list) ==
  \A t \in DOMAIN list : list[t].role # NoneGiven => team[list[t].role] # {}
\* Mutant: the start does not look at the roles of the tasks.
NoRoleNeeded(team, list) == TRUE
TaskRolesAvailable(team, list) == RolesCovered(team, list)
SomeAgentAllowed(team, recipe, task) ==
  \E a \in team[RoleOf(task)] : PolicyAllows(recipe, a, task.operation)
PoliciesAllow(team, recipe, list) ==
  \A t \in DOMAIN list :
    team[RoleOf(list[t])] # {} => SomeAgentAllowed(team, recipe, list[t])

(* The run is read; a team without workers or reviewers is completed and   *)
(* stored; whatever is wrong ends the start with an error.                 *)
PrepareStartReads ==
  /\ starting = Idle /\ planning = Idle /\ flow.status \in {"planned", "blocked"}
  /\ LET team == IF NeedsDefaults(flow.team) THEN Filled(config, flow.team) ELSE flow.team
     IN  /\ NeedsDefaults(flow.team) => HasDefaults(config)
         /\ starting' = [step |-> "read", team |-> team, catalog |-> config, list |-> tasks,
                         stores |-> NeedsDefaults(flow.team)]
  /\ UNCHANGED <<config, flow, tasks, planning, editing, pinning, given, raced>>
PrepareStartStores ==
  /\ starting.step = "read"
  /\ flow' = IF starting.stores THEN [flow EXCEPT !.team = starting.team] ELSE flow
  /\ starting' = [starting EXCEPT !.step = "checking"]
  /\ UNCHANGED <<config, tasks, planning, editing, pinning, given, raced>>
PrepareStartEnds ==
  /\ starting.step = "checking"
  /\ LET s == starting
         fit == /\ ValidTeamIn(s.catalog, s.team, TRUE)
                /\ TaskRolesAvailable(s.team, s.list)
                /\ \A t \in DOMAIN s.list : PinAllowed(s.team, flow.recipe, s.list[t])
     IN  flow' = [flow EXCEPT !.status =
           IF ~fit THEN @ ELSE IF PoliciesAllow(s.team, flow.recipe, s.list) THEN "active"
           ELSE "blocked"]
  /\ starting' = Idle
  /\ UNCHANGED <<config, tasks, planning, editing, pinning, given, raced>>

(* The executor reads the team again for every task it starts.             *)
Startable(t) == tasks[t].state = "ready"
DispatchTask(t) ==
  /\ flow.status = "active" /\ Startable(t)
  /\ \A u \in DOMAIN tasks : tasks[u].state # "working"
  /\ IF flow.team[RoleOf(tasks[t])] = {}
     THEN flow' = [flow EXCEPT !.status = "failed"] /\ UNCHANGED tasks
     ELSE tasks' = [tasks EXCEPT ![t].state = "working"] /\ UNCHANGED flow
  /\ UNCHANGED <<config, planning, starting, editing, pinning, given, raced>>
CompleteTask(t) ==
  /\ flow.status = "active" /\ tasks[t].state = "working"
  /\ LET done == {t} \cup {u \in DOMAIN tasks : tasks[u].state = "completed"}
     IN  tasks' = [u \in DOMAIN tasks |->
           IF u = t THEN [tasks[u] EXCEPT !.state = "completed"]
           ELSE IF tasks[u].state = "pending" /\ tasks[u].dependencies \subseteq done
           THEN [tasks[u] EXCEPT !.state = "ready"] ELSE tasks[u]]
  /\ UNCHANGED <<config, flow, planning, starting, editing, pinning, given, raced>>

-----------------------------------------------------------------------------
IntakeInit ==
  /\ config \in Configs
  /\ flow = [status |-> "absent", team |-> [role \in TeamRoleIds |-> {}],
             recipe |-> NoRecipe, planner |-> {}]
  /\ tasks = <<>>
  /\ planning = Idle /\ starting = Idle /\ editing = Idle /\ pinning = Idle
  /\ given = [allowed |-> {}] /\ raced = FALSE

IntakeNext ==
  \/ Reconfigure \/ TakeRun \/ PlanRunBegins \/ PlannerAnswers \/ PlannerGivesUp
  \/ UpdateTeamChecks \/ UpdateTeamWrites \/ PinChecks \/ PinWrites
  \/ PrepareStartReads \/ PrepareStartStores \/ PrepareStartEnds
  \/ \E t \in DOMAIN tasks : DispatchTask(t) \/ CompleteTask(t)

IntakeSpec == IntakeInit /\ [][IntakeNext]_IntakeVars

-----------------------------------------------------------------------------
(* What was stored of a planner's answer can be executed in some order and *)
(* asks of every role only what its class may do, under the configuration  *)
(* of the planning; the roles are those the planner was given.             *)
Executable(list) ==
  /\ \A t \in DOMAIN list : list[t].dependencies \subseteq DOMAIN list
  /\ \A some \in (SUBSET DOMAIN list) \ {{}} :
       \E t \in some : list[t].dependencies \cap some = {}
StoredTasksSound ==
  /\ Executable(tasks)
  /\ \A t \in DOMAIN tasks :
       /\ RoleOf(tasks[t]) \in given.allowed
       /\ tasks[t].operation \in CompatibleOperations(Class(given.catalog, RoleOf(tasks[t])))

(* Unless something landed behind the back of the start, a run executes    *)
(* with an agent for every role its tasks name, one of them allowed to do  *)
(* the work, and a pinned agent is one of them.                            *)
ActiveIsReady ==
  flow.status = "active" /\ ~raced =>
    /\ RolesCovered(flow.team, tasks)
    /\ PoliciesAllow(flow.team, flow.recipe, tasks)
    /\ \A t \in DOMAIN tasks : PinAllowed(flow.team, flow.recipe, tasks[t])

(* A recipe's roles are in the team it made, and its limits on the run.    *)
IntakeTypeOK ==
  /\ flow.team \in Teams
  /\ flow.status \in {"absent", "planning", "planned", "blocked", "active", "failed", "cancelled"}
  /\ planning # Idle => flow.status = "planning" /\ planning.tries < MaxPlanTries

IntakeSound == IntakeTypeOK /\ StoredTasksSound /\ ActiveIsReady

(* "Replaces the team of a workflow that has not started yet."             *)
TeamFixedOnceStarted == [][flow.status = "active" => flow'.team = flow.team]_IntakeVars
(* "A task that is already running (or finished) cannot be re-pinned."     *)
RunningKeepsPin ==
  [][\A t \in DOMAIN tasks :
       tasks[t].state \in {"working", "completed"} => tasks'[t].pin = tasks[t].pin]_IntakeVars
=============================================================================
