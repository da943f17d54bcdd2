----------------------------- MODULE TaskGraph -----------------------------
(***************************************************************************)
(* The task state machine and the pure functions over a run's task graph:  *)
(* which transitions a task may make, the state a dependent takes from its *)
(* dependencies, the run status derived from the tasks, and the choice of  *)
(* the task a rejected review sends back to work.                          *)
(*                                                                         *)
(* A task is named by its position in the plan, so the order of positions  *)
(* is the order of Tasks as numbers.                                       *)
(***************************************************************************)
EXTENDS Naturals, FiniteSets

CONSTANT Tasks        \* positions of the plan's tasks

ASSUME TasksAssumption == Tasks \subseteq Nat \ {0} /\ IsFiniteSet(Tasks)

TaskStates ==
    {"pending", "ready", "running", "awaiting_integration", "integrating",
     "blocked", "failed", "completed", "superseded"}

RunStatuses ==
    {"planning", "planned", "active", "blocked", "completed", "failed",
     "cancelled"}

\* The operations a task can be scheduled with, by how they are executed:
\* verify and post_process tasks take the path of implement tasks, and differ
\* from them only as candidates for rework.
Operations == {"advisory", "implement", "verify", "post_process", "review"}

CanTransition(from, to) ==
    \/ from = to
    \/ from = "pending" /\ to \in {"ready", "blocked"}
    \/ from = "ready" /\ to = "running"
    \/ from = "running"
         /\ to \in {"awaiting_integration", "completed", "failed", "blocked"}
    \/ from = "awaiting_integration" /\ to \in {"integrating", "ready"}
    \/ from = "integrating" /\ to \in {"completed", "ready", "failed", "blocked"}
    \/ from \in {"blocked", "failed", "completed"} /\ to = "ready"

\* The state of a task none of whose dependencies has moved yet.
InitialState(dependencies) == IF dependencies = {} THEN "ready" ELSE "pending"

\* Mutant: one completed dependency is enough.
NextStateOnAnyCompleted(states) ==
    IF states \cap {"failed", "blocked"} # {} THEN "blocked"
    ELSE IF states \cap {"completed", "superseded"} # {} THEN "ready"
    ELSE "pending"

\* The state a dependent takes from the set of its dependencies' states.
NextStateForDependent(states) ==
    IF states \cap {"failed", "blocked"} # {} THEN "blocked"
    ELSE IF states \subseteq {"completed", "superseded"} THEN "ready"
    ELSE "pending"

\* Mutant: pending tasks do not count.
FromTasksIgnoringPending(states) ==
    IF states = {} THEN "planned"
    ELSE IF "failed" \in states THEN "failed"
    ELSE IF states \subseteq {"completed", "superseded", "pending"} THEN "completed"
    ELSE IF "blocked" \in states THEN "blocked"
    ELSE "active"

\* The run status that follows from the set of the tasks' states.
FromTasks(states) ==
    IF states = {} THEN "planned"
    ELSE IF "failed" \in states THEN "failed"
    ELSE IF states \subseteq {"completed", "superseded"} THEN "completed"
    ELSE IF /\ "blocked" \in states
            /\ states \cap {"ready", "running", "awaiting_integration",
                            "integrating"} = {}
         THEN "blocked"
    ELSE IF states \cap {"running", "awaiting_integration", "integrating",
                         "completed", "blocked"} # {}
         THEN "active"
    ELSE "planned"

-----------------------------------------------------------------------------
(***************************************************************************)
(* Graphs.  A plan is a record of two functions on Tasks: the dependencies *)
(* and the operation of each task.                                         *)
(***************************************************************************)
PlanType == [deps : [Tasks -> SUBSET Tasks], op : [Tasks -> Operations]]

Dependents(plan, t) == {d \in Tasks : t \in plan.deps[d]}

\* Everything t transitively depends on: the least set that holds t's
\* dependencies and the dependencies of its members.
Ancestors(plan, t) ==
    {a \in Tasks :
        \A S \in SUBSET Tasks :
            (/\ plan.deps[t] \subseteq S
             /\ \A s \in S : plan.deps[s] \subseteq S) => a \in S}

\* No task is its own ancestor: what the planner's validation and the check
\* at the start of a run both insist on.
Acyclic(plan) == \A t \in Tasks : t \notin Ancestors(plan, t)

\* Mutant: the nearest ancestor that implements or verifies.
NearestReworkSeeds(plan, t) ==
    LET candidates == {a \in Ancestors(plan, t) : plan.op[a] \in {"implement", "verify"}}
    IN  {s \in candidates : \A u \in candidates : u <= s}

\* The task a rejected review sends back to work: the ancestor of highest
\* position that implements, or failing that, that verifies.  A set of at most
\* one task.
ReworkSeeds(plan, t) ==
    LET ancestors(op) == {a \in Ancestors(plan, t) : plan.op[a] = op}
        candidates == IF ancestors("implement") # {} THEN ancestors("implement")
                      ELSE ancestors("verify")
    IN  {s \in candidates : \A u \in candidates : u <= s}
=============================================================================
