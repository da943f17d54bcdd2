--------------------------- MODULE Attempts_proof ---------------------------
(***************************************************************************)
(* Proofs about Attempts: the work of a run is kept, and judged, for every *)
(* plan and whatever the agents, the user and the server's stops do.       *)
(***************************************************************************)
EXTENDS Attempts, Inductions_proof

-----------------------------------------------------------------------------
(***************************************************************************)
(* The graph.  Ancestors is a least set; in an acyclic plan the tasks can  *)
(* be taken in an order in which every task comes after its dependencies.  *)
(***************************************************************************)
LEMMA AncestorsClosed ==
  ASSUME NEW p \in PlanType, NEW t \in Tasks
  PROVE  /\ Ancestors(p, t) \subseteq Tasks
         /\ p.deps[t] \subseteq Ancestors(p, t)
         /\ \A a \in Ancestors(p, t) : p.deps[a] \subseteq Ancestors(p, t)
<1>1. p.deps \in [Tasks -> SUBSET Tasks]
  BY DEF PlanType
<1>2. Ancestors(p, t) \subseteq Tasks
  BY DEF Ancestors
<1>3. p.deps[t] \subseteq Ancestors(p, t)
  BY <1>1 DEF Ancestors
<1>4. ASSUME NEW a \in Ancestors(p, t), NEW d \in p.deps[a] PROVE d \in Ancestors(p, t)
  <2>1. d \in Tasks
    BY <1>1, <1>2
  <2>2. ASSUME NEW S \in SUBSET Tasks, p.deps[t] \subseteq S, \A s \in S : p.deps[s] \subseteq S
        PROVE  d \in S
    <3>1. a \in S
      BY <2>2 DEF Ancestors
    <3> QED BY <2>2, <3>1
  <2> QED BY <2>1, <2>2 DEF Ancestors
<1> QED BY <1>2, <1>3, <1>4

(* The least set is below every set that is closed.                        *)
LEMMA AncestorsLeast ==
  ASSUME NEW p \in PlanType, NEW t \in Tasks, NEW S \in SUBSET Tasks,
         p.deps[t] \subseteq S, \A s \in S : p.deps[s] \subseteq S
  PROVE  Ancestors(p, t) \subseteq S
BY DEF Ancestors

LEMMA AncestorsTransitive ==
  ASSUME NEW p \in PlanType, NEW t \in Tasks, NEW a \in Ancestors(p, t)
  PROVE  Ancestors(p, a) \subseteq Ancestors(p, t)
<1>1. a \in Tasks
  BY DEF Ancestors
<1> QED BY <1>1, AncestorsClosed, AncestorsLeast

(* Any tasks of an acyclic plan have one among them that depends on none   *)
(* of them: the one with the fewest ancestors.                             *)
LEMMA FirstOfTasks ==
  ASSUME NEW p \in PlanType, Acyclic(p), NEW T \in SUBSET Tasks, T # {}
  PROVE  \E m \in T : p.deps[m] \cap T = {}
<1> DEFINE depth(t) == Cardinality(Ancestors(p, t))
           Depths == {depth(t) : t \in T}
<1>1. \A t \in Tasks : IsFiniteSet(Ancestors(p, t)) /\ depth(t) \in Nat
  BY TasksAssumption, AncestorsClosed, FS_Subset, FS_CardinalityType
<1>2. PICK n \in Depths : \A k \in Depths : n <= k
  <2>1. Depths \subseteq Nat /\ Depths # {}
    BY <1>1
  <2> QED BY <2>1, LeastNumber
<1>3. PICK m \in T : depth(m) = n
  BY <1>2
<1>4. ASSUME NEW d \in p.deps[m], d \in T PROVE FALSE
  <2>1. d \in Ancestors(p, m) /\ d \notin Ancestors(p, d) /\ d \in Tasks
    BY <1>4, AncestorsClosed DEF Acyclic
  <2>2. Ancestors(p, d) \subseteq Ancestors(p, m)
    BY <2>1, AncestorsTransitive
  <2>3. depth(d) <= depth(m) /\ depth(d) # depth(m)
    BY <1>1, <2>1, <2>2, FS_Subset
  <2>4. depth(m) <= depth(d)
    BY <1>2, <1>3, <1>4
  <2> QED BY <1>1, <2>1, <2>3, <2>4
<1> QED BY <1>3, <1>4

(* A function over an acyclic plan may be defined by recursion along the   *)
(* dependencies: F gives the value of a task from those of the tasks it    *)
(* depends on.                                                             *)
IsRecursion(p, V, F) == \A u \in Tasks : F[u] \in [[p.deps[u] -> V] -> V]
HasSolution(p, V, F) ==
  \E f \in [Tasks -> V] : \A u \in Tasks : f[u] = F[u][[d \in p.deps[u] |-> f[d]]]

LEMMA GraphRecursion ==
  ASSUME NEW p \in PlanType, Acyclic(p), NEW V, NEW F, IsRecursion(p, V, F)
  PROVE  HasSolution(p, V, F)
<1> USE DEF IsRecursion, HasSolution
<1> DEFINE Solves(f, S) == \A u \in S : f[u] = F[u][[d \in p.deps[u] |-> f[d]]]
           Solved == {S \in SUBSET Tasks : /\ \A u \in S : p.deps[u] \subseteq S
                                           /\ \E f \in [S -> V] : Solves(f, S)}
           Left == {Cardinality(Tasks \ S) : S \in Solved}
<1>1. \A S \in SUBSET Tasks : IsFiniteSet(Tasks \ S) /\ Cardinality(Tasks \ S) \in Nat
  BY TasksAssumption, FS_Subset, FS_CardinalityType
<1>2. {} \in Solved
  <2>1. [x \in {} |-> x] \in [{} -> V]
    OBVIOUS
  <2> QED BY <2>1
<1>3. PICK n \in Left : \A k \in Left : n <= k
  <2>1. Left \subseteq Nat /\ Left # {}
    <3>1. Solved \subseteq SUBSET Tasks
      OBVIOUS
    <3> HIDE DEF Solved
    <3>2. ASSUME NEW k \in Left PROVE k \in Nat
      <4>1. PICK S \in Solved : k = Cardinality(Tasks \ S)
        OBVIOUS
      <4> QED BY <1>1, <3>1, <4>1
    <3>3. Cardinality(Tasks \ {}) \in Left
      BY <1>2
    <3> QED BY <3>2, <3>3
  <2> QED BY <2>1, LeastNumber
<1>4. PICK S \in Solved : Cardinality(Tasks \ S) = n
  BY <1>3
<1>5. PICK f \in [S -> V] : Solves(f, S)
  BY <1>4
<1>6. ASSUME S # Tasks PROVE FALSE
  <2>1. PICK m \in Tasks \ S : p.deps[m] \cap (Tasks \ S) = {}
    BY <1>4, <1>6, FirstOfTasks
  <2>2. p.deps[m] \subseteq S
    BY <2>1 DEF PlanType
  <2> DEFINE g == [u \in S \cup {m} |-> IF u = m THEN F[m][[d \in p.deps[m] |-> f[d]]] ELSE f[u]]
  <2>3. \A u \in S : g[u] = f[u]
    BY <2>1
  <2>4. ASSUME NEW u \in S \cup {m} PROVE [d \in p.deps[u] |-> g[d]] = [d \in p.deps[u] |-> f[d]]
    <3>1. p.deps[u] \subseteq S
      BY <1>4, <2>2
    <3> HIDE DEF g
    <3> QED BY <2>3, <3>1
  <2>5. ASSUME NEW u \in S \cup {m} PROVE g[u] = F[u][[d \in p.deps[u] |-> g[d]]]
    <3>1. CASE u = m
      BY <2>4, <3>1
    <3>2. CASE u \in S
      BY <1>5, <2>3, <2>4, <3>2
    <3> QED BY <3>1, <3>2
  <2>6. g \in [S \cup {m} -> V]
    <3>1. [d \in p.deps[m] |-> f[d]] \in [p.deps[m] -> V]
      BY <2>2
    <3>2. F[m] \in [[p.deps[m] -> V] -> V]
      BY <2>1
    <3>3. F[m][[d \in p.deps[m] |-> f[d]]] \in V
      BY <3>1, <3>2
    <3> QED BY <3>3
  <2>7. S \cup {m} \in Solved
    <3>1. Solves(g, S \cup {m})
      BY <2>5
    <3>2. \A u \in S \cup {m} : p.deps[u] \subseteq S \cup {m}
      BY <1>4, <2>2
    <3>3. S \cup {m} \in SUBSET Tasks
      BY <1>4, <2>1
    <3> HIDE DEF g, Solves
    <3>4. \E h \in [S \cup {m} -> V] : Solves(h, S \cup {m})
      BY <2>6, <3>1
    <3> QED BY <3>2, <3>3, <3>4
  <2>8. Cardinality(Tasks \ (S \cup {m})) = n - 1 /\ n \in Nat
    <3>1. Tasks \ (S \cup {m}) = (Tasks \ S) \ {m}
      OBVIOUS
    <3>2. Cardinality((Tasks \ S) \ {m}) = Cardinality(Tasks \ S) - 1
      <4>1. IsFiniteSet(Tasks \ S)
        BY <1>1, <1>4
      <4> QED BY <2>1, <4>1, FS_RemoveElement
    <3> QED BY <1>1, <1>4, <3>1, <3>2
  <2>9. n - 1 \in Left
    BY <2>7, <2>8
  <2> HIDE DEF Left
  <2>10. n <= n - 1
    BY <1>3, <2>9
  <2> QED BY <2>8, <2>10
<1> QED BY <1>5, <1>6

(* What the writes after a mark amount to: the tasks reached from t        *)
(* through tasks that are not completed take the state of their            *)
(* dependencies, and nothing else changes.                                 *)
ReachStep(states, t, g, u) == \E d \in plan.deps[u] : d = t \/ (g[d] /\ states[d] # "completed")
Moved(reached, states, t, u) == reached[u] /\ u # t /\ states[u] # "completed"
MoveStep(reached, states, t, g, u) ==
  IF Moved(reached, states, t, u) THEN NextStateForDependent({g[d] : d \in plan.deps[u]}) ELSE states[u]

LEMMA CascadeSettles ==
  ASSUME plan \in Plans, NEW states \in [Tasks -> TaskStates], NEW t \in Tasks
  PROVE  /\ Cascade(states, t) \in [Tasks -> TaskStates]
         /\ \E reached \in [Tasks -> BOOLEAN] :
              /\ \A u \in Tasks : reached[u] = ReachStep(states, t, reached, u)
              /\ \A u \in Tasks : Cascade(states, t)[u] = MoveStep(reached, states, t, Cascade(states, t), u)
<1>1. plan \in PlanType /\ Acyclic(plan) /\ \A u \in Tasks : plan.deps[u] \subseteq Tasks
  BY AttemptsAssumption DEF PlanType
<1> DEFINE R == [u \in Tasks |-> [x \in [plan.deps[u] -> BOOLEAN] |-> ReachStep(states, t, x, u)]]
<1>2. IsRecursion(plan, BOOLEAN, R)
  BY DEF ReachStep, IsRecursion
<1>3. \E g : g = [u \in Tasks |-> ReachStep(states, t, g, u)]
  <2>1. \E g \in [Tasks -> BOOLEAN] : \A u \in Tasks : g[u] = R[u][[d \in plan.deps[u] |-> g[d]]]
    <3> HIDE DEF R
    <3>1. HasSolution(plan, BOOLEAN, R)
      BY <1>1, <1>2, GraphRecursion
    <3> QED BY <3>1 DEF HasSolution
  <2>2. PICK g \in [Tasks -> BOOLEAN] : \A u \in Tasks : g[u] = R[u][[d \in plan.deps[u] |-> g[d]]]
    BY <2>1
  <2>3. ASSUME NEW u \in Tasks PROVE g[u] = ReachStep(states, t, g, u)
    <3> DEFINE x == [d \in plan.deps[u] |-> g[d]]
    <3>1. x \in [plan.deps[u] -> BOOLEAN] /\ \A d \in plan.deps[u] : x[d] = g[d]
      BY <1>1
    <3>2. g[u] = ReachStep(states, t, x, u)
      <4> HIDE DEF x
      <4>1. R[u][x] = ReachStep(states, t, x, u)
        BY <3>1
      <4> QED BY <2>2, <4>1 DEF x
    <3> HIDE DEF x
    <3> QED BY <3>1, <3>2 DEF ReachStep
  <2> QED BY <2>3
<1> DEFINE reached == CHOOSE g : g = [u \in Tasks |-> ReachStep(states, t, g, u)]
<1>4. reached = [u \in Tasks |-> ReachStep(states, t, reached, u)]
  BY <1>3
<1>5. reached \in [Tasks -> BOOLEAN] /\ \A u \in Tasks : reached[u] = ReachStep(states, t, reached, u)
  <2> HIDE DEF reached
  <2> QED BY <1>4 DEF ReachStep
<1> DEFINE new == CHOOSE g : g = [u \in Tasks |-> MoveStep(reached, states, t, g, u)]
<1>6. Cascade(states, t) = new
  BY DEF Cascade, ReachStep, MoveStep, Moved
<1> HIDE DEF reached
<1> DEFINE N == [u \in Tasks |-> [x \in [plan.deps[u] -> TaskStates] |-> MoveStep(reached, states, t, x, u)]]
<1>7. IsRecursion(plan, TaskStates, N)
  BY DEF IsRecursion, MoveStep, NextStateForDependent, TaskStates
<1>8. \E g \in [Tasks -> TaskStates] : g = [u \in Tasks |-> MoveStep(reached, states, t, g, u)]
  <2>1. \E g \in [Tasks -> TaskStates] : \A u \in Tasks : g[u] = N[u][[d \in plan.deps[u] |-> g[d]]]
    <3> HIDE DEF N
    <3>1. HasSolution(plan, TaskStates, N)
      BY <1>1, <1>7, GraphRecursion
    <3> QED BY <3>1 DEF HasSolution
  <2>2. PICK g \in [Tasks -> TaskStates] : \A u \in Tasks : g[u] = N[u][[d \in plan.deps[u] |-> g[d]]]
    BY <2>1
  <2>3. ASSUME NEW u \in Tasks PROVE g[u] = MoveStep(reached, states, t, g, u)
    <3> DEFINE x == [d \in plan.deps[u] |-> g[d]]
    <3>1. x \in [plan.deps[u] -> TaskStates] /\ \A d \in plan.deps[u] : x[d] = g[d]
      BY <1>1
    <3>2. g[u] = MoveStep(reached, states, t, x, u)
      <4> HIDE DEF x
      <4>1. N[u][x] = MoveStep(reached, states, t, x, u)
        BY <3>1
      <4> QED BY <2>2, <4>1 DEF x
    <3> HIDE DEF x
    <3>3. {x[d] : d \in plan.deps[u]} = {g[d] : d \in plan.deps[u]}
      BY <3>1
    <3> QED BY <3>2, <3>3 DEF MoveStep
  <2> QED BY <2>3
<1>9. new = [u \in Tasks |-> MoveStep(reached, states, t, new, u)]
  BY <1>8
<1>10. \A u \in Tasks : new[u] = MoveStep(reached, states, t, new, u)
  <2> HIDE DEF new
  <2> QED BY <1>9
<1>11. new \in [Tasks -> TaskStates]
  <2> HIDE DEF new
  <2>1. \A u \in Tasks : MoveStep(reached, states, t, new, u) \in TaskStates
    BY DEF MoveStep, NextStateForDependent, TaskStates
  <2> QED BY <1>9, <2>1
<1> QED BY <1>5, <1>6, <1>10, <1>11

(* No write of a cascade completes a task, or undoes a completed one, but  *)
(* the one that was marked.                                                *)
LEMMA MarkShape ==
  ASSUME plan \in Plans, NEW states \in [Tasks -> TaskStates], NEW t \in Tasks, NEW s \in TaskStates
  PROVE  /\ MarkIn(states, t, s) \in [Tasks -> TaskStates]
         /\ MarkIn(states, t, s)[t] = s
         /\ \A u \in Tasks \ {t} : MarkIn(states, t, s)[u] = "completed" <=> states[u] = "completed"
         /\ \A u \in Tasks \ {t} : MarkIn(states, t, s)[u] = states[u]
                                     \/ MarkIn(states, t, s)[u] \in {"pending", "ready", "blocked"}
<1> DEFINE marked == [states EXCEPT ![t] = s]
           new == Cascade(marked, t)
<1>1. marked \in [Tasks -> TaskStates] /\ marked[t] = s /\ \A u \in Tasks \ {t} : marked[u] = states[u]
  OBVIOUS
<1> HIDE DEF marked
<1>2. /\ new \in [Tasks -> TaskStates]
      /\ \E reached \in [Tasks -> BOOLEAN] :
           \A u \in Tasks : new[u] = MoveStep(reached, marked, t, new, u)
  BY <1>1, CascadeSettles
<1> HIDE DEF new
<1>3. PICK reached \in [Tasks -> BOOLEAN] : \A u \in Tasks : new[u] = MoveStep(reached, marked, t, new, u)
  BY <1>2
<1>4. new[t] = s
  BY <1>1, <1>3 DEF MoveStep, Moved
<1>5. ASSUME NEW u \in Tasks \ {t}
      PROVE  /\ new[u] = "completed" <=> states[u] = "completed"
             /\ new[u] = states[u] \/ new[u] \in {"pending", "ready", "blocked"}
  BY <1>1, <1>3 DEF MoveStep, Moved, NextStateForDependent
<1> QED BY <1>2, <1>4, <1>5 DEF MarkIn, new, marked

-----------------------------------------------------------------------------
(***************************************************************************)
(* The types of the state, and where the executor stands.                  *)
(***************************************************************************)
Commits == Seq(Patches)
Trees == [head : Commits, work : SUBSET Patches, stuck : BOOLEAN]
Statuses == {"none", "running", "reviewing", "approved", "changes_requested", "failed",
             "cancelled", "interrupted"}
AttemptRows == [status : Statuses, changed : SUBSET Patches, seen : SUBSET Patches, commit : Commits]
Sessions == [job : {"none", "producer", "reviewer"}, ended : Ends \cup {"no"}]

\* The steps between the choice of a task and the end of its attempt; those
\* that have the worktree, and those that come after the producer.
WithTree == {"launch", "agent", "revoke", "evidence", "settle", "verdict", "integrate", "commit",
             "move", "follow", "record", "recordRebased", "outcome", "outcomeRebased", "approve",
             "remove", "prune"}
Working == WithTree \cup {"locate", "attach", "begin", "detach"}
AfterVerdict == {"integrate", "commit", "move", "follow", "record", "recordRebased", "outcome",
                 "outcomeRebased", "approve"}

Open == WithTree \ {"remove", "prune"}

BranchesOK(br) == DOMAIN br \subseteq Tasks \cup {RunBranch} /\ br \in [DOMAIN br -> Commits]
TreesOK(tr) == /\ DOMAIN tr \subseteq Tasks /\ tr \in [DOMAIN tr -> Trees]
               /\ \A t \in DOMAIN tr : IsFiniteSet(tr[t].work)

AttemptsTypeOK ==
  /\ plan \in Plans /\ main \in Commits
  /\ BranchesOK(branch) /\ TreesOK(tree)
  /\ path \subseteq Tasks /\ recorded \subseteq Commits
  /\ outcomes \in Seq(Tasks \X {"clean", "rebased", "conflict"})
  /\ task \in [Tasks -> TaskStates] /\ tries \in [Tasks -> Nat]
  /\ latest \in [Tasks -> AttemptRows]
  /\ artifacts \subseteq Tasks \X Nat
  /\ run \in {"active", "completed", "failed", "blocked", "cancelled"}
  /\ cur \in Tasks \cup {0} /\ pc \in Working \cup {"choose", "idle", "down"}
  /\ base \in Commits /\ session \in Sessions /\ ticket \in BOOLEAN /\ commit \in Commits
  /\ judged \in [Tasks -> Nat] /\ stops \in Nat

\* What the executor has at hand where it stands.
AtHand ==
  /\ pc \in Working => cur \in Tasks
  /\ pc \in WithTree \cup {"attach"} => cur \in DOMAIN tree
  /\ pc = "detach" => cur \notin DOMAIN tree
  /\ pc \in Open => task[cur] = "running"
  /\ pc = "down" => stops > 0
  /\ pc \in {"agent", "revoke"} => session.job = Job
  /\ pc \in {"evidence", "settle"} => session.job = "producer" /\ latest[cur].status # "reviewing"
  /\ pc = "verdict" => session.job = "reviewer"
  /\ pc \in {"verdict"} \cup AfterVerdict => latest[cur].status = "reviewing"
  /\ pc \in WithTree /\ latest[cur].status = "reviewing" => cur \in Implementing

\* What the reviewer is shown of the attempt is on its way to the run's
\* branch: in the worktree, then committed there, then on the branch.
InTree == latest[cur].seen \subseteq Contents(tree[cur].head) \cup tree[cur].work
OnItsWay ==
  /\ pc = "settle" => InTree
  /\ pc \in {"launch", "agent", "revoke", "verdict", "integrate", "commit"}
       /\ latest[cur].status = "reviewing" => InTree
  /\ pc \in {"move", "follow"} => latest[cur].seen \subseteq Contents(tree[cur].head)
  /\ pc \in AfterVerdict \ {"integrate"} => RunBranch \in DOMAIN branch
  /\ pc = "follow" => IsAncestor(branch[RunBranch], tree[cur].head)
  /\ pc \in {"record", "recordRebased"} => commit = branch[RunBranch]
  /\ pc \in {"record", "recordRebased", "outcome", "outcomeRebased", "approve"} =>
       latest[cur].seen \subseteq Contents(branch[RunBranch])

\* Until its rebase fails, a task's worktree stands on the task's branch, and
\* what its attempt left is on that branch or in that worktree.
Kept(t) ==
  /\ t \in DOMAIN tree => t \in DOMAIN branch /\ ~tree[t].stuck /\ tree[t].head = branch[t]
  /\ t \notin DOMAIN branch => latest[t].seen = {}
  /\ t \in DOMAIN branch =>
       latest[t].seen \subseteq Contents(branch[t]) \cup (IF t \in DOMAIN tree THEN tree[t].work ELSE {})
KeptOrConflict == \A t \in Tasks : <<t, "conflict">> \in ToSet(outcomes) \/ Kept(t)

\* A completed task that is not integrated, and one that is about to be, has
\* its latest attempt's artifact.
Reported ==
  /\ \A d \in Tasks : plan.op[d] # "implement" /\ task[d] = "completed" => <<d, tries[d]>> \in artifacts
  /\ pc \in {"launch", "agent", "revoke", "verdict"} \cup AfterVerdict
       /\ latest[cur].status = "reviewing" /\ plan.op[cur] # "implement" => <<cur, tries[cur]>> \in artifacts

-----------------------------------------------------------------------------
(***************************************************************************)
(* What the steps of Git do.                                               *)
(***************************************************************************)
LEMMA TasksArePositive == RunBranch \notin Tasks /\ RunBranch = 0
BY TasksAssumption DEF RunBranch

LEMMA UpdateRefShape ==
  ASSUME BranchesOK(branch), NEW b \in Tasks \cup {RunBranch}, NEW h \in Commits, UpdateRef(b, h)
  PROVE  /\ BranchesOK(branch')
         /\ DOMAIN branch' = DOMAIN branch \cup {b} /\ branch'[b] = h
         /\ \A c \in DOMAIN branch \ {b} : branch'[c] = branch[c]
BY DEF UpdateRef, With, BranchesOK

LEMMA AdvanceShape ==
  ASSUME BranchesOK(branch), TreesOK(tree), NEW t \in DOMAIN tree, NEW h \in Commits,
         NEW work \in SUBSET Patches, IsFiniteSet(work), Advance(t, h, work)
  PROVE  /\ BranchesOK(branch') /\ TreesOK(tree')
         /\ DOMAIN tree' = DOMAIN tree
         /\ tree'[t].head = h /\ tree'[t].work = work /\ tree'[t].stuck = tree[t].stuck
         /\ \A u \in DOMAIN tree \ {t} : tree'[u] = tree[u]
         /\ tree[t].stuck => branch' = branch
         /\ ~tree[t].stuck => DOMAIN branch' = DOMAIN branch \cup {t} /\ branch'[t] = h
         /\ \A c \in DOMAIN branch \ {t} : c \in DOMAIN branch' /\ branch'[c] = branch[c]
<1>1. t \in Tasks /\ tree[t] \in Trees
  BY DEF TreesOK
<1>2. /\ TreesOK(tree') /\ DOMAIN tree' = DOMAIN tree
      /\ tree'[t] = [tree[t] EXCEPT !.head = h, !.work = work]
      /\ tree'[t].head = h /\ tree'[t].work = work /\ tree'[t].stuck = tree[t].stuck
      /\ \A u \in DOMAIN tree \ {t} : tree'[u] = tree[u]
  BY <1>1 DEF Advance, TreesOK, Trees
<1>3. CASE tree[t].stuck
  BY <1>2, <1>3 DEF Advance
<1>4. CASE ~tree[t].stuck
  <2>1. UpdateRef(t, h)
    BY <1>4 DEF Advance
  <2>2. /\ BranchesOK(branch')
        /\ DOMAIN branch' = DOMAIN branch \cup {t} /\ branch'[t] = h
        /\ \A c \in DOMAIN branch \ {t} : branch'[c] = branch[c]
    BY <1>1, <2>1, UpdateRefShape
  <2> QED BY <1>2, <1>4, <2>2
<1> QED BY <1>3, <1>4

LEMMA AddWorktreeShape ==
  ASSUME BranchesOK(branch), TreesOK(tree), main \in Commits, NEW t \in Tasks, AddWorktree(t)
  PROVE  /\ BranchesOK(branch') /\ TreesOK(tree')
         /\ t \in DOMAIN tree => branch' = branch /\ tree' = tree
         /\ t \notin DOMAIN tree =>
              /\ DOMAIN tree' = DOMAIN tree \cup {t} /\ DOMAIN branch' = DOMAIN branch \cup {t}
              /\ \A u \in DOMAIN tree : tree'[u] = tree[u]
              /\ \A c \in DOMAIN branch : branch'[c] = branch[c]
              /\ tree'[t] = [head |-> branch'[t], work |-> {}, stuck |-> FALSE]
<1>1. CASE t \in DOMAIN tree
  BY <1>1 DEF AddWorktree, Registered
<1>2. CASE t \notin DOMAIN tree
  <2> DEFINE head == IF BranchExists(t) THEN branch[t] ELSE WorktreeBase
             w == [head |-> head, work |-> {}, stuck |-> FALSE]
  <2>1. UpdateRef(t, head) /\ tree' = With(tree, t, w)
    BY <1>2 DEF AddWorktree, Registered
  <2>2. head \in Commits
    BY DEF BranchExists, WorktreeBase, BranchesOK
  <2>3. IsFiniteSet({})
    BY FS_EmptySet
  <2>4. w \in Trees
    BY <2>2 DEF Trees
  <2>5. BranchExists(t) => head = branch[t]
    OBVIOUS
  <2> HIDE DEF head
  <2>6. /\ BranchesOK(branch')
        /\ DOMAIN branch' = DOMAIN branch \cup {t} /\ branch'[t] = head
        /\ \A c \in DOMAIN branch \ {t} : branch'[c] = branch[c]
    BY <2>1, <2>2, UpdateRefShape
  <2>7. \A c \in DOMAIN branch : branch'[c] = branch[c]
    BY <2>5, <2>6 DEF BranchExists
  <2>8. w.work = {} /\ w = [head |-> branch'[t], work |-> {}, stuck |-> FALSE]
    BY <2>6
  <2> HIDE DEF w
  <2>9. /\ DOMAIN tree' = DOMAIN tree \cup {t} /\ tree'[t] = w
        /\ \A u \in DOMAIN tree : tree'[u] = tree[u]
    BY <1>2, <2>1 DEF With
  <2>10. tree' = [u \in DOMAIN tree' |-> tree'[u]]
    BY <2>1 DEF With
  <2>11. TreesOK(tree')
    BY <2>3, <2>4, <2>8, <2>9, <2>10 DEF TreesOK
  <2> QED BY <1>2, <2>6, <2>7, <2>8, <2>9, <2>11
<1> QED BY <1>1, <1>2

LEMMA WithoutTreeShape ==
  ASSUME TreesOK(tree), NEW S, tree' = WithoutTree(S)
  PROVE  /\ TreesOK(tree') /\ DOMAIN tree' = DOMAIN tree \ S
         /\ \A t \in DOMAIN tree \ S : tree'[t] = tree[t]
BY DEF WithoutTree, TreesOK

(* What an agent leaves in the worktree is added to what was there, and    *)
(* no branch but its own moves.                                            *)
Writes ==
  /\ BranchesOK(branch') /\ TreesOK(tree') /\ DOMAIN tree' = DOMAIN tree
  /\ \A u \in DOMAIN tree \ {cur} : tree'[u] = tree[u]
  /\ \A c \in DOMAIN branch \ {cur} : branch'[c] = branch[c]
  /\ DOMAIN branch \subseteq DOMAIN branch' /\ DOMAIN branch' \subseteq DOMAIN branch \cup {cur}
  /\ Contents(tree[cur].head) \cup tree[cur].work \subseteq Contents(tree'[cur].head) \cup tree'[cur].work
  /\ cur \in DOMAIN branch /\ ~tree[cur].stuck /\ tree[cur].head = branch[cur] =>
       ~tree'[cur].stuck /\ cur \in DOMAIN branch' /\ tree'[cur].head = branch'[cur]

LEMMA AdvanceWrites ==
  ASSUME BranchesOK(branch), TreesOK(tree), cur \in DOMAIN tree, NEW h \in Commits,
         NEW work \in SUBSET Patches, IsFiniteSet(work), Advance(cur, h, work),
         Contents(tree[cur].head) \cup tree[cur].work \subseteq Contents(h) \cup work
  PROVE  Writes
<1>1. /\ BranchesOK(branch') /\ TreesOK(tree')
      /\ DOMAIN tree' = DOMAIN tree
      /\ tree'[cur].head = h /\ tree'[cur].work = work /\ tree'[cur].stuck = tree[cur].stuck
      /\ \A u \in DOMAIN tree \ {cur} : tree'[u] = tree[u]
      /\ tree[cur].stuck => branch' = branch
      /\ ~tree[cur].stuck => DOMAIN branch' = DOMAIN branch \cup {cur} /\ branch'[cur] = h
      /\ \A c \in DOMAIN branch \ {cur} : c \in DOMAIN branch' /\ branch'[c] = branch[c]
  BY AdvanceShape DEF Advance
<1> QED BY <1>1 DEF Writes

LEMMA AgentWritesShape ==
  ASSUME BranchesOK(branch), TreesOK(tree), cur \in DOMAIN tree, tries[cur] \in Nat, AgentWrites
  PROVE  Writes
<1> DEFINE patch(how) == [of |-> cur, attempt |-> tries[cur], how |-> how]
           w == tree[cur]
<1>1. /\ cur \in Tasks /\ w \in Trees /\ IsFiniteSet(w.work)
      /\ w.head \in Commits /\ w.work \in SUBSET Patches
  BY DEF TreesOK, Trees
<1>2. patch("work") \in Patches /\ patch("commit") \in Patches
  BY <1>1 DEF Patches
<1> DEFINE pw == patch("work")  pm == patch("commit")
<1>3. \/ UNCHANGED <<branch, tree>>
      \/ Advance(cur, w.head, w.work \cup {pw})
      \/ Advance(cur, Append(w.head, pm), w.work)
      \/ LET h == w.head \o SetToSeq(w.work)
         IN  /\ tree' = [tree EXCEPT ![cur] = [head |-> h, work |-> {}, stuck |-> FALSE]]
             /\ UpdateRef(cur, h)
  BY DEF AgentWrites
<1> HIDE DEF patch, pw, pm
<1>4. CASE UNCHANGED <<branch, tree>>
  BY <1>4 DEF Writes
<1>5. CASE Advance(cur, w.head, w.work \cup {pw})
  <2>1. IsFiniteSet(w.work \cup {pw}) /\ w.work \cup {pw} \in SUBSET Patches
    BY <1>1, <1>2, FS_AddElement DEF pw
  <2> QED BY <1>1, <1>5, <2>1, AdvanceWrites
<1>6. CASE Advance(cur, Append(w.head, pm), w.work)
  <2>1. Append(w.head, pm) \in Commits /\ Contents(Append(w.head, pm)) = Contents(w.head) \cup {pm}
    BY <1>1, <1>2, ContentsOfAppend DEF pm, Commits, Contents
  <2> QED BY <1>1, <1>6, <2>1, AdvanceWrites
<1>7. CASE LET h == w.head \o SetToSeq(w.work)
           IN  /\ tree' = [tree EXCEPT ![cur] = [head |-> h, work |-> {}, stuck |-> FALSE]]
               /\ UpdateRef(cur, h)
  <2> DEFINE h == w.head \o SetToSeq(w.work)
  <2>1. SetToSeq(w.work) \in Commits /\ ToSet(SetToSeq(w.work)) = w.work
    <3>1. SetToSeq(w.work) \in Seq(w.work) /\ ToSet(SetToSeq(w.work)) = w.work
      BY <1>1, ContentsOfSetToSeq
    <3> QED BY <1>1, <3>1 DEF Commits
  <2>2. h \in Commits /\ Contents(h) = Contents(w.head) \cup w.work
    BY <1>1, <2>1, ContentsOfConcat DEF Commits, Contents
  <2>3. /\ tree' = [tree EXCEPT ![cur] = [head |-> h, work |-> {}, stuck |-> FALSE]]
        /\ UpdateRef(cur, h)
    BY <1>7
  <2> HIDE DEF h
  <2>4. /\ BranchesOK(branch') /\ DOMAIN branch' = DOMAIN branch \cup {cur} /\ branch'[cur] = h
        /\ \A c \in DOMAIN branch \ {cur} : branch'[c] = branch[c]
    BY <1>1, <2>2, <2>3, UpdateRefShape
  <2>5. [head |-> h, work |-> {}, stuck |-> FALSE] \in Trees
    BY <2>2 DEF Trees
  <2>6. DOMAIN tree' = DOMAIN tree /\ tree'[cur].head = h /\ tree'[cur].work = {} /\ ~tree'[cur].stuck
        /\ \A u \in DOMAIN tree \ {cur} : tree'[u] = tree[u]
    BY <2>3
  <2>7. TreesOK(tree')
    <3>1. IsFiniteSet({})
      BY FS_EmptySet
    <3> QED BY <2>3, <2>5, <3>1 DEF TreesOK
  <2> QED BY <2>2, <2>4, <2>6, <2>7 DEF Writes
<1> QED BY <1>3, <1>4, <1>5, <1>6, <1>7

LEMMA CommitChangesShape ==
  ASSUME BranchesOK(branch), TreesOK(tree), cur \in DOMAIN tree, CommitChanges(cur)
  PROVE  Writes /\ tree'[cur].work = {}
<1>1. tree[cur].head \in Commits /\ tree[cur].work \subseteq Patches /\ IsFiniteSet(tree[cur].work)
  BY DEF TreesOK, Trees
<1> DEFINE more == SetToSeq(tree[cur].work)
<1>2. more \in Commits /\ Contents(more) = tree[cur].work
  <2>1. more \in Seq(tree[cur].work) /\ ToSet(more) = tree[cur].work
    BY <1>1, ContentsOfSetToSeq
  <2> QED BY <1>1, <2>1 DEF Commits, Contents
<1> HIDE DEF more
<1>3. tree[cur].head \o more \in Commits
      /\ Contents(tree[cur].head \o more) = Contents(tree[cur].head) \cup tree[cur].work
  BY <1>1, <1>2, ContentsOfConcat DEF Commits, Contents
<1>4. Advance(cur, tree[cur].head \o more, {})
  BY DEF CommitChanges, more
<1>5. IsFiniteSet({}) /\ {} \in SUBSET Patches
  BY FS_EmptySet
<1>6. Writes
  BY <1>3, <1>4, <1>5, AdvanceWrites
<1>7. tree'[cur].work = {}
  BY <1>1, <1>4 DEF Advance, TreesOK, Trees
<1> QED BY <1>6, <1>7

(* A rebase puts what is not on the other branch yet on top of it.         *)
LEMMA ReplayedShape ==
  ASSUME NEW h \in Commits, NEW onto \in Commits
  PROVE  /\ Replayed(h, onto) \in Commits /\ onto \o Replayed(h, onto) \in Commits
         /\ Contents(Replayed(h, onto)) = Contents(h) \ Contents(onto)
         /\ Contents(onto \o Replayed(h, onto)) = Contents(h) \cup Contents(onto)
         /\ IsAncestor(onto, onto \o Replayed(h, onto))
<1>1. Replayed(h, onto) \in Commits /\ Contents(Replayed(h, onto)) = Contents(h) \ Contents(onto)
  BY SiftContents DEF Commits, Contents, Replayed
<1>2. /\ Contents(onto \o Replayed(h, onto)) = Contents(onto) \cup Contents(Replayed(h, onto))
      /\ IsAncestor(onto, onto \o Replayed(h, onto))
  BY <1>1, ContentsOfConcat, PrefixOfConcat DEF Commits, Contents, IsAncestor
<1> QED BY <1>1, <1>2 DEF Commits

-----------------------------------------------------------------------------
(***************************************************************************)
(* What the steps that mark tasks do: they complete no task but one that   *)
(* they are told to complete.                                              *)
(***************************************************************************)
OnlyCompletes(S) == \A u \in Tasks \ S : task'[u] = "completed" => task[u] = "completed"
TasksOK == plan \in Plans /\ task \in [Tasks -> TaskStates]

LEMMA MarkTaskShape ==
  ASSUME TasksOK, NEW t \in Tasks, NEW s \in TaskStates, task' = MarkIn(task, t, s)
  PROVE  task' \in [Tasks -> TaskStates] /\ task'[t] = s /\ OnlyCompletes({t})
BY MarkShape DEF TasksOK, OnlyCompletes

LEMMA GiveUpShape ==
  ASSUME TasksOK, cur \in Tasks, NEW status, GiveUp(cur, status)
  PROVE  /\ task' \in [Tasks -> TaskStates] /\ task'[cur] = "failed" /\ OnlyCompletes({})
         /\ run' = status /\ pc' = "idle"
<1>1. task' = MarkIn(task, cur, "failed") /\ run' = status /\ pc' = "idle"
  BY DEF GiveUp, MarkTask, Stop, To
<1>2. "failed" \in TaskStates
  BY DEF TaskStates
<1>3. task' \in [Tasks -> TaskStates] /\ task'[cur] = "failed" /\ OnlyCompletes({cur})
  BY <1>1, <1>2, MarkTaskShape
<1> QED BY <1>1, <1>3 DEF OnlyCompletes

LEMMA TryAgainShape ==
  ASSUME TasksOK, cur \in Tasks, TryAgain(cur)
  PROVE  /\ task' \in [Tasks -> TaskStates] /\ task'[cur] \in {"failed", "ready"} /\ OnlyCompletes({})
         /\ run' \in {run, "failed"} /\ pc' \in {"idle", "locate"}
<1>1. \E s \in {"failed", "ready"} : task' = MarkIn(task, cur, s)
  BY DEF TryAgain, MarkTask
<1>2. run' \in {run, "failed"} /\ pc' \in {"idle", "locate"}
  BY DEF TryAgain, Stop, To
<1>3. PICK s \in {"failed", "ready"} : task' = MarkIn(task, cur, s)
  BY <1>1
<1>4. s \in TaskStates
  BY DEF TaskStates
<1>5. task' \in [Tasks -> TaskStates] /\ task'[cur] = s /\ OnlyCompletes({cur})
  BY <1>3, <1>4, MarkTaskShape
<1> QED BY <1>2, <1>5 DEF OnlyCompletes

LEMMA CompleteShape ==
  ASSUME TasksOK, cur \in Tasks, MarkTask(cur, "completed")
  PROVE  task' \in [Tasks -> TaskStates] /\ task'[cur] = "completed" /\ OnlyCompletes({cur})
<1>1. task' = MarkIn(task, cur, "completed") /\ "completed" \in TaskStates
  BY DEF MarkTask, TaskStates
<1> QED BY <1>1, MarkTaskShape

States == [Tasks -> TaskStates]
SameCompleted(before, after, t) ==
  \A u \in Tasks : u # t => (after[u] = "completed" <=> before[u] = "completed")

LEMMA MarkCompletes ==
  ASSUME plan \in Plans, NEW states \in States, NEW t \in Tasks, NEW s \in TaskStates
  PROVE  /\ MarkIn(states, t, s) \in States /\ MarkIn(states, t, s)[t] = s
         /\ SameCompleted(states, MarkIn(states, t, s), t)
BY MarkShape DEF States, SameCompleted

LEMMA ReworkShape ==
  ASSUME TasksOK, cur \in Tasks, ReworkAfterReview
  PROVE  /\ task' \in [Tasks -> TaskStates] /\ task'[cur] # "completed" /\ OnlyCompletes({})
         /\ run' \in {run, "failed"} /\ pc' \in {"idle", "choose"}
<1>1. CASE GiveUp(cur, "failed")
  <2>1. /\ task' \in [Tasks -> TaskStates] /\ task'[cur] = "failed" /\ OnlyCompletes({})
        /\ run' = "failed" /\ pc' = "idle"
    BY <1>1, GiveUpShape
  <2> QED BY <2>1
<1>2. CASE \E seed \in ReworkSeeds(plan, cur) :
             /\ task' = MarkIn(MarkIn(Unwound(task, cur, seed), cur, "blocked"), seed, "ready")
             /\ To("choose") /\ UNCHANGED run
  <2>1. PICK seed \in ReworkSeeds(plan, cur) :
             /\ task' = MarkIn(MarkIn(Unwound(task, cur, seed), cur, "blocked"), seed, "ready")
             /\ To("choose") /\ UNCHANGED run
    BY <1>2
  <2>2. seed \in Tasks
    BY <2>1 DEF ReworkSeeds, Ancestors
  <2>3. "blocked" \in TaskStates /\ "ready" \in TaskStates
    BY DEF TaskStates
  <2>4. PICK a \in States : a = Unwound(task, cur, seed) /\ \A u \in Tasks : a[u] = "completed" => task[u] = "completed"
    <3>1. Unwound(task, cur, seed) \in States
      BY DEF Unwound, TasksOK, TaskStates, States
    <3>2. \A u \in Tasks : Unwound(task, cur, seed)[u] = "completed" => task[u] = "completed"
      BY DEF Unwound
    <3> QED BY <3>1, <3>2
  <2>5. PICK b : b = MarkIn(a, cur, "blocked")
    OBVIOUS
  <2>6. b \in States /\ b[cur] = "blocked" /\ SameCompleted(a, b, cur)
    BY <2>3, <2>5, MarkCompletes DEF TasksOK
  <2>7. task' \in States /\ task'[seed] = "ready" /\ SameCompleted(b, task', seed)
    <3>1. task' = MarkIn(b, seed, "ready")
      BY <2>1, <2>4, <2>5
    <3> QED BY <2>2, <2>3, <2>6, <3>1, MarkCompletes DEF TasksOK
  <2>8. OnlyCompletes({}) /\ task'[cur] # "completed"
    BY <2>4, <2>6, <2>7 DEF OnlyCompletes, SameCompleted
  <2> QED BY <2>1, <2>7, <2>8 DEF To, States
<1> QED BY <1>1, <1>2 DEF ReworkAfterReview

-----------------------------------------------------------------------------
(***************************************************************************)
(* The types are kept.                                                     *)
(***************************************************************************)
LEMMA EvidenceShape ==
  ASSUME BranchesOK(branch), TreesOK(tree), base \in Commits, latest \in [Tasks -> AttemptRows],
         NEW t \in DOMAIN tree
  PROVE  Evidence(t) \in AttemptRows /\ Evidence(t).status = latest[t].status
         /\ Evidence(t).seen = Contents(tree[t].head) \cup tree[t].work
<1>1. t \in Tasks /\ tree[t].head \in Commits /\ tree[t].work \subseteq Patches
  BY DEF TreesOK, Trees
<1>2. Contents(base) \subseteq Patches /\ Contents(tree[t].head) \subseteq Patches
  BY <1>1, ContentsInSet DEF Contents, Commits
<1>3. ChangedFiles(t) \subseteq Patches
  BY <1>1, <1>2 DEF ChangedFiles
<1>4. <<>> \in Commits
  BY DEF Commits
<1> HIDE DEF Commits
<1> QED BY <1>1, <1>2, <1>3, <1>4 DEF Evidence, AttemptRows

LEMMA FinishShape ==
  ASSUME latest \in [Tasks -> AttemptRows], NEW t \in Tasks, NEW s \in Statuses, FinishAttempt(t, s)
  PROVE  /\ latest' \in [Tasks -> AttemptRows]
         /\ latest'[t].status = s /\ latest'[t].seen = latest[t].seen
         /\ latest'[t].commit = latest[t].commit
         /\ \A u \in Tasks \ {t} : latest'[u] = latest[u]
BY DEF FinishAttempt, AttemptRows

\* What a step that ends an attempt does to its rows.
Finishes ==
  /\ latest' \in [Tasks -> AttemptRows]
  /\ \A u \in Tasks : latest'[u].seen = latest[u].seen /\ (u # cur => latest'[u] = latest[u])
  /\ task' \in [Tasks -> TaskStates] /\ OnlyCompletes({cur})
  /\ run' \in {run, "failed", "cancelled"}

LEMMA OutputLimitShape ==
  ASSUME TasksOK, latest \in [Tasks -> AttemptRows], cur \in Tasks, OutputLimit
  PROVE  Finishes /\ OnlyCompletes({}) /\ pc' = "idle"
<1>1. FinishAttempt(cur, "failed") /\ GiveUp(cur, "failed") /\ "failed" \in Statuses
  BY DEF OutputLimit, Statuses
<1>2. /\ task' \in [Tasks -> TaskStates] /\ OnlyCompletes({}) /\ run' = "failed" /\ pc' = "idle"
  BY <1>1, GiveUpShape
<1>3. /\ latest' \in [Tasks -> AttemptRows] /\ latest'[cur].seen = latest[cur].seen
      /\ \A u \in Tasks \ {cur} : latest'[u] = latest[u]
  BY <1>1, FinishShape
<1> QED BY <1>2, <1>3 DEF Finishes, OnlyCompletes

LEMMA SettleShape ==
  ASSUME TasksOK, latest \in [Tasks -> AttemptRows], artifacts \subseteq Tasks \X Nat,
         tries \in [Tasks -> Nat], cur \in Tasks, Settle
  PROVE  /\ Finishes
         /\ artifacts \subseteq artifacts' /\ artifacts' \subseteq Tasks \X Nat
         /\ pc' \in {"idle", "locate", "launch", "prune", "choose"}
         /\ latest'[cur].status = "reviewing" => pc' = "launch"
         /\ pc' = "launch" => latest'[cur].status = "reviewing" /\ task' = task
         /\ pc' = "launch" => cur \in Implementing
         /\ pc' = "launch" /\ plan.op[cur] # "implement" => <<cur, tries[cur]>> \in artifacts'
         /\ task'[cur] = "completed" /\ pc' # "launch" =>
              cur \notin Implementing /\ <<cur, tries[cur]>> \in artifacts'
         /\ pc' = "prune" => cur \notin Implementing
<1>0. {"failed", "cancelled", "reviewing", "approved", "changes_requested"} \subseteq Statuses
  BY DEF Statuses
<1>1. CASE EnforceEvidencePolicy
  <2>1. FinishAttempt(cur, "failed") /\ GiveUp(cur, "failed") /\ UNCHANGED artifacts
    BY <1>1 DEF EnforceEvidencePolicy
  <2>2. /\ task' \in [Tasks -> TaskStates] /\ OnlyCompletes({}) /\ run' = "failed" /\ pc' = "idle"
        /\ task'[cur] = "failed"
    BY <2>1, GiveUpShape
  <2>3. /\ latest' \in [Tasks -> AttemptRows] /\ latest'[cur].seen = latest[cur].seen
        /\ latest'[cur].status = "failed" /\ \A u \in Tasks \ {cur} : latest'[u] = latest[u]
    BY <1>0, <2>1, FinishShape
  <2> QED BY <2>1, <2>2, <2>3 DEF Finishes, OnlyCompletes
<1>2. CASE ProducerFailed
  <2>1. PICK s \in {"failed", "cancelled"} : FinishAttempt(cur, s)
    BY <1>2 DEF ProducerFailed
  <2>2. UNCHANGED artifacts
    BY <1>2 DEF ProducerFailed
  <2>3. /\ latest' \in [Tasks -> AttemptRows] /\ latest'[cur].seen = latest[cur].seen
        /\ latest'[cur].status = s /\ \A u \in Tasks \ {cur} : latest'[u] = latest[u]
    BY <1>0, <2>1, FinishShape
  <2>4. /\ task' \in [Tasks -> TaskStates] /\ OnlyCompletes({}) /\ run' \in {run, "failed", "cancelled"}
        /\ task'[cur] # "completed" /\ pc' \in {"idle", "locate"}
    <3>1. CASE TryAgain(cur)
      BY <3>1, TryAgainShape
    <3>2. CASE \E status \in {"failed", "cancelled"} : GiveUp(cur, status)
      <4>1. PICK status \in {"failed", "cancelled"} : GiveUp(cur, status)
        BY <3>2
      <4> QED BY <4>1, GiveUpShape
    <3> QED BY <1>2, <3>1, <3>2 DEF ProducerFailed
  <2> QED BY <2>2, <2>3, <2>4 DEF Finishes, OnlyCompletes
<1>3. CASE ToReviewer
  <2>1. FinishAttempt(cur, "reviewing") /\ pc' = "launch" /\ UNCHANGED <<task, run>>
    BY <1>3 DEF ToReviewer, To
  <2>2. cur \in Implementing
    BY <1>3 DEF ToReviewer, Implementing
  <2>3. /\ latest' \in [Tasks -> AttemptRows] /\ latest'[cur].seen = latest[cur].seen
        /\ latest'[cur].status = "reviewing" /\ \A u \in Tasks \ {cur} : latest'[u] = latest[u]
    BY <1>0, <2>1, FinishShape
  <2>4. /\ artifacts \subseteq artifacts' /\ artifacts' \subseteq Tasks \X Nat
        /\ plan.op[cur] # "implement" => <<cur, tries[cur]>> \in artifacts'
    BY <1>3 DEF ToReviewer, PersistArtifact
  <2> QED BY <2>1, <2>2, <2>3, <2>4 DEF Finishes, OnlyCompletes, TasksOK
<1>4. ASSUME AdvisoryDone \/ (SpecializedVerdict /\ session.ended = "approve")
      PROVE  /\ Finishes /\ pc' = "prune" /\ latest'[cur].status = "approved"
             /\ artifacts' = artifacts \cup {<<cur, tries[cur]>>} /\ cur \notin Implementing
  <2>1. /\ FinishAttempt(cur, "approved") /\ MarkTask(cur, "completed") /\ UNCHANGED run
        /\ pc' = "prune" /\ artifacts' = artifacts \cup {<<cur, tries[cur]>>}
    BY <1>4 DEF AdvisoryDone, SpecializedVerdict, PersistArtifact, To
  <2>2. cur \notin Implementing
    BY <1>4 DEF AdvisoryDone, SpecializedVerdict, Implementing
  <2>3. /\ latest' \in [Tasks -> AttemptRows] /\ latest'[cur].seen = latest[cur].seen
        /\ latest'[cur].status = "approved" /\ \A u \in Tasks \ {cur} : latest'[u] = latest[u]
    BY <1>0, <2>1, FinishShape
  <2>4. task' \in [Tasks -> TaskStates] /\ OnlyCompletes({cur})
    BY <2>1, CompleteShape
  <2> QED BY <2>1, <2>2, <2>3, <2>4 DEF Finishes
<1>5. CASE AdvisoryDone \/ (SpecializedVerdict /\ session.ended = "approve")
  BY <1>4, <1>5
<1>6. CASE SpecializedVerdict /\ session.ended # "approve"
  <2>1. /\ FinishAttempt(cur, "changes_requested") /\ ReworkAfterReview
        /\ artifacts' = artifacts \cup {<<cur, tries[cur]>>}
    BY <1>6 DEF SpecializedVerdict, PersistArtifact
  <2>2. /\ latest' \in [Tasks -> AttemptRows] /\ latest'[cur].seen = latest[cur].seen
        /\ latest'[cur].status = "changes_requested" /\ \A u \in Tasks \ {cur} : latest'[u] = latest[u]
    BY <1>0, <2>1, FinishShape
  <2>3. /\ task' \in [Tasks -> TaskStates] /\ task'[cur] # "completed" /\ OnlyCompletes({})
        /\ run' \in {run, "failed"} /\ pc' \in {"idle", "choose"}
    BY <2>1, ReworkShape
  <2> QED BY <2>1, <2>2, <2>3 DEF Finishes, OnlyCompletes
<1> QED BY <1>1, <1>2, <1>3, <1>5, <1>6 DEF Settle

LEMMA VerdictShape ==
  ASSUME TasksOK, latest \in [Tasks -> AttemptRows], cur \in Tasks, Verdict
  PROVE  /\ Finishes /\ OnlyCompletes({})
         /\ pc' \in {"idle", "locate", "integrate"}
         /\ pc' = "integrate" => latest' = latest /\ task' = task /\ run' = run
<1>0. {"failed", "cancelled", "reviewing", "approved", "changes_requested"} \subseteq Statuses
  BY DEF Statuses
<1>1. CASE session.ended = "approve" /\ To("integrate") /\ UNCHANGED <<latest, task, run>>
  BY <1>1 DEF To, Finishes, OnlyCompletes, TasksOK
<1>2. CASE OutputLimit
  BY <1>2, OutputLimitShape
<1>3. CASE \E s \in {"failed", "cancelled"} : FinishAttempt(cur, s) /\ GiveUp(cur, s)
  <2>1. PICK s \in {"failed", "cancelled"} : FinishAttempt(cur, s) /\ GiveUp(cur, s)
    BY <1>3
  <2>2. /\ latest' \in [Tasks -> AttemptRows] /\ latest'[cur].seen = latest[cur].seen
        /\ \A u \in Tasks \ {cur} : latest'[u] = latest[u]
    BY <1>0, <2>1, FinishShape
  <2>3. /\ task' \in [Tasks -> TaskStates] /\ OnlyCompletes({}) /\ run' = s /\ pc' = "idle"
    BY <2>1, GiveUpShape
  <2> QED BY <2>2, <2>3 DEF Finishes, OnlyCompletes
<1>4. CASE FinishAttempt(cur, "changes_requested") /\ TryAgain(cur)
  <2>1. /\ latest' \in [Tasks -> AttemptRows] /\ latest'[cur].seen = latest[cur].seen
        /\ \A u \in Tasks \ {cur} : latest'[u] = latest[u]
    BY <1>0, <1>4, FinishShape
  <2>2. /\ task' \in [Tasks -> TaskStates] /\ OnlyCompletes({}) /\ run' \in {run, "failed"}
        /\ pc' \in {"idle", "locate"}
    BY <1>4, TryAgainShape
  <2> QED BY <2>1, <2>2 DEF Finishes, OnlyCompletes
<1> QED BY <1>1, <1>2, <1>3, <1>4 DEF Verdict
LEMMA InitTypes == AttemptsInit => AttemptsTypeOK
<1> SUFFICES ASSUME AttemptsInit PROVE AttemptsTypeOK
  OBVIOUS
<1>1. plan \in Plans /\ plan \in PlanType
  BY AttemptsAssumption DEF AttemptsInit
<1>2. task \in [Tasks -> TaskStates]
  BY DEF AttemptsInit, InitialState, TaskStates
<1>3. <<>> \in Commits
  BY DEF Commits
<1>4. NoAttempt \in AttemptRows
  BY <1>3 DEF NoAttempt, AttemptRows, Statuses
<1>5. BranchesOK(branch) /\ TreesOK(tree)
  <2>1. DOMAIN branch = {} /\ DOMAIN tree = {} /\ branch \in [{} -> Commits] /\ tree \in [{} -> Trees]
    BY DEF AttemptsInit
  <2> QED BY <2>1 DEF BranchesOK, TreesOK
<1>6. session \in Sessions
  BY DEF AttemptsInit, NoSession, Sessions
<1>7. outcomes \in Seq(Tasks \X {"clean", "rebased", "conflict"})
  BY DEF AttemptsInit
<1> HIDE DEF Commits
<1> QED BY <1>1, <1>2, <1>3, <1>4, <1>5, <1>6, <1>7 DEF AttemptsInit, AttemptsTypeOK, Working, WithTree

AttemptsInv ==
  /\ AttemptsTypeOK /\ AtHand /\ OnItsWay /\ KeptOrConflict /\ Reported
  /\ ApprovedIsIntegrated /\ RecordedIsOnBranch /\ RowsNameTrees /\ GrantsAreShort

LEMMA TypeStep ==
  ASSUME AttemptsTypeOK, AtHand, OnItsWay, AttemptsNext
  PROVE  AttemptsTypeOK'
<1> DEFINE Pcs == Working \cup {"choose", "idle", "down"}
<1>0. /\ TasksOK /\ BranchesOK(branch) /\ TreesOK(tree) /\ main \in Commits /\ base \in Commits
      /\ latest \in [Tasks -> AttemptRows] /\ tries \in [Tasks -> Nat] /\ artifacts \subseteq Tasks \X Nat
  BY DEF AttemptsTypeOK, TasksOK
<1>a. <<>> \in Commits
  BY DEF Commits
<1> USE DEF AttemptsTypeOK, To
<1>1. CASE Choose
  <2>1. cur' \in Tasks \cup {0}
    BY <1>1 DEF Choose, ReadyTasks
  <2>2. run' \in {"active", "completed", "failed", "blocked", "cancelled"} /\ pc' \in {"idle", "locate"}
    BY <1>1 DEF Choose, Stop
  <2> QED BY <1>1, <1>a, <2>1, <2>2 DEF Choose, Rows, Git, Working
<1>2. CASE Locate
  <2>1. cur \in Tasks /\ run' \in {run, "failed"} /\ pc' \in {"idle", "begin", "attach"}
    BY <1>2 DEF Locate, AtHand, Working, Stop
  <2>2. BranchesOK(branch') /\ TreesOK(tree')
    <3>1. CASE AddWorktree(cur)
      BY <1>0, <2>1, <3>1, AddWorktreeShape
    <3> QED BY <1>2, <3>1 DEF Locate
  <2> QED BY <1>2, <2>1, <2>2 DEF Locate, Hand, Working
<1>3. CASE Attach
  BY <1>3 DEF Attach, Git, Hand, AtHand, Working, WithTree
<1>4. CASE BeginFails
  BY <1>4 DEF BeginFails, Git, Hand, Stop
<1>5. CASE Begin
  <2>1. cur \in Tasks /\ cur \in DOMAIN tree
    BY <1>5 DEF Begin, AtHand, Working, Registered
  <2>2. task' \in [Tasks -> TaskStates]
    <3>1. task' = MarkIn(task, cur, "running") /\ "running" \in TaskStates
      BY <1>5 DEF Begin, MarkTask, TaskStates
    <3> QED BY <1>0, <2>1, <3>1, MarkTaskShape
  <2>3. base' \in Commits
    <3>1. tree[cur].head \in Commits
      BY <2>1 DEF TreesOK, Trees
    <3> QED BY <1>5, <3>1 DEF Begin, AttemptBase
  <2>4. judged' \in [Tasks -> Nat]
    <3>1. plan \in PlanType /\ cur \in Tasks
      BY <2>1, AttemptsAssumption
    <3>2. EvaluationTarget(cur) \subseteq Tasks
      BY <3>1 DEF EvaluationTarget, PlanType
    <3>3. Judges(cur) \in Nat
      BY <3>2 DEF Judges
    <3> QED BY <1>5, <3>3 DEF Begin
  <2>5. latest' \in [Tasks -> AttemptRows]
    <3>1. NewAttempt \in AttemptRows
      BY <1>a DEF NewAttempt, NoAttempt, AttemptRows, Statuses
    <3> QED BY <1>5, <3>1 DEF Begin
  <2> QED BY <1>5, <2>2, <2>3, <2>4, <2>5 DEF Begin, Git, Working, WithTree
<1>6. CASE Launch
  <2>1. session' \in Sessions
    BY <1>6 DEF Launch, OpenSession, Job, Sessions
  <2> QED BY <1>6, <2>1 DEF Launch, GrantTools, Git, Rows, Working, WithTree
<1>7. CASE AgentEnds
  <2>1. cur \in DOMAIN tree /\ cur \in Tasks
    BY <1>7 DEF AgentEnds, AtHand, WithTree, Working
  <2>2. BranchesOK(branch') /\ TreesOK(tree')
    <3>1. CASE AgentWrites
      BY <1>0, <2>1, <3>1, AgentWritesShape DEF Writes
    <3> QED BY <1>7, <3>1 DEF AgentEnds
  <2>3. session' \in Sessions
    BY <1>7 DEF AgentEnds, Sessions, Ends
  <2> QED BY <1>7, <2>2, <2>3 DEF AgentEnds, Rows, Working, WithTree
<1>8. CASE Revoke
  BY <1>8 DEF Revoke, WithdrawGrant, Git, Rows, Working, WithTree
<1>b. cur \in Tasks /\ pc \in WithTree => cur \in DOMAIN tree
  BY DEF AtHand
<1>c. NoSession \in Sessions
  BY DEF NoSession, Sessions
<1>9. CASE CollectEvidence
  <2>1. cur \in DOMAIN tree /\ cur \in Tasks
    BY <1>9 DEF CollectEvidence, AtHand, WithTree, Working
  <2>2. CASE OutputLimit /\ CloseSession
    <3>1. Finishes /\ pc' = "idle" /\ session' = NoSession
      BY <1>0, <2>1, <2>2, OutputLimitShape DEF CloseSession
    <3> QED BY <1>9, <1>c, <3>1 DEF CollectEvidence, Git, Finishes
  <2>3. CASE latest' = [latest EXCEPT ![cur] = Evidence(cur)] /\ pc' = "settle" /\ UNCHANGED <<task, run, session>>
    <3>1. Evidence(cur) \in AttemptRows
      BY <1>0, <2>1, EvidenceShape
    <3> QED BY <1>9, <2>3, <3>1 DEF CollectEvidence, Git, Working, WithTree
  <2> QED BY <1>9, <2>2, <2>3 DEF CollectEvidence
<1>10. CASE Settle
  <2>1. cur \in Tasks /\ session' = NoSession
    BY <1>10 DEF Settle, AtHand, WithTree, Working, CloseSession
  <2>2. Finishes /\ artifacts' \subseteq Tasks \X Nat /\ pc' \in {"idle", "locate", "launch", "prune", "choose"}
    BY <1>0, <1>10, <2>1, SettleShape
  <2> QED BY <1>10, <1>c, <2>1, <2>2 DEF Settle, Git, Finishes, Working, WithTree
<1>11. CASE Verdict
  <2>1. cur \in Tasks /\ session' = NoSession
    BY <1>11 DEF Verdict, AtHand, WithTree, Working, CloseSession
  <2>2. Finishes /\ pc' \in {"idle", "locate", "integrate"}
    BY <1>0, <1>11, <2>1, VerdictShape
  <2> QED BY <1>11, <1>c, <2>1, <2>2 DEF Verdict, Git, Finishes, Working, WithTree
<1>12. CASE Integrate
  <2>1. BranchesOK(branch')
    <3>1. CASE UpdateRef(RunBranch, main)
      BY <1>0, <3>1, UpdateRefShape
    <3> QED BY <1>12, <3>1 DEF Integrate
  <2> QED BY <1>12, <2>1 DEF Integrate, Untouched, Working, WithTree
<1>13. CASE CommitOutput
  <2>1. cur \in DOMAIN tree
    BY <1>13 DEF CommitOutput, AtHand, WithTree
  <2>2. BranchesOK(branch') /\ TreesOK(tree')
    <3>1. CASE CommitChanges(cur)
      BY <1>0, <2>1, <3>1, CommitChangesShape DEF Writes
    <3> QED BY <1>13, <3>1 DEF CommitOutput
  <2> QED BY <1>13, <2>2 DEF CommitOutput, Untouched, Working, WithTree
<1>14. CASE Move
  <2>1. cur \in DOMAIN tree /\ cur \in Tasks /\ RunBranch \in DOMAIN branch
    BY <1>14 DEF Move, AtHand, WithTree, Working, OnItsWay, AfterVerdict
  <2>2. tree[cur].head \in Commits /\ branch[RunBranch] \in Commits /\ latest[cur].commit \in Commits
    BY <2>1 DEF TreesOK, BranchesOK, Trees, AttemptRows
  <2>3. CASE NothingNew
    BY <1>14, <2>2, <2>3 DEF Move, NothingNew, Untouched, Working, WithTree
  <2>4. CASE Clean
    <3>1. BranchesOK(branch')
      BY <1>0, <2>2, <2>4, UpdateRefShape DEF Clean
    <3> QED BY <1>14, <2>2, <2>4, <3>1 DEF Move, Clean, Untouched, Working, WithTree
  <2> DEFINE more == Replayed(tree[cur].head, branch[RunBranch])
  <2>5. more \in Commits /\ branch[RunBranch] \o more \in Commits /\ Contents(more) \subseteq Patches
        /\ IsFiniteSet(Contents(more))
    <3>1. more \in Commits /\ branch[RunBranch] \o more \in Commits
      BY <2>2, ReplayedShape
    <3> HIDE DEF more
    <3> QED BY <3>1, ContentsInSet, ContentsFinite DEF Commits, Contents
  <2>6. CASE Rebase
    <3>1. Advance(cur, branch[RunBranch] \o more, {}) /\ pc' = "follow" /\ UNCHANGED <<outcomes, commit, run>>
      BY <2>6 DEF Rebase
    <3> HIDE DEF more
    <3>2. PICK h \in Commits : h = branch[RunBranch] \o more
      BY <2>5
    <3>3. IsFiniteSet({}) /\ {} \in SUBSET Patches /\ Advance(cur, h, {})
      BY <3>1, <3>2, FS_EmptySet
    <3>4. BranchesOK(branch') /\ TreesOK(tree')
      BY <1>0, <2>1, <3>3, AdvanceShape DEF Advance
    <3> QED BY <1>14, <3>1, <3>4 DEF Move, Untouched, Working, WithTree
  <2>7. CASE Conflict
    <3> HIDE DEF more
    <3>1. TreesOK(tree')
      <4>1. CASE UNCHANGED tree
        BY <4>1
      <4>2. CASE tree' = [tree EXCEPT ![cur] = [head |-> branch[RunBranch], stuck |-> TRUE, work |-> Contents(more)]]
        <5>1. [head |-> branch[RunBranch], stuck |-> TRUE, work |-> Contents(more)] \in Trees
          BY <2>2, <2>5 DEF Trees
        <5> QED BY <2>5, <4>2, <5>1 DEF TreesOK
      <4> QED BY <2>7, <4>1, <4>2 DEF Conflict, more
    <3>2. <<cur, "conflict">> \in Tasks \X {"clean", "rebased", "conflict"}
      BY <2>1
    <3>3. outcomes' \in Seq(Tasks \X {"clean", "rebased", "conflict"})
      BY <2>7, <3>2 DEF Conflict, Outcome
    <3> QED BY <1>14, <2>7, <3>1, <3>3 DEF Move, Conflict, Stop, Untouched
  <2> QED BY <1>14, <2>3, <2>4, <2>6, <2>7 DEF Move
<1>15. CASE Follow
  <2>1. cur \in DOMAIN tree
    BY <1>15 DEF Follow, AtHand, WithTree
  <2>2. tree[cur].head \in Commits
    BY <2>1 DEF TreesOK, Trees
  <2>3. BranchesOK(branch')
    BY <1>0, <1>15, <2>2, UpdateRefShape DEF Follow
  <2> QED BY <1>15, <2>2, <2>3 DEF Follow, Untouched, Working, WithTree
<1>16. CASE SetRunIntegration
  BY <1>16 DEF SetRunIntegration, Untouched, Git, Working, WithTree
<1>17. CASE RecordOutcome
  <2>1. cur \in Tasks
    BY <1>17 DEF RecordOutcome, AtHand, Working, WithTree
  <2>2. outcomes' \in Seq(Tasks \X {"clean", "rebased", "conflict"})
    <3>1. \A k \in {"clean", "rebased"} : <<cur, k>> \in Tasks \X {"clean", "rebased", "conflict"}
      BY <2>1
    <3> QED BY <1>17, <3>1 DEF RecordOutcome, Outcome
  <2> QED BY <1>17, <2>2 DEF RecordOutcome, Untouched, Git, Working, WithTree
<1>18. CASE Approve
  <2>1. cur \in Tasks
    BY <1>18 DEF Approve, AtHand, Working, WithTree
  <2>2. task' \in [Tasks -> TaskStates]
    BY <1>0, <1>18, <2>1, CompleteShape DEF Approve
  <2>3. latest' \in [Tasks -> AttemptRows]
    BY <1>18, <2>1 DEF Approve, AttemptRows, Statuses
  <2> QED BY <1>18, <2>2, <2>3 DEF Approve, Hand, Git, Working, WithTree
<1>19. CASE RemoveWorktree
  <2>1. TreesOK(tree')
    BY <1>0, <1>19, WithoutTreeShape DEF RemoveWorktree
  <2> QED BY <1>19, <2>1 DEF RemoveWorktree, Hand, Stop, Working
<1>20. CASE PruneInertWorktree
  BY <1>20 DEF PruneInertWorktree, Hand, Git, Rows, Working, WithTree
<1>21. CASE Detach
  BY <1>21 DEF Detach, Hand, Git
<1>22. CASE UserCommits
  <2>1. main' \in Commits
    <3>1. [of |-> 0, attempt |-> 0, how |-> "commit"] \in Patches
      BY DEF Patches
    <3> QED BY <1>22, <3>1 DEF UserCommits, Commits
  <2> QED BY <1>22, <2>1 DEF UserCommits, Hand, Rows
<1>23. ASSUME NEW t \in Tasks, RetryTask(t) PROVE AttemptsTypeOK'
  <2>1. task' \in [Tasks -> TaskStates]
    <3>1. task' = MarkIn(task, t, "ready") /\ "ready" \in TaskStates
      BY <1>23 DEF RetryTask, MarkTask, TaskStates
    <3> QED BY <1>0, <3>1, MarkTaskShape
  <2> QED BY <1>23, <2>1 DEF RetryTask, Hand, Git
<1>24. CASE ServerStops
  BY <1>24 DEF ServerStops, Hand, Git, Rows
<1>25. CASE Reconcile
  <2>1. TreesOK(tree')
    BY <1>0, <1>25, WithoutTreeShape DEF Reconcile, PruneCleanWorktrees
  <2>2. path' \subseteq Tasks
    BY <1>25 DEF Reconcile, PruneCleanWorktrees
  <2>3. latest' \in [Tasks -> AttemptRows]
    BY <1>25 DEF Reconcile, AttemptRows, Statuses
  <2>4. task' \in [Tasks -> TaskStates]
    BY <1>25 DEF Reconcile, TaskStates
  <2> QED BY <1>25, <1>c, <2>1, <2>2, <2>3, <2>4 DEF Reconcile, Hand, Git
<1> QED
  BY <1>1, <1>2, <1>3, <1>4, <1>5, <1>6, <1>7, <1>8, <1>9, <1>10, <1>11, <1>12, <1>13, <1>14, <1>15,
     <1>16, <1>17, <1>18, <1>19, <1>20, <1>21, <1>22, <1>23, <1>24, <1>25 DEF AttemptsNext, ExecutorStep
-----------------------------------------------------------------------------
(***************************************************************************)
(* Where the executor stands is kept.                                      *)
(***************************************************************************)
LEMMA AtHandStep ==
  ASSUME AttemptsTypeOK, AtHand, OnItsWay, AttemptsNext
  PROVE  AtHand'
<1>0. /\ TasksOK /\ BranchesOK(branch) /\ TreesOK(tree) /\ main \in Commits /\ base \in Commits
      /\ latest \in [Tasks -> AttemptRows] /\ tries \in [Tasks -> Nat] /\ artifacts \subseteq Tasks \X Nat
      /\ stops \in Nat
  BY DEF AttemptsTypeOK, TasksOK
<1> USE DEF To
<1> USE DEF Working, WithTree, Open, AfterVerdict
<1>1. CASE Choose
  <2>1. pc' = "locate" => cur' \in Tasks
    BY <1>1 DEF Choose, Stop, ReadyTasks
  <2>2. pc' \in {"idle", "locate"}
    BY <1>1 DEF Choose, Stop
  <2> QED BY <2>1, <2>2 DEF AtHand
<1>2. CASE Locate
  <2>1. cur \in Tasks /\ pc' \in {"idle", "begin", "attach"} /\ cur' = cur
    BY <1>2 DEF Locate, AtHand, Stop
  <2>2. pc' = "attach" => AddWorktree(cur)
    BY <1>2 DEF Locate, Stop
  <2>3. pc' = "attach" => cur \in DOMAIN tree'
    BY <1>0, <2>1, <2>2, AddWorktreeShape
  <2> QED BY <2>1, <2>3 DEF AtHand
<1>3. CASE Attach
  BY <1>3 DEF Attach, Git, Hand, AtHand
<1>4. CASE BeginFails
  BY <1>4 DEF BeginFails, Git, Hand, Stop, AtHand
<1>5. CASE Begin
  <2>1. cur \in Tasks /\ cur \in DOMAIN tree
    BY <1>5 DEF Begin, AtHand, Registered
  <2>2. task'[cur] = "running"
    <3>1. task' = MarkIn(task, cur, "running") /\ "running" \in TaskStates
      BY <1>5 DEF Begin, MarkTask, TaskStates
    <3> QED BY <1>0, <2>1, <3>1, MarkTaskShape
  <2>3. latest'[cur].status = "running"
    BY <1>0, <1>5, <2>1 DEF Begin, NewAttempt, NoAttempt
  <2> QED BY <1>5, <2>1, <2>2, <2>3 DEF AtHand, Begin, Git
<1>6. CASE Launch
  BY <1>6 DEF Launch, Git, Rows, AtHand, OpenSession, Job, Implementing
<1>7. CASE AgentEnds
  <2>1. cur \in DOMAIN tree /\ cur \in Tasks /\ session.job = Job /\ session \in Sessions
    BY <1>7 DEF AgentEnds, AtHand, AttemptsTypeOK
  <2>2. DOMAIN tree' = DOMAIN tree
    <3>1. CASE AgentWrites
      BY <1>0, <2>1, <3>1, AgentWritesShape DEF Writes
    <3> QED BY <1>7, <3>1 DEF AgentEnds
  <2>3. session'.job = session.job
    BY <1>7, <2>1 DEF AgentEnds, Sessions
  <2> QED BY <1>7, <2>1, <2>2, <2>3 DEF AgentEnds, Rows, AtHand, Job, Implementing
<1>8. CASE Revoke
  BY <1>8 DEF Revoke, WithdrawGrant, Git, Rows, AtHand, Job, Implementing
<1>9. CASE CollectEvidence
  <2>1. cur \in DOMAIN tree /\ cur \in Tasks
    BY <1>9 DEF CollectEvidence, AtHand
  <2>2. CASE OutputLimit /\ CloseSession
    <3>1. pc' = "idle"
      BY <1>0, <2>1, <2>2, OutputLimitShape
    <3> QED BY <3>1 DEF AtHand
  <2>3. CASE latest' = [latest EXCEPT ![cur] = Evidence(cur)] /\ pc' = "settle" /\ UNCHANGED <<task, run, session>>
    <3>1. Evidence(cur).status = latest[cur].status
      BY DEF Evidence
    <3>2. latest'[cur].status = latest[cur].status
      BY <1>0, <2>1, <2>3, <3>1
    <3> QED BY <1>9, <2>3, <3>2 DEF CollectEvidence, Git, AtHand, Implementing
  <2> QED BY <1>9, <2>2, <2>3 DEF CollectEvidence
<1>10. CASE Settle
  <2>1. cur \in Tasks /\ cur \in DOMAIN tree /\ task[cur] = "running"
    BY <1>10 DEF Settle, AtHand
  <2>2. /\ pc' \in {"idle", "locate", "launch", "prune", "choose"}
        /\ latest'[cur].status = "reviewing" => pc' = "launch"
        /\ pc' = "launch" => latest'[cur].status = "reviewing" /\ task' = task
        /\ pc' = "launch" => cur \in Implementing
    <3>1. latest \in [Tasks -> AttemptRows] /\ tries \in [Tasks -> Nat]
      BY <1>0
    <3> HIDE DEF To, Working, WithTree, Open, AfterVerdict
    <3> QED BY <1>0, <1>10, <2>1, <3>1, SettleShape
  <2> QED BY <1>10, <2>1, <2>2 DEF Settle, Git, AtHand, Implementing
<1>11. CASE Verdict
  <2>1. cur \in Tasks /\ cur \in DOMAIN tree
    BY <1>11 DEF Verdict, AtHand
  <2>2. pc' \in {"idle", "locate", "integrate"} /\ (pc' = "integrate" => latest' = latest /\ task' = task)
    BY <1>0, <1>11, <2>1, VerdictShape
  <2> QED BY <1>11, <2>1, <2>2 DEF Verdict, Git, AtHand, Implementing
<1>12. CASE Integrate
  BY <1>12 DEF Integrate, Untouched, AtHand, Implementing
<1>13. CASE CommitOutput
  <2>1. cur \in DOMAIN tree
    BY <1>13 DEF CommitOutput, AtHand
  <2>2. DOMAIN tree' = DOMAIN tree
    <3>1. CASE CommitChanges(cur)
      BY <1>0, <2>1, <3>1, CommitChangesShape DEF Writes
    <3> QED BY <1>13, <3>1 DEF CommitOutput
  <2> QED BY <1>13, <2>2 DEF CommitOutput, Untouched, AtHand, Implementing
<1>14. CASE Move
  <2>1. pc' \in {"approve", "record", "follow", "idle"}
    BY <1>14 DEF Move, NothingNew, Clean, Rebase, Conflict, Stop
  <2>2. DOMAIN tree' = DOMAIN tree
    BY <1>14 DEF Move, NothingNew, Clean, Rebase, Conflict, Advance
  <2> QED BY <1>14, <2>1, <2>2 DEF Move, Untouched, AtHand, Implementing
<1>15. CASE Follow
  BY <1>15 DEF Follow, Untouched, AtHand, Implementing
<1>16. CASE SetRunIntegration
  BY <1>16 DEF SetRunIntegration, Untouched, Git, AtHand, Implementing
<1>17. CASE RecordOutcome
  BY <1>17 DEF RecordOutcome, Untouched, Git, AtHand, Implementing
<1>18. CASE Approve
  <2>1. cur \in Tasks
    BY <1>18 DEF Approve, AtHand
  <2>2. latest'[cur].status = "approved"
    BY <1>0, <1>18, <2>1 DEF Approve, AttemptRows
  <2> QED BY <1>18, <2>2 DEF Approve, Hand, Git, AtHand
<1>19. CASE RemoveWorktree
  <2>1. cur \in Tasks
    BY <1>19 DEF RemoveWorktree, AtHand
  <2>2. pc' = "detach" => cur \notin DOMAIN tree'
    BY <1>19 DEF RemoveWorktree, WithoutTree, Stop
  <2> QED BY <1>19, <2>1, <2>2 DEF RemoveWorktree, Hand, Stop, AtHand
<1>20. CASE PruneInertWorktree
  BY <1>20 DEF PruneInertWorktree, Hand, Git, Rows, AtHand, Implementing
<1>21. CASE Detach
  BY <1>21 DEF Detach, Hand, Git, AtHand
<1>22. CASE UserCommits
  BY <1>22 DEF UserCommits, Hand, Rows, AtHand, Implementing, Job
<1>23. ASSUME NEW t \in Tasks, RetryTask(t) PROVE AtHand'
  BY <1>23 DEF RetryTask, Hand, Git, AtHand
<1>24. CASE ServerStops
  BY <1>0, <1>24 DEF ServerStops, Hand, Git, Rows, AtHand
<1>25. CASE Reconcile
  BY <1>25 DEF Reconcile, AtHand
<1> QED
  BY <1>1, <1>2, <1>3, <1>4, <1>5, <1>6, <1>7, <1>8, <1>9, <1>10, <1>11, <1>12, <1>13, <1>14, <1>15,
     <1>16, <1>17, <1>18, <1>19, <1>20, <1>21, <1>22, <1>23, <1>24, <1>25 DEF AttemptsNext, ExecutorStep
-----------------------------------------------------------------------------
(***************************************************************************)
(* What the reviewer saw stays on its way to the run's branch.             *)
(***************************************************************************)
LEMMA OnItsWayStep ==
  ASSUME AttemptsTypeOK, AtHand, OnItsWay, AttemptsNext
  PROVE  OnItsWay'
<1>0. /\ TasksOK /\ BranchesOK(branch) /\ TreesOK(tree) /\ main \in Commits /\ base \in Commits
      /\ latest \in [Tasks -> AttemptRows] /\ tries \in [Tasks -> Nat] /\ artifacts \subseteq Tasks \X Nat
      /\ stops \in Nat
  BY DEF AttemptsTypeOK, TasksOK
<1> USE DEF To
<1> USE DEF AfterVerdict
<1>z. ASSUME pc' \in {"locate", "attach", "begin", "remove", "prune", "detach", "choose", "idle", "down", "evidence"}
      PROVE  OnItsWay'
  BY <1>z DEF OnItsWay
<1>1. CASE Choose \/ Locate \/ Attach \/ BeginFails
  BY <1>1, <1>z DEF Choose, Locate, Attach, BeginFails, Stop
<1>2. CASE Begin
  <2>1. cur \in Tasks
    BY <1>2 DEF Begin, AtHand, Working
  <2>2. latest'[cur].status = "running" /\ cur' = cur /\ pc' = "launch"
    BY <1>0, <1>2, <2>1 DEF Begin, NewAttempt, NoAttempt
  <2> QED BY <2>2 DEF OnItsWay
<1>3. CASE Launch
  BY <1>3 DEF Launch, Git, Rows, OnItsWay, InTree
<1>4. CASE AgentEnds
  <2>1. cur \in DOMAIN tree /\ tries[cur] \in Nat
    BY <1>0, <1>4 DEF AgentEnds, AtHand, WithTree, Working
  <2>2. Contents(tree[cur].head) \cup tree[cur].work \subseteq Contents(tree'[cur].head) \cup tree'[cur].work
    <3>1. CASE AgentWrites
      BY <1>0, <2>1, <3>1, AgentWritesShape DEF Writes
    <3> QED BY <1>4, <3>1 DEF AgentEnds
  <2> QED BY <1>4, <2>2 DEF AgentEnds, Rows, OnItsWay, InTree
<1>5. CASE Revoke
  <2>1. pc' \in {"verdict", "evidence"} /\ (pc' = "verdict" => session.job = "reviewer")
    BY <1>5 DEF Revoke
  <2>2. pc' = "verdict" => latest[cur].status = "reviewing"
    BY <1>5, <2>1 DEF Revoke, AtHand, Job
  <2> QED BY <1>5, <1>z, <2>1, <2>2 DEF Revoke, Git, Rows, OnItsWay, InTree
<1>6. CASE CollectEvidence
  <2>1. cur \in DOMAIN tree /\ cur \in Tasks
    BY <1>6 DEF CollectEvidence, AtHand, WithTree, Working
  <2>2. CASE OutputLimit
    BY <1>0, <1>z, <2>1, <2>2, OutputLimitShape
  <2>3. CASE latest' = [latest EXCEPT ![cur] = Evidence(cur)] /\ pc' = "settle"
    <3>1. latest'[cur].seen = Contents(tree[cur].head) \cup tree[cur].work
      BY <1>0, <2>1, <2>3 DEF Evidence
    <3> QED BY <1>6, <2>3, <3>1 DEF CollectEvidence, Git, OnItsWay, InTree
  <2> QED BY <1>6, <2>2, <2>3 DEF CollectEvidence
<1>7. CASE Settle
  <2>1. cur \in Tasks
    BY <1>7 DEF Settle, AtHand, WithTree, Working
  <2>2. Finishes /\ pc' \in {"idle", "locate", "launch", "prune", "choose"}
    BY <1>0, <1>7, <2>1, SettleShape
  <2>3. latest'[cur].seen = latest[cur].seen
    BY <2>1, <2>2 DEF Finishes
  <2> QED BY <1>7, <1>z, <2>2, <2>3 DEF Settle, Git, OnItsWay, InTree
<1>8. CASE Verdict
  <2>1. cur \in Tasks /\ latest[cur].status = "reviewing"
    BY <1>8 DEF Verdict, AtHand, WithTree, Working
  <2>2. pc' \in {"idle", "locate", "integrate"} /\ (pc' = "integrate" => latest' = latest /\ task' = task /\ run' = run)
    BY <1>0, <1>8, <2>1, VerdictShape
  <2> QED BY <1>8, <1>z, <2>1, <2>2 DEF Verdict, Git, OnItsWay, InTree
<1>9. CASE Integrate
  <2>1. RunBranch \in DOMAIN branch'
    <3>1. CASE UpdateRef(RunBranch, main)
      BY <1>0, <3>1, UpdateRefShape
    <3> QED BY <1>9, <3>1 DEF Integrate, BranchExists
  <2> QED BY <1>9, <2>1 DEF Integrate, Untouched, OnItsWay, InTree
<1>10. CASE CommitOutput
  <2>1. cur \in DOMAIN tree /\ cur \in Tasks /\ latest[cur].status = "reviewing" /\ RunBranch \in DOMAIN branch
    BY <1>10 DEF CommitOutput, AtHand, WithTree, Working, OnItsWay
  <2>2. latest[cur].seen \subseteq Contents(tree[cur].head) \cup tree[cur].work
    BY <1>10, <2>1 DEF CommitOutput, OnItsWay, InTree
  <2>3. latest[cur].seen \subseteq Contents(tree'[cur].head) /\ RunBranch \in DOMAIN branch'
    <3>1. CASE CommitChanges(cur)
      BY <1>0, <2>1, <2>2, <3>1, CommitChangesShape DEF Writes
    <3>2. CASE ~Dirty(cur) /\ UNCHANGED <<branch, tree>>
      BY <2>1, <2>2, <3>2 DEF Dirty
    <3> QED BY <1>10, <3>1, <3>2 DEF CommitOutput
  <2> QED BY <1>10, <2>3 DEF CommitOutput, Untouched, OnItsWay
<1>11. CASE Move
  <2>1. /\ cur \in DOMAIN tree /\ cur \in Tasks /\ RunBranch \in DOMAIN branch
        /\ latest[cur].seen \subseteq Contents(tree[cur].head) /\ cur' = cur /\ latest' = latest
    BY <1>11 DEF Move, AtHand, WithTree, Working, OnItsWay, Untouched
  <2>2. tree[cur].head \in Commits /\ branch[RunBranch] \in Commits
    BY <1>0, <2>1 DEF TreesOK, BranchesOK, Trees
  <2>3. CASE NothingNew
    BY <2>1, <2>3 DEF NothingNew, OnItsWay
  <2>4. CASE Clean
    <3>1. RunBranch \in DOMAIN branch' /\ branch'[RunBranch] = tree[cur].head
      BY <1>0, <2>2, <2>4, UpdateRefShape DEF Clean
    <3> QED BY <2>1, <2>4, <3>1 DEF Clean, OnItsWay
  <2>5. CASE Rebase
    <3> DEFINE more == Replayed(tree[cur].head, branch[RunBranch])
    <3>1. Advance(cur, branch[RunBranch] \o more, {}) /\ pc' = "follow"
      BY <2>5 DEF Rebase
    <3>2. /\ branch[RunBranch] \o more \in Commits
          /\ Contents(branch[RunBranch] \o more) = Contents(tree[cur].head) \cup Contents(branch[RunBranch])
          /\ IsAncestor(branch[RunBranch], branch[RunBranch] \o more)
      BY <2>2, ReplayedShape
    <3> HIDE DEF more
    <3>3. PICK h \in Commits : h = branch[RunBranch] \o more
      BY <3>2
    <3>4. IsFiniteSet({}) /\ {} \in SUBSET Patches /\ Advance(cur, h, {})
      BY <3>1, <3>3, FS_EmptySet
    <3>5. /\ tree'[cur].head = h
          /\ \A c \in DOMAIN branch \ {cur} : c \in DOMAIN branch' /\ branch'[c] = branch[c]
      BY <1>0, <2>1, <3>4, AdvanceShape DEF Advance
    <3>6. RunBranch # cur
      BY <2>1, TasksArePositive
    <3>7. RunBranch \in DOMAIN branch' /\ branch'[RunBranch] = branch[RunBranch]
      BY <2>1, <3>5, <3>6
    <3> QED BY <2>1, <3>1, <3>2, <3>3, <3>5, <3>7 DEF OnItsWay
  <2>6. CASE Conflict
    BY <1>z, <2>6 DEF Conflict, Stop
  <2> QED BY <1>11, <2>3, <2>4, <2>5, <2>6 DEF Move
<1>12. CASE Follow
  <2>1. cur \in DOMAIN tree /\ latest[cur].seen \subseteq Contents(tree[cur].head)
    BY <1>12 DEF Follow, AtHand, WithTree, OnItsWay
  <2>2. tree[cur].head \in Commits
    BY <1>0, <2>1 DEF TreesOK, Trees
  <2>3. RunBranch \in DOMAIN branch' /\ branch'[RunBranch] = tree[cur].head
    BY <1>0, <1>12, <2>2, UpdateRefShape DEF Follow
  <2> QED BY <1>12, <2>1, <2>3 DEF Follow, OnItsWay, Untouched
<1>13. CASE SetRunIntegration
  BY <1>13 DEF SetRunIntegration, Untouched, Git, OnItsWay
<1>14. CASE RecordOutcome
  BY <1>14 DEF RecordOutcome, Untouched, Git, OnItsWay
<1>15. CASE Approve \/ RemoveWorktree \/ PruneInertWorktree \/ Detach \/ ServerStops \/ Reconcile
  BY <1>15, <1>z DEF Approve, RemoveWorktree, PruneInertWorktree, Detach, ServerStops, Reconcile, Stop
<1>16. CASE UserCommits
  BY <1>16 DEF UserCommits, Hand, Rows, OnItsWay, InTree
<1>17. ASSUME NEW t \in Tasks, RetryTask(t) PROVE OnItsWay'
  BY <1>17, <1>z DEF RetryTask
<1> QED
  BY <1>1, <1>2, <1>3, <1>4, <1>5, <1>6, <1>7, <1>8, <1>9, <1>10, <1>11, <1>12, <1>13, <1>14, <1>15,
     <1>16, <1>17 DEF AttemptsNext, ExecutorStep
-----------------------------------------------------------------------------
(***************************************************************************)
(* The run's branch is only extended, and what is completed is on it.      *)
(***************************************************************************)
Growing == RunBranch \in DOMAIN branch =>
             RunBranch \in DOMAIN branch' /\ IsAncestor(branch[RunBranch], branch'[RunBranch])

LEMMA GrowStep ==
  ASSUME AttemptsTypeOK, AtHand, OnItsWay, AttemptsNext
  PROVE  Growing
<1>0. /\ TasksOK /\ BranchesOK(branch) /\ TreesOK(tree) /\ main \in Commits /\ tries \in [Tasks -> Nat]
  BY DEF AttemptsTypeOK, TasksOK
<1>z. ASSUME RunBranch \in DOMAIN branch => RunBranch \in DOMAIN branch' /\ branch'[RunBranch] = branch[RunBranch]
      PROVE  Growing
  <2>1. RunBranch \in DOMAIN branch => branch[RunBranch] \in Commits
    BY <1>0 DEF BranchesOK
  <2> QED BY <1>z, <2>1, PrefixReflexive DEF Growing, Commits, IsAncestor
<1>y. ASSUME UNCHANGED branch PROVE Growing
  BY <1>y, <1>z
<1>x. cur \in Tasks => RunBranch # cur
  BY TasksArePositive
<1>1. CASE Locate
  <2>1. cur \in Tasks
    BY <1>1 DEF Locate, AtHand, Working
  <2>2. CASE AddWorktree(cur)
    BY <1>0, <1>x, <1>z, <2>1, <2>2, AddWorktreeShape
  <2> QED BY <1>1, <1>y, <2>2 DEF Locate
<1>2. CASE AgentEnds
  <2>1. cur \in DOMAIN tree /\ cur \in Tasks
    BY <1>2 DEF AgentEnds, AtHand, WithTree, Working
  <2>2. CASE AgentWrites
    <3>1. Writes
      BY <1>0, <2>1, <2>2, AgentWritesShape
    <3> QED BY <1>x, <1>z, <2>1, <3>1 DEF Writes
  <2> QED BY <1>2, <1>y, <2>2 DEF AgentEnds
<1>3. CASE Integrate
  BY <1>3, <1>y DEF Integrate, BranchExists, Growing
<1>4. CASE CommitOutput
  <2>1. cur \in DOMAIN tree /\ cur \in Tasks
    BY <1>4 DEF CommitOutput, AtHand, WithTree, Working
  <2>2. CASE CommitChanges(cur)
    <3>1. Writes
      BY <1>0, <2>1, <2>2, CommitChangesShape
    <3> QED BY <1>x, <1>z, <2>1, <3>1 DEF Writes
  <2> QED BY <1>4, <1>y, <2>2 DEF CommitOutput
<1>5. CASE Move
  <2>1. cur \in DOMAIN tree /\ cur \in Tasks /\ RunBranch \in DOMAIN branch
    BY <1>5 DEF Move, AtHand, WithTree, Working, OnItsWay, AfterVerdict
  <2>2. tree[cur].head \in Commits /\ branch[RunBranch] \in Commits
    BY <1>0, <2>1 DEF TreesOK, BranchesOK, Trees
  <2>3. CASE NothingNew \/ Conflict
    BY <1>y, <2>3 DEF NothingNew, Conflict
  <2>4. CASE Clean
    <3>1. RunBranch \in DOMAIN branch' /\ branch'[RunBranch] = tree[cur].head
      BY <1>0, <2>2, <2>4, UpdateRefShape DEF Clean
    <3> QED BY <2>4, <3>1 DEF Clean, FastForward, Growing
  <2>5. CASE Rebase
    <3>1. PICK h \in Commits : Advance(cur, h, {})
      BY <2>2, <2>5, ReplayedShape DEF Rebase
    <3>2. IsFiniteSet({}) /\ {} \in SUBSET Patches
      BY FS_EmptySet
    <3>3. \A c \in DOMAIN branch \ {cur} : c \in DOMAIN branch' /\ branch'[c] = branch[c]
      BY <1>0, <2>1, <3>1, <3>2, AdvanceShape DEF Advance
    <3> QED BY <1>x, <1>z, <2>1, <3>3
  <2> QED BY <1>5, <2>3, <2>4, <2>5 DEF Move
<1>6. CASE Follow
  <2>1. cur \in DOMAIN tree /\ IsAncestor(branch[RunBranch], tree[cur].head)
    BY <1>6 DEF Follow, AtHand, WithTree, OnItsWay
  <2>2. tree[cur].head \in Commits
    BY <1>0, <2>1 DEF TreesOK, Trees
  <2>3. RunBranch \in DOMAIN branch' /\ branch'[RunBranch] = tree[cur].head
    BY <1>0, <1>6, <2>2, UpdateRefShape DEF Follow
  <2> QED BY <2>1, <2>3 DEF Growing
<1>7. CASE \/ Choose \/ Attach \/ BeginFails \/ Begin \/ Launch \/ Revoke \/ CollectEvidence \/ Settle
           \/ Verdict \/ SetRunIntegration \/ RecordOutcome \/ Approve \/ RemoveWorktree
           \/ PruneInertWorktree \/ Detach
  BY <1>7, <1>y DEF Choose, Attach, BeginFails, Begin, Launch, Revoke, CollectEvidence, Settle, Verdict,
     SetRunIntegration, RecordOutcome, Approve, RemoveWorktree, PruneInertWorktree, Detach, Git
<1>8. CASE UserCommits \/ ServerStops \/ Reconcile \/ \E t \in Tasks : RetryTask(t)
  BY <1>8, <1>y DEF UserCommits, ServerStops, Reconcile, RetryTask, Git
<1> QED
  BY <1>1, <1>2, <1>3, <1>4, <1>5, <1>6, <1>7, <1>8 DEF AttemptsNext, ExecutorStep

(* What an attempt is seen to have made changes when the next attempt      *)
(* begins and when evidence is taken, while the task runs.                 *)
SeenKept(t) == latest'[t].seen = latest[t].seen
LEMMA SeenStep ==
  ASSUME AttemptsTypeOK, AtHand, AttemptsNext
  PROVE  \A t \in Tasks :
           \/ SeenKept(t)
           \/ /\ t = cur /\ pc = "begin" /\ latest'[t].seen = {} /\ task'[t] = "running"
              /\ UNCHANGED <<branch, tree, outcomes>>
           \/ /\ t = cur /\ pc = "evidence" /\ t \in DOMAIN tree /\ task' = task /\ task[t] = "running"
              /\ latest'[t].seen = Contents(tree[t].head) \cup tree[t].work /\ UNCHANGED <<branch, tree, outcomes>>
<1> DEFINE Fine(t) ==
           \/ SeenKept(t)
           \/ /\ t = cur /\ pc = "begin" /\ latest'[t].seen = {} /\ task'[t] = "running"
              /\ UNCHANGED <<branch, tree, outcomes>>
           \/ /\ t = cur /\ pc = "evidence" /\ t \in DOMAIN tree /\ task' = task /\ task[t] = "running"
              /\ latest'[t].seen = Contents(tree[t].head) \cup tree[t].work /\ UNCHANGED <<branch, tree, outcomes>>
<1>0. /\ TasksOK /\ BranchesOK(branch) /\ TreesOK(tree) /\ latest \in [Tasks -> AttemptRows]
      /\ tries \in [Tasks -> Nat] /\ artifacts \subseteq Tasks \X Nat
  BY DEF AttemptsTypeOK, TasksOK
<1> DEFINE AllFine == \A t \in Tasks : Fine(t)
<1> SUFFICES AllFine
  OBVIOUS
<1>z. ASSUME \A t \in Tasks : SeenKept(t) PROVE AllFine
  BY <1>z
<1> HIDE DEF AllFine, Fine
<1>y. ASSUME UNCHANGED latest PROVE AllFine
  BY <1>y, <1>z DEF SeenKept
<1>1. CASE Begin
  <2>1. cur \in Tasks
    BY <1>1 DEF Begin, AtHand, Working
  <2>2. task'[cur] = "running"
    <3>1. task' = MarkIn(task, cur, "running") /\ "running" \in TaskStates
      BY <1>1 DEF Begin, MarkTask, TaskStates
    <3> QED BY <1>0, <2>1, <3>1, MarkTaskShape
  <2>3. latest' = [latest EXCEPT ![cur] = NewAttempt] /\ UNCHANGED <<branch, tree, outcomes>> /\ pc = "begin"
    BY <1>1 DEF Begin, Git
  <2>4. latest'[cur].seen = {} /\ \A t \in Tasks \ {cur} : latest'[t] = latest[t]
    BY <1>0, <2>1, <2>3 DEF NewAttempt, NoAttempt
  <2> QED BY <2>2, <2>3, <2>4 DEF AllFine, Fine, SeenKept
<1>2. CASE CollectEvidence
  <2>1. cur \in DOMAIN tree /\ cur \in Tasks /\ task[cur] = "running" /\ pc = "evidence"
    BY <1>2 DEF CollectEvidence, AtHand, WithTree, Working, Open
  <2>2. CASE OutputLimit
    <3>1. Finishes
      BY <1>0, <2>1, <2>2, OutputLimitShape
    <3> QED BY <1>z, <3>1 DEF Finishes, SeenKept
  <2>3. CASE latest' = [latest EXCEPT ![cur] = Evidence(cur)] /\ UNCHANGED task
    <3>1. /\ latest'[cur].seen = Contents(tree[cur].head) \cup tree[cur].work
          /\ \A t \in Tasks \ {cur} : latest'[t] = latest[t]
      BY <1>0, <2>1, <2>3 DEF Evidence
    <3>2. UNCHANGED <<branch, tree, outcomes>>
      BY <1>2 DEF CollectEvidence, Git
    <3> QED BY <2>1, <2>3, <3>1, <3>2 DEF AllFine, Fine, SeenKept
  <2> QED BY <1>2, <2>2, <2>3 DEF CollectEvidence
<1>3. CASE Settle
  <2>1. cur \in Tasks
    BY <1>3 DEF Settle, AtHand, WithTree, Working
  <2>2. Finishes
    BY <1>0, <1>3, <2>1, SettleShape
  <2> QED BY <1>z, <2>2 DEF Finishes, SeenKept
<1>4. CASE Verdict
  <2>1. cur \in Tasks
    BY <1>4 DEF Verdict, AtHand, WithTree, Working
  <2>2. Finishes
    BY <1>0, <1>4, <2>1, VerdictShape
  <2> QED BY <1>z, <2>2 DEF Finishes, SeenKept
<1>5. CASE Approve
  BY <1>0, <1>5, <1>z DEF Approve, SeenKept, AttemptRows
<1>6. CASE Reconcile
  BY <1>0, <1>6, <1>z DEF Reconcile, SeenKept, AttemptRows
<1>7. CASE \/ Choose \/ Locate \/ Attach \/ BeginFails \/ Launch \/ AgentEnds \/ Revoke \/ Integrate
           \/ CommitOutput \/ Move \/ Follow \/ SetRunIntegration \/ RecordOutcome \/ RemoveWorktree
           \/ PruneInertWorktree \/ Detach
  BY <1>7, <1>y DEF Choose, Locate, Attach, BeginFails, Launch, AgentEnds, Revoke, Integrate, CommitOutput,
     Move, Follow, SetRunIntegration, RecordOutcome, RemoveWorktree, PruneInertWorktree, Detach, Rows
<1>8. CASE UserCommits \/ ServerStops \/ \E t \in Tasks : RetryTask(t)
  BY <1>8, <1>y DEF UserCommits, ServerStops, RetryTask, Rows
<1> QED
  BY <1>1, <1>2, <1>3, <1>4, <1>5, <1>6, <1>7, <1>8 DEF AttemptsNext, ExecutorStep

(* A task is completed by the approval of its integrated work, and one     *)
(* that is not integrated by its session's answer.                         *)
Completing(t) ==
  /\ t = cur
  /\ \/ pc = "approve" /\ UNCHANGED <<branch, outcomes, artifacts, tries>> /\ SeenKept(t)
     \/ /\ pc = "settle" /\ t \notin Implementing /\ <<t, tries[t]>> \in artifacts'
        /\ UNCHANGED <<branch, tries>>

LEMMA CompletesStep ==
  ASSUME AttemptsTypeOK, AtHand, AttemptsNext
  PROVE  \A t \in Tasks : task'[t] = "completed" => task[t] = "completed" \/ Completing(t)
<1> DEFINE Fine == \A t \in Tasks : task'[t] = "completed" => task[t] = "completed" \/ Completing(t)
<1>0. /\ TasksOK /\ BranchesOK(branch) /\ TreesOK(tree) /\ latest \in [Tasks -> AttemptRows]
      /\ tries \in [Tasks -> Nat] /\ artifacts \subseteq Tasks \X Nat
  BY DEF AttemptsTypeOK, TasksOK
<1> SUFFICES Fine
  OBVIOUS
<1>z. ASSUME OnlyCompletes({}) PROVE Fine
  BY <1>z DEF OnlyCompletes
<1>y. ASSUME UNCHANGED task PROVE Fine
  BY <1>y
<1> HIDE DEF Fine
<1>1. CASE Begin
  <2>1. cur \in Tasks
    BY <1>1 DEF Begin, AtHand, Working
  <2>2. task' = MarkIn(task, cur, "running") /\ "running" \in TaskStates
    BY <1>1 DEF Begin, MarkTask, TaskStates
  <2>3. task'[cur] = "running" /\ OnlyCompletes({cur})
    BY <1>0, <2>1, <2>2, MarkTaskShape
  <2> QED BY <1>z, <2>3 DEF OnlyCompletes
<1>2. CASE CollectEvidence
  <2>1. cur \in Tasks
    BY <1>2 DEF CollectEvidence, AtHand, WithTree, Working
  <2>2. CASE OutputLimit
    BY <1>0, <1>z, <2>1, <2>2, OutputLimitShape
  <2> QED BY <1>2, <1>y, <2>2 DEF CollectEvidence
<1>3. CASE Settle
  <2>1. cur \in Tasks /\ task[cur] = "running"
    BY <1>3 DEF Settle, AtHand, WithTree, Working, Open
  <2>2. Finishes
    BY <1>0, <1>3, <2>1, SettleShape
  <2>3. pc' = "launch" => task' = task
    BY <1>0, <1>3, <2>1, SettleShape
  <2>4. task'[cur] = "completed" /\ pc' # "launch" => cur \notin Implementing /\ <<cur, tries[cur]>> \in artifacts'
    BY <1>0, <1>3, <2>1, SettleShape
  <2>5. UNCHANGED <<branch, tries>> /\ pc = "settle"
    BY <1>3 DEF Settle, Git
  <2> QED BY <2>1, <2>2, <2>3, <2>4, <2>5 DEF Finishes, OnlyCompletes, Completing, Fine
<1>4. CASE Verdict
  <2>1. cur \in Tasks
    BY <1>4 DEF Verdict, AtHand, WithTree, Working
  <2>2. OnlyCompletes({})
    BY <1>0, <1>4, <2>1, VerdictShape
  <2> QED BY <1>z, <2>2
<1>5. CASE Approve
  <2>1. cur \in Tasks /\ MarkTask(cur, "completed") /\ pc = "approve"
        /\ UNCHANGED <<branch, outcomes, artifacts, tries>>
    BY <1>5 DEF Approve, AtHand, WithTree, Working, Git
  <2>2. OnlyCompletes({cur})
    BY <1>0, <2>1, CompleteShape
  <2>3. SeenKept(cur)
    BY <1>0, <1>5 DEF Approve, SeenKept, AttemptRows
  <2> QED BY <2>1, <2>2, <2>3 DEF OnlyCompletes, Completing, Fine
<1>6. CASE Reconcile
  BY <1>6, <1>z DEF Reconcile, OnlyCompletes
<1>7. ASSUME NEW t \in Tasks, RetryTask(t) PROVE Fine
  <2>1. task' = MarkIn(task, t, "ready") /\ "ready" \in TaskStates
    BY <1>7 DEF RetryTask, MarkTask, TaskStates
  <2>2. task'[t] = "ready" /\ OnlyCompletes({t})
    BY <1>0, <2>1, MarkTaskShape
  <2> QED BY <1>z, <2>2 DEF OnlyCompletes
<1>8. CASE \/ Choose \/ Locate \/ Attach \/ BeginFails \/ Launch \/ AgentEnds \/ Revoke \/ Integrate
           \/ CommitOutput \/ Move \/ Follow \/ SetRunIntegration \/ RecordOutcome \/ RemoveWorktree
           \/ PruneInertWorktree \/ Detach
  BY <1>8, <1>y DEF Choose, Locate, Attach, BeginFails, Launch, AgentEnds, Revoke, Integrate, CommitOutput,
     Move, Follow, SetRunIntegration, RecordOutcome, RemoveWorktree, PruneInertWorktree, Detach, Rows, Untouched
<1>9. CASE UserCommits \/ ServerStops
  BY <1>9, <1>y DEF UserCommits, ServerStops, Rows
<1> QED
  BY <1>1, <1>2, <1>3, <1>4, <1>5, <1>6, <1>7, <1>8, <1>9 DEF AttemptsNext, ExecutorStep
LEMMA PlanFixed ==
  ASSUME AttemptsNext PROVE plan' = plan
BY DEF AttemptsNext, ExecutorStep, Choose, Locate, Attach, BeginFails, Begin, Launch, AgentEnds, Revoke,
   CollectEvidence, Settle, Verdict, Integrate, CommitOutput, Move, Follow, SetRunIntegration, RecordOutcome,
   Approve, RemoveWorktree, PruneInertWorktree, Detach, UserCommits, RetryTask, ServerStops, Reconcile, Git

LEMMA ApprovedStep ==
  ASSUME AttemptsTypeOK, AtHand, OnItsWay, ApprovedIsIntegrated, AttemptsNext
  PROVE  ApprovedIsIntegrated'
<1>1. Implementing' = Implementing /\ Implementing \subseteq Tasks
  BY PlanFixed DEF Implementing
<1>2. SUFFICES ASSUME NEW t \in Implementing, task'[t] = "completed"
               PROVE  RunBranch \in DOMAIN branch' /\ latest'[t].seen \subseteq Contents(branch'[RunBranch])
  BY <1>1 DEF ApprovedIsIntegrated
<1>3. t \in Tasks /\ (task[t] = "completed" \/ Completing(t))
  BY <1>1, <1>2, CompletesStep
<1>4. CASE task[t] = "completed"
  <2>1. SeenKept(t)
    BY <1>2, <1>3, <1>4, SeenStep
  <2>2. RunBranch \in DOMAIN branch /\ latest[t].seen \subseteq Contents(branch[RunBranch])
    BY <1>4 DEF ApprovedIsIntegrated
  <2>3. Growing
    BY GrowStep
  <2>4. BranchesOK(branch) /\ BranchesOK(branch')
    BY TypeStep DEF AttemptsTypeOK
  <2>5. branch[RunBranch] \in Commits /\ branch'[RunBranch] \in Commits
        /\ IsPrefix(branch[RunBranch], branch'[RunBranch]) /\ RunBranch \in DOMAIN branch'
    BY <2>2, <2>3, <2>4 DEF Growing, BranchesOK, IsAncestor
  <2>6. Contents(branch[RunBranch]) \subseteq Contents(branch'[RunBranch])
    BY <2>5, PrefixContents DEF Contents, Commits
  <2> QED BY <2>1, <2>2, <2>5, <2>6 DEF SeenKept
<1>5. CASE Completing(t)
  <2>1. t = cur /\ pc = "approve" /\ SeenKept(t) /\ branch' = branch
    BY <1>5 DEF Completing
  <2> QED BY <2>1 DEF OnItsWay, AfterVerdict, SeenKept
<1> QED BY <1>3, <1>4, <1>5

LEMMA RecordedStep ==
  ASSUME AttemptsTypeOK, AtHand, OnItsWay, RecordedIsOnBranch, AttemptsNext
  PROVE  RecordedIsOnBranch'
<1>0. BranchesOK(branch) /\ BranchesOK(branch') /\ recorded \subseteq Commits /\ stops \in Nat /\ TreesOK(tree) /\ Growing
  BY TypeStep, GrowStep DEF AttemptsTypeOK
<1>1. SUFFICES ASSUME NEW h \in recorded'
               PROVE  /\ RunBranch \in DOMAIN branch' /\ IsAncestor(h, branch'[RunBranch])
                      /\ stops' = 0 /\ pc' \notin {"record", "recordRebased"} => h = branch'[RunBranch]
  BY DEF RecordedIsOnBranch
<1>2. CASE SetRunIntegration
  <2>1. h = commit /\ branch' = branch
    BY <1>1, <1>2 DEF SetRunIntegration, Git
  <2>2. RunBranch \in DOMAIN branch /\ commit = branch[RunBranch]
    BY <1>2 DEF SetRunIntegration, OnItsWay, AfterVerdict
  <2>3. IsAncestor(h, branch'[RunBranch])
    BY <1>0, <2>1, <2>2, PrefixReflexive DEF BranchesOK, Commits, IsAncestor
  <2> QED BY <2>1, <2>2, <2>3
<1>3. CASE ~SetRunIntegration
  <2>1. recorded' = recorded
    BY <1>3 DEF AttemptsNext, ExecutorStep, Choose, Locate, Attach, BeginFails, Begin, Launch, AgentEnds, Revoke,
       CollectEvidence, Settle, Verdict, Integrate, CommitOutput, Move, Follow, RecordOutcome,
       Approve, RemoveWorktree, PruneInertWorktree, Detach, UserCommits, RetryTask, ServerStops, Reconcile, Rows
  <2>2. /\ RunBranch \in DOMAIN branch /\ IsAncestor(h, branch[RunBranch])
        /\ stops = 0 /\ pc \notin {"record", "recordRebased"} => h = branch[RunBranch]
    BY <1>1, <2>1 DEF RecordedIsOnBranch
  <2>3. RunBranch \in DOMAIN branch' /\ IsAncestor(branch[RunBranch], branch'[RunBranch])
    BY <1>0, <2>2 DEF Growing
  <2>4. IsAncestor(h, branch'[RunBranch])
    <3>1. h \in Commits /\ branch[RunBranch] \in Commits /\ branch'[RunBranch] \in Commits
      BY <1>0, <1>1, <2>1, <2>2, <2>3 DEF BranchesOK
    <3> QED BY <2>2, <2>3, <3>1, PrefixTransitive DEF IsAncestor, Commits
  <2>5. ASSUME stops' = 0, pc' \notin {"record", "recordRebased"} PROVE h = branch'[RunBranch]
    <3>1. ~ServerStops
      BY <1>0, <2>5 DEF ServerStops
    <3>2. stops = 0
      BY <2>5, <3>1 DEF AttemptsNext, ExecutorStep, Choose, Locate, Attach, BeginFails, Begin, Launch, AgentEnds, Revoke,
         CollectEvidence, Settle, Verdict, Integrate, CommitOutput, Move, Follow, SetRunIntegration, RecordOutcome,
         Approve, RemoveWorktree, PruneInertWorktree, Detach, UserCommits, RetryTask, Reconcile, Hand, Untouched
    <3>3. pc \notin {"record", "recordRebased"}
      BY <1>3, <3>1, <3>2 DEF AttemptsNext, ExecutorStep, Choose, Locate, Attach, BeginFails, Begin, Launch, AgentEnds,
         Revoke, CollectEvidence, Settle, Verdict, Integrate, CommitOutput, Move, Follow, SetRunIntegration, RecordOutcome,
         Approve, RemoveWorktree, PruneInertWorktree, Detach, UserCommits, RetryTask, Reconcile
    <3>4. h = branch[RunBranch]
      BY <2>2, <3>2, <3>3
    <3>5. branch'[RunBranch] = branch[RunBranch]
      <4>1. CASE Locate
        <5>1. cur \in Tasks /\ RunBranch # cur
          BY <4>1, TasksArePositive DEF Locate, AtHand, Working
        <5>2. CASE AddWorktree(cur)
          <6>1. main \in Commits
            BY DEF AttemptsTypeOK
          <6> QED BY <1>0, <2>2, <5>1, <5>2, <6>1, AddWorktreeShape
        <5> QED BY <4>1, <5>2 DEF Locate
      <4>2. CASE AgentEnds
        <5>1. cur \in DOMAIN tree /\ cur \in Tasks /\ RunBranch # cur /\ tries[cur] \in Nat
          BY <4>2, TasksArePositive DEF AgentEnds, AtHand, WithTree, Working, AttemptsTypeOK
        <5>2. CASE AgentWrites
          <6>1. Writes
            BY <1>0, <5>1, <5>2, AgentWritesShape
          <6> QED BY <2>2, <5>1, <6>1 DEF Writes
        <5> QED BY <4>2, <5>2 DEF AgentEnds
      <4>3. CASE Integrate
        BY <2>2, <4>3 DEF Integrate, BranchExists
      <4>4. CASE CommitOutput
        <5>1. cur \in DOMAIN tree /\ cur \in Tasks /\ RunBranch # cur
          BY <4>4, TasksArePositive DEF CommitOutput, AtHand, WithTree, Working
        <5>2. CASE CommitChanges(cur)
          <6>1. Writes
            BY <1>0, <5>1, <5>2, CommitChangesShape
          <6> QED BY <2>2, <5>1, <6>1 DEF Writes
        <5> QED BY <4>4, <5>2 DEF CommitOutput
      <4>5. CASE Move
        <5>1. cur \in DOMAIN tree /\ cur \in Tasks /\ RunBranch # cur
          BY <4>5, TasksArePositive DEF Move, AtHand, WithTree, Working
        <5>2. CASE NothingNew \/ Conflict
          BY <5>2 DEF NothingNew, Conflict
        <5>3. CASE Clean
          BY <2>5, <5>3 DEF Clean, To
        <5>4. CASE Rebase
          <6>1. tree[cur].head \in Commits /\ branch[RunBranch] \in Commits
            BY <1>0, <2>2, <5>1 DEF TreesOK, BranchesOK, Trees
          <6>2. PICK g \in Commits : Advance(cur, g, {})
            BY <5>4, <6>1, ReplayedShape DEF Rebase
          <6>3. IsFiniteSet({}) /\ {} \in SUBSET Patches
            BY FS_EmptySet
          <6>4. \A c \in DOMAIN branch \ {cur} : c \in DOMAIN branch' /\ branch'[c] = branch[c]
            BY <1>0, <5>1, <6>2, <6>3, AdvanceShape DEF Advance
          <6> QED BY <2>2, <5>1, <6>4
        <5> QED BY <4>5, <5>2, <5>3, <5>4 DEF Move
      <4>6. CASE Follow
        BY <2>5, <4>6 DEF Follow, To
      <4> QED BY <1>3, <3>1, <4>1, <4>2, <4>3, <4>4, <4>5, <4>6 DEF AttemptsNext, ExecutorStep, Choose, Attach,
             BeginFails, Begin, Launch, Revoke, CollectEvidence, Settle, Verdict, RecordOutcome, Approve,
             RemoveWorktree, PruneInertWorktree, Detach, UserCommits, RetryTask, Reconcile, Git
    <3> QED BY <3>4, <3>5
  <2> QED BY <2>3, <2>4, <2>5
<1> QED BY <1>2, <1>3

LEMMA GrantsStep ==
  ASSUME AttemptsTypeOK, AtHand, GrantsAreShort, AttemptsNext
  PROVE  GrantsAreShort'
<1> USE DEF GrantsAreShort, To
<1>1. CASE Launch
  <2>1. session' # NoSession /\ pc' = "agent"
    BY <1>1 DEF Launch, OpenSession, NoSession, Job
  <2> QED BY <2>1
<1>2. CASE AgentEnds
  <2>1. session.job = Job /\ session \in Sessions
    BY <1>2 DEF AgentEnds, AtHand, AttemptsTypeOK
  <2>2. session'.job = Job /\ pc' = "revoke"
    BY <1>2, <2>1 DEF AgentEnds, Sessions
  <2>3. session' # NoSession
    BY <2>2 DEF Job, NoSession
  <2> QED BY <2>2, <2>3
<1>3. CASE Revoke \/ Reconcile
  BY <1>3 DEF Revoke, WithdrawGrant, Reconcile
<1>4. CASE ServerStops
  BY <1>4 DEF ServerStops, Hand
<1>5. CASE UserCommits
  BY <1>5 DEF UserCommits, Hand
<1>6. CASE \/ Choose \/ Locate \/ Attach \/ BeginFails \/ Begin \/ CollectEvidence \/ Settle
           \/ Verdict \/ Integrate \/ CommitOutput \/ Move \/ Follow
  BY <1>6 DEF Choose, Locate, Attach, BeginFails, Begin, CollectEvidence, Settle, Verdict,
     Integrate, CommitOutput, Move, Follow, Untouched, Hand
<1>7. CASE \/ SetRunIntegration \/ RecordOutcome \/ Approve \/ RemoveWorktree
           \/ PruneInertWorktree \/ Detach \/ \E t \in Tasks : RetryTask(t)
  BY <1>7 DEF SetRunIntegration, RecordOutcome, Approve, RemoveWorktree, PruneInertWorktree, Detach, RetryTask,
     Untouched, Hand
<1> QED
  BY <1>1, <1>2, <1>3, <1>4, <1>5, <1>6, <1>7 DEF AttemptsNext, ExecutorStep
LEMMA RowsStep ==
  ASSUME AttemptsTypeOK, AtHand, RowsNameTrees, AttemptsNext
  PROVE  RowsNameTrees'
<1> DEFINE Named(p, tr, step) ==
             /\ p \ (IF step = "detach" THEN {cur} ELSE {}) \subseteq DOMAIN tr
             /\ DOMAIN tr \subseteq p \cup (IF step = "attach" THEN {cur} ELSE {})
<1>0. BranchesOK(branch) /\ TreesOK(tree) /\ main \in Commits /\ stops \in Nat /\ tries \in [Tasks -> Nat]
  BY DEF AttemptsTypeOK
<1> SUFFICES ASSUME stops' = 0 PROVE RowsNameTrees'
  BY DEF RowsNameTrees
<1>1. ~ServerStops /\ ~Reconcile
  BY <1>0 DEF ServerStops, Reconcile, AtHand
<1>2. stops = 0
  BY <1>1 DEF AttemptsNext, ExecutorStep, Choose, Locate, Attach, BeginFails, Begin, Launch, AgentEnds, Revoke,
     CollectEvidence, Settle, Verdict, Integrate, CommitOutput, Move, Follow, SetRunIntegration, RecordOutcome,
     Approve, RemoveWorktree, PruneInertWorktree, Detach, UserCommits, RetryTask, Reconcile, Hand, Untouched
<1>3. Named(path, tree, pc)
  BY <1>2 DEF RowsNameTrees
<1>4. ASSUME UNCHANGED path, DOMAIN tree' = DOMAIN tree, pc \notin {"attach", "detach"}, pc' \notin {"attach", "detach"}
      PROVE  RowsNameTrees'
  BY <1>3, <1>4 DEF RowsNameTrees
<1> USE DEF To
<1>5. CASE Choose
  <2>1. pc = "choose" /\ pc' \in {"idle", "locate"} /\ UNCHANGED <<path, tree>>
    BY <1>5 DEF Choose, Stop, Git
  <2> QED BY <1>4, <2>1
<1>6. CASE Locate
  <2>1. cur \in Tasks /\ pc = "locate" /\ UNCHANGED <<path, cur>>
    BY <1>6 DEF Locate, AtHand, Working
  <2>2. CASE AddWorktree(cur) /\ pc' = "attach"
    <3>1. DOMAIN tree \subseteq DOMAIN tree' /\ DOMAIN tree' \subseteq DOMAIN tree \cup {cur}
      BY <1>0, <2>1, <2>2, AddWorktreeShape
    <3> QED BY <1>3, <2>1, <2>2, <3>1 DEF RowsNameTrees
  <2>3. CASE UNCHANGED tree /\ pc' \in {"idle", "begin"}
    BY <1>4, <2>1, <2>3
  <2> QED BY <1>6, <2>2, <2>3 DEF Locate, Stop
<1>7. CASE Attach
  <2>1. cur \in DOMAIN tree /\ path' = path \cup {cur} /\ UNCHANGED <<tree, cur>> /\ pc = "attach" /\ pc' = "begin"
    BY <1>7 DEF Attach, AtHand, Git
  <2> QED BY <1>3, <2>1 DEF RowsNameTrees
<1>8. CASE RemoveWorktree
  <2>1. /\ pc = "remove" /\ UNCHANGED <<path, cur>>
        /\ \/ DOMAIN tree' = DOMAIN tree \ {cur} /\ pc' = "detach"
           \/ UNCHANGED tree /\ pc' = "idle"
    BY <1>8 DEF RemoveWorktree, WithoutTree, Stop, Hand
  <2> QED BY <1>3, <1>4, <2>1 DEF RowsNameTrees
<1>9. CASE Detach
  <2>1. cur \notin DOMAIN tree /\ path' = path \ {cur} /\ UNCHANGED <<tree, cur>> /\ pc = "detach" /\ pc' = "choose"
    BY <1>9 DEF Detach, AtHand, Git
  <2> QED BY <1>3, <2>1 DEF RowsNameTrees
<1>10. CASE AgentEnds
  <2>1. cur \in DOMAIN tree /\ tries[cur] \in Nat
    BY <1>0, <1>10 DEF AgentEnds, AtHand, WithTree, Working
  <2>2. DOMAIN tree' = DOMAIN tree
    <3>1. CASE AgentWrites
      BY <1>0, <2>1, <3>1, AgentWritesShape DEF Writes
    <3> QED BY <1>10, <3>1 DEF AgentEnds
  <2> QED BY <1>4, <1>10, <2>2 DEF AgentEnds, Rows
<1>11. CASE CommitOutput \/ Move
  <2>1. DOMAIN tree' = DOMAIN tree
    BY <1>11 DEF CommitOutput, CommitChanges, Move, NothingNew, Clean, Rebase, Conflict, Advance
  <2>2. pc' \in {"move", "approve", "record", "follow", "idle"} /\ pc \in {"commit", "move"} /\ UNCHANGED path
    BY <1>11 DEF CommitOutput, Move, NothingNew, Clean, Rebase, Conflict, Stop, Untouched
  <2> QED BY <1>4, <2>1, <2>2
<1>12. CASE CollectEvidence \/ Settle \/ Verdict
  <2>1. cur \in Tasks /\ TasksOK /\ latest \in [Tasks -> AttemptRows] /\ artifacts \subseteq Tasks \X Nat
    BY <1>12 DEF CollectEvidence, Settle, Verdict, AtHand, Working, WithTree, AttemptsTypeOK, TasksOK
  <2>2. CASE CollectEvidence
    <3>1. CASE OutputLimit
      BY <1>4, <2>1, <2>2, <3>1, OutputLimitShape DEF CollectEvidence, Git
    <3> QED BY <1>4, <2>2, <3>1 DEF CollectEvidence, Git
  <2>3. CASE Settle
    <3>1. pc' \in {"idle", "locate", "launch", "prune", "choose"}
      BY <1>0, <2>1, <2>3, SettleShape
    <3> QED BY <1>4, <2>3, <3>1 DEF Settle, Git
  <2>4. CASE Verdict
    <3>1. pc' \in {"idle", "locate", "integrate"}
      BY <2>1, <2>4, VerdictShape
    <3> QED BY <1>4, <2>4, <3>1 DEF Verdict, Git
  <2> QED BY <1>12, <2>2, <2>3, <2>4
<1>13. CASE BeginFails \/ Begin \/ Launch \/ Revoke \/ Integrate \/ Follow \/ SetRunIntegration
            \/ RecordOutcome \/ Approve \/ PruneInertWorktree
  BY <1>4, <1>13 DEF BeginFails, Begin, Launch, Revoke, Integrate, Follow, SetRunIntegration,
     RecordOutcome, Approve, PruneInertWorktree, Stop, Git, Rows, Untouched
<1>14. CASE UserCommits \/ \E t \in Tasks : RetryTask(t)
  BY <1>4, <1>14 DEF UserCommits, RetryTask, Git, Rows
<1> QED
  BY <1>1, <1>5, <1>6, <1>7, <1>8, <1>9, <1>10, <1>11, <1>12, <1>13, <1>14 DEF AttemptsNext, ExecutorStep

LEMMA ReportedStep ==
  ASSUME AttemptsTypeOK, AtHand, Reported, AttemptsNext
  PROVE  Reported'
<1>0. /\ TasksOK /\ latest \in [Tasks -> AttemptRows] /\ tries \in [Tasks -> Nat] /\ artifacts \subseteq Tasks \X Nat
  BY DEF AttemptsTypeOK, TasksOK
<1>p. plan' = plan
  BY PlanFixed
<1> DEFINE Shown == {"launch", "agent", "revoke", "verdict"} \cup AfterVerdict
           Told(d) == <<d, tries[d]>> \in artifacts
<1>1. CASE Begin
  <2>1. cur \in Tasks
    BY <1>1 DEF Begin, AtHand, Working
  <2>2. task'[cur] = "running"
    <3>1. task' = MarkIn(task, cur, "running") /\ "running" \in TaskStates
      BY <1>1 DEF Begin, MarkTask, TaskStates
    <3> QED BY <1>0, <2>1, <3>1, MarkTaskShape
  <2>3. latest'[cur].status = "running" /\ UNCHANGED <<artifacts, cur>> /\ pc = "begin"
    BY <1>0, <1>1, <2>1 DEF Begin, NewAttempt, NoAttempt
  <2>4. \A d \in Tasks \ {cur} : tries'[d] = tries[d]
    BY <1>0, <1>1 DEF Begin
  <2>5. ASSUME NEW d \in Tasks, plan.op[d] # "implement", task'[d] = "completed" PROVE <<d, tries'[d]>> \in artifacts'
    <3>1. d # cur /\ task[d] = "completed"
      BY <2>2, <2>3, <2>5, CompletesStep DEF Completing
    <3> QED BY <2>3, <2>4, <2>5, <3>1 DEF Reported
  <2> QED BY <1>p, <2>3, <2>5 DEF Reported
<1>2. CASE ~Begin
  <2>1. tries' = tries
    BY <1>2 DEF AttemptsNext, ExecutorStep, Choose, Locate, Attach, BeginFails, Launch, AgentEnds, Revoke,
       CollectEvidence, Settle, Verdict, Integrate, CommitOutput, Move, Follow, SetRunIntegration, RecordOutcome,
       Approve, RemoveWorktree, PruneInertWorktree, Detach, UserCommits, RetryTask, ServerStops, Reconcile, Rows, Untouched
  <2>2. artifacts \subseteq artifacts'
    <3>1. CASE Settle
      <4>1. cur \in Tasks
        BY <3>1 DEF Settle, AtHand, WithTree, Working
      <4> QED BY <1>0, <3>1, <4>1, SettleShape
    <3> QED BY <1>2, <3>1 DEF AttemptsNext, ExecutorStep, Choose, Locate, Attach, BeginFails, Launch, AgentEnds, Revoke,
       CollectEvidence, Verdict, Integrate, CommitOutput, Move, Follow, SetRunIntegration, RecordOutcome,
       Approve, RemoveWorktree, PruneInertWorktree, Detach, UserCommits, RetryTask, ServerStops, Reconcile, Rows, Untouched
  <2>3. ASSUME NEW d \in Tasks, plan.op[d] # "implement", task'[d] = "completed" PROVE <<d, tries'[d]>> \in artifacts'
    <3>1. CASE task[d] = "completed"
      BY <2>1, <2>2, <2>3, <3>1 DEF Reported
    <3>2. CASE Completing(d)
      <4>1. CASE pc = "approve"
        <5>1. latest[cur].status = "reviewing" /\ d = cur
          BY <3>2, <4>1 DEF AtHand, AfterVerdict, Completing
        <5> QED BY <2>1, <2>2, <2>3, <4>1, <5>1 DEF Reported, AfterVerdict
      <4> QED BY <2>1, <3>2, <4>1 DEF Completing
    <3> QED BY <2>3, <3>1, <3>2, CompletesStep
  <2>4. ASSUME pc' \in Shown, latest'[cur'].status = "reviewing", plan.op[cur'] # "implement"
        PROVE  <<cur', tries'[cur']>> \in artifacts'
    <3>1. CASE Settle
      <4>1. cur \in Tasks /\ cur' = cur
        BY <3>1 DEF Settle, AtHand, WithTree, Working
      <4>2. pc' \in {"idle", "locate", "launch", "prune", "choose"}
        BY <1>0, <3>1, <4>1, SettleShape
      <4>3. pc' = "launch" /\ plan.op[cur] # "implement" => <<cur, tries[cur]>> \in artifacts'
        BY <1>0, <3>1, <4>1, SettleShape
      <4> QED BY <2>1, <2>4, <4>1, <4>2, <4>3 DEF AfterVerdict
    <3>2. CASE CollectEvidence
      <4>1. CASE OutputLimit
        <5>1. cur \in Tasks
          BY <3>2 DEF CollectEvidence, AtHand, WithTree, Working
        <5> QED BY <1>0, <2>4, <4>1, <5>1, OutputLimitShape DEF AfterVerdict
      <4> QED BY <2>4, <3>2, <4>1 DEF CollectEvidence, To, AfterVerdict
    <3>3. CASE Verdict
      <4>1. cur \in Tasks /\ cur' = cur /\ pc = "verdict"
        BY <3>3 DEF Verdict, AtHand, WithTree, Working
      <4>2. pc' \in {"idle", "locate", "integrate"} /\ (pc' = "integrate" => latest' = latest /\ task' = task /\ run' = run)
        BY <1>0, <3>3, <4>1, VerdictShape
      <4> QED BY <2>1, <2>2, <2>4, <4>1, <4>2 DEF Reported, AfterVerdict
    <3>4. CASE Launch \/ AgentEnds \/ Revoke
      <4>1. pc \in {"launch", "agent", "revoke"} /\ UNCHANGED <<cur, latest>>
        BY <3>4 DEF Launch, AgentEnds, Revoke, Rows
      <4> QED BY <2>1, <2>2, <2>4, <4>1 DEF Reported
    <3>5. CASE Integrate \/ CommitOutput \/ Move \/ Follow \/ SetRunIntegration \/ RecordOutcome
      <4>1. pc \in AfterVerdict /\ UNCHANGED <<cur, latest>>
        BY <3>5 DEF Integrate, CommitOutput, Move, Follow, SetRunIntegration, RecordOutcome, AfterVerdict, Untouched
      <4> QED BY <2>1, <2>2, <2>4, <4>1 DEF Reported
    <3>6. CASE UserCommits
      <4>1. UNCHANGED <<cur, latest, pc>>
        BY <3>6 DEF UserCommits, Rows
      <4> QED BY <2>1, <2>2, <2>4, <4>1 DEF Reported
    <3>7. CASE Choose \/ Locate \/ Attach \/ BeginFails \/ Approve \/ RemoveWorktree \/ PruneInertWorktree \/ Detach
               \/ ServerStops \/ Reconcile \/ \E t \in Tasks : RetryTask(t)
      <4>1. pc' \notin Shown
        BY <3>7 DEF Choose, Locate, Attach, BeginFails, Approve, RemoveWorktree, PruneInertWorktree, Detach,
           ServerStops, Reconcile, RetryTask, Stop, To, AfterVerdict
      <4> QED BY <2>4, <4>1
    <3> QED BY <1>2, <3>1, <3>2, <3>3, <3>4, <3>5, <3>6, <3>7 DEF AttemptsNext, ExecutorStep
  <2> QED BY <1>p, <2>3, <2>4 DEF Reported
<1> QED BY <1>1, <1>2
LEMMA OutcomesGrow ==
  ASSUME AttemptsTypeOK, AtHand, AttemptsNext
  PROVE  ToSet(outcomes) \subseteq ToSet(outcomes')
<1>1. CASE \E e \in Tasks \X {"clean", "rebased", "conflict"} : outcomes' = Append(outcomes, e)
  BY <1>1, ContentsOfAppend DEF AttemptsTypeOK
<1>2. CASE UNCHANGED outcomes
  BY <1>2
<1>3. CASE Move \/ RecordOutcome
  <2>1. cur \in Tasks
    BY <1>3 DEF Move, RecordOutcome, AtHand, Working, WithTree
  <2>2. \A k \in {"clean", "rebased", "conflict"} : Outcome(k) \in Tasks \X {"clean", "rebased", "conflict"}
    BY <2>1 DEF Outcome
  <2> QED BY <1>1, <1>2, <1>3, <2>2 DEF Move, NothingNew, Clean, Rebase, Conflict, RecordOutcome
<1> QED
  BY <1>2, <1>3 DEF AttemptsNext, ExecutorStep, Choose, Locate, Attach, BeginFails, Begin, Launch, AgentEnds, Revoke,
     CollectEvidence, Settle, Verdict, Integrate, CommitOutput, Follow, SetRunIntegration,
     Approve, RemoveWorktree, PruneInertWorktree, Detach, UserCommits, RetryTask, ServerStops, Reconcile, Rows

LEMMA KeptStep ==
  ASSUME AttemptsTypeOK, AtHand, OnItsWay, KeptOrConflict, AttemptsNext
  PROVE  KeptOrConflict'
<1>0. /\ TasksOK /\ BranchesOK(branch) /\ TreesOK(tree) /\ main \in Commits /\ tries \in [Tasks -> Nat]
  BY DEF AttemptsTypeOK, TasksOK
<1> SUFFICES ASSUME NEW t \in Tasks, <<t, "conflict">> \notin ToSet(outcomes') PROVE Kept(t)'
  BY DEF KeptOrConflict
<1>1. Kept(t) /\ t # RunBranch
  BY OutcomesGrow, TasksArePositive DEF KeptOrConflict
<1>z. ASSUME t \in DOMAIN tree' <=> t \in DOMAIN tree, t \in DOMAIN tree => tree'[t] = tree[t],
             t \in DOMAIN branch' <=> t \in DOMAIN branch, t \in DOMAIN branch => branch'[t] = branch[t], SeenKept(t)
      PROVE  Kept(t)'
  BY <1>1, <1>z DEF Kept, SeenKept
<1>y. ASSUME UNCHANGED <<branch, tree>>, SeenKept(t) PROVE Kept(t)'
  BY <1>y, <1>z
<1>2. CASE ~SeenKept(t)
  <2>1. CASE latest'[t].seen = {} /\ UNCHANGED <<branch, tree>>
    BY <1>1, <2>1 DEF Kept
  <2>2. CASE /\ t \in DOMAIN tree /\ latest'[t].seen = Contents(tree[t].head) \cup tree[t].work
             /\ UNCHANGED <<branch, tree>>
    BY <1>1, <2>2 DEF Kept
  <2> QED BY <1>2, <2>1, <2>2, SeenStep
<1>3. ASSUME SeenKept(t), Locate PROVE Kept(t)'
  <2>1. cur \in Tasks
    BY <1>3 DEF Locate, AtHand, Working
  <2>2. ASSUME AddWorktree(cur) PROVE Kept(t)'
    <3>1. CASE cur \in DOMAIN tree
      BY <1>0, <1>3, <1>y, <2>1, <2>2, <3>1, AddWorktreeShape
    <3>2. CASE cur \notin DOMAIN tree
      <4>1. /\ DOMAIN tree' = DOMAIN tree \cup {cur} /\ DOMAIN branch' = DOMAIN branch \cup {cur}
            /\ \A u \in DOMAIN tree : tree'[u] = tree[u]
            /\ \A c \in DOMAIN branch : branch'[c] = branch[c]
            /\ tree'[cur] = [head |-> branch'[cur], work |-> {}, stuck |-> FALSE]
        BY <1>0, <2>1, <2>2, <3>2, AddWorktreeShape
      <4>2. CASE t # cur
        BY <1>3, <1>z, <4>1, <4>2
      <4>3. CASE t = cur
        <5>1. tree'[t].work = {} /\ tree'[t].head = branch'[t] /\ ~tree'[t].stuck
          BY <4>1, <4>3
        <5>2. t \in DOMAIN branch => latest[t].seen \subseteq Contents(branch[t])
          BY <1>1, <3>2, <4>3 DEF Kept
        <5>3. t \notin DOMAIN branch => latest[t].seen = {}
          BY <1>1 DEF Kept
        <5>4. latest'[t].seen \subseteq Contents(branch'[t])
          BY <1>3, <4>1, <5>2, <5>3 DEF SeenKept
        <5>5. t \in DOMAIN branch' /\ t \in DOMAIN tree'
          BY <4>1, <4>3
        <5> QED BY <5>1, <5>4, <5>5 DEF Kept
      <4> QED BY <4>2, <4>3
    <3> QED BY <3>1, <3>2
  <2> QED BY <1>3, <1>y, <2>2 DEF Locate
<1>4. ASSUME SeenKept(t), Writes, cur \in DOMAIN tree PROVE Kept(t)'
  <2>1. CASE t # cur
    BY <1>4, <1>z, <2>1 DEF Writes
  <2>2. CASE t = cur /\ t \in DOMAIN tree
    <3>1. /\ t \in DOMAIN tree' /\ t \in DOMAIN branch' /\ ~tree'[t].stuck /\ tree'[t].head = branch'[t]
          /\ Contents(tree[t].head) \cup tree[t].work \subseteq Contents(tree'[t].head) \cup tree'[t].work
      BY <1>1, <1>4, <2>2 DEF Writes, Kept
    <3>2. latest[t].seen \subseteq Contents(tree[t].head) \cup tree[t].work
      BY <1>1, <2>2 DEF Kept
    <3> QED BY <1>4, <3>1, <3>2 DEF Kept, SeenKept
  <2> QED BY <1>4, <2>1, <2>2
<1>5. ASSUME SeenKept(t), AgentEnds PROVE Kept(t)'
  <2>1. cur \in DOMAIN tree /\ tries[cur] \in Nat
    BY <1>0, <1>5 DEF AgentEnds, AtHand, WithTree, Working
  <2>2. CASE AgentWrites
    BY <1>0, <1>4, <1>5, <2>1, <2>2, AgentWritesShape
  <2> QED BY <1>5, <1>y, <2>2 DEF AgentEnds
<1>6. ASSUME SeenKept(t), CommitOutput PROVE Kept(t)'
  <2>1. cur \in DOMAIN tree
    BY <1>6 DEF CommitOutput, AtHand, WithTree
  <2>2. CASE CommitChanges(cur)
    BY <1>0, <1>4, <1>6, <2>1, <2>2, CommitChangesShape
  <2> QED BY <1>6, <1>y, <2>2 DEF CommitOutput
<1>7. ASSUME SeenKept(t), UNCHANGED tree, NEW h \in Commits, UpdateRef(RunBranch, h) PROVE Kept(t)'
  <2>1. /\ DOMAIN branch' = DOMAIN branch \cup {RunBranch}
        /\ \A c \in DOMAIN branch \ {RunBranch} : branch'[c] = branch[c]
    BY <1>0, <1>7, UpdateRefShape
  <2> QED BY <1>1, <1>7, <1>z, <2>1
<1>8. ASSUME SeenKept(t), Integrate PROVE Kept(t)'
  BY <1>0, <1>7, <1>8, <1>y DEF Integrate
<1>9. ASSUME SeenKept(t), Follow PROVE Kept(t)'
  <2>1. tree[cur].head \in Commits
    BY <1>0, <1>9 DEF Follow, AtHand, WithTree, TreesOK, Trees
  <2> QED BY <1>7, <1>9, <2>1 DEF Follow
<1>10. ASSUME SeenKept(t), Move PROVE Kept(t)'
  <2>1. /\ cur \in DOMAIN tree /\ cur \in Tasks /\ RunBranch \in DOMAIN branch
        /\ latest[cur].seen \subseteq Contents(tree[cur].head)
    BY <1>10 DEF Move, AtHand, WithTree, Working, OnItsWay, AfterVerdict
  <2>2. tree[cur].head \in Commits /\ branch[RunBranch] \in Commits
    BY <1>0, <2>1 DEF TreesOK, BranchesOK, Trees
  <2>3. CASE NothingNew
    BY <1>10, <1>y, <2>3 DEF NothingNew
  <2>4. CASE Clean
    BY <1>7, <1>10, <2>2, <2>4 DEF Clean
  <2>5. CASE Rebase
    <3> DEFINE more == Replayed(tree[cur].head, branch[RunBranch])
    <3>1. Advance(cur, branch[RunBranch] \o more, {}) /\ ~tree[cur].stuck
      BY <2>5 DEF Rebase
    <3>2. /\ branch[RunBranch] \o more \in Commits
          /\ Contents(branch[RunBranch] \o more) = Contents(tree[cur].head) \cup Contents(branch[RunBranch])
      BY <2>2, ReplayedShape
    <3> HIDE DEF more
    <3>3. PICK h \in Commits : h = branch[RunBranch] \o more
      BY <3>2
    <3>4. IsFiniteSet({}) /\ {} \in SUBSET Patches /\ Advance(cur, h, {})
      BY <3>1, <3>3, FS_EmptySet
    <3>a. /\ DOMAIN tree' = DOMAIN tree
          /\ tree'[cur].head = h /\ tree'[cur].work = {} /\ tree'[cur].stuck = tree[cur].stuck
          /\ \A u \in DOMAIN tree \ {cur} : tree'[u] = tree[u]
      BY <1>0, <2>1, <3>4 DEF Advance, TreesOK, Trees
    <3>b. UpdateRef(cur, h) /\ cur \in Tasks
      BY <2>1, <3>1, <3>4 DEF Advance
    <3>c. /\ DOMAIN branch' = DOMAIN branch \cup {cur} /\ branch'[cur] = h
          /\ \A c \in DOMAIN branch \ {cur} : branch'[c] = branch[c]
      BY <1>0, <3>b, UpdateRefShape
    <3>5. /\ DOMAIN tree' = DOMAIN tree
          /\ tree'[cur].head = h /\ tree'[cur].work = {} /\ tree'[cur].stuck = tree[cur].stuck
          /\ \A u \in DOMAIN tree \ {cur} : tree'[u] = tree[u]
          /\ DOMAIN branch' = DOMAIN branch \cup {cur} /\ branch'[cur] = h
          /\ \A c \in DOMAIN branch \ {cur} : branch'[c] = branch[c]
      BY <3>a, <3>c
    <3>6. CASE t # cur
      BY <1>10, <1>z, <3>1, <3>5, <3>6
    <3>7. CASE t = cur
      BY <1>10, <2>1, <3>1, <3>2, <3>3, <3>5, <3>7 DEF Kept, SeenKept
    <3> QED BY <3>6, <3>7
  <2>6. CASE Conflict
    <3>1. t # cur
      <4>1. outcomes' = Append(outcomes, <<cur, "conflict">>)
        BY <2>6 DEF Conflict, Outcome
      <4>2. <<cur, "conflict">> \in Tasks \X {"clean", "rebased", "conflict"}
        BY <2>1
      <4>3. ToSet(outcomes') = ToSet(outcomes) \cup {<<cur, "conflict">>}
        <5>1. outcomes \in Seq(Tasks \X {"clean", "rebased", "conflict"})
          BY DEF AttemptsTypeOK
        <5> QED BY <4>1, <4>2, <5>1, ContentsOfAppend
      <4> QED BY <4>3
    <3>2. DOMAIN tree' = DOMAIN tree /\ (t \in DOMAIN tree => tree'[t] = tree[t]) /\ UNCHANGED branch
      BY <2>6, <3>1 DEF Conflict
    <3> QED BY <1>10, <1>z, <3>2
  <2> QED BY <1>10, <2>3, <2>4, <2>5, <2>6 DEF Move
<1>11. ASSUME SeenKept(t), UNCHANGED branch, NEW S, \A u \in S \cap DOMAIN tree : tree[u].work = {},
              tree' = WithoutTree(S)
       PROVE  Kept(t)'
  <2>1. DOMAIN tree' = DOMAIN tree \ S /\ \A u \in DOMAIN tree \ S : tree'[u] = tree[u]
    BY <1>11 DEF WithoutTree
  <2> QED BY <1>1, <1>11, <2>1 DEF Kept, SeenKept
<1>12. ASSUME SeenKept(t), RemoveWorktree PROVE Kept(t)'
  BY <1>11, <1>12, <1>y DEF RemoveWorktree, Removable, Dirty
<1>13. ASSUME SeenKept(t), Reconcile PROVE Kept(t)'
  BY <1>11, <1>13 DEF Reconcile, PruneCleanWorktrees, Removable, Dirty
<1>14. ASSUME SeenKept(t), \/ Choose \/ Attach \/ BeginFails \/ Begin \/ Launch \/ Revoke \/ CollectEvidence
                          \/ Settle \/ Verdict \/ SetRunIntegration \/ RecordOutcome \/ Approve
                          \/ PruneInertWorktree \/ Detach
       PROVE  Kept(t)'
  BY <1>14, <1>y DEF Choose, Attach, BeginFails, Begin, Launch, Revoke, CollectEvidence, Settle, Verdict,
     SetRunIntegration, RecordOutcome, Approve, PruneInertWorktree, Detach, Git
<1>15. ASSUME SeenKept(t), UserCommits \/ ServerStops \/ \E u \in Tasks : RetryTask(u) PROVE Kept(t)'
  BY <1>15, <1>y DEF UserCommits, ServerStops, RetryTask, Git
<1> QED
  BY <1>2, <1>3, <1>5, <1>6, <1>8, <1>9, <1>10, <1>12, <1>13, <1>14, <1>15 DEF AttemptsNext, ExecutorStep

-----------------------------------------------------------------------------
(***************************************************************************)
(* What is judged.  A rework takes back whatever the rejecting review      *)
(* rests on, so that the executor can meet work that is to be done again   *)
(* below a task that stands.  That is so only where a rejecting review     *)
(* lies beside that task, and never above or below it.                     *)
(***************************************************************************)
\* What a review's rework takes back without a cascade that reaches it again:
\* nothing of it depends on the task that is sent back to work.
Stranded(p, r, s) == {a \in Ancestors(p, r) : a # s /\ s \notin Ancestors(p, a)}

Seeds(p) == {s \in Tasks : \E r \in Tasks : p.op[r] = "review" /\ s \in ReworkSeeds(p, r)}

\* Plans for which the judgement of reviews is proved: what one review's rework
\* strands is no task that a review sends back to work. In a plan with one
\* implementation before its reviews it never is.
SeedsStayClear(p) ==
  \A r \in Tasks : p.op[r] = "review" =>
    \A s \in ReworkSeeds(p, r) : Stranded(p, r, s) \cap Seeds(p) = {}

PlainStates == {"pending", "ready", "running", "blocked", "failed", "completed"}
Live == {"ready", "running", "failed", "completed"}

Rejected(u) == plan.op[u] = "review" /\ (tries[u] > 1 \/ latest[u].status = "changes_requested")
Escape(t) == \E u \in Tasks : Rejected(u) /\ Beside(t, u)

\* A task that nothing makes ready again, once it waits.
Lone(e) == plan.deps[e] = {} /\ e \notin Seeds(plan)
Dead == \E a \in Tasks : Lone(a) /\ task[a] = "pending"

\* The tasks between e and a review that rejected what rests on e.
Cone(c, e) == {x \in Ancestors(plan, c) \cup {c} : e \in Ancestors(plan, x)}

\* Work to be done has nothing above it that stands, but what is not between it
\* and the review that rejected it.
Covered(e) ==
  \/ \A t \in Tasks : e \in Ancestors(plan, t) => task[t] \notin Live
  \/ /\ ~Lone(e)
     /\ \E c \in Tasks : /\ Rejected(c) /\ e \in Ancestors(plan, c)
                         /\ \A x \in Cone(c, e) : task[x] \notin Live
AllCovered == \A e \in Tasks : task[e] # "completed" => Covered(e)

JudgedWell ==
  \A t \in Tasks : plan.op[t] = "review" /\ task[t] \in {"running", "completed"} =>
    judged[t] = Judges(t) \/ Escape(t)

StatusesOK ==
  /\ \A t \in Tasks : task[t] \in PlainStates
  /\ \A t \in Tasks : task[t] = "completed" => latest[t].status = "approved"
  /\ \A t \in Tasks : latest[t].status # "none" => tries[t] >= 1
  /\ pc \in Open => latest[cur].status \in {"running", "reviewing"}
  /\ pc \in {"locate", "attach", "begin"} => task[cur] = "ready"
  /\ run = "completed" => pc \in {"idle", "down"} /\ \A t \in Tasks : task[t] = "completed"

Sound == Dead \/ (AllCovered /\ JudgedWell)
JudgeInv == StatusesOK /\ Sound

LEMMA AncestorsAbove ==
  ASSUME NEW p \in PlanType, NEW u \in Tasks, NEW e \in Ancestors(p, u)
  PROVE  e \in p.deps[u] \/ \E d \in p.deps[u] : e \in Ancestors(p, d)
<1> DEFINE S == p.deps[u] \cup UNION {Ancestors(p, d) : d \in p.deps[u]}
<1>1. p.deps[u] \subseteq Tasks
  BY DEF PlanType
<1>2. S \in SUBSET Tasks
  BY <1>1, AncestorsClosed
<1>3. \A s \in S : p.deps[s] \subseteq S
  <2>1. ASSUME NEW s \in p.deps[u] PROVE p.deps[s] \subseteq S
    BY <1>1, <2>1, AncestorsClosed
  <2>2. ASSUME NEW d \in p.deps[u], NEW s \in Ancestors(p, d) PROVE p.deps[s] \subseteq S
    BY <1>1, <2>2, AncestorsClosed
  <2> QED BY <2>1, <2>2
<1>4. p.deps[u] \subseteq S
  OBVIOUS
<1> HIDE DEF S
<1>5. e \in S
  BY <1>2, <1>3, <1>4, AncestorsLeast
<1> QED BY <1>5 DEF S

LEMMA NoAncestors ==
  ASSUME NEW p \in PlanType, NEW u \in Tasks, p.deps[u] = {}
  PROVE  Ancestors(p, u) = {}
BY AncestorsAbove

(* Among any tasks of an acyclic plan there is one that none of them       *)
(* depends on.                                                             *)
LEMMA LastOfTasks ==
  ASSUME NEW p \in PlanType, Acyclic(p), NEW T \in SUBSET Tasks, T # {}
  PROVE  \E m \in T : \A x \in T : m \notin Ancestors(p, x)
<1> DEFINE rest(t) == Cardinality(Tasks \ Ancestors(p, t))
           Rests == {rest(t) : t \in T}
<1>1. \A t \in Tasks : IsFiniteSet(Tasks \ Ancestors(p, t)) /\ rest(t) \in Nat
  BY TasksAssumption, FS_Subset, FS_CardinalityType
<1>2. PICK n \in Rests : \A k \in Rests : n <= k
  <2>1. Rests \subseteq Nat /\ Rests # {}
    BY <1>1
  <2> QED BY <2>1, LeastNumber
<1>3. PICK m \in T : rest(m) = n
  BY <1>2
<1>4. ASSUME NEW x \in T, m \in Ancestors(p, x) PROVE FALSE
  <2>1. Ancestors(p, m) \subseteq Ancestors(p, x) /\ m \notin Ancestors(p, m)
    BY <1>4, AncestorsTransitive DEF Acyclic
  <2>2. (Tasks \ Ancestors(p, x)) \subseteq (Tasks \ Ancestors(p, m))
        /\ m \in Tasks \ Ancestors(p, m) /\ m \notin Tasks \ Ancestors(p, x)
    BY <1>4, <2>1
  <2>3. rest(x) <= rest(m) /\ rest(x) # rest(m)
    BY <1>1, <2>2, FS_Subset
  <2>4. rest(m) <= rest(x)
    BY <1>2, <1>3, <1>4
  <2>5. rest(m) \in Nat /\ rest(x) \in Nat
    BY <1>1
  <2> HIDE DEF rest
  <2> QED BY <2>3, <2>4, <2>5
<1> QED BY <1>3, <1>4

LEMMA PlanShape ==
  ASSUME plan \in Plans
  PROVE  /\ plan \in PlanType /\ Acyclic(plan)
         /\ \A u \in Tasks : plan.deps[u] \subseteq Tasks /\ Ancestors(plan, u) \subseteq Tasks
                             /\ u \notin Ancestors(plan, u) /\ plan.deps[u] \subseteq Ancestors(plan, u)
         /\ \A u \in Tasks : \A a \in Ancestors(plan, u) : Ancestors(plan, a) \subseteq Ancestors(plan, u)
<1>1. plan \in PlanType /\ Acyclic(plan)
  BY AttemptsAssumption
<1> QED BY <1>1, AncestorsClosed, AncestorsTransitive DEF Acyclic

(* What a cascade does to the tasks it reaches: they are set back, or are  *)
(* ready because the mark completed the last task they waited for.         *)
SetBack(new, u) == new[u] \in {"pending", "blocked"}
MadeReady(new, t, u) == new[u] = "ready" /\ new[t] = "completed" /\ \A d \in plan.deps[u] : new[d] = "completed"

MovesOne(states, t, new, u) ==
  \/ new[u] = states[u]
  \/ t \in Ancestors(plan, u) /\ states[u] # "completed" /\ (SetBack(new, u) \/ MadeReady(new, t, u))
Rests(states, t, C) == \A x \in C : states[x] # "completed" /\ plan.deps[x] \cap (C \cup {t}) # {}
Moves(states, t, s, new) ==
  /\ new \in [Tasks -> PlainStates] /\ new[t] = s
  /\ \A u \in Tasks \ {t} : MovesOne(states, t, new, u)
  /\ s # "completed" =>
       \A C \in SUBSET (Tasks \ {t}) : Rests(states, t, C) => \A x \in C : SetBack(new, x)

LEMMA MarkMoves ==
  ASSUME plan \in Plans, NEW states \in [Tasks -> PlainStates], NEW t \in Tasks, NEW s \in PlainStates,
         NEW new, new = MarkIn(states, t, s)
  PROVE  Moves(states, t, s, new)
<1> DEFINE marked == [states EXCEPT ![t] = s]
<1>0. PlainStates \subseteq TaskStates
  BY DEF PlainStates, TaskStates
<1>1. marked \in [Tasks -> PlainStates] /\ marked[t] = s /\ \A u \in Tasks \ {t} : marked[u] = states[u]
  OBVIOUS
<1>2. new = Cascade(marked, t)
  BY DEF MarkIn
<1> HIDE DEF marked
<1>3. marked \in [Tasks -> TaskStates]
  BY <1>0, <1>1
<1>4. new \in [Tasks -> TaskStates]
  BY <1>2, <1>3, CascadeSettles
<1>5. PICK reached \in [Tasks -> BOOLEAN] :
              /\ \A u \in Tasks : reached[u] = ReachStep(marked, t, reached, u)
              /\ \A u \in Tasks : new[u] = MoveStep(reached, marked, t, new, u)
  <2>1. \E reached \in [Tasks -> BOOLEAN] :
              /\ \A u \in Tasks : reached[u] = ReachStep(marked, t, reached, u)
              /\ \A u \in Tasks : Cascade(marked, t)[u] = MoveStep(reached, marked, t, Cascade(marked, t), u)
    BY <1>3, CascadeSettles
  <2>2. PICK f : f = Cascade(marked, t)
    OBVIOUS
  <2>3. \E reached \in [Tasks -> BOOLEAN] :
              /\ \A u \in Tasks : reached[u] = ReachStep(marked, t, reached, u)
              /\ \A u \in Tasks : f[u] = MoveStep(reached, marked, t, f, u)
    BY <2>1, <2>2
  <2>4. f = new
    BY <1>2, <2>2
  <2> QED BY <2>3, <2>4
<1>6. plan \in PlanType /\ Acyclic(plan) /\ \A u \in Tasks : plan.deps[u] \subseteq Tasks
  BY PlanShape
<1>7. new[t] = s
  BY <1>1, <1>5 DEF MoveStep, Moved
<1>8. \A u \in Tasks : new[u] \in PlainStates
  <2>1. ASSUME NEW u \in Tasks PROVE new[u] \in PlainStates
    BY <1>1, <1>5 DEF MoveStep, NextStateForDependent, PlainStates
  <2> QED BY <2>1
<1>9. \A u \in Tasks : reached[u] => t \in Ancestors(plan, u)
  <2> DEFINE T == {u \in Tasks : reached[u] /\ t \notin Ancestors(plan, u)}
  <2> SUFFICES ASSUME T # {} PROVE FALSE
    OBVIOUS
  <2>1. PICK m \in T : plan.deps[m] \cap T = {}
    BY <1>6, FirstOfTasks
  <2>2. PICK d \in plan.deps[m] : d = t \/ reached[d]
    BY <1>5, <2>1 DEF ReachStep
  <2>3. d \in Ancestors(plan, m) /\ Ancestors(plan, d) \subseteq Ancestors(plan, m) /\ d \in Tasks
    BY <2>1, <2>2, PlanShape
  <2> QED BY <2>1, <2>2, <2>3
<1>10. ASSUME NEW u \in Tasks \ {t}, reached[u], marked[u] # "completed"
       PROVE  SetBack(new, u) \/ MadeReady(new, t, u)
  <2>1. new[u] = NextStateForDependent({new[d] : d \in plan.deps[u]})
    BY <1>5, <1>10 DEF MoveStep, Moved
  <2>2. CASE new[u] \in {"pending", "blocked"}
    BY <2>2 DEF SetBack
  <2>3. CASE new[u] = "ready"
    <3>1. \A d \in plan.deps[u] : new[d] \in {"completed", "superseded"}
      BY <2>1, <2>3 DEF NextStateForDependent
    <3>2. \A d \in plan.deps[u] : new[d] = "completed"
      BY <1>6, <1>8, <3>1 DEF PlainStates
    <3>3. PICK d \in plan.deps[u] : d = t \/ (reached[d] /\ marked[d] # "completed")
      BY <1>5, <1>10 DEF ReachStep
    <3>4. d = t
      <4>1. ASSUME d # t PROVE FALSE
        <5>1. d \in Tasks /\ reached[d] /\ marked[d] # "completed"
          BY <1>6, <3>3, <4>1
        <5>2. new[d] # "completed"
          BY <1>5, <4>1, <5>1 DEF MoveStep, Moved, NextStateForDependent
        <5> QED BY <3>2, <5>2
      <4> QED BY <4>1
    <3> QED BY <2>3, <3>2, <3>4 DEF MadeReady
  <2> QED BY <2>1, <2>2, <2>3 DEF NextStateForDependent
<1>11. ASSUME NEW u \in Tasks \ {t}
       PROVE  new[u] = states[u] \/ (t \in Ancestors(plan, u) /\ states[u] # "completed" /\ (SetBack(new, u) \/ MadeReady(new, t, u)))
  <2>1. CASE reached[u] /\ marked[u] # "completed"
    BY <1>1, <1>9, <1>10, <2>1
  <2>2. CASE ~(reached[u] /\ marked[u] # "completed")
    BY <1>1, <1>5, <2>2 DEF MoveStep, Moved
  <2> QED BY <2>1, <2>2
<1>12. ASSUME NEW C \in SUBSET (Tasks \ {t}), s # "completed",
              \A x \in C : states[x] # "completed" /\ plan.deps[x] \cap (C \cup {t}) # {},
              NEW x \in C
       PROVE  SetBack(new, x)
  <2> DEFINE T == {u \in C : ~reached[u]}
  <2>1. ASSUME T # {} PROVE FALSE
    <3>1. PICK m \in T : plan.deps[m] \cap T = {}
      BY <1>6, <2>1, FirstOfTasks
    <3>2. PICK d \in plan.deps[m] : d \in C \cup {t}
      BY <1>12, <3>1
    <3>3. d = t \/ (d \in C /\ reached[d] /\ marked[d] # "completed")
      BY <1>1, <1>12, <3>1, <3>2
    <3> QED BY <1>5, <3>1, <3>2, <3>3 DEF ReachStep
  <2>2. reached[x] /\ marked[x] # "completed"
    BY <1>1, <1>12, <2>1
  <2>3. ~MadeReady(new, t, x)
    BY <1>7, <1>12 DEF MadeReady
  <2> QED BY <1>10, <2>2, <2>3
<1>13. new \in [Tasks -> PlainStates]
  BY <1>4, <1>8
<1>14. \A u \in Tasks \ {t} : MovesOne(states, t, new, u)
  BY <1>11 DEF MovesOne
<1>15. s # "completed" =>
         \A C \in SUBSET (Tasks \ {t}) : Rests(states, t, C) => \A x \in C : SetBack(new, x)
  BY <1>12 DEF Rests
<1> QED BY <1>7, <1>13, <1>14, <1>15 DEF Moves

RejectedStays == \A u \in Tasks : Rejected(u) => Rejected(u)'

PlainOK == plan \in Plans /\ plan' = plan /\ task \in [Tasks -> PlainStates]

(* A task that stands is made to stand only on completed tasks, so that    *)
(* what is covered stays covered when the state of a standing task         *)
(* changes.                                                                *)
LEMMA MarkCovers ==
  ASSUME PlainOK, RejectedStays, AllCovered,
         NEW t \in Tasks, NEW s \in Live, task[t] \in Live \ {"completed"}, task' = MarkIn(task, t, s)
  PROVE  AllCovered'
<1>0. s \in PlainStates
  BY DEF Live, PlainStates
<1>1. /\ task' \in [Tasks -> PlainStates] /\ task'[t] = s
      /\ \A u \in Tasks \ {t} : 
           task'[u] = task[u] \/ (task[u] # "completed" /\ (SetBack(task', u) \/ MadeReady(task', t, u)))
  <2>1. Moves(task, t, s, task')
    BY <1>0, MarkMoves DEF PlainOK
  <2> QED BY <2>1 DEF Moves, MovesOne
<1>2. \A u \in Tasks \ {t} : task'[u] = "completed" => task[u] = "completed"
  BY <1>1 DEF SetBack, MadeReady
<1>3. ASSUME NEW e \in Tasks, NEW u \in Tasks, e \in Ancestors(plan, u), task'[e] # "completed",
             task'[u] \in Live, task[u] \notin Live
      PROVE  \E d \in Ancestors(plan, u) : e \in Ancestors(plan, d) /\ task[d] \in Live
  <2>1. u # t
    BY <1>3
  <2>2. MadeReady(task', t, u)
    BY <1>1, <1>3, <2>1 DEF SetBack, Live
  <2>3. PICK d \in plan.deps[u] : e \in Ancestors(plan, d)
    BY <1>3, <2>2, AncestorsAbove, PlanShape DEF MadeReady, PlainOK
  <2>4. d \in Tasks /\ d \in Ancestors(plan, u) /\ task'[d] = "completed"
    BY <2>2, <2>3, PlanShape DEF MadeReady, PlainOK
  <2>5. task[d] \in Live
    BY <1>2, <2>4 DEF Live
  <2> QED BY <2>3, <2>4, <2>5
<1>4. ASSUME NEW e \in Tasks, task'[e] # "completed" PROVE Covered(e)'
  <2>1. task[e] # "completed"
    <3>1. CASE e = t
      BY <3>1
    <3>2. CASE e # t
      BY <1>1, <1>4, <3>2
    <3> QED BY <3>1, <3>2
  <2>2. Covered(e)
    BY <2>1 DEF AllCovered
  <2>3. CASE \A u \in Tasks : e \in Ancestors(plan, u) => task[u] \notin Live
    <3>1. ASSUME NEW u \in Tasks, e \in Ancestors(plan, u), task'[u] \in Live PROVE FALSE
      <4>1. PICK d \in Ancestors(plan, u) : e \in Ancestors(plan, d) /\ task[d] \in Live
        BY <1>3, <1>4, <2>3, <3>1
      <4> QED BY <2>3, <4>1, PlanShape DEF PlainOK
    <3> QED BY <3>1 DEF Covered, PlainOK
  <2>4. CASE ~Lone(e) /\ \E c \in Tasks : /\ Rejected(c) /\ e \in Ancestors(plan, c)
                                          /\ \A x \in Cone(c, e) : task[x] \notin Live
    <3>1. PICK c \in Tasks : /\ Rejected(c) /\ e \in Ancestors(plan, c)
                             /\ \A x \in Cone(c, e) : task[x] \notin Live
      BY <2>4
    <3>2. ASSUME NEW x \in Cone(c, e), task'[x] \in Live PROVE FALSE
      <4>1. x \in Tasks /\ e \in Ancestors(plan, x) /\ x \in Ancestors(plan, c) \cup {c}
        BY <3>2, PlanShape DEF Cone, PlainOK
      <4>2. PICK d \in Ancestors(plan, x) : e \in Ancestors(plan, d) /\ task[d] \in Live
        BY <1>3, <1>4, <3>1, <3>2, <4>1
      <4>3. d \in Ancestors(plan, c)
        BY <4>1, <4>2, PlanShape DEF PlainOK
      <4> QED BY <3>1, <4>2, <4>3 DEF Cone
    <3>3. Cone(c, e)' = Cone(c, e) /\ Lone(e)' = Lone(e) /\ Ancestors(plan, c)' = Ancestors(plan, c)
      BY DEF Cone, Lone, PlainOK
    <3>4. Rejected(c)'
      BY <3>1 DEF RejectedStays
    <3> QED BY <2>4, <3>1, <3>2, <3>3, <3>4 DEF Covered
  <2> QED BY <2>2, <2>3, <2>4 DEF Covered
<1> QED BY <1>4 DEF AllCovered

(* The tasks a rework takes back are set back, and only the one that is    *)
(* sent back to work stands.                                               *)
Reworks(s) == task' = MarkIn(MarkIn(Unwound(task, cur, s), cur, "blocked"), s, "ready")

LEMMA ReworkMoves ==
  ASSUME PlainOK, cur \in Tasks, task[cur] = "running", NEW s \in ReworkSeeds(plan, cur), Reworks(s)
  PROVE  /\ s \in Ancestors(plan, cur) /\ s \in Tasks
         /\ task' \in [Tasks -> PlainStates] /\ task'[s] = "ready"
         /\ \A u \in Tasks \ {s} : task'[u] = task[u] \/ SetBack(task', u)
         /\ \A u \in Tasks \ (Ancestors(plan, cur) \cup {cur}) : task'[u] # "completed" => task[u] # "completed"
         /\ \A u \in Ancestors(plan, cur) : task'[u] # "completed"
         /\ \A u \in Tasks \ {s} : plan.deps[u] = {} /\ task[u] # "running" =>
              task'[u] = IF u \in Ancestors(plan, cur) /\ task[u] = "completed" THEN "pending" ELSE task[u]
         /\ Stranded(plan, cur, s) = {} =>
              \A u \in (Ancestors(plan, cur) \ {s}) \cup {cur} : SetBack(task', u)
<1>1. s \in Ancestors(plan, cur) /\ s \in Tasks /\ s # cur
  BY PlanShape DEF ReworkSeeds, PlainOK
<1>2. PICK a : a = Unwound(task, cur, s)
  OBVIOUS
<1>3. /\ a \in [Tasks -> PlainStates]
      /\ \A u \in Tasks : a[u] = IF u \in Ancestors(plan, cur) \ {s} /\ task[u] = "completed"
                                 THEN "pending" ELSE task[u]
  BY <1>2 DEF Unwound, PlainOK, PlainStates
<1>4. PICK b : b = MarkIn(a, cur, "blocked")
  OBVIOUS
<1>5. task' = MarkIn(b, s, "ready")
  BY <1>2, <1>4 DEF Reworks
<1>6. "blocked" \in PlainStates /\ "ready" \in PlainStates
  BY DEF PlainStates
<1>7. /\ b \in [Tasks -> PlainStates] /\ b[cur] = "blocked"
      /\ \A u \in Tasks \ {cur} : 
           b[u] = a[u] \/ (cur \in Ancestors(plan, u) /\ a[u] # "completed" /\ (SetBack(b, u) \/ MadeReady(b, cur, u)))
  <2>1. Moves(a, cur, "blocked", b)
    BY <1>3, <1>4, <1>6, MarkMoves DEF PlainOK
  <2> QED BY <2>1 DEF Moves, MovesOne
<1>8. /\ task' \in [Tasks -> PlainStates] /\ task'[s] = "ready"
      /\ \A u \in Tasks \ {s} : 
           task'[u] = b[u] \/ (s \in Ancestors(plan, u) /\ b[u] # "completed" /\ (SetBack(task', u) \/ MadeReady(task', s, u)))
      /\ \A C \in SUBSET (Tasks \ {s}) :
           (\A x \in C : b[x] # "completed" /\ plan.deps[x] \cap (C \cup {s}) # {}) =>
             \A x \in C : SetBack(task', x)
  <2>1. Moves(b, s, "ready", task')
    BY <1>1, <1>5, <1>6, <1>7, MarkMoves DEF PlainOK
  <2> QED BY <2>1 DEF Moves, MovesOne, Rests
<1>9. \A u \in Tasks \ {cur} : b[u] = a[u] \/ (cur \in Ancestors(plan, u) /\ a[u] # "completed" /\ SetBack(b, u))
  BY <1>7 DEF MadeReady
<1>10. \A u \in Tasks \ {s} : task'[u] = b[u] \/ (s \in Ancestors(plan, u) /\ b[u] # "completed" /\ SetBack(task', u))
  BY <1>8 DEF MadeReady
<1>11. \A u \in Tasks \ {s} : task'[u] = task[u] \/ SetBack(task', u)
  <2>1. ASSUME NEW u \in Tasks \ {s} PROVE task'[u] = task[u] \/ SetBack(task', u)
    <3>1. b[u] = task[u] \/ b[u] \in {"pending", "blocked"}
      <4>1. CASE u = cur
        BY <1>7, <4>1
      <4>2. CASE u # cur
        BY <1>3, <1>9, <4>2 DEF SetBack
      <4> QED BY <4>1, <4>2
    <3> QED BY <1>10, <2>1, <3>1 DEF SetBack
  <2> QED BY <2>1
<1>12. ASSUME NEW u \in Tasks \ (Ancestors(plan, cur) \cup {cur}), task'[u] # "completed", task[u] = "completed"
       PROVE  FALSE
  <2>1. u # s /\ u # cur /\ a[u] = "completed"
    BY <1>1, <1>3, <1>12
  <2> QED BY <1>9, <1>10, <1>12, <2>1
<1>13. ASSUME NEW u \in Ancestors(plan, cur) PROVE task'[u] # "completed"
  <2>1. u \in Tasks /\ u # cur
    BY PlanShape DEF PlainOK
  <2>2. CASE u = s
    BY <1>8, <2>2
  <2>3. CASE u # s
    <3>1. a[u] # "completed"
      BY <1>3, <2>1, <2>3
    <3> QED BY <1>9, <1>10, <2>1, <2>3, <3>1 DEF SetBack
  <2> QED BY <2>2, <2>3
<1>14. ASSUME NEW u \in Tasks \ {s}, plan.deps[u] = {}, task[u] # "running"
       PROVE  task'[u] = IF u \in Ancestors(plan, cur) /\ task[u] = "completed" THEN "pending" ELSE task[u]
  <2>1. Ancestors(plan, u) = {} /\ u # cur
    BY <1>14, NoAncestors, PlanShape DEF PlainOK
  <2> QED BY <1>3, <1>9, <1>10, <1>14, <2>1
<1>15. ASSUME Stranded(plan, cur, s) = {}
       PROVE  \A u \in (Ancestors(plan, cur) \ {s}) \cup {cur} : SetBack(task', u)
  <2> DEFINE C == (Ancestors(plan, cur) \ {s}) \cup {cur}
  <2>1. C \in SUBSET (Tasks \ {s})
    BY <1>1, PlanShape DEF PlainOK
  <2>2. ASSUME NEW x \in C PROVE b[x] # "completed" /\ plan.deps[x] \cap (C \cup {s}) # {}
    <3>1. s \in Ancestors(plan, x)
      BY <1>1, <1>15, <2>2 DEF Stranded
    <3>2. b[x] # "completed"
      <4>1. CASE x = cur
        BY <1>7, <4>1
      <4>2. CASE x # cur
        <5>1. a[x] # "completed"
          BY <1>3, <2>1, <2>2, <4>2
        <5> QED BY <1>9, <2>1, <2>2, <4>2, <5>1 DEF SetBack
      <4> QED BY <4>1, <4>2
    <3>3. PICK d \in plan.deps[x] : d = s \/ s \in Ancestors(plan, d)
      BY <2>1, <3>1, AncestorsAbove, PlanShape DEF PlainOK
    <3>4. d \in Ancestors(plan, cur)
      BY <2>1, <2>2, <3>3, PlanShape DEF PlainOK
    <3> QED BY <3>2, <3>3, <3>4
  <2> HIDE DEF C
  <2>3. \A x \in C : SetBack(task', x)
    BY <1>8, <2>1, <2>2
  <2> QED BY <2>3 DEF C
<1> QED BY <1>1, <1>8, <1>11, <1>12, <1>13, <1>14, <1>15

\* A dead task stays as it is.
DeadStays == \A a \in Tasks : plan.deps[a] = {} /\ Lone(a) /\ task[a] = "pending" => task'[a] = "pending"

LEMMA StaysDead ==
  ASSUME PlainOK, DeadStays, Dead PROVE Dead'
<1>1. PICK a \in Tasks : Lone(a) /\ task[a] = "pending"
  BY DEF Dead
<1>2. Lone(a)' /\ task'[a] = "pending"
  BY <1>1 DEF Lone, DeadStays, PlainOK
<1> QED BY <1>2 DEF Dead

LEMMA MarkDead ==
  ASSUME PlainOK, NEW t \in Tasks, NEW s \in Live, task[t] \in Live \ {"completed"}, task' = MarkIn(task, t, s)
  PROVE  DeadStays
<1>0. s \in PlainStates
  BY DEF Live, PlainStates
<1>1. Moves(task, t, s, task')
  BY <1>0, MarkMoves DEF PlainOK
<1>2. SUFFICES ASSUME NEW a \in Tasks, plan.deps[a] = {}, task[a] = "pending" PROVE task'[a] = "pending"
  BY DEF DeadStays
<1>3. Ancestors(plan, a) = {} /\ a # t
  BY <1>2, NoAncestors, PlanShape DEF PlainOK, Live
<1>4. MovesOne(task, t, task', a)
  BY <1>1, <1>3 DEF Moves
<1> QED BY <1>2, <1>3, <1>4 DEF MovesOne

(* A rework either strands a task that no review sends back to work, and   *)
(* then the run never completes, or everything it takes back lies between  *)
(* the task it sends back and the review.                                  *)
LEMMA ReworkCovers ==
  ASSUME PlainOK, RejectedStays, SeedsStayClear(plan), AllCovered,
         cur \in Tasks, task[cur] = "running", plan.op[cur] = "review", Rejected(cur)', cur' = cur,
         NEW s \in ReworkSeeds(plan, cur), Reworks(s)
  PROVE  Dead' \/ AllCovered'
<1>0. plan \in Plans /\ plan \in PlanType /\ Acyclic(plan)
  BY PlanShape DEF PlainOK
<1>1. /\ s \in Ancestors(plan, cur) /\ s \in Tasks
      /\ task' \in [Tasks -> PlainStates] /\ task'[s] = "ready"
      /\ \A u \in Tasks \ {s} : task'[u] = task[u] \/ SetBack(task', u)
      /\ \A u \in Tasks \ (Ancestors(plan, cur) \cup {cur}) : task'[u] # "completed" => task[u] # "completed"
      /\ \A u \in Tasks \ {s} : plan.deps[u] = {} /\ task[u] # "running" =>
              task'[u] = IF u \in Ancestors(plan, cur) /\ task[u] = "completed" THEN "pending" ELSE task[u]
      /\ Stranded(plan, cur, s) = {} =>
              \A u \in (Ancestors(plan, cur) \ {s}) \cup {cur} : SetBack(task', u)
  BY ReworkMoves
<1>2. s \in Seeds(plan)
  BY <1>1 DEF Seeds
<1>3. CASE Stranded(plan, cur, s) # {}
  <2>1. Stranded(plan, cur, s) \in SUBSET Tasks
    BY <1>0, PlanShape DEF Stranded
  <2>2. PICK m \in Stranded(plan, cur, s) : plan.deps[m] \cap Stranded(plan, cur, s) = {}
    BY <1>0, <1>3, <2>1, FirstOfTasks
  <2>3. m \in Tasks /\ m \in Ancestors(plan, cur) /\ m # s /\ s \notin Ancestors(plan, m)
    BY <1>0, <2>2, PlanShape DEF Stranded
  <2>4. ASSUME NEW d \in plan.deps[m] PROVE FALSE
    <3>1. d \in Ancestors(plan, m) /\ d \in Tasks
      BY <1>0, <2>3, PlanShape
    <3>2. d \in Ancestors(plan, cur) /\ Ancestors(plan, d) \subseteq Ancestors(plan, m)
      BY <1>0, <2>3, <3>1, PlanShape
    <3>3. d # s /\ s \notin Ancestors(plan, d)
      BY <2>3, <3>1, <3>2
    <3> QED BY <2>2, <3>2, <3>3 DEF Stranded
  <2>5. Lone(m)
    <3>1. m \notin Seeds(plan)
      BY <2>2 DEF SeedsStayClear
    <3> QED BY <2>4, <3>1 DEF Lone
  <2>6. task[m] = "completed"
    <3>1. ASSUME task[m] # "completed" PROVE FALSE
      <4>1. Covered(m)
        BY <2>3, <3>1 DEF AllCovered
      <4>2. task[cur] \in Live
        BY DEF Live
      <4> QED BY <2>3, <2>5, <4>1, <4>2 DEF Covered
    <3> QED BY <3>1
  <2>7. task'[m] = "pending"
    BY <1>1, <2>3, <2>4, <2>6
  <2>8. Lone(m)'
    BY <2>5 DEF Lone, PlainOK
  <2> QED BY <2>3, <2>7, <2>8 DEF Dead
<1>4. CASE Stranded(plan, cur, s) = {}
  <2>1. \A u \in Ancestors(plan, cur) \cup {cur} : u # s => task'[u] \notin Live
    BY <1>1, <1>4 DEF SetBack, Live
  <2>2. Ancestors(plan, s) = {}
    <3>1. ASSUME NEW a \in Ancestors(plan, s) PROVE FALSE
      <4>1. a \in Ancestors(plan, cur) /\ a # s /\ a \in Tasks
        BY <1>0, <1>1, <3>1, PlanShape
      <4>2. s \in Ancestors(plan, a)
        BY <1>4, <4>1 DEF Stranded
      <4> QED BY <1>0, <1>1, <3>1, <4>2, PlanShape
    <3> QED BY <3>1
  <2>3. ASSUME NEW e \in Tasks, task'[e] # "completed" PROVE Covered(e)'
    <3>0. /\ \A c \in Tasks : Cone(c, e)' = Cone(c, e) /\ Ancestors(plan, c)' = Ancestors(plan, c)
          /\ Lone(e)' <=> Lone(e)
      BY DEF Cone, Lone, PlainOK
    <3>1. CASE e \in Ancestors(plan, cur)
      <4>1. ~Lone(e)
        <5>1. CASE e = s
          BY <1>2, <5>1 DEF Lone
        <5>2. CASE e # s
          <6>1. s \in Ancestors(plan, e)
            BY <1>4, <3>1, <5>2 DEF Stranded
          <6> QED BY <1>0, <6>1, NoAncestors DEF Lone
        <5> QED BY <5>1, <5>2
      <4>2. \A x \in Cone(cur, e) : task'[x] \notin Live
        BY <2>1, <2>2 DEF Cone
      <4>3. PICK c \in Tasks : c = cur
        OBVIOUS
      <4>4. Rejected(c)'
        BY <4>3 DEF Rejected
      <4> QED BY <3>0, <3>1, <4>1, <4>2, <4>3, <4>4 DEF Covered
    <3>2. CASE e \notin Ancestors(plan, cur)
      <4>1. task[e] # "completed"
        BY <1>1, <2>3, <3>2
      <4>2. Covered(e)
        BY <4>1 DEF AllCovered
      <4>3. \A x \in Tasks : e \in Ancestors(plan, x) /\ task[x] \notin Live => task'[x] \notin Live
        BY <1>1, <2>2 DEF SetBack, Live
      <4>4. CASE \A t \in Tasks : e \in Ancestors(plan, t) => task[t] \notin Live
        BY <3>0, <4>3, <4>4 DEF Covered
      <4>5. CASE ~Lone(e) /\ \E c \in Tasks : /\ Rejected(c) /\ e \in Ancestors(plan, c)
                                              /\ \A x \in Cone(c, e) : task[x] \notin Live
        <5>1. PICK c \in Tasks : /\ Rejected(c) /\ e \in Ancestors(plan, c)
                                 /\ \A x \in Cone(c, e) : task[x] \notin Live
          BY <4>5
        <5>2. \A x \in Cone(c, e) : task'[x] \notin Live
          BY <1>0, <4>3, <5>1, PlanShape DEF Cone
        <5>3. Rejected(c)'
          BY <5>1 DEF RejectedStays
        <5> QED BY <3>0, <4>5, <5>1, <5>2, <5>3 DEF Covered
      <4> QED BY <4>2, <4>4, <4>5 DEF Covered
    <3> QED BY <3>1, <3>2
  <2> QED BY <2>3 DEF AllCovered
<1> QED BY <1>3, <1>4

LEMMA ReworkDead ==
  ASSUME PlainOK, cur \in Tasks, task[cur] = "running", plan.op[cur] = "review",
         NEW s \in ReworkSeeds(plan, cur), Reworks(s)
  PROVE  DeadStays
<1>1. /\ s \in Tasks
      /\ \A u \in Tasks \ {s} : plan.deps[u] = {} /\ task[u] # "running" =>
              task'[u] = IF u \in Ancestors(plan, cur) /\ task[u] = "completed" THEN "pending" ELSE task[u]
  BY ReworkMoves
<1>2. s \in Seeds(plan)
  BY <1>1 DEF Seeds
<1> QED BY <1>1, <1>2 DEF DeadStays, Lone

(* The interruption of a run changes no task but the one that was running, *)
(* and that one goes on standing.                                          *)
LEMMA InterruptCovers ==
  ASSUME PlainOK, RejectedStays, 
         \A t \in Tasks : task'[t] = task[t] \/ (task[t] = "running" /\ task'[t] = "failed")
  PROVE  DeadStays /\ (AllCovered => AllCovered')
<1>1. DeadStays
  BY DEF DeadStays
<1>2. \A t \in Tasks : (task'[t] \in Live <=> task[t] \in Live) /\ (task'[t] # "completed" => task[t] # "completed")
  BY DEF Live
<1>3. ASSUME AllCovered, NEW e \in Tasks, task'[e] # "completed" PROVE Covered(e)'
  <2>1. Covered(e)
    BY <1>2, <1>3 DEF AllCovered
  <2>2. /\ \A c \in Tasks : Cone(c, e)' = Cone(c, e) /\ Ancestors(plan, c)' = Ancestors(plan, c)
        /\ Lone(e)' <=> Lone(e)
    BY DEF Cone, Lone, PlainOK
  <2>3. CASE \A t \in Tasks : e \in Ancestors(plan, t) => task[t] \notin Live
    BY <1>2, <2>2, <2>3 DEF Covered
  <2>4. CASE ~Lone(e) /\ \E c \in Tasks : /\ Rejected(c) /\ e \in Ancestors(plan, c)
                                          /\ \A x \in Cone(c, e) : task[x] \notin Live
    <3>1. PICK c \in Tasks : /\ Rejected(c) /\ e \in Ancestors(plan, c)
                             /\ \A x \in Cone(c, e) : task[x] \notin Live
      BY <2>4
    <3>2. Cone(c, e) \subseteq Tasks
      BY PlanShape DEF Cone, PlainOK
    <3> QED BY <1>2, <2>2, <2>4, <3>1, <3>2 DEF Covered, RejectedStays
  <2> QED BY <2>1, <2>3, <2>4 DEF Covered
<1> QED BY <1>1, <1>3 DEF AllCovered

(* Work that is to be done again below a task that stands: some review     *)
(* beside that task has rejected it.                                       *)
LEMMA Climb ==
  ASSUME plan \in Plans, AllCovered, NEW t \in Tasks, task[t] \in Live,
         NEW e \in Ancestors(plan, t), task[e] # "completed"
  PROVE  Escape(t)
<1>0. plan \in PlanType /\ Acyclic(plan)
  BY PlanShape
<1> DEFINE W == {x \in Ancestors(plan, t) : task[x] # "completed"}
<1>1. W \in SUBSET Tasks /\ W # {}
  BY PlanShape
<1>2. PICK m \in W : \A x \in W : m \notin Ancestors(plan, x)
  BY <1>0, <1>1, LastOfTasks
<1>3. m \in Tasks /\ m \in Ancestors(plan, t) /\ Covered(m)
  BY <1>1, <1>2 DEF AllCovered
<1>4. PICK c \in Tasks : /\ Rejected(c) /\ m \in Ancestors(plan, c)
                         /\ \A x \in Cone(c, m) : task[x] \notin Live
  BY <1>3 DEF Covered
<1>5. c \in Cone(c, m) /\ t \notin Cone(c, m)
  BY <1>4 DEF Cone
<1>6. t # c /\ t \notin Ancestors(plan, c)
  BY <1>3, <1>5 DEF Cone
<1>7. c \notin Ancestors(plan, t)
  BY <1>2, <1>4, <1>5 DEF Live
<1> QED BY <1>4, <1>6, <1>7 DEF Escape, Beside

(* The ways an attempt ends, or goes on, once its agent has ended.         *)
GoesOn == task' = task /\ pc' \in Open /\ latest'[cur].status \in {latest[cur].status, "reviewing"}
EndsWith(state) ==
  /\ task' = MarkIn(task, cur, state) /\ latest'[cur].status # "none"
  /\ pc' = (IF state = "failed" THEN "idle" ELSE "locate")
IsApproved ==
  task' = MarkIn(task, cur, "completed") /\ latest'[cur].status = "approved" /\ pc' \in {"prune", "remove"}
IsReworked ==
  /\ plan.op[cur] = "review" /\ latest'[cur].status = "changes_requested" /\ pc' = "choose"
  /\ \E s \in ReworkSeeds(plan, cur) : Reworks(s)
Ending ==
  /\ cur' = cur /\ tries' = tries /\ judged' = judged
  /\ latest' \in [Tasks -> AttemptRows] /\ \A u \in Tasks \ {cur} : latest'[u] = latest[u]
  /\ run' \in {run, "failed", "cancelled"}
  /\ GoesOn \/ EndsWith("failed") \/ EndsWith("ready") \/ IsApproved \/ IsReworked

LEMMA EndingShape ==
  ASSUME AttemptsTypeOK, AtHand, CollectEvidence \/ Settle \/ Verdict \/ Approve
  PROVE  pc \in Open /\ cur \in Tasks /\ Ending
<1>0. /\ pc \in Open /\ cur \in Tasks /\ latest \in [Tasks -> AttemptRows] /\ BranchesOK(branch) /\ TreesOK(tree)
      /\ base \in Commits /\ cur \in DOMAIN tree
      /\ {"failed", "cancelled", "reviewing", "approved", "changes_requested"} \subseteq Statuses
  BY DEF CollectEvidence, Settle, Verdict, Approve, AttemptsTypeOK, AtHand, Open, WithTree, Working, Statuses
<1>1. cur' = cur /\ tries' = tries /\ judged' = judged
  BY DEF CollectEvidence, Settle, Verdict, Approve, Hand
<1> DEFINE Rest == /\ latest' \in [Tasks -> AttemptRows] /\ \A u \in Tasks \ {cur} : latest'[u] = latest[u]
                   /\ run' \in {run, "failed", "cancelled"}
                   /\ GoesOn \/ EndsWith("failed") \/ EndsWith("ready") \/ IsApproved \/ IsReworked
<1> SUFFICES Rest
  BY <1>0, <1>1 DEF Ending
<1>2. ASSUME NEW st \in {"failed", "cancelled", "reviewing", "approved", "changes_requested"}, FinishAttempt(cur, st)
      PROVE  /\ latest' \in [Tasks -> AttemptRows] /\ \A u \in Tasks \ {cur} : latest'[u] = latest[u]
             /\ latest'[cur].status = st
  BY <1>0, <1>2, FinishShape
<1>3. ASSUME NEW st \in {"failed", "cancelled", "changes_requested"}, FinishAttempt(cur, st),
             NEW status \in {"failed", "cancelled"}, GiveUp(cur, status)
      PROVE  Rest
  BY <1>2, <1>3 DEF GiveUp, MarkTask, Stop, To, EndsWith
<1>4. ASSUME NEW st \in {"failed", "changes_requested"}, FinishAttempt(cur, st), TryAgain(cur)
      PROVE  Rest
  BY <1>2, <1>4 DEF TryAgain, MarkTask, Stop, To, EndsWith
<1>5. CASE CollectEvidence
  <2>1. CASE OutputLimit
    BY <1>3, <2>1 DEF OutputLimit
  <2>2. CASE latest' = [latest EXCEPT ![cur] = Evidence(cur)] /\ To("settle") /\ UNCHANGED <<task, run>>
    <3>1. Evidence(cur) \in AttemptRows /\ Evidence(cur).status = latest[cur].status
      BY <1>0, EvidenceShape
    <3> QED BY <1>0, <2>2, <3>1 DEF GoesOn, To, Open, WithTree
  <2> QED BY <1>5, <2>1, <2>2 DEF CollectEvidence
<1>6. CASE Settle
  <2>1. CASE EnforceEvidencePolicy
    BY <1>3, <2>1 DEF EnforceEvidencePolicy
  <2>2. CASE ProducerFailed
    BY <1>3, <1>4, <2>2 DEF ProducerFailed
  <2>3. CASE ToReviewer
    BY <1>2, <2>3 DEF ToReviewer, GoesOn, To, Open, WithTree
  <2>4. CASE AdvisoryDone
    BY <1>2, <2>4 DEF AdvisoryDone, MarkTask, IsApproved, To
  <2>5. CASE SpecializedVerdict /\ session.ended = "approve"
    BY <1>2, <2>5 DEF SpecializedVerdict, MarkTask, IsApproved, To
  <2>6. CASE SpecializedVerdict /\ session.ended # "approve"
    <3>1. plan.op[cur] = "review" /\ FinishAttempt(cur, "changes_requested") /\ ReworkAfterReview
      BY <2>6 DEF SpecializedVerdict
    <3>2. CASE GiveUp(cur, "failed")
      BY <1>3, <3>1, <3>2
    <3>3. CASE \E s \in ReworkSeeds(plan, cur) : Reworks(s) /\ To("choose") /\ UNCHANGED run
      BY <1>2, <3>1, <3>3 DEF IsReworked, To
    <3> QED BY <3>1, <3>2, <3>3 DEF ReworkAfterReview, Reworks
  <2> QED BY <1>6, <2>1, <2>2, <2>3, <2>4, <2>5, <2>6 DEF Settle
<1>7. CASE Verdict
  <2>1. CASE To("integrate") /\ UNCHANGED <<latest, task, run>>
    BY <1>0, <2>1 DEF GoesOn, To, Open, WithTree
  <2>2. CASE OutputLimit
    BY <1>3, <2>2 DEF OutputLimit
  <2> QED BY <1>3, <1>4, <1>7, <2>1, <2>2 DEF Verdict
<1>8. CASE Approve
  <2>1. latest' \in [Tasks -> AttemptRows] /\ latest'[cur].status = "approved"
        /\ \A u \in Tasks \ {cur} : latest'[u] = latest[u]
    <3>1. latest' = [latest EXCEPT ![cur] = [latest[cur] EXCEPT !.status = "approved", !.commit = commit]]
      BY <1>0, <1>8 DEF Approve, AttemptRows
    <3>2. [latest[cur] EXCEPT !.status = "approved", !.commit = commit] \in AttemptRows
      BY <1>0 DEF AttemptRows, AttemptsTypeOK
    <3>3. [latest[cur] EXCEPT !.status = "approved", !.commit = commit].status = "approved"
      BY <1>0 DEF AttemptRows
    <3> QED BY <1>0, <3>1, <3>2, <3>3
  <2> QED BY <1>8, <2>1 DEF Approve, MarkTask, IsApproved, To, Rows
<1> QED BY <1>5, <1>6, <1>7, <1>8

\* Steps that write no task, attempt or judgement.
Quiet ==
  /\ UNCHANGED <<task, tries, judged, latest>>
  /\ pc' \in Open => pc \in Open /\ cur' = cur
  /\ pc' \in {"locate", "attach", "begin"} => task[cur'] = "ready"
  /\ run' = "completed" => pc' \in {"idle", "down"} /\ \A t \in Tasks : task[t] = "completed"

LEMMA QuietSteps ==
  ASSUME AttemptsTypeOK, StatusesOK,
         \/ Choose \/ Locate \/ Attach \/ BeginFails \/ Launch \/ AgentEnds \/ Revoke \/ Integrate
         \/ CommitOutput \/ Move \/ Follow \/ SetRunIntegration \/ RecordOutcome \/ RemoveWorktree
         \/ PruneInertWorktree \/ Detach \/ UserCommits \/ ServerStops
  PROVE  Quiet
<1> USE DEF StatusesOK, Quiet, To, Stop, Open, WithTree
<1>1. CASE Choose
  BY <1>1 DEF Choose, ReadyTasks
<1>2. CASE Locate \/ Attach \/ BeginFails
  BY <1>2 DEF Locate, Attach, BeginFails, Hand
<1>3. CASE Launch \/ AgentEnds \/ Revoke
  BY <1>3 DEF Launch, AgentEnds, Revoke, Rows
<1>4. CASE Integrate \/ CommitOutput \/ Follow \/ SetRunIntegration \/ RecordOutcome
  BY <1>4 DEF Integrate, CommitOutput, Follow, SetRunIntegration, RecordOutcome, Untouched
<1>5. CASE Move
  BY <1>5 DEF Move, NothingNew, Clean, Rebase, Conflict, Untouched
<1>6. CASE RemoveWorktree \/ PruneInertWorktree \/ Detach
  BY <1>6 DEF RemoveWorktree, PruneInertWorktree, Detach, Rows, Hand
<1>7. CASE UserCommits \/ ServerStops
  BY <1>7 DEF UserCommits, ServerStops, Rows, Hand
<1> QED BY <1>1, <1>2, <1>3, <1>4, <1>5, <1>6, <1>7

\* A review that rejected keeps that mark: it is its latest attempt until it
\* has another.
StatusKept(u) ==
  \/ /\ tries'[u] = tries[u]
     /\ latest'[u].status = latest[u].status \/ latest[u].status # "changes_requested"
  \/ tries'[u] = tries[u] + 1 /\ (latest[u].status # "none" => tries[u] >= 1)

LEMMA RejectedKept ==
  ASSUME plan' = plan, tries \in [Tasks -> Nat], \A u \in Tasks : StatusKept(u)
  PROVE  RejectedStays
<1> SUFFICES ASSUME NEW u \in Tasks, Rejected(u) PROVE Rejected(u)'
  BY DEF RejectedStays
<1>1. tries[u] \in Nat /\ StatusKept(u)
  OBVIOUS
<1> QED BY <1>1 DEF Rejected, StatusKept

Standing == {"running", "completed"}
NoneStarts == \A t \in Tasks : task'[t] \in Standing => task[t] \in Standing

LEMMA EscapeStays ==
  ASSUME plan' = plan, RejectedStays, NEW t \in Tasks, Escape(t) PROVE Escape(t)'
BY DEF Escape, RejectedStays, Beside

LEMMA JudgedStays ==
  ASSUME plan' = plan, RejectedStays, JudgedWell, NoneStarts, tries' = tries, judged' = judged
  PROVE  JudgedWell'
<1>1. ASSUME NEW t \in Tasks, plan.op[t] = "review", task'[t] \in Standing
      PROVE  judged'[t] = Judges(t)' \/ Escape(t)'
  <2>1. judged[t] = Judges(t) \/ Escape(t)
    BY <1>1 DEF JudgedWell, NoneStarts, Standing
  <2>2. Judges(t)' = Judges(t)
    BY DEF Judges, EvaluationTarget
  <2> QED BY <2>1, <2>2, EscapeStays
<1> QED BY <1>1 DEF JudgedWell, Standing

LEMMA MarkSound ==
  ASSUME PlainOK, RejectedStays, Sound, tries' = tries, judged' = judged,
         NEW t \in Tasks, NEW s \in Live, task[t] \in Live \ {"completed"}, task' = MarkIn(task, t, s),
         s \in Standing => task[t] = "running"
  PROVE  Sound'
<1>1. Dead => Dead'
  BY MarkDead, StaysDead
<1>2. AllCovered => AllCovered'
  BY MarkCovers
<1>3. NoneStarts
  <2>0. s \in PlainStates
    BY DEF Live, PlainStates
  <2>1. Moves(task, t, s, task')
    BY <2>0, MarkMoves DEF PlainOK
  <2> QED BY <2>1 DEF Moves, MovesOne, NoneStarts, Standing, SetBack, MadeReady
<1>4. JudgedWell => JudgedWell'
  BY <1>3, JudgedStays DEF PlainOK
<1> QED BY <1>1, <1>2, <1>4 DEF Sound

LEMMA EndingSound ==
  ASSUME PlainOK, SeedsStayClear(plan), RejectedStays, Sound, Ending, cur \in Tasks, task[cur] = "running"
  PROVE  Sound'
<1>0. cur' = cur /\ tries' = tries /\ judged' = judged
  BY DEF Ending
<1>1. CASE GoesOn
  <2>1. DeadStays /\ (AllCovered => AllCovered')
    BY <1>1, InterruptCovers DEF GoesOn
  <2>2. NoneStarts
    BY <1>1 DEF GoesOn, NoneStarts
  <2> QED BY <1>0, <2>1, <2>2, StaysDead, JudgedStays DEF Sound, PlainOK
<1>2. ASSUME NEW s \in {"failed", "ready", "completed"}, task' = MarkIn(task, cur, s) PROVE Sound'
  <2>1. s \in Live /\ task[cur] \in Live \ {"completed"}
    BY DEF Live
  <2> QED BY <1>0, <1>2, <2>1, MarkSound
<1>3. CASE IsReworked
  <2>1. PICK s \in ReworkSeeds(plan, cur) : Reworks(s)
    BY <1>3 DEF IsReworked
  <2>2. Rejected(cur)'
    BY <1>0, <1>3 DEF IsReworked, Rejected, PlainOK
  <2>3. plan.op[cur] = "review"
    BY <1>3 DEF IsReworked
  <2>4. Dead => Dead'
    BY <2>1, <2>3, ReworkDead, StaysDead
  <2>5. AllCovered => Dead' \/ AllCovered'
    BY <1>0, <2>1, <2>2, <2>3, ReworkCovers
  <2>6. NoneStarts
    <3>1. /\ s \in Tasks /\ task'[s] = "ready"
          /\ \A u \in Tasks \ {s} : task'[u] = task[u] \/ SetBack(task', u)
      BY <2>1, ReworkMoves
    <3> QED BY <3>1 DEF NoneStarts, Standing, SetBack
  <2>7. JudgedWell => JudgedWell'
    BY <1>0, <2>6, JudgedStays DEF PlainOK
  <2> QED BY <2>4, <2>5, <2>7 DEF Sound
<1> QED BY <1>1, <1>2, <1>3 DEF Ending, EndsWith, IsApproved

(* A task that begins again makes what was judged of it stale: the reviews *)
(* that stand above it are beside one that rejected.                       *)
LEMMA BeginSound ==
  ASSUME PlainOK, RejectedStays, Sound, tries \in [Tasks -> Nat], judged \in [Tasks -> Nat],
         cur \in Tasks, task[cur] = "ready", Begin
  PROVE  Sound'
<1>0. /\ task' = MarkIn(task, cur, "running") /\ tries' = [tries EXCEPT ![cur] = @ + 1]
      /\ judged' = [judged EXCEPT ![cur] = IF plan.op[cur] = "review" THEN Judges(cur) ELSE 0]
  BY DEF Begin, MarkTask
<1>1. "running" \in Live /\ "running" \in PlainStates /\ task[cur] \in Live \ {"completed"}
  BY DEF Live, PlainStates
<1>2. Dead => Dead'
  BY <1>0, <1>1, MarkDead, StaysDead
<1>3. AllCovered => AllCovered'
  BY <1>0, <1>1, MarkCovers
<1>4. Moves(task, cur, "running", task')
  BY <1>0, <1>1, MarkMoves DEF PlainOK
<1>5. ASSUME AllCovered, JudgedWell, NEW t \in Tasks, plan.op[t] = "review", task'[t] \in Standing
      PROVE  judged'[t] = Judges(t)' \/ Escape(t)'
  <2>1. EvaluationTarget(t)' = EvaluationTarget(t) /\ EvaluationTarget(t) \subseteq Tasks
        /\ EvaluationTarget(t) \subseteq plan.deps[t]
    BY PlanShape DEF EvaluationTarget, PlainOK
  <2> DEFINE d == CHOOSE d \in EvaluationTarget(t) : TRUE
  <2>2. CASE EvaluationTarget(t) = {} \/ d # cur
    <3>1. Judges(t)' = Judges(t)
      BY <1>0, <2>1, <2>2 DEF Judges
    <3>2. CASE t = cur
      BY <1>0, <1>5, <3>1, <3>2
    <3>3. CASE t # cur
      <4>1. task[t] \in Standing /\ judged'[t] = judged[t]
        BY <1>0, <1>4, <1>5, <3>3 DEF Moves, MovesOne, SetBack, MadeReady, Standing
      <4>2. judged[t] = Judges(t) \/ Escape(t)
        BY <1>5, <4>1 DEF JudgedWell, Standing
      <4> QED BY <3>1, <4>1, <4>2, EscapeStays DEF PlainOK
    <3> QED BY <3>2, <3>3
  <2>3. CASE EvaluationTarget(t) # {} /\ d = cur
    <3>1. cur \in plan.deps[t]
      BY <2>1, <2>3
    <3>2. cur \in Ancestors(plan, t) /\ t # cur
      BY <3>1, PlanShape DEF PlainOK
    <3>3. task[t] \in Live
      BY <1>4, <1>5, <3>2 DEF Moves, MovesOne, SetBack, MadeReady, Standing, Live
    <3>4. Escape(t)
      BY <1>5, <3>2, <3>3, Climb DEF PlainOK
    <3> QED BY <3>4, EscapeStays DEF PlainOK
  <2> QED BY <2>2, <2>3
<1>6. AllCovered /\ JudgedWell => JudgedWell'
  <2>1. plan' = plan
    BY DEF PlainOK
  <2> QED BY <1>5, <2>1 DEF JudgedWell, Standing
<1> QED BY <1>2, <1>3, <1>6 DEF Sound

LEMMA QuietJudge ==
  ASSUME PlainOK, tries \in [Tasks -> Nat], StatusesOK, Sound, Quiet
  PROVE  StatusesOK' /\ Sound'
<1>1. StatusesOK'
  BY DEF StatusesOK, Quiet
<1>2. RejectedStays
  BY RejectedKept DEF Quiet, StatusKept, PlainOK
<1>3. DeadStays /\ (AllCovered => AllCovered') /\ NoneStarts
  BY <1>2, InterruptCovers DEF Quiet, NoneStarts
<1>4. JudgedWell => JudgedWell'
  BY <1>2, <1>3, JudgedStays DEF Quiet, PlainOK
<1> QED BY <1>1, <1>3, <1>4, StaysDead DEF Sound

LEMMA MarkStatuses ==
  ASSUME PlainOK, NEW t \in Tasks, NEW s \in PlainStates, task' = MarkIn(task, t, s)
  PROVE  /\ \A u \in Tasks : task'[u] \in PlainStates
         /\ task'[t] = s /\ \A u \in Tasks \ {t} : task'[u] = "completed" => task[u] = "completed"
<1>1. Moves(task, t, s, task')
  BY MarkMoves DEF PlainOK
<1> QED BY <1>1 DEF Moves, MovesOne, SetBack, MadeReady

LEMMA EndingJudge ==
  ASSUME PlainOK, SeedsStayClear(plan), tries \in [Tasks -> Nat], StatusesOK, Sound,
         pc \in Open, cur \in Tasks, task[cur] = "running", Ending
  PROVE  StatusesOK' /\ Sound'
<1>0. /\ cur' = cur /\ tries' = tries /\ judged' = judged /\ \A u \in Tasks \ {cur} : latest'[u] = latest[u]
      /\ latest[cur].status \in {"running", "reviewing"} /\ tries[cur] >= 1 /\ run' # "completed"
  BY DEF Ending, StatusesOK, Open, WithTree
<1>1. RejectedStays
  <2>1. \A u \in Tasks : StatusKept(u)
    BY <1>0 DEF StatusKept
  <2> QED BY <2>1, RejectedKept DEF PlainOK
<1>2. Sound'
  BY <1>1, EndingSound
<1>3. ASSUME GoesOn PROVE StatusesOK'
  <2>1. /\ \A u \in Tasks : task'[u] = task[u]
        /\ latest'[cur].status \in {"running", "reviewing"}
        /\ pc' \notin {"locate", "attach", "begin"}
    BY <1>0, <1>3 DEF GoesOn, Open, WithTree
  <2> QED BY <1>0, <2>1 DEF StatusesOK
<1>4. ASSUME NEW s \in {"failed", "ready"}, EndsWith(s) PROVE StatusesOK'
  <2>1. s \in PlainStates /\ task' = MarkIn(task, cur, s)
    BY <1>4 DEF PlainStates, EndsWith
  <2>2. /\ \A u \in Tasks : task'[u] \in PlainStates
        /\ task'[cur] = s /\ \A u \in Tasks \ {cur} : task'[u] = "completed" => task[u] = "completed"
    BY <2>1, MarkStatuses
  <2>3. pc' \notin Open /\ (pc' \in {"locate", "attach", "begin"} => s = "ready")
    BY <1>4 DEF EndsWith, Open, WithTree
  <2> QED BY <1>0, <2>2, <2>3 DEF StatusesOK
<1>5. ASSUME IsApproved PROVE StatusesOK'
  <2>1. "completed" \in PlainStates /\ task' = MarkIn(task, cur, "completed")
    BY <1>5 DEF PlainStates, IsApproved
  <2>2. /\ \A u \in Tasks : task'[u] \in PlainStates
        /\ \A u \in Tasks \ {cur} : task'[u] = "completed" => task[u] = "completed"
    BY <2>1, MarkStatuses
  <2>3. pc' \notin Open /\ pc' \notin {"locate", "attach", "begin"} /\ latest'[cur].status = "approved"
    BY <1>5 DEF IsApproved, Open, WithTree
  <2> QED BY <1>0, <2>2, <2>3 DEF StatusesOK
<1>6. ASSUME IsReworked PROVE StatusesOK'
  <2>1. PICK s \in ReworkSeeds(plan, cur) : Reworks(s)
    BY <1>6 DEF IsReworked
  <2>2. /\ s \in Ancestors(plan, cur) /\ task' \in [Tasks -> PlainStates] /\ task'[s] = "ready" /\ s \in Tasks
        /\ \A u \in Tasks \ {s} : task'[u] = task[u] \/ SetBack(task', u)
    BY <2>1, ReworkMoves
  <2>3. \A u \in Tasks : task'[u] \in PlainStates /\ (task'[u] = "completed" => task[u] = "completed" /\ u # cur)
    BY <2>2 DEF SetBack
  <2>4. pc' = "choose" /\ pc' \notin Open
    BY <1>6 DEF IsReworked, Open, WithTree
  <2> QED BY <1>0, <2>3, <2>4 DEF StatusesOK
<1> QED BY <1>2, <1>3, <1>4, <1>5, <1>6 DEF Ending

LEMMA JudgeStep ==
  ASSUME AttemptsTypeOK, AtHand, JudgeInv, "unblock" \notin Hazards, SeedsStayClear(plan), AttemptsNext
  PROVE  JudgeInv'
<1>0. /\ PlainOK /\ StatusesOK /\ Sound /\ tries \in [Tasks -> Nat] /\ judged \in [Tasks -> Nat]
      /\ latest \in [Tasks -> AttemptRows]
  <2>1. task \in [Tasks -> PlainStates]
    BY DEF JudgeInv, StatusesOK, AttemptsTypeOK
  <2> QED BY <2>1, PlanFixed DEF PlainOK, JudgeInv, AttemptsTypeOK
<1>1. CASE \/ Choose \/ Locate \/ Attach \/ BeginFails \/ Launch \/ AgentEnds \/ Revoke \/ Integrate
           \/ CommitOutput \/ Move \/ Follow \/ SetRunIntegration \/ RecordOutcome \/ RemoveWorktree
           \/ PruneInertWorktree \/ Detach \/ UserCommits \/ ServerStops
  <2>1. Quiet
    BY <1>0, <1>1, QuietSteps
  <2> QED BY <1>0, <2>1, QuietJudge DEF JudgeInv
<1>2. CASE CollectEvidence \/ Settle \/ Verdict \/ Approve
  <2>1. pc \in Open /\ cur \in Tasks /\ Ending
    BY <1>2, EndingShape
  <2>2. task[cur] = "running"
    BY <2>1 DEF AtHand
  <2> QED BY <1>0, <2>1, <2>2, EndingJudge DEF JudgeInv
<1>3. CASE Begin
  <2>1. /\ cur \in Tasks /\ pc = "begin" /\ task[cur] = "ready" /\ cur' = cur /\ run' = run /\ pc' = "launch"
        /\ task' = MarkIn(task, cur, "running") /\ tries' = [tries EXCEPT ![cur] = @ + 1]
        /\ latest' = [latest EXCEPT ![cur] = NewAttempt]
    BY <1>0, <1>3 DEF Begin, AtHand, Working, StatusesOK, MarkTask, To
  <2>2. /\ \A u \in Tasks : task'[u] \in PlainStates
        /\ task'[cur] = "running" /\ \A u \in Tasks \ {cur} : task'[u] = "completed" => task[u] = "completed"
    <3>1. "running" \in PlainStates
      BY DEF PlainStates
    <3> QED BY <1>0, <2>1, <3>1, MarkStatuses
  <2>3. /\ \A u \in Tasks \ {cur} : latest'[u] = latest[u] /\ tries'[u] = tries[u]
        /\ latest'[cur] = NewAttempt /\ tries'[cur] = tries[cur] + 1 /\ tries[cur] \in Nat
    BY <1>0, <2>1
  <2>4. latest'[cur].status = "running"
    BY <2>3 DEF NewAttempt, NoAttempt
  <2>5. RejectedStays
    <3>1. \A u \in Tasks : StatusKept(u)
      BY <1>0, <2>3 DEF StatusKept, StatusesOK
    <3> QED BY <1>0, <3>1, RejectedKept DEF PlainOK
  <2>6. Sound'
    BY <1>0, <1>3, <2>1, <2>5, BeginSound
  <2>7. StatusesOK'
    BY <1>0, <2>1, <2>2, <2>3, <2>4 DEF StatusesOK
  <2> QED BY <2>6, <2>7 DEF JudgeInv
<1>4. ASSUME NEW t \in Tasks, RetryTask(t) PROVE JudgeInv'
  <2>1. /\ task[t] = "failed" /\ task' = MarkIn(task, t, "ready") /\ run' = "active" /\ pc' = "choose"
        /\ UNCHANGED <<tries, judged, latest, cur>>
    BY <1>4 DEF RetryTask, MarkTask, To, Hand
  <2>2. RejectedStays
    <3>1. \A u \in Tasks : StatusKept(u)
      BY <2>1 DEF StatusKept
    <3> QED BY <1>0, <3>1, RejectedKept DEF PlainOK
  <2>3. "ready" \in Live /\ "ready" \in PlainStates /\ "ready" \notin Standing /\ task[t] \in Live \ {"completed"}
    BY <2>1 DEF Live, PlainStates, Standing
  <2>4. Sound'
    BY <1>0, <2>1, <2>2, <2>3, MarkSound
  <2>5. /\ \A u \in Tasks : task'[u] \in PlainStates
        /\ task'[t] = "ready" /\ \A u \in Tasks \ {t} : task'[u] = "completed" => task[u] = "completed"
    BY <1>0, <2>1, <2>3, MarkStatuses
  <2>6. StatusesOK'
    BY <1>0, <2>1, <2>5 DEF StatusesOK, Open, WithTree
  <2> QED BY <2>4, <2>6 DEF JudgeInv
<1>5. CASE Reconcile
  <2>1. /\ task' = [t \in Tasks |-> IF task[t] = "running" THEN "failed" ELSE task[t]]
        /\ latest' = [t \in Tasks |-> IF latest[t].status \in {"running", "reviewing"}
                    THEN [latest[t] EXCEPT !.status = "interrupted"] ELSE latest[t]]
        /\ run' = (IF run = "active" THEN "failed" ELSE run) /\ pc' = "idle"
        /\ UNCHANGED <<tries, judged, cur>>
    BY <1>5 DEF Reconcile, To
  <2>2. \A t \in Tasks : /\ task'[t] = task[t] \/ (task[t] = "running" /\ task'[t] = "failed")
                         /\ task[t] # "running" => task'[t] = task[t]
    BY <2>1
  <2>3. \A t \in Tasks : latest'[t].status = latest[t].status
                           \/ (latest[t].status \in {"running", "reviewing"} /\ latest'[t].status = "interrupted")
    BY <1>0, <2>1 DEF AttemptRows
  <2>4. RejectedStays
    <3>1. \A u \in Tasks : StatusKept(u)
      BY <2>1, <2>3 DEF StatusKept
    <3> QED BY <1>0, <3>1, RejectedKept DEF PlainOK
  <2>5. DeadStays /\ (AllCovered => AllCovered')
    BY <1>0, <2>2, <2>4, InterruptCovers
  <2>6. NoneStarts
    BY <2>2 DEF NoneStarts, Standing
  <2>7. JudgedWell => JudgedWell'
    BY <1>0, <2>1, <2>4, <2>6, JudgedStays DEF PlainOK
  <2>8. Sound'
    BY <1>0, <2>5, <2>7, StaysDead DEF Sound
  <2>9. StatusesOK'
    BY <1>0, <2>1, <2>2, <2>3 DEF StatusesOK, PlainStates, Open, WithTree
  <2> QED BY <2>8, <2>9 DEF JudgeInv
<1> QED BY <1>1, <1>2, <1>3, <1>4, <1>5 DEF AttemptsNext, ExecutorStep

LEMMA JudgeInit ==
  ASSUME AttemptsInit PROVE JudgeInv
<1>1. plan \in Plans /\ plan \in PlanType
  BY PlanShape DEF AttemptsInit
<1>2. /\ \A t \in Tasks : task[t] = InitialState(plan.deps[t]) /\ latest[t].status = "none"
      /\ pc = "choose" /\ run = "active"
  BY DEF AttemptsInit, NoAttempt
<1>3. \A t \in Tasks : task[t] \in {"ready", "pending"} /\ (plan.deps[t] = {} <=> task[t] = "ready")
  BY <1>2 DEF InitialState
<1>4. StatusesOK
  BY <1>2, <1>3 DEF StatusesOK, PlainStates, Open, WithTree
<1>5. ASSUME NEW t \in Tasks, NEW e \in Ancestors(plan, t), task[t] \in Live PROVE FALSE
  <2>1. plan.deps[t] = {}
    BY <1>3, <1>5 DEF Live
  <2> QED BY <1>1, <1>5, <2>1, NoAncestors
<1>6. AllCovered
  BY <1>5 DEF AllCovered, Covered
<1>7. JudgedWell
  BY <1>3 DEF JudgedWell
<1> QED BY <1>4, <1>6, <1>7 DEF JudgeInv, Sound

(* In a completed run every specialized review has judged the attempt that *)
(* was integrated, or one beside it was rejected after it.                 *)
LEMMA JudgedInTheEnd ==
  ASSUME AttemptsTypeOK, JudgeInv PROVE ReviewsAreCurrent
<1> SUFFICES ASSUME run = "completed", NEW t \in Tasks, plan.op[t] = "review"
             PROVE  \/ judged[t] = Judges(t)
                    \/ \E u \in Tasks : plan.op[u] = "review" /\ Beside(t, u) /\ tries[u] > 1
  BY DEF ReviewsAreCurrent
<1>1. \A u \in Tasks : task[u] = "completed" /\ latest[u].status = "approved"
  BY DEF JudgeInv, StatusesOK
<1>2. judged[t] = Judges(t) \/ Escape(t)
  BY <1>1 DEF JudgeInv, Sound, Dead, JudgedWell
<1> QED BY <1>1, <1>2 DEF Escape, Rejected

LEMMA JudgeStutters ==
  ASSUME JudgeInv, UNCHANGED AttemptVars PROVE JudgeInv'
<1> USE DEF AttemptVars
<1>1. StatusesOK'
  BY DEF JudgeInv, StatusesOK
<1>2. Dead => Dead'
  BY DEF Dead, Lone
<1>3. AllCovered => AllCovered'
  BY DEF AllCovered, Covered, Lone, Rejected, Cone
<1>4. JudgedWell => JudgedWell'
  <2>1. \A t \in Tasks : (Escape(t)' <=> Escape(t)) /\ Judges(t)' = Judges(t)
    BY DEF Judges, EvaluationTarget, Escape, Rejected, Beside
  <2> QED BY <2>1 DEF JudgedWell
<1> QED BY <1>1, <1>2, <1>3, <1>4 DEF JudgeInv, Sound

-----------------------------------------------------------------------------
(***************************************************************************)
(* The theorems.                                                           *)
(***************************************************************************)
LEMMA InitInvariant == AttemptsInit => AttemptsInv
<1> SUFFICES ASSUME AttemptsInit PROVE AttemptsInv
  OBVIOUS
<1>1. AttemptsTypeOK
  BY InitTypes
<1>2. /\ pc = "choose" /\ DOMAIN tree = {} /\ DOMAIN branch = {} /\ path = {} /\ recorded = {} /\ ticket = FALSE
      /\ \A t \in Tasks : latest[t].seen = {} /\ task[t] # "completed"
  BY DEF AttemptsInit, NoAttempt, InitialState
<1>3. AtHand /\ OnItsWay /\ Reported
  BY <1>2 DEF AtHand, OnItsWay, Reported, Working, WithTree, Open, AfterVerdict
<1>4. KeptOrConflict
  BY <1>2 DEF KeptOrConflict, Kept
<1>5. ApprovedIsIntegrated
  BY <1>2 DEF ApprovedIsIntegrated, Implementing
<1> QED BY <1>1, <1>2, <1>3, <1>4, <1>5 DEF AttemptsInv, RecordedIsOnBranch, RowsNameTrees, GrantsAreShort

LEMMA StepInvariant == AttemptsInv /\ [AttemptsNext]_AttemptVars => AttemptsInv'
<1> SUFFICES ASSUME AttemptsInv, [AttemptsNext]_AttemptVars PROVE AttemptsInv'
  OBVIOUS
<1>1. CASE AttemptsNext
  BY <1>1, TypeStep, AtHandStep, OnItsWayStep, KeptStep, ReportedStep, ApprovedStep, RecordedStep, RowsStep, GrantsStep
  DEF AttemptsInv
<1>2. CASE UNCHANGED AttemptVars
  <2> USE <1>2 DEF AttemptVars, AttemptsInv
  <2>1. AttemptsTypeOK'
    BY DEF AttemptsTypeOK
  <2>2. AtHand'
    BY DEF AtHand, Job, Implementing
  <2>3. OnItsWay' /\ KeptOrConflict'
    BY DEF OnItsWay, InTree, KeptOrConflict, Kept
  <2>4. Reported' /\ ApprovedIsIntegrated'
    BY DEF Reported, ApprovedIsIntegrated, Implementing
  <2>5. RecordedIsOnBranch' /\ RowsNameTrees' /\ GrantsAreShort'
    BY DEF RecordedIsOnBranch, RowsNameTrees, GrantsAreShort
  <2> QED BY <2>1, <2>2, <2>3, <2>4, <2>5
<1> QED BY <1>1, <1>2

LEMMA Invariant == AttemptsSpec => []AttemptsInv
BY InitInvariant, StepInvariant, PTL DEF AttemptsSpec

(* Every state has the types its variables are meant to have: the tasks'   *)
(* states stay among those of the state machine, whatever the cascade of a *)
(* mark, and every branch and worktree stands on a history of patches.     *)
THEOREM AttemptsTypeCorrect == AttemptsSpec => []AttemptsTypeOK
BY Invariant, PTL DEF AttemptsInv

(* Nothing that was approved is lost on its way to the run's branch,       *)
(* whatever the plan, the agents, the conflicts and the stops of the       *)
(* server between two writes: what a reviewer saw of a completed task is   *)
(* on the run's branch, what any attempt left is on a branch or in a       *)
(* worktree, and the rows agree with the repository.                       *)
THEOREM WorkKept == AttemptsSpec => []WorkIsKept
<1>1. AttemptsInv => NothingLost
  <2> SUFFICES ASSUME AttemptsInv, NEW t \in Tasks, Kept(t)
               PROVE  latest[t].seen \subseteq OnBranches \cup InTrees
    BY DEF NothingLost, AttemptsInv, KeptOrConflict
  <2>1. CASE t \notin DOMAIN branch
    BY <2>1 DEF Kept
  <2>2. CASE t \in DOMAIN branch
    <3>1. latest[t].seen \subseteq Contents(branch[t]) \cup (IF t \in DOMAIN tree THEN tree[t].work ELSE {})
      BY <2>2 DEF Kept
    <3>2. Contents(branch[t]) \subseteq OnBranches
      BY <2>2 DEF OnBranches
    <3>3. t \in DOMAIN tree => tree[t].work \subseteq InTrees
      BY DEF InTrees
    <3> QED BY <3>1, <3>2, <3>3
  <2> QED BY <2>1, <2>2
<1>2. AttemptsInv => WorkIsKept
  BY <1>1 DEF AttemptsInv, WorkIsKept
<1> QED BY <1>2, Invariant, PTL

(* The run's branch is only ever extended: neither a rebase nor a restart  *)
(* takes a commit off it.                                                  *)
THEOREM RunBranchOnlyGrows == AttemptsSpec => RunBranchGrows
<1>1. AttemptsInv /\ [AttemptsNext]_AttemptVars =>
        [(RunBranch \in DOMAIN branch) => IsAncestor(branch[RunBranch], branch'[RunBranch])]_AttemptVars
  BY GrowStep DEF AttemptsInv, Growing
<1> QED BY <1>1, Invariant, PTL DEF AttemptsSpec, RunBranchGrows

(* A grant for tools is gone before the task, its attempt or the run's     *)
(* branch changes.                                                         *)
THEOREM GrantsShort == AttemptsSpec => []GrantsAreShort
BY Invariant, PTL DEF AttemptsInv

(* An agent is told what the tasks its task depends on reported last.      *)
THEOREM MissionsBriefed == AttemptsSpec => []MissionsAreBriefed
<1>1. AttemptsInv => MissionsAreBriefed
  <2> SUFFICES ASSUME AttemptsInv, pc = "agent", NEW d \in plan.deps[cur],
                      plan.op[d] # "implement", task[d] = "completed"
               PROVE  <<d, tries[d]>> \in UpstreamArtifacts(cur)
    BY DEF MissionsAreBriefed
  <2>1. cur \in Tasks /\ plan \in PlanType
    BY AttemptsAssumption DEF AttemptsInv, AttemptsTypeOK, AtHand, Working, WithTree
  <2>2. d \in Tasks
    BY <2>1 DEF PlanType
  <2>3. <<d, tries[d]>> \in artifacts
    BY <2>2 DEF AttemptsInv, Reported
  <2> QED BY <2>3 DEF UpstreamArtifacts
<1> QED BY <1>1, Invariant, PTL

(* In a run that completes, every specialized review has judged the        *)
(* attempt that was integrated: when work is done again, the reviews of it *)
(* are too, save those beside a review that rejected it. An agent's grant  *)
(* is gone, and its briefing up to date, all the while. This is for plans  *)
(* in which no rework strands a task that another review may send back,    *)
(* and without retries of blocked tasks.                                   *)
THEOREM WorkJudged ==
  ASSUME "unblock" \notin Hazards, \A p \in Plans : SeedsStayClear(p)
  PROVE  AttemptsSpec => []WorkIsJudged
<1>1. AttemptsInit => JudgeInv
  BY JudgeInit
<1>2. AttemptsInv /\ JudgeInv /\ [AttemptsNext]_AttemptVars => JudgeInv'
  <2>1. ASSUME AttemptsInv, JudgeInv, AttemptsNext PROVE JudgeInv'
    <3>1. AttemptsTypeOK /\ AtHand /\ SeedsStayClear(plan)
      BY <2>1 DEF AttemptsInv, AttemptsTypeOK
    <3> QED BY <2>1, <3>1, JudgeStep
  <2> QED BY <2>1, JudgeStutters
<1>3. AttemptsInv /\ JudgeInv => ReviewsAreCurrent
  BY JudgedInTheEnd DEF AttemptsInv
<1>4. AttemptsSpec => []JudgeInv
  BY <1>1, <1>2, Invariant, PTL DEF AttemptsSpec
<1> QED BY <1>3, <1>4, Invariant, GrantsShort, MissionsBriefed, PTL DEF WorkIsJudged
=============================================================================
