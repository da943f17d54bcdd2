------------------------------ MODULE PlanEdit ------------------------------
(***************************************************************************)
(* Editing the plan of a run: a patch of mutations from the visual editor, *)
(* or a partial replan below a task that has produced work.  Both are      *)
(* resolved against the rows and written in one transaction, and refused   *)
(* when the editor was opened against an older revision.  Meanwhile the    *)
(* tasks of the run execute, which does not change the revision.           *)
(*                                                                         *)
(* A task is its row's id, a positive number; a draft of a patch is named  *)
(* by its client id, a negative number, which also serves as the           *)
(* placeholder the source makes from it.  Of the contents of a task only   *)
(* their validity is kept ("ok": not empty, not the planner's).            *)
(***************************************************************************)
EXTENDS Integers, FiniteSets, SequencesExt, Sift

CONSTANTS Editors, Patches, Replans,
          MaxRows, MaxRevision    \* bounds of the exploration

VARIABLES rows,      \* the tasks: a function from the ids in use
          revision,  \* runs.plan_revision
          seen,      \* what each editor was opened against: revision and graph
          history,   \* the task ids of each recorded revision
          outcome    \* what the last edit came to
G == INSTANCE TaskGraph WITH Tasks <- 1 .. MaxRows
PlanVars == <<rows, revision, seen, history, outcome>>

TaskRefs == Int \ {0}
Placeholders == {ref \in Int : ref < 0}
Mutations ==
  [kind : {"add"}, task : Placeholders, deps : SUBSET TaskRefs, ok : BOOLEAN]
    \cup [kind : {"update"}, task : TaskRefs, ok : BOOLEAN]
    \cup [kind : {"remove"}, task : TaskRefs]
    \cup [kind : {"reorder"}, task : TaskRefs, to : Nat]
    \cup [kind : {"depend", "undepend"}, task : TaskRefs, on : TaskRefs]
NewTasks == [task : Placeholders, deps : SUBSET TaskRefs, ok : BOOLEAN]
ASSUME EditConstants ==
  /\ Patches \subseteq Seq(Mutations)
  /\ \A request \in Replans : request.tasks \in Seq(NewTasks)
  /\ MaxRevision \in Nat \ {0}
(* The client ids of a patch are told apart by the one who sends it.       *)
ASSUME ClientIdsApart ==
  \A patch \in Patches : \A i, j \in DOMAIN patch :
    patch[i].kind = "add" /\ patch[j].kind = "add" /\ patch[i].task = patch[j].task => i = j

Settled == {"running", "awaiting_integration", "integrating", "completed", "superseded"}
IsImmutable(t) == t.tried \/ t.state \in Settled

(* Rows in the order of their positions, as load_plan_state returns them.  *)
Precedes(r, a, b) == r[a].pos < r[b].pos \/ (r[a].pos = r[b].pos /\ a < b)
AtPosition(r, n) == CHOOSE a \in DOMAIN r : Cardinality({b \in DOMAIN r : Precedes(r, b, a)}) = n - 1
Loaded(r, id) == [id |-> id, new |-> FALSE, state |-> r[id].state, tried |-> r[id].tried,
                  deps |-> r[id].deps]
Load(r) == [n \in 1 .. Cardinality(DOMAIN r) |-> Loaded(r, AtPosition(r, n))]

Ids(tasks) == {tasks[i].id : i \in DOMAIN tasks}
IndexOf(tasks, id) == CHOOSE i \in DOMAIN tasks :
                        tasks[i].id = id /\ \A j \in 1 .. i - 1 : tasks[j].id # id
Named(tasks, id) == tasks[IndexOf(tasks, id)]
Without(tasks, ids) == Sift(tasks, {t \in ToSet(tasks) : t.id \notin ids})

-----------------------------------------------------------------------------
(* detect_cycle: depth first from each task, with an explicit stack of     *)
(* (task, leaving).  Marks: 0 unvisited, 1 on the stack, 2 done.           *)
Explore(deps, c) ==
  LET id == Last(c.stack)[1]
      popped == Front(c.stack)
      fresh == SetToSeq({d \in deps[id] : d = id \/ c.mark[d] # 2})
  IN CASE Last(c.stack)[2] -> [c EXCEPT !.stack = popped, !.mark[id] = 2]
       [] ~Last(c.stack)[2] /\ c.mark[id] = 1 -> [c EXCEPT !.stack = popped, !.cyclic = TRUE]
       [] OTHER ->
            [c EXCEPT !.mark[id] = 1,
                      !.stack = (popped \o <<<<id, TRUE>>>>) \o [i \in DOMAIN fresh |-> <<fresh[i], FALSE>>]]
SearchStep(tasks, deps, c) ==
  CASE c.cyclic \/ (c.stack = <<>> /\ c.next > Len(tasks)) -> c
    [] ~c.cyclic /\ c.stack # <<>> -> Explore(deps, c)
    [] OTHER -> [c EXCEPT !.next = @ + 1,
                          !.stack = IF c.mark[tasks[c.next].id] = 0 THEN <<<<tasks[c.next].id, FALSE>>>>
                                                                    ELSE <<>>]

\* More steps than any search takes: each visits, enters or leaves a task.
SearchSteps(n) == n * (2 * n + 3)
Links(tasks) == [d \in Ids(tasks) |-> Named(tasks, d).deps \cap Ids(tasks)]
DetectCycle(tasks) ==
  LET bound == SearchSteps(Len(tasks))
      search[n \in 0 .. bound] ==
        IF n = 0 THEN [stack |-> <<>>, mark |-> [d \in Ids(tasks) |-> 0], next |-> 1, cyclic |-> FALSE]
        ELSE SearchStep(tasks, Links(tasks), search[n - 1])
  IN search[bound].cyclic

(* recompute_states: the tasks without attempts that are still waiting     *)
(* take their state from their dependencies, dependencies first.           *)
\* Mutant: what failed is computed anew, its attempts notwithstanding.
RecomputedFailed(t) == t.new \/ t.state \in {"pending", "ready", "blocked", "failed"}
\* Mutant: only the drafts get a state.
RecomputedDrafts(t) == t.new

Recomputed(t) == t.new \/ (~t.tried /\ t.state \in {"pending", "ready", "blocked"})
NewStates(tasks) ==
  LET ids == Ids(tasks)
      state[d \in ids] ==
        LET t == Named(tasks, d)
            below == {IF e \in ids THEN state[e] ELSE "pending" : e \in t.deps} IN
        CASE ~Recomputed(t) -> t.state
          [] Recomputed(t) /\ below \cap {"failed", "blocked", "superseded"} # {} -> "blocked"
          [] Recomputed(t) /\ below \subseteq {"completed"} -> "ready"
          [] OTHER -> "pending"
  IN state
RecomputeStates(tasks) ==
  LET state == NewStates(tasks) IN
  [i \in DOMAIN tasks |->
     [tasks[i] EXCEPT !.state = IF Recomputed(tasks[i]) THEN state[tasks[i].id] ELSE @]]

-----------------------------------------------------------------------------
(* Resolving a patch: its mutations one by one, the additions first, with  *)
(* the working list of tasks and whether a diagnostic was collected.  A    *)
(* client id stays known after its draft is removed; the lookup that then  *)
(* fails is a panic.                                                       *)
Drafts(patch) == {m.task : m \in {x \in ToSet(patch) : x.kind = "add"}}
KnownIn(w, ref) == IF ref > 0 THEN ref \in Ids(w.tasks) ELSE ref \in w.drafts

Supersedes(r, id) == id \in DOMAIN r /\ r[id].state = "superseded"
AddDraft(r, w, m) ==
  LET good == {d \in m.deps : KnownIn(w, d) /\ d # m.task /\ ~Supersedes(r, d)} IN
  [w EXCEPT !.refused = @ \/ ~m.ok \/ good # m.deps,
            !.tasks = Append(@, [id |-> m.task, new |-> TRUE, state |-> "pending",
                                 tried |-> FALSE, deps |-> good])]

Refuse(w) == [w EXCEPT !.refused = TRUE]
Panic(w) == [w EXCEPT !.panicked = TRUE]

RemoveTask(w, m) ==
  [w EXCEPT !.refused = @ \/ \E i \in DOMAIN w.tasks :
                                m.task \in w.tasks[i].deps /\ IsImmutable(w.tasks[i]),
            !.tasks = Without(@, {m.task})]
SetDeps(w, id, deps) == [w EXCEPT !.tasks[IndexOf(w.tasks, id)].deps = deps]
ChangeDependency(r, w, m) ==
  LET deps == Named(w.tasks, m.task).deps IN
  CASE Supersedes(r, m.on) -> Refuse(w)
    [] ~Supersedes(r, m.on) /\ (m.on \in deps) = (m.kind = "depend") -> Refuse(w)
    [] OTHER -> SetDeps(w, m.task, IF m.kind = "depend" THEN deps \cup {m.on} ELSE deps \ {m.on})

Mutate(r, w, m) ==
  CASE w.panicked -> w
    [] ~w.panicked /\ m.kind = "add" -> AddDraft(r, w, m)
    [] ~w.panicked /\ m.kind # "add" /\ ~KnownIn(w, m.task) -> Refuse(w)
    [] ~w.panicked /\ m.kind \in {"depend", "undepend"} /\ KnownIn(w, m.task)
         /\ (~KnownIn(w, m.on) \/ m.on = m.task) -> Refuse(w)
    [] OTHER ->
         CASE m.task \notin Ids(w.tasks) -> Panic(w)
           [] m.task \in Ids(w.tasks) /\ IsImmutable(Named(w.tasks, m.task)) -> Refuse(w)
           [] OTHER ->
              CASE m.kind = "update" -> [w EXCEPT !.refused = @ \/ ~m.ok]
                [] m.kind = "remove" -> RemoveTask(w, m)
                [] m.kind = "reorder" -> [w EXCEPT !.moves = Append(@, m)]
                [] OTHER -> ChangeDependency(r, w, m)
AfterMutations(r, patch) ==
  LET adds == {m \in ToSet(patch) : m.kind = "add"}
      steps == Sift(patch, adds) \o Sift(patch, ToSet(patch) \ adds)
      after[n \in 0 .. Len(steps)] ==
        IF n = 0 THEN [tasks |-> Load(r), drafts |-> Drafts(patch), moves |-> <<>>,
                       refused |-> FALSE, panicked |-> FALSE]
        ELSE Mutate(r, after[n - 1], steps[n])
  IN after[Len(steps)]

Prune(tasks) ==
  [i \in DOMAIN tasks |-> [tasks[i] EXCEPT !.deps = @ \cap Ids(tasks)]]
Move(tasks, m) ==
  IF m.task \notin Ids(tasks) THEN tasks
  ELSE LET i == IndexOf(tasks, m.task)
           rest == RemoveAt(tasks, i) IN
       InsertAt(rest, IF m.to > Len(rest) THEN Len(rest) + 1 ELSE m.to + 1, tasks[i])

Reordered(tasks, moves) ==
  LET after[n \in 0 .. Len(moves)] ==
        IF n = 0 THEN tasks ELSE Move(after[n - 1], moves[n])
  IN after[Len(moves)]

Unresolved(why) == [result |-> why, tasks |-> <<>>, superseded |-> {}]
ResolvePatch(r, patch) ==
  LET w == AfterMutations(r, patch)
      ordered == Reordered(Prune(w.tasks), w.moves)
  IN CASE w.panicked -> Unresolved("panicked")
       [] ~w.panicked /\ (w.refused \/ DetectCycle(ordered)) -> Unresolved("invalid")
       [] OTHER -> [result |-> "applied", tasks |-> RecomputeStates(ordered), superseded |-> {}]

-----------------------------------------------------------------------------
(* Resolving a replan: what hangs below the seed and has not started is    *)
(* superseded, the new tasks take its place.                               *)
MutableScope(r, seed) ==
  LET reach[n \in 0 .. Cardinality(DOMAIN r)] ==
        IF n = 0 THEN {seed}
        ELSE reach[n-1] \cup {c \in DOMAIN r : r[c].deps \cap reach[n-1] # {} /\ ~IsImmutable(r[c])}
  IN {c \in DOMAIN r \cap reach[Cardinality(DOMAIN r)] :
        /\ ~IsImmutable(r[c])
        /\ r[c].deps \cap reach[Cardinality(DOMAIN r)] # {}}

ResolveReplan(r, request) ==
  LET scope == MutableScope(r, request.seed)
      news == [i \in DOMAIN request.tasks |->
                 [id |-> request.tasks[i].task, new |-> TRUE, state |-> "pending",
                  tried |-> FALSE, deps |-> request.tasks[i].deps]]
      kept == Without(Load(r), scope)
      earliest == {r[c].pos : c \in scope}
      after == {i \in DOMAIN kept : \E p \in earliest :
                  (\A q \in earliest : p =< q) /\ r[kept[i].id].pos > p}
      cut == IF after = {} THEN Len(kept) ELSE (CHOOSE i \in after : \A j \in after : i =< j) - 1
      tasks == SubSeq(kept, 1, cut) \o news \o SubSeq(kept, cut + 1, Len(kept))
      bad == \/ ~IsImmutable(r[request.seed])
             \/ request.tasks = <<>>
             \/ \E i, j \in DOMAIN request.tasks : i # j /\ request.tasks[i].task = request.tasks[j].task
             \/ \E i \in DOMAIN request.tasks :
                  \/ ~request.tasks[i].ok
                  \/ request.tasks[i].task \in request.tasks[i].deps
                  \/ ~(request.tasks[i].deps \subseteq Ids(news) \cup (DOMAIN r \ scope))
  IN CASE request.seed \notin DOMAIN r -> Unresolved("invalid")
       [] request.seed \in DOMAIN r /\ (bad \/ DetectCycle(news)) -> Unresolved("invalid")
       [] OTHER -> [result |-> "applied", tasks |-> RecomputeStates(tasks), superseded |-> scope]

(* Writing the resolved plan: new rows get the next ids, the others their  *)
(* new states, positions and dependencies; rows left out are superseded or *)
(* deleted.                                                                *)
NextId(r) == 1 + (CHOOSE d \in DOMAIN r \cup {0} : \A e \in DOMAIN r : e =< d)
ApplyResolved(r, plan) ==
  LET drafts == Sift(plan.tasks, {t \in ToSet(plan.tasks) : t.new})
      real(id) == IF id > 0 THEN id
                  ELSE NextId(r) - 1 + (CHOOSE i \in DOMAIN drafts : drafts[i].id = id
                                          /\ \A j \in DOMAIN drafts : drafts[j].id = id => j =< i)
      ids == {real(d) : d \in Ids(plan.tasks)}
      source(id) == CHOOSE i \in DOMAIN plan.tasks : real(plan.tasks[i].id) = id
  IN [id \in ids \cup plan.superseded |->
        IF id \in plan.superseded THEN [r[id] EXCEPT !.state = "superseded"]
        ELSE LET t == plan.tasks[source(id)] IN
             [state |-> t.state, tried |-> t.tried, pos |-> source(id) - 1,
              deps |-> {real(d) : d \in t.deps}]]

-----------------------------------------------------------------------------
PlanGraph(r) == [id \in DOMAIN r |-> r[id].deps]

PlanInit ==
  /\ rows = [id \in 1 .. 2 |-> [state |-> IF id = 1 THEN "ready" ELSE "pending", tried |-> FALSE,
                                pos |-> id - 1, deps |-> IF id = 1 THEN {} ELSE {1}]]
  /\ revision = 1
  /\ seen = [e \in Editors |-> [revision |-> 1, graph |-> PlanGraph(rows)]]
  /\ history = <<DOMAIN rows>>
  /\ outcome = "none"

OpenEditor(e) ==
  /\ seen' = [seen EXCEPT ![e] = [revision |-> revision, graph |-> PlanGraph(rows)]]
  /\ UNCHANGED <<rows, revision, history, outcome>>

(* One transaction: check the revision, resolve, write, bump the revision. *)
Write(e, plan) ==
  IF seen[e].revision # revision
  THEN outcome' = "conflict" /\ UNCHANGED <<rows, revision, history>>
  ELSE /\ outcome' = plan.result
       /\ IF plan.result # "applied" THEN UNCHANGED <<rows, revision, history>>
          ELSE /\ rows' = ApplyResolved(rows, plan)
               /\ revision' = revision + 1
               /\ history' = Append(history, DOMAIN rows')

ApplyPatch(e, patch) ==
  /\ revision < MaxRevision
  /\ Write(e, ResolvePatch(rows, patch))
  /\ UNCHANGED seen
ApplyReplan(e, request) ==
  /\ revision < MaxRevision /\ Cardinality(DOMAIN rows) < MaxRows
  /\ Write(e, ResolveReplan(rows, request))
  /\ UNCHANGED seen

(* The executor: an attempt starts on a ready task, and ends; what waits   *)
(* for it becomes ready, or is blocked, and so on below.                   *)
StartAttempt(id) ==
  /\ rows[id].state = "ready"
  /\ rows' = [rows EXCEPT ![id].state = "running", ![id].tried = TRUE]
  /\ UNCHANGED <<revision, seen, history, outcome>>
StatesAfter(r) ==
  LET state[d \in DOMAIN r] ==
        IF r[d].state = "pending" THEN G!NextStateForDependent({state[x] : x \in r[d].deps})
                                  ELSE r[d].state
  IN state
AfterEnd(r) ==
  LET state == StatesAfter(r) IN [d \in DOMAIN r |-> [r[d] EXCEPT !.state = state[d]]]
EndAttempt(id, state) ==
  /\ rows[id].state = "running"
  /\ rows' = AfterEnd([rows EXCEPT ![id].state = state])
  /\ UNCHANGED <<revision, seen, history, outcome>>

PlanNext ==
  \/ \E e \in Editors : \/ OpenEditor(e)
                        \/ \E p \in Patches : ApplyPatch(e, p)
                        \/ \E q \in Replans : ApplyReplan(e, q)
  \/ \E id \in DOMAIN rows : StartAttempt(id)
                              \/ \E s \in {"completed", "failed"} : EndAttempt(id, s)
PlanSpec == PlanInit /\ [][PlanNext]_PlanVars

-----------------------------------------------------------------------------
PlanTypeOK ==
  /\ \A id \in DOMAIN rows :
       /\ id \in Nat \ {0} /\ rows[id].pos \in Nat /\ rows[id].tried \in BOOLEAN
       /\ rows[id].state \in {"pending", "ready", "running", "blocked", "failed",
                              "completed", "superseded"}
  /\ revision \in 1 .. MaxRevision
  /\ outcome \in {"none", "applied", "invalid", "conflict", "panicked"}

(* Whatever edits and replans were applied, the stored graph is closed and *)
(* acyclic: among any tasks there is one that depends on none of them.     *)
StoredPlanAcyclic ==
  /\ \A id \in DOMAIN rows : rows[id].deps \subseteq DOMAIN rows
  /\ \A S \in SUBSET DOMAIN rows : S # {} => \E id \in S : rows[id].deps \cap S = {}

(* A task never is ready while a dependency of it is not completed (or     *)
(* superseded), and is not left waiting once all of them are.              *)
ReadyMeansDone ==
  \A id \in DOMAIN rows :
    LET below == {rows[d].state : d \in rows[id].deps \cap DOMAIN rows} IN
    /\ rows[id].state = "ready" => below \subseteq {"completed", "superseded"}
    /\ rows[id].state = "pending" => ~(below \subseteq {"completed"})

(* Every revision is recorded once, in order, with the tasks it left.      *)
RevisionsRecorded == Len(history) = revision /\ history[revision] = DOMAIN rows

(* The stored plan stays one that can be executed, and its history is      *)
(* complete, after any sequence of edits, replans and attempts.            *)
StoredPlanSound == PlanTypeOK /\ StoredPlanAcyclic /\ ReadyMeansDone /\ RevisionsRecorded

(* An edit is applied to the very graph that its editor saw, and leaves    *)
(* every task that has started or ended as it was, but for its place in    *)
(* the list.                                                               *)
EditIsSafe ==
  revision' # revision =>
    /\ \E e \in Editors : seen[e] = [revision |-> revision, graph |-> PlanGraph(rows)]
    /\ \A id \in DOMAIN rows : IsImmutable(rows[id]) =>
         id \in DOMAIN rows' /\ [rows'[id] EXCEPT !.pos = 0] = [rows[id] EXCEPT !.pos = 0]
EditsAreSafe == [][EditIsSafe]_PlanVars
=============================================================================
