---------------------------- MODULE PlanEdit_proof ----------------------------
(***************************************************************************)
(* Proofs about PlanEdit, for any patches and replans: what an edit makes  *)
(* of the rows, that the search for cycles finds them, and that the stored *)
(* plan can be executed.                                                   *)
(***************************************************************************)
EXTENDS PlanEdit, Inductions_proof

RowShape(row) ==
  row = [state |-> row.state, tried |-> row.tried, pos |-> row.pos, deps |-> row.deps]
RowsOK(r) ==
  /\ IsFiniteSet(DOMAIN r) /\ DOMAIN r \subseteq Nat \ {0}
  /\ r = [id \in DOMAIN r |-> r[id]]
  /\ \A id \in DOMAIN r : /\ RowShape(r[id])
                          /\ r[id].tried \in BOOLEAN /\ r[id].pos \in Nat
                          /\ r[id].deps \subseteq DOMAIN r

(* The rows are loaded in order, each once.                                *)
LEMMA LoadedRows ==
  ASSUME NEW r, RowsOK(r)
  PROVE  /\ \A n \in DOMAIN Load(r) : \E id \in DOMAIN r : Load(r)[n] = Loaded(r, id)
         /\ \A id \in DOMAIN r : \E n \in DOMAIN Load(r) : Load(r)[n] = Loaded(r, id)
         /\ \A m, n \in DOMAIN Load(r) : Load(r)[m].id = Load(r)[n].id => m = n
         /\ DOMAIN Load(r) = 1 .. Cardinality(DOMAIN r) /\ Cardinality(DOMAIN r) \in Nat
<1> DEFINE C == DOMAIN r
           n == Cardinality(C)
           R == {p \in C \X C : Precedes(r, p[1], p[2])}
<1>1. IsFiniteSet(C) /\ n \in Nat
  BY FS_CardinalityType DEF RowsOK
<1>2. \A a, b \in C : <<a, b>> \in R <=> Precedes(r, a, b)
  OBVIOUS
<1>3. \A a \in C : a \in Nat /\ r[a].pos \in Nat
  BY DEF RowsOK
<1>4. StrictOrder(R, C)
  <2>1. \A a \in C : <<a, a>> \notin R
    BY <1>2, <1>3 DEF Precedes
  <2>2. \A a, b, c \in C : <<a, b>> \in R /\ <<b, c>> \in R => <<a, c>> \in R
    <3> SUFFICES ASSUME NEW a \in C, NEW b \in C, NEW c \in C, Precedes(r, a, b), Precedes(r, b, c)
                 PROVE  Precedes(r, a, c)
      BY <1>2
    <3> QED BY <1>3 DEF Precedes
  <2>3. \A a, b \in C : a = b \/ <<a, b>> \in R \/ <<b, a>> \in R
    <3> SUFFICES ASSUME NEW a \in C, NEW b \in C, a # b PROVE Precedes(r, a, b) \/ Precedes(r, b, a)
      BY <1>2
    <3> QED BY <1>3 DEF Precedes
  <2> QED BY <2>1, <2>2, <2>3 DEF StrictOrder
<1>5. \A a \in C : Rank(R, C, a) = Cardinality({b \in C : Precedes(r, b, a)})
  <2> SUFFICES ASSUME NEW a \in C
               PROVE  {b \in C : <<b, a>> \in R} = {b \in C : Precedes(r, b, a)}
    BY DEF Rank
  <2> QED BY <1>2
<1> HIDE DEF R
<1>6. /\ \A a \in C : Rank(R, C, a) \in 0 .. n - 1
      /\ \A a, b \in C : Rank(R, C, a) = Rank(R, C, b) => a = b
      /\ \A k \in 0 .. n - 1 : \E a \in C : Rank(R, C, a) = k
  <2>1. RanksCount(R, C)
    BY <1>1, <1>4, RanksAre
  <2> QED BY <2>1 DEF RanksCount
<1>7. DOMAIN Load(r) = 1 .. n /\ \A i \in 1 .. n : Load(r)[i] = Loaded(r, AtPosition(r, i))
  BY DEF Load
<1> HIDE DEF n
<1>8. \A i \in 1 .. n : AtPosition(r, i) \in C /\ Rank(R, C, AtPosition(r, i)) = i - 1
  <2> SUFFICES ASSUME NEW i \in 1 .. n PROVE AtPosition(r, i) \in C /\ Rank(R, C, AtPosition(r, i)) = i - 1
    OBVIOUS
  <2>1. i - 1 \in 0 .. n - 1
    BY <1>1
  <2>2. \E a \in C : Cardinality({b \in C : Precedes(r, b, a)}) = i - 1
    BY <1>5, <1>6, <2>1
  <2>3. AtPosition(r, i) \in C /\ Cardinality({b \in C : Precedes(r, b, AtPosition(r, i))}) = i - 1
    BY <2>2 DEF AtPosition
  <2> QED BY <1>5, <2>3
<1>9. \A i, j \in 1 .. n : AtPosition(r, i) = AtPosition(r, j) => i = j
  BY <1>1, <1>8
<1>10. \A a \in C : \E i \in 1 .. n : AtPosition(r, i) = a
  <2> SUFFICES ASSUME NEW a \in C PROVE \E i \in 1 .. n : AtPosition(r, i) = a
    OBVIOUS
  <2>1. Rank(R, C, a) + 1 \in 1 .. n /\ (Rank(R, C, a) + 1) - 1 = Rank(R, C, a)
    BY <1>1, <1>6
  <2> QED BY <1>6, <1>8, <2>1
<1>11. \A id : Loaded(r, id).id = id
  BY DEF Loaded
<1>12. DOMAIN Load(r) = 1 .. Cardinality(DOMAIN r) /\ Cardinality(DOMAIN r) \in Nat
  BY <1>1, <1>7 DEF n
<1>13. \A i \in DOMAIN Load(r) : \E id \in DOMAIN r : Load(r)[i] = Loaded(r, id)
  BY <1>7, <1>8
<1>14. \A id \in DOMAIN r : \E i \in DOMAIN Load(r) : Load(r)[i] = Loaded(r, id)
  BY <1>7, <1>10
<1>15. \A i, j \in DOMAIN Load(r) : Load(r)[i].id = Load(r)[j].id => i = j
  BY <1>7, <1>9, <1>11
<1> QED BY <1>12, <1>13, <1>14, <1>15

-----------------------------------------------------------------------------
(* The first entry of a list with a given id.                              *)
LEMMA NamedIs ==
  ASSUME NEW T, NEW list \in Seq(T), NEW id \in Ids(list)
  PROVE  /\ IndexOf(list, id) \in DOMAIN list /\ list[IndexOf(list, id)].id = id
         /\ Named(list, id) = list[IndexOf(list, id)]
<1> DEFINE S == {i \in DOMAIN list : list[i].id = id}
<1>1. S \subseteq Nat /\ S # {}
  BY DEF Ids
<1>2. PICK i \in S : \A j \in S : i <= j
  <2> HIDE DEF S
  <2> QED BY <1>1, LeastNumber
<1>3. \A j \in 1 .. i - 1 : list[j].id # id
  BY <1>2
<1>4. IndexOf(list, id) \in DOMAIN list /\ list[IndexOf(list, id)].id = id
  BY <1>2, <1>3 DEF IndexOf
<1> QED BY <1>4 DEF Named

LEMMA IdsAre == ASSUME NEW list PROVE Ids(list) = {x.id : x \in ToSet(list)}
  BY DEF Ids, ToSet
-----------------------------------------------------------------------------
(* The tasks of an edit in the making, against the rows: each is one of    *)
(* them, in the state it is in, or a draft; no row occurs twice; and the   *)
(* rows that have started or ended occur as they were loaded.              *)
Entry(r) == [id : TaskRefs, new : BOOLEAN, state : {r[id].state : id \in DOMAIN r} \cup {"pending"},
             tried : BOOLEAN, deps : SUBSET TaskRefs]
EntryOf(r, t) ==
  \/ t.id > 0 /\ t.id \in DOMAIN r /\ ~t.new /\ t.state = r[t.id].state /\ t.tried = r[t.id].tried
  \/ t.id < 0 /\ t.new /\ ~t.tried /\ t.state = "pending"
RowsOnce(list) ==
  \A i, j \in DOMAIN list : list[i].id = list[j].id /\ list[i].id > 0 => i = j
StartedKept(r, list) == \A id \in DOMAIN r : IsImmutable(r[id]) => Loaded(r, id) \in ToSet(list)
LinksKept(r, list) == \A id \in DOMAIN r : IsImmutable(r[id]) => r[id].deps \subseteq Ids(list)
Faithful(r, list) ==
  /\ list \in Seq(Entry(r))
  /\ \A i \in DOMAIN list : EntryOf(r, list[i])
  /\ RowsOnce(list)
  /\ StartedKept(r, list)
Reorders == {m \in Mutations : m.kind = "reorder"}
WorkShape(r) == [tasks : Seq(Entry(r)), drafts : SUBSET Placeholders, moves : Seq(Reorders),
                 refused : BOOLEAN, panicked : BOOLEAN]
Working(r, w) ==
  w \in WorkShape(r) /\ Faithful(r, w.tasks) /\ (~w.refused => LinksKept(r, w.tasks))

LEMMA MutationFields ==
  ASSUME NEW m \in Mutations
  PROVE  /\ m.task \in TaskRefs
         /\ m.kind = "add" => m.task \in Placeholders /\ m.deps \subseteq TaskRefs /\ m.ok \in BOOLEAN
         /\ m.kind = "update" => m.ok \in BOOLEAN
         /\ m.kind \in {"depend", "undepend"} => m.on \in TaskRefs
         /\ m.kind \in {"add", "update", "remove", "reorder", "depend", "undepend"}
BY DEF Mutations, Placeholders, TaskRefs

LEMMA LoadIsFaithful ==
  ASSUME NEW r, RowsOK(r)
  PROVE  Faithful(r, Load(r)) /\ LinksKept(r, Load(r)) /\ Ids(Load(r)) = DOMAIN r
<1> DEFINE s == Load(r)
<1>1. /\ \A n \in DOMAIN s : \E id \in DOMAIN r : s[n] = Loaded(r, id)
      /\ \A id \in DOMAIN r : \E n \in DOMAIN s : s[n] = Loaded(r, id)
      /\ \A m, n \in DOMAIN s : s[m].id = s[n].id => m = n
      /\ DOMAIN s = 1 .. Cardinality(DOMAIN r) /\ Cardinality(DOMAIN r) \in Nat
  BY LoadedRows
<1>2. ASSUME NEW id \in DOMAIN r
      PROVE  Loaded(r, id) \in Entry(r) /\ EntryOf(r, Loaded(r, id)) /\ Loaded(r, id).id = id
  <2>1. id \in Nat \ {0} /\ r[id].tried \in BOOLEAN /\ r[id].deps \subseteq Nat \ {0}
    BY DEF RowsOK
  <2>2. id \in TaskRefs /\ r[id].deps \subseteq TaskRefs
    BY <2>1 DEF TaskRefs
  <2> QED BY <2>1, <2>2 DEF Loaded, Entry, EntryOf
<1>3. s = [n \in 1 .. Cardinality(DOMAIN r) |-> s[n]]
  BY <1>1 DEF Load
<1> HIDE DEF s
<1>4. s \in Seq(Entry(r))
  BY <1>1, <1>2, <1>3
<1>5. \A i \in DOMAIN s : EntryOf(r, s[i])
  BY <1>1, <1>2
<1>6. Ids(s) = DOMAIN r
  <2>1. \A n \in DOMAIN s : s[n].id \in DOMAIN r
    BY <1>1, <1>2
  <2>2. \A id \in DOMAIN r : \E n \in DOMAIN s : s[n].id = id
    BY <1>1, <1>2
  <2> QED BY <2>1, <2>2 DEF Ids
<1>7. \A id \in DOMAIN r : r[id].deps \subseteq Ids(s)
  BY <1>6 DEF RowsOK
<1>8. StartedKept(r, s)
  BY <1>1 DEF StartedKept, ToSet
<1>9. RowsOnce(s)
  BY <1>1 DEF RowsOnce
<1>10. Faithful(r, s) /\ LinksKept(r, s)
  BY <1>4, <1>5, <1>7, <1>8, <1>9 DEF Faithful, LinksKept
<1> QED BY <1>6, <1>10 DEF s

(* Setting flags, and noting a move, leaves the tasks alone.               *)
LEMMA SameTasks ==
  ASSUME NEW r, NEW w, Working(r, w), NEW v \in WorkShape(r), v.tasks = w.tasks,
         w.refused => v.refused
  PROVE  Working(r, v)
BY DEF Working

(* A draft at the end.                                                     *)
LEMMA DraftAdded ==
  ASSUME NEW r, NEW w, Working(r, w), NEW m \in Mutations, m.kind = "add"
  PROVE  Working(r, AddDraft(r, w, m))
<1> DEFINE good == {d \in m.deps : KnownIn(w, d) /\ d # m.task /\ ~Supersedes(r, d)}
           t == [id |-> m.task, new |-> TRUE, state |-> "pending", tried |-> FALSE, deps |-> good]
           s == w.tasks
           v == AddDraft(r, w, m)
<1>1. m.task < 0 /\ m.task \in TaskRefs /\ m.deps \subseteq TaskRefs /\ m.ok \in BOOLEAN
  BY MutationFields DEF Placeholders
<1>2. t \in Entry(r) /\ EntryOf(r, t) /\ t.id = m.task
  BY <1>1 DEF Entry, EntryOf
<1>3. w \in WorkShape(r) /\ s \in Seq(Entry(r)) /\ Faithful(r, s) /\ (~w.refused => LinksKept(r, s))
  BY DEF Working, Faithful
<1>4. v = [w EXCEPT !.refused = @ \/ ~m.ok \/ good # m.deps, !.tasks = Append(@, t)]
  BY DEF AddDraft
<1> HIDE DEF t, v, s
<1>5. /\ Append(s, t) \in Seq(Entry(r)) /\ DOMAIN Append(s, t) = 1 .. Len(s) + 1
      /\ \A i \in 1 .. Len(s) : Append(s, t)[i] = s[i]
      /\ Append(s, t)[Len(s) + 1] = t /\ DOMAIN s = 1 .. Len(s) /\ Len(s) \in Nat
  BY <1>2, <1>3
<1>6. ToSet(Append(s, t)) = ToSet(s) \cup {t}
  BY <1>2, <1>3, ContentsOfAppend
<1>7. Ids(s) \subseteq Ids(Append(s, t))
  BY <1>6, IdsAre
<1>8. v.tasks = Append(s, t) /\ v \in WorkShape(r) /\ (w.refused => v.refused)
  <2>1. v.tasks = Append(s, t)
    BY <1>3, <1>4 DEF WorkShape, s
  <2>2. v.refused = (w.refused \/ ~m.ok \/ good # m.deps)
    BY <1>3, <1>4 DEF WorkShape
  <2>3. v \in WorkShape(r)
    BY <1>1, <1>3, <1>4, <1>5 DEF WorkShape, s
  <2> QED BY <2>1, <2>2, <2>3
<1>9. \A i \in DOMAIN Append(s, t) : EntryOf(r, Append(s, t)[i])
  BY <1>2, <1>3, <1>5 DEF Faithful
<1>10. RowsOnce(Append(s, t))
  <2>1. RowsOnce(s)
    BY <1>3 DEF Faithful
  <2> SUFFICES ASSUME NEW i \in 1 .. Len(s) + 1, NEW j \in 1 .. Len(s) + 1,
                      Append(s, t)[i].id = Append(s, t)[j].id, Append(s, t)[i].id > 0
               PROVE  i = j
    BY <1>5 DEF RowsOnce
  <2>2. i # Len(s) + 1 /\ j # Len(s) + 1
    BY <1>1, <1>2, <1>5 DEF TaskRefs
  <2>3. i \in DOMAIN s /\ j \in DOMAIN s
    BY <1>5, <2>2
  <2> QED BY <1>5, <2>1, <2>3 DEF RowsOnce
<1>11. StartedKept(r, Append(s, t))
  BY <1>3, <1>6 DEF Faithful, StartedKept
<1>12. Faithful(r, Append(s, t))
  BY <1>5, <1>9, <1>10, <1>11 DEF Faithful
<1>13. ~w.refused => LinksKept(r, Append(s, t))
  BY <1>3, <1>7 DEF LinksKept
<1> QED BY <1>8, <1>12, <1>13 DEF Working, v

(* Taking out a task that has not started.                                 *)
LEMMA TaskRemoved ==
  ASSUME NEW r, RowsOK(r), NEW w, Working(r, w), NEW m \in Mutations,
         m.task \in Ids(w.tasks), ~IsImmutable(Named(w.tasks, m.task))
  PROVE  Working(r, RemoveTask(w, m))
<1> DEFINE s == w.tasks
           S == {t \in ToSet(s) : t.id \notin {m.task}}
           g == Sift(s, S)
           v == RemoveTask(w, m)
<1>1. w \in WorkShape(r) /\ s \in Seq(Entry(r)) /\ Faithful(r, s) /\ (~w.refused => LinksKept(r, s))
  BY DEF Working, Faithful
<1>2. v.tasks = g /\ v.refused = (w.refused \/ \E i \in DOMAIN s : m.task \in s[i].deps /\ IsImmutable(s[i]))
      /\ v = [w EXCEPT !.refused = v.refused, !.tasks = g]
  BY <1>1 DEF RemoveTask, WorkShape, Without
<1>3. g \in Seq(Entry(r)) /\ ToSet(g) = ToSet(s) \cap S /\ DOMAIN s = 1 .. Len(s)
  BY <1>1, SiftContents
<1>4. \A i, j \in DOMAIN g : i < j => \E p, q \in DOMAIN s : p < q /\ g[i] = s[p] /\ g[j] = s[q]
  <2> HIDE DEF s, S
  <2> QED BY <1>1, SiftInOrder
<1>5. ToSet(g) = {t \in ToSet(s) : t.id # m.task}
  BY <1>3
<1>6. v \in WorkShape(r) /\ (w.refused => v.refused)
  <2> HIDE DEF g, v
  <2>1. v.refused \in BOOLEAN
    BY <1>2
  <2> QED BY <1>1, <1>2, <1>3, <2>1 DEF WorkShape
<1>7. ASSUME NEW id \in DOMAIN r, IsImmutable(r[id]) PROVE Loaded(r, id) \in ToSet(s) /\ id # m.task
  <2>1. Loaded(r, id) \in ToSet(s)
    BY <1>1, <1>7 DEF Faithful, StartedKept
  <2>2. CASE id = m.task
    <3> DEFINE k == IndexOf(s, m.task)
    <3>1. k \in DOMAIN s /\ s[k].id = m.task /\ Named(s, m.task) = s[k]
      BY <1>1, NamedIs
    <3> HIDE DEF k
    <3>2. m.task \in Int /\ m.task > 0 /\ ~(m.task < 0)
      BY <2>2 DEF RowsOK
    <3>3. EntryOf(r, s[k])
      BY <1>1, <3>1 DEF Faithful
    <3>4. s[k].state = r[id].state /\ s[k].tried = r[id].tried
      BY <2>2, <3>1, <3>2, <3>3 DEF EntryOf
    <3>5. IsImmutable(s[k])
      BY <1>7, <3>4 DEF IsImmutable
    <3> QED BY <3>1, <3>5
  <2> QED BY <2>1, <2>2
<1> HIDE DEF s, S, g, v
<1>8. StartedKept(r, g)
  <2> SUFFICES ASSUME NEW id \in DOMAIN r, IsImmutable(r[id]) PROVE Loaded(r, id) \in ToSet(g)
    BY DEF StartedKept
  <2>1. Loaded(r, id).id = id
    BY DEF Loaded
  <2> QED BY <1>5, <1>7, <2>1
<1>9. \A i \in DOMAIN g : EntryOf(r, g[i])
  <2> SUFFICES ASSUME NEW i \in DOMAIN g PROVE EntryOf(r, g[i])
    OBVIOUS
  <2>1. g[i] \in ToSet(s)
    BY <1>5 DEF ToSet
  <2> QED BY <1>1, <2>1 DEF Faithful, ToSet
<1>10. RowsOnce(g)
  <2> SUFFICES ASSUME NEW i \in DOMAIN g, NEW j \in DOMAIN g, g[i].id = g[j].id, g[i].id > 0, i < j
               PROVE  FALSE
    <3>1. DOMAIN g \subseteq Nat
      BY <1>3
    <3>2. \A i, j \in DOMAIN g : g[i].id = g[j].id /\ g[i].id > 0 => ~(i < j)
      OBVIOUS
    <3>3. \A i, j \in DOMAIN g : i < j \/ j < i \/ i = j
      BY <3>1
    <3> QED BY <3>2, <3>3 DEF RowsOnce
  <2>1. PICK p \in DOMAIN s, q \in DOMAIN s : p < q /\ g[i] = s[p] /\ g[j] = s[q]
    BY <1>4
  <2>2. p = q
    BY <1>1, <2>1 DEF Faithful, RowsOnce
  <2> QED BY <1>3, <2>1, <2>2
<1>11. Faithful(r, g)
  BY <1>3, <1>8, <1>9, <1>10 DEF Faithful
<1>12. ASSUME ~v.refused PROVE LinksKept(r, g)
  <2>1. ~w.refused /\ ~\E i \in DOMAIN s : m.task \in s[i].deps /\ IsImmutable(s[i])
    BY <1>2, <1>12
  <2>2. LinksKept(r, s)
    BY <1>1, <2>1
  <2> SUFFICES ASSUME NEW id \in DOMAIN r, IsImmutable(r[id]) PROVE r[id].deps \subseteq Ids(g)
    BY DEF LinksKept
  <2>3. PICK i \in DOMAIN s : s[i] = Loaded(r, id)
    BY <1>7 DEF ToSet
  <2>4. IsImmutable(s[i]) /\ s[i].deps = r[id].deps
    BY <2>3 DEF IsImmutable, Loaded
  <2>5. m.task \notin r[id].deps
    BY <2>1, <2>4
  <2>6. r[id].deps \subseteq Ids(s)
    BY <2>2 DEF LinksKept
  <2> QED BY <1>5, <2>5, <2>6, IdsAre
<1> QED BY <1>2, <1>6, <1>11, <1>12 DEF Working, v

(* Changing the dependencies of a task that has not started.               *)
LEMMA DepsSet ==
  ASSUME NEW r, RowsOK(r), NEW w, Working(r, w), NEW id \in Ids(w.tasks),
         ~IsImmutable(Named(w.tasks, id)), NEW deps \in SUBSET TaskRefs
  PROVE  Working(r, SetDeps(w, id, deps))
<1> DEFINE s == w.tasks
           k == IndexOf(s, id)
           g == [s EXCEPT ![k].deps = deps]
           v == SetDeps(w, id, deps)
<1>1. w \in WorkShape(r) /\ s \in Seq(Entry(r)) /\ Faithful(r, s) /\ (~w.refused => LinksKept(r, s))
  BY DEF Working, Faithful
<1>2. k \in DOMAIN s /\ s[k].id = id /\ Named(s, id) = s[k]
  BY <1>1, NamedIs
<1>3. v.tasks = g /\ v.refused = w.refused /\ v = [w EXCEPT !.tasks = g]
  BY <1>1 DEF SetDeps, WorkShape
<1>4. g \in Seq(Entry(r)) /\ DOMAIN g = DOMAIN s
  <2>1. s[k] \in Entry(r)
    BY <1>1, <1>2
  <2>2. [s[k] EXCEPT !.deps = deps] \in Entry(r)
    BY <2>1 DEF Entry
  <2> HIDE DEF k
  <2> QED BY <1>1, <1>2, <2>2
<1>5. \A i \in DOMAIN s : /\ i # k => g[i] = s[i]
                          /\ g[i].id = s[i].id /\ g[i].new = s[i].new
                          /\ g[i].state = s[i].state /\ g[i].tried = s[i].tried
  <2> SUFFICES ASSUME NEW i \in DOMAIN s
               PROVE  /\ i # k => g[i] = s[i]
                      /\ g[i].id = s[i].id /\ g[i].new = s[i].new
                      /\ g[i].state = s[i].state /\ g[i].tried = s[i].tried
    OBVIOUS
  <2>1. s[i] \in Entry(r)
    BY <1>1
  <2> HIDE DEF k
  <2>2. g[i] = IF i = k THEN [s[i] EXCEPT !.deps = deps] ELSE s[i]
    BY <1>1, <1>2
  <2> QED BY <2>1, <2>2 DEF Entry
<1>6. v \in WorkShape(r)
  <2> HIDE DEF g, v
  <2> QED BY <1>1, <1>3, <1>4 DEF WorkShape
<1> HIDE DEF s, k, g, v
<1>7. Ids(g) = Ids(s)
  BY <1>4, <1>5 DEF Ids
<1>8. \A i \in DOMAIN g : EntryOf(r, g[i])
  <2> SUFFICES ASSUME NEW i \in DOMAIN s PROVE EntryOf(r, g[i])
    BY <1>4
  <2>1. EntryOf(r, s[i])
    BY <1>1 DEF Faithful
  <2> QED BY <1>5, <2>1 DEF EntryOf
<1>9. RowsOnce(g)
  BY <1>1, <1>4, <1>5 DEF Faithful, RowsOnce
<1>10. StartedKept(r, g)
  <2> SUFFICES ASSUME NEW a \in DOMAIN r, IsImmutable(r[a]) PROVE Loaded(r, a) \in ToSet(g)
    BY DEF StartedKept
  <2>1. PICK i \in DOMAIN s : s[i] = Loaded(r, a)
    BY <1>1 DEF Faithful, StartedKept, ToSet
  <2>2. IsImmutable(s[i])
    BY <2>1 DEF IsImmutable, Loaded
  <2>3. i # k
    BY <1>2, <2>2 DEF s, k
  <2>4. g[i] = Loaded(r, a)
    BY <1>5, <2>1, <2>3
  <2> QED BY <1>4, <2>4 DEF ToSet
<1>11. Faithful(r, g)
  BY <1>4, <1>8, <1>9, <1>10 DEF Faithful
<1>12. ~v.refused => LinksKept(r, g)
  BY <1>1, <1>3, <1>7 DEF LinksKept
<1> QED BY <1>3, <1>6, <1>11, <1>12 DEF Working, v

(* So every mutation leaves such a list.                                   *)
LEMMA MutationWorks ==
  ASSUME NEW r, RowsOK(r), NEW w, Working(r, w), NEW m \in Mutations
  PROVE  Working(r, Mutate(r, w, m))
<1>1. w \in WorkShape(r) /\ w.tasks \in Seq(Entry(r))
  BY DEF Working, Faithful
<1>2. /\ m.task \in TaskRefs
      /\ m.kind = "update" => m.ok \in BOOLEAN
      /\ m.kind \in {"depend", "undepend"} => m.on \in TaskRefs
      /\ m.kind \in {"add", "update", "remove", "reorder", "depend", "undepend"}
  BY MutationFields
<1>3. Working(r, Refuse(w))
  <2>1. Refuse(w) \in WorkShape(r) /\ Refuse(w).tasks = w.tasks /\ Refuse(w).refused
    BY <1>1 DEF Refuse, WorkShape
  <2> QED BY <2>1, SameTasks
<1>4. Working(r, Panic(w))
  <2>1. Panic(w) \in WorkShape(r) /\ Panic(w).tasks = w.tasks /\ Panic(w).refused = w.refused
    BY <1>1 DEF Panic, WorkShape
  <2> QED BY <2>1, SameTasks
<1>5. ASSUME m.kind = "update" PROVE Working(r, [w EXCEPT !.refused = @ \/ ~m.ok])
  <2> DEFINE v == [w EXCEPT !.refused = @ \/ ~m.ok]
  <2>1. v \in WorkShape(r) /\ v.tasks = w.tasks /\ (w.refused => v.refused)
    BY <1>1 DEF WorkShape
  <2> HIDE DEF v
  <2>2. Working(r, v)
    BY <2>1, SameTasks
  <2> QED BY <2>2 DEF v
<1>6. ASSUME m.kind = "reorder" PROVE Working(r, [w EXCEPT !.moves = Append(@, m)])
  <2> DEFINE v == [w EXCEPT !.moves = Append(@, m)]
  <2>1. Append(w.moves, m) \in Seq(Reorders)
    BY <1>1, <1>6 DEF WorkShape, Reorders
  <2>2. v \in WorkShape(r) /\ v.tasks = w.tasks /\ v.refused = w.refused
    BY <1>1, <2>1 DEF WorkShape
  <2> HIDE DEF v
  <2>3. Working(r, v)
    BY <2>2, SameTasks
  <2> QED BY <2>3 DEF v
<1>7. ASSUME m.kind = "add" PROVE Working(r, AddDraft(r, w, m))
  BY <1>7, DraftAdded
<1>8. ASSUME m.task \in Ids(w.tasks), ~IsImmutable(Named(w.tasks, m.task))
      PROVE  Working(r, RemoveTask(w, m))
  BY <1>8, TaskRemoved
<1>9. ASSUME m.task \in Ids(w.tasks), ~IsImmutable(Named(w.tasks, m.task)), m.kind \in {"depend", "undepend"}
      PROVE  Working(r, ChangeDependency(r, w, m))
  <2> DEFINE deps == Named(w.tasks, m.task).deps
             to == IF m.kind = "depend" THEN deps \cup {m.on} ELSE deps \ {m.on}
  <2>1. deps \subseteq TaskRefs
    <3>1. IndexOf(w.tasks, m.task) \in DOMAIN w.tasks /\ Named(w.tasks, m.task) = w.tasks[IndexOf(w.tasks, m.task)]
      BY <1>1, <1>9, NamedIs
    <3>2. Named(w.tasks, m.task) \in Entry(r)
      BY <1>1, <3>1
    <3> QED BY <3>2 DEF Entry
  <2> HIDE DEF deps
  <2>2. to \in SUBSET TaskRefs
    BY <1>2, <1>9, <2>1
  <2> HIDE DEF to
  <2>3. Working(r, SetDeps(w, m.task, to))
    BY <1>9, <2>2, DepsSet
  <2>4. ChangeDependency(r, w, m) \in {Refuse(w), SetDeps(w, m.task, to)}
    BY DEF ChangeDependency, deps, to
  <2> QED BY <1>3, <2>3, <2>4
<1>10. CASE w.panicked
  BY <1>10 DEF Mutate
<1>11. CASE ~w.panicked /\ m.kind = "add"
  <2>1. Mutate(r, w, m) = AddDraft(r, w, m)
    BY <1>11 DEF Mutate
  <2> QED BY <1>7, <1>11, <2>1
<1>12. CASE ~w.panicked /\ m.kind # "add"
  <2>1. CASE m.task \notin Ids(w.tasks)
    <3>1. Mutate(r, w, m) \in {Refuse(w), Panic(w)}
      BY <1>12, <2>1 DEF Mutate
    <3> QED BY <1>3, <1>4, <3>1
  <2>2. CASE m.task \in Ids(w.tasks) /\ IsImmutable(Named(w.tasks, m.task))
    <3>1. Mutate(r, w, m) = Refuse(w)
      BY <1>12, <2>2 DEF Mutate
    <3> QED BY <1>3, <3>1
  <2>3. CASE m.task \in Ids(w.tasks) /\ ~IsImmutable(Named(w.tasks, m.task))
    <3>1. CASE m.kind = "update"
      <4>1. Mutate(r, w, m) \in {Refuse(w), [w EXCEPT !.refused = @ \/ ~m.ok]}
        BY <1>12, <2>3, <3>1 DEF Mutate
      <4> QED BY <1>3, <1>5, <3>1, <4>1
    <3>2. CASE m.kind = "remove"
      <4>1. Mutate(r, w, m) \in {Refuse(w), RemoveTask(w, m)}
        BY <1>12, <2>3, <3>2 DEF Mutate
      <4> QED BY <1>3, <1>8, <2>3, <4>1
    <3>3. CASE m.kind = "reorder"
      <4>1. Mutate(r, w, m) \in {Refuse(w), [w EXCEPT !.moves = Append(@, m)]}
        BY <1>12, <2>3, <3>3 DEF Mutate
      <4> QED BY <1>3, <1>6, <3>3, <4>1
    <3>4. CASE m.kind \in {"depend", "undepend"}
      <4>1. Mutate(r, w, m) \in {Refuse(w), ChangeDependency(r, w, m)}
        BY <1>12, <2>3, <3>4 DEF Mutate
      <4> QED BY <1>3, <1>9, <2>3, <3>4, <4>1
    <3> QED BY <1>2, <1>12, <3>1, <3>2, <3>3, <3>4
  <2> QED BY <2>1, <2>2, <2>3
<1> QED BY <1>10, <1>11, <1>12

(* The mutations one after the other: their recursion has a solution.      *)
EditStep(r, patch, steps, f, n) ==
  IF n = 0 THEN [tasks |-> Load(r), drafts |-> Drafts(patch), moves |-> <<>>,
                 refused |-> FALSE, panicked |-> FALSE]
  ELSE Mutate(r, f[n - 1], steps[n])

EditsUpTo(r, patch, steps, N, f) == f = [n \in 0 .. N |-> EditStep(r, patch, steps, f, n)]
LEMMA EditsDefined ==
  ASSUME NEW r, NEW patch, NEW steps, NEW N \in Nat
  PROVE  \E f : EditsUpTo(r, patch, steps, N, f)
<1> DEFINE Step(f, n) == EditStep(r, patch, steps, f, n)
           Good == {k \in Nat : \E f : f = [n \in 0 .. k |-> Step(f, n)]}
<1>1. 0 \in Good
  <2> DEFINE f == [n \in 0 .. 0 |-> Step(<<>>, 0)]
  <2>1. \A n \in 0 .. 0 : f[n] = Step(f, n)
    BY DEF EditStep
  <2>2. f = [n \in 0 .. 0 |-> Step(f, n)]
    BY <2>1
  <2>3. \E h : h = [n \in 0 .. 0 |-> Step(h, n)]
    <3> HIDE DEF f
    <3> QED BY <2>2
  <2> QED BY <2>3
<1>2. ASSUME NEW k \in Nat, k \in Good PROVE k + 1 \in Good
  <2>1. PICK f : f = [n \in 0 .. k |-> Step(f, n)]
    BY <1>2
  <2> DEFINE g == [n \in 0 .. k + 1 |-> IF n = k + 1 THEN Step(f, k + 1) ELSE f[n]]
  <2>2. ASSUME NEW n \in 0 .. k + 1 PROVE g[n] = Step(g, n)
    <3>1. CASE n = k + 1
      <4>1. n # 0 /\ n - 1 = k /\ g[k] = f[k]
        BY <3>1
      <4>2. g[n] = Step(f, k + 1)
        BY <3>1
      <4> HIDE DEF g
      <4> QED BY <3>1, <4>1, <4>2 DEF EditStep
    <3>2. CASE n # k + 1
      <4>1. n \in 0 .. k /\ g[n] = f[n]
        BY <3>2
      <4>2. f[n] = Step(f, n)
        BY <2>1, <4>1
      <4>3. n # 0 => g[n - 1] = f[n - 1]
        BY <4>1
      <4> HIDE DEF g
      <4> QED BY <4>1, <4>2, <4>3 DEF EditStep
    <3> QED BY <3>1, <3>2
  <2>3. g = [n \in 0 .. k + 1 |-> Step(g, n)]
    <3> HIDE DEF Step
    <3> QED BY <2>2
  <2>4. \E h : h = [n \in 0 .. k + 1 |-> Step(h, n)]
    <3> HIDE DEF g
    <3> QED BY <2>3
  <2> QED BY <2>4
<1>3. Nat \subseteq Good
  <2> HIDE DEF Good
  <2> QED BY <1>1, <1>2, SetInduction
<1> QED BY <1>3 DEF EditsUpTo

AfterEdits(r, patch, steps) ==
  CHOOSE f : f = [n \in 0 .. Len(steps) |-> EditStep(r, patch, steps, f, n)]
LEMMA StepsWork ==
  ASSUME NEW r, RowsOK(r), NEW patch \in Seq(Mutations), NEW steps \in Seq(Mutations)
  PROVE  Working(r, AfterEdits(r, patch, steps)[Len(steps)])
<1> DEFINE N == Len(steps)
           after == AfterEdits(r, patch, steps)
           Good == {k \in Nat : k =< N => Working(r, after[k])}
<1>1. N \in Nat
  OBVIOUS
<1>3. after = [n \in 0 .. N |-> EditStep(r, patch, steps, after, n)]
  <2>1. \E f : EditsUpTo(r, patch, steps, N, f)
    BY <1>1, EditsDefined
  <2>2. after = CHOOSE f : EditsUpTo(r, patch, steps, N, f)
    BY DEF AfterEdits, EditsUpTo
  <2>3. EditsUpTo(r, patch, steps, N, after)
    BY <2>1, <2>2
  <2> QED BY <2>3 DEF EditsUpTo
<1> HIDE DEF after, N
<1>4. 0 \in Good
  <2> DEFINE w == [tasks |-> Load(r), drafts |-> Drafts(patch), moves |-> <<>>,
                   refused |-> FALSE, panicked |-> FALSE]
  <2>1. after[0] = w
    BY <1>1, <1>3 DEF EditStep
  <2>2. Faithful(r, Load(r)) /\ LinksKept(r, Load(r))
    BY LoadIsFaithful
  <2>3. Drafts(patch) \in SUBSET Placeholders
    <3> SUFFICES ASSUME NEW m \in ToSet(patch), m.kind = "add" PROVE m.task \in Placeholders
      BY DEF Drafts
    <3>1. m \in Mutations
      BY ContentsInSet
    <3> QED BY <3>1, MutationFields
  <2>4. <<>> \in Seq(Reorders)
    OBVIOUS
  <2>5. w \in WorkShape(r)
    BY <2>2, <2>3, <2>4 DEF WorkShape, Faithful
  <2>6. Working(r, w)
    BY <2>2, <2>5 DEF Working
  <2> QED BY <2>1, <2>6
<1>5. ASSUME NEW k \in Nat, k \in Good PROVE k + 1 \in Good
  <2>1. SUFFICES ASSUME k + 1 =< N PROVE Working(r, after[k + 1])
    OBVIOUS
  <2>2. Working(r, after[k]) /\ steps[k + 1] \in Mutations
    BY <1>1, <1>5, <2>1 DEF N
  <2>3. after[k + 1] = Mutate(r, after[k], steps[k + 1])
    <3>1. k + 1 \in 0 .. N /\ k + 1 # 0 /\ (k + 1) - 1 = k
      BY <1>1, <2>1
    <3>2. after[k + 1] = EditStep(r, patch, steps, after, k + 1)
      BY <1>3, <3>1
    <3> QED BY <3>1, <3>2 DEF EditStep
  <2> QED BY <2>2, <2>3, MutationWorks
<1>6. Nat \subseteq Good
  <2> HIDE DEF Good
  <2> QED BY <1>4, <1>5, SetInduction
<1>7. Working(r, after[N])
  BY <1>1, <1>6
<1> QED BY <1>7 DEF after, N

LEMMA EditsWork ==
  ASSUME NEW r, RowsOK(r), NEW patch \in Seq(Mutations)
  PROVE  Working(r, AfterMutations(r, patch))
<1> DEFINE adds == {m \in ToSet(patch) : m.kind = "add"}
           steps == Sift(patch, adds) \o Sift(patch, ToSet(patch) \ adds)
<1>1. steps \in Seq(Mutations)
  <2>1. Sift(patch, adds) \in Seq(Mutations) /\ Sift(patch, ToSet(patch) \ adds) \in Seq(Mutations)
    BY SiftContents
  <2> QED BY <2>1
<1>2. AfterMutations(r, patch) = AfterEdits(r, patch, steps)[Len(steps)]
  BY DEF AfterMutations, AfterEdits, EditStep
<1> HIDE DEF steps
<1> QED BY <1>1, <1>2, StepsWork

-----------------------------------------------------------------------------
(* The tasks of a plan as a set, once they are all there: the rest of an   *)
(* edit only changes their order and the states of those that wait.        *)
Contents(r, X, extra) ==
  /\ X \subseteq Entry(r)
  /\ \A t \in X : EntryOf(r, t) /\ t.deps \subseteq {x.id : x \in X} \cup extra
  /\ \A t, u \in X : t.id = u.id /\ t.id > 0 => t = u
  /\ \A id \in DOMAIN r : IsImmutable(r[id]) => Loaded(r, id) \in X

LEMMA PruneContents ==
  ASSUME NEW r, NEW list, Faithful(r, list), LinksKept(r, list)
  PROVE  Prune(list) \in Seq(Entry(r)) /\ Contents(r, ToSet(Prune(list)), {})
<1> DEFINE p == Prune(list)
           I == Ids(list)
<1>1. /\ list \in Seq(Entry(r)) /\ DOMAIN list = 1 .. Len(list)
      /\ p = [i \in DOMAIN list |-> [list[i] EXCEPT !.deps = @ \cap I]]
  BY DEF Faithful, Prune
<1> HIDE DEF p, I
<1>2. DOMAIN p = DOMAIN list
  BY <1>1
<1>3. ASSUME NEW i \in DOMAIN list
      PROVE  /\ p[i] \in Entry(r) /\ EntryOf(r, p[i]) /\ p[i].id = list[i].id
             /\ p[i].deps \subseteq I
             /\ (list[i].deps \subseteq I => p[i] = list[i])
  <2>1. list[i] \in Entry(r) /\ EntryOf(r, list[i])
    BY <1>1 DEF Faithful
  <2>2. p[i] = [list[i] EXCEPT !.deps = @ \cap I]
    BY <1>1
  <2>3. /\ p[i].id = list[i].id /\ p[i].new = list[i].new /\ p[i].state = list[i].state
        /\ p[i].tried = list[i].tried /\ p[i].deps = list[i].deps \cap I /\ p[i] \in Entry(r)
    BY <2>1, <2>2 DEF Entry
  <2>4. EntryOf(r, p[i])
    BY <2>1, <2>3 DEF EntryOf
  <2>5. list[i].deps \subseteq I => p[i] = list[i]
    BY <2>1, <2>2 DEF Entry
  <2> QED BY <2>3, <2>4, <2>5
<1>4. p \in Seq(Entry(r))
  <2>1. \A i \in 1 .. Len(list) : p[i] \in Entry(r)
    BY <1>1, <1>3
  <2>2. Len(list) \in Nat /\ p = [i \in 1 .. Len(list) |-> p[i]]
    BY <1>1
  <2> QED BY <2>1, <2>2
<1>5. {x.id : x \in ToSet(p)} = I
  <2>1. {x.id : x \in ToSet(p)} = {p[i].id : i \in DOMAIN p}
    BY DEF ToSet
  <2>2. {p[i].id : i \in DOMAIN p} = {list[i].id : i \in DOMAIN list}
    BY <1>2, <1>3
  <2> QED BY <2>1, <2>2 DEF I, Ids
<1>6. \A t \in ToSet(p) : t \in Entry(r) /\ EntryOf(r, t) /\ t.deps \subseteq I
  BY <1>2, <1>3 DEF ToSet
<1>7. \A t, u \in ToSet(p) : t.id = u.id /\ t.id > 0 => t = u
  <2> SUFFICES ASSUME NEW i \in DOMAIN list, NEW j \in DOMAIN list, p[i].id = p[j].id, p[i].id > 0
               PROVE  p[i] = p[j]
    BY <1>2 DEF ToSet
  <2>1. i = j
    BY <1>3 DEF Faithful, RowsOnce
  <2> QED BY <2>1
<1>8. ASSUME NEW id \in DOMAIN r, IsImmutable(r[id]) PROVE Loaded(r, id) \in ToSet(p)
  <2>1. PICK i \in DOMAIN list : list[i] = Loaded(r, id)
    BY <1>8 DEF Faithful, StartedKept, ToSet
  <2>2. list[i].deps \subseteq I
    BY <1>8, <2>1 DEF Loaded, LinksKept, I
  <2>3. p[i] = Loaded(r, id)
    BY <1>3, <2>1, <2>2
  <2> QED BY <1>2, <2>3 DEF ToSet
<1>9. Contents(r, ToSet(p), {})
  BY <1>5, <1>6, <1>7, <1>8 DEF Contents
<1> QED BY <1>4, <1>9 DEF p

(* Moving a task loses none.                                               *)
LEMMA MoveContents ==
  ASSUME NEW T, NEW list \in Seq(T), NEW m \in Reorders
  PROVE  Move(list, m) \in Seq(T) /\ ToSet(Move(list, m)) = ToSet(list)
<1>1. CASE m.task \notin Ids(list)
  BY <1>1 DEF Move
<1>2. CASE m.task \in Ids(list)
  <2> DEFINE i == IndexOf(list, m.task)
             rest == RemoveAt(list, i)
             k == IF m.to > Len(rest) THEN Len(rest) + 1 ELSE m.to + 1
  <2>1. i \in DOMAIN list
    BY <1>2, NamedIs
  <2>2. Move(list, m) = InsertAt(rest, k, list[i])
    BY <1>2 DEF Move
  <2>3. m.to \in Nat
    BY DEF Reorders, Mutations
  <2> HIDE DEF i
  <2>4. rest \in Seq(T) /\ ToSet(rest) \cup {list[i]} = ToSet(list) /\ list[i] \in T
    BY <2>1, TakenOut
  <2> HIDE DEF rest
  <2>5. k \in 1 .. Len(rest) + 1
    BY <2>3, <2>4
  <2> HIDE DEF k
  <2>6. InsertAt(rest, k, list[i]) \in Seq(T) /\ ToSet(InsertAt(rest, k, list[i])) = ToSet(rest) \cup {list[i]}
    BY <2>4, <2>5, PutIn
  <2> QED BY <2>2, <2>4, <2>6
<1> QED BY <1>1, <1>2

(* The moves one after the other.                                          *)
MoveStep(list, moves, f, n) == IF n = 0 THEN list ELSE Move(f[n - 1], moves[n])

LEMMA MovesDefined ==
  ASSUME NEW list, NEW moves, NEW N \in Nat
  PROVE  \E f : f = [n \in 0 .. N |-> MoveStep(list, moves, f, n)]
<1> DEFINE Step(f, n) == MoveStep(list, moves, f, n)
           Good == {k \in Nat : \E f : f = [n \in 0 .. k |-> Step(f, n)]}
<1>1. 0 \in Good
  <2> DEFINE f == [n \in 0 .. 0 |-> Step(<<>>, 0)]
  <2>1. \A n \in 0 .. 0 : f[n] = Step(f, n)
    BY DEF MoveStep
  <2>2. f = [n \in 0 .. 0 |-> Step(f, n)]
    BY <2>1
  <2>3. \E h : h = [n \in 0 .. 0 |-> Step(h, n)]
    <3> HIDE DEF f
    <3> QED BY <2>2
  <2> QED BY <2>3
<1>2. ASSUME NEW k \in Nat, k \in Good PROVE k + 1 \in Good
  <2>1. PICK f : f = [n \in 0 .. k |-> Step(f, n)]
    BY <1>2
  <2> DEFINE g == [n \in 0 .. k + 1 |-> IF n = k + 1 THEN Step(f, k + 1) ELSE f[n]]
  <2>2. ASSUME NEW n \in 0 .. k + 1 PROVE g[n] = Step(g, n)
    <3>1. CASE n = k + 1
      <4>1. n # 0 /\ n - 1 = k /\ g[k] = f[k]
        BY <3>1
      <4>2. g[n] = Step(f, k + 1)
        BY <3>1
      <4> HIDE DEF g
      <4> QED BY <3>1, <4>1, <4>2 DEF MoveStep
    <3>2. CASE n # k + 1
      <4>1. n \in 0 .. k /\ g[n] = f[n]
        BY <3>2
      <4>2. f[n] = Step(f, n)
        BY <2>1, <4>1
      <4>3. n # 0 => g[n - 1] = f[n - 1]
        BY <4>1
      <4> HIDE DEF g
      <4> QED BY <4>1, <4>2, <4>3 DEF MoveStep
    <3> QED BY <3>1, <3>2
  <2>3. g = [n \in 0 .. k + 1 |-> Step(g, n)]
    <3> HIDE DEF Step
    <3> QED BY <2>2
  <2>4. \E h : h = [n \in 0 .. k + 1 |-> Step(h, n)]
    <3> HIDE DEF g
    <3> QED BY <2>3
  <2> QED BY <2>4
<1>3. Nat \subseteq Good
  <2> HIDE DEF Good
  <2> QED BY <1>1, <1>2, SetInduction
<1> QED BY <1>3

LEMMA ReorderContents ==
  ASSUME NEW T, NEW list \in Seq(T), NEW moves \in Seq(Reorders)
  PROVE  Reordered(list, moves) \in Seq(T) /\ ToSet(Reordered(list, moves)) = ToSet(list)
<1> DEFINE N == Len(moves)
           after == CHOOSE f : f = [n \in 0 .. N |-> MoveStep(list, moves, f, n)]
           Right(s) == s \in Seq(T) /\ ToSet(s) = ToSet(list)
           Good == {k \in Nat : k =< N => Right(after[k])}
<1>1. N \in Nat
  OBVIOUS
<1>2. Reordered(list, moves) = after[N]
  BY DEF Reordered, MoveStep
<1> HIDE DEF N
<1>3. after = [n \in 0 .. N |-> MoveStep(list, moves, after, n)]
  <2>1. \E f : f = [n \in 0 .. N |-> MoveStep(list, moves, f, n)]
    BY <1>1, MovesDefined
  <2> QED BY <2>1
<1> HIDE DEF after
<1>4. 0 \in Good
  BY <1>1, <1>3 DEF MoveStep
<1>5. ASSUME NEW k \in Nat, k \in Good PROVE k + 1 \in Good
  <2>1. SUFFICES ASSUME k + 1 =< N PROVE Right(after[k + 1])
    OBVIOUS
  <2>2. Right(after[k]) /\ moves[k + 1] \in Reorders
    BY <1>1, <1>5, <2>1 DEF N
  <2>3. after[k + 1] = Move(after[k], moves[k + 1])
    <3>1. k + 1 \in 0 .. N /\ k + 1 # 0 /\ (k + 1) - 1 = k
      BY <1>1, <2>1
    <3>2. after[k + 1] = MoveStep(list, moves, after, k + 1)
      BY <1>3, <3>1
    <3> QED BY <3>1, <3>2 DEF MoveStep
  <2> QED BY <2>2, <2>3, MoveContents
<1>6. Nat \subseteq Good
  <2> HIDE DEF Good
  <2> QED BY <1>4, <1>5, SetInduction
<1> QED BY <1>1, <1>2, <1>6

-----------------------------------------------------------------------------
(* What a resolved plan owes to the rows: every task of it is a row or a   *)
(* draft, once; what has started or ended is there as it was loaded, and   *)
(* is not superseded; all dependencies lead to what the rows will hold.    *)
PlanOK(r, plan) ==
  LET X == ToSet(plan.tasks)
      known == {x.id : x \in X} \cup plan.superseded
  IN /\ plan.tasks \in Seq(X)
     /\ \A t \in X : /\ t.id \in TaskRefs /\ t.new \in BOOLEAN /\ t.tried \in BOOLEAN
                     /\ t.id > 0 => t.id \in DOMAIN r
                     /\ t.id < 0 <=> t.new
                     /\ t.deps \subseteq known
     /\ \A t, u \in X : t.id = u.id /\ t.id > 0 => t = u
     /\ \A id \in DOMAIN r : IsImmutable(r[id]) => Loaded(r, id) \in X
     /\ plan.superseded \subseteq DOMAIN r
     /\ \A c \in plan.superseded : ~IsImmutable(r[c]) /\ r[c].deps \subseteq known

(* Computing the states anew touches what waits, and only its state.       *)
LEMMA StatesRecomputed ==
  ASSUME NEW r, RowsOK(r), NEW list \in Seq(Entry(r)), NEW gone \in SUBSET DOMAIN r,
         Contents(r, ToSet(list), gone),
         \A c \in gone : ~IsImmutable(r[c]) /\ r[c].deps \subseteq Ids(list) \cup gone,
         NEW why
  PROVE  PlanOK(r, [result |-> why, tasks |-> RecomputeStates(list), superseded |-> gone])
<1> DEFINE p == RecomputeStates(list)
           X == ToSet(p)
           plan == [result |-> why, tasks |-> p, superseded |-> gone]
<1>1. /\ DOMAIN p = DOMAIN list /\ DOMAIN list = 1 .. Len(list) /\ Len(list) \in Nat
      /\ p = [i \in DOMAIN list |-> p[i]]
      /\ \A i \in DOMAIN list : \E st :
           p[i] = [list[i] EXCEPT !.state = IF Recomputed(list[i]) THEN st ELSE @]
  <2> DEFINE state == NewStates(list)
             g == [i \in DOMAIN list |->
                     [list[i] EXCEPT !.state = IF Recomputed(list[i]) THEN state[list[i].id] ELSE @]]
  <2>1. p = g
    BY DEF RecomputeStates
  <2> HIDE DEF p, state
  <2>2. DOMAIN g = DOMAIN list /\ g = [i \in DOMAIN list |-> g[i]]
    OBVIOUS
  <2>3. \A i \in DOMAIN list :
          g[i] = [list[i] EXCEPT !.state = IF Recomputed(list[i]) THEN state[list[i].id] ELSE @]
    OBVIOUS
  <2>4. \A i \in DOMAIN list : \E st :
          g[i] = [list[i] EXCEPT !.state = IF Recomputed(list[i]) THEN st ELSE @]
    <3> HIDE DEF g
    <3> QED BY <2>3
  <2>5. DOMAIN list = 1 .. Len(list) /\ Len(list) \in Nat
    OBVIOUS
  <2> HIDE DEF g
  <2> QED BY <2>1, <2>2, <2>4, <2>5
<1>2. ASSUME NEW i \in DOMAIN list
      PROVE  /\ list[i] \in Entry(r) /\ EntryOf(r, list[i]) /\ list[i] \in ToSet(list)
             /\ p[i].id = list[i].id /\ p[i].new = list[i].new /\ p[i].tried = list[i].tried
             /\ p[i].deps = list[i].deps
             /\ (~Recomputed(list[i]) => p[i] = list[i])
  <2>1. list[i] \in ToSet(list)
    BY DEF ToSet
  <2>2. list[i] \in Entry(r) /\ EntryOf(r, list[i])
    BY <2>1 DEF Contents
  <2>3. PICK st : p[i] = [list[i] EXCEPT !.state = IF Recomputed(list[i]) THEN st ELSE @]
    BY <1>1
  <2> HIDE DEF p
  <2>4. /\ p[i].id = list[i].id /\ p[i].new = list[i].new /\ p[i].tried = list[i].tried
        /\ p[i].deps = list[i].deps
    BY <2>2, <2>3 DEF Entry
  <2>5. ~Recomputed(list[i]) => p[i] = list[i]
    <3> SUFFICES ASSUME ~Recomputed(list[i]) PROVE p[i] = list[i]
      OBVIOUS
    <3>1. p[i] = [list[i] EXCEPT !.state = list[i].state]
      BY <2>3
    <3> QED BY <2>2, <3>1 DEF Entry
  <2> QED BY <2>1, <2>2, <2>4, <2>5
<1> HIDE DEF p
<1>3. {x.id : x \in X} = Ids(list)
  <2>1. {x.id : x \in X} = {p[i].id : i \in DOMAIN p}
    BY DEF ToSet
  <2>2. \A i \in DOMAIN list : p[i].id = list[i].id
    BY <1>2
  <2>3. {p[i].id : i \in DOMAIN p} = {list[i].id : i \in DOMAIN list}
    BY <1>1, <2>2
  <2> HIDE DEF X
  <2> QED BY <2>1, <2>3 DEF Ids
<1>4. p \in Seq(X)
  <2>1. \A i \in 1 .. Len(list) : p[i] \in X
    BY <1>1 DEF ToSet
  <2> HIDE DEF X
  <2> QED BY <1>1, <2>1
<1>5. ASSUME NEW i \in DOMAIN list
      PROVE  /\ p[i].id \in TaskRefs /\ p[i].new \in BOOLEAN /\ p[i].tried \in BOOLEAN
             /\ p[i].id > 0 => p[i].id \in DOMAIN r
             /\ p[i].id < 0 <=> p[i].new
             /\ p[i].deps \subseteq Ids(list) \cup gone
  <2>1. list[i] \in Entry(r) /\ EntryOf(r, list[i]) /\ list[i] \in ToSet(list)
    BY <1>2
  <2>2. list[i].id \in Int /\ list[i].id # 0
    BY <2>1 DEF Entry, TaskRefs
  <2>3. list[i].deps \subseteq Ids(list) \cup gone
    BY <2>1, IdsAre DEF Contents
  <2> QED BY <1>2, <2>1, <2>2, <2>3 DEF Entry, EntryOf
<1>6. ASSUME NEW i \in DOMAIN list, NEW j \in DOMAIN list, p[i].id = p[j].id, p[i].id > 0
      PROVE  p[i] = p[j]
  <2>1. list[i] = list[j]
    BY <1>2, <1>6 DEF Contents
  <2>2. CASE ~Recomputed(list[i])
    BY <1>2, <2>1, <2>2
  <2>3. CASE Recomputed(list[i])
    <3> DEFINE g == RecomputeStates(list)
    <3>1. g[i] = g[j]
      BY <2>1, <1>1 DEF RecomputeStates
    <3> QED BY <3>1 DEF p
  <2> QED BY <2>2, <2>3
<1>7. ASSUME NEW id \in DOMAIN r, IsImmutable(r[id]) PROVE Loaded(r, id) \in X
  <2>1. PICK i \in DOMAIN list : list[i] = Loaded(r, id)
    BY <1>7 DEF Contents, ToSet
  <2>2. ~Recomputed(list[i])
    BY <1>7, <2>1 DEF Recomputed, Loaded, IsImmutable, Settled
  <2>3. p[i] = Loaded(r, id)
    BY <1>2, <2>1, <2>2
  <2> QED BY <1>1, <2>3 DEF ToSet
<1>8. \A t \in X : /\ t.id \in TaskRefs /\ t.new \in BOOLEAN /\ t.tried \in BOOLEAN
                   /\ t.id > 0 => t.id \in DOMAIN r
                   /\ t.id < 0 <=> t.new
                   /\ t.deps \subseteq Ids(list) \cup gone
  <2> SUFFICES ASSUME NEW i \in DOMAIN p
               PROVE  /\ p[i].id \in TaskRefs /\ p[i].new \in BOOLEAN /\ p[i].tried \in BOOLEAN
                      /\ p[i].id > 0 => p[i].id \in DOMAIN r
                      /\ p[i].id < 0 <=> p[i].new
                      /\ p[i].deps \subseteq Ids(list) \cup gone
    BY DEF ToSet
  <2> QED BY <1>1, <1>5
<1>9. \A t, u \in X : t.id = u.id /\ t.id > 0 => t = u
  <2> SUFFICES ASSUME NEW i \in DOMAIN p, NEW j \in DOMAIN p, p[i].id = p[j].id, p[i].id > 0
               PROVE  p[i] = p[j]
    BY DEF ToSet
  <2> QED BY <1>1, <1>6
<1> HIDE DEF X
<1>10. plan.tasks = p /\ plan.superseded = gone
  OBVIOUS
<1> HIDE DEF plan
<1>11. PlanOK(r, plan)
  BY <1>3, <1>4, <1>7, <1>8, <1>9, <1>10 DEF PlanOK, X
<1> QED BY <1>11 DEF plan, p

LEMMA PatchResolved ==
  ASSUME NEW r, RowsOK(r), NEW patch \in Seq(Mutations), ResolvePatch(r, patch).result = "applied"
  PROVE  PlanOK(r, ResolvePatch(r, patch))
<1> DEFINE w == AfterMutations(r, patch)
           pruned == Prune(w.tasks)
           ordered == Reordered(pruned, w.moves)
<1>1. Working(r, w)
  BY EditsWork
<1>2. ~w.refused /\ ResolvePatch(r, patch) = [result |-> "applied", tasks |-> RecomputeStates(ordered), superseded |-> {}]
  BY DEF ResolvePatch, Unresolved
<1> HIDE DEF w
<1>3. Faithful(r, w.tasks) /\ LinksKept(r, w.tasks) /\ w.moves \in Seq(Reorders)
  BY <1>1, <1>2 DEF Working, WorkShape
<1>4. pruned \in Seq(Entry(r)) /\ Contents(r, ToSet(pruned), {})
  BY <1>3, PruneContents
<1> HIDE DEF pruned
<1>5. ordered \in Seq(Entry(r)) /\ ToSet(ordered) = ToSet(pruned)
  BY <1>3, <1>4, ReorderContents
<1> HIDE DEF ordered
<1>6. Contents(r, ToSet(ordered), {})
  BY <1>4, <1>5
<1>7. PlanOK(r, [result |-> "applied", tasks |-> RecomputeStates(ordered), superseded |-> {}])
  BY <1>5, <1>6, StatesRecomputed
<1> QED BY <1>2, <1>7

(* What a replan that is applied resolves to: the new tasks, each named    *)
(* once and free of cycles among themselves, put between rows that are     *)
(* taken over as they are, in the place of the scope.                      *)
IdsOnce(list) == \A i, j \in DOMAIN list : list[i].id = list[j].id => i = j
Replanned(r, request, scope, news, list) ==
  /\ ResolveReplan(r, request) =
       [result |-> "applied", tasks |-> RecomputeStates(list), superseded |-> scope]
  /\ scope \in SUBSET DOMAIN r
  /\ \A c \in scope : ~IsImmutable(r[c]) /\ r[c].deps \subseteq Ids(list) \cup scope
  /\ list \in Seq(Entry(r)) /\ Contents(r, ToSet(list), scope)
  /\ news \in Seq(Entry(r)) /\ IdsOnce(news) /\ ~DetectCycle(news)
  /\ \A t \in ToSet(news) : t \in ToSet(list) /\ t.id < 0
  /\ \A t \in ToSet(list) :
       t \in ToSet(news) \/ (t.id \in DOMAIN r \ scope /\ t = Loaded(r, t.id))
LEMMA ReplanIs ==
  ASSUME NEW r, RowsOK(r), NEW request, request.tasks \in Seq(NewTasks),
         ResolveReplan(r, request).result = "applied"
  PROVE  \E scope, news, list : Replanned(r, request, scope, news, list)
<1> DEFINE scope == MutableScope(r, request.seed)
           news == [i \in DOMAIN request.tasks |->
                      [id |-> request.tasks[i].task, new |-> TRUE, state |-> "pending",
                       tried |-> FALSE, deps |-> request.tasks[i].deps]]
           kept == Without(Load(r), scope)
           earliest == {r[c].pos : c \in scope}
           after == {i \in DOMAIN kept : \E p \in earliest :
                       (\A q \in earliest : p =< q) /\ r[kept[i].id].pos > p}
           cut == IF after = {} THEN Len(kept) ELSE (CHOOSE i \in after : \A j \in after : i =< j) - 1
           a == SubSeq(kept, 1, cut)
           b == SubSeq(kept, cut + 1, Len(kept))
           list == (a \o news) \o b
<1>1. scope \subseteq DOMAIN r /\ \A c \in scope : ~IsImmutable(r[c])
  BY DEF MutableScope
<1>2. /\ \A i \in DOMAIN request.tasks : request.tasks[i].deps \subseteq Ids(news) \cup (DOMAIN r \ scope)
      /\ ResolveReplan(r, request) =
           [result |-> "applied", tasks |-> RecomputeStates(list), superseded |-> scope]
      /\ \A i, j \in DOMAIN request.tasks : request.tasks[i].task = request.tasks[j].task => i = j
      /\ ~DetectCycle(news)
  BY DEF ResolveReplan, Unresolved
<1> HIDE DEF scope
<1>3. /\ news \in Seq(Entry(r))
      /\ \A i \in DOMAIN request.tasks : /\ news[i].id = request.tasks[i].task /\ news[i].id \in Int /\ news[i].id < 0
                                         /\ EntryOf(r, news[i]) /\ news[i].deps = request.tasks[i].deps
      /\ DOMAIN news = DOMAIN request.tasks
  <2>1. \A i \in DOMAIN request.tasks : request.tasks[i] \in NewTasks
    OBVIOUS
  <2>2. ASSUME NEW i \in DOMAIN request.tasks
        PROVE  /\ news[i] \in Entry(r) /\ news[i].id = request.tasks[i].task
               /\ news[i].id \in Int /\ news[i].id < 0
               /\ EntryOf(r, news[i]) /\ news[i].deps = request.tasks[i].deps
    <3>1. request.tasks[i].task \in Int /\ request.tasks[i].task < 0 /\ request.tasks[i].deps \in SUBSET TaskRefs
      BY <2>1 DEF NewTasks, Placeholders
    <3>2. request.tasks[i].task \in TaskRefs
      BY <3>1 DEF TaskRefs
    <3> QED BY <3>1, <3>2 DEF Entry, EntryOf
  <2>3. DOMAIN news = 1 .. Len(request.tasks) /\ Len(request.tasks) \in Nat
    OBVIOUS
  <2> HIDE DEF news
  <2>4. news = [i \in 1 .. Len(request.tasks) |-> news[i]]
    BY <2>3 DEF news
  <2>5. DOMAIN news = DOMAIN request.tasks
    BY DEF news
  <2>6. news \in Seq(Entry(r))
    BY <2>2, <2>3, <2>4
  <2> QED BY <2>2, <2>5, <2>6
<1> HIDE DEF news
<1>4. Faithful(r, Load(r)) /\ LinksKept(r, Load(r)) /\ Ids(Load(r)) = DOMAIN r
  BY LoadIsFaithful
<1>5. kept \in Seq(Entry(r)) /\ ToSet(kept) = {t \in ToSet(Load(r)) : t.id \notin scope}
  <2> DEFINE S == {t \in ToSet(Load(r)) : t.id \notin scope}
  <2>1. kept = Sift(Load(r), S) /\ Load(r) \in Seq(Entry(r))
    BY <1>4 DEF Without, Faithful
  <2>2. Sift(Load(r), S) \in Seq(Entry(r)) /\ ToSet(Sift(Load(r), S)) = ToSet(Load(r)) \cap S
    BY <2>1, SiftContents
  <2> QED BY <2>1, <2>2
<1> HIDE DEF kept
<1>6. cut \in 0 .. Len(kept)
  <2>1. Len(kept) \in Nat /\ DOMAIN kept = 1 .. Len(kept)
    BY <1>5
  <2>2. after \subseteq DOMAIN kept
    OBVIOUS
  <2> HIDE DEF after
  <2>3. CASE after = {}
    BY <2>1, <2>3
  <2>4. CASE after # {}
    <3>1. after \subseteq Nat
      BY <2>1, <2>2
    <3>2. \E i \in after : \A j \in after : i =< j
      BY <2>4, <3>1, LeastNumber
    <3>3. (CHOOSE i \in after : \A j \in after : i =< j) \in after
      BY <3>2
    <3> QED BY <2>1, <2>2, <2>4, <3>3
  <2> QED BY <2>3, <2>4
<1> HIDE DEF cut
<1>7. a \in Seq(Entry(r)) /\ b \in Seq(Entry(r)) /\ ToSet(a) \cup ToSet(b) = ToSet(kept)
  BY <1>5, <1>6, CutContents
<1> DEFINE an == a \o news
<1> HIDE DEF a, b
<1>8. an \in Seq(Entry(r)) /\ ToSet(an) = ToSet(a) \cup ToSet(news)
  BY <1>3, <1>7, ContentsOfConcat
<1> HIDE DEF an
<1>9. an \o b \in Seq(Entry(r)) /\ ToSet(an \o b) = ToSet(an) \cup ToSet(b)
  BY <1>7, <1>8, ContentsOfConcat
<1>10. list = an \o b
  BY DEF an
<1> HIDE DEF list
<1>11. list \in Seq(Entry(r)) /\ ToSet(list) = ToSet(kept) \cup ToSet(news)
  BY <1>7, <1>8, <1>9, <1>10
<1>12. ASSUME NEW t \in ToSet(Load(r))
       PROVE  t.id \in DOMAIN r /\ t = Loaded(r, t.id) /\ EntryOf(r, t) /\ t.deps \subseteq DOMAIN r
  <2>1. PICK n \in DOMAIN Load(r) : t = Load(r)[n]
    BY DEF ToSet
  <2>2. PICK id \in DOMAIN r : t = Loaded(r, id)
    BY <2>1, LoadedRows
  <2>3. t.id = id /\ t.deps = r[id].deps
    BY <2>2 DEF Loaded
  <2>4. EntryOf(r, t)
    BY <1>4, <2>1 DEF Faithful
  <2> QED BY <2>2, <2>3, <2>4 DEF RowsOK
<1>13. \A id \in DOMAIN r : Loaded(r, id) \in ToSet(Load(r)) /\ Loaded(r, id).id = id
  <2> SUFFICES ASSUME NEW id \in DOMAIN r PROVE Loaded(r, id) \in ToSet(Load(r)) /\ Loaded(r, id).id = id
    OBVIOUS
  <2>1. \E n \in DOMAIN Load(r) : Load(r)[n] = Loaded(r, id)
    BY LoadedRows
  <2>2. Loaded(r, id).id = id
    BY DEF Loaded
  <2> QED BY <2>1, <2>2 DEF ToSet
<1>14. DOMAIN r \ scope \subseteq {x.id : x \in ToSet(kept)}
  BY <1>5, <1>13
<1>15. Ids(news) = {x.id : x \in ToSet(news)} /\ Ids(list) = {x.id : x \in ToSet(list)}
  BY IdsAre
<1>16. DOMAIN r \subseteq Ids(list) \cup scope /\ Ids(news) \subseteq Ids(list)
  BY <1>11, <1>14, <1>15
<1>17. \A t \in ToSet(news) : /\ t \in Entry(r) /\ EntryOf(r, t) /\ t.id \in Int /\ t.id < 0
                              /\ t.deps \subseteq Ids(list) \cup scope
  <2> SUFFICES ASSUME NEW i \in DOMAIN news
               PROVE  /\ news[i] \in Entry(r) /\ EntryOf(r, news[i]) /\ news[i].id \in Int /\ news[i].id < 0
                      /\ news[i].deps \subseteq Ids(list) \cup scope
    BY DEF ToSet
  <2>1. news[i] \in Entry(r)
    BY <1>3
  <2>2. news[i].deps \subseteq Ids(news) \cup (DOMAIN r \ scope)
    BY <1>2, <1>3
  <2> QED BY <1>3, <1>16, <2>1, <2>2
<1>18. \A t \in ToSet(kept) : /\ t \in ToSet(Load(r)) /\ t \in Entry(r) /\ EntryOf(r, t)
                              /\ t.deps \subseteq Ids(list) \cup scope
  <2> SUFFICES ASSUME NEW t \in ToSet(kept)
               PROVE  /\ t \in ToSet(Load(r)) /\ t \in Entry(r) /\ EntryOf(r, t)
                      /\ t.deps \subseteq Ids(list) \cup scope
    OBVIOUS
  <2>1. t \in ToSet(Load(r)) /\ t \in Entry(r)
    BY <1>5, ContentsInSet
  <2> QED BY <1>12, <1>16, <2>1
<1>19. \A t, u \in ToSet(list) : t.id = u.id /\ t.id > 0 => t = u
  <2> SUFFICES ASSUME NEW t \in ToSet(list), NEW u \in ToSet(list), t.id = u.id, t.id > 0
               PROVE  t = u
    OBVIOUS
  <2>1. t \notin ToSet(news) /\ u \notin ToSet(news)
    BY <1>17
  <2>2. t = Loaded(r, t.id) /\ u = Loaded(r, u.id)
    BY <1>11, <1>12, <1>18, <2>1
  <2>3. Loaded(r, t.id) = Loaded(r, u.id)
    OBVIOUS
  <2> QED BY <2>2, <2>3
<1>20. ASSUME NEW id \in DOMAIN r, IsImmutable(r[id]) PROVE Loaded(r, id) \in ToSet(list)
  BY <1>1, <1>5, <1>11, <1>13, <1>20
<1>21. \A t \in ToSet(list) : t \in Entry(r) /\ EntryOf(r, t) /\ t.deps \subseteq Ids(list) \cup scope
  BY <1>11, <1>17, <1>18
<1>22. Contents(r, ToSet(list), scope)
  BY <1>15, <1>19, <1>20, <1>21 DEF Contents
<1>23. \A c \in scope : ~IsImmutable(r[c]) /\ r[c].deps \subseteq Ids(list) \cup scope
  <2> SUFFICES ASSUME NEW c \in scope PROVE r[c].deps \subseteq Ids(list) \cup scope
    BY <1>1
  <2>1. r[c].deps \subseteq DOMAIN r
    BY <1>1 DEF RowsOK
  <2> QED BY <1>16, <2>1
<1>24. IdsOnce(news)
  BY <1>2, <1>3 DEF IdsOnce
<1>25. \A t \in ToSet(list) :
         t \in ToSet(news) \/ (t.id \in DOMAIN r \ scope /\ t = Loaded(r, t.id))
  <2> SUFFICES ASSUME NEW t \in ToSet(kept) PROVE t.id \in DOMAIN r \ scope /\ t = Loaded(r, t.id)
    BY <1>11
  <2> QED BY <1>5, <1>12
<1>26. \A t \in ToSet(news) : t \in ToSet(list) /\ t.id < 0
  BY <1>11, <1>17
<1> HIDE DEF earliest, after
<1>27. Replanned(r, request, scope, news, list)
  BY <1>1, <1>2, <1>3, <1>11, <1>22, <1>23, <1>24, <1>25, <1>26 DEF Replanned
<1> QED BY <1>27

LEMMA ReplanResolved ==
  ASSUME NEW r, RowsOK(r), NEW request, request.tasks \in Seq(NewTasks),
         ResolveReplan(r, request).result = "applied"
  PROVE  PlanOK(r, ResolveReplan(r, request))
<1>1. PICK scope, news, list : Replanned(r, request, scope, news, list)
  BY ReplanIs
<1>2. PlanOK(r, [result |-> "applied", tasks |-> RecomputeStates(list), superseded |-> scope])
  BY <1>1, StatesRecomputed DEF Replanned
<1> QED BY <1>1, <1>2 DEF Replanned

-----------------------------------------------------------------------------
(* Writing it: the drafts get ids no row has, so that the rows that have   *)
(* started or ended keep theirs, and what is in them.                      *)
Placed(r, plan, n) ==
  LET gone == plan.superseded
      known == Ids(plan.tasks) \cup gone
  IN \E f \in [known -> DOMAIN n] :
       /\ \A a, b \in known : f[a] = f[b] => a = b
       /\ \A id \in DOMAIN n : \E d \in known : f[d] = id
       /\ \A c \in gone : /\ n[f[c]].state = "superseded" /\ n[f[c]].tried = r[c].tried
                          /\ n[f[c]].deps = {f[e] : e \in r[c].deps}
       /\ \A d \in known \ gone : \E t \in ToSet(plan.tasks) :
            /\ t.id = d /\ n[f[d]].state = t.state /\ n[f[d]].tried = t.tried
            /\ n[f[d]].deps = {f[e] : e \in t.deps}
LEMMA PlanApplied ==
  ASSUME NEW r, RowsOK(r), NEW plan, PlanOK(r, plan)
  PROVE  /\ RowsOK(ApplyResolved(r, plan))
         /\ \A id \in DOMAIN r : IsImmutable(r[id]) =>
              /\ id \in DOMAIN ApplyResolved(r, plan)
              /\ [ApplyResolved(r, plan)[id] EXCEPT !.pos = 0] = [r[id] EXCEPT !.pos = 0]
         /\ Placed(r, plan, ApplyResolved(r, plan))
<1> DEFINE X == ToSet(plan.tasks)
           I == Ids(plan.tasks)
           gone == plan.superseded
           drafts == Sift(plan.tasks, {t \in X : t.new})
           real(id) == IF id > 0 THEN id
                       ELSE NextId(r) - 1 + (CHOOSE i \in DOMAIN drafts : drafts[i].id = id
                                               /\ \A j \in DOMAIN drafts : drafts[j].id = id => j =< i)
           ids == {real(d) : d \in I}
           source(id) == CHOOSE i \in DOMAIN plan.tasks : real(plan.tasks[i].id) = id
           n == ApplyResolved(r, plan)
<1>1. /\ plan.tasks \in Seq(X) /\ I = {x.id : x \in X}
      /\ \A t \in X : /\ t.id \in TaskRefs /\ t.new \in BOOLEAN /\ t.tried \in BOOLEAN
                      /\ t.id > 0 => t.id \in DOMAIN r
                      /\ t.id < 0 <=> t.new
                      /\ t.deps \subseteq I \cup gone
      /\ \A t, u \in X : t.id = u.id /\ t.id > 0 => t = u
      /\ \A id \in DOMAIN r : IsImmutable(r[id]) => Loaded(r, id) \in X
      /\ gone \subseteq DOMAIN r
      /\ \A c \in gone : ~IsImmutable(r[c]) /\ r[c].deps \subseteq I \cup gone
  BY IdsAre DEF PlanOK
<1>2. NextId(r) \in Nat \ {0} /\ \A e \in DOMAIN r : e < NextId(r)
  <2> DEFINE C == DOMAIN r \cup {0}
  <2>1. IsFiniteSet(C) /\ C \subseteq Nat /\ C # {}
    BY FS_AddElement DEF RowsOK
  <2> HIDE DEF C
  <2>2. \E a \in C : \A b \in C : b =< a
    BY <2>1, GreatestNumber
  <2>3. \E d \in C : \A e \in DOMAIN r : e =< d
    BY <2>2 DEF C
  <2> DEFINE top == CHOOSE d \in C : \A e \in DOMAIN r : e =< d
  <2>4. top \in C /\ \A e \in DOMAIN r : e =< top
    BY <2>3
  <2>5. NextId(r) = 1 + top
    BY DEF NextId, C
  <2> HIDE DEF top
  <2> QED BY <2>1, <2>4, <2>5 DEF RowsOK
<1>3. drafts \in Seq(X) /\ ToSet(drafts) = {t \in X : t.new}
  <2>1. drafts \in Seq(X) /\ ToSet(drafts) = X \cap {t \in X : t.new}
    <3> HIDE DEF X
    <3>1. plan.tasks \in Seq(X)
      BY <1>1
    <3> QED BY <3>1, SiftContents DEF X
  <2> QED BY <2>1
<1> HIDE DEF drafts
<1>4. \A id \in I : id \in Int /\ id # 0
  BY <1>1 DEF TaskRefs
<1>5. \A id : id > 0 => real(id) = id
  OBVIOUS
<1>6. ASSUME NEW id \in I, id < 0
      PROVE  /\ real(id) \in Nat /\ real(id) >= NextId(r)
             /\ \E i \in DOMAIN drafts : drafts[i].id = id /\ real(id) = NextId(r) - 1 + i
  <2> DEFINE C == {i \in DOMAIN drafts : drafts[i].id = id}
  <2>1. DOMAIN drafts = 1 .. Len(drafts) /\ Len(drafts) \in Nat
    BY <1>3
  <2>2. C # {}
    <3>1. PICK t \in X : t.id = id
      BY <1>1
    <3>2. t \in ToSet(drafts)
      BY <1>1, <1>3, <1>6, <3>1
    <3> QED BY <3>1, <3>2 DEF ToSet
  <2>3. IsFiniteSet(C) /\ C \subseteq Nat
    <3>1. IsFiniteSet(1 .. Len(drafts)) /\ C \subseteq 1 .. Len(drafts)
      BY <2>1, FS_Interval
    <3>2. C \subseteq Nat
      BY <2>1
    <3> HIDE DEF C
    <3>3. IsFiniteSet(C)
      BY <3>1, FS_Subset
    <3> QED BY <3>2, <3>3
  <2>4. \E a \in C : \A b \in C : b =< a
    <3> HIDE DEF C
    <3> QED BY <2>2, <2>3, GreatestNumber
  <2> DEFINE k == CHOOSE i \in DOMAIN drafts : drafts[i].id = id
                    /\ \A j \in DOMAIN drafts : drafts[j].id = id => j =< i
  <2>5. \E i \in DOMAIN drafts : drafts[i].id = id /\ \A j \in DOMAIN drafts : drafts[j].id = id => j =< i
    BY <2>4
  <2>6. k \in DOMAIN drafts /\ drafts[k].id = id
    BY <2>5
  <2>7. ~(id > 0)
    BY <1>4, <1>6
  <2>8. real(id) = NextId(r) - 1 + k
    BY <2>7
  <2> HIDE DEF k, real
  <2> QED BY <1>2, <2>1, <2>6, <2>8
<1> HIDE DEF real
<1>7. \A id \in I : real(id) \in Nat \ {0} /\ (id < 0 => real(id) \notin DOMAIN r) /\ (id > 0 => id \in DOMAIN r)
  <2> SUFFICES ASSUME NEW id \in I
               PROVE  real(id) \in Nat \ {0} /\ (id < 0 => real(id) \notin DOMAIN r) /\ (id > 0 => id \in DOMAIN r)
    OBVIOUS
  <2>1. id > 0 => id \in DOMAIN r
    BY <1>1
  <2>2. CASE id > 0
    BY <1>4, <1>5, <2>1, <2>2
  <2>3. CASE id < 0
    <3>1. real(id) \in Nat /\ real(id) >= NextId(r)
      BY <1>6, <2>3
    <3>2. real(id) \notin DOMAIN r
      BY <1>2, <3>1
    <3> QED BY <1>2, <2>1, <2>3, <3>1, <3>2
  <2> QED BY <1>4, <2>2, <2>3
<1>8. n = [id \in ids \cup gone |->
             IF id \in gone THEN [r[id] EXCEPT !.state = "superseded"]
             ELSE [state |-> plan.tasks[source(id)].state, tried |-> plan.tasks[source(id)].tried,
                   pos |-> source(id) - 1, deps |-> {real(d) : d \in plan.tasks[source(id)].deps}]]
  BY DEF ApplyResolved, real, drafts
<1>9. ASSUME NEW id \in ids
      PROVE  /\ source(id) \in DOMAIN plan.tasks /\ real(plan.tasks[source(id)].id) = id
             /\ plan.tasks[source(id)] \in X /\ source(id) - 1 \in Nat
  <2>1. \E i \in DOMAIN plan.tasks : real(plan.tasks[i].id) = id
    BY DEF Ids
  <2>2. source(id) \in DOMAIN plan.tasks /\ real(plan.tasks[source(id)].id) = id
    BY <2>1
  <2>3. DOMAIN plan.tasks = 1 .. Len(plan.tasks) /\ Len(plan.tasks) \in Nat
    BY <1>1
  <2> HIDE DEF source
  <2> QED BY <2>2, <2>3 DEF ToSet
<1> HIDE DEF X, n, source
<1>10. DOMAIN n = ids \cup gone
  BY <1>8
<1>11. ids \subseteq Nat \ {0} /\ gone \subseteq Nat \ {0}
  BY <1>1, <1>7 DEF RowsOK
<1>12. IsFiniteSet(ids \cup gone)
  <2>1. IsFiniteSet(I)
    <3>1. IsFiniteSet(X)
      BY <1>1, ContentsFinite DEF X
    <3> DEFINE f == [x \in X |-> x.id]
    <3>2. f \in Surjection(X, I)
      BY <1>1 DEF Surjection
    <3> HIDE DEF f
    <3> QED BY <3>1, <3>2, FS_Surjection
  <2> DEFINE g == [d \in I |-> real(d)]
  <2>2. g \in Surjection(I, ids)
    BY DEF Surjection
  <2> HIDE DEF g, ids, I
  <2>3. IsFiniteSet(ids)
    BY <2>1, <2>2, FS_Surjection
  <2>4. IsFiniteSet(gone)
    BY <1>1, FS_Subset DEF RowsOK
  <2> QED BY <2>3, <2>4, FS_Union
<1>13. \A d \in I \cup gone : real(d) \in ids \cup gone /\ (d \in gone => real(d) = d)
  <2> SUFFICES ASSUME NEW d \in I \cup gone PROVE real(d) \in ids \cup gone /\ (d \in gone => real(d) = d)
    OBVIOUS
  <2>1. d \in gone => d > 0
    BY <1>11
  <2> QED BY <1>5, <2>1
<1>14. ASSUME NEW id \in ids, id \notin gone
       PROVE  /\ n[id] = [state |-> plan.tasks[source(id)].state, tried |-> plan.tasks[source(id)].tried,
                          pos |-> source(id) - 1, deps |-> {real(d) : d \in plan.tasks[source(id)].deps}]
              /\ RowShape(n[id]) /\ n[id].tried \in BOOLEAN /\ n[id].pos \in Nat
              /\ n[id].deps \subseteq ids \cup gone
  <2>1. n[id] = [state |-> plan.tasks[source(id)].state, tried |-> plan.tasks[source(id)].tried,
                 pos |-> source(id) - 1, deps |-> {real(d) : d \in plan.tasks[source(id)].deps}]
    BY <1>8, <1>14
  <2>2. plan.tasks[source(id)] \in X /\ source(id) - 1 \in Nat
    BY <1>9
  <2>3. plan.tasks[source(id)].deps \subseteq I \cup gone /\ plan.tasks[source(id)].tried \in BOOLEAN
    BY <1>1, <2>2
  <2>4. {real(d) : d \in plan.tasks[source(id)].deps} \subseteq ids \cup gone
    <3> HIDE DEF ids, I
    <3> QED BY <1>13, <2>3
  <2> HIDE DEF ids
  <2> QED BY <2>1, <2>2, <2>3, <2>4 DEF RowShape
<1>15. ASSUME NEW id \in gone
       PROVE  /\ RowShape(n[id]) /\ n[id].tried \in BOOLEAN /\ n[id].pos \in Nat
              /\ n[id].deps \subseteq ids \cup gone
  <2>1. n[id] = [r[id] EXCEPT !.state = "superseded"]
    BY <1>8
  <2>2. id \in DOMAIN r /\ RowShape(r[id]) /\ r[id].tried \in BOOLEAN /\ r[id].pos \in Nat
        /\ r[id].deps \subseteq I \cup gone /\ r[id].deps \subseteq Nat \ {0}
    BY <1>1 DEF RowsOK
  <2>3. \A d \in r[id].deps : real(d) = d /\ real(d) \in ids \cup gone
    <3> HIDE DEF ids, I
    <3>1. \A d \in r[id].deps : d > 0 /\ d \in I \cup gone
      BY <2>2
    <3> QED BY <1>5, <1>13, <3>1
  <2>4. r[id].deps \subseteq ids \cup gone
    <3> HIDE DEF ids
    <3> QED BY <2>3
  <2> HIDE DEF ids
  <2>5. /\ n[id].state = "superseded" /\ n[id].tried = r[id].tried
        /\ n[id].pos = r[id].pos /\ n[id].deps = r[id].deps /\ RowShape(n[id])
    BY <2>1, <2>2 DEF RowShape
  <2> QED BY <2>2, <2>4, <2>5
<1>16. RowsOK(n)
  <2>1. \A id \in DOMAIN n : /\ RowShape(n[id]) /\ n[id].tried \in BOOLEAN /\ n[id].pos \in Nat
                             /\ n[id].deps \subseteq DOMAIN n
    BY <1>10, <1>14, <1>15
  <2>2. n = [id \in DOMAIN n |-> n[id]]
    BY <1>8
  <2> HIDE DEF ids
  <2> QED BY <1>10, <1>11, <1>12, <2>1, <2>2 DEF RowsOK
<1>17. ASSUME NEW id \in DOMAIN r, IsImmutable(r[id])
       PROVE  id \in DOMAIN n /\ [n[id] EXCEPT !.pos = 0] = [r[id] EXCEPT !.pos = 0]
  <2>1. Loaded(r, id) \in X /\ Loaded(r, id).id = id /\ id \notin gone /\ id \in Nat /\ id > 0
    BY <1>1, <1>17 DEF Loaded, RowsOK
  <2>2. id \in I
    BY <1>1, <2>1
  <2>3. id \in ids
    BY <1>5, <2>1, <2>2
  <2> DEFINE t == plan.tasks[source(id)]
  <2>4. t \in X /\ real(t.id) = id
    BY <1>9, <2>3
  <2>5. n[id] = [state |-> t.state, tried |-> t.tried, pos |-> source(id) - 1, deps |-> {real(d) : d \in t.deps}]
    BY <1>14, <2>1, <2>3
  <2> HIDE DEF t, ids
  <2>6. t.id \in I
    BY <1>1, <2>4
  <2>7. ~(t.id < 0)
    BY <1>7, <2>4, <2>6
  <2>8. t.id > 0 /\ t.id = id
    BY <1>4, <1>5, <2>4, <2>6, <2>7
  <2>9. t = Loaded(r, id)
    BY <1>1, <2>1, <2>4, <2>8
  <2>10. t.state = r[id].state /\ t.tried = r[id].tried /\ t.deps = r[id].deps
    BY <2>9 DEF Loaded
  <2>11. {real(d) : d \in r[id].deps} = r[id].deps
    <3>1. \A d \in r[id].deps : d > 0
      BY DEF RowsOK
    <3>2. \A d \in r[id].deps : real(d) = d
      BY <1>5, <3>1
    <3> QED BY <3>2
  <2>12. n[id] = [state |-> r[id].state, tried |-> r[id].tried, pos |-> source(id) - 1, deps |-> r[id].deps]
    BY <2>5, <2>10, <2>11
  <2>13. RowShape(r[id])
    BY DEF RowsOK
  <2>14. [n[id] EXCEPT !.pos = 0] = [state |-> r[id].state, tried |-> r[id].tried, pos |-> 0, deps |-> r[id].deps]
    BY <2>12
  <2>15. [r[id] EXCEPT !.pos = 0] = [state |-> r[id].state, tried |-> r[id].tried, pos |-> 0, deps |-> r[id].deps]
    BY <2>13 DEF RowShape
  <2>16. id \in DOMAIN n
    BY <1>10, <2>3
  <2> QED BY <2>14, <2>15, <2>16
<1>18. \A a, b \in I : real(a) = real(b) => a = b
  <2> SUFFICES ASSUME NEW a \in I, NEW b \in I, real(a) = real(b) PROVE a = b
    OBVIOUS
  <2>1. CASE a > 0 /\ b > 0
    BY <1>5, <2>1
  <2>2. CASE a < 0 /\ b < 0
    <3>1. PICK i \in DOMAIN drafts : drafts[i].id = a /\ real(a) = NextId(r) - 1 + i
      BY <1>6, <2>2
    <3>2. PICK j \in DOMAIN drafts : drafts[j].id = b /\ real(b) = NextId(r) - 1 + j
      BY <1>6, <2>2
    <3>3. DOMAIN drafts \subseteq Nat
      BY <1>3
    <3>4. NextId(r) - 1 + i = NextId(r) - 1 + j /\ i \in Nat /\ j \in Nat /\ NextId(r) \in Nat
      BY <1>2, <3>1, <3>2, <3>3
    <3>5. i = j
      BY ONLY <3>4
    <3> QED BY <3>1, <3>2, <3>5
  <2>3. CASE a > 0 /\ b < 0
    BY <1>5, <1>7, <2>3
  <2>4. CASE a < 0 /\ b > 0
    BY <1>5, <1>7, <2>4
  <2> QED BY <1>4, <2>1, <2>2, <2>3, <2>4
<1> DEFINE known == I \cup gone
           f == [d \in known |-> real(d)]
<1>19. \A d \in known : f[d] = real(d) /\ (d \in gone => real(d) = d /\ d > 0)
  BY <1>11, <1>13
<1>20. \A d \in known \ gone : d \in I /\ real(d) \in ids /\ real(d) \notin gone
  <2> SUFFICES ASSUME NEW d \in I, d \notin gone PROVE real(d) \in ids /\ real(d) \notin gone
    OBVIOUS
  <2>1. CASE d > 0
    BY <1>5, <2>1
  <2>2. CASE d < 0
    BY <1>1, <1>7, <2>2
  <2> QED BY <1>4, <2>1, <2>2
<1>21. f \in [known -> DOMAIN n]
  <2>1. \A d \in known : real(d) \in DOMAIN n
    BY <1>10, <1>13
  <2> QED BY <2>1
<1> HIDE DEF f
<1>22. \A a, b \in known : f[a] = f[b] => a = b
  <2> SUFFICES ASSUME NEW a \in known, NEW b \in known, real(a) = real(b) PROVE a = b
    BY <1>19
  <2>1. a \in gone <=> real(a) \in gone
    <3>1. CASE a \in gone
      BY <1>19, <3>1
    <3>2. CASE a \notin gone
      BY <1>20, <3>2
    <3> QED BY <3>1, <3>2
  <2>2. b \in gone <=> real(b) \in gone
    <3>1. CASE b \in gone
      BY <1>19, <3>1
    <3>2. CASE b \notin gone
      BY <1>20, <3>2
    <3> QED BY <3>1, <3>2
  <2>3. CASE a \in gone /\ b \in gone
    BY <1>19, <2>3
  <2>4. CASE a \in I /\ b \in I
    BY <1>18, <2>4
  <2> QED BY <2>1, <2>2, <2>3, <2>4
<1>23. \A id \in DOMAIN n : \E d \in known : f[d] = id
  <2> SUFFICES ASSUME NEW id \in ids \cup gone PROVE \E d \in known : real(d) = id
    BY <1>10, <1>19
  <2>1. CASE id \in gone
    BY <1>19, <2>1
  <2>2. CASE id \in ids
    BY <2>2
  <2> QED BY <2>1, <2>2
<1> HIDE DEF I
<1>24. ASSUME NEW c \in gone
       PROVE  n[f[c]].state = "superseded" /\ n[f[c]].tried = r[c].tried /\ n[f[c]].deps = {f[e] : e \in r[c].deps}
  <2>1. f[c] = c /\ c \in ids \cup gone
    BY <1>19
  <2>2. n[c] = [r[c] EXCEPT !.state = "superseded"]
    BY <1>8, <2>1
  <2>3. RowShape(r[c]) /\ r[c].deps \subseteq known /\ \A e \in r[c].deps : e > 0
    BY <1>1 DEF RowsOK
  <2>4. n[c] = [state |-> "superseded", tried |-> r[c].tried, pos |-> r[c].pos, deps |-> r[c].deps]
    BY <2>2, <2>3 DEF RowShape
  <2>5. \A e \in r[c].deps : f[e] = e
    BY <1>5, <1>19, <2>3
  <2>6. {f[e] : e \in r[c].deps} = r[c].deps
    BY <2>5
  <2> QED BY <2>1, <2>4, <2>6
<1>25. ASSUME NEW d \in known \ gone
       PROVE  \E t \in X : /\ t.id = d /\ n[f[d]].state = t.state /\ n[f[d]].tried = t.tried
                           /\ n[f[d]].deps = {f[e] : e \in t.deps}
  <2> DEFINE id == f[d]
             t == plan.tasks[source(id)]
  <2>1. id = real(d) /\ id \in ids /\ id \notin gone /\ d \in I
    BY <1>19, <1>20
  <2> HIDE DEF id
  <2>2. t \in X /\ real(t.id) = id
    BY <1>9, <2>1
  <2>3. t.id \in I /\ t.deps \subseteq known
    BY <1>1, <2>2
  <2>4. t.id = d
    BY <1>18, <2>1, <2>2, <2>3
  <2>5. n[id] = [state |-> t.state, tried |-> t.tried, pos |-> source(id) - 1, deps |-> {real(e) : e \in t.deps}]
    BY <1>14, <2>1
  <2> HIDE DEF t
  <2>6. {real(e) : e \in t.deps} = {f[e] : e \in t.deps}
    BY <1>19, <2>3
  <2>7. n[id].state = t.state /\ n[id].tried = t.tried /\ n[id].deps = {f[e] : e \in t.deps}
    BY <2>5, <2>6
  <2> QED BY <2>2, <2>4, <2>7 DEF id
<1>26. Placed(r, plan, n)
  BY <1>21, <1>22, <1>23, <1>24, <1>25 DEF Placed, known, X, I
<1> QED BY <1>16, <1>17, <1>26 DEF n

-----------------------------------------------------------------------------
(* What an editor saw is at most as new as the plan, and when it is as new *)
(* it is the plan's graph: an attempt changes no dependency.               *)
SeenOK(e) ==
  /\ seen[e] = [revision |-> seen[e].revision, graph |-> seen[e].graph]
  /\ seen[e].revision \in Nat /\ seen[e].revision =< revision
  /\ seen[e].revision = revision => seen[e].graph = PlanGraph(rows)
PlanInv ==
  /\ RowsOK(rows) /\ revision \in Nat
  /\ seen = [e \in Editors |-> seen[e]] /\ \A e \in Editors : SeenOK(e)
  /\ history \in Seq(SUBSET Nat) /\ RevisionsRecorded

(* A change of the rows that leaves ids and dependencies, places and all.  *)
SameGraph(r, n) ==
  /\ n = [id \in DOMAIN r |-> n[id]]
  /\ \A id \in DOMAIN r : /\ RowShape(n[id]) /\ n[id].tried \in BOOLEAN
                          /\ n[id].pos = r[id].pos /\ n[id].deps = r[id].deps
LEMMA GraphStays ==
  ASSUME PlanInv, SameGraph(rows, rows'), UNCHANGED <<revision, seen, history>>
  PROVE  PlanInv'
<1>1. DOMAIN rows' = DOMAIN rows
  BY DEF SameGraph
<1>2. RowsOK(rows')
  BY <1>1 DEF PlanInv, RowsOK, SameGraph
<1>3. PlanGraph(rows') = PlanGraph(rows)
  BY <1>1 DEF PlanGraph, SameGraph
<1>4. \A e \in Editors : SeenOK(e)'
  BY <1>3 DEF PlanInv, SeenOK
<1>5. RevisionsRecorded'
  BY <1>1 DEF PlanInv, RevisionsRecorded
<1> QED BY <1>2, <1>4, <1>5 DEF PlanInv

LEMMA AttemptStarts ==
  ASSUME PlanInv, NEW id \in DOMAIN rows, StartAttempt(id)
  PROVE  PlanInv'
<1>1. RowsOK(rows) /\ rows' = [rows EXCEPT ![id].state = "running", ![id].tried = TRUE]
      /\ UNCHANGED <<revision, seen, history>>
  BY DEF PlanInv, StartAttempt
<1>2. /\ rows' = [d \in DOMAIN rows |-> rows'[d]]
      /\ \A d \in DOMAIN rows : rows'[d] = IF d = id THEN [rows[d] EXCEPT !.state = "running", !.tried = TRUE]
                                                     ELSE rows[d]
  BY <1>1 DEF RowsOK
<1>3. \A d \in DOMAIN rows : /\ RowShape(rows'[d]) /\ rows'[d].tried \in BOOLEAN
                             /\ rows'[d].pos = rows[d].pos /\ rows'[d].deps = rows[d].deps
  <2> SUFFICES ASSUME NEW d \in DOMAIN rows
               PROVE  /\ RowShape(rows'[d]) /\ rows'[d].tried \in BOOLEAN
                      /\ rows'[d].pos = rows[d].pos /\ rows'[d].deps = rows[d].deps
    OBVIOUS
  <2>1. RowShape(rows[d]) /\ rows[d].tried \in BOOLEAN
    BY <1>1 DEF RowsOK
  <2>2. CASE d = id
    <3>1. rows'[d] = [rows[d] EXCEPT !.state = "running", !.tried = TRUE]
      BY <1>2, <2>2
    <3>2. rows'[d] = [state |-> "running", tried |-> TRUE, pos |-> rows[d].pos, deps |-> rows[d].deps]
      BY <2>1, <3>1 DEF RowShape
    <3> QED BY <3>2 DEF RowShape
  <2>3. CASE d # id
    BY <1>2, <2>1, <2>3
  <2> QED BY <2>2, <2>3
<1>4. SameGraph(rows, rows')
  BY <1>2, <1>3 DEF SameGraph
<1> QED BY <1>1, <1>4, GraphStays

LEMMA AttemptEnds ==
  ASSUME PlanInv, NEW id \in DOMAIN rows, NEW s, EndAttempt(id, s)
  PROVE  PlanInv'
<1> DEFINE ended == [rows EXCEPT ![id].state = s]
           state == StatesAfter(ended)
<1>1. RowsOK(rows) /\ rows' = AfterEnd(ended) /\ UNCHANGED <<revision, seen, history>>
  BY DEF PlanInv, EndAttempt
<1>2. rows' = [d \in DOMAIN ended |-> [ended[d] EXCEPT !.state = state[d]]]
  BY <1>1 DEF AfterEnd
<1> HIDE DEF state
<1>3. DOMAIN ended = DOMAIN rows /\ \A d \in DOMAIN rows :
        ended[d] = IF d = id THEN [rows[d] EXCEPT !.state = s] ELSE rows[d]
  BY <1>1 DEF RowsOK
<1> HIDE DEF ended
<1>4. rows' = [d \in DOMAIN rows |-> rows'[d]]
  BY <1>2, <1>3
<1>5. \A d \in DOMAIN rows : /\ RowShape(rows'[d]) /\ rows'[d].tried \in BOOLEAN
                             /\ rows'[d].pos = rows[d].pos /\ rows'[d].deps = rows[d].deps
  <2> SUFFICES ASSUME NEW d \in DOMAIN rows
               PROVE  /\ RowShape(rows'[d]) /\ rows'[d].tried \in BOOLEAN
                      /\ rows'[d].pos = rows[d].pos /\ rows'[d].deps = rows[d].deps
    OBVIOUS
  <2>1. RowShape(rows[d]) /\ rows[d].tried \in BOOLEAN
    BY <1>1 DEF RowsOK
  <2>2. rows'[d] = [ended[d] EXCEPT !.state = state[d]]
    BY <1>2, <1>3
  <2>3. RowShape(ended[d]) /\ ended[d].tried = rows[d].tried /\ ended[d].pos = rows[d].pos
        /\ ended[d].deps = rows[d].deps
    <3>1. CASE d = id
      <4>1. ended[d] = [rows[d] EXCEPT !.state = s]
        BY <1>3, <3>1
      <4>2. ended[d] = [state |-> s, tried |-> rows[d].tried, pos |-> rows[d].pos, deps |-> rows[d].deps]
        BY <2>1, <4>1 DEF RowShape
      <4> QED BY <4>2 DEF RowShape
    <3>2. CASE d # id
      BY <1>3, <2>1, <3>2
    <3> QED BY <3>1, <3>2
  <2>4. rows'[d] = [state |-> state[d], tried |-> ended[d].tried, pos |-> ended[d].pos, deps |-> ended[d].deps]
    BY <2>2, <2>3 DEF RowShape
  <2> QED BY <2>1, <2>3, <2>4 DEF RowShape
<1>6. SameGraph(rows, rows')
  BY <1>4, <1>5 DEF SameGraph
<1> QED BY <1>1, <1>6, GraphStays

LEMMA EditorOpens ==
  ASSUME PlanInv, NEW e \in Editors, OpenEditor(e)
  PROVE  PlanInv'
<1>1. seen' = [seen EXCEPT ![e] = [revision |-> revision, graph |-> PlanGraph(rows)]]
      /\ UNCHANGED <<rows, revision, history>>
  BY DEF OpenEditor
<1>2. seen' = [a \in Editors |-> seen'[a]] /\ \A a \in Editors :
        seen'[a] = IF a = e THEN [revision |-> revision, graph |-> PlanGraph(rows)] ELSE seen[a]
  <2>1. seen = [a \in Editors |-> seen[a]]
    BY DEF PlanInv
  <2> QED BY <1>1, <2>1
<1>3. \A a \in Editors : SeenOK(a)'
  <2> SUFFICES ASSUME NEW a \in Editors PROVE SeenOK(a)'
    OBVIOUS
  <2>1. CASE a = e
    <3>1. seen'[a] = [revision |-> revision, graph |-> PlanGraph(rows)] /\ revision \in Nat
      BY <1>2, <2>1 DEF PlanInv
    <3> QED BY <1>1, <3>1 DEF SeenOK
  <2>2. CASE a # e
    BY <1>1, <1>2, <2>2 DEF PlanInv, SeenOK
  <2> QED BY <2>1, <2>2
<1> QED BY <1>1, <1>2, <1>3 DEF PlanInv, RevisionsRecorded

(* A write of a plan that owes nothing.                                    *)
LEMMA PlanWritten ==
  ASSUME PlanInv, NEW e \in Editors, NEW plan, plan.result = "applied" => PlanOK(rows, plan),
         Write(e, plan), UNCHANGED seen
  PROVE  PlanInv' /\ EditIsSafe
<1>1. CASE UNCHANGED <<rows, revision, history>>
  <2>1. PlanInv'
    BY <1>1 DEF PlanInv, SeenOK, RevisionsRecorded
  <2>2. EditIsSafe
    BY <1>1 DEF EditIsSafe
  <2> QED BY <2>1, <2>2
<1>2. CASE ~UNCHANGED <<rows, revision, history>>
  <2>1. /\ seen[e].revision = revision /\ plan.result = "applied" /\ rows' = ApplyResolved(rows, plan)
        /\ revision' = revision + 1 /\ history' = Append(history, DOMAIN rows')
    BY <1>2 DEF Write
  <2>2. RowsOK(rows) /\ PlanOK(rows, plan) /\ revision \in Nat
    BY <2>1 DEF PlanInv
  <2>3. /\ RowsOK(rows')
        /\ \A id \in DOMAIN rows : IsImmutable(rows[id]) =>
             id \in DOMAIN rows' /\ [rows'[id] EXCEPT !.pos = 0] = [rows[id] EXCEPT !.pos = 0]
    BY <2>1, <2>2, PlanApplied
  <2>4. seen[e] = [revision |-> revision, graph |-> PlanGraph(rows)]
    BY <2>1 DEF PlanInv, SeenOK
  <2>5. EditIsSafe
    BY <2>3, <2>4 DEF EditIsSafe
  <2>6. \A a \in Editors : SeenOK(a)'
    BY <2>1, <2>2 DEF PlanInv, SeenOK
  <2>7. DOMAIN rows' \in SUBSET Nat
    BY <2>3 DEF RowsOK
  <2>8. history' \in Seq(SUBSET Nat) /\ Len(history') = revision' /\ history'[revision'] = DOMAIN rows'
    BY <2>1, <2>2, <2>7 DEF PlanInv, RevisionsRecorded
  <2>9. PlanInv'
    BY <2>1, <2>2, <2>3, <2>6, <2>8 DEF PlanInv, RevisionsRecorded
  <2> QED BY <2>5, <2>9
<1> QED BY <1>1, <1>2

LEMMA PlanSteps ==
  ASSUME PlanInv, [PlanNext]_PlanVars
  PROVE  PlanInv' /\ EditIsSafe
<1>1. CASE UNCHANGED PlanVars
  BY <1>1 DEF PlanVars, PlanInv, SeenOK, RevisionsRecorded, EditIsSafe
<1>2. ASSUME NEW e \in Editors, OpenEditor(e) PROVE PlanInv' /\ EditIsSafe
  BY <1>2, EditorOpens DEF OpenEditor, EditIsSafe
<1>3. ASSUME NEW e \in Editors, NEW patch \in Patches, ApplyPatch(e, patch) PROVE PlanInv' /\ EditIsSafe
  <2>1. patch \in Seq(Mutations) /\ RowsOK(rows)
    BY EditConstants DEF PlanInv
  <2>2. ResolvePatch(rows, patch).result = "applied" => PlanOK(rows, ResolvePatch(rows, patch))
    BY <2>1, PatchResolved
  <2> QED BY <1>3, <2>2, PlanWritten DEF ApplyPatch
<1>4. ASSUME NEW e \in Editors, NEW request \in Replans, ApplyReplan(e, request) PROVE PlanInv' /\ EditIsSafe
  <2>1. request.tasks \in Seq(NewTasks) /\ RowsOK(rows)
    BY EditConstants DEF PlanInv
  <2>2. ResolveReplan(rows, request).result = "applied" => PlanOK(rows, ResolveReplan(rows, request))
    BY <2>1, ReplanResolved
  <2> QED BY <1>4, <2>2, PlanWritten DEF ApplyReplan
<1>5. ASSUME NEW id \in DOMAIN rows, StartAttempt(id) PROVE PlanInv' /\ EditIsSafe
  BY <1>5, AttemptStarts DEF StartAttempt, EditIsSafe
<1>6. ASSUME NEW id \in DOMAIN rows, NEW s \in {"completed", "failed"}, EndAttempt(id, s)
      PROVE  PlanInv' /\ EditIsSafe
  BY <1>6, AttemptEnds DEF EndAttempt, EditIsSafe
<1> QED BY <1>1, <1>2, <1>3, <1>4, <1>5, <1>6 DEF PlanNext

LEMMA PlanStarts == PlanInit => PlanInv
<1> SUFFICES ASSUME PlanInit PROVE PlanInv
  OBVIOUS
<1>1. /\ rows = [id \in 1 .. 2 |-> [state |-> IF id = 1 THEN "ready" ELSE "pending", tried |-> FALSE,
                                    pos |-> id - 1, deps |-> IF id = 1 THEN {} ELSE {1}]]
      /\ DOMAIN rows = 1 .. 2
  BY DEF PlanInit
<1>2. \A id \in 1 .. 2 : /\ RowShape(rows[id]) /\ rows[id].tried \in BOOLEAN /\ rows[id].pos \in Nat
                         /\ rows[id].deps \subseteq 1 .. 2
  <2> SUFFICES ASSUME NEW id \in 1 .. 2
               PROVE  /\ RowShape(rows[id]) /\ rows[id].tried \in BOOLEAN /\ rows[id].pos \in Nat
                      /\ rows[id].deps \subseteq 1 .. 2
    OBVIOUS
  <2>1. rows[id] = [state |-> IF id = 1 THEN "ready" ELSE "pending", tried |-> FALSE,
                    pos |-> id - 1, deps |-> IF id = 1 THEN {} ELSE {1}]
    BY <1>1
  <2>2. id - 1 \in Nat /\ 1 \in 1 .. 2
    OBVIOUS
  <2> QED BY <2>1, <2>2 DEF RowShape
<1>3. RowsOK(rows)
  <2>1. IsFiniteSet(1 .. 2) /\ 1 .. 2 \subseteq Nat \ {0}
    <3>1. 1 \in Int /\ 2 \in Int
      OBVIOUS
    <3>2. IsFiniteSet(1 .. 2)
      BY ONLY <3>1, FS_Interval
    <3> QED BY <3>2
  <2>2. rows = [id \in DOMAIN rows |-> rows[id]]
    BY <1>1
  <2>3. \A id \in DOMAIN rows : /\ RowShape(rows[id]) /\ rows[id].tried \in BOOLEAN /\ rows[id].pos \in Nat
                                 /\ rows[id].deps \subseteq DOMAIN rows
    BY <1>1, <1>2
  <2>4. IsFiniteSet(DOMAIN rows) /\ DOMAIN rows \subseteq Nat \ {0}
    BY <1>1, <2>1
  <2> QED BY <2>2, <2>3, <2>4 DEF RowsOK
<1>4. revision = 1 /\ seen = [e \in Editors |-> [revision |-> 1, graph |-> PlanGraph(rows)]]
      /\ history = <<DOMAIN rows>>
  BY DEF PlanInit
<1>5. \A e \in Editors : SeenOK(e)
  BY <1>4 DEF SeenOK
<1>6. history \in Seq(SUBSET Nat) /\ RevisionsRecorded
  BY <1>1, <1>4 DEF RevisionsRecorded
<1>7. seen = [e \in Editors |-> seen[e]]
  BY <1>4
<1> QED BY <1>3, <1>4, <1>5, <1>6, <1>7 DEF PlanInv

(* An edit is applied to the very graph that its editor saw, and leaves    *)
(* every task that has started or ended as it was, but for its place.      *)
THEOREM EditsSafeHolds == PlanSpec => EditsAreSafe
<1>1. PlanInv /\ [PlanNext]_PlanVars => PlanInv' /\ [EditIsSafe]_PlanVars
  BY PlanSteps
<1> QED BY <1>1, PlanStarts, PTL DEF PlanSpec, EditsAreSafe

(* Whatever edits, replans and attempts, the dependencies of the stored    *)
(* tasks are stored tasks, and each revision is recorded with its tasks.   *)
GraphClosed == \A id \in DOMAIN rows : rows[id].deps \subseteq DOMAIN rows
THEOREM PlanStored == PlanSpec => [](GraphClosed /\ RevisionsRecorded)
<1>1. PlanInv /\ [PlanNext]_PlanVars => PlanInv'
  BY PlanSteps
<1>2. PlanInv => GraphClosed /\ RevisionsRecorded
  BY DEF PlanInv, RowsOK, GraphClosed
<1> QED BY <1>1, <1>2, PlanStarts, PTL DEF PlanSpec

-----------------------------------------------------------------------------
(* The search for cycles decides: for any list of tasks it finds a cycle   *)
(* exactly when some of them each depend on another of them.  First, what  *)
(* one step of it does to the stack and to the marks.                      *)
LEMMA LengthOfSetToSeq ==
  ASSUME NEW S, IsFiniteSet(S)
  PROVE  Len(SetToSeq(S)) = Cardinality(S)
<1> DEFINE n == Cardinality(S)
<1>1. n \in Nat /\ ExistsBijection(1 .. n, S)
  BY FS_CardinalityType
<1>2. \E f \in [1 .. n -> S] : IsInjective(f)
  BY <1>1 DEF ExistsBijection, Bijection, Injection
<1>3. SetToSeq(S) \in [1 .. n -> S]
  BY <1>2 DEF SetToSeq
<1> QED BY <1>1, <1>3

Items(I) == I \X BOOLEAN
Entering(I) == I \X {FALSE}
Leaving(I) == I \X {TRUE}
Searches(I) == [stack : Seq(Items(I)), mark : [I -> 0 .. 2], next : Nat, cyclic : BOOLEAN]
Linked(I, D) == IsFiniteSet(I) /\ D \in [I -> SUBSET I]

(* What exploring the top of the stack comes to.                           *)
Fresh(D, c, id) == {d \in D[id] : d = id \/ c.mark[d] # 2}
Pushed(c, id, f) == Append(Front(c.stack), <<id, TRUE>>) \o [i \in DOMAIN f |-> <<f[i], FALSE>>]
Explores(I, D, c, e, id) ==
  /\ e \in Searches(I) /\ e.next = c.next
  /\ Last(c.stack)[2] =>
       e.cyclic = c.cyclic /\ e.stack = Front(c.stack) /\ e.mark = [c.mark EXCEPT ![id] = 2]
  /\ ~Last(c.stack)[2] /\ c.mark[id] = 1 =>
       e.cyclic = TRUE /\ e.stack = Front(c.stack) /\ e.mark = c.mark
  /\ ~Last(c.stack)[2] /\ c.mark[id] # 1 =>
       /\ e.cyclic = c.cyclic /\ e.mark = [c.mark EXCEPT ![id] = 1]
       /\ \E f \in Seq(I) : /\ ToSet(f) = Fresh(D, c, id) /\ Len(f) = Cardinality(Fresh(D, c, id))
                            /\ e.stack = Pushed(c, id, f)

LEMMA TopOfStack ==
  ASSUME NEW I, NEW c \in Searches(I), c.stack # <<>>
  PROVE  LET n == Len(c.stack) IN
         /\ n \in Nat \ {0} /\ DOMAIN c.stack = 1 .. n
         /\ Last(c.stack) = c.stack[n]
         /\ Front(c.stack) \in Seq(Items(I)) /\ DOMAIN Front(c.stack) = 1 .. n - 1
         /\ \A i \in 1 .. n - 1 : Front(c.stack)[i] = c.stack[i]
         /\ \A i \in 1 .. n : /\ c.stack[i] \in Items(I) /\ c.stack[i][1] \in I /\ c.stack[i][2] \in BOOLEAN
                              /\ c.stack[i] = <<c.stack[i][1], c.stack[i][2]>>
<1> DEFINE s == c.stack
           n == Len(s)
<1>1. s \in Seq(Items(I)) /\ s # <<>>
  BY DEF Searches
<1>2. n \in Nat \ {0} /\ DOMAIN s = 1 .. n /\ \A i \in 1 .. n : s[i] \in Items(I)
  BY <1>1
<1>3. Last(s) = s[n]
  BY DEF Last
<1> HIDE DEF s
<1>4. Front(s) = [i \in 1 .. n - 1 |-> s[i]]
  BY <1>1, <1>2 DEF Front
<1>5. Front(s) \in Seq(Items(I)) /\ DOMAIN Front(s) = 1 .. n - 1
      /\ \A i \in 1 .. n - 1 : Front(s)[i] = s[i]
  BY <1>2, <1>4
<1>6. \A x \in Items(I) : x[1] \in I /\ x[2] \in BOOLEAN /\ x = <<x[1], x[2]>>
  BY DEF Items
<1>7. \A i \in 1 .. n : /\ s[i] \in Items(I) /\ s[i][1] \in I /\ s[i][2] \in BOOLEAN
                        /\ s[i] = <<s[i][1], s[i][2]>>
  BY <1>2, <1>6
<1> QED BY <1>2, <1>3, <1>5, <1>7 DEF s

PushedAs(I, s, id, f, p) ==
  LET n == Len(s) IN
  /\ p \in Seq(Items(I)) /\ DOMAIN p = 1 .. n + Len(f) /\ p # <<>>
  /\ \A i \in 1 .. n - 1 : p[i] = s[i]
  /\ p[n] = <<id, TRUE>>
  /\ \A i \in DOMAIN f : p[n + i] = <<f[i], FALSE>>
  /\ HowMany(p, Entering(I)) =< HowMany(Front(s), Entering(I)) + Len(f)
  /\ HowMany(p, Leaving(I)) = HowMany(Front(s), Leaving(I)) + 1
LEMMA PushedIs ==
  ASSUME NEW I, NEW c \in Searches(I), c.stack # <<>>, NEW id \in I, NEW f \in Seq(I)
  PROVE  PushedAs(I, c.stack, id, f, Pushed(c, id, f))
<1> DEFINE n == Len(c.stack)
           q == Front(c.stack)
           x == <<id, TRUE>>
           a == Append(q, x)
           b == [i \in DOMAIN f |-> <<f[i], FALSE>>]
           p == a \o b
<1>1. /\ n \in Nat \ {0} /\ q \in Seq(Items(I)) /\ DOMAIN q = 1 .. n - 1
      /\ \A i \in 1 .. n - 1 : q[i] = c.stack[i]
  BY TopOfStack
<1> HIDE DEF n, q
<1>2. x \in Items(I) /\ x \notin Entering(I) /\ x \in Leaving(I)
  BY DEF Items, Entering, Leaving
<1>3. Len(q) = n - 1
  BY <1>1
<1> HIDE DEF x
<1>4. /\ a \in Seq(Items(I)) /\ Len(a) = n /\ DOMAIN a = 1 .. n /\ a[n] = x
      /\ \A i \in 1 .. n - 1 : a[i] = q[i]
  BY <1>1, <1>2, <1>3
<1>5. DOMAIN f = 1 .. Len(f) /\ Len(f) \in Nat /\ \A i \in DOMAIN f : f[i] \in I
  OBVIOUS
<1>6. \A i \in DOMAIN f : b[i] \in Items(I) /\ b[i] \notin Leaving(I) /\ b[i] = <<f[i], FALSE>>
  BY <1>5 DEF Items, Leaving
<1>7. b \in Seq(Items(I)) /\ Len(b) = Len(f) /\ DOMAIN b = DOMAIN f
  <2>1. b = [i \in 1 .. Len(f) |-> b[i]]
    BY <1>5
  <2>2. DOMAIN b = DOMAIN f
    OBVIOUS
  <2> HIDE DEF b
  <2>3. \A i \in 1 .. Len(f) : b[i] \in Items(I)
    BY <1>5, <1>6
  <2>4. b \in [1 .. Len(f) -> Items(I)]
    BY <2>1, <2>3
  <2> QED BY <1>5, <2>2, <2>4
<1>8. HowMany(a, Entering(I)) = HowMany(q, Entering(I)) /\ HowMany(a, Leaving(I)) = HowMany(q, Leaving(I)) + 1
      /\ HowMany(q, Entering(I)) \in Nat /\ HowMany(q, Leaving(I)) \in Nat
  <2>1. HowMany(a, Entering(I)) = HowMany(q, Entering(I)) + (IF x \in Entering(I) THEN 1 ELSE 0)
    BY <1>1, <1>2, CountAppend
  <2>2. HowMany(a, Leaving(I)) = HowMany(q, Leaving(I)) + (IF x \in Leaving(I) THEN 1 ELSE 0)
    BY <1>1, <1>2, CountAppend
  <2>3. HowMany(q, Entering(I)) \in Nat /\ HowMany(q, Leaving(I)) \in Nat
    BY <1>1, PlacesFinite
  <2> QED BY <1>2, <2>1, <2>2, <2>3
<1> HIDE DEF a, b
<1>9. HowMany(p, Entering(I)) =< HowMany(a, Entering(I)) + Len(b) /\ HowMany(p, Leaving(I)) = HowMany(a, Leaving(I))
  <2>1. HowMany(p, Entering(I)) =< HowMany(a, Entering(I)) + Len(b)
    BY <1>4, <1>7, CountConcat
  <2>2. \A i \in DOMAIN b : b[i] \notin Leaving(I)
    BY <1>6, <1>7
  <2>3. HowMany(p, Leaving(I)) = HowMany(a, Leaving(I))
    BY <1>4, <1>7, <2>2, CountConcat
  <2> QED BY <2>1, <2>3
<1>10. /\ p \in Seq(Items(I)) /\ DOMAIN p = 1 .. n + Len(f) /\ p # <<>>
       /\ \A i \in 1 .. n : p[i] = a[i]
       /\ \A i \in DOMAIN f : p[n + i] = b[i]
  <2>1. p \in Seq(Items(I)) /\ Len(p) = n + Len(f) /\ DOMAIN p = 1 .. n + Len(f)
    <3>1. p \in Seq(Items(I))
      BY <1>4, <1>7
    <3>2. Len(p) = Len(a) + Len(b)
      BY <1>4, <1>7
    <3> HIDE DEF p
    <3>3. DOMAIN p = 1 .. Len(p)
      BY <3>1
    <3> QED BY <1>4, <1>7, <3>1, <3>2, <3>3
  <2>2. \A i \in 1 .. n : p[i] = a[i]
    BY <1>1, <1>4, <1>5, <1>7
  <2>3. \A i \in 1 .. Len(f) : p[n + i] = b[i]
    <3> SUFFICES ASSUME NEW i \in 1 .. Len(f) PROVE p[n + i] = b[i]
      OBVIOUS
    <3>1. n + i \in n + 1 .. n + Len(f) /\ (n + i) - n = i
      BY <1>1, <1>5
    <3> QED BY <1>4, <1>5, <1>7, <3>1
  <2> HIDE DEF p
  <2> QED BY <1>1, <1>5, <2>1, <2>2, <2>3
<1> HIDE DEF p
<1>11. p = Pushed(c, id, f)
  BY DEF p, a, b, x, q, Pushed
<1>12. \A i \in 1 .. n - 1 : p[i] = c.stack[i]
  BY <1>1, <1>4, <1>10
<1>13. p[n] = <<id, TRUE>> /\ \A i \in DOMAIN f : p[n + i] = <<f[i], FALSE>>
  <2>1. p[n] = x
    BY <1>1, <1>4, <1>10
  <2>2. \A i \in DOMAIN f : p[n + i] = b[i] /\ b[i] = <<f[i], FALSE>>
    BY <1>6, <1>10
  <2> QED BY <2>1, <2>2 DEF x
<1>14. /\ HowMany(p, Entering(I)) =< HowMany(q, Entering(I)) + Len(f)
       /\ HowMany(p, Leaving(I)) = HowMany(q, Leaving(I)) + 1
  BY <1>7, <1>8, <1>9
<1>15. PushedAs(I, c.stack, id, f, p)
  BY <1>10, <1>12, <1>13, <1>14 DEF PushedAs, n, q
<1> QED BY <1>11, <1>15

LEMMA Explored ==
  ASSUME NEW I, NEW D, Linked(I, D), NEW c \in Searches(I), c.stack # <<>>
  PROVE  /\ Explores(I, D, c, Explore(D, c), Last(c.stack)[1]) /\ Last(c.stack)[1] \in I
         /\ Last(c.stack)[2] \in BOOLEAN
<1> DEFINE id == Last(c.stack)[1]
           q == Front(c.stack)
           f == SetToSeq({d \in D[id] : d = id \/ c.mark[d] # 2})
           e == Explore(D, c)
<1>1. id \in I /\ Last(c.stack)[2] \in BOOLEAN /\ q \in Seq(Items(I))
  BY TopOfStack
<1>2. /\ c.mark \in [I -> 0 .. 2] /\ c.next \in Nat /\ c.cyclic \in BOOLEAN
      /\ c = [stack |-> c.stack, mark |-> c.mark, next |-> c.next, cyclic |-> c.cyclic]
  BY DEF Searches
<1>3. e = CASE Last(c.stack)[2] -> [c EXCEPT !.stack = q, !.mark[id] = 2]
            [] ~Last(c.stack)[2] /\ c.mark[id] = 1 -> [c EXCEPT !.stack = q, !.cyclic = TRUE]
            [] OTHER -> [c EXCEPT !.mark[id] = 1,
                                  !.stack = (q \o <<<<id, TRUE>>>>) \o [i \in DOMAIN f |-> <<f[i], FALSE>>]]
  BY DEF Explore
<1>4. f \in Seq(I) /\ ToSet(f) = Fresh(D, c, id) /\ Len(f) = Cardinality(Fresh(D, c, id))
  <2>1. f = SetToSeq(Fresh(D, c, id)) /\ Fresh(D, c, id) \subseteq I
    BY <1>1 DEF Fresh, Linked
  <2>2. IsFiniteSet(Fresh(D, c, id))
    BY <2>1, FS_Subset DEF Linked
  <2> HIDE DEF f
  <2>3. f \in Seq(Fresh(D, c, id)) /\ ToSet(f) = Fresh(D, c, id)
    BY <2>1, <2>2, ContentsOfSetToSeq
  <2>4. Len(f) = Cardinality(Fresh(D, c, id))
    BY <2>1, <2>2, LengthOfSetToSeq
  <2> QED BY <2>1, <2>3, <2>4
<1> HIDE DEF id, q, f, e
<1>5. q \o <<<<id, TRUE>>>> = Append(q, <<id, TRUE>>)
  <2> DEFINE x == <<id, TRUE>>
  <2>1. x \in Items(I)
    BY <1>1 DEF Items
  <2> HIDE DEF x
  <2>2. q \o <<x>> = Append(q, x)
    BY <1>1, <2>1
  <2> QED BY <2>2 DEF x
<1>6. Pushed(c, id, f) = (q \o <<<<id, TRUE>>>>) \o [i \in DOMAIN f |-> <<f[i], FALSE>>]
      /\ Pushed(c, id, f) \in Seq(Items(I))
  <2>1. PushedAs(I, c.stack, id, f, Pushed(c, id, f))
    BY <1>1, <1>4, PushedIs
  <2>2. Pushed(c, id, f) \in Seq(Items(I))
    BY <2>1 DEF PushedAs
  <2> QED BY <1>5, <2>2 DEF Pushed, q
<1>7. CASE Last(c.stack)[2]
  <2>1. e = [c EXCEPT !.stack = q, !.mark[id] = 2]
    BY <1>3, <1>7
  <2>2. e = [stack |-> q, mark |-> [c.mark EXCEPT ![id] = 2], next |-> c.next, cyclic |-> c.cyclic]
    BY <1>2, <2>1
  <2>3. e \in Searches(I)
    BY <1>1, <1>2, <2>2 DEF Searches
  <2> QED BY <1>1, <1>7, <2>2, <2>3 DEF Explores, e, id, q
<1>8. CASE ~Last(c.stack)[2] /\ c.mark[id] = 1
  <2>1. e = [c EXCEPT !.stack = q, !.cyclic = TRUE]
    BY <1>3, <1>8
  <2>2. e = [stack |-> q, mark |-> c.mark, next |-> c.next, cyclic |-> TRUE]
    BY <1>2, <2>1
  <2>3. e \in Searches(I)
    BY <1>1, <1>2, <2>2 DEF Searches
  <2>4. e.stack = q /\ e.mark = c.mark /\ e.next = c.next /\ e.cyclic = TRUE
    BY <2>2
  <2> QED BY <1>1, <1>8, <2>3, <2>4 DEF Explores, e, id, q
<1>9. CASE ~Last(c.stack)[2] /\ c.mark[id] # 1
  <2>1. e = [c EXCEPT !.mark[id] = 1, !.stack = Pushed(c, id, f)]
    BY <1>3, <1>6, <1>9
  <2>2. e = [stack |-> Pushed(c, id, f), mark |-> [c.mark EXCEPT ![id] = 1], next |-> c.next, cyclic |-> c.cyclic]
    BY <1>2, <2>1
  <2>3. e \in Searches(I)
    BY <1>1, <1>2, <1>6, <2>2 DEF Searches
  <2>4. e.stack = Pushed(c, id, f) /\ e.mark = [c.mark EXCEPT ![id] = 1] /\ e.next = c.next /\ e.cyclic = c.cyclic
    BY <2>2
  <2> QED BY <1>1, <1>4, <1>9, <2>3, <2>4 DEF Explores, e, id, q
<1> QED BY <1>7, <1>8, <1>9

-----------------------------------------------------------------------------
(* While no cycle is found: what is marked as being on the stack has its   *)
(* leaving there; what a task on the stack leads to is done or above it;   *)
(* and between two leavings lie dependencies of the lower one.             *)
OnStack(I, c) == \A d \in I : c.mark[d] = 1 => \E i \in DOMAIN c.stack : c.stack[i][1] = d /\ c.stack[i][2]
Awaits(D, c) ==
  \A i \in DOMAIN c.stack : c.stack[i][2] => \A d \in D[c.stack[i][1]] :
    c.mark[d] = 2 \/ \E j \in DOMAIN c.stack : i < j /\ c.stack[j][1] = d
Trail(D, c) ==
  \A i, j \in DOMAIN c.stack :
    i < j /\ c.stack[i][2] /\ (\A k \in i + 1 .. j - 1 : ~c.stack[k][2]) => c.stack[j][1] \in D[c.stack[i][1]]
(* What was left behind leads only to more of it, and in no cycle; a task  *)
(* of it that is entered again is left at once.                            *)
Behind(I, D, c, F) ==
  /\ F \subseteq I /\ \A d \in F : D[d] \subseteq F
  /\ \A S \in SUBSET F : S # {} => \E x \in S : D[x] \cap S = {}
  /\ \A d \in I : c.mark[d] = 2 => d \in F
  /\ \A d \in F : c.mark[d] = 2 \/ (c.stack # <<>> /\ Last(c.stack)[1] = d /\ Last(c.stack)[2])
Searching(I, D, c) == OnStack(I, c) /\ Awaits(D, c) /\ Trail(D, c) /\ \E F : Behind(I, D, c, F)

LEMMA TaskLeft ==
  ASSUME NEW I, NEW D, Linked(I, D), NEW c \in Searches(I), c.stack # <<>>, Searching(I, D, c),
         Last(c.stack)[2]
  PROVE  Searching(I, D, Explore(D, c))
<1> DEFINE n == Len(c.stack)
           e == Explore(D, c)
           id == Last(c.stack)[1]
<1>1. /\ n \in Nat \ {0} /\ DOMAIN c.stack = 1 .. n /\ Last(c.stack) = c.stack[n]
      /\ DOMAIN Front(c.stack) = 1 .. n - 1
      /\ \A i \in 1 .. n - 1 : Front(c.stack)[i] = c.stack[i]
      /\ \A i \in 1 .. n : c.stack[i][1] \in I
  BY TopOfStack
<1>2. id \in I /\ e \in Searches(I) /\ e.stack = Front(c.stack) /\ e.mark = [c.mark EXCEPT ![id] = 2]
  <2>1. Explores(I, D, c, e, id) /\ id \in I
    BY Explored
  <2> HIDE DEF e, id
  <2> QED BY <2>1 DEF Explores
<1> HIDE DEF e, n
<1>3. /\ DOMAIN e.stack = 1 .. n - 1 /\ \A i \in 1 .. n - 1 : e.stack[i] = c.stack[i]
      /\ c.stack[n][1] = id /\ c.stack[n][2]
  BY <1>1, <1>2
<1> HIDE DEF id
<1>4. \A d \in I : e.mark[d] = IF d = id THEN 2 ELSE c.mark[d]
  BY <1>2 DEF Searches
<1>5. D \in [I -> SUBSET I]
  BY DEF Linked
<1>6. OnStack(I, e)
  <2> SUFFICES ASSUME NEW d \in I, e.mark[d] = 1
               PROVE  \E i \in 1 .. n - 1 : e.stack[i][1] = d /\ e.stack[i][2]
    BY <1>3 DEF OnStack
  <2>1. d # id /\ c.mark[d] = 1
    BY <1>4
  <2>2. PICK i \in 1 .. n : c.stack[i][1] = d /\ c.stack[i][2]
    BY <1>1, <2>1 DEF Searching, OnStack
  <2>3. i \in 1 .. n - 1
    BY <1>1, <1>3, <2>1, <2>2
  <2> QED BY <1>3, <2>2, <2>3
<1>7. \A d \in D[id] : c.mark[d] = 2
  <2> SUFFICES ASSUME NEW d \in D[id], c.mark[d] # 2 PROVE FALSE
    OBVIOUS
  <2>1. \E j \in 1 .. n : n < j /\ c.stack[j][1] = d
    BY <1>1, <1>3 DEF Searching, Awaits
  <2> QED BY <1>1, <2>1
<1>8. Awaits(D, e)
  <2> SUFFICES ASSUME NEW i \in 1 .. n - 1, c.stack[i][2], NEW d \in D[c.stack[i][1]], e.mark[d] # 2
               PROVE  \E j \in 1 .. n - 1 : i < j /\ e.stack[j][1] = d
    BY <1>3 DEF Awaits
  <2>1. i \in 1 .. n /\ d \in I
    BY <1>1, <1>5
  <2>2. c.mark[d] # 2 /\ d # id
    BY <1>4, <2>1
  <2>3. PICK j \in 1 .. n : i < j /\ c.stack[j][1] = d
    BY <1>1, <2>1, <2>2 DEF Searching, Awaits
  <2>4. j \in 1 .. n - 1
    BY <1>1, <1>3, <2>2, <2>3
  <2> QED BY <1>3, <2>3, <2>4
<1>9. Trail(D, e)
  <2> SUFFICES ASSUME NEW i \in 1 .. n - 1, NEW j \in 1 .. n - 1, i < j, e.stack[i][2],
                      \A k \in i + 1 .. j - 1 : ~e.stack[k][2]
               PROVE  e.stack[j][1] \in D[e.stack[i][1]]
    BY <1>3 DEF Trail
  <2>1. i \in 1 .. n /\ j \in 1 .. n /\ c.stack[i][2] /\ \A k \in i + 1 .. j - 1 : k \in 1 .. n - 1
    BY <1>1, <1>3
  <2>2. \A k \in i + 1 .. j - 1 : ~c.stack[k][2]
    BY <1>3, <2>1
  <2>3. c.stack[j][1] \in D[c.stack[i][1]]
    BY <1>1, <2>1, <2>2 DEF Searching, Trail
  <2> QED BY <1>3, <2>3
<1>10. \E F : Behind(I, D, e, F)
  <2>1. PICK F : Behind(I, D, c, F)
    BY DEF Searching
  <2> DEFINE done == F \cup {id}
  <2>2. /\ F \subseteq I /\ \A d \in F : D[d] \subseteq F
        /\ \A S \in SUBSET F : S # {} => \E x \in S : D[x] \cap S = {}
        /\ \A d \in I : c.mark[d] = 2 => d \in F
        /\ \A d \in F : c.mark[d] = 2 \/ (Last(c.stack)[1] = d /\ Last(c.stack)[2])
    BY <2>1 DEF Behind
  <2>3. D[id] \subseteq F
    BY <1>2, <1>5, <1>7, <2>2
  <2>4. done \subseteq I /\ \A d \in done : D[d] \subseteq done
    BY <1>2, <2>2, <2>3
  <2>5. ASSUME NEW S \in SUBSET done, S # {} PROVE \E x \in S : D[x] \cap S = {}
    <3>1. CASE S \cap F # {}
      <4>1. PICK x \in S \cap F : D[x] \cap (S \cap F) = {}
        BY <2>2, <3>1
      <4>2. D[x] \subseteq F
        BY <2>2
      <4> QED BY <4>1, <4>2
    <3>2. CASE S \cap F = {}
      <4>1. S = {id} /\ id \notin F
        BY <2>5, <3>2
      <4> QED BY <2>3, <4>1
    <3> QED BY <3>1, <3>2
  <2>6. \A d \in I : e.mark[d] = 2 => d \in done
    BY <1>4, <2>2
  <2>7. \A d \in done : e.mark[d] = 2
    <3> SUFFICES ASSUME NEW d \in done, d # id PROVE e.mark[d] = 2
      BY <1>2, <1>4
    <3>1. c.mark[d] = 2 /\ d \in I
      BY <1>1, <1>3, <2>2
    <3> QED BY <1>4, <3>1
  <2> HIDE DEF done
  <2> QED BY <2>4, <2>5, <2>6, <2>7 DEF Behind
<1> QED BY <1>6, <1>8, <1>9, <1>10 DEF Searching, e

LEMMA TaskEntered ==
  ASSUME NEW I, NEW D, Linked(I, D), NEW c \in Searches(I), c.stack # <<>>, Searching(I, D, c),
         ~Last(c.stack)[2], c.mark[Last(c.stack)[1]] # 1
  PROVE  /\ Searching(I, D, Explore(D, c))
         /\ c.mark[Last(c.stack)[1]] = 2 => Fresh(D, c, Last(c.stack)[1]) = {}
<1> DEFINE n == Len(c.stack)
           e == Explore(D, c)
           id == Last(c.stack)[1]
<1>1. /\ n \in Nat \ {0} /\ DOMAIN c.stack = 1 .. n /\ Last(c.stack) = c.stack[n]
      /\ \A i \in 1 .. n : c.stack[i][1] \in I
  BY TopOfStack
<1>2. /\ id \in I /\ e \in Searches(I) /\ e.mark = [c.mark EXCEPT ![id] = 1]
      /\ \E f \in Seq(I) : /\ ToSet(f) = Fresh(D, c, id) /\ e.stack = Pushed(c, id, f)
  <2>1. Explores(I, D, c, e, id) /\ id \in I /\ ~Last(c.stack)[2] /\ c.mark[id] # 1
    BY Explored
  <2> HIDE DEF e, id
  <2> QED BY <2>1 DEF Explores
<1>3. PICK f \in Seq(I) : ToSet(f) = Fresh(D, c, id) /\ e.stack = Pushed(c, id, f)
  BY <1>2
<1> HIDE DEF e, n
<1>4. /\ c.stack[n][1] = id /\ ~c.stack[n][2] /\ c.mark[id] # 1
      /\ \A i \in 1 .. n : c.stack[i][1] \in I
  BY <1>1
<1> HIDE DEF id
<1> DEFINE m == n + Len(f)
<1>5. /\ DOMAIN e.stack = 1 .. m
      /\ \A i \in 1 .. n - 1 : e.stack[i] = c.stack[i]
      /\ e.stack[n] = <<id, TRUE>>
      /\ \A i \in DOMAIN f : e.stack[n + i] = <<f[i], FALSE>>
      /\ Len(f) \in Nat /\ DOMAIN f = 1 .. Len(f) /\ e.stack # <<>>
  <2>1. DOMAIN f = 1 .. Len(f) /\ Len(f) \in Nat
    OBVIOUS
  <2> DEFINE p == Pushed(c, id, f)
  <2>2. /\ p \in Seq(Items(I)) /\ DOMAIN p = 1 .. n + Len(f) /\ p # <<>>
        /\ \A i \in 1 .. n - 1 : p[i] = c.stack[i]
        /\ p[n] = <<id, TRUE>>
        /\ \A i \in DOMAIN f : p[n + i] = <<f[i], FALSE>>
    <3>1. PushedAs(I, c.stack, id, f, p)
      BY <1>2, PushedIs
    <3> HIDE DEF p
    <3> QED BY <3>1 DEF PushedAs, n
  <2> HIDE DEF p
  <2>3. e.stack = p
    BY <1>3 DEF p
  <2> QED BY <2>1, <2>2, <2>3
<1>6. \A i \in n + 1 .. m : i - n \in DOMAIN f /\ e.stack[i] = <<f[i - n], FALSE>> /\ n + (i - n) = i
  <2> SUFFICES ASSUME NEW i \in n + 1 .. m
               PROVE  i - n \in DOMAIN f /\ e.stack[i] = <<f[i - n], FALSE>> /\ n + (i - n) = i
    OBVIOUS
  <2>1. i - n \in 1 .. Len(f) /\ n + (i - n) = i
    <3> DEFINE k == Len(f)
    <3>1. n \in Int /\ k \in Int /\ i \in n + 1 .. n + k
      BY <1>1, <1>5
    <3> HIDE DEF n, k
    <3>2. i - n \in 1 .. k /\ n + (i - n) = i
      BY ONLY <3>1
    <3> QED BY <3>2 DEF k
  <2>2. e.stack[n + (i - n)] = <<f[i - n], FALSE>>
    BY <1>5, <2>1
  <2> QED BY <1>5, <2>1, <2>2
<1>7. \A d \in I : e.mark[d] = IF d = id THEN 1 ELSE c.mark[d]
  BY <1>2 DEF Searches
<1>8. D \in [I -> SUBSET I] /\ c.mark \in [I -> 0 .. 2]
  BY DEF Linked, Searches
<1>9. e.stack[n][1] = id /\ e.stack[n][2] /\ n \in 1 .. m /\ m \in Nat /\ n =< m
  BY <1>1, <1>5
<1>10. \A i \in n + 1 .. m : ~e.stack[i][2] /\ e.stack[i][1] = f[i - n]
  <2> SUFFICES ASSUME NEW i \in n + 1 .. m PROVE ~e.stack[i][2] /\ e.stack[i][1] = f[i - n]
    OBVIOUS
  <2>1. e.stack[i] = <<f[i - n], FALSE>>
    BY <1>6
  <2> QED BY <2>1
<1>11. \A d \in Fresh(D, c, id) : \E j \in n + 1 .. m : e.stack[j][1] = d
  <2> SUFFICES ASSUME NEW d \in Fresh(D, c, id) PROVE \E j \in n + 1 .. m : e.stack[j][1] = d
    OBVIOUS
  <2>1. PICK k \in DOMAIN f : f[k] = d
    BY <1>3 DEF ToSet
  <2>2. n + k \in n + 1 .. m /\ e.stack[n + k] = <<d, FALSE>>
    <3>1. k \in 1 .. Len(f) /\ e.stack[n + k] = <<f[k], FALSE>>
      BY <1>5, <2>1
    <3>2. n + k \in n + 1 .. m
      BY <1>1, <1>5, <3>1
    <3> QED BY <2>1, <3>1, <3>2
  <2>3. e.stack[n + k][1] = d
    BY <2>2
  <2> QED BY <2>2, <2>3
<1>12. \A i \in 1 .. n - 1 : i \in 1 .. n /\ i \in 1 .. m
  BY <1>1, <1>9
<1>13. \A i \in 1 .. m : i \in 1 .. n - 1 \/ i = n \/ i \in n + 1 .. m
  BY <1>1, <1>9
<1> HIDE DEF m
<1>14. OnStack(I, e)
  <2> SUFFICES ASSUME NEW d \in I, e.mark[d] = 1
               PROVE  \E i \in 1 .. m : e.stack[i][1] = d /\ e.stack[i][2]
    BY <1>5 DEF OnStack, m
  <2>1. CASE d = id
    BY <1>9, <2>1
  <2>2. CASE d # id
    <3>1. c.mark[d] = 1
      BY <1>7, <2>2
    <3>2. PICK i \in 1 .. n : c.stack[i][1] = d /\ c.stack[i][2]
      BY <1>1, <3>1 DEF Searching, OnStack
    <3>3. i \in 1 .. n - 1
      BY <1>1, <1>4, <3>2
    <3> QED BY <1>5, <1>12, <3>2, <3>3
  <2> QED BY <2>1, <2>2
<1>15. Awaits(D, e)
  <2> SUFFICES ASSUME NEW i \in 1 .. m, e.stack[i][2], NEW d \in D[e.stack[i][1]], e.mark[d] # 2
               PROVE  \E j \in 1 .. m : i < j /\ e.stack[j][1] = d
    BY <1>5 DEF Awaits, m
  <2>1. CASE i = n
    <3>1. d \in D[id] /\ d \in I
      BY <1>2, <1>8, <1>9, <2>1
    <3>2. d \in Fresh(D, c, id)
      BY <1>7, <3>1 DEF Fresh
    <3>3. PICK j \in n + 1 .. m : e.stack[j][1] = d
      BY <1>11, <3>2
    <3> QED BY <1>1, <1>9, <2>1, <3>3
  <2>2. CASE i \in 1 .. n - 1
    <3>1. c.stack[i][2] /\ d \in D[c.stack[i][1]] /\ i \in 1 .. n /\ d \in I
      BY <1>4, <1>5, <1>8, <1>12, <2>2
    <3>2. CASE d = id
      BY <1>1, <1>9, <2>2, <3>2
    <3>3. CASE d # id
      <4>1. c.mark[d] # 2
        BY <1>7, <3>1, <3>3
      <4>2. PICK j \in 1 .. n : i < j /\ c.stack[j][1] = d
        BY <1>1, <3>1, <4>1 DEF Searching, Awaits
      <4>3. j \in 1 .. n - 1
        BY <1>1, <1>4, <3>3, <4>2
      <4> QED BY <1>5, <1>12, <4>2, <4>3
    <3> QED BY <3>2, <3>3
  <2>3. CASE i \in n + 1 .. m
    BY <1>10, <2>3
  <2> QED BY <1>13, <2>1, <2>2, <2>3
<1>16. Trail(D, e)
  <2> SUFFICES ASSUME NEW i \in 1 .. m, NEW j \in 1 .. m, i < j, e.stack[i][2],
                      \A k \in i + 1 .. j - 1 : ~e.stack[k][2]
               PROVE  e.stack[j][1] \in D[e.stack[i][1]]
    BY <1>5 DEF Trail, m
  <2>0. i \notin n + 1 .. m
    BY <1>10
  <2>1. CASE j \in n + 1 .. m
    <3>1. i = n
      <4> SUFFICES ASSUME i \in 1 .. n - 1 PROVE FALSE
        BY <1>13, <2>0
      <4>1. n \in i + 1 .. j - 1
        BY <1>1, <1>9, <2>1
      <4> QED BY <1>9, <4>1
    <3>2. e.stack[j][1] = f[j - n] /\ j - n \in DOMAIN f
      BY <1>6, <1>10, <2>1
    <3>3. f[j - n] \in Fresh(D, c, id)
      BY <1>3, <3>2 DEF ToSet
    <3> QED BY <1>9, <3>1, <3>2, <3>3 DEF Fresh
  <2>2. CASE j \notin n + 1 .. m
    <3>1. i \in 1 .. n - 1 /\ j \in 1 .. n /\ i \in 1 .. n
      BY <1>1, <1>9, <1>13, <2>2
    <3>2. c.stack[i][2] /\ e.stack[i] = c.stack[i] /\ e.stack[j][1] = c.stack[j][1]
      BY <1>1, <1>4, <1>5, <1>9, <3>1
    <3>3. \A k \in i + 1 .. j - 1 : ~c.stack[k][2]
      <4> SUFFICES ASSUME NEW k \in i + 1 .. j - 1 PROVE ~c.stack[k][2]
        OBVIOUS
      <4>1. k \in 1 .. n - 1
        BY <1>1, <3>1
      <4> QED BY <1>5, <4>1
    <3>4. c.stack[j][1] \in D[c.stack[i][1]]
      BY <1>1, <3>1, <3>2, <3>3 DEF Searching, Trail
    <3> QED BY <3>2, <3>4
  <2> QED BY <2>1, <2>2
<1>17. PICK F : Behind(I, D, c, F)
  BY DEF Searching
<1>18. /\ F \subseteq I /\ \A d \in F : D[d] \subseteq F
       /\ \A S \in SUBSET F : S # {} => \E x \in S : D[x] \cap S = {}
       /\ \A d \in I : c.mark[d] = 2 => d \in F
       /\ \A d \in F : c.mark[d] = 2
  BY <1>17 DEF Behind
<1>19. Last(e.stack) = e.stack[m]
  <2>1. e.stack \in Seq(Items(I))
    BY <1>2 DEF Searches
  <2>2. Len(e.stack) = m
    BY <1>5, <1>9, <2>1 DEF m
  <2> QED BY <2>2 DEF Last
<1>20. ASSUME c.mark[id] = 2 PROVE Fresh(D, c, id) = {} /\ m = n
  <2>1. id \in F /\ D[id] \subseteq F
    BY <1>2, <1>18, <1>20
  <2>2. id \notin D[id]
    <3>1. {id} \in SUBSET F /\ {id} # {}
      BY <2>1
    <3>2. \E x \in {id} : D[x] \cap {id} = {}
      BY <1>18, <3>1
    <3> QED BY <3>2
  <2>3. Fresh(D, c, id) = {}
    BY <1>18, <2>1, <2>2 DEF Fresh
  <2>4. Len(f) = 0
    <3>1. ToSet(f) = {}
      BY <1>3, <2>3
    <3>2. f = <<>>
      BY <3>1, ContentsInSet
    <3> QED BY <3>2
  <2> QED BY <1>1, <2>3, <2>4 DEF m
<1>21. Behind(I, D, e, F)
  <2>1. \A d \in I : e.mark[d] = 2 => d \in F
    BY <1>7, <1>18
  <2>2. \A d \in F : e.mark[d] = 2 \/ (Last(e.stack)[1] = d /\ Last(e.stack)[2])
    <3> SUFFICES ASSUME NEW d \in F PROVE e.mark[d] = 2 \/ (Last(e.stack)[1] = d /\ Last(e.stack)[2])
      OBVIOUS
    <3>1. d \in I /\ c.mark[d] = 2
      BY <1>18
    <3>2. CASE d = id
      <4>1. m = n
        BY <1>20, <3>1, <3>2
      <4> QED BY <1>9, <1>19, <3>2, <4>1
    <3>3. CASE d # id
      BY <1>7, <3>1, <3>3
    <3> QED BY <3>2, <3>3
  <2> QED BY <1>5, <1>18, <2>1, <2>2 DEF Behind
<1>22. Searching(I, D, e)
  BY <1>14, <1>15, <1>16, <1>21 DEF Searching
<1> QED BY <1>20, <1>22 DEF e, id

(* A task that is to be entered while it is on the stack is in a cycle.    *)
LEMMA CycleMet ==
  ASSUME NEW I, NEW D, Linked(I, D), NEW c \in Searches(I), c.stack # <<>>, Searching(I, D, c),
         ~Last(c.stack)[2], c.mark[Last(c.stack)[1]] = 1
  PROVE  ~Rooted(D)
<1> DEFINE n == Len(c.stack)
           id == Last(c.stack)[1]
<1>1. /\ n \in Nat \ {0} /\ DOMAIN c.stack = 1 .. n
      /\ c.stack[n][1] = id /\ ~c.stack[n][2] /\ id \in I
      /\ \A i \in 1 .. n : c.stack[i][1] \in I
  BY TopOfStack
<1> HIDE DEF n
<1>2. PICK i \in 1 .. n : c.stack[i][1] = id /\ c.stack[i][2]
  BY <1>1 DEF Searching, OnStack
<1> HIDE DEF id
<1> DEFINE P == {k \in i .. n : c.stack[k][2]}
           S == {c.stack[k][1] : k \in P}
<1>3. id \in S /\ S \subseteq I
  BY <1>1, <1>2
<1>4. ASSUME NEW k \in P PROVE \E l \in k + 1 .. n : c.stack[l][1] \in D[c.stack[k][1]] /\ c.stack[l][1] \in S
  <2>1. k \in 1 .. n - 1 /\ c.stack[k][2] /\ k >= i
    BY <1>1, <1>2
  <2> DEFINE E == {l \in k + 1 .. n : c.stack[l][2] \/ l = n}
  <2>2. E \subseteq Nat /\ n \in E
    BY <1>1, <2>1
  <2>3. PICK l \in E : \A j \in E : l =< j
    <3> HIDE DEF E
    <3> QED BY <2>2, LeastNumber
  <2>4. \A j \in k + 1 .. l - 1 : ~c.stack[j][2]
    <3> SUFFICES ASSUME NEW j \in k + 1 .. l - 1, c.stack[j][2] PROVE FALSE
      OBVIOUS
    <3>1. l \in k + 1 .. n
      OBVIOUS
    <3>2. j \in k + 1 .. n /\ j < l
      BY <1>1, <2>1, <3>1
    <3>3. l =< j
      BY <2>3, <3>2
    <3> QED BY <2>1, <3>1, <3>2, <3>3
  <2>5. c.stack[l][1] \in D[c.stack[k][1]]
    <3>1. k \in DOMAIN c.stack /\ l \in DOMAIN c.stack /\ k < l
      BY <1>1, <2>1
    <3> QED BY <2>1, <2>4, <3>1 DEF Searching, Trail
  <2>6. c.stack[l][1] \in S
    <3>1. CASE l = n
      BY <1>1, <1>3, <3>1
    <3>2. CASE l # n
      <4>1. c.stack[l][2] /\ l \in k + 1 .. n
        BY <3>2
      <4>2. l \in P
        BY <1>1, <2>1, <4>1
      <4> QED BY <4>2
    <3> QED BY <3>1, <3>2
  <2> QED BY <2>5, <2>6
<1>5. \A x \in S : D[x] \cap S # {}
  <2> HIDE DEF P
  <2> SUFFICES ASSUME NEW k \in P PROVE D[c.stack[k][1]] \cap S # {}
    OBVIOUS
  <2> HIDE DEF S
  <2> QED BY <1>4
<1>6. S # {} /\ S \in SUBSET DOMAIN D
  BY <1>3 DEF Linked
<1> HIDE DEF S
<1> QED BY <1>5, <1>6 DEF Rooted

-----------------------------------------------------------------------------
(* One step of the search: what is true while it goes on stays true, and   *)
(* it comes nearer to its end.                                             *)
Reached(list, c) ==
  \A k \in 1 .. c.next - 1 :
    c.mark[list[k].id] # 0 \/ \E i \in DOMAIN c.stack : c.stack[i][1] = list[k].id /\ ~c.stack[i][2]
SearchInv(I, D, list, c) ==
  /\ c \in Searches(I) /\ c.next \in 1 .. Len(list) + 1
  /\ c.cyclic => ~Rooted(D)
  /\ ~c.cyclic => Searching(I, D, c) /\ Reached(list, c)
Ended(list, c) == c.cyclic \/ (c.stack = <<>> /\ c.next = Len(list) + 1)
Unvisited(I, c) == {d \in I : c.mark[d] = 0}
StepsLeft(I, list, c) ==
  2 * HowMany(c.stack, Entering(I)) + HowMany(c.stack, Leaving(I))
    + 2 * (Len(list) * Cardinality(Unvisited(I, c))) + 3 * (Len(list) + 1 - c.next)
Listed(I, list) ==
  \E T : list \in Seq(T) /\ IsFiniteSet(I) /\ Cardinality(I) =< Len(list) /\ \A i \in DOMAIN list : list[i].id \in I

LEMMA CountsAreNat ==
  ASSUME NEW I, IsFiniteSet(I), NEW list, Listed(I, list), NEW c \in Searches(I)
  PROVE  /\ HowMany(c.stack, Entering(I)) \in Nat /\ HowMany(c.stack, Leaving(I)) \in Nat
         /\ Len(list) * Cardinality(Unvisited(I, c)) \in Nat /\ Len(list) \in Nat
         /\ IsFiniteSet(Unvisited(I, c)) /\ Cardinality(Unvisited(I, c)) \in Nat
         /\ \A X \in SUBSET I : IsFiniteSet(X) /\ Cardinality(X) \in Nat /\ Cardinality(X) =< Len(list)
<1>1. c.stack \in Seq(Items(I))
  BY DEF Searches
<1>2. HowMany(c.stack, Entering(I)) \in Nat /\ HowMany(c.stack, Leaving(I)) \in Nat
  BY <1>1, PlacesFinite
<1>3. Unvisited(I, c) \subseteq I
  BY DEF Unvisited
<1>4. IsFiniteSet(Unvisited(I, c)) /\ Cardinality(Unvisited(I, c)) \in Nat
  BY <1>3, FS_Subset, FS_CardinalityType
<1>5. Len(list) \in Nat
  BY DEF Listed
<1>6. \A X \in SUBSET I : IsFiniteSet(X) /\ Cardinality(X) \in Nat /\ Cardinality(X) =< Len(list)
  <2> SUFFICES ASSUME NEW X \in SUBSET I
               PROVE  IsFiniteSet(X) /\ Cardinality(X) \in Nat /\ Cardinality(X) =< Len(list)
    OBVIOUS
  <2>1. IsFiniteSet(X) /\ Cardinality(X) =< Cardinality(I)
    BY FS_Subset
  <2>2. Cardinality(X) \in Nat /\ Cardinality(I) \in Nat
    BY <2>1, FS_CardinalityType
  <2> QED BY <1>5, <2>1, <2>2 DEF Listed
<1> DEFINE a == Len(list)
           b == Cardinality(Unvisited(I, c))
<1>7. a * b \in Nat
  <2>1. a \in Nat /\ b \in Nat
    BY <1>4, <1>5
  <2> HIDE DEF a, b
  <2> QED BY <2>1
<1> QED BY <1>2, <1>4, <1>5, <1>6, <1>7

LEMMA FrontCounts ==
  ASSUME NEW I, NEW c \in Searches(I), c.stack # <<>>
  PROVE  /\ HowMany(c.stack, Entering(I)) = HowMany(Front(c.stack), Entering(I)) + (IF Last(c.stack)[2] THEN 0 ELSE 1)
         /\ HowMany(c.stack, Leaving(I)) = HowMany(Front(c.stack), Leaving(I)) + (IF Last(c.stack)[2] THEN 1 ELSE 0)
         /\ HowMany(Front(c.stack), Entering(I)) \in Nat /\ HowMany(Front(c.stack), Leaving(I)) \in Nat
<1> DEFINE s == c.stack
           x == Last(s)
<1>1. s \in Seq(Items(I)) /\ s # <<>>
  BY DEF Searches
<1> HIDE DEF s
<1>2. x \in Items(I) /\ Front(s) \in Seq(Items(I))
  BY <1>1, CountFront
<1>3. (x \in Entering(I) <=> ~x[2]) /\ (x \in Leaving(I) <=> x[2])
  BY <1>2 DEF Items, Entering, Leaving
<1>4. HowMany(s, Entering(I)) = HowMany(Front(s), Entering(I)) + (IF x \in Entering(I) THEN 1 ELSE 0)
  BY <1>1, CountFront
<1>5. HowMany(s, Leaving(I)) = HowMany(Front(s), Leaving(I)) + (IF x \in Leaving(I) THEN 1 ELSE 0)
  BY <1>1, CountFront
<1>6. HowMany(Front(s), Entering(I)) \in Nat /\ HowMany(Front(s), Leaving(I)) \in Nat
  BY <1>2, PlacesFinite
<1> HIDE DEF x
<1>7. /\ HowMany(s, Entering(I)) = HowMany(Front(s), Entering(I)) + (IF x[2] THEN 0 ELSE 1)
      /\ HowMany(s, Leaving(I)) = HowMany(Front(s), Leaving(I)) + (IF x[2] THEN 1 ELSE 0)
  BY <1>3, <1>4, <1>5
<1> QED BY <1>6, <1>7 DEF s, x

LEMMA PushSums ==
  ASSUME NEW a \in Nat, NEW b \in Nat, NEW p \in Nat, NEW r \in Nat, NEW n \in Nat, NEW x \in Nat, x =< a + n
  PROVE  (2 * x + (b + 1) + 2 * (p - n) + r) + 1 =< 2 * (a + 1) + b + 2 * p + r
OBVIOUS

LEMMA StackExplored ==
  ASSUME NEW I, NEW D, Linked(I, D), NEW list, Listed(I, list),
         NEW c, SearchInv(I, D, list, c), ~c.cyclic, c.stack # <<>>
  PROVE  /\ SearchInv(I, D, list, Explore(D, c))
         /\ Explore(D, c).cyclic \/ StepsLeft(I, list, Explore(D, c)) + 1 =< StepsLeft(I, list, c)
<1> DEFINE e == Explore(D, c)
           id == Last(c.stack)[1]
           out == Last(c.stack)[2]
           N == Len(list)
           U == Unvisited(I, c)
           V == Unvisited(I, e)
           q == Front(c.stack)
<1>1. c \in Searches(I) /\ c.next \in 1 .. N + 1 /\ Searching(I, D, c) /\ Reached(list, c) /\ IsFiniteSet(I)
  BY DEF SearchInv, Linked
<1>2. Explores(I, D, c, e, id) /\ id \in I /\ out \in BOOLEAN
  BY <1>1, Explored
<1>3. e \in Searches(I) /\ e.next = c.next /\ N \in Nat /\ c.mark \in [I -> 0 .. 2]
  BY <1>1, <1>2 DEF Explores, Listed, Searches
<1>4. /\ HowMany(c.stack, Entering(I)) = HowMany(q, Entering(I)) + (IF out THEN 0 ELSE 1)
      /\ HowMany(c.stack, Leaving(I)) = HowMany(q, Leaving(I)) + (IF out THEN 1 ELSE 0)
      /\ HowMany(q, Entering(I)) \in Nat /\ HowMany(q, Leaving(I)) \in Nat
  BY <1>1, FrontCounts
<1>5. /\ IsFiniteSet(U) /\ Cardinality(U) \in Nat /\ N * Cardinality(U) \in Nat
      /\ \A X \in SUBSET I : IsFiniteSet(X) /\ Cardinality(X) \in Nat /\ Cardinality(X) =< N
  BY <1>1, CountsAreNat
<1>6. \A k \in 1 .. N : list[k].id \in I
  BY DEF Listed
<1>7. LET n == Len(c.stack) IN
      /\ n \in Nat \ {0} /\ DOMAIN c.stack = 1 .. n /\ DOMAIN q = 1 .. n - 1
      /\ \A i \in 1 .. n - 1 : q[i] = c.stack[i]
      /\ c.stack[n][1] = id /\ c.stack[n][2] = out
  BY <1>1, TopOfStack
<1> DEFINE n == Len(c.stack)
<1> HIDE DEF e, id, out, N, U, V, q, n
<1>8. /\ StepsLeft(I, list, c) = 2 * HowMany(c.stack, Entering(I)) + HowMany(c.stack, Leaving(I))
                                    + 2 * (N * Cardinality(U)) + 3 * (N + 1 - c.next)
      /\ StepsLeft(I, list, e) = 2 * HowMany(e.stack, Entering(I)) + HowMany(e.stack, Leaving(I))
                                    + 2 * (N * Cardinality(V)) + 3 * (N + 1 - e.next)
  BY DEF StepsLeft, N, U, V
<1> DEFINE was == N * Cardinality(U)
           left == N * Cardinality(V)
           rest == 3 * (N + 1 - c.next)
<1> HIDE DEF was, left, rest
<1>a. /\ StepsLeft(I, list, c) = 2 * HowMany(c.stack, Entering(I)) + HowMany(c.stack, Leaving(I)) + 2 * was + rest
      /\ StepsLeft(I, list, e) = 2 * HowMany(e.stack, Entering(I)) + HowMany(e.stack, Leaving(I)) + 2 * left + rest
      /\ was \in Nat /\ rest \in Nat
  <2>1. 3 * (N + 1 - c.next) \in Nat
    BY <1>1, <1>3
  <2> QED BY <1>3, <1>5, <1>8, <2>1 DEF was, left, rest
<1>9. /\ n \in Nat \ {0} /\ DOMAIN c.stack = 1 .. n /\ DOMAIN q = 1 .. n - 1
      /\ \A i \in 1 .. n - 1 : q[i] = c.stack[i]
      /\ c.stack[n][1] = id /\ c.stack[n][2] = out
  BY <1>7 DEF n
<1>10. CASE out
  <2>1. e.cyclic = c.cyclic /\ e.stack = q /\ e.mark = [c.mark EXCEPT ![id] = 2]
    BY <1>2, <1>10 DEF Explores, out, q
  <2>2. Searching(I, D, e)
    BY <1>1, <1>10, TaskLeft DEF e, out
  <2>3. \A d \in I : e.mark[d] = IF d = id THEN 2 ELSE c.mark[d]
    BY <1>3, <2>1
  <2>4. Reached(list, e)
    <3> SUFFICES ASSUME NEW k \in 1 .. c.next - 1, e.mark[list[k].id] = 0
                 PROVE  \E i \in 1 .. n - 1 : q[i][1] = list[k].id /\ ~q[i][2]
      BY <1>3, <1>9, <2>1 DEF Reached
    <3>1. list[k].id \in I
      BY <1>1, <1>3, <1>6
    <3>2. c.mark[list[k].id] = 0 /\ list[k].id # id
      BY <2>3, <3>1
    <3>3. PICK i \in 1 .. n : c.stack[i][1] = list[k].id /\ ~c.stack[i][2]
      BY <1>1, <1>9, <3>2 DEF Reached
    <3>4. i \in 1 .. n - 1
      BY <1>9, <3>2, <3>3
    <3> QED BY <1>9, <3>3, <3>4
  <2>5. V \subseteq U
    BY <2>3 DEF U, V, Unvisited
  <2>6. Cardinality(V) \in Nat /\ Cardinality(V) =< Cardinality(U)
    BY <1>5, <2>5, FS_Subset, FS_CardinalityType
  <2>7. N * Cardinality(V) \in Nat /\ N * Cardinality(V) =< N * Cardinality(U)
    <3> DEFINE u == Cardinality(U)
               v == Cardinality(V)
    <3>1. u \in Nat /\ v \in Nat /\ v =< u /\ N \in Nat
      BY <1>3, <1>5, <2>6
    <3> HIDE DEF u, v
    <3>2. N * v \in Nat /\ N * v =< N * u
      BY <3>1
    <3> QED BY <3>2 DEF u, v
  <2>8. StepsLeft(I, list, e) + 1 =< StepsLeft(I, list, c)
    <3>1. e.stack = q /\ e.next = c.next /\ c.next \in Nat
      BY <1>3, <2>1 DEF Searches
    <3>2. left \in Nat /\ left =< was
      BY <2>7 DEF left, was
    <3> QED BY <1>4, <1>a, <1>10, <3>1, <3>2
  <2>9. SearchInv(I, D, list, e)
    BY <1>1, <1>3, <2>1, <2>2, <2>4 DEF SearchInv, N
  <2> QED BY <2>8, <2>9 DEF e
<1>11. CASE ~out /\ c.mark[id] = 1
  <2>1. e.cyclic
    BY <1>2, <1>11 DEF Explores, out
  <2>2. ~Rooted(D)
    BY <1>1, <1>11, CycleMet DEF out, id
  <2>3. SearchInv(I, D, list, e)
    BY <1>1, <1>3, <2>1, <2>2 DEF SearchInv, N
  <2> QED BY <2>1, <2>3 DEF e
<1>12. CASE ~out /\ c.mark[id] # 1
  <2>1. /\ e.cyclic = c.cyclic /\ e.mark = [c.mark EXCEPT ![id] = 1]
        /\ \E f \in Seq(I) : /\ Len(f) = Cardinality(Fresh(D, c, id))
                             /\ e.stack = Pushed(c, id, f)
    BY <1>2, <1>12 DEF Explores, out
  <2>2. Searching(I, D, e) /\ (c.mark[id] = 2 => Fresh(D, c, id) = {})
    BY <1>1, <1>12, TaskEntered DEF e, out, id
  <2>3. PICK f \in Seq(I) : /\ Len(f) = Cardinality(Fresh(D, c, id))
                            /\ e.stack = Pushed(c, id, f)
    BY <2>1
  <2>4. PushedAs(I, c.stack, id, f, e.stack)
    BY <1>1, <1>2, <2>3, PushedIs
  <2>5. /\ \A i \in 1 .. n - 1 : i \in DOMAIN e.stack /\ e.stack[i] = c.stack[i]
        /\ HowMany(e.stack, Entering(I)) =< HowMany(q, Entering(I)) + Len(f)
        /\ HowMany(e.stack, Leaving(I)) = HowMany(q, Leaving(I)) + 1
    <3>1. Len(f) \in Nat
      OBVIOUS
    <3>2. \A i \in 1 .. n - 1 : i \in 1 .. n + Len(f)
      BY <1>9, <3>1
    <3> QED BY <2>4, <3>2 DEF PushedAs, n, q
  <2>6. \A d \in I : e.mark[d] = IF d = id THEN 1 ELSE c.mark[d]
    BY <1>3, <2>1
  <2>7. Reached(list, e)
    <3> SUFFICES ASSUME NEW k \in 1 .. c.next - 1, e.mark[list[k].id] = 0
                 PROVE  \E i \in DOMAIN e.stack : e.stack[i][1] = list[k].id /\ ~e.stack[i][2]
      BY <1>3 DEF Reached
    <3>1. list[k].id \in I
      BY <1>1, <1>3, <1>6
    <3>2. c.mark[list[k].id] = 0 /\ list[k].id # id
      BY <2>6, <3>1
    <3>3. PICK i \in 1 .. n : c.stack[i][1] = list[k].id /\ ~c.stack[i][2]
      BY <1>1, <1>9, <3>2 DEF Reached
    <3>4. i \in 1 .. n - 1
      BY <1>9, <3>2, <3>3
    <3> QED BY <2>5, <3>3, <3>4
  <2>8. SearchInv(I, D, list, e)
    BY <1>1, <1>3, <2>1, <2>2, <2>7 DEF SearchInv, N
  <2>9. HowMany(e.stack, Entering(I)) \in Nat /\ HowMany(e.stack, Leaving(I)) \in Nat
    <3>1. e.stack \in Seq(Items(I))
      BY <1>3 DEF Searches
    <3> QED BY <3>1, PlacesFinite
  <2>10. e.next = c.next /\ c.next \in Nat
    BY <1>3 DEF Searches
  <2>11. CASE c.mark[id] = 2
    <3>1. Len(f) = 0
      BY <2>2, <2>3, <2>11, FS_EmptySet
    <3>2. V = U
      BY <1>2, <2>6, <2>11 DEF U, V, Unvisited
    <3>3. StepsLeft(I, list, e) + 1 =< StepsLeft(I, list, c)
      <4>1. left = was
        BY <3>2 DEF left, was
      <4> QED BY <1>4, <1>a, <1>12, <2>5, <2>9, <3>1, <4>1
    <3> QED BY <2>8, <3>3 DEF e
  <2>12. CASE c.mark[id] = 0
    <3>1. Len(f) \in Nat /\ Len(f) =< N
      <4>1. Fresh(D, c, id) \in SUBSET I
        BY <1>2 DEF Fresh, Linked
      <4> QED BY <1>5, <2>3, <4>1
    <3>2. V = U \ {id} /\ id \in U
      BY <1>2, <2>6, <2>12 DEF U, V, Unvisited
    <3>3. Cardinality(V) = Cardinality(U) - 1 /\ Cardinality(V) \in Nat
      BY <1>5, <3>2, FS_RemoveElement, FS_CardinalityType
    <3>4. N * Cardinality(V) = N * Cardinality(U) - N
      <4> DEFINE u == Cardinality(U)
                 v == Cardinality(V)
      <4>1. u \in Nat /\ v \in Nat /\ u = v + 1 /\ N \in Nat
        BY <1>3, <1>5, <3>3
      <4> HIDE DEF u, v
      <4>2. N * v = N * u - N
        BY <4>1
      <4> QED BY <4>2 DEF u, v
    <3>5. StepsLeft(I, list, e) + 1 =< StepsLeft(I, list, c)
      <4>1. left = was - N
        BY <3>4 DEF left, was
      <4>2. left \in Int /\ HowMany(e.stack, Entering(I)) =< HowMany(q, Entering(I)) + N
        BY <1>3, <1>4, <1>a, <2>5, <2>9, <3>1, <4>1
      <4>3. HowMany(c.stack, Entering(I)) = HowMany(q, Entering(I)) + 1
            /\ HowMany(c.stack, Leaving(I)) = HowMany(q, Leaving(I))
        BY <1>4, <1>12
      <4>4. /\ StepsLeft(I, list, c) = 2 * (HowMany(q, Entering(I)) + 1) + HowMany(q, Leaving(I)) + 2 * was + rest
            /\ StepsLeft(I, list, e) = 2 * HowMany(e.stack, Entering(I)) + (HowMany(q, Leaving(I)) + 1)
                                           + 2 * (was - N) + rest
        BY <1>a, <2>5, <4>1, <4>3
      <4>5. (2 * HowMany(e.stack, Entering(I)) + (HowMany(q, Leaving(I)) + 1) + 2 * (was - N) + rest) + 1
              =< 2 * (HowMany(q, Entering(I)) + 1) + HowMany(q, Leaving(I)) + 2 * was + rest
        BY <1>3, <1>4, <1>a, <2>9, <4>2, PushSums
      <4> QED BY <4>4, <4>5
    <3> QED BY <2>8, <3>5 DEF e
  <2>13. c.mark[id] \in {0, 1, 2}
    BY <1>2, <1>3
  <2> QED BY <1>12, <2>11, <2>12, <2>13
<1> QED BY <1>2, <1>10, <1>11, <1>12

LEMMA TaskTaken ==
  ASSUME NEW I, NEW D, Linked(I, D), NEW list, Listed(I, list),
         NEW c, SearchInv(I, D, list, c), ~c.cyclic, c.stack = <<>>, c.next =< Len(list)
  PROVE  /\ SearchInv(I, D, list, SearchStep(list, D, c))
         /\ StepsLeft(I, list, SearchStep(list, D, c)) + 1 =< StepsLeft(I, list, c)
<1> DEFINE e == SearchStep(list, D, c)
           id == list[c.next].id
           top == <<id, FALSE>>
           one == <<top>>
           N == Len(list)
<1>1. /\ c \in Searches(I) /\ c.next \in 1 .. N /\ Searching(I, D, c) /\ Reached(list, c) /\ N \in Nat
      /\ \A k \in 1 .. N : list[k].id \in I
  BY DEF SearchInv, Listed
<1>2. id \in I /\ c.mark \in [I -> 0 .. 2]
      /\ c = [stack |-> c.stack, mark |-> c.mark, next |-> c.next, cyclic |-> c.cyclic]
  BY <1>1 DEF Searches
<1>3. e = [c EXCEPT !.next = @ + 1, !.stack = IF c.mark[id] = 0 THEN one ELSE <<>>]
  BY <1>1 DEF SearchStep
<1>4. top \in Items(I) /\ top \in Entering(I) /\ top \notin Leaving(I) /\ top[1] = id /\ ~top[2]
  BY <1>2 DEF Items, Entering, Leaving
<1> HIDE DEF e, id, top
<1>5. one \in Seq(Items(I)) /\ DOMAIN one = 1 .. 1 /\ one[1] = top /\ one = Append(<<>>, top)
      /\ <<>> \in Seq(Items(I))
  BY <1>4
<1>6. HowMany(one, Entering(I)) = 1 /\ HowMany(one, Leaving(I)) = 0
      /\ HowMany(<<>>, Entering(I)) = 0 /\ HowMany(<<>>, Leaving(I)) = 0
  <2>1. HowMany(one, Entering(I)) = HowMany(<<>>, Entering(I)) + (IF top \in Entering(I) THEN 1 ELSE 0)
    BY <1>4, <1>5, CountAppend
  <2>2. HowMany(one, Leaving(I)) = HowMany(<<>>, Leaving(I)) + (IF top \in Leaving(I) THEN 1 ELSE 0)
    BY <1>4, <1>5, CountAppend
  <2> QED BY <1>4, <2>1, <2>2, CountEmpty
<1> HIDE DEF one, N
<1>7. /\ e = [stack |-> IF c.mark[id] = 0 THEN one ELSE <<>>, mark |-> c.mark, next |-> c.next + 1, cyclic |-> c.cyclic]
      /\ e.mark = c.mark /\ e.next = c.next + 1 /\ e.cyclic = c.cyclic
      /\ e.stack = IF c.mark[id] = 0 THEN one ELSE <<>>
  BY <1>2, <1>3
<1>8. e \in Searches(I) /\ e.next \in 1 .. N + 1
  <2>1. e.stack \in Seq(Items(I))
    BY <1>5, <1>7
  <2>2. c.next + 1 \in Nat /\ c.next + 1 \in 1 .. N + 1
    BY <1>1
  <2> QED BY <1>1, <1>7, <2>1, <2>2 DEF Searches
<1>9. \A i \in DOMAIN e.stack : i = 1 /\ e.stack = one /\ ~e.stack[i][2]
  <2>1. CASE c.mark[id] = 0
    BY <1>4, <1>5, <1>7, <2>1
  <2>2. CASE c.mark[id] # 0
    BY <1>7, <2>2
  <2> QED BY <2>1, <2>2
<1>10. \A d \in I : c.mark[d] # 1
  BY <1>1 DEF Searching, OnStack
<1>11. OnStack(I, e) /\ Awaits(D, e) /\ Trail(D, e)
  BY <1>7, <1>9, <1>10 DEF OnStack, Awaits, Trail
<1>12. \E F : Behind(I, D, e, F)
  <2>1. PICK F : Behind(I, D, c, F)
    BY <1>1 DEF Searching
  <2>2. Behind(I, D, e, F)
    BY <1>7, <2>1 DEF Behind
  <2> QED BY <2>2
<1>13. Reached(list, e)
  <2> SUFFICES ASSUME NEW k \in 1 .. c.next, c.mark[list[k].id] = 0
               PROVE  \E i \in DOMAIN e.stack : e.stack[i][1] = list[k].id /\ ~e.stack[i][2]
    BY <1>1, <1>7 DEF Reached
  <2>1. k = c.next
    <3> SUFFICES ASSUME k \in 1 .. c.next - 1 PROVE FALSE
      BY <1>1
    <3>1. \E i \in DOMAIN c.stack : c.stack[i][1] = list[k].id
      BY <1>1 DEF Reached
    <3> QED BY <3>1
  <2>2. e.stack = one
    BY <1>7, <2>1 DEF id
  <2> QED BY <1>4, <1>5, <2>1, <2>2 DEF id
<1>14. SearchInv(I, D, list, e)
  BY <1>7, <1>8, <1>11, <1>12, <1>13 DEF SearchInv, Searching, N
<1>15. StepsLeft(I, list, e) + 1 =< StepsLeft(I, list, c)
  <2> DEFINE u == 2 * (N * Cardinality(Unvisited(I, c)))
  <2>1. u \in Nat
    <3>1. IsFiniteSet(I)
      BY DEF Linked
    <3>2. N * Cardinality(Unvisited(I, c)) \in Nat
      BY <1>1, <3>1, CountsAreNat DEF N
    <3> QED BY <3>2
  <2>2. Unvisited(I, e) = Unvisited(I, c)
    BY <1>7 DEF Unvisited
  <2> DEFINE r == 3 * (N + 1 - c.next)
             p == HowMany(e.stack, Entering(I))
  <2>3. StepsLeft(I, list, c) = 2 * 0 + 0 + u + r
    BY <1>6 DEF StepsLeft, N
  <2>4. StepsLeft(I, list, e) = 2 * p + HowMany(e.stack, Leaving(I))
                                  + u + 3 * (N + 1 - (c.next + 1))
    BY <1>7, <2>2 DEF StepsLeft, N
  <2>5. p \in {0, 1} /\ HowMany(e.stack, Leaving(I)) = 0
    BY <1>6, <1>7
  <2>6. r \in Nat /\ 3 * (N + 1 - (c.next + 1)) = r - 3
    BY <1>1
  <2> HIDE DEF u, r, p
  <2>7. StepsLeft(I, list, c) = u + r /\ StepsLeft(I, list, e) = 2 * p + u + (r - 3)
    <3>1. 2 * 0 + 0 + u + r = u + r
      BY <2>1, <2>6
    <3>2. 2 * p + 0 + u + (r - 3) = 2 * p + u + (r - 3)
      BY <2>1, <2>5, <2>6
    <3> QED BY <2>3, <2>4, <2>5, <2>6, <3>1, <3>2
  <2> QED BY <2>1, <2>5, <2>6, <2>7
<1> QED BY <1>14, <1>15 DEF e

LEMMA SearchGoesOn ==
  ASSUME NEW I, NEW D, Linked(I, D), NEW list, Listed(I, list), NEW c, SearchInv(I, D, list, c)
  PROVE  LET e == SearchStep(list, D, c) IN
         /\ SearchInv(I, D, list, e)
         /\ Ended(list, e) \/ StepsLeft(I, list, e) + 1 =< StepsLeft(I, list, c)
<1>1. c.next \in 1 .. Len(list) + 1 /\ Len(list) \in Nat
  BY DEF SearchInv, Listed
<1>2. CASE c.cyclic \/ (c.stack = <<>> /\ c.next > Len(list))
  <2>1. SearchStep(list, D, c) = c
    BY <1>2 DEF SearchStep
  <2>2. Ended(list, c)
    BY <1>1, <1>2 DEF Ended
  <2> QED BY <2>1, <2>2
<1>3. CASE ~c.cyclic /\ c.stack # <<>>
  <2>1. SearchStep(list, D, c) = Explore(D, c)
    BY <1>3 DEF SearchStep
  <2>2. /\ SearchInv(I, D, list, Explore(D, c))
        /\ Explore(D, c).cyclic \/ StepsLeft(I, list, Explore(D, c)) + 1 =< StepsLeft(I, list, c)
    BY <1>3, StackExplored
  <2> QED BY <2>1, <2>2 DEF Ended
<1>4. CASE ~c.cyclic /\ c.stack = <<>> /\ ~(c.next > Len(list))
  <2>1. c.next =< Len(list)
    BY <1>1, <1>4
  <2>2. /\ SearchInv(I, D, list, SearchStep(list, D, c))
        /\ StepsLeft(I, list, SearchStep(list, D, c)) + 1 =< StepsLeft(I, list, c)
    BY <1>4, <2>1, TaskTaken
  <2> QED BY <2>2
<1> QED BY <1>2, <1>3, <1>4

(* When it has ended without a cycle, every task was left behind.          *)
LEMMA SearchDecides ==
  ASSUME NEW I, NEW D, Linked(I, D), NEW list, Listed(I, list), NEW c, SearchInv(I, D, list, c),
         Ended(list, c), \A d \in I : \E k \in DOMAIN list : list[k].id = d
  PROVE  c.cyclic <=> ~Rooted(D)
<1> SUFFICES ASSUME ~c.cyclic PROVE Rooted(D)
  BY DEF SearchInv, Searches
<1>1. /\ c \in Searches(I) /\ Searching(I, D, c) /\ Reached(list, c)
      /\ c.stack = <<>> /\ c.next = Len(list) + 1 /\ Len(list) \in Nat /\ DOMAIN list = 1 .. Len(list)
      /\ c.mark \in [I -> 0 .. 2] /\ DOMAIN D = I
  BY DEF SearchInv, Ended, Listed, Linked, Searches
<1>2. PICK F : Behind(I, D, c, F)
  BY <1>1 DEF Searching
<1>3. \A d \in I : c.mark[d] = 2
  <2> SUFFICES ASSUME NEW d \in I PROVE c.mark[d] = 2
    OBVIOUS
  <2>1. PICK k \in 1 .. Len(list) : list[k].id = d
    BY <1>1
  <2>2. k \in 1 .. c.next - 1
    BY <1>1
  <2>3. c.mark[d] # 0
    BY <1>1, <2>1, <2>2 DEF Reached
  <2>4. c.mark[d] # 1
    BY <1>1 DEF Searching, OnStack
  <2> QED BY <1>1, <2>3, <2>4
<1>4. F = I
  BY <1>2, <1>3 DEF Behind
<1> QED BY <1>1, <1>2, <1>4 DEF Behind, Rooted

-----------------------------------------------------------------------------
(* For any tasks: a cycle is found exactly when some of them each depend   *)
(* on another of them.                                                     *)
SearchBegins(I) == [stack |-> <<>>, mark |-> [d \in I |-> 0], next |-> 1, cyclic |-> FALSE]
SearchesUpTo(list, D, I, bound, f) ==
  f = [n \in 0 .. bound |-> IF n = 0 THEN SearchBegins(I) ELSE SearchStep(list, D, f[n - 1])]

LEMMA SearchStarts ==
  ASSUME NEW I, NEW D, Linked(I, D), NEW list, Listed(I, list)
  PROVE  /\ SearchInv(I, D, list, SearchBegins(I))
         /\ StepsLeft(I, list, SearchBegins(I)) =< SearchSteps(Len(list))
         /\ SearchSteps(Len(list)) \in Nat
<1> DEFINE c == SearchBegins(I)
           N == Len(list)
           U == Unvisited(I, c)
<1>1. /\ c.stack = <<>> /\ c.next = 1 /\ c.cyclic = FALSE /\ c.mark = [d \in I |-> 0]
      /\ N \in Nat /\ IsFiniteSet(I)
  BY DEF SearchBegins, Listed
<1>2. c \in Searches(I)
  <2>1. <<>> \in Seq(Items(I)) /\ [d \in I |-> 0] \in [I -> 0 .. 2]
    OBVIOUS
  <2> QED BY <2>1 DEF SearchBegins, Searches
<1> HIDE DEF c
<1>3. Behind(I, D, c, {})
  BY <1>1 DEF Behind
<1>4. OnStack(I, c) /\ Awaits(D, c) /\ Trail(D, c) /\ Reached(list, c)
  BY <1>1 DEF OnStack, Awaits, Trail, Reached
<1>5. SearchInv(I, D, list, c)
  BY <1>1, <1>2, <1>3, <1>4 DEF SearchInv, Searching
<1>6. U \in SUBSET I /\ Cardinality(U) \in Nat /\ Cardinality(U) =< N
  <2>1. \A X \in SUBSET I : Cardinality(X) \in Nat /\ Cardinality(X) =< N
    BY <1>1, <1>2, CountsAreNat
  <2> QED BY <2>1 DEF Unvisited
<1>7. StepsLeft(I, list, c) = 2 * 0 + 0 + 2 * (N * Cardinality(U)) + 3 * (N + 1 - 1)
  BY <1>1, CountEmpty DEF StepsLeft
<1> DEFINE u == Cardinality(U)
<1> HIDE DEF U, N, u
<1>8. N * u \in Nat /\ N * u =< N * N /\ N * N \in Nat
  BY <1>1, <1>6 DEF u
<1>9. SearchSteps(N) = 2 * (N * N) + 3 * N
  BY <1>1 DEF SearchSteps
<1>10. StepsLeft(I, list, c) =< SearchSteps(N) /\ SearchSteps(N) \in Nat
  BY <1>1, <1>7, <1>8, <1>9 DEF u
<1> QED BY <1>5, <1>10 DEF c, N

LEMMA SearchDefined ==
  ASSUME NEW list, NEW D, NEW I, NEW bound \in Nat
  PROVE  \E f : SearchesUpTo(list, D, I, bound, f)
<1> DEFINE Step(f, n) == IF n = 0 THEN SearchBegins(I) ELSE SearchStep(list, D, f[n - 1])
           Good == {k \in Nat : \E f : f = [n \in 0 .. k |-> Step(f, n)]}
<1>1. 0 \in Good
  <2> DEFINE f == [n \in 0 .. 0 |-> Step(<<>>, 0)]
  <2>1. f = [n \in 0 .. 0 |-> Step(f, n)]
    OBVIOUS
  <2>2. \E h : h = [n \in 0 .. 0 |-> Step(h, n)]
    <3> HIDE DEF f
    <3> QED BY <2>1
  <2> QED BY <2>2
<1>2. ASSUME NEW k \in Nat, k \in Good PROVE k + 1 \in Good
  <2>1. PICK f : f = [n \in 0 .. k |-> Step(f, n)]
    BY <1>2
  <2> DEFINE g == [n \in 0 .. k + 1 |-> IF n = k + 1 THEN Step(f, k + 1) ELSE f[n]]
  <2>2. ASSUME NEW n \in 0 .. k + 1 PROVE g[n] = Step(g, n)
    <3>1. CASE n = k + 1
      <4>1. n # 0 /\ n - 1 = k /\ g[k] = f[k]
        BY <3>1
      <4>2. g[n] = Step(f, k + 1)
        BY <3>1
      <4> HIDE DEF g
      <4> QED BY <3>1, <4>1, <4>2
    <3>2. CASE n # k + 1
      <4>1. n \in 0 .. k /\ g[n] = f[n]
        BY <3>2
      <4>2. f[n] = Step(f, n)
        BY <2>1, <4>1
      <4>3. n # 0 => g[n - 1] = f[n - 1]
        BY <4>1
      <4> HIDE DEF g
      <4> QED BY <4>1, <4>2, <4>3
    <3> QED BY <3>1, <3>2
  <2>3. g = [n \in 0 .. k + 1 |-> Step(g, n)]
    <3> HIDE DEF Step
    <3> QED BY <2>2
  <2>4. \E h : h = [n \in 0 .. k + 1 |-> Step(h, n)]
    <3> HIDE DEF g
    <3> QED BY <2>3
  <2> QED BY <2>4
<1>3. Nat \subseteq Good
  <2> HIDE DEF Good
  <2> QED BY <1>1, <1>2, SetInduction
<1> QED BY <1>3 DEF SearchesUpTo

LEMMA SearchComes ==
  ASSUME NEW I, NEW D, Linked(I, D), NEW list, Listed(I, list), NEW f,
         SearchesUpTo(list, D, I, SearchSteps(Len(list)), f)
  PROVE  LET c == f[SearchSteps(Len(list))] IN SearchInv(I, D, list, c) /\ Ended(list, c)
<1> DEFINE B == SearchSteps(Len(list))
           Right(k) == /\ SearchInv(I, D, list, f[k])
                       /\ Ended(list, f[k]) \/ StepsLeft(I, list, f[k]) + k =< B
           Good == {k \in Nat : k =< B => Right(k)}
<1>1. B \in Nat /\ SearchInv(I, D, list, SearchBegins(I)) /\ StepsLeft(I, list, SearchBegins(I)) =< B
  BY SearchStarts
<1>2. \A n \in 0 .. B : f[n] = IF n = 0 THEN SearchBegins(I) ELSE SearchStep(list, D, f[n - 1])
  BY DEF SearchesUpTo
<1> HIDE DEF B
<1>a. \A c : SearchInv(I, D, list, c) => StepsLeft(I, list, c) \in Nat
  <2> SUFFICES ASSUME NEW c, SearchInv(I, D, list, c) PROVE StepsLeft(I, list, c) \in Nat
    OBVIOUS
  <2> DEFINE p == Len(list) * Cardinality(Unvisited(I, c))
  <2>1. c \in Searches(I) /\ c.next \in 1 .. Len(list) + 1 /\ IsFiniteSet(I)
    BY DEF SearchInv, Linked
  <2>2. /\ HowMany(c.stack, Entering(I)) \in Nat /\ HowMany(c.stack, Leaving(I)) \in Nat
        /\ p \in Nat /\ Len(list) \in Nat
    BY <2>1, CountsAreNat
  <2>3. StepsLeft(I, list, c) = 2 * HowMany(c.stack, Entering(I)) + HowMany(c.stack, Leaving(I))
                                  + 2 * p + 3 * (Len(list) + 1 - c.next)
    BY DEF StepsLeft
  <2> HIDE DEF p
  <2> QED BY <2>1, <2>2, <2>3
<1>3. 0 \in Good
  <2>1. f[0] = SearchBegins(I)
    BY <1>1, <1>2
  <2>2. Right(0)
    BY <1>1, <1>a, <2>1
  <2> QED BY <2>2
<1>4. ASSUME NEW k \in Nat, k \in Good PROVE k + 1 \in Good
  <2>1. SUFFICES ASSUME k + 1 =< B PROVE Right(k + 1)
    OBVIOUS
  <2>2. Right(k) /\ f[k + 1] = SearchStep(list, D, f[k])
    <3>1. k + 1 \in 0 .. B /\ k + 1 # 0 /\ (k + 1) - 1 = k /\ k =< B
      BY <1>1, <2>1
    <3> QED BY <1>2, <1>4, <3>1
  <2>3. /\ SearchInv(I, D, list, f[k + 1])
        /\ Ended(list, f[k + 1]) \/ StepsLeft(I, list, f[k + 1]) + 1 =< StepsLeft(I, list, f[k])
    BY <2>2, SearchGoesOn
  <2>4. CASE Ended(list, f[k])
    <3>1. SearchStep(list, D, f[k]) = f[k]
      <4>1. Len(list) \in Nat
        BY DEF Listed
      <4> QED BY <2>4, <4>1 DEF Ended, SearchStep
    <3> QED BY <2>2, <2>3, <2>4, <3>1
  <2>5. CASE ~Ended(list, f[k])
    <3>1. StepsLeft(I, list, f[k]) + k =< B
      BY <2>2, <2>5
    <3>2. StepsLeft(I, list, f[k]) \in Nat /\ StepsLeft(I, list, f[k + 1]) \in Nat
      BY <1>a, <2>2, <2>3
    <3> QED BY <1>1, <2>3, <3>1, <3>2
  <2> QED BY <2>4, <2>5
<1>5. Nat \subseteq Good
  <2> HIDE DEF Good
  <2> QED BY <1>3, <1>4, SetInduction
<1>6. Right(B)
  BY <1>1, <1>5
<1>7. Ended(list, f[B])
  <2> SUFFICES ASSUME StepsLeft(I, list, f[B]) + B =< B PROVE Ended(list, f[B])
    BY <1>6
  <2> DEFINE c == f[B]
             p == Len(list) * Cardinality(Unvisited(I, c))
  <2>1. SearchInv(I, D, list, c) /\ c \in Searches(I) /\ c.next \in 1 .. Len(list) + 1 /\ IsFiniteSet(I)
    BY <1>6 DEF SearchInv, Linked
  <2>2. StepsLeft(I, list, c) = 0
    BY <1>1, <1>a, <2>1
  <2>3. /\ HowMany(c.stack, Entering(I)) \in Nat /\ HowMany(c.stack, Leaving(I)) \in Nat
        /\ p \in Nat /\ Len(list) \in Nat
    BY <2>1, CountsAreNat
  <2>4. StepsLeft(I, list, c) = 2 * HowMany(c.stack, Entering(I)) + HowMany(c.stack, Leaving(I))
                                  + 2 * p + 3 * (Len(list) + 1 - c.next)
    BY DEF StepsLeft
  <2> HIDE DEF p, c
  <2>5. c.next = Len(list) + 1 /\ HowMany(c.stack, Entering(I)) = 0 /\ HowMany(c.stack, Leaving(I)) = 0
    BY <2>1, <2>2, <2>3, <2>4
  <2>6. c.stack = <<>>
    <3> SUFFICES ASSUME c.stack # <<>> PROVE FALSE
      OBVIOUS
    <3>1. /\ HowMany(c.stack, Entering(I)) = HowMany(Front(c.stack), Entering(I)) + (IF Last(c.stack)[2] THEN 0 ELSE 1)
          /\ HowMany(c.stack, Leaving(I)) = HowMany(Front(c.stack), Leaving(I)) + (IF Last(c.stack)[2] THEN 1 ELSE 0)
          /\ HowMany(Front(c.stack), Entering(I)) \in Nat /\ HowMany(Front(c.stack), Leaving(I)) \in Nat
      BY <2>1, FrontCounts
    <3> QED BY <2>5, <3>1
  <2> QED BY <2>5, <2>6 DEF Ended, c
<1> QED BY <1>6, <1>7 DEF B

THEOREM CycleFound ==
  ASSUME NEW T, NEW list \in Seq(T)
  PROVE  DetectCycle(list) <=> ~Rooted(Links(list))
<1> DEFINE I == Ids(list)
           D == Links(list)
           B == SearchSteps(Len(list))
           search == CHOOSE f : SearchesUpTo(list, D, I, B, f)
<1>1. IsFiniteSet(I) /\ Cardinality(I) =< Len(list)
  <2>1. IsFiniteSet(1 .. Len(list)) /\ Cardinality(1 .. Len(list)) = Len(list)
    <3>1. Len(list) \in Nat
      OBVIOUS
    <3> DEFINE n == Len(list)
    <3> HIDE DEF n
    <3>2. n \in Int /\ 1 \in Int /\ n >= 0
      BY <3>1 DEF n
    <3>3. /\ IsFiniteSet(1 .. n)
          /\ Cardinality(1 .. n) = IF 1 > n THEN 0 ELSE n - 1 + 1
      BY ONLY <3>2, FS_Interval
    <3>4. Cardinality(1 .. n) = n
      BY <3>2, <3>3
    <3> QED BY <3>3, <3>4 DEF n
  <2> DEFINE g == [i \in 1 .. Len(list) |-> list[i].id]
  <2>2. I = {g[i] : i \in 1 .. Len(list)}
    BY DEF Ids
  <2>3. g \in Surjection(1 .. Len(list), I)
    BY <2>2 DEF Surjection
  <2> QED BY <2>1, <2>3, FS_Surjection
<1>2. D \in [I -> SUBSET I]
  BY DEF Links
<1>3. Linked(I, D)
  BY <1>1, <1>2 DEF Linked
<1>4. \A d \in I : \E k \in DOMAIN list : list[k].id = d
  BY DEF Ids
<1>5. \A i \in DOMAIN list : list[i].id \in I
  BY DEF Ids
<1>6. Listed(I, list)
  <2> HIDE DEF I
  <2> QED BY <1>1, <1>5 DEF Listed
<1>7. DetectCycle(list) = search[B].cyclic
  BY DEF DetectCycle, SearchesUpTo, SearchBegins
<1> HIDE DEF I, D
<1>8. B \in Nat
  BY <1>3, <1>6, SearchStarts
<1>9. SearchesUpTo(list, D, I, B, search)
  <2>1. \E f : SearchesUpTo(list, D, I, B, f)
    BY <1>8, SearchDefined
  <2> QED BY <2>1
<1> HIDE DEF search
<1>10. SearchInv(I, D, list, search[B]) /\ Ended(list, search[B])
  BY <1>3, <1>6, <1>9, SearchComes
<1> HIDE DEF B
<1>11. search[B].cyclic <=> ~Rooted(D)
  BY <1>3, <1>4, <1>6, <1>10, SearchDecides
<1> QED BY <1>7, <1>11 DEF D

-----------------------------------------------------------------------------
(* Rows that can be executed: closed and without a cycle, and each in a    *)
(* state that its dependencies justify.  What has been tried, or is ready, *)
(* has all of them done; what waits has one that is not completed.         *)
StandsOn(q, d) ==
  LET below == {q[e].state : e \in q[d].deps} IN
  /\ q[d].state \in {"pending", "ready", "running", "blocked", "failed", "completed", "superseded"}
  /\ q[d].tried <=> q[d].state \in {"running", "completed", "failed"}
  /\ q[d].tried \/ q[d].state = "ready" => below \subseteq {"completed", "superseded"}
  /\ q[d].state = "pending" => ~(below \subseteq {"completed"})
RowsStand(q) ==
  /\ \A d \in DOMAIN q : q[d].deps \subseteq DOMAIN q
  /\ Rooted([d \in DOMAIN q |-> q[d].deps])
  /\ \A d \in DOMAIN q : StandsOn(q, d)

LEMMA RootsAre ==
  ASSUME NEW q
  PROVE  Rooted([d \in DOMAIN q |-> q[d].deps])
           <=> \A S \in SUBSET DOMAIN q : S # {} => \E d \in S : q[d].deps \cap S = {}
<1> DEFINE g == [d \in DOMAIN q |-> q[d].deps]
<1>1. DOMAIN g = DOMAIN q /\ \A d \in DOMAIN q : g[d] = q[d].deps
  OBVIOUS
<1> HIDE DEF g
<1>2. Rooted(g) <=> \A S \in SUBSET DOMAIN q : S # {} => \E d \in S : q[d].deps \cap S = {}
  BY <1>1 DEF Rooted
<1> QED BY <1>2 DEF g

(* They still can under other ids.                                         *)
Renames(q, n, f) ==
  /\ f \in [DOMAIN q -> DOMAIN n]
  /\ \A a, b \in DOMAIN q : f[a] = f[b] => a = b
  /\ \A d \in DOMAIN n : \E a \in DOMAIN q : f[a] = d
  /\ \A a \in DOMAIN q : /\ n[f[a]].state = q[a].state /\ n[f[a]].tried = q[a].tried
                         /\ n[f[a]].deps = {f[e] : e \in q[a].deps}
LEMMA RenamedStand ==
  ASSUME NEW q, RowsStand(q), NEW n, NEW f, Renames(q, n, f)
  PROVE  RowsStand(n)
<1>1. /\ \A a \in DOMAIN q : f[a] \in DOMAIN n /\ q[a].deps \subseteq DOMAIN q
      /\ \A d \in DOMAIN n : \E a \in DOMAIN q : f[a] = d
      /\ \A a \in DOMAIN q : n[f[a]].deps = {f[e] : e \in q[a].deps}
  BY DEF Renames, RowsStand
<1>2. \A d \in DOMAIN n : n[d].deps \subseteq DOMAIN n
  BY <1>1
<1>3. ASSUME NEW S \in SUBSET DOMAIN n, S # {} PROVE \E d \in S : n[d].deps \cap S = {}
  <2> DEFINE P == {a \in DOMAIN q : f[a] \in S}
  <2>1. P \in SUBSET DOMAIN q /\ P # {}
    BY <1>1, <1>3
  <2>2. PICK a \in P : q[a].deps \cap P = {}
    BY <2>1, RootsAre DEF RowsStand
  <2>3. n[f[a]].deps \cap S = {}
    BY <1>1, <2>2
  <2> QED BY <2>2, <2>3
<1>4. ASSUME NEW d \in DOMAIN n PROVE StandsOn(n, d)
  <2>1. PICK a \in DOMAIN q : f[a] = d
    BY <1>1
  <2>2. n[d].state = q[a].state /\ n[d].tried = q[a].tried
    BY <2>1 DEF Renames
  <2>3. {n[e].state : e \in n[d].deps} = {q[e].state : e \in q[a].deps}
    <3>1. n[d].deps = {f[e] : e \in q[a].deps}
      BY <1>1, <2>1
    <3>2. \A e \in q[a].deps : n[f[e]].state = q[e].state
      BY <1>1 DEF Renames
    <3> QED BY <3>1, <3>2
  <2>4. StandsOn(q, a)
    BY DEF RowsStand
  <2> QED BY <2>2, <2>3, <2>4 DEF StandsOn
<1> QED BY <1>2, <1>3, <1>4, RootsAre DEF RowsStand

-----------------------------------------------------------------------------
(* An attempt: what is done stays as it was, and what becomes ready has    *)
(* its dependencies done.                                                  *)
AttemptedAt(r, n, d) ==
  LET below == {n[e].state : e \in r[d].deps} IN
  /\ r[d].state \in {"completed", "superseded"} => n[d].state = r[d].state
  /\ n[d].state \in {"pending", "ready", "running", "blocked", "failed", "completed", "superseded"}
  /\ n[d].tried <=> n[d].state \in {"running", "completed", "failed"}
  /\ n[d].tried \/ n[d].state = "ready" =>
       r[d].tried \/ r[d].state = "ready" \/ below \subseteq {"completed", "superseded"}
  /\ n[d].state = "pending" => ~(below \subseteq {"completed"})
RowsAttempted(r, n) ==
  /\ DOMAIN n = DOMAIN r /\ \A d \in DOMAIN r : n[d].deps = r[d].deps
  /\ \A d \in DOMAIN r : AttemptedAt(r, n, d)
LEMMA AttemptedStand ==
  ASSUME NEW r, RowsStand(r), NEW n, RowsAttempted(r, n)
  PROVE  RowsStand(n)
<1>1. DOMAIN n = DOMAIN r /\ \A d \in DOMAIN r : n[d].deps = r[d].deps /\ r[d].deps \subseteq DOMAIN r
  BY DEF RowsAttempted, RowsStand
<1>2. [d \in DOMAIN n |-> n[d].deps] = [d \in DOMAIN r |-> r[d].deps]
  BY <1>1
<1>3. ASSUME NEW d \in DOMAIN r PROVE StandsOn(n, d)
  <2> DEFINE below == {n[e].state : e \in r[d].deps}
  <2>1. /\ n[d].state \in {"pending", "ready", "running", "blocked", "failed", "completed", "superseded"}
        /\ n[d].tried <=> n[d].state \in {"running", "completed", "failed"}
        /\ n[d].state = "pending" => ~(below \subseteq {"completed"})
    BY DEF RowsAttempted, AttemptedAt
  <2>2. ASSUME n[d].tried \/ n[d].state = "ready" PROVE below \subseteq {"completed", "superseded"}
    <3>1. CASE r[d].tried \/ r[d].state = "ready"
      <4>1. \A e \in r[d].deps : r[e].state \in {"completed", "superseded"}
        BY <3>1 DEF RowsStand, StandsOn
      <4>2. \A e \in r[d].deps : n[e].state = r[e].state
        BY <1>1, <4>1 DEF RowsAttempted, AttemptedAt
      <4> QED BY <4>1, <4>2
    <3>2. CASE ~(r[d].tried \/ r[d].state = "ready")
      BY <2>2, <3>2 DEF RowsAttempted, AttemptedAt
    <3> QED BY <3>1, <3>2
  <2>3. below = {n[e].state : e \in n[d].deps}
    BY <1>1
  <2> HIDE DEF below
  <2> QED BY <2>1, <2>2, <2>3 DEF StandsOn
<1> QED BY <1>1, <1>2, <1>3 DEF RowsStand

(* What waited below an attempt that ended: its states are defined.        *)
NewState(r, d, f) ==
  IF r[d].state = "pending" THEN G!NextStateForDependent({f[x] : x \in r[d].deps}) ELSE r[d].state
SettlesTo(r, f) == f = [d \in DOMAIN r |-> NewState(r, d, f)]
LEMMA StatesAfterAre ==
  ASSUME NEW r, IsFiniteSet(DOMAIN r), \A d \in DOMAIN r : r[d].deps \subseteq DOMAIN r,
         Rooted([d \in DOMAIN r |-> r[d].deps])
  PROVE  SettlesTo(r, StatesAfter(r))
<1> DEFINE C == DOMAIN r
           D == [d \in C |-> r[d].deps]
           T == {r[d].state : d \in C} \cup {"blocked", "ready", "pending"}
           W == C \X UNION {[D[d] -> T] : d \in C}
           H == [p \in W |-> IF r[p[1]].state = "pending"
                             THEN G!NextStateForDependent({p[2][x] : x \in D[p[1]]}) ELSE r[p[1]].state]
<1>1. DOMAIN D = C /\ \A d \in C : D[d] = r[d].deps /\ D[d] \subseteq C
  OBVIOUS
<1> HIDE DEF D
<1>2. ASSUME NEW d \in C, NEW g \in [D[d] -> T]
      PROVE  /\ H[<<d, g>>] \in T
             /\ H[<<d, g>>] = IF r[d].state = "pending"
                              THEN G!NextStateForDependent({g[x] : x \in D[d]}) ELSE r[d].state
  <2>1. <<d, g>> \in W
    OBVIOUS
  <2>2. H[<<d, g>>] = IF r[d].state = "pending"
                      THEN G!NextStateForDependent({g[x] : x \in D[d]}) ELSE r[d].state
    <3> HIDE DEF W
    <3> QED BY <2>1
  <2>3. \A B : G!NextStateForDependent(B) \in {"blocked", "ready", "pending"}
    BY DEF G!NextStateForDependent
  <2> HIDE DEF H
  <2> QED BY <2>2, <2>3
<1> HIDE DEF H, W, T
<1>3. Rooted(D)
  BY DEF D
<1>4. PICK f \in [C -> T] : SolvesAlong(f, D, H)
  <2>1. IsFiniteSet(DOMAIN D) /\ \A d \in DOMAIN D : D[d] \subseteq DOMAIN D
    BY <1>1
  <2>2. \A d \in DOMAIN D : \A g \in [D[d] -> T] : H[<<d, g>>] \in T
    BY <1>1, <1>2
  <2>3. \E f \in [DOMAIN D -> T] : SolvesAlong(f, D, H)
    BY <1>3, <2>1, <2>2, RecursionDefined
  <2> QED BY <1>1, <2>3
<1>5. ASSUME NEW d \in C PROVE f[d] = NewState(r, d, f)
  <2> DEFINE g == [y \in D[d] |-> f[y]]
  <2>1. f[d] = H[<<d, g>>]
    BY <1>4 DEF SolvesAlong
  <2>2. g \in [D[d] -> T] /\ \A x \in D[d] : g[x] = f[x]
    BY <1>1, <1>4
  <2> HIDE DEF g
  <2>3. {g[x] : x \in D[d]} = {f[x] : x \in r[d].deps}
    BY <1>1, <2>2
  <2>4. H[<<d, g>>] = IF r[d].state = "pending"
                      THEN G!NextStateForDependent({g[x] : x \in D[d]}) ELSE r[d].state
    BY <1>2, <2>2
  <2> QED BY <2>1, <2>3, <2>4 DEF NewState
<1>6. SettlesTo(r, f)
  BY <1>4, <1>5 DEF SettlesTo
<1>7. SettlesTo(r, CHOOSE h : SettlesTo(r, h))
  BY <1>6
<1>8. StatesAfter(r) = CHOOSE h : SettlesTo(r, h)
  BY DEF StatesAfter, SettlesTo, NewState
<1> QED BY <1>7, <1>8

LEMMA StartStands ==
  ASSUME RowsOK(rows), RowsStand(rows), NEW id \in DOMAIN rows, StartAttempt(id)
  PROVE  RowsStand(rows')
<1> DEFINE n == rows'
<1>1. rows[id].state = "ready" /\ n = [rows EXCEPT ![id].state = "running", ![id].tried = TRUE]
  BY DEF StartAttempt
<1> HIDE DEF n
<1>2. /\ DOMAIN n = DOMAIN rows
      /\ n[id].state = "running" /\ n[id].tried = TRUE /\ n[id].deps = rows[id].deps
      /\ \A d \in DOMAIN rows : d # id => n[d] = rows[d]
  <2>1. n = [d \in DOMAIN rows |-> IF d = id THEN [rows[d] EXCEPT !.state = "running", !.tried = TRUE] ELSE rows[d]]
    BY <1>1 DEF RowsOK
  <2>2. RowShape(rows[id])
    BY DEF RowsOK
  <2>3. n[id] = [state |-> "running", tried |-> TRUE, pos |-> rows[id].pos, deps |-> rows[id].deps]
    BY <2>1, <2>2 DEF RowShape
  <2>4. DOMAIN n = DOMAIN rows /\ \A d \in DOMAIN rows : d # id => n[d] = rows[d]
    BY <2>1
  <2> QED BY <2>3, <2>4
<1>3. ASSUME NEW d \in DOMAIN rows
      PROVE  AttemptedAt(rows, n, d)
  <2>1. StandsOn(rows, d) /\ rows[d].deps \subseteq DOMAIN rows
    BY DEF RowsStand
  <2>2. CASE d = id
    BY <1>1, <1>2, <2>2 DEF AttemptedAt
  <2>3. CASE d # id
    <3>1. n[d] = rows[d]
      BY <1>2, <2>3
    <3>2. ASSUME n[d].state = "pending" PROVE \E e \in rows[d].deps : n[e].state # "completed"
      <4>1. PICK e \in rows[d].deps : rows[e].state # "completed"
        BY <2>1, <3>1, <3>2 DEF StandsOn
      <4>2. n[e].state # "completed"
        BY <1>2, <2>1, <4>1
      <4> QED BY <4>2
    <3> QED BY <2>1, <3>1, <3>2 DEF StandsOn, AttemptedAt
  <2> QED BY <2>2, <2>3
<1>4. \A d \in DOMAIN rows : n[d].deps = rows[d].deps
  BY <1>2
<1>5. RowsAttempted(rows, n)
  BY <1>2, <1>3, <1>4 DEF RowsAttempted
<1>6. RowsStand(n)
  BY <1>5, AttemptedStand
<1> QED BY <1>6 DEF n

LEMMA EndStands ==
  ASSUME RowsOK(rows), RowsStand(rows), NEW id \in DOMAIN rows, NEW s \in {"completed", "failed"},
         EndAttempt(id, s)
  PROVE  RowsStand(rows')
<1> DEFINE n == rows'
           r == [rows EXCEPT ![id].state = s]
           f == StatesAfter(r)
<1>1. rows[id].state = "running" /\ n = AfterEnd(r)
  BY DEF EndAttempt
<1>2. n = [d \in DOMAIN r |-> [r[d] EXCEPT !.state = f[d]]]
  BY <1>1 DEF AfterEnd
<1> HIDE DEF f, n
<1>3. /\ DOMAIN r = DOMAIN rows
      /\ r[id].state = s /\ r[id].tried = rows[id].tried /\ r[id].deps = rows[id].deps /\ RowShape(r[id])
      /\ \A d \in DOMAIN rows : d # id => r[d] = rows[d]
  <2>1. r = [d \in DOMAIN rows |-> IF d = id THEN [rows[d] EXCEPT !.state = s] ELSE rows[d]]
    BY DEF RowsOK
  <2> HIDE DEF r
  <2>2. RowShape(rows[id])
    BY DEF RowsOK
  <2>3. r[id] = [state |-> s, tried |-> rows[id].tried, pos |-> rows[id].pos, deps |-> rows[id].deps]
    BY <2>1, <2>2 DEF RowShape
  <2>4. DOMAIN r = DOMAIN rows /\ \A d \in DOMAIN rows : d # id => r[d] = rows[d]
    BY <2>1
  <2> QED BY <2>3, <2>4 DEF RowShape
<1> HIDE DEF r
<1>4. ASSUME NEW d \in DOMAIN rows
      PROVE  n[d].state = f[d] /\ n[d].tried = rows[d].tried /\ n[d].deps = rows[d].deps
             /\ r[d].deps = rows[d].deps
  <2>1. RowShape(r[d]) /\ r[d].tried = rows[d].tried /\ r[d].deps = rows[d].deps
    BY <1>3 DEF RowsOK
  <2>2. n[d] = [state |-> f[d], tried |-> r[d].tried, pos |-> r[d].pos, deps |-> r[d].deps]
    BY <1>2, <1>3, <2>1 DEF RowShape
  <2> QED BY <2>1, <2>2
<1>5. DOMAIN n = DOMAIN rows
  BY <1>2, <1>3
<1>6. SettlesTo(r, f)
  <2>1. IsFiniteSet(DOMAIN r) /\ \A d \in DOMAIN r : r[d].deps \subseteq DOMAIN r
    BY <1>3, <1>4 DEF RowsOK
  <2>2. [d \in DOMAIN r |-> r[d].deps] = [d \in DOMAIN rows |-> rows[d].deps]
    BY <1>3, <1>4
  <2>3. Rooted([d \in DOMAIN r |-> r[d].deps])
    BY <2>2 DEF RowsStand
  <2> QED BY <2>1, <2>3, StatesAfterAre DEF f
<1>7. ASSUME NEW d \in DOMAIN rows
      PROVE  AttemptedAt(rows, n, d)
  <2> DEFINE below == {n[e].state : e \in rows[d].deps}
  <2>1. StandsOn(rows, d) /\ rows[d].deps \subseteq DOMAIN rows
    BY DEF RowsStand
  <2>2. f[d] = IF r[d].state = "pending" THEN G!NextStateForDependent({f[x] : x \in r[d].deps}) ELSE r[d].state
    BY <1>3, <1>6 DEF SettlesTo, NewState
  <2>3. {f[x] : x \in r[d].deps} = below
    BY <1>4, <2>1
  <2>4. n[d].state = f[d] /\ n[d].tried = rows[d].tried
    BY <1>4
  <2> HIDE DEF below
  <2>5. CASE d = id
    <3>1. n[d].state = s /\ rows[d].tried
      BY <1>1, <1>3, <2>1, <2>2, <2>4, <2>5 DEF StandsOn
    <3> QED BY <1>1, <2>4, <2>5, <3>1 DEF AttemptedAt
  <2>6. CASE d # id /\ rows[d].state = "pending"
    <3>1. n[d].state = G!NextStateForDependent(below) /\ ~rows[d].tried
      BY <1>3, <2>1, <2>2, <2>3, <2>4, <2>6 DEF StandsOn
    <3>2. /\ n[d].state \in {"blocked", "ready", "pending"}
          /\ n[d].state = "ready" => below \subseteq {"completed", "superseded"}
          /\ n[d].state = "pending" => ~(below \subseteq {"completed"})
      BY <3>1 DEF G!NextStateForDependent
    <3> QED BY <2>4, <2>6, <3>1, <3>2 DEF AttemptedAt, below
  <2>7. CASE d # id /\ rows[d].state # "pending"
    <3>1. n[d].state = rows[d].state
      BY <1>3, <2>2, <2>4, <2>7
    <3> QED BY <2>1, <2>4, <2>7, <3>1 DEF StandsOn, AttemptedAt
  <2> QED BY <2>5, <2>6, <2>7
<1>8. RowsAttempted(rows, n)
  BY <1>4, <1>5, <1>7 DEF RowsAttempted
<1>9. RowsStand(n)
  BY <1>8, AttemptedStand
<1> QED BY <1>9 DEF n

-----------------------------------------------------------------------------
(* A resolved plan as the rows it will be, under the ids it uses.          *)
EntriesOnce(X) == \A t, u \in X : t.id = u.id => t = u
EntryNamed(X, d) == CHOOSE t \in X : t.id = d
AsRow(r, plan, d) ==
  IF d \in plan.superseded
  THEN [state |-> "superseded", tried |-> r[d].tried, deps |-> r[d].deps]
  ELSE LET t == EntryNamed(ToSet(plan.tasks), d) IN [state |-> t.state, tried |-> t.tried, deps |-> t.deps]
AsRows(r, plan) == [d \in Ids(plan.tasks) \cup plan.superseded |-> AsRow(r, plan, d)]

LEMMA PlacedStands ==
  ASSUME NEW r, NEW plan, EntriesOnce(ToSet(plan.tasks)), RowsStand(AsRows(r, plan)),
         NEW n, Placed(r, plan, n)
  PROVE  RowsStand(n)
<1> DEFINE gone == plan.superseded
           X == ToSet(plan.tasks)
           known == Ids(plan.tasks) \cup gone
           q == AsRows(r, plan)
<1>1. PICK f \in [known -> DOMAIN n] :
       /\ \A a, b \in known : f[a] = f[b] => a = b
       /\ \A id \in DOMAIN n : \E d \in known : f[d] = id
       /\ \A c \in gone : /\ n[f[c]].state = "superseded" /\ n[f[c]].tried = r[c].tried
                          /\ n[f[c]].deps = {f[e] : e \in r[c].deps}
       /\ \A d \in known \ gone : \E t \in X :
            /\ t.id = d /\ n[f[d]].state = t.state /\ n[f[d]].tried = t.tried
            /\ n[f[d]].deps = {f[e] : e \in t.deps}
  BY DEF Placed
<1>2. DOMAIN q = known /\ \A d \in known : q[d] = AsRow(r, plan, d)
  BY DEF AsRows
<1> HIDE DEF q
<1>3. ASSUME NEW d \in known
      PROVE  n[f[d]].state = q[d].state /\ n[f[d]].tried = q[d].tried /\ n[f[d]].deps = {f[e] : e \in q[d].deps}
  <2>1. CASE d \in gone
    <3>1. q[d] = [state |-> "superseded", tried |-> r[d].tried, deps |-> r[d].deps]
      BY <1>2, <2>1 DEF AsRow
    <3>2. q[d].state = "superseded" /\ q[d].tried = r[d].tried /\ q[d].deps = r[d].deps
      BY <3>1
    <3> QED BY <1>1, <2>1, <3>2
  <2>2. CASE d \notin gone
    <3>1. PICK t \in X : /\ t.id = d /\ n[f[d]].state = t.state /\ n[f[d]].tried = t.tried
                         /\ n[f[d]].deps = {f[e] : e \in t.deps}
      BY <1>1, <2>2
    <3>2. EntryNamed(X, d) = t
      BY <3>1 DEF EntryNamed, EntriesOnce
    <3>3. q[d] = [state |-> t.state, tried |-> t.tried, deps |-> t.deps]
      BY <1>2, <2>2, <3>2 DEF AsRow
    <3>4. q[d].state = t.state /\ q[d].tried = t.tried /\ q[d].deps = t.deps
      BY <3>3
    <3> QED BY <3>1, <3>4
  <2> QED BY <2>1, <2>2
<1>4. Renames(q, n, f)
  BY <1>1, <1>2, <1>3 DEF Renames
<1> QED BY <1>4, RenamedStand DEF q

-----------------------------------------------------------------------------
(* The states of a list computed anew: they are defined.                   *)
LEMMA IdsFinite ==
  ASSUME NEW T, NEW list \in Seq(T)
  PROVE  IsFiniteSet(Ids(list))
<1> DEFINE X == ToSet(list)
           I == Ids(list)
           f == [x \in X |-> x.id]
<1>1. IsFiniteSet(X)
  BY ContentsFinite
<1>2. I = {x.id : x \in X}
  BY IdsAre
<1> HIDE DEF I, X
<1>3. f \in Surjection(X, I)
  BY <1>2 DEF Surjection
<1> HIDE DEF f
<1>4. IsFiniteSet(I)
  BY <1>1, <1>3, FS_Surjection
<1> QED BY <1>4 DEF I

LEMMA NamedOnce ==
  ASSUME NEW T, NEW list \in Seq(T), EntriesOnce(ToSet(list)), NEW t \in ToSet(list)
  PROVE  t.id \in Ids(list) /\ Named(list, t.id) = t
<1>1. t.id \in Ids(list)
  BY IdsAre
<1>2. IndexOf(list, t.id) \in DOMAIN list /\ list[IndexOf(list, t.id)].id = t.id
      /\ Named(list, t.id) = list[IndexOf(list, t.id)]
  BY <1>1, NamedIs
<1>3. Named(list, t.id) \in ToSet(list) /\ Named(list, t.id).id = t.id
  BY <1>2 DEF ToSet
<1> QED BY <1>1, <1>3 DEF EntriesOnce

BelowIn(list, d, f) == {IF e \in Ids(list) THEN f[e] ELSE "pending" : e \in Named(list, d).deps}
Derived(t, below) ==
  CASE ~Recomputed(t) -> t.state
    [] Recomputed(t) /\ below \cap {"failed", "blocked", "superseded"} # {} -> "blocked"
    [] Recomputed(t) /\ below \subseteq {"completed"} -> "ready"
    [] OTHER -> "pending"
Derives(list, f) == f = [d \in Ids(list) |-> Derived(Named(list, d), BelowIn(list, d, f))]
LEMMA DerivedIs ==
  ASSUME NEW t, NEW below
  PROVE  /\ ~Recomputed(t) => Derived(t, below) = t.state
         /\ Recomputed(t) => /\ Derived(t, below) \in {"blocked", "ready", "pending"}
                             /\ Derived(t, below) = "ready" => below \subseteq {"completed"}
                             /\ Derived(t, below) = "pending" => ~(below \subseteq {"completed"})
<1>1. CASE ~Recomputed(t)
  BY <1>1 DEF Derived
<1>2. CASE Recomputed(t) /\ below \cap {"failed", "blocked", "superseded"} # {}
  <2>1. Derived(t, below) = "blocked"
    BY <1>2 DEF Derived
  <2> QED BY <1>2, <2>1
<1>3. CASE Recomputed(t) /\ below \cap {"failed", "blocked", "superseded"} = {} /\ below \subseteq {"completed"}
  <2>1. Derived(t, below) = "ready"
    BY <1>3 DEF Derived
  <2> QED BY <1>3, <2>1
<1>4. CASE Recomputed(t) /\ below \cap {"failed", "blocked", "superseded"} = {} /\ ~(below \subseteq {"completed"})
  <2>1. Derived(t, below) = "pending"
    BY <1>4 DEF Derived
  <2> QED BY <1>4, <2>1
<1> QED BY <1>1, <1>2, <1>3, <1>4

LEMMA NewStatesAre ==
  ASSUME NEW U, NEW list \in Seq(U), Rooted(Links(list))
  PROVE  Derives(list, NewStates(list))
<1> DEFINE I == Ids(list)
           D == Links(list)
           T == {Named(list, d).state : d \in I} \cup {"blocked", "ready", "pending"}
           W == I \X UNION {[D[d] -> T] : d \in I}
           H == [p \in W |-> Derived(Named(list, p[1]), BelowIn(list, p[1], p[2]))]
<1>1. DOMAIN D = I /\ \A d \in I : D[d] = Named(list, d).deps \cap I
  BY DEF Links
<1>2. IsFiniteSet(I) /\ Rooted(D)
  BY IdsFinite
<1> HIDE DEF D, I
<1>3. ASSUME NEW d \in I, NEW g \in [D[d] -> T]
      PROVE  H[<<d, g>>] \in T /\ H[<<d, g>>] = Derived(Named(list, d), BelowIn(list, d, g))
  <2>1. <<d, g>> \in W
    OBVIOUS
  <2>2. H[<<d, g>>] = Derived(Named(list, d), BelowIn(list, d, g))
    <3> HIDE DEF W
    <3> QED BY <2>1
  <2>3. Derived(Named(list, d), BelowIn(list, d, g)) \in T
    BY DerivedIs
  <2> HIDE DEF H, T
  <2> QED BY <2>2, <2>3
<1> HIDE DEF H, W, T
<1>4. PICK f \in [I -> T] : SolvesAlong(f, D, H)
  <2>1. IsFiniteSet(DOMAIN D) /\ \A d \in DOMAIN D : D[d] \subseteq DOMAIN D
    BY <1>1, <1>2
  <2>2. \A d \in DOMAIN D : \A g \in [D[d] -> T] : H[<<d, g>>] \in T
    BY <1>1, <1>3
  <2>3. \E f \in [DOMAIN D -> T] : SolvesAlong(f, D, H)
    BY <1>2, <2>1, <2>2, RecursionDefined
  <2> QED BY <1>1, <2>3
<1>5. ASSUME NEW d \in I PROVE f[d] = Derived(Named(list, d), BelowIn(list, d, f))
  <2> DEFINE g == [y \in D[d] |-> f[y]]
  <2>1. f[d] = H[<<d, g>>]
    BY <1>4 DEF SolvesAlong
  <2>2. g \in [D[d] -> T] /\ \A x \in D[d] : g[x] = f[x]
    BY <1>1, <1>4
  <2> HIDE DEF g
  <2>3. BelowIn(list, d, g) = BelowIn(list, d, f)
    BY <1>1, <2>2 DEF BelowIn, I
  <2> QED BY <1>3, <2>1, <2>2, <2>3
<1>6. Derives(list, f)
  BY <1>4, <1>5 DEF Derives, I
<1>7. Derives(list, CHOOSE h : Derives(list, h))
  BY <1>6
<1>8. NewStates(list) = CHOOSE h : Derives(list, h)
  BY DEF NewStates, Derives, Derived, BelowIn
<1> QED BY <1>7, <1>8

BelowEach(r, list, gone) ==
  [d \in Ids(list) \cup gone |-> IF d \in gone THEN r[d].deps ELSE Named(list, d).deps]
PlanStands(r, plan) == EntriesOnce(ToSet(plan.tasks)) /\ RowsStand(AsRows(r, plan))
LEMMA RecomputedStand ==
  ASSUME NEW r, RowsOK(r), RowsStand(r), NEW list \in Seq(Entry(r)), NEW gone \in SUBSET DOMAIN r,
         Contents(r, ToSet(list), gone), EntriesOnce(ToSet(list)), gone \cap Ids(list) = {},
         \A c \in gone : ~IsImmutable(r[c]) /\ r[c].deps \subseteq Ids(list) \cup gone,
         Rooted(BelowEach(r, list, gone)), NEW why
  PROVE  PlanStands(r, [result |-> why, tasks |-> RecomputeStates(list), superseded |-> gone])
<1> DEFINE I == Ids(list)
           X == ToSet(list)
           f == NewStates(list)
           p == RecomputeStates(list)
           plan == [result |-> why, tasks |-> p, superseded |-> gone]
           q == AsRows(r, plan)
<1>1. /\ DOMAIN p = DOMAIN list
      /\ \A i \in DOMAIN list :
           p[i] = [list[i] EXCEPT !.state = IF Recomputed(list[i]) THEN f[list[i].id] ELSE @]
  BY DEF RecomputeStates
<1>2. Derives(list, f)
  <2>1. \A S \in SUBSET I : S # {} => \E x \in S : Named(list, x).deps \cap S = {}
    <3> SUFFICES ASSUME NEW S \in SUBSET I, S # {} PROVE \E x \in S : Named(list, x).deps \cap S = {}
      OBVIOUS
    <3> DEFINE B == BelowEach(r, list, gone)
    <3>1. DOMAIN B = I \cup gone /\ \A x \in I : B[x] = Named(list, x).deps
      BY DEF BelowEach
    <3>2. S \in SUBSET DOMAIN B
      BY <3>1
    <3> HIDE DEF B
    <3>3. PICK x \in S : B[x] \cap S = {}
      BY <3>2 DEF Rooted, B
    <3> QED BY <3>1, <3>3
  <2> DEFINE L == Links(list)
  <2>2. DOMAIN L = I /\ \A x \in I : L[x] \subseteq Named(list, x).deps
    BY DEF Links
  <2> HIDE DEF L
  <2>3. Rooted(L)
    <3> SUFFICES ASSUME NEW S \in SUBSET I, S # {} PROVE \E x \in S : L[x] \cap S = {}
      BY <2>2 DEF Rooted
    <3>1. PICK x \in S : Named(list, x).deps \cap S = {}
      BY <2>1
    <3>2. L[x] \cap S = {}
      BY <2>2, <3>1
    <3> QED BY <3>2
  <2> QED BY <2>3, NewStatesAre DEF L
<1> HIDE DEF f, p
<1>3. ASSUME NEW t \in X
      PROVE  /\ t \in Entry(r) /\ EntryOf(r, t) /\ t.deps \subseteq I \cup gone
             /\ t.id \in I /\ Named(list, t.id) = t
             /\ f[t.id] = Derived(t, BelowIn(list, t.id, f))
  <2>1. t.id \in I /\ Named(list, t.id) = t
    BY NamedOnce
  <2>2. f[t.id] = Derived(t, BelowIn(list, t.id, f))
    BY <1>2, <2>1 DEF Derives
  <2> QED BY <2>1, <2>2, IdsAre DEF Contents
<1>4. ASSUME NEW i \in DOMAIN list
      PROVE  /\ list[i] \in X
             /\ p[i].id = list[i].id /\ p[i].tried = list[i].tried /\ p[i].deps = list[i].deps
             /\ p[i].state = f[list[i].id]
             /\ p[i] = [list[i] EXCEPT !.state = f[list[i].id]]
  <2>1. list[i] \in X
    BY DEF ToSet
  <2>2. list[i] \in Entry(r) /\ f[list[i].id] = Derived(list[i], BelowIn(list, list[i].id, f))
    BY <1>3, <2>1
  <2>3. (IF Recomputed(list[i]) THEN f[list[i].id] ELSE list[i].state) = f[list[i].id]
    BY <2>2, DerivedIs
  <2>4. p[i] = [list[i] EXCEPT !.state = f[list[i].id]]
    BY <1>1, <2>3
  <2> QED BY <2>1, <2>2, <2>4 DEF Entry
<1>5. EntriesOnce(ToSet(p))
  <2> SUFFICES ASSUME NEW i \in DOMAIN list, NEW j \in DOMAIN list, p[i].id = p[j].id PROVE p[i] = p[j]
    BY <1>1 DEF EntriesOnce, ToSet
  <2>1. list[i] \in X /\ list[j] \in X /\ list[i].id = list[j].id
    BY <1>4
  <2> HIDE DEF X
  <2>2. list[i] = list[j]
    BY <2>1 DEF EntriesOnce, X
  <2> QED BY <1>4, <2>2
<1>6. Ids(p) = I
  BY <1>1, <1>4 DEF Ids
<1>7. DOMAIN q = I \cup gone /\ \A d \in I \cup gone : q[d] = AsRow(r, plan, d)
  BY <1>6 DEF AsRows
<1>8. plan.tasks = p /\ plan.superseded = gone
  OBVIOUS
<1> HIDE DEF q, plan
<1>9. ASSUME NEW c \in gone
      PROVE  /\ q[c].state = "superseded" /\ q[c].tried = FALSE /\ q[c].deps = r[c].deps
             /\ q[c].deps \subseteq I \cup gone
  <2>1. q[c] = [state |-> "superseded", tried |-> r[c].tried, deps |-> r[c].deps]
    BY <1>7, <1>8 DEF AsRow
  <2>2. r[c].tried = FALSE
    BY DEF IsImmutable, RowsOK
  <2> QED BY <2>1, <2>2
<1>10. ASSUME NEW t \in X
       PROVE  /\ q[t.id].state = f[t.id] /\ q[t.id].tried = t.tried /\ q[t.id].deps = t.deps
  <2>1. PICK i \in DOMAIN list : list[i] = t
    BY DEF ToSet
  <2>2. p[i] \in ToSet(p) /\ p[i].id = t.id /\ p[i].state = f[t.id] /\ p[i].tried = t.tried /\ p[i].deps = t.deps
    BY <1>1, <1>4, <2>1 DEF ToSet
  <2>3. EntryNamed(ToSet(p), t.id) = p[i]
    BY <1>5, <2>2 DEF EntryNamed, EntriesOnce
  <2>4. t.id \notin gone /\ t.id \in I
    BY <1>3
  <2>5. q[t.id] = [state |-> p[i].state, tried |-> p[i].tried, deps |-> p[i].deps]
    BY <1>7, <1>8, <2>3, <2>4 DEF AsRow
  <2>6. q[t.id].state = p[i].state /\ q[t.id].tried = p[i].tried /\ q[t.id].deps = p[i].deps
    BY <2>5
  <2> QED BY <2>2, <2>6
<1>11. \A d \in I : \E t \in X : t.id = d
  BY IdsAre
<1>12. \A d \in I : q[d].state = f[d]
  BY <1>10, <1>11
<1>13. \A d \in DOMAIN q : q[d].deps \subseteq DOMAIN q
  <2> SUFFICES ASSUME NEW d \in I \cup gone PROVE q[d].deps \subseteq I \cup gone
    BY <1>7
  <2>1. CASE d \in gone
    BY <1>9, <2>1
  <2>2. CASE d \in I
    BY <1>3, <1>10, <1>11, <2>2
  <2> QED BY <2>1, <2>2
<1>14. Rooted([d \in DOMAIN q |-> q[d].deps])
  <2>1. ASSUME NEW d \in I \cup gone PROVE q[d].deps = IF d \in gone THEN r[d].deps ELSE Named(list, d).deps
    <3>1. CASE d \in gone
      BY <1>9, <3>1
    <3>2. CASE d \notin gone
      <4>1. PICK t \in X : t.id = d
        BY <1>11, <3>2
      <4>2. q[d].deps = t.deps /\ Named(list, d) = t
        BY <1>3, <1>10, <4>1
      <4> QED BY <3>2, <4>2
    <3> QED BY <3>1, <3>2
  <2>2. [d \in DOMAIN q |-> q[d].deps] = BelowEach(r, list, gone)
    BY <1>7, <2>1 DEF BelowEach
  <2> QED BY <2>2
<1>15. ASSUME NEW c \in gone PROVE StandsOn(q, c)
  BY <1>9 DEF StandsOn
<1>16. ASSUME NEW t \in X, Recomputed(t) PROVE StandsOn(q, t.id)
  <2> DEFINE below == {q[e].state : e \in t.deps}
             inner == BelowIn(list, t.id, f)
  <2>1. /\ f[t.id] \in {"blocked", "ready", "pending"}
        /\ f[t.id] = "ready" => inner \subseteq {"completed"}
        /\ f[t.id] = "pending" => ~(inner \subseteq {"completed"})
    <3> HIDE DEF inner
    <3>1. f[t.id] = Derived(t, inner)
      BY <1>3 DEF inner
    <3> QED BY <1>16, <3>1, DerivedIs
  <2>2. inner = {IF e \in I THEN f[e] ELSE "pending" : e \in t.deps}
    BY <1>3 DEF BelowIn
  <2>3. t.deps \subseteq I \cup gone /\ gone \cap I = {}
    BY <1>3
  <2> HIDE DEF inner
  <2>4. f[t.id] = "ready" => below \subseteq {"completed", "superseded"}
    <3> SUFFICES ASSUME f[t.id] = "ready", NEW e \in t.deps PROVE q[e].state = "completed"
      OBVIOUS
    <3>1. (IF e \in I THEN f[e] ELSE "pending") = "completed"
      BY <2>1, <2>2
    <3>2. e \in I
      BY <3>1
    <3> QED BY <1>12, <3>1, <3>2
  <2>5. f[t.id] = "pending" => ~(below \subseteq {"completed"})
    <3> SUFFICES ASSUME f[t.id] = "pending" PROVE \E e \in t.deps : q[e].state # "completed"
      OBVIOUS
    <3>1. PICK e \in t.deps : (IF e \in I THEN f[e] ELSE "pending") # "completed"
      BY <2>1, <2>2
    <3>2. CASE e \in I
      BY <1>12, <3>1, <3>2
    <3>3. CASE e \notin I
      BY <1>9, <2>3, <3>3
    <3> QED BY <3>2, <3>3
  <2>6. t.tried = FALSE
    BY <1>3, <1>16 DEF Recomputed, EntryOf, Entry
  <2>7. q[t.id].state = f[t.id] /\ q[t.id].tried = FALSE /\ below = {q[e].state : e \in q[t.id].deps}
    BY <1>10, <2>6
  <2> HIDE DEF below
  <2> QED BY <2>1, <2>4, <2>5, <2>7 DEF StandsOn
<1>17. ASSUME NEW t \in X, ~Recomputed(t) PROVE StandsOn(q, t.id)
  <2>1. /\ f[t.id] = t.state /\ ~t.new /\ t.id \in DOMAIN r /\ t.state = r[t.id].state
        /\ t.tried = r[t.id].tried /\ t.tried \in BOOLEAN
    <3>1. f[t.id] = t.state
      BY <1>3, <1>17, DerivedIs
    <3>2. ~t.new
      BY <1>17 DEF Recomputed
    <3> QED BY <1>3, <3>1, <3>2 DEF EntryOf, Entry
  <2>2. StandsOn(r, t.id)
    BY <2>1 DEF RowsStand
  <2>3. q[t.id].state = t.state /\ q[t.id].tried = t.tried /\ q[t.id].deps = t.deps
    BY <1>10, <2>1
  <2>4. CASE t.tried
    <3>1. Loaded(r, t.id) \in X /\ Loaded(r, t.id).id = t.id /\ Loaded(r, t.id).deps = r[t.id].deps
      BY <2>1, <2>4 DEF Contents, IsImmutable, Loaded
    <3>2. t.deps = r[t.id].deps
      BY <3>1 DEF EntriesOnce
    <3>3. ASSUME NEW e \in t.deps PROVE q[e].state \in {"completed", "superseded"}
      <4>1. r[e].state \in {"completed", "superseded"} /\ e \in DOMAIN r
        BY <2>1, <2>2, <2>4, <3>2, <3>3 DEF StandsOn, RowsOK
      <4> DEFINE u == Loaded(r, e)
      <4>2. u \in X /\ u.id = e /\ u.state = r[e].state /\ u.new = FALSE /\ u.tried = r[e].tried
        BY <4>1 DEF Contents, IsImmutable, Settled, Loaded
      <4> HIDE DEF u
      <4>3. ~Recomputed(u)
        BY <4>1, <4>2 DEF Recomputed
      <4>4. f[e] = u.state
        BY <1>3, <4>2, <4>3, DerivedIs
      <4>5. q[e].state = f[e]
        BY <1>10, <4>2
      <4> QED BY <4>1, <4>2, <4>4, <4>5
    <3> QED BY <2>1, <2>2, <2>3, <2>4, <3>3 DEF StandsOn
  <2>5. CASE ~t.tried
    <3>1. t.state = "superseded"
      BY <1>17, <2>1, <2>2, <2>5 DEF StandsOn, Recomputed
    <3> QED BY <2>1, <2>3, <2>5, <3>1 DEF StandsOn
  <2> QED BY <2>1, <2>4, <2>5
<1>18. ASSUME NEW d \in DOMAIN q PROVE StandsOn(q, d)
  <2>1. CASE d \in gone
    BY <1>15, <2>1
  <2>2. CASE d \in I
    BY <1>11, <1>16, <1>17, <2>2
  <2> QED BY <1>7, <2>1, <2>2
<1>19. RowsStand(q)
  BY <1>13, <1>14, <1>18 DEF RowsStand
<1> QED BY <1>5, <1>8, <1>19 DEF PlanStands, q, plan, p

-----------------------------------------------------------------------------
(* The tasks of a patch in the making occur once each: the drafts do, when *)
(* their client ids are told apart.                                        *)
AddsApart(steps) ==
  \A i, j \in DOMAIN steps :
    steps[i].kind = "add" /\ steps[j].kind = "add" /\ steps[i].task = steps[j].task => i = j
Gains(s, t, m) == \A d \in Ids(t) : d \in Ids(s) \/ (m.kind = "add" /\ d = m.task)

LEMMA AppendOnce ==
  ASSUME NEW T, NEW s \in Seq(T), NEW t \in T, IdsOnce(s), t.id \notin Ids(s)
  PROVE  IdsOnce(Append(s, t)) /\ Ids(Append(s, t)) = Ids(s) \cup {t.id}
<1> DEFINE a == Append(s, t)
<1>1. /\ DOMAIN a = 1 .. Len(s) + 1 /\ \A i \in 1 .. Len(s) : a[i] = s[i]
      /\ a[Len(s) + 1] = t /\ DOMAIN s = 1 .. Len(s) /\ Len(s) \in Nat
  OBVIOUS
<1> HIDE DEF a
<1>2. \A i \in 1 .. Len(s) : s[i].id # t.id
  BY <1>1 DEF Ids
<1>3. IdsOnce(a)
  <2> SUFFICES ASSUME NEW i \in 1 .. Len(s) + 1, NEW j \in 1 .. Len(s) + 1, a[i].id = a[j].id PROVE i = j
    BY <1>1 DEF IdsOnce
  <2>1. CASE i = Len(s) + 1
    BY <1>1, <1>2, <2>1
  <2>2. CASE j = Len(s) + 1
    BY <1>1, <1>2, <2>2
  <2>3. CASE i \in 1 .. Len(s) /\ j \in 1 .. Len(s)
    BY <1>1, <2>3 DEF IdsOnce
  <2> QED BY <1>1, <2>1, <2>2, <2>3
<1>4. ToSet(a) = ToSet(s) \cup {t}
  BY ContentsOfAppend DEF a
<1>5. Ids(a) = Ids(s) \cup {t.id}
  BY <1>4, IdsAre
<1> QED BY <1>3, <1>5 DEF a

LEMMA SiftOnce ==
  ASSUME NEW T, NEW s \in Seq(T), NEW S, IdsOnce(s)
  PROVE  IdsOnce(Sift(s, S)) /\ Ids(Sift(s, S)) \subseteq Ids(s)
<1> DEFINE g == Sift(s, S)
<1>1. g \in Seq(T) /\ ToSet(g) = ToSet(s) \cap S /\ DOMAIN s = 1 .. Len(s)
  BY SiftContents
<1>2. \A i, j \in DOMAIN g : i < j => \E p, q \in DOMAIN s : p < q /\ g[i] = s[p] /\ g[j] = s[q]
  BY SiftInOrder
<1> HIDE DEF g
<1>3. \A i, j \in DOMAIN g : g[i].id = g[j].id => ~(i < j)
  <2> SUFFICES ASSUME NEW i \in DOMAIN g, NEW j \in DOMAIN g, g[i].id = g[j].id, i < j PROVE FALSE
    OBVIOUS
  <2>1. PICK p \in DOMAIN s, q \in DOMAIN s : p < q /\ g[i] = s[p] /\ g[j] = s[q]
    BY <1>2
  <2>2. p = q
    BY <2>1 DEF IdsOnce
  <2> QED BY <1>1, <2>1, <2>2
<1>4. \A i, j \in DOMAIN g : i < j \/ j < i \/ i = j
  BY <1>1
<1>5. IdsOnce(g)
  BY <1>3, <1>4 DEF IdsOnce
<1>6. Ids(g) \subseteq Ids(s)
  BY <1>1, IdsAre
<1> QED BY <1>5, <1>6 DEF g

LEMMA SetDepsOnce ==
  ASSUME NEW r, NEW w, Working(r, w), IdsOnce(w.tasks), NEW id \in Ids(w.tasks), NEW deps
  PROVE  IdsOnce(SetDeps(w, id, deps).tasks) /\ Ids(SetDeps(w, id, deps).tasks) = Ids(w.tasks)
<1> DEFINE s == w.tasks
           k == IndexOf(s, id)
           g == [s EXCEPT ![k].deps = deps]
<1>1. w \in WorkShape(r) /\ s \in Seq(Entry(r))
  BY DEF Working, WorkShape
<1>2. SetDeps(w, id, deps).tasks = g
  BY <1>1 DEF SetDeps, WorkShape
<1>3. k \in DOMAIN s
  BY <1>1, NamedIs
<1> HIDE DEF k, s
<1>4. \A i \in DOMAIN s : g[i].id = s[i].id
  <2> SUFFICES ASSUME NEW i \in DOMAIN s PROVE g[i].id = s[i].id
    OBVIOUS
  <2>1. s[i] \in Entry(r)
    BY <1>1
  <2>2. g[i] = IF i = k THEN [s[i] EXCEPT !.deps = deps] ELSE s[i]
    BY <1>1, <1>3
  <2> QED BY <2>1, <2>2 DEF Entry
<1>5. DOMAIN g = DOMAIN s
  OBVIOUS
<1> HIDE DEF g
<1>6. IdsOnce(g) /\ Ids(g) = Ids(s)
  BY <1>4, <1>5 DEF IdsOnce, Ids, s
<1> QED BY <1>2, <1>6 DEF s

LEMMA MutateOnce ==
  ASSUME NEW r, NEW w, Working(r, w), IdsOnce(w.tasks), NEW m \in Mutations,
         m.kind = "add" => m.task \notin Ids(w.tasks)
  PROVE  IdsOnce(Mutate(r, w, m).tasks) /\ Gains(w.tasks, Mutate(r, w, m).tasks, m)
<1> DEFINE v == Mutate(r, w, m)
           Right(x) == IdsOnce(x.tasks) /\ Gains(w.tasks, x.tasks, m)
<1>1. w \in WorkShape(r) /\ w.tasks \in Seq(Entry(r)) /\ Faithful(r, w.tasks)
  BY DEF Working, WorkShape
<1>2. /\ m.task \in TaskRefs
      /\ m.kind \in {"add", "update", "remove", "reorder", "depend", "undepend"}
  BY MutationFields
<1>3. Right(w) /\ \A x : x.tasks = w.tasks => Right(x)
  BY DEF Gains
<1>4. Refuse(w).tasks = w.tasks /\ Panic(w).tasks = w.tasks
  BY <1>1 DEF Refuse, Panic, WorkShape
<1>5. ASSUME NEW b PROVE [w EXCEPT !.refused = b].tasks = w.tasks /\ [w EXCEPT !.moves = b].tasks = w.tasks
  BY <1>1 DEF WorkShape
<1>6. ASSUME m.kind = "add" PROVE Right(AddDraft(r, w, m))
  <2> DEFINE good == {d \in m.deps : KnownIn(w, d) /\ d # m.task /\ ~Supersedes(r, d)}
             t == [id |-> m.task, new |-> TRUE, state |-> "pending", tried |-> FALSE, deps |-> good]
  <2>1. m.deps \subseteq TaskRefs
    BY <1>6, MutationFields
  <2>2. t \in Entry(r) /\ t.id = m.task
    BY <1>2, <2>1 DEF Entry
  <2>3. AddDraft(r, w, m) = [w EXCEPT !.refused = @ \/ ~m.ok \/ good # m.deps, !.tasks = Append(@, t)]
    BY DEF AddDraft
  <2> HIDE DEF t, good
  <2>4. AddDraft(r, w, m).tasks = Append(w.tasks, t)
    BY <1>1, <2>3 DEF WorkShape
  <2>5. IdsOnce(Append(w.tasks, t)) /\ Ids(Append(w.tasks, t)) = Ids(w.tasks) \cup {m.task}
    BY <1>1, <1>6, <2>2, AppendOnce
  <2> QED BY <1>6, <2>4, <2>5 DEF Gains
<1>7. Right(RemoveTask(w, m))
  <2> DEFINE S == {t \in ToSet(w.tasks) : t.id \notin {m.task}}
  <2>1. RemoveTask(w, m).tasks = Sift(w.tasks, S)
    BY <1>1 DEF RemoveTask, WorkShape, Without
  <2> HIDE DEF S
  <2>2. IdsOnce(Sift(w.tasks, S)) /\ Ids(Sift(w.tasks, S)) \subseteq Ids(w.tasks)
    BY <1>1, SiftOnce
  <2> QED BY <2>1, <2>2 DEF Gains
<1>8. ASSUME m.task \in Ids(w.tasks) PROVE Right(ChangeDependency(r, w, m))
  <2> DEFINE deps == Named(w.tasks, m.task).deps
             to == IF m.kind = "depend" THEN deps \cup {m.on} ELSE deps \ {m.on}
  <2> HIDE DEF deps
  <2>1. Right(SetDeps(w, m.task, to))
    <3> HIDE DEF to
    <3>1. IdsOnce(SetDeps(w, m.task, to).tasks) /\ Ids(SetDeps(w, m.task, to).tasks) = Ids(w.tasks)
      BY <1>8, SetDepsOnce
    <3> QED BY <3>1 DEF Gains
  <2>2. ChangeDependency(r, w, m) \in {Refuse(w), SetDeps(w, m.task, to)}
    BY DEF ChangeDependency, deps
  <2> HIDE DEF Right, to
  <2> QED BY <1>3, <1>4, <2>1, <2>2
<1>9. Right(Refuse(w)) /\ Right(Panic(w)) /\ \A b : Right([w EXCEPT !.refused = b]) /\ Right([w EXCEPT !.moves = b])
  <2> HIDE DEF Right
  <2> QED BY <1>3, <1>4, <1>5
<1> HIDE DEF Right
<1>10. CASE w.panicked
  <2>1. v = w
    BY <1>10 DEF Mutate
  <2> HIDE DEF v
  <2>2. Right(v)
    BY <1>3, <2>1
  <2> QED BY <2>2 DEF Right, v
<1>11. CASE ~w.panicked /\ m.kind = "add"
  <2>1. v = AddDraft(r, w, m)
    BY <1>11 DEF Mutate
  <2> HIDE DEF v
  <2>2. Right(v)
    BY <1>6, <1>11, <2>1
  <2> QED BY <2>2 DEF Right, v
<1>12. CASE ~w.panicked /\ m.kind # "add"
  <2>1. CASE m.task \notin Ids(w.tasks) \/ IsImmutable(Named(w.tasks, m.task))
    <3>1. v \in {Refuse(w), Panic(w)}
      BY <1>12, <2>1 DEF Mutate
    <3> HIDE DEF v
    <3>2. Right(v)
      BY <1>9, <3>1
    <3> QED BY <3>2 DEF Right, v
  <2>2. CASE m.task \in Ids(w.tasks) /\ ~IsImmutable(Named(w.tasks, m.task))
    <3>1. CASE m.kind = "update"
      <4>1. v \in {Refuse(w), [w EXCEPT !.refused = @ \/ ~m.ok]}
        BY <1>12, <2>2, <3>1 DEF Mutate
      <4> HIDE DEF v
      <4>2. Right(v)
        BY <1>9, <4>1
      <4> QED BY <4>2 DEF Right, v
    <3>2. CASE m.kind = "remove"
      <4>1. v \in {Refuse(w), RemoveTask(w, m)}
        BY <1>12, <2>2, <3>2 DEF Mutate
      <4> HIDE DEF v
      <4>2. Right(v)
        BY <1>7, <1>9, <4>1
      <4> QED BY <4>2 DEF Right, v
    <3>3. CASE m.kind = "reorder"
      <4>1. v \in {Refuse(w), [w EXCEPT !.moves = Append(@, m)]}
        BY <1>12, <2>2, <3>3 DEF Mutate
      <4> HIDE DEF v
      <4>2. Right(v)
        BY <1>9, <4>1
      <4> QED BY <4>2 DEF Right, v
    <3>4. CASE m.kind \in {"depend", "undepend"}
      <4>1. v \in {Refuse(w), ChangeDependency(r, w, m)}
        BY <1>12, <2>2, <3>4 DEF Mutate
      <4> HIDE DEF v
      <4>2. Right(v)
        BY <1>8, <1>9, <2>2, <4>1
      <4> QED BY <4>2 DEF Right, v
    <3> QED BY <1>2, <1>12, <3>1, <3>2, <3>3, <3>4
  <2> QED BY <2>1, <2>2
<1> QED BY <1>10, <1>11, <1>12

LEMMA StepsOnce ==
  ASSUME NEW r, RowsOK(r), NEW patch \in Seq(Mutations), NEW steps \in Seq(Mutations), AddsApart(steps)
  PROVE  IdsOnce(AfterEdits(r, patch, steps)[Len(steps)].tasks)
<1> DEFINE N == Len(steps)
           after == AfterEdits(r, patch, steps)
           Added(k) == {steps[i].task : i \in {j \in 1 .. k : steps[j].kind = "add"}}
           Right(k) == /\ Working(r, after[k]) /\ IdsOnce(after[k].tasks)
                       /\ \A d \in Ids(after[k].tasks) : d > 0 \/ d \in Added(k)
           Good == {k \in Nat : k =< N => Right(k)}
<1>1. N \in Nat /\ DOMAIN steps = 1 .. N
  OBVIOUS
<1>2. after = [n \in 0 .. N |-> EditStep(r, patch, steps, after, n)]
  <2>1. \E f : EditsUpTo(r, patch, steps, N, f)
    BY <1>1, EditsDefined
  <2>2. after = CHOOSE f : EditsUpTo(r, patch, steps, N, f)
    BY DEF AfterEdits, EditsUpTo
  <2>3. EditsUpTo(r, patch, steps, N, after)
    BY <2>1, <2>2
  <2> QED BY <2>3 DEF EditsUpTo
<1> HIDE DEF after
<1>3. 0 \in Good
  <2>1. after[0] = [tasks |-> Load(r), drafts |-> Drafts(patch), moves |-> <<>>,
                    refused |-> FALSE, panicked |-> FALSE]
    BY <1>1, <1>2 DEF EditStep
  <2>2. Faithful(r, Load(r)) /\ LinksKept(r, Load(r)) /\ Ids(Load(r)) = DOMAIN r
    BY LoadIsFaithful
  <2>3. Drafts(patch) \in SUBSET Placeholders
    <3> SUFFICES ASSUME NEW m \in ToSet(patch), m.kind = "add" PROVE m.task \in Placeholders
      BY DEF Drafts
    <3>1. m \in Mutations
      BY ContentsInSet
    <3> QED BY <3>1, MutationFields
  <2>4. <<>> \in Seq(Reorders)
    OBVIOUS
  <2>5. Working(r, after[0])
    BY <2>1, <2>2, <2>3, <2>4 DEF Working, WorkShape, Faithful
  <2>6. IdsOnce(after[0].tasks)
    BY <2>1, LoadedRows DEF IdsOnce
  <2>7. \A d \in Ids(after[0].tasks) : d > 0
    BY <2>1, <2>2 DEF RowsOK
  <2> HIDE DEF Added
  <2> QED BY <2>5, <2>6, <2>7
<1>4. ASSUME NEW k \in Nat, k \in Good PROVE k + 1 \in Good
  <2> SUFFICES ASSUME k + 1 =< N PROVE Right(k + 1)
    OBVIOUS
  <2> DEFINE m == steps[k + 1]
             s == after[k].tasks
             t == after[k + 1].tasks
  <2>1. Right(k) /\ k + 1 \in 1 .. N /\ m \in Mutations
    BY <1>1, <1>4
  <2>2. after[k + 1] = Mutate(r, after[k], m)
    <3>1. k + 1 \in 0 .. N /\ k + 1 # 0 /\ (k + 1) - 1 = k
      BY <1>1
    <3>2. after[k + 1] = EditStep(r, patch, steps, after, k + 1)
      BY <1>2, <3>1
    <3> QED BY <3>1, <3>2 DEF EditStep
  <2>3. m.kind = "add" => m.task \notin Ids(s)
    <3> SUFFICES ASSUME m.kind = "add", m.task \in Ids(s) PROVE FALSE
      OBVIOUS
    <3>1. m.task \in Int /\ m.task < 0
      BY <2>1, MutationFields DEF Placeholders
    <3>2. m.task \in Added(k)
      BY <2>1, <3>1
    <3>3. PICK i \in 1 .. k : steps[i].kind = "add" /\ steps[i].task = m.task
      BY <3>2
    <3>4. i \in DOMAIN steps /\ k + 1 \in DOMAIN steps /\ i # k + 1
      BY <1>1, <2>1
    <3>5. steps[k + 1].kind = "add" /\ steps[i].task = steps[k + 1].task
      BY <3>3
    <3> QED BY <3>3, <3>4, <3>5 DEF AddsApart
  <2> HIDE DEF m
  <2>4. Working(r, after[k + 1])
    BY <2>1, <2>2, MutationWorks
  <2>5. IdsOnce(t) /\ Gains(s, t, m)
    BY <2>1, <2>2, <2>3, MutateOnce
  <2>6. ASSUME NEW d \in Ids(t) PROVE d > 0 \/ d \in Added(k + 1)
    <3>1. CASE d \in Ids(s)
      <4>1. Added(k) \subseteq Added(k + 1)
        BY <2>1
      <4> QED BY <2>1, <3>1, <4>1
    <3>2. CASE d \notin Ids(s)
      <4>1. m.kind = "add" /\ d = m.task
        BY <2>5, <3>2 DEF Gains
      <4>2. k + 1 \in 1 .. k + 1
        BY <2>1
      <4> QED BY <4>1, <4>2 DEF m
    <3> QED BY <3>1, <3>2
  <2> QED BY <2>4, <2>5, <2>6
<1>5. Nat \subseteq Good
  <2> HIDE DEF Good
  <2> QED BY <1>3, <1>4, SetInduction
<1>6. IdsOnce(after[N].tasks)
  BY <1>1, <1>5
<1> QED BY <1>6 DEF after

LEMMA EditsOnce ==
  ASSUME NEW r, RowsOK(r), NEW patch \in Seq(Mutations), AddsApart(patch)
  PROVE  IdsOnce(AfterMutations(r, patch).tasks)
<1> DEFINE adds == {m \in ToSet(patch) : m.kind = "add"}
           rest == ToSet(patch) \ adds
           a == Sift(patch, adds)
           b == Sift(patch, rest)
           steps == a \o b
<1>1. /\ a \in Seq(Mutations) /\ ToSet(b) = ToSet(patch) \cap rest /\ b \in Seq(Mutations)
      /\ ToSet(a) = ToSet(patch) \cap adds
  BY SiftContents
<1>2. \A i, j \in DOMAIN a : i < j => \E p, q \in DOMAIN patch : p < q /\ a[i] = patch[p] /\ a[j] = patch[q]
  <2> HIDE DEF adds
  <2> QED BY SiftInOrder
<1>3. AfterMutations(r, patch) = AfterEdits(r, patch, steps)[Len(steps)]
  BY DEF AfterMutations, AfterEdits, EditStep
<1>4. \A m \in ToSet(b) : m.kind # "add"
  BY <1>1
<1> HIDE DEF a, b
<1>5. /\ steps \in Seq(Mutations) /\ DOMAIN steps = 1 .. Len(a) + Len(b)
      /\ DOMAIN a = 1 .. Len(a) /\ DOMAIN b = 1 .. Len(b) /\ Len(a) \in Nat /\ Len(b) \in Nat
      /\ \A i \in 1 .. Len(a) : steps[i] = a[i]
      /\ \A i \in Len(a) + 1 .. Len(a) + Len(b) : steps[i] = b[i - Len(a)]
  BY <1>1
<1> HIDE DEF steps
<1>6. ASSUME NEW i \in DOMAIN steps, steps[i].kind = "add" PROVE i \in DOMAIN a /\ steps[i] = a[i]
  <2> SUFFICES ASSUME i \notin 1 .. Len(a) PROVE FALSE
    BY <1>5
  <2>1. i \in Len(a) + 1 .. Len(a) + Len(b) /\ i - Len(a) \in DOMAIN b
    BY <1>5
  <2>2. steps[i] \in ToSet(b)
    BY <1>5, <2>1 DEF ToSet
  <2> QED BY <1>4, <1>6, <2>2
<1>7. ASSUME NEW i \in DOMAIN a, NEW j \in DOMAIN a, i < j, a[i].kind = "add", a[j].kind = "add", a[i].task = a[j].task
      PROVE  FALSE
  <2>1. PICK p \in DOMAIN patch, q \in DOMAIN patch : p < q /\ a[i] = patch[p] /\ a[j] = patch[q]
    BY <1>2, <1>7
  <2>2. p = q
    BY <1>7, <2>1 DEF AddsApart
  <2>3. p \in Nat
    OBVIOUS
  <2> QED BY <2>1, <2>2, <2>3
<1>8. AddsApart(steps)
  <2> SUFFICES ASSUME NEW i \in DOMAIN steps, NEW j \in DOMAIN steps,
                      steps[i].kind = "add", steps[j].kind = "add", steps[i].task = steps[j].task
               PROVE  i = j
    BY DEF AddsApart
  <2>1. i \in DOMAIN a /\ j \in DOMAIN a /\ steps[i] = a[i] /\ steps[j] = a[j]
    BY <1>6
  <2>2. ~(i < j) /\ ~(j < i)
    BY <1>7, <2>1
  <2>3. i \in Nat /\ j \in Nat
    BY <1>5
  <2> QED BY <2>2, <2>3
<1> QED BY <1>3, <1>5, <1>8, StepsOnce

LEMMA PruneOnce ==
  ASSUME NEW r, NEW list \in Seq(Entry(r)), IdsOnce(list)
  PROVE  EntriesOnce(ToSet(Prune(list)))
<1> DEFINE p == Prune(list)
<1>1. p = [i \in DOMAIN list |-> [list[i] EXCEPT !.deps = @ \cap Ids(list)]]
  BY DEF Prune
<1> HIDE DEF p
<1>2. DOMAIN p = DOMAIN list
  BY <1>1
<1>3. ASSUME NEW i \in DOMAIN list PROVE p[i].id = list[i].id
  <2>1. p[i] = [list[i] EXCEPT !.deps = list[i].deps \cap Ids(list)] /\ list[i] \in Entry(r)
    BY <1>1
  <2> QED BY <2>1 DEF Entry
<1> SUFFICES ASSUME NEW i \in DOMAIN list, NEW j \in DOMAIN list, p[i].id = p[j].id PROVE p[i] = p[j]
  BY <1>2 DEF EntriesOnce, ToSet, p
<1>4. i = j
  BY <1>3 DEF IdsOnce
<1> QED BY <1>4

LEMMA PatchStands ==
  ASSUME NEW r, RowsOK(r), RowsStand(r), NEW patch \in Seq(Mutations), AddsApart(patch),
         ResolvePatch(r, patch).result = "applied"
  PROVE  PlanStands(r, ResolvePatch(r, patch))
<1> DEFINE w == AfterMutations(r, patch)
           pruned == Prune(w.tasks)
           ordered == Reordered(pruned, w.moves)
<1>1. Working(r, w) /\ IdsOnce(w.tasks)
  BY EditsWork, EditsOnce
<1>2. /\ ~w.refused /\ ~DetectCycle(ordered)
      /\ ResolvePatch(r, patch) = [result |-> "applied", tasks |-> RecomputeStates(ordered), superseded |-> {}]
  BY DEF ResolvePatch, Unresolved
<1> HIDE DEF w
<1>3. Faithful(r, w.tasks) /\ LinksKept(r, w.tasks) /\ w.moves \in Seq(Reorders) /\ w.tasks \in Seq(Entry(r))
  BY <1>1, <1>2 DEF Working, WorkShape
<1>4. pruned \in Seq(Entry(r)) /\ Contents(r, ToSet(pruned), {})
  BY <1>3, PruneContents
<1>5. EntriesOnce(ToSet(pruned))
  <2>1. \A x \in Entry(r) : x = [x EXCEPT !.deps = x.deps] /\ \A D : [x EXCEPT !.deps = D].id = x.id
    BY DEF Entry
  <2> QED BY <1>1, <1>3, <2>1, PruneOnce
<1> HIDE DEF pruned
<1>6. ordered \in Seq(Entry(r)) /\ ToSet(ordered) = ToSet(pruned)
  BY <1>3, <1>4, ReorderContents
<1> HIDE DEF ordered
<1>7. Contents(r, ToSet(ordered), {}) /\ EntriesOnce(ToSet(ordered))
  BY <1>4, <1>5, <1>6
<1>8. Rooted(Links(ordered))
  BY <1>2, <1>6, CycleFound
<1>9. BelowEach(r, ordered, {}) = Links(ordered)
  <2>1. ASSUME NEW d \in Ids(ordered) PROVE Named(ordered, d).deps \cap Ids(ordered) = Named(ordered, d).deps
    <3>1. PICK t \in ToSet(ordered) : t.id = d
      BY IdsAre
    <3>2. Named(ordered, d) = t
      BY <1>6, <1>7, <3>1, NamedOnce
    <3>3. t.deps \subseteq Ids(ordered)
      BY <1>7, IdsAre DEF Contents
    <3> QED BY <3>2, <3>3
  <2> QED BY <2>1 DEF BelowEach, Links
<1>10. Rooted(BelowEach(r, ordered, {}))
  BY <1>8, <1>9
<1> DEFINE gone == {}
<1>11. /\ gone \in SUBSET DOMAIN r /\ gone \cap Ids(ordered) = {}
       /\ \A c \in gone : ~IsImmutable(r[c]) /\ r[c].deps \subseteq Ids(ordered) \cup gone
       /\ Contents(r, ToSet(ordered), gone) /\ Rooted(BelowEach(r, ordered, gone))
  BY <1>7, <1>10
<1>12. ResolvePatch(r, patch) = [result |-> "applied", tasks |-> RecomputeStates(ordered), superseded |-> gone]
  BY <1>2
<1> HIDE DEF gone
<1> QED BY <1>6, <1>7, <1>11, <1>12, RecomputedStand

LEMMA ReplanStands ==
  ASSUME NEW r, RowsOK(r), RowsStand(r), NEW request, request.tasks \in Seq(NewTasks),
         ResolveReplan(r, request).result = "applied"
  PROVE  PlanStands(r, ResolveReplan(r, request))
<1>1. PICK scope, news, list : Replanned(r, request, scope, news, list)
  BY ReplanIs
<1>2. /\ scope \in SUBSET DOMAIN r /\ list \in Seq(Entry(r)) /\ news \in Seq(Entry(r)) /\ IdsOnce(news)
      /\ Contents(r, ToSet(list), scope)
      /\ \A c \in scope : ~IsImmutable(r[c]) /\ r[c].deps \subseteq Ids(list) \cup scope
      /\ \A t \in ToSet(news) : t \in ToSet(list) /\ t.id < 0
      /\ \A t \in ToSet(list) : t \in ToSet(news) \/ (t.id \in DOMAIN r \ scope /\ t = Loaded(r, t.id))
  BY <1>1 DEF Replanned
<1>3. \A id \in DOMAIN r : id > 0 /\ ~(id < 0)
  BY DEF RowsOK
<1>4. EntriesOnce(ToSet(news))
  BY <1>2 DEF EntriesOnce, IdsOnce, ToSet
<1>5. EntriesOnce(ToSet(list))
  <2> SUFFICES ASSUME NEW t \in ToSet(list), NEW u \in ToSet(list), t.id = u.id PROVE t = u
    BY DEF EntriesOnce
  <2>1. CASE t \in ToSet(news)
    <3>1. u \in ToSet(news)
      BY <1>2, <1>3, <2>1
    <3> QED BY <1>4, <2>1, <3>1 DEF EntriesOnce
  <2>2. CASE t \notin ToSet(news)
    <3>1. t = Loaded(r, t.id) /\ u = Loaded(r, u.id)
      BY <1>2, <1>3, <2>2
    <3>2. Loaded(r, t.id) = Loaded(r, u.id)
      OBVIOUS
    <3> QED BY <3>1, <3>2
  <2> QED BY <2>1, <2>2
<1>6. scope \cap Ids(list) = {}
  <2> SUFFICES ASSUME NEW t \in ToSet(list), t.id \in scope PROVE FALSE
    BY IdsAre
  <2> QED BY <1>2, <1>3
<1> DEFINE B == BelowEach(r, list, scope)
<1>7. DOMAIN B = Ids(list) \cup scope
  BY DEF BelowEach
<1>8. ASSUME NEW x \in DOMAIN B \cap DOMAIN r PROVE B[x] = r[x].deps
  <2>1. CASE x \in scope
    BY <1>7, <2>1 DEF BelowEach
  <2>2. CASE x \notin scope
    <3>1. PICK t \in ToSet(list) : t.id = x
      BY <1>7, <2>2, IdsAre
    <3>2. t = Loaded(r, x)
      BY <1>2, <1>3, <3>1
    <3>3. Named(list, x) = t
      BY <1>2, <1>5, <3>1, NamedOnce
    <3>4. B[x] = Named(list, x).deps
      BY <1>7, <2>2 DEF BelowEach
    <3> QED BY <3>2, <3>3, <3>4 DEF Loaded
  <2> QED BY <2>1, <2>2
<1>9. ASSUME NEW x \in DOMAIN B, x \notin DOMAIN r
      PROVE  x \in Ids(news) /\ B[x] = Named(news, x).deps
  <2>1. PICK t \in ToSet(list) : t.id = x
    BY <1>2, <1>7, <1>9, IdsAre
  <2>2. t \in ToSet(news)
    BY <1>2, <1>9, <2>1
  <2>3. Named(list, x) = t
    BY <1>2, <1>5, <2>1, NamedOnce
  <2>4. x \in Ids(news) /\ Named(news, x) = t
    BY <1>2, <1>4, <2>1, <2>2, NamedOnce
  <2>5. B[x] = Named(list, x).deps
    BY <1>2, <1>7, <1>9 DEF BelowEach
  <2> QED BY <2>3, <2>4, <2>5
<1> HIDE DEF B
<1>10. Rooted(Links(news))
  BY <1>1, <1>2, CycleFound DEF Replanned
<1>11. ASSUME NEW S \in SUBSET DOMAIN B, S # {} PROVE \E x \in S : B[x] \cap S = {}
  <2>1. CASE S \cap DOMAIN r # {}
    <3>1. PICK x \in S \cap DOMAIN r : r[x].deps \cap (S \cap DOMAIN r) = {}
      <4>1. S \cap DOMAIN r \in SUBSET DOMAIN r
        OBVIOUS
      <4> QED BY <2>1, <4>1, RootsAre DEF RowsStand
    <3>2. r[x].deps \subseteq DOMAIN r /\ B[x] = r[x].deps
      BY <1>8 DEF RowsStand
    <3> QED BY <3>1, <3>2
  <2>2. CASE S \cap DOMAIN r = {}
    <3>1. \A x \in S : x \in Ids(news) /\ B[x] = Named(news, x).deps
      BY <1>9, <2>2
    <3> DEFINE K == Links(news)
    <3>2. DOMAIN K = Ids(news) /\ \A x \in Ids(news) : K[x] = Named(news, x).deps \cap Ids(news)
      BY DEF Links
    <3> HIDE DEF K
    <3>3. PICK x \in S : K[x] \cap S = {}
      BY <1>10, <1>11, <3>1, <3>2 DEF Rooted, K
    <3> QED BY <3>1, <3>2, <3>3
  <2> QED BY <2>1, <2>2
<1>12. Rooted(B)
  BY <1>11 DEF Rooted
<1>13. PlanStands(r, [result |-> "applied", tasks |-> RecomputeStates(list), superseded |-> scope])
  BY <1>2, <1>5, <1>6, <1>12, RecomputedStand DEF B
<1> QED BY <1>1, <1>13 DEF Replanned

-----------------------------------------------------------------------------
(* What the stored plan keeps, and that every edit and every attempt does. *)
SoundInv ==
  /\ PlanInv /\ RowsStand(rows)
  /\ revision \in 1 .. MaxRevision
  /\ outcome \in {"none", "applied", "invalid", "conflict", "panicked"}

LEMMA ResultsAre ==
  ASSUME NEW r, NEW patch, NEW request
  PROVE  /\ ResolvePatch(r, patch).result \in {"applied", "invalid", "panicked"}
         /\ ResolveReplan(r, request).result \in {"applied", "invalid"}
BY DEF ResolvePatch, ResolveReplan, Unresolved

LEMMA WriteStands ==
  ASSUME SoundInv, NEW e \in Editors, NEW plan, plan.result \in {"applied", "invalid", "panicked"},
         plan.result = "applied" => PlanOK(rows, plan) /\ PlanStands(rows, plan),
         revision < MaxRevision, Write(e, plan), UNCHANGED seen
  PROVE  SoundInv'
<1>1. PlanInv'
  BY PlanWritten DEF SoundInv
<1>2. outcome' \in {"none", "applied", "invalid", "conflict", "panicked"}
  BY DEF Write
<1>3. revision \in Nat /\ MaxRevision \in Nat
  BY EditConstants DEF SoundInv, PlanInv
<1>4. CASE UNCHANGED <<rows, revision>>
  BY <1>1, <1>2, <1>4 DEF SoundInv
<1>5. CASE ~UNCHANGED <<rows, revision>>
  <2>1. plan.result = "applied" /\ rows' = ApplyResolved(rows, plan) /\ revision' = revision + 1
    BY <1>5 DEF Write
  <2>2. Placed(rows, plan, rows')
    BY <2>1, PlanApplied DEF SoundInv, PlanInv
  <2>3. RowsStand(rows')
    BY <2>1, <2>2, PlacedStands DEF PlanStands
  <2>4. revision' \in 1 .. MaxRevision
    BY <1>3, <2>1 DEF SoundInv
  <2> QED BY <1>1, <1>2, <2>3, <2>4 DEF SoundInv
<1> QED BY <1>4, <1>5

LEMMA SoundSteps ==
  ASSUME SoundInv, [PlanNext]_PlanVars
  PROVE  SoundInv'
<1>1. PlanInv'
  BY PlanSteps DEF SoundInv
<1>2. RowsOK(rows) /\ RowsStand(rows)
  BY DEF SoundInv, PlanInv
<1>3. CASE UNCHANGED PlanVars
  BY <1>1, <1>3 DEF PlanVars, SoundInv
<1>4. ASSUME NEW e \in Editors, OpenEditor(e) PROVE SoundInv'
  BY <1>1, <1>4 DEF OpenEditor, SoundInv
<1>5. ASSUME NEW e \in Editors, NEW patch \in Patches, ApplyPatch(e, patch) PROVE SoundInv'
  <2>1. patch \in Seq(Mutations) /\ AddsApart(patch)
    BY EditConstants, ClientIdsApart DEF AddsApart
  <2> DEFINE plan == ResolvePatch(rows, patch)
  <2>2. plan.result = "applied" => PlanOK(rows, plan) /\ PlanStands(rows, plan)
    BY <1>2, <2>1, PatchResolved, PatchStands
  <2>3. plan.result \in {"applied", "invalid", "panicked"}
    BY ResultsAre
  <2>4. revision < MaxRevision /\ Write(e, plan) /\ UNCHANGED seen
    BY <1>5 DEF ApplyPatch
  <2> HIDE DEF plan
  <2> QED BY <2>2, <2>3, <2>4, WriteStands
<1>6. ASSUME NEW e \in Editors, NEW request \in Replans, ApplyReplan(e, request) PROVE SoundInv'
  <2>1. request.tasks \in Seq(NewTasks)
    BY EditConstants
  <2> DEFINE plan == ResolveReplan(rows, request)
  <2>2. plan.result = "applied" => PlanOK(rows, plan) /\ PlanStands(rows, plan)
    BY <1>2, <2>1, ReplanResolved, ReplanStands
  <2>3. plan.result \in {"applied", "invalid", "panicked"}
    BY ResultsAre
  <2>4. revision < MaxRevision /\ Write(e, plan) /\ UNCHANGED seen
    BY <1>6 DEF ApplyReplan
  <2> HIDE DEF plan
  <2> QED BY <2>2, <2>3, <2>4, WriteStands
<1>7. ASSUME NEW id \in DOMAIN rows, StartAttempt(id) PROVE SoundInv'
  <2>1. RowsStand(rows') /\ UNCHANGED <<revision, outcome>>
    BY <1>2, <1>7, StartStands DEF StartAttempt
  <2> QED BY <1>1, <2>1 DEF SoundInv
<1>8. ASSUME NEW id \in DOMAIN rows, NEW s \in {"completed", "failed"}, EndAttempt(id, s)
      PROVE  SoundInv'
  <2>1. RowsStand(rows') /\ UNCHANGED <<revision, outcome>>
    BY <1>2, <1>8, EndStands DEF EndAttempt
  <2> QED BY <1>1, <2>1 DEF SoundInv
<1> QED BY <1>3, <1>4, <1>5, <1>6, <1>7, <1>8 DEF PlanNext

LEMMA SoundStarts == PlanInit => SoundInv
<1> SUFFICES ASSUME PlanInit PROVE SoundInv
  OBVIOUS
<1>1. /\ DOMAIN rows = {1, 2} /\ 1 # 2
      /\ rows[1].state = "ready" /\ rows[1].tried = FALSE /\ rows[1].deps = {}
      /\ rows[2].state = "pending" /\ rows[2].tried = FALSE /\ rows[2].deps = {1}
  <2>1. rows = [id \in 1 .. 2 |-> [state |-> IF id = 1 THEN "ready" ELSE "pending", tried |-> FALSE,
                                   pos |-> id - 1, deps |-> IF id = 1 THEN {} ELSE {1}]]
    BY DEF PlanInit
  <2>2. 1 .. 2 = {1, 2}
    OBVIOUS
  <2> QED BY <2>1, <2>2
<1>2. \A S \in SUBSET DOMAIN rows : S # {} => \E d \in S : rows[d].deps \cap S = {}
  <2> SUFFICES ASSUME NEW S \in SUBSET {1, 2}, S # {} PROVE \E d \in S : rows[d].deps \cap S = {}
    BY <1>1
  <2>1. CASE 1 \in S
    BY <1>1, <2>1
  <2>2. CASE 1 \notin S
    <3>1. 2 \in S
      BY <2>2
    <3> QED BY <1>1, <2>2, <3>1
  <2> QED BY <2>1, <2>2
<1>3. \A d \in DOMAIN rows : StandsOn(rows, d)
  <2>1. StandsOn(rows, 1)
    BY <1>1 DEF StandsOn
  <2>2. StandsOn(rows, 2)
    BY <1>1 DEF StandsOn
  <2> QED BY <1>1, <2>1, <2>2
<1>4. \A d \in DOMAIN rows : rows[d].deps \subseteq DOMAIN rows
  BY <1>1
<1>5. RowsStand(rows)
  BY <1>2, <1>3, <1>4, RootsAre DEF RowsStand
<1>6. revision \in 1 .. MaxRevision /\ outcome = "none"
  BY EditConstants DEF PlanInit
<1> QED BY <1>5, <1>6, PlanStarts DEF SoundInv

(* The stored plan stays one that can be executed, and its history is      *)
(* complete, after any sequence of edits, replans and attempts.            *)
THEOREM StoredPlanHolds == PlanSpec => []StoredPlanSound
<1>1. SoundInv /\ [PlanNext]_PlanVars => SoundInv'
  BY SoundSteps
<1>2. SoundInv => StoredPlanSound
  <2> SUFFICES ASSUME SoundInv PROVE StoredPlanSound
    OBVIOUS
  <2>1. RowsOK(rows) /\ RowsStand(rows) /\ RevisionsRecorded
    BY DEF SoundInv, PlanInv
  <2>2. PlanTypeOK
    <3>1. ASSUME NEW id \in DOMAIN rows
          PROVE  /\ id \in Nat \ {0} /\ rows[id].pos \in Nat /\ rows[id].tried \in BOOLEAN
                 /\ rows[id].state \in {"pending", "ready", "running", "blocked", "failed",
                                        "completed", "superseded"}
      BY <2>1 DEF RowsOK, RowsStand, StandsOn
    <3> QED BY <3>1 DEF PlanTypeOK, SoundInv
  <2>3. StoredPlanAcyclic
    BY <2>1, RootsAre DEF StoredPlanAcyclic, RowsStand
  <2>4. ReadyMeansDone
    <3> SUFFICES ASSUME NEW id \in DOMAIN rows
                 PROVE  LET below == {rows[d].state : d \in rows[id].deps \cap DOMAIN rows} IN
                        /\ rows[id].state = "ready" => below \subseteq {"completed", "superseded"}
                        /\ rows[id].state = "pending" => ~(below \subseteq {"completed"})
      BY DEF ReadyMeansDone
    <3>1. rows[id].deps \cap DOMAIN rows = rows[id].deps
      BY <2>1 DEF RowsStand
    <3>2. StandsOn(rows, id)
      BY <2>1 DEF RowsStand
    <3> QED BY <3>1, <3>2 DEF StandsOn
  <2> QED BY <2>1, <2>2, <2>3, <2>4 DEF StoredPlanSound
<1> QED BY <1>1, <1>2, SoundStarts, PTL DEF PlanSpec
=============================================================================
