----------------------------- MODULE MCProject -----------------------------
(***************************************************************************)
(* What surrounds the execution of a run, on small instances for TLC: the  *)
(* settings, the policy of an attempt, a run from its planning to its      *)
(* start, edits of its plan, the schedule of its tasks, the context its    *)
(* missions are told, the issues it is imported from, and the browser      *)
(* sessions all of it is done from.                                        *)
(* The parts share no state, so a behaviour here is a behaviour of one of  *)
(* them; the others stay where they began.                                 *)
(***************************************************************************)
EXTENDS RunEngine, Policy, PlanIntake, Settings, PlanEdit, Sessions, Context, Issues,
        TLC

CONSTANTS t1, t2, c1, c2, e1, m1, m2

VARIABLE part

-----------------------------------------------------------------------------
(* The schedule: an implementation, its verification and a review; a fork  *)
(* to a review and another task; a task that needs both of two others.     *)
Chain == [deps |-> <<{}, {1}, {2}>>, op |-> <<"implement", "verify", "review">>]
Fork == [deps |-> <<{}, {1}, {1}>>, op |-> <<"implement", "post_process", "review">>]
Join == [deps |-> <<{2, 3}, {}, {2}>>, op |-> <<"implement", "implement", "advisory">>]
Schedules == {Chain, Fork, Join}

-----------------------------------------------------------------------------
(* Policies: what a layer may declare, one dimension at a time.            *)
Docs == <<<<"docs">>, Deep>>
Src == <<<<"s">>, Deep>>
AFile == <<<<"s">>, <<"a", "b">>>>
SamplePatterns == {Docs, Src, <<Deep>>, AFile, <<<<"s">>, <<"a", "?">>>>,
                   <<Deep, <<"*", "b">>>>, <<Star, <<"a", "*">>>>}
OnlyOn(dimension, rules) == {[NoScope EXCEPT ![dimension] = {r}] : r \in rules}
FileRules == {[read |-> {Src}, write |-> {}, deny |-> d] : d \in {{}, {AFile}}}
  \cup {[read |-> {}, write |-> w, deny |-> d] : w \in {{}, {Docs}, {Src, Docs}, {AFile}}, d \in {{}, {AFile}}}
PatternRules == {[read |-> {p}, write |-> {<<Deep>>}, deny |-> {p}] : p \in SamplePatterns}
CommandRules == {[mode |-> m, allow |-> a, deny |-> d] :
                   m \in 0 .. 2, a \in {{}, {"git"}}, d \in {{}, {"git"}}}
ToolRules == {[allow |-> a, deny |-> d] :
                a \in {{}, {<<<<"g">>, Star>>}, {<<<<"*">>, <<"r">>>>}, {<<Deep>>}},
                d \in {{}, {<<<<"g">>, <<"w">>>>}}}
VariableRules == {[allow |-> a, deny |-> d] : a \in {{}, {"PATH"}, {"TOKEN"}}, d \in {{}, {"TOKEN"}}}
GitRules == {{}, {"read"}, {"push", "commit_in_task_worktree"}}
Presets == {[NoScope EXCEPT !.preset = p] : p \in {"read_only", "implementation", "documentation", "custom"}}
Mixed == {[NoScope EXCEPT !.preset = "implementation",
                          !.filesystem = {[read |-> {}, write |-> {Src}, deny |-> {}]},
                          !.tools = {[allow |-> {<<<<"g">>, Star>>}, deny |-> {}]}]}
AgentDeclares ==
  Presets \cup Mixed \cup OnlyOn("filesystem", FileRules) \cup OnlyOn("commands", CommandRules)
    \cup OnlyOn("tools", ToolRules) \cup OnlyOn("environment", VariableRules)
    \cup OnlyOn("git", GitRules) \cup OnlyOn("network", {"allow", "deny"})
RoleDeclares == AgentDeclares \cup OnlyOn("filesystem", PatternRules)
RecipeDeclares == Presets \cup {[s EXCEPT !.tools = {[allow |-> {<<<<"g">>, Star>>}, deny |-> {}]}] :
                                  s \in {NoScope} \cup Presets}
Paths == {<<<<"docs">>>>, <<<<"docs">>, <<"a", "b">>>>, AFile, <<<<"s">>, <<"b">>, <<"b">>>>,
          <<<<".git">>>>, <<<<".git">>, <<"a">>>>, <<<<".factory">>, <<"a", "b">>>>}
ToolNames == {<<<<"g">>, <<"r">>>>, <<<<"g">>, <<"w">>>>, <<<<"h">>, <<"r">>>>}

-----------------------------------------------------------------------------
(* Plan intake: two configurations, answers of a planner good and bad.     *)
ClassOfExtra == [r \in {"docs"} |-> "post_process"]
EveryRole == {"planner", "worker", "reviewer", "docs"}
TwoConfigs ==
  {[roles |-> {"docs"}, assigned |-> EveryRole \X {"a"} \cup {<<"worker", "b">>}, first |-> "b"],
   [roles |-> {}, assigned |-> {"planner", "worker"} \X {"a"}, first |-> "a"]}
Permissions == {<<"a", "implement">>, <<"a", "post_process">>, <<"b", "verify">>}
Item(role, operation, deps) == [role |-> role, operation |-> operation, dependencies |-> deps]
Answers ==
  {NotAPlan, <<Item("none", "none", <<>>), Item("docs", "none", <<1>>)>>,
   <<Item("worker", "implement", <<2>>), Item("worker", "none", <<1>>)>>,
   <<Item("none", "verify", <<>>), Item("worker", "verify", <<1, 1>>)>>}
TwoRecipes == {NoRecipe, [roles |-> {"planner", "docs"}, forbids |-> {"implement"}]}
TeamOf(w, d) == [r \in EveryRole |-> IF r = "docs" THEN d ELSE IF r = "worker" THEN w ELSE {"a"}]
TwoTeams == {TeamOf({"b"}, {"a"}), TeamOf({"a", "b"}, {})}

-----------------------------------------------------------------------------
(* Settings: a document of an older release.                               *)
OldDocument ==
  [agents |-> {"a", "b"}, roles |-> {}, servers |-> {}, scopes |-> {},
   assigned |-> {[role |-> "planner", agent |-> "a", preferred |-> TRUE]},
   legacy |-> {[role |-> "worker", agent |-> "b"]}]

-----------------------------------------------------------------------------
(* Plan edits: single moves, moves after an addition, and replans.         *)
Refs == {1, 2, 3, -1}
Moves ==
  {[kind |-> "add", task |-> -1, deps |-> d, ok |-> TRUE] : d \in {{}, {1}, {2}, {-1}}}
  \cup {[kind |-> "remove", task |-> t] : t \in Refs}
  \cup {[kind |-> "update", task |-> t, ok |-> o] : t \in {2, -1}, o \in BOOLEAN}
  \cup {[kind |-> "reorder", task |-> t, to |-> 0] : t \in {2, 3}}
  \cup {[kind |-> "depend", task |-> t, on |-> d] : t \in {1, -1}, d \in {1, 2, 3}}
  \cup {[kind |-> "undepend", task |-> t, on |-> 1] : t \in {2, -1}}
AddAfterFirst == [kind |-> "add", task |-> -1, deps |-> {1}, ok |-> TRUE]
SomePatches ==
  {<<m>> : m \in Moves} \cup {<<m, AddAfterFirst>> : m \in {x \in Moves : x.task = -1 /\ x.kind # "add"}}
  \cup {<<AddAfterFirst, [kind |-> "depend", task |-> 1, on |-> -1]>>,
        <<AddAfterFirst, [kind |-> "remove", task |-> -1], [kind |-> "update", task |-> -1, ok |-> TRUE]>>,
        <<AddAfterFirst, [kind |-> "remove", task |-> -1], [kind |-> "depend", task |-> 2, on |-> -1]>>}
SomeReplans ==
  {[seed |-> s, tasks |-> <<[task |-> -1, deps |-> d, ok |-> TRUE],
                            [task |-> -2, deps |-> {-1}, ok |-> TRUE]>>] :
     s \in 1 .. 2, d \in {{1}, {2}, {-2}}}

-----------------------------------------------------------------------------
(* Sessions: the dashboard as it is served, and from the dev server.       *)
DevServer == {[scheme |-> "http", host |-> "localhost", port |-> 5173]}
BothServers == DevServer \cup {[scheme |-> "http", host |-> "localhost", port |-> 4173]}

-----------------------------------------------------------------------------
(* Context: a directory with a file of code, its test, and room for        *)
(* another; beside it a file whose name begins with the directory's.       *)
AuthFile == <<"d", "auth">>
NewFile == <<"d", "new">>
TestFile == <<"d", "t">>
MainFile == <<"da">>
PathsAscending == <<AuthFile, NewFile, TestFile, MainFile>>
WordsInPath ==
  (AuthFile :> {"auth"}) @@ (NewFile :> {}) @@ (TestFile :> {"auth"}) @@ (MainFile :> {"main"})
LongerName == (<<"d", "da">> :> "a")
RustFiles == {AuthFile, TestFile, MainFile}
TestFiles == {TestFile}
TestOf == {<<TestFile, AuthFile>>}
TextWith(size, words, symbols) == [size |-> size, words |-> words, symbols |-> symbols]
FileTexts ==
  [one |-> TextWith(1, {"login", "main"}, {"login"}), two |-> TextWith(1, {"open"}, {"open"}),
   big |-> TextWith(9, {"login"}, {}), elsewhere |-> TextWith(1, {"login"}, {"login"})]
FirstFiles == (AuthFile :> "one") @@ (TestFile :> "two") @@ (MainFile :> "two")

Rule(negate, dirs, prefix, anchored, path) ==
  [negate |-> negate, dirs |-> dirs, prefix |-> prefix, anchored |-> anchored, path |-> path]
WithoutTests == <<Rule(FALSE, FALSE, <<>>, FALSE, <<"t">>)>>
WithoutDirectory == <<Rule(FALSE, TRUE, <<>>, FALSE, <<"d">>)>>
TestsAfterAll ==
  <<Rule(TRUE, FALSE, <<"d">>, FALSE, <<"t">>), Rule(FALSE, FALSE, <<"d">>, TRUE, <<"new">>)>>
AnA == <<Rule(FALSE, FALSE, <<"d">>, TRUE, <<"a">>)>>
NoRules == [exclude |-> <<>>, root |-> <<>>, nested |-> <<>>]
SomeRules == [exclude |-> WithoutTests, root |-> <<>>, nested |-> TestsAfterAll]

Question(kind, terms, testing, changed) ==
  [kind |-> kind, terms |-> terms, testing |-> testing, changed |-> changed]
AskMission == Question("resolve", {"login", "auth"}, TRUE, {})
AskChanged == Question("resolve", {"open"}, FALSE, {MainFile})
AskSearch == Question("search", {"login", "main"}, FALSE, {})
(* An entry whose file was changed since, and one without a fingerprint.   *)
OldEntry(hash, symbols) == [size |-> 1, stamp |-> 0, hash |-> hash, symbols |-> symbols]
StaleManifest ==
  [state |-> "here",
   files |-> (AuthFile :> OldEntry("two", {"open"})) @@ (MainFile :> OldEntry(NoContent, {"login"}))]

InPlace(path, content, touched) ==
  [kind |-> "write", path |-> path, content |-> content, touched |-> touched]
Put(path, content) == [kind |-> "put", path |-> path, content |-> content]
Unlink(path, link) == [kind |-> "remove", path |-> path, link |-> link]
Switch == [kind |-> "switch", dir |-> <<"d">>]
EditRules(source, text) == [kind |-> "ignore", source |-> source, text |-> text]
ChangeSets ==
  {<<Switch, Switch>>,
   <<InPlace(AuthFile, "two", 0), InPlace(AuthFile, "one", 1)>>,
   <<Put(NewFile, "one"), Unlink(AuthFile, TRUE)>>,
   <<Put(AuthFile, "two"), InPlace(AuthFile, "big", 0)>>,
   <<Unlink(MainFile, FALSE), EditRules("root", WithoutDirectory)>>,
   <<EditRules("exclude", <<>>), EditRules("nested", AnA)>>}
Beginning(rules, manifest, asks, owners) ==
  [ignores |-> rules, disk |-> manifest, asks |-> asks, changes |-> owners]
ContextBeginnings ==
  {Beginning(r, StaleManifest, <<q>>, c) :
     r \in {NoRules, SomeRules}, q \in {AskMission, AskSearch}, c \in ChangeSets}
  \cup {Beginning(r, d, <<AskChanged, AskSearch>>, <<>>) :
          r \in {[NoRules EXCEPT !.root = WithoutDirectory], SomeRules}, d \in {NoManifest, StaleManifest}}

-----------------------------------------------------------------------------
(* Issues: a project whose origin is on GitHub, beside its upstream; the   *)
(* origin may be pointed elsewhere. Attempts as runs leave them behind.    *)
UrlSlugs == [https |-> "o/a", fork |-> "o/b", gitlab |-> NotGitHub]
OriginAt(url) == <<[name |-> "origin", url |-> url]>>
UpstreamFirst == <<[name |-> "upstream", url |-> "fork"]>> \o OriginAt("https")
OtherRemotes == {OriginAt("gitlab"), OriginAt("fork")}
Asked(number, repository) == [number |-> number, repository |-> repository]
IssuesAsked == {Asked(1, NoRepository), Asked(1, "o/b"), Asked(0, NoRepository)}

Attempt(operation, role, end, review, commands) ==
  [operation |-> operation, role |-> role, status |-> end, review |-> review,
   commands |-> commands]
Refused == Attempt("implement", "worker", "changes_requested", "request_changes", {"make"})
Approved == Attempt("implement", "worker", "approved", "approve", {"test"})
Broken == Attempt("review", "security", "failed", "none", {})
Doubts == Attempt("review", "security", "changes_requested", "request_changes", {})
Findings == Attempt("review", "security", "approved", "request_changes", {})
SomeHistories ==
  {<<Approved>>, <<Refused, Approved, Broken, Findings>>, <<Approved, Doubts, Approved, Findings>>}

-----------------------------------------------------------------------------
Subjects ==
  {"schedule", "policy", "intake", "settings", "edits", "sessions", "context", "issues"}

ProjectInit ==
  /\ part \in Subjects
  /\ Init
  /\ PolicyInit /\ (part # "policy" => layers.role = {})
  /\ IntakeInit /\ (part # "intake" => config.first = "a")
  /\ SettingsInit
  /\ PlanInit
  /\ SessionInit /\ tab[t2].origin \in DevServer
  /\ (part # "sessions" => tab[t1].origin \in DevServer)
  /\ ContextInit /\ (part # "context" => disk = NoManifest /\ ignores.root = <<>>)
  /\ IssuesInit

ProjectNext ==
  /\ \/ part = "schedule" /\ Next
     \/ part # "schedule" /\ UNCHANGED vars
  /\ \/ part = "policy" /\ PolicyNext
     \/ part # "policy" /\ UNCHANGED PolicyVars
  /\ \/ part = "intake" /\ IntakeNext
     \/ part # "intake" /\ UNCHANGED IntakeVars
  /\ \/ part = "settings" /\ SettingsNext
     \/ part # "settings" /\ UNCHANGED SettingsVars
  /\ \/ part = "edits" /\ PlanNext
     \/ part # "edits" /\ UNCHANGED PlanVars
  /\ \/ part = "sessions" /\ SessionNext
     \/ part # "sessions" /\ UNCHANGED SessionVars
  /\ \/ part = "context" /\ ContextNext
     \/ part # "context" /\ UNCHANGED ContextVars
  /\ \/ part = "issues" /\ IssuesNext
     \/ part # "issues" /\ UNCHANGED IssueVars
  /\ UNCHANGED part

ProjectVars == <<vars, PolicyVars, IntakeVars, SettingsVars, PlanVars, SessionVars,
                 ContextVars, IssueVars, part>>
ProjectSpec == ProjectInit /\ [][ProjectNext]_ProjectVars
=============================================================================
