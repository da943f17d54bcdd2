------------------------------ MODULE Settings ------------------------------
(***************************************************************************)
(* The project's configuration and its recipes.  config.toml is only       *)
(* written under a lock, by a request that reads it, changes what it read, *)
(* validates the result and renames a file of its own over it: one step.   *)
(* The migration of the legacy role form reads the file before it takes    *)
(* the lock, and recipes.toml has no lock and one temporary name for all.  *)
(* A document holds what its validation relates: agents, custom roles,     *)
(* assignments, policy scopes and MCP servers.  A request that is refused  *)
(* changes nothing and is not a step.                                      *)
(***************************************************************************)
EXTENDS Integers, FiniteSets

CONSTANTS Clients, AgentNames, CustomRoles, Servers, RecipeIds,
          FirstDocument,     \* config.toml as the program finds it
          MaxWrites          \* bound on the writes of config.toml and the recipe requests together

CoreRoles == {"planner", "worker", "reviewer"}
RoleIds == CoreRoles \cup CustomRoles
Assignments == [role : RoleIds, agent : AgentNames, preferred : BOOLEAN]
Scopes == [role : RoleIds, preset : BOOLEAN, rules : BOOLEAN, tools : BOOLEAN]
Documents == [agents : SUBSET AgentNames, roles : SUBSET CustomRoles,
              assigned : SUBSET Assignments, scopes : SUBSET Scopes,
              servers : SUBSET Servers, legacy : SUBSET [role : RoleIds, agent : AgentNames]]

ASSUME SettingsAssumption == FirstDocument \in Documents /\ MaxWrites \in Nat

NoDocument == [agents |-> {}]      \* a client that has read nothing

VARIABLES document,  \* config.toml
          copy,      \* the document a client has read, its bytes being the revision
          migrating, \* the document a migration has read
          used,      \* custom roles a live run or one of its tasks names
          shelf,     \* recipes.toml, a set of recipes or Torn
          draft,     \* the temporary file of recipes.toml, or NoFile
          saving,    \* the recipe request of a client
          vouched,   \* history: the recipes that passed the validation of a request
          writes, requests
SettingsVars == <<document, copy, migrating, used, shelf, draft, saving, vouched, writes, requests>>

Recipes == [id : RecipeIds, role : CustomRoles]    \* the role it adds to the pipeline's
Torn == {[id |-> "torn"]}          \* the bytes of two writers, one over the other
NoFile == {[id |-> "no file"]}
NotSaving == [step |-> "none"]

-----------------------------------------------------------------------------
(* What a document means.                                                  *)
AssignedTo(d, role) == {x \in d.assigned : x.role = role}
HasAgent(d, role, agent) == \E x \in d.assigned : x.role = role /\ x.agent = agent
KnownRole(d, role) == role \in CoreRoles \cup d.roles

(* A legacy `agent` of a role becomes an assignment of it, the preferred   *)
(* one unless the role has one.                                            *)
Normalized(d) ==
  [d EXCEPT !.legacy = {},
            !.assigned = @ \cup
              {[role |-> l.role, agent |-> l.agent,
                preferred |-> \A x \in AssignedTo(d, l.role) : ~x.preferred] :
                 l \in {k \in d.legacy : ~HasAgent(d, k.role, k.agent)}}]

Valid(d) ==
  /\ d.legacy = {}
  /\ \A x \in d.assigned : KnownRole(d, x.role) /\ x.agent \in d.agents
  /\ \A x, y \in d.assigned :
       x.role = y.role /\ (x.agent = y.agent \/ (x.preferred /\ y.preferred)) => x = y

(* The agents a role's first choice may be: the preferred one, else any.   *)
FirstChoices(d, role) ==
  LET preferred == {x \in AssignedTo(d, role) : x.preferred}
  IN  {x.agent : x \in IF preferred # {} THEN preferred ELSE AssignedTo(d, role)}

ValidTeam(d, team, complete) ==
  /\ HasAgent(d, "planner", team.planner)
  /\ complete => team.workers # {} /\ team.reviewers # {}
  /\ \A a \in team.workers : HasAgent(d, "worker", a)
  /\ \A a \in team.reviewers : HasAgent(d, "reviewer", a)

(* The team a workflow is created with; it may lack all but the planner.   *)
InitialTeams(d) ==
  LET Pick(role) == IF FirstChoices(d, role) = {} THEN {{}}
                    ELSE {{a} : a \in FirstChoices(d, role)}
  IN  [planner : FirstChoices(d, "planner"), workers : Pick("worker"), reviewers : Pick("reviewer")]
DefaultTeams(d) == {t \in InitialTeams(d) : t.workers # {} /\ t.reviewers # {}}

-----------------------------------------------------------------------------
(* The targeted changes, each made to the document it finds.               *)
WithScope(d, role, scope) == [d EXCEPT !.scopes = {s \in @ : s.role # role} \cup scope]
ScopeOf(d, role) == {s \in d.scopes : s.role = role}
WithPreset(d, role) ==
  LET old == ScopeOf(d, role)
      new == [role |-> role, preset |-> TRUE,
              rules |-> \E s \in old : s.rules, tools |-> \E s \in old : s.tools]
  IN  WithScope(d, role, {new})

(* Clearing a preset drops a scope without rules, its tools with it.       *)
WithoutPreset(d, role) ==
  WithScope(d, role, {[s EXCEPT !.preset = FALSE] : s \in {x \in ScopeOf(d, role) : x.rules}})

Demoted(assigned, role) ==
  {IF x.role = role THEN [x EXCEPT !.preferred = FALSE] ELSE x : x \in assigned}
WithAssignment(d, role, agent, preferred) ==
  [d EXCEPT !.assigned = (IF preferred THEN Demoted(@, role) ELSE @)
                           \cup {[role |-> role, agent |-> agent, preferred |-> preferred]}]
\* Mutant: the other agents of the role stay preferred.
PreferredStay(d, role, agent) ==
  [d EXCEPT !.assigned =
     {IF x.role = role /\ x.agent = agent THEN [x EXCEPT !.preferred = TRUE] ELSE x : x \in @}]
WithPreferred(d, role, agent) ==
  [d EXCEPT !.assigned =
     {IF x.role = role THEN [x EXCEPT !.preferred = (x.agent = agent)] ELSE x : x \in @}]
WithRole(d, role, agents, preferred) ==
  [d EXCEPT !.roles = @ \cup {role},
            !.assigned = {x \in @ : ~(x.role = role /\ x.preferred)}
              \cup {[role |-> role, agent |-> a, preferred |-> a \in preferred] : a \in agents}]
WithoutRole(d, role) ==
  [WithScope(d, role, {}) EXCEPT !.roles = @ \ {role}, !.assigned = @ \ AssignedTo(d, role)]

(* What the targeted requests may turn a document into, and each request's *)
(* own checks; a server or a preset touches nothing validation relates.    *)
AddAssignments(d) ==
  {WithAssignment(d, x.role, x.agent, x.preferred) : x \in
     {y \in [role : CoreRoles \cup d.roles, agent : d.agents, preferred : BOOLEAN] :
        ~HasAgent(d, y.role, y.agent)}}
Preferences(d) == {WithPreferred(d, x.role, x.agent) : x \in d.assigned}
Removals(d) == {[d EXCEPT !.assigned = @ \ {x}] : x \in d.assigned}
RoleChanges(d) == {WithPreset(d, r) : r \in CoreRoles \cup d.roles}
                    \cup {WithoutPreset(d, s.role) : s \in d.scopes}
NewRoles(d) ==
  {WithRole(d, x.role, x.agents, x.preferred) : x \in
     {y \in [role : CustomRoles \ d.roles, agents : SUBSET AgentNames, preferred : SUBSET AgentNames] :
        Cardinality(y.preferred) =< 1}}
NewServers(d) == {[d EXCEPT !.servers = @ \cup {s}] : s \in Servers \ d.servers}
LostServers(d) == {[d EXCEPT !.servers = @ \ {s}] : s \in d.servers}

-----------------------------------------------------------------------------
RecipeVars == <<shelf, draft, saving, vouched, requests>>

(* The common end of every change: load, mutate, validate, write.          *)
UpdateConfig(changed) ==
  /\ writes + requests < MaxWrites
  /\ Valid(changed)
  /\ document' = changed
  /\ writes' = writes + 1
  /\ UNCHANGED <<used, RecipeVars>>

Latest == Normalized(document)

GetConfig(c) ==
  /\ copy' = [copy EXCEPT ![c] = document]
  /\ UNCHANGED <<document, migrating, used, writes, RecipeVars>>

(* A client replaces the document by an edit of the one it has read, which *)
(* must still be the file (If-Match), and validation sees the edit only.   *)
\* Mutant: the revision is not compared.
AnyRevision(c) == TRUE
RevisionMatches(c) == copy[c] = document
Edits(d) ==
  {[d EXCEPT !.agents = @ \ {a}, !.assigned = {x \in @ : x.agent # a}] : a \in d.agents}
    \cup {[d EXCEPT !.agents = @ \cup {a}] : a \in AgentNames}
    \cup {[d EXCEPT !.roles = @ \ {r}, !.assigned = @ \ AssignedTo(d, r)] : r \in d.roles}
    \cup NewServers(d) \cup LostServers(d)
PutConfig(c) ==
  /\ copy[c] # NoDocument
  /\ RevisionMatches(c)
  /\ \E edited \in Edits(Normalized(copy[c])) : UpdateConfig(edited)
  /\ copy' = [copy EXCEPT ![c] = NoDocument] /\ UNCHANGED migrating

CreateMcpServer == \E d \in NewServers(Latest) : UpdateConfig(d) /\ UNCHANGED <<copy, migrating>>
UpdateMcpServer == Latest.servers # {} /\ UpdateConfig(Latest) /\ UNCHANGED <<copy, migrating>>
DeleteMcpServer == \E d \in LostServers(Latest) : UpdateConfig(d) /\ UNCHANGED <<copy, migrating>>
CreateRole == \E d \in NewRoles(Latest) : UpdateConfig(d) /\ UNCHANGED <<copy, migrating>>
UpdateRole == \E r \in Latest.roles : \E d \in {Latest, WithPreset(Latest, r)} :
  UpdateConfig(d) /\ UNCHANGED <<copy, migrating>>
PutRolePolicy == \E d \in RoleChanges(Latest) : UpdateConfig(d) /\ UNCHANGED <<copy, migrating>>
AddRoleAssignment == \E d \in AddAssignments(Latest) : UpdateConfig(d) /\ UNCHANGED <<copy, migrating>>
RemoveRoleAssignment == \E d \in Removals(Latest) : UpdateConfig(d) /\ UNCHANGED <<copy, migrating>>
SetPreferredAssignment == \E d \in Preferences(Latest) : UpdateConfig(d) /\ UNCHANGED <<copy, migrating>>

(* A role that a live run, one of its tasks or a recipe names stays.       *)
DeleteRole == \E r \in Latest.roles :
  /\ r \notin used
  /\ shelf # Torn /\ \A recipe \in shelf : recipe.role # r
  /\ UpdateConfig(WithoutRole(Latest, r))
  /\ UNCHANGED <<copy, migrating>>

(* Opening the project migrates a file in the legacy form: it is read      *)
(* here, and written over whatever the file has become in the next step.   *)
ReadLegacy ==
  /\ migrating = NoDocument
  /\ document.legacy # {} /\ Valid(Latest)
  /\ migrating' = document
  /\ UNCHANGED <<document, copy, used, writes, RecipeVars>>
WriteMigrated ==
  /\ migrating # NoDocument
  /\ UpdateConfig(Normalized(migrating))
  /\ migrating' = NoDocument /\ UNCHANGED copy

(* Runs take a role of a configuration they have read, and end.            *)
UseRole(r) == used' = (used \cup {r}) /\ UNCHANGED <<document, copy, migrating, writes, RecipeVars>>
FreeRole(r) == r \in used /\ used' = used \ {r} /\ UNCHANGED <<document, copy, migrating, writes, RecipeVars>>

-----------------------------------------------------------------------------
(* A request on the recipes reads the configuration, then the catalog,     *)
(* checks the whole list it will write, and writes it as three calls of    *)
(* the system: open and truncate, write, rename.                           *)
ConfigVars == <<document, copy, migrating, used, writes>>
ValidRecipe(known, recipe) == recipe.role \in CoreRoles \cup known

BeginRecipe(c) ==
  /\ saving[c] = NotSaving /\ writes + requests < MaxWrites
  /\ \E r \in Recipes, op \in {"create", "update", "delete"} :
       saving' = [saving EXCEPT ![c] =
         [step |-> "begun", op |-> op, recipe |-> r, known |-> Latest.roles]]
  /\ requests' = requests + 1
  /\ UNCHANGED <<ConfigVars, shelf, draft, vouched>>

Rewritten(op, recipe) ==
  LET others == {x \in shelf : x.id # recipe.id}
  IN  IF op = "delete" THEN others ELSE others \cup {recipe}
Applicable(op, recipe) ==
  shelf # Torn /\ ((op = "create") <=> (\A x \in shelf : x.id # recipe.id))
\* Mutant: only the recipe of the request is looked at, and a delete looks at none.
NothingValidated(known, list) == TRUE
AllValid(known, list) == \A x \in list : ValidRecipe(known, x)
PrepareRecipe(c) ==
  /\ saving[c].step = "begun"
  /\ LET s == saving[c]
         list == Rewritten(s.op, s.recipe)
         accepted == Applicable(s.op, s.recipe) /\ AllValid(s.known, list)
     IN  /\ saving' = [saving EXCEPT ![c] =
                         IF accepted THEN [step |-> "open", list |-> list] ELSE NotSaving]
         /\ vouched' = IF accepted THEN vouched \cup {x \in list : ValidRecipe(s.known, x)}
                       ELSE vouched
  /\ UNCHANGED <<ConfigVars, shelf, draft, requests>>

OpenTemporary(c) ==
  /\ saving[c].step = "open"
  /\ draft' = {}
  /\ saving' = [saving EXCEPT ![c] = [step |-> "write", list |-> @.list, at |-> "draft"]]
  /\ UNCHANGED <<ConfigVars, shelf, vouched, requests>>

(* The bytes go to the file that was opened, wherever it now is.  Over     *)
(* another's longer text they leave its tail.                              *)
Over(content, list) == IF content \in {{}, list} THEN {list} ELSE {list, Torn}
WriteTemporary(c) ==
  /\ saving[c].step = "write"
  /\ CASE saving[c].at = "draft" -> draft' \in Over(draft, saving[c].list) /\ UNCHANGED shelf
       [] saving[c].at = "shelf" -> shelf' \in Over(shelf, saving[c].list) /\ UNCHANGED draft
       [] OTHER -> UNCHANGED <<shelf, draft>>
  /\ saving' = [saving EXCEPT ![c] = [step |-> "rename"]]
  /\ UNCHANGED <<ConfigVars, vouched, requests>>

(* Whoever has the temporary file open now has recipes.toml open, and who  *)
(* had that has a file without a name.  Without the temporary: an error.   *)
Moved(s) == IF s.step # "write" THEN s
            ELSE [s EXCEPT !.at = IF @ = "draft" THEN "shelf" ELSE "gone"]
RenameTemporary(c) ==
  /\ saving[c].step = "rename"
  /\ IF draft = NoFile
     THEN saving' = [saving EXCEPT ![c] = NotSaving] /\ UNCHANGED <<shelf, draft>>
     ELSE /\ shelf' = draft /\ draft' = NoFile
          /\ saving' = [k \in Clients |-> IF k = c THEN NotSaving ELSE Moved(saving[k])]
  /\ UNCHANGED <<ConfigVars, vouched, requests>>

-----------------------------------------------------------------------------
SettingsInit ==
  /\ document = FirstDocument
  /\ copy = [c \in Clients |-> NoDocument] /\ migrating = NoDocument
  /\ used = {}
  /\ shelf = {} /\ draft = NoFile
  /\ saving = [c \in Clients |-> NotSaving]
  /\ vouched = {}
  /\ writes = 0 /\ requests = 0

SettingsNext ==
  \/ \E c \in Clients : \/ GetConfig(c) \/ PutConfig(c)
                        \/ BeginRecipe(c) \/ PrepareRecipe(c) \/ OpenTemporary(c)
                        \/ WriteTemporary(c) \/ RenameTemporary(c)
  \/ ReadLegacy \/ WriteMigrated
  \/ CreateMcpServer \/ UpdateMcpServer \/ DeleteMcpServer
  \/ CreateRole \/ UpdateRole \/ DeleteRole \/ PutRolePolicy
  \/ AddRoleAssignment \/ RemoveRoleAssignment \/ SetPreferredAssignment
  \/ \E r \in CustomRoles : UseRole(r) \/ FreeRole(r)

SettingsSpec == SettingsInit /\ [][SettingsNext]_SettingsVars

-----------------------------------------------------------------------------
SettingsTypeOK ==
  /\ document \in Documents /\ {migrating} \subseteq Documents \cup {NoDocument}
  /\ used \subseteq CustomRoles
  /\ \A c \in Clients : copy[c] = NoDocument \/ copy[c] \in Documents
  /\ {writes, requests} \subseteq 0 .. MaxWrites

(* Validation never refuses what a targeted request made of a valid        *)
(* document: its own checks are enough.                                    *)
HandlersSuffice ==
  \A d \in AddAssignments(Latest) \cup Preferences(Latest) \cup Removals(Latest)
             \cup {WithoutRole(Latest, r) : r \in Latest.roles} : Valid(d)

(* The team a workflow gets without asking is one that validation accepts. *)
TeamsAreValid ==
  /\ \A t \in InitialTeams(Latest) : ValidTeam(Latest, t, FALSE)
  /\ \A t \in DefaultTeams(Latest) : ValidTeam(Latest, t, TRUE)

(* A recipe that reaches recipes.toml, whichever writer's file it was in,  *)
(* was accepted whole by some request.                                     *)
RecipesVouched == shelf # Torn => shelf \subseteq vouched

(* What a document says, each part by itself.                              *)
Parts(d) == {<<"agent", a>> : a \in d.agents} \cup {<<"role", r>> : r \in d.roles}
              \cup {<<"server", s>> : s \in d.servers}
              \cup {<<"assigned", x.role, x.agent>> : x \in d.assigned}
(* A replacement of the whole document only drops what its author saw: an  *)
(* acknowledged change that came in between is never lost to it.           *)
ReplacementsSeeAll ==
  \A c \in Clients :
    copy[c] # NoDocument /\ RevisionMatches(c) => Parts(Latest) \subseteq Parts(Normalized(copy[c]))

(* The configuration stays valid, under every request that is accepted,    *)
(* what is made of it is too, and no one's change is lost.                 *)
SettingsSound ==
  /\ SettingsTypeOK /\ Valid(Latest) /\ HandlersSuffice /\ TeamsAreValid
  /\ RecipesVouched /\ ReplacementsSeeAll

(* The same of the migration, which promises no less.                      *)
MigrationSawAll ==
  WriteMigrated => Parts(Latest) \subseteq Parts(Normalized(migrating))
MigrationKeepsChanges == [][MigrationSawAll]_SettingsVars

(* Every write of recipes.toml is atomic.                                  *)
RecipesWhole ==
  /\ shelf # Torn
  /\ \A c \in Clients : saving[c].step = "write" => saving[c].at # "shelf"
=============================================================================
