------------------------------- MODULE Policy -------------------------------
(***************************************************************************)
(* The policy of an attempt: the Factory's invariants, narrowed by what is *)
(* declared for its role, for its agent and by the recipe of its run.  A   *)
(* declaration is a preset, explicit rules per dimension, or both.  Every  *)
(* optional part is a set of at most one element.  A path and a pattern    *)
(* are sequences of components, a component a sequence of characters; a    *)
(* command is the name of its executable and whether it is one of the git  *)
(* invocations the safety invariants refuse.                               *)
(***************************************************************************)
EXTENDS Integers, FiniteSets, SequencesExt

CONSTANTS RoleScopes, AgentScopes, RecipeScopes,   \* what may be declared, per layer
          SamplePaths, SampleTools, SampleVariables

VARIABLES layers,   \* [role, agent, recipe], each a set of at most one scope
          complete  \* no further layer is declared
PolicyVars == <<layers, complete>>

\* What names files or tools: a path, or a pattern.
Globs == Seq(Seq(STRING)) \ {<<>>}
ASSUME PolicyConstants ==
  /\ \A s \in RoleScopes \cup AgentScopes \cup RecipeScopes :
       /\ \A rule \in s.commands : rule.mode \in 0 .. 2
       /\ \A rule \in s.filesystem : rule.read \cup rule.write \cup rule.deny \subseteq Globs
       /\ \A rule \in s.tools : rule.allow \cup rule.deny \subseteq Globs
  /\ SamplePaths \subseteq Globs
  /\ \A tool \in SampleTools : tool \in Globs /\ Len(tool) = 2

-----------------------------------------------------------------------------
(* Globs.                                                                  *)
Star == <<"*">>
Deep == <<"*", "*">>
\* Where a match stands: a place of the pattern, and one of the text.
Stands(p, t) == (1 .. Len(p) + 1) \X (1 .. Len(t) + 1)
MatchComponent(p, t) ==
  LET m[s \in Stands(p, t)] ==
        LET i == s[1]
            j == s[2]
        IN CASE i > Len(p) -> j > Len(t)
             [] i = Len(p) /\ p[i] = "*" -> TRUE
             [] i < Len(p) /\ p[i] = "*" -> j =< Len(t) /\ (m[<<i, j + 1>>] \/ m[<<i + 1, j>>])
             [] OTHER -> j =< Len(t) /\ p[i] \in {"?", t[j]} /\ m[<<i + 1, j + 1>>]
  IN  p = Star \/ m[<<1, 1>>]
\* Mutant: ** takes at least one component.
MatchesDeeper(pattern, path) ==
  LET m[s \in Stands(pattern, path)] ==
        LET i == s[1]
            j == s[2]
        IN CASE i > Len(pattern) -> j > Len(path)
             [] i =< Len(pattern) /\ pattern[i] = Deep -> \E k \in j + 1 .. Len(path) + 1 : m[<<i + 1, k>>]
             [] OTHER -> j =< Len(path) /\ MatchComponent(pattern[i], path[j]) /\ m[<<i + 1, j + 1>>]
  IN  m[<<1, 1>>]
Matches(pattern, path) ==
  LET m[s \in Stands(pattern, path)] ==
        LET i == s[1]
            j == s[2]
        IN CASE i > Len(pattern) -> j > Len(path)
             [] i =< Len(pattern) /\ pattern[i] = Deep -> \E k \in j .. Len(path) + 1 : m[<<i + 1, k>>]
             [] OTHER -> j =< Len(path) /\ MatchComponent(pattern[i], path[j]) /\ m[<<i + 1, j + 1>>]
  IN  m[<<1, 1>>]
In(path, patterns) == \E p \in patterns : Matches(p, path)

(* What git reports, mapped into the repository, if it can be.             *)
Here == <<".">>
Up == <<".", ".">>
NormalizeRepoRelative(raw) ==
  LET parts == SelectSeq(raw.parts, LAMBDA c : c \notin {Here, <<>>})
  IN  IF raw.absolute \/ Up \in ToSet(raw.parts) \/ parts = <<>> THEN {} ELSE {parts}

-----------------------------------------------------------------------------
(* Presets.                                                                *)
NoScope == [preset |-> "none", filesystem |-> {}, commands |-> {}, network |-> {},
            environment |-> {}, git |-> {}, tools |-> {}]
Everything == {<<Deep>>}
BaselineDeny == {<<<<".factory">>, Deep>>, <<<<".git">>, Deep>>, <<<<".git">>>>}
Shells == {"sh"}
Essentials == {"PATH"}
Unrestricted == 0
Restricted == 1
Denied == 2
PresetCommands(allow) == {[mode |-> Restricted, allow |-> allow, deny |-> Shells]}
PresetScope(read, write, denyWrite, commands) ==
  [NoScope EXCEPT !.filesystem = {[read |-> read, write |-> write, deny |-> denyWrite]},
                  !.commands = PresetCommands(commands),
                  !.environment = {[allow |-> Essentials, deny |-> {}]}]
PresetDefaults(preset) ==
  CASE preset \in {"read_only", "review"} -> PresetScope(Everything, {}, {}, {"git"})
    [] preset = "implementation" -> PresetScope(Everything, Everything, BaselineDeny, {"git", "cargo"})
    [] preset = "documentation" -> PresetScope(Everything, {<<<<"docs">>, Deep>>}, BaselineDeny, {"git"})
    [] OTHER -> NoScope

Or(explicit, default) == IF explicit # {} THEN explicit ELSE default
MergedScope(s) ==
  LET d == PresetDefaults(s.preset)
  IN  [filesystem |-> Or(s.filesystem, d.filesystem), commands |-> Or(s.commands, d.commands),
       network |-> Or(s.network, d.network), environment |-> Or(s.environment, d.environment),
       git |-> Or(s.git, d.git), tools |-> Or(s.tools, d.tools)]

(* The rules of one dimension that the layers declare, in their order.     *)
Rules(l, layer, dimension) == UNION {MergedScope(s)[dimension] : s \in l[layer]}
Below(l, dimension) == Rules(l, "agent", dimension) \cup Rules(l, "recipe", dimension)
All(l, dimension) == Rules(l, "role", dimension) \cup Below(l, dimension)
InOrder(l, dimension) ==
  SetToSeq(Rules(l, "role", dimension)) \o SetToSeq(Rules(l, "agent", dimension))
    \o SetToSeq(Rules(l, "recipe", dimension))

-----------------------------------------------------------------------------
(* Files: the role's lists replace the default, the others must match too. *)
ReadScopes(l) ==
  LET declared == UNION {r.read : r \in Rules(l, "role", "filesystem")}
  IN  IF declared = {} THEN Everything ELSE declared
WriteScopes(l) ==
  LET role == Rules(l, "role", "filesystem")
  IN  IF role = {} THEN Everything ELSE UNION {r.write : r \in role}
DenyScopes(l) == BaselineDeny \cup UNION {r.deny : r \in All(l, "filesystem")}
ReadAllowed(l, path) ==
  /\ In(path, ReadScopes(l)) /\ ~In(path, DenyScopes(l))
  /\ \A r \in Below(l, "filesystem") : r.read # {} => In(path, r.read)
WriteAllowed(l, path) ==
  /\ In(path, WriteScopes(l)) /\ ~In(path, DenyScopes(l))
  /\ \A r \in Below(l, "filesystem") : In(path, r.write)

(* The gate before a start: two scopes overlap when one's directory, as a  *)
(* text, begins with the other's.                                          *)
Text(p) == FlattenSeq([i \in DOMAIN p |-> IF i = 1 THEN p[i] ELSE <<"/">> \o p[i]])
EndsDeep(text) == Len(text) > 1 /\ text[Len(text)] = "*" /\ text[Len(text) - 1] = "*"
Directory(p) == IF EndsDeep(Text(p)) THEN SubSeq(Text(p), 1, Len(Text(p)) - 2) ELSE Text(p)
ScopesOverlap(a, b) ==
  IsPrefix(Directory(a), Directory(b)) \/ IsPrefix(Directory(b), Directory(a))
ReadOnly(l) ==
  \A base \in WriteScopes(l) :
    \E r \in Below(l, "filesystem") : \A scope \in r.write : ~ScopesOverlap(base, scope)
Mutating == {"implement", "verify", "post_process"}
ValidateExecutable(l, operation) == operation \in Mutating => ~ReadOnly(l)

-----------------------------------------------------------------------------
(* Commands and variables: allow lists intersect, an empty one being none. *)
Intersected(allow, declared) ==
  CASE declared = {} -> allow [] declared # {} /\ allow = {} -> declared [] OTHER -> allow \cap declared
Closed(c) == IF c.mode = Restricted /\ c.allow = {} THEN [c EXCEPT !.mode = Denied] ELSE c
Stricter(a, b) == IF a > b THEN a ELSE b
\* Mutant: the lists of a later layer are added.
WidenCommands(c, rule) ==
  [mode |-> Stricter(c.mode, rule.mode), allow |-> c.allow \cup rule.allow, deny |-> c.deny \cup rule.deny]
NarrowCommands(c, rule) ==
  [mode |-> Stricter(c.mode, rule.mode),
   allow |-> IF rule.mode = Restricted THEN Intersected(c.allow, rule.allow) ELSE c.allow,
   deny |-> c.deny \cup rule.deny]
NoCommandRules == [mode |-> Unrestricted, allow |-> {}, deny |-> {}]
Under(c, rules) == IF rules = {} THEN c ELSE NarrowCommands(c, CHOOSE rule \in rules : TRUE)
Commands(l) ==
  LET role == Under(NoCommandRules, Rules(l, "role", "commands"))
      resolved == Closed(Under(role, Rules(l, "agent", "commands")))
  IN  Closed(Under(resolved, Rules(l, "recipe", "commands")))
CommandAllowed(c, command) ==
  /\ command.name \notin c.deny
  /\ c.mode # Denied
  /\ c.mode = Restricted => command.name \in c.allow /\ ~command.dangerous
CommandViolates(l, command) ==
  LET c == Commands(l) IN c.mode # Unrestricted /\ ~CommandAllowed(c, command)

NetworkAllowed(l) == "deny" \notin All(l, "network")

Environment(l) ==
  FoldLeft(LAMBDA e, rule : [allow |-> Intersected(e.allow, rule.allow), deny |-> e.deny \cup rule.deny],
           [allow |-> {}, deny |-> {}], InOrder(l, "environment"))
FilterEnvironment(e, v) == v \notin e.deny /\ (e.allow = {} \/ v \in e.allow)
Forwarded(l) == {v \in SampleVariables : FilterEnvironment(Environment(l), v)}

(* Git: only what every layer names, of the two operations there are.      *)
GitBaseline == {"read", "commit_in_task_worktree"}
GitAllowed(l) == {op \in GitBaseline : \A allow \in All(l, "git") : allow # {} => op \in allow}

(* Tools: the role's list is required, whatever the layers below say; a    *)
(* privileged tool must be named in it.  A tool is <<server, name>>.       *)
RoleTools(l) == UNION {r.allow : r \in Rules(l, "role", "tools")}
ToolAllowed(l, tool, exact) ==
  /\ ~In(tool, UNION {r.deny : r \in All(l, "tools")})
  /\ In(tool, RoleTools(l)) /\ (exact => tool \in RoleTools(l))
  /\ \A r \in Below(l, "tools") : In(tool, r.allow)
MaySelect(pattern, server) ==
  pattern = <<Star>> \/ (Len(pattern) > 1 /\ Matches(<<Head(pattern)>>, <<server>>))
MayAllowServer(l, server) ==
  /\ \E p \in RoleTools(l) : MaySelect(p, server)
  /\ \A r \in Below(l, "tools") : \E p \in r.allow : MaySelect(p, server)

(* After an attempt: what it changed and what it reports to have run.      *)
Permissive(l) == l.role = {} /\ l.agent = {} /\ l.recipe = {}
EvidenceAccepted(l, changed, reported) ==
  \/ Permissive(l)
  \/ /\ \A raw \in changed : \E path \in NormalizeRepoRelative(raw) : WriteAllowed(l, path)
     /\ \A command \in reported : ~CommandViolates(l, command)

-----------------------------------------------------------------------------
(* The layers come one after the other; each may stay undeclared.          *)
PolicyInit ==
  /\ layers \in {[role |-> r, agent |-> {}, recipe |-> {}] : r \in {{}} \cup {{s} : s \in RoleScopes}}
  /\ complete = FALSE
NarrowByAgent ==
  /\ ~complete /\ layers.agent = {} /\ layers.recipe = {}
  /\ \E s \in AgentScopes : layers' = [layers EXCEPT !.agent = {s}]
  /\ UNCHANGED complete
(* The recipe's snapshot gives a preset and, with any tool selector, tools.*)
NarrowByRecipe ==
  /\ ~complete /\ layers.recipe = {}
  /\ \E s \in RecipeScopes : layers' = [layers EXCEPT !.recipe = {s}]
  /\ complete' = TRUE
PolicyNext == NarrowByAgent \/ NarrowByRecipe
PolicySpec == PolicyInit /\ [][PolicyNext]_PolicyVars

-----------------------------------------------------------------------------
(* What is permitted under b is permitted under a: files, git, network and *)
(* tools; and, of the commands, what a refuses, b does.                    *)
Narrowed(a, b) ==
  /\ \A path \in SamplePaths : /\ WriteAllowed(b, path) => WriteAllowed(a, path)
                               /\ ReadAllowed(b, path) => ReadAllowed(a, path)
  /\ GitAllowed(b) \subseteq GitAllowed(a)
  /\ NetworkAllowed(b) => NetworkAllowed(a)
  /\ \A tool \in SampleTools, exact \in BOOLEAN :
       ToolAllowed(b, tool, exact) => ToolAllowed(a, tool, exact)
SampleCommands == [name : {"git", "cargo", "sh"}, dangerous : BOOLEAN]
CommandsNarrowed(a, b) ==
  \A command \in SampleCommands : CommandViolates(a, command) => CommandViolates(b, command)
NamesCommands(l) == \A r \in All(l, "commands") : r.mode = Restricted => r.allow # {}

(* No layer widens what the layers above it leave; of the commands, where  *)
(* no layer above restricts them to an empty list (see AgentNarrows).      *)
LayerNarrows ==
  /\ Narrowed(layers, layers')
  /\ NamesCommands(layers) => CommandsNarrowed(layers, layers')
LayersNarrow == [][layers' # layers => LayerNarrows]_PolicyVars

(* "an agent can never widen a role's access": nor its variables, nor what *)
(* a role restricted to no command at all may run.                         *)
AgentNarrows ==
  [][Forwarded(layers') \subseteq Forwarded(layers) /\ CommandsNarrowed(layers, layers')]_PolicyVars

(* A glob takes a path when its components can be dealt out, in order, to  *)
(* those of the pattern: any number to one that takes many, one to each    *)
(* other.                                                                  *)
Dealt(p, t, Takes(_, _), Many(_)) ==
  \E deal \in [DOMAIN t -> DOMAIN p] :
    /\ \A i, j \in DOMAIN t : i < j => deal[i] =< deal[j]
    /\ \A k \in DOMAIN p : Many(p[k]) \/ Cardinality({j \in DOMAIN t : deal[j] = k}) = 1
    /\ \A j \in DOMAIN t : Many(p[deal[j]]) \/ Takes(p[deal[j]], t[j])
Fits(c, d) == c \in {"?", d}
StarChar(c) == c = "*"
DeepStar(c) == c = Deep
ComponentTakes(p, t) == Dealt(p, t, Fits, StarChar)
GlobTakes(pattern, path) == Dealt(pattern, path, ComponentTakes, DeepStar)
(* The code lets the stars that end a component like a** take no nothing.  *)
Plain(pattern) ==
  \A k \in DOMAIN pattern : pattern[k] = Deep \/ ~EndsDeep(pattern[k])
GlobsAgree ==
  \A path \in SamplePaths : \A r \in All(layers, "filesystem") :
    \A p \in r.read \cup r.write \cup r.deny : Plain(p) => (Matches(p, path) <=> GlobTakes(p, path))

(* Whatever is declared: Factory's own state and git's are not written to, *)
(* evidence from outside the repository is refused, the gate refuses only  *)
(* a start that could write nothing, if the scopes name directories and    *)
(* files without wildcards, and every server of an allowed tool is asked   *)
(* for its tools (unless a bare double star is what selects it).           *)
SafetyBaseline ==
  /\ \A path \in SamplePaths : path[1] \in {<<".git">>, <<".factory">>} => ~WriteAllowed(layers, path)
  /\ ~Permissive(layers) =>
       ~EvidenceAccepted(layers, {[absolute |-> FALSE, parts |-> <<<<"docs">>, Up, <<"a">>>>]}, {})
NamesPlace(pattern) ==
  \A k \in DOMAIN pattern : \/ k = Len(pattern) /\ pattern[k] = Deep
                            \/ ToSet(pattern[k]) \cap {"*", "?"} = {}
GateIsFair ==
  LET scopes == WriteScopes(layers) \cup UNION {r.write : r \in Below(layers, "filesystem")} IN
  ReadOnly(layers) /\ (\A p \in scopes : NamesPlace(p)) => \A path \in SamplePaths : ~WriteAllowed(layers, path)
ServersContacted ==
  \A tool \in SampleTools :
    ToolAllowed(layers, tool, FALSE)
      /\ (\A r \in All(layers, "tools") : <<Deep>> \notin r.allow)
    => MayAllowServer(layers, tool[1])
PolicySound == GlobsAgree /\ SafetyBaseline /\ GateIsFair /\ ServersContacted
=============================================================================
