---------------------------- MODULE Project_proof ----------------------------
(***************************************************************************)
(* Proofs about what surrounds the runs of a project: the policies they    *)
(* are held to, the issues they come from, the browsers that ask, the      *)
(* settings, and the plan and the team a run starts with.                  *)
(***************************************************************************)
EXTENDS Policy, Issues, Sessions, Settings, PlanIntake, Inductions_proof

(***************************************************************************)
(* Proofs about Policy, for any declarations and any paths and tools: what *)
(* a layer adds can only take away. How globs match does not matter to     *)
(* this. The intersection of the variables is a fold over the declared     *)
(* rules and stays with TLC.                                               *)
(***************************************************************************)

(* The layers before and after some were added: the role's is the same,    *)
(* and what was declared below it still is.                                *)
Extends(a, b) == a.role = b.role /\ a.agent \subseteq b.agent /\ a.recipe \subseteq b.recipe

(* The rules of a dimension only grow, and the role's do not change.       *)
LEMMA RulesGrow ==
  ASSUME NEW a, NEW b, Extends(a, b), NEW dimension
  PROVE  /\ Rules(a, "role", dimension) = Rules(b, "role", dimension)
         /\ Below(a, dimension) \subseteq Below(b, dimension)
         /\ All(a, dimension) \subseteq All(b, dimension)
<1>1. Rules(a, "role", dimension) = Rules(b, "role", dimension)
  BY DEF Extends, Rules
<1>2. Rules(a, "agent", dimension) \subseteq Rules(b, "agent", dimension)
  BY DEF Extends, Rules
<1>3. Rules(a, "recipe", dimension) \subseteq Rules(b, "recipe", dimension)
  BY DEF Extends, Rules
<1> QED BY <1>1, <1>2, <1>3 DEF Below, All

(* A path or a tool that some patterns take is taken by more of them.      *)
LEMMA InGrows ==
  ASSUME NEW path, NEW P, NEW Q, P \subseteq Q, In(path, P) PROVE In(path, Q)
  BY DEF In

LEMMA FilesNarrow ==
  ASSUME NEW a, NEW b, Extends(a, b), NEW path
  PROVE  /\ WriteAllowed(b, path) => WriteAllowed(a, path)
         /\ ReadAllowed(b, path) => ReadAllowed(a, path)
<1>1. /\ Rules(a, "role", "filesystem") = Rules(b, "role", "filesystem")
      /\ Below(a, "filesystem") \subseteq Below(b, "filesystem")
      /\ All(a, "filesystem") \subseteq All(b, "filesystem")
  BY RulesGrow
<1>2. WriteScopes(a) = WriteScopes(b)
  BY <1>1 DEF WriteScopes
<1>3. ReadScopes(a) = ReadScopes(b)
  BY <1>1 DEF ReadScopes
<1>4. ~In(path, DenyScopes(b)) => ~In(path, DenyScopes(a))
  <2>1. DenyScopes(a) \subseteq DenyScopes(b)
    BY <1>1 DEF DenyScopes
  <2> QED BY <2>1, InGrows
<1>5. WriteAllowed(b, path) => WriteAllowed(a, path)
  BY <1>1, <1>2, <1>4 DEF WriteAllowed
<1>6. ReadAllowed(b, path) => ReadAllowed(a, path)
  BY <1>1, <1>3, <1>4 DEF ReadAllowed
<1> QED BY <1>5, <1>6

LEMMA ToolsNarrow ==
  ASSUME NEW a, NEW b, Extends(a, b), NEW tool, NEW exact \in BOOLEAN, ToolAllowed(b, tool, exact)
  PROVE  ToolAllowed(a, tool, exact)
<1>1. /\ Rules(a, "role", "tools") = Rules(b, "role", "tools")
      /\ Below(a, "tools") \subseteq Below(b, "tools")
      /\ All(a, "tools") \subseteq All(b, "tools")
  BY RulesGrow
<1>2. RoleTools(a) = RoleTools(b)
  BY <1>1 DEF RoleTools
<1>3. UNION {r.deny : r \in All(a, "tools")} \subseteq UNION {r.deny : r \in All(b, "tools")}
  BY <1>1
<1>4. ~In(tool, UNION {r.deny : r \in All(a, "tools")})
  BY <1>3, InGrows DEF ToolAllowed
<1> QED BY <1>1, <1>2, <1>4 DEF ToolAllowed

LEMMA ServersNarrow ==
  ASSUME NEW a, NEW b, Extends(a, b), NEW server, MayAllowServer(b, server)
  PROVE  MayAllowServer(a, server)
<1>1. /\ Rules(a, "role", "tools") = Rules(b, "role", "tools")
      /\ Below(a, "tools") \subseteq Below(b, "tools")
  BY RulesGrow
<1> QED BY <1>1 DEF MayAllowServer, RoleTools

LEMMA LayersNarrowed ==
  ASSUME NEW a, NEW b, Extends(a, b) PROVE Narrowed(a, b)
<1>1. All(a, "git") \subseteq All(b, "git") /\ All(a, "network") \subseteq All(b, "network")
  BY RulesGrow
<1>2. GitAllowed(b) \subseteq GitAllowed(a)
  BY <1>1 DEF GitAllowed
<1>3. NetworkAllowed(b) => NetworkAllowed(a)
  BY <1>1 DEF NetworkAllowed
<1>4. ASSUME NEW tool \in SampleTools, NEW exact \in BOOLEAN, ToolAllowed(b, tool, exact)
      PROVE  ToolAllowed(a, tool, exact)
  BY <1>4, ToolsNarrow
<1>5. \A path \in SamplePaths : WriteAllowed(b, path) => WriteAllowed(a, path)
  BY FilesNarrow
<1>6. \A path \in SamplePaths : ReadAllowed(b, path) => ReadAllowed(a, path)
  BY FilesNarrow
<1> QED BY <1>2, <1>3, <1>4, <1>5, <1>6, Zenon DEF Narrowed

-----------------------------------------------------------------------------
Declared == [role : SUBSET RoleScopes, agent : SUBSET AgentScopes, recipe : SUBSET RecipeScopes]
PolicyTypeOK == layers \in Declared

LEMMA TypeHolds == PolicySpec => []PolicyTypeOK
<1>1. PolicyInit => PolicyTypeOK
  BY DEF PolicyInit, PolicyTypeOK, Declared
<1>2. PolicyTypeOK /\ [PolicyNext]_PolicyVars => PolicyTypeOK'
  <2> SUFFICES ASSUME PolicyTypeOK, [PolicyNext]_PolicyVars PROVE PolicyTypeOK'
    OBVIOUS
  <2>1. ASSUME NEW s \in AgentScopes, layers' = [layers EXCEPT !.agent = {s}] PROVE PolicyTypeOK'
    BY <2>1 DEF PolicyTypeOK, Declared
  <2>2. ASSUME NEW s \in RecipeScopes, layers' = [layers EXCEPT !.recipe = {s}] PROVE PolicyTypeOK'
    BY <2>2 DEF PolicyTypeOK, Declared
  <2> QED BY <2>1, <2>2 DEF PolicyNext, NarrowByAgent, NarrowByRecipe, PolicyVars, PolicyTypeOK
<1> QED BY <1>1, <1>2, PTL DEF PolicySpec

LEMMA StepExtends == PolicyTypeOK /\ PolicyNext => Extends(layers, layers')
<1> SUFFICES ASSUME PolicyTypeOK, PolicyNext PROVE Extends(layers, layers')
  OBVIOUS
<1>1. CASE NarrowByAgent
  BY <1>1 DEF PolicyTypeOK, Declared, NarrowByAgent, Extends
<1>2. CASE NarrowByRecipe
  BY <1>2 DEF PolicyTypeOK, Declared, NarrowByRecipe, Extends
<1> QED BY <1>1, <1>2 DEF PolicyNext

(* Commands. A rule keeps refusing what was refused, unless it narrows an  *)
(* empty list that restricts: NamesCommands rules that out for what is     *)
(* declared, Closed for what is resolved.                                  *)
Modes == 0 .. 2
IsResolved(c) ==
  \E mode \in Modes : \E allow, deny : c = [mode |-> mode, allow |-> allow, deny |-> deny]
Refuses(c, command) == c.mode # Unrestricted /\ ~CommandAllowed(c, command)
Keeps(c, d) == \A command : Refuses(c, command) => Refuses(d, command)
NamesSome(c) == c.mode = Restricted => c.allow # {}

LEMMA ResolvedIs ==
  ASSUME NEW mode \in Modes, NEW allow, NEW deny
  PROVE  IsResolved([mode |-> mode, allow |-> allow, deny |-> deny])
  BY DEF IsResolved

LEMMA ClosingKeeps ==
  ASSUME NEW c, IsResolved(c)
  PROVE  /\ IsResolved(Closed(c)) /\ NamesSome(Closed(c))
         /\ Keeps(c, Closed(c)) /\ Keeps(Closed(c), c)
<1>1. PICK mode \in Modes : \E allow, deny : c = [mode |-> mode, allow |-> allow, deny |-> deny]
  BY DEF IsResolved
<1> PICK allow, deny : c = [mode |-> mode, allow |-> allow, deny |-> deny]
  BY <1>1
<1>2. CASE mode = Restricted /\ allow = {}
  <2>1. Closed(c) = [mode |-> Denied, allow |-> {}, deny |-> deny]
    BY <1>1, <1>2 DEF Closed
  <2>2. IsResolved(Closed(c)) /\ NamesSome(Closed(c))
    <3>1. Denied \in Modes
      BY DEF Denied, Modes
    <3>2. IsResolved(Closed(c))
      BY <2>1, <3>1, ResolvedIs
    <3> QED BY <2>1, <3>2 DEF NamesSome, Denied, Restricted
  <2>3. Keeps(c, Closed(c)) /\ Keeps(Closed(c), c)
    BY <2>1, <1>1, <1>2 DEF Keeps, Refuses, CommandAllowed, Denied, Restricted, Unrestricted
  <2> QED BY <2>2, <2>3
<1>3. CASE ~(mode = Restricted /\ allow = {})
  <2>1. Closed(c) = c
    BY <1>1, <1>3 DEF Closed
  <2> QED BY <1>1, <1>3, <2>1 DEF NamesSome, Keeps
<1> QED BY <1>2, <1>3

LEMMA NarrowingKeeps ==
  ASSUME NEW c, NEW rule, IsResolved(c), rule.mode \in Modes
  PROVE  /\ IsResolved(NarrowCommands(c, rule))
         /\ NamesSome(c) => Keeps(c, NarrowCommands(c, rule))
<1> DEFINE n == NarrowCommands(c, rule)
<1>1. /\ n.mode = Stricter(c.mode, rule.mode) /\ n.deny = c.deny \cup rule.deny
      /\ n.allow = IF rule.mode = Restricted THEN Intersected(c.allow, rule.allow) ELSE c.allow
      /\ n = [mode |-> n.mode, allow |-> n.allow, deny |-> n.deny]
  BY DEF NarrowCommands
<1>2. c.mode \in Modes
  BY DEF IsResolved
<1>3. /\ n.mode \in Modes /\ (c.mode # Unrestricted => n.mode # Unrestricted)
      /\ (c.mode = Denied => n.mode = Denied)
      /\ (n.mode = Restricted => c.mode \in {Unrestricted, Restricted})
  BY <1>1, <1>2 DEF Modes, Stricter, Unrestricted, Denied, Restricted
<1>4. IsResolved(n)
  BY <1>1, <1>3 DEF IsResolved
<1>5. c.mode = Restricted /\ NamesSome(c) => n.allow \subseteq c.allow
  BY <1>1 DEF Intersected, NamesSome
<1> HIDE DEF n
<1>6. ASSUME NamesSome(c), NEW command, Refuses(c, command) PROVE Refuses(n, command)
  BY <1>1, <1>2, <1>3, <1>5, <1>6
    DEF Refuses, CommandAllowed, Modes, Unrestricted, Denied, Restricted
<1>7. NamesSome(c) => Keeps(c, n)
  BY <1>6 DEF Keeps
<1> QED BY <1>4, <1>7 DEF n

LEMMA UnderKeeps ==
  ASSUME NEW c, NEW rules, IsResolved(c), \A rule \in rules : rule.mode \in Modes
  PROVE  /\ IsResolved(Under(c, rules))
         /\ NamesSome(c) => Keeps(c, Under(c, rules))
<1>1. CASE rules = {}
  BY <1>1 DEF Under, Keeps
<1>2. CASE rules # {}
  <2>1. PICK rule \in rules : Under(c, rules) = NarrowCommands(c, rule)
    BY <1>2 DEF Under
  <2> QED BY <2>1, NarrowingKeeps
<1> QED BY <1>1, <1>2

(* The modes of what is declared, by a preset or by rules.                 *)
LEMMA ModesDeclared ==
  ASSUME NEW l \in Declared, NEW layer \in {"role", "agent", "recipe"}
  PROVE  \A rule \in Rules(l, layer, "commands") : rule.mode \in Modes
<1> SUFFICES ASSUME NEW s \in l[layer], NEW rule \in MergedScope(s)["commands"]
             PROVE  rule.mode \in Modes
  BY DEF Rules
<1>1. s \in RoleScopes \cup AgentScopes \cup RecipeScopes
  BY DEF Declared
<1>2. rule \in s.commands \cup PresetDefaults(s.preset).commands
  BY DEF MergedScope, Or
<1>3. CASE rule \in s.commands
  BY <1>1, <1>3, PolicyConstants DEF Modes
<1>4. CASE rule \in PresetDefaults(s.preset).commands
  <2>1. NoScope.commands = {}
    BY DEF NoScope
  <2>2. \A read, write, deny, allow :
          PresetScope(read, write, deny, allow).commands = PresetCommands(allow)
    BY DEF PresetScope, NoScope
  <2>3. PresetDefaults(s.preset) = NoScope
        \/ \E read, write, deny, allow : PresetDefaults(s.preset) = PresetScope(read, write, deny, allow)
    BY DEF PresetDefaults
  <2>4. PICK allow : rule \in PresetCommands(allow)
    BY <1>4, <2>1, <2>2, <2>3
  <2> QED BY <2>4 DEF PresetCommands, Modes, Restricted
<1> QED BY <1>2, <1>3, <1>4

(* What the role and the agent leave, before the recipe's rules.           *)
RoleCommands(l) == Under(NoCommandRules, Rules(l, "role", "commands"))
Resolved(l) == Closed(Under(RoleCommands(l), Rules(l, "agent", "commands")))

LEMMA LayersResolved ==
  ASSUME NEW l \in Declared
  PROVE  /\ IsResolved(RoleCommands(l)) /\ IsResolved(Resolved(l)) /\ NamesSome(Resolved(l))
         /\ IsResolved(Commands(l))
         /\ Commands(l) = Closed(Under(Resolved(l), Rules(l, "recipe", "commands")))
<1>1. IsResolved(NoCommandRules)
  <2>1. Unrestricted \in Modes
    BY DEF Modes, Unrestricted
  <2> QED BY <2>1, ResolvedIs DEF NoCommandRules
<1>2. IsResolved(RoleCommands(l))
  BY <1>1, ModesDeclared, UnderKeeps DEF RoleCommands
<1>3. IsResolved(Resolved(l)) /\ NamesSome(Resolved(l))
  <2>1. IsResolved(Under(RoleCommands(l), Rules(l, "agent", "commands")))
    BY <1>2, ModesDeclared, UnderKeeps
  <2> QED BY <2>1, ClosingKeeps DEF Resolved
<1>4. Commands(l) = Closed(Under(Resolved(l), Rules(l, "recipe", "commands")))
  BY DEF Commands, Resolved, RoleCommands
<1>5. IsResolved(Under(Resolved(l), Rules(l, "recipe", "commands")))
  BY <1>3, ModesDeclared, UnderKeeps
<1> QED BY <1>2, <1>3, <1>4, <1>5, ClosingKeeps

LEMMA RoleNames ==
  ASSUME NEW l \in Declared, NamesCommands(l) PROVE NamesSome(RoleCommands(l))
<1>1. CASE Rules(l, "role", "commands") = {}
  BY <1>1 DEF RoleCommands, Under, NoCommandRules, NamesSome, Unrestricted, Restricted
<1>2. CASE Rules(l, "role", "commands") # {}
  <2>1. PICK rule \in Rules(l, "role", "commands") :
               RoleCommands(l) = NarrowCommands(NoCommandRules, rule)
    BY <1>2 DEF RoleCommands, Under
  <2>2. rule.mode \in Modes
    BY ModesDeclared
  <2>3. RoleCommands(l).mode = rule.mode
    BY <2>1, <2>2 DEF NarrowCommands, NoCommandRules, Stricter, Modes, Unrestricted
  <2>4. rule.mode = Restricted => RoleCommands(l).allow = rule.allow /\ rule.allow # {}
    BY <2>1 DEF NarrowCommands, NoCommandRules, Intersected, NamesCommands, All
  <2> QED BY <2>3, <2>4 DEF NamesSome
<1> QED BY <1>1, <1>2

LEMMA KeepsChains ==
  ASSUME NEW a, NEW b, NEW c, Keeps(a, b), Keeps(b, c) PROVE Keeps(a, c)
  BY DEF Keeps

(* A layer that comes below the role, or below the role and the agent.     *)
LEMMA AgentKeeps ==
  ASSUME NEW a \in Declared, NEW b \in Declared, NamesCommands(a),
         a.role = b.role, a.agent = {}, a.recipe = {}, b.recipe = {}
  PROVE  Keeps(Commands(a), Commands(b))
<1> DEFINE c == RoleCommands(a)
           d == Under(c, Rules(b, "agent", "commands"))
<1>1. c = RoleCommands(b)
  BY DEF RoleCommands, Rules
<1>2. /\ Rules(a, "agent", "commands") = {} /\ Rules(a, "recipe", "commands") = {}
      /\ Rules(b, "recipe", "commands") = {}
  BY DEF Rules
<1>3. Commands(a) = Closed(Closed(c)) /\ Commands(b) = Closed(Closed(d))
  BY <1>1, <1>2, LayersResolved DEF Resolved, Under
<1>4. IsResolved(c) /\ NamesSome(c)
  BY LayersResolved, RoleNames
<1>5. IsResolved(d) /\ Keeps(c, d)
  BY <1>4, ModesDeclared, UnderKeeps
<1> HIDE DEF c, d
<1>6. Keeps(Closed(c), c) /\ Keeps(Closed(Closed(c)), Closed(c))
  BY <1>4, ClosingKeeps
<1>7. Keeps(d, Closed(d)) /\ Keeps(Closed(d), Closed(Closed(d)))
  BY <1>5, ClosingKeeps
<1>8. Keeps(Commands(a), d)
  BY <1>3, <1>5, <1>6, KeepsChains
<1> QED BY <1>3, <1>7, <1>8, KeepsChains

LEMMA RecipeKeeps ==
  ASSUME NEW a \in Declared, NEW b \in Declared,
         a.role = b.role, a.agent = b.agent, a.recipe = {}
  PROVE  Keeps(Commands(a), Commands(b))
<1> DEFINE c == Resolved(a)
           d == Under(c, Rules(b, "recipe", "commands"))
<1>1. c = Resolved(b)
  BY DEF Resolved, RoleCommands, Rules
<1>2. Rules(a, "recipe", "commands") = {}
  BY DEF Rules
<1>3. Commands(a) = Closed(c) /\ Commands(b) = Closed(d)
  BY <1>1, <1>2, LayersResolved DEF Under
<1>4. IsResolved(c) /\ NamesSome(c)
  BY LayersResolved
<1>5. IsResolved(d) /\ Keeps(c, d)
  BY <1>4, ModesDeclared, UnderKeeps
<1> HIDE DEF c, d
<1>6. Keeps(Closed(c), c) /\ Keeps(d, Closed(d))
  BY <1>4, <1>5, ClosingKeeps
<1> QED BY <1>3, <1>5, <1>6, KeepsChains

LEMMA StepKeeps ==
  PolicyTypeOK /\ PolicyTypeOK' /\ PolicyNext /\ NamesCommands(layers)
    => CommandsNarrowed(layers, layers')
<1> SUFFICES ASSUME PolicyTypeOK, PolicyTypeOK', PolicyNext, NamesCommands(layers)
             PROVE  CommandsNarrowed(layers, layers')
  OBVIOUS
<1>1. Keeps(Commands(layers), Commands(layers'))
  <2>1. CASE NarrowByAgent
    <3>1. layers.role = layers'.role /\ layers.agent = {}
          /\ layers.recipe = {} /\ layers'.recipe = {}
      BY <2>1 DEF PolicyTypeOK, Declared, NarrowByAgent
    <3> QED BY <3>1, AgentKeeps DEF PolicyTypeOK
  <2>2. CASE NarrowByRecipe
    <3>1. layers.role = layers'.role /\ layers.agent = layers'.agent /\ layers.recipe = {}
      BY <2>2 DEF PolicyTypeOK, Declared, NarrowByRecipe
    <3> QED BY <3>1, RecipeKeeps DEF PolicyTypeOK
  <2> QED BY <2>1, <2>2 DEF PolicyNext
<1>2. \A l, command : CommandViolates(l, command) <=> Refuses(Commands(l), command)
  BY DEF CommandViolates, Refuses
<1> QED BY <1>1, <1>2 DEF CommandsNarrowed, Keeps

(* No layer widens what the layers above it permit: files to read and to   *)
(* write, git operations, the network, tools, and commands where no layer  *)
(* above restricts them to an empty list, whatever is declared.            *)
THEOREM LayersNarrowHolds == PolicySpec => LayersNarrow
<1>1. PolicyTypeOK /\ PolicyTypeOK' /\ [PolicyNext]_PolicyVars
        => [layers' # layers => LayerNarrows]_PolicyVars
  BY StepExtends, LayersNarrowed, StepKeeps DEF LayerNarrows
<1> QED BY <1>1, TypeHolds, PTL DEF PolicySpec, LayersNarrow

(* Nor is a server asked for its tools that the layers above would not     *)
(* have asked.                                                             *)
THEOREM ServersNarrowHolds ==
  PolicySpec => [][\A server : MayAllowServer(layers', server) => MayAllowServer(layers, server)]_PolicyVars
<1>1. PolicyTypeOK /\ [PolicyNext]_PolicyVars
        => [\A server : MayAllowServer(layers', server) => MayAllowServer(layers, server)]_PolicyVars
  BY StepExtends, ServersNarrow
<1> QED BY <1>1, TypeHolds, PTL DEF PolicySpec

-----------------------------------------------------------------------------
(***************************************************************************)
(* What Policy promises of globs and gates (PolicySound), for any          *)
(* declarations, paths and tools. The table that the program fills, place  *)
(* by place of the pattern and of the text, is what the dealing out of the *)
(* reference definition is: induction over the places, from the end. That  *)
(* holds for components and, with what a component takes given, for whole  *)
(* patterns. What a pattern without wildcards takes begins with what it    *)
(* names, which is what the gate and the baseline need.                    *)
(***************************************************************************)
(* Dealing out the places j to k of a text to the places i to n of a       *)
(* pattern, in order: M are those that take any number, and R says which   *)
(* of the others takes which.                                              *)
DealtBy(d, n, k, i, j, R, M) ==
  /\ d \in [j .. k -> i .. n]
  /\ \A a, b \in j .. k : a < b => d[a] =< d[b]
  /\ \A q \in i .. n : q \in M \/ \E a \in j .. k : \A b \in j .. k : d[b] = q <=> b = a
  /\ \A a \in j .. k : d[a] \in M \/ <<d[a], a>> \in R
Deals(n, k, i, j, R, M) == \E d : DealtBy(d, n, k, i, j, R, M)

LEMMA DealsNone ==
  ASSUME NEW n \in Nat, NEW k \in Nat, NEW j \in 1 .. k + 1, NEW R, NEW M
  PROVE  Deals(n, k, n + 1, j, R, M) <=> j = k + 1
<1>1. ASSUME Deals(n, k, n + 1, j, R, M) PROVE j = k + 1
  <2>1. PICK d : d \in [j .. k -> n + 1 .. n]
    BY <1>1 DEF Deals, DealtBy
  <2>2. n + 1 .. n = {}
    OBVIOUS
  <2>3. j .. k = {}
    BY <2>1, <2>2
  <2> QED BY <2>3
<1>2. ASSUME j = k + 1 PROVE Deals(n, k, n + 1, j, R, M)
  <2> DEFINE d == [a \in j .. k |-> a]
  <2>1. j .. k = {} /\ n + 1 .. n = {}
    BY <1>2
  <2>2. DealtBy(d, n, k, n + 1, j, R, M)
    BY <2>1 DEF DealtBy
  <2> QED BY <2>2 DEF Deals
<1> QED BY <1>1, <1>2

LEMMA DealsOne ==
  ASSUME NEW n \in Nat, NEW k \in Nat, NEW i \in 1 .. n, NEW j \in 1 .. k + 1, NEW R, NEW M, i \notin M
  PROVE  Deals(n, k, i, j, R, M) <=> (j =< k /\ <<i, j>> \in R /\ Deals(n, k, i + 1, j + 1, R, M))
<1>1. ASSUME Deals(n, k, i, j, R, M)
      PROVE  j =< k /\ <<i, j>> \in R /\ Deals(n, k, i + 1, j + 1, R, M)
  <2>1. PICK d : DealtBy(d, n, k, i, j, R, M)
    BY <1>1 DEF Deals
  <2>2. /\ d \in [j .. k -> i .. n]
        /\ \A a, b \in j .. k : a < b => d[a] =< d[b]
        /\ \A q \in i .. n : q \in M \/ \E a \in j .. k : \A b \in j .. k : d[b] = q <=> b = a
        /\ \A a \in j .. k : d[a] \in M \/ <<d[a], a>> \in R
    BY <2>1 DEF DealtBy
  <2>3. PICK a \in j .. k : \A b \in j .. k : d[b] = i <=> b = a
    <3>1. i \in i .. n
      OBVIOUS
    <3> QED BY <2>2, <3>1
  <2>4. j \in j .. k /\ j =< k
    OBVIOUS
  <2>5. a = j
    <3> SUFFICES ASSUME j < a PROVE FALSE
      OBVIOUS
    <3>1. d[j] =< d[a] /\ d[a] = i /\ d[j] \in i .. n
      BY <2>2, <2>3, <2>4
    <3>2. d[j] = i
      BY <3>1
    <3> QED BY <2>3, <2>4, <3>2
  <2>6. <<i, j>> \in R
    BY <2>2, <2>3, <2>4, <2>5
  <2> DEFINE e == [b \in j + 1 .. k |-> d[b]]
  <2>7. \A b \in j + 1 .. k : b \in j .. k /\ e[b] = d[b] /\ d[b] \in i + 1 .. n
    <3> TAKE b \in j + 1 .. k
    <3>1. b \in j .. k /\ b # j
      OBVIOUS
    <3>2. d[b] \in i .. n /\ d[b] # i
      BY <2>2, <2>3, <2>5, <3>1
    <3> QED BY <3>1, <3>2
  <2>8. e \in [j + 1 .. k -> i + 1 .. n]
    BY <2>7
  <2>9. \A q \in i + 1 .. n : q \in M \/ \E b \in j + 1 .. k : \A c \in j + 1 .. k : e[c] = q <=> c = b
    <3> SUFFICES ASSUME NEW q \in i + 1 .. n, q \notin M
                 PROVE  \E b \in j + 1 .. k : \A c \in j + 1 .. k : e[c] = q <=> c = b
      OBVIOUS
    <3>1. q \in i .. n /\ q # i
      OBVIOUS
    <3>2. PICK b \in j .. k : \A c \in j .. k : d[c] = q <=> c = b
      BY <2>2, <3>1
    <3>3. b # j
      BY <2>3, <2>5, <3>1, <3>2
    <3>4. b \in j + 1 .. k
      BY <3>3
    <3> HIDE DEF e
    <3> QED BY <2>7, <3>2, <3>4
  <2> HIDE DEF e
  <2>10. DealtBy(e, n, k, i + 1, j + 1, R, M)
    <3>1. \A b, c \in j + 1 .. k : b < c => e[b] =< e[c]
      BY <2>2, <2>7
    <3>2. \A b \in j + 1 .. k : e[b] \in M \/ <<e[b], b>> \in R
      BY <2>2, <2>7
    <3> QED BY <2>8, <2>9, <3>1, <3>2 DEF DealtBy
  <2> QED BY <2>4, <2>6, <2>10 DEF Deals
<1>2. ASSUME j =< k, <<i, j>> \in R, Deals(n, k, i + 1, j + 1, R, M)
      PROVE  Deals(n, k, i, j, R, M)
  <2>1. PICK e : DealtBy(e, n, k, i + 1, j + 1, R, M)
    BY <1>2 DEF Deals
  <2>2. /\ e \in [j + 1 .. k -> i + 1 .. n]
        /\ \A a, b \in j + 1 .. k : a < b => e[a] =< e[b]
        /\ \A q \in i + 1 .. n : q \in M \/ \E a \in j + 1 .. k : \A b \in j + 1 .. k : e[b] = q <=> b = a
        /\ \A a \in j + 1 .. k : e[a] \in M \/ <<e[a], a>> \in R
    BY <2>1 DEF DealtBy
  <2> DEFINE d == [b \in j .. k |-> IF b = j THEN i ELSE e[b]]
  <2>3. j \in j .. k /\ \A b \in j .. k : b = j \/ b \in j + 1 .. k
    BY <1>2
  <2>4. d[j] = i /\ \A b \in j + 1 .. k : b \in j .. k /\ b # j /\ d[b] = e[b] /\ d[b] \in i + 1 .. n
    BY <2>2, <2>3
  <2>5. d \in [j .. k -> i .. n]
    <3>1. d = [b \in j .. k |-> d[b]]
      OBVIOUS
    <3> HIDE DEF d
    <3>2. i \in i .. n /\ \A q \in i + 1 .. n : q \in i .. n
      OBVIOUS
    <3>3. \A b \in j .. k : d[b] \in i .. n
      BY <2>3, <2>4, <3>2
    <3> QED BY <3>1, <3>3
  <2> HIDE DEF d
  <2>6. \A q \in i .. n : q \in M \/ \E a \in j .. k : \A b \in j .. k : d[b] = q <=> b = a
    <3> SUFFICES ASSUME NEW q \in i .. n, q \notin M
                 PROVE  \E a \in j .. k : \A b \in j .. k : d[b] = q <=> b = a
      OBVIOUS
    <3>1. CASE q = i
      <4>1. \A b \in j .. k : d[b] = q <=> b = j
        <5> TAKE b \in j .. k
        <5>1. CASE b = j
          BY <5>1, <3>1, <2>4
        <5>2. CASE b \in j + 1 .. k
          BY <5>2, <3>1, <2>4
        <5> QED BY <2>3, <5>1, <5>2
      <4> QED BY <2>3, <4>1
    <3>2. CASE q # i
      <4>1. q \in i + 1 .. n
        BY <3>2
      <4>2. PICK a \in j + 1 .. k : \A b \in j + 1 .. k : e[b] = q <=> b = a
        BY <2>2, <4>1
      <4>3. \A b \in j .. k : d[b] = q <=> b = a
        <5> TAKE b \in j .. k
        <5>1. CASE b = j
          BY <5>1, <3>2, <2>4
        <5>2. CASE b \in j + 1 .. k
          BY <5>2, <4>2, <2>4
        <5> QED BY <2>3, <5>1, <5>2
      <4>4. a \in j .. k
        BY <2>4
      <4> QED BY <4>3, <4>4
    <3> QED BY <3>1, <3>2
  <2>7. \A a, b \in j .. k : a < b => d[a] =< d[b]
    <3> SUFFICES ASSUME NEW a \in j .. k, NEW b \in j .. k, a < b PROVE d[a] =< d[b]
      OBVIOUS
    <3>1. b \in j + 1 .. k
      OBVIOUS
    <3>2. CASE a = j
      BY <2>4, <3>1, <3>2
    <3>3. CASE a \in j + 1 .. k
      BY <2>2, <2>4, <3>1, <3>3
    <3> QED BY <2>3, <3>2, <3>3
  <2>8. \A a \in j .. k : d[a] \in M \/ <<d[a], a>> \in R
    <3> TAKE a \in j .. k
    <3>1. CASE a = j
      BY <1>2, <2>4, <3>1
    <3>2. CASE a \in j + 1 .. k
      BY <2>2, <2>4, <3>2
    <3> QED BY <2>3, <3>1, <3>2
  <2>9. DealtBy(d, n, k, i, j, R, M)
    BY <2>5, <2>6, <2>7, <2>8 DEF DealtBy
  <2> QED BY <2>9 DEF Deals
<1> QED BY <1>1, <1>2

LEMMA DealsMany ==
  ASSUME NEW n \in Nat, NEW k \in Nat, NEW i \in 1 .. n, NEW j \in 1 .. k + 1, NEW R, NEW M, i \in M
  PROVE  Deals(n, k, i, j, R, M) <=> \E l \in j .. k + 1 : Deals(n, k, i + 1, l, R, M)
<1>1. ASSUME Deals(n, k, i, j, R, M) PROVE \E l \in j .. k + 1 : Deals(n, k, i + 1, l, R, M)
  <2>1. PICK d : DealtBy(d, n, k, i, j, R, M)
    BY <1>1 DEF Deals
  <2>2. /\ d \in [j .. k -> i .. n]
        /\ \A a, b \in j .. k : a < b => d[a] =< d[b]
        /\ \A q \in i .. n : q \in M \/ \E a \in j .. k : \A b \in j .. k : d[b] = q <=> b = a
        /\ \A a \in j .. k : d[a] \in M \/ <<d[a], a>> \in R
    BY <2>1 DEF DealtBy
  <2>3. PICK l \in j .. k + 1 : /\ \A a \in j .. k : a >= l => d[a] # i
                                /\ \A a \in j .. k : a < l => d[a] = i
    <3> DEFINE L == {l \in j .. k + 1 : \A a \in j .. k : a >= l => d[a] # i}
    <3>1. k + 1 \in L /\ L \subseteq Nat
      OBVIOUS
    <3>2. PICK l \in L : \A m \in L : l =< m
      <4> HIDE DEF L
      <4> QED BY <3>1, LeastNumber
    <3>3. ASSUME NEW a \in j .. k, a < l PROVE d[a] = i
      <4>1. l - 1 \in j .. k /\ a =< l - 1
        BY <3>3
      <4>2. l - 1 \notin L
        BY <3>2
      <4>3. d[l - 1] = i
        <5>1. PICK b \in j .. k : b >= l - 1 /\ d[b] = i
          BY <4>1, <4>2
        <5>2. ~(b >= l)
          BY <3>2, <5>1
        <5>3. b = l - 1
          BY <5>1, <5>2
        <5> QED BY <5>1, <5>3
      <4>4. d[a] =< d[l - 1]
        <5>1. CASE a = l - 1
          BY <2>2, <5>1
        <5>2. CASE a # l - 1
          BY <2>2, <4>1, <5>2
        <5> QED BY <5>1, <5>2
      <4>5. d[a] \in i .. n
        BY <2>2
      <4> QED BY <4>3, <4>4, <4>5
    <3> QED BY <3>2, <3>3
  <2> DEFINE e == [b \in l .. k |-> d[b]]
  <2>4. \A b \in l .. k : b \in j .. k /\ e[b] = d[b] /\ d[b] \in i + 1 .. n
    <3> TAKE b \in l .. k
    <3>1. b \in j .. k /\ b >= l
      OBVIOUS
    <3>2. d[b] \in i .. n /\ d[b] # i
      BY <2>2, <2>3, <3>1
    <3> QED BY <3>1, <3>2
  <2>5. e \in [l .. k -> i + 1 .. n]
    BY <2>4
  <2> HIDE DEF e
  <2>6. \A q \in i + 1 .. n : q \in M \/ \E b \in l .. k : \A c \in l .. k : e[c] = q <=> c = b
    <3> SUFFICES ASSUME NEW q \in i + 1 .. n, q \notin M
                 PROVE  \E b \in l .. k : \A c \in l .. k : e[c] = q <=> c = b
      OBVIOUS
    <3>1. q \in i .. n /\ q # i
      OBVIOUS
    <3>2. PICK b \in j .. k : \A c \in j .. k : d[c] = q <=> c = b
      BY <2>2, <3>1
    <3>3. ~(b < l)
      BY <2>3, <3>1, <3>2
    <3>4. b \in l .. k
      BY <3>3
    <3> QED BY <2>4, <3>2, <3>4
  <2>7. DealtBy(e, n, k, i + 1, l, R, M)
    <3>1. \A b, c \in l .. k : b < c => e[b] =< e[c]
      BY <2>2, <2>4
    <3>2. \A b \in l .. k : e[b] \in M \/ <<e[b], b>> \in R
      BY <2>2, <2>4
    <3> QED BY <2>5, <2>6, <3>1, <3>2 DEF DealtBy
  <2> QED BY <2>7 DEF Deals
<1>2. ASSUME NEW l \in j .. k + 1, Deals(n, k, i + 1, l, R, M) PROVE Deals(n, k, i, j, R, M)
  <2>1. PICK e : DealtBy(e, n, k, i + 1, l, R, M)
    BY <1>2 DEF Deals
  <2>2. /\ e \in [l .. k -> i + 1 .. n]
        /\ \A a, b \in l .. k : a < b => e[a] =< e[b]
        /\ \A q \in i + 1 .. n : q \in M \/ \E a \in l .. k : \A b \in l .. k : e[b] = q <=> b = a
        /\ \A a \in l .. k : e[a] \in M \/ <<e[a], a>> \in R
    BY <2>1 DEF DealtBy
  <2> DEFINE d == [b \in j .. k |-> IF b < l THEN i ELSE e[b]]
  <2>3. \A b \in j .. k : b < l \/ b \in l .. k
    OBVIOUS
  <2>4. /\ \A b \in j .. k : b < l => d[b] = i
        /\ \A b \in l .. k : b \in j .. k /\ ~(b < l) /\ d[b] = e[b] /\ d[b] \in i + 1 .. n
    BY <2>2
  <2>5. d \in [j .. k -> i .. n]
    <3>1. \A b \in j .. k : d[b] \in i .. n
      <4> TAKE b \in j .. k
      <4>1. CASE b < l
        BY <4>1, <2>4
      <4>2. CASE b \in l .. k
        <5>1. d[b] \in i + 1 .. n
          BY <4>2, <2>4
        <5> QED BY <5>1
      <4> QED BY <2>3, <4>1, <4>2
    <3> QED BY <3>1
  <2> HIDE DEF d
  <2>6. \A q \in i .. n : q \in M \/ \E a \in j .. k : \A b \in j .. k : d[b] = q <=> b = a
    <3> SUFFICES ASSUME NEW q \in i .. n, q \notin M
                 PROVE  \E a \in j .. k : \A b \in j .. k : d[b] = q <=> b = a
      OBVIOUS
    <3>1. q # i /\ q \in i + 1 .. n
      OBVIOUS
    <3>2. PICK a \in l .. k : \A b \in l .. k : e[b] = q <=> b = a
      BY <2>2, <3>1
    <3>3. \A b \in j .. k : d[b] = q <=> b = a
      <4> TAKE b \in j .. k
      <4>1. CASE b < l
        BY <4>1, <3>1, <2>4
      <4>2. CASE b \in l .. k
        BY <4>2, <3>2, <2>4
      <4> QED BY <2>3, <4>1, <4>2
    <3>4. a \in j .. k
      BY <2>4
    <3> QED BY <3>3, <3>4
  <2>7. \A a, b \in j .. k : a < b => d[a] =< d[b]
    <3> SUFFICES ASSUME NEW a \in j .. k, NEW b \in j .. k, a < b PROVE d[a] =< d[b]
      OBVIOUS
    <3>1. d[b] \in i .. n
      BY <2>5
    <3>2. CASE a < l
      BY <2>4, <3>1, <3>2
    <3>3. CASE a \in l .. k
      <4>1. b \in l .. k
        BY <3>3
      <4> QED BY <2>2, <2>4, <3>3, <4>1
    <3> QED BY <2>3, <3>2, <3>3
  <2>8. \A a \in j .. k : d[a] \in M \/ <<d[a], a>> \in R
    <3> TAKE a \in j .. k
    <3>1. CASE a < l
      BY <2>4, <3>1
    <3>2. CASE a \in l .. k
      BY <2>2, <2>4, <3>2
    <3> QED BY <2>3, <3>1, <3>2
  <2>9. DealtBy(d, n, k, i, j, R, M)
    BY <2>5, <2>6, <2>7, <2>8 DEF DealtBy
  <2> QED BY <2>9 DEF Deals
<1> QED BY <1>1, <1>2

(* Of a place that takes any number: nothing more, or one more.            *)
LEMMA DealsManyByOne ==
  ASSUME NEW n \in Nat, NEW k \in Nat, NEW i \in 1 .. n, NEW j \in 1 .. k + 1, NEW R, NEW M, i \in M
  PROVE  Deals(n, k, i, j, R, M)
           <=> Deals(n, k, i + 1, j, R, M) \/ (j =< k /\ Deals(n, k, i, j + 1, R, M))
<1> DEFINE D(l) == Deals(n, k, i + 1, l, R, M)
<1>1. Deals(n, k, i, j, R, M) <=> \E l \in j .. k + 1 : D(l)
  BY DealsMany
<1>2. j =< k => (Deals(n, k, i, j + 1, R, M) <=> \E l \in j + 1 .. k + 1 : D(l))
  <2> SUFFICES ASSUME j =< k PROVE Deals(n, k, i, j + 1, R, M) <=> \E l \in j + 1 .. k + 1 : D(l)
    OBVIOUS
  <2>1. j + 1 \in 1 .. k + 1
    OBVIOUS
  <2> QED BY <2>1, DealsMany
<1> HIDE DEF D
<1>3. \A l \in j .. k + 1 : l = j \/ (j =< k /\ l \in j + 1 .. k + 1)
  OBVIOUS
<1>4. j \in j .. k + 1 /\ \A l \in j + 1 .. k + 1 : l \in j .. k + 1
  OBVIOUS
<1>5. (\E l \in j .. k + 1 : D(l)) <=> D(j) \/ (j =< k /\ \E l \in j + 1 .. k + 1 : D(l))
  BY <1>3, <1>4
<1> QED BY <1>1, <1>2, <1>5 DEF D

(* What a component takes, place by place, is a dealing out.               *)
CompAt(p, t, m, i, j) ==
  CASE i > Len(p) -> j > Len(t)
    [] i = Len(p) /\ p[i] = "*" -> TRUE
    [] i < Len(p) /\ p[i] = "*" -> j =< Len(t) /\ (m[<<i, j + 1>>] \/ m[<<i + 1, j>>])
    [] OTHER -> j =< Len(t) /\ p[i] \in {"?", t[j]} /\ m[<<i + 1, j + 1>>]
CompEach(p, t, m) == m = [s \in Stands(p, t) |-> CompAt(p, t, m, s[1], s[2])]
CharTakes(p, t) == {q \in (1 .. Len(p)) \X (1 .. Len(t)) : Fits(p[q[1]], t[q[2]])}
CharMany(p) == {i \in 1 .. Len(p) : p[i] = "*"}
CompDeals(p, t, i, j) == Deals(Len(p), Len(t), i, j, CharTakes(p, t), CharMany(p))
PlainComponent(c) == c # Deep /\ Len(c) > 1 => ~(c[Len(c)] = "*" /\ c[Len(c) - 1] = "*")

LEMMA CompDealsIs ==
  ASSUME NEW T, NEW p \in Seq(T), NEW t \in Seq(T), PlainComponent(p), p # Deep,
         NEW i \in 1 .. Len(p) + 1, NEW j \in 1 .. Len(t) + 1
  PROVE  /\ i > Len(p) => (CompDeals(p, t, i, j) <=> j > Len(t))
         /\ i = Len(p) /\ p[i] = "*" => CompDeals(p, t, i, j)
         /\ i < Len(p) /\ p[i] = "*" =>
              (CompDeals(p, t, i, j)
                 <=> j =< Len(t) /\ (CompDeals(p, t, i, j + 1) \/ CompDeals(p, t, i + 1, j)))
         /\ i =< Len(p) /\ p[i] # "*" =>
              (CompDeals(p, t, i, j)
                 <=> j =< Len(t) /\ p[i] \in {"?", t[j]} /\ CompDeals(p, t, i + 1, j + 1))
<1> DEFINE n == Len(p)
           k == Len(t)
           R == CharTakes(p, t)
           M == CharMany(p)
           D(a, b) == CompDeals(p, t, a, b)
<1>1. n \in Nat /\ k \in Nat /\ i \in Nat /\ j \in Nat
  OBVIOUS
<1>2. \A a, b : D(a, b) <=> Deals(n, k, a, b, R, M)
  BY DEF CompDeals
<1>3. \A a \in 1 .. n : a \in M <=> p[a] = "*"
  BY DEF CharMany
<1>4. \A a \in 1 .. n, b \in 1 .. k : <<a, b>> \in R <=> p[a] \in {"?", t[b]}
  BY DEF CharTakes, Fits
<1>5. i > n => (D(i, j) <=> j > k)
  <2> SUFFICES ASSUME i > n PROVE D(i, j) <=> j > k
    OBVIOUS
  <2>1. i = n + 1 /\ (j > k <=> j = k + 1)
    OBVIOUS
  <2> HIDE DEF n, k, R, M, D
  <2>2. Deals(n, k, n + 1, j, R, M) <=> j = k + 1
    <3>1. j \in 1 .. k + 1
      BY DEF k
    <3> QED BY <1>1, <3>1, DealsNone
  <2> QED BY <1>2, <2>1, <2>2
<1>6. i = n /\ p[i] = "*" => D(i, j)
  <2> SUFFICES ASSUME i = n, p[i] = "*" PROVE D(i, j)
    OBVIOUS
  <2>1. i \in 1 .. n /\ i \in M /\ j \in 1 .. k + 1 /\ k + 1 \in j .. k + 1 /\ k + 1 \in 1 .. k + 1
    BY <1>1, <1>3
  <2> HIDE DEF n, k, R, M, D
  <2>2. Deals(n, k, n + 1, k + 1, R, M)
    BY <1>1, <2>1, DealsNone
  <2>3. Deals(n, k, i, j, R, M) <=> \E l \in j .. k + 1 : Deals(n, k, i + 1, l, R, M)
    BY <1>1, <2>1, DealsMany
  <2> QED BY <1>2, <2>1, <2>2, <2>3
<1>7. i < n /\ p[i] = "*" => (D(i, j) <=> j =< k /\ (D(i, j + 1) \/ D(i + 1, j)))
  <2> SUFFICES ASSUME i < n, p[i] = "*" PROVE D(i, j) <=> j =< k /\ (D(i, j + 1) \/ D(i + 1, j))
    OBVIOUS
  <2>1. i \in 1 .. n /\ i \in M /\ j \in 1 .. k + 1 /\ i + 1 \in 1 .. n + 1
    BY <1>1, <1>3
  <2>2. ~(p[n] = "*" /\ p[n - 1] = "*")
    BY <1>1 DEF PlainComponent
  <2> HIDE DEF n, k, R, M, D
  <2>3. Deals(n, k, i, j, R, M)
          <=> Deals(n, k, i + 1, j, R, M) \/ (j =< k /\ Deals(n, k, i, j + 1, R, M))
    BY <1>1, <2>1, DealsManyByOne
  <2>4. ASSUME j = k + 1 PROVE ~Deals(n, k, i, j, R, M)
    <3> SUFFICES ASSUME Deals(n, k, i, j, R, M) PROVE FALSE
      OBVIOUS
    <3>1. PICK d : DealtBy(d, n, k, i, j, R, M)
      BY DEF Deals
    <3>2. j .. k = {}
      BY <2>4, <1>1
    <3>3. \A q \in i .. n : q \in M
      BY <3>1, <3>2 DEF DealtBy
    <3>4. n \in i .. n /\ n - 1 \in i .. n /\ n \in 1 .. n /\ n - 1 \in 1 .. n
      BY <1>1, <2>1
    <3> QED BY <1>3, <2>2, <3>3, <3>4
  <2>5. ~(j =< k) => j = k + 1
    BY <1>1, <2>1
  <2> QED BY <1>2, <2>3, <2>4, <2>5
<1>8. i =< n /\ p[i] # "*" => (D(i, j) <=> j =< k /\ p[i] \in {"?", t[j]} /\ D(i + 1, j + 1))
  <2> SUFFICES ASSUME i =< n, p[i] # "*"
               PROVE  D(i, j) <=> j =< k /\ p[i] \in {"?", t[j]} /\ D(i + 1, j + 1)
    OBVIOUS
  <2>1. i \in 1 .. n /\ i \notin M /\ j \in 1 .. k + 1
    BY <1>1, <1>3
  <2>2. j =< k => j \in 1 .. k
    BY <1>1
  <2> HIDE DEF n, k, R, M, D
  <2>3. Deals(n, k, i, j, R, M) <=> (j =< k /\ <<i, j>> \in R /\ Deals(n, k, i + 1, j + 1, R, M))
    BY <1>1, <2>1, DealsOne
  <2> QED BY <1>2, <1>4, <2>1, <2>2, <2>3
<1> QED BY <1>5, <1>6, <1>7, <1>8

\* The three ways such a table is filled, and that they leave no choice.
FilledTo(Y, n, k, R, M, i, j) ==
  /\ i = n + 1 => (<<i, j>> \in Y <=> j = k + 1)
  /\ i \in 1 .. n /\ i \in M =>
       \/ <<i, j>> \in Y <=> \E l \in j .. k + 1 : <<i + 1, l>> \in Y
       \/ <<i, j>> \in Y <=> <<i + 1, j>> \in Y \/ (j =< k /\ <<i, j + 1>> \in Y)
  /\ i \in 1 .. n /\ i \notin M => (<<i, j>> \in Y <=> j =< k /\ <<i, j>> \in R /\ <<i + 1, j + 1>> \in Y)

LEMMA TableDeals ==
  ASSUME NEW n \in Nat, NEW k \in Nat, NEW R, NEW M, NEW Y,
         \A i \in 1 .. n + 1, j \in 1 .. k + 1 : FilledTo(Y, n, k, R, M, i, j)
  PROVE  \A i \in 1 .. n + 1, j \in 1 .. k + 1 : <<i, j>> \in Y <=> Deals(n, k, i, j, R, M)
<1> DEFINE D(i, j) == Deals(n, k, i, j, R, M)
           Good(i, j) == <<i, j>> \in Y <=> D(i, j)
           Bad == {z \in Nat : \E i \in 1 .. n + 1, j \in 1 .. k + 1 :
                                 z = (n + 1 - i) + (k + 1 - j) /\ ~Good(i, j)}
<1>1. SUFFICES ASSUME NEW i0 \in 1 .. n + 1, NEW j0 \in 1 .. k + 1, ~Good(i0, j0) PROVE FALSE
  OBVIOUS
<1>2. (n + 1 - i0) + (k + 1 - j0) \in Bad
  <2>1. (n + 1 - i0) + (k + 1 - j0) \in Nat
    OBVIOUS
  <2> HIDE DEF Good
  <2> QED BY <1>1, <2>1
<1>3. PICK z \in Bad : \A y \in Bad : z =< y
  <2>1. Bad \subseteq Nat /\ Bad # {}
    BY <1>2
  <2> HIDE DEF Bad
  <2> QED BY <2>1, LeastNumber
<1>4. PICK i \in 1 .. n + 1, j \in 1 .. k + 1 : z = (n + 1 - i) + (k + 1 - j) /\ ~Good(i, j)
  <2> HIDE DEF Good
  <2> QED OBVIOUS
<1>5. ASSUME NEW a \in i .. n + 1, NEW b \in j .. k + 1, a > i \/ b > j PROVE Good(a, b)
  <2> SUFFICES ASSUME ~Good(a, b) PROVE FALSE
    OBVIOUS
  <2>1. a \in 1 .. n + 1 /\ b \in 1 .. k + 1
    OBVIOUS
  <2>2. (n + 1 - a) + (k + 1 - b) \in Nat /\ (n + 1 - a) + (k + 1 - b) < (n + 1 - i) + (k + 1 - j)
    BY <1>5
  <2> HIDE DEF Good
  <2>3. (n + 1 - a) + (k + 1 - b) \in Bad
    BY <2>1, <2>2
  <2>4. z =< (n + 1 - a) + (k + 1 - b)
    BY <1>3, <2>3
  <2> QED BY <1>4, <2>2, <2>4
<1>6. CASE i = n + 1
  <2>1. D(i, j) <=> j = k + 1
    BY <1>6, DealsNone
  <2> QED BY <1>4, <1>6, <2>1 DEF FilledTo
<1>7. CASE i \in 1 .. n /\ i \in M
  <2>1. D(i, j) <=> \E l \in j .. k + 1 : D(i + 1, l)
    BY <1>7, DealsMany
  <2>2. D(i, j) <=> D(i + 1, j) \/ (j =< k /\ D(i, j + 1))
    BY <1>7, DealsManyByOne
  <2>3. \A l \in j .. k + 1 : Good(i + 1, l)
    <3> TAKE l \in j .. k + 1
    <3>1. i + 1 \in i .. n + 1 /\ i + 1 > i
      BY <1>7
    <3> HIDE DEF Good
    <3> QED BY <1>5, <3>1
  <2>4. j \in j .. k + 1
    OBVIOUS
  <2>5. j =< k => Good(i, j + 1)
    <3>1. j =< k => i \in i .. n + 1 /\ j + 1 \in j .. k + 1 /\ j + 1 > j
      OBVIOUS
    <3> HIDE DEF Good
    <3> QED BY <1>5, <3>1
  <2>6. \/ <<i, j>> \in Y <=> \E l \in j .. k + 1 : <<i + 1, l>> \in Y
        \/ <<i, j>> \in Y <=> <<i + 1, j>> \in Y \/ (j =< k /\ <<i, j + 1>> \in Y)
    BY <1>7 DEF FilledTo
  <2> HIDE DEF D
  <2>7. CASE <<i, j>> \in Y <=> \E l \in j .. k + 1 : <<i + 1, l>> \in Y
    BY <1>4, <2>1, <2>3, <2>7
  <2>8. CASE <<i, j>> \in Y <=> <<i + 1, j>> \in Y \/ (j =< k /\ <<i, j + 1>> \in Y)
    BY <1>4, <2>2, <2>3, <2>4, <2>5, <2>8
  <2> QED BY <2>6, <2>7, <2>8
<1>8. CASE i \in 1 .. n /\ i \notin M
  <2>1. D(i, j) <=> (j =< k /\ <<i, j>> \in R /\ D(i + 1, j + 1))
    BY <1>8, DealsOne
  <2>2. j =< k => Good(i + 1, j + 1)
    <3>1. j =< k => i + 1 \in i .. n + 1 /\ j + 1 \in j .. k + 1 /\ j + 1 > j
      BY <1>8
    <3> HIDE DEF Good
    <3> QED BY <1>5, <3>1
  <2>3. <<i, j>> \in Y <=> j =< k /\ <<i, j>> \in R /\ <<i + 1, j + 1>> \in Y
    BY <1>8 DEF FilledTo
  <2> HIDE DEF D
  <2> QED BY <1>4, <2>1, <2>2, <2>3
<1>9. i = n + 1 \/ i \in 1 .. n
  OBVIOUS
<1> QED BY <1>6, <1>7, <1>8, <1>9

(* The entries of the table of a component.                                *)
CompEntry(p, t, m, i, j) ==
  /\ i > Len(p) => CompAt(p, t, m, i, j) = (j > Len(t))
  /\ i = Len(p) /\ p[i] = "*" => CompAt(p, t, m, i, j) = TRUE
  /\ i < Len(p) /\ p[i] = "*" =>
       CompAt(p, t, m, i, j) = (j =< Len(t) /\ (m[<<i, j + 1>>] \/ m[<<i + 1, j>>]))
  /\ i =< Len(p) /\ p[i] # "*" =>
       CompAt(p, t, m, i, j) = (j =< Len(t) /\ p[i] \in {"?", t[j]} /\ m[<<i + 1, j + 1>>])

LEMMA CompAtIs ==
  ASSUME NEW T, NEW p \in Seq(T), NEW t \in Seq(T), NEW m,
         NEW i \in 1 .. Len(p) + 1, NEW j \in 1 .. Len(t) + 1
  PROVE  CompEntry(p, t, m, i, j)
<1>1. /\ i > Len(p) => ~(i = Len(p)) /\ ~(i < Len(p))
      /\ i = Len(p) => ~(i > Len(p)) /\ ~(i < Len(p))
      /\ i < Len(p) => ~(i > Len(p)) /\ ~(i = Len(p))
      /\ i =< Len(p) => ~(i > Len(p))
  OBVIOUS
<1>2. i > Len(p) => CompAt(p, t, m, i, j) = (j > Len(t))
  BY <1>1, Zenon DEF CompAt
<1>3. i = Len(p) /\ p[i] = "*" => CompAt(p, t, m, i, j) = TRUE
  BY <1>1, Zenon DEF CompAt
<1>4. i < Len(p) /\ p[i] = "*" =>
        CompAt(p, t, m, i, j) = (j =< Len(t) /\ (m[<<i, j + 1>>] \/ m[<<i + 1, j>>]))
  BY <1>1, Zenon DEF CompAt
<1>5. i =< Len(p) /\ p[i] # "*" =>
        CompAt(p, t, m, i, j) = (j =< Len(t) /\ p[i] \in {"?", t[j]} /\ m[<<i + 1, j + 1>>])
  BY <1>1, Zenon DEF CompAt
<1> QED BY <1>2, <1>3, <1>4, <1>5, Zenon DEF CompEntry
LEMMA CompExists ==
  ASSUME NEW T, NEW p \in Seq(T), NEW t \in Seq(T), PlainComponent(p), p # Deep
  PROVE  \E m : CompEach(p, t, m)
<1> DEFINE n == Len(p)
           k == Len(t)
           w == [s \in Stands(p, t) |-> CompDeals(p, t, s[1], s[2])]
<1>1. n \in Nat /\ k \in Nat
  OBVIOUS
<1>2. \A a \in 1 .. n + 1, b \in 1 .. k + 1 : w[<<a, b>>] = CompDeals(p, t, a, b)
  BY DEF Stands
<1>3. ASSUME NEW i \in 1 .. n + 1, NEW j \in 1 .. k + 1
      PROVE  CompDeals(p, t, i, j) = CompAt(p, t, w, i, j)
  <2>1. /\ i =< n => i + 1 \in 1 .. n + 1
        /\ j =< k => j + 1 \in 1 .. k + 1
    BY <1>1
  <2>2. /\ j =< k => w[<<i, j + 1>>] = CompDeals(p, t, i, j + 1)
        /\ i =< n => w[<<i + 1, j>>] = CompDeals(p, t, i + 1, j)
        /\ i =< n /\ j =< k => w[<<i + 1, j + 1>>] = CompDeals(p, t, i + 1, j + 1)
    <3> HIDE DEF w
    <3> QED BY <1>2, <2>1
  <2> HIDE DEF w
  <2>3. /\ i > Len(p) => (CompDeals(p, t, i, j) <=> j > Len(t))
        /\ i = Len(p) /\ p[i] = "*" => CompDeals(p, t, i, j)
        /\ i < Len(p) /\ p[i] = "*" =>
             (CompDeals(p, t, i, j)
                <=> j =< Len(t) /\ (CompDeals(p, t, i, j + 1) \/ CompDeals(p, t, i + 1, j)))
        /\ i =< Len(p) /\ p[i] # "*" =>
             (CompDeals(p, t, i, j)
                <=> j =< Len(t) /\ p[i] \in {"?", t[j]} /\ CompDeals(p, t, i + 1, j + 1))
    BY CompDealsIs
  <2>4. /\ i > Len(p) => CompAt(p, t, w, i, j) = (j > Len(t))
        /\ i = Len(p) /\ p[i] = "*" => CompAt(p, t, w, i, j) = TRUE
        /\ i < Len(p) /\ p[i] = "*" =>
             CompAt(p, t, w, i, j) = (j =< Len(t) /\ (w[<<i, j + 1>>] \/ w[<<i + 1, j>>]))
        /\ i =< Len(p) /\ p[i] # "*" =>
             CompAt(p, t, w, i, j) = (j =< Len(t) /\ p[i] \in {"?", t[j]} /\ w[<<i + 1, j + 1>>])
    <3>1. CompEntry(p, t, w, i, j)
      BY CompAtIs
    <3> QED BY <3>1, Zenon DEF CompEntry
  <2>5. CompDeals(p, t, i, j) \in BOOLEAN
    BY DEF CompDeals, Deals
  <2>6. CASE i > Len(p)
    <3>1. CompAt(p, t, w, i, j) = (j > Len(t)) /\ (CompDeals(p, t, i, j) <=> j > Len(t))
      BY <2>3, <2>4, <2>6, Zenon
    <3> DEFINE A == CompDeals(p, t, i, j)
               B == j > Len(t)
    <3>2. A \in BOOLEAN /\ B \in BOOLEAN /\ (A <=> B)
      BY <2>5, <3>1
    <3>3. CompAt(p, t, w, i, j) = B
      BY <3>1
    <3> HIDE DEF A, B
    <3>4. A = B
      BY <3>2
    <3> QED BY <3>3, <3>4, Zenon DEF A
  <2>7. CASE i = Len(p) /\ p[i] = "*"
    BY <2>3, <2>4, <2>5, <2>7, Zenon
  <2>8. CASE i < Len(p) /\ p[i] = "*"
    <3>1. CompAt(p, t, w, i, j) = (j =< Len(t) /\ (CompDeals(p, t, i, j + 1) \/ CompDeals(p, t, i + 1, j)))
      <4>1. i =< n
        BY <1>1, <2>8
      <4>2. j =< Len(t) /\ (w[<<i, j + 1>>] \/ w[<<i + 1, j>>])
              <=> j =< Len(t) /\ (CompDeals(p, t, i, j + 1) \/ CompDeals(p, t, i + 1, j))
        BY <2>2, <4>1, Zenon
      <4> QED BY <2>4, <2>8, <4>2, Zenon
    <3> DEFINE A == CompDeals(p, t, i, j)
               B == j =< Len(t) /\ (CompDeals(p, t, i, j + 1) \/ CompDeals(p, t, i + 1, j))
    <3>2. A <=> B
      BY <2>3, <2>8, Zenon
    <3>3. A \in BOOLEAN /\ B \in BOOLEAN
      BY <2>5
    <3>4. CompAt(p, t, w, i, j) = B
      BY <3>1
    <3> HIDE DEF A, B
    <3>5. A = B
      BY <3>2, <3>3
    <3> QED BY <3>4, <3>5, Zenon DEF A
  <2>9. CASE i =< Len(p) /\ p[i] # "*"
    <3>1. CompAt(p, t, w, i, j) = (j =< Len(t) /\ p[i] \in {"?", t[j]} /\ CompDeals(p, t, i + 1, j + 1))
      <4>2. j =< Len(t) /\ p[i] \in {"?", t[j]} /\ w[<<i + 1, j + 1>>]
              <=> j =< Len(t) /\ p[i] \in {"?", t[j]} /\ CompDeals(p, t, i + 1, j + 1)
        BY <2>2, <2>9, Zenon
      <4> QED BY <2>4, <2>9, <4>2, Zenon
    <3> DEFINE A == CompDeals(p, t, i, j)
               B == j =< Len(t) /\ p[i] \in {"?", t[j]} /\ CompDeals(p, t, i + 1, j + 1)
    <3>2. A <=> B
      BY <2>3, <2>9, Zenon
    <3>3. A \in BOOLEAN /\ B \in BOOLEAN
      BY <2>5
    <3>4. CompAt(p, t, w, i, j) = B
      BY <3>1
    <3> HIDE DEF A, B
    <3>5. A = B
      BY <3>2, <3>3
    <3> QED BY <3>4, <3>5, Zenon DEF A
  <2>10. i > Len(p) \/ (i = Len(p) /\ p[i] = "*") \/ (i < Len(p) /\ p[i] = "*") \/ (i =< Len(p) /\ p[i] # "*")
    BY <1>1
  <2> QED BY <2>6, <2>7, <2>8, <2>9, <2>10
<1>4. \A s \in Stands(p, t) : CompDeals(p, t, s[1], s[2]) = CompAt(p, t, w, s[1], s[2])
  <2> TAKE s \in Stands(p, t)
  <2>1. s[1] \in 1 .. n + 1 /\ s[2] \in 1 .. k + 1
    BY DEF Stands
  <2> HIDE DEF w
  <2> QED BY <1>3, <2>1
<1>5. CompEach(p, t, w)
  <2> DEFINE v == [s \in Stands(p, t) |-> CompAt(p, t, w, s[1], s[2])]
  <2>1. w = v
    <3> DEFINE F(s) == CompDeals(p, t, s[1], s[2])
               H(s) == CompAt(p, t, w, s[1], s[2])
    <3>1. \A s \in Stands(p, t) : F(s) = H(s)
      BY <1>4
    <3> HIDE DEF F, H
    <3>2. [s \in Stands(p, t) |-> F(s)] = [s \in Stands(p, t) |-> H(s)]
      BY <3>1
    <3> QED BY <3>2, Zenon DEF F, H
  <2> QED BY <2>1, Zenon DEF CompEach
<1> QED BY <1>5

LEMMA CompOnly ==
  ASSUME NEW T, NEW p \in Seq(T), NEW t \in Seq(T), PlainComponent(p), p # Deep,
         NEW m, CompEach(p, t, m)
  PROVE  m[<<1, 1>>] <=> CompDeals(p, t, 1, 1)
<1> DEFINE n == Len(p)
           k == Len(t)
           R == CharTakes(p, t)
           M == CharMany(p)
           Y == {s \in Stands(p, t) : m[s]}
<1>1. n \in Nat /\ k \in Nat
  OBVIOUS
<1>2. ASSUME NEW i \in 1 .. n + 1, NEW j \in 1 .. k + 1
      PROVE  m[<<i, j>>] = CompAt(p, t, m, i, j)
  <2>1. <<i, j>> \in Stands(p, t) /\ <<i, j>>[1] = i /\ <<i, j>>[2] = j
    BY DEF Stands
  <2> DEFINE F(s) == CompAt(p, t, m, s[1], s[2])
  <2>2. m = [s \in Stands(p, t) |-> F(s)]
    BY DEF CompEach
  <2>3. F(<<i, j>>) = CompAt(p, t, m, i, j)
    BY <2>1
  <2> HIDE DEF F
  <2>4. m[<<i, j>>] = F(<<i, j>>)
    BY <2>1, <2>2
  <2> QED BY <2>3, <2>4
<1>3. \A i \in 1 .. n + 1, j \in 1 .. k + 1 : <<i, j>> \in Y <=> m[<<i, j>>]
  BY DEF Stands
<1>4. \A a \in 1 .. n : a \in M <=> p[a] = "*"
  BY DEF CharMany
<1>5. \A a \in 1 .. n, b \in 1 .. k : <<a, b>> \in R <=> p[a] \in {"?", t[b]}
  BY DEF CharTakes, Fits
<1>6. ASSUME NEW i \in 1 .. n + 1, NEW j \in 1 .. k + 1
      PROVE  /\ i > n => (<<i, j>> \in Y <=> j > k)
             /\ i = n /\ p[i] = "*" => <<i, j>> \in Y
             /\ i < n /\ p[i] = "*" => (<<i, j>> \in Y <=> j =< k /\ (<<i, j + 1>> \in Y \/ <<i + 1, j>> \in Y))
             /\ i =< n /\ p[i] # "*" => (<<i, j>> \in Y <=> j =< k /\ p[i] \in {"?", t[j]} /\ <<i + 1, j + 1>> \in Y)
  <2> HIDE DEF Y
  <2>1. /\ i > n => CompAt(p, t, m, i, j) = (j > k)
        /\ i = n /\ p[i] = "*" => CompAt(p, t, m, i, j) = TRUE
        /\ i < n /\ p[i] = "*" =>
             CompAt(p, t, m, i, j) = (j =< k /\ (m[<<i, j + 1>>] \/ m[<<i + 1, j>>]))
        /\ i =< n /\ p[i] # "*" =>
             CompAt(p, t, m, i, j) = (j =< k /\ p[i] \in {"?", t[j]} /\ m[<<i + 1, j + 1>>])
    <3>1. CompEntry(p, t, m, i, j)
      BY CompAtIs
    <3> QED BY <3>1, Zenon DEF CompEntry
  <2>2. m[<<i, j>>] = CompAt(p, t, m, i, j) /\ (<<i, j>> \in Y <=> m[<<i, j>>])
    BY <1>2, <1>3
  <2>3. /\ j =< k => (<<i, j + 1>> \in Y <=> m[<<i, j + 1>>])
        /\ i =< n => (<<i + 1, j>> \in Y <=> m[<<i + 1, j>>])
        /\ i =< n /\ j =< k => (<<i + 1, j + 1>> \in Y <=> m[<<i + 1, j + 1>>])
    <3>1. /\ i =< n => i + 1 \in 1 .. n + 1
          /\ j =< k => j + 1 \in 1 .. k + 1
      BY <1>1
    <3> QED BY <1>3, <3>1
  <2>4. i < n => i =< n
    BY <1>1
  <2> HIDE DEF n, k
  <2>5. i > n => (<<i, j>> \in Y <=> j > k)
    BY <2>1, <2>2, Zenon
  <2>6. i = n /\ p[i] = "*" => <<i, j>> \in Y
    BY <2>1, <2>2, Zenon
  <2>7. i < n /\ p[i] = "*" => (<<i, j>> \in Y <=> j =< k /\ (<<i, j + 1>> \in Y \/ <<i + 1, j>> \in Y))
    BY <2>1, <2>2, <2>3, <2>4, Zenon
  <2>8. i =< n /\ p[i] # "*" => (<<i, j>> \in Y <=> j =< k /\ p[i] \in {"?", t[j]} /\ <<i + 1, j + 1>> \in Y)
    BY <2>1, <2>2, <2>3, Zenon
  <2> QED BY <2>5, <2>6, <2>7, <2>8
<1> HIDE DEF Y
<1>7. ASSUME NEW i \in 1 .. n, ~(i = n /\ p[i] = "*") PROVE <<i, k + 1>> \notin Y
  <2>1. i \in 1 .. n + 1 /\ k + 1 \in 1 .. k + 1 /\ ~(k + 1 =< k) /\ i =< n /\ (i < n \/ i = n)
    BY <1>1
  <2> QED BY <1>6, <1>7, <2>1
<1>8. ASSUME NEW i \in 1 .. n + 1, NEW j \in 1 .. k + 1 PROVE FilledTo(Y, n, k, R, M, i, j)
  <2>1. i = n + 1 => (<<i, j>> \in Y <=> j = k + 1)
    <3>1. i = n + 1 => i > n
      BY <1>1
    <3>2. j > k <=> j = k + 1
      BY <1>1
    <3> QED BY <1>6, <3>1, <3>2
  <2>2. i \in 1 .. n /\ i \in M =>
          \/ <<i, j>> \in Y <=> \E l \in j .. k + 1 : <<i + 1, l>> \in Y
          \/ <<i, j>> \in Y <=> <<i + 1, j>> \in Y \/ (j =< k /\ <<i, j + 1>> \in Y)
    <3>1. CASE i = n /\ p[i] = "*"
      <4>1. <<i, j>> \in Y
        BY <1>6, <3>1
      <4>2. <<n + 1, k + 1>> \in Y
        <5>1. n + 1 \in 1 .. n + 1 /\ k + 1 \in 1 .. k + 1 /\ n + 1 > n /\ k + 1 > k
          BY <1>1
        <5> QED BY <1>6, <5>1
      <4>3. k + 1 \in j .. k + 1
        BY <1>1
      <4>4. \E l \in j .. k + 1 : <<i + 1, l>> \in Y
        BY <3>1, <4>2, <4>3
      <4> QED BY <4>1, <4>4
    <3>2. CASE i < n /\ p[i] = "*"
      <4>1. <<i, j>> \in Y <=> j =< k /\ (<<i, j + 1>> \in Y \/ <<i + 1, j>> \in Y)
        BY <1>6, <3>2
      <4>2. ~(j =< k) => <<i + 1, j>> \notin Y
        <5> SUFFICES ASSUME ~(j =< k) PROVE <<i + 1, j>> \notin Y
          OBVIOUS
        <5>1. j = k + 1 /\ i + 1 \in 1 .. n /\ (i + 1 = n => i = n - 1 /\ n > 1)
          BY <1>1, <3>2
        <5>2. ~(i + 1 = n /\ p[i + 1] = "*")
          BY <3>2, <5>1 DEF PlainComponent
        <5> QED BY <1>7, <5>1, <5>2
      <4> QED BY <4>1, <4>2
    <3>3. i \in 1 .. n /\ i \in M => (i = n /\ p[i] = "*") \/ (i < n /\ p[i] = "*")
      BY <1>1, <1>4
    <3> QED BY <3>1, <3>2, <3>3
  <2>3. i \in 1 .. n /\ i \notin M => (<<i, j>> \in Y <=> j =< k /\ <<i, j>> \in R /\ <<i + 1, j + 1>> \in Y)
    <3> SUFFICES ASSUME i \in 1 .. n, i \notin M
                 PROVE  <<i, j>> \in Y <=> j =< k /\ <<i, j>> \in R /\ <<i + 1, j + 1>> \in Y
      OBVIOUS
    <3>1. i =< n /\ p[i] # "*" /\ (j =< k => j \in 1 .. k)
      BY <1>1, <1>4
    <3>2. <<i, j>> \in Y <=> j =< k /\ p[i] \in {"?", t[j]} /\ <<i + 1, j + 1>> \in Y
      BY <1>6, <3>1
    <3>3. j =< k => (<<i, j>> \in R <=> p[i] \in {"?", t[j]})
      BY <1>5, <3>1
    <3> HIDE DEF R, M, n, k
    <3> QED BY <3>2, <3>3
  <2> HIDE DEF R, M, n, k
  <2> QED BY <2>1, <2>2, <2>3 DEF FilledTo
<1>9. 1 \in 1 .. n + 1 /\ 1 \in 1 .. k + 1
  BY <1>1
<1>10. <<1, 1>> \in Y <=> Deals(n, k, 1, 1, R, M)
  <2> HIDE DEF R, M, n, k
  <2> QED BY <1>1, <1>8, <1>9, TableDeals
<1> QED BY <1>3, <1>9, <1>10 DEF CompDeals

(* What the program does for a component is to look for a dealing out.     *)
LEMMA MatchComponentIs ==
  ASSUME NEW T, NEW p \in Seq(T), NEW t \in Seq(T), PlainComponent(p), p # Deep
  PROVE  MatchComponent(p, t) <=> CompDeals(p, t, 1, 1)
<1> DEFINE m == CHOOSE x : CompEach(p, t, x)
<1>1. MatchComponent(p, t) <=> p = Star \/ m[<<1, 1>>]
  BY DEF MatchComponent, CompEach, CompAt
<1>2. CompEach(p, t, m)
  BY CompExists
<1> HIDE DEF m
<1>3. m[<<1, 1>>] <=> CompDeals(p, t, 1, 1)
  BY <1>2, CompOnly
<1>4. ASSUME p = Star PROVE CompDeals(p, t, 1, 1)
  <2>1. Len(p) = 1 /\ p[1] = "*" /\ Len(t) \in Nat
    BY <1>4 DEF Star
  <2>2. 1 \in 1 .. Len(p) + 1 /\ 1 \in 1 .. Len(t) + 1
    BY <2>1
  <2> QED BY <2>1, <2>2, CompDealsIs
<1> QED BY <1>1, <1>3, <1>4

(* The reference definition is the same dealing out.                       *)
PlacesOf(k, d, q) == {j \in 1 .. k : d[j] = q}
Singly(k, d, q) == \E a \in 1 .. k : \A b \in 1 .. k : d[b] = q <=> b = a
DealingOut(n, k, R, M) ==
  \E deal \in [1 .. k -> 1 .. n] :
    /\ \A i, j \in 1 .. k : i < j => deal[i] =< deal[j]
    /\ \A q \in 1 .. n : q \in M \/ Cardinality(PlacesOf(k, deal, q)) = 1
    /\ \A j \in 1 .. k : deal[j] \in M \/ <<deal[j], j>> \in R

LEMMA OneOf ==
  ASSUME NEW k \in Nat, NEW d, NEW q
  PROVE  Cardinality(PlacesOf(k, d, q)) = 1 <=> Singly(k, d, q)
<1> DEFINE S == PlacesOf(k, d, q)
<1>1. IsFiniteSet(S)
  <2>1. IsFiniteSet(1 .. k)
    BY FS_Interval
  <2> QED BY <2>1, FS_Subset DEF PlacesOf
<1>2. (\E a : S = {a}) <=> \E a \in 1 .. k : \A b \in 1 .. k : d[b] = q <=> b = a
  <2>1. ASSUME NEW a, S = {a} PROVE a \in 1 .. k /\ \A b \in 1 .. k : d[b] = q <=> b = a
    BY <2>1 DEF PlacesOf
  <2>2. ASSUME NEW a \in 1 .. k, \A b \in 1 .. k : d[b] = q <=> b = a PROVE S = {a}
    BY <2>2 DEF PlacesOf
  <2> QED BY <2>1, <2>2
<1> HIDE DEF S
<1>3. Cardinality(S) = 1 <=> \E a : S = {a}
  BY <1>1, FS_Singleton
<1> QED BY <1>2, <1>3 DEF S, Singly

LEMMA DealingOutIs ==
  ASSUME NEW n \in Nat, NEW k \in Nat, NEW R, NEW M
  PROVE  DealingOut(n, k, R, M) <=> Deals(n, k, 1, 1, R, M)
<1> DEFINE Of(d) == /\ \A i, j \in 1 .. k : i < j => d[i] =< d[j]
                    /\ \A q \in 1 .. n : q \in M \/ Cardinality(PlacesOf(k, d, q)) = 1
                    /\ \A j \in 1 .. k : d[j] \in M \/ <<d[j], j>> \in R
<1>2. \A d \in [1 .. k -> 1 .. n] : DealtBy(d, n, k, 1, 1, R, M) <=> Of(d)
  <2> TAKE d \in [1 .. k -> 1 .. n]
  <2> DEFINE Once(q) == Cardinality(PlacesOf(k, d, q)) = 1
             One(q) == Singly(k, d, q)
  <2>1. \A q : Once(q) <=> One(q)
    <3> TAKE q
    <3> QED BY OneOf
  <2>2. DealtBy(d, n, k, 1, 1, R, M) <=> /\ \A i, j \in 1 .. k : i < j => d[i] =< d[j]
                                         /\ \A q \in 1 .. n : q \in M \/ One(q)
                                         /\ \A j \in 1 .. k : d[j] \in M \/ <<d[j], j>> \in R
    BY Zenon DEF DealtBy, Singly
  <2>3. Of(d) <=> /\ \A i, j \in 1 .. k : i < j => d[i] =< d[j]
                  /\ \A q \in 1 .. n : q \in M \/ Once(q)
                  /\ \A j \in 1 .. k : d[j] \in M \/ <<d[j], j>> \in R
    BY Zenon
  <2> HIDE DEF Of, Once, One
  <2> QED BY <2>1, <2>2, <2>3
<1>3. \A d : DealtBy(d, n, k, 1, 1, R, M) => d \in [1 .. k -> 1 .. n]
  BY DEF DealtBy
<1>4. DealingOut(n, k, R, M) <=> \E d \in [1 .. k -> 1 .. n] : Of(d)
  BY DEF DealingOut
<1> HIDE DEF Of
<1> QED BY <1>2, <1>3, <1>4 DEF Deals

LEMMA ComponentTakesIs ==
  ASSUME NEW T, NEW p \in Seq(T), NEW t \in Seq(T)
  PROVE  ComponentTakes(p, t) <=> CompDeals(p, t, 1, 1)
<1> DEFINE n == Len(p)
           k == Len(t)
           R == CharTakes(p, t)
           M == CharMany(p)
<1>1. n \in Nat /\ k \in Nat /\ DOMAIN p = 1 .. n /\ DOMAIN t = 1 .. k
  OBVIOUS
<1>2. \A a \in 1 .. n : a \in M <=> StarChar(p[a])
  BY DEF CharMany, StarChar
<1>3. \A a \in 1 .. n, b \in 1 .. k : <<a, b>> \in R <=> Fits(p[a], t[b])
  BY DEF CharTakes
<1>4. ComponentTakes(p, t) <=>
        \E deal \in [1 .. k -> 1 .. n] :
          /\ \A i, j \in 1 .. k : i < j => deal[i] =< deal[j]
          /\ \A q \in 1 .. n : StarChar(p[q]) \/ Cardinality({j \in 1 .. k : deal[j] = q}) = 1
          /\ \A j \in 1 .. k : StarChar(p[deal[j]]) \/ Fits(p[deal[j]], t[j])
  <2> HIDE DEF n, k
  <2> QED BY <1>1 DEF ComponentTakes, Dealt
<1> HIDE DEF n, k, R, M
<1>5. ASSUME NEW deal \in [1 .. k -> 1 .. n]
      PROVE  /\ \A q \in 1 .. n : (StarChar(p[q]) \/ Cardinality({j \in 1 .. k : deal[j] = q}) = 1)
                                    <=> (q \in M \/ Cardinality({j \in 1 .. k : deal[j] = q}) = 1)
             /\ \A j \in 1 .. k : (StarChar(p[deal[j]]) \/ Fits(p[deal[j]], t[j]))
                                    <=> (deal[j] \in M \/ <<deal[j], j>> \in R)
  <2>1. \A j \in 1 .. k : deal[j] \in 1 .. n
    OBVIOUS
  <2> HIDE DEF StarChar, Fits
  <2> QED BY <1>2, <1>3, <2>1
<1>6. ComponentTakes(p, t) <=> DealingOut(n, k, R, M)
  BY <1>4, <1>5 DEF DealingOut, PlacesOf
<1>7. DealingOut(n, k, R, M) <=> Deals(n, k, 1, 1, R, M)
  BY <1>1, DealingOutIs
<1> QED BY <1>6, <1>7 DEF CompDeals, n, k, R, M

-----------------------------------------------------------------------------
(* The same one level up, where the places of a pattern that take any      *)
(* number of components are the double stars.                              *)
GlobAt(p, t, m, i, j) ==
  CASE i > Len(p) -> j > Len(t)
    [] i =< Len(p) /\ p[i] = Deep -> \E k \in j .. Len(t) + 1 : m[<<i + 1, k>>]
    [] OTHER -> j =< Len(t) /\ MatchComponent(p[i], t[j]) /\ m[<<i + 1, j + 1>>]
GlobEach(p, t, m) == m = [s \in Stands(p, t) |-> GlobAt(p, t, m, s[1], s[2])]
MatchTakes(p, t) == {q \in (1 .. Len(p)) \X (1 .. Len(t)) : MatchComponent(p[q[1]], t[q[2]])}
DeepPlaces(p) == {i \in 1 .. Len(p) : p[i] = Deep}
GlobDeals(p, t, i, j) == Deals(Len(p), Len(t), i, j, MatchTakes(p, t), DeepPlaces(p))

GlobEntry(p, t, m, i, j) ==
  /\ i > Len(p) => GlobAt(p, t, m, i, j) = (j > Len(t))
  /\ i =< Len(p) /\ p[i] = Deep => GlobAt(p, t, m, i, j) = (\E k \in j .. Len(t) + 1 : m[<<i + 1, k>>])
  /\ i =< Len(p) /\ p[i] # Deep =>
       GlobAt(p, t, m, i, j) = (j =< Len(t) /\ MatchComponent(p[i], t[j]) /\ m[<<i + 1, j + 1>>])

LEMMA GlobAtIs ==
  ASSUME NEW T, NEW p \in Seq(T), NEW t \in Seq(T), NEW m,
         NEW i \in 1 .. Len(p) + 1, NEW j \in 1 .. Len(t) + 1
  PROVE  GlobEntry(p, t, m, i, j)
<1>1. /\ i > Len(p) => ~(i =< Len(p))
      /\ i =< Len(p) => ~(i > Len(p))
  OBVIOUS
<1>2. i > Len(p) => GlobAt(p, t, m, i, j) = (j > Len(t))
  BY <1>1, Zenon DEF GlobAt
<1>3. i =< Len(p) /\ p[i] = Deep => GlobAt(p, t, m, i, j) = (\E k \in j .. Len(t) + 1 : m[<<i + 1, k>>])
  BY <1>1, Zenon DEF GlobAt
<1>4. i =< Len(p) /\ p[i] # Deep =>
        GlobAt(p, t, m, i, j) = (j =< Len(t) /\ MatchComponent(p[i], t[j]) /\ m[<<i + 1, j + 1>>])
  BY <1>1, Zenon DEF GlobAt
<1> QED BY <1>2, <1>3, <1>4, Zenon DEF GlobEntry

LEMMA GlobDealsIs ==
  ASSUME NEW T, NEW p \in Seq(T), NEW t \in Seq(T),
         NEW i \in 1 .. Len(p) + 1, NEW j \in 1 .. Len(t) + 1
  PROVE  /\ i > Len(p) => (GlobDeals(p, t, i, j) <=> j > Len(t))
         /\ i =< Len(p) /\ p[i] = Deep =>
              (GlobDeals(p, t, i, j) <=> \E l \in j .. Len(t) + 1 : GlobDeals(p, t, i + 1, l))
         /\ i =< Len(p) /\ p[i] # Deep =>
              (GlobDeals(p, t, i, j)
                 <=> j =< Len(t) /\ MatchComponent(p[i], t[j]) /\ GlobDeals(p, t, i + 1, j + 1))
<1> DEFINE n == Len(p)
           k == Len(t)
           R == MatchTakes(p, t)
           M == DeepPlaces(p)
           D(a, b) == GlobDeals(p, t, a, b)
<1>1. n \in Nat /\ k \in Nat /\ i \in Nat /\ j \in Nat
  OBVIOUS
<1>2. \A a, b : D(a, b) <=> Deals(n, k, a, b, R, M)
  BY DEF GlobDeals
<1>3. \A a \in 1 .. n : a \in M <=> p[a] = Deep
  BY DEF DeepPlaces
<1>4. \A a \in 1 .. n, b \in 1 .. k : <<a, b>> \in R <=> MatchComponent(p[a], t[b])
  BY DEF MatchTakes
<1>5. i > n => (D(i, j) <=> j > k)
  <2> SUFFICES ASSUME i > n PROVE D(i, j) <=> j > k
    OBVIOUS
  <2>1. i = n + 1 /\ (j > k <=> j = k + 1) /\ j \in 1 .. k + 1
    OBVIOUS
  <2> HIDE DEF n, k, R, M, D
  <2>2. Deals(n, k, n + 1, j, R, M) <=> j = k + 1
    BY <1>1, <2>1, DealsNone
  <2> QED BY <1>2, <2>1, <2>2
<1>6. i =< n /\ p[i] = Deep => (D(i, j) <=> \E l \in j .. k + 1 : D(i + 1, l))
  <2> SUFFICES ASSUME i =< n, p[i] = Deep PROVE D(i, j) <=> \E l \in j .. k + 1 : D(i + 1, l)
    OBVIOUS
  <2>1. i \in 1 .. n /\ i \in M /\ j \in 1 .. k + 1
    BY <1>1, <1>3
  <2> HIDE DEF n, k, R, M, D
  <2>2. Deals(n, k, i, j, R, M) <=> \E l \in j .. k + 1 : Deals(n, k, i + 1, l, R, M)
    BY <1>1, <2>1, DealsMany
  <2> QED BY <1>2, <2>2
<1>7. i =< n /\ p[i] # Deep => (D(i, j) <=> j =< k /\ MatchComponent(p[i], t[j]) /\ D(i + 1, j + 1))
  <2> SUFFICES ASSUME i =< n, p[i] # Deep
               PROVE  D(i, j) <=> j =< k /\ MatchComponent(p[i], t[j]) /\ D(i + 1, j + 1)
    OBVIOUS
  <2>1. i \in 1 .. n /\ i \notin M /\ j \in 1 .. k + 1
    BY <1>1, <1>3
  <2>2. j =< k => j \in 1 .. k
    BY <1>1
  <2> HIDE DEF n, k, R, M, D
  <2>3. Deals(n, k, i, j, R, M) <=> (j =< k /\ <<i, j>> \in R /\ Deals(n, k, i + 1, j + 1, R, M))
    BY <1>1, <2>1, DealsOne
  <2> QED BY <1>2, <1>4, <2>1, <2>2, <2>3
<1> QED BY <1>5, <1>6, <1>7

LEMMA GlobExists ==
  ASSUME NEW T, NEW p \in Seq(T), NEW t \in Seq(T)
  PROVE  \E m : GlobEach(p, t, m)
<1> DEFINE n == Len(p)
           k == Len(t)
           w == [s \in Stands(p, t) |-> GlobDeals(p, t, s[1], s[2])]
<1>1. n \in Nat /\ k \in Nat
  OBVIOUS
<1>2. \A a \in 1 .. n + 1, b \in 1 .. k + 1 : w[<<a, b>>] = GlobDeals(p, t, a, b)
  BY DEF Stands
<1>3. ASSUME NEW i \in 1 .. n + 1, NEW j \in 1 .. k + 1
      PROVE  GlobDeals(p, t, i, j) = GlobAt(p, t, w, i, j)
  <2>1. /\ i =< n => i + 1 \in 1 .. n + 1
        /\ j =< k => j + 1 \in 1 .. k + 1
        /\ \A l \in j .. k + 1 : l \in 1 .. k + 1
    BY <1>1
  <2>2. /\ i =< n => \A l \in j .. k + 1 : w[<<i + 1, l>>] = GlobDeals(p, t, i + 1, l)
        /\ i =< n /\ j =< k => w[<<i + 1, j + 1>>] = GlobDeals(p, t, i + 1, j + 1)
    <3> HIDE DEF w
    <3> QED BY <1>2, <2>1
  <2> HIDE DEF w
  <2>3. /\ i > Len(p) => (GlobDeals(p, t, i, j) <=> j > Len(t))
        /\ i =< Len(p) /\ p[i] = Deep =>
             (GlobDeals(p, t, i, j) <=> \E l \in j .. Len(t) + 1 : GlobDeals(p, t, i + 1, l))
        /\ i =< Len(p) /\ p[i] # Deep =>
             (GlobDeals(p, t, i, j)
                <=> j =< Len(t) /\ MatchComponent(p[i], t[j]) /\ GlobDeals(p, t, i + 1, j + 1))
    BY GlobDealsIs
  <2>4. GlobEntry(p, t, w, i, j)
    BY GlobAtIs
  <2>5. GlobDeals(p, t, i, j) \in BOOLEAN
    BY DEF GlobDeals, Deals
  <2> DEFINE A == GlobDeals(p, t, i, j)
             C == GlobAt(p, t, w, i, j)
  <2>6. CASE i > Len(p)
    <3> DEFINE B == j > Len(t)
    <3>1. C = B /\ (A <=> B)
      BY <2>3, <2>4, <2>6, Zenon DEF GlobEntry
    <3>2. A \in BOOLEAN /\ B \in BOOLEAN
      BY <2>5
    <3> HIDE DEF A, B, C
    <3>3. A = C
      BY <3>1, <3>2
    <3> QED BY <3>3, Zenon DEF A, C
  <2>7. CASE i =< Len(p) /\ p[i] = Deep
    <3> DEFINE B == \E l \in j .. Len(t) + 1 : w[<<i + 1, l>>]
    <3>1. C = B
      BY <2>4, <2>7, Zenon DEF GlobEntry
    <3>2. A <=> B
      BY <2>2, <2>3, <2>7, Zenon
    <3>3. A \in BOOLEAN /\ B \in BOOLEAN
      BY <2>5
    <3> HIDE DEF A, B, C
    <3>4. A = C
      BY <3>1, <3>2, <3>3
    <3> QED BY <3>4, Zenon DEF A, C
  <2>8. CASE i =< Len(p) /\ p[i] # Deep
    <3> DEFINE B == j =< Len(t) /\ MatchComponent(p[i], t[j]) /\ w[<<i + 1, j + 1>>]
    <3>1. C = B
      BY <2>4, <2>8, Zenon DEF GlobEntry
    <3>2. A <=> B
      BY <2>2, <2>3, <2>8, Zenon
    <3>3. A \in BOOLEAN /\ B \in BOOLEAN
      BY <2>5
    <3> HIDE DEF A, B, C
    <3>4. A = C
      BY <3>1, <3>2, <3>3
    <3> QED BY <3>4, Zenon DEF A, C
  <2>9. i > Len(p) \/ (i =< Len(p) /\ p[i] = Deep) \/ (i =< Len(p) /\ p[i] # Deep)
    BY <1>1
  <2> HIDE DEF A, C
  <2> QED BY <2>6, <2>7, <2>8, <2>9
<1>4. \A s \in Stands(p, t) : GlobDeals(p, t, s[1], s[2]) = GlobAt(p, t, w, s[1], s[2])
  <2> TAKE s \in Stands(p, t)
  <2>1. s[1] \in 1 .. n + 1 /\ s[2] \in 1 .. k + 1
    BY DEF Stands
  <2> HIDE DEF w
  <2> QED BY <1>3, <2>1
<1>5. GlobEach(p, t, w)
  <2> DEFINE v == [s \in Stands(p, t) |-> GlobAt(p, t, w, s[1], s[2])]
  <2>1. w = v
    <3> DEFINE F(s) == GlobDeals(p, t, s[1], s[2])
               H(s) == GlobAt(p, t, w, s[1], s[2])
    <3>1. \A s \in Stands(p, t) : F(s) = H(s)
      BY <1>4
    <3> HIDE DEF F, H
    <3>2. [s \in Stands(p, t) |-> F(s)] = [s \in Stands(p, t) |-> H(s)]
      BY <3>1
    <3> QED BY <3>2, Zenon DEF F, H
  <2> QED BY <2>1, Zenon DEF GlobEach
<1> QED BY <1>5

LEMMA GlobOnly ==
  ASSUME NEW T, NEW p \in Seq(T), NEW t \in Seq(T), NEW m, GlobEach(p, t, m)
  PROVE  m[<<1, 1>>] <=> GlobDeals(p, t, 1, 1)
<1> DEFINE n == Len(p)
           k == Len(t)
           R == MatchTakes(p, t)
           M == DeepPlaces(p)
           Y == {s \in Stands(p, t) : m[s]}
<1>1. n \in Nat /\ k \in Nat
  OBVIOUS
<1>2. ASSUME NEW i \in 1 .. n + 1, NEW j \in 1 .. k + 1
      PROVE  m[<<i, j>>] = GlobAt(p, t, m, i, j)
  <2>1. <<i, j>> \in Stands(p, t) /\ <<i, j>>[1] = i /\ <<i, j>>[2] = j
    BY DEF Stands
  <2> DEFINE F(s) == GlobAt(p, t, m, s[1], s[2])
  <2>2. m = [s \in Stands(p, t) |-> F(s)]
    BY DEF GlobEach
  <2>3. F(<<i, j>>) = GlobAt(p, t, m, i, j)
    BY <2>1
  <2> HIDE DEF F
  <2>4. m[<<i, j>>] = F(<<i, j>>)
    BY <2>1, <2>2
  <2> QED BY <2>3, <2>4
<1>3. \A i \in 1 .. n + 1, j \in 1 .. k + 1 : <<i, j>> \in Y <=> m[<<i, j>>]
  BY DEF Stands
<1>4. \A a \in 1 .. n : a \in M <=> p[a] = Deep
  BY DEF DeepPlaces
<1>5. \A a \in 1 .. n, b \in 1 .. k : <<a, b>> \in R <=> MatchComponent(p[a], t[b])
  BY DEF MatchTakes
<1> HIDE DEF Y
<1>6. ASSUME NEW i \in 1 .. n + 1, NEW j \in 1 .. k + 1 PROVE FilledTo(Y, n, k, R, M, i, j)
  <2>1. GlobEntry(p, t, m, i, j)
    BY GlobAtIs
  <2>2. m[<<i, j>>] = GlobAt(p, t, m, i, j) /\ (<<i, j>> \in Y <=> m[<<i, j>>])
    BY <1>2, <1>3
  <2>3. /\ i =< n => \A l \in j .. k + 1 : <<i + 1, l>> \in Y <=> m[<<i + 1, l>>]
        /\ i =< n /\ j =< k => (<<i + 1, j + 1>> \in Y <=> m[<<i + 1, j + 1>>])
    <3>1. /\ i =< n => i + 1 \in 1 .. n + 1
          /\ j =< k => j + 1 \in 1 .. k + 1
          /\ \A l \in j .. k + 1 : l \in 1 .. k + 1
      BY <1>1
    <3> QED BY <1>3, <3>1
  <2>4. /\ i = n + 1 => i > n
        /\ i \in 1 .. n => i =< n
        /\ j > k <=> j = k + 1
        /\ j =< k => j \in 1 .. k
    BY <1>1
  <2>5. i > n => (<<i, j>> \in Y <=> j > k)
    BY <2>1, <2>2, Zenon DEF GlobEntry
  <2>6. i =< n /\ p[i] = Deep => (<<i, j>> \in Y <=> \E l \in j .. k + 1 : <<i + 1, l>> \in Y)
    BY <2>1, <2>2, <2>3, Zenon DEF GlobEntry
  <2>7. i =< n /\ p[i] # Deep =>
          (<<i, j>> \in Y <=> j =< k /\ MatchComponent(p[i], t[j]) /\ <<i + 1, j + 1>> \in Y)
    BY <2>1, <2>2, <2>3, Zenon DEF GlobEntry
  <2> HIDE DEF R, M, n, k
  <2>8. i \in 1 .. n => /\ i \in M <=> p[i] = Deep
                        /\ j =< k => (<<i, j>> \in R <=> MatchComponent(p[i], t[j]))
    BY <1>4, <1>5, <2>4
  <2>9. i = n + 1 => (<<i, j>> \in Y <=> j = k + 1)
    BY <2>4, <2>5
  <2>10. i \in 1 .. n /\ i \in M => (<<i, j>> \in Y <=> \E l \in j .. k + 1 : <<i + 1, l>> \in Y)
    BY <2>4, <2>6, <2>8
  <2>11. i \in 1 .. n /\ i \notin M => (<<i, j>> \in Y <=> j =< k /\ <<i, j>> \in R /\ <<i + 1, j + 1>> \in Y)
    BY <2>4, <2>7, <2>8
  <2> QED BY <2>9, <2>10, <2>11, Zenon DEF FilledTo
<1>7. 1 \in 1 .. n + 1 /\ 1 \in 1 .. k + 1
  BY <1>1
<1>8. <<1, 1>> \in Y <=> Deals(n, k, 1, 1, R, M)
  <2> HIDE DEF R, M, n, k
  <2> QED BY <1>1, <1>6, <1>7, TableDeals
<1> QED BY <1>3, <1>7, <1>8 DEF GlobDeals

(* What the program does for a pattern is to look for a dealing out.       *)
LEMMA MatchesIs ==
  ASSUME NEW T, NEW p \in Seq(T), NEW t \in Seq(T)
  PROVE  Matches(p, t) <=> GlobDeals(p, t, 1, 1)
<1> DEFINE m == CHOOSE x : GlobEach(p, t, x)
<1>1. Matches(p, t) <=> m[<<1, 1>>]
  BY DEF Matches, GlobEach, GlobAt
<1>2. GlobEach(p, t, m)
  BY GlobExists
<1> HIDE DEF m
<1> QED BY <1>1, <1>2, GlobOnly

(* What patterns and paths are written with: the provers know no character *)
(* for a string.                                                           *)
Letters == STRING \cup {"/", "*", "docs", ".git", ".factory"}
Written == Seq(Seq(Letters)) \ {<<>>}
LEMMA GlobsAreWritten == Globs \subseteq Written
<1>1. ASSUME NEW S, NEW T, S \subseteq T, NEW a \in Seq(S) PROVE a \in Seq(T)
  BY <1>1
<1> DEFINE A == Seq(STRING)
           B == Seq(Letters)
<1>2. A \subseteq B
  BY <1>1 DEF Letters
<1> HIDE DEF A, B
<1>3. Seq(A) \subseteq Seq(B)
  BY <1>1, <1>2
<1> QED BY <1>3 DEF Globs, Written, A, B

(* And the reference definition of a glob.                                 *)
DealTakes(p, t) == {q \in (1 .. Len(p)) \X (1 .. Len(t)) : ComponentTakes(p[q[1]], t[q[2]])}

LEMMA GlobTakesIs ==
  ASSUME NEW T, NEW p \in Seq(T), NEW t \in Seq(T)
  PROVE  GlobTakes(p, t) <=> Deals(Len(p), Len(t), 1, 1, DealTakes(p, t), DeepPlaces(p))
<1> DEFINE n == Len(p)
           k == Len(t)
           R == DealTakes(p, t)
           M == DeepPlaces(p)
<1>1. n \in Nat /\ k \in Nat /\ DOMAIN p = 1 .. n /\ DOMAIN t = 1 .. k
  OBVIOUS
<1>2. \A a \in 1 .. n : a \in M <=> DeepStar(p[a])
  BY DEF DeepPlaces, DeepStar
<1>3. \A a \in 1 .. n, b \in 1 .. k : <<a, b>> \in R <=> ComponentTakes(p[a], t[b])
  BY DEF DealTakes
<1>4. GlobTakes(p, t) <=>
        \E deal \in [1 .. k -> 1 .. n] :
          /\ \A i, j \in 1 .. k : i < j => deal[i] =< deal[j]
          /\ \A q \in 1 .. n : DeepStar(p[q]) \/ Cardinality({j \in 1 .. k : deal[j] = q}) = 1
          /\ \A j \in 1 .. k : DeepStar(p[deal[j]]) \/ ComponentTakes(p[deal[j]], t[j])
  <2> HIDE DEF n, k
  <2> QED BY <1>1 DEF GlobTakes, Dealt
<1> HIDE DEF n, k, R, M
<1>5. ASSUME NEW deal \in [1 .. k -> 1 .. n]
      PROVE  /\ \A q \in 1 .. n : (DeepStar(p[q]) \/ Cardinality({j \in 1 .. k : deal[j] = q}) = 1)
                                    <=> (q \in M \/ Cardinality({j \in 1 .. k : deal[j] = q}) = 1)
             /\ \A j \in 1 .. k : (DeepStar(p[deal[j]]) \/ ComponentTakes(p[deal[j]], t[j]))
                                    <=> (deal[j] \in M \/ <<deal[j], j>> \in R)
  <2>1. \A j \in 1 .. k : deal[j] \in 1 .. n
    OBVIOUS
  <2> HIDE DEF DeepStar, ComponentTakes
  <2> QED BY <1>2, <1>3, <2>1
<1>6. GlobTakes(p, t) <=> DealingOut(n, k, R, M)
  BY <1>4, <1>5 DEF DealingOut, PlacesOf
<1>7. DealingOut(n, k, R, M) <=> Deals(n, k, 1, 1, R, M)
  BY <1>1, DealingOutIs
<1> QED BY <1>6, <1>7 DEF n, k, R, M

(* What is taken by the places that take any number does not matter.       *)
LEMMA SameDeals ==
  ASSUME NEW n \in Nat, NEW k \in Nat, NEW R, NEW S, NEW M,
         \A a \in 1 .. n, b \in 1 .. k : a \notin M => (<<a, b>> \in R <=> <<a, b>> \in S)
  PROVE  Deals(n, k, 1, 1, R, M) <=> Deals(n, k, 1, 1, S, M)
<1>1. ASSUME NEW d PROVE DealtBy(d, n, k, 1, 1, R, M) <=> DealtBy(d, n, k, 1, 1, S, M)
  <2>1. CASE d \notin [1 .. k -> 1 .. n]
    BY <2>1 DEF DealtBy
  <2>2. CASE d \in [1 .. k -> 1 .. n]
    <3>1. \A a \in 1 .. k : d[a] \in 1 .. n
      BY <2>2
    <3>2. \A a \in 1 .. k : (d[a] \in M \/ <<d[a], a>> \in R) <=> (d[a] \in M \/ <<d[a], a>> \in S)
      BY <3>1
    <3> QED BY <3>2, Zenon DEF DealtBy
  <2> QED BY <2>1, <2>2
<1> QED BY <1>1 DEF Deals

(* For a pattern no component of which ends in two stars, but for the      *)
(* double star, the program takes what the reference definition takes.     *)
LEMMA PlainAgrees ==
  ASSUME NEW p \in Written, NEW t \in Written, Plain(p)
  PROVE  Matches(p, t) <=> GlobTakes(p, t)
<1> DEFINE n == Len(p)
           k == Len(t)
           C == Seq(Letters)
<1>1. p \in Seq(C) /\ t \in Seq(C)
  BY DEF Written
<1> HIDE DEF C
<1>2. n \in Nat /\ k \in Nat /\ DOMAIN p = 1 .. n
  BY <1>1
<1>3. ASSUME NEW a \in 1 .. n, NEW b \in 1 .. k, a \notin DeepPlaces(p)
      PROVE  <<a, b>> \in MatchTakes(p, t) <=> <<a, b>> \in DealTakes(p, t)
  <2>1. p[a] \in C /\ t[b] \in C
    BY <1>1
  <2>2. p[a] # Deep
    BY <1>3 DEF DeepPlaces
  <2>3. PlainComponent(p[a])
    BY <1>2, <2>2 DEF Plain, PlainComponent, EndsDeep
  <2>4. MatchComponent(p[a], t[b]) <=> CompDeals(p[a], t[b], 1, 1)
    BY <2>1, <2>2, <2>3, MatchComponentIs DEF C
  <2>5. ComponentTakes(p[a], t[b]) <=> CompDeals(p[a], t[b], 1, 1)
    BY <2>1, ComponentTakesIs DEF C
  <2>6. <<a, b>> \in MatchTakes(p, t) <=> MatchComponent(p[a], t[b])
    BY DEF MatchTakes
  <2>7. <<a, b>> \in DealTakes(p, t) <=> ComponentTakes(p[a], t[b])
    BY DEF DealTakes
  <2> QED BY <2>4, <2>5, <2>6, <2>7
<1>4. Matches(p, t) <=> Deals(n, k, 1, 1, MatchTakes(p, t), DeepPlaces(p))
  BY <1>1, MatchesIs DEF GlobDeals
<1>5. GlobTakes(p, t) <=> Deals(n, k, 1, 1, DealTakes(p, t), DeepPlaces(p))
  BY <1>1, GlobTakesIs
<1>6. Deals(n, k, 1, 1, MatchTakes(p, t), DeepPlaces(p)) <=> Deals(n, k, 1, 1, DealTakes(p, t), DeepPlaces(p))
  <2> HIDE DEF n, k
  <2> QED BY <1>2, <1>3, SameDeals
<1> QED BY <1>4, <1>5, <1>6

(* The deals of a pattern that takes one for one at first.                 *)
LEMMA DealsInStep ==
  ASSUME NEW n \in Nat, NEW k \in Nat, NEW R, NEW M, NEW h \in 0 .. n,
         \A i \in 1 .. h : i \notin M, Deals(n, k, 1, 1, R, M)
  PROVE  h =< k /\ Deals(n, k, h + 1, h + 1, R, M) /\ \A i \in 1 .. h : <<i, i>> \in R
<1> DEFINE Good == {g \in Nat : g =< h =>
                      g =< k /\ Deals(n, k, g + 1, g + 1, R, M) /\ \A i \in 1 .. g : <<i, i>> \in R}
<1>1. 0 \in Good
  <2>1. 0 + 1 = 1 /\ 1 .. 0 = {} /\ 0 =< k
    OBVIOUS
  <2> QED BY <2>1
<1>2. ASSUME NEW g \in Nat, g \in Good PROVE g + 1 \in Good
  <2> SUFFICES ASSUME g + 1 =< h
               PROVE  /\ g + 1 =< k /\ Deals(n, k, (g + 1) + 1, (g + 1) + 1, R, M)
                      /\ \A i \in 1 .. g + 1 : <<i, i>> \in R
    OBVIOUS
  <2>1. g =< h /\ g + 1 \in 1 .. h /\ g + 1 \in 1 .. n
    OBVIOUS
  <2>2. g =< k /\ Deals(n, k, g + 1, g + 1, R, M) /\ \A i \in 1 .. g : <<i, i>> \in R
    BY <1>2, <2>1
  <2>3. g + 1 \in 1 .. k + 1 /\ g + 1 \notin M
    BY <2>1, <2>2
  <2>4. g + 1 =< k /\ <<g + 1, g + 1>> \in R /\ Deals(n, k, (g + 1) + 1, (g + 1) + 1, R, M)
    BY <2>1, <2>2, <2>3, DealsOne
  <2>5. \A i \in 1 .. g + 1 : i \in 1 .. g \/ i = g + 1
    OBVIOUS
  <2> QED BY <2>2, <2>4, <2>5
<1> HIDE DEF Good
<1>3. h \in Good
  BY <1>1, <1>2, SetInduction
<1> QED BY <1>3 DEF Good

-----------------------------------------------------------------------------
(* The texts of patterns and paths, and the gate.                          *)
FlattenStep(s, f, i) == IF i = 1 THEN s[i] ELSE f[i - 1] \o s[i]
FlattenUpto(s, k, f) == f = [i \in 1 .. k |-> FlattenStep(s, f, i)]

LEMMA FlattenExists ==
  ASSUME NEW T, NEW s \in Seq(Seq(T)), NEW k \in 0 .. Len(s)
  PROVE  \E f : FlattenUpto(s, k, f)
<1> DEFINE Good == {g \in Nat : \E f : FlattenUpto(s, g, f)}
<1>1. 0 \in Good
  <2> DEFINE f == [i \in 1 .. 0 |-> {}]
  <2>1. 1 .. 0 = {}
    OBVIOUS
  <2>2. FlattenUpto(s, 0, f)
    BY <2>1 DEF FlattenUpto
  <2> QED BY <2>2
<1>2. ASSUME NEW g \in Nat, g \in Good PROVE g + 1 \in Good
  <2>1. PICK f : FlattenUpto(s, g, f)
    BY <1>2
  <2> DEFINE e == [i \in 1 .. g + 1 |-> IF i = g + 1 THEN FlattenStep(s, f, i) ELSE f[i]]
  <2>2. \A i \in 1 .. g + 1 : e[i] = IF i = g + 1 THEN FlattenStep(s, f, i) ELSE f[i]
    OBVIOUS
  <2>3. \A i \in 1 .. g : f[i] = FlattenStep(s, f, i)
    BY <2>1 DEF FlattenUpto
  <2> HIDE DEF e
  <2>4. \A i \in 1 .. g : e[i] = f[i]
    BY <2>2
  <2>5. ASSUME NEW i \in 1 .. g + 1 PROVE e[i] = FlattenStep(s, e, i)
    <3>1. i = 1 \/ (i - 1 \in 1 .. g /\ e[i - 1] = f[i - 1])
      BY <2>4
    <3>2. FlattenStep(s, e, i) = FlattenStep(s, f, i)
      BY <3>1 DEF FlattenStep
    <3>3. i = g + 1 \/ i \in 1 .. g
      OBVIOUS
    <3> QED BY <2>2, <2>3, <2>4, <3>2, <3>3
  <2>6. e = [i \in 1 .. g + 1 |-> FlattenStep(s, e, i)]
    <3>1. e = [i \in 1 .. g + 1 |-> e[i]]
      BY DEF e
    <3> QED BY <2>5, <3>1
  <2> QED BY <2>6 DEF FlattenUpto
<1> HIDE DEF Good
<1>3. \A g \in Nat : g \in Good
  BY <1>1, <1>2, SetInduction
<1>4. k \in Nat
  OBVIOUS
<1>5. k \in Good
  BY <1>3, <1>4
<1> QED BY <1>5 DEF Good

Flattened(s, f, T) ==
  /\ f \in [1 .. Len(s) -> Seq(T)] /\ f[1] = s[1] /\ FlattenSeq(s) = f[Len(s)]
  /\ \A i \in 2 .. Len(s) : f[i] = f[i - 1] \o s[i]

LEMMA FlattenIs ==
  ASSUME NEW T, NEW s \in Seq(Seq(T)), s # <<>>
  PROVE  \E f : Flattened(s, f, T)
<1> DEFINE n == Len(s)
           f == CHOOSE x : FlattenUpto(s, n, x)
<1>1. n \in Nat /\ n >= 1 /\ \A i \in 1 .. n : s[i] \in Seq(T)
  OBVIOUS
<1>2. FlattenSeq(s) = f[n]
  BY <1>1 DEF FlattenSeq, FlattenUpto, FlattenStep
<1>3. FlattenUpto(s, n, f)
  <2>1. n \in 0 .. Len(s)
    BY <1>1
  <2> QED BY <2>1, FlattenExists
<1> HIDE DEF n, f
<1>4. DOMAIN f = 1 .. n /\ f = [i \in 1 .. n |-> f[i]] /\ \A i \in 1 .. n : f[i] = FlattenStep(s, f, i)
  BY <1>3 DEF FlattenUpto
<1>5. f[1] = s[1] /\ \A i \in 2 .. n : f[i] = f[i - 1] \o s[i]
  <2>1. 1 \in 1 .. n /\ \A i \in 2 .. n : i \in 1 .. n /\ i # 1
    BY <1>1
  <2>2. f[1] = FlattenStep(s, f, 1) /\ \A i \in 2 .. n : f[i] = FlattenStep(s, f, i)
    BY <1>4, <2>1
  <2>3. FlattenStep(s, f, 1) = s[1]
    BY DEF FlattenStep
  <2>4. \A i \in 2 .. n : FlattenStep(s, f, i) = f[i - 1] \o s[i]
    BY <2>1 DEF FlattenStep
  <2> QED BY <2>2, <2>3, <2>4
<1> DEFINE Good == {g \in Nat : g >= 1 /\ g =< n => f[g] \in Seq(T)}
<1>6. 0 \in Good
  OBVIOUS
<1>7. ASSUME NEW g \in Nat, g \in Good PROVE g + 1 \in Good
  <2> SUFFICES ASSUME g + 1 =< n PROVE f[g + 1] \in Seq(T)
    OBVIOUS
  <2>1. CASE g = 0
    <3>1. f[1] \in Seq(T) /\ g + 1 = 1
      BY <1>1, <1>5, <2>1
    <3> QED BY <3>1
  <2>2. CASE g >= 1
    <3>1. f[g] \in Seq(T) /\ g + 1 \in 2 .. n /\ (g + 1) - 1 = g /\ g + 1 \in 1 .. n
      BY <1>1, <1>7, <2>2
    <3>2. f[g + 1] = f[g] \o s[g + 1] /\ s[g + 1] \in Seq(T)
      BY <1>1, <1>5, <3>1
    <3> DEFINE a == f[g]
               b == s[g + 1]
    <3>3. a \in Seq(T) /\ b \in Seq(T) /\ f[g + 1] = a \o b
      BY <3>1, <3>2
    <3> HIDE DEF a, b
    <3> QED BY <3>3, ConcatProperties
  <2> QED BY <2>1, <2>2
<1> HIDE DEF Good
<1>8. \A g \in Nat : g \in Good
  BY <1>6, <1>7, SetInduction
<1>9. f \in [1 .. n -> Seq(T)]
  <2>1. \A i \in 1 .. n : f[i] \in Seq(T)
    BY <1>8 DEF Good
  <2> QED BY <1>4, <2>1
<1> QED BY <1>2, <1>5, <1>9 DEF n, Flattened

\* The text of a path up to each of its components.
TextUpto(p, f) ==
  /\ f \in [1 .. Len(p) -> Seq(Letters)] /\ f[1] = p[1] /\ Text(p) = f[Len(p)]
  /\ \A i \in 2 .. Len(p) : f[i] = f[i - 1] \o (<<"/">> \o p[i])

LEMMA TextIs == ASSUME NEW p \in Written PROVE \E f : TextUpto(p, f)
<1> DEFINE n == Len(p)
           s == [i \in DOMAIN p |-> IF i = 1 THEN p[i] ELSE <<"/">> \o p[i]]
<1>1. p \in Seq(Seq(Letters)) /\ p # <<>>
  BY DEF Written
<1>2. n \in Nat /\ n >= 1 /\ DOMAIN p = 1 .. n /\ \A i \in 1 .. n : p[i] \in Seq(Letters)
  BY <1>1
<1>3. \A i \in 1 .. n : <<"/">> \o p[i] \in Seq(Letters)
  <2>1. <<"/">> \in Seq(Letters)
    BY DEF Letters
  <2> TAKE i \in 1 .. n
  <2> DEFINE a == <<"/">>
             b == p[i]
  <2>2. a \in Seq(Letters) /\ b \in Seq(Letters)
    BY <1>2, <2>1
  <2> HIDE DEF a, b
  <2>3. a \o b \in Seq(Letters)
    BY <2>2, ConcatProperties
  <2> QED BY <2>3 DEF a, b
<1>4. s \in Seq(Seq(Letters)) /\ Len(s) = n
  <2> DEFINE C == Seq(Letters)
  <2>1. \A i \in 1 .. n : s[i] \in C
    BY <1>2, <1>3
  <2>2. s = [i \in 1 .. n |-> s[i]]
    BY <1>2
  <2> HIDE DEF s, C, n
  <2> QED BY <1>2, <2>1, <2>2 DEF C
<1>5. s # <<>> /\ s[1] = p[1] /\ \A i \in 2 .. n : s[i] = <<"/">> \o p[i]
  BY <1>2, <1>4
<1>6. Text(p) = FlattenSeq(s)
  BY DEF Text
<1> HIDE DEF s, n
<1>7. PICK f : Flattened(s, f, Letters)
  BY <1>4, <1>5, FlattenIs
<1>8. TextUpto(p, f)
  <2>1. /\ f \in [1 .. n -> Seq(Letters)] /\ f[1] = s[1] /\ FlattenSeq(s) = f[n]
        /\ \A i \in 2 .. n : f[i] = f[i - 1] \o s[i]
    BY <1>4, <1>7 DEF Flattened
  <2> QED BY <1>5, <1>6, <2>1 DEF TextUpto, n
<1> QED BY <1>8

(* Paths that begin alike have texts that do.                              *)
LEMMA TextsAgree ==
  ASSUME NEW p \in Written, NEW t \in Written, NEW e, NEW f, TextUpto(p, e), TextUpto(t, f),
         NEW h \in 1 .. Len(p), h =< Len(t), \A i \in 1 .. h : p[i] = t[i]
  PROVE  e[h] = f[h]
<1> DEFINE Good == {g \in Nat : g >= 1 /\ g =< h => e[g] = f[g]}
<1>1. Len(p) \in Nat /\ Len(t) \in Nat
  BY DEF Written
<1>2. 0 \in Good
  OBVIOUS
<1>3. ASSUME NEW g \in Nat, g \in Good PROVE g + 1 \in Good
  <2> SUFFICES ASSUME g + 1 =< h PROVE e[g + 1] = f[g + 1]
    OBVIOUS
  <2>1. p[g + 1] = t[g + 1]
    OBVIOUS
  <2>2. CASE g = 0
    BY <2>1, <2>2 DEF TextUpto
  <2>3. CASE g >= 1
    <3>1. e[g] = f[g] /\ g + 1 \in 2 .. Len(p) /\ g + 1 \in 2 .. Len(t) /\ (g + 1) - 1 = g
      BY <1>1, <1>3, <2>3
    <3>2. e[g + 1] = e[g] \o (<<"/">> \o p[g + 1]) /\ f[g + 1] = f[g] \o (<<"/">> \o t[g + 1])
      BY <3>1 DEF TextUpto
    <3> QED BY <2>1, <3>1, <3>2
  <2> QED BY <2>2, <2>3
<1> HIDE DEF Good
<1>4. h \in Good
  BY <1>2, <1>3, SetInduction
<1> QED BY <1>4 DEF Good

(* What a directory's text begins with, with the slash.                    *)
LEMMA TextContinues ==
  ASSUME NEW t \in Written, NEW f, TextUpto(t, f), NEW h \in 1 .. Len(t)
  PROVE  IsPrefix(f[h] \o <<"/">>, f[Len(t)] \o <<"/">>)
<1> DEFINE C == Seq(Letters)
           k == Len(t)
           slash == <<"/">>
           Good == {g \in Nat : h + g =< k => IsPrefix(f[h] \o slash, f[h + g] \o slash)}
<1>1. k \in Nat /\ slash \in C /\ \A i \in 1 .. k : f[i] \in C /\ f[i] \o slash \in C /\ t[i] \in C
  <2>0. t \in Seq(C)
    BY DEF Written
  <2>1. k \in Nat /\ \A i \in 1 .. k : f[i] \in C /\ t[i] \in C
    <3>1. f \in [1 .. k -> C]
      BY DEF TextUpto
    <3> HIDE DEF C
    <3> QED BY <2>0, <3>1
  <2>2. slash \in C
    BY DEF Letters
  <2> HIDE DEF slash, k
  <2>3. \A a \in C : a \o slash \in C
    BY <2>2, ConcatProperties DEF C
  <2> QED BY <2>1, <2>2, <2>3
<1>2. 0 \in Good
  <2>1. h + 0 = h /\ f[h] \o slash \in C
    BY <1>1
  <2> HIDE DEF slash
  <2>2. IsPrefix(f[h] \o slash, f[h] \o slash)
    BY <2>1, PrefixReflexive DEF C
  <2> QED BY <2>1, <2>2
<1>3. ASSUME NEW g \in Nat, g \in Good PROVE g + 1 \in Good
  <2> SUFFICES ASSUME h + (g + 1) =< k PROVE IsPrefix(f[h] \o slash, f[h + (g + 1)] \o slash)
    OBVIOUS
  <2> DEFINE i == h + g
  <2>1. i \in 1 .. k /\ i + 1 \in 2 .. k /\ i + 1 \in 1 .. k /\ h + (g + 1) = i + 1 /\ (i + 1) - 1 = i
    BY <1>1
  <2>2. IsPrefix(f[h] \o slash, f[i] \o slash)
    BY <1>1, <1>3, <2>1
  <2>3. f[i + 1] = f[i] \o (slash \o t[i + 1])
    <3> HIDE DEF i
    <3> QED BY <2>1 DEF TextUpto
  <2> HIDE DEF i, slash
  <2> DEFINE a == f[i]
             b == t[i + 1]
  <2>4. a \in C /\ b \in C /\ slash \in C /\ a \o slash \in C
    BY <1>1, <2>1
  <2> HIDE DEF a, b
  <2>5. (a \o (slash \o b)) \o slash = (a \o slash) \o (b \o slash) /\ b \o slash \in C
    <3>1. slash \o b \in C /\ b \o slash \in C
      BY <2>4, ConcatProperties DEF C
    <3>2. a \o (slash \o b) = (a \o slash) \o b
      <4> HIDE DEF C
      <4>1. a \in C /\ b \in C /\ slash \in C
        BY <2>4
      <4>2. a \in Seq(Letters) /\ b \in Seq(Letters) /\ slash \in Seq(Letters)
        BY <4>1 DEF C
      <4>3. \A u, v, w \in Seq(Letters) : (u \o v) \o w = u \o (v \o w)
        BY ConcatAssociative
      <4>4. (a \o slash) \o b = a \o (slash \o b)
        BY <4>2, <4>3, Zenon
      <4> QED BY <4>4
    <3>3. ((a \o slash) \o b) \o slash = (a \o slash) \o (b \o slash)
      <4> DEFINE u == a \o slash
      <4>1. u \in C
        BY <2>4
      <4> HIDE DEF u
      <4>2. (u \o b) \o slash = u \o (b \o slash)
        BY <2>4, <4>1, ConcatAssociative DEF C
      <4> QED BY <4>2 DEF u
    <3> QED BY <3>1, <3>2, <3>3
  <2>6. IsPrefix(a \o slash, (a \o slash) \o (b \o slash)) /\ (a \o slash) \o (b \o slash) \in C
    <3> DEFINE u == a \o slash
               v == b \o slash
    <3>1. u \in C /\ v \in C
      BY <2>4, <2>5
    <3> HIDE DEF u, v
    <3>2. IsPrefix(u, u \o v) /\ u \o v \in C
      BY <3>1, PrefixOfConcat DEF C
    <3> QED BY <3>2 DEF u, v
  <2>7. f[h] \o slash \in C
    BY <1>1
  <2>8. IsPrefix(f[h] \o slash, f[i + 1] \o slash)
    <3>1. f[i + 1] \o slash = (a \o slash) \o (b \o slash)
      BY <2>3, <2>5 DEF a, b
    <3> DEFINE u == f[h] \o slash
               v == a \o slash
               z == (a \o slash) \o (b \o slash)
    <3>2. u \in C /\ v \in C /\ z \in C /\ IsPrefix(u, v) /\ IsPrefix(v, z)
      BY <2>2, <2>4, <2>6, <2>7 DEF a
    <3> HIDE DEF u, v, z
    <3>3. IsPrefix(u, z)
      BY <3>2, PrefixTransitive DEF C
    <3> QED BY <3>1, <3>3 DEF u, z
  <2> QED BY <2>1, <2>8
<1>4. k - h \in Nat /\ h + (k - h) = k /\ k =< k
  BY <1>1
<1> HIDE DEF Good
<1>5. k - h \in Good
  BY <1>2, <1>3, <1>4, SetInduction
<1> HIDE DEF k
<1> QED BY <1>4, <1>5 DEF Good, slash, k

(* A component without wildcards takes only itself.                        *)
LEMMA LiteralTakes ==
  ASSUME NEW T, NEW c \in Seq(T), NEW t \in Seq(T), ToSet(c) \cap {"*", "?"} = {}, MatchComponent(c, t)
  PROVE  c = t
<1> DEFINE n == Len(c)
           k == Len(t)
           R == CharTakes(c, t)
           M == CharMany(c)
<1>1. n \in Nat /\ k \in Nat /\ DOMAIN c = 1 .. n /\ DOMAIN t = 1 .. k
  OBVIOUS
<1>2. \A i \in 1 .. n : c[i] # "*" /\ c[i] # "?"
  BY <1>1 DEF ToSet
<1>3. c # Deep
  <2>1. ASSUME c = Deep PROVE n = 2 /\ c[1] = "*"
    BY <2>1 DEF Deep
  <2> HIDE DEF n
  <2> QED BY <1>2, <2>1
<1>4. PlainComponent(c)
  <2>1. n > 1 => n \in 1 .. n
    BY <1>1
  <2>2. n > 1 => c[n] # "*"
    BY <1>2, <2>1
  <2> QED BY <2>2 DEF PlainComponent
<1>5. Deals(n, k, 1, 1, R, M)
  BY <1>3, <1>4, MatchComponentIs DEF CompDeals
<1>6. \A i \in 1 .. n : i \notin M
  BY <1>2 DEF CharMany
<1>7. \A i \in 1 .. n : <<i, i>> \in R => c[i] = t[i]
  <2> TAKE i \in 1 .. n
  <2>1. ASSUME <<i, i>> \in R PROVE Fits(c[i], t[i])
    BY <2>1 DEF CharTakes
  <2> QED BY <1>2, <2>1 DEF Fits
<1> HIDE DEF n, k, R, M
<1>8. n =< k /\ Deals(n, k, n + 1, n + 1, R, M) /\ \A i \in 1 .. n : <<i, i>> \in R
  <2>1. n \in 0 .. n
    BY <1>1
  <2> QED BY <1>1, <1>5, <1>6, <2>1, DealsInStep
<1>9. n = k
  <2>1. n + 1 \in 1 .. k + 1
    BY <1>1, <1>8
  <2>2. n + 1 = k + 1
    BY <1>1, <1>8, <2>1, DealsNone
  <2> QED BY <1>1, <2>2
<1>10. Len(c) = Len(t) /\ \A i \in 1 .. Len(c) : c[i] = t[i]
  BY <1>7, <1>8, <1>9 DEF n, k
<1> QED BY <1>10

(* The components of a pattern before its double star, if any.             *)
Named(p) == IF Last(p) = Deep THEN Len(p) - 1 ELSE Len(p)

(* A path that a scope without wildcards takes begins with what it names.  *)
LEMMA PlacesBegin ==
  ASSUME NEW p \in Written, NEW t \in Written, NamesPlace(p), Matches(p, t)
  PROVE  /\ Named(p) \in 0 .. Len(p) /\ Named(p) =< Len(t)
         /\ \A i \in 1 .. Named(p) : p[i] = t[i]
         /\ Last(p) # Deep => Len(t) = Len(p)
<1> DEFINE n == Len(p)
           k == Len(t)
           h == Named(p)
           C == Seq(Letters)
           R == MatchTakes(p, t)
           M == DeepPlaces(p)
<1>1. p \in Seq(C) /\ t \in Seq(C) /\ p # <<>>
  BY DEF Written
<1> HIDE DEF C
<1>2. n \in Nat /\ k \in Nat /\ n >= 1 /\ DOMAIN p = 1 .. n /\ Last(p) = p[n]
  BY <1>1 DEF Last
<1>3. h \in 0 .. n /\ (Last(p) = Deep => h = n - 1) /\ (Last(p) # Deep => h = n)
  <2>1. h = IF Last(p) = Deep THEN n - 1 ELSE n
    BY DEF Named
  <2> HIDE DEF h, n
  <2> QED BY <1>2, <2>1
<1> HIDE DEF h, n
<1>4. ASSUME NEW i \in 1 .. h PROVE i \in 1 .. n /\ ToSet(p[i]) \cap {"*", "?"} = {}
  <2>1. i \in 1 .. n /\ (i = n => Last(p) # Deep)
    BY <1>2, <1>3
  <2> QED BY <1>2, <2>1 DEF NamesPlace
<1>5. ASSUME NEW i \in 1 .. h PROVE i \notin M
  <2>1. ToSet(Deep) \cap {"*", "?"} # {}
    <3>1. 1 \in DOMAIN Deep /\ Deep[1] = "*"
      BY DEF Deep
    <3> QED BY <3>1 DEF ToSet
  <2> QED BY <1>4, <2>1 DEF DeepPlaces
<1>6. Deals(n, k, 1, 1, R, M)
  BY <1>1, MatchesIs DEF GlobDeals, n
<1>7. ASSUME NEW i \in 1 .. h, i =< k, <<i, i>> \in R PROVE p[i] = t[i]
  <2>1. i \in 1 .. n /\ i \in 1 .. k
    BY <1>2, <1>4, <1>7
  <2>2. p[i] \in C /\ t[i] \in C
    BY <1>1, <2>1 DEF n, k
  <2>3. MatchComponent(p[i], t[i])
    BY <1>7 DEF MatchTakes
  <2> QED BY <1>4, <2>2, <2>3, LiteralTakes DEF C
<1> HIDE DEF k, R, M
<1>8. h =< k /\ Deals(n, k, h + 1, h + 1, R, M) /\ \A i \in 1 .. h : <<i, i>> \in R
  BY <1>2, <1>3, <1>5, <1>6, DealsInStep
<1>9. \A i \in 1 .. h : p[i] = t[i]
  <2>1. \A i \in 1 .. h : i =< k
    BY <1>2, <1>3, <1>8
  <2> QED BY <1>7, <1>8, <2>1
<1>10. ASSUME Last(p) # Deep PROVE k = n
  <2>1. h = n /\ n + 1 \in 1 .. k + 1
    BY <1>2, <1>3, <1>8, <1>10
  <2>2. n + 1 = k + 1
    BY <1>2, <1>8, <2>1, DealsNone
  <2> QED BY <1>2, <2>2
<1> QED BY <1>3, <1>8, <1>9, <1>10 DEF n, k, h

LEMMA ConcatAt ==
  ASSUME NEW S, NEW s \in Seq(S), NEW t \in Seq(S), NEW i \in 1 .. Len(t)
  PROVE  (s \o t)[Len(s) + i] = t[i] /\ Len(s \o t) = Len(s) + Len(t)
OBVIOUS

(* Only a double star ends the text of a scope without wildcards in stars. *)
LEMMA TextEnds ==
  ASSUME NEW p \in Written, NamesPlace(p), Last(p) # Deep
  PROVE  ~EndsDeep(Text(p))
<1> DEFINE C == Seq(Letters)
           n == Len(p)
           c == p[n]
           slash == <<"/">>
<1>1. PICK e : TextUpto(p, e)
  BY TextIs
<1>2. n \in Nat /\ n >= 1 /\ DOMAIN p = 1 .. n /\ c \in C /\ c = Last(p)
  <2>1. p \in Seq(C) /\ p # <<>>
    BY DEF Written
  <2> HIDE DEF C
  <2> QED BY <2>1, ElementOfSeq DEF Last
<1>3. /\ e \in [1 .. n -> C] /\ Text(p) = e[n] /\ e[1] = p[1]
      /\ \A i \in 2 .. n : e[i] = e[i - 1] \o (slash \o p[i])
  BY <1>1 DEF TextUpto
<1>4. slash \in C /\ Len(slash) = 1 /\ slash[1] # "*"
  BY DEF Letters
<1>5. ToSet(c) \cap {"*", "?"} = {}
  <2>1. n \in DOMAIN p /\ c # Deep
    BY <1>2
  <2> QED BY <2>1 DEF NamesPlace
<1> HIDE DEF n, c, slash, C
<1>6. Len(c) \in Nat /\ \A i \in 1 .. Len(c) : c[i] # "*"
  <2>1. Len(c) \in Nat /\ DOMAIN c = 1 .. Len(c)
    BY <1>2 DEF C
  <2> QED BY <1>5, <2>1 DEF ToSet
<1>7. CASE n = 1
  <2>1. Text(p) = c
    BY <1>3, <1>7 DEF c
  <2>2. Len(c) > 1 => Len(c) \in 1 .. Len(c)
    BY <1>6
  <2> QED BY <1>6, <2>1, <2>2 DEF EndsDeep
<1>8. CASE n > 1
  <2> DEFINE a == e[n - 1]
             v == slash \o c
  <2>1. a \in C /\ Text(p) = a \o v
    <3>1. n \in 2 .. n /\ n - 1 \in 1 .. n
      BY <1>2, <1>8
    <3> QED BY <1>3, <3>1 DEF c
  <2>2. v \in C /\ Len(v) = 1 + Len(c) /\ v[Len(v)] # "*"
    <3>1. v \in Seq(Letters) /\ Len(v) = Len(slash) + Len(c)
      BY <1>2, <1>4, ConcatProperties DEF C
    <3>2. CASE Len(c) = 0
      <4>1. v = slash
        <5>1. c = <<>>
          BY <1>2, <3>2 DEF C
        <5> QED BY <1>4, <5>1, ConcatEmptySeq DEF C
      <4> QED BY <1>4, <3>1, <3>2, <4>1 DEF C
    <3>3. CASE Len(c) >= 1
      <4>1. Len(c) \in 1 .. Len(c)
        BY <1>6, <3>3
      <4>2. v[Len(slash) + Len(c)] = c[Len(c)]
        BY <1>2, <1>4, <4>1, ConcatAt DEF C
      <4>3. v[Len(v)] # "*"
        BY <1>6, <3>1, <4>1, <4>2
      <4> QED BY <1>4, <3>1, <4>3 DEF C
    <3> QED BY <1>6, <3>2, <3>3
  <2> HIDE DEF a, v
  <2>3. (a \o v)[Len(a \o v)] = v[Len(v)]
    <3>1. Len(v) \in 1 .. Len(v)
      BY <1>6, <2>2
    <3>2. (a \o v)[Len(a) + Len(v)] = v[Len(v)] /\ Len(a \o v) = Len(a) + Len(v)
      BY <2>1, <2>2, <3>1, ConcatAt DEF C
    <3> QED BY <3>2
  <2> QED BY <2>1, <2>2, <2>3 DEF EndsDeep
<1> QED BY <1>2, <1>7, <1>8

(* The directory of a scope without wildcards begins the text of any path  *)
(* it takes, with a slash at the end.                                      *)
LEMMA DirectoryOfFile ==
  ASSUME NEW p \in Written, NEW t \in Written, NamesPlace(p), Matches(p, t), Last(p) # Deep
  PROVE  /\ Directory(p) \in Seq(Letters) /\ Text(t) \o <<"/">> \in Seq(Letters)
         /\ IsPrefix(Directory(p), Text(t) \o <<"/">>)
<1> DEFINE C == Seq(Letters)
           slash == <<"/">>
<1>1. PICK e : TextUpto(p, e)
  BY TextIs
<1>2. PICK f : TextUpto(t, f)
  BY TextIs
<1>3. Len(p) \in Nat /\ Len(p) >= 1 /\ Len(t) \in Nat
  BY DEF Written
<1>4. Named(p) = Len(p) /\ Len(t) = Len(p) /\ \A i \in 1 .. Len(p) : p[i] = t[i]
  <2>1. Named(p) = Len(p)
    BY DEF Named
  <2> QED BY <2>1, PlacesBegin
<1>5. e[Len(p)] = f[Len(p)]
  <2> DEFINE h == Len(p)
  <2>1. h \in 1 .. Len(p) /\ h =< Len(t) /\ \A i \in 1 .. h : p[i] = t[i]
    BY <1>3, <1>4
  <2> HIDE DEF h
  <2>2. e[h] = f[h]
    BY <1>1, <1>2, <2>1, TextsAgree
  <2> QED BY <2>2 DEF h
<1>6. Text(p) = Text(t)
  BY <1>1, <1>2, <1>4, <1>5 DEF TextUpto
<1>7. Text(t) \in C
  BY <1>2, <1>3, <1>4 DEF TextUpto
<1>8. slash \in C
  BY DEF Letters
<1>9. Directory(p) = Text(t)
  BY <1>6, TextEnds DEF Directory
<1> HIDE DEF slash
<1> DEFINE u == Text(t)
<1>10. u \in C
  BY <1>7
<1> HIDE DEF u
<1>11. u \o slash \in C /\ IsPrefix(u, u \o slash)
  BY <1>8, <1>10, ConcatProperties, PrefixOfConcat DEF C
<1> QED BY <1>9, <1>10, <1>11 DEF u, C, slash

LEMMA DirectoryOfDeep ==
  ASSUME NEW p \in Written, NEW t \in Written, NamesPlace(p), Matches(p, t), Last(p) = Deep
  PROVE  /\ Directory(p) \in Seq(Letters) /\ Text(t) \o <<"/">> \in Seq(Letters)
         /\ IsPrefix(Directory(p), Text(t) \o <<"/">>)
<1> DEFINE C == Seq(Letters)
           slash == <<"/">>
           n == Len(p)
           k == Len(t)
           h == n - 1
<1>1. PICK e : TextUpto(p, e)
  BY TextIs
<1>2. PICK f : TextUpto(t, f)
  BY TextIs
<1>3. n \in Nat /\ n >= 1 /\ k \in Nat /\ k >= 1 /\ p[n] = Deep
  BY DEF Written, Last
<1>4. h =< k /\ \A i \in 1 .. h : p[i] = t[i]
  <2>1. Named(p) = h
    BY DEF Named
  <2> QED BY <2>1, PlacesBegin
<1>5. slash \in C /\ Deep \in C /\ Deep \in Seq({"*"}) /\ Len(Deep) = 2
  <2>1. p \in Seq(C)
    BY DEF Written
  <2>2. p[n] \in C
    <3> HIDE DEF C
    <3> QED BY <1>3, <2>1
  <2> QED BY <1>3, <2>2 DEF Letters, Deep
<1>6. Text(t) = f[k] /\ f[k] \in C /\ \A i \in 1 .. n : e[i] \in C
  <2>1. e \in [1 .. n -> C] /\ f \in [1 .. k -> C] /\ Text(t) = f[k] /\ k \in 1 .. k
    BY <1>1, <1>2, <1>3 DEF TextUpto
  <2> HIDE DEF C, n, k
  <2> QED BY <2>1
<1>7. Text(p) = e[n] /\ e[1] = p[1] /\ \A i \in 2 .. n : e[i] = e[i - 1] \o (slash \o p[i])
  BY <1>1 DEF TextUpto
<1>8. EndsDeep(e[n]) => Directory(p) = SubSeq(e[n], 1, Len(e[n]) - 2)
  BY <1>7 DEF Directory
<1> HIDE DEF slash, C, n, k
<1>9. f[k] \o slash \in C
  BY <1>5, <1>6, ConcatProperties DEF C
<1>10. CASE n = 1
  <2>1. e[n] = Deep
    BY <1>3, <1>7, <1>10
  <2>2. Directory(p) = SubSeq(Deep, 1, 0)
    <3>1. Len(e[n]) - 2 = 0 /\ EndsDeep(e[n])
      BY <2>1 DEF EndsDeep, Deep
    <3> QED BY <1>8, <2>1, <3>1
  <2>3. SubSeq(Deep, 1, 0) = <<>>
    BY SubSeqEmpty
  <2>4. Directory(p) \in C /\ Directory(p) = <<>>
    BY <2>2, <2>3 DEF C
  <2> DEFINE u == f[k] \o slash
  <2>5. u \in C
    BY <1>9
  <2> HIDE DEF u
  <2>6. IsPrefix(<<>>, u)
    <3>1. Len(u) \in Nat /\ SubSeq(<<>>, 1, 0) = <<>> /\ SubSeq(u, 1, 0) = <<>> /\ Len(<<>>) = 0
      BY <2>5, SubSeqEmpty DEF C
    <3> QED BY <3>1 DEF IsPrefix
  <2> QED BY <1>6, <1>9, <2>4, <2>6 DEF u, C, slash
<1>11. CASE n > 1
  <2>1. h \in 1 .. n /\ h \in 1 .. k /\ n \in 2 .. n /\ n - 1 = h
    BY <1>3, <1>4, <1>11
  <2> HIDE DEF h
  <2>2. e[h] = f[h]
    <3>1. h \in 1 .. Len(p) /\ h =< Len(t) /\ h \in 1 .. Len(t)
      BY <1>4, <2>1 DEF n, k
    <3> QED BY <1>1, <1>2, <1>4, <3>1, TextsAgree
  <2> DEFINE a == e[h]
  <2>3. a \in C /\ e[n] = a \o (slash \o Deep)
    BY <1>3, <1>6, <1>7, <2>1
  <2> HIDE DEF a
  <2>4. \A u, v, w \in C : (u \o v) \o w = u \o (v \o w)
    BY ConcatAssociative DEF C
  <2>5. e[n] = (a \o slash) \o Deep
    BY <1>5, <2>3, <2>4, Zenon
  <2> DEFINE s == a \o slash
  <2>6. s \in C /\ Len(s) \in Nat
    BY <1>5, <2>3, ConcatProperties DEF C
  <2> HIDE DEF s
  <2>7. e[n] = s \o Deep
    BY <2>5 DEF s
  <2>8. Len(s \o Deep) - 2 = Len(s) /\ IsPrefix(s, s \o Deep)
    <3>1. Len(s \o Deep) = Len(s) + Len(Deep)
      BY <1>5, <2>6, ConcatProperties DEF C
    <3>2. IsPrefix(s, s \o Deep)
      BY <1>5, <2>6, PrefixOfConcat DEF C
    <3> QED BY <1>5, <2>6, <3>1, <3>2
  <2>9. SubSeq(s \o Deep, 1, Len(s)) = s
    BY <2>6, <2>8, SubSeqFull DEF IsPrefix, C
  <2>10. Directory(p) = s
    <3>1. Deep[1] = "*" /\ Deep[2] = "*"
      BY DEF Deep
    <3>2. /\ (s \o Deep)[Len(s) + 1] = "*" /\ (s \o Deep)[Len(s) + 2] = "*"
          /\ Len(s \o Deep) = Len(s) + 2
      <4> DEFINE b == Deep
      <4>1. b \in C /\ Len(b) = 2 /\ b[1] = "*" /\ b[2] = "*" /\ s \in C
        BY <1>5, <2>6, <3>1
      <4> HIDE DEF b
      <4>2. 1 \in 1 .. Len(b) /\ 2 \in 1 .. Len(b)
        BY <4>1
      <4>3. (s \o b)[Len(s) + 1] = b[1] /\ Len(s \o b) = Len(s) + Len(b)
        BY <4>1, <4>2, ConcatAt DEF C
      <4>4. (s \o b)[Len(s) + 2] = b[2]
        BY <4>1, <4>2, ConcatAt DEF C
      <4> QED BY <4>1, <4>3, <4>4 DEF b
    <3>3. EndsDeep(s \o Deep)
      BY <2>6, <3>2 DEF EndsDeep
    <3> QED BY <1>8, <2>7, <2>8, <2>9, <3>3
  <2>11. IsPrefix(f[h] \o slash, f[k] \o slash)
    <3>1. h \in 1 .. Len(t)
      BY <2>1 DEF k
    <3> QED BY <1>2, <3>1, TextContinues DEF slash, k
  <2>12. s = f[h] \o slash
    BY <2>2 DEF s, a
  <2> QED BY <1>6, <1>9, <2>6, <2>10, <2>11, <2>12 DEF C, slash
<1> QED BY <1>3, <1>10, <1>11

LEMMA Comparable ==
  ASSUME NEW S, NEW a \in Seq(S), NEW b \in Seq(S), NEW u \in Seq(S), IsPrefix(a, u), IsPrefix(b, u)
  PROVE  IsPrefix(a, b) \/ IsPrefix(b, a)
<1>1. Len(a) \in Nat /\ Len(b) \in Nat
  OBVIOUS
<1>2. \A i \in 1 .. Len(a) : a[i] = u[i]
  BY PrefixPointwise
<1>3. \A i \in 1 .. Len(b) : b[i] = u[i]
  BY PrefixPointwise
<1>4. CASE Len(a) =< Len(b)
  <2>1. \A i \in 1 .. Len(a) : i \in 1 .. Len(b)
    BY <1>1, <1>4
  <2> QED BY <1>2, <1>3, <1>4, <2>1, PrefixPointwise
<1>5. CASE Len(b) =< Len(a)
  <2>1. \A i \in 1 .. Len(b) : i \in 1 .. Len(a)
    BY <1>1, <1>5
  <2> QED BY <1>2, <1>3, <1>5, <2>1, PrefixPointwise
<1> QED BY <1>1, <1>4, <1>5

(* Two scopes that take one path overlap.                                  *)
LEMMA TakersOverlap ==
  ASSUME NEW p \in Written, NEW q \in Written, NEW t \in Written,
         NamesPlace(p), NamesPlace(q), Matches(p, t), Matches(q, t)
  PROVE  ScopesOverlap(p, q)
<1> DEFINE Begins(r) == /\ Directory(r) \in Seq(Letters) /\ Text(t) \o <<"/">> \in Seq(Letters)
                        /\ IsPrefix(Directory(r), Text(t) \o <<"/">>)
<1>1. Begins(p)
  BY DirectoryOfFile, DirectoryOfDeep
<1>2. Begins(q)
  BY DirectoryOfFile, DirectoryOfDeep
<1> DEFINE a == Directory(p)
           b == Directory(q)
           u == Text(t) \o <<"/">>
<1>3. a \in Seq(Letters) /\ b \in Seq(Letters) /\ u \in Seq(Letters) /\ IsPrefix(a, u) /\ IsPrefix(b, u)
  BY <1>1, <1>2
<1> HIDE DEF a, b, u
<1>4. IsPrefix(a, b) \/ IsPrefix(b, a)
  BY <1>3, Comparable
<1> QED BY <1>4 DEF ScopesOverlap, a, b

(* What single components and directories take.                            *)
LEMMA SelfTakes ==
  ASSUME NEW S, NEW c \in S, c # "*" PROVE MatchComponent(<<c>>, <<c>>)
<1> DEFINE p == <<c>>
<1>1. p \in Seq(S) /\ Len(p) = 1 /\ p[1] = c
  OBVIOUS
<1> HIDE DEF p
<1>2. PlainComponent(p) /\ p # Deep
  BY <1>1 DEF PlainComponent, Deep
<1>3. 1 \in 1 .. Len(p) + 1 /\ 2 \in 1 .. Len(p) + 1 /\ 1 =< Len(p) /\ 2 > Len(p)
  BY <1>1
<1>4. CompDeals(p, p, 2, 2)
  BY <1>1, <1>2, <1>3, CompDealsIs
<1>5. CompDeals(p, p, 1, 1)
  <2>1. CompDeals(p, p, 1 + 1, 1 + 1)
    BY <1>4
  <2> QED BY <1>1, <1>2, <1>3, <2>1, CompDealsIs
<1>6. MatchComponent(p, p)
  BY <1>1, <1>2, <1>5, MatchComponentIs
<1> QED BY <1>6 DEF p

LEMMA BelowTakes ==
  ASSUME NEW S, NEW c \in S, NEW t \in Seq(S), Deep \in S, t # <<>>, c # Deep, MatchComponent(c, t[1])
  PROVE  Matches(<<c, Deep>>, t)
<1> DEFINE p == <<c, Deep>>
           k == Len(t)
<1>1. p \in Seq(S) /\ Len(p) = 2 /\ p[1] = c /\ p[2] = Deep
  OBVIOUS
<1>2. k \in Nat /\ k >= 1
  OBVIOUS
<1> HIDE DEF p
<1>3. 3 \in 1 .. Len(p) + 1 /\ k + 1 \in 1 .. Len(t) + 1 /\ 3 > Len(p) /\ k + 1 > Len(t)
  BY <1>1, <1>2
<1>4. GlobDeals(p, t, 3, k + 1)
  BY <1>1, <1>3, GlobDealsIs
<1>5. GlobDeals(p, t, 2, 2)
  <2>1. 2 \in 1 .. Len(p) + 1 /\ 2 \in 1 .. Len(t) + 1 /\ 2 =< Len(p) /\ k + 1 \in 2 .. Len(t) + 1
    BY <1>1, <1>2
  <2>2. GlobDeals(p, t, 2 + 1, k + 1)
    BY <1>4
  <2> QED BY <1>1, <2>1, <2>2, GlobDealsIs
<1>6. GlobDeals(p, t, 1, 1)
  <2>1. 1 \in 1 .. Len(p) + 1 /\ 1 \in 1 .. Len(t) + 1 /\ 1 =< Len(p) /\ 1 =< Len(t)
    BY <1>1, <1>2
  <2>2. GlobDeals(p, t, 1 + 1, 1 + 1)
    BY <1>5
  <2> QED BY <1>1, <2>1, <2>2, GlobDealsIs
<1>7. Matches(p, t)
  BY <1>1, <1>6, MatchesIs
<1> QED BY <1>7 DEF p

\* A pattern of one component, against one component.
LEMMA OneTakes ==
  ASSUME NEW S, NEW c \in S, NEW d \in S, c = Deep \/ MatchComponent(c, d)
  PROVE  Matches(<<c>>, <<d>>)
<1> DEFINE p == <<c>>
           t == <<d>>
<1>1. p \in Seq(S) /\ t \in Seq(S) /\ Len(p) = 1 /\ Len(t) = 1 /\ p[1] = c /\ t[1] = d
  OBVIOUS
<1> HIDE DEF p, t
<1>2. /\ 1 \in 1 .. Len(p) + 1 /\ 1 \in 1 .. Len(t) + 1 /\ 2 \in 1 .. Len(p) + 1 /\ 2 \in 1 .. Len(t) + 1
      /\ 2 > Len(p) /\ 2 > Len(t) /\ 1 =< Len(p) /\ 1 =< Len(t)
  BY <1>1
<1>3. GlobDeals(p, t, 2, 2)
  BY <1>1, <1>2, GlobDealsIs
<1>4. GlobDeals(p, t, 1 + 1, 1 + 1)
  BY <1>3
<1>5. GlobDeals(p, t, 1, 1)
  <2>1. CASE c = Deep
    <3>1. GlobDeals(p, t, 1 + 1, 2) /\ 2 \in 1 .. Len(t) + 1
      BY <1>2, <1>3
    <3> QED BY <1>1, <1>2, <2>1, <3>1, GlobDealsIs
  <2>2. CASE c # Deep
    BY <1>1, <1>2, <1>4, <2>2, GlobDealsIs
  <2> QED BY <2>1, <2>2
<1>6. Matches(p, t)
  BY <1>1, <1>5, MatchesIs
<1> QED BY <1>6 DEF p, t

(* A pattern that takes a tool, but for a bare double star, may select a   *)
(* tool of its server.                                                     *)
LEMMA ServerSelected ==
  ASSUME NEW p \in Written, NEW tool \in Written, Len(tool) = 2, p # <<Deep>>, Matches(p, tool)
  PROVE  MaySelect(p, tool[1])
<1> DEFINE C == Seq(Letters)
           n == Len(p)
<1>1. p \in Seq(C) /\ tool \in Seq(C) /\ p # <<>>
  BY DEF Written
<1> HIDE DEF C
<1>2. n \in Nat /\ n >= 1 /\ p[1] \in C /\ tool[1] \in C /\ Head(p) = p[1]
  <2>1. n \in Nat /\ n >= 1 /\ \A i \in 1 .. n : p[i] \in C
    BY <1>1
  <2>2. \A i \in 1 .. Len(tool) : tool[i] \in C
    BY <1>1, ElementOfSeq
  <2>3. 1 \in 1 .. n /\ 1 \in 1 .. Len(tool)
    BY <2>1
  <2> QED BY <1>1, <2>1, <2>2, <2>3
<1>3. GlobDeals(p, tool, 1, 1)
  BY <1>1, MatchesIs
<1>4. p[1] # Deep => MatchComponent(p[1], tool[1]) /\ GlobDeals(p, tool, 1 + 1, 1 + 1)
  <2>1. 1 \in 1 .. Len(p) + 1 /\ 1 \in 1 .. Len(tool) + 1 /\ 1 =< Len(p)
    BY <1>2
  <2> QED BY <1>1, <1>3, <2>1, GlobDealsIs
<1>5. n > 1
  <2> SUFFICES ASSUME ~(n > 1) PROVE FALSE
    OBVIOUS
  <2>0. n = 1
    BY <1>2
  <2>1. p[1] # Deep
    <3>1. p = <<p[1]>>
      BY <1>1, <2>0
    <3> QED BY <3>1
  <2>2. 2 \in 1 .. Len(p) + 1 /\ 2 \in 1 .. Len(tool) + 1 /\ 2 > Len(p) /\ ~(2 > Len(tool))
    BY <2>0
  <2>3. GlobDeals(p, tool, 2, 2)
    BY <1>4, <2>1
  <2> QED BY <1>1, <2>2, <2>3, GlobDealsIs
<1>6. Matches(<<Head(p)>>, <<tool[1]>>)
  BY <1>2, <1>4, OneTakes
<1> QED BY <1>5, <1>6 DEF MaySelect

(* The scopes of what is declared are globs, and so are its tools.         *)
LEMMA PresetsWritten ==
  ASSUME NEW preset
  PROVE  /\ \A rule \in PresetDefaults(preset).filesystem : rule.read \cup rule.write \cup rule.deny \subseteq Written
         /\ PresetDefaults(preset).tools = {}
<1>1. NoScope.filesystem = {} /\ NoScope.tools = {}
  BY DEF NoScope
<1>2. \A read, write, deny, allow :
        /\ PresetScope(read, write, deny, allow).filesystem = {[read |-> read, write |-> write, deny |-> deny]}
        /\ PresetScope(read, write, deny, allow).tools = {}
  BY DEF PresetScope, NoScope
<1> DEFINE Docs == {<<<<"docs">>, Deep>>}
           Listed == {{}, Everything, BaselineDeny, Docs}
<1>3. PresetDefaults(preset) = NoScope
      \/ \E read, write, deny \in Listed : \E allow : PresetDefaults(preset) = PresetScope(read, write, deny, allow)
  <2>1. {} \in Listed /\ Everything \in Listed /\ BaselineDeny \in Listed /\ Docs \in Listed
    OBVIOUS
  <2> HIDE DEF Listed
  <2> QED BY <2>1 DEF PresetDefaults
<1>4. \A choice \in Listed : choice \subseteq Written
  <2> DEFINE C == Seq(Letters)
  <2>1. Deep \in C /\ <<"docs">> \in C /\ <<".git">> \in C /\ <<".factory">> \in C
    BY DEF Deep, Letters
  <2> DEFINE docs == <<"docs">>
             git == <<".git">>
             factory == <<".factory">>
  <2>2. docs \in C /\ git \in C /\ factory \in C
    BY <2>1
  <2> HIDE DEF C, docs, git, factory
  <2>3. /\ <<Deep>> \in Seq(C) \ {<<>>} /\ <<docs, Deep>> \in Seq(C) \ {<<>>}
        /\ <<git, Deep>> \in Seq(C) \ {<<>>} /\ <<git>> \in Seq(C) \ {<<>>}
        /\ <<factory, Deep>> \in Seq(C) \ {<<>>}
    BY <2>1, <2>2
  <2> QED BY <2>3 DEF Everything, BaselineDeny, Written, C, docs, git, factory
<1> HIDE DEF Listed
<1>5. ASSUME NEW rule \in PresetDefaults(preset).filesystem
      PROVE  rule.read \cup rule.write \cup rule.deny \subseteq Written
  <2>1. PICK read, write, deny \in Listed : rule = [read |-> read, write |-> write, deny |-> deny]
    BY <1>1, <1>2, <1>3
  <2> QED BY <1>4, <2>1
<1>6. PresetDefaults(preset).tools = {}
  BY <1>1, <1>2, <1>3
<1> QED BY <1>5, <1>6

LEMMA RulesWritten ==
  ASSUME NEW l \in Declared, NEW layer \in {"role", "agent", "recipe"}
  PROVE  /\ \A rule \in Rules(l, layer, "filesystem") : rule.read \cup rule.write \cup rule.deny \subseteq Written
         /\ \A rule \in Rules(l, layer, "tools") : rule.allow \subseteq Written
<1>1. ASSUME NEW s \in l[layer] PROVE s \in RoleScopes \cup AgentScopes \cup RecipeScopes
  BY <1>1 DEF Declared
<1>2. ASSUME NEW s \in l[layer], NEW rule \in MergedScope(s)["filesystem"]
      PROVE  rule.read \cup rule.write \cup rule.deny \subseteq Written
  <2>1. rule \in s.filesystem \cup PresetDefaults(s.preset).filesystem
    BY DEF MergedScope, Or
  <2>2. CASE rule \in s.filesystem
    BY <1>1, <2>2, PolicyConstants, GlobsAreWritten
  <2>3. CASE rule \in PresetDefaults(s.preset).filesystem
    BY <2>3, PresetsWritten
  <2> QED BY <2>1, <2>2, <2>3
<1>3. ASSUME NEW s \in l[layer], NEW rule \in MergedScope(s)["tools"]
      PROVE  rule.allow \subseteq Written
  <2>1. rule \in s.tools \cup PresetDefaults(s.preset).tools
    BY DEF MergedScope, Or
  <2>2. rule \in s.tools
    BY <2>1, PresetsWritten
  <2> QED BY <1>1, <2>2, PolicyConstants, GlobsAreWritten
<1> QED BY <1>2, <1>3 DEF Rules

LEMMA DeclaredWritten ==
  ASSUME NEW l \in Declared
  PROVE  /\ \A rule \in All(l, "filesystem") : rule.read \cup rule.write \cup rule.deny \subseteq Written
         /\ \A rule \in All(l, "tools") : rule.allow \subseteq Written
         /\ WriteScopes(l) \subseteq Written
         /\ \A rule \in Below(l, "filesystem") : rule.write \subseteq Written
<1>1. \A rule \in All(l, "filesystem") : rule.read \cup rule.write \cup rule.deny \subseteq Written
  BY RulesWritten DEF All, Below
<1>2. \A rule \in All(l, "tools") : rule.allow \subseteq Written
  BY RulesWritten DEF All, Below
<1>3. Everything \subseteq Written
  <2> DEFINE C == Seq(Letters)
  <2>1. Deep \in C
    BY DEF Deep, Letters
  <2> HIDE DEF C
  <2>2. <<Deep>> \in Seq(C) \ {<<>>}
    BY <2>1
  <2> QED BY <2>2 DEF Everything, Written, C
<1>4. WriteScopes(l) \subseteq Written
  <2>1. \A rule \in Rules(l, "role", "filesystem") : rule.write \subseteq Written
    BY <1>1 DEF All
  <2> QED BY <1>3, <2>1 DEF WriteScopes
<1>5. \A rule \in Below(l, "filesystem") : rule.write \subseteq Written
  BY <1>1 DEF All
<1> QED BY <1>1, <1>2, <1>4, <1>5

LEMMA SamplesWritten ==
  SamplePaths \subseteq Written /\ \A tool \in SampleTools : tool \in Written /\ Len(tool) = 2
BY PolicyConstants, GlobsAreWritten

(* The four parts of PolicySound.                                          *)
LEMMA AgreeHolds == PolicyTypeOK => GlobsAgree
<1> SUFFICES ASSUME PolicyTypeOK, NEW path \in SamplePaths, NEW r \in All(layers, "filesystem"),
                    NEW p \in r.read \cup r.write \cup r.deny, Plain(p)
             PROVE  Matches(p, path) <=> GlobTakes(p, path)
  BY DEF GlobsAgree
<1>1. p \in Written /\ path \in Written
  BY DeclaredWritten, SamplesWritten DEF PolicyTypeOK
<1> QED BY <1>1, PlainAgrees

LEMMA BaselineHolds == SafetyBaseline
<1>1. ASSUME NEW path \in SamplePaths, NEW c \in {".git", ".factory"}, path[1] = <<c>>
      PROVE  In(path, BaselineDeny)
  <2> DEFINE C == Seq(Letters)
             d == <<c>>
  <2>1. path \in Seq(C) /\ path # <<>>
    BY SamplesWritten DEF Written
  <2>2. MatchComponent(d, d)
    BY SelfTakes
  <2>3. Deep \in C /\ d \in C
    BY DEF Deep, Letters
  <2>4. d # Deep /\ path[1] = d
    BY <1>1 DEF Deep
  <2>5. <<d, Deep>> \in BaselineDeny
    BY DEF BaselineDeny
  <2> HIDE DEF C, d
  <2>6. Matches(<<d, Deep>>, path)
    BY <2>1, <2>2, <2>3, <2>4, BelowTakes
  <2> QED BY <2>5, <2>6 DEF In
<1>2. ASSUME NEW path \in SamplePaths, path[1] \in {<<".git">>, <<".factory">>}
      PROVE  ~WriteAllowed(layers, path)
  <2>1. In(path, BaselineDeny)
    BY <1>1, <1>2
  <2>2. In(path, DenyScopes(layers))
    BY <2>1 DEF In, DenyScopes
  <2> QED BY <2>2 DEF WriteAllowed
<1>3. ASSUME ~Permissive(layers)
      PROVE  ~EvidenceAccepted(layers, {[absolute |-> FALSE, parts |-> <<<<"docs">>, Up, <<"a">>>>]}, {})
  <2> DEFINE parts == <<<<"docs">>, Up, <<"a">>>>
             raw == [absolute |-> FALSE, parts |-> parts]
  <2>1. Up \in ToSet(parts)
    <3>1. 2 \in DOMAIN parts /\ parts[2] = Up
      OBVIOUS
    <3> HIDE DEF parts
    <3> QED BY <3>1 DEF ToSet
  <2>2. raw.parts = parts
    OBVIOUS
  <2> HIDE DEF parts, raw
  <2>3. NormalizeRepoRelative(raw) = {}
    BY <2>1, <2>2 DEF NormalizeRepoRelative
  <2>4. ~EvidenceAccepted(layers, {raw}, {})
    BY <1>3, <2>3 DEF EvidenceAccepted
  <2> QED BY <2>4 DEF raw, parts
<1> QED BY <1>2, <1>3 DEF SafetyBaseline

LEMMA GateHolds == PolicyTypeOK => GateIsFair
<1> DEFINE scopes == WriteScopes(layers) \cup UNION {r.write : r \in Below(layers, "filesystem")}
<1> SUFFICES ASSUME PolicyTypeOK, ReadOnly(layers), \A p \in scopes : NamesPlace(p),
                    NEW path \in SamplePaths, WriteAllowed(layers, path)
             PROVE  FALSE
  BY DEF GateIsFair
<1>1. PICK base \in WriteScopes(layers) : Matches(base, path)
  BY DEF WriteAllowed, In
<1>2. PICK r \in Below(layers, "filesystem") : \A scope \in r.write : ~ScopesOverlap(base, scope)
  BY DEF ReadOnly
<1>3. PICK scope \in r.write : Matches(scope, path)
  BY DEF WriteAllowed, In
<1>4. base \in Written /\ scope \in Written /\ path \in Written
  BY DeclaredWritten, SamplesWritten DEF PolicyTypeOK
<1>5. NamesPlace(base) /\ NamesPlace(scope)
  OBVIOUS
<1>6. ScopesOverlap(base, scope)
  BY <1>1, <1>3, <1>4, <1>5, TakersOverlap
<1> QED BY <1>2, <1>6

LEMMA ServersHold == PolicyTypeOK => ServersContacted
<1> SUFFICES ASSUME PolicyTypeOK, NEW tool \in SampleTools, ToolAllowed(layers, tool, FALSE),
                    \A r \in All(layers, "tools") : <<Deep>> \notin r.allow
             PROVE  MayAllowServer(layers, tool[1])
  BY DEF ServersContacted
<1>1. tool \in Written /\ Len(tool) = 2
  BY SamplesWritten
<1>2. ASSUME NEW r \in All(layers, "tools"), NEW p \in r.allow, Matches(p, tool)
      PROVE  MaySelect(p, tool[1])
  <2>1. p \in Written
    BY DeclaredWritten DEF PolicyTypeOK
  <2>2. p # <<Deep>>
    OBVIOUS
  <2> QED BY <1>1, <1>2, <2>1, <2>2, ServerSelected
<1>3. \E p \in RoleTools(layers) : MaySelect(p, tool[1])
  <2>1. PICK p \in RoleTools(layers) : Matches(p, tool)
    BY DEF ToolAllowed, In
  <2>2. PICK r \in Rules(layers, "role", "tools") : p \in r.allow
    BY DEF RoleTools
  <2>3. r \in All(layers, "tools")
    BY DEF All
  <2> QED BY <1>2, <2>1, <2>2, <2>3
<1>4. ASSUME NEW r \in Below(layers, "tools") PROVE \E p \in r.allow : MaySelect(p, tool[1])
  <2>1. PICK p \in r.allow : Matches(p, tool)
    BY DEF ToolAllowed, In
  <2>2. r \in All(layers, "tools")
    BY DEF All
  <2> QED BY <1>2, <2>1, <2>2
<1> QED BY <1>3, <1>4 DEF MayAllowServer

(* Whatever layers are declared: a pattern matches the paths that the      *)
(* reference definition of a glob takes, no attempt writes into git's or   *)
(* Factory's own directories or passes with evidence from outside the      *)
(* repository, the gate refuses only starts that can write nothing, and    *)
(* every server of a permitted tool is asked for its tools.                *)
THEOREM PolicyIsSound == PolicySpec => []PolicySound
<1>1. PolicyTypeOK => PolicySound
  BY AgreeHolds, BaselineHolds, GateHolds, ServersHold DEF PolicySound
<1> QED BY <1>1, TypeHolds, PTL

-----------------------------------------------------------------------------
(***************************************************************************)
(* Proofs about Issues, for any importers, repositories, remotes and       *)
(* histories: whatever is edited, re-pointed, failed or stopped, a mission *)
(* tells of the issue its objective is of, a link of the text it came      *)
(* with, and a pull request of what its run recorded.                      *)
(***************************************************************************)

Names == Repositories \cup {NoRepository}
Found == {Detect(c) : c \in RemoteSets \cup {FirstRemotes}} \cup {NoRepository}
Texts == [number : Int, edition : Nat, comments : Int]
Fetched == [repository : Names, number : Int, edition : Nat, comments : Int]
Notices == [repository : Names, number : Int]
Asks == References \cup {NoImport.ref}
Attempted == {h[n] : h \in Histories, n \in Nat}
Lines == UNION {LinesOf(a) : a \in Attempted}
AttemptCommands == UNION {a.commands : a \in Attempted}

MissionKinds == {"none", "planner", "implement", "final_review", "advisory", "review"}
Statuses == {"planning", "planned", "active", "blocked", "completed", "failed", "cancelled"}
Stages == {"idle", "remote", "auth", "view", "begin", "link", "reserve"}
Plannings == [state : {"none", "spawned", "asking", "answering"}, notice : Notices, tries : Int]
Missions == [kind : MissionKinds, objective : Texts, notice : Notices]
Rows == [status : Statuses, planned : BOOLEAN, objective : Texts, link : Fetched,
         attempts : Seq(Attempted), asked : Asks, origin : Names]
Pulls == [repository : Found, eligible : BOOLEAN, closes : Int, summary : Texts,
          reviews : SUBSET Lines, commands : SUBSET AttemptCommands]
Requests == [stage : Stages, ref : Asks, repository : Found, issue : Fetched, run : Nat]

IssuesTypeOK ==
  /\ remotes \in RemoteSets \cup {FirstRemotes} /\ moved \in BOOLEAN
  /\ issues \in [AllIssues -> [edition : Nat, comments : Int]]
  /\ importer \in [Importers -> Requests]
  /\ runs \in Seq(Rows) /\ Len(runs) <= MaxRuns
  /\ planner \in [1 .. MaxRuns -> Plannings]
  /\ mission \in [1 .. MaxRuns -> Missions]
  /\ briefed \in [1 .. MaxRuns -> SUBSET Notices]
  /\ preview \in [1 .. MaxRuns -> Pulls]
  /\ pull \in [1 .. MaxRuns -> Pulls]

-----------------------------------------------------------------------------
(* The strengthening: what an import has in hand between two of its        *)
(* statements, and what a run's row, link, planner, missions and texts     *)
(* tell of one another.                                                    *)

Unplanned(r) == r \in Runs /\ runs[r].status = "planning" /\ planner[r].state = "none"

RequestHolds(q) ==
  /\ q.stage \in {"auth", "view"} =>
       Tracked(q.ref, q.repository) /\ (~moved => q.repository = GithubRemote)
  /\ q.stage = "begin" /\ q.issue # NoIssue =>
       /\ q.issue.number = q.ref.number
       /\ q.ref.repository \in {NoRepository, q.issue.repository}
       /\ q.repository = q.issue.repository
       /\ ~moved => q.issue.repository = GithubRemote
  /\ q.stage = "link" => /\ Unplanned(q.run)
                         /\ runs[q.run].objective = ObjectiveFromIssue(q.issue)
                         /\ runs[q.run].origin = q.issue.repository
                         /\ q.repository = q.issue.repository
  /\ q.stage = "reserve" => Unplanned(q.run) /\ LinkTells(runs[q.run])

RunHolds(run) ==
  /\ run.objective # NoText => /\ run.objective.number = run.asked.number
                               /\ run.asked.repository \in {NoRepository, run.origin}
  /\ (run.planned \/ run.link # NoIssue) => LinkTells(run)
  /\ run.status \in {"planned", "active", "blocked", "completed"} => run.planned

OriginHolds(run) == (~moved /\ run.objective.number # 0) => run.origin = GithubRemote

PlannerHolds(r) ==
  /\ planner[r].state # "none" => r \in Runs /\ runs[r].status = "planning" /\ LinkTells(runs[r])
  /\ planner[r].state \in {"asking", "answering"} => planner[r].notice = NoticeOf(runs[r])

MissionHolds(r) ==
  /\ mission[r] # NoMission => /\ r \in Runs
                               /\ mission[r].objective = runs[r].objective
                               /\ mission[r].notice = NoticeOf(runs[r])
  /\ \A notice \in briefed[r] : r \in Runs /\ notice = NoticeOf(runs[r])

TellsOf(text, run) ==
  /\ text.closes \in {0, run.objective.number}
  /\ text.reviews \subseteq Reviews(run.attempts)
  /\ text.commands \subseteq VerificationCommands(run.attempts)
  /\ text.eligible => /\ run.status = "completed"
                      /\ text.closes = run.objective.number
                      /\ text.reviews = Reviews(run.attempts)

TextsHold(r) ==
  /\ preview[r] # NoPull => r \in Runs /\ TellsOf(preview[r], runs[r])
  /\ pull[r] # NoPull => /\ r \in Runs /\ TellsOf(pull[r], runs[r])
                         /\ ~moved => pull[r].repository = GithubRemote

HasRun(q) == q.stage \in {"link", "reserve"}
Apart ==
  \A i, j \in Importers :
    i # j /\ HasRun(importer[i]) /\ HasRun(importer[j]) => importer[i].run # importer[j].run

Holds ==
  /\ Apart
  /\ \A i \in Importers : RequestHolds(importer[i])
  /\ \A r \in Runs : RunHolds(runs[r]) /\ OriginHolds(runs[r])
  /\ \A r \in 1 .. MaxRuns : PlannerHolds(r) /\ MissionHolds(r) /\ TextsHold(r)

IInv == IssuesTypeOK /\ Holds

-----------------------------------------------------------------------------
(* What an attempt adds to a pull request's text only adds to it.          *)
LEMMA MoreRecorded ==
  ASSUME NEW s \in Seq(Attempted), NEW a \in Attempted
  PROVE  /\ Append(s, a) \in Seq(Attempted)
         /\ Reviews(s) \subseteq Reviews(Append(s, a))
         /\ VerificationCommands(s) \subseteq VerificationCommands(Append(s, a))
<1>1. Append(s, a) \in Seq(Attempted) /\ Recorded(s) \subseteq Recorded(Append(s, a))
  BY DEF Recorded
<1> QED BY <1>1 DEF Reviews, VerificationCommands

LEMMA TextTyped ==
  ASSUME NEW s \in Seq(Attempted)
  PROVE  /\ Reviews(s) \in SUBSET Lines
         /\ VerificationCommands(s) \in SUBSET AttemptCommands
<1>1. Recorded(s) \subseteq Attempted
  BY DEF Recorded
<1> QED BY <1>1 DEF Reviews, VerificationCommands, Lines, AttemptCommands

LEMMA NothingTyped ==
  /\ NoText \in Texts /\ NoIssue \in Fetched /\ NoNotice \in Notices /\ NoImport \in Requests
  /\ NoPlanning \in Plannings /\ NoMission \in Missions /\ NoPull \in Pulls
<1>1. NoText \in Texts /\ NoIssue \in Fetched /\ NoNotice \in Notices
  BY DEF NoText, NoIssue, NoNotice, Texts, Fetched, Notices, Names, NoRepository
<1>2. NoImport \in Requests
  BY <1>1 DEF NoImport, Requests, Stages, Asks, Found
<1>3. NoPull \in Pulls
  BY <1>1 DEF NoPull, Pulls, Found
<1> QED BY <1>1, <1>2, <1>3 DEF NoPlanning, Plannings, NoMission, Missions, MissionKinds

LEMMA RowsTyped ==
  ASSUME IssuesTypeOK
  PROVE  /\ Len(runs) \in Nat /\ Runs \subseteq 1 .. MaxRuns /\ GithubRemote \in Found
         /\ \A r \in Runs : runs[r] \in Rows
  BY IssuesAssumption, LenProperties, ElementOfSeq DEF IssuesTypeOK, Runs, Found, GithubRemote

LEMMA IssuesBegin == IssuesInit => IInv
<1> SUFFICES ASSUME IssuesInit PROVE IInv
  OBVIOUS
<1> USE IssuesAssumption
<1>1. IssuesTypeOK
  <2>1. issues \in [AllIssues -> [edition : Nat, comments : Int]]
    BY DEF IssuesInit
  <2>2. runs \in Seq(Rows) /\ Len(runs) <= MaxRuns
    BY DEF IssuesInit
  <2>3. briefed \in [1 .. MaxRuns -> SUBSET Notices]
    BY DEF IssuesInit
  <2> QED BY <2>1, <2>2, <2>3, NothingTyped DEF IssuesInit, IssuesTypeOK
<1>2. Holds
  BY DEF IssuesInit, Holds, Apart, HasRun, RequestHolds, PlannerHolds, MissionHolds, TextsHold, NoImport,
         NoPlanning, Runs
<1> QED BY <1>1, <1>2 DEF IInv

-----------------------------------------------------------------------------
(* An import. A step that gives one importer another request, and nothing  *)
(* else.                                                                   *)
LEMMA RequestKeeps ==
  ASSUME IInv, NEW i \in Importers, NEW q \in Requests, Serve(i, q), UNCHANGED RequestVars,
         RequestHolds(q), ~HasRun(q)
  PROVE  IInv'
<1>1. /\ importer' \in [Importers -> Requests]
      /\ \A j \in Importers : importer'[j] \in {q, importer[j]}
  BY DEF Serve, IInv, IssuesTypeOK
<1>2. IssuesTypeOK'
  BY <1>1 DEF IInv, IssuesTypeOK, RequestVars, AllIssues
<1>3. UNCHANGED <<runs, moved, GithubRemote>>
  BY DEF RequestVars, GithubRemote
<1>4. ASSUME NEW j \in Importers PROVE RequestHolds(importer[j])'
  <2>1. RequestHolds(q) /\ RequestHolds(importer[j])
    BY DEF IInv, Holds
  <2>2. UNCHANGED planner
    BY DEF RequestVars
  <2> QED BY <1>1, <1>3, <2>1, <2>2 DEF RequestHolds, Unplanned, Runs
<1>7. Apart'
  BY <1>1 DEF Serve, IInv, IssuesTypeOK, Holds, Apart, HasRun
<1>5. ASSUME NEW r \in Runs' PROVE (RunHolds(runs[r]) /\ OriginHolds(runs[r]))'
  BY <1>3 DEF IInv, Holds, RunHolds, OriginHolds, Runs
<1>6. ASSUME NEW r \in 1 .. MaxRuns PROVE (PlannerHolds(r) /\ MissionHolds(r) /\ TextsHold(r))'
  BY <1>3 DEF IInv, Holds, PlannerHolds, MissionHolds, TextsHold, RequestVars, Runs
<1> QED BY <1>2, <1>4, <1>5, <1>6, <1>7 DEF IInv, Holds

LEMMA DismissKeeps ==
  ASSUME IInv, NEW i \in Importers, Dismiss(i), UNCHANGED RequestVars
  PROVE  IInv'
<1>1. RequestHolds(NoImport) /\ ~HasRun(NoImport)
  BY DEF RequestHolds, NoImport, HasRun
<1> QED BY <1>1, NothingTyped, RequestKeeps DEF Dismiss

LEMMA AskKeeps ==
  ASSUME IInv, NEW i \in Importers, AskIssue(i) \/ AskObjective(i) PROVE IInv'
<1>1. CASE AskIssue(i)
  <2>1. PICK ref \in References : Serve(i, [NoImport EXCEPT !.stage = "remote", !.ref = ref])
    BY <1>1 DEF AskIssue
  <2> DEFINE q == [NoImport EXCEPT !.stage = "remote", !.ref = ref]
  <2>2. q \in Requests /\ q.stage = "remote"
    BY NothingTyped DEF Requests, Stages, NoImport, Asks
  <2> QED BY <1>1, <2>1, <2>2, RequestKeeps DEF AskIssue, RequestHolds, HasRun
<1>2. CASE AskObjective(i)
  <2> DEFINE q == [NoImport EXCEPT !.stage = "begin"]
  <2>1. q \in Requests /\ q.stage = "begin" /\ q.issue = NoIssue
    BY NothingTyped DEF Requests, Stages, NoImport, Asks
  <2> QED BY <1>2, <2>1, RequestKeeps DEF AskObjective, RequestHolds, HasRun
<1> QED BY <1>1, <1>2

LEMMA FindKeeps ==
  ASSUME IInv, NEW i \in Importers, FindRemote(i) \/ AuthStatus(i) PROVE IInv'
<1>1. importer[i] \in Requests /\ RequestHolds(importer[i]) /\ GithubRemote \in Found
  BY RowsTyped DEF IInv, IssuesTypeOK, Holds
<1>2. CASE Dismiss(i)
  BY <1>2, DismissKeeps DEF FindRemote, AuthStatus
<1>3. CASE FindRemote(i) /\ ~Dismiss(i)
  <2> DEFINE q == [importer[i] EXCEPT !.stage = "auth", !.repository = GithubRemote]
  <2>1. /\ q \in Requests /\ q.stage = "auth"
        /\ q.ref = importer[i].ref /\ q.repository = GithubRemote
    BY <1>1 DEF Requests, Stages
  <2>2. Tracked(importer[i].ref, GithubRemote) /\ Serve(i, q) /\ UNCHANGED RequestVars
    BY <1>3 DEF FindRemote
  <2> HIDE DEF q
  <2> QED BY <2>1, <2>2, RequestKeeps DEF RequestHolds, HasRun
<1>4. CASE AuthStatus(i) /\ ~Dismiss(i)
  <2> DEFINE q == [importer[i] EXCEPT !.stage = "view"]
  <2>1. /\ q \in Requests /\ q.stage = "view"
        /\ q.ref = importer[i].ref /\ q.repository = importer[i].repository
    BY <1>1 DEF Requests, Stages
  <2>2. importer[i].stage = "auth" /\ Serve(i, q) /\ UNCHANGED RequestVars
    BY <1>4 DEF AuthStatus, AtStage
  <2> HIDE DEF q
  <2> QED BY <1>1, <2>1, <2>2, RequestKeeps DEF RequestHolds, HasRun
<1> QED BY <1>2, <1>3, <1>4

LEMMA ParsedIssue ==
  ASSUME IssuesTypeOK, NEW repository, NEW number, <<repository, number>> \in AllIssues
  PROVE  /\ ParseIssue(repository, number) \in Fetched
         /\ ParseIssue(repository, number).repository = repository
         /\ ParseIssue(repository, number).number = number
<1>1. repository \in Repositories /\ number \in Int
  BY DEF AllIssues
<1>2. issues[<<repository, number>>] \in [edition : Nat, comments : Int]
  BY DEF IssuesTypeOK
<1> QED BY <1>1, <1>2, IssuesAssumption DEF ParseIssue, Fetched, Names

LEMMA ViewKeeps ==
  ASSUME IInv, NEW i \in Importers, ViewIssue(i) PROVE IInv'
<1>1. CASE Dismiss(i)
  BY <1>1, DismissKeeps DEF ViewIssue
<1>2. CASE ~Dismiss(i)
  <2> DEFINE text == ParseIssue(importer[i].repository, importer[i].ref.number)
             q == [importer[i] EXCEPT !.stage = "begin", !.issue = text]
  <2>1. /\ <<importer[i].repository, importer[i].ref.number>> \in AllIssues
        /\ Serve(i, q) /\ UNCHANGED RequestVars /\ importer[i].stage = "view"
    BY <1>2 DEF ViewIssue, AtStage
  <2>2. text \in Fetched /\ text.repository = importer[i].repository /\ text.number = importer[i].ref.number
    BY <2>1, ParsedIssue DEF IInv
  <2> HIDE DEF text
  <2>3. importer[i] \in Requests /\ RequestHolds(importer[i])
    BY DEF IInv, IssuesTypeOK, Holds
  <2>4. /\ q \in Requests /\ q.stage = "begin" /\ q.issue = text /\ q.ref = importer[i].ref
        /\ q.repository = importer[i].repository
    BY <2>2, <2>3 DEF Requests, Stages
  <2> HIDE DEF q
  <2> QED BY <2>1, <2>2, <2>3, <2>4, RequestKeeps DEF RequestHolds, HasRun, Tracked
<1> QED BY <1>1, <1>2

(* A row is there from its insertion on, with a new number.                *)
LEMMA InsertKeeps ==
  ASSUME IInv, NEW i \in Importers, InsertRun(i) PROVE IInv'
<1>1. CASE Dismiss(i) /\ UNCHANGED runs
  BY <1>1, DismissKeeps DEF InsertRun, RowVars, RequestVars
<1>2. CASE ~(Dismiss(i) /\ UNCHANGED runs)
  <2> DEFINE new == Len(runs) + 1
             row == Row(importer[i])
             stage == IF importer[i].issue = NoIssue THEN "reserve" ELSE "link"
             q == [importer[i] EXCEPT !.run = new, !.stage = stage]
  <2>1. importer[i] \in Requests /\ RequestHolds(importer[i])
    BY DEF IInv, IssuesTypeOK, Holds
  <2>2. Len(runs) \in Nat /\ new <= MaxRuns /\ new \in Nat /\ Len(runs) < MaxRuns
    BY IssuesAssumption, RowsTyped DEF InsertRun, IInv
  <2>3. /\ row \in Rows /\ row.status = "planning" /\ row.link = NoIssue /\ row.planned = FALSE
        /\ row.objective = ObjectiveFromIssue(importer[i].issue)
        /\ row.asked = importer[i].ref /\ row.origin = importer[i].issue.repository
    <3>1. ObjectiveFromIssue(importer[i].issue) \in Texts
      BY <2>1 DEF ObjectiveFromIssue, Requests, Fetched, Texts
    <3>2. importer[i].ref \in Asks /\ importer[i].issue.repository \in Names
      BY <2>1 DEF Requests, Fetched
    <3>3. <<>> \in Seq(Attempted)
      OBVIOUS
    <3> QED BY <3>1, <3>2, <3>3, NothingTyped DEF Row, Rows, Statuses
  <2>4. /\ q \in Requests /\ q.stage = stage /\ q.run = new /\ q.issue = importer[i].issue
        /\ q.repository = importer[i].repository
        /\ stage \in {"reserve", "link"} /\ (stage = "reserve") = (importer[i].issue = NoIssue)
    BY <2>1, <2>2 DEF Requests, Stages
  <2>5. /\ runs' = Append(runs, row) /\ importer' = [importer EXCEPT ![i] = q]
        /\ UNCHANGED RowVars /\ importer[i].stage = "begin"
    BY <1>2 DEF InsertRun, Serve, AtStage
  <2>6. runs \in Seq(Rows)
    BY DEF IInv, IssuesTypeOK
  <2> HIDE DEF row, q, stage
  <2>7. /\ runs' \in Seq(Rows) /\ Len(runs') = new
        /\ \A n \in Runs : runs'[n] = runs[n]
        /\ runs'[new] = row
    BY <2>3, <2>5, <2>6 DEF Runs
  <2>8. UNCHANGED <<moved, GithubRemote>> /\ Runs' = Runs \cup {new} /\ new \notin Runs
    BY <2>2, <2>5, <2>7 DEF RowVars, GithubRemote, Runs
  <2>9. importer' \in [Importers -> Requests] /\ \A j \in Importers : importer'[j] \in {q, importer[j]}
    BY <2>4, <2>5 DEF IInv, IssuesTypeOK
  <2>10. IssuesTypeOK'
    BY <2>2, <2>5, <2>7, <2>9 DEF IInv, IssuesTypeOK, RowVars, AllIssues
  <2>11. LinkTells(row) <=> importer[i].issue = NoIssue \/ LinkTells(row)
    <3>1. importer[i].issue = NoIssue => LinkTells(row)
      BY <2>3 DEF LinkTells, ObjectiveFromIssue, NoIssue
    <3> QED BY <3>1
  <2>12. ASSUME NEW j \in Importers PROVE RequestHolds(importer[j])'
    <3>1. CASE importer'[j] = importer[j]
      <4>1. RequestHolds(importer[j])
        BY DEF IInv, Holds
      <4>2. UNCHANGED planner
        BY <2>5 DEF RowVars
      <4> QED BY <2>7, <2>8, <3>1, <4>1, <4>2 DEF RequestHolds, Unplanned
    <3>2. CASE importer'[j] = q
      <4>1. q.stage = "link" => q.repository = q.issue.repository
        BY <2>1, <2>4, <2>5 DEF RequestHolds
      <4>2. planner[new].state = "none" /\ UNCHANGED planner
        BY <2>2, <2>5, <2>8 DEF IInv, Holds, PlannerHolds, RowVars
      <4>3. new \in Runs' /\ runs'[new].status = "planning" /\ planner'[new].state = "none"
        BY <2>3, <2>7, <2>8, <4>2
      <4> QED BY <2>3, <2>4, <2>7, <2>8, <2>11, <3>2, <4>1, <4>3 DEF RequestHolds, Unplanned
    <3> QED BY <2>9, <3>1, <3>2
  <2>13. RunHolds(row) /\ OriginHolds(row)
    <3>1. CASE importer[i].issue = NoIssue
      BY <2>3, <3>1 DEF RunHolds, OriginHolds, ObjectiveFromIssue, NoIssue, NoText
    <3>2. CASE importer[i].issue # NoIssue
      BY <2>1, <2>3, <2>5, <3>2 DEF RequestHolds, RunHolds, OriginHolds, ObjectiveFromIssue
    <3> QED BY <3>1, <3>2
  <2>14. ASSUME NEW r \in Runs' PROVE (RunHolds(runs[r]) /\ OriginHolds(runs[r]))'
    <3>1. CASE r = new
      BY <2>7, <2>8, <2>13, <3>1 DEF RunHolds, OriginHolds
    <3>2. CASE r # new
      BY <2>7, <2>8, <3>2 DEF RunHolds, OriginHolds, IInv, Holds
    <3> QED BY <3>1, <3>2
  <2>15. ASSUME NEW r \in 1 .. MaxRuns PROVE (PlannerHolds(r) /\ MissionHolds(r) /\ TextsHold(r))'
    <3>1. PlannerHolds(r) /\ MissionHolds(r) /\ TextsHold(r)
      BY DEF IInv, Holds
    <3>2. PlannerHolds(r)' /\ MissionHolds(r)'
      BY <2>5, <2>7, <2>8, <3>1 DEF PlannerHolds, MissionHolds, RowVars
    <3>3. UNCHANGED <<preview, pull, moved, GithubRemote>>
      BY <2>5, <2>8 DEF RowVars
    <3>4. r \in Runs => r \in Runs' /\ runs'[r] = runs[r]
      BY <2>7, <2>8
    <3>5. TextsHold(r)'
      BY <3>1, <3>3, <3>4 DEF TextsHold
    <3> QED BY <3>2, <3>5
  <2>16. Apart'
    <3>1. \A j \in Importers : importer'[j] = IF j = i THEN q ELSE importer[j]
      BY <2>4, <2>5 DEF IInv, IssuesTypeOK
    <3>2. \A j \in Importers : HasRun(importer[j]) => importer[j].run \in Runs
      BY DEF IInv, Holds, RequestHolds, HasRun, Unplanned
    <3> QED BY <2>4, <2>8, <3>1, <3>2 DEF IInv, Holds, Apart, HasRun
  <2> QED BY <2>10, <2>12, <2>14, <2>15, <2>16 DEF IInv, Holds
<1> QED BY <1>1, <1>2

-----------------------------------------------------------------------------
(* The rows that are there. A row keeps what it is of; a link is stored    *)
(* only when it is of that, no plan is without, attempts are only added,   *)
(* and none to a run that has completed.                                   *)
Follows(old, new) ==
  /\ new.objective = old.objective /\ new.asked = old.asked /\ new.origin = old.origin
  /\ new.link = old.link \/ LinkTells(new)
  /\ new.planned => LinkTells(new)
  /\ new.status \in {"planned", "active", "blocked", "completed"} => new.planned
  /\ Reviews(old.attempts) \subseteq Reviews(new.attempts)
  /\ VerificationCommands(old.attempts) \subseteq VerificationCommands(new.attempts)
  /\ old.status = "completed" => new.status = "completed" /\ new.attempts = old.attempts

LEMMA FollowsItself ==
  ASSUME NEW run, RunHolds(run) PROVE Follows(run, run)
  BY DEF RunHolds, Follows

LEMMA FollowsKeeps ==
  ASSUME NEW old, NEW new, Follows(old, new)
  PROVE  /\ LinkTells(old) => LinkTells(new)
         /\ RunHolds(old) => RunHolds(new)
         /\ NoticeOf(new) = NoticeOf(old)
         /\ \A text : TellsOf(text, old) => TellsOf(text, new)
<1>1. LinkTells(old) => LinkTells(new)
  BY DEF Follows, LinkTells
<1>2. RunHolds(old) => RunHolds(new)
  BY <1>1 DEF Follows, RunHolds
<1>3. \A text : TellsOf(text, old) => TellsOf(text, new)
  BY DEF Follows, TellsOf
<1> QED BY <1>1, <1>2, <1>3 DEF Follows, NoticeOf

LEMMA RowsKept ==
  ASSUME IInv, UNCHANGED <<remotes, moved, issues, mission, preview, pull>>,
         runs' \in Seq(Rows), Len(runs') = Len(runs),
         \A n \in Runs : Follows(runs[n], runs'[n]),
         importer' \in [Importers -> Requests],
         (\A i \in Importers : RequestHolds(importer[i]))', Apart',
         planner' \in [1 .. MaxRuns -> Plannings],
         \A r \in 1 .. MaxRuns : PlannerHolds(r)',
         briefed' \in [1 .. MaxRuns -> SUBSET Notices],
         \A r \in 1 .. MaxRuns : briefed'[r] \subseteq briefed[r]
  PROVE  IInv'
<1>1. IssuesTypeOK'
  BY DEF IInv, IssuesTypeOK, AllIssues
<1>2. Runs' = Runs /\ UNCHANGED <<moved, GithubRemote>>
  BY DEF Runs, GithubRemote
<1>3. ASSUME NEW r \in Runs' PROVE (RunHolds(runs[r]) /\ OriginHolds(runs[r]))'
  <2>1. RunHolds(runs[r]) /\ OriginHolds(runs[r]) /\ Follows(runs[r], runs'[r])
    BY <1>2 DEF IInv, Holds
  <2>2. RunHolds(runs'[r])
    BY <2>1, FollowsKeeps
  <2>3. runs'[r].objective = runs[r].objective /\ runs'[r].origin = runs[r].origin
    BY <2>1 DEF Follows
  <2>4. OriginHolds(runs[r])'
    BY <1>2, <2>1, <2>3 DEF OriginHolds
  <2> QED BY <2>2, <2>4 DEF RunHolds
<1>4. ASSUME NEW r \in 1 .. MaxRuns PROVE (MissionHolds(r) /\ TextsHold(r))'
  <2>1. MissionHolds(r) /\ TextsHold(r) /\ briefed'[r] \subseteq briefed[r]
    BY DEF IInv, Holds
  <2>2. r \in Runs => /\ NoticeOf(runs'[r]) = NoticeOf(runs[r])
                      /\ runs'[r].objective = runs[r].objective
                      /\ \A text : TellsOf(text, runs[r]) => TellsOf(text, runs'[r])
    BY FollowsKeeps DEF Follows
  <2>3. MissionHolds(r)'
    BY <1>2, <2>1, <2>2 DEF MissionHolds
  <2>4. TextsHold(r)'
    BY <1>2, <2>1, <2>2 DEF TextsHold
  <2> QED BY <2>3, <2>4
<1> QED BY <1>1, <1>3, <1>4 DEF IInv, Holds

(* One row is replaced by one that follows it.                             *)
LEMMA RowReplaced ==
  ASSUME IInv, NEW n \in Runs, NEW row \in Rows, runs' = [runs EXCEPT ![n] = row],
         Follows(runs[n], row), UNCHANGED <<remotes, moved>>,
         \A r \in 1 .. MaxRuns : planner'[r] \in {planner[r], NoPlanning},
         planner'[n].state # "none" => row.status = runs[n].status
  PROVE  /\ runs' \in Seq(Rows) /\ Len(runs') = Len(runs) /\ Runs' = Runs
         /\ runs'[n] = row
         /\ \A m \in Runs : Follows(runs[m], runs'[m])
         /\ \A q : RequestHolds(q) /\ (HasRun(q) /\ q.run = n => row.status = "planning")
                   => RequestHolds(q)'
         /\ \A r \in 1 .. MaxRuns : PlannerHolds(r)'
<1>1. runs \in Seq(Rows) /\ Len(runs) \in Nat /\ Runs \subseteq 1 .. MaxRuns
  BY RowsTyped DEF IInv, IssuesTypeOK
<1>2. /\ runs' \in Seq(Rows) /\ Len(runs') = Len(runs) /\ Runs' = Runs
      /\ \A m \in Runs : runs'[m] = IF m = n THEN row ELSE runs[m]
  BY <1>1 DEF Runs
<1>3. \A m \in Runs : Follows(runs[m], runs'[m])
  BY <1>2, FollowsItself DEF IInv, Holds
<1>4. UNCHANGED <<moved, GithubRemote>>
  BY DEF GithubRemote
<1>5. \A m \in Runs : /\ LinkTells(runs[m]) => LinkTells(runs'[m])
                      /\ NoticeOf(runs'[m]) = NoticeOf(runs[m])
                      /\ runs'[m].objective = runs[m].objective /\ runs'[m].origin = runs[m].origin
  BY <1>3, FollowsKeeps DEF Follows
<1>6. ASSUME NEW q, RequestHolds(q), HasRun(q) /\ q.run = n => row.status = "planning"
      PROVE  RequestHolds(q)'
  <2>1. ASSUME HasRun(q) PROVE Unplanned(q.run)'
    <3>1. Unplanned(q.run)
      BY <1>6, <2>1 DEF RequestHolds, HasRun
    <3>2. q.run \in Runs' /\ runs'[q.run].status = "planning"
      BY <1>2, <1>6, <2>1, <3>1 DEF Unplanned
    <3>3. planner'[q.run].state = "none"
      <4>1. q.run \in 1 .. MaxRuns /\ planner[q.run].state = "none" /\ NoPlanning.state = "none"
        BY <1>1, <3>1 DEF Unplanned, NoPlanning
      <4>2. planner'[q.run] = planner[q.run] \/ planner'[q.run] = NoPlanning
        BY <4>1
      <4> QED BY <4>1, <4>2
    <3> QED BY <3>2, <3>3 DEF Unplanned
  <2> QED BY <1>2, <1>4, <1>5, <1>6, <2>1 DEF RequestHolds, HasRun, Unplanned
<1>7. ASSUME NEW r \in 1 .. MaxRuns PROVE PlannerHolds(r)'
  <2>1. CASE planner'[r].state = "none"
    BY <2>1 DEF PlannerHolds
  <2>2. CASE planner'[r] = planner[r] /\ planner'[r].state # "none"
    <3>1. r \in Runs => runs'[r].status = runs[r].status
      BY <1>2, <2>2
    <3>2. PlannerHolds(r)
      BY DEF IInv, Holds
    <3> QED BY <1>2, <1>5, <2>2, <3>1, <3>2 DEF PlannerHolds
  <2> QED BY <2>1, <2>2 DEF NoPlanning
<1> QED BY <1>2, <1>3, <1>6, <1>7

LEMMA LinkKeeps ==
  ASSUME IInv, NEW i \in Importers, LinkIssue(i) PROVE IInv'
<1> DEFINE linked == importer[i].run
           link == IssueLink(importer[i].issue, importer[i].repository)
           row == [runs[linked] EXCEPT !.link = link]
           q == [importer[i] EXCEPT !.stage = "reserve"]
<1>1. importer[i] \in Requests /\ RequestHolds(importer[i]) /\ importer[i].stage = "link"
  BY DEF LinkIssue, AtStage, IInv, IssuesTypeOK, Holds
<1>2. /\ linked \in Runs /\ Unplanned(linked)
      /\ runs[linked].objective = ObjectiveFromIssue(importer[i].issue)
      /\ runs[linked].origin = importer[i].issue.repository
      /\ importer[i].repository = importer[i].issue.repository
  BY <1>1 DEF RequestHolds, Unplanned
<1>3. link = importer[i].issue /\ link \in Fetched
  <2>1. importer[i].issue \in Fetched
    BY <1>1 DEF Requests
  <2> QED BY <1>2, <2>1 DEF IssueLink, Fetched
<1>4. runs[linked] \in Rows /\ RunHolds(runs[linked])
  BY <1>2, RowsTyped DEF IInv, Holds
<1>5. /\ runs' = [runs EXCEPT ![linked] = row] /\ importer' = [importer EXCEPT ![i] = q]
      /\ UNCHANGED RowVars
  BY DEF LinkIssue, Serve
<1>6. /\ q \in Requests /\ q.stage = "reserve" /\ q.run = linked
  BY <1>1 DEF Requests, Stages
<1> HIDE DEF link, q
<1>7. /\ row \in Rows /\ row.objective = runs[linked].objective /\ row.asked = runs[linked].asked
      /\ row.origin = runs[linked].origin /\ row.link = link /\ row.planned = runs[linked].planned
      /\ row.status = runs[linked].status /\ row.attempts = runs[linked].attempts
  BY <1>3, <1>4 DEF Rows
<1> HIDE DEF row
<1>8. LinkTells(row)
  BY <1>2, <1>3, <1>7 DEF LinkTells
<1>9. Follows(runs[linked], row)
  BY <1>4, <1>7, <1>8 DEF Follows, RunHolds
<1>10. UNCHANGED <<remotes, moved, issues, mission, preview, pull, planner, briefed>>
  BY <1>5 DEF RowVars
<1>11. /\ runs' \in Seq(Rows) /\ Len(runs') = Len(runs) /\ Runs' = Runs
       /\ runs'[linked] = row
       /\ \A m \in Runs : Follows(runs[m], runs'[m])
       /\ \A request : RequestHolds(request) => RequestHolds(request)'
       /\ \A r \in 1 .. MaxRuns : PlannerHolds(r)'
  BY <1>2, <1>5, <1>7, <1>9, <1>10, RowReplaced DEF Unplanned
<1>12. importer' \in [Importers -> Requests] /\ \A j \in Importers : importer'[j] = IF j = i THEN q ELSE importer[j]
  BY <1>5, <1>6 DEF IInv, IssuesTypeOK
<1>13. ASSUME NEW j \in Importers PROVE RequestHolds(importer[j])'
  <2>1. CASE j = i
    <3>1. linked \in Runs' /\ runs'[linked].status = "planning" /\ planner'[linked].state = "none"
      BY <1>2, <1>7, <1>10, <1>11 DEF Unplanned
    <3> QED BY <1>6, <1>8, <1>11, <1>12, <2>1, <3>1 DEF RequestHolds, Unplanned
  <2>2. CASE j # i
    <3>1. RequestHolds(importer[j]) /\ importer'[j] = importer[j]
      BY <1>12, <2>2 DEF IInv, Holds
    <3> QED BY <1>11, <3>1
  <2> QED BY <2>1, <2>2
<1>14. Apart'
  <2>1. \A j \in Importers : HasRun(importer[j])' => HasRun(importer[j]) /\ importer'[j].run = importer[j].run
    BY <1>1, <1>6, <1>12 DEF HasRun
  <2> QED BY <2>1 DEF IInv, Holds, Apart
<1>15. /\ planner' \in [1 .. MaxRuns -> Plannings] /\ briefed' \in [1 .. MaxRuns -> SUBSET Notices]
       /\ \A r \in 1 .. MaxRuns : briefed'[r] \subseteq briefed[r]
  BY <1>10 DEF IInv, IssuesTypeOK
<1> HIDE DEF IInv
<1> QED BY <1>10, <1>11, <1>12, <1>13, <1>14, <1>15, RowsKept

(* A run's step that writes its row, of a run no import has in hand any    *)
(* more, and may end its planning or what its implementations were told.   *)
LEMMA RowStepKeeps ==
  ASSUME IInv, NEW n \in Runs, NEW row \in Rows, runs' = [runs EXCEPT ![n] = row],
         Follows(runs[n], row), UNCHANGED <<ElsewhereVars, mission>>,
         ~Unplanned(n), planner[n].state # "none" => planner'[n] = NoPlanning,
         planner' \in {planner, [planner EXCEPT ![n] = NoPlanning]},
         briefed' \in {briefed, [briefed EXCEPT ![n] = {}]}
  PROVE  IInv'
<1>1. UNCHANGED <<remotes, moved, issues, importer, mission, preview, pull>>
  BY DEF ElsewhereVars
<1>2. /\ planner' \in [1 .. MaxRuns -> Plannings]
      /\ \A r \in 1 .. MaxRuns : planner'[r] \in {planner[r], NoPlanning}
      /\ briefed' \in [1 .. MaxRuns -> SUBSET Notices]
      /\ \A r \in 1 .. MaxRuns : briefed'[r] \subseteq briefed[r]
  <2>1. planner \in [1 .. MaxRuns -> Plannings] /\ briefed \in [1 .. MaxRuns -> SUBSET Notices]
    BY DEF IInv, IssuesTypeOK
  <2>2. {} \in SUBSET Notices
    OBVIOUS
  <2> QED BY <2>1, <2>2, NothingTyped
<1>3. planner'[n].state = "none" /\ \A q : RequestHolds(q) => ~(HasRun(q) /\ q.run = n)
  <2>1. planner \in [1 .. MaxRuns -> Plannings] /\ n \in 1 .. MaxRuns
    BY RowsTyped DEF IInv, IssuesTypeOK
  <2>2. planner'[n].state = "none"
    <3>1. NoPlanning.state = "none" /\ [planner EXCEPT ![n] = NoPlanning][n] = NoPlanning
      BY <2>1 DEF NoPlanning
    <3>2. CASE planner' = planner
      <4>1. planner'[n] = planner[n]
        BY <3>2
      <4> QED BY <3>1, <4>1
    <3> QED BY <3>1, <3>2
  <2>3. ASSUME NEW q, RequestHolds(q), HasRun(q), q.run = n PROVE FALSE
    BY <2>3 DEF RequestHolds, HasRun
  <2> QED BY <2>2, <2>3
<1>4. /\ runs' \in Seq(Rows) /\ Len(runs') = Len(runs)
      /\ \A m \in Runs : Follows(runs[m], runs'[m])
      /\ \A q : RequestHolds(q) => RequestHolds(q)'
      /\ \A r \in 1 .. MaxRuns : PlannerHolds(r)'
  BY <1>1, <1>2, <1>3, RowReplaced
<1>5. importer' \in [Importers -> Requests] /\ Apart'
  BY <1>1 DEF IInv, IssuesTypeOK, Holds, Apart, HasRun
<1>6. ASSUME NEW i \in Importers PROVE RequestHolds(importer[i])'
  <2>1. RequestHolds(importer[i])
    BY DEF IInv, Holds
  <2> QED BY <1>1, <1>4, <2>1
<1> HIDE DEF IInv
<1> QED BY <1>1, <1>2, <1>4, <1>5, <1>6, RowsKept

(* A status is written that the run's plan allows.                         *)
LEMMA StatusFollows ==
  ASSUME IInv, NEW r \in Runs, NEW status \in Statuses, SetStatus(r, status),
         runs[r].status # "completed",
         status \in {"planned", "active", "blocked", "completed"} => runs[r].planned
  PROVE  \E row \in Rows : runs' = [runs EXCEPT ![r] = row] /\ Follows(runs[r], row)
<1> DEFINE row == [runs[r] EXCEPT !.status = status]
<1>1. runs[r] \in Rows /\ RunHolds(runs[r])
  BY RowsTyped DEF IInv, Holds
<1>2. /\ row \in Rows /\ row.objective = runs[r].objective /\ row.asked = runs[r].asked
      /\ row.origin = runs[r].origin /\ row.link = runs[r].link /\ row.planned = runs[r].planned
      /\ row.status = status /\ row.attempts = runs[r].attempts
  BY <1>1 DEF Rows
<1>3. runs' = [runs EXCEPT ![r] = row]
  BY DEF SetStatus
<1> HIDE DEF row
<1>4. Follows(runs[r], row)
  BY <1>1, <1>2 DEF Follows, RunHolds, LinkTells
<1> QED BY <1>2, <1>3, <1>4

LEMMA PlannerEndKeeps ==
  ASSUME IInv, NEW r \in Runs,
         \/ PlanningFails(r)
         \/ AnswerPlanner(r) /\ planner' = [planner EXCEPT ![r] = NoPlanning]
  PROVE  IInv'
<1>1. /\ runs[r] \in Rows /\ RunHolds(runs[r]) /\ PlannerHolds(r) /\ r \in 1 .. MaxRuns
      /\ planner[r].state # "none"
  BY RowsTyped DEF IInv, Holds, PlanningFails, AnswerPlanner
<1>2. runs[r].status = "planning" /\ LinkTells(runs[r]) /\ ~Unplanned(r)
  BY <1>1 DEF PlannerHolds, Unplanned
<1>3. /\ planner' = [planner EXCEPT ![r] = NoPlanning] /\ planner'[r] = NoPlanning
      /\ UNCHANGED <<ElsewhereVars, mission, briefed>>
  BY <1>1 DEF PlanningFails, AnswerPlanner, IInv, IssuesTypeOK
<1>4. \E row \in Rows : runs' = [runs EXCEPT ![r] = row] /\ Follows(runs[r], row)
  <2>1. CASE UNCHANGED runs
    <3>1. runs \in Seq(Rows)
      BY DEF IInv, IssuesTypeOK
    <3>2. runs' = [runs EXCEPT ![r] = runs[r]]
      BY <2>1, <3>1
    <3> QED BY <1>1, <3>2, FollowsItself
  <2>2. CASE PlanningFails(r) /\ ~UNCHANGED runs
    BY <1>2, <2>2, StatusFollows DEF PlanningFails, Statuses
  <2>3. CASE AnswerPlanner(r) /\ ~UNCHANGED runs
    <3> DEFINE row == [runs[r] EXCEPT !.status = "planned", !.planned = TRUE]
    <3>1. runs' = [runs EXCEPT ![r].status = "planned", ![r].planned = TRUE]
      BY <2>3 DEF AnswerPlanner
    <3>2. runs \in Seq(Rows)
      BY DEF IInv, IssuesTypeOK
    <3>3. runs' = [runs EXCEPT ![r] = row]
      BY <1>1, <3>1, <3>2
    <3>4. /\ row \in Rows /\ row.objective = runs[r].objective /\ row.asked = runs[r].asked
          /\ row.origin = runs[r].origin /\ row.link = runs[r].link /\ row.planned = TRUE
          /\ row.status = "planned" /\ row.attempts = runs[r].attempts
      BY <1>1 DEF Rows, Statuses
    <3> HIDE DEF row
    <3>5. Follows(runs[r], row)
      BY <1>2, <3>4 DEF Follows, LinkTells
    <3> QED BY <3>3, <3>4, <3>5
  <2> QED BY <2>1, <2>2, <2>3
<1> QED BY <1>2, <1>3, <1>4, RowStepKeeps

LEMMA ExecutionKeeps ==
  ASSUME IInv, NEW r \in Runs, StartRun(r) \/ EndRun(r) \/ RecordAttempt(r)
  PROVE  IInv'
<1>1. /\ runs[r] \in Rows /\ RunHolds(runs[r]) /\ PlannerHolds(r) /\ r \in 1 .. MaxRuns
      /\ runs[r].status \notin {"planning", "completed"}
  BY RowsTyped DEF IInv, Holds, StartRun, EndRun, RecordAttempt
<1>2. planner[r].state = "none" /\ ~Unplanned(r)
  BY <1>1 DEF PlannerHolds, Unplanned
<1>3. /\ UNCHANGED <<ElsewhereVars, mission, planner>>
      /\ briefed' \in {briefed, [briefed EXCEPT ![r] = {}]}
  BY DEF StartRun, EndRun, RecordAttempt
<1>4. \E row \in Rows : runs' = [runs EXCEPT ![r] = row] /\ Follows(runs[r], row)
  <2>1. CASE StartRun(r)
    BY <1>1, <2>1, StatusFollows DEF StartRun, RunHolds, Statuses
  <2>2. CASE EndRun(r)
    <3>1. PICK status \in {"completed", "failed", "cancelled", "blocked"} : SetStatus(r, status)
      BY <2>2 DEF EndRun
    <3> QED BY <1>1, <2>2, <3>1, StatusFollows DEF EndRun, RunHolds, Statuses
  <2>3. CASE RecordAttempt(r)
    <3>1. runs[r].attempts \in Seq(Attempted)
      BY <1>1 DEF Rows
    <3>2. PICK h \in Histories :
            runs' = [runs EXCEPT ![r].attempts = Append(@, h[Len(runs[r].attempts) + 1])]
      BY <2>3 DEF RecordAttempt
    <3> DEFINE a == h[Len(runs[r].attempts) + 1]
    <3>3. a \in Attempted
      BY <3>1, LenProperties DEF Attempted
    <3> HIDE DEF a
    <3> DEFINE more == Append(runs[r].attempts, a)
               row == [runs[r] EXCEPT !.attempts = more]
    <3>4. /\ more \in Seq(Attempted) /\ Reviews(runs[r].attempts) \subseteq Reviews(more)
          /\ VerificationCommands(runs[r].attempts) \subseteq VerificationCommands(more)
      BY <3>1, <3>3, MoreRecorded
    <3>5. runs' = [runs EXCEPT ![r] = row]
      BY <3>2 DEF a
    <3> HIDE DEF more
    <3>6. /\ row \in Rows /\ row.objective = runs[r].objective /\ row.asked = runs[r].asked
          /\ row.origin = runs[r].origin /\ row.link = runs[r].link /\ row.planned = runs[r].planned
          /\ row.status = runs[r].status /\ row.attempts = more
      BY <1>1, <3>4 DEF Rows
    <3> HIDE DEF row
    <3>7. Follows(runs[r], row)
      BY <1>1, <3>4, <3>6 DEF Follows, RunHolds, LinkTells
    <3> QED BY <3>5, <3>6, <3>7
  <2> QED BY <2>1, <2>2, <2>3
<1> QED BY <1>2, <1>3, <1>4, RowStepKeeps

-----------------------------------------------------------------------------
(* A spawned planning: no import has the run in hand any more.             *)
LEMMA SpawnKeeps ==
  ASSUME IInv, NEW i \in Importers, SpawnPlanning(i) PROVE IInv'
<1>1. PICK n : n = importer[i].run
  OBVIOUS
<1>2. importer[i].stage = "reserve" /\ Unplanned(n) /\ LinkTells(runs[n]) /\ n \in 1 .. MaxRuns
  BY <1>1, RowsTyped DEF SpawnPlanning, AtStage, IInv, Holds, RequestHolds, Unplanned
<1> DEFINE spawned == [NoPlanning EXCEPT !.state = "spawned"]
<1>3. spawned \in Plannings /\ spawned.state = "spawned"
  BY NothingTyped DEF Plannings
<1>4. /\ planner' = [planner EXCEPT ![n] = spawned] /\ importer' = [importer EXCEPT ![i] = NoImport]
      /\ UNCHANGED <<remotes, issues, runs, mission, briefed, preview, pull, moved>>
  BY <1>1 DEF SpawnPlanning, Dismiss, Serve
<1> HIDE DEF spawned
<1>5. /\ planner' \in [1 .. MaxRuns -> Plannings]
      /\ \A r \in 1 .. MaxRuns : planner'[r] = IF r = n THEN spawned ELSE planner[r]
      /\ importer' \in [Importers -> Requests]
      /\ \A j \in Importers : importer'[j] = IF j = i THEN NoImport ELSE importer[j]
  BY <1>2, <1>3, <1>4, NothingTyped DEF IInv, IssuesTypeOK
<1>6. UNCHANGED <<moved, runs, GithubRemote>> /\ Runs' = Runs /\ Runs \subseteq 1 .. MaxRuns
  BY <1>4, RowsTyped DEF GithubRemote, Runs, IInv
<1>7. IssuesTypeOK'
  BY <1>4, <1>5 DEF IInv, IssuesTypeOK, AllIssues
<1>8. ASSUME NEW j \in Importers PROVE RequestHolds(importer[j])'
  <2>1. CASE j = i
    BY <1>5, <2>1 DEF RequestHolds, NoImport
  <2>2. CASE j # i
    <3>1. RequestHolds(importer[j]) /\ importer'[j] = importer[j]
      BY <1>5, <2>2 DEF IInv, Holds
    <3>2. HasRun(importer[j]) => importer[j].run # n /\ Unplanned(importer[j].run)
      BY <1>1, <1>2, <2>2, <3>1 DEF IInv, Holds, Apart, HasRun, RequestHolds
    <3>3. HasRun(importer[j]) => Unplanned(importer'[j].run) /\ planner'[importer[j].run] = planner[importer[j].run]
      BY <1>5, <1>6, <3>1, <3>2 DEF Unplanned
    <3> QED BY <1>6, <3>1, <3>2, <3>3 DEF RequestHolds, HasRun, Unplanned
  <2> QED BY <2>1, <2>2
<1>9. Apart'
  BY <1>5 DEF IInv, Holds, Apart, HasRun, NoImport
<1>10. ASSUME NEW r \in Runs' PROVE (RunHolds(runs[r]) /\ OriginHolds(runs[r]))'
  BY <1>6 DEF IInv, Holds, RunHolds, OriginHolds
<1>11. ASSUME NEW r \in 1 .. MaxRuns PROVE (PlannerHolds(r) /\ MissionHolds(r) /\ TextsHold(r))'
  <2>1. PlannerHolds(r) /\ MissionHolds(r) /\ TextsHold(r)
    BY DEF IInv, Holds
  <2>2. PlannerHolds(r)'
    BY <1>2, <1>3, <1>5, <1>6, <2>1 DEF PlannerHolds, Unplanned
  <2>3. MissionHolds(r)'
    BY <1>4, <1>6, <2>1 DEF MissionHolds
  <2>4. TextsHold(r)'
    BY <1>4, <1>6, <2>1 DEF TextsHold
  <2> QED BY <2>2, <2>3, <2>4
<1> QED BY <1>7, <1>8, <1>9, <1>10, <1>11 DEF IInv, Holds

-----------------------------------------------------------------------------
(* Missions and texts: no row changes, no import, and no run's planning    *)
(* begins or is over.                                                      *)
LEMMA ToldKeeps ==
  ASSUME IInv, UNCHANGED <<remotes, moved, issues, importer, runs>>,
         planner' \in [1 .. MaxRuns -> Plannings],
         \A r \in 1 .. MaxRuns : planner[r].state = "none" => planner'[r].state = "none",
         mission' \in [1 .. MaxRuns -> Missions],
         briefed' \in [1 .. MaxRuns -> SUBSET Notices],
         preview' \in [1 .. MaxRuns -> Pulls], pull' \in [1 .. MaxRuns -> Pulls],
         \A r \in 1 .. MaxRuns : PlannerHolds(r)' /\ MissionHolds(r)' /\ TextsHold(r)'
  PROVE  IInv'
<1>1. IssuesTypeOK'
  BY DEF IInv, IssuesTypeOK, AllIssues
<1>2. UNCHANGED <<moved, runs, GithubRemote>> /\ Runs' = Runs /\ Runs \subseteq 1 .. MaxRuns
  BY RowsTyped DEF GithubRemote, Runs, IInv
<1>3. ASSUME NEW i \in Importers PROVE RequestHolds(importer[i])'
  <2>1. RequestHolds(importer[i]) /\ importer'[i] = importer[i]
    BY DEF IInv, Holds
  <2>2. HasRun(importer[i]) => Unplanned(importer[i].run) /\ planner'[importer[i].run].state = "none"
    BY <1>2, <2>1 DEF HasRun, RequestHolds, Unplanned
  <2> QED BY <1>2, <2>1, <2>2 DEF RequestHolds, HasRun, Unplanned
<1>4. ASSUME NEW r \in Runs' PROVE (RunHolds(runs[r]) /\ OriginHolds(runs[r]))'
  <2>1. RunHolds(runs[r]) /\ OriginHolds(runs[r])
    BY <1>2 DEF IInv, Holds
  <2> QED BY <1>2, <2>1 DEF RunHolds, OriginHolds
<1>5. Apart'
  BY DEF IInv, Holds, Apart, HasRun
<1> QED BY <1>1, <1>3, <1>4, <1>5 DEF IInv, Holds

(* Where a row's link tells, so does the notice read from it.              *)
LEMMA NoticeRead ==
  ASSUME IInv, NEW r \in Runs, LinkTells(runs[r])
  PROVE  /\ UntrustedIssueNotice(r) = NoticeOf(runs[r])
         /\ NoticeOf(runs[r]) \in Notices
         /\ runs[r].objective \in Texts
<1>1. runs[r].link \in Fetched /\ runs[r].objective \in Texts /\ runs[r].origin \in Names
  BY RowsTyped DEF IInv, Rows
<1>2. runs[r].link.number = runs[r].objective.number /\ runs[r].objective.number \in Int
  BY <1>1 DEF LinkTells, ObjectiveFromIssue, Texts
<1> QED BY <1>1, <1>2 DEF UntrustedIssueNotice, NoticeOf, Notices, LinkTells

LEMMA PlannerToldKeeps ==
  ASSUME IInv, NEW r \in Runs,
         \/ StartPlanning(r) \/ PlannerMission(r)
         \/ AnswerPlanner(r) /\ ~(planner' = [planner EXCEPT ![r] = NoPlanning])
  PROVE  IInv'
<1>1. /\ r \in 1 .. MaxRuns /\ planner \in [1 .. MaxRuns -> Plannings] /\ planner[r] \in Plannings
      /\ PlannerHolds(r) /\ planner[r].state # "none"
  BY RowsTyped DEF IInv, IssuesTypeOK, Holds, StartPlanning, PlannerMission, AnswerPlanner
<1>2. runs[r].status = "planning" /\ LinkTells(runs[r])
  BY <1>1 DEF PlannerHolds
<1> DEFINE notice == NoticeOf(runs[r])
<1>3. UntrustedIssueNotice(r) = notice /\ notice \in Notices /\ runs[r].objective \in Texts
  BY <1>2, NoticeRead
<1> HIDE DEF notice
<1>14. AnswerPlanner(r) => planner' # [planner EXCEPT ![r] = NoPlanning]
  <2>1. ~(AnswerPlanner(r) /\ (StartPlanning(r) \/ PlannerMission(r)))
    BY DEF AnswerPlanner, StartPlanning, PlannerMission
  <2> QED BY <2>1
<1>4. PICK next \in Plannings : /\ planner' = [planner EXCEPT ![r] = next]
                               /\ next.state \in {"asking", "answering"} /\ next.notice = notice
  <2>1. CASE StartPlanning(r)
    <3> DEFINE next == [state |-> "asking", notice |-> notice, tries |-> 0]
    <3>1. next \in Plannings /\ planner' = [planner EXCEPT ![r] = next]
      BY <1>3, <2>1 DEF StartPlanning, Plannings
    <3> QED BY <3>1
  <2>2. CASE PlannerMission(r)
    <3> DEFINE next == [planner[r] EXCEPT !.state = "answering", !.tries = planner[r].tries + 1]
    <3>1. planner[r].tries + 1 \in Int
      BY <1>1 DEF Plannings
    <3>2. next \in Plannings /\ next.state = "answering" /\ next.notice = planner[r].notice
      BY <1>1, <3>1 DEF Plannings
    <3>3. planner' = [planner EXCEPT ![r] = next] /\ planner[r].state = "asking"
      BY <2>2 DEF PlannerMission
    <3>4. planner[r].notice = notice
      BY <1>1, <3>3 DEF PlannerHolds, notice
    <3> QED BY <3>2, <3>3, <3>4
  <2>3. CASE AnswerPlanner(r)
    <3> DEFINE next == [planner[r] EXCEPT !.state = "asking"]
    <3>1. next \in Plannings /\ next.state = "asking" /\ next.notice = planner[r].notice
      BY <1>1 DEF Plannings
    <3>2. planner' = [planner EXCEPT ![r].state = "asking"] /\ planner[r].state = "answering"
      BY <1>14, <2>3 DEF AnswerPlanner
    <3>4. planner' = [planner EXCEPT ![r] = next]
      BY <1>1, <3>2
    <3>3. planner[r].notice = notice
      BY <1>1, <3>2 DEF PlannerHolds, notice
    <3> QED BY <3>1, <3>3, <3>4
  <2> QED BY <2>1, <2>2, <2>3
<1>5. /\ planner' \in [1 .. MaxRuns -> Plannings]
      /\ \A n \in 1 .. MaxRuns : planner'[n] = IF n = r THEN next ELSE planner[n]
  BY <1>1, <1>4
<1>6. UNCHANGED <<remotes, moved, issues, importer, runs, briefed, preview, pull>>
  <2>1. UNCHANGED <<ElsewhereVars, briefed>>
    BY DEF StartPlanning, PlannerMission, AnswerPlanner
  <2>2. UNCHANGED runs
    BY DEF StartPlanning, PlannerMission, AnswerPlanner
  <2> QED BY <2>1, <2>2 DEF ElsewhereVars
<1> DEFINE words == [kind |-> "planner", objective |-> runs[r].objective, notice |-> notice]
<1>7. mission' \in {mission, [mission EXCEPT ![r] = words]}
  <2>1. PlannerMission(r) => planner[r].notice = notice
    BY <1>1 DEF PlannerMission, PlannerHolds, notice
  <2> QED BY <2>1 DEF StartPlanning, PlannerMission, AnswerPlanner, Give, Mission
<1>8. words \in Missions
  BY <1>3 DEF Missions, MissionKinds
<1>9. /\ mission' \in [1 .. MaxRuns -> Missions]
      /\ \A n \in 1 .. MaxRuns : mission'[n] = IF n = r /\ mission' # mission THEN words ELSE mission[n]
  BY <1>1, <1>7, <1>8 DEF IInv, IssuesTypeOK
<1>10. UNCHANGED <<runs, moved, GithubRemote>> /\ Runs' = Runs
  BY <1>6 DEF GithubRemote, Runs
<1>11. ASSUME NEW n \in 1 .. MaxRuns PROVE PlannerHolds(n)' /\ MissionHolds(n)' /\ TextsHold(n)'
  <2>1. PlannerHolds(n) /\ MissionHolds(n) /\ TextsHold(n)
    BY DEF IInv, Holds
  <2>2. PlannerHolds(n)'
    BY <1>2, <1>4, <1>5, <1>10, <2>1 DEF PlannerHolds, notice
  <2>3. MissionHolds(n)'
    BY <1>6, <1>9, <1>10, <2>1 DEF MissionHolds, notice
  <2>4. TextsHold(n)'
    BY <1>6, <1>10, <2>1 DEF TextsHold
  <2> QED BY <2>2, <2>3, <2>4
<1>12. /\ briefed' \in [1 .. MaxRuns -> SUBSET Notices]
       /\ preview' \in [1 .. MaxRuns -> Pulls] /\ pull' \in [1 .. MaxRuns -> Pulls]
  BY <1>6 DEF IInv, IssuesTypeOK
<1>13. \A n \in 1 .. MaxRuns : planner[n].state = "none" => planner'[n].state = "none"
  BY <1>1, <1>5
<1> HIDE DEF IInv
<1> QED BY <1>5, <1>6, <1>9, <1>11, <1>12, <1>13, ToldKeeps

(* A mission of a task: of an active run, whose link tells.                *)
LEMMA TaskMissionKeeps ==
  ASSUME IInv, NEW r \in Runs,
         ImplementMission(r) \/ FinalReviewMission(r) \/ AdvisoryMission(r) \/ ReviewMission(r)
  PROVE  IInv'
<1>1. r \in 1 .. MaxRuns /\ RunHolds(runs[r]) /\ MissionHolds(r) /\ runs[r].status = "active"
  BY RowsTyped DEF IInv, Holds, ImplementMission, FinalReviewMission, AdvisoryMission, ReviewMission
<1>2. LinkTells(runs[r])
  BY <1>1 DEF RunHolds
<1> DEFINE notice == NoticeOf(runs[r])
<1>3. UntrustedIssueNotice(r) = notice /\ notice \in Notices /\ runs[r].objective \in Texts
  BY <1>2, NoticeRead
<1>4. \A told \in briefed[r] : told = notice
  BY <1>1 DEF MissionHolds
<1> HIDE DEF notice
<1>5. PICK kind \in MissionKinds : Give(r, kind, notice)
  BY <1>3, <1>4 DEF ImplementMission, FinalReviewMission, AdvisoryMission, ReviewMission, MissionKinds
<1> DEFINE words == [kind |-> kind, objective |-> runs[r].objective, notice |-> notice]
<1>6. words \in Missions /\ mission' = [mission EXCEPT ![r] = words]
  BY <1>3, <1>5 DEF Missions, Give, Mission
<1>7. /\ mission' \in [1 .. MaxRuns -> Missions]
      /\ \A n \in 1 .. MaxRuns : mission'[n] = IF n = r THEN words ELSE mission[n]
  BY <1>1, <1>6 DEF IInv, IssuesTypeOK
<1>8. /\ briefed' \in [1 .. MaxRuns -> SUBSET Notices]
      /\ \A n \in 1 .. MaxRuns : briefed'[n] \subseteq briefed[n] \cup (IF n = r THEN {notice} ELSE {})
  <2>1. briefed \in [1 .. MaxRuns -> SUBSET Notices]
    BY DEF IInv, IssuesTypeOK
  <2>2. briefed' \in {briefed, [briefed EXCEPT ![r] = briefed[r] \cup {notice}]}
    BY <1>3 DEF ImplementMission, FinalReviewMission, AdvisoryMission, ReviewMission
  <2> QED BY <1>1, <1>3, <2>1, <2>2
<1>9. UNCHANGED <<remotes, moved, issues, importer, runs, planner, preview, pull>>
  <2>1. UNCHANGED <<ElsewhereVars, runs, planner>>
    BY DEF ImplementMission, FinalReviewMission, AdvisoryMission, ReviewMission
  <2> QED BY <2>1 DEF ElsewhereVars
<1>10. UNCHANGED <<runs, moved, GithubRemote>> /\ Runs' = Runs
  BY <1>9 DEF GithubRemote, Runs
<1>11. ASSUME NEW n \in 1 .. MaxRuns PROVE PlannerHolds(n)' /\ MissionHolds(n)' /\ TextsHold(n)'
  <2>1. PlannerHolds(n) /\ MissionHolds(n) /\ TextsHold(n)
    BY DEF IInv, Holds
  <2>2. PlannerHolds(n)'
    BY <1>9, <1>10, <2>1 DEF PlannerHolds
  <2>3. MissionHolds(n)'
    BY <1>7, <1>8, <1>10, <2>1 DEF MissionHolds, notice
  <2>4. TextsHold(n)'
    BY <1>9, <1>10, <2>1 DEF TextsHold
  <2> QED BY <2>2, <2>3, <2>4
<1>12. /\ planner' \in [1 .. MaxRuns -> Plannings]
       /\ preview' \in [1 .. MaxRuns -> Pulls] /\ pull' \in [1 .. MaxRuns -> Pulls]
  BY <1>9 DEF IInv, IssuesTypeOK
<1>13. \A n \in 1 .. MaxRuns : planner[n].state = "none" => planner'[n].state = "none"
  BY <1>9
<1> HIDE DEF IInv
<1> QED BY <1>7, <1>8, <1>9, <1>11, <1>12, <1>13, ToldKeeps

(* A text that is shown, or that a pull request is made with, tells of its *)
(* run: now, and whatever is recorded of the run later.                    *)
LEMMA TextTells ==
  ASSUME IInv, NEW r \in Runs
  PROVE  PullRequestText(r) \in Pulls /\ TellsOf(PullRequestText(r), runs[r])
<1>1. runs[r] \in Rows /\ RunHolds(runs[r]) /\ GithubRemote \in Found
  BY RowsTyped DEF IInv, Holds
<1>2. runs[r].attempts \in Seq(Attempted) /\ runs[r].objective \in Texts /\ runs[r].link \in Fetched
  BY <1>1 DEF Rows
<1>3. PullRequestText(r) \in Pulls
  <2>1. runs[r].link.number \in Int
    BY <1>2 DEF Fetched
  <2> QED BY <1>1, <1>2, <2>1, TextTyped DEF PullRequestText, Pulls
<1>4. LinkTells(runs[r]) => runs[r].link.number = runs[r].objective.number
  BY DEF LinkTells, ObjectiveFromIssue
<1>5. runs[r].link.number \in {0, runs[r].objective.number}
      /\ (runs[r].status = "completed" => runs[r].link.number = runs[r].objective.number)
  BY <1>1, <1>4 DEF RunHolds, NoIssue
<1> QED BY <1>3, <1>5 DEF PullRequestText, TellsOf

LEMMA TextKeeps ==
  ASSUME IInv, NEW r \in Runs, PreviewPull(r) \/ MakePull(r) PROVE IInv'
<1>1. r \in 1 .. MaxRuns /\ GithubRemote \in Found
  BY RowsTyped DEF IInv
<1>2. /\ preview \in [1 .. MaxRuns -> Pulls] /\ pull \in [1 .. MaxRuns -> Pulls]
      /\ UNCHANGED <<remotes, moved, issues, importer, runs, planner, mission, briefed>>
  BY DEF IInv, IssuesTypeOK, PreviewPull, MakePull, TextVars
<1> DEFINE shown == PullRequestText(r)
<1>3. shown \in Pulls /\ TellsOf(shown, runs[r])
  BY TextTells
<1> HIDE DEF shown
<1>4. PICK text \in Pulls :
        /\ text = shown \/ (text = preview[r] /\ text # NoPull)
        /\ \/ preview' = [preview EXCEPT ![r] = shown] /\ UNCHANGED pull
           \/ /\ pull' = [pull EXCEPT ![r] = [text EXCEPT !.repository = GithubRemote]]
              /\ UNCHANGED preview
  BY <1>1, <1>2, <1>3 DEF PreviewPull, MakePull, shown
<1> DEFINE made == [text EXCEPT !.repository = GithubRemote]
<1>5. TellsOf(text, runs[r])
  BY <1>1, <1>3, <1>4 DEF IInv, Holds, TextsHold
<1>6. made \in Pulls /\ TellsOf(made, runs[r]) /\ made.repository = GithubRemote
  BY <1>1, <1>5 DEF Pulls, TellsOf
<1> HIDE DEF made
<1>7. /\ preview' \in [1 .. MaxRuns -> Pulls] /\ pull' \in [1 .. MaxRuns -> Pulls]
      /\ \A n \in 1 .. MaxRuns : preview'[n] = preview[n] \/ (n = r /\ preview'[n] = shown)
      /\ \A n \in 1 .. MaxRuns : pull'[n] = pull[n] \/ (n = r /\ pull'[n] = made)
  <2>1. CASE preview' = [preview EXCEPT ![r] = shown] /\ UNCHANGED pull
    BY <1>1, <1>2, <1>3, <2>1
  <2>2. CASE pull' = [pull EXCEPT ![r] = made] /\ UNCHANGED preview
    BY <1>1, <1>2, <1>6, <2>2
  <2> QED BY <1>4, <2>1, <2>2 DEF made
<1>8. UNCHANGED <<runs, moved, GithubRemote>> /\ Runs' = Runs
  BY <1>2 DEF GithubRemote, Runs
<1>9. ASSUME NEW n \in 1 .. MaxRuns PROVE PlannerHolds(n)' /\ MissionHolds(n)' /\ TextsHold(n)'
  <2>1. PlannerHolds(n) /\ MissionHolds(n) /\ TextsHold(n)
    BY DEF IInv, Holds
  <2>2. PlannerHolds(n)' /\ MissionHolds(n)'
    BY <1>2, <1>8, <2>1 DEF PlannerHolds, MissionHolds
  <2>3. TextsHold(n)'
    BY <1>3, <1>6, <1>7, <1>8, <2>1 DEF TextsHold
  <2> QED BY <2>2, <2>3
<1>10. /\ planner' \in [1 .. MaxRuns -> Plannings] /\ mission' \in [1 .. MaxRuns -> Missions]
       /\ briefed' \in [1 .. MaxRuns -> SUBSET Notices]
       /\ \A n \in 1 .. MaxRuns : planner[n].state = "none" => planner'[n].state = "none"
  BY <1>2 DEF IInv, IssuesTypeOK
<1> HIDE DEF IInv
<1> QED BY <1>2, <1>7, <1>9, <1>10, ToldKeeps

-----------------------------------------------------------------------------
(* Others, and the server.                                                 *)

(* An edited issue is fetched as it is from then on, no text that was      *)
(* fetched before changes, and once the remotes have moved nothing is said *)
(* of where they were.                                                     *)
LEMMA OthersKeep ==
  ASSUME IInv, EditIssue \/ SetRemotes \/ UNCHANGED IssueVars PROVE IInv'
<1>1. UNCHANGED <<importer, runs, planner, mission, briefed, preview, pull>>
  BY DEF EditIssue, SetRemotes, IssueVars
<1>2. issues' \in [AllIssues -> [edition : Nat, comments : Int]]
  <2>1. issues \in [AllIssues -> [edition : Nat, comments : Int]]
    BY DEF IInv, IssuesTypeOK
  <2>2. CASE EditIssue
    <3>1. PICK n \in AllIssues :
            issues' = [issues EXCEPT ![n].edition = @ + 1, ![n].comments = @ + 1]
      BY <2>2 DEF EditIssue
    <3>2. issues[n] \in [edition : Nat, comments : Int]
      BY <2>1
    <3>3. issues' = [issues EXCEPT ![n] = [edition |-> issues[n].edition + 1,
                                           comments |-> issues[n].comments + 1]]
      BY <2>1, <3>1, <3>2
    <3> QED BY <2>1, <3>2, <3>3
  <2> QED BY <2>1, <2>2 DEF SetRemotes, IssueVars
<1>3. /\ remotes' \in RemoteSets \cup {FirstRemotes} /\ moved' \in BOOLEAN
      /\ ~moved' => ~moved /\ UNCHANGED GithubRemote
  BY DEF EditIssue, SetRemotes, IssueVars, GithubRemote, IInv, IssuesTypeOK
<1>4. IssuesTypeOK'
  BY <1>1, <1>2, <1>3 DEF IInv, IssuesTypeOK, AllIssues
<1>5. Runs' = Runs
  BY <1>1 DEF Runs
<1>6. ASSUME NEW i \in Importers PROVE RequestHolds(importer[i])'
  <2>1. RequestHolds(importer[i])
    BY DEF IInv, Holds
  <2> QED BY <1>1, <1>3, <1>5, <2>1 DEF RequestHolds, Unplanned
<1>7. ASSUME NEW r \in Runs' PROVE (RunHolds(runs[r]) /\ OriginHolds(runs[r]))'
  <2>1. RunHolds(runs[r]) /\ OriginHolds(runs[r])
    BY <1>5 DEF IInv, Holds
  <2> QED BY <1>1, <1>3, <2>1 DEF RunHolds, OriginHolds
<1>8. ASSUME NEW r \in 1 .. MaxRuns PROVE (PlannerHolds(r) /\ MissionHolds(r) /\ TextsHold(r))'
  <2>1. PlannerHolds(r) /\ MissionHolds(r) /\ TextsHold(r)
    BY DEF IInv, Holds
  <2> QED BY <1>1, <1>3, <1>5, <2>1 DEF PlannerHolds, MissionHolds, TextsHold
<1>9. Apart'
  BY <1>1 DEF IInv, Holds, Apart, HasRun
<1> QED BY <1>4, <1>6, <1>7, <1>8, <1>9 DEF IInv, Holds

(* A stop loses what the importers and the planners had in hand, so that   *)
(* no run without its link is planned any more.                            *)
LEMMA StopKeeps ==
  ASSUME IInv, StopServer PROVE IInv'
<1>1. runs \in Seq(Rows) /\ Len(runs) \in Nat /\ \A n \in Runs : runs[n] \in Rows /\ RunHolds(runs[n])
  BY RowsTyped DEF IInv, IssuesTypeOK, Holds
<1> DEFINE row(n) == IF runs[n].status \in {"planning", "active"}
                     THEN [runs[n] EXCEPT !.status = "failed"] ELSE runs[n]
<1>2. ASSUME NEW n \in Runs PROVE row(n) \in Rows /\ Follows(runs[n], row(n))
  <2>1. CASE runs[n].status \in {"planning", "active"}
    <3>1. /\ row(n) \in Rows /\ row(n).objective = runs[n].objective /\ row(n).asked = runs[n].asked
          /\ row(n).origin = runs[n].origin /\ row(n).link = runs[n].link
          /\ row(n).planned = runs[n].planned /\ row(n).status = "failed"
          /\ row(n).attempts = runs[n].attempts
      BY <1>1, <2>1 DEF Statuses, Rows
    <3> HIDE DEF row
    <3> QED BY <1>1, <2>1, <3>1 DEF Follows, RunHolds, LinkTells
  <2>2. CASE runs[n].status \notin {"planning", "active"}
    BY <1>1, <2>2, FollowsItself
  <2> QED BY <2>1, <2>2
<1>3. runs' = [n \in 1 .. Len(runs) |-> row(n)]
  BY DEF StopServer, Runs
<1> HIDE DEF row
<1>4. /\ runs' \in Seq(Rows) /\ Len(runs') = Len(runs)
      /\ \A n \in Runs : runs'[n] = row(n)
  <2>1. \A n \in 1 .. Len(runs) : row(n) \in Rows
    BY <1>2 DEF Runs
  <2> QED BY <1>1, <1>3, <2>1, IsASeq, LenProperties DEF Runs
<1>5. \A n \in Runs : Follows(runs[n], runs'[n])
  BY <1>2, <1>4
<1>6. importer' \in [Importers -> Requests] /\ \A i \in Importers : importer'[i] = NoImport
  BY NothingTyped DEF StopServer
<1>7. (\A i \in Importers : RequestHolds(importer[i]))' /\ Apart'
  BY <1>6 DEF RequestHolds, Apart, HasRun, NoImport
<1>8. /\ planner' \in [1 .. MaxRuns -> Plannings] /\ \A r \in 1 .. MaxRuns : PlannerHolds(r)'
      /\ briefed' \in [1 .. MaxRuns -> SUBSET Notices]
      /\ \A r \in 1 .. MaxRuns : briefed'[r] \subseteq briefed[r]
  BY NothingTyped DEF StopServer, PlannerHolds, NoPlanning
<1>9. UNCHANGED <<remotes, moved, issues, mission, preview, pull>>
  BY DEF StopServer
<1> HIDE DEF IInv
<1> QED BY <1>4, <1>5, <1>6, <1>7, <1>8, <1>9, RowsKept

LEMMA IssuesStep == IInv /\ [IssuesNext]_IssueVars => IInv'
<1> SUFFICES ASSUME IInv, [IssuesNext]_IssueVars PROVE IInv'
  OBVIOUS
<1>1. CASE \E i \in Importers : ImportStep(i)
  <2>1. PICK i \in Importers : ImportStep(i)
    BY <1>1
  <2>2. CASE StatementFails(i)
    BY <2>2, DismissKeeps DEF StatementFails
  <2> QED BY <2>1, <2>2, AskKeeps, FindKeeps, ViewKeeps, InsertKeeps, LinkKeeps, SpawnKeeps
          DEF ImportStep
<1>2. CASE \E r \in Runs : RunStep(r)
  <2>1. PICK r \in Runs : RunStep(r)
    BY <1>2
  <2> QED BY <2>1, PlannerToldKeeps, PlannerEndKeeps, ExecutionKeeps, TaskMissionKeeps, TextKeeps
          DEF RunStep
<1>3. CASE StopServer
  BY <1>3, StopKeeps
<1>4. CASE EditIssue \/ SetRemotes \/ UNCHANGED IssueVars
  BY <1>4, OthersKeep
<1> QED BY <1>1, <1>2, <1>3, <1>4 DEF IssuesNext

(* What is known of a run, an import and a planner agrees at every moment: *)
(* of create_run_from_issue, plan_run and the missions of a run.           *)
THEOREM IssuesHold == IssuesSpec => []IInv
  BY IssuesBegin, IssuesStep, PTL DEF IssuesSpec

LEMMA PullsHold ==
  ASSUME IInv PROVE PullsTell
<1> SUFFICES ASSUME NEW r \in Runs, pull[r] # NoPull
             PROVE  LET text == pull[r]
                        recorded == Recorded(runs[r].attempts)
                        approved == {a \in recorded : a.status = "approved"}
                    IN  /\ text.closes \in {0, runs[r].objective.number}
                        /\ (text.closes # 0 /\ ~moved) => text.repository = runs[r].origin
                        /\ \A line \in text.reviews :
                             line[2] => \E a \in recorded :
                                          \/ a.review = "approve"
                                          \/ a.operation = "review" /\ a.role = line[1] /\ a \in approved
                        /\ \A c \in text.commands : \E a \in approved : c \in a.commands
                        /\ text.eligible =>
                             /\ text.closes = runs[r].objective.number
                             /\ \A a \in recorded :
                                  /\ a.review = "request_changes" => <<"reviewer", FALSE>> \in text.reviews
                                  /\ (a.operation = "review" /\ a \notin approved)
                                        => <<a.role, FALSE>> \in text.reviews
  BY DEF PullsTell
<1> DEFINE text == pull[r]
           recorded == Recorded(runs[r].attempts)
           approved == {a \in recorded : a.status = "approved"}
<1>1. r \in 1 .. MaxRuns /\ TextsHold(r) /\ OriginHolds(runs[r])
  BY RowsTyped DEF IInv, Holds
<1>2. TellsOf(text, runs[r]) /\ (~moved => text.repository = GithubRemote)
  BY <1>1 DEF TextsHold
<1>3. text.closes \in {0, runs[r].objective.number}
      /\ (text.eligible => text.closes = runs[r].objective.number)
  BY <1>2 DEF TellsOf
<1>4. (text.closes # 0 /\ ~moved) => text.repository = runs[r].origin
  BY <1>1, <1>2, <1>3 DEF OriginHolds
<1>5. ASSUME NEW line \in text.reviews, line[2]
      PROVE  \E a \in recorded : \/ a.review = "approve"
                                 \/ a.operation = "review" /\ a.role = line[1] /\ a \in approved
  <2>1. PICK a \in recorded : line \in LinesOf(a)
    BY <1>2, <1>5 DEF TellsOf, Reviews
  <2>2. \/ a.operation = "review" /\ line = <<a.role, a.status = "approved">>
        \/ line = <<"reviewer", a.review = "approve">>
    BY <2>1 DEF LinesOf
  <2>3. CASE a.operation = "review" /\ line = <<a.role, a.status = "approved">>
    <3>1. line[1] = a.role /\ line[2] = (a.status = "approved")
      BY <2>3
    <3> QED BY <1>5, <2>3, <3>1
  <2>4. CASE line = <<"reviewer", a.review = "approve">>
    <3>1. line[2] = (a.review = "approve")
      BY <2>4
    <3> QED BY <1>5, <3>1
  <2> QED BY <2>2, <2>3, <2>4
<1>6. \A c \in text.commands : \E a \in approved : c \in a.commands
  BY <1>2 DEF TellsOf, VerificationCommands
<1>7. ASSUME text.eligible, NEW a \in recorded
      PROVE  /\ a.review = "request_changes" => <<"reviewer", FALSE>> \in text.reviews
             /\ (a.operation = "review" /\ a \notin approved) => <<a.role, FALSE>> \in text.reviews
  <2>1. LinesOf(a) \subseteq text.reviews
    BY <1>2, <1>7 DEF TellsOf, Reviews
  <2>2. ASSUME a.review = "request_changes" PROVE <<"reviewer", FALSE>> \in text.reviews
    <3>1. a.review # "none" /\ (a.review = "approve") = FALSE
      BY <2>2
    <3> QED BY <2>1, <3>1 DEF LinesOf
  <2>3. ASSUME a.operation = "review", a \notin approved PROVE <<a.role, FALSE>> \in text.reviews
    <3>1. (a.status = "approved") = FALSE
      BY <2>3
    <3> QED BY <2>1, <2>3, <3>1 DEF LinesOf
  <2> QED BY <2>2, <2>3
<1> QED BY <1>3, <1>4, <1>5, <1>6, <1>7

(* Every mission with an issue's text has the notice of that very issue,   *)
(* and no other has one; a stored link is of the text its run's objective  *)
(* is, and a run with a plan has it; an import is of the issue that was    *)
(* asked for; and a pull request shows what its run's attempts recorded.   *)
THEOREM IssuesAreSound == IssuesSpec => []IssuesSound
<1>1. IInv => MissionsMarked
  <2> SUFFICES ASSUME IInv, NEW r \in Runs, mission[r] # NoMission
               PROVE  mission[r].objective = runs[r].objective /\ mission[r].notice = NoticeOf(runs[r])
    BY DEF MissionsMarked
  <2> QED BY RowsTyped DEF IInv, Holds, MissionHolds
<1>2. IInv => LinksTell /\ ImportsAsked
  BY DEF IInv, Holds, RunHolds, LinksTell, ImportsAsked
<1>3. IInv => IssuesSound
  BY <1>1, <1>2, PullsHold DEF IssuesSound
<1> QED BY <1>3, IssuesHold, PTL

-----------------------------------------------------------------------------
(***************************************************************************)
(* A dashboard tab is refused for good only for cause.                     *)
(***************************************************************************)

Phases == {"idle", "ready", "establish", "posted", "issued", "sent", "failed"}
Session == [boot : Nat, issued : Nat]
Cookies == [session : Session, csrf : Nat, until : Nat]
Request == [host : {Server}, origin : SUBSET Origins, session : Session, csrf : Nat, header : Nat,
            mutating : BOOLEAN]
Tab == [phase : Phases, origin : Origins, mutating : BOOLEAN, attempt : {0, 1}, memory : Nat,
        request : Request, answer : Cookies]

SessionTypeOK ==
  /\ now \in Nat /\ boot \in Nat \ {0} /\ tokens \in Nat
  /\ cookies \in Cookies
  /\ tab \in [Tabs -> Tab]
  /\ disturbed \in [Tabs -> BOOLEAN]

(* The browser keeps a session's cookies at least as long as the server    *)
(* honours it, and never a session without a token.                        *)
CookiesLast ==
  cookies.session # Nothing => cookies.csrf # 0 /\ cookies.session.issued + Lifetime =< cookies.until
(* An answer carries a token: the one it was asked with, if there was one. *)
AnswersCarry ==
  \A t \in Tabs : tab[t].phase = "issued" =>
    /\ tab[t].answer.csrf # 0
    /\ tab[t].request.csrf # 0 => tab[t].answer.csrf = tab[t].request.csrf
    /\ tab[t].answer.session # Nothing /\ tab[t].answer.session.issued =< now
(* While nothing has disturbed it, the session a tab was answered with is  *)
(* good, and so is what it sends the second time.                          *)
GoodToSend(m, s, csrf, header) == ValidateSession(s) /\ (m => csrf # 0 /\ header = csrf)
UndisturbedIsGood ==
  \A t \in Tabs : ~disturbed[t] =>
    /\ tab[t].phase = "issued" => ValidateSession(tab[t].answer.session)
    /\ tab[t].phase = "ready" /\ tab[t].attempt = 1 =>
         GoodToSend(tab[t].mutating, cookies.session, cookies.csrf, tab[t].memory)
    /\ tab[t].phase = "sent" /\ tab[t].attempt = 1 =>
         GoodToSend(tab[t].request.mutating, tab[t].request.session, tab[t].request.csrf, tab[t].request.header)
    /\ tab[t].phase # "failed"

SessionInv == SessionTypeOK /\ CookiesLast /\ AnswersCarry /\ UndisturbedIsGood

LEMMA Nobody == /\ Nothing \in Session /\ NoCookies \in Cookies /\ NoRequest \in Request
                /\ Lifetime \in Nat \ {0} /\ NoCookies.session = Nothing /\ Nothing.boot = 0
  BY SessionAssumption DEF Nothing, NoCookies, NoRequest, Session, Cookies, Request

LEMMA InitSessions == SessionInit => SessionInv
<1> SUFFICES ASSUME SessionInit PROVE SessionInv
  OBVIOUS
<1>1. SessionTypeOK
  <2>1. \A o \in Origins :
          [phase |-> "idle", origin |-> o, mutating |-> FALSE, attempt |-> 0, memory |-> 0,
           request |-> NoRequest, answer |-> NoCookies] \in Tab
    BY Nobody DEF Tab, Phases
  <2>2. tab \in [Tabs -> Tab]
    BY <2>1 DEF SessionInit
  <2> QED BY <2>2, Nobody DEF SessionInit, SessionTypeOK
<1>2. CookiesLast
  BY Nobody DEF SessionInit, CookiesLast
<1>3. \A t \in Tabs : tab[t].phase = "idle"
  BY DEF SessionInit
<1> QED BY <1>1, <1>2, <1>3 DEF SessionInv, AnswersCarry, UndisturbedIsGood

(* The request a tab makes of the cookies there are.                       *)
LEMMA CarryIs ==
  ASSUME SessionTypeOK, NEW t \in Tabs, NEW h \in Nat
  PROVE  /\ Carry(t, h) \in Request
         /\ Carry(t, h).session = cookies.session /\ Carry(t, h).csrf = cookies.csrf
         /\ Carry(t, h).header = h /\ Carry(t, h).mutating = tab[t].mutating
  BY DEF SessionTypeOK, Carry, Request, Tab, Cookies

(* What one tab does with itself leaves the others as they are.            *)
LEMMA OneTab ==
  ASSUME SessionInv, NEW t \in Tabs, NEW x \in Tab, tab' = [tab EXCEPT ![t] = x],
         UNCHANGED <<now, boot, cookies>>, tokens' \in Nat,
         disturbed' \in [Tabs -> BOOLEAN], \A u \in Tabs : u # t => disturbed'[u] = disturbed[u],
         x.phase = "issued" => /\ x.answer.csrf # 0
                               /\ x.request.csrf # 0 => x.answer.csrf = x.request.csrf
                               /\ x.answer.session # Nothing /\ x.answer.session.issued =< now,
         ~disturbed'[t] =>
           /\ x.phase = "issued" => ValidateSession(x.answer.session)
           /\ x.phase = "ready" /\ x.attempt = 1 => GoodToSend(x.mutating, cookies.session, cookies.csrf, x.memory)
           /\ x.phase = "sent" /\ x.attempt = 1 =>
                GoodToSend(x.request.mutating, x.request.session, x.request.csrf, x.request.header)
           /\ x.phase # "failed"
  PROVE  SessionInv'
<1> USE DEF SessionInv
<1>1. tab' \in [Tabs -> Tab] /\ tab'[t] = x /\ \A u \in Tabs : u # t => tab'[u] = tab[u]
  BY DEF SessionTypeOK
<1>2. SessionTypeOK'
  BY <1>1 DEF SessionTypeOK
<1>3. CookiesLast'
  BY DEF CookiesLast
<1>4. AnswersCarry'
  BY <1>1 DEF AnswersCarry
<1>5. UndisturbedIsGood'
  BY <1>1 DEF UndisturbedIsGood, GoodToSend, ValidateSession
<1> QED BY <1>2, <1>3, <1>4, <1>5

LEMMA TabKeeps ==
  ASSUME SessionInv, NEW t \in Tabs,
         Begin(t) \/ EstablishSession(t) \/ IssueBrowserSession(t) \/ Fetch(t) \/ Answered(t) \/ Refresh(t)
  PROVE  SessionInv'
<1> USE DEF SessionInv, Stay
<1>0. /\ tab[t] \in Tab /\ disturbed \in [Tabs -> BOOLEAN] /\ tokens \in Nat /\ now \in Nat /\ tab \in [Tabs -> Tab]
      /\ boot \in Nat \ {0}
  BY DEF SessionTypeOK
<1>1. CASE Begin(t)
  <2>1. PICK m \in BOOLEAN :
          tab' = [tab EXCEPT ![t].phase = IF m /\ tab[t].memory = 0 THEN "establish" ELSE "ready",
                             ![t].mutating = m, ![t].attempt = 0]
    BY <1>1 DEF Begin
  <2> DEFINE x == [tab[t] EXCEPT !.phase = IF m /\ tab[t].memory = 0 THEN "establish" ELSE "ready",
                                 !.mutating = m, !.attempt = 0]
  <2>2. tab' = [tab EXCEPT ![t] = x]
    BY <1>0, <2>1
  <2>3. x \in Tab /\ x.phase \notin {"issued", "sent", "failed"} /\ x.attempt # 1
    <3> DEFINE p == IF m /\ tab[t].memory = 0 THEN "establish" ELSE "ready"
    <3>1. p \in Phases /\ p \notin {"issued", "sent", "failed"}
      BY DEF Phases
    <3> HIDE DEF p
    <3>2. /\ [tab[t] EXCEPT !.phase = p, !.mutating = m, !.attempt = 0] \in Tab
          /\ [tab[t] EXCEPT !.phase = p, !.mutating = m, !.attempt = 0].phase = p
          /\ [tab[t] EXCEPT !.phase = p, !.mutating = m, !.attempt = 0].attempt = 0
      BY <1>0, <3>1 DEF Tab
    <3> QED BY <3>1, <3>2 DEF p
  <2>4. /\ disturbed' \in [Tabs -> BOOLEAN] /\ \A u \in Tabs : u # t => disturbed'[u] = disturbed[u]
        /\ UNCHANGED <<now, boot, cookies>> /\ tokens' \in Nat
    BY <1>0, <1>1 DEF Begin
  <2> HIDE DEF x
  <2> QED BY <1>0, <2>2, <2>3, <2>4, OneTab
<1>2. CASE EstablishSession(t)
  <2> DEFINE x == [tab[t] EXCEPT !.phase = "posted", !.request = Carry(t, 0)]
  <2>2. tab' = [tab EXCEPT ![t] = x]
    BY <1>0, <1>2 DEF EstablishSession
  <2>3. x \in Tab /\ x.phase = "posted"
    BY <1>0, CarryIs DEF Tab, Phases
  <2> HIDE DEF x
  <2> QED BY <1>0, <1>2, <2>2, <2>3, OneTab DEF EstablishSession
<1>3. CASE IssueBrowserSession(t)
  <2> DEFINE r == tab[t].request
             i == IssueSession(r)
             a == [session |-> i.session, csrf |-> i.csrf, until |-> now + Lifetime]
             x == [tab[t] EXCEPT !.phase = "issued", !.answer = a]
  <2>1. r \in Request /\ r.csrf \in Nat
    BY <1>0 DEF Tab, Request
  <2>2. /\ i.session = [boot |-> boot, issued |-> now] /\ i.csrf = IF r.csrf # 0 THEN r.csrf ELSE tokens + 1
        /\ i.csrf \in Nat \ {0}
    BY <1>0, <2>1 DEF IssueSession
  <2>3. a \in Cookies /\ a.csrf = i.csrf /\ a.session = i.session /\ a.session # Nothing /\ a.session.issued = now
        /\ ValidateSession(a.session)
    BY <1>0, <2>2, Nobody DEF Cookies, Session, Nothing, ValidateSession
  <2>4. tab' = [tab EXCEPT ![t] = x] /\ tokens' \in Nat /\ UNCHANGED <<now, boot, cookies, disturbed>>
    BY <1>0, <1>3, <2>2 DEF IssueBrowserSession
  <2> HIDE DEF a, i
  <2>5. x \in Tab /\ x.phase = "issued" /\ x.answer = a /\ x.request = r
    BY <1>0, <2>3 DEF Tab, Phases
  <2>6. /\ x.answer.csrf # 0 /\ (x.request.csrf # 0 => x.answer.csrf = x.request.csrf)
        /\ x.answer.session # Nothing /\ x.answer.session.issued =< now /\ ValidateSession(x.answer.session)
    BY <1>0, <2>2, <2>3, <2>5
  <2>7. x \in Tab /\ x.phase = "issued"
    BY <2>5
  <2> HIDE DEF x, r
  <2> QED BY <1>0, <2>4, <2>6, <2>7, OneTab
<1>4. CASE Fetch(t)
  <2> DEFINE x == [tab[t] EXCEPT !.phase = "sent", !.request = Carry(t, tab[t].memory)]
  <2>2. tab' = [tab EXCEPT ![t] = x]
    BY <1>0, <1>4 DEF Fetch
  <2>3. tab[t].memory \in Nat
    BY <1>0 DEF Tab
  <2>4. x \in Tab /\ x.phase = "sent" /\ x.attempt = tab[t].attempt /\ x.request = Carry(t, tab[t].memory)
    BY <1>0, <2>3, CarryIs DEF Tab, Phases
  <2>5. ~disturbed[t] /\ x.attempt = 1 =>
          GoodToSend(x.request.mutating, x.request.session, x.request.csrf, x.request.header)
    BY <1>4, <2>3, <2>4, CarryIs DEF Fetch, UndisturbedIsGood
  <2> HIDE DEF x
  <2> QED BY <1>0, <1>4, <2>2, <2>4, <2>5, OneTab DEF Fetch
<1>5. CASE Answered(t)
  <2>1. CASE EnforceSecurity(tab[t].request) = "ok"
    <3> DEFINE x == [tab[t] EXCEPT !.phase = "idle", !.request = NoRequest]
    <3>2. tab' = [tab EXCEPT ![t] = x]
      BY <1>0, <1>5, <2>1 DEF Answered, To
    <3>3. x \in Tab /\ x.phase = "idle"
      BY <1>0, Nobody DEF Tab, Phases
    <3> HIDE DEF x
    <3> QED BY <1>0, <1>5, <3>2, <3>3, OneTab DEF Answered
  <2>2. CASE EnforceSecurity(tab[t].request) # "ok" /\ tab[t].attempt = 0
    <3> DEFINE x == [tab[t] EXCEPT !.phase = "establish", !.attempt = 1, !.memory = 0, !.request = NoRequest]
    <3>2. tab' = [tab EXCEPT ![t] = x]
      BY <1>0, <1>5, <2>2 DEF Answered
    <3>3. x \in Tab /\ x.phase = "establish"
      BY <1>0, Nobody DEF Tab, Phases
    <3> HIDE DEF x
    <3> QED BY <1>0, <1>5, <3>2, <3>3, OneTab DEF Answered
  <2>3. CASE EnforceSecurity(tab[t].request) # "ok" /\ tab[t].attempt # 0
    <3> DEFINE x == [tab[t] EXCEPT !.phase = "failed", !.request = NoRequest]
               r == tab[t].request
    <3>1. disturbed[t]
      <4> SUFFICES ASSUME ~disturbed[t] PROVE FALSE
        BY <1>0
      <4>1. tab[t].attempt = 1 /\ tab[t].phase = "sent" /\ r \in Request
        BY <1>0, <1>5, <2>3 DEF Tab, Answered
      <4>2. ValidateSession(r.session) /\ (r.mutating => r.csrf # 0 /\ r.header = r.csrf)
        BY <4>1 DEF UndisturbedIsGood, GoodToSend
      <4>3. r.host = Server /\ r.host.host \in Loopback
        BY <4>1 DEF Request, Server, Loopback
      <4>4. \A o \in r.origin : OriginAllowed(o, r.host)
        BY <4>1, <4>3, OriginsAssumption DEF Request
      <4> HIDE DEF r
      <4>5. EnforceSecurity(r) = "ok"
        BY <4>2, <4>3, <4>4 DEF EnforceSecurity
      <4> QED BY <2>3, <4>5 DEF r
    <3>2. tab' = [tab EXCEPT ![t] = x]
      BY <1>0, <1>5, <2>3 DEF Answered, To
    <3>3. x \in Tab /\ x.phase = "failed"
      BY <1>0, Nobody DEF Tab, Phases
    <3> HIDE DEF x
    <3> QED BY <1>0, <1>5, <3>1, <3>2, <3>3, OneTab DEF Answered
  <2> QED BY <2>1, <2>2, <2>3
<1>6. CASE Refresh(t)
  <2> DEFINE x == [tab[t] EXCEPT !.phase = "establish", !.memory = 0, !.mutating = FALSE, !.attempt = 0]
  <2>2. tab' = [tab EXCEPT ![t] = x]
    BY <1>0, <1>6 DEF Refresh
  <2>3. x \in Tab /\ x.phase = "establish"
    BY <1>0 DEF Tab, Phases
  <2> HIDE DEF x
  <2> QED BY <1>0, <1>6, <2>2, <2>3, OneTab DEF Refresh
<1> QED BY <1>1, <1>2, <1>3, <1>4, <1>5, <1>6

(* The cookies of one tab become everybody's.                              *)
LEMMA TakeKeeps ==
  ASSUME SessionInv, NEW t \in Tabs, TakeSession(t)
  PROVE  SessionInv'
<1> USE DEF SessionInv
<1> DEFINE a == tab[t].answer
           c == [a EXCEPT !.until = now + Lifetime]
           x == [tab[t] EXCEPT !.phase = "ready", !.memory = a.csrf, !.request = NoRequest, !.answer = NoCookies]
<1>0. /\ tab[t] \in Tab /\ disturbed \in [Tabs -> BOOLEAN] /\ tokens \in Nat /\ now \in Nat /\ tab \in [Tabs -> Tab]
      /\ boot \in Nat \ {0} /\ a \in Cookies /\ a.csrf \in Nat /\ Lifetime \in Nat \ {0} /\ a.session \in Session
  BY Nobody DEF SessionTypeOK, Tab, Cookies
<1>1. /\ tab[t].phase = "issued" /\ cookies' = c /\ tab' = [tab EXCEPT ![t] = x]
      /\ UNCHANGED <<now, boot, tokens>>
      /\ disturbed' = [u \in Tabs |-> disturbed[u] \/ (u # t /\ (tab[t].request.csrf # cookies.csrf \/ ~ValidateSession(a.session)))]
  BY <1>0 DEF TakeSession
<1>2. c \in Cookies /\ c.session = a.session /\ c.csrf = a.csrf /\ c.until = now + Lifetime
  BY <1>0 DEF Cookies
<1>3. x \in Tab /\ x.phase = "ready" /\ x.memory = a.csrf
  BY <1>0, Nobody DEF Tab, Phases
<1>4. /\ a.csrf # 0 /\ a.session # Nothing /\ a.session.issued =< now
      /\ tab[t].request.csrf # 0 => a.csrf = tab[t].request.csrf
  BY <1>1 DEF AnswersCarry
<1> HIDE DEF x, c, a
<1>5. tab' \in [Tabs -> Tab] /\ tab'[t] = x /\ \A u \in Tabs : u # t => tab'[u] = tab[u]
  BY <1>0, <1>1, <1>3
<1>6. SessionTypeOK'
  BY <1>0, <1>1, <1>2, <1>5 DEF SessionTypeOK
<1>7. CookiesLast'
  BY <1>0, <1>1, <1>2, <1>4 DEF CookiesLast, Session
<1>8. AnswersCarry'
  BY <1>1, <1>3, <1>5 DEF AnswersCarry
<1>9. ASSUME NEW u \in Tabs, ~disturbed'[u]
      PROVE  /\ tab'[u].phase = "issued" => ValidateSession(tab[u].answer.session)'
             /\ tab'[u].phase = "ready" /\ tab'[u].attempt = 1 =>
                  GoodToSend(tab[u].mutating, cookies.session, cookies.csrf, tab[u].memory)'
             /\ tab'[u].phase = "sent" /\ tab'[u].attempt = 1 =>
                  GoodToSend(tab[u].request.mutating, tab[u].request.session, tab[u].request.csrf, tab[u].request.header)'
             /\ tab'[u].phase # "failed"
  <2>1. ~disturbed[u]
    BY <1>1, <1>9
  <2>2. CASE u = t
    <3>1. ValidateSession(a.session)
      BY <1>1, <2>1, <2>2 DEF UndisturbedIsGood, a
    <3> QED BY <1>1, <1>2, <1>3, <1>4, <1>5, <2>2, <3>1 DEF GoodToSend, ValidateSession
  <2>3. CASE u # t
    <3>1. tab[t].request.csrf = cookies.csrf /\ ValidateSession(a.session)
      BY <1>1, <1>9, <2>3
    <3>2. tab'[u] = tab[u]
      BY <1>5, <2>3
    <3>3. /\ tab[u].phase = "issued" => ValidateSession(tab[u].answer.session)
          /\ tab[u].phase = "ready" /\ tab[u].attempt = 1 =>
               GoodToSend(tab[u].mutating, cookies.session, cookies.csrf, tab[u].memory)
          /\ tab[u].phase = "sent" /\ tab[u].attempt = 1 =>
               GoodToSend(tab[u].request.mutating, tab[u].request.session, tab[u].request.csrf, tab[u].request.header)
          /\ tab[u].phase # "failed"
      BY <2>1 DEF UndisturbedIsGood
    <3>4. tab[u].phase = "issued" => ValidateSession(tab[u].answer.session)'
      BY <1>1, <3>2, <3>3 DEF ValidateSession
    <3>5. ASSUME tab[u].phase = "ready" /\ tab[u].attempt = 1
          PROVE  GoodToSend(tab[u].mutating, cookies.session, cookies.csrf, tab[u].memory)'
      <4>1. tab[u].mutating => cookies.csrf # 0 /\ tab[u].memory = cookies.csrf
        BY <3>3, <3>5 DEF GoodToSend
      <4>2. cookies.csrf # 0 => a.csrf = cookies.csrf
        BY <1>4, <3>1
      <4>3. cookies'.session.boot = boot' /\ now' < cookies'.session.issued + Lifetime
        BY <1>1, <1>2, <3>1 DEF ValidateSession
      <4> QED BY <1>1, <1>2, <3>2, <4>1, <4>2, <4>3 DEF GoodToSend, ValidateSession
    <3>6. tab[u].phase = "sent" /\ tab[u].attempt = 1 =>
               GoodToSend(tab[u].request.mutating, tab[u].request.session, tab[u].request.csrf, tab[u].request.header)'
      BY <1>1, <3>2, <3>3 DEF GoodToSend, ValidateSession
    <3> QED BY <3>2, <3>3, <3>4, <3>5, <3>6
  <2> QED BY <2>2, <2>3
<1>10. UndisturbedIsGood'
  BY <1>9 DEF UndisturbedIsGood
<1> QED BY <1>6, <1>7, <1>8, <1>10

(* The clock, and the server's restart.                                    *)
LEMMA ClockKeeps == ASSUME SessionInv, SecondPasses PROVE SessionInv'
<1> USE DEF SessionInv
<1> DEFINE known == {cookies.session} \cup {tab[t].request.session : t \in Tabs} \cup {tab[t].answer.session : t \in Tabs}
<1>0. /\ disturbed \in [Tabs -> BOOLEAN] /\ tokens \in Nat /\ now \in Nat /\ tab \in [Tabs -> Tab] /\ boot \in Nat \ {0}
      /\ cookies \in Cookies /\ cookies.session \in Session /\ Lifetime \in Nat \ {0} /\ cookies.until \in Nat
      /\ \A t \in Tabs : tab[t] \in Tab /\ tab[t].request.session \in Session /\ tab[t].answer.session \in Session
  BY Nobody DEF SessionTypeOK, Tab, Cookies, Request
<1>1. /\ now' = now + 1 /\ UNCHANGED <<boot, tokens, tab>>
      /\ cookies' = IF cookies.until =< now' THEN NoCookies ELSE cookies
      /\ IF \E s \in known : s # Nothing /\ now' >= s.issued + Lifetime THEN AllDisturbed ELSE UNCHANGED disturbed
  BY DEF SecondPasses
<1>2. SessionTypeOK'
  <2>1. disturbed' \in [Tabs -> BOOLEAN]
    BY <1>0, <1>1 DEF AllDisturbed
  <2>2. cookies' \in Cookies
    BY <1>0, <1>1, Nobody
  <2> HIDE DEF known
  <2> QED BY <1>0, <1>1, <2>1, <2>2 DEF SessionTypeOK
<1>3. CookiesLast'
  BY <1>0, <1>1, Nobody DEF CookiesLast
<1>4. AnswersCarry'
  BY <1>0, <1>1 DEF AnswersCarry, Tab, Cookies, Session
<1>5. CASE AllDisturbed
  <2>1. UndisturbedIsGood'
    BY <1>5 DEF AllDisturbed, UndisturbedIsGood
  <2> QED BY <1>2, <1>3, <1>4, <2>1
<1>6. CASE ~(\E s \in known : s # Nothing /\ now' >= s.issued + Lifetime)
  <2>1. UNCHANGED disturbed
    BY <1>1, <1>6
  <2>2. ASSUME NEW s \in known, s \in Session, ValidateSession(s)
        PROVE  s # Nothing /\ now' < s.issued + Lifetime /\ ValidateSession(s)'
    <3>1. s # Nothing
      BY <1>0, <2>2, Nobody DEF ValidateSession
    <3>2. ~(now' >= s.issued + Lifetime)
      BY <1>6, <2>2, <3>1
    <3>3. s.issued \in Nat /\ now' \in Nat
      BY <1>0, <1>1, <2>2 DEF Session
    <3>4. now' < s.issued + Lifetime
      BY <1>0, <3>2, <3>3
    <3> QED BY <1>1, <2>2, <3>1, <3>4 DEF ValidateSession
  <2>3. ValidateSession(cookies.session) => cookies' = cookies
    <3> SUFFICES ASSUME ValidateSession(cookies.session) PROVE ~(cookies.until =< now')
      BY <1>1
    <3>1. cookies.session # Nothing /\ now' < cookies.session.issued + Lifetime
      BY <1>0, <2>2
    <3>2. cookies.session.issued + Lifetime =< cookies.until /\ cookies.session.issued \in Nat
      BY <1>0, <3>1 DEF CookiesLast, Session
    <3> QED BY <1>0, <1>1, <3>1, <3>2
  <2>4. ASSUME NEW u \in Tabs, ~disturbed[u]
        PROVE  /\ tab[u].phase = "issued" => ValidateSession(tab[u].answer.session)'
               /\ tab[u].phase = "ready" /\ tab[u].attempt = 1 =>
                    GoodToSend(tab[u].mutating, cookies.session, cookies.csrf, tab[u].memory)'
               /\ tab[u].phase = "sent" /\ tab[u].attempt = 1 =>
                    GoodToSend(tab[u].request.mutating, tab[u].request.session, tab[u].request.csrf, tab[u].request.header)'
               /\ tab[u].phase # "failed"
    <3>1. {tab[u].answer.session, tab[u].request.session, cookies.session} \subseteq known
      OBVIOUS
    <3> HIDE DEF known
    <3>2. tab[u].phase = "issued" => ValidateSession(tab[u].answer.session)'
      BY <1>0, <1>1, <2>2, <2>4, <3>1 DEF UndisturbedIsGood, ValidateSession
    <3>3. tab[u].phase = "ready" /\ tab[u].attempt = 1 =>
            GoodToSend(tab[u].mutating, cookies.session, cookies.csrf, tab[u].memory)'
      BY <1>0, <1>1, <2>2, <2>3, <2>4, <3>1 DEF UndisturbedIsGood, GoodToSend, ValidateSession
    <3>4. tab[u].phase = "sent" /\ tab[u].attempt = 1 =>
            GoodToSend(tab[u].request.mutating, tab[u].request.session, tab[u].request.csrf, tab[u].request.header)'
      BY <1>0, <1>1, <2>2, <2>4, <3>1 DEF UndisturbedIsGood, GoodToSend, ValidateSession
    <3>5. tab[u].phase # "failed"
      BY <2>4 DEF UndisturbedIsGood
    <3> QED BY <3>2, <3>3, <3>4, <3>5
  <2>5. UndisturbedIsGood'
    BY <1>1, <2>1, <2>4 DEF UndisturbedIsGood
  <2> QED BY <1>2, <1>3, <1>4, <2>5
<1> QED BY <1>1, <1>5, <1>6

LEMMA RestartKeeps == ASSUME SessionInv, ServerRestarts PROVE SessionInv'
<1> USE DEF SessionInv, ServerRestarts, AllDisturbed
<1>1. SessionTypeOK'
  BY DEF SessionTypeOK
<1>2. CookiesLast' /\ AnswersCarry'
  BY DEF CookiesLast, AnswersCarry
<1>3. UndisturbedIsGood'
  BY DEF UndisturbedIsGood
<1> QED BY <1>1, <1>2, <1>3

LEMMA SessionKeeps == SessionInv /\ [SessionNext]_SessionVars => SessionInv'
<1> SUFFICES ASSUME SessionInv, [SessionNext]_SessionVars PROVE SessionInv'
  OBVIOUS
<1>1. CASE UNCHANGED SessionVars
  BY <1>1 DEF SessionVars, SessionInv, SessionTypeOK, CookiesLast, AnswersCarry, UndisturbedIsGood, GoodToSend,
              ValidateSession
<1> QED BY <1>1, TabKeeps, TakeKeeps, ClockKeeps, RestartKeeps DEF SessionNext

(* A request on its way carries a session that lives and a token of that   *)
(* session, and so do the cookies and memories it came from, unless the    *)
(* tab was disturbed.                                                      *)
THEOREM SessionInvariant == SessionSpec => []SessionInv
<1> QED BY InitSessions, SessionKeeps, PTL DEF SessionSpec

(* A tab's request is refused for good only when, since it began, the      *)
(* server was restarted, a session ran out, or another tab received cookies*)
(* it had asked for before the browser's token changed.                    *)
THEOREM SessionsAreHeld == SessionSpec => []SessionsHold
<1>1. SessionInv => SessionsHold
  BY DEF SessionInv, UndisturbedIsGood, SessionsHold
<1> QED BY <1>1, SessionInvariant, PTL

-----------------------------------------------------------------------------
(***************************************************************************)
(* Proofs about Settings, for any roles, agents, recipes and number of     *)
(* writers. What matters is that the document on disk is valid in its      *)
(* normal form, that a file being migrated was, and that the list a        *)
(* request on the recipes carries from its check to its write was vouched  *)
(* for, whichever file the bytes end in.                                   *)
(***************************************************************************)

(* The list of a recipe request from its check on; before it, none.        *)
SavingOK(s) ==
  \/ s = NotSaving
  \/ s \in [step : {"begun"}, op : {"create", "update", "delete"}, recipe : Recipes,
            known : SUBSET CustomRoles]
  \/ s \in [step : {"open"}, list : SUBSET vouched]
  \/ s \in [step : {"write"}, list : SUBSET vouched, at : {"draft", "shelf", "gone"}]
  \/ s = [step |-> "rename"]

DocumentsInv ==
  /\ document \in Documents /\ Valid(Latest)
  /\ migrating = NoDocument \/ (migrating \in Documents /\ Valid(Normalized(migrating)))
  /\ copy \in [Clients -> Documents \cup {NoDocument}]
  /\ used \subseteq CustomRoles
  /\ {writes, requests} \subseteq 0 .. MaxWrites
RecipesInv ==
  /\ shelf = Torn \/ shelf \subseteq vouched
  /\ draft = NoFile \/ draft = Torn \/ draft \subseteq vouched
  /\ DOMAIN saving = Clients
  /\ \A c \in Clients : SavingOK(saving[c])
SettingsInv == DocumentsInv /\ RecipesInv

(* The normal form of a document is a document, without legacy entries.    *)
LEMMA NormalizedIsDocument ==
  ASSUME NEW d \in Documents
  PROVE  Normalized(d) \in Documents /\ Normalized(d).legacy = {}
         /\ Normalized(d).agents = d.agents /\ Normalized(d).roles = d.roles
<1> DEFINE promoted == {[role |-> l.role, agent |-> l.agent,
                preferred |-> \A x \in AssignedTo(d, l.role) : ~x.preferred] :
                 l \in {k \in d.legacy : ~HasAgent(d, k.role, k.agent)}}
<1>1. d.legacy \subseteq [role : RoleIds, agent : AgentNames]
  BY DEF Documents
<1>2. promoted \subseteq Assignments
  <2> SUFFICES ASSUME NEW l \in d.legacy, NEW p \in BOOLEAN
               PROVE  [role |-> l.role, agent |-> l.agent, preferred |-> p] \in Assignments
    <3>1. \A l \in d.legacy : (\A x \in AssignedTo(d, l.role) : ~x.preferred) \in BOOLEAN
      OBVIOUS
    <3> QED BY <3>1
  <2> QED BY <1>1 DEF Assignments
<1> HIDE DEF promoted
<1>3. Normalized(d) = [d EXCEPT !.legacy = {}, !.assigned = d.assigned \cup promoted]
  BY DEF Normalized, promoted, Documents
<1> QED BY <1>2, <1>3 DEF Documents

(* What validation accepts is in its normal form.                          *)
LEMMA ValidIsNormal ==
  ASSUME NEW d \in Documents, Valid(d)
  PROVE  Normalized(d) = d
<1>1. {[role |-> l.role, agent |-> l.agent,
                preferred |-> \A x \in AssignedTo(d, l.role) : ~x.preferred] :
                 l \in {k \in d.legacy : ~HasAgent(d, k.role, k.agent)}} = {}
  BY DEF Valid
<1> QED BY <1>1 DEF Normalized, Valid, Documents

-----------------------------------------------------------------------------
(* The checks of the targeted requests are enough for a valid document.    *)
LEMMA AdditionsValid ==
  ASSUME NEW d \in Documents, Valid(d), NEW e \in AddAssignments(d)
  PROVE  e \in Documents /\ Valid(e)
<1>1. PICK r \in CoreRoles \cup d.roles, a \in d.agents, p \in BOOLEAN :
        ~HasAgent(d, r, a) /\ e = WithAssignment(d, r, a, p)
  BY DEF AddAssignments
<1>2. r \in RoleIds /\ a \in AgentNames
  BY DEF Documents, RoleIds
<1> DEFINE kept == IF p THEN Demoted(d.assigned, r) ELSE d.assigned
           added == [role |-> r, agent |-> a, preferred |-> p]
<1>3. kept \subseteq Assignments
  BY DEF Demoted, Documents, Assignments
<1>4. \A x \in kept : \E y \in d.assigned : x.role = y.role /\ x.agent = y.agent
  BY DEF Demoted, Documents, Assignments
<1>5. \A x \in kept : p /\ x.role = r => ~x.preferred
  BY DEF Demoted, Documents, Assignments
<1>6. \A x, y \in kept : x.role = y.role /\ (x.agent = y.agent \/ (x.preferred /\ y.preferred)) => x = y
  <2> SUFFICES ASSUME NEW x \in kept, NEW y \in kept, x.role = y.role,
                      x.agent = y.agent \/ (x.preferred /\ y.preferred)
               PROVE  x = y
    OBVIOUS
  <2>1. CASE p
    <3>1. PICK s \in d.assigned : x = IF s.role = r THEN [s EXCEPT !.preferred = FALSE] ELSE s
      BY <2>1 DEF Demoted
    <3>2. PICK t \in d.assigned : y = IF t.role = r THEN [t EXCEPT !.preferred = FALSE] ELSE t
      BY <2>1 DEF Demoted
    <3>3. s \in Assignments /\ t \in Assignments
      BY DEF Documents
    <3>4. s.role = t.role /\ (s.agent = t.agent \/ (s.preferred /\ t.preferred))
      BY <3>1, <3>2, <3>3 DEF Assignments
    <3>5. s = t
      BY <3>4 DEF Valid
    <3> QED BY <3>1, <3>2, <3>5
  <2>2. CASE ~p
    BY <2>2 DEF Valid
  <2> QED BY <2>1, <2>2
<1>8. e = [d EXCEPT !.assigned = kept \cup {added}]
  BY <1>1 DEF WithAssignment, Documents
<1>9. added \in Assignments /\ added.role = r /\ added.agent = a /\ added.preferred = p
  BY <1>2 DEF Assignments
<1> HIDE DEF kept, added
<1>7. \A x \in kept : ~(x.role = r /\ x.agent = a)
  <2>1. \A y \in d.assigned : ~(y.role = r /\ y.agent = a)
    BY <1>1 DEF HasAgent
  <2> QED BY <1>4, <2>1
<1>10. e \in Documents /\ e.assigned = kept \cup {added} /\ e.legacy = d.legacy /\ e.agents = d.agents
       /\ e.roles = d.roles
  BY <1>3, <1>8, <1>9 DEF Documents
<1>11. \A x \in e.assigned : KnownRole(e, x.role) /\ x.agent \in e.agents
  <2>0. \A y \in d.assigned : KnownRole(e, y.role) /\ y.agent \in e.agents
    BY <1>10 DEF Valid, KnownRole
  <2>1. \A x \in kept : KnownRole(e, x.role) /\ x.agent \in e.agents
    BY <1>4, <2>0
  <2> QED BY <1>9, <1>10, <2>1 DEF KnownRole
<1>12. \A x, y \in e.assigned :
         x.role = y.role /\ (x.agent = y.agent \/ (x.preferred /\ y.preferred)) => x = y
  BY <1>5, <1>6, <1>7, <1>9, <1>10
<1> QED BY <1>10, <1>11, <1>12 DEF Valid

LEMMA PreferencesValid ==
  ASSUME NEW d \in Documents, Valid(d), NEW e \in Preferences(d)
  PROVE  e \in Documents /\ Valid(e)
<1>1. PICK z \in d.assigned : e = WithPreferred(d, z.role, z.agent)
  BY DEF Preferences
<1> DEFINE Turned(x) == IF x.role = z.role THEN [x EXCEPT !.preferred = (x.agent = z.agent)] ELSE x
           turned == {Turned(x) : x \in d.assigned}
<1>2. \A x \in d.assigned : /\ Turned(x) \in Assignments
                            /\ Turned(x).role = x.role /\ Turned(x).agent = x.agent
                            /\ x.role = z.role => (Turned(x).preferred <=> x.agent = z.agent)
                            /\ x.role # z.role => Turned(x) = x
  BY DEF Documents, Assignments
<1> HIDE DEF Turned
<1>3. e = [d EXCEPT !.assigned = turned]
  BY <1>1 DEF WithPreferred, Documents, Turned
<1>4. turned \subseteq Assignments
  BY <1>2
<1>5. \A x, y \in turned : x.role = y.role /\ (x.agent = y.agent \/ (x.preferred /\ y.preferred)) => x = y
  <2> SUFFICES ASSUME NEW s \in d.assigned, NEW t \in d.assigned, Turned(s).role = Turned(t).role,
                      \/ Turned(s).agent = Turned(t).agent
                      \/ Turned(s).preferred /\ Turned(t).preferred
               PROVE  Turned(s) = Turned(t)
    OBVIOUS
  <2>1. s.role = t.role
    BY <1>2
  <2>2. s.agent = t.agent \/ (s.preferred /\ t.preferred)
    <3>1. CASE s.role = z.role
      BY <1>2, <2>1, <3>1
    <3>2. CASE s.role # z.role
      BY <1>2, <2>1, <3>2
    <3> QED BY <3>1, <3>2
  <2> QED BY <2>1, <2>2 DEF Valid
<1>6. \A x \in turned : \E y \in d.assigned : x.role = y.role /\ x.agent = y.agent
  BY <1>2
<1> HIDE DEF turned
<1>7. e \in Documents /\ e.assigned = turned /\ e.legacy = d.legacy /\ e.agents = d.agents
       /\ e.roles = d.roles
  BY <1>3, <1>4 DEF Documents
<1>8. \A x \in e.assigned : KnownRole(e, x.role) /\ x.agent \in e.agents
  BY <1>6, <1>7 DEF Valid, KnownRole
<1> QED BY <1>5, <1>7, <1>8 DEF Valid

(* Without some of its assignments a document stays valid, and without the *)
(* roles that none of them names.                                          *)
LEMMA LessIsValid ==
  ASSUME NEW d \in Documents, Valid(d), NEW e \in Documents, e.assigned \subseteq d.assigned,
         e.legacy = {}, e.agents = d.agents,
         \A x \in e.assigned : x.role \in CoreRoles \cup e.roles
  PROVE  Valid(e)
  BY DEF Valid, KnownRole

LEMMA RemovalsValid ==
  ASSUME NEW d \in Documents, Valid(d), NEW e \in Removals(d)
  PROVE  e \in Documents /\ Valid(e)
<1>1. PICK z \in d.assigned : e = [d EXCEPT !.assigned = d.assigned \ {z}]
  BY DEF Removals, Documents
<1>2. e \in Documents /\ e.assigned \subseteq d.assigned /\ e.legacy = d.legacy /\ e.agents = d.agents
       /\ e.roles = d.roles
  BY <1>1 DEF Documents
<1> QED BY <1>2, LessIsValid DEF Valid, KnownRole

LEMMA WithScopeIs ==
  ASSUME NEW d \in Documents, NEW role, NEW scope \in SUBSET Scopes
  PROVE  /\ WithScope(d, role, scope) \in Documents
         /\ WithScope(d, role, scope).assigned = d.assigned
         /\ WithScope(d, role, scope).legacy = d.legacy
         /\ WithScope(d, role, scope).agents = d.agents
         /\ WithScope(d, role, scope).roles = d.roles
  BY DEF WithScope, Documents

LEMMA RoleRemovalsValid ==
  ASSUME NEW d \in Documents, Valid(d), NEW r \in d.roles
  PROVE  WithoutRole(d, r) \in Documents /\ Valid(WithoutRole(d, r))
<1> DEFINE bare == WithScope(d, r, {})
<1>1. /\ bare \in Documents /\ bare.assigned = d.assigned /\ bare.legacy = d.legacy
      /\ bare.agents = d.agents /\ bare.roles = d.roles
  BY WithScopeIs
<1>2. WithoutRole(d, r) = [bare EXCEPT !.roles = bare.roles \ {r},
                                       !.assigned = bare.assigned \ AssignedTo(d, r)]
  BY <1>1 DEF WithoutRole, Documents
<1> HIDE DEF bare
<1>3. /\ WithoutRole(d, r) \in Documents
      /\ WithoutRole(d, r).assigned = d.assigned \ AssignedTo(d, r)
      /\ WithoutRole(d, r).legacy = d.legacy /\ WithoutRole(d, r).agents = d.agents
      /\ WithoutRole(d, r).roles = d.roles \ {r}
  BY <1>1, <1>2 DEF Documents
<1>4. \A x \in d.assigned \ AssignedTo(d, r) : x.role \in CoreRoles \cup (d.roles \ {r})
  BY DEF Valid, KnownRole, AssignedTo
<1> QED BY <1>3, <1>4, LessIsValid DEF Valid

-----------------------------------------------------------------------------
(* Every request makes a document of the one it found.                     *)
LEMMA EditsAreDocuments ==
  ASSUME NEW d \in Documents
  PROVE  /\ Edits(d) \cup NewServers(d) \cup LostServers(d) \subseteq Documents
         /\ NewRoles(d) \cup RoleChanges(d) \subseteq Documents
         /\ \A r \in d.roles : WithPreset(d, r) \in Documents
<1>1. NewServers(d) \cup LostServers(d) \subseteq Documents
  BY DEF NewServers, LostServers, Documents
<1>2. Edits(d) \subseteq Documents
  <2>1. \A a : [d EXCEPT !.agents = d.agents \ {a},
                         !.assigned = {x \in d.assigned : x.agent # a}] \in Documents
    BY DEF Documents
  <2>2. \A a \in AgentNames : [d EXCEPT !.agents = d.agents \cup {a}] \in Documents
    BY DEF Documents
  <2>3. \A r : [d EXCEPT !.roles = d.roles \ {r},
                         !.assigned = d.assigned \ AssignedTo(d, r)] \in Documents
    BY DEF Documents
  <2> SUFFICES ASSUME NEW e \in Edits(d) PROVE e \in Documents
    OBVIOUS
  <2>4. CASE \E a \in d.agents : e = [d EXCEPT !.agents = d.agents \ {a},
                                            !.assigned = {x \in d.assigned : x.agent # a}]
    BY <2>1, <2>4
  <2>5. CASE \E a \in AgentNames : e = [d EXCEPT !.agents = d.agents \cup {a}]
    BY <2>2, <2>5
  <2>6. CASE \E r \in d.roles : e = [d EXCEPT !.roles = d.roles \ {r},
                                          !.assigned = d.assigned \ AssignedTo(d, r)]
    BY <2>3, <2>6
  <2>7. CASE e \in NewServers(d) \cup LostServers(d)
    BY <1>1, <2>7
  <2> QED BY <2>4, <2>5, <2>6, <2>7, Zenon DEF Edits
<1>3. NewRoles(d) \subseteq Documents
  <2> SUFFICES ASSUME NEW r \in CustomRoles, NEW agents \in SUBSET AgentNames,
                      NEW preferred \in SUBSET AgentNames
               PROVE  WithRole(d, r, agents, preferred) \in Documents
    BY DEF NewRoles
  <2>1. {[role |-> r, agent |-> a, preferred |-> a \in preferred] : a \in agents} \subseteq Assignments
    <3>1. \A a : (a \in preferred) \in BOOLEAN
      OBVIOUS
    <3>2. \A a \in agents, b \in BOOLEAN : [role |-> r, agent |-> a, preferred |-> b] \in Assignments
      BY DEF Assignments, RoleIds
    <3> QED BY <3>1, <3>2
  <2>2. {x \in d.assigned : ~(x.role = r /\ x.preferred)} \subseteq Assignments
    BY DEF Documents
  <2> DEFINE new == {x \in d.assigned : ~(x.role = r /\ x.preferred)}
                 \cup {[role |-> r, agent |-> a, preferred |-> a \in preferred] : a \in agents}
  <2>3. new \subseteq Assignments
    BY <2>1, <2>2
  <2>4. WithRole(d, r, agents, preferred) = [d EXCEPT !.roles = d.roles \cup {r}, !.assigned = new]
    BY DEF WithRole, Documents
  <2> HIDE DEF new
  <2> QED BY <2>3, <2>4 DEF Documents
<1>4. \A r \in RoleIds : WithPreset(d, r) \in Documents
  <2> SUFFICES ASSUME NEW r \in RoleIds PROVE WithPreset(d, r) \in Documents
    OBVIOUS
  <2>1. {[role |-> r, preset |-> TRUE, rules |-> \E s \in ScopeOf(d, r) : s.rules,
          tools |-> \E s \in ScopeOf(d, r) : s.tools]} \in SUBSET Scopes
    BY DEF Scopes
  <2> QED BY <2>1, WithScopeIs DEF WithPreset
<1>5. \A s \in d.scopes : WithoutPreset(d, s.role) \in Documents
  <2> SUFFICES ASSUME NEW s \in d.scopes PROVE WithoutPreset(d, s.role) \in Documents
    OBVIOUS
  <2>1. {[t EXCEPT !.preset = FALSE] : t \in {x \in ScopeOf(d, s.role) : x.rules}} \in SUBSET Scopes
    BY DEF ScopeOf, Documents, Scopes
  <2> QED BY <2>1, WithScopeIs DEF WithoutPreset
<1>6. CoreRoles \cup d.roles \subseteq RoleIds
  BY DEF Documents, RoleIds
<1>7. RoleChanges(d) \subseteq Documents
  BY <1>4, <1>5, <1>6 DEF RoleChanges
<1> QED BY <1>1, <1>2, <1>3, <1>4, <1>6, <1>7

LEMMA SettingsStart == Valid(Normalized(FirstDocument)) /\ SettingsInit => SettingsInv
<1> SUFFICES ASSUME Valid(Normalized(FirstDocument)), SettingsInit PROVE SettingsInv
  OBVIOUS
<1>1. DocumentsInv
  BY SettingsAssumption DEF SettingsInit, DocumentsInv, Latest
<1>2. RecipesInv
  BY DEF SettingsInit, RecipesInv, SavingOK
<1> QED BY <1>1, <1>2 DEF SettingsInv

(* A change that went through validation leaves a valid document.          *)
LEMMA UpdateKeeps ==
  ASSUME SettingsInv, NEW changed \in Documents, UpdateConfig(changed),
         UNCHANGED migrating \/ migrating' = NoDocument,
         UNCHANGED copy \/ \E c \in Clients : copy' = [copy EXCEPT ![c] = NoDocument]
  PROVE  SettingsInv'
<1>1. document' = changed /\ Valid(changed)
  BY DEF UpdateConfig
<1>2. document' \in Documents /\ Valid(Latest')
  BY <1>1, ValidIsNormal DEF Latest
<1>3. copy' \in [Clients -> Documents \cup {NoDocument}]
  BY DEF SettingsInv, DocumentsInv
<1>4. {writes', requests'} \subseteq 0 .. MaxWrites
  BY SettingsAssumption DEF SettingsInv, DocumentsInv, UpdateConfig, RecipeVars
<1>5. migrating' = NoDocument \/ (migrating' \in Documents /\ Valid(Normalized(migrating')))
  BY DEF SettingsInv, DocumentsInv
<1>6. DocumentsInv'
  BY <1>2, <1>3, <1>4, <1>5 DEF SettingsInv, DocumentsInv, UpdateConfig
<1>7. RecipesInv'
  BY DEF SettingsInv, RecipesInv, SavingOK, UpdateConfig, RecipeVars
<1> QED BY <1>6, <1>7 DEF SettingsInv

LEMMA RecipesKept ==
  ASSUME SettingsInv, UNCHANGED RecipeVars PROVE RecipesInv'
  BY DEF SettingsInv, RecipesInv, SavingOK, RecipeVars
LEMMA DocumentsKept ==
  ASSUME SettingsInv, UNCHANGED ConfigVars, {requests'} \subseteq 0 .. MaxWrites PROVE DocumentsInv'
  BY DEF SettingsInv, DocumentsInv, ConfigVars, Latest

LEMMA SettingsStep == SettingsInv /\ [SettingsNext]_SettingsVars => SettingsInv'
<1> SUFFICES ASSUME SettingsInv, [SettingsNext]_SettingsVars PROVE SettingsInv'
  OBVIOUS
<1>0. Latest \in Documents /\ Valid(Latest)
  BY NormalizedIsDocument DEF SettingsInv, DocumentsInv, Latest
<1>1. CASE \E c \in Clients : GetConfig(c)
  <2>1. PICK c \in Clients : GetConfig(c)
    BY <1>1
  <2>2. RecipesInv'
    BY <2>1, RecipesKept DEF GetConfig
  <2>3. DocumentsInv'
    BY <2>1 DEF GetConfig, RecipeVars, SettingsInv, DocumentsInv, Latest
  <2> QED BY <2>2, <2>3 DEF SettingsInv
<1>2. CASE \E c \in Clients : PutConfig(c)
  <2>1. PICK c \in Clients : PutConfig(c)
    BY <1>2
  <2>2. copy[c] \in Documents
    BY <2>1 DEF PutConfig, SettingsInv, DocumentsInv
  <2>3. PICK edited \in Edits(Normalized(copy[c])) : UpdateConfig(edited)
    BY <2>1 DEF PutConfig
  <2>4. edited \in Documents
    BY <2>2, <2>3, NormalizedIsDocument, EditsAreDocuments
  <2> QED BY <2>1, <2>3, <2>4, UpdateKeeps DEF PutConfig
<1>3. CASE CreateMcpServer \/ UpdateMcpServer \/ DeleteMcpServer \/ CreateRole \/ PutRolePolicy
  BY <1>0, <1>3, EditsAreDocuments, UpdateKeeps
     DEF CreateMcpServer, UpdateMcpServer, DeleteMcpServer, CreateRole, PutRolePolicy
<1>4. CASE UpdateRole
  BY <1>0, <1>4, EditsAreDocuments, UpdateKeeps DEF UpdateRole
<1>5. CASE AddRoleAssignment
  BY <1>0, <1>5, AdditionsValid, UpdateKeeps DEF AddRoleAssignment
<1>6. CASE RemoveRoleAssignment
  BY <1>0, <1>6, RemovalsValid, UpdateKeeps DEF RemoveRoleAssignment
<1>7. CASE SetPreferredAssignment
  BY <1>0, <1>7, PreferencesValid, UpdateKeeps DEF SetPreferredAssignment
<1>8. CASE DeleteRole
  BY <1>0, <1>8, RoleRemovalsValid, UpdateKeeps DEF DeleteRole
<1>9. CASE ReadLegacy
  <2>1. RecipesInv'
    BY <1>9, RecipesKept DEF ReadLegacy
  <2>2. DocumentsInv'
    BY <1>9 DEF ReadLegacy, RecipeVars, SettingsInv, DocumentsInv, Latest
  <2> QED BY <2>1, <2>2 DEF SettingsInv
<1>10. CASE WriteMigrated
  <2>1. Normalized(migrating) \in Documents
    BY <1>10, NormalizedIsDocument DEF WriteMigrated, SettingsInv, DocumentsInv
  <2> QED BY <1>10, <2>1, UpdateKeeps DEF WriteMigrated
<1>11. CASE \E r \in CustomRoles : UseRole(r) \/ FreeRole(r)
  <2>1. RecipesInv'
    BY <1>11, RecipesKept DEF UseRole, FreeRole
  <2>2. DocumentsInv'
    BY <1>11 DEF UseRole, FreeRole, RecipeVars, SettingsInv, DocumentsInv, Latest
  <2> QED BY <2>1, <2>2 DEF SettingsInv
<1>12. CASE \E c \in Clients : BeginRecipe(c)
  <2>1. PICK c \in Clients : BeginRecipe(c)
    BY <1>12
  <2>2. DocumentsInv'
    <3>1. {requests'} \subseteq 0 .. MaxWrites
      BY <2>1, SettingsAssumption DEF BeginRecipe, SettingsInv, DocumentsInv
    <3> QED BY <2>1, <3>1, DocumentsKept DEF BeginRecipe
  <2>3. PICK r \in Recipes, op \in {"create", "update", "delete"} :
          saving' = [saving EXCEPT ![c] =
            [step |-> "begun", op |-> op, recipe |-> r, known |-> Latest.roles]]
    BY <2>1 DEF BeginRecipe
  <2>4. Latest.roles \in SUBSET CustomRoles
    BY <1>0 DEF Documents
  <2>5. RecipesInv'
    BY <2>1, <2>3, <2>4 DEF BeginRecipe, SettingsInv, RecipesInv, SavingOK
  <2> QED BY <2>2, <2>5 DEF SettingsInv
<1>13. CASE \E c \in Clients : PrepareRecipe(c)
  <2>1. PICK c \in Clients : PrepareRecipe(c)
    BY <1>13
  <2>2. DocumentsInv'
    BY <2>1, DocumentsKept DEF PrepareRecipe, SettingsInv, DocumentsInv
  <2> DEFINE s == saving[c]
             list == Rewritten(s.op, s.recipe)
             accepted == Applicable(s.op, s.recipe) /\ AllValid(s.known, list)
  <2>3. /\ saving' = [saving EXCEPT ![c] =
                        IF accepted THEN [step |-> "open", list |-> list] ELSE NotSaving]
        /\ vouched' = IF accepted THEN vouched \cup {x \in list : ValidRecipe(s.known, x)}
                       ELSE vouched
        /\ UNCHANGED <<shelf, draft>>
    BY <2>1 DEF PrepareRecipe
  <2>4. vouched \subseteq vouched' /\ (accepted => list \subseteq vouched')
    BY <2>3 DEF AllValid
  <2> HIDE DEF accepted, list
  <2>5. \A k \in Clients : SavingOK(saving[k])
    BY DEF SettingsInv, RecipesInv
  <2>6. \A k \in Clients : SavingOK(saving[k])'
    <3>1. \A k \in Clients \ {c} : saving'[k] = saving[k]
      BY <2>3 DEF SettingsInv, RecipesInv
    <3>2. SavingOK(saving[c])'
      BY <2>3, <2>4 DEF SettingsInv, RecipesInv, SavingOK
    <3>3. \A k \in Clients \ {c} : SavingOK(saving[k])'
      BY <2>4, <2>5, <3>1 DEF SavingOK
    <3> QED BY <3>2, <3>3
  <2>7. RecipesInv'
    BY <2>3, <2>4, <2>6 DEF SettingsInv, RecipesInv
  <2> QED BY <2>2, <2>7 DEF SettingsInv
<1>14. CASE \E c \in Clients : OpenTemporary(c)
  <2>1. PICK c \in Clients : OpenTemporary(c)
    BY <1>14
  <2>2. DocumentsInv'
    BY <2>1, DocumentsKept DEF OpenTemporary, SettingsInv, DocumentsInv
  <2>3. saving[c] \in [step : {"open"}, list : SUBSET vouched]
    BY <2>1 DEF OpenTemporary, SettingsInv, RecipesInv, SavingOK, NotSaving
  <2>4. saving' = [saving EXCEPT ![c] = [step |-> "write", list |-> saving[c].list, at |-> "draft"]]
    BY <2>1 DEF OpenTemporary, SettingsInv, RecipesInv
  <2>5. RecipesInv'
    BY <2>1, <2>3, <2>4 DEF OpenTemporary, SettingsInv, RecipesInv, SavingOK
  <2> QED BY <2>2, <2>5 DEF SettingsInv
<1>15. CASE \E c \in Clients : WriteTemporary(c)
  <2>1. PICK c \in Clients : WriteTemporary(c)
    BY <1>15
  <2>2. DocumentsInv'
    BY <2>1, DocumentsKept DEF WriteTemporary, SettingsInv, DocumentsInv
  <2>3. saving[c] \in [step : {"write"}, list : SUBSET vouched, at : {"draft", "shelf", "gone"}]
    BY <2>1 DEF WriteTemporary, SettingsInv, RecipesInv, SavingOK, NotSaving
  <2>4. \A content : Over(content, saving[c].list) \subseteq {saving[c].list, Torn}
    BY DEF Over
  <2>5. /\ shelf' = shelf \/ shelf' \in {saving[c].list, Torn}
        /\ draft' = draft \/ draft' \in {saving[c].list, Torn}
    BY <2>1, <2>3, <2>4 DEF WriteTemporary
  <2>6. saving' = [saving EXCEPT ![c] = [step |-> "rename"]] /\ vouched' = vouched
    BY <2>1 DEF WriteTemporary
  <2>7. RecipesInv'
    BY <2>3, <2>5, <2>6 DEF SettingsInv, RecipesInv, SavingOK
  <2> QED BY <2>2, <2>7 DEF SettingsInv
<1>16. CASE \E c \in Clients : RenameTemporary(c)
  <2>1. PICK c \in Clients : RenameTemporary(c)
    BY <1>16
  <2>2. DocumentsInv'
    BY <2>1, DocumentsKept DEF RenameTemporary, SettingsInv, DocumentsInv
  <2>3. \A k \in Clients : SavingOK(Moved(saving[k]))
    BY DEF Moved, SettingsInv, RecipesInv, SavingOK, NotSaving
  <2>4. ASSUME draft = NoFile PROVE RecipesInv'
    BY <2>1, <2>4 DEF RenameTemporary, SettingsInv, RecipesInv, SavingOK
  <2>5. ASSUME draft # NoFile PROVE RecipesInv'
    <3>1. /\ shelf' = draft /\ draft' = NoFile /\ vouched' = vouched
          /\ saving' = [k \in Clients |-> IF k = c THEN NotSaving ELSE Moved(saving[k])]
      BY <2>1, <2>5 DEF RenameTemporary
    <3>2. \A k \in Clients : SavingOK(saving[k])'
      BY <2>3, <3>1 DEF SavingOK
    <3> QED BY <2>5, <3>1, <3>2 DEF SettingsInv, RecipesInv
  <2>6. RecipesInv'
    BY <2>4, <2>5
  <2> QED BY <2>2, <2>6 DEF SettingsInv
<1>17. CASE UNCHANGED SettingsVars
  BY <1>17 DEF SettingsVars, SettingsInv, DocumentsInv, RecipesInv, SavingOK, Latest
<1> QED BY <1>1, <1>2, <1>3, <1>4, <1>5, <1>6, <1>7, <1>8, <1>9, <1>10, <1>11, <1>12, <1>13, <1>14,
           <1>15, <1>16, <1>17 DEF SettingsNext

(* If the file the server begins with is valid, as the default one is:     *)
(* whatever its writers race for, a migration of what has changed included,*)
(* config.toml is valid; validation never refuses what a targeted request  *)
(* makes of it; the team a workflow gets without asking is valid; and what *)
(* is in recipes.toml, if it is whole, was accepted by some request,       *)
(* whichever writer's temporary file was renamed to it; and a client that  *)
(* may replace the document has seen all that is in it.                    *)
THEOREM SettingsAreSound ==
  ASSUME Valid(Normalized(FirstDocument)) PROVE SettingsSpec => []SettingsSound
<1>1. SettingsInv => SettingsSound
  <2> SUFFICES ASSUME SettingsInv PROVE SettingsSound
    OBVIOUS
  <2>0. Latest \in Documents /\ Valid(Latest)
    BY NormalizedIsDocument DEF SettingsInv, DocumentsInv, Latest
  <2>1. SettingsTypeOK
    BY DEF SettingsInv, DocumentsInv, SettingsTypeOK
  <2>2. HandlersSuffice
    BY <2>0, AdditionsValid, PreferencesValid, RemovalsValid, RoleRemovalsValid DEF HandlersSuffice
  <2>3. TeamsAreValid
    <3>1. \A role : \A a \in FirstChoices(Latest, role) : HasAgent(Latest, role, a)
      BY DEF FirstChoices, AssignedTo, HasAgent
    <3> DEFINE Pick(role) == IF FirstChoices(Latest, role) = {} THEN {{}}
                             ELSE {{a} : a \in FirstChoices(Latest, role)}
    <3>2. \A role : \A agents \in Pick(role) : \A a \in agents : HasAgent(Latest, role, a)
      BY <3>1
    <3>3. InitialTeams(Latest) = [planner : FirstChoices(Latest, "planner"),
                                  workers : Pick("worker"), reviewers : Pick("reviewer")]
      BY DEF InitialTeams
    <3> HIDE DEF Pick
    <3>4. \A t \in InitialTeams(Latest) : ValidTeam(Latest, t, FALSE)
      BY <3>1, <3>2, <3>3 DEF ValidTeam
    <3>5. \A t \in DefaultTeams(Latest) : ValidTeam(Latest, t, TRUE)
      BY <3>4 DEF DefaultTeams, ValidTeam
    <3> QED BY <3>4, <3>5 DEF TeamsAreValid
  <2>4. RecipesVouched
    BY DEF SettingsInv, RecipesInv, RecipesVouched
  <2>5. ReplacementsSeeAll
    BY DEF ReplacementsSeeAll, RevisionMatches, Latest
  <2> QED BY <2>0, <2>1, <2>2, <2>3, <2>4, <2>5 DEF SettingsSound
<1> QED BY <1>1, SettingsStart, SettingsStep, PTL DEF SettingsSpec


(***************************************************************************)
(* Proofs about PlanIntake, for any teams, roles, configurations, recipes  *)
(* and answers of the planner.                                             *)
(***************************************************************************)

(* The rounds in which a plan's tasks are visited, one for each length.    *)
RoundStep(plan, f, n) ==
  IF n = 0 THEN {}
  ELSE {t \in DOMAIN plan :
          Cardinality(Range(plan[t].dependencies) \cap f[n - 1]) = Len(plan[t].dependencies)}

LEMMA RoundsDefined ==
  ASSUME NEW plan, Len(plan) \in Nat
  PROVE  \E f : /\ f = [n \in 0 .. Len(plan) |-> RoundStep(plan, f, n)]
                /\ Visited(plan) = f[Len(plan)]
<1> DEFINE Good == {k \in Nat : \E f : f = [n \in 0 .. k |-> RoundStep(plan, f, n)]}
<1>1. 0 \in Good
  <2> DEFINE f == [n \in 0 .. 0 |-> {}]
  <2>1. f = [n \in 0 .. 0 |-> RoundStep(plan, f, n)]
    BY DEF RoundStep
  <2> QED BY <2>1
<1>2. ASSUME NEW k \in Nat, k \in Good PROVE k + 1 \in Good
  <2>1. PICK f : f = [n \in 0 .. k |-> RoundStep(plan, f, n)]
    BY <1>2
  <2> DEFINE g == [n \in 0 .. k + 1 |-> IF n = k + 1 THEN RoundStep(plan, f, k + 1) ELSE f[n]]
  <2>2. ASSUME NEW n \in 0 .. k + 1 PROVE g[n] = RoundStep(plan, g, n)
    <3>1. CASE n = k + 1
      <4>1. n # 0 /\ n - 1 = k /\ g[k] = f[k]
        BY <3>1
      <4>2. g[n] = RoundStep(plan, f, k + 1)
        BY <3>1
      <4> HIDE DEF g
      <4> QED BY <3>1, <4>1, <4>2 DEF RoundStep
    <3>2. CASE n # k + 1
      <4>1. n \in 0 .. k /\ g[n] = f[n]
        BY <3>2
      <4>2. f[n] = RoundStep(plan, f, n)
        BY <2>1, <4>1
      <4>3. n # 0 => g[n - 1] = f[n - 1]
        BY <4>1
      <4> HIDE DEF g
      <4> QED BY <4>1, <4>2, <4>3 DEF RoundStep
    <3> QED BY <3>1, <3>2
  <2>3. g = [n \in 0 .. k + 1 |-> RoundStep(plan, g, n)]
    BY <2>2
  <2>4. \E h : h = [n \in 0 .. k + 1 |-> RoundStep(plan, h, n)]
    <3> HIDE DEF g
    <3> QED BY <2>3
  <2> QED BY <2>4
<1>3. Nat \subseteq Good
  <2> HIDE DEF Good
  <2> QED BY <1>1, <1>2, SetInduction
<1>4. \E f : f = [n \in 0 .. Len(plan) |-> RoundStep(plan, f, n)]
  BY <1>3
<1> DEFINE round == CHOOSE f : f = [n \in 0 .. Len(plan) |-> RoundStep(plan, f, n)]
<1>5. round = [n \in 0 .. Len(plan) |-> RoundStep(plan, round, n)]
  BY <1>4
<1>6. Visited(plan) = round[Len(plan)]
  BY DEF Visited, RoundStep
<1> QED BY <1>5, <1>6

(* A sequence has no more members than places.                             *)
LEMMA MembersBounded ==
  ASSUME NEW T, NEW q \in Seq(T)
  PROVE  IsFiniteSet(Range(q)) /\ Cardinality(Range(q)) \in Nat /\ Cardinality(Range(q)) <= Len(q)
<1>1. q \in Surjection(1 .. Len(q), Range(q))
  BY DEF Surjection, Range
<1>2. IsFiniteSet(1 .. Len(q)) /\ Cardinality(1 .. Len(q)) = Len(q)
  <2>1. Len(q) \in Nat
    OBVIOUS
  <2>2. /\ IsFiniteSet(1 .. Len(q))
        /\ Cardinality(1 .. Len(q)) = IF 1 > Len(q) THEN 0 ELSE Len(q) - 1 + 1
    BY <2>1, FS_Interval
  <2> QED BY <2>1, <2>2
<1> QED BY <1>1, <1>2, FS_Surjection, FS_CardinalityType

(* What is assumed of a planner's answer, without its contents.            *)
LEMMA SequenceFacts ==
  ASSUME NEW S, NEW q \in Seq(S)
  PROVE  Len(q) \in Nat /\ DOMAIN q = 1 .. Len(q) /\ \A i \in DOMAIN q : q[i] \in S
  OBVIOUS
LEMMA AnswerFacts ==
  ASSUME NEW plan \in Proposals
  PROVE  /\ Len(plan) \in Nat /\ DOMAIN plan = 1 .. Len(plan)
         /\ \A t \in DOMAIN plan : plan[t].dependencies \in Seq(Nat)
<1> DEFINE S == [role : STRING, operation : STRING, dependencies : Seq(Nat)]
<1>1. plan \in Seq(S)
  BY IntakeConstants
<1>2. \A x \in S : x.dependencies \in Seq(Nat)
  OBVIOUS
<1> HIDE DEF S
<1> QED BY <1>1, <1>2, SequenceFacts

(* A task is visited only after all the tasks it depends on.               *)
LEMMA CountedAreAll ==
  ASSUME NEW q \in Seq(Nat), NEW F, Cardinality(Range(q) \cap F) = Len(q)
  PROVE  Range(q) \subseteq F
<1> DEFINE wanted == Range(q)
           both == wanted \cap F
<1>1. IsFiniteSet(wanted) /\ Cardinality(wanted) \in Nat /\ Cardinality(wanted) <= Len(q)
  BY MembersBounded
<1>2. Len(q) \in Nat
  OBVIOUS
<1>3. both \in SUBSET wanted /\ Cardinality(both) = Len(q)
  OBVIOUS
<1> HIDE DEF wanted, both
<1>4. /\ Cardinality(both) <= Cardinality(wanted)
      /\ Cardinality(wanted) = Cardinality(both) => wanted = both
  BY <1>1, <1>3, FS_Subset
<1>5. wanted = both
  BY <1>1, <1>2, <1>3, <1>4
<1> QED BY <1>5 DEF wanted, both

(* Of tasks that only wait for one another, the rounds visit none.         *)
LEMMA VisitedAreExecutable ==
  ASSUME NEW plan, Len(plan) \in Nat, DOMAIN plan = 1 .. Len(plan),
         \A t \in DOMAIN plan : plan[t].dependencies \in Seq(Nat),
         Visited(plan) = DOMAIN plan, NEW some \in (SUBSET DOMAIN plan) \ {{}}
  PROVE  \E t \in some : Range(plan[t].dependencies) \cap some = {}
<1> SUFFICES ASSUME \A t \in some : Range(plan[t].dependencies) \cap some # {} PROVE FALSE
  OBVIOUS
<1>1. PICK f : /\ f = [n \in 0 .. Len(plan) |-> RoundStep(plan, f, n)]
               /\ Visited(plan) = f[Len(plan)]
  BY RoundsDefined
<1>0. \A n \in 0 .. Len(plan) : f[n] = RoundStep(plan, f, n)
  BY <1>1, Zenon
<1> DEFINE Good == {k \in Nat : k =< Len(plan) => f[k] \cap some = {}}
<1>2. 0 \in Good
  <2>1. 0 \in 0 .. Len(plan) /\ RoundStep(plan, f, 0) = {}
    BY DEF RoundStep
  <2>2. f[0] = {}
    BY <1>0, <2>1, Zenon
  <2> QED BY <2>2
<1>3. ASSUME NEW k \in Nat, k \in Good PROVE k + 1 \in Good
  <2> SUFFICES ASSUME k + 1 =< Len(plan) PROVE f[k + 1] \cap some = {}
    OBVIOUS
  <2>1. k =< Len(plan) /\ k + 1 \in 0 .. Len(plan) /\ k + 1 # 0 /\ (k + 1) - 1 = k
    OBVIOUS
  <2>2. f[k] \cap some = {}
    BY <1>3, <2>1
  <2>3. f[k + 1] = {t \in DOMAIN plan : Cardinality(Range(plan[t].dependencies) \cap f[k])
                                          = Len(plan[t].dependencies)}
    <3>1. f[k + 1] = RoundStep(plan, f, k + 1)
      BY <1>0, <2>1, Zenon
    <3> QED BY <2>1, <3>1 DEF RoundStep
  <2> HIDE DEF Good
  <2> SUFFICES ASSUME NEW t \in f[k + 1], t \in some PROVE FALSE
    OBVIOUS
  <2>4. /\ plan[t].dependencies \in Seq(Nat)
        /\ Cardinality(Range(plan[t].dependencies) \cap f[k]) = Len(plan[t].dependencies)
    BY <2>3
  <2>5. Range(plan[t].dependencies) \subseteq f[k]
    BY <2>4, CountedAreAll
  <2>6. Range(plan[t].dependencies) \cap some # {}
    OBVIOUS
  <2> QED BY <2>2, <2>5, <2>6
<1>4. Nat \subseteq Good
  <2> HIDE DEF Good
  <2> QED BY <1>2, <1>3, SetInduction
<1>5. Len(plan) \in Good
  <2> HIDE DEF Good
  <2> QED BY <1>4
<1>6. f[Len(plan)] \cap some = {}
  BY <1>5
<1> QED BY <1>1, <1>6

-----------------------------------------------------------------------------
FlowStatuses == {"absent", "planning", "planned", "blocked", "active", "failed", "cancelled"}
TasksShaped(list) ==
  \A t \in DOMAIN list : DOMAIN list[t] = {"role", "operation", "dependencies", "pin", "state"}

IntakeTypes ==
  /\ config \in Configs
  /\ flow \in [status : FlowStatuses, team : Teams, recipe : TeamRecipes \cup {NoRecipe},
               planner : SUBSET TeamAgents]
  /\ TasksShaped(tasks)
  /\ planning = Idle \/ planning \in [step : {"asking"}, tries : 0 .. MaxPlanTries - 1,
                                      catalog : Configs, allowed : SUBSET TaskRoleIds]
  /\ starting = Idle \/ /\ DOMAIN starting = {"step", "team", "catalog", "list", "stores"}
                        /\ starting.step \in {"read", "checking"}
                        /\ starting.team \in Teams /\ starting.stores \in BOOLEAN
  /\ editing = Idle \/ editing \in [step : {"checked"}, team : AskedTeams, status : Awaiting]
  /\ raced \in BOOLEAN

(* Nothing is stored before the plan is, and a planner answers within what *)
(* it was given.                                                           *)
PlannerInv ==
  /\ flow.status \in {"absent", "planning"} => tasks = <<>>
  /\ planning # Idle =>
       /\ flow.status = "planning" /\ "worker" \in planning.allowed
       /\ given = [allowed |-> planning.allowed, catalog |-> planning.catalog]

(* Unless something landed behind its back, what a start has read, and     *)
(* completed, is what the run has.                                         *)
StartInv ==
  starting # Idle =>
    /\ planning = Idle /\ flow.status \in {"planned", "blocked"}
    /\ ~raced => /\ starting.list = tasks
                 /\ starting.step = "checking" \/ ~starting.stores => flow.team = starting.team

IntakeInv == IntakeTypes /\ PlannerInv /\ StartInv /\ StoredTasksSound /\ ActiveIsReady

-----------------------------------------------------------------------------
(* Whatever a role's class, its default operation is one the class may do. *)
LEMMA DefaultsFit ==
  ASSUME NEW c \in Configs, NEW role
  PROVE  DefaultOperation(c, role) \in CompatibleOperations(Class(c, role))
<1>1. Class(c, role) \in Classes
  BY IntakeConstants DEF Class, Classes
<1>2. role = "test_engineer" => Class(c, role) = "execution"
  BY IntakeConstants DEF Class
<1> QED BY <1>1, <1>2 DEF DefaultOperation, CompatibleOperations, Classes

(* An accepted answer is stored as tasks that can be executed.             *)
LEMMA AcceptedIsSound ==
  ASSUME NEW c \in Configs, NEW plan \in Proposals, NEW allowed, Accepted(c, plan, allowed),
         "worker" \in allowed
  PROVE  /\ TasksShaped(NormalizedPlan(c, plan))
         /\ Executable(NormalizedPlan(c, plan))
         /\ \A t \in DOMAIN NormalizedPlan(c, plan) :
              LET task == NormalizedPlan(c, plan)[t] IN
              /\ RoleOf(task) \in allowed
              /\ task.operation \in CompatibleOperations(Class(c, RoleOf(task)))
<1> DEFINE list == NormalizedPlan(c, plan)
<1>2. DOMAIN list = DOMAIN plan
  BY DEF NormalizedPlan
<1>3. \A t \in DOMAIN plan :
        /\ list[t].role = plan[t].role /\ list[t].dependencies = Range(plan[t].dependencies)
        /\ list[t].operation = IF plan[t].operation = NoneGiven
                               THEN DefaultOperation(c, RoleOf(plan[t])) ELSE plan[t].operation
        /\ list[t].pin = NoneGiven /\ list[t].state \in {"ready", "pending"}
        /\ DOMAIN list[t] = {"role", "operation", "dependencies", "pin", "state"}
        /\ RoleOf(list[t]) = RoleOf(plan[t])
  BY DEF NormalizedPlan, RoleOf
<1>4. \A t \in DOMAIN plan : Range(plan[t].dependencies) \in SUBSET DOMAIN plan
  BY DEF Accepted, ValidPlan
<1>6. TasksShaped(list)
  <2> HIDE DEF list
  <2> QED BY <1>2, <1>3 DEF TasksShaped
<1>7. Executable(list)
  <2>1. Visited(plan) = DOMAIN plan
    BY DEF Accepted, ValidPlan
  <2>2. \A some \in (SUBSET DOMAIN plan) \ {{}} :
          \E t \in some : Range(plan[t].dependencies) \cap some = {}
    BY <2>1, AnswerFacts, VisitedAreExecutable
  <2> HIDE DEF list
  <2> QED BY <1>2, <1>3, <1>4, <2>2 DEF Executable
<1>8. \A t \in DOMAIN plan : RoleOf(list[t]) \in allowed
  <2>1. \A t \in DOMAIN plan : RoleOf(plan[t]) \in allowed
    BY DEF Accepted, ValidPlanRoles, RoleOf
  <2> HIDE DEF list
  <2> QED BY <1>3, <2>1
<1>9. \A t \in DOMAIN plan : list[t].operation \in CompatibleOperations(Class(c, RoleOf(list[t])))
  <2>1. \A t \in DOMAIN plan :
          plan[t].operation # NoneGiven =>
            plan[t].operation \in CompatibleOperations(Class(c, RoleOf(plan[t])))
    BY DEF Accepted, ValidPlanOperations
  <2> HIDE DEF list
  <2> QED BY <1>3, <2>1, DefaultsFit
<1> HIDE DEF list
<1>10. \A t \in DOMAIN list : /\ RoleOf(list[t]) \in allowed
                             /\ list[t].operation \in CompatibleOperations(Class(c, RoleOf(list[t])))
  BY <1>2, <1>8, <1>9
<1> QED BY <1>6, <1>7, <1>10 DEF list

(* What the tasks are to do stays when only their states and pins change.  *)
LEMMA StoredStays ==
  ASSUME StoredTasksSound, DOMAIN tasks' = DOMAIN tasks, given' = given,
         \A t \in DOMAIN tasks : /\ tasks'[t].role = tasks[t].role
                                 /\ tasks'[t].operation = tasks[t].operation
                                 /\ tasks'[t].dependencies = tasks[t].dependencies
  PROVE  StoredTasksSound'
<1>1. Executable(tasks')
  BY DEF StoredTasksSound, Executable
<1>2. \A t \in DOMAIN tasks : RoleOf(tasks'[t]) = RoleOf(tasks[t])
  BY DEF RoleOf
<1> QED BY <1>1, <1>2 DEF StoredTasksSound

(* A run stays ready while its team, its recipe and what its tasks need do.*)
LEMMA ReadyStays ==
  ASSUME ActiveIsReady, raced' = raced, flow'.status = "active" => flow.status = "active",
         flow'.team = flow.team, flow'.recipe = flow.recipe, DOMAIN tasks' = DOMAIN tasks,
         \A t \in DOMAIN tasks : /\ tasks'[t].role = tasks[t].role
                                 /\ tasks'[t].operation = tasks[t].operation
                                 /\ tasks'[t].pin = tasks[t].pin
  PROVE  ActiveIsReady'
<1> SUFFICES ASSUME flow'.status = "active", ~raced
             PROVE  /\ RolesCovered(flow'.team, tasks')
                    /\ PoliciesAllow(flow'.team, flow'.recipe, tasks')
                    /\ \A t \in DOMAIN tasks' : PinAllowed(flow'.team, flow'.recipe, tasks'[t])
  BY DEF ActiveIsReady
<1>1. \A t \in DOMAIN tasks : RoleOf(tasks'[t]) = RoleOf(tasks[t])
  BY DEF RoleOf
<1>2. /\ RolesCovered(flow.team, tasks)
      /\ PoliciesAllow(flow.team, flow.recipe, tasks)
      /\ \A t \in DOMAIN tasks : PinAllowed(flow.team, flow.recipe, tasks[t])
  BY DEF ActiveIsReady
<1>3. RolesCovered(flow'.team, tasks')
  BY <1>2 DEF RolesCovered
<1>4. PoliciesAllow(flow'.team, flow'.recipe, tasks')
  BY <1>1, <1>2 DEF PoliciesAllow, SomeAgentAllowed
<1>5. \A t \in DOMAIN tasks' : PinAllowed(flow'.team, flow'.recipe, tasks'[t])
  BY <1>1, <1>2 DEF PinAllowed
<1> QED BY <1>3, <1>4, <1>5

LEMMA TeamsTyped ==
  /\ \A c, recipe : NewTeams(c, recipe) \subseteq Teams
  /\ \A c : \A team \in Teams : Filled(c, team) \in Teams
<1>1. \A c, role : Preferred(c, role) \in SUBSET TeamAgents
  BY DEF Preferred, Assigned
<1>2. \A c, recipe : TeamFromRecipe(c, recipe) \in Teams
  BY <1>1 DEF TeamFromRecipe, Teams
<1>3. \A c : \A team \in Teams : Filled(c, team) \in Teams
  BY <1>1 DEF Filled, Teams
<1> QED BY <1>2, <1>3, IntakeConstants DEF NewTeams

LEMMA IntakeStart == IntakeInit => IntakeInv
<1> SUFFICES ASSUME IntakeInit PROVE IntakeInv
  OBVIOUS
<1>1. IntakeTypes
  <2>1. [role \in TeamRoleIds |-> {}] \in Teams
    BY DEF Teams
  <2>2. flow \in [status : FlowStatuses, team : Teams, recipe : TeamRecipes \cup {NoRecipe},
                  planner : SUBSET TeamAgents]
    BY <2>1 DEF IntakeInit, FlowStatuses
  <2>3. TasksShaped(tasks)
    BY DEF IntakeInit, TasksShaped
  <2> QED BY <2>2, <2>3 DEF IntakeInit, IntakeTypes
<1> QED BY <1>1 DEF IntakeInit, IntakeInv, PlannerInv, StartInv, StoredTasksSound, Executable, ActiveIsReady

-----------------------------------------------------------------------------
(* Each action keeps the invariant.                                        *)
FlowType == [status : FlowStatuses, team : Teams, recipe : TeamRecipes \cup {NoRecipe},
             planner : SUBSET TeamAgents]

(* An action that moves neither the run, its tasks nor what is in progress *)
(* on it, whatever it does to what is about to be written.                 *)
LEMMA RunUntouched ==
  ASSUME IntakeInv, UNCHANGED <<flow, tasks, planning, starting, given, raced>>
  PROVE  PlannerInv' /\ StartInv' /\ StoredTasksSound' /\ ActiveIsReady'
<1>1. PlannerInv' /\ StartInv'
  BY DEF IntakeInv, PlannerInv, StartInv
<1>2. StoredTasksSound'
  BY DEF IntakeInv, StoredTasksSound, Executable
<1>3. ActiveIsReady'
  BY DEF IntakeInv, ActiveIsReady, RolesCovered, PoliciesAllow, PinAllowed, SomeAgentAllowed
<1> QED BY <1>1, <1>2, <1>3

LEMMA TakeRunKeeps == IntakeInv /\ TakeRun => IntakeInv'
<1> SUFFICES ASSUME IntakeInv, TakeRun PROVE IntakeInv'
  OBVIOUS
<1> USE DEF IntakeInv
<1>0. PICK recipe \in TeamRecipes : \E team \in NewTeams(config, recipe) :
        flow' = [status |-> "planning", team |-> team, recipe |-> recipe, planner |-> team["planner"]]
  BY DEF TakeRun
<1>1. PICK team \in NewTeams(config, recipe) :
        flow' = [status |-> "planning", team |-> team, recipe |-> recipe, planner |-> team["planner"]]
  BY <1>0
<1>2. team \in Teams /\ team["planner"] \in SUBSET TeamAgents
  BY TeamsTyped DEF Teams, TeamRoleIds
<1>3. flow' \in FlowType /\ flow'.status = "planning"
  BY <1>1, <1>2 DEF FlowType, FlowStatuses
<1>4. tasks = <<>> /\ planning = Idle /\ starting = Idle
  BY DEF TakeRun, PlannerInv, StartInv
<1>5. IntakeTypes'
  BY <1>3 DEF TakeRun, IntakeTypes, FlowType, TasksShaped
<1>6. PlannerInv' /\ StartInv'
  BY <1>3, <1>4 DEF TakeRun, PlannerInv, StartInv
<1>7. StoredTasksSound'
  BY StoredStays DEF TakeRun
<1>8. ActiveIsReady'
  BY <1>3 DEF ActiveIsReady
<1> QED BY <1>5, <1>6, <1>7, <1>8

LEMMA PlanRunBeginsKeeps == IntakeInv /\ PlanRunBegins => IntakeInv'
<1> SUFFICES ASSUME IntakeInv, PlanRunBegins PROVE IntakeInv'
  OBVIOUS
<1> USE DEF IntakeInv
<1>1. flow.status = "planning" /\ tasks = <<>> /\ starting = Idle
  BY DEF PlanRunBegins, PlannerInv, StartInv
<1>2. TaskRoles(flow.team) \in SUBSET TaskRoleIds /\ "worker" \in TaskRoles(flow.team)
  BY DEF TaskRoles, TaskRoleIds
<1>3. planning' \in [step : {"asking"}, tries : 0 .. MaxPlanTries - 1,
                     catalog : Configs, allowed : SUBSET TaskRoleIds]
  <2>1. 0 \in 0 .. MaxPlanTries - 1
    BY IntakeConstants
  <2> QED BY <1>2, <2>1 DEF PlanRunBegins, IntakeTypes
<1>4. IntakeTypes'
  BY <1>3 DEF PlanRunBegins, IntakeTypes, TasksShaped
<1>5. PlannerInv'
  BY <1>1, <1>2 DEF PlanRunBegins, PlannerInv
<1>6. StartInv'
  BY <1>1 DEF PlanRunBegins, StartInv
<1>7. StoredTasksSound'
  <2>1. tasks' = <<>>
    BY <1>1 DEF PlanRunBegins
  <2> QED BY <2>1 DEF StoredTasksSound, Executable
<1>8. ActiveIsReady'
  BY <1>1 DEF PlanRunBegins, ActiveIsReady
<1> QED BY <1>4, <1>5, <1>6, <1>7, <1>8

LEMMA PlannerKeeps == IntakeInv /\ (PlannerAnswers \/ PlannerGivesUp) => IntakeInv'
<1> SUFFICES ASSUME IntakeInv, PlannerAnswers \/ PlannerGivesUp PROVE IntakeInv'
  OBVIOUS
<1> USE DEF IntakeInv
<1>1. /\ flow \in FlowType /\ flow.status = "planning" /\ tasks = <<>>
      /\ starting = Idle /\ starting' = Idle
      /\ UNCHANGED <<config, starting, editing, pinning, given, raced>>
  <2>1. planning # Idle
    BY DEF PlannerAnswers, PlannerGivesUp, Idle
  <2> QED BY <2>1 DEF PlannerAnswers, PlannerGivesUp, PlannerInv, StartInv, IntakeTypes, FlowType
<1>2. /\ planning \in [step : {"asking"}, tries : 0 .. MaxPlanTries - 1,
                       catalog : Configs, allowed : SUBSET TaskRoleIds]
      /\ "worker" \in planning.allowed
      /\ given = [allowed |-> planning.allowed, catalog |-> planning.catalog]
  <2>1. planning # Idle
    BY DEF PlannerAnswers, PlannerGivesUp, Idle
  <2> QED BY <2>1 DEF IntakeTypes, PlannerInv
<1>3. CASE \E status \in {"failed", "cancelled"} :
             /\ flow' = [flow EXCEPT !.status = status]
             /\ planning' = Idle /\ tasks' = tasks
  <2>1. PICK status \in {"failed", "cancelled"} : flow' = [flow EXCEPT !.status = status]
    BY <1>3
  <2>2. flow' \in FlowType /\ flow'.status = status
    BY <1>1, <2>1 DEF FlowType, FlowStatuses
  <2>3. IntakeTypes'
    BY <1>1, <1>3, <2>2 DEF IntakeTypes, FlowType, TasksShaped
  <2>4. PlannerInv' /\ StartInv' /\ ActiveIsReady'
    BY <1>1, <1>3, <2>2 DEF PlannerInv, StartInv, ActiveIsReady
  <2>5. StoredTasksSound'
    BY <1>1, <1>3, StoredStays
  <2> QED BY <2>3, <2>4, <2>5
<1>4. CASE /\ planning.tries + 1 < MaxPlanTries
           /\ planning' = [planning EXCEPT !.tries = @ + 1]
           /\ UNCHANGED <<flow, tasks>>
  <2>1. /\ planning' \in [step : {"asking"}, tries : 0 .. MaxPlanTries - 1,
                          catalog : Configs, allowed : SUBSET TaskRoleIds]
        /\ planning'.allowed = planning.allowed /\ planning'.catalog = planning.catalog
    <3>1. planning.tries + 1 \in 0 .. MaxPlanTries - 1
      BY <1>2, <1>4, IntakeConstants
    <3> QED BY <1>2, <1>4, <3>1
  <2>2. IntakeTypes'
    BY <1>1, <1>4, <2>1 DEF IntakeTypes, TasksShaped
  <2>3. PlannerInv' /\ StartInv'
    BY <1>1, <1>2, <1>4, <2>1 DEF PlannerInv, StartInv
  <2>4. StoredTasksSound'
    BY <1>1, <1>4, StoredStays
  <2>5. ActiveIsReady'
    BY <1>1, <1>4 DEF ActiveIsReady
  <2> QED BY <2>2, <2>3, <2>4, <2>5
<1>5. CASE \E plan \in Proposals :
             /\ Accepted(planning.catalog, plan, planning.allowed)
             /\ tasks' = NormalizedPlan(planning.catalog, plan)
             /\ flow' = [flow EXCEPT !.status = "planned"]
             /\ planning' = Idle
  <2>1. PICK plan \in Proposals : /\ Accepted(planning.catalog, plan, planning.allowed)
                                  /\ tasks' = NormalizedPlan(planning.catalog, plan)
    BY <1>5
  <2>2. flow' \in FlowType /\ flow'.status = "planned"
    BY <1>1, <1>5 DEF FlowType, FlowStatuses
  <2>3. /\ TasksShaped(tasks') /\ Executable(tasks')
        /\ \A t \in DOMAIN tasks' :
             /\ RoleOf(tasks'[t]) \in planning.allowed
             /\ tasks'[t].operation
                  \in CompatibleOperations(Class(planning.catalog, RoleOf(tasks'[t])))
    <3>1. planning.catalog \in Configs
      BY <1>2
    <3> QED BY <1>2, <2>1, <3>1, AcceptedIsSound
  <2>4. IntakeTypes'
    BY <1>1, <1>5, <2>2, <2>3 DEF IntakeTypes, FlowType
  <2>5. PlannerInv' /\ StartInv' /\ ActiveIsReady'
    BY <1>1, <1>5, <2>2 DEF PlannerInv, StartInv, ActiveIsReady
  <2>6. StoredTasksSound'
    <3>1. given'.allowed = planning.allowed /\ given'.catalog = planning.catalog
      BY <1>1, <1>2
    <3> QED BY <2>3, <3>1 DEF StoredTasksSound
  <2> QED BY <2>4, <2>5, <2>6
<1> QED BY <1>3, <1>4, <1>5 DEF PlannerAnswers, PlannerGivesUp

LEMMA UpdateTeamKeeps == IntakeInv /\ (UpdateTeamChecks \/ UpdateTeamWrites) => IntakeInv'
<1> SUFFICES ASSUME IntakeInv, UpdateTeamChecks \/ UpdateTeamWrites PROVE IntakeInv'
  OBVIOUS
<1> USE DEF IntakeInv
<1>1. CASE UpdateTeamChecks
  <2>1. PICK team \in AskedTeams :
          editing' = [step |-> "checked", team |-> team, status |-> flow.status]
    BY <1>1 DEF UpdateTeamChecks
  <2>2. editing' \in [step : {"checked"}, team : AskedTeams, status : Awaiting]
    BY <1>1, <2>1 DEF UpdateTeamChecks
  <2>3. IntakeTypes'
    BY <1>1, <2>2 DEF UpdateTeamChecks, IntakeTypes, TasksShaped
  <2> QED BY <1>1, <2>3, RunUntouched DEF UpdateTeamChecks
<1>2. CASE UpdateTeamWrites
  <2>1. flow \in FlowType /\ editing.team \in Teams
    BY <1>2, IntakeConstants DEF UpdateTeamWrites, IntakeTypes, FlowType
  <2>2. editing.team["planner"] \in SUBSET TeamAgents
    BY <2>1 DEF Teams, TeamRoleIds
  <2>3. flow.planner \in SUBSET TeamAgents
    BY <2>1 DEF FlowType
  <2>4. flow' \in FlowType /\ flow'.status = flow.status
    <3>1. \E who \in SUBSET TeamAgents :
            flow' = [flow EXCEPT !.team = editing.team, !.planner = who]
      BY <1>2, <2>2, <2>3 DEF UpdateTeamWrites
    <3> QED BY <2>1, <3>1 DEF FlowType
  <2>5. raced' \in BOOLEAN
    <3>1. raced \in BOOLEAN /\ LandsLate \in BOOLEAN
      BY DEF IntakeTypes, LandsLate
    <3> HIDE DEF LandsLate
    <3> QED BY <1>2, <3>1 DEF UpdateTeamWrites
  <2>6. IntakeTypes'
    BY <1>2, <2>4, <2>5 DEF UpdateTeamWrites, IntakeTypes, FlowType, TasksShaped
  <2>7. PlannerInv'
    BY <1>2, <2>4 DEF UpdateTeamWrites, PlannerInv
  <2>8. starting # Idle \/ flow.status = "active" => raced'
    BY <1>2 DEF UpdateTeamWrites, LandsLate
  <2>9. StartInv'
    BY <1>2, <2>4, <2>8 DEF UpdateTeamWrites, StartInv
  <2>10. ActiveIsReady'
    BY <2>4, <2>8 DEF ActiveIsReady
  <2>11. StoredTasksSound'
    BY <1>2, StoredStays DEF UpdateTeamWrites
  <2> QED BY <2>6, <2>7, <2>9, <2>10, <2>11
<1> QED BY <1>1, <1>2

(* What a write to one task, and the release of those that waited, leaves. *)
LEMMA TaskFields ==
  ASSUME TasksShaped(tasks), NEW t,
         \/ \E pin : tasks' = [tasks EXCEPT ![t].pin = pin]
         \/ \E state : tasks' = [tasks EXCEPT ![t].state = state]
         \/ \E done : tasks' = [u \in DOMAIN tasks |->
                        IF u = t THEN [tasks[u] EXCEPT !.state = "completed"]
                        ELSE IF tasks[u].state = "pending" /\ tasks[u].dependencies \subseteq done
                        THEN [tasks[u] EXCEPT !.state = "ready"] ELSE tasks[u]]
  PROVE  /\ TasksShaped(tasks') /\ DOMAIN tasks' = DOMAIN tasks
         /\ \A u \in DOMAIN tasks : /\ tasks'[u].role = tasks[u].role
                                    /\ tasks'[u].operation = tasks[u].operation
                                    /\ tasks'[u].dependencies = tasks[u].dependencies
         /\ tasks = <<>> => tasks' = <<>>
<1>1. CASE \E pin : tasks' = [tasks EXCEPT ![t].pin = pin]
  BY <1>1 DEF TasksShaped
<1>2. CASE \E state : tasks' = [tasks EXCEPT ![t].state = state]
  BY <1>2 DEF TasksShaped
<1>3. CASE \E done : tasks' = [u \in DOMAIN tasks |->
                        IF u = t THEN [tasks[u] EXCEPT !.state = "completed"]
                        ELSE IF tasks[u].state = "pending" /\ tasks[u].dependencies \subseteq done
                        THEN [tasks[u] EXCEPT !.state = "ready"] ELSE tasks[u]]
  BY <1>3 DEF TasksShaped
<1> QED BY <1>1, <1>2, <1>3

LEMMA PinsKeep == IntakeInv /\ (PinChecks \/ PinWrites) => IntakeInv'
<1> SUFFICES ASSUME IntakeInv, PinChecks \/ PinWrites PROVE IntakeInv'
  OBVIOUS
<1> USE DEF IntakeInv
<1>1. CASE PinChecks
  <2>1. IntakeTypes'
    BY <1>1 DEF PinChecks, IntakeTypes, TasksShaped
  <2> QED BY <1>1, <2>1, RunUntouched DEF PinChecks
<1>2. CASE PinWrites
  <2>1. /\ TasksShaped(tasks') /\ DOMAIN tasks' = DOMAIN tasks
        /\ \A u \in DOMAIN tasks : /\ tasks'[u].role = tasks[u].role
                                   /\ tasks'[u].operation = tasks[u].operation
                                   /\ tasks'[u].dependencies = tasks[u].dependencies
        /\ tasks = <<>> => tasks' = <<>>
    <3>1. tasks' = [tasks EXCEPT ![pinning.task].pin = pinning.agent]
      BY <1>2 DEF PinWrites
    <3> QED BY <3>1, TaskFields DEF IntakeTypes
  <2>2. raced' \in BOOLEAN
    <3>1. raced \in BOOLEAN /\ LandsLate \in BOOLEAN
      BY DEF IntakeTypes, LandsLate
    <3> HIDE DEF LandsLate
    <3> QED BY <1>2, <3>1 DEF PinWrites
  <2>3. IntakeTypes'
    BY <1>2, <2>1, <2>2 DEF PinWrites, IntakeTypes
  <2>4. PlannerInv'
    BY <1>2, <2>1 DEF PinWrites, PlannerInv
  <2>5. starting # Idle \/ flow.status = "active" => raced'
    BY <1>2 DEF PinWrites, LandsLate
  <2>6. StartInv' /\ ActiveIsReady'
    BY <1>2, <2>5 DEF PinWrites, StartInv, ActiveIsReady
  <2>7. StoredTasksSound'
    BY <1>2, <2>1, StoredStays DEF PinWrites
  <2> QED BY <2>3, <2>4, <2>6, <2>7
<1> QED BY <1>1, <1>2

LEMMA PrepareStartKeeps ==
  IntakeInv /\ (PrepareStartReads \/ PrepareStartStores \/ PrepareStartEnds) => IntakeInv'
<1> SUFFICES ASSUME IntakeInv, PrepareStartReads \/ PrepareStartStores \/ PrepareStartEnds
             PROVE IntakeInv'
  OBVIOUS
<1> USE DEF IntakeInv
<1>1. CASE PrepareStartReads
  <2> DEFINE team == IF NeedsDefaults(flow.team) THEN Filled(config, flow.team) ELSE flow.team
  <2>1. starting' = [step |-> "read", team |-> team, catalog |-> config, list |-> tasks,
                     stores |-> NeedsDefaults(flow.team)]
    BY <1>1 DEF PrepareStartReads
  <2>2. flow.team \in Teams
    BY DEF IntakeTypes
  <2>3. NeedsDefaults(flow.team) \in BOOLEAN
    BY DEF NeedsDefaults
  <2>4. team \in Teams /\ (~NeedsDefaults(flow.team) => team = flow.team)
    BY <2>2, TeamsTyped
  <2> HIDE DEF team
  <2>5. /\ DOMAIN starting' = {"step", "team", "catalog", "list", "stores"}
        /\ starting'.step = "read" /\ starting'.team = team /\ starting'.list = tasks
        /\ starting'.stores = NeedsDefaults(flow.team)
    BY <2>1
  <2>6. IntakeTypes'
    BY <1>1, <2>3, <2>4, <2>5 DEF PrepareStartReads, IntakeTypes, TasksShaped
  <2>7. PlannerInv'
    BY <1>1 DEF PrepareStartReads, PlannerInv
  <2>8. StartInv'
    BY <1>1, <2>4, <2>5 DEF PrepareStartReads, StartInv
  <2>9. StoredTasksSound'
    BY <1>1, StoredStays DEF PrepareStartReads
  <2>10. ActiveIsReady'
    BY <1>1 DEF PrepareStartReads, ActiveIsReady
  <2> QED BY <2>6, <2>7, <2>8, <2>9, <2>10
<1>2. CASE PrepareStartStores
  <2>1. /\ starting # Idle /\ starting.team \in Teams /\ starting.stores \in BOOLEAN
        /\ DOMAIN starting = {"step", "team", "catalog", "list", "stores"}
        /\ planning = Idle /\ flow.status \in {"planned", "blocked"} /\ flow \in FlowType
    <3>1. starting # Idle
      BY <1>2 DEF PrepareStartStores, Idle
    <3> QED BY <3>1 DEF IntakeTypes, StartInv, FlowType
  <2>2. flow' \in FlowType /\ flow'.status = flow.status
    BY <1>2, <2>1 DEF PrepareStartStores, FlowType
  <2>3. ~raced => flow'.team = starting.team
    BY <1>2, <2>1 DEF PrepareStartStores, StartInv, FlowType
  <2>4. /\ DOMAIN starting' = DOMAIN starting /\ starting'.step = "checking"
        /\ starting'.team = starting.team /\ starting'.list = starting.list
        /\ starting'.stores = starting.stores
    BY <1>2, <2>1 DEF PrepareStartStores
  <2>5. IntakeTypes'
    BY <1>2, <2>1, <2>2, <2>4 DEF PrepareStartStores, IntakeTypes, FlowType, TasksShaped
  <2>6. PlannerInv'
    BY <1>2, <2>1, <2>2 DEF PrepareStartStores, PlannerInv
  <2>7. StartInv'
    BY <1>2, <2>1, <2>2, <2>3, <2>4 DEF PrepareStartStores, StartInv
  <2>8. StoredTasksSound'
    BY <1>2, StoredStays DEF PrepareStartStores
  <2>9. ActiveIsReady'
    BY <2>1, <2>2 DEF ActiveIsReady
  <2> QED BY <2>5, <2>6, <2>7, <2>8, <2>9
<1>3. CASE PrepareStartEnds
  <2>1. /\ starting # Idle /\ planning = Idle /\ flow.status \in {"planned", "blocked"}
        /\ flow \in FlowType
        /\ ~raced => starting.list = tasks /\ flow.team = starting.team
    <3>1. starting # Idle
      BY <1>3 DEF PrepareStartEnds, Idle
    <3> QED BY <1>3, <3>1 DEF PrepareStartEnds, IntakeTypes, StartInv, FlowType
  <2>2. PICK status \in {"planned", "blocked", "active"} :
          /\ flow' = [flow EXCEPT !.status = status]
          /\ status = "active" =>
               /\ TaskRolesAvailable(starting.team, starting.list)
               /\ \A t \in DOMAIN starting.list :
                    PinAllowed(starting.team, flow.recipe, starting.list[t])
               /\ PoliciesAllow(starting.team, flow.recipe, starting.list)
    BY <1>3, <2>1 DEF PrepareStartEnds
  <2>3. /\ flow' \in FlowType /\ flow'.status = status /\ flow'.team = flow.team
        /\ flow'.recipe = flow.recipe
    BY <2>1, <2>2 DEF FlowType, FlowStatuses
  <2>4. IntakeTypes'
    BY <1>3, <2>3 DEF PrepareStartEnds, IntakeTypes, FlowType, TasksShaped
  <2>5. PlannerInv'
    BY <1>3, <2>1, <2>3 DEF PrepareStartEnds, PlannerInv
  <2>6. StartInv'
    BY <1>3 DEF PrepareStartEnds, StartInv
  <2>7. StoredTasksSound'
    BY <1>3, StoredStays DEF PrepareStartEnds
  <2>8. ActiveIsReady'
    <3> SUFFICES ASSUME status = "active", ~raced
                 PROVE  /\ RolesCovered(flow.team, tasks)
                        /\ PoliciesAllow(flow.team, flow.recipe, tasks)
                        /\ \A t \in DOMAIN tasks : PinAllowed(flow.team, flow.recipe, tasks[t])
      <4>1. tasks' = tasks /\ raced' = raced
        BY <1>3 DEF PrepareStartEnds
      <4> QED BY <2>3, <4>1 DEF ActiveIsReady
    <3>1. starting.list = tasks /\ starting.team = flow.team
      BY <2>1
    <3> QED BY <2>2, <3>1 DEF TaskRolesAvailable
  <2> QED BY <2>4, <2>5, <2>6, <2>7, <2>8
<1> QED BY <1>1, <1>2, <1>3

LEMMA TasksKeep ==
  IntakeInv /\ (\E t \in DOMAIN tasks : DispatchTask(t) \/ CompleteTask(t)) => IntakeInv'
<1> SUFFICES ASSUME IntakeInv, NEW t \in DOMAIN tasks, DispatchTask(t) \/ CompleteTask(t)
             PROVE  IntakeInv'
  OBVIOUS
<1> USE DEF IntakeInv
<1>1. /\ flow.status = "active" /\ flow \in FlowType /\ planning = Idle /\ starting = Idle
      /\ UNCHANGED <<config, planning, starting, editing, pinning, given, raced>>
  BY DEF DispatchTask, CompleteTask, PlannerInv, StartInv, IntakeTypes, FlowType
<1>2. CASE tasks' = tasks /\ flow' = [flow EXCEPT !.status = "failed"]
  <2>1. flow' \in FlowType /\ flow'.status = "failed"
    BY <1>1, <1>2 DEF FlowType, FlowStatuses
  <2>2. IntakeTypes'
    BY <1>1, <1>2, <2>1 DEF IntakeTypes, FlowType, TasksShaped
  <2>3. PlannerInv' /\ StartInv' /\ ActiveIsReady'
    BY <1>1, <2>1 DEF PlannerInv, StartInv, ActiveIsReady
  <2>4. StoredTasksSound'
    BY <1>1, <1>2, StoredStays
  <2> QED BY <2>2, <2>3, <2>4
<1>3. CASE /\ flow' = flow
           /\ \/ \E state : tasks' = [tasks EXCEPT ![t].state = state]
              \/ \E done : tasks' = [u \in DOMAIN tasks |->
                        IF u = t THEN [tasks[u] EXCEPT !.state = "completed"]
                        ELSE IF tasks[u].state = "pending" /\ tasks[u].dependencies \subseteq done
                        THEN [tasks[u] EXCEPT !.state = "ready"] ELSE tasks[u]]
  <2>1. /\ TasksShaped(tasks') /\ DOMAIN tasks' = DOMAIN tasks
        /\ \A u \in DOMAIN tasks : /\ tasks'[u].role = tasks[u].role
                                   /\ tasks'[u].operation = tasks[u].operation
                                   /\ tasks'[u].dependencies = tasks[u].dependencies
                                   /\ tasks'[u].pin = tasks[u].pin
    <3>1. TasksShaped(tasks)
      BY DEF IntakeTypes
    <3> QED BY <1>3, <3>1 DEF TasksShaped
  <2>2. IntakeTypes'
    BY <1>1, <1>3, <2>1 DEF IntakeTypes
  <2>3. PlannerInv' /\ StartInv'
    BY <1>1, <1>3 DEF PlannerInv, StartInv
  <2>4. ActiveIsReady'
    BY <1>1, <1>3, <2>1, ReadyStays
  <2>5. StoredTasksSound'
    BY <1>1, <2>1, StoredStays
  <2> QED BY <2>2, <2>3, <2>4, <2>5
<1>4. CASE DispatchTask(t)
  BY <1>2, <1>3, <1>4 DEF DispatchTask
<1>5. CASE CompleteTask(t)
  BY <1>3, <1>5 DEF CompleteTask
<1> QED BY <1>4, <1>5

(* A run that executes does so with a team that can do its tasks, and what *)
(* was stored of an answer can be executed in some order, whatever the     *)
(* planner answers and whatever is changed meanwhile.                      *)
THEOREM IntakeIsSound == IntakeSpec => []IntakeSound
<1>1. IntakeInv /\ [IntakeNext]_IntakeVars => IntakeInv'
  <2> SUFFICES ASSUME IntakeInv, [IntakeNext]_IntakeVars PROVE IntakeInv'
    OBVIOUS
  <2>1. CASE Reconfigure
    <3>1. IntakeTypes'
      BY <2>1 DEF Reconfigure, IntakeInv, IntakeTypes, TasksShaped
    <3> QED BY <2>1, <3>1, RunUntouched DEF Reconfigure, IntakeInv
  <2>2. CASE UNCHANGED IntakeVars
    <3>1. IntakeTypes'
      BY <2>2 DEF IntakeVars, IntakeInv, IntakeTypes, TasksShaped
    <3> QED BY <2>2, <3>1, RunUntouched DEF IntakeVars, IntakeInv
  <2> QED BY <2>1, <2>2, TakeRunKeeps, PlanRunBeginsKeeps, PlannerKeeps, UpdateTeamKeeps, PinsKeep,
             PrepareStartKeeps, TasksKeep DEF IntakeNext
<1>2. IntakeInv => IntakeSound
  <2> SUFFICES ASSUME IntakeInv PROVE IntakeTypeOK
    BY DEF IntakeInv, IntakeSound
  <2>1. flow.team \in Teams /\ flow.status \in FlowStatuses
    BY DEF IntakeInv, IntakeTypes
  <2>2. planning # Idle => flow.status = "planning" /\ planning.tries < MaxPlanTries
    <3> SUFFICES ASSUME planning # Idle PROVE flow.status = "planning" /\ planning.tries < MaxPlanTries
      OBVIOUS
    <3>1. flow.status = "planning" /\ planning.tries \in 0 .. MaxPlanTries - 1
      BY DEF IntakeInv, IntakeTypes, PlannerInv
    <3> QED BY <3>1, IntakeConstants
  <2> QED BY <2>1, <2>2 DEF IntakeTypeOK, FlowStatuses
<1> QED BY <1>1, <1>2, IntakeStart, PTL DEF IntakeSpec
=============================================================================
