------------------------------- MODULE MCWork -------------------------------
(***************************************************************************)
(* Agents at work, on small instances for TLC: the attempts of a run with  *)
(* their worktrees, the choice of an agent for each, the external tools it *)
(* calls, the capture of what it prints, what the API tells of it all, and *)
(* how the agents are measured.  The parts share no state, so a behaviour  *)
(* here is a behaviour of one of them.                                     *)
(***************************************************************************)
EXTENDS MCAttempts, Routing, McpTools, Streams, Reads, Eval

CONSTANTS k1, k2, x, y, r1

VARIABLE part

-----------------------------------------------------------------------------
(* Two agents, every answer of the checks a choice depends on.             *)
TwoAgents == <<"b", "a">>
Alphabetical == [agent \in {"a", "b"} |-> IF agent = "a" THEN 1 ELSE 2]
FactSets(modes, merits, pins, rejections, explored) ==
  {[mode |-> m, permitted |-> p, installed |-> i, merit |-> s, preferred |-> first, pinned |-> pin,
    rejected |-> no, explore |-> e] :
     m \in modes, p \in SUBSET {"a", "b"}, i \in SUBSET {"a", "b"}, s \in merits,
     first \in {"b", "no agent"}, pin \in pins, no \in rejections, e \in explored}
Unmeasured == [agent \in {"a", "b"} |-> -1]
SomeFacts ==
  FactSets({"round_robin", "manual"}, {Unmeasured}, {"no agent"}, {{}}, {FALSE})
    \cup FactSets({"manual"}, {Unmeasured}, {"a"}, {{}}, {FALSE})
    \cup FactSets({"performance"}, [{"a", "b"} -> {-1, 100, 102}], {"no agent"}, {{}, {"b"}}, BOOLEAN)

(* Two tools of a server, of which the policy permits one.                 *)
SomeExposures == {{x, y}, {x}}
OnePermit == {{x}}

(* Secrets that overlap, that nest, and with a character of two bytes.     *)
SomeSecrets == {{<<"a", "b">>, <<"b", Wide, "b">>}, {<<"a", "b", "a">>, <<"b">>}, {<<"a", Wide, "a">>, <<"b", "b">>}}

(* A run of two tasks: an implementation and the review of it.             *)
TwoShown == <<[op |-> "implement", deps |-> {}], [op |-> "review", deps |-> {1}]>>

(* Attempts that end well, that are sent back and that fail; an            *)
(* implementation in one language, and a verification.                     *)
SomeEndings ==
  {[status |-> "approved", cause |-> "none",
    sessions |-> <<[operation |-> "implement", ms |-> 2], [operation |-> "review", ms |-> 1]>>],
   [status |-> "changes_requested", cause |-> "none",
    sessions |-> <<[operation |-> "implement", ms |-> 0], [operation |-> "review", ms |-> 1]>>],
   [status |-> "failed", cause |-> "agent_failed", sessions |-> <<>>]}
TwoWorks == <<[role |-> "worker", operation |-> "implement", languages |-> {"rust"}],
              [role |-> "worker", operation |-> "verify", languages |-> {}]>>
OneQuestion == {[agent |-> "a", task |-> 1, language |-> "rust"]}

-----------------------------------------------------------------------------
Subjects == {"attempts", "routing", "tools", "streams", "reads", "evaluation"}

WorkInit ==
  /\ part \in Subjects
  /\ AttemptsInit /\ (part # "attempts" => plan = CHOOSE p \in Plans : TRUE)
  /\ RouteInit
  /\ McpInit
  /\ StreamsInit /\ (part # "streams" => secrets = CHOOSE s \in SecretSets : TRUE)
  /\ ReadInit /\ (part # "reads" => topic = "pages")
  /\ EvalInit

WorkNext ==
  /\ \/ part = "attempts" /\ AttemptsNext
     \/ part # "attempts" /\ UNCHANGED AttemptVars
  /\ \/ part = "routing" /\ RouteNext
     \/ part # "routing" /\ UNCHANGED RouteVars
  /\ \/ part = "tools" /\ McpNext
     \/ part # "tools" /\ UNCHANGED McpVars
  /\ \/ part = "streams" /\ StreamsNext
     \/ part # "streams" /\ UNCHANGED StreamVars
  /\ \/ part = "reads" /\ ReadNext
     \/ part # "reads" /\ UNCHANGED ReadVars
  /\ \/ part = "evaluation" /\ EvalNext
     \/ part # "evaluation" /\ UNCHANGED EvalVars
  /\ UNCHANGED part

WorkVars == <<AttemptVars, RouteVars, McpVars, StreamVars, ReadVars, EvalVars, part>>
WorkSpec == WorkInit /\ [][WorkNext]_WorkVars

=============================================================================
