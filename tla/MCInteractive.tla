--------------------------- MODULE MCInteractive ---------------------------
(***************************************************************************)
(* The program's threads at its edges, on small instances for TLC: a       *)
(* terminal and the clients that watch it, and the supervision of a child  *)
(* process.  The two share no state, so a behaviour here is a behaviour of *)
(* one of them; a supervision that is not the subject has already ended.   *)
(***************************************************************************)
EXTENDS TerminalStream, Processes

CONSTANTS s1, s2

VARIABLE part

TwoSubscribers == {s1, s2}
OneTalks == [stdout |-> 2, stderr |-> 0]

NoSupervision ==
  /\ supervisor = "agent" /\ child = "reaped"
  /\ helper = [signals |-> "none", holds |-> FALSE, alive |-> FALSE]
  /\ stdin = "none"
  /\ written = [s \in Streams |-> 0] /\ read = written /\ received = written
  /\ reader = [s \in Streams |-> "eof"]
  /\ channel = <<>> /\ pc = "done" /\ turn = Batch
  /\ late = FALSE /\ grace = "unused" /\ cancel = FALSE
  /\ timedOut = FALSE /\ wasCancelled = FALSE /\ outcome = "ok"

InteractiveInit ==
  /\ Init
  /\ \/ part = "terminal" /\ NoSupervision
     \/ part = "processes" /\ ProcessInit

InteractiveNext ==
  /\ \/ part = "terminal" /\ Next
     \/ part # "terminal" /\ UNCHANGED vars
  /\ \/ part = "processes" /\ ProcessNext
     \/ part # "processes" /\ UNCHANGED ProcessVars
  /\ UNCHANGED part

InteractiveVars == <<vars, ProcessVars, part>>
InteractiveSpec ==
  /\ InteractiveInit /\ [][InteractiveNext]_InteractiveVars
  /\ Fairness /\ ProcessFairness

-----------------------------------------------------------------------------
(* Nobody is left waiting: not the client of a terminal that has ended,    *)
(* and not the caller of a process, whatever the process leaves behind.    *)
NobodyWaits == HandlersEnd /\ CallsEnd
=============================================================================
