----------------------------- MODULE Processes -----------------------------
(***************************************************************************)
(* The two supervisors of external processes: run_with_cancel of           *)
(* factory-proc (git and gh; a deadline, a cancellation flag) and          *)
(* run_observed of factory-agent (an agent; a cancellation flag only).     *)
(* The child leads a process group.  It may leave a helper behind, which   *)
(* obeys SIGTERM, ignores it, or has escaped from the group, and which may *)
(* hold the child's pipes.  Time is the passing of the deadline and of the *)
(* grace after a forced kill.  Unix; on Windows termination is one stage.  *)
(***************************************************************************)
EXTENDS Integers, Sequences, FiniteSets

CONSTANTS MaxWritten,           \* chunks written to each stream, at most (a bound)
          ChannelCapacity,  \* OUTPUT_CHANNEL_CAPACITY (32)
          Batch             \* receives before the next look at the child (64)
ASSUME ProcessAssumption ==
  {ChannelCapacity, Batch} \subseteq Nat \ {0} /\ MaxWritten \in [{"stdout", "stderr"} -> Nat]

VARIABLES
  supervisor,  \* "bounded" or "agent"
  child,       \* running, exited or reaped
  helper,      \* [signals, holds, alive]
  written,     \* per stream: the chunks written to its pipe
  read,        \* per stream: the chunks its reader thread has taken
  reader,      \* per stream: reading, sending (agent only), eof or failed
  stdin,       \* the agent's payload: none, writing, written or broken
  channel,     \* agent: the chunks on the way from the readers
  received,    \* agent: the chunks handled, per stream
  pc,          \* where the supervisor stands
  turn,        \* agent: receives left in this batch
  late,        \* the deadline has passed
  grace,       \* unused, running or over
  cancel,      \* the caller's flag
  timedOut, wasCancelled, outcome
ProcessVars == <<supervisor, child, helper, written, read, reader, stdin, channel, received,
                 pc, turn, late, grace, cancel, timedOut, wasCancelled, outcome>>

Streams == {"stdout", "stderr"}
Outcomes == {"none", "ok", "timed_out", "cancelled", "io"}

(* Whoever may still write to the pipes, or read the child's input.        *)
Held == child = "running" \/ (helper.alive /\ helper.holds)
ReadersDone == \A s \in Streams : reader[s] \in {"eof", "failed"}

Helpers == {h \in [signals : {"none", "obeys", "ignores", "escaped"}, holds : BOOLEAN, alive : BOOLEAN] :
              h.alive = (h.signals # "none") /\ (h.holds => h.alive)}
ProcessInit ==
  /\ supervisor \in {"bounded", "agent"}
  /\ child = "running"
  /\ helper \in Helpers
  /\ stdin \in IF supervisor = "agent" THEN {"none", "writing"} ELSE {"none"}
  /\ written = [s \in Streams |-> 0] /\ read = written /\ received = written
  /\ reader = [s \in Streams |-> "reading"]
  /\ channel = <<>> /\ pc = "poll" /\ turn = Batch
  /\ late = FALSE /\ grace = "unused" /\ cancel = FALSE
  /\ timedOut = FALSE /\ wasCancelled = FALSE /\ outcome = "none"

-----------------------------------------------------------------------------
(* The processes and the clock.                                            *)
SupervisorVars == <<pc, turn, timedOut, wasCancelled, outcome>>
PipeVars == <<written, read, reader, channel, received>>
ClockVars == <<late, grace, cancel>>

Emit(s) ==
  /\ Held /\ written[s] < MaxWritten[s]
  /\ written' = [written EXCEPT ![s] = @ + 1]
  /\ UNCHANGED <<supervisor, child, helper, read, reader, stdin, channel, received>>
  /\ UNCHANGED <<SupervisorVars, ClockVars>>
ChildExits ==
  /\ child = "running" /\ child' = "exited"
  /\ UNCHANGED <<supervisor, helper, stdin>> /\ UNCHANGED <<SupervisorVars, PipeVars, ClockVars>>
HelperExits ==
  /\ helper.alive /\ helper' = [helper EXCEPT !.alive = FALSE]
  /\ UNCHANGED <<supervisor, child, stdin>> /\ UNCHANGED <<SupervisorVars, PipeVars, ClockVars>>
DeadlinePasses ==
  /\ supervisor = "bounded" /\ ~late /\ late' = TRUE
  /\ UNCHANGED <<supervisor, child, helper, stdin, grace, cancel>>
  /\ UNCHANGED <<SupervisorVars, PipeVars>>
GracePasses ==
  /\ grace = "running" /\ grace' = "over"
  /\ UNCHANGED <<supervisor, child, helper, stdin, late, cancel>>
  /\ UNCHANGED <<SupervisorVars, PipeVars>>
CancelRequested ==
  /\ pc # "done" /\ ~cancel /\ cancel' = TRUE
  /\ UNCHANGED <<supervisor, child, helper, stdin, late, grace>>
  /\ UNCHANGED <<SupervisorVars, PipeVars>>

(* kill -TERM or -KILL to the group, then child.kill(): the child dies, a  *)
(* helper of the group if the signal is one it cannot ignore.              *)
Killed(h, hard) ==
  [h EXCEPT !.alive = @ /\ (h.signals = "escaped" \/ (h.signals = "ignores" /\ ~hard))]
TerminateTree(hard) ==
  /\ child' = IF child = "running" THEN "exited" ELSE child
  /\ helper' = Killed(helper, hard)

-----------------------------------------------------------------------------
(* The reader threads and the thread that writes the agent's input.        *)
ReaderStep(s) ==
  /\ reader[s] = "reading"
  /\ \/ /\ read[s] < written[s]
        /\ read' = [read EXCEPT ![s] = @ + 1]
        /\ reader' = IF supervisor = "agent" THEN [reader EXCEPT ![s] = "sending"] ELSE reader
     \/ /\ read[s] = written[s] /\ ~Held
        /\ reader' = [reader EXCEPT ![s] = "eof"] /\ UNCHANGED read
  /\ UNCHANGED <<supervisor, child, helper, written, stdin, channel, received>>
  /\ UNCHANGED <<SupervisorVars, ClockVars>>
ReaderFails(s) ==
  /\ reader[s] = "reading" /\ reader' = [reader EXCEPT ![s] = "failed"]
  /\ UNCHANGED <<supervisor, child, helper, written, read, stdin, channel, received>>
  /\ UNCHANGED <<SupervisorVars, ClockVars>>
Send(s) ==
  /\ reader[s] = "sending" /\ Len(channel) < ChannelCapacity
  /\ channel' = Append(channel, s) /\ reader' = [reader EXCEPT ![s] = "reading"]
  /\ UNCHANGED <<supervisor, child, helper, written, read, stdin, received>>
  /\ UNCHANGED <<SupervisorVars, ClockVars>>
StdinWriter ==
  /\ stdin = "writing"
  /\ stdin' \in IF Held THEN {"written"} ELSE {"broken"}
  /\ UNCHANGED <<supervisor, child, helper>> /\ UNCHANGED <<SupervisorVars, PipeVars, ClockVars>>

-----------------------------------------------------------------------------
(* run_with_cancel.                                                        *)
BoundedStep == supervisor = "bounded" /\ UNCHANGED <<supervisor, stdin, PipeVars, turn>>

(* One turn of the supervision loop: the child, the deadline, the flag.    *)
PollChild ==
  /\ BoundedStep /\ pc = "poll" /\ UNCHANGED <<child, helper, ClockVars>>
  /\ \/ child = "exited" /\ pc' = "reap" /\ UNCHANGED <<timedOut, wasCancelled, outcome>>
     \/ /\ child = "running" /\ late
        /\ timedOut' = TRUE /\ pc' = "terminate" /\ UNCHANGED <<wasCancelled, outcome>>
     \/ /\ child = "running" /\ ~late /\ cancel
        /\ wasCancelled' = TRUE /\ pc' = "terminate" /\ UNCHANGED <<timedOut, outcome>>
PollFails ==
  /\ BoundedStep /\ pc = "poll" /\ TerminateTree(FALSE)
  /\ outcome' = "io" /\ pc' = "done" /\ UNCHANGED <<timedOut, wasCancelled, ClockVars>>
Terminate ==
  /\ BoundedStep /\ pc = "terminate" /\ TerminateTree(FALSE) /\ pc' = "reap"
  /\ UNCHANGED <<timedOut, wasCancelled, outcome, ClockVars>>
Reap ==
  /\ BoundedStep /\ pc = "reap" /\ child = "exited" /\ child' = "reaped" /\ pc' = "drain"
  /\ UNCHANGED <<helper, timedOut, wasCancelled, outcome, ClockVars>>

(* What the call returns, once the readers are joined or given up.         *)
Result(isLate, isCancelled, complete) ==
  CASE isLate -> "timed_out" [] ~isLate /\ isCancelled -> "cancelled"
    [] ~isLate /\ ~isCancelled /\ ~complete -> "io" [] OTHER -> "ok"
\* Mutant: a reader that failed is taken for one that reached the end.
ReadersStopped == ReadersDone
Complete == \A s \in Streams : reader[s] = "eof"

\* Mutant: the flag is not looked at, nor the deadline, during the drain.
DrainPatiently ==
  /\ BoundedStep /\ pc = "drain" /\ ReadersDone
  /\ outcome' = Result(timedOut, wasCancelled, Complete) /\ pc' = "done"
  /\ UNCHANGED <<child, helper, timedOut, wasCancelled, ClockVars>>
(* One slice of the drain; the deadline and the flag come before the       *)
(* channel, and lead to a forced kill.                                     *)
DrainSlice ==
  /\ BoundedStep /\ pc = "drain"
  /\ IF late \/ cancel
     THEN /\ TerminateTree(TRUE)
          /\ timedOut' = (timedOut \/ late) /\ wasCancelled' = (wasCancelled \/ ~late)
          /\ grace' = "running" /\ pc' = "grace" /\ UNCHANGED <<late, cancel, outcome>>
     ELSE /\ ReadersDone
          /\ outcome' = Result(timedOut, wasCancelled, Complete) /\ pc' = "done"
          /\ UNCHANGED <<child, helper, timedOut, wasCancelled, ClockVars>>
ForceDrain ==
  /\ BoundedStep /\ pc = "grace" /\ (ReadersDone \/ grace = "over")
  /\ outcome' = Result(timedOut, wasCancelled, Complete) /\ pc' = "done"
  /\ UNCHANGED <<child, helper, timedOut, wasCancelled, ClockVars>>

-----------------------------------------------------------------------------
(* run_observed: up to Batch receives, the flag, the child; when it has    *)
(* exited, all that is left until both readers have gone.                  *)
AgentStep == supervisor = "agent" /\ UNCHANGED <<supervisor, stdin, written, read, reader, timedOut, ClockVars>>
ReceiveChunk ==
  /\ channel # <<>>
  /\ channel' = Tail(channel) /\ received' = [received EXCEPT ![Head(channel)] = @ + 1]
HandleChunk ==
  /\ AgentStep /\ pc = "poll" /\ turn > 0 /\ ReceiveChunk
  /\ turn' = IF cancel THEN 0 ELSE turn - 1
  /\ UNCHANGED <<child, helper, pc, wasCancelled, outcome>>
LookAtChild ==
  /\ AgentStep /\ pc = "poll" /\ (turn = 0 \/ channel = <<>>)
  /\ turn' = Batch
  /\ wasCancelled' = (wasCancelled \/ cancel)
  /\ IF cancel /\ ~wasCancelled THEN TerminateTree(FALSE) /\ UNCHANGED pc
     ELSE /\ UNCHANGED helper
          /\ IF child = "exited" THEN child' = "reaped" /\ pc' = "finish" ELSE UNCHANGED <<child, pc>>
  /\ UNCHANGED <<channel, received, outcome>>
TryWaitFails ==
  /\ AgentStep /\ pc = "poll" /\ outcome' = "io" /\ pc' = "done"
  /\ UNCHANGED <<child, helper, channel, received, turn, wasCancelled>>
Finish ==
  /\ AgentStep /\ pc = "finish" /\ ReceiveChunk
  /\ UNCHANGED <<child, helper, pc, turn, wasCancelled, outcome>>
Joined ==
  /\ AgentStep /\ pc = "finish" /\ channel = <<>> /\ ReadersDone /\ stdin # "writing"
  /\ outcome' = IF ~wasCancelled /\ ~Complete THEN "io" ELSE IF wasCancelled THEN "cancelled" ELSE "ok"
  /\ pc' = "done"
  /\ UNCHANGED <<child, helper, channel, received, turn, wasCancelled>>

-----------------------------------------------------------------------------
BoundedCall == PollChild \/ Terminate \/ Reap \/ DrainSlice \/ ForceDrain
AgentCall == HandleChunk \/ LookAtChild \/ Finish \/ Joined
ProcessThreads == StdinWriter \/ \E s \in Streams : ReaderStep(s) \/ Send(s)
ProcessNext ==
  \/ BoundedCall \/ PollFails \/ AgentCall \/ TryWaitFails \/ ProcessThreads
  \/ \E s \in Streams : Emit(s) \/ ReaderFails(s)
  \/ ChildExits \/ HelperExits \/ DeadlinePasses \/ GracePasses \/ CancelRequested

(* The threads are scheduled and time passes; no process has to end.       *)
ProcessFairness ==
  /\ WF_ProcessVars(BoundedCall) /\ WF_ProcessVars(AgentCall)
  /\ WF_ProcessVars(StdinWriter)
  /\ \A s \in Streams : WF_ProcessVars(ReaderStep(s)) /\ WF_ProcessVars(Send(s))
  /\ WF_ProcessVars(DeadlinePasses) /\ WF_ProcessVars(GracePasses)
ProcessSpec == ProcessInit /\ [][ProcessNext]_ProcessVars /\ ProcessFairness

-----------------------------------------------------------------------------
(* A call that reports success has all that was ever written, by whoever   *)
(* held the pipes, and leaves no zombie; a call says it was stopped only   *)
(* when it was; and a bounded call that was stopped leaves no process that *)
(* holds its pipes, unless it left the group or a reader had failed.       *)
CallsAreWhole ==
  /\ outcome = "ok" =>
       /\ read = written /\ ~Held /\ (supervisor = "agent" => received = written)
       /\ child = "reaped" /\ ~timedOut /\ ~wasCancelled
  /\ (outcome = "timed_out" => late) /\ (outcome = "cancelled" => cancel /\ child = "reaped")
  /\ supervisor = "bounded" /\ outcome \in {"timed_out", "cancelled"} =>
       /\ child = "reaped"
       /\ helper.alive /\ helper.holds =>
            helper.signals = "escaped" \/ \E s \in Streams : reader[s] = "failed"

HoldsOn == helper.alive /\ helper.holds /\ helper.signals # "obeys"

(* A bounded call ends whatever the processes do; an agent's ends once it  *)
(* has exited or the flag is set, when nothing it leaves behind keeps its  *)
(* pipes: no helper that outlives SIGTERM.                                 *)
CallsEnd ==
  /\ supervisor = "bounded" ~> pc = "done"
  /\ (supervisor = "agent" /\ (cancel \/ child # "running") /\ ~helper.holds) ~> pc = "done"
  /\ (supervisor = "agent" /\ cancel /\ ~wasCancelled /\ pc = "poll") ~> (pc = "done" \/ HoldsOn)
=============================================================================
