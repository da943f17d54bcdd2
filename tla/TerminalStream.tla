--------------------------- MODULE TerminalStream ---------------------------
(***************************************************************************)
(* One interactive terminal of the runtime: a thread that pumps the output *)
(* of a pseudo terminal into a history and into the bounded queue of every *)
(* subscriber, the WebSocket handlers that subscribe, receive and leave,   *)
(* and the thread that ends the session.                                   *)
(*                                                                         *)
(* A byte is its position in the output, so a chunk is an interval, from   *)
(* its first byte up to the one after its last.  The history is a suffix   *)
(* of the output; which one makes no difference to what follows it.  The   *)
(* pump holds the lock of the output during a whole publication, and takes *)
(* the lock of each queue in turn; a receiver takes that of its own only.  *)
(***************************************************************************)
EXTENDS Naturals, Sequences, FiniteSets

CONSTANTS
    Subscribers,    \* WebSocket handlers, each of which subscribes once
    MaxSubscribers, \* MAX_TERMINAL_SUBSCRIBERS
    MaxBytes,       \* MAX_TERMINAL_SUBSCRIBER_BYTES
    MaxChunks,      \* MAX_TERMINAL_SUBSCRIBER_CHUNKS
    MaxRead,        \* bytes one read of the pseudo terminal may return
    MaxOutput       \* bound: bytes the session ever writes

ASSUME TerminalAssumption ==
    /\ {MaxSubscribers, MaxBytes, MaxChunks} \subseteq Nat \ {0}
    /\ {MaxRead, MaxOutput} \subseteq Nat
    /\ IsFiniteSet(Subscribers)

VARIABLES
    \* of the terminal
    total,      \* bytes published so far
    closed,     \* TerminalOutput::closed
    listed,     \* TerminalOutput::subscribers
    chunk,      \* first byte of the latest chunk
    offer,      \* subscribers the pump has still to offer it to
    pump,       \* what the pump does next
    session,    \* what the thread that ends the session does next
    transcript, \* the session's row holds some text so far, or the final history
    \* of each subscriber's queue
    queue,      \* its chunks
    bytes,      \* its count of bytes
    done,       \* its flag `closed`
    overflowed,
    permit,     \* a wakeup for its receiver is stored
    \* of each subscriber's handler
    handler,    \* what it does next
    seen,       \* the next byte it expects, those before it being sent
    farewell    \* how it closes the socket

terminal == <<total, closed, chunk, pump, session, transcript>>
queues   == <<queue, bytes, done, overflowed, permit>>
handlers == <<handler, seen, farewell>>
vars     == <<terminal, listed, offer, queues, handlers>>

Positions == 0 .. MaxOutput

Chunks == [from : Positions, to : Positions]

Farewells == {"none", "backpressure", "ended"}

TypeOK ==
    /\ total \in Positions /\ chunk \in Positions
    /\ closed \in BOOLEAN /\ session \in {"await", "leave", "left"}
    /\ pump \in {"read", "publish", "finish", "ended"}
    /\ listed \in SUBSET Subscribers
    /\ offer \in SUBSET Subscribers
    /\ transcript \in {"partial", "final"}
    /\ queue \in [Subscribers -> Seq(Chunks)]
    /\ bytes \in [Subscribers -> Positions]
    /\ done \in [Subscribers -> BOOLEAN]
    /\ overflowed \in [Subscribers -> BOOLEAN]
    /\ permit \in [Subscribers -> BOOLEAN]
    /\ handler \in [Subscribers ->
            {"none", "poll", "wait", "closed", "lost", "drop", "remove", "gone"}]
    /\ seen \in [Subscribers -> Positions]
    /\ farewell \in [Subscribers -> Farewells]

Init ==
    /\ total = 0 /\ chunk = 0
    /\ closed = FALSE
    /\ session = "await"
    /\ pump = "read"
    /\ listed = {} /\ offer = {}
    /\ transcript = "partial"
    /\ queue = [s \in Subscribers |-> <<>>]
    /\ bytes = [s \in Subscribers |-> 0]
    /\ done = [s \in Subscribers |-> FALSE]
    /\ overflowed = [s \in Subscribers |-> FALSE]
    /\ permit = [s \in Subscribers |-> FALSE]
    /\ handler = [s \in Subscribers |-> "none"]
    /\ seen = [s \in Subscribers |-> 0]
    /\ farewell = [s \in Subscribers |-> "none"]

-----------------------------------------------------------------------------
(***************************************************************************)
(* The pump: publish a chunk, write text to the database, and at the end   *)
(* close every queue.                                                      *)
(***************************************************************************)

\* The lock of the output is taken; the subscribers in the list are next.
ReadChunk ==
    /\ pump = "read"
    /\ \E size \in 1 .. MaxRead :
        /\ total + size <= MaxOutput
        /\ total' = total + size
    /\ chunk' = total
    /\ offer' = listed
    /\ pump' = "publish"
    /\ UNCHANGED <<closed, session, transcript, listed, queues, handlers>>

Size == total - chunk

Latest == [from |-> chunk, to |-> total]

\* Mutant: the count of bytes is not looked at.
FitsByChunks(s) == Len(queue[s]) < MaxChunks

Fits(s) ==
    /\ Size <= MaxBytes
    /\ bytes[s] + Size <= MaxBytes
    /\ Len(queue[s]) < MaxChunks

Offered(s) == pump = "publish" /\ s \in offer /\ offer' = offer \ {s}

\* Mutant: the receiver is not woken.
EnqueueQuietly(s) ==
    /\ Offered(s)
    /\ ~done[s] /\ Fits(s)
    /\ queue' = [queue EXCEPT ![s] = Append(@, Latest)]
    /\ bytes' = [bytes EXCEPT ![s] = @ + Size]
    /\ UNCHANGED <<terminal, listed, done, overflowed, permit, handlers>>

\* TerminalSubscriberQueue::enqueue.
Enqueue(s) ==
    /\ Offered(s)
    /\ ~done[s] /\ Fits(s)
    /\ queue' = [queue EXCEPT ![s] = Append(@, Latest)]
    /\ bytes' = [bytes EXCEPT ![s] = @ + Size]
    /\ permit' = [permit EXCEPT ![s] = TRUE]
    /\ UNCHANGED <<terminal, listed, done, overflowed, handlers>>

\* Mutant: a queue without room misses the chunk, and stays.
Skip(s) ==
    /\ Offered(s)
    /\ ~done[s] /\ ~Fits(s)
    /\ permit' = [permit EXCEPT ![s] = TRUE]
    /\ UNCHANGED <<terminal, listed, queue, bytes, done, overflowed, handlers>>

\* Mutant: the chunks are not dropped with their count.
OverflowUncleared(s) ==
    /\ Offered(s)
    /\ ~done[s] /\ ~Fits(s)
    /\ bytes' = [bytes EXCEPT ![s] = 0]
    /\ done' = [done EXCEPT ![s] = TRUE]
    /\ overflowed' = [overflowed EXCEPT ![s] = TRUE]
    /\ permit' = [permit EXCEPT ![s] = TRUE]
    /\ listed' = listed \ {s}
    /\ UNCHANGED <<terminal, queue, handlers>>

\* A queue without room is emptied and closed, since its reader would miss bytes,
\* and loses its place.
Overflow(s) ==
    /\ Offered(s)
    /\ ~done[s] /\ ~Fits(s)
    /\ queue' = [queue EXCEPT ![s] = <<>>]
    /\ bytes' = [bytes EXCEPT ![s] = 0]
    /\ done' = [done EXCEPT ![s] = TRUE]
    /\ overflowed' = [overflowed EXCEPT ![s] = TRUE]
    /\ permit' = [permit EXCEPT ![s] = TRUE]
    /\ listed' = listed \ {s}
    /\ UNCHANGED <<terminal, handlers>>

\* A queue whose receiver was dropped.
Evict(s) ==
    /\ Offered(s)
    /\ done[s]
    /\ listed' = listed \ {s}
    /\ UNCHANGED <<terminal, queues, handlers>>

\* The lock is released, and the decoded text appended to the session's row, now
\* or with a later batch.
Published ==
    /\ pump = "publish" /\ offer = {}
    /\ pump' = "read"
    /\ transcript' \in {transcript, "partial"}
    /\ UNCHANGED <<total, closed, chunk, session, listed, offer, queues, handlers>>

\* The end of the output, or an error of the read.
EndOfOutput ==
    /\ pump = "read"
    /\ transcript' \in {transcript, "partial"}
    /\ pump' = "finish"
    /\ UNCHANGED <<total, closed, chunk, session, listed, offer, queues,
                   handlers>>

\* Mutant: the receivers are not woken.
CloseQuietly ==
    /\ pump = "finish"
    /\ closed' = TRUE
    /\ listed' = {}
    /\ done' = [s \in Subscribers |-> done[s] \/ s \in listed]
    /\ pump' = "ended"
    /\ UNCHANGED <<total, chunk, session, transcript, offer, queue,
                   bytes, overflowed, permit, handlers>>

\* Mutant: the queues are discarded, as when a receiver is dropped.
CloseDiscarding ==
    /\ pump = "finish"
    /\ closed' = TRUE
    /\ listed' = {}
    /\ done' = [s \in Subscribers |-> done[s] \/ s \in listed]
    /\ permit' = [s \in Subscribers |-> permit[s] \/ s \in listed]
    /\ queue' = [s \in Subscribers |-> <<>>]
    /\ bytes' = [s \in Subscribers |-> 0]
    /\ pump' = "ended"
    /\ UNCHANGED <<total, chunk, session, transcript, offer, overflowed, handlers>>

\* close_subscribers.  What is queued stays to be received.  That the queues are
\* closed one after another makes no difference: each has a receiver of its own,
\* and the lock of the output is held.
CloseSubscribers ==
    /\ pump = "finish"
    /\ closed' = TRUE
    /\ listed' = {}
    /\ done' = [s \in Subscribers |-> done[s] \/ s \in listed]
    /\ permit' = [s \in Subscribers |-> permit[s] \/ s \in listed]
    /\ pump' = "ended"
    /\ UNCHANGED <<total, chunk, session, transcript, offer, queue,
                   bytes, overflowed, handlers>>

Pump ==
    \/ \E s \in Subscribers : Enqueue(s) \/ Overflow(s) \/ Evict(s)
    \/ Published \/ CloseSubscribers

\* Mutant: the session ends with the process, not with its output.
RecordAtExit ==
    /\ session = "await"
    /\ transcript' \in {transcript, "final"}
    /\ session' = "leave"
    /\ UNCHANGED <<total, closed, chunk, pump, listed, offer, queues, handlers>>

\* The thread that waits for the process, and then for the pump: the history
\* becomes the transcript, unless the database fails, ...
RecordTranscript ==
    /\ session = "await" /\ pump = "ended"
    /\ transcript' \in {transcript, "final"}
    /\ session' = "leave"
    /\ UNCHANGED <<total, closed, chunk, pump, listed, offer, queues, handlers>>

\* ... and the session leaves the runtime's map of terminals.
LeaveMap ==
    /\ session = "leave"
    /\ session' = "left"
    /\ UNCHANGED <<total, closed, chunk, pump, transcript, listed, offer, queues,
                   handlers>>

-----------------------------------------------------------------------------
(***************************************************************************)
(* A handler: subscribe, receive until the queue is closed or the client   *)
(* is lost, say farewell, and drop the receiver.                           *)
(***************************************************************************)
Unlocked == pump # "publish"

Goto(s, label) == handler' = [handler EXCEPT ![s] = label]

\* subscribe_terminal_output: the snapshot ends where the queue begins.
Subscribe(s) ==
    /\ handler[s] = "none" /\ session # "left" /\ Unlocked
    /\ closed \/ Cardinality(listed) < MaxSubscribers
    /\ Goto(s, "poll")
    /\ seen' = [seen EXCEPT ![s] = total]
    /\ listed' = IF closed THEN listed ELSE listed \cup {s}
    /\ done' = [done EXCEPT ![s] = closed]
    /\ permit' = [permit EXCEPT ![s] = closed]
    /\ UNCHANGED <<terminal, offer, queue, bytes, overflowed, farewell>>

\* TerminalReceiver::recv polls, and the chunk is sent.
Receive(s) ==
    /\ handler[s] = "poll"
    /\ queue[s] # <<>>
    /\ seen' = [seen EXCEPT ![s] = Head(queue[s]).to]
    /\ queue' = [queue EXCEPT ![s] = Tail(@)]
    /\ bytes' = [bytes EXCEPT ![s] = @ - (Head(queue[s]).to - Head(queue[s]).from)]
    /\ UNCHANGED <<terminal, listed, offer, done, overflowed, permit, handler,
                   farewell>>

FindClosed(s) ==
    /\ handler[s] = "poll"
    /\ queue[s] = <<>> /\ done[s]
    /\ Goto(s, "closed")
    /\ UNCHANGED <<terminal, listed, offer, queues, seen, farewell>>

FindEmpty(s) ==
    /\ handler[s] = "poll"
    /\ queue[s] = <<>> /\ ~done[s]
    /\ Goto(s, "wait")
    /\ UNCHANGED <<terminal, listed, offer, queues, seen, farewell>>

Wake(s) ==
    /\ handler[s] = "wait"
    /\ permit[s]
    /\ permit' = [permit EXCEPT ![s] = FALSE]
    /\ Goto(s, "poll")
    /\ UNCHANGED <<terminal, listed, offer, queue, bytes, done, overflowed, seen,
                   farewell>>

\* A message of the client interrupts the wait.
ClientWrites(s) ==
    /\ handler[s] = "wait"
    /\ Goto(s, "poll")
    /\ UNCHANGED <<terminal, listed, offer, queues, seen, farewell>>

\* The client left, or a message to it could not be sent in time; after a snapshot
\* that could not be sent no farewell is tried.
ClientLost(s) ==
    /\ handler[s] \in {"poll", "wait"}
    /\ \E next \in {"lost", "drop"} : Goto(s, next)
    /\ UNCHANGED <<terminal, listed, offer, queues, seen, farewell>>

\* Mutant: every close of the queue is the end of the session.
AlwaysEnded(s) == IF handler[s] = "closed" THEN "ended" ELSE "none"

\* The close frame.  A client that was lost may still get one.
Farewell(s) ==
    IF overflowed[s] THEN "backpressure"
    ELSE IF handler[s] = "closed" THEN "ended"
    ELSE "none"

SayFarewell(s) ==
    /\ handler[s] \in {"closed", "lost"}
    /\ farewell' = [farewell EXCEPT ![s] = Farewell(s)]
    /\ Goto(s, "drop")
    /\ UNCHANGED <<terminal, listed, offer, queues, seen>>

\* TerminalReceiver::drop: the queue is discarded, and later the list cleaned,
\* if it still names the subscriber.
Discard(s) ==
    /\ handler[s] = "drop"
    /\ queue' = [queue EXCEPT ![s] = <<>>]
    /\ bytes' = [bytes EXCEPT ![s] = 0]
    /\ done' = [done EXCEPT ![s] = TRUE]
    /\ permit' = [permit EXCEPT ![s] = TRUE]
    /\ Goto(s, "remove")
    /\ UNCHANGED <<terminal, listed, offer, overflowed, seen, farewell>>

\* Mutant: the list is left to the next publication.
RemoveLater(s) ==
    /\ handler[s] = "remove"
    /\ Goto(s, "gone")
    /\ UNCHANGED <<terminal, listed, offer, queues, seen, farewell>>

Remove(s) ==
    /\ handler[s] = "remove" /\ Unlocked
    /\ listed' = listed \ {s}
    /\ Goto(s, "gone")
    /\ UNCHANGED <<terminal, offer, queues, seen, farewell>>

Handle(s) ==
    \/ Receive(s) \/ FindClosed(s) \/ FindEmpty(s) \/ Wake(s)
    \/ SayFarewell(s) \/ Discard(s) \/ Remove(s)

-----------------------------------------------------------------------------
Next ==
    \/ ReadChunk \/ EndOfOutput \/ Pump \/ RecordTranscript \/ LeaveMap
    \/ \E s \in Subscribers :
        Subscribe(s) \/ Handle(s) \/ ClientWrites(s) \/ ClientLost(s)

Spec == Init /\ [][Next]_vars

\* A handler that can go on does: it only waits for a wakeup or the lock, and what it
\* sends has a timeout.  The pump finishes a publication, which waits for nobody.
\* Nothing is assumed of the pseudo terminal or of clients.
Fairness == WF_vars(Pump) /\ \A s \in Subscribers : WF_vars(Handle(s))
FairSpec == Spec /\ Fairness

-----------------------------------------------------------------------------
(***************************************************************************)
(* Safety.                                                                 *)
(***************************************************************************)

\* The end of what a subscriber's queue holds.
QueueEnd(s) == IF queue[s] = <<>> THEN seen[s] ELSE queue[s][Len(queue[s])].to

\* Where the snapshot ends the queue begins, and the queue holds all that was
\* published since, without a gap, unless it was closed.
NothingMissed ==
    \A s \in Subscribers :
        /\ queue[s] # <<>> =>
            /\ queue[s][1].from = seen[s]
            /\ \A i \in 1 .. Len(queue[s]) - 1 : queue[s][i].to = queue[s][i + 1].from
        /\ handler[s] # "none" /\ ~done[s] =>
            QueueEnd(s) = IF s \in offer THEN chunk ELSE total

\* The count that decides about overflow is the size of the queue, and neither
\* limit is ever exceeded.
CountIsSize ==
    \A s \in Subscribers :
        /\ bytes[s] = QueueEnd(s) - seen[s]
        /\ bytes[s] <= MaxBytes
        /\ Len(queue[s]) <= MaxChunks

\* A client's queue is what it has still to be sent, and is counted right.
QueuesSound == TypeOK /\ NothingMissed /\ CountIsSize

\* A client that is told the session ended has been sent every byte of it, and
\* one that is told it was too slow has not.
FarewellIsTrue ==
    \A s \in Subscribers :
        /\ farewell[s] = "ended" => closed /\ seen[s] = total
        /\ farewell[s] = "backpressure" => seen[s] < total

\* A handler that is gone holds no place among the subscribers, and the limit
\* on them holds.
PlacesFreed ==
    /\ \A s \in listed : handler[s] \notin {"none", "gone"}
    /\ Cardinality(listed) <= MaxSubscribers

\* Nothing is appended to the transcript after the final history was written: two
\* threads write the session's row, and the pump is always the first.
TranscriptFinal == [][transcript = "final" => transcript' = "final"]_vars

\* No wakeup is lost: a handler that waits while its queue holds a chunk, or was
\* closed, has a permit that wakes it.
WakeupStored ==
    \A s \in Subscribers :
        handler[s] = "wait" /\ (queue[s] # <<>> \/ done[s]) => permit[s]

\* A handler is woken, says what is true, and leaves nothing behind.
HandlersSound == WakeupStored /\ FarewellIsTrue /\ PlacesFreed

(***************************************************************************)
(* Liveness, under FairSpec.                                               *)
(***************************************************************************)
\* A handler whose queue overflowed or was closed comes to its end and leaves,
\* even if its client never sends another message.
HandlersEnd == \A s \in Subscribers : done[s] ~> handler[s] = "gone"

(***************************************************************************)
(* The promise this implements: see TerminalFeed.                          *)
(***************************************************************************)
Feed == INSTANCE TerminalFeed WITH
    presence <- [s \in Subscribers |->
        IF handler[s] = "none" THEN "away"
        ELSE IF handler[s] \in {"poll", "wait", "closed", "lost"} THEN "joined"
        ELSE "left"]

\* Through queues, evictions, wakeups and drops every subscriber gets the output
\* in order and without a gap, and no false farewell.
ImplementsFeed == Feed!Spec
=============================================================================
