------------------------ MODULE TerminalStream_proof ------------------------
(***************************************************************************)
(* Proofs about TerminalStream for any subscribers, limits and output.     *)
(***************************************************************************)
EXTENDS TerminalStream, TLAPS, FiniteSetTheorems, SequenceTheorems

\* A queue q is a run of chunks from a up to b: without a gap and in order.
Run(q, a, b) ==
    /\ q = <<>> => a = b
    /\ q # <<>> => q[1].from = a /\ q[Len(q)].to = b
    /\ \A i \in 1 .. Len(q) : a <= q[i].from /\ q[i].from < q[i].to /\ q[i].to <= b
    /\ \A i \in 1 .. Len(q) - 1 : q[i].to = q[i + 1].from
    /\ \A i, j \in 1 .. Len(q) : i < j => q[i].to <= q[j].from

\* What enqueue does to a run.
LEMMA RunAppend ==
    ASSUME NEW q \in Seq(Chunks), NEW a \in Nat, NEW b \in Nat, NEW c \in Chunks,
           Run(q, a, b), c.from = b, c.from < c.to
    PROVE  Append(q, c) \in Seq(Chunks) /\ Run(Append(q, c), a, c.to)
<1> DEFINE r == Append(q, c)
<1>1. /\ r \in Seq(Chunks) /\ Len(r) = Len(q) + 1 /\ r # <<>>
      /\ \A i \in 1 .. Len(q) : r[i] = q[i]
      /\ r[Len(q) + 1] = c
  OBVIOUS
<1>2. /\ \A i \in 1 .. Len(q) : q[i].from \in Nat /\ q[i].to \in Nat
      /\ c.from \in Nat /\ c.to \in Nat /\ Len(q) \in Nat
      /\ q = <<>> <=> Len(q) = 0
  <2>1. \A d \in Chunks : d.from \in Nat /\ d.to \in Nat
    BY TerminalAssumption DEF Chunks, Positions
  <2>2. Len(q) \in Nat /\ \A i \in 1 .. Len(q) : q[i] \in Chunks
    BY ElementOfSeq, LenProperties
  <2> QED BY <2>1, <2>2, EmptySeq
<1> HIDE DEF r
<1>3. a <= b
  <2>1. CASE q = <<>>
    BY <2>1 DEF Run
  <2>2. CASE q # <<>>
    <3>1. 1 \in 1 .. Len(q)
      BY <1>2, <2>2
    <3> QED BY <1>2, <3>1 DEF Run
  <2> QED BY <2>1, <2>2
<1>4. r[1].from = a
  <2>1. CASE q = <<>>
    BY <1>1, <1>2, <2>1 DEF Run
  <2>2. CASE q # <<>>
    <3>1. 1 \in 1 .. Len(q)
      BY <1>2, <2>2
    <3> QED BY <1>1, <2>2, <3>1 DEF Run
  <2> QED BY <2>1, <2>2
<1>5. \A i \in 1 .. Len(q) :
        /\ a <= r[i].from /\ r[i].from < r[i].to /\ r[i].to <= b
        /\ r[i].from \in Nat /\ r[i].to \in Nat
  BY <1>1, <1>2 DEF Run
<1>6. \A i \in 1 .. Len(r) : i \in 1 .. Len(q) \/ i = Len(q) + 1
  BY <1>1, <1>2
<1>7. \A i \in 1 .. Len(r) : a <= r[i].from /\ r[i].from < r[i].to /\ r[i].to <= c.to
  BY <1>1, <1>2, <1>3, <1>5, <1>6
<1>8. \A i \in 1 .. Len(r) - 1 : r[i].to = r[i + 1].from
  <2> SUFFICES ASSUME NEW i \in 1 .. Len(r) - 1 PROVE r[i].to = r[i + 1].from
    OBVIOUS
  <2>1. i \in 1 .. Len(q)
    BY <1>1, <1>2
  <2>2. CASE i = Len(q)
    BY <1>1, <1>2, <2>1, <2>2 DEF Run
  <2>3. CASE i # Len(q)
    <3>1. i \in 1 .. Len(q) - 1 /\ i + 1 \in 1 .. Len(q)
      BY <1>2, <2>1, <2>3
    <3> QED BY <1>1, <2>1, <3>1 DEF Run
  <2> QED BY <2>2, <2>3
<1>9. \A i, j \in 1 .. Len(r) : i < j => r[i].to <= r[j].from
  <2> SUFFICES ASSUME NEW i \in 1 .. Len(r), NEW j \in 1 .. Len(r), i < j
               PROVE  r[i].to <= r[j].from
    OBVIOUS
  <2>1. i \in 1 .. Len(q)
    BY <1>1, <1>2
  <2>2. CASE j = Len(q) + 1
    BY <1>1, <1>2, <1>5, <2>1, <2>2
  <2>3. CASE j \in 1 .. Len(q)
    BY <1>1, <2>1, <2>3 DEF Run
  <2> QED BY <1>6, <2>2, <2>3
<1>10. r[Len(r)] = c
  BY <1>1
<1> QED
  <2>1. Run(r, a, c.to)
    BY <1>1, <1>4, <1>7, <1>8, <1>9, <1>10 DEF Run
  <2> QED BY <1>1, <2>1 DEF r

\* What poll does to a run.
LEMMA RunTail ==
    ASSUME NEW q \in Seq(Chunks), NEW a \in Nat, NEW b \in Nat,
           Run(q, a, b), q # <<>>
    PROVE  /\ Tail(q) \in Seq(Chunks)
           /\ Head(q) \in Chunks /\ Head(q).from = a
           /\ a < Head(q).to /\ Head(q).to <= b
           /\ Run(Tail(q), Head(q).to, b)
           /\ Len(Tail(q)) < Len(q)
<1> DEFINE r == Tail(q)
<1>1. /\ r \in Seq(Chunks) /\ Len(r) = Len(q) - 1
      /\ \A i \in 1 .. Len(r) : r[i] = q[i + 1]
      /\ Head(q) = q[1] /\ Len(q) \in Nat /\ Len(q) > 0
      /\ r = <<>> <=> Len(q) = 1
  <2>1. Len(q) \in Nat /\ Len(q) > 0
    BY LenProperties, EmptySeq
  <2>2. r \in Seq(Chunks) /\ Len(r) = Len(q) - 1 /\ \A i \in 1 .. Len(r) : r[i] = q[i + 1]
    BY HeadTailProperties, <2>1
  <2>3. Head(q) = q[1]
    OBVIOUS
  <2>4. r = <<>> <=> Len(r) = 0
    BY <2>2, EmptySeq
  <2> QED BY <2>1, <2>2, <2>3, <2>4
<1>2. \A i \in 1 .. Len(q) : q[i] \in Chunks
  OBVIOUS
<1> HIDE DEF r
<1>3. Head(q) \in Chunks /\ Head(q).from = a /\ a < Head(q).to /\ Head(q).to <= b
  BY <1>1, <1>2 DEF Run
<1>4. r = <<>> => Head(q).to = b
  BY <1>1 DEF Run
<1>5. r # <<>> => r[1].from = Head(q).to /\ r[Len(r)].to = b
  BY <1>1 DEF Run
<1>6. \A i \in 1 .. Len(r) : Head(q).to <= r[i].from /\ r[i].from < r[i].to /\ r[i].to <= b
  BY <1>1 DEF Run
<1>7. \A i \in 1 .. Len(r) - 1 : r[i].to = r[i + 1].from
  BY <1>1 DEF Run
<1>8. \A i, j \in 1 .. Len(r) : i < j => r[i].to <= r[j].from
  BY <1>1 DEF Run
<1> QED BY <1>1, <1>3, <1>4, <1>5, <1>6, <1>7, <1>8 DEF Run, r

\* The empty queue is a run from anywhere to there.
LEMMA RunEmpty == \A a : <<>> \in Seq(Chunks) /\ Run(<<>>, a, a) /\ Len(<<>>) = 0
BY DEF Run

-----------------------------------------------------------------------------
\* Where a queue q ends that began at a: QueueEnd is this of a subscriber's.
EndOf(q, a) == IF q = <<>> THEN a ELSE q[Len(q)].to

LEMMA RunEnd == \A q, a, b : Run(q, a, b) => EndOf(q, a) = b
BY DEF Run, EndOf

LEMMA EmptyEnd == \A a : EndOf(<<>>, a) = a
BY DEF EndOf

\* A run is not empty if and only if it holds some byte.
LEMMA RunGrows ==
    ASSUME NEW q \in Seq(Chunks), NEW a \in Nat, NEW b \in Nat, Run(q, a, b)
    PROVE  a <= b /\ (q # <<>> => a < b)
<1>1. CASE q = <<>>
  BY <1>1 DEF Run
<1>2. CASE q # <<>>
  <2>1. a < Head(q).to /\ Head(q).to <= b /\ Head(q) \in Chunks
    BY <1>2, RunTail
  <2>2. Head(q).to \in Nat
    BY <2>1, TerminalAssumption DEF Chunks, Positions
  <2> QED BY <2>1, <2>2
<1> QED BY <1>1, <1>2

(***************************************************************************)
(* The inductive invariant.                                                *)
(***************************************************************************)
\* The pump: what it publishes, to whom, and that it has closed everything when it
\* has ended.
PumpInv ==
    /\ chunk <= total
    /\ pump = "publish" => chunk < total
    /\ offer # {} => pump = "publish"
    /\ offer \subseteq listed
    /\ closed <=> pump = "ended"
    /\ closed => listed = {}
    /\ session # "await" \/ transcript = "final" => pump = "ended"

\* A queue holds a run of chunks from the next byte its client expects, all that
\* was offered to it if it is open, and its count is their size.
QueueInv(s) ==
    LET end == EndOf(queue[s], seen[s]) IN
    /\ Run(queue[s], seen[s], end)
    /\ end <= total
    /\ handler[s] # "none" /\ ~done[s] =>
        /\ end = IF s \in offer THEN chunk ELSE total
        /\ s \in listed
    /\ bytes[s] = end - seen[s]
    /\ bytes[s] <= MaxBytes
    /\ Len(queue[s]) <= MaxChunks

\* A queue is done because it overflowed, because the session ended, or because
\* its receiver was dropped.
DoneInv(s) ==
    /\ overflowed[s] => done[s] /\ seen[s] < total /\ queue[s] = <<>>
    /\ handler[s] \in {"poll", "wait", "closed", "lost"} /\ done[s] =>
        overflowed[s] \/ (closed /\ EndOf(queue[s], seen[s]) = total)
    /\ handler[s] = "closed" => done[s] /\ queue[s] = <<>>

\* A handler is in the list only from its subscription until it has left.
HandlerInv(s) ==
    /\ handler[s] = "none" =>
        /\ queue[s] = <<>> /\ ~done[s] /\ ~overflowed[s] /\ bytes[s] = 0
        /\ farewell[s] = "none"
    /\ handler[s] \in {"none", "gone"} => s \notin listed
    /\ handler[s] = "wait" /\ (queue[s] # <<>> \/ done[s]) => permit[s]
    /\ farewell[s] = "ended" => closed /\ seen[s] = total
    /\ farewell[s] = "backpressure" => seen[s] < total
    /\ farewell[s] # "none" => handler[s] \in {"drop", "remove", "gone"}
    /\ handler[s] \in {"remove", "gone"} => done[s]

SubscriberInv(s) == QueueInv(s) /\ DoneInv(s) /\ HandlerInv(s)

IInv ==
    /\ TypeOK
    /\ PumpInv
    /\ Cardinality(listed) <= MaxSubscribers
    /\ \A s \in Subscribers : SubscriberInv(s)

-----------------------------------------------------------------------------
\* Before its first chunk the terminal satisfies the inductive invariant: nobody
\* listens, and nothing was written that a queue could lack.
THEOREM InitInv == Init => IInv
<1> SUFFICES ASSUME Init PROVE IInv
  OBVIOUS
<1>1. TypeOK
  <2>1. 0 \in Positions
    BY TerminalAssumption DEF Positions
  <2>2. <<>> \in Seq(Chunks)
    BY RunEmpty
  <2> QED BY <2>1, <2>2 DEF Init, TypeOK, Farewells
<1>2. PumpInv
  BY DEF Init, PumpInv
<1>3. Cardinality(listed) <= MaxSubscribers
  BY FS_EmptySet, TerminalAssumption DEF Init
<1>4. ASSUME NEW s \in Subscribers PROVE SubscriberInv(s)
  BY <1>4, RunEmpty, EmptyEnd, TerminalAssumption
  DEF Init, SubscriberInv, QueueInv, DoneInv, HandlerInv
<1> QED BY <1>1, <1>2, <1>3, <1>4 DEF IInv

\* What the types say of one subscriber.
LEMMA Typed ==
    ASSUME TypeOK
    PROVE  /\ total \in Nat /\ chunk \in Nat
           /\ \A s \in Subscribers :
                /\ queue[s] \in Seq(Chunks) /\ Len(queue[s]) \in Nat
                /\ seen[s] \in Nat /\ bytes[s] \in Nat
                /\ done[s] \in BOOLEAN /\ overflowed[s] \in BOOLEAN
                /\ permit[s] \in BOOLEAN
<1>1. Positions \subseteq Nat
  BY TerminalAssumption DEF Positions
<1>2. \A q \in Seq(Chunks) : Len(q) \in Nat
  BY LenProperties
<1> QED BY <1>1, <1>2 DEF TypeOK

\* Where a subscriber's queue ends.
LEMMA EndTyped ==
    ASSUME TypeOK, NEW s \in Subscribers, SubscriberInv(s)
    PROVE  /\ EndOf(queue[s], seen[s]) = seen[s] + bytes[s]
           /\ EndOf(queue[s], seen[s]) \in Nat
           /\ seen[s] <= EndOf(queue[s], seen[s])
           /\ queue[s] # <<>> => seen[s] < EndOf(queue[s], seen[s])
<1>1. EndOf(queue[s], seen[s]) \in Nat
  <2>1. \A c \in Chunks : c.to \in Nat
    BY TerminalAssumption DEF Chunks, Positions
  <2>2. CASE queue[s] = <<>>
    BY <2>2, EmptyEnd, Typed
  <2>3. CASE queue[s] # <<>>
    <3>1. Len(queue[s]) \in 1 .. Len(queue[s]) /\ queue[s] \in Seq(Chunks)
      BY <2>3, Typed, EmptySeq, LenProperties
    <3>2. queue[s][Len(queue[s])] \in Chunks
      BY <3>1, ElementOfSeq
    <3> QED BY <2>1, <2>3, <3>2 DEF EndOf
  <2> QED BY <2>2, <2>3
<1>2. EndOf(queue[s], seen[s]) = seen[s] + bytes[s]
  BY <1>1, Typed DEF SubscriberInv, QueueInv
<1>3. Run(queue[s], seen[s], EndOf(queue[s], seen[s]))
  BY DEF SubscriberInv, QueueInv
<1> QED BY <1>1, <1>2, <1>3, RunGrows, Typed

\* A step keeps the invariant of a subscriber it does not touch.
LEMMA Frame ==
    ASSUME NEW t \in Subscribers, SubscriberInv(t),
           total' = total, chunk' = chunk, closed' = closed,
           t \in offer' <=> t \in offer, t \in listed' <=> t \in listed,
           queue'[t] = queue[t], bytes'[t] = bytes[t], done'[t] = done[t],
           overflowed'[t] = overflowed[t], permit'[t] = permit[t],
           handler'[t] = handler[t], seen'[t] = seen[t], farewell'[t] = farewell[t]
    PROVE  SubscriberInv(t)'
BY DEF SubscriberInv, QueueInv, DoneInv, HandlerInv

LEMMA PlacesShrink ==
    ASSUME IInv, listed' \subseteq listed
    PROVE  Cardinality(listed') <= MaxSubscribers
<1>1. IsFiniteSet(listed)
  BY FS_Subset, TerminalAssumption DEF IInv, TypeOK
<1>2. IsFiniteSet(listed') /\ Cardinality(listed') <= Cardinality(listed)
  BY <1>1, FS_Subset
<1>3. Cardinality(listed) \in Nat /\ Cardinality(listed') \in Nat
  BY <1>1, <1>2, FS_CardinalityType
<1> QED BY <1>2, <1>3, TerminalAssumption DEF IInv
-----------------------------------------------------------------------------
(***************************************************************************)
(* The pump.                                                               *)
(***************************************************************************)
LEMMA ReadChunkStep == ASSUME IInv, ReadChunk PROVE IInv'
<1> USE DEF ReadChunk, queues, handlers
<1>1. TypeOK /\ total \in Nat /\ total' \in Nat /\ total < total' /\ total' <= MaxOutput
      /\ chunk' = total
  BY Typed, TerminalAssumption DEF IInv
<1>2. TypeOK'
  BY <1>1, TerminalAssumption DEF TypeOK, Positions
<1>3. PumpInv'
  BY <1>1 DEF IInv, PumpInv
<1>4. ASSUME NEW t \in Subscribers PROVE SubscriberInv(t)'
  <2>1. SubscriberInv(t) /\ t \notin offer /\ ~closed
    BY DEF IInv, PumpInv
  <2>2. EndOf(queue[t], seen[t]) \in Nat /\ seen[t] \in Nat
    BY <1>1, <2>1, EndTyped, Typed
  <2>3. QueueInv(t)'
    BY <1>1, <2>1, <2>2 DEF SubscriberInv, QueueInv
  <2>4. DoneInv(t)'
    BY <1>1, <2>1, <2>2 DEF SubscriberInv, DoneInv
  <2>5. HandlerInv(t)'
    BY <1>1, <2>1, <2>2 DEF SubscriberInv, HandlerInv
  <2> QED BY <2>3, <2>4, <2>5 DEF SubscriberInv
<1> QED BY <1>2, <1>3, <1>4, PlacesShrink DEF IInv

LEMMA EnqueueStep == ASSUME IInv, NEW s \in Subscribers, Enqueue(s) PROVE IInv'
<1> USE DEF Enqueue, Offered, terminal, handlers
<1>1. /\ TypeOK /\ SubscriberInv(s)
      /\ s \in offer /\ s \in listed /\ chunk < total
      /\ handler[s] # "none"
  BY DEF IInv, PumpInv, SubscriberInv, HandlerInv
<1>2. /\ Latest \in Chunks /\ Latest.from = chunk /\ Latest.to = total
      /\ Size \in Nat /\ Size = total - chunk
      /\ chunk \in Nat /\ total \in Nat /\ seen[s] \in Nat /\ bytes[s] \in Nat
      /\ queue[s] \in Seq(Chunks) /\ Len(queue[s]) \in Nat
  <2>1. chunk \in Nat /\ total \in Nat /\ chunk \in Positions /\ total \in Positions
    BY <1>1, Typed DEF TypeOK
  <2>2. Latest \in Chunks /\ Latest.from = chunk /\ Latest.to = total
    BY <2>1 DEF Latest, Chunks
  <2>3. Size \in Nat /\ Size = total - chunk
    BY <1>1, <2>1 DEF Size
  <2>4. /\ seen[s] \in Nat /\ bytes[s] \in Nat
        /\ queue[s] \in Seq(Chunks) /\ Len(queue[s]) \in Nat
    BY <1>1, Typed
  <2> QED BY <2>1, <2>2, <2>3, <2>4
<1>3. Run(queue[s], seen[s], chunk) /\ EndOf(queue[s], seen[s]) = chunk
  BY <1>1 DEF SubscriberInv, QueueInv
<1>4. bytes[s] = chunk - seen[s] /\ seen[s] <= chunk
  <2>1. bytes[s] = chunk - seen[s]
    BY <1>1, <1>3 DEF SubscriberInv, QueueInv
  <2>2. seen[s] <= chunk
    BY <1>2, <1>3, RunGrows
  <2> QED BY <2>1, <2>2
<1> DEFINE q == Append(queue[s], Latest)
<1>5. /\ q \in Seq(Chunks) /\ Run(q, seen[s], total) /\ EndOf(q, seen[s]) = total
      /\ Len(q) = Len(queue[s]) + 1
  BY <1>1, <1>2, <1>3, RunAppend, RunEnd, AppendProperties
<1>6. /\ queue'[s] = q /\ bytes'[s] = bytes[s] + Size /\ permit'[s] = TRUE
  BY <1>1 DEF TypeOK
<1> HIDE DEF q
<1>7. TypeOK'
  <2>1. queue' \in [Subscribers -> Seq(Chunks)]
    BY <1>1, <1>5 DEF TypeOK, q
  <2>2. bytes[s] + Size \in Positions
    BY <1>1, <1>2, <1>4, TerminalAssumption DEF TypeOK, Positions
  <2> QED BY <1>1, <2>1, <2>2 DEF TypeOK
<1>8. PumpInv'
  BY DEF IInv, PumpInv
<1>9. ASSUME NEW t \in Subscribers PROVE SubscriberInv(t)'
  <2>1. CASE t # s
    <3>1. /\ queue'[t] = queue[t] /\ bytes'[t] = bytes[t] /\ permit'[t] = permit[t]
      BY <1>1, <2>1 DEF TypeOK
    <3> QED BY <2>1, <3>1, Frame DEF IInv
  <2>2. CASE t = s
    <3>1. QueueInv(s)'
      <4>1. Len(q) <= MaxChunks
        BY <1>2, <1>5, TerminalAssumption DEF Fits
      <4>2. bytes[s] + Size = total - seen[s] /\ bytes[s] + Size <= MaxBytes
        BY <1>2, <1>4 DEF Fits
      <4>3. /\ queue'[s] = q /\ seen' = seen /\ total' = total /\ s \notin offer'
            /\ listed' = listed /\ bytes'[s] = total - seen[s] /\ bytes'[s] <= MaxBytes
        BY <1>6, <4>2
      <4>4. EndOf(queue'[s], seen'[s]) = total /\ Run(queue'[s], seen'[s], total)
        BY <1>5, <4>3
      <4> QED BY <1>1, <1>2, <4>1, <4>3, <4>4 DEF QueueInv
    <3>2. DoneInv(s)'
      BY <1>1 DEF SubscriberInv, DoneInv
    <3>3. HandlerInv(s)'
      BY <1>1, <1>6 DEF SubscriberInv, HandlerInv
    <3> QED BY <2>2, <3>1, <3>2, <3>3 DEF SubscriberInv
  <2> QED BY <2>1, <2>2
<1> QED BY <1>7, <1>8, <1>9, PlacesShrink DEF IInv

LEMMA OverflowStep == ASSUME IInv, NEW s \in Subscribers, Overflow(s) PROVE IInv'
<1> USE DEF Overflow, Offered, terminal, handlers
<1>1. /\ TypeOK /\ SubscriberInv(s)
      /\ s \in offer /\ s \in listed /\ chunk < total
      /\ handler[s] \notin {"none", "closed"}
  BY DEF IInv, PumpInv, SubscriberInv, HandlerInv, DoneInv
<1>2. /\ queue'[s] = <<>> /\ bytes'[s] = 0 /\ done'[s] /\ overflowed'[s] /\ permit'[s]
  BY <1>1 DEF TypeOK
<1>3. seen[s] \in Nat /\ chunk \in Nat /\ total \in Nat /\ seen[s] <= chunk
  BY <1>1, EndTyped, Typed DEF SubscriberInv, QueueInv
<1>4. TypeOK'
  BY <1>1, RunEmpty, TerminalAssumption DEF TypeOK, Positions
<1>5. PumpInv'
  BY DEF IInv, PumpInv
<1>6. ASSUME NEW t \in Subscribers PROVE SubscriberInv(t)'
  <2>1. CASE t # s
    <3>1. /\ queue'[t] = queue[t] /\ bytes'[t] = bytes[t] /\ permit'[t] = permit[t]
          /\ done'[t] = done[t] /\ overflowed'[t] = overflowed[t]
      BY <1>1, <2>1 DEF TypeOK
    <3> QED BY <2>1, <3>1, Frame DEF IInv
  <2>2. CASE t = s
    <3>1. QueueInv(s)'
      <4>1. /\ queue'[s] = <<>> /\ bytes'[s] = 0 /\ done'[s]
            /\ seen' = seen /\ total' = total
        BY <1>2
      <4>2. EndOf(queue'[s], seen'[s]) = seen[s] /\ Run(queue'[s], seen'[s], seen[s])
        BY <4>1, EmptyEnd, RunEmpty
      <4>3. 0 <= MaxBytes /\ Len(queue'[s]) <= MaxChunks /\ seen[s] <= total
        BY <1>1, <1>3, <4>1, RunEmpty, TerminalAssumption
      <4> QED BY <1>3, <4>1, <4>2, <4>3 DEF QueueInv
    <3>2. DoneInv(s)'
      BY <1>1, <1>2, <1>3 DEF SubscriberInv, DoneInv
    <3>3. HandlerInv(s)'
      BY <1>1, <1>2 DEF SubscriberInv, HandlerInv
    <3> QED BY <2>2, <3>1, <3>2, <3>3 DEF SubscriberInv
  <2> QED BY <2>1, <2>2
<1> QED BY <1>4, <1>5, <1>6, PlacesShrink DEF IInv

LEMMA EvictStep == ASSUME IInv, NEW s \in Subscribers, Evict(s) PROVE IInv'
<1> USE DEF Evict, Offered, terminal, queues, handlers
<1>1. TypeOK' /\ PumpInv'
  BY DEF IInv, TypeOK, PumpInv
<1>2. ASSUME NEW t \in Subscribers PROVE SubscriberInv(t)'
  <2>1. CASE t # s
    BY <2>1, Frame DEF IInv
  <2>2. CASE t = s
    BY <2>2 DEF IInv, SubscriberInv, QueueInv, DoneInv, HandlerInv
  <2> QED BY <2>1, <2>2
<1> QED BY <1>1, <1>2, PlacesShrink DEF IInv

LEMMA PublishedStep == ASSUME IInv, Published PROVE IInv'
<1> USE DEF Published, queues, handlers
<1>1. TypeOK' /\ PumpInv'
  BY DEF IInv, TypeOK, PumpInv
<1>2. ASSUME NEW t \in Subscribers PROVE SubscriberInv(t)'
  BY Frame DEF IInv
<1> QED BY <1>1, <1>2, PlacesShrink DEF IInv

LEMMA EndOfOutputStep == ASSUME IInv, EndOfOutput PROVE IInv'
<1> USE DEF EndOfOutput, queues, handlers
<1>1. TypeOK' /\ PumpInv'
  BY DEF IInv, TypeOK, PumpInv
<1>2. ASSUME NEW t \in Subscribers PROVE SubscriberInv(t)'
  BY Frame DEF IInv
<1> QED BY <1>1, <1>2, PlacesShrink DEF IInv

LEMMA CloseSubscribersStep == ASSUME IInv, CloseSubscribers PROVE IInv'
<1> USE DEF CloseSubscribers, handlers
<1>1. TypeOK /\ ~closed /\ offer = {}
  BY DEF IInv, PumpInv
<1>2. TypeOK'
  BY <1>1 DEF TypeOK
<1>3. PumpInv'
  BY DEF IInv, PumpInv
<1>4. ASSUME NEW t \in Subscribers PROVE SubscriberInv(t)'
  <2>1. SubscriberInv(t) /\ done'[t] = (done[t] \/ t \in listed)
        /\ permit'[t] = (permit[t] \/ t \in listed)
    BY DEF IInv
  <2>2. done[t] \in BOOLEAN /\ permit[t] \in BOOLEAN
    BY <1>1 DEF TypeOK
  <2>3. QueueInv(t)'
    BY <1>1, <2>1, <2>2 DEF SubscriberInv, QueueInv
  <2>4. DoneInv(t)'
    BY <1>1, <2>1, <2>2 DEF SubscriberInv, DoneInv, QueueInv, HandlerInv
  <2>5. HandlerInv(t)'
    BY <1>1, <2>1, <2>2 DEF SubscriberInv, HandlerInv
  <2> QED BY <2>3, <2>4, <2>5 DEF SubscriberInv
<1> QED BY <1>2, <1>3, <1>4, PlacesShrink DEF IInv

LEMMA SessionStep == ASSUME IInv, RecordTranscript \/ LeaveMap PROVE IInv'
<1> USE DEF RecordTranscript, LeaveMap, queues, handlers
<1>1. TypeOK' /\ PumpInv'
  BY DEF IInv, TypeOK, PumpInv
<1>2. ASSUME NEW t \in Subscribers PROVE SubscriberInv(t)'
  BY Frame DEF IInv
<1> QED BY <1>1, <1>2, PlacesShrink DEF IInv
-----------------------------------------------------------------------------
(***************************************************************************)
(* The handlers.                                                           *)
(***************************************************************************)
LEMMA SubscribeStep == ASSUME IInv, NEW s \in Subscribers, Subscribe(s) PROVE IInv'
<1> USE DEF Subscribe, Goto, Unlocked, terminal
<1>1. /\ TypeOK /\ SubscriberInv(s) /\ PumpInv
      /\ offer = {} /\ s \notin listed /\ handler[s] = "none"
      /\ queue[s] = <<>> /\ ~overflowed[s] /\ bytes[s] = 0 /\ farewell[s] = "none"
  BY DEF IInv, PumpInv, SubscriberInv, HandlerInv
<1>2. total \in Nat /\ total \in Positions
  BY <1>1, Typed DEF TypeOK
<1>3. /\ handler'[s] = "poll" /\ seen'[s] = total /\ done'[s] = closed
      /\ permit'[s] = closed
      /\ listed' = IF closed THEN listed ELSE listed \cup {s}
  BY <1>1 DEF TypeOK
<1>4. TypeOK'
  BY <1>1, <1>2 DEF TypeOK
<1>5. PumpInv'
  BY <1>1 DEF IInv, PumpInv
<1>6. Cardinality(listed') <= MaxSubscribers
  <2>1. CASE closed
    BY <2>1, PlacesShrink
  <2>2. CASE ~closed
    <3>1. IsFiniteSet(listed)
      BY <1>1, FS_Subset, TerminalAssumption DEF TypeOK
    <3>2. Cardinality(listed') = Cardinality(listed) + 1 /\ Cardinality(listed) \in Nat
      BY <1>1, <2>2, <3>1, FS_AddElement, FS_CardinalityType
    <3> QED BY <2>2, <3>2, TerminalAssumption
  <2> QED BY <2>1, <2>2
<1>7. ASSUME NEW t \in Subscribers PROVE SubscriberInv(t)'
  <2>1. CASE t # s
    <3>1. /\ handler'[t] = handler[t] /\ seen'[t] = seen[t] /\ done'[t] = done[t]
          /\ permit'[t] = permit[t]
      BY <1>1, <2>1 DEF TypeOK
    <3> QED BY <2>1, <3>1, Frame DEF IInv
  <2>2. CASE t = s
    <3>1. QueueInv(s)'
      <4>1. EndOf(queue'[s], seen'[s]) = total /\ Run(queue'[s], seen'[s], total)
        BY <1>1, <1>3, EmptyEnd, RunEmpty
      <4>2. bytes'[s] = total - seen'[s] /\ bytes'[s] <= MaxBytes /\ Len(queue'[s]) <= MaxChunks
        BY <1>1, <1>2, <1>3, RunEmpty, TerminalAssumption
      <4>3. total' = total /\ s \notin offer'
        BY <1>1
      <4> QED BY <1>2, <1>3, <4>1, <4>2, <4>3 DEF QueueInv
    <3>2. DoneInv(s)'
      <4>1. EndOf(queue'[s], seen'[s]) = total
        BY <1>1, <1>3, EmptyEnd
      <4> QED BY <1>1, <1>3, <4>1 DEF DoneInv
    <3>3. HandlerInv(s)'
      BY <1>1, <1>3 DEF HandlerInv
    <3> QED BY <2>2, <3>1, <3>2, <3>3 DEF SubscriberInv
  <2> QED BY <2>1, <2>2
<1> QED BY <1>4, <1>5, <1>6, <1>7 DEF IInv

\* The next chunk begins where the client is, and the rest where the chunk ends.
LEMMA ReceiveTail ==
    ASSUME IInv, NEW s \in Subscribers, queue[s] # <<>>
    PROVE  LET c == Head(queue[s]) end == EndOf(queue[s], seen[s]) IN
           /\ Tail(queue[s]) \in Seq(Chunks) /\ c \in Chunks
           /\ c.from = seen[s] /\ c.to \in Nat /\ seen[s] < c.to /\ c.to <= end
           /\ end \in Nat /\ end <= total
           /\ Run(Tail(queue[s]), c.to, end) /\ EndOf(Tail(queue[s]), c.to) = end
           /\ Len(Tail(queue[s])) <= MaxChunks
           /\ bytes[s] = end - seen[s]
<1> DEFINE c == Head(queue[s])
           end == EndOf(queue[s], seen[s])
<1>1. TypeOK /\ SubscriberInv(s)
  BY DEF IInv
<1>2. /\ queue[s] \in Seq(Chunks) /\ seen[s] \in Nat /\ end \in Nat
      /\ Len(queue[s]) \in Nat
  BY <1>1, Typed, EndTyped
<1>3. /\ Run(queue[s], seen[s], end) /\ end <= total /\ bytes[s] = end - seen[s]
      /\ Len(queue[s]) <= MaxChunks
  BY <1>1 DEF SubscriberInv, QueueInv
<1> HIDE DEF end
<1>4. /\ Tail(queue[s]) \in Seq(Chunks) /\ c \in Chunks
      /\ c.from = seen[s] /\ seen[s] < c.to /\ c.to <= end
      /\ Run(Tail(queue[s]), c.to, end)
      /\ Len(Tail(queue[s])) < Len(queue[s])
  BY <1>2, <1>3, RunTail
<1>5. c.to \in Nat
  BY <1>4, TerminalAssumption DEF Chunks, Positions
<1>6. EndOf(Tail(queue[s]), c.to) = end
  BY <1>4, RunEnd
<1>7. Len(Tail(queue[s])) \in Nat
  BY <1>4, LenProperties
<1>8. Len(Tail(queue[s])) <= MaxChunks
  BY <1>2, <1>3, <1>4, <1>7, TerminalAssumption
<1> QED BY <1>2, <1>3, <1>4, <1>5, <1>6, <1>8 DEF end

LEMMA ReceiveStep == ASSUME IInv, NEW s \in Subscribers, Receive(s) PROVE IInv'
<1> USE DEF Receive, terminal
<1> DEFINE c == Head(queue[s])
           r == Tail(queue[s])
           end == EndOf(queue[s], seen[s])
<1>1. TypeOK /\ SubscriberInv(s) /\ handler[s] = "poll" /\ queue[s] # <<>>
      /\ ~overflowed[s] /\ farewell[s] = "none"
  BY DEF IInv, SubscriberInv, DoneInv, HandlerInv
<1>2. /\ r \in Seq(Chunks) /\ c \in Chunks /\ c.from = seen[s] /\ c.to \in Nat
      /\ seen[s] < c.to /\ c.to <= end /\ end \in Nat /\ end <= total
      /\ Run(r, c.to, end) /\ EndOf(r, c.to) = end /\ Len(r) <= MaxChunks
      /\ bytes[s] = end - seen[s]
      /\ seen[s] \in Nat /\ bytes[s] \in Nat /\ total \in Nat
  BY <1>1, ReceiveTail, Typed
<1>3. /\ queue'[s] = r /\ seen'[s] = c.to /\ bytes'[s] = bytes[s] - (c.to - c.from)
  BY <1>1 DEF TypeOK
<1> HIDE DEF c, r, end
<1>4. bytes'[s] = end - c.to /\ bytes'[s] \in Nat /\ bytes'[s] <= bytes[s]
  BY <1>2, <1>3
<1>5. TypeOK'
  <2>1. c.to \in Positions /\ end - c.to \in Positions
    <3>1. c.to \in Positions
      BY <1>2 DEF Chunks
    <3>2. bytes[s] \in Positions
      BY <1>1 DEF TypeOK
    <3> QED BY <1>2, <1>4, <3>1, <3>2, TerminalAssumption DEF Positions
  <2>2. queue' \in [Subscribers -> Seq(Chunks)]
    BY <1>1, <1>2 DEF TypeOK, r
  <2>3. seen' \in [Subscribers -> Positions]
    BY <1>1, <2>1 DEF TypeOK, c
  <2>4. bytes' \in [Subscribers -> Positions]
    BY <1>1, <1>3, <1>4, <2>1 DEF TypeOK
  <2> QED BY <1>1, <2>2, <2>3, <2>4 DEF TypeOK
<1>6. PumpInv'
  BY DEF IInv, PumpInv
<1>7. ASSUME NEW t \in Subscribers PROVE SubscriberInv(t)'
  <2>1. CASE t # s
    <3>1. queue'[t] = queue[t] /\ seen'[t] = seen[t] /\ bytes'[t] = bytes[t]
      BY <1>1, <2>1 DEF TypeOK
    <3> QED BY <2>1, <3>1, Frame DEF IInv
  <2>2. CASE t = s
    <3>1. EndOf(queue'[s], seen'[s]) = end /\ Run(queue'[s], seen'[s], end)
      BY <1>2, <1>3
    <3>2. QueueInv(s)'
      <4>1. bytes'[s] <= MaxBytes /\ Len(queue'[s]) <= MaxChunks
        <5>1. bytes[s] <= MaxBytes /\ MaxBytes \in Nat
          BY <1>1, TerminalAssumption DEF SubscriberInv, QueueInv
        <5>2. bytes'[s] <= MaxBytes
          BY <1>2, <1>4, <5>1
        <5> QED BY <1>2, <1>3, <5>2
      <4>2. ~done[s] => end = (IF s \in offer THEN chunk ELSE total) /\ s \in listed
        BY <1>1 DEF SubscriberInv, QueueInv, end
      <4> QED BY <1>2, <1>3, <1>4, <3>1, <4>1, <4>2 DEF QueueInv
    <3>3. DoneInv(s)'
      <4>1. done[s] => closed /\ end = total
        BY <1>1 DEF SubscriberInv, DoneInv, end
      <4> QED BY <1>1, <3>1, <4>1 DEF DoneInv
    <3>4. HandlerInv(s)'
      BY <1>1 DEF SubscriberInv, HandlerInv
    <3> QED BY <2>2, <3>2, <3>3, <3>4 DEF SubscriberInv
  <2> QED BY <2>1, <2>2
<1> QED BY <1>5, <1>6, <1>7, PlacesShrink DEF IInv

\* The steps that only move the handler.
LEMMA MoveStep ==
    ASSUME IInv, NEW s \in Subscribers,
           FindClosed(s) \/ FindEmpty(s) \/ ClientWrites(s) \/ ClientLost(s)
    PROVE  IInv'
<1> USE DEF FindClosed, FindEmpty, ClientWrites, ClientLost, Goto, terminal, queues
<1>1. TypeOK /\ SubscriberInv(s) /\ handler[s] \in {"poll", "wait"}
  BY DEF IInv
<1>2. PICK next \in {"closed", "wait", "poll", "lost", "drop"} :
        /\ handler' = [handler EXCEPT ![s] = next]
        /\ next = "closed" => done[s] /\ queue[s] = <<>>
        /\ next = "wait" => ~done[s] /\ queue[s] = <<>>
  OBVIOUS
<1>3. UNCHANGED <<total, closed, chunk, pump, session, transcript, listed, offer,
                  queue, bytes, done, overflowed, permit, seen, farewell>>
  OBVIOUS
<1>4. handler'[s] = next
  BY <1>1, <1>2 DEF TypeOK
<1>5. TypeOK' /\ PumpInv'
  BY <1>1, <1>2, <1>3 DEF IInv, TypeOK, PumpInv
<1>6. ASSUME NEW t \in Subscribers PROVE SubscriberInv(t)'
  <2>1. CASE t # s
    <3>1. handler'[t] = handler[t]
      BY <1>1, <1>2, <2>1 DEF TypeOK
    <3> QED BY <1>3, <2>1, <3>1, Frame DEF IInv
  <2>2. CASE t = s
    <3>1. QueueInv(s)'
      BY <1>1, <1>3, <1>4 DEF SubscriberInv, QueueInv
    <3>2. DoneInv(s)'
      BY <1>1, <1>2, <1>3, <1>4 DEF SubscriberInv, DoneInv
    <3>3. HandlerInv(s)'
      BY <1>1, <1>2, <1>3, <1>4 DEF SubscriberInv, HandlerInv
    <3> QED BY <2>2, <3>1, <3>2, <3>3 DEF SubscriberInv
  <2> QED BY <2>1, <2>2
<1> QED BY <1>3, <1>5, <1>6, PlacesShrink DEF IInv

LEMMA WakeStep == ASSUME IInv, NEW s \in Subscribers, Wake(s) PROVE IInv'
<1> USE DEF Wake, Goto, terminal
<1>1. TypeOK /\ SubscriberInv(s) /\ handler[s] = "wait"
  BY DEF IInv
<1>2. handler'[s] = "poll" /\ permit'[s] = FALSE
  BY <1>1 DEF TypeOK
<1>3. TypeOK' /\ PumpInv'
  BY <1>1 DEF IInv, TypeOK, PumpInv
<1>4. ASSUME NEW t \in Subscribers PROVE SubscriberInv(t)'
  <2>1. CASE t # s
    <3>1. handler'[t] = handler[t] /\ permit'[t] = permit[t]
      BY <1>1, <2>1 DEF TypeOK
    <3> QED BY <2>1, <3>1, Frame DEF IInv
  <2>2. CASE t = s
    BY <1>1, <1>2, <2>2 DEF SubscriberInv, QueueInv, DoneInv, HandlerInv
  <2> QED BY <2>1, <2>2
<1> QED BY <1>3, <1>4, PlacesShrink DEF IInv

LEMMA SayFarewellStep == ASSUME IInv, NEW s \in Subscribers, SayFarewell(s) PROVE IInv'
<1> USE DEF SayFarewell, Goto, terminal, queues
<1>1. TypeOK /\ SubscriberInv(s) /\ handler[s] \in {"closed", "lost"}
  BY DEF IInv
<1>2. handler'[s] = "drop" /\ farewell'[s] = Farewell(s)
  BY <1>1 DEF TypeOK
<1>3. Farewell(s) \in Farewells
  BY DEF Farewell, Farewells
<1>4. TypeOK' /\ PumpInv'
  BY <1>1, <1>3 DEF IInv, TypeOK, PumpInv
<1>5. ASSUME NEW t \in Subscribers PROVE SubscriberInv(t)'
  <2>1. CASE t # s
    <3>1. handler'[t] = handler[t] /\ farewell'[t] = farewell[t]
      BY <1>1, <2>1 DEF TypeOK
    <3> QED BY <2>1, <3>1, Frame DEF IInv
  <2>2. CASE t = s
    <3>1. QueueInv(s)' /\ DoneInv(s)'
      BY <1>1, <1>2 DEF SubscriberInv, QueueInv, DoneInv
    <3>2. HandlerInv(s)'
      <4>1. Farewell(s) = "ended" => closed /\ seen[s] = total
        <5>1. CASE handler[s] = "closed" /\ ~overflowed[s]
          <6>1. queue[s] = <<>> /\ closed /\ EndOf(queue[s], seen[s]) = total
            BY <1>1, <5>1 DEF SubscriberInv, DoneInv
          <6>2. EndOf(<<>>, seen[s]) = seen[s]
            BY EmptyEnd
          <6> QED BY <6>1, <6>2
        <5>2. CASE handler[s] # "closed" \/ overflowed[s]
          BY <5>2 DEF Farewell
        <5> QED BY <5>1, <5>2
      <4>2. Farewell(s) = "backpressure" => seen[s] < total
        BY <1>1 DEF Farewell, SubscriberInv, DoneInv
      <4> QED BY <1>1, <1>2, <4>1, <4>2 DEF SubscriberInv, HandlerInv
    <3> QED BY <2>2, <3>1, <3>2 DEF SubscriberInv
  <2> QED BY <2>1, <2>2
<1> QED BY <1>4, <1>5, PlacesShrink DEF IInv

LEMMA DiscardStep == ASSUME IInv, NEW s \in Subscribers, Discard(s) PROVE IInv'
<1> USE DEF Discard, Goto, terminal
<1>1. TypeOK /\ SubscriberInv(s) /\ handler[s] = "drop"
  BY DEF IInv
<1>2. /\ queue'[s] = <<>> /\ bytes'[s] = 0 /\ done'[s] /\ permit'[s]
      /\ handler'[s] = "remove"
  BY <1>1 DEF TypeOK
<1>3. seen[s] \in Nat /\ total \in Nat /\ seen[s] <= total
  BY <1>1, EndTyped, Typed DEF SubscriberInv, QueueInv
<1>4. TypeOK'
  <2>1. 0 \in Positions
    BY TerminalAssumption DEF Positions
  <2>2. <<>> \in Seq(Chunks)
    BY RunEmpty
  <2> QED BY <1>1, <2>1, <2>2 DEF TypeOK
<1>5. PumpInv'
  BY DEF IInv, PumpInv
<1>6. ASSUME NEW t \in Subscribers PROVE SubscriberInv(t)'
  <2>1. CASE t # s
    <3>1. /\ queue'[t] = queue[t] /\ bytes'[t] = bytes[t] /\ done'[t] = done[t]
          /\ permit'[t] = permit[t] /\ handler'[t] = handler[t]
      BY <1>1, <2>1 DEF TypeOK
    <3> QED BY <2>1, <3>1, Frame DEF IInv
  <2>2. CASE t = s
    <3>1. QueueInv(s)'
      <4>1. EndOf(queue'[s], seen'[s]) = seen[s] /\ Run(queue'[s], seen'[s], seen[s])
        BY <1>2, EmptyEnd, RunEmpty
      <4>2. 0 <= MaxBytes /\ Len(queue'[s]) <= MaxChunks
        BY <1>2, RunEmpty, TerminalAssumption
      <4> QED BY <1>2, <1>3, <4>1, <4>2 DEF QueueInv
    <3>2. DoneInv(s)' /\ HandlerInv(s)'
      BY <1>1, <1>2 DEF SubscriberInv, DoneInv, HandlerInv
    <3> QED BY <2>2, <3>1, <3>2 DEF SubscriberInv
  <2> QED BY <2>1, <2>2
<1> QED BY <1>4, <1>5, <1>6, PlacesShrink DEF IInv

LEMMA RemoveStep == ASSUME IInv, NEW s \in Subscribers, Remove(s) PROVE IInv'
<1> USE DEF Remove, Goto, Unlocked, terminal, queues
<1>1. TypeOK /\ SubscriberInv(s) /\ handler[s] = "remove" /\ offer = {}
  BY DEF IInv, PumpInv
<1>2. done[s]
  BY <1>1 DEF SubscriberInv, HandlerInv
<1>3. handler'[s] = "gone"
  BY <1>1 DEF TypeOK
<1>4. TypeOK' /\ PumpInv'
  BY <1>1 DEF IInv, TypeOK, PumpInv
<1>5. ASSUME NEW t \in Subscribers PROVE SubscriberInv(t)'
  <2>1. CASE t # s
    <3>1. handler'[t] = handler[t]
      BY <1>1, <2>1 DEF TypeOK
    <3> QED BY <2>1, <3>1, Frame DEF IInv
  <2>2. CASE t = s
    BY <1>1, <1>2, <1>3, <2>2 DEF SubscriberInv, QueueInv, DoneInv, HandlerInv
  <2> QED BY <2>1, <2>2
<1> QED BY <1>4, <1>5, PlacesShrink DEF IInv
-----------------------------------------------------------------------------
LEMMA Inductive == IInv /\ [Next]_vars => IInv'
<1> SUFFICES ASSUME IInv, [Next]_vars PROVE IInv'
  OBVIOUS
<1>1. CASE ReadChunk \/ EndOfOutput \/ RecordTranscript \/ LeaveMap
  BY <1>1, ReadChunkStep, EndOfOutputStep, SessionStep
<1>2. CASE Pump
  BY <1>2, EnqueueStep, OverflowStep, EvictStep, PublishedStep, CloseSubscribersStep DEF Pump
<1>3. ASSUME NEW s \in Subscribers, Subscribe(s) \/ ClientWrites(s) \/ ClientLost(s)
      PROVE  IInv'
  BY <1>3, SubscribeStep, MoveStep
<1>4. ASSUME NEW s \in Subscribers, Handle(s) PROVE IInv'
  BY <1>4, ReceiveStep, MoveStep, WakeStep, SayFarewellStep, DiscardStep, RemoveStep
  DEF Handle
<1>5. CASE UNCHANGED vars
  <2> USE <1>5 DEF vars, terminal, queues, handlers
  <2>1. TypeOK' /\ PumpInv'
    BY DEF IInv, TypeOK, PumpInv
  <2>2. ASSUME NEW t \in Subscribers PROVE SubscriberInv(t)'
    BY Frame DEF IInv
  <2> QED BY <2>1, <2>2, PlacesShrink DEF IInv
<1> QED BY <1>1, <1>2, <1>3, <1>4, <1>5 DEF Next

LEMMA Invariance == Spec => []IInv
BY InitInv, Inductive, PTL DEF Spec

\* The state of the terminal, its queues and its handlers is well-typed.
THEOREM TypeCorrect == Spec => []TypeOK
BY Invariance, PTL DEF IInv

LEMMA QueueEndIs == \A s \in Subscribers : QueueEnd(s) = EndOf(queue[s], seen[s])
BY DEF QueueEnd, EndOf

\* The snapshot and the queue join without loss or repetition, and an open queue
\* holds everything since, however publication, receipt and overflow interleave.
THEOREM NothingIsMissed == Spec => []NothingMissed
<1>1. IInv => NothingMissed
  <2> SUFFICES ASSUME IInv, NEW s \in Subscribers
               PROVE  /\ queue[s] # <<>> =>
                            /\ queue[s][1].from = seen[s]
                            /\ \A i \in 1 .. Len(queue[s]) - 1 :
                                queue[s][i].to = queue[s][i + 1].from
                      /\ handler[s] # "none" /\ ~done[s] =>
                            QueueEnd(s) = IF s \in offer THEN chunk ELSE total
    BY DEF NothingMissed
  <2>1. QueueInv(s)
    BY DEF IInv, SubscriberInv
  <2>2. Run(queue[s], seen[s], EndOf(queue[s], seen[s]))
    BY <2>1 DEF QueueInv
  <2>3. queue[s] # <<>> =>
            /\ queue[s][1].from = seen[s]
            /\ \A i \in 1 .. Len(queue[s]) - 1 : queue[s][i].to = queue[s][i + 1].from
    BY <2>2 DEF Run
  <2>4. handler[s] # "none" /\ ~done[s] =>
            QueueEnd(s) = IF s \in offer THEN chunk ELSE total
    BY <2>1, QueueEndIs DEF QueueInv
  <2> QED BY <2>3, <2>4
<1> QED BY <1>1, Invariance, PTL

\* The count that overflow is decided by never drifts from the size of the queue,
\* and the queue never exceeds its limits.
THEOREM CountCorrect == Spec => []CountIsSize
<1>1. IInv => CountIsSize
  BY QueueEndIs DEF IInv, SubscriberInv, QueueInv, CountIsSize
<1> QED BY <1>1, Invariance, PTL

\* No client is told that it has the whole output, or that it was too slow, when
\* it is not so.
THEOREM FarewellsTrue == Spec => []FarewellIsTrue
<1>1. IInv => FarewellIsTrue
  BY DEF IInv, SubscriberInv, HandlerInv, FarewellIsTrue
<1> QED BY <1>1, Invariance, PTL

\* Whatever way a handler ends, its place is free afterwards.
THEOREM PlacesAreFreed == Spec => []PlacesFreed
<1>1. IInv => PlacesFreed
  BY DEF IInv, TypeOK, SubscriberInv, HandlerInv, PlacesFreed
<1> QED BY <1>1, Invariance, PTL

\* A receiver never sleeps over a chunk or a close.
THEOREM NoWakeupLost == Spec => []WakeupStored
<1>1. IInv => WakeupStored
  BY DEF IInv, SubscriberInv, HandlerInv, WakeupStored
<1> QED BY <1>1, Invariance, PTL

\* The queues: typed, complete and counted.
THEOREM QueuesAreSound == Spec => []QueuesSound
<1>1. TypeOK /\ NothingMissed /\ CountIsSize => QueuesSound
  BY DEF QueuesSound
<1> QED BY <1>1, TypeCorrect, NothingIsMissed, CountCorrect, PTL

\* The handlers: woken, truthful and gone without a trace.
THEOREM HandlersAreSound == Spec => []HandlersSound
<1>1. WakeupStored /\ FarewellIsTrue /\ PlacesFreed => HandlersSound
  BY DEF HandlersSound
<1> QED BY <1>1, NoWakeupLost, FarewellsTrue, PlacesAreFreed, PTL

\* The transcript keeps the final history: the thread that records it has waited
\* for the pump, which is the only other writer.
THEOREM TranscriptKept == Spec => TranscriptFinal
<1>1. IInv /\ [Next]_vars => [transcript = "final" => transcript' = "final"]_vars
  <2> SUFFICES ASSUME IInv, Next, transcript = "final" PROVE transcript' = "final"
    BY DEF vars, terminal
  <2>1. pump = "ended"
    BY DEF IInv, PumpInv
  <2> USE DEF terminal, queues, handlers
  <2>2. CASE ReadChunk \/ EndOfOutput \/ Pump
    BY <2>1, <2>2 DEF ReadChunk, EndOfOutput, Pump, Enqueue, Overflow, Evict, Offered,
       Published, CloseSubscribers
  <2>3. CASE RecordTranscript \/ LeaveMap
    BY <2>3 DEF RecordTranscript, LeaveMap
  <2>4. ASSUME NEW s \in Subscribers,
               Subscribe(s) \/ Handle(s) \/ ClientWrites(s) \/ ClientLost(s)
        PROVE  transcript' = transcript
    BY <2>4 DEF Subscribe, Handle, Receive, FindClosed, FindEmpty, Wake, SayFarewell,
       Discard, Remove, ClientWrites, ClientLost
  <2> QED BY <2>2, <2>3, <2>4 DEF Next
<1> QED BY <1>1, Invariance, PTL DEF Spec, TranscriptFinal

-----------------------------------------------------------------------------
(***************************************************************************)
(* The refinement.                                                         *)
(***************************************************************************)
Presence == [s \in Subscribers |->
    IF handler[s] = "none" THEN "away"
    ELSE IF handler[s] \in {"poll", "wait", "closed", "lost"} THEN "joined"
    ELSE "left"]

LEMMA SubscribeJoins ==
    ASSUME IInv, NEW s \in Subscribers, Subscribe(s) PROVE Feed!Join(s)
<1>1. TypeOK /\ handler[s] = "none" /\ handler' = [handler EXCEPT ![s] = "poll"]
  BY DEF IInv, Subscribe, Goto
<1>2. Presence[s] = "away" /\ Presence' = [Presence EXCEPT ![s] = "joined"]
  BY <1>1 DEF TypeOK, Presence
<1> QED BY <1>2 DEF Subscribe, terminal, Feed!Join, Presence

LEMMA ReceiveDelivers ==
    ASSUME IInv, NEW s \in Subscribers, Receive(s) PROVE Feed!Deliver(s)
<1> DEFINE next == Head(queue[s]).to
<1>1. handler[s] = "poll" /\ queue[s] # <<>> /\ TypeOK
  BY DEF Receive, IInv
<1>2. next \in Nat /\ seen[s] < next /\ next <= total /\ seen[s] \in Nat /\ total \in Nat
  BY <1>1, ReceiveTail, Typed
<1>3. next \in seen[s] + 1 .. total
  BY <1>2
<1>4. seen' = [seen EXCEPT ![s] = next]
  BY DEF Receive
<1> HIDE DEF next
<1>5. Presence[s] = "joined" /\ Presence' = Presence
  BY <1>1 DEF Receive, Presence
<1> QED BY <1>3, <1>4, <1>5 DEF Receive, terminal, Feed!Deliver, Presence

LEMMA FarewellLeaves ==
    ASSUME IInv, NEW s \in Subscribers, SayFarewell(s)
    PROVE  \E told \in {"none", "ended", "backpressure"} : Feed!Leave(s, told)
<1>1. /\ TypeOK /\ SubscriberInv(s) /\ handler[s] \in {"closed", "lost"}
      /\ handler' = [handler EXCEPT ![s] = "drop"]
  BY DEF IInv, SayFarewell, Goto
<1>2. Presence[s] = "joined" /\ Presence' = [Presence EXCEPT ![s] = "left"]
  BY <1>1 DEF TypeOK, Presence
<1>3. /\ Farewell(s) = "ended" => closed /\ seen[s] = total
      /\ Farewell(s) = "backpressure" => seen[s] < total
  <2>1. IInv'
    BY SayFarewellStep
  <2>2. farewell'[s] = Farewell(s) /\ seen' = seen /\ total' = total /\ closed' = closed
    BY <1>1 DEF SayFarewell, TypeOK, terminal
  <2> QED BY <2>1, <2>2 DEF IInv, SubscriberInv, HandlerInv
<1>4. PICK told \in {"none", "ended", "backpressure"} : told = Farewell(s)
  BY DEF Farewell
<1>5. Feed!Leave(s, told)
  BY <1>2, <1>3, <1>4 DEF SayFarewell, terminal, Feed!Leave, Presence
<1> QED BY <1>5

LEMMA LossLeaves ==
    ASSUME IInv, NEW s \in Subscribers, ClientLost(s)
    PROVE  Feed!Leave(s, "none") \/ UNCHANGED Feed!feed
<1>1. /\ TypeOK /\ handler[s] \in {"poll", "wait"} /\ farewell[s] = "none"
      /\ UNCHANGED <<total, closed, seen, farewell>>
  BY DEF IInv, ClientLost, SubscriberInv, HandlerInv, terminal
<1>2. CASE handler' = [handler EXCEPT ![s] = "lost"]
  <2>1. Presence' = Presence
    BY <1>1, <1>2 DEF TypeOK, Presence
  <2> QED BY <1>1, <2>1 DEF Feed!feed, Presence
<1>3. CASE handler' = [handler EXCEPT ![s] = "drop"]
  <2>1. Presence[s] = "joined" /\ Presence' = [Presence EXCEPT ![s] = "left"]
    BY <1>1, <1>3 DEF TypeOK, Presence
  <2>2. farewell' = [farewell EXCEPT ![s] = "none"]
    BY <1>1 DEF TypeOK
  <2> QED BY <1>1, <2>1, <2>2 DEF Feed!Leave, Presence
<1> QED BY <1>2, <1>3 DEF ClientLost, Goto

\* Steps within the queue or the handler show nothing outside.
LEMMA Internal ==
    ASSUME TypeOK, NEW s \in Subscribers,
           \/ FindClosed(s) \/ FindEmpty(s) \/ Wake(s) \/ ClientWrites(s)
           \/ Discard(s) \/ Remove(s)
    PROVE  UNCHANGED Feed!feed
<1> USE DEF FindClosed, FindEmpty, Wake, ClientWrites, Discard, Remove, Goto
<1>1. UNCHANGED <<total, closed, seen, farewell>>
  BY DEF terminal
<1>2. PICK next \in {"closed", "wait", "poll", "remove", "gone"} :
        /\ handler' = [handler EXCEPT ![s] = next]
        /\ next \in {"closed", "wait", "poll"} => handler[s] \in {"poll", "wait"}
        /\ next \in {"remove", "gone"} => handler[s] \in {"drop", "remove"}
  OBVIOUS
<1>3. Presence' = Presence
  BY <1>2 DEF TypeOK, Presence
<1> QED BY <1>1, <1>3 DEF Feed!feed, Presence

LEMMA PumpFeeds ==
    ASSUME IInv, ReadChunk \/ EndOfOutput \/ Pump \/ RecordTranscript \/ LeaveMap
    PROVE  [Feed!Next]_(Feed!feed)
<1> USE DEF queues, handlers, terminal
<1>1. CASE ReadChunk
  <2>1. ~closed
    BY <1>1 DEF ReadChunk, IInv, PumpInv
  <2>2. total' \in Nat /\ total' > total
    BY <1>1, Typed, TerminalAssumption DEF IInv, ReadChunk
  <2>3. Feed!Output
    BY <1>1, <2>1, <2>2 DEF ReadChunk, Feed!Output
  <2> QED BY <2>3 DEF Feed!Next
<1>2. CASE CloseSubscribers
  <2>1. Feed!End
    BY <1>2 DEF CloseSubscribers, Feed!End, IInv, PumpInv
  <2> QED BY <2>1 DEF Feed!Next
<1>3. CASE EndOfOutput \/ RecordTranscript \/ LeaveMap \/ Published
  BY <1>3 DEF EndOfOutput, RecordTranscript, LeaveMap, Published, Feed!feed
<1>4. ASSUME NEW s \in Subscribers, Enqueue(s) \/ Overflow(s) \/ Evict(s)
      PROVE  UNCHANGED Feed!feed
  BY <1>4 DEF Enqueue, Overflow, Evict, Feed!feed
<1> QED BY <1>1, <1>2, <1>3, <1>4 DEF Pump

\* The pump, its queues and the handlers implement the feed: initial states map to
\* the feed's, and every step to a step of the feed or to none.
THEOREM StreamImplementsFeed == Spec => ImplementsFeed
<1>1. Init => Feed!Init
  BY DEF Init, Feed!Init
<1>2. IInv /\ [Next]_vars => [Feed!Next]_(Feed!feed)
  <2> SUFFICES ASSUME IInv, [Next]_vars PROVE [Feed!Next]_(Feed!feed)
    OBVIOUS
  <2>1. CASE ReadChunk \/ EndOfOutput \/ Pump \/ RecordTranscript \/ LeaveMap
    BY <2>1, PumpFeeds
  <2>2. ASSUME NEW s \in Subscribers,
               Subscribe(s) \/ Handle(s) \/ ClientWrites(s) \/ ClientLost(s)
        PROVE  [Feed!Next]_(Feed!feed)
    <3>1. CASE Subscribe(s)
      BY <3>1, SubscribeJoins DEF Feed!Next
    <3>2. CASE Receive(s)
      BY <3>2, ReceiveDelivers DEF Feed!Next
    <3>3. CASE SayFarewell(s)
      BY <3>3, FarewellLeaves DEF Feed!Next
    <3>4. CASE ClientLost(s)
      BY <3>4, LossLeaves DEF Feed!Next
    <3>5. CASE \/ FindClosed(s) \/ FindEmpty(s) \/ Wake(s) \/ ClientWrites(s)
               \/ Discard(s) \/ Remove(s)
      BY <3>5, Internal DEF IInv
    <3> QED BY <2>2, <3>1, <3>2, <3>3, <3>4, <3>5 DEF Handle
  <2>3. CASE UNCHANGED vars
    BY <2>3 DEF vars, terminal, handlers, Feed!feed
  <2> QED BY <2>1, <2>2, <2>3 DEF Next
<1> QED BY <1>1, <1>2, Invariance, PTL DEF Spec, Feed!Spec, ImplementsFeed
=============================================================================
