------------------------------ MODULE Streams ------------------------------
(***************************************************************************)
(* One output stream of an agent on its way to the session's record: reads *)
(* of any length are counted and kept by a bounded capture, decoded, and   *)
(* redacted while the agent runs; when it has ended, what was kept takes   *)
(* the place of what was streamed.  A byte is a letter, the lead "M" of a  *)
(* three-byte character or a continuation "C"; a character is a letter,    *)
(* the one "MCC" stands for, or the replacement of broken bytes.  A secret *)
(* is a sequence of characters, none of them of the text of the marker.    *)
(***************************************************************************)
EXTENDS Integers, FiniteSets, SequencesExt

CONSTANTS Letters,
          SecretSets,        \* the secrets an invocation may have
          CaptureLimit,      \* bytes kept
          MaxBytes           \* bound on the length of the stream

Wide == "MCC"
Broken == "?"
Marker == "*"
Bytes == Letters \cup {"M", "C"}
Characters == Letters \cup {Wide, Broken}

ASSUME StreamConstants ==
  /\ CaptureLimit \in Nat \ {0} /\ MaxBytes \in Nat
  /\ Letters \cap {"M", "C", Wide, Broken, Marker} = {}
  /\ \A words \in SecretSets : IsFiniteSet(words) /\ words \subseteq Seq(Characters) \ {<<>>}

Reads == UNION {[1 .. n -> Bytes] : n \in 1 .. 2}

VARIABLES secrets,   \* of this invocation
          stream,    \* history: every byte read so far
          undecoded, \* the incomplete character the decoder carries
          withheld,  \* the text the redactor holds back
          kept,      \* the capture: [head, tail, total]
          forwarding,\* whether text is still passed on
          forwarded, \* history: the text passed to the redactor
          shown,    \* the stream as the session's record has it
          phase      \* "reading", "read", "done"
StreamVars == <<secrets, stream, undecoded, withheld, kept, forwarding, forwarded, shown, phase>>

-----------------------------------------------------------------------------
(* Decoding.  A lead byte takes the continuations that follow it, two at   *)
(* most; with fewer it is one broken character, or at the very end of the  *)
(* bytes an incomplete one.                                                *)
Continuations(bytes, i) ==
  IF i + 2 =< Len(bytes) /\ bytes[i + 1] = "C" /\ bytes[i + 2] = "C" THEN 2
  ELSE IF i + 1 =< Len(bytes) /\ bytes[i + 1] = "C" THEN 1 ELSE 0
\* Mutant: an incomplete character at the end of a read is broken at once.
NeverIncomplete(bytes, i) == FALSE
Incomplete(bytes, i) ==
  LET n == Continuations(bytes, i) IN bytes[i] = "M" /\ n < 2 /\ i + n = Len(bytes)

Decode(bytes) ==
  LET from[i \in 1 .. Len(bytes) + 1] ==
        IF i > Len(bytes) THEN [text |-> <<>>, left |-> <<>>]
        ELSE IF Incomplete(bytes, i)
        THEN [text |-> <<>>, left |-> SubSeq(bytes, i, Len(bytes))]
        ELSE LET n == IF bytes[i] = "M" THEN Continuations(bytes, i) ELSE 0
                 char == IF bytes[i] \in Letters THEN bytes[i] ELSE IF n = 2 THEN Wide ELSE Broken
                 rest == from[i + n + 1]
             IN  [text |-> <<char>> \o rest.text, left |-> rest.left]
  IN  from[1]
Flush(left) == IF left = <<>> THEN <<>> ELSE <<Broken>>
Lossy(bytes) == Decode(bytes).text \o Flush(Decode(bytes).left)

-----------------------------------------------------------------------------
(* Redacting.  At each place the longest secret that starts there becomes  *)
(* a marker, which is not read again.                                      *)
StartsAt(text, i, secret) ==
  i + Len(secret) - 1 =< Len(text) /\ SubSeq(text, i, i + Len(secret) - 1) = secret
LongestAt(words, text, i) ==
  LET found == {s \in words : StartsAt(text, i, s)}
  IN  IF found = {} THEN 0 ELSE CHOOSE n \in {Len(s) : s \in found} : \A s \in found : Len(s) =< n
Replaced(words, text) ==
  LET from[i \in 1 .. Len(text) + 1] ==
        IF i > Len(text) THEN <<>>
        ELSE LET n == LongestAt(words, text, i)
             IN  IF n = 0 THEN <<text[i]>> \o from[i + 1] ELSE <<Marker>> \o from[i + n]
  IN  from[1]

(* The longest suffix that some secret starts with.                        *)
\* Mutant: a whole secret less its last two characters.
HoldTooLittle(text) ==
  LET held == {n \in 1 .. Len(text) : \E s \in secrets :
                 n < Len(s) - 1 /\ IsSuffix(SubSeq(s, 1, n), text)}
  IN  IF held = {} THEN 0 ELSE CHOOSE n \in held : \A k \in held : k =< n
RequiredHold(text) ==
  LET held == {n \in 1 .. Len(text) : \E s \in secrets :
                 n < Len(s) /\ IsSuffix(SubSeq(s, 1, n), text)}
  IN  IF held = {} THEN 0 ELSE CHOOSE n \in held : \A k \in held : k =< n

(* The whole text at once: every secret in turn, the longest first.        *)
SizeOf(text) == Len(text) + 2 * Cardinality({i \in DOMAIN text : text[i] \in {Wide, Broken}})
LongestFirst ==
  CHOOSE order \in SetToSeqs(secrets) :
    \A i, j \in DOMAIN order : i < j => SizeOf(order[i]) >= SizeOf(order[j])
RedactOne(text, secret) == Replaced({secret}, text)
Redacted(text) ==
  LET after[n \in 0 .. Len(LongestFirst)] ==
        IF n = 0 THEN text ELSE RedactOne(after[n - 1], LongestFirst[n])
  IN  after[Len(LongestFirst)]

-----------------------------------------------------------------------------
(* Keeping.  The first quarter of the limit and the latest of the rest.    *)
HeadLimit == CaptureLimit \div 4
TailLimit == CaptureLimit - HeadLimit
Ending(s, n) == SubSeq(s, Len(s) - (IF n < Len(s) THEN n ELSE Len(s)) + 1, Len(s))
Smaller(a, b) == IF a < b THEN a ELSE b

Push(k, bytes) ==
  LET take == Smaller(Len(bytes), HeadLimit - Len(k.head))
      rest == SubSeq(bytes, take + 1, Len(bytes))
  IN  [head |-> k.head \o SubSeq(bytes, 1, take), tail |-> Ending(k.tail \o rest, TailLimit),
       total |-> k.total + Len(bytes)]
ReachedLimit(k) == k.total >= CaptureLimit
Truncated(k) == k.total > CaptureLimit

(* A cut through a character drops what is left of it on either side.      *)
TrimmedHead(head) ==
  LET whole == {n \in 0 .. Smaller(3, Len(head)) :
                  LET d == Decode(SubSeq(head, 1, Len(head) - n))
                  IN  d.left = <<>> /\ \A i \in DOMAIN d.text : d.text[i] # Broken}
  IN  IF whole = {} THEN head
      ELSE SubSeq(head, 1, Len(head) - (CHOOSE n \in whole : \A k \in whole : n =< k))
TrimmedTail(tail) ==
  LET n == CHOOSE n \in 0 .. Smaller(3, Len(tail)) :
             /\ \A i \in 1 .. n : tail[i] = "C"
             /\ n = Smaller(3, Len(tail)) \/ tail[n + 1] # "C"
  IN  SubSeq(tail, n + 1, Len(tail))
Retained(k) == IF Truncated(k) THEN TrimmedHead(k.head) \o TrimmedTail(k.tail) ELSE k.head \o k.tail

FitToLimit(text) ==
  CHOOSE t \in {SubSeq(text, i, Len(text)) : i \in 1 .. Len(text) + 1} :
    /\ SizeOf(t) =< CaptureLimit
    /\ \A i \in 1 .. Len(text) : LET u == SubSeq(text, i, Len(text)) IN
         SizeOf(u) =< CaptureLimit => Len(u) =< Len(t)
Captured(k) == FitToLimit(Lossy(Retained(k)))

-----------------------------------------------------------------------------
(* The callback: the redactor releases all but the text it must hold.      *)
PushChunk(text) ==
  LET pending == Replaced(secrets, withheld \o text)
      cut == Len(pending) - RequiredHold(pending)
  IN  /\ shown' = shown \o SubSeq(pending, 1, cut)
      /\ withheld' = SubSeq(pending, cut + 1, Len(pending))

HandleText(text, k) ==
  /\ kept' = k
  /\ IF forwarding /\ text # <<>>
     THEN /\ PushChunk(text)
          /\ forwarded' = forwarded \o text
          /\ forwarding' = ~ReachedLimit(k)
     ELSE UNCHANGED <<withheld, shown, forwarded, forwarding>>

ReadChunk(bytes) ==
  /\ phase = "reading" /\ Len(stream) + Len(bytes) =< MaxBytes
  /\ stream' = stream \o bytes
  /\ LET d == Decode(undecoded \o bytes)
     IN  undecoded' = d.left /\ HandleText(d.text, Push(kept, bytes))
  /\ UNCHANGED <<secrets, phase>>
EndOfStream ==
  /\ phase = "reading" /\ phase' = "read"
  /\ undecoded' = <<>>
  /\ HandleText(Flush(undecoded), kept)
  /\ UNCHANGED <<secrets, stream>>
FinishRedactor ==
  /\ phase = "read" /\ phase' = "done"
  /\ shown' = shown \o Replaced(secrets, withheld) /\ withheld' = <<>>
  /\ UNCHANGED <<secrets, stream, undecoded, kept, forwarding, forwarded>>
StoreCapture ==
  /\ phase = "done" /\ phase' = "stored"
  /\ shown' = Redacted(Captured(kept))
  /\ UNCHANGED <<secrets, stream, undecoded, withheld, kept, forwarding, forwarded>>

StreamsInit ==
  /\ secrets \in SecretSets
  /\ stream = <<>> /\ undecoded = <<>> /\ withheld = <<>> /\ shown = <<>> /\ forwarded = <<>>
  /\ kept = [head |-> <<>>, tail |-> <<>>, total |-> 0]
  /\ forwarding = TRUE /\ phase = "reading"
StreamsNext ==
  \/ \E bytes \in Reads : ReadChunk(bytes)
  \/ EndOfStream \/ FinishRedactor \/ StoreCapture
StreamsSpec == StreamsInit /\ [][StreamsNext]_StreamVars

-----------------------------------------------------------------------------
(* No secret is ever in the record, wherever the reads were cut.           *)
NoSecretRecorded ==
  \A s \in secrets : \A i \in 1 .. Len(shown) : ~StartsAt(shown, i, s)
(* What is held back is less than a secret, what is undecoded less than a  *)
(* character.                                                              *)
HeldBackIsBounded ==
  /\ Len(undecoded) < 3
  /\ withheld # <<>> => \E s \in secrets : Len(withheld) < Len(s)

(* The reads leave no trace: the decoded text is that of the whole stream, *)
(* and where no secret shares text with another, so is the redacted one.   *)
PartOf(s, t) == \E i \in 1 .. Len(t) : StartsAt(t, i, s)
Overlap(s, t) == \E n \in 1 .. Len(s) - 1 : n < Len(t) /\ IsSuffix(SubSeq(t, 1, n), s)
Independent == \A s, t \in secrets : PartOf(s, t) \/ Overlap(s, t) => s = t
ChunksLeaveNoTrace ==
  /\ forwarding /\ phase # "reading" => forwarded = Lossy(stream)
  /\ phase = "done" /\ Independent => shown = Redacted(forwarded)

(* The capture is the beginning and the end of the stream within the       *)
(* limit, without broken characters that the stream has not.               *)
CaptureSound ==
  /\ kept.total = Len(stream)
  /\ kept.head = SubSeq(stream, 1, Smaller(HeadLimit, Len(stream)))
  /\ kept.tail = Ending(SubSeq(stream, Len(kept.head) + 1, Len(stream)), TailLimit)
  /\ SizeOf(Captured(kept)) =< CaptureLimit
  /\ ~Contains(Lossy(stream), Broken) => ~Contains(Captured(kept), Broken)

(* What a stream leaves behind: no secret in the record, little held back,  *)
(* the redaction of the whole stream, and a capture cut only in the middle. *)
StreamsSound == NoSecretRecorded /\ HeldBackIsBounded /\ ChunksLeaveNoTrace /\ CaptureSound
=============================================================================
