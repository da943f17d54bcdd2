-------------------------- MODULE Inductions_proof --------------------------
(***************************************************************************)
(* What the proofs about data rest on: induction over the natural numbers  *)
(* as a statement about a set, which the provers can instantiate, and what *)
(* follows from it of sequences and of sets turned into sequences.         *)
(***************************************************************************)
EXTENDS Sift, SequencesExt, FiniteSetTheorems, SequenceTheorems, TLAPS

(* A set that holds 0 and the successor of each of its numbers holds every *)
(* number.                                                                 *)
LEMMA SetInduction ==
  ASSUME NEW S, 0 \in S, \A n \in Nat : n \in S => n + 1 \in S
  PROVE  Nat \subseteq S
<1> DEFINE T == Nat \ S
<1>1. SUFFICES ASSUME T # {} PROVE FALSE
  OBVIOUS
<1>2. IsWellFoundedOn(OpToRel(<, Nat), Nat)
  BY NatLessThanWellFounded
<1>3. \E x \in T : \A y \in T : ~(<<y, x>> \in OpToRel(<, Nat))
  <2>1. T \subseteq Nat
    OBVIOUS
  <2> HIDE DEF T
  <2> QED BY <1>1, <1>2, <2>1, WFMin
<1>4. PICK x \in T : \A y \in T : ~(<<y, x>> \in OpToRel(<, Nat))
  BY <1>3
<1>5. \A y \in T : ~(y < x)
  BY <1>4 DEF OpToRel
<1>6. x \in Nat /\ x \notin S
  BY <1>4
<1>7. x # 0 /\ x - 1 \in Nat
  BY <1>6
<1>8. x - 1 \in S
  BY <1>5, <1>7
<1> QED
  BY <1>6, <1>7, <1>8

(* Among the natural numbers of a set there is a least one.                *)
LEMMA LeastNumber ==
  ASSUME NEW S, S \subseteq Nat, S # {}
  PROVE  \E n \in S : \A m \in S : n <= m
<1>1. SUFFICES ASSUME \A n \in S : \E m \in S : m < n PROVE FALSE
  OBVIOUS
<1> DEFINE T == {n \in Nat : \A m \in 0 .. n : m \notin S}
<1>2. 0 \in T
  BY <1>1
<1>3. ASSUME NEW n \in Nat, n \in T PROVE n + 1 \in T
  BY <1>1, <1>3
<1>4. Nat \subseteq T
  <2> HIDE DEF T
  <2> QED BY <1>2, <1>3, SetInduction
<1>5. PICK n \in S : TRUE
  OBVIOUS
<1>6. n \in T /\ n \in 0 .. n
  BY <1>4
<1> QED
  BY <1>6

-----------------------------------------------------------------------------
(* Prefixes, without the sequence that is appended.                        *)
LEMMA PrefixPointwise ==
  ASSUME NEW S, NEW s \in Seq(S), NEW t \in Seq(S)
  PROVE  IsPrefix(s, t) <=> Len(s) =< Len(t) /\ \A i \in 1 .. Len(s) : s[i] = t[i]
<1>1. CASE ~(Len(s) =< Len(t))
  BY <1>1 DEF IsPrefix
<1>2. CASE Len(s) =< Len(t)
  <2>1. /\ SubSeq(s, 1, Len(s)) \in Seq(S) /\ Len(SubSeq(s, 1, Len(s))) = Len(s)
        /\ \A i \in 1 .. Len(s) : SubSeq(s, 1, Len(s))[i] = s[i]
    OBVIOUS
  <2>2. /\ SubSeq(t, 1, Len(s)) \in Seq(S) /\ Len(SubSeq(t, 1, Len(s))) = Len(s)
        /\ \A i \in 1 .. Len(s) : SubSeq(t, 1, Len(s))[i] = t[i]
    BY <1>2
  <2>3. SubSeq(s, 1, Len(s)) = SubSeq(t, 1, Len(s)) <=> \A i \in 1 .. Len(s) : s[i] = t[i]
    BY <2>1, <2>2, SeqEqual
  <2> QED BY <1>2, <2>3 DEF IsPrefix
<1> QED BY <1>1, <1>2

LEMMA PrefixReflexive ==
  ASSUME NEW S, NEW s \in Seq(S)
  PROVE  IsPrefix(s, s)
BY PrefixPointwise

LEMMA PrefixTransitive ==
  ASSUME NEW S, NEW s \in Seq(S), NEW t \in Seq(S), NEW u \in Seq(S), IsPrefix(s, t), IsPrefix(t, u)
  PROVE  IsPrefix(s, u)
<1>1. Len(s) =< Len(t) /\ \A i \in 1 .. Len(s) : s[i] = t[i]
  BY PrefixPointwise
<1>2. Len(t) =< Len(u) /\ \A i \in 1 .. Len(t) : t[i] = u[i]
  BY PrefixPointwise
<1>3. Len(s) =< Len(u) /\ \A i \in 1 .. Len(s) : s[i] = u[i]
  BY <1>1, <1>2
<1> QED BY <1>3, PrefixPointwise

LEMMA PrefixOfConcat ==
  ASSUME NEW S, NEW s \in Seq(S), NEW t \in Seq(S)
  PROVE  IsPrefix(s, s \o t)
<1>1. s \o t \in Seq(S) /\ Len(s) =< Len(s \o t) /\ \A i \in 1 .. Len(s) : s[i] = (s \o t)[i]
  OBVIOUS
<1> QED BY <1>1, PrefixPointwise

LEMMA PrefixContents ==
  ASSUME NEW S, NEW s \in Seq(S), NEW t \in Seq(S), IsPrefix(s, t)
  PROVE  ToSet(s) \subseteq ToSet(t)
<1>1. Len(s) =< Len(t) /\ \A i \in 1 .. Len(s) : s[i] = t[i]
  BY PrefixPointwise
<1>2. DOMAIN s = 1 .. Len(s) /\ DOMAIN t = 1 .. Len(t)
  OBVIOUS
<1> QED BY <1>1, <1>2 DEF ToSet

LEMMA ContentsOfConcat ==
  ASSUME NEW S, NEW s \in Seq(S), NEW t \in Seq(S)
  PROVE  ToSet(s \o t) = ToSet(s) \cup ToSet(t)
<1>1. /\ Len(s \o t) = Len(s) + Len(t)
      /\ \A i \in 1 .. Len(s) + Len(t) : (s \o t)[i] = IF i <= Len(s) THEN s[i] ELSE t[i - Len(s)]
      /\ DOMAIN s = 1 .. Len(s) /\ DOMAIN t = 1 .. Len(t)
      /\ DOMAIN (s \o t) = 1 .. Len(s) + Len(t)
  OBVIOUS
<1>2. ASSUME NEW x \in ToSet(s \o t) PROVE x \in ToSet(s) \cup ToSet(t)
  BY <1>1 DEF ToSet
<1>3. ASSUME NEW x \in ToSet(s) PROVE x \in ToSet(s \o t)
  BY <1>1 DEF ToSet
<1>4. ASSUME NEW x \in ToSet(t) PROVE x \in ToSet(s \o t)
  <2>1. PICK j \in 1 .. Len(t) : x = t[j]
    BY <1>1 DEF ToSet
  <2>2. (s \o t)[Len(s) + j] = t[j] /\ Len(s) + j \in 1 .. Len(s) + Len(t)
    BY <1>1
  <2> QED BY <1>1, <2>1, <2>2 DEF ToSet
<1> QED BY <1>2, <1>3, <1>4

LEMMA ContentsOfAppend ==
  ASSUME NEW S, NEW s \in Seq(S), NEW e \in S
  PROVE  ToSet(Append(s, e)) = ToSet(s) \cup {e}
<1>1. /\ Len(Append(s, e)) = Len(s) + 1 /\ Append(s, e)[Len(s) + 1] = e
      /\ \A i \in 1 .. Len(s) : Append(s, e)[i] = s[i]
      /\ DOMAIN s = 1 .. Len(s) /\ DOMAIN Append(s, e) = 1 .. Len(s) + 1
  OBVIOUS
<1> QED BY <1>1 DEF ToSet

LEMMA ContentsInSet ==
  ASSUME NEW S, NEW s \in Seq(S)
  PROVE  ToSet(s) \subseteq S /\ (ToSet(s) = {} <=> s = <<>>)
BY DEF ToSet

LEMMA ContentsFinite ==
  ASSUME NEW S, NEW s \in Seq(S)
  PROVE  IsFiniteSet(ToSet(s))
<1>1. IsFiniteSet(1 .. Len(s))
  BY FS_Interval
<1>2. s \in [1 .. Len(s) -> ToSet(s)] /\ \A x \in ToSet(s) : \E i \in 1 .. Len(s) : s[i] = x
  BY DEF ToSet
<1>3. s \in Surjection(1 .. Len(s), ToSet(s))
  BY <1>2 DEF Surjection
<1> QED BY <1>1, <1>3, FS_Surjection

(* A finite set as a sequence has exactly the members of the set.          *)
LEMMA ContentsOfSetToSeq ==
  ASSUME NEW S, IsFiniteSet(S)
  PROVE  SetToSeq(S) \in Seq(S) /\ ToSet(SetToSeq(S)) = S
<1> DEFINE n == Cardinality(S)
<1>1. n \in Nat /\ ExistsBijection(1 .. n, S)
  BY FS_CardinalityType
<1>2. \E f \in [1 .. n -> S] : IsInjective(f)
  BY <1>1 DEF ExistsBijection, Bijection, Injection
<1>3. SetToSeq(S) \in [1 .. n -> S] /\ IsInjective(SetToSeq(S))
  BY <1>2 DEF SetToSeq
<1>4. SetToSeq(S) \in Injection(1 .. n, S)
  BY <1>3 DEF Injection
<1>5. Cardinality(1 .. n) = n
  BY <1>1, FS_Interval
<1>6. SetToSeq(S) \in Surjection(1 .. n, S)
  BY <1>4, <1>5, FS_Injection
<1>7. \A x \in S : \E i \in 1 .. n : SetToSeq(S)[i] = x
  BY <1>6 DEF Surjection
<1> QED BY <1>1, <1>3, <1>7 DEF ToSet

-----------------------------------------------------------------------------
(* A sequence cut in two, and one of its entries taken out.                *)
LEMMA CutContents ==
  ASSUME NEW T, NEW s \in Seq(T), NEW k \in 0 .. Len(s)
  PROVE  /\ SubSeq(s, 1, k) \in Seq(T) /\ SubSeq(s, k + 1, Len(s)) \in Seq(T)
         /\ ToSet(SubSeq(s, 1, k)) \cup ToSet(SubSeq(s, k + 1, Len(s))) = ToSet(s)
<1> DEFINE a == SubSeq(s, 1, k)
           b == SubSeq(s, k + 1, Len(s))
<1>1. /\ a \in Seq(T) /\ DOMAIN a = 1 .. k /\ \A i \in 1 .. k : a[i] = s[i]
      /\ b \in Seq(T) /\ DOMAIN b = 1 .. Len(s) - k /\ \A i \in 1 .. Len(s) - k : b[i] = s[i + k]
      /\ DOMAIN s = 1 .. Len(s) /\ Len(s) \in Nat
  <2>1. a \in Seq(T) /\ DOMAIN a = 1 .. k /\ \A i \in 1 .. k : a[i] = s[i]
    OBVIOUS
  <2>2. k + 1 \in 1 .. Len(s) + 1 /\ Len(s) \in Nat /\ DOMAIN s = 1 .. Len(s)
    OBVIOUS
  <2>3. b \in Seq(T) /\ Len(b) = Len(s) - k
    OBVIOUS
  <2>4. \A i \in 1 .. Len(s) - k : b[i] = s[i + k]
    OBVIOUS
  <2> HIDE DEF a, b
  <2>5. DOMAIN b = 1 .. Len(s) - k
    BY <2>3
  <2> QED BY <2>1, <2>2, <2>3, <2>4, <2>5
<1> HIDE DEF a, b
<1>2. ToSet(a) \subseteq ToSet(s) /\ ToSet(b) \subseteq ToSet(s)
  <2>1. \A i \in 1 .. k : i \in 1 .. Len(s) /\ a[i] = s[i]
    BY <1>1
  <2>2. \A i \in 1 .. Len(s) - k : i + k \in 1 .. Len(s) /\ b[i] = s[i + k]
    BY <1>1
  <2>3. ToSet(a) \subseteq ToSet(s)
    BY <1>1, <2>1 DEF ToSet
  <2>4. ToSet(b) \subseteq ToSet(s)
    BY <1>1, <2>2 DEF ToSet
  <2> QED BY <2>3, <2>4
<1>3. ASSUME NEW i \in 1 .. Len(s) PROVE s[i] \in ToSet(a) \cup ToSet(b)
  <2>1. CASE i =< k
    BY <1>1, <2>1 DEF ToSet
  <2>2. CASE ~(i =< k)
    <3>1. i - k \in 1 .. Len(s) - k /\ b[i - k] = s[i]
      BY <1>1, <2>2
    <3> QED BY <1>1, <3>1 DEF ToSet
  <2> QED BY <2>1, <2>2
<1>4. ToSet(s) \subseteq ToSet(a) \cup ToSet(b)
  BY <1>1, <1>3 DEF ToSet
<1> QED BY <1>1, <1>2, <1>4 DEF a, b

LEMMA TakenOut ==
  ASSUME NEW T, NEW s \in Seq(T), NEW i \in DOMAIN s
  PROVE  RemoveAt(s, i) \in Seq(T) /\ ToSet(RemoveAt(s, i)) \cup {s[i]} = ToSet(s)
<1> DEFINE a == SubSeq(s, 1, i - 1)
           b == SubSeq(s, i + 1, Len(s))
           c == SubSeq(s, i, Len(s))
<1>1. /\ i \in 1 .. Len(s) /\ i - 1 \in 0 .. Len(s) /\ i \in 0 .. Len(s) /\ (i - 1) + 1 = i
      /\ s[i] \in T /\ Len(s) \in Nat
  OBVIOUS
<1>2. a \in Seq(T) /\ c \in Seq(T) /\ ToSet(a) \cup ToSet(c) = ToSet(s)
  BY <1>1, CutContents
<1>3. b \in Seq(T) /\ DOMAIN b = 1 .. Len(s) - i /\ \A j \in 1 .. Len(s) - i : b[j] = s[j + i]
  BY <1>1
<1>4. DOMAIN c = 1 .. Len(s) - i + 1 /\ \A j \in 1 .. Len(s) - i + 1 : c[j] = s[j + i - 1]
  BY <1>1
<1>5. RemoveAt(s, i) = a \o b
  BY DEF RemoveAt
<1> HIDE DEF a, b, c
<1>6. ToSet(c) = ToSet(b) \cup {s[i]}
  <2>1. ASSUME NEW j \in 1 .. Len(s) - i + 1 PROVE c[j] \in ToSet(b) \cup {s[i]}
    <3>1. CASE j = 1
      BY <1>1, <1>4, <3>1
    <3>2. CASE j # 1
      <4>1. j - 1 \in 1 .. Len(s) - i /\ (j - 1) + i = j + i - 1
        BY <1>1, <3>2
      <4>2. b[j - 1] = c[j]
        BY <1>3, <1>4, <4>1
      <4> QED BY <1>3, <4>1, <4>2 DEF ToSet
    <3> QED BY <3>1, <3>2
  <2>2. ASSUME NEW j \in 1 .. Len(s) - i PROVE b[j] \in ToSet(c)
    <3>1. j + 1 \in 1 .. Len(s) - i + 1 /\ (j + 1) + i - 1 = j + i
      BY <1>1
    <3>2. c[j + 1] = b[j]
      BY <1>3, <1>4, <3>1
    <3> QED BY <1>4, <3>1, <3>2 DEF ToSet
  <2>3. s[i] \in ToSet(c)
    <3>1. 1 \in 1 .. Len(s) - i + 1 /\ c[1] = s[i]
      BY <1>1, <1>4
    <3> QED BY <1>4, <3>1 DEF ToSet
  <2>4. ToSet(c) \subseteq ToSet(b) \cup {s[i]}
    BY <1>4, <2>1 DEF ToSet
  <2>5. ToSet(b) \subseteq ToSet(c)
    BY <1>3, <2>2 DEF ToSet
  <2> QED BY <2>3, <2>4, <2>5
<1>7. a \o b \in Seq(T) /\ ToSet(a \o b) = ToSet(a) \cup ToSet(b)
  BY <1>2, <1>3, ContentsOfConcat
<1> QED BY <1>2, <1>5, <1>6, <1>7

LEMMA PutIn ==
  ASSUME NEW T, NEW s \in Seq(T), NEW i \in 1 .. Len(s) + 1, NEW e \in T
  PROVE  InsertAt(s, i, e) \in Seq(T) /\ ToSet(InsertAt(s, i, e)) = ToSet(s) \cup {e}
<1> DEFINE a == SubSeq(s, 1, i - 1)
           c == SubSeq(s, i, Len(s))
<1>1. i - 1 \in 0 .. Len(s) /\ (i - 1) + 1 = i
  OBVIOUS
<1>2. a \in Seq(T) /\ c \in Seq(T) /\ ToSet(a) \cup ToSet(c) = ToSet(s)
  BY <1>1, CutContents
<1>3. InsertAt(s, i, e) = (a \o <<e>>) \o c
  BY DEF InsertAt
<1> DEFINE one == <<e>>
           both == a \o one
<1>4. one \in Seq(T) /\ ToSet(one) = {e}
  BY DEF ToSet
<1> HIDE DEF a, c, one
<1>5. both \in Seq(T)
  BY <1>2, <1>4
<1>6. ToSet(both) = ToSet(a) \cup ToSet(one)
  BY <1>2, <1>4, ContentsOfConcat
<1> HIDE DEF both
<1>7. both \o c \in Seq(T)
  BY <1>2, <1>5
<1>8. ToSet(both \o c) = ToSet(both) \cup ToSet(c)
  BY <1>2, <1>5, ContentsOfConcat
<1>9. InsertAt(s, i, e) = both \o c
  BY <1>3 DEF both, one
<1> QED BY <1>2, <1>4, <1>6, <1>7, <1>8, <1>9

-----------------------------------------------------------------------------
(* The recursion of Sift has a solution: there is one for every length.    *)
SiftStep(s, S, f, n) ==
  IF n = 0 THEN <<>> ELSE IF s[n] \in S THEN Append(f[n - 1], s[n]) ELSE f[n - 1]

LEMMA SiftDefined ==
  ASSUME NEW T, NEW s \in Seq(T), NEW S
  PROVE  \E f : f = [n \in 0 .. Len(s) |-> SiftStep(s, S, f, n)] /\ Sift(s, S) = f[Len(s)]
<1> DEFINE Good == {k \in Nat : \E f : f = [n \in 0 .. k |-> SiftStep(s, S, f, n)]}
<1>1. 0 \in Good
  <2> DEFINE f == [n \in 0 .. 0 |-> <<>>]
  <2>1. f = [n \in 0 .. 0 |-> SiftStep(s, S, f, n)]
    BY DEF SiftStep
  <2> QED BY <2>1
<1>2. ASSUME NEW k \in Nat, k \in Good PROVE k + 1 \in Good
  <2>1. PICK f : f = [n \in 0 .. k |-> SiftStep(s, S, f, n)]
    BY <1>2
  <2> DEFINE g == [n \in 0 .. k + 1 |-> IF n = k + 1 THEN SiftStep(s, S, f, k + 1) ELSE f[n]]
  <2>2. ASSUME NEW n \in 0 .. k + 1 PROVE g[n] = SiftStep(s, S, g, n)
    <3>1. CASE n = k + 1
      <4>1. n # 0 /\ n - 1 = k /\ g[k] = f[k]
        BY <3>1
      <4>2. g[n] = SiftStep(s, S, f, k + 1)
        BY <3>1
      <4> QED BY <3>1, <4>1, <4>2 DEF SiftStep
    <3>2. CASE n # k + 1
      <4>1. n \in 0 .. k /\ g[n] = f[n]
        BY <3>2
      <4>2. f[n] = SiftStep(s, S, f, n)
        BY <2>1, <4>1
      <4>3. n # 0 => g[n - 1] = f[n - 1]
        BY <4>1
      <4> QED BY <4>1, <4>2, <4>3 DEF SiftStep
    <3> QED BY <3>1, <3>2
  <2>3. g = [n \in 0 .. k + 1 |-> SiftStep(s, S, g, n)]
    BY <2>2
  <2>4. \E h : h = [n \in 0 .. k + 1 |-> SiftStep(s, S, h, n)]
    <3> HIDE DEF g
    <3> QED BY <2>3
  <2> QED BY <2>4
<1>3. Nat \subseteq Good
  <2> HIDE DEF Good
  <2> QED BY <1>1, <1>2, SetInduction
<1>4. \E f : f = [n \in 0 .. Len(s) |-> SiftStep(s, S, f, n)]
  BY <1>3
<1> DEFINE first == CHOOSE f : f = [n \in 0 .. Len(s) |-> SiftStep(s, S, f, n)]
<1>5. first = [n \in 0 .. Len(s) |-> SiftStep(s, S, first, n)]
  BY <1>4
<1>6. Sift(s, S) = first[Len(s)]
  BY DEF Sift, SiftStep
<1> QED BY <1>5, <1>6

(* Sift keeps what is in the set, and nothing else.                        *)
LEMMA SiftContents ==
  ASSUME NEW T, NEW s \in Seq(T), NEW S
  PROVE  Sift(s, S) \in Seq(T) /\ ToSet(Sift(s, S)) = ToSet(s) \cap S
<1>1. PICK f : f = [n \in 0 .. Len(s) |-> SiftStep(s, S, f, n)] /\ Sift(s, S) = f[Len(s)]
  BY SiftDefined
<1> DEFINE Upto(k) == {s[i] : i \in 1 .. k}
           Right(k) == f[k] \in Seq(T) /\ ToSet(f[k]) = Upto(k) \cap S
           Good == {k \in Nat : k =< Len(s) => Right(k)}
<1>2. 0 \in Good
  <2>1. f[0] = <<>>
    BY <1>1 DEF SiftStep
  <2>2. Upto(0) = {} /\ ToSet(<<>>) = {}
    BY DEF ToSet
  <2>3. Right(0)
    <3>1. <<>> \in Seq(T)
      OBVIOUS
    <3> HIDE DEF Upto
    <3> QED BY <2>1, <2>2, <3>1
  <2> HIDE DEF Right
  <2> QED BY <2>3
<1>3. ASSUME NEW k \in Nat, k \in Good PROVE k + 1 \in Good
  <2>1. SUFFICES ASSUME k + 1 =< Len(s) PROVE Right(k + 1)
    OBVIOUS
  <2>2. Right(k)
    BY <1>3, <2>1
  <2>3. s[k + 1] \in T
    BY <2>1
  <2>4. Upto(k + 1) = Upto(k) \cup {s[k + 1]}
    <3>1. 1 .. k + 1 = (1 .. k) \cup {k + 1}
      OBVIOUS
    <3> QED BY <3>1
  <2>5. f[k + 1] = IF s[k + 1] \in S THEN Append(f[k], s[k + 1]) ELSE f[k]
    <3>1. k + 1 \in 0 .. Len(s) /\ k + 1 # 0 /\ (k + 1) - 1 = k
      BY <2>1
    <3>2. f[k + 1] = SiftStep(s, S, f, k + 1)
      BY <1>1, <3>1
    <3> QED BY <3>1, <3>2 DEF SiftStep
  <2> HIDE DEF Upto
  <2>6. CASE s[k + 1] \in S
    <3>1. f[k + 1] = Append(f[k], s[k + 1])
      BY <2>5, <2>6
    <3>2. Append(f[k], s[k + 1]) \in Seq(T)
      BY <2>2, <2>3
    <3>3. ToSet(Append(f[k], s[k + 1])) = ToSet(f[k]) \cup {s[k + 1]}
      BY <2>2, <2>3, ContentsOfAppend
    <3> QED BY <2>2, <2>4, <2>6, <3>1, <3>2, <3>3
  <2>7. CASE s[k + 1] \notin S
    BY <2>2, <2>4, <2>5, <2>7
  <2> QED BY <2>6, <2>7
<1>4. Nat \subseteq Good
  <2> HIDE DEF Good
  <2> QED BY <1>2, <1>3, SetInduction
<1>5. Len(s) \in Nat /\ Upto(Len(s)) = ToSet(s)
  BY DEF ToSet
<1>6. Right(Len(s))
  BY <1>4, <1>5
<1> QED BY <1>1, <1>5, <1>6

(* What Sift keeps stays in its order, and comes from different places.    *)
KeepsOrder(g, s, k) ==
  /\ \A i \in 1 .. Len(g) : \E p \in 1 .. k : g[i] = s[p]
  /\ \A i, j \in 1 .. Len(g) : i < j => \E p, q \in 1 .. k : p < q /\ g[i] = s[p] /\ g[j] = s[q]
LEMMA SiftInOrder ==
  ASSUME NEW T, NEW s \in Seq(T), NEW S
  PROVE  \A i, j \in DOMAIN Sift(s, S) : i < j =>
           \E p, q \in DOMAIN s : p < q /\ Sift(s, S)[i] = s[p] /\ Sift(s, S)[j] = s[q]
<1>1. PICK f : f = [n \in 0 .. Len(s) |-> SiftStep(s, S, f, n)] /\ Sift(s, S) = f[Len(s)]
  BY SiftDefined
<1> DEFINE Good == {k \in Nat : k =< Len(s) => f[k] \in Seq(T) /\ KeepsOrder(f[k], s, k)}
<1>2. 0 \in Good
  <2>1. f[0] = <<>>
    BY <1>1 DEF SiftStep
  <2>2. <<>> \in Seq(T) /\ KeepsOrder(<<>>, s, 0)
    BY DEF KeepsOrder
  <2> QED BY <2>1, <2>2
<1>3. ASSUME NEW k \in Nat, k \in Good PROVE k + 1 \in Good
  <2>1. SUFFICES ASSUME k + 1 =< Len(s) PROVE f[k + 1] \in Seq(T) /\ KeepsOrder(f[k + 1], s, k + 1)
    OBVIOUS
  <2>2. f[k] \in Seq(T) /\ KeepsOrder(f[k], s, k)
    BY <1>3, <2>1
  <2>3. s[k + 1] \in T
    BY <2>1
  <2>4. f[k + 1] = IF s[k + 1] \in S THEN Append(f[k], s[k + 1]) ELSE f[k]
    <3>1. k + 1 \in 0 .. Len(s) /\ k + 1 # 0 /\ (k + 1) - 1 = k
      BY <2>1
    <3>2. f[k + 1] = SiftStep(s, S, f, k + 1)
      BY <1>1, <3>1
    <3> QED BY <3>1, <3>2 DEF SiftStep
  <2>5. CASE s[k + 1] \notin S
    <3>1. f[k + 1] = f[k] /\ 1 .. k \subseteq 1 .. k + 1
      BY <2>4, <2>5
    <3> QED BY <2>2, <3>1 DEF KeepsOrder
  <2>6. CASE s[k + 1] \in S
    <3>1. f[k + 1] = Append(f[k], s[k + 1])
      BY <2>4, <2>6
    <3> DEFINE g == f[k]
               h == Append(g, s[k + 1])
    <3>2. /\ h \in Seq(T) /\ Len(h) = Len(g) + 1 /\ h[Len(g) + 1] = s[k + 1]
          /\ \A i \in 1 .. Len(g) : h[i] = g[i]
      BY <2>2, <2>3
    <3>3. Len(g) \in Nat /\ \A i \in 1 .. Len(g) : \E p \in 1 .. k : g[i] = s[p]
      BY <2>2 DEF KeepsOrder
    <3>4. \A i, j \in 1 .. Len(g) : i < j => \E p, q \in 1 .. k : p < q /\ g[i] = s[p] /\ g[j] = s[q]
      BY <2>2 DEF KeepsOrder
    <3> HIDE DEF g, h
    <3>5. \A i \in 1 .. Len(h) : \E p \in 1 .. k + 1 : h[i] = s[p]
      BY <3>2, <3>3
    <3>6. ASSUME NEW i \in 1 .. Len(h), NEW j \in 1 .. Len(h), i < j
          PROVE  \E p, q \in 1 .. k + 1 : p < q /\ h[i] = s[p] /\ h[j] = s[q]
      <4>1. CASE j = Len(g) + 1
        <5>1. PICK p \in 1 .. k : h[i] = s[p]
          BY <3>2, <3>3, <3>6, <4>1
        <5> QED BY <3>2, <4>1, <5>1
      <4>2. CASE j # Len(g) + 1
        <5>1. i \in 1 .. Len(g) /\ j \in 1 .. Len(g)
          BY <3>2, <3>3, <3>6, <4>2
        <5>2. PICK p \in 1 .. k, q \in 1 .. k : p < q /\ g[i] = s[p] /\ g[j] = s[q]
          BY <3>4, <3>6, <5>1
        <5> QED BY <3>2, <5>1, <5>2
      <4> QED BY <4>1, <4>2
    <3>7. f[k + 1] = h
      BY <3>1 DEF g, h
    <3>8. \A i, j \in 1 .. Len(h) : i < j => \E p, q \in 1 .. k + 1 : p < q /\ h[i] = s[p] /\ h[j] = s[q]
      BY <3>6
    <3>9. KeepsOrder(h, s, k + 1)
      BY <3>5, <3>8 DEF KeepsOrder
    <3> QED BY <3>2, <3>7, <3>9
  <2> QED BY <2>5, <2>6
<1>4. Nat \subseteq Good
  <2> HIDE DEF Good
  <2> QED BY <1>2, <1>3, SetInduction
<1>5. Len(s) \in Nat /\ DOMAIN s = 1 .. Len(s)
  OBVIOUS
<1>6. f[Len(s)] \in Seq(T) /\ KeepsOrder(f[Len(s)], s, Len(s))
  BY <1>4, <1>5
<1>7. Sift(s, S) \in Seq(T) /\ KeepsOrder(Sift(s, S), s, Len(s))
  BY <1>1, <1>6
<1>8. DOMAIN Sift(s, S) = 1 .. Len(Sift(s, S))
  BY <1>7
<1> DEFINE g == Sift(s, S)
<1>9. ASSUME NEW i \in 1 .. Len(g), NEW j \in 1 .. Len(g), i < j
      PROVE  \E p, q \in DOMAIN s : p < q /\ g[i] = s[p] /\ g[j] = s[q]
  <2>1. KeepsOrder(g, s, Len(s))
    BY <1>7
  <2> HIDE DEF g
  <2>2. PICK p \in 1 .. Len(s), q \in 1 .. Len(s) : p < q /\ g[i] = s[p] /\ g[j] = s[q]
    BY <1>9, <2>1 DEF KeepsOrder
  <2> QED BY <1>5, <2>2
<1> QED BY <1>8, <1>9
-----------------------------------------------------------------------------
(* How many members of a sequence belong to a set: what one more at the    *)
(* end, one less at the end and one less at the beginning do to the count. *)
Places(s, S) == {i \in DOMAIN s : s[i] \in S}
HowMany(s, S) == Cardinality(Places(s, S))

LEMMA PlacesFinite ==
  ASSUME NEW T, NEW s \in Seq(T), NEW S
  PROVE  IsFiniteSet(Places(s, S)) /\ HowMany(s, S) \in Nat
<1>1. IsFiniteSet(1 .. Len(s)) /\ Places(s, S) \subseteq 1 .. Len(s)
  BY FS_Interval DEF Places
<1> QED
  BY <1>1, FS_Subset, FS_CardinalityType DEF HowMany

LEMMA CountEmpty == \A S : HowMany(<<>>, S) = 0
  BY FS_EmptySet DEF HowMany, Places

LEMMA CountAppend ==
  ASSUME NEW T, NEW s \in Seq(T), NEW x \in T, NEW S
  PROVE  HowMany(Append(s, x), S) = HowMany(s, S) + (IF x \in S THEN 1 ELSE 0)
<1> DEFINE n == Len(s) + 1
           t == Append(s, x)
<1>1. n \in Nat /\ n \notin Places(s, S) /\ t \in Seq(T) /\ DOMAIN t = 1 .. n /\ DOMAIN s = 1 .. Len(s)
  BY DEF Places
<1>2. Places(t, S) = IF x \in S THEN Places(s, S) \cup {n} ELSE Places(s, S)
  BY <1>1 DEF Places
<1>3. IsFiniteSet(Places(s, S)) /\ HowMany(s, S) \in Nat
  BY PlacesFinite
<1> HIDE DEF t, n
<1>4. Cardinality(Places(s, S) \cup {n}) = Cardinality(Places(s, S)) + 1
  BY <1>1, <1>3, FS_AddElement
<1>5. HowMany(t, S) = HowMany(s, S) + (IF x \in S THEN 1 ELSE 0)
  BY <1>2, <1>3, <1>4 DEF HowMany
<1> QED BY <1>5 DEF t

LEMMA CountFront ==
  ASSUME NEW T, NEW s \in Seq(T), s # <<>>, NEW S
  PROVE  /\ Front(s) \in Seq(T) /\ Last(s) \in T
         /\ HowMany(s, S) = HowMany(Front(s), S) + (IF Last(s) \in S THEN 1 ELSE 0)
<1>1. Front(s) \in Seq(T) /\ Last(s) \in T /\ s = Append(Front(s), Last(s))
  <2>1. Len(s) \in Nat \ {0} /\ s = [i \in 1 .. Len(s) |-> s[i]] /\ \A i \in 1 .. Len(s) : s[i] \in T
    OBVIOUS
  <2>2. Front(s) = [i \in 1 .. Len(s) - 1 |-> s[i]]
    BY <2>1 DEF Front
  <2>3. Front(s) \in Seq(T) /\ Len(Front(s)) = Len(s) - 1 /\ Last(s) = s[Len(s)] /\ Last(s) \in T
    BY <2>1, <2>2 DEF Last
  <2>4. /\ Append(Front(s), Last(s)) \in Seq(T) /\ Len(Append(Front(s), Last(s))) = Len(s)
        /\ \A i \in 1 .. Len(s) : Append(Front(s), Last(s))[i] = s[i]
    BY <2>1, <2>2, <2>3
  <2>5. \A q \in Seq(T) : q = [i \in 1 .. Len(q) |-> q[i]]
    OBVIOUS
  <2> QED BY <2>1, <2>3, <2>4, <2>5
<1>2. PICK q \in Seq(T), x \in T : q = Front(s) /\ x = Last(s)
  BY <1>1
<1>3. s = Append(q, x) /\ HowMany(Append(q, x), S) = HowMany(q, S) + (IF x \in S THEN 1 ELSE 0)
  BY <1>1, <1>2, CountAppend
<1> QED BY <1>1, <1>2, <1>3

LEMMA CountTail ==
  ASSUME NEW T, NEW s \in Seq(T), s # <<>>, NEW S
  PROVE  /\ Tail(s) \in Seq(T) /\ Head(s) \in T
         /\ HowMany(s, S) = HowMany(Tail(s), S) + (IF Head(s) \in S THEN 1 ELSE 0)
<1>1. /\ Tail(s) \in Seq(T) /\ Head(s) \in T /\ Head(s) = s[1] /\ Len(s) \in Nat \ {0} /\ DOMAIN s = 1 .. Len(s)
      /\ DOMAIN Tail(s) = 1 .. Len(s) - 1 /\ \A i \in 1 .. Len(s) - 1 : Tail(s)[i] = s[i + 1]
  OBVIOUS
<1> DEFINE A == Places(Tail(s), S)
           B == Places(s, S) \ {1}
           f == [i \in A |-> i + 1]
<1>2. IsFiniteSet(A) /\ IsFiniteSet(Places(s, S)) /\ HowMany(s, S) \in Nat /\ HowMany(Tail(s), S) \in Nat
  BY <1>1, PlacesFinite
<1>3. f \in [A -> B]
  BY <1>1 DEF Places
<1>4. \A i, j \in A : f[i] = f[j] => i = j
  BY <1>1 DEF Places
<1>5. \A j \in B : \E i \in A : f[i] = j
  <2> SUFFICES ASSUME NEW j \in B PROVE \E i \in A : f[i] = j
    OBVIOUS
  <2>1. j - 1 \in A /\ (j - 1) + 1 = j
    BY <1>1 DEF Places
  <2> QED BY <2>1
<1>6. ExistsBijection(A, B)
  <2> HIDE DEF f, A, B
  <2>1. f \in Bijection(A, B)
    BY <1>3, <1>4, <1>5 DEF Bijection, Injection, Surjection, IsInjective
  <2> QED BY <2>1 DEF ExistsBijection
<1>7. Cardinality(B) = Cardinality(A)
  <2> HIDE DEF A, B
  <2> QED BY <1>2, <1>6, FS_Bijection
<1>8. Cardinality(B) = IF 1 \in Places(s, S) THEN Cardinality(Places(s, S)) - 1 ELSE Cardinality(Places(s, S))
  BY <1>2, FS_RemoveElement
<1>9. 1 \in Places(s, S) <=> Head(s) \in S
  BY <1>1 DEF Places
<1> QED BY <1>1, <1>2, <1>7, <1>8, <1>9 DEF HowMany
-----------------------------------------------------------------------------
(* A finite set under a total order can be laid out in that order, in one  *)
(* way, with every member once.                                            *)
StrictOrder(R, C) ==
  /\ \A a \in C : <<a, a>> \notin R
  /\ \A a, b, c \in C : <<a, b>> \in R /\ <<b, c>> \in R => <<a, c>> \in R
  /\ \A a, b \in C : a = b \/ <<a, b>> \in R \/ <<b, a>> \in R
Sorted(R, s, n) == \A i, j \in 1 .. n : i < j => <<s[i], s[j]>> \in R

(* How many members come before one: every number is one member's.         *)
Rank(R, C, a) == Cardinality({b \in C : <<b, a>> \in R})
RanksCount(R, C) ==
  /\ \A a \in C : Rank(R, C, a) \in 0 .. Cardinality(C) - 1
  /\ \A a, b \in C : <<a, b>> \in R => Rank(R, C, a) < Rank(R, C, b)
  /\ \A a, b \in C : Rank(R, C, a) = Rank(R, C, b) => a = b
  /\ \A k \in 0 .. Cardinality(C) - 1 : \E a \in C : Rank(R, C, a) = k
LEMMA RanksAre ==
  ASSUME NEW C, IsFiniteSet(C), NEW R, StrictOrder(R, C)
  PROVE  RanksCount(R, C)
<1> DEFINE n == Cardinality(C)
           D(a) == {b \in C : <<b, a>> \in R}
           rank == [a \in C |-> Cardinality(D(a))]
<1>0. \A a \in C : rank[a] = Rank(R, C, a)
  BY DEF Rank
<1>1. n \in Nat
  BY FS_CardinalityType
<1>2. \A a \in C : D(a) \subseteq C /\ IsFiniteSet(D(a)) /\ a \notin D(a) /\ Cardinality(D(a)) \in Nat
  <2> SUFFICES ASSUME NEW a \in C
               PROVE  D(a) \subseteq C /\ IsFiniteSet(D(a)) /\ a \notin D(a) /\ Cardinality(D(a)) \in Nat
    OBVIOUS
  <2>1. D(a) \subseteq C /\ a \notin D(a)
    BY DEF StrictOrder
  <2> HIDE DEF D
  <2> QED BY <2>1, FS_Subset, FS_CardinalityType
<1>3. ASSUME NEW a \in C PROVE rank[a] \in 0 .. n - 1
  <2>1. Cardinality(D(a)) =< n /\ (n = Cardinality(D(a)) => C = D(a)) /\ D(a) # C
    <3> HIDE DEF D
    <3> QED BY <1>2, FS_Subset
  <2> HIDE DEF D
  <2> QED BY <1>1, <1>2, <2>1
<1>4. ASSUME NEW a \in C, NEW b \in C, <<a, b>> \in R PROVE rank[a] < rank[b]
  <2>1. D(a) \subseteq D(b) /\ a \in D(b) /\ a \notin D(a)
    BY <1>2, <1>4 DEF StrictOrder
  <2>2. IsFiniteSet(D(b)) /\ Cardinality(D(a)) \in Nat /\ Cardinality(D(b)) \in Nat
    BY <1>2
  <2> HIDE DEF D
  <2>3. Cardinality(D(a)) =< Cardinality(D(b)) /\ Cardinality(D(a)) # Cardinality(D(b))
    BY <2>1, <2>2, FS_Subset
  <2> QED BY <2>2, <2>3
<1>5. /\ rank \in [C -> 0 .. n - 1] /\ \A a, b \in C : rank[a] = rank[b] => a = b
  <2>1. rank \in [C -> 0 .. n - 1]
    BY <1>3
  <2>2. \A a \in C : rank[a] \in Nat
    BY <1>3
  <2> HIDE DEF rank, D
  <2>3. ASSUME NEW a \in C, NEW b \in C, rank[a] = rank[b] PROVE a = b
    <3>1. ASSUME <<a, b>> \in R PROVE FALSE
      <4>1. rank[a] < rank[b]
        BY <1>4, <3>1
      <4> QED BY <2>2, <2>3, <4>1
    <3>2. ASSUME <<b, a>> \in R PROVE FALSE
      <4>1. rank[b] < rank[a]
        BY <1>4, <3>2
      <4> QED BY <2>2, <2>3, <4>1
    <3> QED BY <3>1, <3>2 DEF StrictOrder
  <2> QED BY <2>1, <2>3
<1> HIDE DEF rank, D, n
<1>6. rank \in Surjection(C, 0 .. n - 1)
  <2>1. rank \in Injection(C, 0 .. n - 1)
    BY <1>5 DEF Injection, IsInjective
  <2>2. IsFiniteSet(0 .. n - 1) /\ Cardinality(0 .. n - 1) = n
    BY <1>1, FS_Interval
  <2>3. Cardinality(C) = Cardinality(0 .. n - 1)
    BY <2>2 DEF n
  <2> QED BY <2>1, <2>2, <2>3, FS_Injection
<1>7. \A k \in 0 .. n - 1 : \E a \in C : rank[a] = k
  BY <1>6 DEF Surjection
<1>8. \A a \in C : rank[a] \in 0 .. n - 1
  BY <1>3
<1>9. \A a, b \in C : <<a, b>> \in R => rank[a] < rank[b]
  BY <1>4
<1> QED BY <1>0, <1>5, <1>7, <1>8, <1>9 DEF n, RanksCount

LEMMA OrderExists ==
  ASSUME NEW C, IsFiniteSet(C), NEW R, StrictOrder(R, C)
  PROVE  \E s \in [1 .. Cardinality(C) -> C] : Sorted(R, s, Cardinality(C))
<1> DEFINE n == Cardinality(C)
           rank == [a \in C |-> Rank(R, C, a)]
           s == [i \in 1 .. n |-> CHOOSE a \in C : rank[a] = i - 1]
<1>1. n \in Nat
  BY FS_CardinalityType
<1>2. /\ \A a \in C : rank[a] \in 0 .. n - 1
      /\ \A a, b \in C : <<a, b>> \in R => rank[a] < rank[b]
      /\ \A k \in 0 .. n - 1 : \E a \in C : rank[a] = k
  <2>1. RanksCount(R, C)
    BY RanksAre
  <2> QED BY <2>1 DEF RanksCount
<1> HIDE DEF rank, n
<1>4. ASSUME NEW a \in C, NEW b \in C, <<a, b>> \in R PROVE rank[a] < rank[b]
  BY <1>2, <1>4
<1>7. \A i \in 1 .. n : s[i] \in C /\ rank[s[i]] = i - 1
  <2> SUFFICES ASSUME NEW i \in 1 .. n PROVE s[i] \in C /\ rank[s[i]] = i - 1
    OBVIOUS
  <2>1. i - 1 \in 0 .. n - 1
    BY <1>1
  <2>2. \E a \in C : rank[a] = i - 1
    BY <1>2, <2>1
  <2> QED BY <2>2
<1>8. s \in [1 .. n -> C]
  BY <1>7
<1>9. Sorted(R, s, n)
  <2> HIDE DEF s
  <2>1. SUFFICES ASSUME NEW i \in 1 .. n, NEW j \in 1 .. n, i < j PROVE <<s[i], s[j]>> \in R
    BY DEF Sorted
  <2>2. s[i] \in C /\ s[j] \in C /\ rank[s[i]] < rank[s[j]] /\ rank[s[i]] = i - 1 /\ rank[s[j]] = j - 1
    BY <1>1, <1>7, <2>1
  <2>3. s[i] = s[j] \/ <<s[i], s[j]>> \in R \/ <<s[j], s[i]>> \in R
    BY <2>2 DEF StrictOrder
  <2>4. s[i] # s[j]
    BY <1>1, <2>1, <2>2
  <2>5. <<s[j], s[i]>> \notin R
    <3>1. ASSUME <<s[j], s[i]>> \in R PROVE FALSE
      <4>1. rank[s[j]] < rank[s[i]]
        BY <1>4, <2>2, <3>1
      <4> QED BY <1>1, <2>1, <2>2, <4>1
    <3> QED BY <3>1
  <2> QED BY <2>3, <2>4, <2>5
<1>10. \E t \in [1 .. n -> C] : Sorted(R, t, n)
  <2> HIDE DEF s
  <2> QED BY <1>8, <1>9
<1> QED BY <1>10 DEF n

LEMMA OrderIsComplete ==
  ASSUME NEW C, IsFiniteSet(C), NEW R, StrictOrder(R, C),
         NEW s \in [1 .. Cardinality(C) -> C], Sorted(R, s, Cardinality(C))
  PROVE  /\ s \in Seq(C) /\ ToSet(s) = C /\ IsInjective(s) /\ DOMAIN s = 1 .. Cardinality(C)
         /\ \A i, j \in DOMAIN s : i < j => <<s[i], s[j]>> \in R /\ <<s[j], s[i]>> \notin R
<1> DEFINE n == Cardinality(C)
<1>1. n \in Nat
  BY FS_CardinalityType
<1>2. DOMAIN s = 1 .. n /\ s \in Seq(C) /\ s \in [1 .. n -> C]
  BY <1>1
<1>3. \A i, j \in 1 .. n : i < j => <<s[i], s[j]>> \in R /\ <<s[j], s[i]>> \notin R
  <2>1. SUFFICES ASSUME NEW i \in 1 .. n, NEW j \in 1 .. n, i < j
                 PROVE  <<s[i], s[j]>> \in R /\ <<s[j], s[i]>> \notin R
    OBVIOUS
  <2>2. s[i] \in C /\ s[j] \in C /\ <<s[i], s[j]>> \in R
    BY <1>2, <2>1 DEF Sorted
  <2> QED BY <2>2 DEF StrictOrder
<1>4. \A i, j \in 1 .. n : s[i] = s[j] => i = j
  <2>1. SUFFICES ASSUME NEW i \in 1 .. n, NEW j \in 1 .. n, s[i] = s[j], i < j PROVE FALSE
    <3> HIDE DEF n
    <3> QED BY <1>1
  <2> QED BY <1>2, <1>3, <2>1 DEF StrictOrder
<1> HIDE DEF n
<1>5. IsInjective(s)
  BY <1>2, <1>4 DEF IsInjective
<1>6. s \in Injection(1 .. n, C)
  BY <1>2, <1>5 DEF Injection
<1>7. IsFiniteSet(1 .. n) /\ Cardinality(1 .. n) = Cardinality(C)
  <2>1. IsFiniteSet(1 .. n) /\ Cardinality(1 .. n) = n
    BY <1>1, FS_Interval
  <2> QED BY <2>1 DEF n
<1>8. s \in Surjection(1 .. n, C)
  BY <1>6, <1>7, FS_Injection
<1>9. ToSet(s) = C
  BY <1>2, <1>8 DEF ToSet, Surjection
<1> QED BY <1>2, <1>3, <1>5, <1>9 DEF n

(* A finite set of numbers has a greatest one.                             *)
LEMMA GreatestNumber ==
  ASSUME NEW C, IsFiniteSet(C), C \subseteq Nat, C # {}
  PROVE  \E a \in C : \A b \in C : b =< a
<1>1. \E R : \A a, b \in C : <<a, b>> \in R <=> a < b
  <2> DEFINE R == {p \in C \X C : p[1] < p[2]}
  <2>1. \A a, b \in C : <<a, b>> \in R <=> a < b
    OBVIOUS
  <2> HIDE DEF R
  <2> QED BY <2>1
<1>2. PICK R : \A a, b \in C : <<a, b>> \in R <=> a < b
  BY <1>1
<1> DEFINE n == Cardinality(C)
<1>3. StrictOrder(R, C)
  <2>1. \A a \in C : <<a, a>> \notin R
    BY <1>2
  <2>2. \A a, b, c \in C : <<a, b>> \in R /\ <<b, c>> \in R => <<a, c>> \in R
    BY <1>2
  <2>3. \A a, b \in C : a = b \/ <<a, b>> \in R \/ <<b, a>> \in R
    <3> SUFFICES ASSUME NEW a \in C, NEW b \in C, a # b PROVE <<a, b>> \in R \/ <<b, a>> \in R
      OBVIOUS
    <3>1. a < b \/ b < a
      OBVIOUS
    <3> QED BY <1>2, <3>1
  <2> QED BY <2>1, <2>2, <2>3 DEF StrictOrder
<1>4. n \in Nat /\ n # 0
  BY FS_CardinalityType, FS_EmptySet
<1>5. /\ \A a \in C : Rank(R, C, a) \in 0 .. n - 1
      /\ \A a, b \in C : <<a, b>> \in R => Rank(R, C, a) < Rank(R, C, b)
      /\ \A a, b \in C : Rank(R, C, a) = Rank(R, C, b) => a = b
      /\ \A k \in 0 .. n - 1 : \E a \in C : Rank(R, C, a) = k
  <2>1. RanksCount(R, C)
    BY <1>3, RanksAre
  <2> QED BY <2>1 DEF RanksCount
<1> HIDE DEF n
<1>6. n - 1 \in 0 .. n - 1
  BY <1>4
<1>7. PICK a \in C : Rank(R, C, a) = n - 1
  BY <1>5, <1>6
<1>8. ASSUME NEW b \in C PROVE b =< a
  <2>1. ~(Rank(R, C, a) < Rank(R, C, b))
    BY <1>4, <1>5, <1>7
  <2>2. ~(a < b)
    BY <1>2, <1>5, <2>1
  <2> QED BY <2>2
<1> QED BY <1>8

(* Of the members of a set one has the least number.                       *)
LEMMA LeastMember ==
  ASSUME NEW S, S # {}, NEW g, \A a \in S : g[a] \in Nat
  PROVE  \E a \in S : \A b \in S : g[a] =< g[b]
<1> DEFINE T == {g[a] : a \in S}
<1>1. T \subseteq Nat /\ T # {}
  OBVIOUS
<1>2. PICK n \in T : \A m \in T : n =< m
  <2> HIDE DEF T
  <2> QED BY <1>1, LeastNumber
<1> QED BY <1>2
-----------------------------------------------------------------------------
(* A graph is the function from its vertices to what each leads to.  It    *)
(* has no cycle when among any vertices there is one, their root, that     *)
(* leads to none of them.                                                  *)
Rooted(D) == \A S \in SUBSET DOMAIN D : S # {} => \E x \in S : D[x] \cap S = {}

(* What is defined of each vertex by what it leads to is defined.          *)
SolvesAlong(f, D, H) == \A x \in DOMAIN f : f[x] = H[<<x, [y \in D[x] |-> f[y]]>>]
LEMMA RecursionDefined ==
  ASSUME NEW D, IsFiniteSet(DOMAIN D), \A x \in DOMAIN D : D[x] \subseteq DOMAIN D, Rooted(D),
         NEW T, NEW H, \A x \in DOMAIN D : \A g \in [D[x] -> T] : H[<<x, g>>] \in T
  PROVE  \E f \in [DOMAIN D -> T] : SolvesAlong(f, D, H)
<1> DEFINE C == DOMAIN D
           Solved(X) == X \subseteq C /\ (\A x \in X : D[x] \subseteq X)
                          /\ \E f \in [X -> T] : SolvesAlong(f, D, H)
           Sizes == {Cardinality(X) : X \in {Y \in SUBSET C : Solved(Y)}}
<1>1. IsFiniteSet(C) /\ Cardinality(C) \in Nat
      /\ \A X \in SUBSET C : IsFiniteSet(X) /\ Cardinality(X) \in 0 .. Cardinality(C)
  BY FS_Subset, FS_CardinalityType
<1>2. Solved({})
  <2>1. \E f \in [{} -> T] : SolvesAlong(f, D, H)
    <3> DEFINE f == [x \in {} |-> x]
    <3>1. f \in [{} -> T] /\ SolvesAlong(f, D, H)
      BY DEF SolvesAlong
    <3> QED BY <3>1
  <2> QED BY <2>1
<1> HIDE DEF Solved
<1>3. IsFiniteSet(Sizes) /\ Sizes \subseteq Nat /\ Sizes # {}
  <2>1. Sizes \subseteq 0 .. Cardinality(C)
    BY <1>1
  <2>2. IsFiniteSet(0 .. Cardinality(C))
    BY <1>1, FS_Interval
  <2>3. Sizes # {}
    BY <1>2
  <2> HIDE DEF Sizes
  <2>4. IsFiniteSet(Sizes)
    BY <2>1, <2>2, FS_Subset
  <2>5. Sizes \subseteq Nat
    BY <2>1, <1>1
  <2> QED BY <2>3, <2>4, <2>5
<1>4. PICK n \in Sizes : \A m \in Sizes : m =< n
  <2> HIDE DEF Sizes
  <2> QED BY <1>3, GreatestNumber
<1>5. PICK X \in SUBSET C : Solved(X) /\ Cardinality(X) = n
  BY <1>4
<1>6. X = C
  <2> SUFFICES ASSUME X # C PROVE FALSE
    OBVIOUS
  <2>1. PICK x \in C \ X : D[x] \cap (C \ X) = {}
    <3>1. C \ X # {} /\ C \ X \in SUBSET DOMAIN D
      OBVIOUS
    <3> QED BY <3>1 DEF Rooted
  <2>2. D[x] \subseteq X
    BY <2>1
  <2>3. PICK f \in [X -> T] : SolvesAlong(f, D, H)
    BY <1>5 DEF Solved
  <2> DEFINE v == H[<<x, [y \in D[x] |-> f[y]]>>]
             Y == X \cup {x}
             g == [y \in Y |-> IF y = x THEN v ELSE f[y]]
  <2>4. v \in T
    <3>1. [y \in D[x] |-> f[y]] \in [D[x] -> T]
      BY <2>2
    <3> QED BY <3>1
  <2> HIDE DEF v
  <2>5. g \in [Y -> T]
    BY <2>4
  <2>6. \A y \in X : D[y] \subseteq X /\ y # x
    BY <1>5, <2>1 DEF Solved
  <2>7. SolvesAlong(g, D, H)
    <3> SUFFICES ASSUME NEW y \in Y PROVE g[y] = H[<<y, [z \in D[y] |-> g[z]]>>]
      BY <2>5 DEF SolvesAlong
    <3>1. \A z \in X : g[z] = f[z]
      BY <2>6
    <3>2. D[y] \subseteq X
      BY <2>2, <2>6
    <3>3. [z \in D[y] |-> g[z]] = [z \in D[y] |-> f[z]]
      BY <3>1, <3>2
    <3>4. CASE y = x
      <4>1. g[y] = v
        BY <3>4
      <4> QED BY <3>3, <3>4, <4>1 DEF v
    <3>5. CASE y # x
      <4>1. y \in X /\ g[y] = f[y]
        BY <3>5
      <4>2. f[y] = H[<<y, [z \in D[y] |-> f[z]]>>]
        BY <2>3, <4>1 DEF SolvesAlong
      <4> QED BY <3>3, <4>1, <4>2
    <3> QED BY <3>4, <3>5
  <2>8. Solved(Y)
    <3>1. Y \subseteq C /\ \A y \in Y : D[y] \subseteq Y
      BY <2>2, <2>6
    <3> HIDE DEF g
    <3> QED BY <2>5, <2>7, <3>1 DEF Solved
  <2>9. Cardinality(Y) = n + 1 /\ n \in Nat
    BY <1>1, <1>5, FS_AddElement
  <2>10. n + 1 \in Sizes
    BY <2>8, <2>9 DEF Solved
  <2> QED BY <1>4, <2>9, <2>10
<1> QED BY <1>5, <1>6 DEF Solved

-----------------------------------------------------------------------------
(* Entries added at the end count once at most, and not at all when they   *)
(* are not of the set.                                                     *)
LEMMA CountConcat ==
  ASSUME NEW T, NEW s \in Seq(T), NEW t \in Seq(T), NEW S
  PROVE  /\ HowMany(s \o t, S) =< HowMany(s, S) + Len(t)
         /\ (\A i \in DOMAIN t : t[i] \notin S) => HowMany(s \o t, S) = HowMany(s, S)
<1> DEFINE c == s \o t
           new == Len(s) + 1 .. Len(s) + Len(t)
<1>1. /\ c \in Seq(T) /\ DOMAIN s = 1 .. Len(s) /\ DOMAIN t = 1 .. Len(t)
      /\ DOMAIN c = 1 .. Len(s) + Len(t) /\ Len(s) \in Nat /\ Len(t) \in Nat
      /\ \A i \in 1 .. Len(s) : c[i] = s[i]
      /\ \A i \in new : i - Len(s) \in DOMAIN t /\ c[i] = t[i - Len(s)]
  OBVIOUS
<1> HIDE DEF c
<1>2. Places(c, S) \subseteq Places(s, S) \cup new /\ Places(s, S) \subseteq Places(c, S)
  BY <1>1 DEF Places
<1>3. /\ IsFiniteSet(Places(s, S)) /\ HowMany(s, S) \in Nat
      /\ IsFiniteSet(Places(c, S)) /\ HowMany(c, S) \in Nat
  BY <1>1, PlacesFinite
<1>4. IsFiniteSet(new) /\ Cardinality(new) = Len(t)
  <2>1. Len(s) + 1 \in Int /\ Len(s) + Len(t) \in Int
    BY <1>1
  <2>2. IsFiniteSet(new) /\ Cardinality(new) = IF Len(s) + 1 > Len(s) + Len(t) THEN 0
                                               ELSE (Len(s) + Len(t)) - (Len(s) + 1) + 1
    BY <2>1, FS_Interval
  <2> HIDE DEF new
  <2> QED BY <1>1, <2>2
<1>5. Places(s, S) \cap new = {}
  BY <1>1 DEF Places
<1> HIDE DEF new
<1>6. IsFiniteSet(Places(s, S) \cup new) /\ Cardinality(Places(s, S) \cup new) = HowMany(s, S) + Len(t)
  <2>1. Cardinality(Places(s, S) \cup new)
          = Cardinality(Places(s, S)) + Cardinality(new) - Cardinality(Places(s, S) \cap new)
        /\ IsFiniteSet(Places(s, S) \cup new)
    BY <1>3, <1>4, FS_Union
  <2>2. Cardinality(Places(s, S) \cap new) = 0
    BY <1>5, FS_EmptySet
  <2>3. HowMany(s, S) = Cardinality(Places(s, S))
    BY DEF HowMany
  <2> QED BY <1>1, <1>3, <1>4, <2>1, <2>2, <2>3
<1>7. HowMany(c, S) =< HowMany(s, S) + Len(t)
  BY <1>2, <1>6, FS_Subset DEF HowMany
<1>8. ASSUME \A i \in DOMAIN t : t[i] \notin S PROVE HowMany(c, S) = HowMany(s, S)
  <2>1. Places(c, S) \cap new = {}
    BY <1>1, <1>8 DEF Places, new
  <2>2. Places(c, S) = Places(s, S)
    BY <1>2, <2>1
  <2> QED BY <2>2 DEF HowMany
<1> QED BY <1>7, <1>8 DEF c
=============================================================================
