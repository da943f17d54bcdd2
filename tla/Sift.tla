-------------------------------- MODULE Sift --------------------------------
(***************************************************************************)
(* The members of a sequence that belong to a set, in their order: what    *)
(* SelectSeq gives for membership, as a function the provers can unfold.   *)
(***************************************************************************)
EXTENDS Naturals, Sequences

Sift(s, S) ==
  LET first[n \in 0 .. Len(s)] ==
        IF n = 0 THEN <<>>
        ELSE IF s[n] \in S THEN Append(first[n - 1], s[n]) ELSE first[n - 1]
  IN first[Len(s)]
=============================================================================
