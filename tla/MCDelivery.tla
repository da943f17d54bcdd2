----------------------------- MODULE MCDelivery -----------------------------
(***************************************************************************)
(* Delivery on a small instance for TLC.                                   *)
(***************************************************************************)
EXTENDS Delivery

CONSTANTS r1, r2, c1, c2, p1, p2

TwoRequests == {r1, r2}
TwoReconcilers == {c1, c2}
TwoPulls == {p1, p2}
=============================================================================
