--------------------------- MODULE DeliveryLedger ---------------------------
(***************************************************************************)
(* What the delivery of a run promises, without saying how: the ledger of  *)
(* a run's delivery is released, owned by one operation, of unknown        *)
(* outcome, or published.  Only the owner works outside (pushes, creates), *)
(* it opens at most one pull request, the ledger is released for another   *)
(* try only while no pull request exists, and what is published stays.     *)
(***************************************************************************)
EXTENDS Naturals

CONSTANTS
    PullRequests,   \* identities GitHub may give
    NoPull

VARIABLES
    phase,      \* "released", "owned", "unknown" or "published"
    owner,      \* number of the latest operation that claimed the ledger
    working,    \* the operations that act on the remote now
    pulls,      \* every pull request ever opened for the run
    link        \* the one the ledger points to

ledger == <<phase, owner, working, pulls, link>>

Init ==
    /\ phase = "released"
    /\ owner = 0
    /\ working = {}
    /\ pulls = {}
    /\ link = NoPull

Claim ==
    /\ phase = "released"
    /\ phase' = "owned"
    /\ owner' = owner + 1
    /\ UNCHANGED <<working, pulls, link>>

StartWork ==
    /\ phase = "owned" /\ working = {}
    /\ working' = {owner}
    /\ UNCHANGED <<phase, owner, pulls, link>>

EndWork ==
    /\ phase = "owned" /\ working # {}
    /\ working' = {}
    /\ \/ UNCHANGED pulls
       \/ pulls = {} /\ \E p \in PullRequests : pulls' = {p}
    /\ UNCHANGED <<phase, owner, link>>

\* A link to a pull request that exists.
Publish ==
    /\ phase \in {"owned", "unknown"} /\ working = {}
    /\ phase' = "published"
    /\ \E p \in pulls : link' = p
    /\ UNCHANGED <<owner, working, pulls>>

\* Nothing was created, for certain.
Release ==
    /\ phase \in {"owned", "unknown"} /\ working = {}
    /\ pulls = {}
    /\ phase' = "released"
    /\ UNCHANGED <<owner, working, pulls, link>>

LoseTrack ==
    /\ phase = "owned" /\ working = {}
    /\ phase' = "unknown"
    /\ UNCHANGED <<owner, working, pulls, link>>

Next == Claim \/ StartWork \/ EndWork \/ Publish \/ Release \/ LoseTrack

Spec == Init /\ [][Next]_ledger
=============================================================================
