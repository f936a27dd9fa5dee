---------------------------- MODULE MCReferrals ----------------------------
(* Instances of Referrals for TLC. *)
EXTENDS Referrals, TLC

CONSTANTS r1, r2, ana, ben, cy

TwoRequests == {r1, r2}

ThreeUsers == {ana, ben, cy}

\* The users who share their codes, and the user who comes from V1.
AnaAndBen == {ana, ben}
JustCy == {cy}

\* Requests are interchangeable.
Symmetry == Permutations(TwoRequests)

AnyFailure == Call
=============================================================================
