----------------------------- MODULE MCContracts -----------------------------
(* Instances of Contracts for TLC. *)
EXTENDS Contracts, TLC

CONSTANTS r1, r2

OneRequest == {r1}
TwoRequests == {r1, r2}

\* Requests are interchangeable.
Symmetry == Permutations(TwoRequests)

\* One posting day and the review, three weeks of two days: a weekday and the
\* Sunday.
Thursday == {"THU"}
Review == {"review"}
ThreeWeeks == 0 .. 2

AnyFailure == Call
NoFailure == {}
=============================================================================
