--------------------------- MODULE MCSubscription ---------------------------
(* Instances of Subscription for TLC. *)
EXTENDS Subscription, TLC

CONSTANTS r1, r2, r3

TwoRequests == {r1, r2}
ThreeRequests == {r1, r2, r3}

\* Reconciles are interchangeable.
Symmetry == Permutations(ThreeRequests)

AnyFailure == Call
ReadFailure == {"readBalance"}
=============================================================================
