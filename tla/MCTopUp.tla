------------------------------- MODULE MCTopUp -------------------------------
(* Instances of TopUp for TLC. *)
EXTENDS TopUp, TLC

CONSTANTS r1, r2, r3, l1, l2

ThreeRequests == {r1, r2, r3}
TwoLinks == {l1, l2}

\* Requests are interchangeable, and so are links.
Symmetry == Permutations(ThreeRequests) \union Permutations(TwoLinks)

AnyFailure == Call
=============================================================================
