----------------------------- MODULE MCAgentRun -----------------------------
(* Instances of AgentRun for TLC. *)
EXTENDS AgentRun, TLC

CONSTANTS r1, r2, r3, posts, score

ThreeRequests == {r1, r2, r3}
TwoAgents == {posts, score}

\* Requests are interchangeable.
Symmetry == Permutations(ThreeRequests)

AnyMode == {"open", "background"}

AnyFailure == Call
=============================================================================
