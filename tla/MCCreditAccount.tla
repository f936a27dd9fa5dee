--------------------------- MODULE MCCreditAccount ---------------------------
(* Instances of CreditAccount for TLC. *)
EXTENDS CreditAccount

CONSTANTS r1, r2

TwoRequests == {r1, r2}

\* Nothing is bought, no admin acts, nothing fails.
NoPack == {}
NoAdmin == {}
NoFailure == {}
=============================================================================
