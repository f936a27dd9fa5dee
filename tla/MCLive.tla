------------------------------- MODULE MCLive -------------------------------
(* Instances of TopUp and Referrals for TLC, for what must eventually happen. *)
(* The two share no state: a behaviour is one of either, chosen at the start, *)
(* while the other keeps its initial state, in which none of its fair actions *)
(* is enabled.                                                                *)
EXTENDS Referrals, TLC

CONSTANTS r1, r2, l1, ana, ben, cy

TwoRequests == {r1, r2}
ThreeUsers == {ana, ben, cy}
JustAna == {ana}
NoUser == {}
OnlyV1Check == {"v1check"}

VARIABLES
    on,                                                     \* what is going on
    provider, offered, row, landed, call, link, seen, told  \* TopUp's

TopUps == INSTANCE TopUp
    WITH Link <- {l1}, Failing <- {"fetch", "readBalance"}, pc <- call, answer <- told

topupVars == <<provider, offered, row, landed, call, link, seen, told>>

LiveInit ==
    /\ on \in {"topups", "referrals"}
    /\ Init /\ TopUps!Init

LiveNext ==
    /\ UNCHANGED on
    /\ \/ on = "topups" /\ TopUps!Next /\ UNCHANGED vars
       \/ on = "referrals" /\ Next /\ UNCHANGED topupVars

LiveSpec ==
    /\ LiveInit /\ [][LiveNext]_<<on, vars, topupVars>>
    /\ Fairness /\ TopUps!Fairness

\* TopUp: a paid link is credited, as long as nothing is lost between the claim
\* and the write of the balance (verify_topup, the pricing page).
PaidEventuallyCredited == TopUps!PaidEventuallyCredited
=============================================================================
