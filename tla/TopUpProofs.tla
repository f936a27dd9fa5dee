----------------------------- MODULE TopUpProofs -----------------------------
(***************************************************************************)
(* Proofs about TopUp, for any number of requests and links and for any    *)
(* set of calls that may fail.                                             *)
(***************************************************************************)
EXTENDS TopUp, TLAPS

\* The inductive invariant holds at the start.
LEMMA InitIndInv == Init => IndInv
BY DEF Init, IndInv, TypeOK, SeenIsFinal, StepsFollowSeen, CreatorsAreFirst,
       RowFollowsProvider, HolderIsAlone, LandedOnce, Holds, Creating,
       ProviderStatus, RowStatus, Step, Answer

\* Every step preserves it, one step of the proof per action.
LEMMA NextIndInv == IndInv /\ [Next]_vars => IndInv'
<1> SUFFICES ASSUME IndInv, [Next]_vars
             PROVE  IndInv'
  OBVIOUS
<1> USE DEF IndInv, TypeOK, SeenIsFinal, StepsFollowSeen, CreatorsAreFirst,
            RowFollowsProvider, HolderIsAlone, LandedOnce, Holds, Creating,
            ProviderStatus, RowStatus, Step, Answer
<1>1. ASSUME NEW l \in Link, Pay(l) PROVE IndInv'
  BY <1>1 DEF Pay, Open
<1>2. ASSUME NEW l \in Link, Expire(l) PROVE IndInv'
  BY <1>2 DEF Expire, Open
<1>3. ASSUME NEW r \in Req, NEW l \in Link, StartCreate(r, l) PROVE IndInv'
  BY <1>3 DEF StartCreate
<1>4. ASSUME NEW r \in Req, NEW l \in Link, StartVerify(r, l) PROVE IndInv'
  BY <1>4 DEF StartVerify
<1>5. ASSUME NEW r \in Req, CreateLink(r) PROVE IndInv'
  BY <1>5 DEF CreateLink, Goto
<1>6. ASSUME NEW r \in Req, CreateLinkFails(r) PROVE IndInv'
  BY <1>6 DEF CreateLinkFails, Return
<1>7. ASSUME NEW r \in Req, RecordPayment(r) PROVE IndInv'
  BY <1>7 DEF RecordPayment, Return
<1>8. ASSUME NEW r \in Req, RecordPaymentFails(r) PROVE IndInv'
  BY <1>8 DEF RecordPaymentFails, Return
<1>9. ASSUME NEW r \in Req, Fetch(r) PROVE IndInv'
  BY <1>9 DEF Fetch, Goto
<1>10. ASSUME NEW r \in Req, FetchFails(r) PROVE IndInv'
  BY <1>10 DEF FetchFails, Return
<1>11. ASSUME NEW r \in Req, ReadRow(r) PROVE IndInv'
  BY <1>11 DEF ReadRow, Return, Goto
<1>12. ASSUME NEW r \in Req, ReadRowFails(r) PROVE IndInv'
  BY <1>12 DEF ReadRowFails, Return
<1>13. ASSUME NEW r \in Req, MarkDead(r) PROVE IndInv'
  BY <1>13 DEF MarkDead, SetRow, Return
<1>14. ASSUME NEW r \in Req, MarkDeadFails(r) PROVE IndInv'
  BY <1>14 DEF MarkDeadFails, MaybeSetRow, SetRow, Return
<1>15. ASSUME NEW r \in Req, Claim(r) PROVE IndInv'
  BY <1>15 DEF Claim, SetRow, Return, Goto
<1>16. ASSUME NEW r \in Req, ClaimFails(r) PROVE IndInv'
  BY <1>16 DEF ClaimFails, SetRow, Return
<1>17. ASSUME NEW r \in Req, ReadBalance(r) PROVE IndInv'
  BY <1>17 DEF ReadBalance, Goto
<1>18. ASSUME NEW r \in Req, ReadBalanceFails(r) PROVE IndInv'
  BY <1>18 DEF ReadBalanceFails, Goto
<1>19. ASSUME NEW r \in Req, WriteBalance(r) PROVE IndInv'
  BY <1>19 DEF WriteBalance, Return
<1>20. ASSUME NEW r \in Req, WriteBalanceFails(r) PROVE IndInv'
  BY <1>20 DEF WriteBalanceFails, Return
<1>21. ASSUME NEW r \in Req, Release(r) PROVE IndInv'
  BY <1>21 DEF Release, SetRow, Return
<1>22. ASSUME NEW r \in Req, ReleaseFails(r) PROVE IndInv'
  BY <1>22 DEF ReleaseFails, MaybeSetRow, SetRow, Return
<1>23. ASSUME NEW r \in Req, Crash(r) PROVE IndInv'
  BY <1>23 DEF Crash, Return
<1>24. CASE UNCHANGED vars
  BY <1>24 DEF vars
<1> QED
  BY <1>1, <1>2, <1>3, <1>4, <1>5, <1>6, <1>7, <1>8, <1>9, <1>10, <1>11,
     <1>12, <1>13, <1>14, <1>15, <1>16, <1>17, <1>18, <1>19, <1>20, <1>21,
     <1>22, <1>23, <1>24
     DEF Next, World, Create, Look, Grant

\* Every reachable state satisfies the inductive invariant.
THEOREM Inductive == Spec => []IndInv
<1>1. Init => IndInv
  BY InitIndInv
<1>2. IndInv /\ [Next]_vars => IndInv'
  BY NextIndInv
<1> QED
  BY <1>1, <1>2, PTL DEF Spec

\* Every variable keeps its type.
THEOREM TypeCorrect == Spec => []TypeOK
<1>1. IndInv => TypeOK
  BY DEF IndInv
<1> QED
  BY <1>1, Inductive, PTL

\* A top-up is never credited twice, however its verifies interleave, retry,
\* crash, or fail with the outcome of a write unknown.
THEOREM CreditedAtMostOnce == Spec => []AtMostOnce
<1>1. IndInv => AtMostOnce
  BY DEF IndInv, LandedOnce, AtMostOnce
<1> QED
  BY <1>1, Inductive, PTL

\* Credits that arrived belong to a link that Razorpay charged, and the row of
\* that link stays paid.
THEOREM CreditedIsClosed == Spec => []CreditedStaysClosed
<1>1. IndInv => CreditedStaysClosed
  BY DEF IndInv, TypeOK, LandedOnce, RowFollowsProvider, CreditedStaysClosed,
         RowStatus
<1> QED
  BY <1>1, Inductive, PTL

\* Every charge is for a link the API has a row of.
THEOREM EveryChargeIsRecorded == Spec => []ChargedIsRecorded
<1>1. IndInv => ChargedIsRecorded
  BY DEF IndInv, TypeOK, RowFollowsProvider, ChargedIsRecorded, RowStatus
<1> QED
  BY <1>1, Inductive, PTL

\* Nobody whose money was taken is told that the payment failed or could not be
\* found: the two answers come from ReadRow, on a row that is absent, and from
\* MarkDead, on a status that is final.
THEOREM FailedIsNotCharged == Spec => FailedMeansNotCharged
<1> DEFINE Told(r) == answer'[r] \in {"failed", "not_found"} /\ answer[r] = "none"
<1>1. ASSUME IndInv, Next, NEW r \in Req, Told(r)
      PROVE  provider[link[r]] # "paid"
  <2> USE <1>1 DEF IndInv, TypeOK
  <2>1. \/ ReadRow(r) /\ row[link[r]] = "absent"
        \/ MarkDead(r)
    BY DEF Next, World, Create, Look, Grant, Pay, Expire, StartCreate,
           StartVerify, CreateLink, CreateLinkFails, RecordPayment,
           RecordPaymentFails, Fetch, FetchFails, ReadRow, ReadRowFails,
           MarkDead, MarkDeadFails, Claim, ClaimFails, ReadBalance,
           ReadBalanceFails, WriteBalance, WriteBalanceFails, Release,
           ReleaseFails, Crash, Goto, Return, Answer
  <2>2. CASE row[link[r]] = "absent"
    BY <2>2 DEF RowFollowsProvider
  <2>3. CASE MarkDead(r)
    BY <2>3 DEF MarkDead, StepsFollowSeen, SeenIsFinal
  <2> QED
    BY <2>1, <2>2, <2>3
<1>2. IndInv /\ [Next]_vars
        => [\A r \in Req : Told(r) => provider[link[r]] # "paid"]_vars
  BY <1>1
<1> QED
  BY <1>2, Inductive, PTL DEF Spec, FailedMeansNotCharged

-----------------------------------------------------------------------------
(* TopUp implements CreditOnce. *)

Charged == {l \in Link : provider[l] = "paid"}

\* The initial states of TopUp are initial states of CreditOnce.
LEMMA InitRefines == Init => Promise!Init
BY DEF Init, Promise!Init

\* A step that leaves the money and the credits alone is a stutter.
LEMMA StutterRefines ==
    UNCHANGED <<Charged, landed>> => UNCHANGED Promise!vars
BY DEF Promise!vars, Charged

\* Every other step charges one link, or credits one that was charged.
LEMMA StepRefines == IndInv /\ [Next]_vars => [Promise!Next]_(Promise!vars)
<1> SUFFICES ASSUME IndInv, [Next]_vars
             PROVE  Promise!Next \/ UNCHANGED <<Charged, landed>>
  BY StutterRefines
<1> USE DEF IndInv, TypeOK, Charged
<1>1. ASSUME NEW l \in Link, Pay(l)
      PROVE  Promise!Next \/ UNCHANGED <<Charged, landed>>
  <2>1. CASE provider'[l] = "paid"
    <3>1. Promise!Charge(l)
      BY <1>1, <2>1 DEF Pay, Open, Promise!Charge
    <3> QED
      BY <3>1 DEF Promise!Next
  <2>2. CASE provider'[l] # "paid"
    BY <1>1, <2>2 DEF Pay, Open
  <2> QED
    BY <2>1, <2>2
<1>2. ASSUME NEW l \in Link, Expire(l) PROVE UNCHANGED <<Charged, landed>>
  BY <1>2 DEF Expire, Open
<1>3. ASSUME NEW r \in Req, CreateLink(r) PROVE UNCHANGED <<Charged, landed>>
  BY <1>3 DEF CreateLink, Goto, CreatorsAreFirst
<1>4. ASSUME NEW r \in Req, pc[r] = "writeBalance",
             landed' = [landed EXCEPT ![link[r]] = @ + 1], UNCHANGED provider
      PROVE  Promise!Next
  <2>1. landed[link[r]] = 0 /\ link[r] \in Charged
    BY <1>4 DEF HolderIsAlone, Holds, StepsFollowSeen, SeenIsFinal
  <2>2. landed' = [l \in Link |-> IF l \in {link[r]} THEN 1 ELSE landed[l]]
    <3>1. landed' = [landed EXCEPT ![link[r]] = 1]
      BY <1>4, <2>1
    <3>2. landed = [l \in Link |-> landed[l]]
      OBVIOUS
    <3> QED
      BY <3>1, <3>2
  <2>3. Promise!Credit({link[r]})
    BY <1>4, <2>1, <2>2 DEF Promise!Credit
  <2> QED
    BY <2>3 DEF Promise!Next
<1>5. ASSUME NEW r \in Req, WriteBalance(r) PROVE Promise!Next
  BY <1>4, <1>5 DEF WriteBalance
<1>6. ASSUME NEW r \in Req, WriteBalanceFails(r)
      PROVE  Promise!Next \/ UNCHANGED <<Charged, landed>>
  BY <1>4, <1>6 DEF WriteBalanceFails
<1>7. ASSUME NEW r \in Req,
             \/ \E l \in Link : StartCreate(r, l) \/ StartVerify(r, l)
             \/ CreateLinkFails(r) \/ RecordPayment(r) \/ RecordPaymentFails(r)
             \/ Look(r) \/ Claim(r) \/ ClaimFails(r) \/ ReadBalance(r)
             \/ ReadBalanceFails(r) \/ Release(r) \/ ReleaseFails(r) \/ Crash(r)
      PROVE  UNCHANGED <<Charged, landed>>
  BY <1>7 DEF StartCreate, StartVerify, CreateLinkFails, RecordPayment,
              RecordPaymentFails, Look, Fetch, FetchFails, ReadRow,
              ReadRowFails, MarkDead, MarkDeadFails, Claim, ClaimFails,
              ReadBalance, ReadBalanceFails, Release, ReleaseFails, Crash
<1>8. CASE UNCHANGED vars
  BY <1>8 DEF vars
<1> QED
  BY <1>1, <1>2, <1>3, <1>5, <1>6, <1>7, <1>8 DEF Next, World, Create, Grant

\* verify_topup keeps the promise of CreditOnce: a link is credited at most once
\* and only after it was charged.
THEOREM ImplementsCreditOnce == Spec => KeepsPromise
<1>1. Init => Promise!Init
  BY InitRefines
<1>2. IndInv /\ [Next]_vars => [Promise!Next]_(Promise!vars)
  BY StepRefines
<1> QED
  BY <1>1, <1>2, Inductive, PTL DEF Spec, KeepsPromise, Promise!Spec
=============================================================================
