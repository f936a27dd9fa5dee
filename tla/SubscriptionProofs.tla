-------------------------- MODULE SubscriptionProofs --------------------------
(***************************************************************************)
(* Proofs about Subscription, for any number of reconciles, any number of  *)
(* months and any set of calls that may fail.                              *)
(***************************************************************************)
EXTENDS Subscription, TLAPS

\* The inductive invariant holds at the start.
LEMMA InitIndInv == Init => IndInv
BY MaxCycleAssumption
   DEF Init, IndInv, TypeOK, CountsAreBounded, HoldersAreCounted,
       HoldersAreDisjoint, LandedIsSettled, Holds, Row, Step, Answer, Cycle

\* The months a reconcile is about to credit were charged, are counted and have
\* not landed; after the write each of them has landed once.
LEMMA MonthsAdded ==
    ASSUME IndInv, NEW r \in Req, pc[r] = "writeBalance", AddCredits(r)
    PROVE  /\ \A k \in Owed(r) : landed[k] = 0 /\ k <= counter /\ k <= paidCount
           /\ seen[r] + 1 \in Owed(r)
           /\ landed' = [k \in Cycle |-> IF seen[r] < k /\ k <= paid[r]
                                         THEN 1 ELSE landed[k]]
<1> USE MaxCycleAssumption DEF IndInv, TypeOK, Cycle
<1>1. Holds(r) /\ seen[r] < paid[r] /\ paid[r] <= counter /\ counter <= paidCount
  BY DEF Holds, HoldersAreCounted, CountsAreBounded
<1>2. ASSUME NEW k \in Owed(r)
      PROVE  landed[k] = 0 /\ k <= counter /\ k <= paidCount
  <2>1. k \in Cycle /\ seen[r] < k /\ k <= paid[r]
    BY DEF Owed
  <2>2. k \in Nat /\ seen[r] \in Nat /\ paid[r] \in Nat /\ counter \in Nat
        /\ paidCount \in Nat
    BY <2>1
  <2>3. k <= counter /\ k <= paidCount /\ ~(k <= seen[r]) /\ ~(paid[r] < k)
    BY <1>1, <2>1, <2>2
  <2>4. landed[k] # 1
    BY <1>1, <2>1, <2>3 DEF LandedIsSettled
  <2> QED
    BY <2>1, <2>3, <2>4 DEF LandedIsSettled
<1>3. seen[r] + 1 \in Owed(r)
  BY <1>1 DEF Owed
<1>4. landed' = [k \in Cycle |-> IF seen[r] < k /\ k <= paid[r]
                                THEN landed[k] + 1 ELSE landed[k]]
  BY DEF AddCredits, Owed
<1>5. \A k \in Cycle : seen[r] < k /\ k <= paid[r] => landed[k] + 1 = 1
  BY <1>2 DEF Owed
<1> QED
  BY <1>2, <1>3, <1>4, <1>5

\* What a reconcile has written is settled: its months lie below the counter and
\* outside every interval another reconcile holds.
LEMMA WriteSettles ==
    ASSUME IndInv, NEW r \in Req, pc[r] = "writeBalance",
           pc' = [pc EXCEPT ![r] = "idle"],
           landed' = [k \in Cycle |-> IF seen[r] < k /\ k <= paid[r]
                                     THEN 1 ELSE landed[k]],
           UNCHANGED <<counter, paid, seen>>
    PROVE  LandedIsSettled'
<1> USE MaxCycleAssumption DEF IndInv, TypeOK, Cycle, Holds
<1>1. seen[r] < paid[r] /\ paid[r] <= counter
  BY DEF HoldersAreCounted
<1> SUFFICES ASSUME NEW k \in Cycle
             PROVE  /\ landed'[k] \in {0, 1}
                    /\ landed'[k] = 1 => k <= counter
                    /\ \A q \in Req : landed'[k] = 1 /\ Holds(q)'
                                        => k <= seen[q] \/ paid[q] < k
  BY DEF LandedIsSettled
<1>2. CASE seen[r] < k /\ k <= paid[r]
  <2>1. landed'[k] = 1 /\ k <= counter
    BY <1>1, <1>2
  <2>2. ASSUME NEW q \in Req, Holds(q)' PROVE k <= seen[q] \/ paid[q] < k
    <3>1. q # r /\ Holds(q) /\ Holds(r)
      BY <2>2
    <3>2. paid[r] <= seen[q] \/ paid[q] <= seen[r]
      BY <3>1 DEF HoldersAreDisjoint
    <3>3. seen[q] \in Nat /\ paid[q] \in Nat /\ seen[r] \in Nat /\ paid[r] \in Nat
      OBVIOUS
    <3> QED
      BY <1>2, <3>2, <3>3
  <2> QED
    BY <2>1, <2>2
<1>3. CASE ~(seen[r] < k /\ k <= paid[r])
  BY <1>3 DEF LandedIsSettled
<1> QED
  BY <1>2, <1>3

\* Every step preserves it, one step of the proof per action.
LEMMA NextIndInv == IndInv /\ [Next]_vars => IndInv'
<1> SUFFICES ASSUME IndInv, [Next]_vars
             PROVE  IndInv'
  OBVIOUS
<1> USE MaxCycleAssumption
    DEF IndInv, TypeOK, CountsAreBounded, HoldersAreCounted,
        HoldersAreDisjoint, LandedIsSettled, Holds, Row, Step, Answer, Cycle
<1>1. CASE ChargeMonth
  BY <1>1 DEF ChargeMonth
<1>2. ASSUME NEW r \in Req, StartVerify(r) PROVE IndInv'
  BY <1>2 DEF StartVerify
<1>3. ASSUME NEW r \in Req, Fetch(r) PROVE IndInv'
  BY <1>3 DEF Fetch, Goto
<1>4. ASSUME NEW r \in Req, FetchFails(r) PROVE IndInv'
  BY <1>4 DEF FetchFails, Return
<1>5. ASSUME NEW r \in Req, ReadRow(r) PROVE IndInv'
  <2>1. CASE row # "live"
    BY <1>5, <2>1 DEF ReadRow, Return
  <2>2. CASE row = "live" /\ paid[r] > counter
    <3>1. /\ counter < paid[r] /\ seen' = [seen EXCEPT ![r] = counter]
          /\ pc' = [pc EXCEPT ![r] = "claim"]
          /\ UNCHANGED <<paidCount, row, counter, landed, paid, answer>>
      BY <1>5, <2>2 DEF ReadRow, Goto
    <3>2. TypeOK' /\ CountsAreBounded' /\ HoldersAreCounted'
      BY <3>1
    <3>3. HoldersAreDisjoint'
      BY <3>1
    <3>4. LandedIsSettled'
      BY <3>1
    <3> QED
      BY <3>2, <3>3, <3>4
  <2>3. CASE row = "live" /\ ~(paid[r] > counter)
    <3>1. /\ pc' = [pc EXCEPT ![r] = "idle"]
          /\ seen' = [seen EXCEPT ![r] = counter]
          /\ answer' = [answer EXCEPT ![r] = "already_credited"]
          /\ UNCHANGED <<paidCount, row, counter, landed, paid>>
      BY <1>5, <2>3 DEF ReadRow, Return
    <3>2. TypeOK' /\ CountsAreBounded' /\ HoldersAreCounted'
      BY <3>1
    <3>3. HoldersAreDisjoint'
      BY <3>1
    <3>4. LandedIsSettled'
      BY <3>1
    <3> QED
      BY <3>2, <3>3, <3>4
  <2> QED
    BY <2>1, <2>2, <2>3
<1>6. ASSUME NEW r \in Req, ReadRowFails(r) PROVE IndInv'
  BY <1>6 DEF ReadRowFails, Return
<1>7. ASSUME NEW r \in Req, Claim(r) PROVE IndInv'
  <2>1. CASE ~CounterMoves(seen[r])
    BY <1>7, <2>1 DEF Claim, Return
  <2>2. CASE CounterMoves(seen[r])
    <3>1. /\ counter = seen[r] /\ counter' = paid[r] /\ seen[r] < paid[r]
          /\ pc' = [pc EXCEPT ![r] = "readBalance"]
          /\ UNCHANGED <<paidCount, row, landed, paid, seen, answer>>
      BY <1>7, <2>2 DEF Claim, CounterMoves, Goto
    <3>2. TypeOK' /\ CountsAreBounded' /\ HoldersAreCounted'
      BY <3>1
    <3>3. HoldersAreDisjoint'
      BY <3>1
    <3>4. LandedIsSettled'
      BY <3>1
    <3> QED
      BY <3>2, <3>3, <3>4
  <2> QED
    BY <2>1, <2>2
<1>8. ASSUME NEW r \in Req, ClaimFails(r) PROVE IndInv'
  BY <1>8 DEF ClaimFails, CounterMoves, Return
<1>9. ASSUME NEW r \in Req, ReadBalance(r) PROVE IndInv'
  BY <1>9 DEF ReadBalance, Goto
<1>10. ASSUME NEW r \in Req, ReadBalanceFails(r) PROVE IndInv'
  BY <1>10 DEF ReadBalanceFails, Goto
<1>11. ASSUME NEW r \in Req, WriteBalance(r) PROVE IndInv'
  <2>1. /\ \A k \in Cycle : seen[r] < k /\ k <= paid[r] => k <= counter
        /\ pc' = [pc EXCEPT ![r] = "idle"]
        /\ answer' = [answer EXCEPT ![r] = "granted"]
        /\ landed' = [k \in Cycle |-> IF seen[r] < k /\ k <= paid[r]
                                      THEN 1 ELSE landed[k]]
        /\ UNCHANGED <<paidCount, row, counter, paid, seen>>
    BY <1>11, MonthsAdded DEF WriteBalance, Return, Owed
  <2>2. TypeOK' /\ CountsAreBounded' /\ HoldersAreCounted' /\ HoldersAreDisjoint'
    BY <2>1
  <2>3. LandedIsSettled'
    BY <1>11, <2>1, WriteSettles DEF WriteBalance
  <2> QED
    BY <2>2, <2>3
<1>12. ASSUME NEW r \in Req, WriteBalanceFails(r) PROVE IndInv'
  <2>1. CASE AddCredits(r)
    <3>1. /\ pc' = [pc EXCEPT ![r] = "idle"]
          /\ answer' = [answer EXCEPT ![r] = "grant_failed"]
          /\ landed' = [k \in Cycle |-> IF seen[r] < k /\ k <= paid[r]
                                        THEN 1 ELSE landed[k]]
          /\ UNCHANGED <<paidCount, row, counter, paid, seen>>
      BY <1>12, <2>1, MonthsAdded DEF WriteBalanceFails, Return
    <3>2. TypeOK' /\ CountsAreBounded' /\ HoldersAreCounted' /\ HoldersAreDisjoint'
      BY <3>1
    <3>3. LandedIsSettled'
      BY <1>12, <3>1, WriteSettles DEF WriteBalanceFails
    <3> QED
      BY <3>2, <3>3
  <2>2. CASE UNCHANGED landed
    BY <1>12, <2>2 DEF WriteBalanceFails, Return
  <2> QED
    BY <1>12, <2>1, <2>2 DEF WriteBalanceFails
<1>13. ASSUME NEW r \in Req, WindBack(r) PROVE IndInv'
  BY <1>13 DEF WindBack, CounterMoves, Return
<1>14. ASSUME NEW r \in Req, WindBackFails(r) PROVE IndInv'
  <2>1. CASE UNCHANGED counter
    BY <1>14, <2>1 DEF WindBackFails, Return
  <2>2. CASE counter' = IF CounterMoves(paid[r]) THEN seen[r] ELSE counter
    BY <1>14, <2>2 DEF WindBackFails, CounterMoves, Return
  <2> QED
    BY <1>14, <2>1, <2>2 DEF WindBackFails
<1>15. ASSUME NEW r \in Req, Crash(r) PROVE IndInv'
  BY <1>15 DEF Crash, Return
<1>16. CASE UNCHANGED vars
  BY <1>16 DEF vars
<1> QED
  BY <1>1, <1>2, <1>3, <1>4, <1>5, <1>6, <1>7, <1>8, <1>9, <1>10, <1>11,
     <1>12, <1>13, <1>14, <1>15, <1>16
     DEF Next, Look, Grant

\* Every reachable state satisfies the inductive invariant.
THEOREM Inductive == Spec => []IndInv
<1>1. Init => IndInv
  BY InitIndInv
<1>2. IndInv /\ [Next]_vars => IndInv'
  BY NextIndInv
<1> QED
  BY <1>1, <1>2, PTL DEF Spec

\* Every variable keeps its type.
THEOREM TypeCorrect == Spec => []TypeOK
<1>1. IndInv => TypeOK
  BY DEF IndInv
<1> QED
  BY <1>1, Inductive, PTL

\* No month is credited twice, however reconciles overlap, fail and wind back.
THEOREM MonthCreditedAtMostOnce == Spec => []NoMonthTwice
<1>1. IndInv => NoMonthTwice
  BY DEF IndInv, LandedIsSettled, NoMonthTwice
<1> QED
  BY <1>1, Inductive, PTL

\* A credited month was charged, and the counter never falls below it again.
THEOREM CreditedMonthStaysCounted == Spec => []CreditedStaysCounted
<1>1. IndInv => CreditedStaysCounted
  BY MaxCycleAssumption
     DEF IndInv, TypeOK, CountsAreBounded, LandedIsSettled,
         CreditedStaysCounted, Cycle
<1> QED
  BY <1>1, Inductive, PTL

-----------------------------------------------------------------------------
(* Subscription implements CreditOnce. *)

\* The initial states of Subscription are initial states of CreditOnce.
LEMMA InitRefines == Init => Promise!Init
BY DEF Init, Promise!Init

\* A step charges one more month, credits the months one reconcile won, or
\* changes neither.
LEMMA StepRefines == IndInv /\ [Next]_vars => [Promise!Next]_(Promise!vars)
<1> SUFFICES ASSUME IndInv, [Next]_vars
             PROVE  Promise!Next \/ UNCHANGED <<paidCount, landed>>
  BY DEF Promise!vars
<1> USE MaxCycleAssumption DEF IndInv, TypeOK, Cycle
<1>1. CASE ChargeMonth
  <2>1. paidCount + 1 \in Cycle /\ paidCount' = paidCount + 1 /\ UNCHANGED landed
    BY <1>1 DEF ChargeMonth
  <2>2. /\ paidCount + 1 \notin 1..paidCount
        /\ 1..paidCount' = (1..paidCount) \union {paidCount + 1}
    BY <2>1
  <2>3. Promise!Charge(paidCount + 1)
    BY <2>1, <2>2 DEF Promise!Charge
  <2> QED
    BY <2>1, <2>3 DEF Promise!Next
<1>2. ASSUME NEW r \in Req, pc[r] = "writeBalance", AddCredits(r),
             UNCHANGED paidCount
      PROVE  Promise!Next
  <2>1. /\ \A k \in Owed(r) : landed[k] = 0 /\ k <= paidCount
        /\ Owed(r) \in SUBSET Cycle /\ Owed(r) # {}
    BY <1>2, MonthsAdded DEF Owed
  <2>2. Owed(r) \subseteq 1..paidCount
    BY <2>1
  <2>3. landed' = [k \in Cycle |-> IF k \in Owed(r) THEN 1 ELSE landed[k]]
    BY <1>2, MonthsAdded DEF Owed
  <2>4. Promise!Credit(Owed(r))
    BY <1>2, <2>1, <2>2, <2>3 DEF Promise!Credit
  <2> QED
    BY <2>1, <2>4 DEF Promise!Next
<1>3. ASSUME NEW r \in Req, WriteBalance(r) PROVE Promise!Next
  BY <1>2, <1>3 DEF WriteBalance
<1>4. ASSUME NEW r \in Req, WriteBalanceFails(r)
      PROVE  Promise!Next \/ UNCHANGED <<paidCount, landed>>
  BY <1>2, <1>4 DEF WriteBalanceFails
<1>5. ASSUME NEW r \in Req,
             \/ StartVerify(r) \/ Look(r) \/ Claim(r) \/ ClaimFails(r)
             \/ ReadBalance(r) \/ ReadBalanceFails(r)
             \/ WindBack(r) \/ WindBackFails(r) \/ Crash(r)
      PROVE  UNCHANGED <<paidCount, landed>>
  BY <1>5 DEF StartVerify, Look, Fetch, FetchFails, ReadRow, ReadRowFails,
              Claim, ClaimFails, ReadBalance, ReadBalanceFails, WindBack,
              WindBackFails, Crash
<1>6. CASE UNCHANGED vars
  BY <1>6 DEF vars
<1> QED
  BY <1>1, <1>3, <1>4, <1>5, <1>6 DEF Next, Grant

\* verify_subscription_cycles keeps the promise of CreditOnce: a month is
\* credited at most once and only after it was charged.
THEOREM ImplementsCreditOnce == Spec => KeepsPromise
<1>1. Init => Promise!Init
  BY InitRefines
<1>2. IndInv /\ [Next]_vars => [Promise!Next]_(Promise!vars)
  BY StepRefines
<1> QED
  BY <1>1, <1>2, Inductive, PTL DEF Spec, KeepsPromise, Promise!Spec
=============================================================================
