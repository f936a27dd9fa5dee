---------------------------- MODULE Subscription ----------------------------
(***************************************************************************)
(* Monthly cycles: routes/payments.verify for a subscription and           *)
(* services/payments.verify_subscription_cycles.                           *)
(*                                                                         *)
(* Razorpay's paid_count is cumulative; the row's cycles_credited says how *)
(* many of those months were paid out.  A reconcile claims the difference  *)
(* by moving the counter, guarded on the value it read, adds the credits   *)
(* of every month it won in one write, and winds the counter back, guarded *)
(* again, when the balance could not be read.                              *)
(*                                                                         *)
(* Rows of user_subscriptions do not interact, so one subscription is      *)
(* modelled.  landed[k] counts how often the credits of month k arrived.   *)
(***************************************************************************)
EXTENDS Naturals

CONSTANTS
    Req,        \* reconciles in flight at the same time
    MaxCycle,   \* bound: months Razorpay charges in an instance
    Failing     \* the calls that may fail, a subset of Call

Call == {"fetch", "readRow", "claim", "readBalance", "writeBalance",
         "windBack", "crash"}

ASSUME MaxCycleAssumption == MaxCycle \in Nat
ASSUME FailingAssumption == Failing \subseteq Call

Cycle == 1..MaxCycle

VARIABLES
    paidCount,  \* Razorpay's paid_count
    row,        \* the stored subscription: absent, on an unknown plan, or live
    counter,    \* cycles_credited of that row
    landed,     \* landed[k]: times the credits of month k were added
    pc,         \* pc[r]: the next call of reconcile r
    paid,       \* paid[r]: the paid_count r fetched
    seen,       \* seen[r]: the cycles_credited r read
    answer      \* answer[r]: what r answered, "none" while it runs

vars == <<paidCount, row, counter, landed, pc, paid, seen, answer>>

Row == {"absent", "unknown_plan", "live"}

Step == {"idle", "fetch", "readRow", "claim", "readBalance", "writeBalance",
         "windBack"}

Answer == {"none", "unavailable", "error", "failed", "already_credited",
           "granted", "grant_failed"}

TypeOK ==
    /\ paidCount \in 0..MaxCycle
    /\ row \in Row
    /\ counter \in 0..MaxCycle
    /\ landed \in [Cycle -> Nat]
    /\ pc \in [Req -> Step]
    /\ paid \in [Req -> 0..MaxCycle]
    /\ seen \in [Req -> 0..MaxCycle]
    /\ answer \in [Req -> Answer]

Init ==
    /\ paidCount = 0
    /\ row \in Row
    /\ counter = 0
    /\ landed = [k \in Cycle |-> 0]
    /\ pc = [r \in Req |-> "idle"]
    /\ paid = [r \in Req |-> 0]
    /\ seen = [r \in Req |-> 0]
    /\ answer = [r \in Req |-> "none"]

-----------------------------------------------------------------------------
(* Helpers *)

MayFail(call) == call \in Failing

Goto(r, step) ==
    /\ pc' = [pc EXCEPT ![r] = step]
    /\ UNCHANGED answer

Return(r, a) ==
    /\ pc' = [pc EXCEPT ![r] = "idle"]
    /\ answer' = [answer EXCEPT ![r] = a]

\* The months between the counter r read and the count it fetched.
Owed(r) == {k \in Cycle : seen[r] < k /\ k <= paid[r]}

\* (A plausible bug in CounterMoves: the update without its guard.)
CounterMovesUnguarded(from) == row # "absent"

\* claim_cycles: move the counter from one value to another, guarded on the
\* first.  CounterMoves says whether a row was updated.
CounterMoves(from) == row # "absent" /\ counter = from

AddCredits(r) ==
    landed' = [k \in Cycle |-> IF k \in Owed(r) THEN landed[k] + 1 ELSE landed[k]]

-----------------------------------------------------------------------------
(* Plausible bugs.  No specification uses them: each is a mutated form of   *)
(* the action or helper it names, which the checks must notice.            *)

\* A write of unknown outcome answered by winding back.
WriteBalanceFailsWindsBack(r) ==
    /\ pc[r] = "writeBalance"
    /\ MayFail("writeBalance")
    /\ AddCredits(r) \/ UNCHANGED landed
    /\ Goto(r, "windBack")
    /\ UNCHANGED <<paidCount, row, counter, paid, seen>>

-----------------------------------------------------------------------------
\* Razorpay charges another month.
ChargeMonth ==
    /\ paidCount < MaxCycle
    /\ paidCount' = paidCount + 1
    /\ UNCHANGED <<row, counter, landed, pc, paid, seen, answer>>

StartVerify(r) ==
    /\ pc[r] = "idle"
    /\ pc' = [pc EXCEPT ![r] = "fetch"]
    /\ paid' = [paid EXCEPT ![r] = 0]
    /\ seen' = [seen EXCEPT ![r] = 0]
    /\ answer' = [answer EXCEPT ![r] = "none"]
    /\ UNCHANGED <<paidCount, row, counter, landed>>

Fetch(r) ==
    /\ pc[r] = "fetch"
    /\ paid' = [paid EXCEPT ![r] = paidCount]
    /\ Goto(r, "readRow")
    /\ UNCHANGED <<paidCount, row, counter, landed, seen>>

FetchFails(r) ==
    /\ pc[r] = "fetch"
    /\ MayFail("fetch")
    /\ Return(r, "unavailable")
    /\ UNCHANGED <<paidCount, row, counter, landed, paid, seen>>

\* store.get_subscription and what is decided on the row it returned.
ReadRow(r) ==
    /\ pc[r] = "readRow"
    /\ \/ /\ row # "live"
          /\ Return(r, "failed")
          /\ UNCHANGED seen
       \/ /\ row = "live"
          /\ seen' = [seen EXCEPT ![r] = counter]
          /\ IF paid[r] > counter
             THEN Goto(r, "claim")
             ELSE Return(r, "already_credited")
    /\ UNCHANGED <<paidCount, row, counter, landed, paid>>

ReadRowFails(r) ==
    /\ pc[r] = "readRow"
    /\ MayFail("readRow")
    /\ Return(r, "error")
    /\ UNCHANGED <<paidCount, row, counter, landed, paid, seen>>

Claim(r) ==
    /\ pc[r] = "claim"
    /\ \/ /\ CounterMoves(seen[r])
          /\ counter' = paid[r]
          /\ Goto(r, "readBalance")
       \/ /\ ~CounterMoves(seen[r])
          /\ Return(r, "already_credited")
          /\ UNCHANGED counter
    /\ UNCHANGED <<paidCount, row, landed, paid, seen>>

\* The claim raised: the counter moved or it did not.
ClaimFails(r) ==
    /\ pc[r] = "claim"
    /\ MayFail("claim")
    /\ \/ CounterMoves(seen[r]) /\ counter' = paid[r]
       \/ UNCHANGED counter
    /\ Return(r, "error")
    /\ UNCHANGED <<paidCount, row, landed, paid, seen>>

ReadBalance(r) ==
    /\ pc[r] = "readBalance"
    /\ Goto(r, "writeBalance")
    /\ UNCHANGED <<paidCount, row, counter, landed, paid, seen>>

ReadBalanceFails(r) ==
    /\ pc[r] = "readBalance"
    /\ MayFail("readBalance")
    /\ Goto(r, "windBack")
    /\ UNCHANGED <<paidCount, row, counter, landed, paid, seen>>

WriteBalance(r) ==
    /\ pc[r] = "writeBalance"
    /\ AddCredits(r)
    /\ Return(r, "granted")
    /\ UNCHANGED <<paidCount, row, counter, paid, seen>>

\* The write raised: landed or not, the counter stays advanced.
WriteBalanceFails(r) ==
    /\ pc[r] = "writeBalance"
    /\ MayFail("writeBalance")
    /\ AddCredits(r) \/ UNCHANGED landed
    /\ Return(r, "grant_failed")
    /\ UNCHANGED <<paidCount, row, counter, paid, seen>>

\* The claim in reverse.  When a concurrent reconcile has moved the counter on,
\* nothing is updated, and the result is not looked at.
WindBack(r) ==
    /\ pc[r] = "windBack"
    /\ counter' = IF CounterMoves(paid[r]) THEN seen[r] ELSE counter
    /\ Return(r, "grant_failed")
    /\ UNCHANGED <<paidCount, row, landed, paid, seen>>

WindBackFails(r) ==
    /\ pc[r] = "windBack"
    /\ MayFail("windBack")
    /\ counter' \in {counter, IF CounterMoves(paid[r]) THEN seen[r] ELSE counter}
    /\ Return(r, "error")
    /\ UNCHANGED <<paidCount, row, landed, paid, seen>>

Crash(r) ==
    /\ pc[r] # "idle"
    /\ MayFail("crash")
    /\ Return(r, "none")
    /\ UNCHANGED <<paidCount, row, counter, landed, paid, seen>>

-----------------------------------------------------------------------------
Look(r) == Fetch(r) \/ FetchFails(r) \/ ReadRow(r) \/ ReadRowFails(r)

Grant(r) ==
    \/ Claim(r) \/ ClaimFails(r)
    \/ ReadBalance(r) \/ ReadBalanceFails(r)
    \/ WriteBalance(r) \/ WriteBalanceFails(r)
    \/ WindBack(r) \/ WindBackFails(r)

Next ==
    \/ ChargeMonth
    \/ \E r \in Req : StartVerify(r) \/ Look(r) \/ Grant(r) \/ Crash(r)

Spec == Init /\ [][Next]_vars

-----------------------------------------------------------------------------
(* Properties *)

\* Between a won claim and the end of the grant a reconcile owns its months.
Holds(r) == pc[r] \in {"readBalance", "writeBalance", "windBack"}

\* No month is credited twice: claims and wind-backs of overlapping reconciles,
\* with stale counts and unknown outcomes, never cover a month again that has
\* been paid out.
NoMonthTwice == \A k \in Cycle : landed[k] <= 1

\* A month that was credited was charged, and stays counted: no wind-back takes
\* the counter below a month whose credits arrived.
CreditedStaysCounted ==
    \A k \in Cycle : landed[k] > 0 => k <= counter /\ k <= paidCount

\* "A subscriber whose grant blipped gets their month on the next reconcile
\* instead of silently losing it" (verify_subscription_cycles): a month the
\* counter has passed is credited, or a running reconcile still owns it.
NoMonthLost ==
    \A k \in Cycle : k <= counter =>
        \/ landed[k] = 1
        \/ \E r \in Req : Holds(r) /\ k \in Owed(r)

\* Subscriptions keep the promise of CreditOnce, an item being a month.
Promise == INSTANCE CreditOnce WITH
    Item <- Cycle,
    charged <- 1..paidCount,
    credits <- landed

KeepsPromise == Promise!Spec

-----------------------------------------------------------------------------
(* Why it holds.  The inductive invariant behind the safety properties.    *)

\* Counts only grow at Razorpay, and the counter never passes them.
CountsAreBounded ==
    /\ counter <= paidCount
    /\ \A r \in Req : paid[r] <= paidCount

\* A reconcile goes to the claim only when it is owed something, and what it
\* holds lies below the counter.
HoldersAreCounted ==
    \A r \in Req :
        /\ pc[r] = "claim" \/ Holds(r) => seen[r] < paid[r]
        /\ Holds(r) => paid[r] <= counter

\* Two reconciles never hold the same month.
HoldersAreDisjoint ==
    \A r, q \in Req :
        Holds(r) /\ Holds(q) /\ r # q => paid[r] <= seen[q] \/ paid[q] <= seen[r]

\* What has landed is counted, once, and nobody holds it.
LandedIsSettled ==
    \A k \in Cycle :
        /\ landed[k] \in {0, 1}
        /\ landed[k] = 1 => k <= counter
        /\ \A r \in Req : landed[k] = 1 /\ Holds(r) => k <= seen[r] \/ paid[r] < k

IndInv ==
    /\ TypeOK
    /\ CountsAreBounded
    /\ HoldersAreCounted
    /\ HoldersAreDisjoint
    /\ LandedIsSettled
=============================================================================
