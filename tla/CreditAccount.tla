---------------------------- MODULE CreditAccount ----------------------------
(***************************************************************************)
(* The balance of one user: services/credits over SupabaseCreditStore, the *)
(* admin adjustment, and the two SQL functions that add credits.           *)
(*                                                                         *)
(* The Python paths read the balance, compute, and write the absolute      *)
(* result; the SQL functions increment in one statement.  Requests of the  *)
(* same user interleave between a read and its write.                      *)
(*                                                                         *)
(* A user without a credits row is one whose balance is 0: the pre-check   *)
(* refuses, a charge is unbilled and a grant starts from nothing in both   *)
(* cases.  The ledger rows decide nothing and are left out: best effort    *)
(* after a charge or a grant, and after an adjustment an insert whose      *)
(* failure reaches the admin with the balance already moved.  issued,      *)
(* charged and removed are what complete rows would add up to, each row    *)
(* with the delta it carries, which for a removal is the one asked for;    *)
(* clamped is what such removals did not take.                             *)
(***************************************************************************)
EXTENDS Integers

CONSTANTS
    Req,        \* requests in flight at the same time
    Cost,       \* credits a run costs
    Amounts,    \* credits a top-up or a subscription grants
    Deltas,     \* adjustments an admin asks for, positive or negative
    Signup,     \* SIGNUP_CREDITS
    Bonus,      \* credits of an activated referral
    MaxIssued,  \* bound: credits issued, and credits asked to be removed, in an instance
    Failing     \* the calls that may fail, a subset of Call

Call == {"chargeRead", "adjustRead", "write"}

ASSUME AmountsAssumption ==
    /\ Cost \in Nat \ {0}
    /\ Amounts \subseteq Nat
    /\ Deltas \subseteq Int
    /\ Signup \in Nat /\ Bonus \in Nat /\ MaxIssued \in Nat
ASSUME FailingAssumption == Failing \subseteq Call

VARIABLES
    balance,    \* credits.balance
    pc,         \* pc[r]: the next call of request r
    read,       \* read[r]: the balance r read and will compute from
    delta,      \* delta[r]: what r is about to add or take
    issued,     \* credits added to the balance so far
    charged,    \* credits taken from it by charges
    removed,    \* credits an admin asked to take from it
    clamped,    \* the part of them that was not there to take
    welcomed,   \* the 'signup' ledger row exists
    activated,  \* the user's referral row says activated
    overtaken,  \* the requests the balance ever changed for between their read and their write
    misread     \* the requests that ever took a read that failed for a balance of 0

vars == <<balance, pc, read, delta, issued, charged, removed, clamped, welcomed, activated,
          overtaken, misread>>

Step == {"idle", "work", "charge", "debit", "credit", "adjust"}

TypeOK ==
    /\ balance \in Nat
    /\ pc \in [Req -> Step]
    /\ read \in [Req -> Nat]
    /\ delta \in [Req -> Int]
    /\ issued \in Nat /\ charged \in Nat /\ removed \in Nat /\ clamped \in Nat
    /\ welcomed \in BOOLEAN /\ activated \in BOOLEAN
    /\ overtaken \subseteq Req /\ misread \subseteq Req

Init ==
    /\ balance = 0
    /\ pc = [r \in Req |-> "idle"]
    /\ read = [r \in Req |-> 0]
    /\ delta = [r \in Req |-> 0]
    /\ issued = 0 /\ charged = 0 /\ removed = 0 /\ clamped = 0
    /\ welcomed = FALSE /\ activated = FALSE /\ overtaken = {} /\ misread = {}

-----------------------------------------------------------------------------
(* Helpers *)

MayFail(call) == call \in Failing

Goto(r, step) == pc' = [pc EXCEPT ![r] = step]

\* The request is over, and with it what it had read.
Finish(r) ==
    /\ Goto(r, "idle")
    /\ read' = [read EXCEPT ![r] = 0]
    /\ delta' = [delta EXCEPT ![r] = 0]

CanIssue(n) == issued + n <= MaxIssued

\* r is between its read of the balance and its write.
Writing(r) == pc[r] \in {"debit", "credit", "adjust"}

\* r sets the balance to b, over the head of a request that is about to write.
SetBalance(r, b) ==
    /\ balance' = b
    /\ overtaken' = overtaken \union {q \in Req \ {r} : Writing(q) /\ b # balance}

\* (A plausible bug in Target: no clamp.)
TargetUnclamped(r) == read[r] + delta[r]

\* Where the balance goes when r writes; a negative balance is clamped to zero.
Target(r) == IF read[r] + delta[r] < 0 THEN 0 ELSE read[r] + delta[r]

\* The upsert of the absolute balance_after.
Write(r) == SetBalance(r, Target(r))

\* A write that raised: the balance is written, or nothing is.
WriteOrNot(r, landed, lost) == (Write(r) /\ landed) \/ (UNCHANGED <<balance, overtaken>> /\ lost)

\* A read-modify-write starts: the balance as it is now, and the change to it.
ReadBalance(r, d, step) ==
    /\ read' = [read EXCEPT ![r] = balance]
    /\ delta' = [delta EXCEPT ![r] = d]
    /\ Goto(r, step)

-----------------------------------------------------------------------------
(* Plausible bugs.  No specification uses them: each is a mutated form of   *)
(* the action or helper it names, which the checks must notice.            *)

\* A debit that raised is refunded, though it may not have landed.
DebitFailsRefunds(r) ==
    /\ pc[r] = "debit"
    /\ MayFail("write")
    /\ SetBalance(r, balance + Cost) \/ SetBalance(r, Target(r) + Cost)
    /\ Finish(r)
    /\ UNCHANGED <<issued, charged, removed, clamped, welcomed, activated, misread>>

-----------------------------------------------------------------------------
(* A run: check_affordable, the work, charge_for_result *)

\* A balance below the cost, or unreadable, refuses the run; nothing changes.
CheckAffordable(r) ==
    /\ pc[r] = "idle"
    /\ balance >= Cost
    /\ Goto(r, "work")
    /\ UNCHANGED <<balance, read, delta, issued, charged, removed, clamped, welcomed, activated,
                   overtaken, misread>>

\* Only a non-empty success goes on to the charge.
Work(r) ==
    /\ pc[r] = "work"
    /\ Goto(r, "charge") \/ Goto(r, "idle")
    /\ UNCHANGED <<balance, read, delta, issued, charged, removed, clamped, welcomed, activated,
                   overtaken, misread>>

\* The balance may have moved underneath: then the work is delivered unbilled.
ReadToCharge(r) ==
    /\ pc[r] = "charge"
    /\ IF balance < Cost
       THEN Goto(r, "idle") /\ UNCHANGED <<read, delta>>
       ELSE ReadBalance(r, 0 - Cost, "debit")
    /\ UNCHANGED <<balance, issued, charged, removed, clamped, welcomed, activated, overtaken,
                   misread>>

ReadToChargeFails(r) ==
    /\ pc[r] = "charge"
    /\ MayFail("chargeRead")
    /\ Goto(r, "idle")
    /\ UNCHANGED <<balance, read, delta, issued, charged, removed, clamped, welcomed, activated,
                   overtaken, misread>>

Debit(r) ==
    /\ pc[r] = "debit"
    /\ Write(r)
    /\ charged' = charged + Cost
    /\ Finish(r)
    /\ UNCHANGED <<issued, removed, clamped, welcomed, activated, misread>>

DebitFails(r) ==
    /\ pc[r] = "debit"
    /\ MayFail("write")
    /\ WriteOrNot(r, charged' = charged + Cost, UNCHANGED charged)
    /\ Finish(r)
    /\ UNCHANGED <<issued, removed, clamped, welcomed, activated, misread>>

-----------------------------------------------------------------------------
(* credits.grant: top-ups and subscription months *)

ReadToGrant(r, n) ==
    /\ pc[r] = "idle"
    /\ CanIssue(n)
    /\ ReadBalance(r, n, "credit")
    /\ UNCHANGED <<balance, issued, charged, removed, clamped, welcomed, activated, overtaken,
                   misread>>

Credit(r) ==
    /\ pc[r] = "credit"
    /\ Write(r)
    /\ issued' = issued + delta[r]
    /\ Finish(r)
    /\ UNCHANGED <<charged, removed, clamped, welcomed, activated, misread>>

CreditFails(r) ==
    /\ pc[r] = "credit"
    /\ MayFail("write")
    /\ WriteOrNot(r, issued' = issued + delta[r], UNCHANGED issued)
    /\ Finish(r)
    /\ UNCHANGED <<charged, removed, clamped, welcomed, activated, misread>>

-----------------------------------------------------------------------------
(* admin.adjust_credits: the same read and write, clamped at zero *)

\* A zero adjustment is refused.
CanAdjust(r, d) ==
    /\ pc[r] = "idle"
    /\ d # 0
    /\ IF d > 0 THEN CanIssue(d) ELSE removed - d <= MaxIssued

ReadToAdjust(r, d) ==
    /\ CanAdjust(r, d)
    /\ ReadBalance(r, d, "adjust")
    /\ UNCHANGED <<balance, issued, charged, removed, clamped, welcomed, activated, overtaken,
                   misread>>

\* The read failed, and the admin goes on from a balance of 0.
ReadToAdjustBlind(r, d) ==
    /\ CanAdjust(r, d)
    /\ MayFail("adjustRead")
    /\ read' = [read EXCEPT ![r] = 0]
    /\ delta' = [delta EXCEPT ![r] = d]
    /\ Goto(r, "adjust")
    /\ misread' = misread \union {q \in {r} : balance # 0}
    /\ UNCHANGED <<balance, issued, charged, removed, clamped, welcomed, activated, overtaken>>

\* The ledger row carries the delta asked for, clamped or not.
Adjusted(r) ==
    /\ issued' = IF delta[r] > 0 THEN issued + delta[r] ELSE issued
    /\ removed' = IF delta[r] < 0 THEN removed - delta[r] ELSE removed
    /\ clamped' = clamped + (Target(r) - (read[r] + delta[r]))

Adjust(r) ==
    /\ pc[r] = "adjust"
    /\ Write(r)
    /\ Adjusted(r)
    /\ Finish(r)
    /\ UNCHANGED <<charged, welcomed, activated, misread>>

AdjustFails(r) ==
    /\ pc[r] = "adjust"
    /\ MayFail("write")
    /\ WriteOrNot(r, Adjusted(r), UNCHANGED <<issued, removed, clamped>>)
    /\ Finish(r)
    /\ UNCHANGED <<charged, welcomed, activated, misread>>

-----------------------------------------------------------------------------
(* The SQL functions: the claim and the increment in one transaction *)

\* (A plausible bug in GrantSignup: the row is committed before the increment,
\* which may be lost.)
GrantSignupInTwo(r) ==
    /\ pc[r] = "idle"
    /\ ~welcomed
    /\ CanIssue(Signup)
    /\ welcomed' = TRUE
    /\ SetBalance(r, balance + Signup) \/ UNCHANGED <<balance, overtaken>>
    /\ issued' = issued + Signup
    /\ UNCHANGED <<pc, read, delta, charged, removed, clamped, activated, misread>>

\* grant_signup_credits, once by the partial unique index on the ledger.
GrantSignup(r) ==
    /\ pc[r] = "idle"
    /\ ~welcomed
    /\ CanIssue(Signup)
    /\ welcomed' = TRUE
    /\ SetBalance(r, balance + Signup)
    /\ issued' = issued + Signup
    /\ UNCHANGED <<pc, read, delta, charged, removed, clamped, activated, misread>>

\* referral_activate_tx, seen from one of the two accounts it credits.
ActivateReferral(r) ==
    /\ pc[r] = "idle"
    /\ ~activated
    /\ CanIssue(Bonus)
    /\ activated' = TRUE
    /\ SetBalance(r, balance + Bonus)
    /\ issued' = issued + Bonus
    /\ UNCHANGED <<pc, read, delta, charged, removed, clamped, welcomed, misread>>

-----------------------------------------------------------------------------
Run(r) ==
    \/ CheckAffordable(r) \/ Work(r)
    \/ ReadToCharge(r) \/ ReadToChargeFails(r)
    \/ Debit(r) \/ DebitFails(r)

Grant(r) ==
    \/ \E n \in Amounts : ReadToGrant(r, n)
    \/ Credit(r) \/ CreditFails(r)

Admin(r) ==
    \/ \E d \in Deltas : ReadToAdjust(r, d) \/ ReadToAdjustBlind(r, d)
    \/ Adjust(r) \/ AdjustFails(r)

Once(r) == GrantSignup(r) \/ ActivateReferral(r)

Next == \E r \in Req : Run(r) \/ Grant(r) \/ Admin(r) \/ Once(r)

Spec == Init /\ [][Next]_vars

-----------------------------------------------------------------------------
(* Properties *)

\* Whatever reads and writes overlap or fail, the user never holds more than was
\* ever issued, nor less than nothing.  This is all that races leave: a debit that
\* is written over gives its credits back, which SpentWithinIssued would forbid.
HeldWithinIssued == 0 <= balance /\ balance <= issued

\* The books balance: what was issued is still there, was charged or was removed,
\* until a request writes over a balance that had moved since it read it, or takes
\* a read that failed for a balance of 0.  From then on credits may be lost or
\* given back.  Failed writes, landed or not, and clamped removals do neither.
Conserved ==
    overtaken = {} /\ misread = {} => balance + charged + removed = issued + clamped

\* "A balance must never be computed from a cached value, or a concurrent spend
\* silently over-draws" (SupabaseCreditStore): users are never charged for more
\* than they were given.
SpentWithinIssued == charged <= issued

-----------------------------------------------------------------------------
(* Why it holds.  The inductive invariants behind the properties.          *)

\* A balance once read was covered by what had been issued, and a run that is
\* to be debited read enough for it.
ReadsAreCovered ==
    \A r \in Req :
        /\ Writing(r) => read[r] <= issued
        /\ pc[r] = "debit" => read[r] >= Cost /\ delta[r] = 0 - Cost
        /\ pc[r] = "credit" => delta[r] \in Nat

\* Until one is overtaken or misread, the balance a request read is still the balance.
ReadsAreFresh ==
    overtaken = {} /\ misread = {} => \A r \in Req : Writing(r) => read[r] = balance

IndInv == TypeOK /\ HeldWithinIssued /\ ReadsAreCovered /\ ReadsAreFresh /\ Conserved
=============================================================================
