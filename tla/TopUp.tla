-------------------------------- MODULE TopUp --------------------------------
(***************************************************************************)
(* Credit top-ups: routes/payments.create_topup and .verify, and           *)
(* services/payments.verify_topup over SupabasePaymentStore.               *)
(*                                                                         *)
(* Each request is a sequence of steps, one per call that leaves the       *)
(* process (Razorpay or a PostgREST statement); requests for the same link *)
(* interleave at those points: the return redirect, a page visit and a     *)
(* refresh all call verify.  A failing call is a step of its own; where    *)
(* the code cannot tell whether a raised write landed, both outcomes are   *)
(* possible.  Failing names the calls that may fail in an instance.        *)
(*                                                                         *)
(* The balance itself is abstracted to landed[l], how many times the       *)
(* credits of link l were added; CreditAccount models the arithmetic.      *)
(***************************************************************************)
EXTENDS Naturals

CONSTANTS
    Req,        \* request slots: requests in flight at the same time
    Link,       \* payment links, the key of a row of `payments`
    Failing     \* the calls that may fail, a subset of Call

Call == {"create", "record", "fetch", "readRow", "markDead", "claim",
         "readBalance", "writeBalance", "release", "crash"}

ASSUME FailingAssumption == Failing \subseteq Call

VARIABLES
    provider,   \* provider[l]: what Razorpay says of link l
    offered,    \* the links whose checkout URL was returned to the user
    row,        \* row[l]: `payments`.status of link l
    landed,     \* landed[l]: times the credits of l were added to the balance
    pc,         \* pc[r]: the next call of request r
    link,       \* link[r]: the link request r is about
    seen,       \* seen[r]: the provider_status request r fetched
    answer      \* answer[r]: what request r answered, "none" while it runs

vars == <<provider, offered, row, landed, pc, link, seen, answer>>

-----------------------------------------------------------------------------
(* Types *)

\* Razorpay's link statuses.  "dead" stands for failed, expired and cancelled,
\* which the code treats alike; "partial" for the ones it does not model.
ProviderStatus == {"none", "created", "partial", "paid", "dead"}

RowStatus == {"absent", "created", "paid", "dead"}

Step == {"idle", "create", "record", "fetch", "readRow", "markDead", "claim",
         "readBalance", "writeBalance", "release"}

\* GrantOutcome, with FAILED split by its two messages, and the answers the
\* routes give without one: the checkout link, a 503, an unhandled error.
Answer == {"none", "link", "unavailable", "error", "granted",
           "already_credited", "not_paid_yet", "failed", "not_found",
           "grant_failed"}

TypeOK ==
    /\ provider \in [Link -> ProviderStatus]
    /\ offered \in SUBSET Link
    /\ row \in [Link -> RowStatus]
    /\ landed \in [Link -> Nat]
    /\ pc \in [Req -> Step]
    /\ link \in [Req -> Link]
    /\ seen \in [Req -> ProviderStatus]
    /\ answer \in [Req -> Answer]

Init ==
    /\ provider = [l \in Link |-> "none"]
    /\ offered = {}
    /\ row = [l \in Link |-> "absent"]
    /\ landed = [l \in Link |-> 0]
    /\ pc = [r \in Req |-> "idle"]
    /\ link \in [Req -> Link]
    /\ seen = [r \in Req |-> "none"]
    /\ answer = [r \in Req |-> "none"]

-----------------------------------------------------------------------------
(* Helpers *)

MayFail(call) == call \in Failing

Goto(r, step) ==
    /\ pc' = [pc EXCEPT ![r] = step]
    /\ UNCHANGED answer

Return(r, a) ==
    /\ pc' = [pc EXCEPT ![r] = "idle"]
    /\ answer' = [answer EXCEPT ![r] = a]

\* `update ... where link_id = l`: touches nothing when there is no such row.
SetRow(l, status) ==
    row' = [row EXCEPT ![l] = IF @ = "absent" THEN @ ELSE status]

\* A write that raised: it may or may not have reached the database.
MaybeSetRow(l, status) == SetRow(l, status) \/ UNCHANGED row

-----------------------------------------------------------------------------
(* Plausible bugs.  No specification uses them: each is a mutated form of   *)
(* the action or helper it names, which the checks must notice.            *)

\* The claim without its condition on the status.
ClaimUnguarded(r) ==
    /\ pc[r] = "claim"
    /\ SetRow(link[r], "paid")
    /\ Goto(r, "readBalance")
    /\ UNCHANGED <<provider, offered, landed, link, seen>>

\* Losing the claim read as a failed payment.
ClaimLostFails(r) ==
    /\ pc[r] = "claim"
    /\ \/ row[link[r]] = "created" /\ SetRow(link[r], "paid") /\ Goto(r, "readBalance")
       \/ row[link[r]] # "created" /\ Return(r, "failed") /\ UNCHANGED row
    /\ UNCHANGED <<provider, offered, landed, link, seen>>

\* A write of unknown outcome answered by giving the claim back.
WriteBalanceFailsReleases(r) ==
    /\ pc[r] = "writeBalance"
    /\ MayFail("writeBalance")
    /\ landed' \in {landed, [landed EXCEPT ![link[r]] = @ + 1]}
    /\ Goto(r, "release")
    /\ UNCHANGED <<provider, offered, row, link, seen>>

\* The URL leaves before the row is inserted.
CreateLinkOffered(r) ==
    /\ pc[r] = "create"
    /\ provider' = [provider EXCEPT ![link[r]] = "created"]
    /\ offered' = offered \union {link[r]}
    /\ Goto(r, "record")
    /\ UNCHANGED <<row, landed, link, seen>>

\* The claim is not given back when the balance cannot be read.
ReadBalanceFailsKeeps(r) ==
    /\ pc[r] = "readBalance"
    /\ MayFail("readBalance")
    /\ Return(r, "grant_failed")
    /\ UNCHANGED <<provider, offered, row, landed, link, seen>>

-----------------------------------------------------------------------------
(* Razorpay and the user, seen from the API: a link is open until it is    *)
(* paid or dies, and both are final.  Only a user who was given the        *)
(* checkout URL can pay.                                                   *)

Open(l) == provider[l] \in {"created", "partial"}

Pay(l) ==
    /\ l \in offered
    /\ Open(l)
    /\ \E s \in {"partial", "paid"} :
          /\ s # provider[l]
          /\ provider' = [provider EXCEPT ![l] = s]
    /\ UNCHANGED <<offered, row, landed, pc, link, seen, answer>>

Expire(l) ==
    /\ Open(l)
    /\ provider' = [provider EXCEPT ![l] = "dead"]
    /\ UNCHANGED <<offered, row, landed, pc, link, seen, answer>>

-----------------------------------------------------------------------------
(* POST /payments/topup *)

StartCreate(r, l) ==
    /\ pc[r] = "idle"
    /\ provider[l] = "none"
    /\ \A q \in Req : link[q] = l => pc[q] # "create"
    /\ pc' = [pc EXCEPT ![r] = "create"]
    /\ link' = [link EXCEPT ![r] = l]
    /\ seen' = [seen EXCEPT ![r] = "none"]
    /\ answer' = [answer EXCEPT ![r] = "none"]
    /\ UNCHANGED <<provider, offered, row, landed>>

CreateLink(r) ==
    /\ pc[r] = "create"
    /\ provider' = [provider EXCEPT ![link[r]] = "created"]
    /\ Goto(r, "record")
    /\ UNCHANGED <<offered, row, landed, link, seen>>

CreateLinkFails(r) ==
    /\ pc[r] = "create"
    /\ MayFail("create")
    /\ Return(r, "unavailable")
    /\ UNCHANGED <<provider, offered, row, landed, link, seen>>

RecordPayment(r) ==
    /\ pc[r] = "record"
    /\ row' = [row EXCEPT ![link[r]] = "created"]
    /\ offered' = offered \union {link[r]}
    /\ Return(r, "link")
    /\ UNCHANGED <<provider, landed, link, seen>>

\* The insert raised; nothing catches it, so the URL is never returned.
RecordPaymentFails(r) ==
    /\ pc[r] = "record"
    /\ MayFail("record")
    /\ row' \in {row, [row EXCEPT ![link[r]] = "created"]}
    /\ Return(r, "error")
    /\ UNCHANGED <<provider, offered, landed, link, seen>>

-----------------------------------------------------------------------------
(* POST /payments/verify, for a top-up *)

StartVerify(r, l) ==
    /\ pc[r] = "idle"
    /\ provider[l] # "none"
    /\ pc' = [pc EXCEPT ![r] = "fetch"]
    /\ link' = [link EXCEPT ![r] = l]
    /\ seen' = [seen EXCEPT ![r] = "none"]
    /\ answer' = [answer EXCEPT ![r] = "none"]
    /\ UNCHANGED <<provider, offered, row, landed>>

Fetch(r) ==
    /\ pc[r] = "fetch"
    /\ seen' = [seen EXCEPT ![r] = provider[link[r]]]
    /\ Goto(r, "readRow")
    /\ UNCHANGED <<provider, offered, row, landed, link>>

FetchFails(r) ==
    /\ pc[r] = "fetch"
    /\ MayFail("fetch")
    /\ Return(r, "unavailable")
    /\ UNCHANGED <<provider, offered, row, landed, link, seen>>

\* store.get_payment, and every decision taken on the row it returned.
ReadRow(r) ==
    /\ pc[r] = "readRow"
    /\ LET status == row[link[r]] IN
       \/ status = "absent" /\ Return(r, "not_found")
       \/ status # "absent" /\ seen[r] = "dead" /\ Goto(r, "markDead")
       \/ /\ status # "absent"
          /\ seen[r] \notin {"dead", "paid"}
          /\ Return(r, "not_paid_yet")
       \/ status = "paid" /\ seen[r] = "paid" /\ Return(r, "already_credited")
       \/ /\ status \notin {"absent", "paid"}
          /\ seen[r] = "paid"
          /\ Goto(r, "claim")
    /\ UNCHANGED <<provider, offered, row, landed, link, seen>>

ReadRowFails(r) ==
    /\ pc[r] = "readRow"
    /\ MayFail("readRow")
    /\ Return(r, "error")
    /\ UNCHANGED <<provider, offered, row, landed, link, seen>>

MarkDead(r) ==
    /\ pc[r] = "markDead"
    /\ SetRow(link[r], "dead")
    /\ Return(r, "failed")
    /\ UNCHANGED <<provider, offered, landed, link, seen>>

MarkDeadFails(r) ==
    /\ pc[r] = "markDead"
    /\ MayFail("markDead")
    /\ MaybeSetRow(link[r], "dead")
    /\ Return(r, "error")
    /\ UNCHANGED <<provider, offered, landed, link, seen>>

\* The conditional update: `set status = paid where status = created`, whose
\* affected-row count says whether this request did it.
Claim(r) ==
    /\ pc[r] = "claim"
    /\ \/ /\ row[link[r]] = "created"
          /\ SetRow(link[r], "paid")
          /\ Goto(r, "readBalance")
       \/ /\ row[link[r]] # "created"
          /\ Return(r, "already_credited")
          /\ UNCHANGED row
    /\ UNCHANGED <<provider, offered, landed, link, seen>>

ClaimFails(r) ==
    /\ pc[r] = "claim"
    /\ MayFail("claim")
    /\ \/ row[link[r]] = "created" /\ SetRow(link[r], "paid")
       \/ UNCHANGED row
    /\ Return(r, "error")
    /\ UNCHANGED <<provider, offered, landed, link, seen>>

\* credits.grant reads the balance first; CreditsUnavailable becomes None,
\* which verify_topup answers by giving the claim back.
ReadBalance(r) ==
    /\ pc[r] = "readBalance"
    /\ Goto(r, "writeBalance")
    /\ UNCHANGED <<provider, offered, row, landed, link, seen>>

ReadBalanceFails(r) ==
    /\ pc[r] = "readBalance"
    /\ MayFail("readBalance")
    /\ Goto(r, "release")
    /\ UNCHANGED <<provider, offered, row, landed, link, seen>>

WriteBalance(r) ==
    /\ pc[r] = "writeBalance"
    /\ landed' = [landed EXCEPT ![link[r]] = @ + 1]
    /\ Return(r, "granted")
    /\ UNCHANGED <<provider, offered, row, link, seen>>

\* The upsert raised: landed or not, the claim is kept.
WriteBalanceFails(r) ==
    /\ pc[r] = "writeBalance"
    /\ MayFail("writeBalance")
    /\ landed' \in {landed, [landed EXCEPT ![link[r]] = @ + 1]}
    /\ Return(r, "grant_failed")
    /\ UNCHANGED <<provider, offered, row, link, seen>>

\* mark_payment(created): an unconditional update.
Release(r) ==
    /\ pc[r] = "release"
    /\ SetRow(link[r], "created")
    /\ Return(r, "grant_failed")
    /\ UNCHANGED <<provider, offered, landed, link, seen>>

ReleaseFails(r) ==
    /\ pc[r] = "release"
    /\ MayFail("release")
    /\ MaybeSetRow(link[r], "created")
    /\ Return(r, "error")
    /\ UNCHANGED <<provider, offered, landed, link, seen>>

\* The worker dies between two calls; nothing of the request survives.
Crash(r) ==
    /\ pc[r] # "idle"
    /\ MayFail("crash")
    /\ Return(r, "none")
    /\ UNCHANGED <<provider, offered, row, landed, link, seen>>

-----------------------------------------------------------------------------
World(l) == Pay(l) \/ Expire(l)

Create(r) ==
    \/ CreateLink(r) \/ CreateLinkFails(r)
    \/ RecordPayment(r) \/ RecordPaymentFails(r)

Look(r) ==
    \/ Fetch(r) \/ FetchFails(r)
    \/ ReadRow(r) \/ ReadRowFails(r)
    \/ MarkDead(r) \/ MarkDeadFails(r)

Grant(r) ==
    \/ Claim(r) \/ ClaimFails(r)
    \/ ReadBalance(r) \/ ReadBalanceFails(r)
    \/ WriteBalance(r) \/ WriteBalanceFails(r)
    \/ Release(r) \/ ReleaseFails(r)

Next ==
    \/ \E l \in Link : World(l)
    \/ \E r \in Req, l \in Link : StartCreate(r, l) \/ StartVerify(r, l)
    \/ \E r \in Req : Create(r) \/ Look(r) \/ Grant(r) \/ Crash(r)

Spec == Init /\ [][Next]_vars

\* A request that was started keeps taking steps.  The page keeps asking: the
\* pricing page verifies on every visit, so each link is verified again and
\* again, and neither Razorpay nor the balance read fails every time.
Fairness ==
    /\ \A r \in Req : WF_vars(Create(r) \/ Look(r) \/ Grant(r))
    /\ \A r \in Req, l \in Link :
          /\ SF_vars(StartVerify(r, l))
          /\ SF_vars(link[r] = l /\ Fetch(r))
          /\ SF_vars(link[r] = l /\ ReadBalance(r))

FairSpec == Spec /\ Fairness

-----------------------------------------------------------------------------
(* Properties *)

\* Between a won claim and the end of the grant a request owns the credits.
Holds(r) == pc[r] \in {"readBalance", "writeBalance", "release"}

\* However the verifies of a link interleave, retry, fail half way or crash,
\* its credits are added to the balance at most once.
AtMostOnce == \A l \in Link : landed[l] <= 1

\* Credits that arrived belong to a link Razorpay really charged, and its row
\* is closed for good: no release, late failure or dead status reopens it.
CreditedStaysClosed ==
    \A l \in Link : landed[l] > 0 => provider[l] = "paid" /\ row[l] = "paid"

\* A user is never charged for a link the API has no row of: the URL leaves
\* only after the insert, whatever becomes of the requests.
ChargedIsRecorded == \A l \in Link : provider[l] = "paid" => row[l] # "absent"

\* Nobody is told the payment did not go through, or could not be found, after
\* Razorpay took the money.
FailedMeansNotCharged ==
    [][\A r \in Req : (answer'[r] \in {"failed", "not_found"} /\ answer[r] = "none")
                         => provider[link[r]] # "paid"]_vars

\* What was paid for arrives: "If you paid, your credits will appear".
PaidEventuallyCredited ==
    \A l \in Link : (provider[l] = "paid") ~> (landed[l] = 1)

\* The detailed protocol implements the promise of CreditOnce.
Promise == INSTANCE CreditOnce WITH
    Item <- Link,
    charged <- {l \in Link : provider[l] = "paid"},
    credits <- landed

KeepsPromise == Promise!Spec
-----------------------------------------------------------------------------
(* Why it holds.  The inductive invariant behind the safety properties.    *)

Creating(r) == pc[r] \in {"create", "record"}

\* A final status, once fetched, is still what Razorpay says.
SeenIsFinal ==
    \A r \in Req : seen[r] \in {"paid", "dead"} => provider[link[r]] = seen[r]

\* A request gets as far as the claim only on "paid", and to mark_payment(dead)
\* only on a dead status.
StepsFollowSeen ==
    \A r \in Req :
        /\ pc[r] = "claim" \/ Holds(r) => seen[r] = "paid"
        /\ pc[r] = "markDead" => seen[r] = "dead"

\* The insert of a row meets no earlier row of the same link.
CreatorsAreFirst ==
    \A r \in Req :
        /\ pc[r] = "create" => provider[link[r]] = "none"
        /\ pc[r] = "record" => provider[link[r]] # "none"
        /\ Creating(r) => row[link[r]] = "absent" /\ link[r] \notin offered
        /\ \A q \in Req : Creating(r) /\ Creating(q) /\ link[r] = link[q] => r = q

\* How the provider's status and the row constrain each other.
RowFollowsProvider ==
    \A l \in Link :
        /\ provider[l] = "none" => row[l] = "absent" /\ l \notin offered
        /\ l \in offered => row[l] # "absent"
        /\ provider[l] \in {"partial", "paid"} => l \in offered
        /\ row[l] \in {"paid", "dead"} => provider[l] = row[l]

\* A holder is alone on its link, the row is closed and nothing has landed.
HolderIsAlone ==
    \A r \in Req : Holds(r) =>
        /\ row[link[r]] = "paid"
        /\ landed[link[r]] = 0
        /\ \A q \in Req : Holds(q) /\ link[q] = link[r] => q = r

LandedOnce ==
    \A l \in Link : landed[l] \in {0, 1} /\ (landed[l] = 1 => row[l] = "paid")

IndInv ==
    /\ TypeOK
    /\ SeenIsFinal
    /\ StepsFollowSeen
    /\ CreatorsAreFirst
    /\ RowFollowsProvider
    /\ HolderIsAlone
    /\ LandedOnce
=============================================================================
