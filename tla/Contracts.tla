------------------------------ MODULE Contracts ------------------------------
(***************************************************************************)
(* The weekly contracts of one user, and everything that writes them: the  *)
(* requests of routes/weekly, the Monday sweep (services/sweep) and the    *)
(* Sunday pass (services/sunday) with its review, over weekly_store.       *)
(*                                                                         *)
(* Every writer reads, decides in memory and writes the whole row back by  *)
(* an upsert on (user_id, week_start): the requests one week each, the     *)
(* sweep every open row it selected, the Sunday pass a new row.  Nothing   *)
(* between a read and its write is locked or compared.  Users do not       *)
(* interact, so one is modelled.                                           *)
(***************************************************************************)
EXTENDS WeekRules

CONSTANTS
    Week,           \* bound: the weeks of an instance, 0 .. n
    Req,            \* the user's requests in flight at the same time
    MaxRequests,    \* bound: requests that get as far as a write
    Failing         \* the calls that may fail, a subset of Call

ASSUME WeekAssumption ==
    /\ Week \subseteq Nat
    /\ \E n \in Week : Week = 0 .. n
    /\ DaysPerWeek \in Nat \ {0}
    /\ MaxRequests \in Nat

Call == {"save", "adopt", "review", "propose"}

VARIABLES
    today,      \* the day it is
    contract,   \* contract[w]: the weekly_review row of week w
    review,     \* review[w]: whether facts are stored on that row
    draft,      \* draft[r]: what request r is about to save, or NoDraft
    pending,    \* pending[w]: the open row the sweep read and has not adopted
                \* yet, or NoContract
    pass,       \* the Sunday pass: its step, the week it closes, and what the
                \* history it read once decides about that week and the next
    requests,   \* requests that got as far as a write
    agreed,     \* agreed[w]: what the user asked to sign of week w, so far
    touched     \* touched[w]: the user planned or answered week w

vars == <<today, contract, review, draft, pending, pass, requests, agreed, touched>>

NoDraft == [week |-> 0, seen |-> NoContract, new |-> NoContract]
Drafting(r) == Exists(draft[r].new)

NoHistory == [w \in Week |-> NoContract]
NoPass == [step |-> "idle", week |-> 0, planned |-> FALSE, why |-> "propose",
           cadence |-> "weekly"]

LastDay == DaysPerWeek * (CHOOSE w \in Week : \A v \in Week : v <= w) + DaysPerWeek

TypeOK ==
    /\ today \in 0 .. LastDay
    /\ contract \in [Week -> Contract]
    /\ review \in [Week -> BOOLEAN]
    /\ draft \in [Req -> [week : Week, seen : Contract, new : Contract]]
    /\ pending \in [Week -> Contract]
    /\ pass \in [step : {"idle", "review", "propose"}, week : Int,
                 planned : BOOLEAN, why : WhyNot \union {"propose"},
                 cadence : Cadence]
    /\ requests \in 0 .. MaxRequests
    /\ agreed \in [Week -> SUBSET SUBSET Kind]
    /\ touched \in [Week -> BOOLEAN]

Init ==
    /\ today = 0
    /\ contract = NoHistory
    /\ review = [w \in Week |-> FALSE]
    /\ draft = [r \in Req |-> NoDraft]
    /\ pending = NoHistory
    /\ pass = NoPass
    /\ requests = 0
    /\ agreed = [w \in Week |-> {}]
    /\ touched = [w \in Week |-> FALSE]

MayFail(call) == call \in Failing

-----------------------------------------------------------------------------
(* The requests.  Loading, deciding and, for a proposal, reading the       *)
(* profile change nothing; what the request will save is its draft.        *)

\* Request r loaded week w, and will save the contract c.
WillSave(r, w, c) ==
    /\ ~Drafting(r)
    /\ requests < MaxRequests
    /\ requests' = requests + 1
    /\ draft' = [draft EXCEPT ![r] = [week |-> w, seen |-> contract[w], new |-> c]]
    /\ touched' = [touched EXCEPT ![w] = TRUE]
    /\ UNCHANGED <<today, contract, review, pending, pass>>

\* (A plausible bug in Approve: a week that was decided is signed again.)
ApproveAgain(r, w, accept) ==
    /\ Exists(contract[w])
    /\ WillSave(r, w, Signed(contract[w], accept))
    /\ agreed' = [agreed EXCEPT ![w] = @ \union {accept}]

\* The signature.  A week without a plan, or one decided already, is refused.
Approve(r, w, accept) ==
    /\ Open(contract[w])
    /\ WillSave(r, w, Signed(contract[w], accept))
    /\ agreed' = [agreed EXCEPT ![w] = @ \union {accept}]

Decline(r, w) ==
    /\ Open(contract[w])
    /\ WillSave(r, w, Declined(contract[w]))
    /\ UNCHANGED agreed

\* Withdrawing the signature, or the adoption.
Release(r, w) ==
    /\ CanRelease(contract[w])
    /\ WillSave(r, w, Released(contract[w]))
    /\ UNCHANGED agreed

\* "Plan this week" and "Pick up the thread", while the week has no row.
Plan(r) ==
    /\ WeekOf(today) \in Week
    /\ ~Exists(contract[WeekOf(today)])
    /\ \/ \E items \in RestOfWeek :
             WillSave(r, WeekOf(today), Proposal(items, "weekly"))
       \/ \E items \in ReEntryWeek, c \in Cadence :
             WillSave(r, WeekOf(today), Proposal(items, c))
    /\ UNCHANGED agreed

\* The upsert of the whole row; the facts of a review are not among its columns.
Save(r) ==
    /\ Drafting(r)
    /\ contract' = [contract EXCEPT ![draft[r].week] = draft[r].new]
    /\ draft' = [draft EXCEPT ![r] = NoDraft]
    /\ UNCHANGED <<today, review, pending, pass, requests, agreed, touched>>

SaveFails(r) ==
    /\ Drafting(r)
    /\ MayFail("save")
    /\ draft' = [draft EXCEPT ![r] = NoDraft]
    /\ UNCHANGED <<today, contract, review, pending, pass, requests, agreed, touched>>

-----------------------------------------------------------------------------
(* The sweep *)

\* Every open row is selected at once; those whose week is not over are left.
SweepSelect ==
    /\ pending = NoHistory
    /\ pending' = [w \in Week |-> IF Sweepable(contract[w], w, today)
                                  THEN contract[w] ELSE NoContract]
    /\ UNCHANGED <<today, contract, review, draft, pass, requests, agreed, touched>>

\* The adoption of one row, as it was when it was selected.
SweepAdopt(w) ==
    /\ Exists(pending[w])
    /\ contract' = [contract EXCEPT ![w] = Adopted(pending[w])]
    /\ pending' = [pending EXCEPT ![w] = NoContract]
    /\ UNCHANGED <<today, review, draft, pass, requests, agreed, touched>>

\* The upsert fails, the row cannot be read, it is a dry run, or the job dies.
SweepAdoptFails(w) ==
    /\ Exists(pending[w])
    /\ MayFail("adopt")
    /\ pending' = [pending EXCEPT ![w] = NoContract]
    /\ UNCHANGED <<today, contract, review, draft, pass, requests, agreed, touched>>

-----------------------------------------------------------------------------
(* The Sunday pass *)

\* The user is in the audience when a week of theirs was ever planned or the
\* setting is "everyone".  The whole history is read once, and both the review
\* and the proposal are decided on it.
PassStarts ==
    /\ pass.step = "idle"
    /\ ClosingWeek(today) + 1 \in Week
    /\ LET week == ClosingWeek(today)
       IN  pass' = [step |-> "review", week |-> week,
                    planned |-> week \in Week /\ Exists(contract[week]),
                    why |-> WhyNotPropose(contract, week + 1),
                    cadence |-> LatestCadence(contract)]
    /\ UNCHANGED <<today, contract, review, draft, pending, requests, agreed, touched>>

\* The review of the closing week: an UPDATE, which stores nothing on a week
\* without a row.
PassReviews ==
    /\ pass.step = "review"
    /\ review' = IF pass.planned /\ Exists(contract[pass.week])
                 THEN [review EXCEPT ![pass.week] = TRUE] ELSE review
    /\ pass' = [pass EXCEPT !.step = "propose"]
    /\ UNCHANGED <<today, contract, draft, pending, requests, agreed, touched>>

\* A source that cannot be read fails the review; the proposal is still made.
PassReviewFails ==
    /\ pass.step = "review"
    /\ MayFail("review")
    /\ pass' = [pass EXCEPT !.step = "propose"]
    /\ UNCHANGED <<today, contract, review, draft, pending, requests, agreed, touched>>

\* The proposal of the next week, decided on the history that was read.
PassProposes ==
    /\ pass.step = "propose"
    /\ IF pass.why = "propose"
       THEN \E items \in FullWeek :
               contract' = [contract EXCEPT
                               ![pass.week + 1] = Proposal(items, pass.cadence)]
       ELSE UNCHANGED contract
    /\ pass' = NoPass
    /\ UNCHANGED <<today, review, draft, pending, requests, agreed, touched>>

\* The profile or the save fails, there is no profile, or it is a dry run.
PassProposeFails ==
    /\ pass.step = "propose"
    /\ MayFail("propose")
    /\ pass' = NoPass
    /\ UNCHANGED <<today, contract, review, draft, pending, requests, agreed, touched>>

-----------------------------------------------------------------------------
\* Bound: requests and the cron's jobs, which take seconds and minutes, end on
\* the day they started.
NextDay ==
    /\ today < LastDay
    /\ pending = NoHistory /\ pass.step = "idle" /\ \A r \in Req : ~Drafting(r)
    /\ today' = today + 1
    /\ UNCHANGED <<contract, review, draft, pending, pass, requests, agreed, touched>>

Answer(r) ==
    \/ \E w \in Week :
          \/ \E accept \in SUBSET Kind : Approve(r, w, accept)
          \/ Decline(r, w) \/ Release(r, w)
    \/ Plan(r)

Sweep == SweepSelect \/ \E w \in Week : SweepAdopt(w) \/ SweepAdoptFails(w)

Sunday == PassStarts \/ PassReviews \/ PassReviewFails \/ PassProposes \/ PassProposeFails

Next ==
    \/ \E r \in Req : Answer(r) \/ Save(r) \/ SaveFails(r)
    \/ Sweep
    \/ Sunday
    \/ NextDay

Spec == Init /\ [][Next]_vars

-----------------------------------------------------------------------------
(* Properties *)

\* "A plan can be in force without having been agreed to" (ContractState), but
\* never a post: a week in force holds no more than the user asked to sign, and
\* one that was adopted unanswered holds no post at all.
InForceWasAgreed ==
    \A w \in Week :
        /\ contract[w].state = "approved" =>
              \E a \in agreed[w] : contract[w].accepted \subseteq a
        /\ contract[w].state = "auto_adopted" => ScheduledDays(contract[w]) = {}

\* An answer stands.  The row of a decided week changes only by a release, or
\* under a writer that read the week before it was decided: a request with a
\* draft, the sweep with a row it selected, a Sunday pass that saw no plan.
AnswersStand ==
    [][\A w \in Week :
          Decided(contract[w]) /\ contract'[w] # contract[w] =>
              \/ CanRelease(contract[w]) /\ contract'[w] = Released(contract[w])
              \/ \E r \in Req :
                    Drafting(r) /\ draft[r].week = w /\ draft[r].seen # contract[w]
              \/ Exists(pending[w])
              \/ pass.step = "propose" /\ pass.week + 1 = w /\ pass.why = "propose"]_vars

\* "Reading it strictly means a corrupt row fails loudly instead of quietly
\* reversing a decision", "putting a plan in force that the user explicitly
\* refused" (weekly_store.from_row): a declined week is never put in force.
RefusedIsNeverInForce ==
    [][\A w \in Week :
          contract[w].state = "declined" => InForce(contract'[w]) = {}]_vars

\* A user who does nothing is left alone: standing by starts at the second
\* lapse, so Carigma never lets three weeks in a row ride that the user neither
\* planned nor answered.
QuietUserIsLeftAlone ==
    ~\E u, v, w \in Planned(contract) :
        /\ u < v /\ v < w
        /\ \A x \in Planned(contract) : u <= x /\ x <= w => x \in {u, v, w}
        /\ \A x \in {u, v, w} : contract[x].state = "auto_adopted" /\ ~touched[x]

-----------------------------------------------------------------------------
(* Why it holds.  The inductive invariant behind InForceWasAgreed and       *)
(* AnswersStand.                                                            *)

\* A draft that signs carries no more than the user asked for, and no request
\* adopts a week.
DraftsAreAsked ==
    \A r \in Req :
        /\ draft[r].new.state # "auto_adopted"
        /\ draft[r].new.state = "approved" =>
              \E a \in agreed[draft[r].week] : draft[r].new.accepted \subseteq a

\* A request that read a decided week can only withdraw what is in force.
DraftsRespectDecisions ==
    \A r \in Req :
        Drafting(r) /\ Decided(draft[r].seen) =>
            CanRelease(draft[r].seen) /\ draft[r].new = Released(draft[r].seen)

IndInv ==
    /\ TypeOK
    /\ DraftsAreAsked
    /\ DraftsRespectDecisions
    /\ InForceWasAgreed

-----------------------------------------------------------------------------
(* The inductive invariant behind QuietUserIsLeftAlone.  A week is quiet    *)
(* when it has a row and the user neither planned nor answered it.          *)

Quiet(w) == Exists(contract[w]) /\ ~touched[w]

\* A request touched the week it is about to save, and a row the sweep selected
\* exists.
WritersTouch ==
    /\ \A r \in Req : Drafting(r) => touched[draft[r].week]
    /\ \A w \in Week : Exists(pending[w]) => Exists(contract[w])

\* Nobody but the user decides a week.
QuietIsUnanswered ==
    \A w \in Week : Quiet(w) => contract[w].state \in {"proposed", "auto_adopted"}

\* Sundays propose the weeks in order: no quiet week is later than the one after
\* the latest closed week, and a pass in hand closes the latest closed week.
SundaysGoOn ==
    /\ \A w \in Week : Quiet(w) => w <= ClosingWeek(today) + 1
    /\ pass.step # "idle" => pass.week = ClosingWeek(today) /\ pass.week + 1 \in Week

\* A pass that will propose saw no two quiet weeks in a row at the end of the
\* history, and none have appeared since.
PassLeavesAlone ==
    pass.step # "idle" /\ pass.why = "propose" =>
        ~\E u, v \in Week :
            /\ u < v /\ v <= pass.week
            /\ Quiet(u) /\ Quiet(v)
            /\ \A x \in Planned(contract) : u <= x /\ x <= pass.week => x \in {u, v}

\* No three planned weeks in a row are quiet, adopted or still open.
NeverThreeQuiet ==
    ~\E u, v, w \in Week :
        /\ u < v /\ v < w
        /\ Quiet(u) /\ Quiet(v) /\ Quiet(w)
        /\ \A x \in Planned(contract) : u <= x /\ x <= w => x \in {u, v, w}

QuietInv ==
    /\ WritersTouch
    /\ QuietIsUnanswered
    /\ SundaysGoOn
    /\ PassLeavesAlone
    /\ NeverThreeQuiet
=============================================================================
