------------------------------ MODULE Referrals ------------------------------
(***************************************************************************)
(* A referral from the link to the credits: POST /referrals/claim with the *)
(* SQL function referral_claim, and POST /onboarding/complete with the     *)
(* welcome grant, the activation and the SQL function referral_activate_tx.*)
(*                                                                         *)
(* The cap is a set of numbered slots per referrer.  A claim inserts with  *)
(* one slot after the other until a unique index lets it in.  Completing   *)
(* the setup pays the pending referral of the user, in one transaction.    *)
(*                                                                         *)
(* Each insert attempt and each statement is a step; concurrent requests   *)
(* interleave between them.  A code is represented by its owner:           *)
(* ReferralCodes shows that codes never change hands.                      *)
(***************************************************************************)
EXTENDS Naturals

CONSTANTS
    User,
    Referrer,       \* the users whose codes are in circulation
    V1User,         \* the users V1 gave its welcome credits
    Uploader,       \* bound: the users who may upload a profile
    Nobody,         \* the owner of a code that does not exist
    MaxReferrals,   \* slots per referrer (MAX_REFERRALS)
    Req,            \* requests in flight at the same time
    Failing         \* the calls that may fail, a subset of Call

Call == {"claim", "save", "load", "v1check", "signup", "readReferral",
         "activate", "crash"}

ASSUME UserAssumption ==
    /\ Referrer \subseteq User /\ V1User \subseteq User /\ Uploader \subseteq User
    /\ Nobody \notin User
ASSUME MaxReferralsAssumption == MaxReferrals \in Nat \ {0}
ASSUME FailingAssumption == Failing \subseteq Call

Slot == 1..MaxReferrals

VARIABLES
    by,         \* by[u]: who referred u, the row of `referrals` keyed by u
    slot,       \* slot[u]: the slot that row occupies, 0 without a row
    state,      \* state[u]: none, pending or activated
    paid,       \* paid[u]: times both sides were paid for u's activation
    uploaded,   \* the users whose profile text was extracted and saved
    onboarded,  \* the users whose profile row says `onboarded`
    welcomed,   \* welcomed[u]: times u got V2's welcome credits
    unread,     \* the users of V1 whose ledger there once could not be read
    pc,         \* pc[r]: the next call of request r
    who,        \* who[r]: the user making request r, Nobody between requests
    owner,      \* owner[r]: the owner of the code request r claims
    try,        \* try[r]: the slot request r tries next
    answer      \* answer[r]: what r answered, "none" while it runs

vars == <<by, slot, state, paid, uploaded, onboarded, welcomed, unread,
          pc, who, owner, try, answer>>

tables == <<by, slot, state, paid, uploaded, onboarded, welcomed, unread>>

Step == {"idle", "insert", "recheck", "save", "load", "v1check", "signup",
         "readReferral", "activate"}

Answer == {"none", "unavailable", "unknown", "self", "pending", "already",
           "cap", "complete", "bonus"}

TypeOK ==
    /\ by \in [User -> Referrer \union {Nobody}]
    /\ slot \in [User -> 0..MaxReferrals]
    /\ state \in [User -> {"none", "pending", "activated"}]
    /\ paid \in [User -> Nat]
    /\ uploaded \in SUBSET User
    /\ onboarded \in SUBSET User
    /\ welcomed \in [User -> Nat]
    /\ unread \in SUBSET V1User
    /\ pc \in [Req -> Step]
    /\ who \in [Req -> User \union {Nobody}]
    /\ owner \in [Req -> Referrer \union {Nobody}]
    /\ try \in [Req -> Slot]
    /\ answer \in [Req -> Answer]

Init ==
    /\ by = [u \in User |-> Nobody]
    /\ slot = [u \in User |-> 0]
    /\ state = [u \in User |-> "none"]
    /\ paid = [u \in User |-> 0]
    /\ uploaded = {}
    /\ onboarded = {}
    /\ welcomed = [u \in User |-> 0]
    /\ unread = {}
    /\ pc = [r \in Req |-> "idle"]
    /\ who = [r \in Req |-> Nobody]
    /\ owner = [r \in Req |-> Nobody]
    /\ try = [r \in Req |-> 1]
    /\ answer = [r \in Req |-> "none"]

-----------------------------------------------------------------------------
(* Helpers *)

MayFail(call) == call \in Failing

Goto(r, step) ==
    /\ pc' = [pc EXCEPT ![r] = step]
    /\ UNCHANGED <<who, owner, try, answer>>

Return(r, a) ==
    /\ pc' = [pc EXCEPT ![r] = "idle"]
    /\ who' = [who EXCEPT ![r] = Nobody]
    /\ owner' = [owner EXCEPT ![r] = Nobody]
    /\ try' = [try EXCEPT ![r] = 1]
    /\ answer' = [answer EXCEPT ![r] = a]

\* unique (referrer_id, slot)
SlotIsFree(v, s) == \A u \in User : by[u] = v => slot[u] # s

\* (Plausible bugs in CanInsert: without the slot index, without the key on the
\* referred user.)
CanInsertAnySlot(u, v, s) == state[u] = "none"
CanInsertAgain(u, v, s) == SlotIsFree(v, s)

\* unique (referred_id) and the slot index both let the row in.
CanInsert(u, v, s) == state[u] = "none" /\ SlotIsFree(v, s)

InsertReferral(u, v, s) ==
    /\ by' = [by EXCEPT ![u] = v]
    /\ slot' = [slot EXCEPT ![u] = s]
    /\ state' = [state EXCEPT ![u] = "pending"]

\* (A plausible bug in ActivatePending: the flip without its condition.)
ActivateAny(u) ==
    /\ state[u] # "none"
    /\ state' = [state EXCEPT ![u] = "activated"]
    /\ paid' = [paid EXCEPT ![u] = @ + 1]

\* The transaction of referral_activate_tx: the conditional flip and, when it
\* found a pending row, both grants.
ActivatePending(u) ==
    /\ state[u] = "pending"
    /\ state' = [state EXCEPT ![u] = "activated"]
    /\ paid' = [paid EXCEPT ![u] = @ + 1]

\* grant_signup_credits: the ledger insert decides.
GrantWelcome(u) ==
    /\ welcomed[u] = 0
    /\ welcomed' = [welcomed EXCEPT ![u] = 1]

-----------------------------------------------------------------------------
(* Plausible bugs.  No specification uses them: each is a mutated form of   *)
(* the action or helper it names, which the checks must notice.            *)

\* Every violation is read as "already referred".
RecheckSaysAlready(r) ==
    /\ pc[r] = "recheck"
    /\ Return(r, "already")
    /\ UNCHANGED tables

\* V1's welcome is not looked for.
V1CheckSkipped(r) ==
    /\ pc[r] = "v1check"
    /\ Goto(r, "signup")
    /\ UNCHANGED tables

\* An account that was welcomed before returns early.
GrantSignupReturns(r) ==
    /\ pc[r] = "signup"
    /\ \/ GrantWelcome(who[r]) /\ Goto(r, "readReferral")
       \/ welcomed[who[r]] # 0 /\ Return(r, "complete") /\ UNCHANGED welcomed
    /\ UNCHANGED <<by, slot, state, paid, uploaded, onboarded, unread>>

-----------------------------------------------------------------------------
\* POST /onboarding/extract saves what it found; a failure saves nothing.
Upload(u) ==
    /\ uploaded' = uploaded \union {u}
    /\ UNCHANGED <<by, slot, state, paid, onboarded, welcomed, unread,
                   pc, who, owner, try, answer>>

-----------------------------------------------------------------------------
(* POST /referrals/claim *)

\* The lookup of the code and the check for oneself; no row is touched yet.
StartClaim(r, u, v) ==
    /\ pc[r] = "idle"
    /\ \/ /\ v \notin {Nobody, u}
          /\ pc' = [pc EXCEPT ![r] = "insert"]
          /\ who' = [who EXCEPT ![r] = u]
          /\ owner' = [owner EXCEPT ![r] = v]
          /\ answer' = [answer EXCEPT ![r] = "none"]
       \/ /\ v \in {Nobody, u}
          /\ answer' = [answer EXCEPT ![r] = IF v = u THEN "self" ELSE "unknown"]
          /\ UNCHANGED <<pc, who, owner>>
    /\ UNCHANGED <<tables, try>>

\* One pass of the loop: the insert, which the indexes accept or refuse.
InsertSlot(r) ==
    /\ pc[r] = "insert"
    /\ IF CanInsert(who[r], owner[r], try[r])
       THEN /\ InsertReferral(who[r], owner[r], try[r])
            /\ Return(r, "pending")
       ELSE /\ Goto(r, "recheck")
            /\ UNCHANGED <<by, slot, state>>
    /\ UNCHANGED <<paid, uploaded, onboarded, welcomed, unread>>

\* A violation of referred_id is final; a taken slot leads to the next one.
Recheck(r) ==
    /\ pc[r] = "recheck"
    /\ \/ state[who[r]] # "none" /\ Return(r, "already")
       \/ /\ state[who[r]] = "none"
          /\ try[r] = MaxReferrals
          /\ Return(r, "cap")
       \/ /\ state[who[r]] = "none"
          /\ try[r] < MaxReferrals
          /\ pc' = [pc EXCEPT ![r] = "insert"]
          /\ try' = [try EXCEPT ![r] = @ + 1]
          /\ UNCHANGED <<who, owner, answer>>
    /\ UNCHANGED tables

\* The call of the function failed: its row is there, or nothing is.
ClaimFails(r) ==
    /\ pc[r] \in {"insert", "recheck"}
    /\ MayFail("claim")
    /\ \/ /\ pc[r] = "insert"
          /\ CanInsert(who[r], owner[r], try[r])
          /\ InsertReferral(who[r], owner[r], try[r])
       \/ UNCHANGED <<by, slot, state>>
    /\ Return(r, "unavailable")
    /\ UNCHANGED <<paid, uploaded, onboarded, welcomed, unread>>

-----------------------------------------------------------------------------
(* POST /onboarding/complete *)

\* Asked with a target role; whether a profile was uploaded is not looked at.
StartComplete(r, u) ==
    /\ pc[r] = "idle"
    /\ pc' = [pc EXCEPT ![r] = "save"]
    /\ who' = [who EXCEPT ![r] = u]
    /\ answer' = [answer EXCEPT ![r] = "none"]
    /\ UNCHANGED <<tables, owner, try>>

Save(r) ==
    /\ pc[r] = "save"
    /\ onboarded' = onboarded \union {who[r]}
    /\ Goto(r, "load")
    /\ UNCHANGED <<by, slot, state, paid, uploaded, welcomed, unread>>

SaveFails(r) ==
    /\ pc[r] = "save"
    /\ MayFail("save")
    /\ onboarded' \in {onboarded, onboarded \union {who[r]}}
    /\ Return(r, "unavailable")
    /\ UNCHANGED <<by, slot, state, paid, uploaded, welcomed, unread>>

\* The profile is read back before anything is granted.
Load(r) ==
    /\ pc[r] = "load"
    /\ Goto(r, "v1check")
    /\ UNCHANGED tables

LoadFails(r) ==
    /\ pc[r] = "load"
    /\ MayFail("load")
    /\ Return(r, "unavailable")
    /\ UNCHANGED tables

\* _welcomed_by_v1: such a user skips the welcome grant.
V1Check(r) ==
    /\ pc[r] = "v1check"
    /\ Goto(r, IF who[r] \in V1User THEN "readReferral" ELSE "signup")
    /\ UNCHANGED tables

\* "On a failed read this says no."
V1CheckFails(r) ==
    /\ pc[r] = "v1check"
    /\ MayFail("v1check")
    /\ unread' = unread \union ({who[r]} \intersect V1User)
    /\ Goto(r, "signup")
    /\ UNCHANGED <<by, slot, state, paid, uploaded, onboarded, welcomed>>

GrantSignup(r) ==
    /\ pc[r] = "signup"
    /\ \/ GrantWelcome(who[r])
       \/ welcomed[who[r]] # 0 /\ UNCHANGED welcomed
    /\ Goto(r, "readReferral")
    /\ UNCHANGED <<by, slot, state, paid, uploaded, onboarded, unread>>

\* Swallowed, whether or not the grant was made.
GrantSignupFails(r) ==
    /\ pc[r] = "signup"
    /\ MayFail("signup")
    /\ GrantWelcome(who[r]) \/ UNCHANGED welcomed
    /\ Goto(r, "readReferral")
    /\ UNCHANGED <<by, slot, state, paid, uploaded, onboarded, unread>>

\* activate: nothing to do without a row or with an activated one.
ReadReferral(r) ==
    /\ pc[r] = "readReferral"
    /\ IF state[who[r]] = "pending" THEN Goto(r, "activate") ELSE Return(r, "complete")
    /\ UNCHANGED tables

ReadReferralFails(r) ==
    /\ pc[r] = "readReferral"
    /\ MayFail("readReferral")
    /\ Return(r, "complete")
    /\ UNCHANGED tables

Activate(r) ==
    /\ pc[r] = "activate"
    /\ \/ ActivatePending(who[r]) /\ Return(r, "bonus")
       \/ /\ state[who[r]] # "pending"
          /\ Return(r, "complete")
          /\ UNCHANGED <<state, paid>>
    /\ UNCHANGED <<by, slot, uploaded, onboarded, welcomed, unread>>

\* Swallowed, whether or not the transaction was committed.
ActivateFails(r) ==
    /\ pc[r] = "activate"
    /\ MayFail("activate")
    /\ ActivatePending(who[r]) \/ UNCHANGED <<state, paid>>
    /\ Return(r, "complete")
    /\ UNCHANGED <<by, slot, uploaded, onboarded, welcomed, unread>>

Crash(r) ==
    /\ pc[r] # "idle"
    /\ MayFail("crash")
    /\ Return(r, "none")
    /\ UNCHANGED tables

-----------------------------------------------------------------------------
Claim(r) == InsertSlot(r) \/ Recheck(r) \/ ClaimFails(r)

Complete(r) ==
    \/ Save(r) \/ SaveFails(r)
    \/ Load(r) \/ LoadFails(r)
    \/ V1Check(r) \/ V1CheckFails(r)
    \/ GrantSignup(r) \/ GrantSignupFails(r)
    \/ ReadReferral(r) \/ ReadReferralFails(r)
    \/ Activate(r) \/ ActivateFails(r)

Next ==
    \/ \E u \in Uploader : Upload(u)
    \/ \E r \in Req, u \in User :
          \/ \E v \in Referrer \union {Nobody} : StartClaim(r, u, v)
          \/ StartComplete(r, u)
    \/ \E r \in Req : Claim(r) \/ Complete(r) \/ Crash(r)

Spec == Init /\ [][Next]_vars

\* A request that was started keeps taking steps.
Fairness == \A r \in Req : WF_vars(Claim(r) \/ Complete(r))

FairSpec == Spec /\ Fairness

-----------------------------------------------------------------------------
(* Properties *)

\* "The most one account can earn" is MAX_REFERRALS referrals: however many
\* claims arrive together, no two rows of a referrer share a slot, and a user
\* has one referrer, who is somebody else.
CapHolds ==
    \A u, v \in User :
        /\ by[u] # u
        /\ by[u] # Nobody => slot[u] \in Slot
        /\ by[u] # Nobody /\ by[u] = by[v] /\ slot[u] = slot[v] => u = v

\* "Someone can be referred exactly once, ever": the first attribution stays,
\* and an activated referral is never pending again.
AttributionIsFinal ==
    [][\A u \in User :
          /\ by[u] # Nobody => by'[u] = by[u] /\ slot'[u] = slot[u]
          /\ state[u] = "activated" => state'[u] = "activated"]_vars

\* A refusal is true when it is given: "every slot on that code is taken" only
\* when every slot is, "you've already been referred" only to such a user.
RefusalsAreTrue ==
    [][\A r \in Req : answer[r] = "none" =>
          /\ answer'[r] = "cap" => \A s \in Slot : ~SlotIsFree(owner[r], s)
          /\ answer'[r] = "already" => state[who[r]] # "none"]_vars

\* Both sides are paid exactly once per activated referral, and never for one
\* that is not activated: retries, parallel saves and lost answers pay nobody
\* twice.
PaidOncePerActivation ==
    \A u \in User : paid[u] = IF state[u] = "activated" THEN 1 ELSE 0

\* "Never on signup": nobody is paid, for a referral or as a welcome, before
\* the setup of the user in question was saved.
PaidAfterSetup ==
    \A u \in User : paid[u] > 0 \/ welcomed[u] > 0 => u \in onboarded

\* The welcome is given once, and not at all to an account V1 has welcomed,
\* unless V1's ledger could not be read.
WelcomedOnce ==
    \A u \in User :
        /\ welcomed[u] <= 1
        /\ u \in V1User \ unread => welcomed[u] = 0

\* A referral that is pending when the setup is submitted is paid.
SubmittedIsActivated ==
    \A r \in Req, u \in User :
        (pc[r] = "save" /\ who[r] = u /\ state[u] = "pending")
            ~> (state[u] = "activated")

-----------------------------------------------------------------------------
(* Why it holds.  The inductive invariant behind the safety properties.    *)

RowIsWhole ==
    \A u \in User :
        /\ state[u] = "none" <=> by[u] = Nobody
        /\ state[u] = "none" <=> slot[u] = 0

ActiveHasUser == \A r \in Req : pc[r] # "idle" => who[r] \in User

\* A claim has met a taken slot at each number below the one it tries, and at
\* that one too once it is refused; or its user has been referred meanwhile.
SlotsBelowAreTaken ==
    \A r \in Req :
        /\ pc[r] \in {"insert", "recheck"} => owner[r] \in Referrer \ {who[r]}
        /\ pc[r] \notin {"insert", "recheck"} => try[r] = 1
        /\ pc[r] = "insert" => \A s \in Slot : s < try[r] => ~SlotIsFree(owner[r], s)
        /\ pc[r] = "recheck" =>
              \/ state[who[r]] # "none"
              \/ \A s \in Slot : s <= try[r] => ~SlotIsFree(owner[r], s)

\* Nothing is granted before the save of the same request has landed.
GrantsFollowSave ==
    \A r \in Req :
        pc[r] \in {"load", "v1check", "signup", "readReferral", "activate"}
            => who[r] \in onboarded

V1IsSkipped ==
    \A r \in Req :
        pc[r] = "signup" => who[r] \notin V1User \ unread

IndInv ==
    /\ TypeOK
    /\ CapHolds
    /\ RowIsWhole
    /\ ActiveHasUser
    /\ SlotsBelowAreTaken
    /\ GrantsFollowSave
    /\ V1IsSkipped
    /\ PaidOncePerActivation
    /\ PaidAfterSetup
    /\ WelcomedOnce
=============================================================================
