--------------------------- MODULE ReferralsProofs ---------------------------
(***************************************************************************)
(* Proofs about Referrals, for any users, any number of slots and requests,*)
(* and any set of calls that may fail.                                     *)
(***************************************************************************)
EXTENDS Referrals, FiniteSets, FiniteSetTheorems, TLAPS

\* The inductive invariant holds at the start.
LEMMA InitIndInv == Init => IndInv
BY UserAssumption, MaxReferralsAssumption
   DEF Init, IndInv, TypeOK, CapHolds, RowIsWhole, ActiveHasUser,
       SlotsBelowAreTaken, GrantsFollowSave, V1IsSkipped,
       PaidOncePerActivation, PaidAfterSetup, WelcomedOnce, Slot, Step, Answer

\* The parts of the invariant about rows only.
TablesInv ==
    /\ CapHolds
    /\ RowIsWhole
    /\ PaidOncePerActivation
    /\ PaidAfterSetup
    /\ WelcomedOnce

\* The parts about what requests know.
RequestsInv ==
    /\ ActiveHasUser
    /\ SlotsBelowAreTaken
    /\ GrantsFollowSave
    /\ V1IsSkipped

\* The invariant, part by part.
LEMMA PartsMakeIndInv == TypeOK' /\ TablesInv' /\ RequestsInv' => IndInv'
BY DEF IndInv, TablesInv, RequestsInv

\* A request that returns keeps the types of what requests hold.
LEMMA ReturnKeepsTypes ==
    ASSUME TypeOK, NEW r \in Req, NEW a \in Answer, Return(r, a)
    PROVE  /\ pc' \in [Req -> Step]
           /\ who' \in [Req -> User \union {Nobody}]
           /\ owner' \in [Req -> Referrer \union {Nobody}]
           /\ try' \in [Req -> Slot]
           /\ answer' \in [Req -> Answer]
BY MaxReferralsAssumption DEF TypeOK, Return, Step, Slot

\* An insert the indexes accept keeps the rows in order and takes no slot away
\* from anybody.
LEMMA InsertKeepsRows ==
    ASSUME IndInv, NEW u \in User, NEW v \in Referrer, NEW s \in Slot, u # v,
           CanInsert(u, v, s), InsertReferral(u, v, s),
           UNCHANGED <<paid, uploaded, onboarded, welcomed, unread>>
    PROVE  /\ TablesInv'
           /\ by' \in [User -> Referrer \union {Nobody}]
           /\ slot' \in [User -> 0..MaxReferrals]
           /\ state' \in [User -> {"none", "pending", "activated"}]
           /\ \A w \in User, t \in Slot : w # Nobody /\ ~SlotIsFree(w, t) => ~SlotIsFree(w, t)'
           /\ \A w \in User : state[w] # "none" => state'[w] # "none"
<1> USE UserAssumption, MaxReferralsAssumption
<1>1. /\ by' = [by EXCEPT ![u] = v]
      /\ slot' = [slot EXCEPT ![u] = s]
      /\ state' = [state EXCEPT ![u] = "pending"]
      /\ state[u] = "none" /\ by[u] = Nobody
      /\ \A w \in User : by[w] = v => slot[w] # s
  BY DEF IndInv, InsertReferral, CanInsert, SlotIsFree, RowIsWhole
<1>2. /\ by' \in [User -> Referrer \union {Nobody}]
      /\ slot' \in [User -> 0..MaxReferrals]
      /\ state' \in [User -> {"none", "pending", "activated"}]
  BY <1>1 DEF IndInv, TypeOK, Slot
<1>3. CapHolds'
  BY <1>1 DEF IndInv, TypeOK, CapHolds, Slot
<1>4. RowIsWhole'
  BY <1>1 DEF IndInv, TypeOK, RowIsWhole, Slot
<1>5. PaidOncePerActivation' /\ PaidAfterSetup' /\ WelcomedOnce'
  BY <1>1 DEF IndInv, TypeOK, PaidOncePerActivation, PaidAfterSetup, WelcomedOnce,
              MayFail
<1>6. ASSUME NEW w \in User, NEW t \in Slot, ~SlotIsFree(w, t) PROVE ~SlotIsFree(w, t)'
  BY <1>1, <1>6 DEF SlotIsFree, IndInv, TypeOK
<1>7. \A w \in User : state[w] # "none" => state'[w] # "none"
  BY <1>1 DEF IndInv, TypeOK
<1> QED
  BY <1>2, <1>3, <1>4, <1>5, <1>6, <1>7 DEF TablesInv

\* A request that returns disturbs nothing the others know, as long as no row
\* is taken away.
LEMMA ReturnKeepsRequests ==
    ASSUME IndInv, NEW r \in Req, NEW a \in Answer, Return(r, a),
           UNCHANGED <<by, slot, onboarded, unread>>,
           \A u \in User : state[u] # "none" => state'[u] # "none"
    PROVE  RequestsInv'
<1>1. /\ pc'[r] = "idle" /\ try'[r] = 1
      /\ \A q \in Req \ {r} : /\ pc'[q] = pc[q] /\ who'[q] = who[q]
                             /\ owner'[q] = owner[q] /\ try'[q] = try[q]
  BY MaxReferralsAssumption DEF IndInv, TypeOK, Return
<1>2. \A v, s : SlotIsFree(v, s)' <=> SlotIsFree(v, s)
  BY DEF SlotIsFree
<1>3. ActiveHasUser'
  BY <1>1 DEF IndInv, ActiveHasUser
<1>4. GrantsFollowSave'
  BY <1>1 DEF IndInv, GrantsFollowSave
<1>5. V1IsSkipped'
  BY <1>1 DEF IndInv, V1IsSkipped
<1>6. SlotsBelowAreTaken'
  <2>1. \A q \in Req : pc[q] # "idle" => who[q] \in User
    BY DEF IndInv, ActiveHasUser
  <2> QED
    BY <1>1, <1>2, <2>1 DEF IndInv, SlotsBelowAreTaken
<1> QED
  BY <1>3, <1>4, <1>5, <1>6 DEF RequestsInv

\* Every step preserves the invariant, one step of the proof per action.
LEMMA NextIndInv == IndInv /\ [Next]_vars => IndInv'
<1> SUFFICES ASSUME IndInv, [Next]_vars
             PROVE  IndInv'
  OBVIOUS
<1> USE UserAssumption, MaxReferralsAssumption
    DEF IndInv, TypeOK, Step, Answer, RowIsWhole, ActiveHasUser,
        SlotsBelowAreTaken, GrantsFollowSave, V1IsSkipped,
        PaidOncePerActivation, PaidAfterSetup, WelcomedOnce, Slot, MayFail
<1>1. ASSUME NEW u \in Uploader, Upload(u) PROVE IndInv'
  BY <1>1 DEF Upload, CapHolds, SlotIsFree
<1>2. ASSUME NEW r \in Req, NEW u \in User, NEW v \in Referrer \union {Nobody},
             StartClaim(r, u, v)
      PROVE  IndInv'
  <2>1. TypeOK'
    BY <1>2 DEF StartClaim, tables
  <2>2. TablesInv'
    BY <1>2 DEF StartClaim, tables, TablesInv, CapHolds
  <2>3. RequestsInv'
    <3>1. CASE /\ v \notin {Nobody, u}
               /\ pc' = [pc EXCEPT ![r] = "insert"]
               /\ who' = [who EXCEPT ![r] = u]
               /\ owner' = [owner EXCEPT ![r] = v]
      BY <1>2, <3>1 DEF StartClaim, tables, RequestsInv, SlotIsFree
    <3>2. CASE UNCHANGED <<pc, who, owner>>
      BY <1>2, <3>2 DEF StartClaim, tables, RequestsInv, SlotIsFree
    <3> QED
      BY <1>2, <3>1, <3>2 DEF StartClaim
  <2> HIDE DEF IndInv, TypeOK
  <2> QED
    BY <2>1, <2>2, <2>3, PartsMakeIndInv
<1>3. ASSUME NEW r \in Req, InsertSlot(r) PROVE IndInv'
  <2>1. CASE CanInsert(who[r], owner[r], try[r])
    <3>1. /\ who[r] \in User /\ owner[r] \in Referrer /\ who[r] # owner[r]
          /\ try[r] \in Slot
          /\ InsertReferral(who[r], owner[r], try[r])
          /\ UNCHANGED <<paid, uploaded, onboarded, welcomed, unread>>
          /\ Return(r, "pending")
      BY <1>3, <2>1 DEF InsertSlot
    <3>2. /\ TablesInv'
          /\ by' \in [User -> Referrer \union {Nobody}]
          /\ slot' \in [User -> 0..MaxReferrals]
          /\ state' \in [User -> {"none", "pending", "activated"}]
          /\ \A w \in User, t \in Slot : ~SlotIsFree(w, t) => ~SlotIsFree(w, t)'
          /\ \A w \in User : state[w] # "none" => state'[w] # "none"
      BY <2>1, <3>1, InsertKeepsRows
    <3>3. TypeOK'
      BY <3>1, <3>2 DEF Return
    <3>4. RequestsInv'
      BY <3>1, <3>2 DEF Return, RequestsInv
    <3> QED
      BY <3>2, <3>3, <3>4 DEF TablesInv, RequestsInv
  <2>2. CASE ~CanInsert(who[r], owner[r], try[r])
    BY <1>3, <2>2 DEF InsertSlot, Goto, CanInsert, CapHolds, SlotIsFree
  <2> QED
    BY <2>1, <2>2
<1>4. ASSUME NEW r \in Req, Recheck(r) PROVE IndInv'
  <2>1. CASE Return(r, "already") \/ Return(r, "cap")
    <3>1. UNCHANGED tables
      BY <1>4 DEF Recheck
    <3>2. PICK a \in Answer : Return(r, a)
      BY <2>1
    <3>3. TypeOK'
      BY <3>1, <3>2, ReturnKeepsTypes DEF tables
    <3>4. TablesInv'
      BY <3>1 DEF tables, TablesInv, CapHolds
    <3> HIDE DEF IndInv, TypeOK
    <3>5. RequestsInv'
      BY <3>1, <3>2, ReturnKeepsRequests DEF tables
    <3> QED
      BY <3>3, <3>4, <3>5, PartsMakeIndInv
  <2>2. CASE /\ state[who[r]] = "none" /\ try[r] < MaxReferrals
             /\ pc' = [pc EXCEPT ![r] = "insert"]
             /\ try' = [try EXCEPT ![r] = @ + 1]
             /\ UNCHANGED <<who, owner, answer>>
    <3>1. pc[r] = "recheck" /\ UNCHANGED tables
      BY <1>4 DEF Recheck
    <3>2. TypeOK' /\ TablesInv'
      BY <2>2, <3>1 DEF tables, TablesInv, CapHolds
    <3>3. \A s \in Slot : s <= try[r] => ~SlotIsFree(owner[r], s)
      BY <2>2, <3>1
    <3>4. \A s \in Slot : s < try[r] + 1 => s <= try[r]
      OBVIOUS
    <3>5. SlotsBelowAreTaken'
      BY <2>2, <3>1, <3>3, <3>4 DEF tables, SlotIsFree
    <3>6. ActiveHasUser' /\ GrantsFollowSave' /\ V1IsSkipped'
      BY <2>2, <3>1 DEF tables
    <3> QED
      BY <3>2, <3>5, <3>6 DEF TablesInv
  <2> QED
    BY <1>4, <2>1, <2>2 DEF Recheck
<1>5. ASSUME NEW r \in Req, ClaimFails(r) PROVE IndInv'
  <2>1. CASE /\ pc[r] = "insert"
             /\ CanInsert(who[r], owner[r], try[r])
             /\ InsertReferral(who[r], owner[r], try[r])
    <3>1. /\ who[r] \in User /\ owner[r] \in Referrer /\ who[r] # owner[r]
          /\ try[r] \in Slot
          /\ UNCHANGED <<paid, uploaded, onboarded, welcomed, unread>>
          /\ Return(r, "unavailable")
      BY <1>5, <2>1 DEF ClaimFails
    <3>2. /\ TablesInv'
          /\ by' \in [User -> Referrer \union {Nobody}]
          /\ slot' \in [User -> 0..MaxReferrals]
          /\ state' \in [User -> {"none", "pending", "activated"}]
          /\ \A w \in User, t \in Slot : ~SlotIsFree(w, t) => ~SlotIsFree(w, t)'
          /\ \A w \in User : state[w] # "none" => state'[w] # "none"
      BY <2>1, <3>1, InsertKeepsRows
    <3>3. TypeOK'
      BY <3>1, <3>2 DEF Return
    <3>4. RequestsInv'
      BY <3>1, <3>2 DEF Return, RequestsInv
    <3> QED
      BY <3>2, <3>3, <3>4 DEF TablesInv, RequestsInv
  <2>2. CASE UNCHANGED <<by, slot, state>>
    BY <1>5, <2>2 DEF ClaimFails, Return, CapHolds, SlotIsFree
  <2> QED
    BY <1>5, <2>1, <2>2 DEF ClaimFails
<1>6. ASSUME NEW r \in Req, NEW u \in User, StartComplete(r, u) PROVE IndInv'
  BY <1>6 DEF StartComplete, tables, CapHolds, SlotIsFree
<1>7. ASSUME NEW r \in Req, Save(r) PROVE IndInv'
  BY <1>7 DEF Save, Goto, CapHolds, SlotIsFree
<1>8. ASSUME NEW r \in Req, SaveFails(r) PROVE IndInv'
  BY <1>8 DEF SaveFails, Return, CapHolds, SlotIsFree
<1>9. ASSUME NEW r \in Req, Load(r) PROVE IndInv'
  BY <1>9 DEF Load, Goto, tables, CapHolds, SlotIsFree
<1>10. ASSUME NEW r \in Req, LoadFails(r) PROVE IndInv'
  BY <1>10 DEF LoadFails, Return, tables, CapHolds, SlotIsFree
<1>11. ASSUME NEW r \in Req, V1Check(r) PROVE IndInv'
  BY <1>11 DEF V1Check, Goto, tables, CapHolds, SlotIsFree
<1>12. ASSUME NEW r \in Req, V1CheckFails(r) PROVE IndInv'
  BY <1>12 DEF V1CheckFails, Goto, tables, CapHolds, SlotIsFree
<1>13. ASSUME NEW r \in Req, GrantSignup(r) PROVE IndInv'
  <2>1. TypeOK'
    BY <1>13 DEF GrantSignup, GrantWelcome, Goto
  <2>2. TablesInv'
    <3>1. /\ who[r] \in User /\ who[r] \in onboarded
          /\ who[r] \notin V1User \ unread
          /\ UNCHANGED <<by, slot, state, paid, onboarded, unread>>
      BY <1>13 DEF GrantSignup
    <3>2. \/ UNCHANGED welcomed
          \/ welcomed' = [welcomed EXCEPT ![who[r]] = 1]
      BY <1>13 DEF GrantSignup, GrantWelcome
    <3>3. CapHolds' /\ RowIsWhole' /\ PaidOncePerActivation'
      BY <3>1 DEF CapHolds
    <3>4. PaidAfterSetup' /\ WelcomedOnce'
      BY <3>1, <3>2
    <3> QED
      BY <3>3, <3>4 DEF TablesInv
  <2>3. RequestsInv'
    BY <1>13 DEF GrantSignup, GrantWelcome, Goto, RequestsInv, SlotIsFree
  <2> HIDE DEF IndInv, TypeOK
  <2> QED
    BY <2>1, <2>2, <2>3, PartsMakeIndInv
<1>14. ASSUME NEW r \in Req, GrantSignupFails(r) PROVE IndInv'
  <2>1. TypeOK'
    BY <1>14 DEF GrantSignupFails, GrantWelcome, Goto
  <2>2. TablesInv'
    <3>1. /\ who[r] \in User /\ who[r] \in onboarded
          /\ who[r] \notin V1User \ unread
          /\ UNCHANGED <<by, slot, state, paid, onboarded, unread>>
      BY <1>14 DEF GrantSignupFails
    <3>2. \/ UNCHANGED welcomed
          \/ welcomed' = [welcomed EXCEPT ![who[r]] = 1]
      BY <1>14 DEF GrantSignupFails, GrantWelcome
    <3>3. CapHolds' /\ RowIsWhole' /\ PaidOncePerActivation'
      BY <3>1 DEF CapHolds
    <3>4. PaidAfterSetup' /\ WelcomedOnce'
      BY <3>1, <3>2
    <3> QED
      BY <3>3, <3>4 DEF TablesInv
  <2>3. RequestsInv'
    BY <1>14 DEF GrantSignupFails, GrantWelcome, Goto, RequestsInv, SlotIsFree
  <2> HIDE DEF IndInv, TypeOK
  <2> QED
    BY <2>1, <2>2, <2>3, PartsMakeIndInv
<1>15. ASSUME NEW r \in Req, ReadReferral(r) PROVE IndInv'
  <2>1. TypeOK'
    BY <1>15 DEF ReadReferral, Goto, Return, tables
  <2>2. TablesInv'
    BY <1>15 DEF ReadReferral, Goto, Return, tables, TablesInv, CapHolds
  <2>3. RequestsInv'
    BY <1>15 DEF ReadReferral, Goto, Return, tables, RequestsInv, SlotIsFree
  <2> HIDE DEF IndInv, TypeOK
  <2> QED
    BY <2>1, <2>2, <2>3, PartsMakeIndInv
<1>16. ASSUME NEW r \in Req, ReadReferralFails(r) PROVE IndInv'
  BY <1>16 DEF ReadReferralFails, Return, tables, CapHolds, SlotIsFree
<1>17. ASSUME NEW r \in Req, Activate(r) PROVE IndInv'
  <2>1. TypeOK'
    BY <1>17 DEF Activate, ActivatePending, Return
  <2>2. TablesInv'
    BY <1>17 DEF Activate, ActivatePending, Return, TablesInv, CapHolds
  <2>3. RequestsInv'
    <3>1. PICK a \in Answer : Return(r, a)
      BY <1>17 DEF Activate
    <3>2. UNCHANGED <<by, slot, onboarded, unread>>
      BY <1>17 DEF Activate
    <3>3. \A u \in User : state[u] # "none" => state'[u] # "none"
      BY <1>17 DEF Activate, ActivatePending
    <3> HIDE DEF IndInv
    <3> QED
      BY <3>1, <3>2, <3>3, ReturnKeepsRequests
  <2> HIDE DEF IndInv, TypeOK
  <2> QED
    BY <2>1, <2>2, <2>3, PartsMakeIndInv
<1>18. ASSUME NEW r \in Req, ActivateFails(r) PROVE IndInv'
  <2>1. TypeOK'
    <3>1. Return(r, "complete") /\ "complete" \in Answer
      BY <1>18 DEF ActivateFails
    <3>2. /\ state' \in [User -> {"none", "pending", "activated"}]
          /\ paid' \in [User -> Nat]
      BY <1>18 DEF ActivateFails, ActivatePending
    <3>3. UNCHANGED <<by, slot, uploaded, onboarded, welcomed, unread>>
      BY <1>18 DEF ActivateFails
    <3> QED
      BY <3>1, <3>2, <3>3, ReturnKeepsTypes
  <2>2. TablesInv'
    BY <1>18 DEF ActivateFails, ActivatePending, Return, TablesInv, CapHolds
  <2>3. RequestsInv'
    <3>1. PICK a \in Answer : Return(r, a)
      BY <1>18 DEF ActivateFails
    <3>2. UNCHANGED <<by, slot, onboarded, unread>>
      BY <1>18 DEF ActivateFails
    <3>3. \A u \in User : state[u] # "none" => state'[u] # "none"
      BY <1>18 DEF ActivateFails, ActivatePending
    <3> HIDE DEF IndInv
    <3> QED
      BY <3>1, <3>2, <3>3, ReturnKeepsRequests
  <2> HIDE DEF IndInv, TypeOK
  <2> QED
    BY <2>1, <2>2, <2>3, PartsMakeIndInv
<1>19. ASSUME NEW r \in Req, Crash(r) PROVE IndInv'
  BY <1>19 DEF Crash, Return, tables, CapHolds, SlotIsFree
<1>20. CASE UNCHANGED vars
  BY <1>20 DEF vars, CapHolds, SlotIsFree
<1>21. ASSUME NEW r \in Req, Claim(r) \/ Complete(r) \/ Crash(r) PROVE IndInv'
  BY <1>3, <1>4, <1>5, <1>7, <1>8, <1>9, <1>10, <1>11, <1>12, <1>13, <1>14,
     <1>15, <1>16, <1>17, <1>18, <1>19, <1>21
     DEF Claim, Complete
<1>22. ASSUME NEW r \in Req, NEW u \in User,
              \/ \E v \in Referrer \union {Nobody} : StartClaim(r, u, v)
              \/ StartComplete(r, u)
       PROVE  IndInv'
  BY <1>2, <1>6, <1>22
<1> QED
  BY <1>1, <1>20, <1>21, <1>22 DEF Next

\* Every reachable state satisfies the inductive invariant.
THEOREM Inductive == Spec => []IndInv
<1>1. Init => IndInv
  BY InitIndInv
<1>2. IndInv /\ [Next]_vars => IndInv'
  BY NextIndInv
<1> QED
  BY <1>1, <1>2, PTL DEF Spec

\* Every variable keeps its type.
THEOREM TypeCorrect == Spec => []TypeOK
<1>1. IndInv => TypeOK
  BY DEF IndInv
<1> QED
  BY <1>1, Inductive, PTL

\* The rows of a referrer never share a slot, whatever claims race.
THEOREM SlotsAreNeverShared == Spec => []CapHolds
<1>1. IndInv => CapHolds
  BY DEF IndInv
<1> QED
  BY <1>1, Inductive, PTL

\* The promise itself: no account earns from more than MaxReferrals referrals.
\* The slots number the rows of a referrer one by one, so there are no more
\* rows than slots.
THEOREM CapIsACount ==
    Spec => [](\A v \in Referrer :
                  LET rows == {u \in User : by[u] = v}
                  IN  IsFiniteSet(rows) /\ Cardinality(rows) <= MaxReferrals)
<1>1. ASSUME CapHolds, NEW v \in Referrer
      PROVE  LET rows == {u \in User : by[u] = v}
             IN  IsFiniteSet(rows) /\ Cardinality(rows) <= MaxReferrals
  <2> DEFINE rows == {u \in User : by[u] = v}
             f == [u \in rows |-> slot[u]]
  <2>1. v # Nobody
    BY UserAssumption
  <2>2. f \in [rows -> Slot]
    BY <1>1, <2>1 DEF CapHolds
  <2>3. \A u, w \in rows : f[u] = f[w] => u = w
    BY <1>1, <2>1 DEF CapHolds
  <2>4. f \in Injection(rows, Slot)
    BY <2>2, <2>3 DEF Injection, IsInjective
  <2>5. IsFiniteSet(Slot) /\ Cardinality(Slot) = MaxReferrals
    BY FS_Interval, MaxReferralsAssumption DEF Slot
  <2> HIDE DEF rows, f
  <2>6. IsFiniteSet(rows) /\ Cardinality(rows) <= MaxReferrals
    BY <2>4, <2>5, FS_Injection
  <2> QED
    BY <2>6 DEF rows
<1>2. CapHolds => \A v \in Referrer :
                      LET rows == {u \in User : by[u] = v}
                      IN  IsFiniteSet(rows) /\ Cardinality(rows) <= MaxReferrals
  BY <1>1
<1> QED
  BY <1>2, SlotsAreNeverShared, PTL

\* Both sides of an activated referral are paid once, and of no other.
THEOREM PaidExactlyOnce == Spec => []PaidOncePerActivation
<1>1. IndInv => PaidOncePerActivation
  BY DEF IndInv
<1> QED
  BY <1>1, Inductive, PTL

\* Nothing is granted before the setup was saved.
THEOREM NothingBeforeSetup == Spec => []PaidAfterSetup
<1>1. IndInv => PaidAfterSetup
  BY DEF IndInv
<1> QED
  BY <1>1, Inductive, PTL

\* The welcome is given at most once, and not on top of V1's.
THEOREM WelcomeIsGivenOnce == Spec => []WelcomedOnce
<1>1. IndInv => WelcomedOnce
  BY DEF IndInv
<1> QED
  BY <1>1, Inductive, PTL

-----------------------------------------------------------------------------
(* Action properties *)

\* The first attribution of a user is the only one, and an activation is final:
\* rows are inserted for users without one, and only the flip changes a state.
THEOREM AttributionStays == Spec => AttributionIsFinal
<1> DEFINE Kept(u) ==
       /\ by[u] # Nobody => by'[u] = by[u] /\ slot'[u] = slot[u]
       /\ state[u] = "activated" => state'[u] = "activated"
<1>1. ASSUME IndInv, Next PROVE \A u \in User : Kept(u)
  <2> USE DEF IndInv, TypeOK, RowIsWhole
  <2>1. CASE UNCHANGED <<by, slot, state>>
    BY <2>1
  <2>2. ASSUME NEW r \in Req, InsertSlot(r) \/ ClaimFails(r),
               InsertReferral(who[r], owner[r], try[r]), state[who[r]] = "none"
        PROVE  \A u \in User : Kept(u)
    BY <1>1, <2>2 DEF InsertReferral
  <2>3. ASSUME NEW r \in Req, Activate(r) \/ ActivateFails(r),
               ActivatePending(who[r])
        PROVE  \A u \in User : Kept(u)
    BY <1>1, <2>3 DEF Activate, ActivateFails, ActivatePending
  <2>4. \/ UNCHANGED <<by, slot, state>>
        \/ \E r \in Req :
              /\ InsertSlot(r) \/ ClaimFails(r)
              /\ InsertReferral(who[r], owner[r], try[r]) /\ state[who[r]] = "none"
        \/ \E r \in Req : (Activate(r) \/ ActivateFails(r)) /\ ActivatePending(who[r])
    BY <1>1 DEF Next, Claim, Complete, Upload, StartClaim, InsertSlot, Recheck,
                ClaimFails, StartComplete, Save, SaveFails, Load, LoadFails,
                V1Check, V1CheckFails, GrantSignup, GrantSignupFails,
                ReadReferral, ReadReferralFails, Activate, ActivateFails, Crash,
                tables, CanInsert
  <2> QED
    BY <2>1, <2>2, <2>3, <2>4
<1>2. IndInv /\ [Next]_vars => [\A u \in User : Kept(u)]_vars
  BY <1>1
<1> QED
  BY <1>2, Inductive, PTL DEF Spec, AttributionIsFinal

\* Nobody is told that a code is full while a slot is free, or that they have
\* been referred when they have not: a claim that is refused has met a taken
\* slot at every number, and no slot is ever given back.
THEOREM RefusalsHaveReasons == Spec => RefusalsAreTrue
<1> DEFINE Refused(r) ==
       /\ answer'[r] = "cap" => \A s \in Slot : ~SlotIsFree(owner[r], s)
       /\ answer'[r] = "already" => state[who[r]] # "none"
<1>1. ASSUME IndInv, Next, NEW r \in Req, answer[r] = "none" PROVE Refused(r)
  <2> USE <1>1 DEF IndInv, TypeOK
  <2>1. \/ answer'[r] \notin {"cap", "already"}
        \/ Recheck(r)
    BY DEF Next, Claim, Complete, Upload, StartClaim, InsertSlot, Recheck,
           ClaimFails, StartComplete, Save, SaveFails, Load, LoadFails, V1Check,
           V1CheckFails, GrantSignup, GrantSignupFails, ReadReferral,
           ReadReferralFails, Activate, ActivateFails, Crash, Goto, Return, Answer
  <2>2. CASE Recheck(r)
    <3>1. answer'[r] = "already" => state[who[r]] # "none"
      BY <2>2 DEF Recheck, Return, Answer
    <3>2. answer'[r] = "cap" => state[who[r]] = "none" /\ try[r] = MaxReferrals
      BY <2>2 DEF Recheck, Return, Answer
    <3>3. answer'[r] = "cap" => \A s \in Slot : ~SlotIsFree(owner[r], s)
      BY <2>2, <3>2, MaxReferralsAssumption DEF Recheck, SlotsBelowAreTaken, Slot
    <3> QED
      BY <3>1, <3>3
  <2> QED
    BY <2>1, <2>2
<1>2. IndInv /\ [Next]_vars
        => [\A r \in Req : answer[r] = "none" => Refused(r)]_vars
  BY <1>1
<1> QED
  BY <1>2, Inductive, PTL DEF Spec, RefusalsAreTrue
=============================================================================
