--------------------------- MODULE ContractsProofs ---------------------------
(***************************************************************************)
(* Proofs about Contracts, for any cadence, any number of weeks, requests  *)
(* and days in a week, and any set of calls that may fail.                 *)
(***************************************************************************)
EXTENDS Contracts, TLAPS, WellFoundedInduction, FiniteSetTheorems

-----------------------------------------------------------------------------
(* Days and weeks                                                          *)

LEMMA Smallest ==
    ASSUME NEW T \in SUBSET Nat, T # {}
    PROVE  \E x \in T : \A y \in T : x <= y
<1>1. PICK x \in T : \A y \in T : ~(<<y, x>> \in OpToRel(<, Nat))
  BY NatLessThanWellFounded, WFMin
<1>2. \A y \in T : ~(y < x)
  BY <1>1 DEF OpToRel
<1>3. \A y \in T : x <= y
  BY <1>2
<1> QED
  BY <1>3

LEMMA Largest ==
    ASSUME NEW n \in Nat, NEW T \in SUBSET (0 .. n), T # {}
    PROVE  \E x \in T : \A y \in T : y <= x
<1> DEFINE D == {n - y : y \in T}
<1>1. D \in SUBSET Nat
  OBVIOUS
<1>2. PICK t \in T : TRUE
  OBVIOUS
<1>3. D # {}
  BY <1>2
<1>4. PICK d \in D : \A e \in D : d <= e
  BY <1>1, <1>3, Smallest
<1>5. PICK x \in T : d = n - x
  BY <1>4
<1>6. \A y \in T : n - x <= n - y
  BY <1>4, <1>5
<1>7. \A y \in T : y <= x
  BY <1>6
<1> QED
  BY <1>7

\* The bounds of an instance are numbers.
LEMMA WeeksAreNumbers == Week \subseteq Nat /\ 0 \in Week /\ LastDay \in Nat
<1>1. PICK n \in Nat : Week = 0 .. n
  BY WeekAssumption
<1>2. n \in Week /\ \A v \in Week : v <= n
  BY <1>1
<1>3. (CHOOSE w \in Week : \A v \in Week : v <= w) \in Nat
  BY <1>1, <1>2
<1> QED
  BY <1>1, <1>3, WeekAssumption DEF LastDay

\* The week a Sunday closes is a number, before the first Sunday -1.
LEMMA ClosingWeekIsInt == ASSUME NEW day \in Nat PROVE ClosingWeek(day) \in Int
<1>1. day \div DaysPerWeek \in Int
  BY WeekAssumption
<1> QED
  BY <1>1 DEF ClosingWeek, WeekOf

\* The cadence a Sunday proposal continues is one.
LEMMA LatestCadenceIsCadence ==
    ASSUME NEW history \in [Week -> Contract]
    PROVE  LatestCadence(history) \in Cadence
<1>1. CASE Planned(history) = {}
  BY <1>1 DEF LatestCadence, Cadence
<1>2. CASE Planned(history) # {}
  <2>1. PICK n \in Nat : Week = 0 .. n
    BY WeekAssumption
  <2>2. Planned(history) \in SUBSET (0 .. n)
    BY <2>1 DEF Planned
  <2>3. \E w \in Planned(history) : \A v \in Planned(history) : v <= w
    BY <1>2, <2>2, Largest
  <2>4. Latest(history) \in Planned(history)
    BY <2>3 DEF Latest
  <2>5. Latest(history) \in Week
    BY <2>4 DEF Planned
  <2> QED
    BY <1>2, <2>5 DEF LatestCadence, Contract
<1> QED
  BY <1>1, <1>2

\* Sunday proposes, or says why it does not.
LEMMA WhyIsKnown ==
    ASSUME NEW history, NEW next
    PROVE  WhyNotPropose(history, next) \in WhyNot \union {"propose"}
BY DEF WhyNotPropose, WhyNot

-----------------------------------------------------------------------------
(* The rules keep contracts contracts                                      *)

LEMMA NothingIsAContract == NoContract \in Contract
BY DEF NoContract, Contract, Cadence

LEMMA SignedIsTyped ==
    ASSUME NEW c \in Contract, NEW accept \in SUBSET Kind
    PROVE  /\ Signed(c, accept) \in Contract
           /\ Signed(c, accept).state \in {"approved", "declined"}
           /\ Signed(c, accept).accepted \subseteq accept
BY DEF Signed, Contract

LEMMA DeclinedIsTyped ==
    ASSUME NEW c \in Contract
    PROVE  Declined(c) \in Contract /\ Declined(c).state = "declined"
BY DEF Declined, Contract

LEMMA ReleasedIsTyped ==
    ASSUME NEW c \in Contract
    PROVE  Released(c) \in Contract /\ Released(c).state = "proposed"
BY DEF Released, Contract

\* An adopted week has no posting day.
LEMMA AdoptedIsTyped ==
    ASSUME NEW c \in Contract
    PROVE  /\ Adopted(c) \in Contract
           /\ Adopted(c).state = "auto_adopted"
           /\ ScheduledDays(Adopted(c)) = {}
<1>1. Conservative(c.items) \in SUBSET Item
  BY DEF Conservative, Contract
<1>2. /\ Adopted(c).state = "auto_adopted"
      /\ Adopted(c).items = Conservative(c.items)
      /\ Adopted(c) \in Contract
  BY <1>1 DEF Adopted, Contract
<1>3. InForce(Adopted(c)) = Conservative(c.items)
  BY <1>2 DEF InForce
<1>4. Conservative(c.items) \intersect Day = {}
  BY DEF Conservative, KindOf
<1> QED
  BY <1>2, <1>3, <1>4 DEF ScheduledDays

LEMMA ProposalIsTyped ==
    ASSUME NEW items \in SUBSET Item, NEW cadence \in Cadence
    PROVE  /\ Proposal(items, cadence) \in Contract
           /\ Proposal(items, cadence).state = "proposed"
BY DEF Proposal, Contract

-----------------------------------------------------------------------------
(* The invariant                                                           *)

\* The inductive invariant holds at the start.
LEMMA InitIndInv == Init => IndInv
<1> SUFFICES ASSUME Init PROVE IndInv
  OBVIOUS
<1> USE WeeksAreNumbers, NothingIsAContract
<1>1. /\ today \in 0 .. LastDay /\ requests \in 0 .. MaxRequests
      /\ contract \in [Week -> Contract] /\ pending \in [Week -> Contract]
      /\ draft \in [Req -> [week : Week, seen : Contract, new : Contract]]
      /\ agreed \in [Week -> SUBSET SUBSET Kind]
  BY WeekAssumption DEF Init, NoHistory, NoDraft
<1>2. pass \in [step : {"idle", "review", "propose"}, week : Int, planned : BOOLEAN,
                why : WhyNot \union {"propose"}, cadence : Cadence]
  BY DEF Init, NoPass, Cadence
<1>3. review \in [Week -> BOOLEAN] /\ touched \in [Week -> BOOLEAN]
  BY Zenon DEF Init
<1>4. DraftsAreAsked /\ DraftsRespectDecisions
  BY DEF Init, DraftsAreAsked, DraftsRespectDecisions, NoDraft, NoContract, Drafting, Exists
<1>5. InForceWasAgreed
  BY DEF Init, InForceWasAgreed, NoHistory, NoContract
<1> QED
  BY <1>1, <1>2, <1>3, <1>4, <1>5 DEF IndInv, TypeOK

\* What the request handlers share: the draft is a contract nobody adopted, what
\* it signs was asked for, and of a decided week it is a release.
LEMMA DraftKeepsInv ==
    ASSUME IndInv, NEW r \in Req, NEW w \in Week, NEW c \in Contract, WillSave(r, w, c),
           agreed' \in [Week -> SUBSET SUBSET Kind],
           \A v \in Week : agreed[v] \subseteq agreed'[v],
           c.state # "auto_adopted",
           c.state = "approved" => \E a \in agreed'[w] : c.accepted \subseteq a,
           Decided(contract[w]) => CanRelease(contract[w]) /\ c = Released(contract[w])
    PROVE  IndInv'
<1> USE DEF IndInv
<1>1. /\ draft' = [draft EXCEPT ![r] = [week |-> w, seen |-> contract[w], new |-> c]]
      /\ UNCHANGED <<today, contract, review, pending, pass>>
      /\ requests' = requests + 1 /\ requests < MaxRequests
      /\ touched' = [touched EXCEPT ![w] = TRUE]
  BY DEF WillSave
<1>2. /\ draft' \in [Req -> [week : Week, seen : Contract, new : Contract]]
      /\ requests' \in 0 .. MaxRequests
  BY <1>1, WeekAssumption DEF TypeOK
<1>3. touched' \in [Week -> BOOLEAN]
  BY <1>1, Zenon DEF TypeOK
<1>4. TypeOK'
  BY <1>1, <1>2, <1>3 DEF TypeOK
<1>5. ASSUME NEW q \in Req
      PROVE  \/ q = r /\ draft'[q] = [week |-> w, seen |-> contract[w], new |-> c]
             \/ q # r /\ draft'[q] = draft[q]
  BY <1>1 DEF TypeOK
<1>6. DraftsAreAsked'
  BY <1>5 DEF DraftsAreAsked, TypeOK
<1>7. DraftsRespectDecisions'
  BY <1>5 DEF DraftsRespectDecisions, Drafting
<1>8. InForceWasAgreed'
  BY <1>1 DEF InForceWasAgreed, TypeOK, ScheduledDays, InForce
<1> QED
  BY <1>4, <1>6, <1>7, <1>8

\* Every step preserves it, one step of the proof per action.
LEMMA NextIndInv == IndInv /\ [Next]_vars => IndInv'
<1> SUFFICES ASSUME IndInv, [Next]_vars
             PROVE  IndInv'
  OBVIOUS
<1> USE DEF IndInv
<1>a. ASSUME UNCHANGED <<contract, draft, agreed>>, TypeOK' PROVE IndInv'
  BY <1>a DEF DraftsAreAsked, DraftsRespectDecisions, InForceWasAgreed, Drafting,
              ScheduledDays, InForce
<1>b. \A w \in Week : contract[w] \in Contract
  BY DEF TypeOK
<1>1. ASSUME NEW r \in Req, NEW w \in Week, NEW accept \in SUBSET Kind,
             Approve(r, w, accept)
      PROVE  IndInv'
  <2> DEFINE c == Signed(contract[w], accept)
  <2>1. /\ WillSave(r, w, c) /\ Open(contract[w])
        /\ agreed' = [agreed EXCEPT ![w] = @ \union {accept}]
    BY <1>1 DEF Approve
  <2>2. /\ agreed' \in [Week -> SUBSET SUBSET Kind]
        /\ \A v \in Week : agreed[v] \subseteq agreed'[v]
        /\ accept \in agreed'[w]
    BY <2>1 DEF TypeOK
  <2>3. c \in Contract /\ c.state \in {"approved", "declined"} /\ c.accepted \subseteq accept
    BY <1>b, SignedIsTyped
  <2>4. ~Decided(contract[w])
    BY <2>1 DEF Decided
  <2> HIDE DEF c
  <2> QED
    BY <2>1, <2>2, <2>3, <2>4, DraftKeepsInv
<1>2. ASSUME NEW r \in Req, NEW w \in Week, Decline(r, w) PROVE IndInv'
  <2> DEFINE c == Declined(contract[w])
  <2>1. WillSave(r, w, c) /\ Open(contract[w]) /\ agreed' = agreed
    BY <1>2 DEF Decline
  <2>2. c \in Contract /\ c.state = "declined"
    BY <1>b, DeclinedIsTyped
  <2>3. ~Decided(contract[w])
    BY <2>1 DEF Decided
  <2>4. agreed' \in [Week -> SUBSET SUBSET Kind]
    BY <2>1 DEF TypeOK
  <2> HIDE DEF c
  <2> QED
    BY <2>1, <2>2, <2>3, <2>4, DraftKeepsInv
<1>3. ASSUME NEW r \in Req, NEW w \in Week, Release(r, w) PROVE IndInv'
  <2> DEFINE c == Released(contract[w])
  <2>1. WillSave(r, w, c) /\ CanRelease(contract[w]) /\ agreed' = agreed
    BY <1>3 DEF Release
  <2>2. c \in Contract /\ c.state = "proposed"
    BY <1>b, ReleasedIsTyped
  <2>3. agreed' \in [Week -> SUBSET SUBSET Kind]
    BY <2>1 DEF TypeOK
  <2>4. CanRelease(contract[w]) /\ c = Released(contract[w])
    BY <2>1
  <2> HIDE DEF c
  <2> QED
    BY <2>1, <2>2, <2>3, <2>4, DraftKeepsInv
<1>4. ASSUME NEW r \in Req, Plan(r) PROVE IndInv'
  <2>1. /\ WeekOf(today) \in Week /\ ~Exists(contract[WeekOf(today)]) /\ agreed' = agreed
        /\ \E items \in SUBSET Item, cadence \in Cadence :
              WillSave(r, WeekOf(today), Proposal(items, cadence))
    BY <1>4 DEF Plan, RestOfWeek, ReEntryWeek, Cadence
  <2>2. PICK items \in SUBSET Item, cadence \in Cadence :
              WillSave(r, WeekOf(today), Proposal(items, cadence))
    BY <2>1
  <2>3. /\ Proposal(items, cadence) \in Contract
        /\ Proposal(items, cadence).state = "proposed"
    BY ProposalIsTyped
  <2>4. ~Decided(contract[WeekOf(today)])
    BY <2>1 DEF Decided
  <2>5. agreed' \in [Week -> SUBSET SUBSET Kind]
    BY <2>1 DEF TypeOK
  <2> QED
    BY <2>1, <2>2, <2>3, <2>4, <2>5, DraftKeepsInv
<1>5. ASSUME NEW r \in Req, Save(r) PROVE IndInv'
  <2>1. /\ contract' = [contract EXCEPT ![draft[r].week] = draft[r].new]
        /\ draft' = [draft EXCEPT ![r] = NoDraft] /\ agreed' = agreed
        /\ UNCHANGED <<today, review, pending, pass, requests, touched>>
    BY <1>5 DEF Save
  <2>2. NoDraft \in [week : Week, seen : Contract, new : Contract]
    BY WeeksAreNumbers, NothingIsAContract DEF NoDraft
  <2>3. TypeOK'
    BY <2>1, <2>2 DEF TypeOK
  <2>4. DraftsAreAsked' /\ DraftsRespectDecisions'
    BY <2>1 DEF DraftsAreAsked, DraftsRespectDecisions, Drafting, NoDraft, NoContract,
                Exists, TypeOK
  <2>5. ASSUME NEW w \in Week
        PROVE  \/ w = draft[r].week /\ contract'[w] = draft[r].new
               \/ contract'[w] = contract[w]
    BY <2>1 DEF TypeOK
  <2>6. InForceWasAgreed'
    BY <2>1, <2>5 DEF InForceWasAgreed, DraftsAreAsked, ScheduledDays, InForce
  <2> QED
    BY <2>3, <2>4, <2>6
<1>6. ASSUME NEW r \in Req, SaveFails(r) PROVE IndInv'
  <2>1. /\ draft' = [draft EXCEPT ![r] = NoDraft]
        /\ UNCHANGED <<today, contract, review, pending, pass, requests, agreed, touched>>
    BY <1>6 DEF SaveFails
  <2>2. NoDraft \in [week : Week, seen : Contract, new : Contract]
    BY WeeksAreNumbers, NothingIsAContract DEF NoDraft
  <2>3. TypeOK'
    BY <2>1, <2>2 DEF TypeOK
  <2>4. DraftsAreAsked' /\ DraftsRespectDecisions'
    BY <2>1 DEF DraftsAreAsked, DraftsRespectDecisions, Drafting, NoDraft, NoContract,
                Exists, TypeOK
  <2>5. InForceWasAgreed'
    BY <2>1 DEF InForceWasAgreed, ScheduledDays, InForce
  <2> QED
    BY <2>3, <2>4, <2>5
<1>7. ASSUME SweepSelect PROVE IndInv'
  <2>1. TypeOK'
    BY <1>7, NothingIsAContract DEF SweepSelect, TypeOK
  <2> QED
    BY <1>7, <1>a, <2>1 DEF SweepSelect
<1>8. ASSUME NEW w \in Week, SweepAdopt(w) PROVE IndInv'
  <2>1. /\ contract' = [contract EXCEPT ![w] = Adopted(pending[w])]
        /\ pending' = [pending EXCEPT ![w] = NoContract]
        /\ UNCHANGED <<today, review, draft, pass, requests, agreed, touched>>
    BY <1>8 DEF SweepAdopt
  <2>2. /\ Adopted(pending[w]) \in Contract /\ Adopted(pending[w]).state = "auto_adopted"
        /\ ScheduledDays(Adopted(pending[w])) = {}
    BY AdoptedIsTyped DEF TypeOK
  <2>3. TypeOK'
    BY <2>1, <2>2, NothingIsAContract DEF TypeOK
  <2>4. DraftsAreAsked' /\ DraftsRespectDecisions'
    BY <2>1 DEF DraftsAreAsked, DraftsRespectDecisions, Drafting
  <2>5. ASSUME NEW v \in Week
        PROVE  \/ contract'[v] = Adopted(pending[w])
               \/ contract'[v] = contract[v]
    BY <2>1 DEF TypeOK
  <2>6. InForceWasAgreed'
    BY <2>1, <2>2, <2>5 DEF InForceWasAgreed
  <2> QED
    BY <2>3, <2>4, <2>6
<1>9. ASSUME NEW w \in Week, SweepAdoptFails(w) PROVE IndInv'
  <2>1. TypeOK'
    BY <1>9, NothingIsAContract DEF SweepAdoptFails, TypeOK
  <2> QED
    BY <1>9, <1>a, <2>1 DEF SweepAdoptFails
<1>10. ASSUME PassStarts PROVE IndInv'
  <2> DEFINE week == ClosingWeek(today)
  <2>1. week \in Int
    BY ClosingWeekIsInt, WeeksAreNumbers DEF TypeOK
  <2>2. /\ LatestCadence(contract) \in Cadence
        /\ WhyNotPropose(contract, week + 1) \in WhyNot \union {"propose"}
    BY LatestCadenceIsCadence, WhyIsKnown DEF TypeOK
  <2>3. (week \in Week /\ Exists(contract[week])) \in BOOLEAN
    BY DEF Exists
  <2>4. pass' = [step |-> "review", week |-> week,
                 planned |-> week \in Week /\ Exists(contract[week]),
                 why |-> WhyNotPropose(contract, week + 1),
                 cadence |-> LatestCadence(contract)]
    BY <1>10 DEF PassStarts
  <2> HIDE DEF week
  <2>5. TypeOK'
    BY <1>10, <2>1, <2>2, <2>3, <2>4 DEF PassStarts, TypeOK
  <2> QED
    BY <1>10, <1>a, <2>5 DEF PassStarts
<1>11. ASSUME PassReviews PROVE IndInv'
  <2>1. review' \in [Week -> BOOLEAN]
    BY <1>11 DEF PassReviews, TypeOK
  <2>2. TypeOK'
    BY <1>11, <2>1 DEF PassReviews, TypeOK
  <2> QED
    BY <1>11, <1>a, <2>2 DEF PassReviews
<1>12. ASSUME PassReviewFails PROVE IndInv'
  <2>1. TypeOK'
    BY <1>12 DEF PassReviewFails, TypeOK
  <2> QED
    BY <1>12, <1>a, <2>1 DEF PassReviewFails
<1>13. ASSUME PassProposes PROVE IndInv'
  <2>1. NoPass \in [step : {"idle", "review", "propose"}, week : Int, planned : BOOLEAN,
                    why : WhyNot \union {"propose"}, cadence : Cadence]
    BY DEF NoPass, Cadence
  <2>2. /\ pass' = NoPass
        /\ UNCHANGED <<today, review, draft, pending, requests, agreed, touched>>
        /\ \/ contract' = contract
           \/ \E items \in SUBSET Item :
                 contract' = [contract EXCEPT ![pass.week + 1] = Proposal(items, pass.cadence)]
    BY <1>13 DEF PassProposes, FullWeek
  <2>3. CASE contract' = contract
    <3>1. TypeOK'
      BY <2>1, <2>2, <2>3 DEF TypeOK
    <3> QED
      BY <1>a, <2>2, <2>3, <3>1
  <2>4. ASSUME NEW items \in SUBSET Item,
               contract' = [contract EXCEPT ![pass.week + 1] = Proposal(items, pass.cadence)]
        PROVE  IndInv'
    <3>1. /\ Proposal(items, pass.cadence) \in Contract
          /\ Proposal(items, pass.cadence).state = "proposed"
      BY ProposalIsTyped DEF TypeOK
    <3>2. TypeOK'
      BY <2>1, <2>2, <2>4, <3>1 DEF TypeOK
    <3>3. DraftsAreAsked' /\ DraftsRespectDecisions'
      BY <2>2 DEF DraftsAreAsked, DraftsRespectDecisions, Drafting
    <3>4. ASSUME NEW v \in Week
          PROVE  \/ contract'[v] = Proposal(items, pass.cadence)
                 \/ contract'[v] = contract[v]
      BY <2>4 DEF TypeOK
    <3>5. InForceWasAgreed'
      BY <2>2, <3>1, <3>4 DEF InForceWasAgreed
    <3> QED
      BY <3>2, <3>3, <3>5
  <2> QED
    BY <2>2, <2>3, <2>4
<1>14. ASSUME PassProposeFails PROVE IndInv'
  <2>1. TypeOK'
    BY <1>14 DEF PassProposeFails, TypeOK, NoPass, Cadence
  <2> QED
    BY <1>14, <1>a, <2>1 DEF PassProposeFails
<1>15. ASSUME NextDay PROVE IndInv'
  <2>1. TypeOK'
    BY <1>15, WeeksAreNumbers DEF NextDay, TypeOK
  <2> QED
    BY <1>15, <1>a, <2>1 DEF NextDay
<1>16. CASE UNCHANGED vars
  <2>1. TypeOK'
    BY <1>16 DEF vars, TypeOK
  <2> QED
    BY <1>16, <1>a, <2>1 DEF vars
<1> QED
  BY <1>1, <1>2, <1>3, <1>4, <1>5, <1>6, <1>7, <1>8, <1>9, <1>10, <1>11, <1>12, <1>13,
     <1>14, <1>15, <1>16 DEF Next, Answer, Sweep, Sunday

\* The invariant is inductive, for every value of the constants.
THEOREM Inductive == Spec => []IndInv
BY InitIndInv, NextIndInv, PTL DEF Spec

-----------------------------------------------------------------------------
(* What follows                                                            *)

\* Every variable of the weeks keeps its type.
THEOREM TypeCorrect == Spec => []TypeOK
<1>1. IndInv => TypeOK
  BY DEF IndInv
<1> QED
  BY <1>1, Inductive, PTL

\* Whatever writes overlap, a week in force holds no more than the user asked to
\* sign, and no post when it was adopted unanswered.
THEOREM NothingInForceUnasked == Spec => []InForceWasAgreed
<1>1. IndInv => InForceWasAgreed
  BY DEF IndInv
<1> QED
  BY <1>1, Inductive, PTL

\* A decided week changes by a release or by a stale writer, never otherwise.
LEMMA StepKeepsAnswers ==
    ASSUME IndInv, [Next]_vars, NEW w \in Week,
           Decided(contract[w]), contract'[w] # contract[w]
    PROVE  \/ CanRelease(contract[w]) /\ contract'[w] = Released(contract[w])
           \/ \E r \in Req :
                 Drafting(r) /\ draft[r].week = w /\ draft[r].seen # contract[w]
           \/ Exists(pending[w])
           \/ pass.step = "propose" /\ pass.week + 1 = w /\ pass.why = "propose"
<1>1. ASSUME NEW r \in Req, Save(r)
      PROVE  \/ CanRelease(contract[w]) /\ contract'[w] = Released(contract[w])
             \/ Drafting(r) /\ draft[r].week = w /\ draft[r].seen # contract[w]
  <2>1. Drafting(r) /\ contract' = [contract EXCEPT ![draft[r].week] = draft[r].new]
    BY <1>1 DEF Save
  <2>2. draft[r].week = w /\ contract'[w] = draft[r].new
    BY <2>1 DEF IndInv, TypeOK
  <2>3. CASE draft[r].seen = contract[w]
    BY <2>1, <2>2, <2>3 DEF IndInv, DraftsRespectDecisions
  <2> QED
    BY <2>1, <2>2, <2>3
<1>2. ASSUME NEW v \in Week, SweepAdopt(v) PROVE Exists(pending[w])
  BY <1>2 DEF SweepAdopt, IndInv, TypeOK
<1>3. ASSUME PassProposes
      PROVE  pass.step = "propose" /\ pass.week + 1 = w /\ pass.why = "propose"
  BY <1>3 DEF PassProposes, IndInv, TypeOK
<1>4. CASE contract' = contract
  BY <1>4
<1>5. \/ \E r \in Req : Save(r)
      \/ \E v \in Week : SweepAdopt(v)
      \/ PassProposes
      \/ contract' = contract
  BY DEF Next, Answer, Sweep, Sunday, Approve, Decline, Release, Plan, WillSave, SaveFails,
         SweepSelect, SweepAdoptFails, PassStarts, PassReviews, PassReviewFails,
         PassProposeFails, NextDay, vars
<1> QED
  BY <1>1, <1>2, <1>3, <1>4, <1>5

\* An answer stands against everything but a release and a writer that had read
\* the week before the answer was stored.
THEOREM AnswersStandUnlessStale == Spec => AnswersStand
<1>1. IndInv /\ [Next]_vars =>
        [\A w \in Week :
          Decided(contract[w]) /\ contract'[w] # contract[w] =>
              \/ CanRelease(contract[w]) /\ contract'[w] = Released(contract[w])
              \/ \E r \in Req :
                    Drafting(r) /\ draft[r].week = w /\ draft[r].seen # contract[w]
              \/ Exists(pending[w])
              \/ pass.step = "propose" /\ pass.week + 1 = w /\ pass.why = "propose"]_vars
  BY StepKeepsAnswers
<1> QED
  BY <1>1, Inductive, PTL DEF Spec, AnswersStand
-----------------------------------------------------------------------------
(* Weeks pass                                                              *)

LEMMA FactorsCompare ==
    ASSUME NEW d \in Nat \ {0}, NEW a \in Int, NEW b \in Int, d * b < d * a
    PROVE  b < a
OBVIOUS

\* A day is in its week, as the division says.
LEMMA DayInWeek ==
    ASSUME NEW day \in Nat
    PROVE  /\ WeekOf(day) \in Int
           /\ day % DaysPerWeek \in 0 .. DaysPerWeek - 1
           /\ day = DaysPerWeek * WeekOf(day) + (day % DaysPerWeek)
<1>1. ASSUME NEW d \in Nat \ {0} PROVE day \div d \in Int
  OBVIOUS
<1>2. ASSUME NEW d \in Nat \ {0} PROVE day % d \in 0 .. d - 1
  OBVIOUS
<1>3. ASSUME NEW d \in Nat \ {0} PROVE day = d * (day \div d) + (day % d)
  OBVIOUS
<1> QED
  BY <1>1, <1>2, <1>3, WeekAssumption DEF WeekOf

\* A week begins on its first day.
LEMMA WeekBegins == ASSUME NEW w \in Nat PROVE WeekOf(w * DaysPerWeek) = w
<1> DEFINE day == w * DaysPerWeek
           v == WeekOf(day)
           r == day % DaysPerWeek
<1>1. DaysPerWeek \in Nat \ {0}
  BY WeekAssumption
<1>2. day \in Nat /\ day = DaysPerWeek * w
  BY <1>1
<1> HIDE DEF day
<1>3. v \in Int /\ r \in 0 .. DaysPerWeek - 1 /\ day = DaysPerWeek * v + r
  BY <1>2, DayInWeek
<1> HIDE DEF v, r
<1>4. DaysPerWeek * v + DaysPerWeek = DaysPerWeek * (v + 1)
  BY <1>1, <1>3
<1>5. DaysPerWeek * w < DaysPerWeek * (v + 1)
  BY <1>1, <1>2, <1>3, <1>4
<1>6. w < v + 1
  BY <1>1, <1>3, <1>5, FactorsCompare
<1>7. DaysPerWeek * w + DaysPerWeek = DaysPerWeek * (w + 1)
  BY <1>1
<1>8. DaysPerWeek * v < DaysPerWeek * (w + 1)
  BY <1>1, <1>2, <1>3, <1>7
<1>9. v < w + 1
  BY <1>1, <1>3, <1>8, FactorsCompare
<1>10. v = w
  BY <1>3, <1>6, <1>9
<1> QED
  BY <1>10 DEF day, v

\* The week the latest Sunday closed never goes back.
LEMMA ClosingWeekGrows ==
    ASSUME NEW day \in Nat PROVE ClosingWeek(day) <= ClosingWeek(day + 1)
<1> DEFINE q == WeekOf(day)
           r == day % DaysPerWeek
           p == WeekOf(day + 1)
           s == (day + 1) % DaysPerWeek
<1>1. DaysPerWeek \in Nat \ {0} /\ day + 1 \in Nat
  BY WeekAssumption
<1>2. q \in Int /\ r \in 0 .. DaysPerWeek - 1 /\ day = DaysPerWeek * q + r
  BY DayInWeek
<1>3. p \in Int /\ s \in 0 .. DaysPerWeek - 1 /\ day + 1 = DaysPerWeek * p + s
  BY <1>1, DayInWeek
<1>4. ClosingWeek(day) = IF r = DaysPerWeek - 1 THEN q ELSE q - 1
  BY DEF ClosingWeek, IsSunday
<1>5. p - 1 <= ClosingWeek(day + 1)
  BY <1>3 DEF ClosingWeek
<1> HIDE DEF q, r, p, s
<1>6. /\ DaysPerWeek * p + DaysPerWeek = DaysPerWeek * (p + 1)
      /\ DaysPerWeek * q + DaysPerWeek = DaysPerWeek * (q + 1)
  BY <1>1, <1>2, <1>3
<1>7. ClosingWeek(day + 1) \in Int
  BY <1>1, ClosingWeekIsInt
<1>8. CASE r = DaysPerWeek - 1
  <2>1. DaysPerWeek * (q + 1) < DaysPerWeek * (p + 1)
    BY <1>1, <1>2, <1>3, <1>6, <1>8
  <2>2. q + 1 < p + 1
    BY <1>1, <1>2, <1>3, <2>1, FactorsCompare
  <2> QED
    BY <1>2, <1>3, <1>4, <1>5, <1>7, <1>8, <2>2
<1>9. CASE r # DaysPerWeek - 1
  <2>1. DaysPerWeek * q < DaysPerWeek * (p + 1)
    BY <1>1, <1>2, <1>3, <1>6
  <2>2. q < p + 1
    BY <1>1, <1>2, <1>3, <2>1, FactorsCompare
  <2> QED
    BY <1>2, <1>3, <1>4, <1>5, <1>7, <1>9, <2>2
<1> QED
  BY <1>8, <1>9

-----------------------------------------------------------------------------
(* A quiet user is left alone                                              *)

LEMMA WeeksAreFinite ==
    ASSUME NEW T \in SUBSET Week
    PROVE  IsFiniteSet(T) /\ Cardinality(T) \in Nat
<1>1. PICK n \in Nat : Week = 0 .. n
  BY WeekAssumption
<1>2. IsFiniteSet(0 .. n)
  BY FS_Interval
<1>3. IsFiniteSet(T)
  BY <1>1, <1>2, FS_Subset
<1> QED
  BY <1>3, FS_CardinalityType

LEMMA TwoAreTwo == ASSUME NEW u, NEW v, u # v PROVE Cardinality({u, v}) = 2
<1>1. IsFiniteSet({u}) /\ Cardinality({u}) = 1
  BY FS_Singleton
<1>2. Cardinality({u} \union {v}) = IF v \in {u} THEN 1 ELSE 1 + 1
  BY <1>1, FS_AddElement
<1>3. {u} \union {v} = {u, v}
  OBVIOUS
<1> QED
  BY <1>2, <1>3

\* Two quiet weeks at the end of the planned ones count as two lapses once Monday
\* has swept, so Sunday stands by: when it proposes, there are no such weeks.
LEMMA ProposesAfterAnAnswer ==
    ASSUME IndInv, QuietIsUnanswered, NEW week \in Int, week + 1 \in Week,
           WhyNotPropose(contract, week + 1) = "propose",
           NEW u \in Week, NEW v \in Week, u < v, v <= week, Quiet(u), Quiet(v)
    PROVE  \E x \in Planned(contract) : u <= x /\ x <= week /\ x \notin {u, v}
<1> SUFFICES ASSUME \A x \in Planned(contract) : u <= x /\ x <= week => x \in {u, v}
             PROVE  FALSE
  OBVIOUS
<1> DEFINE next == week + 1
           swept == AfterSweep(contract, next * DaysPerWeek)
           past == {w \in Planned(swept) : w <= next}
           answered == {w \in past : swept[w].state # "auto_adopted"}
           lapsed == {w \in past : \A a \in answered : a < w}
<1>1. next \in Nat /\ next \in Week /\ Week \subseteq Nat
  BY WeekAssumption
<1>2. WeekOf(next * DaysPerWeek) = next
  BY <1>1, WeekBegins
<1>3. contract \in [Week -> Contract]
  BY DEF IndInv, TypeOK
<1>4. ~Exists(contract[next]) /\ ConsecutiveLapses(swept, next) < StandingByAt
  <2>1. /\ WhyNotPropose(contract, next) = "propose"
        /\ WhyNotPropose(contract, next) =
              CASE Exists(contract[next]) -> "already planned"
                [] ConsecutiveLapses(swept, next) >= StandingByAt -> "standing by"
                [] /\ LatestCadence(contract) = "fortnightly"
                   /\ Planned(contract) # {} /\ next - Latest(contract) < 2
                   -> "fortnightly off-week"
                [] OTHER -> "propose"
    BY DEF WhyNotPropose
  <2> HIDE DEF swept, next
  <2>2. ~Exists(contract[next]) /\ ~(ConsecutiveLapses(swept, next) >= StandingByAt)
    BY <2>1
  <2>3. ConsecutiveLapses(swept, next) = Cardinality(lapsed)
    BY DEF ConsecutiveLapses
  <2>4. DOMAIN swept = Week
    BY <1>3 DEF swept, AfterSweep
  <2>5. lapsed \in SUBSET Week
    BY <2>4 DEF Planned
  <2> HIDE DEF lapsed
  <2>6. Cardinality(lapsed) \in Nat
    BY <2>5, WeeksAreFinite
  <2> QED
    BY <2>2, <2>3, <2>6 DEF StandingByAt
<1>5. ASSUME NEW w \in Week
      PROVE  swept[w] = IF Open(contract[w]) /\ w + 1 <= next
                        THEN Adopted(contract[w]) ELSE contract[w]
  BY <1>2, <1>3 DEF AfterSweep, Sweepable
<1>6. DOMAIN swept = Week
  BY <1>3 DEF AfterSweep
<1> HIDE DEF swept, next
<1>7. ASSUME NEW w \in Week PROVE Exists(swept[w]) <=> Exists(contract[w])
  <2>1. Exists(Adopted(contract[w]))
    BY <1>3, AdoptedIsTyped DEF Exists
  <2> QED
    BY <1>5, <2>1 DEF Open, Exists
<1>8. Planned(swept) = Planned(contract)
  BY <1>3, <1>6, <1>7 DEF Planned
<1>9. ASSUME NEW w \in {u, v} PROVE w \in past /\ swept[w].state = "auto_adopted"
  <2>1. w \in Week /\ w + 1 <= next /\ Quiet(w)
    BY <1>1 DEF next
  <2>2. contract[w].state \in {"proposed", "auto_adopted"} /\ w \in Planned(contract)
    BY <1>3, <2>1 DEF QuietIsUnanswered, Quiet, Planned
  <2>3. Adopted(contract[w]).state = "auto_adopted"
    BY <1>3, <2>1, AdoptedIsTyped
  <2> QED
    BY <1>1, <1>5, <1>8, <2>1, <2>2, <2>3 DEF Open
<1>10. ASSUME NEW a \in answered PROVE a < u
  <2>1. a \in Planned(contract) /\ a \in Week /\ a <= next /\ swept[a].state # "auto_adopted"
    BY <1>3, <1>8 DEF Planned
  <2>2. a # next
    BY <1>4, <2>1 DEF Planned
  <2>3. a <= week
    BY <1>1, <2>1, <2>2 DEF next
  <2>4. a \notin {u, v}
    BY <1>9, <2>1
  <2> QED
    BY <1>1, <2>1, <2>3, <2>4
<1>11. u \in past /\ v \in past /\ past \subseteq Week
  BY <1>6, <1>9 DEF Planned
<1>12. \A a \in answered : a \in Week
  BY <1>11
<1>13. ConsecutiveLapses(swept, next) = Cardinality(lapsed)
  BY DEF ConsecutiveLapses
<1> HIDE DEF past, answered
<1>14. ASSUME NEW a \in answered PROVE a < u /\ a < v
  <2>1. a < u
    BY <1>10
  <2>2. a \in Nat /\ u \in Nat /\ v \in Nat
    BY <1>1, <1>12
  <2> QED
    BY <2>1, <2>2
<1>15. u \in lapsed /\ v \in lapsed
  BY <1>11, <1>14, Zenon
<1>16. lapsed \subseteq past /\ lapsed \in SUBSET Week /\ u # v
  <2>1. lapsed \subseteq past
    OBVIOUS
  <2>2. u # v
    BY <1>1
  <2> HIDE DEF lapsed
  <2> QED
    BY <1>11, <2>1, <2>2
<1> HIDE DEF lapsed
<1>17. IsFiniteSet(lapsed) /\ Cardinality(lapsed) \in Nat
  BY <1>16, WeeksAreFinite
<1>18. Cardinality({u, v}) = 2
  BY <1>16, TwoAreTwo
<1>19. {u, v} \in SUBSET lapsed
  BY <1>15
<1>20. Cardinality({u, v}) <= Cardinality(lapsed)
  BY <1>17, <1>19, FS_Subset
<1> QED
  BY <1>4, <1>13, <1>17, <1>18, <1>20 DEF StandingByAt

\* A step that makes no week quiet and takes no row away cannot bring quiet weeks
\* together.
LEMMA NoNewQuietWeek ==
    ASSUME IndInv, QuietInv,
           contract' \in [Week -> Contract],
           \A w \in Week : Exists(contract[w]) => Exists(contract'[w]),
           \A w \in Week : Quiet(w)' => Quiet(w),
           pass'.step # "idle" =>
              pass.step # "idle" /\ pass'.why = pass.why /\ pass'.week = pass.week
    PROVE  PassLeavesAlone' /\ NeverThreeQuiet'
<1>1. contract \in [Week -> Contract]
  BY DEF IndInv, TypeOK
<1>2. Planned(contract) \subseteq Planned(contract')
  BY <1>1 DEF Planned
<1>3. PassLeavesAlone'
  BY <1>2 DEF QuietInv, PassLeavesAlone
<1>4. NeverThreeQuiet'
  BY <1>2 DEF QuietInv, NeverThreeQuiet
<1> QED
  BY <1>3, <1>4

\* The steps that change neither a row nor what the user touched.
LEMMA SameWeeks ==
    ASSUME IndInv, IndInv', QuietInv, UNCHANGED <<contract, touched>>,
           WritersTouch', SundaysGoOn',
           pass'.step # "idle" =>
              pass.step # "idle" /\ pass'.why = pass.why /\ pass'.week = pass.week
    PROVE  QuietInv'
<1>1. \A w \in Week : Quiet(w)' <=> Quiet(w)
  BY DEF Quiet
<1>2. QuietIsUnanswered'
  BY <1>1 DEF QuietInv, QuietIsUnanswered
<1>3. contract' \in [Week -> Contract]
  BY DEF IndInv, TypeOK
<1>4. PassLeavesAlone' /\ NeverThreeQuiet'
  BY <1>1, <1>3, NoNewQuietWeek
<1> QED
  BY <1>2, <1>4 DEF QuietInv

\* What a request touched is not quiet, and its draft is of a week it touched.
LEMMA RequestsTouch ==
    ASSUME IndInv, IndInv', QuietInv, NEW r \in Req, NEW w \in Week, NEW c \in Contract,
           WillSave(r, w, c)
    PROVE  QuietInv'
<1>1. /\ draft' = [draft EXCEPT ![r] = [week |-> w, seen |-> contract[w], new |-> c]]
      /\ touched' = [touched EXCEPT ![w] = TRUE]
      /\ UNCHANGED <<today, contract, review, pending, pass>>
  BY DEF WillSave
<1>2. touched \in [Week -> BOOLEAN] /\ contract' \in [Week -> Contract]
      /\ draft \in [Req -> [week : Week, seen : Contract, new : Contract]]
  BY DEF IndInv, TypeOK
<1>3. \A v \in Week : touched[v] => touched'[v]
  BY <1>1, <1>2, Zenon
<1>4. touched'[w]
  BY <1>1, <1>2, Zenon
<1>5. \A v \in Week : Quiet(v)' => Quiet(v)
  BY <1>1, <1>3 DEF Quiet
<1>6. WritersTouch'
  BY <1>1, <1>2, <1>3, <1>4 DEF QuietInv, WritersTouch, Drafting
<1>7. QuietIsUnanswered' /\ SundaysGoOn'
  BY <1>1, <1>5 DEF QuietInv, QuietIsUnanswered, SundaysGoOn
<1>8. PassLeavesAlone' /\ NeverThreeQuiet'
  BY <1>1, <1>2, <1>5, NoNewQuietWeek
<1> QED
  BY <1>6, <1>7, <1>8 DEF QuietInv

\* The weeks a user left alone at the start are none.
LEMMA InitQuietInv == Init => QuietInv
<1> SUFFICES ASSUME Init PROVE QuietInv
  OBVIOUS
<1>1. \A w \in Week : ~Exists(contract[w]) /\ ~Exists(pending[w])
  BY DEF Init, NoHistory, NoContract, Exists
<1>2. \A r \in Req : ~Drafting(r)
  BY DEF Init, NoDraft, NoContract, Drafting, Exists
<1>3. pass.step = "idle"
  BY DEF Init, NoPass
<1> QED
  BY <1>1, <1>2, <1>3 DEF QuietInv, WritersTouch, QuietIsUnanswered, SundaysGoOn,
                          PassLeavesAlone, NeverThreeQuiet, Quiet

\* Every step preserves it.
LEMMA NextQuietInv == IndInv /\ IndInv' /\ QuietInv /\ [Next]_vars => QuietInv'
<1> SUFFICES ASSUME IndInv, IndInv', QuietInv, [Next]_vars
             PROVE  QuietInv'
  OBVIOUS
<1>a. /\ contract \in [Week -> Contract] /\ contract' \in [Week -> Contract]
      /\ pending \in [Week -> Contract]
      /\ draft \in [Req -> [week : Week, seen : Contract, new : Contract]]
      /\ Week \subseteq Nat /\ today \in Nat
  BY WeeksAreNumbers DEF IndInv, TypeOK
<1>b. WritersTouch /\ SundaysGoOn
  BY DEF QuietInv
<1>1. ASSUME NEW r \in Req, NEW w \in Week, NEW accept \in SUBSET Kind,
             Approve(r, w, accept)
      PROVE  QuietInv'
  <2>1. WillSave(r, w, Signed(contract[w], accept))
    BY <1>1 DEF Approve
  <2>2. Signed(contract[w], accept) \in Contract
    BY <1>a, SignedIsTyped
  <2> QED
    BY <2>1, <2>2, RequestsTouch
<1>2. ASSUME NEW r \in Req, NEW w \in Week, Decline(r, w) PROVE QuietInv'
  <2>1. WillSave(r, w, Declined(contract[w]))
    BY <1>2 DEF Decline
  <2>2. Declined(contract[w]) \in Contract
    BY <1>a, DeclinedIsTyped
  <2> QED
    BY <2>1, <2>2, RequestsTouch
<1>3. ASSUME NEW r \in Req, NEW w \in Week, Release(r, w) PROVE QuietInv'
  <2>1. WillSave(r, w, Released(contract[w]))
    BY <1>3 DEF Release
  <2>2. Released(contract[w]) \in Contract
    BY <1>a, ReleasedIsTyped
  <2> QED
    BY <2>1, <2>2, RequestsTouch
<1>4. ASSUME NEW r \in Req, Plan(r) PROVE QuietInv'
  <2>1. /\ WeekOf(today) \in Week
        /\ \E items \in SUBSET Item, cadence \in Cadence :
              WillSave(r, WeekOf(today), Proposal(items, cadence))
    BY <1>4 DEF Plan, RestOfWeek, ReEntryWeek, Cadence
  <2>2. PICK items \in SUBSET Item, cadence \in Cadence :
              WillSave(r, WeekOf(today), Proposal(items, cadence))
    BY <2>1
  <2>3. Proposal(items, cadence) \in Contract
    BY ProposalIsTyped
  <2> QED
    BY <2>1, <2>2, <2>3, RequestsTouch
<1>5. ASSUME NEW r \in Req, Save(r) PROVE QuietInv'
  <2>1. /\ contract' = [contract EXCEPT ![draft[r].week] = draft[r].new]
        /\ draft' = [draft EXCEPT ![r] = NoDraft] /\ Drafting(r)
        /\ UNCHANGED <<today, review, pending, pass, requests, touched>>
    BY <1>5 DEF Save
  <2>2. draft[r].week \in Week /\ touched[draft[r].week] /\ Exists(draft[r].new)
    BY <1>a, <1>b, <2>1 DEF WritersTouch, Drafting
  <2>3. ASSUME NEW w \in Week
        PROVE  \/ w = draft[r].week /\ contract'[w] = draft[r].new
               \/ w # draft[r].week /\ contract'[w] = contract[w]
    BY <1>a, <2>1
  <2>4. \A w \in Week : Exists(contract[w]) => Exists(contract'[w])
    BY <2>2, <2>3
  <2>5. \A w \in Week : Quiet(w)' => Quiet(w) /\ contract'[w] = contract[w]
    BY <2>1, <2>2, <2>3 DEF Quiet
  <2>6. WritersTouch'
    BY <1>a, <1>b, <2>1, <2>4 DEF WritersTouch, Drafting, NoDraft, NoContract, Exists
  <2>7. QuietIsUnanswered' /\ SundaysGoOn'
    BY <2>1, <2>5 DEF QuietInv, QuietIsUnanswered, SundaysGoOn
  <2>8. PassLeavesAlone' /\ NeverThreeQuiet'
    BY <1>a, <2>1, <2>4, <2>5, NoNewQuietWeek
  <2> QED
    BY <2>6, <2>7, <2>8 DEF QuietInv
<1>6. ASSUME NEW r \in Req, SaveFails(r) PROVE QuietInv'
  <2>1. /\ draft' = [draft EXCEPT ![r] = NoDraft]
        /\ UNCHANGED <<today, contract, review, pending, pass, requests, agreed, touched>>
    BY <1>6 DEF SaveFails
  <2>2. WritersTouch'
    BY <1>a, <1>b, <2>1 DEF WritersTouch, Drafting, NoDraft, NoContract, Exists
  <2>3. SundaysGoOn'
    BY <1>b, <2>1 DEF SundaysGoOn, Quiet
  <2> QED
    BY <2>1, <2>2, <2>3, SameWeeks
<1>7. ASSUME SweepSelect PROVE QuietInv'
  <2>1. UNCHANGED <<today, contract, review, draft, pass, requests, agreed, touched>>
    BY <1>7 DEF SweepSelect
  <2>2. WritersTouch'
    BY <1>7, <1>b, <2>1 DEF SweepSelect, WritersTouch, Drafting, NoContract, Sweepable,
                            Open, Exists
  <2>3. SundaysGoOn'
    BY <1>b, <2>1 DEF SundaysGoOn, Quiet
  <2> QED
    BY <2>1, <2>2, <2>3, SameWeeks
<1>8. ASSUME NEW w \in Week, SweepAdopt(w) PROVE QuietInv'
  <2>1. /\ contract' = [contract EXCEPT ![w] = Adopted(pending[w])]
        /\ pending' = [pending EXCEPT ![w] = NoContract] /\ Exists(pending[w])
        /\ UNCHANGED <<today, review, draft, pass, requests, agreed, touched>>
    BY <1>8 DEF SweepAdopt
  <2>2. Adopted(pending[w]).state = "auto_adopted" /\ Exists(Adopted(pending[w]))
    BY <1>a, AdoptedIsTyped DEF Exists
  <2>3. Exists(contract[w])
    BY <1>b, <2>1 DEF WritersTouch
  <2>4. ASSUME NEW v \in Week
        PROVE  \/ v = w /\ contract'[v] = Adopted(pending[w])
               \/ v # w /\ contract'[v] = contract[v]
    BY <1>a, <2>1
  <2>5. \A v \in Week : Exists(contract[v]) <=> Exists(contract'[v])
    BY <2>2, <2>3, <2>4
  <2>6. \A v \in Week : Quiet(v)' => Quiet(v)
    BY <2>1, <2>5 DEF Quiet
  <2>7. WritersTouch'
    BY <1>a, <1>b, <2>1, <2>5 DEF WritersTouch, Drafting, NoContract, Exists
  <2>8. QuietIsUnanswered'
    BY <2>2, <2>4, <2>6 DEF QuietInv, QuietIsUnanswered
  <2>9. SundaysGoOn'
    BY <1>b, <2>1, <2>6 DEF SundaysGoOn
  <2>10. PassLeavesAlone' /\ NeverThreeQuiet'
    BY <1>a, <2>1, <2>5, <2>6, NoNewQuietWeek
  <2> QED
    BY <2>7, <2>8, <2>9, <2>10 DEF QuietInv
<1>9. ASSUME NEW w \in Week, SweepAdoptFails(w) PROVE QuietInv'
  <2>1. /\ pending' = [pending EXCEPT ![w] = NoContract]
        /\ UNCHANGED <<today, contract, review, draft, pass, requests, agreed, touched>>
    BY <1>9 DEF SweepAdoptFails
  <2>2. WritersTouch'
    BY <1>a, <1>b, <2>1 DEF WritersTouch, Drafting, NoContract, Exists
  <2>3. SundaysGoOn'
    BY <1>b, <2>1 DEF SundaysGoOn, Quiet
  <2> QED
    BY <2>1, <2>2, <2>3, SameWeeks
<1>10. ASSUME PassStarts PROVE QuietInv'
  <2> DEFINE week == ClosingWeek(today)
  <2>1. /\ UNCHANGED <<today, contract, review, draft, pending, requests, agreed, touched>>
        /\ week + 1 \in Week /\ pass'.week = week
        /\ pass'.why = WhyNotPropose(contract, week + 1)
    BY <1>10 DEF PassStarts
  <2>2. week \in Int
    BY <1>a, ClosingWeekIsInt
  <2> HIDE DEF week
  <2>3. \A w \in Week : Quiet(w)' <=> Quiet(w)
    BY <2>1 DEF Quiet
  <2>4. WritersTouch' /\ QuietIsUnanswered' /\ NeverThreeQuiet'
    BY <2>1, <2>3 DEF QuietInv, WritersTouch, QuietIsUnanswered, NeverThreeQuiet, Drafting
  <2>5. SundaysGoOn'
    BY <1>b, <2>1, <2>3 DEF SundaysGoOn, week
  <2>6. QuietIsUnanswered
    BY DEF QuietInv
  <2>7. ASSUME pass'.why = "propose", NEW u \in Week, NEW v \in Week,
               u < v, v <= week, Quiet(u), Quiet(v)
        PROVE  \E x \in Planned(contract) : u <= x /\ x <= week /\ x \notin {u, v}
    BY <2>1, <2>2, <2>6, <2>7, ProposesAfterAnAnswer
  <2>8. PassLeavesAlone'
    BY <2>1, <2>3, <2>7 DEF PassLeavesAlone
  <2> QED
    BY <2>4, <2>5, <2>8 DEF QuietInv
<1>11. ASSUME PassReviews \/ PassReviewFails PROVE QuietInv'
  <2>1. /\ UNCHANGED <<today, contract, draft, pending, requests, agreed, touched>>
        /\ pass' = [pass EXCEPT !.step = "propose"] /\ pass.step = "review"
    BY <1>11 DEF PassReviews, PassReviewFails
  <2>2. pass'.week = pass.week /\ pass'.why = pass.why
    BY <2>1 DEF IndInv, TypeOK
  <2>3. WritersTouch' /\ SundaysGoOn'
    BY <1>b, <2>1, <2>2 DEF WritersTouch, Drafting, SundaysGoOn, Quiet
  <2> QED
    BY <2>1, <2>2, <2>3, SameWeeks
<1>12. ASSUME PassProposes, contract' # contract PROVE QuietInv'
  <2> DEFINE next == pass.week + 1
  <2>1. /\ pass.step = "propose" /\ pass.why = "propose" /\ pass' = NoPass
        /\ UNCHANGED <<today, review, draft, pending, requests, agreed, touched>>
        /\ \E items \in SUBSET Item :
              contract' = [contract EXCEPT ![next] = Proposal(items, pass.cadence)]
    BY <1>12 DEF PassProposes, FullWeek
  <2>2. PICK items \in SUBSET Item :
              contract' = [contract EXCEPT ![next] = Proposal(items, pass.cadence)]
    BY <2>1
  <2>3. pass.week \in Int /\ pass.week = ClosingWeek(today) /\ next \in Week
    BY <1>b, <2>1 DEF SundaysGoOn, IndInv, TypeOK
  <2>4. /\ Proposal(items, pass.cadence).state = "proposed"
        /\ Exists(Proposal(items, pass.cadence))
    BY DEF Proposal, Exists
  <2>5. pass'.step = "idle"
    BY <2>1 DEF NoPass
  <2>6. ASSUME NEW v \in Week
        PROVE  \/ v = next /\ contract'[v] = Proposal(items, pass.cadence)
               \/ v # next /\ contract'[v] = contract[v]
    BY <1>a, <2>2
  <2> HIDE DEF next
  <2>7. \A v \in Week : Exists(contract[v]) => Exists(contract'[v])
    BY <2>4, <2>6
  <2>8. \A v \in Week : Quiet(v)' => v = next \/ Quiet(v)
    BY <2>1, <2>6 DEF Quiet
  <2>9. WritersTouch'
    BY <1>b, <2>1, <2>7 DEF WritersTouch, Drafting
  <2>10. QuietIsUnanswered'
    BY <2>1, <2>4, <2>6, <2>8 DEF QuietInv, QuietIsUnanswered
  <2>11. SundaysGoOn'
    BY <1>a, <1>b, <2>1, <2>3, <2>5, <2>8 DEF SundaysGoOn, next
  <2>12. PassLeavesAlone'
    BY <2>5 DEF PassLeavesAlone
  <2>13. NeverThreeQuiet'
    <3> SUFFICES ASSUME NEW u \in Week, NEW v \in Week, NEW w \in Week, u < v, v < w,
                        Quiet(u)', Quiet(v)', Quiet(w)',
                        \A x \in Planned(contract') : u <= x /\ x <= w => x \in {u, v, w}
                 PROVE  FALSE
      BY DEF NeverThreeQuiet
    <3>1. \A x \in Planned(contract) : x \in Week /\ (u <= x /\ x <= w => x \in {u, v, w})
      BY <1>a, <2>7 DEF Planned
    <3>2. CASE next \notin {u, v, w}
      <4>1. Quiet(u) /\ Quiet(v) /\ Quiet(w)
        BY <2>8, <3>2
      <4> QED
        BY <3>1, <4>1 DEF QuietInv, NeverThreeQuiet
    <3>3. CASE next \in {u, v, w}
      <4>1. w <= next
        BY <1>b, <2>3, <2>8 DEF SundaysGoOn, next
      <4>2. w = next /\ v <= pass.week
        BY <1>a, <2>3, <3>3, <4>1 DEF next
      <4>3. Quiet(u) /\ Quiet(v)
        BY <1>a, <2>8, <4>2
      <4>4. ASSUME NEW x \in Planned(contract), u <= x, x <= pass.week
            PROVE  x \in {u, v}
        <5>1. x \in Week
          BY <3>1
        <5>2. x \in Int /\ w \in Int
          BY <1>a, <5>1
        <5>3. x < w
          BY <2>3, <4>2, <4>4, <5>2 DEF next
        <5>4. x \in {u, v, w}
          BY <3>1, <4>4, <5>2, <5>3
        <5> QED
          BY <5>2, <5>3, <5>4
      <4> QED
        BY <2>1, <4>2, <4>3, <4>4 DEF QuietInv, PassLeavesAlone
    <3> QED
      BY <3>2, <3>3
  <2> QED
    BY <2>9, <2>10, <2>11, <2>12, <2>13 DEF QuietInv
<1>13. ASSUME PassProposes \/ PassProposeFails, contract' = contract PROVE QuietInv'
  <2>1. /\ UNCHANGED <<today, contract, review, draft, pending, requests, agreed, touched>>
        /\ pass' = NoPass
    BY <1>13 DEF PassProposes, PassProposeFails
  <2>2. pass'.step = "idle"
    BY <2>1 DEF NoPass
  <2>3. WritersTouch' /\ SundaysGoOn'
    BY <1>b, <2>1, <2>2 DEF WritersTouch, Drafting, SundaysGoOn, Quiet
  <2> QED
    BY <2>1, <2>2, <2>3, SameWeeks
<1>14. ASSUME NextDay PROVE QuietInv'
  <2>1. /\ UNCHANGED <<contract, review, draft, pending, pass, requests, agreed, touched>>
        /\ today' = today + 1 /\ pass.step = "idle"
    BY <1>14 DEF NextDay
  <2>2. /\ ClosingWeek(today) <= ClosingWeek(today + 1)
        /\ ClosingWeek(today) \in Int /\ ClosingWeek(today + 1) \in Int
    BY <1>a, ClosingWeekGrows, ClosingWeekIsInt
  <2>3. ClosingWeek(today)' = ClosingWeek(today + 1)
    BY <2>1 DEF ClosingWeek, IsSunday, WeekOf
  <2>4. \A w \in Week : Quiet(w)' => w <= ClosingWeek(today) + 1
    BY <1>b, <2>1 DEF SundaysGoOn, Quiet
  <2>5. \A w \in Week : Quiet(w)' => w <= ClosingWeek(today)' + 1
    BY <1>a, <2>2, <2>3, <2>4
  <2>6. SundaysGoOn'
    BY <2>1, <2>5 DEF SundaysGoOn
  <2>7. WritersTouch'
    BY <1>b, <2>1 DEF WritersTouch, Drafting
  <2> QED
    BY <2>1, <2>6, <2>7, SameWeeks
<1>15. CASE UNCHANGED vars
  <2>1. UNCHANGED <<today, contract, draft, pending, pass, touched>>
    BY <1>15 DEF vars
  <2>2. WritersTouch' /\ SundaysGoOn'
    BY <1>b, <2>1 DEF WritersTouch, Drafting, SundaysGoOn, Quiet
  <2> QED
    BY <2>1, <2>2, SameWeeks
<1>16. PassProposeFails => contract' = contract
  BY DEF PassProposeFails
<1> QED
  BY <1>1, <1>2, <1>3, <1>4, <1>5, <1>6, <1>7, <1>8, <1>9, <1>10, <1>11, <1>12, <1>13,
     <1>14, <1>15, <1>16 DEF Next, Answer, Sweep, Sunday

\* Whatever the user, the sweep and the Sunday pass interleave, Carigma never lets
\* three planned weeks in a row ride that the user neither planned nor answered.
THEOREM QuietIsLeftAlone == Spec => []QuietUserIsLeftAlone
<1>1. IndInv /\ QuietInv => QuietUserIsLeftAlone
  <2> SUFFICES ASSUME IndInv, QuietInv,
                      NEW u \in Planned(contract), NEW v \in Planned(contract),
                      NEW w \in Planned(contract), u < v, v < w,
                      \A x \in Planned(contract) : u <= x /\ x <= w => x \in {u, v, w},
                      \A x \in {u, v, w} : ~touched[x]
               PROVE  FALSE
    BY DEF QuietUserIsLeftAlone
  <2>1. \A x \in Planned(contract) : x \in Week /\ Exists(contract[x])
    BY DEF IndInv, TypeOK, Planned
  <2>2. Quiet(u) /\ Quiet(v) /\ Quiet(w)
    BY <2>1 DEF Quiet
  <2> QED
    BY <2>1, <2>2 DEF QuietInv, NeverThreeQuiet
<1>2. Spec => []QuietInv
  BY InitQuietInv, NextQuietInv, Inductive, PTL DEF Spec
<1> QED
  BY <1>1, <1>2, Inductive, PTL
=============================================================================
