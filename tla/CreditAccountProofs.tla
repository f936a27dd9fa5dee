------------------------- MODULE CreditAccountProofs -------------------------
(***************************************************************************)
(* Proofs about CreditAccount, for any number of requests, any amounts and *)
(* any set of calls that may fail.                                         *)
(***************************************************************************)
EXTENDS CreditAccount, TLAPS

\* The inductive invariant holds at the start.
LEMMA InitIndInv == Init => IndInv
<1> SUFFICES ASSUME Init PROVE IndInv
  OBVIOUS
<1>1. welcomed \in BOOLEAN /\ activated \in BOOLEAN
  BY Zenon DEF Init
<1>2. pc \in [Req -> Step] /\ read \in [Req -> Nat] /\ delta \in [Req -> Int]
  BY DEF Init, Step
<1>3. /\ balance \in Nat /\ issued \in Nat /\ charged \in Nat /\ removed \in Nat
      /\ clamped \in Nat /\ HeldWithinIssued /\ overtaken \subseteq Req /\ misread \subseteq Req
  BY DEF Init, HeldWithinIssued
<1>4. ReadsAreCovered /\ ReadsAreFresh /\ Conserved
  BY DEF Init, ReadsAreCovered, ReadsAreFresh, Conserved, Writing
<1> QED
  BY <1>1, <1>2, <1>3, <1>4 DEF IndInv, TypeOK

\* Every step preserves it, one step of the proof per action.
LEMMA NextIndInv == IndInv /\ [Next]_vars => IndInv'
<1> SUFFICES ASSUME IndInv, [Next]_vars
             PROVE  IndInv'
  OBVIOUS
<1> USE AmountsAssumption
    DEF IndInv, TypeOK, HeldWithinIssued, ReadsAreCovered, ReadsAreFresh, Conserved, Writing, Step
<1>1. ASSUME NEW r \in Req, CheckAffordable(r) PROVE IndInv'
  BY <1>1 DEF CheckAffordable, Goto
<1>2. ASSUME NEW r \in Req, Work(r) PROVE IndInv'
  BY <1>2 DEF Work, Goto
<1>3. ASSUME NEW r \in Req, ReadToCharge(r) PROVE IndInv'
  BY <1>3 DEF ReadToCharge, ReadBalance, Goto
<1>4. ASSUME NEW r \in Req, ReadToChargeFails(r) PROVE IndInv'
  BY <1>4 DEF ReadToChargeFails, Goto
<1>5. ASSUME NEW r \in Req, Debit(r) PROVE IndInv'
  BY <1>5 DEF Debit, Write, SetBalance, Target, Finish, Goto
<1>6. ASSUME NEW r \in Req, DebitFails(r) PROVE IndInv'
  BY <1>6 DEF DebitFails, WriteOrNot, Write, SetBalance, Target, Finish, Goto
<1>7. ASSUME NEW r \in Req, NEW n \in Amounts, ReadToGrant(r, n) PROVE IndInv'
  BY <1>7 DEF ReadToGrant, ReadBalance, Goto
<1>8. ASSUME NEW r \in Req, Credit(r) PROVE IndInv'
  BY <1>8 DEF Credit, Write, SetBalance, Target, Finish, Goto
<1>9. ASSUME NEW r \in Req, CreditFails(r) PROVE IndInv'
  BY <1>9 DEF CreditFails, WriteOrNot, Write, SetBalance, Target, Finish, Goto
<1>10. ASSUME NEW r \in Req, NEW d \in Deltas, ReadToAdjust(r, d) PROVE IndInv'
  BY <1>10 DEF ReadToAdjust, CanAdjust, ReadBalance, Goto
<1>11. ASSUME NEW r \in Req, NEW d \in Deltas, ReadToAdjustBlind(r, d) PROVE IndInv'
  BY <1>11 DEF ReadToAdjustBlind, CanAdjust, Goto
<1>12. ASSUME NEW r \in Req, Adjust(r) PROVE IndInv'
  BY <1>12 DEF Adjust, Adjusted, Write, SetBalance, Target, Finish, Goto
<1>13. ASSUME NEW r \in Req, AdjustFails(r) PROVE IndInv'
  <2>1. CASE Write(r) /\ Adjusted(r)
    BY <1>13, <2>1 DEF AdjustFails, Adjusted, Write, SetBalance, Target, Finish, Goto
  <2>2. CASE UNCHANGED <<balance, overtaken, issued, removed, clamped>>
    BY <1>13, <2>2 DEF AdjustFails, Finish, Goto
  <2> QED
    BY <1>13, <2>1, <2>2 DEF AdjustFails, WriteOrNot
<1>14. ASSUME NEW r \in Req, GrantSignup(r) PROVE IndInv'
  BY <1>14 DEF GrantSignup, SetBalance
<1>15. ASSUME NEW r \in Req, ActivateReferral(r) PROVE IndInv'
  BY <1>15 DEF ActivateReferral, SetBalance
<1>16. CASE UNCHANGED vars
  BY <1>16 DEF vars
<1> QED
  BY <1>1, <1>2, <1>3, <1>4, <1>5, <1>6, <1>7, <1>8, <1>9, <1>10, <1>11,
     <1>12, <1>13, <1>14, <1>15, <1>16
     DEF Next, Run, Grant, Admin, Once

\* Every reachable state satisfies the inductive invariant.
THEOREM Inductive == Spec => []IndInv
<1>1. Init => IndInv
  BY InitIndInv
<1>2. IndInv /\ [Next]_vars => IndInv'
  BY NextIndInv
<1> QED
  BY <1>1, <1>2, PTL DEF Spec

\* Every variable keeps its type.
THEOREM TypeCorrect == Spec => []TypeOK
<1>1. IndInv => TypeOK
  BY DEF IndInv
<1> QED
  BY <1>1, Inductive, PTL

\* Whatever reads and writes of the balance overlap or fail, the user never holds
\* more than was ever issued, and the balance is never negative.  (Of what was
\* charged it says nothing: a debit that is written over gives its credits back.)
THEOREM HoldsWithinIssued == Spec => []HeldWithinIssued
<1>1. IndInv => HeldWithinIssued
  BY DEF IndInv
<1> QED
  BY <1>1, Inductive, PTL

\* There are two ways to lose credits or to get them back: while no request has
\* written over a balance that had moved since it read it, and no admin has gone on
\* from a failed read, what was issued is in the balance, was charged, or was removed.
THEOREM BooksBalance == Spec => []Conserved
<1>1. IndInv => Conserved
  BY DEF IndInv
<1> QED
  BY <1>1, Inductive, PTL
=============================================================================
