---------------------------- MODULE AgentRunProofs ----------------------------
(***************************************************************************)
(* Proofs about AgentRun, for any number of requests under a key, any      *)
(* agents and any set of calls that may fail.                              *)
(***************************************************************************)
EXTENDS AgentRun, TLAPS

\* The inductive invariant holds at the start.
LEMMA InitIndInv == Init => IndInv
BY DEF Init, IndInv, TypeOK, OneRow, RecordedHasRow, WorkIsRecorded,
       StepsInOrder, MoneyFollowsWork, HasKey, Outcome, Terminal, RowStatus,
       Step, Answer, Bit

\* Every step preserves it, one step of the proof per action.
LEMMA NextIndInv == IndInv /\ [Next]_vars => IndInv'
<1> SUFFICES ASSUME IndInv, [Next]_vars
             PROVE  IndInv'
  OBVIOUS
<1> USE ModeAssumption
    DEF IndInv, TypeOK, OneRow, RecordedHasRow, WorkIsRecorded,
        StepsInOrder, MoneyFollowsWork, HasKey, Outcome, Terminal, RowStatus,
        Step, Answer, Bit, KeyIsFree
<1>0. \A r \in Req : mode[r] # "background" => mode[r] = "open"
  OBVIOUS
<1>1. ASSUME NEW r \in Req, Lookup(r) PROVE IndInv'
  <2>1. CASE KeyIsFree /\ Goto(r, "gate")
    BY <1>1, <2>1 DEF Lookup, Goto
  <2>2. ASSUME NEW h \in Req, HasKey(h), Replay(r, h) PROVE IndInv'
    BY <1>1, <2>2 DEF Lookup, Replay
  <2>3. CASE Return(r, "conflict")
    BY <1>1, <2>3 DEF Lookup, Return
  <2> QED
    BY <1>1, <2>1, <2>2, <2>3 DEF Lookup
<1>2. ASSUME NEW r \in Req, LookupFails(r) PROVE IndInv'
  BY <1>2 DEF LookupFails, Goto
<1>3. ASSUME NEW r \in Req, Gate(r) PROVE IndInv'
  <2>1. CASE Goto(r, "insert")
    BY <1>3, <2>1 DEF Gate, Goto
  <2>2. CASE Return(r, "refused")
    BY <1>3, <2>2 DEF Gate, Return
  <2> QED
    BY <1>3, <2>1, <2>2 DEF Gate
<1>4. ASSUME NEW r \in Req, Insert(r) PROVE IndInv'
  <2>1. CASE ~KeyIsFree
    <3>1. /\ pc[r] = "insert"
          /\ pc' = [pc EXCEPT ![r] = "holder"]
          /\ UNCHANGED <<agent, mode, outcome, receipt, row, rowCharged, recorded>>
          /\ UNCHANGED <<debited, answer, source>>
      BY <1>4, <2>1 DEF Insert, Goto
    <3>2. TypeOK'
      BY <3>1
    <3>3. OneRow' /\ RecordedHasRow'
      BY <3>1
    <3>4. WorkIsRecorded'
      BY <3>1
    <3>5. StepsInOrder' /\ MoneyFollowsWork'
      BY <3>1
    <3> QED
      BY <3>2, <3>3, <3>4, <3>5
  <2>2. CASE KeyIsFree /\ mode[r] = "background"
    <3>1. /\ pc[r] = "insert" /\ KeyIsFree
          /\ pc' = [pc EXCEPT ![r] = "work"]
          /\ answer' = [answer EXCEPT ![r] = "accepted"]
          /\ row' = [row EXCEPT ![r] = "running"]
          /\ recorded' = [recorded EXCEPT ![r] = TRUE]
          /\ UNCHANGED <<agent, mode, outcome, receipt, rowCharged>>
          /\ UNCHANGED <<debited, source>>
      BY <1>4, <2>2 DEF Insert, Started
    <3>2. TypeOK'
      BY <3>1
    <3>3. OneRow' /\ RecordedHasRow'
      BY <3>1
    <3>4. WorkIsRecorded'
      BY <3>1
    <3>5. StepsInOrder' /\ MoneyFollowsWork'
      BY <3>1
    <3> QED
      BY <3>2, <3>3, <3>4, <3>5
  <2>3. CASE KeyIsFree /\ mode[r] # "background"
    <3>1. /\ pc[r] = "insert" /\ KeyIsFree
          /\ pc' = [pc EXCEPT ![r] = "work"]
          /\ row' = [row EXCEPT ![r] = "running"]
          /\ recorded' = [recorded EXCEPT ![r] = TRUE]
          /\ UNCHANGED <<agent, mode, outcome, receipt, rowCharged>>
          /\ UNCHANGED <<debited, answer, source>>
      BY <1>4, <2>3 DEF Insert, Started, Goto
    <3>2. TypeOK'
      BY <3>1
    <3>3. OneRow' /\ RecordedHasRow'
      BY <3>1
    <3>4. WorkIsRecorded'
      BY <3>1
    <3>5. StepsInOrder' /\ MoneyFollowsWork'
      BY <3>1
    <3> QED
      BY <3>2, <3>3, <3>4, <3>5
  <2> QED
    BY <2>1, <2>2, <2>3
<1>5. ASSUME NEW r \in Req, InsertFails(r) PROVE IndInv'
  <2>1. CASE mode[r] = "background" /\ UNCHANGED row
    BY <1>5, <2>1 DEF InsertFails, NotStored, Return
  <2>2. CASE mode[r] = "background" /\ ~UNCHANGED row
    <3>1. /\ pc[r] = "insert" /\ KeyIsFree
          /\ pc' = [pc EXCEPT ![r] = "done"]
          /\ answer' = [answer EXCEPT ![r] = "not_started"]
          /\ row' = [row EXCEPT ![r] = "running"]
          /\ UNCHANGED <<agent, mode, outcome, receipt, rowCharged, recorded>>
          /\ UNCHANGED <<debited, source>>
      BY <1>5, <2>2 DEF InsertFails, NotStored, Return
    <3>2. TypeOK'
      BY <3>1
    <3>3. OneRow' /\ RecordedHasRow'
      BY <3>1
    <3>4. WorkIsRecorded'
      BY <3>1
    <3>5. StepsInOrder' /\ MoneyFollowsWork'
      BY <3>1
    <3> QED
      BY <3>2, <3>3, <3>4, <3>5
  <2>3. CASE mode[r] # "background" /\ UNCHANGED row
    <3>1. /\ mode[r] = "open" /\ pc[r] = "insert"
          /\ pc' = [pc EXCEPT ![r] = "work"]
          /\ UNCHANGED <<agent, mode, outcome, receipt, row, rowCharged, recorded>>
          /\ UNCHANGED <<debited, answer, source>>
      BY <1>0, <1>5, <2>3 DEF InsertFails, NotStored, Goto
    <3>2. TypeOK'
      BY <3>1
    <3>3. OneRow' /\ RecordedHasRow'
      BY <3>1
    <3>4. WorkIsRecorded'
      BY <3>1
    <3>5. StepsInOrder' /\ MoneyFollowsWork'
      BY <3>1
    <3> QED
      BY <3>2, <3>3, <3>4, <3>5
  <2>4. CASE mode[r] # "background" /\ ~UNCHANGED row
    <3>1. /\ mode[r] = "open" /\ pc[r] = "insert" /\ KeyIsFree
          /\ pc' = [pc EXCEPT ![r] = "work"]
          /\ row' = [row EXCEPT ![r] = "running"]
          /\ UNCHANGED <<agent, mode, outcome, receipt, rowCharged, recorded>>
          /\ UNCHANGED <<debited, answer, source>>
      BY <1>0, <1>5, <2>4 DEF InsertFails, NotStored, Goto
    <3>2. TypeOK'
      BY <3>1
    <3>3. OneRow' /\ RecordedHasRow'
      BY <3>1
    <3>4. WorkIsRecorded'
      BY <3>1
    <3>5. StepsInOrder' /\ MoneyFollowsWork'
      BY <3>1
    <3> QED
      BY <3>2, <3>3, <3>4, <3>5
  <2> QED
    BY <2>1, <2>2, <2>3, <2>4
<1>6. ASSUME NEW r \in Req, Holder(r) PROVE IndInv'
  BY <1>6 DEF Holder, Replay
<1>7. ASSUME NEW r \in Req, HolderFails(r) PROVE IndInv'
  <2>1. CASE mode[r] = "background"
    BY <1>7, <2>1 DEF HolderFails, NotStored, Return
  <2>2. CASE mode[r] # "background"
    <3>1. /\ mode[r] = "open" /\ pc[r] = "holder"
          /\ pc' = [pc EXCEPT ![r] = "work"]
          /\ UNCHANGED <<agent, mode, outcome, receipt, row, rowCharged, recorded>>
          /\ UNCHANGED <<debited, answer, source>>
      BY <1>0, <1>7, <2>2 DEF HolderFails, NotStored, Goto
    <3>2. TypeOK'
      BY <3>1
    <3>3. OneRow' /\ RecordedHasRow'
      BY <3>1
    <3>4. WorkIsRecorded'
      BY <3>1
    <3>5. StepsInOrder' /\ MoneyFollowsWork'
      BY <3>1
    <3> QED
      BY <3>2, <3>3, <3>4, <3>5
  <2> QED
    BY <2>1, <2>2
<1>8. ASSUME NEW r \in Req, Report(r) PROVE IndInv'
  <2>1. CASE UNCHANGED <<row, rowCharged>>
    BY <1>8, <2>1 DEF Report
  <2>2. CASE /\ CanUpsert(r)
             /\ row' = [row EXCEPT ![r] = "running"]
             /\ rowCharged' = [rowCharged EXCEPT ![r] = 0]
    BY <1>8, <2>2 DEF Report, CanUpsert
  <2> QED
    BY <1>8, <2>1, <2>2 DEF Report, Save
<1>9. ASSUME NEW r \in Req, Work(r) PROVE IndInv'
  BY <1>9 DEF Work, Goto
<1>10. ASSUME NEW r \in Req, Charge(r) PROVE IndInv'
  BY <1>10 DEF Charge, Goto
<1>11. ASSUME NEW r \in Req, ChargeFails(r) PROVE IndInv'
  BY <1>11 DEF ChargeFails, Goto
<1>12. ASSUME NEW r \in Req, Finish(r) PROVE IndInv'
  <2>1. /\ pc' = [pc EXCEPT ![r] = "done"]
        /\ UNCHANGED source
        /\ \/ mode[r] = "open" /\ answer' = [answer EXCEPT ![r] = "settled"]
           \/ mode[r] # "open" /\ UNCHANGED answer
    BY <1>12 DEF Finish, Goto, Return
  <2>2. CASE UNCHANGED <<row, rowCharged>>
    <3>1. CASE UNCHANGED answer
      BY <1>12, <2>1, <2>2, <3>1 DEF Finish
    <3>2. CASE answer' = [answer EXCEPT ![r] = "settled"]
      BY <1>12, <2>1, <2>2, <3>2 DEF Finish
    <3> QED
      BY <2>1, <3>1, <3>2
  <2>3. CASE /\ CanUpsert(r)
             /\ row' = [row EXCEPT ![r] = outcome[r]]
             /\ rowCharged' = [rowCharged EXCEPT ![r] = receipt[r]]
    <3>1. CASE UNCHANGED answer
      BY <1>12, <2>1, <2>3, <3>1 DEF Finish, CanUpsert
    <3>2. CASE answer' = [answer EXCEPT ![r] = "settled"]
      BY <1>12, <2>1, <2>3, <3>2 DEF Finish, CanUpsert
    <3> QED
      BY <2>1, <3>1, <3>2
  <2> QED
    BY <1>12, <2>2, <2>3 DEF Finish, Save
<1>13. ASSUME NEW r \in Req, Crash(r) PROVE IndInv'
  BY <1>13 DEF Crash, Goto
<1>14. CASE UNCHANGED vars
  BY <1>14 DEF vars
<1> QED
  BY <1>1, <1>2, <1>3, <1>4, <1>5, <1>6, <1>7, <1>8, <1>9, <1>10, <1>11,
     <1>12, <1>13, <1>14
     DEF Next, Request, Settle

\* Every reachable state satisfies the inductive invariant.
THEOREM Inductive == Spec => []IndInv
<1>1. Init => IndInv
  BY InitIndInv
<1>2. IndInv /\ [Next]_vars => IndInv'
  BY NextIndInv
<1> QED
  BY <1>1, <1>2, PTL DEF Spec

\* Every variable keeps its type.
THEOREM TypeCorrect == Spec => []TypeOK
<1>1. IndInv => TypeOK
  BY DEF IndInv
<1> QED
  BY <1>1, Inductive, PTL

\* Whatever fails, only one run recorded under a key can be charged: the index
\* lets one run have a row, and a recorded run has one.
THEOREM RecordedChargedOnce == Spec => []RecordedRunsChargeOnce
<1>1. IndInv => RecordedRunsChargeOnce
  BY DEF IndInv, OneRow, RecordedHasRow, RecordedRunsChargeOnce
<1> QED
  BY <1>1, Inductive, PTL

\* Runs answered with an id and executed in the background are charged once per
\* key whatever fails: none of them works without a recorded row.
THEOREM BackgroundChargedOnce ==
    ASSUME Mode = {"background"}
    PROVE  Spec => []OneChargePerKey
<1>1. IndInv => OneChargePerKey
  BY DEF IndInv, TypeOK, OneRow, RecordedHasRow, WorkIsRecorded, OneChargePerKey
<1> QED
  BY <1>1, Inductive, PTL

\* A run that failed, was cancelled or came back empty is never charged for.
THEOREM ResultsOnlyAreCharged == Spec => []OnlyResultsAreCharged
<1>1. IndInv => OnlyResultsAreCharged
  BY DEF IndInv, TypeOK, MoneyFollowsWork, OnlyResultsAreCharged, RowStatus,
         Terminal
<1> QED
  BY <1>1, Inductive, PTL

\* A charge on the row was made on the balance.
THEOREM RowChargesAreReal == Spec => []RowChargeIsReal
<1>1. IndInv => RowChargeIsReal
  BY DEF IndInv, MoneyFollowsWork, RowChargeIsReal
<1> QED
  BY <1>1, Inductive, PTL

\* A background run whose id was handed out can be found in the table.
THEOREM AcceptedArePollable == Spec => []AcceptedIsPollable
<1>1. IndInv => AcceptedIsPollable
  BY DEF IndInv, RecordedHasRow, MoneyFollowsWork, HasKey, AcceptedIsPollable
<1> QED
  BY <1>1, Inductive, PTL

\* No step deletes a row: SupabaseRunStore only inserts and updates.
LEMMA RowsStay ==
    ASSUME IndInv, [Next]_vars, NEW h \in Req, HasKey(h)
    PROVE  HasKey(h)'
<1> USE DEF IndInv, TypeOK, HasKey, RowStatus, Terminal, Outcome
<1>1. ASSUME NEW r \in Req, Request(r) PROVE row'[h] # "absent"
  <2>1. CASE Lookup(r) \/ LookupFails(r) \/ Gate(r) \/ Holder(r) \/ HolderFails(r)
    BY <2>1 DEF Lookup, LookupFails, Gate, Holder, HolderFails
  <2>2. CASE Insert(r) \/ InsertFails(r)
    BY <2>2 DEF Insert, InsertFails
  <2> QED
    BY <1>1, <2>1, <2>2 DEF Request
<1>2. ASSUME NEW r \in Req, Report(r) \/ Settle(r) PROVE row'[h] # "absent"
  <2>1. CASE Report(r)
    BY <2>1 DEF Report, Save
  <2>2. CASE Work(r) \/ Charge(r) \/ ChargeFails(r)
    BY <2>2 DEF Work, Charge, ChargeFails
  <2>3. CASE Finish(r)
    <3>1. outcome[r] # "absent"
      OBVIOUS
    <3> QED
      BY <2>3, <3>1 DEF Finish, Save
  <2> QED
    BY <1>2, <2>1, <2>2, <2>3 DEF Settle
<1>3. ASSUME NEW r \in Req, Crash(r) PROVE row'[h] # "absent"
  BY <1>3 DEF Crash
<1>4. CASE UNCHANGED vars
  BY <1>4 DEF vars
<1> QED
  BY <1>1, <1>2, <1>3, <1>4 DEF Next

\* A request is answered by a replay only from a row.
LEMMA ReplaysKeepRows ==
    ASSUME IndInv, ReplaysHaveRows, [Next]_vars
    PROVE  ReplaysHaveRows'
<1> DEFINE Replayed(a) == a \in {"replay_running", "replay_ran"}
<1>1. \A q \in Req : Replayed(answer'[q]) =>
        \/ answer'[q] = answer[q] /\ source'[q] = source[q]
        \/ source'[q] \in Req /\ HasKey(source'[q])
  <2> USE DEF IndInv, TypeOK
  <2>1. ASSUME NEW r \in Req, NEW h \in Req, HasKey(h), Replay(r, h) PROVE <1>1!:
    BY <2>1 DEF Replay
  <2>2. ASSUME NEW r \in Req, NEW step, Goto(r, step) PROVE <1>1!:
    BY <2>2 DEF Goto
  <2>3. ASSUME NEW r \in Req, NEW a, a \notin {"replay_running", "replay_ran"}, Return(r, a)
        PROVE <1>1!:
    BY <2>3 DEF Return
  <2>4. ASSUME NEW r \in Req, NotStored(r) \/ Started(r) PROVE <1>1!:
    BY <2>2, <2>3, <2>4 DEF NotStored, Started
  <2>5. ASSUME NEW r \in Req, Lookup(r) \/ LookupFails(r) \/ Gate(r) PROVE <1>1!:
    BY <2>1, <2>2, <2>3, <2>5 DEF Lookup, LookupFails, Gate
  <2>6. ASSUME NEW r \in Req, Insert(r) \/ InsertFails(r) PROVE <1>1!:
    BY <2>2, <2>4, <2>6 DEF Insert, InsertFails
  <2>7. ASSUME NEW r \in Req, Holder(r) \/ HolderFails(r) PROVE <1>1!:
    BY <2>1, <2>4, <2>7 DEF Holder, HolderFails
  <2>8. ASSUME NEW r \in Req, Report(r) \/ Settle(r) PROVE <1>1!:
    BY <2>2, <2>3, <2>8 DEF Report, Settle, Work, Charge, ChargeFails, Finish
  <2>9. ASSUME NEW r \in Req, Crash(r) PROVE <1>1!:
    BY <2>2, <2>9 DEF Crash
  <2>10. CASE UNCHANGED vars
    BY <2>10 DEF vars
  <2> QED
    BY <2>5, <2>6, <2>7, <2>8, <2>9, <2>10 DEF Next, Request
<1>2. \A q \in Req : source[q] \in Req
  BY DEF IndInv, TypeOK
<1>3. \A h \in Req : HasKey(h) => HasKey(h)'
  BY RowsStay
<1> QED
  BY <1>1, <1>2, <1>3 DEF ReplaysHaveRows, HasKey

\* A retry is shown the run its key was charged for: a charged, recorded run
\* has the row, there is one row per key, and a replay comes from a row.
THEOREM ReplayIsTheChargedRun == Spec => []ReplayShowsTheCharge
<1>1. Init => ReplaysHaveRows
  BY DEF Init, ReplaysHaveRows
<1>2. IndInv /\ ReplaysHaveRows /\ [Next]_vars => ReplaysHaveRows'
  BY ReplaysKeepRows
<1>3. IndInv /\ ReplaysHaveRows => ReplayShowsTheCharge
  BY DEF IndInv, TypeOK, OneRow, RecordedHasRow, ReplaysHaveRows, ReplayShowsTheCharge
<1> QED
  BY <1>1, <1>2, <1>3, Inductive, PTL DEF Spec
=============================================================================
