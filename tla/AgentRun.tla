------------------------------- MODULE AgentRun -------------------------------
(***************************************************************************)
(* An agent run from request to settlement: the routes that spend credits  *)
(* (routes/score, posts, jobs, prep), their guards, services/runs.begin    *)
(* and .execute, and SupabaseRunStore.                                     *)
(*                                                                         *)
(* The requests of an instance all carry the same Idempotency-Key for the  *)
(* same user: a double tap, a retry, a second device.  Keys do not         *)
(* interact, so one is modelled.  Every request is used once and starts at *)
(* most one run, so a run is named by its request.  A request is of one    *)
(* agent (posts, score, ...), and either holds the connection open until   *)
(* the run settles or is answered at once and runs in the background.      *)
(*                                                                         *)
(* The unique index of agent_runs on (user_id, idempotency_key) lets at    *)
(* most one of these runs have a row.                                      *)
(***************************************************************************)
EXTENDS Naturals

CONSTANTS
    Req,        \* the requests under one Idempotency-Key
    Agent,      \* the agents they may be for
    Mode,       \* how they may be held, a subset of {"open", "background"}
    Failing     \* the calls that may fail, a subset of Call

Call == {"lookup", "insert", "holder", "save", "charge", "crash"}

ASSUME ModeAssumption == Mode \subseteq {"open", "background"}
ASSUME FailingAssumption == Failing \subseteq Call

VARIABLES
    agent,      \* agent[r]: the agent request r is for
    mode,       \* mode[r]: "open" or "background"
    pc,         \* pc[r]: where request r, or the run it started, is
    outcome,    \* outcome[r]: what the work of run r produced, "none" before
    receipt,    \* receipt[r]: whether run r believes it charged
    row,        \* row[r]: status of the agent_runs row of run r, or "absent"
    rowCharged, \* rowCharged[r]: whether credits_charged of that row is set
    recorded,   \* recorded[r]: run r was inserted before its work began
    debited,    \* debited[r]: whether the balance was lowered for run r
    answer,     \* answer[r]: what request r was answered
    source      \* source[r]: the run whose row answered r in a replay

vars == <<agent, mode, pc, outcome, receipt, row, rowCharged, recorded,
          debited, answer, source>>

-----------------------------------------------------------------------------
(* Types *)

Outcome == {"none", "succeeded", "empty", "failed", "cancelled"}

Terminal == {"succeeded", "empty", "failed", "cancelled"}

RowStatus == {"absent", "running"} \union Terminal

Step == {"new", "gate", "insert", "holder", "work", "charge", "finish", "done"}

\* "replay_running" and "replay_ran" are the two notes of replay_payload.
Answer == {"none", "replay_running", "replay_ran", "conflict", "refused",
           "not_started", "accepted", "settled"}

Bit == {0, 1}

TypeOK ==
    /\ agent \in [Req -> Agent]
    /\ mode \in [Req -> Mode]
    /\ pc \in [Req -> Step]
    /\ outcome \in [Req -> Outcome]
    /\ receipt \in [Req -> Bit]
    /\ row \in [Req -> RowStatus]
    /\ rowCharged \in [Req -> Bit]
    /\ recorded \in [Req -> BOOLEAN]
    /\ debited \in [Req -> Bit]
    /\ answer \in [Req -> Answer]
    /\ source \in [Req -> Req]

Init ==
    /\ agent \in [Req -> Agent]
    /\ mode \in [Req -> Mode]
    /\ pc = [r \in Req |-> "new"]
    /\ outcome = [r \in Req |-> "none"]
    /\ receipt = [r \in Req |-> 0]
    /\ row = [r \in Req |-> "absent"]
    /\ rowCharged = [r \in Req |-> 0]
    /\ recorded = [r \in Req |-> FALSE]
    /\ debited = [r \in Req |-> 0]
    /\ answer = [r \in Req |-> "none"]
    /\ source = [r \in Req |-> r]

-----------------------------------------------------------------------------
(* Helpers *)

MayFail(call) == call \in Failing

\* The run whose row holds the key, if there is one.
HasKey(h) == row[h] # "absent"
KeyIsFree == \A h \in Req : ~HasKey(h)

Goto(r, step) ==
    /\ pc' = [pc EXCEPT ![r] = step]
    /\ UNCHANGED <<answer, source>>

Return(r, a) ==
    /\ pc' = [pc EXCEPT ![r] = "done"]
    /\ answer' = [answer EXCEPT ![r] = a]
    /\ UNCHANGED source

\* A plausible bug, here because Replay follows: a key that is taken is
\* replayed as the request's own run.
ReplayOwn(r, h) ==
    /\ pc' = [pc EXCEPT ![r] = "done"]
    /\ answer' = [answer EXCEPT
                     ![r] = IF row[h] \in Terminal THEN "replay_ran" ELSE "replay_running"]
    /\ UNCHANGED source

\* replay_payload of run h.
Replay(r, h) ==
    /\ pc' = [pc EXCEPT ![r] = "done"]
    /\ answer' = [answer EXCEPT
                     ![r] = IF row[h] \in Terminal THEN "replay_ran" ELSE "replay_running"]
    /\ source' = [source EXCEPT ![r] = h]

\* SupabaseRunStore.save: an upsert on the run's id.  It inserts when the run
\* has no row, which the index refuses while another run holds the key; that
\* error, like any other, is logged and swallowed.
CanUpsert(r) == \A h \in Req : HasKey(h) => h = r

Save(r, status, charge) ==
    \/ /\ CanUpsert(r)
       /\ row' = [row EXCEPT ![r] = status]
       /\ rowCharged' = [rowCharged EXCEPT ![r] = charge]
    \/ /\ ~CanUpsert(r) \/ MayFail("save")
       /\ UNCHANGED <<row, rowCharged>>

-----------------------------------------------------------------------------
(* Plausible bugs.  No specification uses them: each is a mutated form of   *)
(* the action or helper it names, which the checks must notice.            *)

\* The insert without the unique index on the key.
InsertUnindexed(r) ==
    /\ pc[r] = "insert"
    /\ row' = [row EXCEPT ![r] = "running"]
    /\ recorded' = [recorded EXCEPT ![r] = TRUE]
    /\ Goto(r, "work")
    /\ UNCHANGED <<agent, mode, outcome, receipt, rowCharged, debited>>

\* A run that could not be stored is accepted all the same.
NotStoredAccepted(r) ==
    /\ pc' = [pc EXCEPT ![r] = "work"]
    /\ answer' = [answer EXCEPT ![r] = "accepted"]
    /\ UNCHANGED source

\* Every outcome goes on to the charge.
WorkAlwaysCharges(r) ==
    /\ pc[r] = "work"
    /\ \E o \in Terminal :
          /\ outcome' = [outcome EXCEPT ![r] = o]
          /\ Goto(r, "charge")
    /\ UNCHANGED <<agent, mode, receipt, row, rowCharged, recorded, debited>>

\* The receipt says "charged" whatever became of the debit.
ChargeAlwaysReceipted(r) ==
    /\ pc[r] = "charge"
    /\ debited' \in {debited, [debited EXCEPT ![r] = 1]}
    /\ receipt' = [receipt EXCEPT ![r] = 1]
    /\ Goto(r, "finish")
    /\ UNCHANGED <<agent, mode, outcome, row, rowCharged, recorded>>

-----------------------------------------------------------------------------
(* The request: replay_if_seen, the gates, begin *)

\* replay_if_seen: the key was seen before, or it was not.
Lookup(r) ==
    /\ pc[r] = "new"
    /\ \/ KeyIsFree /\ Goto(r, "gate")
       \/ \E h \in Req :
             /\ HasKey(h)
             /\ IF agent[h] = agent[r] THEN Replay(r, h) ELSE Return(r, "conflict")
    /\ UNCHANGED <<agent, mode, outcome, receipt, row, rowCharged, recorded, debited>>

\* find_by_idempotency_key answers None when it could not look.
LookupFails(r) ==
    /\ pc[r] = "new"
    /\ MayFail("lookup")
    /\ Goto(r, "gate")
    /\ UNCHANGED <<agent, mode, outcome, receipt, row, rowCharged, recorded, debited>>

\* refuse_if_session_expiring, the rate limit, what the route needs to exist,
\* check_affordable: any of them may refuse, and none of them writes.
Gate(r) ==
    /\ pc[r] = "gate"
    /\ Goto(r, "insert") \/ Return(r, "refused")
    /\ UNCHANGED <<agent, mode, outcome, receipt, row, rowCharged, recorded, debited>>

\* Where a run goes once begin returned None, and where RunNotStored leads.
Started(r) ==
    IF mode[r] = "background"
    THEN /\ pc' = [pc EXCEPT ![r] = "work"]
         /\ answer' = [answer EXCEPT ![r] = "accepted"]
         /\ UNCHANGED source
    ELSE Goto(r, "work")

NotStored(r) ==
    IF mode[r] = "background" THEN Return(r, "not_started") ELSE Goto(r, "work")

\* run_store.start: the INSERT, and the unique index's answer.
Insert(r) ==
    /\ pc[r] = "insert"
    /\ \/ /\ KeyIsFree
          /\ row' = [row EXCEPT ![r] = "running"]
          /\ recorded' = [recorded EXCEPT ![r] = TRUE]
          /\ Started(r)
       \/ /\ ~KeyIsFree
          /\ Goto(r, "holder")
          /\ UNCHANGED <<row, recorded>>
    /\ UNCHANGED <<agent, mode, outcome, receipt, rowCharged, debited>>

\* Any other error: RunNotStored, whether or not the row is there.
InsertFails(r) ==
    /\ pc[r] = "insert"
    /\ MayFail("insert")
    /\ \/ KeyIsFree /\ row' = [row EXCEPT ![r] = "running"]
       \/ UNCHANGED row
    /\ NotStored(r)
    /\ UNCHANGED <<agent, mode, outcome, receipt, rowCharged, recorded, debited>>

\* The 23505: who holds the key?  The route replays that run as it is.
Holder(r) ==
    /\ pc[r] = "holder"
    /\ \E h \in Req : HasKey(h) /\ Replay(r, h)
    /\ UNCHANGED <<agent, mode, outcome, receipt, row, rowCharged, recorded, debited>>

HolderFails(r) ==
    /\ pc[r] = "holder"
    /\ MayFail("holder")
    /\ NotStored(r)
    /\ UNCHANGED <<agent, mode, outcome, receipt, row, rowCharged, recorded, debited>>

-----------------------------------------------------------------------------
(* The run: execute *)

\* RunReporter saves the run at every step it reports.
Report(r) ==
    /\ pc[r] = "work"
    /\ Save(r, "running", 0)
    /\ UNCHANGED <<agent, mode, pc, outcome, receipt, recorded, debited, answer, source>>

\* The work returns something, returns nothing, raises, or is cancelled.
Work(r) ==
    /\ pc[r] = "work"
    /\ \E o \in Terminal :
          /\ outcome' = [outcome EXCEPT ![r] = o]
          /\ Goto(r, IF o = "succeeded" THEN "charge" ELSE "finish")
    /\ UNCHANGED <<agent, mode, receipt, row, rowCharged, recorded, debited>>

\* charge_for_result: charged, or delivered unbilled because the balance could
\* not be read, fell below the cost, or could not be written.
Charge(r) ==
    /\ pc[r] = "charge"
    /\ \/ /\ debited' = [debited EXCEPT ![r] = 1]
          /\ receipt' = [receipt EXCEPT ![r] = 1]
       \/ UNCHANGED <<debited, receipt>>
    /\ Goto(r, "finish")
    /\ UNCHANGED <<agent, mode, outcome, row, rowCharged, recorded>>

\* The balance write landed and still raised: the receipt says nothing was
\* charged.
ChargeFails(r) ==
    /\ pc[r] = "charge"
    /\ MayFail("charge")
    /\ debited' = [debited EXCEPT ![r] = 1]
    /\ Goto(r, "finish")
    /\ UNCHANGED <<agent, mode, outcome, receipt, row, rowCharged, recorded>>

\* _finish, and for a request held open the answer.
Finish(r) ==
    /\ pc[r] = "finish"
    /\ Save(r, outcome[r], receipt[r])
    /\ IF mode[r] = "open" THEN Return(r, "settled") ELSE Goto(r, "done")
    /\ UNCHANGED <<agent, mode, outcome, receipt, recorded, debited>>

\* The process dies; what is in the tables stays.
Crash(r) ==
    /\ pc[r] \notin {"new", "done"}
    /\ MayFail("crash")
    /\ Goto(r, "done")
    /\ UNCHANGED <<agent, mode, outcome, receipt, row, rowCharged, recorded, debited>>

-----------------------------------------------------------------------------
Request(r) ==
    \/ Lookup(r) \/ LookupFails(r)
    \/ Gate(r)
    \/ Insert(r) \/ InsertFails(r)
    \/ Holder(r) \/ HolderFails(r)

Settle(r) == Work(r) \/ Charge(r) \/ ChargeFails(r) \/ Finish(r)

Next == \E r \in Req : Request(r) \/ Report(r) \/ Settle(r) \/ Crash(r)

Spec == Init /\ [][Next]_vars

-----------------------------------------------------------------------------
(* Properties *)

\* "A retry while the run is in flight is the same run, charged once"; a
\* persistence failure "must never cause a double charge" (run_store.py): at
\* most one of the runs under a key is charged for.
OneChargePerKey ==
    \A r, q \in Req : debited[r] = 1 /\ debited[q] = 1 => r = q

\* Whatever fails, a second charge under a key comes from a run that went ahead
\* without its row: of the runs recorded at the start, one is charged at most.
RecordedRunsChargeOnce ==
    \A r, q \in Req :
        recorded[r] /\ recorded[q] /\ debited[r] = 1 /\ debited[q] = 1 => r = q

\* A run without a result is free: credits are never charged on failure or on
\* an empty result, and a replay or a refusal charges nothing either.
OnlyResultsAreCharged ==
    \A r \in Req : debited[r] = 1 =>
        /\ outcome[r] = "succeeded"
        /\ row[r] \in {"absent", "running", "succeeded"}
        /\ answer[r] \in {"none", "accepted", "settled"}

\* The row never reports a charge that was not made.
RowChargeIsReal == \A r \in Req : rowCharged[r] = 1 => debited[r] = 1

\* The id of a background run is handed out only when its row exists, so the
\* first poll finds it, and an accepted run is never lost from the table.
AcceptedIsPollable ==
    \A r \in Req : answer[r] = "accepted" => row[r] # "absent" /\ recorded[r]

\* A retry is answered with the run its key was charged for: no replay, by the
\* lookup or by the loser of the insert, shows a run other than the recorded
\* one whose result was paid, before or after the replay.
ReplayShowsTheCharge ==
    \A r, q \in Req :
        /\ answer[r] \in {"replay_running", "replay_ran"}
        /\ recorded[q]
        /\ debited[q] = 1
        => source[r] = q

-----------------------------------------------------------------------------
(* Why it holds.  The inductive invariant behind the safety properties.    *)

\* The index: two runs under one key never both have a row.
OneRow == \A r, q \in Req : HasKey(r) /\ HasKey(q) => r = q

RecordedHasRow == \A r \in Req : recorded[r] => HasKey(r)

\* A run works without a recorded row only when it is held open.
WorkIsRecorded ==
    \A r \in Req :
        pc[r] \in {"work", "charge", "finish"} \/ debited[r] = 1
            => recorded[r] \/ mode[r] = "open"

\* What is known of a run at each step.
StepsInOrder ==
    \A r \in Req :
        /\ pc[r] \in {"new", "gate", "insert", "holder", "work"}
              => outcome[r] = "none" /\ receipt[r] = 0 /\ debited[r] = 0
        /\ pc[r] \in {"new", "gate", "insert", "holder"} => answer[r] = "none"
        /\ pc[r] \in {"work", "charge", "finish"}
              => answer[r] \in {"none", "accepted"}
        /\ pc[r] = "charge" => outcome[r] = "succeeded" /\ debited[r] = 0
        /\ pc[r] = "finish" => outcome[r] # "none"

MoneyFollowsWork ==
    \A r \in Req :
        /\ debited[r] = 1 => outcome[r] = "succeeded"
        /\ debited[r] = 1 => answer[r] \in {"none", "accepted", "settled"}
        /\ receipt[r] = 1 => debited[r] = 1
        /\ rowCharged[r] = 1 => debited[r] = 1
        /\ row[r] \in Terminal => row[r] = outcome[r]
        /\ answer[r] = "accepted" => recorded[r]

IndInv ==
    /\ TypeOK
    /\ OneRow
    /\ RecordedHasRow
    /\ WorkIsRecorded
    /\ StepsInOrder
    /\ MoneyFollowsWork

\* A replay was answered from a row, and rows are never deleted.
ReplaysHaveRows ==
    \A r \in Req :
        answer[r] \in {"replay_running", "replay_ran"} => HasKey(source[r])
=============================================================================
