---------------------------- MODULE NaukriCycle ----------------------------
(***************************************************************************)
(* The Naukri tune-up of one user (routes/naukri, services/naukri).        *)
(*                                                                         *)
(* The first run of a cycle is paid, the others are free.  Which one a run *)
(* is, is read off the latest row before the run; the run itself adds the  *)
(* row that makes the next one free, and is charged after that.  The       *)
(* request has no Idempotency-Key.  A row becomes "optimized" in V1 only,  *)
(* which ends the cycle.                                                   *)
(***************************************************************************)
EXTENDS Integers, FiniteSets

CONSTANTS
    Req,            \* requests in flight at the same time
    MaxRuns,        \* bound: runs
    Edits           \* bound: the profiles the user's edits lead to, of Profile

VARIABLES
    row,            \* the latest row of naukri_scores
    profile,        \* what the profile has of what is assessed
    request,        \* request[r]: its step, its price, the profile it read
    runs,           \* runs started
    paid            \* paid runs charged since the last cycle ended

vars == <<row, profile, request, runs, paid>>

CycleState == {"never_run", "needs_tuneup", "optimized"}
Price == {"run_naukri", "naukri_step"}      \* ten credits, and none

\* The profile: the parts its headline carries, the filter fields it fills.
HeadlineParts == 4
FilterFields == 2
Profile == [headline : 0 .. HeadlineParts, filters : 0 .. FilterFields]
Blank == [headline |-> 0, filters |-> 0]

\* The two dimensions that are assessed, with their weights; Unassessed is the
\* preview of a user who never ran.
Unassessed == -1
Weight == [headline |-> 20, filters |-> 10]
Dimensions(p) == [headline |-> (100 * p.headline) \div HeadlineParts,
                  filters |-> (100 * p.filters) \div FilterFields]
Preview == [headline |-> Unassessed, filters |-> Unassessed]

Assessed(dims) == {d \in DOMAIN Weight : dims[d] # Unassessed}
AssessedWeight(dims) ==
    (IF "headline" \in Assessed(dims) THEN Weight.headline ELSE 0)
    + (IF "filters" \in Assessed(dims) THEN Weight.filters ELSE 0)

\* The weighted mean of what could be assessed, to the nearest integer (no
\* value of these dimensions falls half way).
Score(dims) ==
    LET weight == AssessedWeight(dims)
        Earned(d) == IF d \in Assessed(dims) THEN Weight[d] * dims[d] ELSE 0
    IN  IF weight = 0 THEN Unassessed
        ELSE (2 * (Earned("headline") + Earned("filters")) + weight) \div (2 * weight)

ScoreState(dims) ==
    CASE AssessedWeight(dims) = 0 -> "never_run"
      [] AssessedWeight(dims) < Weight.headline + Weight.filters -> "partial"
      [] OTHER -> "complete"

\* An all-unavailable result is not persisted.
ShouldPersist(dims) == ScoreState(dims) # "never_run"

StartsNewCycle(cycle) == cycle \in {"never_run", "optimized"}

Idle == [step |-> "idle", price |-> "naukri_step", read |-> Blank]

TypeOK ==
    /\ row \in [cycle : CycleState, score : -1 .. 100]
    /\ profile \in Profile
    /\ request \in [Req -> [step : {"idle", "priced", "charge"}, price : Price, read : Profile]]
    /\ runs \in 0 .. MaxRuns
    /\ paid \in Nat

Init ==
    /\ row = [cycle |-> "never_run", score |-> Score(Preview)]
    /\ profile = Blank
    /\ request = [r \in Req |-> Idle]
    /\ runs = 0
    /\ paid = 0

-----------------------------------------------------------------------------
\* The latest row decides the price; the balance covers it, and the profile is
\* loaded.  A row that cannot be read, or too small a balance, ends the request.
PriceRun(r) ==
    /\ request[r].step = "idle" /\ runs < MaxRuns
    /\ request' = [request EXCEPT ![r] =
           [step |-> "priced", read |-> profile,
            price |-> IF StartsNewCycle(row.cycle) THEN "run_naukri" ELSE "naukri_step"]]
    /\ runs' = runs + 1
    /\ UNCHANGED <<row, profile, paid>>

\* The work of the run: a score of the profile as it was read, as a new row.
Work(r) ==
    /\ request[r].step = "priced"
    /\ LET dims == Dimensions(request[r].read)
       IN  /\ ShouldPersist(dims)
           /\ row' = [cycle |-> "needs_tuneup", score |-> Score(dims)]
    /\ request' = [request EXCEPT ![r].step = "charge"]
    /\ UNCHANGED <<profile, runs, paid>>

\* The insert fails, landed or not, or the process dies: nothing is charged.
WorkFails(r) ==
    /\ request[r].step = "priced"
    /\ row' \in {row, [cycle |-> "needs_tuneup", score |-> Score(Dimensions(request[r].read))]}
    /\ request' = [request EXCEPT ![r] = Idle]
    /\ UNCHANGED <<profile, runs, paid>>

\* The charge; one that fails leaves the run free, and the cycle unpaid.
Charge(r) ==
    /\ request[r].step = "charge"
    /\ paid' \in {paid, IF request[r].price = "run_naukri" THEN paid + 1 ELSE paid}
    /\ request' = [request EXCEPT ![r] = Idle]
    /\ UNCHANGED <<row, profile, runs>>

\* The user edits the profile.
EditProfile ==
    /\ profile' \in Edits
    /\ UNCHANGED <<row, request, runs, paid>>

\* V1 marks the row optimized.
Optimized ==
    /\ row.cycle = "needs_tuneup"
    /\ \A r \in Req : request[r].step = "idle"      \* bound: no run spans it
    /\ row' = [row EXCEPT !.cycle = "optimized"]
    /\ paid' = 0
    /\ UNCHANGED <<profile, request, runs>>

Next ==
    \/ \E r \in Req : PriceRun(r) \/ Work(r) \/ WorkFails(r) \/ Charge(r)
    \/ EditProfile \/ Optimized

Spec == Init /\ [][Next]_vars

-----------------------------------------------------------------------------
(* Property                                                                *)

\* A cycle is paid once for each request that was priced before the first of
\* them saved its row, and never again (starts_new_cycle, run_naukri_tuneup).
CyclePaidOnlyByOverlap == paid <= Cardinality(Req)

-----------------------------------------------------------------------------
(* Why it holds.  While the cycle is open, what may still be paid are the   *)
(* runs that were priced before its row was there.                          *)

PaidRuns == {r \in Req : request[r].step # "idle" /\ request[r].price = "run_naukri"}

OpenCycleIsCovered ==
    row.cycle = "needs_tuneup" => paid + Cardinality(PaidRuns) <= Cardinality(Req)

\* The work of a run opens the cycle, before the run is charged.
NoCycleIsUnpaid ==
    row.cycle # "needs_tuneup" => paid = 0 /\ \A r \in Req : request[r].step # "charge"

IndInv ==
    /\ TypeOK
    /\ OpenCycleIsCovered
    /\ NoCycleIsUnpaid
    /\ CyclePaidOnlyByOverlap
=============================================================================
