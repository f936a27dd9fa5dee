-------------------------- MODULE DeskCountProofs ---------------------------
(***************************************************************************)
(* Proofs about the parts of the desk that count: job scans and their      *)
(* quota, the Naukri cycle, rate limits, emails.  For any finite number of *)
(* requests, any quota, cadence, rate and set of postings.                 *)
(*                                                                         *)
(* Each part has the same proof: its inductive invariant (IndInv, "Why it  *)
(* holds" in its module) at the start, and one lemma per group of          *)
(* conjuncts that every step of the part preserves; a step of another part *)
(* leaves its variables alone.                                             *)
(***************************************************************************)
EXTENDS Desk, FiniteSetTheorems, WellFoundedInduction, TLAPS

-----------------------------------------------------------------------------
(* Job scans.  The requests that passed a gate and have not been charged   *)
(* or counted yet are some of Req: what was charged and what may still be  *)
(* are together no more.  A scan that filed a row is the only one to have  *)
(* it as new, and whatever it writes back has the facts in it.             *)

\* What job scans take for granted of their constants.
LEMMA JobsConstants ==
    IsFiniteSet(Req) /\ Req # {} /\ Cap \in Nat /\ MaxRequests \in Nat
BY DeskAssumption

\* A step of the desk is a step of job scans, or leaves their variables alone.
LEMMA JobsStep == [DeskNext]_everything => [Jobs!Next]_(Jobs!vars)
BY DEF DeskNext, OthersWait, Off, everything, jobs, Jobs!vars

\* The parts count with the operator of the library.
LEMMA JobsCardinality == \A S : Jobs!Cardinality(S) = Cardinality(S)
BY DEF Jobs!Cardinality, Cardinality

\* How many requests there are in a set of requests.
LEMMA RequestSets ==
    ASSUME NEW S \in SUBSET Req
    PROVE  /\ IsFiniteSet(S) /\ Jobs!Cardinality(S) \in Nat
           /\ Jobs!Cardinality(S) <= Jobs!Cardinality(Req)
           /\ \A r \in Req \ S : Jobs!Cardinality(S \union {r}) = Jobs!Cardinality(S) + 1
           /\ \A r \in S : Jobs!Cardinality(S \ {r}) = Jobs!Cardinality(S) - 1
           /\ Jobs!Cardinality(Req) \in Nat \ {0}
           /\ Jobs!Cardinality({}) = 0
<1>1. IsFiniteSet(S) /\ Cardinality(S) <= Cardinality(Req)
  BY JobsConstants, FS_Subset
<1>2. Cardinality(S) \in Nat /\ Cardinality(Req) \in Nat
  BY <1>1, JobsConstants, FS_CardinalityType
<1>3. Cardinality(Req) # 0
  BY JobsConstants, FS_EmptySet
<1>4. \A r \in Req \ S : Cardinality(S \union {r}) = Cardinality(S) + 1
  BY <1>1, FS_AddElement
<1>5. \A r \in S : Cardinality(S \ {r}) = Cardinality(S) - 1
  BY <1>1, FS_RemoveElement
<1> QED
  BY <1>1, <1>2, <1>3, <1>4, <1>5, FS_EmptySet, JobsCardinality

\* The inductive invariant of job scans holds at the start.
LEMMA JobsInit == DeskInit => Jobs!IndInv
<1> SUFFICES ASSUME DeskInit PROVE Jobs!IndInv
  OBVIOUS
<1>1. Jobs!Init
  BY DEF DeskInit
<1>2. Jobs!Idle \in [step : Jobs!Step, found : SUBSET Job, todo : SUBSET Job,
                     new : SUBSET Job, stored : [Job -> SUBSET Jobs!Detail]]
  BY DEF Jobs!Idle, Jobs!Step
<1>3. {Jobs!NoRow, [status |-> "saved", details |-> {"facts"}, kit |-> FALSE]} \subseteq Jobs!Row
  BY DEF Jobs!NoRow, Jobs!Row, Jobs!Status, Jobs!Detail
<1>4. Jobs!TypeOK
  <2>1. jFeed \in [Job -> Jobs!Row]
    BY <1>1, <1>3 DEF Jobs!Init
  <2>2. jRequest \in [Req -> [step : Jobs!Step, found : SUBSET Job, todo : SUBSET Job,
                     new : SUBSET Job, stored : [Job -> SUBSET Jobs!Detail]]]
    BY <1>1, <1>2 DEF Jobs!Init
  <2>3. jKits \in [Job -> Nat] /\ jReported \in [Job -> Nat]
    BY <1>1 DEF Jobs!Init
  <2>4. jUsed \in Nat /\ jCalled \in Nat /\ jRecent \in BOOLEAN /\ jBlind \in Nat /\ jScans \in Nat
    BY <1>1 DEF Jobs!Init
  <2>5. jStarted \in 0 .. MaxRequests
    BY <1>1, JobsConstants DEF Jobs!Init
  <2> QED
    BY <2>1, <2>2, <2>3, <2>4, <2>5 DEF Jobs!TypeOK
<1>5. /\ jFeed \in [Job -> Jobs!Row] /\ \A j \in Job : ~jFeed[j].kit
      /\ \A r \in Req : jRequest[r] = Jobs!Idle /\ jRequest[r].step = "idle"
  BY <1>1, <1>4 DEF Jobs!Init, Jobs!NoRow, Jobs!Idle, Jobs!TypeOK
<1>6. Jobs!Recording = {} /\ Jobs!Scans = {} /\ \A j \in Job : Jobs!KitOf(j) = {}
  BY <1>5 DEF Jobs!Recording, Jobs!Scans, Jobs!KitOf, Jobs!At
<1>7. Jobs!Cardinality({}) = 0 /\ Jobs!Cardinality(Req) \in Nat \ {0} /\ Cap \in Nat
  BY RequestSets, JobsConstants
<1>8. /\ jCalled = 0 /\ jUsed = 0 /\ ~jRecent /\ jBlind = 0 /\ jScans = 0
      /\ \A j \in Job : jKits[j] = 0 /\ jReported[j] = 0
  BY <1>1 DEF Jobs!Init
<1>9. Jobs!RecordedCallsCount /\ Jobs!QuotaBounded
  BY <1>6, <1>7, <1>8 DEF Jobs!RecordedCallsCount, Jobs!QuotaBounded
<1>10. Jobs!FiledByOne /\ Jobs!NewOnce
  BY <1>5, <1>8 DEF Jobs!FiledByOne, Jobs!NewOnce, Jobs!HasFiled
<1>11. Jobs!ChargesAreCovered /\ Jobs!KitsAreCovered /\ Jobs!PaidOnlyByOverlap
  BY <1>5, <1>6, <1>7, <1>8 DEF Jobs!ChargesAreCovered, Jobs!KitsAreCovered, Jobs!PaidOnlyByOverlap
<1>12. Jobs!WritesHaveFacts
  BY <1>5 DEF Jobs!WritesHaveFacts
<1> QED
  BY <1>4, <1>9, <1>10, <1>11, <1>12 DEF Jobs!IndInv

\* A step of one request, on its record.
Record == [step : Jobs!Step, found : SUBSET Job, todo : SUBSET Job,
           new : SUBSET Job, stored : [Job -> SUBSET Jobs!Detail]]

\* Every step of job scans keeps the types.
LEMMA JobsTypeOK ==
    ASSUME Jobs!TypeOK, [Jobs!Next]_(Jobs!vars)
    PROVE  Jobs!TypeOK'
<1> USE DEF Jobs!At
<1>0. /\ jFeed \in [Job -> Jobs!Row] /\ jRequest \in [Req -> Record]
      /\ jUsed \in Nat /\ jCalled \in Nat /\ jRecent \in BOOLEAN
      /\ jStarted \in 0 .. MaxRequests /\ MaxRequests \in Nat
      /\ jBlind \in Nat /\ jScans \in Nat
      /\ jKits \in [Job -> Nat] /\ jReported \in [Job -> Nat]
  BY JobsConstants DEF Jobs!TypeOK, Record
<1>f. ASSUME jFeed' \in [Job -> Jobs!Row], jRequest' \in [Req -> Record],
             jUsed' \in Nat, jCalled' \in Nat, jRecent' \in BOOLEAN,
             jStarted' \in 0 .. MaxRequests, jBlind' \in Nat, jScans' \in Nat,
             jKits' \in [Job -> Nat], jReported' \in [Job -> Nat]
      PROVE  Jobs!TypeOK'
  BY <1>f DEF Jobs!TypeOK, Record
<1>a. ASSUME NEW r \in Req, NEW q \in Record, jRequest' = [jRequest EXCEPT ![r] = q]
      PROVE  jRequest' \in [Req -> Record]
  BY <1>0, <1>a
<1>b. ASSUME NEW r \in Req, NEW s \in Jobs!Step, Jobs!Goes(r, s)
      PROVE  jRequest' \in [Req -> Record]
  BY <1>0, <1>b DEF Jobs!Goes, Record
<1>c. ASSUME NEW r \in Req, Jobs!Ends(r)
      PROVE  jRequest' \in [Req -> Record]
  <2>1. Jobs!Idle \in Record
    BY DEF Jobs!Idle, Jobs!Step, Record
  <2> QED
    BY <1>c, <1>0, <2>1 DEF Jobs!Ends
<1>d. ASSUME NEW j \in Job PROVE Jobs!Filed(j) \in Jobs!Row
  BY DEF Jobs!Filed, Jobs!Row, Jobs!Status, Jobs!Detail
<1>e. /\ "quota" \in Jobs!Step /\ "record" \in Jobs!Step /\ "jsearch" \in Jobs!Step
      /\ "adzuna" \in Jobs!Step /\ "read" \in Jobs!Step /\ "insert" \in Jobs!Step
      /\ "refresh" \in Jobs!Step /\ "annotate" \in Jobs!Step /\ "kit" \in Jobs!Step
  BY DEF Jobs!Step
<1>g. ASSUME NEW r \in Req
      PROVE  /\ jRequest[r].found \in SUBSET Job /\ jRequest[r].todo \in SUBSET Job
             /\ jRequest[r].new \in SUBSET Job
             /\ jRequest[r].stored \in [Job -> SUBSET Jobs!Detail]
             /\ \A j \in Job : /\ jRequest[r].stored[j] \union {"facts"} \in SUBSET Jobs!Detail
                              /\ jRequest[r].stored[j] \union {"verdict"} \in SUBSET Jobs!Detail
  <2>1. /\ jRequest[r].found \in SUBSET Job /\ jRequest[r].todo \in SUBSET Job
        /\ jRequest[r].new \in SUBSET Job
        /\ jRequest[r].stored \in [Job -> SUBSET Jobs!Detail]
    BY <1>0 DEF Record
  <2> QED
    BY <2>1 DEF Jobs!Detail
<1>h. ASSUME NEW j \in Job, NEW d \in SUBSET Jobs!Detail, jFeed' = [jFeed EXCEPT ![j].details = d]
      PROVE  jFeed' \in [Job -> Jobs!Row]
  BY <1>0, <1>h DEF Jobs!Row
<1>i. ASSUME NEW new \in SUBSET Job, jFeed' = [j \in Job |-> IF j \in new THEN Jobs!Filed(j) ELSE jFeed[j]]
      PROVE  jFeed' \in [Job -> Jobs!Row]
  BY <1>0, <1>i, <1>d
<1>1. ASSUME NEW r \in Req, Jobs!PassRescanGate(r) \/ Jobs!PassQuota(r) \/ Jobs!Refused(r)
      PROVE Jobs!TypeOK'
  BY <1>0, <1>f, <1>1, <1>b, <1>c, <1>e DEF Jobs!PassRescanGate, Jobs!PassQuota, Jobs!Refused
<1>2. ASSUME NEW r \in Req, Jobs!RecordCall(r)
      PROVE Jobs!TypeOK'
  BY <1>0, <1>f, <1>2, <1>b, <1>c, <1>e DEF Jobs!RecordCall
<1>3. ASSUME NEW r \in Req, Jobs!SearchFirst(r)
      PROVE Jobs!TypeOK'
  <2>1. jRequest' \in [Req -> Record]
    BY <1>0, <1>3, <1>e DEF Jobs!SearchFirst, Record
  <2> QED
    BY <1>0, <1>f, <1>3, <2>1 DEF Jobs!SearchFirst
<1>4. ASSUME NEW r \in Req, Jobs!SearchSecond(r)
      PROVE Jobs!TypeOK'
  <2>1. jRequest' \in [Req -> Record]
    BY <1>0, <1>4, <1>c, <1>e DEF Jobs!SearchSecond, Record
  <2> QED
    BY <1>0, <1>f, <1>4, <2>1 DEF Jobs!SearchSecond
<1>5. ASSUME NEW r \in Req, Jobs!ReadKnown(r)
      PROVE Jobs!TypeOK'
  <2> DEFINE known == {j \in jRequest[r].found : Jobs!Known(j)}
             fresh == jRequest[r].found \ known
             stored == [j \in Job |-> IF j \in known THEN jFeed[j].details ELSE {}]
             step == IF known = jRequest[r].found THEN "refresh" ELSE "insert"
  <2>2. stored \in [Job -> SUBSET Jobs!Detail]
    BY <1>0 DEF Jobs!Row
  <2>3. known \in SUBSET Job /\ fresh \in SUBSET Job /\ step \in Jobs!Step
    BY <1>g, <1>e
  <2>4. jRequest' = [jRequest EXCEPT ![r].new = fresh, ![r].todo = known,
                       ![r].stored = stored, ![r].step = step]
    BY <1>5 DEF Jobs!ReadKnown
  <2> HIDE DEF known, fresh, stored, step
  <2> DEFINE q == [jRequest[r] EXCEPT !.new = fresh, !.todo = known, !.stored = stored, !.step = step]
  <2>5. q \in Record
    BY <1>0, <2>2, <2>3 DEF Record
  <2>6. jRequest' = [jRequest EXCEPT ![r] = q]
    BY <1>0, <2>4 DEF Record
  <2> HIDE DEF q
  <2>1. jRequest' \in [Req -> Record]
    BY <2>5, <2>6, <1>a
  <2> QED
    BY <1>0, <1>f, <1>5, <2>1 DEF Jobs!ReadKnown
<1>6. ASSUME NEW r \in Req, Jobs!InsertNew(r)
      PROVE Jobs!TypeOK'
  <2> DEFINE stored == [j \in Job |-> IF j \in jRequest[r].new THEN {"facts"}
                                     ELSE jRequest[r].stored[j]]
  <2>3. stored \in [Job -> SUBSET Jobs!Detail]
    BY <1>g DEF Jobs!Detail
  <2>4. jRequest' = [jRequest EXCEPT ![r].step = "refresh", ![r].stored = stored]
    BY <1>6 DEF Jobs!InsertNew, Jobs!Inserted
  <2> HIDE DEF stored
  <2> DEFINE q == [jRequest[r] EXCEPT !.step = "refresh", !.stored = stored]
  <2>5. jRequest[r] \in Record /\ "refresh" \in Jobs!Step
    BY <1>0 DEF Jobs!Step
  <2>6. q \in Record
    BY <2>3, <2>5 DEF Record
  <2>7. jRequest' = [jRequest EXCEPT ![r] = q]
    BY <2>4, <1>0
  <2> HIDE DEF q
  <2>1. jRequest' \in [Req -> Record]
    BY <2>6, <2>7, <1>a
  <2>2. jFeed' \in [Job -> Jobs!Row]
    BY <1>6, <1>g, <1>i DEF Jobs!InsertNew, Jobs!Inserted
  <2> QED
    BY <1>0, <1>f, <1>6, <2>1, <2>2 DEF Jobs!InsertNew
<1>7. ASSUME NEW r \in Req, NEW j \in Job, Jobs!Refresh(r, j)
      PROVE Jobs!TypeOK'
  <2> DEFINE d == jRequest[r].stored[j] \union {"facts"}
             todo == jRequest[r].todo \ {j}
  <2>3. d \in SUBSET Jobs!Detail /\ todo \in SUBSET Job
    BY <1>g
  <2>4. /\ jFeed' = [jFeed EXCEPT ![j].details = d]
        /\ jRequest' = [jRequest EXCEPT ![r].todo = todo, ![r].stored[j] = d]
    BY <1>7 DEF Jobs!Refresh
  <2> HIDE DEF d, todo
  <2> DEFINE q == [jRequest[r] EXCEPT !.todo = todo, !.stored = [jRequest[r].stored EXCEPT ![j] = d]]
  <2>5. [jRequest[r].stored EXCEPT ![j] = d] \in [Job -> SUBSET Jobs!Detail]
    BY <1>g, <2>3
  <2>6. q \in Record
    BY <1>0, <2>3, <2>5 DEF Record
  <2>7. jRequest' = [jRequest EXCEPT ![r] = q]
    BY <1>0, <2>4 DEF Record
  <2> HIDE DEF q
  <2>1. jRequest' \in [Req -> Record]
    BY <2>6, <2>7, <1>a
  <2>2. jFeed' \in [Job -> Jobs!Row]
    BY <2>3, <2>4, <1>h
  <2> QED
    BY <1>0, <1>f, <1>7, <2>1, <2>2 DEF Jobs!Refresh
<1>8. ASSUME NEW r \in Req, Jobs!PersistFails(r)
      PROVE Jobs!TypeOK'
  <2>1. jFeed' \in [Job -> Jobs!Row]
    <3>1. \/ jFeed' = jFeed
          \/ jFeed' = [j \in Job |-> IF j \in jRequest[r].new THEN Jobs!Filed(j) ELSE jFeed[j]]
          \/ \E j \in jRequest[r].todo :
                jFeed' = [jFeed EXCEPT ![j].details = jRequest[r].stored[j] \union {"facts"}]
      BY <1>8 DEF Jobs!PersistFails
    <3> QED
      BY <3>1, <1>0, <1>g, <1>h, <1>i
  <2> QED
    BY <1>0, <1>f, <1>c, <1>8, <2>1 DEF Jobs!PersistFails
<1>9. ASSUME NEW r \in Req, Jobs!Judged(r)
      PROVE Jobs!TypeOK'
  <2>1. jRequest' \in [Req -> Record]
    BY <1>0, <1>9, <1>e DEF Jobs!Judged, Record
  <2> QED
    BY <1>0, <1>f, <1>9, <2>1 DEF Jobs!Judged
<1>10. ASSUME NEW r \in Req, NEW j \in Job, Jobs!Annotate(r, j)
       PROVE Jobs!TypeOK'
  <2>1. jRequest' \in [Req -> Record]
    <3>1. jRequest' = [jRequest EXCEPT ![r].todo = @ \ {j}]
      BY <1>10 DEF Jobs!Annotate
    <3> QED
      BY <3>1, <1>0 DEF Record
  <2>3. \/ jFeed' = jFeed
        \/ jFeed' = [jFeed EXCEPT ![j].details = jRequest[r].stored[j] \union {"verdict"}]
    BY <1>10 DEF Jobs!Annotate
  <2>2. jFeed' \in [Job -> Jobs!Row]
    BY <2>3, <1>0, <1>g, <1>h
  <2>4. UNCHANGED <<jUsed, jCalled, jRecent, jStarted, jBlind, jScans, jKits, jReported>>
    BY <1>10 DEF Jobs!Annotate
  <2> QED
    BY <1>0, <1>f, <2>1, <2>2, <2>4
<1>11. ASSUME NEW r \in Req, Jobs!Charge(r)
       PROVE Jobs!TypeOK'
  <2>1. jReported' \in [Job -> Nat]
    BY <1>0, <1>11 DEF Jobs!Charge
  <2>2. /\ UNCHANGED <<jFeed, jUsed, jCalled, jStarted, jKits>> /\ jScans' = jScans + 1
        /\ jBlind' \in {jBlind, jBlind + 1} /\ Jobs!Ends(r)
    BY <1>11 DEF Jobs!Charge
  <2>3. jRecent' \in BOOLEAN
    BY <1>0, <1>11 DEF Jobs!Charge
  <2> QED
    BY <1>0, <1>f, <1>c, <2>1, <2>2, <2>3
<1>12. ASSUME NEW r \in Req, NEW j \in Job, Jobs!ReadForKit(r, j)
       PROVE Jobs!TypeOK'
  <2>1. jRequest' \in [Req -> Record]
    BY <1>0, <1>12, <1>e DEF Jobs!ReadForKit, Record
  <2> QED
    BY <1>0, <1>f, <1>12, <2>1 DEF Jobs!ReadForKit
<1>13. ASSUME NEW r \in Req, Jobs!SaveKit(r)
       PROVE Jobs!TypeOK'
  <2>2. PICK j \in jRequest[r].todo :
            /\ jFeed' \in {jFeed, [jFeed EXCEPT ![j].kit = TRUE]}
            /\ jKits' \in {jKits, [jKits EXCEPT ![j] = @ + 1]}
    BY <1>13 DEF Jobs!SaveKit
  <2>3. j \in Job
    BY <1>g
  <2>4. jFeed' \in [Job -> Jobs!Row]
    BY <2>2, <2>3, <1>0 DEF Jobs!Row
  <2>1. jKits' \in [Job -> Nat]
    BY <2>2, <2>3, <1>0
  <2> QED
    BY <1>0, <1>f, <1>c, <1>13, <2>1, <2>4 DEF Jobs!SaveKit
<1>14. ASSUME NEW j \in Job, Jobs!Dismiss(j)
       PROVE Jobs!TypeOK'
  <2>1. jFeed' \in [Job -> Jobs!Row]
    BY <1>0, <1>14 DEF Jobs!Dismiss, Jobs!Row, Jobs!Status
  <2> QED
    BY <1>0, <1>f, <1>14, <2>1 DEF Jobs!Dismiss
<1>15. ASSUME Jobs!V1Searches \/ Jobs!Midnight \/ Jobs!SixHoursLater
       PROVE Jobs!TypeOK'
  <2>1. UNCHANGED <<jFeed, jRequest, jStarted, jKits, jReported>>
    BY <1>15 DEF Jobs!V1Searches, Jobs!Midnight, Jobs!SixHoursLater
  <2>2. /\ jUsed' \in {jUsed, jUsed + 1, 0} /\ jCalled' \in {jCalled, 0}
        /\ jBlind' \in {jBlind, 0} /\ jScans' \in {jScans, 0}
    BY <1>15 DEF Jobs!V1Searches, Jobs!Midnight, Jobs!SixHoursLater
  <2>3. jRecent' = jRecent \/ jRecent' = FALSE
    BY <1>15 DEF Jobs!V1Searches, Jobs!Midnight, Jobs!SixHoursLater
  <2>4. jRecent' \in BOOLEAN
    BY <1>0, <2>3
  <2>5. jUsed' \in Nat /\ jCalled' \in Nat /\ jBlind' \in Nat /\ jScans' \in Nat
    BY <1>0, <2>2
  <2> QED
    BY <1>0, <1>f, <2>1, <2>4, <2>5
<1>16. CASE UNCHANGED Jobs!vars
  BY <1>0, <1>f, <1>16 DEF Jobs!vars
<1>17. CASE Jobs!Next
  BY <1>1, <1>2, <1>3, <1>4, <1>5, <1>6, <1>7, <1>8, <1>9, <1>10, <1>11, <1>12, <1>13, <1>14,
     <1>15, <1>17, Zenon DEF Jobs!Next
<1> QED
  BY <1>16, <1>17

\* What each step does, request by request and row by row.
Same(r) == /\ jRequest'[r].found = jRequest[r].found /\ jRequest'[r].todo = jRequest[r].todo
           /\ jRequest'[r].new = jRequest[r].new /\ jRequest'[r].stored = jRequest[r].stored
Alone(r) == \A q \in Req \ {r} : jRequest'[q] = jRequest[q]
Over(r) == jRequest'[r] = Jobs!Idle
Steps(r, from, to) == jRequest[r].step = from /\ jRequest'[r].step = to

\* A request that goes on changes its step only.
LEMMA JobsGoes ==
    ASSUME Jobs!TypeOK, NEW r \in Req, NEW s, Jobs!Goes(r, s)
    PROVE  jRequest'[r].step = s /\ Same(r) /\ Alone(r)
BY DEF Jobs!TypeOK, Jobs!Goes, Same, Alone

\* A request that ends forgets what it held.
LEMMA JobsEnds ==
    ASSUME Jobs!TypeOK, NEW r \in Req, Jobs!Ends(r)
    PROVE  jRequest'[r] = Jobs!Idle /\ jRequest'[r].step = "idle" /\ jRequest'[r].new = {} /\ jRequest'[r].todo = {} /\ Alone(r)
BY DEF Jobs!TypeOK, Jobs!Ends, Jobs!Idle, Alone

\* The cooldown gate and the quota of scan_jobs: what passing or being refused
\* changes.
LEMMA JobsGates ==
    ASSUME Jobs!TypeOK, NEW r \in Req
    PROVE  /\ Jobs!PassRescanGate(r) =>
                /\ Steps(r, "idle", "quota") /\ Same(r) /\ Alone(r)
                /\ \/ ~jRecent /\ jBlind' = jBlind
                   \/ jBlind' = jBlind + 1
                /\ UNCHANGED <<jFeed, jUsed, jCalled, jRecent, jScans, jKits, jReported>>
           /\ Jobs!PassQuota(r) =>
                /\ Steps(r, "quota", "record") /\ Same(r) /\ Alone(r) /\ jUsed < Cap
                /\ UNCHANGED <<jFeed, jUsed, jCalled, jRecent, jBlind, jScans, jKits, jReported>>
           /\ Jobs!Refused(r) =>
                /\ jRequest[r].step = "quota" /\ Over(r) /\ Alone(r)
                /\ UNCHANGED <<jFeed, jUsed, jCalled, jRecent, jBlind, jScans, jKits, jReported>>
BY JobsGoes, JobsEnds DEF Jobs!PassRescanGate, Jobs!PassQuota, Jobs!Refused, Jobs!At, Steps, Over

\* usage.record counts a call, or is swallowed and may have counted it.
LEMMA JobsRecord ==
    ASSUME Jobs!TypeOK, NEW r \in Req, Jobs!RecordCall(r)
    PROVE  /\ jRequest[r].step = "record" /\ Same(r) /\ Alone(r)
           /\ jRequest'[r].step \in {"jsearch", "adzuna"}
           /\ \/ jUsed' = jUsed + 1 /\ jCalled' = jCalled + 1
              \/ jUsed' \in {jUsed, jUsed + 1} /\ jCalled' = jCalled
           /\ UNCHANGED <<jFeed, jRecent, jBlind, jScans, jKits, jReported>>
BY JobsGoes DEF Jobs!RecordCall, Jobs!At

\* A search of either source finds some postings, or ends the scan.
LEMMA JobsSearch ==
    ASSUME Jobs!TypeOK, NEW r \in Req, Jobs!SearchFirst(r) \/ Jobs!SearchSecond(r)
    PROVE  /\ jRequest[r].step \in {"jsearch", "adzuna"} /\ Alone(r)
           /\ \/ jRequest'[r].step \in {"read", "adzuna"}
              \/ Over(r)
           /\ UNCHANGED <<jFeed, jUsed, jCalled, jRecent, jBlind, jScans, jKits, jReported>>
<1>1. CASE Jobs!SearchFirst(r)
  <2>1. jRequest[r].step = "jsearch" /\ UNCHANGED <<jFeed, jUsed, jCalled, jRecent, jBlind, jScans, jKits, jReported>>
    BY <1>1 DEF Jobs!SearchFirst, Jobs!At
  <2>2. PICK f \in SUBSET Job, s \in {"read", "adzuna"} :
            jRequest' = [jRequest EXCEPT ![r].found = f, ![r].step = s]
    BY <1>1 DEF Jobs!SearchFirst
  <2>3. Alone(r) /\ jRequest'[r].step = s
    BY <2>2 DEF Jobs!TypeOK, Alone
  <2> QED
    BY <2>1, <2>2, <2>3
<1>2. CASE Jobs!SearchSecond(r)
  <2>1. jRequest[r].step = "adzuna" /\ UNCHANGED <<jFeed, jUsed, jCalled, jRecent, jBlind, jScans, jKits, jReported>>
    BY <1>2 DEF Jobs!SearchSecond, Jobs!At
  <2>2. \/ Jobs!Ends(r)
        \/ \E f \in SUBSET Job : jRequest' = [jRequest EXCEPT ![r].found = f, ![r].step = "read"]
    <3>1. jRequest[r].found \in SUBSET Job
      BY DEF Jobs!TypeOK
    <3> QED
      BY <3>1, <1>2 DEF Jobs!SearchSecond
  <2>3. ASSUME NEW f \in SUBSET Job, jRequest' = [jRequest EXCEPT ![r].found = f, ![r].step = "read"]
        PROVE Alone(r) /\ jRequest'[r].step = "read"
    BY <2>3 DEF Jobs!TypeOK, Alone
  <2> QED
    BY <2>1, <2>2, <2>3, JobsEnds DEF Over
<1> QED
  BY <1>1, <1>2

\* persist sorts what was found into new rows and rows to refresh.
LEMMA JobsRead ==
    ASSUME Jobs!TypeOK, NEW r \in Req, Jobs!ReadKnown(r)
    PROVE  /\ jRequest[r].step = "read" /\ Alone(r)
           /\ jRequest'[r].found = jRequest[r].found
           /\ jRequest'[r].found = jRequest'[r].new \union jRequest'[r].todo
           /\ \/ jRequest'[r].step = "insert"
              \/ /\ jRequest'[r].step = "refresh" /\ jRequest'[r].new = {}
                 /\ jRequest'[r].todo = jRequest'[r].found
           /\ UNCHANGED <<jFeed, jUsed, jCalled, jRecent, jBlind, jScans, jKits, jReported>>
<1> DEFINE known == {j \in jRequest[r].found : Jobs!Known(j)}
           fresh == jRequest[r].found \ known
           stored == [j \in Job |-> IF j \in known THEN jFeed[j].details ELSE {}]
           step == IF known = jRequest[r].found THEN "refresh" ELSE "insert"
<1>1. /\ jRequest[r].step = "read"
      /\ jRequest' = [jRequest EXCEPT ![r].new = fresh, ![r].todo = known,
                       ![r].stored = stored, ![r].step = step]
      /\ UNCHANGED <<jFeed, jUsed, jCalled, jRecent, jBlind, jScans, jKits, jReported>>
  BY DEF Jobs!ReadKnown, Jobs!At
<1>2. fresh \union known = jRequest[r].found /\ (known = jRequest[r].found => fresh = {})
  OBVIOUS
<1>3. \/ step = "refresh" /\ known = jRequest[r].found
      \/ step = "insert"
  OBVIOUS
<1> HIDE DEF known, fresh, stored, step
<1>4. /\ Alone(r) /\ jRequest'[r].found = jRequest[r].found /\ jRequest'[r].new = fresh
      /\ jRequest'[r].todo = known /\ jRequest'[r].step = step
  BY <1>1 DEF Jobs!TypeOK, Alone
<1> QED
  BY <1>1, <1>2, <1>3, <1>4

\* The new rows are filed together, none of which is there yet.
LEMMA JobsInsert ==
    ASSUME Jobs!TypeOK, NEW r \in Req, Jobs!InsertNew(r)
    PROVE  /\ Steps(r, "insert", "refresh") /\ Alone(r)
           /\ jRequest'[r].found = jRequest[r].found /\ jRequest'[r].todo = jRequest[r].todo
           /\ jRequest'[r].new = jRequest[r].new
           /\ \A j \in Job : jRequest'[r].stored[j] = IF j \in jRequest[r].new THEN {"facts"}
                                                      ELSE jRequest[r].stored[j]
           /\ \A j \in jRequest[r].new : jFeed[j].status = "none"
           /\ \A j \in Job : jFeed'[j] = IF j \in jRequest[r].new THEN Jobs!Filed(j) ELSE jFeed[j]
           /\ UNCHANGED <<jUsed, jCalled, jRecent, jBlind, jScans, jKits, jReported>>
<1> DEFINE stored == [j \in Job |-> IF j \in jRequest[r].new THEN {"facts"}
                                    ELSE jRequest[r].stored[j]]
<1>1. /\ jRequest[r].step = "insert" /\ jRequest' = [jRequest EXCEPT ![r].step = "refresh", ![r].stored = stored]
      /\ \A j \in jRequest[r].new : jFeed[j].status = "none"
      /\ jFeed' = [j \in Job |-> IF j \in jRequest[r].new THEN Jobs!Filed(j) ELSE jFeed[j]]
      /\ UNCHANGED <<jUsed, jCalled, jRecent, jBlind, jScans, jKits, jReported>>
  BY DEF Jobs!InsertNew, Jobs!Inserted, Jobs!At, Jobs!Known
<1>2. \A j \in Job : stored[j] = IF j \in jRequest[r].new THEN {"facts"} ELSE jRequest[r].stored[j]
  OBVIOUS
<1> HIDE DEF stored
<1>3. /\ Alone(r) /\ jRequest'[r].found = jRequest[r].found /\ jRequest'[r].new = jRequest[r].new
      /\ jRequest'[r].todo = jRequest[r].todo /\ jRequest'[r].step = "refresh"
      /\ jRequest'[r].stored = stored
  BY <1>1 DEF Jobs!TypeOK, Alone
<1> QED
  BY <1>1, <1>2, <1>3 DEF Steps

\* A known row is refreshed one at a time, with what was read of it.
LEMMA JobsRefresh ==
    ASSUME Jobs!TypeOK, NEW r \in Req, NEW j \in Job, Jobs!Refresh(r, j)
    PROVE  /\ Steps(r, "refresh", "refresh") /\ Alone(r) /\ j \in jRequest[r].todo
           /\ jRequest'[r].found = jRequest[r].found
           /\ jRequest'[r].todo = jRequest[r].todo \ {j}
           /\ jRequest'[r].new = jRequest[r].new
           /\ jRequest'[r].stored = [jRequest[r].stored EXCEPT ![j] = jRequest[r].stored[j] \union {"facts"}]
           /\ jFeed' = [jFeed EXCEPT ![j].details = jRequest[r].stored[j] \union {"facts"}]
           /\ UNCHANGED <<jUsed, jCalled, jRecent, jBlind, jScans, jKits, jReported>>
<1> DEFINE d == jRequest[r].stored[j] \union {"facts"}
<1>1. /\ jRequest[r].step = "refresh" /\ j \in jRequest[r].todo
      /\ jFeed' = [jFeed EXCEPT ![j].details = d]
      /\ jRequest' = [jRequest EXCEPT ![r].todo = jRequest[r].todo \ {j}, ![r].stored[j] = d]
      /\ UNCHANGED <<jUsed, jCalled, jRecent, jBlind, jScans, jKits, jReported>>
  BY DEF Jobs!Refresh, Jobs!At
<1> HIDE DEF d
<1>2. /\ Alone(r) /\ jRequest'[r].found = jRequest[r].found /\ jRequest'[r].new = jRequest[r].new
      /\ jRequest'[r].todo = jRequest[r].todo \ {j} /\ jRequest'[r].step = "refresh"
      /\ jRequest'[r].stored = [jRequest[r].stored EXCEPT ![j] = d]
  BY <1>1 DEF Jobs!TypeOK, Alone
<1> QED
  BY <1>1, <1>2 DEF Steps, d

\* A persist that fails ends the scan; its insert may have landed.
LEMMA JobsFails ==
    ASSUME Jobs!TypeOK, NEW r \in Req, Jobs!PersistFails(r)
    PROVE  /\ jRequest[r].step \in {"read", "insert", "refresh"} /\ Over(r) /\ Alone(r)
           /\ \/ jFeed' = jFeed
              \/ /\ jRequest[r].step = "insert"
                 /\ \A j \in jRequest[r].new : jFeed[j].status = "none"
                 /\ \A j \in Job : jFeed'[j] = IF j \in jRequest[r].new THEN Jobs!Filed(j) ELSE jFeed[j]
              \/ \E j \in jRequest[r].todo :
                    jFeed' = [jFeed EXCEPT ![j].details = jRequest[r].stored[j] \union {"facts"}]
           /\ UNCHANGED <<jUsed, jCalled, jRecent, jBlind, jScans, jKits, jReported>>
BY JobsEnds DEF Jobs!PersistFails, Jobs!At, Jobs!Known, Over

\* The postings that were judged are some of those that were found.
LEMMA JobsJudged ==
    ASSUME Jobs!TypeOK, NEW r \in Req, Jobs!Judged(r)
    PROVE  /\ Steps(r, "refresh", "annotate") /\ Alone(r) /\ jRequest[r].todo = {}
           /\ jRequest'[r].todo \subseteq jRequest[r].found
           /\ jRequest'[r].found = jRequest[r].found /\ jRequest'[r].new = jRequest[r].new
           /\ jRequest'[r].stored = jRequest[r].stored
           /\ UNCHANGED <<jFeed, jUsed, jCalled, jRecent, jBlind, jScans, jKits, jReported>>
<1>1. PICK t \in SUBSET jRequest[r].found :
         jRequest' = [jRequest EXCEPT ![r].todo = t, ![r].step = "annotate"]
  BY DEF Jobs!Judged
<1>2. /\ Alone(r) /\ jRequest'[r].todo = t /\ jRequest'[r].step = "annotate"
      /\ jRequest'[r].found = jRequest[r].found /\ jRequest'[r].new = jRequest[r].new
      /\ jRequest'[r].stored = jRequest[r].stored
  BY <1>1 DEF Jobs!TypeOK, Alone
<1>3. /\ jRequest[r].step = "refresh" /\ jRequest[r].todo = {}
      /\ UNCHANGED <<jFeed, jUsed, jCalled, jRecent, jBlind, jScans, jKits, jReported>>
  BY DEF Jobs!Judged, Jobs!At
<1> QED
  BY <1>1, <1>2, <1>3 DEF Steps

\* annotate writes the rows one at a time, over the details read.
LEMMA JobsAnnotate ==
    ASSUME Jobs!TypeOK, NEW r \in Req, NEW j \in Job, Jobs!Annotate(r, j)
    PROVE  /\ Steps(r, "annotate", "annotate") /\ Alone(r) /\ j \in jRequest[r].todo
           /\ jRequest'[r].found = jRequest[r].found
           /\ jRequest'[r].todo = jRequest[r].todo \ {j}
           /\ jRequest'[r].new = jRequest[r].new
           /\ jRequest'[r].stored = jRequest[r].stored
           /\ jFeed' \in {jFeed, [jFeed EXCEPT ![j].details = jRequest[r].stored[j] \union {"verdict"}]}
           /\ UNCHANGED <<jUsed, jCalled, jRecent, jBlind, jScans, jKits, jReported>>
<1>1. /\ jRequest[r].step = "annotate" /\ j \in jRequest[r].todo
      /\ jFeed' \in {jFeed, [jFeed EXCEPT ![j].details = jRequest[r].stored[j] \union {"verdict"}]}
      /\ jRequest' = [jRequest EXCEPT ![r].todo = jRequest[r].todo \ {j}]
      /\ UNCHANGED <<jUsed, jCalled, jRecent, jBlind, jScans, jKits, jReported>>
  BY DEF Jobs!Annotate, Jobs!At
<1>2. /\ Alone(r) /\ jRequest'[r].found = jRequest[r].found /\ jRequest'[r].new = jRequest[r].new
      /\ jRequest'[r].todo = jRequest[r].todo \ {j} /\ jRequest'[r].step = "annotate"
      /\ jRequest'[r].stored = jRequest[r].stored
  BY <1>1 DEF Jobs!TypeOK, Alone
<1> QED
  BY <1>1, <1>2 DEF Steps

\* The scan is charged once, and reports the rows it filed as new.
LEMMA JobsCharge ==
    ASSUME Jobs!TypeOK, NEW r \in Req, Jobs!Charge(r)
    PROVE  /\ jRequest[r].step = "annotate" /\ Over(r) /\ Alone(r)
           /\ jScans' = jScans + 1
           /\ \A j \in Job : jReported'[j] = IF j \in jRequest[r].new THEN jReported[j] + 1 ELSE jReported[j]
           /\ \/ jRecent' = TRUE /\ jBlind' = jBlind
              \/ jRecent' = jRecent /\ jBlind' = jBlind + 1
           /\ UNCHANGED <<jFeed, jUsed, jCalled, jKits>>
<1>1. /\ jRequest[r].step = "annotate" /\ Over(r) /\ Alone(r)
      /\ jScans' = jScans + 1
      /\ jReported' = [j \in Job |-> jReported[j] + IF j \in jRequest[r].new THEN 1 ELSE 0]
      /\ \/ jRecent' = TRUE /\ jBlind' = jBlind
         \/ jRecent' = jRecent /\ jBlind' = jBlind + 1
      /\ UNCHANGED <<jFeed, jUsed, jCalled, jKits>>
  BY JobsEnds DEF Jobs!Charge, Jobs!At, Over
<1>2. \A j \in Job : jReported'[j] = IF j \in jRequest[r].new THEN jReported[j] + 1 ELSE jReported[j]
  BY <1>1 DEF Jobs!TypeOK
<1> QED
  BY <1>1, <1>2

\* A kit is started for a posting that has none.
LEMMA JobsKit ==
    ASSUME Jobs!TypeOK, NEW r \in Req, NEW j \in Job, Jobs!ReadForKit(r, j)
    PROVE  /\ Steps(r, "idle", "kit") /\ Alone(r) /\ jRequest'[r].todo = {j}
           /\ jFeed[j].status # "none" /\ ~jFeed[j].kit
           /\ UNCHANGED <<jFeed, jUsed, jCalled, jRecent, jBlind, jScans, jKits, jReported>>
<1>1. /\ jRequest[r].step = "idle" /\ jFeed[j].status # "none" /\ ~jFeed[j].kit
      /\ jRequest' = [jRequest EXCEPT ![r].step = "kit", ![r].todo = {j}]
      /\ UNCHANGED <<jFeed, jUsed, jCalled, jRecent, jBlind, jScans, jKits, jReported>>
  BY DEF Jobs!ReadForKit, Jobs!At, Jobs!Known
<1>2. /\ Alone(r) /\ jRequest'[r].step = "kit" /\ jRequest'[r].todo = {j}
  BY <1>1 DEF Jobs!TypeOK, Alone
<1> QED
  BY <1>1, <1>2 DEF Steps

\* A kit is saved and charged, or its save fails and it is not.
LEMMA JobsSaveKit ==
    ASSUME Jobs!TypeOK, NEW r \in Req, Jobs!SaveKit(r)
    PROVE  /\ jRequest[r].step = "kit" /\ Over(r) /\ Alone(r)
           /\ \E j \in jRequest[r].todo :
                 \/ jFeed' = [jFeed EXCEPT ![j].kit = TRUE] /\ jKits' = [jKits EXCEPT ![j] = jKits[j] + 1]
                 \/ jFeed' \in {jFeed, [jFeed EXCEPT ![j].kit = TRUE]} /\ jKits' = jKits
           /\ UNCHANGED <<jUsed, jCalled, jRecent, jBlind, jScans, jReported>>
BY JobsEnds DEF Jobs!SaveKit, Jobs!At, Over

\* The types the counting uses.
LEMMA JobsTypes ==
    ASSUME Jobs!TypeOK
    PROVE  /\ jUsed \in Nat /\ jCalled \in Nat /\ jRecent \in BOOLEAN /\ jBlind \in Nat /\ jScans \in Nat
           /\ jFeed \in [Job -> Jobs!Row] /\ jKits \in [Job -> Nat] /\ jReported \in [Job -> Nat]
           /\ Cap \in Nat
BY JobsConstants DEF Jobs!TypeOK

\* A part of a set of requests is no larger than the set.
LEMMA RequestCounts ==
    ASSUME NEW S \in SUBSET Req, NEW T \in SUBSET Req, S \subseteq T
    PROVE  Jobs!Cardinality(S) <= Jobs!Cardinality(T)
BY RequestSets, FS_Subset, JobsCardinality

\* A request of Recording has read the counter, and counts as a call.
LEMMA JobsRecordedCalls ==
    ASSUME Jobs!TypeOK, Jobs!TypeOK', Jobs!RecordedCallsCount, [Jobs!Next]_(Jobs!vars)
    PROVE  Jobs!RecordedCallsCount'
<1> DEFINE R == Jobs!Recording
           n == Jobs!Cardinality(Req)
<1>0. /\ jUsed \in Nat /\ jCalled \in Nat /\ Cap \in Nat /\ n \in Nat \ {0}
      /\ jUsed' \in Nat /\ jCalled' \in Nat
      /\ R \in SUBSET Req /\ R' \in SUBSET Req
      /\ Jobs!Cardinality(R) \in Nat /\ Jobs!Cardinality(R') \in Nat
      /\ Jobs!Cardinality(R') <= n /\ Jobs!Cardinality({}) = 0
      /\ jCalled <= jUsed /\ (R # {} => Cap > 0)
      /\ jCalled + Jobs!Cardinality(R) <= Cap + n - 1
  <2>1. R \in SUBSET Req /\ R' \in SUBSET Req
    BY DEF Jobs!Recording
  <2> QED
    BY <2>1, JobsTypes, JobsConstants, RequestSets DEF Jobs!RecordedCallsCount, Jobs!TypeOK
<1>r. /\ \A q \in Req : q \in R <=> jRequest[q].step = "record"
      /\ \A q \in Req : q \in R' <=> jRequest'[q].step = "record"
  BY DEF Jobs!Recording, Jobs!At
<1> SUFFICES /\ jCalled' <= jUsed' /\ (R' # {} => Cap > 0)
             /\ jCalled' + Jobs!Cardinality(R') <= Cap + n - 1
  BY DEF Jobs!RecordedCallsCount
<1> HIDE DEF R, n
<1>a. ASSUME R' \subseteq R, jCalled' = jCalled, jUsed' \in {jUsed, jUsed + 1}
      PROVE  /\ jCalled' <= jUsed' /\ (R' # {} => Cap > 0)
             /\ jCalled' + Jobs!Cardinality(R') <= Cap + n - 1
  <2>1. Jobs!Cardinality(R') <= Jobs!Cardinality(R)
    BY <1>0, <1>a, RequestCounts
  <2> QED
    BY <1>0, <1>a, <2>1
<1>b. ASSUME NEW r \in Req, Alone(r), jRequest'[r].step # "record" PROVE R' \subseteq R
  BY <1>0, <1>b, <1>r DEF Alone
<1>c. Jobs!Idle.step = "idle"
  BY DEF Jobs!Idle
<1>1. ASSUME NEW r \in Req, Jobs!PassRescanGate(r) \/ Jobs!Refused(r)
      PROVE  R' \subseteq R /\ UNCHANGED <<jCalled, jUsed>>
  BY <1>1, <1>b, <1>c, JobsGates DEF Steps, Over
<1>2. ASSUME NEW r \in Req, Jobs!PassQuota(r)
      PROVE  /\ jCalled' <= jUsed' /\ (R' # {} => Cap > 0)
             /\ jCalled' + Jobs!Cardinality(R') <= Cap + n - 1
  <2>1. jUsed < Cap /\ UNCHANGED <<jUsed, jCalled>>
    BY <1>2, JobsGates
  <2> QED
    BY <1>0, <2>1
<1>3. ASSUME NEW r \in Req, Jobs!RecordCall(r)
      PROVE  /\ jCalled' <= jUsed' /\ (R' # {} => Cap > 0)
             /\ jCalled' + Jobs!Cardinality(R') <= Cap + n - 1
  <2>1. R' = R \ {r} /\ r \in R
    BY <1>3, <1>0, <1>r, JobsRecord DEF Alone
  <2>2. Jobs!Cardinality(R') = Jobs!Cardinality(R) - 1
    BY <2>1, <1>0, RequestSets
  <2>3. \/ jUsed' = jUsed + 1 /\ jCalled' = jCalled + 1
        \/ jUsed' \in {jUsed, jUsed + 1} /\ jCalled' = jCalled
    BY <1>3, JobsRecord
  <2> QED
    BY <1>0, <2>1, <2>2, <2>3
<1>4. ASSUME NEW r \in Req, Jobs!SearchFirst(r) \/ Jobs!SearchSecond(r)
      PROVE  R' \subseteq R /\ UNCHANGED <<jCalled, jUsed>>
  BY <1>4, <1>b, <1>c, JobsSearch DEF Over
<1>5. ASSUME NEW r \in Req, Jobs!ReadKnown(r) \/ Jobs!InsertNew(r) \/ Jobs!PersistFails(r)
      PROVE  R' \subseteq R /\ UNCHANGED <<jCalled, jUsed>>
  BY <1>5, <1>b, <1>c, JobsRead, JobsInsert, JobsFails DEF Over, Steps
<1>6. ASSUME NEW r \in Req, Jobs!Judged(r) \/ Jobs!Charge(r) \/ Jobs!SaveKit(r)
      PROVE  R' \subseteq R /\ UNCHANGED <<jCalled, jUsed>>
  BY <1>6, <1>b, <1>c, JobsJudged, JobsCharge, JobsSaveKit DEF Over, Steps
<1>7. ASSUME NEW r \in Req, NEW j \in Job,
             Jobs!Refresh(r, j) \/ Jobs!Annotate(r, j) \/ Jobs!ReadForKit(r, j)
      PROVE  R' \subseteq R /\ UNCHANGED <<jCalled, jUsed>>
  BY <1>7, <1>b, <1>c, JobsRefresh, JobsAnnotate, JobsKit DEF Over, Steps
<1>8. ASSUME NEW j \in Job, Jobs!Dismiss(j)
      PROVE  R' \subseteq R /\ UNCHANGED <<jCalled, jUsed>>
  BY <1>8, <1>0, <1>r DEF Jobs!Dismiss
<1>9. ASSUME Jobs!V1Searches \/ Jobs!SixHoursLater \/ UNCHANGED Jobs!vars
      PROVE  R' \subseteq R /\ jCalled' = jCalled /\ jUsed' \in {jUsed, jUsed + 1}
  BY <1>9, <1>0, <1>r DEF Jobs!V1Searches, Jobs!SixHoursLater, Jobs!vars
<1>10. ASSUME Jobs!Midnight
      PROVE  /\ jCalled' <= jUsed' /\ (R' # {} => Cap > 0)
             /\ jCalled' + Jobs!Cardinality(R') <= Cap + n - 1
  <2>1. R' = R /\ jCalled' = 0 /\ jUsed' = 0
    BY <1>10, <1>0, <1>r DEF Jobs!Midnight
  <2>2. CASE R = {}
    BY <2>1, <2>2, <1>0
  <2>3. CASE R # {}
    BY <2>1, <2>3, <1>0
  <2> QED
    BY <2>2, <2>3
<1>11. CASE Jobs!Next
  BY <1>a, <1>1, <1>2, <1>3, <1>4, <1>5, <1>6, <1>7, <1>8, <1>9, <1>10, <1>11 DEF Jobs!Next
<1> QED
  BY <1>a, <1>9, <1>11

\* The charges of these six hours and the scans under way.
LEMMA JobsCharges ==
    ASSUME Jobs!TypeOK, Jobs!TypeOK', Jobs!ChargesAreCovered, [Jobs!Next]_(Jobs!vars)
    PROVE  Jobs!ChargesAreCovered'
<1> DEFINE S == Jobs!Scans
           n == Jobs!Cardinality(Req)
           Covered == /\ ~jRecent => jScans <= jBlind
                      /\ jRecent => jScans + Jobs!Cardinality(S) <= n + jBlind
<1>0. /\ jScans \in Nat /\ jBlind \in Nat /\ jScans' \in Nat /\ jBlind' \in Nat
      /\ n \in Nat /\ S \in SUBSET Req /\ S' \in SUBSET Req
      /\ Jobs!Cardinality(S) \in Nat /\ Jobs!Cardinality(S') \in Nat
      /\ Jobs!Cardinality(S) <= n /\ Jobs!Cardinality(S') <= n
  <2>1. S \in SUBSET Req /\ S' \in SUBSET Req
    BY DEF Jobs!Scans
  <2> QED
    BY <2>1, JobsTypes, RequestSets DEF Jobs!TypeOK
<1>c. Covered
  BY DEF Jobs!ChargesAreCovered
<1>r. /\ \A q \in Req : q \in S <=> jRequest[q].step \notin {"idle", "kit"}
      /\ \A q \in Req : q \in S' <=> jRequest'[q].step \notin {"idle", "kit"}
  BY DEF Jobs!Scans
<1> SUFFICES Covered'
  BY DEF Jobs!ChargesAreCovered
<1> HIDE DEF S, n
<1>a. ASSUME S' \subseteq S, UNCHANGED <<jRecent, jScans, jBlind>>
      PROVE  Covered'
  <2>1. Jobs!Cardinality(S') <= Jobs!Cardinality(S)
    BY <1>0, <1>a, RequestCounts
  <2> QED
    BY <1>0, <1>a, <1>c, <2>1
<1>b. ASSUME NEW r \in Req, Alone(r),
             jRequest'[r].step \in {"idle", "kit"} \/ jRequest[r].step \notin {"idle", "kit"}
      PROVE  S' \subseteq S
  BY <1>0, <1>b, <1>r DEF Alone
<1>d. Jobs!Idle.step = "idle"
  BY DEF Jobs!Idle
<1>1. ASSUME NEW r \in Req, Jobs!PassRescanGate(r)
      PROVE  Covered'
  <2>1. S' = S \union {r} /\ r \notin S
    BY <1>1, <1>0, <1>r, JobsGates DEF Alone, Steps
  <2>2. Jobs!Cardinality(S') = Jobs!Cardinality(S) + 1
    BY <2>1, <1>0, RequestSets
  <2>3. /\ jRecent' = jRecent /\ jScans' = jScans
        /\ \/ ~jRecent /\ jBlind' = jBlind
           \/ jBlind' = jBlind + 1
    BY <1>1, JobsGates
  <2> QED
    BY <1>0, <1>c, <2>2, <2>3
<1>2. ASSUME NEW r \in Req, Jobs!PassQuota(r) \/ Jobs!Refused(r)
      PROVE  S' \subseteq S /\ UNCHANGED <<jRecent, jScans, jBlind>>
  BY <1>2, <1>b, <1>d, JobsGates DEF Steps, Over
<1>3. ASSUME NEW r \in Req, Jobs!RecordCall(r) \/ Jobs!SearchFirst(r) \/ Jobs!SearchSecond(r)
      PROVE  S' \subseteq S /\ UNCHANGED <<jRecent, jScans, jBlind>>
  BY <1>3, <1>b, <1>d, JobsRecord, JobsSearch DEF Over
<1>5. ASSUME NEW r \in Req, Jobs!ReadKnown(r) \/ Jobs!InsertNew(r) \/ Jobs!PersistFails(r)
      PROVE  S' \subseteq S /\ UNCHANGED <<jRecent, jScans, jBlind>>
  BY <1>5, <1>b, <1>d, JobsRead, JobsInsert, JobsFails DEF Over, Steps
<1>6. ASSUME NEW r \in Req, Jobs!Judged(r) \/ Jobs!SaveKit(r)
      PROVE  S' \subseteq S /\ UNCHANGED <<jRecent, jScans, jBlind>>
  BY <1>6, <1>b, <1>d, JobsJudged, JobsSaveKit DEF Over, Steps
<1>4. ASSUME NEW r \in Req, Jobs!Charge(r)
      PROVE  Covered'
  <2>1. S' = S \ {r} /\ r \in S
    BY <1>4, <1>0, <1>r, <1>d, JobsCharge DEF Alone, Over
  <2>2. Jobs!Cardinality(S') = Jobs!Cardinality(S) - 1
    BY <2>1, <1>0, RequestSets
  <2>3. /\ jScans' = jScans + 1
        /\ \/ jRecent' = TRUE /\ jBlind' = jBlind
           \/ jRecent' = jRecent /\ jBlind' = jBlind + 1
    BY <1>4, JobsCharge
  <2>4. jRecent \in BOOLEAN
    BY JobsTypes
  <2> QED
    BY <1>0, <1>c, <2>2, <2>3, <2>4
<1>7. ASSUME NEW r \in Req, NEW j \in Job,
             Jobs!Refresh(r, j) \/ Jobs!Annotate(r, j) \/ Jobs!ReadForKit(r, j)
      PROVE  S' \subseteq S /\ UNCHANGED <<jRecent, jScans, jBlind>>
  BY <1>7, <1>b, <1>d, JobsRefresh, JobsAnnotate, JobsKit DEF Over, Steps
<1>8. ASSUME NEW j \in Job, Jobs!Dismiss(j)
      PROVE  S' \subseteq S /\ UNCHANGED <<jRecent, jScans, jBlind>>
  BY <1>8, <1>0, <1>r DEF Jobs!Dismiss
<1>9. ASSUME Jobs!V1Searches \/ Jobs!Midnight \/ UNCHANGED Jobs!vars
      PROVE  S' \subseteq S /\ UNCHANGED <<jRecent, jScans, jBlind>>
  BY <1>9, <1>0, <1>r DEF Jobs!V1Searches, Jobs!Midnight, Jobs!vars
<1>10. ASSUME Jobs!SixHoursLater
       PROVE  Covered'
  BY <1>10 DEF Jobs!SixHoursLater
<1>11. CASE Jobs!Next
  BY <1>a, <1>1, <1>2, <1>3, <1>4, <1>5, <1>6, <1>7, <1>8, <1>9, <1>10, <1>11 DEF Jobs!Next
<1> QED
  BY <1>a, <1>9, <1>11

\* What a step does to a row.
LEMMA JobsDetails ==
    ASSUME Jobs!TypeOK, NEW j \in Job, NEW d, jFeed' = [jFeed EXCEPT ![j].details = d], NEW k \in Job
    PROVE  /\ jFeed'[k].status = jFeed[k].status /\ jFeed'[k].kit = jFeed[k].kit
           /\ jFeed'[k].details = IF k = j THEN d ELSE jFeed[k].details
BY DEF Jobs!TypeOK, Jobs!Row

\* What saving a kit changes.
LEMMA JobsKitFlag ==
    ASSUME Jobs!TypeOK, NEW j \in Job, jFeed' = [jFeed EXCEPT ![j].kit = TRUE], NEW k \in Job
    PROVE  /\ jFeed'[k].status = jFeed[k].status /\ jFeed'[k].details = jFeed[k].details
           /\ jFeed'[k].kit = IF k = j THEN TRUE ELSE jFeed[k].kit
BY DEF Jobs!TypeOK, Jobs!Row

\* What dismissing a row changes.
LEMMA JobsDismissed ==
    ASSUME Jobs!TypeOK, NEW j \in Job, Jobs!Dismiss(j), NEW k \in Job
    PROVE  /\ jFeed'[k].kit = jFeed[k].kit /\ jFeed'[k].details = jFeed[k].details
           /\ jFeed'[k].status = IF k = j THEN "dismissed" ELSE jFeed[k].status
BY DEF Jobs!TypeOK, Jobs!Row, Jobs!Dismiss

\* A row that was just filed.
LEMMA JobsFiled ==
    ASSUME NEW j
    PROVE  Jobs!Filed(j).status = "active" /\ Jobs!Filed(j).details = {"facts"} /\ Jobs!Filed(j).kit = FALSE
BY DEF Jobs!Filed

\* What a request holds are postings.
LEMMA JobsRowsKept ==
    ASSUME Jobs!TypeOK, NEW r \in Req
    PROVE  /\ jRequest[r].todo \subseteq Job /\ jRequest[r].new \subseteq Job /\ jRequest[r].found \subseteq Job
BY DEF Jobs!TypeOK

\* No step takes a posting out of the feed.
LEMMA JobsKnownStays ==
    ASSUME Jobs!TypeOK, [Jobs!Next]_(Jobs!vars), NEW k \in Job, jFeed[k].status # "none"
    PROVE  jFeed'[k].status # "none"
<1>1. ASSUME NEW r \in Req, Jobs!InsertNew(r) PROVE jFeed'[k].status # "none"
  BY <1>1, JobsInsert
<1>2. ASSUME NEW r \in Req, Jobs!PersistFails(r) PROVE jFeed'[k].status # "none"
  BY <1>2, JobsFails, JobsDetails, JobsFiled, JobsRowsKept
<1>3. ASSUME NEW r \in Req, NEW j \in Job, Jobs!Refresh(r, j) \/ Jobs!Annotate(r, j)
      PROVE  jFeed'[k].status # "none"
  <2>1. \/ jFeed' = jFeed
        \/ jFeed' = [jFeed EXCEPT ![j].details = jRequest[r].stored[j] \union {"facts"}]
        \/ jFeed' = [jFeed EXCEPT ![j].details = jRequest[r].stored[j] \union {"verdict"}]
    BY <1>3, JobsRefresh, JobsAnnotate
  <2> QED
    BY <2>1, JobsDetails
<1>4. ASSUME NEW r \in Req, Jobs!SaveKit(r) PROVE jFeed'[k].status # "none"
  <2>1. PICK j \in jRequest[r].todo : jFeed' = jFeed \/ jFeed' = [jFeed EXCEPT ![j].kit = TRUE]
    BY <1>4, JobsSaveKit
  <2> QED
    BY <2>1, JobsKitFlag, JobsRowsKept
<1>5. ASSUME NEW j \in Job, Jobs!Dismiss(j) PROVE jFeed'[k].status # "none"
  BY <1>5, JobsDismissed
<1>6. ASSUME NEW r \in Req,
             \/ Jobs!PassRescanGate(r) \/ Jobs!PassQuota(r) \/ Jobs!Refused(r)
             \/ Jobs!RecordCall(r) \/ Jobs!SearchFirst(r) \/ Jobs!SearchSecond(r)
             \/ Jobs!ReadKnown(r) \/ Jobs!Judged(r) \/ Jobs!Charge(r)
             \/ \E j \in Job : Jobs!ReadForKit(r, j)
      PROVE  jFeed' = jFeed
  BY <1>6, JobsGates, JobsRecord, JobsSearch, JobsRead, JobsJudged, JobsCharge, JobsKit
<1>7. ASSUME Jobs!V1Searches \/ Jobs!Midnight \/ Jobs!SixHoursLater \/ UNCHANGED Jobs!vars
      PROVE  jFeed' = jFeed
  BY <1>7 DEF Jobs!V1Searches, Jobs!Midnight, Jobs!SixHoursLater, Jobs!vars
<1>8. CASE Jobs!Next
  BY <1>1, <1>2, <1>3, <1>4, <1>5, <1>6, <1>7, <1>8 DEF Jobs!Next
<1> QED
  BY <1>7, <1>8

\* A posting is new to one scan, and reported once.
LEMMA JobsFiledByOne ==
    ASSUME Jobs!TypeOK, Jobs!TypeOK', Jobs!FiledByOne, Jobs!NewOnce, [Jobs!Next]_(Jobs!vars)
    PROVE  Jobs!FiledByOne' /\ Jobs!NewOnce'
<1> DEFINE Has(r, j) == jRequest[r].step \in {"refresh", "annotate"} /\ j \in jRequest[r].new
<1>0. /\ \A j \in Job : jReported[j] \in Nat /\ jReported[j] <= 1
      /\ \A j \in Job : jReported[j] > 0 => jFeed[j].status # "none"
      /\ \A j \in Job, r \in Req :
          Has(r, j) =>
              /\ jFeed[j].status # "none" /\ jReported[j] = 0
              /\ \A q \in Req \ {r} : ~Has(q, j)
  BY JobsTypes DEF Jobs!FiledByOne, Jobs!NewOnce, Jobs!HasFiled, Jobs!Known
<1>k. \A j \in Job : jFeed[j].status # "none" => jFeed'[j].status # "none"
  BY JobsKnownStays
<1> DEFINE Good == /\ \A j \in Job : jReported'[j] <= 1
                   /\ \A j \in Job : jReported'[j] > 0 => jFeed'[j].status # "none"
                   /\ \A j \in Job, r \in Req :
                       Has(r, j)' =>
                           /\ jFeed'[j].status # "none" /\ jReported'[j] = 0
                           /\ \A q \in Req \ {r} : ~Has(q, j)'
<1> SUFFICES Good
  BY DEF Jobs!FiledByOne, Jobs!NewOnce, Jobs!HasFiled, Jobs!Known
\* Nobody becomes a holder.
<1>a. ASSUME jReported' = jReported, \A r \in Req, j \in Job : Has(r, j)' => Has(r, j)
      PROVE  Good
  BY <1>0, <1>a, <1>k
<1>b. ASSUME NEW r \in Req, Alone(r), jRequest'[r].step \notin {"refresh", "annotate"}
      PROVE  \A q \in Req, j \in Job : Has(q, j)' => Has(q, j)
  BY <1>b DEF Alone
<1>c. ASSUME NEW r \in Req, Alone(r), jRequest[r].step \in {"refresh", "annotate"},
             jRequest'[r].new = jRequest[r].new
      PROVE  \A q \in Req, j \in Job : Has(q, j)' => Has(q, j)
  BY <1>c DEF Alone
<1>d. Jobs!Idle.step = "idle" /\ Jobs!Idle.new = {}
  BY DEF Jobs!Idle
<1>1. ASSUME NEW r \in Req, Jobs!PassRescanGate(r) \/ Jobs!PassQuota(r) \/ Jobs!Refused(r)
      PROVE  Good
  BY <1>1, <1>a, <1>b, <1>d, JobsGates DEF Steps, Over
<1>2. ASSUME NEW r \in Req, Jobs!RecordCall(r) \/ Jobs!SearchFirst(r) \/ Jobs!SearchSecond(r)
      PROVE  Good
  BY <1>2, <1>a, <1>b, <1>d, JobsRecord, JobsSearch DEF Over
<1>3. ASSUME NEW r \in Req, Jobs!ReadKnown(r)
      PROVE  Good
  <2>1. \A q \in Req, j \in Job : Has(q, j)' => Has(q, j)
    BY <1>3, JobsRead DEF Alone
  <2> QED
    BY <1>3, <2>1, <1>a, JobsRead
<1>4. ASSUME NEW r \in Req, Jobs!InsertNew(r)
      PROVE  Good
  <2>1. /\ jReported' = jReported /\ Alone(r) /\ jRequest[r].step = "insert"
        /\ jRequest'[r].new = jRequest[r].new /\ jRequest'[r].step = "refresh"
        /\ \A j \in jRequest[r].new : jFeed[j].status = "none" /\ jFeed'[j].status # "none"
    BY <1>4, JobsInsert, JobsFiled, JobsRowsKept DEF Steps
  <2>2. \A j \in Job, q \in Req : Has(q, j)' <=> Has(q, j) \/ (q = r /\ j \in jRequest[r].new)
    BY <2>1 DEF Alone
  <2>3. \A j \in jRequest[r].new, q \in Req : jReported[j] = 0 /\ ~Has(q, j)
    BY <2>1, <1>0, JobsRowsKept
  <2> HIDE DEF Has
  <2> QED
    BY <1>0, <1>k, <2>1, <2>2, <2>3
<1>5. ASSUME NEW r \in Req, Jobs!PersistFails(r) \/ Jobs!SaveKit(r)
      PROVE  Good
  BY <1>5, <1>a, <1>b, <1>d, JobsFails, JobsSaveKit DEF Over
<1>6. ASSUME NEW r \in Req, Jobs!Judged(r)
      PROVE  Good
  BY <1>6, <1>a, <1>c, JobsJudged DEF Steps
<1>7. ASSUME NEW r \in Req, NEW j \in Job, Jobs!Refresh(r, j) \/ Jobs!Annotate(r, j)
      PROVE  Good
  BY <1>7, <1>a, <1>c, JobsRefresh, JobsAnnotate DEF Steps
<1>8. ASSUME NEW r \in Req, Jobs!Charge(r)
      PROVE  Good
  <2>1. /\ Alone(r) /\ jRequest[r].step = "annotate" /\ Over(r) /\ jFeed' = jFeed
        /\ \A j \in Job : jReported'[j] = IF j \in jRequest[r].new THEN jReported[j] + 1 ELSE jReported[j]
    BY <1>8, JobsCharge
  <2>2. \A j \in Job : j \in jRequest[r].new => Has(r, j)
    BY <2>1
  <2>3. \A j \in Job, q \in Req : Has(q, j)' <=> q # r /\ Has(q, j)
    BY <2>1, <1>d DEF Alone, Over
  <2> HIDE DEF Has
  <2> QED
    BY <1>0, <2>1, <2>2, <2>3
<1>9. ASSUME NEW r \in Req, NEW j \in Job, Jobs!ReadForKit(r, j)
      PROVE  Good
  BY <1>9, <1>a, <1>b, JobsKit DEF Steps
<1>10. ASSUME NEW j \in Job, Jobs!Dismiss(j)
       PROVE  Good
  BY <1>10, <1>a DEF Jobs!Dismiss
<1>11. ASSUME Jobs!V1Searches \/ Jobs!Midnight \/ Jobs!SixHoursLater \/ UNCHANGED Jobs!vars
       PROVE  Good
  BY <1>11, <1>a DEF Jobs!V1Searches, Jobs!Midnight, Jobs!SixHoursLater, Jobs!vars
<1> HIDE DEF Good
<1>12. CASE Jobs!Next
  BY <1>1, <1>2, <1>3, <1>4, <1>5, <1>6, <1>7, <1>8, <1>9, <1>10, <1>11, <1>12 DEF Jobs!Next
<1>13. CASE UNCHANGED Jobs!vars
  BY <1>11, <1>13
<1> QED
  BY <1>12, <1>13

\* The kits of a posting: none while its flag is down, and one for each request
\* that read it so.
LEMMA JobsKits ==
    ASSUME Jobs!TypeOK, Jobs!TypeOK', Jobs!KitsAreCovered, [Jobs!Next]_(Jobs!vars), NEW k \in Job
    PROVE  /\ jFeed'[k].kit \/ Jobs!KitOf(k)' # {} => jFeed'[k].status # "none"
           /\ ~jFeed'[k].kit => jKits'[k] = 0
           /\ jFeed'[k].kit => jKits'[k] + Jobs!Cardinality(Jobs!KitOf(k)') <= Jobs!Cardinality(Req)
<1> DEFINE K == Jobs!KitOf(k)
           n == Jobs!Cardinality(Req)
           Good == /\ jFeed'[k].kit \/ K' # {} => jFeed'[k].status # "none"
                   /\ ~jFeed'[k].kit => jKits'[k] = 0
                   /\ jFeed'[k].kit => jKits'[k] + Jobs!Cardinality(K') <= n
<1>0. /\ n \in Nat \ {0} /\ K \in SUBSET Req /\ K' \in SUBSET Req
      /\ Jobs!Cardinality(K) \in Nat /\ Jobs!Cardinality(K') \in Nat
      /\ Jobs!Cardinality(K) <= n /\ Jobs!Cardinality(K') <= n
      /\ jKits[k] \in Nat /\ jKits'[k] \in Nat
      /\ jFeed[k].kit \in BOOLEAN
  <2>1. K \in SUBSET Req /\ K' \in SUBSET Req
    BY DEF Jobs!KitOf
  <2>2. jFeed[k].kit \in BOOLEAN
    BY DEF Jobs!TypeOK, Jobs!Row
  <2> QED
    BY <2>1, <2>2, JobsTypes, RequestSets DEF Jobs!TypeOK
<1>c. /\ jFeed[k].kit \/ K # {} => jFeed[k].status # "none"
      /\ ~jFeed[k].kit => jKits[k] = 0
      /\ jFeed[k].kit => jKits[k] + Jobs!Cardinality(K) <= n
  BY DEF Jobs!KitsAreCovered, Jobs!Known
<1>r. /\ \A q \in Req : q \in K <=> jRequest[q].step = "kit" /\ k \in jRequest[q].todo
      /\ \A q \in Req : q \in K' <=> jRequest'[q].step = "kit" /\ k \in jRequest'[q].todo
  BY DEF Jobs!KitOf, Jobs!At
<1>k. jFeed[k].status # "none" => jFeed'[k].status # "none"
  BY JobsKnownStays
<1> SUFFICES Good
  OBVIOUS
<1> HIDE DEF K, n
<1>a. ASSUME K' \subseteq K, jKits'[k] = jKits[k],
             jFeed'[k].kit = jFeed[k].kit
      PROVE  Good
  <2>1. Jobs!Cardinality(K') <= Jobs!Cardinality(K)
    BY <1>0, <1>a, RequestCounts
  <2> QED
    BY <1>0, <1>a, <1>c, <1>k, <2>1
<1>b. ASSUME NEW r \in Req, Alone(r), jRequest'[r].step # "kit"
      PROVE  K' \subseteq K
  BY <1>0, <1>b, <1>r DEF Alone
<1>d. Jobs!Idle.step = "idle"
  BY DEF Jobs!Idle
<1>e. ASSUME NEW r \in Req, jRequest[r].step = "insert",
             \A j \in jRequest[r].new : jFeed[j].status = "none",
             \A j \in Job : jFeed'[j] = IF j \in jRequest[r].new THEN Jobs!Filed(j) ELSE jFeed[j]
      PROVE  jFeed'[k].kit = jFeed[k].kit
  BY <1>e, <1>c, <1>0, JobsFiled
<1>1. ASSUME NEW r \in Req, Jobs!PassRescanGate(r) \/ Jobs!PassQuota(r) \/ Jobs!Refused(r)
      PROVE  Good
  BY <1>1, <1>a, <1>b, <1>d, JobsGates DEF Steps, Over
<1>2. ASSUME NEW r \in Req, Jobs!RecordCall(r) \/ Jobs!SearchFirst(r) \/ Jobs!SearchSecond(r)
      PROVE  Good
  BY <1>2, <1>a, <1>b, <1>d, JobsRecord, JobsSearch DEF Over
<1>3. ASSUME NEW r \in Req, Jobs!ReadKnown(r) \/ Jobs!Judged(r)
      PROVE  Good
  BY <1>3, <1>a, <1>b, JobsRead, JobsJudged DEF Steps
<1>4. ASSUME NEW r \in Req, Jobs!InsertNew(r)
      PROVE  Good
  BY <1>4, <1>a, <1>b, <1>e, JobsInsert DEF Steps
<1>5. ASSUME NEW r \in Req, Jobs!PersistFails(r)
      PROVE  Good
  <2>2. \/ jFeed' = jFeed
        \/ /\ jRequest[r].step = "insert"
           /\ \A j \in jRequest[r].new : jFeed[j].status = "none"
           /\ \A j \in Job : jFeed'[j] = IF j \in jRequest[r].new THEN Jobs!Filed(j) ELSE jFeed[j]
        \/ \E j \in jRequest[r].todo :
              jFeed' = [jFeed EXCEPT ![j].details = jRequest[r].stored[j] \union {"facts"}]
    BY <1>5, JobsFails
  <2>1. jFeed'[k].kit = jFeed[k].kit
    BY <2>2, <1>e, JobsDetails, JobsRowsKept
  <2> QED
    BY <1>5, <2>1, <1>a, <1>b, <1>d, JobsFails DEF Over
<1>6. ASSUME NEW r \in Req, NEW j \in Job, Jobs!Refresh(r, j) \/ Jobs!Annotate(r, j)
      PROVE  Good
  <2>2. \/ jFeed' = jFeed
        \/ jFeed' = [jFeed EXCEPT ![j].details = jRequest[r].stored[j] \union {"facts"}]
        \/ jFeed' = [jFeed EXCEPT ![j].details = jRequest[r].stored[j] \union {"verdict"}]
    BY <1>6, JobsRefresh, JobsAnnotate
  <2>1. jFeed'[k].kit = jFeed[k].kit
    BY <2>2, JobsDetails
  <2> QED
    BY <1>6, <2>1, <1>a, <1>b, JobsRefresh, JobsAnnotate DEF Steps
<1>7. ASSUME NEW r \in Req, Jobs!Charge(r)
      PROVE  Good
  BY <1>7, <1>a, <1>b, <1>d, JobsCharge DEF Over
<1>8. ASSUME NEW r \in Req, NEW j \in Job, Jobs!ReadForKit(r, j)
      PROVE  Good
  <2>1. CASE j = k
    <3>1. jFeed[k].status # "none" /\ ~jFeed[k].kit /\ jFeed' = jFeed /\ jKits' = jKits
      BY <1>8, <2>1, JobsKit
    <3> QED
      BY <3>1, <1>c
  <2>2. CASE j # k
    <3>1. K' \subseteq K
      BY <1>8, <2>2, <1>0, <1>r, JobsKit DEF Alone
    <3> QED
      BY <1>8, <3>1, <1>a, JobsKit
  <2> QED
    BY <2>1, <2>2
<1>9. ASSUME NEW r \in Req, Jobs!SaveKit(r)
      PROVE  Good
  <2>1. PICK j \in jRequest[r].todo :
          \/ jFeed' = [jFeed EXCEPT ![j].kit = TRUE] /\ jKits' = [jKits EXCEPT ![j] = jKits[j] + 1]
          \/ jFeed' \in {jFeed, [jFeed EXCEPT ![j].kit = TRUE]} /\ jKits' = jKits
    BY <1>9, JobsSaveKit
  <2>2. j \in Job
    BY JobsRowsKept
  <2>3. jRequest[r].step = "kit" /\ Alone(r) /\ jRequest'[r].step = "idle"
    BY <1>9, <1>d, JobsSaveKit DEF Over
  <2>4. CASE j # k
    <3>1. jKits'[k] = jKits[k] /\ jFeed'[k].kit = jFeed[k].kit
      BY <2>1, <2>2, <2>4, JobsKitFlag, JobsTypes
    <3> QED
      BY <3>1, <2>3, <1>a, <1>b
  <2>5. CASE j = k
    <3>1. K' = K \ {r} /\ r \in K
      BY <2>3, <2>5, <1>0, <1>r DEF Alone
    <3>2. Jobs!Cardinality(K') = Jobs!Cardinality(K) - 1
      BY <3>1, <1>0, RequestSets
    <3>3. /\ jKits'[k] \in {jKits[k], jKits[k] + 1}
          /\ \/ jFeed'[k].kit = TRUE
             \/ jFeed'[k].kit = jFeed[k].kit /\ jKits'[k] = jKits[k]
      BY <2>1, <2>2, <2>5, JobsKitFlag, JobsTypes
    <3>4. jFeed[k].status # "none"
      BY <3>1, <1>c
    <3> QED
      BY <3>1, <3>2, <3>3, <3>4, <1>0, <1>c, <1>k
  <2> QED
    BY <2>4, <2>5
<1>10. ASSUME NEW j \in Job, Jobs!Dismiss(j)
       PROVE  Good
  <2>1. jFeed'[k].kit = jFeed[k].kit /\ jRequest' = jRequest /\ jKits' = jKits
    BY <1>10, JobsDismissed DEF Jobs!Dismiss
  <2>2. K' \subseteq K
    BY <2>1, <1>0, <1>r
  <2> QED
    BY <2>1, <2>2, <1>a
<1>11. ASSUME Jobs!V1Searches \/ Jobs!Midnight \/ Jobs!SixHoursLater \/ UNCHANGED Jobs!vars
       PROVE  Good
  <2>1. jFeed' = jFeed /\ jRequest' = jRequest /\ jKits' = jKits
    BY <1>11 DEF Jobs!V1Searches, Jobs!Midnight, Jobs!SixHoursLater, Jobs!vars
  <2>2. K' \subseteq K
    BY <2>1, <1>0, <1>r
  <2> QED
    BY <2>1, <2>2, <1>a
<1> HIDE DEF Good
<1>12. CASE Jobs!Next
  BY <1>1, <1>2, <1>3, <1>4, <1>5, <1>6, <1>7, <1>8, <1>9, <1>10, <1>11, <1>12 DEF Jobs!Next
<1>13. CASE UNCHANGED Jobs!vars
  BY <1>11, <1>13
<1> QED
  BY <1>12, <1>13

\* What a request is to write of a posting has the facts in it.
LEMMA JobsWrites ==
    ASSUME Jobs!TypeOK, Jobs!TypeOK', Jobs!WritesHaveFacts, [Jobs!Next]_(Jobs!vars)
    PROVE  Jobs!WritesHaveFacts'
<1> DEFINE W(r) ==
              /\ jRequest[r].step = "insert" => jRequest[r].found = jRequest[r].new \union jRequest[r].todo
              /\ jRequest[r].step = "refresh" =>
                    \A j \in jRequest[r].found \ jRequest[r].todo : "facts" \in jRequest[r].stored[j]
              /\ jRequest[r].step = "annotate" =>
                    /\ jRequest[r].todo \subseteq jRequest[r].found
                    /\ \A j \in jRequest[r].found : "facts" \in jRequest[r].stored[j]
<1>0. \A q \in Req : W(q)
  BY DEF Jobs!WritesHaveFacts
<1> SUFFICES \A q \in Req : W(q)'
  BY DEF Jobs!WritesHaveFacts
<1>a. ASSUME NEW r \in Req, Alone(r), W(r)' PROVE \A q \in Req : W(q)'
  BY <1>0, <1>a DEF Alone
<1>b. ASSUME NEW r \in Req, jRequest'[r].step \notin {"insert", "refresh", "annotate"} PROVE W(r)'
  BY <1>b
<1>c. ASSUME jRequest' = jRequest PROVE \A q \in Req : W(q)'
  BY <1>0, <1>c
<1>d. Jobs!Idle.step = "idle"
  BY DEF Jobs!Idle
<1>1. ASSUME NEW r \in Req, \/ Jobs!PassRescanGate(r) \/ Jobs!PassQuota(r) \/ Jobs!Refused(r)
      PROVE  Alone(r) /\ W(r)'
  BY <1>1, <1>b, <1>d, JobsGates DEF Steps, Over
<1>2. ASSUME NEW r \in Req, Jobs!RecordCall(r) \/ Jobs!SearchFirst(r) \/ Jobs!SearchSecond(r)
      PROVE  Alone(r) /\ W(r)'
  BY <1>2, <1>b, <1>d, JobsRecord, JobsSearch DEF Over
<1>3. ASSUME NEW r \in Req, Jobs!ReadKnown(r)
      PROVE  Alone(r) /\ W(r)'
  BY <1>3, JobsRead
<1>4. ASSUME NEW r \in Req, Jobs!InsertNew(r)
      PROVE  Alone(r) /\ W(r)'
  <2>1. /\ Alone(r) /\ jRequest'[r].step = "refresh"
        /\ jRequest[r].found = jRequest[r].new \union jRequest[r].todo
        /\ jRequest'[r].found = jRequest[r].found /\ jRequest'[r].todo = jRequest[r].todo
        /\ \A j \in Job : jRequest'[r].stored[j] = IF j \in jRequest[r].new THEN {"facts"}
                                                      ELSE jRequest[r].stored[j]
    BY <1>4, <1>0, JobsInsert DEF Steps
  <2>2. \A j \in jRequest[r].found \ jRequest[r].todo : "facts" \in jRequest'[r].stored[j]
    BY <2>1, JobsRowsKept
  <2> QED
    BY <2>1, <2>2
<1>5. ASSUME NEW r \in Req, Jobs!PersistFails(r) \/ Jobs!Charge(r) \/ Jobs!SaveKit(r)
      PROVE  Alone(r) /\ W(r)'
  BY <1>5, <1>b, <1>d, JobsFails, JobsCharge, JobsSaveKit DEF Over
<1>6. ASSUME NEW r \in Req, Jobs!Judged(r)
      PROVE  Alone(r) /\ W(r)'
  BY <1>6, <1>0, JobsJudged DEF Steps
<1>7. ASSUME NEW r \in Req, NEW j \in Job, Jobs!Refresh(r, j)
      PROVE  Alone(r) /\ W(r)'
  <2>1. /\ Alone(r) /\ jRequest[r].step = "refresh" /\ jRequest'[r].step = "refresh"
        /\ jRequest'[r].found = jRequest[r].found /\ jRequest'[r].todo = jRequest[r].todo \ {j}
        /\ jRequest'[r].stored = [jRequest[r].stored EXCEPT ![j] = jRequest[r].stored[j] \union {"facts"}]
    BY <1>7, JobsRefresh DEF Steps
  <2>2. /\ jRequest[r].stored \in [Job -> SUBSET Jobs!Detail] /\ jRequest[r].found \subseteq Job
    BY DEF Jobs!TypeOK
  <2>3. \A i \in Job : jRequest'[r].stored[i] = IF i = j THEN jRequest[r].stored[j] \union {"facts"}
                                                ELSE jRequest[r].stored[i]
    BY <2>1, <2>2
  <2>4. \A i \in jRequest[r].found \ jRequest[r].todo : "facts" \in jRequest[r].stored[i]
    BY <1>0, <2>1
  <2>5. \A i \in jRequest'[r].found \ jRequest'[r].todo : "facts" \in jRequest'[r].stored[i]
    BY <2>1, <2>2, <2>3, <2>4
  <2> QED
    BY <2>1, <2>5
<1>8. ASSUME NEW r \in Req, NEW j \in Job, Jobs!Annotate(r, j)
      PROVE  Alone(r) /\ W(r)'
  BY <1>8, <1>0, JobsAnnotate DEF Steps
<1>9. ASSUME NEW r \in Req, NEW j \in Job, Jobs!ReadForKit(r, j)
      PROVE  Alone(r) /\ W(r)'
  BY <1>9, <1>b, JobsKit DEF Steps
<1>10. ASSUME NEW j \in Job, Jobs!Dismiss(j)
       PROVE  \A q \in Req : W(q)'
  BY <1>10, <1>c DEF Jobs!Dismiss
<1>11. ASSUME Jobs!V1Searches \/ Jobs!Midnight \/ Jobs!SixHoursLater \/ UNCHANGED Jobs!vars
       PROVE  \A q \in Req : W(q)'
  BY <1>11, <1>c DEF Jobs!V1Searches, Jobs!Midnight, Jobs!SixHoursLater, Jobs!vars
<1> HIDE DEF W
<1>12. CASE Jobs!Next
  BY <1>a, <1>1, <1>2, <1>3, <1>4, <1>5, <1>6, <1>7, <1>8, <1>9, <1>10, <1>11, <1>12 DEF Jobs!Next
<1>13. CASE UNCHANGED Jobs!vars
  BY <1>11, <1>13
<1> QED
  BY <1>12, <1>13

\* No step takes a dismissal back, or the facts out of a row.
LEMMA JobsRespect ==
    ASSUME Jobs!TypeOK, Jobs!WritesHaveFacts, [Jobs!Next]_(Jobs!vars), NEW k \in Job
    PROVE  /\ jFeed[k].status = "dismissed" => jFeed'[k].status = "dismissed"
           /\ "facts" \in jFeed[k].details => "facts" \in jFeed'[k].details
<1> DEFINE Good == /\ jFeed[k].status = "dismissed" => jFeed'[k].status = "dismissed"
                   /\ "facts" \in jFeed[k].details => "facts" \in jFeed'[k].details
<1> SUFFICES Good
  OBVIOUS
<1>1. ASSUME NEW r \in Req, Jobs!InsertNew(r) PROVE Good
  <2>1. /\ \A j \in jRequest[r].new : jFeed[j].status = "none"
        /\ \A j \in Job : jFeed'[j] = IF j \in jRequest[r].new THEN Jobs!Filed(j) ELSE jFeed[j]
    BY <1>1, JobsInsert
  <2> QED
    BY <2>1, JobsFiled
<1>2. ASSUME NEW r \in Req, Jobs!PersistFails(r) PROVE Good
  <2>1. \/ jFeed' = jFeed
        \/ /\ \A j \in jRequest[r].new : jFeed[j].status = "none"
           /\ \A j \in Job : jFeed'[j] = IF j \in jRequest[r].new THEN Jobs!Filed(j) ELSE jFeed[j]
        \/ \E j \in jRequest[r].todo :
              jFeed' = [jFeed EXCEPT ![j].details = jRequest[r].stored[j] \union {"facts"}]
    BY <1>2, JobsFails
  <2>2. CASE /\ \A j \in jRequest[r].new : jFeed[j].status = "none"
             /\ \A j \in Job : jFeed'[j] = IF j \in jRequest[r].new THEN Jobs!Filed(j) ELSE jFeed[j]
    BY <2>2, JobsFiled
  <2>3. ASSUME NEW j \in jRequest[r].todo,
               jFeed' = [jFeed EXCEPT ![j].details = jRequest[r].stored[j] \union {"facts"}]
        PROVE  Good
    <3>1. j \in Job
      BY JobsRowsKept
    <3> QED
      BY <3>1, <2>3, JobsDetails
  <2> QED
    BY <2>1, <2>2, <2>3
<1>3. ASSUME NEW r \in Req, NEW j \in Job, Jobs!Refresh(r, j) PROVE Good
  <2>1. jFeed' = [jFeed EXCEPT ![j].details = jRequest[r].stored[j] \union {"facts"}]
    BY <1>3, JobsRefresh
  <2> QED
    BY <2>1, JobsDetails
<1>4. ASSUME NEW r \in Req, NEW j \in Job, Jobs!Annotate(r, j) PROVE Good
  <2>1. \/ jFeed' = jFeed
        \/ jFeed' = [jFeed EXCEPT ![j].details = jRequest[r].stored[j] \union {"verdict"}]
    BY <1>4, JobsAnnotate
  <2>2. "facts" \in jRequest[r].stored[j]
    BY <1>4, JobsAnnotate DEF Jobs!WritesHaveFacts, Steps
  <2> QED
    BY <2>1, <2>2, JobsDetails
<1>5. ASSUME NEW r \in Req, Jobs!SaveKit(r) PROVE Good
  <2>1. PICK j \in jRequest[r].todo : jFeed' = jFeed \/ jFeed' = [jFeed EXCEPT ![j].kit = TRUE]
    BY <1>5, JobsSaveKit
  <2> QED
    BY <2>1, JobsKitFlag, JobsRowsKept
<1>6. ASSUME NEW j \in Job, Jobs!Dismiss(j) PROVE Good
  BY <1>6, JobsDismissed
<1>7. ASSUME NEW r \in Req,
             \/ Jobs!PassRescanGate(r) \/ Jobs!PassQuota(r) \/ Jobs!Refused(r)
             \/ Jobs!RecordCall(r) \/ Jobs!SearchFirst(r) \/ Jobs!SearchSecond(r)
             \/ Jobs!ReadKnown(r) \/ Jobs!Judged(r) \/ Jobs!Charge(r)
             \/ \E j \in Job : Jobs!ReadForKit(r, j)
      PROVE  jFeed' = jFeed
  BY <1>7, JobsGates, JobsRecord, JobsSearch, JobsRead, JobsJudged, JobsCharge, JobsKit
<1>8. ASSUME Jobs!V1Searches \/ Jobs!Midnight \/ Jobs!SixHoursLater \/ UNCHANGED Jobs!vars
      PROVE  jFeed' = jFeed
  BY <1>8 DEF Jobs!V1Searches, Jobs!Midnight, Jobs!SixHoursLater, Jobs!vars
<1>9. CASE jFeed' = jFeed
  BY <1>9
<1> HIDE DEF Good
<1>10. CASE Jobs!Next
  BY <1>1, <1>2, <1>3, <1>4, <1>5, <1>6, <1>7, <1>8, <1>9, <1>10 DEF Jobs!Next
<1>11. CASE UNCHANGED Jobs!vars
  BY <1>8, <1>9, <1>11
<1> QED
  BY <1>10, <1>11

\* The inductive invariant is preserved by every step.
LEMMA JobsNext ==
    ASSUME Jobs!IndInv, [Jobs!Next]_(Jobs!vars)
    PROVE  Jobs!IndInv'
<1>1. Jobs!TypeOK /\ Jobs!TypeOK'
  BY JobsTypeOK DEF Jobs!IndInv
<1>2. Jobs!RecordedCallsCount'
  BY <1>1, JobsRecordedCalls DEF Jobs!IndInv
<1>3. Jobs!FiledByOne' /\ Jobs!NewOnce'
  BY <1>1, JobsFiledByOne DEF Jobs!IndInv
<1>4. Jobs!ChargesAreCovered'
  BY <1>1, JobsCharges DEF Jobs!IndInv
<1>5. Jobs!KitsAreCovered'
  BY <1>1, JobsKits DEF Jobs!IndInv, Jobs!KitsAreCovered, Jobs!Known
<1>6. Jobs!WritesHaveFacts'
  BY <1>1, JobsWrites DEF Jobs!IndInv
<1>7. Jobs!QuotaBounded'
  <2>1. Jobs!Cardinality(Jobs!Recording') \in Nat
    BY RequestSets DEF Jobs!Recording
  <2>2. jCalled' \in Nat /\ Cap \in Nat /\ Jobs!Cardinality(Req) \in Nat
    BY <1>1, JobsConstants, RequestSets DEF Jobs!TypeOK
  <2> QED
    BY <1>2, <2>1, <2>2 DEF Jobs!RecordedCallsCount, Jobs!QuotaBounded
<1>8. Jobs!PaidOnlyByOverlap'
  <2>1. /\ Jobs!Cardinality(Jobs!Scans') \in Nat /\ Jobs!Cardinality(Req) \in Nat
        /\ jScans' \in Nat /\ jBlind' \in Nat /\ jRecent' \in BOOLEAN
    BY <1>1, RequestSets DEF Jobs!Scans, Jobs!TypeOK
  <2>2. jScans' <= Jobs!Cardinality(Req) + jBlind'
    BY <1>4, <2>1 DEF Jobs!ChargesAreCovered
  <2>3. ASSUME NEW j \in Job PROVE jKits'[j] <= Jobs!Cardinality(Req)
    <3>1. Jobs!Cardinality(Jobs!KitOf(j)') \in Nat /\ jKits'[j] \in Nat
      BY <1>1, RequestSets DEF Jobs!KitOf, Jobs!TypeOK
    <3>2. /\ ~jFeed'[j].kit => jKits'[j] = 0
          /\ jFeed'[j].kit => jKits'[j] + Jobs!Cardinality(Jobs!KitOf(j)') <= Jobs!Cardinality(Req)
      BY <1>5 DEF Jobs!KitsAreCovered
    <3> QED
      BY <3>1, <3>2, <2>1
  <2> QED
    BY <2>2, <2>3 DEF Jobs!PaidOnlyByOverlap
<1> QED
  BY <1>1, <1>2, <1>3, <1>4, <1>5, <1>6, <1>7, <1>8 DEF Jobs!IndInv

\* Every reachable state of the desk satisfies it.
THEOREM JobsInductive == DeskSpec => []Jobs!IndInv
<1>1. Jobs!IndInv /\ [DeskNext]_everything => Jobs!IndInv'
  BY JobsStep, JobsNext
<1> QED
  BY JobsInit, <1>1, PTL DEF DeskSpec

\* The cap is overshot by at most one call for each other request under way.
THEOREM QuotaIsBounded == DeskSpec => []QuotaBounded
<1>1. Jobs!IndInv => QuotaBounded
  BY DEF Jobs!IndInv, QuotaBounded
<1> QED
  BY JobsInductive, <1>1, PTL

\* A posting is reported as new by one scan at most: persist files a row once
\* and only the scan that filed it counts it as new.
THEOREM NewIsOnce == DeskSpec => []NewOnce
<1>1. Jobs!IndInv => NewOnce
  BY DEF Jobs!IndInv, NewOnce
<1> QED
  BY JobsInductive, <1>1, PTL

\* No scan brings a dismissed posting back or takes an apply link away: annotate
\* writes details over what was read, never the status.
THEOREM FeedIsRespected == DeskSpec => FeedRespectsTheUser
<1>1. Jobs!IndInv /\ [DeskNext]_everything =>
        [\A j \in Job :
           /\ jFeed[j].status = "dismissed" => jFeed'[j].status = "dismissed"
           /\ "facts" \in jFeed[j].details => "facts" \in jFeed'[j].details]_(Jobs!vars)
  BY JobsStep, JobsRespect DEF Jobs!IndInv
<1> QED
  BY JobsInductive, <1>1, PTL DEF DeskSpec, FeedRespectsTheUser, Jobs!FeedRespectsTheUser

-----------------------------------------------------------------------------
(* The Naukri cycle.  While the cycle is open, what was paid and what the  *)
(* runs priced before may still pay are together no more than the runs     *)
(* that fit in Req.                                                        *)

\* What the Naukri cycle take for granted of their constants.
LEMMA NaukriConstants == MaxRuns \in Nat /\ Edits \subseteq Naukri!Profile
BY DeskAssumption

\* A step of the desk is a step of the Naukri cycle, or leaves their variables alone.
LEMMA NaukriStep == [DeskNext]_everything => [Naukri!Next]_(Naukri!vars)
BY DEF DeskNext, OthersWait, Off, everything, naukri, Naukri!vars

\* The instances count sets the same way.
LEMMA NaukriCardinality == \A S : Naukri!Cardinality(S) = Jobs!Cardinality(S)
BY DEF Jobs!Cardinality, Naukri!Cardinality

\* The score of a profile is a percentage.
LEMMA ScoreIsPercent ==
    ASSUME NEW p \in Naukri!Profile
    PROVE  Naukri!Score(Naukri!Dimensions(p)) \in -1 .. 100
<1> DEFINE dims == Naukri!Dimensions(p)
<1>1. p.headline \in 0 .. 4 /\ p.filters \in 0 .. 2
  BY DEF Naukri!Profile, Naukri!HeadlineParts, Naukri!FilterFields
<1>2. dims.headline \in 0 .. 100 /\ dims.filters \in 0 .. 100
  BY <1>1 DEF Naukri!Dimensions, Naukri!HeadlineParts, Naukri!FilterFields
<1> HIDE DEF dims
<1>3. Naukri!Assessed(dims) = {"headline", "filters"}
  <2>1. DOMAIN Naukri!Weight = {"headline", "filters"}
    BY DEF Naukri!Weight
  <2>2. dims["headline"] # Naukri!Unassessed /\ dims["filters"] # Naukri!Unassessed
    BY <1>2 DEF Naukri!Unassessed
  <2> QED
    BY <2>1, <2>2 DEF Naukri!Assessed
<1>4. Naukri!AssessedWeight(dims) = 30
  BY <1>3 DEF Naukri!AssessedWeight, Naukri!Weight
<1>5. Naukri!Weight["headline"] = 20 /\ Naukri!Weight["filters"] = 10
  BY DEF Naukri!Weight
<1>6. Naukri!Score(dims) = (2 * (20 * dims.headline + 10 * dims.filters) + 30) \div (2 * 30)
  BY <1>3, <1>4, <1>5 DEF Naukri!Score
<1>7. (2 * (20 * dims.headline + 10 * dims.filters) + 30) \div 60 \in -1 .. 100
  <2>1. PICK a \in 0 .. 100, b \in 0 .. 100 : a = dims.headline /\ b = dims.filters
    BY <1>2
  <2> DEFINE x == 2 * (20 * a + 10 * b) + 30
  <2>2. x \in Int /\ x >= 30 /\ x <= 6030
    OBVIOUS
  <2> HIDE DEF x
  <2>3. x \div 60 \in Int
    BY <2>2
  <2>4. x \div 60 >= 0 /\ x \div 60 <= 100
    BY <2>2
  <2>5. x \div 60 \in -1 .. 100
    BY <2>3, <2>4
  <2> QED
    BY <2>1, <2>5 DEF x
<1> QED
  BY <1>6, <1>7 DEF dims

\* A preview has no score.
LEMMA PreviewScore == Naukri!Score(Naukri!Preview) = -1
<1>1. Naukri!Assessed(Naukri!Preview) = {}
  BY DEF Naukri!Assessed, Naukri!Preview, Naukri!Unassessed, Naukri!Weight
<1>2. Naukri!AssessedWeight(Naukri!Preview) = 0
  BY <1>1 DEF Naukri!AssessedWeight
<1> QED
  BY <1>2 DEF Naukri!Score, Naukri!Unassessed

NRow == [cycle : Naukri!CycleState, score : -1 .. 100]
NRecord == [step : {"idle", "priced", "charge"}, price : Naukri!Price, read : Naukri!Profile]

\* The values the Naukri cycle start from have their types.
LEMMA NaukriIdle == Naukri!Blank \in Naukri!Profile /\ Naukri!Idle \in NRecord /\ Naukri!Idle.step = "idle"
<1>1. Naukri!Blank \in Naukri!Profile
  BY DEF Naukri!Blank, Naukri!Profile, Naukri!HeadlineParts, Naukri!FilterFields
<1> QED
  BY <1>1 DEF Naukri!Idle, NRecord, Naukri!Price

\* The inductive invariant of the Naukri cycle holds at the start.
LEMMA NaukriInit == DeskInit => Naukri!IndInv
<1> SUFFICES ASSUME Naukri!Init PROVE Naukri!IndInv
  BY DEF DeskInit
<1>1. nRow = [cycle |-> "never_run", score |-> -1] /\ nRow.cycle = "never_run"
  BY PreviewScore DEF Naukri!Init
<1>2. nRow \in NRow
  BY <1>1 DEF NRow, Naukri!CycleState
<1>3. /\ nProfile \in Naukri!Profile /\ nRequest \in [Req -> NRecord]
      /\ \A r \in Req : nRequest[r].step = "idle"
  BY NaukriIdle DEF Naukri!Init
<1>4. nRuns \in 0 .. MaxRuns /\ nPaid = 0
  BY NaukriConstants DEF Naukri!Init
<1>5. Naukri!TypeOK
  BY <1>2, <1>3, <1>4 DEF Naukri!TypeOK, NRow, NRecord
<1>6. Naukri!OpenCycleIsCovered /\ Naukri!NoCycleIsUnpaid
  BY <1>1, <1>3, <1>4 DEF Naukri!OpenCycleIsCovered, Naukri!NoCycleIsUnpaid
<1>7. Naukri!CyclePaidOnlyByOverlap
  <2>1. Naukri!Cardinality(Req) \in Nat
    BY RequestSets, NaukriCardinality
  <2> QED
    BY <1>4, <2>1 DEF Naukri!CyclePaidOnlyByOverlap
<1> QED
  BY <1>5, <1>6, <1>7 DEF Naukri!IndInv

\* Every step of the Naukri cycle preserves the inductive invariant, one step of the proof
\* per action.
LEMMA NaukriNext ==
    ASSUME Naukri!IndInv, [Naukri!Next]_(Naukri!vars)
    PROVE  Naukri!IndInv'
<1> DEFINE P == Naukri!PaidRuns
           n == Naukri!Cardinality(Req)
<1>0. /\ nRow \in NRow /\ nProfile \in Naukri!Profile /\ nRequest \in [Req -> NRecord]
      /\ nRuns \in 0 .. MaxRuns /\ MaxRuns \in Nat /\ nPaid \in Nat
  BY NaukriConstants DEF Naukri!IndInv, Naukri!TypeOK, NRow, NRecord
<1>p. /\ n \in Nat \ {0} /\ P \in SUBSET Req /\ P' \in SUBSET Req
      /\ Naukri!Cardinality(P) \in Nat /\ Naukri!Cardinality(P') \in Nat
      /\ Naukri!Cardinality(P) <= n /\ Naukri!Cardinality(P') <= n
  <2>1. P \in SUBSET Req /\ P' \in SUBSET Req
    BY DEF Naukri!PaidRuns
  <2> QED
    BY <2>1, RequestSets, NaukriCardinality
<1>r. /\ \A q \in Req : q \in P <=> nRequest[q].step # "idle" /\ nRequest[q].price = "run_naukri"
      /\ \A q \in Req : q \in P' <=> nRequest'[q].step # "idle" /\ nRequest'[q].price = "run_naukri"
  BY DEF Naukri!PaidRuns
<1>c. /\ nRow.cycle = "needs_tuneup" => nPaid + Naukri!Cardinality(P) <= n
      /\ nRow.cycle # "needs_tuneup" => nPaid = 0 /\ \A r \in Req : nRequest[r].step # "charge"
      /\ nPaid <= n
  BY DEF Naukri!IndInv, Naukri!OpenCycleIsCovered, Naukri!NoCycleIsUnpaid, Naukri!CyclePaidOnlyByOverlap
<1>f. ASSUME nRow' \in NRow, nProfile' \in Naukri!Profile, nRequest' \in [Req -> NRecord],
             nRuns' \in 0 .. MaxRuns, nPaid' \in Nat,
             nRow'.cycle = "needs_tuneup" => nPaid' + Naukri!Cardinality(P') <= n,
             nRow'.cycle # "needs_tuneup" => nPaid' = 0 /\ \A r \in Req : nRequest'[r].step # "charge"
      PROVE  Naukri!IndInv'
  <2>1. Naukri!TypeOK'
    BY <1>f DEF Naukri!TypeOK, NRow, NRecord
  <2>2. nPaid' <= n
    BY <1>f, <1>p
  <2> QED
    BY <1>f, <2>1, <2>2 DEF Naukri!IndInv, Naukri!OpenCycleIsCovered, Naukri!NoCycleIsUnpaid,
                            Naukri!CyclePaidOnlyByOverlap
<1> HIDE DEF P, n
<1>s. \A S, T \in SUBSET Req : S \subseteq T => Naukri!Cardinality(S) <= Naukri!Cardinality(T)
  BY RequestSets, FS_Subset, NaukriCardinality, JobsCardinality
<1>1. ASSUME NEW r \in Req, Naukri!PriceRun(r) PROVE Naukri!IndInv'
  <2> DEFINE price == IF Naukri!StartsNewCycle(nRow.cycle) THEN "run_naukri" ELSE "naukri_step"
             q == [step |-> "priced", read |-> nProfile, price |-> price]
  <2>1. q \in NRecord
    BY <1>0 DEF NRecord, Naukri!Price
  <2>2. /\ nRequest[r].step = "idle" /\ nRequest' = [nRequest EXCEPT ![r] = q]
        /\ nRuns' = nRuns + 1 /\ nRuns < MaxRuns
        /\ UNCHANGED <<nRow, nProfile, nPaid>>
    BY <1>1 DEF Naukri!PriceRun
  <2>3. q.step = "priced" /\ q.price = price
    OBVIOUS
  <2>4. nRow.cycle = "needs_tuneup" => price # "run_naukri"
    BY DEF Naukri!StartsNewCycle
  <2> HIDE DEF q, price
  <2>5. nRequest' \in [Req -> NRecord] /\ nRuns' \in 0 .. MaxRuns
    BY <1>0, <2>1, <2>2
  <2>6. \A k \in Req : nRequest'[k] = IF k = r THEN q ELSE nRequest[k]
    BY <1>0, <2>2
  <2>7. nRow.cycle = "needs_tuneup" => P' \subseteq P
    BY <1>p, <1>r, <2>2, <2>3, <2>4, <2>6
  <2>8. nRow.cycle = "needs_tuneup" => nPaid + Naukri!Cardinality(P') <= n
    BY <1>p, <1>s, <1>c, <1>0, <2>7
  <2>9. nRow.cycle # "needs_tuneup" => nPaid = 0 /\ \A k \in Req : nRequest'[k].step # "charge"
    BY <1>c, <2>3, <2>6
  <2> QED
    BY <1>0, <1>f, <2>2, <2>5, <2>8, <2>9
<1>2. ASSUME NEW r \in Req, Naukri!Work(r) PROVE Naukri!IndInv'
  <2>1. /\ nRequest[r].step = "priced" /\ nRequest' = [nRequest EXCEPT ![r].step = "charge"]
        /\ nRow' = [cycle |-> "needs_tuneup", score |-> Naukri!Score(Naukri!Dimensions(nRequest[r].read))]
        /\ UNCHANGED <<nProfile, nRuns, nPaid>>
    BY <1>2 DEF Naukri!Work
  <2>2. nRow' \in NRow /\ nRow'.cycle = "needs_tuneup"
    BY <1>0, <2>1, ScoreIsPercent DEF NRow, NRecord, Naukri!CycleState
  <2>3. nRequest' \in [Req -> NRecord]
    BY <1>0, <2>1 DEF NRecord
  <2>4. P' \subseteq P
    BY <1>0, <1>p, <1>r, <2>1 DEF NRecord
  <2>5. nPaid + Naukri!Cardinality(P') <= n
    BY <1>p, <1>s, <1>c, <1>0, <2>4
  <2> QED
    BY <1>0, <1>f, <2>1, <2>2, <2>3, <2>5
<1>3. ASSUME NEW r \in Req, Naukri!WorkFails(r) PROVE Naukri!IndInv'
  <2>1. /\ nRequest[r].step = "priced" /\ nRequest' = [nRequest EXCEPT ![r] = Naukri!Idle]
        /\ UNCHANGED <<nProfile, nRuns, nPaid>>
        /\ \/ nRow' = nRow
           \/ nRow' = [cycle |-> "needs_tuneup", score |-> Naukri!Score(Naukri!Dimensions(nRequest[r].read))]
    BY <1>3 DEF Naukri!WorkFails
  <2>2. nRow' \in NRow /\ (nRow'.cycle = nRow.cycle \/ nRow'.cycle = "needs_tuneup")
    BY <1>0, <2>1, ScoreIsPercent DEF NRow, NRecord, Naukri!CycleState
  <2>3. nRequest' \in [Req -> NRecord] /\ \A k \in Req : nRequest'[k] = IF k = r THEN Naukri!Idle ELSE nRequest[k]
    BY <1>0, <2>1, NaukriIdle
  <2>4. P' \subseteq P
    BY <1>p, <1>r, <2>3, NaukriIdle
  <2>5. nRow'.cycle = "needs_tuneup" => nPaid + Naukri!Cardinality(P') <= n
    <3>1. CASE nRow.cycle = "needs_tuneup"
      BY <3>1, <1>p, <1>s, <1>c, <1>0, <2>4
    <3>2. CASE nRow.cycle # "needs_tuneup"
      BY <3>2, <1>p, <1>c
    <3> QED
      BY <3>1, <3>2
  <2>6. nRow'.cycle # "needs_tuneup" => nPaid = 0 /\ \A k \in Req : nRequest'[k].step # "charge"
    BY <1>c, <2>2, <2>3, NaukriIdle
  <2> QED
    BY <1>0, <1>f, <2>1, <2>2, <2>3, <2>5, <2>6
<1>4. ASSUME NEW r \in Req, Naukri!Charge(r) PROVE Naukri!IndInv'
  <2>1. /\ nRequest[r].step = "charge" /\ nRequest' = [nRequest EXCEPT ![r] = Naukri!Idle]
        /\ UNCHANGED <<nRow, nProfile, nRuns>>
        /\ nPaid' = nPaid \/ (nPaid' = nPaid + 1 /\ nRequest[r].price = "run_naukri")
    BY <1>4 DEF Naukri!Charge
  <2>2. nRequest' \in [Req -> NRecord] /\ \A k \in Req : nRequest'[k] = IF k = r THEN Naukri!Idle ELSE nRequest[k]
    BY <1>0, <2>1, NaukriIdle
  <2>3. nRow.cycle = "needs_tuneup" /\ nPaid + Naukri!Cardinality(P) <= n
    BY <1>c, <2>1
  <2>4. P' = P \ {r}
    BY <1>p, <1>r, <2>2, NaukriIdle
  <2>5. nPaid' + Naukri!Cardinality(P') <= n /\ nPaid' \in Nat
    <3>1. CASE nPaid' = nPaid
      BY <3>1, <1>0, <1>p, <1>s, <2>3, <2>4
    <3>2. CASE nPaid' = nPaid + 1 /\ nRequest[r].price = "run_naukri"
      <4>1. r \in P
        BY <3>2, <2>1, <1>r
      <4>2. Naukri!Cardinality(P') = Naukri!Cardinality(P) - 1
        BY <4>1, <2>4, <1>p, RequestSets, NaukriCardinality
      <4> QED
        BY <3>2, <4>2, <1>0, <1>p, <2>3
    <3> QED
      BY <2>1, <3>1, <3>2
  <2> QED
    BY <1>0, <1>f, <2>1, <2>2, <2>3, <2>5
<1>5. ASSUME Naukri!EditProfile PROVE Naukri!IndInv'
  <2>1. nProfile' \in Naukri!Profile /\ UNCHANGED <<nRow, nRequest, nRuns, nPaid>>
    BY <1>5, NaukriConstants DEF Naukri!EditProfile
  <2>2. P' = P
    BY <2>1, <1>p, <1>r
  <2> QED
    BY <1>0, <1>c, <1>f, <2>1, <2>2
<1>6. ASSUME Naukri!Optimized PROVE Naukri!IndInv'
  <2>1. /\ \A r \in Req : nRequest[r].step = "idle"
        /\ nRow' = [nRow EXCEPT !.cycle = "optimized"] /\ nPaid' = 0
        /\ UNCHANGED <<nProfile, nRequest, nRuns>>
    BY <1>6 DEF Naukri!Optimized
  <2>2. nRow' \in NRow /\ nRow'.cycle = "optimized"
    BY <1>0, <2>1 DEF NRow, Naukri!CycleState
  <2> QED
    BY <1>0, <1>f, <2>1, <2>2
<1>7. CASE UNCHANGED Naukri!vars
  <2>1. UNCHANGED <<nRow, nProfile, nRequest, nRuns, nPaid>>
    BY <1>7 DEF Naukri!vars
  <2>2. P' = P
    BY <2>1, <1>p, <1>r
  <2> QED
    BY <1>0, <1>c, <1>f, <2>1, <2>2
<1> QED
  BY <1>1, <1>2, <1>3, <1>4, <1>5, <1>6, <1>7 DEF Naukri!Next

\* The inductive invariant of the Naukri cycle always holds, whatever handlers run.
THEOREM NaukriInductive == DeskSpec => []Naukri!IndInv
<1>1. Naukri!IndInv /\ [DeskNext]_everything => Naukri!IndInv'
  BY NaukriStep, NaukriNext
<1> QED
  BY NaukriInit, <1>1, PTL DEF DeskSpec

-----------------------------------------------------------------------------
(* Rate limits.  What a process admitted and what its bucket still allows  *)
(* are together no more than what its starts filled and time refilled; a   *)
(* process that wrote a heartbeat has its row as long as a census reads it.*)

\* What the rate limits take for granted of their constants.
LEMMA LimitsConstants ==
    /\ IsFiniteSet(Req) /\ Limits!Capacity \in Nat /\ Unit \in Nat \ {0} /\ Rate \in Nat
    /\ AliveWindow \in Nat /\ LastTick \in Nat /\ MaxStarts \in Nat
<1>1. Burst \in Nat /\ Unit \in Nat
  BY DeskAssumption
<1>2. Burst * Unit \in Nat
  BY <1>1
<1>3. Limits!Capacity \in Nat
  BY <1>2 DEF Limits!Capacity
<1> QED
  BY <1>3, DeskAssumption

\* A step of the desk is a step of the rate limits, or leaves their variables alone.
LEMMA LimitsStep == [DeskNext]_everything => [Limits!Next]_(Limits!vars)
BY DEF DeskNext, OthersWait, Off, everything, limits, Limits!vars

\* The instances count sets the same way.
LEMMA LimitsCardinality == \A S : Limits!Cardinality(S) = Cardinality(S)
BY DEF Limits!Cardinality, Cardinality

\* Products, for the provers.
LEMMA ProductNat == ASSUME NEW a \in Nat, NEW b \in Nat PROVE a * b \in Nat
OBVIOUS

\* One more times b.
LEMMA ProductNext == ASSUME NEW a \in Int, NEW b \in Int PROVE (a + 1) * b = a * b + b
OBVIOUS

LProcess == [stage : {"down", "beat", "serves"}, beat : -1 .. LastTick, seen : Limits!Seen]
LBucket == [tokens : 0 .. Limits!Capacity, updated : -1 .. LastTick]

\* The types of the rate limits, each as one set.
LEMMA LimitsTypes ==
    Limits!TypeOK <=>
        /\ lNow \in 0 .. LastTick /\ lProcess \in [Req -> LProcess] /\ lRows \subseteq Limits!Row
        /\ lBucket \in [Req -> LBucket]
        /\ lStarts \in [Req -> 0 .. MaxStarts] /\ lAdmitted \in [Req -> Nat]
BY DEF Limits!TypeOK, LProcess, LBucket, Limits!Unnamed

\* A process that is down, and a bucket nobody took from.
LEMMA LimitsDown ==
    /\ Limits!Down \in LProcess /\ Limits!NoBucket \in LBucket
    /\ Limits!Down.stage = "down" /\ Limits!Down.beat = -1
    /\ Limits!NoBucket.tokens = 0 /\ Limits!NoBucket.updated = -1
  <1>1. 0 \in 0 .. Limits!Capacity /\ -1 \in -1 .. LastTick
    BY LimitsConstants
  <1> QED
    BY <1>1 DEF Limits!Down, LProcess, LBucket, Limits!NoBucket, Limits!Seen, Limits!Unnamed

\* The inductive invariant of the rate limits holds at the start.
LEMMA LimitsInit == DeskInit => Limits!IndInv
<1> SUFFICES ASSUME Limits!Init PROVE Limits!IndInv
  BY DEF DeskInit
<1>1. Limits!TypeOK
  <2>1. lNow \in 0 .. LastTick /\ lRows \subseteq Limits!Row
    BY LimitsConstants DEF Limits!Init
  <2>2. lProcess \in [Req -> LProcess] /\ lBucket \in [Req -> LBucket]
    BY LimitsDown DEF Limits!Init
  <2>3. lStarts \in [Req -> 0 .. MaxStarts] /\ lAdmitted \in [Req -> Nat]
    BY LimitsConstants DEF Limits!Init
  <2> QED
    BY <2>1, <2>2, <2>3, LimitsTypes
<1>2. \A p \in Req : /\ lProcess[p].stage = "down" /\ lProcess[p].beat = -1 /\ lBucket[p] = Limits!NoBucket
                     /\ lStarts[p] = 0 /\ lAdmitted[p] = 0
  BY LimitsDown DEF Limits!Init
<1>3. 0 * Unit = 0 /\ 0 * Limits!Capacity = 0 /\ 0 * Rate = 0
  BY LimitsConstants
<1>4. lNow = 0
  BY DEF Limits!Init
<1>5. Limits!BucketsAreServed
  BY <1>2 DEF Limits!BucketsAreServed
<1>6. Limits!CeilingLeavesRoom /\ Limits!CeilingPerProcess
  BY <1>2, <1>3, <1>4 DEF Limits!CeilingLeavesRoom, Limits!CeilingPerProcess, Limits!Left
<1>7. Limits!BeatsHaveRows
  <2>1. \A p \in Req : /\ lProcess[p].beat <= lNow
                       /\ lProcess[p].stage # "beat" /\ lProcess[p].beat = Limits!Unnamed
    <3>1. -1 <= lNow /\ -1 = Limits!Unnamed
      BY <1>4 DEF Limits!Unnamed
    <3> QED
      BY <1>2, <3>1
  <2> QED
    BY <2>1 DEF Limits!BeatsHaveRows
<1>8. Limits!StartedTogetherIsSeen
  BY <1>2 DEF Limits!StartedTogetherIsSeen, Limits!Serving
<1> QED
  BY <1>1, <1>5, <1>6, <1>7, <1>8 DEF Limits!IndInv

\* The refill of a bucket fills it up to its capacity.
LEMMA LimitsRefilled ==
    ASSUME Limits!TypeOK, Limits!BucketsAreServed, NEW p \in Req
    PROVE  LET b == Limits!BucketOf(p)
               f == Limits!Refilled(b)
           IN  /\ b.updated \in 0 .. lNow /\ b.tokens \in 0 .. Limits!Capacity
               /\ f = [tokens |-> f.tokens, updated |-> lNow]
               /\ f.tokens \in 0 .. Limits!Capacity
               /\ f.tokens <= b.tokens + (lNow - b.updated) * Rate
<1> DEFINE b == Limits!BucketOf(p)
           f == Limits!Refilled(b)
<1>0. lNow \in Nat /\ lBucket[p] \in LBucket /\ Limits!Capacity \in Nat /\ Rate \in Nat /\ LastTick \in Nat
  BY LimitsTypes, LimitsConstants
<1>1. b.updated \in 0 .. lNow /\ b.tokens \in 0 .. Limits!Capacity
  <2>1. CASE lBucket[p] = Limits!NoBucket
    <3>1. b.tokens = Limits!Capacity /\ b.updated = lNow
      BY <2>1 DEF Limits!BucketOf
    <3> QED
      BY <3>1, <1>0
  <2>2. CASE lBucket[p] # Limits!NoBucket
    <3>1. b = lBucket[p]
      BY <2>2 DEF Limits!BucketOf
    <3>2. lBucket[p].updated \in 0 .. lNow
      BY <2>2 DEF Limits!BucketsAreServed
    <3>3. lBucket[p].tokens \in 0 .. Limits!Capacity
      BY <1>0 DEF LBucket
    <3> QED
      BY <3>1, <3>2, <3>3
  <2> QED
    BY <2>1, <2>2
<1> DEFINE gain == (lNow - b.updated) * Rate
<1> HIDE DEF b
<1>2. gain \in Nat
  <2>1. lNow - b.updated \in Nat
    BY <1>0, <1>1
  <2> QED
    BY <2>1, <1>0, ProductNat
<1>3. f = [tokens |-> IF b.tokens + gain < Limits!Capacity THEN b.tokens + gain ELSE Limits!Capacity,
           updated |-> lNow]
  BY DEF Limits!Refilled
<1> HIDE DEF gain, f
<1>4. f.tokens = IF b.tokens + gain < Limits!Capacity THEN b.tokens + gain ELSE Limits!Capacity
  BY <1>3
<1>5. f.tokens \in 0 .. Limits!Capacity /\ f.tokens <= b.tokens + gain
  BY <1>0, <1>1, <1>2, <1>4
<1>6. f = [tokens |-> f.tokens, updated |-> lNow]
  BY <1>3, <1>4
<1> QED
  BY <1>1, <1>5, <1>6 DEF b, f, gain

\* Every step of the rate limits keeps the types.
LEMMA LimitsTypeOK ==
    ASSUME Limits!TypeOK, Limits!BucketsAreServed, [Limits!Next]_(Limits!vars)
    PROVE  Limits!TypeOK'
<1>0. /\ lNow \in 0 .. LastTick /\ lProcess \in [Req -> LProcess] /\ lRows \subseteq Limits!Row
      /\ lBucket \in [Req -> LBucket]
      /\ lStarts \in [Req -> 0 .. MaxStarts] /\ lAdmitted \in [Req -> Nat]
      /\ Limits!Capacity \in Nat /\ LastTick \in Nat /\ MaxStarts \in Nat /\ Unit \in Nat
  BY LimitsTypes, LimitsConstants
<1>f. ASSUME lNow' \in 0 .. LastTick, lProcess' \in [Req -> LProcess], lRows' \subseteq Limits!Row,
             lBucket' \in [Req -> LBucket],
             lStarts' \in [Req -> 0 .. MaxStarts], lAdmitted' \in [Req -> Nat]
      PROVE  Limits!TypeOK'
  BY <1>f DEF Limits!TypeOK, LProcess, LBucket, Limits!Unnamed
<1>1. ASSUME NEW p \in Req, Limits!Beat(p) PROVE Limits!TypeOK'
  <2>1. /\ lStarts[p] < MaxStarts /\ lStarts' = [lStarts EXCEPT ![p] = lStarts[p] + 1]
        /\ UNCHANGED <<lNow, lBucket, lAdmitted>>
        /\ \/ /\ lRows' = lRows \union {[instance |-> <<p, lStarts'[p]>>, last_seen |-> lNow]}
              /\ lProcess' = [lProcess EXCEPT ![p] = [stage |-> "beat", beat |-> lNow, seen |-> "none"]]
           \/ /\ lRows' = lRows
              /\ lProcess' = [lProcess EXCEPT ![p] = [Limits!Down EXCEPT !.stage = "beat"]]
    BY <1>1 DEF Limits!Beat, Limits!Instance
  <2>2. lStarts'[p] \in 1 .. MaxStarts /\ lStarts' \in [Req -> 0 .. MaxStarts]
    BY <1>0, <2>1
  <2>3. lRows' \subseteq Limits!Row
    BY <1>0, <2>1, <2>2 DEF Limits!Row
  <2>4. [stage |-> "beat", beat |-> lNow, seen |-> "none"] \in LProcess
    BY <1>0 DEF LProcess, Limits!Seen
  <2>5. [Limits!Down EXCEPT !.stage = "beat"] \in LProcess
    BY LimitsDown DEF LProcess
  <2>6. lProcess' \in [Req -> LProcess]
    BY <1>0, <2>1, <2>4, <2>5
  <2> QED
    BY <1>0, <1>f, <2>1, <2>2, <2>3, <2>6
<1>2. ASSUME NEW p \in Req, Limits!Serve(p) PROVE Limits!TypeOK'
  <2>1. PICK seen \in {Limits!Census, "unknown"} :
          lProcess' = [lProcess EXCEPT ![p].stage = "serves", ![p].seen = seen]
    BY <1>2 DEF Limits!Serve
  <2>2. seen \in Limits!Seen
    BY DEF Limits!Seen, Limits!Census
  <2>3. lProcess' \in [Req -> LProcess]
    BY <1>0, <2>1, <2>2 DEF LProcess
  <2>4. UNCHANGED <<lNow, lRows, lBucket, lStarts, lAdmitted>>
    BY <1>2 DEF Limits!Serve
  <2> QED
    BY <1>0, <1>f, <2>3, <2>4
<1>3. ASSUME NEW p \in Req, Limits!Stop(p) PROVE Limits!TypeOK'
  <2>1. lProcess' \in [Req -> LProcess] /\ lBucket' \in [Req -> LBucket]
    BY <1>0, <1>3, LimitsDown DEF Limits!Stop
  <2> QED
    BY <1>0, <1>f, <1>3, <2>1 DEF Limits!Stop
<1>4. ASSUME NEW p \in Req, Limits!Admit(p) \/ Limits!Refuse(p) PROVE Limits!TypeOK'
  <2> DEFINE f == Limits!Refilled(Limits!BucketOf(p))
  <2>1. f.tokens \in 0 .. Limits!Capacity /\ f = [tokens |-> f.tokens, updated |-> lNow]
    BY LimitsRefilled
  <2>2. /\ \/ /\ f.tokens >= Unit /\ lBucket' = [lBucket EXCEPT ![p] = [f EXCEPT !.tokens = f.tokens - Unit]]
              /\ lAdmitted' = [lAdmitted EXCEPT ![p] = lAdmitted[p] + 1]
           \/ lBucket' = [lBucket EXCEPT ![p] = f] /\ lAdmitted' = lAdmitted
        /\ UNCHANGED <<lNow, lProcess, lRows, lStarts>>
    BY <1>4 DEF Limits!Admit, Limits!Refuse
  <2> HIDE DEF f
  <2>3. f \in LBucket
    BY <1>0, <2>1 DEF LBucket
  <2>4. f.tokens >= Unit => [f EXCEPT !.tokens = f.tokens - Unit] \in LBucket
    <3>1. f.tokens >= Unit => f.tokens - Unit \in 0 .. Limits!Capacity
      BY <1>0, <2>1
    <3> QED
      BY <2>3, <3>1 DEF LBucket
  <2>5. lBucket' \in [Req -> LBucket]
    BY <1>0, <2>2, <2>3, <2>4
  <2>6. lAdmitted' \in [Req -> Nat]
    BY <1>0, <2>2
  <2> QED
    BY <1>0, <1>f, <2>2, <2>5, <2>6
<1>5. ASSUME Limits!Tick PROVE Limits!TypeOK'
  <2>1. lNow' \in 0 .. LastTick /\ lRows' \subseteq Limits!Row
    BY <1>0, <1>5 DEF Limits!Tick
  <2> QED
    BY <1>0, <1>f, <1>5, <2>1 DEF Limits!Tick
<1>6. CASE UNCHANGED Limits!vars
  BY <1>0, <1>f, <1>6 DEF Limits!vars
<1> QED
  BY <1>1, <1>2, <1>3, <1>4, <1>5, <1>6 DEF Limits!Next

\* What a step does to a place, and to the others.
Elsewhere(p) == \A q \in Req \ {p} : /\ lProcess'[q] = lProcess[q] /\ lBucket'[q] = lBucket[q]
                                     /\ lStarts'[q] = lStarts[q] /\ lAdmitted'[q] = lAdmitted[q]

\* The startup of a process: its row is upserted, or the write is swallowed.
LEMMA LimitsBeat ==
    ASSUME Limits!TypeOK, NEW p \in Req, Limits!Beat(p)
    PROVE  /\ Elsewhere(p) /\ lNow' = lNow /\ lProcess[p].stage = "down" /\ lProcess'[p].stage = "beat"
           /\ lStarts'[p] = lStarts[p] + 1 /\ lBucket' = lBucket /\ lAdmitted' = lAdmitted
           /\ \/ /\ lProcess'[p].beat = lNow
                 /\ lRows' = lRows \union {[instance |-> Limits!Instance(p)', last_seen |-> lNow]}
              \/ lProcess'[p].beat = -1 /\ lRows' = lRows
BY DEF Limits!TypeOK, Limits!Beat, Elsewhere, Limits!Down, Limits!Unnamed

\* A process reads the heartbeats of the others, then serves.
LEMMA LimitsServe ==
    ASSUME Limits!TypeOK, NEW p \in Req, Limits!Serve(p)
    PROVE  /\ Elsewhere(p) /\ lNow' = lNow /\ lProcess[p].stage = "beat" /\ lProcess'[p].stage = "serves"
           /\ lProcess'[p].beat = lProcess[p].beat
           /\ lProcess'[p].seen \in {Limits!Census, "unknown"}
           /\ UNCHANGED <<lNow, lRows, lBucket, lStarts, lAdmitted>>
<1>1. PICK seen \in {Limits!Census, "unknown"} :
          lProcess' = [lProcess EXCEPT ![p].stage = "serves", ![p].seen = seen]
  BY DEF Limits!Serve
<1>2. lProcess[p].stage = "beat" /\ UNCHANGED <<lNow, lRows, lBucket, lStarts, lAdmitted>>
  BY DEF Limits!Serve
<1>3. lProcess \in [Req -> LProcess]
  BY LimitsTypes
<1>4. /\ \A q \in Req \ {p} : lProcess'[q] = lProcess[q]
      /\ lProcess'[p].stage = "serves" /\ lProcess'[p].seen = seen
      /\ lProcess'[p].beat = lProcess[p].beat
  BY <1>1, <1>3 DEF LProcess
<1> QED
  BY <1>1, <1>2, <1>4 DEF Elsewhere

\* A process that stops takes its bucket with it.
LEMMA LimitsStop ==
    ASSUME Limits!TypeOK, NEW p \in Req, Limits!Stop(p)
    PROVE  /\ Elsewhere(p) /\ lProcess'[p].stage = "down" /\ lProcess'[p].beat = -1
           /\ lProcess[p].stage # "down" /\ lBucket'[p] = Limits!NoBucket
           /\ UNCHANGED <<lNow, lRows, lStarts, lAdmitted>>
BY LimitsTypes, LimitsDown DEF Limits!Stop, Elsewhere

\* A call is admitted for one unit of tokens, or refused for none.
LEMMA LimitsTake ==
    ASSUME Limits!TypeOK, Limits!BucketsAreServed, NEW p \in Req, Limits!Admit(p) \/ Limits!Refuse(p)
    PROVE  LET f == Limits!Refilled(Limits!BucketOf(p)) IN
           /\ Elsewhere(p) /\ Limits!Serving(p)
           /\ UNCHANGED <<lNow, lProcess, lRows, lStarts>>
           /\ lBucket'[p].updated = lNow
           /\ \/ lBucket'[p].tokens = f.tokens - Unit /\ lAdmitted'[p] = lAdmitted[p] + 1
              \/ lBucket'[p].tokens = f.tokens /\ lAdmitted'[p] = lAdmitted[p]
<1> DEFINE f == Limits!Refilled(Limits!BucketOf(p))
<1>1. f.tokens \in 0 .. Limits!Capacity /\ f = [tokens |-> f.tokens, updated |-> lNow]
  BY LimitsRefilled
<1>2. /\ \/ /\ lBucket' = [lBucket EXCEPT ![p] = [f EXCEPT !.tokens = f.tokens - Unit]]
            /\ lAdmitted' = [lAdmitted EXCEPT ![p] = lAdmitted[p] + 1]
         \/ lBucket' = [lBucket EXCEPT ![p] = f] /\ lAdmitted' = lAdmitted
      /\ UNCHANGED <<lNow, lProcess, lRows, lStarts>> /\ Limits!Serving(p)
  BY DEF Limits!Admit, Limits!Refuse
<1>3. lBucket \in [Req -> LBucket] /\ lAdmitted \in [Req -> Nat]
  BY LimitsTypes
<1> HIDE DEF f
<1>4. [f EXCEPT !.tokens = f.tokens - Unit].tokens = f.tokens - Unit
      /\ [f EXCEPT !.tokens = f.tokens - Unit].updated = lNow /\ f.updated = lNow
  BY <1>1
<1>5. Elsewhere(p)
  BY <1>2, <1>3 DEF Elsewhere
<1>6. /\ lBucket'[p].updated = lNow
      /\ \/ lBucket'[p].tokens = f.tokens - Unit /\ lAdmitted'[p] = lAdmitted[p] + 1
         \/ lBucket'[p].tokens = f.tokens /\ lAdmitted'[p] = lAdmitted[p]
  BY <1>2, <1>3, <1>4
<1> QED
  BY <1>2, <1>5, <1>6 DEF f

\* A place that let one more through has one less left; time brings one refill,
\* a start one burst.
LEMMA LimitsCeiling ==
    ASSUME Limits!TypeOK, Limits!TypeOK', Limits!BucketsAreServed, Limits!CeilingLeavesRoom,
           [Limits!Next]_(Limits!vars), NEW p \in Req
    PROVE  /\ lBucket'[p] = Limits!NoBucket \/ (Limits!Serving(p)' /\ lBucket'[p].updated \in 0 .. lNow')
           /\ lAdmitted'[p] * Unit + Limits!Left(p)' <= lStarts'[p] * Limits!Capacity + lNow' * Rate
<1> DEFINE C == Limits!Capacity
           Good == /\ lBucket'[p] = Limits!NoBucket \/ (Limits!Serving(p)' /\ lBucket'[p].updated \in 0 .. lNow')
                   /\ lAdmitted'[p] * Unit + Limits!Left(p)' <= lStarts'[p] * C + lNow' * Rate
<1>0. /\ lNow \in Nat /\ lNow' \in Nat /\ C \in Nat /\ Unit \in Nat /\ Rate \in Nat
      /\ lStarts[p] \in Nat /\ lAdmitted[p] \in Nat
      /\ lBucket[p] \in LBucket /\ lBucket'[p] \in LBucket
      /\ lBucket[p].tokens \in Nat /\ lBucket'[p].tokens \in Nat
  <2>1. /\ lNow \in 0 .. LastTick /\ lNow' \in 0 .. LastTick
        /\ lBucket \in [Req -> LBucket] /\ lBucket' \in [Req -> LBucket]
        /\ lStarts \in [Req -> 0 .. MaxStarts] /\ lAdmitted \in [Req -> Nat]
    BY LimitsTypes DEF Limits!TypeOK, LBucket, Limits!Unnamed
  <2>2. \A b \in LBucket : b.tokens \in Nat
    BY LimitsConstants DEF LBucket
  <2>3. LastTick \in Nat /\ MaxStarts \in Nat
    BY LimitsConstants
  <2> QED
    BY <2>1, <2>2, <2>3, LimitsConstants
<1>u. lAdmitted[p] * Unit \in Nat /\ lStarts[p] * C \in Nat /\ lNow * Rate \in Nat
  BY <1>0, ProductNat
<1>1. /\ lBucket[p] = Limits!NoBucket \/ (Limits!Serving(p) /\ lBucket[p].updated \in 0 .. lNow)
      /\ lAdmitted[p] * Unit + Limits!Left(p) <= lStarts[p] * C + lNow * Rate
  BY DEF Limits!BucketsAreServed, Limits!CeilingLeavesRoom
<1> SUFFICES Good
  OBVIOUS
<1> HIDE DEF C
<1>l. Limits!Left(p) \in Nat
  <2>1. CASE lBucket[p] = Limits!NoBucket
    BY <2>1, <1>0 DEF Limits!Left, C
  <2>2. CASE lBucket[p] # Limits!NoBucket
    <3>1. lNow - lBucket[p].updated \in Nat
      BY <2>2, <1>0, <1>1
    <3>2. (lNow - lBucket[p].updated) * Rate \in Nat
      BY <3>1, <1>0, ProductNat
    <3> QED
      BY <2>2, <3>2, <1>0 DEF Limits!Left
  <2> QED
    BY <2>1, <2>2
<1>a. ASSUME lProcess'[p] = lProcess[p], lBucket'[p] = lBucket[p], lStarts'[p] = lStarts[p],
             lAdmitted'[p] = lAdmitted[p], lNow' = lNow
      PROVE  Good
  <2>1. Limits!Left(p)' = Limits!Left(p)
    BY <1>a DEF Limits!Left
  <2> QED
    BY <1>a, <2>1, <1>1 DEF Limits!Serving
<1>b. ASSUME NEW q \in Req, Elsewhere(q), q # p, lNow' = lNow PROVE Good
  BY <1>b, <1>a DEF Elsewhere
<1>2. ASSUME NEW q \in Req, Limits!Beat(q) PROVE Good
  <2>1. CASE q # p
    BY <1>2, <2>1, <1>b, LimitsBeat
  <2>2. CASE q = p
    <3>1. /\ lProcess[p].stage = "down" /\ lProcess'[p].stage = "beat" /\ lNow' = lNow
          /\ lStarts'[p] = lStarts[p] + 1 /\ lBucket' = lBucket /\ lAdmitted' = lAdmitted
      BY <1>2, <2>2, LimitsBeat
    <3>2. lBucket'[p] = Limits!NoBucket
      BY <3>1, <1>1 DEF Limits!Serving
    <3>3. Limits!Left(p) = 0 /\ Limits!Left(p)' = C
      BY <3>1, <3>2 DEF Limits!Left, C
    <3>4. lStarts'[p] * C = lStarts[p] * C + C
      BY <3>1, <1>0, ProductNext
    <3>5. lAdmitted[p] * Unit + C <= lStarts[p] * C + C + lNow * Rate
      BY <1>0, <1>1, <1>u, <3>3
    <3> QED
      BY <3>1, <3>2, <3>3, <3>4, <3>5
  <2> QED
    BY <2>1, <2>2
<1>3. ASSUME NEW q \in Req, Limits!Serve(q) PROVE Good
  <2>1. CASE q # p
    BY <1>3, <2>1, <1>b, LimitsServe
  <2>2. CASE q = p
    <3>1. /\ lProcess[p].stage = "beat" /\ lProcess'[p].stage = "serves"
          /\ UNCHANGED <<lNow, lBucket, lStarts, lAdmitted>>
      BY <1>3, <2>2, LimitsServe
    <3>2. lBucket'[p] = Limits!NoBucket /\ lBucket[p] = Limits!NoBucket
      BY <3>1, <1>1 DEF Limits!Serving
    <3>3. Limits!Left(p) = C /\ Limits!Left(p)' = C
      BY <3>1, <3>2 DEF Limits!Left, C
    <3> QED
      BY <3>1, <3>2, <3>3, <1>1
  <2> QED
    BY <2>1, <2>2
<1>4. ASSUME NEW q \in Req, Limits!Stop(q) PROVE Good
  <2>1. CASE q # p
    BY <1>4, <2>1, <1>b, LimitsStop
  <2>2. CASE q = p
    <3>1. /\ lProcess'[p].stage = "down" /\ lBucket'[p] = Limits!NoBucket
          /\ UNCHANGED <<lNow, lStarts, lAdmitted>>
      BY <1>4, <2>2, LimitsStop
    <3>2. Limits!Left(p)' = 0
      BY <3>1 DEF Limits!Left
    <3> QED
      BY <3>1, <3>2, <1>0, <1>1, <1>u, <1>l
  <2> QED
    BY <2>1, <2>2
<1>5. ASSUME NEW q \in Req, Limits!Admit(q) \/ Limits!Refuse(q) PROVE Good
  <2>1. CASE q # p
    BY <1>5, <2>1, <1>b, LimitsTake
  <2>2. CASE q = p
    <3> DEFINE b == Limits!BucketOf(p)
               f == Limits!Refilled(b)
               gain == (lNow - b.updated) * Rate
    <3>1. /\ b.updated \in 0 .. lNow /\ b.tokens \in 0 .. C /\ f.tokens \in 0 .. C
          /\ f.tokens <= b.tokens + gain
      BY LimitsRefilled DEF C
    <3>2. /\ Limits!Serving(p) /\ UNCHANGED <<lNow, lProcess, lStarts>>
          /\ lBucket'[p].updated = lNow
          /\ \/ lBucket'[p].tokens = f.tokens - Unit /\ lAdmitted'[p] = lAdmitted[p] + 1
             \/ lBucket'[p].tokens = f.tokens /\ lAdmitted'[p] = lAdmitted[p]
      BY <1>5, <2>2, LimitsTake
    <3>3. b.tokens + gain = Limits!Left(p)
      <4>1. CASE lBucket[p] = Limits!NoBucket
        <5>1. b.tokens = C /\ b.updated = lNow
          BY <4>1 DEF Limits!BucketOf, C
        <5>2. gain = 0
          <6>1. (lNow - lNow) * Rate = 0
            BY <1>0
          <6> QED
            BY <5>1, <6>1
        <5>3. Limits!Left(p) = C
          BY <4>1, <3>2 DEF Limits!Left, Limits!Serving, C
        <5> QED
          BY <5>1, <5>2, <5>3, <1>0
      <4>2. CASE lBucket[p] # Limits!NoBucket
        <5>1. b = lBucket[p]
          BY <4>2 DEF Limits!BucketOf
        <5> QED
          BY <4>2, <5>1, <3>2 DEF Limits!Left, Limits!Serving
      <4> QED
        BY <4>1, <4>2
    <3> HIDE DEF b, f, gain
    <3>4. f.tokens <= Limits!Left(p)
      BY <3>1, <3>3
    <3>5. lBucket'[p] # Limits!NoBucket
      BY <3>2, <1>0, LimitsDown
    <3>6. Limits!Left(p)' = lBucket'[p].tokens
      <4>1. (lNow - lNow) * Rate = 0
        BY <1>0
      <4>2. Limits!Left(p)' = lBucket'[p].tokens + (lNow - lNow) * Rate
        BY <3>2, <3>5 DEF Limits!Left, Limits!Serving
      <4> QED
        BY <4>1, <4>2, <1>0
    <3>7. (lAdmitted[p] + 1) * Unit = lAdmitted[p] * Unit + Unit
      BY <1>0, ProductNext
    <3>8. lAdmitted'[p] * Unit + lBucket'[p].tokens <= lAdmitted[p] * Unit + Limits!Left(p)
      <4>1. CASE lBucket'[p].tokens = f.tokens - Unit /\ lAdmitted'[p] = lAdmitted[p] + 1
        <5>1. lAdmitted'[p] * Unit = lAdmitted[p] * Unit + Unit
          BY <4>1, <3>7
        <5> QED
          BY <4>1, <5>1, <3>1, <3>4, <1>0, <1>u, <1>l
      <4>2. CASE lBucket'[p].tokens = f.tokens /\ lAdmitted'[p] = lAdmitted[p]
        BY <4>2, <3>1, <3>4, <1>0, <1>u, <1>l
      <4> QED
        BY <3>2, <4>1, <4>2
    <3>9. lAdmitted'[p] * Unit \in Nat
      <4>1. lAdmitted'[p] \in Nat
        BY <3>2, <1>0
      <4> QED
        BY <4>1, <1>0, ProductNat
    <3>10. lAdmitted'[p] * Unit + Limits!Left(p)' <= lStarts[p] * C + lNow * Rate
      BY <3>6, <3>8, <3>9, <1>0, <1>1, <1>u, <1>l
    <3>11. Limits!Serving(p)' /\ lBucket'[p].updated \in 0 .. lNow'
      BY <3>2, <1>0 DEF Limits!Serving
    <3> QED
      BY <3>2, <3>10, <3>11
  <2> QED
    BY <2>1, <2>2
<1>6. ASSUME Limits!Tick PROVE Good
  <2>1. lNow' = lNow + 1 /\ UNCHANGED <<lProcess, lBucket, lStarts, lAdmitted>>
    BY <1>6 DEF Limits!Tick
  <2>2. lNow' * Rate = lNow * Rate + Rate
    BY <2>1, <1>0, ProductNext
  <2>3. Limits!Left(p)' <= Limits!Left(p) + Rate /\ Limits!Left(p)' \in Int
    <3>1. CASE lProcess[p].stage = "down" \/ lBucket[p] = Limits!NoBucket
      <4>1. Limits!Left(p)' = Limits!Left(p)
        BY <3>1, <2>1 DEF Limits!Left
      <4> QED
        BY <4>1, <1>0, <1>l
    <3>2. CASE lProcess[p].stage # "down" /\ lBucket[p] # Limits!NoBucket
      <4>1. lBucket[p].updated \in Int
        BY <3>2, <1>1, <1>0
      <4>2. /\ Limits!Left(p) = lBucket[p].tokens + (lNow - lBucket[p].updated) * Rate
            /\ Limits!Left(p)' = lBucket[p].tokens + (lNow' - lBucket[p].updated) * Rate
        BY <3>2, <2>1 DEF Limits!Left
      <4> DEFINE k == lNow - lBucket[p].updated
      <4>3. k \in Int /\ lNow' - lBucket[p].updated = k + 1
        BY <2>1, <4>1, <1>0
      <4>4. (k + 1) * Rate = k * Rate + Rate /\ k * Rate \in Int
        BY <4>3, <1>0, ProductNext
      <4>5. Limits!Left(p)' = lBucket[p].tokens + (k * Rate + Rate)
        BY <4>2, <4>3, <4>4
      <4>6. Limits!Left(p) = lBucket[p].tokens + k * Rate
        BY <4>2
      <4> HIDE DEF k
      <4> QED
        BY <4>4, <4>5, <4>6, <1>0
    <3> QED
      BY <3>1, <3>2
  <2>4. lAdmitted[p] * Unit + Limits!Left(p)' <= lStarts[p] * C + lNow' * Rate
    <3>1. PICK a \in Int : a = lAdmitted[p] * Unit
      BY <1>u
    <3>2. PICK l \in Int : l = Limits!Left(p)
      BY <1>l
    <3>3. PICK m \in Int : m = Limits!Left(p)'
      BY <2>3
    <3>4. PICK s \in Int : s = lStarts[p] * C
      BY <1>u
    <3>5. PICK t \in Int : t = lNow * Rate
      BY <1>u
    <3>6. a + l <= s + t
      BY <1>1, <3>1, <3>2, <3>4, <3>5
    <3>7. m <= l + Rate
      BY <2>3, <3>2, <3>3
    <3>8. lNow' * Rate = t + Rate
      BY <2>2, <3>5
    <3>9. a + m <= s + (t + Rate)
      BY <3>6, <3>7, <1>0
    <3> QED
      BY <3>1, <3>3, <3>4, <3>8, <3>9
  <2>5. lBucket'[p] = Limits!NoBucket \/ (Limits!Serving(p)' /\ lBucket'[p].updated \in 0 .. lNow')
    BY <2>1, <1>0, <1>1 DEF Limits!Serving
  <2> QED
    BY <2>1, <2>4, <2>5
<1>7. CASE UNCHANGED Limits!vars
  BY <1>7, <1>a DEF Limits!vars
<1> HIDE DEF Good
<1> QED
  BY <1>2, <1>3, <1>4, <1>5, <1>6, <1>7 DEF Limits!Next

\* The rows of the processes that started within the window, and what a census
\* makes of them.
LEMMA LimitsRows ==
    ASSUME Limits!TypeOK, Limits!TypeOK', Limits!BeatsHaveRows, [Limits!Next]_(Limits!vars), NEW p \in Req
    PROVE  /\ lProcess'[p].beat <= lNow'
           /\ lProcess'[p].stage = "beat" => lProcess'[p].beat \in {Limits!Unnamed, lNow'}
           /\ lProcess'[p].beat # Limits!Unnamed /\ lProcess'[p].beat >= lNow' - AliveWindow =>
                 [instance |-> Limits!Instance(p)', last_seen |-> lProcess'[p].beat] \in lRows'
<1> DEFINE Good == /\ lProcess'[p].beat <= lNow'
                   /\ lProcess'[p].stage = "beat" => lProcess'[p].beat \in {Limits!Unnamed, lNow'}
                   /\ lProcess'[p].beat # Limits!Unnamed /\ lProcess'[p].beat >= lNow' - AliveWindow =>
                         [instance |-> Limits!Instance(p)', last_seen |-> lProcess'[p].beat] \in lRows'
<1> SUFFICES Good
  OBVIOUS
<1>u. Limits!Unnamed = -1
  BY DEF Limits!Unnamed
<1>0. lNow \in Nat /\ lNow' \in Nat /\ lProcess[p].beat \in Int /\ lProcess'[p].beat \in Int /\ AliveWindow \in Nat
  <2>1. lProcess[p] \in LProcess /\ lNow \in 0 .. LastTick /\ lNow' \in 0 .. LastTick /\ LastTick \in Nat
    BY LimitsTypes, LimitsConstants DEF Limits!TypeOK
  <2>2. lProcess'[p] \in LProcess
    BY DEF Limits!TypeOK, LProcess, Limits!Unnamed
  <2> QED
    BY <2>1, <2>2, LimitsConstants DEF LProcess
<1>1. /\ lProcess[p].beat <= lNow
      /\ lProcess[p].stage = "beat" => lProcess[p].beat \in {Limits!Unnamed, lNow}
      /\ lProcess[p].beat # Limits!Unnamed /\ lProcess[p].beat >= lNow - AliveWindow =>
            [instance |-> Limits!Instance(p), last_seen |-> lProcess[p].beat] \in lRows
  BY DEF Limits!BeatsHaveRows
<1>a. ASSUME lProcess'[p].beat = lProcess[p].beat, lProcess'[p].stage \in {lProcess[p].stage, "serves"},
             lStarts'[p] = lStarts[p], lNow' = lNow, lRows \subseteq lRows'
      PROVE  Good
  <2>1. Limits!Instance(p)' = Limits!Instance(p)
    BY <1>a DEF Limits!Instance
  <2> QED
    BY <1>a, <1>1, <2>1
<1>2. ASSUME NEW q \in Req, Limits!Beat(q) PROVE Good
  <2>1. CASE q # p
    BY <1>2, <2>1, <1>a, LimitsBeat DEF Elsewhere
  <2>2. CASE q = p
    BY <1>2, <2>2, <1>0, <1>u, LimitsBeat
  <2> QED
    BY <2>1, <2>2
<1>3. ASSUME NEW q \in Req, Limits!Serve(q) PROVE Good
  <2>1. CASE q # p
    BY <1>3, <2>1, <1>a, LimitsServe DEF Elsewhere
  <2>2. CASE q = p
    BY <1>3, <2>2, <1>a, LimitsServe
  <2> QED
    BY <2>1, <2>2
<1>4. ASSUME NEW q \in Req, Limits!Stop(q) PROVE Good
  <2>1. CASE q # p
    BY <1>4, <2>1, <1>a, LimitsStop DEF Elsewhere
  <2>2. CASE q = p
    BY <1>4, <2>2, <1>0, <1>u, LimitsStop
  <2> QED
    BY <2>1, <2>2
<1>5. ASSUME NEW q \in Req, Limits!Admit(q) \/ Limits!Refuse(q) PROVE Good
  BY <1>5, <1>a DEF Limits!Admit, Limits!Refuse
<1>6. ASSUME Limits!Tick PROVE Good
  <2>1. /\ lNow' = lNow + 1 /\ UNCHANGED <<lProcess, lStarts>> /\ lProcess[p].stage # "beat"
        /\ lRows' = {row \in lRows : row.last_seen >= lNow' - AliveWindow}
    BY <1>6 DEF Limits!Tick
  <2>2. Limits!Instance(p)' = Limits!Instance(p)
    BY <2>1 DEF Limits!Instance
  <2>3. ASSUME lProcess[p].beat # Limits!Unnamed, lProcess[p].beat >= lNow' - AliveWindow
        PROVE  [instance |-> Limits!Instance(p), last_seen |-> lProcess[p].beat] \in lRows'
    <3>1. lProcess[p].beat >= lNow - AliveWindow
      BY <2>1, <2>3, <1>0
    <3>2. [instance |-> Limits!Instance(p), last_seen |-> lProcess[p].beat] \in lRows
      BY <3>1, <2>3, <1>1
    <3> QED
      BY <3>2, <2>1, <2>3
  <2>4. lProcess[p].beat <= lNow'
    BY <2>1, <1>0, <1>1
  <2> QED
    BY <2>1, <2>2, <2>3, <2>4
<1>7. CASE UNCHANGED Limits!vars
  BY <1>7, <1>a DEF Limits!vars
<1> HIDE DEF Good
<1> QED
  BY <1>2, <1>3, <1>4, <1>5, <1>6, <1>7 DEF Limits!Next

\* The instances alive are finite in number: one per process and start.
LEMMA LimitsAliveIsFinite ==
    ASSUME Limits!TypeOK
    PROVE  IsFiniteSet(Limits!Alive)
<1>1. IsFiniteSet(Req \X (1 .. MaxStarts))
  <2>1. IsFiniteSet(1 .. MaxStarts)
    BY LimitsConstants, FS_Interval
  <2> QED
    BY <2>1, LimitsConstants, FS_Product
<1>2. Limits!Alive \subseteq Req \X (1 .. MaxStarts)
  BY LimitsTypes DEF Limits!Alive, Limits!Row
<1> QED
  BY <1>1, <1>2, FS_Subset

\* Two processes with a row in the window make a census of many.
LEMMA LimitsCensus ==
    ASSUME Limits!TypeOK, Limits!BeatsHaveRows, NEW p \in Req, NEW q \in Req, p # q,
           lProcess[p].beat # Limits!Unnamed, lProcess[p].beat >= lNow - AliveWindow,
           lProcess[q].beat # Limits!Unnamed, lProcess[q].beat >= lNow - AliveWindow
    PROVE  Limits!Census = "many"
<1>1. /\ [instance |-> Limits!Instance(p), last_seen |-> lProcess[p].beat] \in lRows
      /\ [instance |-> Limits!Instance(q), last_seen |-> lProcess[q].beat] \in lRows
  BY DEF Limits!BeatsHaveRows
<1>2. Limits!Instance(p) \in Limits!Alive /\ Limits!Instance(q) \in Limits!Alive
  BY <1>1 DEF Limits!Alive
<1>3. Limits!Instance(p) # Limits!Instance(q)
  BY DEF Limits!Instance
<1>4. IsFiniteSet(Limits!Alive) /\ Cardinality(Limits!Alive) \in Nat
  BY LimitsAliveIsFinite, FS_CardinalityType
<1>5. Cardinality(Limits!Alive) > 1
  <2> DEFINE two == {Limits!Instance(p), Limits!Instance(q)}
  <2>1. Cardinality({Limits!Instance(p)}) = 1 /\ IsFiniteSet({Limits!Instance(p)})
    BY FS_Singleton
  <2>2. two = {Limits!Instance(p)} \union {Limits!Instance(q)}
    OBVIOUS
  <2>3. Cardinality(two) = 2
    <3>1. Limits!Instance(q) \notin {Limits!Instance(p)}
      BY <1>3
    <3>2. Cardinality({Limits!Instance(p)} \union {Limits!Instance(q)}) = 1 + 1
      BY <2>1, <3>1, FS_AddElement
    <3> QED
      BY <2>2, <3>2
  <2>4. Cardinality(two) <= Cardinality(Limits!Alive)
    BY <1>2, <1>4, FS_Subset
  <2> QED
    BY <2>3, <2>4, <1>4
<1> QED
  BY <1>5, LimitsCardinality DEF Limits!Census

\* A process that serves saw those that were started when it looked.
LEMMA LimitsSeen ==
    ASSUME Limits!TypeOK, Limits!TypeOK', Limits!BeatsHaveRows, Limits!StartedTogetherIsSeen,
           [Limits!Next]_(Limits!vars)
    PROVE  Limits!StartedTogetherIsSeen'
<1> DEFINE Near(p, q) ==
              /\ p # q /\ lProcess[p].stage = "serves" /\ lProcess[q].stage = "serves"
              /\ lProcess[p].beat # Limits!Unnamed /\ lProcess[q].beat # Limits!Unnamed
              /\ "unknown" \notin {lProcess[p].seen, lProcess[q].seen}
              /\ lProcess[p].beat - lProcess[q].beat \in 0 .. AliveWindow
           Told(p, q) == "many" \in {lProcess[p].seen, lProcess[q].seen}
<1>0. /\ \A p, q \in Req : Near(p, q) => Told(p, q)
      /\ lNow \in Nat /\ AliveWindow \in Nat /\ lProcess \in [Req -> LProcess]
      /\ \A p \in Req : lProcess[p].beat \in Int /\ lProcess[p].beat <= lNow
  <2>1. lNow \in 0 .. LastTick /\ lProcess \in [Req -> LProcess] /\ LastTick \in Nat
    BY LimitsTypes, LimitsConstants
  <2>2. \A p \in Req : lProcess[p].beat \in Int
    BY <2>1 DEF LProcess
  <2>3. \A p, q \in Req : Near(p, q) => Told(p, q)
    BY DEF Limits!StartedTogetherIsSeen, Limits!Serving
  <2>4. \A p \in Req : lProcess[p].beat <= lNow
    BY DEF Limits!BeatsHaveRows
  <2>5. lNow \in Nat /\ AliveWindow \in Nat
    BY <2>1, LimitsConstants
  <2> QED
    BY <2>1, <2>2, <2>3, <2>4, <2>5
<1> SUFFICES ASSUME NEW p \in Req, NEW q \in Req, Near(p, q)' PROVE Told(p, q)'
  BY DEF Limits!StartedTogetherIsSeen, Limits!Serving
<1>a. ASSUME lProcess'[p] = lProcess[p], lProcess'[q] = lProcess[q] PROVE Told(p, q)'
  BY <1>0, <1>a
<1>b. ASSUME NEW r \in Req, Elsewhere(r), lProcess'[r].stage # "serves" PROVE Told(p, q)'
  <2>1. r # p /\ r # q
    BY <1>b
  <2> QED
    BY <2>1, <1>a, <1>b DEF Elsewhere
<1>2. ASSUME NEW r \in Req, Limits!Beat(r) \/ Limits!Stop(r) PROVE Told(p, q)'
  BY <1>2, <1>b, LimitsBeat, LimitsStop
<1>3. ASSUME NEW r \in Req, Limits!Serve(r) PROVE Told(p, q)'
  <2>0. /\ Elsewhere(r) /\ lProcess[r].stage = "beat" /\ lProcess'[r].beat = lProcess[r].beat
        /\ lProcess'[r].seen \in {Limits!Census, "unknown"} /\ lNow' = lNow
    BY <1>3, LimitsServe
  <2>1. CASE r # p /\ r # q
    BY <2>0, <2>1, <1>a DEF Elsewhere
  <2>2. CASE r = p
    <3>1. lProcess[p].beat = lNow /\ lProcess'[q] = lProcess[q]
      BY <2>0, <2>2 DEF Limits!BeatsHaveRows, Elsewhere
    <3>2. lProcess[q].beat >= lNow - AliveWindow /\ lProcess[p].beat >= lNow - AliveWindow
      BY <2>0, <2>2, <3>1, <1>0
    <3>3. Limits!Census = "many"
      BY <2>0, <2>2, <3>1, <3>2, LimitsCensus
    <3> QED
      BY <2>0, <2>2, <3>3
  <2>3. CASE r = q
    <3>1. lProcess[q].beat = lNow /\ lProcess'[p] = lProcess[p]
      BY <2>0, <2>3 DEF Limits!BeatsHaveRows, Elsewhere
    <3>2. lProcess[q].beat >= lNow - AliveWindow /\ lProcess[p].beat >= lNow - AliveWindow
      BY <2>0, <2>3, <3>1, <1>0
    <3>3. Limits!Census = "many"
      BY <2>0, <2>3, <3>1, <3>2, LimitsCensus
    <3> QED
      BY <2>0, <2>3, <3>3
  <2> QED
    BY <2>1, <2>2, <2>3
<1>4. ASSUME NEW r \in Req, Limits!Admit(r) \/ Limits!Refuse(r) PROVE Told(p, q)'
  BY <1>4, <1>a DEF Limits!Admit, Limits!Refuse
<1>5. ASSUME Limits!Tick \/ UNCHANGED Limits!vars PROVE Told(p, q)'
  BY <1>5, <1>a DEF Limits!Tick, Limits!vars
<1>6. CASE UNCHANGED Limits!vars
  BY <1>5, <1>6
<1> HIDE DEF Told
<1>7. CASE Limits!Next
  BY <1>2, <1>3, <1>4, <1>5, <1>7 DEF Limits!Next
<1> QED
  BY <1>6, <1>7

\* Every step of the rate limits preserves the inductive invariant, one step of the proof
\* per action.
LEMMA LimitsNext ==
    ASSUME Limits!IndInv, [Limits!Next]_(Limits!vars)
    PROVE  Limits!IndInv'
<1>1. Limits!TypeOK /\ Limits!TypeOK'
  BY LimitsTypeOK DEF Limits!IndInv
<1>2. Limits!BucketsAreServed' /\ Limits!CeilingLeavesRoom'
  BY <1>1, LimitsCeiling DEF Limits!IndInv, Limits!BucketsAreServed, Limits!CeilingLeavesRoom
<1>3. Limits!BeatsHaveRows'
  BY <1>1, LimitsRows DEF Limits!IndInv, Limits!BeatsHaveRows
<1>4. Limits!StartedTogetherIsSeen'
  BY <1>1, LimitsSeen DEF Limits!IndInv
<1>5. Limits!CeilingPerProcess'
  <2> SUFFICES ASSUME NEW p \in Req
               PROVE  lAdmitted'[p] * Unit <= lStarts'[p] * Limits!Capacity + lNow' * Rate
    BY DEF Limits!CeilingPerProcess
  <2>1. /\ lAdmitted'[p] \in Nat /\ lStarts'[p] \in Nat /\ lNow' \in Nat /\ lBucket'[p].tokens \in Nat
        /\ Limits!Capacity \in Nat /\ Unit \in Nat /\ Rate \in Nat
    BY <1>1, LimitsConstants DEF Limits!TypeOK
  <2>2. Limits!Left(p)' \in Nat
    <3>1. CASE lBucket'[p] = Limits!NoBucket
      BY <3>1, <2>1 DEF Limits!Left
    <3>2. CASE lBucket'[p] # Limits!NoBucket
      <4>1. lNow' - lBucket'[p].updated \in Nat
        BY <3>2, <1>2, <2>1 DEF Limits!BucketsAreServed
      <4>2. (lNow' - lBucket'[p].updated) * Rate \in Nat
        BY <4>1, <2>1, ProductNat
      <4> QED
        BY <3>2, <4>2, <2>1 DEF Limits!Left
    <3> QED
      BY <3>1, <3>2
  <2>3. lAdmitted'[p] * Unit + Limits!Left(p)' <= lStarts'[p] * Limits!Capacity + lNow' * Rate
    BY <1>2 DEF Limits!CeilingLeavesRoom
  <2>4. /\ lAdmitted'[p] * Unit \in Nat /\ lStarts'[p] * Limits!Capacity \in Nat /\ lNow' * Rate \in Nat
    BY <2>1, ProductNat
  <2> QED
    BY <2>2, <2>3, <2>4
<1> QED
  BY <1>1, <1>2, <1>3, <1>4, <1>5 DEF Limits!IndInv

\* The inductive invariant of the rate limits always holds, whatever handlers run.
THEOREM LimitsInductive == DeskSpec => []Limits!IndInv
<1>1. Limits!IndInv /\ [DeskNext]_everything => Limits!IndInv'
  BY LimitsStep, LimitsNext
<1> QED
  BY LimitsInit, <1>1, PTL DEF DeskSpec

-----------------------------------------------------------------------------
(* Emails.  A run about to send under a key holds its claim alone, and the *)
(* key is unused; it was allowed to on the preferences it began under; it  *)
(* counts on no digest that was not delivered.                             *)

\* Every set of numbers that is not empty has a least one.
LEMMA Least ==
    ASSUME NEW S \in SUBSET Nat, S # {}
    PROVE  \E x \in S : \A y \in S : x <= y
<1> DEFINE T == {1 .. x : x \in S}
           R == StrictSubsetOrdering(Nat)
           F == FiniteSubsetsOf(Nat)
<1>1. IsWellFoundedOn(R, F)
  BY FS_StrictSubsetOrderingWellFounded
<1>2. T \subseteq F /\ T # {}
  <2>1. ASSUME NEW x \in S PROVE 1 .. x \in F
    <3>1. x \in Int /\ 1 .. x \subseteq Nat
      OBVIOUS
    <3>2. IsFiniteSet(1 .. x)
      BY <3>1, FS_Interval
    <3> QED
      BY <3>1, <3>2 DEF FiniteSubsetsOf
  <2> QED
    BY <2>1
<1>3. \A a, b \in F : a \subseteq b /\ a # b => <<a, b>> \in R
  BY DEF StrictSubsetOrdering, FiniteSubsetsOf
<1> HIDE DEF R, F, T
<1>4. PICK t \in T : \A u \in T : ~(<<u, t>> \in R)
  BY <1>1, <1>2, WFMin
<1>5. PICK x \in S : t = 1 .. x
  BY <1>4 DEF T
<1>6. ASSUME NEW y \in S, y < x PROVE FALSE
  <2>1. 1 .. y \in T /\ 1 .. y \subseteq 1 .. x /\ 1 .. y # 1 .. x
    <3>1. x \in Nat /\ y \in Nat /\ x \in 1 .. x /\ x \notin 1 .. y
      BY <1>6
    <3> QED
      BY <3>1 DEF T
  <2>2. <<1 .. y, t>> \in R
    BY <2>1, <1>2, <1>3, <1>4, <1>5
  <2> QED
    BY <2>1, <2>2, <1>4
<1>7. \A y \in S : x <= y
  BY <1>6
<1> QED
  BY <1>7

\* The smaller of two.
LEMMA MinOfTwo ==
    ASSUME NEW a \in Int, NEW b \in Int
    PROVE  Emails!Min({a, b}) = IF a <= b THEN a ELSE b
BY DEF Emails!Min

\* The least of a set is one of its members.
LEMMA MinOfSome ==
    ASSUME NEW S \in SUBSET Nat, S # {}
    PROVE  Emails!Min(S) \in S
BY Least DEF Emails!Min

ORun == [step : {"idle", "gather", "ready", "claimed", "advance"}, kind : Emails!Kind,
         allowed : BOOLEAN, sends : Nat, stopped : BOOLEAN]
OSequence == [sends : Nat, state : {"active", "returned", "finished"}, due : Nat]

\* What the emails take for granted of their constants.
LEMMA EmailsConstants ==
    /\ DaysPerWeek \in Nat \ {0} /\ MailDays \in Nat /\ LapseAfter \in Nat
    /\ Wishes \subseteq Emails!Preferences
    /\ Len(Cadence) \in Nat \ {0} /\ \A i \in 1 .. Len(Cadence) : Cadence[i].interval \in Nat
    /\ Emails!TotalSends \in Nat
<1>1. Len(Cadence) \in Nat \ {0} /\ \A i \in 1 .. Len(Cadence) : Cadence[i] \in [interval : Nat, sends : Nat]
  <2> DEFINE Phase == [interval : Nat, sends : Nat]
  <2>1. Cadence \in Seq(Phase) /\ Cadence # << >>
    BY DeskAssumption
  <2> HIDE DEF Phase
  <2>2. Len(Cadence) \in Nat /\ Len(Cadence) # 0
    BY <2>1
  <2>3. \A i \in 1 .. Len(Cadence) : Cadence[i] \in Phase
    BY <2>1
  <2> QED
    BY <2>2, <2>3 DEF Phase
<1> QED
  BY <1>1, DeskAssumption

\* A step of the desk is a step of the emails, or leaves their variables alone.
LEMMA EmailsStep == [DeskNext]_everything => [Emails!Next]_(Emails!vars)
BY DEF DeskNext, OthersWait, Off, everything, outbox, Emails!vars

\* The types of the emails, each as one set.
LEMMA EmailsTypes ==
    Emails!TypeOK <=>
        /\ oDay \in 0 .. MailDays /\ oPrefs \in Emails!Preferences /\ oAway \in 0 .. LapseAfter
        /\ oSequence \in OSequence /\ oClaims \subseteq Emails!Keys
        /\ oRun \in [Req -> ORun]
        /\ oDelivered \in [Emails!Keys -> Nat]
        /\ oToday \in Nat /\ oDigests \in Nat /\ oLate \in Nat
BY DEF Emails!TypeOK, ORun, OSequence, Emails!Keys

\* The values the emails start from have their types.
LEMMA EmailsIdle ==
    /\ Emails!Idle \in ORun
    /\ Emails!Idle.step = "idle" /\ Emails!Idle.sends = 0 /\ ~Emails!Idle.stopped /\ ~Emails!Idle.allowed
BY DEF Emails!Idle, ORun, Emails!Kind

\* Every kind of mail has a key of the week.
LEMMA KeyOfIsAKey ==
    ASSUME NEW kind \in Emails!Kind, oDay \in Nat
    PROVE  Emails!KeyOf(kind) \in Emails!Keys
<1>1. oDay % DaysPerWeek \in 0 .. DaysPerWeek - 1
  BY EmailsConstants
<1> QED
  BY <1>1, EmailsConstants DEF Emails!KeyOf, Emails!Keys, Emails!Weekday, Emails!Sunday

\* The phase of a send that is left is one of the cadence.
LEMMA PhaseOfASend ==
    ASSUME NEW sends \in Nat, ~(sends >= Emails!TotalSends)
    PROVE  Cadence[Emails!PhaseFor(sends)].interval \in Nat
<1> DEFINE S == {i \in 1 .. Len(Cadence) : sends < Emails!SendsUpTo(i)}
<1>1. Len(Cadence) \in S
  <2>1. Emails!TotalSends = Emails!SendsUpTo(Len(Cadence))
    BY DEF Emails!TotalSends
  <2>2. sends < Emails!TotalSends
    BY EmailsConstants
  <2> QED
    BY <2>1, <2>2, EmailsConstants
<1>2. S \in SUBSET Nat /\ S # {}
  BY <1>1, EmailsConstants
<1>3. Emails!Min(S) \in S
  BY <1>2, MinOfSome
<1>4. Emails!PhaseFor(sends) = Emails!Min(S)
  BY DEF Emails!PhaseFor
<1> HIDE DEF S
<1>5. Emails!PhaseFor(sends) \in S
  BY <1>3, <1>4
<1> QED
  BY <1>5, EmailsConstants DEF S

\* record_send counts the mail and finishes the sequence after its last.
LEMMA RecordSendIsASequence ==
    ASSUME NEW n \in Nat, oDay \in Nat
    PROVE  /\ Emails!RecordSend(n) \in OSequence
           /\ Emails!RecordSend(n).sends = n + 1
           /\ Emails!RecordSend(n).state = "finished" => n + 1 >= Emails!TotalSends
<1> DEFINE sends == n + 1
<1>0. sends \in Nat
  OBVIOUS
<1> HIDE DEF sends
<1>1. CASE sends >= Emails!TotalSends
  <2>1. Emails!RecordSend(n) = [sends |-> sends, state |-> "finished", due |-> oDay]
    BY <1>1 DEF Emails!RecordSend, sends
  <2> QED
    BY <1>0, <1>1, <2>1 DEF OSequence, sends
<1>2. CASE ~(sends >= Emails!TotalSends)
  <2> DEFINE wait == Cadence[Emails!PhaseFor(sends)].interval
  <2>1. wait \in Nat
    BY <1>0, <1>2, PhaseOfASend
  <2>2. Emails!RecordSend(n) = [sends |-> sends, state |-> "active", due |-> oDay + wait]
    BY <1>2 DEF Emails!RecordSend, sends
  <2> HIDE DEF wait
  <2>3. oDay + wait \in Nat
    BY <2>1
  <2> QED
    BY <1>0, <2>2, <2>3 DEF OSequence, sends
<1> QED
  BY <1>1, <1>2

\* A run that began under a stop was not allowed to send, whether it read the
\* preferences or found nothing.
LEMMA StopDisallows ==
    ASSUME NEW kind, NEW got \in {oPrefs, Emails!Nothing}, oPrefs \in Emails!Preferences
    PROVE  /\ Emails!Allows(got, kind) \in BOOLEAN
           /\ oPrefs.unsubscribed_all => ~Emails!Allows(got, kind)
BY DEF Emails!Allows, Emails!Nothing, Emails!Everything, Emails!Preferences

\* The inductive invariant of the emails holds at the start.
LEMMA EmailsInit == DeskInit => Emails!IndInv
<1> SUFFICES ASSUME Emails!Init PROVE Emails!IndInv
  BY DEF DeskInit
<1>1. oPrefs \in Emails!Preferences
  <2>1. Emails!Everything \in Emails!Preferences
    BY DEF Emails!Preferences, Emails!Everything
  <2>2. Emails!Nothing \in Emails!Preferences
    BY <2>1 DEF Emails!Nothing, Emails!Preferences
  <2> QED
    BY <2>1, <2>2 DEF Emails!Init
<1>2. /\ oRun \in [Req -> ORun]
      /\ \A r \in Req : /\ oRun[r].step = "idle" /\ ~oRun[r].stopped /\ oRun[r].sends = 0
  BY EmailsIdle DEF Emails!Init
<1>3. oDelivered = [k \in Emails!Keys |-> 0]
  BY DEF Emails!Init, Emails!Keys
<1>4. /\ oSequence \in OSequence /\ oSequence.sends = 0 /\ oSequence.state = "active"
  BY DEF Emails!Init, OSequence
<1>5. oDay \in 0 .. MailDays /\ oAway \in 0 .. LapseAfter
  BY EmailsConstants DEF Emails!Init
<1>6. oClaims = {} /\ oToday = 0 /\ oDigests = 0 /\ oLate = 0
  BY DEF Emails!Init
<1>7. Emails!TypeOK
  BY <1>1, <1>2, <1>3, <1>4, <1>5, <1>6, EmailsTypes
<1>8. Emails!HolderIsAlone /\ Emails!StoppedMayNot /\ Emails!ClaimedMay /\ Emails!DigestsAreCounted
  BY <1>2, <1>6 DEF Emails!HolderIsAlone, Emails!StoppedMayNot, Emails!ClaimedMay, Emails!Holds,
                    Emails!DigestsAreCounted
<1>9. Emails!DeliveredIsClaimed /\ Emails!OneMailPerKey
  BY <1>3 DEF Emails!DeliveredIsClaimed, Emails!OneMailPerKey, Emails!Keys
<1>10. Emails!StopIsHonoured /\ Emails!FinishedGotAll
  BY <1>4, <1>6 DEF Emails!StopIsHonoured, Emails!FinishedGotAll
<1> QED
  BY <1>7, <1>8, <1>9, <1>10 DEF Emails!IndInv

Others(r) == \A q \in Req \ {r} : oRun'[q] = oRun[q]

\* A run that ends holds nothing.
LEMMA EmailsEnds ==
    ASSUME Emails!TypeOK, NEW r \in Req, Emails!Ends(r)
    PROVE  /\ oRun' \in [Req -> ORun] /\ Others(r)
           /\ oRun'[r].step = "idle" /\ oRun'[r].sends = 0 /\ ~oRun'[r].stopped
BY EmailsTypes, EmailsIdle DEF Emails!Ends, Others

\* A run that reads the preferences and finds a stop is not allowed to send.
LEMMA EmailsReads ==
    ASSUME Emails!TypeOK, NEW r \in Req, NEW kind \in Emails!Kind,
           NEW got \in {oPrefs, Emails!Nothing}, NEW step \in {"gather", "ready"},
           Emails!Reads(r, step, kind, got)
    PROVE  /\ oRun' \in [Req -> ORun] /\ Others(r)
           /\ oRun'[r].step = step
           /\ oRun'[r].sends \in {0, oSequence.sends}
           /\ oRun'[r].stopped => ~oRun'[r].allowed
<1> DEFINE next == [step |-> step, kind |-> kind, allowed |-> Emails!Allows(got, kind),
                    sends |-> IF kind = "reengagement" THEN oSequence.sends ELSE 0,
                    stopped |-> oPrefs.unsubscribed_all]
<1>0. oPrefs \in Emails!Preferences /\ oSequence.sends \in Nat /\ oRun \in [Req -> ORun]
  BY EmailsTypes DEF OSequence
<1>1. Emails!Allows(got, kind) \in BOOLEAN /\ (oPrefs.unsubscribed_all => ~Emails!Allows(got, kind))
  BY <1>0, StopDisallows
<1>2. oPrefs.unsubscribed_all \in BOOLEAN
  BY <1>0 DEF Emails!Preferences
<1>3. (IF kind = "reengagement" THEN oSequence.sends ELSE 0) \in Nat
  BY <1>0
<1>4. next \in ORun
  BY <1>1, <1>2, <1>3 DEF ORun
<1>5. /\ next.step = step /\ next.stopped = oPrefs.unsubscribed_all /\ next.allowed = Emails!Allows(got, kind)
      /\ next.sends \in {0, oSequence.sends}
  OBVIOUS
<1>6. oRun' = [oRun EXCEPT ![r] = next]
  BY DEF Emails!Reads
<1> HIDE DEF next
<1> QED
  BY <1>0, <1>1, <1>4, <1>5, <1>6 DEF Others

\* A run that goes on changes its step only.
LEMMA EmailsSteps ==
    ASSUME Emails!TypeOK, NEW r \in Req, NEW step \in {"ready", "claimed", "advance"},
           oRun' = [oRun EXCEPT ![r].step = step]
    PROVE  /\ oRun' \in [Req -> ORun] /\ Others(r)
           /\ oRun'[r].step = step /\ oRun'[r].kind = oRun[r].kind /\ oRun'[r].sends = oRun[r].sends
           /\ oRun'[r].stopped = oRun[r].stopped /\ oRun'[r].allowed = oRun[r].allowed
<1> DEFINE next == [oRun[r] EXCEPT !.step = step]
<1>0. oRun \in [Req -> ORun]
  BY EmailsTypes
<1>1. next \in ORun
  BY <1>0 DEF ORun
<1>2. /\ next.step = step /\ next.kind = oRun[r].kind /\ next.sends = oRun[r].sends
      /\ next.stopped = oRun[r].stopped /\ next.allowed = oRun[r].allowed
  BY <1>0 DEF ORun
<1>3. oRun' = [oRun EXCEPT ![r] = next]
  OBVIOUS
<1> HIDE DEF next
<1> QED
  BY <1>0, <1>1, <1>2, <1>3 DEF Others

\* A mail that goes out adds one to the count of its key.
LEMMA EmailsDelivers ==
    ASSUME Emails!TypeOK, NEW r \in Req, Emails!Delivers(r)
    PROVE  LET mine == Emails!KeyOf(oRun[r].kind) IN
           /\ mine \in Emails!Keys
           /\ oDelivered' \in [Emails!Keys -> Nat]
           /\ oDelivered'[mine] = oDelivered[mine] + 1
           /\ \A k \in Emails!Keys \ {mine} : oDelivered'[k] = oDelivered[k]
           /\ oToday' \in Nat /\ oDigests' \in Nat /\ oLate' \in Nat
           /\ oDigests' >= oDigests
           /\ oRun[r].kind = "reengagement" => oDigests' = oDigests + 1
           /\ ~oRun[r].stopped => oLate' = oLate
<1> DEFINE mine == Emails!KeyOf(oRun[r].kind)
<1>0. /\ oDelivered \in [Emails!Keys -> Nat] /\ oToday \in Nat /\ oDigests \in Nat /\ oLate \in Nat
      /\ oDay \in Nat /\ oRun \in [Req -> ORun]
  BY EmailsTypes, EmailsConstants
<1>1. mine \in Emails!Keys
  BY <1>0, KeyOfIsAKey DEF ORun
<1>2. /\ oDelivered' = [oDelivered EXCEPT ![mine] = oDelivered[mine] + 1]
      /\ oToday' = oToday + 1
      /\ oDigests' = oDigests + (IF oRun[r].kind = "reengagement" THEN 1 ELSE 0)
      /\ oLate' = oLate + (IF oRun[r].stopped THEN 1 ELSE 0)
  BY DEF Emails!Delivers
<1>3. oDigests' \in Nat /\ oDigests' >= oDigests /\ (oRun[r].kind = "reengagement" => oDigests' = oDigests + 1)
  BY <1>0, <1>2
<1>4. oLate' \in Nat /\ (~oRun[r].stopped => oLate' = oLate)
  BY <1>0, <1>2
<1> HIDE DEF mine
<1>5. /\ oDelivered' \in [Emails!Keys -> Nat]
      /\ oDelivered'[mine] = oDelivered[mine] + 1
      /\ \A k \in Emails!Keys \ {mine} : oDelivered'[k] = oDelivered[k]
  BY <1>0, <1>1, <1>2
<1>6. oToday' \in Nat
  BY <1>0, <1>2
<1> QED
  BY <1>1, <1>3, <1>4, <1>5, <1>6 DEF mine

\* A new week has keys of its own; a new day changes none.
LEMMA EmailsWeek ==
    ASSUME Emails!TypeOK, Emails!NextDay
    PROVE  /\ Emails!TypeOK'
           /\ \/ oClaims' = {} /\ \A k \in Emails!Keys : oDelivered'[k] = 0
              \/ UNCHANGED <<oClaims, oDelivered>>
<1>0. oDay \in 0 .. MailDays /\ oAway \in 0 .. LapseAfter
  BY EmailsTypes
<1>1. oDay' = oDay + 1 /\ oDay < MailDays /\ oToday' = 0 /\ oAway' = Emails!Min({oAway + 1, LapseAfter})
  BY DEF Emails!NextDay
<1>2. oDay' \in 0 .. MailDays
  BY <1>0, <1>1, EmailsConstants
<1>3. oAway' \in 0 .. LapseAfter
  <2>1. oAway + 1 \in Int /\ LapseAfter \in Int
    BY <1>0, EmailsConstants
  <2>2. oAway' = IF oAway + 1 <= LapseAfter THEN oAway + 1 ELSE LapseAfter
    BY <1>1, <2>1, MinOfTwo
  <2> QED
    BY <1>0, <2>2, EmailsConstants
<1>4. \/ oClaims' = {} /\ oDelivered' = [k \in Emails!Keys |-> 0]
      \/ UNCHANGED <<oClaims, oDelivered>>
  BY DEF Emails!NextDay, Emails!Keys
<1>5. oClaims' \subseteq Emails!Keys /\ oDelivered' \in [Emails!Keys -> Nat]
  BY <1>4, EmailsTypes
<1>6. UNCHANGED <<oPrefs, oSequence, oRun, oDigests, oLate>>
  BY DEF Emails!NextDay
<1>7. Emails!TypeOK'
  BY <1>1, <1>2, <1>3, <1>5, <1>6, EmailsTypes DEF Emails!TypeOK, ORun, OSequence, Emails!Keys
<1> QED
  BY <1>4, <1>7

\* The same, for the next state.
LEMMA EmailsTypesNext ==
    /\ oDay' \in 0 .. MailDays /\ oPrefs' \in Emails!Preferences /\ oAway' \in 0 .. LapseAfter
    /\ oSequence' \in OSequence /\ oClaims' \subseteq Emails!Keys
    /\ oRun' \in [Req -> ORun]
    /\ oDelivered' \in [Emails!Keys -> Nat]
    /\ oToday' \in Nat /\ oDigests' \in Nat /\ oLate' \in Nat
    => Emails!TypeOK'
BY DEF Emails!TypeOK, ORun, OSequence, Emails!Keys

\* What the runs and the mails are known to be, restated for the proof of a step.
Quiet(r) ==
    /\ oRun'[r].step # "claimed"
    /\ oRun'[r].stopped => ~oRun'[r].allowed
    /\ oRun'[r].sends <= oDigests'
    /\ oRun'[r].step = "advance" => oRun'[r].sends < oDigests'

\* A run that moves to a step at which it holds no key disturbs nothing.
LEMMA OneRunMoves ==
    ASSUME Emails!IndInv, NEW r \in Req, Emails!TypeOK', Others(r), Quiet(r),
           UNCHANGED <<oDay, oDelivered, oLate, oDigests>>, oClaims \subseteq oClaims',
           Emails!FinishedGotAll'
    PROVE  Emails!IndInv'
<1>1. \A k \in Emails!Keys : ~Emails!Holds(r, k)'
  BY DEF Emails!Holds, Quiet
<1>2. \A q \in Req \ {r}, k \in Emails!Keys : Emails!Holds(q, k)' <=> Emails!Holds(q, k)
  BY DEF Emails!Holds, Emails!KeyOf, Emails!Weekday, Others
<1>3. Emails!HolderIsAlone'
  BY <1>1, <1>2 DEF Emails!IndInv, Emails!HolderIsAlone
<1>4. Emails!DeliveredIsClaimed' /\ Emails!OneMailPerKey' /\ Emails!StopIsHonoured'
  BY DEF Emails!IndInv, Emails!DeliveredIsClaimed, Emails!OneMailPerKey, Emails!StopIsHonoured
<1>5. Emails!StoppedMayNot' /\ Emails!ClaimedMay'
  BY DEF Emails!IndInv, Emails!StoppedMayNot, Emails!ClaimedMay, Others, Quiet
<1>6. Emails!DigestsAreCounted'
  BY DEF Emails!IndInv, Emails!DigestsAreCounted, Others, Quiet
<1> QED
  BY <1>3, <1>4, <1>5, <1>6 DEF Emails!IndInv

\* A claim makes its run the only one to hold the key, and the key was unused.
LEMMA ClaimIsSafe ==
    ASSUME Emails!IndInv, Emails!TypeOK', NEW r \in Req, Emails!Claim(r)
    PROVE  Emails!IndInv'
<1> DEFINE mine == Emails!KeyOf(oRun[r].kind)
<1>0. oDay \in Nat /\ oRun \in [Req -> ORun] /\ Emails!TypeOK /\ oDelivered \in [Emails!Keys -> Nat]
  BY EmailsTypes, EmailsConstants DEF Emails!IndInv
<1>1. mine \in Emails!Keys /\ mine \notin oClaims /\ oRun[r].allowed /\ oRun[r].step = "ready"
  BY <1>0, KeyOfIsAKey DEF Emails!Claim, ORun
<1>2. /\ oClaims' = oClaims \union {mine}
      /\ UNCHANGED <<oDay, oPrefs, oSequence, oDelivered, oLate, oDigests>>
      /\ Others(r) /\ oRun'[r].step = "claimed" /\ oRun'[r].kind = oRun[r].kind
      /\ oRun'[r].sends = oRun[r].sends
      /\ oRun'[r].allowed = oRun[r].allowed /\ oRun'[r].stopped = oRun[r].stopped
  BY <1>0, EmailsSteps DEF Emails!Claim
<1>4. \A k \in Emails!Keys : Emails!Holds(r, k)' <=> k = mine
  BY <1>2 DEF Emails!Holds, Emails!KeyOf, Emails!Weekday
<1>5. \A q \in Req \ {r}, k \in Emails!Keys : Emails!Holds(q, k)' <=> Emails!Holds(q, k)
  BY <1>2 DEF Emails!Holds, Emails!KeyOf, Emails!Weekday, Others
<1> HIDE DEF mine
<1>6. \A q \in Req : ~Emails!Holds(q, mine)
  BY <1>1 DEF Emails!IndInv, Emails!HolderIsAlone
<1>7. oDelivered[mine] = 0
  BY <1>0, <1>1 DEF Emails!IndInv, Emails!DeliveredIsClaimed
<1>8. Emails!HolderIsAlone'
  BY <1>1, <1>2, <1>4, <1>5, <1>6, <1>7 DEF Emails!IndInv, Emails!HolderIsAlone
<1>9. Emails!DeliveredIsClaimed' /\ Emails!OneMailPerKey' /\ Emails!StopIsHonoured' /\ Emails!FinishedGotAll'
  BY <1>2 DEF Emails!IndInv, Emails!DeliveredIsClaimed, Emails!OneMailPerKey, Emails!StopIsHonoured,
              Emails!FinishedGotAll
<1>10. ~oRun[r].stopped
  BY <1>1 DEF Emails!IndInv, Emails!StoppedMayNot
<1>11. Emails!StoppedMayNot' /\ Emails!ClaimedMay'
  BY <1>1, <1>2, <1>10 DEF Emails!IndInv, Emails!StoppedMayNot, Emails!ClaimedMay, Others
<1>12. Emails!DigestsAreCounted'
  BY <1>2 DEF Emails!IndInv, Emails!DigestsAreCounted, Others
<1> QED
  BY <1>8, <1>9, <1>11, <1>12 DEF Emails!IndInv

\* A delivery uses the key its run holds, and the run lets go of it.
LEMMA DeliveryIsSafe ==
    ASSUME Emails!IndInv, Emails!TypeOK', NEW r \in Req, oRun[r].step = "claimed",
           Emails!Delivers(r), UNCHANGED <<oDay, oPrefs, oSequence, oClaims>>,
           Others(r), Quiet(r)
    PROVE  Emails!IndInv'
<1> DEFINE mine == Emails!KeyOf(oRun[r].kind)
<1>0. /\ oDay \in Nat /\ oRun \in [Req -> ORun] /\ oDigests \in Nat /\ oDigests' \in Nat
      /\ oSequence \in OSequence /\ Emails!TotalSends \in Nat /\ oDelivered \in [Emails!Keys -> Nat]
  BY EmailsTypes, EmailsConstants, EmailsDelivers DEF Emails!IndInv
<1>1. mine \in Emails!Keys /\ Emails!Holds(r, mine)
  BY <1>0, KeyOfIsAKey DEF ORun, Emails!Holds
<1>2. ~oRun[r].stopped
  BY DEF Emails!IndInv, Emails!StoppedMayNot, Emails!ClaimedMay
<1>3. /\ oDelivered'[mine] = oDelivered[mine] + 1
      /\ \A k \in Emails!Keys \ {mine} : oDelivered'[k] = oDelivered[k]
      /\ oDigests' >= oDigests /\ oLate' = oLate
  BY <1>2, EmailsDelivers DEF Emails!IndInv
<1>7. \A k \in Emails!Keys : ~Emails!Holds(r, k)'
  BY DEF Emails!Holds, Quiet
<1>8. \A q \in Req \ {r}, k \in Emails!Keys : Emails!Holds(q, k)' <=> Emails!Holds(q, k)
  BY DEF Emails!Holds, Emails!KeyOf, Emails!Weekday, Others
<1> HIDE DEF mine
<1>5. /\ mine \in oClaims /\ oDelivered[mine] = 0
      /\ \A q \in Req \ {r} : ~Emails!Holds(q, mine)
  BY <1>1 DEF Emails!IndInv, Emails!HolderIsAlone
<1>6. \A k \in Emails!Keys : oDelivered'[k] = IF k = mine THEN 1 ELSE oDelivered[k]
  BY <1>1, <1>3, <1>5
<1>9. Emails!HolderIsAlone'
  BY <1>5, <1>6, <1>7, <1>8 DEF Emails!IndInv, Emails!HolderIsAlone
<1>10. Emails!DeliveredIsClaimed' /\ Emails!OneMailPerKey'
  BY <1>5, <1>6 DEF Emails!IndInv, Emails!DeliveredIsClaimed, Emails!OneMailPerKey, Emails!Keys
<1>11. Emails!StopIsHonoured'
  BY <1>3 DEF Emails!IndInv, Emails!StopIsHonoured
<1>12. Emails!StoppedMayNot' /\ Emails!ClaimedMay'
  BY DEF Emails!IndInv, Emails!StoppedMayNot, Emails!ClaimedMay, Others, Quiet
<1>13. Emails!DigestsAreCounted'
  <2>1. \A q \in Req : oRun[q].sends \in Nat
    BY <1>0 DEF ORun
  <2>2. \A q \in Req \ {r} : oRun'[q].sends <= oDigests' /\ (oRun'[q].step = "advance" => oRun'[q].sends < oDigests')
    BY <1>0, <1>3, <2>1 DEF Emails!IndInv, Emails!DigestsAreCounted, Others
  <2> QED
    BY <2>2 DEF Emails!DigestsAreCounted, Quiet
<1>14. Emails!FinishedGotAll'
  <2>1. oSequence.sends \in Nat /\ oSequence' = oSequence
    BY <1>0 DEF OSequence
  <2>2. oSequence.sends <= oDigests /\ (oSequence.state = "finished" => oDigests >= Emails!TotalSends)
    BY DEF Emails!IndInv, Emails!FinishedGotAll
  <2>3. oSequence.sends <= oDigests'
    BY <1>0, <1>3, <2>1, <2>2
  <2>4. oSequence.state = "finished" => oDigests' >= Emails!TotalSends
    BY <1>0, <1>3, <2>2
  <2> QED
    BY <2>1, <2>3, <2>4 DEF Emails!FinishedGotAll
<1> QED
  BY <1>9, <1>10, <1>11, <1>12, <1>13, <1>14 DEF Emails!IndInv

\* Every step of the mails keeps the inductive invariant, one step of the proof
\* per handler.
LEMMA EmailsNext ==
    ASSUME Emails!IndInv, [Emails!Next]_(Emails!vars)
    PROVE  Emails!IndInv'
<1>0. /\ oDay \in 0 .. MailDays /\ oDay \in Nat /\ oPrefs \in Emails!Preferences /\ oAway \in 0 .. LapseAfter
      /\ oSequence \in OSequence /\ oClaims \subseteq Emails!Keys
      /\ oRun \in [Req -> ORun]
      /\ oDelivered \in [Emails!Keys -> Nat]
      /\ oToday \in Nat /\ oDigests \in Nat /\ oLate \in Nat
      /\ Emails!TypeOK /\ Emails!TotalSends \in Nat
  BY EmailsTypes, EmailsConstants DEF Emails!IndInv
<1>f. /\ oSequence.sends \in Nat /\ oSequence.sends <= oDigests
      /\ oSequence.state = "finished" => oDigests >= Emails!TotalSends
  BY <1>0 DEF Emails!IndInv, Emails!FinishedGotAll, OSequence
<1>r. \A r \in Req : /\ oRun[r].sends \in Nat /\ oRun[r].sends <= oDigests
                     /\ oRun[r].step = "advance" => oRun[r].sends < oDigests
                     /\ oRun[r].stopped => ~oRun[r].allowed
                     /\ oRun[r].kind \in Emails!Kind
  BY <1>0 DEF Emails!IndInv, Emails!DigestsAreCounted, Emails!StoppedMayNot, ORun
<1>s. ASSUME oDay' = oDay, oPrefs' \in Emails!Preferences, oAway' \in 0 .. LapseAfter,
             UNCHANGED <<oSequence, oClaims, oRun, oDelivered, oDigests, oLate>>, oToday' = oToday
      PROVE  Emails!IndInv'
  <2>1. Emails!TypeOK'
    BY <1>s, <1>0, EmailsTypesNext
  <2>2. /\ Emails!DeliveredIsClaimed' /\ Emails!StoppedMayNot' /\ Emails!ClaimedMay'
        /\ Emails!OneMailPerKey' /\ Emails!StopIsHonoured' /\ Emails!DigestsAreCounted'
        /\ Emails!FinishedGotAll'
    BY <1>s DEF Emails!IndInv, Emails!DeliveredIsClaimed, Emails!StoppedMayNot,
                Emails!ClaimedMay, Emails!OneMailPerKey, Emails!StopIsHonoured,
                Emails!DigestsAreCounted, Emails!FinishedGotAll
  <2>3. \A r \in Req, k \in Emails!Keys : Emails!Holds(r, k)' <=> Emails!Holds(r, k)
    BY <1>s DEF Emails!Holds, Emails!KeyOf, Emails!Weekday
  <2>4. Emails!HolderIsAlone'
    BY <1>s, <2>3 DEF Emails!IndInv, Emails!HolderIsAlone
  <2> QED
    BY <2>1, <2>2, <2>4 DEF Emails!IndInv
\* A run that holds no key afterwards, on a day and mails that stay.
<1>m. ASSUME NEW r \in Req, oRun' \in [Req -> ORun], Others(r), Quiet(r),
             UNCHANGED <<oDay, oPrefs, oAway, oDelivered, oToday, oDigests, oLate>>,
             oClaims \subseteq oClaims', oClaims' \subseteq Emails!Keys,
             oSequence' \in OSequence, oSequence'.sends <= oDigests,
             oSequence'.state = "finished" => oDigests >= Emails!TotalSends
      PROVE  Emails!IndInv'
  <2>1. Emails!TypeOK'
    BY <1>m, <1>0, EmailsTypesNext
  <2>2. Emails!FinishedGotAll'
    BY <1>m DEF Emails!FinishedGotAll
  <2> QED
    BY <1>m, <2>1, <2>2, OneRunMoves
<1>e. ASSUME NEW r \in Req, Emails!Ends(r), oDigests' \in Nat
      PROVE  oRun' \in [Req -> ORun] /\ Others(r) /\ Quiet(r)
  BY <1>e, <1>0, EmailsEnds DEF Quiet
<1>1. ASSUME NEW r \in Req, NEW kind \in Emails!Kind, Emails!StartMail(r, kind) PROVE Emails!IndInv'
  <2>1. /\ Emails!Reads(r, "gather", kind, oPrefs)
        /\ UNCHANGED <<oDay, oPrefs, oAway, oSequence, oClaims, oDelivered, oToday, oDigests, oLate>>
    BY <1>1 DEF Emails!StartMail
  <2>2. /\ oRun' \in [Req -> ORun] /\ Others(r) /\ oRun'[r].step = "gather"
        /\ oRun'[r].sends \in {0, oSequence.sends}
        /\ oRun'[r].stopped => ~oRun'[r].allowed
    BY <2>1, <1>0, EmailsReads
  <2>3. Quiet(r)
    BY <2>1, <2>2, <1>0, <1>f DEF Quiet
  <2> QED
    BY <2>1, <2>2, <2>3, <1>0, <1>f, <1>m
<1>2. ASSUME NEW r \in Req, Emails!StartDigest(r) PROVE Emails!IndInv'
  <2>1. "reengagement" \in Emails!Kind
    BY DEF Emails!Kind
  <2>2. PICK got \in {oPrefs, Emails!Nothing} : Emails!Reads(r, "ready", "reengagement", got)
    BY <1>2 DEF Emails!StartDigest, Emails!DigestPrefs
  <2>3. UNCHANGED <<oDay, oPrefs, oAway, oSequence, oClaims, oDelivered, oToday, oDigests, oLate>>
    BY <1>2 DEF Emails!StartDigest
  <2>4. /\ oRun' \in [Req -> ORun] /\ Others(r) /\ oRun'[r].step = "ready"
        /\ oRun'[r].sends \in {0, oSequence.sends}
        /\ oRun'[r].stopped => ~oRun'[r].allowed
    BY <2>1, <2>2, <1>0, EmailsReads
  <2>5. Quiet(r)
    BY <2>3, <2>4, <1>0, <1>f DEF Quiet
  <2> QED
    BY <2>3, <2>4, <2>5, <1>0, <1>f, <1>m
<1>3. ASSUME NEW r \in Req, Emails!CloseSequence(r) PROVE Emails!IndInv'
  <2>1. UNCHANGED <<oDay, oPrefs, oAway, oClaims, oRun, oDelivered, oToday, oDigests, oLate>>
    BY <1>3 DEF Emails!CloseSequence
  <2>2. oSequence' = [oSequence EXCEPT !.state = "returned"] /\ oSequence.state = "active"
    BY <1>3 DEF Emails!CloseSequence, Emails!CloseOnReturn
  <2>3. oSequence' \in OSequence /\ oSequence'.sends = oSequence.sends /\ oSequence'.state = "returned"
    BY <2>2, <1>0 DEF OSequence
  <2>4. Emails!TypeOK'
    BY <2>1, <2>3, <1>0, EmailsTypesNext
  <2>5. /\ Emails!DeliveredIsClaimed' /\ Emails!StoppedMayNot' /\ Emails!ClaimedMay'
        /\ Emails!OneMailPerKey' /\ Emails!StopIsHonoured' /\ Emails!DigestsAreCounted'
    BY <2>1 DEF Emails!IndInv, Emails!DeliveredIsClaimed, Emails!StoppedMayNot,
                Emails!ClaimedMay, Emails!OneMailPerKey, Emails!StopIsHonoured,
                Emails!DigestsAreCounted
  <2>6. Emails!FinishedGotAll'
    BY <2>1, <2>3, <1>f DEF Emails!FinishedGotAll
  <2>7. \A q \in Req, k \in Emails!Keys : Emails!Holds(q, k)' <=> Emails!Holds(q, k)
    BY <2>1 DEF Emails!Holds, Emails!KeyOf, Emails!Weekday
  <2>8. Emails!HolderIsAlone'
    BY <2>1, <2>7 DEF Emails!IndInv, Emails!HolderIsAlone
  <2> QED
    BY <2>4, <2>5, <2>6, <2>8 DEF Emails!IndInv
<1>4. ASSUME NEW r \in Req, Emails!Gather(r) PROVE Emails!IndInv'
  <2>1. /\ oRun' = [oRun EXCEPT ![r].step = "ready"]
        /\ UNCHANGED <<oDay, oPrefs, oAway, oSequence, oClaims, oDelivered, oToday, oDigests, oLate>>
    BY <1>4 DEF Emails!Gather
  <2>2. /\ oRun' \in [Req -> ORun] /\ Others(r) /\ oRun'[r].step = "ready"
        /\ oRun'[r].sends = oRun[r].sends
        /\ oRun'[r].stopped = oRun[r].stopped /\ oRun'[r].allowed = oRun[r].allowed
    BY <2>1, <1>0, EmailsSteps
  <2>3. Quiet(r)
    BY <2>1, <2>2, <1>r DEF Quiet
  <2> QED
    BY <2>1, <2>2, <2>3, <1>0, <1>f, <1>m
<1>5. ASSUME NEW r \in Req, Emails!NothingToReport(r) \/ Emails!Passes(r) PROVE Emails!IndInv'
  <2>1. /\ Emails!Ends(r)
        /\ UNCHANGED <<oDay, oPrefs, oAway, oSequence, oClaims, oDelivered, oToday, oDigests, oLate>>
    BY <1>5 DEF Emails!NothingToReport, Emails!Passes
  <2>2. oRun' \in [Req -> ORun] /\ Others(r) /\ Quiet(r)
    BY <2>1, <1>0, <1>e
  <2> QED
    BY <2>1, <2>2, <1>0, <1>f, <1>m
<1>6. ASSUME NEW r \in Req, Emails!Claim(r) PROVE Emails!IndInv'
  <2>1. /\ oRun' = [oRun EXCEPT ![r].step = "claimed"]
        /\ oClaims' = oClaims \union {Emails!KeyOf(oRun[r].kind)}
        /\ UNCHANGED <<oDay, oPrefs, oAway, oSequence, oDelivered, oToday, oDigests, oLate>>
    BY <1>6 DEF Emails!Claim
  <2>2. oRun' \in [Req -> ORun] /\ oClaims' \subseteq Emails!Keys
    <3>1. oRun' \in [Req -> ORun]
      BY <2>1, <1>0, EmailsSteps
    <3>2. Emails!KeyOf(oRun[r].kind) \in Emails!Keys
      BY <1>0, <1>r, KeyOfIsAKey
    <3> QED
      BY <2>1, <1>0, <3>1, <3>2
  <2>3. Emails!TypeOK'
    BY <2>1, <2>2, <1>0, EmailsTypesNext
  <2> QED
    BY <1>6, <2>3, ClaimIsSafe
<1>7. ASSUME NEW r \in Req, Emails!ClaimRefused(r) PROVE Emails!IndInv'
  <2>1. /\ Emails!Ends(r)
        /\ oClaims' \in {oClaims, oClaims \union {Emails!KeyOf(oRun[r].kind)}}
        /\ UNCHANGED <<oDay, oPrefs, oAway, oSequence, oDelivered, oToday, oDigests, oLate>>
    BY <1>7 DEF Emails!ClaimRefused
  <2>2. oRun' \in [Req -> ORun] /\ Others(r) /\ Quiet(r)
    BY <2>1, <1>0, <1>e
  <2>3. oClaims \subseteq oClaims' /\ oClaims' \subseteq Emails!Keys
    BY <2>1, <1>0, <1>r, KeyOfIsAKey
  <2> QED
    BY <2>1, <2>2, <2>3, <1>0, <1>f, <1>m
<1>d. ASSUME NEW r \in Req, oRun[r].step = "claimed", Emails!Delivers(r),
             UNCHANGED <<oDay, oPrefs, oAway, oSequence, oClaims>>,
             oRun' \in [Req -> ORun], Others(r), Quiet(r)
      PROVE  Emails!IndInv'
  <2>1. oDelivered' \in [Emails!Keys -> Nat] /\ oToday' \in Nat /\ oDigests' \in Nat /\ oLate' \in Nat
    BY <1>d, <1>0, EmailsDelivers
  <2>2. Emails!TypeOK'
    BY <1>d, <2>1, <1>0, EmailsTypesNext
  <2> QED
    BY <1>d, <2>2, DeliveryIsSafe
<1>8. ASSUME NEW r \in Req, Emails!Sent(r) PROVE Emails!IndInv'
  <2>1. /\ oRun[r].step = "claimed" /\ Emails!Delivers(r)
        /\ UNCHANGED <<oDay, oPrefs, oAway, oSequence, oClaims>>
    BY <1>8 DEF Emails!Sent
  <2>2. oDigests' \in Nat /\ oDigests' >= oDigests /\ (oRun[r].kind = "reengagement" => oDigests' = oDigests + 1)
    BY <2>1, <1>0, EmailsDelivers
  <2>3. CASE oRun[r].kind = "reengagement"
    <3>1. oRun' = [oRun EXCEPT ![r].step = "advance"]
      BY <1>8, <2>3 DEF Emails!Sent
    <3>2. /\ oRun' \in [Req -> ORun] /\ Others(r) /\ oRun'[r].step = "advance"
          /\ oRun'[r].sends = oRun[r].sends
          /\ oRun'[r].stopped = oRun[r].stopped /\ oRun'[r].allowed = oRun[r].allowed
      BY <3>1, <1>0, EmailsSteps
    <3>3. oRun'[r].sends < oDigests' /\ oRun'[r].sends <= oDigests'
      BY <2>2, <2>3, <3>2, <1>0, <1>r
    <3>4. Quiet(r)
      BY <3>2, <3>3, <1>r DEF Quiet
    <3> QED
      BY <2>1, <3>2, <3>4, <1>d
  <2>4. CASE oRun[r].kind # "reengagement"
    <3>1. Emails!Ends(r)
      BY <1>8, <2>4 DEF Emails!Sent
    <3> QED
      BY <2>1, <2>2, <3>1, <1>e, <1>d
  <2> QED
    BY <2>3, <2>4
<1>9. ASSUME NEW r \in Req, Emails!SendFails(r) PROVE Emails!IndInv'
  <2>1. /\ oRun[r].step = "claimed" /\ Emails!Ends(r)
        /\ UNCHANGED <<oDay, oPrefs, oAway, oSequence, oClaims>>
    BY <1>9 DEF Emails!SendFails
  <2>2. CASE Emails!Delivers(r)
    BY <2>1, <2>2, <1>0, <1>e, <1>d, EmailsDelivers
  <2>3. CASE UNCHANGED <<oDelivered, oToday, oDigests, oLate>>
    <3>1. oRun' \in [Req -> ORun] /\ Others(r) /\ Quiet(r)
      BY <2>1, <2>3, <1>0, <1>e
    <3> QED
      BY <2>1, <2>3, <3>1, <1>0, <1>f, <1>m
  <2> QED
    BY <1>9, <2>2, <2>3 DEF Emails!SendFails
<1>10. ASSUME NEW r \in Req, Emails!Advance(r) PROVE Emails!IndInv'
  <2>1. /\ Emails!Ends(r) /\ oRun[r].step = "advance"
        /\ oSequence' = oSequence \/ oSequence' = Emails!RecordSend(oRun[r].sends)
        /\ UNCHANGED <<oDay, oPrefs, oAway, oClaims, oDelivered, oToday, oDigests, oLate>>
    BY <1>10 DEF Emails!Advance
  <2>2. oRun' \in [Req -> ORun] /\ Others(r) /\ Quiet(r)
    BY <2>1, <1>0, <1>e
  <2>3. CASE oSequence' = oSequence
    BY <2>1, <2>2, <2>3, <1>0, <1>f, <1>m
  <2>4. CASE oSequence' = Emails!RecordSend(oRun[r].sends)
    <3>1. oRun[r].sends \in Nat /\ oRun[r].sends + 1 <= oDigests
      BY <2>1, <1>0, <1>r
    <3>2. /\ oSequence' \in OSequence /\ oSequence'.sends = oRun[r].sends + 1
          /\ oSequence'.state = "finished" => oRun[r].sends + 1 >= Emails!TotalSends
      BY <2>4, <3>1, <1>0, RecordSendIsASequence
    <3>3. oSequence'.sends <= oDigests
      BY <3>1, <3>2
    <3>4. oSequence'.state = "finished" => oDigests >= Emails!TotalSends
      BY <3>1, <3>2, <1>0
    <3> QED
      BY <2>1, <2>2, <3>2, <3>3, <3>4, <1>0, <1>m
  <2> QED
    BY <2>1, <2>3, <2>4
<1>11. ASSUME Emails!Unsubscribe \/ Emails!PutPreferences PROVE Emails!IndInv'
  <2>1. oPrefs' \in Emails!Preferences
    <3>1. CASE Emails!Unsubscribe
      BY <3>1, <1>0 DEF Emails!Unsubscribe, Emails!Preferences
    <3>2. CASE Emails!PutPreferences
      BY <3>2, EmailsConstants DEF Emails!PutPreferences
    <3> QED
      BY <1>11, <3>1, <3>2
  <2>2. UNCHANGED <<oDay, oAway, oSequence, oClaims, oRun, oDelivered, oToday, oDigests, oLate>>
    BY <1>11 DEF Emails!Unsubscribe, Emails!PutPreferences
  <2> QED
    BY <2>1, <2>2, <1>0, <1>s
<1>12. ASSUME Emails!SignIn PROVE Emails!IndInv'
  <2>1. /\ oAway' = 0
        /\ UNCHANGED <<oDay, oPrefs, oSequence, oClaims, oRun, oDelivered, oToday, oDigests, oLate>>
    BY <1>12 DEF Emails!SignIn
  <2>2. oAway' \in 0 .. LapseAfter
    BY <2>1, EmailsConstants
  <2> QED
    BY <2>1, <2>2, <1>0, <1>s
<1>13. ASSUME Emails!NextDay PROVE Emails!IndInv'
  <2>1. /\ \A r \in Req : oRun[r].step = "idle"
        /\ UNCHANGED <<oPrefs, oSequence, oRun, oLate, oDigests>>
    BY <1>13 DEF Emails!NextDay
  <2>2. /\ Emails!TypeOK'
        /\ \/ oClaims' = {} /\ \A k \in Emails!Keys : oDelivered'[k] = 0
           \/ UNCHANGED <<oClaims, oDelivered>>
    BY <1>13, <1>0, EmailsWeek
  <2>3. /\ Emails!HolderIsAlone' /\ Emails!StoppedMayNot' /\ Emails!ClaimedMay'
        /\ Emails!StopIsHonoured' /\ Emails!DigestsAreCounted' /\ Emails!FinishedGotAll'
    BY <2>1 DEF Emails!IndInv, Emails!HolderIsAlone, Emails!StoppedMayNot, Emails!ClaimedMay,
                Emails!StopIsHonoured, Emails!Holds, Emails!DigestsAreCounted, Emails!FinishedGotAll
  <2>4. Emails!DeliveredIsClaimed' /\ Emails!OneMailPerKey'
    <3>1. CASE oClaims' = {} /\ \A k \in Emails!Keys : oDelivered'[k] = 0
      BY <3>1 DEF Emails!DeliveredIsClaimed, Emails!OneMailPerKey, Emails!Keys
    <3>2. CASE UNCHANGED <<oClaims, oDelivered>>
      BY <3>2 DEF Emails!IndInv, Emails!DeliveredIsClaimed, Emails!OneMailPerKey
    <3> QED
      BY <2>2, <3>1, <3>2
  <2> QED
    BY <2>2, <2>3, <2>4 DEF Emails!IndInv
<1>14. CASE UNCHANGED Emails!vars
  BY <1>14, <1>0, <1>s DEF Emails!vars
<1> QED
  BY <1>1, <1>2, <1>3, <1>4, <1>5, <1>6, <1>7, <1>8, <1>9, <1>10, <1>11, <1>12, <1>13, <1>14
     DEF Emails!Next

\* Whatever the cron runs and the user do, the inductive invariant of the mails
\* holds.
THEOREM EmailsInductive == DeskSpec => []Emails!IndInv
<1>1. DeskInit => Emails!IndInv
  BY EmailsInit
<1>2. Emails!IndInv /\ [DeskNext]_everything => Emails!IndInv'
  BY EmailsNext, EmailsStep
<1> QED
  BY <1>1, <1>2, PTL DEF DeskSpec

\* A key delivers one mail at most, however runs of scripts/send_emails are
\* repeated, overlap, fail or die.
THEOREM KeysDeliverOnce == DeskSpec => []OneMailPerKey
<1>1. Emails!IndInv => OneMailPerKey
  BY DEF Emails!IndInv, OneMailPerKey
<1> QED
  BY <1>1, EmailsInductive, PTL

\* A run that began under a stored stop sends nothing.
THEOREM StopsHold == DeskSpec => []StopIsHonoured
<1>1. Emails!IndInv => StopIsHonoured
  BY DEF Emails!IndInv, StopIsHonoured
<1> QED
  BY <1>1, EmailsInductive, PTL

\* A finished sequence delivered all its digests.
THEOREM SequencesDeliver == DeskSpec => []FinishedGotAll
<1>1. Emails!IndInv => FinishedGotAll
  BY DEF Emails!IndInv, FinishedGotAll
<1> QED
  BY <1>1, EmailsInductive, PTL

-----------------------------------------------------------------------------
(* Together                                                                *)

\* A scan, a kit or a tune-up cycle is paid twice only by requests that
\* overlapped, each of which read an open gate or a priced cycle (scan_jobs,
\* build_apply_kit, run_naukri_tuneup).
THEOREM PaidByOverlap == DeskSpec => []PaidOnlyByOverlap
<1>1. Jobs!IndInv /\ Naukri!IndInv => PaidOnlyByOverlap
  BY DEF PaidOnlyByOverlap, Jobs!IndInv, Naukri!IndInv
<1> QED
  BY <1>1, JobsInductive, NaukriInductive, PTL

\* A process admits no more than a bucket per start and what time refills
\* (RateLimiter.take).
THEOREM ProcessesHaveACeiling == DeskSpec => []CeilingPerProcess
<1>1. Limits!IndInv => CeilingPerProcess
  BY DEF CeilingPerProcess, Limits!IndInv
<1> QED
  BY <1>1, LimitsInductive, PTL

\* Processes started together see one another (instances.check counts the
\* heartbeats after its own was written).
THEOREM StartsAreSeen == DeskSpec => []StartedTogetherIsSeen
<1>1. Limits!IndInv => StartedTogetherIsSeen
  BY DEF StartedTogetherIsSeen, Limits!IndInv
<1> QED
  BY <1>1, LimitsInductive, PTL
=============================================================================
