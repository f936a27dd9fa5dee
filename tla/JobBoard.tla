------------------------------ MODULE JobBoard ------------------------------
(***************************************************************************)
(* The jobs feed of one user and the shared search quota: scans, tailored  *)
(* CVs (apply kits) and dismissals in flight at the same time              *)
(* (routes/jobs, services/jobs/quota, adapter, providers, store, scoring). *)
(*                                                                         *)
(* A scan passes three gates (the last scan, the day's search quota, the   *)
(* balance), searches the providers one by one and files what they found:  *)
(* it reads which postings the feed knows, inserts the others in one       *)
(* batch, refreshes the known ones, and writes the verdicts of the scorer  *)
(* over rows it read before.  The run around the work is AgentRun's: here  *)
(* it is the charge at the end, and the record that the scan succeeded.    *)
(***************************************************************************)
EXTENDS Integers, FiniteSets

CONSTANTS
    Job,            \* the postings there are, by dedup_key
    Req,            \* requests in flight at the same time
    Cap,            \* jsearch_daily_cap
    MinResults,     \* enough postings not to ask the next provider
    MaxRequests     \* bound: requests that pass their gates

VARIABLES
    feed,       \* feed[j]: the row of posting j
    used,       \* the provider calls of today the counter sees, V1's included
    called,     \* calls V2 made to the capped provider today
    recent,     \* a scan is on record as succeeded in the last six hours
    request,    \* request[r]: its step and what it holds
    started,    \* requests that passed their gates
    blind,      \* scans that could not read the last scan, or left no record
    scans,      \* scans charged in these six hours
    kits,       \* kits[j]: kits of posting j that were charged
    reported    \* reported[j]: scans that reported posting j as new

vars == <<feed, used, called, recent, request, started, blind, scans, kits, reported>>

\* What a row's details hold: the provider's facts (the apply link among them)
\* and the scorer's verdict.
Detail == {"facts", "verdict"}
Status == {"none", "active", "saved", "dismissed"}
Row == [status : Status, details : SUBSET Detail, kit : BOOLEAN]

NoRow == [status |-> "none", details |-> {}, kit |-> FALSE]
Known(j) == feed[j].status # "none"

\* A request: its step, the postings it found, those it still has to write,
\* the details it read or wrote of them, and the posting of a kit.
Idle == [step |-> "idle", found |-> {}, todo |-> {}, new |-> {},
         stored |-> [j \in Job |-> {}]]

Step == {"idle", "quota", "record", "jsearch", "adzuna", "read", "insert",
         "refresh", "annotate", "charge", "kit"}

TypeOK ==
    /\ feed \in [Job -> Row]
    /\ used \in Nat /\ called \in Nat /\ recent \in BOOLEAN
    /\ request \in [Req -> [step : Step, found : SUBSET Job, todo : SUBSET Job,
                            new : SUBSET Job, stored : [Job -> SUBSET Detail]]]
    /\ started \in 0 .. MaxRequests
    /\ blind \in Nat /\ scans \in Nat
    /\ kits \in [Job -> Nat] /\ reported \in [Job -> Nat]

\* The feed V1 left behind: a posting may be there, saved or dismissed.
Init ==
    /\ feed \in [Job -> {NoRow, [status |-> "saved", details |-> {"facts"}, kit |-> FALSE]}]
    /\ used = 0 /\ called = 0 /\ recent = FALSE
    /\ request = [r \in Req |-> Idle]
    /\ started = 0 /\ blind = 0 /\ scans = 0
    /\ kits = [j \in Job |-> 0] /\ reported = [j \in Job |-> 0]

At(r, step) == request[r].step = step
Goes(r, step) == request' = [request EXCEPT ![r].step = step]
Ends(r) == request' = [request EXCEPT ![r] = Idle]

-----------------------------------------------------------------------------
(* The gates of a scan.  Each reads and decides; nothing is reserved.      *)

\* The last scan on record is six hours old, or cannot be read: last_scan_at
\* answers a failed read as "never", and the gate opens.
PassRescanGate(r) ==
    /\ At(r, "idle") /\ started < MaxRequests
    /\ \/ ~recent /\ UNCHANGED blind
       \/ blind' = blind + 1
    /\ started' = started + 1
    /\ Goes(r, "quota")
    /\ UNCHANGED <<feed, used, called, recent, scans, kits, reported>>

\* (A plausible bug in PassQuota: a count that cannot be read counts as none.)
PassQuotaUnread(r) ==
    /\ At(r, "quota")
    /\ Goes(r, "record")
    /\ UNCHANGED <<feed, used, called, recent, started, blind, scans, kits, reported>>

\* quota.refusal: today's count is read and below the cap.  A count that cannot
\* be read refuses, as a full quota, an empty balance and a start that cannot
\* be recorded do: the request ends without a charge.
PassQuota(r) ==
    /\ At(r, "quota")
    /\ used < Cap
    /\ Goes(r, "record")
    /\ UNCHANGED <<feed, used, called, recent, started, blind, scans, kits, reported>>

Refused(r) ==
    /\ At(r, "quota")
    /\ Ends(r)
    /\ UNCHANGED <<feed, used, called, recent, started, blind, scans, kits, reported>>

-----------------------------------------------------------------------------
(* The search: every call is recorded before it is made.                   *)

\* RecordedProvider.search: the ledger row, then the call.  When the insert
\* fails, landed or not, the provider counts as unavailable and the next one
\* is asked.
RecordCall(r) ==
    /\ At(r, "record")
    /\ \/ used' = used + 1 /\ called' = called + 1 /\ Goes(r, "jsearch")
       \/ used' \in {used, used + 1} /\ UNCHANGED called /\ Goes(r, "adzuna")
    /\ UNCHANGED <<feed, recent, started, blind, scans, kits, reported>>

\* The first provider answers with some postings, or fails with none.
SearchFirst(r) ==
    /\ At(r, "jsearch")
    /\ \E found \in SUBSET Job :
        request' = [request EXCEPT ![r].found = found,
                      ![r].step = IF Cardinality(found) >= MinResults THEN "read" ELSE "adzuna"]
    /\ UNCHANGED <<feed, used, called, recent, started, blind, scans, kits, reported>>

\* The second one; its calls are recorded too, but not counted.  One posting
\* found twice is one posting (dedupe_across_sources).  A scan without any is
\* empty or failed, and costs nothing.
SearchSecond(r) ==
    /\ At(r, "adzuna")
    /\ \E more \in SUBSET Job :
        LET found == request[r].found \union more
        IN  IF found = {} THEN Ends(r)
            ELSE request' = [request EXCEPT ![r].found = found, ![r].step = "read"]
    /\ UNCHANGED <<feed, used, called, recent, started, blind, scans, kits, reported>>

-----------------------------------------------------------------------------
(* store.persist and store.annotate                                        *)

\* Which of the postings the feed knows, with their details as they are now.
ReadKnown(r) ==
    /\ At(r, "read")
    /\ LET found == request[r].found
           known == {j \in found : Known(j)}
       IN  request' = [request EXCEPT ![r].new = found \ known, ![r].todo = known,
                         ![r].stored = [j \in Job |-> IF j \in known THEN feed[j].details ELSE {}],
                         ![r].step = IF known = found THEN "refresh" ELSE "insert"]
    /\ UNCHANGED <<feed, used, called, recent, started, blind, scans, kits, reported>>

Filed(j) == [status |-> "active", details |-> {"facts"}, kit |-> FALSE]

Inserted(r) ==
    /\ feed' = [j \in Job |-> IF j \in request[r].new THEN Filed(j) ELSE feed[j]]
    /\ request' = [request EXCEPT ![r].step = "refresh",
                     ![r].stored = [j \in Job |-> IF j \in request[r].new THEN {"facts"}
                                                  ELSE request[r].stored[j]]]

\* (A plausible bug in InsertNew: the batch is an upsert, as most writes here.)
InsertNewUpserts(r) ==
    /\ At(r, "insert")
    /\ Inserted(r)
    /\ UNCHANGED <<used, called, recent, started, blind, scans, kits, reported>>

\* One insert for all that is new: the unique index on (user_id, dedup_key)
\* refuses the whole batch if another scan has filed one of them since.
InsertNew(r) ==
    /\ At(r, "insert")
    /\ \A j \in request[r].new : ~Known(j)
    /\ Inserted(r)
    /\ UNCHANGED <<used, called, recent, started, blind, scans, kits, reported>>

\* A known posting: last_seen, and the details it had with this scan's facts
\* over them.  Its status is left alone.
Refresh(r, j) ==
    /\ At(r, "refresh") /\ j \in request[r].todo
    /\ LET now == request[r].stored[j] \union {"facts"}
       IN  /\ feed' = [feed EXCEPT ![j].details = now]
           /\ request' = [request EXCEPT ![r].todo = @ \ {j}, ![r].stored[j] = now]
    /\ UNCHANGED <<used, called, recent, started, blind, scans, kits, reported>>

\* Any of these calls raises, whether it landed or not: the scan has failed and
\* is not charged.  What it wrote before stays.
PersistFails(r) ==
    /\ \/ At(r, "read") /\ UNCHANGED feed
       \/ /\ At(r, "insert")
          /\ \/ UNCHANGED feed
             \/ /\ \A j \in request[r].new : ~Known(j)
                /\ feed' = [j \in Job |-> IF j \in request[r].new THEN Filed(j) ELSE feed[j]]
       \/ /\ At(r, "refresh")
          /\ \E j \in request[r].todo :
                \/ UNCHANGED feed
                \/ feed' = [feed EXCEPT ![j].details = request[r].stored[j] \union {"facts"}]
    /\ Ends(r)
    /\ UNCHANGED <<used, called, recent, started, blind, scans, kits, reported>>

\* The scorer judged some of the postings, or none when it failed.
Judged(r) ==
    /\ At(r, "refresh") /\ request[r].todo = {}
    /\ \E judged \in SUBSET request[r].found :
        request' = [request EXCEPT ![r].todo = judged, ![r].step = "annotate"]
    /\ UNCHANGED <<feed, used, called, recent, started, blind, scans, kits, reported>>

\* (A plausible bug in Annotate, and the one V2 had: the update replaces the
\* whole details column.)
AnnotateReplaces(r, j) ==
    /\ At(r, "annotate") /\ j \in request[r].todo
    /\ feed' = [feed EXCEPT ![j].details = {"verdict"}]
    /\ request' = [request EXCEPT ![r].todo = @ \ {j}]
    /\ UNCHANGED <<used, called, recent, started, blind, scans, kits, reported>>

\* A verdict, merged into the details this scan wrote; an update that fails is
\* passed over.
Annotate(r, j) ==
    /\ At(r, "annotate") /\ j \in request[r].todo
    /\ feed' \in {feed, [feed EXCEPT ![j].details = request[r].stored[j] \union {"verdict"}]}
    /\ request' = [request EXCEPT ![r].todo = @ \ {j}]
    /\ UNCHANGED <<used, called, recent, started, blind, scans, kits, reported>>

\* The scan is charged, then recorded as succeeded; that save may be lost.
Charge(r) ==
    /\ At(r, "annotate") /\ request[r].todo = {}
    /\ scans' = scans + 1
    /\ reported' = [j \in Job |-> reported[j] + IF j \in request[r].new THEN 1 ELSE 0]
    /\ \/ recent' = TRUE /\ UNCHANGED blind
       \/ UNCHANGED recent /\ blind' = blind + 1
    /\ Ends(r)
    /\ UNCHANGED <<feed, used, called, started, kits>>

-----------------------------------------------------------------------------
(* The apply kit, the dismissal, and time                                  *)

\* (A plausible bug in ReadForKit: the posting is looked up, the kit is not.)
ReadForKitAny(r, j) ==
    /\ At(r, "idle") /\ started < MaxRequests
    /\ Known(j)
    /\ started' = started + 1
    /\ request' = [request EXCEPT ![r].step = "kit", ![r].todo = {j}]
    /\ UNCHANGED <<feed, used, called, recent, blind, scans, kits, reported>>

\* A posting that has no kit yet; one that has is refused, reopening is free.
ReadForKit(r, j) ==
    /\ At(r, "idle") /\ started < MaxRequests
    /\ Known(j) /\ ~feed[j].kit
    /\ started' = started + 1
    /\ request' = [request EXCEPT ![r].step = "kit", ![r].todo = {j}]
    /\ UNCHANGED <<feed, used, called, recent, blind, scans, kits, reported>>

\* The kit is written to the row by its id and charged; or there is none (the
\* writer's CV was not kept), or the update failed, and it costs nothing.
SaveKit(r) ==
    /\ At(r, "kit")
    /\ \E j \in request[r].todo :
        \/ feed' = [feed EXCEPT ![j].kit = TRUE] /\ kits' = [kits EXCEPT ![j] = @ + 1]
        \/ feed' \in {feed, [feed EXCEPT ![j].kit = TRUE]} /\ UNCHANGED kits
    /\ Ends(r)
    /\ UNCHANGED <<used, called, recent, started, blind, scans, reported>>

\* "Not for me": the posting is the user's, and its status is overwritten.  A
\* failed update may have landed.
Dismiss(j) ==
    /\ Known(j)
    /\ feed' = [feed EXCEPT ![j].status = "dismissed"]
    /\ UNCHANGED <<used, called, recent, request, started, blind, scans, kits, reported>>

\* V1 searches on the same quota.
V1Searches ==
    /\ used < Cap
    /\ used' = used + 1
    /\ UNCHANGED <<feed, called, recent, request, started, blind, scans, kits, reported>>

\* Midnight, UTC: the counter starts again.
Midnight ==
    /\ used > 0
    /\ used' = 0 /\ called' = 0
    /\ UNCHANGED <<feed, recent, request, started, blind, scans, kits, reported>>

\* The last recorded scan is six hours old.
SixHoursLater ==
    /\ recent
    /\ recent' = FALSE /\ scans' = 0 /\ blind' = 0
    /\ \A r \in Req : At(r, "idle")     \* bound: no scan takes six hours
    /\ UNCHANGED <<feed, used, called, request, started, kits, reported>>

Next ==
    \/ \E r \in Req :
        \/ PassRescanGate(r) \/ PassQuota(r) \/ Refused(r)
        \/ RecordCall(r) \/ SearchFirst(r) \/ SearchSecond(r)
        \/ ReadKnown(r) \/ InsertNew(r) \/ PersistFails(r)
        \/ Judged(r) \/ Charge(r) \/ SaveKit(r)
        \/ \E j \in Job : Refresh(r, j) \/ Annotate(r, j) \/ ReadForKit(r, j)
    \/ \E j \in Job : Dismiss(j)
    \/ V1Searches \/ Midnight \/ SixHoursLater

Spec == Init /\ [][Next]_vars

-----------------------------------------------------------------------------
(* Properties                                                              *)

\* The cap is read before the calls are recorded, so scans under way at the
\* same time overshoot it; but never by more than one call for each of the
\* others that were under way (quota.refusal, RecordedProvider).
QuotaBounded == called <= Cap + Cardinality(Req) - 1

\* A posting is reported as new by one scan at most, whatever overlaps or
\* fails: the badge cannot count it twice (store.persist).
NewOnce == \A j \in Job : reported[j] <= 1

\* Six hours are charged once for each request that was already past the gate
\* when the first scan was recorded, and a posting's kit once for each that had
\* read the row before it was saved; what a failed read or a lost record let
\* through comes on top (last_scan_at, build_apply_kit).
PaidOnlyByOverlap ==
    /\ scans <= Cardinality(Req) + blind
    /\ \A j \in Job : kits[j] <= Cardinality(Req)

\* What the user dismissed stays dismissed, and no scan loses the apply link
\* of a posting, whichever stale details it writes back (store.persist,
\* store.annotate).
FeedRespectsTheUser ==
    [][\A j \in Job :
        /\ feed[j].status = "dismissed" => feed'[j].status = "dismissed"
        /\ "facts" \in feed[j].details => "facts" \in feed'[j].details]_vars

-----------------------------------------------------------------------------
(* Why it holds.  The inductive invariant behind the properties.           *)

\* Those that passed the quota gate and have not used it yet count as calls.
Recording == {r \in Req : At(r, "record")}

RecordedCallsCount ==
    /\ called <= used
    /\ Recording # {} => Cap > 0
    /\ called + Cardinality(Recording) <= Cap + Cardinality(Req) - 1

\* A scan that inserted a posting is the only one to have it as new, and has
\* not reported it yet; a posting that was reported stays in the feed.
HasFiled(r, j) == request[r].step \in {"refresh", "annotate"} /\ j \in request[r].new

FiledByOne ==
    /\ \A j \in Job : reported[j] > 0 => Known(j)
    /\ \A j \in Job, r \in Req :
          HasFiled(r, j) =>
              /\ Known(j) /\ reported[j] = 0
              /\ \A q \in Req \ {r} : ~HasFiled(q, j)

\* While no scan is on record every charge is a lost record; afterwards the
\* scans that may still be charged are those under way.
Scans == {r \in Req : request[r].step \notin {"idle", "kit"}}

ChargesAreCovered ==
    /\ ~recent => scans <= blind
    /\ recent => scans + Cardinality(Scans) <= Cardinality(Req) + blind

\* The same for the kits of a posting, with its flag for the record.
KitOf(j) == {r \in Req : At(r, "kit") /\ j \in request[r].todo}

KitsAreCovered ==
    \A j \in Job :
        /\ feed[j].kit \/ KitOf(j) # {} => Known(j)
        /\ ~feed[j].kit => kits[j] = 0
        /\ feed[j].kit => kits[j] + Cardinality(KitOf(j)) <= Cardinality(Req)

\* Whatever a scan writes back of a posting has the facts in it.
WritesHaveFacts ==
    \A r \in Req :
        LET q == request[r] IN
        /\ q.step = "insert" => q.found = q.new \union q.todo
        /\ q.step = "refresh" => \A j \in q.found \ q.todo : "facts" \in q.stored[j]
        /\ q.step = "annotate" => /\ q.todo \subseteq q.found
                                  /\ \A j \in q.found : "facts" \in q.stored[j]

IndInv ==
    /\ TypeOK
    /\ RecordedCallsCount /\ QuotaBounded
    /\ FiledByOne /\ NewOnce
    /\ ChargesAreCovered /\ KitsAreCovered /\ PaidOnlyByOverlap
    /\ WritesHaveFacts
=============================================================================
