----------------------------- MODULE RateLimit -----------------------------
(***************************************************************************)
(* The rate limit of one key, a user's runs of one agent or an address     *)
(* (services/ratelimit, routes/_guards), and the census of the processes   *)
(* that each hold it (services/instances, the lifespan of main).           *)
(*                                                                         *)
(* Every process holds its own buckets in memory, refilled when they are   *)
(* looked at, taken from under a lock; a process that starts has full      *)
(* ones.  Before it serves, it writes a heartbeat and counts the rows that *)
(* are recent: with more than one it raises an alarm, and serves all the   *)
(* same.  Tokens are counted in units, of which time brings Rate a tick    *)
(* and a request takes Unit.                                               *)
(***************************************************************************)
EXTENDS Integers, FiniteSets

CONSTANTS
    Process,        \* places for API processes behind the load balancer
    Burst,          \* AGENT_BURST or PUBLIC_BURST, in requests
    Unit,           \* units a request takes
    Rate,           \* units a tick of time brings
    AliveWindow,    \* ALIVE_WINDOW, in ticks
    LastTick,       \* bound: time
    MaxStarts       \* bound: processes started in one place

VARIABLES
    now,            \* time.monotonic, and the clock of the heartbeats
    process,        \* process[p]: its stage, when it beat, what its census said
    rows,           \* the rows of api_instances
    bucket,         \* bucket[p]: the key's bucket in process p, if it has one
    starts,         \* starts[p]: processes started in place p so far
    admitted        \* admitted[p]: requests they let through

vars == <<now, process, rows, bucket, starts, admitted>>

Capacity == Burst * Unit
Unnamed == -1
NoBucket == [tokens |-> 0, updated |-> Unnamed]

\* Census: more than one seen, one, or could not look.
Seen == {"none", "alone", "many", "unknown"}
Down == [stage |-> "down", beat |-> Unnamed, seen |-> "none"]
Serving(p) == process[p].stage = "serves"

\* INSTANCE_ID: no two processes share one, not even of the same place.
Instance(p) == <<p, starts[p]>>
Row == [instance : Process \X (1 .. MaxStarts), last_seen : 0 .. LastTick]

TypeOK ==
    /\ now \in 0 .. LastTick
    /\ process \in [Process -> [stage : {"down", "beat", "serves"},
                               beat : Unnamed .. LastTick, seen : Seen]]
    /\ rows \subseteq Row
    /\ bucket \in [Process -> [tokens : 0 .. Capacity, updated : Unnamed .. LastTick]]
    /\ starts \in [Process -> 0 .. MaxStarts]
    /\ admitted \in [Process -> Nat]

Init ==
    /\ now = 0
    /\ process = [p \in Process |-> Down]
    /\ rows = {}
    /\ bucket = [p \in Process |-> NoBucket]
    /\ starts = [p \in Process |-> 0]
    /\ admitted = [p \in Process |-> 0]

-----------------------------------------------------------------------------
(* A process starts: instances.check, once, in the lifespan                *)

\* heartbeat: a row under the id of this start.  A write that fails is passed
\* over; no beat follows the first.
Beat(p) ==
    /\ process[p].stage = "down" /\ starts[p] < MaxStarts
    /\ starts' = [starts EXCEPT ![p] = @ + 1]
    /\ \/ /\ rows' = rows \union {[instance |-> Instance(p)', last_seen |-> now]}
          /\ process' = [process EXCEPT ![p] = [stage |-> "beat", beat |-> now, seen |-> "none"]]
       \/ /\ UNCHANGED rows
          /\ process' = [process EXCEPT ![p] = [Down EXCEPT !.stage = "beat"]]
    /\ UNCHANGED <<now, bucket, admitted>>

\* (A plausible bug in Alive: a row on the edge of the window is too old.)
AliveWithin == {row.instance : row \in {w \in rows : w.last_seen > now - AliveWindow}}

\* census: the ids whose row is recent enough.
Alive == {row.instance : row \in {w \in rows : w.last_seen >= now - AliveWindow}}

Census == IF Cardinality(Alive) > 1 THEN "many" ELSE "alone"

\* The census is read, or cannot be; the process serves either way.
Serve(p) ==
    /\ process[p].stage = "beat"
    /\ \E seen \in {Census, "unknown"} :
          process' = [process EXCEPT ![p].stage = "serves", ![p].seen = seen]
    /\ UNCHANGED <<now, rows, bucket, starts, admitted>>

\* A process ends, and its buckets with it; its row stays.
Stop(p) ==
    /\ process[p].stage # "down"
    /\ process' = [process EXCEPT ![p] = Down]
    /\ bucket' = [bucket EXCEPT ![p] = NoBucket]
    /\ UNCHANGED <<now, rows, starts, admitted>>

-----------------------------------------------------------------------------
(* The buckets                                                             *)

\* RateLimiter._bucket: got or made under the lock, full when it is made.
BucketOf(p) == IF bucket[p] = NoBucket THEN [tokens |-> Capacity, updated |-> now] ELSE bucket[p]

\* Bucket._refill.
Refilled(b) ==
    LET tokens == b.tokens + (now - b.updated) * Rate
    IN  [tokens |-> IF tokens < Capacity THEN tokens ELSE Capacity, updated |-> now]

\* (A plausible bug in Admit: the refill is not marked as done.)
AdmitKeepsClock(p) ==
    LET b == Refilled(BucketOf(p)) IN
    /\ Serving(p)
    /\ b.tokens >= Unit
    /\ bucket' = [bucket EXCEPT ![p] = [tokens |-> b.tokens - Unit, updated |-> BucketOf(p).updated]]
    /\ admitted' = [admitted EXCEPT ![p] = @ + 1]
    /\ UNCHANGED <<now, process, rows, starts>>

\* check_agent_run and check_public, with a whole token left.
Admit(p) ==
    LET b == Refilled(BucketOf(p)) IN
    /\ Serving(p)
    /\ b.tokens >= Unit
    /\ bucket' = [bucket EXCEPT ![p] = [b EXCEPT !.tokens = @ - Unit]]
    /\ admitted' = [admitted EXCEPT ![p] = @ + 1]
    /\ UNCHANGED <<now, process, rows, starts>>

\* Without: 429, and the time the bucket needs.
Refuse(p) ==
    LET b == Refilled(BucketOf(p)) IN
    /\ Serving(p)
    /\ b.tokens < Unit
    /\ bucket' = [bucket EXCEPT ![p] = b]
    /\ UNCHANGED <<now, process, rows, starts, admitted>>

\* Bound: a start takes less than a tick.  Rows past the window are dropped: no
\* census reads them again.
Tick ==
    /\ now < LastTick
    /\ \A p \in Process : process[p].stage # "beat"
    /\ now' = now + 1
    /\ rows' = {row \in rows : row.last_seen >= now' - AliveWindow}
    /\ UNCHANGED <<process, bucket, starts, admitted>>

Next ==
    \/ \E p \in Process : Beat(p) \/ Serve(p) \/ Stop(p) \/ Admit(p) \/ Refuse(p)
    \/ Tick

Spec == Init /\ [][Next]_vars

-----------------------------------------------------------------------------
\* Over any time, what a place lets through is a burst for every process it
\* started and the refill of one, and no more: more instances and restarts
\* multiply the ceiling, nothing else does (RateLimiter).
CeilingPerProcess ==
    \A p \in Process : admitted[p] * Unit <= starts[p] * Capacity + now * Rate

\* Two processes that serve, started within the window of each other, both with
\* a heartbeat written and a census read: one of them has raised the alarm,
\* however their starts interleave (check: heartbeat, then census).
StartedTogetherIsSeen ==
    \A p, q \in Process :
        /\ p # q /\ Serving(p) /\ Serving(q)
        /\ process[p].beat # Unnamed /\ process[q].beat # Unnamed
        /\ "unknown" \notin {process[p].seen, process[q].seen}
        /\ process[p].beat - process[q].beat \in 0 .. AliveWindow
        => "many" \in {process[p].seen, process[q].seen}

-----------------------------------------------------------------------------
(* Why it holds.  The inductive invariant behind the properties.           *)

\* What a place may still let through: nothing while it is down, a burst while
\* its process has made no bucket, then what is in it and what time brought.
Left(p) ==
    IF process[p].stage = "down" THEN 0
    ELSE IF bucket[p] = NoBucket THEN Capacity
         ELSE bucket[p].tokens + (now - bucket[p].updated) * Rate

BucketsAreServed ==
    \A p \in Process : bucket[p] = NoBucket \/ (Serving(p) /\ bucket[p].updated \in 0 .. now)

CeilingLeavesRoom ==
    \A p \in Process : admitted[p] * Unit + Left(p) <= starts[p] * Capacity + now * Rate

\* A process that wrote a heartbeat has its row as long as a census reads it,
\* and reads its own census in the tick it wrote it.
BeatsHaveRows ==
    \A p \in Process :
        LET beat == process[p].beat IN
        /\ beat <= now
        /\ process[p].stage = "beat" => beat \in {Unnamed, now}
        /\ beat # Unnamed /\ beat >= now - AliveWindow =>
              [instance |-> Instance(p), last_seen |-> beat] \in rows

IndInv ==
    /\ TypeOK
    /\ BucketsAreServed /\ CeilingLeavesRoom /\ CeilingPerProcess
    /\ BeatsHaveRows /\ StartedTogetherIsSeen
=============================================================================
