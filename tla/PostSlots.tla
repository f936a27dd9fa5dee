----------------------------- MODULE PostSlots -----------------------------
(***************************************************************************)
(* The post slots of one user's week (routes/posts, services/posts,        *)
(* services/posts_store, schedule in services/schedule).                   *)
(*                                                                         *)
(* Every request loads the week, changes its slot in memory and upserts    *)
(* the whole row.  Between the two the user, another tab or a drafting run *)
(* that takes its time may have written the same slot; and the contract    *)
(* that puts a slot in the week may have changed.                          *)
(***************************************************************************)
CONSTANTS
    Day,            \* the days of the week
    Req             \* requests in flight at the same time

VARIABLES
    planned,        \* the days the contract in force has content on
    slot,           \* slot[d]: the row of content_loop, or NoSlot
    request         \* request[r]: what it does, for which day, on what it read

vars == <<planned, slot, request>>

State == {"pending", "draft_ready", "published", "skipped"}
Slot == [stored : BOOLEAN, state : State, drafts : BOOLEAN, optional : BOOLEAN, reason : BOOLEAN]

\* A day without a row is a slot nobody has touched.
NoSlot == [stored |-> FALSE, state |-> "pending", drafts |-> FALSE,
           optional |-> FALSE, reason |-> FALSE]

WorkedOn(d) == slot[d].stored /\ (slot[d].drafts \/ slot[d].state # "pending")

\* schedule: the planned days, and those somebody worked on, as optional ones.
Scheduled == planned \union {d \in Day : WorkedOn(d)}
Shown(d) == [slot[d] EXCEPT !.stored = TRUE, !.optional = d \notin planned]

\* mark_published refuses what is settled; skip only what is published, and a
\* committed slot needs a reason.
MarkPublished(s) == [s EXCEPT !.state = "published"]
CanPublish(s) == s.state \notin {"published", "skipped"}
Skip(s, reason) == [s EXCEPT !.state = "skipped", !.reason = reason]
CanSkip(s, reason) == s.state # "published" /\ (s.optional \/ reason)
Drafted(s) == [s EXCEPT !.drafts = TRUE, !.state = "draft_ready"]

Idle == [does |-> "nothing", day |-> CHOOSE d \in Day : TRUE, read |-> NoSlot, reason |-> FALSE]

TypeOK ==
    /\ planned \subseteq Day
    /\ slot \in [Day -> Slot]
    /\ request \in [Req -> [does : {"nothing", "publish", "skip", "draft"}, day : Day,
                            read : Slot, reason : BOOLEAN]]

Init ==
    /\ planned \in SUBSET Day
    /\ slot = [d \in Day |-> NoSlot]
    /\ request = [r \in Req |-> Idle]

-----------------------------------------------------------------------------
\* post_mark_published: the week is loaded and the slot may be marked.
ReadToPublish(r, d) ==
    /\ request[r] = Idle /\ d \in Scheduled
    /\ CanPublish(Shown(d))
    /\ request' = [request EXCEPT ![r] =
                     [does |-> "publish", day |-> d, read |-> Shown(d), reason |-> FALSE]]
    /\ UNCHANGED <<planned, slot>>

\* (A plausible bug in ReadToSkip: what was published may be skipped after all.)
ReadToSkipAny(r, d, reason) ==
    /\ request[r] = Idle /\ d \in Scheduled
    /\ Shown(d).optional \/ reason
    /\ request' = [request EXCEPT ![r] =
                     [does |-> "skip", day |-> d, read |-> Shown(d), reason |-> reason]]
    /\ UNCHANGED <<planned, slot>>

\* post_skip.
ReadToSkip(r, d, reason) ==
    /\ request[r] = Idle /\ d \in Scheduled
    /\ CanSkip(Shown(d), reason)
    /\ request' = [request EXCEPT ![r] =
                     [does |-> "skip", day |-> d, read |-> Shown(d), reason |-> reason]]
    /\ UNCHANGED <<planned, slot>>

\* post_regenerate: what is published is not drafted again.  The run works on
\* the slot as it is now.
ReadToDraft(r, d) ==
    /\ request[r] = Idle /\ d \in Scheduled
    /\ Shown(d).state # "published"
    /\ request' = [request EXCEPT ![r] =
                     [does |-> "draft", day |-> d, read |-> Shown(d), reason |-> FALSE]]
    /\ UNCHANGED <<planned, slot>>

\* The row each request writes, whole.
Written(q) ==
    CASE q.does = "publish" -> MarkPublished(q.read)
      [] q.does = "skip" -> Skip(q.read, q.reason)
      [] q.does = "draft" -> Drafted(q.read)

\* save_slot: the row is upserted, whatever is there; the answer may be lost.
Save(r) ==
    /\ request[r] # Idle
    /\ slot' = [slot EXCEPT ![request[r].day] = Written(request[r])]
    /\ request' = [request EXCEPT ![r] = Idle]
    /\ UNCHANGED planned

\* The upsert fails, or there are no drafts to keep: the request ends without.
SaveFails(r) ==
    /\ request[r] # Idle
    /\ request' = [request EXCEPT ![r] = Idle]
    /\ UNCHANGED <<planned, slot>>

\* The user signs, releases or declines the week, or the sweep adopts it.
ContractChanges ==
    /\ planned' \in SUBSET Day
    /\ UNCHANGED <<slot, request>>

Next ==
    \/ \E r \in Req :
        \/ \E d \in Day :
            \/ ReadToPublish(r, d) \/ ReadToDraft(r, d)
            \/ \E reason \in BOOLEAN : ReadToSkip(r, d, reason)
        \/ Save(r) \/ SaveFails(r)
    \/ ContractChanges

Spec == Init /\ [][Next]_vars

-----------------------------------------------------------------------------
\* What a user shipped stays shipped, and drafts that were kept stay, unless a
\* request that had read the slot before it was so writes it back: no request
\* that begins afterwards can undo them (mark_published, skip, post_regenerate,
\* save_slot).
WorkIsUndoneByStaleWritesOnly ==
    [][\A d \in Day :
        \/ slot[d].state = "published" /\ slot'[d].state # "published"
        \/ slot[d].drafts /\ ~slot'[d].drafts
        => \E r \in Req : /\ request[r].day = d /\ request[r] # Idle /\ request'[r] = Idle
                          /\ request[r].read.state # slot[d].state
                             \/ request[r].read.drafts # slot[d].drafts]_vars

-----------------------------------------------------------------------------
(* Why it holds.  No request is let through on a slot that was published.   *)

UnderWayReadUnpublished ==
    \A r \in Req : request[r] # Idle =>
        request[r].does # "nothing" /\ request[r].read.state # "published"

IndInv == TypeOK /\ UnderWayReadUnpublished
=============================================================================
