------------------------------- MODULE Today -------------------------------
(***************************************************************************)
(* Today and the thread of one user (routes/today, services/today,         *)
(* services/ladder, services/thread_store).                                *)
(*                                                                         *)
(* Both pages derive a ladder of rungs from five tables, each of which may *)
(* fail to be read, and take off it what the user dismissed or snoozed.    *)
(* Only those decisions are stored: one row per rung, upserted and read    *)
(* back.  A page reads the facts first and the decisions after.            *)
(***************************************************************************)
EXTENDS Integers

CONSTANTS
    Req,            \* requests in flight at the same time
    SnoozeFor,      \* SNOOZE_FOR, in days
    Situations,     \* bound: the sets of facts that come true together
    Answerable,     \* bound: the rungs the user answers
    LastDay         \* bound: days

VARIABLES
    day,            \* today
    facts,          \* what is true of the user
    decided,        \* decided[k]: the row of thread_decisions for rung k
    told,           \* told[k]: the row a client was shown as stored, while it stands
    request,        \* request[r]: its step and what it holds
    shown           \* the page just answered, if one was

vars == <<day, facts, decided, told, request, shown>>

Fact == {"interview", "unsigned", "post", "review", "matches"}

\* CONDITIONAL and FALLBACK, with their ranks.  (score_fix is left out: no caller of
\* load_signals gives it a pending fix.)
Rank == [interview_soon |-> 1, sign_week |-> 2, post_day |-> 3, week_review |-> 5,
         new_matches |-> 6, standing |-> 7]
Fallback == "standing"
Rung == DOMAIN Rank

NoRow == [decision |-> "none", until |-> 0]
Row == [decision : {"none", "dismissed", "snoozed"}, until : 0..LastDay + SnoozeFor]
Idle == [step |-> "idle", key |-> Fallback, now |-> 0, seen |-> {}]
Nothing == [page |-> "none", primary |-> Fallback, items |-> {}, readable |-> FALSE,
            now |-> 0, seen |-> {}]

TypeOK ==
    /\ day \in 0..LastDay
    /\ facts \in SUBSET Fact
    /\ decided \in [Rung -> Row] /\ told \in [Rung -> Row]
    /\ request \in [Req -> [step : {"idle", "today", "thread", "read_back"}, key : Rung,
                            now : 0..LastDay, seen : SUBSET Fact]]
    /\ shown \in [page : {"none", "today", "thread"}, primary : Rung, items : SUBSET Rung,
                  readable : BOOLEAN, now : 0..LastDay, seen : SUBSET Fact]

Init ==
    /\ day = 0 /\ facts \in Situations
    /\ decided = [k \in Rung |-> NoRow] /\ told = [k \in Rung |-> NoRow]
    /\ request = [r \in Req |-> Idle]
    /\ shown = Nothing

At(r, step) == request[r].step = step
Ends(r) == request' = [request EXCEPT ![r] = Idle]

-----------------------------------------------------------------------------
(* What the pages are derived from                                         *)

\* week_signals: the signature of the week and its review are read together.
Weeks == {"unsigned", "review"}

\* read_sources: each read that fails tells nothing.
Readings == {((facts \ Weeks) \intersect ok) \union w : ok \in SUBSET (Fact \ Weeks),
                                                      w \in {{}, facts \intersect Weeks}}

\* Rung.applies.  The review travels inside the signing card while a week is
\* unsigned.
Applies(rung, seen) ==
    CASE rung = "interview_soon" -> "interview" \in seen
      [] rung = "sign_week" -> "unsigned" \in seen
      [] rung = "post_day" -> "post" \in seen
      [] rung = "week_review" -> "review" \in seen /\ "unsigned" \notin seen
      [] rung = "new_matches" -> "matches" \in seen

\* choose: those that apply, by rank, or the fallback.
Ladder(seen) ==
    LET applicable == {k \in Rung \ {Fallback} : Applies(k, seen)}
    IN  IF applicable = {} THEN {Fallback} ELSE applicable

\* The rung of the lowest rank comes first.
First(rungs) == CHOOSE k \in rungs : \A l \in rungs : Rank[k] <= Rank[l]

\* (A plausible bug in IsSuppressed: a snooze never ends.)
IsSuppressedForever(row, now) == row.decision \in {"dismissed", "snoozed"}

\* is_suppressed: a dismissal is permanent, a snooze ends by itself.
IsSuppressed(row, now) ==
    \/ row.decision = "dismissed"
    \/ row.decision = "snoozed" /\ row.until > now

\* surviving.
Surviving(items, rows, now) == {k \in items : ~IsSuppressed(rows[k], now)}

-----------------------------------------------------------------------------
(* get_today and get_thread                                                *)

\* The profile is read (or the answer is 503, and nothing happened), then the
\* sources.
View(r, page) ==
    /\ At(r, "idle")
    /\ \E seen \in Readings :
        request' = [request EXCEPT ![r] = [Idle EXCEPT !.step = page, !.now = day, !.seen = seen]]
    /\ shown' = Nothing
    /\ UNCHANGED <<day, facts, decided, told>>

\* Today's action is the head of the ladder whatever was decided; the rest and
\* the whole thread lose what was.  A failed read of the decisions hides nothing.
Answer(r) ==
    /\ At(r, "today") \/ At(r, "thread")
    /\ LET req == request[r]
           ladder == Ladder(req.seen)
           first == First(ladder)
           listed == IF req.step = "today" THEN ladder \ {first} ELSE ladder
       IN  \E readable \in BOOLEAN :
            shown' = [page |-> req.step, primary |-> first, readable |-> readable,
                      items |-> IF readable THEN Surviving(listed, decided, req.now) ELSE listed,
                      now |-> req.now, seen |-> req.seen]
    /\ Ends(r)
    /\ UNCHANGED <<day, facts, decided, told>>

-----------------------------------------------------------------------------
(* decide_thread_item                                                      *)

\* SupabaseThreadStore.record: an upsert, that may not stick, and may have
\* landed when it fails.
Record(r, k, choice) ==
    /\ At(r, "idle")
    /\ \/ /\ decided' = [decided EXCEPT ![k] =
                [decision |-> choice, until |-> IF choice = "snoozed" THEN day + SnoozeFor ELSE 0]]
          /\ told' = [told EXCEPT ![k] = NoRow]
       \/ UNCHANGED <<decided, told>>
    /\ \/ request' = [request EXCEPT ![r] = [Idle EXCEPT !.step = "read_back", !.key = k]]
       \/ UNCHANGED request
    /\ shown' = Nothing
    /\ UNCHANGED <<day, facts>>

\* The answer is the row; none, or a read that fails, is 503.
ReadBack(r) ==
    /\ At(r, "read_back")
    /\ LET k == request[r].key IN
       told' \in {told, [told EXCEPT ![k] = decided[k]]}
    /\ Ends(r)
    /\ shown' = Nothing
    /\ UNCHANGED <<day, facts, decided>>

-----------------------------------------------------------------------------

\* A day passes, or the other pages and jobs change what is true.
Meanwhile ==
    /\ \/ day < LastDay /\ day' = day + 1 /\ UNCHANGED facts
       \/ facts' \in Situations \ {facts} /\ UNCHANGED day
    /\ shown' = Nothing
    /\ UNCHANGED <<decided, told, request>>

Next ==
    \/ \E r \in Req :
        \/ \E page \in {"today", "thread"} : View(r, page)
        \/ Answer(r) \/ ReadBack(r)
        \/ \E k \in Answerable, choice \in {"dismissed", "snoozed"} : Record(r, k, choice)
    \/ Meanwhile

Spec == Init /\ [][Next]_vars

-----------------------------------------------------------------------------
\* Of what is listed, Today's first action apart, which decisions do not filter
\* (get_today): what the user was told is put away is not listed again until its
\* snooze is over, a rung is left out only because it was put away, and a page that
\* could not read the decisions leaves none out (decide_thread_item, surviving,
\* get_thread; thread_store: "an item that comes back after being dismissed is
\* worse than one that was never dismissible").
PutAwayStaysAway ==
    LET hidden(row) == \/ row.decision = "dismissed"
                       \/ row.decision = "snoozed" /\ ~(row.until <= shown.now)
        possible == Ladder(shown.seen) \ {k \in {shown.primary} : shown.page = "today"}
    IN  shown.page # "none" =>
            /\ shown.items \subseteq possible
            /\ \A k \in possible \ shown.items : shown.readable /\ hidden(decided[k])
            /\ \A k \in shown.items : ~(shown.readable /\ hidden(told[k]))

-----------------------------------------------------------------------------
(* Why it holds.  What a client was told stands until the rung is decided   *)
(* again.                                                                   *)

ToldIsDecided == \A k \in Rung : told[k] # NoRow => told[k] = decided[k]

IndInv ==
    /\ TypeOK
    /\ ToldIsDecided
    /\ PutAwayStaysAway
=============================================================================
