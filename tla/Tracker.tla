------------------------------ MODULE Tracker ------------------------------
(***************************************************************************)
(* The application tracker of one user (routes/tracker,                    *)
(* services/applications): a card per application, and the history of what *)
(* happened to it.                                                         *)
(*                                                                         *)
(* The card and its history are two tables written one after the other.    *)
(* The card's write must succeed; an event is logged if it can be.  A move *)
(* is one when the stage read before the write differs from the new one.   *)
(***************************************************************************)
EXTENDS Integers

CONSTANTS
    Card,           \* the cards there are
    Req,            \* requests in flight at the same time
    Targets,        \* bound: the stages cards are added in and moved to
    FollowUpDays    \* days a card stays in applied before it wants a nudge

VARIABLES
    card,           \* card[c]: the row of job_applications
    last,           \* last[c]: the stage the latest stage event names
    request,        \* request[r]: its step and what it holds
    missed          \* missed[c]: an event was lost, or a write overlapped another

vars == <<card, last, request, missed>>

Stage == {"saved", "applied", "interview", "offer", "closed"}
None == "none"

\* A row: its stage, the days since updated_at, whether it has a reason or an
\* interview date.
Gone == [stage |-> None, days |-> 0, reason |-> FALSE, interview |-> FALSE]
Exists(c) == card[c].stage # None

\* normalise_stage: V1's "rejected" is closed, what is unknown is saved.
NormaliseStage(status) ==
    CASE status = "rejected" -> "closed"
      [] status \in Stage -> status
      [] OTHER -> "saved"

Idle == [step |-> "idle", card |-> CHOOSE c \in Card : TRUE, to |-> None, read |-> None]

TypeOK ==
    /\ card \in [Card -> [stage : Stage \union {None}, days : 0 .. FollowUpDays,
                          reason : BOOLEAN, interview : BOOLEAN]]
    /\ last \in [Card -> Stage \union {None}]
    /\ request \in [Req -> [step : {"idle", "move", "log", "log_add", "delete"}, card : Card,
                            to : Stage \union {None}, read : Stage \union {None}]]
    /\ missed \in [Card -> BOOLEAN]

Init ==
    /\ card = [c \in Card |-> Gone]
    /\ last = [c \in Card |-> None]
    /\ request = [r \in Req |-> Idle]
    /\ missed = [c \in Card |-> FALSE]

\* Another request is at work on the same card.
Overlapped(r) ==
    \E q \in Req \ {r} : request[q].step # "idle" /\ request[q].card = request[r].card
Misses(r, lost) ==
    missed' = [missed EXCEPT ![request[r].card] = @ \/ lost \/ Overlapped(r)]
Ends(r) == request' = [request EXCEPT ![r] = Idle]

-----------------------------------------------------------------------------
\* add_application: the row, in a stage of the board.
Add(r, c, status) ==
    /\ request[r].step = "idle" /\ ~Exists(c) /\ last[c] = None
    /\ \A q \in Req : request[q].step = "idle" \/ request[q].card # c
    /\ card' = [card EXCEPT ![c] = [Gone EXCEPT !.stage = NormaliseStage(status)]]
    /\ request' = [request EXCEPT ![r] = [step |-> "log_add", card |-> c,
                                          to |-> NormaliseStage(status), read |-> None]]
    /\ UNCHANGED <<last, missed>>

\* move_application loads the card.
ReadToMove(r, c, to) ==
    /\ request[r].step = "idle" /\ Exists(c)
    /\ request' = [request EXCEPT ![r] = [step |-> "move", card |-> c, to |-> to,
                                          read |-> card[c].stage]]
    /\ UNCHANGED <<card, last, missed>>

\* The patch: stage, reason and interview date, and updated_at with them.
Patched(c, to, reason, interview) ==
    [card EXCEPT ![c] = [stage |-> to, days |-> 0, reason |-> @.reason \/ reason,
                         interview |-> @.interview \/ interview]]

\* (A plausible bug in Move: what moved is looked for after the update.)
MoveComparesLate(r) ==
    /\ request[r].step = "move" /\ Exists(request[r].card)
    /\ \E reason, interview \in BOOLEAN :
        card' = Patched(request[r].card, request[r].to, reason, interview)
    /\ IF card'[request[r].card].stage # request[r].to
       THEN request' = [request EXCEPT ![r].step = "log"] ELSE Ends(r)
    /\ Misses(r, FALSE)
    /\ UNCHANGED last

\* The update, by the card's id; it is a move if the stage read differs.
Move(r) ==
    /\ request[r].step = "move" /\ Exists(request[r].card)
    /\ \E reason, interview \in BOOLEAN :
        card' = Patched(request[r].card, request[r].to, reason, interview)
    /\ IF request[r].read # request[r].to
       THEN request' = [request EXCEPT ![r].step = "log"] ELSE Ends(r)
    /\ Misses(r, FALSE)
    /\ UNCHANGED last

\* The update fails, landed or not, or matches no row any more.
MoveFails(r) ==
    /\ request[r].step = "move"
    /\ \/ UNCHANGED card
       \/ Exists(request[r].card) /\ card' = Patched(request[r].card, request[r].to, FALSE, FALSE)
    /\ Misses(r, card' # card)
    /\ Ends(r)
    /\ UNCHANGED last

\* _log: the event, or none if the insert fails, which it does for a card that
\* is gone (the foreign key).
Log(r) ==
    /\ request[r].step \in {"log", "log_add"}
    /\ LET logged == [last EXCEPT ![request[r].card] = request[r].to]
       IN  /\ last' \in {last} \union {l \in {logged} : Exists(request[r].card)}
           /\ Misses(r, last' # logged)
    /\ Ends(r)
    /\ UNCHANGED card

\* mark_followed_up starts the clock again; a note or a date edited through the
\* patch does too.  The event it logs names no stage.
FollowUp(c) ==
    /\ Exists(c) /\ card[c].days > 0
    /\ card' = [card EXCEPT ![c].days = 0]
    /\ UNCHANGED <<last, request, missed>>

\* remove_application: the history first, then the card; the second may fail.
DeleteEvents(r, c) ==
    /\ request[r].step = "idle" /\ Exists(c)
    /\ last' = [last EXCEPT ![c] = None]
    /\ request' = [request EXCEPT ![r] = [step |-> "delete", card |-> c, to |-> None,
                                          read |-> card[c].stage]]
    /\ UNCHANGED <<card, missed>>

\* With the card go the events it has by now (on delete cascade).
DeleteCard(r) ==
    /\ request[r].step = "delete"
    /\ \/ card' = [card EXCEPT ![request[r].card] = Gone]
          /\ last' = [last EXCEPT ![request[r].card] = None]
          /\ Misses(r, FALSE)
       \/ UNCHANGED <<card, last>> /\ Misses(r, TRUE)
    /\ Ends(r)

DayPasses ==
    /\ \E c \in Card : card[c].days < FollowUpDays /\ Exists(c)
    /\ card' = [c \in Card |-> IF Exists(c) /\ card[c].days < FollowUpDays
                               THEN [card[c] EXCEPT !.days = @ + 1] ELSE card[c]]
    /\ UNCHANGED <<last, request, missed>>

Next ==
    \/ \E r \in Req :
        \/ \E c \in Card :
            \/ \E to \in Targets : Add(r, c, to) \/ ReadToMove(r, c, to)
            \/ DeleteEvents(r, c)
        \/ Move(r) \/ MoveFails(r) \/ Log(r) \/ DeleteCard(r)
    \/ \E c \in Card : FollowUp(c)
    \/ DayPasses

Spec == Init /\ [][Next]_vars

-----------------------------------------------------------------------------
\* The history names the stage the card is in, whenever no request is at work
\* on it, unless an event was lost, a failed write had landed, or two requests
\* overlapped on the card (move_application, _log, remove_application).
HistoryTellsTheStage ==
    \A c \in Card :
        \/ \E r \in Req : request[r].step # "idle" /\ request[r].card = c
        \/ missed[c]
        \/ last[c] = card[c].stage

-----------------------------------------------------------------------------
(* Why it holds.  Nothing is known of a card two requests are at work on,   *)
(* for the first of them to write makes it a missed one; of the others:     *)

BusyOn(c) == {r \in Req : request[r].step # "idle" /\ request[r].card = c}

\* What the only request at work on a card may rely on.
Agrees(r, c) ==
    CASE request[r].step = "move" -> request[r].read = card[c].stage /\ last[c] = card[c].stage
      [] request[r].step \in {"log", "log_add"} -> request[r].to = card[c].stage
      [] OTHER -> TRUE

AloneAgrees == \A c \in Card, r \in Req : BusyOn(c) = {r} /\ ~missed[c] => Agrees(r, c)

IndInv ==
    /\ TypeOK
    /\ AloneAgrees
    /\ HistoryTellsTheStage
=============================================================================
