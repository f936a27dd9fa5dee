------------------------------- MODULE Outbox -------------------------------
(***************************************************************************)
(* The proactive mail of one user: the daily brief, the Sunday review and  *)
(* the digests of the re-engagement sequence, sent by cron runs that may   *)
(* be repeated, overlap or die (scripts/send_emails, services/emails,      *)
(* services/reengagement), while the user changes what they want           *)
(* (routes/unsubscribe, routes/settings).                                  *)
(*                                                                         *)
(* A run reads the user's preferences when it starts, claims the period in *)
(* digest_log, a unique row, and only then sends.  All kinds claim the     *)
(* same slot, under a key: the day for the brief, the week's Sunday for    *)
(* the review and the digest.                                              *)
(***************************************************************************)
EXTENDS Integers, Sequences, FiniteSetsExt

CONSTANTS
    CronRun,            \* runs under way at the same time
    DaysPerWeek,    \* days of a week; day 0 is a Sunday
    DigestDay,      \* the weekday of the re-engagement cron
    Retry,          \* the review is run again on Monday
    LapseAfter,     \* LAPSE_AFTER, in days
    Cadence,        \* CADENCE: a sequence of [interval, sends]
    Wishes,         \* bound: the preferences the settings form sends
    LastDay         \* bound: days

VARIABLES
    day,            \* today
    prefs,          \* the stored preferences
    away,           \* days since the last sign-in, LapseAfter at most
    sequence,       \* the row of reengagement_sequences
    claims,         \* the keys of this week claimed in digest_log
    run,            \* run[r]: its step and what it read
    delivered,      \* delivered[k]: mails delivered under key k of this week
    today,          \* mails delivered today
    digests,        \* digests delivered
    late            \* mails delivered by runs that began under a stored stop

vars == <<day, prefs, away, sequence, claims, run, delivered, today, digests, late>>

Kind == {"daily", "weekly", "reengagement"}
Preferences == [daily_brief : BOOLEAN, weekly_review : BOOLEAN, unsubscribed_all : BOOLEAN]
Everything == [daily_brief |-> TRUE, weekly_review |-> TRUE, unsubscribed_all |-> FALSE]
Nothing == [Everything EXCEPT !.unsubscribed_all = TRUE]

\* Preferences.allows: all three kinds are marketing; the digest counts as weekly.
Allows(p, kind) ==
    /\ ~p.unsubscribed_all
    /\ IF kind = "daily" THEN p.daily_brief ELSE p.weekly_review

Weekday == day % DaysPerWeek
Sunday == 0

\* daily_key and weekly_key, as weekdays of this week (no run asks for a key of
\* an earlier one): a review repeated on Monday is still Sunday's.
KeyOf(kind) == IF kind = "daily" THEN Weekday ELSE Sunday

\* The cron table at the head of the script, with the retry of a failed review
\* weekly_key is written for; a daily run on a Sunday returns at once.
Scheduled(kind) ==
    CASE kind = "daily" -> Weekday # Sunday
      [] kind = "weekly" -> Weekday = Sunday \/ (Retry /\ Weekday = Sunday + 1)
      [] kind = "reengagement" -> Weekday = DigestDay

-----------------------------------------------------------------------------
(* The sequence of digests                                                 *)

SendsUpTo(i) == MapThenSumSet(LAMBDA k : Cadence[k].sends, 1 .. i)
TotalSends == SendsUpTo(Len(Cadence))

\* phase_for: the phase the next send belongs to.
PhaseFor(sends) == Min({i \in 1 .. Len(Cadence) : sends < SendsUpTo(i)})

HasLapsed == away = LapseAfter
IsDue == sequence.state = "active" /\ day >= sequence.due

\* record_send: absolute values, computed on the row the run read.
RecordSend(read) ==
    LET sends == read + 1
    IN  IF sends >= TotalSends
        THEN [sends |-> sends, state |-> "finished", due |-> day]
        ELSE [sends |-> sends, state |-> "active", due |-> day + Cadence[PhaseFor(sends)].interval]

CloseOnReturn == [sequence EXCEPT !.state = "returned"]

-----------------------------------------------------------------------------
Idle == [step |-> "idle", kind |-> "daily", allowed |-> FALSE, sends |-> 0, stopped |-> FALSE]

TypeOK ==
    /\ day \in 0 .. LastDay
    /\ prefs \in Preferences
    /\ away \in 0 .. LapseAfter
    /\ sequence \in [sends : Nat, state : {"active", "returned", "finished"}, due : Nat]
    /\ claims \subseteq 0 .. DaysPerWeek - 1
    /\ run \in [CronRun -> [step : {"idle", "gather", "ready", "claimed", "advance"}, kind : Kind,
                        allowed : BOOLEAN, sends : Nat, stopped : BOOLEAN]]
    /\ delivered \in [0 .. DaysPerWeek - 1 -> Nat]
    /\ today \in Nat /\ digests \in Nat /\ late \in Nat

\* The sequence is V1's: a row with no sends yet, of a user who had lapsed.
Init ==
    /\ day = 0
    /\ prefs \in {Everything, Nothing}
    /\ away = LapseAfter
    /\ sequence = [sends |-> 0, state |-> "active", due |-> 0]
    /\ claims = {}
    /\ run = [r \in CronRun |-> Idle]
    /\ delivered = [k \in 0 .. DaysPerWeek - 1 |-> 0]
    /\ today = 0 /\ digests = 0 /\ late = 0

Ends(r) == run' = [run EXCEPT ![r] = Idle]
Reads(r, step, kind, read) ==
    run' = [run EXCEPT ![r] =
              [step |-> step, kind |-> kind, allowed |-> Allows(read, kind),
               sends |-> IF kind = "reengagement" THEN sequence.sends ELSE 0,
               stopped |-> prefs.unsubscribed_all]]

-----------------------------------------------------------------------------
(* A run, for this user                                                    *)

\* run: the brief or the review.  The profiles are read once, preferences
\* included; when they cannot be read there are no recipients.
StartMail(r, kind) ==
    /\ run[r].step = "idle" /\ kind # "reengagement" /\ Scheduled(kind)
    /\ Reads(r, "gather", kind, prefs)
    /\ UNCHANGED <<day, prefs, away, sequence, claims, delivered, today, digests, late>>

\* (A plausible bug in DigestPrefs: what cannot be read is what everyone has.)
DigestPrefsOptIn == {prefs, Everything}

\* _prefs_for_user: a failed read, or no row, reads as unsubscribed.
DigestPrefs == {prefs, Nothing}

\* run_reengagement: a live batch to tell of, a user who is still away, a send
\* that is due.
StartDigest(r) ==
    /\ run[r].step = "idle" /\ Scheduled("reengagement")
    /\ HasLapsed /\ IsDue
    /\ \E read \in DigestPrefs : Reads(r, "ready", "reengagement", read)
    /\ UNCHANGED <<day, prefs, away, sequence, claims, delivered, today, digests, late>>

\* A user who is back, or whose last sign-in could not be read, is not written
\* to again: the sequence is closed, if the update does not fail.
CloseSequence(r) ==
    /\ run[r].step = "idle" /\ Scheduled("reengagement")
    /\ sequence.state = "active"
    /\ sequence' = CloseOnReturn
    /\ UNCHANGED <<day, prefs, away, claims, run, delivered, today, digests, late>>

\* _facts_for: what happened since the last mail of the kind, read once more.
Gather(r) ==
    /\ run[r].step = "gather"
    /\ run' = [run EXCEPT ![r].step = "ready"]
    /\ UNCHANGED <<day, prefs, away, sequence, claims, delivered, today, digests, late>>

\* A source that cannot be read adds nothing; without a fact there is no mail.
NothingToReport(r) ==
    /\ run[r].step = "gather"
    /\ Ends(r)
    /\ UNCHANGED <<day, prefs, away, sequence, claims, delivered, today, digests, late>>

\* No unsubscribe link, a preference against it, an address
\* the deploy may not write to, a dry run: the run is over, nothing is claimed.
Passes(r) ==
    /\ run[r].step = "ready"
    /\ Ends(r)
    /\ UNCHANGED <<day, prefs, away, sequence, claims, delivered, today, digests, late>>

\* (A plausible bug in Claim: a period that was claimed already is no obstacle.)
ClaimUnheeded(r) ==
    /\ run[r].step = "ready" /\ run[r].allowed
    /\ claims' = claims \union {KeyOf(run[r].kind)}
    /\ run' = [run EXCEPT ![r].step = "claimed"]
    /\ UNCHANGED <<day, prefs, away, sequence, delivered, today, digests, late>>

\* claim_period: the row is inserted, unless it is there.
Claim(r) ==
    /\ run[r].step = "ready" /\ run[r].allowed
    /\ KeyOf(run[r].kind) \notin claims
    /\ claims' = claims \union {KeyOf(run[r].kind)}
    /\ run' = [run EXCEPT ![r].step = "claimed"]
    /\ UNCHANGED <<day, prefs, away, sequence, delivered, today, digests, late>>

\* (A plausible bug in ClaimRefused: a period that is used up counts as sent.)
ClaimRefusedAdvances(r) ==
    /\ run[r].step = "ready" /\ run[r].allowed
    /\ claims' \in {claims, claims \union {KeyOf(run[r].kind)}}
    /\ run' = [run EXCEPT ![r].step = IF run[r].kind = "reengagement" THEN "advance" ELSE "idle"]
    /\ UNCHANGED <<day, prefs, away, sequence, delivered, today, digests, late>>

\* The insert was refused, or failed and may have landed: either way the period
\* counts as used and nothing is sent.
ClaimRefused(r) ==
    /\ run[r].step = "ready" /\ run[r].allowed
    /\ claims' \in {claims, claims \union {KeyOf(run[r].kind)}}
    /\ Ends(r)
    /\ UNCHANGED <<day, prefs, away, sequence, delivered, today, digests, late>>

Delivers(r) ==
    /\ delivered' = [delivered EXCEPT ![KeyOf(run[r].kind)] = @ + 1]
    /\ today' = today + 1
    /\ digests' = digests + IF run[r].kind = "reengagement" THEN 1 ELSE 0
    /\ late' = late + IF run[r].stopped THEN 1 ELSE 0

\* mailer.send succeeds.  A digest goes on to advance its sequence.
Sent(r) ==
    /\ run[r].step = "claimed"
    /\ Delivers(r)
    /\ IF run[r].kind = "reengagement" THEN run' = [run EXCEPT ![r].step = "advance"] ELSE Ends(r)
    /\ UNCHANGED <<day, prefs, away, sequence, claims>>

\* mailer.send raises, though the mail may have been taken; or the run dies.
\* The period stays claimed.
SendFails(r) ==
    /\ run[r].step = "claimed"
    /\ Delivers(r) \/ UNCHANGED <<delivered, today, digests, late>>
    /\ Ends(r)
    /\ UNCHANGED <<day, prefs, away, sequence, claims>>

\* The sequence moves on, by its id, whatever became of the row; an update that
\* fails is logged, and a run that dies here has not moved it.
Advance(r) ==
    /\ run[r].step = "advance"
    /\ sequence' \in {sequence, RecordSend(run[r].sends)}
    /\ Ends(r)
    /\ UNCHANGED <<day, prefs, away, claims, delivered, today, digests, late>>

-----------------------------------------------------------------------------
(* The user, and time                                                      *)

\* unsubscribe.apply: the master switch, over the flags that are stored.  A
\* failed write is answered like a good one, and may have landed.
Unsubscribe ==
    /\ prefs' = [prefs EXCEPT !.unsubscribed_all = TRUE]
    /\ UNCHANGED <<day, away, sequence, claims, run, delivered, today, digests, late>>

\* put_email_preferences: the form carries all three flags.
PutPreferences ==
    /\ prefs' \in Wishes
    /\ UNCHANGED <<day, away, sequence, claims, run, delivered, today, digests, late>>

SignIn ==
    /\ away' = 0
    /\ UNCHANGED <<day, prefs, sequence, claims, run, delivered, today, digests, late>>

\* Bound: a run ends on the day it started.
NextDay ==
    /\ day < LastDay
    /\ \A r \in CronRun : run[r].step = "idle"
    /\ day' = day + 1
    /\ today' = 0
    /\ away' = Min({away + 1, LapseAfter})
    /\ IF Weekday = DaysPerWeek - 1
       THEN claims' = {} /\ delivered' = [k \in 0 .. DaysPerWeek - 1 |-> 0]
       ELSE UNCHANGED <<claims, delivered>>
    /\ UNCHANGED <<prefs, sequence, run, digests, late>>

Next ==
    \/ \E r \in CronRun :
        \/ \E kind \in Kind : StartMail(r, kind)
        \/ StartDigest(r) \/ CloseSequence(r)
        \/ Gather(r) \/ NothingToReport(r) \/ Passes(r) \/ Claim(r) \/ ClaimRefused(r)
        \/ Sent(r) \/ SendFails(r) \/ Advance(r)
    \/ Unsubscribe \/ PutPreferences \/ SignIn \/ NextDay

Spec == Init /\ [][Next]_vars

-----------------------------------------------------------------------------
(* Properties                                                              *)

\* However runs are repeated, overlap, fail or die, a key delivers one mail at
\* most: the claim comes before the send (emails.send, claim_period).
OneMailPerKey == \A k \in 0 .. DaysPerWeek - 1 : delivered[k] <= 1

\* A run that began while the stop was stored sends nothing, even if it could
\* not read it (Preferences.allows, _recipients, _prefs_for_user).
StopIsHonoured == late = 0

\* A sequence counts only digests that were delivered, so nobody is finished
\* who did not get all of them (run_reengagement, record_send).
FinishedGotAll ==
    /\ sequence.sends <= digests
    /\ sequence.state = "finished" => digests >= TotalSends

\* "A lapsed digest and a daily brief landing together is two emails": one
\* proactive mail a day.
OneADay == today <= 1

-----------------------------------------------------------------------------
(* Why it holds.  The inductive invariant behind OneMailPerKey,             *)
(* StopIsHonoured and FinishedGotAll.                                       *)

Keys == 0 .. DaysPerWeek - 1

Holds(r, k) == run[r].step = "claimed" /\ KeyOf(run[r].kind) = k

\* A key under which a run is about to send is claimed and unused, and no other
\* run is about to send under it.
HolderIsAlone ==
    \A r \in CronRun, k \in Keys :
        Holds(r, k) =>
            /\ k \in claims /\ delivered[k] = 0
            /\ \A q \in CronRun \ {r} : ~Holds(q, k)

DeliveredIsClaimed == \A k \in Keys : delivered[k] > 0 => k \in claims

\* What a run may send was decided on the preferences it began under.
StoppedMayNot == \A r \in CronRun : run[r].stopped => ~run[r].allowed
ClaimedMay == \A r \in CronRun : run[r].step = "claimed" => run[r].allowed

\* A run counts on no digest that was not delivered, and none is counted before
\* it is.
DigestsAreCounted ==
    \A r \in CronRun :
        /\ run[r].sends <= digests
        /\ run[r].step = "advance" => run[r].sends < digests

IndInv ==
    /\ TypeOK
    /\ HolderIsAlone
    /\ DeliveredIsClaimed
    /\ StoppedMayNot
    /\ ClaimedMay
    /\ OneMailPerKey
    /\ StopIsHonoured
    /\ DigestsAreCounted
    /\ FinishedGotAll
=============================================================================
