------------------------------ MODULE WeekRules ------------------------------
(***************************************************************************)
(* The rules of a week, as pure operators: what may happen to a contract   *)
(* (services/weekly), when an unanswered one is adopted (services/sweep),  *)
(* what Sunday may propose (services/sunday), what a proposal and a        *)
(* re-entry contain (services/schedule, services/review), and what a       *)
(* contract schedules on the Posts page (services/schedule).               *)
(*                                                                         *)
(* Weeks are numbered; week w begins on day w * DaysPerWeek and its last   *)
(* day is its Sunday.  An item of a contract is a posting day, whose kind  *)
(* is "content", or the one item of another kind; summaries, minutes and   *)
(* credits are wording to these rules and are left out.                    *)
(***************************************************************************)
EXTENDS Integers, FiniteSets

CONSTANTS
    Day,            \* the posting days of the user's cadence
    OtherKind,      \* the kinds of item beside "content", "review" among them
    DaysPerWeek

Item == Day \union OtherKind
Kind == {"content"} \union OtherKind

KindOf(i) == IF i \in Day THEN "content" ELSE i

-----------------------------------------------------------------------------
(* Contracts.  A week without a row is a contract in state "none".          *)

Cadence == {"weekly", "fortnightly"}

Contract == [state    : {"none", "proposed", "approved", "auto_adopted", "declined"},
             items    : SUBSET Item,
             accepted : SUBSET Kind,
             cadence  : Cadence]

NoContract == [state |-> "none", items |-> {}, accepted |-> {}, cadence |-> "weekly"]

Proposal(items, cadence) ==
    [state |-> "proposed", items |-> items, accepted |-> {}, cadence |-> cadence]

Exists(c) == c.state # "none"
Open(c) == c.state = "proposed"
Decided(c) == Exists(c) /\ ~Open(c)

\* in_force_items: nothing before a decision, and after a partial approval only
\* what was accepted.
InForce(c) ==
    CASE c.state = "approved"     -> {i \in c.items : KindOf(i) \in c.accepted}
      [] c.state = "auto_adopted" -> c.items
      [] OTHER                    -> {}

\* A signature, of everything or of some kinds.  Accepting nothing declines.
Signed(c, accept) ==
    IF \E i \in c.items : KindOf(i) \in accept
    THEN [c EXCEPT !.state = "approved",
                   !.accepted = {KindOf(i) : i \in c.items} \intersect accept]
    ELSE [c EXCEPT !.state = "declined", !.accepted = {}]

Declined(c) == [c EXCEPT !.state = "declined", !.accepted = {}]

\* A withdrawn signature: the same items, open again.
CanRelease(c) == c.state \in {"approved", "auto_adopted"}
Released(c) == [c EXCEPT !.state = "proposed", !.accepted = {}]

\* (A plausible bug in Conservative: nothing pauses.)
ConservativeKeepsAll(items) == items

\* What continues unattended: everything but new posts.
Conservative(items) == {i \in items : KindOf(i) # "content"}

Adopted(c) ==
    [c EXCEPT !.state = "auto_adopted", !.items = Conservative(c.items), !.accepted = {}]

-----------------------------------------------------------------------------
(* Days and weeks *)

WeekOf(day) == day \div DaysPerWeek
IsSunday(day) == day % DaysPerWeek = DaysPerWeek - 1

\* The week the most recent Sunday closed: on a Sunday, its own.
ClosingWeek(day) == IF IsSunday(day) THEN WeekOf(day) ELSE WeekOf(day) - 1

\* Never answered, and its week is over.
Sweepable(c, w, day) == Open(c) /\ w + 1 <= WeekOf(day)

-----------------------------------------------------------------------------
(* Lapses *)

\* The weeks of a history (a function from weeks to contracts) that have a row.
Planned(history) == {w \in DOMAIN history : Exists(history[w])}

\* How many planned weeks in a row, ending with the latest one not after upto,
\* were adopted unanswered.
ConsecutiveLapses(history, upto) ==
    LET past == {w \in Planned(history) : w <= upto}
        answered == {w \in past : history[w].state # "auto_adopted"}
    IN  Cardinality({w \in past : \A a \in answered : a < w})

StandingByAt == 2

\* The latest planned week, by week_start.
Latest(history) ==
    CHOOSE w \in Planned(history) : \A v \in Planned(history) : v <= w

\* The cadence a Sunday proposal continues.
LatestCadence(history) ==
    IF Planned(history) = {} THEN "weekly" ELSE history[Latest(history)].cadence

\* The history as Monday's sweep will have left it.
AfterSweep(history, day) ==
    [w \in DOMAIN history |->
        IF Sweepable(history[w], w, day) THEN Adopted(history[w]) ELSE history[w]]

WhyNot == {"already planned", "standing by", "fortnightly off-week"}

\* (A plausible bug in WhyNotPropose: lapses are counted as they are stored now.)
WhyNotProposeUnswept(history, next) ==
    CASE Exists(history[next])                             -> "already planned"
      [] ConsecutiveLapses(history, next) >= StandingByAt  -> "standing by"
      [] OTHER                                             -> "propose"

\* _why_not_propose: "propose", or why Sunday leaves the next week alone.
WhyNotPropose(history, next) ==
    LET swept == AfterSweep(history, next * DaysPerWeek)
    IN  CASE Exists(history[next]) -> "already planned"
          [] ConsecutiveLapses(swept, next) >= StandingByAt -> "standing by"
          [] /\ LatestCadence(history) = "fortnightly"
             /\ Planned(history) # {} /\ next - Latest(history) < 2
             -> "fortnightly off-week"
          [] OTHER -> "propose"

-----------------------------------------------------------------------------
(* What is proposed.  Some posting days may be past, and "naukri" is offered *)
(* to those on Naukri only: the items are any subset with the review.       *)

FullWeek == {items \in SUBSET Item : Day \subseteq items /\ "review" \in items}
RestOfWeek == {items \in SUBSET Item : "review" \in items}

\* A re-entry keeps the review, and at most one item of every other kind.
ReEntryWeek ==
    {items \in RestOfWeek : \A i, j \in items : KindOf(i) = KindOf(j) => i = j}

-----------------------------------------------------------------------------
(* The schedule the Posts page shows *)

ScheduledDays(c) == InForce(c) \intersect Day
=============================================================================
