------------------------------- MODULE MCDesk -------------------------------
(* An instance of Desk for TLC. *)
EXTENDS Desk, TLC

CONSTANTS r1, r2, d1, c1, k1, k2, f1, v1, cv1, cv2, ana, ben

TwoRequests == {r1, r2}

\* Requests, cron runs and processes are interchangeable.
Symmetry == Permutations(TwoRequests)

OnePack == {2}
AddOrRemove == {-3, 1}

\* One of each where one is enough, two where they may collide.
OneDay == {d1}
OneItem == {c1}
OneKey == {k1}
TwoKeys == {k1, k2}
OneField == {f1}
OneValue == {v1}
TwoFiles == {cv1, cv2}
TwoUsers == {ana, ben}

\* An edit that changes the score.
OneEdit == {[headline |-> 3, filters |-> 1]}

\* Two digests, a week apart; the settings form subscribes to everything.
TwoDigests == <<[interval |-> 3, sends |-> 1], [interval |-> 3, sends |-> 1]>>
SubscribeAll == {[daily_brief |-> TRUE, weekly_review |-> TRUE, unsubscribed_all |-> FALSE]}

SomeStages == {"saved", "applied", "closed"}

\* A post day in an unsigned week, or matches; the user answers the post day.
TwoSituations == {{"matches"}, {"unsigned", "review", "post"}}
PostDayOnly == {"post_day"}
=============================================================================
