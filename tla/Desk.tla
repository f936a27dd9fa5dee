-------------------------------- MODULE Desk --------------------------------
(***************************************************************************)
(* The components that only the user, or a job of the service, works at.   *)
(* They share no table and call none of one another's handlers, so a       *)
(* behaviour of the program is one of each, in any order; a behaviour here *)
(* is one of one of them, `on`, chosen at the start, while the variables   *)
(* of the others keep an initial value.                                    *)
(***************************************************************************)
EXTENDS CreditAccount, FiniteSets, Sequences

\* The constants of the parts, under the names they have there.
CONSTANTS
    Job, Cap, MinResults, MaxRequests,                          \* Jobs
    MaxRuns, Edits,                                             \* Naukri
    DaysPerWeek, DigestDay, Retry, LapseAfter, Cadence, Wishes, \* Emails
    MailDays,
    Day,                                                        \* Posts
    Change,                                                     \* Updates
    Card, Targets, FollowUpDays,                                \* Cards
    Key, Publisher, Lifetime, MarketDays,                       \* Market
    Field, Value, File,                                         \* Page
    Burst, Unit, Rate, AliveWindow, LastTick, MaxStarts,        \* Limits
    User, Code,                                                 \* Codes
    SnoozeFor, Situations, Answerable, ThreadDays               \* Thread

VARIABLES
    on,
    jFeed, jUsed, jCalled, jRecent, jRequest, jStarted, jBlind, jScans, jKits, jReported,
    nRow, nProfile, nRequest, nRuns, nPaid,
    oDay, oPrefs, oAway, oSequence, oClaims, oRun, oDelivered, oToday, oDigests, oLate,
    pPlanned, pSlot, pRequest,
    uRow, uRequest, uTold, uRan,
    tCard, tLast, tRequest, tMissed,
    mDay, mBatch, mPublish, mEdited,
    sProfile, sTold, sOptIn, sFiles, sUnseen, sRequest, sUndone,
    lNow, lProcess, lRows, lBucket, lStarts, lAdmitted,
    cCode, cPc, cWho, cMine, cAnswer,
    yDay, yFacts, yDecided, yTold, yRequest, yShown

jobs == <<jFeed, jUsed, jCalled, jRecent, jRequest, jStarted, jBlind, jScans, jKits, jReported>>
naukri == <<nRow, nProfile, nRequest, nRuns, nPaid>>
outbox == <<oDay, oPrefs, oAway, oSequence, oClaims, oRun, oDelivered, oToday, oDigests, oLate>>
posts == <<pPlanned, pSlot, pRequest>>
updates == <<uRow, uRequest, uTold, uRan>>
tracker == <<tCard, tLast, tRequest, tMissed>>
market == <<mDay, mBatch, mPublish, mEdited>>
settings == <<sProfile, sTold, sOptIn, sFiles, sUnseen, sRequest, sUndone>>
limits == <<lNow, lProcess, lRows, lBucket, lStarts, lAdmitted>>
codes == <<cCode, cPc, cWho, cMine, cAnswer>>
thread == <<yDay, yFacts, yDecided, yTold, yRequest, yShown>>

Jobs == INSTANCE JobBoard WITH
    feed <- jFeed, used <- jUsed, called <- jCalled, recent <- jRecent, request <- jRequest,
    started <- jStarted, blind <- jBlind, scans <- jScans, kits <- jKits, reported <- jReported

Naukri == INSTANCE NaukriCycle WITH
    row <- nRow, profile <- nProfile, request <- nRequest, runs <- nRuns, paid <- nPaid

Emails == INSTANCE Outbox WITH
    CronRun <- Req, LastDay <- MailDays,
    day <- oDay, prefs <- oPrefs, away <- oAway, sequence <- oSequence, claims <- oClaims,
    run <- oRun, delivered <- oDelivered, today <- oToday, digests <- oDigests, late <- oLate

Posts == INSTANCE PostSlots WITH planned <- pPlanned, slot <- pSlot, request <- pRequest

Updates == INSTANCE ProfileUpdates WITH
    row <- uRow, request <- uRequest, told <- uTold, ran <- uRan

Cards == INSTANCE Tracker WITH
    card <- tCard, last <- tLast, request <- tRequest, missed <- tMissed

Market == INSTANCE MarketBatch WITH
    LastDay <- MarketDays, day <- mDay, batch <- mBatch, publish <- mPublish, edited <- mEdited

Page == INSTANCE Settings WITH
    profile <- sProfile, told <- sTold, optIn <- sOptIn, files <- sFiles, unseen <- sUnseen,
    request <- sRequest, undone <- sUndone

Limits == INSTANCE RateLimit WITH
    Process <- Req,
    now <- lNow, process <- lProcess, rows <- lRows, bucket <- lBucket, starts <- lStarts,
    admitted <- lAdmitted

Codes == INSTANCE ReferralCodes WITH
    code <- cCode, pc <- cPc, who <- cWho, mine <- cMine, answer <- cAnswer

Thread == INSTANCE Today WITH
    LastDay <- ThreadDays,
    day <- yDay, facts <- yFacts, decided <- yDecided, told <- yTold, request <- yRequest,
    shown <- yShown

\* What the parts take for granted of their constants.  Requests are finite in
\* number, and there are some; a number of days, credits or calls is one; what
\* the parts write where there is no value is not a value.
ASSUME DeskAssumption ==
    /\ IsFiniteSet(Req) /\ Req # {}
    /\ Cap \in Nat /\ MaxRequests \in Nat
    /\ MaxRuns \in Nat /\ Edits \subseteq Naukri!Profile
    /\ DaysPerWeek \in Nat \ {0} /\ LapseAfter \in Nat /\ MailDays \in Nat
    /\ Wishes \subseteq Emails!Preferences
    /\ Cadence \in Seq([interval : Nat, sends : Nat]) /\ Cadence # << >>
    /\ Emails!TotalSends \in Nat
    /\ Day # {} /\ Change # {} /\ Card # {} /\ Key # {} /\ Field # {} /\ User # {}
    /\ Targets \subseteq Cards!Stage /\ FollowUpDays \in Nat
    /\ Lifetime \in Nat /\ MarketDays \in Nat
    /\ Page!Retention \notin Field /\ Page!NoValue \notin Value
    /\ Burst \in Nat /\ Unit \in Nat \ {0} /\ Rate \in Nat
    /\ AliveWindow \in Nat /\ LastTick \in Nat /\ MaxStarts \in Nat
    /\ {Codes!NoCode, "none", "unavailable"} \intersect Code = {}
    /\ SnoozeFor \in Nat /\ ThreadDays \in Nat
    /\ Answerable \subseteq Thread!Rung /\ Situations \subseteq SUBSET Thread!Fact

-----------------------------------------------------------------------------
Parts == {"account", "jobs", "naukri", "outbox", "posts", "updates", "tracker", "market",
          "settings", "limits", "codes", "thread"}

\* A part that is not on has one initial value.
DeskInit ==
    /\ on \in Parts
    /\ Init /\ Jobs!Init /\ Naukri!Init /\ Emails!Init /\ Posts!Init /\ Updates!Init
    /\ Cards!Init /\ Market!Init /\ Page!Init /\ Limits!Init /\ Codes!Init /\ Thread!Init
    /\ on # "jobs" => jFeed = [j \in Job |-> Jobs!NoRow]
    /\ on # "outbox" => ~oPrefs.unsubscribed_all
    /\ on # "posts" => pPlanned = {}
    /\ on # "thread" => yFacts = CHOOSE facts \in Situations : TRUE

Off(part) == on # part

\* What every part but the one that is on does: nothing.
OthersWait ==
    /\ IF Off("account") THEN UNCHANGED vars ELSE TRUE
    /\ IF Off("jobs") THEN UNCHANGED jobs ELSE TRUE
    /\ IF Off("naukri") THEN UNCHANGED naukri ELSE TRUE
    /\ IF Off("outbox") THEN UNCHANGED outbox ELSE TRUE
    /\ IF Off("posts") THEN UNCHANGED posts ELSE TRUE
    /\ IF Off("updates") THEN UNCHANGED updates ELSE TRUE
    /\ IF Off("tracker") THEN UNCHANGED tracker ELSE TRUE
    /\ IF Off("market") THEN UNCHANGED market ELSE TRUE
    /\ IF Off("settings") THEN UNCHANGED settings ELSE TRUE
    /\ IF Off("limits") THEN UNCHANGED limits ELSE TRUE
    /\ IF Off("codes") THEN UNCHANGED codes ELSE TRUE
    /\ IF Off("thread") THEN UNCHANGED thread ELSE TRUE
    /\ UNCHANGED on

DeskNext ==
    \/ on = "account" /\ Next /\ OthersWait
    \/ on = "jobs" /\ Jobs!Next /\ OthersWait
    \/ on = "naukri" /\ Naukri!Next /\ OthersWait
    \/ on = "outbox" /\ Emails!Next /\ OthersWait
    \/ on = "posts" /\ Posts!Next /\ OthersWait
    \/ on = "updates" /\ Updates!Next /\ OthersWait
    \/ on = "tracker" /\ Cards!Next /\ OthersWait
    \/ on = "market" /\ Market!Next /\ OthersWait
    \/ on = "settings" /\ Page!Next /\ OthersWait
    \/ on = "limits" /\ Limits!Next /\ OthersWait
    \/ on = "codes" /\ Codes!Next /\ OthersWait
    \/ on = "thread" /\ Thread!Next /\ OthersWait

everything == <<on, vars, jobs, naukri, outbox, posts, updates, tracker, market, settings,
                limits, codes, thread>>

DeskSpec == DeskInit /\ [][DeskNext]_everything

-----------------------------------------------------------------------------
(* What is checked, part by part; the parts' modules say why.                *)

\* Every variable of every part keeps its type, whatever handler runs.
TypesOK ==
    /\ on = "account" => TypeOK
    /\ on = "jobs" => Jobs!TypeOK
    /\ on = "naukri" => Naukri!TypeOK
    /\ on = "outbox" => Emails!TypeOK
    /\ on = "posts" => Posts!TypeOK
    /\ on = "updates" => Updates!TypeOK
    /\ on = "tracker" => Cards!TypeOK
    /\ on = "market" => Market!TypeOK
    /\ on = "settings" => Page!TypeOK
    /\ on = "limits" => Limits!TypeOK
    /\ on = "codes" => Codes!TypeOK
    /\ on = "thread" => Thread!TypeOK

\* The search quota is overshot by requests under way only (quota.refusal).
QuotaBounded == Jobs!QuotaBounded

\* A posting is new in one scan at most (store.persist).
NewOnce == Jobs!NewOnce

\* A scan, a kit or a tune-up cycle is paid twice only by requests that
\* overlapped (scan_jobs, build_apply_kit, run_naukri_tuneup).
PaidOnlyByOverlap == Jobs!PaidOnlyByOverlap /\ Naukri!CyclePaidOnlyByOverlap

\* Scans bring no dismissed posting back and lose no apply link (store.annotate).
FeedRespectsTheUser == Jobs!FeedRespectsTheUser

\* A key delivers one mail at most (emails.send, claim_period).
OneMailPerKey == Emails!OneMailPerKey

\* A run that began under a stored stop sends nothing (Preferences.allows).
StopIsHonoured == Emails!StopIsHonoured

\* A sequence that is finished delivered all its digests (run_reengagement).
FinishedGotAll == Emails!FinishedGotAll

\* Published posts and kept drafts are undone by stale writes only (save_slot).
WorkIsUndoneByStaleWritesOnly == Posts!WorkIsUndoneByStaleWritesOnly

\* A recorded decision on a profile change stands (post_decision).
DecisionStands == Updates!DecisionStands

\* The history of a card ends in the stage it is in (move_application).
HistoryTellsTheStage == Cards!HistoryTellsTheStage

\* Only checked items go live (publish_batch, live_batch).
LiveWasChecked == Market!LiveWasChecked

\* Saved settings and retention are what the user was told (put_targets,
\* set_retention).
SettingsSayWhatIs == Page!SettingsSayWhatIs

\* Only processes multiply the rate limit (RateLimiter).
CeilingPerProcess == Limits!CeilingPerProcess

\* Processes started together see one another (instances.check).
StartedTogetherIsSeen == Limits!StartedTogetherIsSeen

\* A code that was handed out is stored for its user (code_for).
HandedCodeIsStored == Codes!HandedCodeIsStored

\* What the user put away stays away until its snooze is over, but for Today's first
\* action (surviving).
PutAwayStaysAway == Thread!PutAwayStaysAway
=============================================================================
