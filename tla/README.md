# Carigma API: TLA+ models and proofs

TLA+ specifications of the Carigma API (`src/src/carigma_api`, with the SQL
functions and indexes of `src/migrations`), the TLC configurations that check
them on small instances, and TLAPS proofs of the results that hold for every
instance. Source paths below are relative to `src/src/carigma_api` unless they
begin with `migrations/` or `scripts/`.

The API is a FastAPI service over Supabase (PostgREST, Postgres) and Razorpay.
It keeps almost no state of its own: a request is a sequence of calls, each one
SQL statement or one provider call, and what makes the service correct is how
such sequences interleave, fail half way, or die. There is one transaction per
PostgREST call and none around a request. The mechanisms that carry correctness
are conditional updates, unique indexes, and two SQL functions.

## 1. Inventory

| component | state | operations | talks to |
|---|---|---|---|
| Credit top-ups (`services/payments.py`, `routes/payments.py`) | `payments` row per link: created, paid, dead | create_topup, verify | Razorpay; credit account |
| Subscription months (same files) | `user_subscriptions.cycles_credited` | verify_subscription_cycles | Razorpay; credit account |
| Credit account (`services/credits.py`, `services/repository.py`, `routes/admin.py`) | `credits.balance`, best-effort `credit_ledger` | check_affordable, charge_for_result, grant, adjust_credits, `grant_signup_credits`, `referral_activate_tx` | everything that costs or pays |
| Agent runs (`services/runs.py`, `services/run_store.py`, `routes/_guards.py` and the agents' routes) | `agent_runs` row, unique on (user, Idempotency-Key); the run in memory | replay, gates, begin, execute, finish, poll | credit account; each agent's store |
| Referral codes (`services/referral_store.py`, `routes/referrals.py`) | `referral_codes`, one per user | code_for, summary | referrals |
| Referrals, onboarding completion (`services/referral_store.py`, `routes/onboarding.py`, `migrations/V2_013`, `V2_015`, `V2_016`) | `referrals` row per referred user with a slot; `profiles.onboarded`; signup ledger row | claim, complete, welcome, activate | credit account |
| Weekly contracts (`services/weekly.py`, `weekly_store.py`, `routes/weekly.py`) | contract per week: proposed, approved, declined, auto-adopted | approve, decline, release, plan, pick up the thread | sweep, Sunday job, posts |
| Sweep, Sunday review (`services/sweep.py`, `sunday.py`, `review.py`, `schedule.py`) | contracts and reviews of all users | adopt, review, propose | weekly contracts, posts, tracker |
| Post plans (`services/posts.py`, `posts_store.py`, `routes/posts.py`) | slot per day: planned, draft, published, skipped | publish, skip, regenerate | runs, weekly contracts |
| Job scans (`services/jobs/*`, `routes/jobs.py`) | feed rows; shared daily call ledger | scan, dismiss, kit | quota shared with V1, runs |
| Emails, re-engagement (`services/emails.py`, `reengagement.py`, `scripts/send_emails.py`) | `digest_log` claim per user and period; sequence of eight | send, claim, advance, close | SMTP; preferences |
| Unsubscribe and preferences (`services/unsubscribe.py`, `settings_service.py`) | email preferences | opt out, merge | emails |
| Profile updates (`services/profile_updates.py`) | change: open, approved, declined | propose, decide | runs |
| Application tracker (`services/applications.py`, `routes/tracker.py`) | application's stage, event rows | add, move, follow up, remove | Sunday review |
| Naukri cycle (`services/naukri.py`, `routes/naukri.py`) | latest cycle row | run | runs (without a key), account |
| Rate limits, heartbeat (`services/ratelimit.py`, `instances.py`) | token buckets per process; instance rows | take, heartbeat, census | every agent route |
| Today, ladder, threads (`services/today.py`, `ladder.py`, `thread_store.py`) | suppressed threads | decide what is next | reads everything |
| Settings, retention, deletion (`services/settings_service.py`, `routes/settings.py`) | profile fields, stored files | change, purge | storage |
| Market batches (`services/market.py`, `routes/market.py`) | batch: draft, published | upsert, publish | re-engagement |
| Extraction, CV, content, grounding, AI client | none | text in, text out | a model provider |
| Auth, pricing, feedback, health, reports | none of interest | reads | |

What is hard, and what makes each modelled component correct:

* **Money in** (top-ups, months). The return redirect, a visit and a refresh all
  verify the same payment at once; a write may raise after it landed; a worker
  may die between the claim and the grant. Correct means: charged first,
  credited at most once, never told "not charged" wrongly, credited in the end.
* **Credit account**. Reads and absolute writes overlap with each other and with
  atomic increments, and an admin's failed read counts as 0. Correct means: nobody
  holds more than was issued, and the books balance until one of the two happens.
* **Agent runs**. Double taps, retries and races under one key, with a database
  that may refuse any single write. Correct means: one charge per key, only
  results are charged, what is handed out can be polled and ends.
* **Referrals**. A cap kept by indexes rather than a count, a loop of inserts
  against concurrent claims, and grants attached to a request that swallows
  their failures. Correct means: cap and attribution hold, both sides are paid
  exactly once, refusals are true.
* **Weeks**. Requests, the Monday sweep and the Sunday pass each load a week,
  decide in memory and upsert it. Correct means: nothing is in force that nobody
  asked for, an answer is replaced by stale writers only, and a user who does not
  answer is left alone.
* **Job scans**. Three gates that reserve nothing, a cap kept by counting, and
  rows written back from what was read before. Correct means: overshoot and
  double payment are bounded by what was in flight, and a scan loses nothing of
  the user's.
* **Mail**. Cron runs repeat, overlap and die between the claim, the send and the
  bookkeeping. Correct means: one mail per key, a stop is a stop, a sequence
  counts only what was delivered.
* **Posts, profile updates, tracker, market, settings, thread**. Read, check and
  write whole rows, or two tables one after the other. Correct means: only a
  writer that had read before can undo what was recorded since.
* **Rate limits, heartbeat**. State in process memory under several processes.

`PROJECT.json` lists every hazard at its line.

## 2. Modules

| module | what it is |
|---|---|
| `CreditOnce` | abstract promise of the money path: an item is charged, then credited at most once |
| `TopUp` | create and verify of top-up links; implements `CreditOnce` with an item per link |
| `Subscription` | reconciling a subscription's months; implements `CreditOnce` with an item per month |
| `CreditAccount` | one user's balance under every writer |
| `AgentRun` | the requests under one Idempotency-Key, from lookup to settlement |
| `ReferralCodes` | minting a referral code on first read |
| `Referrals` | claiming a code, completing the setup, the welcome and the activation |
| `WeekRules` | the rules of a week as operators: transitions, adoption, lapses, what Sunday may propose, what a week schedules |
| `Contracts` | the weeks of one user under requests, the sweep and the Sunday pass; extends `WeekRules` |
| `JobBoard` | scans, the search quota, the feed, tailored CVs, dismissals |
| `Outbox` | cron runs of the brief, the review and the digests; the sequence; preferences |
| `PostSlots` | marking, skipping and regenerating the posts of a week |
| `ProfileUpdates` | proposing a change of profile and deciding it |
| `Tracker` | application cards and their history |
| `NaukriCycle` | what a Naukri tune-up costs, and the row that makes the next one free |
| `MarketBatch` | writing, checking and publishing a market digest |
| `Settings` | saved settings, resume retention and its purge, the score fix |
| `RateLimit` | token buckets per process, the heartbeat and the census |
| `Today` | the ladder, the thread and the decisions that hide parts of it |
| `Desk` | twelve components side by side, see below; what each assumes of its constants |
| `MCDesk`, `MCLive`, the other `MC*` | instances for TLC |
| `*Proofs` | theorems and their proofs |

All models share one shape. `Req` is a set of request slots. `pc[r]` or
`request[r].step` is the next call of request `r`, and each action is one call
with the decisions the code takes on its result, up to the next call; what the
code only computes is part of the action. Failures are actions of their own, or a
second outcome of the call; where the write of a call that raised may have landed,
both are behaviours. `Crash`, or an action whose comment says so, drops a request
between two calls. `answer[r]`, `told` and `shown` are what the program told its
caller, so properties can speak about what users were told. Variables such as
`landed`, `issued`, `agreed`, `delivered`, `reported` are history: no guard reads
them, but for the bounds named as bounds.

Beside some definitions stands *a plausible bug* in it, a mutated form that no
specification uses. Replacing the definition by it makes the property named for
it in `PROJECT.json` fail, which shows that the property depends on that line of
the code.

### TopUp
`row[l]` is `payments.status`; `provider[l]` what Razorpay says of the link;
`landed[l]` how often its credits were added to the balance; `offered` the links
whose URL left the API. `Claim` is `claim_payment`, the update guarded on
`created`; `Release` and `MarkDead` are the unguarded `mark_payment`. The three
dead statuses are one value, since the code only asks `is_dead`; `partial` stands
for every status `status_from_provider` does not know. `Pay` and `Expire` are
Razorpay and the user.

### Subscription
`counter` is `cycles_credited`, `paidCount` Razorpay's cumulative `paid_count`.
A reconcile holds the months between the counter it read (`seen`) and the count
it fetched (`paid`). `Claim` and `WindBack` are both `claim_cycles`, guarded on
the counter. A row with an unknown plan, or none, answers `failed`.

### CreditAccount
`ReadBalance` and `Write` are `read_balance` and the upsert of `apply_delta`;
`read[r]` is the value a request will compute from. `ReadToAdjustBlind` is the
admin's read that failed: `_rows_by` answers it with no row, and the adjustment goes
on from 0. `GrantSignup` and `ActivateReferral` are the SQL functions, one step each.
`issued`, `charged` and `removed` are what complete ledger rows would sum to; the row
of a removal carries the delta asked for, so `clamped` keeps what was not there to
take. `overtaken` and `misread` remember the requests that ever wrote over a balance
that had moved, and those that ever took a failed read for 0.

### AgentRun
One key, one user, several requests, each held open or in the background.
`Lookup` is `replay_or_none`, `Gate` stands for every refusal between it and
`begin`, `Insert`/`Holder` are `SupabaseRunStore.start` with its answer to
SQLSTATE 23505, `Report`, `Work`, `Charge`, `Finish` are `execute`. `Save` is the
swallowed upsert: without a row of its own a run cannot take the key. `recorded`
marks the runs whose insert was acknowledged. What a charge does to the balance
is `CreditAccount`'s subject, so here it either lowers it or leaves the run
unbilled.

### ReferralCodes, Referrals
`ReferralCodes` shows that a code handed out is its owner's stored code for
good, which is why `Referrals` names a code by its owner. In `Referrals` the
tables are functions on the referred user (`by`, `slot`, `state`), since
`referred_id` is unique; `paid[u]` counts the transactions that paid both sides.
`InsertSlot`/`Recheck` are one pass of the loop in `referral_claim`; the loop is
not one step because other claims commit between its inserts. The actions from
`Save` to `Activate` are `complete_onboarding` in its order.

### WeekRules, Contracts
A contract is a record of state, items, accepted kinds and cadence, and a week
without a row has state `none`. `WeekRules` is `services/weekly`, `sweep`,
`sunday`, `schedule` and `review` as far as they are pure. In `Contracts` an
answer is two actions: `Approve`, `Decline`, `Release` or `Plan` puts the row the
request has computed into `draft[r]`, `Save` upserts it. `SweepSelect` reads every
open week that is over into `pending`, `SweepAdopt` writes one of them back.
`PassStarts` reads the history once, and `PassReviews` and `PassProposes` act on
what it said. `agreed` and `touched` remember what the user asked for.

### JobBoard
`feed[j]` is the row of a posting: its status, whether it has a kit, and which
halves of `details` it holds, the provider's facts and the scorer's verdict.
`used` is what the quota counts, V1's calls included, `called` what this program
called. The steps of a scan are `PassRescanGate`, `PassQuota`, `RecordCall`, the
two providers, `ReadKnown`, `InsertNew`, `Refresh`, `Annotate`, `Charge`.

### Outbox
`claims` are the rows of `digest_log` of this week, by key; `KeyOf` is
`daily_key` and `weekly_key`. A run is `StartMail` or `StartDigest`, which read
the preferences, then `Gather`, `Claim`, `Sent` or `SendFails`, and for a digest
`Advance`, an update by absolute values computed on what was read.

### PostSlots, ProfileUpdates, Tracker, NaukriCycle, MarketBatch
Each request is a `Read...` or `Check...` action that holds what was loaded, and
a write. `planned` in `PostSlots` is the part of the contract the page reads; its
writer is `Contracts`, here any change. In `Tracker` the card and its history are
two writes; `last[c]` is the stage the latest stage event names. `NaukriCycle`
computes the score from the two dimensions that are assessed, by their weights.

### Settings
`Save`/`ReadBack` are the handlers that patch and read the row again;
`SaveUnread` those that do not. `List`, `Delete`, `Purged`, `SaveFlag` are
`set_retention(False)`. `ReadToFix`/`WriteFix` are `apply_fix` of `routes/score`,
which saves every column of the profile, `resumeRetentionOptIn` among them, as
they were when it read them.

### RateLimit
Tokens are counted in units, so that fractional refills are integers. `Beat`
and `Serve` are `instances.check` at start-up, in that order. A place behind the
load balancer runs one process after another; `Instance` is the id each start
draws, and `rows` are the rows of `api_instances`, which outlive their process.

### Today
`Readings` are the facts a page can end up with when sources fail;
`Ladder` is `choose`, `First` its winner by `Rank`, `Surviving` what decisions
leave of it. `Record`/`ReadBack` are `decide_thread_item`.

### Composition
The components that only the user or a job of the service works at share no table
and call none of one another's handlers. `Desk` therefore puts them side by
side: `on` is the component a behaviour is about, chosen at the start, and the
others keep their initial values. This is one specification over the variables of
twelve modules, and says no more than twelve instances would; it exists because
they answer one question, whether each keeps its promise with two actors of its
own in flight. `MCLive` does the same for the two liveness properties. What
components do share is part of the module that needs it: the credits of a charge
are in `CreditAccount`, `AgentRun` and `JobBoard` from three sides, contracts
appear in `PostSlots` as `planned`, and stored codes in `Referrals`.

## 3. Runs

Passing:

| run | instance | shows |
|---|---|---|
| `topup_safety` | 3 requests, 2 links, every call may fail | credited rows stay closed; nobody is told a paid link failed; every charge has a row; refinement of `CreditOnce` |
| `subscription_safety` | 3 reconciles, 3 months, every call may fail | no month twice; credited months stay counted; refinement of `CreditOnce` |
| `agentrun_safety` | 3 requests, 2 agents, both modes, every call may fail | recorded runs are charged once; a retry is shown the run that was charged; only results are charged; rows tell the truth; accepted runs have a row |
| `referrals_safety` | 3 users (one from V1), 2 referrers, 1 slot, 2 requests | cap, attribution, one payment, one welcome, true refusals |
| `week_safety` | 3 weeks of 2 days, 2 requests, the sweep, the Sunday pass, every call may fail | nothing in force nobody asked for; answers replaced by stale writers only; a quiet user is left alone |
| `desk` | the twelve parts of `Desk`, two requests, cron runs or processes each, with their failures | what each part promises, one property or more per part |
| `live` | `TopUp` with 2 requests and 1 link, `Referrals` with 3 users, 1 referrer, 2 slots | every payment is credited in the end; a referral pending at submission is activated |

What `desk` checks of each part: nobody holds more credits than were issued, and the
books balance until a stale write or an admin's failed read (account); the search quota is overshot by calls in flight only, a posting
is new once, scans lose neither dismissals nor apply links (jobs); scans, kits and
tune-up cycles are paid twice only by requests that overlapped (jobs, naukri); one
mail per key, a stored stop is honoured, a finished sequence was delivered
(outbox); published posts and drafts are undone by stale writes only (posts);
a decision stands (updates); the history ends in the stage of the card (tracker);
what is live was checked, or edited after the last check (market); settings and retention are what the user
was told (settings); only processes multiply the ceiling, and processes that start
together see one another (limits); handed out codes are stored (codes); what was
put away stays away and nothing else does, Today's first action apart (thread).

Violated, on purpose: each states what a comment or a message of the repository
says, and TLC finds a behaviour of the code that differs. The quotations and the
lines are in `PROJECT.json`, "findings".

| run | statement | what happens instead |
|---|---|---|
| `subscription_overlap` | a month whose grant blipped comes with the next reconcile | the wind-back finds the counter moved and the month is lost |
| `creditaccount_overdraw` | balances never over-draw | two runs spend the same credits |
| `week_swept` | a refused plan is never put in force | a decline between the sweep's selection and its upsert is overwritten by the adoption |
| `outbox_twoaday` | a digest consumes the day, one mail a day | the brief and the digest claim different keys, and both go out |
| `settings_undone` | the retention flag is off only after a deletion | a score fix that had read the profile writes it back to off |

Other behaviours of the code a reader should know of. The models contain them;
no run is devoted to them:

* An adjustment whose read of the balance fails goes on from 0 and writes over the
  real balance: an admin who gives one credit to a user with three leaves one
  (`routes/admin.py:245`, `577-587`), though `services/credits.py:71-73` says that a
  failed read and an absent row are different answers. `Conserved` speaks of the
  time before the first such read.
* Checks are made on a row that was loaded, and writes go by its key. So two requests
  that loaded the same open week can sign and decline it (`routes/weekly.py:292`), a
  yes and a no to one change of profile are both accepted
  (`routes/profile_updates.py:232`), a post marked published while its drafts are
  written becomes a draft again (`routes/posts.py:516`), and a batch edited after
  its check goes live, or stays live, unchecked (`routes/market.py:117`, `156`).
  `AnswersStand`, `DecisionStands`, `WorkIsUndoneByStaleWritesOnly` and
  `LiveWasChecked` excuse the writers that had read before, and an edit after the
  check; they say that nobody else can do the harm.
* A top-up whose balance write raised keeps its claim, and the next verify
  answers `already_credited` whether or not the credits arrived. A worker dying
  between the claim and the grant leaves the same state (`services/payments.py:330-358`).
* A run held open goes on without a record when its insert is refused and the
  key's holder cannot be read (`routes/score.py:269-280`), so that a key can be
  charged twice. This is why `RecordedRunsChargeOnce` speaks of recorded runs and
  theorem `BackgroundChargedOnce` of background requests.
* The loser of an insert is answered with the key's holder, whatever its agent;
  only the lookup compares agents (`services/run_store.py:152`).
* `replay_payload` says "you were charged once" of failed, empty and unbilled
  runs too (`services/run_store.py:273`).
* A charge that read the balance before a referral was activated writes over the
  bonus (`services/credits.py:184`).
* A referral claimed after the setup was completed stays pending: nothing but
  `complete_onboarding` activates. A target role is enough to complete the setup,
  so a referral can be activated without an upload (`routes/onboarding.py:300`).
* The heartbeat is written at start-up only, so processes started further apart
  than the window never see one another (`services/instances.py`); this is why
  `StartedTogetherIsSeen` has its premise.
* Unsubscribing answers "done" also when the save failed
  (`services/unsubscribe.py`), and a decision on a profile change whose update
  raised is answered "nothing has changed" though it may have landed.
* The preferences are one JSON value, read, changed and written back, as the
  profile is: a writer of the profile in flight can undo an unsubscribe.
* `list_files` answers a listing that failed with no files, so a purge can
  succeed over files it did not see (`unseen` in `Settings`).
* Decisions filter what Today lists under its first action, not the first action
  itself: a rung that was put away can still come first (`routes/today.py:106-121`).
* When the sources of Today fail, the page shows the fallback as if there were
  nothing to do; the rung `score_fix` never applies, since no caller passes a fix.

### Bounds, and why they are enough
* Two or three requests: every race in this code is between a read and a
  write of another request. Except in `AgentRun`, where a request is
  used once, slots are reused, so a bounded number of slots still gives
  unboundedly many requests over time. The third slot
  lets two requests race while one is stuck.
* `Link` (2): links do not interact except through request slots.
* `MaxCycle` (3): two overlapping claims with a month above both.
* `MaxIssued`: the only bound in `CreditAccount`'s guards. It stops new grants and
  new removals; with a cost of 2 it leaves room for two runs, a grant, a welcome and
  a bonus, and a removal of 3 may find as much, less, or nothing.
* `MaxReferrals` (1 or 2, 5 in the code): one slot makes every pair of claims
  collide; two make a claim walk past a taken slot. `Uploader` bounds who may
  upload where uploads are beside the point.
* `Agent` (2): one to match a key's agent and one to conflict with it. Keys are
  independent, so one is modelled.
* `Week` (3 weeks of 2 days): standing by begins after two lapses, so the third
  week is the first that may not be proposed; a weekday and a Sunday are the days
  the code tells apart. `MaxRequests` (2) answers, in any of the weeks. Jobs and
  requests end on the day they began; the sweep overlaps a request on that day.
* `Job` (1), `Cap` (1), `MinResults` (1), `MaxRequests` (3): one posting that two
  scans find, one call of quota that two scans race for, a third request after
  both.
* `Outbox`: weeks of three days hold a Sunday, the Monday of the retry and the
  day of the digest; two weeks hold a sequence of two digests from its first to
  its finish.
* `NaukriCycle`: four runs, two that race for the price of a cycle and two after
  it. `Tracker`: three of the five stages, which no rule distinguishes except by
  name. `MarketBatch`: two batches, a lifetime shorter than the days there are.
* `RateLimit`: a burst of one and half a token a tick, so that a refill is partial,
  whole and capped; the second start in a place is a restart.
* `Today`: two sets of facts that exercise the five rungs but the interview, and
  a snooze that ends within the days of the instance.
* Symmetry is used only in runs without liveness properties, over values no
  definition distinguishes.
* Deadlock is not checked where the bounds let everything stop: `agentrun_safety`,
  where a finite set of requests is served and ends, `week_safety`, `desk`, and the
  runs that expect a violation of an instance with an end.

The proofs carry none of these bounds.

### Fairness
* A request that was started keeps taking steps (weak fairness): the server runs
  each handler to its end unless the process dies, and `Crash` is never fair.
* `TopUp` assumes that a verify is asked for again and again, because the pricing
  page reconciles on every visit, and (strong fairness) that neither the fetch
  nor the balance read fails every time. No fairness is assumed of Razorpay or of
  users paying.
* `Referrals` assumes only that requests go on.

The other components promise nothing that must eventually happen beyond a request
coming to its end: a cron run that failed is not repeated by the code but by
whoever schedules it.

## 4. Proofs

| module | for every | proved |
|---|---|---|
| `TopUpProofs` | `Req`, `Link`, `Failing` | types, at-most-once, credited rows stay closed, every charge is recorded, "failed" means not charged, refinement of `CreditOnce` |
| `SubscriptionProofs` | `Req`, `MaxCycle`, `Failing` | types, no month twice, credited months stay counted, refinement of `CreditOnce` |
| `AgentRunProofs` | `Req`, `Agent`, `Mode`, `Failing` | types, recorded runs charge once, background runs charge once, replays show the charged run, only results are charged, rows' charges are real, accepted runs have a row |
| `CreditAccountProofs` | `Req` and all amounts | types, nobody holds more than was issued, and everything is accounted for until a write overtakes a read or an admin's read fails |
| `ReferralsProofs` | users, `MaxReferrals`, `Req`, `Failing` | types, slots not shared, at most `MaxReferrals` referrals of one user, paid once, nothing before the setup, one welcome, attribution final, refusals true |
| `DeskCountProofs` | every constant of `JobBoard`, `NaukriCycle`, `RateLimit`, `Outbox` | the quota is overshot by calls in flight only, a posting is new once, scans respect the user, nothing is paid twice but by overlap, the ceiling of a process, starts are seen, one mail per key, stops hold, finished sequences were delivered |
| `DeskProofs` | every constant of the other parts of `Desk` | published posts and drafts, decisions, histories, live batches, settings, codes and the thread keep their promises; every part keeps its types |
| `ContractsProofs` | `Day`, `OtherKind`, `DaysPerWeek`, the number of weeks, `Req`, `MaxRequests`, `Failing` | types, nothing in force nobody asked for, answers replaced by stale writers only, a quiet user left alone |

Each proof goes through an inductive invariant `IndInv`, stated in the module it
is about. The properties are not inductive by themselves:

* **TopUp**: at-most-once needs `HolderIsAlone` (between a won claim and the end
  of the grant a request is the only one on its link, the row is closed and
  nothing has landed), which needs `StepsFollowSeen` and `SeenIsFinal` so that
  no late `mark_payment(dead)` can reopen a claimed row.
* **Subscription**: the months two reconciles hold are disjoint
  (`HoldersAreDisjoint`), and what has landed is held by nobody
  (`LandedIsSettled`); a wind-back succeeds only while its holder is the topmost.
* **AgentRun**: the index (`OneRow`), plus what is known of a run at each step.
  `WorkIsRecorded` says a run without a row is one held open, which is why
  background runs are safe without any assumption on failures. Replays need one
  more invariant, `ReplaysHaveRows`, which holds because no step deletes a row
  (lemma `RowsStay`).
* **CreditAccount**: a stale read is still covered by what was issued
  (`ReadsAreCovered`), so writing it back leaves no more than that; it may give a
  debit back, which is why `charged` is not part of it. The books balance because a
  read that was neither overtaken nor misread is still the balance (`ReadsAreFresh`).
* **Referrals**: `SlotsBelowAreTaken` (a claim has met a taken slot at each
  number it passed, and rows are never deleted) makes "cap reached" true;
  `GrantsFollowSave` puts every grant after the save of the same request. The
  count of referrals follows from the slots: they map a referrer's users
  one-to-one into `1..MaxReferrals`.
* **Contracts**: a draft must already keep what the stored row keeps:
  `DraftsAreAsked` (a request about to write a signature carries no more than was
  asked for) and `DraftsRespectDecisions` (a request that read a decided week can
  only withdraw it). The adoption needs neither, for it drops the posts itself
  (`Conservative`). A quiet user is left alone by a second invariant, `QuietInv`,
  which looks back at the weeks as they were planned. A week is quiet when it has
  a row and the user never touched it: nobody but the user decides one
  (`QuietIsUnanswered`), so once Monday has swept, two of them at the end of the
  history count as two lapses and Sunday stands by (`ProposesAfterAnAnswer`). What
  the pass read stays true until it proposes (`PassLeavesAlone`), since rows that
  appear meanwhile are ones the user planned; and the new week can only be the
  last of three, since no quiet week is later than the one after the latest closed
  week (`SundaysGoOn`, from arithmetic on days and weeks). It rests on the bound in
  `NextDay`, that a pass ends on the day it started.
* **Desk**: a step of `Desk` is a step of one part and leaves the variables of
  the others alone, so every part has an induction of its own.
  * *Counting* (`JobBoard`, `NaukriCycle`): what was called, charged or paid and
    what the requests past the gate may still add are together bounded
    (`RecordedCallsCount`, `ChargesAreCovered`, `KitsAreCovered`,
    `OpenCycleIsCovered`); a request that acts moves from the second term to the
    first. While no scan is on record every charge is a lost record, which is the
    case the sum alone does not cover. `FiledByOne`: between its insert and its
    charge a scan has its new rows to itself. `WritesHaveFacts`: what `annotate`
    writes back contains the provider's half.
  * *RateLimit*: the ceiling becomes inductive with what is left in the bucket and
    what time has brought it (`CeilingLeavesRoom`). For the census, a process that
    beat has its row for as long as a census counts it (`BeatsHaveRows`), and it
    counts in the tick it beat; of two, the later one therefore counts both.
  * *Outbox*: the only run about to send under a key is alone with it, and the
    key is claimed and unused (`HolderIsAlone`); what was delivered was claimed
    (`DeliveredIsClaimed`), so no later run can claim it again. What a run may
    send was decided on the preferences it began under (`StoppedMayNot`,
    `ClaimedMay`). A run about to advance the sequence counts on fewer digests
    than were delivered (`DigestsAreCounted`), whatever it read and however late.
  * *PostSlots, ProfileUpdates, MarketBatch, ReferralCodes, Today*: what a
    request read before it writes is final (no request passes on a published
    slot, a proposal keeps its terms, a stored code stays), or is remembered as
    stale. In `Today` what a client was told is what is stored
    (`ToldIsDecided`), and the head of a ladder exists because ranks are numbers.
  * *Tracker*: `AloneAgrees`. Nothing is known of a card two requests are at work
    on, but the first of them to write marks it as missed.
  * *Settings*: `PurgesKnowTheFiles`. A file is unseen, or on the list of every
    purge under way, or among its failures; a resume kept meanwhile is one that
    no listing showed.

The assumptions are those named in the modules (`FailingAssumption`,
`ModeAssumption`, `AmountsAssumption`, `UserAssumption`,
`MaxReferralsAssumption`, `WeekAssumption`): the sets of inputs, amounts that are
numbers, a positive cost of a run, number of slots and length of a week, and weeks
numbered from 0 without a gap. `DeskAssumption` gathers those of the twelve parts:
finitely many requests, at least one, numbers where the code has numbers, inputs of
their types, sentinels that are not values. One of its conjuncts follows from
another, that `TotalSends` is a number: it is a fold over `CADENCE`, and induction
over data is out of the prover's reach.

Model-checked only: the liveness properties and whatever rests on ENABLED.

## 5. Not modelled

Request validation and authorisation that refuse before any state is touched,
Razorpay signatures, formatting and wording, row-level security, the ledger rows
(nothing reads them to decide), steps and events of a run, the
agents' own work, the loss of answers on the way to the client (a client that
lost its answer is one that asks again, which every model allows), and the
deployment's V1 half, which appears only as rows it wrote and calls it makes.

Without a module: `services/triggers.py` and `trigger_facts.py`, which nothing in
the repository calls; interview prep and the kept analyses, one upsert each inside
a run `AgentRun` models; CV and content writing, grounding checks and the AI
client, which are text in and text out; admin reports, pricing, feedback, health
and authentication, which read or refuse.

## 6. Plan

Done: all the modules above; every safety property a passing run checks is proved
for all constants.

Next, in this order:

1. The refinement of `Contracts` to an abstract week that is answered once, and of
   `Outbox` to a mail that is sent once per key.
2. `AgentRun` for several keys of one user, so that the charge of one run and the
   balance read by another are in one module.
