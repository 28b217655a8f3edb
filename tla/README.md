# Scientific Research Radar: specification and verification

This directory holds TLA+ models of the Scientific Research Radar backend, the TLC
configurations that check them on small instances, and TLAPS proofs of the properties that
matter most. It covers the program's own state machines: what is queued, claimed, leased,
paid for, charged, sent, retried and closed. It does not cover what the language model writes
or how pages look.

## 1. The system

A FastAPI backend (`backend/app`) over PostgreSQL, a React frontend, and several worker
processes that share nothing but the database. A *digest* is a saved research question of an
account; a *run* executes one in four stages (discovery, paper summaries, trend analysis,
briefing) by asking a paid language-model provider for background responses. Schedules start
runs, the finished briefing is mailed, subscriptions limit how many runs an account gets, and
Stripe pays for subscriptions.

### Components, their state, operations and correctness

| Component | State | Operations | What makes it correct |
| --- | --- | --- | --- |
| Run submission (`radar/submission.py`) | `digest_runs`, `digest_run_stages`, usage rows | start, retry, rate limit | one active run per account; every admitted run is charged exactly once |
| Radar workers (`radar/worker.py`, `runner.py`, `lifecycle.py`, `lease.py`, `repositories/run_*`) | claim (`worker_id`, lease), stage rows, output rows | claim, renew, begin, request, save, complete, fail | one executor per run, saved work is kept, a failed run is resumable, every run ends |
| Request ledger (`radar/request_accounting.py`, `request_execution.py`, `client.py`) | `radar_requests`, `active_response_id` | submit, persist id, poll, accept, reject | no paid job without a ledger row, no job paid for twice, running jobs stay resumable |
| Quota and observation (`services/subscription_access_service.py`, `subscription_observation_service.py`) | `subscription_run_usage`, `subscription_observed_runs`, the account's policy | assess, reserve, settle, change policy | limits never exceeded, reservations neither leak nor vanish |
| Digests (`services/digest_service.py`) | `digests`, schedule columns | create, update, schedule, delete | a digest with an active run is not deleted |
| Schedule dispatch (`scheduler/dispatch.py`, `recurrence.py`) | `schedule_next_at`, `subscription_retry_at` | tick, occurrence arithmetic | one run per occurrence, no occurrence skipped or repeated |
| Briefing delivery (`scheduler/delivery.py`) | `digest_email_deliveries` | claim, send, hold, cancel, retry, exhaust | a letter is never given up while it may still be sent, attempts are bounded, held letters stay unsent |
| Research quality (`services/research_quality_*`, `radar/quality.py`) | quality policy, assessments, holds | assess, hold, release | an enforced hold keeps the letter unsent |
| Account closure (`services/account_closure_service.py`, `account_closure_billing.py`, `account_closure_redaction.py`) | `closure_requested_at`, closure row, redaction | request, advance, redact | no new work after closure, data goes only after the work and the billing are over |
| Billing (`services/billing_*`, `stripe_sandbox_service.py`, `checkout_replacement_service.py`) | Stripe objects mirrored, sync jobs, invoices, notices | checkout, replace, sync, webhook, notify | never two payable checkouts, saved state only moves forward and catches up, the plan in force is paid for |
| Plan changes (`services/subscription_change_service.py`, `subscription_upgrade_service.py`) | change and upgrade rows, Stripe's schedules and pending updates | confirm, advance, undo, retry, observe | undone means undone, every intent settles, a failed upgrade takes nothing away |
| Sessions (`services/auth_service.py`, `repositories/auth_session_repository.py`) | `auth_sessions`, token hashes | login, refresh with rotation, logout, revoke | a rotated token is refused, reuse revokes the family |
| Email verification and password recovery (`services/email_verification_service.py`, `password_recovery_service.py`) | challenges, attempts, links | start, resend, confirm, expire, reset | an address only by the newest code, links used once and for what they were made for |
| Rate limits (`services/rate_limit_service.py`) | windows | consume | never more than the limit in a window |
| Claim review (`services/claim_review_*`) | jobs, budget | request, claim, execute, fail | no job beyond the budget, no second paid call for one job |
| Benchmark review (`services/benchmark_review_service.py`) | drafts, reviews, publications | draft, submit, dispute, resolve, publish | two final decisions that differ become a dispute; publications are frozen |
| Source metadata and content (`services/source_*`) | provider leases, budget, caches, saved documents and evidence | look up, fetch, save | what was generated from is what is saved, one asker at a time, daily budget kept |
| Spending (`services/openai_spending_service.py`, `radar_cost_service.py`) | derived | sum | - |
| Frontend session client (`frontend/src/api/client.ts`, `rateLimitRetry.ts`) | access token, refresh in flight | request, refresh, retry | one refresh at a time, no request retried twice |
| Operations (`infra/scripts`) | snapshots, closure checkpoints, releases | stage, upload, prune, recover, deploy | no closed account comes back with a recovered database |

### How they interact

* Submission, retry, schedule dispatch, policy changes and closure all take the account's row
  lock, so each of their transactions is atomic for one account. The workers do not take it
  except when they settle.
* A run is handed from submission to a worker through its row only. A worker claims it with a
  conditional update and a lease; while it works it renews the lease at the callbacks of
  `RunLease` and nowhere else.
* A worker's session keeps the rows it loaded (`expire_on_commit=False`), so what it decides on
  may be older than the table; a flush writes only the columns that it changed.
* The provider keeps background jobs on its own: a job survives its worker, and may be lost.
* A run started by the scheduler brings a delivery row, in the same transaction; completion
  decides whether quality holds it; the delivery worker sends it.
* Billing's transactions hold the account's row also while they call Stripe, so two windows never
  talk to Stripe for one account at once; Stripe's own clock, its customers and its webhooks do
  not take the lock, and every answer may be lost.
* Closure reaches into everything: each component has to notice `closure_requested_at`, and the
  closure's worker has to wait for the work and the billing that were under way.

### What is hard

Competing workers, leases that run out under a paused worker, crashes between two
transactions, answers lost after the provider accepted the job, stale rows written back,
checks made before an unlock and used after it, a delivery whose outcome nobody knows, and
limits that several sessions read before any of them writes. `PROJECT.json` lists each hazard
at its line with the properties that watch over it.

## 2. The modules

| Module | Models |
| --- | --- |
| `RadarRuns` | run submission, workers, leases, the stage loop, the request ledger, quota reservation and settlement as the queue sees them, and the background-response provider |
| `RunPromise` | the abstract promise of the queue, which `RadarRuns` implements |
| `BriefingDelivery` | the outbox of scheduled briefings and the delivery worker's tick |
| `ScheduleDispatch` | schedules, their cursors, the dispatcher's tick, saves, pauses and the preview |
| `Recurrence` | occurrences in a time zone, as pure functions of a calendar |
| `Allowances` | the two monthly ledgers of an account, against plans, retries and deletions |
| `RateLimits` | the shared fixed-window counters, statement by statement |
| `SourceEvidence` | the documents and evidence a run is grounded on, their caches, provider leases and the budget |
| `ClaimReview` | paid reviews of claims: admission against the daily calls, and the review loop's tick |
| `BenchmarkReview` | human labels of a benchmark: reviews, disputes, publication, redaction |
| `Credentials` | password, sign-in sessions, refresh tokens, recovery links, closure of one account |
| `EmailVerification` | registration and change of address: challenges, codes, their locks |
| `Checkout` | buying a subscription: attempts, Stripe's sessions, replacement of an attempt |
| `BillingSync` | the inbox of Stripe events, the reconciliation and the sync workers |
| `PlanChanges` | changes at renewal and immediate upgrades, Stripe's invoices, and the plan they allow |
| `BillingNotices` | notices of a subscription and their delivery |
| `AccountClosure` | the closure worker, composed with `Checkout` |
| `OffsiteBackup` | snapshots, closure checkpoints, retention and recovery |
| `..._proofs` | theorems about the module of that name; `AccountClosure_proofs` also has those of `Checkout`, `BriefingDelivery_proofs` those of `OffsiteBackup`, `ClaimReview_proofs` those of `Allowances`, `BillingSync_proofs` that of `BillingNotices`, `Credentials_proofs` those of `SourceEvidence`, and `Standalone_proofs` those of the other five modules, which share no state |
| `MC...` | small instances for TLC: sets, schedules, calendars and symmetries; `MCStandalone` joins eight modules in one run |

`AccountClosure` extends `Checkout`, because a closure meets windows that are in the middle of
buying, and `RadarRuns` implements `RunPromise`. Otherwise the modules share no variables. Where
components meet in the code, each module keeps the other side in the few states that matter to
it: `RadarRuns` sees an account as "closing or not", `BriefingDelivery` sees a run as unfinished,
completed or deleted, `ScheduleDispatch` sees the account's runs as "one is active" and its plan
as one of five answers, `Allowances` sees a plan change as a new tier, and `Recurrence` supplies
the calendar that `ScheduleDispatch` abstracts to a set of dates.

In every module one action is one database transaction, one call to the outside, or one read
outside a transaction, so anything may happen between two steps of a process. Where a transaction
holds a row's lock over several calls, the lock is a variable and its steps are several actions
(`Checkout`, `BillingSync`, `AccountClosure`, `PlanChanges`, `EmailVerification`).
Definitions called "Mutant" are wrong on purpose and used by no specification: each is a
plausible bug, and TLC finds the named property violated when it takes the place of the real
definition.

### RadarRuns

* `run`, `stage`, `usage`, `observed`, `closing`, `request` are tables. `stage[r][s].saved`
  stands for the accepted output rows of a stage together with `result_data`: absent, or the
  number of accepted units (summary batches, or 1).
* `worker[w]` is the process: the step it is at (`pc`), its run and stage, the stage row *as its
  session last saw it* (`view`), the response it polls, and whether the output was rejected.
  `Write` flushes what differs from the view, which is how a stale worker overwrites.
* `job` is the provider's side: background responses run on although nobody polls them.
* Time is not modelled. A lease is `none`, `live` or `expired`. `LeaseExpires` is the lease of a
  run whose worker is gone; `Pause` is the lease of a *live* worker running out, which happens
  only when `Timely` is FALSE. `Timely` is what the configuration aims for: `core/config.py`
  requires the lease to outlast the provider's request timeout by 15 seconds. A long pause of
  the process, or a slow statement, still breaks it, so both worlds are checked.
* Fenced steps (`FencedStep`) are the transactions that start with `RunLease.renew`. `BeginStage`,
  `Save`, `CompleteSummaries`, `Discard` and `FailCommit` are not fenced in the code, nor here.

### RunPromise

For each run: its phase moves absent, queued, running, completed or failed, and failed to queued;
its count of saved units never falls; its reservation is taken with the run, kept while it is
active, settled with completion and released with failure. `RadarRuns` implements it
(`KeepsPromise`) while leases are renewed in time.

### BriefingDelivery

* `letter` is the delivery row (`NoLetter` once its run is deleted), `run` and `blocked` what the
  letter's run is, `active` the account's flag. `accepted` counts what SMTP took: it is not in the
  database, and the properties compare it with what is.
* A row has one timer: `next_attempt_at` while pending, `claimed_until` while sending. A process
  compares timers with the clock it read when its tick began, so `now[w]` is the set of letters
  whose timer that reading says has run out; `SetTimer` removes the letter from every `now`,
  because a time set later lies in the future for every earlier reading.
* `token` stands for the claim's `uuid4`; since each claim raises `attempts` by one, the number of
  the claim serves as its identity.
* `late` counts ticks that outlasted their five-minute claim (`Overrun`, or a timer set from a
  clock reading that is minutes old). `SentUnderItsClaim` holds until that happens; the other
  properties hold regardless.

### ScheduleDispatch

* `row[d]` has the schedule columns of a digest; `next` is `schedule_next_at`. A schedule is the
  set of its dates with an end and whether mail is asked for; `Recurrence` has the arithmetic.
* `tick[w]` is a dispatcher's place: its page of due digests, the cursor it expects and its clock
  reading. `lock[o]` is the account's row lock, held from `Examine` to `GiveUp`, `Refuse` or
  `Dispatch`; `Defer` is the conditional update after the rollback.
* A request reads the digest (`Read`), and later saves or deletes its schedule (`Save`, `Delete`):
  the save takes the account's lock, but writes only the columns that differ from what was read
  (`Flush`). `Resolved` is `subscription_access_service.resolve`, which pauses the schedules that
  the Free plan excludes, and runs inside every transaction that asks for access.
* `access[o]` is the answer of the subscription service: `open`, `free`, `limited` (rate limit),
  `exhausted` (allowance) or `blocked` (payment).
* The page of 100 is scaled down to two places for three digests (`Page`); what matters is whether
  all due digests fit into one. `IsPage` says what the query returns: the first due digests, in the
  order of their cursors and identities.

### Recurrence

The algorithms are recursive functions and quantified definitions over a bounded calendar: day
lengths, months of 28 to 31 days, one change of offset in a zone. `_step` and `around` are
translated (`Back`, `Around`) and compared at every instant with the reference, the set of all
occurrences. The allowance windows are only counted, in `Allowances`.

### Allowances

* `hours` passes anniversaries of the account and first days of months in turn: `window` of the
  limiting ledger follows the anniversaries, the observing ledger the calendar's months.
* `attempt` is `digest_runs`, `charged` is `subscription_run_usage`, `watched` is
  `subscription_observed_runs`. `Charge` is `reserve` with its limits in runs, manual runs, papers
  and papers of one run; `Settlement` is what the end of a run makes of both rows.
* `PaperUnits` is a set with one member for each paper that is charged, so that its size is the sum
  which `reserve` compares with the plan.
* A deletion is two steps, `DeletionCheck` and `DeletionCommit`, because it does not take the
  account's lock. A run admitted in between is deleted under way, and `stranded` remembers it.

### RateLimits

One scope and subject. `consume` is an UPDATE, a read, an INSERT and possibly a second UPDATE, each
of which sees what is committed when it begins and waits for the holder of the row
(`UpdateBucket`, `LookBucket`, `InsertBucket`, `UpdateAfter`). A granted request holds the row until
its transaction ends, which for a run's admission is the admission's own commit (`commit=False`).

### SourceEvidence

* `content` is `run_source_content`, `evidence` the automatic row of `source_verifications`,
  `cache` the unexpired answers, `provider` and `requests` the row of `source_provider_state`.
* A worker looks up, claims the provider, fetches and records in separate transactions; another may
  take over its run at any time. `Fence` is the renewal before a document is recorded, which is a
  transaction earlier than the recording.
* `original` lets a paper change at its source, so that two fetches of one paper may differ, and
  `used` remembers what generations were given.

### ClaimReview

* `budget` is the row of `claim_review_budget` (its calls; the reserved dollars follow the same
  rule), `review` the table of reviews, `ledger` their requests, one per case at most. The ledger
  keeps the requests of deleted reviews, for the properties only.
* `worker[w]` is a loop's place in its tick: `seen`, `claimed`, then `finish` or
  `insert`, `call`, `record`. Each claim and each record writes `lease_until`; `writes` numbers
  these writes, and with it the claim's token and the lease that a tick has seen.
* A tick compares days and leases with the clock reading at its start (`worker[w].day`); an
  admission reads clock and settings before it waits for the budget's row (`ReadPolicy`, `Admit`).
* `Check` stands for everything between claim and intent. It may always stop the review: closure
  of the owner, lost access, two hours of age and incompatible inputs are left open.
* `finish` at lines 74 to 102 of `claim_review_worker.py` is not fenced by the lease, and not in
  `Finish`: a tick that was paused there ends a review that another tick has taken over. No
  property fails through that, because an ended review makes no further calls than the one
  under way.
* An admission that midnight overtakes sets the budget back to the day before, and the next one
  starts the counter afresh: the limit of calls is one of each day's counter (theorem
  `TypeCorrect`), not of a day.

### Credentials

* One account. `user` has the number of its password, of its address and its `auth_version`;
  `tokens` is every refresh token issued, with the claims of the access token issued with it;
  `opened` remembers with which password a session was opened, for the properties only.
* A request reads the account, hashes a password for a while, and writes with a conditional
  update; `request[r]` is what it read. Whatever another request does in between is what the
  update's condition has to notice.
* `reset` is the account's row of `password_resets`, with the fingerprint of the password and the
  address it was made for.

### BenchmarkReview

Every mutation first updates the benchmark's row, which counts its revision and locks it, so each is
one action that carries the version or revision its window had loaded. `Redact` does not take that
lock, but is one action all the same (see section 7).

### EmailVerification

`pending` is the challenge of an address, `request[w]` an open transaction with the row it has
locked. Codes are numbered in the order of their issue. `Insert`, `CommitInsert` and `GiveUp` show
the unique address at work; `RightCode`, `CheckAgreement` and `TakeAddress` are the three parts of
`confirm` that locks, other requests and a new legal document may come between. `HoldsRow` names
whose transaction has a challenge's row, and the clean-up waits for every one of them.

### Checkout

* `rows` is `sandbox_checkouts` as committed, `draft` as the transaction that holds the account's
  row (`lock`) sees it; a crash or an error throws `draft` away.
* `sessions` is what Stripe keeps: a session for each idempotency key, with the subscription that
  its payment starts, which is linked to the session a moment later (`Link`). `flying` is a creation
  whose process has died and that still reaches Stripe. `age` stands for the two deadlines of an
  attempt, its `expires_at` and the 23 hours within which its key may be used again.
* `call[h]` is a request's place in `start_checkout` or `replace`; `HandOver` is what a replacement
  does once the old session is known to have expired: it starts the target's checkout.

### BillingSync

Stripe's objects are one `version`; `seen` is the version that the saved row records, `got` the
one a worker has read. A worker's transaction holds its job's row from `Begin` and the account's row
from `LockAccount`, and reads Stripe in between, so what is saved never depends on what the event
said. The closure takes the two locks the other way round; `BreakDeadlock` is PostgreSQL's answer.

### PlanChanges

* `sub`, `invoices` and `sched` are Stripe's, `db` what is saved: the plan with its period, the
  invoices (`papers`), `changes` and `upgrades`. Prices are two, `low` and `high`.
* `Observed` is what an observation of Stripe makes of `db`: `ObserveChange`, `ObserveUpgrade` and
  the invoices' issues; `Access` is the plan that `billing_invoice_service.assessment` allows
  (`Assessment`), with its chains of upgrade invoices (`Settled`), the price each invoice is expected
  to have (`Bindings`) and its days of grace (`Grace`).
* `tx` is the transaction that is calling Stripe, `calls` what a request does in a later one.

### BillingNotices

`noted` is the state that `capture` keeps on the checkout, `notices` the outbox by key. A notice's
claim is its lease; since each claim raises `attempts`, the number identifies it. `turns` remembers
what the observations have seen.

### AccountClosure

A tick is two transactions (`EraseFirst`; `RelockTick` to `Finish`), the second over all attempts of
the account: a session is expired, a subscription cancelled, an attempt without a session waits
until its creation can no longer reach Stripe. `work` is research or a review with a live lease.

### OffsiteBackup

`live` is the application's database, reduced to which accounts asked for closure and when. A
backup takes a dump, exports the closure markers and saves both in three steps; retention forgets,
takes an inventory, filters the newest checkpoint and forgets again. `fetched` is what an operator
recovers from. `inForce[u]` is, for the property only, when the closure was requested that a
checkpoint confirmed, or that a recovery revived the account since. `Between` names the one case
that the property leaves out (section 7).

## 3. The runs

| Run | Instance | Question |
| --- | --- | --- |
| `radar_timely` | 2 workers, 2 runs of one metered account, leases renewed in time, 1 fault, fairness | does the queue implement `RunPromise`; do exclusion, quota and output agree; is nothing paid for twice; does every run end |
| `radar_paused` | 2 workers, 1 run, pauses past the lease, two faults | what survives two workers executing one run |
| `radar_repurchase` | violation | a stage that is saved in full is requested again |
| `delivery` | 2 processes, 1 letter, 3 attempts, 3 faults, 1 late tick, fairness | honest status, no sending under a lost claim, every letter ends |
| `schedule_races` | 2 dispatchers that crash; 1 digest, 1 request at a time, 2 schedules, 5 plans; and 3 overdue digests of 3 accounts with a page of 2; fairness | no occurrence runs twice, the preview tells the truth, overdue occurrences are served |
| `credentials` | 2 requests at a time, 1 session, 3 tokens, 2 links | no token or session outlives what it was made for |
| `claim_review` | 2 loops, 2 reviews of 2 cases, 3 calls a day, 2 days, 1 fault, fairness | no call after an uncertain one, every review ends |
| `checkout` | 2 requests, 2 targets, 2 attempts, 1 replacement, 1 fault | one payable checkout, honest ends, consent |
| `closure` | 1 tick, 1 request that may be buying, 1 attempt, 1 fault, fairness | a completed closure takes no more money, and every closure completes or asks an operator |
| `billing_sync` | 2 workers, 2 versions, 2 failures, 1 fault, fairness | saved state only moves forward, is silent once the account closes, and catches up |
| `plan_changes` | 3 periods, 2 intents, 2 failures, 1 fault, fairness | the plan in force is paid for, a paid plan is kept, undone is undone, every intent settles |
| `standalone` | eight small components, see below | one or two questions of each |

`standalone` is a run over modules that share no state: `part` says which of them moves, the
others rest in their first state (the recurrence with a schedule that has ended).

| Part | Instance | Property |
| --- | --- | --- |
| `recurrence` | 3 units to the day, 12 months, 4 frequencies, 2 zones | `AroundIsReference` |
| `backup` | 1 account, snapshots kept 1 day, markers 2, 5 days, 2 snapshots of each kind | `NothingRevived` |
| `benchmark` | 3 administrators, 1 of them super, 1 case, 2 verdicts, 3 versions | `DisagreementIsDisputed` |
| `verification` | 2 requests, 2 guests, 1 user, 1 address, 4 codes | `ProvenByNewest` |
| `limits` | 3 requests, limit 2, 2 windows | `WithinLimit` |
| `sources` | 2 workers, 1 paper of each provider, budget of 2, a paper that changes once, 1 take-over | `InputsAreSaved`, `ProvidersAreSpared` |
| `notices` | 2 senders, 2 attempts, 2 turns, 2 notices | `EveryTurnIsTold` |
| `allowances` | 2 runs, 1 digest, two plans, 2 anniversaries or months | `AllowanceKept`, `ReservationsEnd` |

Each run finishes in less than three minutes on two cores.

### What the violation says

`radar_repurchase`: an exception between the commit of a stage and the next stage marks the
completed stage failed, and the retry asks and pays for it again, where
`docs/research-orchestration.md:4` has each stage reuse its completed checkpoint.

### Bounds

* `MaxRequests` bounds ledger rows, `MaxFaults` crashes, exceptions, provider faults and
  pauses together, `MaxRetries` explicit retries. Two workers are enough for every race between
  an owner and its replacement; one summary batch is enough for a partly done stage, and the
  stages before and after it are there in full (a run needs four requests, `radar_timely` has
  five, so one may be lost); one fault is a crash, a pause or an exception at any step, two of
  them a pause and an exception. `EveryRunEnds` excuses runs of an instance whose requests are
  used up.
* In `delivery`, three attempts leave a first, a middle and a last one; the code has five. Letters
  share nothing but the process that carries them, one per tick, so one letter is enough.
* In `schedule_races`, three instants hold a missed occurrence, a present one and an end. The run
  has two cases (`case` of `MCScheduleDispatch`), since their product would not be finished in
  minutes. In "races" one digest meets all requests and events. In "page" a rate limit and an
  allowance come and go for two accounts whose overdue digests precede a third account's, and the
  page has two places: it may be full of refused digests, or have one place left. With one digest
  more held up (`Cardinality(held) <= Page`) TLC finds `OverdueIsServed` violated, as the code
  leaves the third digest unserved.
* In `credentials`, `MaxVersion` bounds password and address changes, `MaxTokens` refresh
  tokens, `MaxLinks` recovery links: three tokens are needed to exchange one token twice, two
  links to replace one by another.
* In `claim_review`, two reviews of two cases exceed three calls, so the limit matters; a first and
  a last case, a midnight and a change of the settings are there; one fault is a crash, a tick that
  outlasts its lease, a redaction or a deletion.
* In `checkout`, two attempts are one and its successor, two targets a changed mind; a third
  session would already violate `PayableOnce`, so Stripe may hold one more than the attempts.
  `MaxIntents` bounds accepted replacements, `MaxFaults` lost calls, withdrawn targets and crashes.
* In `closure`, one attempt may be in any state of `Checkout` when the closure comes, including a
  creation on its way; `Tries` is 8 in the code.
* In `billing_sync`, two versions are an old and a new event, in either order; `MaxFailures` is
  `stripe_sync_max_failures`; one fault is a crash, a failing call, a slow worker or a retry by hand.
* In `plan_changes`, three periods hold a change, its renewal and the one after it, two intents a
  change that an upgrade precedes or follows; `MaxFailures` is 10 in the code. With two faults a
  late failure can make two intents open at once (section 7).
* In `standalone`: ages of one and two days stand for 35 and 65, which keeps their order and leaves
  days before, between and after them; a limit of two has a first insertion and a last unit, for
  which three requests compete; two versions of a paper make the saved document differ from a later
  one; two attempts at a mail are a first and a last; a retry, a new window and a change of the plan
  need one run, a second one competes for what it left.

When requests, faults, retries, letters, dates, tokens or intents are used up the models stop, so
only `billing_sync`, in which two locks meet, checks for deadlock; that processes do not stop early
is what the liveness properties check.

### Fairness

* `EveryRunEnds` assumes that a live worker keeps taking steps (`RadarWorker.run_forever` is a
  supervised service, README "Run the worker as a supervised service"), that a background response
  ends, and that a lease nobody renews runs out. Crashes, exceptions, submissions, retries and
  closure are not fair: they need not happen.
* `EveryLetterEnds` assumes that each scheduler process keeps ticking (`scheduler/worker.py` is
  a supervised loop that catches the exceptions of a tick) and that timers run out.
* `OverdueIsServed` assumes that dispatchers keep ticking (`TickStep`) and that the minute of a
  refused digest passes; nothing makes a run end, a plan recover or a request come. Its hypotheses
  are in the formula: the digest's own account stops standing in its way, dispatchers stop crashing,
  and fewer digests than a page has places are held up by their accounts, while every other digest
  is from some time on either not held up or not due. That others are merely clear whenever they
  happen to be due would not do.
* `EveryReviewEnds` assumes that the loop of each API process keeps ticking (`worker_loop` catches
  what a tick raises) and that leases run out.
* `ClosureEnds` assumes that the closure loop keeps ticking, strongly, because a window may take
  the account's row between any two of its ticks and waiters are queued; that a run's lease ends
  once the account closes; that a window which has begun a purchase goes on; and that Stripe links a
  session it was paid for.
* `CatchesUp` assumes that the sync loops keep claiming and working, strongly for the same reason,
  that a deadlock is broken, that leases of idle claims run out, and that the reconciliation is
  seeded. Nothing makes Stripe deliver an event. It excuses a reconciliation that failed for good.
* `IntentsSettle` assumes that the two ticks take up what is due, that a transaction which is
  calling Stripe comes to its end, and that Stripe discards an update nobody pays for (after 23
  hours). Nobody has to pay, undo, confirm or review.

## 4. What is proved

Every theorem holds for all values of the constants that their named assumptions allow. The state
machines are proved about as they are checked: no run replaces a definition.

### RadarRuns_proofs

For every number of workers, runs, accounts, batches and faults:

* `TypeCorrect`: the types. They are not inductive as they stand: that a summary row never counts
  more than `Batches` depends on the worker having compared its view with the total before it
  requested a batch, so `IType` adds what each step knows of the worker's view (`GoodPlace`).
* `OneActive`: one queued or running run per account. `RunSteps` reduces every action to one of
  five changes of the table of runs; only queueing adds an active run, and it is guarded.
* `Owned`: a run has a worker and a lease exactly while it is running.

Assuming `Timely`, without which they are false (`radar_paused` lets two workers execute one run):

* `Exclusion`: two workers never execute one run. The inductive invariant is `Ownership`: an
  executing worker holds its run, whose lease is live.
* `Quota`: reservations follow the status of the run, from `Ownership` (an ending run is running,
  hence reserved).
* `WholeOutput` (`BuiltOnWholeOutput`): no stage is requested or saved before what it reads is whole.
  `Building` says what the tables guarantee of each stage (`RowBuilt`: completed means all of it,
  a response that is polled belongs to an unaccepted request of that stage) and what an executing
  worker knows (`WorkBuilt`: its view *is* the row, and the stages before its own are completed).
  From there `Outputs` reduces every step to one of four changes of what is saved.
* `PaidOnceForEach` (`SavedWorkIsPaidOnce`): what is saved of a stage is the number of its accepted
  requests, because each of the four changes adds one unit with one acceptance, or none with none.
* `PromiseKept` (`KeepsPromise`): the refinement. The mapping of the initial state is a promise's,
  and each of the five changes of the table of runs, with what it does to units and reservation, is
  one action of `RunPromise` or a stutter. That a run is completed with all of its units needs
  `Building` and `InOrder`; that a reservation is settled once needs `Quota`.

### BriefingDelivery_proofs

For every number of processes, letters, attempts and late ticks, from the inductive invariant
`DInv`: what each row may look like (`LetterOK`) and what a carrying process knows of it
(`CarrierOK`: the count it read lies between its own claim and the row). The recording update
matches the claim only if no other claim came in between, so the count it decides by is the row's
own.

* `TypeCorrect`, `TrueStatus` (`StatusIsTrue`), `HeldBack`, `Finality`.
* `ClaimedWhenSent` (`SentUnderItsClaim`), with `InTime` in addition: while no tick has outlasted its
  claim, the claim of a process under way stands on its letter's row, and no process, whatever clock
  reading it ticks by, believes that its time has come.

The module also has the theorems of a component that shares no state with it:

* Off-site backup: `ClosedStayClosed` (`NothingRevived`) and `BackupTyped`. `BackupInv` says, for each
  account, what every snapshot, checkpoint, backup under way and recovery under way knows of its
  closure: nothing before a checkpoint confirms it, and then nothing else than the confirmed time; a
  snapshot whose manifest lacks it was exported before it and, once the checkpoint has forgotten it,
  was saved after it.

### ScheduleDispatch_proofs

For every number of digests, accounts, schedules, dispatchers and requests:

* `ScheduleTyped`: the types, from `BaseInv`, which adds that a dispatcher's clock reading is not
  ahead of the clock. The latest and the next date of a schedule are shown to exist by the
  well-foundedness of a bounded set of numbers, as cursors are computed by them.
* `OnceAndInOrder` (`OccurrencesRunOnce`) and `PreviewIsTrue` (`PreviewIsWhatRuns`), both for the
  behaviours in which no two requests save one digest at once, which they state as the hypothesis
  `[]OneSaveAtATime`: without it the code does not keep them (section 7). `CursorInv` says that a
  cursor is a date of its schedule, later than every occurrence that ran and than the last save
  (`CursorIsAhead`), and that what a saving request has read of a cursor is still there or gone, but
  for cursors in the past (`ViewsAreKept`): the flush may leave the cursor alone only then. A
  dispatcher needs no such knowledge, because `Dispatch` compares the cursor again under the lock.

### Credentials_proofs

For every number of requests, sessions, tokens and links: `TypeCorrect`; `Revoked` (sessions and
their tokens stay out), `CurrentPassword` (what is accepted was opened with the present password),
`Closed`, `Recovered`, `Exchanging`. Each has its invariant: a session's version is never ahead of
the account's, and equals it only with the same password (`Current`); a closing account is inactive
(`ClosingIsInactive`); a request that resets remembers the link it read (`LinkAsRead`); tokens are
numbered in the order of their issue and a session's present token has not been exchanged
(`Numbered`).

The module also has the theorems of a component that shares no state with it:

* Source evidence: `SavedInputs` (`InputsAreSaved`), from what each worker's row knows (`Good`): the
  documents it remembers are those saved, once everything selected is saved; nothing that is saved
  changes. `Spared` (`ProvidersAreSpared`): who fetches holds the provider's lease under its own token;
  the requests counted in a running window are those sent, and even, as is the budget, so that two
  more still fit.

### ClaimReview_proofs

For every number of loops, reviews, cases, days and faults: `TypeCorrect`, in which no day's budget
exceeds its limit; `Uncertain` and `Completed`, from the invariant `Sound`. The leases take no part
in it: a tick inserts the request of the first case without one only when all before it are accepted
(`Ahead`), the unique key lets a single tick in (`Apart`), and nobody else touches its request
(`Pending`).

The module also has the theorems of a component that shares no state with it:

* Allowances: `LedgersTyped`, `Ending` (`ReservationsEnd`), `Consumed`, and `Allowed`
  (`AllowanceKept`). The first three are inductive with the types alone. `Allowed` needs `SumsInv`: of
  *every* window, past and present, the counted runs, manual runs and papers are within the largest
  plan; an admission adds one run and its papers to the present window after comparing (`CountGrows`),
  and nothing else adds to any (`CountShrinks`). Sums are sizes of sets (`PaperUnits`).

### BillingSync_proofs

For every number of workers, versions, failures and faults: `TypeCorrect` (which has `seen` never
ahead of Stripe), `Effective`, `Atomic`, `Forward` and `Silent`. The invariant `SyncInv` says that
the two locks are held exactly by the workers in the steps between (`LocksHeld`), and that what a
worker has read is between the saved state and Stripe's, at least as new as its event, and of an
account that does not close (`ReadsAreCurrent`). The leases take no part in it: a worker whose lease
ran out still holds the job's row, and that is what keeps an older reading from being saved after a
newer one.

The module also has the theorems of a component that shares no state with it:

* Notices: `TurnsAreTold` (`EveryTurnIsTold`). The sequence counts the changes, the notices up to it
  are taken and say what their change said, and the keys after it are free (`Numbered`); closure,
  claims and repeated mails change a notice's state and never what it says.

### AccountClosure_proofs

For every number of windows, targets, attempts, replacements and faults, of `Checkout`'s
specification:

* `NothingIsPaidTwice` (`PayableOnce`), `SavedEndsAreTrue` (`EndsAreTrue`), `ReplacementsKeepConsent`
  (`ConsentKept`) and `CheckoutIsTyped`. An attempt is `Finished` when no session of its key can be
  paid and none can come any more, and that lasts (`LastingFinish`). The invariant `BuyInv` says that
  all attempts but the newest are finished (`Chain`), that what a row says of its session is true,
  in the committed table and in the open transaction (`Tables`), and what each request knows at its
  place in `start_checkout` or `replace` (`Calls`): a holder of the account's row that is about to
  insert a successor knows that the newest attempt is finished, too.

And with the closure's worker, for every number of its loops:

* `ClosureStopsPayments` (`ClosedMeansStopped`), `ClosureIsTyped` and `ClosingKeepsBuyingSound`.
  `ClosureInv` is `BuyInv` until the closure is completed and `Closed` afterwards: no session that
  could be paid, no creation under way that could make one, and no window inside a transaction. What
  takes one to the other is `Dealt`: a tick has finished every attempt before the one it looks at, or
  asks for an operator.

### Standalone_proofs

For any values of the constants of five modules that share no state:

* Rate limits: `Limited` (`WithinLimit`), from `LimitInv`: no two open transactions have changed one
  bucket (`OneHolder`), the room that a request found stays until it ends (`RoomIsKept`), and nobody
  asks for a window to come (`NothingAhead`), so what was granted in the current window is its
  bucket's count.
* Benchmark review: `DisagreementsAreDisputed` (`DisagreementIsDisputed`). Adding a review keeps a
  history sound (`HistoryGrows`), redaction changes no verdict.
* Email verification: `NewestCodeProves` (`ProvenByNewest`) and `VerificationTyped`. No two
  transactions hold one address and none deletes another's challenge (`OneHolds`), so the challenge
  that a confirming transaction read is still the one there, with its newest code (`Backed`).
* Plan changes: `PlansTyped`, `UndoneStaysUndone` (`UndoneIsTrue`), `HigherIsPaid`
  (`HigherPlanIsPaid`) and `PaidStaysKept` (`PaidPlanIsKept`).
  `UndoneStaysUndone` needs `PlanInv`: a change that can still be undone has never ended, is the
  newest intent, has the only schedule at Stripe, and no upgrade is being bought meanwhile. A schedule
  with its second phase is in force before its boundary, was given up before it, or the boundary has
  turned the price, which the observation of `Finish` finds (`ObserveChangeTakes`), so that such a
  change is not called undone.
  `HigherIsPaid` needs `PaidInv`: Stripe's latest invoice is of the present period at the present
  price, an upgrade rests on an invoice of its own period, and what is saved of an invoice is true of
  Stripe's, one without an issue having the price that it was bound to. The recursion `Settled` is
  unfolded by way of the least invoice whose chain would have no solution (`SettledUnfolds`). A chain
  of upgrade invoices descends to a settled renewal (`AccessIsPaid`), and between it and the saved
  price only an upgrade or a change could have come, which the guard of `Grace` excludes
  (`GraceIsPaid`).
  `PaidStaysKept` needs `KeptInv`, of the saved rows and of the open transaction's draft: every invoice
  after Stripe's last renewal is an upgrade's and of the present period (`RenewalSound`); it is as that
  upgrade was quoted and bought on the invoice right before it, and the upgrade's row has it or will
  find it while it is the latest (`UpgradesSound`); an upgrade about to be charged has not been, and the
  next invoice follows its base (`ChargeSound`). So an observation leaves no invoice unrecognised
  (`LatestIsFound`), none of these upgrades is applied while the price is the lower one, and the
  judgement of the latest invoice descends, one invoice at a time, to the paid renewal (`PaidIsKept`).
* Recurrence: `ReferenceKept` (`AroundIsReference`), for every Gregorian calendar, schedule and zone
  that is moved by at most a day (`ZoneAssumption`; the tz database has zones that were moved by a
  whole day and none that was moved by more). The dates of a schedule are a day apart on its wall
  clock (`Walls`; for months by `ClampedLater`), so a change of offset does not turn two round
  (`InstantsRise`) and occurrences rise. The loops are recursive functions: `BackSolved` and
  `ForthSolved` give a function that solves each equation, for `Forth` also where the loop would not
  end, and what they find follows by the least index where it would not (`BackFinds`, `ForthFinds`),
  without an induction theorem. The calendar's end is far enough (`LastIsAhead`), so the loop
  forward ends.

### Only model-checked

* The liveness properties: the prover does not do fairness.
* `radar_repurchase`, whose property is false.

Type invariants are stated next to the variables; those without a theorem of their own hold on the
instances of section 3, and no run repeats them.

## 5. What remains to be done

1. The two windows that save one digest, as a run of its own whose violation is the finding.
2. Types as theorems of their own for rate limits, notices, benchmark review and source evidence,
   where they are a part of the invariant today.

## 6. What is not modelled

* Rendering and prompts, Pydantic schemas, Markdown mail, layout, benchmark scoring files, seeds,
  migrations and deployment scripts: data and I/O without a state machine worth a model.
* The language model's output is reduced to "accepted", "wrong shape" and "rejected", a paper to the
  version that was found, a code or a label to an identity, a price to its rank.
* The plan and price catalogue, contact messages, public content and retention: single statements or
  one administrator under one lock.
* The limit of 16 invoices in a chain of upgrades (`billing_invoice_service.py:159` and 237): the
  preview refuses an upgrade that would go beyond it (`subscription_upgrade_service.py:134` to 141).
* In `PlanChanges` a change that waits for an operator is read with the whole observation
  (`ReviewChange`), of which the code runs the change's part only
  (`subscription_change_service.py:171-175`) and the rest at the next observation: TLC confirms the
  four properties of `plan_changes` with the partial one as well, the theorems are about the whole
  one. A subscription that is to end with its period, which refuses a change
  (`subscription_change_service.py:153`), does not occur (`Changeable`).
* In `Checkout` the payment status and the recovery link of an old session, either of which stops
  a replacement (`checkout_replacement_service.py:48-52`): `Judge` refuses less.
* In `BillingSync` what the closure's own calls save of the billing state
  (`account_closure_billing.py:63` and 123): `seen` is what workers and windows observe, and
  `ClosingIsSilent` is about those.
* In `Credentials` a link or a session is in time if it was so when its request read the clock, which
  the code does once, at its start; it may expire before the request's update.
* The choice of which digests a smaller plan keeps active, and the claim of an environment on a
  Stripe account.
* The browser's session client is one event loop with one promise that all waiting requests share;
  its server side is in `Credentials`.

Parts that are left out of modelled components are named in `PROJECT.json` under `components`.

## 7. What the models show of the code

Besides `radar_repurchase`, the models contain behaviour that a reader of the code may not expect.
It is modelled as it is, and the properties are stated so that they hold of it.

* A worker that is paused past its lease writes the number of batches it remembers over the larger
  one of its replacement (`radar/lifecycle.py:70`), since `begin_summaries` and the `save_*` methods
  do not renew, and `fail` compares the owner once and commits afterwards (`FailCheck`,
  `FailCommit`), so a worker can fail a run that its replacement has just claimed. `radar_paused`
  shows what holds nevertheless: the run is released whole and can be claimed again. The guide says
  that no stronger fencing exists (`docs/research-orchestration.md`, lines 40 to 42).
* `save_schedule` reads the digest before it takes the account's lock (`digest_service.py:65`): two
  windows can mix their schedules. Let both have read a digest, one save its schedule, and the other
  save one whose next date is the cursor that it had read: its flush does not write
  `schedule_next_at`, and the new schedule keeps the other's cursor. An occurrence from before the
  save then runs, against `README.md:240` ("past starts do not immediately enqueue work"), or one
  occurrence runs twice. Two windows saving in an instance of `ScheduleDispatch` show this at once;
  the theorems state that nobody else is saving as an assumption.
* Digests that are refused without a retry time keep the head of the dispatcher's page
  (`dispatch.py:30`): a hundred of them, of accounts without an allowance left, keep all later ones
  out until one of the accounts recovers. `OverdueIsServed` promises service only while fewer than a
  page are held up.
* Deleting a digest checks for an active run without the account's lock (`digest_service.py:154`). A
  run admitted in between is deleted with it, and its reservation stays in both ledgers
  until its window ends (`stranded`).
* When a replacement of a checkout fails, its handler blocks the intent that the row holds if that is
  `intent_id` (`checkout_replacement_service.py:125-137`). The comment there says "Never let this
  request's error overwrite a different intent accepted while that account lock was released", but
  `intent_id` is read from the row after the lock was taken again, so an intent which another window
  put there meanwhile is the one that gets blocked when this request's target does not match it.
  `Judge` and `Failed` of `Checkout` have it as it is: no purchase is made without consent, and the
  blocked intent has to be accepted again.
* A rate-limited request whose UPDATE sees no row, while another's INSERT commits before its own
  read (`rate_limit_service.py:74`), is refused although the limit is not reached. A request that
  read the clock before a window ended may be granted in that window after the cleaner has dropped
  its bucket; `WithinLimit` is about the current window.
* The PMC budget of 96 is called a rolling 24-hour budget (`docs/source-content.md:85`, comment at
  `source_content_service.py:56`), but its window starts with its first request: two full windows
  may meet within one rolling day. `ProvidersAreSpared` is about each window.
* A closure that one replica has completed may be overwritten by another replica's failing tick
  (`account_closure_service.py:268`); it then waits for an operator although everything was done.
* Two intents may be open at once when the failure of an earlier one is recorded late
  (`subscription_upgrade_service.py:228`, `subscription_change_service.py:295`;
  `docs/paid-subscriptions.md:505` allows one). It takes two faults; `plan_changes` has one.
* Who pays the lower price may be without a plan when the bindings disagree with the price, so
  `PaidPlanIsKept` has their agreement as a condition. It takes four periods, three intents and two
  faults. A change to the lower price takes effect and is finishing; a late failure of its release is
  still to be counted. An upgrade is bought. A second change back to the lower price is configured at
  Stripe, but the answer is lost and the row stays "preparing" while two renewals pass.
  `advance` then finds no active schedule and stops the change without looking whether it took effect
  (`subscription_change_service.py:212`). The late failure, if it is the tenth, puts the first
  change to an operator, which makes it unfinished again, and its observation sets the lower plan. The invoice at the lower price
  now stands against the upgrade as the last binding: it has an issue, and the plan is the free one
  until somebody looks. The owner is told to "Review your billing status".
* A notice's attempts are counted at its claim, so a sender that always dies has it claimed more than
  eight times; the cancellation of a notice for a closing account is not fenced by the claim and may
  overwrite "sent" (`billing_notification_service.py:71`).
* A verification code is mailed before its challenge is committed; when the commit fails, the code
  that was mailed last does not work. A start that read before another's registration completed
  leaves its reservation of the address until it expires.
* A reviewer who changes a final decision of their own avoids the dispute with the decision of
  another reviewer that came before it. The redaction of a closed account does not lock the
  benchmark, so a publication under way keeps the name.
* A closure that is requested between the export of a database snapshot's markers and the saving of
  that snapshot is taken to be in it by `retained_markers`, which compares the time of saving
  (`infra/scripts/offsite_backup.py:188`). If the snapshot outlives the closure's checkpoint markers
  its recovery would revive the account; `NothingRevived` leaves this case out (`Between`). And
  `export_markers` exports all closures there are, so each checkpoint brings back markers that the
  retention had dropped. Where an account was revived this way and closes again, `merge_markers`
  (lines 177 to 185) keeps the earlier time and `retained_markers` (188 to 203) drops the marker by
  it, so that an older snapshot could revive it a second time; `NothingRevived` speaks of an account
  until a recovery has revived it.
