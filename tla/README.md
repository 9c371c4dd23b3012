# CCWBot in TLA+

CCWBot is a Telegram bot (Python, asyncio, PostgreSQL) that watches cryptocurrency prices, asks
a chain of LLM providers whether a market move is worth telling, and delivers Event Alerts,
Market Heartbeats and reports to its users. Users choose coins, pay with Telegram Stars or try
Premium for a week. This directory holds TLA+ models of the parts of the bot whose correctness
depends on the order of steps: several asyncio tasks, several bot processes that share one
database, calls that are never answered, and restarts.

Paths below are relative to the repository root.

## 1. The system

### Inventory

| Component | State it keeps | Operations | Hard behaviour |
|---|---|---|---|
| Automatic delivery (`bot/alerts.py`, `bot/db/alerts.py`, `bot/alerting/rich_delivery.py`) | `alerts` rows (status, `final_failed_at`, `sent_at`), the process lock and the PostgreSQL advisory lock of a user and coin, `users.is_active`/`bot_blocked` | recipient filters, lock, recheck, reserve, send with fallbacks and retries, settle, disable a blocked user | overlapping fan-outs in several processes, crash between Telegram's acceptance and the row, unanswered calls, a lost lock session |
| Lock connection pool (`bot/db/alerts.py:1130-1177`) | semaphore of lock slots, the connection pool | take a slot, hold a connection while persisting through others | everybody holding one connection and waiting for a second one |
| Market check and Event Analysis (`bot/alerts.py`, `bot/alerting/event_analysis.py`, `event_identity.py`) | `market_events`, `event_ai_analyses`, price snapshots, failure streaks | per-symbol job, candidate, significance call, render call, reuse by context fingerprint, event instance key | two processes creating the same event, reuse of an analysis made for another window, partial failure between stages |
| Heartbeat generation (`bot/alerts.py:3276-3455, 6186-6264`) | `market_heartbeats` | hourly job under a global lock, freshness | two processes generating the same heartbeat, stale cache |
| Premium, trials and payments (`bot/db/premium.py`, `bot/payments.py`, `bot/domain/premium.py`) | `user_premium_subscriptions`, `user_premium_trials`, `payments`, `product_events` | activate a payment once, start a trial once, expire, grant, revoke | duplicated updates, two transactions extending one subscription, a grant that reads without a lock |
| LLM router (`bot/services/llm/router.py`, `config.py`) | the attempts of one logical call | fallback chain, deadline, exhaustion mapping | which exception a mixed failure becomes |
| Circuit breaker (`bot/services/llm/breaker.py`) | one state per (call type, provider, model) | skip, record success, failure, not attempted | late answers, one probe for many callers |
| OpenAI budget (`bot/services/llm/openai_budget.py`) | `openai_budget_reservations`, process lock, advisory lock | reserve the worst case before the call, settle after it | concurrent admission, crash between reserve and settle, month rollover |
| Groq admission (`bot/services/llm/budget.py`, `telemetry.py`) | rolling windows of requests and tokens, backoff registry | reserve, settle, back off | history that cannot be read, per-symbol shares |
| Price service (`bot/services/price_service.py`) | price cache, in-flight task per symbol, provider back-off, BTC cache | single lookup, batch lookup, warm-up, stale fallback | callers that share one request, stale data that looks fresh |
| News (`bot/news.py`, `bot/services/news_service.py`, `news_intelligence_service.py`, `bot/db/news.py`) | `news_items` rows with `llm_status` and the time of the last attempt | fetch, rank, analyse within an hourly number of model calls, cleanup | a batch counts the calls of the hour once, overlapping batches each do; retry cooldown of failed items |
| Reports (`bot/reports.py`, `bot/db/reports.py`, `bot/alerting/market_report*.py`) | report cache by kind and expiry, generation locks | scheduled and on-demand generation | stampede on an expired report |
| Onboarding and watchlist (`bot/onboarding.py`, `bot/watchlist.py`, `bot/handlers/*`) | `users.onboarding_completed_at`, `user_coin_subscriptions` | /start, toggle, confirm, trial start | stale buttons, repeated callbacks |
| Transient replies (`bot/handlers/transient.py`) | one session of messages per chat and user | begin, add, close | a command that starts while another one still sends |
| Product analytics (`bot/db/analytics.py`, `bot/domain/attribution.py`) | `product_events`, acquisition links | record once by key | concurrent inserts of one key |
| Observability (`bot/observability/*`, `bot/health.py`, `bot/error_logging.py`) | counters of the process, rows of analyses, log handlers | System Status for an administrator, `/health`, log redaction | a report reads counters and rows one after the other; a failed statement aborts the rest of its transaction |
| Operations agent (`ops_agent/*`) | a JSON state file, bundles and reports on disk | collect, detect, report, certify, retain | a run killed between the bundle and the state, overlapping runs, evidence that is partly missing |
| Runtime (`bot/runtime/*`, `bot/setup.py`, `bot/config.py`) | job queue | schedule the jobs | |
| Offline tools (`scripts/*`, `bot/backfill_blocked_users.py`, `alembic/*`) | files, schema | benchmarks, replay, migrations | |

### How the parts interact

The job queue of each bot process runs one market check per symbol, the hourly heartbeat job,
the report, news and trial jobs. A check reads prices (price service), builds a market event and
asks Event Analysis, which goes through the router, the breaker and the two budgets. A positive
decision fans out to recipients, which are the active users with the coin enabled and unlocked
(onboarding, watchlist and Premium decide that). Telegram updates share the event loop with the
jobs; a process handles one update after the other (the application is built without
`concurrent_updates`), and interleaves them with its jobs at every `await`. Two processes overlap
when one is being replaced by another. Everything that outlives a process is in PostgreSQL;
process-local state (asyncio locks, breaker, caches, sessions) is lost in a restart.

The three questions the design keeps coming back to are: may two workers that both looked before
either wrote do the thing twice (send, pay, insert, attach, probe)? What is left behind by a step
that was interrupted between two writes, or between an outside effect and its record? And does
everybody who waits for a lock, a connection or a shared request get an answer?

## 2. The modules and the code

Every component has a module with its state, `Init`, one action per step and `Next`. Modules
whose name begins with `MC` give TLC the functions its constants need, the configurations give the
constants their values, and the modules whose name ends in `Proofs` hold the theorems. A program
point (`pc`) stands for the code between two places where another task or process can come in: an
`await` that really waits, a commit, a lock. What a handler does between two such places is one
step, including every early return. A local variable exists in the model only if it is read after
the program could have been interrupted, and is reset when the handler returns. Definitions whose
comment starts with "Bug:" belong to no model: they are wrong variants of the definition that
follows them, and each property is known to fail with one of them in its place (PROJECT.json,
`mutants`).

Three modules put others together: `MCLlm` the five around calls of language models, `MCServices`
eight smaller ones, `MCMarketCheck` the check and what `/health` says of it. Their modules share no
state, so a behaviour exercises one of them, the `focus`, and the others rest: the run checks the sum
of the instances and not their product. Two modules compose by refinement: `Breaker` implements
`Circuit`, on which `Router` is built, and `Delivery` implements `DeliveryContract`.

### Delivery and DeliveryContract

One coin's automatic messages (`_deliver_market_event_alert`,
`_deliver_market_heartbeat` in `bot/alerts.py`, the rows in `bot/db/alerts.py`).

| Model | Code |
|---|---|
| `StartFanOut`, `NextRecipient`, `EndFanOut` | the recipient list computed once by the bulk filters, then the loop over it |
| `AcquireProcessLock`, `AcquireAdvisoryLock`, `Release` | `automatic_delivery_lock`: an asyncio lock per user and coin, then `pg_advisory_xact_lock` in a session of its own |
| `Recheck`, `Reserve` | the cooldown or everything that made a heartbeat due, asked again in the lock; the `pending` row |
| `SendRich`, `SendHtml`, `SendPlain`, `Backoff` | `send_rich_event_alert`, `_send_alert_to_recipient_once` and the retry loop; Telegram accepts, rejects, blocks, limits, or is not heard of again |
| `Record`, `Disable` | `update_alert_delivery_status` and `_disable_recipient_if_bot_blocked` |
| `Abort`, `Crash`, `DropSession` | a database call that raises, the end of a process, the loss of only the session that holds the advisory lock |
| `SetEnabled`, `BlockedElsewhere`, `Tick` | what other parts of the bot do to the user meanwhile; the clock |

`status`, `finalFailed` and `sentAt` are columns of `alerts`; `accepted` and `unacked` are what
really happened in the chat, which no row knows. A lost session (`SessionMayDrop`) is a constant
of the model because cooldown and silence rest on the lock and hold only without it, while
idempotence rests on the row and holds with it. `DeliveryContract` says the same of one message and
one user without workers, locks or transports: claimed once, posted once unless Telegram left the
bot in doubt, settled once, and settled as sent only if posted.

### LockPool

`automatic_delivery_lock` keeps one pooled connection for the advisory lock and opens a second
session whenever it persists something; `_lock_connection_slot` lets at most half of the pool be
used for locks. A worker takes the key, a slot, a connection, the advisory lock, then `Persist`,
`ConnectAgain`, `Commit` any number of times up to `Writes`. `OpenShort`/`CloseShort` are the
sessions of everybody else. Used connections are counted from the program points, so nothing can
leak in the model that does not leak in the code's context managers.

### MarketCheck

`automatic_price_check` for one coin up to the price state, with the tables `event_ai_analyses`,
`market_events`, `alert_delivery_outcomes` (as the time of the last row that stops a check,
`noSendAt`) and `alerts`.

| Model | Code |
|---|---|
| `Start`, `ReuseAnalysis`, `NothingToReuse`, `SkipContext` | the context fingerprint, `get_reusable_event_analysis_candidates`, the recent no-send outcome and `_record_exact_context_reuse` |
| `AskSignificance`, `Significant`, `Decline`, `RecordDecline`, `CallFails`, `Rendered` | `_create_event_analysis_decision`: stage 1 decides, stage 2 writes; each result is persisted before the next step |
| `FindEvent`, `InsertEvent` | `get_or_create_market_event` under `uq_market_events_event_instance_key` |
| `FindAnalysis`, `Attach` | `attach_analysis_to_market_event` under the partial unique index |
| `Resolve`, `Deliver`, `SaveAfterFanOut`, `Save` | recipients, the fan-out, `price_state` |
| `Abort` | an exception in the cycle of the coin, or a crash |

One recipient is served in one step, because `Delivery` has the steps inside it: the in-lock
recheck, the row, the result. The context a check sees is chosen freely: prices and news only
matter through the fingerprint. All events are of one semantic family, the case in which the
cooldown bites most. An existing row of `alerts` stops a delivery whatever its status, as in the
code `final_failed_at` is set on every failed row (`SettledRowsFrozen` of `Delivery`). The model
separates the analysis an alert `names` from the one it `tells`: a check that loses the race for an
event names the winner's analysis but sends the text it rendered
(`_merge_existing_event_analysis_payload`). Analysis ids are fresh (uuid4). The path by which news
alone starts a delivery is not modelled because it is dead: its recipient function returns `False`
and its candidates are empty.

### EventHealth and StatusPage

`EventHealth` is the Event Analysis block of `/health`: analyses begin, succeed, fail or are
skipped (`BeginOperation` ... `LoseOutcome`), each writing a counter of the process and a row that
may be lost, while a report reads one after the other (`BeginReport`, `ReadSuccess`, `ReadRows`,
`RowsUnavailable`). `StatusPage` is the administrator's System Status: one session, one statement per
`Read...` action, in the order of `build_admin_system_status_text`, with any of them failing
(`StatementFails`, `LogicalFails`) and the rest of the transaction then refused; `CheckPrice`,
`EndAnalysis`, `SaveNews` and `Progress` are what other tasks commit in between.

### Premium

One user's subscription, trial and payments. A handler (one per process) or an expiry job runs one
transaction: the statements are the program points, reads see what is committed, writes appear at
the commit. Row locks are derived from operation and program point (`HoldsUser`, `SharesUser`,
`HoldsPaid`, `HoldsTrial`); `Blockers` says whom a statement waits for. Two of them are not visible
in the Python code. `FOR UPDATE` cannot lock a subscription row that does not exist yet, but an
`INSERT` of one, and of a product event, takes a shared lock of the user's row for its foreign key,
and that is what a payment's or a trial's `FOR UPDATE` of the user excludes. And the sessions do
not flush on queries (`autoflush=False`), so a grant's write comes at its own flush, where the
event of a revoked trial may force it outside the code that handles an `IntegrityError`
(`WritePaid`). A revocation and a payment can wait for each other; PostgreSQL aborts one
(`BreakDeadlock`). The asyncio lock around a payment adds nothing, since a process handles its
updates one after the other.

### Breaker, Circuit and Router

`Breaker` is one (call type, provider, model) triple of `bot/services/llm/breaker.py` with the calls
the router makes of it: `should_skip` (`Admit`, `HandOutProbe`), `record_success`,
`record_failure`, `record_not_attempted`, and `NoReport` for everything after which the router tells
the breaker nothing or `record_failure` ignores it. Deadlines are kept as the time left, so the
state space is finite without a bound on the clock; `sinceProbe` measures the distance between
attempts. `Circuit` is what a caller can rely on: four states and what each call and the passing of
time may do to them.

`Router` walks a chain of targets per logical call. `SkipOpen`, `MeetBackoff` and `MeetBudget` are
the three ways past a target without a request, `Request` and the `Answer...` actions one request
and the classes of `telemetry.py`, `Judge` the caller's validation, `DeadlinePasses` the
cancellation of an event analysis, `Conclude` and `Return` the mapping to one exception and the
retry from invalid output. What configuration removes from a chain (missing keys, disabled
providers) is removed in the constant `Chain`, as `_attempts_for` does before the loop.

### OpenAIBudget and GroqBudget

`OpenAIBudget`: `reserve` (locks, clock, breach and sum, insert), the request, `settle` (locks
again, row). The row is charged the worst case until the cost is known. `spent` is what the request
really cost, which the ledger learns only if the response reports it. `Stop` is every way a call
ends in between: a swallowed database error, a cancellation, a dead process, each possibly after
the commit or the request went through. `NextMonth` may happen at any time.

`GroqBudget`: `Reserve` is `GroqBudget.reserve` with its guards in the order of the code
(`Refusal`), `SettleLease` what a response or an error makes of the lease, with its row of the usage
log written or lost, `LoadHistory` the window read back from the log, or found empty if that fails,
`RestartGroq` the end of a process with its window. `forgotten` has the requests that no window can
know any more.

### NewsIntelligence

`analyze_items` for the hourly ingestion and for jobs that want news for a report. `StartBatch`
selects the articles and counts the hour's calls once, `Process` goes article by article (cached,
noise, duplicate, over a cap, or the model is asked), `Classify` is the answer and its row, which
may be lost, `EndBatch` and `CrashNews` end it. A batch holds the process lock (`turn`).

### PriceCache

`get_coin_price` (`AskCached`, `AskInBackoff`, `Join`, `Request`), the shared task of a symbol
(`Receive`, `Fail`, `Retry`, `GiveUp`, then its done-callbacks `ForgetTask`), cancellation of a
waiter under `asyncio.shield`, and `get_coin_market_data_batch` (`Batch...`), which writes the same
cache and is not registered in `_PRICE_IN_FLIGHT`. A price is the time at which it was quoted; a
cache entry also has the time it is stamped with, and whether that was a batch's stale fallback.

### HeartbeatGeneration and ReportCache

`HeartbeatGeneration` is `generate_market_heartbeats` in several processes: `SelectCoins`,
`FetchPrices`, then per coin `LockCoin`, `CheckAgain` (the second look under the lock) and
`SaveHeartbeat`; `LoseLock` ends only the session of a lock. `ReportCache` is one kind of report:
`BeginReading` answers from the cache, is held back, or queues for the lock (`TakeReportLock`, with
the second look), and `Complete`, `Fail`, `Raise` end a generation; the scheduled refresh and the
one-shot recovery job are readers with rules of their own.

### ManualScreens and Registration

`ManualScreens` is the private chat of one user. `Tap` puts an update in the chat's queue;
`EnterCommand`, `EnterCallback` begin its handler, one action per command or button decides what to
send or edit, and `SendMessage`, `EditMessage`, `Record`, `DeleteMessage` are the calls of Telegram
and the database it then waits for. `Notify` is a message of a job in the same chat. `Registration`
is what updates of one user leave in the database when two processes handle them: each transaction
reads, then inserts what it found missing, and a unique constraint refuses the second insert. Three
history variables follow the taps: what the last one on a coin asked for, and whether another was
set between its reading of the rows and its own setting (`overtaken`, `contested`).

### OpsAgent and Evidence

`OpsAgent`: runs of `collect` (`StartCollection` ... `EndRun`) build a bundle in a staging directory,
publish it by a rename, note it in the state file and remove old ones; `mark-report-success`
(`StartCertification`, `Certify`) is what the next period begins at. Collecting, finalizing and the
manifest are one step, `Build`: nobody reads a staging directory. Each writer saves the state file as
it read it at its start, with its own entry. The histories `lastReport` and `noted` are the state file
as writers one after another would leave it; `undone` and `overwritten` say that one wrote back what
another had replaced. Under these `StateKept` says what the file still remembers, and `ReportsChain`
that every automatic period (`state.py:71-78`, the default of 24 hours included) begins where the
report recorded last ended, and is the default only while there is none. Any of them may be killed or
overlap. `Evidence` follows one detector: `RunQueries`, `ReadBuckets`, `ReadHealth`, `ReadLogs` fail
in part, `Detect` says "triggered", "clear" or "unknown", and `WriteContext` heads the packet.

## 3. The runs

`tlc -config X.cfg MCModule` in this directory. One tick is the unit in which the constants of a
configuration are given, and only the order of the deadlines matters.

| Run | Configuration | Distinct states | Asks |
|---|---|---|---|
| `delivery_overlap` | `DeliveryOverlap.cfg` | 650 thousand | `CooldownSpacing`, `HeartbeatSilence`: recorded deliveries keep the cooldown and the silence, although both processes checked before either sent |
| `delivery_drop` | `DeliveryDrop.cfg` | 46 thousand | `NoDuplicateUnlessUnacked`, `ImplementsContract`, `FanOutEnds`: with no cooldown to help and the advisory lock lost at will, the row alone prevents duplicates, each step implements the contract of one delivery, and nobody waits forever at the two nested locks |
| `llm` | `Llm.cfg` | 1.1 million | `LlmTyped`; breaker: `AttemptsRationed`, `NotSkippedForever`, `BehavesAsCircuit`; router: `VerdictTruthful`, `ProbeAccounted`; paid budget: `MonthWithinCap`, `NeverUnderstated`, `BreachStopsAdmission`; free plan: `DayWithinLimit`, `ShareKept`; news: `NewsRationed` |
| `price_cache` | `PriceCache.cfg` | 629 thousand | `SingleFlight`, `OldPriceOnlyRestamped`, `BackoffRespected`, `EveryCallerAnswered` |
| `premium` | `Premium.cfg` | 99 thousand | `ExpiryIsFinal`, `PaymentsCredited`, `TrialOnlyUnpaid`, `EveryoneEnds`: one user's transactions in any order the row locks allow |
| `market_check` | `MarketCheck.cfg` | 1.5 million | `ChecksTyped`; checks: `OneAlertPerKey`, `OneAnalysisManyAlerts`, `AlertWasRendered`, `SilenceIsEarned`; health: `StatusTruthful` |
| `services` | `Services.cfg` | 1.3 million | `ServicesTyped`; `RoomToPersist` (lock pool), `HourApart` (heartbeats), `ReportsRefreshed`, `ScreensKept`, `BundlesHonest` and `ClearIsEarned` (operations agent), `RegistrationKept`, `PageTruthful` (System Status) |
| `delivery_duplicate` | `DeliveryDuplicate.cfg` | violation | `NoDuplicate` (section 6) |
| `router_rate_limit` | `RouterRateLimit.cfg` | violation | `RateLimitWhenAllLimited` (section 6) |
| `price_expired` | `PriceCacheExpired.cfg` | violation | `NeverExpired` (section 6) |
| `news_story_lost` | `NewsStoryLost.cfg` | violation | `FailureIsRecovered` (section 6) |
| `status_gap` | `StatusGap.cfg` | violation | `GapKeepsFailure` (section 6) |

A property whose name stands for several (`ReportsRefreshed`, `ScreensKept`, `BundlesHonest`,
`RegistrationKept`, `NewsRationed`, `PaymentsCredited`, `StatusTruthful`) is the conjunction of named
parts, each with its own comment in the module. Parts that are state predicates are stated of the
state after each step.

### Bounds and why they are enough

* **Delivery.** Two workers in two processes are what it takes to check before the other's send
  and to find the other's row; in `delivery_drop` a third one lets two wait in one process while the
  advisory lock is with another. One user: lock, rows and eligibility are per user, and a worker
  handles one user at a time; the proofs cover any number. In `delivery_overlap` two events of one
  family with different keys and a heartbeat, one of the events and the heartbeat with a rich text,
  so that both chains of transports run; `MaxTime` exceeds `Cooldown` and `Silence`, so deadlines are
  met, just missed and passed; the workers are symmetric, and a `VIEW` leaves out what no guard and
  neither property reads, the chat. In `delivery_drop`, `MaxAttempts = 2` has a first, a last and a
  repeated attempt, and time decides nothing.
* **Breaker and Router.** Schedule `<<2, 5>>` with a probe timeout between the two steps, threshold
  2, three callers: one fails late while another probes and a third asks. Two logical calls of
  different kinds share the first of two targets, of which one is paid and one metered, while a
  third is not configured.
* **OpenAIBudget.** The cap holds two worst cases; three calls, the third in another process, so one
  is refused exactly when the others are booked at their worst, and let in when one turned out
  cheap. A cost above the worst case is possible, so a breach happens. Two months.
* **GroqBudget.** A day of two ticks and a minute of one on a clock of three; three attempts of
  which one is an analysis; each of the four limits is the first to refuse in some behaviour.
* **NewsIntelligence.** Three articles of two stories, one of them noise, two jobs, two calls a batch
  and an hour, one outcome in an hour that may not be stored, two hours.
* **PriceCache.** Two callers, two tasks and a batch on one symbol (symbols share nothing but the
  batch, which treats each alike): a task that ended but is not yet forgotten can meet its
  successor. The clock runs through a back-off and past the TTL of a price that was fetched at the
  start, so it is asked for again.
* **Premium.** Two handlers, one job, one payment that both may handle and redeliver, two
  administrator commands, so that a grant, a revocation and a payment meet; a trial shorter than a
  payment period, and a clock that can pass its end.
* **MarketCheck and EventHealth.** Two checks, two contexts, one key, two users, two analyses and two
  event ids: a race for the event, a race for the attachment, a loser, a reuse, a context silenced by
  one user's cooldown. One tick of clock and of cooldown: inside and at the end. For the health state
  four operations over a window of two ticks with its uncovered edges, thresholds of one to three
  operations in the order of the code's, and any read failing. The run has a symmetry set and states
  no liveness.
* **LockPool.** Three connections make one slot: the bound bites, and the division rounds. A fourth
  worker in another process holds the advisory lock a worker of the first waits for with its
  connection taken.
* **HeartbeatGeneration, ReportCache.** Two generators and two coins, one lost session; two users
  beside both jobs, and a report that is valid for three checks with a grace of one and back-offs of
  one and two, over five checks, so that it expires, is renewed and fails in every order.
* **ManualScreens, Registration.** Three messages of the bot and three updates: a screen, its
  successor, and a tap on the older one. Three visits, two at once, two links and two coins of which
  one is free: a third visit is what leaves a row other than its last tap asked for.
* **OpsAgent, Evidence.** Two bundles (symmetric) at two hours, the automatic period and a requested
  one that ends an hour before the first run, and no time of retention, so that removal meets
  certification; the limit of two bundles is not reached, it would be another reason for the same
  removal. A default period of one hour and a longest one of two: when the requested bundle's report
  is certified and undone, the next automatic period at the second hour begins an hour after that
  report's end, so the exceptions of `StateKept` and `ReportsChain` are states that TLC visits, and
  without them both are violated (a gap in eight steps). Two runs are remembered, so that one
  that overlaps another drops it. Every detector, up to two analyses
  in two buckets of two hours, row caps of one and three, so that a bucket is cut.
* **StatusPage.** Two coins and two rows of alerts, which may be settled, retried and counted between
  any two statements.

`CHECK_DEADLOCK FALSE` stands where the system may come to rest: the clock is bounded, every call
is done, or no user may receive anything any more.

## 4. Fairness

* **Delivery** (`FairSpec`): weak fairness of each worker's steps, because the event loop runs what
  is ready and Telegram and database calls end in an answer or a timeout; strong fairness of taking
  the two locks, because `asyncio.Lock` and PostgreSQL serve waiters in order. Nothing is assumed of
  `StartFanOut`, of failures, of crashes or of the clock.
* **Premium**: strong fairness of each transaction's next statement, because PostgreSQL queues lock
  waiters, and weak fairness of deadlock detection. Without the latter `EveryoneEnds` fails: a
  revocation and a payment can wait for each other. Commands are bounded by `Commands`: an unlimited
  stream of shared key locks could starve `FOR UPDATE`, which no configuration of the bot produces.
* **Breaker**: only time passes (`FairnessLlm`). Callers may never report, which is what
  `NotSkippedForever` is for.
* **PriceCache**: weak fairness of each task (a request has a timeout of ten seconds and the
  retries are counted). Callers and the batch owe nothing.

The other modules state no liveness and assume no fairness.

## 5. What is proved

`tlapm MProofs.tla` checks every step. The theorems hold for all values of the constants that
satisfy the module's `ASSUME`, while the runs show the same formulas on a small instance. Every
safety and action property of the passing runs has a theorem, and PROJECT.json lists them. Each
proof is an inductive invariant, checked by one lemma per part of it and one step per action.

* **Delivery** (`DeliveryProofs`: `TypeCorrect`, `Idempotent`, `SentIsTrue`, `SettledStaysSettled`,
  `Implementation`; `Spacing`, `Quietness`). The first group needs no lock at all: a row that a worker
  is sending is pending and has one owner (`OwnsRow`, `OneOwner`), until the owner is done nothing of
  it was accepted or something went unanswered (`NothingAcceptedYet`), and a failed row is failed for
  good (`FailedIsFinal`). On it rests the refinement of `DeliveryContract`: each step claims, posts or
  settles one delivery, or is invisible. The second group assumes `SessionMayDrop = FALSE`: then
  whoever is past the recheck holds the advisory lock, so what it checked stays true until it records
  (`CheckHolds`).
* **Breaker, Router** (`BreakerProofs`: `BreakerTypeCorrect`, `Rationing`, `CircuitRefinement`;
  `RouterTypeCorrect`, `ProbesAreAccounted`, `VerdictsAreTruthful`). One attempt per interval is not
  what the breaker guarantees (section 6), so what is left of it must be found: attempts of an opened
  breaker are at least the shortest interval apart. The invariant adds up what is left of the current
  deadline and what has passed since the last probe (`Rationed`), and says that opened, armed and
  half-open agree (`Flags`). The assumption is that the probe timeout is not shorter than the shortest
  interval, as configured. `CircuitInv` adds that an armed breaker has counted up to its threshold,
  which is what makes every call one of `Circuit`. For the router, a circuit that waits for a probe
  has a call that holds it or has spent it; and the verdict follows from the notes a call has taken of
  every target it passed (`Noted`, `Concluded`).
* **OpenAIBudget** (`BudgetProofs`: `TypeCorrect`, `Conservative`, `FailClosed`, `SpendingWithinCap`).
  `Mutex` ties the advisory lock to the one call in a serialized section; `Ledger` ties a row's
  charge to its status; `NoBreachYet` carries the check for a breach from `Admit` to `Insert`, and
  `Room` the comparison with the cap; `Within` says that a month whose rows kept to their worst cases
  is charged at most the cap.
* **GroqBudget** (`GroqTypeCorrect`, `FreePlanRespected`, `SharesAreKept`). `GroqInv` says what a row
  of the usage log, a lease and a window can still know of an attempt. `WithinGroup` bounds, for one
  group of owners and its limit, what the group's regular attempts use in any day; `DaysWithin` takes
  it for each symbol with its share and for all together with the plan's limit. A day is bounded at
  its last admission, which saw the whole of it. The assumption is that the shares fit the plan.
* **Sums** (`SumFacts`). `SumFunctionOnSet` is a fold, defined by recursion over subsets; that the
  recursion defines a function is proved from the well-foundedness of the naturals (`LeastNatural`,
  `SmallestSet`: a smallest set on which it would fail), and from it that an element can be taken out
  of a sum, that sums are monotone, and that parts within their shares add up.
* **NewsIntelligence** (`NewsTypeCorrect`, `NewsAreRationed`). `CallsInv` bounds the calls of two
  consecutive hours by the cap and what was not stored, with what the batch under way counted at its
  beginning; `WaitingInv` says that an article that is asked about has no recent failure.
* **PriceCache** (`PriceCacheProofs`: `TypeCorrect`, `OneRequestPerSymbol`, `ProviderLeftAlone`,
  `OldPricesRestamped`). A running task is the registered one (`Registered`); after the last 429 the
  back-off stands and no task of the symbol runs, or its time is over (`Quiet`); an entry's time is
  that of its price unless a batch stamped it (`Dated`).
* **Premium** (`PremiumProofs`: `TypeCorrect`, `PaymentsAreCredited` from `PaidOnce` and
  `NothingPaidIsLost`, `TrialKept`, `ExpiredTrialIsOver`). `Exclusive` says which pairs of
  transactions cannot be where they are at once; `InPlace` fixes the program points of each operation;
  `Reliable` is what a transaction that is about to commit still knows: a payment's base is the
  current date, a trial sees no subscription and no trial, a job's trial is over. The proof is where
  the foreign key's shared lock turned out to be needed.
* **MarketCheck** (`MarketCheckProofs`: `TypeCorrect`, `KeyAlertsOnce`, `EventHasOneAnalysis`,
  `TextWasRendered`, `SilenceWasEarned`). `Unique` is the two unique indexes, and per check: it owns
  its analysis until it attaches it, knows an event with a row, and names an analysis attached to it.
* **EventHealth** (`HealthTypeCorrect`, `StatusIsTruthful`). What a request has read is still so when
  it answers: successes are only added, and one it has not seen is of the present (`ReadingIs`). The
  assumptions are those of the configured limits: positive rates, and a number of failures that raises
  an alarm at a low sample which is not below the one that does in general.
* **LockPool** (`ServiceProofs`, as the rest below: `PoolTypeCorrect`, `NoSelfDeadlock`). At most
  `Slots` workers of a process can be between slot and release, so a full pool of lock holders that
  all wait would need more connections than `Capacity \div 2`; cardinalities are added with
  `FiniteSetTheorems`. Capacity is at least two, which the code enforces by raising `ValueError`.
* **HeartbeatGeneration** (`GenerationTypeCorrect`, `HeartbeatsHourApart`): who is between the second
  look and the row holds the lock of the coin or has lost its session (`LockInv`), and what it saw is
  so until it saves (`AskedInv`).
* **ReportCache** (`ReportsTypeCorrect`, `ReportsAreRefreshed`): one reader generates, the holder of
  the lock; nobody begins within the back-off of a failure (`BackoffInv`); and while every check was
  punctual and none failed, the report is valid until the next check (`PunctualInv`), because the
  grace covers the time between two checks (`bot/reports.py:66-77`), which is an assumption.
* **ManualScreens** (`ScreensTypeCorrect`, `ScreensAreKept`): between two updates the session's
  messages are the user's current screen (`SessionInv`), and a handler that will record something has
  seen Telegram's answer (`HandlerInv`).
* **Registration** (`RegistrationTypeCorrect`, `RegistrationIsKept` and a theorem for each of its
  parts): rows come together, a visit that inserts them has found none (`RowsInv`), a tap about to be
  set that no other has overtaken has read the row as it is (`TapsInv`), and at most one attribution
  awaits its commit (`TouchInv`).
* **OpsAgent** (`OpsTypeCorrect`, `BundlesAreHonest`): every version of the state file, the current
  one and those that runs have read and will write back, names published runs only (`StateSound`,
  `StatesInv`), a bundle is whole and true from the step that publishes it (`BundleSound`), and the
  file holds the last report, and the last runs, unless a writer that had read it before wrote it back
  (`KeptInv`). That every automatic period begins where a certified report ended is not a theorem, as
  it is not so: see section 6.
* **Evidence** (`EvidenceTypeCorrect`, `ClearWasEarned`): what is missing has left a trace, and no
  verdict is clear beside it (`CollectedIs`, `SaidIs`). That a file which stayed below the row cap is
  whole (`AllRead`) is shown by a newest analysis that was left out: only read ones are ahead of it,
  and they already reach the cap.
* **StatusPage** (`PageTypeCorrect`, `PageIsTruthful`): rows of alerts only move on, so what one
  statement saw and a later one did not bounds what was so in between (`HistoryInv`, `DeliveryInv`,
  `AnalysisInv`).
* **Compositions** (`ChecksTypeCorrect`, `ServicesTypeCorrect`, `LlmTypeCorrect`): each step of
  `MCMarketCheck`, `MCServices` and `MCLlm` is a step of one module and a stutter of the others, so that every
  behaviour of them is one of each module, and the theorems above hold of what the runs explore.

Only model-checked: the liveness properties `FanOutEnds`, `EveryCallerAnswered`, `EveryoneEnds` and
`NotSkippedForever` (fairness and `ENABLED` are beyond the prover), and the five violated claims,
which are false. The proofs assume finite sets where something is counted or added up: calls,
attempts, symbols, articles, lockers, analyses.

## 6. Where the code and its documentation differ

1. **A message can arrive twice** (`delivery_duplicate`). `docs/alert_logic.md:228` says "Unknown
   transport acceptance must not trigger a second send". That is so for the rich transport, whose
   unanswered call ends the delivery. An unanswered HTML or plain send counts as transient and is
   repeated (`bot/alerts.py:4963`, `:5073`). `NoDuplicateUnlessUnacked` is the part that holds.
2. **Expired prices return as current** (`price_expired`). `_refresh_coin_price` says "Never silently
   present expired data as current" and keeps it; `get_coin_market_data_batch` writes stale entries
   into the same cache with the present time after its last 429. `OldPriceOnlyRestamped` is the part
   that holds.
3. **A rate-limited call is reported as failed** (`router_rate_limit`). The router's docstring
   (`bot/services/llm/router.py:30`) promises the rate-limit error if every provider
   that made a request was limited; a refusal of the paid budget beside a 429 makes it a mixed
   failure (`:374`). `VerdictTruthful` is what holds of the verdicts.
4. **A failed article is lost to its own duplicate** (`news_story_lost`). The retry of a failed
   classification (`bot/db/news.py:170`) finds the row that was set aside as its duplicate and is set
   aside in turn (`bot/services/news_intelligence_service.py:316`, `:417`): nobody is asked about the
   story.
5. **A query gap hides a failure** (`status_gap`). `bot/observability/system_status.py:510` says "A
   query gap must not overwrite a proven terminal failure"; the exception is caught, but PostgreSQL
   refuses the next statement of the aborted transaction, and the page says only that the database
   query failed. The test that checks it patches the function on SQLite, where nothing is aborted.

What the models also reach:

* A probe that times out leaves the breaker half-open, so the next one follows after the probe
  timeout of 300 s, inside a longer interval (`bot/services/llm/breaker.py:163`).
* One recipient's cooldown silences a context for all (`bot/alerts.py:804`); a check whose fan-out
  reached nobody writes back an older `last_alert_at` (`:6867`); alerts of one event may differ in
  text (`:1020`).
* An administrator's grant reads without a lock (`bot/db/premium.py:433`) and can lose a payment of
  another process; a payment whose transaction fails is not tried again (`bot/payments.py:264`). A
  user whose paid period lapsed is offered a trial that is then refused.
* A process that ends between the user's row and the rows of the coins leaves a user without coins
  until something ensures them (`bot/db/users.py:92`); `bot_blocked` is never reset; an onboarding
  toggle inverts what is stored, which two taps can make what is shown. Of two taps that overlap in
  two processes, the later one writes nothing if the row it read was as it wants
  (`bot/db/premium.py:105`), and the earlier one's value stays.
* Heartbeats fall due on every second run of the hourly job; the lock of a report is per process, so
  two processes may each generate one; the Close button of a message from before a restart does
  nothing.
* Failed news rows get a new `fetched_at` with each retry; seen news are configured to 500 rows and
  pruned to 200.
* The alert evidence joins only deliveries in the bucket of their analysis
  (`ops_agent/collectors/db.py:98`), so a delivery after the turn of a bucket is not counted;
  `alert_similarity.py:910` says "ok" when a bucket failed; nothing keeps two runs of the agent apart,
  and an automatic period of more than 720 hours is refused until an operator asks for one.
* A collection writes back the state file as it read it at its start (`ops_agent/cli.py:139`, `:369`).
  A report certified meanwhile is undone; if it was the first, the next automatic period is the
  default of 24 hours (`ops_agent/state.py:78`), and what lies between the report's end and its start
  is in no report. A run noted meanwhile drops out of `recent_runs`, in which the file
  "records each run" (`ops_agent/README.md:371`); a certification that overlaps a run drops it too.
* As the error of the query of finding 5 aborts the transaction and with it the page, the "gap" that
  `AnalysisStatus` can say never reaches a rendered page.
* Detectors are "clear" of log patterns when no file was there to read and of stale prices when no
  price row exists, and "triggered" when no health URL is set. `/health` says "degraded" when a few
  operations succeeded but the last one is more than three hours old (`bot/health.py:119`).
* Two pieces of code are never reached: the path by which news alone starts an alert, and
  `_guard_event_text_against_market_data` (`bot/alerts.py:1532`).

## 7. What is not modelled

* Texts, prompts, charts, formatting and their validation: data that no control depends on beyond
  accepted or not. This is most of the repository by lines: the validation of event texts and of the
  models' answers, the rendering of reports and of the agent's Markdown, SQL of the agent's queries,
  keyboards and message catalogues. The models abstract these to what is decided by them.
* The HTTP clients, the parsing of answers, configuration, start-up and logging.
* Scripts and migrations, which run outside the bot.
* Fetching and ranking of news and the identity of an incident.
* Inside modelled parts: the pre-checkout query of payments and the rate limit of invoices; the
  separate BTC cache and the report lookup of the price service; refusals by the last rate-limit
  headers of a provider; the per-user framing of a message; the canonical key of an event, of which
  only equality matters; the metrics and samples beside a detector's verdict.

## 8. Plan

Done: every module of section 2, its runs and, for every safety and action property, its proof.
What would come next, in this order:

1. **Composition with shared state.** `LockPool` and `Delivery` meet in `automatic_delivery_lock`:
   the slots as a resource of the delivery workers, so that `FanOutEnds` speaks of them too.
   `HeartbeatGeneration` and `Delivery` meet in the rows of `market_heartbeats`.
2. **Router over Breaker.** The router is built on `Circuit`, which `Breaker` implements call by call;
   a theorem about both together would carry `ProbeAccounted` down to the deadlines.
3. **MarketCheck, continued**: the price state (`last_alert_at` never goes back) and the one text of an
   event, each against the sentence that claims it.
4. **News**: the ranking and the incidents of `bot/news.py`, as functions on small sets.
