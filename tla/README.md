# Formal models of the personal monitor platform

This directory holds TLA+ specifications of the monitor platform in
`src/rental-housing-monitor`, the TLC configurations that check them on small
instances, and machine-checked proofs (TLAPS) for every value of their constants.

The platform is one asyncio process (`personal_monitor.service`) over one SQLite
database. It watches web sources on schedules its owner agrees to by Telegram,
compares each observation with the stored one, and sends alerts through an outbox.
`monitor run-once` processes of the operator work on the same database beside it, and
a second process runs Codex for it. The older `rental_monitor` package is the
sequential job it replaces.

Paths below are relative to `src/rental-housing-monitor/src/personal_monitor/`.

## 1. Inventory

| Component | State | Operations | Interacts through | Hard behaviour |
|---|---|---|---|---|
| Registry (`storage/registry.py`, `storage/recovery.py`) | monitors, versions: status, active version, next run, lease owner/expiry/generation | create, pause/resume, delete, stage/activate a candidate, store a repair | called by control plane and recovery; read by the runner | every operation re-checks the status and version its caller saw; rival candidates |
| Runtime (`storage/runtime.py`) | lease columns, runs, observations, outbox, deliveries | claim, release, start/finish run, status verdict, apply snapshot, claim/mark/reschedule outbox | called by scheduler, runner, outbox worker | fencing by owner and generation; expiry; several processes |
| Runner and scheduler (`engine/runner.py`, `engine/scheduler.py`) | calls in memory between transactions | tick, run, cleanup | registry and runtime; adapters by await | reads outside transactions, cancellation, crashes, superseded runs |
| Run decisions (`domain/observation.py`, `domain/rules.py`) | none | diff, rules, dedupe keys | called by the runner | repeated crossings, partial batches |
| Outbox worker (`engine/outbox.py`) | a claimed batch in memory | drain, retry, report | runtime, Telegram, operator events | late or lost answers, expired batches, crash between send and record |
| Control plane (`control/actions.py`, `control/service.py`) | pending_actions: token hash, payload, expiry, consumed | preview, confirm, cancel, edit, revoke | Telegram gateway; registry | token reuse, expiry, stale preconditions, previews that await the planner for minutes |
| Telegram (`telegram/`) | offset in memory | poll, parse, authorise, route, reply | control plane, Telegram API | redelivery after restart, reply failing after the mutation, a poll that can never be parsed |
| Service (`service.py`) | loops, failure counters, active runs, resources | loops, stop, grace, close | all of the above | five failures end the process; shutdown with shielded clean-ups |
| Maintenance (`maintenance.py`) | none | delete by age | every table | foreign keys, dedupe keys, deletion behind a drain |
| Billing (`billing/`) | grants, snapshots, alert claims | daily sync, alerts | BigQuery, Telegram | claimed but not sent; usage exported late |
| Planning (`control/intents.py`, `url_discovery.py`, `planner.py`) | a message in work | route, discover, probe, plan; three attempts each | Codex worker, source fetches | an attempt meets the one before it |
| Codex worker (`ai/`) | one slot, processes, workspaces | request and answer over a socket | planning, heartbeat | nested timeouts, cancellations under a shield, a client that has gone |
| Source fetches (`adapters/`, `scraping/`, `security/rate_limit.py`) | limiter, permits, executor threads, browser profiles | fetch with robots, redirects, retries, fallback | runner, planner's probe | threads nobody can stop, permits, profile locks |
| Migration (`migration/`) and legacy job (`rental_monitor/`) | files, the old database, comparison results | collect, send; import, compare, probe, cut over | operator, data branch | partial failure, what is sent but not recorded, a gate over several days |
| Legacy collectors; backup, restore and deploy scripts | files | parse, copy, deploy | operator | not modelled, section 8 |

What makes them correct:

* registry: an active monitor has a next run; a stopped one has neither schedule nor
  lease; every lease can expire; approved versions form one line;
* runner: only the current run of an active monitor on its active version writes;
  no change of the snapshot without its alerts; late runs are harmless; an active
  monitor is always served again;
* outbox: at-least-once delivery; no row recorded without acceptance; late answers
  refused; attempts counted correctly; stuck rows reported;
* control plane: every change the owner makes is one approval, used at most once, in
  time, and only on the status and version its preview showed; every update is
  handled;
* service: a stop and a poll that can never succeed both end the process; nothing is
  closed under a loop or run that still uses it; Telegram forgets only what was handled;
* nightly jobs: what is deleted is never needed again; a deleted monitor is forgotten;
  a billing alert reaches the owner at most once; late usage does not move the balance;
* planning and Codex: one Codex process at a time; an attempt is never refused because of
  the attempt before it, except for two named reasons;
* source fetches: requests under way never exceed the permits and no permit is lost; a
  browser session a fetch has stored is never overwritten by one unpacked before it;
  every fetch ends;
* migration: the gate opens only after its streak; a notice is announced twice only for
  named reasons; nothing the gate was opened by stays unannounced, but for what was
  entered as delivered without a message.

## 2. Modules

| Module | Models | Role |
|---|---|---|
| `MonitorRegistry` | monitors, monitor_versions, leases | component; operations parameterised by what the caller captured |
| `RunDecisions` | diff, rules and dedupe keys of one run | pure operators |
| `MonitorRunner` | scheduler, runner, runs, observations, outbox writes | composes the two above |
| `MonitorContract` | what a monitor promises: observe in one step, alert on every change | abstract specification of `MonitorRunner` |
| `Outbox` | outbox worker, claims, retries, retention of rows | component |
| `DeliveryContract` | at-least-once delivery | abstract specification of `Outbox` |
| `ControlPlane` | polling loop, gateway, previews, one-time tokens, confirmations | composes `MonitorRegistry` with the owner's side |
| `ApprovalContract` | what the owner is promised about confirmations | abstract specification of `ControlPlane` |
| `Platform` | both sides over one registry, one clock, one process | composes `MonitorRunner` and `ControlPlane` |
| `TelegramUpdates` | the parser of a getUpdates answer | pure operators |
| `ServiceLoops` | the process: loops, counters, stop, grace, closing, restarts | composes `TelegramUpdates` |
| `Retention`, `Billing` | the nightly transaction and its writers; the daily sync | components |
| `NightlyJobs` | the daily schedule | composes the two above |
| `SourceFetch` | limiter, gates, executor, profiles, control flow of a fetch | component |
| `CodexWorker` | the worker's slot, processes and timeouts | component |
| `Planning` | routing, discovery and planning over the worker; the heartbeat | composes `CodexWorker` |
| `LegacyMonitor` | the sequential job and the data branch | component |
| `RentalMigration` | import, comparison, probe, gate, cutover | composes `LegacyMonitor` |
| `MCMonitorRunner`, `MCOutbox`, `MCControlPlane`, `MCPlatform`, `MCServiceLoops`, `MCNightlyJobs`, `MCSourceFetch`, `MCPlanning`, `MCRentalMigration` | | TLC instances |
| `MonitorRunner_proofs` (with the registry's), `Platform_proofs` (with the control plane's), `Outbox_proofs`, `ServiceLoops_proofs`, `NightlyJobs_proofs`, `SourceFetch_proofs`, `Planning_proofs`, `RentalMigration_proofs` | | theorems |

`MonitorRunner` and `ControlPlane` both extend `MonitorRegistry`. In the first the
operator is one action per registry operation; in the second the runs are (`Others`).
Either side may therefore do to the registry what the other one can, at any time.
`Platform` puts the two together without such an environment, and is proved to leave
neither specification.
`ServiceLoops` surrounds them: what one iteration of a loop does is in the other modules,
what its failure does to the process is in this one.

## 3. State and actions

Common conventions. One database transaction is one action: SQLite serialises
writers, the code uses `BEGIN IMMEDIATE` or a single statement, and what a
handler reads outside a transaction is kept in a variable of its own. Instants are
the number of ticks left until they are reached, so time is relative and the state
space finite; `Tick` lets one tick pass and may happen between any two steps. A crash
is an action: it drops what is in memory and leaves the tables. Operators named
"Mutant" in a comment are not part of a specification: each is a plausible bug, kept
to show that some property notices it.

### MonitorRegistry

`status`, `active`, `versions`, `nextIn`, `owner`, `leaseLeft`, `generation` are the
columns of `monitors` and the rows of `monitor_versions`. Each repository method that
the program calls is one operator with the method's name (`ClaimDue`, `ClaimMonitor`,
`ReleaseLease`, `TransitionMonitorStatus`, `CreateMonitor`, `TransitionStatusExact`,
`SoftDeleteExact`, `StageCandidate`, `StoreCandidate`, `ActivateCandidateExact`). The
expected status and version are parameters; the operator's guard is the method's
WHERE clause, and a call that raises changes nothing. The next cron instant is some
positive number of ticks (`CronDelays`), which covers jitter and any cron expression.
`add_version`, `approve_version`, `activate_version`, `transition_status` and
`soft_delete` have no caller in `src` and are left out. `StoreCandidate` is kept
although the service build does not wire the adaptive recovery in, because the
confirmation of a repair depends on it.

### MonitorRunner and RunDecisions

A call of `MonitorRunner.run` is `task[m][g]` for the lease generation it was started
with; its `stage` is the point in program order, its other fields what it read or
decided: the version, the previous snapshot, the batch, the verdict. `runs`, `items`
and `outbox` are the tables. Actions: `SchedulerTick` and `RunOnce` (claim and start),
`LoadActive`, `StartRun`, `FetchAndDiff`, `Complete`, `FetchFails`, `Apply`,
`MoveStatus`, `FinishRun`, `Release`, and `NeverStarted`, `Cancel`, `Crash` for
interruptions. `Apply` is the one transaction that fences, replaces the snapshot and
inserts the alerts. `RunDecisions` keeps one watched field of one item, which is what
dedupe keys and crossings need; `crossed` stands for the numeric, status and keyword
rules, which share their shape; warnings and no-change reports have the keys of one
local date. A `paused_auth` or `needs_review` verdict leaves `next_run_at` set when the
lease is released, as the code does: the claim looks at the status.

### Outbox

`drain[w]` is the `drain_once` call of a worker: the rows still to do, the row in hand,
the attempt counts read at the claim, and the age of the call's `now`, which the code
reads once and uses for all deadlines it writes; later chunks of a one-shot reuse it
and write leases that are already partly over. The service's worker id
`service-{pid}:outbox` may come back after a restart; a one-shot's id is unique, so its
drain runs once and is `gone`. The target is the action `Accept`: it may accept a
message whose answer is lost (`SendFails` after it). With delivery disabled, `run-once`
uses `NullDeliverySender` and rows are recorded with nothing sent: `waived`. Which due
rows are taken is nondeterministic (the code orders by `available_at`), attempts stop
at `StuckAt` and ages at `Horizon`. `AfterFailure` picks the delay and the report from the
count the drain read at the claim. `Purge` is retention behind the drain.

### ControlPlane

`pending` is the table `pending_actions`; the payload is reduced to the action, the
monitor, the captured status and version, and the candidate. `gone` stands for a
consumed and for a revoked row, which nothing reads again; retention of old rows makes
no difference and is left out. `shown` is what the owner can tap. `queue` is what
Telegram keeps, `batch` what the last poll returned of it and `done` how much of it is
handled, that is the in-memory offset: `ControlCrash` sets it to zero and the next `Poll`
returns everything again. A stop in the middle of a batch behaves like a crash. `PollFails`
is a poll that is refused: Telegram has forgotten what was handled, nothing is returned
(which updates are refused, and what that does to the process, is in `ServiceLoops`). `call`
is the one handler under way, between two awaits: `planning` (an update, with the
monitor as it was read), `proposing` (a new monitor), `receipt` (a consumed token) or
`replying`. Messages (`Ask`) are routed by a language model, hence to any request.
Actions: `PreviewState`, `PreviewRepair`, `BeginUpdate`/`StageUpdate`,
`BeginProposal`/`Propose`, `OfferChoices` issue tokens; `Consume`, `Deny`, `Confirm`,
`ConfirmChoice` use them; `HandlerEnds` is every way to end without a lasting effect, a
refused registry operation included; `SendReply` may fail with the message delivered
or not. `dismiss` is a tap on cancel or on edit. The tokens of `create` and
`select_url` name no monitor. `schedule_change` is handled like `update`.

### Platform

The variables of `MonitorRunner` and `ControlPlane`; `monitors`, `monitor_versions` and
the clock are the ones they share. Each step of a side leaves the other side's own
variables alone, `PlatformTick` moves leases, schedules and tokens together, and
`ProcessDies` takes the runs and the handler of the service at once, or whichever of
the two it had, and only the runs of a one-shot. `RecoveryStores` is all that remains
of an environment. Nothing here is new behaviour: what the module adds is that each
environment is now the other module.

### TelegramUpdates

`Verdict` says of one element of a poll whether it is handled, ignored, or refused, in
the last case with the whole poll. An update is the set of the fields it carries and the
subset of them that break a bound; `Required` and `Optional` are the allow-lists of
the media validators. The updates at the end of the module are what the Bot API sends for
a photo, a location, a GIF and a tap.

### ServiceLoops

`phase` is where `run` is: serving, waiting for the loops after a stop (`quiescing`), the
grace of the runs, their cancellation, the task group's abort after a `ServiceFailure` or
an outer cancellation, and the closing of `Resources` in their order. `at[l]` and
`failures[l]` are a loop and its counter, `run[t]` the task of a run with its shielded
clean-up; two tasks may be runs of one monitor, for `_start_monitor` does not look at the
active ones. The Telegram loop has its batch and offset, so that the parser's refusals
become failed polls; `confirmed` is what Telegram has forgotten. `Crash` and `Start` are
the container's; a `Start` whose webhook preflight fails closes at once.

### Retention, Billing, NightlyJobs

`Retention` counts ages in days up to the longest limit. `message[m][k]` is the outbox row
of an event under its dedupe key, `dated[m][t]` the oldest row of a monitor in another
dated table, `probe` the rows of `rental_duplicate_probe_results`. `Purge` is the whole
transaction, its guard the foreign keys. `Billing` is the sync, one grant after the other:
`RecordAggregate`, then for each alert `ClaimAlert` in its own transaction and `SendAlert`
after it; `SyncFails` is a failure or a crash between any two, with the message through or
not. The burn of the last seven days may or may not use up the balance within thirty: the
`Runway` alert. The daily summary keeps no state and is left out. Usage enters the export at
any time, that from before the baseline included. A `Day` of `NightlyJobs` makes both jobs
due, `Miss` is a service that was down. `Maintain` is the outcome of the night's last try:
the loop repeats a failing transaction after 1, 2, 4 and 8 s and ends the service at the
fifth failure (`ServiceLoops!CountFailure`).

### SourceFetch

`call[c]` is the coroutine of a fetch between two awaits: in the line for a start of its
host, asking for robots.txt, waiting for a profile's lock, at the gate, in the executor, or
asleep between attempts. `line`, `gap` and `hold` are the limiter's lock queue, interval and
not-before of each host, `free` the permits of the gates, `orphans` the executor threads
whose caller has gone, which keep their permits until they end, `opened` the materialized
profiles. All of this belongs to one process. The vault does not: `run-once` and the command
line build a store of their own over it, with their own locks, so `StoreElsewhere` replaces
the stored session at any time; `vault[p]` says whose session is stored, `stale` which open
workspaces are older than it. `Outcome` is everything an answer can come to: a result, a transient failure,
a redirect, the browser fallback. The official adapter and the planner's probe are
calls of kind `http` with other attempts. Robots rules, bodies and archives are outcomes. A
browser child that survives SIGKILL and the join gives its permit back like any other
(`StopChild`) and is not counted.

### CodexWorker and Planning

Time is in seconds: `age` since the call arrived, `left` of the step's own timeout, and the
clock stops for a timer that is due. A run passes the login check, the process, the
stop of the process (stdin, SIGTERM, SIGKILL) and the removal of the workspace; `Cancel` is
a cancellation by `wait_for(run)` or by the handler, which a shielded clean-up survives
once. A killed process is gone (`Kill`), one that ignores SIGTERM is not. A process here is
the leader of its group, the only one `_stop_process` looks at: a child that outlives a
leader which ended by itself is not modelled. `chat` is what the
service does with a message: the call it waits for and the attempt it is at; `GiveUp` is the
client's timeout, `StopService` leaves a handler working for nobody (`cut`). What the model
answers is any result or any failure.

### LegacyMonitor and RentalMigration

`branch` is the database on the data branch, `job.copy` the one the job works on, and only
`Persist` moves one to the other. `baseline` are the notices the first database already
calls delivered, with message id 0, though none was sent; the import accepts them. `told`
counts what the chat got. `Send` may post a message again whose answer was lost, and
`unrecorded` remembers every notice of which an accepted message is in no record: such a
post, a lost answer or lease of the new program's outbox, a job whose record is gone, a row
that retention has dropped. `target` is the new database: what the import writes,
published by a hard link, and, after the cutover, the runs that put alerts into its outbox
(`NewRun`), the drains that send them at least once (`Deliver`) and retention
(`ForgetDelivery`). `results` and `probe` are the comparison rows by
days back. `CutoverReady` is the gate's computation from the rows, `agreed` the history it
is compared with. The operator follows the runbook: the service is not running between
import and cutover, and the legacy schedule is paused when no job runs.

## 4. Runs

| Run | Instance | States | Question |
|---|---|---|---|
| `runner` | 1 monitor, service and one-shot, 2 contents, 3 versions, 2 generations | 38,416 | is the fencing enough, is no change lost, is an active monitor always claimed again, does it implement `MonitorContract`? |
| `runner_overlap` | the service alone, lease much longer than the schedule | | finding, section 6 |
| `outbox` | 2 rows, service and one-shot, a batch of 2, lease of 1 tick, delays of 1 and 2 | 1,324,224 | are late answers harmless, do delays and reports follow the attempts, does it implement `DeliveryContract`? |
| `outbox_live` | 1 row | 7,634 | is every alert settled, every stuck row reported? |
| `control` | 1 monitor, 2 tokens, 3 versions, 2 generations, 2 updates waiting | 195,724 | does every change of a monitor come from one valid approval, is every update handled? |
| `service` | 2 runs, 3 loops, 2 failures end the service, 2 updates, 2 starts | 135,877 | does the process always end when it should, and cleanly? |
| `service_poison` | the same with 1 run, photos and locations | | finding, section 6 |
| `nightly` | 1 monitor with 1 event, 2 tables, 1 grant, limits of 1 and 2 days | 385,332 | is anything deleted too early, told twice, or never forgotten? |
| `retention_probe` | the same | | finding, section 6 |
| `fetch` | 2 calls on 1 host that redirects to another, 1 profile that others store too, 1 permit per gate, 2 attempts | 51,108 | are permits and sessions kept under every timeout and cancellation? |
| `rental` | 1 notice, of the baseline or not, 2 agencies, a streak of 2 days | 1,785,946 | what can the gate, the import and the two programs together announce? |
| `codex` | 2 connections, the code's timeouts, the long ones 100 s shorter, 3 attempts | 2,258,508 | do the nested timeouts keep attempts apart? |

The properties, by run:

* `runner`: `FencedReadsAreCurrent` is the heart: version and snapshot are read outside
  transactions and used minutes later, and the fence (owner and generation, not expiry)
  guarantees that they still hold. `WritesOnlyUnderCurrentRun`, `NoLostChange`,
  `VerdictsAreCurrent`, `SupersededCallsAreHarmless` say what each step may never do; `ImplementsContract` that all of it amounts to indivisible observations.
  `ScheduleMatchesStatus` (a monitor stopped by its owner has neither schedule nor lease;
  an active one has a next run) and `LinearApprovals` (the approved versions are one
  line, although candidates compete) are the registry's, under the operations of the
  operator and of the runs together. `ActiveMonitorIsServed` is liveness.
* `outbox`: `SeenCountIsCurrent` (rows are fenced by worker id alone, and still the count
  read at the claim is the row's), `FailuresEscalateOnTime` (hence the k-th failure waits
  the k-th delay from the start of the drain, and the fifth, neither the fourth nor the
  sixth, is reported), `LateAnswersAreRefused`, `ImplementsDelivery`; `outbox_live`: `EveryAlertIsSettled`,
  `StuckRowsAreReported`.
* `control`: `UpdateOffersAreTheirOwn` (a usable update button names an unapproved
  candidate staged for that very preview), `ImplementsApprovals` (double taps,
  redelivery, expiry, crashes and stale previews included, each change but the parking
  of a monitor by a run is one offered approval used once, exactly as offered) and
  `UpdatesAreHandled` (an update whose handler fails stops neither the next one of its
  batch nor the next batch).
* `service`: `ResourcesOutliveTheirUsers`, `ForgottenOnlyIfHandled`,
  `RepeatedOnlyAfterRestart` (an update comes back to be handled again only in a later
  process; `handled` does not say in which process, so the property is about the first),
  `StopEndsTheService`, `RefusedUpdateEndsTheService`.
* `nightly`: `EventsAreToldOncePerWindow` (the dedupe keys outlive the window in which an
  event may come again), `UndeliveredIsKept`, `AlertsAreToldOnce`, `BackfillIsNeutral`,
  `ForgottenUnlessProbed`.
* `fetch`: `EgressIsBounded`, `NoSessionIsLost` (within the process: an older workspace can
  overwrite only what another process has stored, section 6), `EveryFetchEnds`.
* `rental`: `GateNeedsTheStreak` (the gate's computation over stored rows, reruns and
  missing days included, agrees with what happened), `RepeatsAreExplained` (a repeat needs
  a message without a record, or a legacy job after the import; while every message is
  recorded the change of programs repeats nothing else), `MatchedNoticesWereTold` (but for
  the baseline).
* `codex`: `OneCodexProcess`, `RefusalsAreExcused`.

`MCPlatform.cfg` is an instance of `Platform` to run by hand (1 monitor, the service, 2
symmetric tokens, 2 versions, 2 generations: 854,821 states in about five minutes). It checks
`UnapprovedNeverRuns`, `SidesKeepTheirSpecs`, `StoppedMonitorsAreLeftAlone` and
`ApprovedByTheOwner`, which are all proved; `PROJECT.json` does not list it as a run, because
it asks TLC nothing that `runner`, `control` and the proof of `SidesCompose` leave open.

Every property of a run has a mutant in `PROJECT.json`, a change of a modelled definition under
which TLC finds it violated.

Why the bounds are enough. Operations on one monitor read and write no other one,
except that a tick claims all due monitors in one transaction; the theorems cover
several monitors. Two workers of different kinds cover reclaiming by another process,
and a worker id that meets its own old lease is covered because ids are kept across
crashes. Two generations give a call that is superseded and the one that supersedes it;
three versions two rival candidates. Leases of one or two ticks expire in the middle of
every call. For the outbox two rows give a batch whose second row is lost while the
first is in flight; the delays are two different ones, so that the index moves, sticks, and
is told from its neighbour, and a drain can be as old as the longer. For the control plane
two tokens give a rival pair of buttons; two updates can be in one batch or in two, the
first failing, being handled or redelivered before the second. Two failures stand for the service's five: a counter that moves, is reset, and ends it;
two updates give a handled one before a refused one, two runs one that hangs beside one
that ends; the loops are the one with a batch, the one that starts runs, and one that
fails without being counted. The nightly limits differ, so that
each of the two comparisons with a cutoff is reached from both sides. One permit and two calls make an
orphaned thread block the other call; both share the profile and the host, and another
process's session may come between any two steps. A streak of two
days has an inside and an end, and one notice suffices because every step treats notices
separately; two agencies give a batch that is incomplete without the notice's own. The
Codex timeouts keep their differences, on which the nesting depends. Deadlock checking is
off since generations, tokens, rows and starts are finite in an instance and run out.

Symmetry is used for the rows of `outbox` and the tokens of `MCPlatform`, both without liveness.

## 5. Fairness

* `RunnerFairness` (`MonitorRunner`): weak fairness of each call's next step (each await is bounded
  by a timeout, and cleanup is shielded), of the service's tick (`_scheduler_loop`, every
  15 s) and of time. None for the operator, one-shots, cancellations or crashes, which
  may be as frequent as the bounds allow: generations are finite in an instance, and a
  crash needs a live call.
* `Outbox!Fairness`: weak fairness of time and, for the service, of claiming
  (`_outbox_loop`, every 5 s) and of the drain's steps; strong fairness of the start of a
  send and of a report, which says that crashes do not for ever hit exactly that window.
  The two properties name what they ask of the target as a premise: `TargetAnswers`
  (accepts, and the answer comes in time, again and again) and `TargetRefuses`.
* `ControlFairness` (`ControlPlane`): weak fairness of the handler (every await has a timeout).
  `UpdatesAreHandled` has two premises: `CrashesCease`, since a process that crashes in every
  handler of the same update never passes it, and `PollsSucceed`, which the code does not
  guarantee: one update the parser refuses makes every poll fail (`service_poison`), also
  for what is waiting behind it. Between successful polls any number may be refused.
* `ServiceLoops!Fairness`: weak fairness of each loop's iteration (it ends, well or badly:
  every await has a timeout), of the clean-up of a run (a few statements on a local
  database), of the steps of the shutdown, and of a new start that passes its preflight
  (the container's restart policy). None for the end of a run's fetch, for a signal or
  for a crash: a stop ends the service although runs hang.
* `NightlyJobs!FairSpec`: weak fairness of the day and of the steps of a sync, none of which
  waits without a timeout; strong fairness of maintenance, that is, the service is not down
  at every 03:30.
* `SourceFetch!Fairness`: weak fairness of each call's next step and of time; strong
  fairness of taking a profile's lock, which is polled every 10 ms and free for longer than
  that between two fetches of a host. The end of an abandoned thread is not fair, a call
  does not need it: its own timeout counts the wait for a permit.

`RentalMigration` and `Planning` have no liveness property and no fairness.

## 6. Where the documents and the code differ

Each of these runs stops at the first counterexample TLC finds.

* `runner_overlap` (`OneRunAtATime`). The design says that a monitor is never run twice
  at a time (`platform-design.md:215`). Pause and resume clear the lease of a monitor whose
  run is still fetching and nothing cancels that run: the next tick starts a second one
  beside it. The other properties of `runner` show that this is harmless to the data.
* `service_poison` (`UnsupportedIsPassed`). Unsupported update types are to be ignored and
  the offset advanced (`telegram-codex.md:102`). `telegram/api.py:398` refuses the whole
  poll for one message it cannot place, a shared location for example: the offset
  never passes it, and five polls later the service stops, after every restart again.
* `retention_probe` (`DeletedMonitorsAreForgotten`). A deleted monitor's data goes after 30
  days (`platform-design.md:205`). `maintenance.py:78` deletes the monitor but not the row of
  `rental_duplicate_probe_results` that references it: the nightly transaction is
  rolled back, that night and every later one.

Read in the code while modelling, without a run of their own:

* A crossing that happens a second time (out of stock, in stock, out, in) has the dedupe key
  of the first and is silent until retention drops the first row (`engine/runner.py:511`),
  although an alert is meant to be recorded again after a real crossing (`core.md:1014`).
* A drain looks at a row when it claims it and when it records the answer, not before the
  send (`engine/outbox.py:58`): a batch that outlives the 300 s lease sends rows another worker
  has delivered meanwhile.
* The import refuses a database whose user the service created before
  (`migration/import_rental.py:1695`), and one that was imported from an older source.
* A notice that appears after the import and stays listed fails every duplicate probe.
  The gate accepts a probe of yesterday, so a legacy job after the last probe may
  announce what the new program announces again; that is the second disjunct of
  `RepeatsAreExplained`. The first is a message nobody has a record of: the legacy job was
  killed or its push refused, it posted again after a lost answer
  (`rental_monitor/collectors/base.py:33`), the new program's outbox did, or retention
  dropped the row.
* Deliveries with message id 0 from before the first run are imported as delivered
  (`migration/import_rental.py:995`) although nothing was sent: what they name is never
  announced by either program. They are the exception of `MatchedNoticesWereTold`.
* The locks of a browser profile are those of one process (`scraping/profiles.py:33`). A
  `run-once` or a first login beside the service uses the same vault, and the one that
  closes its workspace last wins, with the older session if it was opened first.
* A billing alert is claimed before it is sent: if the send fails, it is never told
  (`billing/service.py:85`).
* The transaction `retention_probe` is about is tried five times each night, after which the
  failures end the service; it starts again, until the next night.
* An agency that failed for both programs counts as a match.
* Codex answers "busy" at once and does not queue. After a restart of the service an abandoned
  run holds the slot for up to two minutes, in which all three attempts of a message are
  used up; a workspace that takes more than two seconds to remove after a killed process
  frees the slot later than the client gives up. These are the two disjuncts of `Excused`.
* A start of a host is granted before the wait for a permit, so requests may follow each
  other faster than the interval; a Retry-After met by the last attempt is dropped.

## 7. Proofs

The theorems hold for every value of the constants allowed by the named assumptions of the
modules (`RegistryAssumption`, `OneShotAssumption`, `OutboxAssumption`, `ControlAssumption`, `ServiceAssumption`,
`RetentionAssumption`, `BillingAssumption`, `FetchAssumption`, `WorkerAssumption`,
`PlanningAssumption`, `LegacyAssumption`, `MigrationAssumption`), which TLC evaluates in the
runs: model values are distinct from the data they are added to, durations and limits are
numbers of the right sign, and the timeouts of the Codex worker are nested. The bounds of
the instances are constants too; the theorems say nothing of finite instances.

* The registry (`MonitorRunner_proofs`, part 1). `RegistrySafety`. The inductive invariant `RegistryInv` is the
  checked invariants with `LinearApprovals` replaced by a stronger `Lineage`: the
  active version is approved and nothing approved was derived from it, every other row
  has an approved parent before it, and no parent has two approved children. Without the
  second part, approving a candidate of the active version could give a second child. Each
  operation is a lemma over arbitrary parameters, so the modules above reuse the step
  theorem as it is.
* The runner (`MonitorRunner_proofs`, part 2). `RunnerInv` = `RegistryInv`, types, `CallsHaveWorkers` (a live
  call has a worker, and asks for a verdict if it is about to give one) and
  `FencedCallsAreCurrent` (what `FencedReadsAreCurrent` says, for more stages, plus the run
  row that belongs to each). The first is needed because an unowned lease must not pass
  for a call's own; the second because the apply step relies on the row the start step
  wrote and on the status the claim saw. From it: `RunnerTypes`, `RunnerSafety`,
  `ScheduleFollowsStatus`, `LeasesRunOut`, `WritesAreFenced`, `ChangesAreAnnounced`,
  `LateVerdictsAreRefused`, `SupersededCallsWriteNothing` and
  `RunnerImplementsContract` (same variables in the contract; `Apply` is an observation,
  lifecycle operations are theirs, everything else a stutter).
* `Outbox_proofs`. `OutboxInv` = types, `SeenCountIsCurrent`, `DrainedRowsExist`,
  `RowsAreInOnePlace` (a row is to do or in hand, not both) and `AnswersAreReal` (a drain
  that holds an answer holds it for a row that was accepted or waived). The second keeps the
  counts right: a row whose count moves is nowhere else in the batch. The last is what
  the step of `MarkDelivered` needs in the contract. From it: `OutboxTypes`, `OutboxSafety`,
  `LateOutboxAnswersAreRefused`, `OutboxImplementsDelivery`. `FailuresAreEscalated` needs a
  second invariant, `ReportersHaveCause` (a drain that is about to report has a row that
  failed `StuckAt` times, or that retention took away since), and the lemma that a step
  either counts one failure of one row by its owner or counts none.
* The control plane (`Platform_proofs`, part 1). `ControlInv` = `RegistryInv`, types, `ReceiptsAreSpent` (the token of
  a receipt is consumed, so no second receipt can come from it), `PlansNameAMonitor`,
  `CallsServeAnUpdate` (a handler is within its batch), `OffersAreWellFormed` (which status
  each kind of offer captured) and `UpdateOffersAreTheirOwn`. The well-formedness of
  offers gives the status each effect starts from, the uniqueness of update candidates
  keeps one confirmation from approving what another button offers. From it:
  `ControlTypesHold`, `ControlSafety` and `ControlImplementsApprovals`, whose refinement
  mapping makes a token an offer while it can be consumed and its receipt until it is
  used; expiry, a dismissal, a refused operation and a crash are all one abstract `Lapse`.
* The composition (`Platform_proofs`, part 2). `PlatformInv` = `RunnerInv` and `ControlInv`.
  Each is kept by its own side's steps, so the proof is that, from states of both, a
  step of one side is a step of the other one's environment: `RunsUseLeases` (a step of
  the scheduler or of a run is one of the lease operations, or leaves the registry
  alone) and `OwnerSideIsLifecycle` (a receipt or a staged update is an operation on the
  monitor as it is now, which needs the well-formed offers). From it: `SidesCompose`,
  `PlatformKeepsItsContracts` (both abstract specifications at once), and three statements
  neither side could make alone: `StoppedMonitorsStayStopped`, `OnlyApprovedVersionsRun`
  (the fence keeps a call on the active version, the lineage keeps that one approved) and
  `ApprovalsAreTheOwners`.
* `ServiceLoops_proofs`. `ServiceInv` = types, `LoopsEndBeforeRuns` (from the grace on the loops
  have ended, from the closing on the runs too), `CountersHaveRoom` (while serving every
  counter is below its limit, without which one more failure would leave the type) and
  `OffsetFollowsHandled` (what is below the offset is handled, and what is below an update of the
  batch is handled or in the batch). The property about forgetting says nothing of the
  offset, which only the next poll confirms, so it is not inductive by itself. `FirstProcess`
  adds that the offset is above all that was handled and not above the batch: `ServiceTypes`,
  `ResourcesOutlive`, `NothingForgottenUnhandled`, `HandledOnce`. The second half of it holds
  in every process and says that the loop's own check (`service.py:272`, "invalid Telegram
  update sequence") is not reached while Telegram honours the offset; this is why
  `HandlerEnds` has no branch for it.
* `NightlyJobs_proofs`. For billing, `SyncInv` = types, `SyncHasGrant`, `ToldIsClaimed` (an
  alert that was told is claimed, and one being sent was not told before) and the balance
  itself: `AlertsOnce`, `BaselineHolds`. For retention, `RowInv` = types and
  `KeysOutliveTheWindow` (a free key was never delivered, or longer ago than the window, or its
  monitor is gone, and a delivered row is as old as the delivery): `OncePerWindow`, `UndeliveredStays`.
* `SourceFetch_proofs`. `FetchInv` = types, `PermitsAreOut` (a permit is out for every call
  in a gate and for every abandoned thread, counted with finite cardinalities),
  `LocksAreForBrowsers` and `WorkspacesAreExclusive` (this process has one open workspace per
  profile, so what it stores makes no other one stale, and under a stale one lies another
  process's session): `PermitsAreKept`, `SessionsAreKept`.
* `Planning_proofs`. `PlanningInv` = `WorkerInv`, `ChatTypes`, `SlotIsAwaited`. `WorkerInv`
  bounds, stage by stage, the age at which a run can be there (`Timely`), from which it
  follows that the second cancellation never finds a process alive: that is where
  `Run + 3 * Stop <= Handler` is used, and where a shorter handler timeout would leave a
  process behind. `SlotIsAwaited` says that the slot's holder is the call the chat waits for,
  or excused. From it: `PlanningTypes`, `CodexIsSingle`, `AttemptsDoNotCollide`.
* `RentalMigration_proofs`. `RentalInv` = types, `JobIsClean`, `RecordsAreTrue` (what the
  branch and the job record as delivered was told or is of the baseline, and so is all an
  authoritative run saw), `NothingIsForgotten` (a notice that was told, all of it on record,
  is recorded on the branch, in the job, or in the new database; the outbox owes no
  notice that was told, unless a legacy job told it after the import), `StreakIsKept` (the stored results agree with
  the history of matches) and `MatchedNoticesWereTold`: `RentalTypes`, `TheGateNeedsTheStreak`,
  `MatchesWereTold`, `OnlyExplainedRepeats`.

Only model-checked: the liveness properties (`ActiveMonitorIsServed`,
`EveryAlertIsSettled`, `StuckRowsAreReported`, `UpdatesAreHandled`, `StopEndsTheService`,
`RefusedUpdateEndsTheService`, `ForgottenUnlessProbed`, `EveryFetchEnds`), which rest on
fairness and are outside what the proof system handles. Every invariant and action property
of a passing run is stated by a theorem.

## 8. What is not modelled

* Parsing of pages and documents, rendering of messages, cryptography, address and URL
  rules, sanitising, secret scanning, schema checks of what Codex answers, the BigQuery
  protocol, archive extraction and profile digests, log redaction: functions of data that
  keep no state. Where they decide something, the models take either outcome.
* `scraping/recovery.py` (`AdaptiveRecovery`): nothing in `src` constructs it; the registry
  half of storing a repair candidate is in `MonitorRegistry`. In the service's wiring the
  stealthy strategy is never reached either. A profile's first login, made by the command
  line, is only the session it stores (`SourceFetch!StoreElsewhere`).
* Users, delivery targets, URL aliases and diagnostics of the registry, and its older
  operations without a caller.
* The receipt table of the control plane (claim and dismissal in one process), payload
  hashes, read-only replies, unauthorised senders: they end like a refused handler.
* The legacy job's field edits of a notice, dry runs, a rollback by hand, the
  routing of old chat ids, and the import beside a running service, which the
  runbook excludes.
* The legacy collectors (parsing of three sites) and the shell scripts for backup, restore
  and deployment: run by hand or by cron, with nothing of the program's state in common
  but the copied database. `persist_data_snapshot.sh`, which the legacy job depends on, is
  `LegacyMonitor!Persist`.

`PROJECT.json` gives each component's reason; section 3 says what is abstracted in the
components that are modelled.

## 9. Plan

Done, in this order: registry, runner with decisions and contract, outbox with contract,
control plane with contract; service loops with the parser of updates; retention and
billing with the daily schedule; legacy job and migration; source fetches; Codex worker and
planning; then the proofs, and the composition of runner and control plane. Every
component has proofs.

What is left, the most useful first:

* runner and outbox over one table of alerts, as `Platform` does it for runner and control
  plane: that what the runner enqueued is what the worker claims, and nothing else;
* `RunDecisions` over several items and rules, against a reference definition of the diff;
* the fetches of two processes over one vault, limiter and gates of each included, instead
  of the one action by which the other process's session arrives;
* the import beside a running service, to say what the runbook's order protects from;
* backup and restore, as a second writer of the database file.
