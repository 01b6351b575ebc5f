# Finance Radar: a TLA+ verification project

Finance Radar collects public financial disclosures into an append-only SQLite
*event ledger* (`app/storage/ledger.py`), lets models and people interpret them,
and serves the result through an API and a web page. Beside the ledger sits a
second SQLite database, the *operations database* (`app/storage/operations.py`),
which holds every queue, lease, budget and run record. API threads, workers
started by systemd and operator scripts work on both databases at the same time.
A method of a repository class is one `BEGIN IMMEDIATE` transaction; nothing spans
two methods, two processes or the two databases. That is where the system is hard
to test, and that is what these modules are about.

The conventions of all modules:

* One repository method is one action, because it is one transaction. What a
  process remembers *between* two transactions is in its own record (`runner`,
  `request`, `worker`, `deliverer`, `recon`) and may be stale when it is used.
* The clock counts in small ticks; leases, back-offs, ages and days are constants
  of the model. A deadline has passed exactly when the code's comparison says so.
* Operators with `\* a fault` beside them are no part of the model: each is a
  plausible bug of the definition it stands next to. A property is only kept if
  putting one such fault into its place violates it.
* Every module states a type invariant `TypeOK`. They and five more properties
  (`ConfirmedIsCommitted`, `AbandonedIsUncommitted`, `ConclusionsAdded`,
  `OnlyOwnersRelease`, `LabelsFixed`) are proved for all constants and not repeated in the runs,
  but for the `TypeOK` of `QwenRiskQueue`, which says that its list is bounded.
* `Lists.tla` has what several modules do with a JSON list or a column: a list
  comprehension (`AtPositions`), `list.pop` (`Without`) and a sum (`Total`). Like
  every other recursion here, `Total` is a recursive function and no `RECURSIVE`
  operator, so that it can be proved about.
* Constants named `Max...` bound the exploration. They are guards of the actions
  that would exceed them, and each is listed below with the reason it is enough.

## Inventory

| Component | State | Operations | What is hard | What makes it correct |
|---|---|---|---|---|
| Capture-interpretation queue (`operations.py`, `api/main.py`, `run_capture_interpretation_*.py`) | `capture_interpretation_runs`, `..._attempts`, the public list in `runtime_state` | request, prioritise, select, bind to the current input, replace or fail stale rows, claim, complete, fail | leases expiring under live calls, late answers, budgets claimed concurrently around midnight, inputs revised between two transactions | one open attempt per lease, bounded attempts, budgets with a reader's reserve, every job ends |
| Formal mutations (`light_verification.py`, `light_verify.py`) | `formal_mutation_audits`, verified versions in the ledger, follow-up jobs | evaluate, prepare, apply, confirm, abandon, reconcile | two databases without a common transaction, crash in between, concurrent batches of one contract | every conclusion has its audit, audits tell the truth, batch and daily limits |
| Qwen risk queue (`qwen_risk_worker.py`) | priority list and activities in `runtime_state`, `model_runs` | request, expire, claim, schedule a retry, background scan, record | two lanes and an eviction, batches and readers rewriting the same two JSON values | whoever waits has an entry, ready means recorded, readers are served |
| Telegram outbox (`telegram_alert_outbox.py`, `notifier.py`) | `alert_outbox`, `alert_delivery_leases`, `alert_delivery_attempts`; the chat | enqueue, expire, deliver or edit under a lease, record, clean up duplicates | an external side effect whose answer may be lost, rows read long before they are sent | no two deliveries at a time, messages on record, nothing wanted is deleted, no row stays open |
| Live cycle (`run_live_cycle.py`, `continuous.py`) | the row `live_cycle` of `runtime_leases`, `worker_cycles`, the report file, child processes | acquire, heartbeat, run stages, report, release; start, watch, kill, judge | the heartbeat only sets a flag that is read later; a killed child; cycles started by hand; `systemctl stop` | a supervised cycle works only under its own lease, no lease outlives its process without a fault, a row is judged by its own report, cycles resume |
| Backup runs (`ops/backup.py`, `backup_scheduler.py`, `operations.py`) | `backup_runs`, guard and owner file, staging and published bundles | lock, reconcile, capture, drill, publish, record, prune | owner files of dead processes, a death between any two steps, deletions that break off, misleading file times | one backup at a time, a proved bundle stays, a failed run stays failed, every record is closed |
| Human adjudication (`operations.py`, `adjudication.py`, `risk_label_contract.py`, `freeze_human_blind_v3.py`) | samples, reviews, freezes; dataset files, manifests, the authorization file | review, arbitrate, select, write, prepare, commit, complete | the selection is made long before the commit, files and database are two stores, freezes run concurrently | independent labels that do not change, a frozen set that says what the reviews say, manifest and database agree in the end |
| Market observation (`observe_live_event_markets.py`, `run_market_cycle.py`) | `market_jobs`, `market_bars`, `market_snapshots`, `event_market_metrics` | schedule, retarget, look up or call, store, derive returns | revised events, moved windows, calls, quotas and deaths under an open write transaction, runs that overlap | prices and jobs agree, returns are between prices of one version, due jobs are settled |
| Event ledger (`ledger.py`) | canonical events, versions, evidence, pipeline jobs | ingest, supersede, revise | revision identities | append-only history |
| Admission, fact review, quality recovery | review rows over the ledger | propose, admit, recover | proposals that were made on an older version | only current proposals are applied |
| Human gold review | drafts, frozen set | import, freeze | content identity | a frozen set is what was reviewed |
| API snapshots (`api/snapshot.py`) | in-memory cache | read, refresh | background refresh against reads | no torn snapshot |
| Evidence policy, content store, web, deployment, training | none, or pure I/O | | | left out |

How they interact: everything shares the two databases and nothing else. The API
enqueues into the capture and Qwen queues and reads their state back; the workers
read the ledger, then act in the operations database, and write to the ledger only
through the formal mutations; every backup reconciles the formal audits before it
copies; the live cycle ingests, light-verifies, enqueues and delivers alerts; the
market cycle reads the ledger's events and writes its own tables there. The ledger therefore appears in each module as what *others* do to it: an action that
gives an event or a capture a new version, other evidence or another gate.

`PROJECT.json` has the list of components with their status, the map from
definitions to source lines, and every hazard with the properties that cover it.

## CaptureQueue

`CaptureQueue.tla`; `MCCaptureQueue.tla` adds the symmetry that the budget run
uses.

| State | Code |
|---|---|
| `ledger[o]` | the exact input identity of a capture (event version, input hash) and whether its eligibility gate is open |
| `job[<<o, v>>]` | the row of `capture_interpretation_runs`: status, attempts, `available_at`, lease token and expiry, error |
| `attempts` | the rows of `capture_interpretation_attempts`; the index is the id and stands for the lease token |
| `priority` | the public list |
| `runner[r]` | an execution of `run_capture_interpretation_worker.py` with the single-job runner it calls |
| `request[q]` | an API handler between its three transactions |

The actions follow the code from the request to the outcome: `RequestRead`,
`RequestEnqueue`, `RequestPrioritise`, `RequestRejectFull` (`api/main.py`);
`SelectPriority`, `SelectPending`, `SelectInventory`, `CheckInput`,
`ReplaceStale`, `FailStale` (the worker); `ReadContext`, `RunnerEnqueue`, `Claim`,
`Complete`, `CompletionRefused`, `ProviderFails`, `FailClaimed` (the runner);
`Crash`, `RequestAborts`, `Tick`, `Revise`, `MoveGate`. A claim reads the clock
twice before its transaction begins, so its lease may begin on one day and its
budget be counted on the next: `Claim` chooses both times.

Abstractions: an input is a version number; the interpretation is left out; a
call's cost is a small number, with 0 for "not reported"; `SelectPending` may
choose any ready row (the code's order only narrows it).

| Run | Question | Bounds |
|---|---|---|
| `capture_lease` | two runners, a request, a crash and expiring leases over one job: `LeaseConsistent`, `AttemptsBounded`, and under fairness `EveryJobSettles`, `EveryEntryLeaves` | a lease of one tick on a clock of two lets a call lose its lease, another be claimed and both answer; two attempts are the smallest limit with a retry |
| `capture_budget` | requests, revisions, a closing gate and a list of one place, with public and background claims over two days: `PriorityWellFormed`, `SameDayCaps`, `ReaderReserveKept` | one capture with two versions gives two identities for the one place, so the list is full, refuses, prunes and has its stale entry replaced; a cap of three requests with a reserve of one and a ceiling of five with calls of two, which may report nothing, one or three, so that each limit is met by some order of claims; `MaxTime` 2 with days of two ticks is the first tick of the second day |

Claims are single transactions, so what concurrent workers could do to a budget
shows in the order of the claims of one; concurrent claims of one job are the
subject of `capture_lease`.

Fairness (`FairSpec`): the worker's timer has `OnUnitInactiveSec=10s`, so an
execution always starts again; each provider call has a timeout of 45 s, so it
ends; and every invocation begins with the public list, which is the strong
fairness of `SelectPriority` (an execution is idle again and again, and each time
could take a row from elsewhere instead). Nothing is assumed of readers or of the
ledger.

## FormalMutation

`FormalMutation.tla`; `MCFormalMutation.tla` adds the symmetry of events, executions
and batches that `formal_race` uses. `AuditedLedger.tla` is what the two databases promise together:
one ledger in which a mutation is intended, then concluded with exactly that
content or abandoned, and confirmed only when concluded. `FormalMutation`
instantiates it as `Audited` and states `ImplementsAuditedLedger`.

| State | Code |
|---|---|
| `event[e]` | `canonical_events`: version, evidence fingerprint, rough review, candidate status, and the follow-up job's receipt |
| `formal[<<e, v>>]` | the verified `event_versions` written by `apply_event`: the audited content and the UTC day |
| `audit[<<e, v>>]` | `formal_mutation_audits`, one row for an event and version |
| `runner[r]` | an execution of `light_verify.py --apply` with its contract's scope |
| `recon` | `reconcile_light_verification_mutations` between its three reads and writes |
| `measured` | latencies seen so far: the audited content covers `latency_ms` |

`Start`, `Evaluate`, `Prepare`, `Apply`, `FollowUp`, `ApplyRefused`, `Confirm`,
`ConfirmFails`, `Abandon`, `Crash` are one execution; `ReconcileRead`,
`ReconcilePending`, `ReconcileConfirm`, `ReconcileConflict`, `ReconcileCrash` the
reconciliation; `NextDay`, `EvidenceArrives`, `RoughReview`, `Revise` the rest of
the system.

Abstractions: the text gates of `evaluate_event` are `Supports`; the event and its
evidence are read in one step; `ApplyRefused` may happen at any time (an expired
contract, a locked ledger); a failing abandon is a crash; when the set of
`Latencies` is used up no further evaluation happens, unless `MayCoincide` lets
two measure the same. Left out: the payload of a follow-up job, the log of
attempts, the back-fill of version-1 audits, and `record_light_verification`,
which is kept for compatibility only. A reconciliation takes the 500 oldest
prepared audits (`operations.py:3407`) and the model all: audits that can never be
confirmed, once there are as many, would keep it from the rest, and
`EveryConclusionAudited` is about fewer.

| Run | Question | Bounds |
|---|---|---|
| `formal_race` | two executions of two batches over two events, on two days, with coinciding evaluations: `OneConclusion`, `LimitsKept` | limits of one with two events in scope are the smallest where concurrent executions compete for the last place; no crashes, which the next run has |
| `formal_recovery` | a crash at any step, two revisions, a retry and a reconciliation: `RecoveryNeverConflicts`, the refinement `ImplementsAuditedLedger`, and under fairness `EveryConclusionAudited` | one event (audits of different events share nothing but the limits), three versions so that a conclusion can be followed by a revision and reopened, evaluations that never coincide |

Fairness: only the reconciliation is fair, because every scheduled backup runs it
first and backups are started daily by a timer; the bridge backups before a
deployment, which skip it, come in between and are not modelled here. Executions may stop anywhere, for ever.

`RecoveryNeverConflicts` and `AbandonedIsUncommitted` hold only while no two
evaluations of one event and version measure the same latency: with
`MayCoincide = TRUE` a retry can meet the *abandoned* audit of its very content,
commit the ledger under it, and leave the reconciliation a conflict. The run and
the theorems name that assumption; `OneConclusion` and the limits need none.

## QwenRiskQueue

`QwenRiskQueue.tla` on `Lists.tla`; no symmetry, since a liveness property is
checked.

| State | Code |
|---|---|
| `queue` | `qwen_risk_priority_queue_v1`: input, class, requested and available times |
| `activity` | `qwen_risk_activity_v1`, newest first |
| `runs` | inputs with a stored result (`record_model_run_once`) |
| `current` | inputs that still match their event |
| `worker[w]` | one `run_qwen_risk_batch`: the input in hand, what it has scheduled, its slots, its background candidates |

`Request` is `enqueue_qwen_risk_priority` with the expiry, promotion and eviction
it performs (the API's precheck is folded into its guard); `Claim` is
`claim_qwen_risk_priority` with its expiry; `ScheduleRetry` is shared by
`PrepareFails` and `Fails`. `Shown` is what `qwen_risk_activity` tells a reader.

Abstractions: the scan may find any subset of the idle inputs (its window and
cursor choose one); a batch makes one call at a time, as deployed
(`--concurrency 1`); a failure to write a failure is left out, and so is the
content of an assessment. Failures are counted up to `TopAttempts`: from there on
no retry is scheduled and the back-off, doubled each time, has reached its cap
(`TopAttemptsAssumption`), so more of them are not told apart. `Asked`, `Scanned`
and `Revised` say which inputs readers ask for, which the scan's windows hold and
which may be superseded; the theorems hold for any of them.

| Run | Question | Bounds |
|---|---|---|
| `qwen_readers` | two readers, automatic retries and the background scan compete for a list of two, with expiry, a revision, failures at every step and a crash: `TypeOK`, `OneEntryEach`, `QueuedKeepsTask`, `ReadyIsRecorded`, `ReadersServed` | three inputs and two places: entries of both lanes stand side by side, change places when one is promoted, and a full list evicts; one input is asked for and scanned, so that its retry may meet a reader's entry; two attempts are one more than are retried; a clock of three, in which an entry expires; one call in a batch, or the states are too many: the slot that a longer batch reserves for the fair scan has its turn with two inputs and `RunLimit = 2`, where the five hold as well (0.3 million states) |

`QueuedKeepsTask` is an action property: no step (another reader's eviction, a
claim, an expiry, a retry) leaves an input queued without its entry, unless it had
no unexpired entry before. The promise as the change log words it,
`QueuedHasTask`, is false and stands at the end of the module (see Findings).

`ReadersServed` rests on the order of the list: with the newest entry of a lane
first (`ChosenNewest`), two readers are enough to starve one of them.

`ActivityMax` covers all inputs in this run, as the deployed list of 256 activities
covers a priority list of 128. The theorems hold for shorter lists too.

Fairness: the worker's timer is `OnCalendar` every 15 seconds, whatever came of
the last batch, a model call times out after 30 s, and a scan passes each event
once, so a batch in progress goes on and another begins. Some step that changes what
a worker remembers is possible in every state; so `FairSpec` says without `ENABLED`
that such a step is taken again and again, which TLC evaluates faster. Nothing is
assumed of readers.

## TelegramOutbox

`TelegramOutbox.tla`.

| State | Code |
|---|---|
| `outbox` | `alert_outbox` in the order of `created_at`; a row is a verified version of an event |
| `lease[r]` | `alert_delivery_leases` |
| `sent` | `alert_delivery_attempts` that carry a message |
| `chat`, `deleted` | what Telegram has posted and deleted |
| `deliverer[d]` | one `deliver_pending`: the rows it has read, the row in hand, the message it edits or has posted |
| `cleanup` | `cleanup_duplicate_deliveries`: what it has yet to delete, and what it has tried |

`Enqueue`, `Expire`, `Start`, `Acquire`, `Post`, `RecordSent`, `RecordError`,
`Release`, `Crash`, `CleanupStart`, `CleanupDelete`, `Tick`. A call is with
Telegram in `Post`, and known to the database only in `RecordSent`; in between it
can fail, its answer be lost, or the process stop. `Tick` keeps each execution within
`CallTicks` from lease to record, since the client's timeout of 15 s and the
ledger's lock wait of at most 60 s stay below the lease of 120 s
(`DurationsAssumption`).

Abstractions: an alert's text and its refresh are left out, and so are the
operational test message and the choice of events; `Acquire` joins the lease's
commit with the read of the earlier message, which no other process can tell
apart from one step; one cleanup runs at a time. Deadlock is not checked: an outbox
without open rows really stops.

| Run | Question | Bounds |
|---|---|---|
| `telegram_delivery` | two executions and a cleanup over two versions of one event: `OneDeliveryAtATime`, `MessagesOnRecord`, `CleanupKeepsUnshared`, `EveryAlertSettles` | two rows of one event are the first with an edit; one lost answer or crash; two messages in the chat, so a version can be posted twice; the clock lets every row grow old |
| `telegram_cleanup` (violated) | `CleanupKeepsSent` | no fault at all |

Fairness: the live cycle runs every 300 s and expires rows first; a started
execution goes on, since every call returns within its timeout. No execution has
to start. `EveryAlertSettles` says that a row does not stay open, and no more: a
call that fails late sets RETRY over a row that another process has sent or
expired, so "settled for good" would be false.

## LiveCycle

`LiveCycle.tla`; no symmetry, since liveness properties are checked.

| State | Code |
|---|---|
| `lease` | the row `live_cycle` of `runtime_leases`: the token that holds it and the time it has left |
| `proc[t]` | one process of `run_live_cycle.py`; a token is its `uuid4` |
| `beating`, `lost` | its heartbeat thread, and the flag the thread sets when the row has another token |
| `report` | `reports/live_cycle_latest.json`: who wrote it last, and how far that cycle was |
| `sup`, `age` | the loop of `continuous.py`: its child, the child's exit code and age |
| `row` | the newest row of `worker_cycles` |

A cycle is `AcquireCycleLease` or `LeaseHeldElsewhere`, `Checkpoint` for its stages,
`ReturnFromCycle` or `RaiseInCycle`, `ReleaseCycleLease`, `WriteFinalReport`, with
`RenewCycleLease` beside it. The supervisor is `StartWorkerCycle`, `SpawnChild`,
`KillTimedOutChild`, `ReleaseOwnedCycleLease`, `FinishWorkerCycle`; around them are
`TerminateUnit` (`systemctl stop` signals the child too, which has no handler),
`KillUnit`, `StartUnit`, cycles started by hand, and three steps that may fail.

Abstractions: time is what is left of the lease and the age of the child, so a
heartbeat restores a number instead of adding to a clock; what a stage collects is
left out, its checkpoint is not; a token is used again once nothing carries it.

| Run | Question | Bounds |
|---|---|---|
| `live_cycle` | a supervisor and a cycle started by hand: `SupervisedOwnsLease`, `NoOrphanLease`, `ReportIsCurrent`, and under fairness `CyclesResume` | two tokens for children, so that one may still hold the lease when the next child starts; lease 4, timeout 2, kill before 4: the smallest with a heartbeat between timeout and expiry and a kill that comes late; two faults, so that a release fails and the unit is stopped |

Nothing in `SupervisedOwnsLease` rests on the heartbeat: `cycle_lease_ttl_seconds`
makes the lease twice as long as the outer timeout, so a supervised child is dead
before its first lease runs out. A cycle started by hand has no such bound, and
after its lease was taken it goes on until its end; the property names the
supervised ones only.

Fairness: the loop's sleep is bounded, its calls and the cycle's have timeouts, and
systemd or the backup wrapper starts the unit again. Acquiring has strong fairness:
a start takes seconds of the minutes a child has, so it is not always too slow.
Starting a cycle by hand, a heartbeat and an exception are never assumed.

## BackupRuns

`BackupRuns.tla`.

| State | Code |
|---|---|
| `guard` | the kernel lock (`flock`) on the guard file; it goes with its process |
| `owner` | the owner file below it, which does not; `taken`: the process number in it belongs to another process, or still to its own, although its run is over |
| `run[b]` | one `create_and_verify`: its step, whether it is a deployment's bridge, its bundle and row |
| `rows` | `backup_runs` |
| `disk`, `torn`, `staging` | bundles with a manifest, those of them a broken-off deletion has left, `.partial` directories |

`TakeGuard`, `CreateOwnerFile`, `JudgeOwnerFile`, `ReclaimOwnerFile`, `Reconcile`,
`Capture`, `Publish`, `CreateBackupRun`, `FinishBackupRun`, `Prune`,
`WeeklySnapshot`, `LeaveLocks` are a run that goes well; `StepFails`,
`PruneBreaksOff`, `RecordFailure`, `FailBackupRun` the handler, whose own writes may
fail too; `Crash` ends a process at any step and leaves file, row and staging
behind, and a run may also fail to unlink its owner file (`LeaveLocks`, whose error
the code swallows).

`_pid_is_alive` takes whoever has the number in an owner file for its owner, the
asking process itself included. So a file that is left behind (`Orphan`) has its
number in use or not, and `NumberChangesHands` may free it or give it to a process
by chance. It stays in use while the daemon lives whose run failed to unlink it, and
for ever in the container of `deployment/compose.yml`, where `backup_scheduler` is
process 1 and is process 1 again after a restart: there a run that dies leaves a
file that is never reclaimed, no backup begins any more until somebody removes the
file, and its record stays `RUNNING`. Under systemd each run is a process of its
own, with a fresh number. `RunsClosed` states what the code does in all of these:
every record is closed in the end, or in the end the file of a run that is over is
judged alive for ever (`Misjudged`), and nothing but that prevents it.

Abstractions: a bundle is the number of its capture; whether its isolated restore
passes is `Publish` or `StepFails`; retention may keep any bundles beside the one
just proved, since the order of file times is not trusted. That the formal
reconciliation runs here is modelled in `FormalMutation`.

| Run | Question | Bounds |
|---|---|---|
| `backup_runs` | two processes, timer or bridge: `OneBackupAtATime`, `KnownGoodKept`, `FailedIsFinal`, and under fairness `RunsClosed` | three captures with two bundles kept is the first deletion; an owner file is stale after one tick; three faults, so that a run dies, the next is disturbed while it cleans up, and a deletion breaks off; the deployment keeps one bundle, and the theorem any number |

`NoCaptureLeft` and `MaxBundles` bound a behaviour, and a row costs a capture or a
fault.

Fairness: a process goes on until it dies; the daily timer starts normal backups
again and again, and not always while a bridge is running (strong fairness of
`TakeGuard(b, FALSE)`). `RunsClosed` needs it: a row whose process died is closed by
a later run, after that has got past the dead owner's file. That a number in use is
ever freed is not assumed.

## Adjudication

`Adjudication.tla`; `MCAdjudication.tla` gives the instance. `FrozenSets.tla` is what
desk and script promise together, as if there were one store: a sample gets one
verdict, for good, and a blind set is frozen in one step, from the verdicts as
they stand and without a sample that is frozen already. `Adjudication` instantiates
it as `Blind`, where a verdict is what two people judged, and a third one exactly
if they differ (`FinalReviews`), and a set is blind when it meets the quotas, has
enough sources and a new one among them, and holds nothing exposed, provisional
or overlapping (`IsBlindSet`).

| State | Code |
|---|---|
| `status`, `reviews`, `frozenBy` | `adjudication_samples` and `adjudication_reviews` |
| `freezes` | `adjudication_freezes`: the rows frozen, and the authorization that did it |
| `files`, `manifest` | dataset and manifest files of the output directory, named by the freeze id |
| `approval` | the authorization file: what it binds, its number, which numbers have expired |
| `freezer[p]` | one `freeze_human_blind_v3.py`: the candidate it carries |

`CreateSample` and `RecordReview` are the desk. `Label` is the contract of
`risk_label_contract.py`; `Candidates` is `pre_freeze_report` and
`build_freeze_candidate` with its greedy selection (label after label, the sources
in turn, each taking its first row without overlap). The script is `Build`,
`WriteDataset`, `DryRun` or `Prepare`, `Commit` or `Refused`, `Complete`; around it
are `Crash`, `Approve` (the operator fills in the authorization) and `Expire`.

Abstractions: a freeze id is the hash of the rows, here the rows themselves, a
function from samples to reviews; overlap, exposure and source are constants;
one output directory. An authorization is its number: a renewed one binds the same
rows under another number.

| Run | Question | Bounds |
|---|---|---|
| `adjudication_retry` | one freeze process that dies between any two writes: `Independent`, `NoOverlapFrozen`, and under fairness `RetryReconciles` | three samples, two of them overlapping, from two sources, with a quota of two risk labels: the greedy choice has to pass over a row; two reviewers and an arbiter, judgements that label a sample a risk or not; two authorizations, so one is renewed; one crash |
| `adjudication_race` | two freeze processes, dry runs and applies, while the samples are reviewed: `FreezeIsSound`, `ManifestNeverAhead`, the refinement `ImplementsFrozenSets` | as above; the reviewers, and the processes, are interchangeable |

Deadlock is not checked: once everything is reviewed and frozen and the
authorizations have expired, the work is over.

Fairness: a process goes on until it dies, and the operator runs the freeze again.
Nobody has to review or approve. `RetryReconciles` says what running it again can
do: the manifest of a freeze is completed unless its authorization has expired or
been replaced, or later reviews make the script select another set (`Outdated`).

## MarketWindows

`MarketWindows.tla`; `MCMarketWindows.tla` gives the instance.

| State | Code |
|---|---|
| `version`, `edition` | the event's current version; which plan (anchor and exchange calendar) holds |
| `job[<<v, w>>]` | the row of `market_jobs` of a version and a window, with the `window_contract_version` of its link and whether `last_error` is a former release's HTTP 429 or 404 |
| `anchored` | the versions whose row of `market_event_anchors` is `EXACT` |
| `bars` | `market_bars` that are committed |
| `snapshots`, `metrics` | `market_snapshots`; `event_market_metrics` |
| `writer` | the run whose transaction holds SQLite's write lock |
| `run[p]` | one `run_market_cycle`: the event as it read it, rows to look up, answers, calls left, bars not yet committed |

A run is `Begin` (cancel jobs of superseded versions), `ReadEvent`, `ScheduleJobs`,
`RepairLegacy`, `CancelAgain`, `SelectDue`; then, row by row, `UseCache`, `Defer`, `Fetched`,
`RateLimited` or `Refused`, or `SymbolRefused` for all; then `EndLookup`,
`PersistQuotes`, `ReadSnapshots`, `RecordMetrics`. The transaction that the first
fetched bar opens stays open over the remaining calls: `writer` keeps other runs
from writing meanwhile, and `Crash` loses what was staged, or is a run that has
waited too long for the lock. The systemd service takes a lock file without
waiting, so the timer's runs exclude each other; an overlap takes a run started by
hand, which is a process of its own here. The supervised live cycle does not
observe markets in this deployment (`FINANCE_RADAR_MARKET_CYCLE_EXTERNAL=1`).

A row that is closed may be asked for again in three ways, all of them in the
model. A baseline without a price is, when its minute has moved or when its row was
made under another window contract (`Retargetable`). `repair_legacy_provider_outcomes`,
which every run calls first (`RepairLegacy`), gives back an attempt to a row that a
former release failed for an HTTP 429, and closes those it left open for a 404. This
release writes neither error: a 429 defers, a 400 or 404 is permanent. So such rows
are in the first state only (`Formers`): anything a former release may have left
without storing a price (`LeftOver`), under the same limit of attempts.

`upsert_horizon_metrics` asks for an `EXACT` anchor and skips a pair of which a price
is no number, or the baseline's is zero (`anchored`, `Computable`). The anchor of an
event dated by the day may be lost when its evidence changes; one dated by a time is
frozen (`_upsert_anchor`). That both links name the same anchor holds by
construction, for its id is the hash of event and version.

Abstractions: one event with one asset, for others share only the calls of a run,
so that nothing is said of which event newest-first order may starve; a plan says
whether the anchor is exact, which windows have which minute, and which minutes are
traded; a snapshot's price is that of its minute (`Price`), which no line checks;
the providers of latest prices and MISSED_WINDOW are left out. A provider's key is
there: without one a run defers its rows for ever. `DueSettle` says that the rows are
settled, and nothing of how long the write lock is held for it. `MetricsGrounded`
compares versions: a baseline whose minute was moved while a run had its answer is
completed with the price of the former minute, and a return may be worked out of it.

| Run | Question | Bounds |
|---|---|---|
| `market_windows` | the timer's run and one started by hand: `OutcomeRecorded`, `MetricsGrounded`, `ClosedStaysClosed`, and under fairness `DueSettle`, `ReturnsFollow` | the baseline and one later window, the smallest with a return; two versions; three plans, of which the first is replaced by one that moves the baseline to a minute that is not traded and has the price zero, or by one without an exact anchor; two tables of rows of former releases, one with a closed baseline under another contract and a 429, one with a 404; one call in a run, so that jobs are left over; two attempts, the smallest limit with a retry; one death |

Fairness: the timer has `OnUnitInactiveSec=60s`; a call ends in 30 s; a busy ledger
is free again in the end, since the longest transaction is a few calls, and so is a
quota: hence the strong fairness of the timer's steps and of an answer that is no
quota. A run started by hand goes on once it is started.

## Findings

One run ends with a counterexample.

1. `telegram_cleanup`: the cleanup deletes "superseded duplicate" messages
   (`telegram_alert_outbox.py:442`), but compares a message only with its own row
   (`:391`), while an edited message belongs to two. With three versions of an
   event in the outbox every message of the event can be deleted; the passing
   run states the part that holds, `CleanupKeepsUnshared`.

Other places where the code does less than a text of the repository says. The
models have the behaviour, no property forbids it:

* A superseded capture identity "never becomes claimable again"
  (`operations.py:1742`), but a request that read its input before the revision
  reopens it (`operations.py:1647`).
* "Terminal failures are not selected or retried"
  (`run_capture_interpretation_worker.py:182`), but a row failed under a lease
  keeps its token, and the call that is out returns it to PENDING
  (`operations.py:2452`).
* "Retries must resolve to the same identity" (`operations.py:3021`), but the
  audited payload contains the measured latency (`light_verification.py:472`), so
  a retry after a crash or a spent budget is refused for ever as a collision.
* An event "is shown as queued or running only when the matching current event
  version has a persisted task or a live worker lease" (`CHANGELOG.md:26`). A request
  that finds its own public entry renews the activity, which had failed or gone
  running meanwhile, but leaves the entry its old date (`operations.py:1383`): the
  entry expires 15 minutes after the first request, and the reader is shown as
  queued without one. TLC refutes `QueuedHasTask` with one input that is asked for and
  scanned, a clock of six and the other constants of `qwen_readers`. And a batch that claims the due retry
  of an input it has already scheduled drops it (`qwen_risk_worker.py:460`) and
  leaves it shown as running until it is stale.
* The newest VERIFIED record of `latest_verified_backup` (`operations.py:4178`) need
  not name a whole bundle: a failure after a run was VERIFIED (retention, the
  weekly copy) sets it to FAILED although its bundle is proved, and a deletion that
  breaks off leaves an older record pointing at a bundle that lacks files.
  `KnownGoodKept` is about the bundles.
* Of quotas, `MarketRateLimitError` says that jobs remain untouched, but Binance's
  HTTP 429 is a plain failure (`observe_live_event_markets.py:1304`) and spends an
  attempt of every job of the group.

Smaller observations made on the way:

* Capture queue: a claim around midnight may be counted against the new day while
  its attempt carries the old one, whose caps it was not held to (`SameDayCaps` and
  `ReaderReserveKept` leave such attempts out); a reader who asks again
  moves the capture to the end of the list; the ledger is read before the claim in
  the other database, so a call may be paid for an input superseded in between; a
  full-list refusal and a stale selection fail their row whatever it is by then.
* Qwen queue: an expired entry shows a retry time although no retry is scheduled;
  the activity of a waiting input is cut off the list once enough others are newer;
  readers' requests that keep taking slots stop the cursor of the fair scan.
* Telegram outbox: a row whose answer was lost expires with the note that it was
  never sent; a delivery with an old list of rows may edit a third version's
  message back to the second.
* Live cycle: `systemctl stop` leaves the lease, so the worker that starts next
  skips its cycles until it has expired; a cycle started by hand shares the report
  by which a supervised child is judged.
* Backups: `.partial` directories of processes that died pile up; the number of a
  dead owner may belong to another process by now, which keeps its file.
* Adjudication: a dry run, or a freeze under a renewed authorization that is then
  refused, writes over the manifest of a committed set; a sample that becomes ready
  after a freeze joins the next candidate, so the frozen set cannot be built
  again; ready samples of an older contract version enter the report.
* Market observation: a symbol Binance does not take spends an attempt of every due
  job of the provider; with an overlapping run, a job retargeted after it was
  selected is completed with the price of its former minute, and a completed one
  may be set UNAVAILABLE with its price on record.

## Proofs

The proofs are in modules of their own and hold for every value of the constants
that satisfies the named assumptions (`BoundsAssumption`, `BudgetAssumption`,
`NoJobAssumption`; `EventsAssumption`, `LimitsAssumption`, `NothingAssumption`;
`BoundsAssumption`, `InputsAssumption` and `TopAttemptsAssumption` of the Qwen
queue; `DurationsAssumption`, `BoundsAssumption` and `NobodyAssumption` of the outbox;
`TokensDistinct`, `TimesOrdered`; `BackupConstants`; `AdjudicationConstants` and
`SamplesAssumption`; `MarketConstants`).
TLC evaluates the assumptions in every run and has checked the invariants below,
the strengthening parts included, before they were proved.

Three modules reason about what a recursive function computes (`Total`; `Doubled`
and `AfterExpiry`; `ChosenAfter`). Their lemma `SetInduction` is induction with the hypothesis as a
set, from the least element that a well-founded relation has (`WFMin`); a function
over `0 .. n` is then unfolded once per step.

**`CaptureQueueProofs`.** `LeaseConsistent` and `AttemptsBounded` are not inductive
alone: a process that finishes an attempt acts on what it remembers. `IInv` adds
`LocalsOK`: a runner past its selection has a job, a calling or failing runner has
an attempt of that very job, and a request past its read has a job. From it follow
`Inductive`, `TypeCorrect`, `LeaseSafety` (a row is leased exactly by its own open
attempt) and `AttemptLimit` (no identity is sent to the provider more than
`MaxAttempts` times, and the row counts exactly its attempts), for any number of
runners and requests. One lemma per action; `ExpiryKeeps` is shared by the three
outcomes of a claim. On top of it:

* `ListBounded` proves `PriorityWellFormed`. The lemmas on `AtPositions` say that a
  filtered list is no longer than the list and repeats nothing that the list does
  not; replacing a stale entry puts one job back where at least the stale one was
  taken out.
* `ReserveKept` proves `ReaderReserveKept`. `RequestBudgets` says of every attempt
  how many its day had before it, and is inductive because of `AttemptsEvolve`,
  which every step satisfies: old attempts keep their day, their lane and their
  order, an open one may be closed and charged, and at most one is appended, by a
  claim that found its budget unspent.
* `CapsKept` proves `SameDayCaps`, with `CnyWithin`, an induction over the sum of a
  day's charges. Nothing is assumed of what calls report. A call reserves 0.02 CNY,
  and no line of the code compares its report with that: a dearer call is charged
  what it reports, and the ceiling may be passed by the difference. So the sum of
  `SameDayCaps` takes of each call at most its reservation, and `CnyWithin` is
  inductive because an open call weighs its whole reservation, so that closing it
  never raises the sum, while a claim finds at least the sum charged to the day.

**`FormalMutationProofs`.** Three invariants, each on top of the last:

* `IInv` adds to `TypeOK` and `OneConclusion` what an execution knows of the audit
  it prepared (`RunnerOK`), what the reconciliation has seen (`ReconOK`), that an
  audit has a content exactly when it is there (`AuditOK`), and that conclusions
  are no newer than the event (`VersionsOK`). It gives `Inductive`,
  `TypeCorrect`, `AuditsOneConclusion`, `ConfirmsOnlyCommitted` and the action
  property `AddsConclusions`.
* `DInv`, under `~MayCoincide`, adds that contents in hand were measured and are no
  other's (`MeasuredOK`), and that an execution before its apply finds its audit
  undecided (`UndecidedOK`). It gives `RecoveryAlwaysConfirms` and
  `AbandonsOnlyUncommitted`.
* `BInv` adds that no conclusion is from a later day. It gives `BatchLimitHolds`,
  `DailyLimitHolds` and, together, `LimitsHold`, for any number of executions, events and days: the budget
  is counted in the ledger's own transaction.

The module ends with `RefinesAuditedLedger`: under `~MayCoincide`, every step of
`FormalMutation` is, seen through the mapping, a step of one mutation of
`AuditedLedger` or a stutter. The mapping reads the intended contents from the
audits, the conclusions from the ledger and the verdict from the audit's status;
`Prepare`, `Apply`, `Confirm` and `Abandon`, and their counterparts in the
reconciliation, are the steps that show, and `DInv` gives that no abandoned audit
is concluded. Without the assumption the refinement is false, as described above.

**`QwenRiskQueueProofs`.** `OneEntryEach`, `ReadyIsRecorded` and the bounds of the two
lists are invariants of `IInv`: both lists name an input once (`QueueOK`,
`ActivitiesOK`), a ready input is recorded (`RecordedIn`), and a batch has in hand
what its next step needs (`WorkersOK`), so a batch about to say READY has
recorded its input. `QueuedKeepsTask` needs one part that no run states,
`RetriesUnasked`: an entry of class AUTO_RETRY is never that of an input whose
reader is queued, for a request promotes the entry it finds and a retry that is
scheduled sets its input to FAILED. Hence the eviction for a new reader, which
takes the oldest AUTO_RETRY entry, leaves no queued reader behind. An expiry fails
the input of every entry it drops, one after the other: what the recursive
`AfterExpiry` makes of the activities is an induction over the expired entries. It
gives `Inductive`, `TypeCorrect`, `ListedOnce`, `ReadyRecorded` and `TasksKept`, for
any capacity, length of the activity list, number of batches and crashes.

**`TelegramOutboxProofs`.** `OneDeliveryAtATime` rests on time: `HeldOK` says that an
execution whose call may be with Telegram holds the lease it acquired, which ends
`LeaseTicks` after `since`, and that no more than `CallTicks` have passed since.
As `CallTicks < LeaseTicks` (`DurationsAssumption`), nobody else finds the row
leasable, and a release only removes the releaser's own lease. `LocalsOK` and
`SentOK` say that rows and messages that executions and the cleanup remember
exist. `NoConcurrentDelivery` holds for any number of executions, crashes and lost
answers. `CleanupHarmless` proves `CleanupKeepsUnshared` on top of it: `MessagesOK`
adds that a row's message is on record (`RecordedOK`), that a call either edits
another version's message or has posted one nobody else knows of (`CallsOK`), and
that what the cleanup is about to delete or has deleted is a row's only if another
version shares it (`TodoOK`, `DeletedOK`). The step that needs all of them is
`RecordSent`, which may give a row the very message the cleanup has in its list.
`MessagesKnown` proves `MessagesOnRecord`: `LostInv` adds what message an execution
has in hand at which step (`HandOK`), so that a step drops one only when its answer
is lost or its process dies, which `faults` counts.

**`LiveCycleProofs`.** `SupervisedOwnsLease` rests on time as well. `IInv` adds that a
supervised child that runs is the one being watched (`ChildrenWatched`), that it
holds the lease and this has at least `Ttl - age` left (`ChildrenLeased`), that
heartbeats belong to processes past their acquisition (`HeartbeatsInside`), and
whose report the file can be (`ReportOwned`). As a watched child is younger than
`KillBy <= Ttl` (`TimesOrdered`), its lease never runs out, so `MayTake` is false for
everybody else. It gives `Inductive`, `TypeCorrect`, `SupervisedHolds`,
`OrphanFree`, `OwnersRelease` and `CurrentReport`, for any number of cycles started
by hand and any heartbeats.

**`BackupRunsProofs`.** `IInv` adds that whoever is past the kernel lock holds it
(`GuardHeld`), from which `OneAtATime` follows whatever the owner file says; what
each step implies of the run's bundle (`BundleInHand`: on disk and whole from
publication to the end of the pruning) and row (`RowInHand`); and that rows and
bundles are numbered (`RowsCounted`, `RowsNumbered`), so the bundle in hand is at
least as new as every verified one. `KnownGood` needs all of them in `Prune` and
`PruneBreaksOff`; `FailedFinal` needs `RowInHand`, since `finish_backup_run` itself
asks nothing of the row.

**`AdjudicationProofs`.** `IInv` is `DeskInOrder`, which ties each state of a sample to
its reviews, and `Script`: types, what a process carries and has written (`Carried`),
that only a
frozen sample has a freeze id (`Frozen`), `FreezeIsSound` and
`ManifestNeverAhead`. That a candidate read long before its commit is still right
follows from `LabelsStay`: the reviews of a sample that is ready no longer change.
`IndependentLabels`, `FreezeSound` and `ManifestBehind` hold for any number of
processes, samples, people and authorizations. On top of it,
`RowsBlind` says that what an apply carries and what is on record are blind sets.
The greedy selection takes turns, and a turn selects a row only if it was not
exposed and overlaps nothing selected before (`TurnKeepsApart`); by induction over
the turns the same holds of `Chosen`, and an authorized candidate has passed the
checks of quotas and sources (`CandidatesBlind`). `NoOverlap` (`NoOverlapFrozen`)
follows, and so does `RefinesFrozenSets`: the review that completes a judgement is
`Judge`, the commit that is no retry is `Freeze`, whose set is what the verdicts say
then although it was read long before, and every other step of people, processes,
authorizations and crashes is a stutter.

**`MarketWindowsProofs`.** `IInv` adds to `TypeOK` and `MetricsGrounded` the outcome of
every job (`Settled`) and that the returns a run has in hand are between snapshots
on record (`FoundGrounded`). `Settled` says more than the outcome: an observed row
bears no 429, and no row has more attempts than allowed, so that the repair leaves an
open row an attempt. It gives `Outcomes`, `GroundedReturns` and `Closed`, for any
windows, plans, prices, overlapping runs and rows of former releases. `Closed` says
what the code keeps: completed and cancelled rows stay so, and an unavailable one is
asked for again only without a price, and only as a baseline moved or under another
contract, or by the repair.

Model-checked only: the liveness properties `EveryJobSettles`, `EveryEntryLeaves`,
`EveryConclusionAudited`, `ReadersServed`, `EveryAlertSettles`, `CyclesResume`,
`RunsClosed`, `RetryReconciles`, `DueSettle` and `ReturnsFollow`, for the prover does
not handle `ENABLED`, which fairness is made of. Every invariant and every action
property that a passing run checks is also a theorem.

## Not modelled, and the plan

In this order:

1. `JobLifecycle`, an abstract life of one job (requested, tried at most
   `MaxAttempts` times, one outcome), which `CaptureQueue` is shown to implement,
   by TLC in `capture_lease` and by a proof that each step maps to a step or a
   stutter.
2. The fair scan's cursor of the Qwen worker.
3. The ledger's own revisions, and admission over them.
4. The human gold review with its drafts and its freeze.
5. The cached overview snapshot of the API with its background refresh.

Left out for good: the evidence policy (pure text classification), the content
store (write-once files), the web pages, the deployment and restore scripts (root
shell over systemd), and the training scripts (no concurrent state).

## Running it

    tlc -workers 2 -config CaptureQueue_lease.cfg MCCaptureQueue.tla
    tlapm CaptureQueueProofs.tla

Every run and its module are in `PROJECT.json`. The longest, `capture_budget` with
11 million distinct states, `qwen_readers` with 4.3 million, `formal_race` with 4
million, `telegram_delivery` with 1.3 million and `market_windows` with 1.3 million,
take one to three minutes; the others have 0.1 to 0.7 million.
