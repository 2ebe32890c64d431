# SpeakX notification engine: verification project

TLA+ modules for the SpeakX notification engine, the TLC configurations that
check them on small instances, and theorems that TLAPS checks for every value of
the constants. Paths are relative to the repository (`app/...`, `workers/...`).

## 1. The system

Learners move through *journeys* (chapters, quests, activities). The app sends
progress events to Redis streams; a consumer updates the state of the learner's
journey with a state machine; hourly scans move inactive learners to dormant
states; at fixed times of the day, and on every change of state, a notification
is generated with an LLM, written to a table, and pushed by CleverTap.

Processes (docker-compose.yml): the FastAPI app, one event consumer, one Celery
worker process with several children for the queues `default`, `notifications`
and `ingestion`, and Celery beat. All share one PostgreSQL database (READ
COMMITTED) and one Redis. There are no locks, version columns or conditional
updates in the code: every interaction is through rows read in one transaction
and written in another.

| Component | State | Operations | Interacts by |
|---|---|---|---|
| State machine, event handling (`state_engine/machine.py`, `transitions.py`) | `user_journey_states` row: `current_state`, `last_activity_at`, counters, JSON columns | `process_event` | called by the consumer, inside its transaction |
| Evaluator (`state_engine/evaluator.py`) | five-element windows in the row's JSON | `evaluate_signals`, `update_sliding_window` | called by `process_event` |
| Temporal scans (`temporal.py`, `temporal_worker.py`) | none of their own | `scan_dormancy`, `scan_chapter_transitions` | read and write the same rows in their own transactions |
| Event consumer (`events/`, `workers/event_consumer.py`) | Redis group cursor and PEL, `_running`, `reconnect_attempts` | `start`, `_consume_loop`, `_process_message`, `stop` | Redis, database, Celery tasks by `.delay` |
| Scheduler and cap (`notifications/scheduler.py`, `frequency.py`) | `notifications` rows | `schedule_slot`, `process_event_notification`, `can_send`, `should_suppress` | counts rows, inserts rows |
| Push delivery (`notification_worker.py`, `delivery.py`, `dnd.py`) | `delivery_status`, `sent_at` | `process_pending_notifications`, `send` | polls rows, posts to CleverTap |
| Day 0 schedule (`day0_scheduler.py`, `dnd.py`) | none | `calculate_day0_schedule`, `handle_payment_trigger` | inserts live rows with future times |
| Generation (`generator.py`, `prompt_builder.py`, `strategy.py`, `llm/`) | template file | `generate` with fallback | LLM call inside the generating transaction |
| Ingestion (`ingestion/`, `ingestion_worker.py`, `portal/background.py`) | journey hierarchy rows, in-memory or Redis status | `ingest_journey`, `launch_ingestion_task` | database, LLM, seeding |
| Seeding (`seeding/demo_seeder.py`) | demo rows | `seed_and_generate` | deletes and inserts journey rows |
| Analytics (`analytics/`) | attribution, events, snapshots | `check_attribution`, `sync_engagement_events` | reads and marks notifications |
| Configuration (`config/`) | `app_config` rows, cache per manager | `get`, `set`, `seed_defaults` | read by all |
| API, portal (`api/`, `portal/`, `main.py`) | rate-limiter counters | handlers | reads, launches ingestion |

Hard behaviours: transactions that overlap on one row (scans against events,
runs of the delivery worker against each other, generators against the cap);
work done outside a transaction and in an order that matters (the task enqueued
before the commit, the push before the status, the acknowledgement after the
commit); failures between such steps; batches that are committed as a whole;
decisions from a stamp or a count that is old when it is used. `PROJECT.json`
lists each of them at its line under `hazards`.

What makes each part correct, in one sentence: a journey's state changes only
along permitted moves and agrees with the learner's activity; entries of a
stream are applied in order, once, and their transitions announced; a
notification's recorded status agrees with what CleverTap accepted, and what must
not be pushed is not; no learner gets more than the cap; the signals follow from
the learner's recent work; an ingested journey is active only when complete; a change of a
setting takes effect in every task that starts after it; the schedule of the day
of payment keeps its gaps, leaves the night free, and is written whole.

## 2. Modules

| Module | Models | Extends or instances |
|---|---|---|
| `JourneyMachine` | states, edges, `_apply_transitions`: constants and operators | |
| `JourneyLifecycle` | abstract specification of one set of journeys | `JourneyMachine` |
| `JourneyEngine` | event transactions, the two scans and re-seeding on shared rows | `JourneyMachine`; instances `JourneyLifecycle` |
| `JourneyEngineProofs` | proofs about `JourneyEngine` | |
| `BehaviorWindows` | windows, counts and signals of one learner, and the states they lead to | `JourneyMachine` |
| `BehaviorWindowsProofs` | proofs about `BehaviorWindows` | |
| `OrderedDelivery` | abstract specification of the consumer | |
| `EventStream` | Redis streams, consumer, database commit, notification tasks | instances `OrderedDelivery` |
| `EventStreamProofs` | proofs about `EventStream` | |
| `NotificationRecord` | abstract specification of a notification's status and pushes | |
| `PushDelivery` | `process_pending_notifications` and `send` | instances `NotificationRecord` |
| `PushHistory` | the same with a history variable: pushes the worker may not know of | `PushDelivery` |
| `PushDeliveryProofs` | proofs about `PushDelivery` and `PushHistory` | |
| `FrequencyCap` | the cap under concurrent generating transactions | |
| `SlotGeneration` | the generating tasks with settings, caches and failures | `FrequencyCap`, which it implements |
| `SlotGenerationProofs` | proofs about `FrequencyCap` and `SlotGeneration` | |
| `Day0Schedule` | the schedule of the day of payment and the task that writes it | |
| `Day0ScheduleProofs` | proofs about `Day0Schedule` | |
| `JourneyHierarchy` | parser and validator of journey files: operators | |
| `StoredJourney` | abstract specification of the rows of a journey | |
| `Ingestion` | ingestion tasks, their reports, and seeding | instances `StoredJourney` |
| `JourneyImport` | both together: from the rows of a file to the committed journey | `Ingestion`, `JourneyHierarchy` |
| `IngestionProofs` | proofs about `Ingestion` | |
| `JourneyImportProofs` | proofs about `JourneyHierarchy` and `JourneyImport` | `IngestionProofs` |
| `MC...` | instances and symmetry for TLC | |

Definitions used only as mutations (`StateUnguarded`, `DueAtAnyTime`, ...) stand
next to the definition of which they are a wrong variant. They are not part of
any specification; each shows that the property it breaks says something.

### JourneyEngine

State: the `user_journey_states` rows (state, days since last activity, age of
the completed-chapter mark), the open event transaction of the consumer, and one
open scan per worker child. `BeginEvent` is the SELECT and `process_event` in
memory; `CommitEvent` is the commit in `consumer.py:146`. `BeginDormancyScan` and
`BeginChapterScan` are the SELECT of all rows and the loop over them, which awaits
nothing that could change its decisions; `CommitScan` writes the changed columns
of the changed rows and nothing else, as SQLAlchemy does. Another transaction that
commits in between marks the open one as stale for the row it wrote. Time is
counted in days of inactivity, and a day may end at any moment, also within a
transaction.

The signals of the evaluator are an arbitrary subset: they depend on values that
the producers of events choose. Chapter totals, `is_final` and
`chapter_completed` are written by no code of the repository, so their writers are
external (`MarkChapterCompleted`). Thresholds are constants (the code reads them
from the configuration in every scan). Demo seeding gives the initial states, and
`Reseed` is a further seeding while transactions are open: it deletes the rows of
the demo learners and inserts new ones in one commit. An open scan finds nothing
under the primary keys it read and writes nothing there (`RowsLost`); an open event
transaction fails, because its UPDATE matches no row or its INSERT meets the key of
the new one. Which state the seeder gives to which learner is left open. For
`JourneyLifecycle` a re-seeding is the begin of new lives, visible in `seeds`.

### BehaviorWindows

State: the columns `metadata` and `chapter_progress` of one fresh row, the aggregate
columns (as the windows they are computed from), `current_state`, and history of
what was reported. `ProcessEvent` is `process_event` with its commit in one step:
only the single consumer writes these columns, and a rolled-back event leaves
nothing. A JSON column is written only if SQLAlchemy sees a new value. Both
columns are changed in place and assigned to themselves, and the column types are
plain `JSON`, so that happens once, when the column was NULL (`StoredMetadata`,
`StoredProgress`). The dormancy scan may come at any time (`ScanMoves`); what it
needs to be due belongs to `JourneyEngine`. The values are what producers report,
the thresholds constants; a mean is compared by multiplying out, and seconds and
expected seconds are folded into the speed threshold. Chapter totals are written by
no code, so here they are never written.

### EventStream

State: the two logs, the group's cursor, the PEL, where the consumer is, the
reconnect counter, the rows that exist, the history of committed entries, and
the notification task of every progress entry. Every call to Redis can fail before
or after it took effect. `Handle` includes `.delay`; `Commit` and `Ack` are separate
steps because the process can end between them. A process that ended is started
again by whoever operates it (`Restart`; docker-compose has no restart policy).
An empty answer of XREADGROUP is a stutter. Failures of `_cleanup` and cancellation
of the main coroutine are not modelled: both end in the same states as `Stop` or
`Crash`.

### PushDelivery

State: hours since the begin of the first day (IST), the rows with mode, stamp and status, the number of
pushes that CleverTap accepted (up to two), and the open runs, each with the rows
it has left, the row it is posting, the attempt, and the statuses it has assigned
in memory. Actions follow `_process_pending` and `send`: `Fetch` (the query with its
order and limit), `Skip`, `BeginSend`, then `Accepted`, `Rejected` or `Retry` for each
answer, `Commit`, and `Break` for everything that ends a run without a commit (an
httpx error that is not a timeout is not caught). A timeout may have been
accepted. Runs overlap because beat starts one every 60 seconds and a batch of ten
rows with 30-second timeouts may last longer. `Generate` writes a row that is due,
or, as the Day 0 task does, a live one whose time is still to come. The status `delivered` of the CleverTap
sync does not occur: it needs `clevertap_campaign_id`, which nothing writes.

`NotificationRecord` is the same without runs and time: for each row a status and
whether CleverTap has accepted a push of it. `Overlap` says whether two runs may be
open together; if not, a row leaves `pending` once and for ever.

`PushHistory` adds the rows that are `doubted`: a post of them had no final answer
(`Retry`), or a run that was posting them or had pushed them broke off before its
commit. No step reads it. What it separates are the two ways in which a push is lost
from the table, which the code accepts, from every other, which it must not have.

### FrequencyCap

State: the rows of today that count against the cap, per user, and the open
sessions of generating tasks. `Check` is `can_send`: it sees committed rows and those
its own session has flushed. `Flush` comes after the LLM call, `Commit` at the end of
the slot or task. `created_at` is the begin of the transaction, so after
`DayBegins` the rows of older sessions do not count. A user with several
journeys occurs several times in a slot. The order of users in a slot, and who is
suppressed, is arbitrary. `max` is the value of the setting that a check reads, at
most `MaxPerDay`. `DeliveryFails` is the worker's status `failed`, which no
longer counts; that an overlapping run may turn `failed` into `sent` again is shown in
`PushDelivery` and not repeated here. A rejected flush leaves a session that can
only be rolled back (`Abort`).

### SlotGeneration

Adds to the sessions of `FrequencyCap` the rows of `app_config` for the two settings
the tasks read (`enabled`, the delivery mode, and `max_per_day`), the cache of each
task's `ConfigManager`, the mode of the rows it writes, whether a failed statement
has spoilt its transaction, and what its summary counts. `Get` and `CacheAfter` are
`ConfigManager.get`; a default is not cached, a value from the table is until the
task ends. `UpdateConfig` is `set` in a request of its own, whose cache nobody else
sees; `SeedDefaults` is the start of the app, which may come after that of a worker.
`OpenSlot` reads the mode before the first learner, `Store` of an event task after
the text is generated. `StatementFails` is the `except` in the loop of
`schedule_slot`: the error of one learner is caught, the transaction is spoilt, and
the commit fails or is turned into a rollback (`LoseAll`). `offered` is history:
what each setting was since the task began.

### Day0Schedule

State: the minute of the payment, for each execution of the task the templates it
has not considered yet and those it has accepted, and the committed rows. `Consider`
is one turn of the loop of `calculate_day0_schedule`, the most important template
first; `SendAt`, `Fits` and `HasMinimumGap` are its arithmetic, in minutes of the IST
day. `Commit` is the only commit of `_handle_payment`; `Fail` is everything that ends
the task without it or after it. Two executions stand for a payment that is
reported twice, which nothing prevents. Rows of this task are always live and wait in
the table for their hour, which is `PushDelivery`'s part.

### JourneyHierarchy, Ingestion, JourneyImport

`JourneyHierarchy` holds `parse_journey_csv` and `_transform_speakx_row` (a file of
either format to rows), `build_journey_hierarchy` (rows to a tree, written as the
list of its nodes in the order of their creation, each with the numbers on the
way to it and its name) and `validate_journey_structure`. Cells are numbers or names.
`ParsingRaises` is the one kind of row that the parser does not catch: more cells than
headers in the simple format. `JourneyImport` says of the same file, without parser and
tree, which tasks its cells tell of and in which order (`Places`, `ToldAt`), and what is
the first told of each chapter, quest, activity, lesson and task (`FirstTold`).

State of `Ingestion`: for each upload, where its task is, the hierarchy (fixed at
`Upload`, because it depends on the file alone), which LLM calls have answered, the
committed journey, the demo rows, what a poll of the task answers, the status
object that `ingest_journey` returned and the status in Redis; and the open seeding
transactions. `Begin` is parsing and validating, `ParsingFails` a file that makes the
parser raise (`Malformed`), which ends the task, `AnalyzeJourney` and
`AnalyzeChapter` the LLM calls, `Commit` the commit of the loop or of the handler of
its exceptions, `DatabaseFails` every error after which that handler cannot commit
either. The reply to a commit may be lost. The portal's runner and the Celery task
differ in `Report` (memory, or Redis and the result backend), in what a restart
takes with it (`Restart`, `WorkerKilled`: with the whole worker the state stays as it
is, for a child that is killed Celery records `FAILURE`) and in who sees `STARTED`. The retries of
the LLM provider are inside one step: they end in an answer or an exception.

Seedings come from the task or from `POST /journey/{id}/seed`. They serialise on
`uq_user_journey`: the first inserts the demo learners, another one waits at its
own first insert (`turn`), fails when the first commits, and goes on when it is
rolled back. An error of PostgreSQL ends the transaction there and frees what it held;
after any other exception the transaction of a task stays open until its session is
closed, after the report (`left`). Notifications have no key; `replaces` is what a seeding sees and deletes.
Learners of one seeding are counted as one set, and so are its notifications.

`StoredJourney` is what a reader of the tables may rely on: `Store`, one commit of
everything, and `Seed`, which fills all gaps at once.

## 3. Runs

| Run | Question | Bounds |
|---|---|---|
| `EngineOneUser` | do overlapping scans, events and a re-seeding keep open work sound, implement the lifecycle, and does every inactive journey get to churned? | one user, two scanning workers, one re-seeding, tiers at 1, 2, 3 days |
| `EngineRaceDormancy` | violation, see below | |
| `StreamSafety` | order, at most once, no unannounced transition; is every entry dealt with? | up to two entries per stream and three in all, batch of two, one reconnect |
| `WindowsOneLearner` | what do windows and counts hold, and which states can their signals lead to? | one learner, any number of events, windows of two, values on both sides of each threshold |
| `WindowsSlide` | violation | |
| `PushOverlap` | do statuses agree with pushes under overlap, retries, breaks, as `NotificationRecord` has them? | three rows, two runs, two per batch, two attempts, hours 2 to 5 |
| `PushOneRun` | without overlap: are pushes and settled statuses final, as in the stricter form of `NotificationRecord`, is every push recorded that was not lost with its answer or its run, and is every due row settled, through a backlog? | three rows, one run, two per batch, hours 2 to 5 |
| `PushTwice` | violation | |
| `CapConcurrent` | how far can concurrent tasks exceed the cap, under which mode and cap do they write while these are changed, and is a slot stored whole? | two sessions, caps 0 to 2, a user with three journeys, one change of a setting |
| `CapExceeded` | violation | |
| `DayOfPayment` | does the schedule keep gaps, night and importance for every minute of a day, and is it written whole? | the six templates of the code, all 1440 minutes, two executions |
| `ImportOneFile` | do journey, report, Redis status and seeding agree, is just that stored which the cells of the file are the first to tell of, is `StoredJourney` implemented, does the task end? | one task, two seeding requests, every file of at most two rows out of six simple and four SpeakX ones, a file with a bad row, one with an overlong row |

Why the bounds are enough to see the cases: a race needs two transactions on one
row, a batch needs a row decided, one in hand and one left, a tier needs a day
below and a day at its threshold, a limit needs one step below and one above. Users
and rows are symmetric. The tier thresholds stand for 2, 7 and 30 days; only their
order matters to the code. Rows of different users meet only in a scan, which decides
for each by itself and whose commit touches only the rows it changes; the theorems
hold for any number of them. A day of four hours of which the last and the first
are night stands for the window from 23 to 7; the clock of the runs goes from the last hour
of one day to the next day, so every row that waits for the morning is seen. A window of two instead of five is
enough because no more than two values are ever in it, which is what the run shows
and the theorem `WindowsNeverSlide` proves for windows of any size. Three entries are enough for a batch of
two with one behind it and for a second stream; that a batch is passed over as a whole
and that an entry is waiting when the consumer gives up are both seen. A re-seeding meets
every phase of a transaction once; the theorems allow any number. Three journeys of a
user with a cap of two let one task stop at the cap and another go over it; one change
of a setting gives two values to every reader, the default and the new one. Two rows are
enough to repeat a row, with the same or with another name, to name a chapter twice or
differently, to skip a number and to use one in two parents; two requests are enough for one that waits while another
fails or commits. Tasks share nothing but the process, and the theorems hold for any
number of them.
`CHECK_DEADLOCK FALSE` appears where the bounded clock or log ends and everything
is settled.

### Disagreements between the code and what it says

Each violation run checks one property taken from a sentence of the repository; the
sentence and the line are in `findings`.

- A scan overwrites an event committed after its read: a learner active today is
  dormant (`EngineRaceDormancy`). The same write can reopen a completed journey.
- The windows do not slide: every event is averaged with the first one only
  (`WindowsSlide`). For the same reason, and because no code writes chapter totals,
  a learner who starts afresh never gets to `bored_skimming`, `completing` or
  `completed` (`FreshLearnersNeverFinish` in `WindowsOneLearner`, proved in general).
- A row that is settled is pushed again (`PushTwice`).
- The daily maximum is exceeded (`CapExceeded`).

## 4. Fairness

- Engine: beat starts a dormancy scan every hour and a scan does not fail for
  ever; time goes on. Nothing is assumed of events.
- Stream: the consumer's own steps are taken (weak); a reconnect and a read that
  are possible again and again succeed at last (strong: Redis does not stay away
  for ever); an ended process is started again.
- Push (`PushOneRun`): beat starts runs for ever and an open run goes on (weak); time
  goes on, or a row of Day 0 would never be due; from some time on runs are not broken off. Without the last assumption nothing can be promised: an
  error that is not a timeout, for the same row each time, stops the whole batch
  for ever, because nothing of the batch is committed.
- Ingestion: an event loop takes the next step of a task and of a seeding that is
  not waiting (weak); LLM and database calls end, one way or the other. PostgreSQL
  wakes a waiting transaction at last, though others may come before it (strong).
  Nobody has to upload, seed, restart or kill anything.

## 5. Proofs

Constants are arbitrary within the named assumptions of the modules (`Bounds` and
the like: limits are positive, thresholds ordered, sets finite where counted).

- `JourneyEngineProofs`: type correctness; `OpenWorkIsCurrentOrStale`, which is
  inductive with the types and says that an open transaction either still fits the
  row it will overwrite or is recorded as stale. From it follow
  `DormancyMatchesInactivity` and that the engine implements `JourneyLifecycle`,
  action by action. A re-seeding keeps the invariant because no open work carries
  anything for a row that is gone (`RowsLostEffect`). What
  `EngineRaceDormancy` refutes holds if overtaken transactions do not commit
  (`CurrentCommitsSuffice`), and in particular if transactions take turns (`TurnsSuffice`).
  Neither is assumed elsewhere: the code ensures neither.
- `EventStreamProofs`: the invariant relates cursor, position in hand and history
  (`Shape`): applied entries are below the position, in order, and the current one
  has been announced before it is committed. From it follow `AppliedInOrder`,
  `CommittedMovesAnnounced` and the refinement of `OrderedDelivery`.
- `BehaviorWindowsProofs`: the invariant says that `metadata` holds what the first
  event reported and that no chapter has a total. From it follow that the
  aggregates are those of the first and the latest event (`WindowsNeverSlide`),
  that fresh learners stay below the last states, and that `struggling` is never
  kept without its signal.
- `PushDeliveryProofs`: `Inv` says of every run that what it holds or has decided is
  a live row, decided by the hour on the row, and `sent` only if pushed. It gives
  `SentMeansPushed` (which the runs check as part of the refinement),
  `PushedOnlyWhenAllowed` and `SettledStaysSettled`. With `HeldIsPending`, for runs that never overlap, `OnlyPendingPushed`; and with
  `HeldIsUndecided`, that a run posts a row before it decides on it, `PushesAreRecorded`
  for the rows that are not `doubted`. Delivery implements
  `NotificationRecord` (`DeliveryImplementsRecord`): pushes and commits are its steps, and
  a commit may carry decisions that another run has overtaken, but as every run decides
  by the hour on the row they are still outcomes of it (`DecisionIsOutcome`).
- `SlotGenerationProofs`, the cap: the bound is not inductive by itself; rows that sessions have
  cleared or flushed must be counted with the committed ones (`Promised`). The sum
  grows only at a check, where the session's own part is below the cap. With one
  session the slack is zero and the cap holds.
- `SlotGenerationProofs`, the tasks: they implement `FrequencyCap` (`TasksImplementCap`), so
  its bound carries over. The new invariant says that whatever is cached or read is
  among the values offered since the task began, and that what is reported is what
  is flushed; from it follow `ModeOfItsTime`, `ClearedWithinACap` and `StoredWhole`.
- `Day0ScheduleProofs`: the invariant says that what is accepted is more important than
  what is left to consider, fits or is immediate, and is exactly what importance
  decides among the templates considered. Since that determines the schedule, two
  executions that are done agree (`WholeSchedules`).
- `IngestionProofs`: the invariant says what is known at each step of a task (before
  the commit nothing, after it a result that agrees with the rows), and that one
  seeding at most holds a journey and will replace exactly the rows that are there.
  From it follow `ReportsAgree`, `ActiveIsComplete`, `DemoIsOneSet` and, since no step
  but a seeding touches a committed journey, `AnalysisIsKept`. With `AllFromFiles`, that
  every task works on the chapters of its file, ingestion implements `StoredJourney`
  (`IngestionImplementsStored`).
- `JourneyImportProofs`: what is stored of a file is exactly what its cells are the first
  to tell of, for files of any length (`FirstTasksAreStored`). The tree after *n* rows is a
  recursive function, whose existence is proved (`TreesDefined`), as is that of
  `FlattenSeq` (`FlattenDefined`). The library's induction rules cannot be used, so each
  induction is about a set of numbers that contains 0 and the successor of each of its
  members (`UpTo`). The invariant over the rows, `TreeOf`, says that the tasks of the tree
  are the keys seen, each once, that every node on the way to a row is there, and that a
  node has the name the first row on its way gave it. The rows of the parser are the
  places of the cells in their order (`FlattenedInOrder`, `RowsHavePlaces`), so the first
  row on a way is the first place that tells of it (`FirstRowFirstPlace`). A file that is
  accepted has the chapters 1, 2, ..., so no row falls between them
  (`AcceptedCellsStored`). It rests on `Composition`: a file is a list of rows, the files
  that make the parser raise are `Malformed`, and `ChaptersOf` is what parser and
  validator make of each.

Every safety property of a passing run is stated by a theorem. Only model-checked:
liveness (`InactiveUsersSettle`, `EveryEntrySettled`, `DueIsSettled`, `EveryTaskEnds`),
because fairness and ENABLED are out of reach of the prover, and the violations.

## 6. Not modelled, and the plan

Left out on purpose: wording (prompts, templates, payloads, HTML), image drawing,
logging, read-only handlers, migrations. The connection pool shared between event
loops of Celery children, and the handling of aware datetimes by the database
driver, are taken to work.

Known and not shown by a run: delivery is at most once, since an entry is
acknowledged after a failed transaction and the PEL is never read
(`consumer.py:89,166`); a row stamped before 23:00 and sent later is pushed at night
(`notification_worker.py:127`); a notification is generated for a transition that is
rolled back, because its task is enqueued before the commit (`processor.py:38`), and a
task that is faster than the first commit finds no row and gives up; a push that timed
out may be repeated or recorded as failed (`delivery.py:272`), and a run that breaks off
leaves the rows it has pushed pending, to be pushed again (`notification_worker.py:154`);
`PushesAreRecorded` says that nothing else does so while runs do not overlap; a slot whose
transaction was spoilt by one user stores nothing, while its summary counts the rows
(`scheduler.py:107`); tasks of a file with the same five numbers are lost but for the
first, whatever they hold (`parser.py:236`), and so are those of different SpeakX lessons
whose codes have no number, because all of these count as 1 (`parser.py:141`);
the portal
records `SUCCESS` for an ingestion whose result says `failed` (`background.py:85`);
`docs/api.md` lists the status `analyzing`, which no reader can see because the journey
is committed only at the end, and while the status is in Redis the endpoint says
`complete` where the database says `active`. The models contain all of these.
`ReportsAgree` compares results with the database, not the answers `FAILURE` and `UNKNOWN`:
a task that failed at the reply to its commit, or was lost with a restart, may have
stored its journey.

Also known, and in the models: the Day 0 rows of a learner who pays before 07:00 are
planned into the night that is just passing, and the answer to a payment at night,
said to fire "regardless of DND" (`day0_scheduler.py:140`), is skipped by the pushing run.
Day 0 rows count against the daily cap, and two executions for one payment write the
schedule twice. `day0_scheduler.py` cannot be imported at this commit: it names members
that `NotificationTheme` does not have.

Known and outside the models: the portal's shadow switch writes `shadow.enabled`
(`app/templates/config.html:216`) and `docs/go-live-checklist.md:32` and
`docs/api.md:169` name `notification.mode`, while the scheduler reads `enabled`
(`scheduler.py:88,295`): neither of the two changes anything. `SlotGeneration` models the key
that is read. The bulk generator is said to return eight templates per combination and
returns four to seven if the LLM gave no more (`generator.py:118`). The category view of
the admin API fails, because it takes the keys of a dictionary for entries. Attribution has no
caller, the CleverTap sync finds no row because nothing writes `clevertap_campaign_id`,
and the snapshots read attributes that the models lack; as these parts can do nothing,
they are not modelled.

What could still be added: the chapter a learner is active in, once some code writes
the marks that the chapter scan reads; attribution and sync, once they are reached;
the rate limiter (`api/deps.py`), a list of times per client within one process.
