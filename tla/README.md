# A TLA+ project for the data engineering portfolio

The repository holds three independent systems. **StreamPulse** counts events
of a Kafka topic in tumbling windows, stores metric rows and raises alerts.
**DataGuard** checks the quality of demo tables and serves scores.
**WarehouseLab** loads a generated dataset and builds dbt marts. This project
models all three.

Source paths below are relative to `src/`.

## Inventory

### StreamPulse (`streampulse/streampulse/`)

| Component | State | Operations | Correct when |
|---|---|---|---|
| Windows and metrics (`windowing.py`, `metrics.py`, `_ingest` and `_evict` of `processor/main.py`) | none: functions of a window map | fold an event, drop old windows, compute rows | the fold equals the aggregate of the events; eviction spares what it should keep |
| Topic and producer (`producer/main.py`, `events.py`) | the broker's log; the generator's counter and burst; the client library's buffer | draw, produce, poll for room, produce again, poll, flush | no event counted as sent vanishes, the topic has the stream in order, a stop delivers all |
| Processor (`processor/main.py`) | windows in memory; group offset and rows durable | poll, ingest, flush, evict, final flush, close, restart | rows describe distinct events, refine, and reach every event |
| Database (`db.py`) | tables `metrics`, `alerts` | upsert, insert-if-absent, select recent | each call is one transaction, repeating it is harmless |
| Alerter (`alerter/main.py`, `alerting.py`) | the alerts of the pass in hand | query and evaluate, insert | alerts are true, and no breach in the lookback is missed |
| Connections (`_connect_with_retry` of both services, `get_connection` of `dashboard/app.py`, `init_schema` of `db.py`, `scripts/e2e_check.py`) | a connection per process, one shared by all pages; the tables' existence | connect, create the schema, lose the connection, clear and rerun, exit and restart | all come up on an empty volume and after an outage |

The producer and the processor share the topic; the processor and the alerter
share `metrics`. No call links them, so all interaction is interleaving on
durable state. What is hard: the offset is committed by a timer of the client
library (`enable.auto.commit`), independent of flushes; the windows die with
the process; events come late; messages can be poison; the database and the
broker fail; the alerter acts on rows that change under it. At the start five
clients create the same tables at once, and `CREATE TABLE IF NOT EXISTS` fails
for whoever waited for another's uncommitted creation. The producer's buffer is
emptied by a thread of the library but freed by the loop's polls only.

### DataGuard (`dataguard/dataguard/`)

| Component | State | Operations | Correct when |
|---|---|---|---|
| Checks and score (`checks/`, `scoring.py`) | none | one result per check, weighted mean | the documented scores of the seeded tables come out |
| Drift statistics (`checks/drift.py`) | none | quantile edges, histograms, PSI, KS | every value counted once, KS is the true maximum, same distribution never drifts |
| Seeder (`seed/seed.py`) | demo tables | create, empty, fill: three transactions per table | tables end filled, whoever else seeds |
| Runner (`runner.py`, `config.py`) | a run's frame, baseline, identity | per table: read, read baseline, persist | results are whole and of the seeded data |
| Results store, API, dashboard (`db.py`, `api/main.py`, `dashboard/app.py`) | `dq_results` | latest run, scores, results, trend | answers are of one run, the latest |

Jobs (`make seed`, `make demo`) are not kept apart from each other or from the
API; every helper of `db.py` opens its own connection and transaction.

### WarehouseLab (`warehouselab/`)

| Component | State | Operations | Correct when |
|---|---|---|---|
| Generator (`generator/generate.py`) | the rows so far, the place in its loops | users, events per user and day, orders per day | no session reaches into the next day |
| Loader (`generator/load.py`, `schema.sql`) | the raw tables | one transaction: create, truncate, fill | readers see whole loads |
| Marts and golden tests (`warehouse_dbt/`) | the three marts | one transaction per mart; tests | they agree with the pandas code that derives the golden values, and with each other |
| Pipeline (`scripts/*.sh`, `orchestration/definitions.py`) | its place, the attempts of the wait | wait, load, dbt build, verdict | it ends, and says success only of populated marts |

Nothing keeps the shell pipeline and the Dagster job, or two of either, apart.
Hard: a load that commits between two models of a build or between a model's
snapshot and its lock; loads and builds that lock the same tables in different
orders; two first loads that create the same schema; golden tests that pass when
their row is missing.

## Modules

| Module | Models | Extends / instantiates |
|---|---|---|
| `Windowing` | windows, metrics, the table upsert | - |
| `EventLog` | the topic and the aggregate a set of messages defines | `Windowing` |
| `MetricsStore` | abstract: what readers of `metrics` may rely on | `EventLog` |
| `Processor` | the processor with its faults | `EventLog`; `Store == INSTANCE MetricsStore` |
| `EventLogProofs` | lemmas about windows, rows, aggregates and the fold | `EventLog` |
| `ProcessorProofs` | theorems about `Processor` and `StreamPulse` | `StreamPulse`, `EventLogProofs` |
| `FiniteSums` | lemmas about sums over finite sets | - |
| `Alerter` | the alerter beside the abstract store | `MetricsStore` |
| `StreamPulse` | processor and alerter on one table | `Processor`; `Alerting == INSTANCE Alerter` |
| `AlerterProofs` | theorems about `Alerter` | `Alerter`, `EventLogProofs` |
| `Checks` | the battery of checks and the score | - |
| `DataGuard` | seeders, runners and the API over the database | `Checks` |
| `DataGuardProofs` | theorems about `DataGuard`, `Checks` and `Drift` | `DataGuard`, `Drift`, `FiniteSums` |
| `Drift` | the drift statistics over bounded samples | - |
| `Producer` | the producer, its buffer and the library's sending thread | - |
| `ProducerProofs` | theorems about `Producer` | `Producer` |
| `Connections` | how services, pages and the check get, lose and regain Postgres | - |
| `ConnectionsProofs` | theorems about `Connections` | `Connections` |
| `Marts` | staging, marts, golden tests and the pandas helpers as operators | - |
| `Generator` | the generator over every random stream | `Marts` |
| `Warehouse` | overlapping pipelines: loads, builds, locks, failures | `Marts` |
| `WarehouseProofs` | theorems about `Warehouse`, `Generator` and `Marts` | `Warehouse`, `Generator`, `FiniteSums` |
| `MCPure` | the enumerations of `Drift` and `Generator` one beside the other | `Drift`, `Generator` |
| `MCWarehouse` | a dataset of the generator's shape for `Warehouse` | `Warehouse` |

Operators whose comment starts with "Mutant of" stand before the definition they
alter. No behaviour uses them; they are the plausible bugs against which
each property was tried.

### How the processor's model corresponds to the code

`pc` is the place in `main()`; its values are listed in the module. One action
is one loop segment between two calls that other parties can observe:
`PollMessage`/`PollNothing` (lines 138-140), `IngestMessage` (143-150, with the
three outcomes of a message: folded in, skipped, raised), `SkipFlush`/`Flush`
(152-162: upsert, evict and the new `last_flush` together, since nothing else
reads them in between), `LeaveLoop`, `FinalFlush` and `Close` (163-171), `Start`
(a new process: 115-135). `windows` is the dict of the same name, `position` the
consumer's position, `committed` the group's offset, `due` the elapsed flush
interval, `stopping` is `not _RUNNING`.

Time does not appear as a number: a flush interval elapses whenever it likes.
Event timestamps are numbers, since windows are computed from them. A metric
value is an exact fraction. Event types other than `page_view` and `purchase`
are one value, `other`: they differ in nothing the metrics see. An event whose
type is not hashable behaves like `other` until it raises, *after* it was added
to the total (lines 74-75), and so `other` may also raise. Whether it does is
chosen at each ingestion, so a replayed message may raise once and not the next
time, which allows more than the code.

Faults are explicit and bounded: a crash anywhere, a failing upsert (before or
after its commit took effect; the `finally` block then fails on the same
connection), a poll error, a signal, a lost group assignment.

The library's behaviour - commits on a timer and at `close()`, positions that
advance when `poll` hands a message out, refetching after a lost assignment -
is not in the repository and is modelled from how `processor/main.py`
configures it.

`base`, `restarted` and `rewinds` are history. They record where the incarnation
began, that there was an earlier one, and how many assignments were lost; no action
reads them. `Rewound` says that one was.

### The abstract store and the refinement

`MetricsStore` says all that the alerter needs of the processor: rows are
written for whole windows, each time as the metrics of *some* nonempty set of
messages published for the window, and while nothing was lost (`lossy`) no
stored rate falls. `Processor!StoreRefined` states that the processor
implements it under `lossy <- Lossy`, where `Lossy` is "restarted, or some event
came after its window was overtaken". With a lost assignment, events *are*
counted twice; the refinement holds up to that step.

`Alerter` puts the alerter beside this abstract store, which keeps its state space
small and what is shown of it independent of how the processor does its work.
What the store leaves out, and what only the two together promise, is
for `StreamPulse`: the alerter polls the table the processor itself writes, with
every fault of either and lost assignments among them. Its steps are the
processor's with the alerter's variables unchanged, and the alerter's with the
processor's unchanged.

### How DataGuard's model corresponds to the code

A job is `seed && runner` or the runner alone. `pc[job]` names its next
transaction and `at[job]` the table. A demo table is the number of times the
seed rows are in it (or `Absent`): nothing else ever writes one, and the checks
see fractions only. `SeedFrame` is the profile of the generated data, with the
figures of `VERIFICATION.md:64-73`. `Checks` gives each result and the score
in ten-thousandths; applied to that profile it yields 100.00 and 64.04, which
`VERIFICATION.md:61` reports, and the property `GoldenUnlessDisturbed` compares
with those literals. `wallclock` is the environment variable
`DATAGUARD_USE_WALLCLOCK`, chosen at the start from `ClockModes`. Timestamps of
different runs under the wall clock are taken to differ.

pandas decides what an empty result looks like: columns of dtype `object`. So
on an empty table the schema check sees one good column of five, freshness
fails, and the other four checks pass.

### Drift

A sample is a bag, since quantiles, histograms and empirical distribution
functions ignore order. Quantile interpolation is exact in units of
`1 / Bins`. The infinite outer edges are finite ones beyond every value. Of the PSI the model knows whether it is zero: every term
`(a - e) ln (a / e)` is positive unless the proportions are equal. (The code's
floor of 1e-6 keeps that true for samples below a million values.) The
magnitude of a PSI above zero is not modelled.

### How the producer's model corresponds to the code

`counter` and `left` are the state of `stream_events` (the `seq` of the next event
and what is still to come of a tick's burst), `event` and `sent` the variables of
`main()`. `NextEvent` is the `for` (a signal is noticed only there, and costs
the event just drawn), `Produce` lines 88-91, `PollForRoom` the `except` branch's
`poll(0.5)`, `ProduceAgain` its `produce`, `Poll` lines 95-96, `Flush` 102-104. An
event is its run and its number: all that the properties tell apart.

The library is external: a message occupies the buffer (`queue`, then `reports`)
until a poll has served its delivery report; `poll(0.5)` comes back early when it
serves one. That no report comes within its half second, or not all within the
ten of `flush(10)`, is a fault and counts as such, as do crashes, lost requests
and refused messages. Without `enable.idempotence`, which `main()` does not
set, a request sent again may duplicate, and may be overtaken by what was queued
behind it. The real buffer holds 100,000 messages; that it fills needs a broker
that has been gone for a while, or a much higher `EVENTS_PER_SEC`.

### How the connections' model corresponds to the code

`pc[c]` is where a client stands: `connect`, `init` (the `CREATE` statements of
`init_schema`), `blocked` (waiting there for another's uncommitted creation),
`commit`, `ready`. `creator` holds the uncommitted creation. Who was blocked and
finds it committed fails on the duplicate key of the catalogue; who finds it
rolled back begins anew. `tries` counts as `_connect_with_retry` and the check's
`while` do. A service that gives up exits and compose restarts it (`Restart`).

The processor does not survive a lost connection (`ProcessorFails`: the upsert
raises, and so does the one in `finally`) - once it notices. It uses the connection
only when it has windows to flush (`processor/main.py:153` and `:164`), and has none
until its first event; after that `_evict` always keeps the newest. `buffered` says
that it has some, and `IngestEvent` is that first event. A processor without windows
holds on to a broken connection for as long as nothing is published. The alerter reconnects, because its
`rollback()` fails as well (`AlerterReconnects`, `alerter/main.py:103-108`). The pages
of the dashboard share what `st.cache_resource` caches: a page that finds its
connection broken clears *the cache*, and connects anew on its rerun
(`ClearAndRerun`); a page that cannot connect calls `st.stop()`, and only a reload
brings it back (`Reload`).

### How WarehouseLab's model corresponds to the code

`Generator` has one action per loop body of `generate_events`; `cursor` is the place
in the loops. Draws are choices from the ranges the code draws from, cut short.
`Marts` has one operator per model and per pandas helper, with their names, over
sets of rows. Days have `DaySeconds` seconds.

In `Warehouse`, `pc[p]` is the place of an invocation in `run_pipeline.sh`, and of the
Dagster job, which does not wait (`StartJob`). A transaction goes through the
locks of its `Script`, one action each, and waits while another holds a
conflicting lock; in which order the waiting are served is left open. A load locks `events`, `orders`, `users` for
`CREATE INDEX` and `TRUNCATE` and commits everything at once (`CommitLoad`). A mart
takes its snapshot (`BeginBuild`), locks what it reads (`LockForBuild`) and commits
(`CommitBuild`). Postgres documents that `TRUNCATE` is not MVCC-safe: a
transaction whose snapshot is older than the truncation finds the table empty,
which `stale` and `seen` record. `DeadlockDetected` aborts one of a cycle of waiting
transactions. `TransactionFails` stands for any statement that fails, the clash
of dbt's temporary table names in two builds of one mart included. `dbt deps`
has no state here.

## Runs

Passing runs (`expect: pass`):

| Run | Bounds | Shows |
|---|---|---|
| `processor` | windows of 2 s, retention 1, timestamps 0, 3, 4, log of 3, 1 fault | rows count distinct events (`RowsFromDistinctEvents`); memory equals the aggregate (`MemoryIsExact`); a stop through `finally` stores all (`CleanStopStoresAll`); a rate overcounts by no more than one count of its events per lost assignment (`OvercountBounded`); rates fall only after a loss (`RowsOnlyRefined`); memory is bounded (`FlushBoundsMemory`); the abstract store is implemented (`StoreRefined`) |
| `processor_live` | timestamps 0, 4, log of 2, 2 faults | no message wedges the consumer (`EveryMessagePassed`); without loss every event reaches its row (`EveryEventReflected`) |
| `alerter` | timestamps 0, 3, log of 3, clock to 3, 1 failure | an alert names a metric, a window and a value its events have, and that breaches the limit (`AlertsJustified`); rows stay above it until a loss (`RateAlertsBelowRows`); breaches that last are reported (`BreachesReported`) |
| `streampulse` | one window, log of 2, 1 fault of the processor, 1 failed pass, clock to 3 | a rate alert overstates what was published by one count of it for every lost assignment, and by nothing else (`RateAlertsTrue`); a surge of the topic is reported by the alerter in the end (`SurgesReported`) |
| `dataguard` | 2 jobs and the API, fixed time and wall clock 60 h on | seeding leaves no table empty, undisturbed runs give the documented scores (`GoldenUnlessDisturbed`), what the others met half seeded shows in theirs (`DisturbanceShows`), results are whole, answers are of one run; with the wall clock the latest run is the most recent, the chart shows every run, finished runs are answered |
| `pure` | samples of up to 4 values out of 4, 3 bins | every value counted once (`EveryValueCounted`), KS is the largest gap (`KsIsLargestGap`), same distribution is stable (`SameDistributionStable`) |
| | 2 users, 2 days of 2 s, up to 3 events and 2 orders | a session counts for its day and no other (`DauCountsSessions`); SQL and pandas agree on every day (`MartsAgreeWithHelpers`); the user dimension and the day marts agree (`MartsReconcile`) |
| `warehouse` | 2 pipelines, `fct_revenue_by_day` and `dim_users`, 2 attempts, 1 fault | raw tables and marts are of whole loads or empty (`MartsOfWholeLoads`); who ran alone and succeeds leaves the marts populated (`AloneMeansPopulated`); deadlocks and lost creations never take all (`SomePipelineSucceeds`); every pipeline ends (`EveryPipelineEnds`) |
| `producer` | buffer of 3, bursts of 2 every 2 events, 5 events, 2 runs, 2 faults | no counted event vanishes (`NothingVanishes`); the topic has a prefix of the stream unless the library had to repeat (`RunIsPrefix`); a faultless stop delivers what it counted (`CleanStopDeliversAll`); a stop ends (`StopsWhenTold`) |
| `connections` | 2 services, 2 pages, the check; 2 attempts, 2 passes, 1 outage | who is connected finds the tables (`ReadyMeansSchema`); the race for the schema costs a service one attempt (`RaceCostsOneAttempt`); once Postgres stays, the alerter has a working connection again and the processor has one as soon as it has consumed anything (`ServicesComeUp`), and pages show data again (`PagesRecover`) |

Violation runs, each a sentence of the repository that the code does not keep
(`findings` in `PROJECT.json` quotes it):

| Run | What happens |
|---|---|
| `processor_late` | without any fault, one late event resets the rows of a closed window |
| `dataguard_ties` | runs with equal `run_ts`: "most recent" goes back |
| `warehouse_success` | a load commits between a build's snapshot and its lock: `SUCCESS: marts populated` over an empty mart |

Other sentences that reading the code contradicts, with no run of their own:

* a restart resets rows as a late event does: windows live in memory, the committed
  offset outlives them, so the next process counts only what follows and its first
  upsert replaces fuller rows (`processor/main.py:14-15`, "so a window is continually
  refined as more events arrive"; a message of an unhashable type is enough, and
  `RowsOnlyRefined` excuses restarts);
* a flush keeps `RETENTION_WINDOWS + 1` windows (`processor/main.py:26`, "how many
  recent windows to keep"; `FlushBoundsMemory` has the `+ 1`);
* the "breach fired" gate of `e2e_check.py:8-9` is met by the conversion alert of
  a quiet window;
* a window without page views has conversion 0 and raises the alert
  (`metrics.py:23-25`);
* a constant baseline never shows drift: all its edges coincide, and the opened
  outer edges take in every value (`drift.py:98`);
* all sessions of the dashboard share one connection (`dashboard/app.py:42`, "One
  pooled connection per Streamlit session"), and a page whose connect fails stops
  instead of reconnecting (`dashboard/app.py:70`);
* with equal `run_ts` the trend chart has one point for all runs
  (`dashboard/app.py:96`, "build history"; `TrendShowsEveryRun` is checked with the
  wall clock);
* `/scores` of an unfinished run lacks tables (`dataguard/README.md:106`);
* `/results` without a `run_id` returns all runs (`dataguard/README.md:105`).

### Why these bounds are enough

*Processor.* Windows interact only through the retention horizon, and the
horizon compares two starts. Timestamps 0, 3, 4 with 2-second windows give
starts 0, 2, 4: a window inside, at, and beyond the horizon of the newest.
Three messages let an event arrive, be overtaken, and be followed by a late one;
one fault lies between any two of these steps. Liveness has one message less
and one fault more, since there it is the repetition that matters: a poison
message and then a crash. 3 is odd, so that rounding and truncation
differ.

*Alerter.* One event per two-second window is 30 events per minute, the limit
itself, and two are above it; 50 percent lies between the rates that three
messages can form. The clock reaches the moment when the first window leaves
the lookback.

*StreamPulse.* A truth about one alert and one window needs one window: one event
does not breach the limit, two do, and one event counted twice does so falsely. One
fault is a lost assignment, a crash or a failed upsert; what several add up to is the
theorem's. A second window changes no more than the eviction that `processor` checks,
and takes the run beyond its time, as a second fault does.

*DataGuard.* Two jobs exhibit every pair of transactions in either order; a
third could only repeat the second. No property is about more than two tables.

*Drift.* Four values and four observations reach every branch: duplicate
quantiles, one-value baselines, current values outside the baseline's range,
positions that need interpolation.

*Producer.* A buffer of three lets a message wait to be sent again while another
overtakes it and a third is answered; five events fill it and go on; the
second event of a tick's burst begins in a full buffer. Two faults are a lost
request and its repetition, or a crash and an unanswered flush.

*Connections.* Retries interact with nothing but their limit; 2 is the least
that lets a client fail once and go on (the proof takes any number above 1). Two
pages share, break and clear one cache; one outage meets every place of every
client, and none lies ahead while the others recover. Whether the processor has
consumed anything when it comes is left open.

*Generator and marts.* Days meet at one boundary, users differ in having events,
orders, both or neither: two of each suffice, and a third event lets one user have
two. `MCPure` runs them and `Drift` one beside the other: neither waits for anybody, and
they share nothing, so a behaviour is one of the one or of the other.

*Warehouse.* A cycle of waiting transactions has two members: load and load, or
load and `dim_users`. `fct_daily_active_users` locks one table as
`fct_revenue_by_day` does and only enlarges the instance; `warehouse_success` has
all three marts.

`CHECK_DEADLOCK FALSE` appears where the system ends: all jobs of DataGuard are
done with nothing stored, the inputs of `Drift` or the draws of `Generator` are used
up, the last run of the producer or all pipelines have ended. The processor, the
alerter and the connections are checked for deadlock.

### Fairness

*Processor:* weak fairness of the loop (a process that is scheduled goes on), of
`FlushBecomesDue` (time passes), of `AutoCommit` (the library's timer) and of
`Start`: compose restarts the container (`restart: unless-stopped`), and after a
`docker stop` somebody starts it again. Strong fairness of `PollMessage`: `poll`
may time out although the broker holds a message, but not each time. Faults are
never fair. *Alerter:* weak fairness of the two halves of a pass; neither the
store nor the clock has to move. *StreamPulse:* both of these; nobody has to
publish. *DataGuard:* weak fairness
of the two queries (somebody keeps asking the API); no job has to go on. *Producer:* weak
fairness of the loop (endless generators do not end it) and of the library's
deliveries. *Connections:* weak fairness of each service (with its restart by
compose), each page (with its reader's reload) and the check. Nothing makes an event
arrive (`IngestEvent` is not fair), so a processor may wait for its first one forever.
That readers reload a stopped page is a premise, not something the code sees to. Postgres has no
restart policy in `docker-compose.yml`, so its return is no fairness but the premise
`<>[]up` of both properties. *Warehouse:* weak fairness of each started pipeline
and of deadlock detection; nobody has to start one, and Postgres need not come
back.

## Proofs

`ProcessorProofs` holds for every window size, retention, set of timestamps,
log bound and number of faults. It uses the named assumptions of `Windowing`,
`EventLog` and `Processor` and nothing else.

* **`TypeCorrect`**: `Spec => []TypeOK`. One lemma per operator gives its type
  (`IngestType`, `EvictType`, `ComputeMetricsType`, `UpsertType`, ...), and
  `TypeStep` goes through the actions.
* **`RowsSound`**: `Spec => []RowsFromDistinctEvents`. The property is not
  inductive: an upsert writes what is in memory, so memory must be sound as well,
  and a replay after a restart must begin with empty windows. `RowsInv` adds both:
  `WindowsFromDistinctEvents` (each window is the aggregate of distinct messages
  whose ingestion is over) and `OffsetsOrdered` (base, committed, position and
  log are in order, a message in hand is newer than base, and no process means
  no windows). The step splits into `OffsetsStep`, the window part (`IngestSound`:
  adding the message in hand, which is in no window's set yet, by `AggregateAdd`;
  `WindowsKept` for eviction and the rest) and the row part (`UpsertSound`,
  `RowsKept`). Publishing moves no earlier message (`PublishStable`).
* **`MemoryBounded`**: `Spec => FlushBoundsMemory`. `RetainedBound` injects the
  retained starts into `0 .. RetentionWindows`: they are multiples of the window
  size within `RetentionWindows` windows of the newest.

`ProducerProofs` holds for every burst pattern, capacity and number of events,
runs and faults.

* **`ProducerSound`**: `Spec => []ProducerInv`, which conjoins types (the bound on the
  buffer among them), `LoopCounts` (between events the generator is exactly
  as far as `sent`; with an event in hand it is one ahead), `ReportsHold` (a report
  of success is true) and `NothingVanishes`.
* **`CountedEventsAccountedFor`**: `Spec => []NothingVanishes`. On its own the property is
  not inductive: a poll discards reports, so those of success must be in the
  topic, and the event a `produce` accepts must be the one `sent` will count. The
  steps of the library are `AnswerKeeps` (a message moves from queue to reports,
  by `RemoveAtRange` and `AppendRange`) and `SentInVainKeeps`; those of the loop are
  `EnqueueKeeps` and `ServeKeeps`, put together in `LoopKeeps`.
* **`TopicHasPrefix`**: `Spec => []RunIsPrefix`, and **`CleanStopDelivers`**: `Spec =>
  []CleanStopDeliversAll`, both from `StreamInv`. Unless something was repeated or
  given up, topic and buffer *together* are the stream so far: the buffer goes on where the
  topic ends, up to the last event handed over (`QueueFollows`), so only its head can be sent
  and what arrives is the next number (`ArrivalKeeps`, `EnqueueFollows`). A flush that leaves
  nothing in the buffer has then delivered all; that the numbers in the topic are 0 to
  `sent - 1` is a fact about ranks (`RanksCover`).

`ConnectionsProofs` holds for any number of pages, attempts and outages.

* **`ConnectionsSound`**: `Spec => []ConnInv`: types, `AttemptsLeft` (nobody tries more often
  than its loop allows), `ConnectingHasLink`, `CreatorCommits` (the open creation is
  of a client about to commit it, over a live connection) and
  `HandedOutWithSchema`. `OwnStep` says once what a step of one client leaves alone;
  `ClientStepKeeps` goes through the actions, `OutageKeeps` is the one step that
  touches all clients.
* **`SchemaReady`**: `Spec => []ReadyMeansSchema`, from `CreatorCommits` and
  `HandedOutWithSchema`.
* **`RaceBounded`**: `Retries > 1 => (Spec => []RaceCostsOneAttempt)`. `OnlyTheRace` strengthens
  it: while there was no outage, no connection is dead, and a service that has
  lost an attempt lost it to a creation that is committed - so it is never
  blocked again.

`EventLogProofs` has what the processor's and the alerter's proofs share: the types of
the operators (`IngestType`, `UpsertType`, ...), what one more message adds to an aggregate
(`AggregateAdd`), and that a larger set has no smaller rate (`RateMonotone`).

The rest of `ProcessorProofs` is about what memory and rows know of the messages
consumed.

* **`WindowsExact`** and **`CleanStopSound`**: `Spec => []MemoryIsExact` and
  `Spec => []CleanStopStoresAll`. Exactness is lost by eviction, and
  eviction is decided by the newest window *in memory*. So the invariant needs
  `WindowsFromConsumed` (a window in memory has counted something that this
  incarnation consumed: only consumed events push the horizon on); with it a
  window that a flush evicts has been overtaken (`CurrentExact`). Such a window is
  either still exact or was evicted by a flush that had stored it
  (`ExactOrStored`), which is what the final flush completes.
* **`RatesOnlyRise`**: `Spec => RowsOnlyRefined`. In the first incarnation a stored rate
  is that of *some* consumed messages of its window (`RowsFromConsumed`); what a flush writes
  is the rate of all of them unless one came too late, and rates grow with the set.
* **`StoreImplemented`**: `Spec => StoreRefined`, the refinement. Initial states map to initial
  states; a publication maps to `StorePublish`, a flush to `StoreRefresh` with the sets of
  messages that `RowsSound` provides, the first restart or late message to
  `StoreLoses`, everything else to a stutter.
* **`OvercountSound`**: `Spec => []OvercountBounded`, the bound being `1 + rewinds` counts of
  the events. `OvercountInv` bounds what a window counts
  by `Rounds` times its events *before* the current round and once the
  events since the last rewinding; a rewinding opens a round.
* **`RateAlertsAreTrue`**: `StreamSpec => []RateAlertsTrue`, about processor and alerter together.
  `StreamInv` adds to what `OvercountSound` knows of the rows that rows come in pairs
  (`RowsPaired`) and that no rate an alert carries, stored or in hand, is above
  `1 + rewinds` counts of the published events (`RatesCovered`). The alerter takes
  rates over from the rows (`AlerterKeepsCover`); the processor only publishes, loses
  assignments and rewrites rows, and so never lowers the cover (`ProcessorKeepsCover`).
  What is above the limit is then below what was published.

`AlerterProofs` is about the alerter beside the *abstract* store, for any thresholds,
lookback and number of failures; together with `StoreImplemented` it holds beside the
processor, up to the loss of an assignment.

* **`AlertsJustifiedAlways`**, **`RateAlertsStayBelowRows`** and
  `AlerterTypeCorrect`, all from `AlerterInv`. It says of the pass in hand what the
  properties say of the stored alerts, since rows may change between the two
  transactions (`Justified(pending)`, `BelowRows(pending)`), and of the rows that each
  is the value of some published messages (`StoreSound`). A refresh keeps rates up
  while nothing was lost; a publication only adds messages a justification may
  choose from.

`DataGuardProofs` holds for any finite set of jobs, either clock and any number of
copies of the seed rows in the tables.

* **`SeededOrSeeding`**: `Spec => []EmptyOnlyMidSeed`, inductive with the seeders' places
  (`SeedInv`).
* **`RunsAreWhole`**, **`AnswersAreOfOneRun`**, **`TrendShowsAll`**, **`ApiFollowsLatest`**: `RowsInv` says
  that the results of a job and table are those of one battery over one frame, or
  none, according to the job's place; `OrderInv` that runs begin in an order
  without ties; `ApiInv` that the API holds a run that stored something and is no
  older than its last answer.
* **`UndisturbedRunsAreGolden`**: `Spec => []GoldenUnlessDisturbed`, and `GuardTyped`:
  `Spec => []TypeOK`, in which scores stay within 0 and 100 percent. These are about
  `score_table`, which adds up over a set of results. `BatteryFacts` says that a battery
  is six results, `SixSummed` that their sum is six summands, `SeedScores`
  computes the two documented figures for every number of copies (and 80.71 for the
  drifted orders without a baseline), and `SeededInv` that an undisturbed run
  reads at least one.
* **`DisturbanceIsShown`**: `Spec => []DisturbanceShows`. Every stored table score is that of
  *some* number of copies and *some* baseline; the schema check passes unless there were
  no copies (`BatteryVerdicts`), and none at all score 63.33 (`EmptyScores`), less than either
  documented figure.

From "Samples" on it is about `Drift`, for any two samples, any range of values and any
number of bins. The properties are facts about every pair of bags; of the state
machine only `SamplesInv` is needed, that they are bags.

* **`HistogramsLoseNothing`**: `DriftSpec => []EveryValueCounted`. Edges are a finite set of
  integers with a least and a greatest beyond all values (`EdgesOpen`); then every value
  lies in the bin of the greatest edge at or below it (`BinsCover`) and in no other (`BinsDisjoint`), and counting
  by bins is a partition of the sum of the sample.
* **`SameNeverDrifts`**: `DriftSpec => []SameDistributionStable`: proportional samples have
  proportional counts in every bin (`SharesEqual`).
* **`KsFindsLargestGap`**: `DriftSpec => []KsIsLargestGap`. Between observed points neither
  distribution function changes, so the gap anywhere is the gap at the last observed
  point, or zero before the first; if it is zero everywhere, the samples agree
  value by value.

`WarehouseProofs` holds for any finite set of pipelines, any set of models and any dataset.

* **`MartsAreOfWholeLoads`**: `Spec => []MartsOfWholeLoads`. The argument is in the locks:
  a load holds all of its conflicting locks until it commits, so no load commits between a
  build's first and last table (`LoadsExcludeBuilds`, over the prefixes of the two scripts that
  have been acquired), and what a build saw is what is there now, or nothing anywhere if its
  snapshot is old (`SeenAtOnce`). `WarehouseTyped` is the type part.
* **`AlonePopulates`**: `Spec => AloneMeansPopulated`. `AloneInv` follows a pipeline that nobody
  overlaps from the commit of its load (the raw tables are the data) through each
  model (its snapshot is not old, its mart is of the data); `NodesFollow` keeps dbt's
  nodes in step with the pipeline's place.

* **`OneSucceeds`**: `Spec => []SomePipelineSucceeds`, if there are pipelines, the wait makes an
  attempt, and the amounts of the dataset can be added up; for any number of pipelines.
  The property speaks of ended pipelines, so `OneLeft` follows those that go on: without
  faults some pipeline is not `Doomed` - has not failed, has no failed node, and does not wait to
  create a schema that is there. Whoever commits a load is such a one, and so is who blocks
  the victim of a deadlock: it holds a lock while it waits (`WaitsHolding`), so it is a load,
  or the `dim_users` of a pipeline whose other nodes cannot have been victims. That no golden
  test fails (`MartsPass`) is `MartsAreOfWholeLoads` and the agreement of SQL and pandas again.

From "What the generator has written" on it is about `Generator` and `Marts`, for any
number of users, days and rows, any length of a day, and any amounts.

* **`GeneratorSound`**: `GenSpec => []GenInv`: finitely many rows, each of a generated user,
  and the session of an event that of its user and *the day its timestamp is on*, which
  `DateOfTimestamp` shows of every second the code may draw.
* **`ActiveUsersAreSessions`**: `GenSpec => []DauCountsSessions`: on a day, sessions and users
  correspond one to one (`SessionsAreUsers`).
* **`SqlAgreesWithPandas`**: `GenSpec => []MartsAgreeWithHelpers`: a mart's row and a helper's value
  are the count and the sum of one set of rows (`DauMart`, `RevenueMart`).
* **`MartsTellOneStory`**: `GenSpec => []MartsReconcile`. Rows grouped by a key, by user or by
  day, are counted and added up once each (`CountsByKey`, `AmountsByKey`); a user without
  events or orders has zeros (`UserRow`); who is active on a day has first and
  last events around it (`ActiveWithinSpan`).

`FiniteSums` is what the last two modules need of sums. The library defines a sum over a
set by a recursive function, and no induction theorem of the library can be
used. The module therefore argues from the well-foundedness of strict inclusion of
finite sets: there is a least subset at which a claim fails (`LeastSubset`,
`GrowingSets`). From it, the defining equations determine the sum (`SumUnique`) and have a
solution (`SumExists`), the members may be added in any order (`SumRemove`), sums scale,
and a sum by groups is the sum of the whole (`SumPartition`).

The type invariants of all state machines are proved and not in the runs.

Model-checked only:

* the liveness properties (`EveryMessagePassed`, `EveryEventReflected`, `BreachesReported`, `SurgesReported`,
  `FinishedRunsAnswered`, `StopsWhenTold`, `EveryPipelineEnds`, `ServicesComeUp`,
  `PagesRecover`): they rest on fairness, which is out of the prover's reach.

## Plan

Done: all three systems as above, with every safety property of the passing runs
proved. What is left, in this order:

1. What else is proved of the alerter beside the abstract store (`AlertsJustified`,
   `RateAlertsBelowRows`) carried over to `StreamPulse`, by the refinement `StoreImplemented`.
2. The checks' error paths (missing columns, unknown check types) once an
   expectation file configures them.

## Not modelled, and why

The documentation site, the Docker and make files have no state of their own; of
the dashboards only the connection and the trend chart have any. What the gates
of `e2e_check.py` count is left open. The producer's weighted draw of types,
users and sessions only chooses inputs, and the models allow all inputs; so do
countries, plans and event types in WarehouseLab, which no model computes with.
`generate_batch` and `tumbling_windows` run in unit tests only (the latter is the
reference that `EventLog!Aggregate` states). dbt's generic tests (`unique`,
`not_null`, `accepted_values`) hold for whatever the models compute. Floating-point
rounding is left out: metric values are fractions, scores are rounded down to
ten-thousandths. A clock that steps back, and two runs in one microsecond, are
left out of DataGuard. `created_at` of an alert may be old (the alerter's
query leaves its transaction open while it sleeps), but nothing decides on it.
Messages' ids repeat when the producer restarts; nothing reads them.
