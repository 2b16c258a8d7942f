# Verification of Sentinel-Imagery-Analysis

TLA+ models, TLC instances and TLAPS proofs kept beside the Python code of
`src/sentinel_analysis`.  The application watches Areas Of Interest (AOIs) for
satellite passes, collects AIS positions around a pass, ingests the SAR product
when the catalogue has it, detects ships, matches them with AIS, and lets
analysts review the result.  Its hard part is not the image processing: it is
several processes and many threads that share one SQLite file and one tree of
scan folders.  That is what the models are about.

Contents: 1 inventory, 2 plan, 3 the models, 4 runs, 5 bounds, 6 fairness,
7 findings, 8 proofs, 9 what is only model-checked, 10 what is not modelled.
Paths are below `src/sentinel_analysis` unless they begin with `src/`.

## 1. Inventory

### 1.1 Processes, threads and shared state

`src/wsgi.py` builds one application per gunicorn worker (2 to 4 processes of 4
request threads, recycled every 1000 requests).  Every process has its own
background machinery: a task queue with a thread pool, a scheduler worker with
two timed jobs, and a pass monitor with one thread or timer per satellite pass.
The development server `src/app.py` has in addition the shutdown coordinator
with its signal handlers and watchdog; under gunicorn nobody installs them and
nobody calls `container.shutdown`.  They share

* the SQLite database (WAL, foreign keys on).  `SQLiteDatabase.connection` uses
  Python's legacy transactions: a SELECT before the first write runs in
  autocommit, the first write takes the database's write lock until commit.
  "SELECT, decide, UPDATE" in one `with connection()` block is therefore NOT
  atomic; "UPDATE ... WHERE condition" is.  `executescript` commits first and
  then commits every statement by itself;
* the scan folders, archives, baselines and cached tiles on disk, without locks;
* nothing else: every table in memory (tasks, monitors, leader flag, alerts
  already met, access tokens, rate limits) is per process, and shared by the
  threads of that process.

### 1.2 Components

| component | state | operations | hard | correct when |
|---|---|---|---|---|
| scheduler leader lease | row of `scheduler_leases`; leader flag and heartbeat per process | acquire (also the renewal), release, start, stop, two cycles | one acquire per cycle, none in it; clock read before the write lock is waited for; faults, deaths | one process believes in a fresh lease; a standby takes over |
| post-pass jobs | rows of `post_pass_ingestions`; a batch per ingestion thread | add, expire, due query, claim, recover, update, retry, delete, `execute()` | claims have no owner; `update()` is by id; claims outlive their worker's patience; read-then-update | one worker per job, one scan per pass, completed stays completed, every job ends |
| background task queue | rows of `background_tasks`; memory, futures, heartbeats | submit, wrapper, progress, get, cancel, recover, shutdown | futures cancellable before they are known; memory overwritten by unlocked reads; recovery of live rows | ended tasks are recorded and stay ended; none hangs |
| shutdown coordinator | flag, watchdog, two locks, a stack of signal frames | signal, request, watchdog, clean-up, exit | handlers interrupt handlers, locks are not reentrant | the deadline runs, a normal exit has cleaned up |
| pass monitor, automatic AIS | one entry, thread and timer per pass and process; `automatic_ais_runs` | schedule, tick, claim, scrape, cancel, stop, hand over | entries replaced under their threads, several processes on one pass | a minute is scraped once, the pass is handed over |
| AIS ingestion | scraper rows, logs | run, cool down, edit, reconcile | health read before the fetch and written after | cooldowns last, disabled stays disabled |
| provider fallback | health and quota rows | dispatch along a chain, charge, operator edits | tested before, charged after | overrun bounded, one acquisition |
| AOIs, budget, forecasts | AOI row, forecast row | edit, spend, check, delete | read-merge-write of a whole policy | money counted once, no orphan forecast |
| scan store | scan folders, archives | create, delete, archive, clean up | names tested then taken; tar, rename and rmtree race | no scan lost or mixed |
| review workflow | review and history rows | synchronise, submit, second opinion | record and history in separate transactions | the trail explains the record |
| migrations, settings | schema, version rows, settings | migrate, seed, update, reset | processes start together and die between statements | a server has the whole schema; settings are kept |
| scan analysis | files of a scan, shared ghost list | analyse, rename, delete | minutes between read and write back; an attribute shared by threads | catalogue agrees with results |
| AIS correlation | candidates, ranking, matches | fetch, gate, rank, assign, assess | greedy order, ties, late vessels | stable matching, nothing reported twice |
| pass alerts | set of events met, per process | evaluate, dispatch | test before note, dispatch after | a new alert is sent once |
| tile downloads | cache entries, temporary files, token | look up, download, store, publish | one temporary name for all writers | a scan gets a whole picture |
| geofences | zones and their boxes | filter, ray casting, rules | borders, vertices, closed boxes | divided zones report each target once |
| request limits | timestamps of each client, per process | check, refuse, key test | the clock is read before the lock is waited for | no window has more than the limit |
| AOI baselines | one file per AOI | discover, read, cluster, save, get | centroids drift; one temporary name for all writers | lasting structures are in it; it can be read |
| vessel registry | vessels, their positions | save, correct, turn pages, count | pages and counts are queries of their own while vessels report | whoever turns all pages meets every row |
| relationship graph | none (a request) | merge, link, spread risk, cut out, limit | undirected edges, repeated spreading, two cuts | the neighbourhood asked for, risks bounded by their source |
| scores, plugins, catalogues, detection, reports, web, domain, front ends | see section 10 | | | |

They interact through calls (the scheduler's cycles call the AOI checks and the
job dispatcher; a job creates a scan and starts its analysis; an analysis
correlates, checks geofences and alerts), through rows (a monitor hands its job
over by an update; the review queue and the forecasts hang on AOIs and scans by
foreign keys), and through callbacks (the shutdown coordinator stops the queue
and the scheduler).  `PROJECT.json` lists every component with its files, and
every hazard at its line with the properties that cover it.

## 2. Plan and what became of it

1. What several processes do to one table: `SchedulerLease`, `PostPassJobs`,
   `TaskQueue`.  Done and proved.
2. `PassMonitor` with the AOI checks, the tick claims, `trigger_poll` and the
   foreign key that blocks AOI deletion.  Done.  It is not composed with the
   lease: `trigger_poll` runs checks in any process without it, so the model
   lets every process run them at any time.
3. The read-call-write protocols: `AisIngest`, `ProviderFallback`,
   `AoiRecords`, `ReviewCases`.  Done.
4. The file protocols and the start: `ScanStore`, `Startup`, `ScanAnalysis`,
   `TileDownloads`, and the baselines of `PassSeries`.  Done.
5. Refinement: `LeaderReign`, implemented by `SchedulerLease`: a PROPERTY of
   lease_two and a theorem.  Done.  A claim service refined by `PostPassJobs`
   is not stated: late workers and monitors break every form of it, which is
   what `FirstClobberIsLate` says precisely.
6. Algorithms: `AisCorrelation`, `RequestLimits`, `Geofences`, `PassAlerts`,
   `RelationshipGraph`.  Done.
7. `VesselRegistry`: records, corrections and the pages of the explorer.  Done.
8. Every safety and action property of the runs as a theorem.  Done: section 8
   names the inductive invariant of each.
9. Open: the comparison of repeated passes.

Each module declares its parameters as CONSTANTS with named assumptions, has
one action per operation, and uses no recursive operator, so that it can be
proved about.

## 3. The models

Comments in each module name the code of each action.  Definitions whose
comment begins with "Slip:" are mutations of the definition after them:
plausible mistakes that the properties must detect.  No specification uses them.

### 3.1 SchedulerLease, LeaderReign

`Worker` is one PassSchedulerWorker (a restarted process draws a new owner id,
so it is another member), `Job` its timed jobs.  A cycle is `BeginCycle` (the
timer fires, the stop check passes), `EnterAcquire` (mutex taken, clock read
into `snapshot`), then `AcquireWin`, `AcquireLose` or `AcquireFault` (the upsert
evaluated when the write lock is obtained, with the old `snapshot`), and
`EndCycle`.  `StopRequest`, `Release`, `ReleaseFault` are `stop()`; `Crash` the
death of the process.  `isLeader` is the flag that `is_leader` returns;
`heartbeat` is the time of the last successful acquire, which the program only
reports: `Fresh` (younger than a TTL) is this project's bound on how long the
flag deserves belief, given by what the row promises.  `lease` is the row.  `LeaderReign` is what election promises: a reign
is taken only when nobody reigns, is only prolonged, and ends by itself within
a TTL of the last renewal.  The refinement maps the row, if it has not
expired, to the reign; a failed renewal that drops the flag leaves the reign.

### 3.2 PostPassJobs

`row[j]` is the job's row.  One UPDATE with its condition is one action; a
SELECT whose result guards a later UPDATE by id is an action of its own:
`DeleteCheck`/`DeleteWrite`, `MonitorFind`/`MonitorWrite`,
`DispatchExpire`/`DispatchDue`.  `MonitorFind` may come at any time: the
hand-over comes before the end of the pass when its process is closing (when
it comes is `PassMonitor`).  `execute()` of a worker is `ClaimDue` or
`ClaimOne`, then per job `TakeJob` or `AoiMissing`, `Match`, `CreateScan`,
`Complete` or `GiveBack`, with `UpdateFault`, `HandlerFault`, `RowGone`, `Crash`
where the code can fail, and `Abort` for an exception that leaves `execute()`.
`Write` is `update()`: by id, unconditionally, with the `now` of the claim.
`claimant` and `clobbered` are history variables.

The clock ticks in hours.  Below that scale, and so instantaneous, are the five
minutes a finished pass is given and the pace of worker waves; how many workers
a wave has is over-approximated (`CallWorker` may call any idle worker at any
time, as `poll_all` does).  FAILED rows are unreachable: the only write of
FAILED follows a missing AOI, whose deletion has removed the row, so that
`update` raises (`AoiMissing`).

### 3.3 TaskQueue, ShutdownCoordinator

`db` is the table, `mem[p]` the `_tasks` of a process, `pos[t]` the place of a
task's submission and then of its thread.  A critical section with its
`_persist` is one action.  `Submit`, `Enqueue` and `Track` are the three parts of
`submit()` between which other threads act; `Begin`, `BeginStopped`, `Finish`,
`ThreadFault` the worker wrapper; `Read`, `Load`, `Cancel`, `CancelRefused` the
requests; `Start`, `RecoverSelect`, `RecoverWrite`, `RecoverRemember` recovery
at start and by request; `Stop`, `StopTask`, `Close`, `Exit`, `Crash` the end of
a process.  `lease` of a row is "live", "expired" or "none"; `Lapse` is the
heartbeat's limit passing.  `foreign` is history: the tasks something outside
their owner's lock rewrote.  Submission ids are taken to be unique, as the
callers make them.  `cancel_task` would block on its own lock for a task
unknown in memory, but the route calls `get_task` first.

`ShutdownCoordinator` is the end of `src/app.py`: Python runs a signal handler
between any two steps of the main thread, another handler included, so the
state is a stack of frames (`Signal` pushes one), the holder of each of the
locks, the flag and the watchdog (the lock "queue" stands for every lock the
clean-up takes that is not reentrant: the queue's, the monitors' registry, the
stop events); `Raise` is the exception that leaves a handler
and abandons the frames below it.

### 3.4 PassMonitor

Per process the registry entry of the pass with its thread, timer and cancel
event; replaced entries are kept because their threads live on.  The thread's
loop is `LoopTop`, the claim of the minute in `automatic_ais_runs`, the scrape
and the wait; its end is the hand-over.  `job` is the post-pass job as far as a
monitor sees it: not there, PENDING_PASS, or later.  It is added by the claim
of a minute (`ClaimMinute`) or from a form (`FormRegisters`), and moved on by
`HandOver` or by a poll cycle (`PollTakes`); `HandOver` passes over a job that
is missing or not PENDING_PASS, and a database call that fails in it is
swallowed: the thread is "lost" and that monitor never tries again.  The calls
of a claim may fail as well.  Schedule cycles, requests that stop a monitor or
delete the AOI, the closing and the death of a process run beside it.  The clean-up in `get_active_monitors` has no
effect on this protocol and is left out.

### 3.5 AisIngest, ProviderFallback (composed in MCCollection)

`AisIngest`: a run reads the plugin's row (`seen`), fetches, stores records,
writes health back and closes its log; edits of the scraper dashboard are read
and write; reconciliation fails logs it takes for stale.  `ProviderFallback`: a
dispatch walks its chain; health and quota of a provider are each a read and a
write; a dispatch that succeeded is not undone when the bookkeeping raises.

### 3.6 AoiRecords, ReviewCases, Startup, ScanStore, RequestLimits, PassSeries, VesselRegistry (composed in MCRecords)

`AoiRecords`: an edit reads the row, merges, writes five policy columns; an
expenditure reads once more before that.  `ReviewCases`: submissions and
synchronisations upsert a review and then write history (a submission may
bring a corrected box, which its entry then tells of).  `Startup`: workers
run the migration scripts statement by statement, with the version row in a
transaction of its own, then seed settings.  `ScanStore`: names are tried in
order; `prepare` makes a folder; picture and metadata are moved in; archivings
tar, rename and remove.  A deletion finds the scan (`FindToDelete`) and then
removes whatever has its name by then (`DeleteScan`), or stops half-way
(`DeleteFails`).

`RequestLimits` is one client's sliding window in one process: `Arrive` reads
the clock, `Allow` or `Refuse` holds the lock, `CheckKey` comes after.
`allowed` is every timestamp ever allowed, `kept` the ones the code still
holds.  `PassSeries` is a backfill of an area's baseline: the scans are read one
by one, clusters grow detection by detection (`Join`; a cluster is the sum and
the number of its members, so that distances to its centroid are whole
numbers), and `save()` opens, writes and moves a temporary file that other
backfills may have open.

`VesselRegistry`: both tables are sequences in the order of their ids.
`SaveRecord` overwrites the vessel of its IMO and MMSI and appends a position;
`UpdateVessel` is an analyst's correction.  `reader` is one user of the explorer
who turns page after page: `Entries` is the query without its limit, `Above` its
order, and page and count are two steps.  Its last three fields are history.

### 3.7 ScanAnalysis, AisCorrelation, PassAlerts, TileDownloads, Geofences, RelationshipGraph (composed in MCIntelligence)

`ScanAnalysis` has one action per step of the pipeline that writes a file or
state that another step reads.  A `write_text` that fails leaves the file as it
was or cut short (`Torn`), which the readers take for no file; the exceptions
are swallowed.  Saving results is `OpenImage` (makes the folder, reads the
image), `DrawOverlay` and `SaveDetections`; change detection is
`FindReference`, `CompareImages` (makes the folder, reads both images),
`DrawChangeMap` and `TagChanges`.  Every picture in the folder counts, since the
catalogue lists a scan by any picture.  `AisCorrelation` abstracts geometry to inputs
(lag, distance, inside or not, score) and keeps the control of `execute()`.
`PassAlerts` separates the test of what is new from its note and the dispatch.
`TileDownloads` names cache files by who created them (an inode), since one
writer's file may be renamed, truncated or, when a rename fails
(`UnlinkEntry`), removed by another.  `Geofences` computes
with points of a grid, exactly: the code's quotient is multiplied out, so what
floating point rounds is not covered.  `RelationshipGraph` follows one request
of `BuildRelationshipGraph` phase by phase; risks are whole thousandths,
places metres on a line, and `whole` remembers the graph before risk spreads.
A report that is `full` overwrites with null what it does not know; a
destination in `NoPort` is no port, and one in `Short` no route.
`marked` (what is shown as a flag of convenience or as sanctioned) is the last
vessel's word: an operator sanctioned by one record is shown as harmless after
a record without that field, while its risk stays.

The composed MC modules have a variable `part`: their components share no
state, one is chosen at the start and only it moves.  This keeps one run
for each question asked of a family of components.

## 4. Runs

| run | question | distinct states |
|---|---|---|
| lease_two | exclusion, extent of overlap, take-over, the abstract reign; with stale clocks, faults, stops, crashes | 1.06M |
| jobs_claims | one job, two workers, monitor, deleting client, a crash, late claims: who may write what, and what stays | 2.40M |
| jobs_batch | two jobs in one batch with a failing update: are claims leaked? | 0.74M |
| jobs_settle | does every job end? | 0.51M |
| tasks_races | two processes, a task and a request, a death and a failing call: records and results | 2.04M |
| tasks_settle | does every task end, through two deaths? | 71k |
| tasks_live_work | does recovery leave other processes' work alone? (no) | violation |
| monitor_races | two processes, two entries each, one pass: who scrapes, who hands over, and when | 3.98M |
| monitor_ends | is the pass handed over at its end, through replaced entries, failing calls and a crash? | 0.53M |
| collection | scraper health and provider quotas under overlapping runs, edits and faults | 7.96M |
| records | budgets, reviews, start of the processes, scan folders, request limits, baselines, vessels and the explorer's pages | 4.17M |
| intelligence | analyses, correlation, alerts, shutdown, tiles, geofences, relationship graphs | 5.97M |

What they show:

* **Lease.**  `AtMostOneFreshLeader` holds in spite of the stale clock: an
  older `now` makes an acquire more timid and its lease shorter.  Two cycles
  overlap only when one has outlived its lease (`OverlapOnlyPastLease`).
  `StandbyTakesOver` excepts two cases: everyone goes down, or a worker that is
  stopping took the lease after its `stop()` released it.  `ImplementsReign` is
  the refinement.
* **Jobs.**  Holding the claim is enough until it is two hours old
  (`ExclusiveWork`); the first writer that breaks this is always a late worker
  or a pass monitor (`FirstClobberIsLate`); without one, and without faults, a
  pass is scanned once (`ScannedOnce`) and a completed job stays completed
  (`CompletedIsFinal`).  `execute()` leaks no claim on its ordinary paths
  (`ClaimsHaveHolders`), and every active job ends (`EveryJobSettles`).
* **Tasks.**  Whichever of worker, rejection, cancellation and shutdown ends a
  task, its row is terminal (`EndedIsRecorded`) and stays so
  (`NoResurrection`); a completed result is lost only to an outdated read
  (`ResultKept`); every task reaches a terminal row (`TasksSettle`).
* **Monitor.**  A minute is scraped by one thread at a time whatever the number
  of processes (`OneScrapePerMinute`); a hand-over before the end of the pass
  comes only from a process that is closing (`EarlyHandOverOnlyClosing`); while
  a monitor runs, a job that is still PENDING_PASS does not stay so, unless the
  monitor is cancelled, its process goes away, or the database call of its own
  hand-over fails (`MonitoredPassHandedOver`).
* **Collection.**  A cooldown is cut short only by a run that could not know of
  it (`CooldownRespected`); a disabled scraper is revived only by a request or
  an edit that read it before (`DisabledStaysDisabled`).  The quota of a provider
  none of whose charges was lost is overrun by less than the requests in flight
  (`OverrunBounded`), and a request acquires twice only if the bookkeeping
  raised (`OneAcquisition`).  A lost charge breaks the bound, as the attempt to
  prove it without that condition showed: with three dispatches and a limit of
  2, a charge written from an outdated read lets the count fall below the limit
  while higher counts are still to be written, and another dispatch passes.
* **Records.**  Money is miscounted only by overlapping edits
  (`SpendingExact`); no forecast outlives its AOI (`NoOrphanForecast`); the
  trail explains a review unless a request died or a synchronisation overwrote
  it (`TrailExplains`); a process serves only with the whole schema
  (`ServesWholeSchema`); a setting is what a user chose last (`SettingsKept`);
  a scan is kept whole, outside the races and half-done removals it names
  (`ScanKept`); however threads
  overtake each other, a stretch of the window less the wait for the lock has
  no more than the limit of allowed requests (`WindowHeld`); a baseline has
  every structure that stayed in its place with room around it, and its file
  can be read unless two backfills wrote at once (`BaselineServed`); whoever
  turns all pages of the vessel explorer has seen every row that was listed
  throughout, although vessels report between the pages, because others move a
  row down only (`PagesMeetAll`; a row may leave a search when its vessel is
  renamed, and then the next one may be missed).
* **Intelligence.**  `CatalogCurrent`, `GhostsAreItsOwn`, `DeletedStaysDeleted`:
  a scan worked on by one request at a time has a catalogue entry that agrees
  with its results, also when one of its metadata writes failed, unless a
  failure lost results or cut a file short; it gets its own ghost vessels; and
  it stays deleted unless its DEM or route picture was drawn after that.  The
  overlay and the change map bring a deleted scan back only beside a second
  request on the scan: another analysis makes the folder again between them.  `StableMatching`: the greedy assignment is stable.
  `SentOnce`: an alert is sent once unless two requests met it together or a
  GET used it up.  `HardDeadline`, `ExitIsClean`: three signals at any points.
  `PictureIntact`: with torn, invalid and stolen cache entries, a scan still
  gets whole pictures.  `ZonesTile`: a target inside a zone is reported, one
  outside is not, and of two neighbours that divide the zone exactly one
  reports it.  `NetworkSound`: the answer is exactly the neighbourhood asked
  for, or the riskiest of it, with the edges between; no risk falls, and none
  exceeds the worst within two edges.

Where a property has an exception, the exception is a history variable or a
counter that the model sets only at the interleaving named, so the property
says that nothing else breaks it.  Every property of a passing run has a mutant
in `PROJECT.json`: the definition it is broken by, and the slip.

## 5. Bounds

* Lease: two workers suffice for every pair property (the proofs cover any
  number).  TTL 2 and clock 0..3 let a lease be taken, be read stale by one
  tick, expire and be taken again; both jobs run so that two threads contend
  for one mutex.
* Jobs: backoff 1, claim lease 2, wait window 1, clock 0..4: a job becomes due,
  is claimed, the claim ages past its lease, is recovered and claimed again, and
  the wait window passes in between.  `Expected` is hour 1, so that PENDING_PASS
  exists.  `MaxScans` 2 lets a second scan of a pass happen (in the settle run,
  1: a worker at the bound can still give its job back).  The batch run has two
  jobs, one worker and no monitor: leaking a claim is one worker's doing.
* Tasks: one task (tasks touch only through their processes, and the proof is
  for any number), two processes, one request at a time, one death, one failing
  call.  The same properties were checked once with two requests and no faults
  (10.9M states); liveness with a pool of one out of three processes.
* Monitor: two entries per process let a pass be monitored again while its old
  thread runs; minutes 0..2 with the pass in minute 1 give a time before, in
  and after it.  The races run has no crash and one request; the ends run has
  one process, a crash and two requests, since a hand-over is one process's duty.
  Both have one failing scrape or database call.
* Collection: two overlapping runs and one administrator; two providers, two
  dispatches, a limit of one, so that both can pass the test and overrun it.
* Records: two AOI requests and one check; two review writers and one
  detection; two processes, two scripts of two statements, five starts; two
  creators and two archivers with three archivings; two threads, a limit of 2,
  a window of 3 with a lag of 1, clock 0..5; three passes of up to two targets
  at three places.  Two of the places are near enough to draw a centroid
  between them, the third is just over twice the radius from them.  Twice is
  needed: a member joins within a radius of the centroid, so with all members
  further than two radii from a place the centroid stays more than one radius
  from it and never captures its target; with once the radius TLC finds a
  centroid that drifts into a structure.  Concurrent backfills are explored
  for one fixed series.  Three of six messages (three vessels, one of them with
  and without an IMO, times 0 to 2), one correction, pages of one row, a lookback
  of 1 and a clock from 1 to 2, so that rows also grow too old between pages; a
  behaviour ends with the last page.
* Intelligence: two analyses and a renaming over two scans; three ships, two
  vessels and two scores (ties included); two alert requests, three calls and a
  restart; three signals; three downloads of one tile; every convex zone
  with corners on a 3 x 3 grid of even coordinates, every target on the 5 x 5
  grid between them (corners, edges, the diagonal and interior points); graphs
  of up to three of six records of three vessels, with and without a dark
  detection, depths 0 to 2 and a limit of six nodes, which some answers exceed.
* The bounds named `Max...` appear in guards only.  The theorems hold for every
  value of them.
* `CHECK_DEADLOCK FALSE` in every run: bounded clocks and requests let a
  behaviour end.  Symmetry is used only in runs without liveness properties.

## 6. Fairness

* `SchedulerLease`: time passes, and a job that can step does: the timers recur
  and a cycle ends because its network calls have timeouts.  Nothing is assumed
  of starts, stops, crashes or faults.
* `PostPassJobs`: time, the recurring dispatcher and the steps of
  `execute()`.  Nothing of requests, monitors, lost tasks, faults or crashes.
  The dispatcher's fairness stands for "some process leads again and again",
  which is what `StandbyTakesOver` says of the lease.
* `TaskQueue`: the server replaces dead processes (gunicorn), a started recovery
  and a task's target end, a stopping process exits (the watchdog).  Nothing of
  requests, heartbeats or crashes.
* `PassMonitor`: time and the steps of the monitor threads, whose scrapes have
  timeouts.  Nothing of schedule cycles, requests, faults or crashes.
* The other modules state no liveness property that holds.  The fairness of
  `ShutdownCoordinator` (the main thread, the watchdog's timer, the running
  tasks) serves the refuted `DeadlineEnds`.

## 7. Findings

**tasks_live_work** is the finding with a run: recovery takes every active row
of another owner, live lease or not, so a process that starts fails the running
tasks of its siblings, although
`migrations/sql/013_harden_automation_workflows.sql:1` promises to "retain task
leases so one process cannot invalidate another's live work".

Statements of documents and comments that are defined in the modules and that
TLC refutes as well, each in a few steps; they have no run of their own:

| statement | in | says | refuted by |
|---|---|---|---|
| `SingleActiveLeaderExecutes` | SchedulerLease | `src/SYSTEM_ARCHITECTURE_REPORT.md:118`, `interfaces/cli/scheduler_runner.py:5-7`: only a single active leader executes | a cycle longer than the fixed 90 s overlaps with the next leader's |
| `DeletedJobsAreInactive` | PostPassJobs | `sqlite_post_pass.py:603`: active jobs cannot be deleted | a retry between the status check and the UPDATE by id |
| `AbandonedClaimsRecovered` | PostPassJobs | `:330`: abandoned claims become retryable | recovery runs only inside claims, which need another due job |
| `ClaimedByOneWorker` | PostPassJobs | `:365`: atomically claimed for one worker | the monitor's hand-over overwrites a claim it did not see |
| `CancelStays` | TaskQueue | `application/ports/task_queue.py:48`: True if cancelled | the running thread then records COMPLETED |
| `HandOverAfterWindow` | PassMonitor | `pass_monitor.py:210`: once the pass window ends | a closing process hands over early |
| `DeletionDeletes` | PassMonitor | `013_harden_automation_workflows.sql:26`: ON DELETE CASCADE from the AOI | `automatic_ais_runs.post_pass_job_id` has no ON DELETE: with a collected minute, deleting the AOI raises |
| `MigrationsAtomic` | Startup | `migrations/runner.py:20`: within a transaction | `executescript` commits first; a death leaves half a script |
| `RetentionPrunes` | ScanStore | `forecast_acquisition_storage.py:224`: enforcing retention saves space | the enforcement asks every scan for attributes a `Scan` does not have (`aoi_name`, `manage_aois.py:119-123`), so it finds none to delete |
| `CriticalDarkAlerted` | ScanAnalysis | `src/docs/maritime-intelligence.md:128-134` | the alert counts risk "HIGH" only (`post_acquisition_pipeline.py:339`) |
| `NewAlertsDispatched` | PassAlerts | `interfaces/web/alerts.py:150`: dispatch new alerts | a GET before it notes the event and sends nothing |
| `DeadlineEnds` | ShutdownCoordinator | `src/SYSTEM_ARCHITECTURE_REPORT.md:314`: the watchdog guarantees termination | a second signal while the first arms it waits for a lock held below |
| `WholeWindowHeld` | RequestLimits | `interfaces/web/security.py:15`: a thread-safe sliding window of `window_seconds` | two threads that overtake each other between clock and lock let one request too many into a window |
| `StoredAtomically` | PassSeries | `filesystem_aoi_baseline.py:35`: atomic JSON documents | two backfills write one temporary file |
| `LatestStored` | VesselRegistry | `interfaces/web/ais.py:182`: LATEST_STORED | with a box, the newest position inside it, after the vessel has left it |
| `CorrectionKept` | VesselRegistry | `manage_vessels.py:27`: updates custom metadata | the vessel's next AIS message overwrites it |
| `FocalKept` | RelationshipGraph | `network_graph.py:180`: a subgraph centred on the focal vessel | the limit keeps the riskiest nodes, not the vessel |
| `NewestPositionKept` | RelationshipGraph | `build_relationship_graph.py:162`: merge newer positions | the last record of the list wins, whatever its time |
| `EntryIntact` | TileDownloads | cache entries are whole images | two writers of one `.tmp`, or an answer stored before it is decoded |

Read but outside the models: `scheduler_runner.py:80` calls
`shutdown_coordinator.create_signal_handler`, which does not exist, so the
stand-alone scheduler raises at its start; `probes.py:85` looks for
`_is_shutdown`, which the queue does not have; a failing AIS query is taken for
an empty sea (`correlate_ais_detections.py:1447`), so every ship becomes dark;
`GeofenceMonitor(custom_zones=...)` uses its box cache before it exists;
`in_protected_area` of a detection is set only if it has a breach;
`scheduler_lease_ttl_seconds` of the settings is not read; nobody calls
`start_listener` of the UDP plugin; an AIS message without a name erases the
stored one, and once an analyst has corrected an IMO, the next message with the
old IMO makes a second vessel of the same MMSI (`SaveRecord`); the baseline of a deleted AOI stays on disk, and a scan whose results cannot
be read counts in a baseline as a pass without targets; `interfaces/web/ais.py:551`
passes `DetectIdentityAnomalies.execute` arguments that its signature
(`detect_identity_anomalies.py:53-64`) does not have, so that route always
raises, and repaired it would see one record per vessel
(`sqlite_ais.py:273`: `latest_only=True`).

## 8. Proofs

All theorems hold for every value of the constants that meets the named
assumptions of their module (`TTLAssumption`, `TimeAssumption`,
`BoundAssumption`, `GridAssumption`, ..., and that the sentinels `None`,
`NoLease`, `Never` differ from the values they stand beside).  TLC evaluates
the assumptions in every run.  Except where noted, each proof shows that an
inductive invariant holds initially and is preserved action by action, and
derives the properties from it.

**SchedulerLeaseProofs** (449 obligations).  `LeaseInv` adds to `TypeOK`:
`SnapshotPast` (no `now` is in the future), `OffIsBlank` (a worker that has not
started has no cycle and no heartbeat), and `FreshOwns`: a worker whose
heartbeat is fresh and that leads, or is up, owns the row, and the row expires
exactly a TTL after that heartbeat.  `FreshOwns` is the argument: two fresh
leaders would own one row.  It speaks of running workers and not only of
leaders because a failed renewal clears the flag while the row lives on.
Theorems: `TypeCorrect`, `MutualExclusion`, `OverlapBound`, `NoTheft`, and
`Refinement`: every step of the protocol is a step of `LeaderReign` or leaves
the reign alone (an acquire is `Elect` or `Renew`, a release `Depose`, a tick
`Advance`; `SnapshotPast` bounds the new expiry).

**PostPassJobsProofs** (1581).  `IInv` adds to `TypeOK` and `ClaimHeld`:
`Control` (what a worker's stage says about its batch), `RowsGone` (rows vanish
only with their AOI, for good), `ClaimShows` (a row that carries a claim shows
it).  `ClaimHeld` alone is not inductive: a sweep or a claim by somebody else
must be shown to pass over a row in a claimed status, which needs `ClaimShows`,
and an update must be shown to be about a job of its own batch, which is
`Control`.  Theorems: `TypeCorrect`, `ClaimsHold`, `Exclusion`, and from the
invariant, step by step, `OnlyLateWorkersClobber`, `CompletedStays`.
The second half is about outcomes.  `Held`: a row in a claimed status, deleted
or not (`add()` may bring it back), is in some batch; every path of `execute()`
that drops a job writes another status first, or is a fault, a death or met a
vanished AOI.  `Accounted`: the scans of a job are those its workers have still
to record (`Scanner`) and the one its COMPLETED row records; a worker that
records its scan without the row's claim clobbers the row.  So of two scans one
belongs to a worker that is neither the claimant nor done, and `ClaimHeld` makes
it late.  Theorems: `ClaimsAreHeld`, `OneScanPerPass`.

**TaskQueueProofs** (1244).  `IInv` is `TypeOK`, `Listed` (what shutdown and
recovery have listed), `Asked` (whom requests ask) and, per task, `Sound`:
`Owned`, `RevokedIsOver`, and the per-task forms of the properties (`Beats`,
`Recorded`, `Agrees`, `Result`).  `Result` is why a cancel or a shutdown that
looks only at memory does not overwrite a completed row: a completed task's
owner knows it is over.  Lemma `LocalStep` reduces an action to the task it
touches; `RowWriters` lists who writes rows.  Theorems: `TypeCorrect`,
`Recording`, `CacheCoherence`, `HeartbeatsEnd`, `NoReturn`, `ResultsStay`.

**PassMonitorProofs** (842).  `MonitorInv` is `TypeOK`, `Linked` (a thread's
entry is one its process has made; entries are replaced, never lost), `Leaving`
(a thread that left its loop still has its reason: the process is closing, its
entry is cancelled, or the pass is over), `Claimed` (the row of a minute being
scraped says RUNNING) and `OneScrapePerMinute`, which only `Claimed` makes
inductive: the conditional update refuses a second claim of a running row.
Theorems: `MonitorTypeCorrect`, `AlwaysOneScrapePerMinute`,
`HandOverNeverEarly`, for any number of processes, entries and minutes.

**CollectionProofs** (1079).  `FallbackInv`: the types, `HasCandidate` (a
dispatch about to charge has a provider at the head of its chain), `OverrunInv`
and `AcquiredInv`.  The bound on a count is inductive only with the charges
still to come: a provider's count plus its `InFlight` charges stay below the
limit plus the number of dispatches, because a request passes the test only
while the count is below the limit and each charge is one in flight less.
`AisInv`: what an automatic run read showed no cooldown at its own `now`.
Theorems: `OverrunAlwaysBounded`, `AlwaysOneAcquisition`,
`CooldownAlwaysRespected`, `DisabledAlwaysStaysDisabled`.

**RecordsProofs** (6153), one part per module:

* Request limits.  `Timely` (a thread in `check` read its `now` at most
  `MaxLockLag` ago) and `Forgotten` (a timestamp the code has dropped is at
  least a window old).  A request about to be allowed shares a stretch of
  `Window - MaxLockLag` ticks only with timestamps the code still keeps and
  counts, of which there are fewer than the limit.  `WindowAlwaysHeld`.
* AOIs.  `Priced`: unless edits have raced, an expenditure about to write has
  added its cost to what it read.  `SpendingAlwaysExact`, `NeverAnOrphanForecast`.
* Start.  `Migrated`: versions, committed or not, are recorded of whole scripts
  only, and a process has behind it only scripts that are whole.  For the
  settings `Honest` (a stored value is the last one chosen, and only a default
  is missing) and `Mended` (for missing rows some process is at work that will
  insert them, or no process is up yet).  `AlwaysServesWholeSchema`,
  `SettingsAlwaysKept`.
* Reviews.  `Traced`: an entry of the trail tells of the review's disposition, or
  a writer at work is bound to write one, or the history is still empty and
  whoever may fill it has a pending review to tell of.  `Bearing`: a
  synchronisation brings a pending review.
  `TrailAlwaysExplains`.
* Scan folders.  `OneMaker` (a folder no mishap touched is one creation's work,
  in its order), `AtWork` (a creation finds in its folder what it has put
  there), `Stored` (a finished scan is in its folder or in a whole tar), and by
  `PastTaken` (the names a creation went past belong to others) and the
  pigeonhole principle `NamesSuffice`: there is a name for every creation.
  `ScanAlwaysKept`.
* Explorer.  `Reads`: a row listed from the start and not met yet is `Behind`
  where the pages read so far end.  Lemma `Drift` is why this is preserved: a
  row that stays in the list only moves down.  `PagesAlwaysMeetAll`.
* Baselines.  For the clustering: the cluster of a structure holds nothing else
  and captures nothing far from it (`OwnFar`), and no other cluster comes near
  the structure (`FarMember`), so that each of its targets joins its own.  For
  the requests: `InOrder` (passes are read in the order of acquisition).  For
  the file: `OneWriter` (unless two backfills wrote at once, one at a time has
  the temporary file, and a file in place is not written to), and a pigeonhole,
  `FreeInode`.  `SeriesTypeCorrect`, `BaselineAlwaysServed`.

**IntelligenceProofs** (4642), likewise:

* Correlation.  `CorrelationInv` says of the pairs still `left` that every pair
  of `gated` not among them was matched or passed over for a better one, and
  that no better pair than a match is left: the greedy order.
  `CorrelationTypeCorrect`, `Stability`, `Completeness` (every contact and
  vessel ends as exactly one thing).
* Shutdown.  `Frames` (which frames can lie on which), `Holders` (a lock is held
  by the frame whose step says so), `Cleaned` (a frame past its clean-up has
  cleaned) and `Armed` (once requested, the watchdog runs or a frame of the
  stack will start it, or was interrupted while arming).
  `ShutdownTypeCorrect`, `DeadlineHolds`, `CleanExit`, for any number of signals.
* Alerts.  `Owed`: an event that one request, and no other, is about to send is
  known and has not been sent.  `AlertsSentOnce`.
* Tiles.  `Holds`: what a download holds when it saves is a whole image, whatever
  became of the cache file it came from.  `PictureAlwaysIntact`.
* Scan analysis.  What each analysis carries from one step to the next
  (`AnalysisShape`, `Carries`) agrees with the files, and a finished scan is
  `Catalogued`, unless one of the named interleavings happened to it.
  A deleted scan is `Blank`: it has no picture, and if an analysis that holds
  its image is about to draw from it, no folder either; only another request
  on the scan can make one under it.
  `CatalogAlwaysCurrent`, `GhostsAlwaysItsOwn`, `DeletedAlwaysStaysDeleted`.
* Relationship graph.  `GraphInv`: the graph is finite and its edges join its
  nodes; after a pass of spreading no risk has fallen, and none exceeds the
  worst within one edge (`Spread1`) or two (`Spread2`); the nodes kept are those
  within the depth.  `CarriedBounded`: an edge carries at most the difference of
  its ends, whichever way it is read and however often.  `VisitedIsBall`: the
  breadth-first queue visits exactly the ball of the given depth.
  `NetworkAlwaysSound`, for any records, depth and limit.

**GeofencesProofs** (1012).  For any outline of four vertices, convex or not, on
any grid: `Division` counts crossings edge by edge, the diagonal being crossed
by both parts or by neither, in either direction (`Undirected`); `InOwnBox`
shows that a target with an odd number of crossings lies in the polygon's box,
because west of the box every edge that straddles the latitude is crossed, and
those are even in number.  `NothingDropped` and `PartsShareTargets` follow.  For
convex outlines: the turns of a position at the three sides of a triangle add
up to the triangle's own, and balance its corners at the position (`TurnLaws`,
`TurnAffine`); an edge is crossed or not by the sign of its turn and the heights
of its ends (`CrossedIs`).  So casting accepts no position right of a side and
every position left of all three (`CastByTurns`, `Triangle`, `LeftOf`).  A
convex zone is two such triangles, and a position on the diagonal belongs to
exactly one of them (`OnDiagonal`).  `ZonesAlwaysTile`.

## 9. Model-checked only

* Liveness: `StandbyTakesOver`, `EveryJobSettles`, `TasksSettle`,
  `MonitoredPassHandedOver`.  TLAPS here proves neither fairness nor ENABLED.
* All 36 safety and action properties of the passing runs are proved.
  Conversely, `LeaseNeverStolen`, `ClaimHeld`, `CacheAgrees`, `BeatsForWork`,
  `EveryContactReported` and the type invariants of most modules are proved
  (`NoTheft`, `ClaimsHold`, `CacheCoherence`, `HeartbeatsEnd`, `Completeness`,
  `TypeCorrect`, `MonitorTypeCorrect`, ...) and were checked by TLC before; they
  are in no run now.
* The type invariants of `MCCollection`, `MCRecords` and `MCIntelligence`, which
  join those of their parts, were checked by TLC before and are in no run either.
* The statements of section 7 are refuted, or kept as definitions, by TLC.
* The library's induction theorems are out of the prover's reach, so no module
  has a recursive operator.  The recursive functions of `PassSeries` and
  `RelationshipGraph` are reasoned about one step at a time, and where a fact is
  needed of all their values, by the least number at which it would fail.

## 10. Not modelled

Most of the 54000 lines are numerical, formatting or I/O code, and about an
eighth is mapped; what is modelled is the code whose correctness depends on the
order of steps, plus a few algorithms.

* Detection and SAR processing, environmental enrichment, orbit prediction,
  intelligence scores (risk, re-identification, identity anomalies,
  transshipment, uncertainty): floating-point computation over
  stored data without state of its own.
* HTTP clients, catalogues and AIS plugins: their answers are nondeterministic
  choices where a modelled component uses them.
* Reports, exports, serialisation, domain records, ports, wiring, command line,
  desktop and browser front ends: no protocol, or one user.
* Webhooks: single-row statements and single posts (a dispatch is `Send` of
  `PassAlerts`).  Of the vessel registry: the views that only read, explicit
  time ranges, the random order.
* Provider catalogue and comparison: constant tables.
* Of the lease: the file-backed fallback (the container always passes a
  repository), the heartbeat loop of `leader.py` (nothing in production starts
  it), APScheduler's own timing.
* Of the jobs: audit events (`post_pass_job_events`), statistics and filters.
* Of the monitor: a job added at the very instant of `window_end` (which is
  POLLING_CATALOG at once), the wait for the window inside the loop (no thread
  starts before it).
* Of the task queue: `prune_tasks` (no caller outside the tests), the read-only
  listing, faults of the recovery statements themselves.
* Of the pipeline: what images and reports contain, and the routes that only
  read.  Of the geofences: the summary and GeoJSON, `register_zone` (no caller
  outside the tests), rounding.  Of the tile downloads: Windows sharing
  violations, the catalogue searches of `copernicus.py`.
