----------------------------- MODULE PostPassJobs -----------------------------
(***************************************************************************)
(* The life of a post-pass ingestion job: the row of post_pass_ingestions  *)
(* (infrastructure/persistence/sqlite_post_pass.py), the ingestion workers *)
(* of application/use_cases/ingest_post_pass_imagery.py, the hourly        *)
(* dispatcher of pass_scheduler.py, the pass monitor's hand-over of        *)
(* pass_monitor.py and the web requests of interfaces/web/schedule.py.     *)
(*                                                                         *)
(* A statement that tests and sets in one UPDATE is one step.  A SELECT    *)
(* whose result guards a later unconditional UPDATE is a step of its own:  *)
(* SQLite takes its write lock only at the first write (sqlite.py:23-40).  *)
(* The clock ticks in hours, the unit of the polling backoff; the five     *)
(* minutes a finished pass is given to settle are below it.                *)
(***************************************************************************)
EXTENDS Integers, FiniteSets

CONSTANTS
    Job,         \* jobs, one per (AOI, pass time)
    Worker,      \* ingestion threads of all processes
    Monitor,     \* pass monitor threads
    Client,      \* web requests that delete a job
    Expected,    \* expected_imagery_time per job: its pass window ends there
    Backoff,     \* _get_backoff_minutes: the delay to the next poll
    ClaimLease,  \* age at which a claim counts as abandoned (two hours)
    MaxWait,     \* max_wait_hours
    BatchLimit,  \* jobs one execute() may claim
    MaxClock,    \* bound: the clock stops here
    MaxScans,    \* bound: scans made for one job
    MaxFaults,   \* bound: updates that raise (database locked)
    MaxCrashes,  \* bound: worker processes that die
    None

ASSUME TimeAssumption ==
    /\ Expected \in [Job -> Nat]
    /\ Backoff \in Nat \ {0} /\ ClaimLease \in Nat \ {0} /\ MaxWait \in Nat
ASSUME BoundAssumption ==
    /\ BatchLimit \in Nat \ {0}
    /\ MaxClock \in Nat /\ MaxScans \in Nat /\ MaxFaults \in Nat /\ MaxCrashes \in Nat

Claimed == {"QUERYING_CATALOG", "INGESTING"}
Waiting == {"PENDING_PASS", "POLLING_CATALOG"}
Active == Claimed \cup Waiting
Terminal == {"COMPLETED", "TIMED_OUT"}
(* "FAILED" is written only after an AOI lookup misses, and the deletion   *)
(* of the AOI has removed the job's row by then (AoiMissing below).        *)

(* scan_folder is set exactly in COMPLETED rows and so is not repeated. *)
Row == [status : Active \cup Terminal,
        deleted : BOOLEAN,                \* deleted_at IS NOT NULL
        polled : Nat \cup {None},         \* last_polled_at
        next : Nat \cup {None}]           \* next_poll_at

ASSUME NoneAssumption == None \notin Row \cup Int \cup Job \cup Worker

VARIABLES
    clock,
    row,        \* per job: its row, or None
    aoiGone,    \* jobs whose AOI has been deleted
    asked,      \* jobs with a poll task waiting in a task queue
    dispatcher, \* "idle", or "expired": between expire_jobs and the due query
    at,         \* per worker: where execute() is
    batch,      \* per worker: claimed jobs not finished
    current,    \* per worker: the job being processed
    now,        \* per worker: `now` of its execute()
    monitor,    \* per monitor: the job and time of its transition, or None
    client,     \* per client: the job it is about to delete, or None
    scans,      \* per job: scan folders created
    faults, crashes,
    claimant,   \* history: the worker whose claim the row carries, or None
    clobbered   \* history: jobs overwritten by a writer that did not hold them

workers == <<at, batch, current, now>>
rest == <<aoiGone, asked, dispatcher, monitor, client, scans, faults, crashes>>
vars == <<clock, row, workers, rest, claimant, clobbered>>

(* idle: no execute() runs; called: execute() starts; claimed: between two *)
(* jobs of the batch; searching: the catalogue is queried; ingesting: the  *)
(* row says INGESTING and CreateScan runs; created: the scan exists;       *)
(* failing: an exception is being handled.                                 *)
Stage == {"idle", "called", "claimed", "searching", "ingesting", "created", "failing"}

TypeOK ==
    /\ clock \in 0..MaxClock
    /\ row \in [Job -> Row \cup {None}]
    /\ aoiGone \subseteq Job
    /\ asked \subseteq Job
    /\ dispatcher \in {"idle", "expired"}
    /\ at \in [Worker -> Stage]
    /\ batch \in [Worker -> SUBSET Job]
    /\ current \in [Worker -> Job \cup {None}]
    /\ now \in [Worker -> 0..MaxClock]
    /\ monitor \in [Monitor -> [job : Job, time : 0..MaxClock] \cup {None}]
    /\ client \in [Client -> Job \cup {None}]
    /\ scans \in [Job -> 0..MaxScans]
    /\ faults \in 0..MaxFaults
    /\ crashes \in 0..MaxCrashes
    /\ claimant \in [Job -> Worker \cup {None}]
    /\ clobbered \subseteq Job

Init ==
    /\ clock = 0
    /\ row = [j \in Job |-> None]
    /\ aoiGone = {}
    /\ asked = {}
    /\ dispatcher = "idle"
    /\ at = [w \in Worker |-> "idle"]
    /\ batch = [w \in Worker |-> {}]
    /\ current = [w \in Worker |-> None]
    /\ now = [w \in Worker |-> 0]
    /\ monitor = [m \in Monitor |-> None]
    /\ client = [c \in Client |-> None]
    /\ scans = [j \in Job |-> 0]
    /\ faults = 0
    /\ crashes = 0
    /\ claimant = [j \in Job |-> None]
    /\ clobbered = {}

-----------------------------------------------------------------------------
(* Visible to the queries, which all filter on deleted_at IS NULL. *)
Visible(j) == row[j] # None /\ ~row[j].deleted

HasStatus(j, S) == Visible(j) /\ row[j].status \in S

(* next_poll_at IS NULL OR next_poll_at <= now *)
PollTimeReached(r) == r.next = None \/ r.next <= clock

(* _auto_expire_jobs: active jobs past their wait window time out; claimed *)
(* ones are left alone.                                                    *)
Expired(rows) ==
    [j \in Job |->
        IF /\ rows[j] # None /\ ~rows[j].deleted
           /\ rows[j].status \in Waiting
           /\ Expected[j] + MaxWait <= clock
        THEN [rows[j] EXCEPT !.status = "TIMED_OUT", !.next = None]
        ELSE rows[j]]

(* The bulk update of get_jobs_due_for_poll and claim_jobs_due_for_poll:   *)
(* jobs whose pass window has ended start polling.                         *)
PassEnded(rows) ==
    [j \in Job |->
        IF /\ rows[j] # None /\ ~rows[j].deleted
           /\ rows[j].status = "PENDING_PASS" /\ PollTimeReached(rows[j])
        THEN [rows[j] EXCEPT !.status = "POLLING_CATALOG"]
        ELSE rows[j]]

(* Slip: claims are recovered whatever their age. *)
StaleAtOnce(j) == HasStatus(j, Claimed) /\ row[j].polled # None

(* _recover_stale_ingestions *)
Stale(j) ==
    /\ HasStatus(j, Claimed)
    /\ row[j].polled # None
    /\ row[j].polled + ClaimLease <= clock

Recovered ==
    [j \in Job |->
        IF Stale(j)
        THEN [row[j] EXCEPT !.status = "POLLING_CATALOG", !.next = clock]
        ELSE row[j]]

Due(rows) ==
    {j \in Job : /\ rows[j] # None /\ ~rows[j].deleted
                 /\ rows[j].status = "POLLING_CATALOG"
                 /\ PollTimeReached(rows[j])}

(* Slip: the claim sets the times but not the status. *)
ClaimRowKeepsStatus(r) == [r EXCEPT !.polled = clock, !.next = None]

(* UPDATE ... SET status = 'QUERYING_CATALOG', last_polled_at = now *)
ClaimRow(r) == [r EXCEPT !.status = "QUERYING_CATALOG", !.polled = clock, !.next = None]

-----------------------------------------------------------------------------
(* add(): insert, or the upsert's merge, by the automatic AIS trigger or   *)
(* by the web form (whose poll_immediately also submits a poll task).      *)
Add(j, immediate) ==
    LET wanted == IF immediate \/ Expected[j] <= clock
                  THEN [status |-> "POLLING_CATALOG", deleted |-> FALSE,
                        polled |-> None, next |-> clock]
                  ELSE [status |-> "PENDING_PASS", deleted |-> FALSE,
                        polled |-> None, next |-> Expected[j]]
        starts == row[j].status = "PENDING_PASS" /\ wanted.status = "POLLING_CATALOG"
        merged == [row[j] EXCEPT
                     !.deleted = FALSE,
                     !.status = IF starts THEN wanted.status ELSE @,
                     !.next = IF starts \/ @ = None THEN wanted.next ELSE @]
    IN  /\ j \notin aoiGone
        /\ row' = [row EXCEPT ![j] = IF row[j] = None THEN wanted ELSE merged]
        /\ asked' = IF immediate THEN asked \cup {j} ELSE asked
        /\ UNCHANGED <<clock, workers, aoiGone, dispatcher, monitor, client,
                       scans, faults, crashes, claimant, clobbered>>

(* Slip: a job that completed can be retried too. *)
RetryAnyFinal(j) ==
    /\ HasStatus(j, Terminal)
    /\ row' = [row EXCEPT ![j] = [status |-> "POLLING_CATALOG", deleted |-> FALSE,
                                  polled |-> None, next |-> clock]]
    /\ asked' = asked \cup {j}
    /\ UNCHANGED <<clock, workers, aoiGone, dispatcher, monitor, client,
                   scans, faults, crashes, claimant, clobbered>>

(* reset_for_retry and the poll task the request submits. *)
Retry(j) ==
    /\ HasStatus(j, {"TIMED_OUT"})
    /\ row' = [row EXCEPT ![j] = [status |-> "POLLING_CATALOG", deleted |-> FALSE,
                                  polled |-> None, next |-> clock]]
    /\ asked' = asked \cup {j}
    /\ UNCHANGED <<clock, workers, aoiGone, dispatcher, monitor, client,
                   scans, faults, crashes, claimant, clobbered>>

(* POST .../poll is accepted only for a polling job. *)
RequestPoll(j) ==
    /\ HasStatus(j, {"POLLING_CATALOG"})
    /\ asked' = asked \cup {j}
    /\ UNCHANGED <<clock, row, workers, aoiGone, dispatcher, monitor, client,
                   scans, faults, crashes, claimant, clobbered>>

(* The process that queued the poll task shuts down before running it. *)
LosePoll(j) ==
    /\ j \in asked
    /\ asked' = asked \ {j}
    /\ UNCHANGED <<clock, row, workers, aoiGone, dispatcher, monitor, client,
                   scans, faults, crashes, claimant, clobbered>>

(* Listing the jobs runs expire_jobs first. *)
ListJobs ==
    /\ row' = Expired(row)
    /\ UNCHANGED <<clock, workers, rest, claimant, clobbered>>

(* delete(), first half: the SELECT that finds the job in a final state. *)
DeleteCheck(c, j) ==
    /\ client[c] = None
    /\ HasStatus(j, Terminal)
    /\ client' = [client EXCEPT ![c] = j]
    /\ UNCHANGED <<clock, row, workers, aoiGone, asked, dispatcher, monitor,
                   scans, faults, crashes, claimant, clobbered>>

(* delete(), second half: UPDATE ... SET deleted_at WHERE id = ? *)
DeleteWrite(c) ==
    /\ client[c] # None
    /\ row' = [row EXCEPT ![client[c]] =
                 IF @ = None THEN None ELSE [@ EXCEPT !.deleted = TRUE]]
    /\ client' = [client EXCEPT ![c] = None]
    /\ UNCHANGED <<clock, workers, aoiGone, asked, dispatcher, monitor,
                   scans, faults, crashes, claimant, clobbered>>

(* The AOI is deleted, and its jobs with it, in one transaction. *)
DeleteAoi(j) ==
    /\ j \notin aoiGone
    /\ aoiGone' = aoiGone \cup {j}
    /\ row' = [row EXCEPT ![j] = None]
    /\ UNCHANGED <<clock, workers, asked, dispatcher, monitor, client, scans,
                   faults, crashes, claimant, clobbered>>

-----------------------------------------------------------------------------
(* _poll_due_post_pass_jobs, first call: expire_jobs. *)
DispatchExpire ==
    /\ dispatcher = "idle"
    /\ dispatcher' = "expired"
    /\ row' = Expired(row)
    /\ UNCHANGED <<clock, workers, aoiGone, asked, monitor, client, scans,
                   faults, crashes, claimant, clobbered>>

(* Second call: get_jobs_due_for_poll.  Only when it returns something are *)
(* ingestion workers called.                                               *)
DispatchDue ==
    /\ dispatcher = "expired"
    /\ dispatcher' = "idle"
    /\ row' = PassEnded(row)
    /\ at' = IF Due(row') = {} THEN at
             ELSE [w \in Worker |-> IF at[w] = "idle" THEN "called" ELSE at[w]]
    /\ UNCHANGED <<clock, batch, current, now, aoiGone, asked, monitor, client,
                   scans, faults, crashes, claimant, clobbered>>

(* POST .../poll_all calls workers without asking whether a job is due;    *)
(* execute_concurrently calls them again, wave after wave.                 *)
CallWorker(w) ==
    /\ at[w] = "idle"
    /\ at' = [at EXCEPT ![w] = "called"]
    /\ UNCHANGED <<clock, row, batch, current, now, rest, claimant, clobbered>>

(* The pass monitor's loop has ended, with the pass or, in a process that  *)
(* is closing, before it (module PassMonitor): find the job ...            *)
MonitorFind(m, j) ==
    /\ monitor[m] = None
    /\ HasStatus(j, {"PENDING_PASS"})
    /\ monitor' = [monitor EXCEPT ![m] = [job |-> j, time |-> clock]]
    /\ UNCHANGED <<clock, row, workers, aoiGone, asked, dispatcher, client,
                   scans, faults, crashes, claimant, clobbered>>

(* ... and update() it, whatever it has become; a vanished row raises and  *)
(* the monitor swallows it.  last_polled_at is the PENDING row's: none.    *)
MonitorWrite(m) ==
    LET j == monitor[m].job IN
    /\ monitor[m] # None
    /\ row' = [row EXCEPT ![j] =
                 IF @ = None THEN None
                 ELSE [@ EXCEPT !.status = "POLLING_CATALOG", !.polled = None,
                                !.next = monitor[m].time]]
    /\ claimant' = [claimant EXCEPT ![j] = None]
    /\ clobbered' = IF row[j] # None /\ row[j].status # "PENDING_PASS"
                    THEN clobbered \cup {j} ELSE clobbered
    /\ monitor' = [monitor EXCEPT ![m] = None]
    /\ UNCHANGED <<clock, workers, aoiGone, asked, dispatcher, client, scans,
                   faults, crashes>>

-----------------------------------------------------------------------------
(* claim_jobs_due_for_poll: recover abandoned claims, then claim the       *)
(* earliest due jobs.  After the recovery's UPDATE the write lock is held, *)
(* so the rest is one step.                                                *)
ClaimDue(w) ==
    LET ready == PassEnded(Recovered) IN
    /\ at[w] = "called"
    /\ \E mine \in SUBSET Due(ready) :
        /\ \/ mine = Due(ready) /\ Cardinality(mine) <= BatchLimit
           \/ Cardinality(mine) = BatchLimit
        /\ \A j \in mine, k \in Due(ready) \ mine : Expected[j] <= Expected[k]
        /\ row' = [j \in Job |-> IF j \in mine THEN ClaimRow(ready[j]) ELSE ready[j]]
        /\ claimant' = [j \in Job |-> IF j \in mine THEN w
                                      ELSE IF Stale(j) THEN None ELSE claimant[j]]
        /\ batch' = [batch EXCEPT ![w] = mine]
        /\ at' = [at EXCEPT ![w] = IF mine = {} THEN "idle" ELSE "claimed"]
    /\ now' = [now EXCEPT ![w] = clock]
    /\ UNCHANGED <<clock, current, rest, clobbered>>

(* claim_job: a poll task claims its job, due or not, if it still polls. *)
ClaimOne(w, j) ==
    LET won == /\ Recovered[j] # None /\ ~Recovered[j].deleted
               /\ Recovered[j].status = "POLLING_CATALOG"
    IN  /\ at[w] = "idle"
        /\ j \in asked
        /\ asked' = asked \ {j}
        /\ row' = IF won THEN [Recovered EXCEPT ![j] = ClaimRow(@)] ELSE Recovered
        /\ claimant' = [k \in Job |-> IF won /\ k = j THEN w
                                      ELSE IF Stale(k) THEN None ELSE claimant[k]]
        /\ batch' = [batch EXCEPT ![w] = IF won THEN {j} ELSE {}]
        /\ at' = [at EXCEPT ![w] = IF won THEN "claimed" ELSE "idle"]
        /\ now' = [now EXCEPT ![w] = clock]
        /\ UNCHANGED <<clock, current, aoiGone, dispatcher, monitor, client,
                       scans, faults, crashes, clobbered>>

(* The next job of the batch: its AOI is loaded and its catalogue window   *)
(* queried.                                                                *)
TakeJob(w, j) ==
    /\ at[w] = "claimed"
    /\ j \in batch[w]
    /\ j \notin aoiGone
    /\ current' = [current EXCEPT ![w] = j]
    /\ at' = [at EXCEPT ![w] = "searching"]
    /\ UNCHANGED <<clock, row, batch, now, rest, claimant, clobbered>>

(* execute() ends with an exception: the rest of its batch stays claimed. *)
Abort(w) ==
    /\ at' = [at EXCEPT ![w] = "idle"]
    /\ batch' = [batch EXCEPT ![w] = {}]
    /\ current' = [current EXCEPT ![w] = None]

(* The AOI lookup misses: the update to FAILED finds no row and raises     *)
(* outside the try block.                                                  *)
AoiMissing(w, j) ==
    /\ at[w] = "claimed"
    /\ j \in batch[w]
    /\ j \in aoiGone
    /\ Abort(w)
    /\ UNCHANGED <<clock, row, now, rest, claimant, clobbered>>

(* update() of the worker's job: WHERE id = ? only, with its claim's time. *)
Write(w, status, next) ==
    LET j == current[w] IN
    /\ row[j] # None
    /\ row' = [row EXCEPT ![j] = [@ EXCEPT !.status = status, !.polled = now[w],
                                           !.next = next]]
    /\ claimant' = [claimant EXCEPT ![j] = IF status \in Claimed THEN w ELSE None]
    /\ clobbered' = IF claimant[j] = w THEN clobbered ELSE clobbered \cup {j}

(* Slip: execute() returns after the first job of its batch. *)
NextInBatchReturns(w) ==
    /\ batch' = [batch EXCEPT ![w] = {}]
    /\ current' = [current EXCEPT ![w] = None]
    /\ at' = [at EXCEPT ![w] = "idle"]

(* The job is finished; when the batch is empty execute() returns. *)
NextInBatch(w) ==
    LET left == batch[w] \ {current[w]} IN
    /\ batch' = [batch EXCEPT ![w] = left]
    /\ current' = [current EXCEPT ![w] = None]
    /\ at' = [at EXCEPT ![w] = IF left = {} THEN "idle" ELSE "claimed"]

(* The catalogue has the product: the row says INGESTING. *)
Match(w) ==
    /\ at[w] = "searching"
    /\ Write(w, "INGESTING", None)
    /\ at' = [at EXCEPT ![w] = "ingesting"]
    /\ UNCHANGED <<clock, batch, current, now, rest>>

(* CreateScan wrote a scan folder; ship detection never fails the job. *)
CreateScan(w) ==
    /\ at[w] = "ingesting"
    /\ scans[current[w]] < MaxScans
    /\ scans' = [scans EXCEPT ![current[w]] = @ + 1]
    /\ at' = [at EXCEPT ![w] = "created"]
    /\ UNCHANGED <<clock, row, batch, current, now, aoiGone, asked, dispatcher,
                   monitor, client, faults, crashes, claimant, clobbered>>

Complete(w) ==
    /\ at[w] = "created"
    /\ Write(w, "COMPLETED", None)
    /\ NextInBatch(w)
    /\ UNCHANGED <<clock, now, rest>>

(* Slip: past the wait window the job is dropped without an update. *)
GiveBackSilently(w) ==
    /\ at[w] \in {"searching", "ingesting", "failing"}
    /\ IF now[w] - Expected[current[w]] >= MaxWait
       THEN UNCHANGED <<row, claimant, clobbered>>
       ELSE Write(w, "POLLING_CATALOG", now[w] + Backoff)
    /\ NextInBatch(w)
    /\ UNCHANGED <<clock, now, rest>>

(* No product yet, or the search, CreateScan or an update raised: time out *)
(* past the wait window, otherwise poll again after the backoff.           *)
GiveBack(w) ==
    /\ at[w] \in {"searching", "ingesting", "failing"}
    /\ IF now[w] - Expected[current[w]] > MaxWait
       THEN Write(w, "TIMED_OUT", None)
       ELSE Write(w, "POLLING_CATALOG", now[w] + Backoff)
    /\ NextInBatch(w)
    /\ UNCHANGED <<clock, now, rest>>

(* An update inside the try block raises: the handler takes over. *)
UpdateFault(w) ==
    /\ at[w] \in {"searching", "created"}
    /\ faults < MaxFaults
    /\ faults' = faults + 1
    /\ at' = [at EXCEPT ![w] = "failing"]
    /\ UNCHANGED <<clock, row, batch, current, now, aoiGone, asked, dispatcher,
                   monitor, client, scans, crashes, claimant, clobbered>>

(* The handler's own update raises: execute() ends. *)
HandlerFault(w) ==
    /\ at[w] \in {"searching", "ingesting", "failing"}
    /\ faults < MaxFaults
    /\ faults' = faults + 1
    /\ Abort(w)
    /\ UNCHANGED <<clock, row, now, aoiGone, asked, dispatcher, monitor, client,
                   scans, crashes, claimant, clobbered>>

(* The row vanished with its AOI: update raises, and so does the handler. *)
RowGone(w) ==
    /\ at[w] \in {"searching", "ingesting", "created", "failing"}
    /\ row[current[w]] = None
    /\ Abort(w)
    /\ UNCHANGED <<clock, row, now, rest, claimant, clobbered>>

(* The process of the worker dies. *)
Crash(w) ==
    /\ at[w] # "idle"
    /\ crashes < MaxCrashes
    /\ crashes' = crashes + 1
    /\ Abort(w)
    /\ UNCHANGED <<clock, row, now, aoiGone, asked, dispatcher, monitor, client,
                   scans, faults, claimant, clobbered>>

Tick ==
    /\ clock < MaxClock
    /\ clock' = clock + 1
    /\ UNCHANGED <<row, workers, rest, claimant, clobbered>>

-----------------------------------------------------------------------------
Execute(w) ==
    \/ ClaimDue(w)
    \/ \E j \in Job : ClaimOne(w, j) \/ TakeJob(w, j) \/ AoiMissing(w, j)
    \/ Match(w) \/ CreateScan(w) \/ Complete(w) \/ GiveBack(w) \/ RowGone(w)

WorkerStep(w) == Execute(w) \/ UpdateFault(w) \/ HandlerFault(w) \/ Crash(w) \/ CallWorker(w)

Dispatch == DispatchExpire \/ DispatchDue

JobRequest(j) ==
    \/ \E immediate \in BOOLEAN : Add(j, immediate)
    \/ Retry(j) \/ RequestPoll(j) \/ LosePoll(j) \/ DeleteAoi(j)
    \/ \E c \in Client : DeleteCheck(c, j)
    \/ \E m \in Monitor : MonitorFind(m, j)

Next ==
    \/ Tick
    \/ Dispatch
    \/ ListJobs
    \/ \E j \in Job : JobRequest(j)
    \/ \E c \in Client : DeleteWrite(c)
    \/ \E m \in Monitor : MonitorWrite(m)
    \/ \E w \in Worker : WorkerStep(w)

Spec == Init /\ [][Next]_vars

(* The hourly dispatcher job and the worker threads keep running; nothing  *)
(* is assumed of web requests, monitors, task loss, faults and crashes.    *)
FairSpec ==
    /\ Spec
    /\ WF_vars(Tick) /\ WF_vars(Dispatch)
    /\ \A w \in Worker : WF_vars(Execute(w))

-----------------------------------------------------------------------------
(* The claim of w is old enough for others to recover its jobs. *)
Late(w) == clock - now[w] >= ClaimLease

(* A claimed job stays its worker's: until the claim is ClaimLease old or  *)
(* a foreign writer overwrote the row, the row carries that claim.         *)
ClaimHeld ==
    \A w \in Worker : \A j \in batch[w] :
        Late(w) \/ j \in clobbered \/ row[j] = None
        \/ /\ claimant[j] = w
           /\ row[j].status \in Claimed
           /\ row[j].polled = now[w]

(* Two workers process one job only when one of them has outlived its      *)
(* claim, or the job was overwritten by a writer that did not hold it      *)
(* (claim_job and claim_jobs_due_for_poll).                                *)
ExclusiveWork ==
    \A j \in Job : \A w, v \in Worker :
        w # v /\ j \in batch[w] \cap batch[v]
            => j \in clobbered \cup aoiGone \/ Late(w) \/ Late(v)

(* update() checks nothing, so holding the claim must be enough: the first *)
(* writer to overwrite a job it does not hold is a worker that outlived    *)
(* its claim, or a pass monitor finishing a hand-over.                     *)
FirstClobberIsLate ==
    [][\A j \in clobbered' \ clobbered :
          \/ \E w \in Worker : current[w] = j /\ Late(w)
          \/ \E m \in Monitor : monitor[m] # None /\ monitor[m].job = j]_vars

(* An ingested job is not ingested again: COMPLETED is left only by the    *)
(* deletion of the AOI, or by such a late writer.                          *)
CompletedIsFinal ==
    [][\A j \in Job : HasStatus(j, {"COMPLETED"}) =>
          \/ row'[j] = None
          \/ row'[j].status = "COMPLETED"
          \/ j \in clobbered']_vars

(* One pass yields one scan folder unless a step failed, a worker died or  *)
(* was late, or the job was overwritten.                                   *)
ScannedOnce ==
    \A j \in Job :
        \/ scans[j] <= 1
        \/ faults + crashes > 0
        \/ j \in clobbered \cup aoiGone
        \/ \E w \in Worker : j \in batch[w] /\ Late(w)

(* A job that shows as claimed is being worked on, unless a step failed, a *)
(* worker died or an AOI vanished under a batch: no ordinary path of       *)
(* execute() leaks a claim.                                                *)
ClaimsHaveHolders ==
    \A j \in Job :
        \/ ~HasStatus(j, Claimed)
        \/ \E w \in Worker : j \in batch[w]
        \/ faults + crashes > 0
        \/ aoiGone # {}

(* No job stays active for ever: it is ingested, times out or is deleted. *)
EveryJobSettles == \A j \in Job : HasStatus(j, Active) ~> ~HasStatus(j, Active)

(* "Active post-pass ingestion jobs cannot be deleted"                     *)
(* (sqlite_post_pass.py, delete).                                          *)
DeletedJobsAreInactive ==
    \A j \in Job : row[j] # None /\ row[j].deleted => row[j].status \in Terminal

(* "Make abandoned claims retryable after a conservative two-hour lease."  *)
(* (sqlite_post_pass.py, _recover_stale_ingestions).                       *)
AbandonedClaimsRecovered == \A j \in Job : Stale(j) ~> ~Stale(j)

(* "Atomically claim a bounded number of due jobs for one worker."         *)
(* (sqlite_post_pass.py, claim_jobs_due_for_poll).                         *)
ClaimedByOneWorker ==
    \A j \in Job \ aoiGone : \A w, v \in Worker :
        w # v /\ j \in batch[w] \cap batch[v] => Late(w) \/ Late(v)
=============================================================================
