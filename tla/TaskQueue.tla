------------------------------ MODULE TaskQueue ------------------------------
(***************************************************************************)
(* The durable task queue of infrastructure/tasks/queue.py: every process  *)
(* has a ThreadedTaskQueue with a thread pool and an in-memory table, and  *)
(* all of them share the SQLite table background_tasks.  Web requests of   *)
(* interfaces/web/tasks.py read, cancel and recover tasks.                 *)
(*                                                                         *)
(* A critical section of the queue's lock, with its _persist, is one step; *)
(* _load_one and recover_crashed_tasks read the table without the lock, so *)
(* what they do with the result are steps of their own.  A restarted       *)
(* process has a new owner id and is another member of Process.            *)
(***************************************************************************)
EXTENDS Integers, FiniteSets

CONSTANTS
    Process,    \* queue owners
    Task,       \* task ids
    Reader,     \* request threads that call get_task or cancel_task
    Pool,       \* processes the server keeps alive (WEB_CONCURRENCY)
    MaxDeaths,  \* bound: processes that stop or crash
    MaxFaults,  \* bound: database calls that raise
    None

Active == {"QUEUED", "RUNNING"}
Terminal == {"COMPLETED", "FAILED", "CANCELLED"}

Record == [status : Active \cup Terminal,
           owner : Process,
           lease : {"live", "expired", "none"}]  \* lease_expires_at, against now

Recovery == [stage : {"selected", "written"}, ids : SUBSET Task]

Request == [process : Process, task : Task, intent : {"view", "cancel"},
            seen : Active \cup Terminal \cup {None}]  \* None: loaded

ASSUME BoundAssumption == Pool \in Nat \ {0} /\ MaxDeaths \in Nat /\ MaxFaults \in Nat
ASSUME NoneAssumption ==
    None \notin Record \cup Recovery \cup Request \cup Process \cup Active \cup Terminal

VARIABLES
    db,         \* per task: its row of background_tasks, or None
    mem,        \* per process and task: the status in _tasks, or None
    mode,       \* per process: its life cycle
    recovery,   \* per process: a recover_crashed_tasks in progress, or None
    pending,    \* per process: futures shutdown() has still to cancel
    owner,      \* per task: the process it was submitted to, or None
    pos,        \* per task: where its submission or its thread is
    tracked,    \* tasks whose future is in _futures
    revoked,    \* tasks whose future was cancelled before it ran
    beating,    \* tasks with a heartbeat thread
    request,    \* per reader: its request, or None
    deaths, faults,
    foreign     \* history: tasks rewritten from outside their queue's lock

threads == <<owner, pos, tracked, revoked, beating>>
procs == <<mode, recovery, pending>>
vars == <<db, mem, procs, threads, request, deaths, faults, foreign>>

(* stopping: shutdown() cancels futures; closed: the executor is shut.     *)
Mode == {"off", "starting", "up", "stopping", "closed", "dead"}

(* registered: in the tables, not yet given to the executor; dropped: the  *)
(* executor was shut with the task in its queue; lost: the process died.   *)
Position == {"new", "registered", "waiting", "running", "done", "dropped", "lost"}

TypeOK ==
    /\ db \in [Task -> Record \cup {None}]
    /\ mem \in [Process -> [Task -> Active \cup Terminal \cup {None}]]
    /\ mode \in [Process -> Mode]
    /\ recovery \in [Process -> Recovery \cup {None}]
    /\ pending \in [Process -> SUBSET Task]
    /\ owner \in [Task -> Process \cup {None}]
    /\ pos \in [Task -> Position]
    /\ tracked \subseteq Task /\ revoked \subseteq Task /\ beating \subseteq Task
    /\ request \in [Reader -> Request \cup {None}]
    /\ deaths \in 0..MaxDeaths /\ faults \in 0..MaxFaults
    /\ foreign \subseteq Task

Init ==
    /\ db = [t \in Task |-> None]
    /\ mem = [p \in Process |-> [t \in Task |-> None]]
    /\ mode = [p \in Process |-> "off"]
    /\ recovery = [p \in Process |-> None]
    /\ pending = [p \in Process |-> {}]
    /\ owner = [t \in Task |-> None]
    /\ pos = [t \in Task |-> "new"]
    /\ tracked = {} /\ revoked = {} /\ beating = {}
    /\ request = [r \in Reader |-> None]
    /\ deaths = 0 /\ faults = 0
    /\ foreign = {}

-----------------------------------------------------------------------------
Status(t) == IF db[t] = None THEN None ELSE db[t].status

Serving == {p \in Process : mode[p] = "up"}

Alive == {p \in Process : mode[p] \in {"starting", "up", "stopping", "closed"}}

(* _persist: the row is upserted; a terminal status clears the lease. *)
Row(p, s) == [status |-> s, owner |-> p,
              lease |-> IF s \in Active THEN "live" ELSE "none"]

(* The usual critical section: update _tasks, then _persist. *)
Save(p, t, s) ==
    /\ mem' = [mem EXCEPT ![p][t] = s]
    /\ db' = [db EXCEPT ![t] = Row(p, s)]

(* The same when _persist raises. *)
SaveFails(p, t, s) ==
    /\ faults < MaxFaults
    /\ faults' = faults + 1
    /\ mem' = [mem EXCEPT ![p][t] = s]
    /\ UNCHANGED db

Update(p, t, s) == (Save(p, t, s) /\ UNCHANGED faults) \/ SaveFails(p, t, s)

(* The thread of t ends: finally stops its heartbeat. *)
Ends(t) ==
    /\ pos' = [pos EXCEPT ![t] = "done"]
    /\ beating' = beating \ {t}

-----------------------------------------------------------------------------
(* Slip: without `OR owner_id != ?`. *)
AbandonedByLease(p) ==
    {t \in Task : db[t] # None /\ db[t].status \in Active /\ db[t].lease # "live"}

(* recover_crashed_tasks, the SELECT. *)
Abandoned(p) ==
    {t \in Task : /\ db[t] # None /\ db[t].status \in Active
                  /\ db[t].lease # "live" \/ db[t].owner # p}

(* A process is created and its queue recovers before it loads the table. *)
Start(p) ==
    /\ mode[p] = "off"
    /\ Cardinality(Alive) < Pool
    /\ mode' = [mode EXCEPT ![p] = "starting"]
    /\ recovery' = [recovery EXCEPT ![p] = [stage |-> "selected", ids |-> Abandoned(p)]]
    /\ UNCHANGED <<db, mem, pending, threads, request, deaths, faults, foreign>>

(* POST /api/tasks/recover *)
RecoverSelect(p) ==
    /\ mode[p] = "up"
    /\ recovery[p] = None
    /\ recovery' = [recovery EXCEPT ![p] = [stage |-> "selected", ids |-> Abandoned(p)]]
    /\ UNCHANGED <<db, mem, mode, pending, threads, request, deaths, faults, foreign>>

(* The updates WHERE task_id = ?, whatever the row has become. *)
RecoverWrite(p) ==
    LET ids == recovery[p].ids IN
    /\ recovery[p] # None
    /\ recovery[p].stage = "selected"
    /\ db' = [t \in Task |-> IF t \in ids THEN [db[t] EXCEPT !.status = "FAILED"] ELSE db[t]]
    /\ recovery' = [recovery EXCEPT ![p].stage = "written"]
    /\ foreign' = foreign \cup ids
    /\ UNCHANGED <<mem, mode, pending, threads, request, deaths, faults>>

(* The recovered tasks the process knows fail in memory too; a starting    *)
(* process knows none and loads the table.                                 *)
RecoverRemember(p) ==
    /\ recovery[p] # None
    /\ recovery[p].stage = "written"
    /\ mem' = [mem EXCEPT ![p] = [t \in Task |->
                 IF mode[p] = "starting" THEN Status(t)
                 ELSE IF t \in recovery[p].ids /\ mem[p][t] # None THEN "FAILED"
                 ELSE mem[p][t]]]
    /\ mode' = [mode EXCEPT ![p] = IF @ = "starting" THEN "up" ELSE @]
    /\ recovery' = [recovery EXCEPT ![p] = None]
    /\ foreign' = foreign \cup recovery[p].ids
    /\ UNCHANGED <<db, pending, threads, request, deaths, faults>>

-----------------------------------------------------------------------------
(* submit, up to the heartbeat thread. *)
Submit(p, t) ==
    /\ mode[p] \in {"up", "stopping", "closed"}
    /\ pos[t] = "new"
    /\ Save(p, t, "QUEUED")
    /\ owner' = [owner EXCEPT ![t] = p]
    /\ pos' = [pos EXCEPT ![t] = "registered"]
    /\ beating' = beating \cup {t}
    /\ UNCHANGED <<procs, tracked, revoked, request, deaths, faults, foreign>>

(* The first _persist raises: the caller gets the error, _tasks keeps a    *)
(* QUEUED task nobody runs.                                                *)
SubmitFault(p, t) ==
    /\ mode[p] \in {"up", "stopping", "closed"}
    /\ pos[t] = "new"
    /\ SaveFails(p, t, "QUEUED")
    /\ owner' = [owner EXCEPT ![t] = p]
    /\ pos' = [pos EXCEPT ![t] = "done"]
    /\ UNCHANGED <<procs, tracked, revoked, beating, request, deaths, foreign>>

(* executor.submit accepts the task ... *)
Enqueue(t) ==
    /\ pos[t] = "registered"
    /\ mode[owner[t]] \in {"up", "stopping"}
    /\ pos' = [pos EXCEPT ![t] = "waiting"]
    /\ UNCHANGED <<db, mem, procs, owner, tracked, revoked, beating, request,
                   deaths, faults, foreign>>

(* ... or has been shut down. *)
Reject(t) ==
    /\ pos[t] = "registered"
    /\ mode[owner[t]] = "closed"
    /\ Update(owner[t], t, "FAILED")
    /\ Ends(t)
    /\ UNCHANGED <<procs, owner, tracked, revoked, request, deaths, foreign>>

(* _futures[t] is set only after executor.submit has returned. *)
Track(t) ==
    /\ pos[t] \notin {"new", "registered"}
    /\ t \notin tracked
    /\ owner[t] \in Alive
    /\ tracked' = tracked \cup {t}
    /\ UNCHANGED <<db, mem, procs, owner, pos, revoked, beating, request,
                   deaths, faults, foreign>>

(* _worker: RUNNING, unless the application is shutting down. *)
Begin(t) ==
    /\ pos[t] = "waiting"
    /\ owner[t] \in Serving
    /\ Save(owner[t], t, "RUNNING")
    /\ pos' = [pos EXCEPT ![t] = "running"]
    /\ UNCHANGED <<procs, owner, tracked, revoked, beating, request, deaths, faults, foreign>>

BeginStopped(t) ==
    /\ pos[t] = "waiting"
    /\ mode[owner[t]] = "stopping"
    /\ Save(owner[t], t, "FAILED")
    /\ Ends(t)
    /\ UNCHANGED <<procs, owner, tracked, revoked, request, deaths, faults, foreign>>

(* update_progress, called by the target. *)
Progress(t) ==
    /\ pos[t] = "running"
    /\ mem[owner[t]][t] = "RUNNING"
    /\ Save(owner[t], t, "RUNNING")
    /\ UNCHANGED <<procs, threads, request, deaths, faults, foreign>>

(* The target returns or raises.  When persisting COMPLETED raises, the    *)
(* handler records FAILED.                                                 *)
Finish(t) ==
    /\ pos[t] = "running"
    /\ \E s \in {"COMPLETED", "FAILED"} : Save(owner[t], t, s)
    /\ Ends(t)
    /\ UNCHANGED <<procs, owner, tracked, revoked, request, deaths, faults, foreign>>

(* Persisting RUNNING, or the result, raises, and the handler's FAILED too; *)
(* or BeginStopped's FAILED does, and leaves the heartbeat running.         *)
ThreadFault(t) ==
    LET skipped == pos[t] = "waiting" /\ mode[owner[t]] = "stopping" IN
    /\ pos[t] \in {"waiting", "running"}
    /\ SaveFails(owner[t], t, "FAILED")
    /\ pos' = [pos EXCEPT ![t] = "done"]
    /\ beating' = IF skipped THEN beating ELSE beating \ {t}
    /\ UNCHANGED <<procs, owner, tracked, revoked, request, deaths, foreign>>

(* Slip: the heartbeat upserts the task it was started for. *)
HeartbeatUpserts(t) ==
    /\ t \in beating
    /\ db' = [db EXCEPT ![t] = Row(owner[t], "RUNNING")]
    /\ UNCHANGED <<mem, procs, threads, request, deaths, faults, foreign>>

(* _heartbeat renews the lease of an active row this process owns. *)
Heartbeat(t) ==
    /\ t \in beating
    /\ db[t] # None /\ db[t].status \in Active /\ db[t].owner = owner[t]
    /\ db[t].lease = "expired"
    /\ db' = [db EXCEPT ![t].lease = "live"]
    /\ UNCHANGED <<mem, procs, threads, request, deaths, faults, foreign>>

(* Five minutes pass without a heartbeat: there is no thread, or its calls *)
(* fail.                                                                   *)
Lapse(t) ==
    /\ db[t] # None /\ db[t].status \in Active /\ db[t].lease = "live"
    /\ t \in beating => faults < MaxFaults
    /\ faults' = IF t \in beating THEN faults + 1 ELSE faults
    /\ db' = [db EXCEPT ![t].lease = "expired"]
    /\ UNCHANGED <<mem, procs, threads, request, deaths, foreign>>

-----------------------------------------------------------------------------
(* get_task, for itself or in front of cancel_task: _load_one's SELECT.  A *)
(* task without a row is served from memory.                               *)
Read(r, p, t) ==
    /\ request[r] = None
    /\ p \in Serving
    /\ db[t] = None => mem[p][t] # None
    /\ \E intent \in IF db[t] = None THEN {"cancel"} ELSE {"view", "cancel"} :
         request' = [request EXCEPT ![r] = [process |-> p, task |-> t, intent |-> intent,
                                            seen |-> Status(t)]]
    /\ UNCHANGED <<db, mem, procs, threads, deaths, faults, foreign>>

(* What was read overwrites the memory, however old it is by now. *)
Load(r) ==
    LET q == request[r] IN
    /\ q # None /\ q.seen # None
    /\ mem' = [mem EXCEPT ![q.process][q.task] = q.seen]
    /\ request' = [request EXCEPT ![r] =
                     IF q.intent = "view" THEN None ELSE [q EXCEPT !.seen = None]]
    /\ foreign' = IF q.seen # Status(q.task) THEN foreign \cup {q.task} ELSE foreign
    /\ UNCHANGED <<db, procs, threads, deaths, faults>>

(* What cancel_task does to the thread: a waiting future is cancelled if   *)
(* it is known here, and so is the heartbeat.                              *)
Revoke(p, t) ==
    LET stops == p = owner[t] /\ t \in tracked /\ pos[t] = "waiting" IN
    /\ pos' = IF stops THEN [pos EXCEPT ![t] = "done"] ELSE pos
    /\ revoked' = IF stops THEN revoked \cup {t} ELSE revoked
    /\ beating' = IF p = owner[t] THEN beating \ {t} ELSE beating
    /\ UNCHANGED <<owner, tracked>>

(* Slip: terminal tasks are not refused. *)
CancellableAny(r) ==
    /\ request[r] # None /\ request[r].seen = None
    /\ mem[request[r].process][request[r].task] # None

Cancellable(r) ==
    /\ request[r] # None /\ request[r].seen = None
    /\ mem[request[r].process][request[r].task] \in Active

(* cancel_task *)
Cancel(r) ==
    LET p == request[r].process  t == request[r].task IN
    /\ Cancellable(r)
    /\ Update(p, t, "CANCELLED")
    /\ Revoke(p, t)
    /\ foreign' = IF p = owner[t] THEN foreign ELSE foreign \cup {t}
    /\ request' = [request EXCEPT ![r] = None]
    /\ UNCHANGED <<procs, deaths>>

CancelRefused(r) ==
    /\ request[r] # None /\ request[r].seen = None
    /\ mem[request[r].process][request[r].task] \in Terminal
    /\ request' = [request EXCEPT ![r] = None]
    /\ UNCHANGED <<db, mem, procs, threads, deaths, faults, foreign>>

-----------------------------------------------------------------------------
(* shutdown(): the flag is set and the known futures are listed ... *)
Stop(p) ==
    /\ mode[p] = "up"
    /\ deaths < MaxDeaths
    /\ deaths' = deaths + 1
    /\ mode' = [mode EXCEPT ![p] = "stopping"]
    /\ pending' = [pending EXCEPT ![p] = {t \in tracked : owner[t] = p}]
    /\ UNCHANGED <<db, mem, recovery, threads, request, faults, foreign>>

(* Slip: the cancelled futures are not recorded. *)
StopTaskSilently(p, t) ==
    /\ mode[p] = "stopping"
    /\ t \in pending[p]
    /\ pending' = [pending EXCEPT ![p] = @ \ {t}]
    /\ IF pos[t] = "waiting"
       THEN Ends(t) /\ revoked' = revoked \cup {t}
       ELSE UNCHANGED <<pos, beating, revoked>>
    /\ UNCHANGED <<db, mem, mode, recovery, owner, tracked, request, deaths, faults, foreign>>

(* ... each that can be cancelled, or already was, is recorded as FAILED   *)
(* (if that raises shutdown() ends, as if the process exited here) ...     *)
StopTask(p, t) ==
    LET stops == pos[t] = "waiting" \/ t \in revoked IN
    /\ mode[p] = "stopping"
    /\ t \in pending[p]
    /\ pending' = [pending EXCEPT ![p] = @ \ {t}]
    /\ IF stops
       THEN Save(p, t, "FAILED") /\ Ends(t) /\ revoked' = revoked \cup {t}
       ELSE UNCHANGED <<db, mem, pos, beating, revoked>>
    /\ UNCHANGED <<mode, recovery, owner, tracked, request, deaths, faults, foreign>>

(* ... and the executor is shut, with the futures nobody listed. *)
Close(p) ==
    /\ mode[p] = "stopping"
    /\ pending[p] = {}
    /\ mode' = [mode EXCEPT ![p] = "closed"]
    /\ pos' = [t \in Task |-> IF owner[t] = p /\ pos[t] = "waiting"
                              THEN "dropped" ELSE pos[t]]
    /\ UNCHANGED <<db, mem, recovery, pending, owner, tracked, revoked, beating,
                   request, deaths, faults, foreign>>

(* The process is gone, with its memory and its threads. *)
Die(p) ==
    /\ mode' = [mode EXCEPT ![p] = "dead"]
    /\ recovery' = [recovery EXCEPT ![p] = None]
    /\ pending' = [pending EXCEPT ![p] = {}]
    /\ mem' = [mem EXCEPT ![p] = [t \in Task |-> None]]
    /\ pos' = [t \in Task |-> IF owner[t] = p /\ pos[t] # "done" THEN "lost" ELSE pos[t]]
    /\ beating' = {t \in beating : owner[t] # p}
    /\ request' = [r \in Reader |->
                     IF request[r] # None /\ request[r].process = p THEN None ELSE request[r]]
    /\ UNCHANGED <<db, owner, tracked, revoked, faults, foreign>>

Crash(p) ==
    /\ mode[p] \in {"starting", "up"}
    /\ deaths < MaxDeaths
    /\ deaths' = deaths + 1
    /\ Die(p)

(* The watchdog gives a stopping process three seconds. *)
Exit(p) ==
    /\ mode[p] \in {"stopping", "closed"}
    /\ Die(p)
    /\ UNCHANGED deaths

-----------------------------------------------------------------------------
Recover(p) == RecoverWrite(p) \/ RecoverRemember(p)

Shutdown(p) == Close(p) \/ Exit(p) \/ \E t \in Task : StopTask(p, t)

Thread(t) == Enqueue(t) \/ Reject(t) \/ Begin(t) \/ BeginStopped(t) \/ Finish(t)

Next ==
    \/ \E p \in Process :
         \/ Start(p) \/ RecoverSelect(p) \/ Recover(p) \/ Stop(p) \/ Shutdown(p) \/ Crash(p)
         \/ \E t \in Task : Submit(p, t) \/ SubmitFault(p, t)
    \/ \E t \in Task :
         \/ Thread(t) \/ Track(t) \/ Progress(t) \/ ThreadFault(t)
         \/ Heartbeat(t) \/ Lapse(t)
    \/ \E r \in Reader :
         \/ Load(r) \/ Cancel(r) \/ CancelRefused(r)
         \/ \E p \in Process, t \in Task : Read(r, p, t)

Spec == Init /\ [][Next]_vars

(* The server replaces dead processes, targets return, stopping processes  *)
(* exit; nothing is assumed of requests, heartbeats and crashes.           *)
FairSpec ==
    /\ Spec
    /\ \A p \in Process : WF_vars(Start(p)) /\ WF_vars(Recover(p)) /\ WF_vars(Shutdown(p))
    /\ \A t \in Task : WF_vars(Thread(t))

-----------------------------------------------------------------------------
(* No lost or finished thread comes back: once nothing will run a task any *)
(* more and its row is terminal, no heartbeat, late progress report,       *)
(* cancellation or recovery makes the row QUEUED or RUNNING again.         *)
NoResurrection ==
    [][\A t \in Task : pos[t] \in {"done", "dropped", "lost"} /\ Status(t) \in Terminal
                          => Status(t)' \in Terminal]_vars

(* While the database answers, a task whose thread is over has a terminal  *)
(* row, whichever of worker, rejection, cancellation and shutdown() ended  *)
(* it; only tasks dropped by the executor or lost with their process wait  *)
(* for recovery.                                                           *)
EndedIsRecorded ==
    faults = 0 => \A t \in Task : pos[t] = "done" => Status(t) \in Terminal

(* The owner's memory agrees with the row while the database answers and   *)
(* nothing outside the owner's lock (a recovery, another process's cancel, *)
(* an outdated get_task) has touched the task.                             *)
CacheAgrees ==
    \A t \in Task : owner[t] \in Alive /\ t \notin foreign /\ faults = 0
                     => mem[owner[t]][t] = Status(t)

(* A heartbeat keeps the lease of a task only while a thread has it or its *)
(* process is shutting down: an ended task's lease may lapse.              *)
BeatsForWork ==
    \A t \in beating : \/ pos[t] \in {"registered", "waiting", "running"}
                        \/ mode[owner[t]] \in {"stopping", "closed"}

(* A completed result is overwritten only from outside the lock of its     *)
(* owner: cancel_task and shutdown() refuse what the worker has finished.  *)
ResultKept ==
    [][\A t \in Task : Status(t) = "COMPLETED"
                          => Status(t)' = "COMPLETED" \/ t \in foreign']_vars

(* Every submitted task reaches a terminal row, though its process crashes *)
(* or stops at any point: its thread, shutdown() or the recovery of the    *)
(* process that replaces it writes one.                                    *)
TasksSettle ==
    \A t \in Task : Status(t) \in Active ~> Status(t) \in Terminal

(* Migration 013: task leases keep one process from invalidating another's *)
(* live work.  recover_crashed_tasks takes every row of another owner.     *)
LiveWorkKept ==
    [][\A t \in Task : /\ Status(t) \in Active /\ db[t].lease = "live"
                        /\ pos[t] = "running"
                        => Status(t)' # "FAILED" \/ pos[t]' # "running"]_vars

(* The port's cancel_task: a cancelled task is cancelled, whatever its     *)
(* thread does afterwards.                                                 *)
CancelStays ==
    [][\A t \in Task : Status(t) = "CANCELLED" => Status(t)' = "CANCELLED"]_vars
=============================================================================
