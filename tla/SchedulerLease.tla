---------------------------- MODULE SchedulerLease ----------------------------
(***************************************************************************)
(* Leader election between the scheduler workers of several processes      *)
(* (infrastructure/scheduler/leader.py, the lease statements of            *)
(* infrastructure/persistence/sqlite_post_pass.py and the cycles of        *)
(* infrastructure/scheduler/pass_scheduler.py).                            *)
(*                                                                         *)
(* Every gunicorn worker, and every standalone scheduler daemon, runs one  *)
(* PassSchedulerWorker.  Its two timed jobs ("aoi": the AOI check cycle,   *)
(* "sar": the post-pass dispatcher) each call LeaderElection.acquire at    *)
(* the START of a cycle, and then run the cycle without renewing.  The     *)
(* lease is one row of the shared SQLite table scheduler_leases.           *)
(*                                                                         *)
(* A restarted process draws a new owner id (generate_worker_identity), so *)
(* a restart is another member of Worker that starts later.                *)
(***************************************************************************)
EXTENDS Integers

CONSTANTS
    Worker,     \* the worker identities (owner ids)
    Job,        \* the timed jobs of a worker: a subset of {"aoi", "sar"}
    TTL,        \* lease length, in ticks of the clock (90 s in the code)
    MaxClock,   \* bound: the clock stops here
    MaxFaults,  \* bound: failing database calls in one behaviour
    NoLease,    \* the row is absent
    Never       \* LeaderElection._last_heartbeat before the first success

ASSUME TTLAssumption == TTL \in Nat /\ TTL > 0
ASSUME BoundAssumption == MaxClock \in Nat /\ MaxFaults \in Nat
ASSUME SentinelAssumption == /\ NoLease \notin [owner : Worker, expires : Int]
                             /\ Never \notin Int

VARIABLES
    clock,      \* wall clock, shared: all processes run on one host
    lease,      \* the row of scheduler_leases, or NoLease
    mode,       \* per worker: the life cycle of its process
    isLeader,   \* LeaderElection._is_leader
    heartbeat,  \* LeaderElection._last_heartbeat
    snapshot,   \* `now` of the acquire call that holds the mutex
    pc,         \* per worker and job: where the cycle is
    faults      \* database calls that have failed so far

vars == <<clock, lease, mode, isLeader, heartbeat, snapshot, pc, faults>>

(* off: not started; up: start() ran; stopping: the stop event or the      *)
(* shutdown flag is set; stopped: stop() has released; crashed: the        *)
(* process is gone.                                                        *)
Mode == {"off", "up", "stopping", "stopped", "crashed"}

(* idle: between cycles; checked: the stop check has passed; locked: in    *)
(* acquire(), holding LeaderElection._mutex, `now` read; executing: the    *)
(* cycle body runs.                                                        *)
Stage == {"idle", "checked", "locked", "executing"}

Lease == [owner : Worker, expires : Int]

Quiet == [j \in Job |-> "idle"]

Init ==
    /\ clock = 0
    /\ lease = NoLease
    /\ mode = [w \in Worker |-> "off"]
    /\ isLeader = [w \in Worker |-> FALSE]
    /\ heartbeat = [w \in Worker |-> Never]
    /\ snapshot = [w \in Worker |-> 0]
    /\ pc = [w \in Worker |-> Quiet]
    /\ faults = 0

(* LeaderElection._mutex is held exactly while some job is in acquire(). *)
MutexFree(w) == \A j \in Job : pc[w][j] # "locked"

SetStage(w, j, stage) == pc' = [pc EXCEPT ![w][j] = stage]

-----------------------------------------------------------------------------
(* PassSchedulerWorker.start *)
Start(w) ==
    /\ mode[w] = "off"
    /\ mode' = [mode EXCEPT ![w] = "up"]
    /\ UNCHANGED <<clock, lease, isLeader, heartbeat, snapshot, pc, faults>>

(* A timer fires and the cycle's stop check passes.  max_instances=1 (or   *)
(* the single fallback thread) keeps one cycle per job.                    *)
BeginCycle(w, j) ==
    /\ mode[w] = "up"
    /\ pc[w][j] = "idle"
    /\ SetStage(w, j, "checked")
    /\ UNCHANGED <<clock, lease, mode, isLeader, heartbeat, snapshot, faults>>

(* acquire(): take the mutex and read the clock.  The stop check is NOT    *)
(* repeated here.                                                          *)
EnterAcquire(w, j) ==
    /\ pc[w][j] = "checked"
    /\ MutexFree(w)
    /\ snapshot' = [snapshot EXCEPT ![w] = clock]
    /\ SetStage(w, j, "locked")
    /\ UNCHANGED <<clock, lease, mode, isLeader, heartbeat, faults>>

(* Slip: the WHERE clause compares with the NEW expiry, not the heartbeat. *)
LeaseAvailableEarly(w) ==
    lease # NoLease => (lease.owner = w \/ lease.expires <= snapshot[w] + TTL)

(* Slip: the WHERE clause forgets that an expired lease may be taken. *)
LeaseAvailableNever(w) == lease # NoLease => lease.owner = w

(* The WHERE clause of the upsert: the row is absent, ours, or expired at  *)
(* the `now` read before the write lock was obtained.                      *)
LeaseAvailable(w) ==
    lease # NoLease => (lease.owner = w \/ lease.expires <= snapshot[w])

(* try_acquire_scheduler_lease took the row: acquire() returns True and    *)
(* the job runs its cycle.                                                 *)
AcquireWin(w, j) ==
    /\ pc[w][j] = "locked"
    /\ LeaseAvailable(w)
    /\ lease' = [owner |-> w, expires |-> snapshot[w] + TTL]
    /\ isLeader' = [isLeader EXCEPT ![w] = TRUE]
    /\ heartbeat' = [heartbeat EXCEPT ![w] = snapshot[w]]
    /\ SetStage(w, j, "executing")
    /\ UNCHANGED <<clock, mode, snapshot, faults>>

(* Another owner's lease is still valid: the job ends its cycle. *)
AcquireLose(w, j) ==
    /\ pc[w][j] = "locked"
    /\ ~LeaseAvailable(w)
    /\ isLeader' = [isLeader EXCEPT ![w] = FALSE]
    /\ SetStage(w, j, "idle")
    /\ UNCHANGED <<clock, lease, mode, heartbeat, snapshot, faults>>

(* The database call raises (busy timeout, I/O error): acquire() swallows  *)
(* the exception and reports not-leader; a lease held earlier stays in the *)
(* table.                                                                  *)
AcquireFault(w, j) ==
    /\ pc[w][j] = "locked"
    /\ faults < MaxFaults
    /\ faults' = faults + 1
    /\ isLeader' = [isLeader EXCEPT ![w] = FALSE]
    /\ SetStage(w, j, "idle")
    /\ UNCHANGED <<clock, lease, mode, heartbeat, snapshot>>

(* The cycle body returns or raises; both ends reschedule the job while    *)
(* the worker runs, which is BeginCycle's guard.                           *)
EndCycle(w, j) ==
    /\ pc[w][j] = "executing"
    /\ SetStage(w, j, "idle")
    /\ UNCHANGED <<clock, lease, mode, isLeader, heartbeat, snapshot, faults>>

-----------------------------------------------------------------------------
(* stop(): _running is cleared and the stop event set (or the shutdown     *)
(* coordinator's flag was raised just before).                             *)
StopRequest(w) ==
    /\ mode[w] = "up"
    /\ mode' = [mode EXCEPT ![w] = "stopping"]
    /\ UNCHANGED <<clock, lease, isLeader, heartbeat, snapshot, pc, faults>>

(* stop() -> LeaderElection.release(): under the mutex, drop the flag and  *)
(* delete the row if it is still ours.  A cycle in flight is not awaited   *)
(* (scheduler.shutdown(wait=False)).                                       *)
Release(w) ==
    /\ mode[w] = "stopping"
    /\ MutexFree(w)
    /\ mode' = [mode EXCEPT ![w] = "stopped"]
    /\ isLeader' = [isLeader EXCEPT ![w] = FALSE]
    /\ lease' = IF lease # NoLease /\ lease.owner = w THEN NoLease ELSE lease
    /\ UNCHANGED <<clock, heartbeat, snapshot, pc, faults>>

(* release() swallows a failing DELETE: the row outlives the worker. *)
ReleaseFault(w) ==
    /\ mode[w] = "stopping"
    /\ MutexFree(w)
    /\ faults < MaxFaults
    /\ faults' = faults + 1
    /\ mode' = [mode EXCEPT ![w] = "stopped"]
    /\ isLeader' = [isLeader EXCEPT ![w] = FALSE]
    /\ UNCHANGED <<clock, lease, heartbeat, snapshot, pc>>

(* The process dies or, after stop(), exits: its memory and threads vanish *)
(* and its row stays.                                                      *)
Crash(w) ==
    /\ mode[w] \in {"up", "stopping", "stopped"}
    /\ mode' = [mode EXCEPT ![w] = "crashed"]
    /\ isLeader' = [isLeader EXCEPT ![w] = FALSE]
    /\ pc' = [pc EXCEPT ![w] = Quiet]
    /\ UNCHANGED <<clock, lease, heartbeat, snapshot, faults>>

Tick ==
    /\ clock < MaxClock
    /\ clock' = clock + 1
    /\ UNCHANGED <<lease, mode, isLeader, heartbeat, snapshot, pc, faults>>

-----------------------------------------------------------------------------
JobStep(w, j) ==
    \/ BeginCycle(w, j)
    \/ EnterAcquire(w, j)
    \/ AcquireWin(w, j)
    \/ AcquireLose(w, j)
    \/ AcquireFault(w, j)
    \/ EndCycle(w, j)

WorkerStep(w) ==
    \/ Start(w)
    \/ StopRequest(w)
    \/ Release(w)
    \/ ReleaseFault(w)
    \/ Crash(w)

Next ==
    \/ Tick
    \/ \E w \in Worker : WorkerStep(w)
    \/ \E w \in Worker, j \in Job : JobStep(w, j)

Spec == Init /\ [][Next]_vars

(* Time passes; a job that can take its next step does (the timers recur   *)
(* and a cycle ends: its network calls have timeouts).  A worker need not  *)
(* start, stop or crash, and database calls need not fail.                 *)
Fairness ==
    /\ WF_vars(Tick)
    /\ \A w \in Worker, j \in Job : WF_vars(JobStep(w, j))

FairSpec == Spec /\ Fairness

-----------------------------------------------------------------------------
TypeOK ==
    /\ clock \in 0..MaxClock
    /\ lease \in Lease \cup {NoLease}
    /\ mode \in [Worker -> Mode]
    /\ isLeader \in [Worker -> BOOLEAN]
    /\ heartbeat \in [Worker -> (0..MaxClock) \cup {Never}]
    /\ snapshot \in [Worker -> 0..MaxClock]
    /\ pc \in [Worker -> [Job -> Stage]]
    /\ faults \in 0..MaxFaults

(* The worker's last successful acquire is less than a TTL old: how long   *)
(* the row guarantees its lease.  No code tests it; is_leader is the flag. *)
Fresh(w) == heartbeat[w] # Never /\ clock < heartbeat[w] + TTL

Owns(w) == lease # NoLease /\ lease.owner = w

Executing(w) == \E j \in Job : pc[w][j] = "executing"

(* At any time at most one worker both believes it leads and renewed less  *)
(* than a TTL ago, whatever the order of acquires, stale clock readings,   *)
(* database errors, stops and crashes: the mutual exclusion the lease is   *)
(* for (leader.py:3-5, "only a single worker instance").                   *)
AtMostOneFreshLeader ==
    \A v, w \in Worker :
        (isLeader[v] /\ Fresh(v) /\ isLeader[w] /\ Fresh(w)) => v = w

(* Two running workers can be inside a scheduled cycle together only when  *)
(* one of them has been in its cycle past its lease: the exact extent of   *)
(* the overlap that acquiring once per cycle leaves open                   *)
(* (pass_scheduler.py:222-236, 264-294).                                   *)
OverlapOnlyPastLease ==
    \A v, w \in Worker :
        (/\ v # w
         /\ mode[v] = "up" /\ Executing(v)
         /\ mode[w] = "up" /\ Executing(w)) => ~(Fresh(v) /\ Fresh(w))

(* A row passes from one owner to another only after it expired by the     *)
(* real clock, and disappears only at its own owner's stop(): acquire's    *)
(* stale `now` and another worker's release never take a live lease.       *)
LeaseNeverStolen ==
    [][/\ (lease # NoLease /\ lease' # NoLease /\ lease'.owner # lease.owner)
             => lease.expires <= clock
       /\ (lease # NoLease /\ lease' = NoLease)
             => mode[lease.owner] = "stopping"]_vars

(* When the lease is free or expired and some worker is up, a running      *)
(* worker takes it over, unless every worker goes down or a worker that    *)
(* is shutting down grabbed it for the rest of the bounded time: the       *)
(* standby of scheduler_runner.py:6-7 is a hot one.                        *)
Abandoned == lease = NoLease \/ lease.expires <= clock

StandbyTakesOver ==
    (Abandoned /\ \E w \in Worker : mode[w] = "up") ~>
        \/ \E w \in Worker : mode[w] = "up" /\ isLeader[w] /\ Owns(w)
        \/ \A w \in Worker : mode[w] # "up"
        \/ lease # NoLease /\ lease.expires > MaxClock

(* The workers that believe they lead and renewed less than a TTL ago. *)
Reigning == {w \in Worker : isLeader[w] /\ Fresh(w)}

Reign == INSTANCE LeaderReign WITH
    now <- clock,
    reign <- [w \in Reigning |-> heartbeat[w] + TTL]

(* The lease row, the owner's flag and its heartbeat together implement an *)
(* election: a reign never passes directly from one worker to another, is  *)
(* never shortened by a renewal that carries an old `now`, and ends by the *)
(* clock alone when its holder dies (leader.py:75-119).                    *)
ImplementsReign == Reign!ReignSpec

(* scheduler_runner.py:5-7: "lease-based leader election guarantees that   *)
(* only a single active leader executes scheduled checks".  Two running    *)
(* workers are never inside a scheduled cycle at the same time.            *)
SingleActiveLeaderExecutes ==
    \A v, w \in Worker :
        (v # w /\ mode[v] = "up" /\ mode[w] = "up") =>
            ~(Executing(v) /\ Executing(w))
=============================================================================
