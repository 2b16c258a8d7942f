------------------------------ MODULE PassMonitor ------------------------------
(***************************************************************************)
(* AIS collection during one satellite pass over one AOI: the monitor      *)
(* registry of each process (infrastructure/scheduler/pass_monitor.py),    *)
(* the schedule cycles that fill it (use_cases/schedule_aois.py), the      *)
(* minute-by-minute scrape (use_cases/trigger_automatic_ais.py) with its   *)
(* claims in the shared table automatic_ais_runs, and the web requests     *)
(* that stop a monitor (interfaces/web/aois.py).                           *)
(*                                                                         *)
(* A registry has one key per (AOI, pass), so here one current entry per   *)
(* process; a replaced entry is kept because its thread and its timer live *)
(* on.  The clock counts minutes, the interval of the scrape.  Every       *)
(* process may run schedule cycles: the leader's timer runs them, and      *)
(* POST /api/scheduler/poll runs them without the lease (schedule.py:157). *)
(***************************************************************************)
EXTENDS Integers, Sequences

CONSTANTS
    Proc,        \* processes of the deployment
    Opens,       \* first minute of the pass window
    Closes,      \* last minute of the pass window
    MaxEntries,  \* bound: entries one process makes for the pass
    MaxClock,    \* bound: the clock stops here
    MaxRequests, \* bound: web requests and satellite changes
    MaxFaults,   \* bound: scrapes and database calls that raise
    MaxCrashes   \* bound: processes that die (and are restarted)

ASSUME WindowAssumption == Opens \in Nat /\ Closes \in Nat /\ Opens <= Closes
ASSUME BoundAssumption ==
    /\ MaxEntries \in Nat /\ MaxClock \in Nat /\ MaxRequests \in Nat
    /\ MaxFaults \in Nat /\ MaxCrashes \in Nat

Minute == 0..MaxClock
Entry == 1..MaxEntries

VARIABLES
    clock,
    aoi,       \* the AOI's row: auto_capture_enabled on or off, or gone
    phase,     \* per process: up; closing: is_shutting_down; stopped: stop_all
    cycle,     \* per process: "loaded" between list() and schedule_or_start
    entries,   \* per process: the entries made for the pass, the last current
    thread,    \* per process and start call: the thread it started
    run,       \* per minute: the row of automatic_ais_runs
    job,       \* the post-pass job: none, PENDING_PASS, or any later status
    request,   \* per process: the web request being handled
    requests, faults, crashes,
    handed     \* history: minutes at which the job was handed over

vars == <<clock, aoi, phase, cycle, entries, thread, run, job, request, requests,
          faults, crashes, handed>>

(* cancelled: the cancel_event is set.  timer: "starting" when the call of *)
(* _start_active_thread is due (at once, or the timer has fired), "arming" *)
(* before the timer is stored, "armed", and "done".                        *)
MonitorEntry == [status : {"SCHEDULED", "ACTIVE", "CANCELLED", "COMPLETED"},
                 cancelled : BOOLEAN,
                 timer : {"starting", "arming", "armed", "done"}]

(* A thread captures the cancel event of one entry.  top: the loop's       *)
(* conditions are due; claiming: tick_now is read; scraping: the minute is *)
(* claimed; waiting: for the next minute; exiting, leaving: after the loop *)
(* and after its status write; ended; lost: its hand-over failed.          *)
Thread == [at : {"none", "top", "claiming", "scraping", "waiting", "exiting",
                 "leaving", "ended", "lost"},
           entry : 0..MaxEntries, tick : Minute]

NoThread == [at |-> "none", entry |-> 0, tick |-> 0]

TypeOK ==
    /\ clock \in Minute
    /\ aoi \in {"on", "off", "gone"}
    /\ phase \in [Proc -> {"up", "closing", "stopped"}]
    /\ cycle \in [Proc -> {"idle", "loaded"}]
    /\ entries \in [Proc -> Seq(MonitorEntry)]
    /\ \A p \in Proc : Len(entries[p]) <= MaxEntries
    /\ thread \in [Proc -> [Entry -> Thread]]
    /\ run \in [Minute -> {"none", "RUNNING", "FAILED", "COMPLETED"}]
    /\ job \in {"none", "PENDING_PASS", "later"}
    /\ request \in [Proc -> {"none", "disabling", "deleting"}]
    /\ requests \in 0..MaxRequests
    /\ faults \in 0..MaxFaults
    /\ crashes \in 0..MaxCrashes
    /\ handed \subseteq Minute

Init ==
    /\ clock = 0
    /\ aoi = "on"
    /\ phase = [p \in Proc |-> "up"]
    /\ cycle = [p \in Proc |-> "idle"]
    /\ entries = [p \in Proc |-> <<>>]
    /\ thread = [p \in Proc |-> [g \in Entry |-> NoThread]]
    /\ run = [m \in Minute |-> "none"]
    /\ job = "none"
    /\ request = [p \in Proc |-> "none"]
    /\ requests = 0 /\ faults = 0 /\ crashes = 0
    /\ handed = {}

-----------------------------------------------------------------------------
(* The schedule cycle and the registry.                                    *)

Current(p) == Len(entries[p])

(* is_monitoring: the pass has a scheduled or active monitor. *)
Monitored(p) ==
    Current(p) > 0 /\ entries[p][Current(p)].status \in {"SCHEDULED", "ACTIVE"}

(* The cancel event the thread captured is set. *)
Cancelled(p, g) == entries[p][thread[p][g].entry].cancelled

(* Every active entry is cancelled: its timer, if stored, its event and    *)
(* its status.  A timer that fired already waits for the lock.             *)
Cancel(e) == [status |-> "CANCELLED", cancelled |-> TRUE,
              timer |-> IF e.timer = "armed" THEN "done" ELSE e.timer]

CancelCurrent(p) ==
    entries' = IF Current(p) > 0
               THEN [entries EXCEPT ![p][Current(p)] = Cancel(@)]
               ELSE entries

(* execute() lists the AOIs; those with automatic capture off are skipped. *)
LoadAois(p) ==
    /\ phase[p] = "up"
    /\ cycle[p] = "idle"
    /\ aoi = "on"
    /\ cycle' = [cycle EXCEPT ![p] = "loaded"]
    /\ UNCHANGED <<clock, aoi, phase, entries, thread, run, job, request, requests,
                   faults, crashes, handed>>

(* schedule_or_start: a pass without a scheduled or active monitor gets a  *)
(* new entry, which replaces a cancelled or completed one.                 *)
ScheduleMonitor(p) ==
    /\ cycle[p] = "loaded"
    /\ phase[p] = "up"
    /\ clock <= Closes
    /\ ~Monitored(p)
    /\ Current(p) < MaxEntries
    /\ cycle' = [cycle EXCEPT ![p] = "idle"]
    /\ entries' = [entries EXCEPT ![p] = Append(@,
          [status |-> "SCHEDULED", cancelled |-> FALSE,
           timer |-> IF clock >= Opens THEN "starting" ELSE "arming"])]
    /\ UNCHANGED <<clock, aoi, phase, thread, run, job, request, requests, faults,
                   crashes, handed>>

(* schedule_or_start does nothing: stopping, too late, or monitored. *)
ScheduleNothing(p) ==
    /\ cycle[p] = "loaded"
    /\ phase[p] # "up" \/ clock > Closes \/ Monitored(p)
    /\ cycle' = [cycle EXCEPT ![p] = "idle"]
    /\ UNCHANGED <<clock, aoi, phase, entries, thread, run, job, request, requests,
                   faults, crashes, handed>>

(* The timer is stored in the entry and started, cancelled entry or not.   *)
ArmTimer(p, g) ==
    /\ g <= Current(p)
    /\ entries[p][g].timer = "arming"
    /\ entries' = [entries EXCEPT ![p][g].timer = "armed"]
    /\ UNCHANGED <<clock, aoi, phase, cycle, thread, run, job, request, requests,
                   faults, crashes, handed>>

TimerFires(p, g) ==
    /\ g <= Current(p)
    /\ entries[p][g].timer = "armed"
    /\ clock >= Opens
    /\ entries' = [entries EXCEPT ![p][g].timer = "starting"]
    /\ UNCHANGED <<clock, aoi, phase, cycle, thread, run, job, request, requests,
                   faults, crashes, handed>>

(* _start_active_thread looks the CURRENT entry up by key: the call made   *)
(* for entry g may start the thread of the entry that replaced it.         *)
StartThread(p, g) ==
    /\ g <= Current(p)
    /\ entries[p][g].timer = "starting"
    /\ LET c == Current(p)
           done == [entries EXCEPT ![p][g].timer = "done"]
       IN IF phase[p] = "up" /\ ~entries[p][c].cancelled
          THEN /\ entries' = [done EXCEPT ![p][c].status = "ACTIVE"]
               /\ thread' = [thread EXCEPT ![p][g] =
                                [NoThread EXCEPT !.at = "top", !.entry = c]]
          ELSE entries' = done /\ thread' = thread
    /\ UNCHANGED <<clock, aoi, phase, cycle, run, job, request, requests, faults,
                   crashes, handed>>

-----------------------------------------------------------------------------
(* _run_pass_loop and TriggerAutomaticAISScrape.execute.                   *)

Move(p, g, at) == thread' = [thread EXCEPT ![p][g].at = at]

(* Slip: the window ends one minute early. *)
LoopTopEarly(p, g) ==
    /\ thread[p][g].at = "top"
    /\ IF phase[p] # "up" \/ Cancelled(p, g) \/ clock >= Closes
       THEN Move(p, g, "exiting")
       ELSE thread' = [thread EXCEPT ![p][g].at = "claiming",
                                     ![p][g].tick = clock]
    /\ UNCHANGED <<clock, aoi, phase, cycle, entries, run, job, request, requests,
                   faults, crashes, handed>>

(* The loop's conditions, tested once more just before the scrape; tick_now *)
(* names the minute.  No thread starts before the window opens, so the     *)
(* loop's wait for it (154-158) is not modelled.                           *)
LoopTop(p, g) ==
    /\ thread[p][g].at = "top"
    /\ IF phase[p] # "up" \/ Cancelled(p, g) \/ clock > Closes
       THEN Move(p, g, "exiting")
       ELSE thread' = [thread EXCEPT ![p][g].at = "claiming",
                                     ![p][g].tick = clock]
    /\ UNCHANGED <<clock, aoi, phase, cycle, entries, run, job, request, requests,
                   faults, crashes, handed>>

(* Slip: a minute that is RUNNING is claimed too. *)
ClaimableTwice(m) == run[m] # "COMPLETED"

(* The upsert of claim_automatic_ais_tick inserts the minute, or takes one *)
(* that FAILED.                                                            *)
Claimable(m) == run[m] \in {"none", "FAILED"}

Fault == faults < MaxFaults /\ faults' = faults + 1

(* The trigger finds the job or adds it.  (At the very instant of          *)
(* window_end it would add it as POLLING_CATALOG, line 74: not modelled.)  *)
Registered == IF job = "none" THEN "PENDING_PASS" ELSE job

(* The job is found or added and the minute claimed; a minute somebody has *)
(* is skipped.  For a deleted AOI the insert raises (foreign key), and any *)
(* of the three database calls may fail.                                   *)
ClaimMinute(p, g) ==
    LET m == thread[p][g].tick IN
    /\ thread[p][g].at = "claiming"
    /\ \/ /\ aoi # "gone"
          /\ job' = Registered
          /\ IF Claimable(m)
             THEN run' = [run EXCEPT ![m] = "RUNNING"] /\ Move(p, g, "scraping")
             ELSE run' = run /\ Move(p, g, "waiting")
          /\ faults' = faults
       \/ /\ aoi # "gone"
          /\ Fault
          /\ job' \in {job, Registered}
          /\ run' = run /\ Move(p, g, "waiting")
       \/ /\ aoi = "gone"
          /\ Move(p, g, "waiting")
          /\ UNCHANGED <<run, job, faults>>
    /\ UNCHANGED <<clock, aoi, phase, cycle, entries, request, requests, crashes,
                   handed>>

(* IngestAIS returns and the minute is finished. *)
ScrapeDone(p, g) ==
    /\ thread[p][g].at = "scraping"
    /\ run' = [run EXCEPT ![thread[p][g].tick] = "COMPLETED"]
    /\ Move(p, g, "waiting")
    /\ UNCHANGED <<clock, aoi, phase, cycle, entries, job, request, requests,
                   faults, crashes, handed>>

(* IngestAIS raises: FAILED with the message, COMPLETED when the message   *)
(* is empty; or the finishing update itself raises and RUNNING stays.      *)
ScrapeFails(p, g) ==
    /\ thread[p][g].at = "scraping"
    /\ Fault
    /\ \E outcome \in {"FAILED", "COMPLETED", "RUNNING"} :
          run' = [run EXCEPT ![thread[p][g].tick] = outcome]
    /\ Move(p, g, "waiting")
    /\ UNCHANGED <<clock, aoi, phase, cycle, entries, job, request, requests,
                   crashes, handed>>

(* cancel_event.wait: a minute later, no later than the window's end, or   *)
(* cancelled; then the stop event.  The minute is done with.               *)
WakeUp(p, g) ==
    /\ thread[p][g].at = "waiting"
    /\ clock > thread[p][g].tick \/ clock >= Closes \/ Cancelled(p, g)
    /\ thread' = [thread EXCEPT ![p][g].tick = 0,
          ![p][g].at = IF phase[p] = "stopped" \/ Cancelled(p, g)
                       THEN "exiting" ELSE "top"]
    /\ UNCHANGED <<clock, aoi, phase, cycle, entries, run, job, request, requests,
                   faults, crashes, handed>>

(* The pass window has completed, or so the comment says: the status goes  *)
(* to the entry the key has NOW.                                           *)
RecordEnd(p, g) ==
    /\ thread[p][g].at = "exiting"
    /\ entries' = [entries EXCEPT ![p][Current(p)].status =
                      IF phase[p] = "stopped" \/ Cancelled(p, g)
                      THEN "CANCELLED" ELSE "COMPLETED"]
    /\ Move(p, g, "leaving")
    /\ UNCHANGED <<clock, aoi, phase, cycle, run, job, request, requests, faults,
                   crashes, handed>>

(* _transition_job_to_polling is called unless stopped or cancelled by now. *)
HandsOver(p, g) == phase[p] # "stopped" /\ ~Cancelled(p, g)

(* Slip: a monitor that saw its window end does not hand over. *)
HandOverForgotten(p, g) ==
    /\ thread[p][g].at = "leaving"
    /\ Move(p, g, "ended")
    /\ UNCHANGED <<clock, aoi, phase, cycle, entries, run, job, request, requests,
                   faults, crashes, handed>>

(* It moves an existing job that is still PENDING_PASS, leaves any other   *)
(* alone, and swallows a database call that fails.  What another writer    *)
(* does between its find and its update is part of PostPassJobs.           *)
HandOver(p, g) ==
    /\ thread[p][g].at = "leaving"
    /\ \/ /\ HandsOver(p, g) /\ job = "PENDING_PASS"
          /\ job' = "later"
          /\ handed' = handed \cup {clock}
          /\ Move(p, g, "ended")
          /\ faults' = faults
       \/ /\ HandsOver(p, g)
          /\ Fault
          /\ Move(p, g, "lost")
          /\ UNCHANGED <<job, handed>>
       \/ /\ ~HandsOver(p, g) \/ job # "PENDING_PASS"
          /\ Move(p, g, "ended")
          /\ UNCHANGED <<job, handed, faults>>
    /\ UNCHANGED <<clock, aoi, phase, cycle, entries, run, request, requests,
                   crashes>>

-----------------------------------------------------------------------------
(* Requests, shutdown and time.                                            *)

NewRequest == requests < MaxRequests /\ requests' = requests + 1

(* toggle_auto_capture(FALSE) writes the row first... *)
Disable(p) ==
    /\ phase[p] = "up" /\ request[p] = "none" /\ aoi # "gone"
    /\ NewRequest
    /\ aoi' = "off"
    /\ request' = [request EXCEPT ![p] = "disabling"]
    /\ UNCHANGED <<clock, phase, cycle, entries, thread, run, job, faults, crashes,
                   handed>>

(* ...and then stops the monitors of the process that serves the request.  *)
DisableStops(p) ==
    /\ request[p] = "disabling"
    /\ request' = [request EXCEPT ![p] = "none"]
    /\ CancelCurrent(p)
    /\ UNCHANGED <<clock, aoi, phase, cycle, thread, run, job, requests, faults,
                   crashes, handed>>

Enable(p) ==
    /\ phase[p] = "up" /\ request[p] = "none" /\ aoi = "off"
    /\ NewRequest
    /\ aoi' = "on"
    /\ UNCHANGED <<clock, phase, cycle, entries, thread, run, job, request, faults,
                   crashes, handed>>

(* delete_aoi stops the monitors first... *)
DeleteStops(p) ==
    /\ phase[p] = "up" /\ request[p] = "none" /\ aoi # "gone"
    /\ NewRequest
    /\ request' = [request EXCEPT ![p] = "deleting"]
    /\ CancelCurrent(p)
    /\ UNCHANGED <<clock, aoi, phase, cycle, thread, run, job, faults, crashes, handed>>

(* ...and then deletes.  The jobs are deleted before the AOI, and a job    *)
(* that a row of automatic_ais_runs references cannot be: the whole        *)
(* transaction is rolled back and the AOI stays.                           *)
Delete(p) ==
    /\ request[p] = "deleting"
    /\ request' = [request EXCEPT ![p] = "none"]
    /\ IF \A m \in Minute : run[m] = "none"
       THEN aoi' = "gone" /\ job' = "none"
       ELSE UNCHANGED <<aoi, job>>
    /\ UNCHANGED <<clock, phase, cycle, entries, thread, run, requests, faults,
                   crashes, handed>>

(* The web form registers the job too, or asks for its poll at once...     *)
FormRegisters ==
    /\ aoi # "gone"
    /\ NewRequest
    /\ \/ job = "none" /\ job' \in {"PENDING_PASS", "later"}
       \/ job = "PENDING_PASS" /\ job' = "later"
    /\ UNCHANGED <<clock, aoi, phase, cycle, entries, thread, run, request,
                   faults, crashes, handed>>

(* ...and a catalogue poll takes a job whose next_poll_at, the end of the  *)
(* window, is reached.                                                     *)
PollTakes ==
    /\ job = "PENDING_PASS"
    /\ clock > Closes
    /\ job' = "later"
    /\ UNCHANGED <<clock, aoi, phase, cycle, entries, thread, run, request,
                   requests, faults, crashes, handed>>

(* reconcile_enabled_satellites at the start of a cycle: the satellite of  *)
(* the pass was disabled (and may be enabled again).                       *)
DisableSatellite(p) ==
    /\ phase[p] = "up"
    /\ Monitored(p)
    /\ NewRequest
    /\ CancelCurrent(p)
    /\ UNCHANGED <<clock, aoi, phase, cycle, thread, run, job, request, faults,
                   crashes, handed>>

(* request_shutdown raises the flag first and runs the callbacks later.    *)
BeginShutdown(p) ==
    /\ phase[p] = "up"
    /\ phase' = [phase EXCEPT ![p] = "closing"]
    /\ UNCHANGED <<clock, aoi, cycle, entries, thread, run, job, request, requests,
                   faults, crashes, handed>>

StopAll(p) ==
    /\ phase[p] = "closing"
    /\ phase' = [phase EXCEPT ![p] = "stopped"]
    /\ CancelCurrent(p)
    /\ UNCHANGED <<clock, aoi, cycle, thread, run, job, request, requests, faults,
                   crashes, handed>>

(* A process dies, threads and registry with it, and is started again. *)
Crash(p) ==
    /\ crashes < MaxCrashes
    /\ crashes' = crashes + 1
    /\ phase' = [phase EXCEPT ![p] = "up"]
    /\ cycle' = [cycle EXCEPT ![p] = "idle"]
    /\ entries' = [entries EXCEPT ![p] = <<>>]
    /\ thread' = [thread EXCEPT ![p] = [g \in Entry |-> NoThread]]
    /\ request' = [request EXCEPT ![p] = "none"]
    /\ UNCHANGED <<clock, aoi, run, job, requests, faults, handed>>

Tick ==
    /\ clock < MaxClock
    /\ clock' = clock + 1
    /\ UNCHANGED <<aoi, phase, cycle, entries, thread, run, job, request, requests,
                   faults, crashes, handed>>

-----------------------------------------------------------------------------
CycleStep(p) == LoadAois(p) \/ ScheduleMonitor(p) \/ ScheduleNothing(p)

TimerStep(p, g) == ArmTimer(p, g) \/ TimerFires(p, g) \/ StartThread(p, g)

ThreadStep(p, g) ==
    \/ LoopTop(p, g)
    \/ ClaimMinute(p, g)
    \/ ScrapeDone(p, g)
    \/ ScrapeFails(p, g)
    \/ WakeUp(p, g)
    \/ RecordEnd(p, g)
    \/ HandOver(p, g)

RequestStep(p) ==
    \/ Disable(p) \/ DisableStops(p)
    \/ Enable(p)
    \/ DeleteStops(p) \/ Delete(p)
    \/ DisableSatellite(p)

ProcessStep(p) == BeginShutdown(p) \/ StopAll(p) \/ Crash(p)

Next ==
    \/ Tick
    \/ FormRegisters
    \/ PollTakes
    \/ \E p \in Proc : CycleStep(p) \/ RequestStep(p) \/ ProcessStep(p)
    \/ \E p \in Proc, g \in Entry : TimerStep(p, g) \/ ThreadStep(p, g)

Spec == Init /\ [][Next]_vars

(* Time passes; a thread that can step does: a scrape ends (its requests   *)
(* have timeouts) and a wait ends with the minute.                         *)
Fairness ==
    /\ WF_vars(Tick)
    /\ \A p \in Proc, g \in Entry : WF_vars(ThreadStep(p, g))

FairSpec == Spec /\ Fairness

-----------------------------------------------------------------------------
Live(p, g) == thread[p][g].at \in {"top", "claiming", "scraping", "waiting"}

(* However many processes and threads monitor the pass, a minute is        *)
(* scraped by at most one of them at a time (sqlite_post_pass.py:665).     *)
OneScrapePerMinute ==
    \A p, q \in Proc, g, h \in Entry :
        (/\ thread[p][g].at = "scraping" /\ thread[q][h].at = "scraping"
         /\ thread[p][g].tick = thread[q][h].tick) => p = q /\ g = h

(* The job is handed to the catalogue poll before its window has ended     *)
(* only by a process that is shutting down.                                *)
EarlyHandOverOnlyClosing ==
    [][(handed' # handed /\ clock <= Closes) =>
         \E p \in Proc : phase[p] = "closing"]_vars

(* A job that a running monitor could hand over does not stay              *)
(* PENDING_PASS, whichever thread and entry outlive each other, unless the *)
(* monitor is cancelled, its process stops or dies, or its own hand-over   *)
(* fails: no poll cycle and no other monitor is relied on.                 *)
MonitoredPassHandedOver ==
    \A p \in Proc, g \in Entry :
        (Live(p, g) /\ job = "PENDING_PASS")
            ~> \/ job # "PENDING_PASS"
               \/ thread[p][g].at \in {"none", "lost"}
               \/ phase[p] # "up"
               \/ Cancelled(p, g)

(* pass_monitor.py:210: "Transition post-pass job to POLLING_CATALOG once  *)
(* pass window ends".                                                      *)
HandOverAfterWindow == \A m \in handed : m > Closes

(* 013_harden_automation_workflows.sql:26: automatic_ais_runs.aoi_id is    *)
(* "REFERENCES aoi(id) ON DELETE CASCADE": a request to delete an AOI      *)
(* deletes it.                                                             *)
DeletionDeletes ==
    [][\A p \in Proc : (request[p] = "deleting" /\ crashes' = crashes
                        /\ request'[p] = "none") => aoi' = "gone"]_vars
=============================================================================
