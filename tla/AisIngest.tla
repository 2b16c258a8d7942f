------------------------------- MODULE AisIngest -------------------------------
(***************************************************************************)
(* Collection of AIS records through one scraper plugin: the runs of       *)
(* use_cases/ingest_ais.py, the plugin's row of scraper_config and the     *)
(* rows of scraper_logs (persistence/sqlite_ais.py), and the requests of   *)
(* the scraper dashboard (use_cases/manage_scrapers.py).                   *)
(*                                                                         *)
(* A run reads the row before it fetches and writes health back after it:  *)
(* seconds or minutes lie between, and runs of the monitors, of requests   *)
(* and of other processes overlap.                                         *)
(***************************************************************************)
EXTENDS Integers

CONSTANTS
    Run,         \* concurrent executions of IngestAIS for the plugin
    Cooldown,    \* calculate_cooldown: consecutive failures -> length
    Stale,       \* age at which a log still RUNNING is reconciled
    MaxAisClock, \* bound: the clock stops here
    MaxFailures, \* bound: consecutive_failures is counted up to here
    MaxDbFaults, \* bound: database calls of a run that raise
    MaxAdmin,    \* bound: toggles and resets of the dashboard
    NoRow,       \* scraper_config has no row for the plugin
    NoEdit       \* no dashboard edit is under way

ASSUME AisAssumption ==
    /\ Cooldown \in [1..MaxFailures -> Nat \ {0}]
    /\ Stale \in Nat /\ MaxAisClock \in Nat /\ MaxFailures \in Nat \ {0}
    /\ MaxDbFaults \in Nat /\ MaxAdmin \in Nat

VARIABLES
    aisClock,
    scraper,  \* the plugin's row: enabled, cooldown_until (0: NULL), failures
    ais,      \* per run: where execute() is, and what it has read
    log,      \* per run: since when its row of scraper_logs is RUNNING
    edit,     \* the row as UpdateScraper read it, or NoEdit
    dbFaults, admin

aisVars == <<aisClock, scraper, ais, log, edit, dbFaults, admin>>

Scraper == [enabled : BOOLEAN,
            until : Nat,
            failures : 0..MaxFailures]

(* at: idle; started: `now` is taken; read: the row is read; fetching: the *)
(* plugin is called; saved: save_records has committed; failed: an exception  *)
(* is handled; logging: only the log is left to write.                     *)
AisRun == [at : {"idle", "started", "read", "fetching", "saved", "failed", "logging"},
           manual : BOOLEAN,            \* a plugin name was given
           now : 0..MaxAisClock,
           seen : Scraper \cup {NoRow}, \* `detail`
           blocked : BOOLEAN]           \* is_rate_limit_or_bot_block(error)

Idle == [at |-> "idle", manual |-> FALSE, now |-> 0, seen |-> NoRow,
         blocked |-> FALSE]

Logging == [Idle EXCEPT !.at = "logging"]

(* The row is SUCCESS, FAILED or SKIPPED, or there is none: nothing reads  *)
(* which.                                                                  *)
Closed == -1

AisTypeOK ==
    /\ aisClock \in 0..MaxAisClock
    /\ scraper \in Scraper \cup {NoRow}
    /\ ais \in [Run -> AisRun]
    /\ log \in [Run -> 0..MaxAisClock \cup {Closed}]
    /\ edit \in Scraper \cup {NoRow, NoEdit}
    /\ dbFaults \in 0..MaxDbFaults
    /\ admin \in 0..MaxAdmin

AisInit ==
    /\ aisClock = 0
    /\ scraper = NoRow
    /\ ais = [r \in Run |-> Idle]
    /\ log = [r \in Run |-> Closed]
    /\ edit = NoEdit
    /\ dbFaults = 0
    /\ admin = 0

-----------------------------------------------------------------------------
(* execute() reads the details of all plugins, then `now`; earlier plugins *)
(* of the list may then take their time.                                   *)
BeginIngest(r, manual) ==
    /\ ais[r].at = "idle"
    /\ ais' = [ais EXCEPT ![r].at = "started", ![r].manual = manual,
                          ![r].now = aisClock, ![r].seen = scraper]
    /\ UNCHANGED <<aisClock, scraper, log, edit, dbFaults, admin>>

(* get_scraper_config reads the plugin's row again; when that raises, or   *)
(* finds none, the row stands as first read.                               *)
ReadDetail(r) ==
    /\ ais[r].at = "started"
    /\ \/ ais' = [ais EXCEPT ![r].at = "read",
                              ![r].seen = IF scraper = NoRow THEN @ ELSE scraper]
          /\ UNCHANGED dbFaults
       \/ ais' = [ais EXCEPT ![r].at = "read"]
          /\ dbFaults < MaxDbFaults /\ dbFaults' = dbFaults + 1
    /\ UNCHANGED <<aisClock, scraper, log, edit, admin>>

(* Slip: the cooldown is compared the wrong way round. *)
SkippedBackwards(r) ==
    LET row == ais[r].seen
    IN /\ ~ais[r].manual /\ row # NoRow
       /\ ~row.enabled \/ row.until <= ais[r].now

(* An automatic run skips a plugin that is disabled or cooling down by its *)
(* own `now`, which may be old when earlier plugins were slow.             *)
Skipped(r) ==
    LET row == ais[r].seen
    IN /\ ~ais[r].manual /\ row # NoRow
       /\ ~row.enabled \/ row.until > ais[r].now

(* log_execution: DISABLED_SKIPPED or COOLDOWN_SKIPPED. *)
SkipPlugin(r) ==
    /\ ais[r].at = "read"
    /\ Skipped(r)
    /\ ais' = [ais EXCEPT ![r] = Idle]
    /\ log' = [log EXCEPT ![r] = Closed]
    /\ UNCHANGED <<aisClock, scraper, edit, dbFaults, admin>>

(* log_trigger: the run is RUNNING. *)
Trigger(r) ==
    /\ ais[r].at = "read"
    /\ ~Skipped(r)
    /\ ais' = [ais EXCEPT ![r].at = "fetching"]
    /\ log' = [log EXCEPT ![r] = aisClock]
    /\ UNCHANGED <<aisClock, scraper, edit, dbFaults, admin>>

FetchSucceeds(r) ==
    /\ ais[r].at = "fetching"
    /\ ais' = [ais EXCEPT ![r].at = "saved"]
    /\ UNCHANGED <<aisClock, scraper, log, edit, dbFaults, admin>>

(* authenticate, fetch or save_records raises; the last rolls back. *)
FetchFails(r, blocked) ==
    /\ ais[r].at = "fetching"
    /\ ais' = [ais EXCEPT ![r].at = "failed", ![r].blocked = blocked]
    /\ UNCHANGED <<aisClock, scraper, log, edit, dbFaults, admin>>

(* Slip: the upsert overwrites every column. *)
FreshRow == [enabled |-> TRUE, until |-> 0, failures |-> 0]

(* The row, or the one an upsert inserts. *)
RowOrNew == IF scraper = NoRow
            THEN [enabled |-> TRUE, until |-> 0, failures |-> 0]
            ELSE scraper

RecordSuccess(r) ==
    /\ ais[r].at = "saved"
    /\ scraper' = [RowOrNew EXCEPT !.until = 0, !.failures = 0]
    /\ ais' = [ais EXCEPT ![r] = Logging]
    /\ UNCHANGED <<aisClock, log, edit, dbFaults, admin>>

(* record_scraper_success raises inside the same try: the run goes on as   *)
(* a failed one although its records are stored.                           *)
RecordSuccessFault(r) ==
    /\ ais[r].at = "saved"
    /\ dbFaults < MaxDbFaults
    /\ dbFaults' = dbFaults + 1
    /\ \E blocked \in BOOLEAN :
          ais' = [ais EXCEPT ![r].at = "failed", ![r].blocked = blocked]
    /\ UNCHANGED <<aisClock, scraper, log, edit, admin>>

(* One more than the count read before the fetch. *)
Consecutive(r) ==
    LET read == IF ais[r].seen = NoRow THEN 0 ELSE ais[r].seen.failures
    IN IF read < MaxFailures THEN read + 1 ELSE MaxFailures

(* A block sets a cooldown from the run's `now`; any other failure writes  *)
(* NULL over whatever cooldown the row has by now.                         *)
RecordFailure(r) ==
    /\ ais[r].at = "failed"
    /\ scraper' = [RowOrNew EXCEPT
          !.until = IF ais[r].blocked THEN ais[r].now + Cooldown[Consecutive(r)]
                    ELSE 0,
          !.failures = Consecutive(r)]
    /\ ais' = [ais EXCEPT ![r] = Logging]
    /\ UNCHANGED <<aisClock, log, edit, dbFaults, admin>>

(* record_scraper_failure raises: `finally` still logs, then execute() is  *)
(* left and the plugins after this one are not tried.                      *)
RecordFailureFault(r) ==
    /\ ais[r].at = "failed"
    /\ dbFaults < MaxDbFaults
    /\ dbFaults' = dbFaults + 1
    /\ ais' = [ais EXCEPT ![r] = Logging]
    /\ UNCHANGED <<aisClock, scraper, log, edit, admin>>

(* update_execution_log overwrites whatever the row says by now. *)
FinishLog(r) ==
    /\ ais[r].at = "logging"
    /\ log' = [log EXCEPT ![r] = Closed]
    /\ ais' = [ais EXCEPT ![r] = Idle]
    /\ UNCHANGED <<aisClock, scraper, edit, dbFaults, admin>>

(* The process dies, or the last update raises, which is swallowed: the    *)
(* log stays RUNNING.                                                      *)
LoseRun(r) ==
    /\ ais[r].at # "idle"
    /\ dbFaults < MaxDbFaults
    /\ dbFaults' = dbFaults + 1
    /\ ais' = [ais EXCEPT ![r] = Idle]
    /\ UNCHANGED <<aisClock, scraper, log, edit, admin>>

(* reconcile_stale_scraper_logs, at every listing of the logs. *)
Reconcile(r) ==
    /\ log[r] # Closed
    /\ aisClock - log[r] >= Stale
    /\ log' = [log EXCEPT ![r] = Closed]
    /\ UNCHANGED <<aisClock, scraper, ais, edit, dbFaults, admin>>

-----------------------------------------------------------------------------
(* The scraper dashboard.                                                  *)

AdminWrite == admin < MaxAdmin /\ admin' = admin + 1

(* set_scraper_config, one upsert. *)
ToggleScraper(enabled) ==
    /\ AdminWrite
    /\ scraper' = [RowOrNew EXCEPT !.enabled = enabled]
    /\ UNCHANGED <<aisClock, ais, log, edit, dbFaults>>

(* reset_scraper_cooldown, an UPDATE. *)
ResetCooldown ==
    /\ AdminWrite
    /\ scraper # NoRow
    /\ scraper' = [scraper EXCEPT !.until = 0, !.failures = 0]
    /\ UNCHANGED <<aisClock, ais, log, edit, dbFaults>>

(* update_scraper: a SELECT of the fields that are not to change... *)
EditRead ==
    /\ edit = NoEdit
    /\ edit' = scraper
    /\ UNCHANGED <<aisClock, scraper, ais, log, dbFaults, admin>>

(* ...and an upsert of all of them: `enabled` as it was read. *)
EditWrite ==
    /\ edit # NoEdit
    /\ scraper' = [RowOrNew EXCEPT
                      !.enabled = IF edit = NoRow THEN TRUE ELSE edit.enabled]
    /\ edit' = NoEdit
    /\ UNCHANGED <<aisClock, ais, log, dbFaults, admin>>

AisTick ==
    /\ aisClock < MaxAisClock
    /\ aisClock' = aisClock + 1
    /\ UNCHANGED <<scraper, ais, log, edit, dbFaults, admin>>

RunStep(r) ==
    \/ \E manual \in BOOLEAN : BeginIngest(r, manual)
    \/ ReadDetail(r)
    \/ SkipPlugin(r)
    \/ Trigger(r)
    \/ FetchSucceeds(r)
    \/ \E blocked \in BOOLEAN : FetchFails(r, blocked)
    \/ RecordSuccess(r) \/ RecordSuccessFault(r)
    \/ RecordFailure(r) \/ RecordFailureFault(r)
    \/ FinishLog(r) \/ LoseRun(r)
    \/ Reconcile(r)

AisNext ==
    \/ AisTick
    \/ \E r \in Run : RunStep(r)
    \/ \E enabled \in BOOLEAN : ToggleScraper(enabled)
    \/ ResetCooldown
    \/ EditRead
    \/ EditWrite

AisSpec == AisInit /\ [][AisNext]_aisVars

-----------------------------------------------------------------------------
(* A cooldown that still runs is cut short, by a success or by another     *)
(* kind of failure, only by a manual run or by a run that had read the row *)
(* before that cooldown was written; an automatic run that could know of   *)
(* it never touches the plugin (ingest_ais.py:147-171, 205-222).           *)
CooldownRespected ==
    [][\A r \in Run :
         (/\ ais[r].at \in {"saved", "failed"} /\ ais'[r].at = "logging"
          /\ scraper # NoRow /\ scraper.until > aisClock
          /\ scraper'.until < scraper.until) =>
             \/ ais[r].manual
             \/ ais[r].seen = NoRow
             \/ ais[r].seen.until # scraper.until]_aisVars

(* A disabled scraper comes back to life only when a request says so, or   *)
(* when an edit of its other fields read it before it was disabled; runs   *)
(* that end meanwhile do not revive it (sqlite_ais.py:692-771).            *)
DisabledStaysDisabled ==
    [][(scraper # NoRow /\ ~scraper.enabled /\ scraper'.enabled) =>
         \/ admin' # admin
         \/ edit = NoRow
         \/ edit # NoEdit /\ edit.enabled]_aisVars
=============================================================================
