-------------------------------- MODULE Startup --------------------------------
(***************************************************************************)
(* The start of worker processes over one database: the migration runner   *)
(* (persistence/migrations/runner.py) and the settings table with its      *)
(* defaults (persistence/sqlite_settings.py), and the requests that edit   *)
(* settings afterwards.                                                    *)
(*                                                                         *)
(* Gunicorn starts several workers at once and each runs the migrations.   *)
(* executescript commits what is open and then every statement of a script *)
(* by itself; a version row is open until the next script or the end.      *)
(***************************************************************************)
EXTENDS Integers, FiniteSets

CONSTANTS
    Worker,      \* processes
    NScripts,    \* migration scripts, in order
    Key,         \* settings
    Value,       \* values a user may set
    Default,     \* the default of every setting
    Absent,      \* there is no row
    MaxStarts,   \* bound: starts of processes
    MaxSettings  \* bound: updates and resets of settings

ASSUME StartupAssumption ==
    /\ NScripts \in Nat /\ MaxStarts \in Nat /\ MaxSettings \in Nat
    /\ Default \notin Value /\ Absent \notin Value \cup {Default}

VARIABLES
    schema,    \* statements that took effect: <<script, 1 or 2>>
    versions,  \* committed rows of _schema_migrations
    setting,   \* rows of system_settings
    worker,    \* per process: where its start is and what it has read
    chosen,    \* observes what the users asked for
    starts, changes,
    troubled   \* observes: a seeding failed or a process died in a reset

startupVars == <<schema, versions, setting, worker, chosen, starts, changes,
                 troubled>>

Script == 1..NScripts

(* The first statement creates what is not there, the second is an ALTER   *)
(* TABLE, which fails when its column exists.                              *)
Statement == Script \X {1, 2}

(* down; migrating: script `script` is due; creating, altering, versioned: *)
(* within it; seeding: the defaults are due; seeded: the settings are      *)
(* read; up; resetting: the rows are deleted; reseeding: they are read.    *)
Process == [at : {"down", "migrating", "altering", "stamping", "seeding",
                  "seeded", "up", "resetting", "reseeding"},
            known : SUBSET Script,     \* already_applied
            script : 1..(NScripts + 1),
            stamped : SUBSET Script,   \* version rows not yet committed
            keys : SUBSET Key]         \* settings that were missing

Down == [at |-> "down", known |-> {}, script |-> 1, stamped |-> {}, keys |-> {}]

StartupTypeOK ==
    /\ schema \subseteq Statement
    /\ versions \subseteq Script
    /\ setting \in [Key -> Value \cup {Default, Absent}]
    /\ worker \in [Worker -> Process]
    /\ chosen \in [Key -> Value \cup {Default}]
    /\ starts \in 0..MaxStarts
    /\ changes \in 0..MaxSettings
    /\ troubled \in BOOLEAN

(* An empty database. *)
StartupInit ==
    /\ schema = {}
    /\ versions = {}
    /\ setting = [k \in Key |-> Absent]
    /\ worker = [w \in Worker |-> Down]
    /\ chosen = [k \in Key |-> Default]
    /\ starts = 0
    /\ changes = 0
    /\ troubled = FALSE

-----------------------------------------------------------------------------
(* Migrations.                                                             *)

StartWorker(w) ==
    /\ worker[w].at = "down"
    /\ starts < MaxStarts
    /\ starts' = starts + 1
    /\ worker' = [worker EXCEPT ![w] = [Down EXCEPT !.at = "migrating",
                                                    !.known = versions]]
    /\ UNCHANGED <<schema, versions, setting, chosen, changes, troubled>>

SkipScript(w) ==
    LET p == worker[w]
    IN /\ p.at = "migrating" /\ p.script \in p.known
       /\ worker' = [worker EXCEPT ![w].script = @ + 1]
       /\ UNCHANGED <<schema, versions, setting, chosen, starts, changes, troubled>>

(* An uncommitted version row holds the write lock; every writer waits.    *)
NobodyStamps(w) == \A v \in Worker \ {w} : worker[v].stamped = {}

(* Slip: a script's version is recorded before it runs. *)
RunCreateStamped(w) ==
    LET p == worker[w]
    IN /\ p.at = "migrating" /\ p.script \in Script \ p.known
       /\ NobodyStamps(w)
       /\ versions' = versions \cup {p.script}
       /\ schema' = schema \cup {<<p.script, 1>>}
       /\ worker' = [worker EXCEPT ![w].at = "altering", ![w].stamped = {}]
       /\ UNCHANGED <<setting, chosen, starts, changes, troubled>>

(* executescript commits the version before, then creates. *)
RunCreate(w) ==
    LET p == worker[w]
    IN /\ p.at = "migrating" /\ p.script \in Script \ p.known
       /\ NobodyStamps(w)
       /\ versions' = versions \cup p.stamped
       /\ schema' = schema \cup {<<p.script, 1>>}
       /\ worker' = [worker EXCEPT ![w].at = "altering", ![w].stamped = {}]
       /\ UNCHANGED <<setting, chosen, starts, changes, troubled>>

(* A column that exists already raises: the start fails. *)
RunAlter(w) ==
    LET p == worker[w]
        done == <<p.script, 2>> \in schema
    IN /\ p.at = "altering"
       /\ NobodyStamps(w)
       /\ schema' = schema \cup {<<p.script, 2>>}
       /\ worker' = [worker EXCEPT ![w] =
             IF done THEN Down ELSE [p EXCEPT !.at = "stamping"]]
       /\ UNCHANGED <<versions, setting, chosen, starts, changes, troubled>>

(* INSERT of the version, which opens a transaction; it fails when the     *)
(* version is there.                                                       *)
Stamp(w) ==
    LET p == worker[w]
    IN /\ p.at = "stamping"
       /\ NobodyStamps(w)
       /\ worker' = [worker EXCEPT ![w] =
             IF p.script \in versions THEN Down
             ELSE [p EXCEPT !.at = "migrating", !.script = p.script + 1,
                            !.stamped = {p.script}]]
       /\ UNCHANGED <<schema, versions, setting, chosen, starts, changes, troubled>>

EndMigrations(w) ==
    LET p == worker[w]
    IN /\ p.at = "migrating" /\ p.script > NScripts
       /\ versions' = versions \cup p.stamped
       /\ worker' = [worker EXCEPT ![w].at = "seeding", ![w].stamped = {}]
       /\ UNCHANGED <<schema, setting, chosen, starts, changes, troubled>>

-----------------------------------------------------------------------------
(* Settings.                                                               *)

(* _seed_defaults reads the keys before its transaction begins. *)
SeedRead(w) ==
    /\ worker[w].at \in {"seeding", "resetting"}
    /\ worker' = [worker EXCEPT
          ![w].at = IF @ = "seeding" THEN "seeded" ELSE "reseeding",
          ![w].keys = {k \in Key : setting[k] = Absent}]
    /\ UNCHANGED <<schema, versions, setting, chosen, starts, changes, troubled>>

(* Slip: INSERT OR REPLACE. *)
SeedWriteReplaces(w) ==
    /\ worker[w].at \in {"seeded", "reseeding"}
    /\ NobodyStamps(w)
    /\ setting' = [k \in Key |-> IF k \in worker[w].keys THEN Default
                                 ELSE setting[k]]
    /\ worker' = [worker EXCEPT ![w] = [Down EXCEPT !.at = "up"]]
    /\ UNCHANGED <<schema, versions, chosen, starts, changes, troubled>>

(* One transaction of plain INSERTs: a key that is there by now raises and *)
(* nothing is inserted.  At a start the process fails, in a request it     *)
(* answers with an error.                                                  *)
SeedWrite(w) ==
    LET p == worker[w]
        clash == \E k \in p.keys : setting[k] # Absent
    IN /\ p.at \in {"seeded", "reseeding"}
       /\ NobodyStamps(w)
       /\ setting' = IF clash THEN setting
                     ELSE [k \in Key |-> IF k \in p.keys THEN Default
                                         ELSE setting[k]]
       /\ worker' = [worker EXCEPT ![w] =
             IF clash /\ p.at = "seeded" THEN Down ELSE [Down EXCEPT !.at = "up"]]
       /\ troubled' = (troubled \/ (clash /\ p.at = "reseeding"))
       /\ UNCHANGED <<schema, versions, chosen, starts, changes>>

Change == changes < MaxSettings /\ changes' = changes + 1

(* update_bulk, one transaction of upserts. *)
UpdateSetting(w, k, v) ==
    /\ worker[w].at = "up"
    /\ NobodyStamps(w)
    /\ Change
    /\ setting' = [setting EXCEPT ![k] = v]
    /\ chosen' = [chosen EXCEPT ![k] = v]
    /\ UNCHANGED <<schema, versions, worker, starts, troubled>>

(* reset_section deletes in one transaction and seeds in another. *)
ResetSettings(w) ==
    /\ worker[w].at = "up"
    /\ NobodyStamps(w)
    /\ Change
    /\ setting' = [k \in Key |-> Absent]
    /\ chosen' = [k \in Key |-> Default]
    /\ worker' = [worker EXCEPT ![w].at = "resetting"]
    /\ UNCHANGED <<schema, versions, starts, troubled>>

(* A process dies anywhere; what is not committed is lost. *)
WorkerDies(w) ==
    /\ worker[w].at # "down"
    /\ worker' = [worker EXCEPT ![w] = Down]
    /\ troubled' = (troubled \/ worker[w].at \in {"resetting", "reseeding"})
    /\ UNCHANGED <<schema, versions, setting, chosen, starts, changes>>

StartupNext ==
    \E w \in Worker :
        \/ StartWorker(w) \/ SkipScript(w) \/ RunCreate(w) \/ RunAlter(w)
        \/ Stamp(w) \/ EndMigrations(w)
        \/ SeedRead(w) \/ SeedWrite(w)
        \/ \E k \in Key, v \in Value : UpdateSetting(w, k, v)
        \/ ResetSettings(w)
        \/ WorkerDies(w)

StartupSpec == StartupInit /\ [][StartupNext]_startupVars

-----------------------------------------------------------------------------
Serving(w) == worker[w].at \in {"seeding", "seeded", "up", "resetting", "reseeding"}

(* Whatever starts race and whatever dies half-way, a process that gets    *)
(* past its migrations, its own or those it finds recorded, has the whole  *)
(* schema under it (runner.py:19-60).                                      *)
ServesWholeSchema ==
    (\E w \in Worker : Serving(w)) => schema = Statement

(* A stored setting is what a user asked for last, and none is missing     *)
(* once a process is up, unless a reset failed or is under way: seeding    *)
(* never overwrites a value set while it ran (sqlite_settings.py:523-554,  *)
(* 631-659).                                                               *)
SettingsKept ==
    \A k \in Key :
        /\ setting[k] \in {chosen[k], Absent}
        /\ setting[k] = Absent =>
              \/ chosen[k] = Default /\ troubled
              \/ \A w \in Worker : worker[w].at # "up"
              \/ \E w \in Worker : worker[w].at \in {"resetting", "reseeding"}

(* runner.py:20 says that migrations are applied "within a transaction":   *)
(* when no process migrates, no script is applied in part.                 *)
MigrationsAtomic ==
    (\A w \in Worker : worker[w].at \notin {"migrating", "altering", "stamping"}) =>
        \A s \in Script :
            s \in versions \/ \A part \in {1, 2} : <<s, part>> \notin schema
=============================================================================
