------------------------------- MODULE ScanStore -------------------------------
(***************************************************************************)
(* The scan folders of one area and acquisition date: their creation       *)
(* (use_cases/create_scan.py, persistence/filesystem_scans.py), their      *)
(* deletion and their archives (storage/local_storage.py), by concurrent   *)
(* requests and tasks of several processes.                                *)
(*                                                                         *)
(* Names are tried in order: 1 is base_folder, 2 is base_folder_1, ...     *)
(* What is in a folder or archive is named by the creation it came from.   *)
(***************************************************************************)
EXTENDS Integers, FiniteSets

CONSTANTS
    Creator,        \* creations of scans; each runs once
    Archiver,       \* archive requests and retention clean-ups
    MaxArchives,    \* bound: archivings started
    MaxDeletes,     \* bound: deletions and prunings
    MaxDiskFaults,  \* bound: creations that fail, die, or rmtree errors
    NoScan, NoFile

ASSUME ScanAssumption ==
    /\ MaxArchives \in Nat /\ MaxDeletes \in Nat /\ MaxDiskFaults \in Nat
    /\ IsFiniteSet(Creator) /\ NoScan \notin Creator

VARIABLES
    folder,    \* per name: whose images directory, picture and metadata
    tmp,       \* per name: <name>.tar.gz.tmp, or NoFile
    archive,   \* per name: <name>.tar.gz, or NoFile
    creator,   \* per creation: where it is and the name it tries
    archiver,  \* per archiving: where it is
    archives, deletes, diskFaults,
    doomed,    \* deletions that have found their scan: its name and the scan
    deleted,   \* scans a user deleted
    harmed     \* observes the scans that a race or a failed rmtree touched

scanVars == <<folder, tmp, archive, creator, archiver, archives, deletes,
              diskFaults, doomed, deleted, harmed>>

Name == 1..Cardinality(Creator)

Owner == Creator \cup {NoScan}

Folder == [images : Owner, picture : Owner, meta : Owner]

NoFolder == [images |-> NoScan, picture |-> NoScan, meta |-> NoScan]

(* by: the archiver that opened it last; torn: two have written it.        *)
File == [by : Archiver, scan : Owner, state : {"open", "whole", "torn"}]

ASSUME NoFileAssumption == NoFile \notin File

Creation == [at : {"looking", "chosen", "prepared", "stitched", "done", "failed"},
             name : 1..(Cardinality(Creator) + 1)]

Archiving == [at : {"idle", "open", "closed", "removing"}, name : Name,
              remove : BOOLEAN,
              vanished : BOOLEAN]   \* the folder went away under the tar

NoArchiving == [at |-> "idle", name |-> 1, remove |-> FALSE, vanished |-> FALSE]

ScanTypeOK ==
    /\ folder \in [Name -> Folder]
    /\ tmp \in [Name -> File \cup {NoFile}]
    /\ archive \in [Name -> File \cup {NoFile}]
    /\ creator \in [Creator -> Creation]
    /\ archiver \in [Archiver -> Archiving]
    /\ archives \in 0..MaxArchives
    /\ deletes \in 0..MaxDeletes
    /\ diskFaults \in 0..MaxDiskFaults
    /\ doomed \subseteq Name \X Creator
    /\ deleted \subseteq Creator
    /\ harmed \subseteq Creator

ScanInit ==
    /\ folder = [n \in Name |-> NoFolder]
    /\ tmp = [n \in Name |-> NoFile]
    /\ archive = [n \in Name |-> NoFile]
    /\ creator = [c \in Creator |-> [at |-> "looking", name |-> 1]]
    /\ archiver = [a \in Archiver |-> NoArchiving]
    /\ archives = 0
    /\ deletes = 0
    /\ diskFaults = 0
    /\ doomed = {}
    /\ deleted = {}
    /\ harmed = {}

-----------------------------------------------------------------------------
(* Creation.                                                               *)

(* get is not None: readable metadata and a picture. *)
Visible(n) == folder[n].meta # NoScan /\ folder[n].picture # NoScan

Exists(n) == folder[n] # NoFolder

(* Creations that have prepared the folder and are still at work in it. *)
Building(n) == {c \in Creator : /\ creator[c].at \in {"prepared", "stitched"}
                                /\ creator[c].name = n}

Inside(n) == {folder[n].images, folder[n].picture, folder[n].meta} \ {NoScan}

DiskFault == diskFaults < MaxDiskFaults /\ diskFaults' = diskFaults + 1

LookUp(c) ==
    LET n == creator[c].name
    IN /\ creator[c].at = "looking"
       /\ creator' = [creator EXCEPT ![c] =
             IF Visible(n) THEN [@ EXCEPT !.name = n + 1]
             ELSE [@ EXCEPT !.at = "chosen"]]
       /\ UNCHANGED <<folder, tmp, archive, archiver, archives, deletes, doomed,
                      diskFaults, deleted, harmed>>

(* Slip: the folder is deleted after any failure, not only one's own. *)
PrepareOrDelete(c) ==
    LET n == creator[c].name
        taken == folder[n].images # NoScan
    IN /\ creator[c].at = "chosen"
       /\ folder' = [folder EXCEPT ![n] =
             IF taken THEN NoFolder ELSE [@ EXCEPT !.images = c]]
       /\ creator' = [creator EXCEPT ![c].at = IF taken THEN "failed" ELSE "prepared"]
       /\ UNCHANGED <<tmp, archive, archiver, archives, deletes, doomed, diskFaults,
                      deleted, harmed>>

(* mkdir(exist_ok=False) of the images: with them there it raises and      *)
(* nothing is deleted; beside leftover metadata it goes on.                *)
Prepare(c) ==
    LET n == creator[c].name
        taken == folder[n].images # NoScan
    IN /\ creator[c].at = "chosen"
       /\ folder' = IF taken THEN folder ELSE [folder EXCEPT ![n].images = c]
       /\ creator' = [creator EXCEPT ![c].at = IF taken THEN "failed" ELSE "prepared"]
       /\ UNCHANGED <<tmp, archive, archiver, archives, deletes, doomed, diskFaults,
                      deleted, harmed>>

(* A creation whose folder was taken away harms whoever has it by now. *)
HarmBy(c, n) == harmed' = harmed \cup IF c \in harmed THEN Inside(n) ELSE {}

(* Download and stitch; a download makes the directory when it is gone. *)
Stitch(c) ==
    LET n == creator[c].name
    IN /\ creator[c].at = "prepared"
       /\ folder' = [folder EXCEPT ![n].images = IF @ = NoScan THEN c ELSE @,
                                   ![n].picture = c]
       /\ creator' = [creator EXCEPT ![c].at = "stitched"]
       /\ HarmBy(c, n)
       /\ UNCHANGED <<tmp, archive, archiver, archives, deletes, doomed, diskFaults, deleted>>

(* The metadata replaces any that is there; without a folder it raises. *)
SaveScan(c) ==
    LET n == creator[c].name
    IN /\ creator[c].at = "stitched"
       /\ folder' = IF Exists(n) THEN [folder EXCEPT ![n].meta = c] ELSE folder
       /\ creator' = [creator EXCEPT ![c].at = IF Exists(n) THEN "done" ELSE "failed"]
       /\ HarmBy(c, n)
       /\ UNCHANGED <<tmp, archive, archiver, archives, deletes, doomed, diskFaults, deleted>>

(* rmtree of a folder: creations at work in it lose what they wrote, and   *)
(* the tars of it break.                                                   *)
Vanish(n) == [a \in Archiver |->
    IF archiver[a].at = "open" /\ archiver[a].name = n
    THEN [archiver[a] EXCEPT !.vanished = TRUE] ELSE archiver[a]]

(* The provider fails: the prepared folder is deleted. *)
CreationFails(c) ==
    LET n == creator[c].name
    IN /\ creator[c].at \in {"prepared", "stitched"}
       /\ DiskFault
       /\ folder' = [folder EXCEPT ![n] = NoFolder]
       /\ creator' = [creator EXCEPT ![c].at = "failed"]
       /\ archiver' = Vanish(n)
       /\ HarmBy(c, n)
       /\ UNCHANGED <<tmp, archive, archives, deletes, doomed, deleted>>

(* The process dies: its folder stays without metadata. *)
CreationDies(c) ==
    /\ creator[c].at \in {"prepared", "stitched"}
    /\ DiskFault
    /\ creator' = [creator EXCEPT ![c].at = "failed"]
    /\ UNCHANGED <<folder, tmp, archive, archiver, archives, deletes, doomed, deleted,
                   harmed>>

(* DeleteScan: get finds the scan... *)
FindToDelete(n) ==
    /\ Visible(n)
    /\ deletes < MaxDeletes
    /\ deletes' = deletes + 1
    /\ doomed' = doomed \cup {<<n, folder[n].meta>>}
    /\ UNCHANGED <<folder, tmp, archive, creator, archiver, archives, diskFaults,
                   deleted, harmed>>

(* ...and rmtree removes whatever has its name by now... *)
DeleteScan(n, c) ==
    /\ <<n, c>> \in doomed
    /\ doomed' = doomed \ {<<n, c>>}
    /\ folder' = [folder EXCEPT ![n] = NoFolder]
    /\ archiver' = Vanish(n)
    /\ deleted' = deleted \cup {c}
    /\ harmed' = harmed \cup Building(n) \cup (Inside(n) \ {c})
    /\ UNCHANGED <<tmp, archive, creator, archives, deletes, diskFaults>>

(* ...or stops half-way. *)
DeleteFails(n, c) ==
    /\ <<n, c>> \in doomed
    /\ DiskFault
    /\ doomed' = doomed \ {<<n, c>>}
    /\ \E left \in {[NoFolder EXCEPT !.meta = folder[n].meta],
                    [folder[n] EXCEPT !.meta = NoScan]} :
          folder' = [folder EXCEPT ![n] = left]
    /\ archiver' = Vanish(n)
    /\ deleted' = deleted \cup {c}
    /\ harmed' = harmed \cup Building(n) \cup Inside(n)
    /\ UNCHANGED <<tmp, archive, creator, archives, deletes>>

-----------------------------------------------------------------------------
(* Archives.                                                               *)

Busy(n, a) == \E b \in Archiver \ {a} : /\ archiver[b].at # "idle"
                                        /\ archiver[b].name = n

(* The temporary name is the same for everybody: a second tar truncates    *)
(* the file the first is writing and both write on in it.                  *)
OpenTar(a, n, remove) ==
    LET shared == tmp[n] # NoFile /\ \E b \in Archiver :
                    archiver[b].at = "open" /\ archiver[b].name = n
    IN /\ archiver[a].at = "idle"
       /\ Exists(n)
       /\ archives < MaxArchives
       /\ archives' = archives + 1
       /\ tmp' = [tmp EXCEPT ![n] = [by |-> a, scan |-> NoScan,
                     state |-> IF shared THEN "torn" ELSE "open"]]
       /\ archiver' = [archiver EXCEPT ![a] =
             [at |-> "open", name |-> n, remove |-> remove, vanished |-> FALSE]]
       /\ harmed' = harmed \cup IF Busy(n, a) THEN Inside(n) ELSE {}
       /\ UNCHANGED <<folder, archive, creator, deletes, doomed, diskFaults, deleted>>

(* What a tar of the folder holds: a scan, or parts. *)
Contents(n) ==
    IF folder[n].picture = folder[n].meta THEN folder[n].meta ELSE NoScan

Written(file, a, n) ==
    IF file # NoFile /\ file.by = a /\ file.state = "open"
    THEN [file EXCEPT !.state = "whole", !.scan = Contents(n)] ELSE file

(* The tar is complete, wherever its file has been moved. *)
CloseTar(a) ==
    LET n == archiver[a].name
    IN /\ archiver[a].at = "open"
       /\ ~archiver[a].vanished
       /\ tmp' = [tmp EXCEPT ![n] = IF @ = NoFile THEN @ ELSE Written(@, a, n)]
       /\ archive' = [archive EXCEPT ![n] = IF @ = NoFile THEN @ ELSE Written(@, a, n)]
       /\ archiver' = [archiver EXCEPT ![a].at = "closed"]
       /\ UNCHANGED <<folder, creator, archives, deletes, doomed, diskFaults, deleted,
                      harmed>>

(* A file vanished under the tar: whatever has the temporary name goes. *)
TarFails(a) ==
    /\ archiver[a].at = "open"
    /\ archiver[a].vanished
    /\ tmp' = [tmp EXCEPT ![archiver[a].name] = NoFile]
    /\ archiver' = [archiver EXCEPT ![a] = NoArchiving]
    /\ UNCHANGED <<folder, archive, creator, archives, deletes, doomed, diskFaults,
                   deleted, harmed>>

(* replace overwrites the archive of an earlier scan of that name, and     *)
(* raises when the file was moved or unlinked by another.                  *)
ReplaceArchive(a) ==
    LET n == archiver[a].name
        old == IF archive[n] = NoFile THEN NoScan ELSE archive[n].scan
    IN /\ archiver[a].at = "closed"
       /\ IF tmp[n] = NoFile
          THEN /\ archiver' = [archiver EXCEPT ![a] = NoArchiving]
               /\ UNCHANGED <<tmp, archive, harmed>>
          ELSE /\ archive' = [archive EXCEPT ![n] = tmp[n]]
               /\ tmp' = [tmp EXCEPT ![n] = NoFile]
               /\ archiver' = [archiver EXCEPT ![a] =
                     IF @.remove THEN [@ EXCEPT !.at = "removing"] ELSE NoArchiving]
               /\ harmed' = IF old \in Creator /\ old # tmp[n].scan
                            THEN harmed \cup {old} ELSE harmed
       /\ UNCHANGED <<folder, creator, archives, deletes, doomed, diskFaults, deleted>>

(* rmtree; what came into the folder since the tar is not in the archive. *)
RemoveArchived(a) ==
    LET n == archiver[a].name
    IN /\ archiver[a].at = "removing"
       /\ folder' = [folder EXCEPT ![n] = NoFolder]
       /\ archiver' = [Vanish(n) EXCEPT ![a] = NoArchiving]
       /\ harmed' = harmed \cup Building(n)
             \cup IF archive[n].scan \in Inside(n) THEN {} ELSE Inside(n)
       /\ UNCHANGED <<tmp, archive, creator, archives, deletes, doomed, diskFaults, deleted>>

(* rmtree stops half-way; the error is only logged. *)
RemoveFails(a) ==
    LET n == archiver[a].name
    IN /\ archiver[a].at = "removing"
       /\ DiskFault
       /\ \E left \in {[NoFolder EXCEPT !.meta = folder[n].meta],
                       [folder[n] EXCEPT !.meta = NoScan]} :
             folder' = [folder EXCEPT ![n] = left]
       /\ archiver' = [Vanish(n) EXCEPT ![a] = NoArchiving]
       /\ harmed' = harmed \cup Building(n) \cup Inside(n)
       /\ UNCHANGED <<tmp, archive, creator, archives, deletes, doomed, deleted>>

(* EnforceAoiRetentionPolicy asks every scan for attributes that a Scan    *)
(* does not have, and so finds none that belongs to the area.              *)
ScanFields == {"folder_name", "bbox", "acquisition", "image_path", "metadata",
               "correlation_id"}

EnforceRetention ==
    LET pruned == IF "aoi_name" \in ScanFields THEN {n \in Name : Visible(n)} ELSE {}
    IN /\ deletes < MaxDeletes
       /\ deletes' = deletes + 1
       /\ folder' = [n \in Name |-> IF n \in pruned THEN NoFolder ELSE folder[n]]
       /\ UNCHANGED <<tmp, archive, creator, archiver, archives, diskFaults, doomed,
                      deleted, harmed>>

ScanNext ==
    \/ \E c \in Creator :
         \/ LookUp(c) \/ Prepare(c) \/ Stitch(c) \/ SaveScan(c)
         \/ CreationFails(c) \/ CreationDies(c)
    \/ \E n \in Name :
         \/ FindToDelete(n)
         \/ \E c \in Creator : DeleteScan(n, c) \/ DeleteFails(n, c)
    \/ \E a \in Archiver :
         \/ \E n \in Name, remove \in BOOLEAN : OpenTar(a, n, remove)
         \/ CloseTar(a) \/ TarFails(a) \/ ReplaceArchive(a)
         \/ RemoveArchived(a) \/ RemoveFails(a)
    \/ EnforceRetention

ScanSpec == ScanInit /\ [][ScanNext]_scanVars

-----------------------------------------------------------------------------
(* A scan that was created and that nobody deleted is in its folder or     *)
(* whole in the archive of its name, and a folder that is visible shows    *)
(* the picture and the metadata of one scan, although creations that race  *)
(* choose the same name.  The known ways to lose a scan are set apart: two *)
(* archivings of one folder at once, an archive overwritten under a reused *)
(* name, a folder removed under its creation or after another scan took    *)
(* its name, an rmtree that fails (create_scan.py:76-183,                  *)
(* local_storage.py:126-152, manage_scans.py:53-57).                       *)
ScanKept ==
    /\ \A c \in Creator :
         creator[c].at = "done" /\ c \notin deleted \cup harmed =>
             LET n == creator[c].name
             IN \/ folder[n].picture = c /\ folder[n].meta = c
                \/ archive[n] # NoFile /\ archive[n].scan = c /\ archive[n].state = "whole"
    /\ \A n \in Name :
         Visible(n) /\ Inside(n) \cap harmed = {} =>
             folder[n].picture = folder[n].meta

(* The storage forecast promises that enforcing retention policies saves   *)
(* space (forecast_acquisition_storage.py:224): enforcing the policy of an *)
(* area whose scans have all expired leaves none of them.                  *)
RetentionPrunes == [][EnforceRetention => \A n \in Name : ~Visible(n)']_scanVars
=============================================================================
