----------------------------- MODULE ScanAnalysis -----------------------------
(***************************************************************************)
(* The analysis of a stored scan: run_post_acquisition_pipeline, called by  *)
(* POST /scan and POST /api/run_cv on a thread of the web server, beside    *)
(* the renaming and the deletion of the same scan by other requests.       *)
(*                                                                         *)
(* Every step of the analysis works on the files of one scan folder, which *)
(* no lock protects, with a copy of the scan's metadata read at its start. *)
(* The threads of one process share one CorrelateDetectionsWithAIS, whose  *)
(* attribute last_ghost_vessels carries the ghost vessels from the         *)
(* correlation to the pipeline.                                            *)
(*                                                                         *)
(* Abstracted: detections, vessels and rasters (who wrote a file stands    *)
(* for what it says), the pages of the briefing, the files nobody reads    *)
(* back; the two names of the results file and the two of the overlay are  *)
(* one.  One write_text, replace or rmtree is one step; a write_text that  *)
(* fails leaves the file as it was or cut short.                           *)
(***************************************************************************)
EXTENDS Naturals, FiniteSets

CONSTANTS
    Analysis,         \* requests that analyse a scan
    Renamer,          \* requests that rename a scan
    ScanId,           \* folder names of the scans
    DarkRisk,         \* the highest dark_vessel_risk an image may show
    MaxRemovals,      \* bound on the deletions
    MaxFileFaults,    \* bound on the writes that fail
    NoMetadata, NoResults, NoGhosts, Nobody,
    Torn              \* a file cut short: json.loads raises

ASSUME AnalysisAssumption ==
    /\ DarkRisk \subseteq {"NOMINAL", "HIGH", "CRITICAL"}
    /\ MaxRemovals \in Nat
    /\ MaxFileFaults \in Nat
    /\ Nobody \notin Analysis \cup Renamer
    /\ NoGhosts \notin ScanId

VARIABLES
    dir,         \* the scan folder: its pictures, metadata.json, results
    last,        \* CorrelateDetectionsWithAIS.last_ghost_vessels
    analysis,    \* the local state of each analysis, dropped when last read
    rename,      \* the local state of each renaming
    faulted,     \* number of failed writes so far
    named,       \* history: the last name a client was told is set
    shared,      \* history: scans with two of these requests at once
    removed,     \* history: scans deleted
    redrawn,     \* history: scans whose DEM or route was drawn after removal
    unsaved,     \* history: scans with results that a failure lost or cut short
    crossed      \* history: analyses another one correlated in the middle of

analysisVars == <<dir, last, analysis, rename, faulted, named, shared,
                  removed, redrawn, unsaved, crossed>>

Steps == {"idle", "mask", "detect", "correlate", "ghosts", "alert", "save", "overlay",
          "results", "optical", "tag", "change", "compare", "map", "retag",
          "report", "draw", "persist", "patch", "done"}

(* The image of the scan, the DEM, and what an analysis makes of them: the  *)
(* overlay of the detections, the change map, the route picture.           *)
Pictures == {"sar", "dem", "drawing"}

(* Who wrote the latest_cv_results of the metadata, and the custom_name. *)
Metadata == [name : Renamer \cup {Nobody}, cv : Analysis \cup {Nobody}]

(* detection_results.json: whose counts, whose detections, whose ghosts. *)
Results == [counts : Analysis, detections : Analysis, ghosts : ScanId \cup {NoGhosts}]

ASSUME NothingAssumption ==
    /\ {NoMetadata, Torn} \cap Metadata = {} /\ {NoResults, Torn} \cap Results = {}
    /\ Torn \notin {NoMetadata, NoResults}

(* Slip: a folder is listed whether or not it has a picture. *)
ListedBare(s) == dir[s].metadata \in Metadata

(* A scan is listed when its metadata parses and its folder has a picture. *)
Listed(s) == dir[s].metadata \in Metadata /\ dir[s].pictures # {}

Gone == [exists |-> FALSE, pictures |-> {}, metadata |-> NoMetadata, results |-> NoResults]

(* The requests that are working on a scan. *)
Working(s) ==
    {a \in Analysis : analysis[a].pc \notin {"idle", "done"} /\ analysis[a].scan = s}
        \cup {r \in Renamer : rename[r].pc = "write" /\ rename[r].scan = s}

AnalysisInit ==
    /\ dir = [s \in ScanId |->
            [exists |-> TRUE, pictures |-> {"sar"}, results |-> NoResults,
             metadata |-> [name |-> Nobody, cv |-> Nobody]]]
    /\ last = NoGhosts
    /\ analysis \in [Analysis -> {[pc |-> "idle", scan |-> s, copy |-> NoMetadata,
             risk |-> "NOMINAL", alerted |-> FALSE, ghosts |-> NoGhosts,
             read |-> NoResults, persisted |-> FALSE] : s \in ScanId}]
    /\ rename \in [Renamer -> {[pc |-> "idle", scan |-> s, copy |-> NoMetadata] : s \in ScanId}]
    /\ faulted = 0
    /\ named = [s \in ScanId |-> Nobody]
    /\ shared = {} /\ removed = {} /\ redrawn = {} /\ unsaved = {} /\ crossed = {}

At(a, step) == analysis[a].pc = step

Goto(a, step) == analysis' = [analysis EXCEPT ![a].pc = step]

(* A request starts on a scan others may already be working on. *)
Join(s) == shared' = IF Working(s) = {} THEN shared ELSE shared \cup {s}

Fault == faulted < MaxFileFaults /\ faulted' = faulted + 1

-----------------------------------------------------------------------------
(* The request finds the scan and reads its metadata, which it keeps. *)
Begin(a) ==
    LET s == analysis[a].scan IN
    /\ At(a, "idle")
    /\ Listed(s)
    /\ analysis' = [analysis EXCEPT ![a].pc = "mask", ![a].copy = dir[s].metadata]
    /\ Join(s)
    /\ UNCHANGED <<dir, last, rename, faulted, named, removed, redrawn, unsaved, crossed>>

MakeFolder(s) == dir' = [dir EXCEPT ![s].exists = TRUE]

(* A picture is written to a folder, which mkdir makes again if it is gone. *)
Draw(s, picture) ==
    /\ dir' = [dir EXCEPT ![s].exists = TRUE, ![s].pictures = @ \cup {picture}]
    /\ redrawn' = IF s \in removed THEN redrawn \cup {s} ELSE redrawn

(* A picture computed from an image read earlier: the folder must be there. *)
Overlay(s) == dir' = IF dir[s].exists THEN [dir EXCEPT ![s].pictures = @ \cup {"drawing"}]
                                      ELSE dir

(* A write_text that fails may have cut the results short. *)
CutResults(s) == dir' = [dir EXCEPT ![s].results = Torn] /\ unsaved' = unsaved \cup {s}

MaskLand(a) ==
    LET s == analysis[a].scan IN
    /\ At(a, "mask")
    /\ Goto(a, "detect")
    /\ \/ UNCHANGED <<dir, redrawn>>
       \/ "dem" \notin dir[s].pictures /\ Draw(s, "dem")
       \/ "dem" \notin dir[s].pictures /\ MakeFolder(s) /\ UNCHANGED redrawn
    /\ UNCHANGED <<last, rename, faulted, named, shared, removed, unsaved, crossed>>

(* The detector finds ships, finds none, or fails, as when the image is gone. *)
Detect(a) ==
    /\ At(a, "detect")
    /\ \E found \in BOOLEAN :
        /\ found => "sar" \in dir[analysis[a].scan].pictures
        /\ Goto(a, IF found THEN "correlate" ELSE "alert")
    /\ UNCHANGED <<dir, last, rename, faulted, named, shared, removed, redrawn, unsaved, crossed>>

(* Slip: a correlation that raises has its ghosts read all the same. *)
CorrelateReadsAnyway(a) ==
    /\ At(a, "correlate")
    /\ \/ /\ last' \in {analysis[a].scan, NoGhosts}
          /\ crossed' = crossed \cup {b \in Analysis \ {a} : At(b, "ghosts")}
       \/ UNCHANGED <<last, crossed>>
    /\ Goto(a, "ghosts")
    /\ UNCHANGED <<dir, rename, faulted, named, shared, removed, redrawn, unsaved>>

(* The correlation leaves the ghosts of its scan in the shared attribute.   *)
(* When it raises, the pipeline goes on without correlation and ghosts.     *)
Correlate(a) ==
    /\ At(a, "correlate")
    /\ \/ /\ last' \in {analysis[a].scan, NoGhosts}
          /\ \E risk \in DarkRisk :
                analysis' = [analysis EXCEPT ![a].pc = "ghosts", ![a].risk = risk]
          /\ crossed' = crossed \cup {b \in Analysis \ {a} : At(b, "ghosts")}
       \/ Goto(a, "alert") /\ UNCHANGED <<last, crossed>>
    /\ UNCHANGED <<dir, rename, faulted, named, shared, removed, redrawn, unsaved>>

ReadGhosts(a) ==
    /\ At(a, "ghosts")
    /\ analysis' = [analysis EXCEPT ![a].pc = "alert", ![a].ghosts = last]
    /\ UNCHANGED <<dir, last, rename, faulted, named, shared, removed, redrawn, unsaved, crossed>>

(* The dark vessels the alert counts, those of risk HIGH (is_solas_suspect, *)
(* which it counts too, is set nowhere in the pipeline); `breach` stands    *)
(* for a critical rendezvous or geofence breach.                           *)
AlertDue(a, breach) == analysis[a].risk = "HIGH" \/ breach

Alert(a) ==
    /\ At(a, "alert")
    /\ \E breach \in BOOLEAN :
        analysis' = [analysis EXCEPT ![a].pc = "save", ![a].alerted = AlertDue(a, breach)]
    /\ UNCHANGED <<dir, last, rename, faulted, named, shared, removed, redrawn, unsaved, crossed>>

(* save_detection_results makes the folder if it must and reads the image. *)
OpenImage(a) ==
    LET s == analysis[a].scan IN
    /\ At(a, "save")
    /\ MakeFolder(s)
    /\ analysis' = [analysis EXCEPT ![a].risk = "NOMINAL", ![a].alerted = FALSE,
            ![a].pc = IF "sar" \in dir[s].pictures THEN "overlay" ELSE "results"]
    /\ UNCHANGED <<last, rename, faulted, named, shared, removed, redrawn, unsaved, crossed>>

(* imwrite says nothing when the folder has gone. *)
DrawOverlay(a) ==
    /\ At(a, "overlay")
    /\ Goto(a, "results")
    /\ Overlay(analysis[a].scan)
    /\ UNCHANGED <<last, rename, faulted, named, shared, removed, redrawn, unsaved, crossed>>

SaveDetections(a) ==
    LET s == analysis[a].scan IN
    /\ At(a, "results")
    /\ analysis' = [analysis EXCEPT ![a].pc = "optical", ![a].ghosts = NoGhosts]
    /\ \/ /\ dir[s].exists
          /\ dir' = [dir EXCEPT ![s].results =
                        [counts |-> a, detections |-> a, ghosts |-> analysis[a].ghosts]]
          /\ UNCHANGED <<faulted, unsaved>>
       \/ /\ \/ ~dir[s].exists /\ UNCHANGED faulted
             \/ Fault
          /\ UNCHANGED dir
          /\ unsaved' = unsaved \cup {s}
       \/ dir[s].exists /\ Fault /\ CutResults(s)
    /\ UNCHANGED <<last, rename, named, shared, removed, redrawn, crossed>>

(* Optical validation reads the results, asks the catalogue, and writes     *)
(* the results it read back with what it found.                            *)
ReadForOptical(a) ==
    LET s == analysis[a].scan IN
    /\ At(a, "optical")
    /\ \/ Goto(a, "change")
       \/ /\ Listed(s)
          /\ analysis' = [analysis EXCEPT ![a].pc = "tag",
                 ![a].read = IF dir[s].results = Torn THEN NoResults ELSE dir[s].results]
    /\ UNCHANGED <<dir, last, rename, faulted, named, shared, removed, redrawn, unsaved, crossed>>

TagOptical(a) ==
    LET s == analysis[a].scan IN
    /\ At(a, "tag")
    /\ analysis' = [analysis EXCEPT ![a].pc = "change", ![a].read = NoResults]
    /\ IF analysis[a].read # NoResults /\ dir[s].results # NoResults
          THEN \/ /\ dir' = [dir EXCEPT ![s].results = analysis[a].read]
                  /\ UNCHANGED <<faulted, unsaved>>
               \/ Fault /\ UNCHANGED <<dir, unsaved>>
               \/ Fault /\ CutResults(s)
          ELSE UNCHANGED <<dir, faulted, unsaved>>
    /\ UNCHANGED <<last, rename, named, shared, removed, redrawn, crossed>>

(* Change detection looks for an earlier scan of the place; it makes the    *)
(* folder if it must and reads both images.                                *)
FindReference(a) ==
    /\ At(a, "change")
    /\ \/ Goto(a, "report")
       \/ Listed(analysis[a].scan) /\ Goto(a, "compare")
    /\ UNCHANGED <<dir, last, rename, faulted, named, shared, removed, redrawn, unsaved, crossed>>

CompareImages(a) ==
    LET s == analysis[a].scan IN
    /\ At(a, "compare")
    /\ MakeFolder(s)
    /\ Goto(a, IF "sar" \in dir[s].pictures THEN "map" ELSE "report")
    /\ UNCHANGED <<last, rename, faulted, named, shared, removed, redrawn, unsaved, crossed>>

(* Saving the map raises when the folder has gone; no change, no tags. *)
DrawChangeMap(a) ==
    LET s == analysis[a].scan IN
    /\ At(a, "map")
    /\ Overlay(s)
    /\ \/ Goto(a, "report")
       \/ dir[s].exists /\ Goto(a, "retag")
    /\ UNCHANGED <<last, rename, faulted, named, shared, removed, redrawn, unsaved, crossed>>

(* The detections of the results file are replaced by those of the analysis. *)
TagChanges(a) ==
    LET s == analysis[a].scan IN
    /\ At(a, "retag")
    /\ Goto(a, "report")
    /\ IF dir[s].results \in Results
          THEN \/ /\ dir' = [dir EXCEPT ![s].results.detections = a]
                  /\ UNCHANGED <<faulted, unsaved>>
               \/ Fault /\ UNCHANGED <<dir, unsaved>>
               \/ Fault /\ CutResults(s)
          ELSE UNCHANGED <<dir, faulted, unsaved>>
    /\ UNCHANGED <<last, rename, named, shared, removed, redrawn, crossed>>

(* The briefing finds the scan; drawing it takes longest of all, and puts a *)
(* route picture in the folder, which the GeoTIFF makes again as well.     *)
StartReport(a) ==
    /\ At(a, "report")
    /\ Goto(a, IF Listed(analysis[a].scan) THEN "draw" ELSE "persist")
    /\ UNCHANGED <<dir, last, rename, faulted, named, shared, removed, redrawn, unsaved, crossed>>

DrawReport(a) ==
    /\ At(a, "draw")
    /\ Goto(a, "persist")
    /\ \/ Draw(analysis[a].scan, "drawing")
       \/ MakeFolder(analysis[a].scan) /\ UNCHANGED redrawn
       \/ UNCHANGED <<dir, redrawn>>
    /\ UNCHANGED <<last, rename, faulted, named, shared, removed, unsaved, crossed>>

(* FilesystemScanRepository.save: only into a folder that is there. *)
Save(s, metadata) ==
    /\ dir[s].exists
    /\ dir' = [dir EXCEPT ![s].metadata = metadata]

(* The metadata of the start are written back with the new results in them. *)
Persist(a) ==
    LET s == analysis[a].scan IN
    /\ At(a, "persist")
    /\ \/ /\ Save(s, [analysis[a].copy EXCEPT !.cv = a])
          /\ analysis' = [analysis EXCEPT ![a].pc = "patch", ![a].persisted = TRUE,
                                          ![a].copy = NoMetadata]
          /\ UNCHANGED faulted
       \/ /\ \/ ~dir[s].exists /\ UNCHANGED faulted
             \/ Fault
          /\ analysis' = [analysis EXCEPT ![a].pc = "patch", ![a].copy = NoMetadata]
          /\ UNCHANGED dir
    /\ UNCHANGED <<last, rename, named, shared, removed, redrawn, unsaved, crossed>>

(* Slip: without the second write a failed first one loses the results. *)
PatchNothing(a) ==
    /\ At(a, "patch")
    /\ Goto(a, "done")
    /\ UNCHANGED <<dir, last, rename, faulted, named, shared, removed, redrawn, unsaved, crossed>>

(* The results are put into metadata.json once more, this time into the     *)
(* file as it is, which a failing write_text may cut short.                *)
Patch(a) ==
    LET s == analysis[a].scan IN
    /\ At(a, "patch")
    /\ Goto(a, "done")
    /\ IF dir[s].metadata \in Metadata
          THEN \/ /\ dir' = [dir EXCEPT ![s].metadata.cv = a]
                  /\ UNCHANGED <<faulted, unsaved>>
               \/ /\ Fault
                  /\ unsaved' = IF analysis[a].persisted THEN unsaved ELSE unsaved \cup {s}
                  /\ UNCHANGED dir
               \/ /\ Fault
                  /\ unsaved' = unsaved \cup {s}
                  /\ dir' = [dir EXCEPT ![s].metadata = Torn]
          ELSE UNCHANGED <<dir, faulted, unsaved>>
    /\ UNCHANGED <<last, rename, named, shared, removed, redrawn, crossed>>

-----------------------------------------------------------------------------
(* update_custom_name reads the metadata and writes them back renamed. *)
ReadToRename(r) ==
    LET s == rename[r].scan IN
    /\ rename[r].pc = "idle"
    /\ Listed(s)
    /\ rename' = [rename EXCEPT ![r].pc = "write", ![r].copy = dir[s].metadata]
    /\ Join(s)
    /\ UNCHANGED <<dir, last, analysis, faulted, named, removed, redrawn, unsaved, crossed>>

WriteName(r) ==
    LET s == rename[r].scan IN
    /\ rename[r].pc = "write"
    /\ rename' = [rename EXCEPT ![r].pc = "done", ![r].copy = NoMetadata]
    /\ \/ /\ Save(s, [rename[r].copy EXCEPT !.name = r])
          /\ named' = [named EXCEPT ![s] = r]
       \/ ~dir[s].exists /\ UNCHANGED <<dir, named>>
    /\ UNCHANGED <<last, analysis, faulted, shared, removed, redrawn, unsaved, crossed>>

(* DeleteScan: the folder is removed whatever else works on it. *)
Remove(s) ==
    /\ Listed(s)
    /\ Cardinality(removed) < MaxRemovals
    /\ s \notin removed
    /\ dir' = [dir EXCEPT ![s] = Gone]
    /\ removed' = removed \cup {s}
    /\ UNCHANGED <<last, analysis, rename, faulted, named, shared, redrawn, unsaved, crossed>>

AnalysisNext ==
    \/ \E a \in Analysis :
        \/ Begin(a) \/ MaskLand(a) \/ Detect(a) \/ Correlate(a) \/ ReadGhosts(a)
        \/ Alert(a) \/ OpenImage(a) \/ DrawOverlay(a) \/ SaveDetections(a)
        \/ ReadForOptical(a) \/ TagOptical(a) \/ FindReference(a) \/ CompareImages(a)
        \/ DrawChangeMap(a) \/ TagChanges(a) \/ StartReport(a) \/ DrawReport(a)
        \/ Persist(a) \/ Patch(a)
    \/ \E r \in Renamer : ReadToRename(r) \/ WriteName(r)
    \/ \E s \in ScanId : Remove(s)

AnalysisSpec == AnalysisInit /\ [][AnalysisNext]_analysisVars

-----------------------------------------------------------------------------
(* The folders, the requests and the histories stay in their ranges. *)
AnalysisTypeOK ==
    /\ dir \in [ScanId -> [exists : BOOLEAN, pictures : SUBSET Pictures,
                              metadata : Metadata \cup {NoMetadata, Torn},
                              results : Results \cup {NoResults, Torn}]]
    /\ last \in ScanId \cup {NoGhosts}
    /\ analysis \in [Analysis -> [pc : Steps, scan : ScanId,
            copy : Metadata \cup {NoMetadata},
            risk : {"NOMINAL", "HIGH", "CRITICAL"}, alerted : BOOLEAN,
            ghosts : ScanId \cup {NoGhosts}, read : Results \cup {NoResults},
            persisted : BOOLEAN]]
    /\ rename \in [Renamer -> [pc : {"idle", "write", "done"}, scan : ScanId,
                               copy : Metadata \cup {NoMetadata}]]
    /\ faulted \in 0..MaxFileFaults
    /\ named \in [ScanId -> Renamer \cup {Nobody}]
    /\ shared \subseteq ScanId /\ removed \subseteq ScanId /\ redrawn \subseteq ScanId
    /\ unsaved \subseteq ScanId
    /\ crossed \subseteq Analysis

(* Once the requests on a scan are over, its catalogue entry bears the last *)
(* name a client gave it and the numbers of the results file, and that file *)
(* is the work of one analysis, even when one of the two writes of the      *)
(* metadata failed and left the file as it was.  Excused are scans two      *)
(* requests worked on at once (an analysis writes the metadata of its start *)
(* back whole, so a renaming during it is lost, and two analyses mix their  *)
(* files), and scans where a failure kept the results from the disk or cut  *)
(* metadata.json or the results short.                                     *)
CatalogCurrent ==
    \A s \in ScanId \ (shared \cup removed \cup unsaved) :
        Working(s) = {} =>
            LET f == dir[s] IN
            /\ f.metadata.name = named[s]
            /\ f.results = NoResults => f.metadata.cv = Nobody
            /\ f.results # NoResults =>
                 f.metadata.cv = f.results.counts /\ f.results.counts = f.results.detections

(* The ghost vessels of an analysis are those of its own scan, unless       *)
(* another analysis of the process correlated between its correlation and   *)
(* its reading of last_ghost_vessels.                                       *)
GhostsAreItsOwn ==
    \A a \in Analysis \ crossed : analysis[a].ghosts \in {analysis[a].scan, NoGhosts}

(* A deleted scan is listed again only when an analysis under way drew its  *)
(* DEM or route picture, whose folder it makes again, or when two requests  *)
(* were working on the scan at once.  Alone, an analysis cannot bring it    *)
(* back with the overlay or the change map: they need the image, which it   *)
(* reads after it has made the folder and before it draws, and the folder.  *)
DeletedStaysDeleted == \A s \in removed : Listed(s) => s \in redrawn \cup shared

(* An analysis that sees a dark vessel of critical risk dispatches an       *)
(* alert.  The alert counts risk HIGH only, so TLC refutes this.            *)
CriticalDarkAlerted ==
    \A a \in Analysis : At(a, "save") /\ analysis[a].risk = "CRITICAL" => analysis[a].alerted
=============================================================================
