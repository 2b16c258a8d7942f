---------------------------- MODULE MCIntelligence ----------------------------
(***************************************************************************)
(* Instances for TLC of what is made of a scan and of the jobs (tiles, the *)
(* analysis of scans, the matching of detections with vessels, geofences,  *)
(* alerts, relationship graphs) and of the end of a process.  Each works   *)
(* on state of its own, so one run explores them side by side: `part` is   *)
(* chosen at the start and only that component moves.                      *)
(***************************************************************************)
EXTENDS ScanAnalysis, AisCorrelation, PassAlerts, ShutdownCoordinator, TileDownloads,
        Geofences, RelationshipGraph, TLC

VARIABLE part

vars == <<part, analysisVars, correlationVars, alertVars, shutdownVars, tileVars, fenceVars,
          graphVars>>

Scans == {[south |-> 0, north |-> 4, west |-> 0, east |-> 4],
          [south |-> 2, north |-> 4, west |-> 0, east |-> 2],
          [south |-> 0, north |-> 2, west |-> 2, east |-> 4]}

(* The kinds of zones of DEFAULT_GEOFENCE_ZONES, and an EEZ. *)
Regimes == {[kind |-> "MPA", restrictions |-> {"NO_DARK_VESSEL", "NO_FISHING"}],
            [kind |-> "EEZ", restrictions |-> {"NO_DARK_VESSEL"}],
            [kind |-> "TRAFFIC_SEPARATION_SCHEME",
             restrictions |-> {"NO_DARK_VESSEL", "NO_ANCHORING"}]}

(* Three vessels: one by its MMSI under a dangerous flag, one that sends   *)
(* that flag itself, one dark; newer and older places of the first two.    *)
Reports ==
    LET sent(mmsi, at, place, slow, signs, flag, operator, sanctioned, destination) ==
            [mmsi |-> mmsi, at |-> at, place |-> place, slow |-> slow, signs |-> signs,
             flag |-> flag, operator |-> operator, sanctioned |-> sanctioned,
             destination |-> destination, route |-> Absent, full |-> FALSE]
    IN  {sent("a", 1, 0, TRUE, "none", Absent, "o", TRUE, "port"),
         sent("a", 2, 700, FALSE, "anomalies", Absent, Absent, Absent, Absent),
         sent("b", 1, 250, TRUE, "none", "TG", "o", FALSE, "sea"),
         [sent("b", 2, 1400, FALSE, "suspicious", Absent, Absent, Absent, "port")
              EXCEPT !.full = TRUE],
         [sent("c", 1, 5500, TRUE, "dark", Absent, Absent, Absent, "port")
              EXCEPT !.route = "lane"],
         sent("c", 1, 500, TRUE, "none", Absent, Absent, Absent, "por")}

Seas == {"sea"}

Abbreviated == {"por"}

DarkTargets == {{}, {5600}}

Registered == [m \in {"a"} |-> [flag |-> "TG", threat |-> 850]]

(* The geofences while another part moves. *)
FenceRest ==
    /\ outline = <<[lat |-> 0, lon |-> 0], [lat |-> 0, lon |-> 2],
                   [lat |-> 2, lon |-> 2], [lat |-> 2, lon |-> 0]>>
    /\ regime = CHOOSE r \in Regime : TRUE
    /\ scan = CHOOSE s \in Scan : TRUE
    /\ target = CHOOSE t \in Targets(scan) : TRUE
    /\ near = {} /\ breaches = {} /\ stage = "filter"

Init ==
    /\ part \in {"analysis", "correlation", "alerts", "shutdown", "tiles", "fences", "graph"}
    /\ AnalysisInit
    /\ CorrelationInit
    /\ AlertInit
    /\ ShutdownInit
    /\ TileInit
    /\ GraphInit
    /\ part = "correlation" \/ inFrame = {}
    /\ part = "analysis" \/ \A a \in Analysis, r \in Renamer :
                                analysis[a].scan = rename[r].scan
    /\ part = "shutdown" \/ ~busy
    /\ IF part = "fences" THEN FenceInit ELSE FenceRest

Next ==
    /\ UNCHANGED part
    /\ \/ part = "analysis" /\ AnalysisNext
       \/ part # "analysis" /\ UNCHANGED analysisVars
    /\ \/ part = "correlation" /\ CorrelationNext
       \/ part # "correlation" /\ UNCHANGED correlationVars
    /\ \/ part = "alerts" /\ AlertNext
       \/ part # "alerts" /\ UNCHANGED alertVars
    /\ \/ part = "shutdown" /\ ShutdownNext
       \/ part # "shutdown" /\ UNCHANGED shutdownVars
    /\ \/ part = "tiles" /\ TileNext
       \/ part # "tiles" /\ UNCHANGED tileVars
    /\ \/ part = "fences" /\ FenceNext
       \/ part # "fences" /\ UNCHANGED fenceVars
    /\ \/ part = "graph" /\ GraphNext
       \/ part # "graph" /\ UNCHANGED graphVars

Spec == Init /\ [][Next]_vars

(* Every variable of the components stays in its range. *)
TypeOK ==
    /\ AnalysisTypeOK /\ CorrelationTypeOK /\ AlertTypeOK /\ ShutdownTypeOK
    /\ TileTypeOK /\ FenceTypeOK /\ GraphTypeOK

Symmetry == Permutations(Analysis) \cup Permutations(ScanId)
=============================================================================
