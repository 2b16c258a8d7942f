------------------------------- MODULE Geofences -------------------------------
(***************************************************************************)
(* GeofenceMonitor.evaluate_detections: which zones a target of a scan     *)
(* violates.  Zones far from the scan are left out by their bounding       *)
(* boxes, then zones whose box does not hold the target, and the rest is   *)
(* decided by casting a ray along the target's latitude.                   *)
(*                                                                         *)
(* Positions are points of a grid, compared exactly: the quotient of the   *)
(* code is multiplied out.  The zones are a convex one and the two that a  *)
(* diagonal cuts it into, neighbours that share a border.                  *)
(***************************************************************************)
EXTENDS Integers, Sequences, FiniteSets

CONSTANTS
    Axis,          \* coordinates of the vertices of zones
    Scan,          \* bounding boxes of scans
    Regime         \* zone_type and restrictions a zone may have

Point == [lat : Axis, lon : Axis]

ASSUME GridAssumption ==
    /\ Axis \subseteq Int
    /\ \A s \in Scan : {s.south, s.north, s.west, s.east} \subseteq Int

VARIABLES
    outline,       \* the vertices of the zone that is cut
    regime,        \* type and restrictions of the zones
    scan,          \* the scan's bounding box
    target,        \* a detection in the scan
    near,          \* candidate_zones
    breaches,      \* pairs of a zone and a violation_type
    stage

fenceVars == <<outline, regime, scan, target, near, breaches, stage>>

Zone == {"whole", "first", "second"}

Violation == {"UNAUTHORIZED_DARK_ENTRY", "DARK_VESSEL_IN_TSS", "ILLEGAL_FISHING_IN_MPA",
              "TSS_LANE_OBSTRUCTION"}

(* Twice the area of a triangle, negative if its corners turn clockwise. *)
Turn(p, q, r) == (q.lon - p.lon) * (r.lat - p.lat) - (q.lat - p.lat) * (r.lon - p.lon)

Convex(v) ==
    /\ Turn(v[1], v[2], v[3]) > 0 /\ Turn(v[2], v[3], v[4]) > 0
    /\ Turn(v[3], v[4], v[1]) > 0 /\ Turn(v[4], v[1], v[2]) > 0

Polygon(zone) ==
    CASE zone = "whole" -> outline
      [] zone = "first" -> <<outline[1], outline[2], outline[3]>>
      [] zone = "second" -> <<outline[1], outline[3], outline[4]>>

(* A target lies in its scan. *)
Targets(s) == [lat : s.south..s.north, lon : s.west..s.east,
               dark : BOOLEAN, fishing : BOOLEAN, slow : BOOLEAN]

FenceTypeOK ==
    /\ outline \in [1..4 -> Point] /\ Convex(outline)
    /\ regime \in Regime
    /\ scan \in Scan /\ target \in Targets(scan)
    /\ near \subseteq Zone
    /\ breaches \subseteq Zone \X Violation
    /\ stage \in {"filter", "evaluate", "done"}

FenceInit ==
    /\ outline \in {v \in [1..4 -> Point] : Convex(v)}
    /\ regime \in Regime
    /\ scan \in Scan /\ target \in Targets(scan)
    /\ near = {} /\ breaches = {} /\ stage = "filter"

-----------------------------------------------------------------------------
(* polygon_bounding_box *)
Least(S) == CHOOSE x \in S : \A y \in S : x <= y
Greatest(S) == CHOOSE x \in S : \A y \in S : x >= y

BoundingBox(v) ==
    LET lats == {v[i].lat : i \in DOMAIN v}
        lons == {v[i].lon : i \in DOMAIN v}
    IN  [south |-> Least(lats), north |-> Greatest(lats),
         west |-> Least(lons), east |-> Greatest(lons)]

(* Slip: boxes that only touch are apart. *)
MeetInside(a, b) ==
    a.south < b.north /\ a.north > b.south /\ a.west < b.east /\ a.east > b.west

Meet(a, b) ==
    a.south <= b.north /\ a.north >= b.south /\ a.west <= b.east /\ a.east >= b.west

(* The ray from p crosses the edge from a to b: one end of the edge, and    *)
(* only one, lies above p, and p lies west of the edge.                     *)
Crosses(p, a, b) ==
    /\ (b.lat > p.lat) # (a.lat > p.lat)
    /\ IF a.lat > b.lat
       THEN (p.lon - b.lon) * (a.lat - b.lat) < (p.lat - b.lat) * (a.lon - b.lon)
       ELSE (p.lon - b.lon) * (a.lat - b.lat) > (p.lat - b.lat) * (a.lon - b.lon)

PointInPolygon(p, v) ==
    LET before(i) == IF i = 1 THEN Len(v) ELSE i - 1
    IN  Cardinality({i \in 1..Len(v) : Crosses(p, v[before(i)], v[i])}) % 2 = 1

(* The rules of the zones; MANDATORY_AIS means NO_DARK_VESSEL too. *)
Violations(t) ==
    {v \in Violation :
        \/ /\ t.dark /\ "NO_DARK_VESSEL" \in regime.restrictions
           /\ v = IF regime.kind \in {"MPA", "EEZ"} THEN "UNAUTHORIZED_DARK_ENTRY"
                  ELSE "DARK_VESSEL_IN_TSS"
        \/ /\ t.fishing /\ (regime.kind = "MPA" \/ "NO_FISHING" \in regime.restrictions)
           /\ v = "ILLEGAL_FISHING_IN_MPA"
        \/ /\ t.slow /\ regime.kind = "TRAFFIC_SEPARATION_SCHEME"
           /\ "NO_ANCHORING" \in regime.restrictions
           /\ v = "TSS_LANE_OBSTRUCTION"}

ZonesForBox ==
    /\ stage = "filter"
    /\ near' = {z \in Zone : Meet(BoundingBox(Polygon(z)), scan)}
    /\ stage' = "evaluate"
    /\ UNCHANGED <<outline, regime, scan, target, breaches>>

Holds(box, p) ==
    p.lat \in box.south..box.north /\ p.lon \in box.west..box.east

EvaluateTarget ==
    /\ stage = "evaluate"
    /\ breaches' = {b \in near \X Violations(target) :
                       /\ Holds(BoundingBox(Polygon(b[1])), target)
                       /\ PointInPolygon(target, Polygon(b[1]))}
    /\ stage' = "done"
    /\ UNCHANGED <<outline, regime, scan, target, near>>

FenceNext == ZonesForBox \/ EvaluateTarget

FenceSpec == FenceInit /\ [][FenceNext]_fenceVars

-----------------------------------------------------------------------------
(* Where a target is by the sides of the convex zone. *)
Sides(p) == {Turn(outline[i], outline[(i % 4) + 1], p) : i \in 1..4}

(* A target of the zone, on the border of its two parts too, is in exactly  *)
(* one of them: no filter drops it, and two neighbours do not both report   *)
(* it (application/use_cases/geofence_monitor.py:14, 155, 217).             *)
PartsAgree ==
    stage = "done" => \A v \in Violations(target) :
        <<"whole", v>> \in breaches
            <=> ~(<<"first", v>> \in breaches <=> <<"second", v>> \in breaches)

(* What a target does is a breach if it is inside the zone and none if it   *)
(* is outside, and of the zone's parts one and only one reports it          *)
(* (application/use_cases/geofence_monitor.py:14).                          *)
ZonesTile ==
    /\ PartsAgree
    /\ stage = "done" => \A v \in Violations(target) :
        /\ (\A t \in Sides(target) : t > 0) => <<"whole", v>> \in breaches
        /\ (\E t \in Sides(target) : t < 0) =>
               /\ <<"whole", v>> \notin breaches
               /\ ~(<<"first", v>> \in breaches /\ <<"second", v>> \in breaches)
=============================================================================
