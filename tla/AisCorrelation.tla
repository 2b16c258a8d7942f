---------------------------- MODULE AisCorrelation ----------------------------
(***************************************************************************)
(* CorrelateDetectionsWithAIS.execute: the ships a radar image shows are   *)
(* matched with the vessels that broadcast their position.  Candidates are *)
(* fetched, placed at the time of the image, gated by distance, ranked,    *)
(* and assigned greedily, best pair first; a ship left over is assessed as *)
(* a possible dark vessel, a vessel left over is a ghost vessel.           *)
(*                                                                         *)
(* Abstracted: geometry and probabilities.  A vessel lags the image by a   *)
(* number of steps, lies at a distance from the box of a ship, inside or   *)
(* outside its error ellipse, and a pair has a score that stands for the   *)
(* association probability and what breaks its ties.                       *)
(***************************************************************************)
EXTENDS Integers, FiniteSets

CONSTANTS
    Ship,          \* detections in the image
    Vessel,        \* vessel keys: the MMSI or vessel_id of a group of records
    Score,         \* levels of the association probability
    MaxLag,        \* a vessel lags the image by at most this
    TimeLimit,     \* MAX_AIS_IMAGERY_TIME_DIFF_SECONDS
    MaxGap,        \* a vessel is at most this far from a ship
    Tolerance      \* tolerance_meters

ASSUME CorrelationAssumption ==
    /\ Score \subseteq Nat
    /\ {MaxLag, TimeLimit, MaxGap, Tolerance} \subseteq Nat

VARIABLES
    step,          \* where execute() is
    inFrame,       \* vessels that lie inside the image's bounding box
    candidates,    \* vessels fetched from the AIS repository
    timely,        \* those with a valid time
    gated,         \* the candidate pairs
    left,          \* those the assignment loop has not come to
    matches,       \* the pairs it took
    contact,       \* the assessment of each ship
    ghosts         \* last_ghost_vessels

correlationVars == <<step, inFrame, candidates, timely, gated, left, matches, contact, ghosts>>

Pair == [ship : Ship, vessel : Vessel, inside : BOOLEAN, score : Score]

-----------------------------------------------------------------------------
(* assess_dark_vessel: hundredths for its factors, so that the score is in *)
(* ten-thousandths; the length is one of the four classes, against the     *)
(* thresholds of the settings.                                             *)
Hull == [length : {"large", "solas", "medium", "small"}, tenths : 1..10,
         shape : {"naval", "plain", "round"}]

BaseScore == [large |-> 85, solas |-> 70, medium |-> 45, small |-> 20]

ShapeAdjustment == [naval |-> 8, plain |-> 0, round |-> 0 - 12]

DarkScore(h) ==
    LET raw == BaseScore[h.length] * (60 + 4 * h.tenths) + 100 * ShapeAdjustment[h.shape]
    IN  IF raw < 500 THEN 500 ELSE IF raw > 9900 THEN 9900 ELSE raw

Risk(score) ==
    IF score >= 7500 THEN "CRITICAL"
    ELSE IF score >= 5500 THEN "HIGH"
    ELSE IF score >= 3500 THEN "MEDIUM"
    ELSE IF score >= 2000 THEN "LOW"
    ELSE "NOMINAL"

(* Tenths for the confidence, so that 0.45 lies between 4 and 5. *)
IsDark(h) ==
    \/ DarkScore(h) >= 5000
    \/ h.length \in {"large", "solas"} /\ h.tenths > 4

Nominal == [dark |-> FALSE, risk |-> "NOMINAL"]

Assessments == {[dark |-> IsDark(h), risk |-> Risk(DarkScore(h))] : h \in Hull}

-----------------------------------------------------------------------------
CorrelationInit ==
    /\ step = "fetch"
    /\ inFrame \in SUBSET Vessel
    /\ candidates = {} /\ timely = {} /\ gated = {} /\ left = {} /\ matches = {}
    /\ contact = [s \in Ship |-> Nominal]
    /\ ghosts = {}

(* A query that raises is taken for an empty sea. *)
Fetch ==
    /\ step = "fetch"
    /\ step' = "prepare"
    /\ candidates' \in SUBSET Vessel
    /\ UNCHANGED <<inFrame, timely, gated, left, matches, contact, ghosts>>

(* Each vessel is placed at the time of the image; it counts only if one of *)
(* its records lies within the time limit.                                 *)
Profile ==
    /\ step = "prepare"
    /\ step' = "gate"
    /\ \E lag \in [candidates -> 0..MaxLag] :
        timely' = {v \in candidates : lag[v] <= TimeLimit}
    /\ UNCHANGED <<inFrame, candidates, gated, left, matches, contact, ghosts>>

(* A pair is a candidate within the tolerance or the joint error ellipse. *)
Gated(gap, inEllipse) == gap <= Tolerance \/ inEllipse

Paired == timely

(* What the evaluation of a ship and a vessel can come to. *)
Evaluation ==
    {e \in [gated : BOOLEAN, inside : BOOLEAN, score : Score] :
        \E gap \in 0..MaxGap, inEllipse \in BOOLEAN :
            e.inside = (gap = 0) /\ e.gated = Gated(gap, inEllipse)}

Gate ==
    /\ step = "gate"
    /\ step' = "assign"
    /\ \E found \in [Ship \X Paired -> Evaluation] :
        gated' = {[ship |-> p[1], vessel |-> p[2],
                   inside |-> found[p].inside, score |-> found[p].score] :
                    p \in {q \in Ship \X Paired : found[q].gated}}
    /\ left' = gated'
    /\ UNCHANGED <<inFrame, candidates, timely, matches, contact, ghosts>>

(* The sort key: inside the box first, then by score. *)
Ranks(p, q) ==
    \/ p.inside /\ ~q.inside
    \/ p.inside = q.inside /\ p.score >= q.score

(* Slip: a vessel already matched is matched again. *)
TakenShip(p) == \E m \in matches : m.ship = p.ship

Taken(p) == \E m \in matches : m.ship = p.ship \/ m.vessel = p.vessel

(* The loop comes to the next pair: it takes it unless its ship or its      *)
(* vessel is matched already.                                              *)
Examine ==
    /\ step = "assign"
    /\ \E p \in left :
        /\ \A q \in left : Ranks(p, q)
        /\ left' = left \ {p}
        /\ matches' = IF Taken(p) THEN matches ELSE matches \cup {p}
    /\ UNCHANGED <<step, inFrame, candidates, timely, gated, contact, ghosts>>

Matched(s) == \E m \in matches : m.ship = s

Heard(v) == \E m \in matches : m.vessel = v

(* After the loop, ships without a match are assessed, and the timely       *)
(* vessels in the image without a match become the ghost vessels.          *)
Assess ==
    /\ step = "assign"
    /\ left = {}
    /\ step' = "done"
    /\ contact' \in {c \in [Ship -> Assessments \cup {Nominal}] :
                        \A s \in Ship : IF Matched(s) THEN c[s] = Nominal ELSE c[s] \in Assessments}
    /\ ghosts' = {v \in timely \cap inFrame : ~Heard(v)}
    /\ UNCHANGED <<inFrame, candidates, timely, gated, left, matches>>

CorrelationNext == Fetch \/ Profile \/ Gate \/ Examine \/ Assess

CorrelationSpec == CorrelationInit /\ [][CorrelationNext]_correlationVars

-----------------------------------------------------------------------------
(* The variables of the correlation stay in their ranges. *)
CorrelationTypeOK ==
    /\ step \in {"fetch", "prepare", "gate", "assign", "done"}
    /\ inFrame \subseteq Vessel /\ candidates \subseteq Vessel
    /\ timely \subseteq candidates /\ ghosts \subseteq timely
    /\ gated \subseteq Pair /\ left \subseteq gated /\ matches \subseteq gated
    /\ contact \in [Ship -> [dark : BOOLEAN,
                             risk : {"CRITICAL", "HIGH", "MEDIUM", "LOW", "NOMINAL"}]]

(* p lies inside the box and q does not, or both do and p is more probable. *)
Better(p, q) == \/ p.inside /\ ~q.inside
                \/ p.inside = q.inside /\ p.score > q.score

(* The assignment is a stable matching: no ship and no vessel is matched    *)
(* twice, and a gated pair was passed over only for a pair of its ship or   *)
(* of its vessel that is at least as good.                                 *)
StableMatching ==
    step = "done" =>
        /\ \A m, n \in matches : m.ship = n.ship \/ m.vessel = n.vessel => m = n
        /\ \A p \in gated : \E m \in matches :
               (m.ship = p.ship \/ m.vessel = p.vessel) /\ ~Better(p, m)

(* Nothing is reported twice or left out: of the vessels heard in time, one *)
(* in the image is matched or a ghost and never both; a matched ship is     *)
(* never dark, and an unmatched one that is dark has at least medium risk,  *)
(* that of a large hull seen clearly among them.                           *)
EveryContactReported ==
    step = "done" =>
        /\ \A v \in timely \cap inFrame : Heard(v) # (v \in ghosts)
        /\ \A v \in Vessel \ timely : ~Heard(v) /\ v \notin ghosts
        /\ \A s \in Ship : contact[s].dark =>
               ~Matched(s) /\ contact[s].risk \in {"CRITICAL", "HIGH", "MEDIUM"}
=============================================================================
