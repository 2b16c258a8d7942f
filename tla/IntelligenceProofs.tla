-------------------------- MODULE IntelligenceProofs --------------------------
(***************************************************************************)
(* What is made of a scan and of the jobs, and the end of a process: the   *)
(* matching with vessels, the shutdown, alerts, tiles and the analysis of  *)
(* a scan, for any number of requests, events and scans.  The components   *)
(* share no state; each part below speaks of one of them.                  *)
(***************************************************************************)
EXTENDS ScanAnalysis, AisCorrelation, PassAlerts, ShutdownCoordinator, TileDownloads,
        RelationshipGraph, FiniteSetTheorems, FunctionTheorems, SequenceTheorems,
        WellFoundedInduction, TLAPS

-----------------------------------------------------------------------------
(***************************************************************************)
(* The matching of detections with vessels, for any number of ships and    *)
(* vessels and any scores: the greedy loop over the ranked pairs ends with *)
(* a stable matching, and what it reports adds up.                         *)
(***************************************************************************)

(* p does not compete with the match m that stands in its way, or loses. *)
Settles(m, p) == (m.ship = p.ship \/ m.vessel = p.vessel) /\ ~Better(p, m)

OneToOne ==
    \A m, n \in matches : m.ship = n.ship \/ m.vessel = n.vessel => m = n

(* Pairs the loop has come to have been settled, by a pair it took. *)
Settled == \A p \in gated \ left : \E m \in matches : Settles(m, p)

(* The loop comes to the pairs in the order of their rank. *)
InOrder == \A p \in gated \ left, q \in left : Ranks(p, q)

(* Before the loop there is nothing to match; after it nothing is left. *)
Phases ==
    /\ step = "fetch" => timely = {}
    /\ step # "done" => ghosts = {}
    /\ step \in {"fetch", "prepare", "gate"} => gated = {} /\ left = {} /\ matches = {}
    /\ step = "done" => left = {}
    /\ matches \cap left = {}
    /\ \A p \in gated : p.vessel \in timely

Reported ==
    step = "done" =>
        /\ ghosts = {v \in timely \cap inFrame : ~Heard(v)}
        /\ \A s \in Ship : IF Matched(s) THEN contact[s] = Nominal
                           ELSE contact[s] \in Assessments

CorrelationInv == CorrelationTypeOK /\ Phases /\ OneToOne /\ Settled /\ InOrder /\ Reported

-----------------------------------------------------------------------------
(* The risk of a dark vessel (assess_dark_vessel) is at least MEDIUM: a     *)
(* score of 0.5 lies above that level's bound, and so does the score of a  *)
(* large hull seen with a confidence above 0.45, whatever its shape.       *)
LEMMA DarkIsSuspicious ==
    \A h \in Hull : IsDark(h) => Risk(DarkScore(h)) \in {"CRITICAL", "HIGH", "MEDIUM"}
<1> SUFFICES ASSUME NEW h \in Hull, IsDark(h)
             PROVE  Risk(DarkScore(h)) \in {"CRITICAL", "HIGH", "MEDIUM"}
    OBVIOUS
<1> DEFINE raw == BaseScore[h.length] * (60 + 4 * h.tenths) + 100 * ShapeAdjustment[h.shape]
<1>1. h.tenths \in 1..10 /\ h.length \in {"large", "solas", "medium", "small"}
      /\ h.shape \in {"naval", "plain", "round"}
    BY DEF Hull
<1>2. BaseScore[h.length] \in {85, 70, 45, 20} /\ ShapeAdjustment[h.shape] \in {8, 0, 0 - 12}
    BY <1>1 DEF BaseScore, ShapeAdjustment
<1>3. raw \in Int
  <2>1. CASE BaseScore[h.length] = 85 BY <2>1, <1>1, <1>2
  <2>2. CASE BaseScore[h.length] = 70 BY <2>2, <1>1, <1>2
  <2>3. CASE BaseScore[h.length] = 45 BY <2>3, <1>1, <1>2
  <2>4. CASE BaseScore[h.length] = 20 BY <2>4, <1>1, <1>2
  <2> QED BY <1>2, <2>1, <2>2, <2>3, <2>4
<1>4. DarkScore(h) = (IF raw < 500 THEN 500 ELSE IF raw > 9900 THEN 9900 ELSE raw)
    BY DEF DarkScore
<1>5. DarkScore(h) \in Int /\ DarkScore(h) >= 3500
  <2>1. CASE DarkScore(h) >= 5000
    BY <2>1, <1>3, <1>4
  <2>2. CASE h.length \in {"large", "solas"} /\ h.tenths > 4
    <3>1. BaseScore[h.length] \in {85, 70}
        BY <2>2 DEF BaseScore
    <3>2. raw >= 4400
      <4>1. CASE BaseScore[h.length] = 85 BY <4>1, <1>1, <1>2, <2>2
      <4>2. CASE BaseScore[h.length] = 70 BY <4>2, <1>1, <1>2, <2>2
      <4> QED BY <3>1, <4>1, <4>2
    <3> QED BY <3>2, <1>3, <1>4
  <2> QED BY <2>1, <2>2 DEF IsDark
<1> QED BY <1>5 DEF Risk

LEMMA RiskRange ==
    \A k : Risk(k) \in {"CRITICAL", "HIGH", "MEDIUM", "LOW", "NOMINAL"}
BY DEF Risk

LEMMA AssessmentRange ==
    Assessments \cup {Nominal}
        \subseteq [dark : BOOLEAN, risk : {"CRITICAL", "HIGH", "MEDIUM", "LOW", "NOMINAL"}]
<1>1. ASSUME NEW h \in Hull PROVE IsDark(h) \in BOOLEAN BY DEF IsDark
<1>2. ASSUME NEW h \in Hull
      PROVE  [dark |-> IsDark(h), risk |-> Risk(DarkScore(h))]
                \in [dark : BOOLEAN, risk : {"CRITICAL", "HIGH", "MEDIUM", "LOW", "NOMINAL"}]
    BY <1>1, RiskRange
<1>3. Nominal \in [dark : BOOLEAN, risk : {"CRITICAL", "HIGH", "MEDIUM", "LOW", "NOMINAL"}]
    BY DEF Nominal
<1> QED BY <1>2, <1>3 DEF Assessments

(* A ranking never leaves a better pair behind. *)
LEMMA RanksSettles ==
    ASSUME NEW m \in Pair, NEW p \in Pair, Ranks(m, p)
    PROVE  ~Better(p, m)
<1>1. m.score \in Nat /\ p.score \in Nat /\ m.inside \in BOOLEAN /\ p.inside \in BOOLEAN
    BY CorrelationAssumption DEF Pair
<1> QED BY <1>1 DEF Ranks, Better

LEMMA NotBetterThanItself ==
    ASSUME NEW p \in Pair PROVE ~Better(p, p)
<1>1. p.score \in Nat /\ p.inside \in BOOLEAN
    BY CorrelationAssumption DEF Pair
<1> QED BY <1>1 DEF Better

-----------------------------------------------------------------------------
LEMMA CorrelationInitially == CorrelationInit => CorrelationInv
<1> SUFFICES ASSUME CorrelationInit PROVE CorrelationInv OBVIOUS
<1> USE DEF CorrelationInit
<1>1. CorrelationTypeOK
  <2>1. contact \in [Ship -> [dark : BOOLEAN,
                              risk : {"CRITICAL", "HIGH", "MEDIUM", "LOW", "NOMINAL"}]]
      BY AssessmentRange
  <2> QED BY <2>1 DEF CorrelationTypeOK
<1> QED BY <1>1 DEF CorrelationInv, Phases, OneToOne, Settled, InOrder, Reported

LEMMA FetchInv == CorrelationInv /\ Fetch => CorrelationInv'
<1> SUFFICES ASSUME CorrelationInv, Fetch PROVE CorrelationInv' OBVIOUS
<1>1. /\ step = "fetch" /\ step' = "prepare" /\ candidates' \in SUBSET Vessel
      /\ timely = {} /\ ghosts = {} /\ gated = {} /\ left = {} /\ matches = {}
      /\ UNCHANGED <<inFrame, timely, gated, left, matches, contact, ghosts>>
    BY DEF CorrelationInv, Phases, Fetch
<1> QED BY <1>1 DEF CorrelationInv, CorrelationTypeOK, Phases, OneToOne, Settled, InOrder, Reported

LEMMA ProfileInv == CorrelationInv /\ Profile => CorrelationInv'
<1> SUFFICES ASSUME CorrelationInv, Profile PROVE CorrelationInv' OBVIOUS
<1>1. /\ step = "prepare" /\ step' = "gate" /\ timely' \subseteq candidates
      /\ ghosts = {} /\ gated = {} /\ left = {} /\ matches = {}
      /\ UNCHANGED <<inFrame, candidates, gated, left, matches, contact, ghosts>>
    BY DEF CorrelationInv, Phases, Profile
<1> QED BY <1>1 DEF CorrelationInv, CorrelationTypeOK, Phases, OneToOne, Settled, InOrder, Reported

LEMMA GateInv == CorrelationInv /\ Gate => CorrelationInv'
<1> SUFFICES ASSUME CorrelationInv, Gate PROVE CorrelationInv' OBVIOUS
<1>1. /\ step = "gate" /\ step' = "assign" /\ left' = gated'
      /\ ghosts = {} /\ matches = {}
      /\ UNCHANGED <<inFrame, candidates, timely, matches, contact, ghosts>>
    BY DEF CorrelationInv, Phases, Gate
<1>2. gated' \subseteq Pair /\ \A p \in gated' : p.vessel \in timely
  <2>1. PICK found \in [Ship \X Paired -> Evaluation] :
           gated' = {[ship |-> p[1], vessel |-> p[2],
                      inside |-> found[p].inside, score |-> found[p].score] :
                        p \in {q \in Ship \X Paired : found[q].gated}}
      BY DEF Gate
  <2>2. ASSUME NEW p \in Ship \X Paired
        PROVE  LET r == [ship |-> p[1], vessel |-> p[2],
                         inside |-> found[p].inside, score |-> found[p].score]
               IN  r \in Pair /\ r.vessel \in timely
    <3>1. p[1] \in Ship /\ p[2] \in timely BY DEF Paired
    <3>2. p[2] \in Vessel BY <3>1 DEF CorrelationInv, CorrelationTypeOK
    <3>3. found[p] \in Evaluation OBVIOUS
    <3>4. found[p].inside \in BOOLEAN /\ found[p].score \in Score
        BY <3>3 DEF Evaluation
    <3> QED BY <3>1, <3>2, <3>4 DEF Pair
  <2> QED BY <2>1, <2>2
<1>3. CorrelationTypeOK'
    BY <1>1, <1>2 DEF CorrelationInv, CorrelationTypeOK
<1> QED BY <1>1, <1>2, <1>3 DEF CorrelationInv, Phases, OneToOne, Settled, InOrder, Reported

(* The pair the loop comes to is taken, and settles itself, or is blocked  *)
(* by a match that the loop came to earlier and that ranks above it.       *)
LEMMA ExamineInv == CorrelationInv /\ Examine => CorrelationInv'
<1> SUFFICES ASSUME CorrelationInv, Examine PROVE CorrelationInv' OBVIOUS
<1>1. PICK p \in left :
         /\ \A q \in left : Ranks(p, q)
         /\ left' = left \ {p}
         /\ matches' = IF Taken(p) THEN matches ELSE matches \cup {p}
    BY DEF Examine
<1>2. /\ step = "assign" /\ step' = step
      /\ UNCHANGED <<inFrame, candidates, timely, gated, contact, ghosts>>
    BY DEF Examine
<1>3. /\ p \in gated /\ p \in Pair /\ p \notin matches
      /\ gated \subseteq Pair /\ left \subseteq gated /\ matches \subseteq gated
      /\ matches \cap left = {}
    BY DEF CorrelationInv, CorrelationTypeOK, Phases
<1>4. CorrelationTypeOK'
    BY <1>1, <1>2, <1>3 DEF CorrelationInv, CorrelationTypeOK
<1>5. Phases'
    BY <1>1, <1>2, <1>3 DEF CorrelationInv, Phases
<1>6. OneToOne'
  <2>1. CASE Taken(p)
      BY <2>1, <1>1 DEF CorrelationInv, OneToOne
  <2>2. CASE ~Taken(p)
      BY <2>2, <1>1 DEF CorrelationInv, OneToOne, Taken
  <2> QED BY <2>1, <2>2
<1>7. Settled'
  <2> SUFFICES ASSUME NEW q \in gated' \ left'
               PROVE  \E m \in matches' : Settles(m, q)
      BY DEF Settled, Settles, Better
  <2>1. CASE q # p
    <3>1. q \in gated \ left BY <2>1, <1>1, <1>2
    <3>2. PICK m \in matches : Settles(m, q) BY <3>1 DEF CorrelationInv, Settled
    <3> QED BY <3>2, <1>1
  <2>2. CASE q = p /\ Taken(p)
    <3>1. PICK m \in matches : m.ship = p.ship \/ m.vessel = p.vessel
        BY <2>2 DEF Taken
    <3>2. m \in gated \ left /\ m \in Pair BY <1>3
    <3>3. Ranks(m, p) BY <3>2 DEF CorrelationInv, InOrder
    <3>4. ~Better(p, m) BY <3>2, <3>3, <1>3, RanksSettles
    <3> QED BY <3>1, <3>4, <2>2, <1>1 DEF Settles
  <2>3. CASE q = p /\ ~Taken(p)
    <3>1. p \in matches' BY <2>3, <1>1
    <3> QED BY <3>1, <2>3, <1>3, NotBetterThanItself DEF Settles
  <2> QED BY <2>1, <2>2, <2>3
<1>8. InOrder'
    BY <1>1, <1>2, <1>3 DEF CorrelationInv, InOrder, Ranks
<1>9. Reported'
    BY <1>2 DEF Reported
<1> QED BY <1>4, <1>5, <1>6, <1>7, <1>8, <1>9 DEF CorrelationInv

LEMMA AssessInv == CorrelationInv /\ Assess => CorrelationInv'
<1> SUFFICES ASSUME CorrelationInv, Assess PROVE CorrelationInv' OBVIOUS
<1>1. /\ step = "assign" /\ left = {} /\ step' = "done"
      /\ ghosts' = {v \in timely \cap inFrame : ~Heard(v)}
      /\ contact' \in [Ship -> Assessments \cup {Nominal}]
      /\ \A s \in Ship : IF Matched(s) THEN contact'[s] = Nominal ELSE contact'[s] \in Assessments
      /\ UNCHANGED <<inFrame, candidates, timely, gated, left, matches>>
    BY DEF Assess
<1>2. contact' \in [Ship -> [dark : BOOLEAN,
                             risk : {"CRITICAL", "HIGH", "MEDIUM", "LOW", "NOMINAL"}]]
    BY <1>1, AssessmentRange
<1>3. CorrelationTypeOK'
    BY <1>1, <1>2 DEF CorrelationInv, CorrelationTypeOK
<1>4. Reported'
    BY <1>1 DEF Reported, Heard, Matched
<1>5. Phases' /\ OneToOne' /\ InOrder'
    BY <1>1 DEF CorrelationInv, Phases, OneToOne, InOrder
<1>6. Settled'
    BY <1>1 DEF CorrelationInv, Settled, Settles, Better
<1> QED BY <1>3, <1>4, <1>5, <1>6 DEF CorrelationInv

LEMMA StutterInv == CorrelationInv /\ UNCHANGED correlationVars => CorrelationInv'
BY DEF CorrelationInv, correlationVars, CorrelationTypeOK, Phases, OneToOne, Settled, Settles, Better,
       InOrder, Ranks, Reported, Heard, Matched

THEOREM MatchingHolds == CorrelationSpec => []CorrelationInv
<1>1. CorrelationInv /\ [CorrelationNext]_correlationVars => CorrelationInv'
    BY FetchInv, ProfileInv, GateInv, ExamineInv, AssessInv, StutterInv DEF CorrelationNext
<1> QED BY <1>1, CorrelationInitially, PTL DEF CorrelationSpec

(* The variables of the correlation stay in their ranges (execute).        *)
THEOREM CorrelationTypeCorrect == CorrelationSpec => []CorrelationTypeOK
<1>1. CorrelationInv => CorrelationTypeOK BY DEF CorrelationInv
<1> QED BY <1>1, MatchingHolds, PTL

(* The loop of correlate_ais_detections.py:1203-1226 ends with a stable     *)
(* matching: one to one, and no pair was passed over for a worse one.      *)
THEOREM Stability == CorrelationSpec => []StableMatching
<1>1. CorrelationInv => StableMatching
    BY DEF CorrelationInv, Phases, OneToOne, Settled, Settles, StableMatching
<1> QED BY <1>1, MatchingHolds, PTL

(* What is reported adds up: each vessel heard in time and in the image is *)
(* matched or a ghost, a matched ship is not dark, and a dark one is at     *)
(* least of medium risk.                                                   *)
THEOREM Completeness == CorrelationSpec => []EveryContactReported
<1>1. CorrelationInv => EveryContactReported
  <2> SUFFICES ASSUME CorrelationInv, step = "done"
               PROVE  /\ \A v \in timely \cap inFrame : Heard(v) # (v \in ghosts)
                      /\ \A v \in Vessel \ timely : ~Heard(v) /\ v \notin ghosts
                      /\ \A s \in Ship : contact[s].dark =>
                            ~Matched(s) /\ contact[s].risk \in {"CRITICAL", "HIGH", "MEDIUM"}
      BY DEF EveryContactReported
  <2>1. \A v \in timely \cap inFrame : Heard(v) # (v \in ghosts)
      BY DEF CorrelationInv, Reported, Heard
  <2>2. \A v \in Vessel \ timely : ~Heard(v) /\ v \notin ghosts
      BY DEF CorrelationInv, Phases, CorrelationTypeOK, Heard
  <2>3. ASSUME NEW s \in Ship, contact[s].dark
        PROVE  ~Matched(s) /\ contact[s].risk \in {"CRITICAL", "HIGH", "MEDIUM"}
    <3>1. ~Matched(s)
        BY <2>3 DEF CorrelationInv, Reported, Nominal
    <3>2. contact[s] \in Assessments
        BY <3>1 DEF CorrelationInv, Reported
    <3>3. PICK h \in Hull : contact[s] = [dark |-> IsDark(h), risk |-> Risk(DarkScore(h))]
        BY <3>2 DEF Assessments
    <3>4. IsDark(h) BY <2>3, <3>3
    <3> QED BY <3>1, <3>3, <3>4, DarkIsSuspicious
  <2> QED BY <2>1, <2>2, <2>3
<1> QED BY <1>1, MatchingHolds, PTL

-----------------------------------------------------------------------------
(***************************************************************************)
(* The end of app.py, for any number of signals: the deadline and the      *)
(* clean exit. Both rest on what each frame of the main thread says by     *)
(* where it is: which lock it holds, and what is done already.             *)
(***************************************************************************)

(* There are no more handlers than signals were received. *)
Frames == Depth <= signals + 1

(* A lock is held by the frame that is inside its critical section. *)
Holders ==
    /\ holder["event"] # 0 => stack[holder["event"]] = "set"
    /\ holder["coordinator"] # 0 => stack[holder["coordinator"]] \in {"mark", "copy"}

(* Behind these steps lies a whole run of container.shutdown. *)
Cleaned ==
    \A d \in 1..Depth :
        stack[d] \in {"over", "direct", "stopAgain", "exit", "ended"} => cleanedUp

(* ~Alive, frame by frame. *)
Over == Depth = 1 /\ Top \in {"ended", "killed"}

(* While no signal has come within Arming, only the last frame can be      *)
(* there, nobody is past it before the watchdog runs, and the watchdog is  *)
(* marked as started only by the frame that is about to start it.          *)
Armed ==
    ~Over /\ ~interrupted =>
        /\ \A d \in 1..(Depth - 1) : stack[d] \notin Arming
        /\ ~watchdog => \A d \in 1..Depth : stack[d] \in {"serve", "flag", "enterStart"} \cup Arming
        /\ started /\ ~watchdog => Top = "spawn"

ShutdownInv == ShutdownTypeOK /\ Frames /\ Holders /\ Cleaned /\ Armed

-----------------------------------------------------------------------------
(* The stack after a step of its last frame, and after a signal. *)
LEMMA Moved ==
    ASSUME ShutdownTypeOK, NEW next \in ProgramSteps, Continue(next),
           Depth > 1 => next \in HandlerSteps
    PROVE  /\ stack' \in Seq(ProgramSteps) /\ Len(stack') = Len(stack)
           /\ \A d \in 2..Len(stack') : stack'[d] \in HandlerSteps
           /\ stack'[Len(stack)] = next
           /\ \A d \in 1..Len(stack) : d # Len(stack) => stack'[d] = stack[d]
  BY DEF ShutdownTypeOK, Continue, Depth

LEMMA Pushed ==
    ASSUME ShutdownTypeOK, stack' = Append(stack, "flag")
    PROVE  /\ stack' \in Seq(ProgramSteps) /\ Len(stack') = Len(stack) + 1
           /\ stack'[Len(stack) + 1] = "flag"
           /\ \A d \in 1..Len(stack) : stack'[d] = stack[d]
  BY DEF ShutdownTypeOK, ProgramSteps, HandlerSteps, Depth

LEMMA Alone ==
    ASSUME NEW s \in ProgramSteps, stack' = <<s>>
    PROVE  /\ stack' \in Seq(ProgramSteps) /\ Len(stack') = 1 /\ stack'[1] = s
  OBVIOUS

LEMMA Dead ==
    ASSUME ShutdownTypeOK
    PROVE  Alive <=> ~Over
<1>1. ASSUME ~Alive PROVE Over
  BY <1>1 DEF Alive, Over, Depth, Top
<1>2. ASSUME Over PROVE ~Alive
  <2>1. stack = <<stack[1]>>
    BY <1>2 DEF ShutdownTypeOK, Over, Depth
  <2> QED
    BY <1>2, <2>1 DEF Alive, Over, Depth, Top
<1> QED
  BY <1>1, <1>2

-----------------------------------------------------------------------------
LEMMA ShutdownInitially == ShutdownInit => ShutdownInv
<1> SUFFICES ASSUME ShutdownInit PROVE ShutdownInv
  OBVIOUS
<1>1. stack \in Seq(ProgramSteps) /\ Len(stack) = 1 /\ stack[1] = "serve"
  BY DEF ShutdownInit, ProgramSteps
<1> USE SignalAssumption DEF ShutdownInit, Depth, Top
<1>2. holder \in [Lock -> {0}] /\ holder["event"] = 0 /\ holder["coordinator"] = 0
  BY DEF Lock
<1>3. ShutdownTypeOK /\ Frames
  <2>1. holder \in [Lock -> 0..Depth]
    BY <1>1, <1>2
  <2>2. {requested, started, watchdog, cleanedUp, busy, interrupted} \subseteq BOOLEAN
    BY Zenon
  <2>3. Depth \in 1..(MaxSignals + 1) /\ Depth <= signals + 1
    BY <1>1
  <2>4. \A d \in 2..Depth : stack[d] \in HandlerSteps
    BY <1>1
  <2> QED
    BY <1>1, <2>1, <2>2, <2>3, <2>4 DEF ShutdownTypeOK, Frames
<1>4. Holders /\ Cleaned /\ Armed
  BY <1>1, <1>2 DEF Holders, Cleaned, Armed, Arming
<1> QED
  BY <1>3, <1>4 DEF ShutdownInv

LEMMA ShutdownStep == ShutdownInv /\ [ShutdownNext]_shutdownVars => ShutdownInv'
<1> SUFFICES ASSUME ShutdownInv, [ShutdownNext]_shutdownVars PROVE ShutdownInv'
  OBVIOUS
<1> USE SignalAssumption DEF Depth, Top
<1> DEFINE T == stack[Len(stack)]
<1>0. /\ stack \in Seq(ProgramSteps) /\ Len(stack) \in Nat /\ Len(stack) >= 1
      /\ Len(stack) <= signals + 1 /\ signals \in Nat
      /\ \A d \in 1..Len(stack) : stack[d] \in ProgramSteps
  BY DEF ShutdownInv, ShutdownTypeOK, Frames
<1>1. CASE Signal
  <2>1. /\ stack' \in Seq(ProgramSteps) /\ Len(stack') = Len(stack) + 1
        /\ stack'[Len(stack) + 1] = "flag"
        /\ \A d \in 1..Len(stack) : stack'[d] = stack[d]
    BY <1>1, Pushed DEF ShutdownInv, Signal
  <2>2. ~Over
    BY <1>1, Dead DEF ShutdownInv, Signal
  <2>3. ShutdownTypeOK' /\ Frames'
    BY <1>0, <1>1, <2>1 DEF ShutdownInv, ShutdownTypeOK, Frames, Signal, Lock, HandlerSteps
  <2>4. Holders' /\ Cleaned'
    BY <1>0, <1>1, <2>1 DEF ShutdownInv, ShutdownTypeOK, Holders, Cleaned, Signal, Lock
  <2>5. Armed'
    <3>1. ~interrupted' => ~interrupted /\ T \notin Arming
      BY <1>1 DEF Signal
    <3>2. SUFFICES ASSUME ~interrupted', ~interrupted, T \notin Arming PROVE Armed'
      BY <3>1 DEF Armed
    <3>3. /\ \A d \in 1..(Len(stack) - 1) : stack[d] \notin Arming
          /\ ~watchdog => \A d \in 1..Len(stack) : stack[d] \in {"serve", "flag", "enterStart"} \cup Arming
          /\ ~(started /\ ~watchdog)
      BY <2>2, <3>2 DEF ShutdownInv, Armed, Arming
    <3>4. UNCHANGED <<watchdog, started>>
      BY <1>1 DEF Signal
    <3>5. \A d \in 1..(Len(stack') - 1) : stack'[d] \notin Arming'
      BY <1>0, <2>1, <3>2, <3>3 DEF Arming
    <3>6. ~watchdog => \A d \in 1..Len(stack') : stack'[d] \in {"serve", "flag", "enterStart"} \cup Arming
      BY <1>0, <2>1, <3>3
    <3> QED
      BY <3>3, <3>4, <3>5, <3>6 DEF Armed, Arming
  <2> QED
    BY <2>3, <2>4, <2>5 DEF ShutdownInv
<1>2. CASE ServerStops
  <2> DEFINE next == "flag"
  <2>1. /\ stack' \in Seq(ProgramSteps) /\ Len(stack') = Len(stack)
        /\ \A d \in 2..Len(stack') : stack'[d] \in HandlerSteps
        /\ stack'[Len(stack)] = next
        /\ \A d \in 1..Len(stack) : d # Len(stack) => stack'[d] = stack[d]
    <3>1. next \in ProgramSteps /\ (Len(stack) > 1 => next \in HandlerSteps) /\ Continue(next)
      BY <1>0, <1>2 DEF ServerStops, Acquire, Release, ProgramSteps, HandlerSteps
    <3> QED
      BY <3>1, Moved DEF ShutdownInv
  <2>2. ShutdownTypeOK' /\ Frames'
    BY <1>0, <1>2, <2>1 DEF ShutdownInv, ShutdownTypeOK, Frames, ServerStops, Acquire, Release, Lock
  <2>3. Holders' /\ Cleaned'
    BY <1>0, <1>2, <2>1 DEF ShutdownInv, ShutdownTypeOK, Holders, Cleaned, ServerStops, Acquire, Release, Lock
  <2>4. Armed'
    BY <1>0, <1>2, <2>1 DEF ShutdownInv, Armed, ServerStops, Acquire, Release, Over, Arming
  <2> QED
    BY <2>2, <2>3, <2>4 DEF ShutdownInv
<1>3. CASE IsRequested
  <2> DEFINE next == "enterStart"
  <2>1. /\ stack' \in Seq(ProgramSteps) /\ Len(stack') = Len(stack)
        /\ \A d \in 2..Len(stack') : stack'[d] \in HandlerSteps
        /\ stack'[Len(stack)] = next
        /\ \A d \in 1..Len(stack) : d # Len(stack) => stack'[d] = stack[d]
    <3>1. next \in ProgramSteps /\ (Len(stack) > 1 => next \in HandlerSteps) /\ Continue(next)
      BY <1>0, <1>3 DEF IsRequested, Acquire, Release, ProgramSteps, HandlerSteps
    <3> QED
      BY <3>1, Moved DEF ShutdownInv
  <2>2. ShutdownTypeOK' /\ Frames'
    BY <1>0, <1>3, <2>1 DEF ShutdownInv, ShutdownTypeOK, Frames, IsRequested, Acquire, Release, Lock
  <2>3. Holders' /\ Cleaned'
    BY <1>0, <1>3, <2>1 DEF ShutdownInv, ShutdownTypeOK, Holders, Cleaned, IsRequested, Acquire, Release, Lock
  <2>4. Armed'
    BY <1>0, <1>3, <2>1 DEF ShutdownInv, Armed, IsRequested, Acquire, Release, Over, Arming
  <2> QED
    BY <2>2, <2>3, <2>4 DEF ShutdownInv
<1>4. CASE EnterSet
  <2> DEFINE next == "set"
  <2>1. /\ stack' \in Seq(ProgramSteps) /\ Len(stack') = Len(stack)
        /\ \A d \in 2..Len(stack') : stack'[d] \in HandlerSteps
        /\ stack'[Len(stack)] = next
        /\ \A d \in 1..Len(stack) : d # Len(stack) => stack'[d] = stack[d]
    <3>1. next \in ProgramSteps /\ (Len(stack) > 1 => next \in HandlerSteps) /\ Continue(next)
      BY <1>0, <1>4 DEF EnterSet, Acquire, Release, ProgramSteps, HandlerSteps
    <3> QED
      BY <3>1, Moved DEF ShutdownInv
  <2>2. ShutdownTypeOK' /\ Frames'
    BY <1>0, <1>4, <2>1 DEF ShutdownInv, ShutdownTypeOK, Frames, EnterSet, Acquire, Release, Lock
  <2>3. Holders' /\ Cleaned'
    BY <1>0, <1>4, <2>1 DEF ShutdownInv, ShutdownTypeOK, Holders, Cleaned, EnterSet, Acquire, Release, Lock
  <2>4. Armed'
    BY <1>0, <1>4, <2>1 DEF ShutdownInv, Armed, EnterSet, Acquire, Release, Over, Arming
  <2> QED
    BY <2>2, <2>3, <2>4 DEF ShutdownInv
<1>5. CASE SetFlag
  <2> DEFINE next == "enterStart"
  <2>1. /\ stack' \in Seq(ProgramSteps) /\ Len(stack') = Len(stack)
        /\ \A d \in 2..Len(stack') : stack'[d] \in HandlerSteps
        /\ stack'[Len(stack)] = next
        /\ \A d \in 1..Len(stack) : d # Len(stack) => stack'[d] = stack[d]
    <3>1. next \in ProgramSteps /\ (Len(stack) > 1 => next \in HandlerSteps) /\ Continue(next)
      BY <1>0, <1>5 DEF SetFlag, Acquire, Release, ProgramSteps, HandlerSteps
    <3> QED
      BY <3>1, Moved DEF ShutdownInv
  <2>2. ShutdownTypeOK' /\ Frames'
    BY <1>0, <1>5, <2>1 DEF ShutdownInv, ShutdownTypeOK, Frames, SetFlag, Acquire, Release, Lock
  <2>3. Holders' /\ Cleaned'
    BY <1>0, <1>5, <2>1 DEF ShutdownInv, ShutdownTypeOK, Holders, Cleaned, SetFlag, Acquire, Release, Lock
  <2>4. Armed'
    BY <1>0, <1>5, <2>1 DEF ShutdownInv, Armed, SetFlag, Acquire, Release, Over, Arming
  <2> QED
    BY <2>2, <2>3, <2>4 DEF ShutdownInv
<1>6. CASE EnterStart
  <2> DEFINE next == "mark"
  <2>1. /\ stack' \in Seq(ProgramSteps) /\ Len(stack') = Len(stack)
        /\ \A d \in 2..Len(stack') : stack'[d] \in HandlerSteps
        /\ stack'[Len(stack)] = next
        /\ \A d \in 1..Len(stack) : d # Len(stack) => stack'[d] = stack[d]
    <3>1. next \in ProgramSteps /\ (Len(stack) > 1 => next \in HandlerSteps) /\ Continue(next)
      BY <1>0, <1>6 DEF EnterStart, Acquire, Release, ProgramSteps, HandlerSteps
    <3> QED
      BY <3>1, Moved DEF ShutdownInv
  <2>2. ShutdownTypeOK' /\ Frames'
    BY <1>0, <1>6, <2>1 DEF ShutdownInv, ShutdownTypeOK, Frames, EnterStart, Acquire, Release, Lock
  <2>3. Holders' /\ Cleaned'
    BY <1>0, <1>6, <2>1 DEF ShutdownInv, ShutdownTypeOK, Holders, Cleaned, EnterStart, Acquire, Release, Lock
  <2>4. Armed'
    BY <1>0, <1>6, <2>1 DEF ShutdownInv, Armed, EnterStart, Acquire, Release, Over, Arming
  <2> QED
    BY <2>2, <2>3, <2>4 DEF ShutdownInv
<1>7. CASE Mark
  <2> DEFINE next == IF started THEN "enterCopy" ELSE "spawn"
  <2>1. /\ stack' \in Seq(ProgramSteps) /\ Len(stack') = Len(stack)
        /\ \A d \in 2..Len(stack') : stack'[d] \in HandlerSteps
        /\ stack'[Len(stack)] = next
        /\ \A d \in 1..Len(stack) : d # Len(stack) => stack'[d] = stack[d]
    <3>1. next \in ProgramSteps /\ (Len(stack) > 1 => next \in HandlerSteps) /\ Continue(next)
      BY <1>0, <1>7 DEF Mark, Acquire, Release, ProgramSteps, HandlerSteps
    <3> QED
      BY <3>1, Moved DEF ShutdownInv
  <2>2. ShutdownTypeOK' /\ Frames'
    BY <1>0, <1>7, <2>1 DEF ShutdownInv, ShutdownTypeOK, Frames, Mark, Acquire, Release, Lock
  <2>3. Holders' /\ Cleaned'
    BY <1>0, <1>7, <2>1 DEF ShutdownInv, ShutdownTypeOK, Holders, Cleaned, Mark, Acquire, Release, Lock
  <2>4. Armed'
    BY <1>0, <1>7, <2>1 DEF ShutdownInv, Armed, Mark, Acquire, Release, Over, Arming
  <2> QED
    BY <2>2, <2>3, <2>4 DEF ShutdownInv
<1>8. CASE Spawn
  <2> DEFINE next == "enterCopy"
  <2>1. /\ stack' \in Seq(ProgramSteps) /\ Len(stack') = Len(stack)
        /\ \A d \in 2..Len(stack') : stack'[d] \in HandlerSteps
        /\ stack'[Len(stack)] = next
        /\ \A d \in 1..Len(stack) : d # Len(stack) => stack'[d] = stack[d]
    <3>1. next \in ProgramSteps /\ (Len(stack) > 1 => next \in HandlerSteps) /\ Continue(next)
      BY <1>0, <1>8 DEF Spawn, Acquire, Release, ProgramSteps, HandlerSteps
    <3> QED
      BY <3>1, Moved DEF ShutdownInv
  <2>2. ShutdownTypeOK' /\ Frames'
    BY <1>0, <1>8, <2>1 DEF ShutdownInv, ShutdownTypeOK, Frames, Spawn, Acquire, Release, Lock
  <2>3. Holders' /\ Cleaned'
    BY <1>0, <1>8, <2>1 DEF ShutdownInv, ShutdownTypeOK, Holders, Cleaned, Spawn, Acquire, Release, Lock
  <2>4. Armed'
    BY <1>0, <1>8, <2>1 DEF ShutdownInv, Armed, Spawn, Acquire, Release, Over, Arming
  <2> QED
    BY <2>2, <2>3, <2>4 DEF ShutdownInv
<1>9. CASE EnterCopy
  <2> DEFINE next == "copy"
  <2>1. /\ stack' \in Seq(ProgramSteps) /\ Len(stack') = Len(stack)
        /\ \A d \in 2..Len(stack') : stack'[d] \in HandlerSteps
        /\ stack'[Len(stack)] = next
        /\ \A d \in 1..Len(stack) : d # Len(stack) => stack'[d] = stack[d]
    <3>1. next \in ProgramSteps /\ (Len(stack) > 1 => next \in HandlerSteps) /\ Continue(next)
      BY <1>0, <1>9 DEF EnterCopy, Acquire, Release, ProgramSteps, HandlerSteps
    <3> QED
      BY <3>1, Moved DEF ShutdownInv
  <2>2. ShutdownTypeOK' /\ Frames'
    BY <1>0, <1>9, <2>1 DEF ShutdownInv, ShutdownTypeOK, Frames, EnterCopy, Acquire, Release, Lock
  <2>3. Holders' /\ Cleaned'
    BY <1>0, <1>9, <2>1 DEF ShutdownInv, ShutdownTypeOK, Holders, Cleaned, EnterCopy, Acquire, Release, Lock
  <2>4. Armed'
    BY <1>0, <1>9, <2>1 DEF ShutdownInv, Armed, EnterCopy, Acquire, Release, Over, Arming
  <2> QED
    BY <2>2, <2>3, <2>4 DEF ShutdownInv
<1>10. CASE Copy
  <2> DEFINE next == "clean"
  <2>1. /\ stack' \in Seq(ProgramSteps) /\ Len(stack') = Len(stack)
        /\ \A d \in 2..Len(stack') : stack'[d] \in HandlerSteps
        /\ stack'[Len(stack)] = next
        /\ \A d \in 1..Len(stack) : d # Len(stack) => stack'[d] = stack[d]
    <3>1. next \in ProgramSteps /\ (Len(stack) > 1 => next \in HandlerSteps) /\ Continue(next)
      BY <1>0, <1>10 DEF Copy, Acquire, Release, ProgramSteps, HandlerSteps
    <3> QED
      BY <3>1, Moved DEF ShutdownInv
  <2>2. ShutdownTypeOK' /\ Frames'
    BY <1>0, <1>10, <2>1 DEF ShutdownInv, ShutdownTypeOK, Frames, Copy, Acquire, Release, Lock
  <2>3. Holders' /\ Cleaned'
    BY <1>0, <1>10, <2>1 DEF ShutdownInv, ShutdownTypeOK, Holders, Cleaned, Copy, Acquire, Release, Lock
  <2>4. Armed'
    BY <1>0, <1>10, <2>1 DEF ShutdownInv, Armed, Copy, Acquire, Release, Over, Arming
  <2> QED
    BY <2>2, <2>3, <2>4 DEF ShutdownInv
<1>11. CASE CleanUp
  <2> DEFINE next == IF T = "clean" THEN "stopQueue" ELSE "stopAgain"
  <2>1. /\ stack' \in Seq(ProgramSteps) /\ Len(stack') = Len(stack)
        /\ \A d \in 2..Len(stack') : stack'[d] \in HandlerSteps
        /\ stack'[Len(stack)] = next
        /\ \A d \in 1..Len(stack) : d # Len(stack) => stack'[d] = stack[d]
    <3>1. next \in ProgramSteps /\ (Len(stack) > 1 => next \in HandlerSteps) /\ Continue(next)
      BY <1>0, <1>11 DEF CleanUp, ShutdownInv, ShutdownTypeOK, Acquire, Release, ProgramSteps, HandlerSteps
    <3> QED
      BY <3>1, Moved DEF ShutdownInv
  <2>2. ShutdownTypeOK' /\ Frames'
    BY <1>0, <1>11, <2>1 DEF ShutdownInv, ShutdownTypeOK, Frames, CleanUp, Acquire, Release, Lock
  <2>3. Holders' /\ Cleaned'
    BY <1>0, <1>11, <2>1 DEF ShutdownInv, ShutdownTypeOK, Holders, Cleaned, CleanUp, Acquire, Release, Lock
  <2>4. Armed'
    BY <1>0, <1>11, <2>1 DEF ShutdownInv, Armed, CleanUp, Acquire, Release, Over, Arming
  <2> QED
    BY <2>2, <2>3, <2>4 DEF ShutdownInv
<1>12. CASE EndCleanUp
  <2> DEFINE next == IF T = "stopQueue" THEN "over" ELSE "exit"
  <2>1. /\ stack' \in Seq(ProgramSteps) /\ Len(stack') = Len(stack)
        /\ \A d \in 2..Len(stack') : stack'[d] \in HandlerSteps
        /\ stack'[Len(stack)] = next
        /\ \A d \in 1..Len(stack) : d # Len(stack) => stack'[d] = stack[d]
    <3>1. next \in ProgramSteps /\ (Len(stack) > 1 => next \in HandlerSteps) /\ Continue(next)
      BY <1>0, <1>12 DEF EndCleanUp, ShutdownInv, ShutdownTypeOK, Acquire, Release, ProgramSteps, HandlerSteps
    <3> QED
      BY <3>1, Moved DEF ShutdownInv
  <2>2. ShutdownTypeOK' /\ Frames'
    BY <1>0, <1>12, <2>1 DEF ShutdownInv, ShutdownTypeOK, Frames, EndCleanUp, Acquire, Release, Lock
  <2>3. Holders' /\ Cleaned'
    BY <1>0, <1>12, <2>1 DEF ShutdownInv, ShutdownTypeOK, Holders, Cleaned, EndCleanUp, Acquire, Release, Lock
  <2>4. Armed'
    BY <1>0, <1>12, <2>1 DEF ShutdownInv, Armed, EndCleanUp, Acquire, Release, Over, Arming
  <2> QED
    BY <2>2, <2>3, <2>4 DEF ShutdownInv
<1>13. CASE Return
  <2> DEFINE next == "direct"
  <2>1. /\ stack' \in Seq(ProgramSteps) /\ Len(stack') = Len(stack)
        /\ \A d \in 2..Len(stack') : stack'[d] \in HandlerSteps
        /\ stack'[Len(stack)] = next
        /\ \A d \in 1..Len(stack) : d # Len(stack) => stack'[d] = stack[d]
    <3>1. next \in ProgramSteps /\ (Len(stack) > 1 => next \in HandlerSteps) /\ Continue(next)
      BY <1>0, <1>13 DEF Return, ShutdownInv, ShutdownTypeOK, Acquire, Release, ProgramSteps, HandlerSteps
    <3> QED
      BY <3>1, Moved DEF ShutdownInv
  <2>2. ShutdownTypeOK' /\ Frames'
    BY <1>0, <1>13, <2>1 DEF ShutdownInv, ShutdownTypeOK, Frames, Return, Acquire, Release, Lock
  <2>3. Holders' /\ Cleaned'
    BY <1>0, <1>13, <2>1 DEF ShutdownInv, ShutdownTypeOK, Holders, Cleaned, Return, Acquire, Release, Lock
  <2>4. Armed'
    BY <1>0, <1>13, <2>1 DEF ShutdownInv, Armed, Return, Acquire, Release, Over, Arming
  <2> QED
    BY <2>2, <2>3, <2>4 DEF ShutdownInv
<1>14. CASE Exit
  <2> DEFINE next == "ended"
  <2>1. /\ stack' \in Seq(ProgramSteps) /\ Len(stack') = Len(stack)
        /\ \A d \in 2..Len(stack') : stack'[d] \in HandlerSteps
        /\ stack'[Len(stack)] = next
        /\ \A d \in 1..Len(stack) : d # Len(stack) => stack'[d] = stack[d]
    <3>1. next \in ProgramSteps /\ (Len(stack) > 1 => next \in HandlerSteps) /\ Continue(next)
      BY <1>0, <1>14 DEF Exit, ShutdownInv, ShutdownTypeOK, Acquire, Release, ProgramSteps, HandlerSteps
    <3> QED
      BY <3>1, Moved DEF ShutdownInv
  <2>2. ShutdownTypeOK' /\ Frames'
    BY <1>0, <1>14, <2>1 DEF ShutdownInv, ShutdownTypeOK, Frames, Exit, Acquire, Release, Lock
  <2>3. Holders' /\ Cleaned'
    BY <1>0, <1>14, <2>1 DEF ShutdownInv, ShutdownTypeOK, Holders, Cleaned, Exit, Acquire, Release, Lock
  <2>4. Armed'
    BY <1>0, <1>14, <2>1 DEF ShutdownInv, Armed, Exit, Acquire, Release, Over, Arming
  <2> QED
    BY <2>2, <2>3, <2>4 DEF ShutdownInv
<1>15. CASE Raise
  <2> DEFINE frame == Landing[stack[1]]
  <2>1. frame \in ProgramSteps /\ frame # "serve"
    BY <1>0 DEF ProgramSteps, HandlerSteps, Landing
  <2>2. stack' \in Seq(ProgramSteps) /\ Len(stack') = 1 /\ stack'[1] = frame
    BY <1>15, <2>1, Alone DEF Raise
  <2>3. ShutdownTypeOK' /\ Frames' /\ Holders'
    BY <1>0, <1>15, <2>2 DEF ShutdownInv, ShutdownTypeOK, Frames, Holders, Raise, Lock
  <2>4. Cleaned' /\ Armed'
    BY <1>0, <1>15, <2>2 DEF ShutdownInv, Cleaned, Armed, Raise, Landing, Over, Arming
  <2> QED
    BY <2>3, <2>4 DEF ShutdownInv
<1>16. CASE Fire
  <2> DEFINE frame == "killed"
  <2>1. frame \in ProgramSteps /\ frame # "serve"
    BY <1>0 DEF ProgramSteps, HandlerSteps
  <2>2. stack' \in Seq(ProgramSteps) /\ Len(stack') = 1 /\ stack'[1] = frame
    BY <1>16, <2>1, Alone DEF Fire
  <2>3. ShutdownTypeOK' /\ Frames' /\ Holders'
    BY <1>0, <1>16, <2>2 DEF ShutdownInv, ShutdownTypeOK, Frames, Holders, Fire, Lock
  <2>4. Cleaned' /\ Armed'
    BY <1>0, <1>16, <2>2 DEF ShutdownInv, Cleaned, Armed, Fire, Over, Arming
  <2> QED
    BY <2>3, <2>4 DEF ShutdownInv
<1>17. CASE WorkEnds
  BY <1>17 DEF ShutdownInv, ShutdownTypeOK, Frames, Holders, Cleaned, Armed, Over, WorkEnds
<1>18. CASE UNCHANGED shutdownVars
  BY <1>18 DEF ShutdownInv, ShutdownTypeOK, Frames, Holders, Cleaned, Armed, Over, shutdownVars
<1> QED
  BY <1>1, <1>2, <1>3, <1>4, <1>5, <1>6, <1>7, <1>8, <1>9, <1>10, <1>11, <1>12, <1>13, <1>14, <1>15, <1>16, <1>17, <1>18 DEF ShutdownNext, MainStep

-----------------------------------------------------------------------------
LEMMA ShutdownInvHolds == ShutdownSpec => []ShutdownInv
  BY ShutdownInitially, ShutdownStep, PTL DEF ShutdownSpec

(* The frames, locks and flags stay in their ranges. *)
THEOREM ShutdownTypeCorrect == ShutdownSpec => []ShutdownTypeOK
<1>1. ShutdownInv => ShutdownTypeOK
  BY DEF ShutdownInv
<1> QED
  BY <1>1, ShutdownInvHolds, PTL

(* From the first step of a shutdown on the main thread is on its way to    *)
(* the watchdog, which waits for nobody, or the watchdog runs: the deadline *)
(* of application/shutdown.py:118, for any number of signals.               *)
THEOREM DeadlineHolds == ShutdownSpec => []HardDeadline
<1>1. ShutdownInv => HardDeadline
  <2> SUFFICES ASSUME ShutdownInv, Alive, ~interrupted, ~watchdog
               PROVE  Top \in {"serve", "flag", "enterStart"} \cup Arming /\ ~WaitsForItself
    BY DEF HardDeadline
  <2>1. /\ \A d \in 1..(Depth - 1) : stack[d] \notin Arming
        /\ \A d \in 1..Depth : stack[d] \in {"serve", "flag", "enterStart"} \cup Arming
    BY Dead DEF ShutdownInv, Armed
  <2>2. Depth \in Nat /\ Depth >= 1 /\ holder["event"] \in 0..Depth /\ holder["coordinator"] \in 0..Depth
    BY SignalAssumption DEF ShutdownInv, ShutdownTypeOK, Lock, Depth
  <2>3. Top \in {"flag", "enterStart"} => holder["event"] = 0 /\ holder["coordinator"] = 0
    BY <2>1, <2>2 DEF ShutdownInv, Holders, Top, Arming
  <2> QED
    BY <2>1, <2>2, <2>3 DEF WaitsForItself, Top, Arming
<1> QED
  BY <1>1, ShutdownInvHolds, PTL

(* A process that ends by itself has run container.shutdown to its end, for *)
(* any number of handlers that abandon each other (app.py:15-22).           *)
THEOREM CleanExit == ShutdownSpec => []ExitIsClean
<1>1. ShutdownInv => ExitIsClean
  BY DEF ShutdownInv, Cleaned, ExitIsClean, Depth
<1> QED
  BY <1>1, ShutdownInvHolds, PTL

-----------------------------------------------------------------------------
(***************************************************************************)
(* Pass alerts: an event is sent once, whoever evaluates it, unless its    *)
(* note was lost.                                                          *)
(***************************************************************************)

Evaluating == [pc : {"idle", "look", "note", "send"}, send : BOOLEAN,
               todo : SUBSET Event, fresh : SUBSET Event, new : SUBSET Event]

AlertShape ==
    /\ call \in [Call -> Evaluating]
    /\ tries \in [Event -> Nat]
    /\ present \subseteq Event

(* Only a request that dispatches is sending, and an idle one has nothing. *)
Orderly(mine) == (mine.pc = "send" => mine.send) /\ (mine.pc = "idle" => mine.new = {})
Dispatching == \A c \in Call : Orderly(call[c])

Used == twice \cup silenced \cup lost

(* An event that one request will send is known, has not been sent, and    *)
(* is nobody else's; a known event nobody will send has been sent once.    *)
Owed(e) ==
    /\ \A c \in Call : e \in call[c].new =>
          /\ e \in known /\ tries[e] = 0
          /\ \A d \in Call \ {c} : e \notin call[d].new
    /\ e \in known /\ (\A c \in Call : e \notin call[c].new) => tries[e] = 1
    /\ e \notin known => tries[e] = 0

AlertInv == AlertShape /\ Dispatching /\ \A e \in Event \ Used : Owed(e)

LEMMA AlertsOwed == AlertInv => SentOnce
  BY DEF AlertInv, AlertShape, Evaluating, Owed, Used, SentOnce, Held

LEMMA AlertInitially == AlertInit => AlertInv
<1>1. AlertInit => AlertShape
  BY DEF AlertInit, AlertShape, Evaluating, Unasked
<1>2. AlertInit => Dispatching /\ \A e \in Event \ Used : Owed(e)
  BY DEF AlertInit, Unasked, Dispatching, Orderly, Owed
<1> QED  BY <1>1, <1>2 DEF AlertInv

(* What a request does to its own record leaves the records of the others  *)
(* as they are, and an event that stays as it was stays owed.              *)
LEMMA OwedAsBefore ==
    ASSUME AlertShape, NEW e \in Event, Owed(e),
           e \in known' <=> e \in known, tries'[e] = tries[e],
           NEW c \in Call, NEW mine \in Evaluating, call' = [call EXCEPT ![c] = mine],
           e \in mine.new <=> e \in call[c].new
    PROVE  Owed(e)'
<1>1. \A d \in Call : e \in call'[d].new <=> e \in call[d].new
  BY DEF AlertShape
<1> QED  BY <1>1 DEF Owed

LEMMA RecordShape ==
    ASSUME AlertShape, Dispatching, NEW c \in Call, NEW mine \in Evaluating,
           call' = [call EXCEPT ![c] = mine], Orderly(mine),
           present' \subseteq Event, tries' \in [Event -> Nat]
    PROVE  AlertShape' /\ Dispatching'
  BY DEF AlertShape, Dispatching

LEMMA AlertStep == AlertInv /\ [AlertNext]_alertVars => AlertInv'
<1> SUFFICES ASSUME AlertInv, [AlertNext]_alertVars PROVE AlertInv'
  OBVIOUS
<1>0. AlertShape /\ Dispatching /\ \A e \in Event \ Used : Owed(e)
  BY DEF AlertInv
<1>1. ASSUME JobChanges PROVE AlertInv'
  <2>1. AlertShape'  BY <1>0, <1>1 DEF JobChanges, AlertShape
  <2>2. Dispatching' /\ Used' = Used /\ \A e \in Event \ Used : Owed(e)'
    BY <1>0, <1>1 DEF JobChanges, Dispatching, Used, Owed
  <2> QED  BY <2>1, <2>2 DEF AlertInv
<1>2. ASSUME Restart PROVE AlertInv'
  <2>1. AlertShape'
    BY <1>0, <1>2 DEF Restart, AlertShape, Evaluating, Unasked
  <2>2. Dispatching' /\ \A e \in Event : Owed(e)'
    BY <1>2 DEF Restart, Dispatching, Orderly, Owed, Unasked
  <2> QED  BY <2>1, <2>2 DEF AlertInv
<1>3. ASSUME NEW c \in Call, StartEvaluation(c) PROVE AlertInv'
  <2>1. PICK send \in BOOLEAN :
          call' = [call EXCEPT ![c] = [Unasked EXCEPT !.pc = "look", !.send = send, !.todo = present]]
    BY <1>3 DEF StartEvaluation
  <2> DEFINE mine == [Unasked EXCEPT !.pc = "look", !.send = send, !.todo = present]
  <2>2. mine \in Evaluating /\ mine.new = {} /\ mine.pc = "look"
    BY <1>0 DEF Unasked, Evaluating, AlertShape
  <2>3. call' = [call EXCEPT ![c] = mine]  BY <2>1
  <2> HIDE DEF mine
  <2>4. UNCHANGED <<present, known, tries, twice, silenced, lost>>
    BY <1>3 DEF StartEvaluation
  <2>5. AlertShape' /\ Dispatching'
    BY <1>0, <2>2, <2>3, <2>4, RecordShape DEF AlertShape, Orderly
  <2>6. call[c].new = {}  BY <1>0, <1>3 DEF StartEvaluation, Dispatching, Orderly
  <2>7. ASSUME NEW e \in Event \ Used' PROVE Owed(e)'
    <3>1. e \notin Used  BY <2>4, <2>7 DEF Used
    <3> QED  BY <1>0, <3>1, <2>2, <2>3, <2>4, <2>6, OwedAsBefore
  <2> QED  BY <2>5, <2>7 DEF AlertInv
<1>4. ASSUME NEW c \in Call, Look(c) PROVE AlertInv'
  <2>1. PICK e \in call[c].todo :
          call' = [call EXCEPT ![c].pc = "note", ![c].fresh = {e} \ known, ![c].todo = @ \ {e}]
    BY <1>4 DEF Look
  <2> DEFINE mine == [call[c] EXCEPT !.pc = "note", !.fresh = {e} \ known, !.todo = @ \ {e}]
  <2>2. mine \in Evaluating /\ mine.new = call[c].new /\ mine.pc = "note"
    BY <1>0 DEF Evaluating, AlertShape
  <2>3. call' = [call EXCEPT ![c] = mine]  BY <2>1
  <2> HIDE DEF mine
  <2>4. UNCHANGED <<present, known, tries, twice, silenced, lost>>  BY <1>4 DEF Look
  <2>5. AlertShape' /\ Dispatching'
    BY <1>0, <2>2, <2>3, <2>4, RecordShape DEF AlertShape, Orderly
  <2>6. ASSUME NEW f \in Event \ Used' PROVE Owed(f)'
    <3>1. f \notin Used  BY <2>4, <2>6 DEF Used
    <3> QED  BY <1>0, <3>1, <2>2, <2>3, <2>4, OwedAsBefore
  <2> QED  BY <2>5, <2>6 DEF AlertInv
<1>5. ASSUME NEW c \in Call, Note(c) PROVE AlertInv'
  <2> DEFINE new == call[c].new \cup call[c].fresh
             mine == [call[c] EXCEPT !.pc = "look", !.new = new, !.fresh = {}]
  <2>1. mine \in Evaluating /\ mine.new = new /\ mine.pc = "look"
    BY <1>0 DEF Evaluating, AlertShape
  <2>2. call' = [call EXCEPT ![c] = mine]  BY <1>5 DEF Note
  <2> HIDE DEF mine
  <2>3. /\ known' = known \cup call[c].fresh
        /\ twice' = twice \cup (call[c].fresh \cap known)
        /\ UNCHANGED <<present, tries, silenced, lost>>
    BY <1>5 DEF Note
  <2>4. AlertShape' /\ Dispatching'
    BY <1>0, <2>1, <2>2, <2>3, RecordShape DEF AlertShape, Orderly
  <2>5. ASSUME NEW e \in Event \ Used' PROVE Owed(e)'
    <3>1. e \notin Used /\ e \notin call[c].fresh \cap known
      BY <2>3, <2>5 DEF Used
    <3>2. Owed(e)  BY <1>0, <3>1
    <3>3. CASE e \in call[c].fresh
      <4>1. e \notin known /\ tries[e] = 0 /\ \A d \in Call : e \notin call[d].new
        BY <3>1, <3>2, <3>3 DEF Owed
      <4>2. /\ e \in known' /\ tries'[e] = 0
            /\ e \in call'[c].new
            /\ \A d \in Call \ {c} : e \notin call'[d].new
        BY <1>0, <2>1, <2>2, <2>3, <3>3, <4>1 DEF AlertShape
      <4> QED  BY <4>2 DEF Owed
    <3>4. CASE e \notin call[c].fresh
      <4>1. (e \in mine.new <=> e \in call[c].new) /\ (e \in known' <=> e \in known)
        BY <2>1, <2>3, <3>4
      <4> QED  BY <1>0, <3>2, <4>1, <2>1, <2>2, <2>3, OwedAsBefore
    <3> QED  BY <3>3, <3>4
  <2> QED  BY <2>4, <2>5 DEF AlertInv
<1>6. ASSUME NEW c \in Call, EndLook(c) PROVE AlertInv'
  <2> DEFINE mine == IF call[c].send /\ call[c].new # {}
                     THEN [call[c] EXCEPT !.pc = "send"] ELSE Unasked
  <2>1. /\ mine \in Evaluating
        /\ mine.new = (IF call[c].send THEN call[c].new ELSE {})
        /\ Orderly(mine)
    <3>1. call[c] \in Evaluating  BY <1>0 DEF AlertShape
    <3> QED  BY <3>1 DEF Evaluating, Unasked, Orderly
  <2>2. call' = [call EXCEPT ![c] = mine]  BY <1>0, <1>6 DEF EndLook, AlertShape
  <2> HIDE DEF mine
  <2>3. /\ silenced' = IF call[c].send THEN silenced ELSE silenced \cup call[c].new
        /\ UNCHANGED <<present, known, tries, twice, lost>>
    BY <1>6 DEF EndLook
  <2>4. AlertShape' /\ Dispatching'
    BY <1>0, <2>1, <2>2, <2>3, RecordShape DEF AlertShape
  <2>5. ASSUME NEW e \in Event \ Used' PROVE Owed(e)'
    <3>1. e \notin Used /\ (e \in mine.new <=> e \in call[c].new)
      BY <2>1, <2>3, <2>5 DEF Used
    <3> QED  BY <1>0, <3>1, <2>1, <2>2, <2>3, OwedAsBefore
  <2> QED  BY <2>4, <2>5 DEF AlertInv
<1>7. ASSUME NEW c \in Call, Send(c) PROVE AlertInv'
  <2>1. PICK e \in call[c].new :
          /\ call' = [call EXCEPT ![c] = IF call[c].new = {e} THEN Unasked
                                          ELSE [call[c] EXCEPT !.new = @ \ {e}]]
          /\ \/ tries' = [tries EXCEPT ![e] = @ + 1] /\ lost' = lost
             \/ lost' = lost \cup {e} /\ tries' = tries
    BY <1>7 DEF Send
  <2> DEFINE mine == IF call[c].new = {e} THEN Unasked
                     ELSE [call[c] EXCEPT !.new = @ \ {e}]
  <2>2. mine \in Evaluating /\ mine.new = call[c].new \ {e} /\ Orderly(mine)
    <3>1. call[c] \in Evaluating /\ Orderly(call[c]) /\ call[c].pc = "send"
      BY <1>0, <1>7 DEF AlertShape, Dispatching, Send
    <3> QED  BY <3>1 DEF Evaluating, Unasked, Orderly
  <2>3. call' = [call EXCEPT ![c] = mine]  BY <1>0, <2>1 DEF AlertShape
  <2> HIDE DEF mine
  <2>4. UNCHANGED <<present, known, twice, silenced>>  BY <1>7 DEF Send
  <2>5. tries' \in [Event -> Nat]
    BY <1>0, <2>1 DEF AlertShape
  <2>6. AlertShape' /\ Dispatching'
    BY <1>0, <2>2, <2>3, <2>4, <2>5, RecordShape DEF AlertShape
  <2>7. ASSUME NEW f \in Event \ Used' PROVE Owed(f)'
    <3>1. f \notin Used  BY <2>1, <2>4, <2>7 DEF Used
    <3>2. Owed(f)  BY <1>0, <3>1
    <3>3. CASE f = e
      <4>1. tries' = [tries EXCEPT ![e] = @ + 1]
        BY <2>1, <2>7, <3>3 DEF Used
      <4>2. /\ e \in known /\ tries[e] = 0
            /\ \A d \in Call \ {c} : e \notin call[d].new
        BY <2>1, <3>2, <3>3 DEF Owed
      <4>3. tries'[e] = 1  BY <1>0, <2>7, <3>3, <4>1, <4>2 DEF AlertShape
      <4>4. \A d \in Call : e \notin call'[d].new
        BY <1>0, <2>2, <2>3, <4>2 DEF AlertShape
      <4> QED  BY <3>3, <4>2, <4>3, <4>4, <2>4 DEF Owed
    <3>4. CASE f # e
      <4>1. tries'[f] = tries[f] /\ (f \in mine.new <=> f \in call[c].new)
        BY <1>0, <2>1, <2>2, <3>4 DEF AlertShape
      <4> QED  BY <1>0, <3>2, <4>1, <2>2, <2>3, <2>4, OwedAsBefore
    <3> QED  BY <3>3, <3>4
  <2> QED  BY <2>6, <2>7 DEF AlertInv
<1>8. CASE UNCHANGED alertVars
  <2>1. AlertShape' /\ Dispatching' /\ Used' = Used
    BY <1>0, <1>8 DEF alertVars, AlertShape, Dispatching, Used
  <2>2. \A e \in Event \ Used : Owed(e)'
    BY <1>0, <1>8 DEF alertVars, Owed
  <2> QED  BY <2>1, <2>2 DEF AlertInv
<1> QED  BY <1>1, <1>2, <1>3, <1>4, <1>5, <1>6, <1>7, <1>8 DEF AlertNext

(* For any number of requests and events: an event the process has met was *)
(* dispatched once since it started, unless one of the known races used it *)
(* up (evaluate_pass_alerts.py, execute).                                  *)
THEOREM AlertsSentOnce == AlertSpec => []SentOnce
<1>1. AlertInit => AlertInv  BY AlertInitially
<1>2. AlertInv /\ [AlertNext]_alertVars => AlertInv'  BY AlertStep
<1>3. AlertInv => SentOnce  BY AlertsOwed
<1> QED  BY <1>1, <1>2, <1>3, PTL DEF AlertSpec

-----------------------------------------------------------------------------
(***************************************************************************)
(* Tile downloads: no picture is put together from half a tile.            *)
(***************************************************************************)

Downloading == [at : Places, tries : Nat, image : Content, cached : BOOLEAN]

(* What a download holds when it saves is whole, whatever became of the     *)
(* cache, and the temporary file of its own that it renames is what it     *)
(* wrote there.                                                            *)
Holds(r, mine) ==
    /\ r.at \in {"save", "fill", "publish"} => r.image = "whole"
    /\ r.at = "publish" => mine = "whole"

TileInv ==
    /\ download \in [Download -> Downloading]
    /\ draft \in [Download -> Content]
    /\ \A d \in Download : Holds(download[d], draft[d])
    /\ PictureIntact

(* A download moves on and writes at most its own temporary file. *)
LEMMA DownloadMoves ==
    ASSUME TileInv, NEW d \in Download, NEW r \in Downloading, NEW mine \in Content,
           download' = [download EXCEPT ![d] = r], draft' = [draft EXCEPT ![d] = mine],
           Holds(r, mine), picture' \in {"none", "whole"}
    PROVE  TileInv'
<1>1. /\ download' \in [Download -> Downloading] /\ draft' \in [Download -> Content]
      /\ \A e \in Download : /\ download'[e] = (IF e = d THEN r ELSE download[e])
                             /\ draft'[e] = (IF e = d THEN mine ELSE draft[e])
  BY DEF TileInv
<1>2. \A e \in Download : Holds(download'[e], draft'[e])  BY <1>1 DEF TileInv
<1> QED  BY <1>1, <1>2 DEF TileInv, PictureIntact

(* The same when all that changes is where it is. *)
LEMMA DownloadGoes ==
    ASSUME TileInv, NEW d \in Download, NEW place \in Places, Go(d, place),
           draft' = draft, picture' \in {"none", "whole"},
           place \in {"save", "fill", "publish"} => download[d].image = "whole",
           place = "publish" => draft[d] = "whole"
    PROVE  TileInv'
<1>1. download[d] \in Downloading /\ draft[d] \in Content  BY DEF TileInv
<1>2. PICK r : r = [download[d] EXCEPT !.at = place]  OBVIOUS
<1>3. r \in Downloading /\ r.at = place /\ r.image = download[d].image
  BY <1>1, <1>2 DEF Downloading
<1>4. PICK mine \in Content : mine = draft[d]  BY <1>1
<1>5. download' = [download EXCEPT ![d] = r]  BY <1>2 DEF Go
<1>6. draft' = [draft EXCEPT ![d] = mine]  BY <1>4 DEF TileInv
<1>7. Holds(r, mine)  BY <1>3, <1>4 DEF Holds
<1> QED  BY <1>3, <1>5, <1>6, <1>7, DownloadMoves

LEMMA TileInitially == TileInit => TileInv
  BY DEF TileInit, TileInv, Downloading, Places, Content, Holds, PictureIntact, TileAssumption

LEMMA TileStep == TileInv /\ [TileNext]_tileVars => TileInv'
<1> SUFFICES ASSUME TileInv, [TileNext]_tileVars PROVE TileInv'
  OBVIOUS
<1>0. /\ \A d \in Download : /\ download[d] \in Downloading /\ draft[d] \in Content
                             /\ Holds(download[d], draft[d])
      /\ picture \in {"none", "whole"}
  BY DEF TileInv, PictureIntact
<1>1. ASSUME NEW d \in Download, LookInCache(d) PROVE TileInv'
  <2>1. CASE entry # NoInode /\ content[entry] = "whole"
    <3>1. PICK r : r = [download[d] EXCEPT !.at = "save", !.image = "whole", !.cached = TRUE]
      OBVIOUS
    <3>2. r \in Downloading /\ r.at = "save" /\ r.image = "whole"
      BY <1>0, <3>1 DEF Downloading, Places, Content
    <3>3. download' = [download EXCEPT ![d] = r] /\ UNCHANGED <<draft, picture>>
      BY <1>1, <2>1, <3>1 DEF LookInCache, SameOutput
    <3>4. draft' = [draft EXCEPT ![d] = draft[d]]  BY <3>3 DEF TileInv
    <3>5. PICK mine \in Content : mine = draft[d]  BY <1>0
    <3> QED  BY <1>0, <3>2, <3>3, <3>4, <3>5, DownloadMoves DEF Holds
  <2>2. CASE ~(entry # NoInode /\ content[entry] = "whole")
    <3>1. Go(d, "ask") /\ UNCHANGED <<draft, picture>>
      BY <1>1, <2>2 DEF LookInCache, SameOutput, Go, TileInv
    <3>2. "ask" \in Places  BY DEF Places
    <3> QED  BY <1>0, <3>1, <3>2, DownloadGoes
  <2> QED  BY <2>1, <2>2
<1>2. ASSUME NEW d \in Download, Answered(d) PROVE TileInv'
  <2>1. PICK image \in {"whole", "bad"} :
          download' = [download EXCEPT ![d].at = "set", ![d].image = image]
    BY <1>2 DEF Answered
  <2>2. PICK r : r = [download[d] EXCEPT !.at = "set", !.image = image]  OBVIOUS
  <2>3. r \in Downloading /\ r.at = "set"
    BY <1>0, <2>2 DEF Downloading, Places, Content
  <2>4. download' = [download EXCEPT ![d] = r]  BY <2>1, <2>2
  <2>5. UNCHANGED <<draft, picture>>  BY <1>2 DEF Answered, SameOutput
  <2>6. draft' = [draft EXCEPT ![d] = draft[d]]  BY <2>5 DEF TileInv
  <2>7. PICK mine \in Content : mine = draft[d]  BY <1>0
  <2> QED  BY <1>0, <2>3, <2>4, <2>5, <2>6, <2>7, DownloadMoves DEF Holds
<1>3. ASSUME NEW d \in Download, Unauthorised(d) \/ AttemptFails(d) PROVE TileInv'
  <2>1. UNCHANGED <<draft, picture>> /\ download[d].at = "ask"
    BY <1>3 DEF Unauthorised, AttemptFails, SameOutput
  <2>2. \/ Go(d, "failed")
        \/ download' = [download EXCEPT ![d].tries = @ + 1]
    BY <1>3 DEF Unauthorised, AttemptFails
  <2>3. CASE Go(d, "failed")
    <3>1. "failed" \in Places  BY DEF Places
    <3> QED  BY <1>0, <2>1, <2>3, <3>1, DownloadGoes
  <2>4. CASE download' = [download EXCEPT ![d].tries = @ + 1]
    <3>1. PICK n \in Nat : n = download[d].tries + 1  BY <1>0 DEF Downloading
    <3>2. PICK r : r = [download[d] EXCEPT !.tries = n]  OBVIOUS
    <3>3. r \in Downloading /\ r.at = "ask"  BY <1>0, <2>1, <3>1, <3>2 DEF Downloading
    <3>4. download' = [download EXCEPT ![d] = r]  BY <2>4, <3>1, <3>2
    <3>5. draft' = [draft EXCEPT ![d] = draft[d]]  BY <2>1 DEF TileInv
    <3>6. PICK mine \in Content : mine = draft[d]  BY <1>0
    <3> QED  BY <1>0, <2>1, <3>3, <3>4, <3>5, <3>6, DownloadMoves DEF Holds
  <2> QED  BY <2>2, <2>3, <2>4
<1>4. ASSUME NEW d \in Download, OpenEntry(d) \/ WriteEntry(d) \/ RenameEntry(d) \/ SetFails(d) \/ UnlinkEntry(d)
      PROVE  TileInv'
  <2>1. UNCHANGED <<draft, picture>>
        /\ (Go(d, "write") \/ Go(d, "rename") \/ Go(d, "unlink") \/ Go(d, "decode"))
    BY <1>4 DEF OpenEntry, WriteEntry, RenameEntry, SetFails, UnlinkEntry, SameOutput
  <2>2. {"write", "rename", "unlink", "decode"} \subseteq Places  BY DEF Places
  <2> QED  BY <1>0, <2>1, <2>2, DownloadGoes
<1>5. ASSUME NEW d \in Download, Decode(d) PROVE TileInv'
  <2>1. UNCHANGED <<draft, picture>>
        /\ Go(d, IF download[d].image = "whole" THEN "save" ELSE "failed")
    BY <1>5 DEF Decode, SameOutput
  <2>2. {"save", "failed"} \subseteq Places  BY DEF Places
  <2>3. CASE download[d].image = "whole"
    <3>1. Go(d, "save")  BY <2>1, <2>3
    <3> QED  BY <1>0, <2>1, <2>2, <2>3, <3>1, DownloadGoes
  <2>4. CASE download[d].image # "whole"
    <3>1. Go(d, "failed")  BY <2>1, <2>4
    <3> QED  BY <1>0, <2>1, <2>2, <3>1, DownloadGoes
  <2> QED  BY <2>3, <2>4
<1>6. ASSUME NEW d \in Download, MakeDraft(d) \/ FillDraft(d) PROVE TileInv'
  <2>1. /\ UNCHANGED picture
        /\ download[d].image = "whole"
        /\ \/ draft' = [draft EXCEPT ![d] = "torn"] /\ Go(d, "fill")
           \/ draft' = [draft EXCEPT ![d] = "whole"] /\ Go(d, "publish")
    BY <1>0, <1>6 DEF MakeDraft, FillDraft, Holds, DraftOf
  <2>2. PICK place \in {"fill", "publish"}, mine \in Content :
          /\ draft' = [draft EXCEPT ![d] = mine] /\ Go(d, place)
          /\ place = "publish" => mine = "whole"
    BY <2>1 DEF Content
  <2>3. PICK r : r = [download[d] EXCEPT !.at = place]  OBVIOUS
  <2>4. r \in Downloading /\ r.at = place /\ r.image = "whole"
    BY <1>0, <2>1, <2>3 DEF Downloading, Places
  <2>5. download' = [download EXCEPT ![d] = r]  BY <2>2, <2>3 DEF Go
  <2> QED  BY <1>0, <2>1, <2>2, <2>4, <2>5, DownloadMoves DEF Holds
<1>7. ASSUME NEW d \in Download, Publish(d) PROVE TileInv'
  <2>1. picture' = "whole" /\ draft' = draft /\ Go(d, "stitch")
    BY <1>0, <1>7 DEF Publish, Holds, DraftOf
  <2>2. "stitch" \in Places  BY DEF Places
  <2> QED  BY <2>1, <2>2, DownloadGoes
<1>8. ASSUME NEW d \in Download, SaveFails(d) PROVE TileInv'
  <2>1. UNCHANGED <<draft, picture>>  BY <1>8 DEF SaveFails, SameOutput
  <2>2. PICK place \in {"ask", "failed"} :
          download' = [download EXCEPT ![d].at = place, ![d].cached = FALSE]
    BY <1>8 DEF SaveFails
  <2>3. PICK r : r = [download[d] EXCEPT !.at = place, !.cached = FALSE]  OBVIOUS
  <2>4. r \in Downloading /\ r.at = place
    BY <1>0, <2>3 DEF Downloading, Places
  <2>5. download' = [download EXCEPT ![d] = r]  BY <2>2, <2>3
  <2>6. draft' = [draft EXCEPT ![d] = draft[d]]  BY <2>1 DEF TileInv
  <2>7. PICK mine \in Content : mine = draft[d]  BY <1>0
  <2> QED  BY <1>0, <2>1, <2>4, <2>5, <2>6, <2>7, DownloadMoves DEF Holds
<1>9. ASSUME NEW d \in Download, Stitch(d) PROVE TileInv'
  <2>1. picture' = "none" /\ draft' = draft /\ (Go(d, "failed") \/ Go(d, "done"))
    BY <1>9 DEF Stitch
  <2>2. {"failed", "done"} \subseteq Places  BY DEF Places
  <2> QED  BY <2>1, <2>2, DownloadGoes
<1>10. ASSUME NEW d \in Download, Die(d) PROVE TileInv'
  <2>1. UNCHANGED <<draft, picture>> /\ Go(d, "failed")  BY <1>10 DEF Die, SameOutput
  <2>2. "failed" \in Places  BY DEF Places
  <2> QED  BY <1>0, <2>1, <2>2, DownloadGoes
<1>11. CASE Lapse \/ UNCHANGED tileVars
  <2>1. UNCHANGED <<download, draft, picture>>
    BY <1>11 DEF Lapse, tileVars, SameOutput
  <2> QED  BY <2>1 DEF TileInv, PictureIntact
<1> QED
  BY <1>1, <1>2, <1>3, <1>4, <1>5, <1>6, <1>7, <1>8, <1>9, <1>10, <1>11 DEF TileNext

(* For any number of downloads of a tile, retries and failures: what a     *)
(* reader finds under the output path is a whole image, though the cache   *)
(* may hold a torn one (imagery/copernicus.py:188-223).                    *)
THEOREM PictureAlwaysIntact == TileSpec => []PictureIntact
<1>1. TileInit => TileInv  BY TileInitially
<1>2. TileInv /\ [TileNext]_tileVars => TileInv'  BY TileStep
<1>3. TileInv => PictureIntact  BY DEF TileInv
<1> QED  BY <1>1, <1>2, <1>3, PTL DEF TileSpec

-----------------------------------------------------------------------------
(***************************************************************************)
(* The analysis of scans: the catalogue follows the folders.               *)
(***************************************************************************)

ScanFolder == [exists : BOOLEAN, pictures : SUBSET Pictures,
               metadata : Metadata \cup {NoMetadata, Torn},
               results : Results \cup {NoResults, Torn}]

Analysing == [pc : Steps, scan : ScanId, copy : Metadata \cup {NoMetadata},
              risk : {"NOMINAL", "HIGH", "CRITICAL"}, alerted : BOOLEAN,
              ghosts : ScanId \cup {NoGhosts}, read : Results \cup {NoResults},
              persisted : BOOLEAN]

Renaming == [pc : {"idle", "write", "done"}, scan : ScanId,
             copy : Metadata \cup {NoMetadata}]

AnalysisShape ==
    /\ dir \in [ScanId -> ScanFolder]
    /\ analysis \in [Analysis -> Analysing]
    /\ rename \in [Renamer -> Renaming]
    /\ named \in [ScanId -> Renamer \cup {Nobody}]
    /\ last \in ScanId \cup {NoGhosts}

Excused == shared \cup removed \cup unsaved

(* Before and after an analysis has saved its results. *)
Before == {"mask", "detect", "correlate", "ghosts", "alert", "save", "overlay", "results"}
After == {"optical", "tag", "change", "compare", "map", "retag", "report", "draw", "persist"}

(* The catalogue entry agrees with the results; the results are those of a. *)
Agrees(f) ==
    /\ f.results = NoResults => f.metadata.cv = Nobody
    /\ f.results # NoResults =>
         f.metadata.cv = f.results.counts /\ f.results.counts = f.results.detections
ResultsOf(f, a) ==
    f.results \in Results /\ f.results.counts = a /\ f.results.detections = a

(* An analysis alone on its scan: what it has copied is what the file says, *)
(* until it has written it back.                                           *)
InStep(r, f, a) ==
    /\ r.pc \in Before => r.copy = f.metadata /\ Agrees(f)
    /\ r.pc \in After => r.copy = f.metadata /\ ResultsOf(f, a)
    /\ r.pc = "tag" => r.read = f.results
    /\ r.pc = "patch" => ResultsOf(f, a) /\ (r.persisted => f.metadata.cv = a)

WorksOn(r, s) == r.pc \notin {"idle", "done"} /\ r.scan = s
Renames(q, s) == q.pc = "write" /\ q.scan = s

Named(f, n) == f.exists /\ f.metadata \in Metadata /\ f.metadata.name = n

Catalogued(s, f, n, an, rn) ==
    /\ Named(f, n)
    /\ \A a, b \in Analysis : WorksOn(an[a], s) /\ WorksOn(an[b], s) => a = b
    /\ \A q, r \in Renamer : Renames(rn[q], s) /\ Renames(rn[r], s) => q = r
    /\ \A a \in Analysis, q \in Renamer : ~(WorksOn(an[a], s) /\ Renames(rn[q], s))
    /\ \A a \in Analysis : WorksOn(an[a], s) => InStep(an[a], f, a)
    /\ \A q \in Renamer : Renames(rn[q], s) => rn[q].copy = f.metadata
    /\ (\A a \in Analysis : ~WorksOn(an[a], s)) => Agrees(f)

(* An analysis has a copy to write back until it has written one, once. *)
Carries(r) ==
    /\ r.pc \notin {"patch", "done"} => r.persisted = FALSE
    /\ r.pc \in Before \cup After => r.copy \in Metadata

CatalogInv ==
    /\ AnalysisShape
    /\ \A a \in Analysis : Carries(analysis[a])
    /\ \A q \in Renamer : rename[q].pc = "write" => rename[q].copy \in Metadata
    /\ \A s \in ScanId \ Excused : Catalogued(s, dir[s], named[s], analysis, rename)

LEMMA CatalogFollows == CatalogInv => CatalogCurrent
<1> SUFFICES ASSUME CatalogInv, NEW s \in ScanId \ (shared \cup removed \cup unsaved),
                    Working(s) = {}
             PROVE  /\ dir[s].metadata.name = named[s]
                    /\ dir[s].results = NoResults => dir[s].metadata.cv = Nobody
                    /\ dir[s].results # NoResults =>
                         /\ dir[s].metadata.cv = dir[s].results.counts
                         /\ dir[s].results.counts = dir[s].results.detections
  BY DEF CatalogCurrent
<1>1. Catalogued(s, dir[s], named[s], analysis, rename)  BY DEF CatalogInv, Excused
<1>2. \A a \in Analysis : ~WorksOn(analysis[a], s)  BY DEF Working, WorksOn
<1>3. Agrees(dir[s]) /\ Named(dir[s], named[s])  BY <1>1, <1>2 DEF Catalogued
<1> QED  BY <1>3 DEF Agrees, Named

LEMMA CatalogInitially == AnalysisInit => CatalogInv
<1> SUFFICES ASSUME AnalysisInit PROVE CatalogInv
  OBVIOUS
<1>1. AnalysisShape
  <2>1. {[pc |-> "idle", scan |-> s, copy |-> NoMetadata, risk |-> "NOMINAL",
          alerted |-> FALSE, ghosts |-> NoGhosts, read |-> NoResults,
          persisted |-> FALSE] : s \in ScanId} \subseteq Analysing
    <3>1. \A s \in ScanId :
             [pc |-> "idle", scan |-> s, copy |-> NoMetadata, risk |-> "NOMINAL",
              alerted |-> FALSE, ghosts |-> NoGhosts, read |-> NoResults,
              persisted |-> FALSE] \in Analysing
      BY DEF Analysing, Steps
    <3> QED  BY <3>1, Zenon
  <2>2. analysis \in [Analysis -> Analysing]
    <3>1. \A S, T : S \subseteq T => [Analysis -> S] \subseteq [Analysis -> T]  OBVIOUS
    <3> QED  BY <2>1, <3>1, Zenon DEF AnalysisInit
  <2>3. {[pc |-> "idle", scan |-> s, copy |-> NoMetadata] : s \in ScanId} \subseteq Renaming
    BY DEF Renaming
  <2>4. rename \in [Renamer -> Renaming]
    <3>1. \A S, T : S \subseteq T => [Renamer -> S] \subseteq [Renamer -> T]  OBVIOUS
    <3> QED  BY <2>3, <3>1, Zenon DEF AnalysisInit
  <2>5. dir \in [ScanId -> ScanFolder]
    BY DEF AnalysisInit, ScanFolder, Metadata, Pictures
  <2> QED  BY <2>2, <2>4, <2>5 DEF AnalysisInit, AnalysisShape
<1>2. /\ \A a \in Analysis : analysis[a].pc = "idle" /\ analysis[a].persisted = FALSE
      /\ \A q \in Renamer : rename[q].pc = "idle"
  BY DEF AnalysisInit
<1>3. \A s \in ScanId : Named(dir[s], named[s]) /\ Agrees(dir[s])
  BY DEF AnalysisInit, Named, Agrees, Metadata
<1> QED  BY <1>1, <1>2, <1>3 DEF CatalogInv, Carries, Before, After, Catalogued, WorksOn, Renames

(* An analysis that moves on concerns its own scan only, and there it is   *)
(* alone or the scan is excused.                                           *)
LEMMA AnalystMoves ==
    ASSUME CatalogInv, NEW a \in Analysis, NEW r \in Analysing, NEW f \in ScanFolder,
           analysis' = [analysis EXCEPT ![a] = r],
           dir' = [dir EXCEPT ![analysis[a].scan] = f],
           UNCHANGED <<rename, named>>, last' \in ScanId \cup {NoGhosts},
           analysis[a].pc \notin {"idle", "done"}, r.pc # "idle",
           r.scan = analysis[a].scan, Carries(r),
           Excused \subseteq Excused',
           /\ analysis[a].scan \notin Excused'
           /\ Named(dir[analysis[a].scan], named[analysis[a].scan])
           /\ InStep(analysis[a], dir[analysis[a].scan], a)
           => /\ Named(f, named[analysis[a].scan])
              /\ r.pc = "done" => Agrees(f)
              /\ r.pc # "done" => InStep(r, f, a)
    PROVE  CatalogInv'
<1>0. /\ AnalysisShape
      /\ \A b \in Analysis : Carries(analysis[b])
      /\ \A q \in Renamer : rename[q].pc = "write" => rename[q].copy \in Metadata
      /\ \A s \in ScanId \ Excused : Catalogued(s, dir[s], named[s], analysis, rename)
  BY DEF CatalogInv
<1>1. /\ analysis' \in [Analysis -> Analysing]
      /\ \A b \in Analysis : b # a => analysis'[b] = analysis[b]
      /\ analysis'[a] = r
  BY <1>0 DEF AnalysisShape
<1>2. PICK t \in ScanId : t = analysis[a].scan  BY <1>0 DEF AnalysisShape, Analysing
<1>3. /\ dir' \in [ScanId -> ScanFolder]
      /\ \A s \in ScanId : s # t => dir'[s] = dir[s]
      /\ dir'[t] = f
  BY <1>0, <1>2 DEF AnalysisShape
<1>4. AnalysisShape'  BY <1>0, <1>1, <1>3 DEF AnalysisShape
<1>5. \A b \in Analysis : Carries(analysis'[b])  BY <1>0, <1>1
<1>6. ASSUME NEW s \in ScanId \ Excused', s # t
      PROVE  Catalogued(s, dir'[s], named[s], analysis', rename)
  <2>1. Catalogued(s, dir[s], named[s], analysis, rename)  BY <1>0, <1>6
  <2>2. \A b \in Analysis : WorksOn(analysis[b], s) <=> WorksOn(analysis'[b], s)
    <3>1. ~WorksOn(analysis[a], s) /\ ~WorksOn(analysis'[a], s)
      BY <1>1, <1>2, <1>6 DEF WorksOn
    <3> QED  BY <1>1, <3>1
  <2>3. \A b \in Analysis : WorksOn(analysis'[b], s) => analysis'[b] = analysis[b]
    <3>1. ~WorksOn(analysis'[a], s)  BY <1>1, <1>2, <1>6 DEF WorksOn
    <3> QED  BY <1>1, <3>1
  <2>4. dir'[s] = dir[s]  BY <1>3, <1>6
  <2> QED  BY <2>1, <2>2, <2>3, <2>4 DEF Catalogued
<1>7. ASSUME t \notin Excused'
      PROVE  Catalogued(t, dir'[t], named[t], analysis', rename)
  <2>1. Catalogued(t, dir[t], named[t], analysis, rename)  BY <1>0, <1>7
  <2>2. WorksOn(analysis[a], t)  BY <1>2 DEF WorksOn
  <2>3. /\ \A b \in Analysis : b # a => ~WorksOn(analysis[b], t)
        /\ \A q \in Renamer : ~Renames(rename[q], t)
    BY <2>1, <2>2 DEF Catalogued
  <2>4. /\ Named(f, named[t])
        /\ r.pc = "done" => Agrees(f)
        /\ r.pc # "done" => InStep(r, f, a)
    BY <1>2, <1>7, <2>1, <2>2 DEF Catalogued
  <2>5. WorksOn(r, t) <=> r.pc # "done"  BY <1>2 DEF WorksOn
  <2>6. \A b \in Analysis : WorksOn(analysis'[b], t) => b = a  BY <1>1, <2>3
  <2>7. (\A b \in Analysis : ~WorksOn(analysis'[b], t)) => Agrees(f)
    BY <1>1, <2>4, <2>5
  <2>8. \A b \in Analysis : WorksOn(analysis'[b], t) => InStep(analysis'[b], f, b)
    BY <1>1, <2>4, <2>5, <2>6
  <2> QED  BY <1>3, <2>3, <2>4, <2>6, <2>7, <2>8 DEF Catalogued
<1>8. \A s \in ScanId \ Excused' : Catalogued(s, dir'[s], named'[s], analysis', rename')
  BY <1>6, <1>7
<1> QED  BY <1>0, <1>4, <1>5, <1>8 DEF CatalogInv

(* The steps that leave metadata and results alone. *)
LEMMA AnalystGoes ==
    ASSUME CatalogInv, NEW a \in Analysis, NEW r \in Analysing, NEW f \in ScanFolder,
           analysis' = [analysis EXCEPT ![a] = r],
           dir' = [dir EXCEPT ![analysis[a].scan] = f],
           UNCHANGED <<rename, named>>, last' \in ScanId \cup {NoGhosts},
           r.scan = analysis[a].scan, r.copy = analysis[a].copy,
           r.persisted = analysis[a].persisted,
           f.metadata = dir[analysis[a].scan].metadata,
           f.results = dir[analysis[a].scan].results,
           dir[analysis[a].scan].exists => f.exists,
           \/ analysis[a].pc \in Before /\ r.pc \in Before
           \/ analysis[a].pc \in After /\ r.pc \in After,
           r.pc = "tag" => r.read = f.results \/ f.results \notin Results,
           Excused \subseteq Excused'
    PROVE  CatalogInv'
<1>1. Carries(analysis[a])  BY DEF CatalogInv
<1>2. Carries(r)  BY <1>1 DEF Carries, Before, After
<1>3. analysis[a].pc \notin {"idle", "done"} /\ r.pc \notin {"idle", "done"}
  BY DEF Before, After
<1>4. InStep(analysis[a], dir[analysis[a].scan], a) => InStep(r, f, a)
  BY DEF InStep, Before, After, Agrees, ResultsOf
<1>5. Named(dir[analysis[a].scan], named[analysis[a].scan]) => Named(f, named[analysis[a].scan])
  <2>1. f.exists \in BOOLEAN  BY DEF ScanFolder
  <2> QED  BY <2>1 DEF Named
<1> QED  BY <1>2, <1>3, <1>4, <1>5, AnalystMoves

LEMMA CatalogStep == CatalogInv /\ [AnalysisNext]_analysisVars => CatalogInv'
<1> SUFFICES ASSUME CatalogInv, [AnalysisNext]_analysisVars PROVE CatalogInv'
  OBVIOUS
<1>0. /\ AnalysisShape
      /\ \A a \in Analysis : Carries(analysis[a])
      /\ \A q \in Renamer : rename[q].pc = "write" => rename[q].copy \in Metadata
      /\ \A s \in ScanId \ Excused : Catalogued(s, dir[s], named[s], analysis, rename)
      /\ \A a \in Analysis : analysis[a] \in Analysing
      /\ \A s \in ScanId : dir[s] \in ScanFolder
  BY DEF CatalogInv, AnalysisShape
<1>S. \A s \in ScanId : dir = [dir EXCEPT ![s] = dir[s]]
  BY <1>0 DEF AnalysisShape
(* A request starts: it is alone on its scan, or the scan is shared. *)
<1>J. ASSUME NEW s \in ScanId, Join(s), UNCHANGED <<removed, unsaved>>
      PROVE  /\ Excused \subseteq Excused'
             /\ s \notin Excused' => /\ \A a \in Analysis : ~WorksOn(analysis[a], s)
                                    /\ \A q \in Renamer : ~Renames(rename[q], s)
  BY <1>J DEF Join, Excused, Working, WorksOn, Renames
<1>1. ASSUME NEW a \in Analysis, Begin(a) PROVE CatalogInv'
  <2>1. PICK t \in ScanId : t = analysis[a].scan  BY <1>0 DEF Analysing
  <2>a. PICK q \in Analysing : q = analysis[a]  BY <1>0
  <2>b. PICK copy \in Metadata : copy = dir[t].metadata
    BY <1>1, <2>1 DEF Begin, Listed
  <2>2. PICK r : r = [q EXCEPT !.pc = "mask", !.copy = copy]  OBVIOUS
  <2>3. /\ analysis' = [analysis EXCEPT ![a] = r] /\ Join(t)
        /\ UNCHANGED <<dir, last, rename, named, removed, unsaved>> /\ analysis[a].pc = "idle"
    BY <1>1, <2>1, <2>a, <2>b, <2>2 DEF Begin, At
  <2>c. /\ r \in Analysing /\ r.pc = "mask" /\ r.scan = q.scan /\ r.copy = copy
        /\ r.persisted = q.persisted
    BY <2>2 DEF Analysing, Steps
  <2>4. /\ r \in Analysing /\ r.pc = "mask" /\ r.scan = t /\ r.copy = dir[t].metadata
        /\ r.persisted = analysis[a].persisted
    BY <2>1, <2>a, <2>b, <2>c
  <2>5. /\ analysis' \in [Analysis -> Analysing]
        /\ \A b \in Analysis : b # a => analysis'[b] = analysis[b]
        /\ analysis'[a] = r
    BY <1>0, <2>3, <2>4 DEF AnalysisShape
  <2>6. AnalysisShape'  BY <1>0, <2>3, <2>5 DEF AnalysisShape
  <2>7. \A b \in Analysis : Carries(analysis'[b])
    <3>1. Carries(r)  BY <1>0, <2>3, <2>4, <2>b DEF Carries
    <3> QED  BY <1>0, <2>5, <3>1
  <2>8. ASSUME NEW s \in ScanId \ Excused'
        PROVE  Catalogued(s, dir[s], named[s], analysis', rename)
    <3>1. Excused \subseteq Excused'  BY <1>J, <2>3
    <3>2. Catalogued(s, dir[s], named[s], analysis, rename)  BY <1>0, <2>8, <3>1
    <3>3. CASE s = t
      <4>1. /\ \A b \in Analysis : ~WorksOn(analysis[b], t)
            /\ \A o \in Renamer : ~Renames(rename[o], t)
        BY <1>J, <2>3, <2>8, <3>3
      <4>2. Agrees(dir[t]) /\ Named(dir[t], named[t])  BY <3>2, <3>3, <4>1 DEF Catalogued
      <4>3. InStep(r, dir[t], a)
        BY <2>4, <4>2 DEF InStep, Before, After
      <4>4. WorksOn(r, t)  BY <2>4 DEF WorksOn
      <4>5. \A b \in Analysis : WorksOn(analysis'[b], t) => b = a  BY <2>5, <4>1
      <4>6. /\ \A b \in Analysis : WorksOn(analysis'[b], t) => InStep(analysis'[b], dir[t], b)
            /\ \E b \in Analysis : WorksOn(analysis'[b], t)
        BY <2>5, <4>3, <4>4, <4>5
      <4> QED  BY <3>3, <4>1, <4>2, <4>5, <4>6 DEF Catalogued
    <3>4. CASE s # t
      <4>1. ~WorksOn(analysis[a], s) /\ ~WorksOn(r, s)
        BY <2>1, <2>4, <3>4 DEF WorksOn
      <4>2. \A b \in Analysis :
              /\ WorksOn(analysis'[b], s) <=> WorksOn(analysis[b], s)
              /\ WorksOn(analysis'[b], s) => analysis'[b] = analysis[b]
        BY <2>5, <4>1
      <4>3. \A b \in Analysis : WorksOn(analysis'[b], s) => InStep(analysis'[b], dir[s], b)
        BY <3>2, <4>2 DEF Catalogued
      <4> QED  BY <3>2, <4>2, <4>3 DEF Catalogued
    <3> QED  BY <3>3, <3>4
  <2>9. \A s \in ScanId \ Excused' : Catalogued(s, dir'[s], named'[s], analysis', rename')
    BY <2>3, <2>8
  <2> QED  BY <1>0, <2>3, <2>6, <2>7, <2>9 DEF CatalogInv
(* What the steps of an analysis have in common. *)
<1>G. ASSUME NEW a \in Analysis, UNCHANGED <<rename, named, shared, removed>>,
             unsaved \subseteq unsaved', last' \in ScanId \cup {NoGhosts},
             \E r \in Analysing, f \in ScanFolder :
                /\ analysis' = [analysis EXCEPT ![a] = r]
                /\ dir' = [dir EXCEPT ![analysis[a].scan] = f]
                /\ r.scan = analysis[a].scan /\ r.copy = analysis[a].copy
                /\ r.persisted = analysis[a].persisted
                /\ f.metadata = dir[analysis[a].scan].metadata
                /\ f.results = dir[analysis[a].scan].results
                /\ dir[analysis[a].scan].exists => f.exists
                /\ \/ analysis[a].pc \in Before /\ r.pc \in Before
                   \/ analysis[a].pc \in After /\ r.pc \in After
                /\ r.pc = "tag" => r.read = f.results \/ f.results \notin Results
      PROVE  CatalogInv'
  <2>1. Excused \subseteq Excused'  BY <1>G DEF Excused
  <2> QED  BY <1>G, <2>1, AnalystGoes
<1>D. ASSUME NEW s \in ScanId,
             \/ dir' = dir
             \/ dir' = [dir EXCEPT ![s].exists = TRUE]
             \/ \E drawn \in Pictures :
                   dir' = [dir EXCEPT ![s].exists = TRUE, ![s].pictures = @ \cup {drawn}]
             \/ dir' = [dir EXCEPT ![s].pictures = @ \cup {"drawing"}]
      PROVE  \E f \in ScanFolder :
                /\ dir' = [dir EXCEPT ![s] = f]
                /\ f.metadata = dir[s].metadata /\ f.results = dir[s].results
                /\ dir[s].exists => f.exists
  <2>1. PICK g \in ScanFolder : g = dir[s]  BY <1>0 DEF AnalysisShape
  <2>2. CASE dir' = dir
    <3>1. dir' = [dir EXCEPT ![s] = g]  BY <1>S, <2>1, <2>2
    <3> QED  BY <2>1, <3>1
  <2>3. CASE dir' = [dir EXCEPT ![s].exists = TRUE]
    <3>1. PICK f : f = [g EXCEPT !.exists = TRUE]  OBVIOUS
    <3>2. f \in ScanFolder /\ f.metadata = g.metadata /\ f.results = g.results /\ f.exists
      BY <3>1 DEF ScanFolder
    <3>3. dir' = [dir EXCEPT ![s] = f]  BY <2>1, <2>3, <3>1
    <3> QED  BY <2>1, <3>2, <3>3
  <2>4. ASSUME NEW drawn \in Pictures,
               dir' = [dir EXCEPT ![s].exists = TRUE, ![s].pictures = @ \cup {drawn}]
        PROVE  \E f \in ScanFolder :
                  /\ dir' = [dir EXCEPT ![s] = f]
                  /\ f.metadata = dir[s].metadata /\ f.results = dir[s].results
                  /\ dir[s].exists => f.exists
    <3>1. PICK pictures : pictures = g.pictures \cup {drawn}  OBVIOUS
    <3>2. PICK f : f = [g EXCEPT !.exists = TRUE, !.pictures = pictures]  OBVIOUS
    <3>3. f \in ScanFolder /\ f.metadata = g.metadata /\ f.results = g.results /\ f.exists
      BY <3>1, <3>2 DEF ScanFolder
    <3>4. dir' = [dir EXCEPT ![s] = f]  BY <2>1, <2>4, <3>1, <3>2
    <3> QED  BY <2>1, <3>3, <3>4
  <2>5. CASE dir' = [dir EXCEPT ![s].pictures = @ \cup {"drawing"}]
    <3>1. PICK pictures : pictures = g.pictures \cup {"drawing"}  OBVIOUS
    <3>2. PICK f : f = [g EXCEPT !.pictures = pictures]  OBVIOUS
    <3>3. /\ f \in ScanFolder /\ f.metadata = g.metadata /\ f.results = g.results
          /\ f.exists = g.exists
      BY <3>1, <3>2 DEF ScanFolder, Pictures
    <3>4. dir' = [dir EXCEPT ![s] = f]  BY <2>1, <2>5, <3>1, <3>2
    <3> QED  BY <2>1, <3>3, <3>4
  <2> QED  BY <1>D, <2>2, <2>3, <2>4, <2>5
<1>2. ASSUME NEW a \in Analysis, MaskLand(a) PROVE CatalogInv'
  <2>1. PICK q \in Analysing : q = analysis[a]  BY <1>0
  <2>2. q.scan \in ScanId  BY DEF Analysing
  <2>3. PICK f \in ScanFolder :
          /\ dir' = [dir EXCEPT ![q.scan] = f]
          /\ f.metadata = dir[q.scan].metadata /\ f.results = dir[q.scan].results
          /\ dir[q.scan].exists => f.exists
    BY <1>2, <1>D, <2>1, <2>2 DEF MaskLand, Draw, MakeFolder, Pictures
  <2>4. PICK r : r = [q EXCEPT !.pc = "detect"]  OBVIOUS
  <2>5. /\ r \in Analysing /\ r.pc = "detect" /\ r.scan = q.scan /\ r.copy = q.copy
        /\ r.persisted = q.persisted
    BY <2>4 DEF Analysing, Steps
  <2>6. /\ analysis' = [analysis EXCEPT ![a] = r] /\ q.pc = "mask"
        /\ UNCHANGED <<rename, named, shared, removed, unsaved, last>>
    BY <1>2, <2>1, <2>4 DEF MaskLand, Goto, At
  <2>7. q.pc \in Before /\ r.pc \in Before /\ r.pc # "tag"  BY <2>5, <2>6 DEF Before
  <2>8. last' \in ScanId \cup {NoGhosts}  BY <1>0, <2>6 DEF AnalysisShape
  <2> QED  BY <1>G, <2>1, <2>3, <2>5, <2>6, <2>7, <2>8
(* The steps before the results are saved that write no file. *)
<1>3. ASSUME NEW a \in Analysis, Detect(a) \/ Correlate(a) \/ ReadGhosts(a) \/ Alert(a)
      PROVE  CatalogInv'
  <2>1. PICK q \in Analysing : q = analysis[a]  BY <1>0
  <2>2. /\ q.pc \in {"detect", "correlate", "ghosts", "alert"}
        /\ UNCHANGED <<dir, rename, named, shared, removed, unsaved>>
    BY <1>3, <2>1 DEF Detect, Correlate, ReadGhosts, Alert, At
  <2>3. last' \in ScanId \cup {NoGhosts}
    BY <1>0, <1>3, <2>1 DEF Detect, Correlate, ReadGhosts, Alert, AnalysisShape, Analysing
  <2>4. \E r \in Analysing :
          /\ analysis' = [analysis EXCEPT ![a] = r]
          /\ r.pc \in {"correlate", "alert", "ghosts", "save"}
          /\ r.scan = q.scan /\ r.copy = q.copy /\ r.persisted = q.persisted
    <3>1. ASSUME NEW pc \in {"correlate", "alert"}, Goto(a, pc)
          PROVE  \E r \in Analysing :
                    /\ analysis' = [analysis EXCEPT ![a] = r]
                    /\ r.pc \in {"correlate", "alert", "ghosts", "save"}
                    /\ r.scan = q.scan /\ r.copy = q.copy /\ r.persisted = q.persisted
      <4>1. PICK r : r = [q EXCEPT !.pc = pc]  OBVIOUS
      <4>2. /\ r \in Analysing /\ r.pc = pc /\ r.scan = q.scan /\ r.copy = q.copy
            /\ r.persisted = q.persisted
        BY <4>1 DEF Analysing, Steps
      <4>3. analysis' = [analysis EXCEPT ![a] = r]  BY <2>1, <3>1, <4>1 DEF Goto
      <4> QED  BY <4>2, <4>3
    <3>2. CASE Detect(a)  BY <3>1, <3>2 DEF Detect
    <3>3. CASE Correlate(a)
      <4>1. CASE Goto(a, "alert")  BY <3>1, <4>1
      <4>2. ASSUME NEW level \in DarkRisk,
                   analysis' = [analysis EXCEPT ![a].pc = "ghosts", ![a].risk = level]
            PROVE  \E r \in Analysing :
                      /\ analysis' = [analysis EXCEPT ![a] = r]
                      /\ r.pc \in {"correlate", "alert", "ghosts", "save"}
                      /\ r.scan = q.scan /\ r.copy = q.copy /\ r.persisted = q.persisted
        <5>1. PICK r : r = [q EXCEPT !.pc = "ghosts", !.risk = level]  OBVIOUS
        <5>2. level \in {"NOMINAL", "HIGH", "CRITICAL"}  BY AnalysisAssumption
        <5>3. /\ r \in Analysing /\ r.pc = "ghosts" /\ r.scan = q.scan /\ r.copy = q.copy
              /\ r.persisted = q.persisted
          BY <5>1, <5>2 DEF Analysing, Steps
        <5>4. analysis' = [analysis EXCEPT ![a] = r]  BY <2>1, <4>2, <5>1
        <5> QED  BY <5>3, <5>4
      <4> QED  BY <3>3, <4>1, <4>2 DEF Correlate
    <3>4. CASE ReadGhosts(a)
      <4>1. PICK own \in ScanId \cup {NoGhosts} : own = last
        BY <1>0 DEF AnalysisShape
      <4>2. PICK r : r = [q EXCEPT !.pc = "alert", !.ghosts = own]  OBVIOUS
      <4>3. /\ r \in Analysing /\ r.pc = "alert" /\ r.scan = q.scan /\ r.copy = q.copy
            /\ r.persisted = q.persisted
        BY <4>2 DEF Analysing, Steps
      <4>4. analysis' = [analysis EXCEPT ![a] = r]  BY <2>1, <3>4, <4>1, <4>2 DEF ReadGhosts
      <4> QED  BY <4>3, <4>4
    <3>5. CASE Alert(a)
      <4>1. PICK breach \in BOOLEAN :
              analysis' = [analysis EXCEPT ![a].pc = "save", ![a].alerted = AlertDue(a, breach)]
        BY <3>5 DEF Alert
      <4>2. PICK alerted : alerted = AlertDue(a, breach)  OBVIOUS
      <4>3. alerted \in BOOLEAN  BY <4>2 DEF AlertDue
      <4>4. PICK r : r = [q EXCEPT !.pc = "save", !.alerted = alerted]  OBVIOUS
      <4>5. /\ r \in Analysing /\ r.pc = "save" /\ r.scan = q.scan /\ r.copy = q.copy
            /\ r.persisted = q.persisted
        BY <4>3, <4>4 DEF Analysing, Steps
      <4>6. analysis' = [analysis EXCEPT ![a] = r]  BY <2>1, <4>1, <4>2, <4>4
      <4> QED  BY <4>5, <4>6
    <3> QED  BY <1>3, <3>2, <3>3, <3>4, <3>5
  <2>5. PICK r \in Analysing :
          /\ analysis' = [analysis EXCEPT ![a] = r]
          /\ r.pc \in {"correlate", "alert", "ghosts", "save"}
          /\ r.scan = q.scan /\ r.copy = q.copy /\ r.persisted = q.persisted
    BY <2>4
  <2>6. q.scan \in ScanId  BY DEF Analysing
  <2>7. PICK f \in ScanFolder : f = dir[q.scan]  BY <1>0, <2>6 DEF AnalysisShape
  <2>8. dir' = [dir EXCEPT ![q.scan] = f]  BY <1>S, <2>2, <2>6, <2>7
  <2>9. q.pc \in Before /\ r.pc \in Before /\ r.pc # "tag"  BY <2>2, <2>5 DEF Before
  <2> QED  BY <1>G, <2>1, <2>2, <2>3, <2>5, <2>7, <2>8, <2>9
(* The image is read and the overlay drawn: the folder may be made again. *)
<1>15. ASSUME NEW a \in Analysis, OpenImage(a) \/ DrawOverlay(a) PROVE CatalogInv'
  <2>1. PICK q \in Analysing : q = analysis[a]  BY <1>0
  <2>2. q.scan \in ScanId  BY DEF Analysing
  <2>3. PICK f \in ScanFolder :
          /\ dir' = [dir EXCEPT ![q.scan] = f]
          /\ f.metadata = dir[q.scan].metadata /\ f.results = dir[q.scan].results
          /\ dir[q.scan].exists => f.exists
    <3>1. \/ dir' = dir
          \/ dir' = [dir EXCEPT ![q.scan].exists = TRUE]
          \/ dir' = [dir EXCEPT ![q.scan].pictures = @ \cup {"drawing"}]
      BY <1>15, <2>1 DEF OpenImage, DrawOverlay, Overlay, MakeFolder
    <3> QED  BY <1>D, <2>2, <3>1
  <2>4. /\ UNCHANGED <<rename, named, shared, removed, unsaved, last>>
        /\ q.pc \in {"save", "overlay"}
    BY <1>15, <2>1 DEF OpenImage, DrawOverlay, At
  <2>5. PICK r \in Analysing :
          /\ analysis' = [analysis EXCEPT ![a] = r]
          /\ r.pc \in {"overlay", "results"}
          /\ r.scan = q.scan /\ r.copy = q.copy /\ r.persisted = q.persisted
    <3>1. CASE OpenImage(a)
      <4>1. PICK pc \in {"overlay", "results"} :
              analysis' = [analysis EXCEPT ![a].risk = "NOMINAL", ![a].alerted = FALSE,
                                           ![a].pc = pc]
        BY <3>1 DEF OpenImage
      <4>2. PICK r : r = [q EXCEPT !.risk = "NOMINAL", !.alerted = FALSE, !.pc = pc]
        OBVIOUS
      <4>3. /\ r \in Analysing /\ r.pc = pc /\ r.scan = q.scan /\ r.copy = q.copy
            /\ r.persisted = q.persisted
        BY <4>2 DEF Analysing, Steps
      <4>4. analysis' = [analysis EXCEPT ![a] = r]  BY <2>1, <4>1, <4>2
      <4> QED  BY <4>3, <4>4
    <3>2. CASE DrawOverlay(a)
      <4>1. PICK r : r = [q EXCEPT !.pc = "results"]  OBVIOUS
      <4>2. /\ r \in Analysing /\ r.pc = "results" /\ r.scan = q.scan /\ r.copy = q.copy
            /\ r.persisted = q.persisted
        BY <4>1 DEF Analysing, Steps
      <4>3. analysis' = [analysis EXCEPT ![a] = r]  BY <2>1, <3>2, <4>1 DEF DrawOverlay, Goto
      <4> QED  BY <4>2, <4>3
    <3> QED  BY <1>15, <3>1, <3>2
  <2>6. q.pc \in Before /\ r.pc \in Before /\ r.pc # "tag"  BY <2>4, <2>5 DEF Before
  <2>7. last' \in ScanId \cup {NoGhosts}  BY <1>0, <2>4 DEF AnalysisShape
  <2> QED  BY <1>G, <2>1, <2>3, <2>4, <2>5, <2>6, <2>7
(* A step that cuts the results short excuses the scan. *)
<1>C. ASSUME NEW s \in ScanId, CutResults(s)
      PROVE  \E f \in ScanFolder : dir' = [dir EXCEPT ![s] = f] /\ s \in unsaved'
  <2>1. PICK g \in ScanFolder : g = dir[s]  BY <1>0
  <2>2. PICK f : f = [g EXCEPT !.results = Torn]  OBVIOUS
  <2>3. f \in ScanFolder  BY <2>2 DEF ScanFolder
  <2>4. dir' = [dir EXCEPT ![s] = f]  BY <1>C, <2>1, <2>2 DEF CutResults
  <2> QED  BY <1>C, <2>3, <2>4 DEF CutResults
(* The results of the analysis are saved, or the scan is excused. *)
<1>4. ASSUME NEW a \in Analysis, SaveDetections(a) PROVE CatalogInv'
  <2>1. PICK q \in Analysing : q = analysis[a]  BY <1>0
  <2>2. q.scan \in ScanId  BY DEF Analysing
  <2>3. PICK g \in ScanFolder : g = dir[q.scan]  BY <1>0, <2>2
  <2>4. PICK r : r = [q EXCEPT !.pc = "optical", !.ghosts = NoGhosts]  OBVIOUS
  <2>5. /\ r \in Analysing /\ r.pc = "optical" /\ r.scan = q.scan /\ r.copy = q.copy
        /\ r.persisted = q.persisted
    BY <2>4 DEF Analysing, Steps
  <2>6. /\ analysis' = [analysis EXCEPT ![a] = r] /\ q.pc = "results"
        /\ UNCHANGED <<rename, named, shared, removed, last>>
    BY <1>4, <2>1, <2>4 DEF SaveDetections, At
  <2>7. last' \in ScanId \cup {NoGhosts}  BY <1>0, <2>6 DEF AnalysisShape
  <2>8. Carries(r)
    <3>1. Carries(q)  BY <1>0, <2>1
    <3> QED  BY <2>5, <2>6, <3>1 DEF Carries, Before, After
  <2>9. CASE /\ dir' = [dir EXCEPT ![q.scan].results =
                            [counts |-> a, detections |-> a, ghosts |-> q.ghosts]]
             /\ UNCHANGED unsaved
    <3>1. PICK results : results = [counts |-> a, detections |-> a, ghosts |-> q.ghosts]
      OBVIOUS
    <3>2. results \in Results /\ results.counts = a /\ results.detections = a
      BY <3>1 DEF Analysing, Results
    <3>3. PICK f : f = [g EXCEPT !.results = results]  OBVIOUS
    <3>4. /\ f \in ScanFolder /\ f.exists = g.exists /\ f.results = results
          /\ f.metadata = g.metadata
      BY <3>2, <3>3 DEF ScanFolder
    <3>5. dir' = [dir EXCEPT ![q.scan] = f]  BY <2>3, <2>9, <3>1, <3>3
    <3>6. InStep(q, g, a) => InStep(r, f, a)
      BY <2>5, <2>6, <3>2, <3>4 DEF InStep, Before, After, ResultsOf
    <3>7. \A n : Named(g, n) => Named(f, n)  BY <3>4 DEF Named
    <3>8. Excused \subseteq Excused'  BY <2>6, <2>9 DEF Excused
    <3> QED  BY <2>1, <2>3, <2>5, <2>6, <2>7, <2>8, <3>4, <3>5, <3>6, <3>7, <3>8, AnalystMoves
  <2>10. CASE dir' = dir /\ unsaved' = unsaved \cup {q.scan}
    <3>1. dir' = [dir EXCEPT ![q.scan] = g]  BY <1>S, <2>2, <2>3, <2>10
    <3>2. Excused \subseteq Excused' /\ q.scan \in Excused'  BY <2>6, <2>10 DEF Excused
    <3> QED  BY <2>1, <2>5, <2>6, <2>7, <2>8, <3>1, <3>2, AnalystMoves
  <2>11. CASE CutResults(q.scan)
    <3>1. PICK f \in ScanFolder : dir' = [dir EXCEPT ![q.scan] = f]  BY <1>C, <2>2, <2>11
    <3>2. Excused \subseteq Excused' /\ q.scan \in Excused'
      BY <2>6, <2>11 DEF Excused, CutResults
    <3> QED  BY <2>1, <2>5, <2>6, <2>7, <2>8, <3>1, <3>2, AnalystMoves
  <2> QED  BY <1>4, <2>1, <2>9, <2>10, <2>11 DEF SaveDetections
(* The steps after the results are saved that change no results. *)
<1>5. ASSUME NEW a \in Analysis, ReadForOptical(a) PROVE CatalogInv'
  <2>1. PICK q \in Analysing : q = analysis[a]  BY <1>0
  <2>2. q.scan \in ScanId  BY DEF Analysing
  <2>3. PICK f \in ScanFolder : f = dir[q.scan]  BY <1>0, <2>2
  <2>4. dir' = [dir EXCEPT ![q.scan] = f]  BY <1>5, <1>S, <2>2, <2>3 DEF ReadForOptical
  <2>5. /\ q.pc = "optical" /\ last' \in ScanId \cup {NoGhosts}
        /\ UNCHANGED <<rename, named, shared, removed, unsaved>>
    BY <1>0, <1>5, <2>1 DEF ReadForOptical, At, AnalysisShape
  <2>6. CASE Goto(a, "change")
    <3>1. PICK r : r = [q EXCEPT !.pc = "change"]  OBVIOUS
    <3>2. /\ r \in Analysing /\ r.pc = "change" /\ r.scan = q.scan /\ r.copy = q.copy
          /\ r.persisted = q.persisted
      BY <3>1 DEF Analysing, Steps
    <3>3. analysis' = [analysis EXCEPT ![a] = r]  BY <2>1, <2>6, <3>1 DEF Goto
    <3>4. q.pc \in After /\ r.pc \in After /\ r.pc # "tag"  BY <2>5, <3>2 DEF After
    <3> QED  BY <1>G, <2>1, <2>3, <2>4, <2>5, <3>2, <3>3, <3>4
  <2>7. CASE analysis' = [analysis EXCEPT ![a].pc = "tag",
                 ![a].read = IF dir[q.scan].results = Torn THEN NoResults ELSE dir[q.scan].results]
    <3>1. PICK results \in Results \cup {NoResults} :
            results = IF f.results = Torn THEN NoResults ELSE f.results
      BY DEF ScanFolder
    <3>2. PICK r : r = [q EXCEPT !.pc = "tag", !.read = results]  OBVIOUS
    <3>3. /\ r \in Analysing /\ r.pc = "tag" /\ r.scan = q.scan /\ r.copy = q.copy
          /\ r.persisted = q.persisted /\ r.read = results
      BY <3>2 DEF Analysing, Steps
    <3>4. analysis' = [analysis EXCEPT ![a] = r]  BY <2>1, <2>3, <2>7, <3>1, <3>2
    <3>5. /\ q.pc \in After /\ r.pc \in After
          /\ r.read = f.results \/ f.results \notin Results
      BY <2>5, <3>1, <3>3, NothingAssumption DEF After
    <3> QED  BY <1>G, <2>1, <2>3, <2>4, <2>5, <3>3, <3>4, <3>5
  <2> QED  BY <1>5, <2>1, <2>6, <2>7 DEF ReadForOptical
<1>6. ASSUME NEW a \in Analysis,
             \/ FindReference(a) \/ CompareImages(a) \/ DrawChangeMap(a)
             \/ StartReport(a) \/ DrawReport(a)
      PROVE  CatalogInv'
  <2>1. PICK q \in Analysing : q = analysis[a]  BY <1>0
  <2>2. q.scan \in ScanId  BY DEF Analysing
  <2>3. PICK f \in ScanFolder :
          /\ dir' = [dir EXCEPT ![q.scan] = f]
          /\ f.metadata = dir[q.scan].metadata /\ f.results = dir[q.scan].results
          /\ dir[q.scan].exists => f.exists
    <3>1. \/ dir' = dir
          \/ dir' = [dir EXCEPT ![q.scan].exists = TRUE]
          \/ dir' = [dir EXCEPT ![q.scan].exists = TRUE, ![q.scan].pictures = @ \cup {"drawing"}]
          \/ dir' = [dir EXCEPT ![q.scan].pictures = @ \cup {"drawing"}]
      BY <1>6, <2>1 DEF FindReference, CompareImages, DrawChangeMap, StartReport, DrawReport,
                        Draw, MakeFolder, Overlay
    <3> QED  BY <1>D, <2>2, <3>1 DEF Pictures
  <2>4. PICK pc \in {"compare", "map", "retag", "report", "draw", "persist"} : Goto(a, pc)
    BY <1>6 DEF FindReference, CompareImages, DrawChangeMap, StartReport, DrawReport
  <2>5. /\ q.pc \in {"change", "compare", "map", "report", "draw"}
        /\ last' \in ScanId \cup {NoGhosts}
        /\ UNCHANGED <<rename, named, shared, removed, unsaved>>
    BY <1>0, <1>6, <2>1
    DEF FindReference, CompareImages, DrawChangeMap, StartReport, DrawReport, At, AnalysisShape
  <2>6. PICK r : r = [q EXCEPT !.pc = pc]  OBVIOUS
  <2>7. /\ r \in Analysing /\ r.pc = pc /\ r.scan = q.scan /\ r.copy = q.copy
        /\ r.persisted = q.persisted
    BY <2>6 DEF Analysing, Steps
  <2>8. analysis' = [analysis EXCEPT ![a] = r]  BY <2>1, <2>4, <2>6 DEF Goto
  <2>9. q.pc \in After /\ r.pc \in After /\ r.pc # "tag"  BY <2>5, <2>7 DEF After
  <2> QED  BY <1>G, <2>1, <2>3, <2>5, <2>7, <2>8, <2>9
(* What was read back is what the file says, when nobody else was at it. *)
<1>7. ASSUME NEW a \in Analysis, TagOptical(a) PROVE CatalogInv'
  <2>1. PICK q \in Analysing : q = analysis[a]  BY <1>0
  <2>2. q.scan \in ScanId  BY DEF Analysing
  <2>3. PICK g \in ScanFolder : g = dir[q.scan]  BY <1>0, <2>2
  <2>4. PICK r : r = [q EXCEPT !.pc = "change", !.read = NoResults]  OBVIOUS
  <2>5. /\ r \in Analysing /\ r.pc = "change" /\ r.scan = q.scan /\ r.copy = q.copy
        /\ r.persisted = q.persisted
    BY <2>4 DEF Analysing, Steps
  <2>6. /\ analysis' = [analysis EXCEPT ![a] = r] /\ q.pc = "tag"
        /\ UNCHANGED <<rename, named, shared, removed, last>>
    BY <1>7, <2>1, <2>4 DEF TagOptical, At
  <2>7. last' \in ScanId \cup {NoGhosts}  BY <1>0, <2>6 DEF AnalysisShape
  <2>8. Carries(r)
    <3>1. Carries(q)  BY <1>0, <2>1
    <3> QED  BY <2>5, <2>6, <3>1 DEF Carries, Before, After
  <2>9. Excused \subseteq Excused'  BY <1>7, <2>6 DEF Excused, TagOptical, CutResults
  <2>10. CASE q.read # NoResults /\ dir' = [dir EXCEPT ![q.scan].results = q.read]
    <3>1. PICK results \in Results : results = q.read  BY <2>10 DEF Analysing
    <3>2. PICK f : f = [g EXCEPT !.results = results]  OBVIOUS
    <3>3. f \in ScanFolder /\ f.exists = g.exists /\ f.results = results /\ f.metadata = g.metadata
      BY <3>2 DEF ScanFolder
    <3>4. dir' = [dir EXCEPT ![q.scan] = f]
      BY <2>3, <2>10, <3>1, <3>2
    <3>5. InStep(q, g, a) => InStep(r, f, a)
      BY <2>5, <2>6, <3>1, <3>3 DEF InStep, Before, After, ResultsOf
    <3>6. \A n : Named(g, n) => Named(f, n)  BY <3>3 DEF Named
    <3> QED  BY <2>1, <2>3, <2>5, <2>6, <2>7, <2>8, <2>9, <3>3, <3>4, <3>5, <3>6, AnalystMoves
  <2>11. CASE dir' = dir
    <3>1. dir' = [dir EXCEPT ![q.scan] = g]  BY <1>S, <2>2, <2>3, <2>11
    <3>2. InStep(q, g, a) => InStep(r, g, a)
      BY <2>5, <2>6 DEF InStep, Before, After, ResultsOf
    <3> QED  BY <2>1, <2>3, <2>5, <2>6, <2>7, <2>8, <2>9, <3>1, <3>2, AnalystMoves
  <2>12. CASE CutResults(q.scan)
    <3>1. PICK f \in ScanFolder : dir' = [dir EXCEPT ![q.scan] = f]  BY <1>C, <2>2, <2>12
    <3>2. q.scan \in Excused'  BY <2>12 DEF Excused, CutResults
    <3> QED  BY <2>1, <2>5, <2>6, <2>7, <2>8, <2>9, <3>1, <3>2, AnalystMoves
  <2> QED  BY <1>7, <2>1, <2>10, <2>11, <2>12 DEF TagOptical
<1>8. ASSUME NEW a \in Analysis, TagChanges(a) PROVE CatalogInv'
  <2>1. PICK q \in Analysing : q = analysis[a]  BY <1>0
  <2>2. q.scan \in ScanId  BY DEF Analysing
  <2>3. PICK g \in ScanFolder : g = dir[q.scan]  BY <1>0, <2>2
  <2>4. PICK r : r = [q EXCEPT !.pc = "report"]  OBVIOUS
  <2>5. /\ r \in Analysing /\ r.pc = "report" /\ r.scan = q.scan /\ r.copy = q.copy
        /\ r.persisted = q.persisted
    BY <2>4 DEF Analysing, Steps
  <2>6. /\ analysis' = [analysis EXCEPT ![a] = r] /\ q.pc = "retag"
        /\ UNCHANGED <<rename, named, shared, removed, last>>
    BY <1>8, <2>1, <2>4 DEF TagChanges, At, Goto
  <2>7. last' \in ScanId \cup {NoGhosts}  BY <1>0, <2>6 DEF AnalysisShape
  <2>8. Carries(r)
    <3>1. Carries(q)  BY <1>0, <2>1
    <3> QED  BY <2>5, <2>6, <3>1 DEF Carries, Before, After
  <2>9. Excused \subseteq Excused'  BY <1>8, <2>6 DEF Excused, TagChanges, CutResults
  <2>10. CASE dir' = dir
    <3>1. dir' = [dir EXCEPT ![q.scan] = g]  BY <1>S, <2>2, <2>3, <2>10
    <3>2. InStep(q, g, a) => InStep(r, g, a)
      BY <2>5, <2>6 DEF InStep, Before, After, ResultsOf
    <3> QED  BY <2>1, <2>3, <2>5, <2>6, <2>7, <2>8, <2>9, <3>1, <3>2, AnalystMoves
  <2>11. CASE g.results \in Results /\ dir' = [dir EXCEPT ![q.scan].results.detections = a]
    <3>1. PICK old \in Results : old = g.results  BY <2>11
    <3>2. PICK results : results = [old EXCEPT !.detections = a]  OBVIOUS
    <3>3. /\ results \in Results /\ results.counts = old.counts /\ results.detections = a
      BY <3>2 DEF Results
    <3>4. PICK f : f = [g EXCEPT !.results = results]  OBVIOUS
    <3>5. f \in ScanFolder /\ f.exists = g.exists /\ f.results = results /\ f.metadata = g.metadata
      BY <3>3, <3>4 DEF ScanFolder
    <3>6. dir' = [dir EXCEPT ![q.scan] = f]  BY <2>3, <2>11, <3>1, <3>2, <3>4
    <3>7. InStep(q, g, a) => InStep(r, f, a)
      BY <2>5, <2>6, <3>1, <3>3, <3>5 DEF InStep, Before, After, ResultsOf
    <3>8. \A n : Named(g, n) => Named(f, n)  BY <3>5 DEF Named
    <3> QED  BY <2>1, <2>3, <2>5, <2>6, <2>7, <2>8, <2>9, <3>5, <3>6, <3>7, <3>8, AnalystMoves
  <2>12. CASE CutResults(q.scan)
    <3>1. PICK f \in ScanFolder : dir' = [dir EXCEPT ![q.scan] = f]  BY <1>C, <2>2, <2>12
    <3>2. q.scan \in Excused'  BY <2>12 DEF Excused, CutResults
    <3> QED  BY <2>1, <2>5, <2>6, <2>7, <2>8, <2>9, <3>1, <3>2, AnalystMoves
  <2> QED  BY <1>8, <2>1, <2>3, <2>10, <2>11, <2>12 DEF TagChanges
(* The copy of the start, written back whole, is what the file says still. *)
<1>9. ASSUME NEW a \in Analysis, Persist(a) PROVE CatalogInv'
  <2>1. PICK q \in Analysing : q = analysis[a]  BY <1>0
  <2>2. q.scan \in ScanId  BY DEF Analysing
  <2>3. PICK g \in ScanFolder : g = dir[q.scan]  BY <1>0, <2>2
  <2>4. /\ q.pc = "persist" /\ UNCHANGED <<rename, named, shared, removed, unsaved, last>>
    BY <1>9, <2>1 DEF Persist, At
  <2>5. last' \in ScanId \cup {NoGhosts}  BY <1>0, <2>4 DEF AnalysisShape
  <2>6. Excused \subseteq Excused'  BY <2>4 DEF Excused
  <2>7. CASE /\ g.exists
             /\ dir' = [dir EXCEPT ![q.scan].metadata = [q.copy EXCEPT !.cv = a]]
             /\ analysis' = [analysis EXCEPT ![a].pc = "patch", ![a].persisted = TRUE,
                                             ![a].copy = NoMetadata]
    <3>1. PICK r : r = [q EXCEPT !.pc = "patch", !.persisted = TRUE, !.copy = NoMetadata]
      OBVIOUS
    <3>2. /\ r \in Analysing /\ r.pc = "patch" /\ r.scan = q.scan
      BY <3>1 DEF Analysing, Steps
    <3>3. analysis' = [analysis EXCEPT ![a] = r]  BY <2>1, <2>7, <3>1
    <3>4. Carries(r)  BY <3>2 DEF Carries, Before, After
    <3>5. q.copy \in Metadata  BY <1>0, <2>1, <2>4 DEF Carries, After
    <3>6. PICK metadata : metadata = [q.copy EXCEPT !.cv = a]  OBVIOUS
    <3>7. metadata \in Metadata /\ metadata.cv = a /\ metadata.name = q.copy.name
        BY <3>5, <3>6 DEF Metadata
    <3>8. PICK f : f = [g EXCEPT !.metadata = metadata]  OBVIOUS
    <3>9. /\ f \in ScanFolder /\ f.exists = g.exists /\ f.results = g.results
            /\ f.metadata = metadata
        BY <3>7, <3>8 DEF ScanFolder
    <3>10. dir' = [dir EXCEPT ![q.scan] = f]  BY <2>3, <2>7, <3>6, <3>8
    <3>11. InStep(q, g, a) => InStep(r, f, a)
        BY <2>4, <3>2, <3>7, <3>9 DEF InStep, Before, After, ResultsOf
    <3>12. \A n : InStep(q, g, a) /\ Named(g, n) => Named(f, n)
        BY <2>4, <3>7, <3>9 DEF Named, InStep, After
    <3> QED  BY <2>1, <2>3, <2>4, <2>5, <2>6, <3>2, <3>3, <3>4, <3>9, <3>10, <3>11, <3>12,
                  AnalystMoves
  <2>8. CASE /\ dir' = dir
             /\ analysis' = [analysis EXCEPT ![a].pc = "patch", ![a].copy = NoMetadata]
    <3>1. PICK r : r = [q EXCEPT !.pc = "patch", !.copy = NoMetadata]  OBVIOUS
    <3>2. /\ r \in Analysing /\ r.pc = "patch" /\ r.scan = q.scan /\ r.persisted = q.persisted
      BY <3>1 DEF Analysing, Steps
    <3>3. analysis' = [analysis EXCEPT ![a] = r]  BY <2>1, <2>8, <3>1
    <3>4. Carries(r) /\ r.persisted = FALSE
      <4>1. Carries(q)  BY <1>0, <2>1
      <4> QED  BY <2>4, <3>2, <4>1 DEF Carries, Before, After
    <3>5. dir' = [dir EXCEPT ![q.scan] = g]  BY <1>S, <2>2, <2>3, <2>8
    <3>6. InStep(q, g, a) => InStep(r, g, a)
      BY <2>4, <3>2, <3>4 DEF InStep, Before, After, ResultsOf
    <3> QED  BY <2>1, <2>3, <2>4, <2>5, <2>6, <3>2, <3>3, <3>4, <3>5, <3>6, AnalystMoves
  <2> QED  BY <1>9, <2>1, <2>3, <2>7, <2>8 DEF Persist, Save
(* The results get into the metadata now, if they did not before. *)
<1>10. ASSUME NEW a \in Analysis, Patch(a) PROVE CatalogInv'
  <2>1. PICK q \in Analysing : q = analysis[a]  BY <1>0
  <2>2. q.scan \in ScanId  BY DEF Analysing
  <2>3. PICK g \in ScanFolder : g = dir[q.scan]  BY <1>0, <2>2
  <2>4. PICK r : r = [q EXCEPT !.pc = "done"]  OBVIOUS
  <2>5. r \in Analysing /\ r.pc = "done" /\ r.scan = q.scan
    BY <2>4 DEF Analysing, Steps
  <2>6. /\ analysis' = [analysis EXCEPT ![a] = r] /\ q.pc = "patch"
        /\ UNCHANGED <<rename, named, shared, removed, last>>
    BY <1>10, <2>1, <2>4 DEF Patch, At, Goto
  <2>7. last' \in ScanId \cup {NoGhosts}  BY <1>0, <2>6 DEF AnalysisShape
  <2>8. Carries(r)  BY <2>5 DEF Carries, Before, After
  <2>9. Excused \subseteq Excused'  BY <1>10, <2>6 DEF Excused, Patch
  <2>10. CASE g.metadata \in Metadata /\ dir' = [dir EXCEPT ![q.scan].metadata.cv = a]
    <3>1. PICK old \in Metadata : old = g.metadata  BY <2>10
    <3>2. PICK metadata : metadata = [old EXCEPT !.cv = a]  OBVIOUS
    <3>3. metadata \in Metadata /\ metadata.cv = a /\ metadata.name = old.name
      BY <3>2 DEF Metadata
    <3>4. PICK f : f = [g EXCEPT !.metadata = metadata]  OBVIOUS
    <3>5. /\ f \in ScanFolder /\ f.exists = g.exists /\ f.results = g.results
          /\ f.metadata = metadata
      BY <3>3, <3>4 DEF ScanFolder
    <3>6. dir' = [dir EXCEPT ![q.scan] = f]  BY <2>3, <2>10, <3>1, <3>2, <3>4
    <3>7. InStep(q, g, a) => Agrees(f)
      BY <2>6, <3>3, <3>5, NothingAssumption DEF InStep, ResultsOf, Agrees
    <3>8. \A n : Named(g, n) => Named(f, n)  BY <3>1, <3>3, <3>5 DEF Named
    <3> QED  BY <2>1, <2>3, <2>5, <2>6, <2>7, <2>8, <2>9, <3>5, <3>6, <3>7, <3>8, AnalystMoves
  <2>11. CASE g.metadata \notin Metadata /\ dir' = dir
    <3>1. dir' = [dir EXCEPT ![q.scan] = g]  BY <1>S, <2>2, <2>3, <2>11
    <3>2. \A n : ~Named(g, n)  BY <2>11 DEF Named
    <3> QED  BY <2>1, <2>3, <2>5, <2>6, <2>7, <2>8, <2>9, <3>1, <3>2, AnalystMoves
  <2>12. CASE /\ dir' = dir
              /\ unsaved' = IF q.persisted THEN unsaved ELSE unsaved \cup {q.scan}
    <3>1. dir' = [dir EXCEPT ![q.scan] = g]  BY <1>S, <2>2, <2>3, <2>12
    <3>2. q.scan \notin Excused' => q.persisted  BY <2>12 DEF Excused
    <3>3. InStep(q, g, a) /\ q.persisted => Agrees(g)
      BY <2>6, NothingAssumption DEF InStep, ResultsOf, Agrees
    <3> QED  BY <2>1, <2>3, <2>5, <2>6, <2>7, <2>8, <2>9, <3>1, <3>2, <3>3, AnalystMoves
  <2>13. CASE /\ dir' = [dir EXCEPT ![q.scan].metadata = Torn]
              /\ unsaved' = unsaved \cup {q.scan}
    <3>1. PICK f : f = [g EXCEPT !.metadata = Torn]  OBVIOUS
    <3>2. f \in ScanFolder  BY <3>1 DEF ScanFolder
    <3>3. dir' = [dir EXCEPT ![q.scan] = f]  BY <2>3, <2>13, <3>1
    <3>4. q.scan \in Excused'  BY <2>13 DEF Excused
    <3> QED  BY <2>1, <2>5, <2>6, <2>7, <2>8, <2>9, <3>2, <3>3, <3>4, AnalystMoves
  <2> QED  BY <1>10, <2>1, <2>3, <2>10, <2>11, <2>12, <2>13 DEF Patch
<1>11. ASSUME NEW q \in Renamer, ReadToRename(q) PROVE CatalogInv'
  <2>1. PICK p \in Renaming : p = rename[q]  BY <1>0 DEF AnalysisShape
  <2>2. PICK t \in ScanId : t = p.scan  BY DEF Renaming
  <2>3. PICK copy \in Metadata : copy = dir[t].metadata
    BY <1>0, <1>11, <2>1, <2>2 DEF ReadToRename, Listed, ScanFolder
  <2>4. PICK r : r = [p EXCEPT !.pc = "write", !.copy = copy]  OBVIOUS
  <2>5. r \in Renaming /\ r.pc = "write" /\ r.scan = p.scan /\ r.copy = copy
    BY <2>4 DEF Renaming
  <2>6. /\ rename' = [rename EXCEPT ![q] = r] /\ Join(t)
        /\ UNCHANGED <<dir, last, analysis, named, removed, unsaved>> /\ p.pc = "idle"
    BY <1>11, <2>1, <2>2, <2>3, <2>4 DEF ReadToRename
  <2>7. /\ rename' \in [Renamer -> Renaming]
        /\ \A o \in Renamer : o # q => rename'[o] = rename[o]
        /\ rename'[q] = r
    BY <1>0, <2>5, <2>6 DEF AnalysisShape
  <2>8. AnalysisShape'  BY <1>0, <2>6, <2>7 DEF AnalysisShape
  <2>9. ASSUME NEW s \in ScanId \ Excused'
        PROVE  Catalogued(s, dir[s], named[s], analysis, rename')
    <3>1. Excused \subseteq Excused'  BY <1>J, <2>6
    <3>2. Catalogued(s, dir[s], named[s], analysis, rename)  BY <1>0, <2>9, <3>1
    <3>3. CASE s = t
      <4>1. /\ \A b \in Analysis : ~WorksOn(analysis[b], t)
            /\ \A o \in Renamer : ~Renames(rename[o], t)
        BY <1>J, <2>6, <2>9, <3>3
      <4>2. \A o \in Renamer : Renames(rename'[o], t) => o = q  BY <2>7, <4>1
      <4>3. \A o \in Renamer : Renames(rename'[o], t) => rename'[o].copy = dir[t].metadata
        BY <2>3, <2>5, <2>7, <4>2
      <4> QED  BY <3>2, <3>3, <4>1, <4>2, <4>3 DEF Catalogued
    <3>4. CASE s # t
      <4>1. ~Renames(rename[q], s) /\ ~Renames(r, s)
        BY <2>1, <2>2, <2>5, <3>4 DEF Renames
      <4>2. \A o \in Renamer :
              /\ Renames(rename'[o], s) <=> Renames(rename[o], s)
              /\ Renames(rename'[o], s) => rename'[o] = rename[o]
        BY <2>7, <4>1
      <4> QED  BY <3>2, <4>2 DEF Catalogued
    <3> QED  BY <3>3, <3>4
  <2>10. \A s \in ScanId \ Excused' : Catalogued(s, dir'[s], named'[s], analysis', rename')
    BY <2>6, <2>9
  <2>11. \A o \in Renamer : rename'[o].pc = "write" => rename'[o].copy \in Metadata
    BY <1>0, <2>5, <2>7
  <2> QED  BY <1>0, <2>6, <2>8, <2>10, <2>11 DEF CatalogInv
(* The copy a renaming writes back has the name put in, and only that. *)
<1>12. ASSUME NEW q \in Renamer, WriteName(q) PROVE CatalogInv'
  <2>1. PICK p \in Renaming : p = rename[q]  BY <1>0 DEF AnalysisShape
  <2>2. PICK t \in ScanId : t = p.scan  BY DEF Renaming
  <2>3. PICK g \in ScanFolder : g = dir[t]  BY <1>0
  <2>4. PICK r : r = [p EXCEPT !.pc = "done", !.copy = NoMetadata]  OBVIOUS
  <2>5. r \in Renaming /\ r.pc = "done"
    BY <2>4 DEF Renaming
  <2>6. /\ rename' = [rename EXCEPT ![q] = r] /\ p.pc = "write"
        /\ UNCHANGED <<last, analysis, shared, removed, unsaved>>
    BY <1>12, <2>1, <2>4 DEF WriteName
  <2>7. /\ rename' \in [Renamer -> Renaming]
        /\ \A o \in Renamer : o # q => rename'[o] = rename[o]
        /\ rename'[q] = r
    BY <1>0, <2>5, <2>6 DEF AnalysisShape
  <2>8. PICK metadata : metadata = [p.copy EXCEPT !.name = q]  OBVIOUS
  <2>9. /\ p.copy \in Metadata /\ metadata \in Metadata /\ metadata.name = q
        /\ metadata.cv = p.copy.cv
    <3>1. p.copy \in Metadata  BY <1>0, <2>1, <2>6
    <3> QED  BY <2>8, <3>1 DEF Metadata
  <2>10. PICK f : f = IF g.exists THEN [g EXCEPT !.metadata = metadata] ELSE g  OBVIOUS
  <2>11. f \in ScanFolder  BY <2>9, <2>10 DEF ScanFolder
  <2>12. g.exists => /\ f.exists /\ f.results = g.results /\ f.metadata = metadata
    BY <2>10 DEF ScanFolder
  <2>13. PICK n \in Renamer \cup {Nobody} : n = IF g.exists THEN q ELSE named[t]
    BY <1>0 DEF AnalysisShape
  <2>14. /\ dir' = [dir EXCEPT ![t] = f]
         /\ named' = [named EXCEPT ![t] = n]
    <3>1. CASE g.exists
      BY <1>12, <2>1, <2>2, <2>3, <2>8, <2>10, <2>13, <3>1 DEF WriteName, Save
    <3>2. CASE ~g.exists
      <4>1. dir' = dir /\ named' = named
        BY <1>12, <2>1, <2>2, <2>3, <3>2 DEF WriteName, Save
      <4> QED  BY <1>0, <2>3, <2>10, <2>13, <3>2, <4>1 DEF AnalysisShape
    <3> QED  BY <3>1, <3>2
  <2>15. /\ dir' \in [ScanId -> ScanFolder] /\ named' \in [ScanId -> Renamer \cup {Nobody}]
         /\ \A s \in ScanId : s # t => dir'[s] = dir[s] /\ named'[s] = named[s]
         /\ dir'[t] = f /\ named'[t] = n
    BY <1>0, <2>11, <2>14 DEF AnalysisShape
  <2>16. AnalysisShape'  BY <1>0, <2>6, <2>7, <2>15 DEF AnalysisShape
  <2>17. Excused' = Excused  BY <2>6 DEF Excused
  <2>18. ~Renames(r, t)  BY <2>5 DEF Renames
  <2>19. ASSUME NEW s \in ScanId \ Excused
         PROVE  Catalogued(s, dir'[s], named'[s], analysis, rename')
    <3>1. Catalogued(s, dir[s], named[s], analysis, rename)  BY <1>0, <2>19
    <3>2. CASE s = t
      <4>1. Renames(rename[q], t)  BY <2>1, <2>2, <2>6 DEF Renames
      <4>2. /\ \A o \in Renamer : o # q => ~Renames(rename[o], t)
            /\ \A b \in Analysis : ~WorksOn(analysis[b], t)
            /\ Agrees(g) /\ p.copy = g.metadata /\ g.exists
        BY <2>1, <2>3, <3>1, <3>2, <4>1 DEF Catalogued, Named
      <4>3. \A o \in Renamer : ~Renames(rename'[o], t)  BY <2>7, <2>18, <4>2
      <4>4. Agrees(f) /\ Named(f, n)
        BY <2>9, <2>12, <2>13, <4>2 DEF Agrees, Named
      <4> QED  BY <2>15, <3>2, <4>2, <4>3, <4>4 DEF Catalogued
    <3>3. CASE s # t
      <4>1. ~Renames(rename[q], s) /\ ~Renames(r, s)
        BY <2>1, <2>2, <2>5, <3>3 DEF Renames
      <4>2. \A o \in Renamer :
              /\ Renames(rename'[o], s) <=> Renames(rename[o], s)
              /\ Renames(rename'[o], s) => rename'[o] = rename[o]
        BY <2>7, <4>1
      <4>3. dir'[s] = dir[s] /\ named'[s] = named[s]  BY <2>15, <3>3
      <4> QED  BY <3>1, <4>2, <4>3 DEF Catalogued
    <3> QED  BY <3>2, <3>3
  <2>20. \A s \in ScanId \ Excused' : Catalogued(s, dir'[s], named'[s], analysis', rename')
    BY <2>6, <2>17, <2>19
  <2>21. \A o \in Renamer : rename'[o].pc = "write" => rename'[o].copy \in Metadata
    BY <1>0, <2>5, <2>7
  <2> QED  BY <1>0, <2>6, <2>16, <2>20, <2>21 DEF CatalogInv
<1>13. ASSUME NEW t \in ScanId, Remove(t) PROVE CatalogInv'
  <2>1. /\ dir' = [dir EXCEPT ![t] = Gone] /\ removed' = removed \cup {t}
        /\ UNCHANGED <<last, analysis, rename, named, shared, unsaved>>
    BY <1>13 DEF Remove
  <2>2. Gone \in ScanFolder  BY DEF Gone, ScanFolder
  <2>3. /\ dir' \in [ScanId -> ScanFolder]
        /\ \A s \in ScanId : s # t => dir'[s] = dir[s]
    BY <1>0, <2>1, <2>2 DEF AnalysisShape
  <2>4. AnalysisShape'  BY <1>0, <2>1, <2>3 DEF AnalysisShape
  <2>5. Excused \subseteq Excused' /\ t \in Excused'  BY <2>1 DEF Excused
  <2>6. \A s \in ScanId \ Excused' : Catalogued(s, dir'[s], named'[s], analysis', rename')
    BY <1>0, <2>1, <2>3, <2>5
  <2> QED  BY <1>0, <2>1, <2>4, <2>6 DEF CatalogInv
<1>14. CASE UNCHANGED analysisVars
  <2>1. UNCHANGED <<dir, last, analysis, rename, named, shared, removed, unsaved>>
    BY <1>14 DEF analysisVars
  <2> QED  BY <2>1, Zenon DEF CatalogInv, AnalysisShape, Excused
<1> QED
  BY <1>1, <1>2, <1>3, <1>4, <1>5, <1>6, <1>7, <1>8, <1>9, <1>10, <1>11, <1>12, <1>13,
     <1>14, <1>15 DEF AnalysisNext

(* Once the requests on a scan are over, its catalogue entry bears the last *)
(* name given to it and the numbers of its results, unless two requests     *)
(* worked on it at once, it was deleted or results could not be saved.     *)
THEOREM CatalogAlwaysCurrent == AnalysisSpec => []CatalogCurrent
<1> QED  BY CatalogInitially, CatalogStep, CatalogFollows, PTL DEF AnalysisSpec

-----------------------------------------------------------------------------
(***************************************************************************)
(* The analysis of scans: the ghost vessels in the attribute that          *)
(* concurrent analyses share.                                              *)
(***************************************************************************)

(* The ghosts of an analysis are its own, the ones it is to read included. *)
OwnGhosts(r, attribute) ==
    /\ r.ghosts \in {r.scan, NoGhosts}
    /\ r.pc = "ghosts" => attribute \in {r.scan, NoGhosts}

GhostInv == CatalogInv /\ \A a \in Analysis \ crossed : OwnGhosts(analysis[a], last)

LEMMA GhostStep == GhostInv /\ [AnalysisNext]_analysisVars => GhostInv'
<1> SUFFICES ASSUME GhostInv, [AnalysisNext]_analysisVars PROVE GhostInv'
  OBVIOUS
<1>0. CatalogInv /\ CatalogInv' /\ AnalysisShape  BY CatalogStep DEF GhostInv, CatalogInv
<1>1. analysis \in [Analysis -> Analysing]  BY <1>0 DEF AnalysisShape
<1>2. \A a \in Analysis \ crossed : OwnGhosts(analysis[a], last)  BY DEF GhostInv
(* The steps that neither write nor read the shared ghosts. *)
<1>K. ASSUME NEW a \in Analysis, UNCHANGED <<last, crossed>>,
             \A b \in Analysis \ {a} : analysis'[b] = analysis[b],
             analysis'[a].scan = analysis[a].scan,
             analysis'[a].ghosts \in {analysis[a].ghosts, NoGhosts},
             analysis'[a].pc # "ghosts"
      PROVE  GhostInv'
  <2>1. \A b \in Analysis \ crossed : OwnGhosts(analysis'[b], last)
    BY <1>2, <1>K DEF OwnGhosts
  <2> QED  BY <1>0, <1>K, <2>1 DEF GhostInv
<1>3. ASSUME NEW a \in Analysis, NEW pc \in Steps \ {"ghosts"}, Goto(a, pc),
             UNCHANGED <<last, crossed>>
      PROVE  GhostInv'
  <2>1. /\ \A b \in Analysis \ {a} : analysis'[b] = analysis[b]
        /\ analysis'[a].scan = analysis[a].scan
        /\ analysis'[a].ghosts = analysis[a].ghosts
        /\ analysis'[a].pc = pc
    BY <1>1, <1>3 DEF Goto, Analysing
  <2> QED  BY <1>3, <1>K, <2>1
<1>4. ASSUME NEW a \in Analysis, Correlate(a) PROVE GhostInv'
  <2>1. CASE Goto(a, "alert") /\ UNCHANGED <<last, crossed>>
    BY <1>3, <2>1 DEF Steps
  <2>2. ASSUME last' \in {analysis[a].scan, NoGhosts}, NEW level \in DarkRisk,
               analysis' = [analysis EXCEPT ![a].pc = "ghosts", ![a].risk = level],
               crossed' = crossed \cup {b \in Analysis \ {a} : At(b, "ghosts")}
        PROVE  GhostInv'
    <3>1. /\ \A b \in Analysis \ {a} : analysis'[b] = analysis[b]
          /\ analysis'[a].scan = analysis[a].scan
          /\ analysis'[a].ghosts = analysis[a].ghosts
      BY <1>1, <2>2 DEF Analysing
    <3>2. ASSUME NEW b \in Analysis \ crossed' PROVE OwnGhosts(analysis'[b], last')
      <4>1. OwnGhosts(analysis[b], last)  BY <1>2, <2>2, <3>2
      <4>2. CASE b = a  BY <2>2, <3>1, <4>1, <4>2 DEF OwnGhosts
      <4>3. CASE b # a
        <5>1. ~At(b, "ghosts")  BY <2>2, <3>2, <4>3
        <5> QED  BY <3>1, <4>1, <4>3, <5>1 DEF OwnGhosts, At
      <4> QED  BY <4>2, <4>3
    <3> QED  BY <1>0, <3>2 DEF GhostInv
  <2> QED  BY <1>4, <2>1, <2>2 DEF Correlate
<1>5. ASSUME NEW a \in Analysis, ReadGhosts(a) PROVE GhostInv'
  <2>1. /\ \A b \in Analysis \ {a} : analysis'[b] = analysis[b]
        /\ analysis'[a].scan = analysis[a].scan
        /\ analysis'[a].ghosts = last
        /\ analysis'[a].pc = "alert"
        /\ analysis[a].pc = "ghosts"
        /\ UNCHANGED <<last, crossed>>
    BY <1>1, <1>5 DEF ReadGhosts, At, Analysing
  <2>2. \A b \in Analysis \ crossed : OwnGhosts(analysis'[b], last)
    BY <1>2, <2>1 DEF OwnGhosts
  <2> QED  BY <1>0, <2>1, <2>2 DEF GhostInv
<1>6. ASSUME NEW a \in Analysis, SaveDetections(a) PROVE GhostInv'
  <2>1. /\ \A b \in Analysis \ {a} : analysis'[b] = analysis[b]
        /\ analysis'[a].scan = analysis[a].scan
        /\ analysis'[a].ghosts = NoGhosts
        /\ analysis'[a].pc = "optical"
        /\ UNCHANGED <<last, crossed>>
    BY <1>1, <1>6 DEF SaveDetections, Analysing
  <2> QED  BY <1>K, <2>1
<1>7. ASSUME NEW a \in Analysis, Begin(a) \/ Alert(a) \/ OpenImage(a) PROVE GhostInv'
  <2>1. /\ \A b \in Analysis \ {a} : analysis'[b] = analysis[b]
        /\ analysis'[a].scan = analysis[a].scan
        /\ analysis'[a].ghosts = analysis[a].ghosts
        /\ analysis'[a].pc \in {"mask", "save", "overlay", "results"}
        /\ UNCHANGED <<last, crossed>>
    BY <1>1, <1>7 DEF Begin, Alert, OpenImage, Analysing
  <2> QED  BY <1>K, <2>1
<1>8. ASSUME NEW a \in Analysis, TagOptical(a) \/ Persist(a) PROVE GhostInv'
  <2>1. /\ \A b \in Analysis \ {a} : analysis'[b] = analysis[b]
        /\ analysis'[a].scan = analysis[a].scan
        /\ analysis'[a].ghosts = analysis[a].ghosts
        /\ analysis'[a].pc \in {"change", "patch"}
        /\ UNCHANGED <<last, crossed>>
    <3>1. CASE TagOptical(a)  BY <1>1, <3>1 DEF TagOptical, Analysing
    <3>2. CASE Persist(a)
      <4>1. UNCHANGED <<last, crossed>>  BY <3>2 DEF Persist
      <4>2. \/ analysis' = [analysis EXCEPT ![a].pc = "patch", ![a].persisted = TRUE,
                                            ![a].copy = NoMetadata]
            \/ analysis' = [analysis EXCEPT ![a].pc = "patch", ![a].copy = NoMetadata]
        BY <3>2 DEF Persist
      <4> QED  BY <1>1, <4>1, <4>2 DEF Analysing
    <3> QED  BY <1>8, <3>1, <3>2
  <2> QED  BY <1>K, <2>1
<1>9. ASSUME NEW a \in Analysis, ReadForOptical(a) PROVE GhostInv'
  <2>1. /\ \A b \in Analysis \ {a} : analysis'[b] = analysis[b]
        /\ analysis'[a].scan = analysis[a].scan
        /\ analysis'[a].ghosts = analysis[a].ghosts
        /\ analysis'[a].pc \in {"change", "tag"}
        /\ UNCHANGED <<last, crossed>>
    BY <1>1, <1>9 DEF ReadForOptical, Goto, Analysing
  <2> QED  BY <1>K, <2>1
<1>10. ASSUME NEW a \in Analysis,
              \/ MaskLand(a) \/ Detect(a) \/ DrawOverlay(a) \/ FindReference(a)
              \/ CompareImages(a) \/ DrawChangeMap(a) \/ TagChanges(a)
              \/ StartReport(a) \/ DrawReport(a) \/ Patch(a)
       PROVE  GhostInv'
  <2>1. /\ UNCHANGED <<last, crossed>>
        /\ \E pc \in Steps \ {"ghosts"} : Goto(a, pc)
    BY <1>10 DEF MaskLand, Detect, DrawOverlay, FindReference, CompareImages, DrawChangeMap,
                 TagChanges, StartReport, DrawReport, Patch, Steps
  <2> QED  BY <1>3, <2>1
<1>11. ASSUME UNCHANGED <<analysis, last, crossed>> PROVE GhostInv'
  BY <1>0, <1>2, <1>11 DEF GhostInv
<1>12. ASSUME NEW q \in Renamer, ReadToRename(q) \/ WriteName(q) PROVE GhostInv'
  BY <1>11, <1>12 DEF ReadToRename, WriteName
<1>13. ASSUME NEW s \in ScanId, Remove(s) PROVE GhostInv'
  BY <1>11, <1>13 DEF Remove
<1>14. CASE UNCHANGED analysisVars
  BY <1>11, <1>14 DEF analysisVars
<1> QED
  BY <1>4, <1>5, <1>6, <1>7, <1>8, <1>9, <1>10, <1>12, <1>13, <1>14 DEF AnalysisNext

(* The ghost vessels an analysis reports are those of its own scan, unless  *)
(* another one correlated before it had read them.                         *)
THEOREM GhostsAlwaysItsOwn == AnalysisSpec => []GhostsAreItsOwn
<1>1. AnalysisInit => GhostInv
  <2> SUFFICES ASSUME AnalysisInit PROVE GhostInv
    OBVIOUS
  <2>1. \A a \in Analysis : analysis[a].pc = "idle" /\ analysis[a].ghosts = NoGhosts
    BY DEF AnalysisInit
  <2> QED  BY <2>1, CatalogInitially DEF GhostInv, OwnGhosts
<1>2. GhostInv => GhostsAreItsOwn  BY DEF GhostInv, OwnGhosts, GhostsAreItsOwn
<1> QED  BY <1>1, <1>2, GhostStep, PTL DEF AnalysisSpec

-----------------------------------------------------------------------------
(***************************************************************************)
(* The analysis of scans: the folders of deleted scans.                    *)
(***************************************************************************)

(* An image an analysis has read and is about to draw on. *)
Holding == {"overlay", "map"}

(* Nothing is listed without a picture.  A deleted scan nobody shared has   *)
(* none, and an analysis that holds its image finds no folder to draw in,   *)
(* unless the DEM or the route was drawn.                                   *)
Blank(s, f, an) ==
    /\ f.pictures = {}
    /\ \A a \in Analysis : an[a].scan = s /\ an[a].pc \in Holding => ~f.exists

DeletedInv ==
    /\ CatalogInv
    /\ removed \subseteq ScanId
    /\ \A s \in ScanId \ shared : \A a, b \in Analysis :
           WorksOn(analysis[a], s) /\ WorksOn(analysis[b], s) => a = b
    /\ \A s \in removed \ (redrawn \cup shared) : Blank(s, dir[s], analysis)

LEMMA DeletedStep == DeletedInv /\ [AnalysisNext]_analysisVars => DeletedInv'
<1> SUFFICES ASSUME DeletedInv, [AnalysisNext]_analysisVars PROVE DeletedInv'
  OBVIOUS
<1>0. CatalogInv /\ CatalogInv' /\ AnalysisShape  BY CatalogStep DEF DeletedInv, CatalogInv
<1>1. /\ dir \in [ScanId -> ScanFolder]
      /\ analysis \in [Analysis -> Analysing]
      /\ removed \subseteq ScanId
      /\ \A a \in Analysis : analysis[a].scan \in ScanId
      /\ \A q \in Renamer : rename[q].scan \in ScanId
  BY <1>0 DEF AnalysisShape, Analysing, Renaming, DeletedInv
<1>2. /\ \A s \in ScanId \ shared : \A a, b \in Analysis :
           WorksOn(analysis[a], s) /\ WorksOn(analysis[b], s) => a = b
      /\ \A s \in removed \ (redrawn \cup shared) : Blank(s, dir[s], analysis)
  BY DEF DeletedInv
(* A step of an analysis: it alone can break what is said of its scan. *)
<1>K. ASSUME NEW a \in Analysis, NEW t \in ScanId, t = analysis[a].scan,
             UNCHANGED <<removed, shared>>, redrawn \subseteq redrawn',
             \A b \in Analysis \ {a} : analysis'[b] = analysis[b],
             analysis'[a].scan = t, analysis[a].pc \notin {"idle", "done"},
             \A s \in ScanId : s # t => dir'[s] = dir[s],
             /\ t \in removed \ (redrawn' \cup shared) /\ dir[t].pictures = {}
             /\ analysis[a].pc \in Holding => ~dir[t].exists
             => /\ dir'[t].pictures = {}
                /\ analysis'[a].pc \in Holding => ~dir'[t].exists
      PROVE  DeletedInv'
  <2>1. \A b \in Analysis, s \in ScanId :
          WorksOn(analysis'[b], s) => WorksOn(analysis[b], s)
    BY <1>K DEF WorksOn
  <2>2. \A s \in ScanId \ shared' : \A b, c \in Analysis :
           WorksOn(analysis'[b], s) /\ WorksOn(analysis'[c], s) => b = c
    BY <1>2, <1>K, <2>1
  <2>3. ASSUME NEW s \in removed' \ (redrawn' \cup shared'), s # t
        PROVE  Blank(s, dir'[s], analysis')
    <3>1. Blank(s, dir[s], analysis) /\ s \in ScanId  BY <1>1, <1>2, <1>K, <2>3
    <3> QED  BY <1>K, <2>3, <3>1 DEF Blank
  <2>4. ASSUME t \in removed' \ (redrawn' \cup shared')
        PROVE  Blank(t, dir'[t], analysis')
    <3>1. Blank(t, dir[t], analysis)  BY <1>2, <1>K, <2>4
    <3>2. ASSUME NEW b \in Analysis, analysis'[b].scan = t, analysis'[b].pc \in Holding
          PROVE  b = a
      <4>1. WorksOn(analysis'[b], t)  BY <3>2 DEF WorksOn, Holding
      <4>2. WorksOn(analysis[b], t)  BY <2>1, <4>1
      <4>3. WorksOn(analysis[a], t)  BY <1>K DEF WorksOn
      <4> QED  BY <1>2, <1>K, <2>4, <4>2, <4>3
    <3>3. dir[t].pictures = {} /\ (analysis[a].pc \in Holding => ~dir[t].exists)
      BY <1>K, <3>1 DEF Blank
    <3>4. /\ dir'[t].pictures = {}
          /\ analysis'[a].pc \in Holding => ~dir'[t].exists
      BY <1>K, <2>4, <3>3
    <3> QED  BY <3>2, <3>4 DEF Blank
  <2>5. \A s \in removed' \ (redrawn' \cup shared') : Blank(s, dir'[s], analysis')
    BY <2>3, <2>4
  <2> QED  BY <1>0, <1>1, <1>K, <2>2, <2>5 DEF DeletedInv
(* The steps that only move on. *)
<1>G. ASSUME NEW a \in Analysis, NEW pc \in Steps \ {"idle"}, Goto(a, pc)
      PROVE  /\ \A b \in Analysis \ {a} : analysis'[b] = analysis[b]
             /\ analysis'[a].scan = analysis[a].scan
             /\ analysis'[a].pc = pc
  BY <1>1, <1>G DEF Goto, Analysing
(* The DEM and the route picture: drawn in a removed folder they are noted. *)
<1>3. ASSUME NEW a \in Analysis, MaskLand(a) \/ DrawReport(a) PROVE DeletedInv'
  <2>1. PICK t \in ScanId : t = analysis[a].scan  BY <1>1
  <2>2. PICK pc \in {"detect", "persist"} : Goto(a, pc)  BY <1>3 DEF MaskLand, DrawReport
  <2>3. /\ analysis[a].pc \in {"mask", "draw"} /\ UNCHANGED <<removed, shared>>
        /\ \A b \in Analysis \ {a} : analysis'[b] = analysis[b]
        /\ analysis'[a].scan = t /\ analysis'[a].pc \notin Holding
    BY <1>3, <1>G, <2>1, <2>2 DEF MaskLand, DrawReport, At, Steps, Holding
  <2>4. \/ UNCHANGED <<dir, redrawn>>
        \/ MakeFolder(t) /\ UNCHANGED redrawn
        \/ \E drawn \in Pictures : Draw(t, drawn)
    BY <1>3, <2>1 DEF MaskLand, DrawReport, Pictures
  <2>5. /\ redrawn \subseteq redrawn'
        /\ \A s \in ScanId : s # t => dir'[s] = dir[s]
        /\ t \in removed \ redrawn' => dir'[t].pictures = dir[t].pictures
    <3>1. CASE UNCHANGED <<dir, redrawn>>  BY <3>1
    <3>2. CASE MakeFolder(t) /\ UNCHANGED redrawn  BY <1>1, <3>2 DEF MakeFolder, ScanFolder
    <3>3. CASE \E drawn \in Pictures : Draw(t, drawn)  BY <1>1, <3>3 DEF Draw, ScanFolder
    <3> QED  BY <2>4, <3>1, <3>2, <3>3
  <2> QED  BY <1>K, <2>1, <2>3, <2>5
(* The image of a scan that was removed is gone, and so is the folder an    *)
(* analysis was to draw in that has read it before.                         *)
<1>4. ASSUME NEW a \in Analysis,
             OpenImage(a) \/ DrawOverlay(a) \/ CompareImages(a) \/ DrawChangeMap(a)
      PROVE  DeletedInv'
  <2>1. PICK t \in ScanId : t = analysis[a].scan  BY <1>1
  <2>2. /\ UNCHANGED <<removed, shared, redrawn>>
        /\ analysis[a].pc \in {"save", "overlay", "compare", "map"}
    BY <1>4 DEF OpenImage, DrawOverlay, CompareImages, DrawChangeMap, At
  <2>3. /\ \A b \in Analysis \ {a} : analysis'[b] = analysis[b]
        /\ analysis'[a].scan = t
        /\ dir[t].pictures = {} => analysis'[a].pc \notin Holding
    <3>1. CASE OpenImage(a)
      BY <1>1, <2>1, <3>1 DEF OpenImage, Analysing, Holding
    <3>2. CASE DrawOverlay(a)
      BY <1>G, <2>1, <3>2 DEF DrawOverlay, Holding, Steps
    <3>3. CASE CompareImages(a)
      BY <1>G, <2>1, <3>3 DEF CompareImages, Holding, Steps
    <3>4. CASE DrawChangeMap(a)
      BY <1>G, <2>1, <3>4 DEF DrawChangeMap, Holding, Steps
    <3> QED  BY <1>4, <3>1, <3>2, <3>3, <3>4
  <2>4. /\ \A s \in ScanId : s # t => dir'[s] = dir[s]
        /\ (analysis[a].pc \in Holding => ~dir[t].exists) => dir'[t].pictures = dir[t].pictures
    <3>1. CASE OpenImage(a) \/ CompareImages(a)
      BY <1>1, <2>1, <3>1 DEF OpenImage, CompareImages, MakeFolder, ScanFolder
    <3>2. CASE DrawOverlay(a) \/ DrawChangeMap(a)
      <4>1. analysis[a].pc \in Holding
        BY <3>2 DEF DrawOverlay, DrawChangeMap, At, Holding
      <4> QED  BY <1>1, <2>1, <3>2, <4>1 DEF DrawOverlay, DrawChangeMap, Overlay, ScanFolder
    <3> QED  BY <1>4, <3>1, <3>2
  <2> QED  BY <1>K, <2>1, <2>2, <2>3, <2>4
(* The files an analysis writes beside the pictures. *)
<1>5. ASSUME NEW a \in Analysis,
             \/ SaveDetections(a) \/ TagOptical(a) \/ TagChanges(a)
             \/ Persist(a) \/ Patch(a)
      PROVE  DeletedInv'
  <2>1. PICK t \in ScanId : t = analysis[a].scan  BY <1>1
  <2>2. /\ UNCHANGED <<removed, redrawn, shared>>
        /\ analysis[a].pc \in {"results", "tag", "retag", "persist", "patch"}
    BY <1>5 DEF SaveDetections, TagOptical, TagChanges, Persist, Patch, At
  <2>3. /\ \A b \in Analysis \ {a} : analysis'[b] = analysis[b]
        /\ analysis'[a].scan = t
        /\ analysis'[a].pc \notin Holding
    <3>1. CASE SaveDetections(a) \/ TagOptical(a)
      BY <1>1, <2>1, <3>1 DEF SaveDetections, TagOptical, Analysing, Holding
    <3>2. CASE TagChanges(a) \/ Patch(a)
      BY <1>G, <2>1, <3>2 DEF TagChanges, Patch, Holding, Steps
    <3>3. CASE Persist(a)
      <4>1. \/ analysis' = [analysis EXCEPT ![a].pc = "patch", ![a].persisted = TRUE,
                                            ![a].copy = NoMetadata]
            \/ analysis' = [analysis EXCEPT ![a].pc = "patch", ![a].copy = NoMetadata]
        BY <3>3 DEF Persist
      <4> QED  BY <1>1, <2>1, <4>1 DEF Analysing, Holding
    <3> QED  BY <1>5, <3>1, <3>2, <3>3
  <2>4. /\ \A s \in ScanId : s # t => dir'[s] = dir[s]
        /\ dir'[t].pictures = dir[t].pictures
    <3>1. CASE SaveDetections(a)
      BY <1>1, <2>1, <3>1 DEF SaveDetections, CutResults, ScanFolder
    <3>2. CASE TagOptical(a)  BY <1>1, <2>1, <3>2 DEF TagOptical, CutResults, ScanFolder
    <3>3. CASE TagChanges(a)  BY <1>1, <2>1, <3>3 DEF TagChanges, CutResults, ScanFolder
    <3>4. CASE Persist(a)  BY <1>1, <2>1, <3>4 DEF Persist, Save, ScanFolder
    <3>5. CASE Patch(a)  BY <1>1, <2>1, <3>5 DEF Patch, ScanFolder
    <3> QED  BY <1>5, <3>1, <3>2, <3>3, <3>4, <3>5
  <2> QED  BY <1>K, <2>1, <2>2, <2>3, <2>4
(* The steps that write no file. *)
<1>6. ASSUME NEW a \in Analysis,
             \/ Detect(a) \/ Correlate(a) \/ ReadGhosts(a) \/ Alert(a)
             \/ ReadForOptical(a) \/ FindReference(a) \/ StartReport(a)
      PROVE  DeletedInv'
  <2>1. PICK t \in ScanId : t = analysis[a].scan  BY <1>1
  <2>2. /\ UNCHANGED <<dir, removed, redrawn, shared>>
        /\ analysis[a].pc \notin {"idle", "done"}
    BY <1>6 DEF Detect, Correlate, ReadGhosts, Alert, ReadForOptical, FindReference,
                StartReport, At
  <2>3. /\ \A b \in Analysis \ {a} : analysis'[b] = analysis[b]
        /\ analysis'[a].scan = t
        /\ analysis'[a].pc \notin Holding
    <3>1. ASSUME NEW pc \in Steps \ ({"idle"} \cup Holding), Goto(a, pc)
          PROVE  /\ \A b \in Analysis \ {a} : analysis'[b] = analysis[b]
                 /\ analysis'[a].scan = t
                 /\ analysis'[a].pc \notin Holding
      BY <1>G, <2>1, <3>1
    <3>2. CASE Detect(a) \/ FindReference(a) \/ StartReport(a)
      BY <3>1, <3>2 DEF Detect, FindReference, StartReport, Holding, Steps
    <3>3. CASE Correlate(a)
      <4>1. CASE Goto(a, "alert")  BY <3>1, <4>1 DEF Holding, Steps
      <4>2. CASE \E seen \in DarkRisk :
                    analysis' = [analysis EXCEPT ![a].pc = "ghosts", ![a].risk = seen]
        BY <1>1, <2>1, <4>2 DEF Analysing, Holding
      <4> QED  BY <3>3, <4>1, <4>2 DEF Correlate
    <3>4. CASE ReadGhosts(a) \/ Alert(a)
      BY <1>1, <2>1, <3>4 DEF ReadGhosts, Alert, Analysing, Holding
    <3>5. CASE ReadForOptical(a)
      <4>1. CASE Goto(a, "change")  BY <3>1, <4>1 DEF Holding, Steps
      <4>2. CASE \E read : analysis' = [analysis EXCEPT ![a].pc = "tag", ![a].read = read]
        BY <1>1, <2>1, <4>2 DEF Analysing, Holding
      <4> QED  BY <3>5, <4>1, <4>2 DEF ReadForOptical
    <3> QED  BY <1>6, <3>2, <3>3, <3>4, <3>5
  <2> QED  BY <1>K, <2>1, <2>2, <2>3
(* A request that starts: of two on one scan, the scan is shared. *)
<1>7. ASSUME NEW a \in Analysis, Begin(a) PROVE DeletedInv'
  <2>1. PICK t \in ScanId : t = analysis[a].scan  BY <1>1
  <2>2. /\ UNCHANGED <<dir, removed, redrawn>> /\ Join(t)
        /\ \A b \in Analysis \ {a} : analysis'[b] = analysis[b]
        /\ analysis'[a].scan = t /\ analysis'[a].pc = "mask"
    BY <1>1, <1>7, <2>1 DEF Begin, Analysing
  <2>3. /\ shared \subseteq shared'
        /\ t \notin shared' => \A b \in Analysis : ~WorksOn(analysis[b], t)
    BY <2>2 DEF Join, Working, WorksOn
  <2>4. ASSUME NEW s \in ScanId \ shared', NEW b \in Analysis, NEW c \in Analysis,
               WorksOn(analysis'[b], s), WorksOn(analysis'[c], s)
        PROVE  b = c
    <3>1. CASE s = t  BY <2>2, <2>3, <2>4, <3>1
    <3>2. CASE s # t
      <4>1. b # a /\ c # a  BY <2>2, <2>4, <3>2 DEF WorksOn
      <4> QED  BY <1>2, <2>2, <2>3, <2>4, <4>1
    <3> QED  BY <3>1, <3>2
  <2>5. ASSUME NEW s \in removed' \ (redrawn' \cup shared')
        PROVE  Blank(s, dir'[s], analysis')
    <3>1. Blank(s, dir[s], analysis)  BY <1>2, <2>2, <2>3, <2>5
    <3> QED  BY <2>2, <3>1 DEF Blank, Holding
  <2> QED  BY <1>0, <1>1, <2>2, <2>4, <2>5 DEF DeletedInv
<1>8. ASSUME UNCHANGED <<analysis, removed, redrawn>>, shared \subseteq shared',
             \A s \in ScanId : /\ dir'[s].pictures = dir[s].pictures
                              /\ dir'[s].exists = dir[s].exists
      PROVE  DeletedInv'
  <2>1. \A s \in removed' \ (redrawn' \cup shared') : Blank(s, dir'[s], analysis')
    BY <1>1, <1>2, <1>8 DEF Blank
  <2>2. \A s \in ScanId \ shared' : \A a, b \in Analysis :
           WorksOn(analysis'[a], s) /\ WorksOn(analysis'[b], s) => a = b
    BY <1>2, <1>8
  <2> QED  BY <1>0, <1>1, <1>8, <2>1, <2>2 DEF DeletedInv
<1>9. ASSUME NEW q \in Renamer, ReadToRename(q) PROVE DeletedInv'
  BY <1>8, <1>9 DEF ReadToRename, Join
<1>10. ASSUME NEW q \in Renamer, WriteName(q) PROVE DeletedInv'
  <2>1. PICK t \in ScanId : t = rename[q].scan  BY <1>1
  <2>2. \A s \in ScanId : /\ dir'[s].pictures = dir[s].pictures
                         /\ dir'[s].exists = dir[s].exists
    BY <1>1, <1>10, <2>1 DEF WriteName, Save, ScanFolder
  <2> QED  BY <1>8, <1>10, <2>2 DEF WriteName
<1>11. ASSUME NEW t \in ScanId, Remove(t) PROVE DeletedInv'
  <2>1. /\ dir'[t].pictures = {} /\ dir'[t].exists = FALSE
        /\ \A s \in ScanId : s # t => dir'[s] = dir[s]
        /\ removed' = removed \cup {t} /\ UNCHANGED <<redrawn, shared, analysis>>
    BY <1>1, <1>11 DEF Remove, Gone
  <2>2. ASSUME NEW s \in removed' \ (redrawn' \cup shared')
        PROVE  Blank(s, dir'[s], analysis')
    <3>1. CASE s = t  BY <2>1, <3>1 DEF Blank
    <3>2. CASE s # t
      <4>1. Blank(s, dir[s], analysis) /\ dir'[s] = dir[s]
        BY <1>1, <1>2, <2>1, <2>2, <3>2
      <4> QED  BY <2>1, <4>1
    <3> QED  BY <3>1, <3>2
  <2> QED  BY <1>0, <1>1, <1>2, <2>1, <2>2 DEF DeletedInv
<1>12. CASE UNCHANGED analysisVars
  BY <1>8, <1>12 DEF analysisVars
<1> QED
  BY <1>3, <1>4, <1>5, <1>6, <1>7, <1>9, <1>10, <1>11, <1>12 DEF AnalysisNext

(* A deleted scan is listed again only when its DEM or route picture was    *)
(* drawn into the removed folder or two requests were at it at once.        *)
THEOREM DeletedAlwaysStaysDeleted == AnalysisSpec => []DeletedStaysDeleted
<1>1. AnalysisInit => DeletedInv
  <2> SUFFICES ASSUME AnalysisInit PROVE DeletedInv
    OBVIOUS
  <2>1. \A a \in Analysis : analysis[a].pc = "idle"  BY DEF AnalysisInit
  <2>2. removed = {}  BY DEF AnalysisInit
  <2> QED  BY <2>1, <2>2, CatalogInitially DEF DeletedInv, WorksOn
<1>2. DeletedInv => DeletedStaysDeleted
  BY DEF DeletedInv, DeletedStaysDeleted, Listed, Blank
<1> QED  BY <1>1, <1>2, DeletedStep, PTL DEF AnalysisSpec

-----------------------------------------------------------------------------
(***************************************************************************)
(* The relationship graph, for any records, registry, depth and cap.  The  *)
(* graph stays finite and its edges lead from node to node: a vessel is a  *)
(* node or waits to be linked.  An edge carries at most the difference of  *)
(* its ends, so an iteration lifts a node to at most one of its            *)
(* neighbours, and two of them to at most a node two edges away.  What     *)
(* get_subgraph visits, layer by layer, is the ball of that radius.  The   *)
(* recursive functions are handled by a least counterexample.              *)
(***************************************************************************)
(* A nonempty set of numbers has a least one. *)
LEMMA LeastNumber ==
    ASSUME NEW T \in SUBSET Nat, T # {}
    PROVE  \E t \in T : \A u \in T : t <= u
<1>1. PICK t \in T : \A u \in T : ~(<<u, t>> \in OpToRel(<, Nat))
  BY WFMin, NatLessThanWellFounded, Zenon
<1>2. \A u \in T : ~(u < t)
  BY <1>1 DEF OpToRel
<1>3. \A u \in T : u \in Nat /\ t \in Nat
  OBVIOUS
<1> QED
  BY <1>2, <1>3, SMT

(* One below a bound has a greatest. *)
LEMMA GreatestOf ==
    ASSUME NEW N \in Nat, NEW T \in SUBSET (0..N), T # {}
    PROVE  \E t \in T : \A u \in T : t >= u
<1> DEFINE D == {k \in 0..N : N - k \in T}
<1>1. D \in SUBSET Nat /\ D # {}
  <2>1. PICK t \in T : t \in 0..N
    OBVIOUS
  <2>2. N - t \in 0..N /\ N - (N - t) = t
    BY <2>1
  <2>3. N - t \in D
    BY <2>2
  <2>4. \A k \in 0..N : k \in Nat
    OBVIOUS
  <2> QED
    BY <2>3, <2>4
<1>2. PICK d \in D : \A e \in D : d <= e
  <2> HIDE DEF D
  <2> QED
    BY <1>1, LeastNumber
<1>3. d \in 0..N /\ N - d \in T
  OBVIOUS
<1>4. ASSUME NEW u \in T PROVE N - d >= u
  <2>1. u \in 0..N /\ N - u \in 0..N /\ N - (N - u) = u
    OBVIOUS
  <2>2. N - u \in D
    BY <2>1
  <2>3. d <= N - u
    BY <1>2, <2>2
  <2> QED
    BY <1>3, <2>1, <2>3
<1> QED
  BY <1>3, <1>4

(* A set that has 0 and with each number below n the next has all up to n. *)
LEMMA AllUpTo ==
    ASSUME NEW n \in Nat, NEW S, 0 \in S, \A k \in 0..n : k \in S /\ k < n => k + 1 \in S
    PROVE  \A k \in 0..n : k \in S
<1> DEFINE T == {k \in 0..n : k \notin S}
<1>1. SUFFICES ASSUME T # {} PROVE FALSE
  OBVIOUS
<1>2. PICK t \in T : \A u \in T : t <= u
  <2>1. T \in SUBSET Nat
    OBVIOUS
  <2> QED
    BY <1>1, <2>1, LeastNumber
<1>3. t # 0 /\ t \in 0..n /\ t \notin S
  OBVIOUS
<1>4. t - 1 \in 0..n /\ t - 1 < n /\ (t - 1) + 1 = t
  BY <1>3
<1>5. t - 1 \notin T
  BY <1>2, <1>3, <1>4
<1>6. t - 1 \in S
  BY <1>4, <1>5
<1> QED
  BY <1>3, <1>4, <1>6

LEMMA ScaledMonotone ==
    ASSUME NEW a \in Int, NEW b \in Int, NEW n \in Nat, a <= b
    PROVE  n * a <= n * b
<1>1. b - a \in Nat
  OBVIOUS
<1>2. n * (b - a) \in Nat
  BY <1>1
<1>3. n * (b - a) = n * b - n * a
  OBVIOUS
<1> QED
  BY <1>2, <1>3

(* A share of a of not more than one is not more than a. *)
LEMMA ShareBounded ==
    ASSUME NEW a \in Nat, NEW b \in Nat, NEW c \in Nat \ {0}, b <= c
    PROVE  (a * b) \div c \in 0..a
<1> DEFINE q == (a * b) \div c
           r == (a * b) % c
<1>1. a * b \in Nat /\ a * c \in Nat /\ a * b <= a * c
  BY ScaledMonotone
<1>2. q \in Int /\ r \in 0..(c - 1) /\ a * b = c * q + r
  BY <1>1
<1> HIDE DEF q, r
<1>3. ~(q < 0)
  <2>1. SUFFICES ASSUME q <= -1 PROVE FALSE
    BY <1>2
  <2>2. c * q <= c * (-1)
    BY <1>2, <2>1, ScaledMonotone
  <2>3. c * q \in Int
    BY <1>2
  <2> QED
    BY <1>1, <1>2, <2>2, <2>3
<1>4. ~(q > a)
  <2>1. SUFFICES ASSUME a + 1 <= q PROVE FALSE
    BY <1>2
  <2>2. c * (a + 1) <= c * q
    BY <1>2, <2>1, ScaledMonotone
  <2>3. c * (a + 1) = a * c + c
    OBVIOUS
  <2>4. c * q \in Int
    BY <1>2
  <2> QED
    BY <1>1, <1>2, <2>2, <2>3, <2>4
<1> QED
  BY <1>2, <1>3, <1>4 DEF q

(* The image of a finite set is finite. *)
LEMMA FiniteImage ==
    ASSUME NEW S, IsFiniteSet(S), NEW f, S \subseteq DOMAIN f
    PROVE  IsFiniteSet({f[x] : x \in S})
<1> DEFINE T == {f[x] : x \in S}
           g == [x \in S |-> f[x]]
<1>1. g \in [S -> T] /\ \A t \in T : \E x \in S : g[x] = t
  OBVIOUS
<1> HIDE DEF g, T
<1>2. g \in Surjection(S, T)
  BY <1>1, Fun_IsSurj
<1>3. IsFiniteSet(T)
  BY <1>2, FS_Surjection
<1> QED
  BY <1>3 DEF T

-----------------------------------------------------------------------------
IsSeq(s) == s \in Seq(Range(s))

LEMMA IsSeqIs ==
    ASSUME NEW s
    PROVE  (\E S : s \in Seq(S)) <=> IsSeq(s)
<1>1. ASSUME NEW S, s \in Seq(S) PROVE s \in Seq(Range(s))
  <2>1. Len(s) \in Nat /\ s \in [1..Len(s) -> S]
    BY <1>1
  <2>2. s \in [1..Len(s) -> Range(s)]
    BY <2>1 DEF Range
  <2> QED
    BY <2>1, <2>2
<1> QED
  BY <1>1 DEF IsSeq

LEMMA AddRecordIsSeq ==
    ASSUME NEW vs, IsSeq(vs), NEW r
    PROVE  IsSeq(AddRecord(vs, r))
<1> DEFINE same == {i \in DOMAIN vs : vs[i].mmsi = r.mmsi}
           merged == [i \in DOMAIN vs |-> IF i \in same THEN Merge(vs[i], r) ELSE vs[i]]
<1>1. CASE same = {}
  <2>1. AddRecord(vs, r) = Append(vs, r)
    BY <1>1 DEF AddRecord
  <2>2. vs \in Seq(Range(vs) \cup {r}) /\ r \in Range(vs) \cup {r}
    <3>1. vs \in [1..Len(vs) -> Range(vs)] /\ Len(vs) \in Nat
      BY DEF IsSeq
    <3>2. vs \in [1..Len(vs) -> Range(vs) \cup {r}]
      BY <3>1
    <3> QED
      BY <3>1, <3>2
  <2>3. Append(vs, r) \in Seq(Range(vs) \cup {r})
    BY <2>2, AppendProperties
  <2> QED
    BY <2>1, <2>3, IsSeqIs
<1>2. CASE same # {}
  <2>1. AddRecord(vs, r) = merged
    BY <1>2 DEF AddRecord
  <2>2. DOMAIN vs = 1..Len(vs) /\ Len(vs) \in Nat
    BY DEF IsSeq
  <2>3. merged \in [1..Len(vs) -> Range(merged)]
    BY <2>2 DEF Range
  <2>4. merged \in Seq(Range(merged))
    <3> HIDE DEF merged
    <3> QED
      BY <2>2, <2>3
  <2> HIDE DEF merged
  <2> QED
    BY <2>1, <2>4, IsSeqIs
<1> QED
  BY <1>1, <1>2

(* The merged vessels are a sequence, whatever the reports are. *)
LEMMA VesselsIsSeq ==
    ASSUME NEW reports, IsSeq(reports)
    PROVE  IsSeq(Vessels(reports))
<1> DEFINE n == Len(reports)
           Is(f, k) == f = [i \in 0..k |-> IF i = 0 THEN <<>> ELSE AddRecord(f[i - 1], reports[i])]
           S == {k \in 0..n : \E f : Is(f, k)}
           merged == CHOOSE f : Is(f, n)
<1>1. n \in Nat
  BY DEF IsSeq
<1>2. 0 \in S
  <2> DEFINE f == [i \in 0..0 |-> <<>>]
  <2>1. \A i \in 0..0 : i = 0
    OBVIOUS
  <2>2. Is(f, 0)
    BY <2>1
  <2> HIDE DEF Is
  <2> QED
    BY <1>1, <2>2
<1>3. ASSUME NEW k \in 0..n, k \in S, k < n PROVE k + 1 \in S
  <2>1. PICK f : Is(f, k)
    BY <1>3
  <2> DEFINE g == [i \in 0..(k + 1) |-> IF i = k + 1 THEN AddRecord(f[k], reports[k + 1])
                                        ELSE f[i]]
  <2>2. \A i \in 0..k : f[i] = IF i = 0 THEN <<>> ELSE AddRecord(f[i - 1], reports[i])
    BY <2>1
  <2>3. \A i \in 0..(k + 1) : g[i] = IF i = 0 THEN <<>> ELSE AddRecord(g[i - 1], reports[i])
    <3>1. SUFFICES ASSUME NEW i \in 0..(k + 1)
                   PROVE  g[i] = IF i = 0 THEN <<>> ELSE AddRecord(g[i - 1], reports[i])
      OBVIOUS
    <3>2. CASE i = k + 1
      <4>1. k \in 0..(k + 1) /\ k # k + 1 /\ k + 1 # 0
        BY <1>1
      <4>2. g[k] = f[k]
        BY <4>1
      <4>3. g[k + 1] = AddRecord(f[k], reports[k + 1])
        BY <3>2
      <4>4. i - 1 = k /\ i # 0
        BY <1>1, <3>2
      <4> HIDE DEF g
      <4> QED
        BY <3>2, <4>2, <4>3, <4>4
    <3>3. CASE i # k + 1
      <4>1. i \in 0..k /\ g[i] = f[i]
        BY <1>1, <3>1, <3>3
      <4>2. i # 0 => i - 1 \in 0..(k + 1) /\ i - 1 # k + 1
        BY <1>1, <3>1
      <4>3. i # 0 => g[i - 1] = f[i - 1]
        BY <4>2
      <4> HIDE DEF g
      <4> QED
        BY <2>2, <4>1, <4>3
    <3> QED
      BY <3>2, <3>3
  <2>4. Is(g, k + 1)
    <3> DEFINE h == [i \in 0..(k + 1) |-> IF i = 0 THEN <<>> ELSE AddRecord(g[i - 1], reports[i])]
    <3>1. \A i \in 0..(k + 1) : g[i] = h[i]
      BY <2>3
    <3>2. g = h
      BY <3>1
    <3> QED
      BY <3>2
  <2>5. k + 1 \in 0..n
    BY <1>1, <1>3
  <2> HIDE DEF Is, g
  <2> QED
    BY <2>4, <2>5
<1>4. n \in S
  <2> HIDE DEF S, n
  <2>1. \A k \in 0..n : k \in S /\ k < n => k + 1 \in S
    BY <1>3
  <2>2. \A k \in 0..n : k \in S
    BY <1>1, <1>2, <2>1, AllUpTo
  <2> QED
    BY <1>1, <2>2
<1>5. Is(merged, n)
  <2>1. \E f : Is(f, n)
    BY <1>4
  <2> HIDE DEF Is
  <2> QED
    BY <2>1
<1>6. Vessels(reports) = merged[n]
  BY DEF Vessels
<1>7. \A i \in 0..n : merged[i] = IF i = 0 THEN <<>> ELSE AddRecord(merged[i - 1], reports[i])
  <2>1. merged = [i \in 0..n |-> IF i = 0 THEN <<>> ELSE AddRecord(merged[i - 1], reports[i])]
    BY <1>5
  <2> HIDE DEF merged, n
  <2> QED
    BY <2>1
<1> DEFINE T == {i \in 0..n : IsSeq(merged[i])}
<1> HIDE DEF merged
<1>8. 0 \in T
  <2>1. 0 \in 0..n
    BY <1>1
  <2>2. merged[0] = <<>>
    BY <1>7, <2>1
  <2>3. <<>> \in Seq({})
    OBVIOUS
  <2>4. IsSeq(<<>>)
    BY <2>3, IsSeqIs
  <2> QED
    BY <2>1, <2>2, <2>4
<1>9. ASSUME NEW k \in 0..n, k \in T, k < n PROVE k + 1 \in T
  <2>1. k + 1 \in 0..n /\ k + 1 # 0 /\ (k + 1) - 1 = k
    <3> HIDE DEF T, n
    <3> QED
      BY <1>1, <1>9
  <2>2. merged[k + 1] = AddRecord(merged[k], reports[k + 1])
    <3> HIDE DEF n
    <3> QED
      BY <1>7, <2>1
  <2>3. IsSeq(merged[k])
    BY <1>9
  <2> QED
    BY <2>1, <2>2, <2>3, AddRecordIsSeq
<1>10. n \in T
  <2> HIDE DEF T, n
  <2>1. \A k \in 0..n : k \in T /\ k < n => k + 1 \in T
    BY <1>9
  <2>2. \A k \in 0..n : k \in T
    BY <1>1, <1>8, <2>1, AllUpTo
  <2> QED
    BY <1>1, <2>2
<1> QED
  BY <1>6, <1>10

-----------------------------------------------------------------------------
(* What is around a node and what get_subgraph visits, of given edges. *)
Ends(E) == {e.source : e \in E} \cup {e.target : e \in E}

Nbr(E, B) == B \cup UNION {{e.source, e.target} : e \in {e \in E : {e.source, e.target} \cap B # {}}}

Ball(E, n, k) ==
    LET ball[i \in 0..k] == IF i = 0 THEN {n} ELSE Nbr(E, ball[i - 1])
    IN  ball[k]

NextOf(E, visited, layer) ==
    ({e.target : e \in {e \in E : e.source \in layer}}
     \cup {e.source : e \in {e \in E : e.target \in layer}}) \ visited

VisitedOf(E, focal, depth) ==
    LET layers[k \in 0..depth] ==
            IF k = 0 THEN [visited |-> {focal}, layer |-> {focal}]
            ELSE LET next == NextOf(E, layers[k - 1].visited, layers[k - 1].layer)
                 IN  [visited |-> layers[k - 1].visited \cup next, layer |-> next]
    IN  layers[depth].visited

LEMMA AroundIs == \A n, k : Around(n, k) = Ball(whole.edges, n, k)
  BY DEF Around, Ball, Nbr

LEMMA AroundIsThen == \A n, k : Around(n, k)' = Ball(whole'.edges, n, k)
  BY DEF Around, Ball, Nbr

LEMMA VisitedIs == \A focal : Visited(focal) = VisitedOf(edges, focal, request.depth)
  BY DEF Visited, VisitedOf, NextLayer, NextOf

(* What a function yields when it is applied again and again. *)
LEMMA Iterates ==
    ASSUME NEW n \in Nat, NEW X, NEW x \in X, NEW F \in [X -> X]
    PROVE  \E f \in [0..n -> X] : f = [i \in 0..n |-> IF i = 0 THEN x ELSE F[f[i - 1]]]
<1> DEFINE Is(f, k) == /\ f \in [0..k -> X]
                       /\ \A i \in 0..k : f[i] = IF i = 0 THEN x ELSE F[f[i - 1]]
           S == {k \in 0..n : \E f : Is(f, k)}
<1>1. 0 \in S
  <2> DEFINE f == [i \in 0..0 |-> x]
  <2>1. Is(f, 0)
    OBVIOUS
  <2> HIDE DEF Is
  <2> QED
    BY <2>1
<1>2. ASSUME NEW k \in 0..n, k \in S, k < n PROVE k + 1 \in S
  <2>1. PICK f : Is(f, k)
    BY <1>2
  <2> DEFINE g == [i \in 0..(k + 1) |-> IF i = k + 1 THEN F[f[k]] ELSE f[i]]
  <2>2. k \in 0..k /\ k \in Nat
    OBVIOUS
  <2>3. \A i \in 0..(k + 1) : i = k + 1 \/ i \in 0..k
    BY <2>2
  <2>4. f[k] \in X /\ F[f[k]] \in X
    BY <2>1, <2>2
  <2>5. g \in [0..(k + 1) -> X]
    BY <2>1, <2>3, <2>4
  <2>6. \A i \in 0..(k + 1) : g[i] = IF i = 0 THEN x ELSE F[g[i - 1]]
    <3>1. SUFFICES ASSUME NEW i \in 0..(k + 1) PROVE g[i] = IF i = 0 THEN x ELSE F[g[i - 1]]
      OBVIOUS
    <3>2. CASE i = k + 1
      <4>1. i - 1 = k /\ i # 0 /\ k \in 0..(k + 1) /\ k # k + 1
        BY <2>2, <3>2
      <4>2. g[k] = f[k] /\ g[i] = F[f[k]]
        BY <3>2, <4>1
      <4> HIDE DEF g
      <4> QED
        BY <4>1, <4>2
    <3>3. CASE i # k + 1
      <4>1. i \in 0..k /\ g[i] = f[i]
        BY <2>3, <3>3
      <4>2. i # 0 => i - 1 \in 0..(k + 1) /\ i - 1 # k + 1
        BY <2>2, <3>1
      <4>3. i # 0 => g[i - 1] = f[i - 1]
        BY <4>2
      <4> HIDE DEF g
      <4> QED
        BY <2>1, <4>1, <4>3
    <3> QED
      BY <3>2, <3>3
  <2>7. Is(g, k + 1)
    BY <2>5, <2>6
  <2>8. k + 1 \in 0..n
    BY <1>2
  <2> HIDE DEF Is, g
  <2> QED
    BY <2>7, <2>8
<1>3. n \in S
  <2> HIDE DEF S
  <2>1. \A k \in 0..n : k \in S
    BY <1>1, <1>2, AllUpTo
  <2> QED
    BY <2>1
<1>4. PICK f : Is(f, n)
  BY <1>3
<1>5. f = [i \in 0..n |-> IF i = 0 THEN x ELSE F[f[i - 1]]]
  BY <1>4
<1> QED
  BY <1>4, <1>5

IsBall(b, E, n, k) ==
    /\ b[0] = {n}
    /\ \A i \in 0..k : i # 0 => b[i] = Nbr(E, b[i - 1])
    /\ Ball(E, n, k) = b[k]

LEMMA BallIs ==
    ASSUME NEW E, NEW n, NEW k \in Nat
    PROVE  \E b : IsBall(b, E, n, k)
<1> DEFINE X == SUBSET ({n} \cup Ends(E))
           F == [B \in X |-> Nbr(E, B)]
           x0 == {n}
           Is(f) == f = [i \in 0..k |-> IF i = 0 THEN {n} ELSE Nbr(E, f[i - 1])]
           b == CHOOSE f : Is(f)
<1>1. {n} \in X
  OBVIOUS
<1>2. F \in [X -> X]
  <2>1. \A B \in X : Nbr(E, B) \in X
    BY DEF Nbr, Ends
  <2> QED
    BY <2>1
<1>3. \E f : Is(f)
  <2>1. \A B \in X : F[B] = Nbr(E, B)
    OBVIOUS
  <2>7. x0 \in X
    BY <1>1
  <2> HIDE DEF X, F, x0
  <2>8. PICK f \in [0..k -> X] : f = [i \in 0..k |-> IF i = 0 THEN x0 ELSE F[f[i - 1]]]
    BY <2>7, <1>2, Iterates
  <2>2. f = [i \in 0..k |-> IF i = 0 THEN {n} ELSE F[f[i - 1]]]
    BY <2>8 DEF x0
  <2>3. \A i \in 0..k : f[i] = IF i = 0 THEN {n} ELSE F[f[i - 1]]
    BY <2>2
  <2>4. \A i \in 0..k : i # 0 => i - 1 \in 0..k
    OBVIOUS
  <2>5. \A i \in 0..k : f[i] = IF i = 0 THEN {n} ELSE Nbr(E, f[i - 1])
    BY <2>1, <2>3, <2>4
  <2>6. Is(f)
    BY <2>5
  <2> HIDE DEF Is
  <2> QED
    BY <2>6
<1>4. Is(b)
  <2> HIDE DEF Is
  <2> QED
    BY <1>3
<1>5. Ball(E, n, k) = b[k]
  BY DEF Ball
<1>6. \A i \in 0..k : b[i] = IF i = 0 THEN {n} ELSE Nbr(E, b[i - 1])
  <2>1. b = [i \in 0..k |-> IF i = 0 THEN {n} ELSE Nbr(E, b[i - 1])]
    BY <1>4
  <2> HIDE DEF b
  <2> QED
    BY <2>1
<1>7. 0 \in 0..k
  OBVIOUS
<1>8. b[0] = {n} /\ \A i \in 0..k : i # 0 => b[i] = Nbr(E, b[i - 1])
  <2> HIDE DEF b, X, F
  <2> QED
    BY <1>6, <1>7
<1> HIDE DEF b, X, F, Is
<1> QED
  BY <1>5, <1>8 DEF IsBall

IsLayers(l, E, c, k) ==
    /\ l[0] = [visited |-> {c}, layer |-> {c}]
    /\ \A i \in 0..k : i # 0 =>
           LET next == NextOf(E, l[i - 1].visited, l[i - 1].layer)
           IN  l[i] = [visited |-> l[i - 1].visited \cup next, layer |-> next]
    /\ VisitedOf(E, c, k) = l[k].visited

LEMMA VisitedOfIs ==
    ASSUME NEW E, NEW c, NEW k \in Nat
    PROVE  \E l : IsLayers(l, E, c, k)
<1> DEFINE U == SUBSET ({c} \cup Ends(E))
           X == [visited : U, layer : U]
           Step(x) == [visited |-> x.visited \cup NextOf(E, x.visited, x.layer),
                       layer |-> NextOf(E, x.visited, x.layer)]
           F == [x \in X |-> Step(x)]
           x0 == [visited |-> {c}, layer |-> {c}]
           Is(f) == f = [i \in 0..k |->
                           IF i = 0 THEN x0
                           ELSE LET next == NextOf(E, f[i - 1].visited, f[i - 1].layer)
                                IN  [visited |-> f[i - 1].visited \cup next, layer |-> next]]
           l == CHOOSE f : Is(f)
<1>1. x0 \in X
  OBVIOUS
<1>2. F \in [X -> X]
  <2>1. ASSUME NEW x \in X PROVE Step(x) \in X
    <3>1. NextOf(E, x.visited, x.layer) \in U
      BY DEF NextOf, Ends
    <3>2. x.visited \in U
      OBVIOUS
    <3>3. x.visited \cup NextOf(E, x.visited, x.layer) \in U
      BY <3>1, <3>2
    <3> HIDE DEF U
    <3> QED
      BY <3>1, <3>3
  <2> QED
    BY <2>1
<1>3. \E f : Is(f)
  <2>1. \A x \in X : F[x] = Step(x)
    OBVIOUS
  <2> HIDE DEF X, F, x0
  <2>2. PICK f \in [0..k -> X] : f = [i \in 0..k |-> IF i = 0 THEN x0 ELSE F[f[i - 1]]]
    BY <1>1, <1>2, Iterates
  <2>3. \A i \in 0..k : f[i] = IF i = 0 THEN x0 ELSE F[f[i - 1]]
    BY <2>2
  <2>4. \A i \in 0..k : i # 0 => i - 1 \in 0..k
    OBVIOUS
  <2>5. \A i \in 0..k : f[i] = IF i = 0 THEN x0 ELSE Step(f[i - 1])
    <3> HIDE DEF Step
    <3> QED
      BY <2>1, <2>3, <2>4
  <2>6. f = [i \in 0..k |-> IF i = 0 THEN x0 ELSE Step(f[i - 1])]
    <3> HIDE DEF Step
    <3> QED
      BY <2>5
  <2>7. Is(f)
    BY <2>6
  <2> HIDE DEF Is
  <2> QED
    BY <2>7
<1>4. Is(l)
  <2> HIDE DEF Is
  <2> QED
    BY <1>3
<1>5. VisitedOf(E, c, k) = l[k].visited
  BY DEF VisitedOf
<1>6. \A i \in 0..k : l[i] = IF i = 0 THEN x0 ELSE Step(l[i - 1])
  <2>1. l = [i \in 0..k |-> IF i = 0 THEN x0 ELSE Step(l[i - 1])]
    BY <1>4
  <2> HIDE DEF l, Step, x0
  <2> QED
    BY <2>1
<1>7. 0 \in 0..k
  OBVIOUS
<1>8. l[0] = x0
  <2> HIDE DEF l, x0, Step
  <2> QED
    BY <1>6, <1>7
<1>9. \A i \in 0..k : i # 0 => l[i] = Step(l[i - 1])
  <2> HIDE DEF l, x0, Step
  <2> QED
    BY <1>6
<1>10. \A i \in 0..k : i # 0 =>
           LET next == NextOf(E, l[i - 1].visited, l[i - 1].layer)
           IN  l[i] = [visited |-> l[i - 1].visited \cup next, layer |-> next]
  <2> HIDE DEF l
  <2> QED
    BY <1>9
<1> HIDE DEF l, X, F, U, Is, Step
<1> QED
  BY <1>5, <1>8, <1>10 DEF IsLayers

(* get_subgraph visits what lies within its depth, edges taken both ways:  *)
(* before each layer nothing that was visited earlier has a neighbour left.*)
LEMMA VisitedIsBall ==
    ASSUME NEW E, NEW c, NEW k \in Nat
    PROVE  VisitedOf(E, c, k) = Ball(E, c, k)
<1>11. PICK b : IsBall(b, E, c, k)
  BY BallIs
<1>1. /\ b[0] = {c}
      /\ \A i \in 0..k : i # 0 => b[i] = Nbr(E, b[i - 1])
      /\ Ball(E, c, k) = b[k]
  BY <1>11 DEF IsBall
<1>12. PICK l : IsLayers(l, E, c, k)
  BY VisitedOfIs
<1>2. /\ l[0] = [visited |-> {c}, layer |-> {c}]
      /\ \A i \in 0..k : i # 0 =>
             LET next == NextOf(E, l[i - 1].visited, l[i - 1].layer)
             IN  l[i] = [visited |-> l[i - 1].visited \cup next, layer |-> next]
      /\ VisitedOf(E, c, k) = l[k].visited
  BY <1>12 DEF IsLayers
<1> DEFINE Good(i) == /\ l[i].visited = b[i] /\ l[i].layer \subseteq l[i].visited
                      /\ \A e \in E :
                             /\ e.source \in l[i].visited \ l[i].layer => e.target \in l[i].visited
                             /\ e.target \in l[i].visited \ l[i].layer => e.source \in l[i].visited
           S == {i \in 0..k : Good(i)}
<1>3. 0 \in S
  <2>1. l[0].visited = {c} /\ l[0].layer = {c} /\ b[0] = {c}
    BY <1>1, <1>2
  <2>2. Good(0)
    BY <2>1
  <2>3. 0 \in 0..k
    OBVIOUS
  <2> HIDE DEF Good
  <2> QED
    BY <2>2, <2>3
<1>4. ASSUME NEW i \in 0..k, i \in S, i < k PROVE i + 1 \in S
  <2>1. i + 1 \in 0..k /\ i + 1 # 0 /\ (i + 1) - 1 = i
    <3> HIDE DEF S
    <3> QED
      BY <1>4
  <2>2. Good(i)
    BY <1>4
  <2> DEFINE v == l[i].visited
             y == l[i].layer
             next == NextOf(E, v, y)
  <2>3. l[i + 1] = [visited |-> v \cup next, layer |-> next]
    <3> HIDE DEF S, Good
    <3> QED
      BY <1>2, <2>1
  <2>4. b[i + 1] = Nbr(E, v)
    <3>1. b[i + 1] = Nbr(E, b[i])
      <4> HIDE DEF S, Good
      <4> QED
        BY <1>1, <2>1
    <3> QED
      BY <2>2, <3>1
  <2>5. /\ y \subseteq v
        /\ \A e \in E : /\ e.source \in v \ y => e.target \in v
                        /\ e.target \in v \ y => e.source \in v
    BY <2>2
  <2> HIDE DEF v, y, Good
  <2>6. Nbr(E, v) = v \cup next
    <3>1. ASSUME NEW x \in Nbr(E, v), x \notin v PROVE x \in next
      <4>1. PICK e \in E : {e.source, e.target} \cap v # {} /\ x \in {e.source, e.target}
        BY <3>1 DEF Nbr
      <4>2. CASE x = e.target
        <5>1. e.source \in v
          BY <3>1, <4>1, <4>2
        <5>2. e.source \in y
          BY <2>5, <3>1, <4>2, <5>1
        <5> QED
          BY <3>1, <4>2, <5>2 DEF NextOf
      <4>3. CASE x = e.source
        <5>1. e.target \in v
          BY <3>1, <4>1, <4>3
        <5>2. e.target \in y
          BY <2>5, <3>1, <4>3, <5>1
        <5> QED
          BY <3>1, <4>3, <5>2 DEF NextOf
      <4> QED
        BY <4>1, <4>2, <4>3
    <3>2. ASSUME NEW x \in next PROVE x \in Nbr(E, v)
      <4>1. PICK e \in E : \/ x = e.target /\ e.source \in y
                           \/ x = e.source /\ e.target \in y
        BY <3>2 DEF NextOf
      <4>2. {e.source, e.target} \cap v # {} /\ x \in {e.source, e.target}
        BY <2>5, <4>1
      <4> QED
        BY <4>2 DEF Nbr
    <3>3. v \subseteq Nbr(E, v)
      BY DEF Nbr
    <3> HIDE DEF next
    <3> QED
      BY <3>1, <3>2, <3>3
  <2>7. ASSUME NEW e \in E
        PROVE  /\ e.source \in (v \cup next) \ next => e.target \in v \cup next
               /\ e.target \in (v \cup next) \ next => e.source \in v \cup next
    <3>1. e.source \in v => e.target \in Nbr(E, v)
      BY DEF Nbr
    <3>2. e.target \in v => e.source \in Nbr(E, v)
      BY DEF Nbr
    <3> HIDE DEF next
    <3> QED
      BY <2>6, <3>1, <3>2
  <2> HIDE DEF next
  <2>8. Good(i + 1)
    BY <2>3, <2>4, <2>6, <2>7 DEF Good
  <2> QED
    BY <2>1, <2>8
<1>5. k \in S
  <2> HIDE DEF S
  <2>1. \A i \in 0..k : i \in S
    BY <1>3, <1>4, AllUpTo
  <2> QED
    BY <2>1
<1> QED
  BY <1>1, <1>2, <1>5

LEMMA BallOfTwo ==
    ASSUME NEW E, NEW n
    PROVE  Ball(E, n, 2) = Nbr(E, Nbr(E, {n}))
<1>1. PICK b : IsBall(b, E, n, 2)
  BY BallIs
<1>2. b[1] = Nbr(E, b[0]) /\ b[2] = Nbr(E, b[1])
  <2>1. 1 \in 0..2 /\ 1 # 0 /\ 1 - 1 = 0 /\ 2 \in 0..2 /\ 2 # 0 /\ 2 - 1 = 1
    OBVIOUS
  <2> QED
    BY <1>1, <2>1 DEF IsBall
<1> QED
  BY <1>1, <1>2 DEF IsBall

LEMMA NbrMonotone ==
    ASSUME NEW E, NEW B, NEW C, B \subseteq C
    PROVE  Nbr(E, B) \subseteq Nbr(E, C) /\ B \subseteq Nbr(E, B)
  BY DEF Nbr

-----------------------------------------------------------------------------
Level == 0..1000

LEMMA GreatestRisk ==
    ASSUME NEW T \in SUBSET Level, T # {}
    PROVE  \E t \in T : \A u \in T : t >= u
<1>1. PICK N \in Nat : N = 1000
  OBVIOUS
<1>2. T \in SUBSET (0..N)
  BY <1>1 DEF Level
<1> QED
  BY <1>2, GreatestOf

LEMMA ThreeQuarters ==
    ASSUME NEW t \in Level
    PROVE  (t * 3) \div 4 \in Level
  BY DEF Level

(* A finite graph: its nodes with their risks, and its edges. *)
Graph(r, E) ==
    /\ IsFiniteSet(DOMAIN r) /\ IsFiniteSet(E)
    /\ \A n \in DOMAIN r : r[n] \in Level
    /\ \A e \in E : e.source \in DOMAIN r /\ e.target \in DOMAIN r /\ e.weight \in {8, 10, 15, 20}

Within(E, nodes) == {e \in E : {e.source, e.target} \subseteq nodes}

(* Every vessel is a node, or waits to be linked. *)
Linked(vs, rest, nodes) ==
    \A i \in DOMAIN vs : Own(vs[i]) \in nodes \/ \E j \in DOMAIN rest : rest[j] = vs[i]

(* The risk of a node is not below what it was, and not above the worst of *)
(* the nodes it may have come from.                                        *)
Spread1(r, w) ==
    \A n \in DOMAIN r : /\ w.risk[n] <= r[n]
                        /\ \E m \in Nbr(w.edges, {n}) : r[n] <= w.risk[m]

Spread2(r, w) ==
    \A n \in DOMAIN r : /\ w.risk[n] <= r[n]
                        /\ \E m \in Nbr(w.edges, Nbr(w.edges, {n})) : r[n] <= w.risk[m]

Reach(w, q) ==
    LET focal == <<"vessel", q.focal>>
    IN  IF focal \in DOMAIN w.risk THEN Ball(w.edges, focal, q.depth) ELSE DOMAIN w.risk

Answer(r, E, w, q) ==
    /\ DOMAIN r \subseteq Reach(w, q)
    /\ Cardinality(Reach(w, q)) <= Cap => DOMAIN r = Reach(w, q)
    /\ Cardinality(Reach(w, q)) > Cap => Cardinality(DOMAIN r) = Cap

GraphInv ==
    /\ phase \in {"idle", "vessels", "detections", "first", "second", "focus", "limit", "done"}
    /\ Graph(risk, edges)
    /\ IsSeq(request.vessels) /\ IsSeq(todo)
    /\ request.depth \in Nat /\ IsFiniteSet(request.targets)
    /\ phase \in {"idle", "vessels"} => Linked(request.vessels, todo, Node)
    /\ phase = "detections" => Linked(request.vessels, <<>>, Node)
    /\ phase \in {"first", "second", "focus", "limit", "done"} => Graph(whole.risk, whole.edges)
    /\ phase \in {"first", "second", "focus"} =>
           DOMAIN risk = DOMAIN whole.risk /\ edges = whole.edges
    /\ phase = "first" => \A n \in Node : risk[n] = whole.risk[n]
    /\ phase = "second" => Spread1(risk, whole)
    /\ phase \in {"focus", "limit", "done"} => Spread2(risk, whole)
    /\ phase = "limit" => Node = Reach(whole, request)
    /\ phase = "done" => Answer(risk, edges, whole, request)
    /\ phase \in {"limit", "done"} =>
           Node \subseteq DOMAIN whole.risk /\ edges = Within(whole.edges, Node)

LEMMA InvSound == GraphInv => NetworkSound
<1> SUFFICES ASSUME GraphInv, phase = "done" PROVE NetworkSound
  BY DEF NetworkSound
<1>1. Asked = Reach(whole, request)
  BY AroundIs DEF Asked, Reach
<1>2. \A n : Around(n, 2) = Nbr(whole.edges, Nbr(whole.edges, {n}))
  BY AroundIs, BallOfTwo
<1>3. /\ Answer(risk, edges, whole, request) /\ Spread2(risk, whole)
      /\ edges = Within(whole.edges, Node) /\ Graph(risk, edges)
      /\ Graph(whole.risk, whole.edges) /\ Node \subseteq DOMAIN whole.risk
  BY DEF GraphInv
<1>4. \A n \in Node : /\ risk[n] >= whole.risk[n]
                      /\ \E m \in Around(n, 2) : risk[n] <= whole.risk[m]
  <2>1. SUFFICES ASSUME NEW n \in Node
                 PROVE  risk[n] >= whole.risk[n] /\ \E m \in Around(n, 2) : risk[n] <= whole.risk[m]
    OBVIOUS
  <2>2. risk[n] \in Level /\ whole.risk[n] \in Level
    BY <1>3 DEF Graph, Node
  <2>3. /\ whole.risk[n] <= risk[n]
        /\ \E m \in Nbr(whole.edges, Nbr(whole.edges, {n})) : risk[n] <= whole.risk[m]
    BY <1>3 DEF Spread2, Node
  <2>4. risk[n] >= whole.risk[n]
    BY <2>2, <2>3 DEF Level
  <2> QED
    BY <1>2, <2>3, <2>4
<1>5. edges = {e \in whole.edges : {e.source, e.target} \subseteq Node}
  BY <1>3 DEF Within
<1> QED
  BY <1>1, <1>3, <1>4, <1>5 DEF NetworkSound, Answer, Node

LEMMA GraphInitHolds == GraphInit => GraphInv
<1> SUFFICES ASSUME GraphInit PROVE GraphInv
  OBVIOUS
<1>1. /\ phase = "idle" /\ request = Nothing /\ todo = <<>> /\ risk = Empty /\ edges = {}
  BY DEF GraphInit
<1>2. DOMAIN risk = {}
  BY <1>1 DEF Empty
<1>3. Graph(risk, edges)
  BY <1>1, <1>2, FS_EmptySet DEF Graph
<1>4. IsSeq(<<>>)
  <2>1. <<>> \in Seq({})
    OBVIOUS
  <2> QED
    BY <2>1, IsSeqIs
<1>5. /\ request.vessels = <<>> /\ request.depth = 0 /\ request.targets = {}
  BY <1>1 DEF Nothing
<1>6. Linked(<<>>, <<>>, Node)
  BY DEF Linked
<1> QED
  BY <1>1, <1>3, <1>4, <1>5, <1>6, FS_EmptySet DEF GraphInv

LEMMA ReceiveSafe ==
    ASSUME GraphInv, Receive
    PROVE  GraphInv'
<1>1. PICK reports \in UNION {[1..n -> Report] : n \in 0..MaxReports}, targets \in Target,
           focal \in {r.mmsi : r \in Report} \cup {Absent}, depth \in Hops, spread \in BOOLEAN :
          /\ request' = [vessels |-> Vessels(reports), reports |-> reports, targets |-> targets,
                         focal |-> focal, depth |-> depth, spread |-> spread]
          /\ todo' = Vessels(reports)
  BY DEF Receive
<1>2. phase' = "vessels" /\ UNCHANGED <<risk, marked, edges, whole>>
  BY DEF Receive
<1>3. IsSeq(reports)
  <2>1. PICK n \in 0..MaxReports : reports \in [1..n -> Report]
    OBVIOUS
  <2>2. n \in Nat
    BY GraphAssumption
  <2>3. reports \in Seq(Report)
    BY <2>1, <2>2
  <2> QED
    BY <2>3, IsSeqIs
<1>4. IsSeq(Vessels(reports))
  BY <1>3, VesselsIsSeq
<1>5. depth \in Nat /\ IsFiniteSet(targets)
  BY GraphAssumption
<1>6. /\ request'.vessels = Vessels(reports) /\ request'.targets = targets
      /\ request'.depth = depth
  BY <1>1
<1>7. Linked(request'.vessels, todo', Node')
  BY <1>1, <1>6 DEF Linked
<1>8. Graph(risk, edges)
  BY DEF GraphInv
<1> QED
  BY <1>1, <1>2, <1>4, <1>5, <1>6, <1>7, <1>8 DEF GraphInv

(* What a vessel is linked to. *)
LEMMA LinksAre ==
    ASSUME NEW v
    PROVE  /\ IsFiniteSet(Links(v))
           /\ \A l \in Links(v) : l.risk \in Level
           /\ VesselRisk(v) \in Level
<1>1. /\ \A f \in Flags(v) : f.threat \in Level
      /\ IsFiniteSet(Flags(v))
  <2>1. CASE v.flag # Absent
    <3>4. PICK x : x = [flag |-> v.flag, threat |-> 100]
      OBVIOUS
    <3>1. Flags(v) = {x}
      BY <2>1, <3>4 DEF Flags
    <3>2. \A f \in Flags(v) : f.threat = 100
      BY <3>1, <3>4
    <3>3. IsFiniteSet(Flags(v))
      BY <3>1, FS_Singleton
    <3> QED
      BY <3>2, <3>3 DEF Level
  <2>2. CASE v.flag = Absent /\ v.mmsi \in DOMAIN Registry
    <3>1. Flags(v) = {Registry[v.mmsi]}
      BY <2>2 DEF Flags
    <3>2. Registry[v.mmsi].threat \in Level
      <4>1. \A m \in DOMAIN Registry : Registry[m].threat \in Level
        BY GraphAssumption DEF Level
      <4> QED
        BY <2>2, <4>1, Zenon
    <3> QED
      BY <3>1, <3>2, FS_Singleton
  <2>3. CASE v.flag = Absent /\ v.mmsi \notin DOMAIN Registry
    <3>1. Flags(v) = {}
      BY <2>3 DEF Flags
    <3> QED
      BY <3>1, FS_EmptySet
  <2> QED
    BY <2>1, <2>2, <2>3
<1> DEFINE Flagged == {[node |-> <<"flag", f.flag>>, risk |-> f.threat, mark |-> f.threat >= 700,
                        type |-> "FLAGGED_AS"] : f \in Flags(v)}
           Calls == {[node |-> <<"port", d>>, risk |-> 100, mark |-> FALSE,
                      type |-> "VISITED_PORT"] : d \in Ports(v)}
           Sails == {[node |-> <<"route", d>>, risk |-> 150, mark |-> FALSE,
                      type |-> "TRAVELED_ROUTE"] : d \in Routes(v)}
           Operates == IF v.operator = Absent THEN {}
                       ELSE {[node |-> <<"operator", v.operator>>,
                              risk |-> IF v.sanctioned = TRUE THEN 950 ELSE 200,
                              mark |-> v.sanctioned = TRUE, type |-> "OPERATED_BY"]}
<1>2. Links(v) = Flagged \cup Calls \cup Sails \cup Operates
  BY DEF Links
<1>3. IsFiniteSet(Flagged) /\ \A l \in Flagged : l.risk \in Level
  <2> DEFINE g == [f \in Flags(v) |-> [node |-> <<"flag", f.flag>>, risk |-> f.threat,
                                       mark |-> f.threat >= 700, type |-> "FLAGGED_AS"]]
  <2>1. Flagged = {g[f] : f \in Flags(v)} /\ DOMAIN g = Flags(v)
    OBVIOUS
  <2>2. \A l \in Flagged : l.risk \in Level
    BY <1>1
  <2> HIDE DEF g
  <2>3. IsFiniteSet({g[f] : f \in Flags(v)})
    BY <1>1, <2>1, FiniteImage
  <2> QED
    BY <2>1, <2>2, <2>3
<1>9. \A x, S : IsFiniteSet({x} \ S)
  <2>1. SUFFICES ASSUME NEW x, NEW S PROVE IsFiniteSet({x} \ S)
    OBVIOUS
  <2>2. IsFiniteSet({x}) /\ {x} \ S \subseteq {x}
    BY FS_Singleton
  <2> QED
    BY <2>2, FS_Subset
<1>4. IsFiniteSet(Calls) /\ \A l \in Calls : l.risk \in Level
  <2> DEFINE g == [d \in Ports(v) |-> [node |-> <<"port", d>>, risk |-> 100, mark |-> FALSE,
                                       type |-> "VISITED_PORT"]]
  <2>1. Calls = {g[d] : d \in Ports(v)} /\ DOMAIN g = Ports(v)
    OBVIOUS
  <2>2. \A l \in Calls : l.risk \in Level
    BY DEF Level
  <2>3. IsFiniteSet(Ports(v))
    BY <1>9 DEF Ports
  <2> HIDE DEF g
  <2>4. IsFiniteSet({g[d] : d \in Ports(v)})
    BY <2>1, <2>3, FiniteImage
  <2> QED
    BY <2>1, <2>2, <2>4
<1>10. IsFiniteSet(Sails) /\ \A l \in Sails : l.risk \in Level
  <2> DEFINE g == [d \in Routes(v) |-> [node |-> <<"route", d>>, risk |-> 150, mark |-> FALSE,
                                        type |-> "TRAVELED_ROUTE"]]
  <2>1. Sails = {g[d] : d \in Routes(v)} /\ DOMAIN g = Routes(v)
    OBVIOUS
  <2>2. \A l \in Sails : l.risk \in Level
    BY DEF Level
  <2>3. IsFiniteSet(Routes(v))
    BY <1>9, FS_Singleton DEF Routes
  <2> HIDE DEF g
  <2>4. IsFiniteSet({g[d] : d \in Routes(v)})
    BY <2>1, <2>3, FiniteImage
  <2> QED
    BY <2>1, <2>2, <2>4
<1>5. IsFiniteSet(Operates) /\ \A l \in Operates : l.risk \in Level
  <2>1. IsFiniteSet(Operates)
    <3>1. CASE v.operator = Absent
      <4>1. Operates = {}
        BY <3>1
      <4> QED
        BY <4>1, FS_EmptySet
    <3>2. CASE v.operator # Absent
      <4>3. PICK m \in BOOLEAN : m = (v.sanctioned = TRUE)
        OBVIOUS
      <4>4. PICK k : k = IF v.sanctioned = TRUE THEN 950 ELSE 200
        OBVIOUS
      <4>2. PICK a : a = [node |-> <<"operator", v.operator>>, risk |-> k, mark |-> m,
                          type |-> "OPERATED_BY"]
        OBVIOUS
      <4>1. Operates = {a}
        BY <3>2, <4>2, <4>3, <4>4
      <4> HIDE DEF Operates
      <4> QED
        BY <4>1, FS_Singleton
    <3> QED
      BY <3>1, <3>2
  <2>2. \A l \in Operates : l.risk \in Level
    BY DEF Level
  <2> QED
    BY <2>1, <2>2
<1>6. VesselRisk(v) \in Level
  <2> DEFINE dangers == {(f.threat * 3) \div 4 : f \in {f \in Flags(v) : f.threat >= 700}}
             all == dangers \cup {BaseRisk(v)}
  <2>1. BaseRisk(v) \in Level
    BY DEF BaseRisk, Level
  <2>2. \A d \in dangers : d \in Level
    <3>1. SUFFICES ASSUME NEW f \in Flags(v) PROVE (f.threat * 3) \div 4 \in Level
      OBVIOUS
    <3> HIDE DEF dangers, all
    <3>2. f.threat \in Level
      BY <1>1, <3>1
    <3> QED
      BY <3>2, ThreeQuarters
  <2>7. all = dangers \cup {BaseRisk(v)}
    OBVIOUS
  <2>3. all \in SUBSET Level /\ all # {}
    <3> HIDE DEF all, dangers
    <3> QED
      BY <2>1, <2>2, <2>7
  <2>4. VesselRisk(v) = CHOOSE r \in all : \A s \in all : r >= s
    BY DEF VesselRisk
  <2> HIDE DEF all, dangers
  <2>5. \E r \in all : \A s \in all : r >= s
    BY <2>3, GreatestRisk
  <2>6. VesselRisk(v) \in all
    BY <2>4, <2>5
  <2> QED
    BY <2>3, <2>6
<1>7. IsFiniteSet(Links(v))
  <2> HIDE DEF Flagged, Calls, Sails, Operates
  <2>1. IsFiniteSet(Flagged \cup Calls)
    BY <1>3, <1>4, FS_Union
  <2>2. IsFiniteSet(Flagged \cup Calls \cup Sails)
    BY <1>10, <2>1, FS_Union
  <2> QED
    BY <1>2, <1>5, <2>2, FS_Union
<1>8. \A l \in Links(v) : l.risk \in Level
  <2> HIDE DEF Flagged, Calls, Sails, Operates
  <2> QED
    BY <1>2, <1>3, <1>4, <1>5, <1>10
<1> QED
  BY <1>6, <1>7, <1>8

(* The link of one vessel adds finitely many nodes and edges. *)
LEMMA LinkVesselSafe ==
    ASSUME GraphInv, LinkVessel
    PROVE  GraphInv'
<1> DEFINE v == Head(todo)
           links == Links(v)
           Entry(l) == [node |-> l.node, risk |-> l.risk]
           Edge(l) == [source |-> Own(v), target |-> l.node, type |-> l.type, weight |-> 10]
           own == [node |-> Own(v), risk |-> VesselRisk(v)]
           added == {own} \cup {Entry(l) : l \in links}
           nodes == {a.node : a \in added}
           drawn == {Edge(l) : l \in links}
           new(n) == {a.risk : a \in {a \in added : a.node = n}}
                     \cup (IF n \in Node THEN {risk[n]} ELSE {})
<1>1. /\ phase = "vessels" /\ todo # <<>> /\ phase' = "vessels"
      /\ risk' = [n \in Node \cup nodes |-> CHOOSE r \in new(n) : \A s \in new(n) : r >= s]
      /\ edges' = edges \cup drawn
      /\ todo' = Tail(todo) /\ request' = request
  BY DEF LinkVessel
<1>2. /\ IsFiniteSet(links) /\ \A l \in links : l.risk \in Level
      /\ VesselRisk(v) \in Level
  BY LinksAre
<1>3. /\ Graph(risk, edges) /\ IsSeq(request.vessels) /\ IsSeq(todo)
      /\ request.depth \in Nat /\ IsFiniteSet(request.targets)
      /\ Linked(request.vessels, todo, Node)
  BY <1>1 DEF GraphInv
<1>4. IsFiniteSet(added)
  <2> DEFINE f == [l \in links |-> Entry(l)]
             rest == {Entry(l) : l \in links}
  <2>1. rest = {f[l] : l \in links} /\ links \subseteq DOMAIN f
    BY DEF Entry
  <2>2. IsFiniteSet({f[l] : l \in links})
    <3> HIDE DEF f, links
    <3> QED
      BY <1>2, <2>1, FiniteImage
  <2>3. added = rest \cup {own}
    OBVIOUS
  <2> HIDE DEF f, links, rest, own, added
  <2> QED
    BY <2>1, <2>2, <2>3, FS_AddElement
<1>5. IsFiniteSet(nodes)
  <2> DEFINE f == [a \in added |-> a.node]
  <2>1. nodes = {f[a] : a \in added} /\ added \subseteq DOMAIN f
    <3> HIDE DEF added
    <3> QED
      OBVIOUS
  <2> HIDE DEF f, added, nodes
  <2> QED
    BY <1>4, <2>1, FiniteImage
<1>6. IsFiniteSet(drawn)
  <2> DEFINE f == [l \in links |-> Edge(l)]
  <2>1. drawn = {f[l] : l \in links} /\ links \subseteq DOMAIN f
    OBVIOUS
  <2> HIDE DEF f, links, drawn
  <2> QED
    BY <1>2, <2>1, FiniteImage
<1>7. /\ \A a \in added : a.risk \in Level /\ a.node \in nodes
      /\ Own(v) \in nodes /\ \A l \in links : l.node \in nodes
  <2>1. \A l \in links : Entry(l).risk \in Level /\ Entry(l) \in added /\ Entry(l).node = l.node
    <3> HIDE DEF links
    <3> QED
      BY <1>2
  <2>2. own.risk \in Level /\ own \in added /\ own.node = Own(v)
    BY <1>2
  <2>3. \A a \in added : a = own \/ \E l \in links : a = Entry(l)
    OBVIOUS
  <2> HIDE DEF own, Entry, links, added
  <2>4. \A a \in added : a.risk \in Level
    BY <2>1, <2>2, <2>3
  <2>5. \A a \in added : a.node \in nodes
    OBVIOUS
  <2> QED
    BY <2>1, <2>2, <2>4, <2>5
<1>8. DOMAIN risk' = Node \cup nodes
  <2> HIDE DEF nodes
  <2> QED
    BY <1>1
<1> HIDE DEF links
<1>9. ASSUME NEW n \in Node \cup nodes
      PROVE  risk'[n] \in Level
  <2> DEFINE T == new(n)
  <2>1. T \in SUBSET Level
    <3>1. \A n2 \in Node : risk[n2] \in Level
      BY <1>3 DEF Graph, Node
    <3> HIDE DEF added
    <3> QED
      BY <1>7, <3>1
  <2>2. T # {}
    <3>1. CASE n \in Node
      BY <3>1
    <3>2. CASE n \in nodes
      <4>1. PICK a \in added : a.node = n
        BY <3>2
      <4> HIDE DEF added
      <4>2. a.risk \in T
        BY <4>1
      <4> QED
        BY <4>2
    <3> QED
      BY <3>1, <3>2
  <2>3. risk'[n] = CHOOSE r \in T : \A s \in T : r >= s
    <3> HIDE DEF nodes, added
    <3> QED
      BY <1>1, <1>9
  <2> HIDE DEF T
  <2>4. \E r \in T : \A s \in T : r >= s
    BY <2>1, <2>2, GreatestRisk
  <2>5. risk'[n] \in T
    BY <2>3, <2>4
  <2> QED
    BY <2>1, <2>5
<1>10. Graph(risk', edges')
  <2>1. IsFiniteSet(Node \cup nodes)
    <3> HIDE DEF nodes
    <3> QED
      BY <1>3, <1>5, FS_Union DEF Graph, Node
  <2>2. IsFiniteSet(edges \cup drawn)
    <3> HIDE DEF drawn
    <3> QED
      BY <1>3, <1>6, FS_Union DEF Graph
  <2>3. \A e \in drawn : /\ e.source = Own(v) /\ e.weight = 10
                         /\ \E l \in links : e.target = l.node
    OBVIOUS
  <2>4. \A e \in edges : /\ e.source \in Node /\ e.target \in Node
                         /\ e.weight \in {8, 10, 15, 20}
    BY <1>3 DEF Graph, Node
  <2> HIDE DEF nodes, drawn, v
  <2>5. \A e \in edges' : /\ e.source \in DOMAIN risk' /\ e.target \in DOMAIN risk'
                          /\ e.weight \in {8, 10, 15, 20}
    BY <1>1, <1>7, <1>8, <2>3, <2>4
  <2> QED
    BY <1>1, <1>8, <1>9, <2>1, <2>2, <2>5 DEF Graph
<1>11. IsSeq(Tail(todo))
  <2>1. Tail(todo) \in Seq(Range(todo))
    BY <1>1, <1>3 DEF IsSeq
  <2> QED
    BY <2>1, IsSeqIs
<1>12. Linked(request.vessels, Tail(todo), Node')
  <2>1. SUFFICES ASSUME NEW i \in DOMAIN request.vessels
                 PROVE  \/ Own(request.vessels[i]) \in Node'
                        \/ \E j \in DOMAIN Tail(todo) : Tail(todo)[j] = request.vessels[i]
    BY DEF Linked
  <2>2. Node' = Node \cup nodes
    BY <1>8 DEF Node
  <2>3. CASE Own(request.vessels[i]) \in Node
    BY <2>2, <2>3
  <2>4. CASE \E j \in DOMAIN todo : todo[j] = request.vessels[i]
    <3>1. PICK j \in DOMAIN todo : todo[j] = request.vessels[i]
      BY <2>4
    <3>2. CASE j = 1
      <4>1. v = request.vessels[i]
        BY <3>1, <3>2, <1>1, <1>3 DEF IsSeq
      <4> HIDE DEF v, nodes
      <4> QED
        BY <1>7, <2>2, <4>1
    <3>3. CASE j # 1
      <4>1. /\ DOMAIN todo = 1..Len(todo) /\ Len(todo) \in Nat
            /\ DOMAIN Tail(todo) = 1..(Len(todo) - 1)
            /\ \A k \in 1..(Len(todo) - 1) : Tail(todo)[k] = todo[k + 1]
        BY <1>1, <1>3 DEF IsSeq
      <4>2. j - 1 \in 1..(Len(todo) - 1) /\ (j - 1) + 1 = j
        BY <3>3, <4>1
      <4>3. Tail(todo)[j - 1] = request.vessels[i]
        BY <3>1, <4>1, <4>2
      <4> QED
        BY <4>1, <4>2, <4>3
    <3> QED
      BY <3>2, <3>3
  <2> QED
    BY <1>3, <2>3, <2>4 DEF Linked
<1> QED
  BY <1>1, <1>3, <1>10, <1>11, <1>12 DEF GraphInv

(* The encounters link vessels that are nodes by now. *)
LEMMA ExtractEncountersSafe ==
    ASSUME GraphInv, ExtractEncounters
    PROVE  GraphInv'
<1> DEFINE vs == request.vessels
           P == {p \in (DOMAIN vs) \X (DOMAIN vs) :
                    /\ p[1] < p[2]
                    /\ Absent \notin {vs[p[1]].place, vs[p[2]].place}
                    /\ Apart(vs[p[1]].place, vs[p[2]].place) <= 800}
           Meeting(p) == [a |-> Own(vs[p[1]]), b |-> Own(vs[p[2]]),
                          node |-> <<"encounter", {vs[p[1]].mmsi, vs[p[2]].mmsi}>>,
                          sts |-> /\ vs[p[1]].slow /\ vs[p[2]].slow
                                  /\ Apart(vs[p[1]].place, vs[p[2]].place) <= 300]
           Three(m) == {[source |-> m.a, target |-> m.node, type |-> "ENCOUNTERED",
                         weight |-> IF m.sts THEN 15 ELSE 10],
                        [source |-> m.b, target |-> m.node, type |-> "ENCOUNTERED",
                         weight |-> IF m.sts THEN 15 ELSE 10],
                        [source |-> m.a, target |-> m.b, type |-> "SHARED_ENCOUNTER",
                         weight |-> IF m.sts THEN 20 ELSE 10]}
           nodes == {m.node : m \in Meetings}
           drawn == {Three(m) : m \in Meetings}
<1>1. /\ phase = "vessels" /\ todo = <<>> /\ phase' = "detections"
      /\ risk' = [n \in Node \cup nodes |->
                     IF n \in Node THEN risk[n]
                     ELSE IF \E m \in Meetings : m.node = n /\ m.sts THEN 850 ELSE 450]
      /\ edges' = edges \cup UNION drawn
      /\ todo' = todo /\ request' = request
  BY DEF ExtractEncounters
<1>2. /\ Graph(risk, edges) /\ IsSeq(vs) /\ IsSeq(todo)
      /\ request.depth \in Nat /\ IsFiniteSet(request.targets)
      /\ Linked(vs, <<>>, Node)
  BY <1>1 DEF GraphInv
<1>3. Meetings = {Meeting(p) : p \in P}
  BY DEF Meetings
<1>4. IsFiniteSet(P)
  <2>1. DOMAIN vs = 1..Len(vs) /\ Len(vs) \in Nat
    BY <1>2 DEF IsSeq
  <2>2. IsFiniteSet(DOMAIN vs)
    BY <2>1, FS_Interval
  <2>3. IsFiniteSet((DOMAIN vs) \X (DOMAIN vs))
    BY <2>2, FS_Product
  <2>4. P \in SUBSET ((DOMAIN vs) \X (DOMAIN vs))
    OBVIOUS
  <2> HIDE DEF P
  <2> QED
    BY <2>3, <2>4, FS_Subset
<1>5. IsFiniteSet(Meetings)
  <2> DEFINE f == [p \in P |-> Meeting(p)]
  <2>1. {Meeting(p) : p \in P} = {f[p] : p \in P} /\ P \subseteq DOMAIN f
    <3> HIDE DEF P, Meeting
    <3> QED
      OBVIOUS
  <2> HIDE DEF f, P, Meeting
  <2>2. IsFiniteSet({f[p] : p \in P})
    BY <1>4, <2>1, FiniteImage
  <2> QED
    BY <1>3, <2>1, <2>2
<1>6. \A m \in Meetings : m.a \in Node /\ m.b \in Node
  <2>1. \A i \in DOMAIN vs : Own(vs[i]) \in Node
    BY <1>2 DEF Linked
  <2>2. \A p \in P : p[1] \in DOMAIN vs /\ p[2] \in DOMAIN vs
    OBVIOUS
  <2>3. \A p : Meeting(p).a = Own(vs[p[1]]) /\ Meeting(p).b = Own(vs[p[2]])
    OBVIOUS
  <2> HIDE DEF P, Meeting, vs
  <2> QED
    BY <1>3, <2>1, <2>2, <2>3
<1>7. IsFiniteSet(nodes)
  <2> DEFINE f == [m \in Meetings |-> m.node]
  <2>1. nodes = {f[m] : m \in Meetings} /\ Meetings \subseteq DOMAIN f
    OBVIOUS
  <2> HIDE DEF f, nodes
  <2> QED
    BY <1>5, <2>1, FiniteImage
<1>8. IsFiniteSet(UNION drawn)
  <2> DEFINE f == [m \in Meetings |-> Three(m)]
  <2>1. drawn = {f[m] : m \in Meetings} /\ Meetings \subseteq DOMAIN f
    <3> HIDE DEF Three
    <3> QED
      OBVIOUS
  <2>2. IsFiniteSet(drawn)
    <3> HIDE DEF f, drawn
    <3> QED
      BY <1>5, <2>1, FiniteImage
  <2>3. \A m : IsFiniteSet(Three(m))
    <3>1. \A x, y, z : IsFiniteSet({x, y, z})
      <4>1. SUFFICES ASSUME NEW x, NEW y, NEW z PROVE IsFiniteSet({x, y, z})
        OBVIOUS
      <4>2. IsFiniteSet({x}) /\ {x, y} = {x} \cup {y} /\ {x, y, z} = {x, y} \cup {z}
        BY FS_Singleton
      <4>3. IsFiniteSet({x, y})
        BY <4>2, FS_AddElement
      <4> QED
        BY <4>2, <4>3, FS_AddElement
    <3> QED
      BY <3>1
  <2>4. \A t \in drawn : IsFiniteSet(t)
    <3> HIDE DEF Three
    <3> QED
      BY <2>3
  <2> HIDE DEF drawn
  <2> QED
    BY <2>2, <2>4, FS_UNION
<1>9. \A e \in UNION drawn : /\ e.source \in Node \cup nodes /\ e.target \in Node \cup nodes
                            /\ e.weight \in {8, 10, 15, 20}
  <2>1. SUFFICES ASSUME NEW m \in Meetings, NEW e \in Three(m)
                 PROVE  /\ e.source \in Node \cup nodes /\ e.target \in Node \cup nodes
                        /\ e.weight \in {8, 10, 15, 20}
    OBVIOUS
  <2>2. m.a \in Node /\ m.b \in Node
    BY <1>6
  <2>3. m.node \in nodes
    OBVIOUS
  <2>4. /\ e.source \in {m.a, m.b} /\ e.target \in {m.node, m.b}
        /\ e.weight \in {10, 15, 20}
    OBVIOUS
  <2> HIDE DEF nodes, Three
  <2> QED
    BY <2>2, <2>3, <2>4
<1>10. DOMAIN risk' = Node \cup nodes /\ \A n \in DOMAIN risk' : risk'[n] \in Level
  <2>1. \A n \in Node : risk[n] \in Level
    BY <1>2 DEF Graph, Node
  <2>2. DOMAIN risk' = Node \cup nodes
    <3> HIDE DEF nodes
    <3> QED
      BY <1>1
  <2>3. ASSUME NEW n \in Node \cup nodes PROVE risk'[n] \in Level
    <3>1. \/ n \in Node /\ risk'[n] = risk[n]
          \/ risk'[n] \in {850, 450}
      <4> HIDE DEF nodes
      <4> QED
        BY <1>1, <2>3
    <3> QED
      BY <2>1, <3>1 DEF Level
  <2> HIDE DEF nodes
  <2> QED
    BY <2>2, <2>3
<1>11. Graph(risk', edges')
  <2> HIDE DEF nodes, drawn, Three, Meeting, P, vs
  <2>1. IsFiniteSet(Node \cup nodes) /\ IsFiniteSet(edges \cup UNION drawn)
    BY <1>2, <1>7, <1>8, FS_Union DEF Graph, Node
  <2>2. \A e \in edges : /\ e.source \in Node /\ e.target \in Node
                         /\ e.weight \in {8, 10, 15, 20}
    BY <1>2 DEF Graph, Node
  <2>3. \A e \in edges' : /\ e.source \in DOMAIN risk' /\ e.target \in DOMAIN risk'
                          /\ e.weight \in {8, 10, 15, 20}
    BY <1>1, <1>9, <1>10, <2>2
  <2>4. IsFiniteSet(DOMAIN risk') /\ IsFiniteSet(edges')
    BY <1>1, <1>10, <2>1
  <2> QED
    BY <1>10, <2>3, <2>4 DEF Graph
<1>12. Linked(vs, <<>>, Node')
  <2>1. Node \subseteq Node'
    <3> HIDE DEF nodes
    <3> QED
      BY <1>10 DEF Node
  <2> HIDE DEF vs
  <2> QED
    BY <1>2, <2>1 DEF Linked
<1> HIDE DEF nodes, drawn
<1> QED
  BY <1>1, <1>2, <1>11, <1>12 DEF GraphInv

(* The dark detections link to vessels that are nodes; the graph is whole. *)
LEMMA LinkScanDetectionsSafe ==
    ASSUME GraphInv, LinkScanDetections
    PROVE  GraphInv'
<1> DEFINE vs == request.vessels
           P == {p \in request.targets \X Range(vs) :
                    p[2].place # Absent /\ Apart(p[1], p[2].place) <= 5000}
           Edge(p) == [source |-> <<"detection", p[1]>>, target |-> Own(p[2]),
                       type |-> "CORRELATED_TO", weight |-> 8]
           nodes == {<<"detection", t>> : t \in request.targets}
           drawn == {Edge(p) : p \in P}
<1>1. /\ phase = "detections" /\ phase' \in {"first", "focus"}
      /\ risk' = [n \in Node \cup nodes |-> IF n \in Node THEN risk[n] ELSE 850]
      /\ edges' = edges \cup drawn
      /\ whole' = [risk |-> risk', edges |-> edges']
      /\ todo' = todo /\ request' = request
  BY DEF LinkScanDetections
<1>2. /\ Graph(risk, edges) /\ IsSeq(vs) /\ IsSeq(todo)
      /\ request.depth \in Nat /\ IsFiniteSet(request.targets)
      /\ Linked(vs, <<>>, Node)
  BY <1>1 DEF GraphInv
<1>3. IsFiniteSet(P)
  <2>1. DOMAIN vs = 1..Len(vs) /\ Len(vs) \in Nat
    BY <1>2 DEF IsSeq
  <2>2. IsFiniteSet(DOMAIN vs)
    BY <2>1, FS_Interval
  <2>3. Range(vs) = {vs[x] : x \in DOMAIN vs}
    BY DEF Range
  <2>4. IsFiniteSet(Range(vs))
    <3> HIDE DEF vs
    <3> QED
      BY <2>2, <2>3, FiniteImage
  <2>5. IsFiniteSet(request.targets \X Range(vs))
    BY <1>2, <2>4, FS_Product
  <2>6. P \in SUBSET (request.targets \X Range(vs))
    OBVIOUS
  <2> HIDE DEF P
  <2> QED
    BY <2>5, <2>6, FS_Subset
<1>4. IsFiniteSet(drawn)
  <2> DEFINE f == [p \in P |-> Edge(p)]
  <2>1. drawn = {f[p] : p \in P} /\ P \subseteq DOMAIN f
    <3> HIDE DEF P, Edge
    <3> QED
      OBVIOUS
  <2> HIDE DEF f, P, drawn
  <2> QED
    BY <1>3, <2>1, FiniteImage
<1>5. IsFiniteSet(nodes)
  <2> DEFINE f == [t \in request.targets |-> <<"detection", t>>]
  <2>1. nodes = {f[t] : t \in request.targets} /\ request.targets \subseteq DOMAIN f
    OBVIOUS
  <2> HIDE DEF f, nodes
  <2> QED
    BY <1>2, <2>1, FiniteImage
<1>6. \A e \in drawn : /\ e.source \in Node \cup nodes /\ e.target \in Node \cup nodes
                      /\ e.weight \in {8, 10, 15, 20}
  <2>1. SUFFICES ASSUME NEW p \in P
                 PROVE  /\ <<"detection", p[1]>> \in nodes /\ Own(p[2]) \in Node
                        /\ Edge(p).source = <<"detection", p[1]>> /\ Edge(p).target = Own(p[2])
                        /\ Edge(p).weight = 8
    <3> HIDE DEF P, Edge, nodes
    <3> QED
      OBVIOUS
  <2>2. p[1] \in request.targets /\ p[2] \in Range(vs)
    OBVIOUS
  <2>3. PICK i \in DOMAIN vs : vs[i] = p[2]
    BY <2>2 DEF Range
  <2>4. Own(vs[i]) \in Node
    BY <1>2 DEF Linked
  <2>5. Own(p[2]) \in Node
    BY <2>3, <2>4
  <2> QED
    BY <2>2, <2>5
<1>7. DOMAIN risk' = Node \cup nodes /\ \A n \in DOMAIN risk' : risk'[n] \in Level
  <2>1. \A n \in Node : risk[n] \in Level
    BY <1>2 DEF Graph, Node
  <2>2. DOMAIN risk' = Node \cup nodes
    <3> HIDE DEF nodes
    <3> QED
      BY <1>1
  <2>3. ASSUME NEW n \in Node \cup nodes PROVE risk'[n] \in Level
    <3>1. \/ n \in Node /\ risk'[n] = risk[n]
          \/ risk'[n] = 850
      <4> HIDE DEF nodes
      <4> QED
        BY <1>1, <2>3
    <3> QED
      BY <2>1, <3>1 DEF Level
  <2> HIDE DEF nodes
  <2> QED
    BY <2>2, <2>3
<1>8. Graph(risk', edges')
  <2> HIDE DEF nodes, drawn, P, vs, Edge
  <2>1. IsFiniteSet(Node \cup nodes) /\ IsFiniteSet(edges \cup drawn)
    BY <1>2, <1>4, <1>5, FS_Union DEF Graph, Node
  <2>2. \A e \in edges : /\ e.source \in Node /\ e.target \in Node
                         /\ e.weight \in {8, 10, 15, 20}
    BY <1>2 DEF Graph, Node
  <2>3. \A e \in edges' : /\ e.source \in DOMAIN risk' /\ e.target \in DOMAIN risk'
                          /\ e.weight \in {8, 10, 15, 20}
    BY <1>1, <1>6, <1>7, <2>2
  <2>4. IsFiniteSet(DOMAIN risk') /\ IsFiniteSet(edges')
    BY <1>1, <1>7, <2>1
  <2> QED
    BY <1>7, <2>3, <2>4 DEF Graph
<1> HIDE DEF nodes, drawn
<1>9. whole'.risk = risk' /\ whole'.edges = edges'
  BY <1>1
<1>10. Spread2(risk', whole')
  <2>1. SUFFICES ASSUME NEW n \in DOMAIN risk'
                 PROVE  /\ whole'.risk[n] <= risk'[n]
                        /\ \E m \in Nbr(whole'.edges, Nbr(whole'.edges, {n})) : risk'[n] <= whole'.risk[m]
    BY DEF Spread2
  <2>2. risk'[n] <= risk'[n]
    <3>1. PICK r \in Level : r = risk'[n]
      BY <1>7, <2>1
    <3>2. r <= r
      BY DEF Level
    <3> QED
      BY <3>1, <3>2
  <2>3. n \in Nbr(whole'.edges, Nbr(whole'.edges, {n}))
    BY DEF Nbr
  <2> QED
    BY <1>9, <2>2, <2>3
<1>11. \A n \in Node' : risk'[n] = whole'.risk[n]
  BY <1>9
<1> QED
  BY <1>1, <1>2, <1>8, <1>9, <1>10, <1>11 DEF GraphInv

(* The factors of an edge together are less than a thousand. *)
Factor == 0..960

LEMMA FactorsAre ==
    ASSUME NEW d \in Nat, NEW k \in {7, 9, 10, 12}, NEW w \in {8, 10, 15, 20}
    PROVE  \E b \in Factor : d * 4 * k * w = d * b
<1>1. d * 4 * k * w = d * (4 * k * w)
  OBVIOUS
<1>2. 4 * k * w \in Factor
  BY DEF Factor
<1> QED
  BY <1>1, <1>2

(* An edge carries no more than its ends differ by. *)
LEMMA CarriedBounded ==
    ASSUME Graph(risk, edges), NEW e \in edges
    PROVE  Carried(e) \in 0..Apart(risk[e.source], risk[e.target])
<1>1. risk[e.source] \in Level /\ risk[e.target] \in Level /\ e.weight \in {8, 10, 15, 20}
  BY DEF Graph
<1>2. PICK d \in Nat : d = Apart(risk[e.source], risk[e.target])
  <2>1. PICK x \in Level : x = risk[e.source]
    BY <1>1
  <2>2. PICK y \in Level : y = risk[e.target]
    BY <1>1
  <2>3. Apart(x, y) \in Nat
    BY DEF Apart, Level
  <2> QED
    BY <2>1, <2>2, <2>3
<1>3. PICK k \in {7, 9, 10, 12} : k = Multiplier(e.type)
  BY DEF Multiplier
<1>4. PICK w \in {8, 10, 15, 20} : w = e.weight
  BY <1>1
<1>5. PICK g \in Nat \ {0} : g = Degree(e.source)
  <2> DEFINE met == {x \in edges : e.source \in {x.source, x.target}}
  <2>1. met \in SUBSET edges
    OBVIOUS
  <2>2. Degree(e.source) = IF Cardinality(met) = 0 THEN 1 ELSE Cardinality(met)
    BY DEF Degree
  <2> HIDE DEF met
  <2>3. IsFiniteSet(edges)
    BY DEF Graph
  <2>4. IsFiniteSet(met)
    BY <2>1, <2>3, FS_Subset
  <2>5. Cardinality(met) \in Nat
    BY <2>4, FS_CardinalityType
  <2> QED
    BY <2>2, <2>5
<1>6. PICK b \in Factor : d * 4 * k * w = d * b
  BY FactorsAre
<1>7. PICK c \in Nat \ {0} : c = 1000 * g /\ b <= c
  BY DEF Factor
<1>8. Carried(e) = (d * b) \div c
  <2>1. Carried(e) = (d * 4 * k * w) \div (1000 * g)
    BY <1>2, <1>3, <1>4, <1>5 DEF Carried
  <2> QED
    BY <1>6, <1>7, <2>1
<1>9. b \in Nat
  BY DEF Factor
<1> QED
  BY <1>2, <1>7, <1>8, <1>9, ShareBounded

(* What a node gains is nothing, or leaves it below a neighbour. *)
LEMMA GainBounded ==
    ASSUME Graph(risk, edges), NEW n \in Node
    PROVE  /\ Gain(n) \in Level
           /\ \E s \in Node : s \in Nbr(edges, {n}) /\ risk[n] + Gain(n) <= risk[s]
<1> DEFINE carried == {0} \cup {Carried(e) : e \in Arriving(n)}
<1>1. risk[n] \in Level
  BY DEF Graph, Node
<1>2. ASSUME NEW e \in Arriving(n)
      PROVE  /\ Carried(e) \in Level
             /\ \E s \in Node : s \in Nbr(edges, {n}) /\ risk[n] + Carried(e) <= risk[s]
  <2>1. e \in edges /\ e.source \in Node /\ e.target \in Node
    BY DEF Arriving, Graph, Node
  <2>2. Carried(e) \in 0..Apart(risk[e.source], risk[e.target])
    BY <2>1, CarriedBounded
  <2>3. PICK s \in {e.source, e.target} : /\ risk[s] > risk[n] /\ n \in {e.source, e.target}
                                         /\ {s, n} = {e.source, e.target}
    BY DEF Arriving
  <2>4. PICK x \in Level : x = risk[s]
    BY <2>1, <2>3 DEF Graph, Node
  <2>5. PICK y \in Level : y = risk[n]
    BY <1>1
  <2>6. Apart(risk[e.source], risk[e.target]) = x - y
    <3>1. x > y
      BY <2>3, <2>4, <2>5
    <3>2. Apart(x, y) = x - y /\ Apart(y, x) = x - y
      BY <3>1 DEF Apart, Level
    <3>3. \/ e.source = s /\ e.target = n
          \/ e.source = n /\ e.target = s
      BY <2>3
    <3> QED
      BY <2>4, <2>5, <3>2, <3>3
  <2>7. PICK c \in 0..(x - y) : c = Carried(e)
    BY <2>2, <2>6
  <2>8. c \in Level /\ y + c <= x
    <3>1. x \in 0..1000 /\ y \in 0..1000 /\ c \in 0..(x - y)
      BY <2>4, <2>5, <2>7 DEF Level
    <3>2. c \in 0..1000 /\ y + c <= x
      BY <3>1
    <3> QED
      BY <3>2 DEF Level
  <2>9. s \in Nbr(edges, {n})
    BY <2>1, <2>3 DEF Nbr
  <2> QED
    BY <2>1, <2>3, <2>4, <2>5, <2>7, <2>8, <2>9
<1>3. carried \in SUBSET Level /\ carried # {}
  <2>1. 0 \in Level
    BY DEF Level
  <2> QED
    BY <1>2, <2>1
<1>4. Gain(n) = CHOOSE g \in carried : \A h \in carried : g >= h
  BY DEF Gain
<1>5. Gain(n) \in carried
  <2> HIDE DEF carried
  <2>1. \E g \in carried : \A h \in carried : g >= h
    BY <1>3, GreatestRisk
  <2> QED
    BY <1>4, <2>1
<1>6. CASE Gain(n) = 0
  <2>1. risk[n] + 0 <= risk[n] /\ 0 \in Level
    <3>1. PICK y \in Level : y = risk[n]
      BY <1>1
    <3>2. y + 0 <= y /\ 0 \in Level
      BY DEF Level
    <3> QED
      BY <3>1, <3>2
  <2>2. n \in Nbr(edges, {n})
    BY DEF Nbr
  <2> QED
    BY <1>6, <2>1, <2>2
<1>7. CASE Gain(n) # 0
  <2>1. PICK e \in Arriving(n) : Gain(n) = Carried(e)
    BY <1>5, <1>7
  <2> QED
    BY <1>2, <2>1
<1> QED
  BY <1>6, <1>7

LEMMA RiskSum ==
    ASSUME NEW x \in Level, NEW g \in Level, NEW y \in Level, x + g <= y
    PROVE  ~(x + g > 1000) /\ x + g \in Level /\ x <= x + g
<1>1. x \in Nat /\ g \in Nat /\ y \in Nat /\ y <= 1000
  BY DEF Level
<1>2. PICK a \in Nat : a = x
  BY <1>1
<1>3. PICK b \in Nat : b = g
  BY <1>1
<1>4. PICK c \in Nat : c = y
  BY <1>1
<1>5. a + b <= c /\ c <= 1000
  BY <1>1, <1>2, <1>3, <1>4
<1>6. ~(a + b > 1000) /\ a + b \in 0..1000 /\ a <= a + b
  BY <1>5
<1> QED
  BY <1>2, <1>3, <1>6 DEF Level

(* One iteration lifts a node to at most one of its neighbours. *)
LEMMA SpreadsOneEdge ==
    ASSUME Graph(risk, edges), PropagateRisk, NEW n \in Node
    PROVE  /\ risk'[n] \in Level /\ risk[n] <= risk'[n]
           /\ \E s \in Node : s \in Nbr(edges, {n}) /\ risk'[n] <= risk[s]
<1>1. PICK x \in Level : x = risk[n]
  BY DEF Graph, Node
<1>2. PICK g \in Level : g = Gain(n)
  BY GainBounded
<1>3. PICK s \in Node : s \in Nbr(edges, {n}) /\ x + g <= risk[s]
  BY <1>1, <1>2, GainBounded
<1>4. PICK y \in Level : y = risk[s]
  BY DEF Graph, Node
<1>5. risk'[n] = IF x + g > 1000 THEN 1000 ELSE x + g
  BY <1>1, <1>2 DEF PropagateRisk
<1>6. x + g <= y
  BY <1>3, <1>4
<1>7. ~(x + g > 1000) /\ x + g \in Level /\ x <= x + g
  BY <1>6, RiskSum
<1>8. risk'[n] = x + g
  BY <1>5, <1>7
<1> QED
  BY <1>1, <1>3, <1>7, <1>8

LEMMA PropagateRiskSafe ==
    ASSUME GraphInv, PropagateRisk
    PROVE  GraphInv'
<1>1. /\ phase \in {"first", "second"}
      /\ phase' = IF phase = "first" THEN "second" ELSE "focus"
      /\ DOMAIN risk' = Node
      /\ todo' = todo /\ request' = request /\ edges' = edges /\ whole' = whole
  BY DEF PropagateRisk
<1>2. /\ Graph(risk, edges) /\ IsSeq(request.vessels) /\ IsSeq(todo)
      /\ request.depth \in Nat /\ IsFiniteSet(request.targets)
      /\ Graph(whole.risk, whole.edges)
      /\ DOMAIN risk = DOMAIN whole.risk /\ edges = whole.edges
  BY <1>1 DEF GraphInv
<1>3. Graph(risk', edges')
  <2>1. \A n \in Node : risk'[n] \in Level
    BY <1>2, SpreadsOneEdge
  <2> QED
    BY <1>1, <1>2, <2>1 DEF Graph, Node
<1>4. \A n \in Node : risk[n] \in Level /\ whole.risk[n] \in Level /\ risk'[n] \in Level
  BY <1>2, SpreadsOneEdge DEF Graph, Node
<1>5. CASE phase = "first"
  <2>1. \A n \in Node : risk[n] = whole.risk[n]
    BY <1>5 DEF GraphInv
  <2>2. Spread1(risk', whole)
    <3>1. SUFFICES ASSUME NEW n \in Node
                   PROVE  /\ whole.risk[n] <= risk'[n]
                          /\ \E m \in Nbr(whole.edges, {n}) : risk'[n] <= whole.risk[m]
      BY <1>1 DEF Spread1
    <3>2. PICK s \in Node : s \in Nbr(edges, {n}) /\ risk'[n] <= risk[s] /\ risk[n] <= risk'[n]
      BY <1>2, SpreadsOneEdge
    <3> QED
      BY <1>2, <2>1, <3>2
  <2> QED
    BY <1>1, <1>2, <1>3, <1>5, <2>2 DEF GraphInv, Node
<1>6. CASE phase = "second"
  <2>1. Spread1(risk, whole)
    BY <1>6 DEF GraphInv
  <2>2. Spread2(risk', whole)
    <3>1. SUFFICES ASSUME NEW n \in Node
                   PROVE  /\ whole.risk[n] <= risk'[n]
                          /\ \E m \in Nbr(whole.edges, Nbr(whole.edges, {n})) : risk'[n] <= whole.risk[m]
      BY <1>1 DEF Spread2
    <3>2. PICK s \in Node : s \in Nbr(edges, {n}) /\ risk'[n] <= risk[s] /\ risk[n] <= risk'[n]
      BY <1>2, SpreadsOneEdge
    <3>3. PICK m \in Nbr(whole.edges, {s}) : risk[s] <= whole.risk[m]
      BY <2>1 DEF Spread1, Node
    <3>4. m \in Nbr(whole.edges, Nbr(whole.edges, {n}))
      <4>1. {s} \subseteq Nbr(whole.edges, {n})
        BY <1>2, <3>2
      <4> QED
        BY <3>3, <4>1, NbrMonotone
    <3>5. m \in Node
      <4>1. m = s \/ \E e \in edges : m \in {e.source, e.target}
        BY <1>2, <3>3 DEF Nbr
      <4> QED
        BY <1>2, <4>1 DEF Graph, Node
    <3>6. whole.risk[n] <= risk[n]
      BY <2>1 DEF Spread1, Node
    <3>7. \A a, b, c \in Level : a <= b /\ b <= c => a <= c
      BY DEF Level
    <3>8. whole.risk[n] <= risk'[n]
      BY <1>4, <3>2, <3>6, <3>7
    <3>9. risk'[n] <= whole.risk[m]
      BY <1>4, <3>2, <3>3, <3>5, <3>7
    <3> QED
      BY <3>4, <3>8, <3>9
  <2> QED
    BY <1>1, <1>2, <1>3, <1>6, <2>2 DEF GraphInv, Node
<1> QED
  BY <1>1, <1>5, <1>6

(* The edges lead from node to node. *)
LEMMA BallWithin ==
    ASSUME NEW r, NEW E, Graph(r, E), NEW c \in DOMAIN r, NEW k \in Nat
    PROVE  Ball(E, c, k) \subseteq DOMAIN r
<1>1. PICK b : IsBall(b, E, c, k)
  BY BallIs
<1> DEFINE S == {i \in 0..k : b[i] \subseteq DOMAIN r}
<1>2. 0 \in S
  BY <1>1 DEF IsBall
<1>3. ASSUME NEW i \in 0..k, i \in S, i < k PROVE i + 1 \in S
  <2>1. i + 1 \in 0..k /\ i + 1 # 0 /\ (i + 1) - 1 = i
    <3> HIDE DEF S
    <3> QED
      BY <1>3
  <2>2. b[i + 1] = Nbr(E, b[i])
    BY <1>1, <2>1 DEF IsBall
  <2>3. \A e \in E : {e.source, e.target} \subseteq DOMAIN r
    BY DEF Graph
  <2>4. Nbr(E, b[i]) \subseteq DOMAIN r
    BY <1>3, <2>3 DEF Nbr
  <2> QED
    BY <2>1, <2>2, <2>4
<1>4. k \in S
  <2> HIDE DEF S
  <2>1. \A i \in 0..k : i \in S
    BY <1>2, <1>3, AllUpTo
  <2> QED
    BY <2>1
<1>5. b[k] \subseteq DOMAIN r
  BY <1>4
<1> QED
  BY <1>1, <1>5 DEF IsBall

(* A part of a graph, with the edges between its nodes. *)
LEMMA KeepSafe ==
    ASSUME Graph(risk, edges), NEW nodes \in SUBSET Node, Keep(nodes)
    PROVE  /\ Graph(risk', edges') /\ DOMAIN risk' = nodes
           /\ \A n \in nodes : risk'[n] = risk[n]
           /\ edges' = Within(edges, nodes)
<1>1. risk' = [n \in nodes |-> risk[n]] /\ edges' = Within(edges, nodes)
  BY DEF Keep, Within
<1>2. IsFiniteSet(Node) /\ IsFiniteSet(edges)
  BY DEF Graph, Node
<1>3. IsFiniteSet(nodes)
  BY <1>2, FS_Subset
<1>4. Within(edges, nodes) \in SUBSET edges
  BY DEF Within
<1>5. IsFiniteSet(Within(edges, nodes))
  BY <1>2, <1>4, FS_Subset
<1>6. DOMAIN risk' = nodes /\ \A n \in nodes : risk'[n] = risk[n]
  BY <1>1
<1>7. \A n \in nodes : risk[n] \in Level
  BY DEF Graph, Node
<1>8. \A e \in Within(edges, nodes) : /\ e.source \in nodes /\ e.target \in nodes
                                     /\ e.weight \in {8, 10, 15, 20}
  BY DEF Within, Graph
<1> QED
  BY <1>1, <1>3, <1>5, <1>6, <1>7, <1>8 DEF Graph

LEMMA SpreadOfPart ==
    ASSUME NEW r, NEW w, Spread2(r, w), NEW q, DOMAIN q \subseteq DOMAIN r,
           \A n \in DOMAIN q : q[n] = r[n]
    PROVE  Spread2(q, w)
  BY DEF Spread2

LEMMA GetSubgraphSafe ==
    ASSUME GraphInv, GetSubgraph
    PROVE  GraphInv'
<1> DEFINE focal == <<"vessel", request.focal>>
<1>1. /\ phase = "focus" /\ phase' = "limit"
      /\ IF focal \in Node THEN Keep(Visited(focal)) ELSE UNCHANGED <<risk, edges>>
      /\ todo' = todo /\ request' = request /\ whole' = whole
  BY DEF GetSubgraph
<1>2. /\ Graph(risk, edges) /\ IsSeq(request.vessels) /\ IsSeq(todo)
      /\ request.depth \in Nat /\ IsFiniteSet(request.targets)
      /\ Graph(whole.risk, whole.edges) /\ Spread2(risk, whole)
      /\ DOMAIN risk = DOMAIN whole.risk /\ edges = whole.edges
  BY <1>1 DEF GraphInv
<1> HIDE DEF focal
<1>3. CASE focal \in Node
  <2> DEFINE V == Visited(focal)
  <2>1. V = Ball(edges, focal, request.depth)
    BY <1>2, VisitedIs, VisitedIsBall
  <2>2. V \in SUBSET Node
    <3>1. Ball(edges, focal, request.depth) \subseteq DOMAIN risk
      BY <1>2, <1>3, BallWithin DEF Node
    <3> HIDE DEF V
    <3> QED
      BY <2>1, <3>1 DEF Node
  <2>3. Keep(V)
    BY <1>1, <1>3
  <2>4. Reach(whole, request) = V
    <3> HIDE DEF V
    <3> QED
      BY <1>2, <1>3, <2>1 DEF Reach, focal, Node
  <2> HIDE DEF V
  <2>5. /\ Graph(risk', edges') /\ DOMAIN risk' = V
        /\ \A n \in V : risk'[n] = risk[n]
        /\ edges' = Within(edges, V)
    BY <1>2, <2>2, <2>3, KeepSafe
  <2>6. Spread2(risk', whole)
    BY <1>2, <2>2, <2>5, SpreadOfPart DEF Node
  <2>7. Node' = V
    BY <2>5 DEF Node
  <2> QED
    BY <1>1, <1>2, <2>2, <2>4, <2>5, <2>6, <2>7 DEF GraphInv, Node
<1>4. CASE focal \notin Node
  <2>1. risk' = risk /\ edges' = edges
    BY <1>1, <1>4
  <2>2. Reach(whole, request) = Node
    BY <1>2, <1>4 DEF Reach, focal, Node
  <2>3. edges = Within(whole.edges, Node)
    BY <1>2 DEF Within, Graph, Node
  <2>4. Node' = Node
    BY <2>1 DEF Node
  <2> QED
    BY <1>1, <1>2, <2>1, <2>2, <2>3, <2>4 DEF GraphInv, Node
<1> QED
  BY <1>3, <1>4

LEMMA LimitNodesSafe ==
    ASSUME GraphInv, LimitNodes
    PROVE  GraphInv'
<1>1. /\ phase = "limit" /\ phase' = "done"
      /\ todo' = todo /\ request' = request /\ whole' = whole
  BY DEF LimitNodes
<1>2. /\ Graph(risk, edges) /\ IsSeq(request.vessels) /\ IsSeq(todo)
      /\ request.depth \in Nat /\ IsFiniteSet(request.targets)
      /\ Graph(whole.risk, whole.edges) /\ Spread2(risk, whole)
      /\ Node = Reach(whole, request)
      /\ Node \subseteq DOMAIN whole.risk /\ edges = Within(whole.edges, Node)
  BY <1>1 DEF GraphInv
<1>3. Cardinality(Node) \in Nat /\ Cap \in Nat
  BY <1>2, FS_CardinalityType, GraphAssumption DEF Graph, Node
<1>4. CASE Cardinality(Node) > Cap
  <2>1. PICK kept \in SUBSET Node : Cardinality(kept) = Cap /\ Keep(kept)
    BY <1>4 DEF LimitNodes
  <2>2. /\ Graph(risk', edges') /\ DOMAIN risk' = kept
        /\ \A n \in kept : risk'[n] = risk[n]
        /\ edges' = Within(edges, kept)
    BY <1>2, <2>1, KeepSafe
  <2>3. edges' = Within(whole.edges, kept)
    BY <1>2, <2>1, <2>2 DEF Within
  <2>4. Spread2(risk', whole)
    BY <1>2, <2>1, <2>2, SpreadOfPart DEF Node
  <2>5. ~(Cardinality(Node) <= Cap)
    BY <1>3, <1>4
  <2>6. Answer(risk', edges', whole, request)
    BY <1>2, <2>1, <2>2, <2>5 DEF Answer
  <2>7. Node' = kept
    BY <2>2 DEF Node
  <2> QED
    BY <1>1, <1>2, <2>1, <2>2, <2>3, <2>4, <2>6, <2>7 DEF GraphInv
<1>5. CASE ~(Cardinality(Node) > Cap)
  <2>1. risk' = risk /\ edges' = edges
    BY <1>5 DEF LimitNodes
  <2>2. Answer(risk, edges, whole, request)
    BY <1>2, <1>5 DEF Answer, Node
  <2>3. Node' = Node
    BY <2>1 DEF Node
  <2> QED
    BY <1>1, <1>2, <2>1, <2>2, <2>3 DEF GraphInv
<1> QED
  BY <1>4, <1>5

LEMMA GraphStep == GraphInv /\ [GraphNext]_graphVars => GraphInv'
<1> SUFFICES ASSUME GraphInv, [GraphNext]_graphVars PROVE GraphInv'
  OBVIOUS
<1>1. CASE UNCHANGED graphVars
  <2>1. /\ phase' = phase /\ request' = request /\ todo' = todo /\ risk' = risk
        /\ edges' = edges /\ whole' = whole
    BY <1>1 DEF graphVars
  <2> QED
    BY <2>1 DEF GraphInv, Node
<1> QED
  BY <1>1, ReceiveSafe, LinkVesselSafe, ExtractEncountersSafe, LinkScanDetectionsSafe,
     PropagateRiskSafe, GetSubgraphSafe, LimitNodesSafe DEF GraphNext

(* An answer of the relationship graph is what lies within the depth asked  *)
(* for, or as many of it as the cap allows, with every edge between these,  *)
(* and a risk has risen to at most the worst within two edges               *)
(* (domain/network_graph.py:149-200, build_relationship_graph.py:222-239).  *)
THEOREM NetworkAlwaysSound == GraphSpec => []NetworkSound
<1>1. GraphSpec => []GraphInv
  BY GraphInitHolds, GraphStep, PTL DEF GraphSpec
<1> QED
  BY <1>1, InvSound, PTL
=============================================================================
