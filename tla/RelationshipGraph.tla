--------------------------- MODULE RelationshipGraph ---------------------------
(***************************************************************************)
(* BuildRelationshipGraph: vessels, flags, ports, operators, routes and    *)
(* encounters as a graph, the spreading of risk along its edges, and the   *)
(* part of it around one vessel (build_relationship_graph.py,              *)
(* domain/network_graph.py).  A request works alone.                       *)
(*                                                                         *)
(* Risks are whole thousandths, rounded down: what floating point          *)
(* rounds is not covered.  Places are metres along a line.  A field of a   *)
(* record that was not sent, or sent as null, is Absent.                   *)
(***************************************************************************)
EXTENDS Integers, Sequences, FiniteSets, Functions

CONSTANTS
    Report,       \* AIS records a request can bring or find
    MaxReports,   \* records of a request
    Target,       \* where the dark detections of a scan can be: sets of places
    Registry,     \* MID_TO_FLAG: of an MMSI its flag and the threat of the flag
    Hops,         \* max_depth
    Cap,          \* max_nodes
    NoPort,       \* destinations that name no port: "UNKNOWN", "OPEN SEA", ...
    Short,        \* destinations of fewer than four characters
    Absent

ASSUME GraphAssumption ==
    /\ MaxReports \in Nat /\ Cap \in Nat \ {0}
    /\ Hops \subseteq Nat
    /\ \A t \in Target : IsFiniteSet(t)
    /\ \A m \in DOMAIN Registry : Registry[m].threat \in 0..1000

VARIABLES
    phase,     \* what execute() does next
    request,   \* the vessels, merged, the detections, and what was asked for
    todo,      \* vessels that are not linked yet
    risk,      \* of every node of the graph
    marked,    \* flags shown as is_foc, operators shown as sanctioned
    edges,
    whole      \* history: risks and edges before the risk spreads

graphVars == <<phase, request, todo, risk, marked, edges, whole>>

Nothing == [vessels |-> <<>>, reports |-> <<>>, targets |-> {}, focal |-> Absent,
            depth |-> 0, spread |-> FALSE]

Empty == [n \in {} |-> 0]

GraphInit ==
    /\ phase = "idle" /\ request = Nothing /\ todo = <<>>
    /\ risk = Empty /\ marked = {} /\ edges = {}
    /\ whole = [risk |-> Empty, edges |-> {}]

Node == DOMAIN risk

Apart(p, q) == IF p < q THEN q - p ELSE p - q

-----------------------------------------------------------------------------
(* Records of one vessel: a later one of the list replaces what it names,  *)
(* a full one everything, with null where it knows nothing.                *)
Merge(a, b) == [f \in DOMAIN b |-> IF b[f] = Absent /\ ~b.full THEN a[f] ELSE b[f]]

AddRecord(vs, r) ==
    LET known == {i \in DOMAIN vs : vs[i].mmsi = r.mmsi}
    IN  IF known = {} THEN Append(vs, r)
        ELSE [i \in DOMAIN vs |-> IF i \in known THEN Merge(vs[i], r) ELSE vs[i]]

Vessels(reports) ==
    LET merged[k \in 0..Len(reports)] ==
            IF k = 0 THEN <<>> ELSE AddRecord(merged[k - 1], reports[k])
    IN  merged[Len(reports)]

Receive ==
    /\ phase = "idle"
    /\ \E reports \in UNION {[1..n -> Report] : n \in 0..MaxReports}, targets \in Target,
          focal \in {r.mmsi : r \in Report} \cup {Absent},
          depth \in Hops, spread \in BOOLEAN :
           LET vessels == Vessels(reports)
           IN  /\ request' = [vessels |-> vessels, reports |-> reports, targets |-> targets,
                              focal |-> focal, depth |-> depth, spread |-> spread]
               /\ todo' = vessels
    /\ phase' = "vessels"
    /\ UNCHANGED <<risk, marked, edges, whole>>

Own(v) == <<"vessel", v.mmsi>>

BaseRisk(v) == CASE v.signs = "dark" -> 850
                 [] v.signs = "suspicious" -> 750
                 [] v.signs = "anomalies" -> 600
                 [] OTHER -> 150

(* A flag that was sent is taken for harmless, whatever the MMSI says. *)
Flags(v) ==
    IF v.flag # Absent THEN {[flag |-> v.flag, threat |-> 100]}
    ELSE IF v.mmsi \in DOMAIN Registry THEN {Registry[v.mmsi]} ELSE {}

Ports(v) == {v.destination} \ ({Absent} \cup NoPort)

Routes(v) == IF v.route # Absent THEN {v.route} ELSE {v.destination} \ ({Absent} \cup Short)

(* The nodes a vessel is linked to, each with its risk and its mark. *)
Links(v) ==
    {[node |-> <<"flag", f.flag>>, risk |-> f.threat, mark |-> f.threat >= 700,
      type |-> "FLAGGED_AS"] : f \in Flags(v)}
    \cup {[node |-> <<"port", d>>, risk |-> 100, mark |-> FALSE, type |-> "VISITED_PORT"] :
              d \in Ports(v)}
    \cup {[node |-> <<"route", d>>, risk |-> 150, mark |-> FALSE, type |-> "TRAVELED_ROUTE"] :
              d \in Routes(v)}
    \cup (IF v.operator = Absent THEN {}
          ELSE {[node |-> <<"operator", v.operator>>,
                 risk |-> IF v.sanctioned = TRUE THEN 950 ELSE 200,
                 mark |-> v.sanctioned = TRUE, type |-> "OPERATED_BY"]})

(* A vessel under a dangerous flag has three quarters of its threat. *)
VesselRisk(v) ==
    LET dangers == {(f.threat * 3) \div 4 : f \in {f \in Flags(v) : f.threat >= 700}}
    IN  CHOOSE r \in dangers \cup {BaseRisk(v)} : \A s \in dangers \cup {BaseRisk(v)} : r >= s

(* add_node: of a node that is there already the risk never falls, the     *)
(* properties are those of the last vessel that names it.                  *)
LinkVessel ==
    /\ phase = "vessels" /\ todo # <<>>
    /\ LET v == Head(todo)
           links == Links(v)
           added == {[node |-> Own(v), risk |-> VesselRisk(v)]}
                    \cup {[node |-> l.node, risk |-> l.risk] : l \in links}
       IN  /\ risk' = [n \in Node \cup {a.node : a \in added} |->
                          LET new == {a.risk : a \in {a \in added : a.node = n}}
                                     \cup (IF n \in Node THEN {risk[n]} ELSE {})
                          IN  CHOOSE r \in new : \A s \in new : r >= s]
           /\ marked' = (marked \ {l.node : l \in links})
                        \cup {l.node : l \in {l \in links : l.mark}}
           /\ edges' = edges \cup {[source |-> Own(v), target |-> l.node, type |-> l.type,
                                    weight |-> 10] : l \in links}
    /\ todo' = Tail(todo)
    /\ UNCHANGED <<phase, request, whole>>

-----------------------------------------------------------------------------
(* Two vessels within 800 m meet; within 300 m and slow they are taken to  *)
(* transfer cargo.                                                         *)
Meetings ==
    LET vs == request.vessels
    IN  {[a |-> Own(vs[p[1]]), b |-> Own(vs[p[2]]),
          node |-> <<"encounter", {vs[p[1]].mmsi, vs[p[2]].mmsi}>>,
          sts |-> /\ vs[p[1]].slow /\ vs[p[2]].slow
                  /\ Apart(vs[p[1]].place, vs[p[2]].place) <= 300] :
            p \in {p \in (DOMAIN vs) \X (DOMAIN vs) :
                       /\ p[1] < p[2]
                       /\ Absent \notin {vs[p[1]].place, vs[p[2]].place}
                       /\ Apart(vs[p[1]].place, vs[p[2]].place) <= 800}}

ExtractEncounters ==
    /\ phase = "vessels" /\ todo = <<>>
    /\ risk' = [n \in Node \cup {m.node : m \in Meetings} |->
                   IF n \in Node THEN risk[n]
                   ELSE IF \E m \in Meetings : m.node = n /\ m.sts THEN 850 ELSE 450]
    /\ edges' = edges \cup UNION
           {{[source |-> m.a, target |-> m.node, type |-> "ENCOUNTERED",
              weight |-> IF m.sts THEN 15 ELSE 10],
             [source |-> m.b, target |-> m.node, type |-> "ENCOUNTERED",
              weight |-> IF m.sts THEN 15 ELSE 10],
             [source |-> m.a, target |-> m.b, type |-> "SHARED_ENCOUNTER",
              weight |-> IF m.sts THEN 20 ELSE 10]} : m \in Meetings}
    /\ phase' = "detections"
    /\ UNCHANGED <<request, todo, marked, whole>>

(* A dark detection is linked to every vessel within 5 km.  Its own        *)
(* risk_score would come before 0.85, but nothing that writes detections   *)
(* gives them one.                                                         *)
LinkScanDetections ==
    /\ phase = "detections"
    /\ risk' = [n \in Node \cup {<<"detection", t>> : t \in request.targets} |->
                   IF n \in Node THEN risk[n] ELSE 850]
    /\ edges' = edges \cup
           {[source |-> <<"detection", p[1]>>, target |-> Own(p[2]),
             type |-> "CORRELATED_TO", weight |-> 8] :
               p \in {p \in request.targets \X Range(request.vessels) :
                          p[2].place # Absent /\ Apart(p[1], p[2].place) <= 5000}}
    /\ whole' = [risk |-> risk', edges |-> edges']
    /\ phase' = IF request.spread THEN "first" ELSE "focus"
    /\ UNCHANGED <<request, todo, marked>>

-----------------------------------------------------------------------------
Degree(n) == LET met == Cardinality({e \in edges : n \in {e.source, e.target}})
             IN  IF met = 0 THEN 1 ELSE met

Multiplier(type) == CASE type \in {"ENCOUNTERED", "SHARED_ENCOUNTER"} -> 12
                      [] type = "OPERATED_BY" -> 9
                      [] type = "FLAGGED_AS" -> 7
                      [] OTHER -> 10

(* What an edge carries from its riskier end: four tenths of the           *)
(* difference, by type and weight, over the degree of the edge's source.   *)
Carried(e) ==
    (Apart(risk[e.source], risk[e.target]) * 4 * Multiplier(e.type) * e.weight)
        \div (1000 * Degree(e.source))

Arriving(n) == {e \in edges : \/ e.target = n /\ risk[e.source] > risk[n]
                              \/ e.source = n /\ risk[e.target] > risk[n]}

(* A node takes the most that arrives. *)
Gain(n) == LET carried == {0} \cup {Carried(e) : e \in Arriving(n)}
           IN  CHOOSE g \in carried : \A h \in carried : g >= h

(* One of the two iterations: all gains are those of the risks before it. *)
PropagateRisk ==
    /\ phase \in {"first", "second"}
    /\ risk' = [n \in Node |-> IF risk[n] + Gain(n) > 1000 THEN 1000
                               ELSE risk[n] + Gain(n)]
    /\ phase' = IF phase = "first" THEN "second" ELSE "focus"
    /\ UNCHANGED <<request, todo, marked, edges, whole>>

-----------------------------------------------------------------------------
(* get_subgraph *)
(* Slip: edges are followed from source to target only. *)
NextLayerOut(visited, layer) ==
    {e.target : e \in {e \in edges : e.source \in layer}} \ visited

NextLayer(visited, layer) ==
    ({e.target : e \in {e \in edges : e.source \in layer}}
     \cup {e.source : e \in {e \in edges : e.target \in layer}}) \ visited

Visited(focal) ==
    LET layers[k \in 0..request.depth] ==
            IF k = 0 THEN [visited |-> {focal}, layer |-> {focal}]
            ELSE LET next == NextLayer(layers[k - 1].visited, layers[k - 1].layer)
                 IN  [visited |-> layers[k - 1].visited \cup next, layer |-> next]
    IN  layers[request.depth].visited

Keep(nodes) ==
    /\ risk' = [n \in nodes |-> risk[n]]
    /\ edges' = {e \in edges : {e.source, e.target} \subseteq nodes}

GetSubgraph ==
    /\ phase = "focus"
    /\ LET focal == <<"vessel", request.focal>>
       IN  IF focal \in Node THEN Keep(Visited(focal)) ELSE UNCHANGED <<risk, edges>>
    /\ phase' = "limit"
    /\ UNCHANGED <<request, todo, marked, whole>>

(* Too many nodes: the riskiest are kept.  Equal risks, which the code     *)
(* tells apart by degree and order, are told apart in any way here.        *)
LimitNodes ==
    /\ phase = "limit"
    /\ IF Cardinality(Node) > Cap
       THEN \E kept \in SUBSET Node :
                /\ Cardinality(kept) = Cap
                /\ \A n \in kept, m \in Node \ kept : risk[n] >= risk[m]
                /\ Keep(kept)
       ELSE UNCHANGED <<risk, edges>>
    /\ phase' = "done"
    /\ UNCHANGED <<request, todo, marked, whole>>

GraphNext ==
    \/ Receive \/ LinkVessel \/ ExtractEncounters \/ LinkScanDetections
    \/ PropagateRisk \/ GetSubgraph \/ LimitNodes

GraphSpec == GraphInit /\ [][GraphNext]_graphVars

GraphTypeOK ==
    /\ phase \in {"idle", "vessels", "detections", "first", "second", "focus", "limit", "done"}
    /\ \A n \in Node : risk[n] \in 0..1000
    /\ \A e \in edges : {e.source, e.target} \subseteq Node
    /\ Node \subseteq DOMAIN whole.risk \/ phase \in {"vessels", "detections"}

-----------------------------------------------------------------------------
(* The nodes at most k edges of the whole graph away from n. *)
Around(n, k) ==
    LET ball[i \in 0..k] ==
            IF i = 0 THEN {n}
            ELSE ball[i - 1] \cup UNION {{e.source, e.target} :
                     e \in {e \in whole.edges : {e.source, e.target} \cap ball[i - 1] # {}}}
    IN  ball[k]

Asked == LET focal == <<"vessel", request.focal>>
         IN  IF focal \in DOMAIN whole.risk THEN Around(focal, request.depth)
             ELSE DOMAIN whole.risk

(* An answer has what lies within max_depth of the vessel asked for, or    *)
(* the riskiest of it, and every edge between these; no risk has fallen,   *)
(* and none exceeds the worst that was there within two edges: a threat    *)
(* spreads to its neighbourhood and does not feed on itself                *)
(* (domain/network_graph.py:149-200, build_relationship_graph.py:222-239). *)
NetworkSound ==
    phase = "done" =>
        /\ Node \subseteq Asked
        /\ Cardinality(Asked) <= Cap => Node = Asked
        /\ Cardinality(Asked) > Cap => Cardinality(Node) = Cap
        /\ edges = {e \in whole.edges : {e.source, e.target} \subseteq Node}
        /\ \A n \in Node :
               /\ risk[n] >= whole.risk[n]
               /\ \E m \in Around(n, 2) : risk[n] <= whole.risk[m]

(* "Extract an ego subgraph centered on focal_node_id"                     *)
(* (domain/network_graph.py:180): the vessel asked for is in the answer.   *)
(* TLC refutes it: the limit keeps the riskiest nodes, not the vessel.     *)
FocalKept ==
    phase = "done" /\ <<"vessel", request.focal>> \in DOMAIN whole.risk =>
        <<"vessel", request.focal>> \in Node

(* "Merge newer positions" (build_relationship_graph.py:162): a vessel is  *)
(* where its newest record says.  TLC refutes it: the last of the list     *)
(* wins.                                                                   *)
NewestPositionKept ==
    \A i \in DOMAIN request.vessels, j \in DOMAIN request.reports :
        LET v == request.vessels[i]
            r == request.reports[j]
        IN  r.mmsi = v.mmsi /\ r.place # Absent /\ r.place # v.place =>
                \E k \in DOMAIN request.reports :
                    /\ request.reports[k].mmsi = v.mmsi
                    /\ request.reports[k].place = v.place
                    /\ request.reports[k].at >= r.at
=============================================================================
