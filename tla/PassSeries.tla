------------------------------- MODULE PassSeries -------------------------------
(***************************************************************************)
(* What several passes over one area say together: BackfillAoiBaseline     *)
(* finds the structures that stay where they are and stores them as the    *)
(* area's baseline, which later analyses read.                             *)
(*                                                                         *)
(* Targets are points of a plane with whole coordinates; a cluster keeps   *)
(* the sum of its members, which is the centroid of the code times their   *)
(* number.  A baseline is written to a temporary file that all backfills   *)
(* of the area share and then moved into place; a file is an inode with    *)
(* what was last written into it.                                          *)
(***************************************************************************)
EXTENDS Integers, Sequences, FiniteSets, Functions

CONSTANTS
    Backfill,          \* requests that build the baseline
    Place,             \* where targets are: pairs of coordinates
    Radius,            \* cluster_radius_m
    NPasses,           \* scans of the area, in the order they were acquired
    MaxTargets,        \* targets of a scan
    MaxScenes,         \* the most scenes a request asks for (max_scenes)
    ShareNum, ShareDen,  \* min_persistence_pct
    MaxBackfills,      \* bounds the backfills, the scans whose results are not
    MaxUnread,         \* there when they are read, and the writers that fail
    MaxWriteFaults,
    NoInode, Torn, Partial

ASSUME SeriesAssumption ==
    /\ \A p \in Place : p \in Int \X Int
    /\ Radius \in Nat
    /\ {NPasses, MaxScenes, ShareDen} \subseteq Nat \ {0}
    /\ {MaxTargets, ShareNum, MaxBackfills, MaxUnread, MaxWriteFaults} \subseteq Nat
    /\ IsFiniteSet(Backfill)

Pass == 1..NPasses

(* Detections of a pass, in the order of detection_results.json. *)
Detections == UNION {[1..n -> Place] : n \in 0..MaxTargets}

VARIABLES
    series,        \* the targets of each pass
    backfill,      \* of each request: where it is, what it has read, what it found
    temporary,     \* inode of aoi_<id>_baseline.tmp
    stored,        \* inode of aoi_<id>_baseline.json
    contents,      \* what is in each inode
    backfills, unread, writeFaults,   \* counters of the bounds
    overlapped     \* history: two backfills have written at the same time

seriesVars == <<series, backfill, temporary, stored, contents, backfills, unread,
                writeFaults, overlapped>>

(* Enough for the two names and every open file. *)
Inode == 1..(Cardinality(Backfill) + 2)

(* What a cluster keeps, what is read of a scan, and what a baseline says. *)
Cluster == [sum : Int \X Int, n : Nat, passes : SUBSET Pass]

Scan == [pass : Pass, targets : Seq(Place)]

BaselineModel == [read : Seq(Scan), structures : SUBSET Cluster]

ASSUME NoBaselineAssumption ==
    /\ NoInode \notin Inode
    /\ Partial \notin BaselineModel /\ Torn \notin BaselineModel

NoBackfill == [at |-> "idle", todo |-> <<>>, read |-> <<>>, found |-> Partial,
               file |-> NoInode, alone |-> TRUE]

-----------------------------------------------------------------------------
(* The clusters *)
SquaredDistance(p, q) ==
    (p[1] - q[1]) * (p[1] - q[1]) + (p[2] - q[2]) * (p[2] - q[2])

(* The squared distance of p from the centroid of c, times c.n squared. *)
Gap(c, p) == SquaredDistance(<<c.sum[1], c.sum[2]>>, <<c.n * p[1], c.n * p[2]>>)

Near(c, p) == Gap(c, p) <= Radius * Radius * c.n * c.n

Nearer(c, d, p) == Gap(c, p) * d.n * d.n < Gap(d, p) * c.n * c.n

(* best_cluster: the nearest one within the radius, the first of equals. *)
Best(cs, p) ==
    {i \in DOMAIN cs :
        /\ Near(cs[i], p)
        /\ \A j \in DOMAIN cs : Near(cs[j], p) => ~Nearer(cs[j], cs[i], p)
        /\ \A j \in 1..(i - 1) : Near(cs[j], p) => Nearer(cs[i], cs[j], p)}

(* A detection d joins the best cluster, whose centroid moves, or founds one. *)
Join(cs, d) ==
    IF Best(cs, d.place) = {}
    THEN Append(cs, [sum |-> d.place, n |-> 1, passes |-> {d.pass}])
    ELSE LET i == CHOOSE j \in Best(cs, d.place) : TRUE
         IN  [cs EXCEPT ![i] = [sum |-> <<@.sum[1] + d.place[1], @.sum[2] + d.place[2]>>,
                                n |-> @.n + 1, passes |-> @.passes \cup {d.pass}]]

(* The detections of a scan join one after another, scan after scan. *)
JoinScan(cs, scan) ==
    LET joined[i \in 0..Len(scan.targets)] ==
            IF i = 0 THEN cs
            ELSE Join(joined[i - 1], [pass |-> scan.pass, place |-> scan.targets[i]])
    IN  joined[Len(scan.targets)]

Clusters(read) ==
    LET grown[k \in 0..Len(read)] ==
            IF k = 0 THEN <<>> ELSE JoinScan(grown[k - 1], read[k])
    IN  grown[Len(read)]

TotalPasses(read) == IF read = <<>> THEN 1 ELSE Len(read)

(* Slip: two passes are not yet enough. *)
PersistentLate(c, total) ==
    /\ Cardinality(c.passes) * ShareDen >= ShareNum * total
    /\ total < 2 \/ Cardinality(c.passes) > 2

Persistent(c, total) ==
    /\ Cardinality(c.passes) * ShareDen >= ShareNum * total
    /\ total < 2 \/ Cardinality(c.passes) >= 2

(* The baseline made of what was read: a pass whose results were not there *)
(* counts as a pass without targets.                                       *)
Baseline(read) ==
    LET total == TotalPasses(read)
    IN  [read |-> read,
         structures |-> {c \in Range(Clusters(read)) : Persistent(c, total)}]

-----------------------------------------------------------------------------
SeriesTypeOK ==
    /\ series \in [Pass -> Detections]
    /\ \A b \in Backfill :
           /\ backfill[b].at \in {"idle", "reading", "saving", "writing", "moving"}
           /\ backfill[b].file \in Inode \cup {NoInode}
           /\ (backfill[b].file = NoInode) = (backfill[b].at # "writing")
    /\ {temporary, stored} \subseteq Inode \cup {NoInode}
    /\ DOMAIN contents = Inode
    /\ backfills \in 0..MaxBackfills /\ unread \in 0..MaxUnread
    /\ writeFaults \in 0..MaxWriteFaults
    /\ overlapped \in BOOLEAN

SeriesInit ==
    /\ series \in [Pass -> Detections]
    /\ backfill = [b \in Backfill |-> NoBackfill]
    /\ temporary = NoInode /\ stored = NoInode
    /\ contents = [i \in Inode |-> Partial]
    /\ backfills \in 0..MaxBackfills
    /\ unread = 0 /\ writeFaults = 0
    /\ overlapped = FALSE

(* The scans of the area since the start date, the last max_scenes of them. *)
Discover(b) ==
    /\ backfill[b].at = "idle" /\ backfills < MaxBackfills
    /\ \E since \in 1..(NPasses + 1), scenes \in 1..MaxScenes :
           LET all == [k \in 1..(NPasses + 1 - since) |-> since + k - 1]
               last == IF Len(all) > scenes
                       THEN SubSeq(all, Len(all) - scenes + 1, Len(all)) ELSE all
           IN  backfill' = [backfill EXCEPT ![b] = [NoBackfill EXCEPT !.at = "reading",
                                                                      !.todo = last]]
    /\ backfills' = backfills + 1
    /\ UNCHANGED <<series, temporary, stored, contents, unread, writeFaults, overlapped>>

(* _extract_detections: a scan deleted meanwhile, one not analysed yet and *)
(* one whose results are being rewritten have no detections.               *)
ExtractDetections(b) ==
    /\ backfill[b].at = "reading" /\ backfill[b].todo # <<>>
    /\ LET p == Head(backfill[b].todo)
       IN  \E missing \in {FALSE} \cup (IF unread < MaxUnread THEN {TRUE} ELSE {}) :
               /\ backfill' =
                      [backfill EXCEPT
                          ![b].todo = Tail(@),
                          ![b].read = Append(@, [pass |-> p,
                              targets |-> IF missing THEN <<>> ELSE series[p]])]
               /\ unread' = IF missing THEN unread + 1 ELSE unread
    /\ UNCHANGED <<series, temporary, stored, contents, backfills, writeFaults, overlapped>>

Synthesise(b) ==
    /\ backfill[b].at = "reading" /\ backfill[b].todo = <<>>
    /\ backfill' = [backfill EXCEPT ![b].found = Baseline(backfill[b].read),
                                    ![b].at = "saving"]
    /\ UNCHANGED <<series, temporary, stored, contents, backfills, unread, writeFaults,
                   overlapped>>

-----------------------------------------------------------------------------
(* save() *)
Storing == {b \in Backfill : backfill[b].at \in {"writing", "moving"}}

(* open(temp_target, "w") takes the file of that name, whoever writes it,  *)
(* and empties it; if there is none it makes one.                          *)
OpenTemporary(b) ==
    /\ backfill[b].at = "saving"
    /\ LET open == {a \in Backfill : backfill[a].file = temporary /\ temporary # NoInode}
           inode == IF temporary # NoInode THEN temporary
                    ELSE CHOOSE i \in Inode :
                             i # stored /\ \A a \in Backfill : backfill[a].file # i
       IN  /\ temporary' = inode
           /\ contents' = [contents EXCEPT ![inode] = Partial]
           /\ backfill' =
                  [a \in Backfill |->
                      IF a = b THEN [backfill[b] EXCEPT !.at = "writing", !.file = inode,
                                                        !.alone = open = {}]
                      ELSE IF a \in open THEN [backfill[a] EXCEPT !.alone = FALSE]
                      ELSE backfill[a]]
    /\ overlapped' = (overlapped \/ Storing # {})
    /\ UNCHANGED <<series, stored, backfills, unread, writeFaults>>

(* json.dump and close.  What two writers have left in one file is the text *)
(* of the last one or a mixture that no parser reads.                       *)
WriteBaseline(b) ==
    /\ backfill[b].at = "writing"
    /\ \E text \in {backfill[b].found} \cup (IF backfill[b].alone THEN {} ELSE {Torn}) :
           contents' = [contents EXCEPT ![backfill[b].file] = text]
    /\ backfill' = [backfill EXCEPT ![b].at = "moving", ![b].file = NoInode]
    /\ UNCHANGED <<series, temporary, stored, backfills, unread, writeFaults, overlapped>>

(* temp_target.replace(target), which fails if another backfill has moved  *)
(* the file away: there is nothing left to unlink then.                    *)
MoveBaseline(b) ==
    /\ backfill[b].at = "moving"
    /\ IF temporary = NoInode THEN UNCHANGED stored ELSE stored' = temporary
    /\ temporary' = NoInode
    /\ backfill' = [backfill EXCEPT ![b] = NoBackfill]
    /\ UNCHANGED <<series, contents, backfills, unread, writeFaults, overlapped>>

(* What a writer leaves that stops half way. *)
Remains(b) ==
    IF backfill[b].at = "writing" /\ ~backfill[b].alone
    THEN contents' \in {contents, [contents EXCEPT ![backfill[b].file] = Torn]}
    ELSE UNCHANGED contents

(* The disk is full: the name is unlinked, whoever's file it has become.   *)
WriteFails(b) ==
    /\ backfill[b].at = "writing" /\ writeFaults < MaxWriteFaults
    /\ temporary' = NoInode
    /\ Remains(b)
    /\ backfill' = [backfill EXCEPT ![b] = NoBackfill]
    /\ writeFaults' = writeFaults + 1
    /\ UNCHANGED <<series, stored, backfills, unread, overlapped>>

(* The process dies and leaves the temporary file as it is. *)
BackfillDies(b) ==
    /\ backfill[b].at \in {"writing", "moving"} /\ writeFaults < MaxWriteFaults
    /\ Remains(b)
    /\ backfill' = [backfill EXCEPT ![b] = NoBackfill]
    /\ writeFaults' = writeFaults + 1
    /\ UNCHANGED <<series, temporary, stored, backfills, unread, overlapped>>

SeriesNext ==
    \E b \in Backfill :
        \/ Discover(b) \/ ExtractDetections(b) \/ Synthesise(b)
        \/ OpenTemporary(b) \/ WriteBaseline(b) \/ MoveBaseline(b)
        \/ WriteFails(b) \/ BackfillDies(b)

SeriesSpec == SeriesInit /\ [][SeriesNext]_seriesVars

-----------------------------------------------------------------------------
(* A place whose target was read in enough passes, with every other target *)
(* that was read further away than twice the radius.                       *)
Lasting(place, read) ==
    LET seen == Cardinality({k \in DOMAIN read : place \in Range(read[k].targets)})
    IN  /\ seen >= (IF Len(read) < 2 THEN 1 ELSE 2)
        /\ seen * ShareDen >= ShareNum * Len(read)
        /\ \A k \in DOMAIN read : \A other \in Range(read[k].targets) :
               other # place => SquaredDistance(place, other) > 4 * Radius * Radius

(* get(): nothing if the file is missing or cannot be parsed. *)
ServedBaseline == IF stored = NoInode THEN {} ELSE {contents[stored]} \ {Partial, Torn}

(* Whatever a reader is served has every structure that stayed in its place *)
(* and had room around it, and the file a reader finds can be read unless   *)
(* two backfills have written at once: one that fails or dies leaves the    *)
(* baseline before it (filesystem_aoi_baseline.py:44-70,                    *)
(* backfill_aoi_baseline.py:135-197).                                       *)
BaselineServed ==
    /\ stored # NoInode /\ ~overlapped => ServedBaseline # {}
    /\ \A baseline \in ServedBaseline : \A place \in Place :
           Lasting(place, baseline.read) =>
               \E c \in baseline.structures : Gap(c, place) = 0

(* "Persists AOI baseline models as atomic JSON documents"                 *)
(* (filesystem_aoi_baseline.py:35): a stored baseline can always be read.  *)
(* TLC refutes it: two backfills of an area share the temporary file.      *)
StoredAtomically == stored # NoInode => ServedBaseline # {}
=============================================================================
