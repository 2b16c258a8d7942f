---------------------------- MODULE VesselRegistry ----------------------------
(***************************************************************************)
(* The vessels and positions AIS has reported (persistence/sqlite_ais.py), *)
(* their correction by analysts (use_cases/manage_vessels.py), and the     *)
(* explorer, which turns their pages one request at a time while scrapes   *)
(* go on (interfaces/web/ais.py, use_cases/get_vessels.py).                *)
(*                                                                         *)
(* Both tables are sequences in the order of their ids; nothing is ever    *)
(* deleted from them.  A name stands for name, type and callsign, which    *)
(* are written and searched alike.                                         *)
(***************************************************************************)
EXTENDS Integers, Sequences, FiniteSets

CONSTANTS
    Message,            \* AIS records: [mmsi, imo, name, at, inside the box]
    Sought,             \* names that contain the term searched for
    Correction,         \* what an analyst can enter: [name, imo], NoChange: not sent
    PageSize,           \* limits the explorer can ask for
    Lookback,           \* how old a position may be to be listed
    MaxMessages,        \* bounds the messages, the corrections and the clock
    MaxCorrections,
    MaxRegistryClock,
    NoChange

ASSUME RegistryAssumption ==
    /\ \A m \in Message : {m.mmsi, m.at} \subseteq Nat
    /\ PageSize \subseteq Nat \ {0}
    /\ {Lookback, MaxMessages, MaxCorrections, MaxRegistryClock} \subseteq Nat
    /\ Lookback <= MaxRegistryClock

VARIABLES
    registryClock,
    fleet,         \* table vessels
    track,         \* table vessel_locations
    corrections,   \* counter of the bound
    curated,       \* history: vessels whose name an analyst has set
    reader         \* a user of the explorer: filters, page, what was on the pages

registryVars == <<registryClock, fleet, track, corrections, curated, reader>>

NoReader == [at |-> "idle", search |-> FALSE, boxed |-> FALSE, latest |-> FALSE,
             size |-> 1, page |-> 1, since |-> 0, end |-> 0,
             start |-> {}, met |-> {}, dropped |-> FALSE]

RegistryInit ==
    /\ registryClock = Lookback
    /\ fleet = <<>> /\ track = <<>>
    /\ corrections = 0 /\ curated = {}
    /\ reader = NoReader

-----------------------------------------------------------------------------
(* get_vessel_positions *)
Ship(i) == fleet[track[i].vessel]

Found(q, vessels, i) == q.search => vessels[track[i].vessel].name \in Sought

(* The rows the filters let through: a search looks at the vessel's row of *)
(* today, a box and a time at each position.                               *)
Filtered(q) ==
    {i \in DOMAIN track : /\ Found(q, fleet, i)
                          /\ q.boxed => track[i].inside
                          /\ track[i].at >= q.since}

(* ROW_NUMBER() OVER (PARTITION BY mmsi ORDER BY timestamp DESC, id DESC) *)
Newest(rows) ==
    {i \in rows : \A j \in rows : Ship(j).mmsi = Ship(i).mmsi =>
                      \/ track[j].at < track[i].at
                      \/ track[j].at = track[i].at /\ j <= i}

(* Slip: the newest position is looked for before the filters. *)
EntriesNewestFirst(q) ==
    IF q.latest THEN Filtered(q) \cap Newest(DOMAIN track) ELSE Filtered(q)

Entries(q) == IF q.latest THEN Newest(Filtered(q)) ELSE Filtered(q)

(* ORDER BY timestamp DESC.  Of equals, SQLite lists first the lower MMSI  *)
(* if it has ranked by MMSI, and otherwise, from the index, the higher id. *)
Above(q, i, j) ==
    \/ track[i].at > track[j].at
    \/ /\ track[i].at = track[j].at
       /\ IF q.latest THEN Ship(i).mmsi < Ship(j).mmsi ELSE i > j

(* LIMIT and OFFSET: a row is on the page its place in the order falls on. *)
Offset(q) == (q.page - 1) * q.size

Rank(q, i) == Cardinality({j \in Entries(q) : Above(q, j, i)})

Page(q) ==
    {i \in Entries(q) : Offset(q) <= Rank(q, i) /\ Rank(q, i) < Offset(q) + q.size}

-----------------------------------------------------------------------------
RegistryTypeOK ==
    /\ registryClock \in Lookback..MaxRegistryClock
    /\ \A i \in DOMAIN track : track[i].vessel \in DOMAIN fleet
    /\ \A v, w \in DOMAIN fleet :
           v # w => <<fleet[v].imo, fleet[v].mmsi>> # <<fleet[w].imo, fleet[w].mmsi>>
    /\ corrections \in 0..MaxCorrections
    /\ curated \subseteq DOMAIN fleet
    /\ reader.at \in {"idle", "page", "count", "done"}
    /\ reader.start \cup reader.met \subseteq DOMAIN track

(* A row that was in the list leaves it because its vessel's name changes. *)
Drops(vessels) ==
    /\ reader.at \in {"page", "count"}
    /\ \E i \in DOMAIN track : Found(reader, fleet, i) /\ ~Found(reader, vessels, i)

Rename(vessels) ==
    /\ fleet' = vessels
    /\ reader' = [reader EXCEPT !.dropped = @ \/ Drops(vessels)]

(* One record of save_records: the vessel is the row of its IMO and MMSI,  *)
(* whose name is overwritten even by none.  A scrape commits its records   *)
(* together; the explorer, which sees all of them, is not better off.      *)
SaveRecord ==
    /\ Len(track) < MaxMessages
    /\ \E m \in Message :
           /\ m.at <= registryClock
           /\ LET same == {v \in DOMAIN fleet : fleet[v].imo = m.imo /\ fleet[v].mmsi = m.mmsi}
                  v == IF same = {} THEN Len(fleet) + 1 ELSE CHOOSE w \in same : TRUE
              IN  /\ Rename(IF same = {}
                            THEN Append(fleet, [imo |-> m.imo, mmsi |-> m.mmsi, name |-> m.name])
                            ELSE [fleet EXCEPT ![v].name = m.name])
                  /\ track' = Append(track, [vessel |-> v, at |-> m.at, inside |-> m.inside])
    /\ UNCHANGED <<registryClock, corrections, curated>>

Entered(new, old) == IF new = NoChange THEN old ELSE new

(* update_vessel: an IMO that another row of the MMSI has raises. *)
UpdateVessel ==
    /\ corrections < MaxCorrections
    /\ \E v \in DOMAIN fleet, c \in Correction :
           LET imo == Entered(c.imo, fleet[v].imo)
           IN  /\ \A w \in DOMAIN fleet \ {v} :
                      fleet[w].imo # imo \/ fleet[w].mmsi # fleet[v].mmsi
               /\ Rename([fleet EXCEPT ![v].name = Entered(c.name, @), ![v].imo = imo])
               /\ curated' = IF c.name = NoChange THEN curated ELSE curated \cup {v}
    /\ corrections' = corrections + 1
    /\ UNCHANGED <<registryClock, track>>

-----------------------------------------------------------------------------
(* The window of a request ends now: each page has its own. *)
Since == registryClock - Lookback

OpenExplorer ==
    /\ reader.at = "idle"
    /\ \E search, boxed, latest \in BOOLEAN, size \in PageSize :
           LET q == [NoReader EXCEPT !.at = "page", !.search = search, !.boxed = boxed,
                                     !.latest = latest, !.size = size, !.since = Since]
           IN  reader' = [q EXCEPT !.start = Entries(q)]
    /\ UNCHANGED <<registryClock, fleet, track, corrections, curated>>

(* GetVesselPositions finds one row per MMSI already, and nothing to drop. *)
ReadPage ==
    /\ reader.at = "page"
    /\ LET q == [reader EXCEPT !.since = Since]
       IN  reader' = [q EXCEPT !.at = "count", !.end = Offset(q) + Cardinality(Page(q)),
                               !.met = @ \cup Page(q)]
    /\ UNCHANGED <<registryClock, fleet, track, corrections, curated>>

HasMore == reader.end < Cardinality(Entries(reader))

(* count_vessel_positions, a query of its own, says whether there is more. *)
(* At the end `start` is left with the rows that are in the list still.    *)
CountPositions ==
    /\ reader.at = "count"
    /\ reader' = IF HasMore
                 THEN [reader EXCEPT !.at = "page", !.page = @ + 1]
                 ELSE [reader EXCEPT !.at = "done", !.start = @ \cap Entries(reader)]
    /\ UNCHANGED <<registryClock, fleet, track, corrections, curated>>

RegistryTick ==
    /\ registryClock < MaxRegistryClock
    /\ registryClock' = registryClock + 1
    /\ UNCHANGED <<fleet, track, corrections, curated, reader>>

RegistryNext ==
    \/ SaveRecord \/ UpdateVessel
    \/ OpenExplorer \/ ReadPage \/ CountPositions
    \/ RegistryTick

RegistrySpec == RegistryInit /\ [][RegistryNext]_registryVars

-----------------------------------------------------------------------------
(* Whoever turns all pages has seen every row that was in the list when    *)
(* this began and still is at the end, although vessels report and are     *)
(* corrected between two pages and between a page and its count, unless a  *)
(* row has dropped out of a search: others reporting move a row down,      *)
(* never up                                                                *)
(* (interfaces/web/ais.py:161-187, sqlite_ais.py:290-341).                 *)
PagesMeetAll ==
    reader.at = "done" /\ ~reader.dropped => reader.start \subseteq reader.met

(* "LATEST_STORED" (interfaces/web/ais.py:182): the position listed for a  *)
(* vessel is the newest there is of it.  TLC refutes it: the newest within *)
(* the box is listed after the vessel has left the box.                    *)
LatestStored ==
    reader.at \in {"page", "count"} /\ reader.latest =>
        \A i \in Entries(reader), j \in DOMAIN track :
            Ship(j).mmsi = Ship(i).mmsi => track[j].at <= track[i].at

(* "Updates custom metadata" (use_cases/manage_vessels.py:27): a name an   *)
(* analyst has set stays until an analyst sets another.  TLC refutes it:   *)
(* the next message of the vessel overwrites it.                           *)
CorrectionKept ==
    [][\A v \in curated : fleet'[v].name # fleet[v].name => corrections' # corrections]_registryVars
=============================================================================
