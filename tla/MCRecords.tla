------------------------------- MODULE MCRecords -------------------------------
(***************************************************************************)
(* Instances for TLC of the components that keep records: areas of         *)
(* interest, reviews, the schema with the settings, scan folders and the   *)
(* baselines made of them, the vessels, and the requests a client has      *)
(* made.  They share no state here, so one run explores them side by side: *)
(* `part` is chosen at the start and only that component moves.            *)
(***************************************************************************)
EXTENDS AoiRecords, ReviewCases, Startup, ScanStore, RequestLimits, PassSeries,
        VesselRegistry, TLC

VARIABLE part

vars == <<part, aoiVars, reviewVars, startupVars, scanVars, limitVars, seriesVars,
          registryVars>>

(* Two targets whose cluster drifts between them, and one that both are *)
(* just over twice the radius away from.                                *)
Places == {<<0, 0>>, <<8, 7>>, <<11, 3>>}

(* A structure in two passes, for the backfills that write side by side. *)
OneStructure == <<<< <<0, 0>> >>, << <<0, 0>> >>, << <<8, 7>> >>>>

(* Two vessels, one of them known with and without its IMO and with and    *)
(* without the name searched for, and a third between them.                *)
Messages ==
    LET heard(mmsi, imo, name, at, inside) ==
            [mmsi |-> mmsi, imo |-> imo, name |-> name, at |-> at, inside |-> inside]
    IN  {heard(1, "imo", "star", 0, TRUE), heard(1, "imo", "star", 2, FALSE),
         heard(1, "none", "none", 1, TRUE), heard(2, "imo", "star", 1, TRUE),
         heard(2, "imo", "none", 2, TRUE), heard(3, "imo", "star", 1, TRUE)}

Corrections == {[name |-> "star", imo |-> NoChange], [name |-> "none", imo |-> "imo"],
                [name |-> NoChange, imo |-> "new"]}

Init ==
    /\ part \in {"aoi", "review", "startup", "scan", "limits", "series", "vessels"}
    /\ AoiInit
    /\ ReviewInit
    /\ StartupInit
    /\ ScanInit
    /\ LimitInit
    /\ SeriesInit
    /\ RegistryInit
    /\ part = "aoi" \/ aoi.budget = CHOOSE b \in Budget : TRUE
    /\ IF part = "series" /\ series # OneStructure
       THEN backfills = MaxBackfills - 1
       ELSE series = OneStructure /\ backfills = 0

Next ==
    /\ UNCHANGED part
    /\ \/ part = "aoi" /\ AoiNext
       \/ part # "aoi" /\ UNCHANGED aoiVars
    /\ \/ part = "review" /\ ReviewNext
       \/ part # "review" /\ UNCHANGED reviewVars
    /\ \/ part = "startup" /\ StartupNext
       \/ part # "startup" /\ UNCHANGED startupVars
    /\ \/ part = "scan" /\ ScanNext
       \/ part # "scan" /\ UNCHANGED scanVars
    /\ \/ part = "limits" /\ LimitNext
       \/ part # "limits" /\ UNCHANGED limitVars
    /\ \/ part = "series" /\ SeriesNext
       \/ part # "series" /\ UNCHANGED seriesVars
    /\ \/ part = "vessels" /\ reader.at # "done" /\ RegistryNext
       \/ part # "vessels" /\ UNCHANGED registryVars

Spec == Init /\ [][Next]_vars

(* Every variable of the components stays in its range. *)
TypeOK ==
    /\ AoiTypeOK /\ ReviewTypeOK /\ StartupTypeOK /\ ScanTypeOK
    /\ LimitTypeOK /\ SeriesTypeOK /\ RegistryTypeOK

Symmetry == Permutations(AoiRequest) \cup Permutations(Detection)
=============================================================================
