--------------------------- MODULE MCSchedulerLease ---------------------------
(* Instances of SchedulerLease for TLC. *)
EXTENDS SchedulerLease, TLC

Symmetry == Permutations(Worker)

BothJobs == {"aoi", "sar"}

OneJob == {"aoi"}
=============================================================================
