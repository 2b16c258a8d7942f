---------------------------- MODULE MCPostPassJobs ----------------------------
(* Instances of PostPassJobs for TLC. *)
EXTENDS PostPassJobs, TLC

Symmetry == Permutations(Worker)

AfterAnHour == [j \in Job |-> 1]
=============================================================================
