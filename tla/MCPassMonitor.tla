---------------------------- MODULE MCPassMonitor ----------------------------
(* Instances of PassMonitor for TLC. *)
EXTENDS PassMonitor, TLC

Symmetry == Permutations(Proc)
=============================================================================
