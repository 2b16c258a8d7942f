----------------------------- MODULE MCTaskQueue -----------------------------
(* Instances of TaskQueue for TLC. *)
EXTENDS TaskQueue, TLC

Symmetry == Permutations(Process) \cup Permutations(Reader) \cup Permutations(Task)
=============================================================================
