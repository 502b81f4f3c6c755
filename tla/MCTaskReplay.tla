---------------------------- MODULE MCTaskReplay ----------------------------
(* TaskReplay with interchangeable call ids. *)
EXTENDS TaskReplay, TLC

Symmetry == Permutations(Calls)
=============================================================================
