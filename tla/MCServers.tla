----------------------------- MODULE MCServers -----------------------------
(* Process ids are interchangeable, and so are addresses.                   *)
EXTENDS Servers, TLC

Symmetry == Permutations(Pids) \cup Permutations(Addresses)
=============================================================================
