---------------------------- MODULE MCSessions ----------------------------
(* Two sessions of Claude Code and one of Codex, each with one task; when  *)
(* the viewer starts, one of the two may have handed its task to the other *)
(* already, from either end, or may not have said anything yet.            *)
EXTENDS Sessions

Alone == [s \in All |-> <<Plain>>]
MCHandedBefore == {Alone, [Alone EXCEPT !["A"][1].session = "B"],
                          [Alone EXCEPT !["B"][1].parent = <<"A", 1>>],
                          [Alone EXCEPT !["B"] = <<>>]}
MCStartedAt == [s \in All |-> CASE s = "A" -> 1 [] s = "B" -> 2 [] s = "X" -> 1]
Symmetry == Permutations(Pids)
=============================================================================
