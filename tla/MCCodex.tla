------------------------------ MODULE MCCodex ------------------------------
(* Checklists of up to three entries: chains, forks, rings, numbers that    *)
(* are not there, dependencies said in the explanation, on a step, or both. *)
EXTENDS CodexGoals

Entry(status, prefix) == [ok |-> TRUE, status |-> status, prefix |-> prefix]
Bad == [ok |-> FALSE, status |-> "pending", prefix |-> {}]
Clause(child, parents) == [child |-> child, parents |-> parents]
Checklist(entries, lines) == [plan |-> entries, explanation |-> lines]

Symmetry == Permutations(Threads)
MCCalls == {
    Checklist(<<Bad>>, <<>>),
    Checklist(<<Entry("completed", {}), Entry("pending", {Clause(2, {1})}), Entry("in_progress", {})>>,
              <<{Clause(3, {2, 3, 9}), Clause(7, {1})}, {Clause(1, {3})}>>),
    Checklist(<<Entry("completed", {}), Entry("lost", {}), Bad, Entry("pending", {Clause(2, {1, 4})})>>,
              <<{Clause(2, {1, Unclear}), Clause(3, {2})}>>),
    Checklist(<<Entry("in_progress", {Clause(1, {3})}), Entry("in_progress", {Clause(2, {1})}),
                Entry("pending", {Clause(3, {1})})>>, <<>>),
    Checklist(<<Entry("pending", {}), Entry("pending", {Clause(2, {3})}),
                Entry("pending", {Clause(1, {2})}), Entry("pending", {})>>, <<{Clause(4, {1})}>>)}
=============================================================================
