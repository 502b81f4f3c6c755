----------------------------- MODULE CodexPlan -----------------------------
(***************************************************************************)
(* The graph read from a Codex checklist: steps_of of the hook, which      *)
(* catches it, and codex_plan.py, which reads the dependencies out of the  *)
(* text the model wrote.  CodexGoals has what is drawn of it.              *)
(*                                                                         *)
(* A call has entries with a text (`ok') or without, each with a status    *)
(* and the clauses its prefix says, and an explanation: the clauses of     *)
(* each of its `deps:' lines.  A clause is a step's number, and what stood *)
(* between the commas after `<-', a number or something else.  Words are   *)
(* left out.                                                               *)
(***************************************************************************)
EXTENDS Integers, Sequences, FiniteSetsExt

CONSTANT MAX_STEPS

Unclear == -1
STATUS_VIEW == {"completed", "in_progress", "pending"}
Open == {"in_progress", "pending"}

-----------------------------------------------------------------------------
(* The hook *)

\* The entries that are kept, in their order.
Kept(call) == {i \in DOMAIN call.plan : i <= MAX_STEPS /\ call.plan[i].ok}
steps_of(call) ==
    [n \in 1 .. Cardinality(Kept(call)) |->
       call.plan[CHOOSE i \in Kept(call) : Cardinality({j \in Kept(call) : j <= i}) = n]]
Caught(call) == [steps |-> steps_of(call), explanation |-> call.explanation]

-----------------------------------------------------------------------------
(* What the text says *)

_ids(parts) == parts \ {Unclear}
Edges(clauses) == UNION {{c.child} \X _ids(c.parents) : c \in clauses}

\* The first `deps:' line counts.
_from_explanation(lines) == IF lines = <<>> THEN {} ELSE Edges(Head(lines))
_from_prefixes(steps) == UNION {Edges(steps[i].prefix) : i \in DOMAIN steps}
SaidEitherWay(plan) ==
    IF plan.explanation # <<>> THEN _from_explanation(plan.explanation)
                               ELSE _from_prefixes(plan.steps)
Said(plan) == _from_explanation(plan.explanation) \cup _from_prefixes(plan.steps)

-----------------------------------------------------------------------------
(* _build_nodes, _apply_views *)

Wanted(plan, n) == {e[2] : e \in {e \in Said(plan) : e[1] = n}}

StatusOf(entry) == IF entry.status \in STATUS_VIEW THEN entry.status ELSE "pending"
KnownSteps(steps) == DOMAIN steps
BlockedBy(plan) == [n \in DOMAIN plan.steps |->
                      (Wanted(plan, n) \cap KnownSteps(plan.steps)) \ {n}]
Dangling(plan) ==
    UNION {{n} \X (Wanted(plan, n) \ KnownSteps(plan.steps)) : n \in DOMAIN plan.steps}

StillNamed(plan, S) == S
StillOpen(plan, S) == {d \in S : StatusOf(plan.steps[d]) \in Open}
StepView(plan, n) ==
    LET status == StatusOf(plan.steps[n])
        blocking == StillOpen(plan, BlockedBy(plan)[n]) # {}
    IN  CASE status = "in_progress" /\ blocking -> "blocked"
          [] status = "pending" /\ blocking -> "waiting"
          [] OTHER -> status

DependsOn(plan) == UNION {{n} \X BlockedBy(plan)[n] : n \in DOMAIN plan.steps}
=============================================================================
