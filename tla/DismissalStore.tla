--------------------------- MODULE DismissalStore ---------------------------
(***************************************************************************)
(* What the kept dismissals promise (ADR-ST-006, add_dismissal and         *)
(* load_dismissed of state.py): a set that only grows, one dismissal at a  *)
(* time, and that holds every dismissal the page was told is stored.       *)
(***************************************************************************)
EXTENDS FiniteSets

CONSTANT Questions   \* the questions there are, as their dismissal keys

VARIABLES kept,   \* the dismissals a reader of the store gets
          acked   \* the dismissals whose request was answered

vars == <<kept, acked>>

Init == kept \in SUBSET Questions /\ acked = {}

Keep(q) == kept' = kept \cup {q} /\ UNCHANGED acked
Acknowledge(q) == q \in kept /\ acked' = acked \cup {q} /\ UNCHANGED kept

Next == \E q \in Questions : Keep(q) \/ Acknowledge(q)

Spec == Init /\ [][Next]_vars

\* No acknowledged dismissal is lost.
AckedIsKept == acked \subseteq kept
\* No dismissed question comes back.
OnlyGrows == [][kept \subseteq kept']_vars
=============================================================================
