----------------------------- MODULE CodexGoals -----------------------------
(***************************************************************************)
(* The goal that is drawn of each plan in a picture of Codex: the steps'   *)
(* views and dependencies (module CodexPlan) and the band of each step.    *)
(***************************************************************************)
EXTENDS Codex, Bands

PlanDepth(plan) == Bands(DOMAIN plan.steps, DependsOn(plan))

\* A plan without steps is no graph.
goals_from_plan(plan) ==
    IF plan.steps = <<>> THEN {}
    ELSE {[views |-> [n \in DOMAIN plan.steps |-> StepView(plan, n)],
           blockedBy |-> BlockedBy(plan),
           danglingEdges |-> Dangling(plan),
           depth |-> PlanDepth(plan)]}

-----------------------------------------------------------------------------
\* Each step is drawn below what it waits on, rings apart; and of the open steps
\* of a plan without a ring, one at least can be worked on.
PlanCanBeFollowed ==
    \A plan \in PlansShown : \A goal \in goals_from_plan(plan) :
        LET open == {n \in DOMAIN goal.views : goal.views[n] # "completed"}
            inRing(n) == n \in Reach(goal.blockedBy[n], DependsOn(plan))
        IN  /\ BandsRespect(goal.depth, DependsOn(plan))
            /\ open # {} => \E n \in open : goal.views[n] \in Open \/ inRing(n)
=============================================================================
