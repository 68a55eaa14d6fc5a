----------------------------- MODULE PlanRules -----------------------------
(***************************************************************************)
(* The hard constraints of a term plan as facts about a request and a      *)
(* placement, independent of how any solver or validator checks them.      *)
(***************************************************************************)
EXTENDS PlanningData

Placed(p, u) == p[u] # NoWindow

\* A window this unit could be taught in, looking at nothing else.
Teachable(in, u, w) ==
    /\ w \in in.windows
    /\ in.available[w]
    /\ in.duration[u] <= in.minutes[w]
    /\ in.deadline[u] # NoDeadline => in.date[w] <= in.deadline[u]

\* w comes on a later day than every prerequisite of u the plan teaches.
AfterPrereqs(in, p, u, w) ==
    \A r \in in.prereqs[u] :
        r \in in.units /\ Placed(p, r) => in.date[p[r]] < in.date[w]

\* The hard constraints of 02_ARCHITECTURE.md, as a fact about the plan.
LegalPlan(in, p) ==
    /\ \A u \in Units \ in.units : ~Placed(p, u)
    /\ \A u \in in.units : Placed(p, u) =>
          Teachable(in, u, p[u]) /\ AfterPrereqs(in, p, u, p[u])
    /\ \A u, v \in in.units : Placed(p, u) /\ p[u] = p[v] => u = v

\* No unit is off the plan while a window it could use is still empty.
NobodyLeftOut(in, p) ==
    \A u \in in.units : ~Placed(p, u) =>
        ~ \E w \in in.windows :
            /\ Teachable(in, u, w)
            /\ AfterPrereqs(in, p, u, w)
            /\ \A v \in in.units : p[v] # w

Dependent(in) == \E u \in in.units : in.prereqs[u] \cap in.units # {}

=============================================================================
