------------------------------ MODULE TermPlan ------------------------------
(***************************************************************************)
(* What a caller of the scheduler is promised, with no solver in it: a     *)
(* request either gets one plan, legal and with nobody left out who still  *)
(* had a place, or it is refused; and it is refused only when units of the *)
(* request depend on one another.                                          *)
(***************************************************************************)
EXTENDS PlanRules

VARIABLES
    input,    \* the request
    outcome,  \* "pending", "planned" or "refused"
    plan      \* the placement handed out, NoPlacement before that

vars == <<input, outcome, plan>>

-----------------------------------------------------------------------------

Init ==
    /\ input \in InputType
    /\ outcome = "pending"
    /\ plan = NoPlacement

Publish ==
    /\ outcome = "pending"
    /\ plan' \in Placements
    /\ LegalPlan(input, plan')
    /\ NobodyLeftOut(input, plan')
    /\ outcome' = "planned"
    /\ UNCHANGED input

Refuse ==
    /\ outcome = "pending"
    /\ Dependent(input)
    /\ outcome' = "refused"
    /\ UNCHANGED <<input, plan>>

Next == Publish \/ Refuse

Spec == Init /\ [][Next]_vars

=============================================================================
