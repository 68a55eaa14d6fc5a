------------------------- MODULE MCSchedulerClaims -------------------------
(***************************************************************************)
(* The requests on which the scheduler's own claims about itself are put   *)
(* to the test: prerequisites without a cycle, and some legal plan that    *)
(* places every unit exists.                                               *)
(***************************************************************************)
EXTENDS MCScheduler

MCSolvableInputs ==
    { in \in MCInputs :
        /\ in.units # {}
        /\ \E p \in [MCUnits -> MCWindows \cup {NoWindow}] :
              /\ \A u \in in.units : p[u] # NoWindow
              /\ Promise!LegalPlan(in, p) }

=============================================================================
