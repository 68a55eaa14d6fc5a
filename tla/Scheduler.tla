----------------------------- MODULE Scheduler -----------------------------
(***************************************************************************)
(* One call of solve_schedule (src/app/planning/scheduler.py): the CP-SAT  *)
(* solve, the greedy fallback one unit at a time, and the validation that  *)
(* decides between returning the plan and raising InfeasibleScheduleError. *)
(*                                                                         *)
(* CP-SAT itself is external: what comes back is any placement satisfying  *)
(* the constraints posted to the model ("feasible"), one that also         *)
(* minimises the posted objective ("optimal"), or nothing at all, which    *)
(* the time limit makes possible even where a solution exists.             *)
(***************************************************************************)
EXTENDS PlanningData, Functions

CONSTANTS
    Inputs,        \* the requests to consider
    ChurnPenalty   \* solve_schedule's churn_penalty, 1000 by default

ASSUME SchedulerAssumption ==
    /\ Inputs \subseteq InputType
    /\ ChurnPenalty \in Nat

VARIABLES
    input,        \* the arguments of the call
    pc,           \* "solve", "greedy", "validate", "returned", "raised"
    placed,       \* ScheduleResult.assignments
    unscheduled,  \* ScheduleResult.unscheduled_unit_ids
    status,       \* ScheduleResult.status, "none" before there is a result
    diff,         \* unchanged_count and moved_count
    todo,         \* greedy: the units its loop has not reached
    remaining     \* greedy: remaining_windows

vars == <<input, pc, placed, unscheduled, status, diff, todo, remaining>>

IsPlaced(u) == placed[u] # NoWindow

-----------------------------------------------------------------------------
(* Orders and candidates *)

\* The sort key (date, window_id.int) of sorted_windows and of the greedy min.
Before(v, w) ==
    \/ input.date[v] < input.date[w]
    \/ input.date[v] = input.date[w] /\ v < w

\* The greedy order, (-priority, unit_id.int).
Precedes(u, v) ==
    \/ input.priority[u] > input.priority[v]
    \/ input.priority[u] = input.priority[v] /\ u < v

\* _candidate_windows, one window at a time.
Candidate(u, w) ==
    /\ w \in input.windows
    /\ input.available[w]
    /\ input.minutes[w] >= input.duration[u]
    /\ input.deadline[u] # NoDeadline => input.date[w] <= input.deadline[u]

HasCandidate(u) == \E w \in input.windows : Candidate(u, w)

\* date_index: the position of w in sorted_windows, from 0.
DateIndex(w) == Cardinality({v \in input.windows : Before(v, w)})

-----------------------------------------------------------------------------
(* The CP-SAT model *)

\* Both units scheduled: the dependent lands on a strictly larger index.
IndexOrdered(p, u, r) ==
    p[u] # NoWindow /\ p[r] # NoWindow => DateIndex(p[u]) > DateIndex(p[r])

\* The constraints posted to the model.
Solves(p) ==
    /\ \A u \in Units :
          IF u \in input.units /\ HasCandidate(u)
          THEN p[u] # NoWindow /\ Candidate(u, p[u])
          ELSE p[u] = NoWindow
    /\ \A u, v \in input.units : p[u] = p[v] /\ p[u] # NoWindow => u = v
    /\ \A u \in input.units : \A r \in input.prereqs[u] \cap input.units :
          IndexOrdered(p, u, r)

\* Churn terms: units whose previous window is still a candidate but was left.
Churn(p) ==
    Cardinality({u \in input.units :
        Candidate(u, input.previous[u]) /\ p[u] # input.previous[u]})

\* date_idx of a unit, 0 where it is in no window.
UnitIndex(p) ==
    [u \in input.units |-> IF p[u] = NoWindow THEN 0 ELSE DateIndex(p[u])]

TotalIndex(p) == SumFunction(UnitIndex(p))

\* Mutant: the churn terms lose their weight.
ObjectiveUnweighted(p) == Churn(p) + TotalIndex(p)

Objective(p) == ChurnPenalty * Churn(p) + TotalIndex(p)

Optimal(p) == \A q \in Placements : Solves(q) => Objective(p) <= Objective(q)

-----------------------------------------------------------------------------
(* Results *)

\* _diff_previous.
DiffPrevious(p) ==
    LET assigned  == {u \in input.units : p[u] # NoWindow}
        unchanged == {u \in assigned : p[u] = input.previous[u]}
    IN  IF input.previous = NoPlacement
        THEN [unchanged |-> 0, moved |-> Cardinality(assigned)]
        ELSE [unchanged |-> Cardinality(unchanged),
              moved |-> Cardinality(assigned) - Cardinality(unchanged)]

\* Mutant: a prerequisite on the same day passes.
ValidatedSameDay(p) ==
    /\ \A u \in input.units : p[u] # NoWindow => Candidate(u, p[u])
    /\ \A u, v \in input.units : p[u] # NoWindow /\ p[u] = p[v] => u = v
    /\ \A u \in input.units : \A r \in input.prereqs[u] \cap input.units :
          p[u] # NoWindow /\ p[r] # NoWindow => input.date[p[r]] <= input.date[p[u]]

\* validate_schedule: no violation string is produced.
Validated(p) ==
    /\ \A u \in input.units : p[u] # NoWindow =>
          /\ p[u] \in input.windows
          /\ input.available[p[u]]
          /\ input.duration[u] <= input.minutes[p[u]]
          /\ input.deadline[u] # NoDeadline => input.date[p[u]] <= input.deadline[u]
    /\ \A u, v \in input.units : p[u] # NoWindow /\ p[u] = p[v] => u = v
    /\ \A u \in input.units : \A r \in input.prereqs[u] \cap input.units :
          p[u] # NoWindow /\ p[r] # NoWindow => input.date[p[r]] < input.date[p[u]]

-----------------------------------------------------------------------------
(* Steps *)

Init ==
    /\ input \in Inputs
    /\ pc = "solve"
    /\ placed = NoPlacement
    /\ unscheduled = {}
    /\ status = "none"
    /\ diff = [unchanged |-> 0, moved |-> 0]
    /\ todo = {}
    /\ remaining = {}

\* Early return: there is nothing to schedule.
NothingToSchedule ==
    /\ pc = "solve"
    /\ input.units = {}
    /\ pc' = "returned"
    /\ status' = "optimal"
    /\ UNCHANGED <<input, placed, unscheduled, diff, todo, remaining>>

\* The solver answered with placement p; the result is built from it.
TakeSolution(p, s) ==
    /\ pc = "solve"
    /\ input.units # {}
    /\ Solves(p)
    /\ placed' = p
    /\ unscheduled' = {u \in input.units : p[u] = NoWindow}
    /\ diff' = DiffPrevious(p)
    /\ status' = s
    /\ pc' = "validate"
    /\ UNCHANGED <<input, todo, remaining>>

SolverOptimal == \E p \in Placements : TakeSolution(p, "optimal") /\ Optimal(p)

SolverFeasible == \E p \in Placements : TakeSolution(p, "feasible")

\* Mutant: the fallback is given every window of the school.
SolverGivesUpAllWindows ==
    /\ pc = "solve"
    /\ input.units # {}
    /\ todo' = input.units
    /\ remaining' = Windows
    /\ pc' = "greedy"
    /\ UNCHANGED <<input, placed, unscheduled, status, diff>>

\* INFEASIBLE, or UNKNOWN at the time limit: _greedy_schedule is entered.
SolverGivesUp ==
    /\ pc = "solve"
    /\ input.units # {}
    /\ todo' = input.units
    /\ remaining' = input.windows
    /\ pc' = "greedy"
    /\ UNCHANGED <<input, placed, unscheduled, status, diff>>

\* The unit the greedy loop is at.
AtUnit(u) ==
    /\ pc = "greedy"
    /\ u \in todo
    /\ \A v \in todo : v = u \/ Precedes(u, v)

\* Mutant: the day of the prerequisite itself is late enough.
AfterScheduledPrereqsSameDay(u, w) ==
    \A r \in input.prereqs[u] : IsPlaced(r) => input.date[w] >= input.date[placed[r]]

\* earliest_allowed, one window at a time: later than every prerequisite
\* that has been scheduled so far.
AfterScheduledPrereqs(u, w) ==
    \A r \in input.prereqs[u] : IsPlaced(r) => input.date[w] > input.date[placed[r]]

GreedyCandidates(u) ==
    {w \in remaining : Candidate(u, w) /\ AfterScheduledPrereqs(u, w)}

\* Mutant: always the earliest candidate.
ChosenEarliest(u, w) ==
    /\ w \in GreedyCandidates(u)
    /\ \A v \in GreedyCandidates(u) : v = w \/ Before(w, v)

\* The previous window while it is a candidate, else the earliest one.
Chosen(u, w) ==
    /\ w \in GreedyCandidates(u)
    /\ \/ w = input.previous[u]
       \/ /\ input.previous[u] \notin GreedyCandidates(u)
          /\ \A v \in GreedyCandidates(u) : v = w \/ Before(w, v)

GreedyPlace ==
    \E u \in Units, w \in Windows :
        /\ AtUnit(u)
        /\ Chosen(u, w)
        /\ placed' = [placed EXCEPT ![u] = w]
        /\ remaining' = remaining \ {w}
        /\ todo' = todo \ {u}
        /\ UNCHANGED <<input, pc, unscheduled, status, diff>>

\* Mutant: the loop does not advance past a unit it cannot place.
GreedySkipStuck ==
    \E u \in Units :
        /\ AtUnit(u)
        /\ GreedyCandidates(u) = {}
        /\ unscheduled' = unscheduled \cup {u}
        /\ UNCHANGED <<input, pc, placed, status, diff, todo, remaining>>

GreedySkip ==
    \E u \in Units :
        /\ AtUnit(u)
        /\ GreedyCandidates(u) = {}
        /\ unscheduled' = unscheduled \cup {u}
        /\ todo' = todo \ {u}
        /\ UNCHANGED <<input, pc, placed, status, diff, remaining>>

GreedyDone ==
    /\ pc = "greedy"
    /\ todo = {}
    /\ diff' = DiffPrevious(placed)
    /\ status' = "greedy_fallback"
    /\ pc' = "validate"
    /\ UNCHANGED <<input, placed, unscheduled, todo, remaining>>

Return ==
    /\ pc = "validate"
    /\ Validated(placed)
    /\ pc' = "returned"
    /\ UNCHANGED <<input, placed, unscheduled, status, diff, todo, remaining>>

Raise ==
    /\ pc = "validate"
    /\ ~Validated(placed)
    /\ pc' = "raised"
    /\ UNCHANGED <<input, placed, unscheduled, status, diff, todo, remaining>>

Next ==
    \/ NothingToSchedule
    \/ SolverOptimal
    \/ SolverFeasible
    \/ SolverGivesUp
    \/ GreedyPlace
    \/ GreedySkip
    \/ GreedyDone
    \/ Return
    \/ Raise

Spec == Init /\ [][Next]_vars

\* The call is synchronous and time-boxed: it never stops in the middle.
FairSpec == Spec /\ WF_vars(Next)

-----------------------------------------------------------------------------
(* Properties *)

\* The variables hold what their comments say.
TypeOK ==
    /\ input \in InputType
    /\ pc \in {"solve", "greedy", "validate", "returned", "raised"}
    /\ placed \in Placements
    /\ unscheduled \subseteq input.units
    /\ status \in {"none", "optimal", "feasible", "greedy_fallback"}
    /\ diff \in [unchanged : Nat, moved : Int]
    /\ todo \subseteq input.units
    /\ remaining \subseteq input.windows

\* The call seen from its caller: nothing, then a plan or an exception.
Outcome ==
    CASE pc = "returned" -> "planned"
      [] pc = "raised"   -> "refused"
      [] OTHER           -> "pending"

HandedOut == IF pc = "returned" THEN placed ELSE NoPlacement

Promise == INSTANCE TermPlan WITH outcome <- Outcome, plan <- HandedOut

\* solve_schedule implements the abstract promise: a plan that reaches the
\* caller is legal and leaves nobody out who still has a place, whichever
\* path produced it, and only a request with prerequisites is refused.
PromiseKept == Promise!Spec

\* Why the validation ever fails.  The only constraint a result can break is
\* prerequisite order, and only in two ways: CP-SAT orders window indexes and
\* two windows of one day have different indexes, or the greedy loop reached
\* a dependent before its prerequisite (priority inversion, a cycle).
RaiseExplained ==
    pc = "raised" =>
        \E u \in input.units : \E r \in input.prereqs[u] \cap input.units :
            /\ IsPlaced(u) /\ IsPlaced(r)
            /\ IF status = "greedy_fallback"
               THEN ~Precedes(r, u) /\ input.date[placed[u]] <= input.date[placed[r]]
               ELSE placed[u] # placed[r] /\ input.date[placed[u]] = input.date[placed[r]]

\* The previous plan still is a legal plan of this very request: every unit
\* keeps a legal place, or had none and can have none.
PreviousStillLegal ==
    /\ Promise!LegalPlan(input, [u \in Units |->
           IF u \in input.units THEN input.previous[u] ELSE NoWindow])
    /\ \A u \in input.units : input.previous[u] = NoWindow => ~HasCandidate(u)

\* Replanning when nothing relevant changed reproduces the plan: neither the
\* optimum nor the greedy fallback moves a unit (02_ARCHITECTURE.md: minimise
\* plan instability).  A "feasible" answer, cut off by the time limit, may.
ReplanIsIdentity ==
    pc \in {"returned", "raised"} /\ PreviousStillLegal /\ status # "feasible" =>
        /\ pc = "returned"
        /\ \A u \in input.units : placed[u] = input.previous[u]

\* An optimal answer keeps as many units in place as any assignment the model
\* admits, and of those it is one with the least total window index: churn
\* first, elapsed time second, although the two are one weighted sum.
ChurnFirst ==
    status = "optimal" /\ input.previous # NoPlacement /\ input.units # {} =>
        \A q \in Placements : Solves(q) =>
            LET kept == Cardinality({u \in input.units :
                            q[u] # NoWindow /\ q[u] = input.previous[u]})
            IN  /\ kept <= diff.unchanged
                /\ kept = diff.unchanged => TotalIndex(placed) <= TotalIndex(q)

\* A call comes to an end: every unit of the greedy loop is placed or skipped.
Terminates == <>(pc \in {"returned", "raised"})

\* What the code says of its own validation: CP-SAT results never fail it,
\* "a validated invariant failing means a modeling bug, not bad input data".
SolverResultIsValid == ~(pc = "raised" /\ status # "greedy_fallback")

\* What _greedy_schedule says of itself: it "guarantees *a* feasible plan"
\* (checked where a legal plan that places every unit exists).
GreedyFindsFeasiblePlan == ~(pc = "raised" /\ status = "greedy_fallback")

=============================================================================
