-------------------------- MODULE SchedulerProofs --------------------------
(***************************************************************************)
(* Proofs about Scheduler, for every set of units and windows and every    *)
(* set of requests.                                                        *)
(***************************************************************************)
EXTENDS Scheduler, SequenceLemmas

-----------------------------------------------------------------------------
(* Lemmas about the operators *)

\* The counts of _diff_previous are numbers.
LEMMA DiffType ==
    ASSUME input \in InputType, NEW p \in Placements
    PROVE  DiffPrevious(p) \in [unchanged : Nat, moved : Int]
<1> DEFINE A == {u \in input.units : p[u] # NoWindow}
           K == {u \in A : p[u] = input.previous[u]}
<1>1. IsFiniteSet(input.units)
  BY DataAssumption, FS_Subset DEF InputType
<1>2. IsFiniteSet(A) /\ IsFiniteSet(K)
  BY <1>1, FS_Subset
<1>3. Cardinality(A) \in Nat /\ Cardinality(K) \in Nat
  BY <1>2, FS_CardinalityType
<1> QED BY <1>3 DEF DiffPrevious

\* A window that sorts before another one has no larger index.
LEMMA IndexMonotone ==
    ASSUME input \in InputType,
           NEW v \in input.windows, NEW w \in input.windows, Before(v, w)
    PROVE  DateIndex(v) \in Nat /\ DateIndex(w) \in Nat /\ DateIndex(v) <= DateIndex(w)
<1> DEFINE V == {x \in input.windows : Before(x, v)}
           W == {x \in input.windows : Before(x, w)}
<1>1. input.windows \subseteq Nat /\ input.date \in [Windows -> Nat]
      /\ input.windows \subseteq Windows
  BY DataAssumption DEF InputType
<1>2. IsFiniteSet(input.windows)
  BY <1>1, DataAssumption, FS_Subset
<1>3. V \subseteq W
  BY <1>1 DEF Before
<1>4. IsFiniteSet(W) /\ IsFiniteSet(V)
  BY <1>2, FS_Subset
<1>5. Cardinality(V) <= Cardinality(W) /\ Cardinality(V) \in Nat /\ Cardinality(W) \in Nat
  BY <1>3, <1>4, FS_Subset, FS_CardinalityType
<1> QED BY <1>5 DEF DateIndex

-----------------------------------------------------------------------------
(* Type correctness *)

\* No step takes a variable out of its type.
LEMMA TypeStep == TypeOK /\ [Next]_vars => TypeOK'
<1> SUFFICES ASSUME TypeOK, [Next]_vars PROVE TypeOK'
  OBVIOUS
<1> USE DEF TypeOK
<1>1. CASE NothingToSchedule
  BY <1>1 DEF NothingToSchedule
<1>2. ASSUME NEW p \in Placements, NEW s \in {"optimal", "feasible"},
             TakeSolution(p, s)
      PROVE  TypeOK'
  <2>1. DiffPrevious(p) \in [unchanged : Nat, moved : Int]
    BY DiffType
  <2> QED BY <1>2, <2>1 DEF TakeSolution
<1>3. CASE SolverOptimal
  BY <1>2, <1>3 DEF SolverOptimal
<1>4. CASE SolverFeasible
  BY <1>2, <1>4 DEF SolverFeasible
<1>5. CASE SolverGivesUp
  BY <1>5 DEF SolverGivesUp
<1>6. CASE GreedyPlace
  BY <1>6 DEF GreedyPlace, Placements
<1>7. CASE GreedySkip
  BY <1>7 DEF GreedySkip, AtUnit
<1>8. CASE GreedyDone
  <2>1. DiffPrevious(placed) \in [unchanged : Nat, moved : Int]
    BY DiffType
  <2> QED BY <1>8, <2>1 DEF GreedyDone
<1>9. CASE Return
  BY <1>9 DEF Return
<1>10. CASE Raise
  BY <1>10 DEF Raise
<1>11. CASE UNCHANGED vars
  BY <1>11 DEF vars
<1> QED BY <1>1, <1>3, <1>4, <1>5, <1>6, <1>7, <1>8, <1>9, <1>10, <1>11 DEF Next

\* The variables keep their types in every behaviour.
THEOREM TypeCorrect == Spec => []TypeOK
<1>1. Init => TypeOK
  BY DataAssumption, SchedulerAssumption DEF Init, TypeOK, Placements, NoPlacement, InputType
<1>2. TypeOK /\ [Next]_vars => TypeOK'
  BY TypeStep
<1> QED BY <1>1, <1>2, PTL DEF Spec

-----------------------------------------------------------------------------
(* The inductive invariant *)

\* A result of CP-SAT is a solution of the posted constraints.
SolverFacts ==
    status \in {"optimal", "feasible"} /\ input.units # {} => Solves(placed)

\* Whatever is placed is placed legally, one unit to a window.
PlacedFacts ==
    /\ \A u \in Units : IsPlaced(u) => u \in input.units /\ Candidate(u, placed[u])
    /\ \A u, v \in Units : IsPlaced(u) /\ placed[u] = placed[v] => u = v

GreedyEntered == pc = "greedy" \/ status = "greedy_fallback"

\* The loop splits the units into placed, unscheduled and to do; the windows
\* left are those nobody was given; and it went through the units in order.
LoopFacts ==
    /\ \A u \in input.units :
          /\ u \in todo => ~IsPlaced(u) /\ u \notin unscheduled
          /\ u \notin todo => (IsPlaced(u) <=> u \notin unscheduled)
    /\ \A w \in input.windows : w \in remaining <=> \A v \in Units : placed[v] # w
    /\ \A u \in input.units \ todo : \A v \in todo : Precedes(u, v)

\* A prerequisite the order puts first is taught on an earlier day.
OrderFacts ==
    \A u \in input.units : \A r \in input.prereqs[u] :
        IsPlaced(u) /\ IsPlaced(r) /\ Precedes(r, u)
            => input.date[placed[r]] < input.date[placed[u]]

\* A unit that was skipped still has no window: windows only get fewer, and
\* a prerequisite placed later only narrows the choice.
SkippedFacts == \A u \in unscheduled : GreedyCandidates(u) = {}

Phases ==
    /\ pc \in {"solve", "greedy"} <=> status = "none"
    /\ pc \in {"solve", "greedy"} => diff = [unchanged |-> 0, moved |-> 0]
    /\ pc = "solve" \/ input.units = {} => placed = NoPlacement /\ unscheduled = {}
    /\ status = "greedy_fallback" => todo = {}
    /\ pc = "raised" => ~Validated(placed)
    /\ pc = "returned" => Validated(placed)

IInv ==
    /\ TypeOK
    /\ Phases
    /\ SolverFacts
    /\ PlacedFacts
    /\ GreedyEntered => LoopFacts /\ OrderFacts /\ SkippedFacts

\* The greedy order is a strict total order.
LEMMA PrecedesOrder ==
    ASSUME input \in InputType, NEW u \in Units, NEW v \in Units, NEW x \in Units
    PROVE  /\ u = v \/ Precedes(u, v) \/ Precedes(v, u)
           /\ Precedes(u, v) /\ Precedes(v, x) => Precedes(u, x)
           /\ ~(Precedes(u, v) /\ Precedes(v, u))
BY DataAssumption DEF InputType, Precedes

\* The invariant holds at the call.
LEMMA InitInv == Init => IInv
<1> SUFFICES ASSUME Init PROVE IInv
  OBVIOUS
<1>1. TypeOK
  BY DataAssumption, SchedulerAssumption DEF Init, TypeOK, Placements, NoPlacement, InputType
<1>2. Phases /\ SolverFacts /\ PlacedFacts /\ ~GreedyEntered
  BY DEF Init, Phases, SolverFacts, PlacedFacts, GreedyEntered, IsPlaced, NoPlacement
<1> QED BY <1>1, <1>2 DEF IInv

\* A solution of the model is a legal placement up to prerequisite days.
LEMMA SolvesPlaced ==
    ASSUME TypeOK, NEW p \in Placements, Solves(p)
    PROVE  /\ \A u \in Units : p[u] # NoWindow => u \in input.units /\ Candidate(u, p[u])
           /\ \A u, v \in Units : p[u] # NoWindow /\ p[u] = p[v] => u = v
BY DEF Solves

\* Taking the answer of the solver preserves the invariant.
LEMMA SolutionInv ==
    ASSUME IInv, NEW p \in Placements, NEW s \in {"optimal", "feasible"},
           TakeSolution(p, s), TypeOK'
    PROVE  IInv'
<1> USE DEF IInv
<1>1. Phases'
  BY DEF TakeSolution, Phases
<1>2. SolverFacts'
  BY DEF TakeSolution, SolverFacts, Solves, HasCandidate, Candidate, IndexOrdered,
         DateIndex, Before
<1>3. PlacedFacts'
  BY SolvesPlaced DEF TakeSolution, PlacedFacts, IsPlaced, Candidate
<1>4. ~GreedyEntered'
  BY DEF TakeSolution, GreedyEntered
<1> QED BY <1>1, <1>2, <1>3, <1>4

\* The state in which the greedy loop starts satisfies the invariant.
LEMMA GivesUpInv ==
    ASSUME IInv, SolverGivesUp, TypeOK'
    PROVE  IInv'
<1> USE DEF IInv
<1>1. placed = NoPlacement /\ unscheduled = {} /\ status = "none"
  BY DEF SolverGivesUp, Phases
<1>2. Phases'
  BY <1>1 DEF SolverGivesUp, Phases
<1>3. SolverFacts' /\ PlacedFacts'
  BY <1>1 DEF SolverGivesUp, SolverFacts, PlacedFacts, IsPlaced, NoPlacement
<1>4. LoopFacts' /\ OrderFacts' /\ SkippedFacts'
  BY <1>1, DataAssumption
     DEF SolverGivesUp, LoopFacts, OrderFacts, SkippedFacts, IsPlaced, NoPlacement,
         TypeOK, InputType
<1> QED BY <1>2, <1>3, <1>4

\* One unit is given a window: the invariant is preserved.
LEMMA PlaceInv ==
    ASSUME IInv, GreedyPlace, TypeOK'
    PROVE  IInv'
<1> USE DEF IInv
<1>1. PICK u \in Units, w \in Windows :
        /\ AtUnit(u)
        /\ Chosen(u, w)
        /\ placed' = [placed EXCEPT ![u] = w]
        /\ remaining' = remaining \ {w}
        /\ todo' = todo \ {u}
        /\ UNCHANGED <<input, pc, unscheduled, status, diff>>
  BY DEF GreedyPlace
<1>2. /\ pc = "greedy" /\ status = "none" /\ u \in todo /\ u \in input.units
      /\ w \in remaining /\ w \in input.windows /\ Candidate(u, w)
      /\ AfterScheduledPrereqs(u, w) /\ ~IsPlaced(u) /\ w # NoWindow
      /\ \A v \in Units : placed[v] # w
  BY <1>1, DataAssumption
     DEF AtUnit, Chosen, GreedyCandidates, Phases, TypeOK, GreedyEntered, LoopFacts
<1>3. LoopFacts /\ OrderFacts /\ SkippedFacts
  BY <1>2 DEF GreedyEntered
<1>4. /\ placed'[u] = w
      /\ \A v \in Units : v # u => placed'[v] = placed[v]
  BY <1>1 DEF TypeOK, Placements
<1>5. Phases' /\ SolverFacts'
  BY <1>1, <1>2 DEF Phases, SolverFacts
<1>6. PlacedFacts'
  <2>1. \A v \in Units : IsPlaced(v)' => v \in input.units /\ Candidate(v, placed'[v])
    BY <1>1, <1>2, <1>4 DEF PlacedFacts, IsPlaced
  <2>2. \A v, x \in Units : IsPlaced(v)' /\ placed'[v] = placed'[x] => v = x
    BY <1>1, <1>2, <1>4 DEF PlacedFacts, IsPlaced
  <2> QED BY <2>1, <2>2, <1>1 DEF PlacedFacts, Candidate
<1>7. LoopFacts'
  <2>1. \A v \in input.units :
          /\ v \in todo' => ~IsPlaced(v)' /\ v \notin unscheduled
          /\ v \notin todo' => (IsPlaced(v)' <=> v \notin unscheduled)
    BY <1>1, <1>2, <1>3, <1>4 DEF LoopFacts, IsPlaced, TypeOK, InputType
  <2>2. \A x \in input.windows : x \in remaining' <=> \A v \in Units : placed'[v] # x
    <3> SUFFICES ASSUME NEW x \in input.windows
                 PROVE  x \in remaining' <=> \A v \in Units : placed'[v] # x
      OBVIOUS
    <3>1. CASE x = w
      BY <3>1, <1>1, <1>4
    <3>2. CASE x # w
      <4>1. x # NoWindow /\ placed[u] = NoWindow
        BY <1>2, DataAssumption DEF TypeOK, InputType, IsPlaced
      <4>2. \A v \in Units : placed'[v] = x <=> placed[v] = x
        BY <3>2, <4>1, <1>4
      <4> QED BY <3>2, <4>2, <1>1, <1>3 DEF LoopFacts
    <3> QED BY <3>1, <3>2
  <2>3. \A v \in input.units \ todo' : \A x \in todo' : Precedes(v, x)
    BY <1>1, <1>2, <1>3 DEF LoopFacts, AtUnit
  <2> QED BY <2>1, <2>2, <2>3, <1>1 DEF LoopFacts, Precedes
<1>8. OrderFacts'
  <2> SUFFICES ASSUME NEW v \in input.units, NEW r \in input.prereqs[v],
                      IsPlaced(v)', IsPlaced(r)', Precedes(r, v)
               PROVE  input.date[placed'[r]] < input.date[placed'[v]]
    BY <1>1 DEF OrderFacts, Precedes
  <2>1. v \in Units /\ r \in Units /\ r \in input.units
    BY <1>1, <1>6 DEF TypeOK, InputType, PlacedFacts
  <2>2. CASE v = u
    <3>1. r # u
      BY <2>1, <2>2, PrecedesOrder DEF TypeOK
    <3> QED BY <3>1, <2>1, <2>2, <1>2, <1>4 DEF AfterScheduledPrereqs, IsPlaced
  <2>3. CASE v # u /\ r = u
    <3>1. v \notin todo
      BY <2>1, <2>3, <1>3, <1>4 DEF LoopFacts, IsPlaced
    <3>2. Precedes(v, u)
      BY <3>1, <1>2, <1>3 DEF LoopFacts
    <3> QED BY <3>2, <2>1, <2>3, PrecedesOrder DEF TypeOK
  <2>4. CASE v # u /\ r # u
    BY <2>1, <2>4, <1>3, <1>4 DEF OrderFacts, IsPlaced
  <2> QED BY <2>2, <2>3, <2>4
<1>9. SkippedFacts'
  <2> SUFFICES ASSUME NEW v \in unscheduled, NEW x \in GreedyCandidates(v)'
               PROVE  FALSE
    BY <1>1 DEF SkippedFacts
  <2>1. v \in Units /\ v # u
    BY <1>2, <1>3 DEF TypeOK, InputType, LoopFacts
  <2>2. x \in remaining /\ Candidate(v, x)
    BY <1>1 DEF GreedyCandidates, Candidate
  <2>3. AfterScheduledPrereqs(v, x)
    <3> SUFFICES ASSUME NEW r \in input.prereqs[v], IsPlaced(r)
                 PROVE  input.date[x] > input.date[placed[r]]
      BY DEF AfterScheduledPrereqs
    <3>1. r \in Units /\ r # u
      BY <2>1, <1>2 DEF TypeOK, InputType
    <3>2. IsPlaced(r)' /\ placed'[r] = placed[r]
      BY <3>1, <1>4 DEF IsPlaced
    <3> QED BY <3>2, <1>1 DEF GreedyCandidates, AfterScheduledPrereqs
  <2> QED BY <2>2, <2>3, <1>3 DEF SkippedFacts, GreedyCandidates
<1> QED BY <1>5, <1>6, <1>7, <1>8, <1>9

\* One unit is skipped: the invariant is preserved.
LEMMA SkipInv ==
    ASSUME IInv, GreedySkip, TypeOK'
    PROVE  IInv'
<1> USE DEF IInv
<1>1. PICK u \in Units :
        /\ AtUnit(u)
        /\ GreedyCandidates(u) = {}
        /\ unscheduled' = unscheduled \cup {u}
        /\ todo' = todo \ {u}
        /\ UNCHANGED <<input, pc, placed, status, diff, remaining>>
  BY DEF GreedySkip
<1>2. /\ pc = "greedy" /\ status = "none" /\ u \in todo /\ u \in input.units
      /\ LoopFacts /\ OrderFacts /\ SkippedFacts
  BY <1>1 DEF AtUnit, Phases, TypeOK, GreedyEntered
<1>3. Phases' /\ SolverFacts' /\ PlacedFacts'
  BY <1>1, <1>2 DEF Phases, SolverFacts, PlacedFacts, IsPlaced, Candidate
<1>4. LoopFacts'
  BY <1>1, <1>2 DEF LoopFacts, IsPlaced, AtUnit, Precedes
<1>5. OrderFacts'
  BY <1>1, <1>2 DEF OrderFacts, IsPlaced, Precedes
<1>6. SkippedFacts'
  BY <1>1, <1>2
     DEF SkippedFacts, GreedyCandidates, Candidate, AfterScheduledPrereqs, IsPlaced
<1> QED BY <1>3, <1>4, <1>5, <1>6

\* The steps that only move the call on leave placement and loop alone.
LEMMA MoveOnInv ==
    ASSUME IInv, NothingToSchedule \/ GreedyDone \/ Return \/ Raise, TypeOK'
    PROVE  IInv'
<1> USE DEF IInv
<1>1. /\ UNCHANGED <<input, placed, unscheduled, todo, remaining>>
      /\ GreedyEntered' => GreedyEntered
  BY DEF NothingToSchedule, GreedyDone, Return, Raise, GreedyEntered
<1>2. Phases'
  BY <1>1 DEF Phases, NothingToSchedule, GreedyDone, Return, Raise, Validated
<1>3. SolverFacts'
  BY DEF SolverFacts, NothingToSchedule, GreedyDone, Return, Raise, Solves,
         HasCandidate, Candidate, IndexOrdered, DateIndex, Before
<1>4. PlacedFacts'
  BY <1>1 DEF PlacedFacts, IsPlaced, Candidate
<1>5. GreedyEntered' => LoopFacts' /\ OrderFacts' /\ SkippedFacts'
  BY <1>1 DEF LoopFacts, OrderFacts, SkippedFacts, GreedyCandidates, Candidate,
              AfterScheduledPrereqs, IsPlaced, Precedes
<1> QED BY <1>2, <1>3, <1>4, <1>5

\* A step that changes nothing preserves the invariant.
LEMMA StutterInv ==
    ASSUME IInv, UNCHANGED vars, TypeOK'
    PROVE  IInv'
<1> USE DEF IInv, vars
<1>1. Phases'
  BY DEF Phases, Validated
<1>2. SolverFacts'
  BY DEF SolverFacts, Solves, HasCandidate, Candidate, IndexOrdered, DateIndex, Before
<1>3. PlacedFacts'
  BY DEF PlacedFacts, IsPlaced, Candidate
<1>4. GreedyEntered' => LoopFacts' /\ OrderFacts' /\ SkippedFacts'
  BY DEF GreedyEntered, LoopFacts, OrderFacts, SkippedFacts, GreedyCandidates, Candidate,
         AfterScheduledPrereqs, IsPlaced, Precedes
<1> QED BY <1>1, <1>2, <1>3, <1>4

\* The invariant holds in every behaviour.
THEOREM Invariance == Spec => []IInv
<1>1. IInv /\ [Next]_vars => IInv'
  <2> SUFFICES ASSUME IInv, [Next]_vars PROVE IInv'
    OBVIOUS
  <2>1. TypeOK'
    BY TypeStep DEF IInv
  <2>2. CASE SolverOptimal \/ SolverFeasible
    BY <2>1, <2>2, SolutionInv DEF SolverOptimal, SolverFeasible
  <2>3. CASE SolverGivesUp
    BY <2>1, <2>3, GivesUpInv
  <2>4. CASE GreedyPlace
    BY <2>1, <2>4, PlaceInv
  <2>5. CASE GreedySkip
    BY <2>1, <2>5, SkipInv
  <2>6. CASE NothingToSchedule \/ GreedyDone \/ Return \/ Raise
    BY <2>1, <2>6, MoveOnInv
  <2>7. CASE UNCHANGED vars
    BY <2>1, <2>7, StutterInv
  <2> QED BY <2>2, <2>3, <2>4, <2>5, <2>6, <2>7 DEF Next
<1> QED BY InitInv, <1>1, PTL DEF Spec

-----------------------------------------------------------------------------
(* What follows from the invariant *)

\* CP-SAT puts a dependent after its prerequisite, or on the same day.
LEMMA IndexOrderDays ==
    ASSUME TypeOK, NEW p \in Placements, Solves(p),
           NEW u \in input.units, NEW r \in input.prereqs[u] \cap input.units,
           p[u] # NoWindow, p[r] # NoWindow,
           ~(input.date[p[r]] < input.date[p[u]])
    PROVE  p[u] # p[r] /\ input.date[p[u]] = input.date[p[r]]
<1>1. DateIndex(p[u]) > DateIndex(p[r])
  BY DEF Solves, IndexOrdered
<1>2. u \in Units /\ r \in Units
  BY DEF TypeOK, InputType
<1>3. p[u] \in input.windows /\ p[r] \in input.windows
  BY <1>2, SolvesPlaced DEF Candidate
<1>4. input.date[p[u]] \in Nat /\ input.date[p[r]] \in Nat
  BY <1>3 DEF TypeOK, InputType
<1>5. p[u] # p[r]
  <2> SUFFICES ASSUME p[u] = p[r] PROVE FALSE
    OBVIOUS
  <2>1. u = r
    BY <1>2, SolvesPlaced
  <2>2. DateIndex(p[u]) \in Nat
    <3>1. IsFiniteSet({v \in input.windows : Before(v, p[u])})
      BY DataAssumption, FS_Subset DEF TypeOK, InputType
    <3> QED BY <3>1, FS_CardinalityType DEF DateIndex
  <2> QED BY <2>1, <2>2, <1>1
<1>6. CASE input.date[p[u]] < input.date[p[r]]
  <2>1. Before(p[u], p[r])
    BY <1>6 DEF Before
  <2>2. /\ DateIndex(p[u]) \in Nat
        /\ DateIndex(p[r]) \in Nat
        /\ DateIndex(p[u]) <= DateIndex(p[r])
    BY <2>1, <1>3, IndexMonotone DEF TypeOK
  <2> QED BY <2>2, <1>1
<1> QED BY <1>4, <1>5, <1>6

\* The invariant leaves only two ways for a placement to fail validation.
LEMMA FailureExplained ==
    ASSUME IInv, status # "none", ~Validated(placed)
    PROVE  \E u \in input.units : \E r \in input.prereqs[u] \cap input.units :
            /\ IsPlaced(u) /\ IsPlaced(r)
            /\ IF status = "greedy_fallback"
               THEN ~Precedes(r, u) /\ input.date[placed[u]] <= input.date[placed[r]]
               ELSE placed[u] # placed[r] /\ input.date[placed[u]] = input.date[placed[r]]
<1> USE DEF IInv
<1>1. /\ input.units \subseteq Units /\ input.date \in [Windows -> Nat]
      /\ input.windows \subseteq Windows /\ placed \in Placements
      /\ \A u \in input.units : IsPlaced(u) =>
            /\ placed[u] \in input.windows
            /\ input.available[placed[u]]
            /\ input.duration[u] <= input.minutes[placed[u]]
            /\ input.deadline[u] # NoDeadline => input.date[placed[u]] <= input.deadline[u]
      /\ \A u, v \in input.units : IsPlaced(u) /\ placed[u] = placed[v] => u = v
  BY DEF TypeOK, InputType, PlacedFacts, Candidate
<1>2. PICK u \in input.units : \E r \in input.prereqs[u] \cap input.units :
        /\ IsPlaced(u) /\ IsPlaced(r)
        /\ ~(input.date[placed[r]] < input.date[placed[u]])
  BY <1>1 DEF Validated, IsPlaced
<1>3. PICK r \in input.prereqs[u] \cap input.units :
        /\ IsPlaced(u) /\ IsPlaced(r)
        /\ ~(input.date[placed[r]] < input.date[placed[u]])
  BY <1>2
<1>4. placed[u] \in input.windows /\ placed[r] \in input.windows
  BY <1>1, <1>3
<1>5. CASE status = "greedy_fallback"
  <2>1. ~Precedes(r, u)
    BY <1>3, <1>5 DEF GreedyEntered, OrderFacts
  <2> QED BY <1>1, <1>3, <1>4, <1>5, <2>1
<1>6. CASE status # "greedy_fallback"
  <2>1. Solves(placed)
    BY <1>3, <1>6 DEF SolverFacts, TypeOK
  <2>2. placed[u] # placed[r] /\ input.date[placed[u]] = input.date[placed[r]]
    BY <1>1, <1>3, <2>1, IndexOrderDays DEF IsPlaced
  <2> QED BY <1>3, <1>6, <2>2
<1> QED BY <1>5, <1>6

\* The validation fails for one of two reasons only: a prerequisite taught on
\* the dependent's own day in a CP-SAT answer, or one the greedy order
\* reaches after its dependent.
THEOREM RaiseIsExplained == Spec => []RaiseExplained
<1>1. IInv => RaiseExplained
  <2> SUFFICES ASSUME IInv, pc = "raised" PROVE RaiseExplained
    BY DEF RaiseExplained
  <2>1. ~Validated(placed) /\ status # "none"
    BY DEF IInv, Phases
  <2> QED BY <2>1, FailureExplained DEF RaiseExplained
<1> QED BY Invariance, <1>1, PTL

-----------------------------------------------------------------------------
(* Implementation of the promise *)

\* A placement that passed the validation is legal in the caller's terms.
LEMMA ValidatedIsLegal ==
    ASSUME TypeOK, PlacedFacts, Validated(placed)
    PROVE  Promise!LegalPlan(input, placed)
<1>1. \A u \in Units \ input.units : ~Promise!Placed(placed, u)
  BY DEF PlacedFacts, IsPlaced, Promise!Placed
<1>2. ASSUME NEW u \in input.units, Promise!Placed(placed, u)
      PROVE  /\ Promise!Teachable(input, u, placed[u])
             /\ Promise!AfterPrereqs(input, placed, u, placed[u])
  BY <1>2 DEF Validated, Promise!Placed, Promise!Teachable, Promise!AfterPrereqs
<1>3. \A u, v \in input.units :
        Promise!Placed(placed, u) /\ placed[u] = placed[v] => u = v
  BY DEF Validated, Promise!Placed
<1> QED BY <1>1, <1>2, <1>3 DEF Promise!LegalPlan

\* Nobody is left out by either path while a usable window is empty.
LEMMA ResultIsComplete ==
    ASSUME IInv, pc = "validate"
    PROVE  Promise!NobodyLeftOut(input, placed)
<1> USE DEF IInv
<1> SUFFICES ASSUME NEW u \in input.units, ~IsPlaced(u),
                    NEW w \in input.windows,
                    Promise!Teachable(input, u, w),
                    Promise!AfterPrereqs(input, placed, u, w),
                    \A v \in input.units : placed[v] # w
             PROVE  FALSE
  BY DEF Promise!NobodyLeftOut, Promise!Placed, IsPlaced
<1>1. u \in Units /\ input.units # {} /\ status # "none" /\ w \in Windows
      /\ input.minutes[w] \in Nat /\ input.duration[u] \in Nat
  BY DEF TypeOK, InputType, Phases
<1>2. Candidate(u, w)
  BY <1>1 DEF Promise!Teachable, Candidate
<1>3. CASE status = "greedy_fallback"
  <2>1. LoopFacts /\ SkippedFacts /\ u \notin todo
    BY <1>3 DEF GreedyEntered, Phases
  <2>2. u \in unscheduled
    BY <2>1 DEF LoopFacts
  <2>3. \A v \in Units : placed[v] # w
    BY <1>1, DataAssumption DEF PlacedFacts, IsPlaced
  <2>4. w \in remaining
    BY <2>1, <2>3 DEF LoopFacts
  <2>5. AfterScheduledPrereqs(u, w)
    <3> SUFFICES ASSUME NEW r \in input.prereqs[u], IsPlaced(r)
                 PROVE  input.date[w] > input.date[placed[r]]
      BY DEF AfterScheduledPrereqs
    <3>1. r \in Units
      BY <1>1 DEF TypeOK, InputType
    <3>2. r \in input.units /\ placed[r] \in Windows
      BY <3>1 DEF PlacedFacts, Candidate, TypeOK, InputType
    <3>3. input.date[placed[r]] < input.date[w]
      BY <3>2 DEF Promise!AfterPrereqs, Promise!Placed, IsPlaced
    <3> QED BY <3>2, <3>3, <1>1 DEF TypeOK, InputType
  <2> QED BY <1>2, <2>1, <2>2, <2>4, <2>5 DEF SkippedFacts, GreedyCandidates
<1>4. CASE status # "greedy_fallback"
  <2>1. Solves(placed)
    BY <1>1, <1>4 DEF SolverFacts, TypeOK
  <2> QED BY <1>1, <1>2, <2>1 DEF Solves, HasCandidate, IsPlaced
<1> QED BY <1>3, <1>4

\* solve_schedule implements TermPlan: every step is a step of the promise
\* or invisible to the caller.
THEOREM SchedulerImplementsTermPlan == Spec => PromiseKept
<1>1. Init => Promise!Init
  BY DataAssumption, SchedulerAssumption DEF Init, Promise!Init, Outcome, HandedOut, InputType,
     Promise!InputType, NoPlacement, Promise!NoPlacement
<1>2. IInv /\ IInv' /\ [Next]_vars => [Promise!Next]_Promise!vars
  <2> SUFFICES ASSUME IInv, IInv', [Next]_vars
               PROVE  [Promise!Next]_Promise!vars
    OBVIOUS
  <2> USE DEF Promise!vars, Outcome, HandedOut
  <2>1. CASE NothingToSchedule
    <3>1. pc = "solve" /\ input.units = {} /\ placed = NoPlacement /\ pc' = "returned"
          /\ UNCHANGED <<input, placed>>
      BY <2>1 DEF NothingToSchedule, IInv, Phases
    <3>2. Promise!LegalPlan(input, placed) /\ Promise!NobodyLeftOut(input, placed)
      BY <3>1 DEF Promise!LegalPlan, Promise!NobodyLeftOut, Promise!Placed, NoPlacement
    <3>3. placed \in Placements
      BY DEF IInv, TypeOK
    <3>4. Promise!Publish
      BY <3>1, <3>2, <3>3 DEF Promise!Publish, Placements, Promise!Placements
    <3> QED BY <3>4 DEF Promise!Next
  <2>2. CASE SolverOptimal \/ SolverFeasible \/ SolverGivesUp
             \/ GreedyPlace \/ GreedySkip \/ GreedyDone
    BY <2>2 DEF SolverOptimal, SolverFeasible, TakeSolution, SolverGivesUp,
                GreedyPlace, GreedySkip, GreedyDone, AtUnit
  <2>3. CASE Return
    <3>1. pc = "validate" /\ pc' = "returned" /\ UNCHANGED <<input, placed>>
      BY <2>3 DEF Return
    <3>2. Promise!LegalPlan(input, placed)
      BY <2>3, ValidatedIsLegal DEF Return, IInv
    <3>3. Promise!NobodyLeftOut(input, placed)
      BY <3>1, ResultIsComplete
    <3>4. placed \in Placements
      BY DEF IInv, TypeOK
    <3>5. Promise!Publish
      BY <3>1, <3>2, <3>3, <3>4 DEF Promise!Publish, Placements, Promise!Placements
    <3> QED BY <3>5 DEF Promise!Next
  <2>4. CASE Raise
    <3>1. pc = "validate" /\ pc' = "raised" /\ UNCHANGED <<input, placed>>
      BY <2>4 DEF Raise
    <3>2. status # "none" /\ ~Validated(placed)
      BY <2>4 DEF Raise, IInv, Phases
    <3>3. Promise!Dependent(input)
      BY <3>2, FailureExplained DEF Promise!Dependent
    <3>4. Promise!Refuse
      BY <3>1, <3>3 DEF Promise!Refuse
    <3> QED BY <3>4 DEF Promise!Next
  <2>5. CASE UNCHANGED vars
    BY <2>5 DEF vars
  <2> QED BY <2>1, <2>2, <2>3, <2>4, <2>5 DEF Next
<1> QED BY <1>1, <1>2, Invariance, PTL DEF Spec, PromiseKept, Promise!Spec

-----------------------------------------------------------------------------
(* Stability of the greedy fallback *)

\* Replayed on a plan that is still legal, the loop gives every unit it has
\* reached the window it had.
KeepsPrevious ==
    PreviousStillLegal /\ GreedyEntered =>
        \A u \in input.units \ todo : placed[u] = input.previous[u]

\* Each turn of the loop keeps its unit where it was: nobody else was given
\* its window, since everyone before it kept their own, and its prerequisites
\* stand where the previous plan had them.
LEMMA PlaceKeepsPrevious ==
    ASSUME IInv, KeepsPrevious, PreviousStillLegal, pc = "greedy",
           NEW u \in Units, AtUnit(u), input.previous[u] # NoWindow
    PROVE  input.previous[u] \in GreedyCandidates(u)
<1> USE DEF IInv
<1> DEFINE old == input.previous
           kept == [v \in Units |-> IF v \in input.units THEN old[v] ELSE NoWindow]
<1>1. /\ u \in input.units /\ u \in todo /\ LoopFacts
      /\ Promise!LegalPlan(input, kept)
      /\ \A v \in input.units \ todo : placed[v] = old[v]
  BY DEF AtUnit, TypeOK, GreedyEntered, PreviousStillLegal, KeepsPrevious
<1>2. /\ kept[u] = old[u]
      /\ \A v \in Units : v \in input.units => kept[v] = old[v]
  BY <1>1
<1>3. /\ Promise!Teachable(input, u, old[u])
      /\ Promise!AfterPrereqs(input, kept, u, old[u])
      /\ \A v \in input.units : old[v] = old[u] => v = u
  BY <1>1, <1>2 DEF Promise!LegalPlan, Promise!Placed, TypeOK, InputType
<1>4. Candidate(u, old[u])
  BY <1>1, <1>3 DEF Promise!Teachable, Candidate, TypeOK, InputType
<1>5. old[u] \in remaining
  <2>1. \A v \in Units : placed[v] # old[u]
    <3> SUFFICES ASSUME NEW v \in Units, placed[v] = old[u] PROVE FALSE
      OBVIOUS
    <3>1. v \in input.units /\ v \notin todo
      BY <1>1 DEF PlacedFacts, LoopFacts, IsPlaced
    <3> QED BY <3>1, <1>1, <1>3
  <2> QED BY <2>1, <1>1, <1>4 DEF LoopFacts, Candidate
<1>6. AfterScheduledPrereqs(u, old[u])
  <2> SUFFICES ASSUME NEW r \in input.prereqs[u], IsPlaced(r)
               PROVE  input.date[old[u]] > input.date[placed[r]]
    BY DEF AfterScheduledPrereqs
  <2>1. r \in Units /\ r \in input.units /\ placed[r] \in Windows
    BY <1>1 DEF PlacedFacts, TypeOK, InputType, Candidate, IsPlaced
  <2>2. placed[r] = kept[r] /\ kept[r] # NoWindow
    BY <2>1, <1>1, <1>2 DEF LoopFacts, IsPlaced
  <2>3. input.date[kept[r]] < input.date[old[u]]
    BY <2>1, <2>2, <1>3 DEF Promise!AfterPrereqs, Promise!Placed
  <2> QED BY <2>1, <2>2, <2>3, <1>4 DEF Candidate, TypeOK, InputType
<1> QED BY <1>4, <1>5, <1>6 DEF GreedyCandidates

\* Every step of the call preserves it.
LEMMA KeepsPreviousStep ==
    ASSUME IInv, KeepsPrevious, [Next]_vars
    PROVE  KeepsPrevious'
<1> USE DEF IInv
<1>1. input' = input
  BY DEF Next, vars, NothingToSchedule, SolverOptimal, SolverFeasible, TakeSolution,
         SolverGivesUp, GreedyPlace, GreedySkip, GreedyDone, Return, Raise
<1>2. PreviousStillLegal' => PreviousStillLegal
  BY <1>1 DEF PreviousStillLegal, HasCandidate, Candidate, Promise!LegalPlan,
      Promise!Placed, Promise!Teachable, Promise!AfterPrereqs
<1> SUFFICES ASSUME PreviousStillLegal, GreedyEntered',
                    NEW v \in input.units, v \notin todo'
             PROVE  placed'[v] = input.previous[v]
  BY <1>1, <1>2 DEF KeepsPrevious
<1>3. v \in Units
  BY DEF TypeOK, InputType
<1>4. CASE NothingToSchedule \/ SolverOptimal \/ SolverFeasible \/ SolverGivesUp
  BY <1>4 DEF NothingToSchedule, SolverOptimal, SolverFeasible, TakeSolution,
              SolverGivesUp, GreedyEntered
<1>5. CASE GreedyPlace
  <2>1. PICK u \in Units, w \in Windows :
          /\ AtUnit(u)
          /\ Chosen(u, w)
          /\ placed' = [placed EXCEPT ![u] = w]
          /\ todo' = todo \ {u}
    BY <1>5 DEF GreedyPlace
  <2>2. HasCandidate(u) /\ u \in input.units /\ pc = "greedy"
    BY <2>1 DEF Chosen, GreedyCandidates, HasCandidate, Candidate, AtUnit, TypeOK
  <2>3. input.previous[u] # NoWindow
    BY <2>2 DEF PreviousStillLegal
  <2>4. w = input.previous[u]
    BY <2>1, <2>2, <2>3, PlaceKeepsPrevious DEF Chosen
  <2>5. CASE v = u
    BY <2>1, <2>4, <2>5 DEF TypeOK, Placements
  <2>6. CASE v # u
    BY <1>3, <2>1, <2>2, <2>6 DEF TypeOK, Placements, KeepsPrevious, GreedyEntered
  <2> QED BY <2>5, <2>6
<1>6. CASE GreedySkip
  <2>1. PICK u \in Units :
          /\ AtUnit(u)
          /\ GreedyCandidates(u) = {}
          /\ todo' = todo \ {u}
          /\ placed' = placed
    BY <1>6 DEF GreedySkip
  <2>2. pc = "greedy" /\ u \in todo /\ u \in input.units
    BY <2>1 DEF AtUnit, TypeOK
  <2>3. input.previous[u] = NoWindow
    BY <2>1, <2>2, PlaceKeepsPrevious
  <2>4. placed[u] = NoWindow
    BY <2>2 DEF GreedyEntered, LoopFacts, IsPlaced
  <2> QED BY <2>1, <2>2, <2>3, <2>4 DEF KeepsPrevious, GreedyEntered
<1>7. CASE GreedyDone \/ Return \/ Raise \/ UNCHANGED vars
  BY <1>7 DEF GreedyDone, Return, Raise, vars, KeepsPrevious, GreedyEntered
<1> QED BY <1>4, <1>5, <1>6, <1>7 DEF Next

\* Replanning with the greedy fallback leaves a plan that is still legal
\* exactly as it was, and never raises on it.
THEOREM GreedyReplanIsIdentity ==
    Spec => [](status = "greedy_fallback" => ReplanIsIdentity)
<1>1. Init => KeepsPrevious
  BY DEF Init, KeepsPrevious, GreedyEntered
<1>2. IInv /\ KeepsPrevious => (status = "greedy_fallback" => ReplanIsIdentity)
  <2> SUFFICES ASSUME IInv, KeepsPrevious, status = "greedy_fallback",
                      pc \in {"returned", "raised"}, PreviousStillLegal
               PROVE  /\ pc = "returned"
                      /\ \A u \in input.units : placed[u] = input.previous[u]
    BY DEF ReplanIsIdentity
  <2> USE DEF IInv
  <2> DEFINE kept == [u \in Units |->
                IF u \in input.units THEN input.previous[u] ELSE NoWindow]
  <2>1. \A u \in input.units : placed[u] = input.previous[u]
    BY DEF KeepsPrevious, GreedyEntered, Phases
  <2>2. kept = placed
    BY <2>1 DEF PlacedFacts, IsPlaced, TypeOK, Placements
  <2>3. Promise!LegalPlan(input, placed)
    BY <2>2 DEF PreviousStillLegal
  <2>4. Validated(placed)
    BY <2>3 DEF Promise!LegalPlan, Promise!Placed, Promise!Teachable,
                Promise!AfterPrereqs, Validated
  <2> QED BY <2>1, <2>4 DEF Phases
<1>3. IInv /\ KeepsPrevious /\ [Next]_vars => KeepsPrevious'
  BY KeepsPreviousStep
<1> QED BY Invariance, <1>1, <1>2, <1>3, PTL DEF Spec

-----------------------------------------------------------------------------
(* Churn first *)

\* One churn term weighs more than all indexes of a plan together.
PenaltyDominates ==
    Cardinality(input.units) * Cardinality(input.windows) < ChurnPenalty

\* The rows of a request are finitely many.
LEMMA RequestFinite ==
    ASSUME input \in InputType
    PROVE  /\ IsFiniteSet(input.units) /\ Cardinality(input.units) \in Nat
           /\ IsFiniteSet(input.windows) /\ Cardinality(input.windows) \in Nat
<1>1. input.units \subseteq Units /\ input.windows \subseteq Windows
  BY DEF InputType
<1>2. IsFiniteSet(input.units) /\ IsFiniteSet(input.windows)
  BY <1>1, DataAssumption, FS_Subset
<1> QED BY <1>2, FS_CardinalityType

\* Fewer rows sum to less, whatever each may count.
LEMMA TimesFewer ==
    ASSUME NEW a \in Nat, NEW b \in Nat, NEW c \in Nat, a <= b
    PROVE  a * c <= b * c
<1>1. b * c = a * c + (b - a) * c
  OBVIOUS
<1>2. b - a \in Nat
  OBVIOUS
<1>3. (b - a) * c \in Nat /\ a * c \in Nat
  BY <1>2
<1> QED BY <1>1, <1>3

\* A total index is a natural number, at most all windows for each unit.
LEMMA TotalBound ==
    ASSUME input \in InputType, NEW p
    PROVE  /\ TotalIndex(p) \in Nat
           /\ TotalIndex(p) <= Cardinality(input.units) * Cardinality(input.windows)
<1> DEFINE S == input.units
           c == Cardinality(input.windows)
           index == UnitIndex(p)
           own == [u \in S |-> index[u]]
<1>1. IsFiniteSet(S) /\ IsFiniteSet(input.windows) /\ c \in Nat
  BY RequestFinite
<1>2. \A w : DateIndex(w) \in Nat /\ DateIndex(w) <= c
  BY <1>1, FS_Subset, FS_CardinalityType DEF DateIndex
<1>3. index \in [S -> Nat] /\ \A u \in S : index[u] <= c
  <2> HIDE DEF c
  <2> QED BY <1>1, <1>2 DEF UnitIndex
<1>4. TotalIndex(p) = SumFunctionOnSet(index, S)
  BY DEF TotalIndex, SumFunction, UnitIndex
<1> HIDE DEF S, c, index
<1>5. own \in [S -> Nat] /\ \A u \in S : own[u] <= c
  BY <1>3
<1>6. PICK total : Sums(S, own, total) /\ SumFunctionOnSet(index, S) = total[S]
  BY <1>1, <1>3, SumOnSet
<1> HIDE DEF own
<1>7. total[S] \in Nat /\ total[S] <= Cardinality(S) * c
  BY <1>1, <1>5, <1>6, SumsBound
<1> QED BY <1>4, <1>6, <1>7 DEF S, c

\* The units that could stay where they were, and those that do.
Movable == {u \in input.units : Candidate(u, input.previous[u])}

KeptBy(p) == {u \in input.units : p[u] # NoWindow /\ p[u] = input.previous[u]}

\* What a solution does not keep of the movable units is its churn.
LEMMA ChurnIs ==
    ASSUME input \in InputType, NEW p \in Placements, Solves(p)
    PROVE  /\ Churn(p) = Cardinality(Movable) - Cardinality(KeptBy(p))
           /\ Churn(p) \in Nat /\ Cardinality(Movable) \in Nat
           /\ Cardinality(KeptBy(p)) \in Nat
<1>1. KeptBy(p) = {u \in Movable : p[u] = input.previous[u]}
  BY DEF Solves, KeptBy, Movable, HasCandidate, Candidate, InputType
<1>2. Movable \subseteq input.units /\ KeptBy(p) \subseteq input.units
  BY DEF Movable, KeptBy
<1>3. /\ IsFiniteSet(Movable) /\ IsFiniteSet(KeptBy(p))
      /\ Cardinality(Movable) \in Nat /\ Cardinality(KeptBy(p)) \in Nat
  BY <1>2, RequestFinite, FS_Subset, FS_CardinalityType
<1>4. Churn(p) = Cardinality(Movable \ KeptBy(p))
  <2>1. Movable \ KeptBy(p) =
          {u \in input.units : Candidate(u, input.previous[u]) /\ p[u] # input.previous[u]}
    BY <1>1 DEF Movable
  <2> QED BY <2>1 DEF Churn
<1>5. Movable \cap KeptBy(p) = KeptBy(p)
  BY <1>1
<1>6. /\ Cardinality(Movable \ KeptBy(p)) = Cardinality(Movable) - Cardinality(KeptBy(p))
      /\ IsFiniteSet(Movable \ KeptBy(p))
  BY <1>3, <1>5, FS_Difference
<1> QED BY <1>3, <1>4, <1>6, FS_CardinalityType

\* Arithmetic of a sum in which one term is weighted above all of the other.
LEMMA WeightedOrder ==
    ASSUME NEW w \in Nat, NEW a \in Nat, NEW b \in Nat, NEW s \in Nat, NEW t \in Nat,
           t < w, w * a + s <= w * b + t
    PROVE  a <= b /\ (a = b => s <= t)
<1>1. a <= b
  <2> SUFFICES ASSUME b < a PROVE FALSE
    OBVIOUS
  <2> DEFINE k == a - b - 1
  <2>1. k \in Nat /\ a = b + 1 + k
    OBVIOUS
  <2> HIDE DEF k
  <2>2. w * a = w * b + w + w * k
    BY <2>1
  <2>3. w * k \in Nat /\ w * b \in Nat
    BY <2>1
  <2> QED BY <2>2, <2>3
<1>2. ASSUME a = b PROVE s <= t
  <2>1. w * a \in Nat /\ w * a = w * b
    BY <1>2
  <2> QED BY <2>1
<1> QED BY <1>1, <1>2

\* Of two solutions the one with the smaller objective has no more churn, and
\* with the same churn no larger total index.
LEMMA ObjectiveOrders ==
    ASSUME input \in InputType, PenaltyDominates,
           NEW p \in Placements, Solves(p), NEW q \in Placements, Solves(q),
           Objective(p) <= Objective(q)
    PROVE  /\ Churn(p) <= Churn(q)
           /\ Churn(p) = Churn(q) => TotalIndex(p) <= TotalIndex(q)
<1>1. Churn(p) \in Nat /\ Churn(q) \in Nat /\ ChurnPenalty \in Nat
  BY ChurnIs, SchedulerAssumption
<1>2. TotalIndex(p) \in Nat /\ TotalIndex(q) \in Nat /\ TotalIndex(q) < ChurnPenalty
  <2>1. Cardinality(input.units) * Cardinality(input.windows) \in Nat
    BY RequestFinite
  <2> QED BY <1>1, <2>1, TotalBound DEF PenaltyDominates
<1>3. ChurnPenalty * Churn(p) + TotalIndex(p) <= ChurnPenalty * Churn(q) + TotalIndex(q)
  BY DEF Objective
<1> QED BY <1>1, <1>2, <1>3, WeightedOrder

\* An optimal answer is reported with what it keeps.
OptimumFacts ==
    status = "optimal" /\ input.units # {} => Optimal(placed) /\ diff = DiffPrevious(placed)

\* Solutions and their objectives depend on the request alone.
LEMMA SameRequest ==
    ASSUME input' = input
    PROVE  /\ \A q : Objective(q)' = Objective(q)
           /\ \A q : Solves(q)' <=> Solves(q)
<1>1. \A q : UnitIndex(q)' = UnitIndex(q)
  BY DEF UnitIndex, DateIndex, Before
<1>2. \A q : Objective(q)' = Objective(q)
  BY <1>1 DEF Objective, TotalIndex, Churn, Candidate
<1>3. \A q : Solves(q)' <=> Solves(q)
  BY DEF Solves, HasCandidate, Candidate, IndexOrdered, DateIndex, Before
<1> QED BY <1>2, <1>3

\* Every step of the call preserves what is known of an optimum.
LEMMA OptimumStep ==
    ASSUME IInv, OptimumFacts, [Next]_vars
    PROVE  OptimumFacts'
<1> USE DEF IInv
<1>1. input' = input
  BY DEF Next, vars, NothingToSchedule, SolverOptimal, SolverFeasible, TakeSolution,
         SolverGivesUp, GreedyPlace, GreedySkip, GreedyDone, Return, Raise
<1>2. ASSUME status' = "optimal", input.units # {},
             NEW p \in Placements, placed' = p, Optimal(p), diff' = DiffPrevious(p)
      PROVE  OptimumFacts'
  <2>1. Optimal(placed)'
    <3>1. \A q \in Placements : Solves(q)' => Objective(p)' <= Objective(q)'
      BY <1>1, <1>2, SameRequest DEF Optimal
    <3>2. Objective(placed)' = Objective(p)'
      BY <1>2 DEF Objective, Churn, TotalIndex, UnitIndex
    <3> QED BY <3>1, <3>2 DEF Optimal
  <2>2. DiffPrevious(placed)' = DiffPrevious(p)
    BY <1>1, <1>2 DEF DiffPrevious
  <2> QED BY <1>2, <2>1, <2>2 DEF OptimumFacts
<1>3. CASE SolverOptimal
  <2>1. PICK p \in Placements : TakeSolution(p, "optimal") /\ Optimal(p)
    BY <1>3 DEF SolverOptimal
  <2> QED BY <1>2, <2>1 DEF TakeSolution
<1>4. CASE Return \/ Raise \/ UNCHANGED vars
  <2>1. UNCHANGED <<input, placed, status, diff>>
    BY <1>4 DEF Return, Raise, vars
  <2>2. placed \in Placements
    BY DEF TypeOK
  <2>3. CASE status = "optimal" /\ input.units # {}
    BY <1>2, <2>1, <2>2, <2>3 DEF OptimumFacts
  <2> QED BY <2>1, <2>3 DEF OptimumFacts
<1>5. CASE NothingToSchedule
  BY <1>5 DEF NothingToSchedule, OptimumFacts
<1>6. CASE SolverFeasible \/ SolverGivesUp \/ GreedyPlace \/ GreedySkip \/ GreedyDone
  <2>1. status' # "optimal"
    BY <1>6 DEF SolverFeasible, TakeSolution, SolverGivesUp, GreedyPlace, GreedySkip,
                GreedyDone, AtUnit, Phases
  <2> QED BY <2>1 DEF OptimumFacts
<1> QED BY <1>3, <1>4, <1>5, <1>6 DEF Next

\* It holds in every behaviour.
LEMMA OptimaAreReported == Spec => []OptimumFacts
<1>1. Init => OptimumFacts
  BY DEF Init, OptimumFacts
<1>2. IInv /\ OptimumFacts /\ [Next]_vars => OptimumFacts'
  BY OptimumStep
<1> QED BY Invariance, <1>1, <1>2, PTL DEF Spec

\* What the state after an optimal answer says about the two.
LEMMA OptimumOrders ==
    ASSUME IInv, OptimumFacts, PenaltyDominates, status = "optimal", input.units # {},
           NEW q \in Placements, Solves(q)
    PROVE  /\ input \in InputType /\ placed \in Placements /\ Solves(placed)
           /\ Churn(placed) <= Churn(q)
           /\ Churn(placed) = Churn(q) => TotalIndex(placed) <= TotalIndex(q)
<1>1. input \in InputType /\ placed \in Placements /\ Solves(placed)
  BY DEF IInv, TypeOK, SolverFacts
<1>2. Objective(placed) <= Objective(q)
  BY DEF OptimumFacts, Optimal
<1> QED BY <1>1, <1>2, ObjectiveOrders

\* Where one churn term outweighs all indexes, an optimal answer keeps as many
\* units in place as any solution, and among those that keep as many it is
\* earliest in total.
THEOREM ChurnComesFirst == Spec => [](PenaltyDominates => ChurnFirst)
<1>1. IInv /\ OptimumFacts => (PenaltyDominates => ChurnFirst)
  <2> SUFFICES ASSUME IInv, OptimumFacts, PenaltyDominates,
                      status = "optimal", input.previous # NoPlacement, input.units # {},
                      NEW q \in Placements, Solves(q)
               PROVE  /\ Cardinality(KeptBy(q)) <= diff.unchanged
                      /\ Cardinality(KeptBy(q)) = diff.unchanged =>
                            TotalIndex(placed) <= TotalIndex(q)
    BY DEF ChurnFirst, KeptBy
  <2>1. /\ input \in InputType /\ placed \in Placements /\ Solves(placed)
        /\ Churn(placed) <= Churn(q)
        /\ Churn(placed) = Churn(q) => TotalIndex(placed) <= TotalIndex(q)
    BY OptimumOrders
  <2>2. diff.unchanged = Cardinality(KeptBy(placed))
    <3>1. KeptBy(placed) = {u \in {v \in input.units : placed[v] # NoWindow} :
                               placed[u] = input.previous[u]}
      BY DEF KeptBy
    <3>2. diff = DiffPrevious(placed)
      BY DEF OptimumFacts
    <3> QED BY <3>1, <3>2 DEF DiffPrevious
  <2>3. /\ Churn(placed) = Cardinality(Movable) - Cardinality(KeptBy(placed))
        /\ Cardinality(Movable) \in Nat /\ Cardinality(KeptBy(placed)) \in Nat
    BY <2>1, ChurnIs
  <2>4. /\ Churn(q) = Cardinality(Movable) - Cardinality(KeptBy(q))
        /\ Cardinality(KeptBy(q)) \in Nat
    BY <2>1, ChurnIs
  <2> QED BY <2>1, <2>2, <2>3, <2>4
<1> QED BY Invariance, OptimaAreReported, <1>1, PTL

\* A window on an earlier day has a smaller index.
LEMMA EarlierIndex ==
    ASSUME input \in InputType, NEW v \in input.windows, NEW w \in input.windows,
           input.date[v] < input.date[w]
    PROVE  DateIndex(w) > DateIndex(v)
<1> DEFINE V == {x \in input.windows : Before(x, v)}
           W == {x \in input.windows : Before(x, w)}
<1>1. input.windows \subseteq Nat /\ input.date \in [Windows -> Nat]
      /\ input.windows \subseteq Windows
  BY DataAssumption DEF InputType
<1>2. V \subseteq W /\ v \in W /\ v \notin V
  BY <1>1 DEF Before
<1>3. IsFiniteSet(W) /\ IsFiniteSet(V)
  BY RequestFinite, FS_Subset
<1>4. Cardinality(V) \in Nat /\ Cardinality(W) \in Nat
  BY <1>3, FS_CardinalityType
<1>5. Cardinality(V) <= Cardinality(W) /\ Cardinality(W) # Cardinality(V)
  BY <1>2, <1>3, FS_Subset
<1> QED BY <1>4, <1>5 DEF DateIndex

\* The previous plan, over the units of the request.
Kept == [u \in Units |-> IF u \in input.units THEN input.previous[u] ELSE NoWindow]

\* Where it is still legal it solves the model, without churn.
LEMMA PreviousSolves ==
    ASSUME input \in InputType, PreviousStillLegal
    PROVE  /\ Kept \in Placements /\ Solves(Kept) /\ Churn(Kept) = 0
           /\ \A u \in Units : u \in input.units => Kept[u] = input.previous[u]
<1>1. input.units \subseteq Units /\ input.windows \subseteq Windows
  BY DEF InputType
<1>2. Kept \in Placements /\ \A u \in Units : u \in input.units => Kept[u] = input.previous[u]
  BY DEF Kept, Placements, InputType
<1>3. Promise!LegalPlan(input, Kept)
  BY DEF PreviousStillLegal, Kept
<1>4. ASSUME NEW u \in input.units, Kept[u] # NoWindow
      PROVE  Candidate(u, Kept[u]) /\ Promise!AfterPrereqs(input, Kept, u, Kept[u])
  <2>1. Promise!Teachable(input, u, Kept[u]) /\ Promise!AfterPrereqs(input, Kept, u, Kept[u])
    BY <1>3, <1>4 DEF Promise!LegalPlan, Promise!Placed
  <2> QED BY <1>1, <2>1 DEF Promise!Teachable, Candidate, InputType
<1>5. \A u \in input.units : Kept[u] = NoWindow => ~HasCandidate(u)
  BY <1>1, <1>2 DEF PreviousStillLegal
<1>6. \A u \in Units : IF u \in input.units /\ HasCandidate(u)
                       THEN Kept[u] # NoWindow /\ Candidate(u, Kept[u])
                       ELSE Kept[u] = NoWindow
  <2>1. \A u \in Units : u \notin input.units => Kept[u] = NoWindow
    BY DEF Kept
  <2>2. \A u \in input.units : Kept[u] # NoWindow => Candidate(u, Kept[u]) /\ HasCandidate(u)
    BY <1>4 DEF HasCandidate, Candidate
  <2> QED BY <1>5, <2>1, <2>2
<1>7. \A u, v \in input.units : Kept[u] = Kept[v] /\ Kept[u] # NoWindow => u = v
  BY <1>3 DEF Promise!LegalPlan, Promise!Placed
<1>8. ASSUME NEW u \in input.units, NEW r \in input.prereqs[u] \cap input.units
      PROVE  IndexOrdered(Kept, u, r)
  <2> SUFFICES ASSUME Kept[u] # NoWindow, Kept[r] # NoWindow
               PROVE  DateIndex(Kept[u]) > DateIndex(Kept[r])
    BY DEF IndexOrdered
  <2>1. Kept[u] \in input.windows /\ Kept[r] \in input.windows
    BY <1>4 DEF Candidate
  <2>2. input.date[Kept[r]] < input.date[Kept[u]]
    BY <1>4 DEF Promise!AfterPrereqs, Promise!Placed
  <2> QED BY <2>1, <2>2, EarlierIndex
<1>9. Solves(Kept)
  BY <1>6, <1>7, <1>8 DEF Solves
<1>10. Churn(Kept) = 0
  <2>1. {u \in input.units : Candidate(u, input.previous[u]) /\ Kept[u] # input.previous[u]} = {}
    BY <1>1, <1>2
  <2> QED BY <2>1, FS_EmptySet DEF Churn
<1> QED BY <1>2, <1>9, <1>10

\* A solution without churn is the previous plan, where that is still legal.
LEMMA NoChurnNoMove ==
    ASSUME input \in InputType, PreviousStillLegal, NEW p \in Placements, Solves(p), Churn(p) = 0
    PROVE  p = Kept
<1>1. Solves(Kept) /\ \A u \in Units : u \in input.units => Kept[u] = input.previous[u]
  BY PreviousSolves
<1> DEFINE M == {u \in input.units : Candidate(u, input.previous[u]) /\ p[u] # input.previous[u]}
<1>2. M = {}
  <2>1. IsFiniteSet(M)
    BY RequestFinite, FS_Subset
  <2>2. Cardinality(M) = 0
    BY DEF Churn
  <2> HIDE DEF M
  <2> QED BY <2>1, <2>2, FS_EmptySet
<1>3. \A u \in Units : p[u] = Kept[u]
  <2> SUFFICES ASSUME NEW u \in Units
               PROVE  p[u] = Kept[u]
    OBVIOUS
  <2>1. CASE u \in input.units /\ HasCandidate(u)
    <3>1. Candidate(u, Kept[u]) /\ Kept[u] = input.previous[u]
      BY <1>1, <2>1 DEF Solves
    <3> QED BY <1>2, <2>1, <3>1
  <2>2. CASE ~(u \in input.units /\ HasCandidate(u))
    BY <1>1, <2>2 DEF Solves
  <2> QED BY <2>1, <2>2
<1> QED BY <1>3 DEF Placements, Kept

\* Replanning leaves a plan that is still legal exactly as it was, and never
\* raises on it: the fallback always, the optimum where churn outweighs.
THEOREM ReplanningIsIdentity == Spec => [](PenaltyDominates => ReplanIsIdentity)
<1>1. IInv /\ OptimumFacts /\ (status = "greedy_fallback" => ReplanIsIdentity)
        => (PenaltyDominates => ReplanIsIdentity)
  <2> SUFFICES ASSUME IInv, OptimumFacts, PenaltyDominates, status = "optimal",
                      pc \in {"returned", "raised"}, PreviousStillLegal
               PROVE  /\ pc = "returned"
                      /\ \A u \in input.units : placed[u] = input.previous[u]
    BY DEF ReplanIsIdentity, IInv, TypeOK, Phases
  <2>1. input \in InputType /\ placed \in Placements
    BY DEF IInv, TypeOK
  <2>2. CASE input.units = {}
    <3>1. placed = NoPlacement
      BY <2>2 DEF IInv, Phases
    <3>2. Validated(placed)
      BY <2>2 DEF Validated
    <3> QED BY <2>2, <3>2 DEF IInv, Phases
  <2>3. CASE input.units # {}
    <3>1. /\ Kept \in Placements /\ Solves(Kept) /\ Churn(Kept) = 0
          /\ \A u \in Units : u \in input.units => Kept[u] = input.previous[u]
      BY <2>1, PreviousSolves
    <3>2. Solves(placed) /\ Churn(placed) <= 0
      BY <2>3, <3>1, OptimumOrders
    <3>3. Churn(placed) \in Nat
      BY <2>1, <3>2, ChurnIs
    <3>4. placed = Kept
      BY <2>1, <3>2, <3>3, NoChurnNoMove
    <3>5. Promise!LegalPlan(input, placed)
      BY <3>4 DEF PreviousStillLegal, Kept
    <3>6. Validated(placed)
      BY <3>5 DEF Promise!LegalPlan, Promise!Placed, Promise!Teachable,
                  Promise!AfterPrereqs, Validated
    <3>7. input.units \subseteq Units
      BY <2>1 DEF InputType
    <3> QED BY <3>1, <3>4, <3>6, <3>7 DEF IInv, Phases
  <2> QED BY <2>2, <2>3
<1> QED BY Invariance, OptimaAreReported, GreedyReplanIsIdentity, <1>1, PTL

-----------------------------------------------------------------------------
(* The length of a call *)

\* The steps a call can still take.
StepsLeft ==
    CASE pc = "solve"    -> Cardinality(input.units) + 3
      [] pc = "greedy"   -> Cardinality(todo) + 2
      [] pc = "validate" -> 1
      [] OTHER           -> 0

UsesUpStep == StepsLeft \in 1..(Cardinality(input.units) + 3) /\ StepsLeft' < StepsLeft

\* Each step of solve_schedule uses up one of them, so that a call takes at most
\* one step for each unit and three more, however the solver answers: the
\* loop of the fallback reaches every unit once.
THEOREM CallIsBounded ==
    Spec => [][UsesUpStep]_vars
<1>1. TypeOK /\ [Next]_vars => [UsesUpStep]_vars
  <2> SUFFICES ASSUME TypeOK, Next
               PROVE  StepsLeft \in 1..(Cardinality(input.units) + 3) /\ StepsLeft' < StepsLeft
    BY DEF UsesUpStep
  <2> DEFINE n == Cardinality(input.units)
             k == Cardinality(todo)
  <2>1. IsFiniteSet(input.units) /\ n \in Nat
    BY RequestFinite DEF TypeOK
  <2>2. IsFiniteSet(todo) /\ k \in Nat /\ k <= n
    BY <2>1, FS_Subset, FS_CardinalityType DEF TypeOK
  <2>3. ASSUME NEW u \in todo
        PROVE  k > 0 /\ Cardinality(todo \ {u}) = k - 1
    <3>1. Cardinality(todo \ {u}) = k - 1 /\ IsFiniteSet(todo \ {u})
      BY <2>2, FS_RemoveElement
    <3>2. Cardinality(todo \ {u}) \in Nat
      BY <3>1, FS_CardinalityType
    <3> QED BY <2>2, <3>1, <3>2
  <2>4. CASE NothingToSchedule \/ SolverOptimal \/ SolverFeasible
    <3>1. pc = "solve" /\ pc' \in {"returned", "validate"}
      BY <2>4 DEF NothingToSchedule, SolverOptimal, SolverFeasible, TakeSolution
    <3> QED BY <2>1, <3>1 DEF StepsLeft
  <2>5. CASE SolverGivesUp
    <3>1. pc = "solve" /\ pc' = "greedy" /\ todo' = input.units
      BY <2>5 DEF SolverGivesUp
    <3>2. StepsLeft = n + 3 /\ StepsLeft' = n + 2
      BY <3>1 DEF StepsLeft
    <3> QED BY <2>1, <3>2
  <2>6. CASE GreedyPlace \/ GreedySkip
    <3>1. PICK u \in todo : pc = "greedy" /\ pc' = "greedy" /\ todo' = todo \ {u}
      BY <2>6 DEF GreedyPlace, GreedySkip, AtUnit
    <3>2. StepsLeft = k + 2 /\ StepsLeft' = (k - 1) + 2 /\ k > 0
      BY <2>3, <3>1 DEF StepsLeft
    <3> QED BY <2>1, <2>2, <3>2
  <2>7. CASE GreedyDone
    <3>1. StepsLeft = k + 2 /\ StepsLeft' = 1
      BY <2>7 DEF GreedyDone, StepsLeft
    <3> QED BY <2>1, <2>2, <3>1
  <2>8. CASE Return \/ Raise
    BY <2>1, <2>8 DEF Return, Raise, StepsLeft
  <2> QED BY <2>4, <2>5, <2>6, <2>7, <2>8 DEF Next
<1> QED BY TypeCorrect, <1>1, PTL DEF Spec

=============================================================================
