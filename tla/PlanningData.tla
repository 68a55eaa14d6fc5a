---------------------------- MODULE PlanningData ----------------------------
(***************************************************************************)
(* The plain data one scheduling request works on: the UnitInput and       *)
(* WindowInput rows, the previous assignment, and a placement of units     *)
(* into windows.  A unit or a window is named by the integer value of its  *)
(* UUID, which is what the code breaks ties with.                          *)
(***************************************************************************)
EXTENDS Integers, FiniteSets

CONSTANTS
    Units,       \* UUIDs (as integers) of the teaching units
    Windows,     \* UUIDs (as integers) of the instruction windows
    NoWindow,    \* "this unit is in no window"
    NoDeadline   \* UnitInput.deadline is None

(***************************************************************************)
(* units and windows are the rows handed to the solver; the attributes     *)
(* are total functions so that only membership decides who takes part.     *)
(* A previous assignment may name a unit or a window that is not handed    *)
(* over any more; NoWindow everywhere is the empty dict (or None).         *)
(***************************************************************************)
InputType ==
    [ units     : SUBSET Units,
      windows   : SUBSET Windows,
      duration  : [Units -> Nat],
      priority  : [Units -> Int],
      prereqs   : [Units -> SUBSET Units],
      deadline  : [Units -> Nat \cup {NoDeadline}],
      date      : [Windows -> Nat],
      minutes   : [Windows -> Nat],
      available : [Windows -> BOOLEAN],
      previous  : [Units -> Windows \cup {NoWindow}] ]

\* Where every unit is: the list of Assignment rows as a function.
Placements == [Units -> Windows \cup {NoWindow}]

NoPlacement == [u \in Units |-> NoWindow]

ASSUME DataAssumption ==
    /\ Units \subseteq Nat
    /\ Windows \subseteq Nat
    /\ IsFiniteSet(Units)
    /\ IsFiniteSet(Windows)
    /\ NoWindow \notin Windows
    /\ NoDeadline \notin Nat

=============================================================================
