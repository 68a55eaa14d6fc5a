------------------------------ MODULE Emphasis ------------------------------
(***************************************************************************)
(* The historical assessment emphasis of src/app/emphasis: what the rows of*)
(* question_node_mappings say about each node.  Weights are whole numbers  *)
(* (Mappings counts in sixtieths), the exponential decay is a table over   *)
(* the age of a paper, and a component is the fraction share / of.         *)
(***************************************************************************)
EXTENDS Integers, SequencesExt

CONSTANTS
    Questions,  \* exam_questions
    Nodes,      \* curriculum_nodes
    Marks,      \* exam_questions.marks, 0 where NULL
    Year,       \* exam_questions.year, 0 where NULL
    Decay       \* exp(-decay * age), scaled, for every age there can be

ASSUME EmphasisAssumption ==
    /\ IsFiniteSet(Nodes)
    /\ Marks \in [Questions -> Nat]
    /\ Year \in [Questions -> Nat]
    /\ Decay \in Seq(Nat)
    /\ \A q, r \in Questions : Year[q] - Year[r] < Len(Decay)

AtLeastZero(x) == IF x < 0 THEN 0 ELSE x

\* frequency_contribution
Contribution(row) == AtLeastZero(row.weight)

Years(rows) == {Year[rows[i].question] : i \in DOMAIN rows} \ {0}

\* current_year is not given: the newest year among the mapped questions.
ReferenceYear(rows) == Max(Years(rows) \cup {0})

\* recency_contribution; Decay starts at age 0.
RecencyContribution(rows, row) ==
    IF Year[row.question] = 0 THEN 0
    ELSE Contribution(row) * Decay[AtLeastZero(ReferenceYear(rows) - Year[row.question]) + 1]

MarksContribution(row) == Contribution(row) * AtLeastZero(Marks[row.question])

RowsOf(rows, n) == {i \in DOMAIN rows : rows[i].node = n}

\* The running totals of node n, one per signal that needs scaling.
Totals(rows, n) ==
    [ frequency |-> SumFunctionOnSet([i \in DOMAIN rows |-> Contribution(rows[i])], RowsOf(rows, n)),
      recency   |-> SumFunctionOnSet([i \in DOMAIN rows |-> RecencyContribution(rows, rows[i])],
                                     RowsOf(rows, n)),
      marks     |-> SumFunctionOnSet([i \in DOMAIN rows |-> MarksContribution(rows[i])],
                                     RowsOf(rows, n)) ]

Signals == {"frequency", "recency", "marks"}

\* Only nodes with a mapping get a score.
Scored(rows) == {rows[i].node : i \in DOMAIN rows}

\* Mutant: one scale, that of the frequencies, for all three.
ScaleShared(rows, signal) == Max({Totals(rows, n).frequency : n \in Scored(rows)} \cup {0})

Scale(rows, signal) == Max({Totals(rows, n)[signal] : n \in Scored(rows)} \cup {0})

\* _normalized; the signals from the node itself (syllabus, structural) do not
\* depend on the rows.
Component(rows, n, signal) ==
    LET largest == Scale(rows, signal)
    IN  IF largest > 0 THEN [share |-> Totals(rows, n)[signal], of |-> largest]
        ELSE [share |-> 0, of |-> 1]

NotAbove(a, b) == a.share * b.of <= b.share * a.of

\* calculate_emphasis is a sum of the components with fixed weights, so a node
\* none of whose components is above has a score that is not above either.
NowhereAbove(rows, more, n) ==
    \A signal \in Signals : NotAbove(Component(rows, n, signal), Component(more, n, signal))

=============================================================================
