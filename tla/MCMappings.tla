----------------------------- MODULE MCMappings -----------------------------
(* Two papers' questions of different weight and age, two nodes. *)
EXTENDS Mappings, TLC

CONSTANTS c1, c2

MCQuestions == {"q1", "q2"}
MCNodes == {"n1", "n2"}
MCMarks == [q1 |-> 1, q2 |-> 4]
MCYear == [q1 |-> 2, q2 |-> 1]
MCDecay == <<4, 2>>
MCLexical == [q1 |-> [n1 |-> 1, n2 |-> 0], q2 |-> [n1 |-> 0, n2 |-> 1]]
MCTerminology == [q1 |-> [n1 |-> 0, n2 |-> 0], q2 |-> [n1 |-> 1, n2 |-> 0]]
MCGivenWeights == {0, 30, 90}

MCSymmetry == Permutations({c1, c2})

=============================================================================
