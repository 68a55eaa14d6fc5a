---------------------------- MODULE MCCurriculum ----------------------------
(* Two refs, three nodes: one response that uses a ref twice, and room for a
   second extraction of the same refs. *)
EXTENDS Curriculum

CONSTANTS c1, c2

MCSymmetry == Permutations({c1, c2})

=============================================================================
