---------------------------- MODULE MCGeneration ----------------------------
(* Three providers, as in "ollama first" of config/providers.yaml: the first
   of each chain differs, and the generation chain can fall back to a member
   of the verification chain.  One lesson, one node without provenance (two
   spans, one of which overlaps its text) and one with it (two equal spans). *)
EXTENDS Generation

MCNodes == {"cells", "light"}
MCLessons == {"monday"}
MCNodeOf == [l \in MCLessons |-> "cells"]
MCSpans == {"s1", "s2", "s3"}
MCOverlap ==
    [ cells |-> [s1 |-> 2, s2 |-> 0, s3 |-> 0],
      light |-> [s1 |-> 3, s2 |-> 1, s3 |-> 1] ]
MCProvenance == [cells |-> {}, light |-> {"s2", "s3"}]
MCGenerationPriority == <<"ollama", "openai">>
MCVerificationPriority == <<"ollama_verify", "openai">>

=============================================================================
