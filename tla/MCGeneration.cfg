SPECIFICATION FairSpec
CONSTANTS
    Nodes <- MCNodes
    Lessons <- MCLessons
    NodeOf <- MCNodeOf
    Spans <- MCSpans
    Overlap <- MCOverlap
    Provenance <- MCProvenance
    EvidenceK = 2
    GenerationPriority <- MCGenerationPriority
    VerificationPriority <- MCVerificationPriority
    Forged = "forged"
    MaxClaims = 2
    MaxCites = 2
INVARIANT TypeOK
INVARIANT VerifiedIsEarned
INVARIANT StoredWhole
INVARIANT LossExplained
PROPERTY RequestEnds
CHECK_DEADLOCK FALSE
