SPECIFICATION Spec
CONSTANTS
    c1 = c1
    c2 = c2
    Clients = {c1, c2}
    Refs = {"a", "b"}
    NoRef = NoRef
    BatchLimit = 2
    MaxItems = 2
    MaxPrereqs = 1
    MaxNodes = 3
    MaxIds = 2
    MaxCalls = 3
SYMMETRY MCSymmetry
INVARIANT TypeOK
INVARIANT EdgesStayInside
INVARIANT LostNodesExplained
INVARIANT DuplicateUnitsExplained
PROPERTY BackfillHonest
CHECK_DEADLOCK FALSE
