SPECIFICATION Spec
CONSTANTS
    c1 = c1
    c2 = c2
    Clients = {c1, c2}
    Questions <- MCQuestions
    Nodes <- MCNodes
    Marks <- MCMarks
    Year <- MCYear
    Decay <- MCDecay
    Teachers = {"ada", "bea"}
    Embedded = {"n1"}
    Lexical <- MCLexical
    Terminology <- MCTerminology
    ShortlistK = 2
    MinConfidence = 12
    GivenWeights <- MCGivenWeights
    Off = Off
    Keep = Keep
    MaxCalls = 3
SYMMETRY MCSymmetry
INVARIANT TypeOK
INVARIANT CorrectedIffLogged
INVARIANT LastWordStands
PROPERTY MachineNeverOverwrites
PROPERTY EmphasisFollows
CHECK_DEADLOCK FALSE
