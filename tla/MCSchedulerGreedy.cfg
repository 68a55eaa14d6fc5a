SPECIFICATION Spec
CONSTANTS
    Units <- MCUnits
    Windows <- MCWindows
    NoWindow = NoWindow
    NoDeadline = NoDeadline
    Inputs <- MCSolvableInputs
    ChurnPenalty = 1000
INVARIANT GreedyFindsFeasiblePlan
CHECK_DEADLOCK FALSE
