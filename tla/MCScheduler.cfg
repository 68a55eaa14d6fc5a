SPECIFICATION FairSpec
CONSTANTS
    Units <- MCUnits
    Windows <- MCWindows
    NoWindow = NoWindow
    NoDeadline = NoDeadline
    Inputs <- MCInputs
    ChurnPenalty = 1000
INVARIANT TypeOK
INVARIANT RaiseExplained
INVARIANT ReplanIsIdentity
INVARIANT ChurnFirst
PROPERTY PromiseKept
PROPERTY Terminates
CHECK_DEADLOCK FALSE
