SPECIFICATION Spec
CONSTANTS
    c1 = c1
    c2 = c2
    Clients = {c1, c2}
    Units <- MCUnits
    Windows <- MCWindows
    NoWindow = NoWindow
    NoDeadline = NoDeadline
    Days <- MCDays
    Weekend <- MCWeekend
    Slots <- MCSlots
    SlotDays <- MCSlotDays
    SlotStart <- MCSlotStart
    SlotEnd <- MCSlotEnd
    Duration <- MCDuration
    Requires <- MCRequires
    MaxCalls = 4
SYMMETRY MCSymmetry
INVARIANT TypeOK
INVARIANT ClosedDaysExplained
PROPERTY PlanFreshAtCommit
PROPERTY WithdrawalIsFinal
CHECK_DEADLOCK FALSE
