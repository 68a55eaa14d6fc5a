SPECIFICATION Spec
CONSTANTS
    c1 = c1
    Clients = {c1}
    Units <- MCUnits
    Windows <- MCWindows
    NoWindow = NoWindow
    NoDeadline = NoDeadline
    Days <- MCDays
    Weekend <- MCWeekend
    Slots <- MCSlots
    SlotDays <- MCSlotDays
    SlotStart <- MCSlotStart
    SlotEnd <- MCSlotEnd
    Duration <- MCDuration
    Requires <- MCNoPrerequisites
    MaxCalls = 3
INVARIANT PeriodTaughtOnce
CHECK_DEADLOCK FALSE
