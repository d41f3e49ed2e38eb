SPECIFICATION Spec
CONSTANTS
    Day = 5
    BlockIds = {b1, b2, b3}
    Recomputers = {r1, r2}
    Week <- MCWeek
    Horizon = 1
    OwnSource = FALSE
    Meetings <- MCMeetings
    Settings <- MCSettings
    Targets = {work, home}
    LastDay = 1
    MaxEdits = 1
    MaxUpsets = 1
SYMMETRY RecomputerSymmetry
INVARIANTS
    EveryBlockKnown
    FocusInEmptySlots
PROPERTIES
    NoChurn
CHECK_DEADLOCK FALSE
