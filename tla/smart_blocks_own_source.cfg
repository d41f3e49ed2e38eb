SPECIFICATION Spec
CONSTANTS
    Day = 5
    BlockIds = {b1, b2, b3, b4}
    Recomputers = {r1}
    Week <- MCWeek
    Horizon = 1
    OwnSource = TRUE
    Meetings <- MCMeetings
    Settings <- MCSettings
    Targets = {work}
    LastDay = 0
    MaxEdits = 0
    MaxUpsets = 0
INVARIANT FocusInEmptySlots
CHECK_DEADLOCK FALSE
