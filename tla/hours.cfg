SPECIFICATION Spec
CONSTANTS
    Day = 5
    MaxTime = 4
    MaxAvail = 2
    MaxBusy = 2
INVARIANTS
    WindowsRight
    SlotsRight
    ExpandRight
    LanesRight
    PageRight
CHECK_DEADLOCK FALSE
