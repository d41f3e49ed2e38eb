SPECIFICATION Spec
CONSTANTS
    Day = 5
    MaxTime = 4
    MaxAvail = 2
    MaxBusy = 2
INVARIANT
    ExpandCovers
CHECK_DEADLOCK FALSE
