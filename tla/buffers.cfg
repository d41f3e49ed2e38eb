SPECIFICATION Spec
CONSTANTS
    Meetings = {meeting1}
    BufferIds = {b1, b2, b3, b4}
    Recomputers = {r1, r2}
    NoEvent = NoEvent
    Horizon = 2
    LastTime = 1
    LastStart = 2
    MaxEdits = 1
    MaxUpsets = 1
SYMMETRY RecomputerSymmetry
INVARIANTS
    EveryBufferKnown
    CalendarInStep
    NoOverlap
PROPERTY
    UndisturbedLosesNothing
CHECK_DEADLOCK FALSE
