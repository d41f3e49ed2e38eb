SPECIFICATION Spec
CONSTANTS
    Meetings = {meeting1}
    BufferIds = {b1, b2, b3, b4}
    Recomputers = {r1}
    NoEvent = NoEvent
    Horizon = 2
    LastTime = 2
    LastStart = 2
    MaxEdits = 0
    MaxUpsets = 0
PROPERTY
    ReapedForCause
CHECK_DEADLOCK FALSE
