SPECIFICATION Spec
CONSTANTS
    Requests = {req1, req2}
    MaxIterations = 2
    MaxUses = 2
    MaxSends = 2
    MaxLosses = 1
SYMMETRY Symmetry
INVARIANTS
    AppliedOnce
    NeverStuck
    CardsHoldTheTurn
    TranscriptAccepted
PROPERTIES
    Consented
CHECK_DEADLOCK FALSE
