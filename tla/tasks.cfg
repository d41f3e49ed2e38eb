SPECIFICATION FairSpec
CONSTANTS
    Cals = {calA, calB}
    BlockIds = {b1, b2, b3, b4}
    NoBlock = NoBlock
    Handlers = {h1}
    Ticker = Ticker
    Last = 2
    MaxSize = 2
    MaxAsks = 1
    MaxUpsets = 1
INVARIANTS
    EveryBlockKnown
    AllOrNothing
PROPERTIES
    EndedStays
    PendingIsPlaced
CHECK_DEADLOCK FALSE
