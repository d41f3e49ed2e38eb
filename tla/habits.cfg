SPECIFICATION FairSpec
CONSTANTS
    Cals = {calA, calB}
    BlockIds = {b1, b2, b3, b4}
    NoBlock = NoBlock
    Handlers = {h1}
    Ticker = Ticker
    LastDay = 2
    Ahead = 2
    LastSlot = 2
    Flex = 1
    MaxAsks = 1
    MaxUpsets = 1
INVARIANTS
    EveryEventKnown
    HabitKept
PROPERTIES
    ComesInTune
CHECK_DEADLOCK FALSE
