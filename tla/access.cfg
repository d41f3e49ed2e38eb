SPECIFICATION FairSpec
CONSTANTS
    Clients = {c1, Poller}
    Poller = Poller
    Refreshes = {r1, r2, r3}
    None = None
    Good = Good
    Dead = Dead
    MaxTries = 2
    MaxAsks = 2
    MaxUpsets = 1
INVARIANTS
    InsertsOnce
    LockoutIsReal
    GrantKept
PROPERTIES
    LockoutShows
    LockoutEnds
CHECK_DEADLOCK FALSE
