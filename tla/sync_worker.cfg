SPECIFICATION FairSpec
CONSTANTS
    acc = acc
    Cals = {calA}
    Accounts = {acc}
    AccountOf <- MCAccountOf
    Channels = {ch1}
    Registrars = {reg1}
    NoChannel = NoChannel
    Before = {}
    All = All
    QueueMax = 1
    MaxChanges = 2
    MaxOld = 1
    MaxUpsets = 1
INVARIANTS
    NothingSkipped
PROPERTIES
    CatchesUp
CHECK_DEADLOCK FALSE
