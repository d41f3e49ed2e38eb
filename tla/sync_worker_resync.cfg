SPECIFICATION Spec
CONSTANTS
    acc = acc
    Cals = {calA}
    Accounts = {acc}
    AccountOf <- MCAccountOf
    Channels = {ch1}
    Registrars = {reg1}
    NoChannel = NoChannel
    Before = {}
    All = All
    QueueMax = 1
    MaxChanges = 2
    MaxOld = 1
    MaxUpsets = 0
INVARIANT
    ResyncIsFull
CHECK_DEADLOCK FALSE
