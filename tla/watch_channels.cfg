SPECIFICATION ChannelSpec
CONSTANTS
    Cals = {calA, calB}
    Channels = {ch1, ch2, ch3}
    Registrars = {reg1, reg2}
    NoChannel = NoChannel
    Before = {}
    MaxUpsets = 1
INVARIANTS
    NoStrayChannel
    QuietWhenOff
    RowNamesOwnChannel
CHECK_DEADLOCK FALSE
