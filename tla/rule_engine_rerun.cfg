SPECIFICATION Spec
CONSTANTS
    calA = calA
    calB = calB
    accA = accA
    accB = accB
    rule = rule
    Cals = {calA, calB}
    Accounts = {accA, accB}
    AccountOf <- MCAccountOf
    EventIds = {ev}
    Rules = {rule}
    RuleSrc <- MCRuleSrc
    RuleTgt <- MCRuleTgt
    Bidirectional = {rule}
    MirrorIds = {m1, m2, m3, m4, m5}
    Backfills = {bf}
    NoMirror = NoMirror
    MaxEdits = 2
    MaxUpsets = 0
INVARIANTS
    NeverDuplicated
CHECK_DEADLOCK FALSE
