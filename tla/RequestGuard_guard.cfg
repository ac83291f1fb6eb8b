CONSTANTS
    Requests = {r1, r2, r3}
    Keys = {k1}
    NoKey = NoKey
    Questions = {q1}
    MaxChat = 2
    MaxCouncil = 2
    MaxTotal = 3
SPECIFICATION FairSpec
CHECK_DEADLOCK FALSE
INVARIANTS
    SlotsExact
    PendingIsHeld
    ReplayIsStored
    OneExecutionPerKey
    OneCouncilPerQuestion
PROPERTIES
    KeyIsFreed
