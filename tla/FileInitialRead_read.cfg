CONSTANTS
    JobIds = {j1, j2, j3}
    Files = {f1}
    Protected = {}
    Workers = {w1, w2}
    MaxAttempts = 2
    ClaimLimit = 1
    LeaseOutlivesRun = TRUE
    ChatFiles = {f1}
    MessageCap = 2
    ReadsMayFail = FALSE
SPECIFICATION FairReadSpec
CHECK_DEADLOCK FALSE
INVARIANTS
    CompleteIsWritten
    AtMostOneOverviewExclusive
PROPERTIES
    PendingIsResolved
