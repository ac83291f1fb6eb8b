CONSTANTS
    JobIds = {j1, j2}
    Files = {f1, f2}
    Protected = {f2}
    Workers = {w1, w2, w3}
    MaxAttempts = 2
    ClaimLimit = 2
    LeaseOutlivesRun = FALSE
SPECIFICATION FairSpec
CHECK_DEADLOCK FALSE
INVARIANTS
    AttemptsBounded
    QueueInv
PROPERTIES
    TerminalIsFinal
    EventuallySettled
    ImplementsLedger
