CONSTANTS
    JobIds = {j1, j2, j3}
    Files = {f1}
    Protected = {}
    Workers = {w1, w2}
    MaxAttempts = 2
    ClaimLimit = 1
    LeaseOutlivesRun = TRUE
    Contents = {"complete", "partial", "textless", "broken", "missing"}
SPECIFICATION PipeSpec
SYMMETRY Symmetry
CHECK_DEADLOCK FALSE
INVARIANTS
    ClaimsAreBacked
    OnePerFile
    SucceededIsReadyExclusive
    StageSettles
    ReadsHaveText
