CONSTANTS
    Executions = {e1}
    Workers = {w1, w2}
    Kinds = {"image", "queued", "video", "local"}
    MaxPolls = 2
    MaxIngests = 3
    Nobody = nobody
SPECIFICATION FairSpec
CHECK_DEADLOCK FALSE
INVARIANTS
    SubmittedOnce
    PublishedIsStored
    VideoIsRecoverable
PROPERTIES
    TerminalIsFinal
    Settles
