CONSTANTS
    Calls = {c1, c2}
    Modes = {"send", "stream", "tool"}
    Chain <- MCChain
    MaxFailures = 2
    MaxCancels = 1
SPECIFICATION Spec
SYMMETRY Symmetry
CHECK_DEADLOCK FALSE
INVARIANTS
    AttemptsAreAccounted
    BreakerIsEarned
PROPERTIES
    CancelledStreamStops
