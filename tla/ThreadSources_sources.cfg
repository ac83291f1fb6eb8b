CONSTANTS
    Files = {f1, f2}
    Others = {w1}
    Turns = {t1}
SPECIFICATION Spec
SYMMETRY Symmetry
CHECK_DEADLOCK FALSE
INVARIANTS
    RestrictedToSources
    PendingIsAwaited
PROPERTIES
    RecentNeverReturns
