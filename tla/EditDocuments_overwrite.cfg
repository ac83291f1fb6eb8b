CONSTANTS
    Tabs = {t1, t2}
    Browsers = {b1, b2}
    Docs = {d1}
    Keys = {k1, k2, k3, k4}
    MaxPosts = 2
    MaxRetried = 1
    MaxRevisions = 3
    MaxDocuments = 1
    None = None
SPECIFICATION Spec
SYMMETRY Symmetry
CHECK_DEADLOCK FALSE
INVARIANTS
    OverwritesOnlySeen
