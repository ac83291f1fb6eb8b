CONSTANTS
    Threads = {t1, t2}
    Slugs = {s1}
    Handlers = {h1, h2}
    Earlier = {t1}
    NoSlug = NoSlug
    NoThread = NoThread
    NoFile = NoFile
    MaxMessages = 2
    MaxFaults = 0
SPECIFICATION Spec
SYMMETRY Symmetry
CHECK_DEADLOCK FALSE
INVARIANTS
    ProjectShowsTranscript
