CONSTANTS
    word1 = word1
    word2 = word2
    word3 = word3
    word4 = word4
    url1 = url1
    url2 = url2
    None = None
    Processes = {api, cron}
    Items <- MCItems
    SourceOf <- MCSourceOf
    Feed <- MCFeed
    Lookback = 3
    MaxArticles = 3
    FirstDay = 3
    MaxDay = 4
    MaxBuilds = 2
SPECIFICATION Spec
SYMMETRY Symmetry
CHECK_DEADLOCK FALSE
INVARIANTS
    GroupsAreStories
    VersionsAreGapless
    BuildSettles
