SPECIFICATION FairSpec
CONSTANTS
    Recs = {1, 2}
    Configured = 0
    Exact = FALSE
    DefaultOverlap = 1
    CoarseOverlap = 2
    Skew = 1
    Ahead = 1
    PageSize = 0
    StartTime = 1
    MaxTime = 7
    MaxVersions = 2
    MaxFailures = 2
INVARIANTS
    IInv
    NothingSkipped
PROPERTIES
    CaughtUp
