SPECIFICATION FairSpec
CONSTANTS
    Callers = {c1, c2}
    Configured = 32
    Unit = 32
    Burst = 1
    RecoverAfter = 2
    Hints = {0, 5}
    MaxRejects = 2
INVARIANTS
    WithinQuota
    RetryAfterKept
PROPERTIES
    RateRecovers
