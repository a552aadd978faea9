SPECIFICATION FairSpec
CONSTANTS
    w1 = w1
    w2 = w2
    Pool = {w1, w2}
    Cycler = c
    x = x
    Waiters = {x}
    Polled = {i1}
    Hooked = {i3}
    LeftOver = {i2}
    MaxAttempts = 2
    MaxTasks = 2
    Deployments <- RunAndStop
    StoreFails = FALSE
    NoTask = NoTask
\* When everything is worked off the pool sleeps for good.
CHECK_DEADLOCK FALSE
INVARIANTS
    IInv
    OnePlace
    DepthIsWork
    MarkBehindWork
PROPERTIES
    EveryHandleReleased
    CycleReturns
    IdleSeen
    PoolLeaves
