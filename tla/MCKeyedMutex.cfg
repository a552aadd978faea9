SPECIFICATION FairSpec
CONSTANTS
    Workers = {w1, w2, w3}
    Keys = {k1, k2}
    Mutexes = {m1, m2, m3}
    Nobody = Nobody
    NoMutex = NoMutex
    NoKey = NoKey
\* No task left for any worker is a legal end; a worker stuck in lock
\* violates LockGranted.
CHECK_DEADLOCK FALSE
INVARIANTS
    IInv
    MutualExclusion
PROPERTIES
    LockGranted
    ImplementsKeyLock
