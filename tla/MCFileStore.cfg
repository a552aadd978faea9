SPECIFICATION Spec
CONSTANTS
    Keys = {1, 2}
    Values = {v, t}
    Mortal = {t}
    CompactAfter = 2
    Faults = {"kill", "crash", "compact", "fsync", "append"}
    MaxCalls = 4
    MaxFaults = 2
    Torn = Torn
    Down = Down
    None = None
\* The bound on calls ends every behaviour.
CHECK_DEADLOCK FALSE
INVARIANTS
    IInv
    RecoversOwed
    ReplayIsMemory
PROPERTIES
    ImplementsDurableMap
