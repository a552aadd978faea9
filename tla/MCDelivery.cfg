SPECIFICATION FairSpec
CONSTANTS
    d1 = d1
    d2 = d2
    c1 = c1
    c2 = c2
    Deliveries = {d1, d2}
    Content <- TwoDeliveries
    Anonymous = {d2}
    Requests = {h1, h2}
    MaxErrors = 1
    MaxCrashes = 1
    NoDelivery = NoDelivery
INVARIANTS
    AckedMeansQueued
    RedeliveryQueuesNothing
PROPERTIES
    EveryChangeApplied
