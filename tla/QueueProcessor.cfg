\* The whole interface: any state at any time, and a semaphore that overflows.
SPECIFICATION FairSpec
CONSTANTS
    Items = {i1, i2, i3}
    Threads = {t1, t2}
    Producers = {p1, p2}
    AdminStates = {"STARTED", "PAUSED", "STOPPED"}
    SemMax = 2
    NoItem = NoItem
    NoOne = NoOne
INVARIANTS TypeOK OneOwner TokensMatchItems WokenFindsItem
PROPERTIES DrainClaimsAll PoolSpec EveryItemProcessed
