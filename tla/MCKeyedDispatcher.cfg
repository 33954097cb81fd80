CONSTANTS
    Items = {i1, i2}
    Producers = {p1, p2}
    Instances = {d1, d2}
    Handlers = {h1, h2}
    None = None
    MaxGuid = 1
SPECIFICATION FairSpec
INVARIANTS
    TypeOK
    NothingStranded
    IdleUnregistered
PROPERTIES
    PoolSpec
    QueuedIsHandled
CHECK_DEADLOCK FALSE
