CONSTANTS
    Rows = {r1, r2}
    Batches = {{r1, r2}}
    Servers = {s1}
    Requests = {q}
    Jobs = {k1, k2}
    Deliveries = {d1, d2}
    Blocks = {b1, b2}
    NoBlock = NoBlock
    Nobody = Nobody
    StorageJobs = 1
    MaxChunks = 2
    MaxFaults = 1
SPECIFICATION FairSpec
INVARIANTS
    TypeOK
    RowsKept
    StoredOnce
PROPERTIES
    EveryRowStored
CHECK_DEADLOCK FALSE
