CONSTANTS
    Threads = {t1, t2, t3}
    Timeouts = {1, 2}
    NoLock = NoLock
    MaxTime = 2
    MaxObjects = 3
SPECIFICATION Spec
SYMMETRY Symmetry
INVARIANTS
    TypeOK
    ExclusiveInTime
    KeysMatch
    PingExtends
CHECK_DEADLOCK FALSE
