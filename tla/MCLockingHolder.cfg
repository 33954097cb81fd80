CONSTANTS
    Threads = {t1, t2}
    Timeouts = {1, 2}
    NoLock = NoLock
    MaxTime = 2
    MaxObjects = 3
SPECIFICATION Spec
SYMMETRY Symmetry
INVARIANT
    OneHolder
CHECK_DEADLOCK FALSE
