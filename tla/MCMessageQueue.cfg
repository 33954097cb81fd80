CONSTANTS
    Entries = {e1, e2}
    Clients = {c1, c2}
    Flushers = {timer}
    NoEntry = NoEntry
    Keys = {k}
    NoKey = NoKey
    Twins = {}
    BufferKey <- MCBufferKey
    Counts = {2}
    DequeueLease = 1
    PingLeases = {1}
    Delays = {0, 1}
    Lifetime = 1
    MaxTime = 2
    MaxId = 2
    MaxReceipt = 2
    MaxCrashes = 1
SPECIFICATION Spec
SYMMETRY NoTwinsSymmetry
INVARIANTS
    TypeOK
    NothingLost LockDiscipline
    DurableWhenClean
PROPERTIES LeaseRespected
CHECK_DEADLOCK FALSE
