CONSTANTS
    Entries = {e1, e2}
    Clients = {c1, c2}
    Flushers = {}
    NoEntry = NoEntry
    Keys = {k}
    NoKey = NoKey
    Twins = {e1, e2}
    BufferKey <- MCBufferKey
    Counts = {1}
    DequeueLease = 2
    PingLeases = {1}
    Delays = {0}
    Lifetime = 3
    MaxTime = 3
    MaxId = 2
    MaxReceipt = 1
    MaxCrashes = 0
SPECIFICATION Spec
SYMMETRY Symmetry
INVARIANT
    OnePerBufferKey
CHECK_DEADLOCK FALSE
