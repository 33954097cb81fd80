CONSTANTS
    Entries = {e1}
    Servers = {s1, s2}
    Deliveries = {d1, d2}
    Nobody = Nobody
    DequeueLease = 4
    PingLease = 2
    KeepAlive = 1
    ErrorLease = 1
    Margin = 1
    MaxDequeues = 1
    MaxFaults = 0
SPECIFICATION Spec
INVARIANTS
    ProcessedIsLeased
CHECK_DEADLOCK FALSE
