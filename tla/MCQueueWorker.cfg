CONSTANTS
    Entries = {e1}
    Servers = {s1, s2}
    Deliveries = {d1, d2, d3}
    Nobody = Nobody
    DequeueLease = 3
    PingLease = 2
    KeepAlive = 1
    ErrorLease = 1
    Margin = 1
    MaxDequeues = 2
    MaxFaults = 1
SPECIFICATION FairSpec
INVARIANTS
    TypeOK
    OncePerServer
    LeaseHeld
    HandledOnce
PROPERTIES
    EveryEntryLeaves
CHECK_DEADLOCK FALSE
