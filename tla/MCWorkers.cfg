CONSTANTS
    Jobs = {j1, j2}
    Scheduler = Scheduler
    Management = Management
    NoJob = NoJob
    Slots = {m1, m2}
    NoMessage = NoMessage
    NoStatus = NoStatus
    MaxDisturbances = 1
SPECIFICATION Spec
PROPERTIES QueuedIsReleased EnabledIsRun
INVARIANTS
    TypeOK
    OneRun
CHECK_DEADLOCK FALSE
