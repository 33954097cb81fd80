CONSTANTS
    Items = {i1, i2}
    JobObjects = {j1, j2, j3}
    WorkerSize = 2
    NoItem = NoItem
SPECIFICATION FairSpec
PROPERTIES
    EveryItemTaken
    IdleJobsLeave
    WorkersReleased
CHECK_DEADLOCK FALSE
