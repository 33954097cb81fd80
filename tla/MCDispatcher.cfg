CONSTANTS
    Items = {i1, i2, i3}
    JobObjects = {j1, j2, j3, j4}
    WorkerSize = 2
    NoItem = NoItem
SPECIFICATION Spec
SYMMETRY Symmetry
INVARIANTS
    TypeOK
    NoStrandedItem
    WorkerBound
    OneHandler
PROPERTIES
    PoolSpec
CHECK_DEADLOCK FALSE
