SPECIFICATION Spec
CONSTANTS
    Items = {i1, i2}
    Producers = {p1}
    Instances = {d1, d2}
    Handlers = {h1, h2}
    None = None
    MaxGuid = 1
PROPERTIES
    AliveWhileWorking
CHECK_DEADLOCK FALSE
