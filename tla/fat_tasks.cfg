SPECIFICATION MCSpec
CHECK_DEADLOCK FALSE
CONSTANTS
    MaxCalls = 4
    Callers = {p1, p2}
    MaxCluster = 3
    Slots = {1}
    Files = {1}
    Descriptors = {1}
    MaxSize = 3
    MaxFaults = 0
    MaxBadReads = 1
    Disciplined = FALSE
PROPERTIES
    CallsReturn
