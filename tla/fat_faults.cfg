SPECIFICATION Spec
CONSTANTS
    Callers = {p1}
    MaxCluster = 4
    Slots = {1, 2}
    Files = {1, 2}
    Descriptors = {1}
    MaxSize = 2
    MaxFaults = 1
    MaxBadReads = 0
    Disciplined = FALSE
PROPERTIES
    FaultsAreContained
