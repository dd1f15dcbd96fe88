SPECIFICATION Spec
CONSTANTS
    Callers = {p1}
    MaxCluster = 4
    Slots = {1, 2, 3}
    Files = {1, 2}
    Descriptors = {1, 2}
    MaxSize = 3
    MaxFaults = 0
    MaxBadReads = 0
    Disciplined = TRUE
INVARIANTS
    TypeOK
    ChainsAreSound
PROPERTIES
    LostOnlyByMkdir
