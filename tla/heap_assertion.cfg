SPECIFICATION Spec
CHECK_DEADLOCK FALSE
CONSTANTS
    HEAP_START = 2
    HEAP_END = 20
    PAGE_SIZE = 1
    ALLOC_SIZE_HEADER = 1
    physical_memory = 24
    Word = 64
    Requests = {0, 1, 3, 7}
    MaxRequest = 7
    Unwritten = {0}
INVARIANTS
    NeverMoreThanAll
