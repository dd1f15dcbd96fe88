SPECIFICATION Spec
CONSTANTS
    TickMod = 2
    timer_frequency = 1
    MaxTasks = 4
    PRIORITY_NORMAL = 1
    MAX_PRIORITY = 1
    MODULE_STACK_SIZE = 2
    Priorities = {}
    Durations = {}
    Calls = {"createthread", "kill", "exit"}
INVARIANTS
    CascadeIsBounded
