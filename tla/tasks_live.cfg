SPECIFICATION FairSpec
CONSTANTS
    TickMod = 2
    timer_frequency = 1
    MaxTasks = 3
    PRIORITY_NORMAL = 1
    MAX_PRIORITY = 1
    MODULE_STACK_SIZE = 8
    Priorities = {}
    Durations = {}
    Calls = {"createthread", "join", "exit"}
PROPERTIES
    JoinersReturn
    TerminationsEnd
    NoStarvation
