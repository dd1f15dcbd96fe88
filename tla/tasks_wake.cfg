SPECIFICATION TimerSpec
CONSTANTS
    TickMod = 6
    timer_frequency = 1
    MaxTasks = 3
    PRIORITY_NORMAL = 1
    MAX_PRIORITY = 1
    MODULE_STACK_SIZE = 8
    Priorities = {}
    Durations = {0, 2}
    Calls = {"createthread", "sleep", "kill"}
INVARIANTS
    ModulesMatchTasks
PROPERTIES
    WakesOnTime
    SleepersWake
