SPECIFICATION Spec
CONSTANTS
    TickMod = 2
    timer_frequency = 1
    MaxTasks = 3
    PRIORITY_NORMAL = 1
    MAX_PRIORITY = 1
    MODULE_STACK_SIZE = 2
    Priorities = {}
    Durations = {}
    Calls = {"createthread", "fork", "execve", "join", "waitpid", "kill", "shellkill",
             "exit", "pthread_exit", "fault"}
INVARIANTS
    TypeOK
    PidsUnique
    DispatchIsSound
    JoinsAreKept
