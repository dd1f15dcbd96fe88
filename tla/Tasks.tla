------------------------------- MODULE Tasks -------------------------------
(***************************************************************************)
(* The task table and the scheduler of the kernel (kernel/fskrnl.c): how   *)
(* tasks are created, dispatched by the timer interrupt, put to sleep,     *)
(* blocked, joined and terminated.                                         *)
(*                                                                         *)
(* There is one processor.  `current_thread' is the task it executes; only *)
(* that task takes steps, and a Tick can come between any two of them when *)
(* `interrupts' is TRUE.  A system call runs with interrupts off, so it is *)
(* one step, except where the code turns them on again: the wait loops     *)
(* (join, block, sleep) and the termination of a task and its children,    *)
(* which sys_exit, pthread_exit, a fault and the shell's kill command      *)
(* enter with interrupts on and the kill system call with interrupts off.  *)
(*                                                                         *)
(* Each field of task_t that the scheduler reads is a function on task     *)
(* ids.  Names, stacks, contexts, heap pointers and exit values are left   *)
(* out: no decision below depends on them.                                 *)
(***************************************************************************)
EXTENDS Ticks, Sequences, FiniteSets

CONSTANTS
    MaxTasks,         \* get_max_tasks(): the slots of the task table
    PRIORITY_NORMAL,  \* 3 in the code
    MAX_PRIORITY,     \* 7 in the code
    MODULE_STACK_SIZE,  \* 4096 in the code
    Priorities,       \* the values programs pass to set_task_priority
    Durations,        \* the seconds or milliseconds programs pass to sleep
    Calls             \* the operations programs use in this instance

CallNames == {"createthread", "fork", "execve", "join", "waitpid", "kill",
              "shellkill", "exit", "pthread_exit", "fault", "setpriority",
              "ready", "block", "yield", "sleep", "blockself"}

ASSUME TasksAssumption ==
    /\ MaxTasks \in Nat \ {0}
    /\ PRIORITY_NORMAL \in Nat \ {0} /\ MAX_PRIORITY \in Nat
    /\ PRIORITY_NORMAL <= MAX_PRIORITY
    /\ MODULE_STACK_SIZE \in Nat \ {0}
    /\ Priorities \subseteq Int
    /\ Durations \subseteq Nat
    /\ Calls \subseteq CallNames

VARIABLES
    thread_count,     \* slots in use, a slot is never reused
    process_count,    \* process ids given out
    current_thread,   \* the task on the processor
    current_process,  \* its pid when it was dispatched
    timertick,        \* the tick counter
    interrupts,       \* the processor's interrupt flag
    module_stack_top, \* index of the last name on the module stack
    state, priority, quantum_left, wake_tick, parent, pid, process_id,
    joiner_id, joined,  \* the fields of task_t with these names
    waiting,          \* the task each task polls in pthread_join2, or None
    frames            \* each task's activations of the termination functions

countVars == <<thread_count, process_count>>
cpuVars   == <<current_thread, current_process, timertick>>
identVars == <<parent, pid, process_id>>
joinVars  == <<joiner_id, joined, waiting>>
callVars  == <<interrupts, frames>>

vars == <<thread_count, process_count, current_thread, current_process,
          timertick, interrupts, module_stack_top, state, priority, quantum_left,
          wake_tick, parent, pid, process_id, joiner_id, joined, waiting,
          frames>>

None == -1                  \* NULL, or an id of -1
idle_thread_id == 0

Ids    == 0 .. MaxTasks - 1
OptionalIds == Ids \cup {None}
States == {"UNUSED", "READY", "RUNNING", "SLEEP", "BLOCK", "TERMINATE"}
Stages == {"kids", "kin", "last", "spin"}
Ways   == {"kill", "exit", "pthread_exit"}
Frames == [task : Ids, at : Stages, how : Ways]

TypeOK ==
    /\ thread_count \in 1 .. MaxTasks
    /\ process_count \in 1 .. MaxTasks
    /\ current_thread \in Ids
    /\ current_process \in OptionalIds
    /\ timertick \in TickValues
    /\ interrupts \in BOOLEAN
    /\ module_stack_top \in -1 .. MODULE_STACK_SIZE
    /\ state \in [Ids -> States]
    /\ priority \in [Ids -> 0 .. MAX_PRIORITY]
    /\ quantum_left \in [Ids -> 0 .. MAX_PRIORITY]
    /\ wake_tick \in [Ids -> TickValues]
    /\ parent \in [Ids -> OptionalIds]
    /\ pid \in [Ids -> OptionalIds]
    /\ process_id \in [Ids -> OptionalIds]
    /\ joiner_id \in [Ids -> OptionalIds]
    /\ joined \in [Ids -> BOOLEAN]
    /\ waiting \in [Ids -> OptionalIds]
    /\ frames \in [Ids -> Seq(Frames)]

-----------------------------------------------------------------------------
(* Lookups over the table.                                                 *)

ThreadIds == 0 .. thread_count - 1

valid_task_id(t) == t \in ThreadIds
valid_process_id(p) == 0 <= p /\ p < process_count

\* The first slot of a loop over the table that finds one of S, or None.
First(S) == IF S = {} THEN None ELSE CHOOSE t \in S : \A u \in S : t <= u

getthreadbypid(p) == First({t \in ThreadIds : pid[t] = p})

getthreadbypidnottid(p, x) == First({t \in ThreadIds : t # x /\ pid[t] = p})

getchildthreadbyparent(x) == First({t \in ThreadIds : parent[t] = x})

ParentPid(t) == IF state[t] # "TERMINATE" THEN pid[parent[t]]
                                          ELSE process_id[parent[t]]

getthreadidbyppid(p) ==
    First({t \in ThreadIds : parent[t] # None /\ ParentPid(t) = p})

\* The quantum a task is given, and the one it has after a conditional refill.
\* (While user mode is on, schedule gives at least 10 ticks, fskrnl.c:5186; no
\* property counts the ticks of a quantum.)
Quantum(p) == IF p > 0 THEN p ELSE 1
Recharged(t) == IF quantum_left[t] <= 0 THEN Quantum(priority[t])
                                        ELSE quantum_left[t]

\* The current task executes: its own program, a wait loop, or a termination.
Executing == state[current_thread] \in {"READY", "RUNNING"}
Free == Executing /\ waiting[current_thread] = None
                  /\ frames[current_thread] = <<>>

-----------------------------------------------------------------------------
(* Creation: kernel_createthread, sys_fork_handler and execv_handler.      *)

PushUnchecked == module_stack_top' = module_stack_top + 1

push_module == module_stack_top' = IF module_stack_top >= MODULE_STACK_SIZE
                                     THEN module_stack_top
                                     ELSE module_stack_top + 1

pop_module == module_stack_top' = IF module_stack_top = -1
                                    THEN module_stack_top
                                    ELSE module_stack_top - 1

NoProcessCounted(isProcess) == process_count' = process_count

CountProcess(isProcess) ==
    process_count' = IF isProcess THEN process_count + 1 ELSE process_count

\* Fill slot n = thread_count; a process takes the next process id.
FillSlot(n, isProcess, par, prio, wake) ==
    LET p == IF isProcess THEN process_count ELSE None
    IN  /\ thread_count < MaxTasks
        /\ thread_count' = thread_count + 1
        /\ CountProcess(isProcess)
        /\ push_module
        /\ parent' = [parent EXCEPT ![n] = par]
        /\ pid' = [pid EXCEPT ![n] = p]
        /\ process_id' = [process_id EXCEPT ![n] = p]
        /\ priority' = [priority EXCEPT ![n] = prio]
        /\ wake_tick' = [wake_tick EXCEPT ![n] = wake]
        /\ joined' = [joined EXCEPT ![n] = FALSE]
        /\ UNCHANGED <<cpuVars, callVars>>

\* Tasks that the idle task, which runs the shell, creates have no parent.
Creator == IF current_thread = 0 THEN None ELSE current_thread

kernel_createthread(isProcess, blocked) ==
    LET n == thread_count
    IN  /\ Free
        /\ FillSlot(n, isProcess, Creator, PRIORITY_NORMAL, 0)
        /\ state' = [state EXCEPT ![n] = IF blocked THEN "BLOCK" ELSE "READY"]
        /\ quantum_left' = [quantum_left EXCEPT ![n] = 0]
        /\ joiner_id' = [joiner_id EXCEPT ![n] = None]
        /\ UNCHANGED waiting

\* The child is a copy of the caller's record: it keeps the priority and the
\* stale deadline.
sys_fork_handler ==
    LET n == thread_count
        c == current_thread
    IN  /\ Free
        /\ valid_process_id(current_process)
        /\ FillSlot(n, TRUE, c, priority[c], wake_tick[c])
        /\ state' = [state EXCEPT ![n] = "READY"]
        /\ quantum_left' = [quantum_left EXCEPT ![n] = Quantum(priority[c])]
        /\ joiner_id' = [joiner_id EXCEPT ![n] = None]
        /\ UNCHANGED waiting

\* execve spawns a process and waits for it in the same system call.
execv_handler ==
    LET n == thread_count
        c == current_thread
    IN  /\ Free
        /\ FillSlot(n, TRUE, Creator, PRIORITY_NORMAL, 0)
        /\ state' = [state EXCEPT ![n] = "READY", ![c] = "BLOCK"]
        /\ quantum_left' = [quantum_left EXCEPT ![n] = 0, ![c] = 0]
        /\ joiner_id' = [joiner_id EXCEPT ![n] = c]
        /\ waiting' = [waiting EXCEPT ![c] = n]

-----------------------------------------------------------------------------
(* Joining: pthread_join2 and waitpid_handler.                             *)

\* Nobody has joined x or is waiting to.
Joinable(x) == ~joined[x] /\ joiner_id[x] < 0

\* The target has ended and nobody has joined it: the call returns at once.
JoinEnded(x) ==
    /\ Free /\ x # current_thread /\ ~joined[x]
    /\ state[x] = "TERMINATE"
    /\ joined' = [joined EXCEPT ![x] = TRUE]
    /\ UNCHANGED <<countVars, cpuVars, identVars, callVars, module_stack_top,
                   state, priority, quantum_left, wake_tick, joiner_id,
                   waiting>>

\* The caller becomes the target's only joiner and blocks.
JoinBlocks(x) ==
    LET c == current_thread
    IN  /\ Free /\ x # c /\ Joinable(x)
        /\ state[x] # "TERMINATE"
        /\ joiner_id' = [joiner_id EXCEPT ![x] = c]
        /\ state' = [state EXCEPT ![c] = "BLOCK"]
        /\ quantum_left' = [quantum_left EXCEPT ![c] = 0]
        /\ waiting' = [waiting EXCEPT ![c] = x]
        /\ UNCHANGED <<countVars, cpuVars, identVars, callVars,
                       module_stack_top, priority, wake_tick, joined>>

pthread_join2(x) == valid_task_id(x) /\ (JoinEnded(x) \/ JoinBlocks(x))

\* The stub of the join call refuses task 0; waitpid looks a pid up.
pthread_join == \E x \in ThreadIds \ {0} : pthread_join2(x)
waitpid_handler == \E p \in 0 .. process_count - 1 :
    getthreadbypid(p) # None /\ pthread_join2(getthreadbypid(p))

\* A joiner that is dispatched again polls its target and may return.
JoinReturns ==
    LET c == current_thread
    IN  /\ Executing
        /\ waiting[c] # None
        /\ state[waiting[c]] = "TERMINATE"
        /\ joined' = [joined EXCEPT ![waiting[c]] = TRUE]
        /\ waiting' = [waiting EXCEPT ![c] = None]
        /\ UNCHANGED <<countVars, cpuVars, identVars, callVars,
                       module_stack_top, state, priority, quantum_left,
                       wake_tick, joiner_id>>

-----------------------------------------------------------------------------
(* Termination.  task_terminate, task_terminate_with_result and            *)
(* pthread_exit share one shape.  An activation is a frame: it looks for a *)
(* child ("kids"), then for a task whose parent has its pid ("kin"), and   *)
(* ends the task ("last").  Each found child is an activation of its own   *)
(* that completes first.  A task that has ended itself waits for good      *)
(* ("spin").  The group branch, taken when another task has the same pid,  *)
(* is unreachable (PidsUnique), so it is not an action.                    *)

EndsTwice(x) == valid_task_id(x) /\ x # idle_thread_id

\* The entry checks of task_terminate and task_terminate_with_result.
CanTerminate(x) == /\ valid_task_id(x)
                   /\ x # idle_thread_id
                   /\ state[x] # "TERMINATE"

Activation(x, how) == [task |-> x, at |-> "kids", how |-> how]

Begin(x, how) ==
    /\ Free
    /\ frames' = [frames EXCEPT ![current_thread] = <<Activation(x, how)>>]
    /\ UNCHANGED <<countVars, cpuVars, identVars, joinVars, module_stack_top,
                   state, priority, quantum_left, wake_tick>>

\* System call 238, with interrupts off; its stub refuses task 0.
thread_tkill(x) == /\ x # 0 /\ CanTerminate(x)
                   /\ Begin(x, "kill")
                   /\ interrupts' = FALSE

\* The shell's kill command calls task_terminate itself.
ShellKill(p) == /\ current_thread = idle_thread_id
                /\ p > 0 /\ valid_process_id(p)
                /\ getthreadbypid(p) # None
                /\ CanTerminate(getthreadbypid(p))
                /\ Begin(getthreadbypid(p), "kill")
                /\ UNCHANGED interrupts

\* A fault returns into task_return_trampoline.
task_return_trampoline == /\ CanTerminate(current_thread)
                          /\ Begin(current_thread, "kill")
                          /\ UNCHANGED interrupts

sys_exit_handler == /\ CanTerminate(current_thread)
                    /\ Begin(current_thread, "exit")
                    /\ UNCHANGED interrupts

\* Only a created thread returns into pthread_exit, never the idle task.
pthread_exit == /\ current_thread # idle_thread_id
                /\ Begin(current_thread, "pthread_exit")
                /\ UNCHANGED interrupts

InFrame(at) == /\ Executing
               /\ frames[current_thread] # <<>>
               /\ Head(frames[current_thread]).at = at

\* exit passes its result on to the children, the others kill them.
ChildWay(how) == IF how = "exit" THEN "exit" ELSE "kill"

\* The innermost activation is the head: move it to stage `at', and start an
\* activation for task k when there is one that passes the entry checks.
Descend(at, k) ==
    LET c == current_thread
        f == Head(frames[c])
        rest == [frames[c] EXCEPT ![1] = [f EXCEPT !.at = at]]
    IN  /\ frames' = [frames EXCEPT ![c] =
              IF k # None /\ CanTerminate(k)
                THEN <<Activation(k, ChildWay(f.how))>> \o rest
                ELSE rest]
        /\ UNCHANGED <<countVars, cpuVars, identVars, joinVars, interrupts,
                       module_stack_top, state, priority, quantum_left,
                       wake_tick>>

AllKidsFirst ==
    /\ InFrame("kids")
    /\ LET c == getchildthreadbyparent(Head(frames[current_thread]).task)
       IN  Descend(IF c = None THEN "kin" ELSE "kids", c)

TerminateKids ==
    /\ InFrame("kids")
    /\ Descend("kin",
               getchildthreadbyparent(Head(frames[current_thread]).task))

KinOfAny(x) == getthreadidbyppid(pid[x])

\* The task found through the process id of x: a task that is not a process
\* has pid -1, which is not looked up.
KinOf(x) == IF pid[x] # None /\ valid_process_id(pid[x])
              THEN getthreadidbyppid(pid[x])
              ELSE None

TerminateKin ==
    /\ InFrame("kin")
    /\ Descend("last", KinOf(Head(frames[current_thread]).task))

WokenFromSleep(x) == {j \in ThreadIds : j = joiner_id[x] /\ state[j] = "SLEEP"}

\* The joiner that this end wakes, if it is blocked.
Woken(x) == {j \in ThreadIds : j = joiner_id[x] /\ state[j] = "BLOCK"}

\* The section with interrupts off that ends task x.  It does not look at the
\* state of x again.  An activation that ends the current task never returns.
TerminateLast ==
    /\ InFrame("last")
    /\ LET c == current_thread
           f == Head(frames[c])
           x == f.task
           rest == IF x = c THEN <<[f EXCEPT !.at = "spin"]>>
                            ELSE Tail(frames[c])
       IN  /\ pop_module
           /\ state' = [t \in Ids |-> IF t = x THEN "TERMINATE"
                                      ELSE IF t \in Woken(x) THEN "READY"
                                      ELSE state[t]]
           /\ quantum_left' = [t \in Ids |-> IF t = x THEN 0
                                      ELSE IF t \in Woken(x) THEN Recharged(t)
                                      ELSE quantum_left[t]]
           /\ pid' = IF f.how = "kill" THEN [pid EXCEPT ![x] = None] ELSE pid
           /\ frames' = [frames EXCEPT ![c] = rest]
           /\ interrupts' = (interrupts \/ x = c \/ rest = <<>>)
    /\ UNCHANGED <<countVars, cpuVars, parent, process_id, joinVars, priority,
                   wake_tick>>

-----------------------------------------------------------------------------
(* Scheduling calls.                                                       *)

UnchangedByCall == UNCHANGED <<countVars, cpuVars, identVars, joinVars,
                               callVars, module_stack_top>>

\* The value is clamped; a running task without quantum is refilled.
set_task_priority(x, value) ==
    LET prio == IF value < 0 THEN 0
                ELSE IF value > MAX_PRIORITY THEN MAX_PRIORITY ELSE value
    IN  /\ Free
        /\ priority' = [priority EXCEPT ![x] = prio]
        /\ quantum_left' = IF state[x] = "RUNNING" /\ quantum_left[x] <= 0
                             THEN [quantum_left EXCEPT ![x] = Quantum(prio)]
                             ELSE quantum_left
        /\ UNCHANGED <<state, wake_tick>> /\ UnchangedByCall

ReadyUnchecked(x) ==
    /\ Free
    /\ state' = [state EXCEPT ![x] = "READY"]
    /\ quantum_left' = [quantum_left EXCEPT ![x] = Recharged(x)]
    /\ UNCHANGED <<priority, wake_tick>> /\ UnchangedByCall

task_ready(x) ==
    /\ Free
    /\ state[x] # "TERMINATE"
    /\ state' = [state EXCEPT ![x] = "READY"]
    /\ quantum_left' = [quantum_left EXCEPT ![x] = Recharged(x)]
    /\ UNCHANGED <<priority, wake_tick>> /\ UnchangedByCall

task_yield(x) ==
    /\ Free
    /\ state[x] = "RUNNING"
    /\ state' = [state EXCEPT ![x] = "READY"]
    /\ quantum_left' = [quantum_left EXCEPT ![x] = 0]
    /\ UNCHANGED <<priority, wake_tick>> /\ UnchangedByCall

\* There is no test for a task that has ended.
task_block(x) ==
    /\ Free
    /\ x # idle_thread_id
    /\ state' = [state EXCEPT ![x] = "BLOCK"]
    /\ quantum_left' = [quantum_left EXCEPT ![x] = 0]
    /\ UNCHANGED <<priority, wake_tick>> /\ UnchangedByCall

\* task_sleep (unit = 1) and task_msleep (unit = 1000) of the caller; the
\* idle task does not sleep but polls the counter.
task_sleep(n, unit) ==
    LET c == current_thread
    IN  /\ Free
        /\ c # idle_thread_id
        /\ wake_tick' = [wake_tick EXCEPT ![c] =
                            TickAdd(timertick, SleepTicks(n, unit))]
        /\ state' = [state EXCEPT ![c] = "SLEEP"]
        /\ quantum_left' = [quantum_left EXCEPT ![c] = 0]
        /\ UNCHANGED priority /\ UnchangedByCall

-----------------------------------------------------------------------------
(* The timer interrupt: timer_handler, scheduler_tick, schedule.           *)

DueButLast(now) == {t \in 0 .. thread_count - 2 :
                        state[t] = "SLEEP" /\ tick_reached(now, wake_tick[t])}

\* The sleepers that scheduler_tick makes ready at tick `now'.
Due(now) == {t \in ThreadIds : /\ state[t] = "SLEEP"
                               /\ tick_reached(now, wake_tick[t])}

LowestReady(from, st) == First({t \in ThreadIds : st[t] = "READY"})

\* The first ready task of table st after slot `from', going round, `from'
\* itself last; None when no task is ready.
find_next_ready(from, st) ==
    LET dist(t) == IF t > from THEN t - from ELSE t - from + thread_count
        ready == {t \in ThreadIds : st[t] = "READY"}
    IN  IF ready = {} THEN None
        ELSE CHOOSE t \in ready : \A u \in ready : dist(t) <= dist(u)

Dispatch(t, st, q) ==
    /\ current_thread' = t
    /\ current_process' = pid[t]
    /\ state' = [st EXCEPT ![t] = "RUNNING"]
    /\ quantum_left' = [q EXCEPT ![t] = Quantum(priority[t])]

NeverDescheduled(st) == st

\* The current task loses the processor: it is ready unless it has stopped.
Descheduled(st) == IF st[current_thread] = "RUNNING"
                     THEN [st EXCEPT ![current_thread] = "READY"]
                     ELSE st

\* schedule, on the states st and quanta q that scheduler_tick has left.
schedule(st, q) ==
    LET c == current_thread
        stopped == st[c] \in {"TERMINATE", "SLEEP", "BLOCK"}
        keeps == st[c] = "RUNNING" /\ q[c] > 1
        q1 == IF st[c] = "RUNNING" THEN [q EXCEPT ![c] = 0] ELSE q
        st1 == Descheduled(st)
        next == find_next_ready(c, st1)
    IN  \/ /\ keeps
           /\ quantum_left' = [q EXCEPT ![c] = @ - 1]
           /\ state' = st
           /\ UNCHANGED <<current_thread, current_process>>
        \/ /\ ~keeps
           /\ next # None
           /\ Dispatch(next, st1, q1)
        \/ /\ stopped
           /\ next = None
           /\ Dispatch(idle_thread_id, st1, q1)

timer_handler ==
    LET now == TickAdd(timertick, 1)
        due == Due(now)
        st == [t \in Ids |-> IF t \in due THEN "READY" ELSE state[t]]
        q == [t \in Ids |-> IF t \in due THEN Quantum(priority[t])
                                         ELSE quantum_left[t]]
    IN  /\ interrupts
        /\ timertick' = now
        /\ schedule(st, q)
        /\ UNCHANGED <<countVars, identVars, joinVars, callVars,
                       module_stack_top, priority, wake_tick>>

-----------------------------------------------------------------------------
(* The idle task is process 0 and runs when multitasking starts; one name, *)
(* the kernel's, is below its own on the module stack.                     *)
Init ==
    /\ thread_count = 1 /\ process_count = 1
    /\ current_thread = idle_thread_id /\ current_process = 0
    /\ timertick = 0
    /\ interrupts = TRUE
    /\ module_stack_top = 1
    /\ state = [t \in Ids |-> IF t = 0 THEN "RUNNING" ELSE "UNUSED"]
    /\ priority = [t \in Ids |-> 0]
    /\ quantum_left = [t \in Ids |-> IF t = 0 THEN 1 ELSE 0]
    /\ wake_tick = [t \in Ids |-> 0]
    /\ parent = [t \in Ids |-> None]
    /\ pid = [t \in Ids |-> IF t = 0 THEN 0 ELSE None]
    /\ process_id = [t \in Ids |-> IF t = 0 THEN 0 ELSE None]
    /\ joiner_id = [t \in Ids |-> None]
    /\ joined = [t \in Ids |-> FALSE]
    /\ waiting = [t \in Ids |-> None]
    /\ frames = [t \in Ids |-> <<>>]

\* One operation of the current task's program.  Only programs fork, and they
\* run in created tasks; the idle task runs the shell.
Create == \/ /\ "createthread" \in Calls
             /\ \E isProcess, blocked \in BOOLEAN :
                   kernel_createthread(isProcess, blocked)
          \/ /\ "fork" \in Calls /\ current_thread # idle_thread_id
             /\ sys_fork_handler
          \/ "execve" \in Calls /\ execv_handler

Join == \/ "join" \in Calls /\ pthread_join
        \/ "waitpid" \in Calls /\ waitpid_handler

Terminate ==
    \/ "kill" \in Calls /\ \E x \in ThreadIds : thread_tkill(x)
    \/ "shellkill" \in Calls /\ \E p \in 0 .. process_count - 1 : ShellKill(p)
    \/ "fault" \in Calls /\ task_return_trampoline
    \/ "exit" \in Calls /\ sys_exit_handler
    \/ "pthread_exit" \in Calls /\ pthread_exit

Control ==
    \/ /\ "setpriority" \in Calls
       /\ \E x \in ThreadIds, value \in Priorities : set_task_priority(x, value)
    \/ "ready" \in Calls /\ \E x \in ThreadIds : task_ready(x)
    \/ "yield" \in Calls /\ \E x \in ThreadIds : task_yield(x)
    \/ "block" \in Calls /\ \E x \in ThreadIds : task_block(x)
    \/ "blockself" \in Calls /\ task_block(current_thread)
    \/ /\ "sleep" \in Calls
       /\ \E n \in Durations, unit \in {1, 1000} : task_sleep(n, unit)

\* What the current task does inside a call it has made.
Inside == JoinReturns \/ TerminateKids \/ TerminateKin \/ TerminateLast

Next == Create \/ Join \/ Terminate \/ Control \/ Inside \/ timer_handler

Spec == Init /\ [][Next]_vars

\* The timer keeps interrupting, and a processor with interrupts off finishes
\* the system call it is in.
TimerSpec == Spec /\ WF_vars(timer_handler) /\ WF_vars(~interrupts /\ Inside)

\* As well, a task that is dispatched again and again executes its own code.
FairSpec == TimerSpec /\ \A t \in Ids : SF_vars(current_thread = t /\ Inside)

-----------------------------------------------------------------------------
(* Safety.                                                                 *)

\* No two tasks hold the same pid, whatever is created, forked and ended in
\* between, so getthreadbypidnottid finds nothing and the group branch of the
\* three termination functions cannot be taken.
PidsUnique ==
    \A t \in ThreadIds : pid[t] # None => getthreadbypidnottid(pid[t], t) = None

\* The task the table calls RUNNING is the one on the processor: whatever a
\* call or a tick does, the others are never left RUNNING.
OnlyCurrentRuns ==
    \A t \in ThreadIds : state[t] = "RUNNING" => t = current_thread

\* The pid fork trusts, current_process, is the current task's own for as long
\* as that task executes.
CurrentProcessIsOwn ==
    Executing => current_process = pid[current_thread]

\* A termination never leaves the family of the task it was asked to end: each
\* activation is for a child of the task of the one that started it.  This is
\* also what bounds the recursion on the kernel stack.
CascadeStaysInFamily ==
    \A t \in ThreadIds : \A i \in 1 .. Len(frames[t]) - 1 :
        parent[frames[t][i].task] = frames[t][i + 1].task

\* The recursion of a termination is never deeper than the number of tasks.
CascadeDepthBounded ==
    \A t \in ThreadIds : Len(frames[t]) <= thread_count

\* The task a joiner waits for knows it: two tasks never wait for the same
\* target, and a target does not lose its joiner.
JoinerIsRegistered ==
    \A t \in ThreadIds : waiting[t] # None => joiner_id[waiting[t]] = t

\* A joiner that is blocked waits for a task that has not ended: each of the
\* ways a task ends wakes its joiner.
NoLostJoin ==
    \A t \in ThreadIds :
        waiting[t] # None /\ state[t] = "BLOCK"
            => state[waiting[t]] # "TERMINATE"

\* The idle task can always be dispatched when no other task is ready.
IdleCanRun == state[idle_thread_id] \in {"READY", "RUNNING", "BLOCK"}

\* The processor, the table and current_process agree on who executes, and
\* there is always somebody who can, however tasks are made, block and end.
DispatchIsSound == OnlyCurrentRuns /\ CurrentProcessIsOwn /\ IdleCanRun

\* A task in a join has a target that knows it and will wake it.
JoinsAreKept == JoinerIsRegistered /\ NoLostJoin

\* A termination ends descendants only, one generation for each level of its
\* recursion on the kernel stack, although it runs with interrupts on in part.
CascadeIsBounded == CascadeStaysInFamily /\ CascadeDepthBounded

\* The module stack holds the kernel's name and one name for each task that
\* has not ended: no termination pops a name twice, and none forgets to.
ModulesMatchTasks ==
    LET alive == {t \in ThreadIds : state[t] # "TERMINATE"}
    IN  Cardinality(alive) <= MODULE_STACK_SIZE
            => module_stack_top = Cardinality(alive)

-----------------------------------------------------------------------------
(* What no step may do.                                                    *)

\* Only task_block takes a task out of TERMINATE: no wake-up, tick or
\* scheduling call does.
OnlyBlockRevives ==
    [][\A t \in ThreadIds : state[t] = "TERMINATE" =>
          state'[t] \in {"TERMINATE", "BLOCK"}]_vars

\* The tick that wakes a sleeper is the one its deadline names (the next one
\* when it asked for no delay): never earlier, never later.
WakesOnTime ==
    [][\A t \in ThreadIds :
          /\ timertick' # timertick
          /\ state[t] = "SLEEP"
          /\ state'[t] # "SLEEP"
          => wake_tick[t] \in {timertick, timertick'}]_vars

-----------------------------------------------------------------------------
(* What must happen.                                                       *)

\* A ready task is dispatched, whatever the other tasks do.
NoStarvation ==
    \A t \in Ids : state[t] = "READY" ~> \/ current_thread = t
                                         \/ state[t] # "READY"

\* A sleeper does not sleep for ever.
SleepersWake == \A t \in Ids : state[t] = "SLEEP" ~> state[t] # "SLEEP"

\* A joiner returns once its target has ended, unless it is ended itself.
JoinersReturn ==
    \A t \in Ids :
        waiting[t] # None /\ state[waiting[t]] = "TERMINATE"
            ~> waiting[t] = None \/ state[t] = "TERMINATE"

\* A termination that starts completes or ends its own caller, however it is
\* interleaved with the calls and terminations of the tasks it is to end.
TerminationsEnd ==
    \A t \in Ids : frames[t] # <<>> ~> frames[t] = <<>> \/ state[t] = "TERMINATE"
=============================================================================
