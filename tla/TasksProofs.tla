---------------------------- MODULE TasksProofs ----------------------------
(***************************************************************************)
(* Theorems about Tasks, for every number of tasks, every set of calls and *)
(* every width of the tick counter.  First the types, the process ids, who *)
(* ends whom and who executes: the recursion of a termination ends         *)
(* descendants only and is never deeper than the number of tasks, whatever *)
(* other tasks create, join and end between two of its steps; the          *)
(* processor, the table and current_process agree; a task that has ended   *)
(* is not made ready again.  Then what the calls promise: a joiner is      *)
(* known to its target and woken by its end, a sleeper wakes at the tick   *)
(* its deadline names, and the module stack names the tasks that have not  *)
(* ended.  Where a promise is broken by some of the calls or by delays too *)
(* long for the counter, the theorem says which it leaves out.             *)
(***************************************************************************)
EXTENDS Tasks, FiniteSetTheorems, WellFoundedInduction, TLAPS

USE DEF None, idle_thread_id, Ids, ThreadIds

-----------------------------------------------------------------------------
(* The lookups: what a loop over the table returns.                        *)

\* A set of naturals that is not empty has a least element.
LEMMA LeastNat ==
    ASSUME NEW S \in SUBSET Nat, S # {}
    PROVE  \E m \in S : \A n \in S : m <= n
<1>1. PICK m \in S : \A n \in S : ~(<<n, m>> \in OpToRel(<, Nat))
  BY NatLessThanWellFounded, WFMin
<1>2. \A n \in S : ~(n < m)
  BY <1>1 DEF OpToRel
<1> QED BY <1>2

\* First finds a member of the set, or nothing when there is none.
LEMMA FirstIn ==
    ASSUME NEW S \in SUBSET Nat
    PROVE  /\ S # {} => First(S) \in S
           /\ S = {} <=> First(S) = None
<1>1. CASE S = {}
  BY <1>1 DEF First
<1>2. CASE S # {}
  <2>1. \E t \in S : \A u \in S : t <= u
    BY <1>2, LeastNat
  <2>2. First(S) \in S
    BY <1>2, <2>1 DEF First
  <2>3. \A x \in S : x # None
    OBVIOUS
  <2> QED BY <1>2, <2>2, <2>3
<1> QED BY <1>1, <1>2

\* find_next_ready finds a ready task of the table, or nothing when no task of
\* the table is ready.
LEMMA NextReadyIn ==
    ASSUME thread_count \in Nat, NEW from \in ThreadIds, NEW st
    PROVE  LET next == find_next_ready(from, st)
           IN  /\ next # None => next \in ThreadIds /\ st[next] = "READY"
               /\ next = None => \A t \in ThreadIds : st[t] # "READY"
<1> DEFINE dist(t) == IF t > from THEN t - from ELSE t - from + thread_count
           ready == {t \in ThreadIds : st[t] = "READY"}
<1>1. CASE ready = {}
  BY <1>1 DEF find_next_ready
<1>2. CASE ready # {}
  <2> DEFINE D == {dist(t) : t \in ready}
  <2>1. D \in SUBSET Nat /\ D # {}
    BY <1>2
  <2>2. PICK m \in D : \A n \in D : m <= n
    <3> HIDE DEF D
    <3> QED BY <2>1, LeastNat
  <2>3. \E t \in ready : \A u \in ready : dist(t) <= dist(u)
    BY <2>2
  <2>4. find_next_ready(from, st) = CHOOSE t \in ready : \A u \in ready : dist(t) <= dist(u)
    BY <1>2 DEF find_next_ready
  <2>5. find_next_ready(from, st) \in ready
    <3> HIDE DEF ready, dist
    <3> QED BY <2>3, <2>4
  <2> QED BY <2>5
<1> QED BY <1>1, <1>2

-----------------------------------------------------------------------------
(* The values the operations compute.                                      *)

\* Counting ticks stays inside the width of the counter.
LEMMA TickAddType ==
    ASSUME NEW now \in TickValues, NEW delta \in Nat
    PROVE  TickAdd(now, delta) \in TickValues
BY TicksAssumption DEF TickAdd, TickValues

\* The ticks of a delay are a natural number.
LEMMA SleepTicksType ==
    ASSUME NEW n \in Nat, NEW unit \in {1, 1000}
    PROVE  SleepTicks(n, unit) \in Nat
<1>1. timer_frequency * n \in Nat /\ LastTick \in Nat
  BY TicksAssumption DEF LastTick
<1>2. ASSUME NEW m \in Nat PROVE m \div unit \in Nat
  BY Z3
<1> QED BY <1>1, <1>2 DEF SleepTicks

\* A quantum is never zero and never above the highest priority.
LEMMA QuantumType ==
    ASSUME NEW p \in 0 .. MAX_PRIORITY
    PROVE  Quantum(p) \in 1 .. MAX_PRIORITY /\ Quantum(p) \in 0 .. MAX_PRIORITY
BY TasksAssumption DEF Quantum

\* The loop over the table that refills a task keeps its quantum in range.
LEMMA RechargedType ==
    ASSUME quantum_left \in [Ids -> 0 .. MAX_PRIORITY],
           priority \in [Ids -> 0 .. MAX_PRIORITY], NEW t \in Ids
    PROVE  Recharged(t) \in 0 .. MAX_PRIORITY
BY QuantumType DEF Recharged

-----------------------------------------------------------------------------
(* Types.  The slots in use come first, and so do the ids that are used to *)
(* name them; no more process ids are given out than slots.                *)

CountsOK ==
    /\ process_count <= thread_count
    /\ current_thread < thread_count

TypeInv == TypeOK /\ CountsOK

LEMMA Scalars ==
    ASSUME TypeInv
    PROVE  /\ MaxTasks \in Nat /\ thread_count \in Nat /\ thread_count >= 1
           /\ thread_count <= MaxTasks
           /\ process_count \in Nat /\ process_count >= 1
           /\ process_count <= thread_count
           /\ current_thread \in ThreadIds /\ current_thread \in Ids
           /\ ThreadIds \subseteq Ids
<1>1. MaxTasks \in Nat
  BY TasksAssumption
<1>2. /\ thread_count \in 1 .. MaxTasks /\ process_count \in 1 .. MaxTasks
      /\ current_thread \in Ids
      /\ process_count <= thread_count /\ current_thread < thread_count
  BY DEF TypeInv, TypeOK, CountsOK
<1> QED BY <1>1, <1>2

\* Filling a slot keeps the fields it sets in their types.
LEMMA FillSlotType ==
    ASSUME TypeInv, NEW isProcess \in BOOLEAN, NEW par \in OptionalIds,
           NEW prio \in 0 .. MAX_PRIORITY, NEW wake \in TickValues,
           FillSlot(thread_count, isProcess, par, prio, wake),
           state' \in [Ids -> States],
           quantum_left' \in [Ids -> 0 .. MAX_PRIORITY],
           joiner_id' \in [Ids -> OptionalIds],
           waiting' \in [Ids -> OptionalIds]
    PROVE  TypeInv'
<1> DEFINE n == thread_count
           p == IF isProcess THEN process_count ELSE None
<1>1. /\ thread_count' = n + 1 /\ n < MaxTasks
      /\ process_count' \in process_count .. process_count + 1
      /\ UNCHANGED <<current_thread, current_process, timertick, interrupts, frames>>
  BY Scalars DEF FillSlot, CountProcess, cpuVars, callVars
<1>2. p \in OptionalIds
  BY <1>1, Scalars DEF OptionalIds
<1>3. module_stack_top' \in -1 .. MODULE_STACK_SIZE
  BY TasksAssumption DEF FillSlot, push_module, TypeOK, TypeInv
<1>4. /\ thread_count' \in 1 .. MaxTasks /\ process_count' \in 1 .. MaxTasks
      /\ CountsOK'
  BY <1>1, Scalars DEF CountsOK
<1>5. /\ priority' \in [Ids -> 0 .. MAX_PRIORITY]
      /\ wake_tick' \in [Ids -> TickValues] /\ joined' \in [Ids -> BOOLEAN]
      /\ parent' \in [Ids -> OptionalIds]
  BY DEF FillSlot, TypeOK, TypeInv
<1>6. pid' \in [Ids -> OptionalIds] /\ process_id' \in [Ids -> OptionalIds]
  <2>1. /\ pid' = [pid EXCEPT ![n] = p] /\ process_id' = [process_id EXCEPT ![n] = p]
        /\ pid \in [Ids -> OptionalIds] /\ process_id \in [Ids -> OptionalIds]
    BY DEF FillSlot, TypeOK, TypeInv
  <2> HIDE DEF p
  <2> QED BY <1>2, <2>1
<1> QED
  BY <1>1, <1>3, <1>4, <1>5, <1>6 DEF TypeOK, TypeInv

\* Creating a task keeps every field in its type.
LEMMA CreateType == ASSUME TypeInv, Create PROVE TypeInv'
<1> DEFINE n == thread_count
           c == current_thread
<1>1. /\ n \in Nat /\ c \in Ids /\ c \in OptionalIds /\ Creator \in OptionalIds
      /\ 0 \in 0 .. MAX_PRIORITY
  BY Scalars, TasksAssumption DEF Creator, OptionalIds
<1>2. PRIORITY_NORMAL \in 0 .. MAX_PRIORITY /\ 0 \in TickValues
  BY TasksAssumption, TicksAssumption DEF TickValues
<1>3. /\ state \in [Ids -> States] /\ quantum_left \in [Ids -> 0 .. MAX_PRIORITY]
      /\ joiner_id \in [Ids -> OptionalIds] /\ waiting \in [Ids -> OptionalIds]
      /\ priority \in [Ids -> 0 .. MAX_PRIORITY] /\ wake_tick \in [Ids -> TickValues]
      /\ None \in OptionalIds
  BY DEF TypeOK, TypeInv, OptionalIds
<1>4. ASSUME NEW isProcess \in BOOLEAN, NEW blocked \in BOOLEAN,
             kernel_createthread(isProcess, blocked)
      PROVE  TypeInv'
  <2>1. FillSlot(n, isProcess, Creator, PRIORITY_NORMAL, 0)
    BY <1>4 DEF kernel_createthread
  <2>2. /\ state' \in [Ids -> States] /\ quantum_left' \in [Ids -> 0 .. MAX_PRIORITY]
        /\ joiner_id' \in [Ids -> OptionalIds] /\ waiting' \in [Ids -> OptionalIds]
    BY <1>1, <1>3, <1>4 DEF kernel_createthread, States
  <2> QED BY <1>1, <1>2, <2>1, <2>2, FillSlotType
<1>5. CASE sys_fork_handler
  <2>1. FillSlot(n, TRUE, c, priority[c], wake_tick[c])
    BY <1>5 DEF sys_fork_handler
  <2>2. Quantum(priority[c]) \in 0 .. MAX_PRIORITY
    BY <1>1, <1>3, QuantumType
  <2>3. /\ state' \in [Ids -> States] /\ quantum_left' \in [Ids -> 0 .. MAX_PRIORITY]
        /\ joiner_id' \in [Ids -> OptionalIds] /\ waiting' \in [Ids -> OptionalIds]
    BY <1>1, <1>3, <1>5, <2>2 DEF sys_fork_handler, States
  <2> QED BY <1>1, <1>3, <2>1, <2>3, FillSlotType
<1>6. CASE execv_handler
  <2>1. FillSlot(n, TRUE, Creator, PRIORITY_NORMAL, 0) /\ n \in Ids
    <3>1. FillSlot(n, TRUE, Creator, PRIORITY_NORMAL, 0)
      BY <1>6 DEF execv_handler
    <3>2. n < MaxTasks
      BY <3>1 DEF FillSlot
    <3>3. n \in Ids
      BY <1>1, <3>2, TasksAssumption
    <3> QED BY <3>1, <3>3
  <2>2. /\ state' \in [Ids -> States] /\ quantum_left' \in [Ids -> 0 .. MAX_PRIORITY]
        /\ joiner_id' \in [Ids -> OptionalIds] /\ waiting' \in [Ids -> OptionalIds]
    BY <1>1, <1>3, <1>6, <2>1 DEF execv_handler, States, OptionalIds
  <2> QED BY <1>1, <1>2, <2>1, <2>2, FillSlotType
<1> QED BY <1>4, <1>5, <1>6 DEF Create

\* Joining keeps every field in its type.
LEMMA JoinType == ASSUME TypeInv, Join PROVE TypeInv'
<1>1. ASSUME NEW x \in ThreadIds, JoinEnded(x) PROVE TypeInv'
  BY <1>1 DEF TypeOK, TypeInv, CountsOK, JoinEnded, countVars, cpuVars, identVars, callVars
<1>2. ASSUME NEW x \in ThreadIds, JoinBlocks(x) PROVE TypeInv'
  <2>1. x \in OptionalIds /\ current_thread \in OptionalIds /\ 0 \in 0 .. MAX_PRIORITY
    BY Scalars, TasksAssumption DEF OptionalIds
  <2> QED BY <1>2, <2>1
      DEF TypeOK, TypeInv, CountsOK, JoinBlocks, countVars, cpuVars, identVars,
          callVars, States
<1> QED
  BY <1>1, <1>2 DEF Join, pthread_join, waitpid_handler, pthread_join2, valid_task_id

\* Starting a termination keeps every field in its type.
LEMMA TerminateType == ASSUME TypeInv, Terminate PROVE TypeInv'
<1>1. ASSUME NEW x \in Ids, NEW how \in Ways, Begin(x, how), interrupts' \in BOOLEAN
      PROVE  TypeInv'
  <2>1. <<Activation(x, how)>> \in Seq(Frames)
    BY DEF Activation, Frames, Stages
  <2> QED BY <1>1, <2>1
       DEF TypeOK, TypeInv, CountsOK, Begin, countVars, cpuVars, identVars, joinVars
<1>2. \A x : CanTerminate(x) => x \in Ids
  BY Scalars DEF CanTerminate, valid_task_id
<1>3. current_thread \in Ids /\ interrupts \in BOOLEAN
  BY Scalars DEF TypeOK, TypeInv
<1> QED
  BY <1>1, <1>2, <1>3 DEF Terminate, thread_tkill, ShellKill,
     task_return_trampoline, sys_exit_handler, pthread_exit, Ways

\* A scheduling call keeps every field in its type.
LEMMA ControlType == ASSUME TypeInv, Control PROVE TypeInv'
<1>1. ASSUME state' \in [Ids -> States],
             quantum_left' \in [Ids -> 0 .. MAX_PRIORITY],
             priority' \in [Ids -> 0 .. MAX_PRIORITY],
             wake_tick' \in [Ids -> TickValues], UnchangedByCall
      PROVE  TypeInv'
  BY <1>1 DEF TypeOK, TypeInv, CountsOK, UnchangedByCall, countVars, cpuVars,
              identVars, joinVars, callVars
<1>2. /\ state \in [Ids -> States] /\ quantum_left \in [Ids -> 0 .. MAX_PRIORITY]
      /\ priority \in [Ids -> 0 .. MAX_PRIORITY] /\ wake_tick \in [Ids -> TickValues]
      /\ 0 \in 0 .. MAX_PRIORITY /\ timertick \in TickValues
  BY TasksAssumption DEF TypeOK, TypeInv
<1>3. ASSUME NEW x \in ThreadIds, NEW value \in Priorities, set_task_priority(x, value)
      PROVE  TypeInv'
  <2> DEFINE prio == IF value < 0 THEN 0
                     ELSE IF value > MAX_PRIORITY THEN MAX_PRIORITY ELSE value
  <2>1. prio \in 0 .. MAX_PRIORITY
    BY TasksAssumption
  <2>2. Quantum(prio) \in 0 .. MAX_PRIORITY
    <3> HIDE DEF prio
    <3> QED BY <2>1, QuantumType
  <2>3. /\ priority' = [priority EXCEPT ![x] = prio]
        /\ quantum_left' = IF state[x] = "RUNNING" /\ quantum_left[x] <= 0
                             THEN [quantum_left EXCEPT ![x] = Quantum(prio)]
                             ELSE quantum_left
        /\ UNCHANGED <<state, wake_tick>> /\ UnchangedByCall
    BY <1>3 DEF set_task_priority
  <2> HIDE DEF prio
  <2> QED BY <1>1, <1>2, <2>1, <2>2, <2>3
<1>4. ASSUME NEW x \in ThreadIds, task_ready(x) PROVE TypeInv'
  <2>1. Recharged(x) \in 0 .. MAX_PRIORITY
    BY <1>2, RechargedType, Scalars
  <2> QED BY <1>1, <1>2, <1>4, <2>1 DEF task_ready, States
<1>5. ASSUME NEW x \in ThreadIds, task_yield(x) PROVE TypeInv'
  BY <1>1, <1>2, <1>5 DEF task_yield, States
<1>6. ASSUME NEW x \in ThreadIds, task_block(x) PROVE TypeInv'
  BY <1>1, <1>2, <1>6 DEF task_block, States
<1>7. ASSUME NEW n \in Durations, NEW unit \in {1, 1000}, task_sleep(n, unit)
      PROVE  TypeInv'
  <2>1. TickAdd(timertick, SleepTicks(n, unit)) \in TickValues
    <3>1. n \in Nat
      BY TasksAssumption
    <3>2. SleepTicks(n, unit) \in Nat
      BY <3>1, SleepTicksType
    <3> QED BY <1>2, <3>2, TickAddType
  <2> QED BY <1>1, <1>2, <1>7, <2>1 DEF task_sleep, States
<1> QED
  BY <1>3, <1>4, <1>5, <1>6, <1>7, Scalars DEF Control

\* A step inside a call keeps every field in its type.
LEMMA InsideType == ASSUME TypeInv, Inside PROVE TypeInv'
<1> DEFINE c == current_thread
           f == Head(frames[c])
<1>0. c \in Ids /\ frames \in [Ids -> Seq(Frames)]
  BY Scalars DEF TypeOK, TypeInv
<1>1. CASE JoinReturns
  BY <1>1 DEF JoinReturns, TypeOK, TypeInv, CountsOK, OptionalIds, countVars,
              cpuVars, identVars, callVars
<1>2. ASSUME NEW at \in Stages, NEW k, frames[c] # <<>>, Descend(at, k)
      PROVE  TypeInv'
  <2> DEFINE rest == [frames[c] EXCEPT ![1] = [f EXCEPT !.at = at]]
  <2>1. f \in Frames /\ frames[c][1] = f /\ Len(frames[c]) >= 1
    BY <1>0, <1>2
  <2>2. [f EXCEPT !.at = at] \in Frames
    BY <2>1 DEF Frames
  <2>3. rest \in Seq(Frames)
    <3> HIDE DEF f
    <3> QED BY <1>0, <2>1, <2>2
  <2>4. CanTerminate(k) => <<Activation(k, ChildWay(f.how))>> \in Seq(Frames)
    BY Scalars DEF CanTerminate, valid_task_id, Activation, Frames, Stages, Ways, ChildWay
  <2>5. frames' \in [Ids -> Seq(Frames)]
    <3> DEFINE sub == <<Activation(k, ChildWay(f.how))>>
    <3>1. frames' = [frames EXCEPT ![c] = IF k # None /\ CanTerminate(k)
                                            THEN sub \o rest ELSE rest]
      BY <1>2 DEF Descend
    <3>2. CanTerminate(k) => sub \o rest \in Seq(Frames)
      <4> HIDE DEF sub, rest
      <4> QED BY <2>3, <2>4 DEF sub
    <3> HIDE DEF sub, rest
    <3> QED BY <1>0, <2>3, <3>1, <3>2
  <2> QED
    BY <1>2, <2>5 DEF Descend, TypeOK, TypeInv, CountsOK, countVars, cpuVars,
                      identVars, joinVars
<1>3. CASE TerminateLast
  <2>1. f \in Frames /\ frames[c] # <<>>
    BY <1>0, <1>3 DEF TerminateLast, InFrame
  <2>2. frames' \in [Ids -> Seq(Frames)] /\ interrupts' \in BOOLEAN
    <3>1. [f EXCEPT !.at = "spin"] \in Frames
      BY <2>1 DEF Frames, Stages
    <3>2. Tail(frames[c]) \in Seq(Frames)
      BY <1>0, <2>1
    <3> HIDE DEF f
    <3> QED BY <1>0, <1>3, <3>1, <3>2 DEF TerminateLast, TypeOK, TypeInv, f
  <2>3. state' \in [Ids -> States]
    BY <1>3 DEF TerminateLast, TypeOK, TypeInv, States
  <2>4. quantum_left' \in [Ids -> 0 .. MAX_PRIORITY]
    <3>1. 0 \in 0 .. MAX_PRIORITY /\ quantum_left \in [Ids -> 0 .. MAX_PRIORITY]
          /\ \A t \in Ids : Recharged(t) \in 0 .. MAX_PRIORITY
      <4>1. /\ 0 \in 0 .. MAX_PRIORITY /\ quantum_left \in [Ids -> 0 .. MAX_PRIORITY]
            /\ priority \in [Ids -> 0 .. MAX_PRIORITY]
        BY TasksAssumption DEF TypeOK, TypeInv
      <4> QED BY <4>1, RechargedType
    <3> QED BY <1>3, <3>1 DEF TerminateLast
  <2>5. pid' \in [Ids -> OptionalIds]
    BY <1>3 DEF TerminateLast, TypeOK, TypeInv, OptionalIds
  <2>6. module_stack_top' \in -1 .. MODULE_STACK_SIZE
    BY <1>3, TasksAssumption DEF TerminateLast, pop_module, TypeOK, TypeInv
  <2> QED
    BY <1>3, <2>2, <2>3, <2>4, <2>5, <2>6
       DEF TerminateLast, TypeOK, TypeInv, CountsOK, countVars, cpuVars, joinVars
<1> QED
  BY <1>1, <1>2, <1>3 DEF Inside, TerminateKids, TerminateKin, InFrame, Stages

\* A tick keeps every field in its type.
LEMMA TimerType == ASSUME TypeInv, timer_handler PROVE TypeInv'
<1> DEFINE now == TickAdd(timertick, 1)
           c == current_thread
           st == [t \in Ids |-> IF t \in Due(now) THEN "READY" ELSE state[t]]
           q == [t \in Ids |-> IF t \in Due(now) THEN Quantum(priority[t])
                                                ELSE quantum_left[t]]
           q1 == IF st[c] = "RUNNING" THEN [q EXCEPT ![c] = 0] ELSE q
           st1 == Descheduled(st)
           next == find_next_ready(c, st1)
<1>0. /\ state \in [Ids -> States] /\ quantum_left \in [Ids -> 0 .. MAX_PRIORITY]
      /\ priority \in [Ids -> 0 .. MAX_PRIORITY] /\ timertick \in TickValues
      /\ pid \in [Ids -> OptionalIds] /\ MAX_PRIORITY \in Nat
  BY TasksAssumption DEF TypeOK, TypeInv
<1>1. c \in Ids /\ c \in ThreadIds /\ 0 \in ThreadIds /\ ThreadIds \subseteq Ids
      /\ thread_count \in Nat
  BY Scalars
<1>2. now \in TickValues
  BY <1>0, TickAddType
<1>3. st \in [Ids -> States] /\ st1 \in [Ids -> States]
  BY <1>0, <1>1 DEF Descheduled, States
<1>4. q \in [Ids -> 0 .. MAX_PRIORITY]
  <2>1. \A t \in Ids : Quantum(priority[t]) \in 0 .. MAX_PRIORITY
    BY <1>0, QuantumType
  <2> QED BY <1>0, <2>1
<1>5. q1 \in [Ids -> 0 .. MAX_PRIORITY]
  <2> HIDE DEF q, st, c
  <2> QED BY <1>0, <1>1, <1>4
<1>6. next # None => next \in ThreadIds
  <2> HIDE DEF st1
  <2> QED BY <1>1, NextReadyIn
<1>7. /\ timertick' = now /\ schedule(st, q)
      /\ UNCHANGED <<countVars, identVars, joinVars, callVars,
                     module_stack_top, priority, wake_tick>>
  BY DEF timer_handler
<1>8. ASSUME NEW t \in ThreadIds, Dispatch(t, st1, q1)
      PROVE  /\ current_thread' \in ThreadIds /\ current_process' \in OptionalIds
             /\ state' \in [Ids -> States] /\ quantum_left' \in [Ids -> 0 .. MAX_PRIORITY]
  <2>1. t \in Ids /\ Quantum(priority[t]) \in 0 .. MAX_PRIORITY
    BY <1>0, <1>1, QuantumType
  <2> HIDE DEF st1, q1
  <2> QED BY <1>0, <1>3, <1>5, <1>8, <2>1 DEF Dispatch, States
<1>9. /\ current_thread' \in ThreadIds /\ current_process' \in OptionalIds
      /\ state' \in [Ids -> States] /\ quantum_left' \in [Ids -> 0 .. MAX_PRIORITY]
  <2>1. CASE /\ q[c] > 1
             /\ quantum_left' = [q EXCEPT ![c] = @ - 1]
             /\ state' = st
             /\ UNCHANGED <<current_thread, current_process>>
    <3>1. q[c] - 1 \in 0 .. MAX_PRIORITY
      <4> HIDE DEF q, c
      <4> QED BY <1>0, <1>1, <1>4, <2>1
    <3>2. current_process \in OptionalIds
      BY DEF TypeOK, TypeInv
    <3> HIDE DEF q, st
    <3> QED BY <1>1, <1>3, <1>4, <2>1, <3>1, <3>2
  <2>2. CASE next # None /\ Dispatch(next, st1, q1)
    BY <1>6, <1>8, <2>2
  <2>3. CASE Dispatch(idle_thread_id, st1, q1)
    BY <1>1, <1>8, <2>3
  <2> QED BY <1>7, <2>1, <2>2, <2>3 DEF schedule
<1>10. CountsOK'
  <2>1. UNCHANGED <<thread_count, process_count>>
    BY <1>7 DEF countVars
  <2>2. current_thread' < thread_count
    <3> HIDE DEF c, now, st, q, q1, st1, next
    <3> QED BY <1>1, <1>9
  <2> QED BY <2>1, <2>2, Scalars DEF CountsOK
<1>11. TypeOK'
  <2>1. current_thread' \in Ids
    BY <1>1, <1>9
  <2> HIDE DEF c, now, st, q, q1, st1, next
  <2> QED BY <1>2, <1>7, <1>9, <2>1 DEF TypeOK, TypeInv, countVars, identVars,
                                      joinVars, callVars
<1> QED BY <1>10, <1>11 DEF TypeInv

-----------------------------------------------------------------------------

\* Every field of the table and of the processor keeps its type; ids name slots
\* in use, and no more process ids are given out than slots.
LEMMA TypeInvariant == Spec => []TypeInv
<1>1. Init => TypeInv
  <2>1. /\ 0 \in Ids /\ 0 \in 0 .. MAX_PRIORITY /\ 1 \in 0 .. MAX_PRIORITY
        /\ 1 \in 1 .. MaxTasks /\ 0 \in TickValues /\ MODULE_STACK_SIZE \in Nat \ {0}
    BY TasksAssumption, TicksAssumption DEF TickValues
  <2>2. <<>> \in Seq(Frames)
    OBVIOUS
  <2> QED BY <2>1, <2>2 DEF Init, TypeInv, TypeOK, CountsOK, States, OptionalIds
<1>2. TypeInv /\ [Next]_vars => TypeInv'
  <2>1. ASSUME TypeInv, UNCHANGED vars PROVE TypeInv'
    BY <2>1 DEF vars, TypeInv, TypeOK, CountsOK
  <2> QED
    BY <2>1, CreateType, JoinType, TerminateType, ControlType, InsideType,
       TimerType DEF Next
<1> QED BY <1>1, <1>2, PTL DEF Spec

\* The types that the run checks hold in every instance.
THEOREM TypeCorrect == Spec => []TypeOK
<1>1. TypeInv => TypeOK
  BY DEF TypeInv
<1> QED BY <1>1, TypeInvariant, PTL

-----------------------------------------------------------------------------
(* Process ids.                                                            *)

\* A pid is the process id its task was given, and that was given once.
PidInv ==
    /\ \A t \in Ids : pid[t] # None => pid[t] = process_id[t]
    /\ \A t \in Ids : process_id[t] < process_count
    /\ \A t, u \in Ids :
          t # u /\ process_id[t] # None => process_id[t] # process_id[u]

\* A step changes the ids of a task only when it creates the task or ends it.
LEMMA IdentSteps ==
    ASSUME [Next]_vars
    PROVE  \/ UNCHANGED <<countVars, identVars>>
           \/ \E isProcess \in BOOLEAN : \E par, prio, wake :
                 FillSlot(thread_count, isProcess, par, prio, wake)
           \/ TerminateLast
<1> USE DEF countVars, identVars
<1>1. CASE UNCHANGED vars
  BY <1>1 DEF vars
<1>2. CASE Create
  BY <1>2 DEF Create, kernel_createthread, sys_fork_handler, execv_handler
<1>3. CASE Join
  BY <1>3 DEF Join, pthread_join, waitpid_handler, pthread_join2, JoinEnded, JoinBlocks
<1>4. CASE Terminate
  BY <1>4 DEF Terminate, thread_tkill, ShellKill, task_return_trampoline,
              sys_exit_handler, pthread_exit, Begin
<1>5. CASE Control
  BY <1>5 DEF Control, set_task_priority, task_ready, task_yield, task_block,
              task_sleep, UnchangedByCall
<1>6. CASE Inside
  BY <1>6 DEF Inside, JoinReturns, TerminateKids, TerminateKin, Descend
<1>7. CASE timer_handler
  BY <1>7 DEF timer_handler
<1> QED BY <1>1, <1>2, <1>3, <1>4, <1>5, <1>6, <1>7 DEF Next

LEMMA PidStep == ASSUME TypeInv, PidInv, [Next]_vars PROVE PidInv'
<1> USE DEF PidInv
<1>1. CASE UNCHANGED <<countVars, identVars>>
  BY <1>1 DEF countVars, identVars
<1>2. ASSUME NEW isProcess \in BOOLEAN, NEW par, NEW prio, NEW wake,
             FillSlot(thread_count, isProcess, par, prio, wake)
      PROVE  PidInv'
  <2> DEFINE n == thread_count
             p == IF isProcess THEN process_count ELSE None
  <2>1. /\ pid' = [pid EXCEPT ![n] = p] /\ process_id' = [process_id EXCEPT ![n] = p]
        /\ process_count' = IF isProcess THEN process_count + 1 ELSE process_count
    BY <1>2 DEF FillSlot, CountProcess
  <2>2. /\ pid \in [Ids -> OptionalIds] /\ process_id \in [Ids -> OptionalIds]
        /\ process_count \in Nat
    BY Scalars DEF TypeInv, TypeOK
  <2>3. \A t \in Ids : process_id[t] < process_count /\ process_id[t] \in Int
    BY <2>2, TasksAssumption DEF OptionalIds
  <2>4. \A t \in Ids : t # n => pid'[t] = pid[t] /\ process_id'[t] = process_id[t]
    BY <2>1, <2>2
  <2>5. n \in Ids => pid'[n] = p /\ process_id'[n] = p
    BY <2>1, <2>2
  <2>6. p < process_count'
    BY <2>1, <2>2
  <2>7. p # None => \A t \in Ids : p # process_id[t]
    BY <2>3
  <2>8. \A t \in Ids : process_id[t] < process_count'
    BY <2>1, <2>2, <2>3
  <2> HIDE DEF p, n
  <2> QED BY <2>4, <2>5, <2>6, <2>7, <2>8
<1>3. CASE TerminateLast
  BY <1>3 DEF TerminateLast, countVars, TypeInv, TypeOK
<1> QED BY <1>1, <1>2, <1>3, IdentSteps

LEMMA PidInvariant == Spec => []PidInv
<1>1. Init => PidInv
  BY DEF Init, PidInv
<1>2. TypeInv /\ PidInv /\ [Next]_vars => PidInv'
  BY PidStep
<1> QED BY <1>1, <1>2, TypeInvariant, PTL DEF Spec

\* No two tasks hold the same pid, so the group branch of the termination
\* functions is never taken, however many processes a system creates.
THEOREM PidsAreUnique == Spec => []PidsUnique
<1>1. TypeInv /\ PidInv => PidsUnique
  <2> SUFFICES ASSUME TypeInv, PidInv, NEW t \in ThreadIds, pid[t] # None
               PROVE  getthreadbypidnottid(pid[t], t) = None
    BY DEF PidsUnique
  <2>1. {u \in ThreadIds : u # t /\ pid[u] = pid[t]} = {}
    BY Scalars DEF PidInv
  <2> QED BY <2>1 DEF getthreadbypidnottid, First
<1> QED BY <1>1, TypeInvariant, PidInvariant, PTL

-----------------------------------------------------------------------------
(* Terminations: an activation is always for a child of the task of the    *)
(* one that started it.                                                    *)

\* A parent is older than its children: it has the smaller id.
ParentIsOlder ==
    \A t \in Ids : parent[t] # None => parent[t] < t /\ t < thread_count

\* The activations s of one task, innermost first, with parents par and n
\* tasks: each is for a task in the table, a child of the task of the next
\* one; the last is not for the idle task, so that ids bound the length; no
\* task is there twice, since each is younger than the ones after it.
Family(s, par, n) ==
    /\ \A i \in 1 .. Len(s) : s[i].task < n /\ s[i].task + i > Len(s)
    /\ \A i, j \in 1 .. Len(s) : i < j => s[j].task < s[i].task
    /\ \A i \in 1 .. Len(s) - 1 : par[s[i].task] = s[i + 1].task

\* A task that is not in the table has not made a call.
UnusedIsIdle ==
    \A t \in Ids : t >= thread_count => waiting[t] = None /\ frames[t] = <<>>

CascadeInv ==
    /\ ParentIsOlder
    /\ UnusedIsIdle
    /\ \A t \in Ids : Family(frames[t], parent, thread_count)

-----------------------------------------------------------------------------
(* Lists of activations.                                                   *)

\* The tasks of a list are ids.
LEMMA FrameTasks ==
    ASSUME NEW s \in Seq(Frames)
    PROVE  /\ Len(s) \in Nat
           /\ \A i \in 1 .. Len(s) :
                 s[i] \in Frames /\ s[i].task \in Ids /\ s[i].task \in Int
<1>1. \A f \in Frames : f.task \in Ids /\ f.task \in Int
  BY TasksAssumption DEF Frames
<1>2. Len(s) \in Nat /\ \A i \in 1 .. Len(s) : s[i] \in Frames
  OBVIOUS
<1> QED BY <1>1, <1>2

\* The list with its innermost activation at another stage.
Moved(s, at) == [s EXCEPT ![1] = [Head(s) EXCEPT !.at = at]]

\* Moving the innermost activation to another stage keeps the list a family.
LEMMA MovedFamily ==
    ASSUME NEW s \in Seq(Frames), s # <<>>, NEW par, NEW n, NEW at \in Stages,
           Family(s, par, n)
    PROVE  /\ Moved(s, at) \in Seq(Frames) /\ Moved(s, at) # <<>>
           /\ Family(Moved(s, at), par, n)
           /\ Head(Moved(s, at)).task = Head(s).task
<1> DEFINE f == [Head(s) EXCEPT !.at = at]
           r == Moved(s, at)
<1>1. /\ Head(s) \in Frames /\ s[1] = Head(s) /\ Len(s) \in Nat /\ Len(s) >= 1
      /\ \A i \in 1 .. Len(s) : s[i] \in Frames
  OBVIOUS
<1>2. f \in Frames /\ f.task = Head(s).task
  BY <1>1 DEF Frames
<1>3. /\ r \in Seq(Frames) /\ Len(r) = Len(s) /\ r # <<>> /\ r[1] = f
      /\ \A i \in 1 .. Len(s) : i # 1 => r[i] = s[i]
  <2>1. r = [s EXCEPT ![1] = f]
    BY DEF Moved
  <2> HIDE DEF f, r
  <2> QED BY <1>1, <1>2, <2>1
<1>4. \A i \in 1 .. Len(s) : r[i].task = s[i].task
  BY <1>1, <1>2, <1>3
<1>5. Family(r, par, n)
  <2> HIDE DEF r, f
  <2> QED BY <1>1, <1>3, <1>4 DEF Family
<1>6. Head(r) = f
  <2> HIDE DEF f, r
  <2> QED BY <1>3
<1> HIDE DEF f, r
<1> QED BY <1>2, <1>3, <1>5, <1>6 DEF r

\* So does an activation for a child of the task of the innermost one.
LEMMA PushedFamily ==
    ASSUME NEW s \in Seq(Frames), s # <<>>, NEW par, NEW n \in Nat,
           NEW g \in Frames, Family(s, par, n),
           g.task < n, g.task > Head(s).task, par[g.task] = Head(s).task
    PROVE  Family(<<g>> \o s, par, n)
<1> DEFINE r == <<g>> \o s
<1>1. /\ Head(s) \in Frames /\ s[1] = Head(s) /\ Len(s) \in Nat /\ Len(s) >= 1
      /\ \A i \in 1 .. Len(s) : s[i] \in Frames
  OBVIOUS
<1>2. /\ Len(r) = Len(s) + 1 /\ r[1] = g
      /\ \A i \in 1 .. Len(s) : r[i + 1] = s[i]
  OBVIOUS
<1>3. \A f \in Frames : f.task \in Int
  BY TasksAssumption DEF Frames
<1>4. \A i \in 1 .. Len(r) : r[i].task < n /\ r[i].task + i > Len(r)
  <2> SUFFICES ASSUME NEW i \in 1 .. Len(r)
               PROVE  r[i].task < n /\ r[i].task + i > Len(r)
    OBVIOUS
  <2>1. CASE i = 1
    <3>1. Head(s).task + 1 > Len(s) /\ Head(s).task \in Int /\ g.task \in Int
      BY <1>1, <1>3 DEF Family
    <3> HIDE DEF r
    <3> QED BY <1>1, <1>2, <2>1, <3>1
  <2>2. CASE i # 1
    <3>1. i - 1 \in 1 .. Len(s) /\ r[i] = s[i - 1]
      <4>1. i - 1 \in 1 .. Len(s) /\ (i - 1) + 1 = i
        BY <1>1, <1>2, <2>2
      <4> QED BY <1>2, <4>1
    <3>2. s[i - 1].task < n /\ s[i - 1].task + (i - 1) > Len(s) /\ s[i - 1].task \in Int
      BY <1>1, <1>3, <3>1 DEF Family
    <3> HIDE DEF r
    <3> QED BY <1>1, <1>2, <3>1, <3>2
  <2> QED BY <2>1, <2>2
<1>5. \A i \in 1 .. Len(r) - 1 : par[r[i].task] = r[i + 1].task
  <2> SUFFICES ASSUME NEW i \in 1 .. Len(r) - 1
               PROVE  par[r[i].task] = r[i + 1].task
    OBVIOUS
  <2>1. CASE i = 1
    BY <1>1, <1>2, <2>1
  <2>2. CASE i # 1
    <3>1. /\ i - 1 \in 1 .. Len(s) - 1 /\ r[i] = s[i - 1] /\ r[i + 1] = s[i]
          /\ (i - 1) + 1 = i
      <4>1. i - 1 \in 1 .. Len(s) - 1 /\ (i - 1) + 1 = i /\ i \in 1 .. Len(s)
        BY <1>1, <1>2, <2>2
      <4>2. i - 1 \in 1 .. Len(s)
        BY <1>1, <4>1
      <4> QED BY <1>2, <4>1, <4>2
    <3>2. par[s[i - 1].task] = s[(i - 1) + 1].task
      BY <3>1 DEF Family
    <3> HIDE DEF r
    <3> QED BY <3>1, <3>2
  <2> QED BY <2>1, <2>2
<1>6. \A i, j \in 1 .. Len(r) : i < j => r[j].task < r[i].task
  <2> SUFFICES ASSUME NEW i \in 1 .. Len(r), NEW j \in 1 .. Len(r), i < j
               PROVE  r[j].task < r[i].task
    OBVIOUS
  <2>1. j - 1 \in 1 .. Len(s) /\ r[j] = s[j - 1]
    <3>1. j - 1 \in 1 .. Len(s) /\ (j - 1) + 1 = j
      BY <1>1, <1>2
    <3> QED BY <1>2, <3>1
  <2>2. \A m \in 1 .. Len(s) : s[m].task <= Head(s).task
    BY <1>1, <1>3 DEF Family
  <2>3. CASE i = 1
    <3>1. s[j - 1].task <= Head(s).task /\ s[j - 1].task \in Int
          /\ Head(s).task \in Int /\ g.task \in Int
      BY <1>1, <1>3, <2>1, <2>2
    <3> HIDE DEF r
    <3> QED BY <1>2, <2>1, <2>3, <3>1
  <2>4. CASE i # 1
    <3>1. i - 1 \in 1 .. Len(s) /\ r[i] = s[i - 1] /\ i - 1 < j - 1
      <4>1. i - 1 \in 1 .. Len(s) /\ (i - 1) + 1 = i /\ i - 1 < j - 1
        BY <1>1, <1>2, <2>4
      <4> QED BY <1>2, <4>1
    <3> HIDE DEF r
    <3> QED BY <2>1, <3>1 DEF Family
  <2> QED BY <2>3, <2>4
<1> HIDE DEF r
<1> QED BY <1>4, <1>5, <1>6 DEF Family, r

\* And the end of the innermost one.
LEMMA PoppedFamily ==
    ASSUME NEW s \in Seq(Frames), s # <<>>, NEW par, NEW n, Family(s, par, n)
    PROVE  Family(Tail(s), par, n)
<1> DEFINE r == Tail(s)
<1>1. /\ Len(r) = Len(s) - 1 /\ Len(s) \in Nat /\ Len(s) >= 1
      /\ \A i \in 1 .. Len(r) : r[i] = s[i + 1] /\ i + 1 \in 1 .. Len(s)
  OBVIOUS
<1> USE FrameTasks
<1>2. \A i \in 1 .. Len(r) : r[i].task < n /\ r[i].task + i > Len(r)
  <2> SUFFICES ASSUME NEW i \in 1 .. Len(r)
               PROVE  r[i].task < n /\ r[i].task + i > Len(r)
    OBVIOUS
  <2>1. s[i + 1].task < n /\ s[i + 1].task + (i + 1) > Len(s)
    BY <1>1 DEF Family
  <2> HIDE DEF r
  <2> QED BY <1>1, <2>1
<1>3. \A i \in 1 .. Len(r) - 1 : par[r[i].task] = r[i + 1].task
  <2> SUFFICES ASSUME NEW i \in 1 .. Len(r) - 1
               PROVE  par[r[i].task] = r[i + 1].task
    OBVIOUS
  <2>1. i \in 1 .. Len(r) /\ i + 1 \in 1 .. Len(r) /\ i + 1 \in 1 .. Len(s) - 1
    BY <1>1
  <2>2. par[s[i + 1].task] = s[(i + 1) + 1].task
    BY <2>1 DEF Family
  <2> HIDE DEF r
  <2> QED BY <1>1, <2>1, <2>2
<1>4. \A i, j \in 1 .. Len(r) : i < j => r[j].task < r[i].task
  <2> SUFFICES ASSUME NEW i \in 1 .. Len(r), NEW j \in 1 .. Len(r), i < j
               PROVE  r[j].task < r[i].task
    OBVIOUS
  <2>1. i + 1 \in 1 .. Len(s) /\ j + 1 \in 1 .. Len(s) /\ i + 1 < j + 1
    BY <1>1
  <2>2. s[j + 1].task < s[i + 1].task
    BY <2>1 DEF Family
  <2> QED BY <1>1, <2>2
<1> HIDE DEF r
<1> QED BY <1>2, <1>3, <1>4 DEF Family, r

\* Creating task n changes nothing for a list of tasks that exist.
LEMMA GrownFamily ==
    ASSUME NEW s \in Seq(Frames), NEW par \in [Ids -> OptionalIds], NEW n \in Nat,
           NEW p, Family(s, par, n)
    PROVE  Family(s, [par EXCEPT ![n] = p], n + 1)
<1>1. /\ \A i \in 1 .. Len(s) : s[i].task \in Ids /\ s[i].task \in Int
      /\ Len(s) \in Nat
  BY FrameTasks
<1>2. \A i \in 1 .. Len(s) - 1 : i \in 1 .. Len(s)
  BY <1>1
<1> QED BY <1>1, <1>2 DEF Family

\* One activation is a family of its own.
LEMMA NewFamily ==
    ASSUME NEW f \in Frames, NEW par, NEW n, f.task < n, f.task # idle_thread_id
    PROVE  Family(<<f>>, par, n)
BY TasksAssumption DEF Family, Frames
-----------------------------------------------------------------------------
(* What a termination finds.                                               *)

\* The task found through `parent' is a child.
LEMMA ChildFound ==
    ASSUME TypeInv, NEW x \in Ids, NEW k, k = getchildthreadbyparent(x), k # None
    PROVE  k \in ThreadIds /\ parent[k] = x
<1> DEFINE S == {t \in ThreadIds : parent[t] = x}
<1>1. S \in SUBSET Nat /\ k = First(S)
  BY Scalars DEF getchildthreadbyparent
<1>2. k \in S
  <2> HIDE DEF S
  <2> QED BY <1>1, FirstIn
<1> QED BY <1>2

\* The task found through its parent's process id is a child too: the id names
\* one task only.
LEMMA KinFound ==
    ASSUME TypeInv, PidInv, NEW x \in Ids, NEW k, k = KinOf(x), k # None
    PROVE  k \in ThreadIds /\ parent[k] = x
<1> DEFINE S == {t \in ThreadIds : parent[t] # None /\ ParentPid(t) = pid[x]}
<1>1. S \in SUBSET Nat /\ k = First(S) /\ pid[x] # None
  BY Scalars DEF KinOf, getthreadidbyppid
<1>2. k \in S
  <2> HIDE DEF S
  <2> QED BY <1>1, FirstIn
<1>3. k \in ThreadIds /\ k \in Ids /\ parent[k] # None /\ ParentPid(k) = pid[x]
  BY <1>2, Scalars
<1>4. parent[k] \in Ids
  BY <1>3 DEF TypeInv, TypeOK, OptionalIds
<1>5. process_id[parent[k]] = process_id[x] /\ process_id[x] # None
  BY <1>1, <1>3, <1>4 DEF PidInv, ParentPid
<1> QED BY <1>3, <1>4, <1>5 DEF PidInv

-----------------------------------------------------------------------------
(* One step.                                                               *)

\* Filling the next slot with a younger child.
LEMMA CreateKeepsFamilies ==
    ASSUME TypeInv, CascadeInv, Create
    PROVE  CascadeInv'
<1> DEFINE n == thread_count
           c == current_thread
<1>1. /\ n \in Nat /\ n >= 1 /\ c \in Ids /\ c < n /\ c \in Nat
      /\ parent \in [Ids -> OptionalIds] /\ waiting \in [Ids -> OptionalIds]
      /\ frames \in [Ids -> Seq(Frames)]
  BY Scalars DEF TypeInv, TypeOK
<1> DEFINE Grows(p) ==
             /\ thread_count' = n + 1
             /\ parent' = [parent EXCEPT ![n] = p]
             /\ p # None => p < n
             /\ frames' = frames
             /\ \A t \in Ids : t # c => waiting'[t] = waiting[t]
<1>2. PICK p \in Int : Grows(p)
  <2> USE DEF FillSlot, callVars
  <2>1. Creator \in Int /\ (Creator # None => Creator < n)
    BY <1>1 DEF Creator
  <2>2. ASSUME NEW isProcess \in BOOLEAN, NEW blocked \in BOOLEAN,
               kernel_createthread(isProcess, blocked)
        PROVE  Grows(Creator)
    BY <2>1, <2>2 DEF kernel_createthread
  <2>3. CASE sys_fork_handler
    <3>1. Grows(c)
      BY <1>1, <2>3 DEF sys_fork_handler
    <3> HIDE DEF Grows
    <3> QED BY <1>1, <3>1
  <2>4. CASE execv_handler
    <3>1. Grows(Creator)
      BY <1>1, <2>1, <2>4 DEF execv_handler
    <3> QED BY <2>1, <3>1
  <2> HIDE DEF Grows
  <2> QED BY <2>1, <2>2, <2>3, <2>4 DEF Create
<1>3. ParentIsOlder'
  BY <1>1, <1>2 DEF ParentIsOlder, CascadeInv
<1>4. UnusedIsIdle'
  BY <1>1, <1>2 DEF UnusedIsIdle, CascadeInv
<1>5. \A t \in Ids : Family(frames[t], [parent EXCEPT ![n] = p], n + 1)
  BY <1>1, GrownFamily DEF CascadeInv
<1> QED BY <1>2, <1>3, <1>4, <1>5 DEF CascadeInv

\* Starting a termination.
LEMMA TerminateKeepsFamilies ==
    ASSUME TypeInv, CascadeInv, Terminate
    PROVE  CascadeInv'
<1> DEFINE c == current_thread
<1>1. /\ c \in Ids /\ c \in ThreadIds /\ frames \in [Ids -> Seq(Frames)]
      /\ thread_count \in Nat
  BY Scalars DEF TypeInv, TypeOK
<1>2. PICK x \in Ids, how \in Ways : Begin(x, how) /\ x < thread_count /\ x # 0
  BY <1>1, Scalars
     DEF Terminate, thread_tkill, ShellKill, task_return_trampoline, sys_exit_handler,
         pthread_exit, CanTerminate, valid_task_id, Ways
<1>3. /\ Activation(x, how) \in Frames /\ Activation(x, how).task = x
  BY DEF Activation, Frames, Stages
<1>4. /\ frames' = [frames EXCEPT ![c] = <<Activation(x, how)>>]
      /\ UNCHANGED <<thread_count, parent, waiting>>
  BY <1>2 DEF Begin, countVars, identVars, joinVars
<1>5. Family(<<Activation(x, how)>>, parent, thread_count)
  BY <1>2, <1>3, NewFamily
<1>6. \A t \in Ids : Family(frames'[t], parent, thread_count)
  BY <1>1, <1>4, <1>5 DEF CascadeInv
<1>7. UnusedIsIdle'
  BY <1>1, <1>4 DEF CascadeInv, UnusedIsIdle
<1> QED BY <1>4, <1>6, <1>7 DEF CascadeInv, ParentIsOlder

\* A step of a termination.
LEMMA DescendKeepsFamilies ==
    ASSUME TypeInv, PidInv, CascadeInv, NEW at \in Stages, NEW k,
           frames[current_thread] # <<>>, Descend(at, k),
           LET x == Head(frames[current_thread]).task
           IN  k = getchildthreadbyparent(x) \/ k = KinOf(x)
    PROVE  CascadeInv'
<1> DEFINE c == current_thread
           s == frames[c]
           x == Head(s).task
           r == Moved(s, at)
           g == Activation(k, ChildWay(Head(s).how))
<1>1. /\ c \in Ids /\ c < thread_count /\ frames \in [Ids -> Seq(Frames)]
      /\ thread_count \in Nat /\ s \in Seq(Frames) /\ s # <<>>
      /\ Family(s, parent, thread_count)
  <2>1. c \in Ids /\ c < thread_count /\ thread_count \in Nat
    BY Scalars
  <2>2. frames \in [Ids -> Seq(Frames)]
    BY DEF TypeInv, TypeOK
  <2> QED BY <2>1, <2>2 DEF CascadeInv
<1>2. /\ frames' = [frames EXCEPT ![c] =
                       IF k # None /\ CanTerminate(k) THEN <<g>> \o r ELSE r]
      /\ UNCHANGED <<thread_count, parent, waiting>>
  BY DEF Descend, countVars, identVars, joinVars, Moved
<1>3. /\ r \in Seq(Frames) /\ r # <<>> /\ Family(r, parent, thread_count)
      /\ Head(r).task = x
  BY <1>1, MovedFamily
<1>4. ASSUME k # None, CanTerminate(k)
      PROVE  Family(<<g>> \o r, parent, thread_count)
  <2>1. Head(s) \in Frames /\ x \in Ids
    <3>1. Head(s) \in Frames
      <4> HIDE DEF s
      <4> QED BY <1>1
    <3> QED BY <3>1 DEF Frames
  <2>2. k \in ThreadIds /\ k \in Ids /\ parent[k] = x
    BY <1>4, <2>1, ChildFound, KinFound, Scalars
  <2>3. g \in Frames /\ g.task = k
    BY <2>2 DEF Activation, Frames, Stages, Ways, ChildWay
  <2>4. k < thread_count /\ x < k
    BY <1>1, <2>1, <2>2 DEF CascadeInv, ParentIsOlder
  <2> HIDE DEF g, r, s, x
  <2> QED BY <1>1, <1>3, <2>2, <2>3, <2>4, PushedFamily
<1>5. \A t \in Ids : Family(frames'[t], parent, thread_count)
  <2> HIDE DEF g, r, s
  <2> QED BY <1>1, <1>2, <1>3, <1>4 DEF CascadeInv
<1>6. UnusedIsIdle'
  BY <1>1, <1>2 DEF CascadeInv, UnusedIsIdle
<1> HIDE DEF s, x, r, g
<1> QED BY <1>2, <1>5, <1>6 DEF CascadeInv, ParentIsOlder

\* The end of a task.
LEMMA LastKeepsFamilies ==
    ASSUME TypeInv, CascadeInv, TerminateLast
    PROVE  CascadeInv'
<1> DEFINE c == current_thread
           s == frames[c]
           f == [Head(s) EXCEPT !.at = "spin"]
<1>1. /\ c \in Ids /\ c < thread_count /\ frames \in [Ids -> Seq(Frames)]
      /\ s \in Seq(Frames) /\ s # <<>> /\ Family(s, parent, thread_count)
  <2>1. c \in Ids /\ c < thread_count /\ s # <<>>
    BY Scalars DEF TerminateLast, InFrame
  <2>2. frames \in [Ids -> Seq(Frames)]
    BY DEF TypeInv, TypeOK
  <2> QED BY <2>1, <2>2 DEF CascadeInv
<1>2. /\ UNCHANGED <<thread_count, parent, waiting>>
      /\ \/ frames' = [frames EXCEPT ![c] = <<f>>]
         \/ frames' = [frames EXCEPT ![c] = Tail(s)]
  BY DEF TerminateLast, countVars, joinVars
<1>3. Family(<<f>>, parent, thread_count)
  <2>1. Head(s) \in Frames /\ Head(s) = s[1] /\ Len(s) \in Nat /\ Len(s) >= 1
    BY <1>1
  <2>2. f \in Frames /\ f.task = s[1].task /\ f.task \in Int
    BY <2>1, TasksAssumption DEF Frames, Stages
  <2>3. f.task < thread_count /\ f.task # 0
    BY <1>1, <2>1, <2>2 DEF Family
  <2> HIDE DEF f
  <2> QED BY <2>2, <2>3, NewFamily
<1>4. Family(Tail(s), parent, thread_count)
  BY <1>1, PoppedFamily
<1>5. \A t \in Ids : Family(frames'[t], parent, thread_count)
  <2> HIDE DEF f, s
  <2> QED BY <1>1, <1>2, <1>3, <1>4 DEF CascadeInv
<1>6. UnusedIsIdle'
  BY <1>1, <1>2 DEF CascadeInv, UnusedIsIdle
<1> HIDE DEF f, s
<1> QED BY <1>2, <1>5, <1>6 DEF CascadeInv, ParentIsOlder

\* The other steps leave the terminations alone; a task that waits is in the
\* table.
LEMMA OthersKeepFamilies ==
    ASSUME TypeInv, CascadeInv,
           UNCHANGED vars \/ Join \/ Control \/ JoinReturns \/ timer_handler
    PROVE  CascadeInv'
<1>1. /\ current_thread \in Ids /\ current_thread < thread_count
      /\ waiting \in [Ids -> OptionalIds] /\ thread_count \in Nat
  BY Scalars DEF TypeInv, TypeOK
<1>2. UNCHANGED <<thread_count, parent, frames>>
  BY DEF vars, Join, pthread_join, waitpid_handler, pthread_join2, JoinEnded,
         JoinBlocks, Control, set_task_priority, task_ready, task_yield, task_block,
         task_sleep, UnchangedByCall, JoinReturns, timer_handler, countVars,
         identVars, callVars
<1>3. \A t \in Ids : t # current_thread => waiting'[t] = waiting[t]
  BY <1>1 DEF vars, Join, pthread_join, waitpid_handler, pthread_join2, JoinEnded,
         JoinBlocks, Control, set_task_priority, task_ready, task_yield, task_block,
         task_sleep, UnchangedByCall, JoinReturns, timer_handler, joinVars
<1> QED BY <1>1, <1>2, <1>3 DEF CascadeInv, ParentIsOlder, UnusedIsIdle

LEMMA CascadeStep == ASSUME TypeInv, PidInv, CascadeInv, [Next]_vars PROVE CascadeInv'
<1>1. ASSUME TerminateKids \/ TerminateKin PROVE CascadeInv'
  BY <1>1, DescendKeepsFamilies DEF TerminateKids, TerminateKin, InFrame, Stages
<1> QED
  BY <1>1, CreateKeepsFamilies, TerminateKeepsFamilies, LastKeepsFamilies,
     OthersKeepFamilies DEF Next, Inside

LEMMA CascadeInvariant == Spec => []CascadeInv
<1>1. Init => CascadeInv
  <2> SUFFICES ASSUME Init PROVE CascadeInv
    OBVIOUS
  <2>1. \A t \in Ids : parent[t] = None /\ waiting[t] = None /\ frames[t] = <<>>
    BY DEF Init
  <2>2. Family(<<>>, parent, thread_count)
    BY DEF Family
  <2> QED BY <2>1, <2>2 DEF CascadeInv, ParentIsOlder, UnusedIsIdle
<1>2. TypeInv /\ PidInv /\ CascadeInv /\ [Next]_vars => CascadeInv'
  BY CascadeStep
<1> QED BY <1>1, <1>2, TypeInvariant, PidInvariant, PTL DEF Spec

\* A termination ends descendants of its task only, and its recursion on the
\* kernel stack is never deeper than the number of tasks, for every number of
\* tasks and whatever runs between two of its steps.
THEOREM CascadesAreBounded == Spec => []CascadeIsBounded
<1>1. TypeInv /\ CascadeInv => CascadeIsBounded
  <2> SUFFICES ASSUME TypeInv, CascadeInv PROVE CascadeIsBounded
    OBVIOUS
  <2>1. \A t \in ThreadIds : t \in Ids /\ frames[t] \in Seq(Frames)
    BY Scalars DEF TypeInv, TypeOK
  <2>2. CascadeStaysInFamily
    BY <2>1 DEF CascadeInv, CascadeStaysInFamily, Family
  <2>3. ASSUME NEW t \in ThreadIds PROVE Len(frames[t]) <= thread_count
    <3> DEFINE s == frames[t]
    <3>1. Len(s) \in Nat /\ \A i \in 1 .. Len(s) : s[i].task \in Int
      BY <2>1, FrameTasks
    <3>2. CASE Len(s) = 0
      BY <3>2, Scalars
    <3>3. CASE Len(s) # 0
      <4>1. 1 \in 1 .. Len(s)
        BY <3>1, <3>3
      <4>2. s[1].task < thread_count /\ s[1].task + 1 > Len(s)
        BY <2>1, <4>1 DEF CascadeInv, Family
      <4> HIDE DEF s
      <4> QED BY <3>1, <4>1, <4>2, Scalars DEF s
    <3> QED BY <3>2, <3>3
  <2> QED BY <2>2, <2>3 DEF CascadeIsBounded, CascadeDepthBounded
<1> QED BY <1>1, TypeInvariant, CascadeInvariant, PTL

-----------------------------------------------------------------------------
(* The timer interrupt.                                                    *)

\* The states once scheduler_tick has made the sleepers ready that are due.
Awake == [t \in Ids |-> IF t \in Due(TickAdd(timertick, 1)) THEN "READY"
                                                            ELSE state[t]]

\* The task keeps the processor, or another one of the table is dispatched.
Keeps == /\ Awake[current_thread] = "RUNNING"
         /\ state' = Awake
         /\ UNCHANGED <<current_thread, current_process>>

Switches(t) == /\ Descheduled(Awake)[t] = "READY" \/ t = idle_thread_id
               /\ state' = [Descheduled(Awake) EXCEPT ![t] = "RUNNING"]
               /\ current_thread' = t
               /\ current_process' = pid[t]

LEMMA TimerSteps ==
    ASSUME TypeInv, timer_handler
    PROVE  /\ timertick' = TickAdd(timertick, 1)
           /\ UNCHANGED <<countVars, identVars, joinVars, callVars, module_stack_top,
                          priority, wake_tick>>
           /\ Keeps \/ \E t \in ThreadIds : Switches(t)
<1> DEFINE c == current_thread
           q == [t \in Ids |-> IF t \in Due(TickAdd(timertick, 1))
                                 THEN Quantum(priority[t]) ELSE quantum_left[t]]
           q1 == IF Awake[c] = "RUNNING" THEN [q EXCEPT ![c] = 0] ELSE q
           next == find_next_ready(c, Descheduled(Awake))
<1>1. /\ timertick' = TickAdd(timertick, 1)
      /\ schedule(Awake, q)
      /\ UNCHANGED <<countVars, identVars, joinVars, callVars, module_stack_top,
                     priority, wake_tick>>
  BY DEF timer_handler, Awake
<1>2. thread_count \in Nat /\ c \in ThreadIds /\ 0 \in ThreadIds
  BY Scalars
<1>3. next # None => next \in ThreadIds /\ Descheduled(Awake)[next] = "READY"
  BY <1>2, NextReadyIn
<1>4. ASSUME NEW t \in ThreadIds, Dispatch(t, Descheduled(Awake), q1),
             Descheduled(Awake)[t] = "READY" \/ t = 0
      PROVE  \E u \in ThreadIds : Switches(u)
  BY <1>4 DEF Dispatch, Switches
<1>5. \/ Awake[c] = "RUNNING" /\ state' = Awake
         /\ UNCHANGED <<current_thread, current_process>>
      \/ next # None /\ Dispatch(next, Descheduled(Awake), q1)
      \/ Dispatch(0, Descheduled(Awake), q1)
  <2> HIDE DEF q
  <2> QED BY <1>1 DEF schedule
<1> HIDE DEF next, q1, q
<1> QED BY <1>1, <1>2, <1>3, <1>4, <1>5 DEF Keeps

\* What a tick makes of the states: only a sleeper or the task that had the
\* processor gets another one, but for the task that is dispatched.
LEMMA AwakeStates ==
    ASSUME TypeInv
    PROVE  /\ Awake \in [Ids -> States]
           /\ Descheduled(Awake) \in [Ids -> States]
           /\ \A t \in Ids : /\ Awake[t] # state[t] =>
                                  state[t] = "SLEEP" /\ Awake[t] = "READY"
                             /\ Descheduled(Awake)[t] =
                                  IF t = current_thread /\ Awake[t] = "RUNNING"
                                    THEN "READY" ELSE Awake[t]
<1>1. state \in [Ids -> States] /\ current_thread \in Ids
  BY Scalars DEF TypeInv, TypeOK
<1>2. Awake \in [Ids -> States]
  BY <1>1 DEF Awake, States
<1>3. \A t \in Ids : Awake[t] # state[t] => state[t] = "SLEEP" /\ Awake[t] = "READY"
  BY DEF Awake, Due
<1> QED BY <1>1, <1>2, <1>3 DEF Descheduled, States

-----------------------------------------------------------------------------
(* Who executes.                                                           *)

\* Only created tasks are ended: the list of a termination holds no idle task.
LEMMA EndedIsCreated ==
    ASSUME TypeInv, CascadeInv, InFrame("last")
    PROVE  LET x == Head(frames[current_thread]).task
           IN  x \in Ids /\ x \in ThreadIds /\ x # idle_thread_id
<1> DEFINE s == frames[current_thread]
<1>1. current_thread \in Ids /\ s # <<>>
  BY Scalars DEF InFrame
<1>2. s \in Seq(Frames)
  BY <1>1 DEF TypeInv, TypeOK
<1>3. Len(s) \in Nat /\ 1 \in 1 .. Len(s) /\ Head(s) = s[1]
  <2> HIDE DEF s
  <2> QED BY <1>1, <1>2
<1>4. s[1].task \in Ids /\ s[1].task \in Int
  BY <1>2, <1>3, FrameTasks
<1>5. s[1].task < thread_count /\ s[1].task + 1 > Len(s)
  BY <1>1, <1>3 DEF CascadeInv, Family
<1> HIDE DEF s
<1> QED BY <1>3, <1>4, <1>5, Scalars DEF s

\* Nothing but the timer changes who has the processor.
LEMMA CallsKeepProcessor ==
    ASSUME Create \/ Join \/ Terminate \/ Control \/ Inside \/ UNCHANGED vars
    PROVE  UNCHANGED <<current_thread, current_process, timertick>>
<1> USE DEF cpuVars
<1>1. CASE Create
  BY <1>1 DEF Create, kernel_createthread, sys_fork_handler, execv_handler, FillSlot
<1>2. CASE Join
  BY <1>2 DEF Join, pthread_join, waitpid_handler, pthread_join2, JoinEnded, JoinBlocks
<1>3. CASE Terminate
  BY <1>3 DEF Terminate, thread_tkill, ShellKill, task_return_trampoline,
              sys_exit_handler, pthread_exit, Begin
<1>4. CASE Control
  BY <1>4 DEF Control, set_task_priority, task_ready, task_yield, task_block,
              task_sleep, UnchangedByCall
<1>5. CASE Inside
  BY <1>5 DEF Inside, JoinReturns, TerminateKids, TerminateKin, Descend, TerminateLast
<1>6. CASE UNCHANGED vars
  BY <1>6 DEF vars
<1> QED BY <1>1, <1>2, <1>3, <1>4, <1>5, <1>6

\* What a call may make of the state of a task: a new task is ready or blocked,
\* the caller stops, and another one is made ready, blocked or ended.  The idle
\* task is not ended and does not sleep.
StateChange(t) ==
    \/ state'[t] = state[t]
    \/ /\ t = thread_count /\ t \notin ThreadIds
       /\ state'[t] \in {"READY", "BLOCK"}
    \/ t \in ThreadIds /\ t # idle_thread_id /\ state'[t] = "TERMINATE"
    \/ /\ t = current_thread /\ t # idle_thread_id
       /\ state[t] \in {"READY", "RUNNING"} /\ state'[t] = "SLEEP"
    \/ t \in ThreadIds /\ state'[t] = "BLOCK"
    \/ t \in ThreadIds /\ state[t] # "TERMINATE" /\ state'[t] = "READY"

LEMMA CallStates ==
    ASSUME TypeInv, CascadeInv,
           Create \/ Join \/ Terminate \/ Control \/ Inside \/ UNCHANGED vars
    PROVE  \A t \in Ids : StateChange(t)
<1> DEFINE c == current_thread
           n == thread_count
<1>1. /\ state \in [Ids -> States] /\ c \in Ids /\ c \in ThreadIds
      /\ thread_count \in Nat /\ ThreadIds \subseteq Ids
      /\ n \notin ThreadIds
  BY Scalars DEF TypeInv, TypeOK
<1>2. CASE Create
  BY <1>1, <1>2 DEF Create, kernel_createthread, sys_fork_handler, execv_handler,
                    StateChange, Free, Executing
<1>3. CASE Join
  BY <1>1, <1>3 DEF Join, pthread_join, waitpid_handler, pthread_join2, JoinEnded,
                    JoinBlocks, StateChange
<1>4. CASE Terminate \/ UNCHANGED vars
  BY <1>4 DEF Terminate, thread_tkill, ShellKill, task_return_trampoline,
              sys_exit_handler, pthread_exit, Begin, vars, StateChange
<1>5. CASE Control
  <2> USE DEF StateChange
  <2>1. ASSUME NEW x \in ThreadIds, NEW value, set_task_priority(x, value)
        PROVE  \A t \in Ids : StateChange(t)
    BY <2>1 DEF set_task_priority
  <2>2. ASSUME NEW x \in ThreadIds, task_ready(x) \/ task_yield(x) \/ task_block(x)
        PROVE  \A t \in Ids : StateChange(t)
    BY <1>1, <2>2 DEF task_ready, task_yield, task_block
  <2>3. ASSUME NEW m, NEW unit, task_sleep(m, unit)
        PROVE  \A t \in Ids : StateChange(t)
    BY <1>1, <2>3 DEF task_sleep, Free, Executing
  <2> HIDE DEF StateChange
  <2> QED BY <1>1, <1>5, <2>1, <2>2, <2>3 DEF Control
<1>6. CASE JoinReturns \/ TerminateKids \/ TerminateKin
  BY <1>6 DEF JoinReturns, TerminateKids, TerminateKin, Descend, StateChange
<1>7. CASE TerminateLast
  <2> DEFINE x == Head(frames[c]).task
  <2>1. x \in ThreadIds /\ x # 0
    BY <1>7, EndedIsCreated DEF TerminateLast
  <2>2. \A t \in Ids : state'[t] = IF t = x THEN "TERMINATE"
                                   ELSE IF t \in Woken(x) THEN "READY" ELSE state[t]
    BY <1>7 DEF TerminateLast
  <2>3. \A t \in Woken(x) : t \in ThreadIds /\ state[t] # "TERMINATE"
    BY DEF Woken
  <2> HIDE DEF x
  <2> QED BY <2>1, <2>2, <2>3 DEF StateChange
<1> QED BY <1>2, <1>3, <1>4, <1>5, <1>6, <1>7 DEF Inside

\* A call is made by a task that executes, and it keeps the pid of its caller
\* unless it ends it.
LEMMA CallsAreExecuted ==
    ASSUME TypeInv, Create \/ Join \/ Terminate \/ Control \/ Inside
    PROVE  /\ Executing
           /\ \/ pid'[current_thread] = pid[current_thread]
              \/ state'[current_thread] = "TERMINATE"
<1> DEFINE c == current_thread
<1>1. Executing
  BY DEF Create, kernel_createthread, sys_fork_handler, execv_handler, Join,
         pthread_join, waitpid_handler, pthread_join2, JoinEnded, JoinBlocks,
         Terminate, thread_tkill, ShellKill, task_return_trampoline,
         sys_exit_handler, pthread_exit, Begin, Control, set_task_priority,
         task_ready, task_yield, task_block, task_sleep, Inside, JoinReturns,
         TerminateKids, TerminateKin, TerminateLast, InFrame, Free
<1>2. /\ pid \in [Ids -> OptionalIds] /\ c \in Ids /\ c < thread_count
      /\ thread_count \in Nat /\ c \in Nat
  BY Scalars DEF TypeInv, TypeOK
<1>3. \/ UNCHANGED <<countVars, identVars>>
      \/ \E isProcess \in BOOLEAN : \E par, prio, wake :
            FillSlot(thread_count, isProcess, par, prio, wake)
      \/ TerminateLast
  BY IdentSteps DEF Next
<1>4. CASE UNCHANGED <<countVars, identVars>>
  BY <1>1, <1>4 DEF identVars
<1>5. ASSUME NEW isProcess, NEW par, NEW prio, NEW wake,
             FillSlot(thread_count, isProcess, par, prio, wake)
      PROVE  pid'[c] = pid[c]
  BY <1>2, <1>5 DEF FillSlot
<1>6. CASE TerminateLast
  <2> DEFINE f == Head(frames[c])
  <2>1. /\ pid' = IF f.how = "kill" THEN [pid EXCEPT ![f.task] = None] ELSE pid
        /\ state' = [t \in Ids |-> IF t = f.task THEN "TERMINATE"
                                   ELSE IF t \in Woken(f.task) THEN "READY"
                                   ELSE state[t]]
    BY <1>6 DEF TerminateLast
  <2> HIDE DEF f
  <2> QED BY <1>1, <1>2, <2>1
<1> QED BY <1>1, <1>3, <1>4, <1>5, <1>6

\* The table calls RUNNING no task but the current one, not even outside the
\* slots in use; that task knows its pid; and the idle task can run.
DispatchInv ==
    /\ \A t \in Ids : state[t] = "RUNNING" => t = current_thread
    /\ CurrentProcessIsOwn
    /\ IdleCanRun

LEMMA DispatchStep ==
    ASSUME TypeInv, CascadeInv, DispatchInv, [Next]_vars
    PROVE  DispatchInv'
<1> USE DEF DispatchInv
<1> DEFINE c == current_thread
<1>1. /\ state \in [Ids -> States] /\ c \in Ids /\ ThreadIds \subseteq Ids
      /\ 0 \in ThreadIds /\ 0 # thread_count
  BY Scalars DEF TypeInv, TypeOK
<1>2. CASE UNCHANGED vars
  BY <1>2 DEF vars, CurrentProcessIsOwn, Executing, IdleCanRun
<1>3. CASE Create \/ Join \/ Terminate \/ Control \/ Inside
  <2>1. UNCHANGED <<current_thread, current_process>>
    BY <1>3, CallsKeepProcessor
  <2>2. \A t \in Ids : StateChange(t)
    BY <1>3, CallStates
  <2>3. \A t \in Ids : state'[t] = "RUNNING" => t = current_thread'
    BY <2>1, <2>2 DEF StateChange
  <2>4. IdleCanRun'
    BY <1>1, <2>2 DEF StateChange, IdleCanRun
  <2>5. CurrentProcessIsOwn'
    <3>1. Executing /\ (pid'[c] = pid[c] \/ state'[c] = "TERMINATE")
      BY <1>3, CallsAreExecuted
    <3> QED BY <2>1, <3>1 DEF CurrentProcessIsOwn, Executing
  <2> QED BY <2>3, <2>4, <2>5
<1>4. CASE timer_handler
  <2>1. /\ pid' = pid
        /\ Keeps \/ \E t \in ThreadIds : Switches(t)
    BY <1>4, TimerSteps DEF identVars
  <2>2. /\ Awake \in [Ids -> States] /\ Descheduled(Awake) \in [Ids -> States]
        /\ \A t \in Ids : /\ Awake[t] # state[t] =>
                              state[t] = "SLEEP" /\ Awake[t] = "READY"
                         /\ Descheduled(Awake)[t] =
                              IF t = c /\ Awake[t] = "RUNNING"
                                THEN "READY" ELSE Awake[t]
    BY AwakeStates
  <2>3. CASE Keeps
    BY <1>1, <2>1, <2>2, <2>3 DEF Keeps, CurrentProcessIsOwn, Executing, IdleCanRun
  <2>4. ASSUME NEW t \in ThreadIds, Switches(t) PROVE DispatchInv'
    <3>1. /\ state' = [Descheduled(Awake) EXCEPT ![t] = "RUNNING"]
          /\ current_thread' = t /\ current_process' = pid[t] /\ t \in Ids
      BY <1>1, <2>4 DEF Switches
    <3>2. \A u \in Ids : state'[u] = "RUNNING" => u = t
      BY <2>2, <3>1
    <3>3. IdleCanRun'
      BY <1>1, <2>2, <3>1 DEF IdleCanRun
    <3> QED BY <2>1, <3>1, <3>2, <3>3 DEF CurrentProcessIsOwn
  <2> QED BY <2>1, <2>3, <2>4
<1> QED BY <1>2, <1>3, <1>4 DEF Next

LEMMA DispatchInvariant == Spec => []DispatchInv
<1>1. Init => DispatchInv
  <2>1. 0 \in Ids
    BY TasksAssumption
  <2> QED BY <2>1 DEF Init, DispatchInv, CurrentProcessIsOwn, Executing, IdleCanRun
<1>2. TypeInv /\ CascadeInv /\ DispatchInv /\ [Next]_vars => DispatchInv'
  BY DispatchStep
<1> QED BY <1>1, <1>2, TypeInvariant, CascadeInvariant, PTL DEF Spec

\* The table, the processor and the pid fork trusts agree on who executes, and
\* the idle task is there for the processor when nobody else is ready, for every
\* number of tasks and every set of calls.
THEOREM DispatchIsAlwaysSound == Spec => []DispatchIsSound
<1>1. TypeInv /\ DispatchInv => DispatchIsSound
  BY Scalars DEF DispatchInv, DispatchIsSound, OnlyCurrentRuns
<1> QED BY <1>1, TypeInvariant, DispatchInvariant, PTL

\* No wake-up, tick or scheduling call makes a task that has ended ready: only
\* task_block, which does not look, takes it out of TERMINATE.
THEOREM EndedStaysEnded == Spec => OnlyBlockRevives
<1> DEFINE Stays == \A t \in ThreadIds : state[t] = "TERMINATE" =>
                       state'[t] \in {"TERMINATE", "BLOCK"}
<1>1. ASSUME TypeInv, CascadeInv, DispatchInv, [Next]_vars PROVE Stays
  <2>1. /\ ThreadIds \subseteq Ids /\ state \in [Ids -> States]
        /\ 0 \in ThreadIds /\ current_thread \in Ids
    BY <1>1, Scalars DEF TypeInv, TypeOK
  <2>2. CASE Create \/ Join \/ Terminate \/ Control \/ Inside \/ UNCHANGED vars
    BY <1>1, <2>1, <2>2, CallStates DEF StateChange
  <2>3. CASE timer_handler
    <3>1. Keeps \/ \E t \in ThreadIds : Switches(t)
      BY <1>1, <2>3, TimerSteps
    <3>2. /\ Awake \in [Ids -> States] /\ Descheduled(Awake) \in [Ids -> States]
          /\ \A t \in Ids : state[t] = "TERMINATE" =>
                Awake[t] = "TERMINATE" /\ Descheduled(Awake)[t] = "TERMINATE"
      BY <1>1, AwakeStates
    <3>3. state[0] # "TERMINATE"
      BY <1>1 DEF DispatchInv, IdleCanRun
    <3> QED BY <2>1, <3>1, <3>2, <3>3 DEF Keeps, Switches
  <2> QED BY <1>1, <2>2, <2>3 DEF Next
<1>2. TypeInv /\ CascadeInv /\ DispatchInv /\ [Next]_vars => [Stays]_vars
  BY <1>1
<1> QED
  BY <1>2, TypeInvariant, CascadeInvariant, DispatchInvariant, PTL
     DEF Spec, OnlyBlockRevives
-----------------------------------------------------------------------------
(* Joining.                                                                *)

\* What a task waits for is in the table and has the task as its joiner.
JoinInv ==
    \A t \in Ids : waiting[t] # None => /\ waiting[t] \in ThreadIds
                                        /\ joiner_id[waiting[t]] = t

LEMMA JoinStep ==
    ASSUME TypeInv, CascadeInv, JoinInv, [Next]_vars
    PROVE  JoinInv'
<1> USE DEF JoinInv
<1> DEFINE c == current_thread
           n == thread_count
<1>1. /\ waiting \in [Ids -> OptionalIds] /\ joiner_id \in [Ids -> OptionalIds]
      /\ c \in Ids /\ c \in ThreadIds /\ c < n /\ n \in Nat /\ MaxTasks \in Nat
      /\ ThreadIds \subseteq Ids
  BY Scalars DEF TypeInv, TypeOK
<1>2. \A t \in Ids : t >= n => waiting[t] = None
  BY DEF CascadeInv, UnusedIsIdle
<1>3. CASE UNCHANGED <<thread_count, waiting, joiner_id>>
  BY <1>3
<1>4. CASE Create
  <2>1. ASSUME n < MaxTasks, thread_count' = n + 1,
               joiner_id' = [joiner_id EXCEPT ![n] = None], UNCHANGED waiting
        PROVE  JoinInv'
    BY <1>1, <2>1
  <2>2. CASE execv_handler
    <3>1. /\ n < MaxTasks /\ thread_count' = n + 1
          /\ joiner_id' = [joiner_id EXCEPT ![n] = c]
          /\ waiting' = [waiting EXCEPT ![c] = n]
      BY <2>2 DEF execv_handler, FillSlot
    <3>2. waiting[c] = None
      BY <2>2 DEF execv_handler, Free
    <3> QED BY <1>1, <3>1, <3>2
  <2> QED BY <1>4, <2>1, <2>2 DEF Create, kernel_createthread, sys_fork_handler, FillSlot
<1>5. CASE Join
  <2>1. ASSUME NEW x \in ThreadIds, JoinBlocks(x) PROVE JoinInv'
    <3>1. /\ joiner_id' = [joiner_id EXCEPT ![x] = c]
          /\ waiting' = [waiting EXCEPT ![c] = x]
          /\ thread_count' = n /\ joiner_id[x] < 0
      BY <2>1 DEF JoinBlocks, Joinable, countVars
    <3>2. \A t \in Ids : waiting[t] # x
      BY <1>1, <3>1
    <3> QED BY <1>1, <3>1, <3>2
  <2>2. ASSUME NEW x \in ThreadIds, JoinEnded(x) PROVE JoinInv'
    BY <2>2 DEF JoinEnded, countVars
  <2> QED BY <1>5, <2>1, <2>2 DEF Join, pthread_join, waitpid_handler, pthread_join2,
                                valid_task_id
<1>6. CASE JoinReturns
  BY <1>1, <1>6 DEF JoinReturns, countVars
<1>7. CASE UNCHANGED vars \/ Terminate
  BY <1>3, <1>7 DEF vars, Terminate, thread_tkill, ShellKill, task_return_trampoline,
     sys_exit_handler, pthread_exit, Begin, countVars, joinVars
<1>8. CASE Control \/ timer_handler
  BY <1>3, <1>8 DEF Control, set_task_priority, task_ready, task_yield, task_block,
     task_sleep, UnchangedByCall, timer_handler, countVars, joinVars
<1>9. CASE TerminateKids \/ TerminateKin \/ TerminateLast
  BY <1>3, <1>9 DEF TerminateKids, TerminateKin, Descend, TerminateLast, countVars, joinVars
<1> QED BY <1>4, <1>5, <1>6, <1>7, <1>8, <1>9 DEF Next, Inside

LEMMA JoinInvariant == Spec => []JoinInv
<1>1. Init => JoinInv
  BY DEF Init, JoinInv
<1>2. TypeInv /\ CascadeInv /\ JoinInv /\ [Next]_vars => JoinInv'
  BY JoinStep
<1> QED BY <1>1, <1>2, TypeInvariant, CascadeInvariant, PTL DEF Spec

\* Two tasks never wait for the same target, and a target keeps its joiner,
\* whatever the other tasks call in the meantime.
THEOREM JoinersAreRegistered == Spec => []JoinerIsRegistered
<1>1. TypeInv /\ JoinInv => JoinerIsRegistered
  BY Scalars DEF JoinInv, JoinerIsRegistered
<1> QED BY <1>1, TypeInvariant, JoinInvariant, PTL

\* A joiner that is blocked waits for a task that has not ended.
NoneLost ==
    \A t \in Ids : waiting[t] # None /\ state[t] = "BLOCK"
                     => state[waiting[t]] # "TERMINATE"

LEMMA NoneLostStep ==
    ASSUME "block" \notin Calls, TypeInv, CascadeInv, JoinInv, NoneLost,
           [Next]_vars
    PROVE  NoneLost'
<1> USE DEF NoneLost
<1> DEFINE c == current_thread
           n == thread_count
<1>1. /\ waiting \in [Ids -> OptionalIds] /\ state \in [Ids -> States]
      /\ c \in Ids /\ c \in ThreadIds /\ n \in Nat /\ ThreadIds \subseteq Ids
      /\ n \notin ThreadIds /\ MaxTasks \in Nat
  BY Scalars DEF TypeInv, TypeOK
<1>2. \A t \in Ids : waiting[t] # None => waiting[t] \in ThreadIds /\ t # n
  BY <1>1 DEF CascadeInv, UnusedIsIdle, JoinInv
<1>3. CASE UNCHANGED <<state, waiting>>
  BY <1>3
<1>4. CASE Create
  <2>1. ASSUME UNCHANGED waiting, NEW s, state' = [state EXCEPT ![n] = s]
        PROVE  NoneLost'
    BY <1>1, <1>2, <2>1
  <2>2. CASE execv_handler
    <3>1. /\ n < MaxTasks
          /\ state' = [state EXCEPT ![n] = "READY", ![c] = "BLOCK"]
          /\ waiting' = [waiting EXCEPT ![c] = n]
      BY <2>2 DEF execv_handler, FillSlot
    <3> QED BY <1>1, <1>2, <3>1
  <2> QED BY <1>4, <2>1, <2>2 DEF Create, kernel_createthread, sys_fork_handler
<1>5. CASE Join
  <2>1. ASSUME NEW x \in ThreadIds, JoinBlocks(x) PROVE NoneLost'
    BY <1>1, <1>2, <2>1 DEF JoinBlocks
  <2>2. ASSUME NEW x \in ThreadIds, JoinEnded(x) PROVE NoneLost'
    BY <2>2 DEF JoinEnded
  <2> QED BY <1>5, <2>1, <2>2 DEF Join, pthread_join, waitpid_handler, pthread_join2,
                                valid_task_id
<1>6. CASE Control
  <2>1. ASSUME NEW x \in ThreadIds, task_ready(x) \/ task_yield(x) PROVE NoneLost'
    BY <1>1, <1>2, <2>1 DEF task_ready, task_yield, UnchangedByCall, joinVars
  <2>2. CASE task_block(c)
    BY <1>1, <1>2, <2>2 DEF task_block, Free, UnchangedByCall, joinVars
  <2>3. ASSUME NEW m, NEW unit, task_sleep(m, unit) PROVE NoneLost'
    BY <1>1, <1>2, <2>3 DEF task_sleep, UnchangedByCall, joinVars
  <2>4. ASSUME NEW x, NEW value, set_task_priority(x, value) PROVE NoneLost'
    BY <2>4 DEF set_task_priority, UnchangedByCall, joinVars
  <2> QED BY <1>6, <2>1, <2>2, <2>3, <2>4 DEF Control
<1>7. CASE TerminateLast
  <2> DEFINE x == Head(frames[c]).task
  <2>1. /\ waiting' = waiting
        /\ state' = [t \in Ids |-> IF t = x THEN "TERMINATE"
                                   ELSE IF t \in Woken(x) THEN "READY" ELSE state[t]]
    BY <1>7 DEF TerminateLast, joinVars
  <2>2. \A t \in ThreadIds : t = joiner_id[x] /\ state[t] = "BLOCK" => t \in Woken(x)
    BY DEF Woken
  <2>3. \A t \in Ids : waiting[t] # None => t \in ThreadIds /\ joiner_id[waiting[t]] = t
    BY <1>1 DEF CascadeInv, UnusedIsIdle, JoinInv
  <2> HIDE DEF x
  <2> QED BY <1>1, <1>2, <2>1, <2>2, <2>3
<1>8. CASE timer_handler
  <2>1. /\ waiting' = waiting
        /\ Keeps \/ \E t \in ThreadIds : Switches(t)
    BY <1>8, TimerSteps DEF joinVars
  <2>2. /\ Awake \in [Ids -> States] /\ Descheduled(Awake) \in [Ids -> States]
        /\ \A t \in Ids :
              /\ Awake[t] \in {"BLOCK", "TERMINATE"} => state[t] = Awake[t]
              /\ Descheduled(Awake)[t] \in {"BLOCK", "TERMINATE"} =>
                    state[t] = Descheduled(Awake)[t]
    BY AwakeStates
  <2>3. \A t \in Ids : state'[t] \in {"BLOCK", "TERMINATE"} => state[t] = state'[t]
    BY <1>1, <2>1, <2>2 DEF Keeps, Switches
  <2> QED BY <1>1, <1>2, <2>1, <2>3
<1>9. CASE UNCHANGED vars \/ Terminate \/ TerminateKids \/ TerminateKin
  BY <1>3, <1>9 DEF vars, Terminate, thread_tkill, ShellKill, task_return_trampoline,
     sys_exit_handler, pthread_exit, Begin, TerminateKids, TerminateKin, Descend, joinVars
<1>10. CASE JoinReturns
  BY <1>1, <1>2, <1>10 DEF JoinReturns
<1> QED BY <1>4, <1>5, <1>6, <1>7, <1>8, <1>9, <1>10 DEF Next, Inside

\* A task in a join has a target that knows it, and the target has not ended
\* while the task is blocked: each of the ways a task ends wakes its joiner.
\* task_block of another task is left out: it blocks a joiner again that was
\* woken and has not yet looked.
THEOREM JoinsAreAlwaysKept ==
    ASSUME "block" \notin Calls
    PROVE  Spec => []JoinsAreKept
<1>1. Init => NoneLost
  BY DEF Init, NoneLost
<1>2. TypeInv /\ CascadeInv /\ JoinInv /\ NoneLost /\ [Next]_vars
        => NoneLost'
  BY NoneLostStep
<1>3. TypeInv /\ JoinInv /\ NoneLost => JoinsAreKept
  BY Scalars DEF JoinInv, NoneLost, JoinsAreKept, JoinerIsRegistered, NoLostJoin
<1> QED BY <1>1, <1>2, <1>3, TypeInvariant, CascadeInvariant, JoinInvariant,
           PTL DEF Spec

-----------------------------------------------------------------------------
(* Sleeping.                                                               *)

\* Ticks after `now' until the counter shows w.
Ahead(w, now) == (w - now) % TickMod

LEMMA Modulus == TickMod \in Nat /\ TickMod >= 2 /\ 2 * (TickMod \div 2) = TickMod
BY TicksAssumption

\* A difference of two ticks, as an unsigned number.
LEMMA AheadIs ==
    ASSUME NEW w \in TickValues, NEW now \in TickValues
    PROVE  Ahead(w, now) = IF w >= now THEN w - now ELSE w - now + TickMod
<1>1. /\ w \in Nat /\ now \in Nat /\ w < TickMod /\ now < TickMod
      /\ TickMod \in Nat \ {0}
  BY TicksAssumption DEF TickValues
<1>2. ASSUME NEW a \in Int, NEW m \in Nat \ {0}, 0 <= a, a < m PROVE a % m = a
  BY <1>2
<1>3. ASSUME NEW a \in Int, NEW m \in Nat \ {0}, 0 <= a + m, a < 0
      PROVE  a % m = a + m
  BY <1>3
<1>4. CASE w >= now
  BY <1>1, <1>2, <1>4 DEF Ahead
<1>5. CASE w < now
  BY <1>1, <1>3, <1>5 DEF Ahead
<1> QED BY <1>1, <1>4, <1>5

\* The next tick.
LEMMA NextTick ==
    ASSUME NEW now \in TickValues
    PROVE  TickAdd(now, 1) = IF now + 1 = TickMod THEN 0 ELSE now + 1
<1>1. now \in Nat /\ now < TickMod /\ TickMod \in Nat \ {0}
  BY TicksAssumption DEF TickValues
<1>2. ASSUME NEW a \in Nat, NEW m \in Nat \ {0}, a < m PROVE a % m = a
  BY <1>2
<1>3. ASSUME NEW m \in Nat \ {0} PROVE m % m = 0
  BY <1>3
<1>4. CASE now + 1 = TickMod
  BY <1>1, <1>3, <1>4 DEF TickAdd
<1>5. CASE now + 1 # TickMod
  BY <1>1, <1>2, <1>5 DEF TickAdd
<1> QED BY <1>4, <1>5

\* A remainder by a number that goes into another once.
LEMMA RemainderOnce ==
    ASSUME NEW n \in Nat, NEW m \in Nat \ {0}, m <= n, n < m + m
    PROVE  n % m = n - m
OBVIOUS

\* A deadline of at most half the range of the counter is that far ahead.
LEMMA DelayIsAhead ==
    ASSUME NEW now \in TickValues, NEW d \in Nat, d <= TickMod \div 2
    PROVE  Ahead(TickAdd(now, d), now) = d
<1>1. /\ now \in Nat /\ now < TickMod /\ TickMod \in Nat \ {0} /\ d < TickMod
      /\ TickAdd(now, d) \in TickValues
  BY Modulus, TickAddType DEF TickValues
<1>2. ASSUME NEW a \in Nat, NEW m \in Nat \ {0}, a < m PROVE a % m = a
  BY <1>2
<1>4. TickAdd(now, d) = IF now + d < TickMod THEN now + d ELSE now + d - TickMod
  <2>1. now + d \in Nat /\ now + d < TickMod + TickMod
    BY <1>1
  <2>2. CASE now + d < TickMod
    BY <1>1, <1>2, <2>1, <2>2 DEF TickAdd
  <2>3. CASE ~(now + d < TickMod)
    <3> DEFINE s == now + d
    <3>1. /\ s \in Nat /\ TickMod <= s /\ s < TickMod + TickMod
          /\ s = now + d /\ TickAdd(now, d) = s % TickMod
      BY <1>1, <2>1, <2>3 DEF TickAdd
    <3> HIDE DEF s
    <3>2. s % TickMod = s - TickMod
      BY <1>1, <3>1, RemainderOnce
    <3>3. TickAdd(now, d) = s - TickMod
      BY <3>1, <3>2
    <3>4. s = now + d /\ s \in Nat
      BY <3>1
    <3> QED BY <1>1, <2>3, <3>3, <3>4
  <2> QED BY <2>2, <2>3
<1> QED BY <1>1, <1>4, AheadIs

\* As long as a deadline within half the range is not reached, it stays within,
\* and the tick that reaches it is its own, or the next one.
LEMMA OneTick ==
    ASSUME NEW w \in TickValues, NEW now \in TickValues,
           Ahead(w, now) <= TickMod \div 2
    PROVE  LET then == TickAdd(now, 1)
           IN  /\ ~tick_reached(then, w) => Ahead(w, then) <= TickMod \div 2
               /\ tick_reached(then, w) => w = now \/ w = then
<1> DEFINE then == TickAdd(now, 1)
<1>1. then \in TickValues /\ then = IF now + 1 = TickMod THEN 0 ELSE now + 1
  BY NextTick, TickAddType
<1>2. tick_reached(then, w) <=> Ahead(then, w) < TickMod \div 2
  BY DEF tick_reached, Ahead
<1>3. /\ Ahead(w, now) = IF w >= now THEN w - now ELSE w - now + TickMod
      /\ Ahead(w, then) = IF w >= then THEN w - then ELSE w - then + TickMod
      /\ Ahead(then, w) = IF then >= w THEN then - w ELSE then - w + TickMod
  BY <1>1, AheadIs
<1>4. w \in 0 .. TickMod - 1 /\ now \in 0 .. TickMod - 1 /\ then \in 0 .. TickMod - 1
  BY <1>1 DEF TickValues
<1> HIDE DEF then
<1> QED BY <1>1, <1>2, <1>3, <1>4, Modulus DEF then

\* The delays programs ask for stay within half the range of the counter.
DelaysAreShort ==
    \A n \in Durations, unit \in {1, 1000} : SleepTicks(n, unit) <= TickMod \div 2

\* A sleeper is in the table and its deadline has not passed.
SleepInv ==
    \A t \in Ids : state[t] = "SLEEP" =>
        /\ t \in ThreadIds
        /\ Ahead(wake_tick[t], timertick) <= TickMod \div 2

\* Only task_sleep puts a task to sleep, the caller, until its deadline.
LEMMA CallsAndSleep ==
    ASSUME TypeInv, CascadeInv, NEW t \in Ids, state'[t] = "SLEEP",
           Create \/ Join \/ Terminate \/ Control \/ Inside \/ UNCHANGED vars
    PROVE  \/ state[t] = "SLEEP" /\ wake_tick'[t] = wake_tick[t]
           \/ \E n \in Durations, unit \in {1, 1000} :
                 /\ t = current_thread
                 /\ wake_tick'[t] = TickAdd(timertick, SleepTicks(n, unit))
<1>1. /\ wake_tick \in [Ids -> TickValues] /\ state \in [Ids -> States]
      /\ current_thread \in Ids
  BY Scalars DEF TypeInv, TypeOK
<1>2. CASE Create
  <2>1. /\ t # thread_count /\ state[t] = "SLEEP"
        /\ \A u \in Ids : u # thread_count => wake_tick'[u] = wake_tick[u]
    BY <1>1, <1>2 DEF Create, kernel_createthread, sys_fork_handler, execv_handler, FillSlot
  <2> QED BY <2>1
<1>3. CASE Control
  <2>1. ASSUME NEW n \in Durations, NEW unit \in {1, 1000}, task_sleep(n, unit)
        PROVE  \/ state[t] = "SLEEP" /\ wake_tick'[t] = wake_tick[t]
               \/ /\ t = current_thread
                  /\ wake_tick'[t] = TickAdd(timertick, SleepTicks(n, unit))
    BY <1>1, <2>1 DEF task_sleep
  <2>2. ASSUME NEW x \in ThreadIds, task_ready(x) \/ task_yield(x) \/ task_block(x)
        PROVE  state[t] = "SLEEP" /\ wake_tick'[t] = wake_tick[t]
    BY <1>1, <2>2 DEF task_ready, task_yield, task_block
  <2>3. ASSUME NEW x \in ThreadIds, NEW value, set_task_priority(x, value)
        PROVE  state[t] = "SLEEP" /\ wake_tick'[t] = wake_tick[t]
    BY <2>3 DEF set_task_priority
  <2>4. current_thread \in ThreadIds
    BY Scalars
  <2> QED BY <1>3, <2>1, <2>2, <2>3, <2>4 DEF Control
<1>4. CASE Join \/ JoinReturns
  <2>1. ASSUME NEW x, JoinEnded(x) \/ JoinBlocks(x)
        PROVE  state[t] = "SLEEP" /\ wake_tick'[t] = wake_tick[t]
    BY <1>1, <2>1 DEF JoinEnded, JoinBlocks
  <2>2. CASE JoinReturns
    BY <2>2 DEF JoinReturns
  <2> QED BY <1>4, <2>1, <2>2 DEF Join, pthread_join, waitpid_handler, pthread_join2
<1>5. CASE Terminate \/ TerminateKids \/ TerminateKin \/ UNCHANGED vars
  BY <1>5 DEF Terminate, thread_tkill, ShellKill, task_return_trampoline,
     sys_exit_handler, pthread_exit, Begin, TerminateKids, TerminateKin, Descend, vars
<1>6. CASE TerminateLast
  <2> DEFINE x == Head(frames[current_thread]).task
  <2>1. /\ wake_tick' = wake_tick
        /\ state' = [u \in Ids |-> IF u = x THEN "TERMINATE"
                                   ELSE IF u \in Woken(x) THEN "READY" ELSE state[u]]
    BY <1>6 DEF TerminateLast
  <2> HIDE DEF x
  <2> QED BY <2>1
<1> QED BY <1>2, <1>3, <1>4, <1>5, <1>6 DEF Inside

\* What a tick does to a sleeper.
LEMMA TimerAndSleep ==
    ASSUME TypeInv, DispatchInv, timer_handler, NEW t \in Ids
    PROVE  LET now == TickAdd(timertick, 1)
           IN  /\ timertick' = now /\ wake_tick' = wake_tick
               /\ state'[t] = "SLEEP" => state[t] = "SLEEP"
               /\ t \in ThreadIds /\ state[t] = "SLEEP" =>
                     (state'[t] # "SLEEP" <=> tick_reached(now, wake_tick[t]))
<1> DEFINE now == TickAdd(timertick, 1)
<1>1. /\ timertick' = now /\ wake_tick' = wake_tick
      /\ Keeps \/ \E u \in ThreadIds : Switches(u)
  BY TimerSteps
<1>2. Awake \in [Ids -> States] /\ Descheduled(Awake) \in [Ids -> States]
  BY AwakeStates
<1> DEFINE a == Awake[t]
           d == Descheduled(Awake)[t]
<1>7. /\ a # state[t] => state[t] = "SLEEP" /\ a = "READY"
      /\ a # "RUNNING" => d = a
      /\ a = "RUNNING" => d \in {"READY", "RUNNING"}
  BY AwakeStates
<1>3. \A u \in ThreadIds : state[u] = "SLEEP" =>
         (Awake[u] = "READY" <=> tick_reached(now, wake_tick[u]))
  BY Scalars DEF Awake, Due
<1>4. ThreadIds \subseteq Ids /\ state[0] # "SLEEP"
  BY Scalars DEF DispatchInv, IdleCanRun
<1>5. CASE Keeps
  BY <1>1, <1>3, <1>4, <1>5, <1>7 DEF Keeps
<1>6. ASSUME NEW u \in ThreadIds, Switches(u)
      PROVE  /\ state'[t] = "SLEEP" => state[t] = "SLEEP"
             /\ t \in ThreadIds /\ state[t] = "SLEEP" =>
                  (state'[t] # "SLEEP" <=> tick_reached(now, wake_tick[t]))
  <2>1. /\ state' = [Descheduled(Awake) EXCEPT ![u] = "RUNNING"]
        /\ Descheduled(Awake)[u] = "READY" \/ u = 0
    BY <1>6 DEF Switches
  <2>2. /\ t # u => state'[t] = d
        /\ t = u => state'[t] = "RUNNING"
    BY <1>2, <2>1
  <2>3. t = u /\ state[t] = "SLEEP" => a = "READY"
    BY <1>4, <1>7, <2>1
  <2>4. t \in ThreadIds /\ state[t] = "SLEEP" =>
           (a = "READY" <=> tick_reached(now, wake_tick[t]))
    BY <1>3
  <2> HIDE DEF now, a, d
  <2> QED BY <1>7, <2>2, <2>3, <2>4
<1> QED BY <1>1, <1>5, <1>6

LEMMA SleepStep ==
    ASSUME DelaysAreShort, TypeInv, CascadeInv, DispatchInv, SleepInv, [Next]_vars
    PROVE  SleepInv'
<1>1. /\ wake_tick \in [Ids -> TickValues] /\ timertick \in TickValues
  BY DEF TypeInv, TypeOK
<1>2. SUFFICES ASSUME NEW t \in Ids, state'[t] = "SLEEP"
               PROVE  t \in ThreadIds' /\ Ahead(wake_tick'[t], timertick') <= TickMod \div 2
  BY DEF SleepInv
<1>3. CASE Create \/ Join \/ Terminate \/ Control \/ Inside \/ UNCHANGED vars
  <2>1. timertick' = timertick
    BY <1>3, CallsKeepProcessor
  <2>2. ASSUME NEW n \in Durations, NEW unit \in {1, 1000},
               wake_tick'[t] = TickAdd(timertick, SleepTicks(n, unit))
        PROVE  Ahead(wake_tick'[t], timertick) <= TickMod \div 2
    <3>1. SleepTicks(n, unit) \in Nat
      BY SleepTicksType, TasksAssumption
    <3> QED BY <1>1, <2>2, <3>1, DelayIsAhead DEF DelaysAreShort
  <2>3. ThreadIds \subseteq ThreadIds' /\ current_thread \in ThreadIds
    <3>1. thread_count' \in {thread_count, thread_count + 1}
      BY IdentSteps DEF FillSlot, TerminateLast, countVars
    <3> QED BY <3>1, Scalars
  <2> QED BY <1>2, <1>3, <2>1, <2>2, <2>3, CallsAndSleep DEF SleepInv
<1>4. CASE timer_handler
  <2> DEFINE now == TickAdd(timertick, 1)
  <2>1. /\ timertick' = now /\ wake_tick'[t] = wake_tick[t] /\ state[t] = "SLEEP"
        /\ t \in ThreadIds => ~tick_reached(now, wake_tick[t])
    BY <1>2, <1>4, TimerAndSleep
  <2>2. t \in ThreadIds /\ Ahead(wake_tick[t], timertick) <= TickMod \div 2
    BY <2>1 DEF SleepInv
  <2>3. thread_count' = thread_count
    BY <1>4, TimerSteps DEF countVars
  <2> HIDE DEF now
  <2> QED BY <1>1, <2>1, <2>2, <2>3, OneTick DEF now
<1> QED BY <1>3, <1>4 DEF Next

LEMMA SleepInvariant == ASSUME DelaysAreShort PROVE Spec => []SleepInv
<1>1. Init => SleepInv
  BY DEF Init, SleepInv
<1>2. TypeInv /\ CascadeInv /\ DispatchInv /\ SleepInv /\ [Next]_vars => SleepInv'
  BY SleepStep
<1> QED BY <1>1, <1>2, TypeInvariant, CascadeInvariant, DispatchInvariant, PTL DEF Spec

\* The tick that wakes a sleeper is the one its deadline names, or the next one
\* when it asked for no delay, also when the counter has wrapped around in
\* between; for delays of at most half the range of the counter, which is what
\* tick_reached can tell from deadlines that have passed.
THEOREM SleepersWakeOnTime ==
    ASSUME DelaysAreShort
    PROVE  Spec => WakesOnTime
<1> DEFINE OnTime == \A t \in ThreadIds :
                        /\ timertick' # timertick
                        /\ state[t] = "SLEEP"
                        /\ state'[t] # "SLEEP"
                        => wake_tick[t] \in {timertick, timertick'}
<1>1. ASSUME TypeInv, CascadeInv, DispatchInv, SleepInv, [Next]_vars PROVE OnTime
  <2>1. CASE Create \/ Join \/ Terminate \/ Control \/ Inside \/ UNCHANGED vars
    BY <2>1, CallsKeepProcessor
  <2>2. CASE timer_handler
    <3> SUFFICES ASSUME NEW t \in ThreadIds, state[t] = "SLEEP", state'[t] # "SLEEP"
                 PROVE  wake_tick[t] \in {timertick, timertick'}
      OBVIOUS
    <3> DEFINE now == TickAdd(timertick, 1)
    <3>1. /\ t \in Ids /\ wake_tick[t] \in TickValues /\ timertick \in TickValues
      BY <1>1, Scalars DEF TypeInv, TypeOK
    <3>2. timertick' = now /\ tick_reached(now, wake_tick[t])
      BY <1>1, <2>2, <3>1, TimerAndSleep
    <3>3. Ahead(wake_tick[t], timertick) <= TickMod \div 2
      BY <1>1, <3>1 DEF SleepInv
    <3> QED BY <3>1, <3>2, <3>3, OneTick
  <2> QED BY <1>1, <2>1, <2>2 DEF Next
<1>2. TypeInv /\ CascadeInv /\ DispatchInv /\ SleepInv /\ [Next]_vars => [OnTime]_vars
  BY <1>1
<1> QED
  BY <1>2, TypeInvariant, CascadeInvariant, DispatchInvariant, SleepInvariant, PTL
     DEF Spec, WakesOnTime

-----------------------------------------------------------------------------
(* The module stack.                                                       *)

\* The tasks that have not ended.
Alive == {t \in ThreadIds : state[t] # "TERMINATE"}

\* Besides the name of the kernel, below index 1, the stack holds no more names
\* than there are tasks that have not ended.
NoNameIsLeft == module_stack_top <= Cardinality(Alive)

\* Only the end of a task makes it TERMINATE.
LEMMA OnlyLastEnds ==
    ASSUME TypeInv, CascadeInv, DispatchInv,
           \/ Create \/ Join \/ Terminate \/ Control \/ UNCHANGED vars
           \/ JoinReturns \/ TerminateKids \/ TerminateKin \/ timer_handler
    PROVE  \A t \in ThreadIds : state[t] # "TERMINATE" => state'[t] # "TERMINATE"
<1> DEFINE c == current_thread
           n == thread_count
           Same == \A t \in ThreadIds : state[t] # "TERMINATE" => state'[t] # "TERMINATE"
<1>1. /\ state \in [Ids -> States] /\ c \in Ids /\ c \in ThreadIds
      /\ ThreadIds \subseteq Ids /\ n \notin ThreadIds /\ 0 \in ThreadIds
  BY Scalars DEF TypeInv, TypeOK
<1>2. ASSUME NEW x, NEW s, state' = [state EXCEPT ![x] = s], s # "TERMINATE"
      PROVE  Same
  BY <1>1, <1>2
<1>3. CASE Create
  <2>1. CASE execv_handler
    <3>1. state' = [state EXCEPT ![n] = "READY", ![c] = "BLOCK"]
      BY <2>1 DEF execv_handler
    <3> QED BY <1>1, <3>1
  <2> QED BY <1>1, <1>2, <1>3, <2>1 DEF Create, kernel_createthread, sys_fork_handler
<1>4. CASE Join
  <2>1. ASSUME NEW x, JoinEnded(x) \/ JoinBlocks(x) PROVE Same
    BY <1>1, <1>2, <2>1 DEF JoinEnded, JoinBlocks
  <2> QED BY <1>4, <2>1 DEF Join, pthread_join, waitpid_handler, pthread_join2
<1>5. CASE Control
  <2>1. ASSUME NEW x, task_ready(x) \/ task_yield(x) \/ task_block(x) PROVE Same
    BY <1>1, <1>2, <2>1 DEF task_ready, task_yield, task_block
  <2>2. ASSUME NEW m, NEW unit, task_sleep(m, unit) PROVE Same
    BY <1>1, <1>2, <2>2 DEF task_sleep
  <2>3. ASSUME NEW x, NEW value, set_task_priority(x, value) PROVE Same
    BY <2>3 DEF set_task_priority
  <2> QED BY <1>5, <2>1, <2>2, <2>3 DEF Control
<1>6. CASE UNCHANGED vars \/ Terminate \/ JoinReturns \/ TerminateKids \/ TerminateKin
  BY <1>6 DEF vars, Terminate, thread_tkill, ShellKill, task_return_trampoline,
     sys_exit_handler, pthread_exit, Begin, JoinReturns, TerminateKids, TerminateKin,
     Descend
<1>7. CASE timer_handler
  <2> SUFFICES ASSUME NEW t \in ThreadIds, state[t] # "TERMINATE"
               PROVE  state'[t] # "TERMINATE"
    OBVIOUS
  <2> DEFINE a == Awake[t]
             d == Descheduled(Awake)[t]
  <2>1. /\ Keeps \/ \E u \in ThreadIds : Switches(u)
        /\ t \in Ids /\ Descheduled(Awake) \in [Ids -> States]
    BY <1>1, <1>7, TimerSteps, AwakeStates
  <2>2. /\ a # state[t] => a = "READY"
        /\ d # a => d = "READY"
    BY <2>1, AwakeStates
  <2>3. CASE Keeps
    BY <2>2, <2>3 DEF Keeps
  <2>4. ASSUME NEW u \in ThreadIds, Switches(u)
        PROVE  state'[t] # "TERMINATE"
    <3>1. /\ t # u => state'[t] = d
          /\ t = u => state'[t] = "RUNNING"
      BY <2>1, <2>4 DEF Switches
    <3> HIDE DEF a, d
    <3> QED BY <2>2, <3>1
  <2> QED BY <2>1, <2>3, <2>4
<1> QED BY <1>3, <1>4, <1>5, <1>6, <1>7

\* The tasks of a list are in the table.
LEMMA FramesInTable ==
    ASSUME TypeInv, CascadeInv, NEW t \in Ids, NEW i \in 1 .. Len(frames[t])
    PROVE  frames[t][i].task \in ThreadIds
<1>1. frames[t] \in Seq(Frames)
  BY DEF TypeInv, TypeOK
<1>2. frames[t][i].task \in Ids /\ frames[t][i].task < thread_count
  BY <1>1, FrameTasks DEF CascadeInv, Family
<1> QED BY <1>2, Scalars

\* There are finitely many tasks.
LEMMA AliveIsFinite ==
    ASSUME NEW n \in Nat, NEW S \in SUBSET (0 .. n - 1)
    PROVE  IsFiniteSet(S) /\ Cardinality(S) \in Nat
<1>1. IsFiniteSet(0 .. n - 1)
  BY FS_Interval
<1> QED BY <1>1, FS_Subset, FS_CardinalityType

\* A step that neither fills a slot nor ends a task: no task that lived is gone.
LEMMA OthersLeaveNames ==
    ASSUME TypeInv, CascadeInv, DispatchInv, NoNameIsLeft,
           \/ Join \/ Terminate \/ Control \/ UNCHANGED vars
           \/ JoinReturns \/ TerminateKids \/ TerminateKin \/ timer_handler
    PROVE  NoNameIsLeft'
<1>1. UNCHANGED <<thread_count, module_stack_top>>
  BY DEF vars, Join, pthread_join, waitpid_handler, pthread_join2, JoinEnded,
         JoinBlocks, Terminate, thread_tkill, ShellKill, task_return_trampoline,
         sys_exit_handler, pthread_exit, Begin, Control, set_task_priority,
         task_ready, task_yield, task_block, task_sleep, UnchangedByCall,
         JoinReturns, TerminateKids, TerminateKin, Descend, timer_handler, countVars
<1>2. \A t \in ThreadIds : state[t] # "TERMINATE" => state'[t] # "TERMINATE"
  BY OnlyLastEnds
<1>3. Alive \subseteq Alive' /\ Alive' \in SUBSET (0 .. thread_count - 1)
  BY <1>1, <1>2 DEF Alive
<1>4. /\ IsFiniteSet(Alive') /\ Cardinality(Alive') \in Nat
      /\ Cardinality(Alive) \in Nat /\ Cardinality(Alive) <= Cardinality(Alive')
  <2>1. IsFiniteSet(Alive') /\ Cardinality(Alive') \in Nat
    BY <1>3, Scalars, AliveIsFinite
  <2> QED BY <1>3, <2>1, FS_Subset, FS_CardinalityType
<1>5. module_stack_top \in Int
  BY TasksAssumption DEF TypeInv, TypeOK
<1> QED BY <1>1, <1>4, <1>5 DEF NoNameIsLeft

\* A creation pushes one name, or none when the stack is full, for one task.
LEMMA CreatePushesOneName ==
    ASSUME TypeInv, CascadeInv, DispatchInv, NoNameIsLeft, Create
    PROVE  NoNameIsLeft'
<1> DEFINE n == thread_count
<1>1. thread_count' = n + 1 /\ n < MaxTasks /\ push_module
  BY DEF Create, kernel_createthread, sys_fork_handler, execv_handler, FillSlot
<1>2. \A t \in ThreadIds : state[t] # "TERMINATE" => state'[t] # "TERMINATE"
  BY OnlyLastEnds
<1>3. /\ n \in Nat /\ MaxTasks \in Nat /\ state \in [Ids -> States]
      /\ module_stack_top \in Int
  BY Scalars, TasksAssumption DEF TypeInv, TypeOK
<1>4. state'[n] # "TERMINATE"
  <2>1. n \in Ids
    BY <1>1, <1>3 DEF Ids
  <2>2. \/ \E s \in {"READY", "BLOCK"} : state' = [state EXCEPT ![n] = s]
        \/ state' = [state EXCEPT ![n] = "READY", ![current_thread] = "BLOCK"]
    BY DEF Create, kernel_createthread, sys_fork_handler, execv_handler
  <2> HIDE DEF n
  <2> QED BY <1>3, <2>1, <2>2
<1>5. Alive \cup {n} \subseteq Alive' /\ n \notin Alive
      /\ Alive' \in SUBSET (0 .. (n + 1) - 1) /\ Alive \in SUBSET (0 .. n - 1)
  BY <1>1, <1>2, <1>3, <1>4 DEF Alive, ThreadIds
<1>6. /\ IsFiniteSet(Alive) /\ Cardinality(Alive) \in Nat
      /\ Cardinality(Alive \cup {n}) = Cardinality(Alive) + 1
  BY <1>3, <1>5, AliveIsFinite, FS_AddElement
<1>7. /\ Cardinality(Alive') \in Nat
      /\ Cardinality(Alive) + 1 <= Cardinality(Alive')
  <2>1. IsFiniteSet(Alive') /\ Cardinality(Alive') \in Nat
    <3>1. n + 1 \in Nat
      BY <1>3
    <3> QED BY <1>5, <3>1, AliveIsFinite
  <2> QED BY <1>5, <1>6, <2>1, FS_Subset
<1>8. module_stack_top' <= module_stack_top + 1
  BY <1>1, <1>3 DEF push_module
<1>9. module_stack_top' \in Int
  BY <1>1, <1>3 DEF push_module
<1> QED BY <1>3, <1>6, <1>7, <1>8, <1>9 DEF NoNameIsLeft

\* The end of a task pops a name, even when the task had ended before.
LEMMA EndPopsName ==
    ASSUME TypeInv, CascadeInv, NoNameIsLeft, TerminateLast
    PROVE  NoNameIsLeft'
<1> DEFINE c == current_thread
           x == Head(frames[c]).task
<1>1. x \in ThreadIds
  <2>1. c \in Ids /\ frames[c] # <<>> /\ frames[c] \in Seq(Frames)
    BY Scalars DEF TerminateLast, InFrame, TypeInv, TypeOK
  <2>2. 1 \in 1 .. Len(frames[c]) /\ Head(frames[c]) = frames[c][1]
    BY <2>1
  <2> QED BY <2>1, <2>2, FramesInTable
<1>2. /\ pop_module /\ thread_count' = thread_count
      /\ state' = [t \in Ids |-> IF t = x THEN "TERMINATE"
                                 ELSE IF t \in Woken(x) THEN "READY" ELSE state[t]]
  BY DEF TerminateLast, countVars
<1> HIDE DEF x
<1>3. Alive \ {x} \subseteq Alive' /\ Alive' \in SUBSET (0 .. thread_count - 1)
      /\ Alive \in SUBSET (0 .. thread_count - 1)
  BY <1>2, Scalars DEF Alive, ThreadIds
<1>4. /\ IsFiniteSet(Alive) /\ Cardinality(Alive) \in Nat
      /\ IsFiniteSet(Alive') /\ Cardinality(Alive') \in Nat
  BY <1>3, Scalars, AliveIsFinite
<1>5. Cardinality(Alive) - 1 <= Cardinality(Alive')
  <2>1. /\ IsFiniteSet(Alive \ {x})
        /\ Cardinality(Alive \ {x}) =
              IF x \in Alive THEN Cardinality(Alive) - 1 ELSE Cardinality(Alive)
    BY <1>4, FS_RemoveElement
  <2>2. Cardinality(Alive \ {x}) <= Cardinality(Alive')
    BY <1>3, <1>4, FS_Subset
  <2> QED BY <1>4, <2>1, <2>2
<1>6. module_stack_top \in Int
  BY TasksAssumption DEF TypeInv, TypeOK
<1>7. /\ module_stack_top' = module_stack_top - 1 \/ module_stack_top' = -1
      /\ module_stack_top' \in Int
  BY <1>2, <1>6 DEF pop_module
<1> QED BY <1>4, <1>5, <1>6, <1>7 DEF NoNameIsLeft

\* However tasks are created and ended, by whichever calls and with whichever
\* ticks between the steps, no name stays on the module stack after its task:
\* besides the name of the kernel there are at most as many names as tasks that
\* have not ended.  There may be
\* fewer: a termination that another one overtakes pops twice, task_block
\* revives a task whose name is gone, and a full stack drops the name of a new
\* task, so that ModulesMatchTasks is left to the run.
THEOREM NamesEndWithTasks ==
    Spec => [](module_stack_top <= Cardinality(Alive))
<1>1. Init => NoNameIsLeft
  <2> SUFFICES ASSUME Init PROVE NoNameIsLeft
    OBVIOUS
  <2>1. Alive = {0}
    BY TasksAssumption DEF Init, Alive
  <2>2. Cardinality({0}) = 1
    BY FS_Singleton
  <2> QED BY <2>1, <2>2 DEF Init, NoNameIsLeft
<1>2. TypeInv /\ CascadeInv /\ DispatchInv /\ NoNameIsLeft /\ [Next]_vars
        => NoNameIsLeft'
  BY OthersLeaveNames, CreatePushesOneName, EndPopsName DEF Next, Inside
<1>3. NoNameIsLeft => module_stack_top <= Cardinality(Alive)
  BY DEF NoNameIsLeft
<1> QED
  BY <1>1, <1>2, <1>3, TypeInvariant, CascadeInvariant, DispatchInvariant, PTL DEF Spec
=============================================================================
