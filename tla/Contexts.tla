------------------------------ MODULE Contexts ------------------------------
(***************************************************************************)
(* The stacks of the tasks, the frames interrupts leave on them, and what  *)
(* the timer, fork and the switches between kernel and user mode do to     *)
(* them (src/kernel/fskrnl.c, src/kernel/functions.asm).  Which task is    *)
(* dispatched is the matter of Tasks; here any may be.                     *)
(*                                                                         *)
(* A cell of a stack is a return address with the saved ebp, or a part of  *)
(* a frame: the registers; eip and cs; useresp and ss.  A cell nobody may  *)
(* rely on is Junk.  Other data is left out, and with it a number that     *)
(* happens to look like an address, which fork changes too.                *)
(***************************************************************************)
EXTENDS Integers, Sequences, TLC

CONSTANTS
  MaxTasks, MaxSwitches,    \* bounds: tasks, and switches of mode by the shell
  StackCells, KernelCells,  \* the sizes of a task's stack and kernel stack,
  BootCells,                \* and of the stack main runs on
  CopyCells,                \* what fork copies of a stack that is not the task's
  Procedures                \* the procedures of programs and of the kernel

VARIABLES
  stacks,           \* the memory of all stacks
  cpu,              \* esp, ebp, eip, eax, and the ring: 0 or 3
  frame_at,         \* thread[].esp, the frame of a task that does not run
  running,          \* current_thread
  created,          \* thread_count
  usermode,
  tss,              \* the task whose kernel stack an interrupt from ring 3 uses
  tls, tls_area,    \* the area the descriptor shows, and the area of each task
  view,             \* reference: the registers each task believes to have
  pushed,           \* reference: the cells each task has pushed, by address
  astray,           \* history: tasks that were resumed on the wrong stack, or
                    \* copied with a part of their calls
  switches

ctxVars == <<stacks, cpu, frame_at, running, created, usermode, tss, tls, tls_area,
             view, pushed, astray, switches>>

\* The labels of eip besides the procedures.
Bootstrap == 0   \* the entry of thread_bootstrap
Handler == 9     \* a system call that has turned interrupts on
Trampoline == 8  \* task_return_trampoline, or idle for the shell

Shell == 0       \* the task that runs main, on the stack of the boot
Made == 0..created - 1
Regions == {"boot", "stack", "kernel"}
Size(region) == CASE region = "boot" -> BootCells [] region = "stack" -> StackCells
                  [] region = "kernel" -> KernelCells
Nowhere == [task |-> 0, region |-> "none", at |-> 0]
Top(t, region) == [task |-> t, region |-> region, at |-> Size(region)]
Up(a, n) == [a EXCEPT !.at = @ + n]

Junk == [kind |-> "junk", n |-> 0, ring |-> 0, ptr |-> Nowhere]
ReturnTo(eip, ebp) == [kind |-> "return", n |-> eip, ring |-> 0, ptr |-> ebp]

\* The cells of a frame (context_t, registers_t), the lowest first: the processor
\* adds esp and ss only when it comes from ring 3.
FrameCells(c) ==
  <<[kind |-> "registers", n |-> c.eax, ring |-> 0, ptr |-> c.ebp],
    [kind |-> "eip", n |-> c.eip, ring |-> c.ring, ptr |-> Nowhere]>>
  \o IF c.ring = 3 THEN <<[kind |-> "user", n |-> 0, ring |-> 3, ptr |-> c.esp]>> ELSE <<>>
ContextCells == 3           \* sizeof(context_t)
IretGap == 2                \* the cells of a context_t before useresp

Look(m, a) == m[a.task][a.region][a.at]
Put(m, a, cells) ==
  [m EXCEPT ![a.task][a.region] =
     [i \in DOMAIN @ |-> IF i - a.at + 1 \in DOMAIN cells THEN cells[i - a.at + 1] ELSE @[i]]]

\* Where the processor puts the frame of an interrupt.
FrameOf(c, top) == IF c.ring = 3 THEN Up(Top(top, "kernel"), -ContextCells)
                   ELSE Up(c.esp, -IretGap)
RingOf(m, frame) == Look(m, Up(frame, 1)).ring

\* The registers after the pops and the iret at the end of a handler.
Resumed(m, frame) ==
  [eax |-> Look(m, frame).n, ebp |-> Look(m, frame).ptr,
   eip |-> Look(m, Up(frame, 1)).n, ring |-> RingOf(m, frame),
   esp |-> IF RingOf(m, frame) = 3 THEN Look(m, Up(frame, IretGap)).ptr
           ELSE Up(frame, IretGap)]
Popped(m, frame) ==
  Put(m, frame, [i \in 1..(IF RingOf(m, frame) = 3 THEN 3 ELSE 2) |-> Junk])

\* The memory once a handler that was entered and left has used the stack.
Passed(m) == Popped(Put(m, FrameOf(cpu, tss), FrameCells(cpu)), FrameOf(cpu, tss))

\* main, which has switched to user mode if that is the setting.
CtxInit ==
  /\ stacks = [t \in 0..MaxTasks - 1 |-> [r \in Regions |-> [i \in 0..Size(r) - 1 |-> Junk]]]
  /\ usermode \in BOOLEAN
  /\ cpu = [esp |-> Top(Shell, "boot"), ebp |-> Nowhere, eip |-> 1, eax |-> 1,
            ring |-> IF usermode THEN 3 ELSE 0]
  /\ frame_at = [t \in 0..MaxTasks - 1 |-> Nowhere]
  /\ running = Shell /\ created = 1
  /\ tss = Shell /\ tls = 0
  /\ tls_area = [t \in 0..MaxTasks - 1 |-> 0]
  /\ view = [t \in 0..MaxTasks - 1 |-> cpu]
  /\ pushed = [t \in 0..MaxTasks - 1 |-> << >>]
  /\ astray = {} /\ switches = 0

(***************************************************************************)
(* Programs and system calls.                                              *)
(***************************************************************************)

\* The reference machine: a task pushes cells onto a stack nobody else has, and
\* pops them.
RefPushed(t, a, cells) ==
  [b \in DOMAIN pushed[t] \cup {Up(a, i - 1) : i \in DOMAIN cells} |->
     IF b.region = a.region /\ b.at - a.at + 1 \in DOMAIN cells
       THEN cells[b.at - a.at + 1] ELSE pushed[t][b]]
RefPopped(t, a, n) ==
  [b \in DOMAIN pushed[t] \ {Up(a, i - 1) : i \in 1..n} |-> pushed[t][b]]
RefTop == pushed[running][view[running].esp]

Runs == running \notin astray /\ view[running].eip \in Procedures
\* There is room for n cells and the frame of an interrupt above ring 3.
Room(n) == cpu.esp.at >= n + IretGap

UnchangedBySteps == UNCHANGED <<frame_at, running, created, usermode, tss, tls, tls_area,
                                astray, switches>>

Calls(p) ==
  LET Entered(c) == [c EXCEPT !.esp = Up(@, -1), !.ebp = Up(c.esp, -1), !.eip = p]
  IN /\ running \notin astray
     /\ view[running].eip \in Procedures \cup {Handler}
     /\ Room(1)
     /\ stacks' = Put(stacks, Up(cpu.esp, -1), <<ReturnTo(cpu.eip, cpu.ebp)>>)
     /\ cpu' = Entered(cpu)
     /\ view' = [view EXCEPT ![running] = Entered(@)]
     /\ pushed' = [pushed EXCEPT ![running] =
          RefPushed(running, Up(view[running].esp, -1),
                    <<ReturnTo(view[running].eip, view[running].ebp)>>)]
     /\ UnchangedBySteps

Returns ==
  LET Left(c, cell) == [c EXCEPT !.esp = Up(@, 1), !.ebp = cell.ptr, !.eip = cell.n]
  IN /\ Runs
     /\ view[running].esp \in DOMAIN pushed[running]
     /\ RefTop.kind = "return" /\ RefTop.n # Bootstrap
     /\ cpu' = Left(cpu, Look(stacks, cpu.esp))
     /\ stacks' = Put(stacks, cpu.esp, <<Junk>>)
     /\ view' = [view EXCEPT ![running] = Left(@, RefTop)]
     /\ pushed' = [pushed EXCEPT ![running] = RefPopped(running, view[running].esp, 1)]
     /\ UnchangedBySteps

\* A call that waits, or reads the disk: isr_stub, and interrupts are on again.
EntersKernel ==
  LET frame == FrameOf(cpu, tss)
      refFrame == FrameOf(view[running], running)
      Inside(c, f) == [c EXCEPT !.esp = f, !.eip = Handler, !.ring = 0]
  IN /\ Runs /\ Room(2)
     /\ stacks' = Put(stacks, frame, FrameCells(cpu))
     /\ cpu' = Inside(cpu, frame)
     /\ view' = [view EXCEPT ![running] = Inside(@, refFrame)]
     /\ pushed' = [pushed EXCEPT ![running] =
                   RefPushed(running, refFrame, FrameCells(view[running]))]
     /\ UnchangedBySteps

LeavesKernel ==
  LET Own(a) == pushed[running][a]
      esp == view[running].esp
      user == Own(Up(esp, 1)).ring = 3
  IN /\ running \notin astray /\ view[running].eip = Handler
     /\ RefTop.kind = "registers"
     /\ cpu' = Resumed(stacks, cpu.esp)
     /\ stacks' = Popped(stacks, cpu.esp)
     /\ view' = [view EXCEPT ![running] =
          [eax |-> RefTop.n, ebp |-> RefTop.ptr, eip |-> Own(Up(esp, 1)).n,
           ring |-> Own(Up(esp, 1)).ring,
           esp |-> IF user THEN Own(Up(esp, IretGap)).ptr ELSE Up(esp, IretGap)]]
     /\ pushed' = [pushed EXCEPT ![running] = RefPopped(running, esp, IF user THEN 3 ELSE 2)]
     /\ UnchangedBySteps

\* A program's exception: isr_exception sends the task to its end, on a stack that
\* is emptied if it was in ring 3; the shell idles.  (It panics in kernel mode.)
Faults ==
  LET After(c) == [c EXCEPT !.eip = Trampoline,
                     !.esp = IF c.ring = 3 THEN Top(running, "stack") ELSE @]
  IN /\ Runs
     /\ cpu.ring = 3 \/ (usermode /\ running # Shell)
     /\ stacks' = Passed(stacks)
     /\ cpu' = After(cpu)
     /\ view' = [view EXCEPT ![running] = After(@)]
     /\ pushed' = [pushed EXCEPT ![running] = << >>]
     /\ UnchangedBySteps

(***************************************************************************)
(* The timer.                                                              *)
(***************************************************************************)

\* Mutant: ss is set whatever the ring, in the cell above a frame without one.
ConformsAnyRing(m, frame, user) ==
  IF user
  THEN Put(m, Up(frame, IretGap), <<[Look(m, Up(frame, IretGap)) EXCEPT !.ring = 3]>>)
  ELSE Put(m, Up(frame, 1), <<[Look(m, Up(frame, 1)) EXCEPT !.ring = 0]>>)

\* A frame is brought into line with the mode.  For kernel mode the code segment is
\* changed, but not where the frame makes the stack continue.
task_conform_frame(m, frame, user) ==
  IF user
    THEN IF RingOf(m, frame) = 3
           THEN Put(m, Up(frame, IretGap), <<[Look(m, Up(frame, IretGap)) EXCEPT !.ring = 3]>>)
           ELSE m
    ELSE Put(m, Up(frame, 1), <<[Look(m, Up(frame, 1)) EXCEPT !.ring = 0]>>)

\* The tasks of T whose frame in m is of ring 3 and loses its stack to kernel mode.
Converted(m, frames, T, user) == {t \in T : ~user /\ RingOf(m, frames[t]) = 3}
\* One that has not begun only begins on its kernel stack.
Unharmed(T) == {t \in T : view[t].eip = Bootstrap}
RefConverted(frames, T) ==
  [t \in DOMAIN view |->
     IF t \in T THEN [view[t] EXCEPT !.ring = 0, !.esp = Up(frames[t], IretGap)] ELSE view[t]]

\* irq0: the frame of the running task is frame_at, the next task's is conformed
\* and resumed (schedule, tls_load_task, task_apply_tss, task_fix_user_frame).
TimerInterrupt(next) ==
  LET frames == [frame_at EXCEPT ![running] = FrameOf(cpu, tss)]
      m == Put(stacks, frames[running], FrameCells(cpu))
      m1 == task_conform_frame(m, frames[next], usermode)
      converted == Converted(m, frames, {next}, usermode)
  IN /\ running \notin astray /\ next \notin astray
     /\ frame_at' = frames
     /\ running' = next /\ tss' = next /\ tls' = tls_area[next]
     /\ cpu' = Resumed(m1, frames[next])
     /\ stacks' = Popped(m1, frames[next])
     /\ view' = RefConverted(frames, converted)
     /\ astray' = astray \cup (converted \ Unharmed(converted))
     /\ UNCHANGED <<created, usermode, tls_area, pushed, switches>>

(***************************************************************************)
(* Creation and fork.                                                      *)
(***************************************************************************)

\* The first frame of a task: on its kernel stack for ring 3, else on its stack.
inittaskframe(m, t) ==
  LET frame == Up(Top(t, IF usermode THEN "kernel" ELSE "stack"), -ContextCells)
      cells == FrameCells([eax |-> 0, ebp |-> Nowhere, eip |-> Bootstrap, ring |-> 3,
                           esp |-> IF usermode THEN Top(t, "stack") ELSE frame])
  IN [frame |-> frame,
      mem |-> Put(m, frame,
                IF usermode THEN cells
                ELSE [i \in DOMAIN cells |-> [cells[i] EXCEPT !.ring = 0]])]

\* kernel_createthread, in a system call.
CreatesThread ==
  LET t == created
      made == inittaskframe(Passed(stacks), t)
  IN /\ Runs /\ Room(0)
     /\ created < MaxTasks
     /\ stacks' = made.mem
     /\ frame_at' = [frame_at EXCEPT ![t] = made.frame]
     /\ tls_area' = [tls_area EXCEPT ![t] = t]
     /\ view' = [view EXCEPT ![t] =
          [eax |-> 0, ebp |-> Nowhere, eip |-> Bootstrap,
           ring |-> IF usermode THEN 3 ELSE 0,
           esp |-> IF usermode THEN Top(t, "stack") ELSE Up(made.frame, IretGap)]]
     /\ created' = created + 1
     /\ UNCHANGED <<cpu, running, usermode, tss, tls, pushed, astray, switches>>

\* Mutant: what points into the stack is left as it is.
Unrelocated(a, lo, n, to) == a

\* What points into the n cells from lo, or just past them, points into their copy.
task_relocate_ptr(a, lo, n, to) ==
  IF a.task = lo.task /\ a.region = lo.region /\ a.at - lo.at \in 0..n
    THEN Up(to, a.at - lo.at) ELSE a

\* The n cells from lo of m, copied to `to' and relocated.
CopyOf(m, lo, n, to) ==
  [i \in 1..n |->
     LET cell == IF lo.at + i - 1 < Size(lo.region) THEN Look(m, Up(lo, i - 1)) ELSE Junk
     IN [cell EXCEPT !.ptr = task_relocate_ptr(@, lo, n, to)]]

\* Where the child's first frame is, and which cells from lo are copied to `to' for
\* it: the stack of the task, or what is nearest to esp when the call comes from
\* elsewhere or the stack has no room left for a frame.
ForkPlaces(resume, t) ==
  LET base == [task |-> running, region |-> "stack", at |-> 0]
      whole == [lo |-> base, n |-> StackCells, to |-> [base EXCEPT !.task = t]]
      frame == Up(Top(t, "kernel"), -ContextCells)
      copyAt == Up(frame, IretGap - CopyCells)
  IN CASE cpu.ring = 3 /\ resume.region = "stack" -> [frame |-> frame] @@ whole
       [] cpu.ring = 3 /\ resume.region # "stack" ->
            [frame |-> frame, lo |-> resume, n |-> CopyCells, to |-> whole.to]
       [] cpu.ring = 0 /\ resume.region = "stack" /\ resume.at >= IretGap + 1 ->
            [frame |-> Up(task_relocate_ptr(resume, base, StackCells, whole.to), -IretGap)]
              @@ whole
       [] OTHER -> [frame |-> Up(copyAt, -IretGap),
                    lo |-> resume, n |-> CopyCells, to |-> copyAt]

\* The child's stacks and its first frame: eax is 0, and what points into the stack
\* points into its copy.
ForkMemory(m, places, t) ==
  LET Moves(a) == task_relocate_ptr(a, places.lo, places.n, places.to)
      whole == [task |-> running, region |-> "stack", at |-> 0]
      own == Put(m, [whole EXCEPT !.task = t],
                 CopyOf(m, whole, StackCells, [whole EXCEPT !.task = t]))
  IN Put(Put(own, places.to, CopyOf(m, places.lo, places.n, places.to)),
         places.frame,
         FrameCells([cpu EXCEPT !.eax = 0, !.ebp = Moves(@), !.esp = Moves(@)]))

\* sys_fork_handler, called by a program and not inside another call.  The calls of
\* the parent that are not copied are the child's loss; and the child of a shell in
\* ring 3 starts with its stack full.
Forks ==
  LET t == created
      m == Put(stacks, FrameOf(cpu, tss), FrameCells(cpu))
      places == ForkPlaces(cpu.esp, t)
      Ref(a) == IF a.region = view[running].esp.region /\ a.task = running
                  THEN Up(places.to, a.at - places.lo.at) ELSE a
  IN /\ Runs /\ Room(0)
     /\ \A a \in DOMAIN pushed[running] : pushed[running][a].kind = "return"
     /\ created < MaxTasks
     /\ stacks' = Popped(ForkMemory(m, places, t), FrameOf(cpu, tss))
     /\ frame_at' = [frame_at EXCEPT ![t] = places.frame]
     /\ cpu' = [cpu EXCEPT !.eax = 1]
     /\ tls_area' = [tls_area EXCEPT ![t] = t]
     /\ created' = created + 1
     /\ view' = [view EXCEPT ![running].eax = 1,
          ![t] = [view[running] EXCEPT !.eax = 0, !.esp = Ref(@), !.ebp = Ref(@)]]
     /\ pushed' = [pushed EXCEPT ![t] =
          [a \in {Ref(b) : b \in DOMAIN pushed[running]} |->
             LET b == CHOOSE b \in DOMAIN pushed[running] : Ref(b) = a
             IN [pushed[running][b] EXCEPT !.ptr = Ref(@)]]]
     /\ astray' = IF /\ \A a \in DOMAIN pushed[running] :
                         a.at - places.lo.at \in 0..places.n - 1
                     /\ cpu.ring = 3 => cpu.esp.region = "stack"
                    THEN astray ELSE astray \cup {t}
     /\ UNCHANGED <<running, usermode, tss, tls, switches>>

(***************************************************************************)
(* Kernel and user mode.                                                   *)
(***************************************************************************)

\* task_prepare_usermode and task_prepare_kernelmode: the frames of the others.
PrepareMode(m, user) ==
  LET others == Made \ {running}
  IN /\ stacks' = [t \in DOMAIN m |->
                     IF t \in others THEN task_conform_frame(m, frame_at[t], user)[t] ELSE m[t]]
     /\ LET converted == Converted(m, frame_at, others, user)
        IN /\ view' = [RefConverted(frame_at, converted) EXCEPT
                         ![running].ring = IF user THEN 3 ELSE 0]
           /\ astray' = astray \cup (converted \ Unharmed(converted))

\* switchtousermode: an iret to ring 3 on the same stack.
switchtousermode ==
  /\ Runs /\ Room(0)
  /\ running = Shell /\ ~usermode /\ cpu.ring = 0 /\ switches < MaxSwitches
  /\ usermode' = TRUE /\ switches' = switches + 1
  /\ PrepareMode(Passed(stacks), TRUE)
  /\ cpu' = [cpu EXCEPT !.ring = 3]
  /\ UNCHANGED <<frame_at, running, created, tss, tls, tls_area, pushed>>

\* switchtokernelmode: through a gate when it comes from ring 3, back to the same
\* stack (kernelmode_entry_gate).
switchtokernelmode ==
  /\ Runs /\ Room(0)
  /\ running = Shell /\ usermode /\ switches < MaxSwitches
  /\ usermode' = FALSE /\ switches' = switches + 1
  /\ PrepareMode(Passed(Put(stacks, Up(cpu.esp, -1), <<Junk>>)), FALSE)
  /\ cpu' = [cpu EXCEPT !.ring = 0]
  /\ UNCHANGED <<frame_at, running, created, tss, tls, tls_area, pushed>>

\* thread_bootstrap: a task made in the other mode changes its own; then its
\* procedure is called.  In kernel mode it may convert the others once more, which
\* depends on the segments of the shell's last frame.  A task that goes to ring 3 on
\* its kernel stack has no stack of its own any more.
thread_bootstrap(p) ==
  LET rises == usermode /\ cpu.ring = 0
      Entered(c) == [c EXCEPT !.esp = Up(@, -1), !.ebp = Up(c.esp, -1), !.eip = p,
                              !.ring = IF rises THEN 3 ELSE @]
      called == Put(IF rises THEN Passed(stacks) ELSE stacks,
                    Up(cpu.esp, -1), <<ReturnTo(Bootstrap, cpu.ebp)>>)
  IN /\ running \notin astray /\ view[running].eip = Bootstrap
     /\ Room(1)
     /\ cpu' = Entered(cpu)
     /\ pushed' = [pushed EXCEPT ![running] =
          RefPushed(running, Up(view[running].esp, -1),
                    <<ReturnTo(Bootstrap, view[running].ebp)>>)]
     /\ \E again \in {FALSE, ~usermode} :
          LET others == IF again THEN Made \ {running} ELSE {}
              converted == Converted(called, frame_at, others, FALSE)
          IN /\ stacks' = [t \in DOMAIN called |->
                  IF t \in others THEN task_conform_frame(called, frame_at[t], FALSE)[t]
                  ELSE called[t]]
             /\ view' = [RefConverted(frame_at, converted) EXCEPT ![running] = Entered(@)]
             /\ astray' = astray \cup (converted \ Unharmed(converted))
                          \cup (IF rises /\ cpu.esp.region = "kernel" THEN {running} ELSE {})
     /\ UNCHANGED <<frame_at, running, created, usermode, tss, tls, tls_area, switches>>

CtxNext ==
  \/ \E p \in Procedures : Calls(p) \/ thread_bootstrap(p)
  \/ Returns \/ EntersKernel \/ LeavesKernel \/ Faults
  \/ \E next \in Made : TimerInterrupt(next)
  \/ CreatesThread \/ Forks \/ switchtousermode \/ switchtokernelmode

CtxSpec == CtxInit /\ [][CtxNext]_ctxVars

(***************************************************************************)
(* Properties.                                                             *)
(***************************************************************************)

Registers == [eax : {0, 1}, ring : {0, 3},
              eip : {Bootstrap, Handler, Trampoline} \cup Procedures,
              esp : [task : Made, region : Regions, at : Nat],
              ebp : [task : Made, region : Regions \cup {"none"}, at : Nat]]

CtxTypeOK ==
  /\ running \in Made /\ created <= MaxTasks /\ switches <= MaxSwitches
  /\ running \notin astray => cpu \in Registers
  /\ astray \subseteq Made
  /\ \A t \in Made : frame_at[t] # Nowhere \/ t = Shell

\* Every task finds its registers, and every return address and frame it has left on
\* its stacks, whatever interrupts, system calls, forks and switches of mode have
\* come between; a child finds copies of its parent's on stacks of its own; and an
\* interrupt finds the kernel stack of the task it interrupts.  (Of the tasks that
\* were left astray, nothing is said.)
ContextsAreKept ==
  /\ tss = running /\ tls = tls_area[running]
  /\ \A t \in Made \ astray :
       /\ view[t] = IF t = running THEN cpu ELSE Resumed(stacks, frame_at[t])
       /\ \A a \in DOMAIN pushed[t] : a.task = t /\ Look(stacks, a) = pushed[t][a]
  /\ \A t, u \in Made : tls_area[t] = tls_area[u] => t = u

=============================================================================
