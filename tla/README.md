# Fast System: a TLA+ model of its kernel

Fast System is a 32-bit x86 operating system: a boot sector and two loaders, a
kernel (`src/kernel`) with tasks, a FAT12/16/32 file system and drivers, a C
library (`src/libc`), user programs (`src/user`) and host tools. This directory
models the parts of the kernel where interleaving, failure, ordering and the edges
of numbers decide whether the system is correct, checks the models with TLC on small
instances and proves the invariants that matter most with TLAPS.

| Module | What it is | Models |
|---|---|---|
| `Ticks` | arithmetic of the tick counter | `fskrnl.c`: `task_sleep`, `task_msleep`, `tick_reached` |
| `Tasks` | task table, scheduler, join, termination | `fskrnl.c`: tasks, timer interrupt, system calls on tasks |
| `TasksProofs` | theorems about `Tasks` | |
| `Contexts` | stacks, frames, fork, the two modes | `fskrnl.c`, `functions.asm` |
| `FatChains` | cluster chains and entries, access by access | `fat.c`: open, write, close, unlink, rmdir, rename, mkdir |
| `FatProofs`, `ChainProofs` | theorems about `FatChains`: types, no shared clusters, what faults leave; chains as their entries say | |
| `Files` | what an open file promises | the abstract specification of `FatFiles` |
| `FatFiles` | contents of a file, sector by sector | `fat.c`: open, seek, read, write, close |
| `FilesProofs` | theorems about `FatFiles`, which implements `Files`, `Volume` and `Attributes` | |
| `Directory` | the slots of a directory | `fat.c`: mkdir, unlink, rmdir, rename, readdir, getdents; `fput.c` |
| `Searches` | the shell's searches and listing, over `Directory` | `fat.c`: `findfile`, `listdironsector` |
| `DirectoryProofs` | theorems about `Directory`, `Searches` and `Sorting` | |
| `Paths` | paths, the current directory, a tree | `fat.c`: `getpath`, `find_path_directory`, chdir and the calls |
| `LongNames` | the encodings of a name and its alias | `fat.c`: `utf8_to_utf16` and back, `strfilenamedos` |
| `Sorting` | the sort of a listing | `fat.c`: `qsort` |
| `Volume` | where clusters and entries lie, the mount, `statfs` | `fat.c`: `loadmbr`, `loadfat`, the geometry |
| `Attributes` | extended attributes | `fat.c`: `fat_setxattr` and its kind |
| `Heap`, `HeapProofs` | `malloc` and `free`; theorems | `memory.c` |
| `Disks` | what the drivers have in common | `storage.c` |
| `Ata`, `Ahci`, `Ehci` | a driver and its device each | `ata.c`, `ahci.c`, `ehci.c`, the retries of `storage.c` |
| `Keyboard`, `History` | keys and readers; the shell's lines | `fskrnl.c` |
| `DeviceProofs` | theorems about the drivers and the keyboard | |
| `Mouse`, `Console` | packets and position; cursor and escape sequences | `fskrnl.c` |
| `PartsProofs` | theorems about the shell's lines, the mouse, the console and the division | |
| `Arith64`, `Calendar` | 64-bit division; dates | `arith64.c`, `time.c` |
| `MCTasks`, `MCFatChains`, `MCFatTasks`, `MCFatFiles`, `MCDevices`, `MCParts`, `MCHeap` | instances for TLC | |

To check a run: `tlc -config <run>.cfg <module>`, with the pairs of the tables
below. To check the proofs: `tlapm <module>.tla` for each module whose name ends in `Proofs`.

`MCFatFiles`, `MCDevices` and `MCParts` put several components side by side: the variable
`part` names the one that runs, and the others stay in one initial state. Their state
space is the sum of their components', not the product. These components do not
share state in the code (the heap knows nothing of the mouse), so nothing is
lost by it. Components that do share state are in one module, or one extends the other.

## 1. Inventory

State, operations, hard behaviour and correctness of each component.
`PROJECT.json` lists them with their sources and, under `hazards`, each point
of the code where the behaviour bites.

### Modelled, in whole or in part

**Tasks and scheduler** (`fskrnl.c`). State: the table `thread[]` of `task_t`
records (state, priority, quantum, deadline, parent, pid, joiner), the counts
`thread_count` and `process_count`, `current_thread`, `current_process`.
Operations: `kernel_createthread`, `sys_fork_handler`, `execv_handler`,
`pthread_join2`, `waitpid_handler`, `task_terminate`,
`task_terminate_with_result`, `pthread_exit`, `task_block`, `task_ready`,
`task_yield`, `set_task_priority`, `task_sleep`, `timer_handler`. Hard: the timer
comes between any two instructions where interrupts are on; a termination
walks over the children of its target with interrupts on and off in turn, so
terminations interrupt each other; a joiner registers, blocks and is woken in
three different places. Correct when: pids are unique, only one task runs,
joiners return, sleepers wake on time, a ready task is not starved, the idle task
can always run, what has ended stays ended.

**Contexts** (`fskrnl.c`, `functions.asm`). State: two stacks per task, the frames interrupts
leave on them, the pointer to the latest frame, the TSS and the descriptor of the
thread-local area. Hard: frames are edited in place when the mode changes and at each
dispatch; a frame from ring 0 is shorter than `context_t`; fork copies a stack and moves
what points into it. Correct when every task finds its registers and its calls again.

**Tick counter** (`fskrnl.c`). State: `timertick`, 32 bits wide and wrapping.
Deadlines are compared by the sign of a difference. Correct when a delay shorter
than half the range ends at the tick it names, also across the wrap.

**Module stack** (`fskrnl.c`, `str_stack.c`). State: a stack of names, pushed when a
task is created and popped when one ends. Tasks do not end in the order of
creation. Correct when there is one name per task that has not ended. Only its
depth is modelled.

**FAT chains and entries** (`fat.c`). State: the table on the disk, the directory,
the global descriptors and their `FAT_FILE`. Each sector access is a system call
that turns interrupts on; there is no lock and no journal. Hard: two tasks in a
call at once, a read that fails and yields the mark of a free cluster, a
write that fails between two updates, a task killed or a machine stopped between
two accesses, a descriptor whose entry was moved. Correct when chains are disjoint,
acyclic, as long as their file needs and not lost, and when every call returns.

**FAT file contents** (`fat.c`). State: the bytes of the clusters, position, size and mode
of the descriptor. Hard: a write that does not begin or end with a sector reads,
changes and writes it back; a write past the end fills the gap by calling itself; an
access fails or the power goes in the middle. Correct when a file is a sequence of bytes.

**FAT directories, searches, listings** (`fat.c`, `fput.c`). State: slots of short entries
and of the parts of long names, the open directory stream. Hard: five searches join the
parts by five rules; writers look for free runs, leave left-over parts and move the end
mark. Correct when all searches agree, calls disturb no other file, and a file
created under a name is found under it.

**FAT paths and names** (`fat.c`). State: the tree; the current directory twice, as a string
and as a sector. A path is resolved by its text before the disk is looked at. A name changes its
encoding twice between program and disk. Correct when a path leads where it says, no
directory is lost, and a name comes back as it went in.

**FAT geometry, statistics, attributes, sort** (`fat.c`). State: the boot sector's fields, the
partition, the free count; the attribute table. Correct when no two clusters share a
sector and no two entries of the table a place, all inside the volume; when attributes are a map;
when a listing is sorted and nothing is lost by it.

**Kernel heap** (`memory.c`). State: the break, the size and position of the latest
block, two counters and an eight-byte header per block. A header is written by the
call *after* the one that returned its block. Correct when blocks do not overlap each
other or a header, stay in the heap, and the counters say what is in use.

**Disk drivers** (`ata.c`, `ahci.c`, `ehci.c`, `storage.c`). State: the registers of the
device. Waits sleep or let the timer in, so accesses of two tasks interleave; devices answer
late, fail, or never. Correct when an access said to have succeeded has, and every access ends.

**Keyboard** (`fskrnl.c`). State: one character, its scan code and a status, shared by the
interrupt handler and the reader without mutual exclusion. Correct when no key is lost while
a reader waits and none is delivered twice. **History** (`fskrnl.c`): the table of lines
`main` fills and the interrupt of an arrow key searches.

**Mouse** (`fskrnl.c`). A packet assembled byte by byte by the interrupt handler. Correct when
it resynchronises after a lost byte and moves the pointer as the device was moved.

**Console** (`fskrnl.c`). Cursor, screen and the state of an escape sequence. Correct when the cursor
and what is written stay on the screen and text is not taken for a sequence.

**64-bit arithmetic** (`arith64.c`), **calendar** (`time.c`). Pure, stepwise algorithms; correct against
a definition in one line each.

### Not modelled

The map covers the share of the lines of the repository that the modules stand for. What it
leaves out, and why:

- **Page frames and paging** (`memory.c`): the identity map is built once at start, by code
  that nothing can interrupt; `palloc` and `pfree` have no other caller.
- **System call dispatch** (`fskrnl.c`): a switch over numbers whose cases put registers into the
  arguments of the functions modelled here. What matters of it, whether interrupts are on in
  a call, is in the modules of the calls.
- **The shell** (`main`): a chain of comparisons with the names of commands, each a wrapper of a
  call; and the set-up of devices, once, before the first task.
- **PCI, NVMe**: reads of configuration registers; stubs that return 0.
- **Program loading, libc, boot sectors, loader, EFI loader**: wrappers and programs that run once and alone before there is anything to interleave with.
  The loaders repeat FAT, ATA, AHCI and EHCI code of the kernel in a form that only reads.
- **Host tools**: sequential programs on an image. `fatlib.c` is an earlier form of `fat.c`; what
  `fput` leaves in a directory, which the kernel then meets, is an action of `Directory`.
- **User programs**: demonstrations, graphical for the greater part. Their calls are the inputs here.
- **Formatting, colours, layout, help texts, tables of glyphs and keys**: data.

### How the components interact

The timer interrupt calls the scheduler, which changes the task that executes. Programs
and the kernel's shell call the task, file and heap operations through interrupt 0x80,
which runs with interrupts off; wait loops, sector accesses and terminations turn them
on again, and only there can two calls interleave. Ending a task touches the
joiner, the children, the module stack and its heap block, but no open file: the
descriptors are the system's. A wait inside a driver sleeps the task, so file
calls depend on the tick counter. Four modules see a file call, each at its own
level: `Paths` which directory, `Directory` which slots, `FatChains` which clusters, `FatFiles`
which bytes; `Volume` says where these lie and `Ata`, `Ahci` and `Ehci` what an access
to them does. What the upper level takes as given (`FatFiles`: the chain grows in one step; `Paths`: a
lookup finds the entry of a name) is a property of the lower.

## 2. Tasks

One processor executes `current_thread`; each action is a step of that task or the
timer interrupt. Each `task_t` field a decision reads is a function on slots. Slots are
never reused in the code, and in the model.

| Code | Action |
|---|---|
| `kernel_createthread`, `sys_fork_handler`, `execv_handler` | the same names |
| `pthread_join2` up to its wait loop, and the loop's exit | `JoinEnded`, `JoinBlocks`; `JoinReturns` |
| call 238, shell `kill`, fault, `sys_exit_handler`, `pthread_exit` | `thread_tkill`, `ShellKill`, `task_return_trampoline`, same names |
| bodies of the three termination functions | `TerminateKids`, `TerminateKin`, `TerminateLast` on a stack of frames |
| `set_task_priority`, `task_ready`, `task_yield`, `task_block`, `task_sleep`, `task_msleep` | the same names |
| `timer_handler`, `scheduler_tick`, `schedule`, `find_next_ready` | `timer_handler` |

`frames[t]` is the recursion of a termination on the kernel stack of task `t`: the head
is the innermost activation, `at` the point it has reached. `interrupts` is off
from a `kill` system call until its termination returns or ends its caller.

| Run (`MCTasks`) | Instance | Shows |
|---|---|---|
| `tasks_life` | 3 slots, all ways to create, join, end | `TypeOK`, `PidsUnique`; `DispatchIsSound`: one task runs, it is the current one, `current_process` is its own, the idle task can run; `JoinsAreKept`: a joiner is registered with its target, and none waits for one that has ended |
| `tasks_cascade` | 4 slots, create, kill, exit | `CascadeIsBounded`: terminations that interrupt each other end only descendants, and the recursion is bounded |
| `tasks_control` | 3 slots, block, ready, yield, priority | `OnlyBlockRevives`: of all calls only `task_block` takes a task out of TERMINATE |
| `tasks_wake` | `TimerSpec`, counter of 6 ticks, delays 0 and 2, kill | `WakesOnTime` across the wrap; `SleepersWake`; `ModulesMatchTasks`: with `kill` alone, which keeps interrupts off, no task is ended twice |
| `tasks_live` | `FairSpec` | `JoinersReturn`, `TerminationsEnd`, `NoStarvation` |

Bounds. Three slots are the idle task and two others: a joiner and its target, a parent
and its child, two tasks that end each other. Four slots add the grandchild,
the shortest chain in which one termination overtakes another. A module stack of two names
in `tasks_life` and `tasks_cascade` lets it overflow, eight elsewhere lets it not. A
quantum of one or two ticks has the two cases the code tells apart. The tick
counter needs twice the longest delay, which is what the code's signed comparison
needs of 2^32; with a longer delay `tick_reached` is wrong, in the model as in the code.

What the runs establish on the way, and a reader should know:
`task_terminate` tests the state of its target once, before the cascade, and
ends it later with interrupts off without looking again. When `exit` and `kill`
overlap a task is ended twice and the module stack loses the name of another;
`ModulesMatchTasks` therefore is checked for `kill` alone, which keeps interrupts off.
`task_block` accepts a task that has ended and `task_ready` then runs it again;
`OnlyBlockRevives` says that nothing else does it.

Fairness. `TimerSpec` assumes that the timer keeps interrupting (it is a hardware
interrupt) and that the processor finishes a section with interrupts off (nothing
can stop it). `FairSpec` adds strong fairness of the steps each task takes inside
its own call: a task that is dispatched again and again executes instructions in
each time slice. It is strong because the timer disables those steps each time it
gives the processor to another task. No fairness is assumed of what programs
choose to call.

Left out: names, arguments, exit results, heap pointers, `kmalloc` failures, the
quantum of at least 10 ticks in user mode (`fskrnl.c:5180-5188`), the group branch of the termination functions (proved unreachable), fork by the idle
task (it runs the shell, not a program).

### Contexts

A stack is a function from addresses to cells; a cell is a return address with the saved `ebp` or a
part of a frame. `Calls` and `Returns` are the compiled code; `EntersKernel` and `LeavesKernel` a
system call that turns interrupts on, `TimerInterrupt` `irq0` with `schedule` (any task may be
next: `Tasks` says which), `CreatesThread`, `Forks`, `Faults`, `thread_bootstrap`, `switchtousermode` and
`switchtokernelmode` what their names say. `view` and `pushed` are a reference machine in which each
task has registers and stacks to itself; `ContextsAreKept`, checked by `parts`, says that the memory
always holds what the reference holds, for each task that is not `astray`. A task goes astray by what
the code does: `task_conform_frame` gives a frame of ring 3 the segments of the kernel but the stack goes on where the
frame ends, so a task that waits in ring 3 loses its calls when the shell switches to kernel mode
(one that has not begun only begins on its kernel stack); a fork outside the task's own stack copies a window of fixed
size; and the child of the shell in ring 3 begins at the low end of its stack.

Bounds: three tasks are a parent, its child and the shell; stacks of five and six cells hold a
frame and two or three calls, and both cases of fork's copy; one switch of mode, from either.

## 3. File system

### Chains (`FatChains`)

A call is a record in `call[p]`: the operation, the access it makes next (`at`) and its local
variables. A step is one sector access, because calls 413 and 414 turn interrupts
on. `ReadSector` and `writecluster` are the two accesses by which one entry of the
table is changed in a copy of its sector; `ReadDirectory` and `WriteDirectory` do the
same with an entry of the directory. The pure part of the code between two accesses is an
operator on the record, named after the function it belongs to (`allocchain`, `freechain`,
`resizechain`, `chain_length`, `get_nth_cluster`).

Failures are actions: `WriteFails` (before or after the first copy of the table),
`WriteDirectoryFails`, `TaskKilled`, `PowerCut`, and a `readcluster` that returns 0.

| Run | Instance | Shows |
|---|---|---|
| `fat_alone` (`MCFatChains`) | 1 task, 3 clusters, 3 places, 2 descriptors, no fault | `TypeOK`; `ChainsAreSound`: chains are disjoint and as long as their entries say; `LostOnlyByMkdir` |
| `fat_faults` (`MCFatChains`) | one failed write, kill or power cut, and programs that use stale descriptors | `FaultsAreContained`: no chain runs in a circle, and only clearing a cluster can leave something that leads to a free one |
| `fat_tasks` (`MCFatTasks`) | 2 tasks, together at most 4 calls, one read that fails | `CallsReturn` |

Bounds. Three clusters hold two files of which one has a chain with a middle, and are
few enough for the volume to fill up inside an allocation; sizes up to three
clusters allow a write past the end, whose gap is filled by a nested write. Three
places are needed for a rename beside two files. `MaxFaults`, `MaxBadReads` and
`MaxCalls` are the bounds on faults and calls; with two tasks and four calls
chains that run in a circle do arise, which is the case
`CallsReturn` is about. `fat_tasks` sets `CHECK_DEADLOCK FALSE` since it stops when the
calls are used up. `Disciplined` runs have programs that open a file once and do not
unlink or rename an open file.

Fairness: weak fairness of the steps inside a call, for each task. A task in a call
is ready or asleep in a driver; `SleepersWake` and `NoStarvation` of `Tasks` say
that it executes again, and `EveryAccessEnds` of the drivers that the access completes or fails.

What does not hold, and is not promised anywhere in the code: with two tasks
in calls at once neither `NoSharing` nor `Acyclic` holds, and a failed read breaks
`NoSharing` for a single task. A failed or interrupted call may lose clusters. The hazards
say so at their lines.

Left out: contents (sizes count clusters), the accesses of a search of a directory and of the test of `fat_rmdir` for an empty one
(`Lookup`: one step; the code has no bound on them, so on a directory whose own chain runs in a circle they need not end, and
`CallsReturn`, which is about the chains of files, does not cover it), paths, long names, the dot entries, the second
copy of the table, open directories, `chmod`, the creation of
files (the volume starts with empty ones). The table is in one sector
and the directory in another.

### Contents (`Files`, `FatFiles`)

`Files` is the abstract specification: a sequence of bytes, a position and a mode, one step a
call. It has steps for the calls an error cuts short (`ReadCut`, `WriteCut`, `GapCut`,
`CloseFails`), each of which says which first part of its work such a call may have done. `OpenFails` and `WriteLoses` lose the
file, and nothing is promised of it from there on: by an access that fails while it is truncated or written, or by a write that ends
past `Limit`.
Of the bytes between that part and the length the file then has, nothing is promised (`Padded`): they are what the clusters held
before, and after a close or an entry that failed as well, these may be bytes the file itself had.
`FatFiles` makes each access of a sector a step (`ReadSector`, `WriteSector`, `ZeroRange`,
`WriteReturns` ...). Its state `ruined` stands for two things the code does to a file. `fat_file_ensure_size` computes the clusters for a size in 32 bits (`Required`,
`fat.c:3666`): past `Limit`, 2^32 less a cluster, the sum wraps, the number is 0, and the whole chain is freed while the size is set, without any
error. And an access to the table can fail within it (`ensure_sizeRuins`): `readcluster` then says "free", so that a cluster in use is taken or a
chain is freed in part. What follows is no longer this file's; `FatChains` has the table access by access. An access that fails before anything is
changed refuses the call (`ensure_size_fails`, `fat_openFails`). `KeepsPromise` is `Promise!Spec` under the mapping that shows, during
a call, the file as it was when the call began: `content` is what the clusters of the chain hold
up to the size of the descriptor, or up to the size in the entry when the file is closed.

### Directories (`Directory`, `Searches`)

A slot is a record that says whether it ends the directory, is deleted, is a short entry or a
part of a long name. A call is one step that leaves one image after the other, and the power may go
after any (`Perform`). `Find` is the search of the file calls, `d_name` the listing of `readdir`,
`findfile` and `listdironsector` those of the shell, `findfreeslots` where the writers put a name.

### Paths, names, sort, geometry, attributes

In `Paths` a path is what lies between separators, a directory its first cluster; `Followed` is the
reference, which goes through a path part by part with a look at the disk, as the code does not.
`LongNames` takes a name given by a program to the disk and back, takes a name of another system to
a program and back, and shortens names; its state is the stage the name is in. `Sorting` makes each
pop of a range and each scan a step. `Volume` mounts an image and computes; `Attributes` is its table.

| Run `fat_files` (`MCFatFiles`) | Instance | Shows |
|---|---|---|
| part `file` | sectors of 2 bytes, clusters of 2 sectors, 3 clusters, a word that wraps at 20, 2 writes, one failing access | `FilesTypeOK`; `KeepsPromise`; `CutKeepsFile`: what a power cut at any access of a write leaves on the disk (of the truncation in `fat_open` it says nothing: the entry then leads to free clusters) |
| part `directory` | 2 sectors of 3 slots, names of one part or two, two with one alias, 2 chains, a power cut | `FilesTypeOK`; `SearchesAgree`; `DirectoryKeeps`: what is created is found, and calls keep the other entries |
| part `volume` | sectors of 8 bytes, both kinds of FAT, a whole disk or its second partition, good and bad boot sectors | `VolumeKeeps`: entries are an array, clusters are apart, a size needs what it needs |
| part `sorting` | up to 7 elements with 3 keys, insertion for ranges up to 2 | `SearchesAgree`: the listing is sorted and a permutation |
| part `attributes` | 4 keys, 2 entries | `VolumeKeeps`: the table is a map |

| Run `parts` (`MCParts`) | Instance | Shows |
|---|---|---|
| part `paths` | 2 names and one that is too long, 2 directories below the root, paths of up to 3 parts | `PathsAndNamesAreSound` |
| part `names` | names of up to 3 pieces from both ends of each width, and of wrong bytes; foreign names of up to 4 units; 2 units a part | `PathsAndNamesAreSound` |

Bounds. A sector of two bytes has an inside, a write of five covers parts of two clusters, a position of
nine leaves a gap of more than one cluster, a write of one at twelve does not fit on the volume, and one at seventeen ends past the size where the number of clusters wraps. A name of two parts in a sector of three slots
fills it, and left-over parts of it are a gap for the others. Numbers of 8 bits let the geometry overflow.
The names are every border of the UTF-8 widths, of the surrogates and of the parts, whose length is
a constant. Seven elements are two levels of ranges, with a median of three that is not the
middle. Chains are symmetric. Both runs stop where a bound is reached and therefore set `CHECK_DEADLOCK FALSE`.

What does not hold, by what the code does: a directory renamed into itself is lost; of two files with
one alias, or with aliases of one checksum, the wrong one can be shown or found; `findfile` looks for the name of a directory once more inside it, so that with `/foo/foo` the size and kind of `/foo` are those of the
inner entry; a write that ends above 2^32 less a cluster frees all clusters of the file; a failed access to the table may do as much; a path of more components than `getpath` keeps leads to an
ancestor; `chdir` to the root sets the string and not the sector; an entry that does not fit
into the buffer of `getdents` is in no reply; the size of a file is set before a write that
then fails; the second half of a surrogate pair alone is shown as bytes that are then refused;
the free count of `statfs` is that of the FSInfo sector, which nothing updates; an attribute outlives its
file. The properties are stated for what is left, and their comments name the exception.

## 4. Heap

`malloc` and `free` as programs reach them (system calls 385 and 386, interrupts off):
one step each. `blocks` records what was returned; `header` is the size
below each address, `Unknown` until written. A header that was never written holds
what the memory held: any value of `Unwritten`.

| Run | Instance | Shows |
|---|---|---|
| `parts` (`MCParts`), part `heap` | memory starts clear | `BlocksAreSound`: blocks are disjoint, only the latest reaches past the end, what is said to remain covers the rest; `UseIsCounted`: the bytes in use are the first block and those whose predecessor is not freed, so the unsigned count does not wrap, even when a block is freed twice |
| `heap_assertion` (`MCHeap`) | memory starts clear | violation of `NeverMoreThanAll` |

Bounds. The header and the page are one unit, the heap eighteen, requests 0, 1,
3 and 7: up to six or seven blocks, both panics of `malloc`, both of `free` and the
refusal at the end are reached. The runs start with clear memory (`Unwritten` is {0}), which
`memory.c` does not see to itself: the `memset` at line 88 is commented out. Of the theorems of section 7, that of `BlocksAreSound`
holds for any `Unwritten` of numbers up to the largest request, that of `UseIsCounted` for clear memory. `CHECK_DEADLOCK FALSE`: a panic halts the machine.

Finding. `heap_assertion` is a disagreement of the code with its own check.
`malloc` writes the requested size into the header of the block *before* the one it
returns (`memory.c:162-178`), so `free` gives back the size of the successor. Three legal
calls (a small `malloc`, a larger one, a `free` of the first) make `_heap_last_size`
larger than `_heap_size`, which `free` takes for impossible (`memory.c:287`) and
panics on.

Left out: contents, `calloc` (a `malloc` and a fill), `realloc` (no caller), the
histories of sizes, requests so large that a counter wraps (excluded by
`HeapAssumption`; nothing holds for them), and calls by the kernel with
interrupts on, which can interrupt each other between the steps of
`malloc` and then return one block twice.

## 5. Disk drivers

Each driver is a program counter per task (`AtaStep`, `AhciStep`, `BeginTransfer`, `PartDone`) beside a device,
external, which is late, fails, or stops answering (`AtaAdvances`, `AtaFails`, `AhciPort`,
`DeviceStalls`). The cuts are where another task can run: `ata_wait` sleeps, AHCI and EHCI poll with interrupts on.

| Run `devices` (`MCDevices`) | Instance | Shows |
|---|---|---|
| part `ata` | 2 tasks, 2 sectors, a wait of one look, no repetition beyond the second | `AtaTellsTheTruth`: an access that reports success has read or written its sector if no other overlapped it; `EveryAccessEnds` |
| part `ahci` | 2 tasks, 2 slots, 3 commands | `AhciTellsTheTruth`, `EveryAccessEnds` |
| part `ehci` | 1 task | `EhciTellsTheTruth`: a transfer left in the schedule by a timeout is not taken for a later one |

`DevicesTypeOK` is the type invariant of the three and of the keyboard, which this run has as its fourth part. Fairness: of each task's own steps (it is scheduled, as in section 3) and of the AHCI port, which
completes or fails a command it was given; the driver waits for it without a bound. None of the ATA disk: the driver gives
up. What does not hold: accesses that overlap exchange their data, with both
drivers, since neither locks; after a failed command the AHCI port is halted and the
next access waits for ever, which `EveryAccessEnds` excepts; of EHCI, whose waits all have a limit, it says nothing.

## 6. Keyboard, history, mouse, console, arithmetic, calendar

Parts of the run `parts` (`MCParts`), with `PartsTypeOK` over their variables.

- `Keyboard` (in the run `devices`): an interrupt (`keyboard_handler`) is one step, a reader is cut at each access of a
  shared variable (`Poll`, `SeeCode`, `TakeCode`, `ClearStatus`, ...). `KeysAreKept`: characters are taken once and in
  order, in the right case, into the line they were typed for. `NoKeyWaits`, under fairness of the
  reader: a key pressed while one waits is taken. Neither holds for keys pressed while a reader
  clears the buffer; the properties except them by `ahead`. Two presses, two keys down together.
- `History`: `main` stores a line in two steps, the interrupt of an arrow key comes before, between or after.
  `RecallIsSound`: its loop ends, and what it recalls was entered, or a mixture while a line is copied. Four lines let the table start again.
- `Mouse`: a device that moves, a wire that loses a byte or repeats one. `PacketsMoveAsSent`: the pointer moves by what was said if that is in -128..127, and the other way otherwise (a movement of 200 as one of -56), because the driver
does not look at the ninth bit, the sign in the first byte (`fskrnl.c:12532-12545`, `12692-12702`);
  and one complete packet after a loss, if none of its movement bytes looks like a first byte.
- `Console`: a step for each symbol. `ConsoleIsSound`: the screen is a window on the text, and the cursor leaves it only
  by the three ways the comment names. 2 by 2 cells: a row that ends, a screen that scrolls.
- `Arith64`: a step for each bit, words of 8 bits, operands around each power of two. `DivisionIsSound`: the quotient and remainder
  of the mathematical division, truncated, for all four functions.
- `Calendar`: a walk through the days around 1903, 1967, 1999 and 2035 (380 each): no leap century, 1970, a leap century, a leap year.
  `CalendarIsSound`: each day follows the one before by a calendar without arithmetic, and `mktime` inverts `gmtime_r`.

`CHECK_DEADLOCK FALSE`: parts stop at their bounds.

## 7. Proofs

All proofs are for every value of the constants allowed by the named assumptions, which TLC evaluates on every run:

- `TicksAssumption`, `TasksAssumption`: positive table, stack and frequency, an even
  modulus, a normal priority within range.
- `HeapAssumption`: a heap larger than its first page, requests that cannot wrap a counter.
- `DisksAssumption`, `AtaAssumption`: there are tasks, sectors and words; the numbers of looks and of repetitions are natural.
- `AhciAssumption`: at least one command slot and at most 32, what a field of five bits that holds one less can say.
- `FatAssumption`: at least one cluster; slots and descriptors are positive numbers (0 stands for none; `MIN_FD` is 8), and there are finitely many slots.
- `HistoryAssumption`: more than two lines; what a user enters is a text, and not an empty one.
- `KeyboardAssumption`: a key is of one kind; the limit of a line is not 0, which `getsn` takes for no limit at all.
- `MouseAssumption`: movements have the nine bits, wheels the four and buttons the three of a packet, and screens are not empty.
- `ScreenAssumption`: a screen has rows and columns, fewer than 128 of these, and with one more row less than half of what the 16 bits of a cell number
  count; 80 by 25 is far below. Beyond, a position outside would wrap to one on the screen. A glyph is not a control character.
- `WidthAssumption`, `OperandsAssumption`: a word has a number of bits that is a power of two (the search for the first one bit halves it), and what is divided are words.
- `DirectoryAssumption`: there are sectors and slots in them; a name has a part at least and a record of some length, and the buffer of `getdents` some room;
  an alias is its own alias, as `strfilenamedos` makes it (`src/kernel/fat.c:1176`): what it keeps it keeps again.
- `SortingAssumption`: keys are numbers, and a range of two elements is sorted by insertion (the code's limit is 8), so that a range that is partitioned has room for the median of three.
- `VolumeAssumption`: a sector holds whole entries of both kinds, the fields of a boot sector are numbers, and the size of a cluster is one the code's word holds.
- `AttributesAssumption`: the value that stands for none, and the answers of the calls, are not values.

**`TypeCorrect`: `Spec => []TypeOK`** of `Tasks`. `TypeOK` is not inductive: slots and
process ids are taken from the counts, so the invariant `TypeInv` adds `CountsOK`, that
there are no more processes than slots used and that `current_thread` is a used slot.
The lemmas `FirstIn` and `NextReadyIn` say that a lookup over the table
returns a slot that satisfies its condition or nothing; they rest on `LeastNat`, from the
well-foundedness of `<`. Then there is one lemma per group of actions (`CreateType`,
`JoinType`, `TerminateType`, `ControlType`, `InsideType`, `TimerType`).

**`PidsAreUnique`: `Spec => []PidsUnique`** of `Tasks`. The code clears `pid` when
a task is killed and leaves it when it exits; `process_id` is never cleared. The
invariant `PidInv` says that a pid is the process id its task was given, that process ids lie
below `process_count` and that no two slots have the same one. `IdentSteps` reduces
every step to three cases: none of the identities change, a slot is filled, a
termination completes. Therefore `getthreadbypidnottid` finds nothing and
the thread-group branch of the termination functions, which the model leaves out,
is unreachable.

**`CascadesAreBounded`: `Spec => []CascadeIsBounded`** of `Tasks`. A termination recurses over children with
ticks in between, so the tree it walks changes under it. The invariant `CascadeInv` says that a
parent is older than its children (`ParentIsOlder`: slots are filled in order, and nothing gives a
task another parent), that a slot not yet filled has no activation, and that the activations of each task are a `Family`:
each is for a child of the task of the next one, so the ids grow inwards. A list of ids that grows
below `thread_count` is no longer than `thread_count`, which is the bound on the recursion; no induction over the list is needed, because `Family`
states the bound of each position.

**`DispatchIsAlwaysSound`, `EndedStaysEnded`**: `DispatchIsSound` and the action property `OnlyBlockRevives`. `DispatchInv`
adds to the first only that `RUNNING` is said of nobody but `current_thread`. The work is in two lemmas over all the actions: the calls leave the processor alone and
change a state only as the relation `StateChange` says (`CallsKeepProcessor`, `CallStates`), and the timer either keeps the
processor or switches to a slot `find_next_ready` returned (`TimerSteps`).

**`JoinersAreRegistered`, `JoinsAreAlwaysKept`, `SleepersWakeOnTime`**: `JoinerIsRegistered` and the properties `JoinsAreKept` and
`WakesOnTime`. Two of them hold of some programs only, and the theorem names which:
- `JoinsAreAlwaysKept` leaves out `task_block` of another task: it blocks a joiner again that was woken
  and has not looked yet. The lost join is real, and the run `tasks_life` leaves the call out as well.
- `SleepersWakeOnTime` assumes `DelaysAreShort`: delays of at most half the range of the counter.
  `SleepInv` says that a sleeper's deadline is at most half the range ahead of the counter; the arithmetic of one tick modulo `TickMod` is in lemmas of its own.

**`NamesEndWithTasks`: `Spec => [](module_stack_top <= Cardinality(Alive))`** of `Tasks`, the half of `ModulesMatchTasks` that needs no assumption: whichever calls end tasks, with interrupts on or off, for the whole table and a stack of any size,
there are never more names than tasks that have not ended, so none stays behind. There can be fewer. Two terminations of one task pop twice; `task_block` revives a task whose name is gone; and the code has 65536 slots (`src/kernel/fskrnl.h:214`) but room
for 4096 names (`src/kernel/fskrnl.c:438`), and drops a push that finds none. So the equality is left to the run, in which tasks end by `kill` only.

**`HeapIsSound`: `Spec => []BlocksAreSound`** of `Heap`, with its parts `BlocksAreDisjoint`,
`OnlyLatestEndsOutside` and `RemainingIsEnough`, and `HeapTypes`.
One inductive invariant `IInv` of three parts: `Numbers` (types), `Positions`
(`heap_last_position` is where the latest block ends; what is said to remain is at
least the rest of the heap plus the latest block, which has not been taken off yet)
and `Layout` (each block ends a header before the next begins). The argument that no
counter wraps (`MallocExact`) uses the test `malloc` makes of the end of the block
before; then each block begins exactly one header above that end.

**`UseIsAlwaysCounted`: `Unwritten \subseteq {0}` implies `Spec => []UseIsCounted`** of `Heap`: memory that is not written yet is zero, as in the run; otherwise
`free` of the latest block takes off what lies there. `HeadersHold` says what the headers hold, 0 or the size of the next block, and nothing from the
latest block on. The bytes in use are a sum over a set, so the module first proves what the sum of the library
computes: that its recursive function exists, that any element can be the first of the sum (`AnyFirst`), what one element adds (`SumWithout`). The library's induction theorems take an operator
and cannot be used here; `FiniteSubsets` states induction over a finite set with a set for the formula, and follows from a minimal counterexample.

**`AtaIsTruthful`, `AhciIsTruthful`, `EhciIsTruthful`**: `AtaTellsTheTruth`, `AhciTellsTheTruth`, `EhciTellsTheTruth`, and `AtaTypes`, `AhciTypes`,
`EhciTypes`. The difficulty is what earlier accesses leave behind: a command abandoned after a timeout is still in the device. Three
invariants for the drivers that tasks share: somebody waits for whatever the device still does (`AtaAttended`, `AhciAttended`); while an access nobody has overlapped is under way the
others are idle (`AtaLone`, `AhciLone`), so that the device works for it; and how far the device is at each point of such an access (`AtaFollows`, `AhciFollows`: the
registers hold its command, or the sector has moved). `EhciFollows` is the table of where the device can be at each part of a command
after any number of timeouts: it took this command, or it refuses the parts until the one that
reports failure.

**`KeysComeInOrder`, `UpperIsShifted`**: the parts of `KeysAreKept` about order, case and `kbhit`, and the types of the keyboard with the
bounds of the lines. `Later` orders three presses: of the characters read, of the
one `getchar` holds, of the one in the buffer; the last is strictly later unless the reader is between copying and clearing it, the
window in which a new key is lost but none is read twice. `OneKey` is why `kbhit` works for one key at a time: the code in the buffer is that of
the key held, so the release finds it.

**`RecallIsAlwaysSound`: `HistSpec => []RecallIsSound`** of `History`. The loop of the interrupt ends because a line with a text is ahead of it: `LineAhead` says
that the rounds made and the rounds to such a line are at most one for each line, and that there is one when a key starts the loop follows from `LinesShow`, that the lines before
the count have a text, one that was entered or a mixture, although the copy under way changes it and several lines may share the buffer at address 0.

**`PacketsMove`: `MouseSpec => PacketsMoveAsSent`** of `Mouse`. The invariant, theorem `MouseInvariant`, says that what is on the wire is the end of one packet (`WireIsEnd`), and where the
driver is in it (`InStep`): in step with the device; or, when a byte was lost or repeated and no movement byte of this packet looks like a first byte, waiting for
a first byte or at least as far as the device, so that it is in step when the packet ends. The other half is arithmetic: a movement of nine bits, taken apart into a byte and a
sign by the device, cut to eight bits by the driver, and clamped to the screen; the theorem holds for all movements of nine bits, with what the driver makes of those past eight.

**`ConsoleAlwaysSound`: `ConSpec => ConsoleIsSound`** of `Console`, for a screen of any size and with a theorem `ConsoleInvariant`. The invariant adds to `ScreenShowsPaper` that the paper below the screen is
blank, so that the row a scroll brings in is the right one; that no cell number or saved place wraps; and what `print_status` is at each symbol of a sequence,
for `tprintl` swallows the text after a sequence it does not act on. Then there is a lemma for each symbol and each final letter; `CursorStaysOnScreen` follows from the same lemmas.

**`DivisionAlwaysSound`: `DivSpec => []DivisionIsSound`** of `Arith64`, for every width that is a power of two (2, 4, ..., 64) and every pair of words. The invariant `DivInv` has in `LoopIs` what the loop
keeps: that `a` holds the bits still to divide above the bits of the quotient found, and the two, with `rem` and the bit that waits in `wrap`, make up the numerator. It starts because `__clzdi2` finds the first one bit
(`ClzFindsFirst`, with the recursive function shown to exist in `ClzExists`), so that the bits the loop skips are zeros of the quotient. A turn keeps it if the sign of `b - rem - 1`, a difference of words without a sign, says which is
less. It does when they differ by less than half the range (`WrapIs`), and they do: either the divisor is below half the range, or there is one turn only and the numerator is less than two divisors (`LoopTurn`).
The rest is signs (`AbsIs`, `SignsAre`): the quotient of the least number by -1 wraps around, as the property says. The prover knows of powers of two how many subsets a set has; `PowIs` gets the rest from there.

**`VolumeIsTyped`: `Spec => []TypeOK`** of `FatChains`, with any number of tasks whose accesses interleave, failing reads and writes, killed tasks and
power cuts. `TypeOK` is not inductive, because the code computes counts of clusters from one another. `TypeInv` adds what is true of a call wherever it is
(`Asked`: a write asks for at least one cluster, and while it fills a gap the file is shorter than the position) and what is true at one access
(`Ready`: `get_nth_cluster` has clusters left to skip and a length other than the one wanted, `freechain` has not gone round more often than there are clusters, a write
to a sector has read that sector). There is one lemma per operator that moves a call on.

**`ClustersAreNotShared`: `Alone(p)` implies `Spec => []NoSharing`** of `FatChains`. `Alone(p)` says what the run `fat_alone` is an instance of: `p` is the only
task, its programs open a file once and leave open files in place, and nothing fails. Without it `NoSharing` is false (section 3). The invariant `Good` has two halves.
`Tidy` is about the volume and the open files: at most one link or entry leads to a cluster (`Apart`), none leads to a free one (`FreeIsUnled`), the chain of an
open file starts at a cluster nothing but its own entry leads to (`Headed`), and two open files have different ones (`Distinct`). A rename is for two accesses the exception to the
first, and an entry whose chain is being freed to the second; the descriptor of a write counts with the fields the call has. `Stage` is about the call at each access: above all
that the clusters `allocchain` has taken and the rest of the chain `freechain` frees are `Loose`, in use with nothing that leads to them, and that `freechain` has gone round no more often
than there are free clusters, which is why it never gives up half-way. Each write to the table or the directory is a lemma about `Tidy` (`MarkKeeps`,
`LinkKeeps`, `ClearKeeps`, `CutKeeps`, `EntryKeeps`), and each operator that moves a call on one about `Good`. TLC checked `Good` on the constants of `fat_alone` first.

**`ChainsAreAlwaysSound`: `Alone(p)` implies `Spec => []ChainsAreSound`** of `FatChains`: `NoSharing`, and `ChainsMatchEntries`: between calls each chain ends in
the end mark and has as many clusters as its entry says. A length along a chain would be induction over data. The invariant `CallMatches` says instead that there
are two functions, how far each cluster is from the end of its chain and which cluster that end is, that agree along every link (`Ranked`); every write to the table has a lemma that says how they
change (`MarkRanks`, `LinkRanks`, `CutRanks`, `ClearRanks`). Over them, `Matched` says that every entry has the chain it should have but for the one the call is changing (`Fulfilled`), that the descriptors
say what the entries say (`Agree`), and what the call owes at each access (`Owes`): where `chain_length` and `get_nth_cluster` stand on the chain, that the clusters `allocchain` has and those it still
wants are those that are missing, that a chain that was cut has the length wanted, that a write that gives up leaves the file as it was. The calls that
begin or return have `Whole`, the same with no exception. The exclusion of sharing (`Good`) is used throughout: a first cluster nothing else leads to keeps its length while another chain is written (`EntryHeads`, `WriteHeads`). At the end
`ChainCounts` counts the clusters of a chain by their distances and `FollowRanks` walks along it. TLC checked `Matched` on the constants of `fat_alone` first.

**`FaultsAreAlwaysContained`: `Solo(p)` implies `Spec => FaultsAreContained`** of `FatChains`. `Solo(p)` says that `p` is the only task and that no read of the table fails:
a read that fails gives 0, which `allocchain` takes for a free cluster. Writes fail and power cuts come as often as `MaxFaults` says, tasks are killed, and `Disciplined` is either value: programs may remove
and rename files they hold open and use stale descriptors, so that chains are shared and freed under a call, and nothing like `Tidy` is left to build on. Two things are.
That the table has no circle is not stated along chains, which would be induction over data, but as `Grounded`: of any clusters there is one whose link leads to none of
them. A cut or a cleared link keeps this (`FewerLinks`). A new link keeps it if nothing leads from its target back to it (`OneMoreLink`), so the invariant `Safe` says for each access which
clusters lead nowhere: with a set that no link leaves (`Shut`), for those `allocchain` has taken (`Taken`), those a write frees (`Away`) and those after the cluster where
it cuts (`Ahead`). `GroundedIsAcyclic` leads back to `Follow`: a walk of `MaxCluster` links that stays in the
clusters passes one of them twice, and no link leaves the set of the clusters between the two. The second part compares `Dangle`, the free clusters something leads to, before and after each write:
`StoredDangles` and `NamedDangles` say which writes add to it, from what `Safe` says of marked clusters (`Takes`) and of the two entries of a rename (`Renames`). TLC checked `Safe` on the
constants of `fat_faults` first.

**`PromiseIsKept`: `Spec => KeepsPromise`** of `FatFiles`, the refinement: for every size of sectors and clusters, every volume, all writes, reads and
seeks, and any of the accesses failing, to sectors or to the table, each step of `FatFiles` is a call of `Files` or none. Sizes wrap at any `FileWord` a cluster fits into; below `Limit` the arithmetic
is exact (`RequiredIs`), and a write that ends above it is a `WriteLoses`. `FilesAssumption` says that sectors and
clusters are not empty, that what programs write are finite sequences of bytes, and that the value the model gives to bytes nobody wrote is none of these.
`FilesInvariant` is the inductive invariant, `FilesOrRuined`: the file is ruined, after which the module takes no more steps, or `FilesInv` holds, of four parts: types and a chain without repetitions (`Typed`); the entry leads to bytes within its chain (`DiskOK`); the
descriptor has the chain, and the entry is behind it or equal to it (`DescriptorOK`); and `CallOK`, how far each call is. The last one is the argument: a read has copied what
the file holds (`Reading`); a write has put w bytes, and what the clusters hold is the image of the file with w bytes of the write in it (`Holds`, `Image`), with the gap filled up to some byte
first (`FillingGap`, `FillingSector`) and the loop after it (`PuttingSector`). `KeepsPromise` is about states at the ends of calls and says nothing in between, so it needs all of these. `Fits` is there because a gap must not run out of room
half-way: `fat_write` looks for room for the whole gap before it fills any of it. The lemmas are about quotients and remainders (a byte of a file lies in one cluster of its chain, a sector in one cluster), about
the lowest free clusters (`LowestLists`), about the chain that grows or shrinks (`EnsureSize`: the bytes in both stay), and about a sector put (`SectorWritten`: the bytes outside stay). Then there is a lemma for each action that it keeps
`FilesInv`, and one that it is a step of `Files`.

**`CutAlwaysKeepsFile`, `FilesAreTyped`**: `CutKeepsFile` and the type invariant of `FatFiles`, from the same invariant: what it says of the entry
during a write while no access has failed is what a power cut leaves. Both say of a ruined file no more than the types.

**`VolumeAlwaysKeeps`: `MCSpec => []VolumeKeeps`** of `MCFatFiles`, its parts `volume` and `attributes`. Of the volume: for any boot sector, either kind of table and any
partition, an entry is a whole word of the array its sectors hold and none are at the same place (`EntryLies`, `EntryPlace`); a cluster is a run of sectors no other cluster and no table has part of
(`ApartIsData`); `neededcluster` returns the least number of clusters that hold a size (`NeededIs`, over `LeastCount`), or 0 for a size the volume has no room for and for one so large that the code's sum wraps, which
`NeededIsLeast` names as an exception; and the free count of `statfs` is at most the number of clusters. Stating the last exception came from the proof: the property had left it out, and held in the run only
because no size there was that large. Of the attributes: for a table of any length, `AttrInv` says that a key is in at most one entry, that an entry holds what was last set under its key, and what the last call answered;
each call is a lemma about the table it leaves (`SetKeeps`, `RemoveKeeps`); a table that is full is one whose entries are all used (`FullTable`).

**`DirectoryAlwaysKeeps`, `SearchesAlwaysAgree`, `FilesAndDirectoriesAreTyped`**: `DirectoryKeeps`, `SearchesAgree` and `FilesTypeOK` of `MCFatFiles`, for directories, sectors and names of any size. What is
at stake is what calls leave behind: deleting a name erases at most some of its parts, a power cut any of them, and the five searches look at the slots before an entry by five rules. `DirectoryInvariant` is the
inductive invariant, `DirInv`. Its part `Laid` says of each part of a long name that the slot of its entry, as far ahead as its number says, is in the same sector, whoever has that slot now; and of an
erased part that erased parts follow it up to a deleted entry. So no erased part lies before an entry, and the rules differ in nothing (`RunsAgree`); the parts right before an entry are its own, or left over from
another one, which the checksum tells apart. It is kept because `findfreeslots` takes the first slots of a free run (`FreeSlotsFound`): a new entry never separates an erased part from what follows it. `Ahead` says that an open directory has still to read only entries
that are ahead of it and that a search reaches. Each call is a lemma about the images it leaves one after the other (`PutByFput`, `PutByMkdir`, `Removed`, `Marked`, `Renamed`), all made of three changes (`PutKeeps`, `WithoutKeeps`, `AttributeKeeps`), which keep the
names of all other entries (`KeepsEntries`). For `getdents`, the bytes of a set of records are a recursive function over the set; that it exists and does not depend on the order is proved first (`TotalExists`, `AnyEntryFirst`).
`SearchesAlwaysAgree` assumes nothing of the checksums, which have eight bits. When two aliases share one, parts left over from one can be read as the name of the other, by some searches and not by others; the property therefore says of what
`findfile` gives that its alias has the checksum of the entry the calls find (`Alike`). Of a directory `findfile` gives the entry of its name inside it, if there is one; the property takes for the inner directory the same slots or an empty one (`Inners`).
TLC checked `DirInv` on the constants of `fat_files` first.

**`ListingsAreSorted`: `MCSpec => []ListingIsSorted`**, for any number of elements, any keys and any length from 2 that is left to insertion; `SearchesAlwaysAgree` rests on it for what the shell shows.
The scans of `qsort` look at no bound. The inductive invariant is `SortInv`. `Parting` says of the range being partitioned that up to `i` no key is larger than the pivot and from `j` on none is smaller: the element at `i` stops the scan
that goes down and the pivot, beside the last element, the one that goes up (`ScansStop`), also when all keys are equal. `Settled` says of the whole listing that two elements out of order are in one range that
is still to sort; `Ranges` that these ranges are apart and that one with `k` others below it is at most `n` divided by 2^k long, which bounds the stack and is true because the longer part is pushed first (`PushedIs`).
`Arranged` says that the elements are a permutation. The insertion is a definition by ranks, which `RanksAre` shows to be a bijection. Of powers of two the prover knows the number of subsets of a set; `PowIs` gets the rest from there.

**`DevicesTypes`: `MCSpec => []DevicesTypeOK`**: the four invariants side by side.

Only model-checked: every liveness property; `LostOnlyByMkdir`, which
speaks of what can be reached along a chain from the variables of a call; the contexts, the dates, and the paths and names. `SlowTypistGetsTheLine`, the third
part of `KeysAreKept`, is about edits of a sequence. Liveness under fairness and
ENABLED are out of reach of the prover, and induction over data where it cannot be stated as `FiniteSubsets` states it. The encodings of `LongNames` and the folds of `Paths`
are recursions over data; what they compute stays with TLC.

## 8. Plan

No module holds a `RECURSIVE` operator, so what is left can be proved about as it stands: `LostOnlyByMkdir` of `FatChains`, with the functions of
`Ranked` in place of the walk along a chain, and the switch of `Contexts`.
