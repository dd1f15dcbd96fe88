----------------------------- MODULE FatChains -----------------------------
(***************************************************************************)
(* The cluster chains of the FAT volume (kernel/fat.c): how the calls that *)
(* change files and directories allocate, walk, cut and free chains and    *)
(* when they write the directory entry.                                    *)
(*                                                                         *)
(* A call is a sequence of sector accesses.  Each access is a system call  *)
(* of its own that turns interrupts on (system calls 413 and 414), so      *)
(* another task's call can come between any two of them: an access is a    *)
(* step here.  There is no lock.  An entry of the table is changed by      *)
(* reading its sector, changing the copy and writing the copy back, and    *)
(* the table is taken to fit in one sector, the directory in another.      *)
(*                                                                         *)
(* Sizes and positions are counted in clusters and file contents are left  *)
(* out.  Only the first copy of the table is a variable: the others are    *)
(* written and never read.                                                 *)
(***************************************************************************)
EXTENDS Integers, Sequences, FiniteSets

CONSTANTS
    Callers,       \* the tasks that use the volume at the same time
    MaxCluster,    \* fat_max_cluster()
    Slots,         \* the places for entries in the directory
    Files,         \* the slots that hold a file at the start
    Descriptors,   \* MIN_FD .. MAX_FD - 1
    MaxSize,       \* bound on the size of a file, in clusters
    MaxFaults,     \* bound on failed writes, killed tasks and power cuts
    MaxBadReads,   \* bound on the reads of the table that fail
    Disciplined    \* programs open a file once and leave open files in place

ASSUME FatAssumption ==
    /\ MaxCluster \in Nat /\ MaxCluster >= 2
    /\ Slots \subseteq Nat \ {0} /\ Files \subseteq Slots /\ IsFiniteSet(Slots)
    /\ Descriptors \subseteq Nat \ {0}
    /\ MaxSize \in Nat /\ MaxFaults \in Nat /\ MaxBadReads \in Nat
    /\ Disciplined \in BOOLEAN

VARIABLES
    fat,        \* the table: 0 when a cluster is free, the next one, or EOC
    dir,        \* the directory entries
    fd_table,   \* the open descriptors and the fields of their FAT_FILE
    call,       \* the call each task is in and its local variables
    faults,     \* failed writes, killed tasks and power cuts so far
    badReads    \* failed reads so far

vars == <<fat, dir, fd_table, call, faults, badReads>>

Clusters == 2 .. MaxCluster
None == 0                    \* no cluster, the NULL pointer
EOC == MaxCluster + 1        \* any value from the end-of-chain mark up
Links == Clusters \cup {None, EOC}

Kinds == {"free", "file", "directory"}
Entries == [kind : Kinds, first_cluster : Clusters \cup {None},
            size : 0 .. MaxSize]
Closed == [open |-> FALSE, slot |-> 0, first_cluster |-> None, size |-> 0]

Operations == {"none", "open", "write", "close", "unlink", "mkdir", "rename"}

\* The writes to the table, named for the code they are in; the accesses that
\* only read it; the writes to the directory; the accesses that only read it.
FatWrites == {"mark", "link", "clear", "cut", "append"}
FatReads  == {"scan", "free", "length", "nth", "next"}
DirWrites == {"entry", "attribute", "erase"}
DirReads  == {"lookup", "place"}
Stages    == UNION {FatWrites, FatReads, DirWrites, DirReads, {"idle", "return"}}

\* A task that is in no call.  `slot' is the entry a call is given and `to' the
\* one it makes; `kind', `chain' and `size' are what it has read of the entry or
\* has in its FAT_FILE; `buffer' is the sector a write has read.
Idle == [op |-> "none", at |-> "idle", ok |-> TRUE, fd |-> 0, slot |-> 0,
         to |-> 0, kind |-> "free",
         chain |-> None, size |-> 0, position |-> 0, goal |-> 0, gap |-> FALSE,
         count |-> 0, left |-> 0, found |-> 0, cluster |-> None, next |-> None,
         first |-> None, previous |-> None, tail |-> None, undo |-> FALSE,
         buffer |-> <<>>]

OptionalClusters == Clusters \cup {None}
Sizes == 0 .. MaxSize

TypeOK ==
    /\ fat \in [Clusters -> Links]
    /\ dir \in [Slots -> Entries]
    /\ \A d \in Descriptors :
          fd_table[d] \in [open : BOOLEAN, slot : Slots \cup {0},
                           first_cluster : OptionalClusters, size : Sizes]
    /\ \A p \in Callers :
          /\ call[p].op \in Operations /\ call[p].at \in Stages
          /\ call[p].fd \in Descriptors \cup {0}
          /\ {call[p].slot, call[p].to} \subseteq Slots \cup {0}
          /\ call[p].kind \in Kinds
          /\ {call[p].chain, call[p].cluster, call[p].first, call[p].previous,
              call[p].tail} \subseteq OptionalClusters
          /\ call[p].next \in Links
          /\ {call[p].size, call[p].position, call[p].goal, call[p].count}
                \subseteq Sizes
          /\ call[p].left \in 0 .. MaxCluster
          /\ call[p].found \in 0 .. MaxCluster + 1
    /\ faults \in 0 .. MaxFaults /\ badReads \in 0 .. MaxBadReads

-----------------------------------------------------------------------------
(* The local steps of a call: what it does next, as a function of its      *)
(* record c.  Nothing here reads or writes the volume.                     *)

Goto(c, stage) == [c EXCEPT !.at = stage, !.buffer = <<>>]
Return(c, ok)  == [Goto(c, "return") EXCEPT !.ok = ok, !.first = None]

\* freechain(k): `found' counts its iterations.
freechain(c, k) == [Goto(c, "free") EXCEPT !.cluster = k, !.found = 0]

AllocGivesUp(c) == Return(c, FALSE)

\* allocchain gives back what it has when it fails.
AllocFails(c) ==
    IF c.first = None THEN Return(c, FALSE)
                      ELSE freechain([c EXCEPT !.undo = TRUE], c.first)

\* allocchain(n), for a chain of its own or to follow cluster `tail'.
allocchain(c, n, tail) ==
    IF n > Cardinality(Clusters)
      THEN Return(c, FALSE)
      ELSE [Goto(c, "scan") EXCEPT !.cluster = 2, !.left = n, !.tail = tail,
                                   !.first = None, !.previous = None]

\* resizechain: a file without clusters gets a chain, any other is measured.
resizechain(c) ==
    IF c.chain = None
      THEN allocchain(c, c.count, None)
      ELSE [Goto(c, "length") EXCEPT !.cluster = c.chain, !.found = 0]

ResizedPast(c) ==
    IF c.gap THEN resizechain([c EXCEPT !.gap = FALSE, !.count = c.size + 1])
             ELSE [Goto(c, "entry") EXCEPT !.size = c.count + 1]

\* fat_file_ensure_size has succeeded: the zero fill of a gap starts, or the
\* data is written and the size goes to the directory entry.
Resized(c) ==
    IF c.gap THEN resizechain([c EXCEPT !.gap = FALSE, !.count = c.size + 1])
             ELSE [Goto(c, "entry") EXCEPT !.size = c.count]

\* allocchain has its clusters.
Allocated(c) ==
    CASE c.op = "mkdir" -> Goto(c, "place")
      [] c.op # "mkdir" /\ c.tail # None -> Goto(c, "append")
      [] OTHER -> Resized([c EXCEPT !.chain = c.first])

\* The end of an iteration of allocchain's loop.
NextScan(c) ==
    IF c.left = 0 THEN Allocated(c)
    ELSE IF c.cluster = MaxCluster THEN AllocFails(c)
    ELSE [Goto(c, "scan") EXCEPT !.cluster = c.cluster + 1]

Linked(c) == NextScan([c EXCEPT !.previous = c.cluster, !.left = c.left - 1])

Marked(c) ==
    LET m == [c EXCEPT !.first = IF c.first = None THEN c.cluster ELSE c.first]
    IN  IF c.previous = None THEN Linked(m) ELSE Goto(m, "link")

\* freechain has returned; unlink and rmdir do not look at its result.
Freed(c, ok) ==
    CASE c.op = "unlink" -> Goto(c, "erase")
      [] c.op = "open" /\ ok ->
            [Goto(c, "entry") EXCEPT !.chain = None, !.size = 0]
      [] c.op = "write" /\ ok /\ ~c.undo -> Resized(c)
      [] OTHER -> Return(c, FALSE)

Cleared(c) ==
    CASE c.next \in {None, EOC} -> Freed(c, TRUE)
      [] c.next \in Clusters /\ c.found < MaxCluster ->
            [Goto(c, "free") EXCEPT !.cluster = c.next]
      [] OTHER -> Freed(c, FALSE)

AtNthOneMore(c) ==
    IF c.left > 0 THEN Goto(c, "nth")
    ELSE IF c.found > c.count THEN Goto(c, "next")
    ELSE allocchain(c, c.count - c.found + 1, c.cluster)

\* get_nth_cluster has found the last cluster to keep, or the last there is.
AtNth(c) ==
    IF c.left > 0 THEN Goto(c, "nth")
    ELSE IF c.found > c.count THEN Goto(c, "next")
    ELSE allocchain(c, c.count - c.found, c.cluster)

\* chain_length has counted n clusters.
Measured(c, n) ==
    LET keep == IF n > c.count THEN c.count ELSE n
    IN  IF n = c.count
          THEN Resized(c)
          ELSE AtNth([c EXCEPT !.found = n, !.cluster = c.chain,
                               !.left = keep - 1])

\* fat_file_update_directory_entry has returned: the zero fill of a gap goes on
\* whatever it says and ends with one more update, which must succeed.
EntryWritten(c, ok) ==
    CASE c.size < c.position -> resizechain([c EXCEPT !.count = c.size + 1])
      [] c.size = c.position /\ c.position > 0 ->
            [Goto(c, "entry") EXCEPT !.position = 0]
      [] c.position = 0 /\ c.size < c.goal /\ ok ->
            resizechain([c EXCEPT !.count = c.goal])
      [] OTHER -> Return(c, ok)

\* What follows each write to the table when it succeeds and when it fails.
Written(c) ==
    CASE c.at = "mark"   -> Marked(c)
      [] c.at = "link"   -> Linked(c)
      [] c.at = "clear"  -> Cleared(c)
      [] c.at = "cut"    -> freechain(c, c.next)
      [] c.at = "append" -> Resized(c)

NotWritten(c) ==
    CASE c.at \in {"mark", "link", "append"} -> AllocFails(c)
      [] c.at = "clear" -> Freed(c, FALSE)
      [] c.at = "cut"   -> Return(c, FALSE)

-----------------------------------------------------------------------------
(* Sector accesses.                                                        *)

At(p, stage) == call[p].at = stage

Step(p, c) == /\ call' = [call EXCEPT ![p] = c]
              /\ UNCHANGED fd_table

\* The value v that readcluster(k) returns: 0 when the sector cannot be read.
readcluster(k, v) ==
    \/ v = fat[k] /\ UNCHANGED badReads
    \/ v = 0 /\ badReads < MaxBadReads /\ badReads' = badReads + 1

\* The step in which a call reads entry v of the table and becomes After(c, v).
Reads(p, stage, After(_, _)) ==
    /\ At(p, stage)
    /\ \E v \in Links : /\ readcluster(call[p].cluster, v)
                        /\ Step(p, After(call[p], v))
    /\ UNCHANGED <<fat, dir, faults>>

TakesEnds(c, v) == IF v \in {0, EOC} THEN Goto(c, "mark") ELSE NextScan(c)
TakesUnmarked(c, v) == IF v = 0 THEN Marked(c) ELSE NextScan(c)

Scanned(c, v) == IF v = 0 THEN Goto(c, "mark") ELSE NextScan(c)

ToClear(c, v) == [Goto(c, "clear") EXCEPT !.found = c.found + 1, !.next = v]

CountsNothing(c, v) ==
    CASE v = None -> Return(c, FALSE)
      [] v = EOC  -> Measured(c, c.found + 1)
      [] OTHER    -> [c EXCEPT !.cluster = v]

Counted(c, v) ==
    CASE c.found = MaxCluster \/ v = None -> Return(c, FALSE)
      [] c.found < MaxCluster /\ v = EOC -> Measured(c, c.found + 1)
      [] OTHER -> [c EXCEPT !.found = c.found + 1, !.cluster = v]

Walked(c, v) ==
    IF v \in Clusters THEN AtNth([c EXCEPT !.cluster = v, !.left = c.left - 1])
                      ELSE Return(c, FALSE)

CutsNothing(c, v) == IF v \in Clusters THEN freechain(c, v) ELSE Resized(c)

ToCut(c, v) == IF v \in Clusters THEN [Goto(c, "cut") EXCEPT !.next = v]
                                 ELSE Resized(c)

Scan(p)            == Reads(p, "scan", Scanned)
ReadToFree(p)      == Reads(p, "free", ToClear)
chain_length(p)    == Reads(p, "length", Counted)
get_nth_cluster(p) == Reads(p, "nth", Walked)
ReadToCut(p)       == Reads(p, "next", ToCut)

\* The cluster each write changes and the value it gets.
Target(c) == CASE c.at \in {"mark", "clear", "cut"} -> c.cluster
               [] c.at = "link"   -> c.previous
               [] c.at = "append" -> c.tail
Value(c)  == CASE c.at \in {"mark", "cut"} -> EOC
               [] c.at = "clear"  -> 0
               [] c.at = "link"   -> c.cluster
               [] c.at = "append" -> c.first

\* writecluster reads the sector, changes the copy, writes the copy back.
ReadSector(p) ==
    /\ call[p].at \in FatWrites /\ call[p].buffer = <<>>
    /\ Step(p, [call[p] EXCEPT !.buffer = fat])
    /\ UNCHANGED <<fat, dir, faults, badReads>>

Store(c) == fat' = [c.buffer EXCEPT ![Target(c)] = Value(c)]

writecluster(p) ==
    /\ call[p].at \in FatWrites /\ call[p].buffer # <<>>
    /\ Store(call[p])
    /\ Step(p, Written(call[p]))
    /\ UNCHANGED <<dir, faults, badReads>>

\* One access of writecluster fails: before the first copy of the table is
\* written, or after, when a later copy cannot be.
WriteFails(p) ==
    /\ faults < MaxFaults
    /\ call[p].at \in FatWrites
    /\ faults' = faults + 1
    /\ \/ UNCHANGED fat
       \/ call[p].buffer # <<>> /\ Store(call[p])
    /\ Step(p, NotWritten(call[p]))
    /\ UNCHANGED <<dir, badReads>>

-----------------------------------------------------------------------------
(* The calls.                                                              *)

Least(S) == CHOOSE x \in S : \A y \in S : x <= y

\* A descriptor is used by one task at a time, and sizes are bounded.
Usable(d) == fd_table[d].open /\ \A p \in Callers : call[p].fd # d

\* What programs may do with a file that is open or being opened or removed.
InUse(s) == \/ \E d \in Descriptors : fd_table[d].open /\ fd_table[d].slot = s
            \/ \E p \in Callers : ~At(p, "idle") /\ s \in {call[p].slot, call[p].to}
Allowed(s) == Disciplined => ~InUse(s)

Start(p, c) == /\ At(p, "idle")
               /\ Step(p, c)
               /\ UNCHANGED <<fat, dir, faults, badReads>>

\* sys_open_handler takes the lowest free descriptor first and fills it in
\* last.  A file opened to write is emptied (`gap' is unused by open and says
\* whether it is); one opened to append is not.
sys_open_handler(p) ==
    LET free == {d \in Descriptors : ~fd_table[d].open}
    IN  /\ free # {}
        /\ \E s \in Slots, truncate \in BOOLEAN :
              /\ Allowed(s)
              /\ Start(p, [Goto(Idle, "lookup") EXCEPT
                             !.op = "open", !.fd = Least(free), !.slot = s,
                             !.gap = truncate])

\* fat_unlink of a file and fat_rmdir of an empty directory.
fat_unlink(p) ==
    \E s \in Slots :
        /\ Allowed(s)
        /\ Start(p, [Goto(Idle, "lookup") EXCEPT !.op = "unlink", !.slot = s])

\* fat_rename makes a second entry for the chain before it deletes the first.
fat_rename(p) ==
    \E s \in Slots :
        /\ Allowed(s)
        /\ Start(p, [Goto(Idle, "lookup") EXCEPT !.op = "rename", !.slot = s])

\* The path is looked up and the entry is read, in one step.  The code reads a
\* directory sector by sector and along its chain (fat.c:1530-1660), without a
\* bound of its own; so does the test of fat_rmdir for an empty directory (5028).
Lookup(p) ==
    LET c == call[p]
        e == dir[c.slot]
        f == [c EXCEPT !.kind = e.kind, !.chain = e.first_cluster,
                       !.size = e.size, !.gap = FALSE]
    IN  /\ At(p, "lookup")
        /\ Step(p,
             CASE \/ e.kind = "free"
                  \/ c.op = "open" /\ e.kind = "directory" -> Return(c, FALSE)
               [] c.op = "open" /\ e.kind = "file" /\ ~c.gap -> Return(f, TRUE)
               [] c.op = "open" /\ e.kind = "file" /\ c.gap ->
                     IF e.first_cluster = None
                       THEN [Goto(f, "entry") EXCEPT !.size = 0]
                       ELSE freechain(f, e.first_cluster)
               [] c.op = "unlink" /\ e.kind # "free" ->
                     IF e.first_cluster = None
                       THEN Goto(f, "erase")
                       ELSE freechain(f, e.first_cluster)
               [] c.op = "rename" /\ e.kind # "free" -> Goto(f, "place"))
        /\ UNCHANGED <<fat, dir, faults, badReads>>

\* fat_mkdir takes a cluster before it looks for a place in the directory.
fat_mkdir(p) ==
    Start(p, allocchain([Idle EXCEPT !.op = "mkdir"], 1, None))

findfreeslots(p) ==
    LET free == {s \in Slots : dir[s].kind = "free"}
    IN  /\ At(p, "place")
        /\ Step(p, IF free = {}
                     THEN Return(call[p], FALSE)
                     ELSE [Goto(call[p], "entry") EXCEPT !.to = Least(free)])
        /\ UNCHANGED <<fat, dir, faults, badReads>>

\* fat_write of the part of a file that ends in cluster n, at a position in the
\* file or just after it, or after a gap that ends in cluster m.
Resize(c) == IF c.goal <= c.size THEN Goto(c, "entry") ELSE resizechain(c)

fat_write(p) ==
    \E d \in Descriptors, n \in 1 .. MaxSize, m \in Sizes :
        LET f == fd_table[d]
            c == [Idle EXCEPT !.op = "write", !.fd = d, !.slot = f.slot,
                              !.chain = f.first_cluster, !.size = f.size,
                              !.goal = n]
        IN  /\ Usable(d)
            /\ \/ m = 0 /\ Start(p, Resize([c EXCEPT !.count = n]))
               \/ /\ f.size < m /\ m < n
                  /\ Start(p, resizechain([c EXCEPT !.count = m, !.position = m,
                                                    !.gap = TRUE]))

\* Every descriptor here can write, so fat_close writes the entry.
fat_close(p) ==
    \E d \in Descriptors :
        LET f == fd_table[d]
        IN  /\ Usable(d)
            /\ Start(p, [Goto(Idle, "entry") EXCEPT
                           !.op = "close", !.fd = d, !.slot = f.slot,
                           !.chain = f.first_cluster, !.size = f.size])

\* The place of the entry a call writes, and what it writes over the entry e it
\* reads there.  A new entry is that of a file until its attribute is written;
\* one that has been deleted stays so, for only its name says it is.
Place(c) == IF c.to # 0 /\ c.at # "erase" THEN c.to ELSE c.slot

NewEntry(c, e) ==
    CASE c.at = "erase" -> [kind |-> "free", first_cluster |-> None, size |-> 0]
      [] c.at = "attribute" -> [e EXCEPT !.kind = c.kind]
      [] c.at = "entry" /\ c.op = "mkdir" ->
            [kind |-> "directory", first_cluster |-> c.first, size |-> 0]
      [] c.at = "entry" /\ c.op = "rename" ->
            [kind |-> "file", first_cluster |-> c.chain, size |-> c.size]
      [] OTHER -> IF e.kind = "free" THEN e
                  ELSE [e EXCEPT !.first_cluster = c.chain, !.size = c.size]

AfterEntry(c, ok) ==
    CASE c.op = "write" -> EntryWritten(c, ok)
      [] c.op = "rename" /\ c.at = "entry" /\ ok -> Goto(c, "attribute")
      [] c.op = "rename" /\ c.at = "attribute" -> Goto(c, "erase")
      [] OTHER -> Return(c, ok)

ReadDirectory(p) ==
    /\ call[p].at \in DirWrites /\ call[p].buffer = <<>>
    /\ Step(p, [call[p] EXCEPT !.buffer = dir])
    /\ UNCHANGED <<fat, dir, faults, badReads>>

WriteDirectory(p) ==
    LET c == call[p]
    IN  /\ c.at \in DirWrites /\ c.buffer # <<>>
        /\ dir' = [c.buffer EXCEPT ![Place(c)] = NewEntry(c, @)]
        /\ Step(p, AfterEntry(c, TRUE))
        /\ UNCHANGED <<fat, faults, badReads>>

WriteDirectoryFails(p) ==
    /\ faults < MaxFaults
    /\ call[p].at \in DirWrites
    /\ faults' = faults + 1
    /\ Step(p, AfterEntry(call[p], FALSE))
    /\ UNCHANGED <<fat, dir, badReads>>

\* The FAT_FILE a call leaves behind.
Left(c) == [open |-> TRUE, slot |-> c.slot, first_cluster |-> c.chain,
            size |-> c.size]

\* The call returns to the program.
Returns(p) ==
    LET c == call[p]
    IN  /\ At(p, "return")
        /\ call' = [call EXCEPT ![p] = Idle]
        /\ fd_table' =
              CASE c.op = "write" \/ (c.op = "open" /\ c.ok) ->
                      [fd_table EXCEPT ![c.fd] = Left(c)]
                [] c.op = "close" -> [fd_table EXCEPT ![c.fd] = Closed]
                [] OTHER -> fd_table
        /\ UNCHANGED <<fat, dir, faults, badReads>>

\* Another task kills the one in the call; the descriptors are the system's.
TaskKilled(p) ==
    LET c == call[p]
    IN  /\ faults < MaxFaults
        /\ ~At(p, "idle")
        /\ faults' = faults + 1
        /\ call' = [call EXCEPT ![p] = Idle]
        /\ fd_table' = IF c.op = "write"
                         THEN [fd_table EXCEPT ![c.fd] = Left(c)]
                         ELSE fd_table
        /\ UNCHANGED <<fat, dir, badReads>>

\* The machine stops and starts again with what is on the disk.
PowerCut ==
    /\ faults < MaxFaults
    /\ faults' = faults + 1
    /\ call' = [p \in Callers |-> Idle]
    /\ fd_table' = [d \in Descriptors |-> Closed]
    /\ UNCHANGED <<fat, dir, badReads>>

-----------------------------------------------------------------------------
\* The volume starts with empty files on it: no call creates one.
Init ==
    /\ fat = [c \in Clusters |-> 0]
    /\ dir = [s \in Slots |-> [kind |-> IF s \in Files THEN "file" ELSE "free",
                               first_cluster |-> None, size |-> 0]]
    /\ fd_table = [d \in Descriptors |-> Closed]
    /\ call = [p \in Callers |-> Idle]
    /\ faults = 0 /\ badReads = 0

Begin(p) == sys_open_handler(p) \/ fat_unlink(p) \/ fat_rename(p)
                \/ fat_mkdir(p) \/ fat_write(p) \/ fat_close(p)

Proceed(p) ==
    \/ Lookup(p) \/ Scan(p) \/ ReadToFree(p) \/ chain_length(p)
    \/ get_nth_cluster(p) \/ ReadToCut(p) \/ ReadSector(p) \/ writecluster(p)
    \/ WriteFails(p) \/ findfreeslots(p) \/ ReadDirectory(p)
    \/ WriteDirectory(p) \/ WriteDirectoryFails(p) \/ Returns(p)

Next == (\E p \in Callers : Begin(p) \/ Proceed(p) \/ TaskKilled(p)) \/ PowerCut

Spec == Init /\ [][Next]_vars

\* A task inside a call is scheduled again and the disk answers.
FairSpec == Spec /\ \A p \in Callers : WF_vars(Proceed(p))

-----------------------------------------------------------------------------
(* Safety.                                                                 *)

\* The n-th link of the chain that starts at cluster k.
Follow(k) ==
    LET walk[n \in 0 .. MaxCluster] ==
            IF n = 0 THEN k
            ELSE IF walk[n - 1] \in Clusters THEN fat[walk[n - 1]]
            ELSE walk[n - 1]
    IN  walk

Chain(k) == {Follow(k)[n] : n \in 0 .. MaxCluster} \cap Clusters

\* No chain runs in a circle while one task at a time uses the volume, whatever
\* it writes through which descriptor, whichever write fails and whenever the
\* task or the machine stops.
Acyclic == \A k \in Clusters : Follow(k)[MaxCluster] \notin Clusters

\* The entries that lead to cluster k, but for those a rename has replaced.
Renamed == {call[p].slot : p \in {q \in Callers :
                call[q].op = "rename" /\ call[q].at \in {"attribute", "erase"}}}
Owners(k) == {s \in Slots \ Renamed : dir[s].kind # "free"
                                      /\ dir[s].first_cluster = k}
Predecessors(k) == {j \in Clusters : fat[j] = k}

\* While one task at a time uses the volume and nothing fails, a cluster follows
\* one cluster, or is the first of one entry, or is neither:
\* no two files or directories share one.
NoSharing ==
    \A k \in Clusters : Cardinality(Owners(k)) + Cardinality(Predecessors(k)) <= 1

\* Only two steps can leave an entry or a link that leads to a free cluster:
\* clearing the cluster, and writing the entry of a file from a descriptor whose
\* file was removed since.  A chain is marked, linked and appended in an order
\* that leaves none wherever a write fails, the task is killed or the power goes.
Dangling == {k \in Clusters : fat[k] = 0 /\ Owners(k) \cup Predecessors(k) # {}}

Outdated(p, k) ==
    /\ call[p].at = "entry" /\ call[p].fd # 0
    /\ fd_table[call[p].fd].open /\ fd_table[call[p].fd].first_cluster = k

DanglingOnlyByFreeing ==
    \A k \in Dangling' \ Dangling :
        \E p \in Callers : \/ call[p].at = "clear" /\ call[p].cluster = k
                           \/ Outdated(p, k)

\* Between calls the chain of a file has as many clusters as its size needs
\* and that of a directory has one, and every chain ends in the end mark.
ChainsMatchEntries ==
    (\A p \in Callers : At(p, "idle")) =>
        \A s \in Slots :
            LET e == dir[s]
                k == e.first_cluster
            IN  e.kind # "free" =>
                  IF k = None
                    THEN e.kind = "file" /\ e.size = 0
                    ELSE /\ Follow(k)[MaxCluster] = EOC
                         /\ Cardinality(Chain(k)) =
                              IF e.kind = "file" THEN e.size ELSE 1

\* The clusters in use that neither an entry, a descriptor nor the variables of
\* a call lead to.
Held(c) == {c.first, c.chain}
           \cup IF c.at \in {"link", "free", "clear"} THEN {c.cluster} ELSE {}
Roots == {dir[s].first_cluster : s \in {t \in Slots : dir[t].kind # "free"}}
         \cup {fd_table[d].first_cluster : d \in Descriptors}
         \cup UNION {Held(call[p]) : p \in Callers}
Lost == {k \in Clusters : fat[k] # 0}
            \ UNION {Chain(k) : k \in Roots \cap Clusters}

\* Clusters are lost only by a mkdir that finds no place in its directory: it
\* does not give back the cluster it has taken.
LostOnlyByMkdir ==
    [][Lost' \subseteq Lost
          \/ \E p \in Callers : /\ call[p].op = "mkdir" /\ call[p].at = "place"
                               /\ ~call'[p].ok]_vars

\* What a file system owes a task that has it to itself: NoSharing and
\* ChainsMatchEntries, whatever the order of its calls.
ChainsAreSound == NoSharing /\ ChainsMatchEntries

\* What is left of it after a failed write, a killed task or a power cut, and whatever
\* a task does to the files it holds open: Acyclic and DanglingOnlyByFreeing.
FaultsAreContained == [][Acyclic' /\ DanglingOnlyByFreeing]_vars

-----------------------------------------------------------------------------
(* What must happen.                                                       *)

\* Every call returns, even when tasks that work on the same volume have made
\* a chain run in a circle under it: the walks along the chain of a file count
\* their steps.  The scans of a directory do not, and are no part of this: Lookup.
CallsReturn == \A p \in Callers : ~At(p, "idle") ~> At(p, "idle")
=============================================================================
