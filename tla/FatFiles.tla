------------------------------ MODULE FatFiles ------------------------------
(***************************************************************************)
(* The contents of a file of the FAT volume (kernel/fat.c): fat_open,      *)
(* fat_seek, fat_read, fat_write and fat_close on one descriptor, sector   *)
(* access by sector access.  Files states what they promise together.      *)
(*                                                                         *)
(* The table is seen through the chain of the file; how the chain is       *)
(* changed, entry by entry, is the subject of FatChains, so resizechain is *)
(* one step here, that takes the lowest free clusters.  When an access to  *)
(* the table fails in it, either nothing has been changed and the call is  *)
(* refused, or the chains may be anything: then the file counts as ruined, *)
(* and this model follows it no further.  The bytes of a cluster that is   *)
(* given up count as Stale from then on.                                   *)
(***************************************************************************)
EXTENDS Integers, Sequences, FiniteSets, SequencesExt

CONSTANTS
    bytes_per_sector, sector_per_cluster,
    MaxCluster,    \* fat_max_cluster()
    FileWord,      \* 2^32: sizes and positions are unsigned long
    Zero, Stale,   \* the byte of a gap, and a byte from before the file
    Sources,       \* the byte sequences a program may write
    Counts,        \* the lengths it may ask to read
    Positions,     \* the positions it may seek to
    MaxWrites,     \* bound on the writes
    MaxErrors      \* bound on the accesses to sectors and to the table that fail

ASSUME FilesAssumption ==
    /\ bytes_per_sector \in Nat \ {0} /\ sector_per_cluster \in Nat \ {0}
    /\ MaxCluster \in Nat
    /\ FileWord \in Nat /\ bytes_per_sector * sector_per_cluster <= FileWord
    /\ \A s \in Sources : s \in Seq(ToSet(s)) /\ Stale \notin ToSet(s)
    /\ Zero # Stale
    /\ Counts \subseteq Nat /\ Positions \subseteq 0 .. FileWord - 1
    /\ MaxWrites \in Nat /\ MaxErrors \in Nat

VARIABLES
    data,     \* the bytes of each cluster
    chain,    \* the clusters of the file, as the table links them
    lost,     \* the clusters in no chain and not free
    entry,    \* the directory entry: first_cluster and size
    fp,       \* the FAT_FILE
    call,     \* the call in progress and its local variables
    reply,    \* what the latest read or write gave back
    ruined,   \* the clusters of the file are no longer what the calls made them
    writes, errors

vars == <<data, chain, lost, entry, fp, call, reply, ruined, writes, errors>>

Clusters == 2 .. MaxCluster
None == 0
cluster_size == bytes_per_sector * sector_per_cluster
Bytes == {Zero, Stale} \cup UNION {ToSet(s) : s \in Sources}

\* The sequences a mode stands for: O_RDWR alone is "r+", which fat_open takes
\* for "r".
Modes == {"r", "w", "w+", "a", "a+"}
Closed == [mode |-> "closed", first_cluster |-> None, size |-> 0, position |-> 0]
readable == fp.mode \in {"r", "w+", "a+"}
writable == fp.mode \in {"w", "w+", "a", "a+"}

\* `outer' is what a write was given and `source' what is left of it; of a read,
\* `source' is what was copied and `requested' what is left; `start' is
\* original_position.  `nested' holds in a write of zeros that fills the gap of
\* the outer one.  `before' is the file when the call began: only the properties
\* read it.
NoCall == [op |-> "none", at |-> "idle", source |-> <<>>, requested |-> 0, start |-> 0,
           nested |-> FALSE, outer |-> <<>>, before |-> <<>>]

Init ==
    /\ data = [k \in Clusters |-> [i \in 0 .. cluster_size - 1 |-> Stale]]
    /\ chain = <<>> /\ lost = {}
    /\ entry = [first_cluster |-> None, size |-> 0]
    /\ fp = Closed
    /\ call = NoCall /\ reply = <<>> /\ ruined = FALSE /\ writes = 0 /\ errors = 0

-----------------------------------------------------------------------------
(* Clusters and bytes.                                                     *)

Free == Clusters \ (ToSet(chain) \cup lost)
RequiredRoundedDown(size) == size \div cluster_size

\* The clusters for so many bytes, in the arithmetic of unsigned long: past Limit,
\* none.
Required(size) == ((size + cluster_size - 1) % FileWord) \div cluster_size
Limit == FileWord - cluster_size

\* The n lowest clusters of the set S, in order: below the i-th there are i - 1.
Lowest(S, n) == [i \in 1 .. n |-> CHOOSE k \in S : Cardinality({j \in S : j < k}) = i - 1]

Fail == errors < MaxErrors /\ errors' = errors + 1
NoFail == UNCHANGED errors

\* fat_file_ensure_size(fp, size): when it succeeds, and when it cannot, or an access
\* fails before anything is changed.  Past Limit it gives all clusters of the file
\* up and succeeds.
HasRoom(size) ==
    Required(size) <= Len(chain) \/ Required(size) - Len(chain) <= Cardinality(Free)

ensure_size(size) ==
    LET n == Required(size)
        grown == chain \o Lowest(Free, n - Len(chain))
        kept == IF n <= Len(chain) THEN SubSeq(chain, 1, n) ELSE grown
    IN  /\ NoFail /\ HasRoom(size)
        /\ chain' = kept
        /\ data' = [k \in Clusters |->
                       IF k \in ToSet(chain) \ ToSet(kept)
                       THEN [i \in DOMAIN data[k] |-> Stale] ELSE data[k]]
        /\ ruined' = (size > Limit)

ensure_size_fails(size) ==
    /\ (NoFail /\ ~HasRoom(size)) \/ Fail
    /\ UNCHANGED <<data, chain, ruined>>

First(c) == IF c = <<>> THEN None ELSE c[1]

\* get_nth_cluster, None past the end of the chain.
cluster_at(p) ==
    LET i == p \div cluster_size + 1 IN IF i <= Len(chain) THEN chain[i] ELSE None

\* The byte of the file at position p, and the first n bytes of it.
ByteAt(p) ==
    IF cluster_at(p) = None THEN Stale ELSE data[cluster_at(p)][p % cluster_size]
Bytes1To(n) == [i \in 1 .. n |-> ByteAt(i - 1)]

\* What an access at position p reaches of n bytes: the rest of its sector.
InSector(p, n) ==
    LET rest == bytes_per_sector - (p % bytes_per_sector) IN IF n < rest THEN n ELSE rest

Idle == call.op = "none"
In(stage) == call.at = stage

Return(bytes) == call' = NoCall /\ reply' = bytes

-----------------------------------------------------------------------------
(* fat_open and fat_close.  The entry of a file whose truncation could not *)
(* be written leads to free clusters: FatChains deals with it, here the    *)
(* file is not opened again.                                               *)

Reachable == entry.first_cluster \in {None, First(chain)}

\* The file as the entry on the disk leads to it.
OnDisk ==
    IF entry.first_cluster # None /\ Reachable THEN Bytes1To(entry.size) ELSE <<>>

fat_open(m) ==
    /\ Idle /\ fp.mode = "closed" /\ Reachable
    /\ \/ /\ m \in {"r", "a", "a+"}
          /\ fp' = [mode |-> m, first_cluster |-> entry.first_cluster, size |-> entry.size,
                    position |-> IF m = "r" THEN 0 ELSE entry.size]
          /\ chain' = IF entry.first_cluster = None THEN <<>> ELSE chain
          /\ NoFail /\ UNCHANGED <<data, ruined, call>>
       \/ /\ m \in {"w", "w+"}
          /\ fp' = [Closed EXCEPT !.mode = m]
          /\ IF entry.first_cluster = None
             THEN chain' = <<>> /\ NoFail /\ UNCHANGED <<data, ruined>> ELSE ensure_size(0)
          /\ call' = [NoCall EXCEPT !.op = "open", !.at = "entry", !.before = OnDisk]
    /\ lost' = IF entry.first_cluster = None THEN lost \cup ToSet(chain) ELSE lost
    /\ UNCHANGED <<entry, reply, writes>>

\* The truncation fails and has changed nothing: NULL.
fat_openFails(m) ==
    /\ Idle /\ fp.mode = "closed" /\ Reachable /\ entry.first_cluster # None
    /\ m \in {"w", "w+"}
    /\ ensure_size_fails(0)
    /\ UNCHANGED <<lost, entry, fp, call, reply, writes>>

fat_close ==
    /\ Idle /\ fp.mode # "closed"
    /\ IF writable
       THEN /\ call' = [NoCall EXCEPT !.op = "close", !.at = "entry",
                                      !.before = Bytes1To(fp.size)]
            /\ UNCHANGED fp
       ELSE fp' = Closed /\ UNCHANGED call
    /\ UNCHANGED <<data, chain, lost, entry, reply, ruined, writes, errors>>

fat_seek(p) ==
    /\ Idle /\ fp.mode # "closed"
    /\ fp' = [fp EXCEPT !.position = p]
    /\ UNCHANGED <<data, chain, lost, entry, call, reply, ruined, writes, errors>>

-----------------------------------------------------------------------------
(* fat_read: one step for each sector.                                     *)

fat_read(n) ==
    /\ Idle /\ fp.mode # "closed" /\ readable
    /\ LET rest == IF fp.position >= fp.size THEN 0 ELSE fp.size - fp.position
       IN  IF rest = 0 THEN reply' = <<>> /\ UNCHANGED call
           ELSE /\ call' = [NoCall EXCEPT !.op = "read", !.at = "sector",
                                !.requested = IF n > rest THEN rest ELSE n,
                                !.start = fp.position, !.before = Bytes1To(fp.size)]
                /\ UNCHANGED reply
    /\ UNCHANGED <<data, chain, lost, entry, fp, ruined, writes, errors>>

\* fp->position is set when the call returns: `source' holds what was copied.
ReadSector ==
    LET position == call.start + Len(call.source)
        n == InSector(position, call.requested)
        got == call.source \o [i \in 1 .. n |-> ByteAt(position + i - 1)]
    IN  /\ call.op = "read" /\ In("sector")
        /\ \/ /\ NoFail /\ cluster_at(position) # None
              /\ IF n < call.requested
                 THEN /\ call' = [call EXCEPT !.source = got, !.requested = @ - n]
                      /\ UNCHANGED <<fp, reply>>
                 ELSE Return(got) /\ fp' = [fp EXCEPT !.position = call.start + Len(got)]
           \/ /\ \/ Fail
                 \/ NoFail /\ cluster_at(position) = None
              /\ Return(call.source) /\ fp' = [fp EXCEPT !.position = position]
        /\ UNCHANGED <<data, chain, lost, entry, ruined, writes>>

-----------------------------------------------------------------------------
(* fat_write.                                                              *)

\* The tests before the loop, from the position p: the file is made as long as
\* the write needs, or the call is refused.
Grow(p, s, c) ==
    IF p + Len(s) > fp.size
    THEN \/ /\ ensure_size(p + Len(s))
            /\ fp' = [fp EXCEPT !.size = p + Len(s), !.position = p,
                                !.first_cluster = First(chain')]
            /\ call' = c /\ UNCHANGED reply
         \/ /\ ensure_size_fails(p + Len(s))
            /\ Return(<<>>) /\ fp' = [fp EXCEPT !.position = c.start]
    ELSE /\ fp' = [fp EXCEPT !.position = p]
         /\ call' = c /\ NoFail /\ UNCHANGED <<data, chain, reply, ruined>>

\* Mutant: the gap before the new bytes is not filled.
fat_writeNoGap(s) ==
    /\ Idle /\ fp.mode # "closed" /\ writable /\ writes < MaxWrites
    /\ writes' = writes + 1
    /\ Grow(fp.position, s, [NoCall EXCEPT !.op = "write", !.at = "sector",
                !.source = s, !.outer = s, !.start = fp.position, !.before = Bytes1To(fp.size)])
    /\ UNCHANGED <<lost, entry>>

fat_write(s) ==
    /\ Idle /\ fp.mode # "closed" /\ writable /\ writes < MaxWrites
    /\ writes' = writes + 1
    /\ LET c == [NoCall EXCEPT !.op = "write", !.source = s, !.outer = s, !.start = fp.position,
                               !.before = Bytes1To(fp.size)]
       IN  IF fp.position + Len(s) >= FileWord
           THEN Return(<<>>) /\ NoFail /\ UNCHANGED <<data, chain, fp, ruined>>
           ELSE IF fp.position > fp.size
           THEN \/ /\ ensure_size(fp.position)
                   /\ fp' = [fp EXCEPT !.first_cluster = First(chain')]
                   /\ call' = [c EXCEPT !.at = "gap"]
                   /\ UNCHANGED reply
                \/ ensure_size_fails(fp.position) /\ Return(<<>>) /\ UNCHANGED fp
           ELSE Grow(fp.position, s, [c EXCEPT !.at = "sector"])
    /\ UNCHANGED <<lost, entry>>

\* fat_file_zero_range: the next nested fat_write, of at most a sector of zeros
\* from the end of the file, or the entry when the gap is filled.  `start'
\* remains the position of the outer write.
ZeroRange ==
    LET left == call.start - fp.size
        n == IF left < bytes_per_sector THEN left ELSE bytes_per_sector
    IN  /\ In("gap") /\ left > 0
        /\ Grow(fp.size, [i \in 1 .. n |-> Zero],
                [call EXCEPT !.at = "sector", !.nested = TRUE,
                             !.source = [i \in 1 .. n |-> Zero]])
        /\ UNCHANGED <<lost, entry, writes>>

\* A step of the loop of fat_write: one sector is read when it is not replaced
\* as a whole, changed and written.
WriteSector ==
    LET n == InSector(fp.position, Len(call.source))
        k == cluster_at(fp.position)
        offset == fp.position % cluster_size
        partial == (offset % bytes_per_sector) # 0 \/ n # bytes_per_sector
        old == [i \in 0 .. cluster_size - 1 |->
                   IF partial \/ (i \div bytes_per_sector) # (offset \div bytes_per_sector)
                   THEN data[k][i] ELSE Zero]
        more == n < Len(call.source)
    IN  /\ call.op = "write" /\ In("sector")
        /\ \/ /\ NoFail /\ k # None
              /\ data' = [data EXCEPT ![k] = [i \in 0 .. cluster_size - 1 |->
                             IF i \in offset .. offset + n - 1
                             THEN call.source[i - offset + 1] ELSE old[i]]]
              /\ fp' = [fp EXCEPT !.position = @ + n]
              /\ call' = [call EXCEPT !.source = SubSeq(@, n + 1, Len(@)),
                                      !.at = IF more THEN "sector" ELSE "entry"]
           \/ /\ \/ Fail
                 \/ NoFail /\ k = None
              /\ call' = [call EXCEPT !.at = "entry"]
              /\ UNCHANGED <<data, fp>>
        /\ UNCHANGED <<chain, lost, entry, reply, ruined, writes>>

\* fat_file_update_directory_entry at the end of a call, and what follows it.
\* What a write returns does not depend on whether the entry could be written.
Updated == [first_cluster |-> fp.first_cluster, size |-> fp.size]
WriteEntry(ok) ==
    IF ok THEN NoFail /\ entry' = Updated ELSE Fail /\ UNCHANGED entry

OpenReturns(ok) ==
    /\ call.op = "open" /\ In("entry") /\ WriteEntry(ok)
    /\ call' = NoCall /\ fp' = IF ok THEN fp ELSE Closed
    /\ UNCHANGED <<data, chain, lost, reply, ruined, writes>>

CloseReturns(ok) ==
    /\ call.op = "close" /\ In("entry") /\ WriteEntry(ok)
    /\ call' = NoCall /\ fp' = Closed
    /\ UNCHANGED <<data, chain, lost, reply, ruined, writes>>

\* What a write returns is how far the position has moved.
WriteReturns(ok) ==
    /\ call.op = "write" /\ In("entry") /\ ~call.nested /\ WriteEntry(ok)
    /\ Return(SubSeq(call.outer, 1, fp.position - call.start))
    /\ UNCHANGED <<data, chain, lost, fp, ruined, writes>>

\* Mutant: the position is left where the nested write stopped.
NestedReturnsMoved(ok) ==
    /\ call.op = "write" /\ In("entry") /\ call.nested /\ WriteEntry(ok)
    /\ IF call.source = <<>>
       THEN /\ call' = [call EXCEPT !.at = "gap", !.nested = FALSE]
            /\ UNCHANGED <<fp, reply>>
       ELSE Return(<<>>) /\ UNCHANGED fp
    /\ UNCHANGED <<data, chain, lost, ruined, writes>>

\* A nested write returns: the gap goes on, or the outer write gives up with the
\* position it began with.
NestedReturns(ok) ==
    /\ call.op = "write" /\ In("entry") /\ call.nested /\ WriteEntry(ok)
    /\ IF call.source = <<>>
       THEN /\ call' = [call EXCEPT !.at = "gap", !.nested = FALSE]
            /\ UNCHANGED <<fp, reply>>
       ELSE Return(<<>>) /\ fp' = [fp EXCEPT !.position = call.start]
    /\ UNCHANGED <<data, chain, lost, ruined, writes>>

\* The gap is filled: the entry is written once more and the write goes on, or
\* ends when that fails.
GapFilled(ok) ==
    /\ In("gap") /\ fp.size = call.start
    /\ IF ok
       THEN /\ entry' = Updated
            /\ Grow(call.start, call.outer,
                    [call EXCEPT !.at = "sector", !.source = call.outer])
       ELSE Fail /\ Return(<<>>) /\ UNCHANGED <<data, chain, entry, fp, ruined>>
    /\ UNCHANGED <<lost, writes>>

-----------------------------------------------------------------------------

\* An access to the table fails in the ensure_size of a call, and the call does not
\* notice it or cannot undo what was done: a read that fails says "free", so that a
\* cluster in use is taken or the rest of a chain is not given up; a chain is freed
\* in part; a link is written in one table and not in the other.
ensure_sizeRuins ==
    /\ \/ Idle /\ fp.mode = "closed" /\ Reachable /\ entry.first_cluster # None
       \/ Idle /\ writable /\ writes < MaxWrites
       \/ In("gap")
    /\ Fail /\ ruined' = TRUE
    /\ UNCHANGED <<data, chain, lost, entry, fp, call, reply, writes>>

Next ==
    /\ ~ruined
    /\ \/ \E m \in Modes : fat_open(m) \/ fat_openFails(m)
       \/ fat_close
       \/ \E p \in Positions : fat_seek(p)
       \/ \E n \in Counts : fat_read(n)
       \/ ReadSector
       \/ \E s \in Sources : fat_write(s)
       \/ ZeroRange
       \/ WriteSector
       \/ \E ok \in BOOLEAN : \/ OpenReturns(ok)  \/ CloseReturns(ok)
                              \/ WriteReturns(ok) \/ NestedReturns(ok)
                              \/ GapFilled(ok)
       \/ ensure_sizeRuins

Spec == Init /\ [][Next]_vars

-----------------------------------------------------------------------------
(* Properties.                                                             *)

\* Every variable has its type, and the chain of an open file reaches its end, if it
\* is not ruined.
TypeOK ==
    /\ data \in [Clusters -> [0 .. cluster_size - 1 -> Bytes]]
    /\ {ToSet(chain), lost} \subseteq SUBSET Clusters
    /\ entry.first_cluster \in Clusters \cup {None} /\ entry.size \in Nat
    /\ fp.mode \in Modes \cup {"closed"}
    /\ ruined \in BOOLEAN
    /\ ~ruined /\ fp.mode # "closed" =>
          /\ fp.first_cluster = First(chain)
          /\ Idle => fp.size <= cluster_size * Len(chain)
    /\ writes \in 0 .. MaxWrites /\ errors \in 0 .. MaxErrors

\* A power cut at any access of a write leaves no file whose entry takes in bytes
\* nobody wrote: the entry is written after the data, for every sector of a gap and
\* for the call.  It is so as long as no access has failed; a write that fails keeps
\* the size it was to have (3797).  (A cut in the truncation of fat_open leaves an
\* entry that leads to free clusters, which is no file here: see FatChains.)
NothingStaleOnDisk ==
    errors = 0 => \A i \in DOMAIN OnDisk : OnDisk[i] # Stale

\* A power cut in the middle of a write loses nothing the file had: its entry on
\* the disk still leads to all its bytes, and only those the call is to replace
\* may differ.  The cut and regrowth of the chain around a gap, and the sectors
\* rewritten in part, are where it could go wrong.
CutKeepsOldBytes ==
    (call.op = "write" /\ errors = 0) =>
        /\ Len(OnDisk) >= Len(call.before)
        /\ \A i \in DOMAIN call.before :
              \/ OnDisk[i] = call.before[i]
              \/ i > call.start /\ i <= call.start + Len(call.outer)

\* What a power cut leaves of a file, but for one that a write past Limit has ruined.
CutKeepsFile == ~ruined => NothingStaleOnDisk /\ CutKeepsOldBytes

\* What programs are promised, whole calls at a time: during a call the file is
\* what it was when the call began.  Of a ruined file nothing is promised.
Lost == ruined \/ (Idle /\ fp.mode = "closed" /\ ~Reachable)
Content == IF Lost THEN <<>> ELSE IF ~Idle THEN call.before
           ELSE IF fp.mode = "closed" THEN OnDisk ELSE Bytes1To(fp.size)
Position == IF Lost THEN 0
            ELSE IF call.op \in {"read", "write"} THEN call.start ELSE fp.position
Mode == IF Lost THEN "lost" ELSE IF call.op = "open" THEN "closed" ELSE fp.mode

Promise == INSTANCE Files WITH content <- Content, position <- Position, mode <- Mode,
                               Errors <- MaxErrors > 0

\* fat_open, fat_seek, fat_read, fat_write and fat_close keep the promise of Files:
\* across sectors, clusters and gaps a file is one sequence of bytes, and a call
\* that an error cuts short has done a first part of its work.  A file is lost only
\* by an access that fails while it is truncated or written, or by a write that
\* ends past Limit, where Required wraps.
KeepsPromise == Promise!Spec
=============================================================================
