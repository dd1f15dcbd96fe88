------------------------------ MODULE Directory ------------------------------
(***************************************************************************)
(* The slots of one directory (src/kernel/fat.c, and src/fat/fput.c, which *)
(* fills an image from the host): a file is a short entry with the slots   *)
(* of its long name before it, all in one sector.  A slot whose first byte *)
(* is 0 ends the directory for the searches and is free for the writers,   *)
(* which look for a run of free slots in one sector.                       *)
(*                                                                         *)
(* The directory has a fixed number of sectors (nothing extends one), and  *)
(* is that of a FAT32 volume, the only kind fat_rename works on.  A slot   *)
(* is written with its sector, in one access; the power can go between two *)
(* accesses.  What the entries lead to is in FatChains.                    *)
(***************************************************************************)
EXTENDS Naturals, Sequences, FiniteSets, FiniteSetsExt, Functions

CONSTANTS
  Names,            \* the names programs use, equal up to upper and lower case
  dos_name,         \* strfilenamedos: the 8.3 alias of a name, itself a name
  lfn_entry_count,  \* the slots of a name's long form
  lfn_checksum,     \* the checksum of an alias
  reclen,           \* the length of a name's record in a getdents buffer
  Room,             \* the length of that buffer
  PerSector,        \* the slots of a sector
  Sectors,          \* the sectors of the directory
  Chains,           \* the first clusters of files and directories
  MaxCuts           \* bound on the power cuts

\* An alias is its own alias; a name has a unit at least, and so a part; a record
\* has a name in it, and the buffer has room for a part of one.
ASSUME DirectoryAssumption ==
  /\ IsFiniteSet(Names) /\ Names # {}
  /\ dos_name \in [Names -> Names] /\ \A n \in Names : dos_name[dos_name[n]] = dos_name[n]
  /\ lfn_entry_count \in [Names -> Nat \ {0}]
  /\ reclen \in [Names -> Nat \ {0}] /\ Room \in Nat \ {0}
  /\ PerSector \in Nat \ {0} /\ Sectors \in Nat \ {0} /\ MaxCuts \in Nat

VARIABLES
  dir,      \* the slots
  stream,   \* an open directory: where it is, and history: the entries there when
            \* it was opened that nothing has touched and no call has read
  cuts      \* the number of power cuts

dirVars == <<dir, stream, cuts>>

Slots == 1..(Sectors * PerSector)
Aliases == {dos_name[n] : n \in Names}

End == [kind |-> "end"]
Deleted == [kind |-> "deleted"]         \* was a short entry
Short(alias, file, attr) ==
  [kind |-> "short", alias |-> alias, file |-> file, attr |-> attr]
Long(name, order) ==
  [kind |-> "long", name |-> name, order |-> order,
   last |-> order = lfn_entry_count[name], sum |-> lfn_checksum[dos_name[name]]]

\* A deleted slot of a long name keeps all but its first byte, which is the
\* order: 0xE5 reads as the last slot, of order 5.
Erased(slot) == [slot EXCEPT !.kind = "erased", !.order = 5, !.last = TRUE]

IsFree(slot) == slot.kind \in {"end", "deleted", "erased"}
HasLongAttribute(slot) == slot.kind \in {"long", "erased"}

SectorOf(i) == (i - 1) \div PerSector
Shorts(d) == {i \in Slots : d[i].kind = "short"}

\* What a search reaches before the end mark.
Visible(d) == {i \in Shorts(d) : \A j \in 1..i : d[j].kind # "end"}

\* The slots before slot i that satisfy Is, without a gap, from the first that
\* may count.
RunBefore(d, i, from, Is(_)) ==
  {k \in from..(i - 1) : \A j \in k..(i - 1) : Is(d[j])}

\* get_lfn_name: the last slot marked as last says how many there are, and a part
\* that occurs twice is taken from its later slot.  At most one name.
get_lfn_name(d, run) ==
  LET lasts == {k \in run : d[k].last}
      max_order == IF lasts = {} THEN 0 ELSE d[Max(lasts)].order
      part(n) == {k \in run : d[k].order = n}
  IN {n \in Names :
       /\ max_order = lfn_entry_count[n] /\ max_order <= Cardinality(run)
       /\ \A o \in 1..max_order : part(o) # {} /\ d[Max(part(o))].name = n}

\* The names a search finds a visible entry by: its alias, and the long name of
\* all slots before it in its sector with the attribute, when every checksum fits.
FoundBy(d, i) ==
  LET run == RunBefore(d, i, SectorOf(i) * PerSector + 1, HasLongAttribute)
  IN {d[i].alias} \cup
     IF \A k \in run : d[k].sum = lfn_checksum[d[i].alias] THEN get_lfn_name(d, run) ELSE {}

\* findfileinsectorfilenumber: the first such entry, or 0.
Find(d, n) ==
  LET hits == {i \in Visible(d) : n \in FoundBy(d, i)}
  IN IF hits = {} THEN 0 ELSE Min(hits)

\* fat_dir_make_dirent: the name a listing gives an entry.  The slots of a long
\* name that were read since the last short or deleted one must be exactly its.
d_name(d, i) ==
  LET run == RunBefore(d, i, 1, LAMBDA slot : slot.kind = "long")
      valid == /\ run # {}
               /\ \A k \in run : d[k].sum = lfn_checksum[d[i].alias]
               /\ d[Min(run)].last /\ d[Min(run)].order = Cardinality(run)
      name == IF valid THEN get_lfn_name(d, run) ELSE {}
  IN IF name = {} THEN d[i].alias ELSE CHOOSE n \in name : TRUE

NoStream == [open |-> FALSE, at |-> 0, eof |-> FALSE, unread |-> {}]

\* Types, and what every sector keeps: the order of a slot of a long name says
\* how far its short entry is, or was.
DirTypeOK ==
  /\ \A i \in Slots : dir[i] \in
       {End, Deleted}
         \cup {Short(a, f, t) : a \in Aliases, f \in Chains, t \in {"file", "directory"}}
         \cup {Long(n, o) : n \in Names, o \in 1..Max(Range(lfn_entry_count))}
         \cup {Erased(Long(n, 1)) : n \in Names}
  /\ \A i \in Slots : dir[i].kind = "long" =>
       /\ dir[i].order <= lfn_entry_count[dir[i].name]
       /\ i + dir[i].order \in Slots /\ SectorOf(i + dir[i].order) = SectorOf(i)
  /\ stream.at \in 0..Max(Slots)
  /\ cuts \in 0..MaxCuts

DirInit == dir = [i \in Slots |-> End] /\ stream = NoStream /\ cuts = 0

(***************************************************************************)
(* The calls.                                                              *)
(***************************************************************************)

\* The accesses of a call leave one image of the directory after the other, and
\* the power may go after any of them; a restart finds no open stream.
Perform(images) ==
  \E k \in DOMAIN images :
    /\ dir' = images[k]
    /\ IF k = Len(images)
         THEN /\ stream' = [stream EXCEPT !.unread = {i \in @ : dir'[i] = dir[i]}]
              /\ UNCHANGED cuts
         ELSE cuts < MaxCuts /\ cuts' = cuts + 1 /\ stream' = NoStream

\* Mutant: a slot in use does not start the count anew.
FreeRunsOver(d, required) ==
  {i \in Slots : /\ IsFree(d[i])
                 /\ SectorOf(i + required - 1) = SectorOf(i) /\ IsFree(d[i + required - 1])}

\* The runs of free slots of a sector.
FreeRuns(d, required) ==
  {i \in Slots : /\ SectorOf(i + required - 1) = SectorOf(i)
                 /\ \A j \in i..(i + required - 1) : IsFree(d[j])}

\* findfreeslots: the first run, or 0.
findfreeslots(d, required) ==
  LET runs == FreeRuns(d, required)
  IN IF runs = {} THEN 0 ELSE Min(runs)

\* write_file_directory_entries: the long name, last part first, and the entry.
write_file_directory_entries(d, at, name, entry) ==
  [j \in Slots |->
     IF j \in at..(at + lfn_entry_count[name] - 1) THEN Long(name, at + lfn_entry_count[name] - j)
     ELSE IF j = at + lfn_entry_count[name] THEN entry ELSE d[j]]

\* A cluster nothing in the directory has.
NewCluster(f) == \A i \in Shorts(dir) : dir[i].file # f

\* Of the calls below, found is what the search for the name finds.

\* fput: a file is put into the image from the host, at a name it does not have.
\* (With one that exists only the chain, the size and the dates change.)
fput(name, found) ==
  LET at == findfreeslots(dir, lfn_entry_count[name] + 1)
  IN /\ found = 0 /\ at # 0
     /\ \E f \in Chains :
          /\ NewCluster(f)
          /\ Perform(<<write_file_directory_entries(dir, at, name,
                         Short(dos_name[name], f, "file"))>>)

\* fat_mkdir: an entry under the alias alone.
fat_mkdir(name, found) ==
  LET at == findfreeslots(dir, 1)
  IN /\ found = 0 /\ at # 0
     /\ \E f \in Chains :
          /\ NewCluster(f)
          /\ Perform(<<[dir EXCEPT ![at] = Short(dos_name[name], f, "directory")]>>)

\* delete_directory_entry_with_lfn: the entry, then the slots of its long name,
\* backwards, up to the one marked as last.  That mark is read after the byte that
\* holds it was overwritten with the deletion mark, in which its bit is set: the
\* slot next to the entry is the only one deleted.
delete_directory_entry_with_lfn(d, i) ==
  LET short == [d EXCEPT ![i] = Deleted]
      own == i > 1 /\ HasLongAttribute(d[i - 1])
               /\ d[i - 1].sum = lfn_checksum[d[i].alias]
  IN IF own THEN <<short, [short EXCEPT ![i - 1] = Erased(@)]>> ELSE <<short>>

Removes(found, attr) ==
  /\ found # 0 /\ dir[found].attr = attr
  /\ Perform(delete_directory_entry_with_lfn(dir, found))

\* A file, and a directory, which must be empty.
fat_unlink(found) == Removes(found, "file")
fat_rmdir(found) == Removes(found, "directory")

\* The search for the new entry, which was written as a file: the old one's
\* attribute is put on it, if it is found.
WithAttribute(d, new, attr) ==
  LET i == Find(d, new) IN IF i = 0 THEN d ELSE [d EXCEPT ![i].attr = attr]

\* The old entry goes with all slots before it in its sector that have the
\* attribute.
WithoutOld(d, i) ==
  LET run == RunBefore(d, i, SectorOf(i) * PerSector + 1, HasLongAttribute)
  IN [j \in Slots |-> IF j = i THEN Deleted ELSE IF j \in run THEN Erased(d[j]) ELSE d[j]]

\* fat_rename: the new entry, its attribute, then the old one deleted.
fat_rename(found, new) ==
  LET at == findfreeslots(dir, lfn_entry_count[new] + 1)
      written == write_file_directory_entries(dir, at, new,
                   Short(dos_name[new], dir[found].file, "file"))
      marked == WithAttribute(written, new, dir[found].attr)
  IN /\ found # 0 /\ at # 0 /\ Find(dir, new) = 0
     /\ Perform(<<written, marked, WithoutOld(marked, found)>>)

\* fat_opendir.
fat_opendir ==
  /\ ~stream.open
  /\ stream' = [NoStream EXCEPT !.open = TRUE, !.unread = Visible(dir)]
  /\ UNCHANGED <<dir, cuts>>

\* The bytes the records of entries take in a buffer.
Used(entries) == MapThenSumSet(LAMBDA i : reclen[d_name(dir, i)], entries)

\* fat_readdir: what is left of the directory, up to the end mark.
fat_readdir(at) == {i \in Visible(dir) : i > at}

\* The stream goes on after the last entry that was read.
GoesOn(read) == Max(read)

\* sys_getdents_handler: entries are read until the buffer is full or the directory
\* ends.  The last one may not fit, and is gone from the stream all the same.
sys_getdents_handler ==
  LET ahead == fat_readdir(stream.at)
      read == {i \in ahead : Used({j \in ahead : j < i}) < Room}
  IN /\ stream.open /\ ~stream.eof
     /\ stream' = IF Used(ahead) < Room
                     THEN [NoStream EXCEPT !.open = TRUE, !.eof = TRUE,
                                           !.unread = stream.unread \ read]
                     ELSE [stream EXCEPT !.at = GoesOn(read), !.unread = @ \ read]
     /\ UNCHANGED <<dir, cuts>>

fat_closedir == stream.open /\ stream' = NoStream /\ UNCHANGED <<dir, cuts>>

DirNext ==
  \/ \E name \in Names : \E found \in {Find(dir, name)} :
       \/ fput(name, found) \/ fat_mkdir(name, found)
       \/ fat_unlink(found) \/ fat_rmdir(found)
       \/ \E new \in Names : fat_rename(found, new)
  \/ fat_opendir \/ sys_getdents_handler \/ fat_closedir

DirSpec == DirInit /\ [][DirNext]_dirVars

(***************************************************************************)
(* Properties.                                                             *)
(***************************************************************************)

\* A listing and a search, which join the slots of a long name by different
\* rules, agree: every entry can be found by the name a listing gives it.
ListedIsFound == \A i \in Visible(dir) : d_name(dir, i) \in FoundBy(dir, i)

\* A file that was put or renamed is found by its name afterwards, and is what it
\* was, a file or a directory, unless it lies behind the end mark of an earlier
\* sector or next to slots some removed name left.
CreatedIsFound ==
  [][dir' # dir /\ cuts' = cuts => \A i \in Shorts(dir') \ Shorts(dir) :
       i > 1 /\ dir'[i - 1] # dir[i - 1] =>
         LET n == dir'[i - 1].name
             before == i - lfn_entry_count[n] - 1
         IN \/ i \notin Visible(dir')
            \/ before \in Slots /\ HasLongAttribute(dir'[before])
            \/ /\ n \in FoundBy(dir', i) /\ d_name(dir', i) = n
               /\ \A j \in Shorts(dir) \ Shorts(dir') : dir[j].attr = dir'[i].attr]_dirVars

\* No call, complete or cut short, changes the entry or the listed name of a file
\* it is not about, or hides it: it takes away one entry at most.
OthersKept ==
  [][dir' # dir =>
       /\ Cardinality(Shorts(dir) \ Shorts(dir')) <= 1
       /\ \A i \in Visible(dir) \cap Shorts(dir') :
            /\ i \in Visible(dir') /\ dir'[i] = dir[i]
            /\ d_name(dir', i) = d_name(dir, i)]_dirVars

\* When a listing ends, every entry that stayed in place since it began was
\* read for it, and so returned if it was not the first that no longer fitted,
\* whatever was created, removed and renamed meanwhile.
ListingComplete == stream.eof => stream.unread = {}

\* What a listing returns is what is there, under names that lead to it.
ListingsAgree == ListedIsFound /\ ListingComplete

=============================================================================
