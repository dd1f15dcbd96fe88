------------------------------ MODULE Searches ------------------------------
(***************************************************************************)
(* The other searches and listing of src/kernel/fat.c: findfile, by which  *)
(* the shell decides what a name is (is_file, file sizes), and             *)
(* listdironsector.  They join the slots of a long name by rules of their  *)
(* own: all slots before an entry, into the sector before, must be exactly *)
(* its name's.  Directory has the searches the file calls use.             *)
(*                                                                         *)
(* The slots on the disk before the directory are no parts of a name.      *)
(* Names are equal up to case here, also where strcmp compares them.       *)
(***************************************************************************)
EXTENDS Directory

FirstOf(hits) == IF hits = {} THEN 0 ELSE Min(hits)

\* The slots with the attribute before slot i, in its sector and the one before.
Parts(d, i) ==
  RunBefore(d, i, Max({1, (SectorOf(i) - 1) * PerSector + 1}), HasLongAttribute)

\* The long name such slots make, or none, as a set.
StrictName(d, i) ==
  LET run == Parts(d, i)
  IN IF /\ run # {} /\ \A k \in run : d[k].sum = lfn_checksum[d[i].alias]
        /\ d[Min(run)].last /\ d[Min(run)].order = Cardinality(run)
     THEN get_lfn_name(d, run) ELSE {}

\* Of the entries in the sector of slot i with its alias, the long name of the
\* first that has one.
getlongfilename(d, i) ==
  LET alike == {j \in Visible(d) : SectorOf(j) = SectorOf(i) /\ d[j].alias = d[i].alias}
      named == {j \in alike : StrictName(d, j) # {}}
  IN IF named = {} THEN {} ELSE StrictName(d, Min(named))

\* The name listdironsector shows for an entry.
listdironsector(d, i) ==
  LET long == getlongfilename(d, i)
  IN IF long = {} THEN d[i].alias ELSE CHOOSE n \in long : TRUE

\* The entry of that name in the first sector of the directory.
findfileinsector(d, n) ==
  FirstOf({i \in Visible(d) : /\ SectorOf(i) = 0
                              /\ n = d[i].alias \/ n \in StrictName(d, i)})

\* The first entry that would be shown under the name.
findfileindirectory(d, n) == FirstOf({i \in Visible(d) : n = listdironsector(d, i)})

findfileentry(d, n) ==
  LET f == findfileinsector(d, n) IN IF f # 0 THEN f ELSE findfileindirectory(d, n)

\* What is found first.
FoundFirst(d, n) ==
  LET f == findfileinsector(d, n) IN IF f # 0 THEN f ELSE Find(d, n)

\* What a search gives: a slot, or 0, of the directory it began in or, inside, of the
\* one it found there.
Result(inside, i) == [inside |-> inside, slot |-> i]

\* Mutant: the second answer counts also when there is none.
findfileTwice(d, inner, n) ==
  LET f == FoundFirst(d, n)
      inside == d[f].attr = "directory"
  IN IF f = 0 THEN Result(FALSE, 0)
     ELSE Result(inside, findfileentry(IF inside THEN inner ELSE d, n))

\* A name without a directory.  What was found is looked for once more, by other
\* rules; the second answer counts, if there is one.  When it is a directory, the
\* second search is made inside it, among the slots `inner'.
findfile(d, inner, n) ==
  LET f == FoundFirst(d, n)
      inside == d[f].attr = "directory"
      again == findfileentry(IF inside THEN inner ELSE d, n)
  IN IF f = 0 \/ again = 0 THEN Result(FALSE, f) ELSE Result(inside, again)

(***************************************************************************)
(* Properties.                                                             *)
(***************************************************************************)

\* The other entries with the alias of entry i.
Namesakes(i) == {j \in Visible(dir) \ {i} : dir[j].alias = dir[i].alias}

\* What listdironsector shows, the calls on files find, in its place: a long name is
\* shown only with the entry it belongs to, whatever slots removed names left
\* before it.  (Of entries with one alias in one sector, all get the long name of
\* the first.)
ShownIsFound ==
  \A i \in Visible(dir) :
    \/ listdironsector(dir, i) \in FoundBy(dir, i)
    \/ \E j \in Namesakes(i) : SectorOf(j) = SectorOf(i)

\* The entries of d that a search may take for the one of the alias a: those whose
\* alias has its checksum, which has eight bits.
Alike(d, a) == {j \in Visible(d) : lfn_checksum[d[j].alias] = lfn_checksum[a]}

\* Directories that may be inside this one: one with the same slots, an empty one.
Inners == {dir, [i \in Slots |-> End]}

\* findfile knows a name if and only if the calls on files do, and gives the same
\* entry, unless the checksum of its alias is another's too.  But a directory that
\* has an entry of its own name gives that entry: its size and kind are taken for
\* the directory's.
FindsTheSame ==
  \A n \in Names, inner \in Inners :
    LET i == Find(dir, n)
        f == findfile(dir, inner, n)
    IN /\ i = 0 <=> f.slot = 0
       /\ i # 0 =>
            LET found == Alike(dir, dir[i].alias)
            IN IF f.inside
                 THEN /\ f.slot \in Alike(inner, dir[i].alias)
                      /\ \E j \in found : dir[j].attr = "directory"
                 ELSE f.slot \in found

=============================================================================
