----------------------------- MODULE MCFatFiles -----------------------------
(***************************************************************************)
(* The parts of the file system that one task at a time uses, for TLC,     *)
(* side by side: a behaviour is one part's, and the others stay in their   *)
(* initial states.                                                         *)
(***************************************************************************)
EXTENDS FatFiles, Searches, Volume, Sorting, Attributes, TLC

VARIABLE part           \* the part that runs

\* Sectors of two bytes, clusters of two sectors, three clusters.  Writes of less
\* than a sector, of a sector, and of more than a cluster.
FewSources == {<<"a">>, <<"b", "a">>, <<"a", "b", "b", "a", "b">>}

\* "s", of two parts, and "k" are their own aliases; "l" has the alias "k".
MCdos_name == [s |-> "s", l |-> "k", k |-> "k"]
MCentry_count == [s |-> 2, l |-> 1, k |-> 1]
MCchecksum == [s |-> 1, k |-> 2]

\* Volumes of either kind, on a whole disk or in its second partition, with all that
\* formatting may leave and tables that are too short or missing.  The total of
\* sectors is in the short field if it fits there.
Boot(spc, fats, root, size, total) ==
  [signed |-> TRUE, bytes |-> SECTORSIZE, sector_per_cluster |-> spc, reserved |-> 1,
   number_fats |-> fats, root_entries |-> root, fat_size_16 |-> size, fat_size_32 |-> size,
   total_sectors_16 |-> IF total < 14 THEN total ELSE 0, total_sectors_32 |-> total,
   fs_info |-> [valid |-> total % 2 = 0, free |-> 3]]
Image(type, where, boot) ==
  [partition |-> [i \in 0..1 |-> [active |-> (where # 0 /\ i = 1), type |-> type,
                                  lba_start |-> where]],
   fastsys |-> TRUE, label |-> type, boot |-> [lba \in {where} |-> boot]]
MCImages ==
  {Image(type, where, Boot(spc, fats, root, size, total)) :
     type \in {"fat16", "fat32", "none"}, where \in {0, 2}, spc \in 1..2, fats \in 1..2,
     root \in {0, 3}, size \in 0..3, total \in {6, 11, 19}}

MCSymmetry == Permutations(Chains)

MCInit ==
  /\ part \in {"file", "directory", "volume", "sorting", "attributes"}
  /\ Init /\ DirInit /\ AttrInit
  /\ IF part = "volume" THEN VolumeInit
     ELSE VolumeInit /\ disk = Image("none", 0, Boot(1, 1, 0, 0, 6))
  /\ SortInit /\ (part = "sorting" \/ key = <<0, 0>>)

MCNext ==
  /\ UNCHANGED part
  /\ \/ part = "file" /\ Next
        /\ UNCHANGED <<dirVars, volumeVars, sortVars, attrVars>>
     \/ part = "directory" /\ DirNext
        /\ UNCHANGED <<vars, volumeVars, sortVars, attrVars>>
     \/ part = "volume" /\ VolumeNext
        /\ UNCHANGED <<vars, dirVars, sortVars, attrVars>>
     \/ part = "sorting" /\ SortNext
        /\ UNCHANGED <<vars, dirVars, volumeVars, attrVars>>
     \/ part = "attributes" /\ AttrNext
        /\ UNCHANGED <<vars, dirVars, volumeVars, sortVars>>

MCSpec == MCInit /\ [][MCNext]_<<part, vars, dirVars, volumeVars, sortVars, attrVars>>

-----------------------------------------------------------------------------
(* Properties.                                                             *)

\* The variables of the file and of the directory have their types, the chain of
\* an open file reaches its end and every short entry has its parts before it.
FilesTypeOK == TypeOK /\ DirTypeOK

\* The searches and listings of a directory, each with its own rules for the slots of
\* a long name, agree: ListingsAgree, ShownIsFound and FindsTheSame.  The last two
\* read the slots alone, and all states of those occur with no directory open.
\* And what the shell shows, it shows in order: ListingIsSorted.
SearchesAgree ==
  /\ part = "directory" =>
       ListingsAgree /\ (stream.open \/ (ShownIsFound /\ FindsTheSame))
  /\ part = "sorting" => ListingIsSorted

\* What calls do to a directory: CreatedIsFound and OthersKept.
DirectoryKeeps == CreatedIsFound /\ OthersKept

\* What is kept beside the files and directories: where their clusters lie and what
\* statfs says of them, VolumeIsSound, and their extended attributes, AttributesAreAMap.
VolumeKeeps == part \in {"volume", "attributes"} => VolumeIsSound /\ AttributesAreAMap

=============================================================================
