------------------------------- MODULE Volume -------------------------------
(***************************************************************************)
(* Where things lie on the disk (src/kernel/fat.c): the choice of the      *)
(* partition at start, the checks of its boot sector, the arithmetic that  *)
(* turns a cluster into the sector of its data and the place of its entry  *)
(* in the table, and what statfs says is free.  The other modules of the   *)
(* file system take clusters and their sectors as given.                   *)
(***************************************************************************)
EXTENDS Integers, FiniteSets

CONSTANTS
  SECTORSIZE, FAT_ENTRY_SIZE,
  MAX_PARTITION,
  Images,           \* what may be on the disk: its partition table and boot sectors
  Sizes,            \* sizes of files
  MaxUsed,          \* bound on the clusters in use
  SizeWord          \* unsigned long wraps here

\* Sectors hold whole entries of either table; the fields of a boot sector are
\* unsigned, and a byte counts the sectors of a cluster.
ASSUME VolumeAssumption ==
  /\ SECTORSIZE \in Nat \ {0} /\ SECTORSIZE % 4 = 0
  /\ {FAT_ENTRY_SIZE, MAX_PARTITION, SizeWord} \subseteq Nat
  /\ \A size \in Sizes : size \in Nat /\ size < SizeWord
  /\ \A image \in Images :
       /\ \A i \in 0..(MAX_PARTITION - 1) : image.partition[i].lba_start \in Nat
       /\ \A lba \in DOMAIN image.boot :
            LET boot == image.boot[lba]
            IN /\ {boot.reserved, boot.number_fats, boot.root_entries, boot.fat_size_16,
                   boot.fat_size_32, boot.total_sectors_16, boot.total_sectors_32,
                   boot.sector_per_cluster, boot.fs_info.free} \subseteq Nat
               /\ boot.sector_per_cluster * SECTORSIZE <= SizeWord

VARIABLES
  disk,             \* what is on the disk
  active_partition, \* -1: none
  main_partition,   \* its type and first sector
  fat,              \* the boot sector that was read, or NoFat
  used,             \* the clusters whose entry in the table is not 0
  f_bfree           \* what the last statfs said, -1 before

volumeVars == <<disk, active_partition, main_partition, fat, used, f_bfree>>

NoFat == [signed |-> FALSE]
NoPartition == [type |-> "none", lba_start |-> 0]

(***************************************************************************)
(* The arithmetic, over the partition and the boot sector.                 *)
(***************************************************************************)

isfat16type == main_partition.type = "fat16"
isfat32type == main_partition.type = "fat32"
isfattype == isfat16type \/ isfat32type
getfatentrysize == IF isfat16type THEN 2 ELSE 4

getfatsize == IF isfat16type THEN fat.fat_size_16 ELSE fat.fat_size_32

getrootdirsector ==
  main_partition.lba_start + fat.reserved + fat.number_fats * getfatsize

\* Mutant: only the full sectors of the root directory.
getrootdirsectorscountFull ==
  IF isfat16type THEN (FAT_ENTRY_SIZE * fat.root_entries) \div fat.bytes ELSE 0

\* The sectors of the root directory of FAT16, the last one perhaps not full.
getrootdirsectorscount ==
  IF isfat16type THEN (FAT_ENTRY_SIZE * fat.root_entries + fat.bytes - 1) \div fat.bytes
  ELSE 0

getfirstdatasector == getrootdirsector + getrootdirsectorscount

getdatasectorcount ==
  LET total == IF fat.total_sectors_16 = 0 THEN fat.total_sectors_32
               ELSE fat.total_sectors_16
      first == fat.reserved + fat.number_fats * getfatsize + getrootdirsectorscount
  IN IF total <= first THEN 0 ELSE total - first

getclustercount == getdatasectorcount \div fat.sector_per_cluster
fat_max_cluster == IF getclustercount = 0 THEN 0 ELSE getclustercount + 1
DataClusters == 2..fat_max_cluster

clustertosector(cluster) == getfirstdatasector + (cluster - 2) * fat.sector_per_cluster

getclusterfromsector(sector) ==
  IF sector < getfirstdatasector THEN 0
  ELSE (sector - getfirstdatasector) \div fat.sector_per_cluster + 2

\* The entry of a cluster, by its number in its sector...
getfatsector(cluster) ==
  main_partition.lba_start + fat.reserved + cluster \div (fat.bytes \div getfatentrysize)
getfatentryoffset(cluster) == (cluster % (fat.bytes \div getfatentrysize)) * getfatentrysize

\* ...and by its byte in the table.
getsectornumber(cluster) == fat.reserved + (cluster * getfatentrysize) \div fat.bytes
getentryoffset(cluster) == (cluster * getfatentrysize) % fat.bytes

\* The clusters of a file; 0 also when there are not so many.
neededcluster(size) ==
  LET cluster_size == fat.sector_per_cluster * fat.bytes
      count == ((size + cluster_size - 1) % SizeWord) \div cluster_size
  IN IF size = 0 \/ count > getclustercount THEN 0 ELSE count

(***************************************************************************)
(* Start, and the table in use.                                            *)
(***************************************************************************)

VolumeInit ==
  /\ disk \in Images
  /\ active_partition = -1 /\ main_partition = NoPartition
  /\ fat = NoFat /\ used = {} /\ f_bfree = -1

\* The first active partition; a disk without one can be one volume that carries the
\* system's name and says which kind it is.
loadmbr ==
  LET flagged == {i \in 0..(MAX_PARTITION - 1) : disk.partition[i].active}
      whole == [type |-> disk.label, lba_start |-> 0]
  IN /\ active_partition = -1
     /\ \/ /\ flagged # {}
           /\ active_partition' = CHOOSE i \in flagged : \A k \in flagged : i <= k
           /\ main_partition' = [type |-> disk.partition[active_partition'].type,
                                 lba_start |-> disk.partition[active_partition'].lba_start]
        \/ /\ flagged = {} /\ disk.fastsys /\ disk.label \in {"fat16", "fat32"}
           /\ active_partition' = 0
           /\ main_partition' = whole
     /\ UNCHANGED <<disk, fat, used, f_bfree>>

\* The boot sector of the partition, if it is one this code can work with; any other
\* stops the machine.
loadfat ==
  LET boot == disk.boot[main_partition.lba_start]
  IN /\ active_partition # -1 /\ fat = NoFat
     /\ isfattype
     /\ main_partition.lba_start \in DOMAIN disk.boot
     /\ boot.signed
     /\ boot.bytes = SECTORSIZE
     /\ boot.sector_per_cluster # 0 /\ boot.number_fats # 0
     /\ isfat16type => boot.fat_size_16 # 0
     /\ isfat32type => boot.fat_size_32 # 0
     /\ fat' = boot
     /\ UNCHANGED <<disk, active_partition, main_partition, used, f_bfree>>

\* A cluster is taken or freed.
writecluster ==
  /\ fat # NoFat
  /\ \/ Cardinality(used) < MaxUsed /\ \E cluster \in DataClusters : used' = used \cup {cluster}
     \/ \E cluster \in used : used' = used \ {cluster}
  /\ UNCHANGED <<disk, active_partition, main_partition, fat, f_bfree>>

\* The number the FSInfo sector holds, which nothing updates, if there is one that is
\* possible, or the free entries of the table.
get_free_cluster_count ==
  IF isfat32type /\ fat.fs_info.valid /\ fat.fs_info.free <= getclustercount
    THEN fat.fs_info.free
    ELSE Cardinality(DataClusters \ used)

fat_statfs ==
  /\ fat # NoFat
  /\ f_bfree' = get_free_cluster_count
  /\ UNCHANGED <<disk, active_partition, main_partition, fat, used>>

VolumeNext == loadmbr \/ loadfat \/ writecluster \/ fat_statfs

(***************************************************************************)
(* Properties.                                                             *)
(***************************************************************************)

\* The table is long enough for the clusters and the volume ends in its partition, as
\* formatting leaves them: nothing in the kernel looks.
Formatted ==
  /\ (fat_max_cluster + 1) * getfatentrysize <= getfatsize * SECTORSIZE
  /\ getdatasectorcount > 0

\* The entries of the clusters are an array in the first table, found at one place by
\* both formulas, whole in their sector, and the copies lie between them and the root.
EntriesAreAnArray ==
  \A c \in DataClusters :
    LET start == main_partition.lba_start + fat.reserved
    IN /\ getfatsector(c) * SECTORSIZE + getfatentryoffset(c)
            = start * SECTORSIZE + c * getfatentrysize
       /\ getfatentryoffset(c) + getfatentrysize <= SECTORSIZE
       /\ main_partition.lba_start + getsectornumber(c) = getfatsector(c)
       /\ getentryoffset(c) = getfatentryoffset(c)
       /\ getfatsector(c) < start + getfatsize
       /\ getfatsector(c) + (fat.number_fats - 1) * getfatsize < getrootdirsector

\* The data of the clusters lies behind the root directory and before the end, and
\* each of its sectors leads back to its cluster.
DataIsApart ==
  LET total == IF fat.total_sectors_16 = 0 THEN fat.total_sectors_32
               ELSE fat.total_sectors_16
  IN /\ isfat16type => getfirstdatasector * SECTORSIZE
                         >= getrootdirsector * SECTORSIZE + fat.root_entries * FAT_ENTRY_SIZE
     /\ \A c \in DataClusters :
          /\ clustertosector(c) + fat.sector_per_cluster <= main_partition.lba_start + total
          /\ \A k \in 0..(fat.sector_per_cluster - 1) :
               getclusterfromsector(clustertosector(c) + k) = c

\* A file gets the least number of clusters that hold it, and none if the volume, or the
\* width of a number, has not so many.
NeededIsLeast ==
  LET cluster_size == fat.sector_per_cluster * SECTORSIZE
  IN \A size \in Sizes :
       IF neededcluster(size) = 0
         THEN \/ size = 0 \/ size > getclustercount * cluster_size
              \/ size + cluster_size > SizeWord
         ELSE /\ neededcluster(size) * cluster_size >= size
              /\ (neededcluster(size) - 1) * cluster_size < size

\* What is where on a volume that was formatted soundly; and whatever else is on the
\* disk, statfs never says more is free than there are clusters (getfatsector,
\* getnextcluster, clustertosector, neededcluster, get_free_cluster_count).
VolumeIsSound ==
  fat # NoFat =>
    /\ Formatted => EntriesAreAnArray /\ DataIsApart /\ NeededIsLeast
    /\ f_bfree <= getclustercount

=============================================================================
