----------------------------- MODULE FatProofs -----------------------------
(***************************************************************************)
(* Theorems about FatChains for any number of tasks, of clusters, of       *)
(* entries and of descriptors: every state is well typed, a task that has  *)
(* the volume to itself never makes two entries share a cluster, and what  *)
(* a failed write, a killed task or a power cut leaves is contained.       *)
(***************************************************************************)
EXTENDS FatChains, FiniteSetTheorems, WellFoundedInduction, TLAPS

USE DEF None, EOC, Clusters, OptionalClusters, Sizes

-----------------------------------------------------------------------------
(* The records of the calls.                                               *)

Buffers == {<<>>} \cup [Clusters -> Links] \cup [Slots -> Entries]

Locals ==
  [op : Operations, at : Stages, ok : BOOLEAN, fd : Descriptors \cup {0},
   slot : Slots \cup {0}, to : Slots \cup {0}, kind : Kinds,
   chain : OptionalClusters, size : Sizes, position : Sizes, goal : Sizes,
   gap : BOOLEAN, count : Sizes, left : 0..MaxCluster, found : 0..MaxCluster + 1,
   cluster : OptionalClusters, next : Links, first : OptionalClusters,
   previous : OptionalClusters, tail : OptionalClusters, undo : BOOLEAN,
   buffer : Buffers]

\* What a call is asked to do is sound, wherever it is.
Asked(c) ==
  c.op = "write" => c.count >= 1 /\ (c.gap => c.size < c.position)

\* What it needs to be where it is.
Ready(c) ==
  /\ c.at = "lookup" => c.op \in {"open", "unlink", "rename"} /\ c.slot \in Slots
  /\ c.at \in {"scan", "mark", "link"} =>
       c.op \in {"write", "mkdir"} /\ c.left >= 1 /\ c.cluster \in Clusters
  /\ c.at \in {"length", "nth", "next", "cut", "append"} => c.op = "write"
  /\ c.at = "length" => c.found <= MaxCluster
  /\ c.at = "free" => c.found <= MaxCluster
  /\ c.at = "nth" => c.left >= 1 /\ c.found # c.count
  /\ c.at = "cut" => c.next \in Clusters
  /\ c.at \in FatWrites => c.buffer \in {<<>>} \cup [Clusters -> Links]
  /\ c.at \in DirWrites => c.buffer \in {<<>>} \cup [Slots -> Entries]

Sound(c) == c \in Locals /\ Asked(c) /\ Ready(c)

LEMMA Ranges ==
  /\ <<>> \in Buffers /\ {None, EOC} \subseteq Links /\ OptionalClusters \subseteq Links
  /\ MaxCluster \in Nat /\ MaxCluster >= 2 /\ MaxSize \in Nat
  /\ Stages = FatWrites \cup FatReads \cup DirWrites \cup DirReads \cup {"idle", "return"}
BY FatAssumption DEF Buffers, Links, Stages

LEMMA NoBuffer == <<>> \in Buffers
BY DEF Buffers

LEMMA StageNames ==
  Stages = FatWrites \cup FatReads \cup DirWrites \cup DirReads \cup {"idle", "return"}
BY DEF Stages

LEMMA AreStages == {"return", "scan", "free", "length", "entry"} \subseteq Stages
BY StageNames DEF FatReads, DirWrites

\* A call whose record changes in one field.
LEMMA Updates ==
  ASSUME NEW c \in Locals
  PROVE  /\ \A v \in Operations : [c EXCEPT !.op = v] \in Locals
         /\ \A v \in Stages : [c EXCEPT !.at = v] \in Locals
         /\ \A v \in BOOLEAN : [c EXCEPT !.ok = v] \in Locals
         /\ \A v \in Descriptors \cup {0} : [c EXCEPT !.fd = v] \in Locals
         /\ \A v \in Slots \cup {0} : [c EXCEPT !.slot = v] \in Locals
         /\ \A v \in Slots \cup {0} : [c EXCEPT !.to = v] \in Locals
         /\ \A v \in Kinds : [c EXCEPT !.kind = v] \in Locals
         /\ \A v \in OptionalClusters : [c EXCEPT !.chain = v] \in Locals
         /\ \A v \in Sizes : [c EXCEPT !.size = v] \in Locals
         /\ \A v \in Sizes : [c EXCEPT !.position = v] \in Locals
         /\ \A v \in Sizes : [c EXCEPT !.goal = v] \in Locals
         /\ \A v \in BOOLEAN : [c EXCEPT !.gap = v] \in Locals
         /\ \A v \in Sizes : [c EXCEPT !.count = v] \in Locals
         /\ \A v \in 0..MaxCluster : [c EXCEPT !.left = v] \in Locals
         /\ \A v \in 0..MaxCluster + 1 : [c EXCEPT !.found = v] \in Locals
         /\ \A v \in OptionalClusters : [c EXCEPT !.cluster = v] \in Locals
         /\ \A v \in Links : [c EXCEPT !.next = v] \in Locals
         /\ \A v \in OptionalClusters : [c EXCEPT !.first = v] \in Locals
         /\ \A v \in OptionalClusters : [c EXCEPT !.previous = v] \in Locals
         /\ \A v \in OptionalClusters : [c EXCEPT !.tail = v] \in Locals
         /\ \A v \in BOOLEAN : [c EXCEPT !.undo = v] \in Locals
         /\ \A v \in Buffers : [c EXCEPT !.buffer = v] \in Locals
<1> HIDE DEF OptionalClusters, Sizes, Clusters, EOC, None
<1>1. \A v \in Operations : [c EXCEPT !.op = v] \in Locals
  BY DEF Locals
<1>2. \A v \in Stages : [c EXCEPT !.at = v] \in Locals
  BY DEF Locals
<1>3. \A v \in BOOLEAN : [c EXCEPT !.ok = v] \in Locals
  BY DEF Locals
<1>4. \A v \in Descriptors \cup {0} : [c EXCEPT !.fd = v] \in Locals
  BY DEF Locals
<1>5. \A v \in Slots \cup {0} : [c EXCEPT !.slot = v] \in Locals
  BY DEF Locals
<1>6. \A v \in Slots \cup {0} : [c EXCEPT !.to = v] \in Locals
  BY DEF Locals
<1>7. \A v \in Kinds : [c EXCEPT !.kind = v] \in Locals
  BY DEF Locals
<1>8. \A v \in OptionalClusters : [c EXCEPT !.chain = v] \in Locals
  BY DEF Locals
<1>9. \A v \in Sizes : [c EXCEPT !.size = v] \in Locals
  BY DEF Locals
<1>10. \A v \in Sizes : [c EXCEPT !.position = v] \in Locals
  BY DEF Locals
<1>11. \A v \in Sizes : [c EXCEPT !.goal = v] \in Locals
  BY DEF Locals
<1>12. \A v \in BOOLEAN : [c EXCEPT !.gap = v] \in Locals
  BY DEF Locals
<1>13. \A v \in Sizes : [c EXCEPT !.count = v] \in Locals
  BY DEF Locals
<1>14. \A v \in 0..MaxCluster : [c EXCEPT !.left = v] \in Locals
  BY DEF Locals
<1>15. \A v \in 0..MaxCluster + 1 : [c EXCEPT !.found = v] \in Locals
  BY DEF Locals
<1>16. \A v \in OptionalClusters : [c EXCEPT !.cluster = v] \in Locals
  BY DEF Locals
<1>17. \A v \in Links : [c EXCEPT !.next = v] \in Locals
  BY DEF Locals
<1>18. \A v \in OptionalClusters : [c EXCEPT !.first = v] \in Locals
  BY DEF Locals
<1>19. \A v \in OptionalClusters : [c EXCEPT !.previous = v] \in Locals
  BY DEF Locals
<1>20. \A v \in OptionalClusters : [c EXCEPT !.tail = v] \in Locals
  BY DEF Locals
<1>21. \A v \in BOOLEAN : [c EXCEPT !.undo = v] \in Locals
  BY DEF Locals
<1>22. \A v \in Buffers : [c EXCEPT !.buffer = v] \in Locals
  BY DEF Locals
<1> QED
  BY <1>1, <1>2, <1>3, <1>4, <1>5, <1>6, <1>7, <1>8, <1>9, <1>10, <1>11, <1>12, <1>13, <1>14, <1>15, <1>16, <1>17, <1>18, <1>19, <1>20, <1>21, <1>22

LEMMA GotoIsLocal ==
  ASSUME NEW c \in Locals, NEW s \in Stages
  PROVE  Goto(c, s) \in Locals
BY NoBuffer, Updates DEF Goto

LEMMA ReturnIsSound ==
  ASSUME NEW c \in Locals, Asked(c), NEW ok \in BOOLEAN
  PROVE  Sound(Return(c, ok))
<1> DEFINE r == Return(c, ok)
<1>1. r \in Locals
  <2>1. "return" \in Stages /\ None \in OptionalClusters
    BY AreStages
  <2> QED
    BY <2>1, NoBuffer, Updates DEF Return, Goto
<1>2. r.at = "return" /\ r.op = c.op /\ r.count = c.count /\ r.gap = c.gap
      /\ r.size = c.size /\ r.position = c.position
  BY DEF Return, Goto, Locals
<1> HIDE DEF r
<1>3. Asked(r) /\ Ready(r)
  BY <1>2 DEF Asked, Ready, FatWrites, DirWrites
<1> QED
  BY <1>1, <1>3 DEF r, Sound

LEMMA freechainIsSound ==
  ASSUME NEW c \in Locals, Asked(c), NEW k \in OptionalClusters
  PROVE  Sound(freechain(c, k))
<1> DEFINE r == freechain(c, k)
<1>1. r \in Locals
  <2>1. 0 \in 0..MaxCluster + 1 /\ "free" \in Stages
    BY AreStages, Ranges
  <2> QED
    BY <2>1, NoBuffer, Updates DEF freechain, Goto
<1>2. r.at = "free" /\ r.op = c.op /\ r.count = c.count /\ r.gap = c.gap
      /\ r.size = c.size /\ r.position = c.position /\ r.found = 0
  BY DEF freechain, Goto, Locals
<1> HIDE DEF r
<1>3. Asked(r) /\ Ready(r)
  BY <1>2, Ranges DEF Asked, Ready, FatWrites, DirWrites
<1> QED
  BY <1>1, <1>3 DEF r, Sound

LEMMA AllocFailsIsSound ==
  ASSUME NEW c \in Locals, Asked(c)
  PROVE  Sound(AllocFails(c))
<1> DEFINE u == [c EXCEPT !.undo = TRUE]
<1>1. u \in Locals
  <2>1. TRUE \in BOOLEAN
    OBVIOUS
  <2> QED
    BY <2>1, Updates
<1>2. Asked(u) /\ c.first \in OptionalClusters
  BY DEF Locals, Asked
<1> QED
  BY <1>1, <1>2, ReturnIsSound, freechainIsSound DEF AllocFails

LEMMA allocchainIsSound ==
  ASSUME NEW c \in Locals, Asked(c), c.op \in {"write", "mkdir"},
         NEW n \in Nat, n >= 1, NEW tail \in OptionalClusters
  PROVE  Sound(allocchain(c, n, tail))
<1>1. Cardinality(Clusters) = MaxCluster - 1
  BY FS_Interval, Ranges
<1>2. CASE n > Cardinality(Clusters)
  BY <1>2, ReturnIsSound DEF allocchain
<1>3. CASE n <= MaxCluster - 1
  <2> DEFINE r == allocchain(c, n, tail)
  <2>1. r = [Goto(c, "scan") EXCEPT !.cluster = 2, !.left = n, !.tail = tail,
                                     !.first = None, !.previous = None]
    <3>1. ~(n > Cardinality(Clusters))
      BY <1>1, <1>3, Ranges
    <3> QED
      BY <3>1 DEF allocchain
  <2>2. n \in 0..MaxCluster /\ 2 \in OptionalClusters /\ None \in OptionalClusters
        /\ 2 \in Clusters /\ "scan" \in Stages
    BY <1>3, AreStages, Ranges
  <2>3. r \in Locals
    <3> DEFINE g == Goto(c, "scan")
    <3>1. g \in Locals
      BY <2>2, GotoIsLocal
    <3> HIDE DEF g
    <3>2. ASSUME NEW h \in Locals, NEW k \in OptionalClusters, NEW m \in 0..MaxCluster
          PROVE  [h EXCEPT !.cluster = k, !.left = m] \in Locals
      <4> HIDE DEF OptionalClusters, Sizes, Clusters
      <4>1. [h EXCEPT !.cluster = k] \in Locals
        BY DEF Locals
      <4>2. ASSUME NEW e \in Locals PROVE [e EXCEPT !.left = m] \in Locals
        BY DEF Locals
      <4> QED
        BY <4>1, <4>2
    <3>3. ASSUME NEW h \in Locals
          PROVE  [h EXCEPT !.tail = tail, !.first = None, !.previous = None] \in Locals
      BY <2>2, Updates
    <3> QED
      <4>1. [g EXCEPT !.cluster = 2, !.left = n] \in Locals
        BY <2>2, <3>1, <3>2
      <4> QED
        BY <2>1, <3>3, <4>1 DEF g
  <2>4. r.at = "scan" /\ r.op = c.op /\ r.count = c.count /\ r.gap = c.gap
        /\ r.size = c.size /\ r.position = c.position /\ r.left = n /\ r.cluster = 2
    BY <2>1 DEF Goto, Locals
  <2> HIDE DEF r
  <2>5. Asked(r) /\ Ready(r)
    BY <2>2, <2>4 DEF Asked, Ready, FatWrites, DirWrites
  <2> QED
    BY <2>3, <2>5 DEF r, Sound
<1> QED
  BY <1>1, <1>2, <1>3, Ranges

LEMMA resizechainIsSound ==
  ASSUME NEW c \in Locals, Asked(c), c.op = "write"
  PROVE  Sound(resizechain(c))
<1>1. CASE c.chain = None
  <2>1. c.count \in Nat /\ c.count >= 1
    BY Ranges DEF Locals, Asked
  <2> QED
    BY <1>1, <2>1, allocchainIsSound DEF resizechain
<1>2. CASE c.chain # None
  <2> DEFINE r == resizechain(c)
  <2>1. r = [Goto(c, "length") EXCEPT !.cluster = c.chain, !.found = 0]
    BY <1>2 DEF resizechain
  <2>2. 0 \in 0..MaxCluster + 1 /\ "length" \in Stages /\ c.chain \in OptionalClusters
    BY AreStages, Ranges DEF Locals
  <2>3. r \in Locals
    <3> DEFINE g == Goto(c, "length")
    <3>1. g \in Locals /\ r = [g EXCEPT !.cluster = c.chain, !.found = 0]
      BY <2>1, <2>2, GotoIsLocal
    <3> HIDE DEF g, r
    <3> QED
      BY <2>2, <3>1, Updates
  <2>4. r.at = "length" /\ r.op = c.op /\ r.count = c.count /\ r.gap = c.gap
        /\ r.size = c.size /\ r.position = c.position /\ r.found = 0
    BY <2>1 DEF Goto, Locals
  <2> HIDE DEF r
  <2>5. Asked(r) /\ Ready(r)
    BY <2>4, Ranges DEF Asked, Ready, FatWrites, DirWrites
  <2> QED
    BY <2>3, <2>5 DEF r, Sound
<1> QED
  BY <1>1, <1>2

LEMMA ResizedIsSound ==
  ASSUME NEW c \in Locals, Asked(c), c.op = "write"
  PROVE  Sound(Resized(c))
<1>1. CASE c.gap
  <2> DEFINE u == [c EXCEPT !.gap = FALSE, !.count = c.size + 1]
  <2>1. c.size + 1 \in Sizes
    BY <1>1, Ranges DEF Locals, Asked
  <2>2. u \in Locals
    BY <2>1, Updates
  <2>3. u.op = "write" /\ Asked(u)
    BY <2>1, Ranges DEF Locals, Asked
  <2> HIDE DEF u
  <2>4. Sound(resizechain(u))
    BY <2>2, <2>3, resizechainIsSound
  <2> QED
    BY <1>1, <2>4 DEF Resized, u
<1>2. CASE ~c.gap
  <2> DEFINE r == Resized(c)
  <2>1. r = [Goto(c, "entry") EXCEPT !.size = c.count]
    BY <1>2 DEF Resized
  <2>2. "entry" \in Stages /\ c.count \in Sizes
    BY Ranges DEF DirWrites, Locals
  <2>3. r \in Locals
    <3> DEFINE g == Goto(c, "entry")
    <3>1. g \in Locals /\ r = [g EXCEPT !.size = c.count]
      BY <2>1, <2>2, GotoIsLocal
    <3> HIDE DEF g, r
    <3> QED
      BY <2>2, <3>1, Updates
  <2>4. r.at = "entry" /\ r.op = c.op /\ r.count = c.count /\ r.gap = c.gap
        /\ r.position = c.position /\ r.buffer = <<>>
    BY <2>1 DEF Goto, Locals
  <2> HIDE DEF r
  <2>5. Asked(r) /\ Ready(r)
    BY <1>2, <2>4 DEF Asked, Ready, FatWrites, DirWrites
  <2> QED
    BY <2>3, <2>5 DEF r, Sound
<1> QED
  BY <1>1, <1>2 DEF Locals

LEMMA AllocatedIsSound ==
  ASSUME NEW c \in Locals, Asked(c), c.op \in {"write", "mkdir"}
  PROVE  Sound(Allocated(c))
<1>1. CASE c.op = "mkdir"
  <2>1. "place" \in Stages
    BY StageNames DEF DirReads
  <2>2. Goto(c, "place") \in Locals
    BY <2>1, NoBuffer, Updates DEF Goto
  <2>3. Goto(c, "place").at = "place" /\ Goto(c, "place").op = "mkdir"
    BY <1>1 DEF Goto, Locals
  <2>4. Sound(Goto(c, "place"))
    BY <2>2, <2>3 DEF Sound, Asked, Ready, FatWrites, DirWrites
  <2> QED
    BY <1>1, <2>4 DEF Allocated
<1>2. CASE c.op = "write" /\ c.tail # None
  <2> DEFINE r == Goto(c, "append")
  <2>1. "append" \in Stages
    BY StageNames DEF FatWrites
  <2>2. r \in Locals
    BY <2>1, NoBuffer, Updates DEF Goto
  <2>3. r.at = "append" /\ r.op = "write" /\ r.count = c.count /\ r.gap = c.gap
        /\ r.size = c.size /\ r.position = c.position /\ r.buffer = <<>>
    BY <1>2 DEF Goto, Locals
  <2> HIDE DEF r
  <2>4. Sound(r)
    BY <1>2, <2>2, <2>3 DEF Sound, Asked, Ready, FatWrites, DirWrites
  <2> QED
    BY <1>2, <2>4 DEF Allocated, r
<1>3. CASE c.op = "write" /\ c.tail = None
  <2> DEFINE u == [c EXCEPT !.chain = c.first]
  <2>1. u \in Locals /\ u.op = "write" /\ Asked(u)
    BY <1>3 DEF Locals, Asked
  <2> QED
    BY <1>3, <2>1, ResizedIsSound DEF Allocated
<1> QED
  BY <1>1, <1>2, <1>3

LEMMA NextScanIsSound ==
  ASSUME NEW c \in Locals, Asked(c), c.op \in {"write", "mkdir"}, c.cluster \in Clusters
  PROVE  Sound(NextScan(c))
<1>1. CASE c.left = 0
  BY <1>1, AllocatedIsSound DEF NextScan
<1>2. CASE c.left # 0 /\ c.cluster = MaxCluster
  BY <1>2, AllocFailsIsSound DEF NextScan
<1>3. CASE c.left # 0 /\ c.cluster # MaxCluster
  <2> DEFINE r == [Goto(c, "scan") EXCEPT !.cluster = c.cluster + 1]
  <2>1. c.cluster + 1 \in Clusters /\ c.cluster + 1 \in OptionalClusters
        /\ "scan" \in Stages /\ c.left >= 1
    BY <1>3, Ranges, AreStages DEF Locals
  <2>2. r \in Locals
    BY <2>1, NoBuffer, Updates DEF Goto
  <2>3. r.at = "scan" /\ r.op = c.op /\ r.count = c.count /\ r.gap = c.gap
        /\ r.size = c.size /\ r.position = c.position /\ r.left = c.left
        /\ r.cluster = c.cluster + 1
    BY DEF Goto, Locals
  <2> HIDE DEF r
  <2>4. Sound(r)
    BY <2>1, <2>2, <2>3 DEF Sound, Asked, Ready, FatWrites, DirWrites
  <2> QED
    BY <1>3, <2>4 DEF NextScan, r
<1> QED
  BY <1>1, <1>2, <1>3

LEMMA LinkedIsSound ==
  ASSUME NEW c \in Locals, Asked(c), c.op \in {"write", "mkdir"}, c.cluster \in Clusters,
         c.left >= 1
  PROVE  Sound(Linked(c))
<1> DEFINE u == [c EXCEPT !.previous = c.cluster, !.left = c.left - 1]
<1>1. c.left - 1 \in 0..MaxCluster
  BY Ranges DEF Locals
<1>2. u \in Locals
  BY <1>1 DEF Locals
<1>3. u.op = c.op /\ u.cluster = c.cluster /\ Asked(u)
  BY DEF Locals, Asked
<1> QED
  BY <1>2, <1>3, NextScanIsSound DEF Linked

LEMMA MarkedIsSound ==
  ASSUME NEW c \in Locals, Asked(c), c.op \in {"write", "mkdir"}, c.cluster \in Clusters,
         c.left >= 1
  PROVE  Sound(Marked(c))
<1> DEFINE k == IF c.first = None THEN c.cluster ELSE c.first
           m == [c EXCEPT !.first = k]
<1>1. k \in OptionalClusters
  BY DEF Locals
<1> HIDE DEF k
<1>2. m \in Locals /\ m.op = c.op /\ m.cluster = c.cluster /\ m.left = c.left /\ Asked(m)
  BY <1>1 DEF Locals, Asked
<1>3. CASE c.previous = None
  BY <1>2, <1>3, LinkedIsSound DEF Marked, k
<1>4. CASE c.previous # None
  <2> DEFINE r == Goto(m, "link")
  <2>1. "link" \in Stages
    BY StageNames DEF FatWrites
  <2> HIDE DEF m
  <2>2. r \in Locals
    BY <1>2, <2>1, GotoIsLocal
  <2>3. r.at = "link" /\ r.op = m.op /\ r.count = m.count /\ r.gap = m.gap
        /\ r.size = m.size /\ r.position = m.position /\ r.left = m.left
        /\ r.cluster = m.cluster /\ r.buffer = <<>>
    BY <1>2 DEF Goto, Locals
  <2> HIDE DEF r
  <2>4. Sound(r)
    BY <1>2, <2>2, <2>3 DEF Sound, Asked, Ready, FatWrites, DirWrites
  <2> QED
    BY <1>4, <2>4 DEF Marked, r, m, k
<1> QED
  BY <1>3, <1>4

LEMMA FreedIsSound ==
  ASSUME NEW c \in Locals, Asked(c), NEW ok \in BOOLEAN
  PROVE  Sound(Freed(c, ok))
<1>1. CASE c.op = "unlink"
  <2> DEFINE r == Goto(c, "erase")
  <2>1. "erase" \in Stages
    BY StageNames DEF DirWrites
  <2>2. r \in Locals
    BY <2>1, NoBuffer, Updates DEF Goto
  <2>3. r.at = "erase" /\ r.op = "unlink" /\ r.buffer = <<>>
    BY <1>1 DEF Goto, Locals
  <2> HIDE DEF r
  <2>4. Sound(r)
    BY <2>2, <2>3 DEF Sound, Asked, Ready, FatWrites, DirWrites
  <2> QED
    BY <1>1, <2>4 DEF Freed, r
<1>2. CASE c.op = "open" /\ ok
  <2> DEFINE r == [Goto(c, "entry") EXCEPT !.chain = None, !.size = 0]
  <2>1. "entry" \in Stages /\ None \in OptionalClusters /\ 0 \in Sizes
    BY AreStages, Ranges
  <2>2. r \in Locals
    BY <2>1, NoBuffer, Updates DEF Goto
  <2>3. r.at = "entry" /\ r.op = "open" /\ r.buffer = <<>>
    BY <1>2 DEF Goto, Locals
  <2> HIDE DEF r
  <2>4. Sound(r)
    BY <2>2, <2>3 DEF Sound, Asked, Ready, FatWrites, DirWrites
  <2> QED
    BY <1>2, <2>4 DEF Freed, r
<1>3. CASE c.op = "write" /\ ok /\ ~c.undo
  BY <1>3, ResizedIsSound DEF Freed
<1>4. CASE ~(c.op = "unlink") /\ ~(c.op = "open" /\ ok) /\ ~(c.op = "write" /\ ok /\ ~c.undo)
  BY <1>4, ReturnIsSound DEF Freed
<1> QED
  BY <1>1, <1>2, <1>3, <1>4

LEMMA ClearedIsSound ==
  ASSUME NEW c \in Locals, Asked(c)
  PROVE  Sound(Cleared(c))
<1>1. CASE c.next \in {None, EOC} \/ ~(c.next \in Clusters /\ c.found < MaxCluster)
  <2>1. c.next \in {None, EOC} => c.next \notin Clusters
    BY Ranges
  <2> QED
    BY <1>1, <2>1, FreedIsSound DEF Cleared
<1>2. CASE c.next \in Clusters /\ c.found < MaxCluster
  <2> DEFINE r == [Goto(c, "free") EXCEPT !.cluster = c.next]
  <2>1. "free" \in Stages /\ c.next \in OptionalClusters /\ c.next \notin {None, EOC}
    BY <1>2, AreStages, Ranges
  <2>2. r \in Locals
    BY <2>1, NoBuffer, Updates DEF Goto
  <2>3. r.at = "free" /\ r.op = c.op /\ r.count = c.count /\ r.gap = c.gap
        /\ r.size = c.size /\ r.position = c.position /\ r.found = c.found
        /\ c.found \in Nat
    BY DEF Goto, Locals
  <2> HIDE DEF r
  <2>4. Sound(r)
    BY <1>2, <2>2, <2>3, Ranges DEF Sound, Asked, Ready, FatWrites, DirWrites
  <2> QED
    BY <1>2, <2>1, <2>4 DEF Cleared, r
<1> QED
  BY <1>1, <1>2

LEMMA AtNthIsSound ==
  ASSUME NEW c \in Locals, Asked(c), c.op = "write", c.found # c.count
  PROVE  Sound(AtNth(c))
<1>0. c.left \in Nat /\ c.found \in Nat /\ c.count \in Nat /\ c.cluster \in OptionalClusters
  BY Ranges DEF Locals
<1>1. ASSUME NEW s \in {"nth", "next"}, s = "nth" => c.left >= 1
      PROVE  Sound(Goto(c, s))
  <2> DEFINE r == Goto(c, s)
  <2>1. s \in Stages
    BY StageNames DEF FatReads
  <2>2. r \in Locals
    BY <2>1, NoBuffer, Updates DEF Goto
  <2>3. r.at = s /\ r.op = c.op /\ r.count = c.count /\ r.gap = c.gap
        /\ r.size = c.size /\ r.position = c.position /\ r.left = c.left /\ r.found = c.found
    BY DEF Goto, Locals
  <2> HIDE DEF r
  <2>4. Sound(r)
    BY <1>1, <2>2, <2>3 DEF Sound, Asked, Ready, FatWrites, DirWrites
  <2> QED
    BY <2>4 DEF r
<1>2. CASE c.left > 0
  BY <1>0, <1>1, <1>2 DEF AtNth
<1>3. CASE ~(c.left > 0) /\ c.found > c.count
  BY <1>1, <1>3 DEF AtNth
<1>4. CASE ~(c.left > 0) /\ ~(c.found > c.count)
  <2>1. c.count - c.found \in Nat /\ c.count - c.found >= 1
    BY <1>0, <1>4
  <2> QED
    BY <1>0, <1>4, <2>1, allocchainIsSound DEF AtNth
<1> QED
  BY <1>2, <1>3, <1>4

LEMMA MeasuredIsSound ==
  ASSUME NEW c \in Locals, Asked(c), c.op = "write", NEW n \in 1..MaxCluster
  PROVE  Sound(Measured(c, n))
<1> DEFINE keep == IF n > c.count THEN c.count ELSE n
           u == [c EXCEPT !.found = n, !.cluster = c.chain, !.left = keep - 1]
<1>1. keep - 1 \in 0..MaxCluster /\ n \in 0..MaxCluster + 1 /\ c.chain \in OptionalClusters
  BY Ranges DEF Locals, Asked
<1> HIDE DEF keep
<1>2. u \in Locals
  BY <1>1, Updates
<1>5. u.op = "write" /\ u.found = n /\ u.count = c.count /\ Asked(u)
  BY DEF Locals, Asked
<1>3. CASE n = c.count
  BY <1>3, ResizedIsSound DEF Measured
<1>4. CASE n # c.count
  BY <1>2, <1>4, <1>5, AtNthIsSound DEF Measured, keep
<1> QED
  BY <1>3, <1>4

LEMMA EntryWrittenIsSound ==
  ASSUME NEW c \in Locals, Asked(c), c.op = "write", NEW ok \in BOOLEAN
  PROVE  Sound(EntryWritten(c, ok))
<1>0. c.size \in Sizes /\ c.position \in Sizes /\ c.goal \in Sizes
  BY DEF Locals
<1>1. CASE c.size < c.position
  <2> DEFINE u == [c EXCEPT !.count = c.size + 1]
  <2>1. c.size + 1 \in Sizes /\ c.size + 1 >= 1
    BY <1>0, <1>1, Ranges
  <2>2. u \in Locals /\ u.op = "write" /\ Asked(u)
    BY <2>1 DEF Locals, Asked
  <2> HIDE DEF u
  <2>3. Sound(resizechain(u))
    BY <2>2, resizechainIsSound
  <2> QED
    BY <1>0, <1>1, <2>3 DEF EntryWritten, u
<1>2. CASE c.size = c.position /\ c.position > 0
  <2> DEFINE r == [Goto(c, "entry") EXCEPT !.position = 0]
  <2>1. "entry" \in Stages /\ 0 \in Sizes /\ ~(c.size < c.position)
    BY <1>0, <1>2, AreStages, Ranges
  <2>2. r \in Locals
    BY <2>1, NoBuffer, Updates DEF Goto
  <2>3. r.at = "entry" /\ r.op = "write" /\ r.count = c.count /\ r.gap = c.gap
        /\ r.size = c.size /\ r.buffer = <<>>
    BY DEF Goto, Locals
  <2>4. ~c.gap
    BY <2>1 DEF Asked
  <2> HIDE DEF r
  <2>5. Sound(r)
    BY <2>2, <2>3, <2>4 DEF Sound, Asked, Ready, FatWrites, DirWrites
  <2> QED
    BY <1>2, <2>1, <2>5 DEF EntryWritten, r
<1>3. CASE c.position = 0 /\ c.size < c.goal /\ ok
  <2> DEFINE u == [c EXCEPT !.count = c.goal]
  <2>1. c.goal >= 1 /\ ~(c.size < c.position) /\ ~(c.position > 0)
    BY <1>0, <1>3, Ranges
  <2>2. u \in Locals /\ u.op = "write" /\ Asked(u)
    BY <2>1 DEF Locals, Asked
  <2> QED
    BY <1>3, <2>1, <2>2, resizechainIsSound DEF EntryWritten
<1>4. CASE /\ ~(c.size < c.position) /\ ~(c.size = c.position /\ c.position > 0)
           /\ ~(c.position = 0 /\ c.size < c.goal /\ ok)
  BY <1>4, ReturnIsSound DEF EntryWritten
<1> QED
  BY <1>1, <1>2, <1>3, <1>4

\* A call that goes on at another access as it is.
LEMMA GotoFields ==
  ASSUME NEW c \in Locals, NEW s \in Stages
  PROVE  /\ Goto(c, s).at = s /\ Goto(c, s).buffer = <<>>
         /\ Goto(c, s).op = c.op /\ Goto(c, s).count = c.count /\ Goto(c, s).gap = c.gap
         /\ Goto(c, s).size = c.size /\ Goto(c, s).position = c.position
         /\ Goto(c, s).left = c.left /\ Goto(c, s).found = c.found
         /\ Goto(c, s).cluster = c.cluster /\ Goto(c, s).next = c.next
BY DEF Goto, Locals

\* Every call may come to an access to the directory.
LEMMA GotoDirIsSound ==
  ASSUME NEW c \in Locals, Asked(c), NEW s \in DirWrites \cup {"place"}
  PROVE  Sound(Goto(c, s))
<1> DEFINE g == Goto(c, s)
<1>1. s \in Stages
  BY StageNames DEF DirReads
<1>2. g \in Locals
  BY <1>1, GotoIsLocal
<1>3. /\ g.at = s /\ g.op = c.op /\ g.count = c.count /\ g.gap = c.gap
      /\ g.size = c.size /\ g.position = c.position /\ g.buffer = <<>>
  BY <1>1, GotoFields
<1> HIDE DEF g
<1>4. Asked(g) /\ Ready(g)
  BY <1>3 DEF Asked, Ready, FatWrites, DirWrites
<1> QED
  BY <1>2, <1>4 DEF Sound, g

\* The variables of a loop stay in their ranges.
LEMMA LoopFields ==
  ASSUME NEW c \in Locals, NEW f \in 0..MaxCluster + 1, NEW k \in OptionalClusters, NEW v \in Links
  PROVE  /\ [c EXCEPT !.found = f] \in Locals
         /\ [c EXCEPT !.found = f, !.cluster = k] \in Locals
         /\ [c EXCEPT !.found = f, !.next = v] \in Locals
<1> HIDE DEF OptionalClusters, Sizes, Clusters
<1>1. [c EXCEPT !.found = f] \in Locals
  BY DEF Locals
<1>2. ASSUME NEW d \in Locals PROVE [d EXCEPT !.cluster = k] \in Locals /\ [d EXCEPT !.next = v] \in Locals
  BY DEF Locals
<1> QED
  BY <1>1, <1>2

LEMMA ScannedIsSound ==
  ASSUME NEW c, Sound(c), c.at = "scan", NEW v \in Links
  PROVE  Sound(Scanned(c, v))
<1>1. c \in Locals /\ Asked(c) /\ c.op \in {"write", "mkdir"} /\ c.left >= 1 /\ c.cluster \in Clusters
  BY DEF Sound, Ready
<1>2. CASE v = 0
  <2>1. "mark" \in Stages
    BY StageNames DEF FatWrites
  <2>2. Sound(Goto(c, "mark"))
    BY <1>1, <2>1, GotoIsLocal, GotoFields DEF Sound, Asked, Ready, FatWrites, DirWrites
  <2> QED
    BY <1>2, <2>2 DEF Scanned
<1>3. CASE v # 0
  BY <1>1, <1>3, NextScanIsSound DEF Scanned
<1> QED
  BY <1>2, <1>3

LEMMA ToClearIsSound ==
  ASSUME NEW c, Sound(c), c.at = "free", NEW v \in Links
  PROVE  Sound(ToClear(c, v))
<1> DEFINE g == Goto(c, "clear")
           r == [g EXCEPT !.found = c.found + 1, !.next = v]
<1>1. c \in Locals /\ Asked(c) /\ c.found <= MaxCluster
  BY DEF Sound, Ready
<1>2. "clear" \in Stages /\ c.found + 1 \in 0..MaxCluster + 1
  BY <1>1, StageNames, Ranges DEF FatWrites, Locals
<1>3. /\ g \in Locals /\ g.at = "clear" /\ g.op = c.op /\ g.count = c.count /\ g.gap = c.gap
      /\ g.size = c.size /\ g.position = c.position /\ g.buffer = <<>>
  BY <1>1, <1>2, GotoIsLocal, GotoFields
<1> HIDE DEF g
<1>6. r \in Locals
  BY <1>2, <1>3, LoopFields
<1>4. /\ r.at = "clear" /\ r.op = g.op /\ r.count = g.count /\ r.gap = g.gap
      /\ r.size = g.size /\ r.position = g.position /\ r.buffer = g.buffer
  BY <1>2, <1>3 DEF Locals
<1> HIDE DEF r
<1>5. Sound(r)
  BY <1>1, <1>3, <1>4, <1>6 DEF Sound, Asked, Ready, FatWrites, DirWrites
<1> QED
  BY <1>5 DEF ToClear, r, g

LEMMA CountedIsSound ==
  ASSUME NEW c, Sound(c), c.at = "length", NEW v \in Links
  PROVE  Sound(Counted(c, v))
<1>1. c \in Locals /\ Asked(c) /\ Ready(c) /\ c.found <= MaxCluster /\ c.op = "write"
      /\ c.found \in Nat
  BY DEF Sound, Ready, Locals
<1>2. CASE c.found = MaxCluster \/ v = None
  <2>1. ~(c.found < MaxCluster /\ v = EOC)
    BY <1>1, <1>2, Ranges
  <2> QED
    BY <1>1, <1>2, <2>1, ReturnIsSound DEF Counted
<1>3. CASE c.found < MaxCluster /\ v = EOC
  <2>1. v # None /\ c.found + 1 \in 1..MaxCluster
    BY <1>1, <1>3, Ranges
  <2> QED
    BY <1>1, <1>3, <2>1, MeasuredIsSound DEF Counted
<1>4. CASE ~(c.found = MaxCluster \/ v = None) /\ ~(c.found < MaxCluster /\ v = EOC)
  <2> DEFINE r == [c EXCEPT !.found = c.found + 1, !.cluster = v]
  <2>1. v \in OptionalClusters /\ c.found + 1 \in 0..MaxCluster + 1 /\ c.found + 1 <= MaxCluster
    BY <1>1, <1>4, Ranges DEF Links
  <2>2. r \in Locals
    BY <1>1, <2>1, LoopFields
  <2>4. /\ r.at = c.at /\ r.op = c.op /\ r.count = c.count /\ r.gap = c.gap
        /\ r.size = c.size /\ r.position = c.position /\ r.found = c.found + 1
    BY <1>1 DEF Locals
  <2> HIDE DEF r
  <2>3. Sound(r)
    BY <1>1, <2>1, <2>2, <2>4 DEF Sound, Asked, Ready, FatWrites, DirWrites
  <2> QED
    BY <1>4, <2>3 DEF Counted, r
<1> QED
  BY <1>2, <1>3, <1>4

LEMMA WalkedIsSound ==
  ASSUME NEW c, Sound(c), c.at = "nth", NEW v \in Links
  PROVE  Sound(Walked(c, v))
<1>1. c \in Locals /\ Asked(c) /\ c.op = "write" /\ c.left >= 1 /\ c.found # c.count
  BY DEF Sound, Ready
<1>2. CASE v \in Clusters
  <2> DEFINE u == [c EXCEPT !.cluster = v, !.left = c.left - 1]
  <2>1. c.left - 1 \in 0..MaxCluster /\ v \in OptionalClusters
    BY <1>1, <1>2, Ranges DEF Locals
  <2>2. u \in Locals
    BY <1>1, <2>1, Updates
  <2>3. u.op = "write" /\ u.found = c.found /\ u.count = c.count /\ Asked(u)
    BY <1>1 DEF Locals, Asked
  <2> HIDE DEF u
  <2>4. Sound(AtNth(u))
    BY <1>1, <2>2, <2>3, AtNthIsSound
  <2> QED
    BY <1>2, <2>4 DEF Walked, u
<1>3. CASE v \notin Clusters
  BY <1>1, <1>3, ReturnIsSound DEF Walked
<1> QED
  BY <1>2, <1>3

LEMMA ToCutIsSound ==
  ASSUME NEW c, Sound(c), c.at = "next", NEW v \in Links
  PROVE  Sound(ToCut(c, v))
<1>1. c \in Locals /\ Asked(c) /\ c.op = "write"
  BY DEF Sound, Ready
<1>2. CASE v \in Clusters
  <2> DEFINE g == Goto(c, "cut")
             r == [g EXCEPT !.next = v]
  <2>1. "cut" \in Stages
    BY StageNames DEF FatWrites
  <2>2. /\ g \in Locals /\ g.at = "cut" /\ g.op = c.op /\ g.count = c.count /\ g.gap = c.gap
        /\ g.size = c.size /\ g.position = c.position /\ g.buffer = <<>>
    BY <1>1, <2>1, GotoIsLocal, GotoFields
  <2> HIDE DEF g
  <2>3. r \in Locals
    BY <2>2, Updates
  <2>4. /\ r.at = "cut" /\ r.op = g.op /\ r.count = g.count /\ r.gap = g.gap
        /\ r.size = g.size /\ r.position = g.position /\ r.buffer = g.buffer /\ r.next = v
    BY <2>2 DEF Locals
  <2> HIDE DEF r
  <2>5. Sound(r)
    BY <1>1, <1>2, <2>2, <2>3, <2>4 DEF Sound, Asked, Ready, FatWrites, DirWrites
  <2> QED
    BY <1>2, <2>5 DEF ToCut, r, g
<1>3. CASE v \notin Clusters
  BY <1>1, <1>3, ResizedIsSound DEF ToCut
<1> QED
  BY <1>2, <1>3

LEMMA WrittenIsSound ==
  ASSUME NEW c, Sound(c), c.at \in FatWrites
  PROVE  Sound(Written(c)) /\ Sound(NotWritten(c))
<1>1. c \in Locals /\ Asked(c) /\ Ready(c)
  BY DEF Sound
<1>2. CASE c.at = "mark"
  <2>1. c.op \in {"write", "mkdir"} /\ c.cluster \in Clusters /\ c.left >= 1
    BY <1>1, <1>2 DEF Ready
  <2> QED
    BY <1>1, <1>2, <2>1, MarkedIsSound, AllocFailsIsSound DEF Written, NotWritten
<1>3. CASE c.at = "link"
  <2>1. c.op \in {"write", "mkdir"} /\ c.cluster \in Clusters /\ c.left >= 1
    BY <1>1, <1>3 DEF Ready
  <2> QED
    BY <1>1, <1>3, <2>1, LinkedIsSound, AllocFailsIsSound DEF Written, NotWritten
<1>4. CASE c.at = "clear"
  BY <1>1, <1>4, ClearedIsSound, FreedIsSound DEF Written, NotWritten
<1>5. CASE c.at = "cut"
  <2>1. c.next \in OptionalClusters
    BY <1>1, <1>5 DEF Ready
  <2> QED
    BY <1>1, <1>5, <2>1, freechainIsSound, ReturnIsSound DEF Written, NotWritten
<1>6. CASE c.at = "append"
  <2>1. c.op = "write"
    BY <1>1, <1>6 DEF Ready
  <2> QED
    BY <1>1, <1>6, <2>1, ResizedIsSound, AllocFailsIsSound DEF Written, NotWritten
<1> QED
  BY <1>2, <1>3, <1>4, <1>5, <1>6 DEF FatWrites

LEMMA AfterEntryIsSound ==
  ASSUME NEW c, Sound(c), NEW ok \in BOOLEAN
  PROVE  Sound(AfterEntry(c, ok))
<1>1. c \in Locals /\ Asked(c)
  BY DEF Sound
<1>2. CASE c.op = "write"
  BY <1>1, <1>2, EntryWrittenIsSound DEF AfterEntry
<1>3. ASSUME NEW s \in {"attribute", "erase"}, c.op = "rename"
      PROVE  Sound(Goto(c, s))
  <2>1. s \in Stages
    BY StageNames DEF DirWrites
  <2> QED
    BY <1>1, <1>3, <2>1, GotoIsLocal, GotoFields DEF Sound, Asked, Ready, FatWrites, DirWrites
<1>4. CASE c.op = "rename" /\ c.at = "entry" /\ ok
  BY <1>3, <1>4 DEF AfterEntry
<1>5. CASE c.op = "rename" /\ c.at = "attribute"
  BY <1>3, <1>5 DEF AfterEntry
<1>6. CASE c.op # "write" /\ ~(c.op = "rename" /\ c.at = "entry" /\ ok) /\ ~(c.op = "rename" /\ c.at = "attribute")
  BY <1>1, <1>6, ReturnIsSound DEF AfterEntry
<1> QED
  BY <1>2, <1>4, <1>5, <1>6

-----------------------------------------------------------------------------
(* Type correctness.                                                       *)

OpenFiles ==
  [open : BOOLEAN, slot : Slots \cup {0}, first_cluster : OptionalClusters, size : Sizes]

VolumeTyped == fat \in [Clusters -> Links] /\ dir \in [Slots -> Entries]

TypeInv ==
  /\ VolumeTyped
  /\ fd_table \in [Descriptors -> OpenFiles]
  /\ call \in [Callers -> Locals]
  /\ \A p \in Callers : Sound(call[p])
  /\ faults \in 0..MaxFaults /\ badReads \in 0..MaxBadReads

LEMMA IdleIsSound == Sound(Idle)
<1>1. Idle \in Locals
  <2>1. "idle" \in Stages /\ "none" \in Operations /\ "free" \in Kinds /\ 0 \in Sizes
        /\ 0 \in 0..MaxCluster /\ 0 \in 0..MaxCluster + 1
        /\ None \in OptionalClusters /\ None \in Links
    BY StageNames, Ranges DEF Operations, Kinds
  <2> QED
    BY <2>1, NoBuffer DEF Idle, Locals
<1> QED
  BY <1>1 DEF Sound, Idle, Asked, Ready, FatWrites, DirWrites

LEMMA TypeStart == Init => TypeInv
<1> SUFFICES ASSUME Init PROVE TypeInv
  OBVIOUS
<1>1. fat \in [Clusters -> Links]
  BY Ranges DEF Init, Links
<1>2. dir \in [Slots -> Entries]
  <2>1. "file" \in Kinds /\ "free" \in Kinds /\ 0 \in Sizes /\ None \in Clusters \cup {None}
    BY Ranges DEF Kinds
  <2>2. \A s \in Slots : [kind |-> IF s \in Files THEN "file" ELSE "free",
                          first_cluster |-> None, size |-> 0] \in Entries
    BY <2>1 DEF Entries
  <2> QED
    BY <2>2 DEF Init
<1>3. fd_table \in [Descriptors -> OpenFiles]
  <2>1. Closed \in OpenFiles
    BY Ranges DEF Closed, OpenFiles
  <2> QED
    BY <2>1 DEF Init
<1>4. call \in [Callers -> Locals] /\ \A p \in Callers : Sound(call[p])
  BY IdleIsSound DEF Init, Sound
<1>5. faults \in 0..MaxFaults /\ badReads \in 0..MaxBadReads
  BY FatAssumption DEF Init
<1> QED
  BY <1>1, <1>2, <1>3, <1>4, <1>5 DEF TypeInv, VolumeTyped

LEMMA StepTypes ==
  ASSUME TypeInv, NEW p \in Callers, NEW c, Sound(c), call' = [call EXCEPT ![p] = c]
  PROVE  call' \in [Callers -> Locals] /\ \A q \in Callers : Sound(call'[q])
BY DEF TypeInv, Sound

LEMMA ReadTypes ==
  ASSUME TypeInv, NEW p \in Callers,
         Scan(p) \/ ReadToFree(p) \/ chain_length(p) \/ get_nth_cluster(p) \/ ReadToCut(p)
  PROVE  TypeInv'
<1>1. Sound(call[p])
  BY DEF TypeInv
<1>2. ASSUME NEW v \in Links, readcluster(call[p].cluster, v), NEW c, Sound(c), Step(p, c),
             UNCHANGED <<fat, dir, faults>>
      PROVE  TypeInv'
  <2>1. badReads' \in 0..MaxBadReads
    BY <1>2, FatAssumption DEF TypeInv, readcluster
  <2> QED
    BY <1>2, <2>1, StepTypes DEF Step, TypeInv, VolumeTyped
<1>3. CASE Scan(p)
  BY <1>1, <1>2, <1>3, ScannedIsSound DEF Scan, Reads, At
<1>4. CASE ReadToFree(p)
  BY <1>1, <1>2, <1>4, ToClearIsSound DEF ReadToFree, Reads, At
<1>5. CASE chain_length(p)
  BY <1>1, <1>2, <1>5, CountedIsSound DEF chain_length, Reads, At
<1>6. CASE get_nth_cluster(p)
  BY <1>1, <1>2, <1>6, WalkedIsSound DEF get_nth_cluster, Reads, At
<1>7. CASE ReadToCut(p)
  BY <1>1, <1>2, <1>7, ToCutIsSound DEF ReadToCut, Reads, At
<1> QED
  BY <1>3, <1>4, <1>5, <1>6, <1>7

LEMMA EntryIsTyped ==
  ASSUME NEW c \in Locals, NEW e \in Entries
  PROVE  NewEntry(c, e) \in Entries
<1>1. /\ e.kind \in Kinds /\ e.first_cluster \in OptionalClusters /\ e.size \in Sizes
      /\ c.kind \in Kinds /\ c.first \in OptionalClusters /\ c.chain \in OptionalClusters
      /\ c.size \in Sizes
  BY DEF Entries, Locals
<1>2. {"free", "file", "directory"} \subseteq Kinds /\ 0 \in Sizes /\ None \in OptionalClusters
  BY Ranges DEF Kinds
<1>3. ASSUME NEW k \in Kinds, NEW x \in OptionalClusters, NEW n \in Sizes
      PROVE  /\ [kind |-> k, first_cluster |-> x, size |-> n] \in Entries
             /\ [e EXCEPT !.kind = k] \in Entries
             /\ [e EXCEPT !.first_cluster = x, !.size = n] \in Entries
  BY <1>3 DEF Entries
<1>4. CASE c.at = "erase"
  BY <1>2, <1>3, <1>4 DEF NewEntry
<1>5. CASE c.at = "attribute"
  BY <1>1, <1>3, <1>5 DEF NewEntry
<1>6. CASE c.at = "entry" /\ c.op = "mkdir"
  BY <1>1, <1>2, <1>3, <1>6 DEF NewEntry
<1>7. CASE c.at = "entry" /\ c.op = "rename"
  BY <1>1, <1>2, <1>3, <1>7 DEF NewEntry
<1>8. CASE /\ c.at \notin {"erase", "attribute"}
           /\ ~(c.at = "entry" /\ c.op \in {"mkdir", "rename"})
  BY <1>1, <1>3, <1>8 DEF NewEntry
<1> QED
  BY <1>4, <1>5, <1>6, <1>7, <1>8

LEMMA StoreTypes ==
  ASSUME NEW c, Sound(c), c.at \in FatWrites, c.buffer # <<>>, Store(c)
  PROVE  fat' \in [Clusters -> Links]
<1>1. c \in Locals /\ c.buffer \in [Clusters -> Links]
  BY DEF Sound, Ready
<1>2. Value(c) \in Links
  <2>1. EOC \in Links /\ 0 \in Links /\ c.cluster \in Links /\ c.first \in Links
    BY <1>1, Ranges DEF Locals
  <2> QED
    BY <2>1 DEF Value, FatWrites
<1> QED
  BY <1>1, <1>2 DEF Store

\* A call that has read the sector it changes.
LEMMA BufferIsSound ==
  ASSUME NEW c, Sound(c), NEW b,
         \/ b \in [Clusters -> Links] /\ c.at \in FatWrites
         \/ b \in [Slots -> Entries] /\ c.at \in DirWrites
  PROVE  Sound([c EXCEPT !.buffer = b])
<1> DEFINE r == [c EXCEPT !.buffer = b]
<1>0. c \in Locals /\ Asked(c) /\ Ready(c)
  BY DEF Sound
<1>1. b \in Buffers
  BY DEF Buffers
<1>2. r \in Locals
  BY <1>0, <1>1 DEF Locals
<1>3. /\ r.at = c.at /\ r.op = c.op /\ r.count = c.count /\ r.gap = c.gap /\ r.size = c.size
      /\ r.position = c.position /\ r.left = c.left /\ r.cluster = c.cluster
      /\ r.found = c.found /\ r.next = c.next /\ r.slot = c.slot /\ r.buffer = b
  BY <1>0 DEF Locals
<1> HIDE DEF r
<1>4. Asked(r) /\ Ready(r)
  BY <1>0, <1>3 DEF Asked, Ready, FatWrites, DirWrites
<1> QED
  BY <1>2, <1>4 DEF Sound, r

LEMMA WriteTypes ==
  ASSUME TypeInv, NEW p \in Callers,
         ReadSector(p) \/ writecluster(p) \/ WriteFails(p) \/ ReadDirectory(p)
           \/ WriteDirectory(p) \/ WriteDirectoryFails(p)
  PROVE  TypeInv'
<1> DEFINE c == call[p]
<1>0. Sound(c) /\ c \in Locals
  BY DEF TypeInv, Sound
<1>1. ASSUME NEW d, Sound(d), Step(p, d), fat' \in [Clusters -> Links],
             dir' \in [Slots -> Entries], faults' \in 0..MaxFaults, UNCHANGED badReads
      PROVE  TypeInv'
  BY <1>1, StepTypes DEF Step, TypeInv, VolumeTyped
<1>2. /\ fat \in [Clusters -> Links] /\ dir \in [Slots -> Entries] /\ faults \in 0..MaxFaults
      /\ faults < MaxFaults => faults + 1 \in 0..MaxFaults
  BY FatAssumption DEF TypeInv, VolumeTyped
<1>4. CASE ReadSector(p)
  <2>1. c.at \in FatWrites /\ Step(p, [c EXCEPT !.buffer = fat]) /\ UNCHANGED <<fat, dir, faults, badReads>>
    BY <1>4 DEF ReadSector
  <2>2. Sound([c EXCEPT !.buffer = fat])
    BY <1>0, <1>2, <2>1, BufferIsSound
  <2> HIDE DEF c
  <2> QED
    BY <1>1, <1>2, <2>1, <2>2
<1>5. CASE writecluster(p)
  <2>1. Sound(Written(c)) /\ fat' \in [Clusters -> Links]
    BY <1>0, <1>5, WrittenIsSound, StoreTypes DEF writecluster
  <2> HIDE DEF c
  <2> QED
    BY <1>1, <1>2, <1>5, <2>1 DEF writecluster, c
<1>6. CASE WriteFails(p)
  <2>1. Sound(NotWritten(c)) /\ fat' \in [Clusters -> Links]
    BY <1>0, <1>2, <1>6, WrittenIsSound, StoreTypes DEF WriteFails
  <2> QED
    BY <1>1, <1>2, <1>6, <2>1 DEF WriteFails
<1>7. CASE ReadDirectory(p)
  <2>1. c.at \in DirWrites /\ Step(p, [c EXCEPT !.buffer = dir]) /\ UNCHANGED <<fat, dir, faults, badReads>>
    BY <1>7 DEF ReadDirectory
  <2>2. Sound([c EXCEPT !.buffer = dir])
    BY <1>0, <1>2, <2>1, BufferIsSound
  <2> HIDE DEF c
  <2> QED
    BY <1>1, <1>2, <2>1, <2>2
<1>8. CASE WriteDirectory(p)
  <2>1. Sound(AfterEntry(c, TRUE))
    BY <1>0, AfterEntryIsSound
  <2>2. c.buffer \in [Slots -> Entries]
    BY <1>0, <1>8 DEF WriteDirectory, Sound, Ready
  <2>3. \A s \in Slots : NewEntry(c, c.buffer[s]) \in Entries
    BY <1>0, <2>2, EntryIsTyped
  <2>4. dir' = [c.buffer EXCEPT ![Place(c)] = NewEntry(c, c.buffer[Place(c)])]
    BY <1>8 DEF WriteDirectory
  <2>5. dir' \in [Slots -> Entries]
    BY <2>2, <2>3, <2>4
  <2> QED
    BY <1>1, <1>2, <1>8, <2>1, <2>5 DEF WriteDirectory
<1>9. CASE WriteDirectoryFails(p)
  <2>1. Sound(AfterEntry(c, FALSE))
    BY <1>0, AfterEntryIsSound
  <2> QED
    BY <1>1, <1>2, <1>9, <2>1 DEF WriteDirectoryFails
<1> QED
  BY <1>4, <1>5, <1>6, <1>7, <1>8, <1>9

LEMMA LeastIsIn ==
  ASSUME NEW S \in SUBSET Nat, S # {}
  PROVE  Least(S) \in S
<1>1. PICK m \in S : \A n \in S : ~(<<n, m>> \in OpToRel(<, Nat))
  BY NatLessThanWellFounded, WFMin
<1>2. \A n \in S : ~(n < m)
  BY <1>1 DEF OpToRel
<1>3. \A n \in S : m <= n
  BY <1>2
<1> QED
  BY <1>3 DEF Least

LEMMA StartTypes ==
  ASSUME TypeInv, NEW p \in Callers, NEW c, Sound(c), Start(p, c)
  PROVE  TypeInv'
BY StepTypes DEF Start, Step, TypeInv, VolumeTyped

LEMMA BeginTypes ==
  ASSUME TypeInv, NEW p \in Callers, Begin(p)
  PROVE  TypeInv'
<1>0. Idle \in Locals
  BY IdleIsSound DEF Sound
<1>1. ASSUME NEW op \in {"open", "unlink", "rename"}, NEW fd \in Descriptors \cup {0},
             NEW s \in Slots, NEW gap \in BOOLEAN, NEW c,
             c = [Goto(Idle, "lookup") EXCEPT !.op = op, !.fd = fd, !.slot = s, !.gap = gap]
      PROVE  Sound(c)
  <2> DEFINE g == Goto(Idle, "lookup")
  <2>1. "lookup" \in Stages /\ op \in Operations /\ s \in Slots \cup {0}
    BY StageNames DEF DirReads, Operations
  <2>2. g \in Locals /\ g.at = "lookup" /\ g.buffer = <<>>
    BY <1>0, <2>1, GotoIsLocal, GotoFields
  <2> HIDE DEF g
  <2>3. [g EXCEPT !.op = op, !.fd = fd] \in Locals
    BY <2>1, <2>2, Updates
  <2>4. ASSUME NEW d \in Locals PROVE [d EXCEPT !.slot = s, !.gap = gap] \in Locals
    BY <2>1, Updates
  <2>5. c = [[g EXCEPT !.op = op, !.fd = fd] EXCEPT !.slot = s, !.gap = gap]
    BY <1>1 DEF g
  <2>6. c \in Locals
    BY <2>3, <2>4, <2>5
  <2>7. c.at = "lookup" /\ c.op = op /\ c.slot = s
    BY <2>2, <2>5 DEF Locals
  <2> QED
    BY <2>6, <2>7 DEF Sound, Asked, Ready, FatWrites, DirWrites
<1>2. CASE sys_open_handler(p)
  <2> DEFINE free == {d \in Descriptors : ~fd_table[d].open}
  <2>1. PICK s \in Slots, truncate \in BOOLEAN :
          /\ free # {}
          /\ Start(p, [Goto(Idle, "lookup") EXCEPT
                         !.op = "open", !.fd = Least(free), !.slot = s, !.gap = truncate])
    BY <1>2 DEF sys_open_handler
  <2>2. Least(free) \in free
    BY <2>1, LeastIsIn, FatAssumption
  <2>3. Least(free) \in Descriptors \cup {0}
    BY <2>2
  <2> HIDE DEF free
  <2> QED
    BY <1>1, <2>1, <2>3, StartTypes
<1>3. ASSUME NEW op \in {"unlink", "rename"}, NEW s \in Slots, NEW c,
             c = [Goto(Idle, "lookup") EXCEPT !.op = op, !.slot = s]
      PROVE  Sound(c)
  <2> DEFINE g == Goto(Idle, "lookup")
  <2>1. "lookup" \in Stages /\ op \in Operations /\ s \in Slots \cup {0}
    BY StageNames DEF DirReads, Operations
  <2>2. g \in Locals /\ g.at = "lookup" /\ g.buffer = <<>>
    BY <1>0, <2>1, GotoIsLocal, GotoFields
  <2> HIDE DEF g
  <2>3. [g EXCEPT !.op = op, !.slot = s] \in Locals
    BY <2>1, <2>2 DEF Locals
  <2>6. c \in Locals
    BY <1>3, <2>3 DEF g
  <2>7. c.at = "lookup" /\ c.op = op /\ c.slot = s
    BY <1>3, <2>2 DEF Locals, g
  <2> QED
    BY <2>6, <2>7 DEF Sound, Asked, Ready, FatWrites, DirWrites
<1>4. CASE fat_unlink(p)
  BY <1>3, <1>4, StartTypes DEF fat_unlink
<1>5. CASE fat_rename(p)
  BY <1>3, <1>5, StartTypes DEF fat_rename
<1>6. CASE fat_mkdir(p)
  <2> DEFINE u == [Idle EXCEPT !.op = "mkdir"]
  <2>1. "mkdir" \in Operations /\ None \in OptionalClusters
    BY DEF Operations
  <2>2. u \in Locals /\ u.op = "mkdir"
    BY <1>0, <2>1 DEF Locals
  <2> HIDE DEF u
  <2>3. Sound(allocchain(u, 1, None))
    BY <2>1, <2>2, allocchainIsSound DEF Asked
  <2> QED
    BY <1>6, <2>3, StartTypes DEF fat_mkdir, u
<1>7. CASE fat_write(p)
  <2>1. PICK d \in Descriptors, n \in 1 .. MaxSize, m \in Sizes :
          LET f == fd_table[d]
              c == [Idle EXCEPT !.op = "write", !.fd = d, !.slot = f.slot,
                                !.chain = f.first_cluster, !.size = f.size, !.goal = n]
          IN  \/ m = 0 /\ Start(p, Resize([c EXCEPT !.count = n]))
              \/ /\ f.size < m /\ m < n
                 /\ Start(p, resizechain([c EXCEPT !.count = m, !.position = m, !.gap = TRUE]))
    BY <1>7 DEF fat_write
  <2> DEFINE f == fd_table[d]
             c == [Idle EXCEPT !.op = "write", !.fd = d, !.slot = f.slot,
                               !.chain = f.first_cluster, !.size = f.size, !.goal = n]
             u == [c EXCEPT !.count = n]
             w == [c EXCEPT !.count = m, !.position = m, !.gap = TRUE]
  <2>2. f.slot \in Slots \cup {0} /\ f.first_cluster \in OptionalClusters /\ f.size \in Sizes
    BY DEF TypeInv, OpenFiles
  <2> HIDE DEF f
  <2>3. c \in Locals
    <3>1. "write" \in Operations /\ d \in Descriptors \cup {0} /\ n \in Sizes
      BY Ranges DEF Operations
    <3>2. [Idle EXCEPT !.op = "write", !.fd = d] \in Locals
      BY <1>0, <3>1 DEF Locals
    <3>3. ASSUME NEW e \in Locals
          PROVE  [e EXCEPT !.slot = f.slot, !.chain = f.first_cluster] \in Locals
      BY <2>2, Updates
    <3>4. ASSUME NEW e \in Locals
          PROVE  [e EXCEPT !.size = f.size, !.goal = n] \in Locals
      BY <2>2, <3>1, Updates
    <3> QED
      BY <3>2, <3>3, <3>4
  <2>4. c.op = "write" /\ c.gap = FALSE /\ c.size = f.size
    BY <1>0 DEF Idle
  <2> HIDE DEF c
  <2>5. n \in Sizes /\ n >= 1
    BY Ranges
  <2>6. u \in Locals /\ u.op = "write" /\ u.count = n /\ u.gap = FALSE
    BY <2>3, <2>4, <2>5 DEF Locals
  <2>7. Asked(u)
    BY <2>5, <2>6 DEF Asked
  <2>8. CASE m = 0 /\ Start(p, Resize(u))
    <3> HIDE DEF u
    <3>1. "entry" \in Stages
      BY AreStages
    <3>2. Sound(Goto(u, "entry"))
      BY <2>6, <2>7, <3>1, GotoIsLocal, GotoFields DEF Sound, Asked, Ready, FatWrites, DirWrites
    <3>3. Sound(Resize(u))
      BY <2>6, <2>7, <3>2, resizechainIsSound DEF Resize
    <3> QED
      BY <2>8, <3>3, StartTypes
  <2>9. CASE f.size < m /\ m < n /\ Start(p, resizechain(w))
    <3>1. m \in Sizes /\ m >= 1
      BY <2>2, <2>9, Ranges
    <3>2. [c EXCEPT !.count = m] \in Locals
      BY <2>3 DEF Locals
    <3>3. ASSUME NEW e \in Locals PROVE [e EXCEPT !.position = m] \in Locals
      BY DEF Locals
    <3>6. ASSUME NEW e \in Locals PROVE [e EXCEPT !.gap = TRUE] \in Locals
      BY DEF Locals
    <3>4. w \in Locals
      BY <3>2, <3>3, <3>6
    <3>5. w.op = "write" /\ w.count = m /\ w.position = m /\ w.size = f.size
      BY <2>3, <2>4 DEF Locals
    <3> HIDE DEF w
    <3>7. Sound(resizechain(w))
      BY <2>9, <3>1, <3>4, <3>5, resizechainIsSound DEF Asked
    <3> QED
      BY <2>9, <3>7, StartTypes
  <2> QED
    BY <2>1, <2>8, <2>9 DEF f, c
<1>8. CASE fat_close(p)
  <2>1. PICK d \in Descriptors :
          Start(p, [Goto(Idle, "entry") EXCEPT
                      !.op = "close", !.fd = d, !.slot = fd_table[d].slot,
                      !.chain = fd_table[d].first_cluster, !.size = fd_table[d].size])
    BY <1>8 DEF fat_close
  <2> DEFINE f == fd_table[d]
             g == Goto(Idle, "entry")
             c == [g EXCEPT !.op = "close", !.fd = d, !.slot = f.slot,
                            !.chain = f.first_cluster, !.size = f.size]
  <2>2. f.slot \in Slots \cup {0} /\ f.first_cluster \in OptionalClusters /\ f.size \in Sizes
    BY DEF TypeInv, OpenFiles
  <2>3. "close" \in Operations /\ d \in Descriptors \cup {0} /\ "entry" \in Stages
    BY AreStages DEF Operations
  <2>4. g \in Locals /\ g.at = "entry" /\ g.buffer = <<>>
    BY <1>0, <2>3, GotoIsLocal, GotoFields
  <2> HIDE DEF f, g
  <2>5. c \in Locals
    <3>1. [g EXCEPT !.op = "close", !.fd = d] \in Locals
      BY <2>3, <2>4 DEF Locals
    <3>2. ASSUME NEW e \in Locals
          PROVE  [e EXCEPT !.slot = f.slot, !.chain = f.first_cluster] \in Locals
      BY <2>2, Updates
    <3>3. ASSUME NEW e \in Locals PROVE [e EXCEPT !.size = f.size] \in Locals
      BY <2>2 DEF Locals
    <3> QED
      BY <3>1, <3>2, <3>3
  <2>6. c.at = "entry" /\ c.op = "close" /\ c.buffer = <<>>
    BY <2>4 DEF Locals
  <2> HIDE DEF c
  <2>7. Sound(c)
    BY <2>5, <2>6 DEF Sound, Asked, Ready, FatWrites, DirWrites
  <2> QED
    BY <2>1, <2>7, StartTypes DEF c, f, g
<1> QED
  BY <1>2, <1>4, <1>5, <1>6, <1>7, <1>8 DEF Begin

LEMMA DirectoryTypes ==
  ASSUME TypeInv, NEW p \in Callers, Lookup(p) \/ findfreeslots(p)
  PROVE  TypeInv'
<1> DEFINE c == call[p]
<1>0. Sound(c) /\ c \in Locals /\ Asked(c)
  BY DEF TypeInv, Sound
<1>1. ASSUME NEW d, Sound(d), Step(p, d), UNCHANGED <<fat, dir, faults, badReads>>
      PROVE  TypeInv'
  BY <1>1, StepTypes DEF Step, TypeInv, VolumeTyped
<1>2. CASE findfreeslots(p)
  <2> DEFINE free == {s \in Slots : dir[s].kind = "free"}
  <2>1. CASE free = {}
    <3>1. Sound(Return(c, FALSE))
      BY <1>0, ReturnIsSound
    <3> QED
      BY <1>1, <1>2, <2>1, <3>1 DEF findfreeslots
  <2>2. CASE free # {}
    <3> DEFINE g == Goto(c, "entry")
               r == [g EXCEPT !.to = Least(free)]
    <3>1. Least(free) \in free
      BY <2>2, LeastIsIn, FatAssumption
    <3>2. Least(free) \in Slots \cup {0}
      BY <3>1
    <3> HIDE DEF c
    <3>3. /\ g \in Locals /\ g.at = "entry" /\ g.op = c.op /\ g.count = c.count /\ g.gap = c.gap
          /\ g.size = c.size /\ g.position = c.position /\ g.buffer = <<>>
      BY <1>0, AreStages, GotoIsLocal, GotoFields
    <3> HIDE DEF g, free
    <3>4. /\ r \in Locals /\ r.at = "entry" /\ r.op = g.op /\ r.count = g.count /\ r.gap = g.gap
          /\ r.size = g.size /\ r.position = g.position /\ r.buffer = <<>>
      BY <3>2, <3>3 DEF Locals
    <3> HIDE DEF r, c
    <3>5. Sound(r)
      BY <1>0, <3>3, <3>4 DEF Sound, Asked, Ready, FatWrites, DirWrites
    <3>6. Step(p, r) /\ UNCHANGED <<fat, dir, faults, badReads>>
      BY <1>2, <2>2 DEF findfreeslots, r, g, c, free
    <3> QED
      BY <1>1, <3>5, <3>6
  <2> QED
    BY <2>1, <2>2
<1>3. CASE Lookup(p)
  <2> DEFINE e == dir[c.slot]
             f == [c EXCEPT !.kind = e.kind, !.chain = e.first_cluster,
                            !.size = e.size, !.gap = FALSE]
  <2>1. c.at = "lookup" /\ c.op \in {"open", "unlink", "rename"} /\ c.slot \in Slots
    BY <1>0, <1>3 DEF Lookup, At, Sound, Ready
  <2>2. e.kind \in Kinds /\ e.first_cluster \in OptionalClusters /\ e.size \in Sizes
    BY <2>1 DEF TypeInv, VolumeTyped, Entries
  <2>3. UNCHANGED <<fat, dir, faults, badReads>>
    BY <1>3 DEF Lookup
  <2>4. CASE e.kind = "free" \/ (c.op = "open" /\ e.kind = "directory")
    <3>1. Sound(Return(c, FALSE))
      BY <1>0, ReturnIsSound
    <3>2. Step(p, Return(c, FALSE))
      BY <1>3, <2>4 DEF Lookup
    <3> QED
      BY <1>1, <2>3, <3>1, <3>2
  <2>5. f \in Locals /\ f.op = c.op /\ Asked(f)
    <3>1. [c EXCEPT !.kind = e.kind, !.chain = e.first_cluster] \in Locals
      BY <1>0, <2>2, Updates
    <3>2. ASSUME NEW d \in Locals PROVE [d EXCEPT !.size = e.size] \in Locals
      BY <2>2, Updates
    <3>3. ASSUME NEW d \in Locals PROVE [d EXCEPT !.gap = FALSE] \in Locals
      BY Updates
    <3>4. f \in Locals
      BY <3>1, <3>2, <3>3
    <3>5. f.op = c.op
      BY <1>0 DEF Locals
    <3> QED
      BY <2>1, <3>4, <3>5 DEF Asked
  <2>6. CASE c.op = "open" /\ e.kind = "file"
    <3>1. Sound(Return(f, TRUE)) /\ Sound(freechain(f, e.first_cluster))
      BY <2>2, <2>5, ReturnIsSound, freechainIsSound
    <3>2. Sound([Goto(f, "entry") EXCEPT !.size = 0])
      <4> DEFINE g == Goto(f, "entry")
                 h == [g EXCEPT !.size = 0]
      <4> HIDE DEF f
      <4>1. f \in Locals /\ f.op = "open" /\ "entry" \in Stages
        BY <2>5, <2>6, AreStages
      <4>2. g \in Locals /\ g.at = "entry" /\ g.op = "open" /\ g.buffer = <<>>
        BY <4>1, GotoIsLocal, GotoFields
      <4> HIDE DEF g
      <4>3. 0 \in Sizes
        BY Ranges
      <4>4. h \in Locals
        BY <4>2, <4>3, Updates
      <4>5. h.at = "entry" /\ h.op = "open" /\ h.buffer = <<>>
        BY <4>2 DEF Locals
      <4> HIDE DEF h
      <4>6. Sound(h)
        BY <4>4, <4>5 DEF Sound, Asked, Ready, FatWrites, DirWrites
      <4> QED
        BY <4>6 DEF h, g
    <3>3. \/ Step(p, Return(f, TRUE))
          \/ Step(p, freechain(f, e.first_cluster))
          \/ Step(p, [Goto(f, "entry") EXCEPT !.size = 0])
      <4> DEFINE one == Return(f, TRUE)
                 two == [Goto(f, "entry") EXCEPT !.size = 0]
                 three == freechain(f, e.first_cluster)
      <4>1. Step(p, IF ~c.gap THEN one ELSE IF e.first_cluster = None THEN two ELSE three)
        BY <1>3, <2>6 DEF Lookup
      <4> HIDE DEF one, two, three
      <4>2. Step(p, one) \/ Step(p, two) \/ Step(p, three)
        BY <4>1
      <4> QED
        BY <4>2 DEF one, two, three
    <3> HIDE DEF f, e
    <3> QED
      BY <1>1, <2>3, <3>1, <3>2, <3>3
  <2>7. CASE c.op = "unlink" /\ e.kind # "free"
    <3>1. Sound(freechain(f, e.first_cluster))
      BY <2>2, <2>5, freechainIsSound
    <3>2. Sound(Goto(f, "erase"))
      BY <2>5, GotoDirIsSound DEF DirWrites
    <3>3. Step(p, freechain(f, e.first_cluster)) \/ Step(p, Goto(f, "erase"))
      <4> DEFINE one == Goto(f, "erase")
                 two == freechain(f, e.first_cluster)
      <4>1. Step(p, IF e.first_cluster = None THEN one ELSE two)
        BY <1>3, <2>7 DEF Lookup
      <4> HIDE DEF one, two
      <4>2. Step(p, one) \/ Step(p, two)
        BY <4>1
      <4> QED
        BY <4>2 DEF one, two
    <3> HIDE DEF f, e
    <3> QED
      BY <1>1, <2>3, <3>1, <3>2, <3>3
  <2>8. CASE c.op = "rename" /\ e.kind # "free"
    <3>1. Sound(Goto(f, "place"))
      BY <2>5, GotoDirIsSound DEF DirWrites
    <3>2. Step(p, Goto(f, "place"))
      BY <1>3, <2>8 DEF Lookup
    <3> HIDE DEF f, e
    <3> QED
      BY <1>1, <2>3, <3>1, <3>2
  <2> QED
    BY <2>1, <2>2, <2>4, <2>6, <2>7, <2>8 DEF Kinds
<1> QED
  BY <1>2, <1>3

LEMMA ReturnTypes ==
  ASSUME TypeInv, NEW p \in Callers, Returns(p) \/ TaskKilled(p)
  PROVE  TypeInv'
<1> DEFINE c == call[p]
<1>1. Left(c) \in OpenFiles
  <2>1. c \in Locals
    BY DEF TypeInv
  <2> HIDE DEF c
  <2>2. /\ c.slot \in Slots \cup {0} /\ c.chain \in OptionalClusters /\ c.size \in Sizes
        /\ TRUE \in BOOLEAN
    BY <2>1 DEF Locals
  <2> QED
    BY <2>2 DEF Left, OpenFiles
<1>2. Closed \in OpenFiles
  BY Ranges DEF Closed, OpenFiles
<1>3. call' = [call EXCEPT ![p] = Idle]
  BY DEF Returns, TaskKilled
<1>4. fd_table' \in [Descriptors -> OpenFiles]
  <2>1. fd_table \in [Descriptors -> OpenFiles]
    BY DEF TypeInv
  <2>2. \/ fd_table' = fd_table
        \/ fd_table' = [fd_table EXCEPT ![c.fd] = Left(c)]
        \/ fd_table' = [fd_table EXCEPT ![c.fd] = Closed]
    BY DEF Returns, TaskKilled
  <2> HIDE DEF c
  <2> QED
    BY <1>1, <1>2, <2>1, <2>2
<1>5. UNCHANGED <<fat, dir, badReads>> /\ faults' \in 0..MaxFaults
  BY FatAssumption DEF TypeInv, Returns, TaskKilled
<1> QED
  BY <1>3, <1>4, <1>5, IdleIsSound, StepTypes DEF TypeInv, VolumeTyped

LEMMA TypesStep == TypeInv /\ [Next]_vars => TypeInv'
<1> SUFFICES ASSUME TypeInv, [Next]_vars PROVE TypeInv'
  OBVIOUS
<1>1. CASE UNCHANGED vars
  BY <1>1 DEF vars, TypeInv, VolumeTyped
<1>2. ASSUME NEW p \in Callers, Begin(p) \/ Proceed(p) \/ TaskKilled(p)
      PROVE  TypeInv'
  BY <1>2, BeginTypes, ReadTypes, WriteTypes, DirectoryTypes, ReturnTypes DEF Proceed
<1>3. CASE PowerCut
  <2>1. call' \in [Callers -> Locals] /\ \A p \in Callers : Sound(call'[p])
    BY <1>3, IdleIsSound DEF PowerCut, Sound
  <2>2. fd_table' \in [Descriptors -> OpenFiles]
    <3>1. Closed \in OpenFiles
      BY Ranges DEF Closed, OpenFiles
    <3> QED
      BY <1>3, <3>1 DEF PowerCut
  <2>3. UNCHANGED <<fat, dir, badReads>> /\ faults' \in 0..MaxFaults
    BY <1>3, FatAssumption DEF TypeInv, PowerCut
  <2> QED
    BY <2>1, <2>2, <2>3 DEF TypeInv, VolumeTyped
<1> QED
  BY <1>1, <1>2, <1>3 DEF Next

LEMMA TypeInvariant == Spec => []TypeInv
<1>1. Init => TypeInv
  BY TypeStart
<1>2. TypeInv /\ [Next]_vars => TypeInv'
  BY TypesStep
<1> QED
  BY <1>1, <1>2, PTL DEF Spec

\* The table, the entries, the descriptors and the variables of every call are well
\* typed, whichever tasks use the volume, whatever fails and whenever it stops: no
\* count of clusters, no size and no iteration of freechain or chain_length leaves
\* its range.
THEOREM VolumeIsTyped == Spec => []TypeOK
<1>1. TypeInv => TypeOK
  <2> SUFFICES ASSUME TypeInv PROVE TypeOK
    OBVIOUS
  <2>1. fat \in [Clusters -> Links] /\ dir \in [Slots -> Entries]
        /\ faults \in 0..MaxFaults /\ badReads \in 0..MaxBadReads
        /\ \A d \in Descriptors : fd_table[d] \in OpenFiles
    BY DEF TypeInv, VolumeTyped
  <2>2. ASSUME NEW p \in Callers
        PROVE  /\ call[p].op \in Operations /\ call[p].at \in Stages
               /\ call[p].fd \in Descriptors \cup {0}
               /\ {call[p].slot, call[p].to} \subseteq Slots \cup {0}
               /\ call[p].kind \in Kinds
               /\ {call[p].chain, call[p].cluster, call[p].first, call[p].previous,
                   call[p].tail} \subseteq OptionalClusters
               /\ call[p].next \in Links
               /\ {call[p].size, call[p].position, call[p].goal, call[p].count}
                     \subseteq Sizes
               /\ call[p].left \in 0 .. MaxCluster
               /\ call[p].found \in 0 .. MaxCluster + 1
    <3>1. call[p] \in Locals
      BY DEF TypeInv
    <3> QED
      BY <3>1 DEF Locals
  <2> QED
    BY <2>1, <2>2 DEF TypeOK, OpenFiles
<1> QED
  BY <1>1, TypeInvariant, PTL

HIDE DEF None, EOC, Clusters, OptionalClusters, Sizes

-----------------------------------------------------------------------------
(* What the proof says of a table f, a directory D and the heads V, the    *)
(* descriptors with the one in a write as the call has it.                 *)

Preds(f, k) == {j \in Clusters : f[j] = k}

\* The entries that lead to cluster k, but for those in R.
Leads(D, R, k) == {s \in Slots \ R : D[s].kind # "free" /\ D[s].first_cluster = k}

\* At most one link or entry leads to a cluster.
Apart(f, D, R) ==
  \A k \in Clusters :
    /\ \A s, t \in Leads(D, R, k) : s = t
    /\ \A i, j \in Preds(f, k) : i = j
    /\ Leads(D, R, k) = {} \/ Preds(f, k) = {}

\* None leads to a free one, but for the entries in G, whose chain is being freed.
FreeIsUnled(f, D, R, G) ==
  \A k \in Clusters : f[k] = None => Preds(f, k) = {} /\ Leads(D, R, k) \subseteq G

\* The chain of an open file is that of its entry, or is not in the entry yet.
Headed(f, D, V, R) ==
  \A d \in Descriptors : V[d].open =>
    /\ V[d].slot \in Slots \ R /\ D[V[d].slot].kind = "file"
    /\ D[V[d].slot].first_cluster \in {None, V[d].first_cluster}
    /\ V[d].first_cluster \in Clusters =>
         /\ Preds(f, V[d].first_cluster) = {} /\ f[V[d].first_cluster] # None
         /\ Leads(D, R, V[d].first_cluster) \subseteq {V[d].slot}

Distinct(V) ==
  \A d, e \in Descriptors : V[d].open /\ V[e].open /\ d # e =>
    /\ V[d].slot # V[e].slot
    /\ V[d].first_cluster \in Clusters => V[d].first_cluster # V[e].first_cluster

Tidy(f, D, V, R, G) ==
  Apart(f, D, R) /\ FreeIsUnled(f, D, R, G) /\ Headed(f, D, V, R) /\ Distinct(V)

\* Cluster k is in use and nothing leads to it but the entries in G.
Loose(f, D, V, G, k) ==
  /\ k \in Clusters /\ f[k] # None /\ Preds(f, k) = {} /\ Leads(D, {}, k) \subseteq G
  /\ \A d \in Descriptors : V[d].open => V[d].first_cluster # k

Zeros(f) == {k \in Clusters : f[k] = None}

Tables == [Clusters -> Links]
Directories == [Slots -> Entries]
Heads == [Descriptors -> OpenFiles]

LEMMA NoCluster ==
  EOC \notin Clusters /\ EOC # None /\ None \notin Clusters
BY FatAssumption DEF EOC, None, Clusters

-----------------------------------------------------------------------------
(* The writes to the table.                                                *)

\* A free cluster is marked: nothing leads to it.
LEMMA MarkKeeps ==
  ASSUME NEW f \in Tables, NEW D, NEW V, NEW k \in Clusters, f[k] = None,
         Tidy(f, D, V, {}, {})
  PROVE  LET g == [f EXCEPT ![k] = EOC]
         IN  /\ Tidy(g, D, V, {}, {}) /\ Loose(g, D, V, {}, k)
             /\ \A x : Loose(f, D, V, {}, x) => Loose(g, D, V, {}, x) /\ x # k
<1> DEFINE g == [f EXCEPT ![k] = EOC]
<1>0. EOC \notin Clusters /\ EOC # None /\ None \notin Clusters
  BY NoCluster
<1>1. \A x \in Clusters : g[x] = IF x = k THEN EOC ELSE f[x]
  BY DEF Tables
<1> HIDE DEF g
<1>2. \A x \in Clusters : Preds(g, x) \subseteq Preds(f, x)
  BY <1>0, <1>1 DEF Preds
<1>3. Apart(g, D, {})
  BY <1>2 DEF Apart, Tidy
<1>4. FreeIsUnled(g, D, {}, {})
  BY <1>0, <1>1, <1>2 DEF FreeIsUnled, Tidy
<1>5. Headed(g, D, V, {})
  BY <1>0, <1>1, <1>2 DEF Headed, Tidy
<1>6. Loose(g, D, V, {}, k)
  <2>1. Preds(f, k) = {} /\ Leads(D, {}, k) \subseteq {}
    BY DEF Tidy, FreeIsUnled
  <2>2. \A d \in Descriptors : V[d].open => V[d].first_cluster # k
    BY DEF Tidy, Headed
  <2> QED
    BY <1>0, <1>1, <1>2, <2>1, <2>2 DEF Loose
<1>7. \A x : Loose(f, D, V, {}, x) => Loose(g, D, V, {}, x) /\ x # k
  BY <1>0, <1>1, <1>2 DEF Loose
<1> QED
  BY <1>3, <1>4, <1>5, <1>6, <1>7 DEF Tidy, g

\* A cluster nothing leads to is put after another one.
LEMMA LinkKeeps ==
  ASSUME NEW f \in Tables, NEW D, NEW V, NEW t \in Clusters, NEW k,
         Tidy(f, D, V, {}, {}), Loose(f, D, V, {}, k)
  PROVE  LET g == [f EXCEPT ![t] = k]
         IN  /\ Tidy(g, D, V, {}, {})
             /\ \A x : Loose(f, D, V, {}, x) /\ x # k => Loose(g, D, V, {}, x)
<1> DEFINE g == [f EXCEPT ![t] = k]
<1>0. None \notin Clusters /\ k \in Clusters
  BY NoCluster DEF Loose
<1>1. \A x \in Clusters : g[x] = IF x = t THEN k ELSE f[x]
  BY DEF Tables
<1> HIDE DEF g
<1>2. \A x \in Clusters \ {k} : Preds(g, x) \subseteq Preds(f, x)
  BY <1>1 DEF Preds
<1>3. Preds(g, k) \subseteq {t} /\ Leads(D, {}, k) = {}
  BY <1>1 DEF Preds, Loose
<1>4. Apart(g, D, {})
  <2> SUFFICES ASSUME NEW x \in Clusters
               PROVE  /\ \A s, u \in Leads(D, {}, x) : s = u
                      /\ \A i, j \in Preds(g, x) : i = j
                      /\ Leads(D, {}, x) = {} \/ Preds(g, x) = {}
    BY DEF Apart
  <2>1. CASE x = k
    BY <1>3, <2>1
  <2>2. CASE x # k
    BY <1>2, <2>2 DEF Apart, Tidy
  <2> QED
    BY <2>1, <2>2
<1>5. FreeIsUnled(g, D, {}, {})
  <2>1. ASSUME NEW x \in Clusters, g[x] = None
        PROVE  f[x] = None /\ x # k
    BY <1>0, <1>1, <2>1 DEF Loose
  <2> QED
    BY <1>2, <2>1 DEF FreeIsUnled, Tidy
<1>6. Headed(g, D, V, {})
  <2>1. \A x \in Clusters : f[x] # None => g[x] # None
    BY <1>0, <1>1
  <2>2. \A d \in Descriptors : V[d].open => V[d].first_cluster # k
    BY DEF Loose
  <2> QED
    BY <1>2, <2>1, <2>2 DEF Headed, Tidy
<1>7. \A x : Loose(f, D, V, {}, x) /\ x # k => Loose(g, D, V, {}, x)
  BY <1>0, <1>1, <1>2 DEF Loose
<1> QED
  BY <1>4, <1>5, <1>6, <1>7 DEF Tidy, g

\* A cluster nothing leads to is cleared: nothing leads to the one after it then.
LEMMA ClearKeeps ==
  ASSUME NEW f \in Tables, NEW D, NEW V, NEW G, NEW k,
         Tidy(f, D, V, {}, G), Loose(f, D, V, G, k)
  PROVE  LET g == [f EXCEPT ![k] = None]
         IN  /\ Tidy(g, D, V, {}, G)
             /\ f[k] \in Clusters => Loose(g, D, V, G, f[k])
             /\ Zeros(g) = Zeros(f) \cup {k} /\ k \notin Zeros(f)
<1> DEFINE g == [f EXCEPT ![k] = None]
<1>0. None \notin Clusters /\ k \in Clusters
  BY NoCluster DEF Loose
<1>1. \A x \in Clusters : g[x] = IF x = k THEN None ELSE f[x]
  BY DEF Tables
<1> HIDE DEF g
<1>2. \A x \in Clusters : Preds(g, x) = Preds(f, x) \ {k}
  BY <1>0, <1>1 DEF Preds
<1>3. Apart(g, D, {})
  BY <1>2 DEF Apart, Tidy
<1>4. FreeIsUnled(g, D, {}, G)
  BY <1>1, <1>2 DEF FreeIsUnled, Tidy, Loose
<1>5. Headed(g, D, V, {})
  BY <1>1, <1>2 DEF Headed, Tidy, Loose
<1>6. ASSUME f[k] \in Clusters
      PROVE  Loose(g, D, V, G, f[k])
  <2>1. k \in Preds(f, f[k]) /\ k \notin Preds(f, k)
    BY <1>0 DEF Preds, Loose
  <2>2. f[k] # k /\ f[f[k]] # None
    BY <1>6, <2>1 DEF FreeIsUnled, Tidy
  <2>3. Leads(D, {}, f[k]) = {} /\ Preds(g, f[k]) = {}
    BY <1>2, <1>6, <2>1 DEF Apart, Tidy
  <2>4. \A d \in Descriptors : V[d].open => V[d].first_cluster # f[k]
    BY <1>6, <2>1 DEF Headed, Tidy
  <2> QED
    BY <1>1, <1>6, <2>2, <2>3, <2>4 DEF Loose
<1>7. Zeros(g) = Zeros(f) \cup {k} /\ k \notin Zeros(f)
  BY <1>0, <1>1 DEF Zeros, Loose
<1> QED
  BY <1>3, <1>4, <1>5, <1>6, <1>7 DEF Tidy, g

\* A chain is cut: nothing leads to what follows.
LEMMA CutKeeps ==
  ASSUME NEW f \in Tables, NEW D, NEW V, NEW k \in Clusters, f[k] \in Clusters,
         Tidy(f, D, V, {}, {})
  PROVE  LET g == [f EXCEPT ![k] = EOC]
         IN  Tidy(g, D, V, {}, {}) /\ Loose(g, D, V, {}, f[k])
<1> DEFINE g == [f EXCEPT ![k] = EOC]
<1>0. EOC \notin Clusters /\ EOC # None /\ None \notin Clusters
  BY NoCluster
<1>1. \A x \in Clusters : g[x] = IF x = k THEN EOC ELSE f[x]
  BY DEF Tables
<1> HIDE DEF g
<1>2. \A x \in Clusters : Preds(g, x) = Preds(f, x) \ {k}
  BY <1>0, <1>1 DEF Preds
<1>3. Apart(g, D, {})
  BY <1>2 DEF Apart, Tidy
<1>4. FreeIsUnled(g, D, {}, {})
  BY <1>0, <1>1, <1>2 DEF FreeIsUnled, Tidy
<1>5. Headed(g, D, V, {})
  BY <1>0, <1>1, <1>2 DEF Headed, Tidy
<1>6. Loose(g, D, V, {}, f[k])
  <2>1. k \in Preds(f, f[k])
    BY DEF Preds
  <2>2. f[f[k]] # None
    BY <2>1 DEF FreeIsUnled, Tidy
  <2>3. Leads(D, {}, f[k]) = {} /\ Preds(g, f[k]) = {}
    BY <1>2, <2>1 DEF Apart, Tidy
  <2>4. \A d \in Descriptors : V[d].open => V[d].first_cluster # f[k]
    BY <2>1 DEF Headed, Tidy
  <2> QED
    BY <1>0, <1>1, <2>2, <2>3, <2>4 DEF Loose
<1> QED
  BY <1>3, <1>4, <1>5, <1>6 DEF Tidy, g

-----------------------------------------------------------------------------
(* The writes to the directory.                                            *)

\* What writing an entry makes of the directory: no cluster has an entry it had not,
\* but for k, which the one at s leads to.
Renews(f, D, D2, V, R, R2, G2, k, s) ==
  /\ \A x \in Clusters : x # k => Leads(D2, R2, x) \subseteq Leads(D, R, x)
  /\ k \in Clusters => /\ Leads(D2, R2, k) \subseteq {s}
                       /\ Preds(f, k) = {} /\ f[k] # None
                       /\ \A d \in Descriptors :
                             V[d].open /\ V[d].first_cluster = k => V[d].slot = s
  /\ \A x \in Clusters : f[x] = None => Leads(D2, R2, x) \subseteq G2
  /\ \A d \in Descriptors : V[d].open =>
       /\ V[d].slot \in Slots \ R2 /\ D2[V[d].slot].kind = "file"
       /\ D2[V[d].slot].first_cluster \in {None, V[d].first_cluster}

LEMMA EntryKeeps ==
  ASSUME NEW f, NEW D, NEW D2, NEW V, NEW R, NEW R2, NEW G, NEW G2, NEW k, NEW s,
         Tidy(f, D, V, R, G), Renews(f, D, D2, V, R, R2, G2, k, s)
  PROVE  Tidy(f, D2, V, R2, G2)
<1>1. Apart(f, D2, R2)
  <2> SUFFICES ASSUME NEW x \in Clusters
               PROVE  /\ \A t, u \in Leads(D2, R2, x) : t = u
                      /\ \A i, j \in Preds(f, x) : i = j
                      /\ Leads(D2, R2, x) = {} \/ Preds(f, x) = {}
    BY DEF Apart
  <2>1. CASE x = k
    BY <2>1 DEF Renews
  <2>2. CASE x # k
    BY <2>2 DEF Apart, Tidy, Renews
  <2> QED
    BY <2>1, <2>2
<1>2. FreeIsUnled(f, D2, R2, G2)
  BY DEF FreeIsUnled, Tidy, Renews
<1>3. Headed(f, D2, V, R2)
  <2> SUFFICES ASSUME NEW d \in Descriptors, V[d].open, V[d].first_cluster \in Clusters
               PROVE  /\ Preds(f, V[d].first_cluster) = {} /\ f[V[d].first_cluster] # None
                      /\ Leads(D2, R2, V[d].first_cluster) \subseteq {V[d].slot}
    BY DEF Headed, Renews
  <2>1. CASE V[d].first_cluster = k
    BY <2>1 DEF Renews
  <2>2. CASE V[d].first_cluster # k
    BY <2>2 DEF Headed, Tidy, Renews
  <2> QED
    BY <2>1, <2>2
<1> QED
  BY <1>1, <1>2, <1>3 DEF Tidy

-----------------------------------------------------------------------------
(* The call, with its record c and the descriptors W.                      *)

View(W, c) == IF c.op = "write" THEN [W EXCEPT ![c.fd] = Left(c)] ELSE W

\* The entry a rename has replaced, and the one whose chain is being freed.
Renaming(c) ==
  IF c.op = "rename" /\ c.at \in {"attribute", "erase"} THEN {c.slot} ELSE {}
Emptying(c) ==
  IF c.op \in {"open", "unlink"} /\ c.at \in {"free", "clear", "entry", "erase"}
    THEN {c.slot} ELSE {}

\* The call and the open files: a file is open once and stays where it is.
Fits(W, c) ==
  /\ c.op \in {"open", "unlink", "rename"} =>
       c.slot \in Slots /\ \A d \in Descriptors : W[d].open => W[d].slot # c.slot
  /\ c.op = "open" => c.fd \in Descriptors /\ ~W[c.fd].open
  /\ c.op \in {"write", "close"} => c.fd \in Descriptors /\ W[c.fd].open
  /\ c.op = "close" => W[c.fd].slot = c.slot /\ W[c.fd].first_cluster = c.chain
  /\ c.op \in {"open", "write", "close", "unlink"} => c.to = 0

\* Nobody else writes: a sector is as it was read.
Buffered(f, D, c) ==
  /\ c.at \in FatWrites => c.buffer \in {<<>>, f}
  /\ c.at \in DirWrites => c.buffer \in {<<>>, D}

\* Which call comes to which access.
Placed(c) ==
  /\ c.at \in {"free", "clear"} => c.op \in {"open", "unlink", "write", "mkdir"}
  /\ c.at = "place" => c.op \in {"mkdir", "rename"}
  /\ c.at = "entry" => c.op \in {"open", "write", "close", "mkdir", "rename"}
  /\ c.at = "attribute" => c.op = "rename"
  /\ c.at = "erase" => c.op \in {"rename", "unlink"}
  /\ c.at = "idle" <=> c.op = "none"

\* allocchain: nothing leads to the clusters it has.
Allocates(f, D, V, c) ==
  /\ c.at \in {"scan", "mark", "link"} =>
       /\ c.first = None <=> c.previous = None
       /\ c.first # None => Loose(f, D, V, {}, c.first)
       /\ c.op = "write" /\ c.tail = None => c.chain = None
  /\ c.at = "mark" => f[c.cluster] = None
  /\ c.at = "link" =>
       c.first # None /\ Loose(f, D, V, {}, c.cluster) /\ c.cluster # c.first
  /\ c.at = "append" => Loose(f, D, V, {}, c.first)
  /\ c.op = "mkdir" /\ c.at \in {"place", "entry"} => Loose(f, D, V, {}, c.first)

\* freechain: nothing but the entry to empty leads to the rest of the chain, and
\* it has cleared no more clusters than are free.
Frees(f, D, V, G, c) ==
  /\ c.at \in {"free", "clear"} => Loose(f, D, V, G, c.cluster)
  /\ c.at = "free" => c.found <= Cardinality(Zeros(f))
  /\ c.at = "clear" => c.found <= Cardinality(Zeros(f)) + 1 /\ c.next = f[c.cluster]

Walks(f, c) ==
  /\ c.at \in {"length", "nth", "next", "cut"} => c.cluster \in Clusters /\ c.chain \in Clusters
  /\ c.at = "cut" => c.next = f[c.cluster]

\* The entries that open, rename and mkdir have read and are to write.
Names(D, V, c) ==
  /\ c.op = "open" /\ (c.at \in {"free", "clear", "entry"} \/ (c.at = "return" /\ c.ok)) =>
       D[c.slot].kind = "file"
  /\ c.op = "open" /\ c.at = "entry" => c.chain = None
  /\ c.op = "open" /\ c.at = "return" /\ c.ok => D[c.slot].first_cluster = c.chain
  /\ c.op = "rename" /\ c.at \in {"place", "entry"} =>
       D[c.slot].kind # "free" /\ D[c.slot].first_cluster = c.chain
  /\ c.op = "rename" /\ c.at \in {"place", "entry", "attribute"} => c.kind # "free"
  /\ c.op \in {"rename", "mkdir"} /\ c.at = "entry" => c.to \in Slots /\ D[c.to].kind = "free"
  /\ c.op = "rename" /\ c.at \in {"attribute", "erase"} => c.to \in Slots /\ c.to # c.slot
  /\ c.op = "rename" /\ c.at = "attribute" =>
       D[c.to].kind # "free" /\ \A d \in Descriptors : V[d].open => V[d].slot # c.to

Stage(f, D, V, G, c) ==
  /\ Buffered(f, D, c) /\ Placed(c) /\ Allocates(f, D, V, c) /\ Frees(f, D, V, G, c)
  /\ Walks(f, c) /\ Names(D, V, c)

Good(f, D, W, c) ==
  /\ Fits(W, c) /\ Tidy(f, D, View(W, c), Renaming(c), Emptying(c))
  /\ Stage(f, D, View(W, c), Emptying(c), c)

-----------------------------------------------------------------------------
(* The local steps of write and mkdir.                                     *)

Same(c, d) ==
  d.op = c.op /\ d.fd = c.fd /\ d.slot = c.slot /\ d.to = c.to /\ d.chain = c.chain

\* A write or mkdir wherever it is.
Quiet(f, D, W, c) ==
  c.op \in {"write", "mkdir"} /\ Fits(W, c) /\ Tidy(f, D, View(W, c), {}, {})

LEMMA GoodIsQuiet ==
  ASSUME NEW f, NEW D, NEW W, NEW c, c.op \in {"write", "mkdir"}
  PROVE  /\ Renaming(c) = {} /\ Emptying(c) = {}
         /\ Good(f, D, W, c) <=> Quiet(f, D, W, c) /\ Stage(f, D, View(W, c), {}, c)
<1>1. Renaming(c) = {} /\ Emptying(c) = {}
  BY DEF Renaming, Emptying
<1> QED
  BY <1>1 DEF Good, Quiet

LEMMA SameHeads ==
  ASSUME NEW W \in Heads, NEW c, NEW d, Same(c, d), NEW e \in Descriptors
  PROVE  /\ View(W, c)[e].open <=> View(W, d)[e].open
         /\ View(W, c)[e].slot = View(W, d)[e].slot
         /\ View(W, c)[e].first_cluster = View(W, d)[e].first_cluster
<1>1. CASE c.op = "write" /\ c.fd = e
  BY <1>1 DEF View, Left, Same, Heads
<1>2. CASE ~(c.op = "write" /\ c.fd = e)
  <2>1. View(W, c)[e] = W[e] /\ View(W, d)[e] = W[e]
    BY <1>2 DEF View, Same, Heads
  <2> QED
    BY <2>1
<1> QED
  BY <1>1, <1>2

LEMMA TidyKept ==
  ASSUME NEW f, NEW D, NEW W \in Heads, NEW c, NEW d, Same(c, d), NEW R, NEW G,
         Tidy(f, D, View(W, c), R, G)
  PROVE  /\ Tidy(f, D, View(W, d), R, G)
         /\ \A k : Loose(f, D, View(W, c), G, k) => Loose(f, D, View(W, d), G, k)
<1> DEFINE V == View(W, c)
           U == View(W, d)
<1>1. \A e \in Descriptors : /\ V[e].open <=> U[e].open
                             /\ V[e].slot = U[e].slot /\ V[e].first_cluster = U[e].first_cluster
  BY SameHeads
<1> HIDE DEF V, U
<1>2. Headed(f, D, U, R) /\ Distinct(U)
  BY <1>1 DEF Tidy, Headed, Distinct, V
<1>3. \A k : Loose(f, D, V, G, k) => Loose(f, D, U, G, k)
  BY <1>1 DEF Loose
<1> QED
  BY <1>2, <1>3 DEF Tidy, V, U

LEMMA QuietKept ==
  ASSUME NEW f, NEW D, NEW W \in Heads, NEW c, NEW d, Same(c, d), Quiet(f, D, W, c)
  PROVE  /\ Quiet(f, D, W, d)
         /\ \A k : Loose(f, D, View(W, c), {}, k) => Loose(f, D, View(W, d), {}, k)
<1>1. Fits(W, d) /\ d.op \in {"write", "mkdir"}
  BY DEF Fits, Quiet, Same
<1>2. Tidy(f, D, View(W, c), {}, {})
  BY DEF Quiet
<1> QED
  BY <1>1, <1>2, TidyKept DEF Quiet

LEMMA RestsGood ==
  ASSUME NEW f, NEW D, NEW W \in Heads, NEW c, NEW d, Same(c, d), Quiet(f, D, W, c),
         d.at = "return" \/ (d.at = "entry" /\ d.op = "write" /\ d.buffer = <<>>)
  PROVE  Good(f, D, W, d)
<1>1. Quiet(f, D, W, d)
  BY QuietKept
<1>2. d.op \in {"write", "mkdir"}
  BY <1>1 DEF Quiet
<1>3. Stage(f, D, View(W, d), {}, d)
  BY <1>2 DEF Stage, Buffered, Placed, Allocates, Frees, Walks, Names, FatWrites, DirWrites
<1> QED
  BY <1>1, <1>2, <1>3, GoodIsQuiet

LEMMA ReturnGood ==
  ASSUME NEW f, NEW D, NEW W \in Heads, NEW c \in Locals, Quiet(f, D, W, c), NEW ok
  PROVE  Good(f, D, W, Return(c, ok))
<1>1. Same(c, Return(c, ok)) /\ Return(c, ok).at = "return"
  BY DEF Return, Goto, Same, Locals
<1> QED
  BY <1>1, RestsGood

LEMMA ZerosCount ==
  ASSUME NEW f
  PROVE  /\ IsFiniteSet(Zeros(f)) /\ Cardinality(Zeros(f)) \in Nat
         /\ Cardinality(Zeros(f)) <= MaxCluster - 1
<1>1. IsFiniteSet(Clusters) /\ Cardinality(Clusters) = MaxCluster - 1
  BY FS_Interval, FatAssumption DEF Clusters
<1>2. Zeros(f) \subseteq Clusters
  BY DEF Zeros
<1> QED
  BY <1>1, <1>2, FS_Subset, FS_CardinalityType

LEMMA freechainGood ==
  ASSUME NEW f, NEW D, NEW W \in Heads, NEW c \in Locals, Quiet(f, D, W, c),
         NEW k, Loose(f, D, View(W, c), {}, k)
  PROVE  Good(f, D, W, freechain(c, k))
<1> DEFINE d == freechain(c, k)
<1>1. Same(c, d) /\ d.at = "free" /\ d.cluster = k /\ d.found = 0 /\ d.buffer = <<>>
  BY DEF freechain, Goto, Same, Locals
<1> HIDE DEF d
<1>2. Quiet(f, D, W, d) /\ Loose(f, D, View(W, d), {}, k)
  BY <1>1, QuietKept
<1>3. d.op \in {"write", "mkdir"} /\ 0 <= Cardinality(Zeros(f))
  BY <1>2, ZerosCount DEF Quiet
<1>4. Stage(f, D, View(W, d), {}, d)
  BY <1>1, <1>2, <1>3
     DEF Stage, Buffered, Placed, Allocates, Frees, Walks, Names, FatWrites, DirWrites
<1> QED
  BY <1>2, <1>3, <1>4, GoodIsQuiet DEF d

LEMMA AllocFailsGood ==
  ASSUME NEW f, NEW D, NEW W \in Heads, NEW c \in Locals, Quiet(f, D, W, c),
         c.first # None => Loose(f, D, View(W, c), {}, c.first)
  PROVE  Good(f, D, W, AllocFails(c))
<1> DEFINE u == [c EXCEPT !.undo = TRUE]
<1>1. CASE c.first = None
  BY <1>1, ReturnGood DEF AllocFails
<1>2. CASE c.first # None
  <2>1. u \in Locals
    BY Updates
  <2>2. Same(c, u)
    BY DEF Same, Locals
  <2>3. AllocFails(c) = freechain(u, c.first)
    BY <1>2 DEF AllocFails
  <2> HIDE DEF u
  <2>4. Quiet(f, D, W, u) /\ Loose(f, D, View(W, u), {}, c.first)
    BY <1>2, <2>2, QuietKept
  <2> QED
    BY <2>1, <2>3, <2>4, freechainGood
<1> QED
  BY <1>1, <1>2

LEMMA allocchainGood ==
  ASSUME NEW f, NEW D, NEW W \in Heads, NEW c \in Locals, Quiet(f, D, W, c),
         NEW n, NEW tail, c.op = "write" /\ tail = None => c.chain = None
  PROVE  Good(f, D, W, allocchain(c, n, tail))
<1> DEFINE d == [Goto(c, "scan") EXCEPT !.cluster = 2, !.left = n, !.tail = tail,
                                        !.first = None, !.previous = None]
<1>1. /\ Same(c, d) /\ d.at = "scan" /\ d.first = None /\ d.previous = None
      /\ d.tail = tail /\ d.buffer = <<>>
  BY DEF Goto, Same, Locals
<1>2. allocchain(c, n, tail) \in {Return(c, FALSE), d}
  BY DEF allocchain
<1> HIDE DEF d
<1>3. Quiet(f, D, W, d)
  BY <1>1, QuietKept
<1>4. d.op \in {"write", "mkdir"} /\ d.op = c.op /\ d.chain = c.chain
  BY <1>1, <1>3 DEF Quiet, Same
<1>5. Stage(f, D, View(W, d), {}, d)
  BY <1>1, <1>4
     DEF Stage, Buffered, Placed, Allocates, Frees, Walks, Names, FatWrites, DirWrites
<1>6. Good(f, D, W, d)
  BY <1>3, <1>4, <1>5, GoodIsQuiet
<1> QED
  BY <1>2, <1>6, ReturnGood

LEMMA resizechainGood ==
  ASSUME NEW f, NEW D, NEW W \in Heads, NEW c \in Locals, Quiet(f, D, W, c), c.op = "write"
  PROVE  Good(f, D, W, resizechain(c))
<1>1. CASE c.chain = None
  BY <1>1, allocchainGood DEF resizechain
<1>2. CASE c.chain # None
  <2> DEFINE d == [Goto(c, "length") EXCEPT !.cluster = c.chain, !.found = 0]
  <2>1. Same(c, d) /\ d.at = "length" /\ d.cluster = c.chain /\ d.buffer = <<>>
    BY DEF Goto, Same, Locals
  <2>2. c.chain \in Clusters
    BY <1>2 DEF Locals, OptionalClusters
  <2>3. resizechain(c) = d
    BY <1>2 DEF resizechain
  <2> HIDE DEF d
  <2>4. Quiet(f, D, W, d) /\ d.op = "write" /\ d.chain = c.chain
    BY <2>1, QuietKept DEF Same
  <2>5. Stage(f, D, View(W, d), {}, d)
    BY <2>1, <2>2, <2>4
       DEF Stage, Buffered, Placed, Allocates, Frees, Walks, Names, FatWrites, DirWrites
  <2> QED
    BY <2>3, <2>4, <2>5, GoodIsQuiet
<1> QED
  BY <1>1, <1>2

LEMMA ResizedGood ==
  ASSUME NEW f, NEW D, NEW W \in Heads, NEW c \in Locals, Quiet(f, D, W, c), c.op = "write",
         Asked(c)
  PROVE  Good(f, D, W, Resized(c))
<1>1. CASE c.gap
  <2> DEFINE u == [c EXCEPT !.gap = FALSE, !.count = c.size + 1]
  <2>1. c.size + 1 \in Sizes
    BY <1>1, FatAssumption DEF Asked, Locals, Sizes
  <2>2. u \in Locals
    BY <2>1, Updates
  <2>3. Same(c, u) /\ u.op = "write"
    BY DEF Same, Locals
  <2>4. Resized(c) = resizechain(u)
    BY <1>1 DEF Resized
  <2> HIDE DEF u
  <2>5. Quiet(f, D, W, u)
    BY <2>3, QuietKept
  <2> QED
    BY <2>2, <2>3, <2>4, <2>5, resizechainGood
<1>2. CASE ~c.gap
  <2> DEFINE d == [Goto(c, "entry") EXCEPT !.size = c.count]
  <2>1. Same(c, d) /\ d.at = "entry" /\ d.op = "write" /\ d.buffer = <<>>
    BY DEF Goto, Same, Locals
  <2>2. Resized(c) = d
    BY <1>2 DEF Resized
  <2> HIDE DEF d
  <2> QED
    BY <2>1, <2>2, RestsGood
<1> QED
  BY <1>1, <1>2

\* The first cluster of a file that had none.
LEMMA FirstIsHeaded ==
  ASSUME NEW f, NEW D, NEW W \in Heads, NEW c \in Locals, Quiet(f, D, W, c), c.op = "write",
         c.chain = None, Loose(f, D, View(W, c), {}, c.first)
  PROVE  Quiet(f, D, W, [c EXCEPT !.chain = c.first])
<1> DEFINE u == [c EXCEPT !.chain = c.first]
           V == View(W, c)
           U == View(W, u)
           k == c.first
<1>1. u.op = "write" /\ u.fd = c.fd /\ u.slot = c.slot /\ u.to = c.to /\ u.chain = k
  BY DEF Locals
<1> HIDE DEF u
<1>2. c.fd \in Descriptors /\ Fits(W, u) /\ Tidy(f, D, V, {}, {})
  BY <1>1 DEF Quiet, Fits
<1>3. \A d \in Descriptors \ {c.fd} : U[d] = V[d]
  BY <1>1 DEF View, Heads
<1>4. /\ V[c.fd].open /\ V[c.fd].slot = c.slot /\ V[c.fd].first_cluster = None
      /\ U[c.fd].open /\ U[c.fd].slot = c.slot /\ U[c.fd].first_cluster = k
  BY <1>1, <1>2 DEF View, Heads, Left
<1>5. /\ k \in Clusters /\ f[k] # None /\ Preds(f, k) = {} /\ Leads(D, {}, k) = {}
      /\ \A d \in Descriptors : V[d].open => V[d].first_cluster # k
  BY DEF Loose
<1> HIDE DEF U, V, k
<1>6. Headed(f, D, U, {})
  <2> SUFFICES ASSUME NEW d \in Descriptors, U[d].open
               PROVE  /\ U[d].slot \in Slots \ {} /\ D[U[d].slot].kind = "file"
                      /\ D[U[d].slot].first_cluster \in {None, U[d].first_cluster}
                      /\ U[d].first_cluster \in Clusters =>
                           /\ Preds(f, U[d].first_cluster) = {} /\ f[U[d].first_cluster] # None
                           /\ Leads(D, {}, U[d].first_cluster) \subseteq {U[d].slot}
    BY DEF Headed
  <2>1. CASE d = c.fd
    BY <1>2, <1>4, <1>5, <2>1 DEF Tidy, Headed
  <2>2. CASE d # c.fd
    BY <1>2, <1>3, <2>2 DEF Tidy, Headed
  <2> QED
    BY <2>1, <2>2
<1>7. Distinct(U)
  <2>1. ASSUME NEW d \in Descriptors \ {c.fd}, V[d].open
        PROVE  V[d].slot # c.slot /\ V[d].first_cluster # k
    BY <1>2, <1>4, <1>5, <2>1 DEF Tidy, Distinct
  <2> QED
    BY <1>2, <1>3, <1>4, <2>1 DEF Tidy, Distinct
<1> QED
  BY <1>1, <1>2, <1>6, <1>7 DEF Quiet, Tidy, U, u

LEMMA AllocatedGood ==
  ASSUME NEW f, NEW D, NEW W \in Heads, NEW c \in Locals, Quiet(f, D, W, c), Asked(c),
         Loose(f, D, View(W, c), {}, c.first),
         c.op = "write" /\ c.tail = None => c.chain = None
  PROVE  Good(f, D, W, Allocated(c))
<1>0. c.op \in {"write", "mkdir"}
  BY DEF Quiet
<1>1. ASSUME NEW s \in {"place", "append"}, s = "place" => c.op = "mkdir"
      PROVE  Good(f, D, W, Goto(c, s))
  <2> DEFINE d == Goto(c, s)
  <2>1. Same(c, d) /\ d.at = s /\ d.first = c.first /\ d.buffer = <<>>
    BY DEF Goto, Same, Locals
  <2> HIDE DEF d
  <2>2. Quiet(f, D, W, d) /\ d.op = c.op /\ Loose(f, D, View(W, d), {}, d.first)
    BY <2>1, QuietKept DEF Same
  <2>3. Stage(f, D, View(W, d), {}, d)
    BY <1>0, <1>1, <2>1, <2>2
       DEF Stage, Buffered, Placed, Allocates, Frees, Walks, Names, FatWrites, DirWrites
  <2> QED
    BY <1>0, <2>2, <2>3, GoodIsQuiet DEF d
<1>2. CASE c.op = "mkdir"
  BY <1>1, <1>2 DEF Allocated
<1>3. CASE c.op # "mkdir" /\ c.tail # None
  BY <1>1, <1>3 DEF Allocated
<1>4. CASE c.op # "mkdir" /\ ~(c.tail # None)
  <2> DEFINE u == [c EXCEPT !.chain = c.first]
  <2>1. Quiet(f, D, W, u)
    BY <1>0, <1>4, FirstIsHeaded
  <2>2. c.first \in OptionalClusters
    BY DEF Locals
  <2>3. u \in Locals
    BY <2>2, Updates
  <2>4. u.op = "write" /\ Asked(u)
    BY <1>0, <1>4 DEF Locals, Asked
  <2>5. Good(f, D, W, Resized(u))
    BY <2>1, <2>3, <2>4, ResizedGood
  <2> QED
    BY <1>4, <2>5 DEF Allocated
<1> QED
  BY <1>2, <1>3, <1>4

\* allocchain goes on from what it has.
Has(f, D, W, c) ==
  /\ c.first # None => Loose(f, D, View(W, c), {}, c.first)
  /\ c.first = None <=> c.previous = None
  /\ c.op = "write" /\ c.tail = None => c.chain = None

LEMMA NextScanGood ==
  ASSUME NEW f, NEW D, NEW W \in Heads, NEW c \in Locals, Quiet(f, D, W, c), Asked(c),
         Has(f, D, W, c), c.left = 0 => c.first # None
  PROVE  Good(f, D, W, NextScan(c))
<1>1. CASE c.left = 0
  BY <1>1, AllocatedGood DEF NextScan, Has
<1>2. CASE c.left # 0 /\ c.cluster = MaxCluster
  BY <1>2, AllocFailsGood DEF NextScan, Has
<1>3. CASE c.left # 0 /\ c.cluster # MaxCluster
  <2> DEFINE d == [Goto(c, "scan") EXCEPT !.cluster = c.cluster + 1]
  <2>1. /\ Same(c, d) /\ d.at = "scan" /\ d.first = c.first /\ d.previous = c.previous
        /\ d.tail = c.tail /\ d.buffer = <<>>
    BY DEF Goto, Same, Locals
  <2>2. NextScan(c) = d
    BY <1>3 DEF NextScan
  <2> HIDE DEF d
  <2>3. Quiet(f, D, W, d) /\ Has(f, D, W, d)
    BY <2>1, QuietKept DEF Has, Same
  <2>4. d.op \in {"write", "mkdir"}
    BY <2>3 DEF Quiet
  <2>5. Stage(f, D, View(W, d), {}, d)
    BY <2>1, <2>3, <2>4
       DEF Has, Stage, Buffered, Placed, Allocates, Frees, Walks, Names, FatWrites, DirWrites
  <2> QED
    BY <2>2, <2>3, <2>4, <2>5, GoodIsQuiet
<1> QED
  BY <1>1, <1>2, <1>3

LEMMA LinkedGood ==
  ASSUME NEW f, NEW D, NEW W \in Heads, NEW c \in Locals, Quiet(f, D, W, c), Asked(c),
         Loose(f, D, View(W, c), {}, c.first), c.cluster \in Clusters, c.left >= 1,
         c.op = "write" /\ c.tail = None => c.chain = None
  PROVE  Good(f, D, W, Linked(c))
<1> DEFINE u == [c EXCEPT !.previous = c.cluster, !.left = c.left - 1]
<1>1. c.left - 1 \in 0..MaxCluster /\ c.cluster \in OptionalClusters
  BY FatAssumption DEF Locals
<1>2. u \in Locals
  BY <1>1, Updates
<1>3. Same(c, u) /\ Asked(u) /\ u.first = c.first /\ u.previous = c.cluster /\ u.tail = c.tail
  BY DEF Same, Asked, Locals
<1> HIDE DEF u
<1>4. c.first # None /\ c.cluster # None
  BY NoCluster DEF Loose
<1>5. Quiet(f, D, W, u) /\ Has(f, D, W, u)
  BY <1>3, <1>4, QuietKept DEF Has, Same
<1>6. Good(f, D, W, NextScan(u))
  BY <1>2, <1>3, <1>4, <1>5, NextScanGood
<1> QED
  BY <1>6 DEF Linked, u

\* The cluster has just been marked.
LEMMA MarkedGood ==
  ASSUME NEW f, NEW D, NEW W \in Heads, NEW c \in Locals, Quiet(f, D, W, c), Asked(c),
         Has(f, D, W, c), Loose(f, D, View(W, c), {}, c.cluster), c.cluster # c.first,
         c.left >= 1
  PROVE  Good(f, D, W, Marked(c))
<1> DEFINE k == IF c.first = None THEN c.cluster ELSE c.first
           m == [c EXCEPT !.first = k]
<1>1. k \in OptionalClusters
  BY DEF Locals
<1> HIDE DEF k
<1>2. m \in Locals
  BY <1>1, Updates
<1>3. /\ Same(c, m) /\ Asked(m) /\ m.first = k /\ m.cluster = c.cluster /\ m.tail = c.tail
      /\ m.left = c.left
  BY DEF Same, Asked, Locals
<1>4. Marked(c) = IF c.previous = None THEN Linked(m) ELSE Goto(m, "link")
  BY DEF Marked, k
<1> HIDE DEF m
<1>5. Quiet(f, D, W, m) /\ Loose(f, D, View(W, m), {}, k) /\ Loose(f, D, View(W, m), {}, c.cluster)
  BY <1>3, QuietKept DEF Has, k
<1>6. c.cluster \in Clusters /\ (m.op = "write" /\ m.tail = None => m.chain = None)
  BY <1>3 DEF Loose, Has, Same
<1>7. CASE c.previous = None
  BY <1>2, <1>3, <1>4, <1>5, <1>6, <1>7, LinkedGood
<1>8. CASE c.previous # None
  <2> DEFINE d == Goto(m, "link")
  <2>1. /\ Same(m, d) /\ d.at = "link" /\ d.first = k /\ d.cluster = c.cluster
        /\ d.tail = m.tail /\ d.previous = m.previous /\ d.buffer = <<>>
    BY <1>2, <1>3 DEF Goto, Same, Locals
  <2>2. k = c.first /\ k # None /\ m.previous # None
    <3>1. m.previous = c.previous
      BY DEF m, Locals
    <3> QED
      BY <1>8, <3>1 DEF Has, k
  <2> HIDE DEF d
  <2>3. /\ Quiet(f, D, W, d) /\ Loose(f, D, View(W, d), {}, k)
        /\ Loose(f, D, View(W, d), {}, c.cluster)
    BY <1>5, <2>1, QuietKept
  <2>4. d.op \in {"write", "mkdir"} /\ (d.op = "write" /\ d.tail = None => d.chain = None)
    BY <1>6, <2>1, <2>3 DEF Quiet, Same
  <2>5. Stage(f, D, View(W, d), {}, d)
    BY <2>1, <2>2, <2>3, <2>4
       DEF Stage, Buffered, Placed, Allocates, Frees, Walks, Names, FatWrites, DirWrites
  <2> QED
    BY <1>4, <1>8, <2>3, <2>4, <2>5, GoodIsQuiet DEF d
<1> QED
  BY <1>7, <1>8

LEMMA AtNthGood ==
  ASSUME NEW f, NEW D, NEW W \in Heads, NEW c \in Locals, Quiet(f, D, W, c),
         c.op = "write", c.cluster \in Clusters, c.chain \in Clusters
  PROVE  Good(f, D, W, AtNth(c))
<1>1. ASSUME NEW s \in {"nth", "next"}
      PROVE  Good(f, D, W, Goto(c, s))
  <2> DEFINE d == Goto(c, s)
  <2>1. Same(c, d) /\ d.at = s /\ d.cluster = c.cluster /\ d.buffer = <<>>
    BY DEF Goto, Same, Locals
  <2> HIDE DEF d
  <2>2. Quiet(f, D, W, d) /\ d.op = "write" /\ d.chain = c.chain
    BY <2>1, QuietKept DEF Same
  <2>3. Stage(f, D, View(W, d), {}, d)
    BY <2>1, <2>2
       DEF Stage, Buffered, Placed, Allocates, Frees, Walks, Names, FatWrites, DirWrites
  <2> QED
    BY <2>2, <2>3, GoodIsQuiet DEF d
<1>2. Good(f, D, W, allocchain(c, c.count - c.found, c.cluster))
  BY NoCluster, allocchainGood
<1> QED
  BY <1>1, <1>2 DEF AtNth

LEMMA MeasuredGood ==
  ASSUME NEW f, NEW D, NEW W \in Heads, NEW c \in Locals, Quiet(f, D, W, c), Asked(c),
         c.op = "write", c.chain \in Clusters, NEW n \in 1..MaxCluster
  PROVE  Good(f, D, W, Measured(c, n))
<1> DEFINE keep == IF n > c.count THEN c.count ELSE n
           u == [c EXCEPT !.found = n, !.cluster = c.chain, !.left = keep - 1]
<1>1. keep - 1 \in 0..MaxCluster /\ n \in 0..MaxCluster + 1 /\ c.chain \in OptionalClusters
  <2>1. c.count \in Nat /\ c.count >= 1
    BY FatAssumption DEF Locals, Asked, Sizes
  <2> QED
    BY <2>1, FatAssumption DEF Locals
<1> HIDE DEF keep
<1>2. u \in Locals
  BY <1>1, Updates
<1>3. Same(c, u) /\ u.op = "write" /\ u.cluster = c.chain /\ u.chain = c.chain
  BY DEF Same, Locals
<1>4. Measured(c, n) = IF n = c.count THEN Resized(c) ELSE AtNth(u)
  BY DEF Measured, keep
<1> HIDE DEF u
<1>5. Quiet(f, D, W, u)
  BY <1>3, QuietKept
<1> QED
  BY <1>2, <1>3, <1>4, <1>5, ResizedGood, AtNthGood

LEMMA EntryWrittenGood ==
  ASSUME NEW f, NEW D, NEW W \in Heads, NEW c \in Locals, Quiet(f, D, W, c), c.op = "write",
         NEW ok
  PROVE  Good(f, D, W, EntryWritten(c, ok))
<1>0. c.size \in Nat /\ c.position \in Nat /\ c.goal \in Sizes
  BY FatAssumption DEF Locals, Sizes
<1>1. ASSUME NEW n \in Sizes
      PROVE  Good(f, D, W, resizechain([c EXCEPT !.count = n]))
  <2> DEFINE u == [c EXCEPT !.count = n]
  <2>1. u \in Locals
    BY Updates
  <2>2. Same(c, u) /\ u.op = "write"
    BY DEF Same, Locals
  <2> HIDE DEF u
  <2>3. Quiet(f, D, W, u)
    BY <2>2, QuietKept
  <2> QED
    BY <2>1, <2>2, <2>3, resizechainGood DEF u
<1>2. CASE c.size < c.position
  <2>1. c.size + 1 \in Sizes
    BY <1>2, FatAssumption DEF Locals, Sizes
  <2> QED
    BY <1>0, <1>1, <1>2, <2>1 DEF EntryWritten
<1>3. CASE c.size = c.position /\ c.position > 0
  <2> DEFINE d == [Goto(c, "entry") EXCEPT !.position = 0]
  <2>1. Same(c, d) /\ d.at = "entry" /\ d.op = "write" /\ d.buffer = <<>>
    BY DEF Goto, Same, Locals
  <2>2. EntryWritten(c, ok) = d
    BY <1>0, <1>3 DEF EntryWritten
  <2> HIDE DEF d
  <2> QED
    BY <2>1, <2>2, RestsGood
<1>4. CASE c.position = 0 /\ c.size < c.goal /\ ok
  BY <1>0, <1>1, <1>4 DEF EntryWritten
<1>5. CASE /\ ~(c.size < c.position) /\ ~(c.size = c.position /\ c.position > 0)
           /\ ~(c.position = 0 /\ c.size < c.goal /\ ok)
  BY <1>5, ReturnGood DEF EntryWritten
<1> QED
  BY <1>2, <1>3, <1>4, <1>5

\* freechain has returned to a write or a mkdir.
LEMMA FreedGood ==
  ASSUME NEW f, NEW D, NEW W \in Heads, NEW c \in Locals, Quiet(f, D, W, c), Asked(c),
         NEW ok
  PROVE  Good(f, D, W, Freed(c, ok))
<1>0. c.op \in {"write", "mkdir"}
  BY DEF Quiet
<1>1. CASE c.op = "write" /\ ok /\ ~c.undo
  BY <1>1, ResizedGood DEF Freed
<1>2. CASE ~(c.op = "write" /\ ok /\ ~c.undo)
  BY <1>0, <1>2, ReturnGood DEF Freed
<1> QED
  BY <1>1, <1>2

-----------------------------------------------------------------------------
(* The reads of the table.                                                 *)

LEMMA ScannedGood ==
  ASSUME NEW f, NEW D, NEW W \in Heads, NEW c, Sound(c), Good(f, D, W, c), c.at = "scan"
  PROVE  Good(f, D, W, Scanned(c, f[c.cluster]))
<1>1. c \in Locals /\ Asked(c) /\ c.op \in {"write", "mkdir"} /\ c.left >= 1
  BY DEF Sound, Ready
<1>2. Quiet(f, D, W, c) /\ Has(f, D, W, c)
  BY <1>1, GoodIsQuiet DEF Stage, Allocates, Has
<1>3. CASE f[c.cluster] = 0
  <2> DEFINE d == Goto(c, "mark")
  <2>1. /\ Same(c, d) /\ d.at = "mark" /\ d.first = c.first /\ d.previous = c.previous
        /\ d.tail = c.tail /\ d.cluster = c.cluster /\ d.buffer = <<>>
    BY <1>1 DEF Goto, Same, Locals
  <2> HIDE DEF d
  <2>2. Quiet(f, D, W, d) /\ Has(f, D, W, d) /\ d.op \in {"write", "mkdir"}
    BY <1>2, <2>1, QuietKept DEF Has, Same, Quiet
  <2>3. Stage(f, D, View(W, d), {}, d)
    BY <1>3, <2>1, <2>2
       DEF Has, None, Stage, Buffered, Placed, Allocates, Frees, Walks, Names, FatWrites, DirWrites
  <2> QED
    BY <1>3, <2>2, <2>3, GoodIsQuiet DEF Scanned, d
<1>4. CASE f[c.cluster] # 0
  <2>1. c.left # 0
    BY <1>1
  <2> QED
    BY <1>1, <1>2, <1>4, <2>1, NextScanGood DEF Scanned
<1> QED
  BY <1>3, <1>4

LEMMA CountedGood ==
  ASSUME NEW f \in Tables, NEW D, NEW W \in Heads, NEW c, Sound(c), Good(f, D, W, c),
         c.at = "length"
  PROVE  Good(f, D, W, Counted(c, f[c.cluster]))
<1> DEFINE v == f[c.cluster]
<1>1. c \in Locals /\ Asked(c) /\ c.op = "write" /\ c.found \in 0..MaxCluster
  BY FatAssumption DEF Sound, Ready, Locals
<1>2. Quiet(f, D, W, c) /\ c.cluster \in Clusters /\ c.chain \in Clusters
  BY <1>1, GoodIsQuiet DEF Stage, Walks
<1>3. v \in Links
  BY <1>2 DEF Tables
<1> HIDE DEF v
<1>4. CASE c.found = MaxCluster \/ v = None
  <2>1. ~(c.found < MaxCluster /\ v = EOC)
    BY <1>1, <1>4, NoCluster, FatAssumption
  <2>2. Counted(c, v) = Return(c, FALSE)
    BY <1>4, <2>1 DEF Counted
  <2> QED
    BY <1>1, <1>2, <2>2, ReturnGood DEF v
<1>5. CASE c.found < MaxCluster /\ v = EOC
  <2>1. Counted(c, v) = Measured(c, c.found + 1)
    BY <1>1, <1>5, NoCluster DEF Counted
  <2>2. c.found + 1 \in 1..MaxCluster
    BY <1>1, <1>5, FatAssumption
  <2> QED
    BY <1>1, <1>2, <2>1, <2>2, MeasuredGood DEF v
<1>6. CASE ~(c.found = MaxCluster \/ v = None) /\ ~(c.found < MaxCluster /\ v = EOC)
  <2> DEFINE d == [c EXCEPT !.found = c.found + 1, !.cluster = v]
  <2>1. Counted(c, v) = d
    BY <1>6 DEF Counted
  <2>2. v \in Clusters
    BY <1>1, <1>3, <1>6, FatAssumption DEF Links
  <2>3. Same(c, d) /\ d.at = "length" /\ d.cluster = v
    BY <1>1 DEF Same, Locals
  <2> HIDE DEF d
  <2>4. Quiet(f, D, W, d) /\ d.op = "write" /\ d.chain = c.chain
    BY <1>1, <1>2, <2>3, QuietKept DEF Same
  <2>5. Stage(f, D, View(W, d), {}, d)
    BY <1>2, <2>2, <2>3, <2>4
       DEF Stage, Buffered, Placed, Allocates, Frees, Walks, Names, FatWrites, DirWrites
  <2> QED
    BY <2>1, <2>4, <2>5, GoodIsQuiet DEF v
<1> QED
  BY <1>4, <1>5, <1>6

LEMMA WalkedGood ==
  ASSUME NEW f \in Tables, NEW D, NEW W \in Heads, NEW c, Sound(c), Good(f, D, W, c),
         c.at = "nth"
  PROVE  Good(f, D, W, Walked(c, f[c.cluster]))
<1> DEFINE v == f[c.cluster]
<1>1. c \in Locals /\ c.op = "write" /\ c.left >= 1
  BY DEF Sound, Ready
<1>2. Quiet(f, D, W, c) /\ c.chain \in Clusters
  BY <1>1, GoodIsQuiet DEF Stage, Walks
<1> HIDE DEF v
<1>3. CASE v \in Clusters
  <2> DEFINE u == [c EXCEPT !.cluster = v, !.left = c.left - 1]
  <2>1. c.left - 1 \in 0..MaxCluster /\ v \in OptionalClusters
    BY <1>1, <1>3, FatAssumption DEF Locals, OptionalClusters
  <2>2. u \in Locals
    BY <1>1, <2>1, Updates
  <2>3. Same(c, u) /\ u.op = "write" /\ u.cluster = v /\ u.chain = c.chain
    BY <1>1 DEF Same, Locals
  <2>4. Walked(c, v) = AtNth(u)
    BY <1>3 DEF Walked
  <2> HIDE DEF u
  <2>5. Quiet(f, D, W, u)
    BY <1>2, <2>3, QuietKept
  <2> QED
    BY <1>2, <1>3, <2>2, <2>3, <2>4, <2>5, AtNthGood DEF v
<1>4. CASE v \notin Clusters
  BY <1>1, <1>2, <1>4, ReturnGood DEF Walked, v
<1> QED
  BY <1>3, <1>4

LEMMA ToCutGood ==
  ASSUME NEW f \in Tables, NEW D, NEW W \in Heads, NEW c, Sound(c), Good(f, D, W, c),
         c.at = "next"
  PROVE  Good(f, D, W, ToCut(c, f[c.cluster]))
<1> DEFINE v == f[c.cluster]
<1>1. c \in Locals /\ Asked(c) /\ c.op = "write"
  BY DEF Sound, Ready
<1>2. Quiet(f, D, W, c) /\ c.cluster \in Clusters /\ c.chain \in Clusters
  BY <1>1, GoodIsQuiet DEF Stage, Walks
<1>3. CASE v \in Clusters
  <2> DEFINE d == [Goto(c, "cut") EXCEPT !.next = v]
  <2>1. Same(c, d) /\ d.at = "cut" /\ d.cluster = c.cluster /\ d.next = v /\ d.buffer = <<>>
    BY <1>1 DEF Goto, Same, Locals
  <2>2. ToCut(c, v) = d
    BY <1>3 DEF ToCut
  <2> HIDE DEF d
  <2>3. Quiet(f, D, W, d) /\ d.op = "write" /\ d.chain = c.chain
    BY <1>1, <1>2, <2>1, QuietKept DEF Same
  <2>4. Stage(f, D, View(W, d), {}, d)
    BY <1>2, <2>1, <2>3
       DEF Stage, Buffered, Placed, Allocates, Frees, Walks, Names, FatWrites, DirWrites
  <2> QED
    BY <2>2, <2>3, <2>4, GoodIsQuiet
<1>4. CASE v \notin Clusters
  BY <1>1, <1>2, <1>4, ResizedGood DEF ToCut
<1> QED
  BY <1>3, <1>4

LEMMA ToClearGood ==
  ASSUME NEW f, NEW D, NEW W \in Heads, NEW c, Sound(c), Good(f, D, W, c), c.at = "free"
  PROVE  Good(f, D, W, ToClear(c, f[c.cluster]))
<1> DEFINE d == ToClear(c, f[c.cluster])
           G == Emptying(c)
<1>1. /\ c \in Locals /\ c.op \in {"open", "unlink", "write", "mkdir"}
      /\ Tidy(f, D, View(W, c), {}, G) /\ Loose(f, D, View(W, c), G, c.cluster)
      /\ c.found <= Cardinality(Zeros(f)) /\ c.found \in Nat
      /\ c.op = "open" => D[c.slot].kind = "file"
  BY FatAssumption DEF Sound, Good, Stage, Placed, Frees, Names, Renaming, Locals
<1>2. /\ Same(c, d) /\ d.at = "clear" /\ d.cluster = c.cluster /\ d.next = f[c.cluster]
      /\ d.found = c.found + 1 /\ d.buffer = <<>>
  BY <1>1 DEF ToClear, Goto, Same, Locals
<1> HIDE DEF d
<1>3. Emptying(d) = G /\ Renaming(d) = {} /\ Fits(W, d)
  BY <1>1, <1>2 DEF Emptying, Renaming, Fits, Same, Good
<1> HIDE DEF G
<1>4. Tidy(f, D, View(W, d), {}, G) /\ Loose(f, D, View(W, d), G, d.cluster)
  BY <1>1, <1>2, TidyKept
<1>5. d.found <= Cardinality(Zeros(f)) + 1
  BY <1>1, <1>2, ZerosCount
<1>6. Stage(f, D, View(W, d), G, d)
  BY <1>1, <1>2, <1>4, <1>5
     DEF Same, Stage, Buffered, Placed, Allocates, Frees, Walks, Names, FatWrites, DirWrites
<1> QED
  BY <1>3, <1>4, <1>6 DEF Good, d

-----------------------------------------------------------------------------
(* The writes to the table.                                                *)

Stored(f, c) == [f EXCEPT ![Target(c)] = Value(c)]

LEMMA MarkGood ==
  ASSUME NEW f \in Tables, NEW D, NEW W \in Heads, NEW c, Sound(c), Good(f, D, W, c),
         c.at = "mark"
  PROVE  Good(Stored(f, c), D, W, Written(c))
<1> DEFINE g == [f EXCEPT ![c.cluster] = EOC]
<1>1. /\ c \in Locals /\ Asked(c) /\ c.op \in {"write", "mkdir"} /\ c.left >= 1
      /\ c.cluster \in Clusters
  BY DEF Sound, Ready
<1>2. Stored(f, c) = g /\ Written(c) = Marked(c)
  BY DEF Stored, Target, Value, Written
<1>3. Quiet(f, D, W, c) /\ Has(f, D, W, c) /\ f[c.cluster] = None
  BY <1>1, GoodIsQuiet DEF Stage, Allocates, Has
<1> HIDE DEF g
<1>4. /\ Tidy(g, D, View(W, c), {}, {}) /\ Loose(g, D, View(W, c), {}, c.cluster)
      /\ \A x : Loose(f, D, View(W, c), {}, x) => Loose(g, D, View(W, c), {}, x) /\ x # c.cluster
  BY <1>1, <1>3, MarkKeeps DEF Quiet, g
<1>5. Quiet(g, D, W, c) /\ Has(g, D, W, c) /\ c.cluster # c.first
  BY <1>1, <1>3, <1>4, NoCluster DEF Quiet, Has
<1> QED
  BY <1>1, <1>2, <1>4, <1>5, MarkedGood

LEMMA LinkGood ==
  ASSUME NEW f \in Tables, NEW D, NEW W \in Heads, NEW c, Sound(c), Good(f, D, W, c),
         c.at = "link"
  PROVE  Good(Stored(f, c), D, W, Written(c))
<1> DEFINE g == [f EXCEPT ![c.previous] = c.cluster]
<1>1. /\ c \in Locals /\ Asked(c) /\ c.op \in {"write", "mkdir"} /\ c.left >= 1
      /\ c.cluster \in Clusters
  BY DEF Sound, Ready
<1>2. Stored(f, c) = g /\ Written(c) = Linked(c)
  BY DEF Stored, Target, Value, Written
<1>3. /\ Quiet(f, D, W, c) /\ Has(f, D, W, c) /\ c.first # None
      /\ Loose(f, D, View(W, c), {}, c.cluster) /\ c.cluster # c.first
  BY <1>1, GoodIsQuiet DEF Stage, Allocates, Has
<1>4. c.previous \in Clusters
  BY <1>1, <1>3 DEF Has, Locals, OptionalClusters
<1> HIDE DEF g
<1>5. Tidy(g, D, View(W, c), {}, {}) /\ Loose(g, D, View(W, c), {}, c.first)
  BY <1>3, <1>4, LinkKeeps DEF Quiet, Has, g
<1>6. Quiet(g, D, W, c)
  BY <1>3, <1>5 DEF Quiet
<1> QED
  BY <1>1, <1>2, <1>3, <1>5, <1>6, LinkedGood DEF Has

LEMMA AppendGood ==
  ASSUME NEW f \in Tables, NEW D, NEW W \in Heads, NEW c, Sound(c), Good(f, D, W, c),
         c.at = "append"
  PROVE  Good(Stored(f, c), D, W, Written(c))
<1> DEFINE g == [f EXCEPT ![c.tail] = c.first]
<1>1. c \in Locals /\ Asked(c) /\ c.op = "write"
  BY DEF Sound, Ready
<1>2. Stored(f, c) = g /\ Written(c) = Resized(c)
  BY DEF Stored, Target, Value, Written
<1>3. Quiet(f, D, W, c) /\ Loose(f, D, View(W, c), {}, c.first)
  BY <1>1, GoodIsQuiet DEF Stage, Allocates
<1>4. Tidy(g, D, View(W, c), {}, {})
  <2>1. CASE c.tail \in Clusters
    BY <1>3, <2>1, LinkKeeps DEF Quiet
  <2>2. CASE c.tail \notin Clusters
    BY <1>3, <2>2 DEF Tables, Quiet
  <2> QED
    BY <2>1, <2>2
<1> HIDE DEF g
<1>5. Quiet(g, D, W, c)
  BY <1>3, <1>4 DEF Quiet
<1> QED
  BY <1>1, <1>2, <1>5, ResizedGood

LEMMA CutGood ==
  ASSUME NEW f \in Tables, NEW D, NEW W \in Heads, NEW c, Sound(c), Good(f, D, W, c),
         c.at = "cut"
  PROVE  Good(Stored(f, c), D, W, Written(c))
<1> DEFINE g == [f EXCEPT ![c.cluster] = EOC]
<1>1. c \in Locals /\ c.op = "write" /\ c.next \in Clusters
  BY DEF Sound, Ready
<1>2. Stored(f, c) = g /\ Written(c) = freechain(c, c.next)
  BY DEF Stored, Target, Value, Written
<1>3. Quiet(f, D, W, c) /\ c.cluster \in Clusters /\ c.next = f[c.cluster]
  BY <1>1, GoodIsQuiet DEF Stage, Walks
<1> HIDE DEF g
<1>4. Tidy(g, D, View(W, c), {}, {}) /\ Loose(g, D, View(W, c), {}, c.next)
  BY <1>1, <1>3, CutKeeps DEF Quiet, g
<1>5. Quiet(g, D, W, c)
  BY <1>3, <1>4 DEF Quiet
<1> QED
  BY <1>1, <1>2, <1>4, <1>5, freechainGood

\* freechain goes on with the next cluster.
LEMMA GoesOnGood ==
  ASSUME NEW f, NEW D, NEW W \in Heads, NEW c \in Locals, NEW G,
         c.op \in {"open", "unlink", "write", "mkdir"}, c.at = "clear", Fits(W, c), G = Emptying(c),
         Tidy(f, D, View(W, c), {}, G), Loose(f, D, View(W, c), G, c.next),
         c.found <= Cardinality(Zeros(f)), c.op = "open" => D[c.slot].kind = "file"
  PROVE  Good(f, D, W, [Goto(c, "free") EXCEPT !.cluster = c.next])
<1> DEFINE d == [Goto(c, "free") EXCEPT !.cluster = c.next]
<1>1. /\ Same(c, d) /\ d.at = "free" /\ d.cluster = c.next /\ d.found = c.found
      /\ d.buffer = <<>>
  BY DEF Goto, Same, Locals
<1> HIDE DEF d
<1>2. Emptying(d) = G /\ Renaming(d) = {} /\ Fits(W, d)
  BY <1>1 DEF Emptying, Renaming, Fits, Same
<1>3. Tidy(f, D, View(W, d), {}, G) /\ Loose(f, D, View(W, d), G, d.cluster)
  BY <1>1, TidyKept
<1>4. Stage(f, D, View(W, d), G, d)
  BY <1>1, <1>3
     DEF Same, Stage, Buffered, Placed, Allocates, Frees, Walks, Names, FatWrites, DirWrites
<1> QED
  BY <1>2, <1>3, <1>4 DEF Good, d

\* freechain has freed the chain of a file that is opened to be written or of an entry
\* that is removed: the entry is next.
LEMMA EmptiedGood ==
  ASSUME NEW f, NEW D, NEW W \in Heads, NEW c \in Locals,
         c.op \in {"open", "unlink"}, Fits(W, c), Tidy(f, D, View(W, c), {}, {c.slot}),
         c.op = "open" => D[c.slot].kind = "file"
  PROVE  /\ c.op = "open" => Good(f, D, W, [Goto(c, "entry") EXCEPT !.chain = None, !.size = 0])
         /\ c.op = "unlink" => Good(f, D, W, Goto(c, "erase"))
<1>1. ASSUME c.op = "open"
      PROVE  Good(f, D, W, [Goto(c, "entry") EXCEPT !.chain = None, !.size = 0])
  <2> DEFINE d == [Goto(c, "entry") EXCEPT !.chain = None, !.size = 0]
  <2>1. /\ d.op = c.op /\ d.fd = c.fd /\ d.slot = c.slot /\ d.to = c.to /\ d.chain = None
        /\ d.at = "entry" /\ d.buffer = <<>>
    BY DEF Goto, Locals
  <2> HIDE DEF d
  <2>2. Emptying(d) = {c.slot} /\ Renaming(d) = {} /\ Fits(W, d) /\ View(W, d) = View(W, c)
    BY <1>1, <2>1 DEF Emptying, Renaming, Fits, View
  <2>3. Stage(f, D, View(W, d), {c.slot}, d)
    BY <1>1, <2>1
       DEF Stage, Buffered, Placed, Allocates, Frees, Walks, Names, FatWrites, DirWrites
  <2> QED
    BY <2>2, <2>3 DEF Good, d
<1>2. ASSUME c.op = "unlink"
      PROVE  Good(f, D, W, Goto(c, "erase"))
  <2> DEFINE d == Goto(c, "erase")
  <2>1. Same(c, d) /\ d.at = "erase" /\ d.buffer = <<>>
    BY DEF Goto, Same, Locals
  <2> HIDE DEF d
  <2>2. Emptying(d) = {c.slot} /\ Renaming(d) = {} /\ Fits(W, d) /\ View(W, d) = View(W, c)
    BY <1>2, <2>1 DEF Emptying, Renaming, Fits, View, Same
  <2>3. Stage(f, D, View(W, d), {c.slot}, d)
    BY <1>2, <2>1
       DEF Same, Stage, Buffered, Placed, Allocates, Frees, Walks, Names, FatWrites, DirWrites
  <2> QED
    BY <2>2, <2>3 DEF Good, d
<1> QED
  BY <1>1, <1>2

LEMMA ClearGood ==
  ASSUME NEW f \in Tables, NEW D, NEW W \in Heads, NEW c, Sound(c), Good(f, D, W, c),
         c.at = "clear"
  PROVE  Good(Stored(f, c), D, W, Written(c))
<1> DEFINE g == [f EXCEPT ![c.cluster] = None]
           G == Emptying(c)
<1>1. /\ c \in Locals /\ Asked(c) /\ c.op \in {"open", "unlink", "write", "mkdir"}
      /\ c.found \in Nat /\ c.next \in Links
  BY FatAssumption DEF Sound, Good, Stage, Placed, Locals
<1>2. Stored(f, c) = g /\ Written(c) = Cleared(c)
  BY DEF Stored, Target, Value, Written, None
<1>3. /\ Tidy(f, D, View(W, c), {}, G) /\ Loose(f, D, View(W, c), G, c.cluster)
      /\ c.found <= Cardinality(Zeros(f)) + 1 /\ c.next = f[c.cluster] /\ Fits(W, c)
      /\ c.op = "open" => D[c.slot].kind = "file"
  BY <1>1 DEF Good, Stage, Frees, Names, Renaming
<1>4. G = Emptying(c)
  OBVIOUS
<1> HIDE DEF g, G
<1>5. /\ Tidy(g, D, View(W, c), {}, G)
      /\ c.next \in Clusters => Loose(g, D, View(W, c), G, c.next)
      /\ Zeros(g) = Zeros(f) \cup {c.cluster} /\ c.cluster \notin Zeros(f)
  <2> DEFINE V == View(W, c)
             k == c.cluster
  <2>1. Tidy(f, D, V, {}, G) /\ Loose(f, D, V, G, k)
    BY <1>3
  <2> HIDE DEF V, k
  <2>2. /\ Tidy(g, D, V, {}, G)
        /\ f[k] \in Clusters => Loose(g, D, V, G, f[k])
        /\ Zeros(g) = Zeros(f) \cup {k} /\ k \notin Zeros(f)
    BY <2>1, ClearKeeps DEF g, k
  <2> QED
    BY <1>3, <2>2 DEF V, k
<1>6. c.found <= Cardinality(Zeros(g)) /\ c.found < MaxCluster
  <2>1. Cardinality(Zeros(g)) = Cardinality(Zeros(f)) + 1
    BY <1>5, ZerosCount, FS_AddElement
  <2>2. Cardinality(Zeros(g)) \in Nat /\ Cardinality(Zeros(g)) <= MaxCluster - 1
    BY ZerosCount
  <2> QED
    BY <1>1, <1>3, <2>1, <2>2, FatAssumption
<1>7. CASE c.next \in Clusters
  <2>1. Cleared(c) = [Goto(c, "free") EXCEPT !.cluster = c.next]
    BY <1>6, <1>7, NoCluster DEF Cleared
  <2>2. Good(g, D, W, [Goto(c, "free") EXCEPT !.cluster = c.next])
    <3>1. Loose(g, D, View(W, c), G, c.next)
      BY <1>5, <1>7
    <3>2. c.found <= Cardinality(Zeros(g))
      BY <1>6
    <3> QED
      BY <1>1, <1>3, <1>4, <1>5, <3>1, <3>2, GoesOnGood
  <2> QED
    BY <1>2, <2>1, <2>2
<1>8. CASE c.next \notin Clusters
  <2>1. Cleared(c) = Freed(c, TRUE)
    BY <1>1, <1>8 DEF Cleared, Links
  <2>2. CASE c.op \in {"write", "mkdir"}
    <3>1. Quiet(g, D, W, c)
      BY <1>3, <1>5, <1>4, <2>2 DEF Quiet, Emptying
    <3> QED
      BY <1>1, <1>2, <2>1, <3>1, FreedGood
  <2>3. CASE c.op \in {"open", "unlink"}
    <3>1. G = {c.slot}
      BY <1>4, <2>3 DEF Emptying
    <3>2. /\ c.op = "open" => Good(g, D, W, [Goto(c, "entry") EXCEPT !.chain = None, !.size = 0])
          /\ c.op = "unlink" => Good(g, D, W, Goto(c, "erase"))
      BY <1>1, <1>3, <1>5, <2>3, <3>1, EmptiedGood
    <3> QED
      BY <1>2, <2>1, <2>3, <3>2 DEF Freed
  <2> QED
    BY <1>1, <2>2, <2>3
<1> QED
  BY <1>7, <1>8

\* Every write to the table.
LEMMA StoredGood ==
  ASSUME NEW f \in Tables, NEW D, NEW W \in Heads, NEW c, Sound(c), Good(f, D, W, c),
         c.at \in FatWrites
  PROVE  Good(Stored(f, c), D, W, Written(c))
BY MarkGood, LinkGood, AppendGood, CutGood, ClearGood DEF FatWrites

-----------------------------------------------------------------------------
(* The writes to the directory.                                            *)

Named(D, c) == [D EXCEPT ![Place(c)] = NewEntry(c, D[Place(c)])]

LEMMA NamedAt ==
  ASSUME NEW D \in Directories, NEW c, NEW s \in Slots, Place(c) = s
  PROVE  /\ Named(D, c)[s] = NewEntry(c, D[s])
         /\ \A t \in Slots : t # s => Named(D, c)[t] = D[t]
BY DEF Named, Directories

LEMMA DoneGood ==
  ASSUME NEW f, NEW D, NEW W, NEW d, d.op \in {"open", "close", "unlink", "rename"},
         d.at = "return", Fits(W, d), Tidy(f, D, W, {}, {}),
         d.op = "open" /\ d.ok => D[d.slot].kind = "file" /\ D[d.slot].first_cluster = d.chain
  PROVE  Good(f, D, W, d)
<1>1. View(W, d) = W /\ Emptying(d) = {} /\ Renaming(d) = {}
  BY DEF View, Emptying, Renaming
<1>2. Stage(f, D, W, {}, d)
  BY DEF Stage, Buffered, Placed, Allocates, Frees, Walks, Names, FatWrites, DirWrites
<1> QED
  BY <1>1, <1>2 DEF Good

LEMMA ReturnsGood ==
  ASSUME NEW f, NEW D, NEW W, NEW c \in Locals, NEW ok \in BOOLEAN,
         c.op \in {"open", "close", "unlink", "rename"}, Fits(W, c), Tidy(f, D, W, {}, {}),
         c.op = "open" /\ ok => D[c.slot].kind = "file" /\ D[c.slot].first_cluster = c.chain
  PROVE  Good(f, D, W, Return(c, ok))
<1> DEFINE d == Return(c, ok)
<1>1. Same(c, d) /\ d.at = "return" /\ d.ok = ok
  BY DEF Return, Goto, Same, Locals
<1> HIDE DEF d
<1>2. Fits(W, d) /\ d.op \in {"open", "close", "unlink", "rename"}
  BY <1>1 DEF Fits, Same
<1> QED
  BY <1>1, <1>2, DoneGood DEF Same, d

\* The entry of an open file gets the chain and the size of its descriptor.
LEMMA OpenEntryKeeps ==
  ASSUME NEW f, NEW D \in Directories, NEW W \in Heads, NEW c \in Locals, Good(f, D, W, c),
         c.op \in {"write", "close"}, c.at = "entry"
  PROVE  Tidy(f, Named(D, c), View(W, c), {}, {})
<1> DEFINE V == View(W, c)
           D2 == Named(D, c)
           s == c.slot
           k == c.chain
<1>1. /\ Tidy(f, D, V, {}, {}) /\ c.fd \in Descriptors
      /\ V[c.fd].open /\ V[c.fd].slot = s /\ V[c.fd].first_cluster = k
  BY DEF Good, Renaming, Emptying, Fits, View, Left, Heads
<1> HIDE DEF V
<1>2. s \in Slots /\ D[s].kind = "file" /\ D[s].first_cluster \in {None, k}
  BY <1>1 DEF Tidy, Headed
<1>3. Place(c) = s
  BY DEF Place, Good, Fits
<1>4. D2[s] = NewEntry(c, D[s]) /\ \A t \in Slots : t # s => D2[t] = D[t]
  BY <1>2, <1>3, NamedAt
<1>5. D2[s].kind = "file" /\ D2[s].first_cluster = k
  <2>1. NewEntry(c, D[s]) = [D[s] EXCEPT !.first_cluster = c.chain, !.size = c.size]
    BY <1>2 DEF NewEntry
  <2>2. D[s] \in Entries
    BY <1>2 DEF Directories
  <2> QED
    BY <1>2, <1>4, <2>1, <2>2 DEF Entries
<1> HIDE DEF D2, s, k
<1>6. \A x \in Clusters : x # k => Leads(D2, {}, x) \subseteq Leads(D, {}, x)
  BY <1>2, <1>4, <1>5 DEF Leads
<1>7. \A d \in Descriptors : V[d].open /\ d # c.fd =>
         V[d].slot # s /\ (k \in Clusters => V[d].first_cluster # k)
  BY <1>1 DEF Tidy, Distinct
<1>8. k \in Clusters =>
         /\ Leads(D2, {}, k) \subseteq {s} /\ Preds(f, k) = {} /\ f[k] # None
         /\ \A d \in Descriptors : V[d].open /\ V[d].first_cluster = k => V[d].slot = s
  <2> HAVE k \in Clusters
  <2>1. Preds(f, k) = {} /\ f[k] # None /\ Leads(D, {}, k) \subseteq {s}
    BY <1>1 DEF Tidy, Headed
  <2>2. Leads(D2, {}, k) \subseteq {s}
    BY <1>4, <2>1 DEF Leads
  <2> QED
    BY <1>1, <1>7, <2>1, <2>2
<1>9. \A x \in Clusters : f[x] = None => Leads(D2, {}, x) \subseteq {}
  BY <1>1, <1>6, <1>8 DEF Tidy, FreeIsUnled
<1>10. \A d \in Descriptors : V[d].open =>
         /\ V[d].slot \in Slots \ {} /\ D2[V[d].slot].kind = "file"
         /\ D2[V[d].slot].first_cluster \in {None, V[d].first_cluster}
  <2> SUFFICES ASSUME NEW d \in Descriptors, V[d].open
               PROVE  /\ V[d].slot \in Slots \ {} /\ D2[V[d].slot].kind = "file"
                      /\ D2[V[d].slot].first_cluster \in {None, V[d].first_cluster}
    OBVIOUS
  <2>1. CASE d = c.fd
    BY <1>1, <1>2, <1>5, <2>1
  <2>2. CASE d # c.fd
    BY <1>1, <1>4, <1>7, <2>2 DEF Tidy, Headed
  <2> QED
    BY <2>1, <2>2
<1>11. Renews(f, D, D2, V, {}, {}, {}, k, s)
  BY <1>6, <1>8, <1>9, <1>10 DEF Renews
<1> QED
  BY <1>1, <1>11, EntryKeeps DEF D2, V

\* An entry that leads nowhere now, and that no open file has.
LEMMA EmptyEntryKeeps ==
  ASSUME NEW f, NEW D, NEW D2, NEW V, NEW R, NEW G, NEW s,
         Tidy(f, D, V, R, G), R \subseteq {s}, G \subseteq {s},
         \A t \in Slots : t # s => D2[t] = D[t],
         D2[s].kind = "free" \/ D2[s].first_cluster = None,
         \A d \in Descriptors : V[d].open => V[d].slot # s
  PROVE  Tidy(f, D2, V, {}, {})
<1>1. \A x \in Clusters : Leads(D2, {}, x) \subseteq Leads(D, R, x) \ {s}
  BY NoCluster DEF Leads
<1>2. \A x \in Clusters : f[x] = None => Leads(D, R, x) \subseteq {s}
  BY DEF Tidy, FreeIsUnled
<1>3. \A d \in Descriptors : V[d].open =>
         /\ V[d].slot \in Slots \ {} /\ D2[V[d].slot].kind = "file"
         /\ D2[V[d].slot].first_cluster \in {None, V[d].first_cluster}
  BY DEF Tidy, Headed
<1>4. Renews(f, D, D2, V, R, {}, {}, None, s)
  BY <1>1, <1>2, <1>3, NoCluster DEF Renews
<1> QED
  BY <1>4, EntryKeeps

\* A free entry gets a chain that nothing leads to but the entries in R.
Adds(f, D, D2, V, R, k, s) ==
  /\ D[s].kind = "free" /\ D2[s].first_cluster = k
  /\ \A t \in Slots : t # s => D2[t] = D[t]
  /\ k \in Clusters => /\ Leads(D, R, k) = {} /\ Preds(f, k) = {} /\ f[k] # None
                       /\ \A d \in Descriptors : V[d].open => V[d].first_cluster # k
  /\ \A d \in Descriptors : V[d].open => V[d].slot \notin R

LEMMA NewEntryKeeps ==
  ASSUME NEW f, NEW D, NEW D2, NEW V, NEW R, NEW k, NEW s,
         Tidy(f, D, V, {}, {}), Adds(f, D, D2, V, R, k, s)
  PROVE  Tidy(f, D2, V, R, {})
<1>1. \A x \in Clusters : x # k => Leads(D2, R, x) \subseteq Leads(D, {}, x)
  BY DEF Leads, Adds
<1>2. k \in Clusters => Leads(D2, R, k) \subseteq {s}
  BY DEF Leads, Adds
<1>3. \A x \in Clusters : f[x] = None => Leads(D2, R, x) \subseteq {}
  BY <1>1 DEF Tidy, FreeIsUnled, Adds
<1>4. \A d \in Descriptors : V[d].open =>
         /\ V[d].slot \in Slots \ R /\ D2[V[d].slot].kind = "file"
         /\ D2[V[d].slot].first_cluster \in {None, V[d].first_cluster}
  BY DEF Tidy, Headed, Adds
<1>5. Renews(f, D, D2, V, {}, R, {}, k, s)
  BY <1>1, <1>2, <1>3, <1>4 DEF Renews, Adds
<1> QED
  BY <1>5, EntryKeeps

\* The kind of a new entry is written.
LEMMA KindKeeps ==
  ASSUME NEW f, NEW D, NEW D2, NEW V, NEW R, NEW s,
         Tidy(f, D, V, R, {}), D[s].kind # "free",
         \A t \in Slots : t # s => D2[t] = D[t],
         D2[s].first_cluster = D[s].first_cluster,
         \A d \in Descriptors : V[d].open => V[d].slot # s
  PROVE  Tidy(f, D2, V, R, {})
<1>1. \A x : Leads(D2, R, x) \subseteq Leads(D, R, x)
  BY DEF Leads
<1>2. \A x \in Clusters : f[x] = None => Leads(D2, R, x) \subseteq {}
  BY <1>1 DEF Tidy, FreeIsUnled
<1>3. \A d \in Descriptors : V[d].open =>
         /\ V[d].slot \in Slots \ R /\ D2[V[d].slot].kind = "file"
         /\ D2[V[d].slot].first_cluster \in {None, V[d].first_cluster}
  BY DEF Tidy, Headed
<1>4. Renews(f, D, D2, V, R, R, {}, None, s)
  BY <1>1, <1>2, <1>3, NoCluster DEF Renews
<1> QED
  BY <1>4, EntryKeeps

LEMMA PlaceIs ==
  ASSUME NEW c
  PROVE  /\ c.to = 0 \/ c.at = "erase" => Place(c) = c.slot
         /\ c.to \in Slots /\ c.at # "erase" => Place(c) = c.to
BY FatAssumption DEF Place

\* open, unlink and the end of a rename: the entry is emptied or removed.
LEMMA EmptyGood ==
  ASSUME NEW f, NEW D \in Directories, NEW W \in Heads, NEW c, Sound(c), Good(f, D, W, c),
         (c.op = "open" /\ c.at = "entry") \/ c.at = "erase"
  PROVE  Good(f, Named(D, c), W, Return(c, TRUE))
<1> DEFINE D2 == Named(D, c)
           s == c.slot
<1>1. c \in Locals /\ c.op \in {"open", "unlink", "rename"} /\ View(W, c) = W /\ Fits(W, c)
  BY DEF Sound, Good, Stage, Placed, View
<1>2. s \in Slots /\ \A d \in Descriptors : W[d].open => W[d].slot # s
  BY <1>1 DEF Fits
<1>3. Place(c) = s
  BY <1>1, PlaceIs DEF Fits
<1>4. D2[s] = NewEntry(c, D[s]) /\ \A t \in Slots : t # s => D2[t] = D[t]
  BY <1>2, <1>3, NamedAt
<1>5. D[s] \in Entries
  BY <1>2 DEF Directories
<1>6. c.op = "open" => D2[s].kind = "file" /\ D2[s].first_cluster = None /\ c.chain = None
  <2> HAVE c.op = "open"
  <2>1. c.at = "entry" /\ D[s].kind = "file" /\ c.chain = None
    BY DEF Good, Stage, Placed, Names
  <2>2. NewEntry(c, D[s]) = [D[s] EXCEPT !.first_cluster = c.chain, !.size = c.size]
    BY <2>1 DEF NewEntry
  <2> QED
    BY <1>4, <1>5, <2>1, <2>2 DEF Entries
<1>7. c.op # "open" => D2[s].kind = "free"
  BY <1>4 DEF NewEntry
<1>8. /\ Tidy(f, D, W, Renaming(c), Emptying(c))
      /\ Renaming(c) \subseteq {s} /\ Emptying(c) \subseteq {s}
  BY <1>1 DEF Good, Renaming, Emptying
<1> HIDE DEF D2, s
<1>9. Tidy(f, D2, W, {}, {})
  BY <1>2, <1>4, <1>6, <1>7, <1>8, EmptyEntryKeeps
<1>10. c.op = "open" /\ TRUE => D2[c.slot].kind = "file" /\ D2[c.slot].first_cluster = c.chain
  BY <1>6 DEF s
<1>11. Good(f, D2, W, Return(c, TRUE))
  BY <1>1, <1>9, <1>10, ReturnsGood
<1> QED
  BY <1>11 DEF D2

\* write and close: the entry of an open file.
LEMMA OpenEntryGood ==
  ASSUME NEW f, NEW D \in Directories, NEW W \in Heads, NEW c, Sound(c), Good(f, D, W, c),
         c.op \in {"write", "close"}, c.at = "entry"
  PROVE  Good(f, Named(D, c), W, AfterEntry(c, TRUE))
<1>1. c \in Locals /\ Fits(W, c)
  BY DEF Sound, Good
<1>2. Tidy(f, Named(D, c), View(W, c), {}, {})
  BY <1>1, OpenEntryKeeps
<1>3. CASE c.op = "write"
  <2>1. Quiet(f, Named(D, c), W, c)
    BY <1>1, <1>2, <1>3 DEF Quiet
  <2> QED
    BY <1>1, <1>3, <2>1, EntryWrittenGood DEF AfterEntry
<1>4. CASE c.op = "close"
  <2>1. Tidy(f, Named(D, c), W, {}, {})
    BY <1>2, <1>4 DEF View
  <2>2. AfterEntry(c, TRUE) = Return(c, TRUE)
    BY <1>4 DEF AfterEntry
  <2>3. c.op \in {"open", "close", "unlink", "rename"} /\ c.op # "open"
    BY <1>4
  <2> QED
    BY <1>1, <2>1, <2>2, <2>3, ReturnsGood
<1> QED
  BY <1>3, <1>4

\* mkdir: the new directory gets the cluster it has taken.
LEMMA DirectoryEntryGood ==
  ASSUME NEW f, NEW D \in Directories, NEW W \in Heads, NEW c, Sound(c), Good(f, D, W, c),
         c.op = "mkdir", c.at = "entry"
  PROVE  Good(f, Named(D, c), W, AfterEntry(c, TRUE))
<1> DEFINE D2 == Named(D, c)
           V == View(W, c)
           s == c.to
           k == c.first
<1>1. /\ c \in Locals /\ Quiet(f, D, W, c) /\ Loose(f, D, V, {}, k)
      /\ s \in Slots /\ D[s].kind = "free"
  BY GoodIsQuiet DEF Sound, Stage, Allocates, Names
<1>2. Place(c) = s
  BY <1>1, PlaceIs
<1>3. D2[s] = NewEntry(c, D[s]) /\ \A t \in Slots : t # s => D2[t] = D[t]
  BY <1>1, <1>2, NamedAt
<1>4. D2[s].first_cluster = k
  BY <1>3 DEF NewEntry
<1>5. Tidy(f, D, V, {}, {})
  BY <1>1 DEF Quiet
<1> HIDE DEF D2, V, s, k
<1>6. k \in Clusters => /\ Leads(D, {}, k) = {} /\ Preds(f, k) = {} /\ f[k] # None
                        /\ \A d \in Descriptors : V[d].open => V[d].first_cluster # k
  BY <1>1 DEF Loose
<1>7. Tidy(f, D2, V, {}, {})
  <2>1. Adds(f, D, D2, V, {}, k, s)
    BY <1>1, <1>3, <1>4, <1>6 DEF Adds
  <2> QED
    BY <1>5, <2>1, NewEntryKeeps
<1>8. Quiet(f, D2, W, c)
  BY <1>1, <1>7 DEF Quiet, V
<1> QED
  BY <1>1, <1>8, ReturnGood DEF AfterEntry, D2

\* rename: the new entry gets the chain of the old one.
LEMMA NewNameGood ==
  ASSUME NEW f, NEW D \in Directories, NEW W \in Heads, NEW c, Sound(c), Good(f, D, W, c),
         c.op = "rename", c.at = "entry"
  PROVE  Good(f, Named(D, c), W, AfterEntry(c, TRUE))
<1> DEFINE D2 == Named(D, c)
           s == c.to
           o == c.slot
           k == c.chain
           d == Goto(c, "attribute")
<1>1. /\ c \in Locals /\ Fits(W, c) /\ Tidy(f, D, W, {}, {})
      /\ s \in Slots /\ D[s].kind = "free" /\ c.kind # "free"
      /\ o \in Slots /\ D[o].kind # "free" /\ D[o].first_cluster = k
      /\ \A e \in Descriptors : W[e].open => W[e].slot # o
  BY DEF Sound, Good, View, Renaming, Emptying, Stage, Names, Fits
<1>2. Place(c) = s
  BY <1>1, PlaceIs
<1>3. D2[s] = NewEntry(c, D[s]) /\ \A t \in Slots : t # s => D2[t] = D[t]
  BY <1>1, <1>2, NamedAt
<1>4. D2[s].first_cluster = k /\ D2[s].kind = "file"
  BY <1>3 DEF NewEntry
<1>5. Same(c, d) /\ d.at = "attribute" /\ d.kind = c.kind /\ d.buffer = <<>>
  BY <1>1 DEF Goto, Same, Locals
<1> HIDE DEF D2, s, o, k, d
<1>6. k \in Clusters => /\ Leads(D, {o}, k) = {} /\ Preds(f, k) = {} /\ f[k] # None
                        /\ \A e \in Descriptors : W[e].open => W[e].first_cluster # k
  <2> HAVE k \in Clusters
  <2>1. o \in Leads(D, {}, k)
    BY <1>1 DEF Leads
  <2>2. Leads(D, {}, k) \subseteq {o} /\ Preds(f, k) = {} /\ f[k] # None
    BY <1>1, <2>1 DEF Tidy, Apart, FreeIsUnled
  <2>3. Leads(D, {o}, k) = {}
    BY <2>2 DEF Leads
  <2>4. \A e \in Descriptors : W[e].open => W[e].first_cluster # k
    BY <1>1, <2>1 DEF Tidy, Headed
  <2> QED
    BY <2>2, <2>3, <2>4
<1>7. Tidy(f, D2, W, {o}, {})
  <2>1. Tidy(f, D, W, {}, {})
    BY <1>1
  <2>2. Adds(f, D, D2, W, {o}, k, s)
    BY <1>1, <1>3, <1>4, <1>6 DEF Adds
  <2> QED
    BY <2>1, <2>2, NewEntryKeeps
<1>8. /\ Fits(W, d) /\ View(W, d) = W /\ Renaming(d) = {o} /\ Emptying(d) = {}
      /\ s # o /\ D2[s].kind # "free" /\ \A e \in Descriptors : W[e].open => W[e].slot # s
  BY <1>1, <1>4, <1>5 DEF Fits, Same, View, Renaming, Emptying, Tidy, Headed, o
<1>9. Stage(f, D2, W, {}, d)
  BY <1>1, <1>5, <1>8
     DEF Same, Stage, Buffered, Placed, Allocates, Frees, Walks, Names, FatWrites, DirWrites, s, o
<1> QED
  BY <1>7, <1>8, <1>9 DEF Good, AfterEntry, D2, d

\* rename: the new entry gets the attribute of the old one.
LEMMA AttributeGood ==
  ASSUME NEW f, NEW D \in Directories, NEW W \in Heads, NEW c, Sound(c), Good(f, D, W, c),
         c.op = "rename", c.at = "attribute"
  PROVE  Good(f, Named(D, c), W, AfterEntry(c, TRUE))
<1> DEFINE D2 == Named(D, c)
           s == c.to
           o == c.slot
           d == Goto(c, "erase")
<1>1. /\ c \in Locals /\ Fits(W, c) /\ Tidy(f, D, W, {o}, {})
      /\ s \in Slots /\ D[s].kind # "free" /\ s # o
      /\ \A e \in Descriptors : W[e].open => W[e].slot # s
  BY DEF Sound, Good, View, Renaming, Emptying, Stage, Names, Fits
<1>2. Place(c) = s
  BY <1>1, PlaceIs
<1>3. D2[s] = NewEntry(c, D[s]) /\ \A t \in Slots : t # s => D2[t] = D[t]
  BY <1>1, <1>2, NamedAt
<1>4. D2[s].first_cluster = D[s].first_cluster
  <2>1. D[s] \in Entries
    BY <1>1 DEF Directories
  <2>2. NewEntry(c, D[s]) = [D[s] EXCEPT !.kind = c.kind]
    BY DEF NewEntry
  <2> QED
    BY <1>3, <2>1, <2>2 DEF Entries
<1>5. Same(c, d) /\ d.at = "erase" /\ d.buffer = <<>>
  BY <1>1 DEF Goto, Same, Locals
<1> HIDE DEF D2, s, o, d
<1>6. Tidy(f, D2, W, {o}, {})
  BY <1>1, <1>3, <1>4, KindKeeps
<1>7. Fits(W, d) /\ View(W, d) = W /\ Renaming(d) = {o} /\ Emptying(d) = {}
  BY <1>1, <1>5 DEF Fits, Same, View, Renaming, Emptying, o
<1>8. Stage(f, D2, W, {}, d)
  BY <1>1, <1>5, <1>7
     DEF Same, Stage, Buffered, Placed, Allocates, Frees, Walks, Names, FatWrites, DirWrites, s, o
<1> QED
  BY <1>6, <1>7, <1>8 DEF Good, AfterEntry, D2, d

\* Every write to the directory.
LEMMA NamedGood ==
  ASSUME NEW f, NEW D \in Directories, NEW W \in Heads, NEW c, Sound(c), Good(f, D, W, c),
         c.at \in DirWrites
  PROVE  Good(f, Named(D, c), W, AfterEntry(c, TRUE))
<1>1. /\ c.at = "entry" => c.op \in {"open", "write", "close", "mkdir", "rename"}
      /\ c.at = "attribute" => c.op = "rename"
      /\ c.at = "erase" => c.op \in {"rename", "unlink"}
  BY DEF Good, Stage, Placed
<1>2. CASE (c.op = "open" /\ c.at = "entry") \/ c.at = "erase"
  <2>1. AfterEntry(c, TRUE) = Return(c, TRUE)
    BY <1>1, <1>2 DEF AfterEntry
  <2> QED
    BY <1>2, <2>1, EmptyGood
<1>3. CASE ~((c.op = "open" /\ c.at = "entry") \/ c.at = "erase")
  BY <1>1, <1>3, OpenEntryGood, DirectoryEntryGood, NewNameGood, AttributeGood DEF DirWrites
<1> QED
  BY <1>2, <1>3

-----------------------------------------------------------------------------
(* The accesses that read the directory, and the sectors read to be written.*)

\* A sector has been read.
LEMMA BufferGood ==
  ASSUME NEW f, NEW D, NEW W, NEW c \in Locals, Good(f, D, W, c), NEW b,
         \/ c.at \in FatWrites /\ b = f
         \/ c.at \in DirWrites /\ b = D
  PROVE  Good(f, D, W, [c EXCEPT !.buffer = b])
<1> DEFINE d == [c EXCEPT !.buffer = b]
<1>1. /\ Same(c, d) /\ d.at = c.at /\ d.ok = c.ok /\ d.kind = c.kind /\ d.size = c.size
      /\ d.cluster = c.cluster /\ d.next = c.next /\ d.found = c.found /\ d.first = c.first
      /\ d.previous = c.previous /\ d.tail = c.tail /\ d.buffer = b
  BY DEF Same, Locals
<1> HIDE DEF d
<1>2. Renaming(d) = Renaming(c) /\ Emptying(d) = Emptying(c)
  BY <1>1 DEF Same, Renaming, Emptying
<1>3. View(W, d) = View(W, c) /\ (Fits(W, c) => Fits(W, d))
  BY <1>1 DEF Same, View, Left, Fits
<1> DEFINE V == View(W, c)
           G == Emptying(c)
<1>4. Stage(f, D, V, G, c)
  BY DEF Good
<1> HIDE DEF V, G
<1>5. Buffered(f, D, d)
  BY <1>1 DEF Buffered, FatWrites, DirWrites
<1>6. Placed(d) /\ Allocates(f, D, V, d)
  BY <1>1, <1>4 DEF Same, Stage, Placed, Allocates
<1>7. Frees(f, D, V, G, d) /\ Walks(f, d)
  BY <1>1, <1>4 DEF Same, Stage, Frees, Walks
<1>8. Names(D, V, d)
  BY <1>1, <1>4 DEF Same, Stage, Names
<1> QED
  BY <1>2, <1>3, <1>5, <1>6, <1>7, <1>8 DEF Good, Stage, d, V, G

\* Nothing but its entry leads to the chain of a file that is not open.
LEMMA ChainIsLoose ==
  ASSUME NEW f, NEW D, NEW V, Tidy(f, D, V, {}, {}), NEW s \in Slots,
         D[s].kind # "free", D[s].first_cluster \in Clusters,
         \A d \in Descriptors : V[d].open => V[d].slot # s
  PROVE  Loose(f, D, V, {s}, D[s].first_cluster)
<1> DEFINE k == D[s].first_cluster
<1>1. s \in Leads(D, {}, k)
  BY DEF Leads
<1> HIDE DEF k
<1>2. k \in Clusters
  BY DEF k
<1>3. Leads(D, {}, k) \subseteq {s} /\ Preds(f, k) = {} /\ f[k] # None
  BY <1>1, <1>2 DEF Tidy, Apart, FreeIsUnled
<1>4. \A d \in Descriptors : V[d].open => V[d].first_cluster # k
  BY <1>1, <1>2 DEF Tidy, Headed
<1> QED
  BY <1>2, <1>3, <1>4 DEF Loose, k

LEMMA ToBeEmptied ==
  ASSUME NEW f, NEW D, NEW V, NEW G, Tidy(f, D, V, {}, {})
  PROVE  Tidy(f, D, V, {}, G)
BY DEF Tidy, FreeIsUnled

\* The entry has been read into u.
LEMMA OpenedGood ==
  ASSUME NEW f, NEW D, NEW W \in Heads, NEW u \in Locals, Fits(W, u), Tidy(f, D, W, {}, {}),
         u.op \in {"open", "unlink", "rename"}, u.kind = D[u.slot].kind,
         u.chain = D[u.slot].first_cluster, u.kind # "free"
  PROVE  /\ u.op = "open" /\ u.kind = "file" => Good(f, D, W, Return(u, TRUE))
         /\ u.op = "open" /\ u.kind = "file" /\ u.chain = None =>
              Good(f, D, W, [Goto(u, "entry") EXCEPT !.size = 0])
         /\ u.op = "unlink" \/ (u.op = "open" /\ u.kind = "file") =>
              (u.chain # None => Good(f, D, W, freechain(u, u.chain)))
         /\ u.op = "unlink" => Good(f, D, W, Goto(u, "erase"))
         /\ u.op = "rename" => Good(f, D, W, Goto(u, "place"))
<1>1. ASSUME u.op = "open", u.kind = "file"
      PROVE  Good(f, D, W, Return(u, TRUE))
  BY <1>1, ReturnsGood
<1>2. ASSUME u.op = "open", u.kind = "file", u.chain = None
      PROVE  Good(f, D, W, [Goto(u, "entry") EXCEPT !.size = 0])
  <2> DEFINE d == [Goto(u, "entry") EXCEPT !.size = 0]
  <2>1. Same(u, d) /\ d.at = "entry" /\ d.buffer = <<>>
    BY DEF Goto, Same, Locals
  <2> HIDE DEF d
  <2>2. /\ Emptying(d) = {u.slot} /\ Renaming(d) = {} /\ Fits(W, d) /\ View(W, d) = W
        /\ Tidy(f, D, W, {}, {u.slot})
    BY <1>2, <2>1, ToBeEmptied DEF Same, Emptying, Renaming, Fits, View
  <2>3. Stage(f, D, W, {u.slot}, d)
    BY <1>2, <2>1
       DEF Same, Stage, Buffered, Placed, Allocates, Frees, Walks, Names, FatWrites, DirWrites
  <2> QED
    BY <2>2, <2>3 DEF Good, d
<1>3. ASSUME u.op = "unlink" \/ (u.op = "open" /\ u.kind = "file"), u.chain # None
      PROVE  Good(f, D, W, freechain(u, u.chain))
  <2> DEFINE d == freechain(u, u.chain)
  <2>1. /\ Same(u, d) /\ d.at = "free" /\ d.cluster = u.chain /\ d.found = 0
        /\ d.buffer = <<>>
    BY DEF freechain, Goto, Same, Locals
  <2> HIDE DEF d
  <2>2. /\ u.chain \in Clusters /\ u.slot \in Slots
        /\ \A e \in Descriptors : W[e].open => W[e].slot # u.slot
    BY <1>3 DEF Locals, OptionalClusters, Fits
  <2>3. Loose(f, D, W, {u.slot}, u.chain)
    BY <2>2, ChainIsLoose
  <2>4. /\ Emptying(d) = {u.slot} /\ Renaming(d) = {} /\ Fits(W, d) /\ View(W, d) = W
        /\ Tidy(f, D, W, {}, {u.slot})
    BY <1>3, <2>1, ToBeEmptied DEF Same, Emptying, Renaming, Fits, View
  <2>5. 0 <= Cardinality(Zeros(f))
    BY ZerosCount
  <2>6. Stage(f, D, W, {u.slot}, d)
    BY <1>3, <2>1, <2>3, <2>5
       DEF Same, Stage, Buffered, Placed, Allocates, Frees, Walks, Names, FatWrites, DirWrites
  <2> QED
    BY <2>4, <2>6 DEF Good, d
<1>4. ASSUME u.op = "unlink"
      PROVE  Good(f, D, W, Goto(u, "erase"))
  <2>1. View(W, u) = W
    BY <1>4 DEF View
  <2>2. Tidy(f, D, View(W, u), {}, {u.slot})
    BY <2>1, ToBeEmptied
  <2> QED
    BY <1>4, <2>2, EmptiedGood
<1>5. ASSUME u.op = "rename"
      PROVE  Good(f, D, W, Goto(u, "place"))
  <2> DEFINE d == Goto(u, "place")
  <2>1. Same(u, d) /\ d.at = "place" /\ d.kind = u.kind
    BY DEF Goto, Same, Locals
  <2> HIDE DEF d
  <2>2. Emptying(d) = {} /\ Renaming(d) = {} /\ Fits(W, d) /\ View(W, d) = W
    BY <1>5, <2>1 DEF Same, Emptying, Renaming, Fits, View
  <2>3. Stage(f, D, W, {}, d)
    BY <1>5, <2>1
       DEF Same, Stage, Buffered, Placed, Allocates, Frees, Walks, Names, FatWrites, DirWrites
  <2> QED
    BY <2>2, <2>3 DEF Good, d
<1> QED
  BY <1>1, <1>2, <1>3, <1>4, <1>5

\* mkdir and rename have found a place for their entry.
LEMMA PlacedGood ==
  ASSUME NEW f, NEW D, NEW W \in Heads, NEW c \in Locals, Good(f, D, W, c), c.at = "place",
         NEW t \in Slots, D[t].kind = "free"
  PROVE  Good(f, D, W, [Goto(c, "entry") EXCEPT !.to = t])
<1>1. c.op \in {"mkdir", "rename"} /\ View(W, c) = W /\ Renaming(c) = {} /\ Emptying(c) = {}
  BY DEF Good, Stage, Placed, View, Renaming, Emptying
<1> DEFINE d == [Goto(c, "entry") EXCEPT !.to = t]
<1>2. /\ d.op = c.op /\ d.fd = c.fd /\ d.slot = c.slot /\ d.chain = c.chain /\ d.first = c.first
      /\ d.kind = c.kind /\ d.to = t /\ d.at = "entry" /\ d.buffer = <<>>
  BY DEF Goto, Locals
<1> HIDE DEF d
<1>3. Fits(W, d) /\ View(W, d) = W /\ Renaming(d) = {} /\ Emptying(d) = {}
  BY <1>1, <1>2 DEF Good, Fits, View, Renaming, Emptying
<1>4. Stage(f, D, W, {}, c)
  BY <1>1 DEF Good
<1>5. Stage(f, D, W, {}, d)
  BY <1>1, <1>2, <1>4
     DEF Stage, Buffered, Placed, Allocates, Frees, Walks, Names, FatWrites, DirWrites
<1>6. Good(f, D, W, d)
  BY <1>1, <1>3, <1>5 DEF Good
<1> QED
  BY <1>6 DEF d

\* They have found none.
LEMMA NoPlaceGood ==
  ASSUME NEW f, NEW D, NEW W \in Heads, NEW c \in Locals, Good(f, D, W, c), c.at = "place"
  PROVE  Good(f, D, W, Return(c, FALSE))
<1>1. c.op \in {"mkdir", "rename"}
  BY DEF Good, Stage, Placed
<1>2. CASE c.op = "mkdir"
  <2>1. Quiet(f, D, W, c)
    BY <1>2, GoodIsQuiet
  <2> QED
    BY <2>1, ReturnGood
<1>3. CASE c.op = "rename"
  <2>1. Tidy(f, D, W, {}, {}) /\ Fits(W, c)
    BY <1>3 DEF Good, View, Renaming, Emptying
  <2> QED
    BY <1>3, <2>1, ReturnsGood
<1> QED
  BY <1>1, <1>2, <1>3

-----------------------------------------------------------------------------
(* The calls begin and return.                                             *)

LEMMA IdleIsTidy ==
  ASSUME NEW f, NEW D, NEW W
  PROVE  Good(f, D, W, Idle) <=> Tidy(f, D, W, {}, {})
<1>1. View(W, Idle) = W /\ Renaming(Idle) = {} /\ Emptying(Idle) = {} /\ Fits(W, Idle)
  BY DEF Idle, View, Renaming, Emptying, Fits
<1>2. Stage(f, D, W, {}, Idle)
  BY DEF Idle, Stage, Buffered, Placed, Allocates, Frees, Walks, Names, FatWrites, DirWrites
<1> QED
  BY <1>1, <1>2 DEF Good

\* open, unlink and rename begin.
LEMMA LookupBegins ==
  ASSUME NEW f, NEW D, NEW W, Tidy(f, D, W, {}, {}), NEW d, Fits(W, d),
         d.op \in {"open", "unlink", "rename"}, d.at = "lookup"
  PROVE  Good(f, D, W, d)
<1>1. View(W, d) = W /\ Renaming(d) = {} /\ Emptying(d) = {}
  BY DEF View, Renaming, Emptying
<1>2. Stage(f, D, W, {}, d)
  BY DEF Stage, Buffered, Placed, Allocates, Frees, Walks, Names, FatWrites, DirWrites
<1> QED
  BY <1>1, <1>2 DEF Good

LEMMA mkdirBegins ==
  ASSUME NEW f, NEW D, NEW W \in Heads, Tidy(f, D, W, {}, {})
  PROVE  Good(f, D, W, allocchain([Idle EXCEPT !.op = "mkdir"], 1, None))
<1> DEFINE u == [Idle EXCEPT !.op = "mkdir"]
<1>1. Idle \in Locals /\ "mkdir" \in Operations
  BY IdleIsSound DEF Sound, Operations
<1>2. u \in Locals /\ u.op = "mkdir"
  BY <1>1 DEF Locals
<1> HIDE DEF u
<1>3. Quiet(f, D, W, u)
  BY <1>2 DEF Quiet, Fits, View
<1>4. Good(f, D, W, allocchain(u, 1, None))
  BY <1>2, <1>3, allocchainGood
<1> QED
  BY <1>4 DEF u

\* A write has the fields of its descriptor.
LEMMA writeBegins ==
  ASSUME NEW f, NEW D, NEW W \in Heads, Tidy(f, D, W, {}, {}), NEW d \in Descriptors,
         W[d].open, NEW c, c.op = "write", c.fd = d, c.slot = W[d].slot, c.to = 0,
         c.chain = W[d].first_cluster, c.size = W[d].size
  PROVE  Quiet(f, D, W, c)
<1>1. W[d] \in OpenFiles
  BY DEF Heads
<1>2. W[d] = Left(c)
  BY <1>1 DEF OpenFiles, Left
<1>3. View(W, c) = W
  BY <1>2 DEF View, Heads
<1> QED
  BY <1>3 DEF Quiet, Fits

LEMMA closeBegins ==
  ASSUME NEW f, NEW D, NEW W, Tidy(f, D, W, {}, {}), NEW c, Fits(W, c),
         c.op = "close", c.at = "entry", c.buffer = <<>>
  PROVE  Good(f, D, W, c)
<1>1. View(W, c) = W /\ Renaming(c) = {} /\ Emptying(c) = {}
  BY DEF View, Renaming, Emptying
<1>2. Stage(f, D, W, {}, c)
  BY DEF Stage, Buffered, Placed, Allocates, Frees, Walks, Names, FatWrites, DirWrites
<1> QED
  BY <1>1, <1>2 DEF Good

\* The descriptors when a call has returned.
After(W, c) ==
  CASE c.op = "write" \/ (c.op = "open" /\ c.ok) -> [W EXCEPT ![c.fd] = Left(c)]
    [] c.op = "close" -> [W EXCEPT ![c.fd] = Closed]
    [] OTHER -> W

LEMMA OpenKeeps ==
  ASSUME NEW f, NEW D, NEW W \in Heads, NEW c, Tidy(f, D, W, {}, {}), Fits(W, c),
         c.op = "open", D[c.slot].kind = "file", D[c.slot].first_cluster = c.chain,
         NEW V, V = [W EXCEPT ![c.fd] = Left(c)]
  PROVE  Tidy(f, D, V, {}, {})
<1> DEFINE s == c.slot
           k == c.chain
           o == c.fd
<1>1. /\ o \in Descriptors /\ ~W[o].open /\ s \in Slots
      /\ \A d \in Descriptors : W[d].open => W[d].slot # s
  BY DEF Fits
<1>2. /\ V[o].open /\ V[o].slot = s /\ V[o].first_cluster = k
      /\ \A d \in Descriptors : d # o => V[d] = W[d]
  BY <1>1 DEF Left, Heads
<1>3. D[s].kind = "file" /\ D[s].first_cluster = k
  OBVIOUS
<1> HIDE DEF s, k, o
<1>4. k \in Clusters => s \in Leads(D, {}, k)
  BY <1>1, <1>3 DEF Leads
<1>5. k \in Clusters => Preds(f, k) = {} /\ f[k] # None /\ Leads(D, {}, k) \subseteq {s}
  BY <1>4 DEF Tidy, Apart, FreeIsUnled
<1>6. k \in Clusters => \A d \in Descriptors : W[d].open => W[d].first_cluster # k
  BY <1>1, <1>4 DEF Tidy, Headed
<1>7. Headed(f, D, V, {})
  <2> SUFFICES ASSUME NEW d \in Descriptors, V[d].open
               PROVE  /\ V[d].slot \in Slots \ {} /\ D[V[d].slot].kind = "file"
                      /\ D[V[d].slot].first_cluster \in {None, V[d].first_cluster}
                      /\ V[d].first_cluster \in Clusters =>
                           /\ Preds(f, V[d].first_cluster) = {} /\ f[V[d].first_cluster] # None
                           /\ Leads(D, {}, V[d].first_cluster) \subseteq {V[d].slot}
    BY DEF Headed
  <2>1. CASE d = o
    BY <1>1, <1>2, <1>3, <1>5, <2>1
  <2>2. CASE d # o
    BY <1>2, <2>2 DEF Tidy, Headed
  <2> QED
    BY <2>1, <2>2
<1>8. Distinct(V)
  BY <1>1, <1>2, <1>6 DEF Tidy, Distinct
<1> QED
  BY <1>7, <1>8 DEF Tidy

LEMMA ReturnsTidy ==
  ASSUME NEW f, NEW D, NEW W \in Heads, NEW c, Good(f, D, W, c), c.at = "return"
  PROVE  Tidy(f, D, After(W, c), {}, {})
<1>1. /\ Fits(W, c) /\ Tidy(f, D, View(W, c), {}, {})
      /\ c.op = "open" /\ c.ok => D[c.slot].kind = "file" /\ D[c.slot].first_cluster = c.chain
  BY DEF Good, Renaming, Emptying, Stage, Names
<1>2. CASE c.op = "write"
  BY <1>1, <1>2 DEF After, View
<1>3. CASE c.op = "open" /\ c.ok
  <2>1. After(W, c) = [W EXCEPT ![c.fd] = Left(c)]
    BY <1>3 DEF After
  <2>2. Tidy(f, D, W, {}, {})
    BY <1>1, <1>3 DEF View
  <2>3. /\ Fits(W, c) /\ c.op = "open"
        /\ D[c.slot].kind = "file" /\ D[c.slot].first_cluster = c.chain
    BY <1>1, <1>3
  <2> QED
    BY <2>1, <2>2, <2>3, OpenKeeps
<1>4. CASE c.op = "close"
  <2> DEFINE V == [W EXCEPT ![c.fd] = Closed]
  <2>1. After(W, c) = V
    BY <1>4 DEF After
  <2>2. Tidy(f, D, W, {}, {})
    BY <1>1, <1>4 DEF View
  <2>3. \A d \in Descriptors : V[d].open => V[d] = W[d]
    BY DEF Heads, Closed
  <2> HIDE DEF V
  <2>4. Headed(f, D, V, {}) /\ Distinct(V)
    BY <2>2, <2>3 DEF Tidy, Headed, Distinct
  <2> QED
    BY <2>1, <2>2, <2>4 DEF Tidy
<1>5. CASE c.op \notin {"write", "close"} /\ ~(c.op = "open" /\ c.ok)
  BY <1>1, <1>5 DEF After, View
<1> QED
  BY <1>2, <1>3, <1>4, <1>5

-----------------------------------------------------------------------------
(* The steps of one task that has the volume to itself.                    *)

\* One task uses the volume, it keeps the rules for open files, and nothing fails.
Alone(p) ==
  Callers = {p} /\ Disciplined /\ MaxFaults = 0 /\ MaxBadReads = 0

CallIsGood(p) == Good(fat, dir, fd_table, call[p])

LEMMA AloneAndTyped ==
  ASSUME TypeInv, NEW p, Alone(p)
  PROVE  /\ p \in Callers /\ Sound(call[p]) /\ call[p] \in Locals
         /\ call \in [Callers -> Locals] /\ fat \in Tables /\ dir \in Directories
         /\ fd_table \in Heads /\ faults = 0 /\ badReads = 0
BY DEF TypeInv, VolumeTyped, Alone, Sound, Tables, Directories, Heads

LEMMA StepIsGood ==
  ASSUME TypeInv, NEW p, Alone(p), NEW c, Step(p, c), Good(fat', dir', fd_table, c)
  PROVE  CallIsGood(p)'
BY AloneAndTyped DEF Step, CallIsGood

LEMMA ReadsGood ==
  ASSUME TypeInv, NEW p, Alone(p), CallIsGood(p),
         Scan(p) \/ ReadToFree(p) \/ chain_length(p) \/ get_nth_cluster(p) \/ ReadToCut(p)
  PROVE  CallIsGood(p)'
<1> DEFINE c == call[p]
           v == fat[c.cluster]
<1>1. /\ Sound(c) /\ fat \in Tables /\ dir \in Directories /\ fd_table \in Heads
      /\ badReads = 0 /\ MaxBadReads = 0
  BY AloneAndTyped DEF Alone
<1>2. Good(fat, dir, fd_table, c)
  BY DEF CallIsGood
<1>3. \A u \in Links : readcluster(c.cluster, u) => u = v
  BY <1>1 DEF readcluster
<1>4. UNCHANGED <<fat, dir>>
  BY DEF Scan, ReadToFree, chain_length, get_nth_cluster, ReadToCut, Reads
<1> HIDE DEF c, v
<1>5. ASSUME NEW d, Step(p, d), Good(fat, dir, fd_table, d)
      PROVE  CallIsGood(p)'
  BY <1>4, <1>5, StepIsGood
<1>6. CASE Scan(p)
  <2>1. Step(p, Scanned(c, v)) /\ c.at = "scan"
    BY <1>3, <1>6 DEF Scan, Reads, At, c
  <2> QED
    BY <1>1, <1>2, <1>5, <2>1, ScannedGood DEF v
<1>7. CASE ReadToFree(p)
  <2>1. Step(p, ToClear(c, v)) /\ c.at = "free"
    BY <1>3, <1>7 DEF ReadToFree, Reads, At, c
  <2> QED
    BY <1>1, <1>2, <1>5, <2>1, ToClearGood DEF v
<1>8. CASE chain_length(p)
  <2>1. Step(p, Counted(c, v)) /\ c.at = "length"
    BY <1>3, <1>8 DEF chain_length, Reads, At, c
  <2> QED
    BY <1>1, <1>2, <1>5, <2>1, CountedGood DEF v
<1>9. CASE get_nth_cluster(p)
  <2>1. Step(p, Walked(c, v)) /\ c.at = "nth"
    BY <1>3, <1>9 DEF get_nth_cluster, Reads, At, c
  <2> QED
    BY <1>1, <1>2, <1>5, <2>1, WalkedGood DEF v
<1>10. CASE ReadToCut(p)
  <2>1. Step(p, ToCut(c, v)) /\ c.at = "next"
    BY <1>3, <1>10 DEF ReadToCut, Reads, At, c
  <2> QED
    BY <1>1, <1>2, <1>5, <2>1, ToCutGood DEF v
<1> QED
  BY <1>6, <1>7, <1>8, <1>9, <1>10

LEMMA WritesGood ==
  ASSUME TypeInv, NEW p, Alone(p), CallIsGood(p),
         ReadSector(p) \/ writecluster(p) \/ ReadDirectory(p) \/ WriteDirectory(p)
  PROVE  CallIsGood(p)'
<1> DEFINE c == call[p]
<1>1. Sound(c) /\ c \in Locals /\ fat \in Tables /\ dir \in Directories /\ fd_table \in Heads
  BY AloneAndTyped
<1>2. Good(fat, dir, fd_table, c)
  BY DEF CallIsGood
<1>3. c.at \in FatWrites => c.buffer \in {<<>>, fat}
  BY <1>2 DEF Good, Stage, Buffered
<1>4. c.at \in DirWrites => c.buffer \in {<<>>, dir}
  BY <1>2 DEF Good, Stage, Buffered
<1> HIDE DEF c
<1>5. CASE ReadSector(p)
  <2>1. /\ c.at \in FatWrites /\ Step(p, [c EXCEPT !.buffer = fat]) /\ UNCHANGED <<fat, dir>>
    BY <1>5 DEF ReadSector, c
  <2>2. Good(fat, dir, fd_table, [c EXCEPT !.buffer = fat])
    BY <1>1, <1>2, <2>1, BufferGood
  <2> QED
    BY <2>1, <2>2, StepIsGood
<1>6. CASE writecluster(p)
  <2>1. /\ c.at \in FatWrites /\ c.buffer = fat /\ Store(c) /\ Step(p, Written(c))
        /\ UNCHANGED dir
    BY <1>3, <1>6 DEF writecluster, c
  <2>2. fat' = Stored(fat, c)
    BY <2>1 DEF Store, Stored
  <2>3. Good(Stored(fat, c), dir, fd_table, Written(c))
    BY <1>1, <1>2, <2>1, StoredGood
  <2> QED
    BY <2>1, <2>2, <2>3, StepIsGood
<1>7. CASE ReadDirectory(p)
  <2>1. /\ c.at \in DirWrites /\ Step(p, [c EXCEPT !.buffer = dir]) /\ UNCHANGED <<fat, dir>>
    BY <1>7 DEF ReadDirectory, c
  <2>2. Good(fat, dir, fd_table, [c EXCEPT !.buffer = dir])
    BY <1>1, <1>2, <2>1, BufferGood
  <2> QED
    BY <2>1, <2>2, StepIsGood
<1>8. CASE WriteDirectory(p)
  <2>1. /\ c.at \in DirWrites /\ c.buffer = dir /\ Step(p, AfterEntry(c, TRUE)) /\ UNCHANGED fat
        /\ dir' = [c.buffer EXCEPT ![Place(c)] = NewEntry(c, c.buffer[Place(c)])]
    BY <1>4, <1>8 DEF WriteDirectory, c
  <2>2. dir' = Named(dir, c)
    BY <2>1 DEF Named
  <2>3. Good(fat, Named(dir, c), fd_table, AfterEntry(c, TRUE))
    BY <1>1, <1>2, <2>1, NamedGood
  <2> QED
    BY <2>1, <2>2, <2>3, StepIsGood
<1> QED
  BY <1>5, <1>6, <1>7, <1>8

LEMMA LookupGood ==
  ASSUME TypeInv, NEW p, Alone(p), CallIsGood(p), Lookup(p)
  PROVE  CallIsGood(p)'
<1> DEFINE c == call[p]
           e == dir[c.slot]
           u == [c EXCEPT !.kind = e.kind, !.chain = e.first_cluster,
                          !.size = e.size, !.gap = FALSE]
<1>1. Sound(c) /\ c \in Locals /\ dir \in Directories /\ fd_table \in Heads
  BY AloneAndTyped
<1>2. /\ c.at = "lookup" /\ c.op \in {"open", "unlink", "rename"} /\ c.slot \in Slots
      /\ UNCHANGED <<fat, dir>>
  BY <1>1 DEF Lookup, At, Sound, Ready
<1>3. Fits(fd_table, c) /\ Tidy(fat, dir, fd_table, {}, {})
  BY <1>2 DEF CallIsGood, Good, View, Renaming, Emptying
<1>4. /\ e.kind \in {"free", "file", "directory"} /\ e.first_cluster \in OptionalClusters
      /\ e.size \in Sizes
  BY <1>1, <1>2 DEF Directories, Entries, Kinds, OptionalClusters, Sizes
<1>5. u \in Locals
  <2>1. e.kind \in Kinds
    BY <1>4 DEF Kinds
  <2>2. [c EXCEPT !.kind = e.kind, !.chain = e.first_cluster] \in Locals
    BY <1>1, <1>4, <2>1, Updates
  <2>3. ASSUME NEW d \in Locals PROVE [d EXCEPT !.size = e.size, !.gap = FALSE] \in Locals
    BY <1>4, Updates
  <2> QED
    BY <2>2, <2>3
<1>6. /\ u.op = c.op /\ u.fd = c.fd /\ u.slot = c.slot /\ u.to = c.to /\ u.kind = e.kind
      /\ u.chain = e.first_cluster
  BY <1>1 DEF Locals
<1>7. ASSUME NEW d, Step(p, d), Good(fat, dir, fd_table, d)
      PROVE  CallIsGood(p)'
  BY <1>2, <1>7, StepIsGood
<1>8. CASE e.kind = "free" \/ (c.op = "open" /\ e.kind = "directory")
  <2>1. Step(p, Return(c, FALSE))
    BY <1>8 DEF Lookup
  <2> HIDE DEF c
  <2>2. Good(fat, dir, fd_table, Return(c, FALSE))
    BY <1>1, <1>2, <1>3, ReturnsGood
  <2> QED
    BY <1>7, <2>1, <2>2
<1>9. CASE ~(e.kind = "free" \/ (c.op = "open" /\ e.kind = "directory"))
  <2> DEFINE one == Return(u, TRUE)
             two == [Goto(u, "entry") EXCEPT !.size = 0]
             three == freechain(u, e.first_cluster)
             four == Goto(u, "erase")
             five == Goto(u, "place")
  <2>1. c.op = "open" => /\ e.kind = "file"
                         /\ Step(p, IF ~c.gap THEN one
                                    ELSE IF e.first_cluster = None THEN two ELSE three)
    BY <1>4, <1>9 DEF Lookup
  <2>2. c.op = "unlink" => Step(p, IF e.first_cluster = None THEN four ELSE three)
    BY <1>9 DEF Lookup
  <2>3. c.op = "rename" => Step(p, five)
    BY <1>9 DEF Lookup
  <2> HIDE DEF c, e, u
  <2>4. Fits(fd_table, u)
    BY <1>2, <1>3, <1>6 DEF Fits
  <2>5. u.op \in {"open", "unlink", "rename"} /\ u.kind # "free"
    BY <1>2, <1>6, <1>9
  <2>6. u.kind = dir[u.slot].kind /\ u.chain = dir[u.slot].first_cluster
    BY <1>6 DEF e
  <2>7. /\ u.op = "open" /\ u.kind = "file" => Good(fat, dir, fd_table, one)
        /\ u.op = "open" /\ u.kind = "file" /\ u.chain = None => Good(fat, dir, fd_table, two)
        /\ u.op = "unlink" \/ (u.op = "open" /\ u.kind = "file") =>
             (u.chain # None => Good(fat, dir, fd_table, freechain(u, u.chain)))
        /\ u.op = "unlink" => Good(fat, dir, fd_table, four)
        /\ u.op = "rename" => Good(fat, dir, fd_table, five)
    BY <1>1, <1>3, <1>5, <2>4, <2>5, <2>6, OpenedGood
  <2>8. three = freechain(u, u.chain)
    BY <1>6
  <2> HIDE DEF one, two, three, four, five
  <2>9. CASE c.op = "open"
    <3>1. \/ Step(p, one)
          \/ Step(p, two) /\ u.chain = None
          \/ Step(p, three) /\ u.chain # None
      BY <1>6, <2>1, <2>9
    <3> QED
      BY <1>6, <1>7, <2>1, <2>7, <2>8, <2>9, <3>1
  <2>10. CASE c.op = "unlink"
    <3>1. Step(p, four) \/ (Step(p, three) /\ u.chain # None)
      BY <1>6, <2>2, <2>10
    <3> QED
      BY <1>6, <1>7, <2>7, <2>8, <2>10, <3>1
  <2>11. CASE c.op = "rename"
    BY <1>6, <1>7, <2>3, <2>7, <2>11
  <2> QED
    BY <1>2, <2>9, <2>10, <2>11
<1> QED
  BY <1>8, <1>9

LEMMA findfreeslotsGood ==
  ASSUME TypeInv, NEW p, Alone(p), CallIsGood(p), findfreeslots(p)
  PROVE  CallIsGood(p)'
<1> DEFINE c == call[p]
           free == {s \in Slots : dir[s].kind = "free"}
           t == Least(free)
<1>1. /\ c \in Locals /\ c.at = "place" /\ Good(fat, dir, fd_table, c) /\ fd_table \in Heads
      /\ UNCHANGED <<fat, dir>>
  BY AloneAndTyped DEF findfreeslots, At, CallIsGood
<1>2. CASE free = {}
  <2>1. Step(p, Return(c, FALSE))
    BY <1>2 DEF findfreeslots
  <2> HIDE DEF c
  <2>2. Good(fat, dir, fd_table, Return(c, FALSE))
    BY <1>1, NoPlaceGood
  <2> QED
    BY <1>1, <2>1, <2>2, StepIsGood
<1>3. CASE free # {}
  <2>1. Step(p, [Goto(c, "entry") EXCEPT !.to = t])
    BY <1>3 DEF findfreeslots
  <2>2. t \in free
    BY <1>3, LeastIsIn, FatAssumption
  <2>3. t \in Slots /\ dir[t].kind = "free"
    BY <2>2
  <2> HIDE DEF c, t
  <2>4. Good(fat, dir, fd_table, [Goto(c, "entry") EXCEPT !.to = t])
    BY <1>1, <2>3, PlacedGood
  <2> QED
    BY <1>1, <2>1, <2>4, StepIsGood
<1> QED
  BY <1>2, <1>3

LEMMA ReturnsIsGood ==
  ASSUME TypeInv, NEW p, Alone(p), CallIsGood(p), Returns(p)
  PROVE  CallIsGood(p)'
<1> DEFINE c == call[p]
<1>1. c.at = "return" /\ Good(fat, dir, fd_table, c) /\ fd_table \in Heads
  BY AloneAndTyped DEF Returns, At, CallIsGood
<1>2. fd_table' = After(fd_table, c) /\ UNCHANGED <<fat, dir>>
  BY DEF Returns, After
<1>3. call'[p] = Idle
  BY AloneAndTyped DEF Returns
<1> HIDE DEF c
<1>4. Tidy(fat, dir, After(fd_table, c), {}, {})
  BY <1>1, ReturnsTidy
<1>5. Good(fat, dir, After(fd_table, c), Idle)
  BY <1>4, IdleIsTidy
<1> QED
  BY <1>2, <1>3, <1>5 DEF CallIsGood

LEMMA BeginGood ==
  ASSUME TypeInv, NEW p, Alone(p), CallIsGood(p), Begin(p)
  PROVE  CallIsGood(p)'
<1>0. fd_table \in Heads /\ p \in Callers /\ Idle \in Locals /\ Disciplined
  BY AloneAndTyped, IdleIsSound DEF Sound, Alone
<1>1. ASSUME NEW d, Start(p, d),
             Tidy(fat, dir, fd_table, {}, {}) => Good(fat, dir, fd_table, d)
      PROVE  CallIsGood(p)'
  <2> DEFINE c == call[p]
  <2>1. c.at = "idle" /\ Good(fat, dir, fd_table, c)
    BY <1>1 DEF Start, At, CallIsGood
  <2>2. Step(p, d) /\ UNCHANGED <<fat, dir>>
    BY <1>1 DEF Start
  <2> HIDE DEF c
  <2>3. Tidy(fat, dir, fd_table, {}, {})
    BY <2>1 DEF Good, Stage, Placed, View, Renaming, Emptying
  <2> QED
    BY <1>1, <2>2, <2>3, StepIsGood
<1>2. ASSUME NEW s, Allowed(s)
      PROVE  \A d \in Descriptors : fd_table[d].open => fd_table[d].slot # s
  BY <1>0, <1>2 DEF Allowed, InUse
<1>3. CASE sys_open_handler(p)
  <2> DEFINE free == {d \in Descriptors : ~fd_table[d].open}
             o == Least(free)
  <2>1. PICK s \in Slots, truncate \in BOOLEAN :
          /\ free # {} /\ Allowed(s)
          /\ Start(p, [Goto(Idle, "lookup") EXCEPT
                         !.op = "open", !.fd = o, !.slot = s, !.gap = truncate])
    BY <1>3 DEF sys_open_handler
  <2>2. o \in free
    BY <2>1, LeastIsIn, FatAssumption
  <2>3. o \in Descriptors /\ ~fd_table[o].open
    BY <2>2
  <2> DEFINE d == [Goto(Idle, "lookup") EXCEPT
                     !.op = "open", !.fd = o, !.slot = s, !.gap = truncate]
  <2> HIDE DEF o
  <2>4. d.op = "open" /\ d.at = "lookup" /\ d.fd = o /\ d.slot = s /\ d.to = 0
    BY DEF Goto, Idle
  <2>5. Start(p, d)
    BY <2>1
  <2> HIDE DEF d
  <2>6. Fits(fd_table, d)
    BY <1>2, <2>1, <2>3, <2>4 DEF Fits
  <2> QED
    BY <1>1, <2>4, <2>5, <2>6, LookupBegins
<1>4. ASSUME NEW op \in {"unlink", "rename"}, NEW s \in Slots, Allowed(s),
             Start(p, [Goto(Idle, "lookup") EXCEPT !.op = op, !.slot = s])
      PROVE  CallIsGood(p)'
  <2> DEFINE d == [Goto(Idle, "lookup") EXCEPT !.op = op, !.slot = s]
  <2>1. d.op = op /\ d.at = "lookup" /\ d.slot = s /\ d.to = 0
    BY DEF Goto, Idle
  <2>2. Start(p, d)
    BY <1>4
  <2> HIDE DEF d
  <2>3. Fits(fd_table, d)
    BY <1>2, <1>4, <2>1 DEF Fits
  <2> QED
    BY <1>1, <2>1, <2>2, <2>3, LookupBegins
<1>5. CASE fat_unlink(p)
  BY <1>4, <1>5 DEF fat_unlink
<1>6. CASE fat_rename(p)
  BY <1>4, <1>6 DEF fat_rename
<1>7. CASE fat_mkdir(p)
  BY <1>0, <1>1, <1>7, mkdirBegins DEF fat_mkdir
<1>8. CASE fat_write(p)
  <2>1. PICK d \in Descriptors, n \in 1 .. MaxSize, m \in Sizes :
          LET f == fd_table[d]
              c == [Idle EXCEPT !.op = "write", !.fd = d, !.slot = f.slot,
                                !.chain = f.first_cluster, !.size = f.size, !.goal = n]
          IN  /\ fd_table[d].open
              /\ \/ Start(p, Resize([c EXCEPT !.count = n]))
                 \/ Start(p, resizechain([c EXCEPT !.count = m, !.position = m, !.gap = TRUE]))
    BY <1>8 DEF fat_write, Usable
  <2> DEFINE f == fd_table[d]
             c == [Idle EXCEPT !.op = "write", !.fd = d, !.slot = f.slot,
                               !.chain = f.first_cluster, !.size = f.size, !.goal = n]
             u == [c EXCEPT !.count = n]
             w == [c EXCEPT !.count = m, !.position = m, !.gap = TRUE]
  <2>2. f \in OpenFiles /\ f.open
    BY <1>0, <2>1 DEF Heads
  <2>3. f.slot \in Slots \cup {0} /\ f.first_cluster \in OptionalClusters /\ f.size \in Sizes
    BY <2>2 DEF OpenFiles
  <2>4. n \in Sizes
    BY FatAssumption DEF Sizes
  <2>5. Start(p, Resize(u)) \/ Start(p, resizechain(w))
    BY <2>1
  <2> HIDE DEF f
  <2>6. c \in Locals
    <3>1. "write" \in Operations /\ d \in Descriptors \cup {0}
      BY DEF Operations
    <3>2. [Idle EXCEPT !.op = "write", !.fd = d] \in Locals
      BY <1>0, <3>1, Updates
    <3>3. ASSUME NEW e \in Locals
          PROVE  [e EXCEPT !.slot = f.slot, !.chain = f.first_cluster] \in Locals
      BY <2>3, Updates
    <3>4. ASSUME NEW e \in Locals
          PROVE  [e EXCEPT !.size = f.size, !.goal = n] \in Locals
      BY <2>3, <2>4, Updates
    <3> QED
      BY <3>2, <3>3, <3>4
  <2>7. /\ c.op = "write" /\ c.fd = d /\ c.slot = f.slot /\ c.to = 0
        /\ c.chain = f.first_cluster /\ c.size = f.size
    BY DEF Idle
  <2> HIDE DEF c
  <2>8. Same(c, u) /\ u.size = c.size /\ Same(c, w) /\ w.size = c.size
    BY <2>6 DEF Same, Locals
  <2>9. u \in Locals
    BY <2>4, <2>6, Updates
  <2>10. w \in Locals
    <3>1. [c EXCEPT !.count = m, !.position = m] \in Locals
      BY <2>6, Updates
    <3>2. ASSUME NEW e \in Locals PROVE [e EXCEPT !.gap = TRUE] \in Locals
      BY Updates
    <3> QED
      BY <3>1, <3>2
  <2> HIDE DEF u, w
  <2>11. ASSUME Tidy(fat, dir, fd_table, {}, {})
         PROVE  Good(fat, dir, fd_table, Resize(u)) /\ Good(fat, dir, fd_table, resizechain(w))
    <3>1. Quiet(fat, dir, fd_table, c)
      BY <1>0, <2>2, <2>7, <2>11, writeBegins DEF f
    <3>2. /\ Quiet(fat, dir, fd_table, u) /\ Quiet(fat, dir, fd_table, w)
          /\ u.op = "write" /\ w.op = "write"
      BY <1>0, <2>7, <2>8, <3>1, QuietKept DEF Same
    <3>3. Good(fat, dir, fd_table, resizechain(u)) /\ Good(fat, dir, fd_table, resizechain(w))
      BY <1>0, <2>9, <2>10, <3>2, resizechainGood
    <3>4. Good(fat, dir, fd_table, Goto(u, "entry"))
      <4> DEFINE g == Goto(u, "entry")
      <4>1. Same(u, g) /\ g.at = "entry" /\ g.op = "write" /\ g.buffer = <<>>
        BY <2>9, <3>2 DEF Goto, Same, Locals
      <4> HIDE DEF g
      <4>2. Good(fat, dir, fd_table, g)
        BY <1>0, <3>2, <4>1, RestsGood
      <4> QED
        BY <4>2 DEF g
    <3> QED
      BY <3>3, <3>4 DEF Resize
  <2> QED
    BY <1>1, <2>5, <2>11
<1>9. CASE fat_close(p)
  <2>1. PICK d \in Descriptors :
          /\ fd_table[d].open
          /\ Start(p, [Goto(Idle, "entry") EXCEPT
                         !.op = "close", !.fd = d, !.slot = fd_table[d].slot,
                         !.chain = fd_table[d].first_cluster, !.size = fd_table[d].size])
    BY <1>9 DEF fat_close, Usable
  <2> DEFINE f == fd_table[d]
             c == [Goto(Idle, "entry") EXCEPT
                     !.op = "close", !.fd = d, !.slot = f.slot,
                     !.chain = f.first_cluster, !.size = f.size]
  <2>2. f.open /\ Start(p, c)
    BY <2>1
  <2> HIDE DEF f
  <2>3. /\ c.op = "close" /\ c.at = "entry" /\ c.buffer = <<>> /\ c.fd = d /\ c.to = 0
        /\ c.slot = f.slot /\ c.chain = f.first_cluster
    BY DEF Goto, Idle
  <2> HIDE DEF c
  <2>4. Fits(fd_table, c)
    BY <2>2, <2>3 DEF Fits, f
  <2> QED
    BY <1>1, <2>2, <2>3, <2>4, closeBegins
<1> QED
  BY <1>3, <1>5, <1>6, <1>7, <1>8, <1>9 DEF Begin

-----------------------------------------------------------------------------
(* The theorem.                                                            *)

LEMMA StartGood ==
  ASSUME NEW p, Alone(p), Init
  PROVE  CallIsGood(p)
<1>1. Idle = call[p]
  BY DEF Alone, Init
<1>2. \A k \in Clusters : Preds(fat, k) = {} /\ Leads(dir, {}, k) = {}
  BY NoCluster DEF Init, Preds, Leads, None
<1>3. \A d \in Descriptors : ~fd_table[d].open
  BY DEF Init, Closed
<1>4. Tidy(fat, dir, fd_table, {}, {})
  BY <1>2, <1>3 DEF Tidy, Apart, FreeIsUnled, Headed, Distinct
<1> QED
  BY <1>1, <1>4, IdleIsTidy DEF CallIsGood

LEMMA GoodStep ==
  ASSUME TypeInv, NEW p, Alone(p), CallIsGood(p), [Next]_vars
  PROVE  CallIsGood(p)'
<1>1. CASE UNCHANGED vars
  BY <1>1 DEF vars, CallIsGood
<1>2. CASE Next
  <2>1. faults = 0 /\ MaxFaults = 0 /\ \A q \in Callers : q = p
    BY AloneAndTyped DEF Alone
  <2>2. ~PowerCut /\ ~WriteFails(p) /\ ~WriteDirectoryFails(p) /\ ~TaskKilled(p)
    BY <2>1 DEF PowerCut, WriteFails, WriteDirectoryFails, TaskKilled
  <2>3. Begin(p) \/ Proceed(p)
    BY <1>2, <2>1, <2>2 DEF Next
  <2> QED
    BY <2>2, <2>3, BeginGood, ReadsGood, WritesGood, LookupGood, findfreeslotsGood,
       ReturnsIsGood DEF Proceed
<1> QED
  BY <1>1, <1>2

\* Two sets of which one is empty and the other has no two members.
LEMMA AtMostOne ==
  ASSUME NEW S, NEW T, \A s, t \in S : s = t, \A s, t \in T : s = t, S = {} \/ T = {}
  PROVE  Cardinality(S) + Cardinality(T) <= 1
<1>1. ASSUME NEW U, \A s, t \in U : s = t
      PROVE  Cardinality(U) \in {0, 1} /\ (U = {} => Cardinality(U) = 0)
  <2>1. CASE U = {}
    BY <2>1, FS_EmptySet
  <2>2. CASE U # {}
    <3>1. PICK u : U = {u}
      BY <1>1, <2>2
    <3> QED
      BY <2>2, <3>1, FS_Singleton
  <2> QED
    BY <2>1, <2>2
<1> QED
  BY <1>1

LEMMA GoodSharesNothing ==
  ASSUME TypeInv, NEW p, Alone(p), CallIsGood(p)
  PROVE  NoSharing
<1>1. Renamed = Renaming(call[p])
  BY DEF Alone, Renamed, Renaming
<1>2. \A k : Owners(k) = Leads(dir, Renaming(call[p]), k) /\ Predecessors(k) = Preds(fat, k)
  BY <1>1 DEF Owners, Leads, Predecessors, Preds
<1>3. Apart(fat, dir, Renaming(call[p]))
  BY DEF CallIsGood, Good, Tidy
<1> SUFFICES ASSUME NEW k \in Clusters
             PROVE  Cardinality(Owners(k)) + Cardinality(Predecessors(k)) <= 1
  BY DEF NoSharing
<1>4. /\ \A s, t \in Owners(k) : s = t
      /\ \A i, j \in Predecessors(k) : i = j
      /\ Owners(k) = {} \/ Predecessors(k) = {}
  BY <1>2, <1>3 DEF Apart
<1> QED
  BY <1>4, AtMostOne

\* While one task has the volume to itself, keeps the rules for open files and nothing
\* fails, a cluster follows one cluster, or is the first of one entry, or is neither:
\* no sequence of its calls, between or inside any two of them, makes two files or
\* directories share one.
THEOREM ClustersAreNotShared ==
  ASSUME NEW p, Alone(p)
  PROVE  Spec => []NoSharing
<1>1. Init => CallIsGood(p)
  BY StartGood
<1>2. TypeInv /\ CallIsGood(p) /\ [Next]_vars => CallIsGood(p)'
  BY GoodStep
<1>3. TypeInv /\ CallIsGood(p) => NoSharing
  BY GoodSharesNothing
<1> QED
  BY <1>1, <1>2, <1>3, TypeInvariant, PTL DEF Spec

-----------------------------------------------------------------------------
(* What a failed write, a killed task or a power cut leaves: no circle in  *)
(* the table, and nothing that leads to a free cluster but what freeing    *)
(* leaves.  What is said of a table f, a directory D, the descriptors W    *)
(* and the record c of the call, whatever the one task's programs do to    *)
(* open files.                                                             *)

\* The table has no circle: of any clusters there is one whose link leads to none of them.
Grounded(f) == \A S \in SUBSET Clusters : S # {} => \E x \in S : f[x] \notin S

\* No link leads out of S, and no cluster of S is free.
Shut(f, S) == S \subseteq Clusters /\ \A x \in S : f[x] \in Clusters => f[x] \in S
Used(f, S) == \A x \in S : f[x] # None

\* The call and its descriptor: the chain of a write is that of its descriptor, or is in use.
Holds(f, W, c) ==
  /\ c.op \in {"write", "close"} => c.fd \in Descriptors /\ W[c.fd].open
  /\ c.op = "close" => c.chain = W[c.fd].first_cluster
  /\ c.op = "write" => c.chain \in {None, W[c.fd].first_cluster} \/ f[c.chain] # None
  /\ c.op \in {"open", "write", "close", "unlink"} => c.to = 0

Steady(f, W, c) == Grounded(f) /\ Holds(f, W, c)

\* allocchain: the clusters taken are in use and lead to each other only, and
\* marking a free one is not marking the chain it is for.
Taken(f, S, others) ==
  \E N \in SUBSET Clusters : Shut(f, N) /\ Used(f, N) /\ S \subseteq N /\ others \cap N = {}

Tailed(f, c, tail) ==
  /\ tail = None => c.chain = None
  /\ tail # None => c.op = "write" /\ f[tail] # None /\ c.chain # None /\ f[c.chain] # None

Extends(f, c) == (c.first = None <=> c.previous = None) /\ Tailed(f, c, c.tail)

Gathers(f, c, others) ==
  Extends(f, c) /\ (c.first # None => Taken(f, {c.first, c.previous}, others))

Takes(f, c) ==
  /\ c.at \in {"scan", "mark"} => Gathers(f, c, {c.tail, c.chain})
  /\ c.at = "mark" => f[c.cluster] = None
  /\ c.at = "link" =>
       /\ Gathers(f, c, {c.tail, c.chain, c.cluster}) /\ c.first # None
       /\ f[c.cluster] = EOC /\ c.cluster \notin {c.tail, c.chain}
  /\ c.at = "append" =>
       c.tail # None /\ c.first # None /\ Taken(f, {c.first, c.previous}, {c.tail, c.chain})
  /\ c.op = "mkdir" /\ c.at \in {"place", "entry"} => c.first \in Clusters /\ f[c.first] # None

\* freechain: what a write frees does not lead back to its chain.
Away(f, k, chain) == \E Q \in SUBSET Clusters : Shut(f, Q) /\ k \in Q /\ chain \notin Q

Releases(f, c) ==
  /\ c.at \in {"free", "clear"} /\ c.op = "write" => Away(f, c.cluster, c.chain)
  /\ c.at = "clear" => c.next = f[c.cluster]

\* The walks along the chain of a write: what is behind is in use and leads here,
\* then all of it is in use, and what is ahead does not lead back.
Passed(f, c) ==
  \E P \in SUBSET Clusters :
    /\ Used(f, P) /\ c.chain \in P \cup {c.cluster}
    /\ \A x \in P : f[x] \in P \cup {c.cluster}

Within(f, S) == \E P \in SUBSET Clusters : Shut(f, P) /\ Used(f, P) /\ S \subseteq P

Ahead(f, k, chain) ==
  \E Q \in SUBSET Clusters : Shut(f, Q) /\ (f[k] \in Clusters => f[k] \in Q) /\ chain \notin Q

Follows(f, c) ==
  /\ c.at \in {"length", "nth", "next", "cut"} => c.cluster \in Clusters /\ c.chain \in Clusters
  /\ c.at = "length" => Passed(f, c)
  /\ c.at \in {"nth", "next"} => Within(f, {c.chain, c.cluster})
  /\ c.at \in {"nth", "next", "cut"} => Ahead(f, c.cluster, c.chain)
  /\ c.at = "cut" => c.next = f[c.cluster]

\* The entries that open, rename and mkdir write.
Renames(D, c) ==
  /\ c.op = "open" /\ c.at = "entry" => c.chain = None
  /\ c.op \in {"rename", "mkdir"} /\ c.at = "entry" => c.to \in Slots /\ D[c.to].kind = "free"
  /\ c.op = "rename" /\ c.at \in {"place", "entry"} =>
       /\ c.slot \in Slots /\ D[c.slot].kind # "free" /\ D[c.slot].first_cluster = c.chain
       /\ c.kind # "free"
  /\ c.op = "rename" /\ c.at \in {"attribute", "erase"} =>
       /\ {c.slot, c.to} \subseteq Slots /\ c.to # c.slot /\ D[c.to].kind # "free"
       /\ D[c.slot].kind # "free" => D[c.to].first_cluster = D[c.slot].first_cluster
  /\ c.op = "rename" /\ c.at = "attribute" => c.kind # "free"

Safe(f, D, W, c) ==
  /\ Steady(f, W, c) /\ Takes(f, c) /\ Releases(f, c) /\ Follows(f, c)
  /\ Renames(D, c) /\ Buffered(f, D, c) /\ Placed(c)

-----------------------------------------------------------------------------
(* Tables.                                                                 *)

\* Links are removed.
LEMMA FewerLinks ==
  ASSUME NEW f, NEW g, Grounded(f), \A x \in Clusters : g[x] = f[x] \/ g[x] \notin Clusters
  PROVE  Grounded(g)
<1> SUFFICES ASSUME NEW S \in SUBSET Clusters, S # {}
             PROVE  \E x \in S : g[x] \notin S
  BY DEF Grounded
<1>1. PICK x \in S : f[x] \notin S
  BY DEF Grounded
<1>2. g[x] \notin S
  BY <1>1
<1> QED
  BY <1>2

\* A cluster from which nothing leads to t is put after t.
LEMMA OneMoreLink ==
  ASSUME NEW f \in Tables, Grounded(f), NEW N, Shut(f, N), NEW k, k \in N,
         NEW t, t \notin N, NEW g, g = [f EXCEPT ![t] = k]
  PROVE  Grounded(g) /\ Shut(g, N)
<1>1. /\ \A x \in Clusters : x # t => g[x] = f[x]
      /\ t \in Clusters => g[t] = k
      /\ N \subseteq Clusters
  BY DEF Tables, Shut
<1>2. Shut(g, N)
  BY <1>1 DEF Shut
<1>3. ASSUME NEW S \in SUBSET Clusters, S # {}
      PROVE  \E x \in S : g[x] \notin S
  <2>1. CASE S \cap N # {}
    <3>1. PICK x \in S \cap N : f[x] \notin S \cap N
      BY <1>1, <2>1 DEF Grounded
    <3>2. f[x] \notin S
      BY <3>1 DEF Shut
    <3> QED
      BY <1>1, <3>2
  <2>2. CASE S \cap N = {} /\ t \in S
    BY <1>1, <2>2
  <2>3. CASE t \notin S
    BY <1>1, <1>3, <2>3 DEF Grounded
  <2> QED
    BY <2>1, <2>2, <2>3
<1> QED
  BY <1>2, <1>3 DEF Grounded

\* What follows a cluster does not lead back to it.
LEMMA RestIsAhead ==
  ASSUME NEW f, Grounded(f), NEW k \in Clusters
  PROVE  Ahead(f, k, k)
<1> SUFFICES ASSUME \A Q \in SUBSET Clusters :
                      Shut(f, Q) /\ (f[k] \in Clusters => f[k] \in Q) => k \in Q
             PROVE  FALSE
  BY DEF Ahead
<1> DEFINE S == {x \in Clusters : \A C \in SUBSET Clusters : Shut(f, C) /\ x \in C => k \in C}
<1>1. k \in S
  OBVIOUS
<1>2. ASSUME NEW x \in S
      PROVE  f[x] \in S
  <2>1. CASE x = k
    <3>1. f[k] \in Clusters
      <4>1. Shut(f, {})
        BY DEF Shut
      <4> QED
        BY <4>1
    <3> QED
      BY <2>1, <3>1
  <2>2. CASE x # k
    <3>1. f[x] \in Clusters
      <4>1. f[x] \notin Clusters => Shut(f, {x})
        BY DEF Shut
      <4> QED
        BY <2>2, <4>1
    <3>2. ASSUME NEW C \in SUBSET Clusters, Shut(f, C), f[x] \in C
          PROVE  k \in C
      <4>1. Shut(f, C \cup {x}) /\ C \cup {x} \in SUBSET Clusters
        BY <3>2 DEF Shut
      <4>2. k \in C \cup {x}
        BY <4>1
      <4> QED
        BY <2>2, <4>2
    <3> QED
      BY <3>1, <3>2
  <2> QED
    BY <2>1, <2>2
<1>3. S \in SUBSET Clusters /\ S # {}
  BY <1>1
<1> HIDE DEF S
<1> QED
  BY <1>2, <1>3 DEF Grounded

-----------------------------------------------------------------------------
(* Chains end.                                                             *)

LEMMA HasLeast ==
  ASSUME NEW S \in SUBSET Nat, S # {}
  PROVE  \E m \in S : \A n \in S : m <= n
<1>1. PICK m \in S : \A n \in S : ~(<<n, m>> \in OpToRel(<, Nat))
  BY NatLessThanWellFounded, WFMin
<1>2. \A n \in S : ~(n < m)
  BY <1>1 DEF OpToRel
<1> QED
  BY <1>2

\* The first m links of the chain that starts at cluster k.
IsWalk(h, k, m) ==
  h = [n \in 0..m |-> IF n = 0 THEN k
                      ELSE IF h[n - 1] \in Clusters THEN fat[h[n - 1]] ELSE h[n - 1]]

LEMMA WalkExists ==
  ASSUME NEW k
  PROVE  \E h : IsWalk(h, k, MaxCluster)
<1> DEFINE Bad == {m \in 0..MaxCluster : ~\E h : IsWalk(h, k, m)}
<1>0. MaxCluster \in Nat
  BY FatAssumption
<1> SUFFICES Bad = {}
  BY <1>0
<1> SUFFICES ASSUME Bad # {} PROVE FALSE
  OBVIOUS
<1>1. Bad \in SUBSET Nat
  BY <1>0
<1> HIDE DEF Bad
<1>2. PICK m \in Bad : \A n \in Bad : m <= n
  BY <1>1, HasLeast
<1>3. m \in 0..MaxCluster /\ ~\E h : IsWalk(h, k, m)
  BY <1>2 DEF Bad
<1>4. CASE m = 0
  <2> DEFINE h == [n \in 0..0 |-> k]
  <2>1. IsWalk(h, k, 0)
    BY DEF IsWalk
  <2> QED
    BY <1>3, <1>4, <2>1
<1>5. CASE m # 0
  <2>1. m - 1 \in 0..MaxCluster /\ m - 1 \notin Bad
    BY <1>0, <1>2, <1>3, <1>5
  <2>2. PICK g : IsWalk(g, k, m - 1)
    BY <2>1 DEF Bad
  <2> DEFINE Next1(h, n) == IF n = 0 THEN k
                            ELSE IF h[n - 1] \in Clusters THEN fat[h[n - 1]] ELSE h[n - 1]
             h == [n \in 0..m |-> IF n = m THEN Next1(g, m) ELSE g[n]]
  <2>3. h[m] = Next1(g, m) /\ \A n \in 0..m - 1 : h[n] = g[n]
    BY <1>3, <1>5
  <2>4. \A n \in 0..m - 1 : g[n] = Next1(g, n)
    BY <2>2 DEF IsWalk
  <2>5. ASSUME NEW n \in 0..m
        PROVE  h[n] = Next1(h, n)
    <3>1. CASE n = 0
      BY <1>3, <1>5, <2>3, <2>4, <3>1
    <3>2. CASE n # 0
      <4> HIDE DEF h
      <4>1. n - 1 \in 0..m - 1 /\ h[n - 1] = g[n - 1]
        BY <1>3, <2>3, <3>2
      <4>2. n = m \/ n \in 0..m - 1
        BY <1>3
      <4> QED
        BY <2>3, <2>4, <3>2, <4>1, <4>2
    <3> QED
      BY <3>1, <3>2
  <2>6. h = [n \in 0..m |-> h[n]]
    OBVIOUS
  <2> HIDE DEF h
  <2>7. IsWalk(h, k, m)
    BY <2>5, <2>6 DEF IsWalk
  <2> QED
    BY <1>3, <2>7
<1> QED
  BY <1>4, <1>5

LEMMA FollowWalks ==
  ASSUME NEW k
  PROVE  IsWalk(Follow(k), k, MaxCluster)
<1>1. PICK h : IsWalk(h, k, MaxCluster)
  BY WalkExists
<1>2. Follow(k) = CHOOSE g : IsWalk(g, k, MaxCluster)
  BY DEF Follow, IsWalk
<1> QED
  BY <1>1, <1>2

\* A chain without an end passes twice through a cluster.
LEMMA GroundedIsAcyclic ==
  ASSUME Grounded(fat)
  PROVE  Acyclic
<1> SUFFICES ASSUME NEW k \in Clusters, Follow(k)[MaxCluster] \in Clusters
             PROVE  FALSE
  BY DEF Acyclic
<1> DEFINE w == Follow(k)
<1>0. MaxCluster \in Nat /\ MaxCluster >= 2
  BY FatAssumption
<1>1. IsWalk(w, k, MaxCluster)
  BY FollowWalks
<1>2. w[MaxCluster] \in Clusters
  OBVIOUS
<1> HIDE DEF w
<1>3. ASSUME NEW n \in 0..MaxCluster - 1
      PROVE  w[n + 1] = IF w[n] \in Clusters THEN fat[w[n]] ELSE w[n]
  <2>1. n + 1 \in 0..MaxCluster /\ n + 1 # 0 /\ (n + 1) - 1 = n
    BY <1>0
  <2>2. w[n + 1] = IF n + 1 = 0 THEN k
                   ELSE IF w[(n + 1) - 1] \in Clusters THEN fat[w[(n + 1) - 1]]
                   ELSE w[(n + 1) - 1]
    BY <1>1, <2>1 DEF IsWalk
  <2> QED
    BY <2>1, <2>2
<1>4. ASSUME NEW n \in 0..MaxCluster, w[n] \notin Clusters
      PROVE  FALSE
  <2> DEFINE S == {m \in n..MaxCluster : w[m] \in Clusters}
  <2>1. S \in SUBSET Nat /\ MaxCluster \in S
    BY <1>0, <1>2
  <2>2. PICK m \in S : \A i \in S : m <= i
    BY <2>1, HasLeast
  <2>3. m # n /\ m \in n..MaxCluster /\ w[m] \in Clusters
    BY <1>4
  <2>4. m - 1 \in n..MaxCluster /\ m - 1 \in 0..MaxCluster - 1
    BY <1>0, <2>3
  <2>5. w[m - 1] \notin Clusters
    BY <1>0, <2>2, <2>4
  <2>6. w[(m - 1) + 1] = w[m - 1]
    BY <1>3, <2>4, <2>5
  <2> QED
    BY <1>0, <2>3, <2>5, <2>6
<1>5. PICK i \in 0..MaxCluster, j \in 0..MaxCluster : i # j /\ w[i] = w[j]
  <2> DEFINE h == [n \in 0..MaxCluster |-> w[n]]
  <2>1. h \in [0..MaxCluster -> Clusters]
    BY <1>4
  <2>2. /\ IsFiniteSet(0..MaxCluster) /\ Cardinality(0..MaxCluster) = MaxCluster + 1
        /\ IsFiniteSet(Clusters) /\ Cardinality(Clusters) = MaxCluster - 1
    BY <1>0, FS_Interval DEF Clusters
  <2> HIDE DEF h
  <2>3. \E i, j \in 0..MaxCluster : i # j /\ h[i] = h[j]
    BY <1>0, <2>1, <2>2, FS_PigeonHole
  <2> QED
    BY <2>3 DEF h
<1>6. ASSUME NEW a \in 0..MaxCluster, NEW b \in 0..MaxCluster, a < b, w[a] = w[b]
      PROVE  FALSE
  <2> DEFINE S == {w[n] : n \in a..b - 1}
  <2>1. S \in SUBSET Clusters /\ w[a] \in S
    BY <1>0, <1>4, <1>6
  <2>2. PICK x \in S : fat[x] \notin S
    BY <2>1 DEF Grounded
  <2>3. PICK n \in a..b - 1 : x = w[n]
    BY <2>2
  <2>4. fat[x] = w[n + 1] /\ (n + 1 \in a..b - 1 \/ n + 1 = b)
    BY <1>0, <1>3, <1>4, <2>3
  <2> QED
    BY <1>6, <2>1, <2>2, <2>4
<1> QED
  BY <1>0, <1>5, <1>6

-----------------------------------------------------------------------------
(* The local steps of a call.                                              *)

LEMMA SteadyKept ==
  ASSUME NEW f, NEW W, NEW c, NEW d, Same(c, d), Steady(f, W, c)
  PROVE  Steady(f, W, d)
BY DEF Same, Steady, Holds

\* A call that touches the table no more.
LEMMA RestsSafe ==
  ASSUME NEW f, NEW D, NEW W, NEW d, Steady(f, W, d), d.op # "none",
         d.at = "return" \/ (d.at = "entry" /\ d.op \in {"write", "close"} /\ d.buffer = <<>>)
  PROVE  Safe(f, D, W, d)
BY DEF Safe, Takes, Releases, Follows, Renames, Buffered, Placed, FatWrites, DirWrites

LEMMA ReturnSafe ==
  ASSUME NEW f, NEW D, NEW W, NEW c \in Locals, Steady(f, W, c), c.op # "none", NEW ok
  PROVE  Safe(f, D, W, Return(c, ok))
<1>1. Same(c, Return(c, ok)) /\ Return(c, ok).at = "return"
  BY DEF Return, Goto, Same, Locals
<1>2. Return(c, ok).op # "none"
  BY <1>1 DEF Same
<1> QED
  BY <1>1, <1>2, SteadyKept, RestsSafe

LEMMA freechainSafe ==
  ASSUME NEW f, NEW D, NEW W, NEW c \in Locals, Steady(f, W, c),
         c.op \in {"open", "unlink", "write", "mkdir"},
         NEW k, c.op = "write" => Away(f, k, c.chain)
  PROVE  Safe(f, D, W, freechain(c, k))
<1> DEFINE d == freechain(c, k)
<1>1. Same(c, d) /\ d.at = "free" /\ d.cluster = k /\ d.buffer = <<>>
  BY DEF freechain, Goto, Same, Locals
<1> HIDE DEF d
<1>2. Steady(f, W, d) /\ d.op = c.op /\ d.chain = c.chain
  BY <1>1, SteadyKept DEF Same
<1> QED
  BY <1>1, <1>2
     DEF Safe, Takes, Releases, Follows, Renames, Buffered, Placed, FatWrites, DirWrites, d

LEMMA AllocFailsSafe ==
  ASSUME NEW f, NEW D, NEW W, NEW c \in Locals, Steady(f, W, c), c.op \in {"write", "mkdir"},
         c.op = "write" /\ c.first # None => Away(f, c.first, c.chain)
  PROVE  Safe(f, D, W, AllocFails(c))
<1> DEFINE u == [c EXCEPT !.undo = TRUE]
<1>1. CASE c.first = None
  BY <1>1, ReturnSafe DEF AllocFails
<1>2. CASE c.first # None
  <2>1. u \in Locals
    BY Updates
  <2>2. Same(c, u)
    BY DEF Same, Locals
  <2>3. AllocFails(c) = freechain(u, c.first)
    BY <1>2 DEF AllocFails
  <2> HIDE DEF u
  <2>4. Steady(f, W, u) /\ u.op = c.op /\ u.chain = c.chain
    BY <2>2, SteadyKept DEF Same
  <2> QED
    BY <1>2, <2>1, <2>3, <2>4, freechainSafe
<1> QED
  BY <1>1, <1>2

LEMMA allocchainSafe ==
  ASSUME NEW f, NEW D, NEW W, NEW c \in Locals, Steady(f, W, c), c.op \in {"write", "mkdir"},
         NEW n, NEW tail, Tailed(f, c, tail)
  PROVE  Safe(f, D, W, allocchain(c, n, tail))
<1> DEFINE d == [Goto(c, "scan") EXCEPT !.cluster = 2, !.left = n, !.tail = tail,
                                        !.first = None, !.previous = None]
<1>1. /\ Same(c, d) /\ d.at = "scan" /\ d.first = None /\ d.previous = None
      /\ d.tail = tail /\ d.buffer = <<>>
  BY DEF Goto, Same, Locals
<1>2. allocchain(c, n, tail) \in {Return(c, FALSE), d}
  BY DEF allocchain
<1> HIDE DEF d
<1>3. Steady(f, W, d) /\ d.op = c.op /\ d.chain = c.chain
  BY <1>1, SteadyKept DEF Same
<1>4. Gathers(f, d, {d.tail, d.chain})
  BY <1>1, <1>3 DEF Gathers, Extends, Tailed
<1>5. Safe(f, D, W, d)
  BY <1>1, <1>3, <1>4
     DEF Safe, Takes, Releases, Follows, Renames, Buffered, Placed, FatWrites, DirWrites
<1> QED
  BY <1>2, <1>5, ReturnSafe

LEMMA resizechainSafe ==
  ASSUME NEW f, NEW D, NEW W, NEW c \in Locals, Steady(f, W, c), c.op = "write"
  PROVE  Safe(f, D, W, resizechain(c))
<1>1. CASE c.chain = None
  BY <1>1, allocchainSafe DEF resizechain, Tailed
<1>2. CASE c.chain # None
  <2> DEFINE d == [Goto(c, "length") EXCEPT !.cluster = c.chain, !.found = 0]
  <2>1. Same(c, d) /\ d.at = "length" /\ d.cluster = c.chain /\ d.buffer = <<>>
    BY DEF Goto, Same, Locals
  <2>2. c.chain \in Clusters
    BY <1>2 DEF Locals, OptionalClusters
  <2>3. resizechain(c) = d
    BY <1>2 DEF resizechain
  <2> HIDE DEF d
  <2>4. Steady(f, W, d) /\ d.op = "write" /\ d.chain = c.chain
    BY <2>1, SteadyKept DEF Same
  <2>5. Passed(f, d)
    <3>1. Used(f, {}) /\ {} \in SUBSET Clusters
      BY DEF Used
    <3>2. d.chain \in {} \cup {d.cluster} /\ \A x \in {} : f[x] \in {} \cup {d.cluster}
      BY <2>1, <2>4
    <3> QED
      BY <3>1, <3>2, Zenon DEF Passed
  <2> QED
    BY <2>1, <2>2, <2>3, <2>4, <2>5
       DEF Safe, Takes, Releases, Follows, Renames, Buffered, Placed, FatWrites, DirWrites
<1> QED
  BY <1>1, <1>2

LEMMA ResizedSafe ==
  ASSUME NEW f, NEW D, NEW W, NEW c \in Locals, Steady(f, W, c), c.op = "write", Asked(c)
  PROVE  Safe(f, D, W, Resized(c))
<1>1. CASE c.gap
  <2> DEFINE u == [c EXCEPT !.gap = FALSE, !.count = c.size + 1]
  <2>1. c.size + 1 \in Sizes
    BY <1>1, FatAssumption DEF Asked, Locals, Sizes
  <2>2. u \in Locals
    BY <2>1, Updates
  <2>3. Same(c, u) /\ u.op = "write"
    BY DEF Same, Locals
  <2>4. Resized(c) = resizechain(u)
    BY <1>1 DEF Resized
  <2> HIDE DEF u
  <2> QED
    BY <2>2, <2>3, <2>4, SteadyKept, resizechainSafe
<1>2. CASE ~c.gap
  <2> DEFINE d == [Goto(c, "entry") EXCEPT !.size = c.count]
  <2>1. Same(c, d) /\ d.at = "entry" /\ d.op = "write" /\ d.buffer = <<>>
    BY DEF Goto, Same, Locals
  <2>2. Resized(c) = d
    BY <1>2 DEF Resized
  <2> HIDE DEF d
  <2> QED
    BY <2>1, <2>2, SteadyKept, RestsSafe
<1> QED
  BY <1>1, <1>2

LEMMA AllocatedSafe ==
  ASSUME NEW f, NEW D, NEW W, NEW c \in Locals, Steady(f, W, c), c.op \in {"write", "mkdir"},
         Asked(c), Gathers(f, c, {c.tail, c.chain}), c.first # None
  PROVE  Safe(f, D, W, Allocated(c))
<1>0. c.first \in Clusters /\ f[c.first] # None
  BY DEF Gathers, Taken, Used
<1>1. CASE c.op = "mkdir"
  <2> DEFINE d == Goto(c, "place")
  <2>1. Same(c, d) /\ d.at = "place" /\ d.first = c.first
    BY DEF Goto, Same, Locals
  <2> HIDE DEF d
  <2>2. Steady(f, W, d) /\ d.op = "mkdir"
    BY <1>1, <2>1, SteadyKept DEF Same
  <2>3. Safe(f, D, W, d)
    BY <1>0, <2>1, <2>2
       DEF Safe, Takes, Releases, Follows, Renames, Buffered, Placed, FatWrites, DirWrites
  <2> QED
    BY <1>1, <2>3 DEF Allocated, d
<1>2. CASE c.op = "write" /\ c.tail # None
  <2> DEFINE d == Goto(c, "append")
  <2>1. /\ Same(c, d) /\ d.at = "append" /\ d.first = c.first /\ d.previous = c.previous
        /\ d.tail = c.tail /\ d.buffer = <<>>
    BY DEF Goto, Same, Locals
  <2> HIDE DEF d
  <2>2. Steady(f, W, d) /\ d.op = "write" /\ d.chain = c.chain
    BY <1>2, <2>1, SteadyKept DEF Same
  <2>3. Taken(f, {d.first, d.previous}, {d.tail, d.chain})
    BY <2>1, <2>2 DEF Gathers
  <2>4. Safe(f, D, W, d)
    BY <1>2, <2>1, <2>2, <2>3
       DEF Safe, Takes, Releases, Follows, Renames, Buffered, Placed, FatWrites, DirWrites
  <2> QED
    BY <1>2, <2>4 DEF Allocated, d
<1>3. CASE c.op = "write" /\ c.tail = None
  <2> DEFINE u == [c EXCEPT !.chain = c.first]
  <2>1. c.first \in OptionalClusters
    BY DEF Locals
  <2>2. u \in Locals
    BY <2>1, Updates
  <2>3. /\ u.op = "write" /\ u.fd = c.fd /\ u.to = c.to /\ u.chain = c.first /\ Asked(u)
    BY <1>3 DEF Locals, Asked
  <2> HIDE DEF u
  <2>4. Steady(f, W, u)
    BY <1>0, <1>3, <2>3 DEF Steady, Holds
  <2>5. Safe(f, D, W, Resized(u))
    BY <2>2, <2>3, <2>4, ResizedSafe
  <2> QED
    BY <1>3, <2>5 DEF Allocated, u
<1> QED
  BY <1>1, <1>2, <1>3

LEMMA NextScanSafe ==
  ASSUME NEW f, NEW D, NEW W, NEW c \in Locals, Steady(f, W, c), c.op \in {"write", "mkdir"},
         Asked(c), Gathers(f, c, {c.tail, c.chain}), c.left = 0 => c.first # None
  PROVE  Safe(f, D, W, NextScan(c))
<1>1. CASE c.left = 0
  BY <1>1, AllocatedSafe DEF NextScan
<1>2. CASE c.left # 0 /\ c.cluster = MaxCluster
  <2>1. c.first # None => Away(f, c.first, c.chain)
    BY DEF Gathers, Taken, Away
  <2> QED
    BY <1>2, <2>1, AllocFailsSafe DEF NextScan
<1>3. CASE c.left # 0 /\ c.cluster # MaxCluster
  <2> DEFINE d == [Goto(c, "scan") EXCEPT !.cluster = c.cluster + 1]
  <2>1. /\ Same(c, d) /\ d.at = "scan" /\ d.first = c.first /\ d.previous = c.previous
        /\ d.tail = c.tail /\ d.buffer = <<>>
    BY DEF Goto, Same, Locals
  <2>2. NextScan(c) = d
    BY <1>3 DEF NextScan
  <2> HIDE DEF d
  <2>3. Steady(f, W, d) /\ d.op = c.op /\ d.chain = c.chain
    BY <2>1, SteadyKept DEF Same
  <2>4. Gathers(f, d, {d.tail, d.chain})
    BY <2>1, <2>3 DEF Gathers, Extends, Tailed
  <2> QED
    BY <2>1, <2>2, <2>3, <2>4
       DEF Safe, Takes, Releases, Follows, Renames, Buffered, Placed, FatWrites, DirWrites
<1> QED
  BY <1>1, <1>2, <1>3

LEMMA LinkedSafe ==
  ASSUME NEW f, NEW D, NEW W, NEW c \in Locals, Steady(f, W, c), c.op \in {"write", "mkdir"},
         Asked(c), Tailed(f, c, c.tail), c.first # None, c.cluster \in Clusters, c.left >= 1,
         Taken(f, {c.first, c.cluster}, {c.tail, c.chain})
  PROVE  Safe(f, D, W, Linked(c))
<1> DEFINE u == [c EXCEPT !.previous = c.cluster, !.left = c.left - 1]
<1>1. c.left - 1 \in 0..MaxCluster /\ c.cluster \in OptionalClusters
  BY FatAssumption DEF Locals
<1>2. u \in Locals
  BY <1>1, Updates
<1>3. Same(c, u) /\ Asked(u) /\ u.first = c.first /\ u.previous = c.cluster /\ u.tail = c.tail
  BY DEF Same, Asked, Locals
<1> HIDE DEF u
<1>4. Steady(f, W, u) /\ u.op = c.op /\ u.chain = c.chain
  BY <1>3, SteadyKept DEF Same
<1>5. Gathers(f, u, {u.tail, u.chain})
  BY <1>3, <1>4, NoCluster DEF Gathers, Extends, Tailed
<1> QED
  BY <1>2, <1>3, <1>4, <1>5, NextScanSafe DEF Linked, u

\* The cluster has just been marked.
LEMMA MarkedSafe ==
  ASSUME NEW f, NEW D, NEW W, NEW c \in Locals, Steady(f, W, c), c.op \in {"write", "mkdir"},
         Asked(c), Gathers(f, c, {c.tail, c.chain, c.cluster}), c.left >= 1,
         c.cluster \in Clusters, f[c.cluster] = EOC, c.cluster \notin {c.tail, c.chain}
  PROVE  Safe(f, D, W, Marked(c))
<1> DEFINE k == IF c.first = None THEN c.cluster ELSE c.first
           m == [c EXCEPT !.first = k]
<1>1. k \in OptionalClusters
  BY DEF Locals
<1>2. k # None
  BY NoCluster
<1> HIDE DEF k
<1>3. m \in Locals
  BY <1>1, Updates
<1>4. /\ Same(c, m) /\ Asked(m) /\ m.first = k /\ m.previous = c.previous
      /\ m.cluster = c.cluster /\ m.tail = c.tail /\ m.left = c.left
  BY DEF Same, Asked, Locals
<1>5. Marked(c) = IF c.previous = None THEN Linked(m) ELSE Goto(m, "link")
  BY DEF Marked, k
<1> HIDE DEF m
<1>6. Steady(f, W, m) /\ m.op = c.op /\ m.chain = c.chain
  BY <1>4, SteadyKept DEF Same
<1>7. Tailed(f, m, m.tail)
  BY <1>4, <1>6 DEF Gathers, Extends, Tailed
<1>8. CASE c.previous = None
  <2>1. k = c.cluster
    BY <1>8 DEF Gathers, Extends, k
  <2>2. Shut(f, {c.cluster}) /\ Used(f, {c.cluster})
    BY NoCluster DEF Shut, Used
  <2>3. Taken(f, {m.first, m.cluster}, {m.tail, m.chain})
    BY <1>4, <1>6, <2>1, <2>2 DEF Taken
  <2> QED
    BY <1>2, <1>3, <1>4, <1>5, <1>6, <1>7, <1>8, <2>3, LinkedSafe
<1>9. CASE c.previous # None
  <2> DEFINE d == Goto(m, "link")
  <2>1. /\ Same(m, d) /\ d.at = "link" /\ d.first = k /\ d.previous = c.previous
        /\ d.cluster = c.cluster /\ d.tail = c.tail /\ d.buffer = <<>>
    BY <1>3, <1>4 DEF Goto, Same, Locals
  <2> HIDE DEF d
  <2>2. Steady(f, W, d) /\ d.op = c.op /\ d.chain = c.chain
    BY <1>6, <2>1, SteadyKept DEF Same
  <2>3. k = c.first
    BY <1>9 DEF Gathers, Extends, k
  <2>4. Gathers(f, d, {d.tail, d.chain, d.cluster})
    BY <2>1, <2>2, <2>3 DEF Gathers, Extends, Tailed
  <2>5. Safe(f, D, W, d)
    BY <1>2, <2>1, <2>2, <2>4
       DEF Safe, Takes, Releases, Follows, Renames, Buffered, Placed, FatWrites, DirWrites
  <2> QED
    BY <1>5, <1>9, <2>5 DEF d
<1> QED
  BY <1>8, <1>9

LEMMA AtNthSafe ==
  ASSUME NEW f, NEW D, NEW W, NEW c \in Locals, Steady(f, W, c), c.op = "write",
         c.cluster \in Clusters, c.chain \in Clusters,
         Within(f, {c.chain, c.cluster}), Ahead(f, c.cluster, c.chain)
  PROVE  Safe(f, D, W, AtNth(c))
<1>1. ASSUME NEW s \in {"nth", "next"}
      PROVE  Safe(f, D, W, Goto(c, s))
  <2> DEFINE d == Goto(c, s)
  <2>1. Same(c, d) /\ d.at = s /\ d.cluster = c.cluster /\ d.buffer = <<>>
    BY DEF Goto, Same, Locals
  <2> HIDE DEF d
  <2>2. Steady(f, W, d) /\ d.op = "write" /\ d.chain = c.chain
    BY <2>1, SteadyKept DEF Same
  <2>3. Safe(f, D, W, d)
    BY <2>1, <2>2
       DEF Safe, Takes, Releases, Follows, Renames, Buffered, Placed, FatWrites, DirWrites
  <2> QED
    BY <2>3 DEF d
<1>2. Tailed(f, c, c.cluster)
  BY NoCluster DEF Tailed, Within, Used
<1>3. Safe(f, D, W, allocchain(c, c.count - c.found, c.cluster))
  BY <1>2, allocchainSafe
<1> QED
  BY <1>1, <1>3 DEF AtNth

LEMMA MeasuredSafe ==
  ASSUME NEW f, NEW D, NEW W, NEW c \in Locals, Steady(f, W, c), c.op = "write", Asked(c),
         c.chain \in Clusters, Within(f, {c.chain}), NEW n \in 1..MaxCluster
  PROVE  Safe(f, D, W, Measured(c, n))
<1> DEFINE keep == IF n > c.count THEN c.count ELSE n
           u == [c EXCEPT !.found = n, !.cluster = c.chain, !.left = keep - 1]
<1>1. keep - 1 \in 0..MaxCluster /\ n \in 0..MaxCluster + 1 /\ c.chain \in OptionalClusters
  <2>1. c.count \in Nat /\ c.count >= 1
    BY FatAssumption DEF Locals, Asked, Sizes
  <2> QED
    BY <2>1, FatAssumption DEF Locals
<1> HIDE DEF keep
<1>2. u \in Locals
  BY <1>1, Updates
<1>3. Same(c, u) /\ u.op = "write" /\ u.cluster = c.chain /\ u.chain = c.chain
  BY DEF Same, Locals
<1>4. Measured(c, n) = IF n = c.count THEN Resized(c) ELSE AtNth(u)
  BY DEF Measured, keep
<1> HIDE DEF u
<1>5. Steady(f, W, u)
  BY <1>3, SteadyKept
<1>6. Within(f, {u.chain, u.cluster}) /\ Ahead(f, u.cluster, u.chain)
  <2>1. {u.chain, u.cluster} = {c.chain}
    BY <1>3
  <2>2. Ahead(f, c.chain, c.chain)
    BY RestIsAhead DEF Steady
  <2> QED
    BY <1>3, <2>1, <2>2
<1> QED
  BY <1>2, <1>3, <1>4, <1>5, <1>6, ResizedSafe, AtNthSafe

LEMMA EntryWrittenSafe ==
  ASSUME NEW f, NEW D, NEW W, NEW c \in Locals, Steady(f, W, c), c.op = "write", NEW ok
  PROVE  Safe(f, D, W, EntryWritten(c, ok))
<1>0. c.size \in Nat /\ c.position \in Nat /\ c.goal \in Sizes
  BY FatAssumption DEF Locals, Sizes
<1>1. ASSUME NEW n \in Sizes
      PROVE  Safe(f, D, W, resizechain([c EXCEPT !.count = n]))
  <2> DEFINE u == [c EXCEPT !.count = n]
  <2>1. u \in Locals
    BY Updates
  <2>2. Same(c, u) /\ u.op = "write"
    BY DEF Same, Locals
  <2> HIDE DEF u
  <2>3. Safe(f, D, W, resizechain(u))
    BY <2>1, <2>2, SteadyKept, resizechainSafe
  <2> QED
    BY <2>3 DEF u
<1>2. CASE c.size < c.position
  <2>1. c.size + 1 \in Sizes
    BY <1>2, FatAssumption DEF Locals, Sizes
  <2> QED
    BY <1>0, <1>1, <1>2, <2>1 DEF EntryWritten
<1>3. CASE c.size = c.position /\ c.position > 0
  <2> DEFINE d == [Goto(c, "entry") EXCEPT !.position = 0]
  <2>1. Same(c, d) /\ d.at = "entry" /\ d.op = "write" /\ d.buffer = <<>>
    BY DEF Goto, Same, Locals
  <2>2. EntryWritten(c, ok) = d
    BY <1>0, <1>3 DEF EntryWritten
  <2> HIDE DEF d
  <2> QED
    BY <2>1, <2>2, SteadyKept, RestsSafe
<1>4. CASE c.position = 0 /\ c.size < c.goal /\ ok
  BY <1>0, <1>1, <1>4 DEF EntryWritten
<1>5. CASE /\ ~(c.size < c.position) /\ ~(c.size = c.position /\ c.position > 0)
           /\ ~(c.position = 0 /\ c.size < c.goal /\ ok)
  BY <1>5, ReturnSafe DEF EntryWritten
<1> QED
  BY <1>2, <1>3, <1>4, <1>5

\* freechain has returned.
LEMMA FreedSafe ==
  ASSUME NEW f, NEW D, NEW W, NEW c \in Locals, Steady(f, W, c), Asked(c),
         c.op \in {"open", "unlink", "write", "mkdir"}, NEW ok
  PROVE  Safe(f, D, W, Freed(c, ok))
<1>1. CASE c.op = "unlink"
  <2> DEFINE d == Goto(c, "erase")
  <2>1. Same(c, d) /\ d.at = "erase" /\ d.buffer = <<>>
    BY DEF Goto, Same, Locals
  <2> HIDE DEF d
  <2>2. Steady(f, W, d) /\ d.op = "unlink"
    BY <1>1, <2>1, SteadyKept DEF Same
  <2>3. Safe(f, D, W, d)
    BY <2>1, <2>2
       DEF Safe, Takes, Releases, Follows, Renames, Buffered, Placed, FatWrites, DirWrites
  <2> QED
    BY <1>1, <2>3 DEF Freed, d
<1>2. CASE c.op = "open" /\ ok
  <2> DEFINE d == [Goto(c, "entry") EXCEPT !.chain = None, !.size = 0]
  <2>1. d.op = c.op /\ d.to = c.to /\ d.chain = None /\ d.at = "entry" /\ d.buffer = <<>>
    BY DEF Goto, Locals
  <2> HIDE DEF d
  <2>2. Steady(f, W, d)
    BY <1>2, <2>1 DEF Steady, Holds
  <2>3. Safe(f, D, W, d)
    BY <1>2, <2>1, <2>2
       DEF Safe, Takes, Releases, Follows, Renames, Buffered, Placed, FatWrites, DirWrites
  <2> QED
    BY <1>2, <2>3 DEF Freed, d
<1>3. CASE c.op = "write" /\ ok /\ ~c.undo
  BY <1>3, ResizedSafe DEF Freed
<1>4. CASE c.op # "unlink" /\ ~(c.op = "open" /\ ok) /\ ~(c.op = "write" /\ ok /\ ~c.undo)
  BY <1>4, ReturnSafe DEF Freed
<1> QED
  BY <1>1, <1>2, <1>3, <1>4

-----------------------------------------------------------------------------
(* The reads of the table.                                                 *)

LEMMA ScannedSafe ==
  ASSUME NEW f, NEW D, NEW W, NEW c, Sound(c), Safe(f, D, W, c), c.at = "scan"
  PROVE  Safe(f, D, W, Scanned(c, f[c.cluster]))
<1>1. /\ c \in Locals /\ Asked(c) /\ c.op \in {"write", "mkdir"} /\ c.left >= 1
      /\ Steady(f, W, c) /\ Gathers(f, c, {c.tail, c.chain})
  BY DEF Sound, Ready, Safe, Takes
<1>2. CASE f[c.cluster] = 0
  <2> DEFINE d == Goto(c, "mark")
  <2>1. /\ Same(c, d) /\ d.at = "mark" /\ d.first = c.first /\ d.previous = c.previous
        /\ d.tail = c.tail /\ d.cluster = c.cluster /\ d.buffer = <<>>
    BY <1>1 DEF Goto, Same, Locals
  <2> HIDE DEF d
  <2>2. Steady(f, W, d) /\ d.op = c.op /\ d.chain = c.chain
    BY <1>1, <2>1, SteadyKept DEF Same
  <2>3. Gathers(f, d, {d.tail, d.chain}) /\ f[d.cluster] = None
    BY <1>1, <1>2, <2>1, <2>2 DEF Gathers, Extends, Tailed, None
  <2>4. Safe(f, D, W, d)
    BY <1>1, <2>1, <2>2, <2>3
       DEF Safe, Takes, Releases, Follows, Renames, Buffered, Placed, FatWrites, DirWrites
  <2> QED
    BY <1>2, <2>4 DEF Scanned, d
<1>3. CASE f[c.cluster] # 0
  <2>1. c.left # 0
    BY <1>1
  <2> QED
    BY <1>1, <1>3, <2>1, NextScanSafe DEF Scanned
<1> QED
  BY <1>2, <1>3

LEMMA CountedSafe ==
  ASSUME NEW f \in Tables, NEW D, NEW W, NEW c, Sound(c), Safe(f, D, W, c), c.at = "length"
  PROVE  Safe(f, D, W, Counted(c, f[c.cluster]))
<1> DEFINE v == f[c.cluster]
<1>1. /\ c \in Locals /\ Asked(c) /\ c.op = "write" /\ c.found \in 0..MaxCluster
      /\ Steady(f, W, c) /\ c.cluster \in Clusters /\ c.chain \in Clusters /\ Passed(f, c)
  BY FatAssumption DEF Sound, Ready, Locals, Safe, Follows
<1>2. v \in Links
  BY <1>1 DEF Tables
<1>3. PICK P \in SUBSET Clusters :
        /\ Used(f, P) /\ c.chain \in P \cup {c.cluster}
        /\ \A x \in P : f[x] \in P \cup {c.cluster}
  BY <1>1 DEF Passed
<1>4. v # None => Used(f, P \cup {c.cluster}) /\ P \cup {c.cluster} \in SUBSET Clusters
  BY <1>1, <1>3 DEF Used
<1>5. CASE c.found = MaxCluster \/ v = None
  <2> HIDE DEF v
  <2>1. ~(c.found < MaxCluster /\ v = EOC)
    BY <1>1, <1>5, NoCluster, FatAssumption
  <2>2. Counted(c, v) = Return(c, FALSE)
    BY <1>5, <2>1 DEF Counted
  <2> QED
    BY <1>1, <2>2, ReturnSafe DEF v
<1>6. CASE c.found < MaxCluster /\ v = EOC
  <2>1. Counted(c, v) = Measured(c, c.found + 1)
    <3> HIDE DEF v
    <3> QED
      BY <1>1, <1>6, NoCluster DEF Counted
  <2>2. c.found + 1 \in 1..MaxCluster
    BY <1>1, <1>6, FatAssumption
  <2>3. Within(f, {c.chain})
    <3> DEFINE R == P \cup {c.cluster}
    <3>1. Used(f, R) /\ R \in SUBSET Clusters
      BY <1>4, <1>6, NoCluster
    <3>2. Shut(f, R)
      BY <1>3, <1>6, <3>1, NoCluster DEF Shut
    <3>3. {c.chain} \subseteq R
      BY <1>3
    <3> HIDE DEF R
    <3> QED
      BY <3>1, <3>2, <3>3 DEF Within
  <2> QED
    BY <1>1, <2>1, <2>2, <2>3, MeasuredSafe
<1>7. CASE ~(c.found = MaxCluster \/ v = None) /\ ~(c.found < MaxCluster /\ v = EOC)
  <2> DEFINE d == [c EXCEPT !.found = c.found + 1, !.cluster = v]
  <2>1. Counted(c, v) = d
    BY <1>7 DEF Counted
  <2>2. v \in Clusters
    <3> HIDE DEF v
    <3> QED
      BY <1>1, <1>2, <1>7, FatAssumption DEF Links
  <2>3. Same(c, d) /\ d.at = "length" /\ d.cluster = v
    BY <1>1 DEF Same, Locals
  <2> HIDE DEF d
  <2>4. Steady(f, W, d) /\ d.op = "write" /\ d.chain = c.chain
    BY <1>1, <2>3, SteadyKept DEF Same
  <2>5. Passed(f, d)
    <3> DEFINE R == P \cup {c.cluster}
    <3>1. Used(f, R) /\ R \in SUBSET Clusters
      BY <1>4, <1>7
    <3>2. d.chain \in R \cup {d.cluster} /\ \A x \in R : f[x] \in R \cup {d.cluster}
      BY <1>3, <2>3, <2>4
    <3> HIDE DEF R
    <3> QED
      BY <3>1, <3>2 DEF Passed
  <2>6. Safe(f, D, W, d)
    BY <1>1, <2>2, <2>3, <2>4, <2>5
       DEF Safe, Takes, Releases, Follows, Renames, Buffered, Placed, FatWrites, DirWrites
  <2> QED
    BY <2>1, <2>6
<1> QED
  BY <1>5, <1>6, <1>7

LEMMA WalkedSafe ==
  ASSUME NEW f \in Tables, NEW D, NEW W, NEW c, Sound(c), Safe(f, D, W, c), c.at = "nth"
  PROVE  Safe(f, D, W, Walked(c, f[c.cluster]))
<1> DEFINE v == f[c.cluster]
<1>1. /\ c \in Locals /\ c.op = "write" /\ c.left >= 1 /\ Steady(f, W, c)
      /\ c.chain \in Clusters /\ Within(f, {c.chain, c.cluster}) /\ Ahead(f, c.cluster, c.chain)
  BY DEF Sound, Ready, Safe, Follows
<1>2. CASE v \in Clusters
  <2>1. Within(f, {c.chain, v})
    BY <1>1, <1>2 DEF Within, Shut
  <2>2. Ahead(f, v, c.chain)
    BY <1>1, <1>2 DEF Ahead, Shut
  <2> HIDE DEF v
  <2> DEFINE u == [c EXCEPT !.cluster = v, !.left = c.left - 1]
  <2>3. c.left - 1 \in 0..MaxCluster /\ v \in OptionalClusters
    BY <1>1, <1>2, FatAssumption DEF Locals, OptionalClusters
  <2>4. u \in Locals
    BY <1>1, <2>3, Updates
  <2>5. Same(c, u) /\ u.op = "write" /\ u.cluster = v /\ u.chain = c.chain
    BY <1>1 DEF Same, Locals
  <2>6. Walked(c, v) = AtNth(u)
    BY <1>2 DEF Walked
  <2> HIDE DEF u
  <2>7. Steady(f, W, u)
    BY <1>1, <2>5, SteadyKept
  <2>8. Safe(f, D, W, AtNth(u))
    BY <1>1, <1>2, <2>1, <2>2, <2>4, <2>5, <2>7, AtNthSafe
  <2> QED
    BY <2>6, <2>8 DEF v
<1>3. CASE v \notin Clusters
  BY <1>1, <1>3, ReturnSafe DEF Walked
<1> QED
  BY <1>2, <1>3

LEMMA ToCutSafe ==
  ASSUME NEW f \in Tables, NEW D, NEW W, NEW c, Sound(c), Safe(f, D, W, c), c.at = "next"
  PROVE  Safe(f, D, W, ToCut(c, f[c.cluster]))
<1> DEFINE v == f[c.cluster]
<1>1. /\ c \in Locals /\ Asked(c) /\ c.op = "write" /\ Steady(f, W, c)
      /\ c.cluster \in Clusters /\ c.chain \in Clusters /\ Ahead(f, c.cluster, c.chain)
  BY DEF Sound, Ready, Safe, Follows
<1>2. CASE v \in Clusters
  <2> DEFINE d == [Goto(c, "cut") EXCEPT !.next = v]
  <2>1. Same(c, d) /\ d.at = "cut" /\ d.cluster = c.cluster /\ d.next = v /\ d.buffer = <<>>
    BY <1>1 DEF Goto, Same, Locals
  <2>2. ToCut(c, v) = d
    BY <1>2 DEF ToCut
  <2> HIDE DEF d
  <2>3. Steady(f, W, d) /\ d.op = "write" /\ d.chain = c.chain
    BY <1>1, <2>1, SteadyKept DEF Same
  <2>4. Safe(f, D, W, d)
    BY <1>1, <2>1, <2>3
       DEF Safe, Takes, Releases, Follows, Renames, Buffered, Placed, FatWrites, DirWrites
  <2> QED
    BY <2>2, <2>4
<1>3. CASE v \notin Clusters
  BY <1>1, <1>3, ResizedSafe DEF ToCut
<1> QED
  BY <1>2, <1>3

LEMMA ToClearSafe ==
  ASSUME NEW f, NEW D, NEW W, NEW c, Sound(c), Safe(f, D, W, c), c.at = "free"
  PROVE  Safe(f, D, W, ToClear(c, f[c.cluster]))
<1> DEFINE d == ToClear(c, f[c.cluster])
<1>1. /\ c \in Locals /\ c.op \in {"open", "unlink", "write", "mkdir"} /\ Steady(f, W, c)
      /\ c.op = "write" => Away(f, c.cluster, c.chain)
  BY DEF Sound, Safe, Placed, Releases
<1>2. /\ Same(c, d) /\ d.at = "clear" /\ d.cluster = c.cluster /\ d.next = f[c.cluster]
      /\ d.buffer = <<>>
  BY <1>1 DEF ToClear, Goto, Same, Locals
<1> HIDE DEF d
<1>3. Steady(f, W, d) /\ d.op = c.op /\ d.chain = c.chain
  BY <1>1, <1>2, SteadyKept DEF Same
<1> QED
  BY <1>1, <1>2, <1>3
     DEF Safe, Takes, Releases, Follows, Renames, Buffered, Placed, FatWrites, DirWrites, d

-----------------------------------------------------------------------------
(* The writes to the table.                                                *)

\* What a write that marks, links, cuts or appends leaves in place.
LEMMA MarkSafe ==
  ASSUME NEW f \in Tables, NEW D, NEW W, NEW c, Sound(c), Safe(f, D, W, c), c.at = "mark",
         NEW g, g = f \/ g = Stored(f, c)
  PROVE  /\ g = Stored(f, c) => Safe(g, D, W, Written(c))
         /\ Safe(g, D, W, NotWritten(c))
<1>1. /\ c \in Locals /\ Asked(c) /\ c.op \in {"write", "mkdir"} /\ c.left >= 1
      /\ c.cluster \in Clusters /\ f[c.cluster] = None
      /\ Steady(f, W, c) /\ Gathers(f, c, {c.tail, c.chain})
  BY DEF Sound, Ready, Safe, Takes
<1>2. Stored(f, c) = [f EXCEPT ![c.cluster] = EOC]
  BY DEF Stored, Target, Value
<1>3. /\ g = f \/ (g[c.cluster] = EOC /\ \A x \in Clusters : x # c.cluster => g[x] = f[x])
      /\ g = Stored(f, c) => g[c.cluster] = EOC
  BY <1>1, <1>2 DEF Tables
<1>4. \A x \in Clusters : (f[x] # None => g[x] = f[x]) /\ (g[x] = f[x] \/ g[x] \notin Clusters)
  BY <1>1, <1>3, NoCluster
<1>5. \A N \in SUBSET Clusters : Shut(f, N) /\ Used(f, N) =>
        Shut(g, N) /\ Used(g, N) /\ c.cluster \notin N
  BY <1>1, <1>4 DEF Shut, Used
<1>6. Steady(g, W, c)
  <2>1. Grounded(g)
    BY <1>1, <1>4, FewerLinks DEF Steady
  <2>2. c.op = "write" /\ f[c.chain] # None /\ c.chain # None => g[c.chain] # None
    BY <1>1, <1>4 DEF Locals, OptionalClusters
  <2> QED
    BY <1>1, <2>1, <2>2 DEF Steady, Holds
<1>7. Gathers(g, c, {c.tail, c.chain, c.cluster}) /\ c.cluster \notin {c.tail, c.chain}
  <2>1. Tailed(g, c, c.tail) /\ c.cluster \notin {c.tail, c.chain}
    <3>1. c.tail \in OptionalClusters /\ c.chain \in OptionalClusters
      BY <1>1 DEF Locals
    <3> QED
      BY <1>1, <1>4, <3>1, NoCluster DEF Gathers, Extends, Tailed, OptionalClusters
  <2>2. Taken(f, {c.first, c.previous}, {c.tail, c.chain}) =>
          Taken(g, {c.first, c.previous}, {c.tail, c.chain, c.cluster})
    BY <1>5 DEF Taken
  <2> QED
    BY <1>1, <2>1, <2>2 DEF Gathers, Extends
<1>8. c.first # None => Away(g, c.first, c.chain)
  BY <1>7 DEF Gathers, Taken, Away
<1>9. Written(c) = Marked(c) /\ NotWritten(c) = AllocFails(c)
  BY DEF Written, NotWritten
<1>10. g = Stored(f, c) => Safe(g, D, W, Marked(c))
  BY <1>1, <1>3, <1>6, <1>7, MarkedSafe
<1>11. Safe(g, D, W, AllocFails(c))
  BY <1>1, <1>6, <1>8, AllocFailsSafe
<1> QED
  BY <1>9, <1>10, <1>11

LEMMA LinkSafe ==
  ASSUME NEW f \in Tables, NEW D, NEW W, NEW c, Sound(c), Safe(f, D, W, c), c.at = "link",
         NEW g, g = f \/ g = Stored(f, c)
  PROVE  /\ g = Stored(f, c) => Safe(g, D, W, Written(c))
         /\ Safe(g, D, W, NotWritten(c))
<1>1. /\ c \in Locals /\ Asked(c) /\ c.op \in {"write", "mkdir"} /\ c.left >= 1
      /\ c.cluster \in Clusters /\ Steady(f, W, c) /\ c.first # None
      /\ Gathers(f, c, {c.tail, c.chain, c.cluster})
      /\ f[c.cluster] = EOC /\ c.cluster \notin {c.tail, c.chain}
  BY DEF Sound, Ready, Safe, Takes
<1>2. Stored(f, c) = [f EXCEPT ![c.previous] = c.cluster]
  BY DEF Stored, Target, Value
<1>3. PICK N \in SUBSET Clusters :
        /\ Shut(f, N) /\ Used(f, N) /\ {c.first, c.previous} \subseteq N
        /\ {c.tail, c.chain, c.cluster} \cap N = {}
  BY <1>1 DEF Gathers, Taken
<1>4. /\ \A x \in Clusters : x # c.previous => g[x] = f[x]
      /\ g[c.previous] \in {f[c.previous], c.cluster}
  BY <1>2, <1>3 DEF Tables
<1>5. \A x \in Clusters : f[x] # None => g[x] # None
  BY <1>1, <1>4, NoCluster
<1>6. Steady(g, W, c)
  <2>1. Grounded(Stored(f, c))
    <3> DEFINE M == {c.cluster}
               k == c.cluster
               t == c.previous
    <3>1. Grounded(f) /\ Shut(f, M) /\ k \in M /\ t \notin M
      BY <1>1, <1>3, NoCluster DEF Shut, Steady
    <3>2. Stored(f, c) = [f EXCEPT ![t] = k]
      BY <1>2
    <3> HIDE DEF M, k, t
    <3> QED
      BY <3>1, <3>2, OneMoreLink
  <2>2. Grounded(g)
    BY <1>1, <2>1 DEF Steady
  <2>3. c.op = "write" /\ f[c.chain] # None /\ c.chain # None => g[c.chain] # None
    BY <1>1, <1>5 DEF Locals, OptionalClusters
  <2> QED
    BY <1>1, <2>2, <2>3 DEF Steady, Holds
<1>7. Tailed(g, c, c.tail)
  <2>1. c.tail \in OptionalClusters /\ c.chain \in OptionalClusters
    BY <1>1 DEF Locals
  <2> QED
    BY <1>1, <1>5, <2>1, NoCluster DEF Gathers, Extends, Tailed, OptionalClusters
<1>8. Taken(g, {c.first, c.cluster}, {c.tail, c.chain})
  <2> DEFINE R == N \cup {c.cluster}
  <2>1. R \in SUBSET Clusters /\ {c.first, c.cluster} \subseteq R /\ {c.tail, c.chain} \cap R = {}
    BY <1>1, <1>3
  <2>2. Shut(g, R)
    <3>1. g[c.cluster] = EOC
      BY <1>1, <1>3, <1>4
    <3> QED
      BY <1>3, <1>4, <2>1, <3>1, NoCluster DEF Shut
  <2>3. Used(g, R)
    BY <1>1, <1>3, <1>5, <2>1, NoCluster DEF Used
  <2> HIDE DEF R
  <2> QED
    BY <2>1, <2>2, <2>3 DEF Taken
<1>9. Away(g, c.first, c.chain)
  BY <1>8 DEF Taken, Away
<1>10. Written(c) = Linked(c) /\ NotWritten(c) = AllocFails(c)
  BY DEF Written, NotWritten
<1>11. Safe(g, D, W, Linked(c))
  BY <1>1, <1>6, <1>7, <1>8, LinkedSafe
<1>12. Safe(g, D, W, AllocFails(c))
  BY <1>1, <1>6, <1>9, AllocFailsSafe
<1> QED
  BY <1>10, <1>11, <1>12

LEMMA AppendSafe ==
  ASSUME NEW f \in Tables, NEW D, NEW W, NEW c, Sound(c), Safe(f, D, W, c), c.at = "append",
         NEW g, g = f \/ g = Stored(f, c)
  PROVE  /\ g = Stored(f, c) => Safe(g, D, W, Written(c))
         /\ Safe(g, D, W, NotWritten(c))
<1>1. /\ c \in Locals /\ Asked(c) /\ c.op = "write" /\ Steady(f, W, c)
      /\ c.tail # None /\ c.first # None /\ Taken(f, {c.first, c.previous}, {c.tail, c.chain})
  BY DEF Sound, Ready, Safe, Takes
<1>2. Stored(f, c) = [f EXCEPT ![c.tail] = c.first]
  BY DEF Stored, Target, Value
<1>3. PICK N \in SUBSET Clusters :
        /\ Shut(f, N) /\ {c.first, c.previous} \subseteq N /\ {c.tail, c.chain} \cap N = {}
  BY <1>1 DEF Taken
<1>4. Grounded(g) /\ Shut(g, N)
  <2>1. Grounded(Stored(f, c)) /\ Shut(Stored(f, c), N)
    <3> DEFINE k == c.first
               t == c.tail
    <3>1. Grounded(f) /\ Shut(f, N) /\ k \in N /\ t \notin N
      BY <1>1, <1>3 DEF Steady
    <3>2. Stored(f, c) = [f EXCEPT ![t] = k]
      BY <1>2
    <3> HIDE DEF k, t
    <3> QED
      BY <3>1, <3>2, OneMoreLink
  <2> QED
    BY <1>1, <1>3, <2>1 DEF Steady
<1>5. c.tail \in Clusters /\ c.first \in Clusters
  BY <1>1, <1>3 DEF Locals, OptionalClusters
<1>6. \A x \in Clusters : f[x] # None => g[x] # None
  BY <1>2, <1>5, NoCluster DEF Tables
<1>7. Steady(g, W, c)
  <2>1. f[c.chain] # None /\ c.chain # None => g[c.chain] # None
    BY <1>1, <1>6 DEF Locals, OptionalClusters
  <2> QED
    BY <1>1, <1>4, <2>1 DEF Steady, Holds
<1>8. Away(g, c.first, c.chain)
  BY <1>3, <1>4 DEF Away
<1>9. Written(c) = Resized(c) /\ NotWritten(c) = AllocFails(c)
  BY DEF Written, NotWritten
<1>10. Safe(g, D, W, Resized(c))
  BY <1>1, <1>7, ResizedSafe
<1>11. Safe(g, D, W, AllocFails(c))
  BY <1>1, <1>7, <1>8, AllocFailsSafe
<1> QED
  BY <1>9, <1>10, <1>11

LEMMA CutSafe ==
  ASSUME NEW f \in Tables, NEW D, NEW W, NEW c, Sound(c), Safe(f, D, W, c), c.at = "cut",
         NEW g, g = f \/ g = Stored(f, c)
  PROVE  /\ g = Stored(f, c) => Safe(g, D, W, Written(c))
         /\ Safe(g, D, W, NotWritten(c))
<1>1. /\ c \in Locals /\ c.op = "write" /\ Steady(f, W, c) /\ c.next \in Clusters
      /\ c.cluster \in Clusters /\ c.next = f[c.cluster] /\ Ahead(f, c.cluster, c.chain)
  BY DEF Sound, Ready, Safe, Follows
<1>2. Stored(f, c) = [f EXCEPT ![c.cluster] = EOC]
  BY DEF Stored, Target, Value
<1>3. \A x \in Clusters : (f[x] # None => g[x] # None) /\ (g[x] = f[x] \/ g[x] \notin Clusters)
  BY <1>1, <1>2, NoCluster DEF Tables
<1>4. Steady(g, W, c)
  <2>1. Grounded(g)
    BY <1>1, <1>3, FewerLinks DEF Steady
  <2>2. f[c.chain] # None /\ c.chain # None => g[c.chain] # None
    BY <1>1, <1>3 DEF Locals, OptionalClusters
  <2> QED
    BY <1>1, <2>1, <2>2 DEF Steady, Holds
<1>5. Away(g, c.next, c.chain)
  <2>1. PICK Q \in SUBSET Clusters : Shut(f, Q) /\ c.next \in Q /\ c.chain \notin Q
    BY <1>1 DEF Ahead
  <2>2. Shut(g, Q)
    BY <1>3, <2>1 DEF Shut
  <2> QED
    BY <2>1, <2>2 DEF Away
<1>6. Written(c) = freechain(c, c.next) /\ NotWritten(c) = Return(c, FALSE)
  BY DEF Written, NotWritten
<1>7. Safe(g, D, W, freechain(c, c.next))
  BY <1>1, <1>4, <1>5, freechainSafe
<1>8. Safe(g, D, W, Return(c, FALSE))
  BY <1>1, <1>4, ReturnSafe
<1> QED
  BY <1>6, <1>7, <1>8

LEMMA ClearSafe ==
  ASSUME NEW f \in Tables, NEW D, NEW W, NEW c, Sound(c), Safe(f, D, W, c), c.at = "clear",
         NEW g, g = f \/ g = Stored(f, c)
  PROVE  /\ g = Stored(f, c) => Safe(g, D, W, Written(c))
         /\ Safe(g, D, W, NotWritten(c))
<1>1. /\ c \in Locals /\ Asked(c) /\ c.op \in {"open", "unlink", "write", "mkdir"}
      /\ Steady(f, W, c) /\ c.next = f[c.cluster] /\ c.next \in Links
      /\ c.op = "write" => Away(f, c.cluster, c.chain)
  BY DEF Sound, Locals, Safe, Releases, Placed
<1>2. Stored(f, c) = [f EXCEPT ![c.cluster] = None]
  BY DEF Stored, Target, Value, None
<1>3. /\ \A x \in Clusters : x # c.cluster => g[x] = f[x]
      /\ \A x \in Clusters : g[x] = f[x] \/ g[x] \notin Clusters
  BY <1>2, NoCluster DEF Tables
<1>4. Steady(g, W, c)
  <2>1. Grounded(g)
    BY <1>1, <1>3, FewerLinks DEF Steady
  <2>2. c.op = "write" => c.chain # c.cluster
    BY <1>1 DEF Away
  <2>3. c.op = "write" /\ f[c.chain] # None /\ c.chain # None => g[c.chain] # None
    BY <1>1, <1>3, <2>2 DEF Locals, OptionalClusters
  <2> QED
    BY <1>1, <2>1, <2>3 DEF Steady, Holds
<1>5. c.op = "write" /\ c.next \in Clusters => Away(g, c.next, c.chain)
  <2> SUFFICES ASSUME c.op = "write", c.next \in Clusters
               PROVE  Away(g, c.next, c.chain)
    OBVIOUS
  <2>1. PICK Q \in SUBSET Clusters : Shut(f, Q) /\ c.cluster \in Q /\ c.chain \notin Q
    BY <1>1 DEF Away
  <2>2. Shut(g, Q) /\ c.next \in Q
    BY <1>1, <1>3, <2>1 DEF Shut
  <2> QED
    BY <2>1, <2>2 DEF Away
<1>6. \A ok \in BOOLEAN : Safe(g, D, W, Freed(c, ok))
  BY <1>1, <1>4, FreedSafe
<1>7. c.next \in Clusters => Safe(g, D, W, [Goto(c, "free") EXCEPT !.cluster = c.next])
  <2> SUFFICES ASSUME c.next \in Clusters
               PROVE  Safe(g, D, W, [Goto(c, "free") EXCEPT !.cluster = c.next])
    OBVIOUS
  <2> DEFINE d == [Goto(c, "free") EXCEPT !.cluster = c.next]
  <2>1. Same(c, d) /\ d.at = "free" /\ d.cluster = c.next /\ d.buffer = <<>>
    BY <1>1 DEF Goto, Same, Locals
  <2> HIDE DEF d
  <2>2. Steady(g, W, d) /\ d.op = c.op /\ d.chain = c.chain
    BY <1>4, <2>1, SteadyKept DEF Same
  <2>3. Safe(g, D, W, d)
    BY <1>1, <1>5, <2>1, <2>2
       DEF Safe, Takes, Releases, Follows, Renames, Buffered, Placed, FatWrites, DirWrites
  <2> QED
    BY <2>3 DEF d
<1>8. Safe(g, D, W, Cleared(c))
  <2>1. Cleared(c) \in {Freed(c, TRUE), Freed(c, FALSE)}
        \/ (c.next \in Clusters /\ Cleared(c) = [Goto(c, "free") EXCEPT !.cluster = c.next])
    BY <1>1, NoCluster DEF Cleared, Links
  <2> QED
    BY <1>6, <1>7, <2>1
<1>9. Written(c) = Cleared(c) /\ NotWritten(c) = Freed(c, FALSE)
  BY DEF Written, NotWritten
<1> QED
  BY <1>6, <1>8, <1>9

\* Every write to the table, done or not.
LEMMA StoredSafe ==
  ASSUME NEW f \in Tables, NEW D, NEW W, NEW c, Sound(c), Safe(f, D, W, c), c.at \in FatWrites
  PROVE  /\ Safe(Stored(f, c), D, W, Written(c))
         /\ Safe(Stored(f, c), D, W, NotWritten(c)) /\ Safe(f, D, W, NotWritten(c))
<1> DEFINE g == Stored(f, c)
<1>1. \A h : h = f \/ h = g => /\ h = g => Safe(h, D, W, Written(c))
                               /\ Safe(h, D, W, NotWritten(c))
  BY MarkSafe, LinkSafe, AppendSafe, CutSafe, ClearSafe DEF FatWrites
<1> QED
  BY <1>1


-----------------------------------------------------------------------------
(* The directory.                                                          *)

\* rename: the new entry gets the chain of the old one.
LEMMA NewNameSafe ==
  ASSUME NEW f, NEW D \in Directories, NEW W, NEW c, Sound(c), Safe(f, D, W, c),
         c.op = "rename", c.at = "entry"
  PROVE  Safe(f, Named(D, c), W, Goto(c, "attribute"))
<1> DEFINE E == Named(D, c)
           d == Goto(c, "attribute")
<1>1. /\ c \in Locals /\ Steady(f, W, c) /\ {c.slot, c.to} \subseteq Slots
      /\ D[c.to].kind = "free" /\ D[c.slot].kind # "free" /\ D[c.slot].first_cluster = c.chain
      /\ c.kind # "free"
  BY DEF Sound, Safe, Renames
<1>2. E[c.to] = NewEntry(c, D[c.to]) /\ \A t \in Slots : t # c.to => E[t] = D[t]
  BY <1>1, PlaceIs, NamedAt
<1>3. E[c.to].kind = "file" /\ E[c.to].first_cluster = c.chain
  BY <1>2 DEF NewEntry
<1>4. Same(c, d) /\ d.at = "attribute" /\ d.kind = c.kind /\ d.buffer = <<>>
  BY <1>1 DEF Goto, Same, Locals
<1> HIDE DEF d, E
<1>5. Steady(f, W, d) /\ d.op = "rename" /\ d.slot = c.slot /\ d.to = c.to
  BY <1>1, <1>4, SteadyKept DEF Same
<1>6. Renames(E, d)
  BY <1>1, <1>2, <1>3, <1>4, <1>5 DEF Renames
<1> QED
  BY <1>4, <1>5, <1>6
     DEF Safe, Takes, Releases, Follows, Buffered, Placed, FatWrites, DirWrites, d, E

\* rename: the new entry gets the attribute of the old one, or does not.
LEMMA AttributeSafe ==
  ASSUME NEW f, NEW D \in Directories, NEW W, NEW c, Sound(c), Safe(f, D, W, c),
         c.op = "rename", c.at = "attribute", NEW E, E = D \/ E = Named(D, c)
  PROVE  Safe(f, E, W, Goto(c, "erase"))
<1> DEFINE d == Goto(c, "erase")
<1>1. /\ c \in Locals /\ Steady(f, W, c) /\ {c.slot, c.to} \subseteq Slots /\ c.to # c.slot
      /\ D[c.to].kind # "free" /\ c.kind # "free"
      /\ D[c.slot].kind # "free" => D[c.to].first_cluster = D[c.slot].first_cluster
  BY DEF Sound, Safe, Renames
<1>2. E[c.slot] = D[c.slot] /\ E[c.to] \in {D[c.to], NewEntry(c, D[c.to])}
  BY <1>1, PlaceIs, NamedAt
<1>3. /\ NewEntry(c, D[c.to]).kind = c.kind
      /\ NewEntry(c, D[c.to]).first_cluster = D[c.to].first_cluster
  <2>1. D[c.to] \in Entries
    BY <1>1 DEF Directories
  <2>2. NewEntry(c, D[c.to]) = [D[c.to] EXCEPT !.kind = c.kind]
    BY DEF NewEntry
  <2> QED
    BY <2>1, <2>2 DEF Entries
<1>4. E[c.to].kind # "free" /\ E[c.to].first_cluster = D[c.to].first_cluster
  BY <1>1, <1>2, <1>3
<1>5. Same(c, d) /\ d.at = "erase" /\ d.buffer = <<>>
  BY <1>1 DEF Goto, Same, Locals
<1> HIDE DEF d
<1>6. Steady(f, W, d) /\ d.op = "rename" /\ d.slot = c.slot /\ d.to = c.to
  BY <1>1, <1>5, SteadyKept DEF Same
<1>7. Renames(E, d)
  BY <1>1, <1>2, <1>4, <1>5, <1>6 DEF Renames
<1> QED
  BY <1>5, <1>6, <1>7
     DEF Safe, Takes, Releases, Follows, Buffered, Placed, FatWrites, DirWrites, d

\* Every write to the directory, done or not.
LEMMA NamedSafe ==
  ASSUME NEW f, NEW D \in Directories, NEW W, NEW c, Sound(c), Safe(f, D, W, c),
         c.at \in DirWrites
  PROVE  /\ Safe(f, Named(D, c), W, AfterEntry(c, TRUE))
         /\ Safe(f, D, W, AfterEntry(c, FALSE))
<1>1. c \in Locals /\ Steady(f, W, c) /\ c.op # "none"
  BY DEF Sound, Safe, Placed, DirWrites
<1>2. \A E, ok : Safe(f, E, W, Return(c, ok))
  BY <1>1, ReturnSafe
<1>3. c.op = "write" => \A E, ok : Safe(f, E, W, EntryWritten(c, ok))
  BY <1>1, EntryWrittenSafe
<1>4. c.op = "rename" /\ c.at = "entry" => Safe(f, Named(D, c), W, Goto(c, "attribute"))
  BY NewNameSafe
<1>5. c.op = "rename" /\ c.at = "attribute" =>
        Safe(f, Named(D, c), W, Goto(c, "erase")) /\ Safe(f, D, W, Goto(c, "erase"))
  BY AttributeSafe
<1>6. CASE c.op = "write"
  BY <1>3, <1>6 DEF AfterEntry
<1>7. CASE c.op = "rename" /\ c.at = "entry"
  BY <1>2, <1>4, <1>7 DEF AfterEntry
<1>8. CASE c.op = "rename" /\ c.at = "attribute"
  BY <1>5, <1>8 DEF AfterEntry
<1>9. CASE c.op # "write" /\ ~(c.op = "rename" /\ c.at \in {"entry", "attribute"})
  <2>1. AfterEntry(c, TRUE) = Return(c, TRUE) /\ AfterEntry(c, FALSE) = Return(c, FALSE)
    BY <1>9 DEF AfterEntry
  <2> QED
    BY <1>2, <2>1
<1> QED
  BY <1>6, <1>7, <1>8, <1>9

\* A sector has been read.
LEMMA BufferSafe ==
  ASSUME NEW f, NEW D, NEW W, NEW c \in Locals, Safe(f, D, W, c), NEW b,
         \/ c.at \in FatWrites /\ b = f
         \/ c.at \in DirWrites /\ b = D
  PROVE  Safe(f, D, W, [c EXCEPT !.buffer = b])
<1> DEFINE d == [c EXCEPT !.buffer = b]
<1>1. /\ d.op = c.op /\ d.fd = c.fd /\ d.slot = c.slot /\ d.to = c.to /\ d.chain = c.chain
      /\ d.at = c.at /\ d.kind = c.kind /\ d.cluster = c.cluster /\ d.next = c.next
      /\ d.first = c.first /\ d.previous = c.previous /\ d.tail = c.tail /\ d.buffer = b
  BY DEF Locals
<1> HIDE DEF d
<1>2. Steady(f, W, d) /\ Placed(d) /\ Renames(D, d)
  BY <1>1 DEF Safe, Steady, Holds, Placed, Renames
<1>3. Buffered(f, D, d)
  BY <1>1 DEF Buffered, FatWrites, DirWrites
<1>4. Takes(f, d)
  BY <1>1 DEF Safe, Takes, Gathers, Extends, Tailed
<1>5. Releases(f, d) /\ Follows(f, d)
  BY <1>1 DEF Safe, Releases, Follows, Passed
<1> QED
  BY <1>2, <1>3, <1>4, <1>5 DEF Safe, d

\* The entry has been read into u.
LEMMA OpenedSafe ==
  ASSUME NEW f, NEW D, NEW W, NEW u \in Locals, Steady(f, W, u), u.slot \in Slots,
         u.op \in {"open", "unlink", "rename"}, u.kind = D[u.slot].kind,
         u.chain = D[u.slot].first_cluster, u.kind # "free"
  PROVE  /\ Safe(f, D, W, Return(u, TRUE))
         /\ u.op = "open" /\ u.chain = None => Safe(f, D, W, [Goto(u, "entry") EXCEPT !.size = 0])
         /\ u.op # "rename" => Safe(f, D, W, freechain(u, u.chain))
         /\ u.op = "unlink" => Safe(f, D, W, Goto(u, "erase"))
         /\ u.op = "rename" => Safe(f, D, W, Goto(u, "place"))
<1>1. Safe(f, D, W, Return(u, TRUE))
  BY ReturnSafe
<1>2. ASSUME u.op = "open", u.chain = None
      PROVE  Safe(f, D, W, [Goto(u, "entry") EXCEPT !.size = 0])
  <2> DEFINE d == [Goto(u, "entry") EXCEPT !.size = 0]
  <2>1. Same(u, d) /\ d.at = "entry" /\ d.buffer = <<>>
    BY DEF Goto, Same, Locals
  <2> HIDE DEF d
  <2>2. Steady(f, W, d) /\ d.op = "open" /\ d.chain = None
    BY <1>2, <2>1, SteadyKept DEF Same
  <2>3. Safe(f, D, W, d)
    BY <2>1, <2>2
       DEF Safe, Takes, Releases, Follows, Renames, Buffered, Placed, FatWrites, DirWrites
  <2> QED
    BY <2>3 DEF d
<1>3. u.op # "rename" => Safe(f, D, W, freechain(u, u.chain))
  BY freechainSafe
<1>4. ASSUME u.op = "unlink"
      PROVE  Safe(f, D, W, Goto(u, "erase"))
  <2> DEFINE d == Goto(u, "erase")
  <2>1. Same(u, d) /\ d.at = "erase" /\ d.buffer = <<>>
    BY DEF Goto, Same, Locals
  <2> HIDE DEF d
  <2>2. Steady(f, W, d) /\ d.op = "unlink"
    BY <1>4, <2>1, SteadyKept DEF Same
  <2>3. Safe(f, D, W, d)
    BY <2>1, <2>2
       DEF Safe, Takes, Releases, Follows, Renames, Buffered, Placed, FatWrites, DirWrites
  <2> QED
    BY <2>3 DEF d
<1>5. ASSUME u.op = "rename"
      PROVE  Safe(f, D, W, Goto(u, "place"))
  <2> DEFINE d == Goto(u, "place")
  <2>1. Same(u, d) /\ d.at = "place" /\ d.kind = u.kind
    BY DEF Goto, Same, Locals
  <2> HIDE DEF d
  <2>2. Steady(f, W, d) /\ d.op = "rename" /\ d.slot = u.slot /\ d.chain = u.chain
    BY <1>5, <2>1, SteadyKept DEF Same
  <2>3. Safe(f, D, W, d)
    BY <2>1, <2>2
       DEF Safe, Takes, Releases, Follows, Renames, Buffered, Placed, FatWrites, DirWrites
  <2> QED
    BY <2>3 DEF d
<1> QED
  BY <1>1, <1>2, <1>3, <1>4, <1>5

\* mkdir and rename have found a place for their entry.
LEMMA PlacedSafe ==
  ASSUME NEW f, NEW D, NEW W, NEW c \in Locals, Safe(f, D, W, c), c.at = "place",
         NEW t \in Slots, D[t].kind = "free"
  PROVE  Safe(f, D, W, [Goto(c, "entry") EXCEPT !.to = t])
<1> DEFINE d == [Goto(c, "entry") EXCEPT !.to = t]
<1>1. /\ d.op = c.op /\ d.fd = c.fd /\ d.slot = c.slot /\ d.chain = c.chain /\ d.first = c.first
      /\ d.kind = c.kind /\ d.to = t /\ d.at = "entry" /\ d.buffer = <<>>
  BY DEF Goto, Locals
<1> HIDE DEF d
<1>2. c.op \in {"mkdir", "rename"} /\ Steady(f, W, c) /\ Takes(f, c) /\ Renames(D, c)
  BY DEF Safe, Placed
<1>3. Steady(f, W, d)
  BY <1>1, <1>2 DEF Steady, Holds
<1>4. Takes(f, d)
  BY <1>1, <1>2 DEF Takes
<1>5. Renames(D, d)
  BY <1>1, <1>2 DEF Renames
<1> QED
  BY <1>1, <1>2, <1>3, <1>4, <1>5
     DEF Safe, Releases, Follows, Buffered, Placed, FatWrites, DirWrites, d

LEMMA IdleSafe ==
  ASSUME NEW f, NEW D, NEW W, Grounded(f)
  PROVE  Safe(f, D, W, Idle)
BY DEF Idle, Safe, Steady, Holds, Takes, Releases, Follows, Renames, Buffered, Placed,
       FatWrites, DirWrites

LEMMA LookupBeginsSafe ==
  ASSUME NEW f, NEW D, NEW W, Grounded(f), NEW d, d.to = 0,
         d.op \in {"open", "unlink", "rename"}, d.at = "lookup"
  PROVE  Safe(f, D, W, d)
BY DEF Safe, Steady, Holds, Takes, Releases, Follows, Renames, Buffered, Placed,
       FatWrites, DirWrites

LEMMA mkdirBeginsSafe ==
  ASSUME NEW f, NEW D, NEW W, Grounded(f)
  PROVE  Safe(f, D, W, allocchain([Idle EXCEPT !.op = "mkdir"], 1, None))
<1> DEFINE u == [Idle EXCEPT !.op = "mkdir"]
<1>1. Idle \in Locals /\ "mkdir" \in Operations
  BY IdleIsSound DEF Sound, Operations
<1>2. u \in Locals /\ u.op = "mkdir" /\ u.chain = None
  BY <1>1 DEF Idle, Locals
<1> HIDE DEF u
<1>3. Steady(f, W, u) /\ Tailed(f, u, None)
  BY <1>2 DEF Steady, Holds, Tailed
<1>4. Safe(f, D, W, allocchain(u, 1, None))
  BY <1>2, <1>3, allocchainSafe
<1> QED
  BY <1>4 DEF u


-----------------------------------------------------------------------------
(* The steps of one task.                                                  *)

\* One task uses the volume: it may do what it likes to open files, and any write
\* may fail, but no read of the table does.
Solo(p) == Callers = {p} /\ MaxBadReads = 0

CallIsSafe(p) == Safe(fat, dir, fd_table, call[p])

LEMMA SoloAndTyped ==
  ASSUME TypeInv, NEW p, Solo(p)
  PROVE  /\ p \in Callers /\ Sound(call[p]) /\ call[p] \in Locals
         /\ call \in [Callers -> Locals] /\ fat \in Tables /\ dir \in Directories
         /\ fd_table \in Heads /\ badReads = 0
BY DEF TypeInv, VolumeTyped, Solo, Sound, Tables, Directories, Heads

LEMMA StepIsSafe ==
  ASSUME TypeInv, NEW p, Solo(p), NEW c, Step(p, c), Safe(fat', dir', fd_table, c)
  PROVE  CallIsSafe(p)'
BY SoloAndTyped DEF Step, CallIsSafe

LEMMA ReadsSafe ==
  ASSUME TypeInv, NEW p, Solo(p), CallIsSafe(p),
         Scan(p) \/ ReadToFree(p) \/ chain_length(p) \/ get_nth_cluster(p) \/ ReadToCut(p)
  PROVE  CallIsSafe(p)'
<1> DEFINE c == call[p]
           v == fat[c.cluster]
<1>1. Sound(c) /\ fat \in Tables /\ badReads = 0 /\ MaxBadReads = 0
  BY SoloAndTyped DEF Solo
<1>2. Safe(fat, dir, fd_table, c)
  BY DEF CallIsSafe
<1>3. \A u \in Links : readcluster(c.cluster, u) => u = v
  BY <1>1 DEF readcluster
<1>4. UNCHANGED <<fat, dir>>
  BY DEF Scan, ReadToFree, chain_length, get_nth_cluster, ReadToCut, Reads
<1> HIDE DEF c, v
<1>5. ASSUME NEW d, Step(p, d), Safe(fat, dir, fd_table, d)
      PROVE  CallIsSafe(p)'
  BY <1>4, <1>5, StepIsSafe
<1>6. CASE Scan(p)
  <2>1. Step(p, Scanned(c, v)) /\ c.at = "scan"
    BY <1>3, <1>6 DEF Scan, Reads, At, c
  <2> QED
    BY <1>1, <1>2, <1>5, <2>1, ScannedSafe DEF v
<1>7. CASE ReadToFree(p)
  <2>1. Step(p, ToClear(c, v)) /\ c.at = "free"
    BY <1>3, <1>7 DEF ReadToFree, Reads, At, c
  <2> QED
    BY <1>1, <1>2, <1>5, <2>1, ToClearSafe DEF v
<1>8. CASE chain_length(p)
  <2>1. Step(p, Counted(c, v)) /\ c.at = "length"
    BY <1>3, <1>8 DEF chain_length, Reads, At, c
  <2> QED
    BY <1>1, <1>2, <1>5, <2>1, CountedSafe DEF v
<1>9. CASE get_nth_cluster(p)
  <2>1. Step(p, Walked(c, v)) /\ c.at = "nth"
    BY <1>3, <1>9 DEF get_nth_cluster, Reads, At, c
  <2> QED
    BY <1>1, <1>2, <1>5, <2>1, WalkedSafe DEF v
<1>10. CASE ReadToCut(p)
  <2>1. Step(p, ToCut(c, v)) /\ c.at = "next"
    BY <1>3, <1>10 DEF ReadToCut, Reads, At, c
  <2> QED
    BY <1>1, <1>2, <1>5, <2>1, ToCutSafe DEF v
<1> QED
  BY <1>6, <1>7, <1>8, <1>9, <1>10

\* How a step changes the volume.
Writes(p) ==
  \/ UNCHANGED <<fat, dir>>
  \/ call[p].at \in FatWrites /\ fat' = Stored(fat, call[p]) /\ UNCHANGED dir
  \/ call[p].at \in DirWrites /\ dir' = Named(dir, call[p]) /\ UNCHANGED fat

LEMMA WritesSafe ==
  ASSUME TypeInv, NEW p, Solo(p), CallIsSafe(p),
         ReadSector(p) \/ writecluster(p) \/ ReadDirectory(p) \/ WriteDirectory(p)
  PROVE  CallIsSafe(p)' /\ Writes(p)
<1> DEFINE c == call[p]
<1>1. Sound(c) /\ c \in Locals /\ fat \in Tables /\ dir \in Directories
  BY SoloAndTyped
<1>2. Safe(fat, dir, fd_table, c)
  BY DEF CallIsSafe
<1>3. c.at \in FatWrites => c.buffer \in {<<>>, fat}
  BY <1>2 DEF Safe, Buffered
<1>4. c.at \in DirWrites => c.buffer \in {<<>>, dir}
  BY <1>2 DEF Safe, Buffered
<1> HIDE DEF c
<1>5. CASE ReadSector(p)
  <2>1. /\ c.at \in FatWrites /\ Step(p, [c EXCEPT !.buffer = fat]) /\ UNCHANGED <<fat, dir>>
    BY <1>5 DEF ReadSector, c
  <2>2. Safe(fat, dir, fd_table, [c EXCEPT !.buffer = fat])
    BY <1>1, <1>2, <2>1, BufferSafe
  <2> QED
    BY <2>1, <2>2, StepIsSafe DEF Writes
<1>6. CASE writecluster(p)
  <2>1. /\ c.at \in FatWrites /\ c.buffer = fat /\ Store(c) /\ Step(p, Written(c))
        /\ UNCHANGED dir
    BY <1>3, <1>6 DEF writecluster, c
  <2>2. fat' = Stored(fat, c)
    BY <2>1 DEF Store, Stored
  <2>3. Safe(Stored(fat, c), dir, fd_table, Written(c))
    BY <1>1, <1>2, <2>1, StoredSafe
  <2> QED
    BY <2>1, <2>2, <2>3, StepIsSafe DEF Writes, c
<1>7. CASE ReadDirectory(p)
  <2>1. /\ c.at \in DirWrites /\ Step(p, [c EXCEPT !.buffer = dir]) /\ UNCHANGED <<fat, dir>>
    BY <1>7 DEF ReadDirectory, c
  <2>2. Safe(fat, dir, fd_table, [c EXCEPT !.buffer = dir])
    BY <1>1, <1>2, <2>1, BufferSafe
  <2> QED
    BY <2>1, <2>2, StepIsSafe DEF Writes
<1>8. CASE WriteDirectory(p)
  <2>1. /\ c.at \in DirWrites /\ c.buffer = dir /\ Step(p, AfterEntry(c, TRUE)) /\ UNCHANGED fat
        /\ dir' = [c.buffer EXCEPT ![Place(c)] = NewEntry(c, c.buffer[Place(c)])]
    BY <1>4, <1>8 DEF WriteDirectory, c
  <2>2. dir' = Named(dir, c)
    BY <2>1 DEF Named
  <2>3. Safe(fat, Named(dir, c), fd_table, AfterEntry(c, TRUE))
    BY <1>1, <1>2, <2>1, NamedSafe
  <2> QED
    BY <2>1, <2>2, <2>3, StepIsSafe DEF Writes, c
<1> QED
  BY <1>5, <1>6, <1>7, <1>8

LEMMA FailsSafe ==
  ASSUME TypeInv, NEW p, Solo(p), CallIsSafe(p), WriteFails(p) \/ WriteDirectoryFails(p)
  PROVE  CallIsSafe(p)' /\ Writes(p)
<1> DEFINE c == call[p]
<1>1. Sound(c) /\ fat \in Tables /\ dir \in Directories
  BY SoloAndTyped
<1>2. Safe(fat, dir, fd_table, c)
  BY DEF CallIsSafe
<1>3. c.at \in FatWrites => c.buffer \in {<<>>, fat}
  BY <1>2 DEF Safe, Buffered
<1> HIDE DEF c
<1>4. CASE WriteFails(p)
  <2>1. /\ c.at \in FatWrites /\ Step(p, NotWritten(c)) /\ UNCHANGED dir
        /\ UNCHANGED fat \/ (c.buffer # <<>> /\ Store(c))
    BY <1>4 DEF WriteFails, c
  <2>2. UNCHANGED fat \/ fat' = Stored(fat, c)
    BY <1>3, <2>1 DEF Store, Stored
  <2>3. Safe(Stored(fat, c), dir, fd_table, NotWritten(c)) /\ Safe(fat, dir, fd_table, NotWritten(c))
    BY <1>1, <1>2, <2>1, StoredSafe
  <2> QED
    BY <2>1, <2>2, <2>3, StepIsSafe DEF Writes, c
<1>5. CASE WriteDirectoryFails(p)
  <2>1. c.at \in DirWrites /\ Step(p, AfterEntry(c, FALSE)) /\ UNCHANGED <<fat, dir>>
    BY <1>5 DEF WriteDirectoryFails, c
  <2>2. Safe(fat, dir, fd_table, AfterEntry(c, FALSE))
    BY <1>1, <1>2, <2>1, NamedSafe
  <2> QED
    BY <2>1, <2>2, StepIsSafe DEF Writes
<1> QED
  BY <1>4, <1>5

LEMMA LookupSafe ==
  ASSUME TypeInv, NEW p, Solo(p), CallIsSafe(p), Lookup(p)
  PROVE  CallIsSafe(p)'
<1> DEFINE c == call[p]
           e == dir[c.slot]
           u == [c EXCEPT !.kind = e.kind, !.chain = e.first_cluster,
                          !.size = e.size, !.gap = FALSE]
<1>1. Sound(c) /\ c \in Locals /\ dir \in Directories
  BY SoloAndTyped
<1>2. /\ c.at = "lookup" /\ c.op \in {"open", "unlink", "rename"} /\ c.slot \in Slots
      /\ UNCHANGED <<fat, dir>>
  BY <1>1 DEF Lookup, At, Sound, Ready
<1>3. Steady(fat, fd_table, c)
  BY DEF CallIsSafe, Safe
<1>4. /\ e.kind \in {"free", "file", "directory"} /\ e.first_cluster \in OptionalClusters
      /\ e.size \in Sizes
  BY <1>1, <1>2 DEF Directories, Entries, Kinds, OptionalClusters, Sizes
<1>5. u \in Locals
  <2>1. e.kind \in Kinds
    BY <1>4 DEF Kinds
  <2>2. [c EXCEPT !.kind = e.kind, !.chain = e.first_cluster] \in Locals
    BY <1>1, <1>4, <2>1, Updates
  <2>3. ASSUME NEW d \in Locals PROVE [d EXCEPT !.size = e.size, !.gap = FALSE] \in Locals
    BY <1>4, Updates
  <2> QED
    BY <2>2, <2>3
<1>6. /\ u.op = c.op /\ u.slot = c.slot /\ u.to = c.to /\ u.kind = e.kind
      /\ u.chain = e.first_cluster
  BY <1>1 DEF Locals
<1>7. ASSUME NEW d, Step(p, d), Safe(fat, dir, fd_table, d)
      PROVE  CallIsSafe(p)'
  BY <1>2, <1>7, StepIsSafe
<1>8. CASE e.kind = "free" \/ (c.op = "open" /\ e.kind = "directory")
  <2>1. Step(p, Return(c, FALSE))
    BY <1>8 DEF Lookup
  <2> HIDE DEF c
  <2>2. Safe(fat, dir, fd_table, Return(c, FALSE))
    BY <1>1, <1>2, <1>3, ReturnSafe
  <2> QED
    BY <1>7, <2>1, <2>2
<1>9. CASE ~(e.kind = "free" \/ (c.op = "open" /\ e.kind = "directory"))
  <2> DEFINE one == Return(u, TRUE)
             two == [Goto(u, "entry") EXCEPT !.size = 0]
             three == freechain(u, e.first_cluster)
             four == Goto(u, "erase")
             five == Goto(u, "place")
  <2>1. c.op = "open" => Step(p, IF ~c.gap THEN one
                                 ELSE IF e.first_cluster = None THEN two ELSE three)
    BY <1>4, <1>9 DEF Lookup
  <2>2. c.op = "unlink" => Step(p, IF e.first_cluster = None THEN four ELSE three)
    BY <1>9 DEF Lookup
  <2>3. c.op = "rename" => Step(p, five)
    BY <1>9 DEF Lookup
  <2> HIDE DEF c, e, u
  <2>4. Steady(fat, fd_table, u)
    BY <1>2, <1>3, <1>6 DEF Steady, Holds
  <2>5. u.op \in {"open", "unlink", "rename"} /\ u.kind # "free" /\ u.slot \in Slots
    BY <1>2, <1>6, <1>9
  <2>6. u.kind = dir[u.slot].kind /\ u.chain = dir[u.slot].first_cluster
    BY <1>6 DEF e
  <2>7. /\ Safe(fat, dir, fd_table, one)
        /\ u.op = "open" /\ u.chain = None => Safe(fat, dir, fd_table, two)
        /\ u.op # "rename" => Safe(fat, dir, fd_table, freechain(u, u.chain))
        /\ u.op = "unlink" => Safe(fat, dir, fd_table, four)
        /\ u.op = "rename" => Safe(fat, dir, fd_table, five)
    BY <1>5, <2>4, <2>5, <2>6, OpenedSafe
  <2>8. three = freechain(u, u.chain)
    BY <1>6
  <2> HIDE DEF one, two, three, four, five
  <2>9. CASE c.op = "open"
    <3>1. Step(p, one) \/ (Step(p, two) /\ u.chain = None) \/ Step(p, three)
      BY <1>6, <2>1, <2>9
    <3> QED
      BY <1>6, <1>7, <2>7, <2>8, <2>9, <3>1
  <2>10. CASE c.op = "unlink"
    <3>1. Step(p, four) \/ Step(p, three)
      BY <2>2, <2>10
    <3> QED
      BY <1>6, <1>7, <2>7, <2>8, <2>10, <3>1
  <2>11. CASE c.op = "rename"
    BY <1>6, <1>7, <2>3, <2>7, <2>11
  <2> QED
    BY <1>2, <2>9, <2>10, <2>11
<1> QED
  BY <1>8, <1>9

LEMMA findfreeslotsSafe ==
  ASSUME TypeInv, NEW p, Solo(p), CallIsSafe(p), findfreeslots(p)
  PROVE  CallIsSafe(p)'
<1> DEFINE c == call[p]
           free == {s \in Slots : dir[s].kind = "free"}
           t == Least(free)
<1>1. /\ c \in Locals /\ c.at = "place" /\ Safe(fat, dir, fd_table, c) /\ UNCHANGED <<fat, dir>>
  BY SoloAndTyped DEF findfreeslots, At, CallIsSafe
<1>2. CASE free = {}
  <2>1. Step(p, Return(c, FALSE))
    BY <1>2 DEF findfreeslots
  <2> HIDE DEF c
  <2>2. Steady(fat, fd_table, c) /\ c.op # "none"
    BY <1>1 DEF Safe, Placed
  <2>3. Safe(fat, dir, fd_table, Return(c, FALSE))
    BY <1>1, <2>2, ReturnSafe
  <2> QED
    BY <1>1, <2>1, <2>3, StepIsSafe
<1>3. CASE free # {}
  <2>1. Step(p, [Goto(c, "entry") EXCEPT !.to = t])
    BY <1>3 DEF findfreeslots
  <2>2. t \in free
    BY <1>3, LeastIsIn, FatAssumption
  <2>3. t \in Slots /\ dir[t].kind = "free"
    BY <2>2
  <2> HIDE DEF c, t
  <2>4. Safe(fat, dir, fd_table, [Goto(c, "entry") EXCEPT !.to = t])
    BY <1>1, <2>3, PlacedSafe
  <2> QED
    BY <1>1, <2>1, <2>4, StepIsSafe
<1> QED
  BY <1>2, <1>3

\* The call returns, or is cut short.
LEMMA EndsSafe ==
  ASSUME TypeInv, NEW p, Solo(p), CallIsSafe(p), Returns(p) \/ TaskKilled(p) \/ PowerCut
  PROVE  CallIsSafe(p)' /\ UNCHANGED <<fat, dir>>
<1>1. call'[p] = Idle /\ UNCHANGED <<fat, dir>>
  BY SoloAndTyped DEF Returns, TaskKilled, PowerCut
<1>2. Grounded(fat)
  BY DEF CallIsSafe, Safe, Steady
<1>3. \A W : Safe(fat, dir, W, Idle)
  BY <1>2, IdleSafe
<1> QED
  BY <1>1, <1>3 DEF CallIsSafe

LEMMA BeginSafe ==
  ASSUME TypeInv, NEW p, Solo(p), CallIsSafe(p), Begin(p)
  PROVE  CallIsSafe(p)' /\ UNCHANGED <<fat, dir>>
<1>0. fd_table \in Heads /\ p \in Callers /\ Idle \in Locals /\ Grounded(fat)
  BY SoloAndTyped, IdleIsSound DEF Sound, CallIsSafe, Safe, Steady
<1>1. ASSUME NEW d, Start(p, d), Safe(fat, dir, fd_table, d)
      PROVE  CallIsSafe(p)' /\ UNCHANGED <<fat, dir>>
  <2>1. Step(p, d) /\ UNCHANGED <<fat, dir>>
    BY <1>1 DEF Start
  <2> QED
    BY <1>1, <2>1, StepIsSafe
<1>2. CASE sys_open_handler(p)
  <2> DEFINE o == Least({d \in Descriptors : ~fd_table[d].open})
  <2>1. PICK s \in Slots, truncate \in BOOLEAN :
          Start(p, [Goto(Idle, "lookup") EXCEPT
                      !.op = "open", !.fd = o, !.slot = s, !.gap = truncate])
    BY <1>2 DEF sys_open_handler
  <2> HIDE DEF o
  <2> DEFINE d == [Goto(Idle, "lookup") EXCEPT
                     !.op = "open", !.fd = o, !.slot = s, !.gap = truncate]
  <2>2. d.op = "open" /\ d.at = "lookup" /\ d.to = 0 /\ Start(p, d)
    BY <2>1 DEF Goto, Idle
  <2> HIDE DEF d
  <2> QED
    BY <1>0, <1>1, <2>2, LookupBeginsSafe
<1>3. ASSUME NEW op \in {"unlink", "rename"}, NEW s \in Slots,
             Start(p, [Goto(Idle, "lookup") EXCEPT !.op = op, !.slot = s])
      PROVE  CallIsSafe(p)' /\ UNCHANGED <<fat, dir>>
  <2> DEFINE d == [Goto(Idle, "lookup") EXCEPT !.op = op, !.slot = s]
  <2>1. d.op = op /\ d.at = "lookup" /\ d.to = 0 /\ Start(p, d)
    BY <1>3 DEF Goto, Idle
  <2> HIDE DEF d
  <2> QED
    BY <1>0, <1>1, <2>1, LookupBeginsSafe
<1>4. CASE fat_unlink(p)
  BY <1>3, <1>4 DEF fat_unlink
<1>5. CASE fat_rename(p)
  BY <1>3, <1>5 DEF fat_rename
<1>6. CASE fat_mkdir(p)
  BY <1>0, <1>1, <1>6, mkdirBeginsSafe DEF fat_mkdir
<1>7. CASE fat_write(p)
  <2>1. PICK d \in Descriptors, n \in 1 .. MaxSize, m \in Sizes :
          LET f == fd_table[d]
              c == [Idle EXCEPT !.op = "write", !.fd = d, !.slot = f.slot,
                                !.chain = f.first_cluster, !.size = f.size, !.goal = n]
          IN  /\ fd_table[d].open
              /\ \/ Start(p, Resize([c EXCEPT !.count = n]))
                 \/ Start(p, resizechain([c EXCEPT !.count = m, !.position = m, !.gap = TRUE]))
    BY <1>7 DEF fat_write, Usable
  <2> DEFINE f == fd_table[d]
             c == [Idle EXCEPT !.op = "write", !.fd = d, !.slot = f.slot,
                               !.chain = f.first_cluster, !.size = f.size, !.goal = n]
             u == [c EXCEPT !.count = n]
             w == [c EXCEPT !.count = m, !.position = m, !.gap = TRUE]
  <2>2. f \in OpenFiles /\ f.open
    BY <1>0, <2>1 DEF Heads
  <2>3. f.slot \in Slots \cup {0} /\ f.first_cluster \in OptionalClusters /\ f.size \in Sizes
    BY <2>2 DEF OpenFiles
  <2>4. n \in Sizes
    BY FatAssumption DEF Sizes
  <2>5. Start(p, Resize(u)) \/ Start(p, resizechain(w))
    BY <2>1
  <2> HIDE DEF f
  <2>6. c \in Locals
    <3>1. "write" \in Operations /\ d \in Descriptors \cup {0}
      BY DEF Operations
    <3>2. [Idle EXCEPT !.op = "write", !.fd = d] \in Locals
      BY <1>0, <3>1, Updates
    <3>3. ASSUME NEW e \in Locals
          PROVE  [e EXCEPT !.slot = f.slot, !.chain = f.first_cluster] \in Locals
      BY <2>3, Updates
    <3>4. ASSUME NEW e \in Locals
          PROVE  [e EXCEPT !.size = f.size, !.goal = n] \in Locals
      BY <2>3, <2>4, Updates
    <3> QED
      BY <3>2, <3>3, <3>4
  <2>7. c.op = "write" /\ c.fd = d /\ c.to = 0 /\ c.chain = f.first_cluster
    BY DEF Idle
  <2> HIDE DEF c
  <2>8. Same(c, u) /\ Same(c, w)
    BY <2>6 DEF Same, Locals
  <2>9. u \in Locals
    BY <2>4, <2>6, Updates
  <2>10. w \in Locals
    <3>1. [c EXCEPT !.count = m, !.position = m] \in Locals
      BY <2>6, Updates
    <3>2. ASSUME NEW e \in Locals PROVE [e EXCEPT !.gap = TRUE] \in Locals
      BY Updates
    <3> QED
      BY <3>1, <3>2
  <2> HIDE DEF u, w
  <2>11. Steady(fat, fd_table, c)
    BY <1>0, <2>2, <2>7 DEF Steady, Holds, f
  <2>12. /\ Steady(fat, fd_table, u) /\ Steady(fat, fd_table, w)
         /\ u.op = "write" /\ w.op = "write"
    BY <2>7, <2>8, <2>11, SteadyKept DEF Same
  <2>13. Safe(fat, dir, fd_table, resizechain(u)) /\ Safe(fat, dir, fd_table, resizechain(w))
    BY <2>9, <2>10, <2>12, resizechainSafe
  <2>14. Safe(fat, dir, fd_table, Goto(u, "entry"))
    <3> DEFINE g == Goto(u, "entry")
    <3>1. Same(u, g) /\ g.at = "entry" /\ g.buffer = <<>>
      BY <2>9 DEF Goto, Same, Locals
    <3> HIDE DEF g
    <3>2. Steady(fat, fd_table, g) /\ g.op = "write"
      BY <2>12, <3>1, SteadyKept DEF Same
    <3>3. Safe(fat, dir, fd_table, g)
      BY <3>1, <3>2, RestsSafe
    <3> QED
      BY <3>3 DEF g
  <2>15. Safe(fat, dir, fd_table, Resize(u))
    BY <2>13, <2>14 DEF Resize
  <2> QED
    BY <1>1, <2>5, <2>13, <2>15
<1>8. CASE fat_close(p)
  <2>1. PICK d \in Descriptors :
          /\ fd_table[d].open
          /\ Start(p, [Goto(Idle, "entry") EXCEPT
                         !.op = "close", !.fd = d, !.slot = fd_table[d].slot,
                         !.chain = fd_table[d].first_cluster, !.size = fd_table[d].size])
    BY <1>8 DEF fat_close, Usable
  <2> DEFINE f == fd_table[d]
             c == [Goto(Idle, "entry") EXCEPT
                     !.op = "close", !.fd = d, !.slot = f.slot,
                     !.chain = f.first_cluster, !.size = f.size]
  <2>2. f.open /\ Start(p, c)
    BY <2>1
  <2> HIDE DEF f
  <2>3. /\ c.op = "close" /\ c.at = "entry" /\ c.buffer = <<>> /\ c.fd = d /\ c.to = 0
        /\ c.chain = f.first_cluster
    BY DEF Goto, Idle
  <2> HIDE DEF c
  <2>4. Steady(fat, fd_table, c)
    BY <1>0, <2>2, <2>3 DEF Steady, Holds, f
  <2>5. Safe(fat, dir, fd_table, c)
    BY <2>3, <2>4, RestsSafe
  <2> QED
    BY <1>1, <2>2, <2>5
<1> QED
  BY <1>2, <1>4, <1>5, <1>6, <1>7, <1>8 DEF Begin

LEMMA StartSafe ==
  ASSUME NEW p, Solo(p), Init
  PROVE  CallIsSafe(p)
<1>1. Idle = call[p]
  BY DEF Solo, Init
<1>2. Grounded(fat)
  <2> SUFFICES ASSUME NEW S \in SUBSET Clusters, S # {} PROVE \E x \in S : fat[x] \notin S
    BY DEF Grounded
  <2>1. PICK x : x \in S
    OBVIOUS
  <2>2. fat[x] = None
    BY <2>1 DEF Init, None
  <2>3. None \notin S
    BY NoCluster
  <2> QED
    BY <2>1, <2>2, <2>3
<1> QED
  BY <1>1, <1>2, IdleSafe DEF CallIsSafe

LEMMA SafeStep ==
  ASSUME TypeInv, NEW p, Solo(p), CallIsSafe(p), [Next]_vars
  PROVE  CallIsSafe(p)' /\ Writes(p)
<1>1. CASE UNCHANGED vars
  BY <1>1 DEF vars, CallIsSafe, Writes
<1>2. CASE Next
  <2>1. Begin(p) \/ Proceed(p) \/ TaskKilled(p) \/ PowerCut
    BY <1>2 DEF Next, Solo
  <2>2. CASE Begin(p) \/ TaskKilled(p) \/ PowerCut \/ Returns(p)
    BY <2>2, BeginSafe, EndsSafe DEF Writes
  <2>3. CASE Scan(p) \/ ReadToFree(p) \/ chain_length(p) \/ get_nth_cluster(p) \/ ReadToCut(p)
    <3>1. UNCHANGED <<fat, dir>>
      BY <2>3 DEF Scan, ReadToFree, chain_length, get_nth_cluster, ReadToCut, Reads
    <3> QED
      BY <2>3, <3>1, ReadsSafe DEF Writes
  <2>4. CASE Lookup(p) \/ findfreeslots(p)
    <3>1. UNCHANGED <<fat, dir>>
      BY <2>4 DEF Lookup, findfreeslots
    <3> QED
      BY <2>4, <3>1, LookupSafe, findfreeslotsSafe DEF Writes
  <2>5. CASE ReadSector(p) \/ writecluster(p) \/ ReadDirectory(p) \/ WriteDirectory(p)
    BY <2>5, WritesSafe
  <2>6. CASE WriteFails(p) \/ WriteDirectoryFails(p)
    BY <2>6, FailsSafe
  <2> QED
    BY <2>1, <2>2, <2>3, <2>4, <2>5, <2>6 DEF Proceed
<1> QED
  BY <1>1, <1>2

-----------------------------------------------------------------------------
(* What leads to a free cluster.                                           *)

\* Dangling, with the entries that a rename has replaced.
Dangle(f, D) ==
  {k \in Clusters : f[k] = None /\ (Leads(D, {}, k) # {} \/ Preds(f, k) # {})}

\* Where the entry that a rename replaces leads, the new one leads too.
LEMMA ReplacedLeads ==
  ASSUME NEW D, NEW c, Renames(D, c), NEW k
  PROVE  Leads(D, Renaming(c), k) # {} <=> Leads(D, {}, k) # {}
<1>1. Leads(D, Renaming(c), k) \subseteq Leads(D, {}, k)
  BY DEF Leads
<1>2. ASSUME NEW s \in Leads(D, {}, k)
      PROVE  Leads(D, Renaming(c), k) # {}
  <2>1. s \in Slots /\ D[s].kind # "free" /\ D[s].first_cluster = k
    BY DEF Leads
  <2>2. CASE s \notin Renaming(c)
    BY <2>1, <2>2 DEF Leads
  <2>3. CASE s \in Renaming(c)
    <3>1. c.op = "rename" /\ c.at \in {"attribute", "erase"} /\ Renaming(c) = {c.slot} /\ s = c.slot
      BY <2>3 DEF Renaming
    <3>2. /\ c.to \in Slots /\ c.to # c.slot /\ D[c.to].kind # "free"
          /\ D[c.to].first_cluster = k
      BY <2>1, <3>1 DEF Renames
    <3>3. c.to \in Leads(D, Renaming(c), k)
      BY <3>1, <3>2 DEF Leads
    <3> QED
      BY <3>3
  <2> QED
    BY <2>2, <2>3
<1> QED
  BY <1>1, <1>2

LEMMA DanglingIs ==
  ASSUME NEW p, Solo(p), CallIsSafe(p)
  PROVE  Dangling = Dangle(fat, dir)
<1>1. Renamed = Renaming(call[p])
  BY DEF Solo, Renamed, Renaming
<1>2. \A k : Owners(k) = Leads(dir, Renaming(call[p]), k) /\ Predecessors(k) = Preds(fat, k)
  BY <1>1 DEF Owners, Leads, Predecessors, Preds
<1>3. \A k : Owners(k) # {} <=> Leads(dir, {}, k) # {}
  BY <1>2, ReplacedLeads DEF CallIsSafe, Safe
<1>4. \A k : Owners(k) \cup Predecessors(k) # {} <=> Leads(dir, {}, k) # {} \/ Preds(fat, k) # {}
  BY <1>2, <1>3
<1> QED
  BY <1>4 DEF Dangling, Dangle, None

\* A write to the table: only clearing a cluster leaves something that leads to it.
LEMMA StoredDangles ==
  ASSUME NEW f \in Tables, NEW D, NEW W, NEW c, Sound(c), Safe(f, D, W, c), c.at \in FatWrites,
         NEW k, k \in Dangle(Stored(f, c), D), k \notin Dangle(f, D)
  PROVE  c.at = "clear" /\ c.cluster = k
<1> DEFINE g == Stored(f, c)
<1>1. k \in Clusters /\ g[k] = None /\ (Leads(D, {}, k) # {} \/ Preds(g, k) # {})
  BY DEF Dangle
<1>2. /\ \A x \in Clusters : x # Target(c) => g[x] = f[x]
      /\ Target(c) \in Clusters => g[Target(c)] = Value(c)
  BY DEF Stored, Tables
<1> HIDE DEF g
<1>3. EOC \notin Clusters /\ EOC # None /\ None \notin Clusters
  BY NoCluster
<1>4. /\ c.at \in {"mark", "cut"} => Value(c) = EOC
      /\ c.at = "clear" => Value(c) = None /\ Target(c) = c.cluster
      /\ c.at = "link" => Value(c) = c.cluster
      /\ c.at = "append" => Value(c) = c.first
  BY DEF Value, Target, None
<1>5. c.at = "link" => c.cluster \in Clusters /\ f[c.cluster] = EOC
  BY DEF Sound, Ready, Safe, Takes
<1>6. c.at = "append" => c.first # None /\ f[c.first] # None
  BY DEF Safe, Takes, Taken, Used
<1>7. CASE f[k] # None
  <2>1. Value(c) = None /\ k = Target(c)
    BY <1>1, <1>2, <1>7
  <2> QED
    BY <1>3, <1>4, <1>5, <1>6, <2>1 DEF FatWrites
<1>8. CASE f[k] = None
  <2>1. Preds(f, k) = {} /\ Preds(g, k) # {}
    BY <1>1, <1>8 DEF Dangle
  <2>2. Value(c) = k
    BY <1>2, <2>1 DEF Preds
  <2> QED
    BY <1>1, <1>3, <1>4, <1>5, <1>6, <1>8, <2>2 DEF FatWrites
<1> QED
  BY <1>7, <1>8

\* A write to the directory: only a descriptor brings back a chain that is free.
LEMMA NamedDangles ==
  ASSUME NEW f, NEW D \in Directories, NEW W, NEW c, Sound(c), Safe(f, D, W, c),
         c.at \in DirWrites, NEW k, k \in Dangle(f, Named(D, c)), k \notin Dangle(f, D)
  PROVE  c.at = "entry" /\ c.fd # 0 /\ W[c.fd].open /\ W[c.fd].first_cluster = k
<1> DEFINE E == Named(D, c)
<1>1. k \in Clusters /\ f[k] = None /\ (Leads(E, {}, k) # {} \/ Preds(f, k) # {})
  BY DEF Dangle
<1>2. Preds(f, k) = {} /\ Leads(D, {}, k) = {}
  BY <1>1 DEF Dangle
<1> HIDE DEF E
<1>3. PICK s \in Slots : E[s].kind # "free" /\ E[s].first_cluster = k
  BY <1>1, <1>2 DEF Leads
<1>4. \A t \in Slots : D[t].kind # "free" => D[t].first_cluster # k
  BY <1>2 DEF Leads
<1>5. s = Place(c) /\ E[s] = NewEntry(c, D[s])
  BY <1>3, <1>4, NamedAt DEF E, Named, Directories
<1>6. k # None /\ 0 \notin Slots /\ 0 \notin Descriptors
  BY <1>1, NoCluster, FatAssumption
<1>7. Placed(c) /\ Holds(f, W, c) /\ Takes(f, c) /\ Renames(D, c)
  BY DEF Safe, Steady
<1>8. D[s] \in Entries
  BY DEF Directories
<1> DEFINE n == NewEntry(c, D[s])
<1>9. n.kind # "free" /\ n.first_cluster = k
  BY <1>3, <1>5
<1>10. c.at # "erase"
  BY <1>9 DEF NewEntry
<1>11. c.at # "attribute"
  <2> SUFFICES ASSUME c.at = "attribute" PROVE FALSE
    OBVIOUS
  <2>1. n = [D[s] EXCEPT !.kind = c.kind]
    BY DEF NewEntry
  <2>2. n.first_cluster = D[s].first_cluster
    BY <1>8, <2>1 DEF Entries
  <2>3. c.to \in Slots /\ D[c.to].kind # "free"
    BY <1>7 DEF Placed, Renames
  <2>4. s = c.to
    BY <1>5, <1>6, <2>3 DEF Place
  <2> QED
    BY <1>4, <1>9, <2>2, <2>3, <2>4
<1>12. c.at = "entry" /\ c.op \in {"open", "write", "close", "mkdir", "rename"}
  BY <1>7, <1>10, <1>11 DEF DirWrites, Placed
<1>13. c.op = "mkdir" => n.first_cluster = c.first
  BY <1>12 DEF NewEntry
<1>14. c.op # "mkdir" => n.first_cluster = c.chain
  <2>1. CASE c.op = "rename"
    BY <1>12, <2>1 DEF NewEntry
  <2>2. CASE c.op \notin {"mkdir", "rename"}
    <3>1. n = IF D[s].kind = "free" THEN D[s]
              ELSE [D[s] EXCEPT !.first_cluster = c.chain, !.size = c.size]
      BY <1>12, <2>2 DEF NewEntry
    <3> QED
      BY <1>8, <1>9, <3>1 DEF Entries
  <2> QED
    BY <2>1, <2>2
<1> HIDE DEF n
<1>15. c.op # "mkdir"
  BY <1>1, <1>7, <1>9, <1>12, <1>13 DEF Takes
<1>16. c.chain = k
  BY <1>9, <1>14, <1>15
<1>17. c.op # "rename"
  BY <1>4, <1>7, <1>12, <1>16 DEF Renames
<1>18. c.op # "open"
  BY <1>6, <1>7, <1>12, <1>16 DEF Renames
<1>19. c.op \in {"write", "close"}
  BY <1>12, <1>15, <1>17, <1>18
<1> QED
  BY <1>1, <1>6, <1>7, <1>12, <1>16, <1>19 DEF Holds

-----------------------------------------------------------------------------
(* The theorem.                                                            *)

\* The step of one task is contained.
LEMMA StepIsContained ==
  ASSUME TypeInv, NEW p, Solo(p), CallIsSafe(p), Writes(p), Dangling = Dangle(fat, dir),
         Dangling' = Dangle(fat', dir')
  PROVE  DanglingOnlyByFreeing
<1> DEFINE c == call[p]
<1>1. p \in Callers /\ Sound(c) /\ fat \in Tables /\ dir \in Directories
  BY SoloAndTyped
<1>2. Safe(fat, dir, fd_table, c)
  BY DEF CallIsSafe
<1> SUFFICES ASSUME NEW k \in Dangling' \ Dangling
             PROVE  (c.at = "clear" /\ c.cluster = k) \/ Outdated(p, k)
  BY <1>1 DEF DanglingOnlyByFreeing
<1>3. k \in Dangle(fat', dir') /\ k \notin Dangle(fat, dir)
  OBVIOUS
<1>4. CASE UNCHANGED <<fat, dir>>
  BY <1>3, <1>4
<1>5. CASE c.at \in FatWrites /\ fat' = Stored(fat, c) /\ UNCHANGED dir
  <2>1. k \in Dangle(Stored(fat, c), dir)
    BY <1>3, <1>5
  <2> HIDE DEF c
  <2> QED
    BY <1>1, <1>2, <1>3, <1>5, <2>1, StoredDangles
<1>6. CASE c.at \in DirWrites /\ dir' = Named(dir, c) /\ UNCHANGED fat
  <2>1. k \in Dangle(fat, Named(dir, c))
    BY <1>3, <1>6
  <2> HIDE DEF c
  <2>2. c.at = "entry" /\ c.fd # 0 /\ fd_table[c.fd].open /\ fd_table[c.fd].first_cluster = k
    BY <1>1, <1>2, <1>3, <1>6, <2>1, NamedDangles
  <2> QED
    BY <2>2 DEF Outdated, c
<1> QED
  BY <1>4, <1>5, <1>6 DEF Writes

Contained == Dangling = Dangle(fat, dir) /\ Acyclic

\* While one task at a time uses the volume, whatever it does to the files it holds open,
\* whichever of its writes fail and whenever it is killed or the power goes: the table has
\* no circle, and only clearing a cluster, or writing the entry of a file from a descriptor
\* whose file was removed since, leaves an entry or a link that leads to a free cluster.
THEOREM FaultsAreAlwaysContained ==
  ASSUME NEW p, Solo(p)
  PROVE  Spec => FaultsAreContained
<1>1. Init => CallIsSafe(p)
  BY StartSafe
<1>2. TypeInv /\ CallIsSafe(p) /\ [Next]_vars => CallIsSafe(p)'
  BY SafeStep
<1>3. CallIsSafe(p) => Contained
  <2> SUFFICES ASSUME CallIsSafe(p) PROVE Contained
    OBVIOUS
  <2>1. Acyclic
    BY GroundedIsAcyclic DEF CallIsSafe, Safe, Steady
  <2> QED
    BY <2>1, DanglingIs DEF Contained
<1>4. TypeInv /\ CallIsSafe(p) /\ Contained /\ Contained' /\ [Next]_vars
        => [Acyclic' /\ DanglingOnlyByFreeing]_vars
  <2> SUFFICES ASSUME TypeInv, CallIsSafe(p), Contained, Contained', [Next]_vars
               PROVE  Acyclic' /\ DanglingOnlyByFreeing
    OBVIOUS
  <2>1. Writes(p)
    BY SafeStep
  <2>2. Dangling = Dangle(fat, dir)
    BY DEF Contained
  <2>3. Dangling' = Dangle(fat', dir')
    BY DEF Contained, Dangle, Leads, Preds
  <2>4. DanglingOnlyByFreeing
    BY <2>1, <2>2, <2>3, StepIsContained
  <2> QED
    BY <2>4 DEF Contained
<1> QED
  BY <1>1, <1>2, <1>3, <1>4, TypeInvariant, PTL DEF Spec, FaultsAreContained

=============================================================================
