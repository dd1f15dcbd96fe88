---------------------------- MODULE FilesProofs ----------------------------
(***************************************************************************)
(* Theorems about FatFiles, for every size of sectors and clusters, every  *)
(* volume and every set of writes, reads and positions, with any accesses  *)
(* to sectors and to the table failing, and for a width of the word that   *)
(* holds sizes, FileWord, up to which they wrap as in the code.            *)
(***************************************************************************)
EXTENDS MCFatFiles, FiniteSetTheorems, FunctionTheorems, SequenceTheorems,
  WellFoundedInduction, TLAPS

-----------------------------------------------------------------------------
(* Sectors and clusters: quotients and remainders.                         *)

\* A quotient and its remainder.
LEMMA Divided ==
    ASSUME NEW a \in Nat, NEW b \in Nat, b > 0
    PROVE  /\ a \div b \in Nat /\ a % b \in 0 .. b - 1
           /\ a = b * (a \div b) + (a % b)
OBVIOUS

\* Products are monotonic.
LEMMA Product ==
    ASSUME NEW a \in Nat, NEW b \in Nat, NEW c \in Nat
    PROVE  /\ a <= b => c * a <= c * b
           /\ c * a \in Nat /\ c * (a + 1) = c * a + c
OBVIOUS

\* Only one quotient and one remainder make up a number.
LEMMA OneQuotient ==
    ASSUME NEW b \in Nat, b > 0, NEW q \in Nat, NEW r \in 0 .. b - 1
    PROVE  (b * q + r) \div b = q /\ (b * q + r) % b = r
OBVIOUS

LEMMA ClusterSize == cluster_size \in Nat /\ cluster_size > 0
BY FilesAssumption DEF cluster_size

\* A position lies in one of the first m clusters when it is below their bytes.
LEMMA InClusters ==
    ASSUME NEW p \in Nat, NEW m \in Nat
    PROVE  /\ (p \div cluster_size) \in Nat
           /\ (p % cluster_size) \in 0 .. cluster_size - 1
           /\ p < cluster_size * m <=> p \div cluster_size + 1 <= m
<1> DEFINE cs == cluster_size
           q == p \div cs
<1>1. cs \in Nat /\ cs > 0
  BY ClusterSize
<1> HIDE DEF cs
<1>2. q \in Nat /\ (p % cs) \in 0 .. cs - 1 /\ p = cs * q + (p % cs)
  BY <1>1, Divided
<1> HIDE DEF q
<1>3. q + 1 <= m => cs * q + cs <= cs * m
  <2>1. q + 1 \in Nat
    BY <1>2
  <2>2. cs * (q + 1) = cs * q + cs
    BY <1>1, <1>2, Product
  <2> QED BY <1>1, <1>2, <2>1, <2>2, Product
<1>4. m <= q => cs * m <= cs * q
  BY <1>1, <1>2, Product
<1>5. cs * q \in Nat /\ cs * m \in Nat
  BY <1>1, <1>2, Product
<1>6. p < cs * m <=> q + 1 <= m
  BY <1>1, <1>2, <1>3, <1>4, <1>5
<1> QED BY <1>2, <1>6 DEF q, cs

\* The word of a size holds that of a cluster.
LEMMA LimitIs == FileWord \in Nat /\ Limit \in Nat /\ FileWord = Limit + cluster_size
BY ClusterSize, FilesAssumption DEF Limit, cluster_size

\* Below the word a number is its own remainder.
LEMMA SmallRemainder ==
    ASSUME NEW a \in Nat, NEW b \in Nat, a < b
    PROVE  a % b = a
OBVIOUS

\* Of any size Required is a number; up to Limit it is the least number of clusters
\* that holds so many bytes.
LEMMA RequiredTyped ==
    ASSUME NEW size \in Nat
    PROVE  Required(size) \in Nat
<1> DEFINE cs == cluster_size
           w == FileWord
           p == (size + cs - 1) % w
<1>1. cs \in Nat /\ cs > 0 /\ w \in Nat /\ w > 0 /\ size + cs - 1 \in Nat
  BY ClusterSize, LimitIs
<1>2. Required(size) = p \div cs
  BY DEF Required
<1> HIDE DEF cs, w
<1>3. p \in Nat
  BY <1>1
<1> HIDE DEF p
<1> QED BY <1>1, <1>2, <1>3

LEMMA RequiredIs ==
    ASSUME NEW size \in Nat, size <= Limit
    PROVE  /\ Required(size) \in Nat
           /\ size <= cluster_size * Required(size)
           /\ \A m \in Nat : size <= cluster_size * m => Required(size) <= m
           /\ size = 0 <=> Required(size) = 0
<1> DEFINE cs == cluster_size
           p == size + cs - 1
           q == p \div cs
<1>1. cs \in Nat /\ cs > 0 /\ p \in Nat
  BY ClusterSize
<1>2. Required(size) = q
  <2>1. p < FileWord
    BY ClusterSize, LimitIs
  <2>2. p % FileWord = p
    <3> HIDE DEF p
    <3> QED BY <1>1, <2>1, LimitIs, SmallRemainder
  <2> QED BY <2>2 DEF Required
<1> HIDE DEF cs
<1>3. q \in Nat /\ (p % cs) \in 0 .. cs - 1 /\ p = cs * q + (p % cs) /\ cs * q \in Nat
  BY <1>1, Divided, Product
<1> HIDE DEF q
<1>4. size <= cs * q
  BY <1>1, <1>3
<1>5. ASSUME NEW m \in Nat, size <= cs * m
      PROVE  q <= m
  <2>1. SUFFICES ASSUME m + 1 <= q PROVE FALSE
    BY <1>3
  <2>2. m + 1 \in Nat /\ cs * m \in Nat /\ cs * (m + 1) = cs * m + cs
    BY <1>1, Product
  <2>3. cs * (m + 1) <= cs * q
    BY <1>1, <1>3, <2>1, <2>2, Product
  <2> QED BY <1>1, <1>3, <1>5, <2>2, <2>3
<1>6. size = 0 => q = 0
  <2>1. size = 0 => size <= cs * 0
    BY <1>1
  <2> QED BY <1>3, <1>5, <2>1
<1>7. q = 0 => size = 0
  <2>1. q = 0 => cs * q = 0
    BY <1>1
  <2> QED BY <1>4, <2>1
<1> QED BY <1>2, <1>3, <1>4, <1>5, <1>6, <1>7 DEF cs

\* More bytes do not need fewer clusters.
LEMMA RequiredGrows ==
    ASSUME NEW a \in Nat, NEW b \in Nat, a <= b, b <= Limit
    PROVE  Required(a) <= Required(b)
<1>0. a <= Limit
  BY LimitIs
<1>1. cluster_size * Required(b) \in Nat
  BY ClusterSize, RequiredIs, Product
<1> QED BY <1>0, <1>1, RequiredIs

\* A sector does not cross the end of its cluster.
LEMMA SectorInCluster ==
    ASSUME NEW p \in Nat
    PROVE  /\ (p % cluster_size) % bytes_per_sector = p % bytes_per_sector
           /\ \A n \in Nat : (p % bytes_per_sector) + n <= bytes_per_sector
                 => (p % cluster_size) + n <= cluster_size
<1> DEFINE b == bytes_per_sector
           c == sector_per_cluster
           q == p \div (b * c)
           r == p % (b * c)
           q2 == r \div b
           r2 == r % b
<1>1. b \in Nat /\ b > 0 /\ c \in Nat /\ c > 0 /\ cluster_size = b * c
      /\ b * c \in Nat /\ b * c > 0
  BY FilesAssumption, ClusterSize DEF cluster_size
<1> HIDE DEF b, c
<1>2. q \in Nat /\ r \in 0 .. b * c - 1 /\ p = (b * c) * q + r
  BY <1>1, Divided
<1> HIDE DEF q, r
<1>3. r \in Nat
  BY <1>1, <1>2
<1>4. q2 \in Nat /\ r2 \in 0 .. b - 1 /\ r = b * q2 + r2
  BY <1>1, <1>3, Divided
<1> HIDE DEF q2, r2
<1>5. p = b * (c * q + q2) + r2 /\ c * q + q2 \in Nat
  BY <1>1, <1>2, <1>4
<1>6. p % b = r2
  BY <1>1, <1>4, <1>5, OneQuotient
<1>7. q2 + 1 <= c
  <2>1. SUFFICES ASSUME c <= q2 PROVE FALSE
    BY <1>1, <1>4
  <2>2. b * c <= b * q2 /\ b * q2 \in Nat
    BY <1>1, <1>4, <2>1, Product
  <2> QED BY <1>1, <1>2, <1>4, <2>2
<1>8. b * q2 + b <= b * c /\ b * q2 \in Nat
  <2>1. b * (q2 + 1) <= b * c
    BY <1>1, <1>4, <1>7, Product
  <2>2. b * (q2 + 1) = b * q2 + b /\ b * q2 \in Nat
    BY <1>1, <1>4, Product
  <2> QED BY <2>1, <2>2
<1>9. \A n \in Nat : r2 + n <= b => r + n <= b * c
  BY <1>1, <1>4, <1>8
<1>10. r % b = r2
  BY DEF r2
<1> QED BY <1>1, <1>6, <1>9, <1>10 DEF b, c, r

\* The positions of a stretch within one cluster.
LEMMA Stretch ==
    ASSUME NEW p \in Nat, NEW n \in Nat, (p % cluster_size) + n <= cluster_size, NEW x \in Nat
    PROVE  /\ p <= x /\ x < p + n =>
                 /\ x \div cluster_size = p \div cluster_size
                 /\ x % cluster_size = (p % cluster_size) + (x - p)
           /\ /\ x \div cluster_size = p \div cluster_size
              /\ x % cluster_size \in (p % cluster_size) .. (p % cluster_size) + n - 1
              => p <= x /\ x < p + n /\ x - p = (x % cluster_size) - (p % cluster_size)
<1> DEFINE cs == cluster_size
           q == p \div cs
           r == p % cs
<1>1. cs \in Nat /\ cs > 0
  BY ClusterSize
<1> HIDE DEF cs
<1>2. q \in Nat /\ r \in 0 .. cs - 1 /\ p = cs * q + r /\ cs * q \in Nat
  BY <1>1, Divided, Product
<1>3. x \div cs \in Nat /\ x % cs \in 0 .. cs - 1 /\ x = cs * (x \div cs) + (x % cs)
  BY <1>1, Divided
<1> HIDE DEF q, r
<1>4. r + n <= cs
  BY DEF r, cs
<1>5. ASSUME p <= x, x < p + n PROVE x \div cs = q /\ x % cs = r + (x - p)
  <2>1. x = cs * q + (r + (x - p)) /\ r + (x - p) \in 0 .. cs - 1
    BY <1>1, <1>2, <1>4, <1>5
  <2> DEFINE y == r + (x - p)
  <2>2. y \in 0 .. cs - 1 /\ x = cs * q + y
    BY <2>1
  <2> HIDE DEF y
  <2>3. (cs * q + y) \div cs = q /\ (cs * q + y) % cs = y
    BY <1>1, <1>2, <2>2, OneQuotient
  <2> QED BY <2>2, <2>3 DEF y
<1>6. ASSUME x \div cs = q, x % cs \in r .. r + n - 1
      PROVE  p <= x /\ x < p + n /\ x - p = (x % cs) - r
  BY <1>1, <1>2, <1>3, <1>6
<1> QED BY <1>5, <1>6 DEF q, r, cs

\* Two positions of one cluster in one sector of it: the sector at p, when p
\* begins it, reaches from p on.
LEMMA WholeSector ==
    ASSUME NEW p \in Nat, p % bytes_per_sector = 0, NEW i \in Nat,
           i \div bytes_per_sector = p \div bytes_per_sector
    PROVE  i \in p .. p + bytes_per_sector - 1
<1> DEFINE b == bytes_per_sector
<1>1. b \in Nat /\ b > 0
  BY FilesAssumption
<1> HIDE DEF b
<1>2. p = b * (p \div b) + (p % b) /\ i = b * (i \div b) + (i % b) /\ i % b \in 0 .. b - 1
  BY <1>1, Divided
<1>3. p % b = 0 /\ i \div b = p \div b
  BY DEF b
<1>4. i = p + (i % b)
  BY <1>1, <1>2, <1>3, Divided
<1> QED BY <1>1, <1>2, <1>4 DEF b

-----------------------------------------------------------------------------
(* The chain and the free clusters.                                        *)

\* A set of naturals that is not empty has a least element.
LEMMA LeastNat ==
    ASSUME NEW S \in SUBSET Nat, S # {}
    PROVE  \E m \in S : \A n \in S : m <= n
<1>1. PICK m \in S : \A n \in S : ~(<<n, m>> \in OpToRel(<, Nat))
  BY NatLessThanWellFounded, WFMin
<1>2. \A n \in S : ~(n < m)
  BY <1>1 DEF OpToRel
<1> QED BY <1>2

LEMMA ClustersFinite ==
    ASSUME NEW S \in SUBSET Clusters
    PROVE  IsFiniteSet(S) /\ Cardinality(S) \in Nat /\ S \subseteq Nat
<1>1. IsFiniteSet(Clusters)
  BY FilesAssumption, FS_Interval DEF Clusters
<1>2. IsFiniteSet(S)
  BY <1>1, FS_Subset
<1> QED BY <1>2, FS_CardinalityType DEF Clusters

\* Of so many clusters one has n - 1 below it.
LEMMA NthLowest ==
    ASSUME NEW S \in SUBSET Clusters, NEW n \in 1 .. Cardinality(S)
    PROVE  \E k \in S : Cardinality({j \in S : j < k}) = n - 1
<1> DEFINE B(k) == {j \in S : j < k}
           T == {m \in Nat : Cardinality(B(m)) >= n}
<1>1. \A m \in Nat : IsFiniteSet(B(m)) /\ Cardinality(B(m)) \in Nat
  BY ClustersFinite
<1>2. Cardinality(S) \in Nat /\ n \in Nat /\ n >= 1 /\ n <= Cardinality(S)
  BY ClustersFinite
<1>3. MaxCluster + 1 \in T
  <2>1. MaxCluster \in Nat
    BY FilesAssumption
  <2>2. \A j \in S : j < MaxCluster + 1
    BY <2>1 DEF Clusters
  <2>3. B(MaxCluster + 1) = S
    BY <2>2
  <2>4. Cardinality(B(MaxCluster + 1)) >= n
    BY <1>2, <2>3
  <2> QED BY <2>1, <2>4
<1>4. PICK m \in T : \A x \in T : m <= x
  <2>1. T \in SUBSET Nat /\ T # {}
    BY <1>3
  <2> HIDE DEF T
  <2> QED BY <2>1, LeastNat
<1>5. m # 0
  <2>1. B(0) = {}
    BY ClustersFinite
  <2>2. Cardinality(B(0)) = 0
    BY <2>1, FS_EmptySet
  <2>3. 0 \notin T
    BY <1>2, <2>2
  <2> QED BY <1>4, <2>3
<1> DEFINE k == m - 1
<1>6. m \in Nat /\ k \in Nat /\ k < m
  BY <1>4, <1>5
<1>7. k \notin T
  BY <1>4, <1>6
<1>8. Cardinality(B(m)) >= n /\ Cardinality(B(k)) < n
  <2>1. Cardinality(B(m)) >= n
    BY <1>4
  <2>2. ~(Cardinality(B(k)) >= n)
    BY <1>6, <1>7
  <2> DEFINE x == Cardinality(B(k))
  <2>3. x \in Nat /\ ~(x >= n)
    BY <1>1, <1>6, <2>2
  <2> HIDE DEF x
  <2>4. x < n
    BY <1>2, <2>3
  <2> QED BY <2>1, <2>4 DEF x
<1>9. k \in S /\ Cardinality(B(m)) = Cardinality(B(k)) + 1
  <2>1. CASE k \notin S
    <3>1. B(m) = B(k)
      BY <1>6, <2>1, ClustersFinite
    <3> DEFINE x == Cardinality(B(k))
    <3>2. Cardinality(B(m)) = x
      BY <3>1
    <3>3. x \in Nat /\ x >= n /\ x < n
      BY <1>1, <1>6, <1>8, <3>2
    <3> HIDE DEF x
    <3>4. FALSE
      BY <1>2, <3>3
    <3> QED BY <3>4
  <2>2. CASE k \in S
    <3>1. B(m) = B(k) \cup {k} /\ k \notin B(k)
      BY <1>6, <2>2, ClustersFinite
    <3>2. IsFiniteSet(B(k))
      BY <1>1, <1>6
    <3> DEFINE X == B(k)
    <3>3. IsFiniteSet(X) /\ k \notin X
      BY <3>1, <3>2
    <3> HIDE DEF X
    <3>4. Cardinality(X \cup {k}) = Cardinality(X) + 1
      BY <3>3, FS_AddElement
    <3> QED BY <2>2, <3>1, <3>4 DEF X
  <2> QED BY <2>1, <2>2
<1>10. Cardinality(B(k)) = n - 1
  BY <1>1, <1>2, <1>6, <1>8, <1>9
<1> QED BY <1>9, <1>10

\* Lowest lists members of the set, none twice.
LEMMA LowestLists ==
    ASSUME NEW S \in SUBSET Clusters, NEW n \in 0 .. Cardinality(S)
    PROVE  /\ Lowest(S, n) \in Seq(S) /\ Len(Lowest(S, n)) = n
           /\ \A i, j \in 1 .. n : Lowest(S, n)[i] = Lowest(S, n)[j] => i = j
<1>0. n \in Nat /\ Cardinality(S) \in Nat /\ n <= Cardinality(S)
  BY ClustersFinite
<1> DEFINE c(i) == CHOOSE k \in S : Cardinality({j \in S : j < k}) = i - 1
           l == Lowest(S, n)
<1>1. \A i \in 1 .. n : c(i) \in S /\ Cardinality({j \in S : j < c(i)}) = i - 1
  <2>1. TAKE i \in 1 .. n
  <2>2. i \in 1 .. Cardinality(S)
    BY <1>0
  <2>3. \E k \in S : Cardinality({j \in S : j < k}) = i - 1
    BY <2>2, NthLowest
  <2> QED BY <2>3
<1>2. l = [i \in 1 .. n |-> c(i)]
  BY DEF Lowest
<1> HIDE DEF c, l
<1>3. \A i \in 1 .. n : l[i] \in S /\ Cardinality({j \in S : j < l[i]}) = i - 1
  BY <1>1, <1>2
<1>4. l \in [1 .. n -> S]
  BY <1>2, <1>1
<1>6. l \in Seq(S) /\ Len(l) = n
  BY <1>0, <1>4, IsASeq
<1>5. \A i, j \in 1 .. n : l[i] = l[j] => i = j
  <2>1. TAKE i, j \in 1 .. n
  <2>2. HAVE l[i] = l[j]
  <2>3. i - 1 = j - 1
    BY <1>3, <2>2, Zenon
  <2> QED BY <2>3
<1> QED BY <1>5, <1>6 DEF l

\* The chain of the file: clusters of the volume, none twice and none lost.
ChainOK ==
    /\ chain \in Seq(Clusters)
    /\ \A i, j \in 1 .. Len(chain) : chain[i] = chain[j] => i = j
    /\ lost \subseteq Clusters
    /\ \A i \in 1 .. Len(chain) : chain[i] \notin lost

LEMMA ToSetIs ==
    ASSUME NEW T, NEW s \in Seq(T)
    PROVE  /\ ToSet(s) \subseteq T
           /\ \A x : x \in ToSet(s) <=> \E i \in 1 .. Len(s) : x = s[i]
           /\ s \in [1 .. Len(s) -> ToSet(s)]
<1>1. DOMAIN s = 1 .. Len(s) /\ s \in [1 .. Len(s) -> T]
  BY LenProperties
<1> QED BY <1>1 DEF ToSet

\* The clusters of the chain and the free ones are those that are not lost.
LEMMA Rooms ==
    ASSUME ChainOK
    PROVE  /\ Len(chain) \in Nat /\ Cardinality(Free) \in Nat
           /\ Free \in SUBSET Clusters /\ Cardinality(Clusters \ lost) \in Nat
           /\ Len(chain) + Cardinality(Free) = Cardinality(Clusters \ lost)
<1> DEFINE C == ToSet(chain)
           R == Clusters \ lost
<1>1. Len(chain) \in Nat /\ chain \in [1 .. Len(chain) -> C] /\ C \subseteq R
  <2>1. chain \in Seq(Clusters)
    BY DEF ChainOK
  <2>2. Len(chain) \in Nat /\ C \subseteq Clusters /\ chain \in [1 .. Len(chain) -> C]
        /\ \A x : x \in C <=> \E i \in 1 .. Len(chain) : x = chain[i]
    BY <2>1, ToSetIs, LenProperties
  <2> QED BY <2>2 DEF ChainOK
<1>2. IsFiniteSet(C) /\ Cardinality(C) = Len(chain)
  <2>1. \A x \in C : \E i \in 1 .. Len(chain) : chain[i] = x
    BY ToSetIs DEF ChainOK
  <2> HIDE DEF C
  <2>2. chain \in Bijection(1 .. Len(chain), C)
    BY <1>1, <2>1 DEF ChainOK, Bijection, Injection, Surjection, IsInjective
  <2>3. ExistsBijection(1 .. Len(chain), C)
    BY <2>2 DEF ExistsBijection
  <2>4. IsFiniteSet(1 .. Len(chain)) /\ Cardinality(1 .. Len(chain)) = Len(chain)
    <3> DEFINE n == Len(chain)
    <3>1. n \in Nat
      BY <1>1
    <3> HIDE DEF n
    <3>2. 1 \in Int /\ n \in Int
      BY <3>1
    <3>3. IsFiniteSet(1 .. n) /\ Cardinality(1 .. n) = IF 1 > n THEN 0 ELSE n - 1 + 1
      BY <3>2, FS_Interval
    <3>4. IsFiniteSet(1 .. n) /\ Cardinality(1 .. n) = n
      BY <3>1, <3>3
    <3> QED BY <3>4 DEF n
  <2> QED BY <2>3, <2>4, FS_Bijection
<1>3. IsFiniteSet(R) /\ Cardinality(R) \in Nat
  BY ClustersFinite
<1>4. Free = R \ C
  BY DEF Free
<1>5. Cardinality(R \ C) = Cardinality(R) - Cardinality(R \cap C)
  BY <1>3, FS_Difference
<1>6. R \cap C = C
  BY <1>1
<1>7. Free \in SUBSET Clusters /\ Cardinality(Free) \in Nat
  BY <1>4, ClustersFinite
<1>8. Cardinality(Free) = Cardinality(R) - Len(chain)
  BY <1>2, <1>4, <1>5, <1>6
<1> QED BY <1>1, <1>3, <1>7, <1>8

\* There is room for a file of some size when the clusters that are not lost
\* are enough.
Fits(size) == Required(size) <= Cardinality(Clusters \ lost)

LEMMA RoomIs ==
    ASSUME ChainOK, NEW size \in Nat
    PROVE  HasRoom(size) <=> Fits(size)
<1> DEFINE r == Required(size)
           c == Len(chain)
           f == Cardinality(Free)
           a == Cardinality(Clusters \ lost)
<1>1. c \in Nat /\ f \in Nat /\ a \in Nat /\ c + f = a
  BY Rooms
<1>2. r \in Nat
  BY RequiredTyped
<1>3. (HasRoom(size) <=> r <= c \/ r - c <= f) /\ (Fits(size) <=> r <= a)
  BY DEF HasRoom, Fits
<1> HIDE DEF r, c, f, a
<1> QED BY <1>1, <1>2, <1>3

DataOK == data \in [Clusters -> [0 .. cluster_size - 1 -> Bytes]]

\* The byte at position p of a file with the clusters ch.
Byte(d, ch, p) ==
    IF p < cluster_size * Len(ch) THEN d[ch[p \div cluster_size + 1]][p % cluster_size]
    ELSE Stale

LEMMA ByteOfChain ==
    ASSUME NEW p \in Nat
    PROVE  /\ chain \in Seq(Clusters) => ByteAt(p) = Byte(data, chain, p)
           /\ chain' \in Seq(Clusters) => ByteAt(p)' = Byte(data', chain', p)
<1> DEFINE cs == cluster_size
           q == p \div cs
<1>1. \A k \in Clusters : k # None
  BY DEF Clusters, None
<1>2. \A m \in Nat : p < cs * m <=> q + 1 <= m
  BY InClusters
<1>3. q \in Nat
  BY InClusters
<1>4. ASSUME NEW c \in Seq(Clusters)
      PROVE  /\ Len(c) \in Nat
             /\ q + 1 <= Len(c) => c[q + 1] # None
  BY <1>1, <1>3, <1>4, LenProperties, ElementOfSeq
<1>5. ByteAt(p) = IF (IF q + 1 <= Len(chain) THEN chain[q + 1] ELSE None) = None THEN Stale
                  ELSE data[IF q + 1 <= Len(chain) THEN chain[q + 1] ELSE None][p % cs]
  BY DEF ByteAt, cluster_at
<1>6. ByteAt(p)' = IF (IF q + 1 <= Len(chain') THEN chain'[q + 1] ELSE None) = None THEN Stale
                  ELSE data'[IF q + 1 <= Len(chain') THEN chain'[q + 1] ELSE None][p % cs]
  BY DEF ByteAt, cluster_at, cluster_size, None
<1>7. \A d, c : Byte(d, c, p) = IF p < cs * Len(c) THEN d[c[q + 1]][p % cs] ELSE Stale
  BY DEF Byte
<1> HIDE DEF q, cs
<1>8. chain \in Seq(Clusters) => ByteAt(p) = Byte(data, chain, p)
  BY <1>2, <1>4, <1>5, <1>7
<1>9. chain' \in Seq(Clusters) => ByteAt(p)' = Byte(data', chain', p)
  BY <1>2, <1>4, <1>6, <1>7
<1> QED BY <1>8, <1>9

\* The chains ensure_size leaves are sequences of clusters, and the first clusters
\* are those it had.
LEMMA GrownChain ==
    ASSUME ChainOK, DataOK, NEW size \in Nat, ensure_size(size)
    PROVE  /\ chain' \in Seq(Clusters) /\ Len(chain') = Required(size)
           /\ \A i \in 1 .. Len(chain') :
                 IF i <= Len(chain) THEN chain'[i] = chain[i] ELSE chain'[i] \in Free
           /\ \A i, j \in 1 .. Len(chain') : chain'[i] = chain'[j] => i = j
           /\ data' = [k \in Clusters |->
                         IF k \in ToSet(chain) \ ToSet(chain')
                         THEN [i \in DOMAIN data[k] |-> Stale] ELSE data[k]]
<1> DEFINE n == Required(size)
           l == Lowest(Free, n - Len(chain))
           grown == chain \o l
<1>0. n \in Nat /\ Len(chain) \in Nat /\ Cardinality(Free) \in Nat /\ Free \in SUBSET Clusters
      /\ chain \in Seq(Clusters) /\ (n <= Len(chain) \/ n - Len(chain) <= Cardinality(Free))
  BY RequiredTyped, Rooms DEF ensure_size, HasRoom, ChainOK
<1>1. chain' = (IF n <= Len(chain) THEN SubSeq(chain, 1, n) ELSE grown)
      /\ data' = [k \in Clusters |->
                         IF k \in ToSet(chain) \ ToSet(chain')
                         THEN [i \in DOMAIN data[k] |-> Stale] ELSE data[k]]
  BY DEF ensure_size
<1>2. \A i, j \in 1 .. Len(chain) : chain[i] = chain[j] => i = j
  BY DEF ChainOK
<1>3. CASE n <= Len(chain)
  <2> DEFINE c == SubSeq(chain, 1, n)
  <2>1. c \in Seq(Clusters) /\ Len(c) = n /\ \A i \in 1 .. n : c[i] = chain[i]
    BY <1>0, <1>3, SubSeqProperties
  <2>2. chain' = c
    BY <1>1, <1>3
  <2> HIDE DEF c, n
  <2>3. Len(chain') = n /\ chain' \in Seq(Clusters) /\ \A i \in 1 .. n : chain'[i] = chain[i]
    BY <2>1, <2>2
  <2>4. \A i \in 1 .. n : i \in 1 .. Len(chain) /\ i <= Len(chain)
    BY <1>0, <1>3
  <2>5. \A i, j \in 1 .. n : chain'[i] = chain'[j] => i = j
    BY <1>2, <2>3, <2>4
  <2> QED BY <1>1, <2>3, <2>4, <2>5 DEF n
<1>4. CASE ~(n <= Len(chain))
  <2> DEFINE m == n - Len(chain)
  <2> HIDE DEF n
  <2>1. m \in 0 .. Cardinality(Free) /\ m \in Nat /\ n = Len(chain) + m
    BY <1>0, <1>4
  <2>5. chain' = grown
    BY <1>1, <1>4
  <2>2. l \in Seq(Free) /\ Len(l) = m /\ \A i, j \in 1 .. m : l[i] = l[j] => i = j
    BY <1>0, <2>1, LowestLists
  <2>3. l \in Seq(Clusters) /\ \A i \in 1 .. m : l[i] \in Free
    BY <1>0, <2>2, SeqMonotonic, ElementOfSeq
  <2> HIDE DEF l, m
  <2>4. grown \in Seq(Clusters) /\ Len(grown) = Len(chain) + m
        /\ \A i \in 1 .. Len(chain) + m :
              grown[i] = IF i <= Len(chain) THEN chain[i] ELSE l[i - Len(chain)]
    <3>1. /\ grown \in Seq(Clusters) /\ Len(grown) = Len(chain) + Len(l)
          /\ \A i \in 1 .. Len(chain) + Len(l) :
                grown[i] = IF i <= Len(chain) THEN chain[i] ELSE l[i - Len(chain)]
      BY <1>0, <2>3, ConcatProperties
    <3> QED BY <2>2, <3>1
  <2>6. \A i \in 1 .. Len(chain) : chain[i] \notin Free
    BY <1>0, ToSetIs DEF Free
  <2> HIDE DEF grown
  <2>7. \A i \in 1 .. Len(chain) + m :
           IF i <= Len(chain) THEN chain'[i] = chain[i] ELSE chain'[i] \in Free
    <3>1. TAKE i \in 1 .. Len(chain) + m
    <3>2. CASE i <= Len(chain)
      BY <2>4, <2>5, <3>2
    <3>3. CASE ~(i <= Len(chain))
      <4>1. i - Len(chain) \in 1 .. m
        BY <1>0, <2>1, <3>3
      <4> QED BY <2>3, <2>4, <2>5, <3>3, <4>1
    <3> QED BY <3>2, <3>3
  <2>8. ASSUME NEW i \in 1 .. Len(chain) + m, NEW j \in 1 .. Len(chain) + m,
               chain'[i] = chain'[j]
        PROVE  i = j
    <3>1. CASE i <= Len(chain) /\ j <= Len(chain)
      BY <1>0, <1>2, <2>7, <2>8, <3>1
    <3>2. CASE i <= Len(chain) /\ ~(j <= Len(chain))
      BY <1>0, <2>6, <2>7, <2>8, <3>2
    <3>3. CASE ~(i <= Len(chain)) /\ j <= Len(chain)
      BY <1>0, <2>6, <2>7, <2>8, <3>3
    <3>4. CASE ~(i <= Len(chain)) /\ ~(j <= Len(chain))
      <4>1. i - Len(chain) \in 1 .. m /\ j - Len(chain) \in 1 .. m
        BY <1>0, <2>1, <3>4
      <4>2. l[i - Len(chain)] = l[j - Len(chain)]
        BY <2>4, <2>5, <2>8, <3>4
      <4>3. i - Len(chain) = j - Len(chain)
        BY <2>2, <4>1, <4>2
      <4> QED BY <1>0, <2>1, <4>3
    <3> QED BY <3>1, <3>2, <3>3, <3>4
  <2>9. chain' \in Seq(Clusters) /\ Len(chain') = n /\ n = Len(chain) + m
    BY <2>1, <2>4, <2>5
  <2> QED BY <1>1, <2>7, <2>8, <2>9 DEF n
<1> QED BY <1>3, <1>4

LEMMA EnsureSize ==
    ASSUME ChainOK, DataOK, NEW size \in Nat, ensure_size(size),
           UNCHANGED lost
    PROVE  /\ ChainOK' /\ DataOK' /\ Len(chain') = Required(size)
           /\ \A p \in Nat : p < cluster_size * Len(chain) /\ p < cluster_size * Len(chain')
                 => ByteAt(p)' = ByteAt(p)
           /\ Len(chain) > 0 /\ Len(chain') > 0 => First(chain') = First(chain)
<1>1. /\ chain' \in Seq(Clusters) /\ Len(chain') = Required(size)
      /\ \A i \in 1 .. Len(chain') :
            IF i <= Len(chain) THEN chain'[i] = chain[i] ELSE chain'[i] \in Free
      /\ \A i, j \in 1 .. Len(chain') : chain'[i] = chain'[j] => i = j
  BY GrownChain
<1>2. data' = [k \in Clusters |->
                         IF k \in ToSet(chain) \ ToSet(chain')
                         THEN [i \in DOMAIN data[k] |-> Stale] ELSE data[k]]
  BY GrownChain
<1>3. chain \in Seq(Clusters) /\ Len(chain) \in Nat /\ Len(chain') \in Nat
  BY <1>1, LenProperties DEF ChainOK
<1>4. ChainOK'
  <2>1. \A i \in 1 .. Len(chain') : chain'[i] \notin lost
    <3>1. TAKE i \in 1 .. Len(chain')
    <3>2. CASE i <= Len(chain)
      BY <1>1, <1>3, <3>2 DEF ChainOK
    <3>3. CASE ~(i <= Len(chain))
      BY <1>1, <3>3 DEF Free
    <3> QED BY <3>2, <3>3
  <2>2. Clusters' = Clusters
    BY DEF Clusters
  <2> QED BY <1>1, <2>1, <2>2 DEF ChainOK
<1>5. DataOK'
  <2>1. \A k \in Clusters : data[k] \in [0 .. cluster_size - 1 -> Bytes]
    BY DEF DataOK
  <2>2. Stale \in Bytes
    BY DEF Bytes
  <2>3. \A k \in Clusters : data'[k] \in [0 .. cluster_size - 1 -> Bytes]
    BY <1>2, <2>1, <2>2
  <2>4. data' \in [Clusters -> [0 .. cluster_size - 1 -> Bytes]]
    BY <1>2, <2>3
  <2> QED BY <2>4 DEF DataOK
<1>6. ASSUME NEW p \in Nat, p < cluster_size * Len(chain), p < cluster_size * Len(chain')
      PROVE  ByteAt(p)' = ByteAt(p)
  <2> DEFINE i == p \div cluster_size + 1
             k == chain[i]
  <2>0. \A m \in Nat : p < cluster_size * m <=> p \div cluster_size + 1 <= m
    BY InClusters
  <2>1. i \in Nat /\ i >= 1 /\ i <= Len(chain) /\ i <= Len(chain')
    <3>1. p \div cluster_size \in Nat
      BY InClusters
    <3> QED BY <1>3, <1>6, <2>0, <3>1
  <2>2. ByteAt(p)' = data'[chain'[i]][p % cluster_size]
    BY <1>1, <1>6, ByteOfChain DEF Byte
  <2>3. ByteAt(p) = data[chain[i]][p % cluster_size]
    BY <1>3, <1>6, ByteOfChain DEF Byte
  <2> HIDE DEF i
  <2>4. chain'[i] = k /\ k \in Clusters
    BY <1>1, <1>3, <2>1, ElementOfSeq
  <2>5. k \in ToSet(chain')
    BY <1>1, <1>3, <2>1, <2>4, ToSetIs
  <2>6. data'[k] = data[k]
    BY <1>2, <2>4, <2>5
  <2> QED BY <2>2, <2>3, <2>4, <2>6
<1>7. ASSUME Len(chain) > 0, Len(chain') > 0 PROVE First(chain') = First(chain)
  <2>1. chain # <<>> /\ chain' # <<>>
    BY <1>7
  <2>2. 1 \in 1 .. Len(chain') /\ 1 <= Len(chain)
    BY <1>3, <1>7
  <2>3. chain'[1] = chain[1]
    BY <1>1, <2>2
  <2> QED BY <2>1, <2>3 DEF First
<1> QED BY <1>1, <1>4, <1>5, <1>6, <1>7

-----------------------------------------------------------------------------
(* One sector is written.                                                  *)

\* What is reached of n bytes stays within the sector and within its cluster, and
\* is at least one byte of them.
LEMMA InSectorIs ==
    ASSUME NEW p \in Nat, NEW n \in Nat
    PROVE  /\ InSector(p, n) \in 0 .. n /\ InSector(p, n) \in Nat
           /\ n > 0 => InSector(p, n) > 0
           /\ InSector(p, n) <= bytes_per_sector
           /\ (p % cluster_size) + InSector(p, n) <= cluster_size
<1> DEFINE b == bytes_per_sector
           r == p % b
<1>1. b \in Nat /\ b > 0
  BY FilesAssumption
<1>2. r \in 0 .. b - 1
  BY <1>1, Divided
<1>3. InSector(p, n) = IF n < b - r THEN n ELSE b - r
  BY DEF InSector
<1>4. \A m \in Nat : r + m <= b => (p % cluster_size) + m <= cluster_size
  BY SectorInCluster
<1> HIDE DEF b, r
<1>5. InSector(p, n) \in 0 .. n /\ InSector(p, n) \in Nat /\ InSector(p, n) <= b
      /\ (n > 0 => InSector(p, n) > 0) /\ r + InSector(p, n) <= b
  BY <1>1, <1>2, <1>3
<1> QED BY <1>4, <1>5 DEF b

\* The cluster k after n bytes of s were put at position p, by a sector that was
\* read first unless all of it is replaced.
Patched(p, s, n, k) ==
    [i \in 0 .. cluster_size - 1 |->
        IF i \in p % cluster_size .. (p % cluster_size) + n - 1
        THEN s[i - (p % cluster_size) + 1]
        ELSE IF \/ ((p % cluster_size) % bytes_per_sector) # 0 \/ n # bytes_per_sector
                \/ (i \div bytes_per_sector) # ((p % cluster_size) \div bytes_per_sector)
             THEN data[k][i] ELSE Zero]

\* Outside of the bytes replaced the cluster is what it was.
LEMMA PatchedIs ==
    ASSUME DataOK, NEW p \in Nat, NEW s, NEW n \in Nat, NEW k \in Clusters,
           \A i \in 1 .. n : s[i] \in Bytes
    PROVE  /\ Patched(p, s, n, k) \in [0 .. cluster_size - 1 -> Bytes]
           /\ \A i \in 0 .. cluster_size - 1 :
                 Patched(p, s, n, k)[i] =
                    IF i \in p % cluster_size .. (p % cluster_size) + n - 1
                    THEN s[i - (p % cluster_size) + 1] ELSE data[k][i]
<1> DEFINE cs == cluster_size
           o == p % cs
           b == bytes_per_sector
           P == Patched(p, s, n, k)
<1>1. cs \in Nat /\ cs > 0
  BY ClusterSize
<1>2. o \in 0 .. cs - 1 /\ o \in Nat
  BY <1>1, Divided
<1>3. \A i \in 0 .. cs - 1 : P[i] =
         IF i \in o .. o + n - 1 THEN s[i - o + 1]
         ELSE IF (o % b) # 0 \/ n # b \/ (i \div b) # (o \div b) THEN data[k][i] ELSE Zero
  BY DEF Patched
<1>4. P = [i \in 0 .. cs - 1 |-> P[i]]
  BY DEF Patched
<1>5. \A i \in 0 .. cs - 1 : i \in Nat /\ data[k][i] \in Bytes
  BY <1>1 DEF DataOK
<1> HIDE DEF o, cs, P
<1>6. \A i \in 0 .. cs - 1 : (o % b) = 0 /\ n = b /\ (i \div b) = (o \div b) => i \in o .. o + n - 1
  BY <1>2, <1>5, WholeSector
<1>7. \A i \in 0 .. cs - 1 : P[i] = IF i \in o .. o + n - 1 THEN s[i - o + 1] ELSE data[k][i]
  BY <1>3, <1>6
<1>8. \A i \in 0 .. cs - 1 : P[i] \in Bytes
  <2>1. TAKE i \in 0 .. cs - 1
  <2>2. i \in o .. o + n - 1 => i - o + 1 \in 1 .. n
    BY <1>2, <1>5
  <2> QED BY <1>5, <1>7, <2>2
<1>9. P \in [0 .. cs - 1 -> Bytes]
  BY <1>4, <1>8
<1> QED BY <1>7, <1>9 DEF o, cs, P

\* A sector that is written changes the bytes it is to change and no others.
LEMMA SectorWritten ==
    ASSUME ChainOK, DataOK, UNCHANGED <<chain, lost>>,
           NEW p \in Nat, NEW s, NEW n \in Nat, (p % cluster_size) + n <= cluster_size,
           \A i \in 1 .. n : s[i] \in Bytes,
           cluster_at(p) # None,
           data' = [data EXCEPT ![cluster_at(p)] = Patched(p, s, n, cluster_at(p))]
    PROVE  /\ ChainOK' /\ DataOK'
           /\ \A x \in Nat : x < cluster_size * Len(chain) =>
                 ByteAt(x)' = IF p <= x /\ x < p + n THEN s[x - p + 1] ELSE ByteAt(x)
<1> DEFINE cs == cluster_size
           i == p \div cs + 1
           k == cluster_at(p)
           o == p % cs
<1>1. cs \in Nat /\ cs > 0 /\ chain \in Seq(Clusters) /\ Len(chain) \in Nat
      /\ p \div cs \in Nat /\ i \in Nat /\ i >= 1 /\ o \in 0 .. cs - 1
  BY ClusterSize, LenProperties, Divided DEF ChainOK
<1>2. k = chain[i] /\ i <= Len(chain)
  BY DEF cluster_at
<1>3. k \in Clusters
  BY <1>1, <1>2, ElementOfSeq
<1>4. ChainOK'
  BY DEF ChainOK, Clusters
<1> DEFINE P == Patched(p, s, n, k)
<1>5. P \in [0 .. cs - 1 -> Bytes]
      /\ \A j \in 0 .. cs - 1 : P[j] = IF j \in o .. o + n - 1 THEN s[j - o + 1] ELSE data[k][j]
  <2> HIDE DEF k
  <2> QED BY <1>3, PatchedIs
<1>6. data' = [data EXCEPT ![k] = P]
  OBVIOUS
<1> HIDE DEF P, k
<1>7. DataOK'
  <2>1. data' \in [Clusters -> [0 .. cs - 1 -> Bytes]]
    BY <1>3, <1>5, <1>6 DEF DataOK
  <2> QED BY <2>1 DEF DataOK
<1>8. data'[k] = P /\ \A c \in Clusters \ {k} : data'[c] = data[c]
  BY <1>3, <1>6 DEF DataOK
<1>9. ASSUME NEW x \in Nat, x < cs * Len(chain)
      PROVE  ByteAt(x)' = IF p <= x /\ x < p + n THEN s[x - p + 1] ELSE ByteAt(x)
  <2> DEFINE q == x \div cs + 1
             j == x % cs
  <2>0. \A m \in Nat : x < cs * m <=> x \div cs + 1 <= m
    BY InClusters
  <2>1. q \in Nat /\ q >= 1 /\ q <= Len(chain) /\ j \in 0 .. cs - 1 /\ x \div cs \in Nat
    BY <1>1, <1>9, <2>0, Divided
  <2>2. ByteAt(x)' = data'[chain[q]][j]
    BY <1>1, <1>9, ByteOfChain DEF Byte
  <2>3. ByteAt(x) = data[chain[q]][j]
    BY <1>1, <1>9, ByteOfChain DEF Byte
  <2>4. chain[q] \in Clusters
    BY <1>1, <2>1, ElementOfSeq
  <2>5. /\ p <= x /\ x < p + n => q = i /\ j = o + (x - p)
        /\ q = i /\ j \in o .. o + n - 1 => p <= x /\ x < p + n /\ x - p = j - o
    <3>1. /\ p <= x /\ x < p + n =>
                 /\ x \div cluster_size = p \div cluster_size
                 /\ x % cluster_size = (p % cluster_size) + (x - p)
          /\ /\ x \div cluster_size = p \div cluster_size
             /\ x % cluster_size \in (p % cluster_size) .. (p % cluster_size) + n - 1
             => p <= x /\ x < p + n /\ x - p = (x % cluster_size) - (p % cluster_size)
      BY Stretch
    <3>2. q = i <=> x \div cs = p \div cs
      BY <1>1, <2>1
    <3> QED BY <3>1, <3>2
  <2> HIDE DEF q, j, i, o
  <2>6. CASE q = i
    <3>1. ByteAt(x)' = P[j] /\ ByteAt(x) = data[k][j]
      BY <1>2, <1>8, <2>2, <2>3, <2>6
    <3>2. CASE p <= x /\ x < p + n
      <4>1. j = o + (x - p) /\ j - o + 1 = x - p + 1 /\ j \in o .. o + n - 1
        BY <1>1, <2>1, <2>5, <3>2
      <4> QED BY <1>5, <2>1, <3>1, <3>2, <4>1
    <3>3. CASE ~(p <= x /\ x < p + n)
      <4>1. j \notin o .. o + n - 1
        BY <2>5, <2>6, <3>3
      <4> QED BY <1>5, <2>1, <3>1, <3>3, <4>1
    <3> QED BY <3>2, <3>3
  <2>7. CASE q # i
    <3>1. chain[q] # k
      BY <1>1, <1>2, <2>1, <2>7 DEF ChainOK
    <3>2. ByteAt(x)' = ByteAt(x)
      BY <1>8, <2>2, <2>3, <2>4, <3>1
    <3> QED BY <2>5, <2>7, <3>2
  <2> QED BY <2>6, <2>7
<1> QED BY <1>4, <1>7, <1>9

-----------------------------------------------------------------------------
(* What the steps of all calls need.                                       *)

LEMMA SameBytes ==
    ASSUME UNCHANGED <<data, chain>>
    PROVE  \A p \in Nat : ByteAt(p)' = ByteAt(p)
BY DEF ByteAt, cluster_at, cluster_size, None

LEMMA SameFile ==
    ASSUME UNCHANGED <<data, chain>>, fp'.size = fp.size, fp.size \in Nat
    PROVE  Bytes1To(fp.size)' = Bytes1To(fp.size)
<1> DEFINE n == fp.size
           b == Bytes1To(n)
           c == Bytes1To(fp.size)'
<1>1. b = [i \in 1 .. n |-> ByteAt(i - 1)]
  BY DEF Bytes1To
<1>2. c = [i \in 1 .. n |-> ByteAt(i - 1)']
  BY DEF Bytes1To
<1>3. \A i \in 1 .. n : ByteAt(i - 1)' = ByteAt(i - 1)
  <2>1. \A i \in 1 .. n : i - 1 \in Nat
    OBVIOUS
  <2> QED BY <2>1, SameBytes
<1> HIDE DEF b, c, n
<1>4. b = c
  BY <1>1, <1>2, <1>3
<1> QED BY <1>4 DEF b, c, n

LEMMA FirstIs ==
    ASSUME NEW c \in Seq(Clusters)
    PROVE  /\ Len(c) \in Nat /\ First(c) \in Clusters \cup {None}
           /\ First(c) = None <=> Len(c) = 0
           /\ Len(c) = 0 <=> c = <<>>
<1>1. Len(c) \in Nat /\ (Len(c) = 0 <=> c = <<>>)
  BY LenProperties, EmptySeq
<1>2. c # <<>> => c[1] \in Clusters
  BY <1>1, ElementOfSeq
<1>3. \A k \in Clusters : k # None
  BY DEF Clusters, None
<1> QED BY <1>1, <1>2, <1>3 DEF First

LEMMA ByteTyped ==
    ASSUME NEW p \in Nat
    PROVE  /\ ChainOK /\ DataOK => ByteAt(p) \in Bytes
           /\ ChainOK' /\ DataOK' => ByteAt(p)' \in Bytes
<1> DEFINE cs == cluster_size
           q == p \div cs + 1
<1>1. \A m \in Nat : p < cs * m <=> q <= m
  BY InClusters
<1>2. q \in Nat /\ q >= 1 /\ p % cs \in 0 .. cs - 1
  BY InClusters
<1>3. Stale \in Bytes
  BY DEF Bytes
<1>4. ASSUME NEW d \in [Clusters -> [0 .. cs - 1 -> Bytes]], NEW c \in Seq(Clusters)
      PROVE  Byte(d, c, p) \in Bytes
  <2>1. Len(c) \in Nat
    BY LenProperties
  <2>2. CASE p < cs * Len(c)
    <3>1. q \in 1 .. Len(c)
      BY <1>1, <1>2, <2>1, <2>2
    <3> HIDE DEF q
    <3>2. c[q] \in Clusters
      BY <3>1, ElementOfSeq
    <3>3. d[c[q]][p % cs] \in Bytes
      BY <1>2, <3>2
    <3>4. Byte(d, c, p) = d[c[q]][p % cs]
      BY <2>2 DEF Byte, q
    <3> QED BY <3>3, <3>4
  <2>3. CASE ~(p < cs * Len(c))
    BY <1>3, <2>3 DEF Byte
  <2> QED BY <2>2, <2>3
<1>5. ASSUME ChainOK, DataOK PROVE ByteAt(p) \in Bytes
  <2>1. data \in [Clusters -> [0 .. cs - 1 -> Bytes]] /\ chain \in Seq(Clusters)
    BY <1>5 DEF ChainOK, DataOK
  <2> QED BY <1>4, <2>1, ByteOfChain
<1>6. ASSUME ChainOK', DataOK' PROVE ByteAt(p)' \in Bytes
  <2>1. data' \in [Clusters -> [0 .. cs - 1 -> Bytes]] /\ chain' \in Seq(Clusters)
    BY <1>6 DEF ChainOK, DataOK, Clusters, Bytes, cluster_size
  <2> QED BY <1>4, <2>1, ByteOfChain
<1> QED BY <1>5, <1>6

\* Sequences that are given by their elements.
LEMMA SequenceOf ==
    ASSUME NEW S, NEW n \in Nat, NEW s, s = [i \in 1 .. n |-> s[i]],
           \A i \in 1 .. n : s[i] \in S
    PROVE  s \in Seq(S) /\ Len(s) = n /\ DOMAIN s = 1 .. n
<1>1. s \in [1 .. n -> S]
  OBVIOUS
<1>2. s \in Seq(S)
  BY <1>1
<1> QED BY <1>1, <1>2, LenProperties

LEMMA BytesAre ==
    ASSUME NEW n \in Nat
    PROVE  /\ \A i \in 1 .. n : Bytes1To(n)[i] = ByteAt(i - 1) /\ Bytes1To(n)'[i] = ByteAt(i - 1)'
           /\ ChainOK /\ DataOK => /\ Bytes1To(n) \in Seq(Bytes) /\ Len(Bytes1To(n)) = n
                                   /\ DOMAIN Bytes1To(n) = 1 .. n
           /\ ChainOK' /\ DataOK' => /\ Bytes1To(n)' \in Seq(Bytes) /\ Len(Bytes1To(n)') = n
                                     /\ DOMAIN Bytes1To(n)' = 1 .. n
<1> DEFINE b == Bytes1To(n)
<1>1. b = [i \in 1 .. n |-> ByteAt(i - 1)] /\ b' = [i \in 1 .. n |-> ByteAt(i - 1)']
  BY DEF Bytes1To
<1>2. \A i \in 1 .. n : i - 1 \in Nat
  OBVIOUS
<1> DEFINE c == b'
<1>3. c = [i \in 1 .. n |-> ByteAt(i - 1)']
  BY <1>1
<1> HIDE DEF b, c
<1>4. \A i \in 1 .. n : b[i] = ByteAt(i - 1) /\ c[i] = ByteAt(i - 1)'
  BY <1>1, <1>3
<1>5. b = [i \in 1 .. n |-> b[i]] /\ c = [i \in 1 .. n |-> c[i]]
  BY <1>1, <1>3, <1>4
<1>6. ASSUME ChainOK, DataOK PROVE b \in Seq(Bytes) /\ Len(b) = n /\ DOMAIN b = 1 .. n
  <2>1. \A i \in 1 .. n : b[i] \in Bytes
    BY <1>2, <1>4, <1>6, ByteTyped
  <2> QED BY <1>5, <2>1, SequenceOf
<1>7. ASSUME ChainOK', DataOK' PROVE c \in Seq(Bytes) /\ Len(c) = n /\ DOMAIN c = 1 .. n
  <2>1. \A i \in 1 .. n : c[i] \in Bytes
    BY <1>2, <1>4, <1>7, ByteTyped
  <2> QED BY <1>5, <2>1, SequenceOf
<1> QED BY <1>4, <1>6, <1>7 DEF b, c

\* What a program may write.
LEMMA SourcesAre ==
    ASSUME NEW s \in Sources
    PROVE  s \in Seq(Bytes) /\ Len(s) \in Nat /\ \A i \in 1 .. Len(s) : s[i] # Stale
<1>1. s \in Seq(ToSet(s)) /\ Stale \notin ToSet(s)
  BY FilesAssumption
<1>2. ToSet(s) \subseteq Bytes
  BY DEF Bytes
<1>3. s \in Seq(Bytes)
  BY <1>1, <1>2, SeqMonotonic
<1>4. Len(s) \in Nat /\ \A i \in 1 .. Len(s) : s[i] \in ToSet(s)
  BY <1>1, LenProperties, ElementOfSeq
<1> QED BY <1>1, <1>3, <1>4

\* Grow, when it neither refuses nor ruins the file: the chain holds the file with
\* its new bytes, and the bytes the file had are where they were.
Grown(p, s, c) ==
    /\ NoFail /\ ChainOK' /\ DataOK'
    /\ fp' = [fp EXCEPT !.size = Promise!Greatest(fp.size, p + Len(s)), !.position = p,
                        !.first_cluster = First(chain')]
    /\ fp'.size <= cluster_size * Len(chain')
    /\ \A x \in Nat : x < fp.size => ByteAt(x)' = ByteAt(x)
    /\ Len(chain) > 0 => First(chain') = First(chain)
    /\ call' = c /\ UNCHANGED reply

Refused(p, s, c) ==
    /\ (NoFail /\ ~HasRoom(p + Len(s))) \/ Fail
    /\ call' = NoCall /\ reply' = <<>>
    /\ fp' = [fp EXCEPT !.position = c.start] /\ UNCHANGED <<data, chain>>

Descriptors == [mode : Modes \cup {"closed"}, first_cluster : Clusters \cup {None},
                size : Nat, position : Nat]

LEMMA Grows ==
    ASSUME ChainOK, DataOK, fp \in Descriptors, fp.first_cluster = First(chain),
           fp.size <= cluster_size * Len(chain), UNCHANGED lost,
           NEW p \in Nat, NEW s, Len(s) \in Nat, NEW c, Grow(p, s, c), ~ruined'
    PROVE  Grown(p, s, c) \/ Refused(p, s, c)
<1> DEFINE n == p + Len(s)
<1>0. n \in Nat /\ fp.size \in Nat /\ fp.position \in Nat /\ Len(chain) \in Nat
      /\ chain \in Seq(Clusters)
  BY LenProperties DEF Descriptors, ChainOK
<1>4. n > fp.size =>
         \/ /\ ensure_size(n) /\ call' = c /\ UNCHANGED reply
            /\ fp' = [fp EXCEPT !.size = n, !.position = p, !.first_cluster = First(chain')]
         \/ ensure_size_fails(n) /\ Return(<<>>) /\ fp' = [fp EXCEPT !.position = c.start]
  BY DEF Grow
<1>1. CASE /\ n > fp.size /\ ensure_size(n) /\ call' = c /\ UNCHANGED reply
           /\ fp' = [fp EXCEPT !.size = n, !.position = p, !.first_cluster = First(chain')]
  <2>0. NoFail /\ n <= Limit /\ n > fp.size
    <3>1. ruined' = (n > Limit) /\ NoFail
      BY <1>1 DEF ensure_size
    <3>2. ~(n > Limit)
      BY <3>1, Zenon
    <3> QED BY <1>0, <1>1, <3>1, <3>2, LimitIs
  <2>1. /\ ensure_size(n) /\ call' = c /\ UNCHANGED reply
        /\ fp' = [fp EXCEPT !.size = n, !.position = p, !.first_cluster = First(chain')]
    BY <1>1
  <2>2. /\ ChainOK' /\ DataOK' /\ Len(chain') = Required(n)
        /\ \A x \in Nat : x < cluster_size * Len(chain) /\ x < cluster_size * Len(chain')
              => ByteAt(x)' = ByteAt(x)
        /\ Len(chain) > 0 /\ Len(chain') > 0 => First(chain') = First(chain)
    <3> HIDE DEF n
    <3> QED BY <1>0, <1>1, <2>1, EnsureSize
  <2>3. n <= cluster_size * Len(chain') /\ Len(chain') > 0 /\ Required(n) \in Nat
    <3> DEFINE c1 == Len(chain')
    <3>1. n \in Nat /\ n # 0 /\ c1 = Required(n) /\ n <= Limit
      BY <1>0, <1>1, <2>0, <2>2
    <3> HIDE DEF n, c1
    <3>2. Required(n) \in Nat /\ n <= cluster_size * Required(n) /\ Required(n) # 0
      BY <3>1, RequiredIs
    <3>3. n <= cluster_size * c1 /\ c1 > 0 /\ Required(n) \in Nat
      BY <3>1, <3>2
    <3> QED BY <3>3 DEF c1
  <2>4. cluster_size * Len(chain) \in Nat /\ cluster_size * Len(chain') \in Nat
    BY <1>0, <2>2, <2>3, ClusterSize, Product
  <2>5. \A x \in Nat : x < fp.size => ByteAt(x)' = ByteAt(x)
    <3> HIDE DEF n
    <3> QED BY <1>0, <2>0, <2>2, <2>3, <2>4
  <2>6. Promise!Greatest(fp.size, n) = n
    BY <1>0, <1>1 DEF Promise!Greatest
  <2>7. fp'.size = n
    BY <2>1 DEF Descriptors
  <2> QED BY <2>0, <2>1, <2>2, <2>3, <2>5, <2>6, <2>7 DEF Grown
<1>2. CASE ensure_size_fails(n) /\ Return(<<>>) /\ fp' = [fp EXCEPT !.position = c.start]
  BY <1>2 DEF ensure_size_fails, Refused, Return
<1>3. CASE ~(n > fp.size)
  <2>1. /\ fp' = [fp EXCEPT !.position = p] /\ call' = c /\ UNCHANGED <<data, chain, reply>>
        /\ NoFail
    BY <1>3 DEF Grow
  <2>2. ChainOK' /\ DataOK'
    BY <2>1 DEF ChainOK, DataOK, Clusters, cluster_size, Bytes
  <2>3. \A x \in Nat : ByteAt(x)' = ByteAt(x)
    BY <2>1, SameBytes
  <2>4. Promise!Greatest(fp.size, n) = fp.size
    BY <1>0, <1>3 DEF Promise!Greatest
  <2>5. fp' = [fp EXCEPT !.size = fp.size, !.position = p, !.first_cluster = First(chain')]
    BY <2>1 DEF Descriptors
  <2>6. fp'.size = fp.size
    BY <2>1 DEF Descriptors
  <2> QED BY <2>1, <2>2, <2>3, <2>4, <2>5, <2>6 DEF Grown
<1> QED BY <1>1, <1>2, <1>3, <1>4

-----------------------------------------------------------------------------
(* The inductive invariant.                                                *)

Calls == [op : {"none", "open", "close", "read", "write"},
          at : {"idle", "entry", "sector", "gap"}, source : Seq(Bytes), requested : Nat,
          start : Nat, nested : BOOLEAN, outer : Seq(Bytes), before : Seq(Bytes)]

Typed ==
    /\ ChainOK /\ DataOK
    /\ entry \in [first_cluster : Clusters \cup {None}, size : Nat]
    /\ fp \in Descriptors
    /\ call \in Calls
    /\ writes \in 0 .. MaxWrites /\ errors \in 0 .. MaxErrors

\* The entry on the disk: without clusters it has no bytes, and the bytes of a file
\* that can be opened are in its chain.  Before any error none of them is stale.
DiskOK ==
    /\ entry.first_cluster = None => entry.size = 0
    /\ Reachable => entry.size <= cluster_size * Len(chain)
    /\ errors = 0 /\ Reachable => \A i \in 1 .. entry.size : ByteAt(i - 1) # Stale

\* The descriptor: closed it is as at first; open it has the chain, whose clusters
\* hold its bytes, and the entry is behind it, or equal to it when nothing can
\* have come between.
DescriptorOK ==
    IF fp.mode = "closed" THEN fp = Closed /\ call = NoCall
    ELSE call.op # "open" =>
            /\ fp.first_cluster = First(chain) /\ Reachable
            /\ fp.size <= cluster_size * Len(chain) /\ entry.size <= fp.size
            /\ fp.mode = "r" => entry = Updated
            /\ errors = 0 /\ call.op # "write" => entry = Updated

Opening ==
    /\ In("entry") /\ fp.mode \in {"w", "w+"} /\ chain = <<>>
    /\ fp = [Closed EXCEPT !.mode = fp.mode]
    /\ entry.first_cluster = None => call.before = <<>>

Closing == In("entry") /\ fp.mode # "closed" /\ call.before = Bytes1To(fp.size)

Reading ==
    /\ In("sector") /\ fp.mode # "closed" /\ readable
    /\ call.before = Bytes1To(fp.size) /\ call.start = fp.position
    /\ call.start + Len(call.source) + call.requested <= fp.size
    /\ \E n \in Counts :
          Len(call.source) + call.requested = Promise!Least(n, fp.size - call.start)
    /\ \A i \in 1 .. Len(call.source) : call.source[i] = call.before[call.start + i]

\* The byte i of the file once w bytes of the write c are in it.
Intended(c, w, i) ==
    IF i > c.start /\ i <= c.start + w THEN c.outer[i - c.start]
    ELSE IF i <= Len(c.before) THEN c.before[i] ELSE Zero

\* The file up to byte n is as it will be with w bytes of the write in it.
Holds(w, n) == \A i \in 1 .. n : ByteAt(i - 1) = Intended(call, w, i)

\* The gap is filled up to byte n.
Filled(n) ==
    /\ Len(call.before) <= n /\ n <= call.start /\ Len(call.before) < call.start
    /\ Holds(0, n) /\ Fits(call.start) /\ call.start <= Limit

FillingGap ==
    /\ ~call.nested /\ Filled(fp.size)
    /\ fp.size = call.start => fp.position = call.start
    /\ errors = 0 => entry.size = fp.size

FillingSector ==
    /\ Filled(fp.position)
    /\ fp.position + Len(call.source) = fp.size /\ fp.size <= call.start
    /\ \A i \in 1 .. Len(call.source) : call.source[i] = Zero
    /\ errors = 0 => /\ Len(call.before) <= entry.size /\ entry.size <= fp.position
                     /\ In("entry") => call.source = <<>>

\* The loop of the write: what is left to be put, and what the file holds.
PuttingSector ==
    LET w == fp.position - call.start
    IN  /\ call.start <= fp.position /\ w + Len(call.source) = Len(call.outer)
        /\ \A i \in 1 .. Len(call.source) : call.source[i] = call.outer[w + i]
        /\ fp.size = Promise!Greatest(Len(call.before), call.start + Len(call.outer))
        /\ Holds(w, Promise!Greatest(Len(call.before), fp.position))
        /\ errors = 0 =>
              /\ entry.size = Promise!Greatest(Len(call.before), call.start)
              /\ In("entry") => call.source = <<>>

Writing ==
    /\ writable /\ call.outer \in Sources
    /\ In("gap") \/ In("sector") \/ In("entry")
    /\ In("gap") => FillingGap
    /\ ~In("gap") /\ call.nested => FillingSector
    /\ ~In("gap") /\ ~call.nested => PuttingSector

CallOK ==
    /\ Idle => call = NoCall
    /\ call.op = "open" => Opening
    /\ call.op = "close" => Closing
    /\ call.op = "read" => Reading
    /\ call.op = "write" => Writing
    /\ errors = 0 => \A i \in 1 .. Len(call.before) : call.before[i] # Stale

\* The invariant as long as the file is not ruined.
FilesInv == Typed /\ DiskOK /\ DescriptorOK /\ CallOK

\* The invariant: a ruined file is followed no further, so that the types are enough.
FilesOrRuined == ruined \in BOOLEAN /\ (IF ruined THEN TypeOK ELSE FilesInv)

-----------------------------------------------------------------------------
(* The invariant holds at first and after every step.                      *)

LEMMA InitHolds ==
    ASSUME Init
    PROVE  FilesInv
<1> DEFINE blank == [i \in 0 .. cluster_size - 1 |-> Stale]
<1>1. chain = <<>> /\ lost = {} /\ entry = [first_cluster |-> None, size |-> 0] /\ fp = Closed
      /\ call = NoCall /\ writes = 0 /\ errors = 0 /\ data = [k \in Clusters |-> blank]
  BY DEF Init
<1>2. blank \in [0 .. cluster_size - 1 -> Bytes]
  BY DEF Bytes
<1> HIDE DEF blank
<1>3. DataOK
  BY <1>1, <1>2 DEF DataOK
<1>4. ChainOK
  BY <1>1 DEF ChainOK
<1>5. First(chain) = None
  BY <1>1 DEF First
<1>6. fp \in Descriptors /\ entry \in [first_cluster : Clusters \cup {None}, size : Nat]
  BY <1>1 DEF Descriptors, Closed, None
<1>7. call \in Calls
  BY <1>1 DEF Calls, NoCall
<1>8. Typed
  BY <1>1, <1>3, <1>4, <1>6, <1>7, FilesAssumption DEF Typed
<1>9. DiskOK
  BY <1>1, ClusterSize DEF DiskOK
<1>10. DescriptorOK
  BY <1>1 DEF DescriptorOK, Closed
<1>11. CallOK
  BY <1>1 DEF CallOK, NoCall, Idle
<1> QED BY <1>8, <1>9, <1>10, <1>11 DEF FilesInv

LEMMA OnDiskIs ==
    ASSUME FilesInv
    PROVE  LET n == IF entry.first_cluster # None /\ Reachable THEN entry.size ELSE 0
           IN  /\ n \in Nat /\ OnDisk \in Seq(Bytes) /\ Len(OnDisk) = n /\ DOMAIN OnDisk = 1 .. n
               /\ \A i \in 1 .. n : OnDisk[i] = ByteAt(i - 1)
               /\ errors = 0 => \A i \in 1 .. n : OnDisk[i] # Stale
<1>1. entry.size \in Nat /\ ChainOK /\ DataOK
  BY DEF FilesInv, Typed
<1>2. CASE entry.first_cluster # None /\ Reachable
  <2>1. OnDisk = Bytes1To(entry.size)
    BY <1>2 DEF OnDisk
  <2>2. errors = 0 => \A i \in 1 .. entry.size : ByteAt(i - 1) # Stale
    BY <1>2 DEF FilesInv, DiskOK
  <2> QED BY <1>1, <1>2, <2>1, <2>2, BytesAre
<1>3. CASE ~(entry.first_cluster # None /\ Reachable)
  <2>1. OnDisk = <<>>
    BY <1>3 DEF OnDisk
  <2> QED BY <1>3, <2>1
<1> QED BY <1>2, <1>3

LEMMA CallsAre ==
    /\ NoCall \in Calls /\ NoCall.op = "none" /\ NoCall.before = <<>>
    /\ Closed \in Descriptors /\ Closed.mode = "closed" /\ Closed.size = 0
    /\ Closed.first_cluster = None /\ Closed.position = 0
BY DEF NoCall, Calls, Closed, Descriptors, None

LEMMA OpenStarts ==
    ASSUME FilesInv, NEW m \in Modes, fat_open(m)
    PROVE  FilesInv'
<1>1. fp.mode = "closed" /\ Reachable /\ fp = Closed /\ call = NoCall
      /\ ChainOK /\ DataOK /\ call \in Calls /\ fp \in Descriptors
      /\ entry \in [first_cluster : Clusters \cup {None}, size : Nat]
      /\ writes \in 0 .. MaxWrites /\ errors \in 0 .. MaxErrors
  BY DEF fat_open, FilesInv, DescriptorOK, Typed
<1>2. entry' = entry /\ writes' = writes /\ errors' = errors
      /\ lost' = IF entry.first_cluster = None THEN lost \cup ToSet(chain) ELSE lost
  BY DEF fat_open, ensure_size, NoFail
<1>3. chain \in Seq(Clusters) /\ ToSet(chain) \subseteq Clusters /\ lost \subseteq Clusters
  BY <1>1, ToSetIs DEF ChainOK
<1>4. /\ entry.first_cluster = None => entry.size = 0
      /\ entry.size <= cluster_size * Len(chain)
      /\ errors = 0 => \A i \in 1 .. entry.size : ByteAt(i - 1) # Stale
  BY <1>1 DEF FilesInv, DiskOK
<1>5. chain' = <<>> /\ lost' \subseteq Clusters => ChainOK'
  BY DEF ChainOK
<1>6. First(<<>>) = None /\ Len(<<>>) = 0
  BY DEF First
<1>7. CASE m \in {"r", "a", "a+"}
  <2>1. /\ fp' = [mode |-> m, first_cluster |-> entry.first_cluster, size |-> entry.size,
                  position |-> IF m = "r" THEN 0 ELSE entry.size]
        /\ chain' = IF entry.first_cluster = None THEN <<>> ELSE chain
        /\ data' = data /\ call' = call
    BY <1>7 DEF fat_open
  <2>2. DataOK'
    BY <1>1, <2>1 DEF DataOK, Clusters, Bytes, cluster_size
  <2>3. ChainOK'
    <3>1. CASE entry.first_cluster = None
      BY <1>2, <1>3, <1>5, <2>1, <3>1
    <3>2. CASE entry.first_cluster # None
      BY <1>1, <1>2, <2>1, <3>2 DEF ChainOK, Clusters
    <3> QED BY <3>1, <3>2
  <2>4. First(chain') = entry.first_cluster /\ entry.size <= cluster_size * Len(chain')
    <3>1. CASE entry.first_cluster = None
      BY <1>4, <1>6, <2>1, <3>1, ClusterSize
    <3>2. CASE entry.first_cluster # None
      BY <1>1, <1>4, <2>1, <3>2 DEF Reachable
    <3> QED BY <3>1, <3>2
  <2>5. fp' \in Descriptors
    BY <1>1, <2>1 DEF Descriptors
  <2>6. Typed'
    BY <1>1, <1>2, <2>1, <2>2, <2>3, <2>5 DEF Typed, Clusters, None, Descriptors, Modes, Calls,
       Bytes
  <2>7. errors = 0 => \A i \in 1 .. entry.size : ByteAt(i - 1)' # Stale
    <3>1. CASE entry.first_cluster = None
      BY <1>4, <3>1
    <3>2. CASE entry.first_cluster # None
      <4>1. \A p \in Nat : ByteAt(p)' = ByteAt(p)
        BY <2>1, <3>2, SameBytes
      <4>2. \A i \in 1 .. entry.size : i - 1 \in Nat
        BY <1>1
      <4> QED BY <1>4, <4>1, <4>2
    <3> QED BY <3>1, <3>2
  <2>8. DiskOK'
    BY <1>2, <1>4, <2>4, <2>7 DEF DiskOK, None, cluster_size
  <2>9. DescriptorOK'
    <3>1. fp'.mode = m /\ fp'.first_cluster = entry.first_cluster /\ fp'.size = entry.size
      BY <2>1
    <3>2. Updated' = [first_cluster |-> entry.first_cluster, size |-> entry.size]
      BY <3>1 DEF Updated
    <3>3. entry = [first_cluster |-> entry.first_cluster, size |-> entry.size]
      BY <1>1
    <3>4. m # "closed" /\ entry'.size = entry.size /\ entry' = Updated'
      BY <1>2, <3>2, <3>3 DEF Modes
    <3>5. Reachable'
      BY <1>2, <2>4 DEF Reachable
    <3>6. fp'.size <= cluster_size * Len(chain') /\ entry'.size <= fp'.size
      BY <1>1, <1>2, <2>4, <3>1
    <3> QED BY <2>4, <3>1, <3>4, <3>5, <3>6 DEF DescriptorOK, cluster_size
  <2>10. CallOK'
    BY <1>1, <2>1, CallsAre DEF CallOK, Idle
  <2> QED BY <2>6, <2>8, <2>9, <2>10 DEF FilesInv
<1>8. CASE m \in {"w", "w+"}
  <2>1. /\ fp' = [Closed EXCEPT !.mode = m]
        /\ call' = [NoCall EXCEPT !.op = "open", !.at = "entry", !.before = OnDisk]
        /\ entry.first_cluster = None => chain' = <<>> /\ data' = data
        /\ entry.first_cluster # None => ensure_size(0)
    BY <1>8 DEF fat_open
  <2>2. chain' = <<>> /\ DataOK'
    <3>1. CASE entry.first_cluster = None
      BY <1>1, <2>1, <3>1 DEF DataOK, Clusters, Bytes, cluster_size
    <3>2. CASE entry.first_cluster # None
      <4>1. Required(0) = 0
        BY LimitIs, RequiredIs
      <4>2. Len(chain') = 0 /\ DataOK' /\ ChainOK'
        BY <1>1, <1>2, <2>1, <3>2, <4>1, EnsureSize
      <4>3. chain' \in Seq(Clusters)
        BY <4>2 DEF ChainOK, Clusters
      <4> QED BY <4>2, <4>3, EmptySeq
    <3> QED BY <3>1, <3>2
  <2>3. ChainOK'
    BY <1>2, <1>3, <1>5, <2>2
  <2>4. OnDisk \in Seq(Bytes) /\ (entry.first_cluster = None => OnDisk = <<>>)
        /\ (errors = 0 => \A i \in 1 .. Len(OnDisk) : OnDisk[i] # Stale)
    BY OnDiskIs DEF OnDisk
  <2>5. fp' \in Descriptors /\ fp'.mode = m /\ fp' = [Closed EXCEPT !.mode = fp'.mode]
    BY <2>1, CallsAre DEF Descriptors, Closed
  <2>6. call' \in Calls /\ call'.op = "open" /\ call'.at = "entry" /\ call'.before = OnDisk
    BY <2>1, <2>4, CallsAre DEF Calls, NoCall
  <2>7. Typed'
    BY <1>1, <1>2, <2>2, <2>3, <2>5, <2>6 DEF Typed, Clusters, None, Descriptors, Modes, Calls,
       Bytes
  <2>8. DiskOK'
    BY <1>2, <1>4, <1>6, <2>2, ClusterSize DEF DiskOK, None, cluster_size, Reachable
  <2>9. DescriptorOK'
    BY <1>8, <2>5, <2>6 DEF DescriptorOK
  <2>10. Opening'
    <3>1. entry'.first_cluster = None => call'.before = <<>>
      BY <1>2, <2>4, <2>6
    <3> QED BY <1>8, <2>2, <2>5, <2>6, <3>1 DEF Opening, In, Closed, None
  <2>11. CallOK'
    BY <1>2, <2>4, <2>6, <2>10 DEF CallOK, Idle
  <2> QED BY <2>7, <2>8, <2>9, <2>11 DEF FilesInv
<1> QED BY <1>7, <1>8 DEF Modes

\* A step that leaves the clusters and the entry alone, whether an access fails or
\* not.
LEMMA SameDisk ==
    ASSUME FilesInv, UNCHANGED <<data, chain, lost, entry>>, NoFail \/ Fail
    PROVE  /\ ChainOK' /\ DataOK' /\ DiskOK' /\ errors' \in 0 .. MaxErrors
           /\ errors' = 0 => errors = 0
           /\ (Reachable <=> Reachable') /\ First(chain') = First(chain)
           /\ entry' \in [first_cluster : Clusters \cup {None}, size : Nat]
           /\ \A p \in Nat : ByteAt(p)' = ByteAt(p)
<1>1. ChainOK /\ DataOK /\ errors \in 0 .. MaxErrors
      /\ entry \in [first_cluster : Clusters \cup {None}, size : Nat]
  BY DEF FilesInv, Typed
<1>2. ChainOK' /\ DataOK'
  BY <1>1 DEF ChainOK, DataOK, Clusters, Bytes, cluster_size
<1>3. MaxErrors \in Nat
  BY FilesAssumption
<1>4. errors' \in 0 .. MaxErrors /\ (errors' = 0 => errors = 0)
  BY <1>1, <1>3 DEF NoFail, Fail
<1>5. \A p \in Nat : ByteAt(p)' = ByteAt(p)
  BY SameBytes
<1>6. Reachable <=> Reachable'
  BY DEF Reachable, None
<1>7. \A i \in 1 .. entry.size : i - 1 \in Nat
  BY <1>1
<1>8. errors' = 0 /\ Reachable => \A i \in 1 .. entry.size : ByteAt(i - 1)' # Stale
  BY <1>4, <1>5, <1>7 DEF FilesInv, DiskOK
<1>9. DiskOK'
  BY <1>6, <1>8 DEF DiskOK, FilesInv, None, cluster_size
<1> QED BY <1>1, <1>2, <1>4, <1>5, <1>6, <1>9

\* The parts of the invariant that FilesInv is shown from.
LEMMA TypedAgain ==
    ASSUME ChainOK', DataOK', fp' \in Descriptors, call' \in Calls,
           entry' \in [first_cluster : Clusters \cup {None}, size : Nat],
           writes' \in 0 .. MaxWrites, errors' \in 0 .. MaxErrors
    PROVE  Typed'
BY DEF Typed, Clusters, None, Descriptors, Modes, Calls, Bytes

\* An open descriptor between two calls.
LEMMA OpenIs ==
    ASSUME FilesInv, fp.mode # "closed", call.op # "open"
    PROVE  /\ fp.first_cluster = First(chain) /\ Reachable
           /\ fp.size <= cluster_size * Len(chain) /\ entry.size <= fp.size
           /\ fp.mode = "r" => entry = Updated
           /\ errors = 0 /\ call.op # "write" => entry = Updated
           /\ ChainOK /\ DataOK /\ fp \in Descriptors /\ call \in Calls
           /\ fp.size \in Nat /\ fp.position \in Nat /\ entry.size \in Nat
           /\ entry \in [first_cluster : Clusters \cup {None}, size : Nat]
           /\ writes \in 0 .. MaxWrites /\ errors \in 0 .. MaxErrors
           /\ call.source \in Seq(Bytes) /\ call.outer \in Seq(Bytes)
           /\ call.before \in Seq(Bytes) /\ call.start \in Nat /\ call.requested \in Nat
<1>1. Typed /\ DescriptorOK
  BY DEF FilesInv
<1>2. fp \in Descriptors /\ call \in Calls /\ ChainOK /\ DataOK
      /\ entry \in [first_cluster : Clusters \cup {None}, size : Nat]
      /\ writes \in 0 .. MaxWrites /\ errors \in 0 .. MaxErrors
  BY <1>1 DEF Typed
<1>3. fp.size \in Nat /\ fp.position \in Nat /\ entry.size \in Nat
  BY <1>2 DEF Descriptors
<1>4. call.source \in Seq(Bytes) /\ call.outer \in Seq(Bytes)
      /\ call.before \in Seq(Bytes) /\ call.start \in Nat /\ call.requested \in Nat
  BY <1>2 DEF Calls
<1> QED BY <1>1, <1>2, <1>3, <1>4 DEF DescriptorOK

\* An open descriptor stays in order in a step that leaves the clusters, the entry
\* and its file alone.
LEMMA OpenStays ==
    ASSUME FilesInv, fp.mode # "closed", call.op # "open", call'.op # "open",
           UNCHANGED <<data, chain, lost, entry>>, NoFail \/ Fail,
           fp'.mode = fp.mode, fp'.first_cluster = fp.first_cluster, fp'.size = fp.size,
           errors' = 0 /\ call'.op # "write" => entry = Updated
    PROVE  DescriptorOK'
<1>1. /\ fp.first_cluster = First(chain) /\ Reachable
      /\ fp.size <= cluster_size * Len(chain) /\ entry.size <= fp.size
      /\ fp.mode = "r" => entry = Updated
  BY OpenIs
<1>2. Reachable' /\ First(chain') = First(chain)
  BY <1>1, SameDisk
<1>3. Updated' = Updated
  BY DEF Updated
<1>4. fp'.size <= cluster_size * Len(chain')
  BY <1>1
<1> QED BY <1>1, <1>2, <1>3, <1>4 DEF DescriptorOK, cluster_size

\* The file as the program sees it has no stale byte before an error.
LEMMA NoStale ==
    ASSUME FilesInv, fp.mode # "closed", call.op # "open"
    PROVE  /\ Bytes1To(fp.size) \in Seq(Bytes) /\ Len(Bytes1To(fp.size)) = fp.size
           /\ errors = 0 /\ call.op # "write" =>
                 \A i \in 1 .. Len(Bytes1To(fp.size)) : Bytes1To(fp.size)[i] # Stale
<1>1. fp.size \in Nat /\ ChainOK /\ DataOK /\ Reachable
      /\ (errors = 0 /\ call.op # "write" => entry = Updated)
  BY OpenIs
<1>2. Bytes1To(fp.size) \in Seq(Bytes) /\ Len(Bytes1To(fp.size)) = fp.size
      /\ \A i \in 1 .. fp.size : Bytes1To(fp.size)[i] = ByteAt(i - 1)
  BY <1>1, BytesAre
<1>3. errors = 0 => \A i \in 1 .. entry.size : ByteAt(i - 1) # Stale
  BY <1>1 DEF FilesInv, DiskOK
<1>4. entry = Updated => entry.size = fp.size
  BY DEF Updated
<1> QED BY <1>1, <1>2, <1>3, <1>4

\* A truncation that fails changes nothing.
LEMMA OpenRefused ==
    ASSUME FilesInv, NEW m \in Modes, fat_openFails(m)
    PROVE  FilesInv'
<1>1. fp.mode = "closed" /\ UNCHANGED <<data, chain, lost, entry, fp, call, writes>>
      /\ (NoFail \/ Fail)
  BY DEF fat_openFails, ensure_size_fails
<1>2. fp = Closed /\ call = NoCall /\ fp \in Descriptors /\ call \in Calls
      /\ writes \in 0 .. MaxWrites
  BY <1>1 DEF FilesInv, DescriptorOK, Typed
<1>3. ChainOK' /\ DataOK' /\ DiskOK' /\ errors' \in 0 .. MaxErrors
      /\ entry' \in [first_cluster : Clusters \cup {None}, size : Nat]
  BY <1>1, SameDisk
<1>4. Typed'
  BY <1>1, <1>2, <1>3, TypedAgain
<1>5. DescriptorOK'
  BY <1>1, <1>2, CallsAre DEF DescriptorOK, NoCall, Closed, None
<1>6. CallOK'
  BY <1>1, <1>2, CallsAre DEF CallOK, Idle, NoCall
<1> QED BY <1>3, <1>4, <1>5, <1>6 DEF FilesInv

LEMMA CloseStarts ==
    ASSUME FilesInv, fat_close
    PROVE  FilesInv'
<1>1. Idle /\ fp.mode # "closed" /\ UNCHANGED <<data, chain, lost, entry, reply, writes>> /\ NoFail
  BY DEF fat_close, NoFail
<1>2. call = NoCall /\ call.op = "none"
  BY <1>1 DEF FilesInv, CallOK, Idle
<1>3. ChainOK' /\ DataOK' /\ DiskOK' /\ errors' \in 0 .. MaxErrors /\ (Reachable <=> Reachable')
      /\ entry' \in [first_cluster : Clusters \cup {None}, size : Nat]
      /\ \A p \in Nat : ByteAt(p)' = ByteAt(p)
  BY <1>1, SameDisk
<1>4. fp \in Descriptors /\ fp.size \in Nat /\ writes \in 0 .. MaxWrites
      /\ (errors = 0 => entry = Updated)
  BY <1>1, <1>2, OpenIs
<1>5. CASE writable
  <2>1. call' = [NoCall EXCEPT !.op = "close", !.at = "entry", !.before = Bytes1To(fp.size)]
        /\ fp' = fp
    BY <1>5 DEF fat_close
  <2>2. Bytes1To(fp.size) \in Seq(Bytes)
        /\ (errors = 0 => \A i \in 1 .. Len(Bytes1To(fp.size)) : Bytes1To(fp.size)[i] # Stale)
    BY <1>1, <1>2, NoStale
  <2>3. call' \in Calls /\ call'.op = "close" /\ call'.at = "entry"
        /\ call'.before = Bytes1To(fp.size)
    BY <2>1, <2>2, CallsAre DEF Calls, NoCall
  <2>4. Typed'
    BY <1>1, <1>3, <1>4, <2>1, <2>3, TypedAgain
  <2>5. DescriptorOK'
    BY <1>1, <1>2, <1>4, <2>1, <2>3, OpenStays DEF NoFail
  <2>6. Closing'
    <3>1. Bytes1To(fp.size)' = Bytes1To(fp.size)
      BY <1>1, <1>4, <2>1, SameFile
    <3> QED BY <1>1, <2>1, <2>3, <3>1 DEF Closing, In
  <2>7. CallOK'
    BY <1>1, <2>2, <2>3, <2>6 DEF CallOK, Idle, NoFail
  <2> QED BY <1>3, <2>4, <2>5, <2>7 DEF FilesInv
<1>6. CASE ~writable
  <2>1. fp' = Closed /\ call' = call
    BY <1>6 DEF fat_close
  <2>2. Typed'
    BY <1>1, <1>2, <1>3, <1>4, <2>1, CallsAre, TypedAgain
  <2>3. DescriptorOK'
    BY <1>2, <2>1, CallsAre DEF DescriptorOK, NoCall, Closed, None
  <2>4. CallOK'
    BY <1>2, <2>1, CallsAre DEF CallOK, Idle, NoCall
  <2> QED BY <1>3, <2>2, <2>3, <2>4 DEF FilesInv
<1> QED BY <1>5, <1>6

LEMMA SeekKeeps ==
    ASSUME FilesInv, NEW p \in Positions, fat_seek(p)
    PROVE  FilesInv'
<1>1. Idle /\ fp.mode # "closed" /\ UNCHANGED <<data, chain, lost, entry, reply, writes>> /\ NoFail
      /\ call' = call /\ fp' = [fp EXCEPT !.position = p]
  BY DEF fat_seek, NoFail
<1>2. call = NoCall /\ call.op = "none"
  BY <1>1 DEF FilesInv, CallOK, Idle
<1>3. ChainOK' /\ DataOK' /\ DiskOK' /\ errors' \in 0 .. MaxErrors
      /\ entry' \in [first_cluster : Clusters \cup {None}, size : Nat]
  BY <1>1, SameDisk
<1>4. fp \in Descriptors /\ writes \in 0 .. MaxWrites /\ (errors = 0 => entry = Updated)
  BY <1>1, <1>2, OpenIs
<1>5. p \in Nat
  BY FilesAssumption
<1>6. fp' \in Descriptors /\ fp'.mode = fp.mode /\ fp'.first_cluster = fp.first_cluster
      /\ fp'.size = fp.size
  BY <1>1, <1>4, <1>5 DEF Descriptors
<1>7. Typed'
  BY <1>1, <1>2, <1>3, <1>4, <1>6, CallsAre, TypedAgain
<1>8. DescriptorOK'
  BY <1>1, <1>2, <1>4, <1>6, OpenStays DEF NoFail
<1>9. CallOK'
  BY <1>1, <1>2, CallsAre DEF CallOK, Idle, NoCall
<1> QED BY <1>3, <1>7, <1>8, <1>9 DEF FilesInv

\* A call returns and leaves the file as it is: what is left is an open descriptor.
LEMMA ReturnsKeep ==
    ASSUME FilesInv, fp.mode # "closed", call.op # "open", call' = NoCall,
           UNCHANGED <<data, chain, lost, entry, writes>>, NoFail \/ Fail,
           NEW p \in Nat, fp' = [fp EXCEPT !.position = p],
           errors' = 0 => entry = Updated
    PROVE  FilesInv'
<1>1. ChainOK' /\ DataOK' /\ DiskOK' /\ errors' \in 0 .. MaxErrors
      /\ entry' \in [first_cluster : Clusters \cup {None}, size : Nat]
  BY SameDisk
<1>2. fp \in Descriptors /\ writes \in 0 .. MaxWrites
  BY OpenIs
<1>3. fp' \in Descriptors /\ fp'.mode = fp.mode /\ fp'.first_cluster = fp.first_cluster
      /\ fp'.size = fp.size
  BY <1>2 DEF Descriptors
<1>4. Typed'
  BY <1>1, <1>2, <1>3, CallsAre, TypedAgain
<1>5. DescriptorOK'
  BY <1>2, <1>3, CallsAre, OpenStays
<1>6. CallOK'
  BY CallsAre DEF CallOK, Idle, NoCall
<1> QED BY <1>1, <1>4, <1>5, <1>6 DEF FilesInv

LEMMA ReadStarts ==
    ASSUME FilesInv, NEW n \in Counts, fat_read(n)
    PROVE  FilesInv'
<1> DEFINE rest == IF fp.position >= fp.size THEN 0 ELSE fp.size - fp.position
           r == IF n > rest THEN rest ELSE n
<1>1. Idle /\ fp.mode # "closed" /\ readable /\ NoFail /\ fp' = fp
      /\ UNCHANGED <<data, chain, lost, entry, writes>>
  BY DEF fat_read, NoFail
<1>2. call = NoCall /\ call.op = "none"
  BY <1>1 DEF FilesInv, CallOK, Idle
<1>3. ChainOK' /\ DataOK' /\ DiskOK' /\ errors' \in 0 .. MaxErrors
      /\ entry' \in [first_cluster : Clusters \cup {None}, size : Nat]
  BY <1>1, SameDisk
<1>4. fp \in Descriptors /\ fp.size \in Nat /\ fp.position \in Nat /\ writes \in 0 .. MaxWrites
      /\ (errors = 0 => entry = Updated)
  BY <1>1, <1>2, OpenIs
<1>5. CASE rest = 0
  <2>1. call' = NoCall
    BY <1>2, <1>5 DEF fat_read
  <2>2. fp' = [fp EXCEPT !.position = fp.position]
    BY <1>1, <1>4 DEF Descriptors
  <2> QED BY <1>1, <1>2, <1>4, <2>1, <2>2, ReturnsKeep DEF NoFail
<1>6. CASE rest # 0
  <2>1. call' = [NoCall EXCEPT !.op = "read", !.at = "sector", !.requested = r,
                     !.start = fp.position, !.before = Bytes1To(fp.size)]
    BY <1>6 DEF fat_read
  <2>2. rest = fp.size - fp.position /\ rest \in Nat
    BY <1>4, <1>6
  <2>3. n \in Nat
    BY FilesAssumption
  <2>4. r \in Nat /\ r = Promise!Least(n, rest) /\ fp.position + r <= fp.size
    BY <1>4, <2>2, <2>3 DEF Promise!Least
  <2> HIDE DEF r, rest
  <2>5. Bytes1To(fp.size) \in Seq(Bytes)
        /\ (errors = 0 => \A i \in 1 .. Len(Bytes1To(fp.size)) : Bytes1To(fp.size)[i] # Stale)
    BY <1>1, <1>2, NoStale
  <2>6. /\ call' \in Calls /\ call'.op = "read" /\ call'.at = "sector"
        /\ call'.before = Bytes1To(fp.size)
        /\ call'.start = fp.position /\ call'.source = <<>> /\ call'.requested = r
    BY <1>4, <2>1, <2>4, <2>5, CallsAre DEF Calls, NoCall
  <2>7. Typed'
    BY <1>1, <1>3, <1>4, <2>6, TypedAgain
  <2>8. DescriptorOK'
    BY <1>1, <1>2, <1>4, <2>6, OpenStays DEF NoFail
  <2>9. Reading'
    <3>1. Bytes1To(fp.size)' = Bytes1To(fp.size)
      BY <1>1, <1>4, SameFile
    <3>2. Len(call'.source) = 0
      BY <2>6
    <3>3. call'.start + Len(call'.source) + call'.requested <= fp'.size
      BY <1>1, <1>4, <2>4, <2>6, <3>2
    <3>4. Len(call'.source) + call'.requested = Promise!Least(n, fp'.size - call'.start)
      BY <1>1, <2>2, <2>4, <2>6, <3>2
    <3>5. \A i \in 1 .. Len(call'.source) : call'.source[i] = call'.before[call'.start + i]
      BY <3>2
    <3>6. fp'.mode # "closed" /\ readable'
      BY <1>1 DEF readable
    <3>7. call'.before = Bytes1To(fp.size)' /\ call'.start = fp'.position /\ call'.at = "sector"
      BY <1>1, <2>6, <3>1
    <3> QED BY <3>3, <3>4, <3>5, <3>6, <3>7 DEF Reading, In, Promise!Least
  <2>10. CallOK'
    BY <1>1, <2>5, <2>6, <2>9 DEF CallOK, Idle, NoFail
  <2> QED BY <1>3, <2>7, <2>8, <2>10 DEF FilesInv
<1> QED BY <1>5, <1>6

\* What a step of a read has copied, with n bytes of the next sector.
LEMMA GotIs ==
    ASSUME FilesInv, call.op = "read", NEW n, n = InSector(call.start + Len(call.source), call.requested),
           NEW got, got = call.source \o [i \in 1 .. n |-> ByteAt(call.start + Len(call.source) + i - 1)]
    PROVE  /\ n \in 0 .. call.requested /\ got \in Seq(Bytes) /\ Len(got) = Len(call.source) + n
           /\ \A i \in 1 .. Len(got) : got[i] = call.before[call.start + i]
<1> DEFINE p == call.start + Len(call.source)
           more == [i \in 1 .. n |-> ByteAt(p + i - 1)]
<1>1. Reading
  BY DEF FilesInv, CallOK
<1>2. fp.mode # "closed" /\ call.before = Bytes1To(fp.size)
      /\ call.start + Len(call.source) + call.requested <= fp.size
      /\ \A i \in 1 .. Len(call.source) : call.source[i] = call.before[call.start + i]
  BY <1>1 DEF Reading
<1>3. /\ call.source \in Seq(Bytes) /\ call.start \in Nat /\ call.requested \in Nat /\ ChainOK
      /\ DataOK /\ fp.size \in Nat /\ Len(call.source) \in Nat
  BY <1>2, OpenIs, LenProperties
<1>4. p \in Nat /\ n \in Nat /\ n \in 0 .. call.requested
  <2>1. p \in Nat
    BY <1>3
  <2>2. n = InSector(p, call.requested)
    OBVIOUS
  <2> HIDE DEF p
  <2> QED BY <1>3, <2>1, <2>2, InSectorIs
<1>5. \A i \in 1 .. n : more[i] \in Bytes /\ more[i] = call.before[call.start + (Len(call.source) + i)]
  <2>1. TAKE i \in 1 .. n
  <2> DEFINE l == Len(call.source)
             b == call.start
             q == call.requested
  <2>0. b + l + q <= fp.size /\ l \in Nat /\ b \in Nat /\ q \in Nat /\ fp.size \in Nat
        /\ p = b + l /\ n \in 0 .. q
    BY <1>2, <1>3, <1>4
  <2> HIDE DEF l, b, q, p
  <2>2. p + i - 1 \in Nat /\ p + i \in 1 .. fp.size /\ (p + i) - 1 = p + i - 1
        /\ p + i = b + (l + i)
    BY <2>0
  <2> USE DEF l, b
  <2>3. more[i] = ByteAt(p + i - 1)
    OBVIOUS
  <2> HIDE DEF more
  <2>4. more[i] \in Bytes
    BY <1>3, <2>2, <2>3, ByteTyped
  <2>5. Bytes1To(fp.size)[p + i] = ByteAt((p + i) - 1)
    BY <1>3, <2>2, BytesAre
  <2> QED BY <1>2, <2>2, <2>3, <2>4, <2>5
<1>6. more \in Seq(Bytes) /\ Len(more) = n
  <2>1. more = [i \in 1 .. n |-> more[i]] /\ \A i \in 1 .. n : more[i] \in Bytes
    BY <1>5
  <2>2. n \in Nat
    BY <1>4
  <2> HIDE DEF more
  <2> QED BY <2>1, <2>2, SequenceOf
<1>7. got = call.source \o more
  OBVIOUS
<1> HIDE DEF more, p
<1>8. /\ got \in Seq(Bytes) /\ Len(got) = Len(call.source) + Len(more)
      /\ \A i \in 1 .. Len(call.source) + Len(more) :
            got[i] = IF i <= Len(call.source) THEN call.source[i] ELSE more[i - Len(call.source)]
  <2> DEFINE s == call.source
  <2>1. s \in Seq(Bytes) /\ more \in Seq(Bytes) /\ got = s \o more
    BY <1>3, <1>6, <1>7
  <2> HIDE DEF s
  <2>2. /\ got \in Seq(Bytes) /\ Len(got) = Len(s) + Len(more)
        /\ \A i \in 1 .. Len(s) + Len(more) :
              got[i] = IF i <= Len(s) THEN s[i] ELSE more[i - Len(s)]
    <3> DEFINE g == s \o more
    <3>1. /\ g \in Seq(Bytes) /\ Len(g) = Len(s) + Len(more)
          /\ \A i \in 1 .. Len(s) + Len(more) :
                g[i] = IF i <= Len(s) THEN s[i] ELSE more[i - Len(s)]
      BY <2>1, ConcatProperties
    <3>2. got = g
      BY <2>1
    <3> HIDE DEF g
    <3> QED BY <3>1, <3>2
  <2> QED BY <2>2 DEF s
<1>9. \A i \in 1 .. Len(got) : got[i] = call.before[call.start + i]
  <2>1. TAKE i \in 1 .. Len(got)
  <2>2. CASE i <= Len(call.source)
    BY <1>2, <1>3, <1>6, <1>8, <2>2
  <2>3. CASE ~(i <= Len(call.source))
    <3> DEFINE j == i - Len(call.source)
    <3>1. j \in 1 .. n /\ Len(call.source) + j = i
      BY <1>3, <1>4, <1>6, <1>8, <2>3
    <3>2. got[i] = more[j]
      BY <1>6, <1>8, <2>3
    <3> HIDE DEF j
    <3> QED BY <1>5, <3>1, <3>2
  <2> QED BY <2>2, <2>3
<1> QED BY <1>4, <1>6, <1>8, <1>9

LEMMA ReadGoesOn ==
    ASSUME FilesInv, ReadSector
    PROVE  FilesInv'
<1> DEFINE p == call.start + Len(call.source)
           n == InSector(p, call.requested)
           got == call.source \o [i \in 1 .. n |-> ByteAt(p + i - 1)]
<1>1. call.op = "read" /\ UNCHANGED <<data, chain, lost, entry, writes>>
  BY DEF ReadSector
<1>2. Reading /\ fp.mode # "closed"
  BY <1>1 DEF FilesInv, CallOK, Reading
<1>3. fp \in Descriptors /\ fp.size \in Nat /\ fp.position \in Nat /\ writes \in 0 .. MaxWrites
      /\ (errors = 0 => entry = Updated) /\ call.source \in Seq(Bytes) /\ call.start \in Nat
      /\ call.requested \in Nat /\ Len(call.source) \in Nat /\ call.before \in Seq(Bytes)
      /\ call \in Calls
  BY <1>1, <1>2, OpenIs, LenProperties
<1>4. /\ n \in 0 .. call.requested /\ got \in Seq(Bytes) /\ Len(got) = Len(call.source) + n
      /\ \A i \in 1 .. Len(got) : got[i] = call.before[call.start + i]
  BY <1>1, GotIs
<1>5. \/ /\ NoFail /\ n < call.requested /\ fp' = fp
         /\ call' = [call EXCEPT !.source = got, !.requested = @ - n]
      \/ /\ NoFail /\ call' = NoCall /\ fp' = [fp EXCEPT !.position = call.start + Len(got)]
      \/ /\ NoFail \/ Fail
         /\ call' = NoCall /\ fp' = [fp EXCEPT !.position = p]
  BY DEF ReadSector, Return
<1> HIDE DEF got, n
<1>6. CASE NoFail /\ n < call.requested /\ fp' = fp
           /\ call' = [call EXCEPT !.source = got, !.requested = @ - n]
  <2>1. ChainOK' /\ DataOK' /\ DiskOK' /\ errors' \in 0 .. MaxErrors
        /\ entry' \in [first_cluster : Clusters \cup {None}, size : Nat]
    BY <1>1, <1>6, SameDisk
  <2>2. call.requested - n \in Nat
    BY <1>3, <1>4
  <2>3. /\ call' \in Calls /\ call'.op = "read" /\ call'.at = call.at
        /\ call'.before = call.before /\ call'.start = call.start
        /\ call'.source = got /\ call'.requested = call.requested - n
    BY <1>1, <1>3, <1>4, <1>6, <2>2 DEF Calls
  <2>4. Typed'
    BY <1>1, <1>3, <1>6, <2>1, <2>3, TypedAgain
  <2>5. DescriptorOK'
    BY <1>1, <1>2, <1>3, <1>6, <2>3, OpenStays DEF NoFail
  <2>6. Reading'
    <3>1. Bytes1To(fp.size)' = Bytes1To(fp.size)
      BY <1>1, <1>3, <1>6, SameFile
    <3>2. PICK m \in Counts :
             Len(call.source) + call.requested = Promise!Least(m, fp.size - call.start)
      BY <1>2 DEF Reading
    <3> DEFINE l == Len(call.source)
               q == call.requested
    <3>8. l \in Nat /\ q \in Nat /\ n \in Nat /\ Len(call'.source) = l + n /\ call'.requested = q - n
      BY <1>3, <1>4, <2>3
    <3> HIDE DEF l, q
    <3>9. Len(call'.source) + call'.requested = l + q
      BY <3>8
    <3>3. Len(call'.source) + call'.requested = Promise!Least(m, fp'.size - call'.start)
      BY <1>6, <2>3, <3>2, <3>9 DEF l, q
    <3>4. call'.start + Len(call'.source) + call'.requested <= fp'.size
      <4> DEFINE b == call.start
      <4>1. b + l + q <= fp.size /\ b \in Nat
        BY <1>2, <1>3 DEF Reading, l, q
      <4>2. call'.start = b /\ fp'.size = fp.size
        BY <1>6, <2>3
      <4> HIDE DEF b
      <4>3. b + Len(call'.source) + call'.requested = b + l + q
        BY <3>8, <4>1
      <4> QED BY <4>1, <4>2, <4>3
    <3>5. \A i \in 1 .. Len(call'.source) : call'.source[i] = call'.before[call'.start + i]
      BY <1>4, <2>3
    <3>6. fp'.mode # "closed" /\ readable'
      BY <1>2, <1>6 DEF readable, Reading
    <3>7. call'.before = Bytes1To(fp.size)' /\ call'.start = fp'.position /\ call'.at = "sector"
      BY <1>2, <1>6, <2>3, <3>1 DEF Reading, In
    <3> QED BY <3>3, <3>4, <3>5, <3>6, <3>7 DEF Reading, In, Promise!Least
  <2>7. CallOK'
    <3>1. errors = 0 => \A i \in 1 .. Len(call.before) : call.before[i] # Stale
      BY DEF FilesInv, CallOK
    <3> QED BY <1>6, <2>3, <2>6, <3>1 DEF CallOK, Idle, NoFail
  <2> QED BY <2>1, <2>4, <2>5, <2>7 DEF FilesInv
<1>7. CASE NoFail /\ call' = NoCall /\ fp' = [fp EXCEPT !.position = call.start + Len(got)]
  <2>1. call.start + Len(got) \in Nat
    BY <1>3, <1>4
  <2> QED BY <1>1, <1>2, <1>3, <1>7, <2>1, ReturnsKeep DEF NoFail
<1>8. CASE (NoFail \/ Fail) /\ call' = NoCall /\ fp' = [fp EXCEPT !.position = p]
  <2>1. p \in Nat
    BY <1>3
  <2>2. errors' = 0 => errors = 0
    BY <1>1, <1>8, SameDisk
  <2> HIDE DEF p
  <2> QED BY <1>1, <1>2, <1>3, <1>8, <2>1, <2>2, ReturnsKeep
<1> QED BY <1>5, <1>6, <1>7, <1>8

\* The entry of an open file stays in order when it is written or left alone and
\* the bytes the file had stay where they are.
LEMMA KeptDisk ==
    ASSUME FilesInv, fp.mode # "closed", call.op # "open", ChainOK', DataOK',
           \A x \in Nat : x < fp.size => ByteAt(x)' = ByteAt(x),
           Len(chain) > 0 => First(chain') = First(chain),
           fp.size <= cluster_size * Len(chain'),
           NoFail \/ Fail, entry' = entry \/ entry' = Updated,
           errors' = 0 /\ entry' = Updated /\ entry # Updated =>
               \A i \in 1 .. fp.size : ByteAt(i - 1) # Stale
    PROVE  /\ DiskOK' /\ Reachable' /\ entry'.size <= fp.size
           /\ entry' \in [first_cluster : Clusters \cup {None}, size : Nat]
           /\ errors' \in 0 .. MaxErrors /\ (errors' = 0 => errors = 0)
<1>1. /\ fp.first_cluster = First(chain) /\ Reachable /\ fp \in Descriptors
      /\ fp.size <= cluster_size * Len(chain) /\ entry.size <= fp.size
      /\ fp.size \in Nat /\ entry.size \in Nat /\ errors \in 0 .. MaxErrors
      /\ entry \in [first_cluster : Clusters \cup {None}, size : Nat]
      /\ ChainOK /\ DataOK
  BY OpenIs
<1>2. /\ entry.first_cluster = None => entry.size = 0
      /\ errors = 0 => \A i \in 1 .. entry.size : ByteAt(i - 1) # Stale
  BY <1>1 DEF FilesInv, DiskOK
<1>3. chain \in Seq(Clusters) /\ chain' \in Seq(Clusters)
  BY <1>1 DEF ChainOK, Clusters
<1>4. /\ Len(chain) \in Nat /\ Len(chain') \in Nat
      /\ First(chain) = None <=> Len(chain) = 0
      /\ First(chain) \in Clusters \cup {None}
  BY <1>3, FirstIs
<1>5. errors' \in 0 .. MaxErrors /\ (errors' = 0 => errors = 0)
  BY <1>1, FilesAssumption DEF NoFail, Fail
<1>6. Len(chain) = 0 => fp.size = 0
  BY <1>1, ClusterSize
<1>7. entry'.first_cluster \in {entry.first_cluster, First(chain)}
      /\ entry'.size \in {entry.size, fp.size}
      /\ entry' \in [first_cluster : Clusters \cup {None}, size : Nat]
  BY <1>1, <1>4 DEF Updated
<1>8. entry'.first_cluster \in {None, First(chain)}
  BY <1>1, <1>7 DEF Reachable
<1>9. entry'.first_cluster \in {None, First(chain')}
  BY <1>4, <1>8
<1>10. entry'.size <= fp.size /\ entry'.size \in Nat
  BY <1>1, <1>7
<1>11. entry'.first_cluster = None => entry'.size = 0
  <2>1. CASE entry' = entry
    BY <1>2, <2>1
  <2>2. CASE entry' = Updated
    BY <1>1, <1>4, <1>6, <2>2 DEF Updated
  <2> QED BY <2>1, <2>2
<1>12. ASSUME errors' = 0, NEW i \in 1 .. entry'.size
       PROVE  ByteAt(i - 1)' # Stale
  <2>1. i - 1 \in Nat /\ i - 1 < fp.size /\ i \in 1 .. fp.size
    BY <1>1, <1>10
  <2>2. ByteAt(i - 1)' = ByteAt(i - 1)
    BY <2>1
  <2>3. CASE entry' = entry
    BY <1>2, <1>5, <1>12, <2>2, <2>3
  <2>4. CASE entry' = Updated /\ entry # Updated
    BY <1>12, <2>1, <2>2, <2>4
  <2> QED BY <2>3, <2>4
<1>13. entry'.size <= cluster_size * Len(chain')
  <2> DEFINE z == cluster_size * Len(chain')
  <2>1. z \in Nat /\ fp.size <= z
    BY <1>4, ClusterSize, Product
  <2> HIDE DEF z
  <2>2. entry'.size <= z
    BY <1>1, <1>10, <2>1
  <2> QED BY <2>2 DEF z
<1>14. Reachable'
  BY <1>9 DEF Reachable, None
<1>15. DiskOK'
  BY <1>11, <1>12, <1>13 DEF DiskOK, None, cluster_size
<1> QED BY <1>5, <1>7, <1>10, <1>14, <1>15

LEMMA OpenGrows ==
    ASSUME fp.mode \in {"w", "w+", "a", "a+"}, fp'.mode = fp.mode, call'.op = "write",
           fp'.first_cluster = First(chain'), Reachable',
           fp'.size <= cluster_size * Len(chain'), entry'.size <= fp'.size
    PROVE  DescriptorOK'
BY DEF DescriptorOK, cluster_size

\* A call returns once its entry is written.
LEMMA EntryReturns ==
    ASSUME FilesInv, fp.mode # "closed", call.op # "open", call' = NoCall,
           UNCHANGED <<data, chain, lost, writes>>, NoFail \/ Fail, entry' = Updated,
           NEW p \in Nat, fp' = [fp EXCEPT !.position = p],
           errors = 0 => \A i \in 1 .. fp.size : ByteAt(i - 1) # Stale
    PROVE  FilesInv'
<1>1. /\ fp.first_cluster = First(chain) /\ fp \in Descriptors /\ writes \in 0 .. MaxWrites
      /\ fp.size <= cluster_size * Len(chain) /\ ChainOK /\ DataOK /\ fp.size \in Nat
  BY OpenIs
<1>2. ChainOK' /\ DataOK'
  BY <1>1 DEF ChainOK, DataOK, Clusters, Bytes, cluster_size
<1>3. \A x \in Nat : ByteAt(x)' = ByteAt(x)
  BY SameBytes
<1>4. errors' = 0 => errors = 0
  <2>1. errors \in 0 .. MaxErrors
    BY DEF FilesInv, Typed
  <2> QED BY <2>1, FilesAssumption DEF NoFail, Fail
<1>5. /\ DiskOK' /\ Reachable' /\ errors' \in 0 .. MaxErrors
      /\ entry' \in [first_cluster : Clusters \cup {None}, size : Nat]
  BY <1>1, <1>2, <1>3, <1>4, KeptDisk
<1>6. fp' \in Descriptors /\ fp'.mode = fp.mode /\ fp'.first_cluster = fp.first_cluster
      /\ fp'.size = fp.size
  BY <1>1 DEF Descriptors
<1>7. Typed'
  BY <1>1, <1>2, <1>5, <1>6, CallsAre, TypedAgain
<1>8. entry' = Updated' /\ entry'.size = fp.size
  BY <1>6 DEF Updated
<1>9. DescriptorOK'
  BY <1>1, <1>5, <1>6, <1>8 DEF DescriptorOK, cluster_size
<1>10. CallOK'
  BY CallsAre DEF CallOK, Idle, NoCall
<1> QED BY <1>5, <1>7, <1>9, <1>10 DEF FilesInv

LEMMA OpenEnds ==
    ASSUME FilesInv, NEW ok \in BOOLEAN, OpenReturns(ok)
    PROVE  FilesInv'
<1>1. call.op = "open" /\ WriteEntry(ok) /\ call' = NoCall /\ fp' = (IF ok THEN fp ELSE Closed)
      /\ UNCHANGED <<data, chain, lost, writes>>
  BY DEF OpenReturns
<1>2. Opening
  BY <1>1 DEF FilesInv, CallOK
<1>3. chain = <<>> /\ fp = [Closed EXCEPT !.mode = fp.mode] /\ fp.mode \in {"w", "w+"}
  BY <1>2 DEF Opening
<1>4. ChainOK /\ DataOK /\ fp \in Descriptors /\ writes \in 0 .. MaxWrites
      /\ errors \in 0 .. MaxErrors
  BY DEF FilesInv, Typed
<1>5. fp.first_cluster = None /\ fp.size = 0
  BY <1>3 DEF Closed
<1>6. ChainOK' /\ DataOK'
  BY <1>1, <1>4 DEF ChainOK, DataOK, Clusters, Bytes, cluster_size
<1>7. CASE ok
  <2>1. entry' = [first_cluster |-> None, size |-> 0] /\ errors' = errors /\ fp' = fp
    BY <1>1, <1>5, <1>7 DEF WriteEntry, Updated, NoFail
  <2>2. Typed'
    BY <1>1, <1>4, <1>6, <2>1, CallsAre, TypedAgain
  <2>3. First(chain') = None /\ Len(chain') = 0
    BY <1>1, <1>3 DEF First
  <2>4. DiskOK'
    BY <2>1, <2>3, ClusterSize DEF DiskOK, cluster_size
  <2>5. DescriptorOK'
    <3>1. Updated' = entry'
      BY <1>5, <2>1 DEF Updated
    <3>2. Reachable'
      BY <2>1 DEF Reachable, None
    <3>3. fp'.mode # "closed"
      BY <1>3, <2>1
    <3>4. 0 <= cluster_size * Len(chain')
      BY <2>3, ClusterSize
    <3> QED BY <1>5, <2>1, <2>3, <3>1, <3>2, <3>3, <3>4 DEF DescriptorOK, cluster_size
  <2>6. CallOK'
    BY <1>1, CallsAre DEF CallOK, Idle, NoCall
  <2> QED BY <2>2, <2>4, <2>5, <2>6 DEF FilesInv
<1>8. CASE ~ok
  <2>1. entry' = entry /\ Fail /\ fp' = Closed
    BY <1>1, <1>8 DEF WriteEntry
  <2>2. DiskOK' /\ errors' \in 0 .. MaxErrors
        /\ entry' \in [first_cluster : Clusters \cup {None}, size : Nat]
    BY <1>1, <2>1, SameDisk
  <2>3. Typed'
    BY <1>1, <1>4, <1>6, <2>1, <2>2, CallsAre, TypedAgain
  <2>4. DescriptorOK'
    BY <1>1, <2>1, CallsAre DEF DescriptorOK, NoCall, Closed, None
  <2>5. CallOK'
    BY <1>1, CallsAre DEF CallOK, Idle, NoCall
  <2> QED BY <2>2, <2>3, <2>4, <2>5 DEF FilesInv
<1> QED BY <1>7, <1>8

LEMMA CloseEnds ==
    ASSUME FilesInv, NEW ok \in BOOLEAN, CloseReturns(ok)
    PROVE  FilesInv'
<1>1. call.op = "close" /\ WriteEntry(ok) /\ call' = NoCall /\ fp' = Closed
      /\ UNCHANGED <<data, chain, lost, writes>>
  BY DEF CloseReturns
<1>2. Closing
  BY <1>1 DEF FilesInv, CallOK
<1>3. fp.mode # "closed" /\ call.before = Bytes1To(fp.size)
  BY <1>2 DEF Closing
<1>4. ChainOK /\ DataOK /\ fp \in Descriptors /\ writes \in 0 .. MaxWrites
      /\ errors \in 0 .. MaxErrors /\ fp.size \in Nat
      /\ fp.size <= cluster_size * Len(chain)
  BY <1>1, <1>3, OpenIs
<1>5. ChainOK' /\ DataOK' /\ \A x \in Nat : ByteAt(x)' = ByteAt(x)
  BY <1>1, <1>4, SameBytes DEF ChainOK, DataOK, Clusters, Bytes, cluster_size
<1>6. errors = 0 => \A i \in 1 .. fp.size : ByteAt(i - 1) # Stale
  <2>1. errors = 0 => \A i \in 1 .. Len(call.before) : call.before[i] # Stale
    BY DEF FilesInv, CallOK
  <2>2. Len(Bytes1To(fp.size)) = fp.size
        /\ \A i \in 1 .. fp.size : Bytes1To(fp.size)[i] = ByteAt(i - 1)
    BY <1>4, BytesAre
  <2> QED BY <1>3, <2>1, <2>2
<1>7. (NoFail \/ Fail) /\ (entry' = entry \/ entry' = Updated)
  BY <1>1 DEF WriteEntry
<1>8. errors' = 0 => errors = 0
  BY <1>4, <1>7 DEF NoFail, Fail
<1>9. DiskOK' /\ errors' \in 0 .. MaxErrors
      /\ entry' \in [first_cluster : Clusters \cup {None}, size : Nat]
  BY <1>1, <1>3, <1>4, <1>5, <1>6, <1>7, <1>8, KeptDisk
<1>10. Typed'
  BY <1>1, <1>4, <1>5, <1>9, CallsAre, TypedAgain
<1>11. DescriptorOK'
  BY <1>1, CallsAre DEF DescriptorOK, NoCall, Closed, None
<1>12. CallOK'
  BY <1>1, CallsAre DEF CallOK, Idle, NoCall
<1> QED BY <1>9, <1>10, <1>11, <1>12 DEF FilesInv

-----------------------------------------------------------------------------
(* The steps of a write.                                                   *)

\* A write in progress.
LEMMA WriteIs ==
    ASSUME FilesInv, call.op = "write"
    PROVE  /\ Writing /\ fp.mode \in {"w", "w+", "a", "a+"} /\ fp.mode # "closed"
           /\ call.outer \in Sources /\ call.outer \in Seq(Bytes) /\ Len(call.outer) \in Nat
           /\ call.source \in Seq(Bytes) /\ Len(call.source) \in Nat
           /\ call.before \in Seq(Bytes) /\ Len(call.before) \in Nat
           /\ call.start \in Nat /\ call \in Calls
           /\ errors = 0 => \A i \in 1 .. Len(call.before) : call.before[i] # Stale
<1>1. Writing /\ (errors = 0 => \A i \in 1 .. Len(call.before) : call.before[i] # Stale)
  BY DEF FilesInv, CallOK
<1>2. fp.mode \in {"w", "w+", "a", "a+"} /\ call.outer \in Sources
  BY <1>1 DEF Writing, writable
<1>3. call.source \in Seq(Bytes) /\ call.before \in Seq(Bytes) /\ call.start \in Nat
      /\ call \in Calls
  BY <1>2, OpenIs
<1> QED BY <1>1, <1>2, <1>3, SourcesAre, LenProperties

\* Before an error no byte of the file is stale, written or not.
LEMMA ImageNoStale ==
    ASSUME FilesInv, call.op = "write", errors = 0, NEW w \in 0 .. Len(call.outer), NEW i \in Nat,
           i > 0
    PROVE  Intended(call, w, i) # Stale
<1>1. /\ call.outer \in Sources /\ Len(call.before) \in Nat /\ call.start \in Nat
      /\ Len(call.outer) \in Nat
      /\ \A j \in 1 .. Len(call.before) : call.before[j] # Stale
  BY WriteIs
<1>2. \A j \in 1 .. Len(call.outer) : call.outer[j] # Stale
  BY <1>1, SourcesAre
<1>3. Zero # Stale
  BY FilesAssumption
<1>4. CASE i > call.start /\ i <= call.start + w
  <2>1. i - call.start \in 1 .. Len(call.outer)
    BY <1>1, <1>4
  <2> QED BY <1>2, <1>4, <2>1 DEF Intended
<1>5. CASE ~(i > call.start /\ i <= call.start + w)
  BY <1>1, <1>3, <1>5 DEF Intended
<1> QED BY <1>4, <1>5

LEMMA WriteStarts ==
    ASSUME FilesInv, NEW s \in Sources, fat_write(s), ~ruined'
    PROVE  FilesInv'
<1> DEFINE c == [NoCall EXCEPT !.op = "write", !.source = s, !.outer = s, !.start = fp.position,
                               !.before = Bytes1To(fp.size)]
           cg == [c EXCEPT !.at = "gap"]
           cs == [c EXCEPT !.at = "sector"]
<1>1. Idle /\ fp.mode # "closed" /\ writable /\ UNCHANGED <<lost, entry>>
      /\ writes < MaxWrites /\ writes' = writes + 1
  BY DEF fat_write
<1>2. call = NoCall /\ call.op = "none"
  BY <1>1 DEF FilesInv, CallOK, Idle
<1>3. /\ fp.first_cluster = First(chain) /\ fp \in Descriptors /\ writes \in 0 .. MaxWrites
      /\ fp.size <= cluster_size * Len(chain) /\ ChainOK /\ DataOK /\ fp.size \in Nat
      /\ fp.position \in Nat /\ (errors = 0 => entry = Updated) /\ Reachable
      /\ entry \in [first_cluster : Clusters \cup {None}, size : Nat]
      /\ chain \in Seq(Clusters) /\ Len(chain) \in Nat /\ errors \in 0 .. MaxErrors
  BY <1>1, <1>2, OpenIs, LenProperties DEF ChainOK
<1>4. fp.mode \in {"w", "w+", "a", "a+"} /\ writes' \in 0 .. MaxWrites
  BY <1>1, <1>3, FilesAssumption DEF writable
<1>5. s \in Seq(Bytes) /\ Len(s) \in Nat
  BY SourcesAre
<1>6. /\ Bytes1To(fp.size) \in Seq(Bytes) /\ Len(Bytes1To(fp.size)) = fp.size
      /\ (errors = 0 => \A i \in 1 .. Len(Bytes1To(fp.size)) : Bytes1To(fp.size)[i] # Stale)
      /\ \A i \in 1 .. fp.size : Bytes1To(fp.size)[i] = ByteAt(i - 1)
  BY <1>1, <1>2, <1>3, NoStale, BytesAre
<1>7. /\ c.start = fp.position
      /\ \A d \in {cg, cs} :
            /\ d \in Calls /\ d.op = "write" /\ d.outer = s /\ d.source = s
            /\ d.start = fp.position /\ d.before = Bytes1To(fp.size) /\ ~d.nested
      /\ cg.at = "gap" /\ cs.at = "sector" /\ cs.start = fp.position
  <2>1. /\ c \in Calls /\ c.op = "write" /\ c.outer = s /\ c.source = s
        /\ c.start = fp.position /\ c.before = Bytes1To(fp.size) /\ ~c.nested
    BY <1>3, <1>5, <1>6, CallsAre DEF Calls, NoCall
  <2> HIDE DEF c
  <2>2. /\ cg \in Calls /\ cg.op = "write" /\ cg.outer = s /\ cg.source = s /\ cg.at = "gap"
        /\ cg.start = fp.position /\ cg.before = Bytes1To(fp.size) /\ ~cg.nested
    BY <2>1 DEF Calls
  <2>3. /\ cs \in Calls /\ cs.op = "write" /\ cs.outer = s /\ cs.source = s /\ cs.at = "sector"
        /\ cs.start = fp.position /\ cs.before = Bytes1To(fp.size) /\ ~cs.nested
    BY <2>1 DEF Calls
  <2> HIDE DEF cg, cs
  <2> QED BY <2>1, <2>2, <2>3
<1>8. \/ /\ fp.position > fp.size /\ ensure_size(fp.position)
         /\ fp' = [fp EXCEPT !.first_cluster = First(chain')] /\ call' = cg
      \/ /\ call' = NoCall /\ UNCHANGED <<data, chain, fp>> /\ (NoFail \/ Fail)
      \/ /\ ~(fp.position > fp.size) /\ Grow(fp.position, s, cs)
  BY DEF fat_write, Return, ensure_size_fails
<1> HIDE DEF c, cg, cs
<1>9. CASE call' = NoCall /\ UNCHANGED <<data, chain, fp>> /\ (NoFail \/ Fail)
  <2>1. fp' = [fp EXCEPT !.position = fp.position]
    BY <1>3, <1>9 DEF Descriptors
  <2>2. ChainOK' /\ DataOK' /\ DiskOK' /\ errors' \in 0 .. MaxErrors
        /\ (errors' = 0 => errors = 0)
    BY <1>1, <1>9, SameDisk
  <2>3. Typed'
    BY <1>1, <1>3, <1>4, <1>9, <2>2, CallsAre, TypedAgain
  <2>4. DescriptorOK'
    BY <1>1, <1>2, <1>3, <1>9, <2>2, CallsAre, OpenStays
  <2>5. CallOK'
    BY <1>9, CallsAre DEF CallOK, Idle, NoCall
  <2> QED BY <2>2, <2>3, <2>4, <2>5 DEF FilesInv
<1>10. CASE /\ fp.position > fp.size /\ ensure_size(fp.position)
            /\ fp' = [fp EXCEPT !.first_cluster = First(chain')] /\ call' = cg
  <2>0. NoFail /\ errors' = errors /\ HasRoom(fp.position) /\ fp.position <= Limit
    <3>1. ruined' = (fp.position > Limit) /\ NoFail /\ HasRoom(fp.position)
      BY <1>10 DEF ensure_size
    <3>2. ~(fp.position > Limit)
      BY <3>1, Zenon
    <3> QED BY <1>3, <3>1, <3>2, LimitIs DEF NoFail
  <2>1. /\ ChainOK' /\ DataOK' /\ Len(chain') = Required(fp.position)
        /\ \A x \in Nat : x < cluster_size * Len(chain) /\ x < cluster_size * Len(chain')
              => ByteAt(x)' = ByteAt(x)
        /\ Len(chain) > 0 /\ Len(chain') > 0 => First(chain') = First(chain)
    BY <1>1, <1>3, <1>10, EnsureSize
  <2>2. fp.position <= cluster_size * Len(chain') /\ Len(chain') \in Nat /\ Len(chain') > 0
    BY <1>3, <1>10, <2>0, <2>1, RequiredIs
  <2>3. cluster_size * Len(chain) \in Nat /\ cluster_size * Len(chain') \in Nat
    BY <1>3, <2>2, ClusterSize, Product
  <2>4. fp.size <= cluster_size * Len(chain')
        /\ \A x \in Nat : x < fp.size => ByteAt(x)' = ByteAt(x)
    BY <1>3, <1>10, <2>1, <2>2, <2>3
  <2>5. DiskOK' /\ Reachable' /\ errors' \in 0 .. MaxErrors /\ entry'.size <= fp.size
        /\ entry' \in [first_cluster : Clusters \cup {None}, size : Nat]
    BY <1>1, <1>2, <1>3, <2>0, <2>1, <2>2, <2>4, KeptDisk
  <2>6. First(chain') \in Clusters \cup {None}
    BY <2>1, FirstIs DEF ChainOK, Clusters
  <2>7. fp' \in Descriptors /\ fp'.mode = fp.mode /\ fp'.first_cluster = First(chain')
        /\ fp'.size = fp.size /\ fp'.position = fp.position
    BY <1>3, <1>10, <2>6 DEF Descriptors
  <2>8. Typed'
    BY <1>4, <1>7, <1>10, <2>1, <2>5, <2>7, TypedAgain
  <2>9. DescriptorOK'
    BY <1>4, <1>7, <1>10, <2>4, <2>5, <2>7, OpenGrows
  <2>10. Filled(fp.size)'
    <3>1. Len(call'.before) = fp'.size /\ fp'.size <= call'.start /\ Len(call'.before) < call'.start
      BY <1>3, <1>6, <1>7, <1>10, <2>7
    <3>2. \A i \in 1 .. fp'.size : ByteAt(i - 1)' = Intended(call', 0, i)
      <4>1. TAKE i \in 1 .. fp'.size
      <4>2. i \in 1 .. fp.size /\ i - 1 \in Nat /\ i - 1 < fp.size
        BY <1>3, <2>7
      <4>3. ByteAt(i - 1)' = call'.before[i]
        BY <1>6, <1>7, <1>10, <2>4, <4>2
      <4>4. ~(i > call'.start /\ i <= call'.start + 0) /\ i <= Len(call'.before)
        BY <1>3, <1>7, <1>10, <3>1, <4>2
      <4> QED BY <4>3, <4>4 DEF Intended
    <3>3. Fits(fp.position)
      BY <1>3, <2>0, RoomIs
    <3>4. Required(fp.position)' = Required(fp.position) /\ (Clusters \ lost)' = Clusters \ lost
      BY <1>1, <2>7 DEF Required, cluster_size, Clusters
    <3>5. Fits(call.start)'
      BY <1>1, <1>7, <1>10, <3>3 DEF Fits, Required, cluster_size, Clusters
    <3>6. call'.start <= Limit
      BY <1>7, <1>10, <2>0
    <3> QED BY <3>1, <3>2, <3>5, <3>6 DEF Filled, Holds, Limit, cluster_size
  <2>11. FillingGap'
    <3>1. ~call'.nested /\ call'.start = fp'.position
      BY <1>7, <1>10, <2>7
    <3>2. errors' = 0 => entry'.size = fp'.size
      BY <1>1, <1>3, <2>0, <2>7 DEF Updated
    <3> QED BY <2>10, <3>1, <3>2 DEF FillingGap
  <2>12. Writing'
    BY <1>4, <1>7, <1>10, <2>7, <2>11 DEF Writing, writable, In
  <2>13. CallOK'
    BY <1>1, <1>6, <1>7, <1>10, <2>0, <2>12 DEF CallOK, Idle
  <2> QED BY <2>5, <2>8, <2>9, <2>13 DEF FilesInv
<1>11. CASE ~(fp.position > fp.size) /\ Grow(fp.position, s, cs)
  <2>1. Grown(fp.position, s, cs) \/ Refused(fp.position, s, cs)
    BY <1>1, <1>3, <1>5, <1>11, Grows
  <2>2. CASE Refused(fp.position, s, cs)
    <3>1. call' = NoCall /\ UNCHANGED <<data, chain>> /\ fp' = [fp EXCEPT !.position = fp.position]
          /\ (NoFail \/ Fail)
      BY <1>7, <2>2 DEF Refused
    <3>2. fp' = fp
      BY <1>3, <3>1 DEF Descriptors
    <3> QED BY <1>9, <3>1, <3>2
  <2>3. CASE Grown(fp.position, s, cs)
    <3> DEFINE size == Promise!Greatest(fp.size, fp.position + Len(s))
    <3>1. /\ ChainOK' /\ DataOK'
          /\ fp' = [fp EXCEPT !.size = size, !.position = fp.position,
                              !.first_cluster = First(chain')]
          /\ fp'.size <= cluster_size * Len(chain')
          /\ \A x \in Nat : x < fp.size => ByteAt(x)' = ByteAt(x)
          /\ Len(chain) > 0 => First(chain') = First(chain)
          /\ call' = cs /\ NoFail /\ errors' = errors
      BY <2>3 DEF Grown, NoFail
    <3>2. size \in Nat /\ fp.size <= size
      BY <1>3, <1>5 DEF Promise!Greatest
    <3> HIDE DEF size
    <3>3. First(chain') \in Clusters \cup {None} /\ chain' \in Seq(Clusters) /\ Len(chain') \in Nat
      BY <3>1, FirstIs DEF ChainOK, Clusters
    <3>4. fp' \in Descriptors /\ fp'.mode = fp.mode /\ fp'.first_cluster = First(chain')
          /\ fp'.size = size /\ fp'.position = fp.position
      BY <1>3, <3>1, <3>2, <3>3 DEF Descriptors
    <3>5. cluster_size * Len(chain') \in Nat
      BY <3>3, ClusterSize, Product
    <3>6. fp.size <= cluster_size * Len(chain')
      BY <1>3, <3>1, <3>2, <3>4, <3>5
    <3>7. DiskOK' /\ Reachable' /\ errors' \in 0 .. MaxErrors /\ entry'.size <= fp.size
          /\ entry' \in [first_cluster : Clusters \cup {None}, size : Nat]
      BY <1>1, <1>2, <1>3, <3>1, <3>6, KeptDisk
    <3>8. Typed'
      BY <1>4, <1>7, <3>1, <3>4, <3>7, TypedAgain
    <3>9. DescriptorOK'
      <4>1. entry'.size <= fp'.size
        BY <1>3, <3>2, <3>4, <3>7
      <4> QED BY <1>4, <1>7, <3>1, <3>4, <3>7, <4>1, OpenGrows
    <3>10. PuttingSector'
      <4>1. /\ call'.start = fp'.position /\ call'.source = s /\ call'.outer = s
            /\ Len(call'.before) = fp.size /\ call'.before = Bytes1To(fp.size)
        BY <1>6, <1>7, <3>1, <3>4
      <4>2. fp'.position - call'.start = 0
        BY <1>3, <3>4, <4>1
      <4>3. Promise!Greatest(fp.size, fp.position) = fp.size
        BY <1>3, <1>11 DEF Promise!Greatest
      <4>4. \A i \in 1 .. fp.size : ByteAt(i - 1)' = Intended(call', 0, i)
        <5>1. TAKE i \in 1 .. fp.size
        <5>2. i - 1 \in Nat /\ i - 1 < fp.size
          BY <1>3
        <5>3. ByteAt(i - 1)' = call'.before[i]
          BY <1>6, <3>1, <4>1, <5>2
        <5>4. ~(i > call'.start /\ i <= call'.start + 0) /\ i <= Len(call'.before)
          BY <1>3, <3>4, <4>1, <5>2
        <5> QED BY <5>3, <5>4 DEF Intended
      <4>5. errors' = 0 => entry'.size = Promise!Greatest(fp.size, fp.position)
        BY <1>1, <1>3, <3>1, <4>3 DEF Updated
      <4>6. fp'.size = Promise!Greatest(Len(call'.before), call'.start + Len(call'.outer))
        BY <3>4, <4>1 DEF size
      <4>7. \A i \in 1 .. Len(s) : call'.source[i] = call'.outer[0 + i]
        BY <1>5, <4>1
      <4>8. call'.at = "sector"
        BY <1>7, <3>1
      <4>9. /\ call'.start <= fp'.position /\ 0 + Len(call'.source) = Len(call'.outer)
            /\ \A i \in 1 .. Len(call'.source) : call'.source[i] = call'.outer[0 + i]
        BY <1>3, <1>5, <3>4, <4>1, <4>7
      <4>10. \A i \in 1 .. Promise!Greatest(Len(call'.before), fp'.position) :
                ByteAt(i - 1)' = Intended(call', 0, i)
        BY <3>4, <4>1, <4>3, <4>4
      <4>11. errors' = 0 => entry'.size = Promise!Greatest(Len(call'.before), call'.start)
        BY <3>4, <4>1, <4>5
      <4> QED BY <4>2, <4>6, <4>8, <4>9, <4>10, <4>11
              DEF PuttingSector, Holds, In, Promise!Greatest
    <3>11. Writing'
      BY <1>4, <1>7, <3>1, <3>4, <3>10 DEF Writing, writable, In
    <3>12. CallOK'
      BY <1>1, <1>6, <1>7, <3>1, <3>11 DEF CallOK, Idle
    <3> QED BY <3>7, <3>8, <3>9, <3>12 DEF FilesInv
  <2> QED BY <2>1, <2>2, <2>3
<1> QED BY <1>8, <1>9, <1>10, <1>11

\* A write goes on after Grow made the file longer.
LEMMA WriteGrows ==
    ASSUME FilesInv, call.op = "write", NEW p \in Nat, NEW s, Len(s) \in Nat,
           NEW c \in Calls, c.op = "write", Grown(p, s, c), UNCHANGED writes, NoFail,
           entry' = entry \/ entry' = Updated,
           errors = 0 /\ entry' = Updated /\ entry # Updated =>
               \A i \in 1 .. fp.size : ByteAt(i - 1) # Stale
    PROVE  /\ Typed' /\ DiskOK' /\ DescriptorOK' /\ call' = c
           /\ fp'.mode = fp.mode /\ fp'.position = p
           /\ fp'.size = Promise!Greatest(fp.size, p + Len(s)) /\ fp'.size \in Nat
           /\ \A x \in Nat : x < fp.size => ByteAt(x)' = ByteAt(x)
<1> DEFINE size == Promise!Greatest(fp.size, p + Len(s))
<1>1. /\ ChainOK' /\ DataOK'
      /\ fp' = [fp EXCEPT !.size = size, !.position = p, !.first_cluster = First(chain')]
      /\ fp'.size <= cluster_size * Len(chain')
      /\ \A x \in Nat : x < fp.size => ByteAt(x)' = ByteAt(x)
      /\ Len(chain) > 0 => First(chain') = First(chain)
      /\ call' = c
  BY DEF Grown
<1>2. /\ fp \in Descriptors /\ fp.size \in Nat /\ writes \in 0 .. MaxWrites
      /\ fp.mode \in {"w", "w+", "a", "a+"} /\ fp.mode # "closed"
  BY WriteIs, OpenIs
<1>3. size \in Nat /\ fp.size <= size
  BY <1>2 DEF Promise!Greatest
<1> HIDE DEF size
<1>4. First(chain') \in Clusters \cup {None} /\ chain' \in Seq(Clusters) /\ Len(chain') \in Nat
  BY <1>1, FirstIs DEF ChainOK, Clusters
<1>5. fp' \in Descriptors /\ fp'.mode = fp.mode /\ fp'.first_cluster = First(chain')
      /\ fp'.size = size /\ fp'.position = p
  BY <1>1, <1>2, <1>3, <1>4 DEF Descriptors
<1>6. cluster_size * Len(chain') \in Nat
  BY <1>4, ClusterSize, Product
<1>7. fp.size <= cluster_size * Len(chain')
  BY <1>1, <1>2, <1>3, <1>5, <1>6
<1>8. errors' = 0 => errors = 0
  BY DEF NoFail
<1>9. DiskOK' /\ Reachable' /\ errors' \in 0 .. MaxErrors /\ entry'.size <= fp.size
      /\ entry' \in [first_cluster : Clusters \cup {None}, size : Nat]
  BY <1>1, <1>2, <1>7, <1>8, KeptDisk
<1>10. Typed'
  BY <1>1, <1>2, <1>5, <1>9, TypedAgain
<1>11. DescriptorOK'
  <2>1. entry'.size <= fp'.size
    BY <1>2, <1>3, <1>5, <1>9
  <2> QED BY <1>1, <1>2, <1>5, <1>9, <2>1, OpenGrows
<1> QED BY <1>1, <1>3, <1>5, <1>9, <1>10, <1>11 DEF size

\* While the gap is filled, what the image of the file says of a byte of it.
LEMMA GapImage ==
    ASSUME NEW c \in Calls, NEW i \in Nat, i > 0, i <= c.start
    PROVE  Intended(c, 0, i) = IF i <= Len(c.before) THEN c.before[i] ELSE Zero
BY DEF Intended, Calls

LEMMA FillStarts ==
    ASSUME FilesInv, ZeroRange, ~ruined'
    PROVE  /\ FilesInv' /\ call.op = "write" /\ fp'.mode = fp.mode
           /\ \/ /\ call'.op = "write" /\ call'.before = call.before
                 /\ call'.start = call.start /\ UNCHANGED reply
              \/ /\ Fail /\ call' = NoCall /\ reply' = <<>> /\ UNCHANGED <<data, chain, entry>>
                 /\ fp.size < call.start /\ fp' = [fp EXCEPT !.position = call.start]
<1> DEFINE left == call.start - fp.size
           n == IF left < bytes_per_sector THEN left ELSE bytes_per_sector
           zeros == [i \in 1 .. n |-> Zero]
           c == [call EXCEPT !.at = "sector", !.nested = TRUE, !.source = zeros]
<1>1. In("gap") /\ left > 0 /\ Grow(fp.size, zeros, c) /\ UNCHANGED <<lost, entry, writes>>
  BY DEF ZeroRange
<1>2. call.op = "write"
  BY <1>1, CallsAre DEF FilesInv, CallOK, Opening, Closing, Reading, In, Idle, NoCall, Typed, Calls
<1>3. /\ fp.first_cluster = First(chain) /\ fp \in Descriptors /\ fp.size \in Nat
      /\ fp.size <= cluster_size * Len(chain) /\ ChainOK /\ DataOK
  BY <1>2, WriteIs, OpenIs
<1>4. /\ fp.mode \in {"w", "w+", "a", "a+"} /\ call.outer \in Sources /\ call.start \in Nat
      /\ call \in Calls /\ Len(call.before) \in Nat /\ fp.mode # "closed"
      /\ (errors = 0 => \A i \in 1 .. Len(call.before) : call.before[i] # Stale)
  BY <1>2, WriteIs
<1>5. FillingGap
  BY <1>1, <1>2, WriteIs DEF Writing
<1>6. /\ Len(call.before) <= fp.size /\ fp.size <= call.start /\ Len(call.before) < call.start
      /\ \A i \in 1 .. fp.size : ByteAt(i - 1) = Intended(call, 0, i)
      /\ Fits(call.start) /\ call.start <= Limit /\ (errors = 0 => entry.size = fp.size)
  BY <1>5 DEF FillingGap, Filled, Holds
<1>7. n \in Nat /\ n >= 1 /\ fp.size + n <= call.start
  BY <1>1, <1>3, <1>4, FilesAssumption
<1> HIDE DEF n
<1>8. /\ zeros \in Seq(Bytes) /\ Len(zeros) = n /\ \A i \in 1 .. n : zeros[i] = Zero
  <2>1. Zero \in Bytes
    BY DEF Bytes
  <2>2. zeros = [i \in 1 .. n |-> zeros[i]] /\ \A i \in 1 .. n : zeros[i] = Zero
    OBVIOUS
  <2> HIDE DEF zeros
  <2> QED BY <1>7, <2>1, <2>2, SequenceOf
<1> HIDE DEF zeros
<1>9. /\ c \in Calls /\ c.op = "write" /\ c.at = "sector" /\ c.nested /\ c.source = zeros
      /\ c.start = call.start /\ c.before = call.before /\ c.outer = call.outer
  BY <1>2, <1>4, <1>8 DEF Calls
<1> HIDE DEF c
<1>10. HasRoom(fp.size + n)
  <2>1. Required(fp.size + n) <= Required(call.start)
    BY <1>3, <1>4, <1>6, <1>7, RequiredGrows
  <2>2. Required(fp.size + n) \in Nat /\ Required(call.start) \in Nat
        /\ Cardinality(Clusters \ lost) \in Nat
    <3>1. fp.size + n \in Nat
      BY <1>3, <1>7
    <3>2. Required(fp.size + n) \in Nat /\ Required(call.start) \in Nat
      BY <1>4, <3>1, RequiredTyped
    <3> QED BY <1>3, <3>2, Rooms
  <2>3. Fits(fp.size + n)
    BY <1>6, <2>1, <2>2 DEF Fits
  <2> QED BY <1>3, <1>7, <2>3, RoomIs
<1>11. Grown(fp.size, zeros, c) \/ Refused(fp.size, zeros, c)
  BY <1>1, <1>3, <1>7, <1>8, Grows
<1>12. CASE Refused(fp.size, zeros, c)
  <2>1. Fail /\ call' = NoCall /\ reply' = <<>> /\ UNCHANGED <<data, chain>>
        /\ fp' = [fp EXCEPT !.position = call.start]
    BY <1>8, <1>9, <1>10, <1>12 DEF Refused
  <2>2. errors' # 0 /\ fp.size < call.start
    <3>1. errors \in 0 .. MaxErrors
      BY DEF FilesInv, Typed
    <3> QED BY <1>1, <1>3, <1>4, <2>1, <3>1, FilesAssumption DEF Fail
  <2>3. FilesInv'
    BY <1>1, <1>2, <1>4, <2>1, <2>2, ReturnsKeep
  <2>4. fp'.mode = fp.mode
    BY <1>3, <2>1 DEF Descriptors
  <2> QED BY <1>1, <1>2, <2>1, <2>2, <2>3, <2>4
<1>13. CASE Grown(fp.size, zeros, c)
  <2>1. /\ Typed' /\ DiskOK' /\ DescriptorOK' /\ call' = c
         /\ fp'.mode = fp.mode /\ fp'.position = fp.size
         /\ fp'.size = Promise!Greatest(fp.size, fp.size + Len(zeros))
         /\ \A x \in Nat : x < fp.size => ByteAt(x)' = ByteAt(x)
    <3>1. NoFail /\ writes' = writes /\ entry' = entry
      BY <1>1, <1>13 DEF Grown
    <3>2. Len(zeros) \in Nat
      BY <1>7, <1>8
    <3>3. entry' = Updated /\ entry # Updated => FALSE
      BY <3>1
    <3> QED BY <1>2, <1>3, <1>9, <1>13, <3>1, <3>2, <3>3, WriteGrows
  <2>7. errors' = errors
    BY <1>13 DEF Grown, NoFail
  <2>2. fp'.size = fp.size + n
    BY <1>3, <1>7, <1>8, <2>1 DEF Promise!Greatest
  <2>3. FillingSector'
    <3>1. Len(call'.before) <= fp'.position /\ fp'.position <= call'.start
          /\ Len(call'.before) < call'.start
      BY <1>6, <1>9, <2>1
    <3>2. \A i \in 1 .. fp'.position : ByteAt(i - 1)' = Intended(call', 0, i)
      <4>1. TAKE i \in 1 .. fp'.position
      <4>2. i \in 1 .. fp.size /\ i - 1 \in Nat /\ i - 1 < fp.size
        BY <1>3, <2>1
      <4>3. Intended(call', 0, i) = Intended(call, 0, i)
        BY <1>9, <2>1 DEF Intended
      <4> QED BY <1>6, <2>1, <4>2, <4>3
    <3>3. Fits(call.start)'
      BY <1>1, <1>6, <1>9, <2>1 DEF Fits, Required, cluster_size, Clusters
    <3>4. Filled(fp.position)'
      BY <1>6, <1>9, <2>1, <3>1, <3>2, <3>3 DEF Filled, Holds, Limit, cluster_size
    <3>5. fp'.position + Len(call'.source) = fp'.size /\ fp'.size <= call'.start
      BY <1>3, <1>7, <1>8, <1>9, <2>1, <2>2
    <3>6. \A i \in 1 .. Len(call'.source) : call'.source[i] = Zero
      BY <1>8, <1>9, <2>1
    <3>7. errors' = 0 => /\ Len(call'.before) <= entry'.size /\ entry'.size <= fp'.position
      BY <1>1, <1>3, <1>6, <1>9, <2>1, <2>7
    <3>8. call'.at # "entry"
      BY <1>9, <2>1
    <3> QED BY <3>4, <3>5, <3>6, <3>7, <3>8 DEF FillingSector, In
  <2>4. Writing'
    BY <1>4, <1>9, <2>1, <2>3 DEF Writing, writable, In
  <2>5. CallOK'
    BY <1>1, <1>4, <1>9, <2>1, <2>4, <2>7 DEF CallOK, Idle
  <2>6. UNCHANGED reply
    BY <1>13 DEF Grown
  <2> QED BY <1>2, <1>9, <2>1, <2>5, <2>6 DEF FilesInv
<1> QED BY <1>11, <1>12, <1>13

\* A write returns: when no access has failed the file holds all its bytes, none of
\* them stale.
LEMMA WrittenBytes ==
    ASSUME FilesInv, call.op = "write", In("entry") \/ (In("gap") /\ fp.size = call.start),
           errors = 0
    PROVE  \A i \in 1 .. fp.size : ByteAt(i - 1) # Stale
<1>1. Writing /\ call.start \in Nat /\ Len(call.outer) \in Nat /\ Len(call.before) \in Nat
      /\ Len(call.source) \in Nat /\ fp.size \in Nat /\ fp.position \in Nat
  BY WriteIs, OpenIs
<1>2. \A i \in 1 .. fp.size : i \in Nat /\ i > 0
  BY <1>1
<1>3. 0 \in 0 .. Len(call.outer)
  BY <1>1
<1>4. CASE In("gap")
  <2>1. \A i \in 1 .. fp.size : ByteAt(i - 1) = Intended(call, 0, i)
    BY <1>1, <1>4 DEF Writing, FillingGap, Filled, Holds
  <2> QED BY <1>2, <1>3, <2>1, ImageNoStale
<1>5. CASE ~In("gap") /\ call.nested
  <2>1. FillingSector /\ In("entry")
    BY <1>1, <1>5 DEF Writing
  <2>2. call.source = <<>> /\ fp.position + Len(call.source) = fp.size
        /\ \A i \in 1 .. fp.position : ByteAt(i - 1) = Intended(call, 0, i)
    BY <2>1 DEF FillingSector, Filled, Holds
  <2>3. fp.position = fp.size
    BY <1>1, <2>2
  <2> QED BY <1>2, <1>3, <2>2, <2>3, ImageNoStale
<1>6. CASE ~In("gap") /\ ~call.nested
  <2> DEFINE w == fp.position - call.start
  <2>1. PuttingSector /\ In("entry")
    BY <1>1, <1>6 DEF Writing
  <2>2. /\ call.source = <<>> /\ w + Len(call.source) = Len(call.outer)
        /\ fp.size = Promise!Greatest(Len(call.before), call.start + Len(call.outer))
        /\ \A i \in 1 .. Promise!Greatest(Len(call.before), fp.position) :
              ByteAt(i - 1) = Intended(call, w, i)
    BY <2>1 DEF PuttingSector, Holds
  <2>3. Len(call.source) = 0
    BY <2>2
  <2>4. w \in 0 .. Len(call.outer) /\ fp.position = call.start + Len(call.outer)
    BY <1>1, <2>2, <2>3
  <2> HIDE DEF w
  <2>5. Promise!Greatest(Len(call.before), fp.position) = fp.size
    BY <2>2, <2>4
  <2> QED BY <1>2, <2>2, <2>4, <2>5, ImageNoStale
<1> QED BY <1>4, <1>5, <1>6

\* What a step of the loop puts into the file.
LEMMA SectorPut ==
    ASSUME FilesInv, call.op = "write", NEW n, n = InSector(fp.position, Len(call.source)),
           UNCHANGED <<chain, lost>>, cluster_at(fp.position) # None,
           data' = [data EXCEPT ![cluster_at(fp.position)] =
                       Patched(fp.position, call.source, n, cluster_at(fp.position))]
    PROVE  /\ ChainOK' /\ DataOK'
           /\ n \in 0 .. Len(call.source)
           /\ \A x \in Nat : x < cluster_size * Len(chain) =>
                 ByteAt(x)' = IF fp.position <= x /\ x < fp.position + n
                              THEN call.source[x - fp.position + 1] ELSE ByteAt(x)
<1>1. /\ ChainOK /\ DataOK /\ fp.position \in Nat /\ call.source \in Seq(Bytes)
      /\ Len(call.source) \in Nat
  BY WriteIs, OpenIs
<1>2. n \in Nat /\ n \in 0 .. Len(call.source) /\ (fp.position % cluster_size) + n <= cluster_size
  BY <1>1, InSectorIs
<1>3. \A i \in 1 .. n : call.source[i] \in Bytes
  BY <1>1, <1>2, ElementOfSeq
<1> DEFINE p == fp.position
           s == call.source
<1>4. /\ p \in Nat /\ cluster_at(p) # None
      /\ data' = [data EXCEPT ![cluster_at(p)] = Patched(p, s, n, cluster_at(p))]
      /\ (p % cluster_size) + n <= cluster_size /\ \A i \in 1 .. n : s[i] \in Bytes
  BY <1>1, <1>2, <1>3
<1>5. UNCHANGED <<chain, lost>>
  OBVIOUS
<1> HIDE DEF p, s
<1>6. /\ ChainOK' /\ DataOK'
      /\ \A x \in Nat : x < cluster_size * Len(chain) =>
            ByteAt(x)' = IF p <= x /\ x < p + n THEN s[x - p + 1] ELSE ByteAt(x)
  BY <1>1, <1>2, <1>4, <1>5, SectorWritten
<1> QED BY <1>2, <1>6 DEF p, s

LEMMA PatchIs ==
    ASSUME NEW p, NEW s, NEW n, NEW k
    PROVE  [i \in 0 .. cluster_size - 1 |->
               IF i \in p % cluster_size .. (p % cluster_size) + n - 1
               THEN s[i - (p % cluster_size) + 1]
               ELSE [j \in 0 .. cluster_size - 1 |->
                        IF \/ ((p % cluster_size) % bytes_per_sector) # 0 \/ n # bytes_per_sector
                           \/ (j \div bytes_per_sector)
                                # ((p % cluster_size) \div bytes_per_sector)
                        THEN data[k][j] ELSE Zero][i]]
           = Patched(p, s, n, k)
BY DEF Patched

\* The cases of a step of the loop.
LEMMA SectorCases ==
    ASSUME WriteSector, NEW n, n = InSector(fp.position, Len(call.source))
    PROVE  /\ call.op = "write" /\ In("sector") /\ UNCHANGED <<chain, lost, entry, reply, writes>>
           /\ \/ /\ NoFail /\ cluster_at(fp.position) # None
                 /\ data' = [data EXCEPT ![cluster_at(fp.position)] =
                       Patched(fp.position, call.source, n, cluster_at(fp.position))]
                 /\ fp' = [fp EXCEPT !.position = @ + n]
                 /\ call' = [call EXCEPT !.source = SubSeq(@, n + 1, Len(@)),
                              !.at = IF n < Len(call.source) THEN "sector" ELSE "entry"]
              \/ /\ Fail \/ (NoFail /\ cluster_at(fp.position) = None)
                 /\ call' = [call EXCEPT !.at = "entry"] /\ UNCHANGED <<data, fp>>
<1> DEFINE p == fp.position
           k == cluster_at(fp.position)
           s == call.source
<1>1. [i \in 0 .. cluster_size - 1 |->
               IF i \in p % cluster_size .. (p % cluster_size) + n - 1
               THEN s[i - (p % cluster_size) + 1]
               ELSE [j \in 0 .. cluster_size - 1 |->
                        IF \/ ((p % cluster_size) % bytes_per_sector) # 0 \/ n # bytes_per_sector
                           \/ (j \div bytes_per_sector)
                                # ((p % cluster_size) \div bytes_per_sector)
                        THEN data[k][j] ELSE Zero][i]]
           = Patched(p, s, n, k)
  BY PatchIs
<1> QED BY <1>1 DEF WriteSector

LEMMA SectorKeeps ==
    ASSUME FilesInv, WriteSector
    PROVE  FilesInv'
<1> DEFINE n == InSector(fp.position, Len(call.source))
<1>1. /\ call.op = "write" /\ In("sector") /\ UNCHANGED <<chain, lost, entry, reply, writes>>
      /\ \/ /\ NoFail /\ cluster_at(fp.position) # None
            /\ data' = [data EXCEPT ![cluster_at(fp.position)] =
                       Patched(fp.position, call.source, n, cluster_at(fp.position))]
            /\ fp' = [fp EXCEPT !.position = @ + n]
            /\ call' = [call EXCEPT !.source = SubSeq(@, n + 1, Len(@)),
                              !.at = IF n < Len(call.source) THEN "sector" ELSE "entry"]
         \/ /\ Fail \/ (NoFail /\ cluster_at(fp.position) = None)
            /\ call' = [call EXCEPT !.at = "entry"] /\ UNCHANGED <<data, fp>>
  BY SectorCases
<1>2. /\ Writing /\ fp.mode \in {"w", "w+", "a", "a+"} /\ fp.mode # "closed"
      /\ call.outer \in Sources /\ call.outer \in Seq(Bytes) /\ Len(call.outer) \in Nat
      /\ call.source \in Seq(Bytes) /\ Len(call.source) \in Nat
      /\ call.before \in Seq(Bytes) /\ Len(call.before) \in Nat
      /\ call.start \in Nat /\ call \in Calls
      /\ (errors = 0 => \A i \in 1 .. Len(call.before) : call.before[i] # Stale)
  BY <1>1, WriteIs
<1>3. /\ fp.first_cluster = First(chain) /\ Reachable /\ fp \in Descriptors
      /\ fp.size <= cluster_size * Len(chain) /\ entry.size <= fp.size
      /\ fp.size \in Nat /\ fp.position \in Nat /\ entry.size \in Nat
      /\ writes \in 0 .. MaxWrites /\ errors \in 0 .. MaxErrors /\ ChainOK /\ DataOK
      /\ entry \in [first_cluster : Clusters \cup {None}, size : Nat]
  BY <1>1, <1>2, OpenIs
<1> DEFINE pos == fp.position
           top == fp.size
           from == call.start
           left == Len(call.source)
           whole == Len(call.outer)
           old == Len(call.before)
           said == entry.size
<1>10. /\ pos \in Nat /\ top \in Nat /\ from \in Nat /\ left \in Nat /\ whole \in Nat
       /\ old \in Nat /\ said \in Nat /\ said <= top
  BY <1>2, <1>3
<1>4. ~In("gap")
  BY <1>1 DEF In
<1>5. /\ call.nested => FillingSector
      /\ ~call.nested => PuttingSector
  BY <1>2, <1>4 DEF Writing
<1>6. pos + left <= top
  <2>1. CASE call.nested
    <3>1. pos + left = top
      BY <1>5, <2>1 DEF FillingSector
    <3> HIDE DEF pos, left, top
    <3> QED BY <1>10, <3>1
  <2>2. CASE ~call.nested
    <3>1. pos - from + left = whole /\ top = Promise!Greatest(old, from + whole)
      BY <1>5, <2>2 DEF PuttingSector
    <3> HIDE DEF pos, left, top, from, whole, old
    <3>2. from + whole <= top
      BY <1>10, <3>1 DEF Promise!Greatest
    <3> QED BY <1>10, <3>1, <3>2
  <2> QED BY <2>1, <2>2
<1>7. cluster_size * Len(chain) \in Nat /\ Len(chain) \in Nat
  BY <1>3, ClusterSize, Product, LenProperties DEF ChainOK
<1>8. CASE /\ NoFail /\ cluster_at(fp.position) # None
           /\ data' = [data EXCEPT ![cluster_at(fp.position)] =
                       Patched(fp.position, call.source, n, cluster_at(fp.position))]
           /\ fp' = [fp EXCEPT !.position = @ + n]
           /\ call' = [call EXCEPT !.source = SubSeq(@, n + 1, Len(@)),
                              !.at = IF n < Len(call.source) THEN "sector" ELSE "entry"]
  <2>1. /\ ChainOK' /\ DataOK' /\ n \in 0 .. Len(call.source)
        /\ \A x \in Nat : x < cluster_size * Len(chain) =>
                 ByteAt(x)' = IF fp.position <= x /\ x < fp.position + n
                              THEN call.source[x - fp.position + 1] ELSE ByteAt(x)
    BY <1>1, <1>8, SectorPut
  <2> HIDE DEF n
  <2>2. n \in Nat /\ n <= left /\ pos + n \in Nat /\ pos + n <= top
    <3>1. n \in 0 .. left
      BY <2>1
    <3> HIDE DEF pos, left, top
    <3> QED BY <1>6, <1>10, <3>1
  <2> DEFINE rest == SubSeq(call.source, n + 1, Len(call.source))
  <2>3. /\ rest \in Seq(Bytes) /\ Len(rest) = Len(call.source) - n
        /\ \A i \in 1 .. Len(rest) : rest[i] = call.source[n + i]
    <3> DEFINE s == call.source
               l == Len(s)
    <3>1. s \in Seq(Bytes) /\ l \in Nat /\ n + 1 \in Int /\ l \in Int
          /\ \A i \in n + 1 .. l : s[i] \in Bytes
      BY <1>2, <2>2, ElementOfSeq
    <3> HIDE DEF s, l
    <3>2. /\ SubSeq(s, n + 1, l) \in Seq(Bytes)
          /\ Len(SubSeq(s, n + 1, l)) = IF n + 1 <= l THEN l - (n + 1) + 1 ELSE 0
          /\ \A i \in 1 .. l - (n + 1) + 1 : SubSeq(s, n + 1, l)[i] = s[(n + 1) + i - 1]
      BY <3>1, SubSeqProperties
    <3>3. n <= l
      BY <2>2 DEF l, s
    <3>4. (IF n + 1 <= l THEN l - (n + 1) + 1 ELSE 0) = l - n
          /\ \A i \in 1 .. l - n : (n + 1) + i - 1 = n + i /\ i \in 1 .. l - (n + 1) + 1
      BY <2>2, <3>1, <3>3
    <3>5. \A i \in 1 .. l - n : SubSeq(s, n + 1, l)[i] = s[n + i]
      BY <3>2, <3>4
    <3> QED BY <3>2, <3>4, <3>5 DEF l, s
  <2>4. /\ call'.source = rest /\ call'.op = "write" /\ call'.outer = call.outer
        /\ call'.start = call.start /\ call'.before = call.before /\ call'.nested = call.nested
        /\ call'.at = IF n < Len(call.source) THEN "sector" ELSE "entry"
    BY <1>1, <1>2, <1>8 DEF Calls
  <2> HIDE DEF rest
  <2>5. call' \in Calls
    <3>1. call' = [call EXCEPT !.source = rest,
                              !.at = IF n < Len(call.source) THEN "sector" ELSE "entry"]
      BY <1>8 DEF rest
    <3> QED BY <1>2, <2>3, <3>1 DEF Calls
  <2>6. fp' \in Descriptors /\ fp'.mode = fp.mode /\ fp'.first_cluster = fp.first_cluster
        /\ fp'.size = fp.size /\ fp'.position = fp.position + n
    BY <1>3, <1>8, <2>2 DEF Descriptors
  <2>7. Typed'
    BY <1>1, <1>3, <1>8, <2>1, <2>5, <2>6, TypedAgain DEF NoFail
  <2>8. Reachable' /\ First(chain') = First(chain)
    BY <1>1, <1>3 DEF Reachable, None
  <2>9. DescriptorOK'
    BY <1>1, <1>2, <1>3, <2>4, <2>6, <2>8, OpenGrows
  <2>10. errors = 0 => \A i \in 1 .. Len(call.source) : call.source[i] # Stale
    <3>1. CASE call.nested
      <4>1. \A i \in 1 .. Len(call.source) : call.source[i] = Zero
        BY <1>5, <3>1 DEF FillingSector
      <4> QED BY <4>1, FilesAssumption
    <3>2. CASE ~call.nested
      <4>1. /\ call.start <= fp.position
            /\ fp.position - call.start + Len(call.source) = Len(call.outer)
            /\ \A i \in 1 .. Len(call.source) :
                  call.source[i] = call.outer[(fp.position - call.start) + i]
        BY <1>5, <3>2 DEF PuttingSector
      <4>2. \A i \in 1 .. Len(call.source) : (fp.position - call.start) + i \in 1 .. Len(call.outer)
        <5>1. from <= pos /\ pos - from + left = whole
          BY <4>1
        <5> HIDE DEF from, pos, left, whole
        <5>2. \A i \in 1 .. left : (pos - from) + i \in 1 .. whole
          BY <1>10, <5>1
        <5> QED BY <5>2 DEF from, pos, left, whole
      <4>3. \A i \in 1 .. Len(call.outer) : call.outer[i] # Stale
        BY <1>2, SourcesAre
      <4> QED BY <4>1, <4>2, <4>3
    <3> QED BY <3>1, <3>2
  <2>11. DiskOK'
    <3>1. ASSUME errors = 0, NEW i \in 1 .. entry.size
          PROVE  ByteAt(i - 1)' # Stale
      <4>1. i - 1 \in Nat /\ i - 1 < cluster_size * Len(chain)
        BY <1>3, <1>7
      <4>2. ByteAt(i - 1) # Stale
        BY <1>3, <3>1 DEF FilesInv, DiskOK
      <4>3. fp.position <= i - 1 /\ i - 1 < fp.position + n
            => (i - 1) - fp.position + 1 \in 1 .. Len(call.source)
        <5>1. i \in 1 .. said
          OBVIOUS
        <5> HIDE DEF pos, left, said
        <5>2. pos <= i - 1 /\ i - 1 < pos + n => (i - 1) - pos + 1 \in 1 .. left
          BY <1>10, <2>2, <5>1
        <5> QED BY <5>2 DEF pos, left
      <4> QED BY <2>1, <2>10, <3>1, <4>1, <4>2, <4>3
    <3>2. entry.size <= cluster_size * Len(chain)
      BY <1>3 DEF FilesInv, DiskOK
    <3>3. entry.first_cluster = None => entry.size = 0
      BY DEF FilesInv, DiskOK
    <3> QED BY <1>1, <1>8, <3>1, <3>2, <3>3 DEF DiskOK, None, cluster_size, NoFail
  <2>12. ASSUME NEW i \in 1 .. fp.size
         PROVE  ByteAt(i - 1)' = IF i > fp.position /\ i <= fp.position + n
                                 THEN call.source[i - fp.position] ELSE ByteAt(i - 1)
    <3>1. i - 1 \in Nat /\ i - 1 < cluster_size * Len(chain)
      BY <1>3, <1>7
    <3>2. (fp.position <= i - 1 /\ i - 1 < fp.position + n)
          <=> (i > fp.position /\ i <= fp.position + n)
      BY <1>3, <2>2
    <3>3. (i - 1) - fp.position + 1 = i - fp.position
      BY <1>3
    <3> QED BY <2>1, <3>1, <3>2, <3>3
  <2>13. call'.at = "entry" => call'.source = <<>>
    <3>1. call'.at = "entry" => Len(rest) = 0
      <4>1. Len(rest) = left - n /\ (call'.at = "entry" => ~(n < left))
        BY <2>3, <2>4
      <4> HIDE DEF left
      <4> QED BY <1>10, <2>2, <4>1
    <3> QED BY <2>3, <2>4, <3>1, EmptySeq
  <2>14. CASE call.nested
    <3>1. /\ Len(call.before) <= fp.position /\ fp.position <= call.start
          /\ Len(call.before) < call.start
          /\ \A i \in 1 .. fp.position : ByteAt(i - 1) = Intended(call, 0, i)
          /\ Fits(call.start) /\ call.start <= Limit
          /\ fp.position + Len(call.source) = fp.size /\ fp.size <= call.start
          /\ \A i \in 1 .. Len(call.source) : call.source[i] = Zero
          /\ errors = 0 => Len(call.before) <= entry.size /\ entry.size <= fp.position
      BY <1>5, <2>14 DEF FillingSector, Filled, Holds
    <3>2. \A i \in 1 .. fp'.position : ByteAt(i - 1)' = Intended(call', 0, i)
      <4>1. TAKE i \in 1 .. fp'.position
      <4>2. i \in 1 .. fp.size /\ i \in Nat /\ i > 0 /\ i <= call.start
        <5>1. top <= from /\ i \in 1 .. pos + n
          BY <2>6, <3>1
        <5> HIDE DEF top, from, pos
        <5>2. i \in 1 .. top /\ i \in Nat /\ i > 0 /\ i <= from
          BY <1>10, <2>2, <5>1
        <5> QED BY <5>2 DEF top, from
      <4>3. Intended(call', 0, i) = Intended(call, 0, i)
        BY <2>4 DEF Intended
      <4>4. CASE i <= fp.position
        <5>1. i \in 1 .. fp.position /\ ~(i > fp.position)
          BY <1>3, <4>2, <4>4
        <5>2. ByteAt(i - 1) = Intended(call, 0, i)
          BY <3>1, <5>1
        <5>3. ByteAt(i - 1)' = ByteAt(i - 1)
          BY <2>12, <4>2, <5>1
        <5> QED BY <4>3, <5>2, <5>3
      <4>5. CASE ~(i <= fp.position)
        <5>1. i - fp.position \in 1 .. Len(call.source) /\ i > fp.position /\ i <= fp.position + n
          <6>1. i \in 1 .. pos + n /\ ~(i <= pos)
            BY <2>6, <4>5
          <6> HIDE DEF pos, left
          <6>2. i - pos \in 1 .. left /\ i > pos /\ i <= pos + n
            BY <1>10, <2>2, <6>1
          <6> QED BY <6>2 DEF pos, left
        <5>2. ByteAt(i - 1)' = Zero
          BY <2>12, <3>1, <4>2, <5>1
        <5>3. ~(i <= Len(call.before))
          <6>1. old <= pos /\ ~(i <= pos) /\ i \in Nat
            BY <3>1, <4>2, <4>5
          <6> HIDE DEF pos, old
          <6>2. ~(i <= old)
            BY <1>10, <6>1
          <6> QED BY <6>2 DEF old
        <5>4. Intended(call, 0, i) = Zero
          BY <1>2, <4>2, <5>3, GapImage
        <5> QED BY <4>3, <5>2, <5>4
      <4> QED BY <4>4, <4>5
    <3>3. Fits(call.start)'
      BY <1>1, <2>4, <3>1 DEF Fits, Required, cluster_size, Clusters
    <3>4. Len(call'.before) <= fp'.position /\ fp'.position <= call'.start
          /\ Len(call'.before) < call'.start
      <4>1. old <= pos /\ old < from /\ top <= from
        BY <3>1
      <4>2. old <= pos + n /\ pos + n <= from
        <5> HIDE DEF old, pos, from, top
        <5> QED BY <1>10, <2>2, <4>1
      <4> QED BY <2>4, <2>6, <4>1, <4>2
    <3>12. (call.start <= Limit)'
      BY <2>4, <3>1 DEF Limit, cluster_size
    <3>5. Filled(fp.position)'
      BY <3>2, <3>3, <3>4, <3>12 DEF Filled, Holds
    <3>6. fp'.position + Len(call'.source) = fp'.size /\ fp'.size <= call'.start
      <4>1. pos + left = top /\ top <= from
        BY <3>1
      <4>2. (pos + n) + (left - n) = top
        <5> HIDE DEF pos, left, top
        <5> QED BY <1>10, <2>2, <4>1
      <4> QED BY <2>3, <2>4, <2>6, <4>1, <4>2
    <3>7. \A i \in 1 .. Len(call'.source) : call'.source[i] = Zero
      <4>1. \A i \in 1 .. Len(rest) : n + i \in 1 .. Len(call.source)
        <5>1. Len(rest) = left - n
          BY <2>3
        <5> HIDE DEF left
        <5>2. \A i \in 1 .. left - n : n + i \in 1 .. left
          BY <1>10, <2>2
        <5> QED BY <5>1, <5>2 DEF left
      <4> QED BY <2>3, <2>4, <3>1, <4>1
    <3>8. errors' = 0 => Len(call'.before) <= entry'.size /\ entry'.size <= fp'.position
      <4>1. errors = 0 => old <= said /\ said <= pos
        BY <3>1
      <4>2. errors = 0 => old <= said /\ said <= pos + n
        <5> HIDE DEF old, said, pos
        <5> QED BY <1>10, <2>2, <4>1
      <4> QED BY <1>1, <1>8, <2>4, <2>6, <4>2 DEF NoFail
    <3>9. FillingSector'
      BY <2>13, <3>5, <3>6, <3>7, <3>8 DEF FillingSector, In
    <3>10. Writing'
      BY <1>2, <2>4, <2>6, <2>14, <3>9 DEF Writing, writable, In
    <3>11. CallOK'
      BY <1>2, <1>8, <2>4, <3>10 DEF CallOK, Idle, NoFail
    <3> QED BY <2>7, <2>9, <2>11, <3>11 DEF FilesInv
  <2>15. CASE ~call.nested
    <3> DEFINE w == fp.position - call.start
               l == Len(call.before)
               g == Promise!Greatest(l, fp.position)
               g2 == Promise!Greatest(l, fp.position + n)
    <3>1. /\ call.start <= fp.position /\ w + Len(call.source) = Len(call.outer)
          /\ \A i \in 1 .. Len(call.source) : call.source[i] = call.outer[w + i]
          /\ fp.size = Promise!Greatest(l, call.start + Len(call.outer))
          /\ \A i \in 1 .. g : ByteAt(i - 1) = Intended(call, w, i)
          /\ errors = 0 => entry.size = Promise!Greatest(l, call.start)
      BY <1>5, <2>15 DEF PuttingSector, Holds
    <3>15. from <= pos /\ w = pos - from /\ w + left = whole
           /\ top = Promise!Greatest(old, from + whole)
      BY <3>1
    <3>2. w \in Nat /\ old \in Nat /\ pos = from + w
      <4> HIDE DEF w, pos, from, old
      <4> QED BY <1>10, <3>15
    <3>3. fp'.position - call'.start = w + n /\ call'.start <= fp'.position
      <4>1. call'.start = from /\ fp'.position = pos + n
        BY <2>4, <2>6
      <4> HIDE DEF w, pos, from
      <4>2. (pos + n) - from = w + n /\ from <= pos + n
        BY <1>10, <2>2, <3>2
      <4> QED BY <4>1, <4>2
    <3>4. (w + n) + Len(call'.source) = Len(call'.outer)
      <4>1. Len(call'.source) = left - n /\ Len(call'.outer) = whole
        BY <2>3, <2>4
      <4>3. w + left = whole
        BY <3>15
      <4> HIDE DEF w, left, whole, pos, top
      <4>2. (w + n) + (left - n) = whole
        BY <1>10, <2>2, <3>2, <4>3
      <4> QED BY <4>1, <4>2
    <3>5. \A i \in 1 .. Len(call'.source) : call'.source[i] = call'.outer[(w + n) + i]
      <4>3. Len(rest) = left - n
        BY <2>3
      <4> HIDE DEF w
      <4>1. \A i \in 1 .. Len(rest) : n + i \in 1 .. Len(call.source) /\ w + (n + i) = (w + n) + i
        <5> HIDE DEF left, pos, from
        <5>1. \A i \in 1 .. left - n : n + i \in 1 .. left /\ w + (n + i) = (w + n) + i
          BY <1>10, <2>2, <3>2
        <5> QED BY <4>3, <5>1 DEF left
      <4>2. \A i \in 1 .. Len(rest) : rest[i] = call.outer[w + (n + i)]
        BY <2>3, <3>1, <4>1
      <4> QED BY <2>4, <4>1, <4>2
    <3>6. g \in Nat /\ g2 \in Nat /\ g <= g2 /\ g2 <= fp.size
          /\ \A i \in 1 .. g2 : i <= l \/ i <= fp.position + n
      <4>1. g = Promise!Greatest(old, pos) /\ g2 = Promise!Greatest(old, pos + n)
        OBVIOUS
      <4> HIDE DEF w, g, g2, pos, top, from, left, whole, old
      <4>2. from + whole <= top /\ old <= top
        BY <1>10, <3>15 DEF Promise!Greatest
      <4>3. g \in Nat /\ g2 \in Nat /\ g <= g2 /\ g2 <= top
        BY <1>10, <2>2, <4>1, <4>2 DEF Promise!Greatest
      <4>4. \A i \in 1 .. g2 : i <= old \/ i <= pos + n
        BY <1>10, <2>2, <4>1 DEF Promise!Greatest
      <4> QED BY <4>3, <4>4 DEF pos, top, old
    <3>7. \A i \in 1 .. g2 : ByteAt(i - 1)' = Intended(call', w + n, i)
      <4>1. TAKE i \in 1 .. g2
      <4>2. i \in 1 .. fp.size /\ i \in Nat /\ i > 0 /\ (i <= l \/ i <= fp.position + n)
        <5>1. g2 \in Nat /\ g2 <= top /\ (i <= l \/ i <= fp.position + n)
          BY <3>6
        <5> HIDE DEF g2, top
        <5>2. i \in 1 .. top /\ i \in Nat /\ i > 0
          BY <1>10, <5>1
        <5> QED BY <5>1, <5>2 DEF top
      <4>3. Intended(call', w + n, i) = Intended(call, w + n, i)
        BY <2>4 DEF Intended
      <4>4. CASE i > fp.position /\ i <= fp.position + n
        <5>1. i - fp.position \in 1 .. Len(call.source)
          <6>1. i > pos /\ i <= pos + n /\ i \in Nat
            BY <4>2, <4>4
          <6> HIDE DEF pos, left
          <6>2. i - pos \in 1 .. left
            BY <1>10, <2>2, <6>1
          <6> QED BY <6>2 DEF pos, left
        <5>2. ByteAt(i - 1)' = call.source[i - fp.position]
          BY <2>12, <4>2, <4>4
        <5>3. w + (i - fp.position) = i - call.start
          <6>1. i \in Nat /\ w \in Nat /\ pos = from + w
            BY <3>2, <4>2
          <6> HIDE DEF w, pos, from
          <6>2. w + (i - pos) = i - from
            BY <1>10, <6>1
          <6> QED BY <6>2 DEF pos, from
        <5>4. ByteAt(i - 1)' = call.outer[i - call.start]
          BY <3>1, <5>1, <5>2, <5>3
        <5>5. i > call.start /\ i <= call.start + (w + n)
          <6>1. i \in Nat /\ i > pos /\ i <= pos + n
            BY <4>2, <4>4
          <6> HIDE DEF w, pos, from
          <6>2. i > from /\ i <= from + (w + n)
            BY <1>10, <2>2, <3>2, <6>1
          <6> QED BY <6>2 DEF from
        <5> HIDE DEF w
        <5>6. Intended(call, w + n, i) = call.outer[i - call.start]
          BY <5>5 DEF Intended
        <5> QED BY <4>3, <5>4, <5>6
      <4>5. CASE ~(i > fp.position /\ i <= fp.position + n)
        <5>1. ByteAt(i - 1)' = ByteAt(i - 1)
          BY <2>12, <4>2, <4>5
        <5>2. i \in 1 .. g
          <6>1. /\ g = Promise!Greatest(old, pos) /\ i \in Nat /\ i > 0
                /\ (i <= old \/ i <= pos + n) /\ ~(i > pos /\ i <= pos + n)
            BY <4>2, <4>5
          <6> HIDE DEF g, pos, old
          <6> QED BY <1>10, <2>2, <6>1 DEF Promise!Greatest
        <5>3. (i > call.start /\ i <= call.start + (w + n)) <=> (i > call.start /\ i <= call.start + w)
          <6>1. i \in Nat /\ ~(i > pos /\ i <= pos + n)
            BY <4>2, <4>5
          <6> HIDE DEF w, pos, from
          <6>2. (i > from /\ i <= from + (w + n)) <=> (i > from /\ i <= from + w)
            BY <1>10, <2>2, <3>2, <6>1
          <6> QED BY <6>2 DEF from
        <5> HIDE DEF w
        <5>4. Intended(call, w + n, i) = Intended(call, w, i)
          BY <5>3 DEF Intended
        <5> QED BY <3>1, <4>3, <5>1, <5>2, <5>4
      <4> QED BY <4>4, <4>5
    <3>8. g2 = Promise!Greatest(Len(call'.before), fp'.position)
      BY <2>4, <2>6
    <3>9. fp'.size = Promise!Greatest(Len(call'.before), call'.start + Len(call'.outer))
      BY <2>4, <2>6, <3>1
    <3>10. errors' = 0 => entry'.size = Promise!Greatest(Len(call'.before), call'.start)
      BY <1>1, <1>8, <2>4, <3>1 DEF NoFail
    <3> DEFINE v == w + n
    <3> HIDE DEF w, g, g2, l
    <3>11. /\ fp'.position - call'.start = v /\ v + Len(call'.source) = Len(call'.outer)
           /\ \A i \in 1 .. Len(call'.source) : call'.source[i] = call'.outer[v + i]
           /\ \A i \in 1 .. Promise!Greatest(Len(call'.before), fp'.position) :
                 ByteAt(i - 1)' = Intended(call', v, i)
      BY <3>3, <3>4, <3>5, <3>7, <3>8
    <3> HIDE DEF v
    <3>12. PuttingSector'
      BY <2>13, <3>3, <3>9, <3>10, <3>11 DEF PuttingSector, Holds, In, Promise!Greatest
    <3>13. Writing'
      BY <1>2, <2>4, <2>6, <2>15, <3>12 DEF Writing, writable, In
    <3>14. CallOK'
      BY <1>2, <1>8, <2>4, <3>13 DEF CallOK, Idle, NoFail
    <3> QED BY <2>7, <2>9, <2>11, <3>14 DEF FilesInv
  <2> QED BY <2>14, <2>15
<1>9. CASE /\ Fail \/ (NoFail /\ cluster_at(fp.position) = None)
           /\ call' = [call EXCEPT !.at = "entry"] /\ UNCHANGED <<data, fp>>
  <2> HIDE DEF n
  <2>1. NoFail \/ Fail
    BY <1>9
  <2>2. /\ ChainOK' /\ DataOK' /\ DiskOK' /\ errors' \in 0 .. MaxErrors
        /\ errors' = 0 => errors = 0
        /\ entry' \in [first_cluster : Clusters \cup {None}, size : Nat]
        /\ \A p \in Nat : ByteAt(p)' = ByteAt(p)
    BY <1>1, <1>9, <2>1, SameDisk
  <2>3. errors' = 0 => call.source = <<>>
    <3>1. SUFFICES ASSUME errors' = 0 PROVE call.source = <<>>
      OBVIOUS
    <3>2. ~Fail
      BY <1>3, <3>1, FilesAssumption DEF Fail
    <3>3. cluster_at(fp.position) = None
      BY <1>9, <3>2
    <3>4. ~(fp.position < cluster_size * Len(chain))
      <4>1. SUFFICES ASSUME fp.position < cluster_size * Len(chain) PROVE FALSE
        OBVIOUS
      <4> DEFINE i == fp.position \div cluster_size + 1
      <4>2. i \in 1 .. Len(chain)
        <5> DEFINE m == Len(chain)
                   d == pos \div cluster_size
        <5>1. m \in Nat /\ pos < cluster_size * m
          BY <1>7, <4>1
        <5> HIDE DEF m, pos
        <5>2. d \in Nat /\ d + 1 <= m
          BY <1>10, <5>1, InClusters
        <5> HIDE DEF d
        <5>3. d + 1 \in 1 .. m
          BY <5>1, <5>2
        <5> QED BY <5>3 DEF d, m, pos
      <4>3. cluster_at(fp.position) = chain[i]
        BY <1>7, <4>2 DEF cluster_at
      <4> HIDE DEF i
      <4>4. chain[i] \in Clusters
        BY <1>3, <4>2, ElementOfSeq DEF ChainOK
      <4> QED BY <3>3, <4>3, <4>4 DEF Clusters, None
    <3>5. Len(call.source) = 0
      <4> DEFINE room == cluster_size * Len(chain)
      <4>1. room \in Nat /\ top <= room /\ ~(pos < room)
        BY <1>3, <1>7, <3>4
      <4> HIDE DEF room, top, pos, left
      <4>2. left = 0
        BY <1>6, <1>10, <4>1
      <4> QED BY <4>2 DEF left
    <3> QED BY <1>2, <3>5, EmptySeq
  <2>4. /\ call' \in Calls /\ call'.op = "write" /\ call'.at = "entry" /\ call'.outer = call.outer
        /\ call'.source = call.source /\ call'.nested = call.nested
        /\ call'.start = call.start /\ call'.before = call.before
    BY <1>1, <1>2, <1>9 DEF Calls
  <2>5. fp' = fp
    BY <1>9
  <2>6. Typed'
    BY <1>1, <1>3, <2>2, <2>4, <2>5, TypedAgain
  <2>7. DescriptorOK'
    BY <1>1, <1>2, <1>9, <2>1, <2>4, <2>5, OpenStays
  <2>8. \A w, i : Intended(call', w, i) = Intended(call, w, i)
    BY <2>4 DEF Intended
  <2>9. \A i \in 1 .. fp.size : i - 1 \in Nat
    BY <1>3
  <2>10. CASE call.nested
    <3>1. FillingSector
      BY <1>5, <2>10
    <3>2. Fits(call.start)'
      BY <1>1, <2>4, <3>1 DEF FillingSector, Filled, Fits, Required, cluster_size, Clusters
    <3>3. \A i \in 1 .. fp.position : ByteAt(i - 1)' = Intended(call', 0, i)
      <4>1. \A i \in 1 .. fp.position : i - 1 \in Nat
        BY <1>3
      <4> QED BY <2>2, <2>8, <3>1, <4>1 DEF FillingSector, Filled, Holds
    <3>4. Filled(fp.position)'
      BY <2>4, <2>5, <3>1, <3>2, <3>3 DEF FillingSector, Filled, Holds
    <3>5. FillingSector'
      BY <1>1, <2>2, <2>3, <2>4, <2>5, <3>1, <3>4 DEF FillingSector
    <3>6. Writing'
      BY <1>2, <2>4, <2>5, <2>10, <3>5 DEF Writing, writable, In
    <3>7. CallOK'
      BY <1>2, <2>2, <2>4, <3>6 DEF CallOK, Idle
    <3> QED BY <2>2, <2>6, <2>7, <3>7 DEF FilesInv
  <2>11. CASE ~call.nested
    <3> DEFINE w == fp.position - call.start
               g == Promise!Greatest(Len(call.before), fp.position)
    <3>1. PuttingSector
      BY <1>5, <2>11
    <3>2. g \in Nat
      BY <1>2, <1>3 DEF Promise!Greatest
    <3>3. \A i \in 1 .. g : ByteAt(i - 1) = Intended(call, w, i)
      BY <3>1 DEF PuttingSector, Holds
    <3> HIDE DEF g, w
    <3>4. \A i \in 1 .. g : ByteAt(i - 1)' = Intended(call', w, i)
      <4>1. \A i \in 1 .. g : i - 1 \in Nat
        BY <3>2
      <4> QED BY <2>2, <2>8, <3>3, <4>1
    <3>5. PuttingSector'
      BY <1>1, <2>2, <2>3, <2>4, <2>5, <3>1, <3>4 DEF PuttingSector, Holds, g, w, Promise!Greatest
    <3>6. Writing'
      BY <1>2, <2>4, <2>5, <2>11, <3>5 DEF Writing, writable, In
    <3>7. CallOK'
      BY <1>2, <2>2, <2>4, <3>6 DEF CallOK, Idle
    <3> QED BY <2>2, <2>6, <2>7, <3>7 DEF FilesInv
  <2> QED BY <2>10, <2>11
<1> QED BY <1>1, <1>8, <1>9

LEMMA WriteEnds ==
    ASSUME FilesInv, NEW ok \in BOOLEAN, WriteReturns(ok)
    PROVE  FilesInv'
<1>1. /\ call.op = "write" /\ In("entry") /\ ~call.nested /\ WriteEntry(ok) /\ call' = NoCall
      /\ UNCHANGED <<data, chain, lost, fp, writes>>
  BY DEF WriteReturns, Return
<1>2. fp.mode # "closed" /\ fp \in Descriptors /\ fp.position \in Nat /\ errors \in 0 .. MaxErrors
  BY <1>1, WriteIs, OpenIs
<1>3. fp' = [fp EXCEPT !.position = fp.position]
  BY <1>1, <1>2 DEF Descriptors
<1>4. errors = 0 => \A i \in 1 .. fp.size : ByteAt(i - 1) # Stale
  BY <1>1, WrittenBytes
<1>5. CASE ok
  BY <1>1, <1>2, <1>3, <1>4, <1>5, EntryReturns DEF WriteEntry
<1>6. CASE ~ok
  <2>1. Fail /\ entry' = entry /\ errors' # 0
    BY <1>1, <1>2, <1>6, FilesAssumption DEF WriteEntry, Fail
  <2> QED BY <1>1, <1>2, <1>3, <2>1, ReturnsKeep
<1> QED BY <1>5, <1>6

LEMMA NestedEnds ==
    ASSUME FilesInv, NEW ok \in BOOLEAN, NestedReturns(ok)
    PROVE  FilesInv'
<1>1. /\ call.op = "write" /\ In("entry") /\ call.nested /\ WriteEntry(ok)
      /\ UNCHANGED <<data, chain, lost, writes>>
      /\ IF call.source = <<>>
         THEN call' = [call EXCEPT !.at = "gap", !.nested = FALSE] /\ fp' = fp
         ELSE call' = NoCall /\ fp' = [fp EXCEPT !.position = call.start]
  BY DEF NestedReturns, Return
<1>2. /\ fp.mode # "closed" /\ fp \in Descriptors /\ fp.position \in Nat /\ errors \in 0 .. MaxErrors
      /\ fp.size \in Nat /\ writes \in 0 .. MaxWrites /\ call.start \in Nat /\ call \in Calls
      /\ fp.size <= cluster_size * Len(chain) /\ fp.first_cluster = First(chain)
      /\ fp.mode \in {"w", "w+", "a", "a+"} /\ call.outer \in Sources
      /\ (errors = 0 => \A i \in 1 .. Len(call.before) : call.before[i] # Stale)
      /\ ChainOK /\ DataOK /\ Reachable
  BY <1>1, WriteIs, OpenIs
<1>3. errors = 0 => \A i \in 1 .. fp.size : ByteAt(i - 1) # Stale
  BY <1>1, WrittenBytes
<1>4. FillingSector
  BY <1>1, WriteIs DEF Writing, In
<1>5. (NoFail \/ Fail) /\ (entry' = entry \/ entry' = Updated)
  BY <1>1 DEF WriteEntry
<1>6. errors' = 0 => errors = 0 /\ entry' = Updated
  BY <1>1, <1>2, FilesAssumption DEF WriteEntry, Fail, NoFail
<1>7. ChainOK' /\ DataOK' /\ \A x \in Nat : ByteAt(x)' = ByteAt(x)
  BY <1>1, <1>2, SameBytes DEF ChainOK, DataOK, Clusters, Bytes, cluster_size
<1>8. /\ DiskOK' /\ Reachable' /\ entry'.size <= fp.size /\ errors' \in 0 .. MaxErrors
      /\ entry' \in [first_cluster : Clusters \cup {None}, size : Nat]
  BY <1>1, <1>2, <1>3, <1>5, <1>6, <1>7, KeptDisk
<1>9. CASE call.source = <<>>
  <2>1. call' = [call EXCEPT !.at = "gap", !.nested = FALSE] /\ fp' = fp
    BY <1>1, <1>9
  <2>2. /\ call' \in Calls /\ call'.op = "write" /\ call'.at = "gap" /\ call'.outer = call.outer
        /\ ~call'.nested /\ call'.start = call.start /\ call'.before = call.before
    BY <1>1, <1>2, <2>1 DEF Calls
  <2>3. Typed'
    BY <1>1, <1>2, <1>7, <1>8, <2>1, <2>2, TypedAgain
  <2>4. DescriptorOK'
    <3>1. fp'.first_cluster = First(chain') /\ fp'.size <= cluster_size * Len(chain')
      BY <1>1, <1>2, <2>1
    <3> QED BY <1>2, <1>8, <2>1, <2>2, <3>1, OpenGrows
  <2>5. fp.position = fp.size
    BY <1>2, <1>4, <1>9 DEF FillingSector
  <2>6. \A i \in 1 .. fp'.size : ByteAt(i - 1)' = Intended(call', 0, i)
    <3>1. TAKE i \in 1 .. fp'.size
    <3>2. i - 1 \in Nat /\ i \in 1 .. fp.position
      BY <1>2, <2>1, <2>5
    <3>3. Intended(call', 0, i) = Intended(call, 0, i)
      BY <2>2 DEF Intended
    <3> QED BY <1>4, <1>7, <3>2, <3>3 DEF FillingSector, Filled, Holds
  <2>7. Fits(call.start)'
    BY <1>1, <1>4, <2>2 DEF FillingSector, Filled, Fits, Required, cluster_size, Clusters
  <2>8. Filled(fp.size)'
    BY <1>4, <2>1, <2>2, <2>5, <2>6, <2>7 DEF FillingSector, Filled, Holds
  <2>9. FillingGap'
    <3>1. errors' = 0 => entry'.size = fp'.size
      BY <1>6, <2>1 DEF Updated
    <3> QED BY <2>1, <2>2, <2>5, <2>8, <3>1 DEF FillingGap
  <2>10. Writing'
    BY <1>2, <2>1, <2>2, <2>9 DEF Writing, writable, In
  <2>11. CallOK'
    BY <1>2, <1>6, <2>2, <2>10 DEF CallOK, Idle
  <2> QED BY <1>8, <2>3, <2>4, <2>11 DEF FilesInv
<1>10. CASE call.source # <<>>
  <2>1. call' = NoCall /\ fp' = [fp EXCEPT !.position = call.start]
    BY <1>1, <1>10
  <2>2. errors' # 0
    BY <1>1, <1>4, <1>6, <1>10 DEF FillingSector
  <2>3. fp' \in Descriptors /\ fp'.mode = fp.mode /\ fp'.first_cluster = fp.first_cluster
        /\ fp'.size = fp.size
    BY <1>2, <2>1 DEF Descriptors
  <2>4. Typed'
    BY <1>1, <1>2, <1>7, <1>8, <2>1, <2>3, CallsAre, TypedAgain
  <2>5. DescriptorOK'
    BY <1>1, <1>2, <1>8, <2>2, <2>3 DEF DescriptorOK, cluster_size
  <2>6. CallOK'
    BY <2>1, CallsAre DEF CallOK, Idle, NoCall
  <2> QED BY <1>8, <2>4, <2>5, <2>6 DEF FilesInv
<1> QED BY <1>9, <1>10

LEMMA GapEnds ==
    ASSUME FilesInv, NEW ok \in BOOLEAN, GapFilled(ok), ~ruined'
    PROVE  FilesInv'
<1> DEFINE c == [call EXCEPT !.at = "sector", !.source = call.outer]
<1>1. In("gap") /\ fp.size = call.start /\ UNCHANGED <<lost, writes>>
      /\ IF ok THEN entry' = Updated /\ Grow(call.start, call.outer, c)
         ELSE Fail /\ call' = NoCall /\ UNCHANGED <<data, chain, entry, fp>>
  BY DEF GapFilled, Return
<1>2. call.op = "write"
  BY <1>1, CallsAre DEF FilesInv, CallOK, Opening, Closing, Reading, In, Idle, NoCall, Typed, Calls
<1>3. /\ fp.first_cluster = First(chain) /\ fp \in Descriptors /\ fp.size \in Nat
      /\ fp.size <= cluster_size * Len(chain) /\ ChainOK /\ DataOK /\ fp.position \in Nat
      /\ errors \in 0 .. MaxErrors
  BY <1>2, WriteIs, OpenIs
<1>4. /\ fp.mode \in {"w", "w+", "a", "a+"} /\ call.outer \in Sources /\ call.start \in Nat
      /\ call \in Calls /\ Len(call.before) \in Nat /\ fp.mode # "closed"
      /\ call.outer \in Seq(Bytes) /\ Len(call.outer) \in Nat
      /\ (errors = 0 => \A i \in 1 .. Len(call.before) : call.before[i] # Stale)
  BY <1>2, WriteIs
<1>5. FillingGap
  BY <1>1, <1>2, WriteIs DEF Writing
<1>6. /\ Len(call.before) <= fp.size /\ fp.size <= call.start /\ Len(call.before) < call.start
      /\ \A i \in 1 .. fp.size : ByteAt(i - 1) = Intended(call, 0, i)
      /\ fp.position = call.start /\ ~call.nested
  BY <1>1, <1>5 DEF FillingGap, Filled, Holds
<1>7. fp' = fp => fp' = [fp EXCEPT !.position = call.start]
  BY <1>3, <1>6 DEF Descriptors
<1>8. errors = 0 => \A i \in 1 .. fp.size : ByteAt(i - 1) # Stale
  BY <1>1, <1>2, WrittenBytes
<1>9. CASE ~ok
  <2>1. Fail /\ entry' = entry /\ errors' # 0
    BY <1>1, <1>3, <1>9, FilesAssumption DEF Fail
  <2>2. call' = NoCall /\ UNCHANGED <<data, chain, fp>>
    BY <1>1, <1>9
  <2> QED BY <1>1, <1>2, <1>4, <1>7, <2>1, <2>2, ReturnsKeep
<1>10. CASE ok
  <2>1. entry' = Updated /\ Grow(call.start, call.outer, c)
    BY <1>1, <1>10
  <2>2. /\ c \in Calls /\ c.op = "write" /\ c.at = "sector" /\ ~c.nested /\ c.source = call.outer
        /\ c.start = call.start /\ c.before = call.before /\ c.outer = call.outer
    BY <1>2, <1>4, <1>6 DEF Calls
  <2> HIDE DEF c
  <2>3. Grown(call.start, call.outer, c) \/ Refused(call.start, call.outer, c)
    BY <1>1, <1>3, <1>4, <2>1, Grows
  <2>4. CASE Refused(call.start, call.outer, c)
    <3>1. call' = NoCall /\ fp' = [fp EXCEPT !.position = call.start] /\ UNCHANGED <<data, chain>>
          /\ (NoFail \/ Fail)
      BY <2>2, <2>4 DEF Refused
    <3> QED BY <1>1, <1>2, <1>4, <1>8, <2>1, <3>1, EntryReturns
  <2>5. CASE Grown(call.start, call.outer, c)
    <3>0. NoFail /\ errors' = errors
      BY <2>5 DEF Grown, NoFail
    <3>1. /\ Typed' /\ DiskOK' /\ DescriptorOK' /\ call' = c
          /\ fp'.mode = fp.mode /\ fp'.position = call.start
          /\ fp'.size = Promise!Greatest(fp.size, call.start + Len(call.outer))
          /\ \A x \in Nat : x < fp.size => ByteAt(x)' = ByteAt(x)
      BY <1>1, <1>2, <1>4, <1>8, <2>1, <2>2, <2>5, <3>0, WriteGrows
    <3>2. PuttingSector'
      <4>1. /\ call'.start = call.start /\ call'.source = call.outer /\ call'.outer = call.outer
            /\ call'.before = call.before /\ call'.at = "sector"
        BY <2>2, <3>1
      <4>2. fp'.position - call'.start = 0 /\ call'.start <= fp'.position
            /\ 0 + Len(call'.source) = Len(call'.outer)
        BY <1>4, <3>1, <4>1
      <4>3. Promise!Greatest(Len(call.before), call.start) = fp.size
        BY <1>1, <1>4, <1>6 DEF Promise!Greatest
      <4>4. \A i \in 1 .. fp.size : ByteAt(i - 1)' = Intended(call', 0, i)
        <5>1. TAKE i \in 1 .. fp.size
        <5>2. i - 1 \in Nat /\ i - 1 < fp.size
          BY <1>3
        <5>3. Intended(call', 0, i) = Intended(call, 0, i)
          BY <4>1 DEF Intended
        <5> QED BY <1>6, <3>1, <5>2, <5>3
      <4>5. errors' = 0 => entry'.size = Promise!Greatest(Len(call'.before), call'.start)
        BY <2>1, <4>1, <4>3 DEF Updated
      <4>6. fp'.size = Promise!Greatest(Len(call'.before), call'.start + Len(call'.outer))
        BY <1>1, <1>4, <1>6, <3>1, <4>1 DEF Promise!Greatest
      <4>7. \A i \in 1 .. Len(call'.source) : call'.source[i] = call'.outer[0 + i]
        BY <1>4, <4>1
      <4>8. \A i \in 1 .. Promise!Greatest(Len(call'.before), fp'.position) :
               ByteAt(i - 1)' = Intended(call', 0, i)
        BY <3>1, <4>1, <4>3, <4>4
      <4> QED BY <4>1, <4>2, <4>5, <4>6, <4>7, <4>8
              DEF PuttingSector, Holds, In, Promise!Greatest
    <3>3. Writing'
      BY <1>4, <2>2, <3>1, <3>2 DEF Writing, writable, In
    <3>4. CallOK'
      BY <1>4, <2>1, <2>2, <3>0, <3>1, <3>3 DEF CallOK, Idle
    <3> QED BY <3>1, <3>4 DEF FilesInv
  <2> QED BY <2>3, <2>4, <2>5
<1> QED BY <1>9, <1>10

\* The model type of a file that is ruined: nothing is said of its chain.
LEMMA RuinedTyped ==
    ASSUME ruined', ruined' \in BOOLEAN, ChainOK', DataOK',
           entry' \in [first_cluster : Clusters \cup {None}, size : Nat],
           fp'.mode \in Modes \cup {"closed"},
           writes' \in 0 .. MaxWrites, errors' \in 0 .. MaxErrors
    PROVE  TypeOK'
<1>1. data' \in [Clusters -> [0 .. cluster_size - 1 -> Bytes]]
  BY DEF DataOK, Clusters, Bytes, cluster_size
<1>2. ToSet(chain') \subseteq Clusters /\ lost' \subseteq Clusters
  BY ToSetIs DEF ChainOK, Clusters
<1>3. /\ entry'.first_cluster \in Clusters \cup {None} /\ entry'.size \in Nat
  OBVIOUS
<1> QED BY <1>1, <1>2, <1>3 DEF TypeOK, Clusters, Bytes, cluster_size, None, Modes

\* The file is made longer, past Limit perhaps.
LEMMA GrowTyped ==
    ASSUME FilesInv, fp.mode # "closed", call.op # "open", UNCHANGED lost,
           NEW p \in Nat, NEW s, Len(s) \in Nat, NEW c, Grow(p, s, c)
    PROVE  /\ ChainOK' /\ DataOK' /\ fp'.mode = fp.mode /\ (NoFail \/ Fail)
           /\ ruined' => ruined \/ p + Len(s) > Limit
<1>1. ChainOK /\ DataOK /\ fp \in Descriptors /\ p + Len(s) \in Nat
  BY OpenIs
<1>2. CASE UNCHANGED <<data, chain, ruined>> /\ fp'.mode = fp.mode /\ (NoFail \/ Fail)
  BY <1>1, <1>2 DEF ChainOK, DataOK, Clusters, cluster_size, Bytes
<1>3. CASE ensure_size(p + Len(s)) /\ fp'.mode = fp.mode
  <2>1. ChainOK' /\ DataOK'
    BY <1>1, <1>3, EnsureSize
  <2>2. ruined' = (p + Len(s) > Limit) /\ NoFail
    BY <1>3 DEF ensure_size
  <2> QED BY <1>3, <2>1, <2>2, Zenon
<1>4. \/ UNCHANGED <<data, chain, ruined>> /\ fp'.mode = fp.mode /\ (NoFail \/ Fail)
      \/ ensure_size(p + Len(s)) /\ fp'.mode = fp.mode
  BY <1>1 DEF Grow, ensure_size_fails, Descriptors
<1> QED BY <1>2, <1>3, <1>4

\* How a step may ruin the file: a write ends past Limit, or an access fails.
LEMMA RuinsHow ==
    ASSUME FilesInv, ~ruined, Next, ruined'
    PROVE  \/ \E s \in Sources : fat_write(s)
           \/ ZeroRange \/ GapFilled(TRUE) \/ ensure_sizeRuins
<1>1. CASE UNCHANGED ruined
  BY <1>1
<1>2. ASSUME NEW m \in Modes, fat_open(m) PROVE FALSE
  <2>1. CASE UNCHANGED ruined
    BY <2>1
  <2>2. CASE ruined' = (0 > Limit)
    <3>1. ~(0 > Limit)
      BY LimitIs
    <3> QED BY <2>2, <3>1, Zenon
  <2> QED BY <1>2, <2>1, <2>2 DEF fat_open, ensure_size
<1>3. ASSUME NEW m \in Modes, fat_openFails(m) PROVE FALSE
  BY <1>1, <1>3 DEF fat_openFails, ensure_size_fails
<1>4. fat_close \/ ReadSector \/ WriteSector => UNCHANGED ruined
  BY DEF fat_close, ReadSector, WriteSector
<1>5. \A p \in Positions : fat_seek(p) => UNCHANGED ruined
  BY DEF fat_seek
<1>6. \A n \in Counts : fat_read(n) => UNCHANGED ruined
  BY DEF fat_read
<1>7. \A ok \in BOOLEAN : OpenReturns(ok) \/ CloseReturns(ok) \/ WriteReturns(ok)
                            \/ NestedReturns(ok) => UNCHANGED ruined
  BY DEF OpenReturns, CloseReturns, WriteReturns, NestedReturns
<1>8. \A ok \in BOOLEAN : GapFilled(ok) => GapFilled(TRUE) \/ UNCHANGED ruined
  BY DEF GapFilled
<1> QED BY <1>1, <1>2, <1>3, <1>4, <1>5, <1>6, <1>7, <1>8 DEF Next

\* What is in progress while a gap is filled.
LEMMA GapIs ==
    ASSUME FilesInv, In("gap")
    PROVE  call.op = "write" /\ call.start \in Nat /\ call.outer \in Sources
           /\ fp.mode # "closed" /\ fp.size \in Nat
<1>1. call.op = "write"
  BY CallsAre DEF FilesInv, CallOK, Opening, Closing, Reading, In, Idle, NoCall, Typed, Calls
<1> QED BY <1>1, WriteIs, OpenIs

LEMMA RuinKeeps ==
    ASSUME FilesInv, ~ruined, Next, ruined', ruined' \in BOOLEAN
    PROVE  TypeOK'
<1>1. /\ ChainOK /\ DataOK /\ fp \in Descriptors /\ fp.mode \in Modes \cup {"closed"}
      /\ entry \in [first_cluster : Clusters \cup {None}, size : Nat]
      /\ writes \in 0 .. MaxWrites /\ errors \in 0 .. MaxErrors
  BY DEF FilesInv, Typed, Descriptors
<1>2. NoFail \/ Fail => errors' \in 0 .. MaxErrors
  BY <1>1, FilesAssumption DEF NoFail, Fail
<1>3. ASSUME NEW s \in Sources, fat_write(s) PROVE TypeOK'
  <2>1. /\ Idle /\ fp.mode # "closed" /\ writes < MaxWrites /\ writes' = writes + 1
        /\ UNCHANGED <<lost, entry>>
    BY <1>3 DEF fat_write
  <2>2. call.op # "open" /\ fp.position \in Nat /\ Len(s) \in Nat
    BY <1>1, <2>1, SourcesAre DEF Idle, Descriptors
  <2>3. writes' \in 0 .. MaxWrites
    BY <1>1, <2>1, FilesAssumption
  <2>4. CASE UNCHANGED <<ruined>>
    BY <2>4
  <2>5. CASE \E c : Grow(fp.position, s, c)
    BY <1>1, <1>2, <2>1, <2>2, <2>3, <2>5, GrowTyped, RuinedTyped
  <2>6. CASE ensure_size(fp.position) /\ fp'.mode = fp.mode
    <3>1. ChainOK' /\ DataOK' /\ NoFail
      BY <1>1, <2>1, <2>2, <2>6, EnsureSize DEF ensure_size
    <3> QED BY <1>1, <1>2, <2>1, <2>3, <2>6, <3>1, RuinedTyped
  <2> QED BY <1>1, <1>3, <2>4, <2>5, <2>6 DEF fat_write, ensure_size_fails, Descriptors
<1>4. ASSUME ZeroRange PROVE TypeOK'
  <2> DEFINE left == call.start - fp.size
             n == IF left < bytes_per_sector THEN left ELSE bytes_per_sector
             zeros == [i \in 1 .. n |-> Zero]
  <2>1. In("gap") /\ left > 0 /\ UNCHANGED <<lost, entry, writes>> /\ \E c : Grow(fp.size, zeros, c)
    BY <1>4 DEF ZeroRange
  <2>2. call.op = "write" /\ fp.mode # "closed" /\ fp.size \in Nat /\ call.start \in Nat
    BY <2>1, GapIs
  <2>3. n \in Nat
    BY <2>1, <2>2, FilesAssumption
  <2> HIDE DEF n
  <2>4. Len(zeros) \in Nat
    BY <2>3
  <2> HIDE DEF zeros
  <2> QED BY <1>1, <1>2, <2>1, <2>2, <2>4, GrowTyped, RuinedTyped
<1>5. ASSUME GapFilled(TRUE) PROVE TypeOK'
  <2>1. /\ In("gap") /\ UNCHANGED <<lost, writes>> /\ entry' = Updated
        /\ \E c : Grow(call.start, call.outer, c)
    BY <1>5 DEF GapFilled
  <2>2. /\ call.op = "write" /\ fp.mode # "closed" /\ call.start \in Nat /\ Len(call.outer) \in Nat
    BY <2>1, GapIs, SourcesAre
  <2>3. entry' \in [first_cluster : Clusters \cup {None}, size : Nat]
    BY <1>1, <2>1 DEF Updated, Descriptors
  <2> QED BY <1>1, <1>2, <2>1, <2>2, <2>3, GrowTyped, RuinedTyped
<1>6. ASSUME ensure_sizeRuins PROVE TypeOK'
  <2>1. UNCHANGED <<data, chain, lost, entry, fp, writes>> /\ Fail
    BY <1>6 DEF ensure_sizeRuins
  <2>2. ChainOK' /\ DataOK'
    BY <1>1, <2>1 DEF ChainOK, DataOK, Clusters, cluster_size, Bytes
  <2> QED BY <1>1, <1>2, <2>1, <2>2, RuinedTyped
<1> QED BY <1>3, <1>4, <1>5, <1>6, RuinsHow

LEMMA StepKeeps ==
    ASSUME FilesInv, [Next]_vars, ~ruined'
    PROVE  FilesInv'
<1>1. CASE Next
  BY <1>1, OpenStarts, OpenRefused, CloseStarts, SeekKeeps, ReadStarts, ReadGoesOn, WriteStarts,
     FillStarts, SectorKeeps, OpenEnds, CloseEnds, WriteEnds, NestedEnds, GapEnds
     DEF Next, ensure_sizeRuins
<1>2. CASE UNCHANGED vars
  <2>1. UNCHANGED <<data, chain, lost, entry, fp, call, reply, writes, errors>>
    BY <1>2 DEF vars
  <2>2. Typed'
    BY <2>1 DEF FilesInv, Typed, ChainOK, DataOK, Clusters, Bytes, cluster_size, None, Descriptors,
                Calls, Modes
  <2>3. UNCHANGED <<Reachable, Updated, First(chain), cluster_size * Len(chain)>>
    BY <2>1 DEF Reachable, Updated, None, First, cluster_size
  <2>4. \A x : ByteAt(x)' = ByteAt(x)
    BY <2>1 DEF ByteAt, cluster_at, cluster_size, None
  <2>5. Bytes1To(fp.size)' = Bytes1To(fp.size)
    BY <2>1, <2>4 DEF Bytes1To
  <2>6. DiskOK'
    BY <2>1, <2>3, <2>4 DEF FilesInv, DiskOK, None
  <2>7. DescriptorOK'
    BY <2>1, <2>3 DEF FilesInv, DescriptorOK
  <2>8. CallOK'
    <3>1. UNCHANGED Opening /\ UNCHANGED Closing /\ UNCHANGED Reading
      BY <2>1, <2>5 DEF Opening, Closing, Reading, In, readable, None
    <3>2. UNCHANGED Fits(call.start)
      BY <2>1 DEF Fits, Required, cluster_size, Clusters
    <3>3. \A w, n : UNCHANGED Holds(w, n)
      BY <2>1, <2>4 DEF Holds, Intended
    <3>4. UNCHANGED FillingGap /\ UNCHANGED FillingSector
      BY <2>1, <3>2, <3>3 DEF FillingGap, FillingSector, Filled, In
    <3>5. UNCHANGED PuttingSector
      BY <2>1, <3>3 DEF PuttingSector, In, Promise!Greatest
    <3> QED BY <2>1, <3>1, <3>4, <3>5 DEF FilesInv, CallOK, Writing, In, Idle, writable
  <2> QED BY <2>2, <2>6, <2>7, <2>8 DEF FilesInv
<1> QED BY <1>1, <1>2

\* Whether the file is ruined is known.
LEMMA RuinedBoolean ==
    ASSUME ruined \in BOOLEAN, [Next]_vars
    PROVE  ruined' \in BOOLEAN
<1>1. UNCHANGED ruined => ruined' \in BOOLEAN
  BY Zenon
<1>2. ASSUME NEW size, ensure_size(size) PROVE ruined' \in BOOLEAN
  <2>1. ruined' = (size > Limit)
    BY <1>2 DEF ensure_size
  <2>2. (size > Limit) \in BOOLEAN
    BY SMT
  <2> DEFINE past == size > Limit
  <2>3. ruined' = past /\ past \in BOOLEAN
    BY <2>1, <2>2
  <2> HIDE DEF past
  <2> QED BY <2>3, Zenon
<1>3. \A size : ensure_size_fails(size) => UNCHANGED ruined
  BY DEF ensure_size_fails
<1>4. \A p, s, c : Grow(p, s, c) =>
         UNCHANGED ruined \/ \E size : ensure_size(size) \/ ensure_size_fails(size)
  BY DEF Grow
<1>5. CASE \/ \E m \in Modes : fat_open(m) \/ fat_openFails(m)
           \/ \E s \in Sources : fat_write(s)
           \/ ZeroRange \/ \E ok \in BOOLEAN : GapFilled(ok)
  <2>1. \A m \in Modes : fat_open(m) \/ fat_openFails(m) =>
           UNCHANGED ruined \/ \E size : ensure_size(size) \/ ensure_size_fails(size)
    BY DEF fat_open, fat_openFails
  <2>2. \A s \in Sources : fat_write(s) =>
           \/ UNCHANGED ruined \/ \E size : ensure_size(size) \/ ensure_size_fails(size)
           \/ \E p, r, c : Grow(p, r, c)
    BY DEF fat_write
  <2>3. ZeroRange \/ (\E ok \in BOOLEAN : GapFilled(ok)) =>
           UNCHANGED ruined \/ \E p, r, c : Grow(p, r, c)
    BY DEF ZeroRange, GapFilled
  <2> QED BY <1>1, <1>2, <1>3, <1>4, <1>5, <2>1, <2>2, <2>3
<1>6. CASE ensure_sizeRuins
  BY <1>6 DEF ensure_sizeRuins
<1>7. CASE UNCHANGED vars
  BY <1>1, <1>7 DEF vars
<1>8. CASE \/ fat_close \/ ReadSector \/ WriteSector
           \/ \E p \in Positions : fat_seek(p)
           \/ \E n \in Counts : fat_read(n)
           \/ \E ok \in BOOLEAN : OpenReturns(ok) \/ CloseReturns(ok) \/ WriteReturns(ok)
                                     \/ NestedReturns(ok)
  BY <1>1, <1>8 DEF fat_close, ReadSector, WriteSector, fat_seek, fat_read, OpenReturns,
     CloseReturns, WriteReturns, NestedReturns
<1> QED BY <1>5, <1>6, <1>7, <1>8 DEF Next

THEOREM FilesInvariant == Spec => []FilesOrRuined
<1>1. Init => FilesOrRuined
  <2>1. Init => ruined = FALSE
    BY DEF Init
  <2> QED BY <2>1, InitHolds DEF FilesOrRuined
<1>2. FilesOrRuined /\ [Next]_vars => FilesOrRuined'
  <2>1. SUFFICES ASSUME FilesOrRuined, [Next]_vars PROVE FilesOrRuined'
    OBVIOUS
  <2>2. ruined \in BOOLEAN /\ ruined' \in BOOLEAN
    BY <2>1, RuinedBoolean DEF FilesOrRuined
  <2>3. CASE ruined
    <3>1. UNCHANGED vars
      BY <2>1, <2>3 DEF Next
    <3>2. TypeOK'
      BY <2>1, <2>3, <3>1 DEF FilesOrRuined, TypeOK, vars, Clusters, Bytes, cluster_size, None,
                              Modes
    <3> QED BY <2>2, <2>3, <3>1, <3>2 DEF FilesOrRuined, vars
  <2>4. CASE ~ruined
    <3>1. FilesInv
      BY <2>1, <2>4 DEF FilesOrRuined
    <3>2. ~ruined' => FilesInv'
      BY <2>1, <3>1, StepKeeps
    <3>3. ruined' => TypeOK'
      <4>1. CASE UNCHANGED vars
        BY <2>4, <4>1 DEF vars
      <4> QED BY <2>1, <2>2, <2>4, <3>1, <4>1, RuinKeeps
    <3> QED BY <2>2, <3>2, <3>3 DEF FilesOrRuined
  <2> QED BY <2>3, <2>4
<1> QED BY <1>1, <1>2, PTL DEF Spec

-----------------------------------------------------------------------------
(* What follows from the invariant.                                        *)

\* Every variable of the model has its type, and the chain of an open file reaches
\* the end of its bytes, as long as the file is not ruined: a write that ends past
\* Limit frees its chain and sets its size, and an access to the table that fails may
\* leave any chain.  Nothing else separates the chain from the size, gaps and
\* truncations and refused writes included.
THEOREM FilesAreTyped == Spec => []TypeOK
<1>1. ASSUME FilesInv, ruined \in BOOLEAN PROVE TypeOK
  <2>1. Typed /\ DescriptorOK /\ CallOK
    BY <1>1 DEF FilesInv
  <2>2. data \in [Clusters -> [0 .. cluster_size - 1 -> Bytes]]
    BY <2>1 DEF Typed, DataOK
  <2>3. ToSet(chain) \subseteq Clusters /\ lost \subseteq Clusters
    BY <2>1, ToSetIs DEF Typed, ChainOK
  <2>4. /\ entry.first_cluster \in Clusters \cup {None} /\ entry.size \in Nat
        /\ fp.mode \in Modes \cup {"closed"}
        /\ writes \in 0 .. MaxWrites /\ errors \in 0 .. MaxErrors
    BY <2>1 DEF Typed, Descriptors
  <2>5. fp.mode # "closed" => fp.first_cluster = First(chain)
    <3>1. call.op = "open" => fp.first_cluster = First(chain)
      <4>1. call.op = "open" => chain = <<>> /\ fp = [Closed EXCEPT !.mode = fp.mode]
        BY <2>1 DEF CallOK, Opening
      <4> QED BY <4>1 DEF First, Closed
    <3> QED BY <2>1, <3>1 DEF DescriptorOK
  <2>6. Idle /\ fp.mode # "closed" => fp.size <= cluster_size * Len(chain)
    BY <2>1 DEF DescriptorOK, Idle
  <2> QED BY <1>1, <2>2, <2>3, <2>4, <2>5, <2>6 DEF TypeOK
<1>2. FilesOrRuined => TypeOK
  BY <1>1 DEF FilesOrRuined
<1> QED BY <1>2, FilesInvariant, PTL

\* A power cut at any access of a write leaves what CutKeepsFile says, on volumes
\* of any size and for any write that does not end past Limit: no byte of the file
\* that nobody wrote, and all its old bytes but those the write was to replace.
THEOREM CutAlwaysKeepsFile == Spec => []CutKeepsFile
<1>1. ASSUME FilesInv PROVE NothingStaleOnDisk
  BY <1>1, OnDiskIs DEF NothingStaleOnDisk
<1>2. ASSUME FilesInv, call.op = "write", errors = 0
      PROVE  CutKeepsOldBytes
  <2> DEFINE l == Len(call.before)
  <2>1. /\ Writing /\ call.start \in Nat /\ l \in Nat /\ Len(call.outer) \in Nat
        /\ Len(call.source) \in Nat /\ call.before \in Seq(Bytes)
    BY <1>2, WriteIs
  <2>2. fp.size \in Nat /\ fp.position \in Nat /\ entry.size \in Nat /\ Reachable
    BY <1>2, WriteIs, OpenIs
  <2>3. \E w \in 0 .. Len(call.outer) :
          /\ l <= entry.size
          /\ \A i \in 1 .. entry.size : ByteAt(i - 1) = Intended(call, w, i)
    <3>1. CASE In("gap")
      <4>1. FillingGap
        BY <2>1, <3>1 DEF Writing
      <4>2. l <= entry.size /\ \A i \in 1 .. entry.size : ByteAt(i - 1) = Intended(call, 0, i)
        BY <1>2, <4>1 DEF FillingGap, Filled, Holds
      <4>3. 0 \in 0 .. Len(call.outer)
        BY <2>1
      <4> HIDE DEF l
      <4> QED BY <4>2, <4>3
    <3>2. CASE ~In("gap") /\ call.nested
      <4>1. FillingSector
        BY <2>1, <3>2 DEF Writing
      <4>2. l <= entry.size /\ entry.size <= fp.position
            /\ \A i \in 1 .. fp.position : ByteAt(i - 1) = Intended(call, 0, i)
        BY <1>2, <4>1 DEF FillingSector, Filled, Holds
      <4>3. \A i \in 1 .. entry.size : i \in 1 .. fp.position
        BY <2>2, <4>2
      <4>4. 0 \in 0 .. Len(call.outer)
        BY <2>1
      <4> HIDE DEF l
      <4> QED BY <4>2, <4>3, <4>4
    <3>3. CASE ~In("gap") /\ ~call.nested
      <4> DEFINE w == fp.position - call.start
      <4>1. PuttingSector
        BY <2>1, <3>3 DEF Writing
      <4>2. /\ call.start <= fp.position /\ w + Len(call.source) = Len(call.outer)
            /\ \A i \in 1 .. Promise!Greatest(l, fp.position) : ByteAt(i - 1) = Intended(call, w, i)
            /\ entry.size = Promise!Greatest(l, call.start)
        BY <1>2, <4>1 DEF PuttingSector, Holds
      <4>3. w \in 0 .. Len(call.outer)
        BY <2>1, <2>2, <4>2
      <4>4. l <= entry.size /\ entry.size <= Promise!Greatest(l, fp.position)
            /\ Promise!Greatest(l, fp.position) \in Nat
        BY <2>1, <2>2, <4>2 DEF Promise!Greatest
      <4>5. \A i \in 1 .. entry.size : i \in 1 .. Promise!Greatest(l, fp.position)
        BY <2>2, <4>4
      <4> HIDE DEF w, l
      <4> QED BY <4>2, <4>3, <4>4, <4>5
    <3> QED BY <3>1, <3>2, <3>3
  <2>4. PICK w \in 0 .. Len(call.outer) :
          /\ l <= entry.size
          /\ \A i \in 1 .. entry.size : ByteAt(i - 1) = Intended(call, w, i)
    BY <2>3
  <2>5. entry.first_cluster = None => entry.size = 0
    BY <1>2 DEF FilesInv, DiskOK
  <2>6. Len(OnDisk) = entry.size /\ \A i \in 1 .. entry.size : OnDisk[i] = ByteAt(i - 1)
    BY <1>2, <2>2, <2>5, OnDiskIs
  <2>7. Len(OnDisk) >= l
    BY <2>1, <2>2, <2>4, <2>6
  <2>8. ASSUME NEW i \in DOMAIN call.before
        PROVE  \/ OnDisk[i] = call.before[i]
               \/ i > call.start /\ i <= call.start + Len(call.outer)
    <3>1. i \in 1 .. l
      BY <2>1, LenProperties
    <3>2. i \in 1 .. entry.size /\ i <= l
      BY <2>1, <2>2, <2>4, <3>1
    <3>3. OnDisk[i] = Intended(call, w, i)
      BY <2>4, <2>6, <3>2
    <3>4. i > call.start /\ i <= call.start + w => i <= call.start + Len(call.outer)
      BY <2>1, <3>1
    <3> QED BY <3>2, <3>3, <3>4 DEF Intended
  <2> QED BY <2>7, <2>8 DEF CutKeepsOldBytes
<1>3. FilesOrRuined => CutKeepsFile
  BY <1>1, <1>2 DEF CutKeepsFile, CutKeepsOldBytes, FilesOrRuined
<1> QED BY <1>3, FilesInvariant, PTL

-----------------------------------------------------------------------------
(* Every step is a step of Files, or none.                                 *)

\* What the file of Files is, in every state of a call.
LEMMA Mapped ==
    ASSUME ~ruined
    PROVE  /\ Idle /\ fp.mode # "closed" =>
                Content = Bytes1To(fp.size) /\ Position = fp.position /\ Mode = fp.mode
           /\ Idle /\ fp.mode = "closed" =>
                /\ Content = OnDisk /\ Position = IF Reachable THEN fp.position ELSE 0
                /\ Mode = IF Reachable THEN "closed" ELSE "lost"
           /\ call.op = "open" =>
                Content = call.before /\ Position = fp.position /\ Mode = "closed"
           /\ call.op = "close" =>
                Content = call.before /\ Position = fp.position /\ Mode = fp.mode
           /\ call.op \in {"read", "write"} =>
                Content = call.before /\ Position = call.start /\ Mode = fp.mode
BY DEF Content, Position, Mode, Lost, Idle, OnDisk

LEMMA MappedNext ==
    ASSUME ~ruined'
    PROVE  /\ Idle' /\ fp'.mode # "closed" =>
                Content' = Bytes1To(fp.size)' /\ Position' = fp'.position /\ Mode' = fp'.mode
           /\ Idle' /\ fp'.mode = "closed" =>
                /\ Content' = OnDisk' /\ Position' = IF Reachable' THEN fp'.position ELSE 0
                /\ Mode' = IF Reachable' THEN "closed" ELSE "lost"
           /\ call'.op = "open" =>
                Content' = call'.before /\ Position' = fp'.position /\ Mode' = "closed"
           /\ call'.op = "close" =>
                Content' = call'.before /\ Position' = fp'.position /\ Mode' = fp'.mode
           /\ call'.op \in {"read", "write"} =>
                Content' = call'.before /\ Position' = call'.start /\ Mode' = fp'.mode
BY DEF Content, Position, Mode, Lost, Idle, OnDisk

\* A file that is ruined is lost.
LEMMA MappedRuined ==
    ASSUME ruined'
    PROVE  Content' = <<>> /\ Position' = 0 /\ Mode' = "lost"
BY DEF Content, Position, Mode, Lost

\* A file that is open and that no call is using.
LEMMA MappedOpen ==
    ASSUME FilesInv, ~ruined, Idle, fp.mode # "closed"
    PROVE  /\ call = NoCall /\ call.op = "none" /\ fp \in Descriptors
           /\ Content = Bytes1To(fp.size) /\ Position = fp.position /\ Mode = fp.mode
           /\ Mode \in Promise!Modes
           /\ Promise!Readable(Mode) <=> readable
           /\ Promise!Writable(Mode) <=> writable
           /\ Content \in Seq(Bytes) /\ Len(Content) = fp.size
           /\ fp.size \in Nat /\ fp.position \in Nat
<1>1. call = NoCall /\ call.op = "none"
  BY DEF FilesInv, CallOK, Idle
<1>2. fp \in Descriptors /\ fp.size \in Nat /\ fp.position \in Nat
  BY <1>1, OpenIs
<1>3. Content = Bytes1To(fp.size) /\ Position = fp.position /\ Mode = fp.mode
  BY Mapped
<1>4. Content \in Seq(Bytes) /\ Len(Content) = fp.size
  BY <1>1, <1>3, NoStale
<1>5. Mode \in Promise!Modes
  BY <1>2, <1>3 DEF Descriptors, Modes, Promise!Modes
<1> QED BY <1>1, <1>2, <1>3, <1>4, <1>5
        DEF readable, writable, Promise!Readable, Promise!Writable

Simulated == [Promise!Next]_(Promise!vars)

LEMMA InitSimulated ==
    ASSUME Init
    PROVE  Promise!Init
<1>1. Idle /\ fp = Closed /\ entry.first_cluster = None /\ reply = <<>> /\ ~ruined
  BY DEF Init, Idle, NoCall
<1>2. Reachable /\ OnDisk = <<>>
  BY <1>1 DEF Reachable, OnDisk
<1> QED BY <1>1, <1>2, Mapped, CallsAre DEF Promise!Init

LEMMA SeekSimulated ==
    ASSUME FilesInv, FilesInv', ~ruined, ~ruined', NEW p \in Positions, fat_seek(p)
    PROVE  Simulated
<1>1. Idle /\ fp.mode # "closed" /\ UNCHANGED <<data, chain, reply>>
      /\ call' = call /\ fp' = [fp EXCEPT !.position = p]
  BY DEF fat_seek
<1>2. /\ call = NoCall /\ Content = Bytes1To(fp.size) /\ Position = fp.position /\ Mode = fp.mode
      /\ Mode \in Promise!Modes /\ fp \in Descriptors /\ fp.size \in Nat
  BY <1>1, MappedOpen
<1>3. fp'.mode = fp.mode /\ fp'.position = p /\ fp'.size = fp.size
  BY <1>1, <1>2 DEF Descriptors
<1>4. Bytes1To(fp.size)' = Bytes1To(fp.size)
  BY <1>1, <1>2, <1>3, SameFile
<1>5. Content' = Bytes1To(fp.size)' /\ Position' = fp'.position /\ Mode' = fp'.mode
  BY <1>1, <1>3, MappedNext DEF Idle
<1>6. Promise!Seek(p)
  BY <1>1, <1>2, <1>3, <1>4, <1>5 DEF Promise!Seek
<1> QED BY <1>6 DEF Promise!Next, Simulated

\* A read of a file at the position p gives n bytes or what is left of it.
LEMMA ReadSimulated ==
    ASSUME FilesInv, FilesInv', ~ruined, ~ruined', NEW n \in Counts, fat_read(n)
    PROVE  Simulated
<1> DEFINE rest == IF fp.position >= fp.size THEN 0 ELSE fp.size - fp.position
           q == Promise!Least(Position + n, Len(Content))
<1>1. Idle /\ fp.mode # "closed" /\ readable /\ UNCHANGED <<data, chain, fp>>
  BY DEF fat_read
<1>2. /\ call = NoCall /\ call.op = "none" /\ Content = Bytes1To(fp.size)
      /\ Position = fp.position /\ Mode = fp.mode
      /\ Mode \in Promise!Modes /\ fp \in Descriptors /\ fp.size \in Nat /\ fp.position \in Nat
      /\ Promise!Readable(Mode) /\ Content \in Seq(Bytes) /\ Len(Content) = fp.size
  BY <1>1, MappedOpen
<1>3. Bytes1To(fp.size)' = Bytes1To(fp.size)
  BY <1>1, <1>2, SameFile
<1>4. CASE rest = 0
  <2>1. reply' = <<>> /\ call' = call
    BY <1>4 DEF fat_read
  <2>2. Content' = Content /\ Position' = Position /\ Mode' = Mode
    BY <1>1, <1>2, <1>3, <2>1, MappedNext DEF Idle
  <2>3. n \in Nat
    BY FilesAssumption
  <2>4. q \in Int /\ q < Position + 1 /\ Position + 1 \in Int /\ Position \in Nat
    BY <1>2, <1>4, <2>3 DEF Promise!Least
  <2>5. SubSeq(Content, Position + 1, q) = <<>>
    <3> HIDE DEF q
    <3> QED BY <2>4, SubSeqEmpty
  <2>6. Position' = Position + Len(reply')
    BY <2>1, <2>2, <2>4
  <2> HIDE DEF rest
  <2>7. Promise!Read(n)
    BY <1>2, <2>1, <2>2, <2>5, <2>6 DEF Promise!Read
  <2> QED BY <2>7 DEF Promise!Next, Simulated
<1>5. CASE rest # 0
  <2>1. reply' = reply
        /\ \E r : call' = [NoCall EXCEPT !.op = "read", !.at = "sector", !.requested = r,
                     !.start = fp.position, !.before = Bytes1To(fp.size)]
    BY <1>5 DEF fat_read
  <2>2. call'.op = "read" /\ call'.before = Bytes1To(fp.size) /\ call'.start = fp.position
    BY <2>1 DEF NoCall
  <2>3. Content' = Content /\ Position' = Position /\ Mode' = Mode
    BY <1>1, <1>2, <2>2, MappedNext
  <2> QED BY <2>1, <2>3 DEF Simulated, Promise!vars
<1> QED BY <1>4, <1>5

\* What SubSeq(s, a, q) is, element by element.
IsPart(u, S, s, a, q) ==
    /\ u \in Seq(S) /\ Len(u) = IF a <= q THEN q - a + 1 ELSE 0
    /\ \A i \in 1 .. q - a + 1 : u[i] = s[a + i - 1]

LEMMA PartOf ==
    ASSUME NEW S, NEW s, NEW a \in Int, NEW q \in Int, \A i \in a .. q : s[i] \in S
    PROVE  IsPart(SubSeq(s, a, q), S, s, a, q)
BY SubSeqProperties DEF IsPart

\* A sequence of which every byte is that of another, from a position on.
LEMMA PartIs ==
    ASSUME NEW S, NEW s \in Seq(S), NEW t \in Seq(S), NEW p \in Nat, NEW q, q = p + Len(t),
           q <= Len(s), \A i \in 1 .. Len(t) : t[i] = s[p + i]
    PROVE  t = SubSeq(s, p + 1, q)
<1> DEFINE u == SubSeq(s, p + 1, q)
<1>1. Len(t) \in Nat /\ Len(s) \in Nat /\ q \in Nat /\ p + 1 \in Int /\ q \in Int
  BY LenProperties
<1>2. \A i \in p + 1 .. q : s[i] \in S
  <2>1. \A i \in p + 1 .. q : i \in 1 .. Len(s)
    BY <1>1
  <2> QED BY <2>1, ElementOfSeq
<1>3. /\ u \in Seq(S) /\ Len(u) = IF p + 1 <= q THEN q - (p + 1) + 1 ELSE 0
      /\ \A i \in 1 .. q - (p + 1) + 1 : u[i] = s[(p + 1) + i - 1]
  <2> DEFINE a == p + 1
  <2>1. a \in Int /\ q \in Int /\ \A i \in a .. q : s[i] \in S
    BY <1>1, <1>2
  <2>2. u = SubSeq(s, a, q)
    OBVIOUS
  <2> HIDE DEF a, u
  <2>3. IsPart(u, S, s, a, q)
    BY <2>1, <2>2, PartOf
  <2> QED BY <2>3 DEF IsPart, a
<1> HIDE DEF u
<1>4. Len(u) = Len(t)
  BY <1>1, <1>3
<1>5. \A i \in 1 .. Len(t) : t[i] = u[i]
  <2>1. \A i \in 1 .. Len(t) : i \in 1 .. q - (p + 1) + 1 /\ (p + 1) + i - 1 = p + i
    BY <1>1
  <2> QED BY <1>3, <2>1
<1>6. t = u
  BY <1>3, <1>4, <1>5, SeqEqual
<1> QED BY <1>6 DEF u

\* The bytes of the file of Files between two calls.
Stands ==
    /\ Idle /\ fp.mode # "closed" =>
          /\ Content \in Seq(Bytes) /\ Len(Content) = fp.size
          /\ \A i \in 1 .. fp.size : Content[i] = ByteAt(i - 1)
    /\ Idle /\ fp.mode = "closed" =>
          LET n == IF entry.first_cluster # None /\ Reachable THEN entry.size ELSE 0
          IN  /\ Content \in Seq(Bytes) /\ Len(Content) = n
              /\ \A i \in 1 .. n : Content[i] = ByteAt(i - 1)

LEMMA StandsAlways == FilesInv /\ ~ruined => Stands
<1> SUFFICES ASSUME FilesInv, ~ruined PROVE Stands
  OBVIOUS
<1>1. ASSUME Idle, fp.mode # "closed"
      PROVE  /\ Content \in Seq(Bytes) /\ Len(Content) = fp.size
             /\ \A i \in 1 .. fp.size : Content[i] = ByteAt(i - 1)
  BY <1>1, MappedOpen, BytesAre
<1>2. ASSUME Idle, fp.mode = "closed"
      PROVE  LET n == IF entry.first_cluster # None /\ Reachable THEN entry.size ELSE 0
             IN  /\ Content \in Seq(Bytes) /\ Len(Content) = n
                 /\ \A i \in 1 .. n : Content[i] = ByteAt(i - 1)
  BY <1>2, Mapped, OnDiskIs
<1> QED BY <1>1, <1>2 DEF Stands

LEMMA StandsNext == (FilesInv /\ ~ruined => Stands)'
BY StandsAlways, PTL

LEMMA ReadGoesOnSimulated ==
    ASSUME FilesInv, FilesInv', ~ruined, ~ruined', ReadSector
    PROVE  Simulated
<1> DEFINE p == call.start + Len(call.source)
           n == InSector(p, call.requested)
           got == call.source \o [i \in 1 .. n |-> ByteAt(p + i - 1)]
<1>1. call.op = "read" /\ UNCHANGED <<data, chain, lost, entry, writes>>
  BY DEF ReadSector
<1>2. Reading /\ fp.mode # "closed" /\ readable
  BY <1>1 DEF FilesInv, CallOK, Reading
<1>3. fp \in Descriptors /\ fp.size \in Nat /\ ChainOK /\ DataOK /\ fp.size <= cluster_size * Len(chain)
      /\ call.source \in Seq(Bytes) /\ call.start \in Nat /\ call \in Calls
      /\ call.requested \in Nat /\ Len(call.source) \in Nat /\ call.before \in Seq(Bytes)
  BY <1>1, <1>2, OpenIs, LenProperties
<1>4. /\ n \in 0 .. call.requested /\ got \in Seq(Bytes) /\ Len(got) = Len(call.source) + n
      /\ \A i \in 1 .. Len(got) : got[i] = call.before[call.start + i]
  BY <1>1, GotIs
<1>5. \/ /\ call' = [call EXCEPT !.source = got, !.requested = @ - n] /\ UNCHANGED <<fp, reply>>
      \/ /\ call' = NoCall /\ reply' = got /\ fp' = [fp EXCEPT !.position = call.start + Len(got)]
         /\ ~(n < call.requested)
      \/ /\ Fail \/ (NoFail /\ cluster_at(p) = None)
         /\ call' = NoCall /\ reply' = call.source /\ fp' = [fp EXCEPT !.position = p]
  BY DEF ReadSector, Return
<1> HIDE DEF got, n
<1>6. /\ Content = call.before /\ Position = call.start /\ Mode = fp.mode
      /\ Mode \in Promise!Modes /\ Promise!Readable(Mode)
  BY <1>1, <1>2, <1>3, Mapped DEF Descriptors, Modes, Promise!Modes, readable, Promise!Readable
<1>7. /\ Len(call.before) = fp.size /\ call.before = Bytes1To(fp.size)
      /\ call.start + Len(call.source) + call.requested <= fp.size
      /\ \A i \in 1 .. Len(call.source) : call.source[i] = call.before[call.start + i]
  BY <1>2, <1>3, BytesAre DEF Reading
<1>8. PICK m \in Counts : Len(call.source) + call.requested = Promise!Least(m, fp.size - call.start)
  BY <1>2 DEF Reading
<1>9. m \in Nat
  BY FilesAssumption
<1>10. ASSUME NEW t \in Seq(Bytes), call.start + Len(t) <= fp.size,
              \A i \in 1 .. Len(t) : t[i] = call.before[call.start + i],
              call' = NoCall, fp' = [fp EXCEPT !.position = call.start + Len(t)]
       PROVE  /\ t = SubSeq(call.before, call.start + 1, call.start + Len(t))
              /\ Content' = Content /\ Mode' = Mode /\ Position' = call.start + Len(t)
  <2>1. t = SubSeq(call.before, call.start + 1, call.start + Len(t))
    <3> DEFINE q == call.start + Len(t)
               b == call.before
               s == call.start
    <3>1. b \in Seq(Bytes) /\ s \in Nat /\ q = s + Len(t) /\ q <= Len(b)
          /\ \A i \in 1 .. Len(t) : t[i] = b[s + i]
      BY <1>3, <1>7, <1>10
    <3> HIDE DEF q, b, s
    <3>2. t = SubSeq(b, s + 1, q)
      BY <3>1, PartIs
    <3> QED BY <3>2 DEF q, b, s
  <2>2. fp'.mode = fp.mode /\ fp'.size = fp.size /\ fp'.position = call.start + Len(t)
    BY <1>3, <1>10 DEF Descriptors
  <2>3. Bytes1To(fp.size)' = Bytes1To(fp.size)
    BY <1>1, <1>3, <2>2, SameFile
  <2> QED BY <1>2, <1>6, <1>7, <1>10, <2>1, <2>2, <2>3, MappedNext, CallsAre DEF Idle
<1>11. CASE call' = [call EXCEPT !.source = got, !.requested = @ - n] /\ UNCHANGED <<fp, reply>>
  <2>1. call'.op = "read" /\ call'.before = call.before /\ call'.start = call.start
    BY <1>1, <1>3, <1>11 DEF Calls
  <2> QED BY <1>6, <1>11, <2>1, MappedNext DEF Simulated, Promise!vars
<1> DEFINE Gives(t) ==
      /\ call' = NoCall /\ reply' = t /\ fp' = [fp EXCEPT !.position = call.start + Len(t)]
<1>12. ASSUME NEW t \in Seq(Bytes), Gives(t), Len(t) = Len(call.source) + call.requested,
              \A i \in 1 .. Len(t) : t[i] = call.before[call.start + i]
       PROVE  Simulated
  <2> DEFINE l == Len(call.source)
             b == call.start
             q == call.requested
  <2>1. l \in Nat /\ b \in Nat /\ q \in Nat /\ b + l + q <= fp.size /\ fp.size \in Nat
        /\ Len(t) = l + q /\ l + q = Promise!Least(m, fp.size - b)
    BY <1>3, <1>7, <1>8, <1>12
  <2> HIDE DEF l, q, b
  <2>2. b + Len(t) <= fp.size /\ b + Len(t) = Promise!Least(b + m, fp.size)
    BY <1>9, <2>1 DEF Promise!Least
  <2> USE DEF b
  <2>3. /\ t = SubSeq(call.before, call.start + 1, call.start + Len(t))
        /\ Content' = Content /\ Mode' = Mode /\ Position' = call.start + Len(t)
    BY <1>10, <1>12, <2>2
  <2>4. Promise!Read(m)
    BY <1>6, <1>7, <1>12, <2>2, <2>3 DEF Promise!Read
  <2> QED BY <2>4 DEF Promise!Next, Simulated
<1>13. CASE call' = NoCall /\ reply' = got /\ fp' = [fp EXCEPT !.position = call.start + Len(got)]
            /\ ~(n < call.requested)
  <2>1. Len(got) = Len(call.source) + call.requested
    BY <1>3, <1>4, <1>13
  <2> QED BY <1>4, <1>12, <1>13, <2>1
<1>14. CASE /\ Fail \/ (NoFail /\ cluster_at(p) = None)
            /\ call' = NoCall /\ reply' = call.source /\ fp' = [fp EXCEPT !.position = p]
  <2>1. CASE call.requested = 0
    <3>1. Len(call.source) = Len(call.source) + call.requested
      BY <1>3, <2>1
    <3> QED BY <1>3, <1>7, <1>12, <1>14, <3>1
  <2>2. CASE call.requested # 0
    <3> DEFINE l == Len(call.source)
               b == call.start
               q == call.requested
    <3>1. /\ l \in Nat /\ b \in Nat /\ q \in Nat /\ b + l + q <= fp.size /\ fp.size \in Nat
          /\ l + q = Promise!Least(m, fp.size - b) /\ q # 0 /\ p = b + l
      BY <1>3, <1>7, <1>8, <2>2
    <3> HIDE DEF l, q, b, p
    <3>2. /\ l \in 0 .. m - 1 /\ b + l <= fp.size /\ b + l = Promise!Least(b + l, fp.size)
          /\ p \in Nat /\ p < fp.size
      BY <1>9, <3>1 DEF Promise!Least
    <3>3. p < cluster_size * Len(chain)
      BY <1>3, <3>1, <3>2, ClusterSize, Rooms, Product
    <3>4. cluster_at(p) # None
      <4>1. p \div cluster_size + 1 \in 1 .. Len(chain)
        <5> DEFINE c == Len(chain)
                   d == p \div cluster_size
        <5>1. c \in Nat /\ p < cluster_size * c
          BY <1>3, <3>3, Rooms
        <5> HIDE DEF c
        <5>2. d \in Nat /\ d + 1 <= c
          BY <3>2, <5>1, InClusters
        <5> HIDE DEF d
        <5>3. d + 1 \in 1 .. c
          BY <5>1, <5>2
        <5> QED BY <5>3 DEF c, d
      <4>2. chain \in Seq(Clusters)
        BY <1>3 DEF ChainOK
      <4> DEFINE i == p \div cluster_size + 1
      <4>3. chain[i] \in Clusters
        <5> HIDE DEF i
        <5> QED BY <4>1, <4>2, ElementOfSeq DEF i
      <4>4. cluster_at(p) = chain[i]
        BY <4>1 DEF cluster_at
      <4> QED BY <4>3, <4>4 DEF Clusters, None
    <3>5. MaxErrors > 0
      <4>1. errors \in Nat
        BY DEF FilesInv, Typed
      <4> QED BY <1>14, <3>4, <4>1, FilesAssumption DEF Fail
    <3>6. /\ call.source = SubSeq(call.before, call.start + 1, call.start + Len(call.source))
          /\ Content' = Content /\ Mode' = Mode /\ Position' = call.start + Len(call.source)
      <4>1. call.start + Len(call.source) <= fp.size
        BY <3>2 DEF b, l
      <4> QED BY <1>3, <1>7, <1>10, <1>14, <4>1 DEF p
    <3>7. Promise!ReadCut(m)
      <4>1. Len(call.source) \in 0 .. m - 1
        BY <3>2 DEF l
      <4>2. reply' = SubSeq(Content, Position + 1, Promise!Least(Position + Len(call.source), Len(Content)))
        BY <1>6, <1>7, <1>14, <3>2, <3>6 DEF l, b
      <4>3. Position' = Position + Len(reply')
        BY <1>6, <1>14, <3>6
      <4> QED BY <1>6, <3>5, <3>6, <4>1, <4>2, <4>3 DEF Promise!ReadCut
    <3> QED BY <3>7 DEF Promise!Next, Simulated
  <2> QED BY <2>1, <2>2
<1> QED BY <1>5, <1>11, <1>13, <1>14

\* The entry leads to the bytes of the file when it says what the descriptor does.
LEMMA CloseSimulated ==
    ASSUME FilesInv, FilesInv', ~ruined, ~ruined', fat_close
    PROVE  Simulated
<1>1. Idle /\ fp.mode # "closed" /\ UNCHANGED <<data, chain, lost, entry, reply>>
      /\ IF writable THEN /\ call' = [NoCall EXCEPT !.op = "close", !.at = "entry",
                                                   !.before = Bytes1To(fp.size)]
                          /\ fp' = fp
         ELSE fp' = Closed /\ call' = call
  BY DEF fat_close
<1>2. /\ call = NoCall /\ call.op = "none" /\ Content = Bytes1To(fp.size)
      /\ Position = fp.position /\ Mode = fp.mode
      /\ Mode \in Promise!Modes /\ fp \in Descriptors /\ fp.size \in Nat
      /\ Content \in Seq(Bytes) /\ Len(Content) = fp.size
  BY <1>1, MappedOpen
<1>3. CASE writable
  <2>1. call'.op = "close" /\ call'.before = Bytes1To(fp.size) /\ fp' = fp
    BY <1>1, <1>3 DEF NoCall
  <2> QED BY <1>1, <1>2, <2>1, MappedNext DEF Simulated, Promise!vars
<1>4. CASE ~writable
  <2>1. fp' = Closed /\ call' = call
    BY <1>1, <1>4
  <2>2. fp.mode = "r" /\ entry = Updated /\ Reachable /\ fp.first_cluster = First(chain)
        /\ fp.size <= cluster_size * Len(chain) /\ ChainOK
    <3>1. fp.mode \in Modes \cup {"closed"}
      BY <1>2 DEF Descriptors
    <3> QED BY <1>1, <1>2, <1>4, <3>1, OpenIs DEF writable, Modes
  <2>3. OnDisk = Bytes1To(fp.size)
    <3>1. CASE entry.first_cluster # None
      BY <2>2, <3>1 DEF OnDisk, Updated
    <3>2. CASE entry.first_cluster = None
      <4>1. entry.size = 0 /\ entry.size = fp.size
        BY <2>2, <3>2 DEF FilesInv, DiskOK, Updated
      <4>2. OnDisk = <<>>
        BY <3>2 DEF OnDisk
      <4> QED BY <1>2, <4>1, <4>2, EmptySeq
    <3> QED BY <3>1, <3>2
  <2>4. OnDisk' = OnDisk /\ Reachable'
    BY <1>1, <2>2 DEF OnDisk, Reachable, Bytes1To, ByteAt, cluster_at, cluster_size, None, First
  <2>5. Content' = OnDisk' /\ Position' = 0 /\ Mode' = "closed"
    BY <1>1, <2>1, <2>4, CallsAre, MappedNext DEF Idle
  <2>6. Promise!Close
    BY <1>1, <1>2, <2>3, <2>4, <2>5 DEF Promise!Close
  <2> QED BY <2>6 DEF Promise!Next, Simulated
<1> QED BY <1>3, <1>4

LEMMA CloseEndsSimulated ==
    ASSUME FilesInv, FilesInv', ~ruined, ~ruined', NEW ok \in BOOLEAN, CloseReturns(ok)
    PROVE  Simulated
<1>1. /\ call.op = "close" /\ WriteEntry(ok) /\ call' = NoCall /\ fp' = Closed
      /\ UNCHANGED <<data, chain, lost, reply>>
  BY DEF CloseReturns
<1>2. Closing
  BY <1>1 DEF FilesInv, CallOK
<1>3. fp.mode # "closed" /\ call.before = Bytes1To(fp.size)
  BY <1>2 DEF Closing
<1>4. /\ fp.first_cluster = First(chain) /\ Reachable /\ ChainOK /\ DataOK /\ fp \in Descriptors
      /\ fp.size <= cluster_size * Len(chain) /\ entry.size <= fp.size
      /\ fp.size \in Nat /\ entry.size \in Nat
  BY <1>1, <1>3, OpenIs
<1>5. /\ Content = call.before /\ Mode = fp.mode /\ Mode \in Promise!Modes
      /\ Content \in Seq(Bytes) /\ Len(Content) = fp.size
      /\ \A i \in 1 .. fp.size : Content[i] = ByteAt(i - 1)
  <2>1. Content = call.before /\ Mode = fp.mode
    BY <1>1, Mapped
  <2>2. Mode \in Promise!Modes
    BY <1>3, <1>4, <2>1 DEF Descriptors, Modes, Promise!Modes
  <2>3. Content = Bytes1To(fp.size)
    BY <1>3, <2>1
  <2> QED BY <1>4, <2>1, <2>2, <2>3, BytesAre
<1>6. Idle' /\ fp'.mode = "closed" /\ fp'.position = 0
  BY <1>1, CallsAre DEF Idle
<1>7. Reachable'
  BY <1>1, <1>4 DEF WriteEntry, Updated, Reachable, None, First
<1>8. Position' = 0 /\ Mode' = "closed"
  BY <1>6, <1>7, MappedNext
<1>9. \A p \in Nat : ByteAt(p)' = ByteAt(p)
  BY <1>1, SameBytes
<1> DEFINE m == IF entry'.first_cluster # None THEN entry'.size ELSE 0
<1>10. /\ Content' \in Seq(Bytes) /\ Len(Content') = m
       /\ \A i \in 1 .. m : Content'[i] = ByteAt(i - 1)'
  BY <1>6, <1>7, StandsNext DEF Stands, Bytes, None
<1>11. m \in Nat /\ m <= fp.size /\ (ok => m = fp.size)
  <2>1. CASE ok
    <3>1. entry' = Updated
      BY <1>1, <2>1 DEF WriteEntry
    <3>2. CASE First(chain) = None
      <4>1. Len(chain) = 0
        BY <1>4, <3>2, FirstIs DEF ChainOK
      <4>2. fp.size = 0
        BY <1>4, <4>1, ClusterSize
      <4> QED BY <3>1, <4>2 DEF Updated
    <3>3. CASE First(chain) # None
      BY <1>4, <3>1, <3>3 DEF Updated
    <3> QED BY <3>2, <3>3
  <2>2. CASE ~ok
    BY <1>1, <1>4, <2>2 DEF WriteEntry
  <2> QED BY <2>1, <2>2
<1> HIDE DEF m
<1>12. \A i \in 1 .. m : Content'[i] = Content[i]
  <2>1. \A i \in 1 .. m : i - 1 \in Nat /\ i \in 1 .. fp.size
    BY <1>4, <1>11
  <2> QED BY <1>5, <1>9, <1>10, <2>1
<1>13. CASE ok
  <2>1. Content' = Content
    BY <1>5, <1>10, <1>11, <1>12, <1>13, SeqEqual
  <2>2. Promise!Close
    BY <1>1, <1>5, <1>8, <2>1 DEF Promise!Close
  <2> QED BY <2>2 DEF Promise!Next, Simulated
<1>14. CASE ~ok
  <2>1. MaxErrors > 0
    <3>1. errors \in Nat /\ Fail
      BY <1>1, <1>14 DEF FilesInv, Typed, WriteEntry
    <3> QED BY <3>1, FilesAssumption DEF Fail
  <2>2. Content' = SubSeq(Content, 1, m)
    <3> DEFINE s == Content
               t == Content'
    <3>1. s \in Seq(Bytes) /\ t \in Seq(Bytes) /\ m = 0 + Len(t) /\ m <= Len(s)
          /\ \A i \in 1 .. Len(t) : t[i] = s[0 + i]
      BY <1>5, <1>10, <1>11, <1>12
    <3> HIDE DEF s, t
    <3>2. t = SubSeq(s, 0 + 1, m)
      BY <3>1, PartIs
    <3> QED BY <3>2 DEF s, t
  <2>3. m \in 0 .. Len(Content)
    BY <1>4, <1>5, <1>11
  <2>4. Promise!CloseFails
    BY <1>1, <1>5, <1>8, <2>1, <2>2, <2>3 DEF Promise!CloseFails
  <2> QED BY <2>4 DEF Promise!Next, Simulated
<1> QED BY <1>13, <1>14

LEMMA OpenSimulated ==
    ASSUME FilesInv, FilesInv', ~ruined, ~ruined', NEW m \in Modes, fat_open(m)
    PROVE  Simulated
<1>1. /\ Idle /\ fp.mode = "closed" /\ Reachable /\ UNCHANGED <<entry, reply>>
  BY DEF fat_open
<1>2. fp = Closed /\ call = NoCall
  BY <1>1 DEF FilesInv, DescriptorOK
<1>3. Content = OnDisk /\ Position = 0 /\ Mode = "closed"
  BY <1>1, <1>2, Mapped, CallsAre
<1> DEFINE n == IF entry.first_cluster # None THEN entry.size ELSE 0
<1>4. /\ Content \in Seq(Bytes) /\ Len(Content) = n
      /\ \A i \in 1 .. n : Content[i] = ByteAt(i - 1)
  BY <1>1, StandsAlways DEF Stands
<1>5. n = entry.size /\ n \in Nat
  BY DEF FilesInv, DiskOK, Typed
<1> HIDE DEF n
<1>6. CASE m \in {"r", "a", "a+"}
  <2>1. /\ fp' = [mode |-> m, first_cluster |-> entry.first_cluster, size |-> entry.size,
                  position |-> IF m = "r" THEN 0 ELSE entry.size]
        /\ chain' = IF entry.first_cluster = None THEN <<>> ELSE chain
        /\ UNCHANGED <<data, call>>
    BY <1>6 DEF fat_open
  <2>2. fp'.mode = m /\ fp'.size = n /\ fp'.position = (IF m = "r" THEN 0 ELSE n)
        /\ m # "closed" /\ Idle'
    BY <1>1, <1>5, <1>6, <2>1 DEF Idle
  <2>3. Position' = (IF m = "r" THEN 0 ELSE n) /\ Mode' = m
    BY <2>2, MappedNext
  <2>4. /\ Content' \in Seq(Bytes) /\ Len(Content') = n
        /\ \A i \in 1 .. n : Content'[i] = ByteAt(i - 1)'
    BY <2>2, StandsNext DEF Stands, Bytes
  <2>5. \A i \in 1 .. n : Content'[i] = Content[i]
    <3>1. CASE entry.first_cluster = None
      BY <3>1 DEF n
    <3>2. CASE entry.first_cluster # None
      <4>1. \A p \in Nat : ByteAt(p)' = ByteAt(p)
        BY <2>1, <3>2, SameBytes
      <4>2. \A i \in 1 .. n : i - 1 \in Nat
        BY <1>5
      <4> QED BY <1>4, <2>4, <4>1, <4>2
    <3> QED BY <3>1, <3>2
  <2>6. Content' = Content
    BY <1>4, <2>4, <2>5, SeqEqual
  <2>7. Promise!Open(m)
    BY <1>1, <1>3, <1>4, <1>6, <2>3, <2>6 DEF Promise!Open
  <2>8. m \in Promise!Modes
    BY <1>6 DEF Promise!Modes
  <2> QED BY <2>7, <2>8 DEF Promise!Next, Simulated
<1>7. CASE m \in {"w", "w+"}
  <2>1. /\ fp' = [Closed EXCEPT !.mode = m]
        /\ call' = [NoCall EXCEPT !.op = "open", !.at = "entry", !.before = OnDisk]
    BY <1>7 DEF fat_open
  <2>2. fp'.position = 0 /\ call'.op = "open" /\ call'.before = OnDisk
    BY <2>1 DEF Closed, NoCall
  <2> QED BY <1>1, <1>3, <2>2, MappedNext DEF Simulated, Promise!vars
<1> QED BY <1>6, <1>7 DEF Modes

LEMMA OpenRefusedSimulated ==
    ASSUME NEW m \in Modes, fat_openFails(m)
    PROVE  Simulated
<1>1. UNCHANGED <<data, chain, lost, entry, fp, call, reply, ruined>>
  BY DEF fat_openFails, ensure_size_fails
<1>2. UNCHANGED <<Content, Position, Mode>>
  BY <1>1 DEF Content, Position, Mode, Lost, Idle, OnDisk, Reachable, Bytes1To, ByteAt, cluster_at,
              cluster_size, None, First
<1> QED BY <1>1, <1>2 DEF Simulated, Promise!vars

LEMMA OpenEndsSimulated ==
    ASSUME FilesInv, FilesInv', ~ruined, ~ruined', NEW ok \in BOOLEAN, OpenReturns(ok)
    PROVE  Simulated
<1>1. /\ call.op = "open" /\ WriteEntry(ok) /\ call' = NoCall
      /\ fp' = IF ok THEN fp ELSE Closed
      /\ UNCHANGED <<data, chain, lost, reply>>
  BY DEF OpenReturns
<1>2. /\ fp.mode \in {"w", "w+"} /\ chain = <<>> /\ fp = [Closed EXCEPT !.mode = fp.mode]
      /\ entry.first_cluster = None => call.before = <<>>
  BY <1>1 DEF FilesInv, CallOK, Opening
<1>3. fp.position = 0 /\ fp.size = 0 /\ Closed.mode = "closed" /\ Closed.position = 0
  BY <1>2 DEF Closed
<1>4. Content = call.before /\ Position = 0 /\ Mode = "closed"
  BY <1>1, <1>3, Mapped
<1>5. Idle'
  BY <1>1, CallsAre DEF Idle
<1>6. CASE ok
  <2>1. fp' = fp
    BY <1>1, <1>6
  <2>2. Position' = 0 /\ Mode' = fp.mode
    BY <1>2, <1>3, <1>5, <2>1, MappedNext
  <2>3. Content' \in Seq(Bytes) /\ Len(Content') = 0
    BY <1>2, <1>3, <1>5, <2>1, StandsNext DEF Stands, Bytes
  <2>4. Content' = <<>>
    BY <2>3, EmptySeq
  <2>5. Promise!Open(fp.mode) /\ fp.mode \in Promise!Modes
    BY <1>1, <1>2, <1>4, <2>2, <2>4 DEF Promise!Open, Promise!Modes
  <2> QED BY <2>5 DEF Promise!Next, Simulated
<1>7. CASE ~ok
  <2>1. fp' = Closed /\ entry' = entry /\ Fail
    BY <1>1, <1>7 DEF WriteEntry
  <2>2. Content' = OnDisk' /\ Position' = 0 /\ Mode' = IF Reachable' THEN "closed" ELSE "lost"
    BY <1>3, <1>5, <2>1, MappedNext
  <2>3. First(chain') = None
    BY <1>1, <1>2 DEF First
  <2>4. CASE entry.first_cluster = None
    <3>1. Reachable' /\ OnDisk' = <<>>
      BY <2>1, <2>4 DEF Reachable, OnDisk, None
    <3> QED BY <1>1, <1>2, <1>4, <2>2, <2>4, <3>1 DEF Simulated, Promise!vars
  <2>5. CASE entry.first_cluster # None
    <3>1. ~Reachable' /\ OnDisk' = <<>>
      BY <2>1, <2>3, <2>5 DEF Reachable, OnDisk, None
    <3>2. MaxErrors > 0
      <4>1. errors \in Nat
        BY DEF FilesInv, Typed
      <4> QED BY <2>1, <4>1, FilesAssumption DEF Fail
    <3>3. Promise!OpenFails
      BY <1>1, <1>4, <2>2, <3>1, <3>2 DEF Promise!OpenFails, Promise!Lose
    <3> QED BY <3>3 DEF Promise!Next, Simulated
  <2> QED BY <2>4, <2>5
<1> QED BY <1>6, <1>7

\* o is the bytes s of a file with the bytes t put in at the position p.
HasBytes(o, s, p, t) ==
    /\ o \in Seq(Bytes) /\ Len(o) = Promise!Greatest(Len(s), p + Len(t)) /\ Len(o) \in Nat
    /\ \A i \in 1 .. Len(o) :
          o[i] = IF i > p /\ i <= p + Len(t) THEN t[i - p]
                 ELSE IF i <= Len(s) THEN s[i] ELSE Zero

LEMMA OverwrittenIs ==
    ASSUME NEW s \in Seq(Bytes), NEW p \in Nat, NEW t \in Seq(Bytes)
    PROVE  HasBytes(Promise!Overwritten(s, p, t), s, p, t)
<1> DEFINE o == Promise!Overwritten(s, p, t)
           k == Len(s)
           m == Len(t)
           n == Promise!Greatest(k, p + m)
<1>1. k \in Nat /\ m \in Nat
  BY LenProperties
<1>2. n \in Nat
  BY <1>1 DEF Promise!Greatest
<1>3. /\ o = [i \in 1 .. n |-> IF i > p /\ i <= p + m THEN t[i - p]
                               ELSE IF i <= k THEN s[i] ELSE Zero]
  BY DEF Promise!Overwritten
<1> HIDE DEF o
<1>4. Zero \in Bytes /\ (\A i \in 1 .. m : t[i] \in Bytes) /\ (\A i \in 1 .. k : s[i] \in Bytes)
  BY <1>1, ElementOfSeq DEF Bytes
<1> HIDE DEF k, m, n
<1>5. \A i \in 1 .. n : o[i] = IF i > p /\ i <= p + m THEN t[i - p]
                               ELSE IF i <= k THEN s[i] ELSE Zero
  BY <1>3
<1>6. \A i \in 1 .. n : o[i] \in Bytes
  <2>1. TAKE i \in 1 .. n
  <2>2. CASE i > p /\ i <= p + m
    <3>1. i - p \in 1 .. m
      BY <1>1, <1>2, <2>2
    <3> QED BY <1>4, <1>5, <2>2, <3>1
  <2>3. CASE ~(i > p /\ i <= p + m) /\ i <= k
    <3>1. i \in 1 .. k
      BY <1>1, <1>2, <2>3
    <3> QED BY <1>4, <1>5, <2>3, <3>1
  <2>4. CASE ~(i > p /\ i <= p + m) /\ ~(i <= k)
    BY <1>4, <1>5, <2>4
  <2> QED BY <2>2, <2>3, <2>4
<1>7. o = [i \in 1 .. n |-> o[i]]
  BY <1>3, <1>5
<1>8. o \in Seq(Bytes) /\ Len(o) = n
  BY <1>2, <1>6, <1>7, SequenceOf
<1>9. Promise!Greatest(k, p + m) = n
  BY DEF n
<1>10. HasBytes(o, s, p, t)
  BY <1>2, <1>5, <1>8, <1>9 DEF HasBytes, k, m
<1> QED BY <1>10 DEF o

LEMMA ZerosAre ==
    ASSUME NEW s \in Seq(Bytes), NEW k \in Nat, Len(s) <= k
    PROVE  /\ Promise!Overwritten(s, k, <<>>) \in Seq(Bytes)
           /\ Len(Promise!Overwritten(s, k, <<>>)) = k
           /\ \A i \in 1 .. k : Promise!Overwritten(s, k, <<>>)[i] =
                 IF i <= Len(s) THEN s[i] ELSE Zero
<1> DEFINE t == <<>>
<1>1. t \in Seq(Bytes) /\ Len(t) = 0 /\ Len(s) \in Nat
  BY LenProperties
<1>2. Promise!Greatest(Len(s), k + Len(t)) = k
  BY <1>1 DEF Promise!Greatest
<1> DEFINE o == Promise!Overwritten(s, k, t)
<1>3. HasBytes(o, s, k, t)
  BY <1>1, OverwrittenIs
<1> HIDE DEF t, o
<1>4. o \in Seq(Bytes) /\ Len(o) = k
  BY <1>2, <1>3 DEF HasBytes
<1>5. \A i \in 1 .. k : o[i] = IF i <= Len(s) THEN s[i] ELSE Zero
  <2>1. \A i \in 1 .. k : ~(i > k)
    OBVIOUS
  <2> QED BY <1>3, <1>4, <2>1 DEF HasBytes
<1> QED BY <1>4, <1>5 DEF t, o

\* The file with the first w bytes of the write in it is what Intended says.
IsImage(v, w) ==
    LET n == Promise!Greatest(Len(call.before), call.start + w) IN
    /\ n \in Nat /\ v \in Seq(Bytes) /\ Len(v) = n
    /\ \A i \in 1 .. n : v[i] = Intended(call, w, i)

LEMMA ImageIs ==
    ASSUME call \in Calls, NEW w \in 0 .. Len(call.outer)
    PROVE  /\ SubSeq(call.outer, 1, w) \in Seq(Bytes) /\ Len(SubSeq(call.outer, 1, w)) = w
           /\ IsImage(Promise!Overwritten(call.before, call.start, SubSeq(call.outer, 1, w)), w)
<1> DEFINE t == SubSeq(call.outer, 1, w)
           n == Promise!Greatest(Len(call.before), call.start + w)
<1> DEFINE o == call.outer
           s == call.before
           p == call.start
<1>1. o \in Seq(Bytes) /\ s \in Seq(Bytes) /\ p \in Nat
  BY DEF Calls
<1>2. Len(o) \in Nat /\ w \in Nat /\ w <= Len(o)
  BY <1>1, LenProperties
<1>3. t = SubSeq(o, 1, w) /\ n = Promise!Greatest(Len(s), p + w)
  OBVIOUS
<1> HIDE DEF o, s, p, t, n
<1>4. t \in Seq(Bytes) /\ Len(t) = w /\ \A i \in 1 .. w : t[i] = o[i]
  <2>1. \A i \in 1 .. w : o[i] \in Bytes
    <3>1. \A i \in 1 .. w : i \in 1 .. Len(o)
      BY <1>2
    <3> QED BY <1>1, <3>1, ElementOfSeq
  <2> DEFINE u == SubSeq(o, 1, w)
  <2>2. u \in Seq(Bytes) /\ Len(u) = (IF 1 <= w THEN w - 1 + 1 ELSE 0)
        /\ \A i \in 1 .. w - 1 + 1 : u[i] = o[1 + i - 1]
    <3>1. 1 \in Int /\ w \in Int
      BY <1>2
    <3> QED BY <2>1, <3>1, SubSeqProperties
  <2>3. t = u
    BY <1>3
  <2> HIDE DEF u
  <2>4. \A i \in 1 .. w : i \in 1 .. w - 1 + 1 /\ 1 + i - 1 = i
    BY <1>2
  <2> QED BY <1>2, <2>2, <2>3, <2>4
<1>5. n = Promise!Greatest(Len(s), p + Len(t))
  BY <1>3, <1>4
<1> DEFINE v == Promise!Overwritten(s, p, t)
<1>6. HasBytes(v, s, p, t)
  BY <1>1, <1>4, OverwrittenIs
<1> HIDE DEF v
<1>7. v \in Seq(Bytes) /\ Len(v) = n /\ n \in Nat
  BY <1>5, <1>6 DEF HasBytes
<1>8. \A i \in 1 .. n : v[i] = Intended(call, w, i)
  <2>1. TAKE i \in 1 .. n
  <2>2. Intended(call, w, i) = IF i > p /\ i <= p + w THEN o[i - p]
                            ELSE IF i <= Len(s) THEN s[i] ELSE Zero
    BY DEF Intended, o, s, p
  <2>3. i > p /\ i <= p + w => i - p \in 1 .. w
    BY <1>1, <1>2, <1>7
  <2>4. v[i] = IF i > p /\ i <= p + w THEN t[i - p]
               ELSE IF i <= Len(s) THEN s[i] ELSE Zero
    BY <1>4, <1>6, <1>7 DEF HasBytes
  <2> QED BY <1>4, <2>2, <2>3, <2>4
<1>9. IsImage(v, w)
  BY <1>7, <1>8 DEF IsImage, n
<1> QED BY <1>4, <1>9 DEF v, s, p, t

LEMMA GrowCases ==
    ASSUME fp \in Descriptors, NEW p, NEW s, NEW c, Grow(p, s, c)
    PROVE  /\ fp'.mode = fp.mode
           /\ \/ call' = c /\ UNCHANGED reply
              \/ /\ call' = NoCall /\ reply' = <<>> /\ UNCHANGED <<data, chain, ruined>>
                 /\ fp' = [fp EXCEPT !.position = c.start]
BY DEF Grow, ensure_size_fails, Return, Descriptors

LEMMA WriteSimulated ==
    ASSUME FilesInv, FilesInv', ~ruined, ~ruined', NEW s \in Sources, fat_write(s)
    PROVE  Simulated
<1> DEFINE c == [NoCall EXCEPT !.op = "write", !.source = s, !.outer = s, !.start = fp.position,
                               !.before = Bytes1To(fp.size)]
           c1 == [c EXCEPT !.at = "gap"]
           c2 == [c EXCEPT !.at = "sector"]
<1>1. /\ Idle /\ fp.mode # "closed" /\ writable
      /\ \/ /\ call' = c1 /\ UNCHANGED reply
            /\ fp' = [fp EXCEPT !.first_cluster = First(chain')]
         \/ /\ call' = NoCall /\ reply' = <<>> /\ UNCHANGED <<data, chain, fp>>
         \/ Grow(fp.position, s, c2)
  BY DEF fat_write, ensure_size_fails, Return
<1>2. /\ call = NoCall /\ call.op = "none" /\ Content = Bytes1To(fp.size)
      /\ Position = fp.position /\ Mode = fp.mode
      /\ Mode \in Promise!Modes /\ fp \in Descriptors /\ fp.size \in Nat
      /\ Promise!Writable(Mode)
  BY <1>1, MappedOpen
<1>3. \A d \in {c1, c2} : d.op = "write" /\ d.before = Bytes1To(fp.size) /\ d.start = fp.position
  BY DEF NoCall
<1> HIDE DEF c, c1, c2
<1>4. /\ fp'.mode = fp.mode
      /\ \/ call' \in {c1, c2} /\ UNCHANGED reply
         \/ /\ call' = NoCall /\ reply' = <<>> /\ UNCHANGED <<data, chain>>
            /\ fp'.size = fp.size /\ fp'.position = fp.position
  <2>1. CASE \/ call' = c1 /\ UNCHANGED reply /\ fp' = [fp EXCEPT !.first_cluster = First(chain')]
             \/ call' = NoCall /\ reply' = <<>> /\ UNCHANGED <<data, chain, fp>>
    BY <1>2, <2>1 DEF Descriptors
  <2>2. CASE Grow(fp.position, s, c2)
    <3>1. /\ fp'.mode = fp.mode
          /\ \/ call' = c2 /\ UNCHANGED reply
             \/ /\ call' = NoCall /\ reply' = <<>> /\ UNCHANGED <<data, chain>>
                /\ fp' = [fp EXCEPT !.position = c2.start]
      BY <1>2, <2>2, GrowCases
    <3> QED BY <1>2, <1>3, <3>1 DEF Descriptors
  <2> QED BY <1>1, <2>1, <2>2
<1>5. CASE call' \in {c1, c2} /\ UNCHANGED reply
  <2>1. Content' = Content /\ Position' = Position /\ Mode' = Mode
    BY <1>2, <1>3, <1>4, <1>5, MappedNext
  <2> QED BY <1>5, <2>1 DEF Simulated, Promise!vars
<1>6. CASE /\ call' = NoCall /\ reply' = <<>> /\ UNCHANGED <<data, chain>>
           /\ fp'.size = fp.size /\ fp'.position = fp.position
  <2>1. Bytes1To(fp.size)' = Bytes1To(fp.size)
    BY <1>2, <1>6, SameFile
  <2>2. Content' = Content /\ Position' = Position /\ Mode' = Mode
    BY <1>1, <1>2, <1>4, <1>6, <2>1, MappedNext, CallsAre DEF Idle
  <2>3. Promise!WriteRefused(s)
    BY <1>2, <1>6, <2>2 DEF Promise!WriteRefused
  <2> QED BY <2>3 DEF Promise!Next, Simulated
<1> QED BY <1>4, <1>5, <1>6

\* The steps inside a write change nothing that Files speaks of.
LEMMA SectorSimulated ==
    ASSUME FilesInv, FilesInv', ~ruined, ~ruined', WriteSector
    PROVE  Simulated
<1>1. call.op = "write" /\ UNCHANGED reply
      /\ \/ /\ \E n : fp' = [fp EXCEPT !.position = @ + n]
            /\ \E s, a : call' = [call EXCEPT !.source = s, !.at = a]
         \/ /\ call' = [call EXCEPT !.at = "entry"] /\ UNCHANGED fp
  BY SectorCases
<1>2. call \in Calls /\ fp \in Descriptors
  BY DEF FilesInv, Typed
<1>3. /\ call'.op = "write" /\ call'.before = call.before
      /\ call'.start = call.start /\ fp'.mode = fp.mode
  BY <1>1, <1>2 DEF Calls, Descriptors
<1> QED BY <1>1, <1>3, Mapped, MappedNext DEF Simulated, Promise!vars

\* A write is over: the bytes of the file are those of the descriptor.
LEMMA WriteOver ==
    ASSUME FilesInv, FilesInv', ~ruined, ~ruined', call.op = "write", call' = NoCall,
           UNCHANGED <<data, chain>>, NEW p \in Nat, fp' = [fp EXCEPT !.position = p]
    PROVE  /\ Content = call.before /\ Content \in Seq(Bytes) /\ Position = call.start
           /\ Mode \in Promise!Modes /\ Promise!Writable(Mode) /\ Mode' = Mode
           /\ Position' = p /\ Content' \in Seq(Bytes) /\ Len(Content') = fp.size
           /\ fp.size \in Nat /\ \A i \in 1 .. fp.size : Content'[i] = ByteAt(i - 1)
<1>1. /\ fp.mode \in {"w", "w+", "a", "a+"} /\ fp.mode # "closed" /\ call.before \in Seq(Bytes)
  BY WriteIs
<1>2. fp \in Descriptors /\ fp.size \in Nat
  BY <1>1, OpenIs
<1>3. Content = call.before /\ Position = call.start /\ Mode = fp.mode
  BY <1>1, Mapped
<1>4. fp'.mode = fp.mode /\ fp'.position = p /\ fp'.size = fp.size
  BY <1>2 DEF Descriptors
<1>5. Idle'
  BY CallsAre DEF Idle
<1>6. Position' = p /\ Mode' = Mode
  BY <1>1, <1>3, <1>4, <1>5, MappedNext
<1>7. /\ Content' \in Seq(Bytes) /\ Len(Content') = fp.size
      /\ \A i \in 1 .. fp.size : Content'[i] = ByteAt(i - 1)'
  BY <1>1, <1>4, <1>5, StandsNext DEF Stands, Bytes
<1>8. \A i \in 1 .. fp.size : Content'[i] = ByteAt(i - 1)
  <2>1. \A i \in 1 .. fp.size : i - 1 \in Nat
    BY <1>2
  <2> QED BY <1>7, <2>1, SameBytes
<1> QED BY <1>1, <1>2, <1>3, <1>6, <1>7, <1>8 DEF Promise!Modes, Promise!Writable

LEMMA MayFail ==
    ASSUME FilesInv, errors # 0
    PROVE  MaxErrors > 0
BY FilesAssumption DEF FilesInv, Typed

\* Bytes that are a file of s up to the length of s, as far as the promise goes.
LEMMA PaddedIs ==
    ASSUME Content' \in Seq(Bytes), NEW s \in Seq(Bytes), NEW m \in Nat,
           Len(Content') = Promise!Greatest(Len(s), m),
           \A i \in 1 .. Len(s) : Content'[i] = s[i]
    PROVE  Promise!Padded(s, m)
<1> DEFINE t == Content'
<1>1. t \in Seq(Bytes)
  OBVIOUS
<1> HIDE DEF t
<1>2. t = [i \in 1 .. Len(t) |-> t[i]]
  BY <1>1, LenProperties
<1> QED BY <1>2 DEF Promise!Padded, t

LEMMA WriteEndsSimulated ==
    ASSUME FilesInv, FilesInv', ~ruined, ~ruined', NEW ok \in BOOLEAN, WriteReturns(ok)
    PROVE  Simulated
<1> DEFINE w == fp.position - call.start
           l == Len(call.before)
           k == Len(call.outer)
           t == SubSeq(call.outer, 1, w)
           o == Promise!Overwritten(call.before, call.start, t)
<1>1. /\ call.op = "write" /\ In("entry") /\ ~call.nested /\ call' = NoCall
      /\ reply' = t /\ UNCHANGED <<data, chain, lost, fp>>
  BY DEF WriteReturns, Return
<1>2. /\ Writing /\ fp.mode # "closed" /\ call.outer \in Sources
      /\ call.outer \in Seq(Bytes) /\ k \in Nat /\ Len(call.source) \in Nat
      /\ call.before \in Seq(Bytes) /\ l \in Nat /\ call.start \in Nat /\ call \in Calls
  BY <1>1, WriteIs
<1>3. fp \in Descriptors /\ fp.position \in Nat /\ fp.size \in Nat
  BY <1>1, <1>2, OpenIs
<1>4. PuttingSector
  BY <1>1, <1>2 DEF Writing, In
<1>5. /\ call.start <= fp.position /\ w + Len(call.source) = k
      /\ fp.size = Promise!Greatest(l, call.start + k)
      /\ \A i \in 1 .. Promise!Greatest(l, fp.position) : ByteAt(i - 1) = Intended(call, w, i)
      /\ errors = 0 => Len(call.source) = 0
  BY <1>1, <1>4 DEF PuttingSector, Holds
<1>6. fp' = [fp EXCEPT !.position = fp.position]
  BY <1>1, <1>3 DEF Descriptors
<1>7. /\ Content = call.before /\ Content \in Seq(Bytes) /\ Position = call.start
      /\ Mode \in Promise!Modes /\ Promise!Writable(Mode) /\ Mode' = Mode
      /\ Position' = fp.position /\ Content' \in Seq(Bytes) /\ Len(Content') = fp.size
      /\ \A i \in 1 .. fp.size : Content'[i] = ByteAt(i - 1)
  BY <1>1, <1>3, <1>6, WriteOver
<1>8. w \in 0 .. k /\ call.start + w = fp.position
  BY <1>2, <1>3, <1>5
<1> DEFINE n == Promise!Greatest(l, call.start + w)
<1>9. /\ t \in Seq(Bytes) /\ Len(t) = w /\ n \in Nat /\ o \in Seq(Bytes) /\ Len(o) = n
      /\ \A i \in 1 .. n : o[i] = Intended(call, w, i)
  <2>1. w \in 0 .. Len(call.outer)
    BY <1>8
  <2> HIDE DEF w
  <2>2. t \in Seq(Bytes) /\ Len(t) = w /\ IsImage(o, w)
    BY <1>2, <2>1, ImageIs
  <2> QED BY <2>2 DEF IsImage
<1>10. n <= fp.size /\ (w = k => n = fp.size) /\ Promise!Greatest(n, call.start + k) = fp.size
  <2> DEFINE b == call.start
  <2>1. w \in 0 .. k /\ b \in Nat /\ l \in Nat /\ k \in Nat /\ n = Promise!Greatest(l, b + w)
        /\ fp.size = Promise!Greatest(l, b + k)
    BY <1>2, <1>5, <1>8
  <2> HIDE DEF w, k, l, b, n
  <2>2. n <= fp.size /\ (w = k => n = fp.size) /\ Promise!Greatest(n, b + k) = fp.size
    BY <2>1 DEF Promise!Greatest
  <2> QED BY <2>2 DEF b
<1>11. \A i \in 1 .. n : Content'[i] = o[i]
  <2>1. n = Promise!Greatest(l, fp.position)
    BY <1>8
  <2> HIDE DEF n, w, l, o
  <2>2. \A i \in 1 .. n : i \in 1 .. fp.size
    BY <1>3, <1>9, <1>10
  <2> QED BY <1>5, <1>7, <1>9, <2>1, <2>2
<1>12. Position' = Position + Len(reply')
  BY <1>1, <1>7, <1>8, <1>9
<1> HIDE DEF w, t, o, n
<1>13. CASE w = k
  <2>1. t = call.outer
    <3>1. SubSeq(call.outer, 1, k) = call.outer
      <4> DEFINE u == call.outer
                 q == Len(u)
      <4>1. u \in Seq(Bytes) /\ 0 \in Nat /\ q = 0 + Len(u) /\ q <= Len(u)
            /\ \A i \in 1 .. Len(u) : u[i] = u[0 + i]
        BY <1>2
      <4> HIDE DEF u, q
      <4>2. u = SubSeq(u, 0 + 1, q)
        BY <4>1, PartIs
      <4> QED BY <4>2 DEF u, q
    <3> QED BY <1>13, <3>1 DEF t
  <2>2. Content' = o
    <3> DEFINE c == Content'
    <3>1. c \in Seq(Bytes) /\ Len(c) = Len(o) /\ \A i \in 1 .. Len(c) : c[i] = o[i]
      BY <1>7, <1>9, <1>10, <1>11, <1>13
    <3> HIDE DEF c
    <3>2. c = o
      BY <1>9, <3>1, SeqEqual
    <3> QED BY <3>2 DEF c
  <2>3. o = Promise!Overwritten(Content, Position, call.outer)
    BY <1>7, <2>1 DEF o
  <2>4. Promise!Write(call.outer)
    BY <1>1, <1>7, <1>12, <2>1, <2>2, <2>3 DEF Promise!Write
  <2> QED BY <1>2, <2>4 DEF Promise!Next, Simulated
<1>14. CASE w # k
  <2>1. MaxErrors > 0
    <3>1. errors # 0
      BY <1>2, <1>5, <1>8, <1>14
    <3> QED BY <3>1, MayFail
  <2>2. w \in 0 .. Len(call.outer) - 1
    BY <1>2, <1>8, <1>14
  <2>3. Promise!Padded(o, call.start + k)
    <3> DEFINE m == call.start + k
    <3>1. m \in Nat /\ Len(Content') = Promise!Greatest(Len(o), m)
          /\ \A i \in 1 .. Len(o) : Content'[i] = o[i]
      BY <1>2, <1>7, <1>9, <1>10, <1>11
    <3> HIDE DEF m
    <3>2. Promise!Padded(o, m)
      BY <1>7, <1>9, <3>1, PaddedIs
    <3> QED BY <3>2 DEF m
  <2>4. o = Promise!Overwritten(Content, Position, reply') /\ reply' = SubSeq(call.outer, 1, w)
    BY <1>1, <1>7 DEF o, t
  <2>5. Promise!Padded(Promise!Overwritten(Content, Position, reply'), Position + Len(call.outer))
    BY <1>7, <2>3, <2>4
  <2>6. Promise!WriteCut(call.outer)
    BY <1>7, <1>12, <2>1, <2>2, <2>4, <2>5 DEF Promise!WriteCut
  <2> QED BY <1>2, <2>6 DEF Promise!Next, Simulated
<1> QED BY <1>13, <1>14

\* A write is given up while its gap is filled, k bytes of the file being as they
\* should.
LEMMA GivenUpSimulated ==
    ASSUME FilesInv, FilesInv', ~ruined, ~ruined', call.op = "write", call' = NoCall, reply' = <<>>,
           UNCHANGED <<data, chain>>, fp' = [fp EXCEPT !.position = call.start],
           NEW k \in Nat, Filled(k), k <= fp.size, fp.size <= call.start, MaxErrors > 0
    PROVE  Simulated
<1> DEFINE b == call.start
           s == call.before
           m == fp.size
           o == Promise!Overwritten(s, k, <<>>)
<1>1. /\ b \in Nat /\ call \in Calls /\ s \in Seq(Bytes) /\ Len(s) \in Nat
  BY WriteIs
<1>2. /\ Content = s /\ Content \in Seq(Bytes) /\ Position = b
      /\ Mode \in Promise!Modes /\ Promise!Writable(Mode) /\ Mode' = Mode
      /\ Position' = b /\ Content' \in Seq(Bytes) /\ Len(Content') = m
      /\ m \in Nat /\ \A i \in 1 .. m : Content'[i] = ByteAt(i - 1)
  BY <1>1, WriteOver
<1>3. /\ Len(s) <= k /\ k <= b /\ Len(s) < b
      /\ \A i \in 1 .. k : ByteAt(i - 1) = Intended(call, 0, i)
  BY DEF Filled, Holds
<1>4. /\ o \in Seq(Bytes) /\ Len(o) = k
      /\ \A i \in 1 .. k : o[i] = IF i <= Len(s) THEN s[i] ELSE Zero
  <2> HIDE DEF s
  <2> QED BY <1>1, <1>3, ZerosAre
<1> HIDE DEF o
<1>5. \A i \in 1 .. k : Content'[i] = o[i]
  <2>1. TAKE i \in 1 .. k
  <2>2. i \in Nat /\ i > 0 /\ i <= b /\ i \in 1 .. m
    BY <1>1, <1>2, <1>3
  <2>3. Intended(call, 0, i) = IF i <= Len(s) THEN s[i] ELSE Zero
    BY <1>1, <2>2, GapImage
  <2> QED BY <1>2, <1>3, <1>4, <2>2, <2>3
<1>6. Promise!Padded(o, m)
  <2>1. Len(Content') = Promise!Greatest(Len(o), m)
    BY <1>2, <1>4 DEF Promise!Greatest
  <2> HIDE DEF m
  <2> QED BY <1>2, <1>4, <1>5, <2>1, PaddedIs
<1>7. Promise!Padded(Promise!Overwritten(Content, k, <<>>), m)
  BY <1>2, <1>6 DEF o
<1>8. k \in Len(Content) .. Position /\ m \in k .. Position /\ Position > Len(Content)
  BY <1>1, <1>2, <1>3
<1> HIDE DEF m
<1>9. Promise!GapCut
  BY <1>2, <1>7, <1>8 DEF Promise!GapCut
<1> QED BY <1>9 DEF Promise!Next, Simulated

LEMMA FillSimulated ==
    ASSUME FilesInv, FilesInv', ~ruined, ~ruined', ZeroRange
    PROVE  Simulated
<1>1. /\ call.op = "write" /\ fp'.mode = fp.mode
      /\ \/ /\ call'.op = "write" /\ call'.before = call.before
            /\ call'.start = call.start /\ UNCHANGED reply
         \/ /\ Fail /\ call' = NoCall /\ reply' = <<>> /\ UNCHANGED <<data, chain, entry>>
            /\ fp.size < call.start /\ fp' = [fp EXCEPT !.position = call.start]
  BY FillStarts
<1>2. CASE /\ call'.op = "write" /\ call'.before = call.before
           /\ call'.start = call.start /\ UNCHANGED reply
  BY <1>1, <1>2, Mapped, MappedNext DEF Simulated, Promise!vars
<1>3. CASE /\ Fail /\ call' = NoCall /\ reply' = <<>> /\ UNCHANGED <<data, chain, entry>>
           /\ fp.size < call.start /\ fp' = [fp EXCEPT !.position = call.start]
  <2>1. call.start \in Nat /\ fp.size \in Nat
    BY <1>1, WriteIs, OpenIs
  <2>2. Filled(fp.size)
    BY <1>1, WriteIs DEF Writing, FillingGap, ZeroRange
  <2>3. MaxErrors > 0
    BY <1>3, FilesAssumption DEF Fail, FilesInv, Typed
  <2> QED BY <1>1, <1>3, <2>1, <2>2, <2>3, GivenUpSimulated
<1> QED BY <1>1, <1>2, <1>3

LEMMA NestedEndsSimulated ==
    ASSUME FilesInv, FilesInv', ~ruined, ~ruined', NEW ok \in BOOLEAN, NestedReturns(ok)
    PROVE  Simulated
<1>1. /\ call.op = "write" /\ In("entry") /\ call.nested
      /\ UNCHANGED <<data, chain, lost>>
      /\ IF call.source = <<>>
         THEN /\ call' = [call EXCEPT !.at = "gap", !.nested = FALSE]
              /\ fp' = fp /\ reply' = reply
         ELSE call' = NoCall /\ reply' = <<>> /\ fp' = [fp EXCEPT !.position = call.start]
  BY DEF NestedReturns, Return
<1>2. /\ Writing /\ call.start \in Nat /\ call \in Calls /\ call.before \in Seq(Bytes)
      /\ Len(call.before) \in Nat /\ Len(call.source) \in Nat /\ fp.mode # "closed"
  BY <1>1, WriteIs
<1>3. fp.position \in Nat
  BY <1>1, <1>2, OpenIs
<1>4. CASE call.source = <<>>
  <2>1. /\ call'.op = "write" /\ call'.before = call.before
        /\ call'.start = call.start /\ fp'.mode = fp.mode /\ UNCHANGED reply
    BY <1>1, <1>2, <1>4 DEF Calls
  <2> QED BY <1>1, <2>1, Mapped, MappedNext DEF Simulated, Promise!vars
<1>5. CASE call.source # <<>>
  <2>1. call' = NoCall /\ reply' = <<>> /\ fp' = [fp EXCEPT !.position = call.start]
    BY <1>1, <1>5
  <2>2. FillingSector
    BY <1>1, <1>2 DEF Writing, In
  <2>3. /\ Filled(fp.position) /\ fp.size <= call.start
        /\ fp.position + Len(call.source) = fp.size /\ (errors = 0 => call.source = <<>>)
    BY <1>1, <2>2 DEF FillingSector
  <2>4. fp.position <= fp.size /\ MaxErrors > 0
    BY <1>2, <1>3, <1>5, <2>3, MayFail
  <2> QED BY <1>1, <1>3, <2>1, <2>3, <2>4, GivenUpSimulated
<1> QED BY <1>4, <1>5

LEMMA GapEndsSimulated ==
    ASSUME FilesInv, FilesInv', ~ruined, ~ruined', NEW ok \in BOOLEAN, GapFilled(ok)
    PROVE  Simulated
<1> DEFINE c == [call EXCEPT !.at = "sector", !.source = call.outer]
           b == call.start
           s == call.before
<1>1. /\ In("gap") /\ fp.size = b
      /\ IF ok THEN Grow(b, call.outer, c)
         ELSE call' = NoCall /\ reply' = <<>> /\ UNCHANGED <<data, chain, fp>>
  BY DEF GapFilled, Return
<1>2. call.op = "write"
  BY <1>1, CallsAre DEF FilesInv, CallOK, Opening, Closing, Reading, In, Idle, NoCall, Typed, Calls
<1>3. /\ Writing /\ b \in Nat /\ call \in Calls /\ s \in Seq(Bytes) /\ call.outer \in Sources
      /\ Len(s) \in Nat /\ fp.mode # "closed"
  BY <1>2, WriteIs
<1>4. fp \in Descriptors
  BY <1>2, <1>3, OpenIs
<1>5. FillingGap
  BY <1>1, <1>3 DEF Writing
<1>6. /\ Len(s) <= b /\ fp.position = b
      /\ \A i \in 1 .. b : ByteAt(i - 1) = Intended(call, 0, i)
  BY <1>1, <1>5 DEF FillingGap, Filled, Holds
<1>7. c.op = "write" /\ c.start = b /\ c.before = s
  BY <1>2, <1>3 DEF Calls
<1> HIDE DEF c
<1>8. \/ call' = c /\ UNCHANGED reply /\ fp'.mode = fp.mode
      \/ /\ call' = NoCall /\ reply' = <<>> /\ UNCHANGED <<data, chain>>
         /\ fp' = [fp EXCEPT !.position = b]
  <2>1. CASE ok
    BY <1>1, <1>4, <1>7, <2>1, GrowCases
  <2>2. CASE ~ok
    <3>1. fp = [fp EXCEPT !.position = b]
      BY <1>4, <1>6 DEF Descriptors
    <3> QED BY <1>1, <2>2, <3>1
  <2> QED BY <2>1, <2>2
<1>9. CASE call' = c /\ UNCHANGED reply /\ fp'.mode = fp.mode
  BY <1>2, <1>7, <1>9, Mapped, MappedNext DEF Simulated, Promise!vars
<1>10. CASE /\ call' = NoCall /\ reply' = <<>> /\ UNCHANGED <<data, chain>>
            /\ fp' = [fp EXCEPT !.position = b]
  <2> DEFINE o == Promise!Overwritten(s, b, <<>>)
  <2>1. /\ Content = s /\ Content \in Seq(Bytes) /\ Position = b
        /\ Mode \in Promise!Modes /\ Promise!Writable(Mode) /\ Mode' = Mode
        /\ Position' = b /\ Content' \in Seq(Bytes) /\ Len(Content') = b
        /\ \A i \in 1 .. b : Content'[i] = ByteAt(i - 1)
    BY <1>1, <1>2, <1>3, <1>10, WriteOver
  <2>2. /\ o \in Seq(Bytes) /\ Len(o) = b
        /\ \A i \in 1 .. b : o[i] = IF i <= Len(s) THEN s[i] ELSE Zero
    <3> HIDE DEF s, b
    <3> QED BY <1>3, <1>6, ZerosAre
  <2> HIDE DEF o
  <2>3. \A i \in 1 .. b : Content'[i] = o[i]
    <3>1. TAKE i \in 1 .. b
    <3>2. i \in Nat /\ i > 0 /\ i <= b
      BY <1>3
    <3>3. Intended(call, 0, i) = IF i <= Len(s) THEN s[i] ELSE Zero
      BY <1>3, <3>2, GapImage
    <3> QED BY <1>6, <2>1, <2>2, <3>3
  <2>4. Content' = o
    <3> DEFINE t == Content'
    <3>1. t \in Seq(Bytes) /\ Len(t) = Len(o) /\ \A i \in 1 .. Len(t) : t[i] = o[i]
      BY <2>1, <2>2, <2>3
    <3> HIDE DEF t
    <3>2. t = o
      BY <2>2, <3>1, SeqEqual
    <3> QED BY <3>2 DEF t
  <2>5. Content' = Promise!Overwritten(Content, Position, <<>>)
    BY <2>1, <2>4 DEF o
  <2>6. Promise!WriteRefused(call.outer)
    BY <1>10, <2>1, <2>5 DEF Promise!WriteRefused
  <2> QED BY <1>3, <2>6 DEF Promise!Next, Simulated
<1> QED BY <1>8, <1>9, <1>10

\* A step that ruins the file is one by which Files loses it: a write ends past Limit,
\* or an access to the table fails.
LEMMA RuinSimulated ==
    ASSUME FilesInv, ~ruined, Next, ruined'
    PROVE  Simulated
<1>1. Content' = <<>> /\ Position' = 0 /\ Mode' = "lost"
  BY MappedRuined
<1>2. Fail => MaxErrors > 0
  BY FilesAssumption DEF Fail, FilesInv, Typed
<1>3. ASSUME NEW s \in Sources, fat_write(s) PROVE Simulated
  <2>1. Idle /\ fp.mode # "closed" /\ writable
    BY <1>3 DEF fat_write
  <2>2. /\ Position = fp.position /\ Mode \in Promise!Modes /\ Promise!Writable(Mode)
        /\ fp \in Descriptors /\ fp.position \in Nat /\ Len(s) \in Nat /\ call.op # "open"
    BY <2>1, MappedOpen, SourcesAre
  <2>3. fp.position + Len(s) > Limit /\ UNCHANGED reply
    <3>1. CASE \E c : Grow(fp.position, s, c) /\ UNCHANGED lost
      <4>1. fp.position + Len(s) > Limit
        BY <2>1, <2>2, <3>1, GrowTyped
      <4>2. UNCHANGED reply
        BY <2>2, <3>1, GrowCases
      <4> QED BY <4>1, <4>2
    <3>2. CASE ensure_size(fp.position) /\ UNCHANGED reply
      <4>1. ruined' = (fp.position > Limit)
        BY <3>2 DEF ensure_size
      <4>2. fp.position > Limit
        BY <4>1, Zenon
      <4> QED BY <2>2, <3>2, <4>2, LimitIs
    <3> QED BY <1>3, <3>1, <3>2 DEF fat_write, ensure_size_fails
  <2>4. Promise!WriteLoses
    BY <1>1, <2>2, <2>3 DEF Promise!WriteLoses, Promise!Lose
  <2> QED BY <2>4 DEF Promise!Next, Simulated
<1>4. ASSUME In("gap") PROVE Position = call.start /\ Mode \in Promise!Modes /\ Promise!Writable(Mode)
  <2>1. call.op = "write" /\ fp.mode \in {"w", "w+", "a", "a+"}
    BY <1>4, GapIs, WriteIs
  <2> QED BY <2>1, Mapped DEF Promise!Modes, Promise!Writable
<1>5. ASSUME ZeroRange PROVE FALSE
  <2> DEFINE left == call.start - fp.size
             n == IF left < bytes_per_sector THEN left ELSE bytes_per_sector
             zeros == [i \in 1 .. n |-> Zero]
  <2>1. In("gap") /\ left > 0 /\ UNCHANGED lost /\ \E c : Grow(fp.size, zeros, c)
    BY <1>5 DEF ZeroRange
  <2>2. /\ call.op = "write" /\ fp.mode # "closed" /\ fp.size \in Nat /\ call.start \in Nat
    BY <2>1, GapIs
  <2>3. call.start <= Limit
    BY <2>1, <2>2, WriteIs DEF Writing, FillingGap, Filled
  <2>4. n \in Nat /\ fp.size + n <= call.start
    BY <2>1, <2>2, FilesAssumption
  <2> HIDE DEF n
  <2>5. Len(zeros) = n
    BY <2>4
  <2> HIDE DEF zeros
  <2>6. fp.size + Len(zeros) > Limit
    BY <2>1, <2>2, <2>4, <2>5, GrowTyped
  <2> QED BY <2>2, <2>3, <2>4, <2>5, <2>6, LimitIs
<1>6. ASSUME GapFilled(TRUE) PROVE Simulated
  <2>1. In("gap") /\ UNCHANGED lost /\ \E c : Grow(call.start, call.outer, c)
    BY <1>6 DEF GapFilled
  <2>2. /\ call.op = "write" /\ fp.mode # "closed" /\ call.start \in Nat /\ Len(call.outer) \in Nat
        /\ call.outer \in Sources /\ fp \in Descriptors
    BY <2>1, GapIs, SourcesAre, OpenIs
  <2>3. call.start + Len(call.outer) > Limit
    BY <2>1, <2>2, GrowTyped
  <2>4. UNCHANGED reply
    BY <2>1, <2>2, GrowCases
  <2>5. Promise!WriteLoses
    BY <1>1, <1>4, <2>1, <2>2, <2>3, <2>4 DEF Promise!WriteLoses, Promise!Lose
  <2> QED BY <2>5 DEF Promise!Next, Simulated
<1>7. ASSUME ensure_sizeRuins PROVE Simulated
  <2>1. /\ MaxErrors > 0 /\ UNCHANGED reply
        /\ \/ Idle /\ fp.mode = "closed" /\ Reachable
           \/ Idle /\ writable
           \/ In("gap")
    BY <1>2, <1>7 DEF ensure_sizeRuins
  <2>2. CASE Idle /\ fp.mode = "closed" /\ Reachable
    <3>1. Mode = "closed"
      BY <2>2, Mapped
    <3>2. Promise!OpenFails
      BY <1>1, <2>1, <3>1 DEF Promise!OpenFails, Promise!Lose
    <3> QED BY <3>2 DEF Promise!Next, Simulated
  <2>3. CASE (Idle /\ writable) \/ In("gap")
    <3>1. Mode \in Promise!Modes /\ Promise!Writable(Mode)
      BY <1>4, <2>3, MappedOpen DEF writable
    <3>2. Promise!WriteLoses
      BY <1>1, <2>1, <3>1 DEF Promise!WriteLoses, Promise!Lose
    <3> QED BY <3>2 DEF Promise!Next, Simulated
  <2> QED BY <2>1, <2>2, <2>3
<1> QED BY <1>3, <1>5, <1>6, <1>7, RuinsHow

\* FatFiles implements Files, on volumes and for calls of any size and with any
\* accesses to sectors and to the table failing.  Files promises nothing of a file
\* that it has lost: by an access that fails while the file is truncated or written,
\* or by a write that ends past Limit.
THEOREM PromiseIsKept == Spec => KeepsPromise
<1>1. Init => Promise!Init
  BY InitSimulated
<1>2. FilesOrRuined /\ FilesOrRuined' /\ [Next]_vars => [Promise!Next]_(Promise!vars)
  <2>1. ASSUME FilesInv, FilesInv', ~ruined, ~ruined', Next PROVE Simulated
    BY <2>1, OpenSimulated, OpenRefusedSimulated, CloseSimulated, SeekSimulated, ReadSimulated,
       ReadGoesOnSimulated, WriteSimulated, FillSimulated, SectorSimulated, OpenEndsSimulated,
       CloseEndsSimulated, WriteEndsSimulated, NestedEndsSimulated, GapEndsSimulated
       DEF Next, ensure_sizeRuins
  <2>2. ASSUME UNCHANGED vars PROVE UNCHANGED Promise!vars
    BY <2>2 DEF vars, Promise!vars, Content, Position, Mode, Lost, Idle, OnDisk, Reachable,
                Bytes1To, ByteAt, cluster_at, cluster_size, None, First
  <2>3. ASSUME FilesOrRuined, FilesOrRuined', Next PROVE Simulated
    <3>1. ~ruined /\ FilesInv
      BY <2>3 DEF Next, FilesOrRuined
    <3>2. CASE ruined'
      BY <2>3, <3>1, <3>2, RuinSimulated
    <3>3. CASE ~ruined'
      BY <2>1, <2>3, <3>1, <3>3 DEF FilesOrRuined
    <3> QED BY <3>2, <3>3
  <2> QED BY <2>2, <2>3 DEF Simulated
<1> QED BY <1>1, <1>2, FilesInvariant, PTL DEF Spec, KeepsPromise, Promise!Spec

-----------------------------------------------------------------------------
(* The volume: where its tables, its root directory and its clusters lie.  *)

\* The entry of a cluster, by its number in its sector and by its byte in the table.
LEMMA ProductOf ==
  ASSUME NEW n \in Nat, NEW q \in Nat
  PROVE  /\ n * q \in Nat /\ q * (2 * n) = 2 * (n * q) /\ q * (4 * n) = 4 * (n * q)
         /\ (2 * n) * q = 2 * (n * q) /\ (4 * n) * q = 4 * (n * q)
OBVIOUS

\* Entry n * q + r of e bytes, of which n fill a sector of B bytes, starts at byte y.
EntryIs(n, e, q, r, B, y) ==
  /\ n \in Nat /\ n > 0 /\ e \in {2, 4} /\ q \in Nat /\ r \in Nat /\ r < n
  /\ B = e * n /\ y = (n * q + r) * e
EntryLies(e, q, r, B, y) ==
  /\ q * B + r * e = y /\ r * e + e <= B /\ q * B <= y
  /\ y \div B = q /\ y % B = r * e

LEMMA EntryPlace ==
  ASSUME NEW n, NEW e, NEW q, NEW r, NEW B, NEW y, EntryIs(n, e, q, r, B, y)
  PROVE  EntryLies(e, q, r, B, y)
<1>0. /\ n \in Nat /\ n > 0 /\ e \in {2, 4} /\ q \in Nat /\ r \in Nat /\ r < n
      /\ B = e * n /\ y = (n * q + r) * e
  BY DEF EntryIs
<1> DEFINE p == n * q
           x == r * e
<1>1. /\ p \in Nat /\ x \in Nat /\ q * (e * n) = e * p /\ (e * n) * q = e * p
      /\ (p + r) * e = e * p + x /\ x + e <= e * n /\ e * n \in Nat
  <2>1. CASE e = 2
    <3> HIDE DEF p
    <3>1. p \in Nat /\ q * (2 * n) = 2 * p /\ (2 * n) * q = 2 * p
      BY <1>0, ProductOf DEF p
    <3> QED BY <1>0, <2>1, <3>1
  <2>2. CASE e = 4
    <3> HIDE DEF p
    <3>1. p \in Nat /\ q * (4 * n) = 4 * p /\ (4 * n) * q = 4 * p
      BY <1>0, ProductOf DEF p
    <3> QED BY <1>0, <2>2, <3>1
  <2> QED BY <1>0, <2>1, <2>2
<1>2. /\ ((e * n) * q + x) \div (e * n) = q /\ ((e * n) * q + x) % (e * n) = x
  <2> DEFINE b == e * n
  <2> HIDE DEF x
  <2>1. b \in Nat /\ b > 0 /\ x \in 0 .. b - 1
    BY <1>0, <1>1
  <2> HIDE DEF b
  <2>2. (b * q + x) \div b = q /\ (b * q + x) % b = x
    BY <1>0, <2>1, OneQuotient
  <2> QED BY <2>2 DEF b
<1>3. (p + r) * e = (e * n) * q + x /\ q * (e * n) + x = (p + r) * e
      /\ q * (e * n) <= (p + r) * e
  <2> DEFINE h == e * p
             a == q * (e * n)
             b == (e * n) * q
             c == (p + r) * e
  <2>1. h \in Nat
    BY <1>0, <1>1
  <2>2. a = h /\ b = h /\ c = h + x /\ x \in Nat
    BY <1>1
  <2> HIDE DEF h, a, b, c, x
  <2>3. c = b + x /\ a + x = c /\ a <= c
    BY <2>1, <2>2
  <2> QED BY <2>3 DEF a, b, c
<1> HIDE DEF p
<1>4. y = (p + r) * e
  BY <1>0 DEF p
<1> HIDE DEF x
<1>5. q * B + x = y /\ x + e <= B /\ q * B <= y /\ y \div B = q /\ y % B = x
  BY <1>0, <1>1, <1>2, <1>3, <1>4, Zenon
<1> QED BY <1>5, Zenon DEF EntryLies, x

\* The quotient, rounded up, of what does not overflow, and of what does.
LEMMA LeastCount ==
  ASSUME NEW W \in Nat, NEW cs \in Nat, cs > 0, cs <= W, NEW size \in Nat, size < W,
         NEW n, n = ((size + cs - 1) % W) \div cs
  PROVE  /\ n \in Nat
         /\ size + cs > W => n = 0
         /\ size + cs <= W /\ size > 0 => n > 0 /\ n * cs >= size /\ (n - 1) * cs < size
<1> DEFINE s == size + cs - 1
           m == s % W
<1>1. s \in Nat /\ W > 0
  OBVIOUS
<1>2. CASE size + cs > W
  <2>1. m = s - W
    <3>1. s = W * 1 + (s - W) /\ s - W \in 0 .. W - 1
      BY <1>2
    <3> QED BY <3>1, OneQuotient
  <2>2. m \in 0 .. cs - 1
    BY <1>2, <2>1
  <2> HIDE DEF m
  <2>3. m = cs * 0 + m
    BY <2>2
  <2>4. m \div cs = 0
    BY <2>2, <2>3, OneQuotient
  <2> QED BY <1>2, <2>4 DEF m
<1>3. CASE size + cs <= W
  <2>1. m = s
    <3>1. s = W * 0 + s /\ s \in 0 .. W - 1
      BY <1>3
    <3> QED BY <3>1, OneQuotient
  <2> HIDE DEF m, s
  <2>2. n = s \div cs
    BY <2>1 DEF m, s
  <2>3. n \in Nat /\ s % cs \in 0 .. cs - 1 /\ s = cs * n + (s % cs)
    BY <1>1, <2>2, Divided
  <2> DEFINE p == cs * n
             x == s % cs
  <2>4. p \in Nat /\ n * cs = p /\ (n - 1) * cs = p - cs /\ (n = 0 => p = 0)
    BY <2>3
  <2> HIDE DEF p, x
  <2>5. s = p + x /\ x \in Nat /\ x < cs
    BY <2>3 DEF p, x
  <2>6. p >= size /\ p - cs < size
    BY <2>4, <2>5 DEF s
  <2> QED BY <1>3, <2>3, <2>4, <2>6
<1> QED BY <1>2, <1>3
\* A boot sector that loadfat accepts.
Loaded ==
  /\ isfattype /\ main_partition.lba_start \in Nat
  /\ fat.bytes = SECTORSIZE
  /\ {fat.reserved, fat.number_fats, fat.root_entries, fat.fat_size_16, fat.fat_size_32,
      fat.total_sectors_16, fat.total_sectors_32, fat.sector_per_cluster,
      fat.fs_info.free} \subseteq Nat
  /\ fat.sector_per_cluster > 0 /\ fat.number_fats > 0
  /\ fat.sector_per_cluster * SECTORSIZE <= SizeWord

VolInv ==
  /\ disk \in Images
  /\ active_partition # -1 => main_partition.lba_start \in Nat
  /\ IF fat = NoFat THEN f_bfree = -1
     ELSE /\ active_partition # -1 /\ Loaded
          /\ f_bfree \in Int /\ f_bfree <= getclustercount

TotalSectors == IF fat.total_sectors_16 = 0 THEN fat.total_sectors_32 ELSE fat.total_sectors_16
FirstOfData == fat.reserved + fat.number_fats * getfatsize + getrootdirsectorscount

LEMMA VolumeNumbers ==
  ASSUME Loaded
  PROVE  /\ getfatsize \in Nat /\ fat.number_fats * getfatsize \in Nat
         /\ getrootdirsectorscount \in Nat
         /\ isfat16type => getrootdirsectorscount * SECTORSIZE
                             >= FAT_ENTRY_SIZE * fat.root_entries
         /\ FirstOfData \in Nat /\ TotalSectors \in Nat /\ getdatasectorcount \in Nat
         /\ getdatasectorcount > 0 => FirstOfData + getdatasectorcount = TotalSectors
         /\ getclustercount \in Nat
         /\ fat.sector_per_cluster * getclustercount <= getdatasectorcount
         /\ getfirstdatasector = main_partition.lba_start + FirstOfData
         /\ getfirstdatasector \in Nat
<1>1. getfatsize \in Nat
  BY DEF Loaded, getfatsize
<1>2. fat.number_fats * getfatsize \in Nat
  <2> DEFINE s == getfatsize
             k == fat.number_fats
  <2>1. s \in Nat /\ k \in Nat
    BY <1>1 DEF Loaded
  <2> HIDE DEF s, k
  <2>2. k * s \in Nat
    BY <2>1
  <2> QED BY <2>2 DEF s, k
<1>3. /\ getrootdirsectorscount \in Nat
      /\ isfat16type => getrootdirsectorscount * SECTORSIZE >= FAT_ENTRY_SIZE * fat.root_entries
  <2>1. CASE isfat16type
    <3> DEFINE B == SECTORSIZE
               x == FAT_ENTRY_SIZE * fat.root_entries
               d == getrootdirsectorscount
               m == (x + B - 1) % B
    <3>1. B \in Nat /\ B > 0 /\ x \in Nat
      <4> DEFINE f == FAT_ENTRY_SIZE
                 g == fat.root_entries
      <4>1. f \in Nat /\ g \in Nat /\ B \in Nat /\ B > 0
        BY VolumeAssumption DEF Loaded
      <4> HIDE DEF f, g
      <4>2. f * g \in Nat
        BY <4>1
      <4> QED BY <4>1, <4>2 DEF f, g
    <3>2. d = (x + B - 1) \div B
      BY <2>1 DEF getrootdirsectorscount, Loaded
    <3> HIDE DEF B, x, d
    <3>3. d \in Nat /\ m \in 0 .. B - 1 /\ x + B - 1 = B * d + m
      BY <3>1, <3>2, Divided DEF m
    <3> HIDE DEF m
    <3> DEFINE p == d * B
    <3>4. p \in Nat /\ B * d = p
      BY <3>1, <3>3
    <3> HIDE DEF p
    <3>5. p >= x
      BY <3>1, <3>3, <3>4
    <3>6. d * B >= x
      BY <3>5 DEF p
    <3> QED BY <3>3, <3>6 DEF B, x, d
  <2>2. CASE ~isfat16type
    BY <2>2 DEF getrootdirsectorscount
  <2> QED BY <2>1, <2>2
<1>4. FirstOfData \in Nat /\ TotalSectors \in Nat
  <2> DEFINE p == fat.number_fats * getfatsize
  <2>1. p \in Nat
    BY <1>2
  <2> HIDE DEF p
  <2>2. fat.reserved + p + getrootdirsectorscount \in Nat
    BY <1>3, <2>1 DEF Loaded
  <2> QED BY <2>2 DEF Loaded, FirstOfData, TotalSectors, p
<1>5. /\ getdatasectorcount \in Nat
      /\ getdatasectorcount > 0 => FirstOfData + getdatasectorcount = TotalSectors
  <2>1. getdatasectorcount = IF TotalSectors <= FirstOfData THEN 0
                             ELSE TotalSectors - FirstOfData
    BY Zenon DEF getdatasectorcount, FirstOfData, TotalSectors
  <2> QED BY <1>4, <2>1
<1>6. getclustercount \in Nat /\ fat.sector_per_cluster * getclustercount <= getdatasectorcount
  <2> DEFINE s == fat.sector_per_cluster
             d == getdatasectorcount
             c == getclustercount
  <2>1. s \in Nat /\ s > 0 /\ d \in Nat /\ c = d \div s
    BY <1>5 DEF Loaded, getclustercount
  <2> HIDE DEF s, d, c
  <2>2. c \in Nat /\ d % s \in 0 .. s - 1 /\ d = s * c + (d % s)
    BY <2>1, Divided
  <2> DEFINE p == s * c
             m == d % s
  <2>3. p \in Nat
    BY <2>1, <2>2
  <2>4. d = p + m /\ m \in Nat
    BY <2>1, <2>2
  <2> HIDE DEF p, m
  <2>5. p <= d
    BY <2>1, <2>3, <2>4
  <2> QED BY <2>2, <2>5 DEF s, d, c, p
<1>7. getfirstdatasector = main_partition.lba_start + FirstOfData /\ getfirstdatasector \in Nat
  <2> DEFINE p == fat.number_fats * getfatsize
  <2>1. p \in Nat
    BY <1>2
  <2>2. getfirstdatasector
          = main_partition.lba_start + fat.reserved + p + getrootdirsectorscount
    BY DEF getfirstdatasector, getrootdirsector
  <2>3. FirstOfData = fat.reserved + p + getrootdirsectorscount
    BY DEF FirstOfData
  <2> HIDE DEF p
  <2> QED BY <1>3, <2>1, <2>2, <2>3 DEF Loaded
<1> QED BY <1>1, <1>2, <1>3, <1>4, <1>5, <1>6, <1>7

LEMMA ClusterRange ==
  ASSUME Loaded, NEW c \in DataClusters
  PROVE  /\ c \in Nat /\ c >= 2 /\ c <= getclustercount + 1
         /\ c <= fat_max_cluster /\ fat_max_cluster \in Nat
BY VolumeNumbers DEF DataClusters, fat_max_cluster


LEMMA ArrayOfEntries == Loaded /\ Formatted => EntriesAreAnArray
<1> SUFFICES ASSUME Loaded, Formatted, NEW c \in DataClusters
             PROVE  LET start == main_partition.lba_start + fat.reserved
                    IN /\ getfatsector(c) * SECTORSIZE + getfatentryoffset(c)
                            = start * SECTORSIZE + c * getfatentrysize
                       /\ getfatentryoffset(c) + getfatentrysize <= SECTORSIZE
                       /\ main_partition.lba_start + getsectornumber(c) = getfatsector(c)
                       /\ getentryoffset(c) = getfatentryoffset(c)
                       /\ getfatsector(c) < start + getfatsize
                       /\ getfatsector(c) + (fat.number_fats - 1) * getfatsize
                            < getrootdirsector
  BY Zenon DEF EntriesAreAnArray
<1>1. PICK e \in {2, 4} : e = getfatentrysize
  BY DEF getfatentrysize
<1>2. PICK n \in Nat : n > 0 /\ SECTORSIZE = e * n /\ SECTORSIZE \div e = n
  <2>1. PICK u \in Nat : u > 0 /\ SECTORSIZE = 4 * u
    BY VolumeAssumption, Divided
  <2>2. CASE e = 2
    <3>1. 2 * u \in Nat /\ 2 * u > 0 /\ SECTORSIZE = e * (2 * u) /\ SECTORSIZE \div e = 2 * u
      BY <2>1, <2>2
    <3> QED BY <3>1
  <2>3. CASE e = 4
    <3>1. SECTORSIZE = e * u /\ SECTORSIZE \div e = u
      BY <2>1, <2>3
    <3> QED BY <2>1, <3>1
  <2> QED BY <2>2, <2>3
<1>3. PICK q \in Nat, r \in Nat : r < n /\ c = n * q + r /\ q = c \div n /\ r = c % n
  <2>1. c \in Nat
    BY ClusterRange
  <2> QED BY <1>2, <2>1, Divided
<1>4. PICK B \in Nat : B = SECTORSIZE /\ B = e * n /\ B > 0
  BY <1>2, VolumeAssumption
<1>5. /\ q * B + r * e = c * e /\ r * e + e <= B /\ q * B <= c * e
      /\ (c * e) \div B = q /\ (c * e) % B = r * e
  <2>1. e \in {2, 4} /\ n > 0 /\ r < n /\ n \in Nat /\ q \in Nat /\ r \in Nat
    BY <1>1, <1>2, <1>3
  <2>2. PICK y \in Int : y = c * e
    BY <1>1, <1>3
  <2>3. EntryIs(n, e, q, r, B, y)
    BY <1>3, <1>4, <2>1, <2>2 DEF EntryIs
  <2>4. EntryLies(e, q, r, B, y)
    BY <2>3, EntryPlace
  <2> QED BY <2>2, <2>4, Zenon DEF EntryLies
<1>6. PICK first \in Nat : first = main_partition.lba_start + fat.reserved
  BY DEF Loaded
<1>7. getfatsector(c) = first + q /\ getfatentryoffset(c) = r * e
  BY <1>1, <1>2, <1>3, <1>4, <1>6 DEF getfatsector, getfatentryoffset, Loaded
<1>8. main_partition.lba_start + getsectornumber(c) = first + q /\ getentryoffset(c) = r * e
  <2>1. getsectornumber(c) = fat.reserved + q
    BY <1>1, <1>4, <1>5 DEF getsectornumber, Loaded
  <2> QED BY <1>1, <1>4, <1>5, <1>6, <2>1 DEF getentryoffset, Loaded
<1>9. (first + q) * B + r * e = first * B + c * e
  <2> DEFINE x == first * B
             y == q * B
             z == r * e
             w == c * e
  <2>1. (first + q) * B = x + y /\ x \in Nat /\ y \in Nat /\ z \in Nat
    BY <1>1
  <2>2. y + z = w
    BY <1>5
  <2> HIDE DEF x, y, z, w
  <2>3. x + y + z = x + w
    BY <2>1, <2>2
  <2> QED BY <2>1, <2>3 DEF x, y, z, w
<1>10. q < getfatsize
  <2> DEFINE s == getfatsize
             m == fat_max_cluster
  <2>1. s \in Nat /\ m \in Nat /\ c \in Nat /\ c <= m
    BY VolumeNumbers, ClusterRange
  <2>2. (m + 1) * e <= s * B
    BY <1>1, <1>4 DEF Formatted
  <2> HIDE DEF s, m
  <2>3. (m + 1) * e = m * e + e /\ c * e <= m * e /\ c * e \in Nat /\ m * e \in Nat
    <3>1. CASE e = 2
      BY <2>1, <3>1
    <3>2. CASE e = 4
      BY <2>1, <3>2
    <3> QED BY <3>1, <3>2
  <2>4. q * B < s * B
    <3> DEFINE x == q * B
               y == c * e
               z == m * e
               w == s * B
    <3>1. x \in Nat /\ w \in Nat /\ y \in Nat /\ z \in Nat
      BY <2>1, <2>3
    <3>2. x <= y /\ y <= z /\ z + e <= w /\ e \in Nat /\ e > 0
      BY <1>5, <2>2, <2>3
    <3> HIDE DEF x, y, z, w
    <3>3. x < w
      BY <3>1, <3>2
    <3> QED BY <3>3 DEF x, w
  <2>5. ASSUME s <= q PROVE FALSE
    <3>1. B * s <= B * q
      BY <2>1, <2>5, Product
    <3>2. B * s = s * B /\ B * q = q * B /\ s * B \in Nat /\ q * B \in Nat
      BY <2>1
    <3> QED BY <2>4, <3>1, <3>2
  <2>6. q < s
    BY <2>1, <2>5
  <2> QED BY <2>6 DEF s
<1>11. first + q + (fat.number_fats - 1) * getfatsize < getrootdirsector
  <2> DEFINE s == getfatsize
             k == fat.number_fats
             p == k * s
  <2>1. s \in Nat /\ k \in Nat /\ k > 0
    BY VolumeNumbers DEF Loaded
  <2>2. getrootdirsector = first + p
    BY <1>6 DEF getrootdirsector
  <2>3. q < s
    BY <1>10
  <2> HIDE DEF s, k
  <2>4. (k - 1) * s = p - s /\ p \in Nat
    BY <2>1
  <2> HIDE DEF p
  <2>5. first + q + (p - s) < first + p
    BY <2>1, <2>3, <2>4
  <2>6. first + q + (k - 1) * s < first + p
    BY <2>4, <2>5
  <2> QED BY <2>2, <2>6 DEF s, k
<1>12. getfatsector(c) * SECTORSIZE + getfatentryoffset(c)
         = (main_partition.lba_start + fat.reserved) * SECTORSIZE + c * getfatentrysize
  BY <1>1, <1>4, <1>6, <1>7, <1>9, Zenon
<1>13. getfatentryoffset(c) + getfatentrysize <= SECTORSIZE
  BY <1>1, <1>4, <1>5, <1>7, Zenon
<1>14. getfatsector(c) < main_partition.lba_start + fat.reserved + getfatsize
  <2>1. first + q < first + getfatsize
    BY <1>10, VolumeNumbers
  <2> QED BY <1>6, <1>7, <2>1, Zenon
<1>15. getfatsector(c) + (fat.number_fats - 1) * getfatsize < getrootdirsector
  BY <1>7, <1>11, Zenon
<1> QED BY <1>7, <1>8, <1>12, <1>13, <1>14, <1>15, Zenon

LEMMA ApartIsData == Loaded /\ Formatted => DataIsApart
<1> SUFFICES ASSUME Loaded, Formatted PROVE DataIsApart
  OBVIOUS
<1>1. isfat16type => getfirstdatasector * SECTORSIZE
                       >= getrootdirsector * SECTORSIZE + fat.root_entries * FAT_ENTRY_SIZE
  <2> SUFFICES ASSUME isfat16type
               PROVE  getfirstdatasector * SECTORSIZE
                        >= getrootdirsector * SECTORSIZE + fat.root_entries * FAT_ENTRY_SIZE
    OBVIOUS
  <2> DEFINE B == SECTORSIZE
             d == getrootdirsectorscount
             g == getrootdirsector
             p == fat.number_fats * getfatsize
             x == FAT_ENTRY_SIZE * fat.root_entries
  <2>1. B \in Nat /\ d \in Nat /\ d * B >= x /\ p \in Nat
    BY VolumeNumbers, VolumeAssumption
  <2>2. g = main_partition.lba_start + fat.reserved + p
    BY DEF getrootdirsector
  <2>3. x \in Nat /\ x = fat.root_entries * FAT_ENTRY_SIZE
    <3> DEFINE f == FAT_ENTRY_SIZE
               h == fat.root_entries
    <3>1. f \in Nat /\ h \in Nat
      BY VolumeAssumption DEF Loaded
    <3> HIDE DEF f, h
    <3>2. f * h \in Nat /\ f * h = h * f
      BY <3>1
    <3> QED BY <3>2 DEF f, h
  <2>4. getfirstdatasector = g + d
    BY DEF getfirstdatasector
  <2> HIDE DEF p
  <2>5. g \in Nat
    BY <2>1, <2>2 DEF Loaded
  <2> HIDE DEF B, d, g
  <2>6. (g + d) * B = g * B + d * B /\ g * B \in Nat /\ d * B \in Nat
    BY <2>1, <2>5
  <2> HIDE DEF x
  <2>7. (g + d) * B >= g * B + x
    BY <2>1, <2>3, <2>6
  <2> QED BY <2>3, <2>4, <2>7 DEF B, g
<1>2. ASSUME NEW c \in DataClusters
      PROVE  /\ clustertosector(c) + fat.sector_per_cluster
                  <= main_partition.lba_start + TotalSectors
             /\ \A k \in 0..(fat.sector_per_cluster - 1) :
                  getclusterfromsector(clustertosector(c) + k) = c
  <2> DEFINE s == fat.sector_per_cluster
             f == getfirstdatasector
             n == getclustercount
             d == getdatasectorcount
             t == TotalSectors
             a == main_partition.lba_start
             o == FirstOfData
  <2>1. /\ s \in Nat /\ s > 0 /\ f \in Nat /\ n \in Nat /\ d \in Nat /\ d > 0 /\ s * n <= d
        /\ f = a + o /\ o + d = t /\ a \in Nat /\ o \in Nat /\ t \in Nat
    BY VolumeNumbers DEF Loaded, Formatted
  <2>2. c \in Nat /\ c >= 2 /\ c <= n + 1
    BY ClusterRange
  <2>3. clustertosector(c) = f + (c - 2) * s
    BY DEF clustertosector
  <2>4. \A x : getclusterfromsector(x) = IF x < f THEN 0 ELSE (x - f) \div s + 2
    BY DEF getclusterfromsector
  <2> HIDE DEF s, f, n, d, t, a, o
  <2> DEFINE p == s * (c - 2)
  <2>5. c - 2 \in Nat /\ p \in Nat /\ (c - 2) * s = p
    BY <2>1, <2>2
  <2>6. p + s <= s * n
    <3>1. s * (c - 1) <= s * n /\ s * (c - 1) = p + s
      <4>1. c - 1 \in Nat /\ c - 1 <= n
        BY <2>1, <2>2
      <4>2. s * (c - 1) <= s * n
        BY <2>1, <4>1, Product
      <4>3. s * ((c - 2) + 1) = s * (c - 2) + s
        BY <2>1, <2>5, Product
      <4>4. (c - 2) + 1 = c - 1
        BY <2>2
      <4> QED BY <4>2, <4>3, <4>4
    <3> QED BY <3>1
  <2>7. ASSUME NEW k \in 0..(s - 1) PROVE getclusterfromsector(clustertosector(c) + k) = c
    <3>1. (s * (c - 2) + k) \div s = c - 2
      BY <2>1, <2>5, OneQuotient
    <3> HIDE DEF p
    <3>2. k \in Nat /\ f + p + k >= f /\ (f + p + k) - f = p + k
      BY <2>1, <2>5
    <3>3. (p + k) \div s = c - 2
      BY <3>1 DEF p
    <3>4. getclusterfromsector(f + p + k) = (c - 2) + 2
      <4>1. PICK x \in Nat : x = f + p + k /\ ~(x < f) /\ x - f = p + k
        BY <2>1, <2>5, <3>2
      <4>2. getclusterfromsector(x) = (x - f) \div s + 2
        BY <2>4, <4>1
      <4> QED BY <3>3, <4>1, <4>2
    <3>5. clustertosector(c) + k = f + p + k
      BY <2>3, <2>5
    <3> QED BY <2>2, <3>4, <3>5
  <2>8. clustertosector(c) + s <= a + t
    <3> HIDE DEF p
    <3> DEFINE y == s * n
    <3>1. y \in Nat /\ y <= d /\ p + s <= y
      BY <2>1, <2>6
    <3> HIDE DEF y
    <3>2. f + p + s <= a + t
      BY <2>1, <2>5, <3>1
    <3> QED BY <2>3, <2>5, <3>2
  <2> QED BY <2>7, <2>8 DEF s, a, t
<1> QED BY <1>1, <1>2, Zenon DEF DataIsApart, TotalSectors

LEMMA NeededIs == Loaded => NeededIsLeast
<1> SUFFICES ASSUME Loaded, NEW size \in Sizes
             PROVE  LET cs == fat.sector_per_cluster * SECTORSIZE
                    IN IF neededcluster(size) = 0
                         THEN \/ size = 0 \/ size > getclustercount * cs
                              \/ size + cs > SizeWord
                         ELSE /\ neededcluster(size) * cs >= size
                              /\ (neededcluster(size) - 1) * cs < size
  BY Zenon DEF NeededIsLeast
<1> DEFINE cs == fat.sector_per_cluster * SECTORSIZE
           W == SizeWord
           n == ((size + cs - 1) % W) \div cs
           cc == getclustercount
<1>1. cs \in Nat /\ cs > 0 /\ cs <= W /\ W \in Nat /\ size \in Nat /\ size < W /\ cc \in Nat
  <2> DEFINE s == fat.sector_per_cluster
             B == SECTORSIZE
  <2>1. s \in Nat /\ s > 0 /\ B \in Nat /\ B > 0
    BY VolumeAssumption DEF Loaded
  <2>2. s * B <= W /\ W \in Nat /\ size \in Nat /\ size < W /\ cc \in Nat
    BY VolumeAssumption, VolumeNumbers DEF Loaded
  <2> HIDE DEF s, B
  <2>3. s * B \in Nat /\ s * B > 0
    BY <2>1
  <2> QED BY <2>2, <2>3 DEF s, B
<1>2. neededcluster(size) = IF size = 0 \/ n > cc THEN 0 ELSE n
  BY DEF neededcluster, Loaded
<1>0. n = ((size + cs - 1) % W) \div cs
  OBVIOUS
<1> HIDE DEF cs, W, cc, n
<1>3. /\ n \in Nat
      /\ size + cs > W => n = 0
      /\ size + cs <= W /\ size > 0 => n > 0 /\ n * cs >= size /\ (n - 1) * cs < size
  <2>1. PICK a \in Nat, b \in Nat, s \in Nat : a = cs /\ b = W /\ s = size
    BY <1>1
  <2>2. a > 0 /\ a <= b /\ s < b
    BY <1>1, <2>1
  <2>3. n = ((s + a - 1) % b) \div a
    BY <1>0, <2>1
  <2>4. \A x : x = ((s + a - 1) % b) \div a =>
          /\ x \in Nat
          /\ s + a > b => x = 0
          /\ s + a <= b /\ s > 0 => x > 0 /\ x * a >= s /\ (x - 1) * a < s
    BY <2>1, <2>2, LeastCount
  <2> QED BY <2>1, <2>3, <2>4, Zenon
<1>4. CASE size = 0 \/ size + cs > W
  BY <1>1, <1>2, <1>3, <1>4 DEF cs, W
<1>5. CASE size > 0 /\ size + cs <= W /\ n > cc
  <2>1. size > cc * cs
    <3>1. cs * cc <= cs * (n - 1)
      <4>1. n - 1 \in Nat /\ cc <= n - 1
        BY <1>1, <1>3, <1>5
      <4> QED BY <1>1, <4>1, Product
    <3>2. cs * cc = cc * cs /\ cs * (n - 1) = (n - 1) * cs /\ cc * cs \in Nat
          /\ (n - 1) * cs \in Int
      BY <1>1, <1>3
    <3> QED BY <1>1, <1>3, <1>5, <3>1, <3>2
  <2> QED BY <1>2, <1>5, <2>1 DEF cs, cc
<1>6. CASE size > 0 /\ size + cs <= W /\ ~(n > cc)
  BY <1>1, <1>2, <1>3, <1>6 DEF cs
<1> QED BY <1>1, <1>4, <1>5, <1>6

LEMMA FreeIsBounded ==
  ASSUME Loaded
  PROVE  get_free_cluster_count \in Int /\ get_free_cluster_count <= getclustercount
<1>1. CASE isfat32type /\ fat.fs_info.valid /\ fat.fs_info.free <= getclustercount
  BY <1>1 DEF get_free_cluster_count, Loaded
<1>2. CASE ~(isfat32type /\ fat.fs_info.valid /\ fat.fs_info.free <= getclustercount)
  <2> DEFINE m == fat_max_cluster
             D == DataClusters
             n == getclustercount
  <2>1. m \in Nat /\ n \in Nat /\ ((m = 0 /\ n = 0) \/ (m = n + 1 /\ n > 0))
    <3>1. n \in Nat /\ m = IF n = 0 THEN 0 ELSE n + 1
      BY VolumeNumbers DEF fat_max_cluster
    <3> HIDE DEF m, n
    <3> QED BY <3>1
  <2>2. D = 2..m
    BY DEF DataClusters
  <2> HIDE DEF m, n, D
  <2>3. IsFiniteSet(D) /\ Cardinality(D) = n
    <3>1. IsFiniteSet(2..m) /\ Cardinality(2..m) = IF 2 > m THEN 0 ELSE m - 2 + 1
      BY <2>1, FS_Interval
    <3> QED BY <2>1, <2>2, <3>1
  <2>4. Cardinality(D \ used) \in Nat /\ Cardinality(D \ used) <= n
    BY <2>3, FS_Subset, FS_CardinalityType
  <2> QED BY <1>2, <2>1, <2>4 DEF get_free_cluster_count, n, D
<1> QED BY <1>1, <1>2

LEMMA VolumeStarts == VolumeInit => VolInv
BY DEF VolumeInit, VolInv

LEMMA LoadedKept ==
  ASSUME Loaded, UNCHANGED <<main_partition, fat>>
  PROVE  Loaded' /\ getclustercount' = getclustercount
BY DEF Loaded, isfattype, isfat16type, isfat32type, getclustercount, getdatasectorcount,
       getfatsize, getrootdirsectorscount

LEMMA VolumeSteps == VolInv /\ [VolumeNext]_volumeVars => VolInv'
<1> SUFFICES ASSUME VolInv, [VolumeNext]_volumeVars PROVE VolInv'
  OBVIOUS
<1>1. CASE UNCHANGED volumeVars
  BY <1>1, LoadedKept DEF VolInv, volumeVars
<1>2. CASE loadmbr
  <2>1. active_partition = -1 /\ fat = NoFat /\ f_bfree = -1 /\ disk \in Images
        /\ UNCHANGED <<disk, fat, f_bfree>>
    BY <1>2 DEF loadmbr, VolInv
  <2>2. main_partition'.lba_start \in Nat
    <3> DEFINE flagged == {i \in 0..(MAX_PARTITION - 1) : disk.partition[i].active}
    <3>1. CASE /\ flagged # {}
               /\ active_partition' = CHOOSE i \in flagged : \A k \in flagged : i <= k
               /\ main_partition' = [type |-> disk.partition[active_partition'].type,
                                     lba_start |-> disk.partition[active_partition'].lba_start]
      <4>1. flagged \subseteq 0..(MAX_PARTITION - 1) /\ flagged \subseteq Nat
        OBVIOUS
      <4> HIDE DEF flagged
      <4>2. \E i \in flagged : \A k \in flagged : i <= k
        BY <3>1, <4>1, LeastNat
      <4>3. active_partition' \in flagged
        BY <3>1, <4>2
      <4>4. disk.partition[active_partition'].lba_start \in Nat
        BY <2>1, <4>1, <4>3, VolumeAssumption
      <4> QED BY <3>1, <4>4
    <3>2. CASE main_partition' = [type |-> disk.label, lba_start |-> 0]
      BY <3>2
    <3> QED BY <1>2, <3>1, <3>2 DEF loadmbr
  <2> QED BY <2>1, <2>2 DEF VolInv
<1>3. CASE loadfat
  <2> DEFINE boot == disk.boot[main_partition.lba_start]
  <2>1. /\ active_partition # -1 /\ fat = NoFat /\ f_bfree = -1 /\ disk \in Images
        /\ main_partition.lba_start \in Nat /\ main_partition.lba_start \in DOMAIN disk.boot
        /\ UNCHANGED <<disk, active_partition, main_partition, f_bfree>>
        /\ isfattype /\ boot.signed /\ boot.bytes = SECTORSIZE
        /\ boot.sector_per_cluster # 0 /\ boot.number_fats # 0 /\ fat' = boot
    BY <1>3 DEF loadfat, VolInv
  <2>2. /\ {boot.reserved, boot.number_fats, boot.root_entries, boot.fat_size_16,
            boot.fat_size_32, boot.total_sectors_16, boot.total_sectors_32,
            boot.sector_per_cluster, boot.fs_info.free} \subseteq Nat
        /\ boot.sector_per_cluster * SECTORSIZE <= SizeWord
    BY <2>1, VolumeAssumption, Zenon
  <2> HIDE DEF boot
  <2>3. boot # NoFat
    BY <2>1 DEF NoFat
  <2>4. boot.sector_per_cluster > 0 /\ boot.number_fats > 0
    BY <2>1, <2>2
  <2>5. Loaded'
    BY <2>1, <2>2, <2>4 DEF Loaded, isfattype, isfat16type, isfat32type
  <2>6. getclustercount' \in Nat
    <3>1. (Loaded => getclustercount \in Nat)'
      BY VolumeNumbers, PTL
    <3> QED BY <2>5, <3>1
  <2> QED BY <2>1, <2>3, <2>5, <2>6 DEF VolInv
<1>4. CASE writecluster
  BY <1>4, LoadedKept DEF VolInv, writecluster
<1>5. CASE fat_statfs
  <2>1. /\ fat # NoFat /\ Loaded /\ f_bfree' = get_free_cluster_count
        /\ UNCHANGED <<disk, active_partition, main_partition, fat>>
    BY <1>5 DEF VolInv, fat_statfs
  <2> QED BY <2>1, LoadedKept, FreeIsBounded DEF VolInv
<1> QED BY <1>1, <1>2, <1>3, <1>4, <1>5 DEF VolumeNext

LEMMA InvIsSound == VolInv => VolumeIsSound
BY ArrayOfEntries, ApartIsData, NeededIs DEF VolInv, VolumeIsSound

-----------------------------------------------------------------------------
(* The extended attributes: the table is a map.                            *)

AttrKeys == PathTexts \X AttrNames
InUse(i) == fat_xattr_table[i].used

\* An entry is in use for one key, with the value promised under it, and each promise
\* has its entry.
EntriesTyped ==
  /\ DOMAIN fat_xattr_table = Entries
  /\ \A i \in Entries :
       \/ fat_xattr_table[i] = Unused
       \/ \E k \in AttrKeys, v \in Values :
            fat_xattr_table[i] = [used |-> TRUE, key |-> k, value |-> v]
  /\ promised \in [AttrKeys -> Values \cup {NoValue}]
EntriesPromised ==
  \A i \in Entries : InUse(i) => fat_xattr_table[i].value = promised[fat_xattr_table[i].key]
KeysApart ==
  \A i, j \in Entries :
    InUse(i) /\ InUse(j) /\ fat_xattr_table[i].key = fat_xattr_table[j].key => i = j
PromisesHeld ==
  \A k \in AttrKeys : promised[k] # NoValue =>
    \E i \in Entries : InUse(i) /\ fat_xattr_table[i].key = k

TableInv == EntriesTyped /\ EntriesPromised /\ KeysApart /\ PromisesHeld

\* What the latest call returned, and why.
Answered ==
  \/ attrReturn = "none" /\ asked = <<>>
  \/ /\ asked \in AttrKeys
     /\ \/ attrReturn \in Values /\ promised[asked] = attrReturn
        \/ attrReturn \in {"set", "EEXIST"} /\ promised[asked] # NoValue
        \/ attrReturn \in {"ENODATA", "removed"} /\ promised[asked] = NoValue
        \/ attrReturn = "ENOSPC" /\ \A i \in Entries : InUse(i)

AttrInv == TableInv /\ Answered

LEMMA UsedIs ==
  ASSUME EntriesTyped, NEW i \in Entries
  PROVE  /\ InUse(i) \in BOOLEAN
         /\ InUse(i) => /\ fat_xattr_table[i].key \in AttrKeys
                       /\ fat_xattr_table[i].value \in Values
                       /\ fat_xattr_table[i] = [used |-> TRUE, key |-> fat_xattr_table[i].key,
                                                value |-> fat_xattr_table[i].value]
         /\ ~InUse(i) => fat_xattr_table[i] = Unused
<1>1. ASSUME fat_xattr_table[i] = Unused PROVE InUse(i) = FALSE
  BY <1>1 DEF InUse, Unused
<1>2. ASSUME NEW k \in AttrKeys, NEW v \in Values,
             fat_xattr_table[i] = [used |-> TRUE, key |-> k, value |-> v]
      PROVE  /\ InUse(i) = TRUE
             /\ fat_xattr_table[i].key = k /\ fat_xattr_table[i].value = v
  BY <1>2 DEF InUse
<1>3. CASE fat_xattr_table[i] = Unused
  BY <1>1, <1>3
<1>4. CASE \E k \in AttrKeys, v \in Values :
             fat_xattr_table[i] = [used |-> TRUE, key |-> k, value |-> v]
  <2>1. PICK k \in AttrKeys, v \in Values :
          fat_xattr_table[i] = [used |-> TRUE, key |-> k, value |-> v]
    BY <1>4
  <2> QED BY <1>2, <2>1
<1> QED BY <1>3, <1>4 DEF EntriesTyped

LEMMA FindIs ==
  ASSUME TableInv, NEW k \in AttrKeys
  PROVE  /\ fat_xattr_find(k) \subseteq Entries
         /\ \A i \in Entries :
              i \in fat_xattr_find(k) <=> InUse(i) /\ fat_xattr_table[i].key = k
         /\ fat_xattr_find(k) = {} <=> promised[k] = NoValue
         /\ fat_xattr_find(k) # {} =>
              /\ FirstEntry(fat_xattr_find(k)) \in fat_xattr_find(k)
              /\ fat_xattr_find(k) = {FirstEntry(fat_xattr_find(k))}
              /\ promised[k] = fat_xattr_table[FirstEntry(fat_xattr_find(k))].value
              /\ promised[k] \in Values
<1>1. /\ fat_xattr_find(k) \subseteq Entries
      /\ \A i \in Entries : i \in fat_xattr_find(k) <=> InUse(i) /\ fat_xattr_table[i].key = k
  BY DEF fat_xattr_find, InUse
<1>2. \A i \in fat_xattr_find(k) :
        promised[k] = fat_xattr_table[i].value /\ promised[k] \in Values
  BY <1>1, UsedIs DEF TableInv, EntriesPromised
<1>3. fat_xattr_find(k) = {} <=> promised[k] = NoValue
  BY <1>1, <1>2, AttributesAssumption DEF TableInv, PromisesHeld
<1>4. ASSUME NEW i \in fat_xattr_find(k)
      PROVE  fat_xattr_find(k) = {i} /\ FirstEntry(fat_xattr_find(k)) = i
  <2>1. fat_xattr_find(k) = {i}
    BY <1>1, <1>4 DEF TableInv, KeysApart
  <2>2. i \in Int
    BY <1>1, <1>4, AttributesAssumption DEF Entries
  <2>3. \A j \in {i} : (\A m \in {i} : j <= m) => j = i
    OBVIOUS
  <2>4. \A m \in {i} : i <= m
    BY <2>2
  <2> QED BY <2>1, <2>2, <2>3, <2>4 DEF FirstEntry
<1> QED BY <1>1, <1>2, <1>3, <1>4

LEMMA FreeIs ==
  ASSUME TableInv, fat_xattr_find_free # {}
  PROVE  FirstEntry(fat_xattr_find_free) \in Entries /\ ~InUse(FirstEntry(fat_xattr_find_free))
<1> DEFINE S == fat_xattr_find_free
<1>1. S \subseteq Nat /\ S # {} /\ \A i \in S : i \in Entries /\ ~InUse(i)
  BY AttributesAssumption DEF Entries, fat_xattr_find_free, InUse
<1> HIDE DEF S
<1>2. PICK i \in S : \A m \in S : i <= m
  BY <1>1, LeastNat
<1> QED BY <1>1, <1>2 DEF FirstEntry, S


\* The table after an entry was written or cleared.
LEMMA TableStays ==
  ASSUME TableInv, UNCHANGED <<fat_xattr_table, promised>>
  PROVE  TableInv'
BY DEF TableInv, EntriesTyped, EntriesPromised, KeysApart, PromisesHeld, InUse

Sets(t, k, v) ==
  /\ fat_xattr_table' = [fat_xattr_table EXCEPT ![t] = [used |-> TRUE, key |-> k, value |-> v]]
  /\ promised' = [promised EXCEPT ![k] = v]

LEMMA SetKeeps ==
  ASSUME TableInv, NEW k \in AttrKeys, NEW v \in Values, NEW t \in Entries,
         \A i \in Entries : InUse(i) /\ fat_xattr_table[i].key = k => i = t,
         InUse(t) => fat_xattr_table[t].key = k,
         Sets(t, k, v)
  PROVE  TableInv' /\ promised'[k] = v
<1>1. /\ DOMAIN fat_xattr_table' = Entries
      /\ \A i \in Entries : fat_xattr_table'[i] =
           IF i = t THEN [used |-> TRUE, key |-> k, value |-> v] ELSE fat_xattr_table[i]
  BY DEF TableInv, EntriesTyped, Sets
<1>2. /\ promised' \in [AttrKeys -> Values \cup {NoValue}]
      /\ \A m \in AttrKeys : promised'[m] = IF m = k THEN v ELSE promised[m]
  BY DEF TableInv, EntriesTyped, Sets
<1>3. /\ InUse(t)' /\ fat_xattr_table'[t].key = k /\ fat_xattr_table'[t].value = v
      /\ \A i \in Entries \ {t} : /\ fat_xattr_table'[i] = fat_xattr_table[i]
                                  /\ InUse(i)' = InUse(i)
  BY <1>1 DEF InUse
<1>4. EntriesTyped'
  <2>1. ASSUME NEW i \in Entries
        PROVE  \/ fat_xattr_table'[i] = Unused
               \/ \E m \in AttrKeys, w \in Values :
                    fat_xattr_table'[i] = [used |-> TRUE, key |-> m, value |-> w]
    <3>1. CASE i = t
      BY <1>1, <3>1
    <3>2. CASE i # t
      BY <1>3, <3>2 DEF TableInv, EntriesTyped
    <3> QED BY <3>1, <3>2
  <2> QED BY <1>1, <1>2, <2>1 DEF EntriesTyped
<1>5. EntriesPromised'
  <2> SUFFICES ASSUME NEW i \in Entries, InUse(i)'
               PROVE  fat_xattr_table'[i].value = promised'[fat_xattr_table'[i].key]
    BY DEF EntriesPromised
  <2>1. CASE i = t
    BY <1>2, <1>3, <2>1
  <2>2. CASE i # t
    <3>1. InUse(i) /\ fat_xattr_table[i].key # k
      BY <1>3, <2>2
    <3>2. fat_xattr_table[i].value = promised[fat_xattr_table[i].key]
          /\ fat_xattr_table[i].key \in AttrKeys
      BY <3>1, UsedIs DEF TableInv, EntriesPromised
    <3> QED BY <1>2, <1>3, <2>2, <3>1, <3>2
  <2> QED BY <2>1, <2>2
<1>6. KeysApart'
  <2> SUFFICES ASSUME NEW i \in Entries, NEW j \in Entries, InUse(i)', InUse(j)',
                      fat_xattr_table'[i].key = fat_xattr_table'[j].key
               PROVE  i = j
    BY DEF KeysApart
  <2> QED BY <1>3 DEF TableInv, KeysApart
<1>7. PromisesHeld'
  <2> SUFFICES ASSUME NEW m \in AttrKeys, promised'[m] # NoValue
               PROVE  \E i \in Entries : InUse(i)' /\ fat_xattr_table'[i].key = m
    BY DEF PromisesHeld
  <2>1. CASE m = k
    BY <1>3, <2>1
  <2>2. CASE m # k
    <3>1. PICK i \in Entries : InUse(i) /\ fat_xattr_table[i].key = m
      BY <1>2, <2>2 DEF TableInv, PromisesHeld
    <3>2. i # t
      BY <2>2, <3>1
    <3> QED BY <1>3, <3>1, <3>2
  <2> QED BY <2>1, <2>2
<1> QED BY <1>2, <1>4, <1>5, <1>6, <1>7 DEF TableInv

LEMMA RemoveKeeps ==
  ASSUME TableInv, NEW k \in AttrKeys, NEW t \in Entries,
         InUse(t), fat_xattr_table[t].key = k,
         fat_xattr_table' = [fat_xattr_table EXCEPT ![t] = Unused],
         promised' = [promised EXCEPT ![k] = NoValue]
  PROVE  TableInv' /\ promised'[k] = NoValue
<1>1. /\ DOMAIN fat_xattr_table' = Entries
      /\ \A i \in Entries : fat_xattr_table'[i] = IF i = t THEN Unused ELSE fat_xattr_table[i]
  BY DEF TableInv, EntriesTyped
<1>2. /\ promised' \in [AttrKeys -> Values \cup {NoValue}]
      /\ \A m \in AttrKeys : promised'[m] = IF m = k THEN NoValue ELSE promised[m]
  BY DEF TableInv, EntriesTyped
<1>3. /\ ~InUse(t)'
      /\ \A i \in Entries \ {t} : /\ fat_xattr_table'[i] = fat_xattr_table[i]
                                  /\ InUse(i)' = InUse(i)
  BY <1>1 DEF InUse, Unused
<1>4. EntriesTyped'
  <2>1. ASSUME NEW i \in Entries
        PROVE  \/ fat_xattr_table'[i] = Unused
               \/ \E m \in AttrKeys, w \in Values :
                    fat_xattr_table'[i] = [used |-> TRUE, key |-> m, value |-> w]
    <3>1. CASE i = t
      BY <1>1, <3>1
    <3>2. CASE i # t
      BY <1>3, <3>2 DEF TableInv, EntriesTyped
    <3> QED BY <3>1, <3>2
  <2> QED BY <1>1, <1>2, <2>1 DEF EntriesTyped
<1>5. EntriesPromised'
  <2> SUFFICES ASSUME NEW i \in Entries, InUse(i)'
               PROVE  fat_xattr_table'[i].value = promised'[fat_xattr_table'[i].key]
    BY DEF EntriesPromised
  <2>1. i # t /\ InUse(i) /\ fat_xattr_table'[i] = fat_xattr_table[i]
    BY <1>3
  <2>2. fat_xattr_table[i].key # k
    BY <2>1 DEF TableInv, KeysApart
  <2>3. fat_xattr_table[i].value = promised[fat_xattr_table[i].key]
        /\ fat_xattr_table[i].key \in AttrKeys
    BY <2>1, UsedIs DEF TableInv, EntriesPromised
  <2> QED BY <1>2, <2>1, <2>2, <2>3
<1>6. KeysApart'
  BY <1>3 DEF TableInv, KeysApart
<1>7. PromisesHeld'
  <2> SUFFICES ASSUME NEW m \in AttrKeys, promised'[m] # NoValue
               PROVE  \E i \in Entries : InUse(i)' /\ fat_xattr_table'[i].key = m
    BY DEF PromisesHeld
  <2>1. m # k /\ promised[m] # NoValue
    BY <1>2
  <2>2. PICK i \in Entries : InUse(i) /\ fat_xattr_table[i].key = m
    BY <2>1 DEF TableInv, PromisesHeld
  <2> QED BY <1>3, <2>1, <2>2
<1> QED BY <1>2, <1>4, <1>5, <1>6, <1>7 DEF TableInv

LEMMA AttrStarts == AttrInit => AttrInv
BY DEF AttrInit, AttrInv, TableInv, EntriesTyped, EntriesPromised, KeysApart, PromisesHeld,
       Answered, InUse, Unused, AttrKeys

LEMMA SetAnswers ==
  ASSUME AttrInv, NEW k \in AttrKeys, NEW v \in Values, NEW f \in XattrFlags,
         fat_setxattr(k, v, f)
  PROVE  AttrInv'
<1> DEFINE found == fat_xattr_find(k)
           target == IF found # {} THEN found ELSE fat_xattr_find_free
<1>1. TableInv /\ asked' = k
  BY DEF AttrInv, fat_setxattr
<1>2. CASE found # {} /\ f = "create"
  <2>1. attrReturn' = "EEXIST" /\ UNCHANGED <<fat_xattr_table, promised>>
    BY <1>2 DEF fat_setxattr
  <2>2. promised'[k] # NoValue
    BY <1>1, <1>2, <2>1, FindIs
  <2> QED BY <1>1, <2>1, <2>2, TableStays DEF AttrInv, Answered
<1>3. CASE found = {} /\ f = "replace"
  <2>1. attrReturn' = "ENODATA" /\ UNCHANGED <<fat_xattr_table, promised>>
    BY <1>3 DEF fat_setxattr
  <2>2. promised'[k] = NoValue
    BY <1>1, <1>3, <2>1, FindIs
  <2> QED BY <1>1, <2>1, <2>2, TableStays DEF AttrInv, Answered
<1>4. CASE ~(found # {} /\ f = "create") /\ ~(found = {} /\ f = "replace") /\ target = {}
  <2>1. attrReturn' = "ENOSPC" /\ UNCHANGED <<fat_xattr_table, promised>>
    BY <1>4 DEF fat_setxattr
  <2>2. \A i \in Entries : InUse(i)'
    BY <1>1, <1>4, <2>1, UsedIs DEF fat_xattr_find_free, InUse, TableInv
  <2> QED BY <1>1, <2>1, <2>2, TableStays DEF AttrInv, Answered
<1>5. CASE ~(found # {} /\ f = "create") /\ ~(found = {} /\ f = "replace") /\ target # {}
  <2>1. PICK t \in Entries :
          /\ t = FirstEntry(target) /\ (InUse(t) => fat_xattr_table[t].key = k)
          /\ \A i \in Entries : InUse(i) /\ fat_xattr_table[i].key = k => i = t
    <3>1. CASE found # {}
      BY <1>1, <3>1, FindIs
    <3>2. CASE found = {}
      BY <1>1, <1>5, <3>2, FindIs, FreeIs
    <3> QED BY <3>1, <3>2
  <2>2. attrReturn' = "set" /\ Sets(t, k, v)
    BY <1>5, <2>1 DEF fat_setxattr, Sets
  <2>3. TableInv' /\ promised'[k] = v
    <3>1. \A i \in Entries : InUse(i) /\ fat_xattr_table[i].key = k => i = t
      BY <2>1
    <3>2. InUse(t) => fat_xattr_table[t].key = k
      BY <2>1
    <3>3. TableInv /\ Sets(t, k, v)
      BY <1>1, <2>2
    <3> HIDE DEF found, target
    <3>4. TableInv'
      BY <3>1, <3>2, <3>3, SetKeeps
    <3>5. promised'[k] = v
      BY <3>1, <3>2, <3>3, SetKeeps
    <3> QED BY <3>4, <3>5
  <2> QED BY <1>1, <2>2, <2>3, AttributesAssumption DEF AttrInv, Answered
<1> QED BY <1>2, <1>3, <1>4, <1>5

LEMMA AttrSteps == AttrInv /\ [AttrNext]_attrVars => AttrInv'
<1> SUFFICES ASSUME AttrInv, [AttrNext]_attrVars PROVE AttrInv'
  OBVIOUS
<1>1. CASE UNCHANGED attrVars
  <2>1. TableInv'
    BY <1>1, TableStays DEF AttrInv, attrVars
  <2>2. Answered'
    BY <1>1 DEF AttrInv, Answered, attrVars, InUse
  <2> QED BY <2>1, <2>2 DEF AttrInv
<1>2. ASSUME NEW k \in AttrKeys, NEW v \in Values, NEW f \in XattrFlags, fat_setxattr(k, v, f)
      PROVE  AttrInv'
  BY <1>2, SetAnswers
<1>3. ASSUME NEW k \in AttrKeys, fat_getxattr(k) PROVE AttrInv'
  <2>1. /\ TableInv /\ asked' = k /\ UNCHANGED <<fat_xattr_table, promised>>
        /\ attrReturn' = IF fat_xattr_find(k) = {} THEN "ENODATA"
                         ELSE fat_xattr_table[FirstEntry(fat_xattr_find(k))].value
    BY <1>3 DEF AttrInv, fat_getxattr
  <2>2. \/ attrReturn' \in Values /\ promised'[k] = attrReturn'
        \/ attrReturn' = "ENODATA" /\ promised'[k] = NoValue
    BY <2>1, FindIs
  <2> QED BY <2>1, <2>2, TableStays DEF AttrInv, Answered
<1>4. ASSUME NEW k \in AttrKeys, fat_removexattr(k) PROVE AttrInv'
  <2>1. TableInv /\ asked' = k
    BY <1>4 DEF AttrInv, fat_removexattr
  <2>2. CASE fat_xattr_find(k) = {}
    <3>1. attrReturn' = "ENODATA" /\ UNCHANGED <<fat_xattr_table, promised>>
      BY <1>4, <2>2 DEF fat_removexattr
    <3>2. promised'[k] = NoValue
      BY <2>1, <2>2, <3>1, FindIs
    <3> QED BY <2>1, <3>1, <3>2, TableStays DEF AttrInv, Answered
  <2>3. CASE fat_xattr_find(k) # {}
    <3> DEFINE t == FirstEntry(fat_xattr_find(k))
    <3>1. /\ attrReturn' = "removed" /\ promised' = [promised EXCEPT ![k] = NoValue]
          /\ fat_xattr_table' = [fat_xattr_table EXCEPT ![t] = Unused]
      BY <1>4, <2>3 DEF fat_removexattr
    <3>2. t \in Entries /\ InUse(t) /\ fat_xattr_table[t].key = k
      BY <2>1, <2>3, FindIs
    <3> HIDE DEF t
    <3>3. TableInv' /\ promised'[k] = NoValue
      BY <2>1, <3>1, <3>2, RemoveKeeps
    <3> QED BY <2>1, <3>1, <3>3 DEF AttrInv, Answered
  <2> QED BY <2>2, <2>3
<1> QED BY <1>1, <1>2, <1>3, <1>4 DEF AttrNext, AttrKeys

\* A full table holds as many promises as it has entries.
LEMMA FullTable ==
  ASSUME TableInv, \A i \in Entries : InUse(i)
  PROVE  Cardinality({k \in DOMAIN promised : promised[k] # NoValue}) = FAT_XATTR_MAX_ENTRIES
<1> DEFINE P == {k \in DOMAIN promised : promised[k] # NoValue}
           f == [i \in Entries |-> fat_xattr_table[i].key]
<1>1. DOMAIN promised = AttrKeys
  BY DEF TableInv, EntriesTyped
<1>2. \A i \in Entries : f[i] \in P
  BY <1>1, UsedIs, AttributesAssumption DEF TableInv, EntriesPromised
<1>3. \A i, j \in Entries : f[i] = f[j] => i = j
  BY DEF TableInv, KeysApart
<1>4. \A k \in P : \E i \in Entries : f[i] = k
  BY <1>1 DEF TableInv, PromisesHeld
<1>5. f \in Bijection(Entries, P)
  BY <1>2, <1>3, <1>4, Fun_IsBij
<1>6. ExistsBijection(Entries, P)
  BY <1>5 DEF ExistsBijection
<1>7. IsFiniteSet(Entries) /\ Cardinality(Entries) = FAT_XATTR_MAX_ENTRIES
  BY AttributesAssumption, FS_Interval DEF Entries
<1> QED BY <1>6, <1>7, FS_Bijection

LEMMA TableIsMap == AttrInv => AttributesAreAMap
<1> SUFFICES ASSUME AttrInv PROVE AttributesAreAMap
  OBVIOUS
<1>1. TableInv /\ Answered /\ DOMAIN promised = AttrKeys
  BY DEF AttrInv, TableInv, EntriesTyped
<1>2. ASSUME NEW k \in AttrKeys
      PROVE  /\ Cardinality(fat_xattr_find(k)) = IF promised[k] = NoValue THEN 0 ELSE 1
             /\ \A i \in fat_xattr_find(k) : fat_xattr_table[i].value = promised[k]
  <2>1. CASE fat_xattr_find(k) = {}
    BY <1>1, <2>1, FindIs, FS_EmptySet
  <2>2. CASE fat_xattr_find(k) # {}
    <3> DEFINE F == fat_xattr_find(k)
               i == FirstEntry(F)
    <3>1. F = {i} /\ promised[k] = fat_xattr_table[i].value /\ promised[k] # NoValue
      BY <1>1, <2>2, FindIs, AttributesAssumption
    <3> HIDE DEF i
    <3>2. Cardinality(F) = 1
      <4> HIDE DEF F
      <4> QED BY <3>1, FS_Singleton
    <3> QED BY <3>1, <3>2
  <2> QED BY <2>1, <2>2
<1>3. CASE attrReturn = "none" /\ asked = <<>>
  <2>1. attrReturn \notin Values \cup {"set", "EEXIST", "ENODATA", "removed", "ENOSPC"}
    BY <1>3, AttributesAssumption
  <2> QED BY <1>1, <1>2, <1>3, <2>1, Zenon DEF AttributesAreAMap, fat_xattr_find
<1>4. CASE asked \in AttrKeys /\ attrReturn \in Values /\ promised[asked] = attrReturn
  <2>1. promised[asked] # NoValue
        /\ attrReturn \notin {"set", "EEXIST", "ENODATA", "removed", "ENOSPC"}
    BY <1>4, AttributesAssumption
  <2> QED BY <1>1, <1>2, <1>4, <2>1, Zenon DEF AttributesAreAMap, fat_xattr_find
<1>5. CASE attrReturn \in {"set", "EEXIST"} /\ promised[asked] # NoValue
  <2>1. attrReturn \notin Values \cup {"ENODATA", "removed", "ENOSPC"}
    BY <1>5, AttributesAssumption
  <2> QED BY <1>1, <1>2, <1>5, <2>1, Zenon DEF AttributesAreAMap, fat_xattr_find
<1>6. CASE attrReturn \in {"ENODATA", "removed"} /\ promised[asked] = NoValue
  <2>1. attrReturn \notin Values \cup {"set", "EEXIST", "ENOSPC"}
    BY <1>6, AttributesAssumption
  <2> QED BY <1>1, <1>2, <1>6, <2>1, Zenon DEF AttributesAreAMap, fat_xattr_find
<1>7. CASE attrReturn = "ENOSPC" /\ \A i \in Entries : InUse(i)
  <2>1. attrReturn \notin Values \cup {"set", "EEXIST", "ENODATA", "removed"}
    BY <1>7, AttributesAssumption
  <2> QED BY <1>1, <1>2, <1>7, <2>1, FullTable, Zenon DEF AttributesAreAMap, fat_xattr_find
<1> QED BY <1>1, <1>3, <1>4, <1>5, <1>6, <1>7 DEF Answered

-----------------------------------------------------------------------------
(* The parts side by side.                                                 *)

\* The volume and the attributes keep their invariants, and what they mean, whatever
\* part of the file system runs.
THEOREM VolumeAlwaysKeeps == MCSpec => []VolumeKeeps
<1> DEFINE Inv == VolInv /\ AttrInv
           allVars == <<part, vars, dirVars, volumeVars, sortVars, attrVars>>
<1>1. MCInit => Inv
  BY VolumeStarts, AttrStarts DEF MCInit
<1>2. Inv /\ [MCNext]_allVars => Inv'
  <2> SUFFICES ASSUME Inv, [MCNext]_allVars PROVE Inv'
    OBVIOUS
  <2>1. [VolumeNext]_volumeVars
    BY DEF MCNext
  <2>2. [AttrNext]_attrVars
    BY DEF MCNext
  <2> QED BY <2>1, <2>2, VolumeSteps, AttrSteps
<1>3. Inv => VolumeKeeps
  BY InvIsSound, TableIsMap DEF VolumeKeeps
<1> QED BY <1>1, <1>2, <1>3, PTL DEF MCSpec

=============================================================================
