--------------------------- MODULE DirectoryProofs ---------------------------
(***************************************************************************)
(* Theorems about Directory and Searches, for every size of the directory  *)
(* and of its sectors and every set of names, and about Sorting, for every *)
(* number of elements and every keys.                                      *)
(***************************************************************************)
EXTENDS FilesProofs

-----------------------------------------------------------------------------
(* Numbers and sets.                                                       *)

\* Induction over the subsets of a finite set.
LEMMA SubsetsInTurn ==
  ASSUME NEW S, IsFiniteSet(S), NEW G,
         \A s \in SUBSET S : (\A t \in SUBSET s : t # s => t \in G) => s \in G
  PROVE  \A s \in SUBSET S : s \in G
<1> DEFINE Bad == {s \in SUBSET S : s \notin G}
<1> SUFFICES ASSUME Bad # {} PROVE FALSE
  OBVIOUS
<1>1. IsWellFoundedOn(StrictSubsetOrdering(S), SUBSET S)
  <2>1. FiniteSubsetsOf(S) = SUBSET S
    BY FS_FiniteSubsetsOfFinite
  <2>2. IsWellFoundedOn(StrictSubsetOrdering(S), FiniteSubsetsOf(S))
    BY FS_StrictSubsetOrderingWellFounded
  <2> QED
    BY <2>1, <2>2, Zenon
<1>2. PICK s \in Bad : \A t \in Bad : <<t, s>> \notin StrictSubsetOrdering(S)
  <2>1. Bad \subseteq SUBSET S
    OBVIOUS
  <2> HIDE DEF Bad
  <2>2. \E s \in Bad : \A t \in Bad : ~ (<<t, s>> \in StrictSubsetOrdering(S))
    BY <1>1, <2>1, WFMin, SMT
  <2> QED
    BY <2>2
<1>3. \A t \in SUBSET s : t # s => t \in G
  BY <1>2 DEF StrictSubsetOrdering
<1> QED
  BY <1>2, <1>3

\* A finite set of numbers has a greatest member and a least one.
LEMMA MaxIs ==
  ASSUME NEW S \in SUBSET Nat, IsFiniteSet(S), S # {}
  PROVE  Max(S) \in S /\ \A x \in S : x <= Max(S)
<1> DEFINE G == {s \in SUBSET S : s = {} \/ \E m \in s : \A x \in s : m >= x}
<1>1. ASSUME NEW s \in SUBSET S, \A t \in SUBSET s : t # s => t \in G
      PROVE  s \in G
  <2> SUFFICES ASSUME s # {} PROVE \E m \in s : \A x \in s : m >= x
    OBVIOUS
  <2>1. PICK y : y \in s
    OBVIOUS
  <2>2. s \ {y} \in G
    <3>1. s \ {y} \in SUBSET s /\ s \ {y} # s
      BY <2>1
    <3> QED
      BY <1>1, <3>1
  <2>3. CASE s \ {y} = {}
    BY <2>1, <2>3
  <2>4. CASE s \ {y} # {}
    <3>1. PICK m \in s \ {y} : \A x \in s \ {y} : m >= x
      BY <2>2, <2>4
    <3>2. m \in Nat /\ y \in Nat /\ m \in s
      BY <2>1, <3>1
    <3>3. CASE m >= y
      BY <3>1, <3>2, <3>3
    <3>4. CASE y > m
      <4>1. \A x \in s : y >= x
        BY <3>1, <3>2, <3>4
      <4> QED
        BY <2>1, <4>1
    <3> QED
      BY <3>2, <3>3, <3>4
  <2> QED
    BY <2>3, <2>4
<1> HIDE DEF G
<1>2. S \in G
  BY <1>1, SubsetsInTurn
<1>3. \E m \in S : \A x \in S : m >= x
  BY <1>2 DEF G
<1>4. Max(S) \in S /\ \A x \in S : Max(S) >= x
  BY <1>3 DEF Max
<1>5. Max(S) \in Nat
  BY <1>4
<1> QED
  BY <1>4, <1>5

LEMMA MinIs ==
  ASSUME NEW S \in SUBSET Nat, S # {}
  PROVE  Min(S) \in S /\ \A x \in S : Min(S) <= x
BY LeastNat DEF Min

LEMMA SlotNumbers ==
  /\ Slots \in SUBSET Nat /\ IsFiniteSet(Slots) /\ 1 \in Slots
  /\ \A S \in SUBSET Slots : IsFiniteSet(S) /\ S \in SUBSET Nat
  /\ \A i \in Slots : \A j \in 1..i : j \in Slots
<1>1. Sectors * PerSector \in Nat /\ Sectors * PerSector >= 1
  BY DirectoryAssumption, Product
<1> DEFINE n == Sectors * PerSector
<1>2. Slots = 1..n
  BY DEF Slots
<1> HIDE DEF n
<1>3. n \in Nat /\ n >= 1
  BY <1>1 DEF n
<1>4. IsFiniteSet(Slots)
  BY <1>2, <1>3, FS_Interval
<1>5. \A S \in SUBSET Slots : IsFiniteSet(S)
  BY <1>4, FS_Subset
<1> QED
  BY <1>2, <1>3, <1>4, <1>5

LEMMA SectorsGrow ==
  ASSUME NEW i \in Nat, NEW j \in Nat, 1 <= i, i <= j
  PROVE  SectorOf(i) \in Nat /\ SectorOf(j) \in Nat /\ SectorOf(i) <= SectorOf(j)
<1> DEFINE a == i - 1
           b == j - 1
           p == PerSector
<1>1. a \in Nat /\ b \in Nat /\ a <= b /\ p \in Nat /\ p > 0
  BY DirectoryAssumption
<1>2. SectorOf(i) = a \div p /\ SectorOf(j) = b \div p
  BY DEF SectorOf
<1> HIDE DEF a, b, p
<1> DEFINE q == a \div p
           r == b \div p
<1>3. q \in Nat /\ r \in Nat /\ p * q <= a /\ b < p * r + p /\ p * q \in Nat /\ p * r \in Nat
  <2>1. q \in Nat /\ a % p \in 0 .. p - 1 /\ a = p * q + (a % p)
    BY <1>1, Divided
  <2>2. r \in Nat /\ b % p \in 0 .. p - 1 /\ b = p * r + (b % p)
    BY <1>1, Divided
  <2>3. p * q \in Nat /\ p * r \in Nat
    BY <1>1, <2>1, <2>2, Product
  <2> HIDE DEF q, r
  <2> QED
    BY <1>1, <2>1, <2>2, <2>3
<1> HIDE DEF q, r
<1>4. q <= r
  <2> SUFFICES ASSUME r + 1 <= q PROVE FALSE
    BY <1>3
  <2>1. p * (r + 1) <= p * q /\ p * (r + 1) = p * r + p
    BY <1>1, <1>3, Product
  <2> QED
    BY <1>1, <1>3, <2>1
<1> QED
  BY <1>2, <1>3, <1>4 DEF q, r

\* The first slot of the sector of slot i.
Start1(i) == SectorOf(i) * PerSector + 1

LEMMA SectorStarts ==
  ASSUME NEW i \in Slots
  PROVE  /\ Start1(i) \in 1..i
         /\ \A k \in Start1(i)..i : SectorOf(k) = SectorOf(i)
         /\ \A k \in Nat : 1 <= k /\ k < Start1(i) => SectorOf(k) < SectorOf(i)
<1> DEFINE p == PerSector
           s == SectorOf(i)
<1>1. i \in Nat /\ 1 <= i /\ p \in Nat /\ p > 0
  BY DirectoryAssumption, SlotNumbers DEF Slots
<1>2. /\ s \in Nat /\ p * s \in Nat /\ s * p = p * s /\ p * s <= i - 1 /\ i - 1 < p * s + p
  <2>1. i - 1 \in Nat
    BY <1>1
  <2>2. s = (i - 1) \div p
    BY DEF SectorOf
  <2> HIDE DEF s, p
  <2>3. s \in Nat /\ (i - 1) % p \in 0 .. p - 1 /\ i - 1 = p * s + ((i - 1) % p)
    BY <1>1, <2>1, <2>2, Divided
  <2>4. p * s \in Nat /\ s * p = p * s
    BY <1>1, <2>3, Product
  <2> QED
    BY <1>1, <2>3, <2>4
<1>3. Start1(i) = p * s + 1
  BY <1>2 DEF Start1
<1> HIDE DEF s, p
<1>4. Start1(i) \in 1..i
  BY <1>1, <1>2, <1>3
<1>5. ASSUME NEW k \in Start1(i)..i PROVE SectorOf(k) = SectorOf(i)
  <2> DEFINE r == k - 1 - p * s
  <2>1. r \in 0 .. p - 1 /\ k - 1 = p * s + r
    BY <1>1, <1>2, <1>3, <1>4
  <2> HIDE DEF r
  <2>2. (p * s + r) \div p = s
    BY <1>1, <1>2, <2>1, OneQuotient
  <2> QED
    BY <2>1, <2>2 DEF SectorOf, p, s
<1>6. ASSUME NEW k \in Nat, 1 <= k, k < Start1(i) PROVE SectorOf(k) < SectorOf(i)
  <2> DEFINE q == SectorOf(k)
  <2>1. k - 1 \in Nat
    BY <1>6
  <2>2. q = (k - 1) \div p
    BY DEF SectorOf, p
  <2> HIDE DEF q
  <2>3. q \in Nat /\ p * q <= k - 1 /\ p * q \in Nat
    <3>1. q \in Nat /\ (k - 1) % p \in 0 .. p - 1 /\ k - 1 = p * q + ((k - 1) % p)
      BY <1>1, <2>1, <2>2, Divided
    <3>2. p * q \in Nat
      BY <1>1, <3>1, Product
    <3> QED
      BY <1>1, <1>6, <3>1, <3>2
  <2>4. q < s
    <3> SUFFICES ASSUME s <= q PROVE FALSE
      BY <1>2, <2>3
    <3>1. p * s <= p * q
      BY <1>1, <1>2, <2>3, Product
    <3> QED
      BY <1>2, <1>3, <1>6, <2>3, <3>1
  <2> QED
    BY <2>4 DEF q, s
<1> QED
  BY <1>4, <1>5, <1>6

-----------------------------------------------------------------------------
(* What a slot may hold.                                                   *)

SlotValues ==
  {End, Deleted}
    \cup {Short(a, f, t) : a \in Aliases, f \in Chains, t \in {"file", "directory"}}
    \cup {Long(n, o) : n \in Names, o \in 1..Max(Range(lfn_entry_count))}
    \cup {Erased(Long(n, 1)) : n \in Names}

LEMMA PartCounts ==
  /\ Max(Range(lfn_entry_count)) \in Nat
  /\ \A n \in Names : /\ lfn_entry_count[n] \in Nat /\ lfn_entry_count[n] >= 1
                      /\ lfn_entry_count[n] <= Max(Range(lfn_entry_count))
<1> DEFINE R == Range(lfn_entry_count)
<1>1. /\ lfn_entry_count \in [Names -> Nat \ {0}] /\ IsFiniteSet(Names) /\ Names # {}
      /\ R = {lfn_entry_count[n] : n \in Names}
  BY DirectoryAssumption DEF Range
<1> HIDE DEF R
<1>2. IsFiniteSet(R)
  <2>1. lfn_entry_count \in Surjection(Names, R)
    BY <1>1 DEF Surjection
  <2> QED
    BY <1>1, <2>1, FS_Surjection
<1>3. R \in SUBSET Nat /\ R # {}
  BY <1>1
<1>4. Max(R) \in R /\ \A x \in R : x <= Max(R)
  BY <1>2, <1>3, MaxIs
<1>5. \A n \in Names : lfn_entry_count[n] \in R /\ lfn_entry_count[n] \in Nat \ {0}
  BY <1>1
<1> QED
  BY <1>3, <1>4, <1>5 DEF R

LEMMA ShortIs ==
  ASSUME NEW a, NEW f, NEW t
  PROVE  LET s == Short(a, f, t)
         IN  /\ s.kind = "short" /\ s.alias = a /\ s.file = f /\ s.attr = t
             /\ \A u : [s EXCEPT !.attr = u] = Short(a, f, u)
BY DEF Short

\* The part of a long name that was deleted.
Fields == {"kind", "name", "order", "last", "sum"}
Gone(n, sum) == [kind |-> "erased", name |-> n, order |-> 5, last |-> TRUE, sum |-> sum]

LEMMA ErasedIs ==
  ASSUME NEW s, DOMAIN s = Fields, s = [x \in Fields |-> s[x]]
  PROVE  Erased(s) = Gone(s.name, s.sum)
<1>1. Erased(s) = [x \in Fields |-> Erased(s)[x]]
  BY DEF Erased, Fields
<1>2. /\ Erased(s).kind = "erased" /\ Erased(s).order = 5 /\ Erased(s).last = TRUE
      /\ Erased(s).name = s.name /\ Erased(s).sum = s.sum
  BY DEF Erased, Fields
<1>3. Erased(s) = [x \in {"kind", "name", "order", "last", "sum"} |-> Erased(s)[x]]
  BY <1>1 DEF Fields
<1> QED
  BY <1>2, <1>3 DEF Gone

LEMMA LongIs ==
  ASSUME NEW n, NEW o
  PROVE  LET s == Long(n, o)
         IN  /\ s.kind = "long" /\ s.name = n /\ s.order = o
             /\ s.last = (o = lfn_entry_count[n]) /\ s.sum = lfn_checksum[dos_name[n]]
             /\ Erased(s) = Erased(Long(n, 1)) /\ Erased(s).kind = "erased"
             /\ Erased(Erased(s)) = Erased(s)
<1> DEFINE s == Long(n, o)
           gone == Gone(n, lfn_checksum[dos_name[n]])
<1>1. /\ s.kind = "long" /\ s.name = n /\ s.order = o
      /\ s.last = (o = lfn_entry_count[n]) /\ s.sum = lfn_checksum[dos_name[n]]
  BY DEF Long
<1>2. ASSUME NEW q PROVE Erased(Long(n, q)) = gone
  <2> DEFINE u == Long(n, q)
  <2>1. DOMAIN u = Fields /\ u = [x \in Fields |-> u[x]]
    BY DEF Long, Fields
  <2>2. u.name = n /\ u.sum = lfn_checksum[dos_name[n]]
    BY DEF Long
  <2> HIDE DEF u
  <2>3. Erased(u) = Gone(u.name, u.sum)
    BY <2>1, ErasedIs
  <2> QED
    BY <2>2, <2>3 DEF u
<1>3. Erased(gone) = gone /\ gone.kind = "erased"
  <2>1. DOMAIN gone = Fields /\ gone = [x \in Fields |-> gone[x]]
    BY DEF Gone, Fields
  <2>2. gone.name = n /\ gone.sum = lfn_checksum[dos_name[n]] /\ gone.kind = "erased"
    BY DEF Gone
  <2> HIDE DEF gone
  <2>3. Erased(gone) = Gone(gone.name, gone.sum)
    BY <2>1, ErasedIs
  <2> QED
    BY <2>2, <2>3 DEF gone
<1>4. Erased(s) = gone /\ Erased(Long(n, 1)) = gone
  BY <1>2
<1> QED
  BY <1>1, <1>3, <1>4

LEMMA SlotIs ==
  ASSUME NEW v \in SlotValues
  PROVE  /\ v.kind \in {"end", "deleted", "short", "long", "erased"}
         /\ v.kind = "end" => v = End
         /\ v.kind = "short" => v.alias \in Aliases /\ v.file \in Chains
                                /\ v.attr \in {"file", "directory"}
                                /\ v = Short(v.alias, v.file, v.attr)
         /\ v.kind = "long" => v.name \in Names /\ v.order \in Nat /\ v.order >= 1
                               /\ v = Long(v.name, v.order)
         /\ HasLongAttribute(v) => Erased(v) \in SlotValues /\ Erased(v).kind = "erased"
<1>1. CASE v \in {End, Deleted}
  BY <1>1 DEF End, Deleted, HasLongAttribute
<1>2. ASSUME NEW a \in Aliases, NEW f \in Chains, NEW t \in {"file", "directory"},
             v = Short(a, f, t)
      PROVE  v.kind = "short" /\ v.alias = a /\ v.file = f /\ v.attr = t
  BY <1>2, ShortIs
<1>3. ASSUME NEW n \in Names, NEW o \in 1..Max(Range(lfn_entry_count)), v = Long(n, o)
      PROVE  v.kind = "long" /\ v.name = n /\ v.order = o /\ o \in Nat /\ o >= 1
             /\ Erased(v) = Erased(Long(n, 1)) /\ Erased(v).kind = "erased"
  BY <1>3, LongIs, PartCounts
<1>4. ASSUME NEW n \in Names, v = Erased(Long(n, 1))
      PROVE  v.kind = "erased" /\ Erased(v) = v
  BY <1>4, LongIs
<1>5. CASE \E a \in Aliases, f \in Chains, t \in {"file", "directory"} : v = Short(a, f, t)
  BY <1>2, <1>5 DEF HasLongAttribute
<1>6. CASE \E n \in Names, o \in 1..Max(Range(lfn_entry_count)) : v = Long(n, o)
  <2>1. PICK n \in Names, o \in 1..Max(Range(lfn_entry_count)) : v = Long(n, o)
    BY <1>6
  <2>2. v.kind = "long" /\ v.name = n /\ v.order = o /\ o \in Nat /\ o >= 1
        /\ Erased(v) = Erased(Long(n, 1)) /\ Erased(v).kind = "erased"
    BY <1>3, <2>1
  <2>3. Erased(v) \in SlotValues
    BY <2>2 DEF SlotValues
  <2> QED
    BY <2>1, <2>2, <2>3
<1>7. CASE \E n \in Names : v = Erased(Long(n, 1))
  BY <1>4, <1>7
<1> QED
  BY <1>1, <1>5, <1>6, <1>7 DEF SlotValues

-----------------------------------------------------------------------------
(* How slots lie: a part of a long name is followed by its entry in its    *)
(* sector, or was; a part that was erased is followed by others up to a    *)
(* deleted entry.                                                          *)

LaidSlot(d, i) ==
  /\ d[i].kind = "long" =>
       /\ d[i].order <= lfn_entry_count[d[i].name]
       /\ i + d[i].order \in Slots /\ SectorOf(i + d[i].order) = SectorOf(i)
  /\ d[i].kind = "erased" =>
       i + 1 \in Slots /\ SectorOf(i + 1) = SectorOf(i) /\ d[i + 1].kind \in {"erased", "deleted"}

Laid(d) == d \in [Slots -> SlotValues] /\ \A i \in Slots : LaidSlot(d, i)

\* The parts of long names right before slot i.
LongRun(d, i) == {k \in Start1(i)..(i - 1) : \A j \in k..(i - 1) : d[j].kind = "long"}

LEMMA RunSlots ==
  ASSUME NEW d, NEW i \in Slots
  PROVE  /\ LongRun(d, i) \in SUBSET Slots
         /\ \A k \in LongRun(d, i) : /\ k \in Nat /\ 1 <= k /\ k < i /\ d[k].kind = "long"
                                     /\ SectorOf(k) = SectorOf(i)
         /\ \A k \in LongRun(d, i) : \A j \in k..(i - 1) : j \in LongRun(d, i)
<1>1. i \in Nat /\ 1 <= i /\ Start1(i) \in 1..i /\ \A j \in 1..i : j \in Slots
  BY SlotNumbers, SectorStarts DEF Slots
<1>2. \A k \in Start1(i)..i : SectorOf(k) = SectorOf(i)
  BY SectorStarts
<1> QED
  BY <1>1, <1>2 DEF LongRun

\* Before a short entry there are no erased parts, and its sector begins with its run.
LEMMA BeforeShort ==
  ASSUME NEW d, Laid(d), NEW i \in Shorts(d), NEW k \in 1..(i - 1),
         \A j \in k..(i - 1) : HasLongAttribute(d[j])
  PROVE  k \in LongRun(d, i)
<1>1. /\ i \in Slots /\ i \in Nat /\ 1 <= i /\ d[i].kind = "short"
      /\ \A j \in 1..i : j \in Slots
  BY SlotNumbers DEF Shorts
<1>2. \A j \in Slots : LaidSlot(d, j) /\ d[j] \in SlotValues
  BY DEF Laid
<1>3. \A j \in k..(i - 1) : d[j].kind = "long"
  <2> DEFINE B == {j \in k..(i - 1) : d[j].kind = "erased"}
  <2> SUFFICES ASSUME B # {} PROVE FALSE
    BY DEF HasLongAttribute
  <2>1. B \in SUBSET Nat /\ B \in SUBSET Slots
    BY <1>1
  <2>2. IsFiniteSet(B)
    BY <2>1, SlotNumbers
  <2>3. PICK m \in B : \A x \in B : x <= m
    <3> HIDE DEF B
    <3> QED
      BY <2>1, <2>2, MaxIs
  <2>4. m \in k..(i - 1) /\ d[m].kind = "erased" /\ m \in Slots /\ m \in Nat
    BY <2>1, <2>3
  <2>5. m + 1 \in Slots /\ d[m + 1].kind \in {"erased", "deleted"}
    BY <1>2, <2>4 DEF LaidSlot
  <2>6. CASE m + 1 = i
    BY <1>1, <2>5, <2>6
  <2>7. CASE m + 1 # i
    <3>1. m + 1 \in k..(i - 1)
      BY <1>1, <2>4, <2>7
    <3>2. d[m + 1].kind = "erased"
      BY <2>5, <3>1 DEF HasLongAttribute
    <3>3. m + 1 <= m
      BY <2>3, <3>1, <3>2
    <3> QED
      BY <2>4, <3>3
  <2> QED
    BY <2>6, <2>7
<1>4. k >= Start1(i)
  <2> DEFINE s == Start1(i) - 1
  <2> SUFFICES ASSUME k < Start1(i) PROVE FALSE
    BY <1>1, SectorStarts
  <2>1. /\ Start1(i) \in 1..i /\ SectorOf(Start1(i)) = SectorOf(i)
        /\ \A j \in Nat : 1 <= j /\ j < Start1(i) => SectorOf(j) < SectorOf(i)
    BY <1>1, SectorStarts
  <2>2. s \in k..(i - 1) /\ s \in Nat /\ 1 <= s /\ s < Start1(i) /\ s \in Slots
    BY <1>1, <2>1
  <2>3. d[s].kind = "long" /\ d[s] \in SlotValues
    BY <1>2, <1>3, <2>2
  <2>4. d[s].order \in Nat /\ d[s].order >= 1
    BY <2>3, SlotIs
  <2>5. SectorOf(s + d[s].order) = SectorOf(s) /\ s + d[s].order \in Slots
    BY <1>2, <2>2, <2>3 DEF LaidSlot
  <2>6. Start1(i) <= s + d[s].order /\ Start1(i) \in Nat /\ s + d[s].order \in Nat
        /\ 1 <= Start1(i)
    BY <2>1, <2>2, <2>4
  <2>7. SectorOf(Start1(i)) <= SectorOf(s + d[s].order)
        /\ SectorOf(Start1(i)) \in Nat /\ SectorOf(s + d[s].order) \in Nat
    BY <2>6, SectorsGrow
  <2>8. SectorOf(s) < SectorOf(i)
    BY <2>1, <2>2
  <2> QED
    BY <2>1, <2>5, <2>7, <2>8
<1> QED
  BY <1>1, <1>3, <1>4 DEF LongRun

\* The rules of the calls, of the listings and of the shell for the slots before an
\* entry say the same of them.
LEMMA RunsAgree ==
  ASSUME NEW d, Laid(d), NEW i \in Shorts(d)
  PROVE  /\ RunBefore(d, i, SectorOf(i) * PerSector + 1, HasLongAttribute) = LongRun(d, i)
         /\ RunBefore(d, i, 1, LAMBDA slot : slot.kind = "long") = LongRun(d, i)
         /\ Parts(d, i) = LongRun(d, i)
<1>1. /\ i \in Slots /\ i \in Nat /\ 1 <= i /\ Start1(i) \in 1..i /\ SectorOf(i) \in Nat
      /\ PerSector \in Nat /\ PerSector >= 1
  BY SlotNumbers, SectorStarts, SectorsGrow, DirectoryAssumption DEF Shorts
<1>2. \A k \in LongRun(d, i) : /\ k \in Start1(i)..(i - 1)
                               /\ \A j \in k..(i - 1) : d[j].kind = "long"
  BY DEF LongRun
<1>3. ASSUME NEW from \in 1..Start1(i)
      PROVE  /\ RunBefore(d, i, from, HasLongAttribute) = LongRun(d, i)
             /\ RunBefore(d, i, from, LAMBDA slot : slot.kind = "long") = LongRun(d, i)
  <2>1. LongRun(d, i) \subseteq {k \in from..(i - 1) : \A j \in k..(i - 1) : d[j].kind = "long"}
    BY <1>1, <1>2
  <2>2. {k \in from..(i - 1) : \A j \in k..(i - 1) : d[j].kind = "long"}
          \subseteq {k \in from..(i - 1) : \A j \in k..(i - 1) : HasLongAttribute(d[j])}
    BY DEF HasLongAttribute
  <2>3. {k \in from..(i - 1) : \A j \in k..(i - 1) : HasLongAttribute(d[j])}
          \subseteq LongRun(d, i)
    <3>1. \A k \in from..(i - 1) : k \in 1..(i - 1)
      BY <1>1
    <3> QED
      BY <3>1, BeforeShort
  <2>4. /\ RunBefore(d, i, from, HasLongAttribute)
             = {k \in from..(i - 1) : \A j \in k..(i - 1) : HasLongAttribute(d[j])}
        /\ RunBefore(d, i, from, LAMBDA slot : slot.kind = "long")
             = {k \in from..(i - 1) : \A j \in k..(i - 1) : d[j].kind = "long"}
    BY DEF RunBefore
  <2> QED
    BY <2>1, <2>2, <2>3, <2>4
<1>4. Max({1, (SectorOf(i) - 1) * PerSector + 1}) \in 1..Start1(i)
  <2> DEFINE x == (SectorOf(i) - 1) * PerSector + 1
  <2>1. x \in Int /\ x <= Start1(i)
    <3>1. (SectorOf(i) - 1) * PerSector = SectorOf(i) * PerSector - PerSector
      BY <1>1
    <3>2. SectorOf(i) * PerSector \in Int
      BY <1>1
    <3> QED
      BY <1>1, <3>1, <3>2 DEF Start1
  <2> HIDE DEF x
  <2>2. \E m \in {1, x} : \A y \in {1, x} : m >= y
    BY <2>1
  <2>3. Max({1, x}) \in {1, x} /\ Max({1, x}) >= 1
    BY <2>2 DEF Max
  <2> QED
    BY <1>1, <2>1, <2>3 DEF x
<1>5. SectorOf(i) * PerSector + 1 \in 1..Start1(i) /\ 1 \in 1..Start1(i)
  BY <1>1 DEF Start1
<1> QED
  BY <1>3, <1>4, <1>5 DEF Parts

-----------------------------------------------------------------------------
(* The names an entry has.                                                 *)

\* The checksums of the parts are that of the alias.
Summed(d, i) == \A k \in LongRun(d, i) : d[k].sum = lfn_checksum[d[i].alias]

Joined(d, i) == IF Summed(d, i) THEN get_lfn_name(d, LongRun(d, i)) ELSE {}

\* The name a listing makes of a run.
NameOfRun(d, i, run) ==
  LET valid == /\ run # {}
               /\ \A k \in run : d[k].sum = lfn_checksum[d[i].alias]
               /\ d[Min(run)].last /\ d[Min(run)].order = Cardinality(run)
      name == IF valid THEN get_lfn_name(d, run) ELSE {}
  IN IF name = {} THEN d[i].alias ELSE CHOOSE n \in name : TRUE

LEMMA NamesAre ==
  ASSUME NEW d, Laid(d), NEW i \in Shorts(d)
  PROVE  /\ FoundBy(d, i) = {d[i].alias} \cup Joined(d, i)
         /\ StrictName(d, i) \subseteq Joined(d, i)
         /\ d_name(d, i) = IF StrictName(d, i) = {} THEN d[i].alias
                           ELSE CHOOSE n \in StrictName(d, i) : TRUE
<1> DEFINE r == LongRun(d, i)
<1>1. /\ RunBefore(d, i, SectorOf(i) * PerSector + 1, HasLongAttribute) = r
      /\ RunBefore(d, i, 1, LAMBDA slot : slot.kind = "long") = r
      /\ Parts(d, i) = r
  BY RunsAgree
<1>7. {k \in 1..(i - 1) : \A j \in k..(i - 1) : d[j].kind = "long"} = r
  BY <1>1 DEF RunBefore
<1>2. Summed(d, i) <=> \A k \in r : d[k].sum = lfn_checksum[d[i].alias]
  BY DEF Summed
<1>3. Joined(d, i) = IF Summed(d, i) THEN get_lfn_name(d, r) ELSE {}
  BY DEF Joined
<1> HIDE DEF r
<1>4. FoundBy(d, i) = {d[i].alias} \cup Joined(d, i)
  BY <1>1, <1>2, <1>3 DEF FoundBy
<1> DEFINE valid == /\ r # {} /\ Summed(d, i) /\ d[Min(r)].last
                    /\ d[Min(r)].order = Cardinality(r)
<1>5. StrictName(d, i) = IF valid THEN get_lfn_name(d, r) ELSE {}
  BY <1>1, <1>2 DEF StrictName
<1>6. d_name(d, i) = LET name == IF valid THEN get_lfn_name(d, r) ELSE {}
                     IN  IF name = {} THEN d[i].alias ELSE CHOOSE n \in name : TRUE
  <2> DEFINE q == {k \in 1..(i - 1) : \A j \in k..(i - 1) : d[j].kind = "long"}
  <2>1. d_name(d, i) = NameOfRun(d, i, q)
    BY DEF d_name, NameOfRun, RunBefore
  <2>2. q = r
    BY <1>7
  <2> HIDE DEF q
  <2>3. d_name(d, i) = NameOfRun(d, i, r)
    BY <2>1, <2>2
  <2>4. (\A k \in r : d[k].sum = lfn_checksum[d[i].alias]) <=> Summed(d, i)
    BY <1>2
  <2> QED
    BY <2>3, <2>4 DEF NameOfRun
<1> QED
  BY <1>3, <1>4, <1>5, <1>6

\* An entry is listed under a name it is found by.
LEMMA ListedUnder ==
  ASSUME NEW d, Laid(d), NEW i \in Shorts(d)
  PROVE  d_name(d, i) \in FoundBy(d, i)
BY NamesAre

\* The members of a set that an operator on slots picks out of a run.
LEMMA RunMax ==
  ASSUME NEW r \in SUBSET Slots, NEW s, s \subseteq r, s # {}
  PROVE  Max(s) \in r /\ Max(s) \in s
<1>1. s \in SUBSET Nat /\ IsFiniteSet(s)
  <2>1. s \in SUBSET Slots
    OBVIOUS
  <2> QED
    BY <2>1, SlotNumbers
<1> QED
  BY <1>1, MaxIs

LEMMA RunMin ==
  ASSUME NEW r \in SUBSET Slots, r # {}
  PROVE  Min(r) \in r /\ Min(r) \in Nat /\ \A k \in r : Min(r) <= k
<1>1. r \in SUBSET Nat
  BY SlotNumbers
<1> QED
  BY <1>1, MinIs

\* The same parts make the same name.
LEMMA SameParts ==
  ASSUME NEW d, NEW e, NEW r \in SUBSET Slots, \A k \in r : d[k] = e[k]
  PROVE  get_lfn_name(d, r) = get_lfn_name(e, r)
<1> DEFINE lasts(x) == {k \in r : x[k].last}
           max(x) == IF lasts(x) = {} THEN 0 ELSE x[Max(lasts(x))].order
           piece(x, n) == {k \in r : x[k].order = n}
<1>1. lasts(d) = lasts(e)
  OBVIOUS
<1>2. max(d) = max(e)
  <2>1. lasts(d) # {} => Max(lasts(d)) \in r
    <3>1. lasts(d) \subseteq r
      OBVIOUS
    <3> HIDE DEF lasts
    <3> QED
      BY <3>1, RunMax
  <2> HIDE DEF lasts
  <2> QED
    BY <1>1, <2>1
<1>3. ASSUME NEW o PROVE piece(d, o) = piece(e, o)
  OBVIOUS
<1>4. ASSUME NEW o, piece(d, o) # {} PROVE d[Max(piece(d, o))] = e[Max(piece(e, o))]
  <2>1. piece(d, o) \subseteq r
    OBVIOUS
  <2>2. piece(d, o) = piece(e, o)
    BY <1>3
  <2> HIDE DEF piece
  <2>3. Max(piece(d, o)) \in r
    BY <1>4, <2>1, RunMax
  <2> QED
    BY <2>2, <2>3
<1>5. get_lfn_name(d, r) = {n \in Names :
        /\ max(d) = lfn_entry_count[n] /\ max(d) <= Cardinality(r)
        /\ \A o \in 1..max(d) : piece(d, o) # {} /\ d[Max(piece(d, o))].name = n}
  BY DEF get_lfn_name
<1>6. get_lfn_name(e, r) = {n \in Names :
        /\ max(e) = lfn_entry_count[n] /\ max(e) <= Cardinality(r)
        /\ \A o \in 1..max(e) : piece(e, o) # {} /\ e[Max(piece(e, o))].name = n}
  BY DEF get_lfn_name
<1> HIDE DEF max, piece
<1>7. \A n \in Names, o \in 1..max(d) :
        (piece(d, o) # {} /\ d[Max(piece(d, o))].name = n)
          <=> (piece(e, o) # {} /\ e[Max(piece(e, o))].name = n)
  BY <1>3, <1>4
<1> QED
  BY <1>2, <1>5, <1>6, <1>7

\* An entry keeps its names when its alias and the parts before it stay.
SameEntry(d, e, i) ==
  /\ d_name(e, i) = d_name(d, i) /\ FoundBy(e, i) = FoundBy(d, i)
  /\ StrictName(e, i) = StrictName(d, i)

LEMMA SameNames ==
  ASSUME NEW d, Laid(d), NEW e, Laid(e), NEW i \in Shorts(d), i \in Shorts(e),
         d[i].alias = e[i].alias, LongRun(e, i) = LongRun(d, i),
         \A k \in LongRun(d, i) : d[k] = e[k]
  PROVE  SameEntry(d, e, i)
<1> DEFINE r == LongRun(d, i)
<1>1. r \in SUBSET Slots
  BY RunSlots DEF Shorts
<1>2. get_lfn_name(d, r) = get_lfn_name(e, r)
  <2> HIDE DEF r
  <2> QED
    BY <1>1, SameParts DEF r
<1>3. Summed(d, i) <=> Summed(e, i)
  BY DEF Summed
<1>4. Joined(d, i) = Joined(e, i)
  BY <1>2, <1>3 DEF Joined
<1>5. StrictName(d, i) = StrictName(e, i)
  <2>1. Parts(d, i) = r /\ Parts(e, i) = r
    BY RunsAgree
  <2>2. r # {} => d[Min(r)] = e[Min(r)]
    <3>1. r # {} => Min(r) \in r
      <4> HIDE DEF r
      <4> QED
        BY <1>1, RunMin
    <3> QED
      BY <3>1
  <2>3. \A k \in r : d[k].sum = e[k].sum
    OBVIOUS
  <2> HIDE DEF r
  <2> QED
    BY <1>2, <2>1, <2>2, <2>3 DEF StrictName
<1> QED
  BY <1>4, <1>5, NamesAre DEF SameEntry

\* A slot of a run that is changed has one after it, before the entry, that is in no run.
LEMMA RunKept ==
  ASSUME NEW d, Laid(d), NEW e, Laid(e), NEW i \in Shorts(d), i \in Shorts(e),
         d[i].alias = e[i].alias,
         \A j \in Slots : j < i /\ d[j] # e[j] =>
           (\/ d[j].kind # "long" /\ e[j].kind # "long"
            \/ \E m \in j..(i - 1) : d[m].kind # "long" /\ e[m].kind # "long")
  PROVE  SameEntry(d, e, i)
<1>1. i \in Slots /\ i \in Nat /\ Start1(i) \in 1..i /\ \A j \in 1..i : j \in Slots
  BY SlotNumbers, SectorStarts DEF Shorts
<1>2. \A k \in Start1(i)..(i - 1) : k \in Slots /\ k < i /\ k \in Nat
  BY <1>1
<1>3. \A k \in Start1(i)..(i - 1) : \A j \in k..(i - 1) : j \in Start1(i)..(i - 1)
  BY <1>1
<1>4. \A k \in LongRun(d, i) : k \in LongRun(e, i) /\ d[k] = e[k]
  <2> SUFFICES ASSUME NEW k \in LongRun(d, i) PROVE k \in LongRun(e, i) /\ d[k] = e[k]
    OBVIOUS
  <2>1. k \in Start1(i)..(i - 1) /\ \A j \in k..(i - 1) : d[j].kind = "long"
    BY DEF LongRun
  <2>2. \A j \in k..(i - 1) : d[j] = e[j]
    <3> SUFFICES ASSUME NEW j \in k..(i - 1), d[j] # e[j] PROVE FALSE
      OBVIOUS
    <3>1. j \in Slots /\ j < i /\ d[j].kind = "long"
      BY <1>2, <1>3, <2>1
    <3>2. PICK m \in j..(i - 1) : d[m].kind # "long"
      BY <3>1
    <3>3. m \in k..(i - 1)
      BY <1>1, <2>1
    <3> QED
      BY <2>1, <3>2, <3>3
  <2>3. k \in k..(i - 1)
    BY <1>1, <2>1
  <2> QED
    BY <2>1, <2>2, <2>3 DEF LongRun
<1>5. \A k \in LongRun(e, i) : k \in LongRun(d, i)
  <2> SUFFICES ASSUME NEW k \in LongRun(e, i) PROVE k \in LongRun(d, i)
    OBVIOUS
  <2>1. k \in Start1(i)..(i - 1) /\ \A j \in k..(i - 1) : e[j].kind = "long"
    BY DEF LongRun
  <2>2. \A j \in k..(i - 1) : d[j] = e[j]
    <3> SUFFICES ASSUME NEW j \in k..(i - 1), d[j] # e[j] PROVE FALSE
      OBVIOUS
    <3>1. j \in Slots /\ j < i /\ e[j].kind = "long"
      BY <1>2, <1>3, <2>1
    <3>2. PICK m \in j..(i - 1) : e[m].kind # "long"
      BY <3>1
    <3>3. m \in k..(i - 1)
      BY <1>1, <2>1
    <3> QED
      BY <2>1, <3>2, <3>3
  <2> QED
    BY <2>1, <2>2 DEF LongRun
<1>6. LongRun(e, i) = LongRun(d, i)
  BY <1>4, <1>5
<1> QED
  BY <1>4, <1>6, SameNames

-----------------------------------------------------------------------------
(* The changes the calls make.  What an image e of the directory keeps of  *)
(* the image d before: the entries in S, with their names.                 *)

KeepsEntries(d, e, S) ==
  \A i \in S : i \in Shorts(d) /\ i \in Shorts(e) /\ e[i] = d[i] /\ SameEntry(d, e, i)

NoNewEnd(d, e) == \A i \in Slots : e[i].kind = "end" => d[i].kind = "end"

LEMMA StaysVisible ==
  ASSUME NEW d, NEW e, NoNewEnd(d, e), NEW i \in Visible(d), i \in Shorts(e)
  PROVE  i \in Visible(e)
<1>1. \A j \in 1..i : j \in Slots
  BY SlotNumbers DEF Visible, Shorts
<1> QED
  BY <1>1 DEF Visible, NoNewEnd

\* A new entry, with m parts before it, in slots that were free.
Put(d, at, m, name, slot) ==
  [j \in Slots |-> IF j \in at..(at + m - 1) THEN Long(name, at + m - j)
                   ELSE IF j = at + m THEN slot ELSE d[j]]

\* findfreeslots: the run it finds, and what lies before it.
LEMMA FreeSlotsFound ==
  ASSUME NEW d, NEW m \in Nat, findfreeslots(d, m + 1) # 0
  PROVE  LET at == findfreeslots(d, m + 1)
         IN  /\ at \in Slots /\ at \in Nat /\ 1 <= at /\ SectorOf(at + m) = SectorOf(at)
             /\ \A j \in at..(at + m) : j \in Slots /\ IsFree(d[j]) /\ SectorOf(j) = SectorOf(at)
             /\ \A k \in Slots : k + 1 = at /\ SectorOf(k) = SectorOf(at) => ~IsFree(d[k])
<1> DEFINE at == findfreeslots(d, m + 1)
           runs == FreeRuns(d, m + 1)
<1>1. runs \in SUBSET Slots
  BY DEF FreeRuns
<1>2. at = Min(runs) /\ runs # {}
  BY DEF findfreeslots
<1> HIDE DEF runs, at
<1>3. at \in runs /\ at \in Nat /\ \A k \in runs : at <= k
  BY <1>1, <1>2, RunMin
<1>4. at + (m + 1) - 1 = at + m /\ 1 <= at /\ at \in Slots
  BY <1>1, <1>3, SlotNumbers DEF Slots
<1>5. SectorOf(at + m) = SectorOf(at) /\ \A j \in at..(at + m) : IsFree(d[j])
  BY <1>3, <1>4 DEF runs, FreeRuns
<1>6. \A j \in at..(at + m) : SectorOf(j) = SectorOf(at)
  <2> SUFFICES ASSUME NEW j \in at..(at + m) PROVE SectorOf(j) = SectorOf(at)
    OBVIOUS
  <2>1. j \in Nat /\ at <= j /\ j <= at + m /\ at + m \in Nat /\ 1 <= j
    BY <1>3, <1>4
  <2>2. SectorOf(at) \in Nat /\ SectorOf(j) \in Nat /\ SectorOf(at) <= SectorOf(j)
    BY <1>3, <1>4, <2>1, SectorsGrow
  <2>3. SectorOf(at + m) \in Nat /\ SectorOf(j) <= SectorOf(at + m)
    BY <2>1, SectorsGrow
  <2> QED
    BY <1>5, <2>2, <2>3
<1>7. \A j \in at..(at + m) : j \in Slots
  <2> SUFFICES ASSUME NEW j \in at..(at + m), j \notin Slots PROVE FALSE
    OBVIOUS
  <2>1. j \in Nat /\ at <= j /\ 1 <= j
    BY <1>3, <1>4
  <2>2. SectorOf(j) = SectorOf(at)
    BY <1>6
  <2> DEFINE p == PerSector
             q == SectorOf(j)
             a == SectorOf(at)
             s == Sectors
  <2>3. p \in Nat /\ p > 0 /\ s \in Nat /\ s * p = p * s /\ p * s \in Nat /\ Slots = 1..(p * s)
    <3>1. p \in Nat /\ p > 0 /\ s \in Nat
      BY DirectoryAssumption
    <3> QED
      BY <3>1, Product DEF Slots
  <2>4. q \in Nat /\ p * q \in Nat /\ p * q <= j - 1 /\ j - 1 < p * q + p
    <3>1. j - 1 \in Nat /\ q = (j - 1) \div p
      BY <2>1 DEF SectorOf
    <3> HIDE DEF q, p
    <3>2. q \in Nat /\ (j - 1) % p \in 0 .. p - 1 /\ j - 1 = p * q + ((j - 1) % p)
      BY <2>3, <3>1, Divided
    <3>3. p * q \in Nat
      BY <2>3, <3>2, Product
    <3> QED
      BY <2>1, <2>3, <3>2, <3>3
  <2>5. p * a \in Nat /\ p * a <= at - 1 /\ a = q
    <3>1. at - 1 \in Nat /\ a = (at - 1) \div p
      BY <1>3, <1>4 DEF SectorOf
    <3>2. a = q
      BY <2>2
    <3> HIDE DEF a, p, q
    <3>3. a \in Nat /\ (at - 1) % p \in 0 .. p - 1 /\ at - 1 = p * a + ((at - 1) % p)
      BY <2>3, <3>1, Divided
    <3> QED
      BY <1>3, <2>3, <2>4, <3>2, <3>3, Product
  <2>6. at <= p * s /\ p * s < j
    BY <1>4, <2>1, <2>3
  <2> HIDE DEF p, q, a, s
  <2>7. q + 1 <= s \/ s <= q
    BY <2>3, <2>4
  <2>8. CASE q + 1 <= s
    <3>1. p * (q + 1) <= p * s /\ p * (q + 1) = p * q + p
      BY <2>3, <2>4, <2>8, Product
    <3> QED
      BY <2>1, <2>3, <2>4, <2>6, <3>1
  <2>9. CASE s <= q
    <3>1. p * s <= p * q
      BY <2>3, <2>4, <2>9, Product
    <3> QED
      BY <1>3, <2>3, <2>4, <2>5, <2>6, <3>1
  <2> QED
    BY <2>7, <2>8, <2>9
<1>8. ASSUME NEW k \in Slots, k + 1 = at, SectorOf(k) = SectorOf(at), IsFree(d[k])
      PROVE  FALSE
  <2>1. k \in Nat /\ 1 <= k /\ k + (m + 1) - 1 = k + m /\ k + m \in Nat
    BY SlotNumbers DEF Slots
  <2>2. \A j \in k..(k + m) : j = k \/ j \in at..(at + m)
    BY <1>3, <1>8, <2>1
  <2>3. \A j \in k..(k + m) : IsFree(d[j])
    BY <1>5, <1>8, <2>2
  <2>4. SectorOf(k + m) = SectorOf(k)
    <3>1. k + m \in k..(k + m)
      BY <2>1
    <3> QED
      BY <1>6, <1>8, <2>2, <3>1
  <2>5. k \in runs
    BY <2>1, <2>3, <2>4 DEF runs, FreeRuns
  <2> QED
    BY <1>3, <1>8, <2>1, <2>5
<1> QED
  BY <1>3, <1>4, <1>5, <1>6, <1>7, <1>8 DEF at

\* The image with the new entry.
LEMMA PutKeeps ==
  ASSUME NEW d, Laid(d), NEW name \in Names, NEW m \in {0, lfn_entry_count[name]},
         findfreeslots(d, m + 1) # 0, NEW f \in Chains, NEW t \in {"file", "directory"}
  PROVE  LET at == findfreeslots(d, m + 1)
             e == Put(d, at, m, name, Short(dos_name[name], f, t))
         IN  /\ Laid(e) /\ NoNewEnd(d, e)
             /\ at + m \in Slots /\ at + m \notin Shorts(d)
             /\ e[at + m] = Short(dos_name[name], f, t)
             /\ Shorts(e) = Shorts(d) \cup {at + m}
             /\ KeepsEntries(d, e, Shorts(d))
<1> DEFINE at == findfreeslots(d, m + 1)
           slot == Short(dos_name[name], f, t)
           e == Put(d, at, m, name, slot)
<1>1. m \in Nat /\ m <= lfn_entry_count[name] /\ lfn_entry_count[name] \in Nat
      /\ lfn_entry_count[name] <= Max(Range(lfn_entry_count))
      /\ Max(Range(lfn_entry_count)) \in Nat
  BY PartCounts
<1>2. /\ at \in Slots /\ at \in Nat /\ 1 <= at /\ SectorOf(at + m) = SectorOf(at)
      /\ \A j \in at..(at + m) : j \in Slots /\ IsFree(d[j]) /\ SectorOf(j) = SectorOf(at)
      /\ \A k \in Slots : k + 1 = at /\ SectorOf(k) = SectorOf(at) => ~IsFree(d[k])
  BY <1>1, FreeSlotsFound
<1> HIDE DEF at
<1>3. d \in [Slots -> SlotValues] /\ \A i \in Slots : LaidSlot(d, i)
  BY DEF Laid
<1>4. at + m \in at..(at + m) /\ at + m \in Slots /\ at + m \in Nat
  BY <1>1, <1>2
<1>5. slot \in SlotValues /\ slot.kind = "short" /\ slot.alias = dos_name[name]
  BY ShortIs DEF SlotValues, Aliases
<1> HIDE DEF slot
<1>6. ASSUME NEW j \in at..(at + m - 1)
      PROVE  /\ e[j] = Long(name, at + m - j) /\ e[j] \in SlotValues /\ e[j].kind = "long"
             /\ e[j].order = at + m - j /\ e[j].name = name
  <2>1. j \in Slots /\ j \in at..(at + m)
    BY <1>1, <1>2
  <2>2. e[j] = Long(name, at + m - j)
    BY <2>1 DEF Put
  <2>3. at + m - j \in 1..Max(Range(lfn_entry_count))
    BY <1>1, <1>2
  <2> QED
    BY <2>2, <2>3, LongIs DEF SlotValues
<1>7. e[at + m] = slot
  BY <1>1, <1>2, <1>4 DEF Put
<1>8. ASSUME NEW j \in Slots, j \notin at..(at + m) PROVE e[j] = d[j]
  <2>1. j \notin at..(at + m - 1) /\ j # at + m
    BY <1>1, <1>2, <1>4, <1>8
  <2> QED
    BY <2>1 DEF Put
<1>9. \A j \in Slots : j \in at..(at + m - 1) \/ j = at + m \/ j \notin at..(at + m)
  BY <1>1, <1>2, SlotNumbers
<1>10. e \in [Slots -> SlotValues]
  <2>1. \A j \in Slots : e[j] \in SlotValues
    BY <1>3, <1>5, <1>6, <1>7, <1>8, <1>9
  <2>2. e = [j \in Slots |-> e[j]]
    BY DEF Put
  <2> HIDE DEF e
  <2> QED
    BY <2>1, <2>2
<1> HIDE DEF e
<1>11. ASSUME NEW i \in Slots PROVE LaidSlot(e, i)
  <2>1. CASE i \in at..(at + m - 1)
    <3>1. i + e[i].order = at + m /\ e[i].order <= lfn_entry_count[name]
      BY <1>1, <1>2, <1>6, <2>1
    <3>2. SectorOf(i) = SectorOf(at + m)
      BY <1>1, <1>2, <2>1
    <3> QED
      BY <1>4, <1>6, <2>1, <3>1, <3>2 DEF LaidSlot
  <2>2. CASE i = at + m
    BY <1>5, <1>7, <2>2 DEF LaidSlot
  <2>3. CASE i \notin at..(at + m)
    <3>1. e[i] = d[i] /\ LaidSlot(d, i)
      BY <1>3, <1>8, <2>3
    <3>2. CASE d[i].kind = "erased"
      <4>1. i + 1 \in Slots /\ SectorOf(i + 1) = SectorOf(i) /\ d[i + 1].kind \in {"erased", "deleted"}
        BY <3>1, <3>2 DEF LaidSlot
      <4>2. i + 1 \notin at..(at + m)
        <5> SUFFICES ASSUME i + 1 \in at..(at + m) PROVE FALSE
          OBVIOUS
        <5>1. i + 1 = at /\ i \in Nat
          BY <1>1, <1>2, <2>3, SlotNumbers
        <5> QED
          BY <1>2, <3>2, <4>1, <5>1 DEF IsFree
      <4>3. e[i + 1] = d[i + 1]
        BY <1>8, <4>1, <4>2
      <4> QED
        BY <3>1, <3>2, <4>1, <4>3 DEF LaidSlot
    <3>3. CASE d[i].kind # "erased"
      BY <3>1, <3>3 DEF LaidSlot
    <3> QED
      BY <3>2, <3>3
  <2> QED
    BY <1>9, <2>1, <2>2, <2>3
<1>12. Laid(e)
  BY <1>10, <1>11 DEF Laid
<1>13. NoNewEnd(d, e)
  BY <1>5, <1>6, <1>7, <1>8, <1>9 DEF NoNewEnd
<1>14. \A j \in at..(at + m) : d[j].kind # "short" /\ d[j].kind # "long"
  BY <1>2 DEF IsFree
<1>15. at + m \notin Shorts(d) /\ Shorts(e) = Shorts(d) \cup {at + m}
  <2>1. \A j \in Slots : e[j].kind = "short" <=> (d[j].kind = "short" \/ j = at + m)
    <3> SUFFICES ASSUME NEW j \in Slots
                 PROVE  e[j].kind = "short" <=> (d[j].kind = "short" \/ j = at + m)
      OBVIOUS
    <3>1. CASE j \in at..(at + m - 1)
      <4>1. j \in at..(at + m) /\ j # at + m
        BY <1>1, <1>2, <3>1
      <4> QED
        BY <1>6, <1>14, <3>1, <4>1
    <3>2. CASE j = at + m
      BY <1>5, <1>7, <3>2
    <3>3. CASE j \notin at..(at + m)
      BY <1>4, <1>8, <3>3
    <3> QED
      BY <1>9, <3>1, <3>2, <3>3
  <2> QED
    BY <1>4, <1>14, <2>1 DEF Shorts
<1>16. ASSUME NEW i \in Shorts(d) PROVE e[i] = d[i] /\ i \in Shorts(e) /\ SameEntry(d, e, i)
  <2>1. i \in Slots /\ i \in Nat /\ d[i].kind = "short" /\ i \notin at..(at + m)
    BY <1>14, SlotNumbers DEF Shorts
  <2>2. e[i] = d[i] /\ i \in Shorts(e)
    BY <1>8, <1>15, <2>1
  <2>3. ASSUME NEW j \in Slots, j < i, d[j] # e[j]
        PROVE  (\/ d[j].kind # "long" /\ e[j].kind # "long"
                \/ \E k \in j..(i - 1) : d[k].kind # "long" /\ e[k].kind # "long")
    <3>1. j \in at..(at + m) /\ j \in Nat
      BY <1>8, <2>3, SlotNumbers
    <3>2. at + m \in j..(i - 1)
      BY <1>1, <1>2, <1>4, <2>1, <2>3, <3>1
    <3>3. d[at + m].kind # "long" /\ e[at + m].kind # "long"
      BY <1>4, <1>5, <1>7, <1>14
    <3> QED
      BY <3>2, <3>3
  <2> QED
    BY <1>12, <2>2, <2>3, RunKept
<1> QED
  BY <1>4, <1>7, <1>12, <1>13, <1>15, <1>16 DEF KeepsEntries, at, e, slot

\* The image without entry i and some of the parts right before it.
Without(d, i, K) ==
  [j \in Slots |-> IF j = i THEN Deleted ELSE IF j \in K THEN Erased(d[j]) ELSE d[j]]

LEMMA WithoutKeeps ==
  ASSUME NEW d, Laid(d), NEW i \in Shorts(d), NEW K, K \subseteq LongRun(d, i),
         \A k \in K : \A j \in k..(i - 1) : j \in K
  PROVE  LET e == Without(d, i, K)
         IN  /\ Laid(e) /\ NoNewEnd(d, e) /\ Shorts(e) = Shorts(d) \ {i}
             /\ KeepsEntries(d, e, Shorts(d) \ {i})
<1> DEFINE e == Without(d, i, K)
<1>1. i \in Slots /\ i \in Nat /\ 1 <= i /\ d[i].kind = "short" /\ i \notin K
  BY RunSlots, SlotNumbers DEF Shorts, Slots
<1>2. \A k \in K : /\ k \in Slots /\ k \in Nat /\ 1 <= k /\ k < i /\ d[k].kind = "long"
                   /\ SectorOf(k) = SectorOf(i) /\ \A j \in k..(i - 1) : d[j].kind = "long"
  BY <1>1, RunSlots DEF LongRun
<1>3. d \in [Slots -> SlotValues] /\ \A j \in Slots : LaidSlot(d, j)
  BY DEF Laid
<1>4. e[i] = Deleted /\ Deleted.kind = "deleted" /\ Deleted \in SlotValues
  BY <1>1 DEF Without, Deleted, SlotValues
<1>5. ASSUME NEW k \in K
      PROVE  e[k] = Erased(d[k]) /\ e[k] \in SlotValues /\ e[k].kind = "erased"
  <2>1. e[k] = Erased(d[k])
    BY <1>1, <1>2 DEF Without
  <2>2. d[k] \in SlotValues /\ HasLongAttribute(d[k])
    BY <1>2, <1>3 DEF HasLongAttribute
  <2> QED
    BY <2>1, <2>2, SlotIs
<1>6. \A j \in Slots : j # i /\ j \notin K => e[j] = d[j]
  BY DEF Without
<1>7. e \in [Slots -> SlotValues]
  <2>1. \A j \in Slots : e[j] \in SlotValues
    BY <1>3, <1>4, <1>5, <1>6
  <2>2. e = [j \in Slots |-> e[j]]
    BY DEF Without
  <2> HIDE DEF e
  <2> QED
    BY <2>1, <2>2
<1> HIDE DEF e
<1>8. ASSUME NEW j \in Slots PROVE LaidSlot(e, j)
  <2>1. CASE j = i
    BY <1>4, <2>1 DEF LaidSlot
  <2>2. CASE j \in K
    <3>1. j + 1 \in Slots /\ SectorOf(j + 1) = SectorOf(j)
      <4>1. j + 1 = i \/ j + 1 \in j..(i - 1)
        BY <1>1, <1>2, <2>2
      <4> QED
        BY <1>1, <1>2, <2>2, <4>1
    <3>2. e[j + 1].kind \in {"erased", "deleted"}
      <4>1. CASE j + 1 = i
        BY <1>4, <4>1
      <4>2. CASE j + 1 # i
        <5>1. j + 1 \in j..(i - 1)
          BY <1>1, <1>2, <2>2, <4>2
        <5> QED
          BY <1>5, <2>2, <5>1
      <4> QED
        BY <4>1, <4>2
    <3> QED
      BY <1>5, <2>2, <3>1, <3>2 DEF LaidSlot
  <2>3. CASE j # i /\ j \notin K
    <3>1. e[j] = d[j] /\ LaidSlot(d, j)
      BY <1>3, <1>6, <2>3
    <3>2. d[j].kind = "erased" => j + 1 # i /\ j + 1 \notin K
      <4>1. d[j].kind = "erased" => d[j + 1].kind \in {"erased", "deleted"}
        BY <3>1 DEF LaidSlot
      <4> QED
        BY <1>1, <1>2, <4>1
    <3>3. d[j].kind = "erased" => j + 1 \in Slots /\ e[j + 1] = d[j + 1]
      BY <1>6, <3>1, <3>2 DEF LaidSlot
    <3> QED
      BY <3>1, <3>3 DEF LaidSlot
  <2> QED
    BY <2>1, <2>2, <2>3
<1>9. Laid(e)
  BY <1>7, <1>8 DEF Laid
<1>10. NoNewEnd(d, e)
  BY <1>4, <1>5, <1>6 DEF NoNewEnd
<1>11. Shorts(e) = Shorts(d) \ {i}
  <2>1. \A j \in Slots : e[j].kind = "short" <=> (d[j].kind = "short" /\ j # i)
    BY <1>2, <1>4, <1>5, <1>6
  <2> QED
    BY <2>1 DEF Shorts
<1>12. ASSUME NEW o \in Shorts(d), o # i
       PROVE  o \in Shorts(e) /\ e[o] = d[o] /\ SameEntry(d, e, o)
  <2>1. o \in Slots /\ o \in Nat /\ d[o].kind = "short" /\ o \notin K
    BY <1>2, SlotNumbers DEF Shorts
  <2>2. e[o] = d[o] /\ o \in Shorts(e)
    BY <1>6, <1>11, <1>12, <2>1
  <2>3. ASSUME NEW j \in Slots, j < o, d[j] # e[j]
        PROVE  (\/ d[j].kind # "long" /\ e[j].kind # "long"
                \/ \E k \in j..(o - 1) : d[k].kind # "long" /\ e[k].kind # "long")
    <3>1. CASE j = i
      BY <1>1, <1>4, <3>1
    <3>2. CASE j \in K
      <4>1. ~(o < i)
        <5> SUFFICES ASSUME o < i PROVE FALSE
          OBVIOUS
        <5>1. o \in j..(i - 1)
          BY <1>1, <1>2, <2>1, <2>3, <3>2
        <5> QED
          BY <1>2, <2>1, <3>2, <5>1
      <4>2. i \in j..(o - 1)
        BY <1>1, <1>2, <1>12, <2>1, <3>2, <4>1
      <4> QED
        BY <1>1, <1>4, <4>2
    <3>3. CASE j # i /\ j \notin K
      BY <1>6, <2>3, <3>3
    <3> QED
      BY <3>1, <3>2, <3>3
  <2> QED
    BY <1>9, <2>2, <2>3, RunKept
<1> QED
  BY <1>9, <1>10, <1>11, <1>12 DEF KeepsEntries, e

\* The image with another attribute of an entry.
WithAttr(d, i, t) == [d EXCEPT ![i].attr = t]

AttributeChanges(d, e, i, t) ==
  /\ Laid(e) /\ NoNewEnd(d, e) /\ Shorts(e) = Shorts(d)
  /\ e[i].attr = t /\ e[i].alias = d[i].alias
  /\ \A j \in Slots : j # i => e[j] = d[j]
  /\ KeepsEntries(d, e, Shorts(d) \ {i})

LEMMA AttributeKeeps ==
  ASSUME NEW d, Laid(d), NEW i \in Shorts(d), NEW t \in {"file", "directory"}
  PROVE  AttributeChanges(d, WithAttr(d, i, t), i, t)
<1> DEFINE e == WithAttr(d, i, t)
<1>1. i \in Slots /\ d[i].kind = "short" /\ d \in [Slots -> SlotValues]
      /\ \A j \in Slots : LaidSlot(d, j)
  BY DEF Shorts, Laid
<1>2. /\ d[i].alias \in Aliases /\ d[i].file \in Chains
      /\ d[i] = Short(d[i].alias, d[i].file, d[i].attr)
  BY <1>1, SlotIs
<1>3. e[i] = Short(d[i].alias, d[i].file, t)
  <2>1. e[i] = [d[i] EXCEPT !.attr = t]
    BY <1>1 DEF WithAttr
  <2>2. \A u : [Short(d[i].alias, d[i].file, d[i].attr) EXCEPT !.attr = u]
                 = Short(d[i].alias, d[i].file, u)
    BY ShortIs
  <2> QED
    BY <1>2, <2>1, <2>2
<1>4. /\ e[i].attr = t /\ e[i].alias = d[i].alias /\ e[i].kind = "short"
      /\ e[i] \in SlotValues
  BY <1>2, <1>3, ShortIs DEF SlotValues
<1>5. \A j \in Slots : j # i => e[j] = d[j]
  BY <1>1 DEF WithAttr
<1>6. e \in [Slots -> SlotValues]
  BY <1>1, <1>4, <1>5 DEF WithAttr
<1> HIDE DEF e
<1>7. \A j \in Slots : e[j].kind = d[j].kind
  BY <1>1, <1>4, <1>5
<1>8. Shorts(e) = Shorts(d) /\ NoNewEnd(d, e)
  BY <1>7 DEF Shorts, NoNewEnd
<1>9. \A j \in Slots : LaidSlot(e, j)
  BY <1>1, <1>4, <1>5, <1>7 DEF LaidSlot
<1>10. Laid(e)
  BY <1>6, <1>9 DEF Laid
<1>11. ASSUME NEW o \in Shorts(d), o # i
       PROVE  o \in Shorts(e) /\ e[o] = d[o] /\ SameEntry(d, e, o)
  <2>1. e[o] = d[o] /\ o \in Shorts(e)
    BY <1>5, <1>8, <1>11 DEF Shorts
  <2>2. \A j \in Slots : d[j] # e[j] => d[j].kind # "long" /\ e[j].kind # "long"
    BY <1>1, <1>4, <1>5
  <2> QED
    BY <1>10, <2>1, <2>2, RunKept
<1> QED
  BY <1>4, <1>5, <1>8, <1>10, <1>11 DEF KeepsEntries, AttributeChanges, e

LEMMA KeepsTwice ==
  ASSUME NEW d, NEW e, NEW g, NEW S, KeepsEntries(d, e, S), KeepsEntries(e, g, S)
  PROVE  KeepsEntries(d, g, S)
BY DEF KeepsEntries, SameEntry

LEMMA NoNewEndTwice ==
  ASSUME NEW d, NEW e, NEW g, NoNewEnd(d, e), NoNewEnd(e, g)
  PROVE  NoNewEnd(d, g)
BY DEF NoNewEnd

\* A change: at most one entry goes, and the others a search reached are reached.
Changes(d, e) ==
  /\ Laid(e) /\ NoNewEnd(d, e)
  /\ \E x \in Nat : Shorts(d) \ Shorts(e) \subseteq {x}
  /\ KeepsEntries(d, e, Visible(d) \cap Shorts(e))

LEMMA ChangesKeep ==
  ASSUME NEW d, NEW e, Changes(d, e)
  PROVE  /\ Cardinality(Shorts(d) \ Shorts(e)) <= 1
         /\ \A i \in Visible(d) \cap Shorts(e) :
              /\ i \in Visible(e) /\ e[i] = d[i] /\ d_name(e, i) = d_name(d, i)
<1>1. PICK x \in Nat : Shorts(d) \ Shorts(e) \subseteq {x}
  BY DEF Changes
<1>2. Shorts(d) \ Shorts(e) = {} \/ Shorts(d) \ Shorts(e) = {x}
  BY <1>1
<1>3. Cardinality({}) = 0 /\ Cardinality({x}) = 1
  BY FS_EmptySet, FS_Singleton
<1>4. \A i \in Visible(d) \cap Shorts(e) : i \in Visible(e)
  BY StaysVisible DEF Changes
<1>5. \A i \in Visible(d) \cap Shorts(e) : e[i] = d[i] /\ d_name(e, i) = d_name(d, i)
  BY DEF Changes, KeepsEntries, SameEntry
<1> QED
  BY <1>2, <1>3, <1>4, <1>5

-----------------------------------------------------------------------------
(* The name of a new entry.                                                *)

\* The parts of a name, and none before them, make the name.
MadeOf(e, name, at, i) ==
  i = at + lfn_entry_count[name] /\ \A j \in at..(i - 1) : e[j] = Long(name, i - j)

IsWhole(e, name, at, r) ==
  /\ get_lfn_name(e, r) = {name} /\ Cardinality(r) = lfn_entry_count[name]
  /\ r # {} /\ Min(r) = at /\ e[at].last /\ e[at].order = lfn_entry_count[name]

LEMMA OwnParts ==
  ASSUME NEW e, NEW name \in Names, NEW at \in Nat, 1 <= at, NEW i \in Nat,
         MadeOf(e, name, at, i)
  PROVE  IsWhole(e, name, at, at..(i - 1))
<1> DEFINE r == at..(i - 1)
           m == lfn_entry_count[name]
           lasts == {k \in r : e[k].last}
           max == IF lasts = {} THEN 0 ELSE e[Max(lasts)].order
           parts(o) == {k \in r : e[k].order = o}
<1>1. m \in Nat /\ m >= 1 /\ i = at + m
  BY PartCounts DEF MadeOf
<1>2. \A k \in r : /\ e[k].order = i - k /\ e[k].name = name
                   /\ e[k].last = (i - k = m)
  BY LongIs DEF MadeOf
<1> HIDE DEF m
<1>3. at \in r /\ r \in SUBSET Nat /\ \A k \in r : at <= k
  BY <1>1
<1>4. lasts = {at} /\ e[at].last
  <2>1. \A k \in r : e[k].last <=> i - k = m
    BY <1>2
  <2>2. \A k \in r : i - k = m <=> k = at
    BY <1>1
  <2>3. \A k \in r : e[k].last <=> k = at
    BY <2>1, <2>2
  <2> QED
    BY <1>3, <2>3
<1>5. \A x \in Nat : Max({x}) = x
  <2> SUFFICES ASSUME NEW x \in Nat PROVE Max({x}) = x
    OBVIOUS
  <2>1. {x} \in SUBSET Nat /\ IsFiniteSet({x}) /\ {x} # {}
    BY FS_Singleton
  <2> QED
    BY <2>1, MaxIs
<1>6. max = m
  BY <1>1, <1>2, <1>3, <1>4, <1>5
<1>7. \A o \in 1..m : parts(o) = {i - o} /\ i - o \in r /\ i - o \in Nat
  BY <1>1, <1>2
<1>8. Cardinality(r) = m
  BY <1>1, FS_Interval
<1>9. get_lfn_name(e, r) = {n \in Names :
        /\ max = lfn_entry_count[n] /\ max <= Cardinality(r)
        /\ \A o \in 1..max : parts(o) # {} /\ e[Max(parts(o))].name = n}
  BY DEF get_lfn_name
<1>10. \A o \in 1..m : parts(o) # {} /\ e[Max(parts(o))].name = name
  BY <1>2, <1>5, <1>7
<1>11. Min(r) = at
  <2>1. Min(r) \in r /\ \A x \in r : Min(r) <= x
    BY <1>3, MinIs
  <2> QED
    BY <1>3, <2>1
<1> HIDE DEF max, parts, r
<1>12. get_lfn_name(e, r) = {name}
  <2>1. name \in get_lfn_name(e, r)
    BY <1>1, <1>6, <1>8, <1>9, <1>10 DEF m
  <2>2. ASSUME NEW n \in get_lfn_name(e, r) PROVE n = name
    <3>1. \A o \in 1..m : e[Max(parts(o))].name = n
      BY <1>6, <1>9
    <3>2. 1 \in 1..m
      BY <1>1
    <3> QED
      BY <1>10, <3>1, <3>2
  <2> QED
    BY <2>1, <2>2
<1>13. e[at].order = m
  BY <1>1, <1>2, <1>3
<1> QED
  BY <1>3, <1>4, <1>8, <1>11, <1>12, <1>13 DEF r, m, IsWhole

LEMMA OwnName ==
  ASSUME NEW e, Laid(e), NEW name \in Names, NEW i \in Shorts(e),
         e[i].alias = dos_name[name], NEW at \in Slots, i = at + lfn_entry_count[name],
         \A j \in at..(i - 1) : e[j] = Long(name, i - j) /\ SectorOf(j) = SectorOf(i),
         ~(at - 1 \in Slots /\ HasLongAttribute(e[at - 1]))
  PROVE  name \in FoundBy(e, i) /\ d_name(e, i) = name
<1> DEFINE r == at..(i - 1)
<1>1. i \in Slots /\ i \in Nat /\ at \in Nat /\ 1 <= at /\ lfn_entry_count[name] \in Nat
      /\ lfn_entry_count[name] >= 1
  BY PartCounts, SlotNumbers DEF Shorts, Slots
<1>2. LongRun(e, i) = r
  <2>1. \A k \in r : k \in LongRun(e, i)
    <3> SUFFICES ASSUME NEW k \in r PROVE k \in LongRun(e, i)
      OBVIOUS
    <3>1. k \in Nat /\ 1 <= k /\ k <= i - 1 /\ SectorOf(k) = SectorOf(i)
      BY <1>1
    <3>2. Start1(i) \in 1..i /\ \A x \in Nat : 1 <= x /\ x < Start1(i) => SectorOf(x) < SectorOf(i)
      BY <1>1, SectorStarts
    <3>3. SectorOf(i) \in Nat
      BY <1>1, SectorsGrow
    <3>4. k \in Start1(i)..(i - 1)
      BY <1>1, <3>1, <3>2, <3>3
    <3>5. \A j \in k..(i - 1) : j \in r
      BY <1>1
    <3>6. \A j \in r : e[j].kind = "long"
      BY LongIs
    <3> QED
      BY <3>4, <3>5, <3>6 DEF LongRun
  <2>2. ASSUME NEW k \in LongRun(e, i), k \notin r PROVE FALSE
    <3>1. k \in Nat /\ k < i /\ 1 <= k
      BY <1>1, RunSlots
    <3>2. at - 1 \in k..(i - 1)
      BY <1>1, <2>2, <3>1
    <3>3. at - 1 \in LongRun(e, i)
      BY <1>1, <3>2, RunSlots
    <3>4. at - 1 \in Slots /\ e[at - 1].kind = "long"
      BY <1>1, <3>3, RunSlots
    <3> QED
      BY <3>4 DEF HasLongAttribute
  <2> QED
    BY <2>1, <2>2
<1>3. /\ get_lfn_name(e, r) = {name} /\ Cardinality(r) = lfn_entry_count[name]
      /\ r # {} /\ Min(r) = at /\ e[at].last /\ e[at].order = lfn_entry_count[name]
  <2>1. MadeOf(e, name, at, i)
    BY DEF MadeOf
  <2>2. IsWhole(e, name, at, at..(i - 1))
    BY <1>1, <2>1, OwnParts
  <2> QED
    BY <2>2 DEF IsWhole
<1>4. \A k \in r : e[k].sum = lfn_checksum[e[i].alias]
  BY LongIs
<1> HIDE DEF r
<1>5. Joined(e, i) = {name}
  BY <1>2, <1>3, <1>4 DEF Joined, Summed
<1>6. Parts(e, i) = r
  BY <1>2, RunsAgree
<1>7. StrictName(e, i) = {name}
  BY <1>3, <1>4, <1>6 DEF StrictName
<1> QED
  BY <1>5, <1>7, NamesAre

\* What a change creates is found by its name: CreatedIsFound of two images.
Created(d, e) ==
  \A i \in Shorts(e) \ Shorts(d) :
    i > 1 /\ e[i - 1] # d[i - 1] =>
      LET n == e[i - 1].name
          before == i - lfn_entry_count[n] - 1
      IN \/ i \notin Visible(e)
         \/ before \in Slots /\ HasLongAttribute(e[before])
         \/ /\ n \in FoundBy(e, i) /\ d_name(e, i) = n
            /\ \A j \in Shorts(d) \ Shorts(e) : d[j].attr = e[i].attr

\* What a search finds.
LEMMA Hit ==
  ASSUME NEW d, NEW n
  PROVE  /\ Find(d, n) # 0 => Find(d, n) \in Visible(d) /\ n \in FoundBy(d, Find(d, n))
         /\ \A i \in Visible(d) : n \in FoundBy(d, i) => Find(d, n) # 0 /\ Find(d, n) <= i
         /\ Find(d, n) \in Nat
<1> DEFINE hits == {i \in Visible(d) : n \in FoundBy(d, i)}
<1>1. hits \in SUBSET Nat /\ \A i \in hits : i # 0
  BY SlotNumbers DEF Visible, Shorts, Slots
<1>2. Find(d, n) = IF hits = {} THEN 0 ELSE Min(hits)
  BY DEF Find
<1>3. \A i \in Visible(d) : n \in FoundBy(d, i) <=> i \in hits
  OBVIOUS
<1>4. hits \subseteq Visible(d)
  OBVIOUS
<1> HIDE DEF hits
<1>5. hits # {} => Min(hits) \in hits /\ \A x \in hits : Min(hits) <= x
  BY <1>1, MinIs
<1>6. hits # {} => Min(hits) \in Nat /\ Min(hits) # 0
  BY <1>1, <1>5
<1>7. Find(d, n) # 0 => Find(d, n) \in hits
  BY <1>2, <1>5
<1>8. Find(d, n) # 0 => Find(d, n) \in Visible(d) /\ n \in FoundBy(d, Find(d, n))
  <2>1. \A i \in hits : i \in Visible(d) /\ n \in FoundBy(d, i)
    BY <1>3, <1>4
  <2> QED
    BY <1>7, <2>1
<1>9. \A i \in hits : Find(d, n) # 0 /\ Find(d, n) <= i
  BY <1>2, <1>5, <1>6
<1>10. Find(d, n) \in Nat
  BY <1>2, <1>6
<1> QED
  BY <1>3, <1>8, <1>9, <1>10

-----------------------------------------------------------------------------
(* The calls, each with the image it leaves, complete or cut short.        *)

WholeCall ==
  stream' = [stream EXCEPT !.unread = {i \in @ : dir'[i] = dir[i]}] /\ cuts' = cuts

CutCall == cuts < MaxCuts /\ cuts' = cuts + 1 /\ stream' = NoStream

LEMMA OneImage ==
  ASSUME NEW a, Perform(<<a>>)
  PROVE  dir' = a /\ WholeCall
<1>1. Len(<<a>>) = 1 /\ DOMAIN <<a>> = {1} /\ <<a>>[1] = a
  OBVIOUS
<1> QED
  BY <1>1 DEF Perform, WholeCall

LEMMA TwoImages ==
  ASSUME NEW a, NEW b, Perform(<<a, b>>)
  PROVE  (dir' = a /\ CutCall) \/ (dir' = b /\ WholeCall)
<1>1. /\ Len(<<a, b>>) = 2 /\ DOMAIN <<a, b>> = {1, 2}
      /\ <<a, b>>[1] = a /\ <<a, b>>[2] = b
  OBVIOUS
<1>2. PICK k \in {1, 2} :
        /\ dir' = <<a, b>>[k]
        /\ IF k = 2 THEN WholeCall ELSE CutCall
  BY <1>1 DEF Perform, WholeCall, CutCall
<1> QED
  BY <1>1, <1>2

LEMMA ThreeImages ==
  ASSUME NEW a, NEW b, NEW c, Perform(<<a, b, c>>)
  PROVE  ((dir' = a \/ dir' = b) /\ CutCall) \/ (dir' = c /\ WholeCall)
<1>1. /\ Len(<<a, b, c>>) = 3 /\ DOMAIN <<a, b, c>> = {1, 2, 3}
      /\ <<a, b, c>>[1] = a /\ <<a, b, c>>[2] = b /\ <<a, b, c>>[3] = c
  OBVIOUS
<1>2. PICK k \in {1, 2, 3} :
        /\ dir' = <<a, b, c>>[k]
        /\ IF k = 3 THEN WholeCall ELSE CutCall
  BY <1>1 DEF Perform, WholeCall, CutCall
<1> QED
  BY <1>1, <1>2

\* What a call on an entry does.
Outcome == Changes(dir, dir') /\ (CutCall \/ (WholeCall /\ Created(dir, dir')))

LEMMA ShortsAre ==
  ASSUME NEW d
  PROVE  \A i \in Shorts(d) : i \in Slots /\ i \in Nat /\ 1 <= i /\ d[i].kind = "short"
BY SlotNumbers DEF Shorts, Slots

LEMMA NothingNew ==
  ASSUME NEW d, NEW e, Shorts(e) \subseteq Shorts(d)
  PROVE  Created(d, e)
BY DEF Created

\* An entry that is put changes no other.
LEMMA PutChanges ==
  ASSUME NEW d, Laid(d), NEW name \in Names, NEW m \in {0, lfn_entry_count[name]},
         findfreeslots(d, m + 1) # 0, NEW f \in Chains, NEW t \in {"file", "directory"}
  PROVE  Changes(d, Put(d, findfreeslots(d, m + 1), m, name, Short(dos_name[name], f, t)))
<1> DEFINE at == findfreeslots(d, m + 1)
           e == Put(d, at, m, name, Short(dos_name[name], f, t))
<1>1. /\ Laid(e) /\ NoNewEnd(d, e)
      /\ Shorts(e) = Shorts(d) \cup {at + m}
      /\ KeepsEntries(d, e, Shorts(d))
  BY PutKeeps
<1> HIDE DEF e, at
<1>2. Visible(d) \subseteq Shorts(d)
  BY DEF Visible
<1>3. Shorts(d) \ Shorts(e) \subseteq {0} /\ 0 \in Nat
  BY <1>1
<1>4. KeepsEntries(d, e, Visible(d) \cap Shorts(e))
  BY <1>1, <1>2 DEF KeepsEntries
<1>5. Changes(d, e)
  BY <1>1, <1>3, <1>4 DEF Changes
<1> QED
  BY <1>5 DEF e, at

\* A new entry with its parts is found by its name, if the parts right before it are
\* its own.
LEMMA PutIsFound ==
  ASSUME NEW d, Laid(d), NEW name \in Names, NEW e, Laid(e),
         findfreeslots(d, lfn_entry_count[name] + 1) # 0, NEW at \in Nat,
         at = findfreeslots(d, lfn_entry_count[name] + 1),
         NEW i \in Shorts(e), i = at + lfn_entry_count[name],
         e[i].alias = dos_name[name],
         \A j \in at..(i - 1) : e[j] = Long(name, i - j)
  PROVE  /\ i - 1 \in at..(i - 1) /\ i - 1 \in Slots /\ e[i - 1].name = name
         /\ e[i - 1].kind = "long" /\ d[i - 1].kind # "long"
         /\ \/ /\ i - lfn_entry_count[name] - 1 \in Slots
               /\ HasLongAttribute(e[i - lfn_entry_count[name] - 1])
            \/ name \in FoundBy(e, i) /\ d_name(e, i) = name
<1> DEFINE m == lfn_entry_count[name]
<1>1. m \in Nat /\ m >= 1 /\ i \in Nat /\ i = at + m
  BY PartCounts, ShortsAre
<1>2. /\ at \in Slots /\ 1 <= at
      /\ \A j \in at..(at + m) : j \in Slots /\ IsFree(d[j]) /\ SectorOf(j) = SectorOf(at)
  BY <1>1, FreeSlotsFound
<1>3. i - 1 \in at..(i - 1) /\ i - 1 \in at..(at + m) /\ i - (i - 1) = 1
  BY <1>1, <1>2
<1>4. e[i - 1].name = name /\ e[i - 1].kind = "long"
  BY <1>3, LongIs
<1>5. i - 1 \in Slots /\ d[i - 1].kind # "long"
  BY <1>2, <1>3 DEF IsFree
<1>6. i - m - 1 = at - 1
  BY <1>1, <1>2
<1>7. \A j \in at..(i - 1) : e[j] = Long(name, i - j) /\ SectorOf(j) = SectorOf(i)
  <2>1. SectorOf(i) = SectorOf(at)
    <3>1. i \in at..(at + m)
      BY <1>1, <1>2
    <3> QED
      BY <1>2, <3>1
  <2>2. \A j \in at..(i - 1) : j \in at..(at + m)
    BY <1>1, <1>2
  <2> QED
    BY <1>2, <2>1, <2>2
<1>8. ~(at - 1 \in Slots /\ HasLongAttribute(e[at - 1]))
        => name \in FoundBy(e, i) /\ d_name(e, i) = name
  <2> SUFFICES ASSUME ~(at - 1 \in Slots /\ HasLongAttribute(e[at - 1]))
               PROVE  name \in FoundBy(e, i) /\ d_name(e, i) = name
    OBVIOUS
  <2>1. i = at + lfn_entry_count[name] /\ e[i].alias = dos_name[name]
    OBVIOUS
  <2> QED
    BY <1>2, <1>7, <2>1, OwnName
<1> QED
  BY <1>3, <1>4, <1>5, <1>6, <1>8

LEMMA PutByFput ==
  ASSUME Laid(dir), NEW name \in Names, NEW found, fput(name, found)
  PROVE  Outcome
<1> DEFINE m == lfn_entry_count[name]
           at == findfreeslots(dir, m + 1)
<1>1. at # 0 /\ m \in {0, lfn_entry_count[name]}
  BY DEF fput
<1>2. PICK f \in Chains :
        Perform(<<write_file_directory_entries(dir, at, name,
                    Short(dos_name[name], f, "file"))>>)
  BY DEF fput
<1> DEFINE e == Put(dir, at, m, name, Short(dos_name[name], f, "file"))
<1>3. write_file_directory_entries(dir, at, name, Short(dos_name[name], f, "file")) = e
  BY DEF write_file_directory_entries, Put
<1>4. dir' = e /\ WholeCall
  BY <1>2, <1>3, OneImage
<1>5. Changes(dir, e)
  BY <1>1, PutChanges
<1>6. /\ Laid(e) /\ Shorts(e) = Shorts(dir) \cup {at + m} /\ at + m \notin Shorts(dir)
      /\ e[at + m] = Short(dos_name[name], f, "file")
  BY <1>1, PutKeeps
<1>7. at \in Nat /\ m \in Nat /\ m >= 1
      /\ \A j \in at..(at + m) : j \in Slots
  BY <1>1, FreeSlotsFound, PartCounts
<1>8. \A j \in at..(at + m - 1) : e[j] = Long(name, at + m - j)
  <2>1. \A j \in at..(at + m - 1) : j \in Slots
    BY <1>7
  <2> QED
    BY <2>1 DEF Put
<1> DEFINE i == at + m
<1>9. i \in Shorts(e) /\ e[i].alias = dos_name[name]
      /\ \A j \in at..(i - 1) : e[j] = Long(name, i - j)
  <2> HIDE DEF e, at, m
  <2>1. i \in Shorts(e)
    BY <1>6
  <2>2. e[i].alias = dos_name[name]
    BY <1>6, ShortIs
  <2>3. \A j \in at..(i - 1) : e[j] = Long(name, i - j)
    BY <1>7, <1>8
  <2> QED
    BY <2>1, <2>2, <2>3
<1> HIDE DEF e
<1>10. /\ e[i - 1].name = name
       /\ \/ i - m - 1 \in Slots /\ HasLongAttribute(e[i - m - 1])
          \/ name \in FoundBy(e, i) /\ d_name(e, i) = name
  <2> DEFINE h == i
             b == at
  <2>1. h \in Shorts(e) /\ h = b + lfn_entry_count[name] /\ e[h].alias = dos_name[name]
        /\ b \in Nat /\ b = findfreeslots(dir, lfn_entry_count[name] + 1) /\ b # 0
        /\ \A j \in b..(h - 1) : e[j] = Long(name, h - j)
    BY <1>1, <1>7, <1>9
  <2>2. h - m - 1 = h - lfn_entry_count[name] - 1
    OBVIOUS
  <2> HIDE DEF h, b, i, at, m
  <2>3. /\ e[h - 1].name = name
        /\ \/ h - lfn_entry_count[name] - 1 \in Slots
              /\ HasLongAttribute(e[h - lfn_entry_count[name] - 1])
           \/ name \in FoundBy(e, h) /\ d_name(e, h) = name
    BY <1>6, <2>1, PutIsFound
  <2> QED
    BY <2>2, <2>3 DEF h
<1>11. Created(dir, e)
  <2>1. \A x \in Shorts(e) \ Shorts(dir) : x = i
    BY <1>6
  <2>2. Shorts(dir) \ Shorts(e) = {}
    BY <1>6
  <2> HIDE DEF i, at
  <2> QED
    BY <1>10, <2>1, <2>2 DEF Created
<1> QED
  BY <1>4, <1>5, <1>11 DEF Outcome

LEMMA PutByMkdir ==
  ASSUME Laid(dir), NEW name \in Names, NEW found, fat_mkdir(name, found)
  PROVE  Outcome
<1> DEFINE at == findfreeslots(dir, 1)
<1>1. at # 0 /\ 0 + 1 = 1 /\ 0 \in {0, lfn_entry_count[name]}
  BY DEF fat_mkdir
<1>2. PICK f \in Chains :
        Perform(<<[dir EXCEPT ![at] = Short(dos_name[name], f, "directory")]>>)
  BY DEF fat_mkdir
<1> DEFINE e == Put(dir, at, 0, name, Short(dos_name[name], f, "directory"))
<1>3. Changes(dir, e)
  BY <1>1, PutChanges
<1>4. Shorts(e) = Shorts(dir) \cup {at + 0}
  BY <1>1, PutKeeps
<1>5. at \in Nat /\ 1 <= at /\ at \in Slots
  BY <1>1, FreeSlotsFound
<1> HIDE DEF at
<1>6. [dir EXCEPT ![at] = Short(dos_name[name], f, "directory")] = e
  <2>1. \A j \in Slots : j \notin at..(at + 0 - 1) /\ (j = at + 0 <=> j = at)
    BY <1>5, SlotNumbers
  <2>2. dir = [j \in Slots |-> dir[j]]
    BY DEF Laid
  <2> QED
    BY <2>1, <2>2 DEF Put
<1>7. dir' = e /\ WholeCall
  BY <1>2, <1>6, OneImage
<1>8. Created(dir, e)
  <2>1. \A i \in Shorts(e) \ Shorts(dir) : i = at
    BY <1>4, <1>5
  <2>2. at > 1 => e[at - 1] = dir[at - 1]
    <3>1. at > 1 => at - 1 \in Slots
      <4>1. at > 1 => at - 1 \in 1..at
        BY <1>5
      <4> QED
        BY <1>5, <4>1, SlotNumbers
    <3>2. at - 1 \notin at..(at + 0 - 1) /\ at - 1 # at + 0
      BY <1>5
    <3> QED
      BY <3>1, <3>2 DEF Put
  <2> HIDE DEF e
  <2> QED
    BY <2>1, <2>2 DEF Created
<1> QED
  BY <1>3, <1>7, <1>8 DEF Outcome

\* An entry that is taken away, with parts of its name or none, changes no other.
LEMMA WithoutChanges ==
  ASSUME NEW d, Laid(d), NEW i \in Shorts(d), NEW K, K \subseteq LongRun(d, i),
         \A k \in K : \A j \in k..(i - 1) : j \in K
  PROVE  Changes(d, Without(d, i, K)) /\ Created(d, Without(d, i, K))
<1> DEFINE e == Without(d, i, K)
<1>1. /\ Laid(e) /\ NoNewEnd(d, e) /\ Shorts(e) = Shorts(d) \ {i}
      /\ KeepsEntries(d, e, Shorts(d) \ {i})
  BY WithoutKeeps
<1> HIDE DEF e
<1>2. i \in Nat /\ Shorts(d) \ Shorts(e) \subseteq {i}
  BY <1>1, ShortsAre
<1>3. KeepsEntries(d, e, Visible(d) \cap Shorts(e))
  BY <1>1 DEF KeepsEntries
<1>4. Changes(d, e) /\ Created(d, e)
  BY <1>1, <1>2, <1>3, NothingNew DEF Changes
<1> QED
  BY <1>4 DEF e

LEMMA Removed ==
  ASSUME Laid(dir), NEW name \in Names, NEW found, found = Find(dir, name), NEW attr,
         Removes(found, attr)
  PROVE  Outcome
<1>1. found \in Shorts(dir) /\ Perform(delete_directory_entry_with_lfn(dir, found))
  BY Hit DEF Removes, Visible
<1>2. found \in Slots /\ found \in Nat /\ 1 <= found /\ dir = [j \in Slots |-> dir[j]]
  BY <1>1, ShortsAre DEF Laid
<1> DEFINE short == [dir EXCEPT ![found] = Deleted]
           own == found > 1 /\ HasLongAttribute(dir[found - 1])
                    /\ dir[found - 1].sum = lfn_checksum[dir[found].alias]
           both == [short EXCEPT ![found - 1] = Erased(@)]
<1>3. delete_directory_entry_with_lfn(dir, found) = IF own THEN <<short, both>> ELSE <<short>>
  BY DEF delete_directory_entry_with_lfn
<1>4. short = Without(dir, found, {})
  BY <1>2 DEF Without
<1>5. Changes(dir, short) /\ Created(dir, short)
  <2> DEFINE K == {}
  <2>1. K \subseteq LongRun(dir, found) /\ \A k \in K : \A j \in k..(found - 1) : j \in K
    OBVIOUS
  <2> HIDE DEF K
  <2>2. Changes(dir, Without(dir, found, K)) /\ Created(dir, Without(dir, found, K))
    BY <1>1, <2>1, WithoutChanges
  <2> QED
    BY <1>4, <2>2 DEF K
<1>6. CASE own
  <2> DEFINE K == {found - 1}
  <2>1. found - 1 \in Slots /\ found - 1 # found /\ found - 1 \in Nat
    <3>1. found - 1 \in 1..found
      BY <1>2, <1>6
    <3> QED
      BY <1>2, <3>1, SlotNumbers
  <2>2. K \subseteq LongRun(dir, found)
    <3>1. found - 1 \in 1..(found - 1)
      BY <1>2, <1>6
    <3>2. \A j \in (found - 1)..(found - 1) : HasLongAttribute(dir[j])
      BY <1>2, <1>6
    <3> QED
      BY <1>1, <3>1, <3>2, BeforeShort
  <2>3. \A k \in K : \A j \in k..(found - 1) : j \in K
    BY <1>2
  <2>4. both = Without(dir, found, K)
    BY <1>2, <2>1 DEF Without
  <2>5. Changes(dir, both) /\ Created(dir, both)
    <3> HIDE DEF K, both
    <3>1. Changes(dir, Without(dir, found, K)) /\ Created(dir, Without(dir, found, K))
      BY <1>1, <2>2, <2>3, WithoutChanges
    <3> QED
      BY <2>4, <3>1
  <2>6. Perform(<<short, both>>)
    BY <1>1, <1>3, <1>6
  <2>7. (dir' = short /\ CutCall) \/ (dir' = both /\ WholeCall)
    BY <2>6, TwoImages
  <2> HIDE DEF short, both
  <2> QED
    BY <1>5, <2>5, <2>7 DEF Outcome
<1>7. CASE ~own
  <2>1. Perform(<<short>>)
    BY <1>1, <1>3, <1>7
  <2>2. dir' = short /\ WholeCall
    BY <2>1, OneImage
  <2> HIDE DEF short
  <2> QED
    BY <1>5, <2>2 DEF Outcome
<1> QED
  BY <1>6, <1>7

\* The attribute of the entry a search finds, if it finds one.
MarkedAs(d, e, F, t) ==
  /\ Laid(e) /\ NoNewEnd(d, e) /\ Shorts(e) = Shorts(d)
  /\ F # 0 => e[F].attr = t
  /\ \A j \in Shorts(d) : e[j].alias = d[j].alias
  /\ \A j \in Slots : j # F => e[j] = d[j]
  /\ KeepsEntries(d, e, Shorts(d) \ {F})

LEMMA Marked ==
  ASSUME NEW d, Laid(d), NEW new, NEW t \in {"file", "directory"}
  PROVE  MarkedAs(d, WithAttribute(d, new, t), Find(d, new), t)
<1> DEFINE F == Find(d, new)
           e == WithAttribute(d, new, t)
<1>1. e = IF F = 0 THEN d ELSE WithAttr(d, F, t)
  BY DEF WithAttribute, WithAttr
<1>2. F # 0 => F \in Shorts(d)
  BY Hit DEF Visible
<1> HIDE DEF F, e
<1>3. CASE F = 0
  <2>1. e = d
    BY <1>1, <1>3
  <2>2. KeepsEntries(d, d, Shorts(d) \ {F})
    BY DEF KeepsEntries, SameEntry
  <2> QED
    BY <1>3, <2>1, <2>2 DEF MarkedAs, NoNewEnd, e, F
<1>4. CASE F # 0
  <2> DEFINE g == WithAttr(d, F, t)
  <2>1. e = g
    BY <1>1, <1>4
  <2>2. /\ Laid(g) /\ NoNewEnd(d, g) /\ Shorts(g) = Shorts(d)
        /\ g[F].attr = t /\ g[F].alias = d[F].alias
        /\ \A j \in Slots : j # F => g[j] = d[j]
        /\ KeepsEntries(d, g, Shorts(d) \ {F})
    <3>1. F \in Shorts(d)
      BY <1>2, <1>4
    <3>2. AttributeChanges(d, WithAttr(d, F, t), F, t)
      BY <3>1, AttributeKeeps
    <3> QED
      BY <3>2 DEF AttributeChanges
  <2> HIDE DEF g
  <2>3. \A j \in Shorts(d) : g[j].alias = d[j].alias
    BY <2>2 DEF Shorts
  <2> QED
    BY <2>1, <2>2, <2>3 DEF MarkedAs, e, F
<1> QED
  BY <1>3, <1>4

LEMMA Renamed ==
  ASSUME Laid(dir), NEW name \in Names, NEW new \in Names, NEW found, found = Find(dir, name),
         fat_rename(found, new)
  PROVE  Outcome
<1> DEFINE m == lfn_entry_count[new]
           at == findfreeslots(dir, m + 1)
           i == at + m
           a == dir[found].attr
           w == Put(dir, at, m, new, Short(dos_name[new], dir[found].file, "file"))
           F == Find(w, new)
           k == WithAttribute(w, new, a)
           K == LongRun(k, found)
           g == Without(k, found, K)
<1>1. found # 0 /\ at # 0 /\ Find(dir, new) = 0 /\ m \in {0, lfn_entry_count[new]}
  BY DEF fat_rename
<1>2. found \in Visible(dir) /\ found \in Shorts(dir) /\ found \in Slots
  BY <1>1, Hit DEF Visible, Shorts
<1>3. dir[found].file \in Chains /\ a \in {"file", "directory"} /\ dir[found].kind = "short"
  BY <1>2, SlotIs DEF Laid, Shorts
<1>4. /\ Laid(w) /\ NoNewEnd(dir, w) /\ i \in Slots /\ i \notin Shorts(dir)
      /\ w[i] = Short(dos_name[new], dir[found].file, "file")
      /\ Shorts(w) = Shorts(dir) \cup {i}
      /\ KeepsEntries(dir, w, Shorts(dir))
  BY <1>1, <1>3, PutKeeps
<1>5. Changes(dir, w)
  BY <1>1, <1>3, PutChanges
<1>6. /\ at \in Slots /\ at \in Nat /\ 1 <= at /\ m \in Nat /\ m >= 1
      /\ \A j \in at..(at + m) : j \in Slots /\ IsFree(dir[j])
  BY <1>1, FreeSlotsFound, PartCounts
<1>7. /\ \A j \in at..(at + m - 1) : w[j] = Long(new, at + m - j)
      /\ \A j \in Slots : j < at => w[j] = dir[j]
  <2>1. \A j \in at..(at + m - 1) : j \in Slots
    BY <1>6
  <2>2. \A j \in Slots : j < at => j \notin at..(at + m - 1) /\ j # at + m
    BY <1>6, SlotNumbers
  <2> QED
    BY <2>1, <2>2 DEF Put
<1>8. /\ Laid(k) /\ NoNewEnd(w, k) /\ Shorts(k) = Shorts(w)
      /\ F # 0 => k[F].attr = a
      /\ \A j \in Shorts(w) : k[j].alias = w[j].alias
      /\ \A j \in Slots : j # F => k[j] = w[j]
      /\ KeepsEntries(w, k, Shorts(w) \ {F})
  <2> HIDE DEF w, a
  <2> QED
    <3>1. MarkedAs(w, k, F, a)
      BY <1>3, <1>4, Marked
    <3> QED
      BY <3>1 DEF MarkedAs
<1>9. /\ F # 0 => F \in Visible(w) /\ new \in FoundBy(w, F)
      /\ \A x \in Visible(w) : new \in FoundBy(w, x) => F # 0 /\ F <= x
      /\ F \in Nat
  <2> HIDE DEF w
  <2> QED
    BY Hit
<1>10. F \notin Visible(dir)
  <2> SUFFICES ASSUME F \in Visible(dir) PROVE FALSE
    OBVIOUS
  <2> HIDE DEF w, F
  <2>1. F \in Shorts(dir) /\ F # 0
    BY ShortsAre DEF Visible
  <2>2. SameEntry(dir, w, F) /\ new \in FoundBy(w, F)
    BY <1>4, <1>9, <2>1 DEF KeepsEntries
  <2>3. new \in FoundBy(dir, F)
    BY <2>2 DEF SameEntry
  <2> QED
    BY <1>1, <2>3, Hit
<1>11. found \in Shorts(k) /\ K \subseteq LongRun(k, found)
       /\ \A x \in K : \A j \in x..(found - 1) : j \in K
  <2> HIDE DEF k
  <2> QED
    BY <1>2, <1>4, <1>8, RunSlots
<1>12. WithoutOld(k, found) = g
  <2> HIDE DEF k
  <2>1. RunBefore(k, found, SectorOf(found) * PerSector + 1, HasLongAttribute) = K
    BY <1>8, <1>11, RunsAgree
  <2> QED
    BY <2>1 DEF WithoutOld, Without
<1>13. /\ Laid(g) /\ NoNewEnd(k, g) /\ Shorts(g) = Shorts(k) \ {found}
       /\ KeepsEntries(k, g, Shorts(k) \ {found})
  <2> HIDE DEF k, K
  <2> QED
    BY <1>8, <1>11, WithoutKeeps
<1>14. \A j \in Slots : j # found /\ j \notin K => g[j] = k[j]
  <2> HIDE DEF k, K
  <2> QED
    BY DEF Without
<1>15. \A x \in K : x < found /\ k[x].kind = "long" /\ \A j \in x..(found - 1) : k[j].kind = "long"
  <2> HIDE DEF k
  <2> QED
    BY <1>2, RunSlots
<1>16. Perform(<<w, k, g>>)
  <2>1. write_file_directory_entries(dir, at, new, Short(dos_name[new], dir[found].file, "file"))
          = w
    BY DEF write_file_directory_entries, Put
  <2>2. Perform(<<w, k, WithoutOld(k, found)>>)
    BY <2>1 DEF fat_rename
  <2> HIDE DEF w, k, g
  <2> QED
    BY <1>12, <2>2
<1> HIDE DEF g, K, k, F, w
<1>17. Visible(dir) \subseteq Shorts(dir) /\ Visible(dir) \subseteq Shorts(w) \ {F}
  BY <1>4, <1>10 DEF Visible
<1>18. KeepsEntries(dir, k, Visible(dir)) /\ NoNewEnd(dir, k)
  <2>1. KeepsEntries(dir, w, Visible(dir)) /\ KeepsEntries(w, k, Visible(dir))
    BY <1>4, <1>8, <1>17 DEF KeepsEntries
  <2> QED
    BY <1>4, <1>8, <2>1, KeepsTwice, NoNewEndTwice
<1>19. found \in Nat /\ 0 \in Nat
  BY <1>2, ShortsAre
<1>20. Changes(dir, k)
  <2>1. Shorts(dir) \ Shorts(k) \subseteq {0}
    BY <1>4, <1>8
  <2>2. KeepsEntries(dir, k, Visible(dir) \cap Shorts(k))
    BY <1>18 DEF KeepsEntries
  <2> QED
    BY <1>8, <1>18, <1>19, <2>1, <2>2 DEF Changes
<1>21. Changes(dir, g)
  <2>1. Shorts(dir) \ Shorts(g) \subseteq {found}
    BY <1>4, <1>8, <1>13
  <2> DEFINE S == Visible(dir) \cap Shorts(g)
  <2>2. KeepsEntries(dir, k, S) /\ KeepsEntries(k, g, S)
    BY <1>13, <1>18 DEF KeepsEntries
  <2>3. KeepsEntries(dir, g, S)
    <3> HIDE DEF S
    <3> QED
      BY <2>2, KeepsTwice
  <2>4. NoNewEnd(dir, g)
    BY <1>13, <1>18, NoNewEndTwice
  <2> QED
    BY <1>13, <1>19, <2>1, <2>3, <2>4 DEF Changes
<1>22. i \in Shorts(g) /\ i \in Shorts(k) /\ i # found /\ g[i] = k[i] /\ SameEntry(k, g, i)
       /\ g[i].alias = dos_name[new] /\ k[i].kind = "short" /\ k[found].kind = "short"
  <2>1. i # found /\ i \in Shorts(w) /\ i \in Shorts(k)
    BY <1>2, <1>4, <1>8
  <2>2. i \in Shorts(g) /\ g[i] = k[i] /\ SameEntry(k, g, i)
    BY <1>13, <2>1 DEF KeepsEntries
  <2>3. k[i].alias = w[i].alias /\ w[i].alias = dos_name[new]
    BY <1>4, <1>8, <2>1, ShortIs
  <2>4. k[i].kind = "short" /\ k[found].kind = "short"
    BY <1>11, <2>1, ShortsAre
  <2> QED
    BY <2>1, <2>2, <2>3, <2>4
<1>23. \A j \in at..(i - 1) : g[j] = Long(new, i - j)
  <2> SUFFICES ASSUME NEW j \in at..(i - 1) PROVE g[j] = Long(new, i - j)
    OBVIOUS
  <2> HIDE DEF at, m
  <2>1. j \in at..(at + m - 1) /\ j \in at..(at + m) /\ j \in Nat /\ j < i /\ i \in Nat /\ at + m = i
    BY <1>6
  <2>2. w[j] = Long(new, i - j) /\ w[j].kind = "long" /\ j \in Slots
    BY <1>6, <1>7, <2>1, LongIs
  <2>3. k[j] = w[j]
    <3>1. F # 0 => F \in Shorts(w)
      BY <1>9 DEF Visible
    <3>2. F # 0 => w[F].kind = "short"
      BY <3>1, ShortsAre
    <3>3. j # F
      BY <1>6, <2>1, <2>2, <3>2
    <3> QED
      BY <1>8, <2>2, <3>3
  <2>4. j # found
    BY <1>22, <2>2, <2>3
  <2>5. j \notin K
    <3> SUFFICES ASSUME j \in K PROVE FALSE
      OBVIOUS
    <3>1. j < found /\ \A x \in j..(found - 1) : k[x].kind = "long"
      BY <1>15
    <3>2. CASE i < found
      <4>1. i \in j..(found - 1)
        BY <1>19, <2>1, <3>2
      <4> QED
        BY <1>22, <3>1, <4>1
    <3>3. CASE found < i
      <4>1. found \in at..(at + m)
        BY <1>6, <1>19, <2>1, <3>1, <3>3
      <4>2. IsFree(dir[found])
        BY <1>6, <4>1
      <4> QED
        BY <1>3, <4>2 DEF IsFree
    <3> QED
      BY <1>19, <1>22, <2>1, <3>2, <3>3
  <2> QED
    BY <1>14, <2>2, <2>3, <2>4, <2>5
<1>24. ASSUME i \in Visible(g), new \in FoundBy(g, i)
       PROVE  g[i].attr = a
  <2> SUFFICES ASSUME F # i PROVE FALSE
    BY <1>6, <1>8, <1>22
  <2>1. SameEntry(w, k, i)
    <3>1. i \in Shorts(w) \ {F}
      BY <1>4
    <3> QED
      BY <1>8, <3>1 DEF KeepsEntries
  <2>2. new \in FoundBy(w, i)
    BY <1>22, <1>24, <2>1 DEF SameEntry
  <2>3. \A j \in Slots : w[j].kind = "end" => g[j].kind = "end"
    <3> SUFFICES ASSUME NEW j \in Slots, w[j].kind = "end" PROVE g[j].kind = "end"
      OBVIOUS
    <3>1. F # 0 => F \in Shorts(w)
      BY <1>9 DEF Visible
    <3>2. F # 0 => w[F].kind = "short"
      BY <3>1, ShortsAre
    <3>3. j # 0
      BY SlotNumbers DEF Slots
    <3>4. k[j] = w[j]
      BY <1>8, <3>2, <3>3
    <3>5. j # found /\ j \notin K
      BY <1>15, <1>22, <3>4
    <3> QED
      BY <1>14, <3>4, <3>5
  <2>4. i \in Visible(w)
    <3>1. \A j \in 1..i : j \in Slots /\ g[j].kind # "end"
      BY <1>4, <1>24, SlotNumbers DEF Visible
    <3>2. \A j \in 1..i : w[j].kind # "end"
      BY <2>3, <3>1
    <3>3. i \in Shorts(w)
      BY <1>4
    <3> QED
      BY <3>2, <3>3 DEF Visible
  <2>5. F # 0 /\ F <= i /\ F \in Visible(w) /\ F \in Nat
    BY <1>9, <2>2, <2>4
  <2>6. F \in Shorts(dir) /\ F \in Slots /\ dir[F].kind = "short"
    <3>1. F \in Shorts(w)
      BY <2>5 DEF Visible
    <3>2. F \in Shorts(dir)
      BY <1>4, <3>1
    <3> QED
      BY <3>2, ShortsAre
  <2>7. F < at
    <3> SUFFICES ASSUME at <= F PROVE FALSE
      BY <1>6, <2>5
    <3> HIDE DEF at, m
    <3>1. F \in at..(at + m)
      BY <1>6, <2>5
    <3> QED
      BY <1>6, <2>6, <3>1 DEF IsFree
  <2>8. \A j \in 1..F : dir[j].kind # "end"
    <3> HIDE DEF at, m
    <3>1. \A j \in 1..F : j \in Slots /\ j < at
      BY <1>6, <2>5, <2>6, <2>7, SlotNumbers
    <3>2. \A j \in 1..F : w[j].kind # "end"
      BY <2>5 DEF Visible
    <3> QED
      BY <1>7, <3>1, <3>2
  <2>9. F \in Visible(dir)
    BY <2>6, <2>8 DEF Visible
  <2> QED
    BY <1>10, <2>9
<1>25. Created(dir, g)
  <2>1. \A x \in Shorts(g) \ Shorts(dir) : x = i
    BY <1>4, <1>8, <1>13
  <2>2. \A x \in Shorts(dir) \ Shorts(g) : x = found
    BY <1>4, <1>8, <1>13
  <2>3. /\ g[i - 1].name = new
        /\ \/ i - m - 1 \in Slots /\ HasLongAttribute(g[i - m - 1])
           \/ new \in FoundBy(g, i) /\ d_name(g, i) = new
    <3> DEFINE h == i
               b == at
    <3>1. h \in Shorts(g) /\ h = b + lfn_entry_count[new] /\ g[h].alias = dos_name[new]
          /\ b \in Nat /\ b = findfreeslots(dir, lfn_entry_count[new] + 1) /\ b # 0
      BY <1>1, <1>6, <1>22
    <3>2. \A j \in b..(h - 1) : g[j] = Long(new, h - j)
      BY <1>23
    <3>3. h - m - 1 = h - lfn_entry_count[new] - 1
      OBVIOUS
    <3> HIDE DEF h, b, i, at, m
    <3>4. /\ g[h - 1].name = new
          /\ \/ h - lfn_entry_count[new] - 1 \in Slots
                /\ HasLongAttribute(g[h - lfn_entry_count[new] - 1])
             \/ new \in FoundBy(g, h) /\ d_name(g, h) = new
      <4>1. Laid(g) /\ new \in Names
        BY <1>13
      <4>2. /\ h \in Shorts(g) /\ h = b + lfn_entry_count[new] /\ g[h].alias = dos_name[new]
            /\ b \in Nat /\ b = findfreeslots(dir, lfn_entry_count[new] + 1) /\ b # 0
            /\ \A j \in b..(h - 1) : g[j] = Long(new, h - j)
        BY <3>1, <3>2
      <4> QED
        BY <4>1, <4>2, PutIsFound
    <3> QED
      BY <3>3, <3>4 DEF h
  <2>4. i \in Visible(g) /\ new \in FoundBy(g, i) =>
          \A x \in Shorts(dir) \ Shorts(g) : dir[x].attr = g[i].attr
    <3> HIDE DEF i
    <3> QED
      BY <1>24, <2>2
  <2> HIDE DEF i, at
  <2> QED
    BY <2>1, <2>3, <2>4 DEF Created
<1>26. ((dir' = w \/ dir' = k) /\ CutCall) \/ (dir' = g /\ WholeCall)
  BY <1>16, ThreeImages
<1> QED
  BY <1>5, <1>20, <1>21, <1>25, <1>26 DEF Outcome

-----------------------------------------------------------------------------
(* The bytes the records of entries take.                                  *)

AnyOf(s) == CHOOSE x \in s : TRUE

Length(i) == reclen[d_name(dir, i)]

\* The function Used is computed with.
IsTotal(S, g) ==
  g = [s \in SUBSET S |-> IF s = {} THEN 0 ELSE Length(AnyOf(s)) + g[s \ {AnyOf(s)}]]

LEMMA AnyOfIs == ASSUME NEW s, s # {} PROVE AnyOf(s) \in s
BY DEF AnyOf

LEMMA TotalsAgree ==
  ASSUME NEW S, NEW T, NEW g, NEW h, IsTotal(S, g), IsTotal(T, h),
         NEW R, R \subseteq S, R \subseteq T, IsFiniteSet(R)
  PROVE  \A s \in SUBSET R : g[s] = h[s]
<1> DEFINE G == {s \in SUBSET R : g[s] = h[s]}
<1>1. ASSUME NEW s \in SUBSET R, \A t \in SUBSET s : t # s => t \in G
      PROVE  s \in G
  <2>1. /\ g[s] = IF s = {} THEN 0 ELSE Length(AnyOf(s)) + g[s \ {AnyOf(s)}]
        /\ h[s] = IF s = {} THEN 0 ELSE Length(AnyOf(s)) + h[s \ {AnyOf(s)}]
    BY DEF IsTotal
  <2>2. CASE s = {}
    BY <2>1, <2>2
  <2>3. CASE s # {}
    <3>1. s \ {AnyOf(s)} \in SUBSET s /\ s \ {AnyOf(s)} # s
      BY <2>3, AnyOfIs
    <3>2. g[s \ {AnyOf(s)}] = h[s \ {AnyOf(s)}]
      BY <1>1, <3>1
    <3> QED
      BY <2>1, <2>3, <3>2
  <2> QED
    BY <2>2, <2>3
<1> HIDE DEF G
<1>2. \A s \in SUBSET R : s \in G
  BY <1>1, SubsetsInTurn
<1> QED
  BY <1>2 DEF G

LEMMA TotalExists ==
  ASSUME NEW S, IsFiniteSet(S)
  PROVE  \E g : IsTotal(S, g)
<1> DEFINE G == {s \in SUBSET S : \E g : IsTotal(s, g)}
           val(t) == (CHOOSE g : IsTotal(t, g))[t]
<1>1. ASSUME NEW s \in SUBSET S, \A t \in SUBSET s : t # s => t \in G
      PROVE  s \in G
  <2> DEFINE h == [u \in SUBSET s |->
                     IF u = {} THEN 0 ELSE Length(AnyOf(u)) + val(u \ {AnyOf(u)})]
  <2>1. ASSUME NEW v \in SUBSET s, v # s PROVE h[v] = val(v)
    <3> DEFINE g == CHOOSE g : IsTotal(v, g)
               w == v \ {AnyOf(v)}
    <3>1. IsTotal(v, g)
      BY <1>1, <2>1
    <3>2. val(v) = IF v = {} THEN 0 ELSE Length(AnyOf(v)) + g[w]
      <4>1. g[v] = IF v = {} THEN 0 ELSE Length(AnyOf(v)) + g[w]
        <5> HIDE DEF g
        <5> QED
          BY <3>1 DEF IsTotal
      <4> QED
        BY <4>1
    <3>3. v # {} => val(w) = g[w]
      <4> SUFFICES ASSUME v # {} PROVE val(w) = g[w]
        OBVIOUS
      <4> DEFINE k == CHOOSE k : IsTotal(w, k)
      <4>1. w \in SUBSET s /\ w # s /\ w \subseteq v
        BY AnyOfIs
      <4>2. IsTotal(w, k)
        BY <1>1, <4>1
      <4>3. IsFiniteSet(w)
        BY <4>1, FS_Subset
      <4>4. k[w] = g[w]
        <5> HIDE DEF k, g, w
        <5>1. \A x \in SUBSET w : k[x] = g[x]
          BY <3>1, <4>1, <4>2, <4>3, TotalsAgree
        <5> QED
          BY <5>1
      <4> QED
        BY <4>4
    <3>4. h[v] = IF v = {} THEN 0 ELSE Length(AnyOf(v)) + val(w)
      OBVIOUS
    <3> HIDE DEF val, h, g
    <3> QED
      BY <3>2, <3>3, <3>4
  <2>2. IsTotal(s, h)
    <3>1. ASSUME NEW u \in SUBSET s, u # {}
          PROVE  h[u \ {AnyOf(u)}] = val(u \ {AnyOf(u)})
      <4>1. u \ {AnyOf(u)} \in SUBSET s /\ u \ {AnyOf(u)} # s
        BY <3>1, AnyOfIs
      <4> HIDE DEF h, val
      <4> QED
        BY <2>1, <4>1
    <3>2. h = [u \in SUBSET s |->
                 IF u = {} THEN 0 ELSE Length(AnyOf(u)) + h[u \ {AnyOf(u)}]]
      <4>1. h = [u \in SUBSET s |->
                   IF u = {} THEN 0 ELSE Length(AnyOf(u)) + val(u \ {AnyOf(u)})]
        OBVIOUS
      <4> HIDE DEF h, val
      <4> QED
        BY <3>1, <4>1
    <3> HIDE DEF h
    <3> QED
      BY <3>2 DEF IsTotal
  <2> HIDE DEF h
  <2> QED
    BY <2>2
<1> HIDE DEF G
<1>2. S \in G
  BY <1>1, SubsetsInTurn
<1> QED
  BY <1>2 DEF G

LEMMA TotalIs ==
  ASSUME NEW S, IsFiniteSet(S)
  PROVE  \E g : IsTotal(S, g) /\ Used(S) = g[S]
<1> DEFINE h == CHOOSE h : IsTotal(S, h)
<1>1. IsTotal(S, h)
  BY TotalExists
<1>2. Used(S) = h[S]
  BY DEF Used, MapThenSumSet, MapThenFoldSet, IsTotal, AnyOf, Length
<1> QED
  BY <1>1, <1>2

LEMMA TotalIsNat ==
  ASSUME NEW S, IsFiniteSet(S), NEW g, IsTotal(S, g), \A x \in S : Length(x) \in Nat
  PROVE  \A s \in SUBSET S : g[s] \in Nat
<1> DEFINE G == {s \in SUBSET S : g[s] \in Nat}
<1>1. ASSUME NEW s \in SUBSET S, \A t \in SUBSET s : t # s => t \in G
      PROVE  s \in G
  <2>1. g[s] = IF s = {} THEN 0 ELSE Length(AnyOf(s)) + g[s \ {AnyOf(s)}]
    BY DEF IsTotal
  <2>2. CASE s = {}
    BY <2>1, <2>2
  <2>3. CASE s # {}
    <3>1. AnyOf(s) \in s /\ s \ {AnyOf(s)} \in SUBSET s /\ s \ {AnyOf(s)} # s
      BY <2>3, AnyOfIs
    <3>2. g[s \ {AnyOf(s)}] \in Nat
      BY <1>1, <3>1
    <3> QED
      BY <2>1, <2>3, <3>1, <3>2
  <2> QED
    BY <2>2, <2>3
<1> HIDE DEF G
<1>2. \A s \in SUBSET S : s \in G
  BY <1>1, SubsetsInTurn
<1> QED
  BY <1>2 DEF G

\* Whatever entry comes first, the total is the same.
LEMMA AnyEntryFirst ==
  ASSUME NEW S, IsFiniteSet(S), NEW g, IsTotal(S, g), \A x \in S : Length(x) \in Nat
  PROVE  \A s \in SUBSET S : \A x \in s : g[s] = Length(x) + g[s \ {x}]
<1> DEFINE G == {s \in SUBSET S : \A x \in s : g[s] = Length(x) + g[s \ {x}]}
<1>0. \A s \in SUBSET S : g[s] \in Nat
  BY TotalIsNat
<1>1. ASSUME NEW s \in SUBSET S, \A t \in SUBSET s : t # s => t \in G
      PROVE  s \in G
  <2> SUFFICES ASSUME NEW x \in s PROVE g[s] = Length(x) + g[s \ {x}]
    OBVIOUS
  <2> DEFINE p == AnyOf(s)
  <2>1. p \in s /\ g[s] = Length(p) + g[s \ {p}]
    BY AnyOfIs DEF IsTotal
  <2>2. CASE p = x
    BY <2>1, <2>2
  <2>3. CASE p # x
    <3> HIDE DEF p
    <3> DEFINE r == (s \ {p}) \ {x}
    <3>1. g[s \ {p}] = Length(x) + g[r]
      <4>1. s \ {p} \in SUBSET s /\ s \ {p} # s /\ x \in s \ {p}
        BY <2>1, <2>3
      <4> QED
        BY <1>1, <4>1
    <3>2. g[s \ {x}] = Length(p) + g[r]
      <4>1. s \ {x} \in SUBSET s /\ s \ {x} # s /\ p \in s \ {x}
        BY <2>1, <2>3
      <4>2. (s \ {x}) \ {p} = r
        OBVIOUS
      <4> QED
        BY <1>1, <4>1, <4>2
    <3>3. Length(x) \in Nat /\ Length(p) \in Nat /\ g[r] \in Nat
      BY <1>0, <2>1
    <3> HIDE DEF r
    <3> QED
      BY <2>1, <3>1, <3>2, <3>3
  <2> QED
    BY <2>2, <2>3
<1> HIDE DEF G
<1>2. \A s \in SUBSET S : s \in G
  BY <1>1, SubsetsInTurn
<1> QED
  BY <1>2 DEF G

\* More entries take no less.
LEMMA UsedGrows ==
  ASSUME NEW S, IsFiniteSet(S), \A x \in S : Length(x) \in Nat, NEW T, T \subseteq S
  PROVE  Used(S) \in Nat /\ Used(T) \in Nat /\ Used(T) <= Used(S)
<1>1. PICK g : IsTotal(S, g) /\ Used(S) = g[S]
  BY TotalIs
<1>2. IsFiniteSet(T)
  BY FS_Subset
<1>3. PICK h : IsTotal(T, h) /\ Used(T) = h[T]
  BY <1>2, TotalIs
<1>4. h[T] = g[T]
  <2>1. \A s \in SUBSET T : h[s] = g[s]
    BY <1>1, <1>2, <1>3, TotalsAgree
  <2> QED
    BY <2>1
<1>5. \A s \in SUBSET S : g[s] \in Nat
  BY <1>1, TotalIsNat
<1> DEFINE G == {s \in SUBSET S : T \subseteq s => g[T] <= g[s]}
<1>6. ASSUME NEW s \in SUBSET S, \A t \in SUBSET s : t # s => t \in G
      PROVE  s \in G
  <2> SUFFICES ASSUME T \subseteq s, T # s PROVE g[T] <= g[s]
    BY <1>5
  <2>1. PICK x \in s : x \notin T
    OBVIOUS
  <2>2. g[s] = Length(x) + g[s \ {x}]
    BY <1>1, AnyEntryFirst
  <2>3. g[T] <= g[s \ {x}]
    <3>1. s \ {x} \in SUBSET s /\ s \ {x} # s /\ T \subseteq s \ {x}
      BY <2>1
    <3> QED
      BY <1>6, <3>1
  <2>4. g[T] \in Nat /\ g[s \ {x}] \in Nat /\ Length(x) \in Nat /\ g[s] \in Nat
    <3>1. s \ {x} \in SUBSET S /\ x \in S
      BY <2>1
    <3> QED
      BY <1>5, <3>1
  <2> QED
    BY <2>2, <2>3, <2>4
<1> HIDE DEF G
<1>7. \A s \in SUBSET S : s \in G
  BY <1>6, SubsetsInTurn
<1>8. g[T] <= g[S]
  BY <1>7 DEF G
<1> QED
  BY <1>1, <1>3, <1>4, <1>5, <1>8

LEMMA UsedByNone == Used({}) = 0
<1>1. PICK g : IsTotal({}, g) /\ Used({}) = g[{}]
  BY TotalIs, FS_EmptySet
<1> QED
  BY <1>1 DEF IsTotal

LEMMA LengthIs ==
  ASSUME Laid(dir)
  PROVE  \A i \in Shorts(dir) : Length(i) \in Nat
<1> SUFFICES ASSUME NEW i \in Shorts(dir) PROVE Length(i) \in Nat
  OBVIOUS
<1>1. d_name(dir, i) \in FoundBy(dir, i)
  BY ListedUnder
<1>2. FoundBy(dir, i) = {dir[i].alias} \cup Joined(dir, i)
  BY NamesAre
<1>3. Joined(dir, i) \subseteq Names
  BY DEF Joined, get_lfn_name
<1>4. dir[i].alias \in Names
  <2>1. dir[i].alias \in Aliases
    BY SlotIs DEF Laid, Shorts
  <2> QED
    BY <2>1, DirectoryAssumption DEF Aliases
<1> QED
  BY <1>1, <1>2, <1>3, <1>4, DirectoryAssumption DEF Length

-----------------------------------------------------------------------------
(* Open directories.                                                       *)

\* What a stream has still to read lies ahead of it, and a search reaches it.
Ahead(d, s) ==
  /\ s \in [open : BOOLEAN, at : 0..Max(Slots), eof : BOOLEAN, unread : SUBSET Slots]
  /\ \A i \in s.unread : i \in Visible(d) /\ i > s.at
  /\ s.eof => s.unread = {}

DirInv == Laid(dir) /\ Ahead(dir, stream) /\ cuts \in 0..MaxCuts

LEMMA LastSlot == Max(Slots) \in Nat /\ 0 \in 0..Max(Slots) /\ \A i \in Slots : i \in 0..Max(Slots)
<1>1. Max(Slots) \in Slots /\ \A i \in Slots : i <= Max(Slots)
  BY SlotNumbers, MaxIs
<1> DEFINE m == Max(Slots)
<1>2. m \in Nat /\ \A i \in Slots : i \in Nat /\ i <= m
  BY <1>1, SlotNumbers
<1> HIDE DEF m
<1>3. 0 \in 0..m /\ \A i \in Slots : i \in 0..m
  BY <1>2
<1> QED
  BY <1>2, <1>3 DEF m

LEMMA NoStreamAhead ==
  ASSUME NEW d
  PROVE  Ahead(d, NoStream)
BY LastSlot DEF Ahead, NoStream

\* A call on an entry leaves the rest of what a stream has to read.
LEMMA StreamStays ==
  ASSUME DirInv, Changes(dir, dir'), WholeCall
  PROVE  Ahead(dir', stream')
<1> DEFINE s == stream
           left == {i \in s.unread : dir'[i] = dir[i]}
<1>1. /\ s \in [open : BOOLEAN, at : 0..Max(Slots), eof : BOOLEAN, unread : SUBSET Slots]
      /\ \A i \in s.unread : i \in Visible(dir) /\ i > s.at
      /\ s.eof => s.unread = {}
  BY DEF DirInv, Ahead
<1>2. stream' = [s EXCEPT !.unread = left]
  BY DEF WholeCall
<1> HIDE DEF s
<1>3. \A i \in left : i \in s.unread /\ i \in Visible(dir')
  <2> SUFFICES ASSUME NEW i \in left PROVE i \in s.unread /\ i \in Visible(dir')
    OBVIOUS
  <2>1. i \in s.unread /\ i \in Visible(dir) /\ dir'[i] = dir[i]
    BY <1>1
  <2>2. i \in Shorts(dir) /\ i \in Slots
    BY <2>1 DEF Visible, Shorts
  <2>3. i \in Shorts(dir')
    BY <2>1, <2>2 DEF Shorts
  <2>4. NoNewEnd(dir, dir')
    BY DEF Changes
  <2> QED
    BY <2>1, <2>3, <2>4, StaysVisible
<1>4. left \subseteq s.unread
  OBVIOUS
<1> HIDE DEF left
<1>5. stream' \in [open : BOOLEAN, at : 0..Max(Slots), eof : BOOLEAN, unread : SUBSET Slots]
      /\ stream'.at = s.at /\ stream'.eof = s.eof /\ stream'.unread = left
  BY <1>1, <1>2, <1>4
<1> QED
  BY <1>1, <1>3, <1>4, <1>5 DEF Ahead

LEMMA CallKeeps ==
  ASSUME DirInv, Outcome
  PROVE  DirInv'
<1>1. Laid(dir')
  BY DEF Outcome, Changes
<1>2. CASE CutCall
  <2>1. cuts \in 0..MaxCuts /\ MaxCuts \in Nat
    BY DirectoryAssumption DEF DirInv
  <2>2. cuts' \in 0..MaxCuts /\ stream' = NoStream
    BY <1>2, <2>1 DEF CutCall
  <2> QED
    BY <1>1, <2>2, NoStreamAhead DEF DirInv
<1>3. CASE WholeCall
  <2>1. Ahead(dir', stream')
    BY <1>3, StreamStays DEF Outcome
  <2>2. cuts' = cuts
    BY <1>3 DEF WholeCall
  <2> QED
    BY <1>1, <2>1, <2>2 DEF DirInv
<1> QED
  BY <1>2, <1>3 DEF Outcome

\* What a call of getdents reads: all before it, if anything.
LEMMA Reads ==
  ASSUME Laid(dir), NEW at \in Nat
  PROVE  LET ahead == fat_readdir(at)
             read == {i \in ahead : Used({j \in ahead : j < i}) < Room}
         IN  /\ ahead \in SUBSET Slots /\ Used(ahead) \in Nat
             /\ \A i \in ahead, k \in read : i < k => i \in read
             /\ Used(ahead) < Room => read = ahead
             /\ Used(ahead) >= Room => read # {}
<1> DEFINE ahead == fat_readdir(at)
           before(i) == {j \in ahead : j < i}
           read == {i \in ahead : Used(before(i)) < Room}
<1>1. ahead \in SUBSET Slots /\ \A i \in ahead : i \in Nat /\ i \in Shorts(dir)
  BY ShortsAre DEF fat_readdir, Visible
<1> HIDE DEF ahead
<1>2. IsFiniteSet(ahead) /\ \A T \in SUBSET ahead : IsFiniteSet(T)
  BY <1>1, SlotNumbers
<1>3. \A x \in ahead : Length(x) \in Nat
  BY <1>1, LengthIs
<1>4. Room \in Nat /\ Room > 0
  BY DirectoryAssumption
<1>5. \A S \in SUBSET ahead, T \in SUBSET ahead :
        T \subseteq S => Used(S) \in Nat /\ Used(T) \in Nat /\ Used(T) <= Used(S)
  <2> SUFFICES ASSUME NEW S \in SUBSET ahead, NEW T \in SUBSET ahead, T \subseteq S
               PROVE  Used(S) \in Nat /\ Used(T) \in Nat /\ Used(T) <= Used(S)
    OBVIOUS
  <2>1. IsFiniteSet(S) /\ \A x \in S : Length(x) \in Nat
    BY <1>2, <1>3
  <2> QED
    BY <2>1, UsedGrows
<1>6. Used(ahead) \in Nat
  BY <1>5
<1>7. ASSUME NEW i \in ahead, NEW k \in read, i < k PROVE i \in read
  <2>1. before(i) \subseteq before(k) /\ before(i) \in SUBSET ahead /\ before(k) \in SUBSET ahead
    BY <1>1, <1>7
  <2>2. Used(before(k)) < Room
    OBVIOUS
  <2> HIDE DEF before
  <2>3. Used(before(i)) <= Used(before(k)) /\ Used(before(i)) \in Nat /\ Used(before(k)) \in Nat
    BY <1>5, <2>1
  <2>4. Used(before(i)) < Room
    BY <1>4, <2>2, <2>3
  <2> QED
    BY <2>4
<1>8. ASSUME Used(ahead) < Room PROVE read = ahead
  <2> SUFFICES ASSUME NEW i \in ahead PROVE Used(before(i)) < Room
    OBVIOUS
  <2>1. before(i) \in SUBSET ahead
    OBVIOUS
  <2> HIDE DEF before
  <2>2. Used(before(i)) <= Used(ahead) /\ Used(before(i)) \in Nat
    BY <1>5, <2>1
  <2> QED
    BY <1>4, <1>6, <1>8, <2>2
<1>9. ASSUME Used(ahead) >= Room PROVE read # {}
  <2>1. ahead # {}
    BY <1>4, <1>9, UsedByNone
  <2>2. PICK m \in ahead : \A x \in ahead : m <= x
    <3>1. ahead \in SUBSET Nat
      BY <1>1
    <3> QED
      BY <2>1, <3>1, MinIs
  <2>3. before(m) = {}
    BY <1>1, <2>2
  <2>4. Used(before(m)) < Room
    BY <1>4, <2>3, UsedByNone
  <2> HIDE DEF before
  <2> QED
    BY <2>4
<1> QED
  BY <1>1, <1>6, <1>7, <1>8, <1>9 DEF ahead

LEMMA GetdentsKeeps ==
  ASSUME DirInv, sys_getdents_handler
  PROVE  DirInv'
<1> DEFINE s == stream
           ahead == fat_readdir(s.at)
           read == {i \in ahead : Used({j \in ahead : j < i}) < Room}
           left == s.unread \ read
           last == GoesOn(read)
<1>1. /\ s \in [open : BOOLEAN, at : 0..Max(Slots), eof : BOOLEAN, unread : SUBSET Slots]
      /\ \A i \in s.unread : i \in Visible(dir) /\ i > s.at
      /\ s.eof => s.unread = {}
      /\ Laid(dir) /\ cuts \in 0..MaxCuts
  BY DEF DirInv, Ahead
<1>2. /\ ~s.eof /\ dir' = dir /\ cuts' = cuts
      /\ stream' = IF Used(ahead) < Room
                      THEN [NoStream EXCEPT !.open = TRUE, !.eof = TRUE, !.unread = left]
                      ELSE [s EXCEPT !.at = last, !.unread = left]
  BY DEF sys_getdents_handler
<1>3. s.at \in Nat
  BY <1>1, LastSlot
<1>4. /\ ahead \in SUBSET Slots /\ Used(ahead) \in Nat
      /\ \A i \in ahead, k \in read : i < k => i \in read
      /\ Used(ahead) < Room => read = ahead
      /\ Used(ahead) >= Room => read # {}
  BY <1>1, <1>3, Reads
<1>5. s.unread \subseteq ahead
  BY <1>1 DEF fat_readdir
<1>6. last = Max(read)
  BY DEF GoesOn
<1>7. read \subseteq ahead
  OBVIOUS
<1>8. left \subseteq s.unread /\ left \cap read = {}
  OBVIOUS
<1>9. Room \in Nat
  BY DirectoryAssumption
<1> DEFINE full == Used(ahead) < Room
<1> HIDE DEF ahead, read, left, last, full
<1>10. CASE full
  <2>1. left = {}
    BY <1>4, <1>5, <1>8, <1>10 DEF left, full
  <2>2. stream' = [open |-> TRUE, at |-> 0, eof |-> TRUE, unread |-> {}]
    BY <1>2, <1>10, <2>1 DEF NoStream, full
  <2>3. Ahead(dir, stream')
    BY <2>2, LastSlot DEF Ahead
  <2> QED
    BY <1>1, <1>2, <2>3 DEF DirInv
<1>11. CASE ~full
  <2>1. read # {}
    BY <1>4, <1>9, <1>11 DEF full
  <2>2. last \in read /\ \A k \in read : k <= last
    <3>1. read \in SUBSET Nat /\ IsFiniteSet(read)
      <4>1. read \in SUBSET Slots
        BY <1>4, <1>7
      <4> QED
        BY <4>1, SlotNumbers
    <3> QED
      BY <1>6, <2>1, <3>1, MaxIs
  <2>3. last \in Slots /\ last \in 0..Max(Slots) /\ last \in Nat
    BY <1>4, <1>7, <2>2, LastSlot, SlotNumbers
  <2>4. \A i \in left : i \in Visible(dir) /\ i > last
    <3> SUFFICES ASSUME NEW i \in left PROVE i \in Visible(dir) /\ i > last
      OBVIOUS
    <3>1. i \in ahead /\ i \notin read /\ i \in Visible(dir) /\ i \in Nat
      BY <1>1, <1>4, <1>5, <1>8, SlotNumbers
    <3>2. ~(i < last)
      BY <1>4, <2>2, <3>1
    <3>3. i # last
      BY <2>2, <3>1
    <3> QED
      BY <2>3, <3>1, <3>2, <3>3
  <2>5. stream' = [s EXCEPT !.at = last, !.unread = left]
    BY <1>2, <1>11 DEF full
  <2> HIDE DEF s
  <2>6. stream' \in [open : BOOLEAN, at : 0..Max(Slots), eof : BOOLEAN, unread : SUBSET Slots]
        /\ stream'.at = last /\ stream'.unread = left /\ stream'.eof = s.eof
    BY <1>1, <1>8, <2>3, <2>5
  <2>7. Ahead(dir, stream')
    BY <1>2, <2>4, <2>6 DEF Ahead
  <2> QED
    BY <1>1, <1>2, <2>7 DEF DirInv
<1> QED
  BY <1>10, <1>11

LEMMA OpenKeeps ==
  ASSUME DirInv, fat_opendir \/ fat_closedir
  PROVE  DirInv'
<1>1. Laid(dir) /\ cuts \in 0..MaxCuts /\ dir' = dir /\ cuts' = cuts
  BY DEF DirInv, fat_opendir, fat_closedir
<1>2. CASE fat_opendir
  <2>1. stream' = [open |-> TRUE, at |-> 0, eof |-> FALSE, unread |-> Visible(dir)]
    BY <1>2 DEF fat_opendir, NoStream
  <2>2. \A i \in Visible(dir) : i \in Slots /\ i > 0
    BY ShortsAre DEF Visible
  <2>3. Ahead(dir, stream')
    BY <2>1, <2>2, LastSlot DEF Ahead
  <2> QED
    BY <1>1, <2>3 DEF DirInv
<1>3. CASE fat_closedir
  <2>1. Ahead(dir, stream')
    BY <1>3, NoStreamAhead DEF fat_closedir
  <2> QED
    BY <1>1, <2>1 DEF DirInv
<1> QED
  BY <1>2, <1>3

LEMMA DirStarts ==
  ASSUME DirInit
  PROVE  DirInv
<1>1. dir = [i \in Slots |-> End] /\ stream = NoStream /\ cuts = 0
  BY DEF DirInit
<1>2. End \in SlotValues /\ End.kind = "end"
  BY DEF SlotValues, End
<1>3. Laid(dir)
  BY <1>1, <1>2 DEF Laid, LaidSlot
<1> QED
  BY <1>1, <1>3, NoStreamAhead, DirectoryAssumption DEF DirInv

\* A step of the directory, and what it keeps.
LEMMA DirSteps ==
  ASSUME DirInv, DirNext
  PROVE  DirInv' /\ (dir' = dir \/ Outcome)
<1>1. Laid(dir)
  BY DEF DirInv
<1>2. ASSUME NEW name \in Names, NEW found \in {Find(dir, name)},
             \/ fput(name, found) \/ fat_mkdir(name, found)
             \/ fat_unlink(found) \/ fat_rmdir(found)
             \/ \E new \in Names : fat_rename(found, new)
      PROVE  Outcome
  <2>1. CASE fput(name, found)
    BY <1>1, <2>1, PutByFput
  <2>2. CASE fat_mkdir(name, found)
    BY <1>1, <2>2, PutByMkdir
  <2>3. CASE fat_unlink(found)
    BY <1>1, <2>3, Removed DEF fat_unlink
  <2>4. CASE fat_rmdir(found)
    BY <1>1, <2>4, Removed DEF fat_rmdir
  <2>5. CASE \E new \in Names : fat_rename(found, new)
    BY <1>1, <2>5, Renamed
  <2> QED
    BY <1>2, <2>1, <2>2, <2>3, <2>4, <2>5
<1>3. CASE fat_opendir \/ fat_closedir
  <2>1. dir' = dir
    BY <1>3 DEF fat_opendir, fat_closedir
  <2> QED
    BY <1>3, <2>1, OpenKeeps
<1>4. CASE sys_getdents_handler
  <2>1. dir' = dir
    BY <1>4 DEF sys_getdents_handler
  <2> QED
    BY <1>4, <2>1, GetdentsKeeps
<1>5. CASE Outcome
  BY <1>5, CallKeeps
<1> QED
  BY <1>2, <1>3, <1>4, <1>5 DEF DirNext

-----------------------------------------------------------------------------
(* The searches and the listings.                                          *)

\* The aliases of all entries a name finds have one checksum.
LEMMA OneSum ==
  ASSUME NEW d, Laid(d), NEW i \in Shorts(d), NEW n \in Names, n \in FoundBy(d, i)
  PROVE  lfn_checksum[d[i].alias] = lfn_checksum[dos_name[n]]
<1>1. d[i].alias \in Aliases /\ dos_name[n] \in Aliases
  BY SlotIs DEF Laid, Shorts, Aliases
<1>2. CASE n = d[i].alias
  <2>1. PICK q \in Names : d[i].alias = dos_name[q]
    BY <1>1 DEF Aliases
  <2> QED
    BY <1>2, <2>1, DirectoryAssumption
<1>3. CASE n \in Joined(d, i)
  <2> DEFINE r == LongRun(d, i)
             lasts == {k \in r : d[k].last}
             max == IF lasts = {} THEN 0 ELSE d[Max(lasts)].order
             pieces(o) == {k \in r : d[k].order = o}
  <2>1. r \in SUBSET Slots /\ \A k \in r : d[k].kind = "long" /\ k \in Slots
    BY RunSlots DEF Shorts
  <2>2. n \in get_lfn_name(d, r) /\ \A k \in r : d[k].sum = lfn_checksum[d[i].alias]
    BY <1>3 DEF Joined, Summed
  <2>3. /\ max = lfn_entry_count[n]
        /\ \A o \in 1..max : pieces(o) # {} /\ d[Max(pieces(o))].name = n
    BY <2>2 DEF get_lfn_name
  <2> HIDE DEF max, r
  <2>4. 1 \in 1..max
    BY <2>3, PartCounts
  <2> DEFINE k == Max(pieces(1))
  <2>5. k \in r
    <3> DEFINE s == pieces(1)
    <3>1. s \subseteq r /\ s # {}
      BY <2>3, <2>4
    <3> HIDE DEF s
    <3>2. Max(s) \in r
      BY <2>1, <3>1, RunMax
    <3> QED
      BY <3>2 DEF s
  <2>6. d[k].name = n
    BY <2>3, <2>4
  <2> HIDE DEF k, pieces
  <2>7. d[k].kind = "long" /\ d[k] \in SlotValues
    BY <2>1, <2>5 DEF Laid
  <2>8. d[k] = Long(d[k].name, d[k].order)
    BY <2>7, SlotIs
  <2>9. d[k].sum = lfn_checksum[dos_name[n]]
    BY <2>6, <2>8, LongIs
  <2> QED
    BY <1>1, <2>2, <2>5, <2>9
<1> QED
  BY <1>2, <1>3, NamesAre

LEMMA NamesStay ==
  ASSUME NEW d, Laid(d), NEW i \in Shorts(d)
  PROVE  StrictName(d, i) \subseteq FoundBy(d, i) /\ d[i].alias \in FoundBy(d, i)
         /\ FoundBy(d, i) \subseteq Names
<1>1. d[i].alias \in Names
  <2>1. d[i].alias \in Aliases
    BY SlotIs DEF Laid, Shorts
  <2> QED
    BY <2>1, DirectoryAssumption DEF Aliases
<1>2. Joined(d, i) \subseteq Names
  BY DEF Joined, get_lfn_name
<1> QED
  BY <1>1, <1>2, NamesAre

LEMMA LeastSlot ==
  ASSUME NEW S \in SUBSET Slots, S # {}
  PROVE  Min(S) \in S /\ Min(S) # 0
<1>1. S \in SUBSET Nat /\ \A x \in S : x # 0
  BY SlotNumbers DEF Slots
<1> QED
  BY <1>1, MinIs

LEMMA FirstIsOne ==
  ASSUME NEW S \in SUBSET Slots
  PROVE  /\ FirstOf(S) = 0 <=> S = {}
         /\ FirstOf(S) # 0 => FirstOf(S) \in S
BY LeastSlot DEF FirstOf

\* What listdironsector shows is a name of an entry with the alias of this one.
LEMMA Shown ==
  ASSUME NEW d, Laid(d), NEW i \in Visible(d)
  PROVE  \E j \in Visible(d) :
           /\ SectorOf(j) = SectorOf(i) /\ d[j].alias = d[i].alias
           /\ listdironsector(d, i) \in FoundBy(d, j)
<1> DEFINE alike == {j \in Visible(d) : SectorOf(j) = SectorOf(i) /\ d[j].alias = d[i].alias}
           named == {j \in alike : StrictName(d, j) # {}}
           m == Min(named)
<1>1. \A j \in Visible(d) : j \in Shorts(d) /\ j \in Slots
  BY DEF Visible, Shorts
<1>2. \A j \in Visible(d) : /\ StrictName(d, j) \subseteq FoundBy(d, j)
                            /\ d[j].alias \in FoundBy(d, j)
  BY <1>1, NamesStay
<1>3. getlongfilename(d, i) = IF named = {} THEN {} ELSE StrictName(d, m)
  BY DEF getlongfilename
<1>4. named \in SUBSET Slots
  BY <1>1
<1>5. named # {} => m \in named
  <2> DEFINE S == named
  <2> HIDE DEF named
  <2> QED
    BY <1>4, LeastSlot
<1> DEFINE long == getlongfilename(d, i)
<1>6. listdironsector(d, i) = IF long = {} THEN d[i].alias ELSE CHOOSE n \in long : TRUE
  BY DEF listdironsector
<1> HIDE DEF long, m
<1>7. CASE long = {}
  BY <1>2, <1>6, <1>7
<1>8. CASE long # {}
  <2>1. listdironsector(d, i) \in long
    BY <1>6, <1>8
  <2>2. named # {} /\ long = StrictName(d, m)
    BY <1>3, <1>8 DEF long
  <2>3. m \in Visible(d) /\ SectorOf(m) = SectorOf(i) /\ d[m].alias = d[i].alias
    BY <1>5, <2>2
  <2> QED
    BY <1>2, <2>1, <2>2, <2>3
<1> QED
  BY <1>7, <1>8

LEMMA ShowsTheSame ==
  ASSUME Laid(dir)
  PROVE  ShownIsFound
<1> SUFFICES ASSUME NEW i \in Visible(dir), listdironsector(dir, i) \notin FoundBy(dir, i)
             PROVE  \E j \in Namesakes(i) : SectorOf(j) = SectorOf(i)
  BY DEF ShownIsFound
<1>1. PICK j \in Visible(dir) :
        /\ SectorOf(j) = SectorOf(i) /\ dir[j].alias = dir[i].alias
        /\ listdironsector(dir, i) \in FoundBy(dir, j)
  BY Shown
<1>2. j \in Namesakes(i)
  BY <1>1 DEF Namesakes
<1> QED
  BY <1>1, <1>2

\* The rules of findfile find only entries with the checksum of the name's alias.
LEMMA AllRules ==
  ASSUME NEW d, Laid(d), NEW n \in Names
  PROVE  /\ findfileinsector(d, n) # 0 =>
              /\ findfileinsector(d, n) \in Visible(d)
              /\ n \in FoundBy(d, findfileinsector(d, n))
         /\ findfileentry(d, n) # 0 =>
              /\ findfileentry(d, n) \in Visible(d)
              /\ lfn_checksum[d[findfileentry(d, n)].alias] = lfn_checksum[dos_name[n]]
<1> DEFINE here == {i \in Visible(d) : /\ SectorOf(i) = 0
                                       /\ n = d[i].alias \/ n \in StrictName(d, i)}
           all == {i \in Visible(d) : n = listdironsector(d, i)}
           f == findfileinsector(d, n)
           g == findfileindirectory(d, n)
<1>1. \A j \in Visible(d) : j \in Shorts(d) /\ j \in Slots
  BY DEF Visible, Shorts
<1>2. here \in SUBSET Slots /\ all \in SUBSET Slots
  BY <1>1
<1>3. f = FirstOf(here) /\ g = FirstOf(all)
  BY DEF findfileinsector, findfileindirectory
<1>4. (f # 0 => f \in here) /\ (g # 0 => g \in all)
  <2> HIDE DEF here, all, f, g
  <2> QED
    BY <1>2, <1>3, FirstIsOne
<1>5. f # 0 => f \in Visible(d) /\ n \in FoundBy(d, f)
  <2> SUFFICES ASSUME f # 0 PROVE f \in Visible(d) /\ n \in FoundBy(d, f)
    OBVIOUS
  <2> HIDE DEF f
  <2>1. f \in Visible(d) /\ (n = d[f].alias \/ n \in StrictName(d, f))
    BY <1>4
  <2> QED
    BY <1>1, <2>1, NamesStay
<1>6. f # 0 => lfn_checksum[d[f].alias] = lfn_checksum[dos_name[n]]
  <2> HIDE DEF f
  <2> QED
    BY <1>1, <1>5, OneSum
<1>7. g # 0 => g \in Visible(d) /\ lfn_checksum[d[g].alias] = lfn_checksum[dos_name[n]]
  <2> SUFFICES ASSUME g # 0 PROVE g \in Visible(d) /\ lfn_checksum[d[g].alias] = lfn_checksum[dos_name[n]]
    OBVIOUS
  <2> HIDE DEF g
  <2>1. g \in Visible(d) /\ n = listdironsector(d, g)
    BY <1>4
  <2>2. PICK j \in Visible(d) : d[j].alias = d[g].alias /\ n \in FoundBy(d, j)
    BY <2>1, Shown
  <2>3. lfn_checksum[d[j].alias] = lfn_checksum[dos_name[n]]
    BY <1>1, <2>2, OneSum
  <2> QED
    BY <2>1, <2>2, <2>3
<1>8. findfileentry(d, n) = IF f # 0 THEN f ELSE g
  BY DEF findfileentry
<1> HIDE DEF f, g, here, all
<1> QED
  BY <1>5, <1>6, <1>7, <1>8 DEF f

LEMMA SearchesFind ==
  ASSUME Laid(dir), NEW inner, Laid(inner), NEW n \in Names
  PROVE  LET i == Find(dir, n)
             f == findfile(dir, inner, n)
         IN /\ i = 0 <=> f.slot = 0
            /\ i # 0 =>
                 LET found == Alike(dir, dir[i].alias)
                 IN IF f.inside
                      THEN /\ f.slot \in Alike(inner, dir[i].alias)
                           /\ \E j \in found : dir[j].attr = "directory"
                      ELSE f.slot \in found
<1> DEFINE i == Find(dir, n)
           h == findfileinsector(dir, n)
           f == FoundFirst(dir, n)
           inside == dir[f].attr = "directory"
           here == findfileentry(dir, n)
           there == findfileentry(inner, n)
           again == findfileentry(IF inside THEN inner ELSE dir, n)
           r == findfile(dir, inner, n)
           sum == lfn_checksum[dos_name[n]]
<1>1. /\ i # 0 => i \in Visible(dir) /\ n \in FoundBy(dir, i)
      /\ \A x \in Visible(dir) : n \in FoundBy(dir, x) => i # 0
  BY Hit
<1>2. /\ h # 0 => h \in Visible(dir) /\ n \in FoundBy(dir, h)
      /\ here # 0 => here \in Visible(dir) /\ lfn_checksum[dir[here].alias] = sum
  BY AllRules
<1>3. there # 0 => there \in Visible(inner) /\ lfn_checksum[inner[there].alias] = sum
  BY AllRules
<1>4. f = IF h # 0 THEN h ELSE i
  BY DEF FoundFirst
<1>5. again = IF inside THEN there ELSE here
  OBVIOUS
<1>6. r = IF f = 0 \/ again = 0 THEN Result(FALSE, f) ELSE Result(inside, again)
  BY DEF findfile
<1>7. \A x \in Visible(dir) : n \in FoundBy(dir, x) => lfn_checksum[dir[x].alias] = sum
  BY OneSum DEF Visible
<1> HIDE DEF i, h, f, here, there, again, r, sum
<1>8. i # 0 <=> f # 0
  BY <1>1, <1>2, <1>4
<1>9. i # 0 => lfn_checksum[dir[i].alias] = sum
  BY <1>1, <1>7
<1>10. f # 0 => f \in Visible(dir) /\ lfn_checksum[dir[f].alias] = sum
  BY <1>1, <1>2, <1>4, <1>7
<1>11. CASE i = 0
  <2>1. r = Result(FALSE, 0)
    BY <1>6, <1>8, <1>11
  <2>2. r.slot = 0
    BY <2>1 DEF Result
  <2> QED
    BY <1>11, <2>2 DEF i, r
<1>12. CASE i # 0 /\ again = 0
  <2>1. r = Result(FALSE, f)
    BY <1>6, <1>12
  <2>2. r.slot = f /\ ~r.inside
    BY <2>1 DEF Result
  <2>3. f \in Alike(dir, dir[i].alias)
    BY <1>8, <1>9, <1>10, <1>12 DEF Alike
  <2> QED
    BY <1>8, <1>12, <2>2, <2>3 DEF i, r
<1>13. CASE i # 0 /\ again # 0
  <2>1. r = Result(inside, again)
    BY <1>6, <1>8, <1>13
  <2>2. r.slot = again /\ r.inside = inside
    BY <2>1 DEF Result
  <2>3. inside => again \in Alike(inner, dir[i].alias) /\ f \in Alike(dir, dir[i].alias)
    BY <1>3, <1>5, <1>8, <1>9, <1>10, <1>13 DEF Alike
  <2>4. ~inside => again \in Alike(dir, dir[i].alias)
    BY <1>2, <1>5, <1>9, <1>13 DEF Alike
  <2> QED
    BY <1>8, <1>13, <2>2, <2>3, <2>4 DEF i, r
<1> QED
  BY <1>11, <1>12, <1>13

\* An empty directory is laid out as the calls do it.
LEMMA EmptyIsLaid == Laid([i \in Slots |-> End])
<1> DEFINE d == [i \in Slots |-> End]
<1>1. \A i \in Slots : d[i] = End
  OBVIOUS
<1>2. End \in SlotValues /\ End.kind = "end"
  BY DEF SlotValues, End
<1>3. d \in [Slots -> SlotValues]
  BY <1>2
<1> HIDE DEF d
<1> QED
  BY <1>1, <1>2, <1>3 DEF Laid, LaidSlot, d

LEMMA SearchesFindTheSame ==
  ASSUME Laid(dir)
  PROVE  FindsTheSame
<1>1. \A inner \in Inners : Laid(inner)
  BY EmptyIsLaid DEF Inners
<1> QED
  BY <1>1, SearchesFind DEF FindsTheSame

LEMMA ListingsTellTheSame ==
  ASSUME DirInv
  PROVE  ListingsAgree /\ ShownIsFound
<1>1. Laid(dir) /\ (stream.eof => stream.unread = {})
  BY DEF DirInv, Ahead
<1>2. ListedIsFound
  BY <1>1, ListedUnder DEF ListedIsFound, Visible
<1> QED
  BY <1>1, <1>2, ShowsTheSame DEF ListingsAgree, ListingComplete

-----------------------------------------------------------------------------
(* The sort of a listing.                                                  *)

\* Powers of two.  The prover knows of them how many subsets a set has.
Pow(k) == 2^k

LEMMA PowIs ==
  /\ Pow(0) = 1
  /\ \A k \in Nat : Pow(k) \in Nat /\ Pow(k) >= 1 /\ Pow(k + 1) = 2 * Pow(k)
<1>1. \A m \in Nat : /\ IsFiniteSet(SUBSET (1..m)) /\ Cardinality(SUBSET (1..m)) = Pow(m)
                     /\ Pow(m) \in Nat
  <2> SUFFICES ASSUME NEW m \in Nat
               PROVE  /\ IsFiniteSet(SUBSET (1..m)) /\ Cardinality(SUBSET (1..m)) = Pow(m)
                      /\ Pow(m) \in Nat
    OBVIOUS
  <2>1. IsFiniteSet(1..m) /\ Cardinality(1..m) = m
    BY FS_Interval
  <2>2. IsFiniteSet(SUBSET (1..m)) /\ Cardinality(SUBSET (1..m)) = 2^Cardinality(1..m)
    BY <2>1, FS_SUBSET
  <2> QED
    BY <2>1, <2>2, FS_CardinalityType DEF Pow
<1>2. Pow(0) = 1
  BY DEF Pow
<1>3. ASSUME NEW k \in Nat PROVE Pow(k + 1) = 2 * Pow(k)
  <2> DEFINE A == SUBSET (1..k)
             B == {X \cup {k + 1} : X \in A}
             f == [X \in A |-> X \cup {k + 1}]
  <2>1. f \in Bijection(A, B)
    <3>1. f \in Surjection(A, B)
      BY DEF Surjection
    <3>2. f \in Injection(A, B)
      <4>1. ASSUME NEW X \in A, NEW Y \in A, f[X] = f[Y] PROVE X = Y
        <5>1. k + 1 \notin X /\ k + 1 \notin Y
          OBVIOUS
        <5> DEFINE z == k + 1
        <5>2. X \cup {z} = Y \cup {z}
          BY <4>1
        <5> HIDE DEF z
        <5>3. z \notin X /\ z \notin Y
          BY <5>1 DEF z
        <5>4. X \subseteq Y /\ Y \subseteq X
          BY <5>2, <5>3
        <5> QED
          BY <5>4
      <4>2. f \in [A -> B]
        OBVIOUS
      <4> HIDE DEF A, B, f
      <4> QED
        BY <4>1, <4>2 DEF Injection, IsInjective
    <3> QED
      BY <3>1, <3>2 DEF Bijection
  <2>2. IsFiniteSet(A) /\ Cardinality(A) = Pow(k) /\ Pow(k) \in Nat
    BY <1>1
  <2>3. IsFiniteSet(B) /\ Cardinality(B) = Pow(k)
    <3> HIDE DEF A, B, f
    <3> QED
      BY <2>1, <2>2, FS_Bijection DEF ExistsBijection
  <2>4. SUBSET (1..(k + 1)) = A \cup B
    <3>1. ASSUME NEW X \in A PROVE X \subseteq 1..(k + 1) /\ X \cup {k + 1} \subseteq 1..(k + 1)
      OBVIOUS
    <3>2. ASSUME NEW X \in SUBSET (1..(k + 1)) PROVE X \in A \cup B
      <4>1. CASE k + 1 \notin X
        <5>1. X \in A
          BY <4>1
        <5> QED
          BY <5>1
      <4>2. CASE k + 1 \in X
        <5>1. X \ {k + 1} \in A
          OBVIOUS
        <5>2. X = (X \ {k + 1}) \cup {k + 1}
          BY <4>2
        <5>3. X \in B
          BY <5>1, <5>2
        <5> QED
          BY <5>3
      <4> QED
        BY <4>1, <4>2
    <3>3. ASSUME NEW X \in A \cup B PROVE X \in SUBSET (1..(k + 1))
      <4>1. CASE X \in A
        BY <3>1, <4>1
      <4>2. CASE X \in B
        <5>1. PICK Y \in A : X = Y \cup {k + 1}
          BY <4>2
        <5> QED
          BY <3>1, <5>1
      <4> QED
        BY <4>1, <4>2
    <3> QED
      BY <3>2, <3>3
  <2>5. A \cap B = {}
    <3> SUFFICES ASSUME NEW X \in A, X \in B PROVE FALSE
      OBVIOUS
    <3>1. k + 1 \notin X
      OBVIOUS
    <3> QED
      BY <3>1
  <2>6. Cardinality(A \cup B) = Pow(k) + Pow(k) - 0
    <3> HIDE DEF A, B
    <3>1. Cardinality(A \cup B) = Cardinality(A) + Cardinality(B) - Cardinality(A \cap B)
      BY <2>2, <2>3, FS_Union
    <3>2. Cardinality(A \cap B) = 0
      BY <2>5, FS_EmptySet
    <3> QED
      BY <2>2, <2>3, <3>1, <3>2
  <2>7. Cardinality(SUBSET (1..(k + 1))) = Pow(k + 1)
    BY <1>1
  <2> HIDE DEF A, B
  <2>8. Pow(k + 1) = Pow(k) + Pow(k) - 0
    BY <2>4, <2>6, <2>7
  <2> QED
    BY <2>2, <2>8
<1>4. ASSUME NEW k \in Nat PROVE Pow(k) >= 1
  <2>1. IsFiniteSet(SUBSET (1..k)) /\ Cardinality(SUBSET (1..k)) = Pow(k) /\ Pow(k) \in Nat
    BY <1>1
  <2>2. SUBSET (1..k) # {}
    OBVIOUS
  <2> QED
    BY <2>1, <2>2, FS_EmptySet
<1> QED
  BY <1>1, <1>2, <1>3, <1>4

\* The elements are a permutation.
Arranged(n, d) ==
  /\ d \in [0..(n - 1) -> 1..n]
  /\ \A v \in 1..n : \E k \in 0..(n - 1) : d[k] = v

\* In e the elements of l..r are those of d in another order, and the rest is as it was.
Within(n, d, e, l, r) ==
  /\ e \in [0..(n - 1) -> 1..n]
  /\ \A k \in 0..(n - 1) : k \notin l..r => e[k] = d[k]
  /\ \A k \in l..r : \E m \in l..r : e[k] = d[m]
  /\ \A m \in l..r : \E k \in l..r : e[k] = d[m]

LEMMA WithinSelf ==
  ASSUME NEW n \in Nat, NEW d \in [0..(n - 1) -> 1..n], NEW l, NEW r
  PROVE  Within(n, d, d, l, r)
BY DEF Within

LEMMA WithinTwice ==
  ASSUME NEW n \in Nat, NEW d, NEW e, NEW f, NEW l \in 0..(n - 1), NEW r \in 0..(n - 1),
         Within(n, d, e, l, r), Within(n, e, f, l, r)
  PROVE  Within(n, d, f, l, r)
<1>1. f \in [0..(n - 1) -> 1..n] /\ \A k \in 0..(n - 1) : k \notin l..r => f[k] = d[k]
  BY DEF Within
<1>2. ASSUME NEW k \in l..r PROVE \E m \in l..r : f[k] = d[m]
  <2>1. PICK j \in l..r : f[k] = e[j]
    BY DEF Within
  <2>2. PICK m \in l..r : e[j] = d[m]
    BY DEF Within
  <2> QED
    BY <2>1, <2>2
<1>3. ASSUME NEW m \in l..r PROVE \E k \in l..r : f[k] = d[m]
  <2>1. PICK j \in l..r : e[j] = d[m]
    BY DEF Within
  <2>2. PICK k \in l..r : f[k] = e[j]
    BY DEF Within
  <2> QED
    BY <2>1, <2>2
<1> QED
  BY <1>1, <1>2, <1>3 DEF Within

LEMMA WithinArranged ==
  ASSUME NEW n \in Nat, NEW d, NEW e, NEW l \in 0..(n - 1), NEW r \in 0..(n - 1),
         Arranged(n, d), Within(n, d, e, l, r)
  PROVE  Arranged(n, e)
<1> SUFFICES ASSUME NEW v \in 1..n PROVE \E k \in 0..(n - 1) : e[k] = v
  BY DEF Arranged, Within
<1>1. PICK k \in 0..(n - 1) : d[k] = v
  BY DEF Arranged
<1>2. \A m \in l..r : m \in 0..(n - 1)
  OBVIOUS
<1> QED
  BY <1>1, <1>2 DEF Within

\* qsort_swap.
LEMMA SwapIs ==
  ASSUME NEW n \in Nat, NEW d \in [0..(n - 1) -> 1..n], NEW l \in 0..(n - 1), NEW r \in 0..(n - 1),
         NEW k \in l..r, NEW m \in l..r
  PROVE  LET e == qsort_swap(d, k, m)
         IN /\ e \in [0..(n - 1) -> 1..n] /\ e[k] = d[m] /\ e[m] = d[k]
            /\ \A j \in 0..(n - 1) : j # k /\ j # m => e[j] = d[j]
            /\ Within(n, d, e, l, r)
<1> DEFINE e == qsort_swap(d, k, m)
<1>1. k \in 0..(n - 1) /\ m \in 0..(n - 1) /\ \A j \in l..r : j \in 0..(n - 1)
  OBVIOUS
<1>2. /\ e \in [0..(n - 1) -> 1..n] /\ e[k] = d[m] /\ e[m] = d[k]
      /\ \A j \in 0..(n - 1) : j # k /\ j # m => e[j] = d[j]
  BY <1>1 DEF qsort_swap
<1> HIDE DEF e
<1>3. Within(n, d, e, l, r)
  <2>1. \A j \in l..r : \E i \in l..r : e[j] = d[i]
    BY <1>1, <1>2
  <2>2. \A i \in l..r : \E j \in l..r : e[j] = d[i]
    BY <1>1, <1>2
  <2> QED
    BY <1>2, <2>1, <2>2 DEF Within
<1> QED
  BY <1>2, <1>3 DEF e
-----------------------------------------------------------------------------
(* Short ranges.                                                           *)

Sooner(d, k, m) == Key(d, k) < Key(d, m) \/ (Key(d, k) = Key(d, m) /\ k < m)
Preceding(d, l, r, k) == {m \in l..r : Sooner(d, m, k)}

\* Each position has a rank of its own.
LEMMA RanksAre ==
  ASSUME NEW n \in Nat, NEW d, NEW l \in 0..(n - 1), NEW r \in 0..(n - 1), l <= r,
         \A k \in l..r : Key(d, k) \in Int
  PROVE  LET rank(k) == Cardinality(Preceding(d, l, r, k))
         IN /\ \A k \in l..r : rank(k) \in 0..(r - l)
            /\ \A k \in l..r, m \in l..r : Sooner(d, k, m) => rank(k) < rank(m)
            /\ \A x \in 0..(r - l) : \E m \in l..r : rank(m) = x
<1> DEFINE P(k) == Preceding(d, l, r, k)
           S == l..r
           T == 0..(r - l)
           f == [k \in S |-> Cardinality(P(k))]
<1>1. /\ IsFiniteSet(S) /\ Cardinality(S) = r - l + 1
      /\ IsFiniteSet(T) /\ Cardinality(T) = r - l + 1
  BY FS_Interval
<1>2. \A k \in S : P(k) \in SUBSET S /\ IsFiniteSet(P(k)) /\ Cardinality(P(k)) \in Nat
  <2>1. \A k \in S : P(k) \in SUBSET S
    BY DEF Preceding
  <2> HIDE DEF P, S
  <2> QED
    BY <1>1, <2>1, FS_Subset, FS_CardinalityType
<1>3. \A k \in S : k \notin P(k) /\ k \in Int
  BY DEF Preceding, Sooner
<1>4. ASSUME NEW k \in S, NEW Q \in SUBSET S, P(k) \subseteq Q, k \in Q
      PROVE  Cardinality(P(k)) + 1 <= Cardinality(Q)
  <2>1. IsFiniteSet(Q) /\ P(k) \cup {k} \in SUBSET Q
    BY <1>1, <1>4, FS_Subset
  <2>2. Cardinality(P(k) \cup {k}) = Cardinality(P(k)) + 1
    BY <1>2, <1>3, FS_AddElement
  <2> HIDE DEF P, S
  <2>3. Cardinality(P(k) \cup {k}) <= Cardinality(Q)
    BY <2>1, FS_Subset
  <2> QED
    BY <2>2, <2>3
<1>5. ASSUME NEW k \in S, NEW m \in S, Sooner(d, k, m)
      PROVE  Cardinality(P(k)) < Cardinality(P(m))
  <2>1. P(k) \subseteq P(m) /\ k \in P(m)
    <3>1. k \in P(m)
      BY <1>5 DEF Preceding
    <3>2. ASSUME NEW j \in P(k) PROVE j \in P(m)
      <4>1. j \in S /\ Sooner(d, j, k)
        BY DEF Preceding
      <4>2. Key(d, j) \in Int /\ Key(d, k) \in Int /\ Key(d, m) \in Int
        BY <4>1
      <4>3. Sooner(d, j, m)
        BY <1>5, <4>1, <4>2 DEF Sooner
      <4> QED
        BY <4>1, <4>3 DEF Preceding
    <3> QED
      BY <3>1, <3>2
  <2>2. P(m) \in SUBSET S /\ Cardinality(P(m)) \in Nat /\ Cardinality(P(k)) \in Nat
    BY <1>2
  <2>3. Cardinality(P(k)) + 1 <= Cardinality(P(m))
    <3> HIDE DEF P, S
    <3> QED
      BY <1>4, <2>1, <2>2
  <2> HIDE DEF P, S
  <2> QED
    BY <2>2, <2>3
<1>6. \A k \in S : Cardinality(P(k)) \in T
  <2> SUFFICES ASSUME NEW k \in S PROVE Cardinality(P(k)) \in T
    OBVIOUS
  <2>1. Cardinality(P(k)) + 1 <= Cardinality(S)
    <3> HIDE DEF P, S
    <3> QED
      BY <1>2, <1>4
  <2>2. Cardinality(P(k)) \in Nat
    BY <1>2
  <2> HIDE DEF P, S
  <2> QED
    BY <1>1, <2>1, <2>2
<1>7. f \in Surjection(S, T)
  <2>1. f \in Injection(S, T)
    <3>1. f \in [S -> T]
      <4> HIDE DEF P, S, T
      <4> QED
        BY <1>6
    <3>2. ASSUME NEW k \in S, NEW m \in S, f[k] = f[m] PROVE k = m
      <4>1. Key(d, k) \in Int /\ Key(d, m) \in Int /\ k \in Int /\ m \in Int
        OBVIOUS
      <4>2. k = m \/ Sooner(d, k, m) \/ Sooner(d, m, k)
        BY <4>1 DEF Sooner
      <4>3. Cardinality(P(k)) = Cardinality(P(m)) /\ Cardinality(P(k)) \in Nat
        BY <1>2, <3>2
      <4> HIDE DEF P, S, T, f
      <4> QED
        BY <1>5, <4>2, <4>3
    <3> HIDE DEF f, S, T
    <3> QED
      BY <3>1, <3>2 DEF Injection, IsInjective
  <2> HIDE DEF f, S, T
  <2> QED
    BY <1>1, <2>1, FS_Injection
<1>8. \A x \in T : \E m \in S : Cardinality(P(m)) = x
  <2>1. \A x \in T : \E m \in S : f[m] = x
    <3> HIDE DEF f, S, T
    <3> QED
      BY <1>7 DEF Surjection
  <2> HIDE DEF P, S, T
  <2> QED
    BY <2>1
<1> QED
  BY <1>5, <1>6, <1>8

\* qsort_insertion.
LEMMA InsertionIs ==
  ASSUME NEW n \in Nat, key \in [1..n -> Int], NEW d \in [0..(n - 1) -> 1..n],
         NEW l \in 0..(n - 1), NEW r \in 0..(n - 1), l <= r
  PROVE  LET e == qsort_insertion(d, l, r)
         IN /\ Within(n, d, e, l, r)
            /\ \A p \in l..r, q \in l..r : p < q => key[e[p]] <= key[e[q]]
<1> DEFINE rank(k) == Cardinality(Preceding(d, l, r, k))
           at(p) == CHOOSE m \in l..r : rank(m) = p - l
           e == qsort_insertion(d, l, r)
<1>1. \A k \in l..r : k \in 0..(n - 1) /\ k - l \in 0..(r - l)
  OBVIOUS
<1>2. \A k \in 0..(n - 1) : Key(d, k) \in Int /\ Key(d, k) = key[d[k]]
  BY DEF Key
<1>3. /\ \A k \in l..r : rank(k) \in 0..(r - l)
      /\ \A k \in l..r, m \in l..r : Sooner(d, k, m) => rank(k) < rank(m)
      /\ \A x \in 0..(r - l) : \E m \in l..r : rank(m) = x
  <2>1. \A k \in l..r : Key(d, k) \in Int
    BY <1>1, <1>2
  <2> QED
    BY <2>1, RanksAre
<1>4. e = [k \in DOMAIN d |-> IF k \in l..r THEN d[at(k)] ELSE d[k]]
  <2> DEFINE rk == [k \in l..r |-> Cardinality({m \in l..r : Key(d, m) < Key(d, k) \/ (Key(d, m) = Key(d, k) /\ m < k)})]
  <2>1. \A k \in l..r : rk[k] = rank(k)
    BY DEF Preceding, Sooner
  <2> DEFINE was(k) == CHOOSE m \in l..r : rk[m] = k - l
  <2>2. e = [k \in DOMAIN d |-> IF k \in l..r THEN d[was(k)] ELSE d[k]]
    BY DEF qsort_insertion
  <2>3. \A k : was(k) = at(k)
    <3> HIDE DEF rk, rank
    <3> QED
      BY <2>1
  <2> HIDE DEF rk, rank, at, e, was
  <2> QED
    BY <2>2, <2>3
<1> HIDE DEF rank, e
<1>5. \A p \in l..r : at(p) \in l..r /\ rank(at(p)) = p - l
  BY <1>1, <1>3
<1> HIDE DEF at
<1>6. /\ \A p \in l..r : e[p] = d[at(p)]
      /\ \A k \in 0..(n - 1) : k \notin l..r => e[k] = d[k]
      /\ e \in [0..(n - 1) -> 1..n]
  BY <1>1, <1>4, <1>5
<1>7. \A m \in l..r : \E k \in l..r : e[k] = d[m]
  <2> SUFFICES ASSUME NEW m \in l..r PROVE \E k \in l..r : e[k] = d[m]
    OBVIOUS
  <2> DEFINE k == l + rank(m)
  <2>0. rank(m) \in 0..(r - l)
    BY <1>3
  <2>1. k \in l..r /\ k - l = rank(m)
    BY <2>0
  <2> HIDE DEF k
  <2>2. at(k) = m
    <3>1. at(k) \in l..r /\ rank(at(k)) = rank(m)
      BY <1>5, <2>1
    <3> DEFINE y == at(k)
    <3>2. y \in l..r /\ y \in Int /\ m \in Int /\ y \in 0..(n - 1) /\ m \in 0..(n - 1)
      BY <1>1, <3>1
    <3> HIDE DEF y
    <3>3. Key(d, y) \in Int /\ Key(d, m) \in Int
      BY <1>2, <3>2
    <3>4. Sooner(d, y, m) => rank(y) < rank(m)
      BY <1>3, <3>2
    <3>5. Sooner(d, m, y) => rank(m) < rank(y)
      BY <1>3, <3>2
    <3>6. rank(y) = rank(m)
      BY <3>1 DEF y
    <3>7. ~Sooner(d, y, m) /\ ~Sooner(d, m, y)
      BY <2>0, <3>4, <3>5, <3>6
    <3>8. y = m
      BY <3>2, <3>3, <3>7 DEF Sooner
    <3> QED
      BY <3>8 DEF y
  <2> QED
    BY <1>6, <2>1, <2>2
<1>8. Within(n, d, e, l, r)
  BY <1>5, <1>6, <1>7 DEF Within
<1>9. ASSUME NEW p \in l..r, NEW q \in l..r, p < q PROVE key[e[p]] <= key[e[q]]
  <2> DEFINE x == at(p)
             y == at(q)
  <2>1. x \in l..r /\ y \in l..r /\ rank(x) = p - l /\ rank(y) = q - l
    BY <1>5
  <2>2. e[p] = d[x] /\ e[q] = d[y]
    BY <1>6
  <2> HIDE DEF x, y
  <2>3. ~Sooner(d, y, x)
    <3>1. Sooner(d, y, x) => rank(y) < rank(x)
      BY <1>3, <2>1
    <3> QED
      BY <1>9, <2>1, <3>1
  <2>4. x \in 0..(n - 1) /\ y \in 0..(n - 1)
    BY <1>1, <2>1
  <2>5. Key(d, x) \in Int /\ Key(d, x) = key[d[x]] /\ Key(d, y) \in Int /\ Key(d, y) = key[d[y]]
    BY <1>2, <2>4
  <2>6. Key(d, x) <= Key(d, y)
    BY <2>3, <2>5 DEF Sooner
  <2> QED
    BY <2>2, <2>5, <2>6
<1> QED
  BY <1>8, <1>9 DEF e

-----------------------------------------------------------------------------
(* The median of three.                                                    *)

Ordering(d, k, m) == IF Key(d, k) > Key(d, m) THEN qsort_swap(d, k, m) ELSE d

\* Of the elements at k and m the lesser is at k, and every other one where it was.
OrderedAt(n, d, e, l, r, k, m) ==
  /\ e \in [0..(n - 1) -> 1..n] /\ Within(n, d, e, l, r)
  /\ Key(e, k) <= Key(e, m) /\ Key(e, k) <= Key(d, k) /\ Key(e, k) <= Key(d, m)
  /\ Key(e, m) \in {Key(d, k), Key(d, m)} /\ Key(e, k) \in {Key(d, k), Key(d, m)}
  /\ \A j \in 0..(n - 1) : j # k /\ j # m => Key(e, j) = Key(d, j)

LEMMA OrderingIs ==
  ASSUME NEW n \in Nat, key \in [1..n -> Int], NEW d \in [0..(n - 1) -> 1..n],
         NEW l \in 0..(n - 1), NEW r \in 0..(n - 1), NEW k \in l..r, NEW m \in l..r
  PROVE  OrderedAt(n, d, Ordering(d, k, m), l, r, k, m)
<1> DEFINE f == qsort_swap(d, k, m)
<1>1. k \in 0..(n - 1) /\ m \in 0..(n - 1)
  OBVIOUS
<1>2. /\ f \in [0..(n - 1) -> 1..n] /\ f[k] = d[m] /\ f[m] = d[k]
      /\ \A j \in 0..(n - 1) : j # k /\ j # m => f[j] = d[j]
      /\ Within(n, d, f, l, r)
  BY SwapIs
<1>3. Key(d, k) \in Int /\ Key(d, m) \in Int
  BY <1>1 DEF Key
<1>4. CASE Key(d, k) > Key(d, m)
  <2> HIDE DEF f
  <2>1. Ordering(d, k, m) = f
    BY <1>4 DEF Ordering, f
  <2>2. Key(f, k) = Key(d, m) /\ Key(f, m) = Key(d, k)
    BY <1>2 DEF Key
  <2>3. \A j \in 0..(n - 1) : j # k /\ j # m => Key(f, j) = Key(d, j)
    BY <1>2 DEF Key
  <2>4. /\ Key(f, k) <= Key(f, m) /\ Key(f, k) <= Key(d, k) /\ Key(f, k) <= Key(d, m)
        /\ Key(f, m) \in {Key(d, k), Key(d, m)} /\ Key(f, k) \in {Key(d, k), Key(d, m)}
    BY <1>3, <1>4, <2>2
  <2> QED
    BY <1>2, <2>1, <2>3, <2>4 DEF OrderedAt
<1>5. CASE ~(Key(d, k) > Key(d, m))
  <2>1. Ordering(d, k, m) = d
    BY <1>5 DEF Ordering
  <2>2. Key(d, k) <= Key(d, m)
    BY <1>3, <1>5
  <2>3. Within(n, d, d, l, r)
    BY WithinSelf
  <2> QED
    BY <1>3, <2>1, <2>2, <2>3 DEF OrderedAt
<1> QED
  BY <1>4, <1>5

LEMMA MedianIs ==
  ASSUME NEW n \in Nat, key \in [1..n -> Int], NEW d \in [0..(n - 1) -> 1..n],
         NEW l \in 0..(n - 1), NEW r \in 0..(n - 1), l + 2 <= r
  PROVE  LET e == MedianOfThree(d, l, r)
         IN Within(n, d, e, l, r) /\ Key(e, l) <= Key(e, r - 1) /\ Key(e, r - 1) <= Key(e, r)
<1> DEFINE mid == l + (r - l) \div 2
           d1 == Ordering(d, l, mid)
           d2 == Ordering(d1, l, r)
           d3 == Ordering(d2, mid, r)
           e == qsort_swap(d3, mid, r - 1)
<1>1. MedianOfThree(d, l, r) = e
  BY DEF MedianOfThree, Ordering
<1>2. mid \in Int /\ l < mid /\ mid < r
  OBVIOUS
<1> HIDE DEF mid, d1, d2, d3, e
<1>3. /\ l \in l..r /\ r \in l..r /\ mid \in l..r /\ r - 1 \in l..r
      /\ l \in 0..(n - 1) /\ r \in 0..(n - 1) /\ mid \in 0..(n - 1) /\ r - 1 \in 0..(n - 1)
      /\ l # mid /\ l # r - 1 /\ l # r /\ mid # r /\ r - 1 # r
  BY <1>2
<1>4. /\ d1 \in [0..(n - 1) -> 1..n] /\ Within(n, d, d1, l, r)
      /\ Key(d1, l) <= Key(d1, mid)
  <2>1. OrderedAt(n, d, d1, l, r, l, mid)
    BY <1>3, OrderingIs DEF d1
  <2> QED
    BY <2>1 DEF OrderedAt
<1>5. /\ d2 \in [0..(n - 1) -> 1..n] /\ Within(n, d1, d2, l, r)
      /\ Key(d2, l) <= Key(d2, r) /\ Key(d2, l) <= Key(d1, l)
      /\ Key(d2, mid) = Key(d1, mid)
  <2>1. OrderedAt(n, d1, d2, l, r, l, r)
    BY <1>3, <1>4, OrderingIs DEF d2
  <2> QED
    BY <1>3, <2>1 DEF OrderedAt
<1>6. /\ d3 \in [0..(n - 1) -> 1..n] /\ Within(n, d2, d3, l, r)
      /\ Key(d3, mid) <= Key(d3, r) /\ Key(d3, mid) \in {Key(d2, mid), Key(d2, r)}
      /\ Key(d3, l) = Key(d2, l)
  <2>1. OrderedAt(n, d2, d3, l, r, mid, r)
    BY <1>3, <1>5, OrderingIs DEF d3
  <2> QED
    BY <1>3, <2>1 DEF OrderedAt
<1>7. /\ e \in [0..(n - 1) -> 1..n] /\ e[mid] = d3[r - 1] /\ e[r - 1] = d3[mid]
      /\ \A j \in 0..(n - 1) : j # mid /\ j # r - 1 => e[j] = d3[j]
      /\ Within(n, d3, e, l, r)
  BY <1>3, <1>6, SwapIs DEF e
<1>8. Within(n, d, e, l, r)
  BY <1>4, <1>5, <1>6, <1>7, WithinTwice
<1>9. Key(e, l) = Key(d3, l) /\ Key(e, r - 1) = Key(d3, mid) /\ Key(e, r) = Key(d3, r)
  BY <1>3, <1>7 DEF Key
<1>10. /\ Key(d1, l) \in Int /\ Key(d1, mid) \in Int /\ Key(d2, l) \in Int /\ Key(d2, r) \in Int
       /\ Key(d2, mid) \in Int /\ Key(d3, l) \in Int /\ Key(d3, mid) \in Int /\ Key(d3, r) \in Int
  BY <1>3, <1>4, <1>5, <1>6 DEF Key
<1>11. Key(d3, l) <= Key(d3, mid)
  <2>1. Key(d3, l) = Key(d2, l)
    BY <1>6
  <2>2. CASE Key(d3, mid) = Key(d2, mid)
    <3>1. Key(d2, mid) = Key(d1, mid) /\ Key(d2, l) <= Key(d1, l) /\ Key(d1, l) <= Key(d1, mid)
      BY <1>4, <1>5
    <3> QED
      BY <1>10, <2>1, <2>2, <3>1
  <2>3. CASE Key(d3, mid) = Key(d2, r)
    BY <1>5, <2>1, <2>3
  <2> QED
    BY <1>6, <2>2, <2>3
<1> QED
  BY <1>1, <1>6, <1>8, <1>9, <1>11
-----------------------------------------------------------------------------
(* What is still to sort: ranges, apart from each other, and the deeper on *)
(* the stack the smaller.  Two elements that are in no range together are  *)
(* in order.                                                               *)

Spans == [left : Nat, right : Nat]

Ranges(n, rs) ==
  /\ rs \in Seq(Spans)
  /\ \A a \in 1..Len(rs) : rs[a].left < rs[a].right /\ rs[a].right < n
  /\ \A a \in 1..Len(rs) : Pow(a - 1) * (rs[a].right - rs[a].left + 1) <= n
  /\ \A a \in 1..Len(rs), b \in 1..Len(rs) :
       a # b => rs[a].right < rs[b].left \/ rs[b].right < rs[a].left

Together(rs, p, q) == \E a \in 1..Len(rs) : rs[a].left <= p /\ q <= rs[a].right

Settled(n, K, d, rs) ==
  \A p \in 0..(n - 1), q \in 0..(n - 1) : p < q => K[d[p]] <= K[d[q]] \/ Together(rs, p, q)

\* Another order in one of the ranges.
LEMMA WithinSettled ==
  ASSUME NEW n \in Nat, NEW K \in [1..n -> Int], NEW d, NEW e, NEW rs, Ranges(n, rs),
         NEW a \in 1..Len(rs), Within(n, d, e, rs[a].left, rs[a].right), Settled(n, K, d, rs)
  PROVE  Settled(n, K, e, rs)
<1> DEFINE l == rs[a].left
           r == rs[a].right
<1>1. /\ l \in Nat /\ r \in Nat /\ l < r /\ r < n
      /\ \A b \in 1..Len(rs) : rs[b].left \in Nat /\ rs[b].right \in Nat
      /\ \A b \in 1..Len(rs) : b # a => r < rs[b].left \/ rs[b].right < l
  <2>1. \A b \in 1..Len(rs) : rs[b] \in Spans
    BY ElementOfSeq DEF Ranges
  <2> QED
    BY <2>1 DEF Ranges, Spans
<1>2. /\ \A k \in 0..(n - 1) : k \notin l..r => e[k] = d[k]
      /\ \A k \in l..r : \E m \in l..r : e[k] = d[m]
  BY DEF Within
<1> HIDE DEF l, r
<1>3. SUFFICES ASSUME NEW p \in 0..(n - 1), NEW q \in 0..(n - 1), p < q
               PROVE  K[e[p]] <= K[e[q]] \/ Together(rs, p, q)
  BY DEF Settled
<1>4. CASE p \in l..r /\ q \in l..r
  BY <1>1, <1>4 DEF Together, l, r
<1>5. CASE p \in l..r /\ q \notin l..r
  <2>1. PICK m \in l..r : e[p] = d[m]
    BY <1>2, <1>5
  <2>2. m \in 0..(n - 1) /\ m < q /\ r < q
    BY <1>1, <1>3, <1>5
  <2>3. ~Together(rs, m, q)
    <3> SUFFICES ASSUME NEW b \in 1..Len(rs), rs[b].left <= m, q <= rs[b].right PROVE FALSE
      BY DEF Together
    <3>1. b # a
      BY <1>1, <2>2 DEF l, r
    <3> DEFINE u == rs[b].left
               v == rs[b].right
    <3>2. u \in Nat /\ v \in Nat /\ (r < u \/ v < l) /\ u <= m /\ q <= v
      BY <1>1, <3>1
    <3>3. m \in l..r /\ p \in Nat /\ q \in Nat /\ l \in Nat /\ r \in Nat
      BY <1>1, <2>1
    <3> HIDE DEF u, v
    <3> QED
      BY <2>2, <3>2, <3>3
  <2>4. K[d[m]] <= K[d[q]]
    BY <2>2, <2>3 DEF Settled
  <2> QED
    BY <1>2, <1>5, <2>1, <2>4
<1>6. CASE p \notin l..r /\ q \in l..r
  <2>1. PICK m \in l..r : e[q] = d[m]
    BY <1>2, <1>6
  <2>2. m \in 0..(n - 1) /\ p < m /\ p < l
    BY <1>1, <1>3, <1>6
  <2>3. ~Together(rs, p, m)
    <3> SUFFICES ASSUME NEW b \in 1..Len(rs), rs[b].left <= p, m <= rs[b].right PROVE FALSE
      BY DEF Together
    <3>1. b # a
      BY <1>1, <2>2 DEF l, r
    <3> DEFINE u == rs[b].left
               v == rs[b].right
    <3>2. u \in Nat /\ v \in Nat /\ (r < u \/ v < l) /\ u <= p /\ m <= v
      BY <1>1, <3>1
    <3>3. m \in l..r /\ p \in Nat /\ q \in Nat /\ l \in Nat /\ r \in Nat
      BY <1>1, <2>1
    <3> HIDE DEF u, v
    <3> QED
      BY <2>2, <3>2, <3>3
  <2>4. K[d[p]] <= K[d[m]]
    BY <2>2, <2>3 DEF Settled
  <2> QED
    BY <1>2, <1>6, <2>1, <2>4
<1>7. CASE p \notin l..r /\ q \notin l..r
  <2>1. e[p] = d[p] /\ e[q] = d[q]
    BY <1>2, <1>7
  <2> QED
    BY <1>3, <2>1 DEF Settled
<1> QED
  BY <1>4, <1>5, <1>6, <1>7

\* The ranges, and where they are when others follow.
LEMMA AppendIs ==
  ASSUME NEW S, NEW st \in Seq(S), NEW x \in S
  PROVE  /\ Append(st, x) \in Seq(S) /\ Len(Append(st, x)) = Len(st) + 1 /\ Len(st) \in Nat
         /\ \A a \in 1..Len(st) : Append(st, x)[a] = st[a]
         /\ Append(st, x)[Len(st) + 1] = x
BY AppendProperties, LenProperties

LEMMA LastIs ==
  ASSUME NEW S, NEW s \in Seq(S), s # <<>>
  PROVE  LET t == SubSeq(s, 1, Len(s) - 1)
         IN t \in Seq(S) /\ s[Len(s)] \in S /\ s = Append(t, s[Len(s)])
<1> DEFINE t == SubSeq(s, 1, Len(s) - 1)
           x == s[Len(s)]
<1>1. Len(s) \in Nat /\ Len(s) >= 1
  BY EmptySeq, LenProperties
<1>2. \A a \in 1..Len(s) : s[a] \in S
  BY ElementOfSeq
<1>3. t \in Seq(S) /\ Len(t) = Len(s) - 1 /\ \A a \in 1..(Len(s) - 1) : t[a] = s[a]
  <2>1. \A a \in 1..(Len(s) - 1) : s[a] \in S
    BY <1>1, <1>2
  <2>2. Len(s) - 1 \in Int
    BY <1>1
  <2> DEFINE m == Len(s) - 1
  <2>3. /\ SubSeq(s, 1, m) \in Seq(S)
        /\ Len(SubSeq(s, 1, m)) = IF 1 <= m THEN m - 1 + 1 ELSE 0
        /\ \A i \in 1..(m - 1 + 1) : SubSeq(s, 1, m)[i] = s[1 + i - 1]
    <3> HIDE DEF m
    <3>1. m \in Int /\ \A a \in 1..m : s[a] \in S
      BY <2>1, <2>2 DEF m
    <3> QED
      BY <3>1, SubSeqProperties
  <2>4. m = Len(s) - 1 /\ t = SubSeq(s, 1, m)
    OBVIOUS
  <2> HIDE DEF m, t
  <2>5. m \in Nat
    BY <1>1, <2>4
  <2>6. Len(SubSeq(s, 1, m)) = m
    BY <2>3, <2>5
  <2>7. \A i \in 1..m : SubSeq(s, 1, m)[i] = s[i]
    <3> SUFFICES ASSUME NEW i \in 1..m PROVE SubSeq(s, 1, m)[i] = s[i]
      OBVIOUS
    <3>1. i \in 1..(m - 1 + 1) /\ 1 + i - 1 = i
      BY <2>5
    <3> QED
      BY <2>3, <3>1
  <2> QED
    BY <2>3, <2>4, <2>6, <2>7
<1>4. x \in S
  BY <1>1, <1>2
<1> HIDE DEF t, x
<1>5. /\ Append(t, x) \in Seq(S) /\ Len(Append(t, x)) = Len(t) + 1
      /\ \A a \in 1..Len(t) : Append(t, x)[a] = t[a]
      /\ Append(t, x)[Len(t) + 1] = x
  BY <1>3, <1>4, AppendIs
<1>6. Len(Append(t, x)) = Len(s) /\ \A a \in 1..Len(s) : Append(t, x)[a] = s[a]
  <2>1. x = s[Len(s)]
    BY DEF x
  <2> QED
    BY <1>1, <1>3, <1>5, <2>1
<1>7. s = Append(t, x)
  BY <1>5, <1>6, SeqEqual
<1> QED
  BY <1>3, <1>4, <1>7 DEF t, x

\* The last range is replaced by parts of it.
LEMMA PartsSettled ==
  ASSUME NEW n \in Nat, NEW K \in [1..n -> Int], NEW d, NEW st \in Seq(Spans), NEW x \in Spans,
         NEW new \in Seq(Spans), Settled(n, K, d, Append(st, x)),
         \A p \in 0..(n - 1), q \in 0..(n - 1) :
           x.left <= p /\ p < q /\ q <= x.right => K[d[p]] <= K[d[q]] \/ Together(new, p, q)
  PROVE  Settled(n, K, d, st \o new)
<1>1. SUFFICES ASSUME NEW p \in 0..(n - 1), NEW q \in 0..(n - 1), p < q, Together(Append(st, x), p, q)
               PROVE  K[d[p]] <= K[d[q]] \/ Together(st \o new, p, q)
  BY DEF Settled
<1>2. /\ Len(Append(st, x)) = Len(st) + 1 /\ Len(st) \in Nat
      /\ \A a \in 1..Len(st) : Append(st, x)[a] = st[a]
      /\ Append(st, x)[Len(st) + 1] = x
  BY AppendIs
<1>3. /\ Len(st \o new) = Len(st) + Len(new) /\ Len(new) \in Nat
      /\ \A a \in 1..(Len(st) + Len(new)) :
           (st \o new)[a] = IF a <= Len(st) THEN st[a] ELSE new[a - Len(st)]
  BY ConcatProperties, LenProperties
<1>4. PICK a \in 1..(Len(st) + 1) : Append(st, x)[a].left <= p /\ q <= Append(st, x)[a].right
  BY <1>1, <1>2 DEF Together
<1>5. CASE a <= Len(st)
  <2>1. a \in 1..Len(st) /\ a \in 1..(Len(st) + Len(new))
    BY <1>2, <1>3, <1>5
  <2>2. (st \o new)[a] = Append(st, x)[a]
    BY <1>2, <1>3, <1>5, <2>1
  <2> QED
    BY <1>3, <1>4, <2>1, <2>2 DEF Together
<1>6. CASE a = Len(st) + 1
  <2>1. x.left <= p /\ q <= x.right
    BY <1>2, <1>4, <1>6
  <2>2. CASE Together(new, p, q)
    <3>1. PICK b \in 1..Len(new) : new[b].left <= p /\ q <= new[b].right
      BY <2>2 DEF Together
    <3>2. Len(st) + b \in 1..(Len(st) + Len(new)) /\ ~(Len(st) + b <= Len(st))
          /\ (Len(st) + b) - Len(st) = b
      BY <1>2, <1>3
    <3>3. (st \o new)[Len(st) + b] = new[b]
      BY <1>3, <3>2
    <3> QED
      BY <1>3, <3>1, <3>2, <3>3 DEF Together
  <2> QED
    BY <1>1, <2>1, <2>2
<1> QED
  BY <1>2, <1>4, <1>5, <1>6

\* Parts of a range: apart, and the second at most half of it.
Divides(new, l, r) ==
  /\ new \in Seq(Spans) /\ Len(new) \in 0..2
  /\ \A a \in 1..Len(new) : /\ l <= new[a].left /\ new[a].left < new[a].right /\ new[a].right <= r
                            /\ a * (new[a].right - new[a].left + 1) <= r - l + 1
  /\ Len(new) = 2 => new[1].right < new[2].left \/ new[2].right < new[1].left

LEMMA PartsRanges ==
  ASSUME NEW n \in Nat, NEW st \in Seq(Spans), NEW x \in Spans, Ranges(n, Append(st, x)),
         NEW new, Divides(new, x.left, x.right)
  PROVE  Ranges(n, st \o new)
<1> DEFINE rs == st \o new
           old == Append(st, x)
           m == Len(st)
<1>1. /\ Len(old) = m + 1 /\ m \in Nat /\ \A a \in 1..m : old[a] = st[a]
      /\ old[m + 1] = x
  BY AppendIs
<1>2. /\ rs \in Seq(Spans) /\ Len(rs) = m + Len(new)
      /\ \A a \in 1..(m + Len(new)) : rs[a] = IF a <= m THEN st[a] ELSE new[a - m]
  BY ConcatProperties DEF Divides
<1>3. /\ Len(new) \in 0..2
      /\ \A a \in 1..Len(new) : /\ new[a] \in Spans
                                /\ x.left <= new[a].left /\ new[a].left < new[a].right
                                /\ new[a].right <= x.right
                                /\ a * (new[a].right - new[a].left + 1) <= x.right - x.left + 1
      /\ Len(new) = 2 => new[1].right < new[2].left \/ new[2].right < new[1].left
  <2>1. new \in Seq(Spans)
    BY DEF Divides
  <2>2. \A a \in 1..Len(new) : new[a] \in Spans
    BY <2>1, ElementOfSeq
  <2> QED
    BY <2>2 DEF Divides
<1>4. /\ \A a \in 1..(m + 1) : /\ old[a] \in Spans /\ old[a].left < old[a].right /\ old[a].right < n
                               /\ Pow(a - 1) * (old[a].right - old[a].left + 1) <= n
      /\ \A a \in 1..(m + 1), b \in 1..(m + 1) :
           a # b => old[a].right < old[b].left \/ old[b].right < old[a].left
  <2>1. old \in Seq(Spans)
    BY DEF Ranges
  <2>2. \A a \in 1..(m + 1) : old[a] \in Spans
    BY <1>1, <2>1, ElementOfSeq
  <2> QED
    BY <1>1, <2>2 DEF Ranges
<1>5. m + 1 \in 1..(m + 1) /\ x.left \in Nat /\ x.right \in Nat
  BY <1>1 DEF Spans
<1>6. \A a \in 1..Len(rs) : \/ a \in 1..m /\ rs[a] = old[a]
                            \/ a - m \in 1..Len(new) /\ ~(a <= m) /\ rs[a] = new[a - m]
  BY <1>1, <1>2, <1>3
<1> HIDE DEF rs, old, m
<1>7. \A a \in 1..Len(rs) : /\ rs[a].left < rs[a].right /\ rs[a].right < n /\ rs[a] \in Spans
                            /\ a > m => x.left <= rs[a].left /\ rs[a].right <= x.right
                            /\ a <= m => a \in 1..(m + 1) /\ rs[a] = old[a]
  <2> SUFFICES ASSUME NEW a \in 1..Len(rs)
               PROVE  /\ rs[a].left < rs[a].right /\ rs[a].right < n /\ rs[a] \in Spans
                      /\ a > m => x.left <= rs[a].left /\ rs[a].right <= x.right
                      /\ a <= m => a \in 1..(m + 1) /\ rs[a] = old[a]
    OBVIOUS
  <2>1. CASE a \in 1..m /\ rs[a] = old[a]
    BY <1>1, <1>4, <2>1
  <2>2. CASE a - m \in 1..Len(new) /\ ~(a <= m) /\ rs[a] = new[a - m]
    <3>1. x.right < n
      BY <1>1, <1>4, <1>5
    <3>2. new[a - m].right \in Nat
      BY <1>3, <2>2 DEF Spans
    <3> QED
      BY <1>1, <1>3, <1>5, <2>2, <3>1, <3>2
  <2> QED
    BY <1>6, <2>1, <2>2
<1>8. ASSUME NEW a \in 1..Len(rs) PROVE Pow(a - 1) * (rs[a].right - rs[a].left + 1) <= n
  <2>1. CASE a <= m
    BY <1>4, <1>7, <2>1
  <2>2. CASE ~(a <= m)
    <3> DEFINE c == a - m
               s == x.right - x.left + 1
               t == new[c].right - new[c].left + 1
    <3>1. c \in 1..Len(new) /\ rs[a] = new[c] /\ c \in 1..2
      BY <1>1, <1>3, <1>6, <2>2
    <3>2. s \in Nat /\ t \in Nat /\ c * t <= s
      <4>1. new[c].left \in Nat /\ new[c].right \in Nat
        BY <1>3, <3>1 DEF Spans
      <4>2. /\ x.left <= new[c].left /\ new[c].left < new[c].right /\ new[c].right <= x.right
            /\ c * t <= s
        BY <1>3, <3>1
      <4>3. s \in Nat /\ t \in Nat
        <5>1. \A xl \in Nat, xr \in Nat, p \in Nat, q \in Nat :
                xl <= p /\ p < q /\ q <= xr => xr - xl + 1 \in Nat /\ q - p + 1 \in Nat
          OBVIOUS
        <5> HIDE DEF c
        <5> QED
          BY <1>5, <4>1, <4>2, <5>1
      <4> QED
        BY <4>2, <4>3
    <3>3. Pow(m) \in Nat /\ Pow(m + 1) = 2 * Pow(m) /\ Pow(m) * s <= n
      <4>1. Pow((m + 1) - 1) * (old[m + 1].right - old[m + 1].left + 1) <= n
        BY <1>4, <1>5
      <4>2. (m + 1) - 1 = m
        BY <1>1
      <4> QED
        BY <1>1, <4>1, <4>2, PowIs
    <3>4. c = 1 \/ c = 2
      BY <3>1
    <3>5. a - 1 = IF c = 1 THEN m ELSE m + 1
      BY <1>1, <3>4
    <3> HIDE DEF s, t, c
    <3> DEFINE w == Pow(m)
    <3>6. w \in Nat /\ w * s <= n
      BY <3>3
    <3>7. CASE c = 1
      <4>1. Pow(a - 1) = w /\ t <= s
        BY <3>2, <3>5, <3>7
      <4> HIDE DEF w
      <4>2. w * t <= w * s /\ w * t \in Nat /\ w * s \in Nat
        BY <3>2, <3>6, <4>1, Product
      <4>3. w * t <= n
        BY <3>6, <4>2
      <4> QED
        BY <3>1, <4>1, <4>3 DEF t
    <3>8. CASE c = 2
      <4>1. Pow(a - 1) = 2 * w /\ 2 * t <= s /\ 2 * t \in Nat
        BY <3>2, <3>3, <3>5, <3>8
      <4> HIDE DEF w
      <4>2. w * (2 * t) <= w * s /\ w * (2 * t) \in Nat /\ w * s \in Nat
        BY <3>2, <3>6, <4>1, Product
      <4>3. (2 * w) * t = w * (2 * t)
        BY <3>2, <3>6, ProductOf
      <4>4. Pow(a - 1) * t <= n
        BY <3>6, <4>1, <4>2, <4>3
      <4> QED
        BY <3>1, <4>4 DEF t
    <3> QED
      BY <3>4, <3>7, <3>8
  <2> QED
    BY <2>1, <2>2
<1>9. ASSUME NEW a \in 1..Len(rs), NEW b \in 1..Len(rs), a # b
      PROVE  rs[a].right < rs[b].left \/ rs[b].right < rs[a].left
  <2> DEFINE al == rs[a].left
             ar == rs[a].right
             bl == rs[b].left
             br == rs[b].right
             xl == x.left
             xr == x.right
  <2>0. /\ rs[a].left \in Nat /\ rs[a].right \in Nat /\ rs[b].left \in Nat /\ rs[b].right \in Nat
        /\ a \in Nat /\ b \in Nat
    BY <1>7 DEF Spans
  <2>1. CASE a <= m /\ b <= m
    BY <1>4, <1>7, <1>9, <2>1
  <2>2. CASE a <= m /\ b > m
    <3>1. rs[a].right < x.left \/ x.right < rs[a].left
      <4>1. a # m + 1 /\ a \in 1..(m + 1) /\ rs[a] = old[a]
        BY <1>1, <1>7, <2>2
      <4> QED
        BY <1>1, <1>4, <1>5, <4>1
    <3>2. x.left <= rs[b].left /\ rs[b].right <= x.right
      BY <1>7, <2>2
    <3>3. al \in Nat /\ ar \in Nat /\ bl \in Nat /\ br \in Nat /\ xl \in Nat /\ xr \in Nat
          /\ (ar < xl \/ xr < al) /\ xl <= bl /\ br <= xr
      BY <1>5, <2>0, <3>1, <3>2
    <3>4. ar < bl \/ br < al
      <4> HIDE DEF al, ar, bl, br, xl, xr
      <4> QED
        BY <3>3
    <3> QED
      BY <3>4
  <2>3. CASE a > m /\ b <= m
    <3>1. rs[b].right < x.left \/ x.right < rs[b].left
      <4>1. b # m + 1 /\ b \in 1..(m + 1) /\ rs[b] = old[b]
        BY <1>1, <1>7, <2>3
      <4> QED
        BY <1>1, <1>4, <1>5, <4>1
    <3>2. x.left <= rs[a].left /\ rs[a].right <= x.right
      BY <1>7, <2>3
    <3>3. al \in Nat /\ ar \in Nat /\ bl \in Nat /\ br \in Nat /\ xl \in Nat /\ xr \in Nat
          /\ (br < xl \/ xr < bl) /\ xl <= al /\ ar <= xr
      BY <1>5, <2>0, <3>1, <3>2
    <3>4. ar < bl \/ br < al
      <4> HIDE DEF al, ar, bl, br, xl, xr
      <4> QED
        BY <3>3
    <3> QED
      BY <3>4
  <2>4. CASE a > m /\ b > m
    <3>1. a - m \in 1..Len(new) /\ rs[a] = new[a - m] /\ b - m \in 1..Len(new) /\ rs[b] = new[b - m]
      <4>0. m \in Nat /\ a \in Nat /\ b \in Nat
        BY <1>1, <2>0
      <4>1. ~(a \in 1..m) /\ ~(b \in 1..m)
        BY <2>4, <4>0
      <4> QED
        BY <1>6, <4>1
    <3>2. a - m # b - m
      <4>1. m \in Nat /\ a \in Nat /\ b \in Nat /\ a # b
        BY <1>1, <1>9, <2>0
      <4> QED
        BY <4>1
    <3>3. Len(new) = 2 /\ ((a - m = 1 /\ b - m = 2) \/ (a - m = 2 /\ b - m = 1))
      <4> DEFINE v == a - m
                 w == b - m
                 z == Len(new)
      <4>1. v \in 1..z /\ w \in 1..z /\ v # w /\ z \in 0..2
        BY <1>3, <3>1, <3>2
      <4>2. z = 2 /\ ((v = 1 /\ w = 2) \/ (v = 2 /\ w = 1))
        <5> HIDE DEF v, w, z
        <5> QED
          BY <4>1
      <4> QED
        BY <4>2
    <3> QED
      BY <1>3, <3>1, <3>3
  <2> QED
    BY <1>1, <2>0, <2>1, <2>2, <2>3, <2>4
<1>10. rs \in Seq(Spans)
  BY <1>2 DEF rs
<1> QED
  BY <1>7, <1>8, <1>9, <1>10 DEF Ranges, rs
-----------------------------------------------------------------------------
(* Partition.                                                              *)

\* What is pushed when the pivot of l..r is at i.
PushedFor(l, i, r) ==
  IF i - l > r - i THEN Part(l, i - 1) \o Part(i + 1, r) ELSE Part(i + 1, r) \o Part(l, i - 1)

LEMMA PartOfRange ==
  ASSUME NEW l \in Nat, NEW r \in Int
  PROVE  /\ l < r => Part(l, r) = <<[left |-> l, right |-> r]>>
         /\ ~(l < r) => Part(l, r) = <<>>
BY DEF Part

LEMMA PairIs ==
  ASSUME NEW x, NEW y
  PROVE  /\ <<x>> \o <<y>> = <<x, y>> /\ <<x>> \o <<>> = <<x>> /\ <<>> \o <<x>> = <<x>>
         /\ <<>> \o <<>> = <<>>
<1>1. <<x>> \in Seq({x, y}) /\ Append(<<x>>, y) = <<x, y>>
  <2>1. <<x>> \in Seq({x, y}) /\ Len(<<x>>) = 1 /\ <<x>>[1] = x
    OBVIOUS
  <2>2. <<x, y>> \in Seq({x, y}) /\ Len(<<x, y>>) = 2 /\ <<x, y>>[1] = x /\ <<x, y>>[2] = y
    OBVIOUS
  <2> DEFINE s == <<x>>
             t == <<x, y>>
             S == {x, y}
  <2>3. s \in Seq(S) /\ Len(s) = 1 /\ s[1] = x /\ y \in S
        /\ t \in Seq(S) /\ Len(t) = 2 /\ t[1] = x /\ t[2] = y
    BY <2>1, <2>2
  <2> HIDE DEF s, t, S
  <2>4. /\ Append(s, y) \in Seq(S) /\ Len(Append(s, y)) = Len(s) + 1
        /\ \A i \in 1..Len(s) : Append(s, y)[i] = s[i]
        /\ Append(s, y)[Len(s) + 1] = y
    <3>1. s \in Seq(S) /\ y \in S
      BY <2>3
    <3>2. /\ Append(s, y) \in Seq(S) /\ Len(Append(s, y)) = Len(s) + 1 /\ Len(s) \in Nat
          /\ \A a \in 1..Len(s) : Append(s, y)[a] = s[a]
          /\ Append(s, y)[Len(s) + 1] = y
      BY <3>1, AppendIs
    <3> QED
      BY <3>2
  <2>5. Len(Append(s, y)) = Len(t) /\ \A i \in 1..2 : Append(s, y)[i] = t[i]
    BY <2>3, <2>4
  <2>6. Append(s, y) = t
    BY <2>3, <2>4, <2>5, SeqEqual
  <2> QED
    BY <2>1, <2>6 DEF s, t
<1>2. <<x>> \o <<y>> = Append(<<x>>, y)
  BY <1>1, AppendIsConcat
<1>3. /\ <<x>> \o <<>> = <<x>> /\ <<>> \o <<x>> = <<x>>
  BY <1>1, ConcatEmptySeq
<1>4. <<>> \o <<>> = <<>>
  <2>1. <<>> \in Seq({x})
    BY EmptySeq
  <2> QED
    BY <2>1, ConcatEmptySeq
<1> QED
  BY <1>1, <1>2, <1>3, <1>4

LEMMA OneRange ==
  ASSUME NEW l \in Nat, NEW r \in Nat, NEW x \in Spans,
         l <= x.left, x.left < x.right, x.right <= r
  PROVE  Divides(<<x>>, l, r) /\ \A p, q : x.left <= p /\ q <= x.right => Together(<<x>>, p, q)
<1>1. <<x>> \in Seq(Spans) /\ Len(<<x>>) = 1 /\ <<x>>[1] = x
  OBVIOUS
<1>2. x.left \in Nat /\ x.right \in Nat
  BY DEF Spans
<1>3. 1 * (x.right - x.left + 1) <= r - l + 1
  BY <1>2
<1> DEFINE new == <<x>>
<1> HIDE DEF new
<1>4. new \in Seq(Spans) /\ Len(new) = 1 /\ new[1] = x
  BY <1>1 DEF new
<1>5. \A a \in 1..Len(new) : a = 1
  BY <1>4
<1>6. Divides(new, l, r)
  BY <1>3, <1>4, <1>5 DEF Divides
<1>7. \A p, q : x.left <= p /\ q <= x.right => Together(new, p, q)
  BY <1>4 DEF Together
<1> QED
  BY <1>6, <1>7 DEF new

LEMMA TwoRanges ==
  ASSUME NEW l \in Nat, NEW r \in Nat, NEW x \in Spans, NEW y \in Spans,
         l <= x.left, x.left < x.right, x.right <= r, l <= y.left, y.left < y.right, y.right <= r,
         x.right < y.left \/ y.right < x.left, y.right - y.left <= x.right - x.left
  PROVE  /\ Divides(<<x, y>>, l, r)
         /\ \A p, q : x.left <= p /\ q <= x.right => Together(<<x, y>>, p, q)
         /\ \A p, q : y.left <= p /\ q <= y.right => Together(<<x, y>>, p, q)
<1> DEFINE new == <<x, y>>
<1>1. new \in Seq(Spans) /\ Len(new) = 2 /\ new[1] = x /\ new[2] = y
  OBVIOUS
<1>2. x.left \in Nat /\ x.right \in Nat /\ y.left \in Nat /\ y.right \in Nat
  BY DEF Spans
<1>3. 1 * (x.right - x.left + 1) <= r - l + 1 /\ 2 * (y.right - y.left + 1) <= r - l + 1
  BY <1>2
<1> HIDE DEF new
<1>4. \A a \in 1..Len(new) : a = 1 \/ a = 2
  BY <1>1
<1>5. 1 \in 1..Len(new) /\ 2 \in 1..Len(new)
  BY <1>1
<1>6. Divides(new, l, r)
  BY <1>1, <1>3, <1>4 DEF Divides
<1>7. /\ \A p, q : x.left <= p /\ q <= x.right => Together(new, p, q)
      /\ \A p, q : y.left <= p /\ q <= y.right => Together(new, p, q)
  BY <1>1, <1>5 DEF Together
<1> QED
  BY <1>6, <1>7 DEF new

\* Both parts are pushed, the longer one below, but for parts of one element or none.
LEMMA PushedIs ==
  ASSUME NEW l \in Nat, NEW i \in Nat, NEW r \in Nat, l < i, i < r
  PROVE  LET new == PushedFor(l, i, r)
         IN /\ Divides(new, l, r)
            /\ \A p \in Nat, q \in Nat :
                 l <= p /\ p < q /\ q <= r /\ (q < i \/ i < p) => Together(new, p, q)
<1> DEFINE x == [left |-> l, right |-> i - 1]
           y == [left |-> i + 1, right |-> r]
           new == PushedFor(l, i, r)
           Covered == \A p \in Nat, q \in Nat :
                 l <= p /\ p < q /\ q <= r /\ (q < i \/ i < p) => Together(new, p, q)
<1>1. /\ x \in Spans /\ x.left = l /\ x.right = i - 1
      /\ y \in Spans /\ y.left = i + 1 /\ y.right = r
  BY DEF Spans
<1>2. /\ l < i - 1 => Part(l, i - 1) = <<x>>
      /\ ~(l < i - 1) => Part(l, i - 1) = <<>>
      /\ i + 1 < r => Part(i + 1, r) = <<y>>
      /\ ~(i + 1 < r) => Part(i + 1, r) = <<>>
  <2>1. i + 1 \in Nat /\ i - 1 \in Int
    OBVIOUS
  <2> QED
    BY <2>1, PartOfRange
<1>3. new = IF i - l > r - i THEN Part(l, i - 1) \o Part(i + 1, r)
            ELSE Part(i + 1, r) \o Part(l, i - 1)
  BY DEF PushedFor
<1>4. /\ <<x>> \o <<y>> = <<x, y>> /\ <<y>> \o <<x>> = <<y, x>>
      /\ <<x>> \o <<>> = <<x>> /\ <<>> \o <<x>> = <<x>>
      /\ <<y>> \o <<>> = <<y>> /\ <<>> \o <<y>> = <<y>> /\ <<>> \o <<>> = <<>>
  BY PairIs
<1> HIDE DEF x, y, new
<1>5. CASE l < i - 1 /\ i + 1 < r /\ i - l > r - i
  <2>1. new = <<x, y>>
    BY <1>2, <1>3, <1>4, <1>5
  <2>2. /\ l <= x.left /\ x.left < x.right /\ x.right <= r /\ l <= y.left /\ y.left < y.right
        /\ y.right <= r /\ x.right < y.left /\ y.right - y.left <= x.right - x.left
    BY <1>1, <1>5
  <2>3. /\ Divides(new, l, r)
        /\ \A p, q : x.left <= p /\ q <= x.right => Together(new, p, q)
        /\ \A p, q : y.left <= p /\ q <= y.right => Together(new, p, q)
    BY <1>1, <2>1, <2>2, TwoRanges
  <2>4. Covered
    BY <1>1, <2>3
  <2> QED
    BY <2>3, <2>4 DEF new
<1>6. CASE l < i - 1 /\ i + 1 < r /\ ~(i - l > r - i)
  <2>1. new = <<y, x>>
    BY <1>2, <1>3, <1>4, <1>6
  <2>2. /\ l <= x.left /\ x.left < x.right /\ x.right <= r /\ l <= y.left /\ y.left < y.right
        /\ y.right <= r /\ x.right < y.left /\ x.right - x.left <= y.right - y.left
    BY <1>1, <1>6
  <2>3. /\ Divides(new, l, r)
        /\ \A p, q : x.left <= p /\ q <= x.right => Together(new, p, q)
        /\ \A p, q : y.left <= p /\ q <= y.right => Together(new, p, q)
    BY <1>1, <2>1, <2>2, TwoRanges
  <2>4. Covered
    BY <1>1, <2>3
  <2> QED
    BY <2>3, <2>4 DEF new
<1>7. CASE l < i - 1 /\ ~(i + 1 < r)
  <2>1. new = <<x>>
    BY <1>2, <1>3, <1>4, <1>7
  <2>2. l <= x.left /\ x.left < x.right /\ x.right <= r
    BY <1>1, <1>7
  <2>3. Divides(new, l, r) /\ \A p, q : x.left <= p /\ q <= x.right => Together(new, p, q)
    BY <1>1, <2>1, <2>2, OneRange
  <2>4. Covered
    BY <1>1, <1>7, <2>3
  <2> QED
    BY <2>3, <2>4 DEF new
<1>8. CASE ~(l < i - 1) /\ i + 1 < r
  <2>1. new = <<y>>
    BY <1>2, <1>3, <1>4, <1>8
  <2>2. l <= y.left /\ y.left < y.right /\ y.right <= r
    BY <1>1, <1>8
  <2>3. Divides(new, l, r) /\ \A p, q : y.left <= p /\ q <= y.right => Together(new, p, q)
    BY <1>1, <2>1, <2>2, OneRange
  <2>4. Covered
    BY <1>1, <1>8, <2>3
  <2> QED
    BY <2>3, <2>4 DEF new
<1>9. CASE ~(l < i - 1) /\ ~(i + 1 < r)
  <2>1. new = <<>>
    BY <1>2, <1>3, <1>4, <1>9
  <2>2. Divides(<<>>, l, r)
    <3>1. <<>> \in Seq(Spans) /\ Len(<<>>) = 0
      BY EmptySeq
    <3> QED
      BY <3>1 DEF Divides
  <2>3. Covered
    BY <1>9
  <2> QED
    BY <2>1, <2>2, <2>3 DEF new
<1> QED
  BY <1>5, <1>6, <1>7, <1>8, <1>9

\* Where the scans are: what is left of i is not more than the pivot, and what is right
\* of j not less.
Parting(n, K, d, r) ==
  /\ r \in [left : Nat, right : Nat, i : Nat, j : Nat]
  /\ r.right < n /\ r.left + 2 <= r.right
  /\ r.left <= r.i /\ r.i < r.j /\ r.j <= r.right - 1
  /\ \A k \in r.left..r.i : K[d[k]] <= K[d[r.right - 1]]
  /\ \A k \in r.j..r.right : K[d[r.right - 1]] <= K[d[k]]

\* Where they stop.
Stops(n, d, r, i, j) ==
  LET pivot == Key(d, r.right - 1)
  IN /\ i \in (r.i + 1)..(r.right - 1) /\ Key(d, i) >= pivot
     /\ \A k \in (r.i + 1)..(i - 1) : Key(d, k) <= pivot
     /\ j \in r.i..(r.j - 1) /\ Key(d, j) <= pivot
     /\ \A k \in (j + 1)..(r.j - 1) : Key(d, k) >= pivot

LEMMA ScansStop ==
  ASSUME NEW n \in Nat, key \in [1..n -> Int], NEW d \in [0..(n - 1) -> 1..n], NEW r,
         Parting(n, key, d, r)
  PROVE  LET pivot == Key(d, r.right - 1)
             up == {k \in (r.i + 1)..(n - 1) : Key(d, k) >= pivot}
             down == {k \in 0..(r.j - 1) : Key(d, k) <= pivot}
         IN /\ up # {} /\ down # {}
            /\ Stops(n, d, r, CHOOSE k \in up : \A m \in up : k <= m,
                              CHOOSE k \in down : \A m \in down : k >= m)
<1> DEFINE u == r.right
           a == r.i
           b == r.j
           pivot == Key(d, u - 1)
           up == {k \in (a + 1)..(n - 1) : Key(d, k) >= pivot}
           down == {k \in 0..(b - 1) : Key(d, k) <= pivot}
           i == CHOOSE k \in up : \A m \in up : k <= m
           j == CHOOSE k \in down : \A m \in down : k >= m
<1>1. u \in Nat /\ a \in Nat /\ b \in Nat /\ u < n /\ a < b /\ b <= u - 1
  BY DEF Parting
<1>2. \A k \in 0..(n - 1) : Key(d, k) \in Int
  BY DEF Key
<1>3. Key(d, a) <= pivot
  <2>1. r.i \in r.left..r.i
    BY DEF Parting
  <2> QED
    BY <2>1 DEF Parting, Key
<1> HIDE DEF u, a, b
<1>4. /\ u - 1 \in 0..(n - 1) /\ u - 1 \in (a + 1)..(n - 1) /\ a \in 0..(b - 1)
      /\ (a + 1)..(n - 1) \subseteq 0..(n - 1) /\ 0..(b - 1) \subseteq 0..(n - 1)
      /\ 0..(n - 1) \subseteq Nat
  BY <1>1
<1>5. pivot \in Int
  BY <1>2, <1>4
<1>6. u - 1 \in up /\ a \in down
  <2>1. pivot >= pivot
    BY <1>5
  <2> QED
    BY <1>3, <1>4, <2>1
<1>7. i \in up /\ \A m \in up : i <= m
  <2>1. up \in SUBSET Nat /\ up # {}
    BY <1>4, <1>6
  <2> HIDE DEF up
  <2>2. \E k \in up : \A m \in up : k <= m
    BY <2>1, MinIs
  <2> QED
    BY <2>2
<1>8. j \in down /\ \A m \in down : j >= m
  <2>1. down \in SUBSET Nat /\ down # {} /\ down \subseteq 0..(b - 1)
    BY <1>4, <1>6
  <2>2. IsFiniteSet(0..(b - 1))
    <3>1. 0 \in Int /\ b - 1 \in Int
      BY <1>1
    <3> QED
      BY <3>1, FS_Interval
  <2> HIDE DEF down
  <2>3. IsFiniteSet(down)
    BY <2>1, <2>2, FS_Subset
  <2>4. \E k \in down : \A m \in down : k >= m
    BY <2>1, <2>3, MaxIs
  <2> QED
    BY <2>4
<1> HIDE DEF i, j, pivot
<1>9. /\ i \in (a + 1)..(u - 1) /\ Key(d, i) >= pivot
      /\ j \in a..(b - 1) /\ Key(d, j) <= pivot
  <2>1. /\ i \in (a + 1)..(n - 1) /\ Key(d, i) >= pivot /\ i <= u - 1
        /\ j \in 0..(b - 1) /\ Key(d, j) <= pivot /\ j >= a
    BY <1>6, <1>7, <1>8
  <2> QED
    BY <1>1, <2>1
<1>10. ASSUME NEW k \in (a + 1)..(i - 1) PROVE Key(d, k) <= pivot
  <2>1. k \in (a + 1)..(n - 1) /\ ~(i <= k)
    BY <1>1, <1>9
  <2>2. ~(Key(d, k) >= pivot)
    BY <1>7, <2>1
  <2>3. Key(d, k) \in Int
    BY <1>2, <1>4, <2>1
  <2> QED
    BY <1>5, <2>2, <2>3
<1>11. ASSUME NEW k \in (j + 1)..(b - 1) PROVE Key(d, k) >= pivot
  <2>1. k \in 0..(b - 1) /\ ~(j >= k)
    BY <1>1, <1>9
  <2>2. ~(Key(d, k) <= pivot)
    BY <1>8, <2>1
  <2>3. Key(d, k) \in Int
    BY <1>2, <1>4, <2>1
  <2> QED
    BY <1>5, <2>2, <2>3
<1>12. Stops(n, d, r, i, j)
  BY <1>9, <1>10, <1>11 DEF Stops, pivot, u, a, b
<1>13. up # {} /\ down # {}
  BY <1>6
<1> QED
  BY <1>12, <1>13 DEF i, j, pivot, u, a, b

\* The scans have not met: the two elements change places.
LEMMA ScansGoOn ==
  ASSUME NEW n \in Nat, key \in [1..n -> Int], NEW d \in [0..(n - 1) -> 1..n], NEW r,
         Parting(n, key, d, r), NEW i, NEW j, Stops(n, d, r, i, j), i < j
  PROVE  LET e == qsort_swap(d, i, j)
         IN /\ Within(n, d, e, r.left, r.right)
            /\ Parting(n, key, e, [r EXCEPT !.i = i, !.j = j])
<1> DEFINE e == qsort_swap(d, i, j)
           l == r.left
           u == r.right
           a == r.i
           b == r.j
           v == u - 1
           s == [r EXCEPT !.i = i, !.j = j]
           pivot == Key(d, v)
<1>1. /\ l \in Nat /\ u \in Nat /\ a \in Nat /\ b \in Nat /\ v \in Int /\ v + 1 = u
      /\ u < n /\ l + 2 <= u /\ l <= a /\ a < b /\ b <= v
  <2>1. l \in Nat /\ u \in Nat /\ a \in Nat /\ b \in Nat
    BY DEF Parting
  <2>2. u < n /\ l + 2 <= u /\ l <= a /\ a < b /\ b <= v
    BY DEF Parting
  <2>3. v \in Int /\ v + 1 = u
    <3> HIDE DEF u
    <3> QED
      BY <2>1
  <2> QED
    BY <2>1, <2>2, <2>3
<1>1a. /\ \A k \in l..a : Key(d, k) <= pivot
       /\ \A k \in b..u : pivot <= Key(d, k)
  BY DEF Parting, Key
<1>2. /\ i \in (a + 1)..v /\ Key(d, i) >= pivot
      /\ \A k \in (a + 1)..(i - 1) : Key(d, k) <= pivot
      /\ j \in a..(b - 1) /\ Key(d, j) <= pivot
      /\ \A k \in (j + 1)..(b - 1) : Key(d, k) >= pivot
  BY DEF Stops
<1>2a. i < j
  OBVIOUS
<1>3. \A k \in 0..(n - 1) : Key(d, k) \in Int
  BY DEF Key
<1>4. /\ s \in [left : Nat, right : Nat, i : Nat, j : Nat] /\ s.left = l /\ s.right = u
      /\ s.i = i /\ s.j = j
  <2>1. i \in Nat /\ j \in Nat
    <3> HIDE DEF a, b, v
    <3> QED
      BY <1>1, <1>2
  <2> QED
    BY <2>1 DEF Parting
<1> HIDE DEF s, l, u, a, b, v, e, pivot
<1>5. /\ l \in 0..(n - 1) /\ u \in 0..(n - 1) /\ i \in l..u /\ j \in l..u
      /\ i \in Nat /\ j \in Nat /\ i # v /\ j # v /\ l <= i /\ j <= v /\ v \in 0..(n - 1)
  <2>1. i \in (a + 1)..v /\ j \in a..(b - 1)
    BY <1>2
  <2>2. i \in Int /\ j \in Int /\ a + 1 <= i /\ i <= v /\ a <= j /\ j <= b - 1
    BY <1>1, <2>1
  <2>3. /\ i \in Int /\ j \in Int /\ l \in Nat /\ u \in Nat /\ v \in Int /\ v + 1 = u /\ u < n
        /\ l + 1 <= i /\ i < j /\ j <= v - 1 /\ n \in Nat
    BY <1>1, <1>2a, <2>2
  <2>4. i # v /\ j # v /\ l <= i /\ j <= v
    BY <2>3
  <2>5. i \in Nat /\ j \in Nat /\ i \in l..u /\ j \in l..u
    BY <2>3
  <2>6. l \in 0..(n - 1) /\ u \in 0..(n - 1) /\ v \in 0..(n - 1)
    BY <2>3
  <2> QED
    BY <2>4, <2>5, <2>6
<1>6. /\ e \in [0..(n - 1) -> 1..n] /\ e[i] = d[j] /\ e[j] = d[i]
      /\ \A k \in 0..(n - 1) : k # i /\ k # j => e[k] = d[k]
      /\ Within(n, d, e, l, u)
  BY <1>5, SwapIs DEF e
<1>7. /\ key[e[i]] = Key(d, j) /\ key[e[j]] = Key(d, i) /\ key[e[v]] = pivot
      /\ \A k \in 0..(n - 1) : k # i /\ k # j => key[e[k]] = Key(d, k)
  BY <1>5, <1>6 DEF Key, pivot
<1>8. \A k \in l..i : key[e[k]] <= pivot
  <2> SUFFICES ASSUME NEW k \in l..i PROVE key[e[k]] <= pivot
    OBVIOUS
  <2>1. k = i \/ k \in l..a \/ k \in (a + 1)..(i - 1)
    BY <1>1, <1>2
  <2>2. k # i => k # j /\ k \in 0..(n - 1)
    BY <1>1, <1>2, <1>5
  <2>3. k # i => Key(d, k) <= pivot
    BY <1>1a, <1>2, <2>1
  <2> QED
    BY <1>2, <1>7, <2>2, <2>3
<1>9. \A k \in j..u : pivot <= key[e[k]]
  <2> SUFFICES ASSUME NEW k \in j..u PROVE pivot <= key[e[k]]
    OBVIOUS
  <2>1. k = j \/ k \in b..u \/ k \in (j + 1)..(b - 1)
    BY <1>1, <1>2
  <2>2. k # j => k # i /\ k \in 0..(n - 1)
    BY <1>1, <1>2, <1>5
  <2>3. pivot \in Int /\ (k \in 0..(n - 1) => Key(d, k) \in Int) /\ Key(d, i) \in Int
    <3>1. i \in 0..(n - 1)
      BY <1>1, <1>5
    <3> QED
      BY <1>3, <1>5, <3>1 DEF pivot
  <2>4. k # j => pivot <= Key(d, k)
    BY <1>1a, <1>2, <2>1, <2>2, <2>3
  <2>5. pivot <= Key(d, i)
    BY <1>2, <2>3
  <2> QED
    BY <1>7, <2>2, <2>4, <2>5
<1>10. Parting(n, key, e, s)
  <2>1. s.right - 1 = v /\ l + 2 <= u /\ u < n /\ l <= i /\ j <= v
    BY <1>1, <1>4, <1>5
  <2> QED
    BY <1>4, <1>7, <1>8, <1>9, <2>1 DEF Parting
<1> QED
  BY <1>6, <1>10 DEF s, e, l, u

\* They have met: the pivot goes between the less and the greater.
LEMMA ScansMeet ==
  ASSUME NEW n \in Nat, key \in [1..n -> Int], NEW d \in [0..(n - 1) -> 1..n], NEW r,
         Parting(n, key, d, r), NEW i, NEW j, Stops(n, d, r, i, j), ~(i < j)
  PROVE  LET e == qsort_swap(d, i, r.right - 1)
         IN /\ Within(n, d, e, r.left, r.right)
            /\ \A p \in r.left..i, q \in i..r.right : key[e[p]] <= key[e[q]]
<1> DEFINE l == r.left
           u == r.right
           a == r.i
           b == r.j
           v == u - 1
           e == qsort_swap(d, i, v)
           pivot == Key(d, v)
<1>1. /\ l \in Nat /\ u \in Nat /\ a \in Nat /\ b \in Nat /\ v \in Int /\ v + 1 = u
      /\ u < n /\ l + 2 <= u /\ l <= a /\ a < b /\ b <= v
  <2>1. l \in Nat /\ u \in Nat /\ a \in Nat /\ b \in Nat
    BY DEF Parting
  <2>2. u < n /\ l + 2 <= u /\ l <= a /\ a < b /\ b <= v
    BY DEF Parting
  <2>3. v \in Int /\ v + 1 = u
    <3> HIDE DEF u
    <3> QED
      BY <2>1
  <2> QED
    BY <2>1, <2>2, <2>3
<1>1a. /\ \A k \in l..a : Key(d, k) <= pivot
       /\ \A k \in b..u : pivot <= Key(d, k)
  BY DEF Parting, Key
<1>2. /\ i \in (a + 1)..v /\ Key(d, i) >= pivot
      /\ \A k \in (a + 1)..(i - 1) : Key(d, k) <= pivot
      /\ j \in a..(b - 1)
      /\ \A k \in (j + 1)..(b - 1) : Key(d, k) >= pivot
  BY DEF Stops
<1>3. \A k \in 0..(n - 1) : Key(d, k) \in Int
  BY DEF Key
<1> HIDE DEF l, u, a, b, v, e, pivot
<1>4. /\ l \in 0..(n - 1) /\ u \in 0..(n - 1) /\ i \in l..u /\ v \in l..u
      /\ i \in Nat /\ j \in Nat /\ v \in 0..(n - 1) /\ j <= i /\ i \in 0..(n - 1)
  BY <1>1, <1>2
<1>5. /\ e \in [0..(n - 1) -> 1..n] /\ e[i] = d[v] /\ e[v] = d[i]
      /\ \A k \in 0..(n - 1) : k # i /\ k # v => e[k] = d[k]
      /\ Within(n, d, e, l, u)
  BY <1>4, SwapIs DEF e
<1>6. /\ key[e[i]] = pivot /\ key[e[v]] = Key(d, i)
      /\ \A k \in 0..(n - 1) : k # i /\ k # v => key[e[k]] = Key(d, k)
      /\ \A k \in 0..(n - 1) : key[e[k]] \in Int
  <2>1. \A k \in 0..(n - 1) : e[k] \in 1..n
    BY <1>5
  <2> QED
    BY <1>4, <1>5, <2>1 DEF Key, pivot
<1>7. pivot \in Int
  BY <1>3, <1>4 DEF pivot
<1>8. \A k \in l..i : key[e[k]] <= pivot
  <2> SUFFICES ASSUME NEW k \in l..i PROVE key[e[k]] <= pivot
    OBVIOUS
  <2>1. k = i \/ k \in l..a \/ k \in (a + 1)..(i - 1)
    BY <1>1, <1>2
  <2>2. k # i => k # v /\ k \in 0..(n - 1)
    BY <1>1, <1>2, <1>4
  <2>3. k # i => Key(d, k) <= pivot
    BY <1>1a, <1>2, <2>1
  <2> QED
    BY <1>6, <1>7, <2>2, <2>3
<1>9. \A k \in i..u : pivot <= key[e[k]]
  <2> SUFFICES ASSUME NEW k \in i..u PROVE pivot <= key[e[k]]
    OBVIOUS
  <2>1. k = i \/ k = v \/ k \in b..u \/ k \in (j + 1)..(b - 1)
    BY <1>1, <1>2, <1>4
  <2>2. k \in 0..(n - 1)
    BY <1>1, <1>4
  <2>3. Key(d, k) \in Int /\ Key(d, i) \in Int
    BY <1>3, <1>4, <2>2
  <2>4. k # i /\ k # v => pivot <= Key(d, k)
    BY <1>1a, <1>2, <1>7, <2>1, <2>3
  <2>5. pivot <= Key(d, i)
    BY <1>2, <1>7, <2>3
  <2> QED
    BY <1>6, <1>7, <2>2, <2>4, <2>5
<1>10. ASSUME NEW p \in l..i, NEW q \in i..u PROVE key[e[p]] <= key[e[q]]
  <2>1. p \in 0..(n - 1) /\ q \in 0..(n - 1)
    BY <1>1, <1>4
  <2>2. key[e[p]] \in Int /\ key[e[q]] \in Int /\ key[e[p]] <= pivot /\ pivot <= key[e[q]]
    BY <1>6, <1>8, <1>9, <2>1
  <2> QED
    BY <1>7, <2>2
<1> QED
  BY <1>5, <1>10 DEF e, l, u, v

-----------------------------------------------------------------------------
(* The invariant.                                                          *)

SortKeys == UNION {[1..n -> Keys] : n \in 2..MaxElements}

Pending(st, r) == IF r = NoRange THEN st ELSE Append(st, [left |-> r.left, right |-> r.right])

SortedSoFar(K, d, st, r) ==
  /\ K \in SortKeys /\ Arranged(Len(K), d) /\ st \in Seq(Spans)
  /\ r # NoRange => Parting(Len(K), K, d, r)
  /\ Ranges(Len(K), Pending(st, r)) /\ Settled(Len(K), K, d, Pending(st, r))

SortInv == SortedSoFar(key, elements, stack, range) /\ ~outside

LEMMA KeysAre ==
  ASSUME NEW K \in SortKeys
  PROVE  Len(K) \in Nat /\ Len(K) >= 2 /\ K \in [1..Len(K) -> Int]
<1>1. PICK n \in 2..MaxElements : K \in [1..n -> Keys]
  BY DEF SortKeys
<1>2. n \in Nat /\ n >= 2
  BY <1>1, SortingAssumption
<1>3. K \in Seq(Keys) /\ Len(K) = n
  BY <1>1, <1>2
<1> QED
  BY <1>1, <1>2, <1>3, SortingAssumption

LEMMA SortStarts == SortInit => SortInv
<1> SUFFICES ASSUME SortInit PROVE SortInv
  OBVIOUS
<1> DEFINE n == Len(key)
           x == [left |-> 0, right |-> n - 1]
<1>1. key \in SortKeys
  BY DEF SortInit, SortKeys
<1>2. n \in Nat /\ n >= 2
  BY <1>1, KeysAre
<1>3. elements = [k \in 0..(n - 1) |-> k + 1] /\ stack = <<x>> /\ range = NoRange /\ ~outside
  BY DEF SortInit, nmemb
<1> HIDE DEF n
<1>4. Arranged(n, elements)
  <2>1. \A v \in 1..n : v - 1 \in 0..(n - 1) /\ elements[v - 1] = v
    BY <1>2, <1>3
  <2>2. elements \in [0..(n - 1) -> 1..n]
    BY <1>2, <1>3
  <2> QED
    BY <2>1, <2>2 DEF Arranged
<1>5. x \in Spans /\ x.left = 0 /\ x.right = n - 1
  BY <1>2 DEF Spans
<1> HIDE DEF x
<1>6. stack \in Seq(Spans) /\ Len(stack) = 1 /\ stack[1] = x
  BY <1>3, <1>5
<1>7. Ranges(n, stack)
  <2>1. \A a \in 1..Len(stack) : a = 1 /\ a - 1 = 0
    BY <1>6
  <2>2. Pow(0) * (x.right - x.left + 1) <= n
    <3>1. Pow(0) = 1
      BY PowIs
    <3> QED
      BY <1>2, <1>5, <3>1
  <2>3. \A a \in 1..Len(stack) : /\ stack[a].left < stack[a].right /\ stack[a].right < n
                                 /\ Pow(a - 1) * (stack[a].right - stack[a].left + 1) <= n
    BY <1>2, <1>5, <1>6, <2>1, <2>2
  <2> QED
    BY <1>6, <2>1, <2>3 DEF Ranges
<1>8. Settled(n, key, elements, stack)
  <2>1. \A p \in 0..(n - 1), q \in 0..(n - 1) : Together(stack, p, q)
    BY <1>2, <1>5, <1>6 DEF Together
  <2> QED
    BY <2>1 DEF Settled
<1> QED
  BY <1>1, <1>3, <1>4, <1>6, <1>7, <1>8 DEF SortInv, SortedSoFar, Pending, n
LEMMA NothingPushed ==
  ASSUME NEW l, NEW r
  PROVE  Divides(<<>>, l, r)
<1>1. <<>> \in Seq(Spans) /\ Len(<<>>) = 0
  BY EmptySeq
<1> QED
  BY <1>1 DEF Divides

LEMMA PartingIs ==
  ASSUME NEW n \in Nat, NEW K, NEW d, NEW r, Parting(n, K, d, r)
  PROVE  r # NoRange /\ [left |-> r.left, right |-> r.right] \in Spans
         /\ r.left \in Nat /\ r.right \in Nat /\ r.right < n /\ r.left < r.right
BY DEF Parting, NoRange, Spans

LEMMA PopKeeps ==
  ASSUME SortInv, Pop
  PROVE  SortInv'
<1> DEFINE n == Len(key)
           d == elements
           st == stack
           r == st[Len(st)]
           t == SubSeq(st, 1, Len(st) - 1)
<1>1. /\ key \in SortKeys /\ Arranged(n, d) /\ st \in Seq(Spans) /\ st # <<>>
      /\ range = NoRange /\ Ranges(n, st) /\ Settled(n, key, d, st)
  BY DEF SortInv, SortedSoFar, Pending, Pop
<1>2. n \in Nat /\ n >= 2 /\ key \in [1..n -> Int]
  BY <1>1, KeysAre
<1>3. /\ stack' = t /\ key' = key /\ outside' = outside /\ ~outside
      /\ IF r.right - r.left + 1 <= InsertionLength
           THEN elements' = qsort_insertion(elements, r.left, r.right) /\ range' = range
           ELSE /\ elements' = MedianOfThree(elements, r.left, r.right)
                /\ range' = [left |-> r.left, right |-> r.right,
                             i |-> r.left, j |-> r.right - 1]
  BY DEF Pop, SortInv
<1> HIDE DEF n, d, st
<1>4. /\ t \in Seq(Spans) /\ r \in Spans /\ st = Append(t, r)
      /\ Len(st) \in 1..Len(st)
  <2>1. Len(st) \in Nat \ {0}
    BY <1>1, EmptySeq
  <2> QED
    BY <1>1, <2>1, LastIs
<1>5. d \in [0..(n - 1) -> 1..n]
  BY <1>1 DEF Arranged
<1>6. r.left \in Nat /\ r.right \in Nat /\ r.left < r.right /\ r.right < n
  BY <1>1, <1>4 DEF Ranges, Spans
<1> HIDE DEF r, t
<1>7. r.left \in 0..(n - 1) /\ r.right \in 0..(n - 1) /\ r.left <= r.right
  BY <1>2, <1>6
<1>8. ASSUME NEW e, Within(n, d, e, r.left, r.right)
      PROVE  Arranged(n, e) /\ Settled(n, key, e, st)
  <2>1. Arranged(n, e)
    BY <1>1, <1>2, <1>7, <1>8, WithinArranged
  <2>2. Within(n, d, e, st[Len(st)].left, st[Len(st)].right)
    BY <1>8 DEF r
  <2>3. Settled(n, key, e, st)
    BY <1>1, <1>2, <1>4, <2>2, WithinSettled
  <2> QED
    BY <2>1, <2>3
<1>9. CASE r.right - r.left + 1 <= InsertionLength
  <2> DEFINE e == qsort_insertion(d, r.left, r.right)
  <2>1. elements' = e /\ range' = NoRange
    BY <1>1, <1>3, <1>9 DEF d
  <2>2. /\ Within(n, d, e, r.left, r.right)
        /\ \A p \in r.left..r.right, q \in r.left..r.right : p < q => key[e[p]] <= key[e[q]]
    BY <1>2, <1>5, <1>7, InsertionIs
  <2> HIDE DEF e
  <2>3. Arranged(n, e) /\ Settled(n, key, e, Append(t, r))
    BY <1>4, <1>8, <2>2
  <2>4. \A p \in 0..(n - 1), q \in 0..(n - 1) :
          r.left <= p /\ p < q /\ q <= r.right => key[e[p]] <= key[e[q]]
    BY <1>6, <2>2
  <2>5. <<>> \in Seq(Spans) /\ t \o <<>> = t
    BY <1>4, EmptySeq, ConcatEmptySeq
  <2>6. Settled(n, key, e, t \o <<>>)
    BY <1>2, <1>4, <2>3, <2>4, <2>5, PartsSettled
  <2>7. Ranges(n, t \o <<>>)
    BY <1>1, <1>2, <1>4, NothingPushed, PartsRanges
  <2>8. SortedSoFar(key, e, t, NoRange)
    BY <1>1, <1>4, <2>3, <2>5, <2>6, <2>7 DEF SortedSoFar, Pending, n
  <2> QED
    BY <1>3, <2>1, <2>8 DEF SortInv
<1>10. CASE ~(r.right - r.left + 1 <= InsertionLength)
  <2> DEFINE e == MedianOfThree(d, r.left, r.right)
             x == [left |-> r.left, right |-> r.right, i |-> r.left, j |-> r.right - 1]
  <2>1. elements' = e /\ range' = x
    BY <1>3, <1>10 DEF d
  <2>2. r.left + 2 <= r.right
    BY <1>6, <1>10, SortingAssumption
  <2>3. Within(n, d, e, r.left, r.right) /\ Key(e, r.left) <= Key(e, r.right - 1)
        /\ Key(e, r.right - 1) <= Key(e, r.right)
    BY <1>2, <1>5, <1>7, <2>2, MedianIs
  <2>4. /\ x \in [left : Nat, right : Nat, i : Nat, j : Nat] /\ x.left = r.left
        /\ x.right = r.right /\ x.i = r.left /\ x.j = r.right - 1
    BY <1>6
  <2>5. [left |-> x.left, right |-> x.right] = r
    BY <1>4 DEF Spans
  <2> HIDE DEF e, x
  <2>6. Arranged(n, e) /\ Settled(n, key, e, st)
    BY <1>8, <2>3
  <2>7. Parting(n, key, e, x)
    <3>1. \A k \in 0..(n - 1) : key[e[k]] \in Int
      BY <1>2, <2>6 DEF Arranged
    <3>2. key[e[r.right - 1]] \in Int
      <4>1. r.right - 1 \in 0..(n - 1)
        BY <1>2, <1>6
      <4> QED
        BY <3>1, <4>1
    <3>3. /\ \A k \in r.left..r.left : key[e[k]] <= key[e[r.right - 1]]
          /\ \A k \in (r.right - 1)..r.right : key[e[r.right - 1]] <= key[e[k]]
      <4>1. \A k \in r.left..r.left : k = r.left
        BY <1>6
      <4>2. \A k \in (r.right - 1)..r.right : k = r.right - 1 \/ k = r.right
        BY <1>6
      <4> QED
        BY <2>3, <3>2, <4>1, <4>2 DEF Key
    <3> QED
      BY <1>6, <2>2, <2>4, <3>3 DEF Parting
  <2>8. x # NoRange
    BY <1>2, <2>7, PartingIs
  <2>9. Pending(t, x) = st
    BY <1>4, <2>5, <2>8 DEF Pending
  <2>10. SortedSoFar(key, e, t, x)
    BY <1>1, <1>4, <2>6, <2>7, <2>9 DEF SortedSoFar, n
  <2> QED
    BY <1>3, <2>1, <2>10 DEF SortInv
<1> QED
  BY <1>9, <1>10

LEMMA ScanKeeps ==
  ASSUME SortInv, Scan
  PROVE  SortInv'
<1> DEFINE n == Len(key)
           d == elements
           st == stack
           r == range
           x == [left |-> r.left, right |-> r.right]
           rs == Append(st, x)
           pivot == Key(d, r.right - 1)
           up == {k \in (r.i + 1)..(n - 1) : Key(d, k) >= pivot}
           down == {k \in 0..(r.j - 1) : Key(d, k) <= pivot}
           i == CHOOSE k \in up : \A m \in up : k <= m
           j == CHOOSE k \in down : \A m \in down : k >= m
<1>1. /\ key \in SortKeys /\ Arranged(n, d) /\ st \in Seq(Spans) /\ r # NoRange
      /\ Parting(n, key, d, r) /\ Ranges(n, rs) /\ Settled(n, key, d, rs) /\ ~outside
  BY DEF SortInv, SortedSoFar, Pending, Scan
<1>2. n \in Nat /\ n >= 2 /\ key \in [1..n -> Int]
  BY <1>1, KeysAre
<1>3. d \in [0..(n - 1) -> 1..n]
  BY <1>1 DEF Arranged
<1>4. up # {} /\ down # {} /\ Stops(n, d, r, i, j)
  <2> HIDE DEF n, d, r
  <2> QED
    BY <1>1, <1>2, <1>3, ScansStop
<1>5. /\ key' = key /\ outside' = (outside \/ i > r.right \/ j < r.left)
      /\ i < j => /\ elements' = qsort_swap(d, i, j)
                  /\ range' = [r EXCEPT !.i = i, !.j = j]
                  /\ stack' = st
      /\ ~(i < j) => /\ elements' = qsort_swap(d, i, r.right - 1)
                     /\ range' = NoRange
                     /\ stack' = st \o PushedFor(r.left, i, r.right)
  <2>1. ~(up = {} \/ down = {})
    BY <1>4
  <2> QED
    BY <2>1 DEF Scan, Longer, PushedFor, nmemb
<1> HIDE DEF n, d, st, r, i, j, up, down, pivot
<1>6. /\ r.left \in Nat /\ r.right \in Nat /\ r.right < n /\ r.left < r.right
      /\ x \in Spans /\ x.left = r.left /\ x.right = r.right
  BY <1>1, <1>2, PartingIs
<1>7. i \in Nat /\ j \in Nat /\ r.left < i /\ i < r.right /\ r.left <= j
  <2>1. i \in (r.i + 1)..(r.right - 1) /\ j \in r.i..(r.j - 1)
    BY <1>4 DEF Stops
  <2>2. r.i \in Nat /\ r.left <= r.i
    BY <1>1 DEF Parting
  <2> QED
    BY <1>6, <2>1, <2>2
<1>8. ~outside'
  <2>1. ~(i > r.right \/ j < r.left)
    BY <1>6, <1>7
  <2> QED
    BY <1>1, <1>5, <2>1, Zenon
<1>9. Len(st) + 1 \in 1..Len(rs) /\ rs[Len(st) + 1] = x
  <2> HIDE DEF x
  <2> QED
    BY <1>1, <1>6, AppendIs
<1> HIDE DEF x, rs
<1>10. ASSUME NEW e, Within(n, d, e, r.left, r.right)
       PROVE  Arranged(n, e) /\ Settled(n, key, e, rs)
  <2>1. Arranged(n, e)
    <3>1. r.left \in 0..(n - 1) /\ r.right \in 0..(n - 1)
      BY <1>2, <1>6
    <3> QED
      BY <1>1, <1>2, <1>10, <3>1, WithinArranged
  <2>2. Within(n, d, e, rs[Len(st) + 1].left, rs[Len(st) + 1].right)
    BY <1>6, <1>9, <1>10
  <2>3. Settled(n, key, e, rs)
    BY <1>1, <1>2, <1>9, <2>2, WithinSettled
  <2> QED
    BY <2>1, <2>3
<1>11. CASE i < j
  <2> DEFINE e == qsort_swap(d, i, j)
             s == [r EXCEPT !.i = i, !.j = j]
  <2>1. elements' = e /\ range' = s /\ stack' = st
    BY <1>5, <1>11
  <2>2. Within(n, d, e, r.left, r.right) /\ Parting(n, key, e, s)
    BY <1>1, <1>2, <1>3, <1>4, <1>11, ScansGoOn
  <2>3. s.left = r.left /\ s.right = r.right
    BY <1>1 DEF Parting
  <2> HIDE DEF e, s
  <2>4. Arranged(n, e) /\ Settled(n, key, e, rs)
    BY <1>10, <2>2
  <2>5. s # NoRange
    BY <1>2, <2>2, PartingIs
  <2>6. Pending(st, s) = rs
    BY <2>3, <2>5 DEF Pending, rs, x
  <2>7. SortedSoFar(key, e, st, s)
    BY <1>1, <2>2, <2>4, <2>6 DEF SortedSoFar, n
  <2> QED
    BY <1>5, <1>8, <2>1, <2>7 DEF SortInv
<1>12. CASE ~(i < j)
  <2> DEFINE e == qsort_swap(d, i, r.right - 1)
             new == PushedFor(r.left, i, r.right)
  <2>1. elements' = e /\ range' = NoRange /\ stack' = st \o new
    BY <1>5, <1>12
  <2>2. /\ Within(n, d, e, r.left, r.right)
        /\ \A p \in r.left..i, q \in i..r.right : key[e[p]] <= key[e[q]]
    BY <1>1, <1>2, <1>3, <1>4, <1>12, ScansMeet
  <2>3. /\ Divides(new, r.left, r.right)
        /\ \A p \in Nat, q \in Nat :
             r.left <= p /\ p < q /\ q <= r.right /\ (q < i \/ i < p) => Together(new, p, q)
    BY <1>6, <1>7, PushedIs
  <2> HIDE DEF e, new
  <2>4. Arranged(n, e) /\ Settled(n, key, e, rs)
    BY <1>10, <2>2
  <2>5. new \in Seq(Spans)
    BY <2>3 DEF Divides
  <2>6. \A p \in 0..(n - 1), q \in 0..(n - 1) :
          x.left <= p /\ p < q /\ q <= x.right => key[e[p]] <= key[e[q]] \/ Together(new, p, q)
    <3> SUFFICES ASSUME NEW p \in 0..(n - 1), NEW q \in 0..(n - 1),
                        x.left <= p, p < q, q <= x.right
                 PROVE  key[e[p]] <= key[e[q]] \/ Together(new, p, q)
      OBVIOUS
    <3>1. r.left <= p /\ q <= r.right /\ p \in Nat /\ q \in Nat
      BY <1>6
    <3>2. CASE q < i \/ i < p
      BY <2>3, <3>1, <3>2
    <3>3. CASE ~(q < i \/ i < p)
      <4>1. p \in r.left..i /\ q \in i..r.right
        BY <1>6, <1>7, <3>1, <3>3
      <4> QED
        BY <2>2, <4>1
    <3> QED
      BY <3>2, <3>3
  <2>7. Settled(n, key, e, st \o new)
    <3>1. Settled(n, key, e, Append(st, x))
      BY <2>4 DEF rs
    <3> QED
      BY <1>1, <1>2, <1>6, <2>5, <2>6, <3>1, PartsSettled
  <2>8. Ranges(n, st \o new)
    <3>1. Ranges(n, Append(st, x)) /\ Divides(new, x.left, x.right)
      BY <1>1, <1>6, <2>3 DEF rs
    <3> QED
      BY <1>1, <1>2, <1>6, <3>1, PartsRanges
  <2>9. st \o new \in Seq(Spans)
    BY <1>1, <2>5, ConcatProperties
  <2>10. SortedSoFar(key, e, st \o new, NoRange)
    BY <1>1, <2>4, <2>7, <2>8, <2>9 DEF SortedSoFar, Pending, n
  <2> QED
    BY <1>5, <1>8, <2>1, <2>10 DEF SortInv
<1> QED
  BY <1>11, <1>12

LEMMA SortStep ==
  ASSUME SortInv, [SortNext]_sortVars
  PROVE  SortInv'
<1>1. CASE Pop
  BY <1>1, PopKeeps
<1>2. CASE Scan
  BY <1>2, ScanKeeps
<1>3. CASE UNCHANGED sortVars
  BY <1>3 DEF sortVars, SortInv
<1> QED
  BY <1>1, <1>2, <1>3 DEF SortNext

LEMMA SortedAtLast ==
  ASSUME SortInv
  PROVE  ListingIsSorted
<1> DEFINE n == Len(key)
<1>1. /\ key \in SortKeys /\ Arranged(n, elements) /\ stack \in Seq(Spans) /\ ~outside
      /\ Ranges(n, Pending(stack, range)) /\ Settled(n, key, elements, Pending(stack, range))
      /\ range # NoRange => Parting(n, key, elements, range)
  BY DEF SortInv, SortedSoFar
<1>2. n \in Nat /\ n >= 2 /\ key \in [1..n -> Int]
  BY <1>1, KeysAre
<1> HIDE DEF n
<1>3. {elements[k] : k \in DOMAIN elements} = 1..n
  <2>1. /\ elements \in [0..(n - 1) -> 1..n]
        /\ \A v \in 1..n : \E k \in 0..(n - 1) : elements[k] = v
    BY <1>1 DEF Arranged
  <2> QED
    BY <2>1
<1>4. ASSUME stack # <<>> PROVE Pow(Len(stack) - 1) <= n
  <2> DEFINE m == Len(stack)
             rs == Pending(stack, range)
  <2>1. m \in Nat /\ m >= 1
    BY <1>1, <1>4, EmptySeq
  <2>2. m \in 1..Len(rs) /\ rs[m] \in Spans
    <3>1. CASE range = NoRange
      BY <1>1, <2>1, <3>1, ElementOfSeq DEF Pending
    <3>2. CASE range # NoRange
      <4> DEFINE x == [left |-> range.left, right |-> range.right]
      <4>1. x \in Spans /\ rs = Append(stack, x)
        BY <1>1, <1>2, <3>2, PartingIs DEF Pending
      <4> HIDE DEF x, rs
      <4>2. Len(rs) = m + 1 /\ rs[m] = stack[m]
        BY <1>1, <2>1, <4>1, AppendIs
      <4>3. stack[m] \in Spans
        BY <1>1, <2>1, ElementOfSeq
      <4> QED
        BY <2>1, <4>2, <4>3
    <3> QED
      BY <3>1, <3>2
  <2>3. rs[m].left < rs[m].right /\ Pow(m - 1) * (rs[m].right - rs[m].left + 1) <= n
    BY <1>1, <2>2 DEF Ranges
  <2> DEFINE w == Pow(m - 1)
             s == rs[m].right - rs[m].left + 1
  <2>4. s \in Nat /\ 1 <= s /\ w * s <= n
    BY <2>2, <2>3 DEF Spans
  <2>5. w \in Nat
    <3>1. m - 1 \in Nat
      BY <2>1
    <3> QED
      BY <3>1, PowIs
  <2> HIDE DEF w, s
  <2>6. w * 1 <= w * s /\ w * 1 = w /\ w * s \in Nat
    BY <2>4, <2>5, Product
  <2>7. w <= n
    BY <1>2, <2>4, <2>5, <2>6
  <2> QED
    BY <2>7 DEF w
<1>5. ASSUME stack = <<>>, range = NoRange
      PROVE  \A k \in 1..(n - 1) : Key(elements, k - 1) <= Key(elements, k)
  <2>1. Settled(n, key, elements, <<>>)
    BY <1>1, <1>5 DEF Pending
  <2>2. \A p, q : ~Together(<<>>, p, q)
    BY DEF Together
  <2>3. \A k \in 1..(n - 1) : k - 1 \in 0..(n - 1) /\ k \in 0..(n - 1) /\ k - 1 < k
    BY <1>2
  <2> QED
    BY <2>1, <2>2, <2>3 DEF Settled, Key
<1> QED
  BY <1>1, <1>3, <1>4, <1>5 DEF ListingIsSorted, Pow, nmemb, n

-----------------------------------------------------------------------------
(* Theorems.                                                               *)

LEMMA PartsStep ==
  ASSUME MCNext
  PROVE  [Next]_vars /\ [DirNext]_dirVars
BY DEF MCNext

\* Whatever calls come, and wherever a power cut stops one, the slot of the entry that a
\* part of a long name belongs to, as its number says, is in its sector; a part that
\* was deleted is followed by other such parts and then by the slot of the entry, which
\* was deleted with it and which no writer takes before them (writers take the first free
\* slots of a run); and what an open directory has still to read is ahead of it.
THEOREM DirectoryInvariant == MCSpec => []DirInv
<1> DEFINE allVars == <<part, vars, dirVars, volumeVars, sortVars, attrVars>>
<1>1. MCInit => DirInv
  BY DirStarts DEF MCInit
<1>2. DirInv /\ [MCNext]_allVars => DirInv'
  <2> SUFFICES ASSUME DirInv, [MCNext]_allVars PROVE DirInv'
    OBVIOUS
  <2>1. [DirNext]_dirVars
    BY PartsStep
  <2>2. CASE DirNext
    BY <2>2, DirSteps
  <2>3. CASE UNCHANGED dirVars
    <3>1. dir' = dir /\ stream' = stream /\ cuts' = cuts
      BY <2>3 DEF dirVars
    <3> QED
      BY <3>1 DEF DirInv
  <2> QED
    BY <2>1, <2>2, <2>3
<1> QED
  BY <1>1, <1>2, PTL DEF MCSpec

LEMMA DirInvTypes ==
  ASSUME DirInv
  PROVE  DirTypeOK
<1>1. dir \in [Slots -> SlotValues] /\ \A i \in Slots : LaidSlot(dir, i)
  BY DEF DirInv, Laid
<1>2. \A i \in Slots : dir[i] \in
        {End, Deleted}
          \cup {Short(a, f, t) : a \in Aliases, f \in Chains, t \in {"file", "directory"}}
          \cup {Long(n, o) : n \in Names, o \in 1..Max(Range(lfn_entry_count))}
          \cup {Erased(Long(n, 1)) : n \in Names}
  BY <1>1 DEF SlotValues
<1>3. stream.at \in 0..Max(Slots) /\ cuts \in 0..MaxCuts
  BY DEF DirInv, Ahead
<1>4. \A i \in Slots : dir[i].kind = "long" =>
        /\ dir[i].order <= lfn_entry_count[dir[i].name]
        /\ i + dir[i].order \in Slots /\ SectorOf(i + dir[i].order) = SectorOf(i)
  BY <1>1 DEF LaidSlot
<1> QED
  BY <1>2, <1>3, <1>4 DEF DirTypeOK

\* The file's variables and the directory's have their types, and what a part of a long
\* name says of its entry's place is so.
THEOREM FilesAndDirectoriesAreTyped == MCSpec => []FilesTypeOK
<1> DEFINE allVars == <<part, vars, dirVars, volumeVars, sortVars, attrVars>>
<1>1. MCInit => Init
  BY DEF MCInit
<1>2. [MCNext]_allVars => [Next]_vars
  BY PartsStep
<1>3. MCSpec => Spec
  BY <1>1, <1>2, PTL DEF MCSpec, Spec
<1>4. DirInv => DirTypeOK
  BY DirInvTypes
<1> QED
  BY <1>3, <1>4, DirectoryInvariant, FilesAreTyped, PTL DEF FilesTypeOK

\* What put, mkdir, unlink, rmdir and rename do, complete or cut short at any of their
\* accesses: a new file is found and listed by its name and has the old one's
\* attribute, and no other entry a search reached is changed, renamed or hidden.
THEOREM DirectoryAlwaysKeeps == MCSpec => DirectoryKeeps
<1> DEFINE allVars == <<part, vars, dirVars, volumeVars, sortVars, attrVars>>
           made == dir' # dir /\ cuts' = cuts => \A i \in Shorts(dir') \ Shorts(dir) :
                     i > 1 /\ dir'[i - 1] # dir[i - 1] =>
                       LET n == dir'[i - 1].name
                           before == i - lfn_entry_count[n] - 1
                       IN \/ i \notin Visible(dir')
                          \/ before \in Slots /\ HasLongAttribute(dir'[before])
                          \/ /\ n \in FoundBy(dir', i) /\ d_name(dir', i) = n
                             /\ \A j \in Shorts(dir) \ Shorts(dir') : dir[j].attr = dir'[i].attr
           kept == dir' # dir =>
                     /\ Cardinality(Shorts(dir) \ Shorts(dir')) <= 1
                     /\ \A i \in Visible(dir) \cap Shorts(dir') :
                          /\ i \in Visible(dir') /\ dir'[i] = dir[i]
                          /\ d_name(dir', i) = d_name(dir, i)
<1>1. ASSUME DirInv, DirNext PROVE made /\ kept
  <2>1. dir' = dir \/ Outcome
    BY <1>1, DirSteps
  <2>2. CASE dir' = dir
    BY <2>2
  <2>3. CASE Outcome
    <3>1. cuts' = cuts => Created(dir, dir')
      <4>1. CutCall => cuts' # cuts
        <5>1. cuts \in 0..MaxCuts /\ MaxCuts \in Nat
          BY <1>1, DirectoryAssumption DEF DirInv
        <5> QED
          BY <5>1 DEF CutCall
      <4> QED
        BY <2>3, <4>1 DEF Outcome
    <3>2. made
      BY <3>1 DEF Created
    <3>3. Changes(dir, dir')
      BY <2>3 DEF Outcome
    <3>4. kept
      BY <3>3, ChangesKeep
    <3> QED
      BY <3>2, <3>4
  <2> QED
    BY <2>1, <2>2, <2>3
<1>2. [MCNext]_allVars => [DirNext]_dirVars
  BY PartsStep
<1>3. DirInv /\ [MCNext]_allVars => [made]_dirVars /\ [kept]_dirVars
  <2> HIDE DEF made, kept, allVars
  <2> QED
    BY <1>1, <1>2
<1>4. MCSpec => [][made]_dirVars /\ [][kept]_dirVars
  <2> HIDE DEF made, kept
  <2> QED
    BY <1>3, DirectoryInvariant, PTL DEF MCSpec
<1> QED
  BY <1>4 DEF DirectoryKeeps, CreatedIsFound, OthersKept

\* However many keys are equal, no scan of qsort leaves its range, nothing is lost or
\* doubled, the stack holds no more than one range for each halving, and at the end the
\* elements are in order.  While it runs, two elements out of order are in a range that is
\* still to sort, and a range with k below it is no longer than the listing divided by 2^k.
THEOREM ListingsAreSorted == MCSpec => []ListingIsSorted
<1> DEFINE allVars == <<part, vars, dirVars, volumeVars, sortVars, attrVars>>
<1>1. MCInit => SortInv
  BY SortStarts DEF MCInit
<1>2. SortInv /\ [MCNext]_allVars => SortInv'
  <2>1. [MCNext]_allVars => [SortNext]_sortVars
    BY DEF MCNext
  <2> QED
    BY <2>1, SortStep
<1>3. SortInv => ListingIsSorted
  BY SortedAtLast
<1> QED
  BY <1>1, <1>2, <1>3, PTL DEF MCSpec

\* The rules by which calls, listings and the shell join the parts of a long name agree
\* in every directory the calls leave: an entry is found by the name it is listed under,
\* a listing that ends has read all that stayed, the shell shows no name that leads
\* elsewhere and shows them in order, and findfile knows the names the calls know; it
\* gives their entry, one whose alias has the same checksum, or, of a directory, the
\* entry inside it with its name.
THEOREM SearchesAlwaysAgree == MCSpec => []SearchesAgree
<1>1. DirInv /\ ListingIsSorted => SearchesAgree
  <2> SUFFICES ASSUME DirInv, ListingIsSorted PROVE SearchesAgree
    OBVIOUS
  <2>1. Laid(dir)
    BY DEF DirInv
  <2> QED
    BY <2>1, ListingsTellTheSame, SearchesFindTheSame DEF SearchesAgree
<1> QED
  BY <1>1, DirectoryInvariant, ListingsAreSorted, PTL
=============================================================================
