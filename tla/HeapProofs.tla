----------------------------- MODULE HeapProofs -----------------------------
(***************************************************************************)
(* Theorems about Heap, for every size of the heap and of the machine and  *)
(* every set of requests that cannot make a counter wrap around.           *)
(***************************************************************************)
EXTENDS Heap, TLAPS, FiniteSetTheorems, WellFoundedInduction

first_position == HEAP_START + PAGE_SIZE + ALLOC_SIZE_HEADER

\* Where the latest block ends.
End(i) == blocks[i].addr + blocks[i].size

Numbers ==
    /\ heap_current \in Nat
    /\ heap_last_position \in Nat
    /\ heap_last_size \in Nat
    /\ heap_last_size_alloc \in 0 .. MaxRequest
    /\ heap_alloc_available \in Addresses
    /\ panicked \in BOOLEAN
    /\ header \in [Addresses -> Headers]
    /\ blocks \in Seq(Blocks)

\* heap_last_position is where the latest block ends, and what is said to remain
\* is at least the rest of the heap and the block that has not been counted.
Positions ==
    /\ heap_last_position = heap_current + heap_last_size_alloc
    /\ first_position <= heap_current
    /\ heap_current < HEAP_END
    /\ heap_last_size + heap_last_position >=
          HEAP_END + PAGE_SIZE + ALLOC_SIZE_HEADER + heap_last_size_alloc
    /\ ~panicked => heap_last_size <= heap_size
                    /\ heap_alloc_available < physical_memory
    /\ heap_last_size < Word

\* Each block ends before the header of the next one and inside the heap, but
\* for the latest, which ends where heap_last_position says.
Layout ==
    /\ \A i \in DOMAIN blocks :
          /\ first_position + ALLOC_SIZE_HEADER <= blocks[i].addr
          /\ blocks[i].addr < HEAP_END
          /\ End(i) <= heap_last_position
    /\ \A i, j \in DOMAIN blocks :
          i < j => End(i) + ALLOC_SIZE_HEADER <= blocks[j].addr

IInv == Numbers /\ Positions /\ Layout

-----------------------------------------------------------------------------
\* A number below the modulus is its own remainder.
LEMMA NoWrap ==
    ASSUME NEW n \in Nat, NEW m \in Nat, n < m
    PROVE  n % m = n
OBVIOUS

LEMMA PlusExact ==
    ASSUME NEW x \in Nat, NEW y \in Nat, Word \in Nat, x + y < Word
    PROVE  Plus(x, y) = x + y
BY NoWrap DEF Plus

LEMMA MinusExact ==
    ASSUME NEW x \in Nat, NEW y \in Nat, Word \in Nat, x < Word, y <= x
    PROVE  Minus(x, y) = x - y
<1>1. x - y \in Nat /\ x - y < Word
  OBVIOUS
<1> QED BY <1>1, NoWrap DEF Minus

\* A counter stays an unsigned long whatever is added or taken off.
LEMMA CounterType ==
    ASSUME Word \in Nat \ {0}, NEW x \in Int, NEW y \in Int
    PROVE  Plus(x, y) \in Addresses /\ Minus(x, y) \in Addresses
BY DEF Plus, Minus, Addresses

-----------------------------------------------------------------------------
(* One step of the heap.                                                   *)

LEMMA Constants ==
    /\ HEAP_START \in Nat /\ PAGE_SIZE \in Nat /\ HEAP_END \in Nat
    /\ ALLOC_SIZE_HEADER \in Nat /\ ALLOC_SIZE_HEADER >= 1
    /\ physical_memory \in Nat /\ MaxRequest \in Nat /\ Word \in Nat \ {0}
    /\ first_position \in Nat /\ first_position < HEAP_END
    /\ HEAP_START <= first_position
    /\ heap_size \in Nat /\ heap_size <= HEAP_END
    /\ HEAP_END + MaxRequest < Word
BY HeapAssumption DEF first_position, heap_size

LEMMA BlockType ==
    ASSUME Numbers, NEW i \in DOMAIN blocks
    PROVE  /\ blocks[i].addr \in Addresses /\ blocks[i].addr \in Nat
           /\ blocks[i].size \in Nat /\ End(i) \in Nat
<1>1. blocks[i] \in Blocks
  BY DEF Numbers
<1> QED BY <1>1, Constants DEF Blocks, Addresses, End

\* The counters after a malloc that is not refused.
LEMMA MallocExact ==
    ASSUME Numbers, Positions, NEW size \in Requests, malloc(size)
    PROVE  /\ size \in 1 .. MaxRequest
           /\ heap_current' = heap_last_position + ALLOC_SIZE_HEADER
           /\ heap_current' < HEAP_END
           /\ heap_last_size' =
                 heap_last_size - heap_last_size_alloc - ALLOC_SIZE_HEADER
           /\ heap_last_size' \in Nat
           /\ heap_last_position' =
                 heap_last_position + size + ALLOC_SIZE_HEADER
<1> USE Constants
<1>1. size \in 1 .. MaxRequest
  BY HeapAssumption DEF malloc, Refused
<1>2. /\ heap_current \in Nat /\ heap_last_position \in Nat
      /\ heap_last_size \in Nat /\ heap_last_size_alloc \in Nat
  BY DEF Numbers
<1>3. heap_last_position + ALLOC_SIZE_HEADER < HEAP_END
  BY <1>2 DEF malloc, Refused
<1>4. heap_current' = heap_current + (heap_last_size_alloc + ALLOC_SIZE_HEADER)
  <2>1. heap_current + (heap_last_size_alloc + ALLOC_SIZE_HEADER) < Word
    BY <1>2, <1>3 DEF Positions
  <2> QED BY <1>2, <2>1, PlusExact DEF malloc, sbrk, Move
<1>5. heap_last_size' = heap_last_size - (heap_last_size_alloc + ALLOC_SIZE_HEADER)
      /\ heap_last_size_alloc + ALLOC_SIZE_HEADER <= heap_last_size
  <2>1. heap_last_size_alloc + ALLOC_SIZE_HEADER <= heap_last_size
    BY <1>2, <1>3 DEF Positions
  <2> QED BY <1>2, <2>1, MinusExact DEF malloc, sbrk, Move, Positions
<1>6. heap_last_position' = heap_last_position + (size + ALLOC_SIZE_HEADER)
  <2>1. heap_last_position + (size + ALLOC_SIZE_HEADER) < Word
    BY <1>1, <1>2, <1>3
  <2> QED BY <1>1, <1>2, <2>1, PlusExact DEF malloc
<1> QED BY <1>1, <1>2, <1>3, <1>4, <1>5, <1>6 DEF Positions

LEMMA MallocKeeps ==
    ASSUME IInv, NEW size \in Requests, malloc(size)
    PROVE  IInv'
<1> USE Constants
<1> DEFINE new == [addr |-> heap_current', size |-> size]
<1>0. Numbers /\ Positions /\ Layout
  BY DEF IInv
<1>1. /\ size \in 1 .. MaxRequest
      /\ heap_current' = heap_last_position + ALLOC_SIZE_HEADER
      /\ heap_current' < HEAP_END
      /\ heap_last_size' = heap_last_size - heap_last_size_alloc - ALLOC_SIZE_HEADER
      /\ heap_last_size' \in Nat
      /\ heap_last_position' = heap_last_position + size + ALLOC_SIZE_HEADER
  BY <1>0, MallocExact
<1>2. /\ heap_current \in Nat /\ heap_last_position \in Nat
      /\ heap_last_size \in Nat /\ heap_last_size_alloc \in Nat
      /\ heap_alloc_available \in Nat
  BY <1>0 DEF Numbers, Addresses
<1>3. new \in Blocks
  BY <1>1, <1>2 DEF Addresses, Blocks
<1>4. \/ blocks' = blocks
      \/ blocks' = Append(blocks, new)
  BY DEF malloc
<1>5. Numbers'
  <2>1. heap_alloc_available' \in Addresses
    BY <1>1, <1>2, CounterType DEF malloc
  <2>2. header' \in [Addresses -> Headers]
    <3>1. size \in Headers
      BY <1>1 DEF Headers
    <3>2. header' = [header EXCEPT ![heap_current] = size]
      BY DEF malloc
    <3> QED BY <1>0, <3>1, <3>2 DEF Numbers
  <2>3. blocks' \in Seq(Blocks)
    <3>1. blocks \in Seq(Blocks)
      BY <1>0 DEF Numbers
    <3> HIDE DEF new
    <3> QED BY <1>3, <1>4, <3>1
  <2>4. panicked' \in BOOLEAN /\ heap_last_size_alloc' = size
    BY DEF malloc
  <2> QED BY <1>1, <1>2, <2>1, <2>2, <2>3, <2>4 DEF Numbers
<1>6. Positions'
  <2>1. heap_last_size_alloc' = size /\ ~panicked
    BY DEF malloc
  <2>2. ~panicked' => heap_alloc_available' < physical_memory
    BY <1>5 DEF malloc, LimitReached, Numbers, Addresses
  <2>3. heap_last_size' <= heap_size /\ heap_last_size' < Word
    BY <1>0, <1>1, <1>2, <2>1 DEF Positions
  <2> QED BY <1>0, <1>1, <1>2, <2>1, <2>2, <2>3 DEF Positions
<1>7. Layout'
  <2>1. CASE blocks' = blocks
    <3>1. \A i \in DOMAIN blocks : blocks[i].addr \in Nat /\ End(i) \in Nat
      BY <1>0, BlockType
    <3> QED BY <1>0, <1>1, <1>2, <2>1, <3>1 DEF Layout, End
  <2>2. CASE blocks' = Append(blocks, new)
    <3>1. blocks \in Seq(Blocks)
      BY <1>0 DEF Numbers
    <3>2. Len(blocks) \in Nat /\ DOMAIN blocks = 1 .. Len(blocks)
      BY <3>1
    <3>3. /\ DOMAIN blocks' = 1 .. Len(blocks) + 1
          /\ \A i \in DOMAIN blocks : blocks'[i] = blocks[i]
          /\ blocks'[Len(blocks) + 1] = new
      BY <2>2, <3>1
    <3>4. \A i \in DOMAIN blocks : blocks[i].addr \in Nat /\ End(i) \in Nat
      BY <1>0, BlockType
    <3>5. \A i \in DOMAIN blocks : End(i)' = End(i)
      BY <3>3 DEF End
    <3>6. ASSUME NEW i \in DOMAIN blocks', i = Len(blocks) + 1
          PROVE  End(i)' = heap_last_position'
      <4>1. End(i)' = heap_current' + size
        BY <3>3, <3>6 DEF End
      <4> QED BY <1>1, <1>2, <4>1
    <3>7. \A i \in DOMAIN blocks :
             /\ End(i) <= heap_last_position
             /\ first_position + ALLOC_SIZE_HEADER <= blocks[i].addr
             /\ blocks[i].addr < HEAP_END
      BY <1>0 DEF Layout
    <3>8. ASSUME NEW i \in DOMAIN blocks'
          PROVE  /\ first_position + ALLOC_SIZE_HEADER <= blocks'[i].addr
                 /\ blocks'[i].addr < HEAP_END
                 /\ End(i)' <= heap_last_position'
      <4>1. CASE i \in DOMAIN blocks
        BY <4>1, <1>1, <1>2, <3>3, <3>4, <3>5, <3>7
      <4>2. CASE i = Len(blocks) + 1
        <5>1. blocks'[i].addr = heap_last_position + ALLOC_SIZE_HEADER
          BY <4>2, <1>1, <3>3
        <5>2. first_position <= heap_last_position
          BY <1>0, <1>2 DEF Positions
        <5>3. End(i)' = heap_last_position'
          BY <4>2, <3>6
        <5> QED BY <5>1, <5>2, <5>3, <1>1, <1>2
      <4> QED BY <3>2, <3>3, <4>1, <4>2
    <3>9. ASSUME NEW i \in DOMAIN blocks', NEW j \in DOMAIN blocks', i < j
          PROVE  End(i)' + ALLOC_SIZE_HEADER <= blocks'[j].addr
      <4>1. i \in DOMAIN blocks
        BY <3>2, <3>3, <3>9
      <4>2. CASE j \in DOMAIN blocks
        BY <4>1, <4>2, <1>0, <3>3, <3>5, <3>9 DEF Layout
      <4>3. CASE j = Len(blocks) + 1
        BY <4>1, <4>3, <1>1, <1>2, <3>3, <3>4, <3>5, <3>7
      <4> QED BY <3>2, <3>3, <4>2, <4>3
    <3> QED BY <3>8, <3>9 DEF Layout
  <2> QED BY <1>4, <2>1, <2>2
<1> QED BY <1>5, <1>6, <1>7 DEF IInv

LEMMA FreeKeeps ==
    ASSUME IInv, NEW i \in DOMAIN blocks, free(blocks[i].addr)
    PROVE  IInv'
<1> USE Constants
<1> DEFINE a == blocks[i].addr
<1>0. Numbers /\ Positions /\ Layout
  BY DEF IInv
<1>1. a \in Addresses
  BY <1>0, BlockType
<1>2. PICK size \in HeaderSizes(a) \ {0} :
          /\ heap_alloc_available' = Minus(heap_alloc_available, size)
          /\ GiveBack(size)
  BY DEF free
<1>3. size \in 1 .. MaxRequest
  <2>1. header[a] \in Headers
    BY <1>0, <1>1 DEF Numbers
  <2> HIDE DEF a
  <2> QED BY <1>2, <2>1, HeapAssumption DEF HeaderSizes, Headers
<1>4. /\ heap_current \in Nat /\ heap_last_position \in Nat
      /\ heap_last_size \in Nat /\ heap_last_size_alloc \in Nat
      /\ heap_alloc_available \in Nat
  BY <1>0 DEF Numbers, Addresses
<1>5. ~panicked /\ heap_last_size <= heap_size
  BY <1>0 DEF free, Positions
<1>6. heap_last_size' = heap_last_size + size
      /\ heap_last_size + size < Word
  <2>1. heap_last_size + size < Word
    BY <1>3, <1>4, <1>5
  <2> QED BY <1>2, <1>3, <1>4, <2>1, PlusExact DEF GiveBack
<1>7. UNCHANGED <<heap_current, heap_last_position, heap_last_size_alloc, blocks>>
  BY DEF free
<1>8. heap_alloc_available' \in Addresses
  BY <1>2, <1>3, <1>4, CounterType
<1>9. panicked' = \/ heap_last_size' > heap_size
                  \/ LimitReached(heap_alloc_available')
  BY DEF free
<1>10. Numbers'
  <2>1. header' \in [Addresses -> Headers]
    <3>1. header' = header \/ header' = [header EXCEPT ![a] = 0]
      BY DEF free, ClearHeader
    <3>2. 0 \in Headers
      BY DEF Headers
    <3> QED BY <1>0, <3>1, <3>2 DEF Numbers
  <2> QED BY <1>0, <1>3, <1>4, <1>6, <1>7, <1>8, <1>9, <2>1 DEF Numbers
<1>11. Positions'
  <2>1. ~panicked' => /\ heap_last_size' <= heap_size
                      /\ heap_alloc_available' < physical_memory
    BY <1>3, <1>4, <1>6, <1>8, <1>9 DEF LimitReached, Addresses
  <2> QED BY <1>0, <1>3, <1>4, <1>6, <1>7, <2>1 DEF Positions
<1>12. Layout'
  BY <1>0, <1>7 DEF Layout, End
<1> QED BY <1>10, <1>11, <1>12 DEF IInv

LEMMA Inductive == Spec => []IInv
<1>1. Init => IInv
  <2> SUFFICES ASSUME Init PROVE IInv
    OBVIOUS
  <2>1. Numbers
    <3>1. header \in [Addresses -> Headers]
      BY DEF Init, init_heap, Headers
    <3>2. blocks \in Seq(Blocks)
      BY DEF Init, init_heap
    <3>3. 0 \in Addresses /\ 0 \in 0 .. MaxRequest
      BY Constants DEF Addresses
    <3>4. /\ heap_current = first_position /\ heap_last_position = first_position
          /\ heap_last_size = heap_size /\ heap_last_size_alloc = 0
          /\ heap_alloc_available = 0 /\ panicked = FALSE
      BY DEF Init, init_heap, first_position
    <3> QED BY <3>1, <3>2, <3>3, <3>4, Constants DEF Numbers
  <2>2. Positions
    BY Constants, HeapAssumption DEF Init, init_heap, Positions, first_position, heap_size
  <2>3. Layout
    BY DEF Init, init_heap, Layout
  <2> QED BY <2>1, <2>2, <2>3 DEF IInv
<1>2. IInv /\ [Next]_vars => IInv'
  <2>1. ASSUME IInv, UNCHANGED vars PROVE IInv'
    BY <2>1 DEF vars, IInv, Numbers, Positions, Layout, End
  <2>2. ASSUME IInv, Next PROVE IInv'
    BY <2>2, MallocKeeps, FreeKeeps DEF Next
  <2> QED BY <2>1, <2>2
<1> QED BY <1>1, <1>2, PTL DEF Spec

-----------------------------------------------------------------------------
(* Sums over finite sets.                                                  *)

Pick(s) == CHOOSE x \in s : TRUE

\* The function MapThenSumSet is computed with: the sizes of the blocks of b whose
\* indices are in a set.
IsSum(b, S, g) ==
    g = [s \in SUBSET S |-> IF s = {} THEN 0 ELSE b[Pick(s)].size + g[s \ {Pick(s)}]]

Sum(b, S) == MapThenSumSet(LAMBDA i : b[i].size, S)

\* Induction over the subsets of a finite set.
LEMMA FiniteSubsets ==
    ASSUME NEW S, IsFiniteSet(S), NEW Good,
           \A s \in SUBSET S : (\A t \in SUBSET s : t # s => t \in Good) => s \in Good
    PROVE  \A s \in SUBSET S : s \in Good
<1> DEFINE Bad == {s \in SUBSET S : s \notin Good}
<1> SUFFICES ASSUME Bad # {} PROVE FALSE
  OBVIOUS
<1>1. FiniteSubsetsOf(S) = SUBSET S
  BY FS_FiniteSubsetsOfFinite
<1>2. IsWellFoundedOn(StrictSubsetOrdering(S), SUBSET S)
  <2>1. IsWellFoundedOn(StrictSubsetOrdering(S), FiniteSubsetsOf(S))
    BY FS_StrictSubsetOrderingWellFounded
  <2> QED BY <1>1, <2>1, Zenon
<1>3. PICK s \in Bad : \A t \in Bad : <<t, s>> \notin StrictSubsetOrdering(S)
  <2>1. Bad \subseteq SUBSET S
    OBVIOUS
  <2> HIDE DEF Bad
  <2>2. \E s \in Bad : \A t \in Bad : ~ (<<t, s>> \in StrictSubsetOrdering(S))
    BY <1>2, <2>1, WFMin, SMT
  <2> QED BY <2>2
<1>4. \A t \in SUBSET s : t # s => t \in Good
  BY <1>3 DEF StrictSubsetOrdering
<1> QED BY <1>3, <1>4

LEMMA Picked == ASSUME NEW s, s # {} PROVE Pick(s) \in s
BY DEF Pick

\* Two of these functions agree where the sizes do.
LEMMA SumsAgree ==
    ASSUME NEW b, NEW c, NEW S, NEW T, NEW g, NEW h, IsSum(b, S, g), IsSum(c, T, h),
           NEW R, R \subseteq S, R \subseteq T, IsFiniteSet(R),
           \A x \in R : b[x].size = c[x].size
    PROVE  \A s \in SUBSET R : g[s] = h[s]
<1> DEFINE Good == {s \in SUBSET R : g[s] = h[s]}
<1>1. ASSUME NEW s \in SUBSET R, \A t \in SUBSET s : t # s => t \in Good
      PROVE  s \in Good
  <2>1. /\ g[s] = IF s = {} THEN 0 ELSE b[Pick(s)].size + g[s \ {Pick(s)}]
        /\ h[s] = IF s = {} THEN 0 ELSE c[Pick(s)].size + h[s \ {Pick(s)}]
    BY DEF IsSum
  <2>2. CASE s = {}
    BY <2>1, <2>2
  <2>3. CASE s # {}
    <3>1. Pick(s) \in s /\ s \ {Pick(s)} \in SUBSET s /\ s \ {Pick(s)} # s
      BY <2>3, Picked
    <3>2. g[s \ {Pick(s)}] = h[s \ {Pick(s)}]
      BY <1>1, <3>1
    <3>3. b[Pick(s)].size = c[Pick(s)].size
      BY <3>1
    <3> QED BY <2>1, <2>3, <3>2, <3>3
  <2> QED BY <2>2, <2>3
<1> HIDE DEF Good
<1>2. \A s \in SUBSET R : s \in Good
  BY <1>1, FiniteSubsets
<1> QED BY <1>2 DEF Good

LEMMA SumExists ==
    ASSUME NEW b, NEW S, IsFiniteSet(S)
    PROVE  \E g : IsSum(b, S, g)
<1> DEFINE Good == {s \in SUBSET S : \E g : IsSum(b, s, g)}
           val(t) == (CHOOSE g : IsSum(b, t, g))[t]
<1>1. ASSUME NEW s \in SUBSET S, \A t \in SUBSET s : t # s => t \in Good
      PROVE  s \in Good
  <2> DEFINE h == [u \in SUBSET s |->
                     IF u = {} THEN 0 ELSE b[Pick(u)].size + val(u \ {Pick(u)})]
  <2>1. ASSUME NEW v \in SUBSET s, v # s PROVE h[v] = val(v)
    <3> DEFINE g == CHOOSE g : IsSum(b, v, g)
               w == v \ {Pick(v)}
    <3>1. IsSum(b, v, g)
      BY <1>1, <2>1
    <3>2. val(v) = IF v = {} THEN 0 ELSE b[Pick(v)].size + g[w]
      <4>1. g[v] = IF v = {} THEN 0 ELSE b[Pick(v)].size + g[w]
        <5> HIDE DEF g
        <5> QED BY <3>1 DEF IsSum
      <4> QED BY <4>1
    <3>3. v # {} => val(w) = g[w]
      <4> SUFFICES ASSUME v # {} PROVE val(w) = g[w]
        OBVIOUS
      <4> DEFINE k == CHOOSE k : IsSum(b, w, k)
      <4>1. w \in SUBSET s /\ w # s /\ w \subseteq v
        BY Picked
      <4>2. IsSum(b, w, k)
        BY <1>1, <4>1
      <4>3. IsFiniteSet(w)
        BY <4>1, FS_Subset
      <4>4. k[w] = g[w]
        <5> HIDE DEF k, g, w
        <5>1. \A x \in SUBSET w : k[x] = g[x]
          BY <3>1, <4>1, <4>2, <4>3, SumsAgree
        <5> QED BY <5>1
      <4> QED BY <4>4
    <3>4. h[v] = IF v = {} THEN 0 ELSE b[Pick(v)].size + val(w)
      OBVIOUS
    <3> HIDE DEF val, h, g
    <3> QED BY <3>2, <3>3, <3>4
  <2>2. IsSum(b, s, h)
    <3>1. ASSUME NEW u \in SUBSET s, u # {}
          PROVE  h[u \ {Pick(u)}] = val(u \ {Pick(u)})
      <4>1. u \ {Pick(u)} \in SUBSET s /\ u \ {Pick(u)} # s
        BY <3>1, Picked
      <4> HIDE DEF h, val
      <4> QED BY <2>1, <4>1
    <3>2. h = [u \in SUBSET s |->
                 IF u = {} THEN 0 ELSE b[Pick(u)].size + h[u \ {Pick(u)}]]
      <4>1. h = [u \in SUBSET s |->
                   IF u = {} THEN 0 ELSE b[Pick(u)].size + val(u \ {Pick(u)})]
        OBVIOUS
      <4> HIDE DEF h, val
      <4> QED BY <3>1, <4>1
    <3> HIDE DEF h
    <3> QED BY <3>2 DEF IsSum
  <2> HIDE DEF h
  <2> QED BY <2>2
<1> HIDE DEF Good
<1>2. S \in Good
  BY <1>1, FiniteSubsets
<1> QED BY <1>2 DEF Good

\* The sum is the value of that function.
LEMMA SumIs ==
    ASSUME NEW b, NEW S, IsFiniteSet(S)
    PROVE  \E g : IsSum(b, S, g) /\ Sum(b, S) = g[S]
<1> DEFINE h == CHOOSE h : IsSum(b, S, h)
<1>1. IsSum(b, S, h)
  BY SumExists
<1>2. Sum(b, S) = h[S]
  BY DEF Sum, MapThenSumSet, MapThenFoldSet, IsSum, Pick
<1> QED BY <1>1, <1>2

LEMMA SumIsNat ==
    ASSUME NEW b, NEW S, IsFiniteSet(S), NEW g, IsSum(b, S, g),
           \A x \in S : b[x].size \in Nat
    PROVE  \A s \in SUBSET S : g[s] \in Nat
<1> DEFINE Good == {s \in SUBSET S : g[s] \in Nat}
<1>1. ASSUME NEW s \in SUBSET S, \A t \in SUBSET s : t # s => t \in Good
      PROVE  s \in Good
  <2>1. g[s] = IF s = {} THEN 0 ELSE b[Pick(s)].size + g[s \ {Pick(s)}]
    BY DEF IsSum
  <2>2. CASE s = {}
    BY <2>1, <2>2
  <2>3. CASE s # {}
    <3>1. Pick(s) \in s /\ s \ {Pick(s)} \in SUBSET s /\ s \ {Pick(s)} # s
      BY <2>3, Picked
    <3>2. g[s \ {Pick(s)}] \in Nat
      BY <1>1, <3>1
    <3> QED BY <2>1, <2>3, <3>1, <3>2
  <2> QED BY <2>2, <2>3
<1> HIDE DEF Good
<1>2. \A s \in SUBSET S : s \in Good
  BY <1>1, FiniteSubsets
<1> QED BY <1>2 DEF Good

\* Whatever element comes first, the sum is the same.
LEMMA AnyFirst ==
    ASSUME NEW b, NEW S, IsFiniteSet(S), NEW g, IsSum(b, S, g),
           \A x \in S : b[x].size \in Nat
    PROVE  \A s \in SUBSET S : \A x \in s : g[s] = b[x].size + g[s \ {x}]
<1> DEFINE Good == {s \in SUBSET S : \A x \in s : g[s] = b[x].size + g[s \ {x}]}
<1>0. \A s \in SUBSET S : g[s] \in Nat
  BY SumIsNat
<1>1. ASSUME NEW s \in SUBSET S, \A t \in SUBSET s : t # s => t \in Good
      PROVE  s \in Good
  <2> SUFFICES ASSUME NEW x \in s PROVE g[s] = b[x].size + g[s \ {x}]
    OBVIOUS
  <2> DEFINE p == Pick(s)
  <2>1. p \in s /\ g[s] = b[p].size + g[s \ {p}]
    BY Picked DEF IsSum
  <2>2. CASE p = x
    BY <2>1, <2>2
  <2>3. CASE p # x
    <3> HIDE DEF p
    <3> DEFINE r == (s \ {p}) \ {x}
    <3>1. g[s \ {p}] = b[x].size + g[r]
      <4>1. s \ {p} \in SUBSET s /\ s \ {p} # s /\ x \in s \ {p}
        BY <2>1, <2>3
      <4> QED BY <1>1, <4>1
    <3>2. g[s \ {x}] = b[p].size + g[r]
      <4>1. s \ {x} \in SUBSET s /\ s \ {x} # s /\ p \in s \ {x}
        BY <2>1, <2>3
      <4>2. (s \ {x}) \ {p} = r
        OBVIOUS
      <4> QED BY <1>1, <4>1, <4>2
    <3>3. b[x].size \in Nat /\ b[p].size \in Nat /\ g[r] \in Nat
      BY <1>0, <2>1
    <3> HIDE DEF r
    <3> QED BY <2>1, <3>1, <3>2, <3>3
  <2> QED BY <2>2, <2>3
<1> HIDE DEF Good
<1>2. \A s \in SUBSET S : s \in Good
  BY <1>1, FiniteSubsets
<1> QED BY <1>2 DEF Good

LEMMA SumType ==
    ASSUME NEW b, NEW S, IsFiniteSet(S), \A x \in S : b[x].size \in Nat
    PROVE  Sum(b, S) \in Nat
BY SumIs, SumIsNat

LEMMA SumOfNone == ASSUME NEW b PROVE Sum(b, {}) = 0
<1>1. PICK g : IsSum(b, {}, g) /\ Sum(b, {}) = g[{}]
  BY SumIs, FS_EmptySet
<1> QED BY <1>1 DEF IsSum

LEMMA SumSame ==
    ASSUME NEW b, NEW c, NEW S, IsFiniteSet(S), \A x \in S : b[x].size = c[x].size
    PROVE  Sum(b, S) = Sum(c, S)
<1>1. PICK g : IsSum(b, S, g) /\ Sum(b, S) = g[S]
  BY SumIs
<1>2. PICK h : IsSum(c, S, h) /\ Sum(c, S) = h[S]
  BY SumIs
<1>3. \A s \in SUBSET S : g[s] = h[s]
  BY <1>1, <1>2, SumsAgree
<1> QED BY <1>1, <1>2, <1>3

\* What an element adds to the sum.
LEMMA SumWithout ==
    ASSUME NEW b, NEW S, IsFiniteSet(S), \A x \in S : b[x].size \in Nat, NEW x \in S
    PROVE  Sum(b, S) = b[x].size + Sum(b, S \ {x})
<1>1. PICK g : IsSum(b, S, g) /\ Sum(b, S) = g[S]
  BY SumIs
<1> DEFINE R == S \ {x}
<1>2. IsFiniteSet(R) /\ R \subseteq S
  BY FS_RemoveElement
<1> HIDE DEF R
<1>3. PICK h : IsSum(b, R, h) /\ Sum(b, R) = h[R]
  BY <1>2, SumIs
<1>4. \A s \in SUBSET R : g[s] = h[s]
  BY <1>1, <1>2, <1>3, SumsAgree
<1>5. g[S] = b[x].size + g[S \ {x}]
  BY <1>1, AnyFirst
<1> QED BY <1>1, <1>3, <1>4, <1>5 DEF R

-----------------------------------------------------------------------------
(* What is counted as in use.                                              *)

\* Above the latest block nothing is written; the header of any other block holds the
\* size of its successor, or 0 once it has been freed.
HeadersHold ==
    ~panicked =>
      /\ \A a \in Addresses : heap_current <= a => header[a] = Unknown
      /\ blocks # <<>> => heap_current = blocks[Len(blocks)].addr
      /\ \A i \in DOMAIN blocks :
            i < Len(blocks) => header[blocks[i].addr] \in {0, blocks[i + 1].size}

Counts == ~panicked => heap_alloc_available = Sum(blocks, CountedBlocks)

CInv == IInv /\ HeadersHold /\ Counts

LEMMA BlocksAre ==
    ASSUME Numbers
    PROVE  /\ Len(blocks) \in Nat /\ DOMAIN blocks = 1 .. Len(blocks)
           /\ blocks # <<>> <=> Len(blocks) # 0
           /\ CountedBlocks \subseteq DOMAIN blocks
           /\ IsFiniteSet(CountedBlocks)
           /\ \A i \in DOMAIN blocks : blocks[i].size \in Nat
<1>1. /\ Len(blocks) \in Nat /\ DOMAIN blocks = 1 .. Len(blocks)
      /\ blocks # <<>> <=> Len(blocks) # 0
  BY DEF Numbers
<1>2. CountedBlocks \subseteq DOMAIN blocks
  BY DEF CountedBlocks
<1>3. IsFiniteSet(1 .. Len(blocks))
  BY <1>1, FS_Interval
<1>4. IsFiniteSet(CountedBlocks)
  BY <1>1, <1>2, <1>3, FS_Subset
<1> QED BY <1>1, <1>2, <1>4, BlockType

\* Blocks start at addresses of their own.
LEMMA AddressesDiffer ==
    ASSUME Numbers, Layout, NEW i \in DOMAIN blocks, NEW j \in DOMAIN blocks, i # j
    PROVE  blocks[i].addr # blocks[j].addr
<1>1. i \in Int /\ j \in Int
  BY BlocksAre
<1>2. /\ blocks[i].addr \in Nat /\ blocks[i].size \in Nat
      /\ blocks[j].addr \in Nat /\ blocks[j].size \in Nat
  BY BlockType
<1>3. \/ End(i) + ALLOC_SIZE_HEADER <= blocks[j].addr
      \/ End(j) + ALLOC_SIZE_HEADER <= blocks[i].addr
  BY <1>1 DEF Layout
<1> QED BY <1>2, <1>3, Constants DEF End

LEMMA MallocCounts ==
    ASSUME CInv, NEW size \in Requests, malloc(size)
    PROVE  HeadersHold' /\ Counts'
<1> SUFFICES ASSUME ~panicked' PROVE HeadersHold' /\ Counts'
  BY DEF HeadersHold, Counts
<1> USE Constants
<1> DEFINE n == Len(blocks)
           new == [addr |-> heap_current', size |-> size]
<1>0. Numbers /\ Positions /\ Layout /\ ~panicked
  BY DEF CInv, IInv, malloc
<1>1. /\ size \in 1 .. MaxRequest /\ heap_current' \in Nat
      /\ heap_current < heap_current' /\ heap_current \in Nat /\ heap_current \in Addresses
  <2>1. heap_current' = heap_last_position + ALLOC_SIZE_HEADER /\ size \in 1 .. MaxRequest
    BY <1>0, MallocExact
  <2>2. heap_current \in Nat /\ heap_last_position \in Nat /\ heap_last_size_alloc \in Nat
    BY <1>0 DEF Numbers
  <2>3. heap_last_position = heap_current + heap_last_size_alloc /\ heap_current < HEAP_END
    BY <1>0 DEF Positions
  <2> QED BY <2>1, <2>2, <2>3 DEF Addresses
<1>2. /\ n \in Nat /\ DOMAIN blocks = 1 .. n /\ (blocks # <<>> <=> n # 0)
      /\ CountedBlocks \subseteq 1 .. n /\ IsFiniteSet(CountedBlocks)
      /\ \A i \in 1 .. n : blocks[i].size \in Nat
  BY <1>0, BlocksAre
<1>3. blocks' = Append(blocks, new) /\ header' = [header EXCEPT ![heap_current] = size]
  BY DEF malloc
<1>4. /\ Len(blocks') = n + 1 /\ DOMAIN blocks' = 1 .. n + 1 /\ blocks'[n + 1] = new
      /\ \A i \in 1 .. n : blocks'[i] = blocks[i]
  <2>1. blocks \in Seq(Blocks)
    BY <1>0 DEF Numbers
  <2> HIDE DEF new
  <2> QED BY <1>2, <1>3, <2>1
<1>5. \A a \in Addresses : header'[a] = IF a = heap_current THEN size ELSE header[a]
  BY <1>0, <1>3 DEF Numbers
<1>6. /\ \A a \in Addresses : heap_current <= a => header[a] = Unknown
      /\ n # 0 => heap_current = blocks[n].addr
      /\ \A i \in 1 .. n : i < n => header[blocks[i].addr] \in {0, blocks[i + 1].size}
  BY <1>0, <1>2 DEF CInv, HeadersHold
<1>7. \A i \in 1 .. n : blocks[i].addr \in Addresses /\ (i < n => blocks[i].addr # heap_current)
  <2> SUFFICES ASSUME NEW i \in 1 .. n
               PROVE  blocks[i].addr \in Addresses /\ (i < n => blocks[i].addr # heap_current)
    OBVIOUS
  <2>1. blocks[i].addr \in Addresses
    BY <1>0, <1>2, BlockType
  <2>2. i < n => blocks[i].addr # blocks[n].addr
    BY <1>0, <1>2, AddressesDiffer
  <2>3. heap_current = blocks[n].addr
    BY <1>2, <1>6
  <2> QED BY <2>1, <2>2, <2>3
<1> HIDE DEF n
<1>8. HeadersHold'
  <2>1. \A a \in Addresses : heap_current' <= a => header'[a] = Unknown
    BY <1>1, <1>5, <1>6 DEF Addresses
  <2>2. heap_current' = blocks'[Len(blocks')].addr
    BY <1>4
  <2>3. ASSUME NEW i \in DOMAIN blocks', i < Len(blocks')
        PROVE  header'[blocks'[i].addr] \in {0, blocks'[i + 1].size}
    <3>1. i \in 1 .. n /\ blocks'[i] = blocks[i]
      BY <1>2, <1>4, <2>3
    <3>2. CASE i = n
      <4>1. blocks[n].addr = heap_current /\ blocks'[n + 1].size = size
        BY <1>2, <1>4, <1>6, <3>1, <3>2
      <4>2. header'[heap_current] = size
        BY <1>1, <1>5
      <4> QED BY <3>1, <3>2, <4>1, <4>2
    <3>3. CASE i < n
      <4>1. i + 1 \in 1 .. n /\ blocks'[i + 1] = blocks[i + 1]
        BY <1>2, <1>4, <3>1, <3>3
      <4>2. header'[blocks[i].addr] = header[blocks[i].addr]
        BY <1>5, <1>7, <3>1, <3>3
      <4> QED BY <1>6, <3>1, <3>3, <4>1, <4>2
    <3> QED BY <1>2, <3>1, <3>2, <3>3
  <2> QED BY <2>1, <2>2, <2>3 DEF HeadersHold
<1>9. CountedBlocks' = CountedBlocks \cup {n + 1}
  <2>1. ASSUME NEW i \in 1 .. n PROVE i \in CountedBlocks' <=> i \in CountedBlocks
    <3>1. CASE i = 1
      BY <1>2, <1>4, <3>1 DEF CountedBlocks
    <3>2. CASE i # 1
      <4>1. i - 1 \in 1 .. n /\ i - 1 < n
        BY <1>2, <3>2
      <4>2. header'[blocks'[i - 1].addr] = header[blocks[i - 1].addr]
        BY <1>4, <1>5, <1>7, <4>1
      <4> QED BY <1>2, <1>4, <4>2 DEF CountedBlocks
    <3> QED BY <3>1, <3>2
  <2>2. n + 1 \in CountedBlocks'
    <3>1. CASE n = 0
      BY <1>4, <3>1 DEF CountedBlocks
    <3>2. CASE n # 0
      <4>1. n \in 1 .. n /\ (n + 1) - 1 = n
        BY <1>2, <3>2
      <4>2. header'[blocks'[(n + 1) - 1].addr] = size
        BY <1>1, <1>4, <1>5, <1>6, <3>2, <4>1
      <4>3. n + 1 \in DOMAIN blocks' /\ size # 0
        BY <1>1, <1>2, <1>4
      <4> QED BY <4>2, <4>3 DEF CountedBlocks
    <3> QED BY <3>1, <3>2
  <2>3. CountedBlocks' \subseteq 1 .. n + 1
    BY <1>4 DEF CountedBlocks
  <2>4. \A i \in 1 .. n + 1 : i \in 1 .. n \/ i = n + 1
    BY <1>2
  <2> QED BY <1>2, <2>1, <2>2, <2>3, <2>4
<1>10. Counts'
  <2> DEFINE C == CountedBlocks'
  <2>1. IsFiniteSet(C)
    BY <1>2, <1>9, FS_AddElement
  <2>2. \A x \in C : blocks'[x].size \in Nat
    <3>1. \A x \in C : x \in 1 .. n \/ x = n + 1
      BY <1>2, <1>9
    <3>2. blocks'[n + 1].size \in Nat
      BY <1>1, <1>4
    <3> QED BY <1>2, <1>4, <3>1, <3>2
  <2>3. n + 1 \in C /\ C \ {n + 1} = CountedBlocks
    BY <1>2, <1>9
  <2>4. Sum(blocks', C) = blocks'[n + 1].size + Sum(blocks', CountedBlocks)
    <3> HIDE DEF C
    <3> QED BY <2>1, <2>2, <2>3, SumWithout
  <2>5. Sum(blocks', CountedBlocks) = Sum(blocks, CountedBlocks)
    BY <1>2, <1>4, SumSame
  <2>6. heap_alloc_available = Sum(blocks, CountedBlocks)
    BY <1>0 DEF CInv, Counts
  <2>7. heap_alloc_available' = heap_alloc_available + size
    <3>1. heap_alloc_available \in Nat /\ heap_alloc_available < physical_memory
      BY <1>0 DEF Numbers, Addresses, Positions
    <3>2. heap_alloc_available + size < Word
      BY <1>1, <3>1, HeapAssumption
    <3>3. heap_alloc_available' = Plus(heap_alloc_available, size)
      BY DEF malloc
    <3> QED BY <1>1, <3>1, <3>2, <3>3, PlusExact
  <2>8. blocks'[n + 1].size = size /\ size \in Nat /\ heap_alloc_available \in Nat
    BY <1>0, <1>1, <1>4 DEF Numbers, Addresses
  <2> HIDE DEF C
  <2>9. heap_alloc_available' = Sum(blocks', C)
    BY <2>4, <2>5, <2>6, <2>7, <2>8
  <2> QED BY <2>9 DEF C, Counts
<1> QED BY <1>8, <1>10

\* Memory that is not written yet holds no size, so that the header of the latest block
\* is clear.
LEMMA FreeCounts ==
    ASSUME Unwritten \subseteq {0}, CInv, NEW i \in DOMAIN blocks, free(blocks[i].addr)
    PROVE  HeadersHold' /\ Counts'
<1> SUFFICES ASSUME ~panicked' PROVE HeadersHold' /\ Counts'
  BY DEF HeadersHold, Counts
<1> USE Constants
<1> DEFINE n == Len(blocks)
           a == blocks[i].addr
<1>0. Numbers /\ Positions /\ Layout /\ ~panicked
  BY DEF CInv, IInv, free
<1>1. PICK size \in HeaderSizes(a) \ {0} :
          heap_alloc_available' = Minus(heap_alloc_available, size)
  BY DEF free
<1>2. /\ n \in Nat /\ DOMAIN blocks = 1 .. n /\ (blocks # <<>> <=> n # 0)
      /\ CountedBlocks \subseteq 1 .. n /\ IsFiniteSet(CountedBlocks)
      /\ \A k \in 1 .. n : blocks[k].size \in Nat
  BY <1>0, BlocksAre
<1>3. /\ \A b \in Addresses : heap_current <= b => header[b] = Unknown
      /\ n # 0 => heap_current = blocks[n].addr
      /\ \A k \in 1 .. n : k < n => header[blocks[k].addr] \in {0, blocks[k + 1].size}
  BY <1>0, <1>2 DEF CInv, HeadersHold
<1>4. \A k \in 1 .. n : blocks[k].addr \in Addresses
  BY <1>0, <1>2, BlockType
<1>5. header[a] # Unknown /\ size = header[a] /\ size # 0
  <2> HIDE DEF a
  <2> QED BY <1>1 DEF HeaderSizes
<1>6. i \in 1 .. n /\ i < n /\ i + 1 \in 1 .. n
  <2>1. i # n
    <3> SUFFICES ASSUME i = n PROVE FALSE
      OBVIOUS
    <3>1. a = heap_current
      BY <1>2, <1>3
    <3>2. heap_current \in Nat
      BY <1>0 DEF Numbers
    <3> QED BY <1>2, <1>3, <1>4, <1>5, <3>1, <3>2
  <2> QED BY <1>2, <2>1
<1>7. size = blocks[i + 1].size /\ size \in Nat
  BY <1>2, <1>3, <1>5, <1>6
<1>8. /\ UNCHANGED <<heap_current, blocks>>
      /\ header' = [header EXCEPT ![a] = 0]
  BY DEF free, ClearHeader
<1>9. \A b \in Addresses : header'[b] = IF b = a THEN 0 ELSE header[b]
  BY <1>0, <1>8 DEF Numbers
<1>10. \A k \in 1 .. n : k # i => blocks[k].addr # a
  BY <1>0, <1>2, AddressesDiffer
<1> HIDE DEF n, a
<1>11. HeadersHold'
  <2>1. \A b \in Addresses : heap_current' <= b => header'[b] = Unknown
    BY <1>3, <1>5, <1>8, <1>9
  <2>2. Len(blocks') = n /\ DOMAIN blocks' = 1 .. n
    BY <1>2, <1>8 DEF n
  <2>3. \A k \in 1 .. n : k < n => header'[blocks[k].addr] \in {0, blocks[k + 1].size}
    BY <1>3, <1>4, <1>9
  <2>4. blocks # <<>> => heap_current' = blocks'[n].addr
    BY <1>2, <1>3, <1>8
  <2> QED BY <1>8, <2>1, <2>2, <2>3, <2>4 DEF HeadersHold
<1>12. CountedBlocks' = CountedBlocks \ {i + 1} /\ i + 1 \in CountedBlocks
  <2>1. ASSUME NEW k \in 1 .. n, k # i + 1
        PROVE  k \in CountedBlocks' <=> k \in CountedBlocks
    <3>1. CASE k = 1
      BY <1>2, <1>8, <3>1 DEF CountedBlocks
    <3>2. CASE k # 1
      <4>1. k - 1 \in 1 .. n /\ k - 1 # i
        BY <1>2, <1>6, <2>1, <3>2
      <4>2. header'[blocks[k - 1].addr] = header[blocks[k - 1].addr]
        BY <1>4, <1>9, <1>10, <4>1
      <4> QED BY <1>2, <1>8, <4>2 DEF CountedBlocks
    <3> QED BY <3>1, <3>2
  <2>2. (i + 1) - 1 = i /\ i + 1 # 1
    BY <1>6
  <2>3. blocks[(i + 1) - 1].addr = a /\ a \in Addresses
    BY <1>4, <1>6, <2>2 DEF a
  <2>4. header'[a] = 0
    BY <1>9, <2>3
  <2>5. i + 1 \notin CountedBlocks'
    BY <1>8, <2>2, <2>3, <2>4 DEF CountedBlocks
  <2>6. i + 1 \in CountedBlocks
    BY <1>2, <1>5, <1>6, <2>3 DEF CountedBlocks
  <2>7. CountedBlocks' \subseteq 1 .. n
    BY <1>2, <1>8 DEF CountedBlocks
  <2> QED BY <1>2, <2>1, <2>5, <2>6, <2>7
<1>13. Counts'
  <2>1. \A x \in CountedBlocks : blocks[x].size \in Nat
    BY <1>2
  <2>2. Sum(blocks, CountedBlocks) = size + Sum(blocks, CountedBlocks')
    <3> DEFINE C == CountedBlocks
               next == i + 1
    <3>1. IsFiniteSet(C) /\ next \in C /\ \A x \in C : blocks[x].size \in Nat
      BY <1>2, <1>12, <2>1
    <3> HIDE DEF C, next
    <3>2. Sum(blocks, C) = blocks[next].size + Sum(blocks, C \ {next})
      BY <3>1, SumWithout
    <3> QED BY <1>7, <1>12, <3>2 DEF C, next
  <2>3. Sum(blocks, CountedBlocks') \in Nat
    <3>1. IsFiniteSet(CountedBlocks')
      BY <1>2, <1>12, FS_RemoveElement
    <3>2. \A x \in CountedBlocks' : blocks[x].size \in Nat
      BY <1>12, <2>1
    <3> QED BY <3>1, <3>2, SumType
  <2>4. heap_alloc_available = Sum(blocks, CountedBlocks)
    BY <1>0 DEF CInv, Counts
  <2>5. heap_alloc_available \in Nat /\ heap_alloc_available < Word
    BY <1>0 DEF Numbers, Addresses
  <2>6. heap_alloc_available' = heap_alloc_available - size
    BY <1>1, <1>7, <2>2, <2>3, <2>4, <2>5, MinusExact
  <2>7. heap_alloc_available' = Sum(blocks, CountedBlocks')
    BY <1>7, <2>2, <2>3, <2>4, <2>6
  <2> QED BY <1>8, <2>7 DEF Counts
<1> QED BY <1>11, <1>13

-----------------------------------------------------------------------------
(* The theorems.                                                           *)

\* Every counter stays an unsigned long, and no header holds more than was
\* requested.
THEOREM HeapTypes == Spec => []TypeOK
<1>1. IInv => TypeOK
  <2> SUFFICES ASSUME IInv PROVE TypeOK
    OBVIOUS
  <2>1. heap_current \in Nat /\ heap_last_position \in Nat /\ heap_last_size \in Nat
    BY DEF IInv, Numbers
  <2>2. heap_last_size_alloc \in 0 .. MaxRequest
    BY DEF IInv, Numbers
  <2>3. /\ heap_current < HEAP_END /\ heap_last_size < Word
        /\ heap_last_position = heap_current + heap_last_size_alloc
    BY DEF IInv, Positions
  <2>4. /\ heap_current \in Addresses /\ heap_last_position \in Addresses
        /\ heap_last_size \in Addresses
    BY <2>1, <2>2, <2>3, Constants DEF Addresses
  <2> QED BY <2>4 DEF TypeOK, IInv, Numbers
<1> QED BY <1>1, Inductive, PTL

\* No two blocks that malloc returned share a byte, nor a block and the header
\* of another, whatever is requested and freed.
THEOREM BlocksAreDisjoint == Spec => []BlocksDisjoint
<1>1. IInv => BlocksDisjoint
  <2> SUFFICES ASSUME IInv, NEW i \in DOMAIN blocks, NEW j \in DOMAIN blocks, i # j
               PROVE  Region(blocks[i]) \cap Region(blocks[j]) = {}
    BY DEF BlocksDisjoint
  <2>1. /\ i \in Int /\ j \in Int
        /\ blocks[i].addr \in Nat /\ blocks[j].addr \in Nat
        /\ blocks[i].size \in Nat /\ blocks[j].size \in Nat
    BY BlockType DEF IInv, Numbers
  <2>2. \/ End(i) + ALLOC_SIZE_HEADER <= blocks[j].addr
        \/ End(j) + ALLOC_SIZE_HEADER <= blocks[i].addr
    BY <2>1 DEF IInv, Layout
  <2> QED BY <2>1, <2>2, Constants DEF Region, End
<1> QED BY <1>1, Inductive, PTL

\* Every block starts inside the heap, and only the latest can end past it.
THEOREM OnlyLatestEndsOutside == Spec => []OnlyLatestPastEnd
<1>1. IInv => OnlyLatestPastEnd
  <2> SUFFICES ASSUME IInv, NEW i \in DOMAIN blocks
               PROVE  /\ blocks[i].addr \in HEAP_START .. HEAP_END - 1
                      /\ i < Len(blocks) => End(i) < HEAP_END
    BY DEF OnlyLatestPastEnd, End
  <2>1. /\ blocks[i].addr \in Nat /\ blocks[i].size \in Nat
        /\ Len(blocks) \in Nat /\ DOMAIN blocks = 1 .. Len(blocks)
    BY BlockType DEF IInv, Numbers
  <2>2. blocks[i].addr \in HEAP_START .. HEAP_END - 1
    BY <2>1, Constants DEF IInv, Layout
  <2>3. ASSUME i < Len(blocks) PROVE End(i) < HEAP_END
    <3>1. Len(blocks) \in DOMAIN blocks
      BY <2>1, <2>3
    <3>2. /\ End(i) + ALLOC_SIZE_HEADER <= blocks[Len(blocks)].addr
          /\ blocks[Len(blocks)].addr < HEAP_END
      BY <2>3, <3>1 DEF IInv, Layout
    <3>3. blocks[Len(blocks)].addr \in Nat /\ End(i) \in Nat
      BY <2>1, <3>1, BlockType DEF IInv
    <3> QED BY <3>2, <3>3, Constants
  <2> QED BY <2>2, <2>3
<1> QED BY <1>1, Inductive, PTL

\* What the heap says remains is never less than the rest of the heap.
THEOREM RemainingIsEnough == Spec => []RemainingCoversRest
<1>1. IInv => RemainingCoversRest
  BY Constants DEF IInv, Numbers, Positions, RemainingCoversRest
<1> QED BY <1>1, Inductive, PTL

\* The three together: what programs rely on holds of every heap.
THEOREM HeapIsSound == Spec => []BlocksAreSound
BY BlocksAreDisjoint, OnlyLatestEndsOutside, RemainingIsEnough, PTL DEF BlocksAreSound

\* The bytes said to be in use are those of the first block and of every block whose
\* predecessor has not been freed, so that the unsigned counter never wraps around,
\* whatever is freed and how often; memory that is not written yet is zero.
THEOREM UseIsAlwaysCounted ==
    ASSUME Unwritten \subseteq {0}
    PROVE  Spec => []UseIsCounted
<1>1. Init => HeadersHold /\ Counts
  <2> SUFFICES ASSUME Init PROVE HeadersHold /\ Counts
    OBVIOUS
  <2>1. HeadersHold
    BY DEF Init, init_heap, HeadersHold
  <2>2. CountedBlocks = {} /\ heap_alloc_available = 0
    BY DEF Init, init_heap, CountedBlocks
  <2> QED BY <2>1, <2>2, SumOfNone DEF Counts
<1>2. IInv /\ HeadersHold /\ Counts /\ [Next]_vars => HeadersHold' /\ Counts'
  <2>1. ASSUME IInv, HeadersHold, Counts, UNCHANGED vars PROVE HeadersHold' /\ Counts'
    BY <2>1 DEF vars, HeadersHold, Counts, CountedBlocks
  <2>2. ASSUME IInv, HeadersHold, Counts, Next PROVE HeadersHold' /\ Counts'
    BY <2>2, MallocCounts, FreeCounts DEF Next, CInv
  <2> QED BY <2>1, <2>2
<1>3. Counts => UseIsCounted
  BY DEF Counts, UseIsCounted, Sum
<1> QED BY <1>1, <1>2, <1>3, Inductive, PTL DEF Spec

=============================================================================
