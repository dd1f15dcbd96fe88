------------------------------ MODULE Sorting ------------------------------
(***************************************************************************)
(* qsort of src/kernel/fat.c, which qlistdir sorts a directory with: a     *)
(* stack of ranges, the median of three as pivot, two scans that stop at   *)
(* an element and never at a bound, insertion for short ranges.            *)
(* Positions are counted from 0, as in the code.                           *)
(***************************************************************************)
EXTENDS Integers, Sequences, FiniteSets

CONSTANTS
  Keys,         \* what cmp compares; elements with one key are equal to it
  MaxElements,  \* bound on the elements
  InsertionLength         \* the length of ranges that are sorted by insertion (8)

\* Keys can be compared, and a range of two elements is not partitioned.
ASSUME SortingAssumption ==
  Keys \subseteq Int /\ MaxElements \in Nat /\ InsertionLength \in Nat /\ InsertionLength >= 2

VARIABLES
  key,      \* the key of each element
  elements,     \* the elements in their order
  stack,    \* the ranges to sort, the top one last
  range,    \* the range that is partitioned, and how far the scans are
  outside   \* history: a scan has left its range

sortVars == <<key, elements, stack, range, outside>>

NoRange == [left |-> 0, right |-> 0, i |-> 0, j |-> 0]
nmemb == Len(key)
Key(d, k) == key[d[k]]
qsort_swap(d, k, m) == [d EXCEPT ![k] = d[m], ![m] = d[k]]

SortInit ==
  /\ key \in UNION {[1..n -> Keys] : n \in 2..MaxElements}
  /\ elements = [k \in 0..(nmemb - 1) |-> k + 1]
  /\ stack = <<[left |-> 0, right |-> nmemb - 1]>>
  /\ range = NoRange /\ outside = FALSE

\* The range d[left..right] in the order of the keys, equal ones as they were.
qsort_insertion(d, left, right) ==
  LET Before(k, m) == Key(d, k) < Key(d, m) \/ (Key(d, k) = Key(d, m) /\ k < m)
      rank == [k \in left..right |-> Cardinality({m \in left..right : Before(m, k)})]
  IN [k \in DOMAIN d |->
        IF k \in left..right THEN d[CHOOSE m \in left..right : rank[m] = k - left]
        ELSE d[k]]

\* The least of three goes to the left, the largest to the right, and the middle one
\* beside the right one, where it is the pivot.
MedianOfThree(d, left, right) ==
  LET mid == left + (right - left) \div 2
      Ordered(e, k, m) == IF Key(e, k) > Key(e, m) THEN qsort_swap(e, k, m) ELSE e
      three == Ordered(Ordered(Ordered(d, left, mid), left, right), mid, right)
  IN qsort_swap(three, mid, right - 1)

\* The next range: sorted by insertion, or about to be partitioned.
Pop ==
  LET r == stack[Len(stack)]
  IN /\ range = NoRange /\ stack # <<>>
     /\ stack' = SubSeq(stack, 1, Len(stack) - 1)
     /\ IF r.right - r.left + 1 <= InsertionLength
          THEN elements' = qsort_insertion(elements, r.left, r.right) /\ UNCHANGED range
          ELSE /\ elements' = MedianOfThree(elements, r.left, r.right)
               /\ range' = [left |-> r.left, right |-> r.right,
                            i |-> r.left, j |-> r.right - 1]
     /\ UNCHANGED <<key, outside>>

Longer(r, i) == i - r.left > r.right - i
Part(left, right) == IF left < right THEN <<[left |-> left, right |-> right]>> ELSE <<>>

\* One round of the scans: they stop at an element that is not less, and at one that
\* is not greater, than the pivot.  If they have met, the pivot goes between them,
\* and the longer part is pushed first.
Scan ==
  LET r == range
      pivot == Key(elements, r.right - 1)
      up == {k \in (r.i + 1)..(nmemb - 1) : Key(elements, k) >= pivot}
      down == {k \in 0..(r.j - 1) : Key(elements, k) <= pivot}
      i == CHOOSE k \in up : \A m \in up : k <= m
      j == CHOOSE k \in down : \A m \in down : k >= m
      lower == Part(r.left, i - 1)
      upper == Part(i + 1, r.right)
  IN /\ r # NoRange
     /\ IF up = {} \/ down = {}
          THEN outside' = TRUE /\ UNCHANGED <<elements, stack, range>>
          ELSE /\ outside' = (outside \/ i > r.right \/ j < r.left)
               /\ IF i < j
                    THEN /\ elements' = qsort_swap(elements, i, j)
                         /\ range' = [r EXCEPT !.i = i, !.j = j]
                         /\ UNCHANGED stack
                    ELSE /\ elements' = qsort_swap(elements, i, r.right - 1)
                         /\ range' = NoRange
                         /\ stack' = stack \o IF Longer(r, i) THEN lower \o upper
                                                ELSE upper \o lower
     /\ UNCHANGED key

SortNext == Pop \/ Scan

(***************************************************************************)
(* Properties.                                                             *)
(***************************************************************************)

\* However many keys are equal, no scan leaves its range, nothing is lost or doubled,
\* the stack holds no more than one range for each halving, and at the end the
\* elements are in order (qsort, whose scans look at no bound).
ListingIsSorted ==
  /\ ~outside
  /\ {elements[k] : k \in DOMAIN elements} = 1..nmemb
  /\ stack # <<>> => 2^(Len(stack) - 1) <= nmemb
  /\ stack = <<>> /\ range = NoRange =>
       \A k \in 1..(nmemb - 1) : Key(elements, k - 1) <= Key(elements, k)

=============================================================================
