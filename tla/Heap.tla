-------------------------------- MODULE Heap --------------------------------
(***************************************************************************)
(* The heap of the kernel (kernel/memory.c): malloc and free, which        *)
(* programs reach through system calls 385 and 386.  A system call runs    *)
(* with interrupts off, so each is one step.                               *)
(*                                                                         *)
(* A block is the bytes from its address on; its header is the bytes just  *)
(* below.  malloc writes the size it is asked for into the header of the   *)
(* block before the one it returns, so the latest block has no header yet  *)
(* and that of any other holds the size of its successor.  free reads and  *)
(* clears the header; no memory is used again.                             *)
(*                                                                         *)
(* Left out: the contents of blocks (free clears one byte), the position   *)
(* malloc writes beside the size (free tests it only together with the     *)
(* size), and the histories of sizes, which nothing reads.                 *)
(***************************************************************************)
EXTENDS Integers, Sequences, FiniteSetsExt

CONSTANTS
    HEAP_START, HEAP_END,  \* 0xC00000 and 0x8000000
    PAGE_SIZE,             \* 0x1000
    ALLOC_SIZE_HEADER,     \* 8
    physical_memory,       \* the bytes the machine has
    Word,                  \* 2^32: the counters are unsigned long
    Requests,              \* the sizes callers ask for
    MaxRequest,            \* the largest of them
    Unwritten              \* the sizes memory may hold before it is written

\* Requests that could make a counter wrap around are not covered.
ASSUME HeapAssumption ==
    /\ HEAP_START \in Nat /\ PAGE_SIZE \in Nat /\ ALLOC_SIZE_HEADER \in Nat \ {0}
    /\ HEAP_END \in Nat /\ HEAP_START + PAGE_SIZE + ALLOC_SIZE_HEADER < HEAP_END
    /\ physical_memory \in Nat \ {0} /\ Word \in Nat /\ MaxRequest \in Nat
    /\ Requests \subseteq 0 .. MaxRequest /\ Unwritten \subseteq 0 .. MaxRequest
    /\ HEAP_END + MaxRequest < Word /\ physical_memory + MaxRequest < Word

VARIABLES
    heap_current,          \* the address of the latest block
    heap_last_position,
    heap_last_size,        \* the bytes said to remain
    heap_last_size_alloc,  \* the size of the latest block
    heap_alloc_available,  \* the bytes said to be in use
    header,                \* the size in the header below each address
    panicked,              \* panic() has halted the machine
    blocks                 \* the blocks returned so far, the latest last

vars == <<heap_current, heap_last_position, heap_last_size,
          heap_last_size_alloc, heap_alloc_available, header, panicked, blocks>>

heap_size == HEAP_END - HEAP_START
Addresses == 0 .. Word - 1
Unknown == -1          \* in a header nothing has been written to
Headers == 0 .. MaxRequest \cup {Unknown}
Blocks == [addr : Addresses, size : 1 .. MaxRequest]

Plus(x, y)  == (x + y) % Word
Minus(x, y) == (x - y) % Word

TypeOK ==
    /\ heap_current \in Addresses
    /\ heap_last_position \in Addresses
    /\ heap_last_size \in Addresses
    /\ heap_last_size_alloc \in 0 .. MaxRequest
    /\ heap_alloc_available \in Addresses
    /\ header \in [Addresses -> Headers]
    /\ panicked \in BOOLEAN
    /\ blocks \in Seq(Blocks)

-----------------------------------------------------------------------------
init_heap ==
    LET first == HEAP_START + PAGE_SIZE + ALLOC_SIZE_HEADER
    IN  /\ heap_current = first
        /\ heap_last_position = first
        /\ heap_last_size = heap_size
        /\ heap_last_size_alloc = 0
        /\ heap_alloc_available = 0
        /\ header = [a \in Addresses |-> Unknown]
        /\ panicked = FALSE
        /\ blocks = <<>>

\* The program break moves past the block before, and returns where it was.
sbrk(len) == /\ heap_current' = Plus(heap_current, len)
             /\ heap_last_size' = Minus(heap_last_size, len)

LimitReached(used) == used >= physical_memory - 1

\* The calls that return NULL and change nothing.
Refused(size) ==
    \/ heap_last_position < HEAP_START + PAGE_SIZE - ALLOC_SIZE_HEADER
    \/ heap_last_position >= HEAP_END - ALLOC_SIZE_HEADER
    \/ size = 0

NewMove(size) == size + ALLOC_SIZE_HEADER

\* How far the break moves for a block of this size: past the block before.
Move(size) == heap_last_size_alloc + ALLOC_SIZE_HEADER

malloc(size) ==
    /\ ~panicked /\ ~Refused(size)
    /\ header' = [header EXCEPT ![heap_current] = size]
    /\ sbrk(Move(size))
    /\ heap_last_size_alloc' = size
    /\ heap_last_position' = Plus(heap_last_position, size + ALLOC_SIZE_HEADER)
    /\ heap_alloc_available' = Plus(heap_alloc_available, size)
    /\ panicked' = \/ 0 \in {heap_current, heap_current'}
                   \/ heap_last_size' < HEAP_START
                   \/ LimitReached(heap_alloc_available')
    /\ blocks' = IF panicked'
                   THEN blocks
                   ELSE Append(blocks, [addr |-> heap_current', size |-> size])

\* What free reads in the header of the block at address a.
HeaderSizes(a) == IF header[a] = Unknown THEN Unwritten ELSE {header[a]}

GiveBack(size) == heap_last_size' = Plus(heap_last_size, size)

KeepHeader(a) == UNCHANGED header
ClearHeader(a) == header' = [header EXCEPT ![a] = 0]

\* A header that is clear, because it is not written yet or the block has been
\* freed before, ends the call at once.
free(a) ==
    /\ ~panicked
    /\ \E size \in HeaderSizes(a) \ {0} :
          /\ heap_alloc_available' = Minus(heap_alloc_available, size)
          /\ GiveBack(size)
    /\ panicked' = \/ heap_last_size' > heap_size
                   \/ LimitReached(heap_alloc_available')
    /\ IF panicked' THEN UNCHANGED header ELSE ClearHeader(a)
    /\ UNCHANGED <<heap_current, heap_last_position, heap_last_size_alloc, blocks>>

Init == init_heap

Next == \/ \E size \in Requests : malloc(size)
        \/ \E i \in DOMAIN blocks : free(blocks[i].addr)

Spec == Init /\ [][Next]_vars

-----------------------------------------------------------------------------
(* Safety.                                                                 *)

\* The bytes of a block and of the header below it.
Region(b) == b.addr - ALLOC_SIZE_HEADER .. b.addr + b.size - 1

\* No two blocks that malloc returned share a byte, nor does a block share one
\* with the header of another, in spite of the header being written one call
\* late and the break moving by the size of the call before.
BlocksDisjoint ==
    \A i, j \in DOMAIN blocks :
        i # j => Region(blocks[i]) \cap Region(blocks[j]) = {}

\* malloc tests where the block before ends, not the one it returns: every block
\* starts inside the heap, and only the latest can end past it.
OnlyLatestPastEnd ==
    \A i \in DOMAIN blocks :
        /\ blocks[i].addr \in HEAP_START .. HEAP_END - 1
        /\ i < Len(blocks) => blocks[i].addr + blocks[i].size < HEAP_END

\* What the heap says remains is never less than what lies between the latest
\* block and the end: malloc does not panic for lack of room while HEAP_START
\* bytes are left, however many blocks were freed and whatever their headers held.
RemainingCoversRest == heap_last_size >= HEAP_END - heap_last_position

\* What programs rely on: blocks of their own, inside the heap, while there is room.
BlocksAreSound == BlocksDisjoint /\ OnlyLatestPastEnd /\ RemainingCoversRest

\* The bytes said to be in use are the first block and every block whose
\* predecessor has not been freed: freeing a block, once or twice, never counts
\* off more than was counted, so the unsigned counter does not wrap around.
CountedBlocks ==
    {i \in DOMAIN blocks : i = 1 \/ header[blocks[i - 1].addr] # 0}
UseIsCounted ==
    ~panicked => heap_alloc_available
                   = MapThenSumSet(LAMBDA i : blocks[i].size, CountedBlocks)

\* free panics when more bytes remain than the heap has: its own check takes
\* for granted that this does not happen.
NeverMoreThanAll == heap_last_size <= heap_size

=============================================================================
