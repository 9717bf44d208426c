-------------------------------- MODULE Heap --------------------------------
(***************************************************************************)
(* The heap of lib/libc/stdlib.c.  It only grows; a block is its header,   *)
(* which holds the aligned size, and its bytes.  The program writes every  *)
(* byte that it asked for, so that a block that reaches into another one   *)
(* shows.  Sizes wrap in the width of a size_t and nothing is refused: the *)
(* call that asks for more than there is behind end is made as the code    *)
(* makes it, and nothing is called after it.                               *)
(***************************************************************************)
EXTENDS Integers, FiniteSetsExt

CONSTANTS
  Width,        \* bits of a size_t, and of an int
  PtrSize,      \* sizeof(void *) and sizeof(size_t)
  HeapSize,     \* bytes of memory behind the symbol end
  Sizes,        \* bound: sizes asked for
  MaxBlocks     \* bound: blocks of one program

Modulus == 2 ^ Width

ASSUME HeapAssumption ==
  /\ Width \in Nat \ {0} /\ PtrSize \in 1 .. Modulus - 1 /\ Modulus % PtrSize = 0
  /\ HeapSize \in 0 .. Modulus - 1 /\ Sizes \subseteq 0 .. Modulus - 1 /\ MaxBlocks \in Nat

VARIABLES
  heap,           \* address -> what was written there last
  heap_end,
  blocks,         \* ghost: the blocks in use, [id, ptr, asked]
  exhausted,      \* history: a block was asked for that there is no memory for
  stdlib_ret      \* the last call and its result

heap_vars == <<heap, heap_end, blocks, exhausted, stdlib_ret>>

\* What was asked for, rounded up to whole pointers, and that in the width of a size_t.
RoundUp(n) == (n + PtrSize - 1) - ((n + PtrSize - 1) % PtrSize)
AlignedSize(n) == ((n + PtrSize - 1) % Modulus) - ((n + PtrSize - 1) % PtrSize)

\* There is memory for a block of this size and its header.
HasMemory(size) == heap_end + RoundUp(size) + PtrSize <= HeapSize

Returned(r) == stdlib_ret' = r

\* Mutant: no room for the header.
SbrkBytesOnly(size) == (heap_end + AlignedSize(size)) % Modulus

\* The header is added in a size_t too, and heap_end moves by the sum as a signed number: both wrap.
sbrk(size) == (heap_end + AlignedSize(size) + PtrSize) % Modulus

malloc_ptr == heap_end + PtrSize
Header(h, size) == [a \in DOMAIN h |-> IF a = heap_end THEN AlignedSize(size) ELSE h[a]]

\* The owner writes the bytes it asked for, from the first-th on.
Used(h, b, first) ==
  [a \in DOMAIN h |-> IF a - b.ptr \in first .. b.asked - 1 THEN -b.id ELSE h[a]]

Block(id, size) == [id |-> id, ptr |-> malloc_ptr, asked |-> size]
FreshId == Min((1 .. MaxBlocks + 1) \ {b.id : b \in blocks})

\* A block behind heap_end, of which the owner has the first bytes already in h.
MakeBlock(h, b, size, first) ==
  /\ heap' = Used(Header(h, size), b, first)
  /\ heap_end' = sbrk(size)
  /\ exhausted' = ~HasMemory(size)

malloc(size) ==
  IF size = 0
  THEN /\ Returned([fn |-> "malloc", ok |-> FALSE])
       /\ UNCHANGED <<heap, heap_end, blocks, exhausted>>
  ELSE /\ Cardinality(blocks) < MaxBlocks
       /\ MakeBlock(heap, Block(FreshId, size), size, 0)
       /\ blocks' = blocks \cup {Block(FreshId, size)}
       /\ Returned([fn |-> "malloc", ok |-> TRUE])

Overflow(num, size) == num # 0 /\ ((num * size) % Modulus) \div num # size

\* The program uses num * size bytes of what it gets.
calloc(num, size) ==
  LET total == (num * size) % Modulus
      b == [Block(FreshId, total) EXCEPT !.asked = num * size]
  IN IF Overflow(num, size) \/ total = 0
     THEN /\ Returned([fn |-> "calloc", ok |-> FALSE])
          /\ UNCHANGED <<heap, heap_end, blocks, exhausted>>
     ELSE /\ Cardinality(blocks) < MaxBlocks
          /\ MakeBlock(heap, b, total, 0)
          /\ blocks' = blocks \cup {b}
          /\ Returned([fn |-> "calloc", ok |-> TRUE])

\* The old header says how much there is to copy; the old block is given up.
realloc(b, size) ==
  IF size = 0
  THEN /\ blocks' = blocks \ {b} /\ Returned([fn |-> "realloc", ok |-> FALSE])
       /\ UNCHANGED <<heap, heap_end, exhausted>>
  ELSE LET copy_size == Min({heap[b.ptr - PtrSize], size})
           new == Block(b.id, size)
           copied == [a \in DOMAIN heap |->
                        IF a - new.ptr \in 0 .. copy_size - 1 THEN heap[b.ptr + a - new.ptr] ELSE heap[a]]
       IN /\ MakeBlock(copied, new, size, b.asked)
          /\ blocks' = (blocks \ {b}) \cup {new}
          /\ Returned([fn |-> "realloc", ok |-> TRUE])

\* free changes nothing: the program forgets the block.
free(b) ==
  /\ blocks' = blocks \ {b} /\ Returned([fn |-> "free"])
  /\ UNCHANGED <<heap, heap_end, exhausted>>

HeapCall ==
  /\ ~exhausted
  /\ stdlib_ret.fn \in {"none", "malloc", "calloc", "realloc", "free"}
  /\ \/ \E size \in Sizes : malloc(size)
     \/ \E num, size \in Sizes : calloc(num, size)
     \/ \E b \in blocks, size \in Sizes : realloc(b, size)
     \/ \E b \in blocks : free(b)

HeapInit ==
  /\ heap = [a \in 0 .. HeapSize - 1 |-> 0] /\ heap_end = 0 /\ blocks = {}
  /\ exhausted = FALSE /\ stdlib_ret = [fn |-> "none"]

HeapSpec == HeapInit /\ [][HeapCall]_heap_vars

-----------------------------------------------------------------------------
\* Whatever is allocated, grown, shrunk and released in whatever order: every block in use holds
\* what its owner wrote, has the room it was asked for, and its header says so; no two overlap,
\* their headers included.  That holds as long as there was memory for every block, whose size
\* calloc multiplied; the code does not notice when there is none (stdlib.c:21-74).
HeapKeepsBlocks ==
  ~exhausted => \A b \in blocks :
    /\ \A k \in 0 .. b.asked - 1 : heap[b.ptr + k] = -b.id
    /\ heap[b.ptr - PtrSize] >= b.asked
    /\ b.ptr + b.asked <= heap_end
    /\ \A c \in blocks \ {b} :
         b.ptr + b.asked <= c.ptr - PtrSize \/ c.ptr + c.asked <= b.ptr - PtrSize
=============================================================================
