-------------------------------- MODULE Vmm --------------------------------
(***************************************************************************)
(* The virtual memory manager, usr/drivers/vmm.c: a table with one entry   *)
(* per page, from which blocks of consecutive pages are handed out first   *)
(* fit.  alloc_pages, set on the first page of a block only, is what       *)
(* vmm_free and vmm_stats know a block by.                                 *)
(*                                                                         *)
(* hung says that an assertion failed: __assert_fail loops for ever        *)
(* (lib/libc/cdefs.c:19-28).  ret is a history variable, the last call and *)
(* what it answered.                                                       *)
(***************************************************************************)
EXTENDS Integers, FiniteSets, FiniteSetsExt

CONSTANTS
  MaxPages,      \* VMM_MAX_PAGES (1024)
  PageSize,      \* VMM_PAGE_SIZE (4096)
  BaseAddress,   \* VMM_BASE_ADDRESS (0x100000)
  AddrSpace,     \* number of values of a size_t or a uintptr_t (2^32)
  Sizes,         \* byte sizes callers ask for
  Aligns,        \* alignments callers ask for
  Tags,          \* tags callers set
  KERNEL_TAG,    \* VMM_TAG_KERNEL
  Addrs,         \* addresses callers free, tag or read
  RangeInputs    \* arguments of vmm_reserve_range: pairs <<start, end>>

ASSUME VmmAssumption ==
  /\ MaxPages \in Nat \ {0}
  /\ PageSize \in Nat \ {0}
  /\ BaseAddress \in Nat \ {0}
  /\ AddrSpace \in Nat /\ BaseAddress + MaxPages * PageSize < AddrSpace
  /\ Sizes \subseteq 0 .. AddrSpace - 1
  /\ Aligns \subseteq 0 .. AddrSpace - 1
  /\ Addrs \subseteq 0 .. AddrSpace - 1
  /\ KERNEL_TAG # 0

VARIABLES vmm_initialized, page_table, hung, ret

vars == <<vmm_initialized, page_table, hung, ret>>

NULL == 0
Pages == 0 .. MaxPages - 1
PageStates == {"FREE", "USED", "RESERVED"}
TagValues == Tags \cup {0, KERNEL_TAG}
PageEntry ==
  [state : PageStates, alloc_pages : 0 .. MaxPages, tag : TagValues, is_kernel : BOOLEAN]

FreePage == [state |-> "FREE", alloc_pages |-> 0, tag |-> 0, is_kernel |-> FALSE]

Answer(call, pages, align, value) ==
  [call |-> call, pages |-> pages, align |-> align, value |-> value]

-----------------------------------------------------------------------------
(* Addresses, sizes and blocks.                                            *)

BaseAddr(i) == BaseAddress + i * PageSize
AlignDown(a) == a - (a % PageSize)
AlignUp(a) == AlignDown((a + PageSize - 1) % AddrSpace)

\* The page that contains an address, as a set with at most one element.
PageAt(addr) == {i \in Pages : BaseAddr(i) <= addr /\ addr < BaseAddr(i) + PageSize}

\* The sum wraps around before it is divided.
PagesNeeded(size) == ((size + PageSize - 1) % AddrSpace) \div PageSize

PowerOfTwo(a) == \E k \in 0 .. a : 2 ^ k = a

Run(i, n) == i .. i + n - 1

\* Mutants: only the first page is tested; a block may not reach the end of the table.
FitsFirstPage(n, align) ==
  {i \in Pages : /\ i + n <= MaxPages
                 /\ align > PageSize => BaseAddr(i) % align = 0
                 /\ page_table[i].state = "FREE"}
FitsBeforeEnd(n, align) ==
  {i \in Pages : /\ i + n < MaxPages
                 /\ align > PageSize => BaseAddr(i) % align = 0
                 /\ \A p \in Run(i, n) : page_table[p].state = "FREE"}

\* Pages at which vmm_alloc_internal may start a block of n pages.
Fits(n, align) ==
  {i \in Pages : /\ i + n <= MaxPages
                 /\ align > PageSize => BaseAddr(i) % align = 0
                 /\ \A p \in Run(i, n) : page_table[p].state = "FREE"}

FirstFit(n, align) == Min(Fits(n, align))

Heads == {i \in Pages : page_table[i].alloc_pages > 0}
Extent(h) == Run(h, page_table[h].alloc_pages)

-----------------------------------------------------------------------------
(* Operations.                                                             *)

\* Before vmm_init the table is all zeros: its pages have no address.
Init ==
  /\ vmm_initialized = FALSE
  /\ page_table = [i \in Pages |-> FreePage]
  /\ hung = FALSE
  /\ ret = Answer("none", 0, 0, NULL)

VmmInit ==
  /\ vmm_initialized' = TRUE
  /\ page_table' = IF vmm_initialized THEN page_table ELSE [i \in Pages |-> FreePage]
  /\ ret' = Answer("init", 0, 0, NULL)
  /\ UNCHANGED hung

AssertionFails ==
  /\ hung' = TRUE
  /\ ret' = Answer("assert", 0, 0, NULL)
  /\ UNCHANGED <<vmm_initialized, page_table>>

InRange(i, start, end) == AlignDown(start) <= BaseAddr(i) /\ BaseAddr(i) < AlignUp(end)

VmmReserveRange(start, end) ==
  \/ ~vmm_initialized /\ AssertionFails
  \/ /\ vmm_initialized
     /\ page_table' = [i \in Pages |->
          IF InRange(i, start, end)
          THEN [page_table[i] EXCEPT !.state = "RESERVED", !.tag = KERNEL_TAG,
                                     !.is_kernel = TRUE]
          ELSE page_table[i]]
     /\ ret' = Answer("reserve_range", 0, 0, NULL)
     /\ UNCHANGED <<vmm_initialized, hung>>

Rejected ==
  /\ ret' = Answer("alloc", 0, 0, NULL)
  /\ UNCHANGED <<vmm_initialized, page_table, hung>>

\* Mutant: every page of a block gets its length.
MarkUsedEveryPage(i, n, tag, kernel) ==
  page_table' = [p \in Pages |->
    IF p \in Run(i, n)
    THEN [state |-> "USED", alloc_pages |-> n, tag |-> tag, is_kernel |-> kernel]
    ELSE page_table[p]]

MarkUsed(i, n, tag, kernel) ==
  page_table' = [p \in Pages |->
    IF p \in Run(i, n)
    THEN [state |-> "USED", alloc_pages |-> IF p = i THEN n ELSE 0,
          tag |-> tag, is_kernel |-> kernel]
    ELSE page_table[p]]

VmmAllocInternal(n, align, tag, kernel) ==
  \/ (~vmm_initialized \/ n = 0) /\ AssertionFails
  \/ /\ vmm_initialized /\ n > 0
     /\ \/ /\ Fits(n, align) # {}
           /\ MarkUsed(FirstFit(n, align), n, tag, kernel)
           /\ ret' = Answer("alloc", n, align, BaseAddr(FirstFit(n, align)))
        \/ /\ Fits(n, align) = {}
           /\ ret' = Answer("alloc", n, align, NULL)
           /\ UNCHANGED page_table
     /\ UNCHANGED <<vmm_initialized, hung>>

Accepted(size) == size # 0 /\ PagesNeeded(size) <= MaxPages

VmmAllocTagged(size, tag, kernel) ==
  \/ ~Accepted(size) /\ Rejected
  \/ Accepted(size) /\ VmmAllocInternal(PagesNeeded(size), PageSize, tag, kernel)

VmmAlloc(size) == VmmAllocTagged(size, 0, FALSE)

VmmAllocAligned(size, align) ==
  \/ ~(Accepted(size) /\ PowerOfTwo(align)) /\ Rejected
  \/ Accepted(size) /\ PowerOfTwo(align) /\ VmmAllocInternal(PagesNeeded(size), align, 0, FALSE)

\* The page whose block vmm_free gives back, as a set with at most one element.
FreeTarget(addr) ==
  IF addr = NULL \/ ~vmm_initialized THEN {}
  ELSE {i \in PageAt(addr) : /\ page_table[i].state = "USED"
                             /\ page_table[i].alloc_pages > 0
                             /\ i + page_table[i].alloc_pages <= MaxPages}

\* Mutant: only the first page is given back.
FreedHead(h) == {h}

\* The loop stops at the first page that is not in use: the rest stays as it is.
FreedPages(h) == {p \in Extent(h) : \A q \in h .. p : page_table[q].state = "USED"}

VmmFree(addr) ==
  /\ page_table' = [i \in Pages |->
       IF \E h \in FreeTarget(addr) : i \in FreedPages(h) THEN FreePage ELSE page_table[i]]
  /\ ret' = Answer("free", IF FreeTarget(addr) = {} THEN 0 ELSE 1, 0, NULL)
  /\ UNCHANGED <<vmm_initialized, hung>>

VmmSetTag(addr, tag) ==
  /\ page_table' = [i \in Pages |->
       IF /\ vmm_initialized /\ addr # NULL /\ i \in PageAt(addr)
          /\ page_table[i].state = "USED"
       THEN [page_table[i] EXCEPT !.tag = tag] ELSE page_table[i]]
  /\ ret' = Answer("set_tag", 0, 0, NULL)
  /\ UNCHANGED <<vmm_initialized, hung>>

\* What vmm_stats counts at a page: at the first page of a block it jumps over the block.
Counted(i) == IF i \in Heads THEN page_table[i].alloc_pages ELSE 1

\* The three numbers of vmm_stats, in pages: what its loop counts from page i on.
VmmStats(state) ==
  LET from[i \in Nat] ==
        IF i >= MaxPages THEN 0
        ELSE (IF page_table[i].state = state THEN Counted(i) ELSE 0) + from[i + Counted(i)]
  IN from[0]

VmmGetTotalMemory == MaxPages * PageSize

\* The longest run of free pages, in bytes: the runs that end at each page.
VmmGetLargestFreeBlock ==
  LET current_free[i \in Pages] ==
        IF page_table[i].state # "FREE" THEN 0
        ELSE IF i = 0 THEN 1 ELSE current_free[i - 1] + 1
  IN Max({current_free[i] : i \in Pages}) * PageSize

VmmGetTag(addr) ==
  IF addr = NULL \/ ~vmm_initialized \/ PageAt(addr) = {} THEN 0
  ELSE page_table[Min(PageAt(addr))].tag

-----------------------------------------------------------------------------
(***************************************************************************)
(* Callers.  Next makes any call.  OrderedNext reserves a range only while *)
(* none of its pages is in use, as init code reserving before the first    *)
(* allocation does.                                                        *)
(***************************************************************************)
Allocate ==
  \/ \E size \in Sizes : VmmAlloc(size)
  \/ \E size \in Sizes, align \in Aligns : VmmAllocAligned(size, align)
  \/ \E size \in Sizes, tag \in Tags, kernel \in BOOLEAN : VmmAllocTagged(size, tag, kernel)

Others ==
  \/ VmmInit
  \/ \E addr \in Addrs : VmmFree(addr)
  \/ \E addr \in Addrs, tag \in Tags : VmmSetTag(addr, tag)

Next ==
  /\ ~hung
  /\ \/ Allocate
     \/ \E range \in RangeInputs : VmmReserveRange(range[1], range[2])
     \/ Others

Quiet(start, end) ==
  \A i \in Pages : InRange(i, start, end) => page_table[i].state # "USED"

OrderedNext ==
  /\ ~hung
  /\ \/ Allocate
     \/ \E range \in RangeInputs :
          Quiet(range[1], range[2]) /\ VmmReserveRange(range[1], range[2])
     \/ Others

Spec == Init /\ [][Next]_vars
OrderedSpec == Init /\ [][OrderedNext]_vars

-----------------------------------------------------------------------------
(* Properties.                                                             *)

\* Types, and what an entry says of its page: a free page carries nothing of the block
\* it was in, a reserved one is the kernel's (vmm.c:39-41, 164-167, 267-269).
TypeOK ==
  /\ vmm_initialized \in BOOLEAN
  /\ hung \in BOOLEAN
  /\ page_table \in [Pages -> PageEntry]
  /\ \A i \in Pages :
       /\ page_table[i].state = "FREE" => page_table[i] = FreePage
       /\ page_table[i].state = "RESERVED" =>
            page_table[i].tag = KERNEL_TAG /\ page_table[i].is_kernel

\* A block that was handed out lies inside the table, has no other block inside it and
\* no free page, whatever was reserved over it since: no part of it can be handed out
\* again before it is given back (vmm.c:68-87 against 153-167).
BlocksIntact ==
  \A h \in Heads :
    /\ h + page_table[h].alloc_pages <= MaxPages
    /\ \A p \in Extent(h) :
         /\ page_table[p].state # "FREE"
         /\ p # h => page_table[p].alloc_pages = 0

\* Two blocks share no page.
BlocksDisjoint == \A h, k \in Heads : h # k => Extent(h) \cap Extent(k) = {}

\* A reserved page stays reserved: no allocation takes it and freeing a block that
\* was partly reserved does not release it (vmm.9:21).
ReservedForever ==
  [][\A i \in Pages : page_table[i].state = "RESERVED" => page_table'[i].state = "RESERVED"]_vars

\* The counts of vmm_stats, which jumps from block to block, are the numbers of pages in
\* each state (vmm.9:45).
StatsExact ==
  \A s \in PageStates : VmmStats(s) = Cardinality({i \in Pages : page_table[i].state = s})

\* What the callers are told can be relied on: as many pages as the largest free block has
\* can be allocated, and no more; and only a page that is not free has a tag
\* (vmm.c:238-258, 275-286 against 46-91).
ReportsHold ==
  /\ \A n \in 1 .. MaxPages :
       Fits(n, PageSize) # {} <=> n * PageSize <= VmmGetLargestFreeBlock
  /\ VmmGetLargestFreeBlock <= VmmGetTotalMemory
  /\ \A addr \in Addrs :
       VmmGetTag(addr) # 0 => \E i \in PageAt(addr) : page_table[i].state # "FREE"

\* Every page in use belongs to a block, so vmm_free can release it (vmm.c:135-171).
NoOrphan ==
  \A i \in Pages : page_table[i].state = "USED" => \E h \in Heads : i \in Extent(h)

\* Every page in use belongs to a block that starts in front of it, the statistics count
\* every page once, and what callers are told of free blocks and tags holds
\* (vmm.c:135-175, 216-258, 275-286).
TableIsExact == StatsExact /\ NoOrphan /\ ReportsHold

\* Pages at which a block with the alignment may start.
Starts(align) == {i \in Pages : align > PageSize => BaseAddr(i) % align = 0}

\* The page table implements the allocator of BlockAllocator: blocks are the entries with a
\* length, withheld slots the reserved pages.  So a request is refused only when it does
\* not fit, and vmm_free gives back whole blocks (vmm.9:24-37).
Allocator == INSTANCE BlockAllocator WITH
  N <- MaxPages,
  Classes <- {Starts(align) : align \in {a \in Aligns : PowerOfTwo(a)} \cup {PageSize}},
  blocks <- {<<h, page_table[h].alloc_pages>> : h \in Heads},
  withheld <- {i \in Pages : page_table[i].state = "RESERVED"},
  answer <- IF ret.call # "alloc" \/ ret.pages = 0 THEN <<0, {}, -1>>
            ELSE <<ret.pages, Starts(ret.align),
                   IF ret.value = NULL THEN -1 ELSE (ret.value - BaseAddress) \div PageSize>>
AllocatorSpec == Allocator!Spec
=============================================================================
