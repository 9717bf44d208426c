----------------------------- MODULE VmmProofs -----------------------------
(***************************************************************************)
(* Theorems about Vmm for a page table of any size.  BlocksIntact is       *)
(* inductive together with the types: a new block is made of free pages,   *)
(* no page of another block is free, and giving a block back touches only  *)
(* its own pages.  The statistics are the table's: the loops that count    *)
(* are functions of the page they have come to.                            *)
(***************************************************************************)
EXTENDS Vmm, MinLemmas, FiniteSetTheorems

Inv == TypeOK /\ BlocksIntact

\* A step keeps the invariant if it keeps the two parts of it.
LEMMA Entries ==
  ASSUME TypeOK, NEW i \in Pages
  PROVE  /\ page_table[i] \in PageEntry
         /\ page_table[i].state \in PageStates
         /\ page_table[i].alloc_pages \in 0 .. MaxPages
         /\ page_table[i].tag \in TagValues
         /\ page_table[i].is_kernel \in BOOLEAN
         /\ page_table[i].state = "FREE" => page_table[i] = FreePage
<1>1. page_table[i] \in PageEntry
  BY DEF TypeOK
<1> QED BY <1>1 DEF TypeOK, PageEntry

LEMMA FreePageEntry == FreePage \in PageEntry
<1>1. 0 \in 0 .. MaxPages
  BY VmmAssumption
<1> QED BY <1>1 DEF FreePage, PageEntry, PageStates, TagValues

\* A block and what is inside it.
LEMMA Block ==
  ASSUME Inv, NEW h \in Heads
  PROVE  /\ h \in Nat /\ page_table[h].alloc_pages \in Nat /\ page_table[h].alloc_pages > 0
         /\ h + page_table[h].alloc_pages <= MaxPages
         /\ h \in Pages /\ h \in Extent(h) /\ Extent(h) \subseteq Pages
         /\ \A p \in Extent(h) : /\ page_table[p].state # "FREE"
                                 /\ p # h => page_table[p].alloc_pages = 0
<1>1. /\ h \in Pages /\ page_table[h].alloc_pages \in 0 .. MaxPages
      /\ page_table[h].alloc_pages > 0 /\ h + page_table[h].alloc_pages <= MaxPages
  BY Entries DEF Inv, BlocksIntact, Heads
<1>2. h \in Extent(h) /\ Extent(h) \subseteq Pages
  BY <1>1, VmmAssumption DEF Extent, Run, Pages
<1> QED BY <1>1, <1>2 DEF Inv, BlocksIntact, Pages

\* Blocks share no page: the head of the later one would lie inside the earlier one.
LEMMA Disjoint == Inv => BlocksDisjoint
<1> SUFFICES ASSUME Inv, NEW h \in Heads, NEW k \in Heads, h # k, NEW p \in Extent(h) \cap Extent(k)
             PROVE  FALSE
  BY DEF BlocksDisjoint
<1>1. h \in Nat /\ k \in Nat /\ p \in Nat
  BY Block DEF Pages
<1>2. CASE h < k
  <2>1. k \in Extent(h)
    BY <1>1, <1>2, Block DEF Extent, Run
  <2> QED BY <2>1, Block
<1>3. CASE k < h
  <2>1. h \in Extent(k)
    BY <1>1, <1>3, Block DEF Extent, Run
  <2> QED BY <2>1, Block
<1> QED BY <1>1, <1>2, <1>3

\* Rounding a size up gives a natural number of pages, whether or not the sum wraps.
LEMMA PagesNeededNat ==
  ASSUME NEW size \in Sizes
  PROVE  PagesNeeded(size) \in Nat
<1>1. size \in Nat /\ PageSize \in Nat /\ PageSize > 0 /\ AddrSpace \in Nat /\ AddrSpace > 0
  BY VmmAssumption
<1>2. (size + PageSize - 1) % AddrSpace \in Nat
  BY <1>1
<1> QED BY <1>1, <1>2 DEF PagesNeeded

-----------------------------------------------------------------------------
(* Each operation keeps the invariant.                                     *)

LEMMA InitInv == Init => Inv
<1> SUFFICES ASSUME Init PROVE Inv
  OBVIOUS
<1>1. \A i \in Pages : page_table[i] = FreePage
  BY DEF Init
<1>2. page_table \in [Pages -> PageEntry]
  BY FreePageEntry DEF Init
<1>3. Heads = {}
  BY <1>1 DEF Heads, FreePage
<1> QED BY <1>1, <1>2, <1>3 DEF Init, Inv, TypeOK, BlocksIntact, FreePage

\* A call that leaves the table alone.
LEMMA SameTable ==
  ASSUME Inv, page_table' = page_table, vmm_initialized' \in BOOLEAN, hung' \in BOOLEAN
  PROVE  Inv'
BY DEF Inv, TypeOK, BlocksIntact, Heads, Extent

LEMMA VmmInitInv == ASSUME Inv, VmmInit PROVE Inv'
<1>1. CASE vmm_initialized
  BY <1>1, SameTable DEF VmmInit, Inv, TypeOK
<1>2. CASE ~vmm_initialized
  <2>1. page_table' = [i \in Pages |-> FreePage]
    BY <1>2 DEF VmmInit
  <2>2. Heads' = {}
    BY <2>1 DEF Heads, FreePage
  <2>3. page_table' \in [Pages -> PageEntry]
    BY <2>1, FreePageEntry
  <2> QED BY <2>1, <2>2, <2>3 DEF VmmInit, Inv, TypeOK, BlocksIntact, FreePage
<1> QED BY <1>1, <1>2

\* A change of the entries that keeps every length and frees no page.
LEMMA SameBlocks ==
  ASSUME Inv, TypeOK',
         \A i \in Pages : /\ page_table'[i].alloc_pages = page_table[i].alloc_pages
                          /\ page_table'[i].state = "FREE" => page_table[i].state = "FREE"
  PROVE  Inv'
<1>1. Heads' = Heads /\ \A h \in Heads : Extent(h)' = Extent(h)
  BY DEF Heads, Extent
<1>2. \A h \in Heads : Extent(h) \subseteq Pages /\ h \in Pages
  BY Block
<1> QED BY <1>1, <1>2 DEF Inv, BlocksIntact

LEMMA VmmReserveRangeInv ==
  ASSUME Inv, NEW start, NEW end, VmmReserveRange(start, end)
  PROVE  Inv'
<1>1. CASE ~vmm_initialized /\ AssertionFails
  BY <1>1, SameTable DEF AssertionFails, Inv, TypeOK
<1>2. CASE vmm_initialized
  <2> DEFINE reserved(e) == [e EXCEPT !.state = "RESERVED", !.tag = KERNEL_TAG, !.is_kernel = TRUE]
  <2>1. page_table' = [i \in Pages |-> IF InRange(i, start, end) THEN reserved(page_table[i])
                                        ELSE page_table[i]]
    BY <1>2 DEF VmmReserveRange
  <2>2. ASSUME NEW i \in Pages
        PROVE  /\ reserved(page_table[i]) \in PageEntry
               /\ reserved(page_table[i]).state = "RESERVED"
               /\ reserved(page_table[i]).tag = KERNEL_TAG /\ reserved(page_table[i]).is_kernel
               /\ reserved(page_table[i]).alloc_pages = page_table[i].alloc_pages
    BY Entries DEF Inv, PageEntry, PageStates, TagValues
  <2> HIDE DEF reserved
  <2>3. TypeOK'
    BY <1>2, <2>1, <2>2 DEF VmmReserveRange, Inv, TypeOK
  <2> QED BY <2>1, <2>2, <2>3, SameBlocks
<1> QED BY <1>1, <1>2 DEF VmmReserveRange

LEMMA VmmSetTagInv ==
  ASSUME Inv, NEW addr, NEW tag \in Tags, VmmSetTag(addr, tag)
  PROVE  Inv'
<1>1. \A i \in Pages : page_table'[i] = page_table[i] \/
        (page_table[i].state = "USED" /\ page_table'[i] = [page_table[i] EXCEPT !.tag = tag])
  BY DEF VmmSetTag
<1>2. ASSUME NEW i \in Pages, page_table[i].state = "USED"
      PROVE  /\ [page_table[i] EXCEPT !.tag = tag] \in PageEntry
             /\ [page_table[i] EXCEPT !.tag = tag].state = "USED"
             /\ [page_table[i] EXCEPT !.tag = tag].alloc_pages = page_table[i].alloc_pages
  BY <1>2, Entries DEF Inv, PageEntry, TagValues
<1>3. page_table' \in [Pages -> PageEntry]
  <2>1. \A i \in Pages : page_table'[i] \in PageEntry
    BY <1>1, <1>2, Entries DEF Inv
  <2> QED BY <2>1 DEF VmmSetTag
<1>4. TypeOK'
  BY <1>1, <1>2, <1>3 DEF VmmSetTag, Inv, TypeOK
<1> QED BY <1>1, <1>2, <1>4, SameBlocks

\* A block of n pages on free pages from i on.
LEMMA MarkUsedInv ==
  ASSUME Inv, NEW i \in Pages, NEW n \in 1 .. MaxPages, i + n <= MaxPages,
         \A p \in Run(i, n) : page_table[p].state = "FREE",
         NEW tag \in TagValues, NEW kernel \in BOOLEAN, MarkUsed(i, n, tag, kernel),
         UNCHANGED <<vmm_initialized, hung>>
  PROVE  Inv'
<1> DEFINE entry(p) == [state |-> "USED", alloc_pages |-> IF p = i THEN n ELSE 0,
                        tag |-> tag, is_kernel |-> kernel]
<1>1. page_table' = [p \in Pages |-> IF p \in Run(i, n) THEN entry(p) ELSE page_table[p]]
  BY DEF MarkUsed
<1>2. /\ \A p \in Pages : entry(p) \in PageEntry /\ entry(p).state = "USED"
      /\ \A p \in Pages : p # i => entry(p).alloc_pages = 0
      /\ entry(i).alloc_pages = n
  BY VmmAssumption DEF PageEntry, PageStates
<1> HIDE DEF entry
<1>3. Run(i, n) \subseteq Pages /\ i \in Run(i, n) /\ i \in Nat /\ n \in Nat
  BY VmmAssumption DEF Run, Pages
<1>4. TypeOK'
  BY <1>1, <1>2, <1>3 DEF Inv, TypeOK
<1>5. \A h \in Heads : Extent(h) \cap Run(i, n) = {} /\ Extent(h) \subseteq Pages /\ h \in Extent(h)
  BY Block
<1>6. \A h \in Heads' : h = i \/ (h \in Heads /\ h \notin Run(i, n))
  BY <1>1, <1>2, <1>3 DEF Heads
<1>7. Extent(i)' = Run(i, n)
  BY <1>1, <1>2, <1>3 DEF Extent
<1>8. ASSUME NEW h \in Heads'
      PROVE  /\ h + page_table'[h].alloc_pages <= MaxPages
             /\ \A p \in Extent(h)' : /\ page_table'[p].state # "FREE"
                                      /\ p # h => page_table'[p].alloc_pages = 0
  <2>1. CASE h = i
    BY <1>1, <1>2, <1>3, <1>7, <2>1
  <2>2. CASE h # i
    <3>1. h \in Heads /\ h \in Pages /\ page_table'[h] = page_table[h]
      BY <1>1, <1>6, <2>2 DEF Heads
    <3>2. Extent(h)' = Extent(h) /\ \A p \in Extent(h) : p \in Pages /\ page_table'[p] = page_table[p]
      BY <1>1, <1>5, <3>1 DEF Extent
    <3> QED BY <3>1, <3>2, Block
  <2> QED BY <2>1, <2>2
<1> QED BY <1>4, <1>8 DEF Inv, BlocksIntact

LEMMA VmmAllocInternalInv ==
  ASSUME Inv, NEW n \in 0 .. MaxPages, NEW align, NEW tag \in TagValues, NEW kernel \in BOOLEAN,
         VmmAllocInternal(n, align, tag, kernel)
  PROVE  Inv'
<1>1. CASE AssertionFails
  BY <1>1, SameTable DEF AssertionFails, Inv, TypeOK
<1>2. CASE n > 0 /\ Fits(n, align) # {} /\ MarkUsed(FirstFit(n, align), n, tag, kernel)
            /\ UNCHANGED <<vmm_initialized, hung>>
  <2> DEFINE i == FirstFit(n, align)
  <2>1. Fits(n, align) \in SUBSET Nat
    BY DEF Fits, Pages
  <2>2. i \in Fits(n, align)
    BY <1>2, <2>1, MinIsLeast DEF FirstFit
  <2> HIDE DEF i
  <2>3. i \in Pages /\ i + n <= MaxPages /\ \A p \in Run(i, n) : page_table[p].state = "FREE"
    BY <2>2 DEF Fits
  <2>4. n \in 1 .. MaxPages /\ MarkUsed(i, n, tag, kernel)
    BY <1>2 DEF i
  <2> QED BY <1>2, <2>3, <2>4, MarkUsedInv
<1>3. CASE UNCHANGED <<page_table, vmm_initialized, hung>>
  BY <1>3, SameTable DEF Inv, TypeOK
<1> QED BY <1>1, <1>2, <1>3 DEF VmmAllocInternal

LEMMA AllocateInv == ASSUME Inv, Allocate PROVE Inv'
<1>1. ASSUME Rejected PROVE Inv'
  BY <1>1, SameTable DEF Rejected, Inv, TypeOK
<1>2. ASSUME NEW size \in Sizes, Accepted(size) PROVE PagesNeeded(size) \in 0 .. MaxPages
  BY <1>2, PagesNeededNat, VmmAssumption DEF Accepted
<1>3. 0 \in TagValues /\ FALSE \in BOOLEAN /\ Tags \subseteq TagValues
  BY DEF TagValues
<1>4. ASSUME NEW size \in Sizes, VmmAlloc(size) PROVE Inv'
  BY <1>1, <1>2, <1>3, <1>4, VmmAllocInternalInv DEF VmmAlloc, VmmAllocTagged
<1>5. ASSUME NEW size \in Sizes, NEW align \in Aligns, VmmAllocAligned(size, align) PROVE Inv'
  BY <1>1, <1>2, <1>3, <1>5, VmmAllocInternalInv DEF VmmAllocAligned
<1>6. ASSUME NEW size \in Sizes, NEW tag \in Tags, NEW kernel \in BOOLEAN,
             VmmAllocTagged(size, tag, kernel)
      PROVE  Inv'
  BY <1>1, <1>2, <1>3, <1>6, VmmAllocInternalInv DEF VmmAllocTagged
<1> QED BY <1>4, <1>5, <1>6 DEF Allocate

\* vmm_free gives back pages of one block only, its head among them.
LEMMA FreeTargetIsBlock ==
  ASSUME Inv, NEW addr, NEW h \in FreeTarget(addr)
  PROVE  h \in Heads /\ h \in FreedPages(h) /\ FreedPages(h) \subseteq Extent(h)
<1>1. h \in PageAt(addr) /\ page_table[h].state = "USED" /\ page_table[h].alloc_pages > 0
  BY DEF FreeTarget
<1>2. h \in Heads
  BY <1>1 DEF PageAt, Heads
<1>3. h \in Extent(h) /\ h \in Nat
  BY <1>2, Block
<1>4. h .. h = {h}
  BY <1>3
<1> QED BY <1>1, <1>2, <1>3, <1>4 DEF FreedPages

LEMMA VmmFreeInv == ASSUME Inv, NEW addr, VmmFree(addr) PROVE Inv'
<1> DEFINE freed == {i \in Pages : \E h \in FreeTarget(addr) : i \in FreedPages(h)}
<1>1. page_table' = [i \in Pages |-> IF i \in freed THEN FreePage ELSE page_table[i]]
  BY DEF VmmFree
<1>2. \A h \in FreeTarget(addr) : h \in Heads /\ h \in freed /\ FreedPages(h) \subseteq Extent(h)
  BY FreeTargetIsBlock, Block
<1>3. \A i \in freed : \E h \in FreeTarget(addr) : i \in Extent(h)
  BY <1>2
<1> HIDE DEF freed
<1>4. TypeOK'
  BY <1>1, FreePageEntry DEF VmmFree, Inv, TypeOK, FreePage
<1>5. ASSUME NEW k \in Heads'
      PROVE  /\ k \in Heads /\ k \in Pages /\ page_table'[k] = page_table[k]
             /\ Extent(k)' = Extent(k)
             /\ \A p \in Extent(k) : p \in Pages /\ page_table'[p] = page_table[p]
  <2>1. k \in Pages /\ k \notin freed
    BY <1>1 DEF Heads, FreePage
  <2>2. k \in Heads /\ page_table'[k] = page_table[k] /\ Extent(k)' = Extent(k)
    BY <1>1, <2>1 DEF Heads, Extent
  <2>3. \A h \in FreeTarget(addr) : h # k /\ Extent(h) \cap Extent(k) = {}
    BY <1>2, <2>1, <2>2, Disjoint DEF BlocksDisjoint
  <2>4. Extent(k) \cap freed = {}
    BY <1>3, <2>3
  <2>5. Extent(k) \subseteq Pages
    BY <2>2, Block
  <2> QED BY <1>1, <2>1, <2>2, <2>4, <2>5
<1>6. BlocksIntact'
  BY <1>5, Block DEF BlocksIntact
<1> QED BY <1>4, <1>6 DEF Inv

LEMMA NextInv == Inv /\ [Next]_vars => Inv'
<1> SUFFICES ASSUME Inv, [Next]_vars PROVE Inv'
  OBVIOUS
<1>1. CASE Allocate
  BY <1>1, AllocateInv
<1>2. CASE \E range \in RangeInputs : VmmReserveRange(range[1], range[2])
  BY <1>2, VmmReserveRangeInv
<1>3. CASE Others
  BY <1>3, VmmInitInv, VmmFreeInv, VmmSetTagInv DEF Others
<1>4. CASE UNCHANGED vars
  BY <1>4, SameTable DEF vars, Inv, TypeOK
<1> QED BY <1>1, <1>2, <1>3, <1>4 DEF Next

-----------------------------------------------------------------------------
(* Theorems.                                                               *)

LEMMA Invariance == Spec => []Inv
<1> QED BY InitInv, NextInv, PTL DEF Spec

\* Types, for a table of any size and any calls.
THEOREM Typing == Spec => []TypeOK
<1>1. Inv => TypeOK
  BY DEF Inv
<1> QED BY <1>1, Invariance, PTL

\* A block that was handed out stays whole and allocated until it is given back.
THEOREM BlocksStayIntact == Spec => []BlocksIntact
<1>1. Inv => BlocksIntact
  BY DEF Inv
<1> QED BY <1>1, Invariance, PTL

\* No two blocks share a page.
THEOREM BlocksStayDisjoint == Spec => []BlocksDisjoint
<1> QED BY Disjoint, Invariance, PTL

-----------------------------------------------------------------------------
(* Reserved pages.                                                         *)

\* Before vmm_init has run no page is reserved, so that it does not undo a reservation.
NothingBeforeInit ==
  ~vmm_initialized => \A i \in Pages : page_table[i].state # "RESERVED"

Inv2 == Inv /\ NothingBeforeInit

Kept == \A i \in Pages : page_table[i].state = "RESERVED" => page_table'[i].state = "RESERVED"

\* Every call keeps the reserved pages and reserves none before vmm_init.
LEMMA StepKeeps ==
  ASSUME Inv2, [Next]_vars
  PROVE  Kept /\ NothingBeforeInit'
<1> USE DEF Inv2, Kept, NothingBeforeInit
<1>1. ASSUME UNCHANGED page_table, vmm_initialized' = vmm_initialized
      PROVE  Kept /\ NothingBeforeInit'
  BY <1>1
<1>2. ASSUME NEW n, n > 0, NEW align, NEW tag, NEW kernel,
             VmmAllocInternal(n, align, tag, kernel)
      PROVE  Kept /\ NothingBeforeInit'
  <2>1. CASE AssertionFails
    BY <2>1, <1>1 DEF AssertionFails
  <2>2. CASE UNCHANGED <<page_table, vmm_initialized>>
    BY <2>2, <1>1
  <2>3. CASE /\ vmm_initialized /\ vmm_initialized' /\ Fits(n, align) # {}
             /\ MarkUsed(FirstFit(n, align), n, tag, kernel)
    <3>1. Fits(n, align) \in SUBSET Nat
      BY DEF Fits, Pages
    <3>2. FirstFit(n, align) \in Fits(n, align)
      BY <2>3, <3>1, MinIsLeast DEF FirstFit
    <3>3. \A p \in Run(FirstFit(n, align), n) : page_table[p].state = "FREE"
      BY <3>2 DEF Fits
    <3> QED BY <2>3, <3>3 DEF MarkUsed
  <2> QED BY <1>2, <2>1, <2>2, <2>3 DEF VmmAllocInternal
<1>3. ASSUME NEW size \in Sizes, Accepted(size), NEW align, NEW tag, NEW kernel,
             VmmAllocInternal(PagesNeeded(size), align, tag, kernel)
      PROVE  Kept /\ NothingBeforeInit'
  <2>1. CASE PagesNeeded(size) > 0
    BY <1>2, <1>3, <2>1
  <2>2. CASE PagesNeeded(size) = 0
    BY <1>1, <1>3, <2>2 DEF VmmAllocInternal, AssertionFails
  <2> QED BY <2>1, <2>2, PagesNeededNat
<1>4. CASE Allocate
  <2>1. ASSUME Rejected PROVE Kept /\ NothingBeforeInit'
    BY <1>1, <2>1 DEF Rejected
  <2> QED BY <1>3, <1>4, <2>1 DEF Allocate, VmmAlloc, VmmAllocTagged, VmmAllocAligned
<1>5. CASE \E range \in RangeInputs : VmmReserveRange(range[1], range[2])
  <2> SUFFICES ASSUME NEW start, NEW end, VmmReserveRange(start, end)
               PROVE  Kept /\ NothingBeforeInit'
    BY <1>5
  <2>1. CASE ~vmm_initialized
    BY <1>1, <2>1 DEF VmmReserveRange, AssertionFails
  <2>2. CASE vmm_initialized
    <3>1. /\ vmm_initialized' = vmm_initialized
          /\ page_table' = [i \in Pages |->
               IF InRange(i, start, end)
               THEN [page_table[i] EXCEPT !.state = "RESERVED", !.tag = KERNEL_TAG,
                                          !.is_kernel = TRUE]
               ELSE page_table[i]]
      BY <2>2 DEF VmmReserveRange
    <3>2. \A i \in Pages : [page_table[i] EXCEPT !.state = "RESERVED", !.tag = KERNEL_TAG,
                                                 !.is_kernel = TRUE].state = "RESERVED"
      BY Entries DEF Inv, PageEntry
    <3> QED BY <2>2, <3>1, <3>2
  <2> QED BY <2>1, <2>2
<1>6. CASE VmmInit
  BY <1>6 DEF VmmInit
<1>7. ASSUME NEW addr, VmmFree(addr) PROVE Kept /\ NothingBeforeInit'
  <2>1. \A h \in FreeTarget(addr) : h \in Heads /\ FreedPages(h) \subseteq Extent(h)
    BY FreeTargetIsBlock
  <2>2. \A h \in FreeTarget(addr) : \A p \in FreedPages(h) : page_table[p].state = "USED"
    <3> SUFFICES ASSUME NEW h \in FreeTarget(addr), NEW p \in FreedPages(h)
                 PROVE  page_table[p].state = "USED"
      OBVIOUS
    <3>1. p \in Extent(h) /\ h \in Nat /\ page_table[h].alloc_pages \in Nat
      BY <2>1, Block
    <3>2. p \in h .. p
      BY <3>1 DEF Extent, Run
    <3> QED BY <3>2 DEF FreedPages
  <2>3. vmm_initialized' = vmm_initialized /\ (~vmm_initialized => FreeTarget(addr) = {})
    BY <1>7 DEF VmmFree, FreeTarget
  <2> QED BY <1>7, <2>2, <2>3 DEF VmmFree
<1>8. ASSUME NEW addr, NEW tag \in Tags, VmmSetTag(addr, tag) PROVE Kept /\ NothingBeforeInit'
  <2>1. \A i \in Pages : page_table'[i] = page_table[i] \/ page_table[i].state = "USED"
    BY <1>8 DEF VmmSetTag
  <2>2. ~vmm_initialized => \A i \in Pages : page_table'[i] = page_table[i]
    BY <1>8 DEF VmmSetTag
  <2>3. vmm_initialized' = vmm_initialized
    BY <1>8 DEF VmmSetTag
  <2> QED BY <2>1, <2>2, <2>3
<1>9. CASE UNCHANGED vars
  BY <1>1, <1>9 DEF vars
<1> QED BY <1>4, <1>5, <1>6, <1>7, <1>8, <1>9 DEF Next, Others

\* A reserved page stays reserved, whatever is called.
THEOREM ReservationsLast == Spec => ReservedForever
<1>1. Init => Inv2
  BY InitInv DEF Init, Inv2, NothingBeforeInit, FreePage
<1>2. Inv2 /\ [Next]_vars => Inv2'
  BY NextInv, StepKeeps DEF Inv2
<1>3. Inv2 /\ [Next]_vars =>
        [\A i \in Pages : page_table[i].state = "RESERVED" => page_table'[i].state = "RESERVED"]_vars
  BY StepKeeps DEF Kept
<1> QED BY <1>1, <1>2, <1>3, PTL DEF Spec, ReservedForever

-----------------------------------------------------------------------------
(* The page table implements BlockAllocator for the callers of OrderedSpec.*)
(* They never reserve a page in use, so a block is in use as a whole, and  *)
(* what is not free is a block's or reserved: the table and the abstract   *)
(* allocator see the same room.                                            *)

\* Nothing is in the table before vmm_init, and a block's pages are all in use.
FreeBeforeInit == ~vmm_initialized => \A i \in Pages : page_table[i] = FreePage
BlocksUsed == \A h \in Heads : \A p \in Extent(h) : page_table[p].state = "USED"

OrderedInv == Inv /\ FreeBeforeInit /\ BlocksUsed /\ NoOrphan

\* The abstract state.
AbsBlocks == {<<h, page_table[h].alloc_pages>> : h \in Heads}
AbsWithheld == {i \in Pages : page_table[i].state = "RESERVED"}
AbsAnswer ==
  IF ret.call # "alloc" \/ ret.pages = 0 THEN <<0, {}, -1>>
  ELSE <<ret.pages, Starts(ret.align),
         IF ret.value = NULL THEN -1 ELSE (ret.value - BaseAddress) \div PageSize>>
AbsClasses == {Starts(align) : align \in {a \in Aligns : PowerOfTwo(a)} \cup {PageSize}}

\* Where a block starts is what its address says.
LEMMA AddressOfPage ==
  ASSUME NEW i \in Pages
  PROVE  BaseAddr(i) # NULL /\ (BaseAddr(i) - BaseAddress) \div PageSize = i
<1>1. i \in Nat /\ PageSize \in Nat /\ PageSize > 0 /\ BaseAddress \in Nat /\ BaseAddress > 0
  BY VmmAssumption DEF Pages
<1>2. i * PageSize \in Nat
  BY <1>1
<1>3. (i * PageSize) \div PageSize = i
  BY <1>1, QuotientOfMultiple
<1> QED BY <1>1, <1>2, <1>3 DEF BaseAddr, NULL

\* An address is in one page at most.
LEMMA OnePage ==
  ASSUME NEW addr \in Nat, NEW i \in PageAt(addr), NEW j \in PageAt(addr)
  PROVE  i = j
<1>1. i \in Nat /\ j \in Nat /\ PageSize \in Nat /\ PageSize > 0 /\ BaseAddress \in Nat
  BY VmmAssumption DEF PageAt, Pages
<1>2. /\ i * PageSize \in Nat /\ j * PageSize \in Nat
      /\ i * PageSize < j * PageSize + PageSize /\ j * PageSize < i * PageSize + PageSize
  <2>1. i * PageSize \in Nat /\ j * PageSize \in Nat
    BY <1>1
  <2> QED BY <1>1, <2>1 DEF PageAt, BaseAddr
<1>3. ~(i < j) /\ ~(j < i)
  BY <1>1, <1>2, MultiplesApart
<1> QED BY <1>1, <1>3

\* What the table's owners and reservations leave is what is free.
LEMMA TakenIsNotFree ==
  ASSUME OrderedInv
  PROVE  AbsWithheld \cup UNION {Run(b[1], b[2]) : b \in AbsBlocks}
           = {i \in Pages : page_table[i].state # "FREE"}
<1>1. ASSUME NEW i \in Pages, page_table[i].state # "FREE"
      PROVE  i \in AbsWithheld \/ \E b \in AbsBlocks : i \in Run(b[1], b[2])
  <2>1. page_table[i].state \in {"USED", "RESERVED"}
    BY <1>1, Entries DEF OrderedInv, Inv, PageStates
  <2>2. CASE page_table[i].state = "USED"
    <3>1. PICK h \in Heads : i \in Extent(h)
      BY <2>2 DEF OrderedInv, NoOrphan
    <3>2. <<h, page_table[h].alloc_pages>> \in AbsBlocks
      BY DEF AbsBlocks
    <3> QED BY <3>1, <3>2 DEF Extent
  <2> QED BY <2>1, <2>2 DEF AbsWithheld
<1>2. ASSUME NEW b \in AbsBlocks, NEW i \in Run(b[1], b[2])
      PROVE  i \in Pages /\ page_table[i].state # "FREE"
  <2>1. PICK h \in Heads : b = <<h, page_table[h].alloc_pages>>
    BY DEF AbsBlocks
  <2>2. i \in Extent(h)
    BY <2>1 DEF Extent
  <2> QED BY <2>2, Block DEF OrderedInv
<1> QED BY <1>1, <1>2 DEF AbsWithheld

\* A request has room in the table exactly where it has room in the abstract allocator.
AbsFits(n, class) ==
  {s \in class : s + n <= MaxPages
                 /\ Run(s, n) \cap (AbsWithheld \cup UNION {Run(b[1], b[2]) : b \in AbsBlocks}) = {}}

LEMMA SameFits ==
  ASSUME OrderedInv, NEW n \in 1 .. MaxPages, NEW align
  PROVE  Fits(n, align) = AbsFits(n, Starts(align))
<1> DEFINE taken == {i \in Pages : page_table[i].state # "FREE"}
<1>1. AbsFits(n, Starts(align)) = {s \in Starts(align) : s + n <= MaxPages /\ Run(s, n) \cap taken = {}}
  BY TakenIsNotFree DEF AbsFits
<1>2. ASSUME NEW s \in Pages, s + n <= MaxPages
      PROVE  (Run(s, n) \cap taken = {}) <=> (\A p \in Run(s, n) : page_table[p].state = "FREE")
  <2>1. Run(s, n) \subseteq Pages
    BY <1>2, VmmAssumption DEF Run, Pages
  <2> QED BY <2>1
<1> HIDE DEF taken
<1> QED BY <1>1, <1>2 DEF Fits, Starts

\* The abstract steps, with the state of the table for theirs.
AbsAlloc(n, class) ==
  /\ \/ \E s \in AbsFits(n, class) :
          AbsBlocks' = AbsBlocks \cup {<<s, n>>} /\ AbsAnswer' = <<n, class, s>>
     \/ AbsFits(n, class) = {} /\ AbsAnswer' = <<n, class, -1>> /\ AbsBlocks' = AbsBlocks
  /\ AbsWithheld' = AbsWithheld
AbsOther == AbsAnswer' = <<0, {}, -1>> /\ AbsBlocks' = AbsBlocks /\ AbsWithheld' = AbsWithheld
AbsFree == \E b \in AbsBlocks : /\ AbsBlocks' = AbsBlocks \ {b}
                                /\ AbsAnswer' = <<0, {}, -1>> /\ AbsWithheld' = AbsWithheld
AbsWithhold == \E S \in SUBSET Pages : /\ S \cap UNION {Run(b[1], b[2]) : b \in AbsBlocks} = {}
                                       /\ AbsWithheld' = AbsWithheld \cup S
                                       /\ AbsAnswer' = <<0, {}, -1>> /\ AbsBlocks' = AbsBlocks
AbsNext ==
  \/ \E n \in 1 .. MaxPages, class \in AbsClasses : AbsAlloc(n, class)
  \/ AbsFree \/ AbsWithhold \/ AbsOther

\* The table stays: only the answer changes.
LEMMA OtherIfSameTable ==
  ASSUME page_table' = page_table, AbsAnswer' = <<0, {}, -1>>
  PROVE  AbsOther
BY DEF AbsOther, AbsBlocks, AbsWithheld, Heads

LEMMA OtherAnswer ==
  ASSUME NEW call, NEW p, NEW a, NEW v, ret' = Answer(call, p, a, v), call # "alloc" \/ p = 0
  PROVE  AbsAnswer' = <<0, {}, -1>>
BY DEF AbsAnswer, Answer

\* A request that is granted or refused.
LEMMA AllocStep ==
  ASSUME OrderedInv, OrderedInv', NEW n \in 0 .. MaxPages, NEW align, Starts(align) \in AbsClasses,
         NEW tag, NEW kernel, VmmAllocInternal(n, align, tag, kernel)
  PROVE  AbsNext
<1>1. CASE AssertionFails
  <2>1. AbsAnswer' = <<0, {}, -1>> /\ page_table' = page_table
    BY <1>1, OtherAnswer DEF AssertionFails
  <2> QED BY <2>1, OtherIfSameTable DEF AbsNext
<1>2. CASE /\ n > 0 /\ Fits(n, align) # {} /\ MarkUsed(FirstFit(n, align), n, tag, kernel)
           /\ ret' = Answer("alloc", n, align, BaseAddr(FirstFit(n, align)))
  <2> DEFINE s == FirstFit(n, align)
  <2>1. n \in 1 .. MaxPages
    BY <1>2
  <2>2. Fits(n, align) \in SUBSET Nat
    BY DEF Fits, Pages
  <2>3. s \in Fits(n, align)
    BY <1>2, <2>2, MinIsLeast DEF FirstFit
  <2>4. ret' = Answer("alloc", n, align, BaseAddr(s))
    BY <1>2
  <2>5. page_table' = [p \in Pages |->
          IF p \in Run(s, n)
          THEN [state |-> "USED", alloc_pages |-> IF p = s THEN n ELSE 0, tag |-> tag, is_kernel |-> kernel]
          ELSE page_table[p]]
    BY <1>2 DEF MarkUsed
  <2> HIDE DEF s
  <2>6. s \in Pages /\ s + n <= MaxPages /\ \A p \in Run(s, n) : page_table[p].state = "FREE"
    BY <2>3 DEF Fits
  <2>7. Run(s, n) \subseteq Pages /\ s \in Run(s, n)
    BY <2>1, <2>6, VmmAssumption DEF Run, Pages
  <2>8. \A p \in Run(s, n) : p \notin Heads
    BY <2>6, <2>7, Entries DEF Heads, FreePage, OrderedInv, Inv
  <2>9. Heads' = Heads \cup {s} /\ page_table'[s].alloc_pages = n
        /\ \A h \in Heads : page_table'[h].alloc_pages = page_table[h].alloc_pages
    <3>1. \A p \in Pages : p \in Heads' <=> p \in Heads \/ p = s
      <4> TAKE p \in Pages
      <4>1. CASE p \notin Run(s, n)
        BY <2>5, <2>7, <4>1 DEF Heads
      <4>2. CASE p \in Run(s, n)
        BY <2>1, <2>5, <2>8, <4>2 DEF Heads
      <4> QED BY <4>1, <4>2
    <3>2. Heads \subseteq Pages /\ Heads' \subseteq Pages
      BY DEF Heads
    <3> QED BY <2>5, <2>6, <2>7, <2>8, <3>1, <3>2
  <2>10. AbsBlocks' = AbsBlocks \cup {<<s, n>>}
    BY <2>9 DEF AbsBlocks
  <2>11. AbsWithheld' = AbsWithheld
    BY <2>5, <2>6, <2>7 DEF AbsWithheld
  <2>12. AbsAnswer' = <<n, Starts(align), s>>
    <3>1. /\ ret'.call = "alloc" /\ ret'.pages = n /\ ret'.align = align
          /\ ret'.value = BaseAddr(s)
      BY <2>4 DEF Answer
    <3>2. BaseAddr(s) # NULL /\ (BaseAddr(s) - BaseAddress) \div PageSize = s
      BY <2>6, AddressOfPage
    <3>3. AbsAnswer' = <<ret'.pages, Starts(ret'.align), (ret'.value - BaseAddress) \div PageSize>>
      BY <2>1, <3>1, <3>2 DEF AbsAnswer, Starts
    <3> QED BY <3>1, <3>2, <3>3
  <2>13. s \in AbsFits(n, Starts(align))
    BY <2>1, <2>3, SameFits
  <2>14. AbsAlloc(n, Starts(align))
    BY <2>10, <2>11, <2>12, <2>13 DEF AbsAlloc
  <2> QED BY <2>1, <2>14 DEF AbsNext
<1>3. CASE /\ n > 0 /\ Fits(n, align) = {} /\ ret' = Answer("alloc", n, align, NULL)
           /\ UNCHANGED page_table
  <2>1. n \in 1 .. MaxPages
    BY <1>3
  <2>2. AbsFits(n, Starts(align)) = {}
    BY <1>3, <2>1, SameFits
  <2>3. AbsAnswer' = <<n, Starts(align), -1>>
    BY <1>3 DEF AbsAnswer, Answer, Starts
  <2>4. AbsBlocks' = AbsBlocks /\ AbsWithheld' = AbsWithheld
    BY <1>3 DEF AbsBlocks, AbsWithheld, Heads
  <2>5. AbsAlloc(n, Starts(align))
    BY <2>2, <2>3, <2>4 DEF AbsAlloc
  <2> QED BY <2>1, <2>5 DEF AbsNext
<1> QED BY <1>1, <1>2, <1>3 DEF VmmAllocInternal

\* Callers of OrderedNext are callers of Next.
LEMMA OrderedIsNext == [OrderedNext]_vars => [Next]_vars
BY DEF OrderedNext, Next

LEMMA OrderedInit == Init => OrderedInv
<1> SUFFICES ASSUME Init PROVE OrderedInv
  OBVIOUS
<1>1. \A i \in Pages : page_table[i] = FreePage
  BY DEF Init
<1>2. Heads = {} /\ \A i \in Pages : page_table[i].state # "USED"
  BY <1>1 DEF Heads, FreePage
<1> QED BY <1>1, <1>2, InitInv DEF OrderedInv, FreeBeforeInit, BlocksUsed, NoOrphan

\* Steps that leave the table alone keep what is said of it.
LEMMA OrderedSame ==
  ASSUME OrderedInv, Inv', page_table' = page_table, vmm_initialized => vmm_initialized'
  PROVE  OrderedInv'
BY DEF OrderedInv, FreeBeforeInit, BlocksUsed, NoOrphan, Heads, Extent

\* And so do steps that keep lengths and which pages are in use.
LEMMA OrderedSameUse ==
  ASSUME OrderedInv, Inv', vmm_initialized',
         \A i \in Pages : /\ page_table'[i].alloc_pages = page_table[i].alloc_pages
                          /\ page_table'[i].state = "USED" <=> page_table[i].state = "USED"
  PROVE  OrderedInv'
<1>1. Heads' = Heads /\ \A h \in Heads : Extent(h)' = Extent(h)
  BY DEF Heads, Extent
<1>2. \A h \in Heads : Extent(h) \subseteq Pages
  BY Block DEF OrderedInv
<1> QED BY <1>1, <1>2 DEF OrderedInv, FreeBeforeInit, BlocksUsed, NoOrphan

LEMMA OrderedAlloc ==
  ASSUME OrderedInv, Inv', NEW n \in 0 .. MaxPages, NEW align, NEW tag, NEW kernel,
         VmmAllocInternal(n, align, tag, kernel)
  PROVE  OrderedInv'
<1>1. CASE AssertionFails \/ UNCHANGED <<page_table, vmm_initialized>>
  BY <1>1, OrderedSame DEF AssertionFails
<1>2. CASE /\ vmm_initialized /\ vmm_initialized' = vmm_initialized
           /\ n > 0 /\ Fits(n, align) # {} /\ MarkUsed(FirstFit(n, align), n, tag, kernel)
  <2>1. n \in 1 .. MaxPages
    BY <1>2
  <2>2. Fits(n, align) \in SUBSET Nat
    BY DEF Fits, Pages
  <2>3. PICK s \in Fits(n, align) : s = FirstFit(n, align)
    BY <1>2, <2>2, MinIsLeast DEF FirstFit
  <2>4. page_table' = [p \in Pages |->
          IF p \in Run(s, n)
          THEN [state |-> "USED", alloc_pages |-> IF p = s THEN n ELSE 0, tag |-> tag, is_kernel |-> kernel]
          ELSE page_table[p]]
    BY <1>2, <2>3 DEF MarkUsed
  <2>5. s \in Pages /\ s + n <= MaxPages /\ \A p \in Run(s, n) : page_table[p].state = "FREE"
    BY <2>3 DEF Fits
  <2>6. Run(s, n) \subseteq Pages /\ s \in Run(s, n)
    BY <2>1, <2>5, VmmAssumption DEF Run, Pages
  <2>7. s \in Heads' /\ Extent(s)' = Run(s, n)
    BY <2>1, <2>4, <2>5, <2>6 DEF Heads, Extent
  <2>8. ASSUME NEW h \in Heads
        PROVE  h \in Heads' /\ Extent(h)' = Extent(h) /\ Extent(h) \cap Run(s, n) = {}
    <3>1. \A p \in Extent(h) : page_table[p].state # "FREE"
      BY Block DEF OrderedInv
    <3>2. h \in Extent(h) /\ h \in Pages
      BY Block DEF OrderedInv
    <3> QED BY <2>4, <2>5, <3>1, <3>2 DEF Heads, Extent
  <2>9. \A h \in Heads' : h = s \/ h \in Heads
    BY <2>4, <2>6 DEF Heads
  <2>10. BlocksUsed'
    <3>1. ASSUME NEW h \in Heads', NEW p \in Extent(h)' PROVE page_table'[p].state = "USED"
      <4>1. CASE h = s
        BY <2>4, <2>6, <2>7, <3>1, <4>1
      <4>2. CASE h \in Heads
        BY <2>4, <2>8, <3>1, <4>2, Block DEF OrderedInv, BlocksUsed
      <4> QED BY <2>9, <4>1, <4>2
    <3> QED BY <3>1 DEF BlocksUsed
  <2>11. NoOrphan'
    BY <2>4, <2>7, <2>8 DEF OrderedInv, NoOrphan
  <2> QED BY <1>2, <2>10, <2>11 DEF OrderedInv, FreeBeforeInit
<1> QED BY <1>1, <1>2 DEF VmmAllocInternal

\* A whole block is given back.
LEMMA FreedIsBlock ==
  ASSUME OrderedInv, NEW addr, NEW h \in FreeTarget(addr)
  PROVE  h \in Heads /\ FreedPages(h) = Extent(h) /\ Extent(h) \subseteq Pages /\ h \in Extent(h)
<1>1. h \in Heads
  BY FreeTargetIsBlock DEF OrderedInv
<1>2. ASSUME NEW p \in Extent(h), NEW q \in h .. p PROVE page_table[q].state = "USED"
  <2>1. h \in Nat /\ page_table[h].alloc_pages \in Nat
    BY <1>1, Block DEF OrderedInv
  <2>2. q \in Extent(h)
    BY <2>1 DEF Extent, Run
  <2> QED BY <1>1, <2>2 DEF OrderedInv, BlocksUsed
<1>3. FreedPages(h) = Extent(h)
  BY <1>2 DEF FreedPages
<1> QED BY <1>1, <1>3, Block DEF OrderedInv

\* vmm_free finds one block or none.
LEMMA FreeTargetUnique ==
  ASSUME NEW addr \in Addrs, NEW h \in FreeTarget(addr)
  PROVE  FreeTarget(addr) = {h}
<1>1. FreeTarget(addr) \subseteq PageAt(addr) /\ addr \in Nat
  BY VmmAssumption DEF FreeTarget
<1> QED BY <1>1, OnePage

\* What freeing a block leaves: the other blocks, as they were.
LEMMA FreeLeaves ==
  ASSUME OrderedInv, NEW addr \in Addrs, NEW h \in FreeTarget(addr), VmmFree(addr)
  PROVE  /\ page_table' = [i \in Pages |-> IF i \in Extent(h) THEN FreePage ELSE page_table[i]]
         /\ Heads' = Heads \ {h}
         /\ \A k \in Heads \ {h} : /\ Extent(k) \cap Extent(h) = {} /\ Extent(k)' = Extent(k)
                                   /\ page_table'[k] = page_table[k]
<1>1. FreeTarget(addr) = {h}
  BY FreeTargetUnique
<1>2. h \in Heads /\ FreedPages(h) = Extent(h) /\ Extent(h) \subseteq Pages /\ h \in Extent(h)
  BY FreedIsBlock
<1>3. page_table' = [i \in Pages |-> IF i \in Extent(h) THEN FreePage ELSE page_table[i]]
  BY <1>1, <1>2 DEF VmmFree
<1>4. ASSUME NEW k \in Heads, k # h
      PROVE  /\ Extent(k) \cap Extent(h) = {} /\ k \in Extent(k) /\ k \in Pages
             /\ page_table'[k] = page_table[k] /\ Extent(k)' = Extent(k)
  <2>1. Extent(k) \cap Extent(h) = {}
    BY <1>2, <1>4, Disjoint DEF OrderedInv, BlocksDisjoint
  <2>2. k \in Extent(k) /\ k \in Pages
    BY Block DEF OrderedInv
  <2> QED BY <1>3, <2>1, <2>2 DEF Extent
<1>5. \A p \in Heads' : p \in Pages /\ p \notin Extent(h) /\ p \in Heads
  BY <1>3 DEF Heads, FreePage
<1>6. Heads' = Heads \ {h}
  <2>1. \A k \in Heads \ {h} : k \in Heads'
    BY <1>4 DEF Heads
  <2> QED BY <1>2, <1>5, <2>1
<1> QED BY <1>3, <1>4, <1>6

LEMMA OrderedFree ==
  ASSUME OrderedInv, Inv', NEW addr \in Addrs, VmmFree(addr)
  PROVE  OrderedInv'
<1>1. CASE FreeTarget(addr) = {}
  <2>1. \A i \in Pages : page_table'[i] = page_table[i]
    BY <1>1 DEF VmmFree
  <2>2. page_table' = page_table
    BY <1>1, <2>1 DEF VmmFree, OrderedInv, Inv, TypeOK
  <2> QED BY <2>2, OrderedSame DEF VmmFree
<1>2. CASE FreeTarget(addr) # {}
  <2>1. PICK h \in FreeTarget(addr) : TRUE
    BY <1>2
  <2>2. vmm_initialized /\ vmm_initialized' = vmm_initialized
    BY <2>1 DEF FreeTarget, VmmFree
  <2>3. BlocksUsed'
    BY FreeLeaves, Block DEF OrderedInv, BlocksUsed
  <2>4. NoOrphan'
    <3>1. ASSUME NEW i \in Pages, page_table'[i].state = "USED"
          PROVE  \E k \in Heads' : i \in Extent(k)'
      <4>1. i \notin Extent(h) /\ page_table'[i] = page_table[i]
        BY <3>1, FreeLeaves DEF FreePage
      <4>2. PICK k \in Heads : i \in Extent(k)
        BY <3>1, <4>1 DEF OrderedInv, NoOrphan
      <4> QED BY <4>1, <4>2, FreeLeaves
    <3> QED BY <3>1 DEF NoOrphan
  <2> QED BY <2>2, <2>3, <2>4 DEF OrderedInv, FreeBeforeInit
<1> QED BY <1>1, <1>2

\* What a reservation of pages that are not in use changes.
LEMMA ReserveKeeps ==
  ASSUME OrderedInv, NEW start, NEW end, vmm_initialized, VmmReserveRange(start, end), Quiet(start, end)
  PROVE  /\ vmm_initialized' = vmm_initialized
         /\ \A i \in Pages :
              /\ page_table'[i].alloc_pages = page_table[i].alloc_pages
              /\ page_table'[i].state = IF InRange(i, start, end) THEN "RESERVED" ELSE page_table[i].state
<1>1. /\ vmm_initialized' = vmm_initialized
      /\ page_table' = [i \in Pages |->
           IF InRange(i, start, end)
           THEN [page_table[i] EXCEPT !.state = "RESERVED", !.tag = KERNEL_TAG, !.is_kernel = TRUE]
           ELSE page_table[i]]
  BY DEF VmmReserveRange
<1>2. \A i \in Pages : page_table[i] \in PageEntry
  BY Entries DEF OrderedInv, Inv
<1> QED BY <1>1, <1>2 DEF PageEntry

LEMMA OrderedReserve ==
  ASSUME OrderedInv, Inv', NEW start, NEW end, VmmReserveRange(start, end), Quiet(start, end)
  PROVE  OrderedInv'
<1>1. CASE ~vmm_initialized
  BY <1>1, OrderedSame DEF VmmReserveRange, AssertionFails
<1>2. CASE vmm_initialized
  BY <1>2, ReserveKeeps, OrderedSameUse DEF Quiet
<1> QED BY <1>1, <1>2

LEMMA TagKeeps ==
  ASSUME OrderedInv, NEW addr, NEW tag, VmmSetTag(addr, tag)
  PROVE  /\ vmm_initialized' = vmm_initialized
         /\ ~vmm_initialized => page_table' = page_table
         /\ \A i \in Pages : /\ page_table'[i].alloc_pages = page_table[i].alloc_pages
                             /\ page_table'[i].state = page_table[i].state
<1>1. \A i \in Pages : page_table'[i] = page_table[i] \/ page_table'[i] = [page_table[i] EXCEPT !.tag = tag]
  BY DEF VmmSetTag
<1>2. \A i \in Pages : page_table[i] \in PageEntry
  BY Entries DEF OrderedInv, Inv
<1>3. vmm_initialized' = vmm_initialized
  BY DEF VmmSetTag
<1>4. ASSUME ~vmm_initialized PROVE page_table' = page_table
  <2>1. page_table' = [i \in Pages |-> page_table[i]]
    BY <1>4 DEF VmmSetTag
  <2> QED BY <2>1 DEF OrderedInv, Inv, TypeOK
<1> QED BY <1>1, <1>2, <1>3, <1>4 DEF PageEntry

LEMMA OrderedNextInv == OrderedInv /\ [OrderedNext]_vars => OrderedInv'
<1> SUFFICES ASSUME OrderedInv, [OrderedNext]_vars PROVE OrderedInv'
  OBVIOUS
<1>1. Inv'
  BY OrderedIsNext, NextInv DEF OrderedInv
<1>2. ASSUME NEW size \in Sizes, Accepted(size) PROVE PagesNeeded(size) \in 0 .. MaxPages
  BY <1>2, PagesNeededNat, VmmAssumption DEF Accepted
<1>3. CASE Allocate
  <2>1. ASSUME Rejected PROVE OrderedInv'
    BY <1>1, <2>1, OrderedSame DEF Rejected
  <2>2. ASSUME NEW size \in Sizes, NEW align, NEW tag, NEW kernel, Accepted(size),
               VmmAllocInternal(PagesNeeded(size), align, tag, kernel)
        PROVE  OrderedInv'
    BY <1>1, <1>2, <2>2, OrderedAlloc
  <2> QED BY <1>3, <2>1, <2>2 DEF Allocate, VmmAlloc, VmmAllocTagged, VmmAllocAligned
<1>4. CASE \E range \in RangeInputs :
             Quiet(range[1], range[2]) /\ VmmReserveRange(range[1], range[2])
  BY <1>1, <1>4, OrderedReserve
<1>5. CASE VmmInit
  <2>1. CASE vmm_initialized
    BY <1>1, <1>5, <2>1, OrderedSame DEF VmmInit
  <2>2. CASE ~vmm_initialized
    <3>1. page_table' = page_table
      BY <1>5, <2>2 DEF VmmInit, OrderedInv, FreeBeforeInit, Inv, TypeOK
    <3> QED BY <1>1, <1>5, <3>1, OrderedSame DEF VmmInit
  <2> QED BY <2>1, <2>2
<1>6. CASE \E addr \in Addrs : VmmFree(addr)
  BY <1>1, <1>6, OrderedFree
<1>7. CASE \E addr \in Addrs, tag \in Tags : VmmSetTag(addr, tag)
  <2>1. PICK addr \in Addrs, tag \in Tags : VmmSetTag(addr, tag)
    BY <1>7
  <2>2. CASE vmm_initialized
    BY <1>1, <2>1, <2>2, TagKeeps, OrderedSameUse
  <2>3. CASE ~vmm_initialized
    BY <1>1, <2>1, <2>3, TagKeeps, OrderedSame
  <2> QED BY <2>2, <2>3
<1>8. CASE UNCHANGED vars
  BY <1>1, <1>8, OrderedSame DEF vars
<1> QED BY <1>3, <1>4, <1>5, <1>6, <1>7, <1>8 DEF OrderedNext, Others

\* Every step of the callers is a step of the abstract allocator or none.
LEMMA OrderedStep ==
  ASSUME OrderedInv, OrderedInv', [OrderedNext]_vars
  PROVE  AbsNext \/ UNCHANGED <<AbsBlocks, AbsWithheld, AbsAnswer>>
<1>1. ASSUME page_table' = page_table, AbsAnswer' = <<0, {}, -1>> PROVE AbsNext
  BY <1>1, OtherIfSameTable DEF AbsNext
<1>2. CASE Allocate
  <2>1. ASSUME Rejected PROVE AbsNext
    BY <1>1, <2>1, OtherAnswer DEF Rejected
  <2>2. ASSUME NEW size \in Sizes, Accepted(size) PROVE PagesNeeded(size) \in 0 .. MaxPages
    BY <2>2, PagesNeededNat, VmmAssumption DEF Accepted
  <2>3. /\ Starts(PageSize) \in AbsClasses
        /\ \A align \in Aligns : PowerOfTwo(align) => Starts(align) \in AbsClasses
    BY DEF AbsClasses
  <2>4. ASSUME NEW size \in Sizes, NEW align, NEW tag, NEW kernel, Accepted(size),
               Starts(align) \in AbsClasses,
               VmmAllocInternal(PagesNeeded(size), align, tag, kernel)
        PROVE  AbsNext
    BY <2>2, <2>4, AllocStep
  <2> QED BY <1>2, <2>1, <2>3, <2>4 DEF Allocate, VmmAlloc, VmmAllocTagged, VmmAllocAligned
<1>3. CASE \E range \in RangeInputs :
             Quiet(range[1], range[2]) /\ VmmReserveRange(range[1], range[2])
  <2> SUFFICES ASSUME NEW start, NEW end, Quiet(start, end), VmmReserveRange(start, end)
               PROVE  AbsNext
    BY <1>3
  <2>1. CASE ~vmm_initialized
    BY <1>1, <2>1, OtherAnswer DEF VmmReserveRange, AssertionFails
  <2>2. CASE vmm_initialized
    <3> DEFINE S == {i \in Pages : InRange(i, start, end)}
    <3>1. AbsBlocks' = AbsBlocks
      <4>1. Heads' = Heads /\ \A h \in Heads : page_table'[h].alloc_pages = page_table[h].alloc_pages
        BY <2>2, ReserveKeeps DEF Heads
      <4> QED BY <4>1 DEF AbsBlocks
    <3>2. AbsWithheld' = AbsWithheld \cup S
      BY <2>2, ReserveKeeps DEF AbsWithheld
    <3>3. AbsAnswer' = <<0, {}, -1>>
      BY <2>2, OtherAnswer DEF VmmReserveRange
    <3>4. S \cap UNION {Run(b[1], b[2]) : b \in AbsBlocks} = {}
      <4>1. ASSUME NEW b \in AbsBlocks, NEW i \in Run(b[1], b[2]) PROVE i \notin S
        <5>1. PICK h \in Heads : b = <<h, page_table[h].alloc_pages>>
          BY DEF AbsBlocks
        <5>2. page_table[i].state = "USED"
          BY <5>1 DEF OrderedInv, BlocksUsed, Extent
        <5> QED BY <5>2 DEF Quiet
      <4> QED BY <4>1
    <3>5. S \in SUBSET Pages
      OBVIOUS
    <3> HIDE DEF S
    <3> QED BY <3>1, <3>2, <3>3, <3>4, <3>5 DEF AbsNext, AbsWithhold
  <2> QED BY <2>1, <2>2
<1>4. CASE VmmInit
  <2>1. page_table' = page_table
    BY <1>4 DEF VmmInit, OrderedInv, FreeBeforeInit, Inv, TypeOK
  <2> QED BY <1>1, <1>4, <2>1, OtherAnswer DEF VmmInit
<1>5. ASSUME NEW addr \in Addrs, VmmFree(addr) PROVE AbsNext
  <2>1. AbsAnswer' = <<0, {}, -1>>
    BY <1>5, OtherAnswer DEF VmmFree
  <2>2. CASE FreeTarget(addr) = {}
    <3>1. page_table' = page_table
      BY <1>5, <2>2 DEF VmmFree, OrderedInv, Inv, TypeOK
    <3> QED BY <1>1, <2>1, <3>1
  <2>3. CASE FreeTarget(addr) # {}
    <3>1. PICK h \in FreeTarget(addr) : TRUE
      BY <2>3
    <3>2. h \in Heads /\ Extent(h) \subseteq Pages
      BY FreedIsBlock
    <3>3. /\ page_table' = [i \in Pages |-> IF i \in Extent(h) THEN FreePage ELSE page_table[i]]
          /\ Heads' = Heads \ {h}
          /\ \A k \in Heads \ {h} : page_table'[k] = page_table[k]
      BY <1>5, FreeLeaves
    <3>4. AbsBlocks' = AbsBlocks \ {<<h, page_table[h].alloc_pages>>}
      <4>1. AbsBlocks' = {<<k, page_table'[k].alloc_pages>> : k \in Heads \ {h}}
        BY <3>3 DEF AbsBlocks
      <4>2. AbsBlocks' = {<<k, page_table[k].alloc_pages>> : k \in Heads \ {h}}
        BY <3>3, <4>1
      <4> QED BY <4>2 DEF AbsBlocks
    <3>5. AbsWithheld' = AbsWithheld
      <4>1. \A p \in Extent(h) : page_table[p].state = "USED"
        BY <3>2 DEF OrderedInv, BlocksUsed
      <4> QED BY <3>2, <3>3, <4>1 DEF AbsWithheld, FreePage
    <3>6. <<h, page_table[h].alloc_pages>> \in AbsBlocks
      BY <3>2 DEF AbsBlocks
    <3> QED BY <2>1, <3>4, <3>5, <3>6 DEF AbsNext, AbsFree
  <2> QED BY <2>2, <2>3
<1>6. ASSUME NEW addr \in Addrs, NEW tag \in Tags, VmmSetTag(addr, tag) PROVE AbsNext
  <2>1. AbsAnswer' = <<0, {}, -1>>
    BY <1>6, OtherAnswer DEF VmmSetTag
  <2>2. Heads' = Heads /\ \A h \in Heads : page_table'[h].alloc_pages = page_table[h].alloc_pages
    BY <1>6, TagKeeps DEF Heads
  <2>3. AbsBlocks' = AbsBlocks
    BY <2>2 DEF AbsBlocks
  <2>4. AbsWithheld' = AbsWithheld
    BY <1>6, TagKeeps DEF AbsWithheld
  <2> QED BY <2>1, <2>3, <2>4 DEF AbsNext, AbsOther
<1>7. CASE UNCHANGED vars
  BY <1>7 DEF vars, AbsBlocks, AbsWithheld, AbsAnswer, Heads, Starts
<1> QED BY <1>2, <1>3, <1>4, <1>5, <1>6, <1>7 DEF OrderedNext, Others

\* The abstract initial state and steps are those of BlockAllocator under the mapping.
LEMMA MapsInit == Init => Allocator!Init
<1> SUFFICES ASSUME Init PROVE Allocator!Init
  OBVIOUS
<1>1. \A i \in Pages : page_table[i] = FreePage
  BY DEF Init
<1>2. Heads = {} /\ {i \in Pages : page_table[i].state = "RESERVED"} = {}
  BY <1>1 DEF Heads, FreePage
<1>3. ret.call # "alloc"
  BY DEF Init, Answer
<1> QED BY <1>2, <1>3 DEF Allocator!Init, Allocator!OtherCall, Allocator!Refused

LEMMA MapsNext ==
  AbsNext \/ UNCHANGED <<AbsBlocks, AbsWithheld, AbsAnswer>> => [Allocator!Next]_(Allocator!vars)
<1>1. \A b : Allocator!Extent(b) = Run(b[1], b[2])
  BY DEF Allocator!Extent, Run
<1>2. Allocator!Taken = AbsWithheld \cup UNION {Run(b[1], b[2]) : b \in AbsBlocks}
  BY <1>1 DEF Allocator!Taken, AbsWithheld, AbsBlocks
<1>3. \A n, class : Allocator!Fits(n, class) = AbsFits(n, class)
  BY <1>1, <1>2 DEF Allocator!Fits, AbsFits
<1>4. ASSUME NEW n, NEW class, AbsAlloc(n, class) PROVE Allocator!Alloc(n, class)
  BY <1>3, <1>4 DEF AbsAlloc, Allocator!Alloc, Allocator!Refused, AbsBlocks, AbsWithheld, AbsAnswer
<1>5. ASSUME AbsFree PROVE \E b \in AbsBlocks : Allocator!Free(b)
  BY <1>5 DEF AbsFree, Allocator!Free, Allocator!OtherCall, Allocator!Refused,
              AbsBlocks, AbsWithheld, AbsAnswer
<1>6. ASSUME AbsWithhold PROVE \E S \in SUBSET Pages : Allocator!Withhold(S)
  <2>1. PICK S \in SUBSET Pages : /\ S \cap UNION {Run(b[1], b[2]) : b \in AbsBlocks} = {}
                                  /\ AbsWithheld' = AbsWithheld \cup S
                                  /\ AbsAnswer' = <<0, {}, -1>> /\ AbsBlocks' = AbsBlocks
    BY <1>6 DEF AbsWithhold
  <2>2. S \cap UNION {Allocator!Extent(b) : b \in AbsBlocks} = {}
    BY <1>1, <2>1
  <2> QED BY <2>1, <2>2 DEF Allocator!Withhold, Allocator!OtherCall, Allocator!Refused,
                            AbsBlocks, AbsWithheld, AbsAnswer
<1>7. ASSUME AbsOther PROVE Allocator!Other
  BY <1>7 DEF AbsOther, Allocator!Other, Allocator!OtherCall, Allocator!Refused,
              AbsBlocks, AbsWithheld, AbsAnswer
<1>8. ASSUME UNCHANGED <<AbsBlocks, AbsWithheld, AbsAnswer>> PROVE UNCHANGED Allocator!vars
  BY <1>8 DEF Allocator!vars, AbsBlocks, AbsWithheld, AbsAnswer
<1>9. Allocator!Slots = Pages
  BY DEF Allocator!Slots, Pages
<1> QED BY <1>4, <1>5, <1>6, <1>7, <1>8, <1>9 DEF AbsNext, Allocator!Next, AbsBlocks, AbsClasses

\* For a table of any size: while nothing reserves a page in use, the page table is an
\* allocator of blocks.  A refusal is never wrong, no block is given twice, and what is freed
\* is a whole block.
THEOREM PageTableAllocates == OrderedSpec => AllocatorSpec
<1>1. OrderedInv /\ OrderedInv' /\ [OrderedNext]_vars => [Allocator!Next]_(Allocator!vars)
  BY OrderedStep, MapsNext
<1> QED BY <1>1, OrderedInit, OrderedNextInv, MapsInit, PTL
        DEF OrderedSpec, AllocatorSpec, Allocator!Spec

\* Under the same callers every page in use can be released.
THEOREM NothingOrphaned == OrderedSpec => []NoOrphan
<1>1. OrderedInv => NoOrphan
  BY DEF OrderedInv
<1> QED BY <1>1, OrderedInit, OrderedNextInv, PTL DEF OrderedSpec

-----------------------------------------------------------------------------
(* What vmm_stats, vmm_get_largest_free_block and vmm_get_tag answer.  The *)
(* loops are functions that refer to themselves: that a function is what a *)
(* loop computes is that it satisfies the equation of the loop, and that   *)
(* no other does.                                                          *)

\* The loop of vmm_stats, and what it is to count from page i on.
IsCount(f, s) ==
  f = [i \in Nat |->
        IF i >= MaxPages THEN 0
        ELSE (IF page_table[i].state = s THEN Counted(i) ELSE 0) + f[i + Counted(i)]]
From(i, s) == {p \in Pages : p >= i /\ page_table[p].state = s}
CountFrom(s) == [i \in Nat |-> Cardinality(From(i, s))]

LEMMA StatsIsCount ==
  ASSUME NEW s
  PROVE  VmmStats(s) = (CHOOSE f : IsCount(f, s))[0]
BY DEF VmmStats, IsCount

\* The numbers from i to j - 1 are j - i, and the pages are finitely many.
LEMMA PagesFinite == IsFiniteSet(Pages) /\ Cardinality(Pages) = MaxPages
<1>1. MaxPages - 1 \in Int /\ 0 \in Int /\ 0 <= MaxPages
  BY VmmAssumption
<1>2. IsFiniteSet(0 .. MaxPages - 1) /\ Cardinality(0 .. MaxPages - 1) = IF 0 > MaxPages - 1 THEN 0 ELSE MaxPages - 1 - 0 + 1
  BY <1>1, FS_Interval
<1> QED BY <1>2, VmmAssumption DEF Pages

LEMMA RunCount ==
  ASSUME NEW i \in Nat, NEW n \in Nat \ {0}
  PROVE  IsFiniteSet(Run(i, n)) /\ Cardinality(Run(i, n)) = n
<1>1. IsFiniteSet(i .. i + n - 1) /\ Cardinality(i .. i + n - 1) = IF i > i + n - 1 THEN 0 ELSE i + n - 1 - i + 1
  BY FS_Interval
<1> QED BY <1>1 DEF Run

LEMMA FromFinite ==
  ASSUME NEW i, NEW s
  PROVE  IsFiniteSet(From(i, s)) /\ Cardinality(From(i, s)) \in Nat
<1>1. From(i, s) \subseteq Pages
  BY DEF From
<1> QED BY <1>1, PagesFinite, FS_Subset, FS_CardinalityType

\* What the loop counts at a page is a positive number.
LEMMA CountedIsStep ==
  ASSUME Inv, NEW i \in Pages
  PROVE  Counted(i) \in Nat \ {0} /\ i \in Nat /\ i + Counted(i) \in Nat
<1>1. i \in Nat
  BY DEF Pages
<1>2. CASE i \in Heads
  BY <1>1, <1>2, Block DEF Counted
<1>3. CASE i \notin Heads
  BY <1>1, <1>3 DEF Counted
<1> QED BY <1>1, <1>2, <1>3

\* The pages from i on are those at which the loop counts, and those it goes on with: a
\* block is in one state as a whole.
LEMMA FromSplits ==
  ASSUME OrderedInv, NEW s, NEW i \in Pages
  PROVE  From(i, s) = (IF page_table[i].state = s THEN Run(i, Counted(i)) ELSE {})
                        \cup From(i + Counted(i), s)
<1> DEFINE n == Counted(i)
<1>1. n \in Nat \ {0} /\ i \in Nat
  BY CountedIsStep DEF OrderedInv
<1>2. /\ Run(i, Counted(i)) \subseteq Pages
      /\ \A p \in Run(i, Counted(i)) : page_table[p].state = page_table[i].state
  <2>1. CASE i \in Heads
    <3>1. Run(i, Counted(i)) = Extent(i) /\ i \in Extent(i) /\ Extent(i) \subseteq Pages
      BY <2>1, Block DEF Counted, Extent, OrderedInv
    <3>2. \A p \in Extent(i) : page_table[p].state = "USED"
      BY <2>1 DEF OrderedInv, BlocksUsed
    <3> QED BY <3>1, <3>2
  <2>2. CASE i \notin Heads
    <3>1. Run(i, Counted(i)) = {i}
      BY <2>2, <1>1 DEF Counted, Run
    <3> QED BY <3>1
  <2> QED BY <2>1, <2>2
<1>3. \A p \in Pages : p >= i <=> p \in Run(i, n) \/ p >= i + n
  <2> HIDE DEF n
  <2> QED BY <1>1 DEF Run, Pages
<1> HIDE DEF n
<1>4. ASSUME NEW p \in From(i, s)
      PROVE  p \in (IF page_table[i].state = s THEN Run(i, n) ELSE {}) \/ p \in From(i + n, s)
  BY <1>2, <1>3 DEF From, n
<1>5. ASSUME NEW p, p \in (IF page_table[i].state = s THEN Run(i, n) ELSE {}) \/ p \in From(i + n, s)
      PROVE  p \in From(i, s)
  BY <1>2, <1>3, <1>5 DEF From, n
<1> QED BY <1>4, <1>5 DEF n

LEMMA CountSplits ==
  ASSUME OrderedInv, NEW s, NEW i \in Pages
  PROVE  Cardinality(From(i, s)) = (IF page_table[i].state = s THEN Counted(i) ELSE 0)
                                     + Cardinality(From(i + Counted(i), s))
<1>1. Counted(i) \in Nat \ {0} /\ i \in Nat /\ i + Counted(i) \in Nat
  BY CountedIsStep DEF OrderedInv
<1> DEFINE n == Counted(i)
           A == Run(i, n)
           B == From(i + n, s)
<1>2. IsFiniteSet(A) /\ Cardinality(A) = n
  BY <1>1, RunCount
<1>3. IsFiniteSet(B) /\ Cardinality(B) \in Nat
  BY FromFinite
<1>4. From(i, s) = (IF page_table[i].state = s THEN A ELSE {}) \cup B
  BY FromSplits
<1>5. A \cap B = {}
  <2> HIDE DEF n
  <2> QED BY <1>1 DEF Run, From, Pages, n
<1> HIDE DEF A, B
<1>6. CASE page_table[i].state = s
  <2>1. From(i, s) = A \cup B
    BY <1>4, <1>6
  <2>2. Cardinality(A \cup B) = Cardinality(A) + Cardinality(B)
    <3>1. Cardinality(A \cup B) = Cardinality(A) + Cardinality(B) - Cardinality(A \cap B)
      BY <1>2, <1>3, FS_Union
    <3>2. Cardinality(A \cap B) = 0
      BY <1>5, FS_EmptySet
    <3> QED BY <1>1, <1>2, <1>3, <3>1, <3>2
  <2> QED BY <1>2, <1>6, <2>1, <2>2 DEF B
<1>7. CASE page_table[i].state # s
  BY <1>3, <1>4, <1>7 DEF B
<1> QED BY <1>6, <1>7

\* Counting the pages from i on satisfies the equation of the loop.
LEMMA CountFromIsCount ==
  ASSUME OrderedInv, NEW s
  PROVE  IsCount(CountFrom(s), s)
<1> DEFINE g == CountFrom(s)
<1>1. ASSUME NEW i \in Nat
      PROVE  g[i] = IF i >= MaxPages THEN 0
                    ELSE (IF page_table[i].state = s THEN Counted(i) ELSE 0) + g[i + Counted(i)]
  <2>1. CASE i >= MaxPages
    <3>1. From(i, s) = {}
      BY <2>1, VmmAssumption DEF From, Pages
    <3> QED BY <2>1, <3>1, FS_EmptySet DEF CountFrom
  <2>2. CASE ~(i >= MaxPages)
    <3>1. i \in Pages
      BY <2>2, VmmAssumption DEF Pages
    <3>2. i + Counted(i) \in Nat
      BY <3>1, CountedIsStep DEF OrderedInv
    <3> QED BY <2>2, <3>1, <3>2, CountSplits DEF CountFrom
  <2> QED BY <2>1, <2>2
<1>2. g = [i \in Nat |-> g[i]]
  BY DEF CountFrom
<1> HIDE DEF g
<1> QED BY <1>1, <1>2 DEF IsCount, g

\* Nothing else does: from the last page at which two functions differ they go on alike.
LEMMA OneCount ==
  ASSUME Inv, NEW s, NEW f, NEW g, IsCount(f, s), IsCount(g, s)
  PROVE  f[0] = g[0]
<1> DEFINE B == {i \in Pages : f[i] # g[i]}
<1> SUFFICES ASSUME f[0] # g[0] PROVE FALSE
  OBVIOUS
<1>1. MaxPages - 1 \in Nat /\ B \in SUBSET (0 .. MaxPages - 1) /\ 0 \in B
  BY VmmAssumption DEF Pages
<1>2. PICK m \in B : \A i \in B : i <= m
  <2> HIDE DEF B
  <2> QED BY <1>1, GreatestIn
<1>3. Counted(m) \in Nat \ {0} /\ m \in Nat /\ m + Counted(m) \in Nat /\ m \in Pages /\ m < MaxPages
  BY <1>2, CountedIsStep, VmmAssumption DEF Pages
<1>4. \A i \in Nat : i >= MaxPages => f[i] = 0 /\ g[i] = 0
  BY DEF IsCount
<1>5. f[m + Counted(m)] = g[m + Counted(m)]
  <2> DEFINE i == m + Counted(m)
  <2>1. i \in Nat /\ i > m
    BY <1>3
  <2>2. CASE i >= MaxPages
    BY <1>4, <2>1, <2>2
  <2>3. CASE ~(i >= MaxPages)
    <3>1. i \in Pages
      BY <2>1, <2>3, VmmAssumption DEF Pages
    <3>2. i \notin B
      <4> HIDE DEF i, B
      <4>1. \A j \in B : j \in Nat
        BY DEF B, Pages
      <4> QED BY <1>2, <1>3, <2>1, <4>1
    <3> QED BY <3>1, <3>2
  <2> QED BY <2>2, <2>3
<1>6. /\ f[m] = (IF page_table[m].state = s THEN Counted(m) ELSE 0) + f[m + Counted(m)]
      /\ g[m] = (IF page_table[m].state = s THEN Counted(m) ELSE 0) + g[m + Counted(m)]
  <2>1. ~(m >= MaxPages)
    BY <1>3, VmmAssumption
  <2> QED BY <1>3, <2>1 DEF IsCount
<1> QED BY <1>2, <1>5, <1>6

\* The statistics count every page once.
LEMMA StatsCount == OrderedInv => StatsExact
<1> SUFFICES ASSUME OrderedInv, NEW s \in PageStates
             PROVE  VmmStats(s) = Cardinality({i \in Pages : page_table[i].state = s})
  BY DEF StatsExact
<1>1. IsCount(CountFrom(s), s)
  BY CountFromIsCount
<1>2. IsCount(CHOOSE f : IsCount(f, s), s)
  BY <1>1
<1>3. (CHOOSE f : IsCount(f, s))[0] = CountFrom(s)[0]
  <2> DEFINE c == CHOOSE f : IsCount(f, s)
  <2>1. IsCount(c, s)
    BY <1>2
  <2> HIDE DEF c
  <2>2. c[0] = CountFrom(s)[0]
    BY <1>1, <2>1, OneCount DEF OrderedInv
  <2> QED BY <2>2 DEF c
<1>4. From(0, s) = {i \in Pages : page_table[i].state = s}
  BY DEF From, Pages
<1> QED BY <1>3, <1>4, StatsIsCount DEF CountFrom

\* The loop of vmm_get_largest_free_block: the length of the run of free pages that ends
\* at each page.
IsRunLength(f) ==
  f = [i \in Pages |-> IF page_table[i].state # "FREE" THEN 0
                       ELSE IF i = 0 THEN 1 ELSE f[i - 1] + 1]
RunLengths == CHOOSE f : IsRunLength(f)

LEMMA LargestIsLongest ==
  VmmGetLargestFreeBlock = Max({RunLengths[i] : i \in Pages}) * PageSize
BY DEF VmmGetLargestFreeBlock, RunLengths, IsRunLength

\* Where the run that ends at page i starts: behind the last page before it that is not free.
FreeFrom(j, i) == \A p \in Pages : j <= p /\ p <= i => page_table[p].state = "FREE"
StartsOfRun(i) == {j \in 0 .. i + 1 : FreeFrom(j, i)}
RunStart(i) == Min(StartsOfRun(i))

LEMMA RunStartIs ==
  ASSUME NEW i \in Pages
  PROVE  /\ RunStart(i) \in 0 .. i + 1 /\ FreeFrom(RunStart(i), i)
         /\ \A j \in 0 .. i + 1 : FreeFrom(j, i) => RunStart(i) <= j
<1>1. i + 1 \in StartsOfRun(i) /\ StartsOfRun(i) \in SUBSET Nat /\ i \in Nat
  BY DEF StartsOfRun, FreeFrom, Pages
<1>2. RunStart(i) \in StartsOfRun(i) /\ \A j \in StartsOfRun(i) : RunStart(i) <= j
  BY <1>1, MinIsLeast DEF RunStart
<1> QED BY <1>2 DEF StartsOfRun

\* The lengths of these runs satisfy the equation of the loop.
LEMMA LengthsExist == IsRunLength([i \in Pages |-> i + 1 - RunStart(i)])
<1> DEFINE g == [i \in Pages |-> i + 1 - RunStart(i)]
<1>1. ASSUME NEW i \in Pages, page_table[i].state # "FREE"
      PROVE  g[i] = 0
  <2>1. i \in Nat /\ ~(RunStart(i) <= i)
    <3>1. i \in Nat /\ RunStart(i) \in 0 .. i + 1 /\ FreeFrom(RunStart(i), i)
      BY RunStartIs DEF Pages
    <3> QED BY <1>1, <3>1 DEF FreeFrom
  <2>2. RunStart(i) = i + 1
    BY <2>1, RunStartIs
  <2> QED BY <2>1, <2>2
<1>2. ASSUME NEW i \in Pages, page_table[i].state = "FREE", i = 0
      PROVE  g[i] = 1
  <2>1. FreeFrom(0, 0)
    BY <1>2 DEF FreeFrom, Pages
  <2>2. RunStart(i) = 0
    <3>1. RunStart(i) \in 0 .. 1 /\ RunStart(i) <= 0
      BY <1>2, <2>1, RunStartIs
    <3> QED BY <3>1
  <2> QED BY <1>2, <2>2
<1>3. ASSUME NEW i \in Pages, page_table[i].state = "FREE", i # 0
      PROVE  g[i] = g[i - 1] + 1
  <2>1. i - 1 \in Pages /\ i \in Nat
    BY <1>3, VmmAssumption DEF Pages
  <2>2. \A j \in 0 .. i : FreeFrom(j, i) <=> FreeFrom(j, i - 1)
    BY <1>3, <2>1 DEF FreeFrom, Pages
  <2> DEFINE a == RunStart(i)
             b == RunStart(i - 1)
  <2>3. /\ a \in 0 .. i + 1 /\ FreeFrom(a, i)
        /\ \A j \in 0 .. i + 1 : FreeFrom(j, i) => a <= j
    BY RunStartIs
  <2>4. /\ b \in 0 .. i - 1 + 1 /\ FreeFrom(b, i - 1)
        /\ \A j \in 0 .. i - 1 + 1 : FreeFrom(j, i - 1) => b <= j
    BY <2>1, RunStartIs
  <2>5. i - 1 + 1 = i
    BY <2>1
  <2>6. a = b
    <3> HIDE DEF a, b
    <3>1. b \in 0 .. i /\ b \in 0 .. i + 1 /\ FreeFrom(b, i)
      BY <2>1, <2>2, <2>4, <2>5
    <3>2. a <= b
      BY <2>3, <3>1
    <3>3. a \in 0 .. i
      BY <2>1, <2>3, <3>1, <3>2
    <3>4. b <= a
      BY <2>2, <2>3, <2>4, <2>5, <3>3
    <3> QED BY <2>1, <3>1, <3>2, <3>3, <3>4
  <2>7. a \in Int
    BY <2>1, <2>3
  <2> HIDE DEF a, b
  <2> QED BY <2>1, <2>6, <2>7 DEF a, b
<1>4. \A i \in Pages : g[i] = IF page_table[i].state # "FREE" THEN 0
                              ELSE IF i = 0 THEN 1 ELSE g[i - 1] + 1
  BY <1>1, <1>2, <1>3
<1>5. g = [i \in Pages |-> g[i]]
  OBVIOUS
<1> HIDE DEF g
<1>6. IsRunLength(g)
  BY <1>4, <1>5 DEF IsRunLength
<1> QED BY <1>6 DEF g

\* And they are what the loop finds: at the first page where it found another number it
\* would have gone on from the same.
LEMMA LengthsAre ==
  ASSUME NEW i \in Pages
  PROVE  RunLengths[i] = i + 1 - RunStart(i)
<1> DEFINE g == [k \in Pages |-> k + 1 - RunStart(k)]
           f == RunLengths
           B == {k \in Pages : f[k] # g[k]}
<1>1. IsRunLength(g)
  BY LengthsExist
<1>2. IsRunLength(f)
  BY <1>1 DEF RunLengths
<1>3. B \in SUBSET Nat
  BY DEF Pages
<1>4. B = {}
  <2> SUFFICES ASSUME B # {} PROVE FALSE
    OBVIOUS
  <2> HIDE DEF B, f, g
  <2>1. PICK m \in B : \A k \in B : m <= k
    BY <1>3, LeastNumber
  <2>2. m \in Pages /\ m \in Nat /\ f[m] # g[m]
    BY <2>1 DEF B, Pages
  <2>3. /\ f[m] = IF page_table[m].state # "FREE" THEN 0 ELSE IF m = 0 THEN 1 ELSE f[m - 1] + 1
        /\ g[m] = IF page_table[m].state # "FREE" THEN 0 ELSE IF m = 0 THEN 1 ELSE g[m - 1] + 1
    BY <1>1, <1>2, <2>2 DEF IsRunLength
  <2>4. m # 0
    BY <2>2, <2>3
  <2>5. m - 1 \in Pages
    BY <2>2, <2>4, VmmAssumption DEF Pages
  <2>6. f[m - 1] = g[m - 1]
    <3>1. ~(m <= m - 1)
      BY <2>2
    <3>2. m - 1 \notin B
      BY <2>1, <3>1
    <3> QED BY <2>5, <3>2 DEF B
  <2> QED BY <2>2, <2>3, <2>6
<1> HIDE DEF f
<1>5. f[i] = g[i]
  BY <1>4
<1> QED BY <1>5 DEF f

\* As many pages as the longest run has fit in a row, and no more.
LEMMA LongestFits ==
  LET M == Max({RunLengths[i] : i \in Pages})
  IN  /\ M \in 0 .. MaxPages
      /\ \A n \in 1 .. MaxPages : Fits(n, PageSize) # {} <=> n <= M
<1> DEFINE L == {RunLengths[i] : i \in Pages}
           M == Max(L)
<1>1. MaxPages \in Nat /\ 0 \in Pages /\ \A i \in Pages : i \in Nat /\ i + 1 <= MaxPages
  BY VmmAssumption DEF Pages
<1>2. \A i \in Pages : RunLengths[i] \in 0 .. MaxPages
  <2> TAKE i \in Pages
  <2>1. RunStart(i) \in 0 .. i + 1 /\ RunLengths[i] = i + 1 - RunStart(i)
    BY RunStartIs, LengthsAre
  <2> QED BY <1>1, <2>1
<1>3. L \in SUBSET (0 .. MaxPages) /\ L # {}
  BY <1>1, <1>2
<1>4. M \in L /\ \A y \in L : y <= M
  <2> HIDE DEF L
  <2> QED BY <1>1, <1>3, GreatestIn
<1>5. ASSUME NEW n \in 1 .. MaxPages, NEW i \in Fits(n, PageSize)
      PROVE  n <= M
  <2> DEFINE e == i + n - 1
  <2>1. i \in Pages /\ i \in Nat /\ n \in Nat /\ i + n <= MaxPages
        /\ \A p \in Run(i, n) : page_table[p].state = "FREE"
    BY <1>1, <1>5 DEF Fits
  <2>2. e \in Pages /\ i \in 0 .. e + 1
    BY <1>1, <2>1 DEF Pages
  <2>3. FreeFrom(i, e)
    BY <2>1 DEF FreeFrom, Run, Pages
  <2>4. RunStart(e) <= i /\ RunStart(e) \in 0 .. e + 1
    BY <2>2, <2>3, RunStartIs
  <2>5. RunLengths[e] = e + 1 - RunStart(e) /\ RunLengths[e] <= M
    BY <1>4, <2>2, LengthsAre
  <2>6. M \in Nat
    BY <1>3, <1>4
  <2> HIDE DEF M
  <2> QED BY <2>1, <2>2, <2>4, <2>5, <2>6
<1>6. ASSUME NEW n \in 1 .. MaxPages, n <= M
      PROVE  Fits(n, PageSize) # {}
  <2>1. PICK e \in Pages : M = RunLengths[e]
    BY <1>4
  <2>2. /\ RunStart(e) \in 0 .. e + 1 /\ FreeFrom(RunStart(e), e)
        /\ M = e + 1 - RunStart(e)
    BY <2>1, RunStartIs, LengthsAre
  <2> DEFINE s == RunStart(e)
  <2> HIDE DEF s, M
  <2>3. s \in Pages /\ s + n <= MaxPages /\ s + n - 1 <= e
    BY <1>1, <1>6, <2>2 DEF s, Pages
  <2>4. \A p \in Run(s, n) : page_table[p].state = "FREE"
    BY <1>1, <2>2, <2>3 DEF Run, FreeFrom, Pages, s
  <2>5. ~(PageSize > PageSize)
    BY VmmAssumption
  <2> QED BY <2>3, <2>4, <2>5 DEF Fits
<1> QED BY <1>3, <1>4, <1>5, <1>6

\* Numbers of pages and their sizes in bytes are in the same order.
LEMMA SizesAreOrdered ==
  ASSUME NEW d \in Nat, d > 0, NEW i \in Nat, NEW j \in Nat
  PROVE  i <= j <=> i * d <= j * d
<1>1. i * d \in Nat /\ j * d \in Nat
  OBVIOUS
<1>2. i < j => i * d + d <= j * d
  BY MultiplesApart
<1>3. j < i => j * d + d <= i * d
  BY MultiplesApart
<1>4. i = j => i * d = j * d
  OBVIOUS
<1> QED BY <1>1, <1>2, <1>3, <1>4

\* What callers are told of free blocks and of tags.
LEMMA ReportsAreTrue == Inv => ReportsHold
<1> SUFFICES ASSUME Inv PROVE ReportsHold
  OBVIOUS
<1> DEFINE M == Max({RunLengths[i] : i \in Pages})
<1>1. /\ M \in 0 .. MaxPages
      /\ \A n \in 1 .. MaxPages : Fits(n, PageSize) # {} <=> n <= M
  BY LongestFits
<1>2. VmmGetLargestFreeBlock = M * PageSize
  BY LargestIsLongest
<1> HIDE DEF M
<1>3. MaxPages \in Nat /\ PageSize \in Nat /\ PageSize > 0 /\ M \in Nat /\ M <= MaxPages
  BY <1>1, VmmAssumption
<1>4. \A n \in 1 .. MaxPages : Fits(n, PageSize) # {} <=> n * PageSize <= VmmGetLargestFreeBlock
  BY <1>1, <1>2, <1>3, SizesAreOrdered
<1>5. VmmGetLargestFreeBlock <= VmmGetTotalMemory
  BY <1>2, <1>3, SizesAreOrdered DEF VmmGetTotalMemory
<1>6. ASSUME NEW addr \in Addrs, VmmGetTag(addr) # 0
      PROVE  \E i \in PageAt(addr) : page_table[i].state # "FREE"
  <2>1. PageAt(addr) # {} /\ page_table[Min(PageAt(addr))].tag # 0
    BY <1>6 DEF VmmGetTag
  <2>2. PageAt(addr) \in SUBSET Nat /\ PageAt(addr) \subseteq Pages
    BY DEF PageAt, Pages
  <2>3. Min(PageAt(addr)) \in PageAt(addr)
    BY <2>1, <2>2, MinIsLeast
  <2>4. page_table[Min(PageAt(addr))].state # "FREE"
    BY <2>1, <2>2, <2>3, Entries DEF Inv, FreePage
  <2> QED BY <2>3, <2>4
<1> QED BY <1>4, <1>5, <1>6 DEF ReportsHold

\* For callers in the order of the boot: the statistics count every page once, every page
\* in use belongs to a block, and what is told of free blocks and tags is so.
THEOREM TableStaysExact == OrderedSpec => []TableIsExact
<1>1. Init => OrderedInv
  BY OrderedInit
<1>2. OrderedInv /\ [OrderedNext]_vars => OrderedInv'
  BY OrderedNextInv
<1>3. OrderedInv => TableIsExact
  BY StatsCount, ReportsAreTrue DEF OrderedInv, TableIsExact
<1> QED BY <1>1, <1>2, <1>3, PTL DEF OrderedSpec
=============================================================================
