-------------------------------- MODULE Pmm --------------------------------
(***************************************************************************)
(* The physical memory manager, usr/drivers/pmm.c.                         *)
(*                                                                         *)
(* Physical memory is a list of regions; a region has a bitmap with one    *)
(* bit per page (set = allocated or reserved) kept in words of WordBits    *)
(* bits, and a hint, last_alloc, where the search for a single page        *)
(* starts.  The bitmap is modelled by the set of its set bit numbers.      *)
(* Addresses are natural numbers below AddrSpace and 0 is NULL.            *)
(*                                                                         *)
(* Four history variables: holders counts the grants of each frame that    *)
(* were not returned, reserved collects the frames a pmm_reserve_range     *)
(* marked, single says that a single page was handed out, and ret is what  *)
(* the last call was asked and answered.                                   *)
(***************************************************************************)
EXTENDS Integers, Sequences, FiniteSetsExt

CONSTANTS
  WordBits,      \* bits of a bitmap word (64)
  PageSize,      \* PMM_PAGE_SIZE (4096)
  AddrSpace,     \* number of addresses of a uintptr_t or a size_t (2^32)
  Zones,         \* pmm_zone_t
  RegionInputs,  \* arguments of pmm_add_region: records [base, size, zone]
  RangeInputs,   \* arguments of pmm_reserve_range: pairs <<start, end>>
  Counts,        \* numbers of pages callers ask for or free
  MaxRegions,    \* bound: regions added in a behaviour
  MaxHolders     \* bound: grants of one frame that are outstanding

NULL == 0
RegionInput == [base : 0 .. AddrSpace - 1, size : 0 .. AddrSpace - 1, zone : Zones]
Frames == {a \in 0 .. AddrSpace - 1 : a % PageSize = 0}

\* Region bases are above address 0, as the only caller's is (sbin/init/init.c:123).
ASSUME PmmAssumption ==
  /\ WordBits \in Nat \ {0}
  /\ PageSize \in Nat \ {0}
  /\ AddrSpace \in Nat \ {0} /\ AddrSpace % PageSize = 0
  /\ IsFiniteSet(Zones)
  /\ RegionInputs \subseteq {in \in RegionInput : in.base > 0}
  /\ RangeInputs \subseteq (0 .. AddrSpace - 1) \X (0 .. AddrSpace - 1)
  /\ Counts \subseteq Nat
  /\ MaxRegions \in Nat
  /\ MaxHolders \in Nat

VARIABLES
  pmm_initialized,
  pmm_regions,   \* the list, head first
  holders,
  reserved,
  single,
  ret

vars == <<pmm_initialized, pmm_regions, holders, reserved, single, ret>>

Region ==
  [base : Nat, pages : Nat \ {0}, last_alloc : Nat, zone : Zones, bitmap : SUBSET Nat]

Answer(call, asked, value) == [call |-> call, asked |-> asked, value |-> value]

-----------------------------------------------------------------------------
(* Addresses and bits.                                                     *)

AlignDown(a) == a - (a % PageSize)
AlignUp(a) == AlignDown((a + PageSize - 1) % AddrSpace)

FrameOf(r, page) == (r.base + page * PageSize) % AddrSpace
RegionEnd(r) == (r.base + r.pages * PageSize) % AddrSpace
Covers(r, addr) == r.base <= addr /\ addr < RegionEnd(r)

\* Position in the list of the first region that covers addr, 0 if none does.
FindRegion(addr) ==
  LET hits == {i \in DOMAIN pmm_regions : Covers(pmm_regions[i], addr)}
  IN IF hits = {} THEN 0 ELSE Min(hits)

\* Mutant: pages counted from 1.
PageIndexFromOne(r, addr) == (addr - r.base) \div PageSize + 1

PageIndex(r, addr) == (addr - r.base) \div PageSize

Bits == 0 .. WordBits - 1
BitmapSize(r) == (r.pages + WordBits - 1) \div WordBits
Word(r, k) == {b \in Bits : k * WordBits + b \in r.bitmap}

\* Leading zeros of a word given by its set bits, counted from the top bit.
Clz(word) == IF word = {} THEN WordBits ELSE WordBits - 1 - Max(word)
FindFirstZeroBit(word) == Clz(Bits \ word)

-----------------------------------------------------------------------------
(* Searching a region.                                                     *)

CandidatePage(r, k) == k * WordBits + FindFirstZeroBit(Word(r, k))

\* Mutant: the last page of a region is not taken for one of its pages.
UsableWordsButLast(r) ==
  {k \in 0 .. BitmapSize(r) - 1 : Word(r, k) # Bits /\ CandidatePage(r, k) + 1 < r.pages}

\* Words in which alloc_page_from_region finds a page it may return.
UsableWords(r) ==
  {k \in 0 .. BitmapSize(r) - 1 : Word(r, k) # Bits /\ CandidatePage(r, k) < r.pages}

\* From the word of the hint upwards, then from the first word.
ChosenPage(r) ==
  LET start == r.last_alloc \div WordBits
      above == {k \in UsableWords(r) : k >= start}
  IN CandidatePage(r, Min(IF above # {} THEN above ELSE UsableWords(r)))

\* Mutant: the last page of the run is not tested.
FreeRunsLastUntested(r, count) ==
  {s \in 0 .. r.pages - 1 : s + count <= r.pages /\ (s .. s + count - 2) \cap r.bitmap = {}}

\* Pages at which a run of count clear bits starts.
FreeRuns(r, count) ==
  {s \in 0 .. r.pages - 1 : s + count <= r.pages /\ (s .. s + count - 1) \cap r.bitmap = {}}

Run(page, count) == page .. page + count - 1

\* Mutant: only the first page of a run is marked.
SetFirstBit(i, bits) == [pmm_regions EXCEPT ![i].bitmap = @ \cup {Min(bits)}]

SetBits(i, bits) == [pmm_regions EXCEPT ![i].bitmap = @ \cup bits]

Grant(r, pages) ==
  LET granted == {FrameOf(r, p) : p \in pages}
  IN /\ \A f \in granted : holders[f] < MaxHolders
     /\ holders' = [f \in Frames |-> IF f \in granted THEN holders[f] + 1 ELSE holders[f]]

-----------------------------------------------------------------------------
(* Operations.                                                             *)

Init ==
  /\ pmm_initialized = FALSE
  /\ pmm_regions = <<>>
  /\ holders = [f \in Frames |-> 0]
  /\ reserved = {}
  /\ single = FALSE
  /\ ret = Answer("none", 0, 0)

PmmInit ==
  /\ pmm_initialized' = TRUE
  /\ pmm_regions' = IF pmm_initialized THEN pmm_regions ELSE <<>>
  /\ ret' = Answer("init", 0, IF pmm_initialized THEN -1 ELSE 0)
  /\ UNCHANGED <<holders, reserved, single>>

\* Whole pages between the aligned base and base + size; the subtraction is unsigned.
RegionPages(in) ==
  ((in.size - (AlignUp(in.base) - in.base)) % AddrSpace) \div PageSize

PmmAddRegion(in) ==
  /\ \/ /\ pmm_initialized /\ RegionPages(in) > 0
        /\ Len(pmm_regions) < MaxRegions
        /\ pmm_regions' = <<[base |-> AlignUp(in.base), pages |-> RegionPages(in),
                             last_alloc |-> 0, zone |-> in.zone, bitmap |-> {}]>>
                          \o pmm_regions
        /\ ret' = Answer("add_region", 0, 0)
     \/ /\ ~pmm_initialized \/ RegionPages(in) = 0
        /\ ret' = Answer("add_region", 0, -1)
        /\ UNCHANGED pmm_regions
  /\ UNCHANGED <<pmm_initialized, holders, reserved, single>>

PmmReserveRange(start, end) ==
  LET covered == {a \in Frames : /\ AlignDown(start) <= a /\ a < AlignUp(end)
                                 /\ FindRegion(a) # 0}
      pages(i) == {PageIndex(pmm_regions[i], a) : a \in {b \in covered : FindRegion(b) = i}}
  IN /\ \/ /\ pmm_initialized
           /\ pmm_regions' = [i \in DOMAIN pmm_regions |->
                [pmm_regions[i] EXCEPT !.bitmap =
                   @ \cup (pages(i) \cap (0 .. pmm_regions[i].pages - 1))]]
           /\ reserved' = reserved \cup covered
           /\ ret' = Answer("reserve_range", 0, 0)
        \/ /\ ~pmm_initialized
           /\ ret' = Answer("reserve_range", 0, -1)
           /\ UNCHANGED <<pmm_regions, reserved>>
     /\ UNCHANGED <<pmm_initialized, holders, single>>

\* The regions a single-page request can be served from: the preferred zone, else any.
Servers(zone) ==
  LET able == {i \in DOMAIN pmm_regions : UsableWords(pmm_regions[i]) # {}}
      preferred == {i \in able : pmm_regions[i].zone = zone}
  IN IF preferred # {} THEN preferred ELSE able

PmmAllocPageZone(zone) ==
  /\ \/ /\ pmm_initialized /\ Servers(zone) # {}
        /\ LET i == Min(Servers(zone))
               r == pmm_regions[i]
               page == ChosenPage(r)
           IN /\ pmm_regions' = [SetBits(i, {page}) EXCEPT ![i].last_alloc = page]
              /\ Grant(r, {page})
              /\ single' = TRUE
              /\ ret' = Answer("alloc_page", zone, FrameOf(r, page))
     \/ /\ ~pmm_initialized \/ Servers(zone) = {}
        /\ ret' = Answer("alloc_page", zone, NULL)
        /\ UNCHANGED <<pmm_regions, holders, single>>
  /\ UNCHANGED <<pmm_initialized, reserved>>

\* Regions of the zone that hold a free run of count pages.
Fitting(count, zone) ==
  {i \in DOMAIN pmm_regions : /\ pmm_regions[i].zone = zone
                              /\ FreeRuns(pmm_regions[i], count) # {}}

PmmAllocPagesZone(count, zone) ==
  /\ \/ /\ pmm_initialized /\ count > 0 /\ Fitting(count, zone) # {}
        /\ LET i == Min(Fitting(count, zone))
               r == pmm_regions[i]
               start == Min(FreeRuns(r, count))
           IN /\ pmm_regions' = SetBits(i, Run(start, count))
              /\ Grant(r, Run(start, count))
              /\ ret' = Answer("alloc_pages", count, FrameOf(r, start))
     \/ /\ ~pmm_initialized \/ count = 0 \/ Fitting(count, zone) = {}
        /\ ret' = Answer("alloc_pages", count, NULL)
        /\ UNCHANGED <<pmm_regions, holders>>
  /\ UNCHANGED <<pmm_initialized, reserved, single>>

\* What pmm_free_pages checks before it clears anything.
Freeable(addr, count) ==
  /\ pmm_initialized /\ addr # NULL /\ count > 0
  /\ addr % PageSize = 0
  /\ FindRegion(addr) # 0
  /\ LET r == pmm_regions[FindRegion(addr)]
     IN /\ PageIndex(r, addr) + count <= r.pages
        /\ Run(PageIndex(r, addr), count) \subseteq r.bitmap

LowerHint(hint, page) == IF page < hint THEN page ELSE hint

PmmFreePages(addr, count) ==
  /\ \/ /\ Freeable(addr, count)
        /\ LET i == FindRegion(addr)
               page == PageIndex(pmm_regions[i], addr)
           IN pmm_regions' = [pmm_regions EXCEPT ![i].bitmap = @ \ Run(page, count),
                                                 ![i].last_alloc = LowerHint(@, page)]
        /\ holders' = [f \in Frames |->
             IF addr <= f /\ f < addr + count * PageSize /\ holders[f] > 0
             THEN holders[f] - 1 ELSE holders[f]]
        /\ ret' = Answer("free_pages", count, 0)
     \/ /\ ~Freeable(addr, count)
        /\ ret' = Answer("free_pages", count, -1)
        /\ UNCHANGED <<pmm_regions, holders>>
  /\ UNCHANGED <<pmm_initialized, reserved, single>>

SumOver(f, S) == MapThenSumSet(LAMBDA i : f[i], S)

\* What pmm_get_stats adds up over the regions of some zones.
RegionSizes == [i \in DOMAIN pmm_regions |-> pmm_regions[i].pages]
RegionTaken == [i \in DOMAIN pmm_regions |-> Cardinality(pmm_regions[i].bitmap)]
RegionFree == [i \in DOMAIN pmm_regions |-> RegionSizes[i] - RegionTaken[i]]
Totals(zones) ==
  LET own == {i \in DOMAIN pmm_regions : pmm_initialized /\ pmm_regions[i].zone \in zones}
  IN [total |-> SumOver(RegionSizes, own), allocated |-> SumOver(RegionTaken, own),
      free |-> SumOver(RegionFree, own)]
PmmGetStats ==
  [all |-> Totals(Zones), zones |-> [zone \in Zones |-> Totals({zone})]]

PmmIsPageAllocated(addr) ==
  /\ pmm_initialized /\ addr # NULL /\ FindRegion(addr) # 0
  /\ LET r == pmm_regions[FindRegion(addr)] IN PageIndex(r, addr) \in r.bitmap

(***************************************************************************)
(* Callers.  Next makes any call with any argument.  ClientNext makes the  *)
(* calls in the order of sbin/init/init.c:122-124: all configuration comes *)
(* before the first allocation, the regions are disjoint, and a page is    *)
(* freed by a caller that was given it.                                    *)
(***************************************************************************)
Configure ==
  \/ PmmInit
  \/ \E in \in RegionInputs : PmmAddRegion(in)
  \/ \E range \in RangeInputs : PmmReserveRange(range[1], range[2])

\* The new region ends inside the address space, where rounding its base up does not leave it, and
\* meets no earlier one.
Separate(in) ==
  LET base == AlignUp(in.base)
      end == base + RegionPages(in) * PageSize
  IN /\ in.base <= base /\ base <= in.base + in.size /\ in.base + in.size < AddrSpace
     /\ \A i \in DOMAIN pmm_regions :
          end <= pmm_regions[i].base \/ RegionEnd(pmm_regions[i]) <= base

Boot ==
  /\ \A f \in Frames : holders[f] = 0
  /\ \/ PmmInit
     \/ \E in \in RegionInputs : Separate(in) /\ PmmAddRegion(in)
     \/ \E range \in RangeInputs : PmmReserveRange(range[1], range[2])

ReturnHeld ==
  \E addr \in Frames, count \in Counts :
    /\ count > 0
    /\ \A f \in Frames : addr <= f /\ f < addr + count * PageSize => holders[f] > 0
    /\ PmmFreePages(addr, count)

AllocPage == \E zone \in Zones : PmmAllocPageZone(zone)
AllocPages == \E count \in Counts, zone \in Zones : PmmAllocPagesZone(count, zone)

ClientNext == Boot \/ AllocPage \/ AllocPages \/ ReturnHeld

Next ==
  \/ Configure
  \/ AllocPage
  \/ AllocPages
  \/ \E addr \in 0 .. AddrSpace - 1, count \in Counts : PmmFreePages(addr, count)

Spec == Init /\ [][Next]_vars
ClientSpec == Init /\ [][ClientNext]_vars

-----------------------------------------------------------------------------
(* Properties.                                                             *)

\* A region marks only pages it has, and its hint is one of them.
RegionOK(r) ==
  /\ r \in Region
  /\ r.bitmap \subseteq 0 .. r.pages - 1
  /\ r.last_alloc \in 0 .. r.pages - 1

\* Types: the bits past the last page of a region's last word stay clear and the hint
\* stays inside the region, whatever is called (pmm.c:85, 118-120, 140-142, 276-278).
TypeOK ==
  /\ pmm_initialized \in BOOLEAN
  /\ pmm_regions \in Seq(Region)
  /\ \A i \in DOMAIN pmm_regions : RegionOK(pmm_regions[i])
  /\ holders \in [Frames -> Nat]
  /\ reserved \subseteq Frames
  /\ single \in BOOLEAN

\* No frame is held by two callers at a time (pmm.9:42: "Allocates a single free physical
\* page").
GrantsAreFree == \A f \in Frames : holders[f] <= 1

\* While all requests were for runs of pages, no frame is held by two callers at a time
\* (pmm.c:206-228).
SingleHolder == ~single => GrantsAreFree

\* While all requests were for runs of pages, a frame some caller holds is found by
\* pmm.c:42-50 and marked in its bitmap, so that no later search takes it for a free page.
HeldIsMarked ==
  ~single => \A f \in Frames : holders[f] > 0 =>
    /\ FindRegion(f) # 0
    /\ PageIndex(pmm_regions[FindRegion(f)], f) \in pmm_regions[FindRegion(f)].bitmap

\* Nothing is lost: a marked page is held by a caller or was reserved, so every page
\* that was given back can be found again.
MarkedIsAccountedFor ==
  \A i \in DOMAIN pmm_regions : \A p \in pmm_regions[i].bitmap :
    LET f == FrameOf(pmm_regions[i], p) IN holders[f] > 0 \/ f \in reserved

\* While all requests were for runs of pages, a frame that was reserved before the first of
\* them is not handed out (pmm.9:38, "reserved/unavailable").
ReservedNotGranted == [][~single' => \A f \in reserved : holders'[f] <= holders[f]]_vars

\* pmm_alloc_page answers NULL only when no region has a clear bit left, although it
\* looks at one candidate per word (pmm.c:134-165).
OutOfMemoryIsReal ==
  ret.call = "alloc_page" /\ ret.value = NULL /\ pmm_initialized =>
    \A i \in DOMAIN pmm_regions : pmm_regions[i].bitmap = 0 .. pmm_regions[i].pages - 1

\* A page that nobody holds and nobody reserved can be allocated again: it is not marked, and
\* pmm_alloc_page answers NULL only when every page is (pmm.c:130-194, 234-281).
NothingIsLost == MarkedIsAccountedFor /\ OutOfMemoryIsReal

\* The statistics count every page once: those that pmm_is_page_allocated says are taken,
\* found by their address, are the ones the bitmaps mark, and the zones make up the whole
\* (pmm.c:284-326).
StatsAgree ==
  LET stats == PmmGetStats
      zones_free == [zone \in Zones |-> stats.zones[zone].free]
  IN /\ stats.all.allocated = Cardinality({f \in Frames : PmmIsPageAllocated(f)})
     /\ stats.all.total = stats.all.allocated + stats.all.free
     /\ stats.all.free = SumOver(zones_free, Zones)

=============================================================================
