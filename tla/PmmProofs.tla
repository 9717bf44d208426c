----------------------------- MODULE PmmProofs -----------------------------
(***************************************************************************)
(* Theorems about Pmm for any regions, words, pages and calls: what the    *)
(* regions record, what of it stays apart, and what the statistics add up. *)
(***************************************************************************)
EXTENDS Pmm, MinLemmas, FunctionTheorems, FiniteSetTheorems

\* Remainders and quotients by the constants are natural numbers.
LEMMA Arithmetic ==
  /\ \A a \in Int : a % AddrSpace \in 0 .. AddrSpace - 1 /\ a % PageSize \in 0 .. PageSize - 1
  /\ \A a \in Nat : a \div PageSize \in Nat /\ a \div WordBits \in Nat
  /\ WordBits \in Nat /\ WordBits > 0 /\ PageSize \in Nat /\ PageSize > 0
  /\ AddrSpace \in Nat /\ AddrSpace > 0
BY PmmAssumption

LEMMA RegionFields ==
  ASSUME TypeOK, NEW i \in DOMAIN pmm_regions
  PROVE  /\ i \in Nat /\ i > 0
         /\ pmm_regions[i] \in Region /\ RegionOK(pmm_regions[i])
         /\ pmm_regions[i].base \in Nat /\ pmm_regions[i].pages \in Nat
         /\ pmm_regions[i].pages > 0
         /\ pmm_regions[i].last_alloc \in 0 .. pmm_regions[i].pages - 1
         /\ pmm_regions[i].bitmap \subseteq 0 .. pmm_regions[i].pages - 1
         /\ pmm_regions[i].zone \in Zones
<1>1. pmm_regions \in Seq(Region) /\ RegionOK(pmm_regions[i])
  BY DEF TypeOK
<1>2. i \in 1 .. Len(pmm_regions)
  BY <1>1
<1>3. pmm_regions[i] \in Region
  BY <1>1, <1>2
<1> QED BY <1>1, <1>2, <1>3 DEF RegionOK, Region

\* The count of leading zeros of a word is a natural number.
LEMMA CandidateNat ==
  ASSUME NEW r, NEW k \in Nat
  PROVE  CandidatePage(r, k) \in Nat
<1>1. FindFirstZeroBit(Word(r, k)) \in Nat
  <2> DEFINE word == Bits \ Word(r, k)
  <2>1. CASE word = {}
    BY <2>1, PmmAssumption DEF FindFirstZeroBit, Clz
  <2>2. CASE word # {}
    <3>1. word \in SUBSET (0 .. WordBits - 1) /\ WordBits - 1 \in Nat
      BY PmmAssumption DEF Bits
    <3>2. Max(word) \in word
      <4> HIDE DEF word
      <4> QED BY <2>2, <3>1, GreatestIn
    <3>3. Max(word) \in 0 .. WordBits - 1
      BY <3>1, <3>2
    <3>4. FindFirstZeroBit(Word(r, k)) = WordBits - 1 - Max(word)
      BY <2>2 DEF FindFirstZeroBit, Clz
    <3> HIDE DEF word
    <3> QED BY <3>3, <3>4, PmmAssumption
  <2> QED BY <2>1, <2>2
<1>2. k * WordBits \in Nat
  BY PmmAssumption
<1> QED BY <1>1, <1>2 DEF CandidatePage

-----------------------------------------------------------------------------
(* What the searches answer.                                               *)

\* The page chosen in a region has a number below the number of pages.
LEMMA ChosenInRegion ==
  ASSUME NEW r \in Region, r.last_alloc \in Nat, UsableWords(r) # {}
  PROVE  ChosenPage(r) \in 0 .. r.pages - 1
<1> DEFINE above == {k \in UsableWords(r) : k >= r.last_alloc \div WordBits}
           words == IF above # {} THEN above ELSE UsableWords(r)
<1>1. UsableWords(r) \subseteq Nat /\ words \subseteq UsableWords(r) /\ words # {}
  BY DEF UsableWords
<1>2. Min(words) \in UsableWords(r)
  BY <1>1, MinIsLeast
<1>3. CandidatePage(r, Min(words)) < r.pages /\ Min(words) \in Nat
  BY <1>1, <1>2 DEF UsableWords
<1>4. CandidatePage(r, Min(words)) \in Nat
  BY <1>3, CandidateNat
<1>5. ChosenPage(r) = CandidatePage(r, Min(words))
  BY DEF ChosenPage
<1>6. r.pages \in Nat
  BY DEF Region
<1> QED BY <1>3, <1>4, <1>5, <1>6

\* The region a single page comes from is in the list and has a usable word.
LEMMA ServerUsable ==
  ASSUME TypeOK, NEW zone, Servers(zone) # {}
  PROVE  /\ Min(Servers(zone)) \in DOMAIN pmm_regions
         /\ UsableWords(pmm_regions[Min(Servers(zone))]) # {}
<1>1. Servers(zone) \subseteq {i \in DOMAIN pmm_regions : UsableWords(pmm_regions[i]) # {}}
  BY DEF Servers
<1>2. Servers(zone) \subseteq Nat
  BY <1>1, RegionFields
<1>3. Min(Servers(zone)) \in Servers(zone)
  BY <1>2, MinIsLeast
<1> QED BY <1>1, <1>3

\* The region a run comes from is in the list, and the run is inside it and clear.
LEMMA FittingRun ==
  ASSUME TypeOK, NEW count \in Nat, NEW zone, Fitting(count, zone) # {},
         NEW i, i = Min(Fitting(count, zone)),
         NEW start, start = Min(FreeRuns(pmm_regions[i], count))
  PROVE  /\ i \in DOMAIN pmm_regions
         /\ start \in Nat /\ start + count <= pmm_regions[i].pages
         /\ Run(start, count) \subseteq 0 .. pmm_regions[i].pages - 1
         /\ Run(start, count) \cap pmm_regions[i].bitmap = {}
<1>1. Fitting(count, zone) \subseteq DOMAIN pmm_regions
  BY DEF Fitting
<1>2. Fitting(count, zone) \subseteq Nat
  BY <1>1, RegionFields
<1>3. i \in Fitting(count, zone)
  BY <1>2, MinIsLeast
<1>4. FreeRuns(pmm_regions[i], count) # {} /\ i \in DOMAIN pmm_regions
  BY <1>3 DEF Fitting
<1>5. pmm_regions[i].pages \in Nat
  BY <1>4, RegionFields
<1>6. FreeRuns(pmm_regions[i], count) \subseteq Nat
  BY <1>5 DEF FreeRuns
<1>7. start \in FreeRuns(pmm_regions[i], count)
  BY <1>4, <1>6, MinIsLeast
<1>8. /\ start \in 0 .. pmm_regions[i].pages - 1 /\ start + count <= pmm_regions[i].pages
      /\ Run(start, count) \cap pmm_regions[i].bitmap = {}
  BY <1>7 DEF FreeRuns, Run
<1>9. Run(start, count) \subseteq 0 .. pmm_regions[i].pages - 1
  BY <1>5, <1>8 DEF Run
<1> QED BY <1>4, <1>8, <1>9

\* An address is found in a region of the list.
LEMMA FoundRegion ==
  ASSUME TypeOK, NEW addr, FindRegion(addr) # 0
  PROVE  FindRegion(addr) \in DOMAIN pmm_regions /\ Covers(pmm_regions[FindRegion(addr)], addr)
<1> DEFINE hits == {i \in DOMAIN pmm_regions : Covers(pmm_regions[i], addr)}
<1>1. hits # {} /\ FindRegion(addr) = Min(hits)
  BY DEF FindRegion
<1>2. hits \subseteq Nat
  BY RegionFields
<1>3. Min(hits) \in hits
  BY <1>1, <1>2, MinIsLeast
<1> QED BY <1>1, <1>3

\* The number of a page that contains an address of the region.
LEMMA PageIndexNat ==
  ASSUME NEW r \in Region, NEW addr \in Nat, Covers(r, addr)
  PROVE  PageIndex(r, addr) \in Nat
<1>1. r.base \in Nat /\ r.base <= addr
  BY DEF Region, Covers
<1>2. addr - r.base \in Nat
  BY <1>1
<1> QED BY <1>2, Arithmetic DEF PageIndex

-----------------------------------------------------------------------------
(* Types.                                                                  *)

\* The part of TypeOK that speaks of the regions.
RegionsOK(regions) == regions \in Seq(Region) /\ \A i \in DOMAIN regions : RegionOK(regions[i])

\* A change of the bits and of the hint that stays inside the region keeps it well-formed.
LEMMA ChangedRegion ==
  ASSUME NEW r, RegionOK(r), NEW bits \in SUBSET (0 .. r.pages - 1), NEW hint \in 0 .. r.pages - 1
  PROVE  RegionOK([r EXCEPT !.bitmap = bits, !.last_alloc = hint])
<1>1. r.pages \in Nat \ {0}
  BY DEF RegionOK, Region
<1>2. hint \in Nat /\ bits \in SUBSET Nat
  BY <1>1
<1> QED BY <1>2 DEF RegionOK, Region

\* Exchanging one region of the list for a well-formed one.
LEMMA RegionExchanged ==
  ASSUME RegionsOK(pmm_regions), NEW i \in DOMAIN pmm_regions, NEW r, RegionOK(r)
  PROVE  RegionsOK([pmm_regions EXCEPT ![i] = r])
BY DEF RegionsOK, RegionOK

LEMMA InitTyping == Init => TypeOK
<1> SUFFICES ASSUME Init PROVE TypeOK
  OBVIOUS
<1>1. pmm_regions = << >> /\ pmm_regions \in Seq(Region)
  BY DEF Init
<1>2. \A i \in DOMAIN pmm_regions : RegionOK(pmm_regions[i])
  BY <1>1
<1>3. holders \in [Frames -> Nat] /\ reserved \subseteq Frames /\ single \in BOOLEAN
      /\ pmm_initialized \in BOOLEAN
  BY DEF Init
<1> QED BY <1>1, <1>2, <1>3 DEF TypeOK

LEMMA AddRegionTyping ==
  ASSUME TypeOK, NEW in \in RegionInputs, PmmAddRegion(in)
  PROVE  RegionsOK(pmm_regions')
<1>1. in.base \in Nat /\ in.size \in Nat /\ in.zone \in Zones
  BY PmmAssumption DEF RegionInput
<1>2. CASE UNCHANGED pmm_regions
  BY <1>2 DEF TypeOK, RegionsOK
<1>3. CASE RegionPages(in) > 0 /\ pmm_regions' # pmm_regions
  <2> DEFINE r == [base |-> AlignUp(in.base), pages |-> RegionPages(in),
                   last_alloc |-> 0, zone |-> in.zone, bitmap |-> {}]
  <2>1. AlignUp(in.base) \in Nat
    <3> DEFINE a == (in.base + PageSize - 1) % AddrSpace
    <3>1. in.base + PageSize - 1 \in Int
      BY <1>1, Arithmetic
    <3>2. a \in 0 .. AddrSpace - 1
      BY <3>1, Arithmetic
    <3>3. a \in Nat /\ a - (a % PageSize) \in Nat
      <4> HIDE DEF a
      <4>1. a \in Nat
        BY <3>2, Arithmetic
      <4> QED BY <4>1, PmmAssumption
    <3> QED BY <3>3 DEF AlignUp, AlignDown
  <2>2. RegionPages(in) \in Nat
    <3> DEFINE rest == in.size - (AlignUp(in.base) - in.base)
    <3>1. rest \in Int
      BY <1>1, <2>1
    <3>2. rest % AddrSpace \in Nat
      <4> HIDE DEF rest
      <4> QED BY <3>1, Arithmetic
    <3> QED BY <3>2, Arithmetic DEF RegionPages
  <2>3. RegionOK(r)
    BY <1>1, <1>3, <2>1, <2>2 DEF RegionOK, Region
  <2>4. pmm_regions' = <<r>> \o pmm_regions
    BY <1>3 DEF PmmAddRegion
  <2>5. pmm_regions \in Seq(Region) /\ r \in Region
    BY <2>3 DEF TypeOK, RegionOK
  <2> HIDE DEF r
  <2>6. pmm_regions' \in Seq(Region)
    BY <2>4, <2>5
  <2>7. ASSUME NEW i \in DOMAIN pmm_regions' PROVE RegionOK(pmm_regions'[i])
    <3>1. CASE i = 1
      BY <2>3, <2>4, <2>5, <3>1
    <3>2. CASE i # 1
      <4>1. i - 1 \in DOMAIN pmm_regions /\ pmm_regions'[i] = pmm_regions[i - 1]
        BY <2>4, <2>5, <2>7, <3>2
      <4> QED BY <4>1 DEF TypeOK
    <3> QED BY <3>1, <3>2
  <2> QED BY <2>6, <2>7 DEF RegionsOK
<1> QED BY <1>2, <1>3 DEF PmmAddRegion

LEMMA ReserveRangeTyping ==
  ASSUME TypeOK, NEW start \in Nat, NEW end \in Nat, PmmReserveRange(start, end)
  PROVE  RegionsOK(pmm_regions') /\ reserved' \subseteq Frames
<1>1. CASE UNCHANGED <<pmm_regions, reserved>>
  BY <1>1 DEF TypeOK, RegionsOK
<1>2. CASE pmm_initialized
  <2> DEFINE covered == {a \in Frames : /\ AlignDown(start) <= a /\ a < AlignUp(end)
                                        /\ FindRegion(a) # 0}
             pages(i) == {PageIndex(pmm_regions[i], a) : a \in {b \in covered : FindRegion(b) = i}}
             bits(i) == pmm_regions[i].bitmap \cup (pages(i) \cap (0 .. pmm_regions[i].pages - 1))
             r(i) == [pmm_regions[i] EXCEPT !.bitmap = bits(i)]
  <2>1. reserved' = reserved \cup covered
        /\ pmm_regions' = [i \in DOMAIN pmm_regions |-> r(i)]
    BY <1>2 DEF PmmReserveRange
  <2>2. ASSUME NEW i \in DOMAIN pmm_regions PROVE RegionOK(r(i))
    <3>1. bits(i) \in SUBSET (0 .. pmm_regions[i].pages - 1)
      BY RegionFields
    <3> HIDE DEF bits
    <3>2. r(i) = [pmm_regions[i] EXCEPT !.bitmap = bits(i), !.last_alloc = pmm_regions[i].last_alloc]
      BY RegionFields DEF Region
    <3>3. RegionOK([pmm_regions[i] EXCEPT !.bitmap = bits(i), !.last_alloc = pmm_regions[i].last_alloc])
      BY <3>1, RegionFields, ChangedRegion
    <3> QED BY <3>2, <3>3
  <2> HIDE DEF r
  <2>3. DOMAIN pmm_regions = 1 .. Len(pmm_regions) /\ Len(pmm_regions) \in Nat
    BY DEF TypeOK
  <2>4. \A i \in DOMAIN pmm_regions : r(i) \in Region
    BY <2>2 DEF RegionOK
  <2>5. pmm_regions' \in Seq(Region)
    BY <2>1, <2>3, <2>4
  <2>6. RegionsOK(pmm_regions')
    BY <2>1, <2>2, <2>5 DEF RegionsOK
  <2>7. reserved' \subseteq Frames
    BY <2>1 DEF TypeOK
  <2> QED BY <2>6, <2>7
<1> QED BY <1>1, <1>2 DEF PmmReserveRange

LEMMA AllocPageTyping ==
  ASSUME TypeOK, NEW zone, PmmAllocPageZone(zone)
  PROVE  RegionsOK(pmm_regions') /\ holders' \in [Frames -> Nat] /\ single' \in BOOLEAN
<1>1. CASE UNCHANGED <<pmm_regions, holders, single>>
  BY <1>1 DEF TypeOK, RegionsOK
<1>2. CASE Servers(zone) # {} /\ single'
  <2> DEFINE i == Min(Servers(zone))
             r == pmm_regions[i]
             page == ChosenPage(r)
             new == [r EXCEPT !.bitmap = r.bitmap \cup {page}, !.last_alloc = page]
  <2>1. CASE pmm_regions' = [SetBits(i, {page}) EXCEPT ![i].last_alloc = page] /\ Grant(r, {page})
    <3>1. i \in DOMAIN pmm_regions /\ UsableWords(r) # {}
      BY <1>2, ServerUsable
    <3>2. RegionOK(r) /\ r \in Region /\ r.last_alloc \in Nat /\ r.bitmap \subseteq 0 .. r.pages - 1
      BY <3>1, RegionFields
    <3> HIDE DEF i
    <3>3. page \in 0 .. r.pages - 1
      <4> HIDE DEF r
      <4> QED BY <3>1, <3>2, ChosenInRegion
    <3> HIDE DEF page
    <3>4. RegionOK(new)
      BY <3>2, <3>3, ChangedRegion
    <3>5. pmm_regions' = [pmm_regions EXCEPT ![i] = new]
      BY <2>1, <3>1, <3>2 DEF SetBits, Region
    <3>6. RegionsOK(pmm_regions)
      BY DEF TypeOK, RegionsOK
    <3> HIDE DEF new
    <3>7. RegionsOK(pmm_regions')
      BY <3>1, <3>4, <3>5, <3>6, RegionExchanged
    <3>8. holders' \in [Frames -> Nat]
      BY <2>1 DEF TypeOK, Grant
    <3> QED BY <1>2, <3>7, <3>8
  <2> QED BY <1>1, <2>1 DEF PmmAllocPageZone
<1>3. single' = TRUE \/ UNCHANGED <<pmm_regions, holders, single>>
  BY DEF PmmAllocPageZone
<1> QED BY <1>1, <1>2, <1>3 DEF PmmAllocPageZone

LEMMA AllocPagesTyping ==
  ASSUME TypeOK, NEW count \in Nat, NEW zone, PmmAllocPagesZone(count, zone)
  PROVE  RegionsOK(pmm_regions') /\ holders' \in [Frames -> Nat]
<1>1. CASE UNCHANGED <<pmm_regions, holders>>
  BY <1>1 DEF TypeOK, RegionsOK
<1>2. CASE Fitting(count, zone) # {} /\ ~UNCHANGED <<pmm_regions, holders>>
  <2>1. PICK i, start :
          /\ i = Min(Fitting(count, zone)) /\ start = Min(FreeRuns(pmm_regions[i], count))
          /\ pmm_regions' = SetBits(i, Run(start, count))
          /\ Grant(pmm_regions[i], Run(start, count))
    BY <1>2 DEF PmmAllocPagesZone
  <2>2. /\ i \in DOMAIN pmm_regions
        /\ Run(start, count) \subseteq 0 .. pmm_regions[i].pages - 1
    BY <1>2, <2>1, FittingRun
  <2> DEFINE r == pmm_regions[i]
             new == [r EXCEPT !.bitmap = r.bitmap \cup Run(start, count), !.last_alloc = r.last_alloc]
  <2>3. RegionOK(r) /\ r \in Region /\ r.bitmap \subseteq 0 .. r.pages - 1
        /\ r.last_alloc \in 0 .. r.pages - 1
    BY <2>2, RegionFields
  <2>4. RegionOK(new)
    BY <2>2, <2>3, ChangedRegion
  <2>5. pmm_regions' = [pmm_regions EXCEPT ![i] = new]
    BY <2>1, <2>2, <2>3 DEF SetBits, Region
  <2>6. RegionsOK(pmm_regions)
    BY DEF TypeOK, RegionsOK
  <2>7. RegionsOK(pmm_regions')
    <3> HIDE DEF new
    <3> QED BY <2>2, <2>4, <2>5, <2>6, RegionExchanged
  <2>8. holders' \in [Frames -> Nat]
    BY <2>1 DEF TypeOK, Grant
  <2> QED BY <2>7, <2>8
<1> QED BY <1>1, <1>2 DEF PmmAllocPagesZone

LEMMA FreePagesTyping ==
  ASSUME TypeOK, NEW addr \in Nat, NEW count \in Nat, PmmFreePages(addr, count)
  PROVE  RegionsOK(pmm_regions') /\ holders' \in [Frames -> Nat]
<1>1. CASE UNCHANGED <<pmm_regions, holders>>
  BY <1>1 DEF TypeOK, RegionsOK
<1>2. CASE Freeable(addr, count) /\ ~UNCHANGED <<pmm_regions, holders>>
  <2> DEFINE i == FindRegion(addr)
             r == pmm_regions[i]
             page == PageIndex(r, addr)
             bits == r.bitmap \ Run(page, count)
             hint == LowerHint(r.last_alloc, page)
             new == [r EXCEPT !.bitmap = bits, !.last_alloc = hint]
  <2>1. i \in DOMAIN pmm_regions /\ Covers(r, addr)
    BY <1>2, FoundRegion DEF Freeable
  <2>2. /\ pmm_regions' = [pmm_regions EXCEPT ![i].bitmap = @ \ Run(page, count),
                                               ![i].last_alloc = LowerHint(@, page)]
        /\ holders' = [f \in Frames |->
             IF addr <= f /\ f < addr + count * PageSize /\ holders[f] > 0
             THEN holders[f] - 1 ELSE holders[f]]
    BY <1>2 DEF PmmFreePages
  <2> HIDE DEF i
  <2>3. RegionOK(r) /\ r \in Region /\ r.bitmap \subseteq 0 .. r.pages - 1
        /\ r.last_alloc \in 0 .. r.pages - 1 /\ r.pages \in Nat
    BY <2>1, RegionFields
  <2>4. page \in Nat
    BY <2>1, <2>3, PageIndexNat
  <2> HIDE DEF page
  <2>5. hint \in 0 .. r.pages - 1
    BY <2>3, <2>4 DEF LowerHint
  <2>6. RegionOK(new)
    BY <2>3, <2>5, ChangedRegion
  <2>7. pmm_regions' = [pmm_regions EXCEPT ![i] = new]
    <3> HIDE DEF i
    <3> QED BY <2>1, <2>2, <2>3 DEF Region
  <2>8. RegionsOK(pmm_regions)
    BY DEF TypeOK, RegionsOK
  <2>9. RegionsOK(pmm_regions')
    <3> HIDE DEF new
    <3> QED BY <2>1, <2>6, <2>7, <2>8, RegionExchanged
  <2>10. holders' \in [Frames -> Nat]
    BY <2>2 DEF TypeOK
  <2> QED BY <2>9, <2>10
<1> QED BY <1>1, <1>2 DEF PmmFreePages

LEMMA StepTyping == TypeOK /\ [Next]_vars => TypeOK'
<1> SUFFICES ASSUME TypeOK, [Next]_vars PROVE TypeOK'
  OBVIOUS
<1> USE DEF RegionsOK, TypeOK
<1>1. CASE PmmInit
  <2>1. RegionsOK(pmm_regions')
    BY <1>1 DEF PmmInit
  <2> QED BY <1>1, <2>1 DEF PmmInit
<1>2. ASSUME NEW in \in RegionInputs, PmmAddRegion(in) PROVE TypeOK'
  BY <1>2, AddRegionTyping DEF PmmAddRegion
<1>3. ASSUME NEW range \in RangeInputs, PmmReserveRange(range[1], range[2]) PROVE TypeOK'
  <2>1. range[1] \in Nat /\ range[2] \in Nat
    BY PmmAssumption
  <2> QED BY <1>3, <2>1, ReserveRangeTyping DEF PmmReserveRange
<1>4. ASSUME NEW zone \in Zones, PmmAllocPageZone(zone) PROVE TypeOK'
  BY <1>4, AllocPageTyping DEF PmmAllocPageZone
<1>5. ASSUME NEW count \in Counts, NEW zone \in Zones, PmmAllocPagesZone(count, zone) PROVE TypeOK'
  BY <1>5, AllocPagesTyping, PmmAssumption DEF PmmAllocPagesZone
<1>6. ASSUME NEW addr \in 0 .. AddrSpace - 1, NEW count \in Counts, PmmFreePages(addr, count)
      PROVE  TypeOK'
  <2>1. addr \in Nat /\ count \in Nat
    BY PmmAssumption
  <2>2. RegionsOK(pmm_regions') /\ holders' \in [Frames -> Nat]
    BY <1>6, <2>1, FreePagesTyping
  <2>3. UNCHANGED <<pmm_initialized, reserved, single>>
    BY <1>6 DEF PmmFreePages
  <2> QED BY <2>2, <2>3
<1>7. CASE UNCHANGED vars
  BY <1>7 DEF vars
<1> QED BY <1>1, <1>2, <1>3, <1>4, <1>5, <1>6, <1>7 DEF Next, Configure, AllocPage, AllocPages

\* Whatever is called, with whatever arguments: a region never marks a page it does not
\* have, and the hint of the search for a single page never leaves the region.
THEOREM Typing == Spec => []TypeOK
BY InitTyping, StepTyping, PTL DEF Spec

-----------------------------------------------------------------------------
(* Frames and pages.  Regions that are disjoint and end inside the address *)
(* space give every frame at most one page.                                *)

Placed(r) == r.base > 0 /\ r.base % PageSize = 0 /\ r.base + r.pages * PageSize < AddrSpace

Apart(r, s) ==
  r.base + r.pages * PageSize <= s.base \/ s.base + s.pages * PageSize <= r.base

Layout ==
  /\ \A i \in DOMAIN pmm_regions : Placed(pmm_regions[i])
  /\ \A i, j \in DOMAIN pmm_regions : i # j => Apart(pmm_regions[i], pmm_regions[j])

\* The page of frame f is marked where pmm_region_find looks for it.
Marked(f) ==
  /\ FindRegion(f) # 0
  /\ PageIndex(pmm_regions[FindRegion(f)], f) \in pmm_regions[FindRegion(f)].bitmap

LEMMA SmallModulo == \A a \in Nat : a < AddrSpace => a % AddrSpace = a
BY PmmAssumption

LEMMA Division ==
  \A a \in Nat : a = (a \div PageSize) * PageSize + (a % PageSize)
<1> TAKE a \in Nat
<1>1. PageSize \in Nat /\ PageSize > 0
  BY PmmAssumption
<1> QED BY <1>1

LEMMA MultipleOrder ==
  ASSUME NEW p \in Nat, NEW q \in Nat
  PROVE  /\ p * PageSize \in Nat
         /\ p < q => p * PageSize + PageSize <= q * PageSize
         /\ p * PageSize < q * PageSize => p < q
<1>1. PageSize \in Nat /\ PageSize > 0
  BY PmmAssumption
<1>2. ASSUME p < q PROVE p * PageSize + PageSize <= q * PageSize
  <2>1. q = p + 1 + (q - p - 1) /\ q - p - 1 \in Nat
    BY <1>2
  <2>2. q * PageSize = p * PageSize + PageSize + (q - p - 1) * PageSize
    BY <1>1, <2>1
  <2>3. (q - p - 1) * PageSize >= 0
    BY <1>1, <2>1
  <2> QED BY <1>1, <2>2, <2>3
<1>3. ASSUME q <= p PROVE q * PageSize <= p * PageSize
  <2>1. p * PageSize = q * PageSize + (p - q) * PageSize /\ p - q \in Nat
    BY <1>1, <1>3
  <2>2. (p - q) * PageSize >= 0
    BY <1>1, <2>1
  <2> QED BY <1>1, <2>1, <2>2
<1> QED BY <1>1, <1>2, <1>3

LEMMA Multiple ==
  \A p \in Nat : (p * PageSize) \div PageSize = p /\ (p * PageSize) % PageSize = 0
<1> TAKE p \in Nat
<1> DEFINE a == p * PageSize
           q == a \div PageSize
           m == a % PageSize
<1>1. PageSize \in Nat /\ PageSize > 0
  BY PmmAssumption
<1>2. a \in Nat
  BY MultipleOrder
<1> HIDE DEF a
<1>3. q \in Nat /\ m \in 0 .. PageSize - 1
  BY <1>2, Arithmetic
<1>4. a = q * PageSize + m
  BY <1>2, Division
<1> HIDE DEF q, m
<1>5. q * PageSize <= a /\ a < q * PageSize + PageSize
  <2>1. q * PageSize \in Nat
    BY <1>3, MultipleOrder
  <2> QED BY <1>1, <1>2, <1>3, <1>4, <2>1
<1>6. q * PageSize \in Nat
  BY <1>3, MultipleOrder
<1>7. ~(p < q)
  <2>1. SUFFICES ASSUME p < q PROVE FALSE
    OBVIOUS
  <2>2. a + PageSize <= q * PageSize
    BY <1>3, <2>1, MultipleOrder DEF a
  <2> QED BY <1>1, <1>2, <1>5, <1>6, <2>2
<1>8. ~(q < p)
  <2>1. SUFFICES ASSUME q < p PROVE FALSE
    OBVIOUS
  <2>2. q * PageSize + PageSize <= a
    BY <1>3, <2>1, MultipleOrder DEF a
  <2> QED BY <1>1, <1>2, <1>5, <1>6, <2>2
<1>9. p = q
  BY <1>3, <1>7, <1>8
<1>10. m = 0
  <2>1. a = q * PageSize
    BY <1>9 DEF a
  <2> QED BY <1>1, <1>2, <1>3, <1>4, <1>6, <2>1
<1> QED BY <1>9, <1>10 DEF a, q, m

\* The sum and the difference of two multiples of PageSize.
LEMMA Multiples ==
  ASSUME NEW a \in Nat, NEW b \in Nat, a % PageSize = 0, b % PageSize = 0
  PROVE  /\ (a + b) % PageSize = 0
         /\ b <= a => (a - b) = ((a - b) \div PageSize) * PageSize
<1> DEFINE q == a \div PageSize
           r == b \div PageSize
<1>1. a = q * PageSize /\ b = r * PageSize /\ q \in Nat /\ r \in Nat
  BY Division, Arithmetic
<1> HIDE DEF q, r
<1>2. PageSize \in Nat /\ PageSize > 0
  BY PmmAssumption
<1>3. a + b = (q + r) * PageSize /\ q + r \in Nat
  BY <1>1, <1>2
<1>4. ASSUME b <= a PROVE a - b = ((a - b) \div PageSize) * PageSize
  <2>1. r <= q
    <3>1. ~(q < r)
      BY <1>1, <1>2, <1>4, MultipleOrder
    <3> QED BY <1>1, <3>1
  <2>2. a - b = (q - r) * PageSize /\ q - r \in Nat
    BY <1>1, <1>2, <2>1
  <2> QED BY <2>2, Multiple
<1> QED BY <1>3, <1>4, Multiple

\* A page of a region and the frame at its address find each other.
LEMMA Located ==
  ASSUME TypeOK, Layout, NEW i \in DOMAIN pmm_regions, NEW p \in 0 .. pmm_regions[i].pages - 1
  PROVE  LET f == FrameOf(pmm_regions[i], p)
         IN /\ f = pmm_regions[i].base + p * PageSize
            /\ f \in Frames
            /\ FindRegion(f) = i
            /\ PageIndex(pmm_regions[i], f) = p
<1> DEFINE r == pmm_regions[i]
           f == r.base + p * PageSize
<1>1. r.base \in Nat /\ r.pages \in Nat /\ i \in Nat /\ i > 0
  BY RegionFields
<1>2. Placed(r)
  BY DEF Layout
<1>3. p \in Nat /\ p < r.pages
  BY <1>1
<1>4. p * PageSize \in Nat /\ p * PageSize + PageSize <= r.pages * PageSize
      /\ r.pages * PageSize \in Nat /\ PageSize \in Nat /\ PageSize > 0
  BY <1>1, <1>3, MultipleOrder, Arithmetic
<1> HIDE DEF r
<1>5. f \in Nat /\ r.base <= f /\ f < r.base + r.pages * PageSize /\ f < AddrSpace
  BY <1>1, <1>2, <1>4, Arithmetic DEF Placed
<1>6. FrameOf(r, p) = f
  BY <1>5, SmallModulo DEF FrameOf
<1>7. f \in Frames
  <2>1. f % PageSize = 0
    BY <1>1, <1>2, <1>3, <1>4, Multiples, Multiple DEF Placed
  <2> QED BY <1>5, <2>1, Arithmetic DEF Frames
<1>8. PageIndex(r, f) = p
  BY <1>1, <1>3, <1>4, Multiple DEF PageIndex
<1>9. FindRegion(f) = i
  <2> DEFINE hits == {j \in DOMAIN pmm_regions : Covers(pmm_regions[j], f)}
  <2>1. RegionEnd(r) = r.base + r.pages * PageSize
    BY <1>1, <1>2, <1>4, SmallModulo DEF RegionEnd, Placed
  <2>2. Covers(r, f)
    BY <1>5, <2>1 DEF Covers
  <2>3. ASSUME NEW j \in DOMAIN pmm_regions, Covers(pmm_regions[j], f) PROVE j = i
    <3> SUFFICES ASSUME j # i PROVE FALSE
      OBVIOUS
    <3>1. pmm_regions[j].base \in Nat /\ pmm_regions[j].pages \in Nat
      BY RegionFields
    <3>2. Placed(pmm_regions[j]) /\ Apart(r, pmm_regions[j])
      BY DEF Layout, r
    <3>3. pmm_regions[j].pages * PageSize \in Nat
      BY <3>1, MultipleOrder
    <3>4. RegionEnd(pmm_regions[j]) = pmm_regions[j].base + pmm_regions[j].pages * PageSize
      BY <3>1, <3>2, <3>3, SmallModulo DEF RegionEnd, Placed
    <3>5. pmm_regions[j].base <= f /\ f < pmm_regions[j].base + pmm_regions[j].pages * PageSize
      BY <2>3, <3>4 DEF Covers
    <3> HIDE DEF f
    <3> QED BY <1>1, <1>4, <1>5, <3>1, <3>2, <3>3, <3>5 DEF Apart
  <2>4. hits = {i}
    BY <2>2, <2>3 DEF r
  <2> HIDE DEF hits, f
  <2>5. Min(hits) = i
    BY <1>1, <2>4, MinIs
  <2> QED BY <2>4, <2>5 DEF FindRegion, hits
<1> QED BY <1>6, <1>7, <1>8, <1>9 DEF r

\* The same of all pages at once, to be used of the next state.
PagesFound ==
  \A i \in DOMAIN pmm_regions : \A p \in 0 .. pmm_regions[i].pages - 1 :
    LET f == FrameOf(pmm_regions[i], p)
    IN FindRegion(f) = i /\ PageIndex(pmm_regions[i], f) = p

LEMMA PagesAreFound == TypeOK /\ Layout => PagesFound
BY Located DEF PagesFound

\* The page a found frame is.
LEMMA Position ==
  ASSUME TypeOK, Layout, NEW f \in Frames, FindRegion(f) # 0
  PROVE  LET i == FindRegion(f)
             p == PageIndex(pmm_regions[i], f)
         IN /\ i \in DOMAIN pmm_regions
            /\ p \in 0 .. pmm_regions[i].pages - 1
            /\ f = pmm_regions[i].base + p * PageSize
<1> DEFINE i == FindRegion(f)
           r == pmm_regions[i]
           p == PageIndex(r, f)
<1>1. i \in DOMAIN pmm_regions /\ Covers(r, f)
  BY FoundRegion
<1> HIDE DEF i
<1>2. r.base \in Nat /\ r.pages \in Nat
  BY <1>1, RegionFields
<1>3. Placed(r)
  BY <1>1 DEF Layout
<1>4. f \in Nat /\ f % PageSize = 0
  BY Arithmetic DEF Frames
<1> HIDE DEF r
<1>5. r.pages * PageSize \in Nat
  BY <1>2, MultipleOrder
<1>6. r.base <= f /\ f < r.base + r.pages * PageSize
  BY <1>1, <1>2, <1>3, <1>5, SmallModulo DEF Covers, RegionEnd, Placed
<1>7. f - r.base = p * PageSize /\ p \in Nat
  <2>1. f - r.base = ((f - r.base) \div PageSize) * PageSize
    BY <1>2, <1>3, <1>4, <1>6, Multiples DEF Placed
  <2>2. f - r.base \in Nat
    BY <1>2, <1>4, <1>6
  <2> QED BY <2>1, <2>2, Arithmetic DEF PageIndex
<1> HIDE DEF p
<1>8. p * PageSize \in Nat
  BY <1>7, MultipleOrder
<1>9. p * PageSize < r.pages * PageSize
  BY <1>2, <1>4, <1>5, <1>6, <1>7, <1>8
<1>10. p < r.pages
  BY <1>2, <1>7, <1>9, MultipleOrder
<1> QED BY <1>1, <1>2, <1>4, <1>7, <1>8, <1>10 DEF i, r, p

Places ==
  \A f \in Frames : FindRegion(f) # 0 =>
    LET i == FindRegion(f)
        p == PageIndex(pmm_regions[i], f)
    IN /\ i \in DOMAIN pmm_regions
       /\ p \in 0 .. pmm_regions[i].pages - 1
       /\ f = pmm_regions[i].base + p * PageSize

LEMMA PlacesAreKnown == TypeOK /\ Layout => Places
BY Position DEF Places

-----------------------------------------------------------------------------
(* Frames that are held or reserved.  The first two conjuncts of Inv say   *)
(* where frames are, the third what SingleHolder and HeldIsMarked are      *)
(* instances of; what was reserved is marked and held by nobody, and       *)
(* cannot be forgotten because pmm_init empties the list only once.        *)

Held ==
  ~single => \A f \in Frames :
    /\ holders[f] <= 1 /\ (f \in reserved => holders[f] = 0)
    /\ holders[f] > 0 \/ f \in reserved => Marked(f)

ReservedLater == reserved # {} => pmm_initialized

Inv == TypeOK /\ Layout /\ Held /\ ReservedLater

\* Steps that change no region's place find every frame where it was.
SamePlaces ==
  /\ DOMAIN pmm_regions' = DOMAIN pmm_regions
  /\ \A i \in DOMAIN pmm_regions : /\ pmm_regions'[i].base = pmm_regions[i].base
                                   /\ pmm_regions'[i].pages = pmm_regions[i].pages

LEMMA KeptPlaces ==
  ASSUME TypeOK, Layout, SamePlaces
  PROVE  /\ Layout'
         /\ \A f \in Frames : FindRegion(f)' = FindRegion(f)
         /\ \A i \in DOMAIN pmm_regions, f \in Frames :
              PageIndex(pmm_regions'[i], f) = PageIndex(pmm_regions[i], f)
<1>1. \A i \in DOMAIN pmm_regions : Placed(pmm_regions'[i])
  BY DEF Layout, SamePlaces, Placed
<1>2. \A i, j \in DOMAIN pmm_regions : i # j => Apart(pmm_regions'[i], pmm_regions'[j])
  BY DEF Layout, SamePlaces, Apart
<1>3. Layout'
  BY <1>1, <1>2 DEF SamePlaces, Layout
<1>4. ASSUME NEW f \in Frames PROVE FindRegion(f)' = FindRegion(f)
  <2>1. \A i \in DOMAIN pmm_regions : Covers(pmm_regions'[i], f) <=> Covers(pmm_regions[i], f)
    BY DEF SamePlaces, Covers, RegionEnd
  <2>2. {i \in DOMAIN pmm_regions' : Covers(pmm_regions'[i], f)}
          = {i \in DOMAIN pmm_regions : Covers(pmm_regions[i], f)}
    BY <2>1 DEF SamePlaces
  <2> QED BY <2>2 DEF FindRegion
<1>5. \A i \in DOMAIN pmm_regions, f \in Frames :
        PageIndex(pmm_regions'[i], f) = PageIndex(pmm_regions[i], f)
  BY DEF SamePlaces, PageIndex
<1> QED BY <1>3, <1>4, <1>5

\* The place of a new region.
LEMMA AddRegionLayout ==
  ASSUME TypeOK, Layout, NEW in \in RegionInputs, Separate(in), PmmAddRegion(in)
  PROVE  Layout'
<1>1. CASE UNCHANGED pmm_regions
  BY <1>1 DEF Layout
<1>2. CASE RegionPages(in) > 0 /\ pmm_regions' # pmm_regions
  <2> DEFINE base == AlignUp(in.base)
             pages == RegionPages(in)
             r == [base |-> base, pages |-> pages, last_alloc |-> 0, zone |-> in.zone, bitmap |-> {}]
  <2>1. in.base \in Nat /\ in.size \in Nat /\ AddrSpace \in Nat /\ PageSize \in Nat /\ PageSize > 0
    BY PmmAssumption DEF RegionInput
  <2>2. base \in Nat /\ base % PageSize = 0
    <3> DEFINE a == (in.base + PageSize - 1) % AddrSpace
    <3>1. in.base + PageSize - 1 \in Int
      BY <2>1
    <3>2. a \in Nat
      BY <3>1, Arithmetic
    <3>3. base = a - (a % PageSize)
      BY DEF AlignUp, AlignDown
    <3> HIDE DEF a, base
    <3>4. base = (a \div PageSize) * PageSize /\ a \div PageSize \in Nat
      <4>1. a = (a \div PageSize) * PageSize + (a % PageSize)
        BY <3>2, Division
      <4>2. a \div PageSize \in Nat /\ a % PageSize \in 0 .. PageSize - 1
        BY <3>2, Arithmetic
      <4>3. (a \div PageSize) * PageSize \in Nat
        BY <4>2, MultipleOrder
      <4> QED BY <2>1, <3>2, <3>3, <4>1, <4>2, <4>3
    <3> QED BY <3>4, Multiple, MultipleOrder
  <2>3. in.base + in.size < AddrSpace /\ base <= in.base + in.size /\ in.base <= base
    BY DEF Separate
  <2> DEFINE rest == in.size - (base - in.base)
  <2> HIDE DEF base
  <2>4. rest \in Nat /\ rest < AddrSpace /\ base + rest = in.base + in.size
    BY <2>1, <2>2, <2>3
  <2>5. pages = rest \div PageSize
    BY <2>4, SmallModulo DEF RegionPages, base
  <2> HIDE DEF rest, pages
  <2>6. pages \in Nat /\ pages * PageSize \in Nat /\ pages * PageSize <= rest
    <3>1. pages \in Nat /\ rest % PageSize \in 0 .. PageSize - 1
      BY <2>4, <2>5, Arithmetic
    <3>2. rest = pages * PageSize + (rest % PageSize)
      BY <2>4, <2>5, Division
    <3>3. pages * PageSize \in Nat
      BY <3>1, MultipleOrder
    <3> QED BY <2>1, <2>4, <3>1, <3>2, <3>3
  <2>7. r.base = base /\ r.pages = pages
    OBVIOUS
  <2>8. pmm_regions' = <<r>> \o pmm_regions
    BY <1>2 DEF PmmAddRegion, base, pages
  <2> HIDE DEF r
  <2>9. Placed(r)
    <3>1. in.base > 0
      BY PmmAssumption
    <3> QED BY <3>1, <2>1, <2>2, <2>3, <2>4, <2>6, <2>7 DEF Placed
  <2>10. \A i \in DOMAIN pmm_regions : Apart(r, pmm_regions[i]) /\ Apart(pmm_regions[i], r)
    <3> TAKE i \in DOMAIN pmm_regions
    <3>1. base + pages * PageSize <= pmm_regions[i].base \/ RegionEnd(pmm_regions[i]) <= base
      BY DEF Separate, base, pages
    <3>2. pmm_regions[i].base \in Nat /\ pmm_regions[i].pages \in Nat
      BY RegionFields
    <3>3. pmm_regions[i].pages * PageSize \in Nat /\ Placed(pmm_regions[i])
      BY <3>2, MultipleOrder DEF Layout
    <3>4. RegionEnd(pmm_regions[i]) = pmm_regions[i].base + pmm_regions[i].pages * PageSize
      BY <3>2, <3>3, SmallModulo DEF RegionEnd, Placed
    <3> QED BY <2>7, <3>1, <3>4 DEF Apart
  <2>11. \A i \in DOMAIN pmm_regions' :
           \/ i = 1 /\ pmm_regions'[i] = r
           \/ i # 1 /\ i - 1 \in DOMAIN pmm_regions /\ pmm_regions'[i] = pmm_regions[i - 1]
    <3>1. pmm_regions \in Seq(Region) /\ r \in Region
      <4>1. RegionsOK(pmm_regions')
        BY AddRegionTyping
      <4>2. pmm_regions'[1] = r /\ 1 \in DOMAIN pmm_regions'
        BY <2>8 DEF TypeOK
      <4> QED BY <4>1, <4>2 DEF TypeOK, RegionsOK, RegionOK
    <3> QED BY <2>8, <3>1
  <2>12. DOMAIN pmm_regions' \subseteq Nat
    BY <2>8 DEF TypeOK
  <2>13. \A i \in DOMAIN pmm_regions' : Placed(pmm_regions'[i])
    BY <2>9, <2>11 DEF Layout
  <2>14. \A i, j \in DOMAIN pmm_regions' : i # j => Apart(pmm_regions'[i], pmm_regions'[j])
    <3> SUFFICES ASSUME NEW i \in DOMAIN pmm_regions', NEW j \in DOMAIN pmm_regions', i # j
                 PROVE  Apart(pmm_regions'[i], pmm_regions'[j])
      OBVIOUS
    <3>1. CASE i = 1
      BY <2>10, <2>11, <3>1
    <3>2. CASE j = 1
      BY <2>10, <2>11, <3>2
    <3>3. CASE i # 1 /\ j # 1
      <4>1. i - 1 # j - 1
        BY <2>12
      <4> QED BY <2>11, <3>3, <4>1 DEF Layout
    <3> QED BY <3>1, <3>2, <3>3
  <2> QED BY <2>13, <2>14 DEF Layout
<1> QED BY <1>1, <1>2 DEF PmmAddRegion

\* A step that adds bits and moves no region leaves every marked frame marked.
LEMMA StillMarked ==
  ASSUME TypeOK, Layout, SamePlaces, NEW f \in Frames, Marked(f),
         \A i \in DOMAIN pmm_regions : pmm_regions[i].bitmap \subseteq pmm_regions'[i].bitmap
  PROVE  Marked(f)'
<1>1. FindRegion(f) \in DOMAIN pmm_regions
  BY FoundRegion DEF Marked
<1>2. FindRegion(f)' = FindRegion(f)
      /\ PageIndex(pmm_regions'[FindRegion(f)], f) = PageIndex(pmm_regions[FindRegion(f)], f)
  BY <1>1, KeptPlaces
<1> QED BY <1>1, <1>2 DEF Marked

\* A single page is granted: no region moves, and from then on nothing is said of holders.
LEMMA AllocPageInv ==
  ASSUME Inv, NEW zone, PmmAllocPageZone(zone)
  PROVE  Layout' /\ Held'
<1>1. CASE UNCHANGED <<pmm_regions, holders, single>>
  BY <1>1 DEF Inv, Layout, Held, Marked, FindRegion, PmmAllocPageZone
<1>2. CASE Servers(zone) # {} /\ single' /\ ~UNCHANGED <<pmm_regions, holders, single>>
  <2>1. PICK i, page :
          /\ i = Min(Servers(zone))
          /\ pmm_regions' = [SetBits(i, {page}) EXCEPT ![i].last_alloc = page]
    BY <1>2 DEF PmmAllocPageZone
  <2>2. i \in DOMAIN pmm_regions
    BY <1>2, <2>1, ServerUsable DEF Inv
  <2>3. pmm_regions[i] \in Region
    BY <2>2, RegionFields DEF Inv
  <2>4. SamePlaces
    BY <2>1, <2>2, <2>3 DEF SamePlaces, SetBits, Region
  <2>5. Layout'
    BY <2>4, KeptPlaces DEF Inv
  <2> QED BY <1>2, <2>5 DEF Held
<1>3. single' = TRUE \/ UNCHANGED <<pmm_regions, holders, single>>
  BY DEF PmmAllocPageZone
<1> QED BY <1>1, <1>2, <1>3 DEF PmmAllocPageZone

\* A run is granted where all pages were clear: no frame of it was held, and now each is
\* held once and marked.
LEMMA AllocPagesInv ==
  ASSUME Inv, NEW count \in Nat, NEW zone, PmmAllocPagesZone(count, zone)
  PROVE  Layout' /\ Held'
<1>1. CASE UNCHANGED <<pmm_regions, holders>>
  BY <1>1 DEF Inv, Layout, Held, Marked, FindRegion, PmmAllocPagesZone
<1>2. CASE Fitting(count, zone) # {} /\ ~UNCHANGED <<pmm_regions, holders>>
  <2>1. PICK i, start :
          /\ i = Min(Fitting(count, zone)) /\ start = Min(FreeRuns(pmm_regions[i], count))
          /\ pmm_regions' = SetBits(i, Run(start, count))
          /\ Grant(pmm_regions[i], Run(start, count))
    BY <1>2 DEF PmmAllocPagesZone
  <2> DEFINE run == Run(start, count)
             r == pmm_regions[i]
  <2>2. i \in DOMAIN pmm_regions /\ run \subseteq 0 .. r.pages - 1 /\ run \cap r.bitmap = {}
    BY <1>2, <2>1, FittingRun DEF Inv
  <2>3. r \in Region /\ i \in Nat /\ i > 0
    BY <2>2, RegionFields DEF Inv
  <2>4. /\ DOMAIN pmm_regions' = DOMAIN pmm_regions
        /\ \A j \in DOMAIN pmm_regions : j # i => pmm_regions'[j] = pmm_regions[j]
        /\ pmm_regions'[i] = [r EXCEPT !.bitmap = r.bitmap \cup run]
    BY <2>1, <2>2 DEF SetBits
  <2> HIDE DEF r, run
  <2>5. pmm_regions'[i].base = r.base /\ pmm_regions'[i].pages = r.pages
        /\ pmm_regions'[i].bitmap = r.bitmap \cup run
    BY <2>3, <2>4 DEF Region
  <2>6. SamePlaces
    BY <2>4, <2>5 DEF SamePlaces, r
  <2>7. \A j \in DOMAIN pmm_regions : pmm_regions[j].bitmap \subseteq pmm_regions'[j].bitmap
    BY <2>4, <2>5 DEF r
  <2>8. Layout'
    BY <2>6, KeptPlaces DEF Inv
  <2>9. Held'
    <3> SUFFICES ASSUME ~single, NEW f \in Frames
                 PROVE  /\ holders'[f] <= 1 /\ (f \in reserved => holders'[f] = 0)
                        /\ holders'[f] > 0 \/ f \in reserved => Marked(f)'
      BY DEF Held, PmmAllocPagesZone
    <3>1. /\ holders[f] \in Nat /\ holders[f] <= 1 /\ (f \in reserved => holders[f] = 0)
          /\ holders[f] > 0 \/ f \in reserved => Marked(f)
      BY DEF Inv, Held, TypeOK
    <3> DEFINE granted == {FrameOf(r, p) : p \in run}
    <3>2. holders' = [g \in Frames |-> IF g \in granted THEN holders[g] + 1 ELSE holders[g]]
      BY <2>1 DEF Grant, r, run
    <3> HIDE DEF granted
    <3>3. CASE f \in granted
      <4>1. PICK p \in run : f = FrameOf(r, p)
        BY <3>3 DEF granted
      <4>2. FindRegion(f) = i /\ PageIndex(r, f) = p
        BY <2>2, <4>1, Located DEF Inv, r
      <4>3. ~Marked(f)
        BY <2>2, <4>1, <4>2 DEF Marked, r
      <4>4. holders'[f] = 1 /\ f \notin reserved
        BY <3>1, <3>2, <3>3, <4>3
      <4>5. FindRegion(f)' = i /\ PageIndex(pmm_regions'[i], f) = p
        BY <2>2, <2>6, <4>2, KeptPlaces DEF Inv, r
      <4>6. Marked(f)'
        BY <2>3, <2>5, <4>1, <4>5 DEF Marked
      <4> QED BY <4>4, <4>6
    <3>4. CASE f \notin granted
      <4>1. holders'[f] = holders[f]
        BY <3>2, <3>4
      <4>2. Marked(f) => Marked(f)'
        BY <2>6, <2>7, StillMarked DEF Inv
      <4> QED BY <3>1, <4>1, <4>2
    <3> QED BY <3>3, <3>4
  <2> QED BY <2>8, <2>9
<1> QED BY <1>1, <1>2 DEF PmmAllocPagesZone

\* A caller frees the frames of a run it holds: their pages become clear, and no caller is
\* left that holds one of them.
LEMMA FreeInv ==
  ASSUME Inv, NEW addr \in Frames, NEW count \in Nat,
         \A f \in Frames : addr <= f /\ f < addr + count * PageSize => holders[f] > 0,
         PmmFreePages(addr, count)
  PROVE  Layout' /\ Held'
<1>1. CASE UNCHANGED <<pmm_regions, holders>>
  BY <1>1 DEF Inv, Layout, Held, Marked, FindRegion, PmmFreePages
<1>2. CASE Freeable(addr, count) /\ ~UNCHANGED <<pmm_regions, holders>>
  <2> DEFINE i == FindRegion(addr)
             r == pmm_regions[i]
             page == PageIndex(r, addr)
             run == Run(page, count)
  <2>1. i \in DOMAIN pmm_regions /\ addr = r.base + page * PageSize /\ page \in 0 .. r.pages - 1
    BY <1>2, Position DEF Freeable, Inv
  <2>2. /\ pmm_regions' = [pmm_regions EXCEPT ![i].bitmap = @ \ run,
                                               ![i].last_alloc = LowerHint(@, page)]
        /\ holders' = [f \in Frames |->
             IF addr <= f /\ f < addr + count * PageSize /\ holders[f] > 0
             THEN holders[f] - 1 ELSE holders[f]]
    BY <1>2 DEF PmmFreePages
  <2> HIDE DEF i
  <2>3. r \in Region /\ r.base \in Nat /\ r.pages \in Nat
    BY <2>1, RegionFields DEF Inv
  <2>4. /\ DOMAIN pmm_regions' = DOMAIN pmm_regions
        /\ \A j \in DOMAIN pmm_regions : j # i => pmm_regions'[j] = pmm_regions[j]
        /\ pmm_regions'[i].base = r.base /\ pmm_regions'[i].pages = r.pages
        /\ pmm_regions'[i].bitmap = r.bitmap \ run
    BY <2>1, <2>2, <2>3 DEF Region
  <2> HIDE DEF r, page, run
  <2>5. SamePlaces
    BY <2>4 DEF SamePlaces, r
  <2>6. Layout'
    BY <2>5, KeptPlaces DEF Inv
  <2>7. Held'
    <3> SUFFICES ASSUME ~single, NEW f \in Frames
                 PROVE  /\ holders'[f] <= 1 /\ (f \in reserved => holders'[f] = 0)
                        /\ holders'[f] > 0 \/ f \in reserved => Marked(f)'
      BY DEF Held, PmmFreePages
    <3>1. /\ holders[f] \in Nat /\ holders[f] <= 1 /\ (f \in reserved => holders[f] = 0)
          /\ holders[f] > 0 \/ f \in reserved => Marked(f)
      BY DEF Inv, Held, TypeOK
    <3>2. CASE addr <= f /\ f < addr + count * PageSize
      <4>1. holders'[f] = 0 /\ f \notin reserved
        BY <2>2, <3>1, <3>2
      <4> QED BY <4>1
    <3>3. CASE ~(addr <= f /\ f < addr + count * PageSize)
      <4>1. holders'[f] = holders[f]
        BY <2>2, <3>3
      <4>2. ASSUME Marked(f) PROVE Marked(f)'
        <5> DEFINE j == FindRegion(f)
                   p == PageIndex(pmm_regions[j], f)
        <5>1. j # 0 /\ p \in pmm_regions[j].bitmap
          BY <4>2 DEF Marked
        <5>2. j \in DOMAIN pmm_regions /\ f = pmm_regions[j].base + p * PageSize
              /\ p \in 0 .. pmm_regions[j].pages - 1
          BY <5>1, Position DEF Inv
        <5>3. FindRegion(f)' = j /\ PageIndex(pmm_regions'[j], f) = p
          BY <2>5, <5>2, KeptPlaces DEF Inv
        <5> HIDE DEF j, p
        <5>4. CASE j # i
          BY <2>4, <5>1, <5>2, <5>3, <5>4 DEF Marked
        <5>5. CASE j = i
          <6>1. p \notin run
            <7> SUFFICES ASSUME p \in run PROVE FALSE
              OBVIOUS
            <7>1. page \in Nat /\ p \in Nat /\ page <= p /\ p - page \in Nat /\ p - page < count
              BY <2>1, <2>3, <5>2 DEF run, Run
            <7>2. p * PageSize = page * PageSize + (p - page) * PageSize
              BY <7>1, Arithmetic
            <7>3. /\ (p - page) * PageSize \in Nat /\ page * PageSize \in Nat
                  /\ count * PageSize \in Nat
                  /\ (p - page) * PageSize + PageSize <= count * PageSize
              BY <7>1, MultipleOrder
            <7>4. f = r.base + p * PageSize /\ addr = r.base + page * PageSize
              BY <2>1, <5>2, <5>5 DEF r
            <7>5. f = addr + (p - page) * PageSize /\ addr \in Nat
              BY <2>3, <7>2, <7>3, <7>4
            <7>6. PageSize > 0 /\ PageSize \in Nat
              BY PmmAssumption
            <7> QED BY <3>3, <7>3, <7>5, <7>6
          <6> QED BY <2>4, <5>1, <5>3, <5>5, <6>1 DEF Marked, r
        <5> QED BY <5>4, <5>5
      <4> QED BY <3>1, <4>1, <4>2
    <3> QED BY <3>2, <3>3
  <2> QED BY <2>6, <2>7
<1> QED BY <1>1, <1>2 DEF PmmFreePages

\* A step that only adds a region in front leaves every marked frame marked.
LEMMA MarkedBehind ==
  ASSUME TypeOK, Layout, TypeOK', Layout', NEW r, pmm_regions' = <<r>> \o pmm_regions,
         NEW f \in Frames, Marked(f)
  PROVE  Marked(f)'
<1>1. PICK i, p : i = FindRegion(f) /\ p = PageIndex(pmm_regions[i], f)
  OBVIOUS
<1>2. /\ i \in DOMAIN pmm_regions /\ p \in 0 .. pmm_regions[i].pages - 1
      /\ f = pmm_regions[i].base + p * PageSize /\ p \in pmm_regions[i].bitmap
  BY <1>1, Position DEF Marked
<1>3. FrameOf(pmm_regions[i], p) = f
  BY <1>2, Located
<1>4. i + 1 \in DOMAIN pmm_regions' /\ pmm_regions'[i + 1] = pmm_regions[i] /\ i + 1 # 0
  BY <1>2 DEF TypeOK
<1>5. PagesFound'
  BY PagesAreFound, PTL
<1>6. FrameOf(pmm_regions'[i + 1], p) = f
  BY <1>3, <1>4
<1>7. FindRegion(f)' = i + 1 /\ PageIndex(pmm_regions'[i + 1], f) = p
  BY <1>2, <1>4, <1>5, <1>6 DEF PagesFound
<1> QED BY <1>2, <1>4, <1>7 DEF Marked

\* What is reserved is marked where it is found, and nothing that was marked is cleared.
LEMMA ReserveInv ==
  ASSUME Inv, NEW start \in Nat, NEW end \in Nat, PmmReserveRange(start, end)
  PROVE  /\ Layout' /\ ReservedLater'
         /\ \A f \in reserved' : (f \in reserved => Marked(f)) => Marked(f)'
<1>1. CASE UNCHANGED <<pmm_regions, reserved>>
  BY <1>1 DEF Inv, Layout, ReservedLater, Marked, FindRegion, PmmReserveRange
<1>2. CASE pmm_initialized /\ ~UNCHANGED <<pmm_regions, reserved>>
  <2> DEFINE covered == {a \in Frames : /\ AlignDown(start) <= a /\ a < AlignUp(end)
                                        /\ FindRegion(a) # 0}
             pages(i) == {PageIndex(pmm_regions[i], a) : a \in {b \in covered : FindRegion(b) = i}}
             bits(i) == pmm_regions[i].bitmap \cup (pages(i) \cap (0 .. pmm_regions[i].pages - 1))
  <2>1. /\ pmm_regions' = [i \in DOMAIN pmm_regions |-> [pmm_regions[i] EXCEPT !.bitmap = bits(i)]]
        /\ reserved' = reserved \cup covered
    BY <1>2 DEF PmmReserveRange
  <2>2. \A i \in DOMAIN pmm_regions : pmm_regions[i] \in Region
    BY RegionFields DEF Inv
  <2>3. \A f \in covered : /\ f \in Frames /\ FindRegion(f) # 0
                            /\ PageIndex(pmm_regions[FindRegion(f)], f) \in pages(FindRegion(f))
    OBVIOUS
  <2>4. \A i : pages(i) \cap (0 .. pmm_regions[i].pages - 1) \subseteq bits(i)
               /\ pmm_regions[i].bitmap \subseteq bits(i)
    OBVIOUS
  <2> HIDE DEF covered, pages, bits
  <2>5. /\ SamePlaces
        /\ \A i \in DOMAIN pmm_regions : pmm_regions'[i].bitmap = bits(i)
    BY <2>1, <2>2 DEF SamePlaces, Region
  <2>6. Layout' /\ ReservedLater'
    BY <1>2, <2>5, KeptPlaces DEF Inv, ReservedLater, PmmReserveRange
  <2>7. ASSUME NEW f \in reserved, Marked(f) PROVE Marked(f)'
    <3>1. f \in Frames
      BY DEF Inv, TypeOK
    <3> QED BY <2>4, <2>5, <2>7, <3>1, StillMarked DEF Inv
  <2>8. ASSUME NEW f \in covered PROVE Marked(f)'
    <3>1. PICK i, p : i = FindRegion(f) /\ p = PageIndex(pmm_regions[i], f)
      OBVIOUS
    <3>2. /\ f \in Frames /\ i # 0 /\ i \in DOMAIN pmm_regions
          /\ p \in 0 .. pmm_regions[i].pages - 1 /\ p \in pages(i)
      BY <2>3, <3>1, Position DEF Inv
    <3>3. FindRegion(f)' = i /\ PageIndex(pmm_regions'[i], f) = p
      BY <2>5, <3>1, <3>2, KeptPlaces DEF Inv
    <3>4. p \in pmm_regions'[i].bitmap
      BY <2>4, <2>5, <3>2
    <3> QED BY <3>2, <3>3, <3>4 DEF Marked
  <2> QED BY <2>1, <2>6, <2>7, <2>8
<1> QED BY <1>1, <1>2 DEF PmmReserveRange

\* While nothing is held, configuring moves regions only to free places, and what was
\* reserved stays marked.
LEMMA BootInv ==
  ASSUME Inv, Boot, TypeOK'
  PROVE  Layout' /\ Held' /\ ReservedLater'
<1>1. (\A f \in Frames : holders'[f] = 0) /\ single' = single
  BY DEF Boot, PmmInit, PmmAddRegion, PmmReserveRange
<1>2. reserved \subseteq Frames /\ (~single => \A f \in reserved : Marked(f))
  BY DEF Inv, Held, TypeOK
<1>3. ASSUME \A f \in reserved' : (f \in reserved => Marked(f)) => Marked(f)'
      PROVE  Held'
  BY <1>1, <1>2, <1>3 DEF Held
<1>4. CASE PmmInit
  <2>1. ASSUME pmm_initialized PROVE Layout' /\ Held' /\ ReservedLater'
    <3>1. UNCHANGED <<pmm_regions, reserved>> /\ pmm_initialized'
      BY <1>4, <2>1 DEF PmmInit
    <3>2. Held'
      BY <1>3, <3>1 DEF Marked, FindRegion
    <3> QED BY <3>1, <3>2 DEF Inv, Layout, ReservedLater
  <2>2. ASSUME ~pmm_initialized PROVE Layout' /\ Held' /\ ReservedLater'
    <3>1. pmm_regions' = << >> /\ reserved' = {} /\ pmm_initialized'
      BY <1>4, <2>2 DEF PmmInit, Inv, ReservedLater
    <3>2. Held'
      BY <1>3, <3>1
    <3> QED BY <3>1, <3>2 DEF Layout, ReservedLater
  <2> QED BY <2>1, <2>2
<1>5. ASSUME NEW in \in RegionInputs, Separate(in), PmmAddRegion(in)
      PROVE  Layout' /\ Held' /\ ReservedLater'
  <2>1. Layout' /\ UNCHANGED <<pmm_initialized, reserved>>
    BY <1>5, AddRegionLayout DEF Inv, PmmAddRegion
  <2>2. ASSUME NEW f \in reserved, Marked(f) PROVE Marked(f)'
    <3>1. CASE UNCHANGED pmm_regions
      BY <2>2, <3>1 DEF Marked, FindRegion
    <3>2. CASE ~UNCHANGED pmm_regions
      <4>1. PICK r : pmm_regions' = <<r>> \o pmm_regions
        BY <1>5, <3>2 DEF PmmAddRegion
      <4> QED BY <1>2, <2>1, <2>2, <4>1, MarkedBehind DEF Inv
    <3> QED BY <3>1, <3>2
  <2>3. Held'
    BY <1>3, <2>1, <2>2
  <2> QED BY <2>1, <2>3 DEF Inv, ReservedLater
<1>6. ASSUME NEW range \in RangeInputs, PmmReserveRange(range[1], range[2])
      PROVE  Layout' /\ Held' /\ ReservedLater'
  <2>1. range[1] \in Nat /\ range[2] \in Nat
    BY PmmAssumption
  <2> QED BY <1>3, <1>6, <2>1, ReserveInv
<1> QED BY <1>4, <1>5, <1>6 DEF Boot

LEMMA ClientStepInv == Inv /\ [ClientNext]_vars => Inv'
<1> SUFFICES ASSUME Inv, [ClientNext]_vars PROVE Inv'
  OBVIOUS
<1>1. TypeOK'
  <2>1. ClientNext => Next
    BY DEF ClientNext, Next, Boot, Configure, ReturnHeld, Frames
  <2> QED BY <2>1, StepTyping DEF Inv
<1>2. ASSUME Boot PROVE Layout' /\ Held' /\ ReservedLater'
  BY <1>1, <1>2, BootInv
<1>3. ASSUME AllocPage PROVE Layout' /\ Held'
  BY <1>3, AllocPageInv DEF AllocPage
<1>4. ASSUME AllocPages PROVE Layout' /\ Held'
  BY <1>4, AllocPagesInv, PmmAssumption DEF AllocPages
<1>5. ASSUME ReturnHeld PROVE Layout' /\ Held'
  BY <1>5, FreeInv, PmmAssumption DEF ReturnHeld
<1>6. ASSUME AllocPage \/ AllocPages \/ ReturnHeld PROVE ReservedLater'
  <2>1. UNCHANGED <<pmm_initialized, reserved>>
    BY <1>6 DEF AllocPage, AllocPages, ReturnHeld, PmmAllocPageZone, PmmAllocPagesZone, PmmFreePages
  <2> QED BY <2>1 DEF Inv, ReservedLater
<1>7. ASSUME UNCHANGED vars PROVE Layout' /\ Held' /\ ReservedLater'
  BY <1>7 DEF vars, Inv, Layout, Held, ReservedLater, Marked, FindRegion
<1> QED BY <1>1, <1>2, <1>3, <1>4, <1>5, <1>6, <1>7 DEF ClientNext, Inv

LEMMA ClientInvariant == ClientSpec => []Inv
<1>1. Init => Inv
  <2> SUFFICES ASSUME Init PROVE Inv
    OBVIOUS
  <2>1. TypeOK
    BY InitTyping
  <2>2. Layout
    BY DEF Init, Layout
  <2>3. Held /\ ReservedLater
    BY DEF Init, Held, ReservedLater
  <2> QED BY <2>1, <2>2, <2>3 DEF Inv
<1> QED BY <1>1, ClientStepInv, PTL DEF ClientSpec

\* Callers that configure first, with disjoint regions, and free what they hold: as long as
\* they ask for runs of pages, every page in use is marked where the searches look.
THEOREM HeldPagesAreMarked == ClientSpec => []HeldIsMarked
<1>1. Inv => HeldIsMarked
  BY DEF Inv, Held, HeldIsMarked, Marked
<1> QED BY <1>1, ClientInvariant, PTL

\* The same callers: no page is given to two of them.
THEOREM OneHolder == ClientSpec => []SingleHolder
<1>1. Inv => SingleHolder
  BY DEF Inv, Held, SingleHolder, GrantsAreFree
<1> QED BY <1>1, ClientInvariant, PTL

\* The same callers: no page that was reserved is handed out to one of them.
THEOREM ReservedStay == ClientSpec => ReservedNotGranted
<1>1. Inv /\ Inv' /\ [ClientNext]_vars =>
        [~single' => \A f \in reserved : holders'[f] <= holders[f]]_vars
  <2> SUFFICES ASSUME Inv, Inv', [ClientNext]_vars, ~single', NEW f \in reserved
               PROVE  holders'[f] <= holders[f]
    OBVIOUS
  <2>1. f \in Frames /\ holders[f] \in Nat
    BY DEF Inv, TypeOK
  <2>2. f \in reserved'
    BY DEF ClientNext, Boot, AllocPage, AllocPages, ReturnHeld, PmmInit, PmmAddRegion,
           PmmReserveRange, PmmAllocPageZone, PmmAllocPagesZone, PmmFreePages, vars
  <2>3. holders'[f] = 0
    BY <2>1, <2>2 DEF Inv, Held
  <2> QED BY <2>1, <2>3
<1> QED BY <1>1, ClientInvariant, PTL DEF ClientSpec, ReservedNotGranted

-----------------------------------------------------------------------------
(* Nothing is lost: a marked page is in use, and a refusal is real.        *)

Accounted == \A f \in Frames : Marked(f) => holders[f] > 0 \/ f \in reserved

\* A frame that is found and marked after a step that moves no region has its bit from before, or
\* it is the frame of a bit that the step has set.
LEMMA MarkedBefore ==
  ASSUME TypeOK, Layout, SamePlaces, NEW f \in Frames, Marked(f)'
  PROVE  \E i \in DOMAIN pmm_regions, p \in Nat :
           /\ p \in 0 .. pmm_regions[i].pages - 1 /\ f = pmm_regions[i].base + p * PageSize /\ FrameOf(pmm_regions[i], p) = f
           /\ i = FindRegion(f) /\ p = PageIndex(pmm_regions[i], f)
           /\ p \in pmm_regions'[i].bitmap
           /\ p \in pmm_regions[i].bitmap => Marked(f)
<1>1. PICK i, p : i = FindRegion(f) /\ p = PageIndex(pmm_regions[i], f)
  OBVIOUS
<1>2. FindRegion(f)' = i /\ i # 0
  BY <1>1, KeptPlaces DEF Marked
<1>3. /\ i \in DOMAIN pmm_regions /\ p \in 0 .. pmm_regions[i].pages - 1
      /\ f = pmm_regions[i].base + p * PageSize
  BY <1>1, <1>2, Position
<1>4. PageIndex(pmm_regions'[i], f) = p
  BY <1>1, <1>3, KeptPlaces
<1>5. p \in pmm_regions'[i].bitmap
  BY <1>2, <1>4 DEF Marked
<1>6. FrameOf(pmm_regions[i], p) = f
  BY <1>3, Located
<1> QED BY <1>1, <1>2, <1>3, <1>5, <1>6 DEF Marked

\* Pages are granted: what is marked now was marked before or is granted, and then held.
LEMMA GrantAccounted ==
  ASSUME Inv, Accounted, NEW i \in DOMAIN pmm_regions, NEW bits, SamePlaces,
         \A j \in DOMAIN pmm_regions : pmm_regions'[j].bitmap =
           IF j = i THEN pmm_regions[i].bitmap \cup bits ELSE pmm_regions[j].bitmap,
         Grant(pmm_regions[i], bits), reserved' = reserved
  PROVE  Accounted'
<1> SUFFICES ASSUME NEW f \in Frames, Marked(f)' PROVE holders'[f] > 0 \/ f \in reserved
  BY DEF Accounted
<1>1. PICK j \in DOMAIN pmm_regions, p \in Nat :
        /\ p \in 0 .. pmm_regions[j].pages - 1
        /\ FrameOf(pmm_regions[j], p) = f /\ p \in pmm_regions'[j].bitmap
        /\ p \in pmm_regions[j].bitmap => Marked(f)
  BY MarkedBefore DEF Inv
<1> DEFINE granted == {FrameOf(pmm_regions[i], q) : q \in bits}
<1>2. /\ holders' = [g \in Frames |-> IF g \in granted THEN holders[g] + 1 ELSE holders[g]]
      /\ holders[f] \in Nat
  BY DEF Grant, Inv, TypeOK
<1> HIDE DEF granted
<1>3. CASE p \in pmm_regions[j].bitmap
  BY <1>1, <1>2, <1>3 DEF Accounted
<1>4. CASE p \notin pmm_regions[j].bitmap
  <2>1. j = i /\ p \in bits
    BY <1>1, <1>4
  <2>2. f \in granted
    BY <1>1, <2>1 DEF granted
  <2> QED BY <1>2, <2>2
<1> QED BY <1>3, <1>4

LEMMA AllocPageAccounted ==
  ASSUME Inv, Accounted, NEW zone, PmmAllocPageZone(zone)
  PROVE  Accounted'
<1>1. CASE UNCHANGED <<pmm_regions, holders>>
  BY <1>1 DEF Accounted, Marked, FindRegion, PmmAllocPageZone
<1>2. CASE Servers(zone) # {} /\ ~UNCHANGED <<pmm_regions, holders>>
  <2>1. PICK i, page :
          /\ i = Min(Servers(zone))
          /\ pmm_regions' = [SetBits(i, {page}) EXCEPT ![i].last_alloc = page]
          /\ Grant(pmm_regions[i], {page})
    BY <1>2 DEF PmmAllocPageZone
  <2>2. i \in DOMAIN pmm_regions
    BY <1>2, <2>1, ServerUsable DEF Inv
  <2>3. \A j \in DOMAIN pmm_regions : pmm_regions[j] \in Region
    BY RegionFields DEF Inv
  <2>4. /\ SamePlaces
        /\ \A j \in DOMAIN pmm_regions : pmm_regions'[j].bitmap =
             IF j = i THEN pmm_regions[i].bitmap \cup {page} ELSE pmm_regions[j].bitmap
    BY <2>1, <2>2, <2>3 DEF SamePlaces, SetBits, Region
  <2> QED BY <2>1, <2>2, <2>4, GrantAccounted DEF PmmAllocPageZone
<1>3. UNCHANGED <<pmm_regions, holders>> \/ Servers(zone) # {}
  BY DEF PmmAllocPageZone
<1> QED BY <1>1, <1>2, <1>3

LEMMA AllocPagesAccounted ==
  ASSUME Inv, Accounted, NEW count \in Nat, NEW zone, PmmAllocPagesZone(count, zone)
  PROVE  Accounted'
<1>1. CASE UNCHANGED <<pmm_regions, holders>>
  BY <1>1 DEF Accounted, Marked, FindRegion, PmmAllocPagesZone
<1>2. CASE Fitting(count, zone) # {} /\ ~UNCHANGED <<pmm_regions, holders>>
  <2>1. PICK i, start :
          /\ i = Min(Fitting(count, zone)) /\ start = Min(FreeRuns(pmm_regions[i], count))
          /\ pmm_regions' = SetBits(i, Run(start, count))
          /\ Grant(pmm_regions[i], Run(start, count))
    BY <1>2 DEF PmmAllocPagesZone
  <2>2. i \in DOMAIN pmm_regions
    BY <1>2, <2>1, FittingRun DEF Inv
  <2>3. \A j \in DOMAIN pmm_regions : pmm_regions[j] \in Region
    BY RegionFields DEF Inv
  <2>4. PICK bits : bits = Run(start, count)
    OBVIOUS
  <2>5. /\ SamePlaces
        /\ \A j \in DOMAIN pmm_regions : pmm_regions'[j].bitmap =
             IF j = i THEN pmm_regions[i].bitmap \cup bits ELSE pmm_regions[j].bitmap
    BY <2>1, <2>2, <2>3, <2>4 DEF SamePlaces, SetBits, Region
  <2> QED BY <2>1, <2>2, <2>4, <2>5, GrantAccounted DEF PmmAllocPagesZone
<1>3. UNCHANGED <<pmm_regions, holders>> \/ Fitting(count, zone) # {}
  BY DEF PmmAllocPagesZone
<1> QED BY <1>1, <1>2, <1>3

\* The frames that lose a holder are those whose bits are cleared.
LEMMA FreeAccounted ==
  ASSUME Inv, Accounted, NEW addr \in Frames, NEW count \in Nat, PmmFreePages(addr, count)
  PROVE  Accounted'
<1>1. CASE UNCHANGED <<pmm_regions, holders>>
  BY <1>1 DEF Accounted, Marked, FindRegion, PmmFreePages
<1>2. CASE Freeable(addr, count) /\ ~UNCHANGED <<pmm_regions, holders>>
  <2> DEFINE i == FindRegion(addr)
             r == pmm_regions[i]
             page == PageIndex(r, addr)
             run == Run(page, count)
  <2>1. i \in DOMAIN pmm_regions /\ addr = r.base + page * PageSize /\ page \in 0 .. r.pages - 1
        /\ page + count <= r.pages
    BY <1>2, Position DEF Freeable, Inv
  <2>2. /\ pmm_regions' = [pmm_regions EXCEPT ![i].bitmap = @ \ run,
                                               ![i].last_alloc = LowerHint(@, page)]
        /\ holders' = [f \in Frames |->
             IF addr <= f /\ f < addr + count * PageSize /\ holders[f] > 0
             THEN holders[f] - 1 ELSE holders[f]]
        /\ reserved' = reserved
    BY <1>2 DEF PmmFreePages
  <2> HIDE DEF i
  <2>3. r \in Region /\ r.base \in Nat /\ r.pages \in Nat
    BY <2>1, RegionFields DEF Inv
  <2>4. /\ DOMAIN pmm_regions' = DOMAIN pmm_regions
        /\ \A j \in DOMAIN pmm_regions : j # i => pmm_regions'[j] = pmm_regions[j]
        /\ pmm_regions'[i].base = r.base /\ pmm_regions'[i].pages = r.pages
        /\ pmm_regions'[i].bitmap = r.bitmap \ run
    BY <2>1, <2>2, <2>3 DEF Region
  <2> HIDE DEF r, page, run
  <2>5. SamePlaces
    BY <2>4 DEF SamePlaces, r
  <2> SUFFICES ASSUME NEW f \in Frames, Marked(f)' PROVE holders'[f] > 0 \/ f \in reserved
    BY <2>2 DEF Accounted
  <2>6. PICK j \in DOMAIN pmm_regions, p \in Nat :
          /\ p \in 0 .. pmm_regions[j].pages - 1
          /\ f = pmm_regions[j].base + p * PageSize /\ p \in pmm_regions'[j].bitmap
          /\ j = FindRegion(f) /\ p = PageIndex(pmm_regions[j], f)
          /\ p \in pmm_regions[j].bitmap => Marked(f)
    BY <2>5, MarkedBefore DEF Inv
  <2>7. Marked(f) /\ (j = i => p \notin run)
    BY <2>4, <2>6 DEF r
  <2>8. ~(addr <= f /\ f < addr + count * PageSize)
    <3> SUFFICES ASSUME addr <= f, f < addr + count * PageSize PROVE FALSE
      OBVIOUS
    <3>1. page \in Nat /\ PageSize \in Nat /\ PageSize > 0 /\ f \in Nat
      <4>1. page \in Nat
        BY <2>1, <2>3
      <4> QED BY <4>1, Arithmetic DEF Frames
    <3>2. /\ page * PageSize \in Nat /\ count * PageSize \in Nat /\ r.pages * PageSize \in Nat
          /\ (page + count) * PageSize = page * PageSize + count * PageSize
          /\ (page + count) * PageSize <= r.pages * PageSize
      <4>1. page + count \in Nat /\ (page + count = r.pages \/ page + count < r.pages)
        <5>1. \A a, b, c \in Nat : a + b <= c => a + b \in Nat /\ (a + b = c \/ a + b < c)
          OBVIOUS
        <5>2. page + count <= r.pages
          BY <2>1
        <5> QED BY <2>3, <3>1, <5>1, <5>2
      <4>2. /\ page * PageSize \in Nat /\ count * PageSize \in Nat /\ r.pages * PageSize \in Nat
            /\ (page + count) * PageSize \in Nat
        BY <2>3, <3>1, <4>1, MultipleOrder
      <4>3. (page + count) * PageSize = page * PageSize + count * PageSize
        BY <3>1, Arithmetic
      <4>4. page + count < r.pages => (page + count) * PageSize + PageSize <= r.pages * PageSize
        BY <2>3, <4>1, MultipleOrder
      <4> QED BY <3>1, <4>1, <4>2, <4>3, <4>4
    <3>3. r.base <= f /\ f < r.base + r.pages * PageSize
      BY <2>1, <2>3, <3>1, <3>2
    <3>4. j = i
      <4>1. pmm_regions[j].base \in Nat /\ pmm_regions[j].pages \in Nat
            /\ pmm_regions[j].pages * PageSize \in Nat
        BY RegionFields, MultipleOrder DEF Inv
      <4>2. /\ p \in Nat /\ p * PageSize \in Nat
            /\ p * PageSize + PageSize <= pmm_regions[j].pages * PageSize
        <5>1. p \in Nat /\ p < pmm_regions[j].pages
          <6>1. p \in Nat /\ p \in 0 .. pmm_regions[j].pages - 1
            BY <2>6
          <6> QED BY <4>1, <6>1
        <5> DEFINE q == pmm_regions[j].pages
        <5>2. q \in Nat /\ p < q
          BY <4>1, <5>1
        <5> HIDE DEF q
        <5>3. p * PageSize \in Nat /\ p * PageSize + PageSize <= q * PageSize
          BY <5>1, <5>2, MultipleOrder
        <5> QED BY <5>1, <5>3 DEF q
      <4>3. pmm_regions[j].base <= f /\ f < pmm_regions[j].base + pmm_regions[j].pages * PageSize
        <5>1. f = pmm_regions[j].base + p * PageSize
          BY <2>6
        <5>2. \A a, b, c \in Nat : b + PageSize <= c => a <= a + b /\ a + b < a + c
          BY <3>1
        <5>3. p * PageSize + PageSize <= pmm_regions[j].pages * PageSize
          BY <4>2
        <5> DEFINE a == pmm_regions[j].base
                   b == p * PageSize
                   c == pmm_regions[j].pages * PageSize
        <5>4. a \in Nat /\ b \in Nat /\ c \in Nat /\ b + PageSize <= c /\ f = a + b
          BY <4>1, <4>2, <5>1, <5>3
        <5> HIDE DEF a, b, c
        <5>5. a <= f /\ f < a + c
          BY <5>2, <5>4
        <5> QED BY <5>5 DEF a, c
      <4>4. j # i => Apart(r, pmm_regions[j])
        BY <2>1 DEF Inv, Layout, r
      <4>5. \A a, b, c, d \in Nat : ~(a + b <= c /\ c <= f /\ f < a + b) /\ ~(c + d <= a /\ a <= f /\ f < c + d)
        BY <3>1
      <4>6. ~Apart(r, pmm_regions[j])
        BY <2>3, <3>2, <3>3, <4>1, <4>3, <4>5 DEF Apart
      <4> QED BY <4>4, <4>6
    <3>5. f = r.base + p * PageSize /\ p \in Nat /\ p * PageSize \in Nat
      <4>1. p \in Nat
        BY <2>3, <3>4 DEF r
      <4> QED BY <2>6, <3>4, <4>1, MultipleOrder DEF r
    <3>6. page * PageSize <= p * PageSize /\ p * PageSize < (page + count) * PageSize
      BY <2>1, <2>3, <3>1, <3>2, <3>5
    <3>7. ~(p < page)
      <4>1. p < page => p * PageSize + PageSize <= page * PageSize
        BY <3>1, <3>5, MultipleOrder
      <4> QED BY <3>1, <3>2, <3>5, <3>6, <4>1
    <3>8. ~(page + count <= p)
      <4>1. page + count < p => (page + count) * PageSize + PageSize <= p * PageSize
        BY <3>1, <3>5, MultipleOrder
      <4>2. page + count = p => (page + count) * PageSize = p * PageSize
        OBVIOUS
      <4> QED BY <3>1, <3>2, <3>5, <3>6, <4>1, <4>2
    <3>9. p \in run
      BY <3>1, <3>5, <3>7, <3>8 DEF run, Run
    <3> QED BY <2>7, <3>4, <3>9
  <2>9. holders'[f] = holders[f]
    BY <2>2, <2>8
  <2> QED BY <2>7, <2>9 DEF Accounted
<1> QED BY <1>1, <1>2 DEF PmmFreePages

\* What is newly marked by a reservation is reserved.
LEMMA ReserveAccounted ==
  ASSUME Inv, Accounted, NEW start \in Nat, NEW end \in Nat, PmmReserveRange(start, end)
  PROVE  Accounted'
<1>1. CASE UNCHANGED pmm_regions
  BY <1>1 DEF Accounted, Marked, FindRegion, PmmReserveRange
<1>2. CASE pmm_initialized /\ ~UNCHANGED pmm_regions
  <2> DEFINE covered == {a \in Frames : /\ AlignDown(start) <= a /\ a < AlignUp(end)
                                        /\ FindRegion(a) # 0}
             pages(i) == {PageIndex(pmm_regions[i], a) : a \in {b \in covered : FindRegion(b) = i}}
  <2>1. /\ pmm_regions' = [i \in DOMAIN pmm_regions |->
             [pmm_regions[i] EXCEPT !.bitmap =
               @ \cup (pages(i) \cap (0 .. pmm_regions[i].pages - 1))]]
        /\ reserved' = reserved \cup covered /\ holders' = holders
    BY <1>2 DEF PmmReserveRange
  <2>2. \A i \in DOMAIN pmm_regions : pmm_regions[i] \in Region
    BY RegionFields DEF Inv
  <2>3. SamePlaces /\ \A i \in DOMAIN pmm_regions :
          pmm_regions'[i].bitmap \subseteq pmm_regions[i].bitmap \cup pages(i)
    BY <2>1, <2>2 DEF SamePlaces, Region
  <2> SUFFICES ASSUME NEW f \in Frames, Marked(f)' PROVE holders[f] > 0 \/ f \in reserved'
    BY <2>1 DEF Accounted
  <2>4. PICK i \in DOMAIN pmm_regions, p \in Nat :
          /\ p \in 0 .. pmm_regions[i].pages - 1 /\ f = pmm_regions[i].base + p * PageSize
          /\ FrameOf(pmm_regions[i], p) = f
          /\ p \in pmm_regions'[i].bitmap
          /\ p \in pmm_regions[i].bitmap => Marked(f)
    BY <2>3, MarkedBefore DEF Inv
  <2>5. CASE p \in pmm_regions[i].bitmap
    BY <2>1, <2>4, <2>5 DEF Accounted
  <2>6. CASE p \in pages(i)
    <3>1. PICK a \in covered : FindRegion(a) = i /\ p = PageIndex(pmm_regions[i], a)
      BY <2>6
    <3>2. a \in Frames /\ FindRegion(a) # 0
      BY <3>1
    <3>3. a = pmm_regions[i].base + p * PageSize
      BY <3>1, <3>2, Position DEF Inv
    <3> QED BY <2>1, <2>4, <3>1, <3>3
  <2> QED BY <2>3, <2>4, <2>5, <2>6
<1> QED BY <1>1, <1>2 DEF PmmReserveRange

\* A new region has no bit, and shifts the others by one place.
LEMMA AddRegionAccounted ==
  ASSUME Inv, Accounted, TypeOK', Layout', NEW in \in RegionInputs, PmmAddRegion(in)
  PROVE  Accounted'
<1>1. UNCHANGED <<holders, reserved>>
  BY DEF PmmAddRegion
<1>2. CASE UNCHANGED pmm_regions
  BY <1>1, <1>2 DEF Accounted, Marked, FindRegion
<1>3. CASE ~UNCHANGED pmm_regions
  <2>1. PICK r : pmm_regions' = <<r>> \o pmm_regions /\ r.bitmap = {}
    <3>1. PICK r : /\ pmm_regions' = <<r>> \o pmm_regions
                   /\ r = [base |-> AlignUp(in.base), pages |-> RegionPages(in),
                           last_alloc |-> 0, zone |-> in.zone, bitmap |-> {}]
      BY <1>3 DEF PmmAddRegion
    <3>2. r.bitmap = {}
      BY <3>1
    <3> QED BY <3>1, <3>2
  <2> SUFFICES ASSUME NEW f \in Frames, Marked(f)' PROVE Marked(f)
    BY <1>1 DEF Accounted
  <2>2. PICK i, p : i = FindRegion(f)' /\ p = PageIndex(pmm_regions'[i], f)
    OBVIOUS
  <2>3. i # 0 /\ p \in pmm_regions'[i].bitmap
    BY <2>2 DEF Marked
  <2>4. Places'
    BY PlacesAreKnown, PTL
  <2>5. /\ i \in DOMAIN pmm_regions' /\ p \in 0 .. pmm_regions'[i].pages - 1
        /\ f = pmm_regions'[i].base + p * PageSize
    BY <2>2, <2>3, <2>4 DEF Places
  <2>6. \A j \in DOMAIN pmm_regions' :
          \/ j = 1 /\ pmm_regions'[j] = r
          \/ j # 1 /\ j - 1 \in DOMAIN pmm_regions /\ pmm_regions'[j] = pmm_regions[j - 1]
    <3>1. pmm_regions' \in Seq(Region) /\ pmm_regions \in Seq(Region)
      BY DEF TypeOK, Inv
    <3>2. pmm_regions'[1] = r /\ 1 \in DOMAIN pmm_regions'
      BY <2>1, <3>1
    <3>3. r \in Region
      BY <3>1, <3>2
    <3> QED BY <2>1, <3>1, <3>3
  <2>7. PICK j \in DOMAIN pmm_regions : pmm_regions[j] = pmm_regions'[i]
    BY <2>1, <2>3, <2>5, <2>6
  <2>8. FrameOf(pmm_regions[j], p) = f /\ FindRegion(f) = j /\ PageIndex(pmm_regions[j], f) = p
    BY <2>5, <2>7, Located DEF Inv
  <2>9. j # 0
    BY RegionFields DEF Inv
  <2> QED BY <2>3, <2>7, <2>8, <2>9 DEF Marked
<1> QED BY <1>2, <1>3

LEMMA AccountedStep ==
  ASSUME Inv, Inv', Accounted, [ClientNext]_vars
  PROVE  Accounted'
<1>1. CASE PmmInit
  <2>1. UNCHANGED <<holders, reserved>>
    BY <1>1 DEF PmmInit
  <2>2. CASE pmm_initialized
    BY <1>1, <2>1, <2>2 DEF PmmInit, Accounted, Marked, FindRegion
  <2>3. CASE ~pmm_initialized
    <3>1. pmm_regions' = << >>
      BY <1>1, <2>3 DEF PmmInit
    <3>2. \A f \in Frames : FindRegion(f)' = 0
      BY <3>1 DEF FindRegion
    <3> QED BY <3>2 DEF Accounted, Marked
  <2> QED BY <2>2, <2>3
<1>2. ASSUME NEW in \in RegionInputs, PmmAddRegion(in) PROVE Accounted'
  BY <1>2, AddRegionAccounted DEF Inv
<1>3. ASSUME NEW range \in RangeInputs, PmmReserveRange(range[1], range[2]) PROVE Accounted'
  <2>1. range[1] \in Nat /\ range[2] \in Nat
    BY PmmAssumption
  <2> QED BY <1>3, <2>1, ReserveAccounted
<1>4. CASE AllocPage
  BY <1>4, AllocPageAccounted DEF AllocPage
<1>5. CASE AllocPages
  BY <1>5, AllocPagesAccounted, PmmAssumption DEF AllocPages
<1>6. CASE ReturnHeld
  BY <1>6, FreeAccounted, PmmAssumption DEF ReturnHeld
<1>7. CASE UNCHANGED vars
  BY <1>7 DEF vars, Accounted, Marked, FindRegion
<1> QED BY <1>1, <1>2, <1>3, <1>4, <1>5, <1>6, <1>7 DEF ClientNext, Boot

LEMMA EverythingAccounted ==
  ASSUME Inv, Accounted
  PROVE  MarkedIsAccountedFor
<1> SUFFICES ASSUME NEW i \in DOMAIN pmm_regions, NEW p \in pmm_regions[i].bitmap
             PROVE  holders[FrameOf(pmm_regions[i], p)] > 0
                    \/ FrameOf(pmm_regions[i], p) \in reserved
  BY DEF MarkedIsAccountedFor
<1>1. p \in 0 .. pmm_regions[i].pages - 1 /\ i # 0
  BY RegionFields DEF Inv
<1>2. PICK f : f = FrameOf(pmm_regions[i], p)
  OBVIOUS
<1>3. f \in Frames /\ FindRegion(f) = i /\ PageIndex(pmm_regions[i], f) = p
  BY <1>1, <1>2, Located DEF Inv
<1> QED BY <1>1, <1>2, <1>3 DEF Accounted, Marked

LEMMA WordDivision ==
  \A a \in Nat : /\ a \div WordBits \in Nat /\ a % WordBits \in 0 .. WordBits - 1
                 /\ a = (a \div WordBits) * WordBits + (a % WordBits)
<1>1. WordBits \in Nat /\ WordBits > 0
  BY PmmAssumption
<1> QED BY <1>1

\* A word with a clear bit is usable if it lies inside the region, and the last word is too: the
\* bits past the last page are clear, so that the top bit is the candidate's.
LEMMA FullWhenUnusable ==
  ASSUME NEW r, RegionOK(r), UsableWords(r) = {}
  PROVE  r.bitmap = 0 .. r.pages - 1
<1>1. r.pages \in Nat /\ r.bitmap \subseteq 0 .. r.pages - 1
  BY DEF RegionOK, Region
<1> SUFFICES ASSUME NEW p \in 0 .. r.pages - 1, p \notin r.bitmap PROVE FALSE
  BY <1>1
<1>2. WordBits \in Nat /\ WordBits > 0
  BY PmmAssumption
<1>3. PICK k, b : /\ k \in Nat /\ b \in 0 .. WordBits - 1 /\ p = k * WordBits + b
  <2>1. p \in Nat
    BY <1>1
  <2>2. /\ p \div WordBits \in Nat /\ p % WordBits \in 0 .. WordBits - 1
        /\ p = (p \div WordBits) * WordBits + (p % WordBits)
    BY <2>1, WordDivision
  <2> QED BY <2>2
<1>4. k * WordBits \in Nat /\ p \in Nat /\ p < r.pages /\ b \in Nat /\ b < WordBits
  BY <1>1, <1>2, <1>3
<1>5. k \in 0 .. BitmapSize(r) - 1
  <2>1. PICK n, m : n = r.pages + WordBits - 1 /\ m = BitmapSize(r)
    OBVIOUS
  <2>2. n \in Nat
    BY <1>1, <1>2, <2>1
  <2>3. m = n \div WordBits
    BY <2>1 DEF BitmapSize
  <2>4. PICK l : m \in Nat /\ l \in 0 .. WordBits - 1 /\ n = m * WordBits + l
    <3>1. /\ n \div WordBits \in Nat /\ n % WordBits \in 0 .. WordBits - 1
          /\ n = (n \div WordBits) * WordBits + (n % WordBits)
      BY <2>2, WordDivision
    <3> QED BY <2>3, <3>1
  <2>5. m * WordBits \in Nat /\ k * WordBits < m * WordBits
    <3>1. m * WordBits \in Nat
      BY <1>2, <2>4
    <3> QED BY <1>1, <1>2, <1>3, <1>4, <2>1, <2>4, <3>1
  <2>6. ~(m <= k)
    <3> SUFFICES ASSUME m <= k PROVE FALSE
      OBVIOUS
    <3>1. m < k => m * WordBits + WordBits <= k * WordBits
      BY <1>2, <1>3, <2>4, MultiplesApart
    <3> QED BY <1>2, <1>3, <1>4, <2>4, <2>5, <3>1
  <2> QED BY <1>3, <2>1, <2>4, <2>6
<1> DEFINE clear == Bits \ Word(r, k)
<1>6. b \in clear /\ clear \subseteq 0 .. WordBits - 1
  BY <1>3 DEF Word, Bits
<1>7. CandidatePage(r, k) = k * WordBits + (WordBits - 1 - Max(clear))
  BY <1>6 DEF CandidatePage, FindFirstZeroBit, Clz
<1>8. Word(r, k) # Bits /\ ~(CandidatePage(r, k) < r.pages)
  BY <1>5, <1>6 DEF UsableWords
<1>9. WordBits - 1 \notin clear => k * WordBits + (WordBits - 1) < r.pages
  <2>1. WordBits - 1 \in Bits
    BY <1>2 DEF Bits
  <2>2. WordBits - 1 \notin clear => k * WordBits + (WordBits - 1) \in r.bitmap
    BY <2>1 DEF Word
  <2> QED BY <1>1, <2>2
<1> HIDE DEF clear
<1>10. PICK top : top = Max(clear)
  OBVIOUS
<1>11. top \in clear /\ (\A c \in clear : c <= top)
  <2>1. clear \in SUBSET (0 .. WordBits - 1) /\ WordBits - 1 \in Nat /\ clear # {}
    BY <1>2, <1>6
  <2> QED BY <1>10, <2>1, GreatestIn
<1>12. top \in 0 .. WordBits - 1 /\ ~(k * WordBits + (WordBits - 1 - top) < r.pages)
  BY <1>6, <1>7, <1>8, <1>10, <1>11
<1>13. CASE WordBits - 1 \in clear
  <2>1. top = WordBits - 1
    BY <1>2, <1>11, <1>12, <1>13
  <2> QED BY <1>1, <1>3, <1>4, <1>12, <2>1
<1>14. CASE WordBits - 1 \notin clear
  BY <1>1, <1>2, <1>4, <1>9, <1>12, <1>14
<1> QED BY <1>13, <1>14

\* A page that is handed out is not NULL, so that NULL says that no word was usable.
LEMMA RefusalStep ==
  ASSUME Inv, Inv', OutOfMemoryIsReal, [ClientNext]_vars
  PROVE  OutOfMemoryIsReal'
<1>1. ASSUME NEW zone, PmmAllocPageZone(zone) PROVE OutOfMemoryIsReal'
  <2>1. CASE /\ pmm_initialized /\ Servers(zone) # {}
             /\ ret' = Answer("alloc_page", zone,
                              FrameOf(pmm_regions[Min(Servers(zone))],
                                      ChosenPage(pmm_regions[Min(Servers(zone))])))
    <3>1. PICK i, page : /\ i = Min(Servers(zone)) /\ page = ChosenPage(pmm_regions[i])
                         /\ ret'.value = FrameOf(pmm_regions[i], page)
      BY <2>1 DEF Answer
    <3>2. i \in DOMAIN pmm_regions /\ UsableWords(pmm_regions[i]) # {}
      BY <2>1, <3>1, ServerUsable DEF Inv
    <3>3. pmm_regions[i] \in Region /\ pmm_regions[i].last_alloc \in Nat
      BY <3>2, RegionFields DEF Inv, Region
    <3>4. page \in 0 .. pmm_regions[i].pages - 1
      BY <3>1, <3>2, <3>3, ChosenInRegion
    <3>5. FrameOf(pmm_regions[i], page) = pmm_regions[i].base + page * PageSize
      BY <3>2, <3>4, Located DEF Inv
    <3>6. pmm_regions[i].base \in Nat /\ pmm_regions[i].base > 0
      BY <3>2, RegionFields DEF Inv, Layout, Placed
    <3>7. page * PageSize \in Nat
      <4>1. page \in Nat
        BY <3>2, <3>4, RegionFields DEF Inv
      <4> QED BY <4>1, MultipleOrder
    <3>8. ret'.value # NULL
      BY <3>1, <3>5, <3>6, <3>7 DEF NULL
    <3> QED BY <3>8 DEF OutOfMemoryIsReal
  <2>2. CASE ~pmm_initialized \/ Servers(zone) = {}
    <3>1. UNCHANGED <<pmm_initialized, pmm_regions>>
      BY <1>1, <2>2 DEF PmmAllocPageZone
    <3> SUFFICES ASSUME pmm_initialized, NEW i \in DOMAIN pmm_regions
                 PROVE  pmm_regions[i].bitmap = 0 .. pmm_regions[i].pages - 1
      BY <3>1 DEF OutOfMemoryIsReal
    <3>2. UsableWords(pmm_regions[i]) = {}
      BY <2>2 DEF Servers
    <3> QED BY <3>2, FullWhenUnusable, RegionFields DEF Inv
  <2> QED BY <1>1, <2>1, <2>2 DEF PmmAllocPageZone
<1>2. ASSUME ~AllocPage, ClientNext PROVE ret'.call # "alloc_page"
  <2> DEFINE Other == {"init", "add_region", "reserve_range", "alloc_pages", "free_pages"}
  <2>1. ASSUME Boot PROVE \E c \in Other : \E a, v : ret' = Answer(c, a, v)
    <3>1. PmmInit => ret' = Answer("init", 0, IF pmm_initialized THEN -1 ELSE 0)
      BY DEF PmmInit
    <3>2. \A in : PmmAddRegion(in) =>
            ret' = Answer("add_region", 0, 0) \/ ret' = Answer("add_region", 0, -1)
      BY DEF PmmAddRegion
    <3>3. \A start, end : PmmReserveRange(start, end) =>
            ret' = Answer("reserve_range", 0, 0) \/ ret' = Answer("reserve_range", 0, -1)
      BY DEF PmmReserveRange
    <3> QED BY <2>1, <3>1, <3>2, <3>3 DEF Boot
  <2>2. ASSUME AllocPages PROVE \E c \in Other : \E a, v : ret' = Answer(c, a, v)
    <3>1. PICK count, zone : PmmAllocPagesZone(count, zone)
      BY <2>2 DEF AllocPages
    <3>2. \E v : ret' = Answer("alloc_pages", count, v)
      BY <3>1 DEF PmmAllocPagesZone
    <3> QED BY <3>2
  <2>3. ASSUME ReturnHeld PROVE \E c \in Other : \E a, v : ret' = Answer(c, a, v)
    <3>1. PICK addr, count : PmmFreePages(addr, count)
      BY <2>3 DEF ReturnHeld
    <3>2. \E v : ret' = Answer("free_pages", count, v)
      BY <3>1 DEF PmmFreePages
    <3> QED BY <3>2
  <2>4. \A c, a, v : Answer(c, a, v).call = c
    BY DEF Answer
  <2>5. \A c \in Other : c # "alloc_page"
    OBVIOUS
  <2> HIDE DEF Other
  <2>6. PICK c \in Other : \E a, v : ret' = Answer(c, a, v)
    BY <1>2, <2>1, <2>2, <2>3 DEF ClientNext
  <2>7. ret'.call = c
    BY <2>4, <2>6
  <2> QED BY <2>5, <2>7
<1>3. CASE UNCHANGED vars
  BY <1>3 DEF vars, OutOfMemoryIsReal
<1> QED BY <1>1, <1>2, <1>3 DEF AllocPage, OutOfMemoryIsReal

\* Callers that configure first and free what they hold lose no page: what is marked is held or
\* reserved, and a request for a page fails only when every page of every region is marked.
THEOREM NothingGetsLost == ClientSpec => []NothingIsLost
<1>1. Init => Accounted /\ OutOfMemoryIsReal
  <2> SUFFICES ASSUME Init PROVE Accounted /\ OutOfMemoryIsReal
    OBVIOUS
  <2>1. \A f \in Frames : FindRegion(f) = 0
    BY DEF Init, FindRegion
  <2> QED BY <2>1 DEF Init, Accounted, Marked, OutOfMemoryIsReal, Answer
<1>2. Inv /\ Inv' /\ Accounted /\ [ClientNext]_vars => Accounted'
  BY AccountedStep
<1>3. Inv /\ Inv' /\ OutOfMemoryIsReal /\ [ClientNext]_vars => OutOfMemoryIsReal'
  BY RefusalStep
<1>4. Inv /\ Accounted /\ OutOfMemoryIsReal => NothingIsLost
  BY EverythingAccounted DEF NothingIsLost
<1> QED BY <1>1, <1>2, <1>3, <1>4, ClientInvariant, PTL DEF ClientSpec

-----------------------------------------------------------------------------
(* The statistics.  A sum of cardinalities is the cardinality of what is   *)
(* counted, and pages and their frames determine each other.               *)

\* What the fold behind SumOver computes for each set of indices.
IsSum(g, f, S) ==
  g = [s \in SUBSET S |-> IF s = {} THEN 0
                          ELSE LET x == CHOOSE y \in s : TRUE IN f[x] + g[s \ {x}]]

LEMMA SumIsSum ==
  ASSUME NEW f, NEW S
  PROVE  SumOver(f, S) = (CHOOSE g : IsSum(g, f, S))[S]
BY DEF SumOver, MapThenSumSet, MapThenFoldSet, IsSum

\* The elements of P whose key k is in s; and f counts them for each key in S.
Keyed(P, k, s) == {x \in P : k[x] \in s}

Counting(f, P, k, S) ==
  /\ IsFiniteSet(S) /\ IsFiniteSet(P)
  /\ \A i \in S : f[i] = Cardinality(Keyed(P, k, {i}))

LEMMA CountedSum ==
  ASSUME NEW S, NEW f, NEW P, NEW k, Counting(f, P, k, S)
  PROVE  SumOver(f, S) = Cardinality(Keyed(P, k, S))
<1>0. IsFiniteSet(S) /\ IsFiniteSet(P) /\ \A i \in S : f[i] = Cardinality(Keyed(P, k, {i}))
  BY DEF Counting
<1> DEFINE h == [s \in SUBSET S |-> Cardinality(Keyed(P, k, s))]
<1>1. \A s : IsFiniteSet(Keyed(P, k, s)) /\ Cardinality(Keyed(P, k, s)) \in Nat
  <2> TAKE s
  <2>1. Keyed(P, k, s) \subseteq P
    BY DEF Keyed
  <2> QED BY <1>0, <2>1, FS_Subset, FS_CardinalityType
<1>2. ASSUME NEW s \in SUBSET S, NEW x \in s
      PROVE  h[s] = f[x] + h[s \ {x}]
  <2> DEFINE A == Keyed(P, k, {x})
             B == Keyed(P, k, s \ {x})
  <2>1. Keyed(P, k, s) = A \cup B /\ A \cap B = {}
    BY DEF Keyed
  <2>2. Cardinality(A \cap B) = 0
    BY <2>1, FS_EmptySet
  <2>3. IsFiniteSet(A) /\ IsFiniteSet(B) /\ Cardinality(A) \in Nat /\ Cardinality(B) \in Nat
    BY <1>1
  <2>4. f[x] = Cardinality(A)
    BY <1>0
  <2>5. h[s] = Cardinality(Keyed(P, k, s)) /\ h[s \ {x}] = Cardinality(B)
    OBVIOUS
  <2> HIDE DEF A, B, h
  <2>6. Cardinality(A \cup B) = Cardinality(A) + Cardinality(B) - Cardinality(A \cap B)
    BY <2>3, FS_Union
  <2> QED BY <2>1, <2>2, <2>3, <2>4, <2>5, <2>6
<1>3. IsSum(h, f, S)
  <2>1. h[{}] = 0
    <3>1. Keyed(P, k, {}) = {}
      BY DEF Keyed
    <3> QED BY <3>1, FS_EmptySet
  <2>2. \A s \in SUBSET S : s # {} => h[s] = f[CHOOSE y \in s : TRUE] + h[s \ {CHOOSE y \in s : TRUE}]
    <3> HIDE DEF h
    <3> TAKE s \in SUBSET S
    <3> HAVE s # {}
    <3>1. (CHOOSE y \in s : TRUE) \in s
      OBVIOUS
    <3> QED BY <1>2, <3>1
  <2>3. h = [s \in SUBSET S |-> h[s]]
    OBVIOUS
  <2> HIDE DEF h
  <2> QED BY <2>1, <2>2, <2>3 DEF IsSum
<1> DEFINE g == CHOOSE g : IsSum(g, f, S)
<1>4. IsSum(g, f, S)
  <2> HIDE DEF h
  <2> QED BY <1>3
<1> HIDE DEF g, h
<1> DEFINE B == {s \in SUBSET S : g[s] # h[s]}
           Sizes == {Cardinality(s) : s \in B}
<1>5. ASSUME B # {} PROVE FALSE
  <2>1. \A s \in SUBSET S : IsFiniteSet(s) /\ Cardinality(s) \in Nat
    BY <1>0, FS_Subset, FS_CardinalityType
  <2>2. Sizes \in SUBSET Nat /\ Sizes # {}
    BY <1>5, <2>1
  <2>3. PICK n \in Sizes : \A m \in Sizes : n <= m
    <3> HIDE DEF Sizes
    <3> QED BY <2>2, LeastNumber
  <2>4. PICK s \in B : n = Cardinality(s)
    BY <2>3
  <2>5. s \in SUBSET S /\ g[s] # h[s] /\ \A t \in B : Cardinality(s) <= Cardinality(t)
    BY <2>3, <2>4
  <2> HIDE DEF Sizes
  <2>6. s # {}
    <3> SUFFICES ASSUME s = {} PROVE FALSE
      OBVIOUS
    <3>1. g[s] = 0 /\ h[s] = 0
      BY <1>3, <1>4, <2>5 DEF IsSum
    <3> QED BY <2>5, <3>1
  <2> DEFINE x == CHOOSE y \in s : TRUE
  <2>7. x \in s
    BY <2>6
  <2>8. g[s] = f[x] + g[s \ {x}] /\ h[s] = f[x] + h[s \ {x}]
    BY <1>3, <1>4, <2>5, <2>6 DEF IsSum
  <2> HIDE DEF x
  <2>9. Cardinality(s \ {x}) = Cardinality(s) - 1 /\ Cardinality(s) \in Nat /\ s \ {x} \in SUBSET S
    BY <2>1, <2>5, <2>7, FS_RemoveElement
  <2>10. s \ {x} \notin B
    BY <2>5, <2>9
  <2> QED BY <2>5, <2>8, <2>9, <2>10
<1>6. g[S] = h[S]
  BY <1>5
<1>7. h[S] = Cardinality(Keyed(P, k, S))
  BY DEF h
<1> QED BY <1>6, <1>7, SumIsSum DEF g

LEMMA SumOfNothing ==
  ASSUME NEW S, IsFiniteSet(S), NEW f, \A i \in S : f[i] = 0
  PROVE  SumOver(f, S) = 0
<1> PICK P, k : P = {} /\ k = {}
  OBVIOUS
<1>1. \A s : Keyed(P, k, s) = {}
  BY DEF Keyed
<1>2. IsFiniteSet(P) /\ \A s : Cardinality(Keyed(P, k, s)) = 0
  BY <1>1, FS_EmptySet
<1>3. \A i \in S : f[i] = Cardinality(Keyed(P, k, {i}))
  BY <1>2
<1>4. SumOver(f, S) = Cardinality(Keyed(P, k, S))
  <2>1. Counting(f, P, k, S)
    BY <1>2, <1>3 DEF Counting
  <2> QED BY <2>1, CountedSum
<1> QED BY <1>2, <1>4

\* The pages of all regions, those that are marked, and the others; each with its region
\* and its zone.
AllPages == {x \in (DOMAIN pmm_regions) \X Nat : x[2] \in 0 .. pmm_regions[x[1]].pages - 1}
MarkedPages == {x \in AllPages : x[2] \in pmm_regions[x[1]].bitmap}
FreePages == AllPages \ MarkedPages
RegionOf == [x \in AllPages |-> x[1]]
ZoneOf == [x \in AllPages |-> pmm_regions[x[1]].zone]

LEMMA FramesFinite == IsFiniteSet(Frames)
<1>1. IsFiniteSet(0 .. AddrSpace - 1)
  BY PmmAssumption, FS_Interval
<1>2. Frames \subseteq 0 .. AddrSpace - 1
  BY DEF Frames
<1> QED BY <1>1, <1>2, FS_Subset

\* A page has one frame, and a frame one page.
LEMMA PagesAreFrames ==
  ASSUME TypeOK, Layout
  PROVE  /\ IsFiniteSet(AllPages)
         /\ pmm_initialized =>
              Cardinality(MarkedPages) = Cardinality({f \in Frames : PmmIsPageAllocated(f)})
<1> DEFINE F == [x \in AllPages |-> FrameOf(pmm_regions[x[1]], x[2])]
<1>1. \A x \in AllPages : x[1] \in DOMAIN pmm_regions /\ x[2] \in 0 .. pmm_regions[x[1]].pages - 1
                          /\ x = <<x[1], x[2]>>
  BY DEF AllPages
<1>2. \A x \in AllPages : /\ F[x] \in Frames /\ FindRegion(F[x]) = x[1]
                          /\ PageIndex(pmm_regions[x[1]], F[x]) = x[2]
                          /\ F[x] = pmm_regions[x[1]].base + x[2] * PageSize
  BY <1>1, Located
<1>3. F \in Injection(AllPages, Frames)
  <2>1. F \in [AllPages -> Frames]
    BY <1>2
  <2>2. \A x, y \in AllPages : F[x] = F[y] => x = y
    <3> HIDE DEF F
    <3> TAKE x, y \in AllPages
    <3> HAVE F[x] = F[y]
    <3>1. x[1] = y[1]
      BY <1>2
    <3>2. x[2] = y[2]
      BY <1>2, <3>1
    <3> QED BY <1>1, <3>1, <3>2
  <2> HIDE DEF F
  <2> QED BY <2>1, <2>2 DEF Injection, IsInjective
<1>4. IsFiniteSet(AllPages)
  BY <1>3, FramesFinite, FS_Injection
<1>5. ASSUME pmm_initialized
      PROVE  Cardinality(MarkedPages) = Cardinality({f \in Frames : PmmIsPageAllocated(f)})
  <2> DEFINE T == {f \in Frames : PmmIsPageAllocated(f)}
             G == [x \in MarkedPages |-> F[x]]
  <2>1. MarkedPages \subseteq AllPages /\ IsFiniteSet(MarkedPages)
    BY <1>4, FS_Subset DEF MarkedPages
  <2>2. \A x \in MarkedPages : F[x] \in T
    <3> TAKE x \in MarkedPages
    <3>1. x \in AllPages /\ x[2] \in pmm_regions[x[1]].bitmap
      BY DEF MarkedPages
    <3> HIDE DEF F
    <3>2. x[1] # 0
      BY <1>1, <3>1, RegionFields
    <3>3. F[x] # NULL
      <4>1. pmm_regions[x[1]].base \in Nat /\ pmm_regions[x[1]].base > 0 /\ x[2] \in Nat
        BY <1>1, <3>1, RegionFields DEF Layout, Placed
      <4>2. x[2] * PageSize \in Nat
        BY <4>1, MultipleOrder
      <4> QED BY <1>2, <3>1, <4>1, <4>2 DEF NULL
    <3> QED BY <1>2, <1>5, <3>1, <3>2, <3>3 DEF PmmIsPageAllocated
  <2>3. \A f \in T : \E x \in MarkedPages : F[x] = f
    <3> TAKE f \in T
    <3> DEFINE i == FindRegion(f)
               p == PageIndex(pmm_regions[i], f)
    <3>1. f \in Frames /\ i # 0 /\ p \in pmm_regions[i].bitmap
      BY DEF PmmIsPageAllocated
    <3>2. i \in DOMAIN pmm_regions /\ p \in 0 .. pmm_regions[i].pages - 1
          /\ f = pmm_regions[i].base + p * PageSize
      BY <3>1, Position
    <3> HIDE DEF i, p
    <3>3. p \in Nat
      BY <3>2, RegionFields
    <3>4. <<i, p>> \in MarkedPages /\ <<i, p>> \in AllPages
      BY <3>1, <3>2, <3>3 DEF MarkedPages, AllPages
    <3>5. F[<<i, p>>] = f
      <4> HIDE DEF F
      <4>1. F[<<i, p>>] = pmm_regions[i].base + p * PageSize
        BY <1>2, <3>4
      <4> QED BY <3>2, <4>1
    <3> QED BY <3>4, <3>5
  <2>4. G \in Bijection(MarkedPages, T)
    <3>1. G \in [MarkedPages -> T]
      BY <2>2
    <3>2. \A x \in MarkedPages : G[x] = F[x]
      OBVIOUS
    <3>3. \A x, y \in MarkedPages : G[x] = G[y] => x = y
      <4> HIDE DEF G, F
      <4> QED BY <1>3, <2>1, <3>2 DEF Injection, IsInjective
    <3> HIDE DEF G, F, T
    <3>4. \A f \in T : \E x \in MarkedPages : G[x] = f
      BY <2>3, <3>2
    <3> QED BY <3>1, <3>3, <3>4 DEF Bijection, Injection, IsInjective, Surjection
  <2>5. ExistsBijection(MarkedPages, T)
    <3> HIDE DEF G, T
    <3> QED BY <2>4 DEF ExistsBijection
  <2> HIDE DEF T
  <2>6. Cardinality(T) = Cardinality(MarkedPages)
    BY <2>1, <2>5, FS_Bijection
  <2> QED BY <2>6 DEF T
<1> QED BY <1>4, <1>5

\* The pages of a region in a set of pages are as many as their numbers.
PagesAt(P, i, b) ==
  /\ P \subseteq AllPages /\ b \subseteq 0 .. pmm_regions[i].pages - 1
  /\ \A p \in 0 .. pmm_regions[i].pages - 1 : <<i, p>> \in P <=> p \in b

LEMMA PagesOfRegion ==
  ASSUME TypeOK, Layout, NEW i \in DOMAIN pmm_regions, NEW b, NEW P, PagesAt(P, i, b)
  PROVE  Cardinality(Keyed(P, RegionOf, {i})) = Cardinality(b)
<1>0. /\ P \subseteq AllPages /\ b \subseteq 0 .. pmm_regions[i].pages - 1
      /\ \A p \in 0 .. pmm_regions[i].pages - 1 : <<i, p>> \in P <=> p \in b
  BY DEF PagesAt
<1> DEFINE K == Keyed(P, RegionOf, {i})
           G == [p \in b |-> <<i, p>>]
<1>1. IsFiniteSet(b)
  <2>1. IsFiniteSet(0 .. pmm_regions[i].pages - 1)
    BY RegionFields, FS_Interval
  <2> QED BY <1>0, <2>1, FS_Subset
<1>2. \A p \in b : p \in Nat /\ <<i, p>> \in P
  BY <1>0, RegionFields
<1>3. \A p \in b : <<i, p>> \in K
  BY <1>0, <1>2 DEF Keyed, RegionOf
<1>4. \A x \in K : x[2] \in b /\ x = <<i, x[2]>>
  <2> TAKE x \in K
  <2>1. x \in P /\ x \in AllPages /\ RegionOf[x] = i
    BY <1>0 DEF Keyed
  <2>2. x = <<x[1], x[2]>> /\ x[1] = i /\ x[2] \in 0 .. pmm_regions[i].pages - 1
    BY <2>1 DEF AllPages, RegionOf
  <2>3. x = <<i, x[2]>>
    BY <2>2
  <2> QED BY <1>0, <2>1, <2>2, <2>3
<1>5. G \in Bijection(b, K)
  <2> HIDE DEF K
  <2>1. G \in [b -> K]
    BY <1>3
  <2>2. \A p, q \in b : G[p] = G[q] => p = q
    OBVIOUS
  <2>3. \A x \in K : \E p \in b : G[p] = x
    BY <1>4
  <2> HIDE DEF G
  <2> QED BY <2>1, <2>2, <2>3 DEF Bijection, Injection, IsInjective, Surjection
<1>6. ExistsBijection(b, K)
  <2> HIDE DEF G, K
  <2> QED BY <1>5 DEF ExistsBijection
<1> HIDE DEF K
<1>7. Cardinality(K) = Cardinality(b)
  BY <1>1, <1>6, FS_Bijection
<1> QED BY <1>7 DEF K

\* The three counts of a region.
LEMMA RegionCounts ==
  ASSUME TypeOK, Layout, NEW i \in DOMAIN pmm_regions
  PROVE  /\ RegionSizes[i] = Cardinality(Keyed(AllPages, RegionOf, {i}))
         /\ RegionTaken[i] = Cardinality(Keyed(MarkedPages, RegionOf, {i}))
         /\ RegionFree[i] = Cardinality(Keyed(FreePages, RegionOf, {i}))
<1> DEFINE n == pmm_regions[i].pages
           N == 0 .. n - 1
           b == pmm_regions[i].bitmap
<1>1. n \in Nat /\ n > 0 /\ b \subseteq N
  BY RegionFields
<1>2. IsFiniteSet(N) /\ Cardinality(N) = n
  <2> HIDE DEF n
  <2>1. IsFiniteSet(0 .. n - 1) /\ Cardinality(0 .. n - 1) = IF 0 > n - 1 THEN 0 ELSE n - 1 - 0 + 1
    BY <1>1, FS_Interval
  <2> QED BY <1>1, <2>1
<1>3. \A p \in N : p \in Nat /\ <<i, p>> \in AllPages
                   /\ (<<i, p>> \in MarkedPages <=> p \in b)
                   /\ (<<i, p>> \in FreePages <=> p \in N \ b)
  BY <1>1 DEF AllPages, MarkedPages, FreePages
<1>4. MarkedPages \subseteq AllPages /\ FreePages \subseteq AllPages /\ AllPages \subseteq AllPages
  BY DEF MarkedPages, FreePages
<1>5. Cardinality(Keyed(AllPages, RegionOf, {i})) = Cardinality(N)
  <2>1. PagesAt(AllPages, i, N)
    BY <1>3, <1>4 DEF PagesAt
  <2> QED BY <2>1, PagesOfRegion
<1>6. Cardinality(Keyed(MarkedPages, RegionOf, {i})) = Cardinality(b)
  <2>1. PagesAt(MarkedPages, i, b)
    BY <1>1, <1>3, <1>4 DEF PagesAt
  <2> QED BY <2>1, PagesOfRegion
<1>7. Cardinality(Keyed(FreePages, RegionOf, {i})) = Cardinality(N \ b)
  <2>1. PagesAt(FreePages, i, N \ b)
    BY <1>3, <1>4 DEF PagesAt
  <2> QED BY <2>1, PagesOfRegion
<1>8. Cardinality(N \ b) = n - Cardinality(b)
  <2>1. N \cap b = b
    BY <1>1
  <2> HIDE DEF N, b, n
  <2>2. Cardinality(N \ b) = Cardinality(N) - Cardinality(N \cap b)
    BY <1>2, FS_Difference
  <2> QED BY <1>2, <2>1, <2>2
<1>9. RegionSizes[i] = n /\ RegionTaken[i] = Cardinality(b) /\ RegionFree[i] = n - Cardinality(b)
  BY DEF RegionSizes, RegionTaken, RegionFree
<1> HIDE DEF n, N, b
<1>10. RegionSizes[i] = Cardinality(Keyed(AllPages, RegionOf, {i}))
  BY <1>2, <1>5, <1>9
<1>11. RegionTaken[i] = Cardinality(Keyed(MarkedPages, RegionOf, {i}))
  BY <1>6, <1>9
<1>12. RegionFree[i] = Cardinality(Keyed(FreePages, RegionOf, {i}))
  BY <1>7, <1>8, <1>9
<1> QED BY <1>10, <1>11, <1>12

\* What pmm_get_stats adds up over the regions of some zones.
LEMMA TotalsCount ==
  ASSUME TypeOK, Layout, NEW zones, pmm_initialized
  PROVE  /\ Totals(zones).total = Cardinality(Keyed(AllPages, ZoneOf, zones))
         /\ Totals(zones).allocated = Cardinality(Keyed(MarkedPages, ZoneOf, zones))
         /\ Totals(zones).free = Cardinality(Keyed(FreePages, ZoneOf, zones))
<1> DEFINE own == {i \in DOMAIN pmm_regions : pmm_initialized /\ pmm_regions[i].zone \in zones}
<1>1. IsFiniteSet(AllPages)
  BY PagesAreFrames
<1>2. /\ MarkedPages \subseteq AllPages /\ FreePages \subseteq AllPages
      /\ IsFiniteSet(MarkedPages) /\ IsFiniteSet(FreePages)
  BY <1>1, FS_Subset DEF MarkedPages, FreePages
<1>3. IsFiniteSet(own)
  <2>1. DOMAIN pmm_regions = 1 .. Len(pmm_regions) /\ Len(pmm_regions) \in Nat
    BY DEF TypeOK
  <2>2. IsFiniteSet(DOMAIN pmm_regions)
    BY <2>1, FS_Interval
  <2> QED BY <2>2, FS_Subset
<1>4. \A P : P \subseteq AllPages => Keyed(P, RegionOf, own) = Keyed(P, ZoneOf, zones)
  <2> TAKE P
  <2> HAVE P \subseteq AllPages
  <2>1. \A x \in P : x \in AllPages /\ x[1] \in DOMAIN pmm_regions
    BY DEF AllPages
  <2>2. \A x \in P : RegionOf[x] \in own <=> ZoneOf[x] \in zones
    BY <2>1 DEF RegionOf, ZoneOf
  <2> HIDE DEF own
  <2> QED BY <2>2 DEF Keyed
<1>5. \A i \in own : i \in DOMAIN pmm_regions
  OBVIOUS
<1>6. Totals(zones) = [total |-> SumOver(RegionSizes, own), allocated |-> SumOver(RegionTaken, own),
                       free |-> SumOver(RegionFree, own)]
  BY DEF Totals
<1> HIDE DEF own
<1>7. SumOver(RegionSizes, own) = Cardinality(Keyed(AllPages, RegionOf, own))
  <2>1. \A i \in own : RegionSizes[i] = Cardinality(Keyed(AllPages, RegionOf, {i}))
    BY <1>5, RegionCounts
  <2>2. Counting(RegionSizes, AllPages, RegionOf, own)
    BY <1>1, <1>3, <2>1 DEF Counting
  <2> QED BY <2>2, CountedSum
<1>8. SumOver(RegionTaken, own) = Cardinality(Keyed(MarkedPages, RegionOf, own))
  <2>1. \A i \in own : RegionTaken[i] = Cardinality(Keyed(MarkedPages, RegionOf, {i}))
    BY <1>5, RegionCounts
  <2>2. Counting(RegionTaken, MarkedPages, RegionOf, own)
    BY <1>2, <1>3, <2>1 DEF Counting
  <2> QED BY <2>2, CountedSum
<1>9. SumOver(RegionFree, own) = Cardinality(Keyed(FreePages, RegionOf, own))
  <2>1. \A i \in own : RegionFree[i] = Cardinality(Keyed(FreePages, RegionOf, {i}))
    BY <1>5, RegionCounts
  <2>2. Counting(RegionFree, FreePages, RegionOf, own)
    BY <1>2, <1>3, <2>1 DEF Counting
  <2> QED BY <2>2, CountedSum
<1>10. /\ Keyed(AllPages, RegionOf, own) = Keyed(AllPages, ZoneOf, zones)
       /\ Keyed(MarkedPages, RegionOf, own) = Keyed(MarkedPages, ZoneOf, zones)
       /\ Keyed(FreePages, RegionOf, own) = Keyed(FreePages, ZoneOf, zones)
  BY <1>2, <1>4
<1> QED BY <1>6, <1>7, <1>8, <1>9, <1>10

\* Every region is of some zone.
LEMMA ZonesAreAll ==
  ASSUME TypeOK, NEW P, P \subseteq AllPages
  PROVE  Keyed(P, ZoneOf, Zones) = P
<1>1. \A x \in P : x \in AllPages /\ x[1] \in DOMAIN pmm_regions
  BY DEF AllPages
<1>2. \A x \in P : ZoneOf[x] \in Zones
  BY <1>1, RegionFields DEF ZoneOf
<1> QED BY <1>2 DEF Keyed

LEMMA StatsCountPages == TypeOK /\ Layout => StatsAgree
<1> SUFFICES ASSUME TypeOK, Layout PROVE StatsAgree
  OBVIOUS
<1> DEFINE zones_free == [zone \in Zones |-> Totals({zone}).free]
<1>1. /\ PmmGetStats.all = Totals(Zones)
      /\ \A zone \in Zones : PmmGetStats.zones[zone] = Totals({zone})
  BY DEF PmmGetStats
<1>2. [zone \in Zones |-> PmmGetStats.zones[zone].free] = zones_free
  BY <1>1
<1>3. IsFiniteSet(Zones)
  BY PmmAssumption
<1>4. CASE pmm_initialized
  <2>1. /\ IsFiniteSet(AllPages)
        /\ Cardinality(MarkedPages) = Cardinality({f \in Frames : PmmIsPageAllocated(f)})
    BY <1>4, PagesAreFrames
  <2>2. /\ MarkedPages \subseteq AllPages /\ FreePages \subseteq AllPages
        /\ IsFiniteSet(MarkedPages) /\ IsFiniteSet(FreePages)
    BY <2>1, FS_Subset DEF MarkedPages, FreePages
  <2>3. /\ Totals(Zones).total = Cardinality(AllPages)
        /\ Totals(Zones).allocated = Cardinality(MarkedPages)
        /\ Totals(Zones).free = Cardinality(FreePages)
    BY <1>4, <2>2, TotalsCount, ZonesAreAll
  <2>4. Cardinality(AllPages) = Cardinality(MarkedPages) + Cardinality(FreePages)
    <3>1. AllPages \cap MarkedPages = MarkedPages
      BY <2>2
    <3>2. Cardinality(FreePages) = Cardinality(AllPages) - Cardinality(AllPages \cap MarkedPages)
      BY <2>1, FS_Difference DEF FreePages
    <3>3. Cardinality(AllPages) \in Nat /\ Cardinality(MarkedPages) \in Nat
      BY <2>1, <2>2, FS_CardinalityType
    <3> QED BY <3>1, <3>2, <3>3
  <2>5. SumOver(zones_free, Zones) = Cardinality(FreePages)
    <3>1. \A zone \in Zones : zones_free[zone] = Cardinality(Keyed(FreePages, ZoneOf, {zone}))
      BY <1>4, TotalsCount
    <3> HIDE DEF zones_free
    <3>2. SumOver(zones_free, Zones) = Cardinality(Keyed(FreePages, ZoneOf, Zones))
      <4>1. Counting(zones_free, FreePages, ZoneOf, Zones)
        BY <1>3, <2>2, <3>1 DEF Counting
      <4> QED BY <4>1, CountedSum
    <3> QED BY <2>2, <3>2, ZonesAreAll
  <2> HIDE DEF zones_free
  <2> QED BY <1>1, <1>2, <2>1, <2>3, <2>4, <2>5 DEF StatsAgree
<1>5. CASE ~pmm_initialized
  <2>1. \A f : SumOver(f, {}) = 0
    BY FS_EmptySet, SumOfNothing
  <2>2. \A zones : Totals(zones) = [total |-> 0, allocated |-> 0, free |-> 0]
    <3> TAKE zones
    <3>1. {i \in DOMAIN pmm_regions : pmm_initialized /\ pmm_regions[i].zone \in zones} = {}
      BY <1>5
    <3> QED BY <2>1, <3>1 DEF Totals
  <2>3. {f \in Frames : PmmIsPageAllocated(f)} = {}
    BY <1>5 DEF PmmIsPageAllocated
  <2>4. SumOver(zones_free, Zones) = 0
    <3>1. \A zone \in Zones : zones_free[zone] = 0
      BY <2>2
    <3> HIDE DEF zones_free
    <3> QED BY <1>3, <3>1, SumOfNothing
  <2>5. /\ PmmGetStats.all.allocated = 0 /\ PmmGetStats.all.total = 0 /\ PmmGetStats.all.free = 0
    BY <1>1, <2>2
  <2>6. Cardinality({f \in Frames : PmmIsPageAllocated(f)}) = 0
    BY <2>3, FS_EmptySet
  <2> HIDE DEF zones_free
  <2> QED BY <1>2, <2>4, <2>5, <2>6 DEF StatsAgree
<1> QED BY <1>4, <1>5

\* The same callers, whatever they ask for: the statistics count every page once.
THEOREM StatisticsAgree == ClientSpec => []StatsAgree
<1>1. Inv => StatsAgree
  BY StatsCountPages DEF Inv
<1> QED BY <1>1, ClientInvariant, PTL
=============================================================================
