---------------------------- MODULE KernelProofs ----------------------------
(***************************************************************************)
(* Theorems about the parts of the kernel that run by themselves: the two  *)
(* searches, paging, the process table, the power commands, the objects of *)
(* several blocks, the processor's features and the calendar, for tables,  *)
(* frames, names, tries, blocks, CPUID words and times of any number.      *)
(***************************************************************************)
EXTENDS PmmScan, VmmScan, Paging, Process, Power, Resources, Cpu, Time,
        MinLemmas, FunctionTheorems, FiniteSetTheorems

-----------------------------------------------------------------------------
(* The search of pmm_alloc_pages_zone finds the first run of clear bits in *)
(* a region of any size.  The loop keeps a window of clear bits that ends  *)
(* before page pmm_i; a run that starts before the window would contain the *)
(* set bit the window starts behind.                                       *)

\* What the loop answered: a run at the start of which nothing earlier fits, or none.
PmmAnswered ==
  pmm_done =>
    \/ \E s \in FreeRuns : pmm_result = {s} /\ \A t \in FreeRuns : s <= t
    \/ pmm_result = {} /\ FreeRuns = {}

PmmScanInv == PmmScanTypeOK /\ LoopInvariant /\ PmmAnswered

\* A run consists of clear pages of the region.
LEMMA RunIsClear ==
  ASSUME PmmScanTypeOK, NEW s \in FreeRuns, NEW p \in s .. s + count - 1
  PROVE  s \in Nat /\ s + count <= pages /\ p \notin bitmap
BY DEF PmmScanTypeOK, FreeRuns

LEMMA PmmScanInitInv == PmmScanInit => PmmScanInv
<1> SUFFICES ASSUME PmmScanInit PROVE PmmScanInv
  OBVIOUS
<1>1. pages \in Nat /\ pages > 0 /\ count \in Nat /\ count > 0
  BY PmmScanAssumption DEF PmmScanInit
<1>2. 0 \in 0 .. pages /\ 0 \in 0 .. count /\ 0 \in 0 .. pages - 1
  BY <1>1
<1>3. PmmScanTypeOK
  BY <1>2 DEF PmmScanInit, PmmScanTypeOK
<1>4. LoopInvariant
  BY <1>1 DEF PmmScanInit, LoopInvariant, FreeRuns
<1> QED BY <1>3, <1>4 DEF PmmScanInit, PmmScanInv, PmmAnswered

\* The state functions of the invariant while the loop runs, as numbers.
LEMMA PmmScanNumbers ==
  ASSUME PmmScanInv, ~pmm_done, pmm_i < pages
  PROVE  /\ pmm_i \in Nat /\ pages \in Nat /\ count \in Nat /\ consecutive \in Nat
         /\ consecutive < count /\ consecutive <= pmm_i /\ start_page \in Nat
         /\ RunStart = pmm_i - consecutive
BY DEF PmmScanInv, PmmScanTypeOK, LoopInvariant, RunStart

LEMMA PmmClearInv ==
  ASSUME PmmScanInv, ~pmm_done, pmm_i < pages, Clear, UNCHANGED <<pages, bitmap, count>>
  PROVE  PmmScanInv'
<1> USE DEF PmmScanInv
<1>0. /\ pmm_i \in Nat /\ pages \in Nat /\ count \in Nat /\ consecutive \in Nat
      /\ consecutive < count /\ consecutive <= pmm_i /\ start_page \in Nat
      /\ RunStart = pmm_i - consecutive
  BY PmmScanNumbers
<1>1. FreeRuns' = FreeRuns
  BY DEF FreeRuns
<1>2. start_page' = pmm_i - consecutive /\ consecutive' = consecutive + 1
  BY <1>0 DEF Clear
<1>3. (pmm_i - consecutive .. pmm_i) \cap bitmap = {}
  BY <1>0 DEF LoopInvariant, Clear
<1>4. \A s \in FreeRuns : s >= pmm_i - consecutive
  BY DEF LoopInvariant
<1>5. CASE consecutive + 1 = count
  <2>1. pmm_done' /\ pmm_result' = {pmm_i - consecutive} /\ pmm_i' = pmm_i
    BY <1>0, <1>5 DEF Clear
  <2>2. (pmm_i - consecutive) + count <= pages /\ pmm_i - consecutive \in 0 .. pages - 1
        /\ (pmm_i - consecutive) + count - 1 = pmm_i
    BY <1>0, <1>5
  <2>3. pmm_i - consecutive \in FreeRuns
    BY <1>3, <2>2 DEF FreeRuns
  <2>4. PmmScanTypeOK'
    BY <1>2, <1>5, <2>1, <2>2 DEF PmmScanTypeOK
  <2> QED BY <1>1, <1>4, <2>1, <2>3, <2>4 DEF LoopInvariant, PmmAnswered
<1>6. CASE consecutive + 1 # count
  <2>1. ~pmm_done' /\ pmm_done' = pmm_done /\ pmm_result' = {} /\ pmm_i' = pmm_i + 1
    BY <1>0, <1>6 DEF Clear, LoopInvariant
  <2>2. PmmScanTypeOK'
    <3>1. pmm_i' \in 0 .. pages' /\ consecutive' \in 0 .. count' /\ start_page' \in 0 .. pages' - 1
      BY <1>0, <1>2, <1>6, <2>1
    <3> QED BY <2>1, <3>1 DEF PmmScanTypeOK
  <2>3. pmm_i' - consecutive' = pmm_i - consecutive /\ pmm_i' - 1 = pmm_i
    BY <1>0, <1>2, <2>1
  <2>4. LoopInvariant'
    BY <1>0, <1>1, <1>2, <1>3, <1>4, <1>6, <2>1, <2>3 DEF LoopInvariant
  <2> QED BY <2>1, <2>2, <2>4 DEF PmmAnswered
<1> QED BY <1>5, <1>6

LEMMA PmmSetInv ==
  ASSUME PmmScanInv, ~pmm_done, pmm_i < pages, Set, UNCHANGED <<pages, bitmap, count>>
  PROVE  PmmScanInv'
<1> USE DEF PmmScanInv
<1>0. /\ pmm_i \in Nat /\ pages \in Nat /\ count \in Nat /\ consecutive \in Nat
      /\ consecutive < count /\ consecutive <= pmm_i /\ start_page \in Nat
      /\ RunStart = pmm_i - consecutive
  BY PmmScanNumbers
<1>1. FreeRuns' = FreeRuns
  BY DEF FreeRuns
<1>2. /\ ~pmm_done' /\ pmm_done' = pmm_done /\ pmm_result' = {}
      /\ pmm_i' = pmm_i + 1 /\ consecutive' = 0 /\ start_page' = start_page
  BY DEF Set, LoopInvariant
<1>3. \A s \in FreeRuns : s >= pmm_i + 1
  <2> SUFFICES ASSUME NEW s \in FreeRuns PROVE s >= pmm_i + 1
    OBVIOUS
  <2>1. s \in Nat /\ s >= pmm_i - consecutive
    BY DEF LoopInvariant, FreeRuns, PmmScanTypeOK
  <2>2. pmm_i \notin s .. s + count - 1
    BY RunIsClear DEF Set
  <2>3. s + count - 1 >= pmm_i
    BY <1>0, <2>1
  <2> QED BY <1>0, <2>1, <2>2, <2>3
<1>4. PmmScanTypeOK'
  <2>1. pmm_i' \in 0 .. pages' /\ consecutive' \in 0 .. count'
    BY <1>0, <1>2
  <2> QED BY <1>2, <2>1 DEF PmmScanTypeOK
<1>5. LoopInvariant'
  BY <1>0, <1>1, <1>2, <1>3 DEF LoopInvariant, PmmScanTypeOK
<1> QED BY <1>2, <1>4, <1>5 DEF PmmAnswered

LEMMA PmmGiveUpInv ==
  ASSUME PmmScanInv, PmmGiveUp
  PROVE  PmmScanInv'
<1> USE DEF PmmScanInv
<1>1. FreeRuns' = FreeRuns
  BY DEF FreeRuns, PmmGiveUp
<1>2. FreeRuns = {}
  <2> SUFFICES ASSUME NEW s \in FreeRuns PROVE FALSE
    OBVIOUS
  <2>1. s \in Nat /\ s + count <= pages /\ s >= pmm_i - consecutive /\ consecutive < count /\ pmm_i = pages
    BY DEF PmmScanTypeOK, PmmGiveUp, LoopInvariant, FreeRuns
  <2> QED BY <2>1 DEF PmmScanTypeOK
<1> QED BY <1>1, <1>2 DEF PmmGiveUp, PmmScanTypeOK, LoopInvariant, PmmAnswered

LEMMA PmmScanStepInv == PmmScanInv /\ [PmmScanNext]_pmm_scan_vars => PmmScanInv'
<1> SUFFICES ASSUME PmmScanInv, [PmmScanNext]_pmm_scan_vars PROVE PmmScanInv'
  OBVIOUS
<1>1. CASE PmmIterate
  BY <1>1, PmmClearInv, PmmSetInv DEF PmmIterate
<1>2. CASE PmmGiveUp
  BY <1>2, PmmGiveUpInv
<1>3. CASE UNCHANGED pmm_scan_vars
  BY <1>3 DEF pmm_scan_vars, PmmScanInv, PmmScanTypeOK, LoopInvariant, PmmAnswered, FreeRuns
<1> QED BY <1>1, <1>2, <1>3 DEF PmmScanNext

\* While the loop runs it has its window of clear pages and has passed no run.
THEOREM LoopKeepsWindow == PmmScanSpec => []LoopInvariant
<1>1. PmmScanInv => LoopInvariant
  BY DEF PmmScanInv
<1> QED BY <1>1, PmmScanInitInv, PmmScanStepInv, PTL DEF PmmScanSpec

\* The loop answers the first run of clear pages that is long enough, and none only when
\* there is none: what Pmm takes for the run it grants.
THEOREM LoopIsFirstRun == PmmScanSpec => []FirstRunFound
<1>1. PmmScanInv => FirstRunFound
  <2> SUFFICES ASSUME PmmScanInv, pmm_done PROVE pmm_result = IF FreeRuns = {} THEN {} ELSE {Min(FreeRuns)}
    BY DEF FirstRunFound
  <2>1. FreeRuns \in SUBSET Nat
    BY DEF PmmScanInv, PmmScanTypeOK, FreeRuns
  <2>2. ASSUME NEW s \in FreeRuns, pmm_result = {s}, \A t \in FreeRuns : s <= t
        PROVE  pmm_result = {Min(FreeRuns)}
    BY <2>1, <2>2, MinIs
  <2> QED BY <2>2 DEF PmmScanInv, PmmAnswered
<1> QED BY <1>1, PmmScanInitInv, PmmScanStepInv, PTL DEF PmmScanSpec

-----------------------------------------------------------------------------
(* The loop of vmm_alloc_internal finds the first fit in a table of any    *)
(* size.  The loop invariant is that every page at which the request fits  *)
(* is still ahead; each of the four ways on keeps it because the pages it  *)
(* passes are reserved, unaligned, or start a run with an obstacle in it.  *)

\* Until the loop has found a page it has answered none, and what it found is a fit.
VmmAnswered ==
  /\ vmm_done /\ vmm_result # {} => vmm_i \in Fits /\ vmm_result = {vmm_i}
  /\ vmm_done /\ vmm_result = {} => vmm_i > LastStart
  /\ ~vmm_done => vmm_result = {}

VmmScanInv == VmmScanTypeOK /\ NothingSkipped /\ VmmAnswered

LEMMA VmmScanInitInv == VmmScanInit => VmmScanInv
<1> SUFFICES ASSUME VmmScanInit PROVE VmmScanInv
  OBVIOUS
<1>1. VmmScanTypeOK
  <2>1. vmm_i \in 0 .. MaxPages
    BY VmmScanAssumption DEF VmmScanInit
  <2>2. vmm_done \in BOOLEAN /\ vmm_result \in SUBSET Pages
    BY DEF VmmScanInit
  <2> QED BY <2>1, <2>2 DEF VmmScanInit, VmmScanTypeOK
<1>2. NothingSkipped
  BY <1>1 DEF VmmScanInit, VmmScanTypeOK, NothingSkipped, Fits, Pages
<1> QED BY <1>1, <1>2 DEF VmmScanInit, VmmScanInv, VmmAnswered

\* The first page of a request that fits at s is free, and so is every other page of it.
LEMMA VmmFitIsFree ==
  ASSUME VmmScanTypeOK, NEW s \in Fits, NEW p \in Run(s)
  PROVE  state[p] = "FREE"
BY DEF Fits

\* A loop step that takes vmm_i to a page no fit lies before keeps the invariant.
LEMMA VmmAdvance ==
  ASSUME VmmScanInv, ~vmm_done, UNCHANGED <<state, pages_needed, aligned, vmm_done, vmm_result>>,
         vmm_i' \in 0 .. MaxPages, \A s \in Fits : s >= vmm_i'
  PROVE  VmmScanInv'
BY DEF VmmScanInv, VmmScanTypeOK, NothingSkipped, VmmAnswered, Fits, Run, LastStart, Pages

LEMMA VmmIterateInv ==
  ASSUME VmmScanInv, VmmIterate
  PROVE  VmmScanInv'
<1> USE VmmScanAssumption DEF VmmScanInv
<1>1. /\ ~vmm_done /\ vmm_i \in Nat /\ vmm_i <= LastStart /\ LastStart \in Int /\ LastStart < MaxPages
      /\ pages_needed \in Nat /\ pages_needed > 0 /\ vmm_i + pages_needed <= MaxPages /\ vmm_i \in Pages
  BY DEF VmmScanTypeOK, VmmIterate, LastStart, Pages
<1>2. \A s \in Fits : s \in Nat /\ s >= vmm_i /\ s \in aligned /\ s <= LastStart
  BY DEF VmmScanTypeOK, NothingSkipped, Fits, Pages
<1>3. CASE SkipReserved
  <2>1. vmm_i \notin Fits
    <3>1. vmm_i \in Run(vmm_i)
      BY <1>1 DEF Run
    <3> QED BY <1>3, <3>1, VmmFitIsFree DEF SkipReserved
  <2>2. \A s \in Fits : s >= vmm_i + 1
    BY <1>1, <1>2, <2>1
  <2> QED BY <1>1, <1>3, <2>2, VmmAdvance DEF SkipReserved, VmmIterate
<1>4. CASE SkipToAligned
  <2> DEFINE ahead == {k \in aligned : vmm_i < k /\ k <= LastStart}
  <2>1. vmm_i \notin Fits
    BY <1>4 DEF SkipToAligned, Unaligned, Fits
  <2>2. \A s \in Fits : s \in ahead
    BY <1>1, <1>2, <2>1
  <2>3. CASE ahead = {}
    <3>1. vmm_i' = vmm_i + 1
      BY <1>4, <2>3 DEF SkipToAligned
    <3> QED BY <1>1, <1>4, <2>2, <2>3, <3>1, VmmAdvance DEF SkipToAligned, VmmIterate
  <2>4. CASE ahead # {}
    <3>1. ahead \in SUBSET Nat
      <4>1. \A k \in ahead : k \in Pages
        BY DEF VmmScanTypeOK
      <4> QED BY <4>1 DEF Pages
    <3>2. Min(ahead) \in ahead /\ \A s \in ahead : Min(ahead) <= s
      BY <2>4, <3>1, MinIsLeast
    <3>3. vmm_i' = Min(ahead)
      BY <1>4, <2>4 DEF SkipToAligned
    <3>4. vmm_i' \in 0 .. MaxPages /\ \A s \in Fits : s >= vmm_i'
      <4>1. Min(ahead) \in Nat /\ Min(ahead) <= LastStart
        BY <3>1, <3>2
      <4>2. \A s \in Fits : s >= Min(ahead)
        BY <1>2, <2>2, <3>2, <4>1
      <4> QED BY <1>1, <3>3, <4>1, <4>2
    <3> QED BY <1>1, <1>4, <3>4, VmmAdvance DEF SkipToAligned, VmmIterate
  <2> QED BY <2>3, <2>4
<1>5. CASE SkipObstacle
  <2>1. Obstacles \in SUBSET Nat /\ Obstacles # {}
    BY <1>5 DEF SkipObstacle, Obstacles
  <2> DEFINE j == Min(Obstacles)
  <2>2. j \in Nat /\ j < pages_needed /\ state[vmm_i + j] # "FREE"
    <3>1. j \in Obstacles
      BY <2>1, MinIsLeast
    <3> QED BY <1>1, <3>1 DEF Obstacles
  <2>3. vmm_i' = vmm_i + j + 1
    BY <1>5 DEF SkipObstacle
  <2> HIDE DEF j
  <2>4. \A s \in Fits : s >= vmm_i + j + 1
    <3> SUFFICES ASSUME NEW s \in Fits, s < vmm_i + j + 1 PROVE FALSE
      BY <1>1, <1>2, <2>2
    <3>1. vmm_i + j \in Run(s)
      BY <1>1, <1>2, <2>2 DEF Run
    <3> QED BY <2>2, <3>1, VmmFitIsFree
  <2>5. vmm_i' \in 0 .. MaxPages
    BY <1>1, <2>2, <2>3
  <2> QED BY <1>1, <1>5, <2>3, <2>4, <2>5, VmmAdvance DEF SkipObstacle, VmmIterate
<1>6. CASE TakeRun
  <2>1. \A p \in Run(vmm_i) : state[p] = "FREE"
    <3> SUFFICES ASSUME NEW p \in Run(vmm_i) PROVE state[p] = "FREE"
      OBVIOUS
    <3>1. p - vmm_i \in 0 .. pages_needed - 1 /\ vmm_i + (p - vmm_i) = p
      BY <1>1 DEF Run
    <3> QED BY <1>6, <3>1 DEF TakeRun, Obstacles
  <2>2. vmm_i \in Fits
    BY <1>1, <1>6, <2>1 DEF TakeRun, Unaligned, Fits
  <2>3. /\ vmm_i' = vmm_i /\ vmm_result' = {vmm_i} /\ vmm_done' /\ Fits' = Fits
        /\ UNCHANGED <<state, pages_needed, aligned>>
    BY <1>6 DEF TakeRun, VmmIterate, Fits, Run, LastStart
  <2> QED BY <1>1, <2>2, <2>3 DEF VmmScanTypeOK, NothingSkipped, VmmAnswered
<1> QED BY <1>3, <1>4, <1>5, <1>6 DEF VmmIterate

LEMMA VmmScanStepInv == VmmScanInv /\ [VmmScanNext]_vmm_scan_vars => VmmScanInv'
<1> SUFFICES ASSUME VmmScanInv, [VmmScanNext]_vmm_scan_vars PROVE VmmScanInv'
  OBVIOUS
<1>1. CASE VmmIterate
  BY <1>1, VmmIterateInv
<1>2. CASE VmmGiveUp
  BY <1>2, VmmScanAssumption
  DEF VmmScanInv, VmmScanTypeOK, NothingSkipped, VmmAnswered, VmmGiveUp, Fits, Run, LastStart, Pages
<1>3. CASE UNCHANGED vmm_scan_vars
  BY <1>3 DEF vmm_scan_vars, VmmScanInv, VmmScanTypeOK, NothingSkipped, VmmAnswered, Fits, Run, LastStart, Pages
<1> QED BY <1>1, <1>2, <1>3 DEF VmmScanNext

\* No jump of the loop passes a page at which the request fits, in a table of any size.
THEOREM LoopSkipsNothing == VmmScanSpec => []NothingSkipped
<1>1. VmmScanInv => NothingSkipped
  BY DEF VmmScanInv
<1> QED BY <1>1, VmmScanInitInv, VmmScanStepInv, PTL DEF VmmScanSpec

\* The loop answers the first page at which the request fits, and none only if there is
\* none: what Vmm takes for FirstFit.
THEOREM LoopIsFirstFit == VmmScanSpec => []FirstFitFound
<1>1. VmmScanInv => FirstFitFound
  <2> SUFFICES ASSUME VmmScanInv, vmm_done PROVE vmm_result = IF Fits = {} THEN {} ELSE {Min(Fits)}
    BY DEF FirstFitFound
  <2>1. \A s \in Fits : s \in Nat /\ s >= vmm_i /\ s <= LastStart
    BY DEF VmmScanInv, VmmScanTypeOK, NothingSkipped, Fits, Pages
  <2>2. CASE vmm_result = {}
    BY <2>1, <2>2, VmmScanAssumption DEF VmmScanInv, VmmScanTypeOK, VmmAnswered, LastStart
  <2>3. CASE vmm_result # {}
    <3>1. vmm_i \in Fits /\ vmm_result = {vmm_i}
      BY <2>3 DEF VmmScanInv, VmmAnswered
    <3>2. Fits \in SUBSET Nat
      BY <2>1
    <3>3. \A s \in Fits : vmm_i <= s
      BY <2>1, <3>1
    <3>4. Min(Fits) = vmm_i
      BY <3>1, <3>2, <3>3, MinIs
    <3> QED BY <3>1, <3>4
  <2> QED BY <2>2, <2>3
<1> QED BY <1>1, VmmScanInitInv, VmmScanStepInv, PTL DEF VmmScanSpec

-----------------------------------------------------------------------------
(* Paging.  Tables are found through the directory, so what has to be kept *)
(* is that the directory and its tables are different frames, and none of  *)
(* them one that another client has or can get.                            *)

PageEntry == [present : BOOLEAN, frame : Nat, flags : PageFlags \cup {0, 2}]

PagingTypeOK ==
  /\ free_frames \subseteq PageFrames /\ borrowed \subseteq PageFrames
  /\ free_frames \cap borrowed = {}
  /\ frame_data \in [PageFrames -> [Entries -> PageEntry]]
  /\ current_page_directory \in PageFrames \cup {NoFrame}

TakenFrames == free_frames \cup borrowed
HasTable(a) == Directory[a].present
TableOf(a) == Directory[a].frame

TablesApart ==
  HasDirectory =>
    /\ current_page_directory \notin TakenFrames
    /\ \A a \in Entries : HasTable(a) =>
         /\ TableOf(a) \in PageFrames \ TakenFrames
         /\ TableOf(a) # current_page_directory
         /\ \A b \in Entries : HasTable(b) /\ TableOf(a) = TableOf(b) => a = b

NothingBefore == ~pmm_ready => free_frames = {} /\ borrowed = {} /\ ~HasDirectory

PagingInv == PagingTypeOK /\ NothingBefore /\ TablesApart /\ TranslationIsMapping

LEMMA PagingFacts ==
  /\ PageFrames \subseteq Nat /\ NoFrame \notin PageFrames /\ Physical \subseteq Nat
  /\ BlankFrame \in [Entries -> PageEntry] /\ \A e \in Entries : BlankFrame[e].present = FALSE
  /\ Absent \in PageEntry /\ Absent.present = FALSE
  /\ \A d \in DataOfClients : d \in [Entries -> PageEntry]
<1>1. PageFrames \subseteq Nat /\ NoFrame \notin PageFrames /\ Physical \subseteq Nat
  BY PagingAssumption DEF NoFrame
<1>2. Absent \in PageEntry /\ Absent.present = FALSE
  BY DEF Absent, PageEntry
<1>3. \A f \in PageFrames : [present |-> TRUE, frame |-> f, flags |-> 0] \in PageEntry
  BY <1>1 DEF PageEntry
<1>4. \A d \in DataOfClients : d \in [Entries -> PageEntry]
  BY <1>3 DEF DataOfClients
<1> QED BY <1>1, <1>2, <1>4 DEF BlankFrame

\* Every frame a step leaves alone keeps its data, so what the step says of the directory and
\* of its tables decides the translations.
LEMMA SameTranslations ==
  ASSUME PagingInv, HasDirectory, current_page_directory' = current_page_directory,
         frame_data'[current_page_directory] = frame_data[current_page_directory],
         \A a \in Entries : HasTable(a) => frame_data'[TableOf(a)] = frame_data[TableOf(a)],
         mapping' = mapping
  PROVE  TranslationIsMapping'
<1>1. Directory' = Directory /\ HasDirectory'
  BY DEF Directory, HasDirectory
<1>2. \A v \in VirtualPages : EntryOf(v)' = EntryOf(v)
  BY <1>1 DEF EntryOf, HasTable, TableOf, VirtualPages
<1> QED BY <1>2 DEF PagingInv, TranslationIsMapping, paging_get_physical

LEMMA PagingInitInv ==
  ASSUME PagingInit
  PROVE  PagingInv
<1>1. PagingTypeOK
  BY PagingFacts DEF PagingInit, PagingTypeOK
<1>2. ~HasDirectory
  BY DEF PagingInit, HasDirectory
<1>3. NothingBefore
  BY <1>2 DEF PagingInit, NothingBefore
<1> QED BY <1>1, <1>2, <1>3 DEF PagingInv, TablesApart, TranslationIsMapping

LEMMA ReadyInv ==
  ASSUME PagingInv, PmmReady
  PROVE  PagingInv'
<1>1. ~HasDirectory /\ borrowed = {} /\ ~HasDirectory'
  BY DEF PmmReady, PagingInv, NothingBefore, HasDirectory
<1>2. PagingTypeOK' /\ NothingBefore'
  BY <1>1 DEF PmmReady, PagingInv, PagingTypeOK, NothingBefore
<1> QED BY <1>1, <1>2 DEF PagingInv, TablesApart, TranslationIsMapping

LEMMA ClientFramesInv ==
  ASSUME PagingInv, ClientFrames
  PROVE  PagingInv'
<1>1. /\ free_frames \subseteq PageFrames /\ borrowed \subseteq PageFrames
      /\ free_frames \cap borrowed = {}
      /\ frame_data \in [PageFrames -> [Entries -> PageEntry]]
      /\ current_page_directory \in PageFrames \cup {NoFrame}
  BY DEF PagingInv, PagingTypeOK
<1>2. UNCHANGED <<pmm_ready, current_page_directory, paging_enabled, paging_ret, mapping>>
  BY DEF ClientFrames
<1>3. /\ free_frames' \subseteq PageFrames /\ borrowed' \subseteq PageFrames
      /\ free_frames' \cap borrowed' = {} /\ TakenFrames' = TakenFrames
      /\ frame_data' \in [PageFrames -> [Entries -> PageEntry]]
      /\ \A g \in PageFrames : g \notin TakenFrames => frame_data'[g] = frame_data[g]
  <2>1. ASSUME NEW f \in free_frames, NEW d \in DataOfClients,
               free_frames' = free_frames \ {f}, borrowed' = borrowed \cup {f},
               frame_data' = [frame_data EXCEPT ![f] = d]
        PROVE  <1>3!:
    <3>1. d \in [Entries -> PageEntry] /\ f \in PageFrames
      BY <1>1, PagingFacts
    <3> QED BY <1>1, <2>1, <3>1 DEF TakenFrames
  <2>2. ASSUME NEW f \in borrowed, free_frames' = free_frames \cup {f}, borrowed' = borrowed \ {f},
               UNCHANGED frame_data
        PROVE  <1>3!:
    BY <1>1, <2>2 DEF TakenFrames
  <2> QED BY <2>1, <2>2 DEF ClientFrames
<1>4. PagingTypeOK'
  BY <1>1, <1>2, <1>3 DEF PagingTypeOK
<1>5. NothingBefore'
  <2>1. pmm_ready \/ (free_frames = {} /\ borrowed = {})
    BY DEF PagingInv, NothingBefore
  <2>2. free_frames # {} \/ borrowed # {}
    BY DEF ClientFrames
  <2> QED BY <1>2, <2>1, <2>2 DEF NothingBefore
<1>6. CASE ~HasDirectory
  BY <1>2, <1>4, <1>5, <1>6 DEF PagingInv, TablesApart, TranslationIsMapping, HasDirectory
<1>7. CASE HasDirectory
  <2>1. current_page_directory \in PageFrames \ TakenFrames
        /\ \A a \in Entries : HasTable(a) => TableOf(a) \in PageFrames \ TakenFrames
    BY <1>1, <1>7 DEF PagingInv, TablesApart, HasDirectory
  <2>2. TranslationIsMapping'
    BY <1>2, <1>3, <1>7, <2>1, SameTranslations
  <2>3. TablesApart'
    <3>1. Directory' = Directory /\ HasDirectory'
      BY <1>2, <1>3, <1>7, <2>1 DEF Directory, HasDirectory
    <3> QED BY <1>2, <1>3, <1>7, <3>1 DEF PagingInv, TablesApart, HasTable, TableOf
  <2> QED BY <1>4, <1>5, <2>2, <2>3 DEF PagingInv
<1> QED BY <1>6, <1>7

\* A new directory is blank: it has no tables and translates nothing.
LEMMA NewDirectoryInv ==
  ASSUME PagingInv, paging_init
  PROVE  PagingInv'
<1>1. CASE UNCHANGED <<pmm_ready, free_frames, borrowed, frame_data, current_page_directory, mapping>>
  BY <1>1 DEF PagingInv, PagingTypeOK, NothingBefore, TablesApart, TranslationIsMapping, HasDirectory,
              HasTable, TableOf, TakenFrames, Directory, EntryOf, paging_get_physical
<1>2. ASSUME NEW f \in PageFrames, Allocated(f), free_frames' = free_frames \ {f},
             frame_data' = [frame_data EXCEPT ![f] = BlankFrame],
             current_page_directory' = f, mapping' = << >>, UNCHANGED <<pmm_ready, borrowed>>
      PROVE  PagingInv'
  <2>1. f \in free_frames
    BY <1>2, PagingFacts DEF Allocated
  <2>2. /\ free_frames \subseteq PageFrames /\ borrowed \subseteq PageFrames
        /\ free_frames \cap borrowed = {}
        /\ frame_data \in [PageFrames -> [Entries -> PageEntry]]
    BY DEF PagingInv, PagingTypeOK
  <2>3. PagingTypeOK'
    BY <1>2, <2>2, PagingFacts DEF PagingTypeOK
  <2>4. NothingBefore'
    BY <1>2, <2>1 DEF PagingInv, NothingBefore
  <2>5. Directory' = BlankFrame /\ f \notin TakenFrames'
    BY <1>2, <2>1, <2>2 DEF Directory, TakenFrames
  <2>6. \A a \in Entries : ~HasTable(a)'
    BY <2>5, PagingFacts DEF HasTable
  <2>7. TablesApart'
    BY <1>2, <2>5, <2>6 DEF TablesApart
  <2>8. TranslationIsMapping'
    <3>1. \A v \in VirtualPages : EntryOf(v)' = Absent
      BY <2>6 DEF EntryOf, HasTable, VirtualPages
    <3>2. DOMAIN mapping' = {}
      BY <1>2
    <3>3. \A v \in VirtualPages : EntryOf(v)'.present = FALSE /\ v \notin DOMAIN mapping'
      BY <3>1, <3>2, PagingFacts
    <3>4. VirtualPages' = VirtualPages
      BY DEF VirtualPages, Entries
    <3> QED BY <3>3, <3>4 DEF TranslationIsMapping
  <2> QED BY <2>3, <2>4, <2>7, <2>8 DEF PagingInv
<1>3. UNCHANGED <<pmm_ready, borrowed>>
  BY DEF paging_init
<1> QED BY <1>1, <1>2, <1>3 DEF paging_init

\* Mapping in a table that is there, or in a new one, changes the translation of one page.
LEMMA MapInv ==
  ASSUME PagingInv, NEW v \in VirtualPages, NEW phys \in Physical, NEW flags \in PageFlags,
         paging_map_page(v, phys, flags)
  PROVE  PagingInv'
<1> DEFINE entry == [present |-> TRUE, frame |-> phys, flags |-> flags]
           mapped == [u \in DOMAIN mapping \cup {v} |-> IF u = v THEN phys ELSE mapping[u]]
<1>1. PICK a, b : a = v[1] /\ b = v[2]
  OBVIOUS
<1>2. a \in Entries /\ b \in Entries /\ v = <<a, b>>
  BY <1>1 DEF VirtualPages
<1>3. /\ free_frames \subseteq PageFrames /\ borrowed \subseteq PageFrames
      /\ free_frames \cap borrowed = {}
      /\ frame_data \in [PageFrames -> [Entries -> PageEntry]]
  BY DEF PagingInv, PagingTypeOK
<1>4. /\ HasDirectory /\ current_page_directory \in PageFrames \ TakenFrames
      /\ \A c \in Entries : HasTable(c) =>
           /\ TableOf(c) \in PageFrames \ TakenFrames /\ TableOf(c) # current_page_directory
           /\ \A d \in Entries : HasTable(d) /\ TableOf(c) = TableOf(d) => c = d
  BY DEF paging_map_page, PagingInv, PagingTypeOK, TablesApart, HasDirectory
<1>5. UNCHANGED <<pmm_ready, borrowed, current_page_directory>> /\ HasDirectory'
  BY <1>4 DEF paging_map_page, HasDirectory
<1>6. entry \in PageEntry /\ entry.present = TRUE /\ entry.frame = phys
  BY PagingFacts DEF PageEntry
<1>7. /\ DOMAIN mapped = DOMAIN mapping \cup {v} /\ mapped[v] = phys
      /\ \A u \in DOMAIN mapping : u # v => mapped[u] = mapping[u]
  OBVIOUS
<1>8. \A u \in VirtualPages : /\ EntryOf(u).present <=> u \in DOMAIN mapping
                              /\ u \in DOMAIN mapping => paging_get_physical(u) = mapping[u]
  BY <1>4 DEF PagingInv, TranslationIsMapping
<1> HIDE DEF entry, mapped
<1>9. ASSUME HasTable(a), frame_data' = [frame_data EXCEPT ![TableOf(a)][b] = entry],
             mapping' = mapped, UNCHANGED free_frames
      PROVE  PagingInv'
  <2>1. PICK t : t = TableOf(a)
    OBVIOUS
  <2>2. t \in PageFrames \ TakenFrames /\ t # current_page_directory
    BY <1>2, <1>4, <1>9, <2>1
  <2>3. /\ frame_data' \in [PageFrames -> [Entries -> PageEntry]]
        /\ \A g \in PageFrames : g # t => frame_data'[g] = frame_data[g]
        /\ \A e \in Entries : frame_data'[t][e] = IF e = b THEN entry ELSE frame_data[t][e]
    BY <1>2, <1>3, <1>6, <1>9, <2>1, <2>2
  <2>4. Directory' = Directory /\ TakenFrames' = TakenFrames
    BY <1>4, <1>5, <1>9, <2>2, <2>3 DEF Directory, TakenFrames
  <2>5. \A c \in Entries : (HasTable(c)' <=> HasTable(c)) /\ TableOf(c)' = TableOf(c)
    BY <2>4 DEF HasTable, TableOf
  <2>6. PagingTypeOK' /\ NothingBefore'
    BY <1>5, <1>9, <2>3 DEF PagingInv, PagingTypeOK, NothingBefore, HasDirectory
  <2>7. TablesApart'
    BY <1>4, <1>5, <2>4, <2>5 DEF TablesApart
  <2>8. \A u \in VirtualPages : EntryOf(u)' = IF u = v THEN entry ELSE EntryOf(u)
    <3> TAKE u \in VirtualPages
    <3>1. PICK c, d : c = u[1] /\ d = u[2]
      OBVIOUS
    <3>2. c \in Entries /\ d \in Entries /\ u = <<c, d>>
      BY <3>1 DEF VirtualPages
    <3>3. EntryOf(u) = IF HasTable(c) THEN frame_data[TableOf(c)][d] ELSE Absent
      BY <3>1 DEF EntryOf, HasTable, TableOf
    <3>4. EntryOf(u)' = IF HasTable(c) THEN frame_data'[TableOf(c)][d] ELSE Absent
      BY <2>4, <3>1 DEF EntryOf, HasTable, TableOf
    <3>5. CASE c = a
      BY <1>2, <1>9, <2>1, <2>3, <3>2, <3>3, <3>4, <3>5
    <3>6. CASE c # a
      <4>1. HasTable(c) => TableOf(c) \in PageFrames /\ TableOf(c) # t
        BY <1>2, <1>4, <1>9, <2>1, <3>2, <3>6
      <4> QED BY <1>2, <2>3, <3>2, <3>3, <3>4, <3>6, <4>1
    <3> QED BY <3>5, <3>6
  <2>9. TranslationIsMapping'
    BY <1>6, <1>7, <1>8, <1>9, <2>8 DEF TranslationIsMapping, paging_get_physical, VirtualPages
  <2> QED BY <2>6, <2>7, <2>9 DEF PagingInv
<1>10. ASSUME ~HasTable(a), NEW f \in free_frames, NEW w, w = [NewTable(f) EXCEPT ![b] = entry],
              NEW g, g = [present |-> TRUE, frame |-> f, flags |-> 2],
              frame_data' = [frame_data EXCEPT ![f] = w, ![current_page_directory][a] = g],
              free_frames' = free_frames \ {f}, mapping' = mapped
       PROVE  PagingInv'
  <2>1. f \in PageFrames /\ f \in TakenFrames /\ f # current_page_directory
    BY <1>3, <1>4, <1>10 DEF TakenFrames
  <2>2. g \in PageEntry /\ g.present = TRUE /\ g.frame = f
    BY <1>10, <2>1, PagingFacts DEF PageEntry
  <2>3. w \in [Entries -> PageEntry]
        /\ \A e \in Entries : w[e] = IF e = b THEN entry ELSE BlankFrame[e]
    BY <1>2, <1>6, <1>10, PagingFacts DEF NewTable
  <2>4. /\ frame_data' \in [PageFrames -> [Entries -> PageEntry]]
        /\ frame_data'[f] = w
        /\ \A h \in PageFrames : h # f /\ h # current_page_directory => frame_data'[h] = frame_data[h]
        /\ \A e \in Entries : frame_data'[current_page_directory][e] =
                                IF e = a THEN g ELSE frame_data[current_page_directory][e]
    BY <1>2, <1>3, <1>4, <1>10, <2>1, <2>2, <2>3
  <2>5. \A e \in Entries : Directory'[e] = IF e = a THEN g ELSE Directory[e]
    BY <1>5, <2>4 DEF Directory
  <2>6. \A c \in Entries : /\ HasTable(c)' <=> (c = a \/ HasTable(c))
                           /\ TableOf(c)' = IF c = a THEN f ELSE TableOf(c)
    BY <1>10, <2>2, <2>5 DEF HasTable, TableOf
  <2>7. TakenFrames' = TakenFrames \ {f}
    BY <1>3, <1>5, <1>10 DEF TakenFrames
  <2>8. PagingTypeOK' /\ NothingBefore'
    BY <1>3, <1>5, <1>10, <2>4 DEF PagingInv, PagingTypeOK, NothingBefore, HasDirectory
  <2>9. TablesApart'
    BY <1>4, <1>5, <2>1, <2>6, <2>7 DEF TablesApart
  <2>10. \A u \in VirtualPages :
           EntryOf(u)' = IF u = v THEN entry ELSE IF u[1] = a THEN Absent ELSE EntryOf(u)
    <3> TAKE u \in VirtualPages
    <3>1. PICK c, d : c = u[1] /\ d = u[2]
      OBVIOUS
    <3>2. c \in Entries /\ d \in Entries /\ u = <<c, d>>
      BY <3>1 DEF VirtualPages
    <3>3. EntryOf(u) = IF HasTable(c) THEN frame_data[TableOf(c)][d] ELSE Absent
      BY <3>1 DEF EntryOf, HasTable, TableOf
    <3>4. EntryOf(u)' = IF HasTable(c)' THEN frame_data'[TableOf(c)'][d] ELSE Absent
      BY <3>1 DEF EntryOf, HasTable, TableOf
    <3>5. CASE c = a
      <4>1. EntryOf(u)' = w[d]
        BY <2>4, <2>6, <3>2, <3>4, <3>5
      <4>2. BlankFrame[d] = Absent
        BY <3>2 DEF BlankFrame
      <4> QED BY <1>2, <2>3, <3>1, <3>2, <3>5, <4>1, <4>2
    <3>6. CASE c # a
      <4>1. HasTable(c) => TableOf(c) \in PageFrames /\ TableOf(c) # f
                           /\ TableOf(c) # current_page_directory
        BY <1>4, <2>1, <3>2
      <4> QED BY <1>1, <2>4, <2>6, <3>1, <3>2, <3>3, <3>4, <3>6, <4>1
    <3> QED BY <3>5, <3>6
  <2>11. \A u \in VirtualPages : u[1] = a => u \notin DOMAIN mapping
    <3> TAKE u \in VirtualPages
    <3>1. u[1] = a => EntryOf(u) = Absent
      BY <1>10 DEF EntryOf, HasTable
    <3> QED BY <1>8, <3>1, PagingFacts
  <2>12. TranslationIsMapping'
    BY <1>1, <1>6, <1>7, <1>8, <1>10, <2>10, <2>11, PagingFacts
       DEF TranslationIsMapping, paging_get_physical, VirtualPages
  <2> QED BY <2>8, <2>9, <2>12 DEF PagingInv
<1>11. ASSUME UNCHANGED <<free_frames, frame_data, mapping>> PROVE PagingInv'
  BY <1>5, <1>11 DEF PagingInv, PagingTypeOK, NothingBefore, TablesApart, TranslationIsMapping,
       HasDirectory, HasTable, TableOf, TakenFrames, Directory, EntryOf, paging_get_physical
<1>12. \/ HasTable(a) /\ frame_data' = [frame_data EXCEPT ![TableOf(a)][b] = entry]
          /\ mapping' = mapped /\ UNCHANGED free_frames
       \/ UNCHANGED <<free_frames, frame_data, mapping>>
       \/ /\ ~HasTable(a)
          /\ \E f \in PageFrames \cup {NoFrame} :
               /\ Allocated(f) /\ f # NoFrame
               /\ free_frames' = free_frames \ {f} /\ mapping' = mapped
               /\ frame_data' =
                    [frame_data EXCEPT
                       ![f] = [NewTable(f) EXCEPT ![b] = entry],
                       ![current_page_directory][a] = [present |-> TRUE, frame |-> f, flags |-> 2]]
  BY <1>1 DEF paging_map_page, HasTable, TableOf, entry, mapped
<1>13. \A f \in PageFrames \cup {NoFrame} : Allocated(f) /\ f # NoFrame => f \in free_frames
  BY DEF Allocated
<1> QED BY <1>9, <1>10, <1>11, <1>12, <1>13

LEMMA UnmapInv ==
  ASSUME PagingInv, NEW v \in VirtualPages, paging_unmap_page(v)
  PROVE  PagingInv'
<1>1. PICK a, b : a = v[1] /\ b = v[2]
  OBVIOUS
<1>2. a \in Entries /\ b \in Entries /\ v = <<a, b>>
  BY <1>1 DEF VirtualPages
<1>3. frame_data \in [PageFrames -> [Entries -> PageEntry]]
  BY DEF PagingInv, PagingTypeOK
<1>4. /\ HasDirectory /\ current_page_directory \in PageFrames
      /\ \A c \in Entries : HasTable(c) =>
           /\ TableOf(c) \in PageFrames /\ TableOf(c) # current_page_directory
           /\ \A d \in Entries : HasTable(d) /\ TableOf(c) = TableOf(d) => c = d
  BY DEF paging_unmap_page, PagingInv, PagingTypeOK, TablesApart, HasDirectory
<1>5. UNCHANGED <<pmm_ready, free_frames, borrowed, current_page_directory>> /\ HasDirectory'
  BY <1>4 DEF paging_unmap_page, HasDirectory
<1>6. CASE UNCHANGED <<frame_data, mapping>>
  BY <1>5, <1>6 DEF PagingInv, PagingTypeOK, NothingBefore, TablesApart, TranslationIsMapping,
       HasDirectory, HasTable, TableOf, TakenFrames, Directory, EntryOf, paging_get_physical
<1>7. ASSUME EntryOf(v).present, frame_data' = [frame_data EXCEPT ![TableOf(a)][b] = Absent],
             mapping' = [u \in DOMAIN mapping \ {v} |-> mapping[u]]
      PROVE  PagingInv'
  <2>1. PICK t : t = TableOf(a)
    OBVIOUS
  <2>2. HasTable(a)
    BY <1>1, <1>7, PagingFacts DEF EntryOf, HasTable
  <2>3. t \in PageFrames /\ t # current_page_directory
    BY <1>2, <1>4, <2>1, <2>2
  <2>4. /\ frame_data' \in [PageFrames -> [Entries -> PageEntry]]
        /\ \A g \in PageFrames : g # t => frame_data'[g] = frame_data[g]
        /\ \A e \in Entries : frame_data'[t][e] = IF e = b THEN Absent ELSE frame_data[t][e]
    BY <1>2, <1>3, <1>7, <2>1, <2>3, PagingFacts
  <2>5. Directory' = Directory /\ TakenFrames' = TakenFrames
    BY <1>4, <1>5, <2>3, <2>4 DEF Directory, TakenFrames
  <2>6. \A c \in Entries : (HasTable(c)' <=> HasTable(c)) /\ TableOf(c)' = TableOf(c)
    BY <2>5 DEF HasTable, TableOf
  <2>7. PagingTypeOK' /\ NothingBefore'
    BY <1>5, <2>4 DEF PagingInv, PagingTypeOK, NothingBefore, HasDirectory
  <2>8. TablesApart'
    BY <1>5, <2>5, <2>6 DEF PagingInv, TablesApart, HasDirectory
  <2>9. \A u \in VirtualPages : EntryOf(u)' = IF u = v THEN Absent ELSE EntryOf(u)
    <3> TAKE u \in VirtualPages
    <3>1. PICK c, d : c = u[1] /\ d = u[2]
      OBVIOUS
    <3>2. c \in Entries /\ d \in Entries /\ u = <<c, d>>
      BY <3>1 DEF VirtualPages
    <3>3. EntryOf(u) = IF HasTable(c) THEN frame_data[TableOf(c)][d] ELSE Absent
      BY <3>1 DEF EntryOf, HasTable, TableOf
    <3>4. EntryOf(u)' = IF HasTable(c) THEN frame_data'[TableOf(c)][d] ELSE Absent
      BY <2>5, <3>1 DEF EntryOf, HasTable, TableOf
    <3>5. CASE c = a
      BY <1>2, <2>1, <2>2, <2>4, <3>2, <3>3, <3>4, <3>5
    <3>6. CASE c # a
      <4>1. HasTable(c) => TableOf(c) \in PageFrames /\ TableOf(c) # t
        BY <1>2, <1>4, <2>1, <2>2, <3>2, <3>6
      <4> QED BY <1>2, <2>4, <3>2, <3>3, <3>4, <3>6, <4>1
    <3> QED BY <3>5, <3>6
  <2>10. \A u \in VirtualPages : /\ EntryOf(u).present <=> u \in DOMAIN mapping
                                 /\ u \in DOMAIN mapping => paging_get_physical(u) = mapping[u]
    BY <1>4 DEF PagingInv, TranslationIsMapping
  <2>11. /\ DOMAIN mapping' = DOMAIN mapping \ {v}
         /\ \A u \in DOMAIN mapping' : mapping'[u] = mapping[u]
    BY <1>7
  <2>12. TranslationIsMapping'
    BY <2>9, <2>10, <2>11, PagingFacts DEF TranslationIsMapping, paging_get_physical, VirtualPages
  <2> QED BY <2>7, <2>8, <2>12 DEF PagingInv
<1> QED BY <1>1, <1>6, <1>7 DEF paging_unmap_page, TableOf

LEMMA PagingStepInv ==
  ASSUME PagingInv, [PagingNext]_paging_vars
  PROVE  PagingInv'
<1>1. CASE PmmReady
  BY <1>1, ReadyInv
<1>2. CASE ClientFrames
  BY <1>2, ClientFramesInv
<1>3. CASE paging_init
  BY <1>3, NewDirectoryInv
<1>4. ASSUME NEW v \in VirtualPages, NEW phys \in Physical, NEW flags \in PageFlags,
             paging_map_page(v, phys, flags)
      PROVE  PagingInv'
  BY <1>4, MapInv
<1>5. ASSUME NEW v \in VirtualPages, paging_unmap_page(v)
      PROVE  PagingInv'
  BY <1>5, UnmapInv
<1>6. CASE UNCHANGED paging_vars
  BY <1>6 DEF PagingInv, PagingTypeOK, NothingBefore, TablesApart, TranslationIsMapping, HasDirectory,
              HasTable, TableOf, TakenFrames, Directory, EntryOf, paging_get_physical, paging_vars
<1> QED BY <1>1, <1>2, <1>3, <1>4, <1>5, <1>6 DEF PagingNext

\* Whatever frames there are, whoever else takes and fills them and whichever
\* allocation is refused, an address translates to what it was last mapped to
\* and an unmapped one to nothing (paging_init, paging_map_page,
\* paging_unmap_page and paging_get_physical of paging.c).
THEOREM TranslationsHold == PagingSpec => []TranslationIsMapping
<1>1. PagingInit => PagingInv
  BY PagingInitInv
<1>2. PagingInv /\ [PagingNext]_paging_vars => PagingInv'
  BY PagingStepInv
<1>3. PagingInv => TranslationIsMapping
  BY DEF PagingInv
<1> QED BY <1>1, <1>2, <1>3, PTL DEF PagingSpec

-----------------------------------------------------------------------------
(* Process.  The used slots and the processes that live are two views of   *)
(* the same set, by their process numbers.                                 *)

SlotType ==
  [used : BOOLEAN, pid : Nat, name : {Stored(n) : n \in ProcessNames} \cup {<<>>},
   state : {"unused", "running", "zombie"}, ppid : Parents]
LivingType == [pid : Nat, name : ProcessNames, zombie : BOOLEAN]

ProcessTypeOK ==
  /\ process_table \in [ProcessSlots -> SlotType] /\ living \subseteq LivingType
  /\ next_pid \in Nat \ {0}

UsedSlots == {i \in ProcessSlots : process_table[i].used}
StateOf(p) == IF p.zombie THEN "zombie" ELSE "running"

\* The slot of a process, and the process of a slot.
SlotHolds(i, p) ==
  /\ process_table[i].pid = p.pid /\ process_table[i].name = Stored(p.name)
  /\ process_table[i].state = StateOf(p)

NumbersDiffer ==
  /\ \A i \in UsedSlots : process_table[i].pid < next_pid
  /\ \A p \in living : p.pid < next_pid
  /\ \A i, j \in UsedSlots : process_table[i].pid = process_table[j].pid => i = j
  /\ \A p, q \in living : p.pid = q.pid => p = q

SlotsFit ==
  /\ \A p \in living : \E i \in UsedSlots : SlotHolds(i, p)
  /\ \A i \in UsedSlots : \E p \in living : SlotHolds(i, p)

ProcessInv == ProcessTypeOK /\ NumbersDiffer /\ SlotsFit

LEMMA LeastSlotIsIn ==
  ASSUME NEW S \in SUBSET ProcessSlots, S # {}
  PROVE  LeastSlot(S) \in S
<1>1. S \subseteq Nat
  BY ProcessAssumption DEF ProcessSlots
<1>2. PICK n \in S : \A m \in S : n <= m
  BY <1>1, LeastNumber
<1> QED BY <1>2 DEF LeastSlot

LEMMA ProcessInitInv ==
  ASSUME ProcessInit
  PROVE  ProcessInv
<1>1. Unused \in SlotType /\ Unused.used = FALSE
  BY DEF Unused, SlotType, Parents
<1>2. UsedSlots = {} /\ living = {}
  BY <1>1 DEF ProcessInit, UsedSlots
<1>3. ProcessTypeOK
  BY <1>1, <1>2 DEF ProcessInit, ProcessTypeOK, FirstPid
<1> QED BY <1>2, <1>3 DEF ProcessInv, NumbersDiffer, SlotsFit

LEMMA ClearedInv ==
  ASSUME ProcessInv, process_init
  PROVE  ProcessInv'
<1>1. \A i \in ProcessSlots :
        /\ [process_table[i] EXCEPT !.used = FALSE, !.state = "unused"] \in SlotType
        /\ [process_table[i] EXCEPT !.used = FALSE, !.state = "unused"].used = FALSE
  BY DEF ProcessInv, ProcessTypeOK, SlotType
<1>2. process_table' \in [ProcessSlots -> SlotType]
      /\ \A i \in ProcessSlots : process_table'[i].used = FALSE
  BY <1>1 DEF process_init
<1>3. UsedSlots' = {} /\ living' = {} /\ next_pid' = next_pid
  BY <1>2 DEF UsedSlots, process_init, ProcessSlots
<1> QED BY <1>2, <1>3 DEF ProcessInv, ProcessTypeOK, NumbersDiffer, SlotsFit

LEMMA CreateInv ==
  ASSUME ProcessInv, NEW name \in ProcessNames, NEW ppid \in Parents, process_create(name, ppid)
  PROVE  ProcessInv'
<1>1. CASE FreeSlots = {}
  BY <1>1 DEF process_create, ProcessInv, ProcessTypeOK, NumbersDiffer, SlotsFit, UsedSlots, SlotHolds
<1>2. CASE FreeSlots # {}
  <2>0. PICK new, born :
          /\ new = [used |-> TRUE, pid |-> next_pid, name |-> Stored(name), state |-> "running",
                    ppid |-> ppid]
          /\ born = [pid |-> next_pid, name |-> name, zombie |-> FALSE]
    OBVIOUS
  <2>1. PICK s \in FreeSlots : s = LeastSlot(FreeSlots)
    BY <1>2, LeastSlotIsIn DEF FreeSlots
  <2>2. /\ process_table' = [process_table EXCEPT ![s] = new]
        /\ next_pid' = next_pid + 1 /\ living' = living \cup {born}
    BY <1>2, <2>0, <2>1 DEF process_create
  <2>3. /\ process_table \in [ProcessSlots -> SlotType] /\ living \subseteq LivingType
        /\ next_pid \in Nat \ {0} /\ s \in ProcessSlots /\ ~process_table[s].used
    BY <2>1 DEF ProcessInv, ProcessTypeOK, FreeSlots
  <2>4. /\ new \in SlotType /\ new.used = TRUE /\ new.pid = next_pid /\ new.name = Stored(name)
        /\ new.state = "running"
    BY <2>0, <2>3 DEF SlotType
  <2>5. born \in LivingType /\ born.pid = next_pid /\ born.name = name /\ born.zombie = FALSE
    BY <2>0, <2>3 DEF LivingType
  <2>6. \A i \in ProcessSlots : process_table'[i] = IF i = s THEN new ELSE process_table[i]
    BY <2>2, <2>3
  <2>7. UsedSlots' = UsedSlots \cup {s} /\ s \notin UsedSlots /\ UsedSlots \subseteq ProcessSlots
    BY <2>3, <2>4, <2>6 DEF UsedSlots, ProcessSlots
  <2>8. ProcessTypeOK'
    BY <2>2, <2>3, <2>4, <2>5 DEF ProcessTypeOK
  <2>9. /\ \A i \in UsedSlots : process_table[i].pid \in Nat /\ process_table[i].pid < next_pid
        /\ \A p \in living : p.pid \in Nat /\ p.pid < next_pid
    BY <2>3, <2>7 DEF ProcessInv, NumbersDiffer, SlotType, LivingType
  <2>10. NumbersDiffer'
    <3>1. \A i \in UsedSlots' : process_table'[i].pid < next_pid'
      BY <2>2, <2>3, <2>4, <2>6, <2>7, <2>9
    <3>2. \A p \in living' : p.pid < next_pid'
      BY <2>2, <2>3, <2>5, <2>9
    <3>3. \A i, j \in UsedSlots' : process_table'[i].pid = process_table'[j].pid => i = j
      BY <2>3, <2>4, <2>6, <2>7, <2>9 DEF ProcessInv, NumbersDiffer
    <3>4. \A p, q \in living' : p.pid = q.pid => p = q
      BY <2>2, <2>3, <2>5, <2>9 DEF ProcessInv, NumbersDiffer
    <3> QED BY <3>1, <3>2, <3>3, <3>4 DEF NumbersDiffer
  <2>11. \A i \in UsedSlots, p \in living : SlotHolds(i, p) => SlotHolds(i, p)'
    BY <2>6, <2>7 DEF SlotHolds, StateOf
  <2>12. SlotHolds(s, born)'
    BY <2>3, <2>4, <2>5, <2>6 DEF SlotHolds, StateOf
  <2>13. SlotsFit'
    <3>1. \A p \in living' : \E i \in UsedSlots' : SlotHolds(i, p)'
      BY <2>2, <2>7, <2>11, <2>12 DEF ProcessInv, SlotsFit
    <3>2. \A i \in UsedSlots' : \E p \in living' : SlotHolds(i, p)'
      BY <2>2, <2>7, <2>11, <2>12 DEF ProcessInv, SlotsFit
    <3> QED BY <3>1, <3>2 DEF SlotsFit
  <2> QED BY <2>8, <2>10, <2>13 DEF ProcessInv
<1> QED BY <1>1, <1>2

LEMMA KillInv ==
  ASSUME ProcessInv, NEW pid \in Nat, process_kill(pid)
  PROVE  ProcessInv'
<1>1. CASE SlotsOf(pid) = {}
  BY <1>1 DEF process_kill, ProcessInv, ProcessTypeOK, NumbersDiffer, SlotsFit, UsedSlots, SlotHolds
<1>2. CASE SlotsOf(pid) # {}
  <2> DEFINE Killed(p) == [p EXCEPT !.zombie = @ \/ p.pid = pid]
  <2>1. PICK s \in SlotsOf(pid) : s = LeastSlot(SlotsOf(pid))
    BY <1>2, LeastSlotIsIn DEF SlotsOf
  <2>2. /\ process_table' = [process_table EXCEPT ![s].state = "zombie"]
        /\ next_pid' = next_pid /\ living' = {Killed(p) : p \in living}
    BY <1>2, <2>1 DEF process_kill
  <2>3. /\ process_table \in [ProcessSlots -> SlotType] /\ living \subseteq LivingType
        /\ next_pid \in Nat \ {0} /\ s \in ProcessSlots /\ s \in UsedSlots
        /\ process_table[s].pid = pid /\ UsedSlots \subseteq ProcessSlots
    BY <2>1 DEF ProcessInv, ProcessTypeOK, SlotsOf, UsedSlots
  <2>4. \A p \in LivingType : /\ Killed(p).pid = p.pid /\ Killed(p).name = p.name
                              /\ p.pid = pid => Killed(p).zombie = TRUE
                              /\ p.pid # pid => Killed(p).zombie = p.zombie
    BY DEF LivingType
  <2>5. \A p \in LivingType : Killed(p) \in LivingType
    BY DEF LivingType
  <2> HIDE DEF Killed
  <2>6. /\ process_table' \in [ProcessSlots -> SlotType]
        /\ \A i \in ProcessSlots :
             /\ process_table'[i].used = process_table[i].used
             /\ process_table'[i].pid = process_table[i].pid
             /\ process_table'[i].name = process_table[i].name
             /\ i # s => process_table'[i].state = process_table[i].state
        /\ process_table'[s].state = "zombie"
    BY <2>2, <2>3 DEF SlotType
  <2>7. UsedSlots' = UsedSlots
    BY <2>6 DEF UsedSlots, ProcessSlots
  <2>8. ProcessTypeOK'
    BY <2>2, <2>3, <2>5, <2>6 DEF ProcessTypeOK
  <2>9. NumbersDiffer'
    <3>1. \A p \in living' : \E q \in living : p = Killed(q) /\ p.pid = q.pid
      BY <2>2, <2>3, <2>4
    <3>2. \A p, q \in living' : p.pid = q.pid => p = q
      BY <3>1 DEF ProcessInv, NumbersDiffer
    <3> QED BY <2>2, <2>3, <2>6, <2>7, <3>1, <3>2 DEF ProcessInv, NumbersDiffer
  <2>10. \A i \in UsedSlots, p \in living : SlotHolds(i, p) => SlotHolds(i, Killed(p))'
    <3> TAKE i \in UsedSlots, p \in living
    <3>1. p \in LivingType /\ i \in ProcessSlots
      BY <2>3
    <3>2. CASE i = s /\ SlotHolds(i, p)
      <4>1. p.pid = pid
        BY <2>3, <3>2 DEF SlotHolds
      <4> QED BY <2>4, <2>6, <3>1, <3>2, <4>1 DEF SlotHolds, StateOf
    <3>3. CASE i # s /\ SlotHolds(i, p)
      <4>1. p.pid # pid
        BY <2>3, <3>3 DEF ProcessInv, NumbersDiffer, SlotHolds
      <4> QED BY <2>4, <2>6, <3>1, <3>3, <4>1 DEF SlotHolds, StateOf
    <3> QED BY <3>2, <3>3
  <2>11. SlotsFit'
    <3>1. \A p \in living' : \E i \in UsedSlots' : SlotHolds(i, p)'
      BY <2>2, <2>7, <2>10 DEF ProcessInv, SlotsFit
    <3>2. \A i \in UsedSlots' : \E p \in living' : SlotHolds(i, p)'
      BY <2>2, <2>7, <2>10 DEF ProcessInv, SlotsFit
    <3> QED BY <3>1, <3>2 DEF SlotsFit
  <2> QED BY <2>8, <2>9, <2>11 DEF ProcessInv
<1> QED BY <1>1, <1>2

LEMMA CleanupInv ==
  ASSUME ProcessInv, NEW pid \in Nat, process_cleanup(pid)
  PROVE  ProcessInv'
<1>1. CASE Zombies(pid) = {}
  BY <1>1 DEF process_cleanup, ProcessInv, ProcessTypeOK, NumbersDiffer, SlotsFit, UsedSlots, SlotHolds
<1>2. CASE Zombies(pid) # {}
  <2>1. PICK s \in Zombies(pid) : s = LeastSlot(Zombies(pid))
    BY <1>2, LeastSlotIsIn DEF Zombies, SlotsOf
  <2>2. /\ process_table' = [process_table EXCEPT ![s] = Unused]
        /\ next_pid' = next_pid /\ living' = {p \in living : ~(p.pid = pid /\ p.zombie)}
    BY <1>2, <2>1 DEF process_cleanup
  <2>3. /\ process_table \in [ProcessSlots -> SlotType] /\ living \subseteq LivingType
        /\ next_pid \in Nat \ {0} /\ s \in ProcessSlots /\ s \in UsedSlots
        /\ process_table[s].pid = pid /\ process_table[s].state = "zombie"
        /\ UsedSlots \subseteq ProcessSlots
    BY <2>1 DEF ProcessInv, ProcessTypeOK, Zombies, SlotsOf, UsedSlots
  <2>4. Unused \in SlotType /\ Unused.used = FALSE
    BY DEF Unused, SlotType, Parents
  <2>5. \A i \in ProcessSlots : process_table'[i] = IF i = s THEN Unused ELSE process_table[i]
    BY <2>2, <2>3
  <2>6. UsedSlots' = UsedSlots \ {s}
    BY <2>3, <2>4, <2>5 DEF UsedSlots, ProcessSlots
  <2>7. ProcessTypeOK'
    BY <2>2, <2>3, <2>4 DEF ProcessTypeOK
  <2>8. NumbersDiffer'
    BY <2>2, <2>3, <2>5, <2>6 DEF ProcessInv, NumbersDiffer
  <2>9. \A p \in living : p.pid = pid => p.zombie
    <3>1. SUFFICES ASSUME NEW p \in living, p.pid = pid PROVE p.zombie
      OBVIOUS
    <3>2. PICK i \in UsedSlots : SlotHolds(i, p)
      BY DEF ProcessInv, SlotsFit
    <3>3. i = s
      BY <2>3, <3>1, <3>2 DEF ProcessInv, NumbersDiffer, SlotHolds
    <3> QED BY <2>3, <3>2, <3>3 DEF SlotHolds, StateOf
  <2>10. living' = {p \in living : p.pid # pid}
    BY <2>2, <2>9
  <2>11. \A i \in UsedSlots', p \in living : SlotHolds(i, p)' <=> SlotHolds(i, p)
    BY <2>3, <2>5, <2>6 DEF SlotHolds, StateOf
  <2>12. SlotsFit'
    <3>1. \A p \in living' : \E i \in UsedSlots' : SlotHolds(i, p)'
      <4> TAKE p \in living'
      <4>1. PICK i \in UsedSlots : SlotHolds(i, p)
        BY <2>10 DEF ProcessInv, SlotsFit
      <4>2. i # s
        BY <2>3, <2>10, <4>1 DEF SlotHolds
      <4> QED BY <2>6, <2>10, <2>11, <4>1, <4>2
    <3>2. \A i \in UsedSlots' : \E p \in living' : SlotHolds(i, p)'
      <4> TAKE i \in UsedSlots'
      <4>1. PICK p \in living : SlotHolds(i, p)
        BY <2>6 DEF ProcessInv, SlotsFit
      <4>2. p.pid # pid
        BY <2>3, <2>6, <4>1 DEF ProcessInv, NumbersDiffer, SlotHolds
      <4> QED BY <2>10, <2>11, <4>1, <4>2
    <3> QED BY <3>1, <3>2 DEF SlotsFit
  <2> QED BY <2>7, <2>8, <2>12 DEF ProcessInv
<1> QED BY <1>1, <1>2

LEMMA ProcessStepInv ==
  ASSUME ProcessInv, [ProcessNext]_process_vars
  PROVE  ProcessInv'
<1>1. CASE process_init
  BY <1>1, ClearedInv
<1>2. ASSUME NEW name \in ProcessNames, NEW ppid \in Parents, process_create(name, ppid)
      PROVE  ProcessInv'
  BY <1>2, CreateInv
<1>3. ASSUME NEW pid \in FirstPid .. NextPidLimit, process_kill(pid) \/ process_cleanup(pid)
      PROVE  ProcessInv'
  <2>1. pid \in Nat
    BY DEF FirstPid
  <2> QED BY <1>3, <2>1, KillInv, CleanupInv
<1>4. CASE UNCHANGED process_vars
  BY <1>4 DEF ProcessInv, ProcessTypeOK, NumbersDiffer, SlotsFit, UsedSlots, SlotHolds, process_vars
<1> QED BY <1>1, <1>2, <1>3, <1>4 DEF ProcessNext

LEMMA KeptByInv ==
  ASSUME ProcessInv
  PROVE  ProcessesAreKept
<1> DEFINE PidOf(i) == process_table[i].pid
<1>1. UsedSlots \subseteq ProcessSlots /\ IsFiniteSet(UsedSlots)
  <2>1. IsFiniteSet(ProcessSlots)
    BY ProcessAssumption, FS_Interval DEF ProcessSlots
  <2> QED BY <2>1, FS_Subset DEF UsedSlots
<1>2. Cardinality(UsedSlots) = Cardinality(living)
  <2> DEFINE f == [i \in UsedSlots |-> CHOOSE p \in living : SlotHolds(i, p)]
  <2>1. \A i \in UsedSlots : f[i] \in living /\ SlotHolds(i, f[i])
    BY DEF ProcessInv, SlotsFit
  <2>2. f \in [UsedSlots -> living]
    BY <2>1
  <2>3. \A i, j \in UsedSlots : f[i] = f[j] => i = j
    BY <2>1 DEF ProcessInv, NumbersDiffer, SlotHolds
  <2>4. \A p \in living : \E i \in UsedSlots : f[i] = p
    BY <2>1 DEF ProcessInv, NumbersDiffer, SlotsFit, SlotHolds
  <2> HIDE DEF f
  <2>5. f \in Bijection(UsedSlots, living)
    BY <2>2, <2>3, <2>4, Fun_IsBij
  <2>6. ExistsBijection(UsedSlots, living)
    BY <2>5 DEF ExistsBijection
  <2> QED BY <1>1, <2>6, FS_Bijection
<1>3. ASSUME NEW p \in living
      PROVE  /\ \E i \in SlotsOf(p.pid) : process_table[i].name = Stored(p.name)
                                   /\ process_table[i].state = IF p.zombie THEN "zombie" ELSE "running"
             /\ Cardinality(SlotsOf(p.pid)) = 1
             /\ p.name = Stored(p.name) =>
                  \E q \in living : q.pid = process_find(p.name) /\ Stored(q.name) = p.name
  <2>1. PICK s \in UsedSlots : SlotHolds(s, p)
    BY DEF ProcessInv, SlotsFit
  <2>2. SlotsOf(p.pid) = {s}
    BY <2>1 DEF SlotsOf, UsedSlots, ProcessInv, NumbersDiffer, SlotHolds
  <2>3. Cardinality(SlotsOf(p.pid)) = 1
    BY <2>2, FS_Singleton
  <2>4. ASSUME p.name = Stored(p.name)
        PROVE  \E q \in living : q.pid = process_find(p.name) /\ Stored(q.name) = p.name
    <3> DEFINE named == {i \in ProcessSlots : process_table[i].used /\ process_table[i].name = p.name}
    <3>1. s \in named
      BY <2>1, <2>4 DEF SlotHolds, UsedSlots
    <3>2. PICK i \in named : i = LeastSlot(named)
      BY <3>1, LeastSlotIsIn
    <3>3. process_find(p.name) = process_table[i].pid
      BY <3>1, <3>2 DEF process_find
    <3>4. PICK q \in living : SlotHolds(i, q)
      BY <3>2 DEF ProcessInv, SlotsFit, UsedSlots
    <3> QED BY <3>2, <3>3, <3>4 DEF SlotHolds
  <2> QED BY <2>1, <2>2, <2>3, <2>4 DEF SlotHolds, StateOf
<1> QED BY <1>2, <1>3 DEF ProcessesAreKept, process_count, UsedSlots

\* However processes are created, killed and cleaned up and whichever slots are
\* used again, the table holds every process that lives, once, in its state,
\* and finds it by a name that was stored whole (process.c:9-93).
THEOREM TableKeepsProcesses == ProcessSpec => []ProcessesAreKept
<1>1. ProcessInit => ProcessInv
  BY ProcessInitInv
<1>2. ProcessInv /\ [ProcessNext]_process_vars => ProcessInv'
  BY ProcessStepInv
<1>3. ProcessInv => ProcessesAreKept
  BY KeptByInv
<1> QED BY <1>1, <1>2, <1>3, PTL DEF ProcessSpec

-----------------------------------------------------------------------------
(* Power: a word that the machine honours ends the command, so a command    *)
(* under way has tried none.                                               *)

Ports == {"4004", "604:2000", "B004", "501", "604:3400", "CF9"}
PowerCommands == {"shutdown", "shutdown -f", "reboot"}

PowerTypeOK ==
  /\ power \in [command : PowerCommands,
                stage : {"ports", "halted", "asking", "fault", "ready", "timeout", "faulted"},
                timeout : Int, todo : Seq(Ports)]
  /\ machine \in {"on", "off", "reset", "halted"}
  /\ interrupts \in BOOLEAN

\* Without -f: what is still to be written, and nothing but the three ports and the halt.
PlainShutdown ==
  power.command = "shutdown" =>
    /\ power.stage \in {"ports", "halted"}
    /\ tried \cup Written(power.todo) = Written(VboxPorts)
    /\ machine # "reset"
    /\ machine = "halted" => ~interrupts /\ power.todo = <<>>

RebootInterrupts ==
  power.command = "reboot" /\ power.stage \in {"ports", "fault"} /\ machine = "on" => interrupts

PowerInv ==
  /\ PowerTypeOK /\ PlainShutdown /\ RebootInterrupts
  /\ power.stage = "faulted" => tried \cap honoured = {}
  /\ machine = "on" => tried \cap honoured = {}

LEMMA WrittenFirst ==
  ASSUME NEW s \in Seq(Ports), s # <<>>
  PROVE  /\ Tail(s) \in Seq(Ports) /\ Head(s) \in Ports
         /\ Written(s) = {Head(s)} \cup Written(Tail(s))
<1>1. PICK n \in Nat : n = Len(s) /\ n >= 1
  OBVIOUS
<1>2. /\ Tail(s) \in Seq(Ports) /\ Head(s) \in Ports /\ Head(s) = s[1]
      /\ DOMAIN s = 1 .. n /\ DOMAIN Tail(s) = 1 .. n - 1
      /\ \A i \in 1 .. n - 1 : Tail(s)[i] = s[i + 1]
  BY <1>1
<1>3. ASSUME NEW i \in 1 .. n PROVE s[i] \in {Head(s)} \cup Written(Tail(s))
  <2>1. CASE i = 1
    BY <1>2, <2>1
  <2>2. CASE i # 1
    <3>1. i - 1 \in 1 .. n - 1 /\ (i - 1) + 1 = i
      BY <1>1, <2>2
    <3>2. Tail(s)[i - 1] = s[i]
      BY <1>2, <3>1
    <3> QED BY <1>2, <3>1, <3>2 DEF Written
  <2> QED BY <2>1, <2>2
<1>4. ASSUME NEW i \in 1 .. n - 1 PROVE Tail(s)[i] \in Written(s)
  <2>1. i + 1 \in 1 .. n
    BY <1>1
  <2> QED BY <1>2, <2>1 DEF Written
<1>5. Head(s) \in Written(s)
  <2>1. 1 \in 1 .. n
    BY <1>1
  <2> QED BY <1>2, <2>1 DEF Written
<1>6. \A x \in Written(s) : x \in {Head(s)} \cup Written(Tail(s))
  BY <1>2, <1>3 DEF Written
<1>7. \A x \in Written(Tail(s)) : x \in Written(s)
  BY <1>2, <1>4 DEF Written
<1> QED BY <1>2, <1>5, <1>6, <1>7

LEMMA PowerInitInv == PowerInit => PowerInv
<1> SUFFICES ASSUME PowerInit PROVE PowerInv
  OBVIOUS
<1>1. PICK command \in PowerCommands :
        power = [command |-> command, stage |-> "ports", timeout |-> 0,
                 todo |-> CASE command = "shutdown" -> VboxPorts
                            [] command = "shutdown -f" -> VboxPorts \o QemuPorts
                            [] command = "reboot" -> RebootPorts]
  BY DEF PowerInit, PowerCommands
<1>2. machine = "on" /\ interrupts = TRUE /\ tried = {}
  BY DEF PowerInit
<1>3. VboxPorts \in Seq(Ports) /\ QemuPorts \in Seq(Ports) /\ RebootPorts \in Seq(Ports)
  BY DEF VboxPorts, QemuPorts, RebootPorts, Ports
<1>4. VboxPorts \o QemuPorts \in Seq(Ports)
  BY <1>3
<1>5. PICK todo \in Seq(Ports) :
        /\ power = [command |-> command, stage |-> "ports", timeout |-> 0, todo |-> todo]
        /\ command = "shutdown" => todo = VboxPorts
  <2>1. CASE command = "shutdown"
    BY <1>1, <1>3, <2>1
  <2>2. CASE command = "shutdown -f"
    BY <1>1, <1>4, <2>2
  <2>3. CASE command = "reboot"
    BY <1>1, <1>3, <2>3
  <2> QED BY <2>1, <2>2, <2>3 DEF PowerCommands
<1>6. PowerTypeOK
  BY <1>2, <1>5 DEF PowerTypeOK
<1>7. PlainShutdown
  BY <1>2, <1>5 DEF PlainShutdown
<1> QED BY <1>2, <1>5, <1>6, <1>7 DEF PowerInv, RebootInterrupts

\* A word is written: the machine goes off or is reset by it, or it was not honoured.
LEMMA WordWritten ==
  ASSUME PowerInv, machine = "on", honoured' = honoured, NEW port, Write_(port),
         PowerTypeOK', PlainShutdown', RebootInterrupts', power'.stage # "faulted"
  PROVE  PowerInv'
<1>1. machine' = "on" => port \notin honoured
  BY DEF Write_, Effect
<1>2. tried' = tried \cup {port} /\ tried \cap honoured = {}
  BY DEF Write_, PowerInv
<1> QED BY <1>1, <1>2 DEF PowerInv

LEMMA WritePortInv == ASSUME PowerInv, WritePort PROVE PowerInv'
<1>1. PICK todo : todo = power.todo
  OBVIOUS
<1>2. /\ machine = "on" /\ power.stage = "ports" /\ todo # <<>> /\ Write_(Head(todo))
      /\ power' = [power EXCEPT !.todo = Tail(todo)]
      /\ interrupts' = interrupts /\ honoured' = honoured
  BY <1>1 DEF WritePort
<1>3. todo \in Seq(Ports) /\ power.command \in PowerCommands /\ interrupts \in BOOLEAN
  BY <1>1 DEF PowerInv, PowerTypeOK
<1>4. Tail(todo) \in Seq(Ports) /\ Written(todo) = {Head(todo)} \cup Written(Tail(todo))
  BY <1>2, <1>3, WrittenFirst
<1>5. /\ power'.command = power.command /\ power'.stage = "ports" /\ power'.todo = Tail(todo)
      /\ tried' = tried \cup {Head(todo)}
      /\ machine' \in {"on", "off", "reset"}
  BY <1>2 DEF PowerInv, PowerTypeOK, Write_, Effect
<1>6. PowerTypeOK'
  <2>1. power' \in [command : PowerCommands,
                    stage : {"ports", "halted", "asking", "fault", "ready", "timeout", "faulted"},
                    timeout : Int, todo : Seq(Ports)]
    BY <1>2, <1>4 DEF PowerInv, PowerTypeOK
  <2> QED BY <1>2, <1>3, <1>5, <2>1 DEF PowerTypeOK
<1>7. PlainShutdown'
  <2> SUFFICES ASSUME power.command = "shutdown"
               PROVE  /\ tried' \cup Written(Tail(todo)) = Written(VboxPorts)
                      /\ machine' \notin {"reset", "halted"}
    BY <1>5 DEF PlainShutdown
  <2>1. tried \cup Written(todo) = Written(VboxPorts)
    BY <1>1 DEF PowerInv, PlainShutdown
  <2>2. tried' \cup Written(Tail(todo)) = tried \cup Written(todo)
    BY <1>4, <1>5
  <2>3. Written(VboxPorts) = {"4004", "604:2000", "B004"}
    BY DEF Written, VboxPorts
  <2>4. Head(todo) \notin {KbReset, "CF9"}
    BY <1>4, <2>1, <2>3 DEF KbReset
  <2>5. machine' \notin {"reset", "halted"}
    BY <1>2, <2>4 DEF Write_, Effect
  <2> QED BY <2>1, <2>2, <2>5
<1>8. RebootInterrupts'
  <2>1. power.command = "reboot" => interrupts
    BY <1>2 DEF PowerInv, RebootInterrupts
  <2> QED BY <1>2, <1>5, <2>1 DEF RebootInterrupts
<1> QED BY <1>2, <1>5, <1>6, <1>7, <1>8, WordWritten

LEMMA HaltInv == ASSUME PowerInv, HaltShutdown PROVE PowerInv'
<1>1. /\ machine = "on" /\ power.stage = "ports" /\ power.todo = <<>> /\ power.command = "shutdown"
      /\ interrupts' = FALSE /\ machine' = "halted" /\ tried' = tried
      /\ power' = [power EXCEPT !.stage = "halted"]
  BY DEF HaltShutdown
<1>2. /\ power'.command = "shutdown" /\ power'.stage = "halted" /\ power'.todo = <<>>
      /\ power' \in [command : PowerCommands,
                    stage : {"ports", "halted", "asking", "fault", "ready", "timeout", "faulted"},
                    timeout : Int, todo : Seq(Ports)]
  BY <1>1 DEF PowerInv, PowerTypeOK
<1>3. PowerTypeOK' /\ RebootInterrupts'
  BY <1>1, <1>2 DEF PowerTypeOK, RebootInterrupts
<1>4. PlainShutdown'
  BY <1>1, <1>2 DEF PowerInv, PlainShutdown
<1> QED BY <1>1, <1>2, <1>3, <1>4 DEF PowerInv

\* The steps that write nothing and are not those of a plain shutdown.
LEMMA QuietInv ==
  ASSUME PowerInv, machine = "on", power.command # "shutdown", tried' = tried,
         honoured' = honoured, PowerTypeOK', power'.command = power.command, RebootInterrupts'
  PROVE  PowerInv'
BY DEF PowerInv, PlainShutdown

LEMMA AskInv == ASSUME PowerInv, AskController PROVE PowerInv'
<1>1. PICK timeout \in Int :
        /\ machine = "on" /\ machine' = "on" /\ power.command # "shutdown" /\ interrupts' = FALSE
        /\ power' = [power EXCEPT !.stage = "asking", !.timeout = timeout]
        /\ tried' = tried /\ honoured' = honoured
  <2>1. (IF power.command = "reboot" THEN ResetTries ELSE KbTries) \in Int
    BY PowerAssumption
  <2> QED BY <2>1 DEF AskController
<1>2. /\ power'.command = power.command /\ power'.stage = "asking"
      /\ power' \in [command : PowerCommands,
                    stage : {"ports", "halted", "asking", "fault", "ready", "timeout", "faulted"},
                    timeout : Int, todo : Seq(Ports)]
  BY <1>1 DEF PowerInv, PowerTypeOK
<1> QED BY <1>1, <1>2, QuietInv DEF PowerTypeOK, RebootInterrupts

LEMMA PollInv == ASSUME PowerInv, NEW busy \in BOOLEAN, Poll(busy) PROVE PowerInv'
<1>1. PICK p : p = IF power.command = "reboot" THEN PollReboot(busy) ELSE PollShutdown(busy)
  OBVIOUS
<1>2. /\ machine = "on" /\ machine' = "on" /\ power.stage = "asking" /\ interrupts' = interrupts
      /\ power' = [power EXCEPT !.stage = p.stage, !.timeout = p.timeout]
      /\ tried' = tried /\ honoured' = honoured
  BY <1>1 DEF Poll
<1>3. power.timeout \in Int /\ power.command \in PowerCommands
  BY DEF PowerInv, PowerTypeOK
<1>4. /\ p.stage \in {"asking", "ready", "fault", "timeout"} /\ p.timeout \in Int
      /\ power.command = "reboot" => p.stage # "fault"
  BY <1>1, <1>3 DEF PollReboot, PollShutdown
<1>5. /\ power'.command = power.command /\ power'.stage = p.stage
      /\ power' \in [command : PowerCommands,
                    stage : {"ports", "halted", "asking", "fault", "ready", "timeout", "faulted"},
                    timeout : Int, todo : Seq(Ports)]
  BY <1>2, <1>4 DEF PowerInv, PowerTypeOK
<1>6. power.command # "shutdown"
  BY <1>2 DEF PowerInv, PlainShutdown
<1>7. PowerTypeOK' /\ RebootInterrupts'
  BY <1>2, <1>4, <1>5 DEF PowerInv, PowerTypeOK, RebootInterrupts
<1> QED BY <1>2, <1>5, <1>6, <1>7, QuietInv

LEMMA ResetInv == ASSUME PowerInv, ResetController PROVE PowerInv'
<1>1. /\ machine = "on" /\ power.stage = "ready" /\ Write_(KbReset) /\ honoured' = honoured
      /\ power' = [power EXCEPT !.stage = "fault"]
      /\ interrupts' = (power.command = "reboot" /\ KbReset \notin honoured)
  BY DEF ResetController
<1>2. power.command # "shutdown" /\ machine' \in {"on", "off", "reset"}
      /\ (machine' = "on" => KbReset \notin honoured)
  BY <1>1 DEF PowerInv, PlainShutdown, Write_, Effect
<1>3. /\ power'.command = power.command /\ power'.stage = "fault"
      /\ power' \in [command : PowerCommands,
                    stage : {"ports", "halted", "asking", "fault", "ready", "timeout", "faulted"},
                    timeout : Int, todo : Seq(Ports)]
  BY <1>1 DEF PowerInv, PowerTypeOK
<1>4. interrupts' \in BOOLEAN
  BY <1>1
<1>5. PowerTypeOK' /\ RebootInterrupts' /\ PlainShutdown'
  BY <1>1, <1>2, <1>3, <1>4 DEF PowerTypeOK, RebootInterrupts, PlainShutdown
<1> QED BY <1>1, <1>3, <1>5, WordWritten

LEMMA LastStepsInv == ASSUME PowerInv, GiveUpController \/ TripleFault PROVE PowerInv'
<1>1. PICK stage \in {"fault", "faulted"} :
        /\ machine = "on" /\ power.stage \in {"timeout", "fault"} /\ tried' = tried
        /\ honoured' = honoured /\ power' = [power EXCEPT !.stage = stage]
        /\ interrupts' \in BOOLEAN /\ machine' \in {"on", "reset"}
        /\ machine' = "on" => interrupts'
  BY DEF GiveUpController, TripleFault
<1>2. power.command # "shutdown"
  BY <1>1 DEF PowerInv, PlainShutdown
<1>3. /\ power'.command = power.command
      /\ power' \in [command : PowerCommands,
                    stage : {"ports", "halted", "asking", "fault", "ready", "timeout", "faulted"},
                    timeout : Int, todo : Seq(Ports)]
  BY <1>1 DEF PowerInv, PowerTypeOK
<1>4. PowerTypeOK' /\ RebootInterrupts'
  BY <1>1, <1>3 DEF PowerTypeOK, RebootInterrupts
<1> QED BY <1>1, <1>2, <1>3, <1>4, QuietInv

\* A machine that honours a port of its command goes off or is reset by the first such port; a triple
\* fault is the last resort of one that honours none; shutdown without -f never resets a machine and
\* halts it with interrupts off; and reboot enables interrupts again when it gives the controller up
\* (shutdown.c, reboot.c).
THEOREM FaultIsLast == PowerSpec => []LastResort
<1>1. PowerInv /\ [PowerNext]_power_vars => PowerInv'
  <2> SUFFICES ASSUME PowerInv, [PowerNext]_power_vars PROVE PowerInv'
    OBVIOUS
  <2>1. CASE PowerNext
    BY <2>1, WritePortInv, HaltInv, AskInv, PollInv, ResetInv, LastStepsInv DEF PowerNext
  <2>2. CASE UNCHANGED power_vars
    BY <2>2 DEF power_vars, PowerInv, PowerTypeOK, PlainShutdown, RebootInterrupts
  <2> QED BY <2>1, <2>2
<1>2. PowerInv => LastResort
  <2> SUFFICES ASSUME PowerInv PROVE LastResort
    OBVIOUS
  <2>1. Written(<<>>) = {}
    BY DEF Written
  <2>2. power.command = "shutdown" =>
          machine # "reset" /\ (machine = "halted" => ~interrupts /\ tried = Written(VboxPorts))
    BY <2>1 DEF PowerInv, PlainShutdown
  <2> QED BY <2>2 DEF PowerInv, RebootInterrupts, LastResort
<1> QED BY PowerInitInv, <1>1, <1>2, PTL DEF PowerSpec

-----------------------------------------------------------------------------
(* Objects of several blocks: what is allocated is what the objects own.   *)

Intrmap ==
  {im \in [im : Blocks, cpus : Blocks, base : BaseIds, cpu : Seq([block : Blocks, cpu_id : Nat])] :
     \A i \in DOMAIN im.cpu : im.cpu[i].cpu_id = im.base + i - 1}
Db == [block : Blocks, type : DbTypes]

ResourcesInv ==
  /\ allocated \subseteq Blocks
  /\ intrmaps \subseteq Intrmap /\ dbs \subseteq Db
  /\ NothingLeaks

\* The blocks that objects own.
OwnedBy(maps, handles) == MapBlocks(maps) \cup DbBlocks(handles)
Owned == OwnedBy(intrmaps, dbs)

LEMMA OwnedIs ==
  ASSUME NEW maps, NEW handles, NEW b
  PROVE  b \in OwnedBy(maps, handles) <=>
           (\E im \in maps : b \in OwnedBlocks(im)) \/ (\E db \in handles : b = db.block)
<1>1. b \in MapBlocks(maps) <=> \E im \in maps : b \in OwnedBlocks(im)
  BY DEF MapBlocks
<1>2. b \in DbBlocks(handles) <=> \E db \in handles : b = db.block
  BY DEF DbBlocks
<1> QED BY <1>1, <1>2 DEF OwnedBy

\* Sequences are functions on their positions.
LEMMA EntriesAreIn ==
  ASSUME NEW S, NEW s \in Seq(S)
  PROVE  \A i \in DOMAIN s : s[i] \in S
OBVIOUS
LEMMA IsSequence ==
  ASSUME NEW S, NEW n \in Nat, NEW s \in [1 .. n -> S]
  PROVE  s \in Seq(S)
OBVIOUS

\* Where nothing but the answer changes, what is owned stays.
LEMMA OnlyAnswers ==
  ASSUME ResourcesInv, ~misfreed', UNCHANGED <<allocated, intrmaps, dbs>>, Answered'
  PROVE  ResourcesInv'
BY DEF ResourcesInv, NothingLeaks, Answered, OwnedOnce, OwnedBlocks, BlocksDiffer

\* No call of free, and one.
LEMMA FreesNone ==
  ASSUME NEW more, Frees(<<>>, more)
  PROVE  allocated' = allocated \cup more /\ (~misfreed => ~misfreed')
<1>1. Range(<<>>) = {} /\ IsInjective(<<>>)
  BY DEF Range, IsInjective
<1> QED BY <1>1 DEF Frees
LEMMA FreesOne ==
  ASSUME NEW b, Frees(<<b>>, {})
  PROVE  /\ allocated' = allocated \ {b}
         /\ misfreed' = (misfreed \/ b \notin allocated)
<1>1. DOMAIN <<b>> = {1} /\ <<b>>[1] = b
  OBVIOUS
<1>2. Range(<<b>>) = {b}
  BY <1>1 DEF Range
<1>3. IsInjective(<<b>>)
  BY <1>1 DEF IsInjective
<1>4. (IsInjective(<<b>>) /\ Range(<<b>>) \subseteq allocated \cup {}) <=> b \in allocated
  BY <1>2, <1>3
<1> QED BY <1>2, <1>4 DEF Frees

\* As many different free blocks as are asked for and there are.
LEMMA FreshAreDifferent ==
  ASSUME NEW n \in Nat, CanAllocate(n)
  PROVE  FreshBlocks(n) \in Injection(1 .. n, Blocks \ allocated)
<1> DEFINE free == Blocks \ allocated
<1>1. IsFiniteSet(free)
  BY ResourcesAssumption, FS_Subset
<1>2. Cardinality(free) \in Nat /\ ExistsBijection(1 .. Cardinality(free), free)
  BY <1>1, FS_CardinalityType
<1>3. n <= Cardinality(free)
  BY <1>2 DEF CanAllocate
<1>4. PICK f : f \in Bijection(1 .. Cardinality(free), free)
  BY <1>2 DEF ExistsBijection
<1>5. f \in [1 .. Cardinality(free) -> free] /\ IsInjective(f)
  BY <1>4 DEF Bijection, Injection
<1>6. 1 .. n \subseteq 1 .. Cardinality(free)
  BY <1>2, <1>3
<1>7. [i \in 1 .. n |-> f[i]] \in Injection(1 .. n, free)
  <2>1. [i \in 1 .. n |-> f[i]] \in [1 .. n -> free]
    BY <1>5, <1>6
  <2> QED BY <1>5, <1>6, <2>1 DEF Injection, IsInjective
<1> QED BY <1>7 DEF FreshBlocks

\* The blocks of a map are blocks.
LEMMA OwnedAreBlocks ==
  ASSUME NEW im \in Intrmap
  PROVE  OwnedBlocks(im) \subseteq Blocks
<1>1. im.cpu \in Seq([block : Blocks, cpu_id : Nat]) /\ im.im \in Blocks /\ im.cpus \in Blocks
  BY DEF Intrmap
<1>2. \A i \in DOMAIN im.cpu : im.cpu[i] \in [block : Blocks, cpu_id : Nat]
  BY <1>1, EntriesAreIn
<1>3. \A i \in DOMAIN im.cpu : im.cpu[i].block \in Blocks
  BY <1>2
<1> QED BY <1>1, <1>3 DEF OwnedBlocks

\* The blocks of an injection, backwards.
LEMMA BackwardsIs ==
  ASSUME NEW n \in Nat, NEW S, NEW got \in [1 .. n -> S], IsInjective(got)
  PROVE  Range(RolledBack(got)) = Range(got) /\ IsInjective(RolledBack(got))
<1>1. Len(got) = n
  BY IsSequence
<1>2. PICK back : back = RolledBack(got)
  OBVIOUS
<1>3. DOMAIN back = 1 .. n /\ \A k \in 1 .. n : back[k] = got[n + 1 - k] /\ n + 1 - k \in 1 .. n
  BY <1>1, <1>2 DEF RolledBack
<1>4. IsInjective(back)
  <2>1. SUFFICES ASSUME NEW a \in 1 .. n, NEW b \in 1 .. n, back[a] = back[b] PROVE a = b
    BY <1>3 DEF IsInjective
  <2>2. n + 1 - a = n + 1 - b
    BY <1>3, <2>1 DEF IsInjective
  <2> QED BY <2>2
<1>5. \A k \in 1 .. n : n + 1 - k \in 1 .. n /\ got[k] = back[n + 1 - k]
  <2> TAKE k \in 1 .. n
  <2>1. n + 1 - k \in 1 .. n /\ n + 1 - (n + 1 - k) = k
    OBVIOUS
  <2> QED BY <1>3, <2>1
<1>6. Range(back) = Range(got)
  BY <1>3, <1>5 DEF Range
<1> QED BY <1>2, <1>4, <1>6

\* intrmap_destroy frees what the map owns, each block once.
LEMMA FreedAreOwned ==
  ASSUME NEW im \in Intrmap, BlocksDiffer(im)
  PROVE  Range(FreedBlocks(im)) = OwnedBlocks(im) /\ IsInjective(FreedBlocks(im))
<1>1. im.cpu \in Seq([block : Blocks, cpu_id : Nat]) /\ im.im \in Blocks /\ im.cpus \in Blocks
  BY DEF Intrmap
<1>2. PICK n : n = Len(im.cpu)
  OBVIOUS
<1>3. n \in Nat /\ DOMAIN im.cpu = 1 .. n
  BY <1>1, <1>2
<1>4. PICK cpus : cpus = [i \in 1 .. n |-> im.cpu[i].block]
  OBVIOUS
<1>5. cpus \in Seq(Blocks) /\ Len(cpus) = n
  <2>1. \A i \in 1 .. n : im.cpu[i] \in [block : Blocks, cpu_id : Nat]
    BY <1>1, <1>3, EntriesAreIn
  <2>2. cpus \in [1 .. n -> Blocks]
    BY <1>4, <2>1
  <2> QED BY <1>3, <2>2, IsSequence
<1>6. PICK freed : freed = cpus \o <<im.cpus, im.im>>
  OBVIOUS
<1>7. /\ DOMAIN freed = 1 .. n + 2
      /\ \A i \in 1 .. n : freed[i] = im.cpu[i].block
      /\ freed[n + 1] = im.cpus /\ freed[n + 2] = im.im
  BY <1>3, <1>4, <1>5, <1>6
<1>8. freed = FreedBlocks(im)
  BY <1>2, <1>4, <1>6 DEF FreedBlocks
<1>9. Range(freed) = OwnedBlocks(im)
  <2>1. \A b \in Range(freed) : b \in OwnedBlocks(im)
    <3> TAKE b \in Range(freed)
    <3>1. PICK i \in 1 .. n + 2 : b = freed[i]
      BY <1>7 DEF Range
    <3>2. i \in 1 .. n \/ i = n + 1 \/ i = n + 2
      BY <1>3
    <3> QED BY <1>3, <1>7, <3>1, <3>2 DEF OwnedBlocks
  <2>2. \A i \in 1 .. n : i \in 1 .. n + 2
    BY <1>3
  <2>3. n + 1 \in 1 .. n + 2 /\ n + 2 \in 1 .. n + 2
    BY <1>3
  <2>4. \A b \in OwnedBlocks(im) : b \in Range(freed)
    BY <1>3, <1>7, <2>2, <2>3 DEF OwnedBlocks, Range
  <2> QED BY <2>1, <2>4
<1>10. IsInjective(freed)
  <2>1. SUFFICES ASSUME NEW a \in 1 .. n + 2, NEW b \in 1 .. n + 2, freed[a] = freed[b] PROVE a = b
    BY <1>7 DEF IsInjective
  <2>2. (a \in 1 .. n \/ a = n + 1 \/ a = n + 2) /\ (b \in 1 .. n \/ b = n + 1 \/ b = n + 2)
    BY <1>3
  <2>3. /\ im.im # im.cpus
        /\ \A i \in 1 .. n : im.cpu[i].block # im.im /\ im.cpu[i].block # im.cpus
        /\ \A i, j \in 1 .. n : im.cpu[i].block = im.cpu[j].block => i = j
    BY <1>3 DEF BlocksDiffer
  <2> QED BY <1>7, <2>1, <2>2, <2>3
<1> QED BY <1>8, <1>9, <1>10

\* A failing creation gives back what it got.
LEMMA RollBack ==
  ASSUME ResourcesInv, NEW n \in Nat, CanAllocate(n),
         Frees(RolledBack(FreshBlocks(n)), Range(FreshBlocks(n)))
  PROVE  UNCHANGED allocated /\ ~misfreed'
<1>1. PICK got : got = FreshBlocks(n)
  OBVIOUS
<1>2. got \in [1 .. n -> Blocks \ allocated] /\ IsInjective(got)
  BY <1>1, FreshAreDifferent DEF Injection
<1>3. PICK fresh : fresh = Range(got)
  OBVIOUS
<1>4. fresh \cap allocated = {}
  BY <1>2, <1>3 DEF Range
<1>8. Range(RolledBack(got)) = fresh /\ IsInjective(RolledBack(got))
  BY <1>2, <1>3, BackwardsIs
<1>5. /\ allocated' = (allocated \cup fresh) \ fresh
      /\ misfreed' = (misfreed \/ ~(fresh \subseteq (allocated \cup fresh)))
  BY <1>1, <1>3, <1>8 DEF Frees
<1>6. ~misfreed
  BY DEF ResourcesInv, NothingLeaks
<1>7. allocated' = allocated
  BY <1>4, <1>5
<1> QED BY <1>5, <1>6, <1>7

\* A map is made of fresh blocks, different ones.
LEMMA MapCreateInv ==
  ASSUME ResourcesInv, NEW n \in 0 .. MaxCpus, NEW base \in BaseIds, intrmap_create(n, base)
  PROVE  ResourcesInv'
<1>1. n \in Nat /\ BaseIds \subseteq Nat /\ base \in Nat /\ CanAllocate(n + 2)
  BY ResourcesAssumption DEF intrmap_create
<1>2. PICK got : got = FreshBlocks(n + 2)
  OBVIOUS
<1>3. got \in [1 .. n + 2 -> Blocks \ allocated] /\ IsInjective(got)
  BY <1>1, <1>2, FreshAreDifferent DEF Injection
<1>4. resource_ret'.call = "create" /\ UNCHANGED dbs
  <2>1. (\E ret : resource_ret' = [call |-> "create", ret |-> ret]) /\ UNCHANGED dbs
    BY Zenon DEF intrmap_create
  <2> QED BY <2>1
<1>5. CASE UNCHANGED <<allocated, intrmaps>> /\ ~misfreed'
  BY <1>4, <1>5, OnlyAnswers DEF Answered
<1>6. CASE \E failing \in 0 .. n + 1 :
             /\ Frees(RolledBack(FreshBlocks(failing)),
                      Range(FreshBlocks(failing)))
             /\ UNCHANGED intrmaps
  <2>1. PICK failing \in 0 .. n + 1 :
             /\ Frees(RolledBack(FreshBlocks(failing)),
                      Range(FreshBlocks(failing)))
             /\ UNCHANGED intrmaps
    BY <1>6
  <2>2. failing \in Nat /\ failing <= n + 2
    BY <1>1
  <2>3. Cardinality(Blocks \ allocated) \in Nat
    BY ResourcesAssumption, FS_Subset, FS_CardinalityType
  <2>4. CanAllocate(failing)
    BY <1>1, <2>2, <2>3 DEF CanAllocate
  <2> QED BY <1>5, <2>1, <2>2, <2>4, RollBack
<1> DEFINE map == [im |-> got[1], cpus |-> got[2], base |-> base,
                   cpu |-> [i \in 1 .. n |-> [block |-> got[i + 2], cpu_id |-> base + i - 1]]]
<1>7. CASE Frees(<<>>, Range(got)) /\ intrmaps' = intrmaps \cup {map}
  <2>1. PICK im : /\ im = [im |-> got[1], cpus |-> got[2], base |-> base,
                           cpu |-> [i \in 1 .. n |-> [block |-> got[i + 2], cpu_id |-> base + i - 1]]]
                  /\ Frees(<<>>, Range(got))
                  /\ intrmaps' = intrmaps \cup {im}
    BY <1>7
  <2>2. /\ im.im = got[1] /\ im.cpus = got[2] /\ im.base = base /\ DOMAIN im.cpu = 1 .. n
        /\ \A i \in 1 .. n : im.cpu[i].block = got[i + 2] /\ im.cpu[i].cpu_id = base + i - 1
    BY <2>1
  <2>3. 1 \in 1 .. n + 2 /\ 2 \in 1 .. n + 2 /\ \A i \in 1 .. n : i + 2 \in 1 .. n + 2
    BY <1>1
  <2>4. PICK fresh : fresh = {got[k] : k \in DOMAIN got} /\ fresh = Range(got)
    BY DEF Range
  <2>5. fresh \subseteq Blocks /\ fresh \cap allocated = {}
    BY <1>3, <2>4
  <2>6. OwnedBlocks(im) = fresh
    <3>1. OwnedBlocks(im) \subseteq fresh
      BY <1>3, <2>2, <2>3, <2>4 DEF OwnedBlocks
    <3>2. ASSUME NEW k \in 1 .. n + 2 PROVE got[k] \in OwnedBlocks(im)
      <4>1. k = 1 \/ k = 2 \/ k - 2 \in 1 .. n
        BY <1>1
      <4>2. CASE k - 2 \in 1 .. n
        <5>1. PICK i \in 1 .. n : i = k - 2
          BY <4>2
        <5>2. i + 2 = k
          BY <1>1, <5>1
        <5>3. im.cpu[i].block = got[k]
          BY <2>2, <5>2
        <5> QED BY <2>2, <5>3 DEF OwnedBlocks
      <4> QED BY <2>2, <4>1, <4>2 DEF OwnedBlocks
    <3> QED BY <1>3, <2>4, <3>1, <3>2
  <2>7. im \in Intrmap
    <3>1. im.cpu \in [1 .. n -> [block : Blocks, cpu_id : Nat]]
      <4>1. \A i \in 1 .. n : got[i + 2] \in Blocks /\ base + i - 1 \in Nat
        BY <1>1, <1>3, <2>3
      <4> QED BY <2>1, <4>1
    <3>2. im.cpu \in Seq([block : Blocks, cpu_id : Nat])
      BY <1>1, <3>1, IsSequence
    <3>3. got[1] \in Blocks /\ got[2] \in Blocks
      BY <1>3, <2>3
    <3>4. im \in [im : Blocks, cpus : Blocks, base : BaseIds, cpu : Seq([block : Blocks, cpu_id : Nat])]
      BY <2>1, <3>2, <3>3
    <3> QED BY <2>2, <3>4 DEF Intrmap
  <2>8. BlocksDiffer(im)
    <3>1. \A k, l \in 1 .. n + 2 : got[k] = got[l] => k = l
      BY <1>3 DEF IsInjective
    <3>2. im.im # im.cpus
      BY <2>2, <2>3, <3>1
    <3>3. ASSUME NEW i \in 1 .. n, NEW j \in 1 .. n
          PROVE  /\ im.cpu[i].block \notin {im.im, im.cpus}
                 /\ im.cpu[i].block = im.cpu[j].block => i = j
      <4>1. PICK k, l : k = i + 2 /\ l = j + 2
        OBVIOUS
      <4>2. /\ k \in 1 .. n + 2 /\ l \in 1 .. n + 2 /\ 1 \in 1 .. n + 2 /\ 2 \in 1 .. n + 2
            /\ k # 1 /\ k # 2 /\ (k = l => i = j)
        BY <1>1, <4>1
      <4>3. got[k] # got[1] /\ got[k] # got[2] /\ (got[k] = got[l] => k = l)
        BY <3>1, <4>2
      <4>4. im.cpu[i].block = got[k] /\ im.cpu[j].block = got[l]
        BY <2>2, <4>1
      <4> QED BY <2>2, <4>2, <4>3, <4>4
    <3> QED BY <2>2, <3>2, <3>3 DEF BlocksDiffer
  <2>9. allocated' = allocated \cup fresh /\ ~misfreed'
    BY <2>1, <2>4, FreesNone DEF ResourcesInv, NothingLeaks
  <2>10. allocated = Owned
    BY DEF ResourcesInv, NothingLeaks, Owned, OwnedBy
  <2>11. Owned' = Owned \cup fresh
    <3>1. UNCHANGED dbs /\ intrmaps' = intrmaps \cup {im}
      BY <1>4, <2>1
    <3>2. \A b : b \in Owned' <=> b \in Owned \/ b \in fresh
      BY <2>6, <3>1, OwnedIs DEF Owned
    <3> QED BY <3>2
  <2>12. OwnedOnce'
    <3>1. \A m \in intrmaps : OwnedBlocks(m) \cap fresh = {}
      BY <2>5, <2>10, OwnedIs DEF Owned
    <3>2. \A db \in dbs : db.block \notin fresh
      BY <2>5, <2>10, OwnedIs DEF Owned
    <3>3. OwnedOnce
      BY DEF ResourcesInv, NothingLeaks
    <3>4. \A m \in intrmaps' : BlocksDiffer(m)
      BY <2>1, <2>8, <3>3 DEF OwnedOnce
    <3>5. \A m, other \in intrmaps' : OwnedBlocks(m) \cap OwnedBlocks(other) # {} => m = other
      BY <2>1, <2>6, <3>1, <3>3 DEF OwnedOnce
    <3>6. \A m \in intrmaps', db \in dbs' : db.block \notin OwnedBlocks(m)
      BY <1>4, <2>1, <2>6, <3>2, <3>3 DEF OwnedOnce
    <3> QED BY <1>4, <3>3, <3>4, <3>5, <3>6 DEF OwnedOnce
  <2>13. NothingLeaks'
    BY <1>4, <2>9, <2>10, <2>11, <2>12 DEF NothingLeaks, Owned, OwnedBy, Answered
  <2> QED BY <1>4, <2>1, <2>5, <2>7, <2>9, <2>13 DEF ResourcesInv
<1>8. \/ Frees(<<>>, Range(got)) /\ intrmaps' = intrmaps \cup {map}
      \/ \E failing \in 0 .. n + 1 :
             /\ Frees(RolledBack(FreshBlocks(failing)),
                      Range(FreshBlocks(failing)))
             /\ UNCHANGED intrmaps
  BY <1>2, Zenon DEF intrmap_create
<1> QED BY <1>6, <1>7, <1>8

\* An object takes its own blocks away and no other's.
LEMMA DestroyInv ==
  ASSUME ResourcesInv, NEW im \in intrmaps, intrmap_destroy(im)
  PROVE  ResourcesInv'
<1>1. /\ allocated' = allocated \ OwnedBlocks(im) /\ intrmaps' = intrmaps \ {im}
      /\ misfreed' = (misfreed \/ ~(OwnedBlocks(im) \subseteq allocated))
      /\ resource_ret'.call = "destroy" /\ UNCHANGED dbs
  <2>1. im \in Intrmap /\ BlocksDiffer(im)
    BY DEF ResourcesInv, NothingLeaks, OwnedOnce
  <2>2. Range(FreedBlocks(im)) = OwnedBlocks(im) /\ IsInjective(FreedBlocks(im))
    BY <2>1, FreedAreOwned
  <2> QED BY <2>2 DEF intrmap_destroy, Frees
<1>2. ~misfreed /\ allocated = Owned /\ OwnedOnce
  BY DEF ResourcesInv, NothingLeaks, Owned, OwnedBy
<1>3. OwnedBlocks(im) \subseteq allocated
  BY <1>2, OwnedIs DEF Owned
<1>4. /\ \A m \in intrmaps' : OwnedBlocks(m) \cap OwnedBlocks(im) = {}
      /\ \A db \in dbs : db.block \notin OwnedBlocks(im)
  BY <1>1, <1>2 DEF OwnedOnce
<1>5. Owned' = Owned \ OwnedBlocks(im)
  <2>1. \A b : b \in Owned <=> b \in Owned' \/ b \in OwnedBlocks(im)
    BY <1>1, OwnedIs DEF Owned
  <2>2. Owned' \cap OwnedBlocks(im) = {}
    BY <1>1, <1>4, OwnedIs DEF Owned
  <2> QED BY <2>1, <2>2
<1>6. OwnedOnce'
  BY <1>1, <1>2 DEF OwnedOnce
<1>7. NothingLeaks'
  BY <1>1, <1>2, <1>3, <1>5, <1>6 DEF NothingLeaks, Owned, OwnedBy, Answered
<1> QED BY <1>1, <1>7 DEF ResourcesInv

LEMMA DbopenInv ==
  ASSUME ResourcesInv, NEW type \in DbTypes, dbopen(type)
  PROVE  ResourcesInv'
<1>1. resource_ret'.call = "dbopen" /\ UNCHANGED intrmaps
  BY DEF dbopen
<1>2. CASE UNCHANGED <<allocated, misfreed, dbs>>
  BY <1>1, <1>2, OnlyAnswers DEF Answered, ResourcesInv, NothingLeaks
<1>3. CASE ~UNCHANGED <<allocated, misfreed, dbs>>
  <2>1. PICK b : b = FreshBlocks(1)[1]
    OBVIOUS
  <2>2. CanAllocate(1) /\ Frees(<<>>, {b}) /\ dbs' = dbs \cup {[block |-> b, type |-> type]}
    BY <1>3, <2>1 DEF dbopen
  <2>3. b \in Blocks \ allocated
    BY <2>1, <2>2, FreshAreDifferent DEF Injection
  <2>4. ~misfreed /\ allocated = Owned /\ OwnedOnce
    BY DEF ResourcesInv, NothingLeaks, Owned, OwnedBy
  <2>5. allocated' = allocated \cup {b} /\ ~misfreed'
    BY <2>2, <2>4, FreesNone
  <2>6. Owned' = Owned \cup {b}
    <3>0. PICK db : db = [block |-> b, type |-> type]
      OBVIOUS
    <3>1. dbs' = dbs \cup {db} /\ db.block = b
      BY <2>2, <3>0
    <3>2. \A c : c \in Owned' <=> c \in Owned \/ c = b
      BY <1>1, <3>1, OwnedIs DEF Owned
    <3> QED BY <3>2
  <2>7. OwnedOnce'
    <3>1. (\A m \in intrmaps : b \notin OwnedBlocks(m)) /\ \A db \in dbs : db.block # b
      BY <2>3, <2>4, OwnedIs DEF Owned
    <3> QED BY <1>1, <2>2, <2>4, <3>1 DEF OwnedOnce
  <2>8. NothingLeaks'
    BY <1>1, <2>4, <2>5, <2>6, <2>7 DEF NothingLeaks, Owned, OwnedBy, Answered
  <2> QED BY <1>1, <2>2, <2>3, <2>5, <2>8 DEF ResourcesInv, Db
<1> QED BY <1>2, <1>3

LEMMA CloseInv ==
  ASSUME ResourcesInv, NEW db \in dbs, db_close(db)
  PROVE  ResourcesInv'
<1>1. /\ allocated' = allocated \ {db.block} /\ dbs' = dbs \ {db}
      /\ misfreed' = (misfreed \/ db.block \notin allocated)
      /\ resource_ret'.call = "close" /\ UNCHANGED intrmaps
  BY FreesOne DEF db_close
<1>2. ~misfreed /\ allocated = Owned /\ OwnedOnce
  BY DEF ResourcesInv, NothingLeaks, Owned, OwnedBy
<1>3. db.block \in allocated
  BY <1>2, OwnedIs DEF Owned
<1>4. (\A d \in dbs' : d.block # db.block) /\ \A im \in intrmaps : db.block \notin OwnedBlocks(im)
  BY <1>1, <1>2 DEF OwnedOnce
<1>5. Owned' = Owned \ {db.block}
  <2>1. \A b : b \in Owned <=> b \in Owned' \/ b = db.block
    BY <1>1, OwnedIs DEF Owned
  <2>2. db.block \notin Owned'
    BY <1>1, <1>4, OwnedIs DEF Owned
  <2> QED BY <2>1, <2>2
<1>6. OwnedOnce'
  BY <1>1, <1>2 DEF OwnedOnce
<1>7. NothingLeaks'
  BY <1>1, <1>2, <1>3, <1>5, <1>6 DEF NothingLeaks, Owned, OwnedBy, Answered
<1> QED BY <1>1, <1>7 DEF ResourcesInv

\* A cpu that is looked up is the one of its number; beyond the last there is none.
LEMMA LookUpInv ==
  ASSUME ResourcesInv, NEW im \in intrmaps, NEW idx \in 0 .. MaxCpus, LookUp(im, idx)
  PROVE  ResourcesInv'
<1>1. im \in Intrmap /\ NoObject \notin Blocks /\ idx \in Nat /\ BaseIds \subseteq Nat
  BY ResourcesAssumption DEF ResourcesInv
<1>2. /\ im.cpu \in Seq([block : Blocks, cpu_id : Nat]) /\ im.base \in Nat
      /\ \A i \in DOMAIN im.cpu : im.cpu[i].cpu_id = im.base + i - 1
  BY <1>1 DEF Intrmap
<1>3. Len(im.cpu) \in Nat /\ DOMAIN im.cpu = 1 .. Len(im.cpu)
  BY <1>2
<1>4. /\ resource_ret'.call = "cpu" /\ resource_ret'.im = im /\ resource_ret'.idx = idx
      /\ resource_ret'.count = Len(im.cpu)
      /\ resource_ret'.ret = IF idx >= Len(im.cpu) THEN NoObject ELSE im.cpu[idx + 1].block
      /\ UNCHANGED <<allocated, misfreed, intrmaps, dbs>>
  BY DEF LookUp
<1>5. Answered'
  <2>1. CASE idx >= Len(im.cpu)
    BY <1>4, <2>1 DEF Answered
  <2>2. CASE ~(idx >= Len(im.cpu))
    <3>1. idx + 1 \in DOMAIN im.cpu
      BY <1>1, <1>3, <2>2
    <3>2. im.cpu[idx + 1].block \in Blocks
      <4>1. im.cpu[idx + 1] \in [block : Blocks, cpu_id : Nat]
        BY <1>2, <3>1, EntriesAreIn
      <4> QED BY <4>1
    <3>3. im.cpu[idx + 1].cpu_id = im.base + idx
      BY <1>1, <1>2, <3>1
    <3> QED BY <1>1, <1>4, <2>2, <3>1, <3>2, <3>3 DEF Answered
  <2> QED BY <2>1, <2>2
<1> QED BY <1>4, <1>5, OnlyAnswers DEF ResourcesInv, NothingLeaks

LEMMA PolledInv ==
  ASSUME ResourcesInv, NEW revents, NEW nfds, poll(revents, nfds)
  PROVE  ResourcesInv'
<1>1. PICK after : after = Polled(revents, nfds)
  OBVIOUS
<1>2. /\ DOMAIN after = DOMAIN revents
      /\ \A i \in DOMAIN revents : after[i] = IF i <= nfds THEN 0 ELSE revents[i]
  BY <1>1 DEF Polled
<1>3. /\ resource_ret'.call = "poll" /\ resource_ret'.before = revents /\ resource_ret'.nfds = nfds
      /\ resource_ret'.after = after /\ UNCHANGED <<allocated, misfreed, intrmaps, dbs>>
  BY <1>1 DEF poll
<1>4. ~misfreed'
  BY <1>3 DEF ResourcesInv, NothingLeaks
<1>5. Answered'
  BY <1>2, <1>3 DEF Answered
<1> QED BY <1>3, <1>4, <1>5, OnlyAnswers

\* Whatever allocations fail, the allocated blocks are those of the objects that are held, each owned
\* once, and none is freed twice (intrmap.c; db.c).
THEOREM NoBlockIsLost == ResourcesSpec => []NothingLeaks
<1>1. ResourcesInit => ResourcesInv
  BY DEF ResourcesInit, ResourcesInv, NothingLeaks, OwnedOnce, MapBlocks, DbBlocks, Answered
<1>2. ResourcesInv /\ [ResourcesNext]_resources_vars => ResourcesInv'
  <2> SUFFICES ASSUME ResourcesInv, [ResourcesNext]_resources_vars PROVE ResourcesInv'
    OBVIOUS
  <2>1. CASE \E n \in 0 .. MaxCpus, base \in BaseIds : intrmap_create(n, base)
    BY <2>1, MapCreateInv
  <2>2. CASE \E im \in intrmaps : intrmap_destroy(im)
    BY <2>2, DestroyInv
  <2>3. CASE \E im \in intrmaps, idx \in 0 .. MaxCpus : LookUp(im, idx)
    BY <2>3, LookUpInv
  <2>4. CASE LookUpNull
    BY <2>4, OnlyAnswers DEF LookUpNull, Answered, ResourcesInv, NothingLeaks
  <2>5. CASE \E type \in DbTypes : dbopen(type)
    BY <2>5, DbopenInv
  <2>6. CASE \E db \in dbs : db_close(db)
    BY <2>6, CloseInv
  <2>7. CASE \E db \in dbs, method \in {"del", "get", "put", "seq", "sync", "fd"} :
               db_method(db, method)
    BY <2>7, OnlyAnswers DEF db_method, Answered, ResourcesInv, NothingLeaks
  <2>8. CASE \E revents \in {<<1, 4>>, <<0, 1>>}, nfds \in 0 .. 2 : poll(revents, nfds)
    BY <2>8, PolledInv
  <2>9. CASE UNCHANGED resources_vars
    BY <2>9, OnlyAnswers DEF resources_vars, ResourcesInv, NothingLeaks, Answered
  <2> QED BY <2>1, <2>2, <2>3, <2>4, <2>5, <2>6, <2>7, <2>8, <2>9 DEF ResourcesNext
<1>3. ResourcesInv => NothingLeaks
  BY DEF ResourcesInv
<1> QED BY <1>1, <1>2, <1>3, PTL DEF ResourcesSpec

-----------------------------------------------------------------------------
(* The processor's features and what the boot enables by them.             *)

\* Each byte of the structure reaches up to the bit of its own feature.
LEMMA PresentIsDetected ==
  ASSUME NEW edx, NEW ecx
  PROVE  PresentFeatures(edx, ecx) \subseteq cpu_detect_features(edx, ecx)
<1>1. \A j \in DOMAIN EdxFields : j \in Nat
  BY DEF EdxFields
<1>2. \A j \in DOMAIN EcxFields : j \in Nat
  BY DEF EcxFields
<1>3. ASSUME NEW j \in Nat, EdxBit(j) \in edx
      PROVE  LowByte(edx, j - 1) # {}
  BY <1>3 DEF EdxBit, LowByte
<1>4. ASSUME NEW j \in Nat, EcxBit(j) \in ecx
      PROVE  LowByte(ecx, j - 1) # {}
  BY <1>4 DEF EcxBit, LowByte
<1>5. {j \in DOMAIN EdxFields : EdxBit(j) \in edx}
        \subseteq {j \in DOMAIN EdxFields : LowByte(edx, j - 1) # {}}
  BY <1>1, <1>3
<1>6. {j \in DOMAIN EcxFields : EcxBit(j) \in ecx}
        \subseteq {j \in DOMAIN EcxFields : LowByte(ecx, j - 1) # {}}
  BY <1>2, <1>4
<1> QED BY <1>5, <1>6 DEF PresentFeatures, cpu_detect_features

\* No byte reaches further from its feature's bit than its width and the reserved bits.
LEMMA DetectedIsNear ==
  ASSUME NEW edx \in SUBSET (0 .. 31), NEW ecx \in SUBSET (0 .. 31)
  PROVE  cpu_detect_features(edx, ecx) \subseteq PresentFeatures(edx, ecx) \cup NearFeatures(edx, ecx)
<1>1. \A j \in DOMAIN EdxFields : j \in Nat
  BY DEF EdxFields
<1>2. \A j \in DOMAIN EcxFields : j \in Nat
  BY DEF EcxFields
<1>3. ASSUME NEW j \in Nat, LowByte(edx, j - 1) # {}
      PROVE  Near(edx, EdxBit(j))
  <2>3. PICK b : b \in LowByte(edx, j - 1)
    BY <1>3
  <2>4. b \in edx /\ b >= j - 1 /\ b <= j - 1 + 7
    BY <2>3 DEF LowByte
  <2>1. b \in edx /\ b \in Int /\ b >= j - 1 /\ b <= j + 6
    BY <2>4
  <2>2. EdxBit(j) \in Int /\ b - EdxBit(j) \in -3 .. 7
    BY <2>1 DEF EdxBit
  <2> QED BY <2>1, <2>2 DEF Near
<1>4. ASSUME NEW j \in Nat, LowByte(ecx, j - 1) # {}
      PROVE  Near(ecx, EcxBit(j))
  <2>3. PICK b : b \in LowByte(ecx, j - 1)
    BY <1>4
  <2>4. b \in ecx /\ b >= j - 1 /\ b <= j - 1 + 7
    BY <2>3 DEF LowByte
  <2>1. b \in ecx /\ b \in Int /\ b >= j - 1 /\ b <= j + 6
    BY <2>4
  <2>2. EcxBit(j) \in Int /\ b - EcxBit(j) \in -3 .. 7
    BY <2>1 DEF EcxBit
  <2> QED BY <2>1, <2>2 DEF Near
<1>5. {j \in DOMAIN EdxFields : LowByte(edx, j - 1) # {}}
        \subseteq {j \in DOMAIN EdxFields : Near(edx, EdxBit(j))}
  BY <1>1, <1>3
<1>6. {j \in DOMAIN EcxFields : LowByte(ecx, j - 1) # {}}
        \subseteq {j \in DOMAIN EcxFields : Near(ecx, EcxBit(j))}
  BY <1>2, <1>4
<1> QED BY <1>5, <1>6 DEF PresentFeatures, NearFeatures, cpu_detect_features

Present == PresentFeatures(processor.edx, processor.ecx)
Mistakable == NearFeatures(processor.edx, processor.ecx)
CpuSteps == {"detect", "sse", "pae", "sse2", "apic", "booted"}
Behind(step) == cpu_step \in (CASE step = "pae" -> {"sse2", "apic", "booted"}
                                [] step = "sse2" -> {"apic", "booted"}
                                [] OTHER -> {"booted"})

\* What is enabled at each step of the boot, and that control is the three registers.
CpuInv ==
  /\ cpu_step \in CpuSteps
  /\ processor.edx \in SUBSET (0 .. 31) /\ processor.ecx \in SUBSET (0 .. 31)
  /\ ~processor.cpuid => processor.edx = {} /\ processor.ecx = {}
  /\ cpu_step # "detect" /\ processor.cpuid => features \subseteq Present \cup Mistakable
  /\ control = [cr0 |-> control.cr0, cr4 |-> control.cr4, apic |-> control.apic]
  /\ cpu_step # "detect" => Present \subseteq features
  /\ Behind("pae") /\ "pae" \in Present => PAE \in control.cr4
  /\ Behind("sse2") /\ Present \cap {"sse", "sse2"} # {} =>
       {OSFXSR, OSXMMEXCPT} \subseteq control.cr4
  /\ Behind("apic") /\ "apic" \in Present => control.apic
  /\ \/ control.cr0 = BootCr0 /\ control.cr4 \ {PAE} = BootCr4 \ {PAE}
     \/ /\ control.cr0 = (BootCr0 \ {EM}) \cup {MP}
        /\ control.cr4 \ {PAE} = (BootCr4 \cup {OSFXSR, OSXMMEXCPT}) \ {PAE}

LEMMA CpuInitInv == CpuInit => CpuInv
<1> SUFFICES ASSUME CpuInit PROVE CpuInv
  OBVIOUS
<1>1. cpu_step = "detect" /\ control = [cr0 |-> BootCr0, cr4 |-> BootCr4, apic |-> FALSE]
  BY DEF CpuInit
<1>2. ~processor.cpuid => processor.edx = {} /\ processor.ecx = {}
  BY DEF CpuInit
<1>3. processor.edx \in SUBSET (0 .. 31) /\ processor.ecx \in SUBSET (0 .. 31)
  BY CpuAssumption DEF CpuInit
<1> QED BY <1>1, <1>2, <1>3 DEF CpuInv, CpuSteps, Behind

LEMMA DetectInv == ASSUME CpuInv, Detect PROVE CpuInv'
<1>1. Present \subseteq features'
  <2>1. CASE processor.cpuid
    BY <2>1, PresentIsDetected DEF Detect, Present
  <2>2. CASE ~processor.cpuid
    <3>1. processor.edx = {} /\ processor.ecx = {}
      BY <2>2 DEF CpuInv
    <3>2. Present = {}
      BY <3>1 DEF Present, PresentFeatures
    <3> QED BY <3>2
  <2> QED BY <2>1, <2>2
<1>2. processor.cpuid => features' \subseteq Present \cup Mistakable
  <2>1. processor.edx \in SUBSET (0 .. 31) /\ processor.ecx \in SUBSET (0 .. 31)
    BY DEF CpuInv
  <2> QED BY <2>1, DetectedIsNear DEF Detect, Present, Mistakable
<1> QED BY <1>1, <1>2 DEF CpuInv, Detect, At_, CpuSteps, Behind, Present, Mistakable

\* Enabling SSE twice is enabling it once.
SseEnabled(c) ==
  /\ c.cr0 = (control.cr0 \ {EM}) \cup {MP}
  /\ c.cr4 = control.cr4 \cup {OSFXSR, OSXMMEXCPT}
  /\ c.apic = control.apic
  /\ c = [cr0 |-> c.cr0, cr4 |-> c.cr4, apic |-> c.apic]

LEMMA EnablingSets ==
  ASSUME NEW a, NEW b, NEW c
  PROVE  cpu_init_sse([cr0 |-> a, cr4 |-> b, apic |-> c])
           = [cr0 |-> (a \ {EM}) \cup {MP}, cr4 |-> b \cup {OSFXSR, OSXMMEXCPT}, apic |-> c]
<1> DEFINE d == (a \ {EM}) \cup {MP}
           e == b \cup {OSFXSR, OSXMMEXCPT}
<1>1. [[[cr0 |-> a, cr4 |-> b, apic |-> c] EXCEPT !.cr0 = d] EXCEPT !.cr4 = e]
        = [cr0 |-> d, cr4 |-> e, apic |-> c]
  <2> HIDE DEF d, e
  <2>1. [[cr0 |-> a, cr4 |-> b, apic |-> c] EXCEPT !.cr0 = d] = [cr0 |-> d, cr4 |-> b, apic |-> c]
    OBVIOUS
  <2>2. [[cr0 |-> d, cr4 |-> b, apic |-> c] EXCEPT !.cr4 = e] = [cr0 |-> d, cr4 |-> e, apic |-> c]
    OBVIOUS
  <2> QED BY <2>1, <2>2
<1>2. cpu_init_sse([cr0 |-> a, cr4 |-> b, apic |-> c])
        = [[[cr0 |-> a, cr4 |-> b, apic |-> c] EXCEPT !.cr0 = d] EXCEPT !.cr4 = e]
  BY DEF cpu_init_sse
<1> QED BY <1>1, <1>2

LEMMA EnablingIs ==
  ASSUME CpuInv
  PROVE  SseEnabled(cpu_init_sse(control)) /\ SseEnabled(cpu_enable_sse(control))
<1> PICK a, b, c : control = [cr0 |-> a, cr4 |-> b, apic |-> c]
  BY DEF CpuInv
<1>1. /\ control.cr0 = a /\ control.cr4 = b /\ control.apic = c
      /\ cpu_init_sse(control) = [cr0 |-> (a \ {EM}) \cup {MP},
                                  cr4 |-> b \cup {OSFXSR, OSXMMEXCPT}, apic |-> c]
  BY EnablingSets
<1>2. SseEnabled([cr0 |-> (a \ {EM}) \cup {MP}, cr4 |-> b \cup {OSFXSR, OSXMMEXCPT}, apic |-> c])
  BY <1>1 DEF SseEnabled
<1> QED BY <1>1, <1>2 DEF cpu_enable_sse

LEMMA EnabledOnce ==
  ASSUME CpuInv, NEW c, SseEnabled(c)
  PROVE  /\ c.cr0 = (BootCr0 \ {EM}) \cup {MP}
         /\ c.cr4 \ {PAE} = (BootCr4 \cup {OSFXSR, OSXMMEXCPT}) \ {PAE}
         /\ PAE \in control.cr4 => PAE \in c.cr4
         /\ {OSFXSR, OSXMMEXCPT} \subseteq c.cr4
         /\ c.apic = control.apic
<1>1. EM # MP /\ PAE # OSFXSR /\ PAE # OSXMMEXCPT
  BY DEF EM, MP, PAE, OSFXSR, OSXMMEXCPT
<1>2. c.cr0 = (BootCr0 \ {EM}) \cup {MP}
  BY <1>1 DEF CpuInv, SseEnabled
<1>3. \/ control.cr4 \ {PAE} = BootCr4 \ {PAE}
      \/ control.cr4 \ {PAE} = (BootCr4 \cup {OSFXSR, OSXMMEXCPT}) \ {PAE}
  BY DEF CpuInv
<1>4. c.cr4 \ {PAE} = (control.cr4 \ {PAE}) \cup {OSFXSR, OSXMMEXCPT}
  BY <1>1 DEF SseEnabled
<1>5. c.cr4 \ {PAE} = (BootCr4 \cup {OSFXSR, OSXMMEXCPT}) \ {PAE}
  BY <1>1, <1>3, <1>4
<1> QED BY <1>2, <1>5 DEF SseEnabled

LEMMA InitSseInv == ASSUME CpuInv, InitSse PROVE CpuInv'
<1>1. cpu_step = "sse" /\ cpu_step' = "pae" /\ UNCHANGED <<processor, features>>
  BY DEF InitSse, At_
<1>2. CASE control' = control
  BY <1>1, <1>2 DEF CpuInv, CpuSteps, Behind, Present, Mistakable
<1>3. CASE control' = cpu_init_sse(control)
  <2>1. SseEnabled(control')
    BY <1>3, EnablingIs
  <2> QED BY <1>1, <2>1, EnabledOnce DEF CpuInv, CpuSteps, Behind, Present, Mistakable, SseEnabled
<1> QED BY <1>2, <1>3 DEF InitSse

LEMMA SetPaeInv == ASSUME CpuInv, SetPae PROVE CpuInv'
<1>1. cpu_step = "pae" /\ cpu_step' = "sse2" /\ UNCHANGED <<processor, features>>
  BY DEF SetPae, At_
<1>2. CASE "pae" \notin features
  <2>1. control' = control
    BY <1>2 DEF SetPae
  <2> QED BY <1>1, <1>2, <2>1 DEF CpuInv, CpuSteps, Behind, Present, Mistakable
<1>3. CASE "pae" \in features
  <2>1. control' = [control EXCEPT !.cr4 = @ \cup {PAE}]
    BY <1>3 DEF SetPae
  <2>2. /\ control'.cr0 = control.cr0 /\ control'.apic = control.apic
        /\ control'.cr4 = control.cr4 \cup {PAE}
        /\ control' = [cr0 |-> control'.cr0, cr4 |-> control'.cr4, apic |-> control'.apic]
    <3> PICK a, b, c : control = [cr0 |-> a, cr4 |-> b, apic |-> c]
      BY DEF CpuInv
    <3> QED BY <2>1
  <2>3. control'.cr4 \ {PAE} = control.cr4 \ {PAE}
    BY <2>2
  <2> QED BY <1>1, <2>2, <2>3 DEF CpuInv, CpuSteps, Behind, Present, Mistakable
<1> QED BY <1>2, <1>3

LEMMA EnableSseInv == ASSUME CpuInv, EnableSse PROVE CpuInv'
<1>1. cpu_step = "sse2" /\ cpu_step' = "apic" /\ UNCHANGED <<processor, features>>
  BY DEF EnableSse, At_
<1>2. CASE features \cap {"sse", "sse2"} = {}
  <2>1. control' = control /\ Present \cap {"sse", "sse2"} = {}
    BY <1>1, <1>2 DEF EnableSse, CpuInv
  <2> QED BY <1>1, <2>1 DEF CpuInv, CpuSteps, Behind, Present, Mistakable
<1>3. CASE features \cap {"sse", "sse2"} # {}
  <2>1. SseEnabled(control')
    BY <1>3, EnablingIs DEF EnableSse
  <2> QED BY <1>1, <2>1, EnabledOnce DEF CpuInv, CpuSteps, Behind, Present, Mistakable, SseEnabled
<1> QED BY <1>2, <1>3

LEMMA EnableSmpInv == ASSUME CpuInv, EnableSmp PROVE CpuInv'
<1>1. cpu_step = "apic" /\ cpu_step' = "booted" /\ UNCHANGED <<processor, features>>
  BY DEF EnableSmp, At_
<1>2. /\ control'.cr0 = control.cr0 /\ control'.cr4 = control.cr4
      /\ "apic" \in features => control'.apic
      /\ control' = [cr0 |-> control'.cr0, cr4 |-> control'.cr4, apic |-> control'.apic]
  <2> PICK a, b, c : control = [cr0 |-> a, cr4 |-> b, apic |-> c]
    BY DEF CpuInv
  <2> QED BY DEF EnableSmp, cpu_enable_smp
<1> QED BY <1>1, <1>2 DEF CpuInv, CpuSteps, Behind, Present, Mistakable

LEMMA CpuNextInv == CpuInv /\ [CpuNext]_cpu_vars => CpuInv'
<1>1. ASSUME CpuInv, UNCHANGED cpu_vars PROVE CpuInv'
  BY <1>1 DEF cpu_vars, CpuInv, Behind, Present, Mistakable
<1> QED BY <1>1, DetectInv, InitSseInv, SetPaeInv, EnableSseInv, EnableSmpInv DEF CpuNext

\* For any answer of CPUID and any control registers at the start of the boot: a feature
\* that is there is found and enabled, and nothing but SSE and PAE is switched.
THEOREM FeaturesAreEnabled == CpuSpec => []PresentIsEnabled
<1>1. CpuInv => PresentIsEnabled
  <2> SUFFICES ASSUME CpuInv PROVE PresentIsEnabled
    OBVIOUS
  <2>1. cpu_step = "booted" => Behind("pae") /\ Behind("sse2") /\ Behind("apic")
    BY DEF Behind
  <2> QED BY <2>1 DEF CpuInv, PresentIsEnabled, Present, Mistakable
<1> QED BY <1>1, CpuInitInv, CpuNextInv, PTL DEF CpuSpec

-----------------------------------------------------------------------------
(* The calendar.                                                           *)

\* A quotient lies where it should, and only one number does.
LEMMA RestBy60 ==
  \A n \in Nat : /\ n \div 60 \in Nat /\ n % 60 \in 0 .. 59
                 /\ n = 60 * (n \div 60) + (n % 60)
  OBVIOUS

LEMMA RestBy24 ==
  \A n \in Nat : /\ n \div 24 \in Nat /\ n % 24 \in 0 .. 23
                 /\ n = 24 * (n \div 24) + (n % 24)
  OBVIOUS

LEMMA RestBy31 ==
  \A n \in Nat : /\ n \div 31 \in Nat /\ n % 31 \in 0 .. 30
                 /\ n = 31 * (n \div 31) + (n % 31)
  OBVIOUS

LEMMA RestBy12 ==
  \A n \in Nat : /\ n \div 12 \in Nat /\ n % 12 \in 0 .. 11
                 /\ n = 12 * (n \div 12) + (n % 12)
  OBVIOUS

LEMMA RestBy7 == \A n \in Nat : n % 7 \in 0 .. 6
  OBVIOUS

LEMMA QuotientByHour ==
  \A n \in Nat : /\ n \div 3600 \in Nat
                 /\ 3600 * (n \div 3600) <= n /\ n < 3600 * (n \div 3600) + 3600
  BY SMT

LEMMA OneQuotientByHour ==
  ASSUME NEW n \in Nat, NEW p \in Nat, NEW q \in Nat,
         3600 * p <= n, n < 3600 * p + 3600, 3600 * q <= n, n < 3600 * q + 3600
  PROVE  p = q
  BY SMT

LEMMA QuotientByDay ==
  \A n \in Nat : /\ n \div 86400 \in Nat
                 /\ 86400 * (n \div 86400) <= n /\ n < 86400 * (n \div 86400) + 86400
  BY SMT

LEMMA OneQuotientByDay ==
  ASSUME NEW n \in Nat, NEW p \in Nat, NEW q \in Nat,
         86400 * p <= n, n < 86400 * p + 86400, 86400 * q <= n, n < 86400 * q + 86400
  PROVE  p = q
  BY SMT

LEMMA QuotientByMonth ==
  \A n \in Nat : /\ n \div 2678400 \in Nat
                 /\ 2678400 * (n \div 2678400) <= n /\ n < 2678400 * (n \div 2678400) + 2678400
  BY SMT

LEMMA OneQuotientByMonth ==
  ASSUME NEW n \in Nat, NEW p \in Nat, NEW q \in Nat,
         2678400 * p <= n, n < 2678400 * p + 2678400, 2678400 * q <= n, n < 2678400 * q + 2678400
  PROVE  p = q
  BY SMT

LEMMA QuotientByYear ==
  \A n \in Nat : /\ n \div 32140800 \in Nat
                 /\ 32140800 * (n \div 32140800) <= n /\ n < 32140800 * (n \div 32140800) + 32140800
  BY SMT

LEMMA OneQuotientByYear ==
  ASSUME NEW n \in Nat, NEW p \in Nat, NEW q \in Nat,
         32140800 * p <= n, n < 32140800 * p + 32140800, 32140800 * q <= n, n < 32140800 * q + 32140800
  PROVE  p = q
  BY SMT


\* Seconds, minutes and hours make up a day; days, months and years the rest.
LEMMA DaySplits ==
  ASSUME NEW t \in Nat
  PROVE  t = (t % 60) + ((t \div 60) % 60) * 60 + ((t \div 3600) % 24) * 3600 + (t \div 86400) * 86400
<1>1. PICK a \in Nat, s \in 0 .. 59 : a = t \div 60 /\ s = t % 60 /\ t = 60 * a + s
  BY RestBy60
<1>2. PICK h \in Nat, m \in 0 .. 59 : h = a \div 60 /\ m = a % 60 /\ a = 60 * h + m
  BY RestBy60
<1>3. PICK d \in Nat, k \in 0 .. 23 : d = h \div 24 /\ k = h % 24 /\ h = 24 * d + k
  BY RestBy24
<1>4. /\ 3600 * h <= t /\ t < 3600 * h + 3600 /\ 86400 * d <= t /\ t < 86400 * d + 86400
      /\ t = s + m * 60 + k * 3600 + d * 86400
  <2>1. t = 60 * a + s /\ a = 60 * h + m /\ h = 24 * d + k
    BY <1>1, <1>2, <1>3
  <2> QED BY <2>1, SMT
<1>5. PICK x : x = t \div 3600
  BY SMT
<1>6. x = h
  <2>1. x \in Nat /\ 3600 * x <= t /\ t < 3600 * x + 3600
    BY <1>5, QuotientByHour
  <2> QED BY <2>1, <1>4, OneQuotientByHour
<1>7. PICK y : y = t \div 86400
  BY SMT
<1>8. y = d
  <2>1. y \in Nat /\ 86400 * y <= t /\ t < 86400 * y + 86400
    BY <1>7, QuotientByDay
  <2> QED BY <2>1, <1>4, OneQuotientByDay
<1>9. /\ t % 60 = s /\ (t \div 60) % 60 = m /\ (t \div 3600) % 24 = k /\ t \div 86400 = d
  <2>1. t % 60 = s
    BY <1>1, SMT
  <2>2. (t \div 60) % 60 = m
    BY <1>1, <1>2, SMT
  <2>3. (t \div 3600) % 24 = k
    BY <1>3, <1>5, <1>6, SMT
  <2>4. t \div 86400 = d
    BY <1>7, <1>8, SMT
  <2> QED BY <2>1, <2>2, <2>3, <2>4, SMT
<1> QED BY <1>4, <1>9, SMT

LEMMA YearSplits ==
  ASSUME NEW t \in Nat
  PROVE  t \div 86400 = ((t \div 86400) % 31) + ((t \div 2678400) % 12) * 31 + (t \div 32140800) * 372
<1>1. PICK e : e = t \div 86400
  BY SMT
<1>2. e \in Nat /\ 86400 * e <= t /\ t < 86400 * e + 86400
  BY <1>1, QuotientByDay
<1>3. PICK m \in Nat, d \in 0 .. 30 : m = e \div 31 /\ d = e % 31 /\ e = 31 * m + d
  BY <1>2, RestBy31
<1>4. PICK y \in Nat, n \in 0 .. 11 : y = m \div 12 /\ n = m % 12 /\ m = 12 * y + n
  BY RestBy12
<1>5. /\ 2678400 * m <= t /\ t < 2678400 * m + 2678400
      /\ 32140800 * y <= t /\ t < 32140800 * y + 32140800
      /\ e = d + n * 31 + y * 372
  <2>1. e = 31 * m + d /\ m = 12 * y + n
    BY <1>3, <1>4
  <2> QED BY <2>1, <1>2, SMT
<1>6. PICK x : x = t \div 2678400
  BY SMT
<1>7. x = m
  <2>1. x \in Nat /\ 2678400 * x <= t /\ t < 2678400 * x + 2678400
    BY <1>6, QuotientByMonth
  <2> QED BY <2>1, <1>5, OneQuotientByMonth
<1>8. PICK z : z = t \div 32140800
  BY SMT
<1>9. z = y
  <2>1. z \in Nat /\ 32140800 * z <= t /\ t < 32140800 * z + 32140800
    BY <1>8, QuotientByYear
  <2> QED BY <2>1, <1>5, OneQuotientByYear
<1>10. /\ t \div 86400 = e /\ (t \div 86400) % 31 = d /\ (t \div 2678400) % 12 = n
       /\ t \div 32140800 = y
  <2>1. (t \div 86400) % 31 = d
    BY <1>1, <1>3, SMT
  <2>2. (t \div 2678400) % 12 = n
    BY <1>4, <1>6, <1>7, SMT
  <2>3. t \div 32140800 = y
    BY <1>8, <1>9, SMT
  <2> QED BY <1>1, <2>1, <2>2, <2>3, SMT
<1> QED BY <1>5, <1>10, SMT

\* What the fields of a time are.
FieldsFit(tm) ==
  /\ tm.sec \in 0 .. 59 /\ tm.min \in 0 .. 59 /\ tm.hour \in 0 .. 23
  /\ tm.mday \in 1 .. 31 /\ tm.mon \in 0 .. 11 /\ tm.wday \in 0 .. 6
  /\ tm.year \in 70 .. 135

LEMMA gmtimeFits ==
  ASSUME NEW t \in Nat, t <= 2100000000
  PROVE  FieldsFit(gmtime(t))
<1>1. /\ t \div 60 \in Nat /\ t \div 3600 \in Nat /\ t \div 86400 \in Nat
      /\ t \div 2678400 \in Nat
  BY RestBy60, QuotientByHour, QuotientByDay, QuotientByMonth
<1>2. PICK y : y = t \div 32140800
  OBVIOUS
<1>3. y \in 0 .. 65
  BY <1>2, QuotientByYear
<1>4. /\ t % 60 \in 0 .. 59 /\ (t \div 60) % 60 \in 0 .. 59
      /\ (t \div 3600) % 24 \in 0 .. 23 /\ (t \div 86400) % 31 \in 0 .. 30
      /\ (t \div 2678400) % 12 \in 0 .. 11 /\ (t \div 86400) % 7 \in 0 .. 6
  <2>1. \A n \in Nat : /\ n % 60 \in 0 .. 59 /\ n % 24 \in 0 .. 23 /\ n % 31 \in 0 .. 30
                       /\ n % 12 \in 0 .. 11 /\ n % 7 \in 0 .. 6
    BY RestBy60, RestBy24, RestBy31, RestBy12, RestBy7
  <2> QED BY <1>1, <2>1
<1>5. \A d \in 0 .. 30 : 1 + d \in 1 .. 31
  OBVIOUS
<1> QED BY <1>2, <1>3, <1>4, <1>5, SMT DEF gmtime, Calendar, FieldsFit, DAY

LEMMA RoundTrip ==
  ASSUME NEW t \in Nat, t <= 2100000000
  PROVE  mktime(gmtime(t)) = t + DAY
<1> DEFINE s == t % 60
           m == (t \div 60) % 60
           h == (t \div 3600) % 24
           d == (t \div 86400) % 31
           n == (t \div 2678400) % 12
           y == t \div 32140800
           e == t \div 86400
<1>1. t = s + m * 60 + h * 3600 + e * 86400 /\ e = d + n * 31 + y * 372
  BY DaySplits, YearSplits
<1>2. s \in Nat /\ m \in Nat /\ h \in Nat /\ d \in Nat /\ n \in Nat /\ y \in Nat /\ e \in Nat
  OBVIOUS
<1>3. mktime(gmtime(t)) = s + m * 60 + h * 3600 + (1 + d) * 86400 + n * 2678400
                            + (70 + y - 70) * 32140800
  BY DEF mktime, gmtime, Calendar, DAY
<1> HIDE DEF s, m, h, d, n, y, e
<1> QED BY <1>1, <1>2, <1>3 DEF DAY

\* The text of such a time has 25 characters.
LEMMA TextFits ==
  ASSUME NEW tm, FieldsFit(tm)
  PROVE  AsctimeLength(tm) = 25
<1>1. \A n \in 0 .. 99 : Places(n, 2) = 2 /\ Places(n, 3) = 3
  BY DEF Places
<1>2. \A n \in Nat : n > 999 => Places(n, 0) = 4
  BY DEF Places
<1>3. Places(tm.mday, 3) = 3 /\ Places(tm.hour, 2) = 2 /\ Places(tm.min, 2) = 2 /\ Places(tm.sec, 2) = 2
  BY <1>1 DEF FieldsFit
<1>4. Places(1900 + tm.year, 0) = 4
  BY <1>2 DEF FieldsFit
<1> QED BY <1>3, <1>4 DEF AsctimeLength

\* Every conversion of a time with nine or ten digits, and its way back.
THEOREM TimesStayApart == TimeSpec => []TimesConvert
<1>1. TimeInit => TimesConvert
  BY DEF TimeInit, TimesConvert
<1>2. TimesConvert /\ [TimeNext]_time_vars => TimesConvert'
  <2> SUFFICES ASSUME TimesConvert, [TimeNext]_time_vars PROVE TimesConvert'
    OBVIOUS
  <2>1. ASSUME NEW t \in Times, Convert(t) PROVE TimesConvert'
    <3>1. t \in Nat /\ t <= 2100000000
      BY TimeAssumption
    <3>2. /\ mktime(gmtime(t)) = t + DAY /\ FieldsFit(gmtime(t))
          /\ AsctimeLength(gmtime(t)) + 1 <= 26
      BY <3>1, gmtimeFits, RoundTrip, TextFits
    <3>3. time_ret' = [call |-> "gmtime", t |-> t, tm |-> gmtime(t),
                       back |-> mktime(gmtime(t)), length |-> AsctimeLength(gmtime(t))]
      BY <2>1 DEF Convert
    <3> QED BY <3>2, <3>3 DEF TimesConvert, FieldsFit
  <2>2. CASE time_ret' = time_ret
    BY <2>2 DEF TimesConvert
  <2>3. CASE time_ret'.call # "gmtime"
    BY <2>3 DEF TimesConvert
  <2>4. ReadTime \/ clock_gettime \/ clock_settime => time_ret'.call # "gmtime"
    BY DEF ReadTime, clock_gettime, clock_settime
  <2>5. ASSUME NEW d \in SleepTimes, sleep_main(d[1], d[2]) \/ sleep(d[1])
        PROVE  time_ret'.call # "gmtime"
    BY <2>5 DEF sleep_main, nanosleep, delay, sleep, Loops
  <2>6. LoopStep \/ UNCHANGED time_vars => time_ret' = time_ret
    BY DEF LoopStep, time_vars
  <2> QED BY <2>1, <2>2, <2>3, <2>4, <2>5, <2>6 DEF TimeNext
<1> QED BY <1>1, <1>2, PTL DEF TimeSpec
=============================================================================
