------------------------------- MODULE PmmScan -------------------------------
(***************************************************************************)
(* The search of pmm_alloc_pages_zone for a run of free pages in a region  *)
(* (pmm.c:209-227), one step per iteration.  Pmm takes its result to be    *)
(* the first page at which a run of count clear bits starts, and this      *)
(* module says why.  The bitmap does not change while the loop runs.       *)
(***************************************************************************)
EXTENDS Integers, FiniteSetsExt

CONSTANT MaxRegionPages   \* bound: pages of the region

ASSUME PmmScanAssumption == MaxRegionPages \in Nat \ {0}

VARIABLES
  pages,         \* of the region
  bitmap,        \* its set bits
  count,         \* pages asked for, not 0 (pmm.c:202)
  pmm_i,
  consecutive,
  start_page,
  pmm_done,
  pmm_result         \* the first page of the run, a set with at most one element

pmm_scan_vars == <<pages, bitmap, count, pmm_i, consecutive, start_page, pmm_done, pmm_result>>

PmmScanInit ==
  /\ pages \in 1 .. MaxRegionPages
  /\ bitmap \in SUBSET (0 .. pages - 1)
  /\ count \in 1 .. MaxRegionPages + 1
  /\ pmm_i = 0 /\ consecutive = 0 /\ start_page = 0
  /\ pmm_done = FALSE /\ pmm_result = {}

RunStart == IF consecutive = 0 THEN pmm_i ELSE start_page

Clear ==
  /\ pmm_i \notin bitmap
  /\ start_page' = RunStart
  /\ consecutive' = consecutive + 1
  /\ IF consecutive + 1 = count
     THEN pmm_done' = TRUE /\ pmm_result' = {RunStart} /\ UNCHANGED pmm_i
     ELSE pmm_i' = pmm_i + 1 /\ UNCHANGED <<pmm_done, pmm_result>>

\* Mutant: the count goes on behind a set bit.
SetKeepsCount ==
  /\ pmm_i \in bitmap
  /\ pmm_i' = pmm_i + 1
  /\ UNCHANGED <<consecutive, start_page, pmm_done, pmm_result>>

Set ==
  /\ pmm_i \in bitmap
  /\ consecutive' = 0
  /\ pmm_i' = pmm_i + 1
  /\ UNCHANGED <<start_page, pmm_done, pmm_result>>

PmmIterate ==
  /\ ~pmm_done /\ pmm_i < pages
  /\ Clear \/ Set
  /\ UNCHANGED <<pages, bitmap, count>>

PmmGiveUp ==
  /\ ~pmm_done /\ pmm_i >= pages
  /\ pmm_done' = TRUE
  /\ UNCHANGED <<pages, bitmap, count, pmm_i, consecutive, start_page, pmm_result>>

PmmScanNext == PmmIterate \/ PmmGiveUp

\* The loop runs without interruption in the caller's thread.
PmmScanSpec == PmmScanInit /\ [][PmmScanNext]_pmm_scan_vars /\ WF_pmm_scan_vars(PmmScanNext)

-----------------------------------------------------------------------------
(* Properties.                                                             *)

\* Pages at which a run of count clear bits starts: Pmm!FreeRuns.
FreeRuns ==
  {s \in 0 .. pages - 1 : s + count <= pages /\ (s .. s + count - 1) \cap bitmap = {}}

PmmScanTypeOK ==
  /\ pages \in 1 .. MaxRegionPages
  /\ bitmap \in SUBSET (0 .. pages - 1)
  /\ count \in 1 .. MaxRegionPages + 1
  /\ pmm_i \in 0 .. pages
  /\ consecutive \in 0 .. count
  /\ start_page \in 0 .. pages - 1
  /\ pmm_done \in BOOLEAN
  /\ pmm_result \in SUBSET (0 .. pages - 1)

\* While the loop runs, the consecutive pages before pmm_i are clear and start at
\* start_page, and no run of count clear bits starts before them.
LoopInvariant ==
  ~pmm_done =>
    /\ pmm_result = {}
    /\ consecutive < count
    /\ consecutive > 0 => start_page = pmm_i - consecutive
    /\ consecutive <= pmm_i
    /\ (pmm_i - consecutive .. pmm_i - 1) \cap bitmap = {}
    /\ \A s \in FreeRuns : s >= pmm_i - consecutive

\* The loop answers the first run of count clear bits, and none only when there is none.
FirstRunFound == pmm_done => pmm_result = IF FreeRuns = {} THEN {} ELSE {Min(FreeRuns)}

\* The loop ends.
PmmScanEnds == <>pmm_done
=============================================================================
