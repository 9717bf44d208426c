------------------------------- MODULE VmmScan -------------------------------
(***************************************************************************)
(* The loop of vmm_alloc_internal (vmm.c:50-90), one step per iteration.   *)
(* It skips ahead by more than one page in two places; Vmm takes its       *)
(* result to be the first page at which the request fits, and this module  *)
(* says why.                                                               *)
(*                                                                         *)
(* The table does not change while the loop runs, so only its states are   *)
(* kept; aligned is the set of pages whose address is a multiple of align. *)
(***************************************************************************)
EXTENDS Integers, FiniteSetsExt

CONSTANT MaxPages   \* VMM_MAX_PAGES

ASSUME VmmScanAssumption == MaxPages \in Nat \ {0}

VARIABLES
  state,          \* of the pages
  pages_needed,
  aligned,        \* pages at which the block may start
  vmm_i,              \* the loop variable
  vmm_done,           \* the function has returned
  vmm_result          \* the page whose address it returned, a set with at most one element

vmm_scan_vars == <<state, pages_needed, aligned, vmm_i, vmm_done, vmm_result>>

Pages == 0 .. MaxPages - 1
Run(s) == s .. s + pages_needed - 1
LastStart == MaxPages - pages_needed

VmmScanInit ==
  /\ state \in [Pages -> {"FREE", "USED", "RESERVED"}]
  /\ pages_needed \in 1 .. MaxPages
  /\ aligned \in SUBSET Pages
  /\ vmm_i = 0
  /\ vmm_done = FALSE
  /\ vmm_result = {}

Unaligned == vmm_i \notin aligned

\* Offsets of pages of the run at vmm_i that are not free.
Obstacles == {j \in 0 .. pages_needed - 1 : state[vmm_i + j] # "FREE"}

\* Mutant: the loop does not go on.
StayAtReserved ==
  /\ state[vmm_i] = "RESERVED"
  /\ UNCHANGED <<vmm_i, vmm_done, vmm_result>>

SkipReserved ==
  /\ state[vmm_i] = "RESERVED"
  /\ vmm_i' = vmm_i + 1
  /\ UNCHANGED <<vmm_done, vmm_result>>

\* On to the next aligned page, if the block would still fit there.
SkipToAligned ==
  /\ state[vmm_i] # "RESERVED" /\ Unaligned
  /\ LET ahead == {k \in aligned : vmm_i < k /\ k <= LastStart}
     IN vmm_i' = IF ahead = {} THEN vmm_i + 1 ELSE Min(ahead)
  /\ UNCHANGED <<vmm_done, vmm_result>>

\* Mutant: past the whole run and one more page.
SkipRun ==
  /\ state[vmm_i] # "RESERVED" /\ ~Unaligned /\ Obstacles # {}
  /\ vmm_i' = vmm_i + pages_needed + 1
  /\ UNCHANGED <<vmm_done, vmm_result>>

\* Past the first page of the run that is not free.
SkipObstacle ==
  /\ state[vmm_i] # "RESERVED" /\ ~Unaligned /\ Obstacles # {}
  /\ vmm_i' = vmm_i + Min(Obstacles) + 1
  /\ UNCHANGED <<vmm_done, vmm_result>>

TakeRun ==
  /\ state[vmm_i] # "RESERVED" /\ ~Unaligned /\ Obstacles = {}
  /\ vmm_result' = {vmm_i}
  /\ vmm_done' = TRUE
  /\ UNCHANGED vmm_i

VmmIterate ==
  /\ ~vmm_done /\ vmm_i <= LastStart
  /\ SkipReserved \/ SkipToAligned \/ SkipObstacle \/ TakeRun
  /\ UNCHANGED <<state, pages_needed, aligned>>

VmmGiveUp ==
  /\ ~vmm_done /\ vmm_i > LastStart
  /\ vmm_done' = TRUE
  /\ UNCHANGED <<state, pages_needed, aligned, vmm_i, vmm_result>>

VmmScanNext == VmmIterate \/ VmmGiveUp

\* The loop runs without interruption in the caller's thread.
VmmScanSpec == VmmScanInit /\ [][VmmScanNext]_vmm_scan_vars /\ WF_vmm_scan_vars(VmmScanNext)

-----------------------------------------------------------------------------
(* Properties.                                                             *)

\* Pages at which the request fits: Vmm!Fits.
Fits ==
  {s \in aligned : s <= LastStart /\ \A p \in Run(s) : state[p] = "FREE"}

\* Types: the run at vmm_i stays inside the table while the loop reads it (vmm.c:50, 71).
VmmScanTypeOK ==
  /\ state \in [Pages -> {"FREE", "USED", "RESERVED"}]
  /\ pages_needed \in 1 .. MaxPages
  /\ aligned \in SUBSET Pages
  /\ vmm_i \in 0 .. MaxPages
  /\ vmm_done \in BOOLEAN
  /\ vmm_result \in SUBSET Pages

\* No jump of the loop passes a page at which the request fits (vmm.c:63, 73).
NothingSkipped == \A s \in Fits : s >= vmm_i

\* The loop answers the first page at which the request fits, and NULL only when
\* there is none.
FirstFitFound == vmm_done => vmm_result = IF Fits = {} THEN {} ELSE {Min(Fits)}

\* The loop ends.
VmmScanEnds == <>vmm_done
=============================================================================
