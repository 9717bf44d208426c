-------------------------------- MODULE MCPmm --------------------------------
(***************************************************************************)
(* Instances of Pmm for TLC: pages of 2 bytes, words of 2 bits, an address *)
(* space of 16 frames.  The NORMAL region starts at an odd address and has *)
(* 3 pages, so that its last word is partial; the DMA region has 2 pages.  *)
(***************************************************************************)
EXTENDS Pmm

MCZones == {"DMA", "NORMAL"}
NormalRegion == [base |-> 5, size |-> 8, zone |-> "NORMAL"]
DmaRegion == [base |-> 16, size |-> 4, zone |-> "DMA"]
MCRegionInputs == {NormalRegion, DmaRegion}

MCRangeInputs == {<<0, 8>>, <<16, 17>>}
MCCounts == 0 .. 3

=============================================================================
