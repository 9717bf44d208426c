-------------------------------- MODULE MCVmm --------------------------------
(***************************************************************************)
(* Instances of Vmm for TLC: pages of 2 bytes from address 4 on, sizes     *)
(* that need every number of pages, and an alignment of two pages.         *)
(***************************************************************************)
EXTENDS Vmm

MCTags == {7}

\* Every page, an address inside a page, one before the table and one after it.
MCAddrs == {0, 3, 4, 6, 7, 8, 10, 12, 14}
MCRangeInputs == {<<5, 6>>, <<8, 10>>, <<3, 4>>, <<11, 14>>}

=============================================================================
