-------------------------------- MODULE Paging --------------------------------
(***************************************************************************)
(* usr/drivers/paging.c: the page directory, the page tables made on       *)
(* demand in frames of the physical memory manager, and the translations.  *)
(* A frame is a function from entry numbers to entries; 0 is no entry.     *)
(* Frames go to other clients too, who leave their data in them: a new     *)
(* table is not blank.  A virtual page is the pair of its two indices; the *)
(* alignment of addresses is left out.  Nothing in the kernel calls these  *)
(* functions after paging_init; a caller is supposed to, with a directory. *)
(***************************************************************************)
EXTENDS Integers, FiniteSets

CONSTANTS
  PageFrames,       \* frames of the physical memory manager, positive numbers
  PAGE_ENTRIES,
  Physical,         \* bound: frames that are mapped, 0 included
  PageFlags         \* bound: flags of a mapping

ASSUME PagingAssumption ==
  PageFrames \subseteq Nat \ {0} /\ PAGE_ENTRIES \in Nat \ {0} /\ Physical \subseteq Nat

VARIABLES
  pmm_ready,        \* external: pmm_init was called and a region added
  free_frames,      \* external: frames pmm_alloc_page may return
  borrowed,         \* frames of other clients
  frame_data,       \* contents of each frame
  current_page_directory,
  paging_enabled,   \* bit 31 of cr0
  paging_ret,
  mapping           \* history: the translations a caller has made

paging_vars == <<pmm_ready, free_frames, borrowed, frame_data, current_page_directory, paging_enabled,
                 paging_ret, mapping>>

Entries == 0 .. PAGE_ENTRIES - 1
NoFrame == 0
Absent == [present |-> FALSE, frame |-> 0, flags |-> 0]
BlankFrame == [e \in Entries |-> Absent]
DataOfClients == {[e \in Entries |-> [present |-> TRUE, frame |-> f, flags |-> 0]] : f \in PageFrames}

PagingInit ==
  /\ pmm_ready = FALSE /\ free_frames = {} /\ borrowed = {}
  /\ frame_data = [f \in PageFrames |-> BlankFrame]
  /\ current_page_directory = NoFrame /\ paging_enabled = FALSE
  /\ paging_ret = FALSE /\ mapping = <<>>

\* pmm_alloc_page: NULL before pmm_init and when every frame is given out.
Allocated(f) == IF free_frames = {} THEN f = NoFrame ELSE f \in free_frames

--------------------------------------------------------------------------------
PmmReady ==
  /\ ~pmm_ready /\ pmm_ready' = TRUE /\ free_frames' = PageFrames
  /\ UNCHANGED <<borrowed, frame_data, current_page_directory, paging_enabled, paging_ret, mapping>>

\* Another client takes a frame and fills it, or gives one back as it is.
ClientFrames ==
  /\ \/ \E f \in free_frames, d \in DataOfClients :
          /\ free_frames' = free_frames \ {f} /\ borrowed' = borrowed \union {f}
          /\ frame_data' = [frame_data EXCEPT ![f] = d]
     \/ \E f \in borrowed :
          free_frames' = free_frames \union {f} /\ borrowed' = borrowed \ {f} /\ UNCHANGED frame_data
  /\ UNCHANGED <<pmm_ready, current_page_directory, paging_enabled, paging_ret, mapping>>

paging_init ==
  /\ \E f \in PageFrames \union {NoFrame} :
       /\ Allocated(f)
       /\ IF f = NoFrame
          THEN UNCHANGED <<free_frames, frame_data, current_page_directory, paging_enabled, mapping>>
          ELSE /\ free_frames' = free_frames \ {f}
               /\ frame_data' = [frame_data EXCEPT ![f] = BlankFrame]
               /\ current_page_directory' = f /\ paging_enabled' = TRUE /\ mapping' = <<>>
  /\ UNCHANGED <<pmm_ready, borrowed, paging_ret>>

Directory == frame_data[current_page_directory]
HasDirectory == current_page_directory # NoFrame

\* Mutant: the frame of a new table keeps the data of its last owner.
TableNotBlank(f) == frame_data[f]

NewTable(f) == BlankFrame

\* The entry of v is set; its table is made first where there is none.
paging_map_page(v, phys, flags) ==
  /\ HasDirectory
  /\ LET entry == [present |-> TRUE, frame |-> phys, flags |-> flags]
         mapped == [u \in DOMAIN mapping \union {v} |-> IF u = v THEN phys ELSE mapping[u]]
     IN IF Directory[v[1]].present
        THEN /\ frame_data' = [frame_data EXCEPT ![Directory[v[1]].frame][v[2]] = entry]
             /\ paging_ret' = TRUE /\ mapping' = mapped /\ UNCHANGED free_frames
        ELSE \E f \in PageFrames \union {NoFrame} :
               /\ Allocated(f)
               /\ IF f = NoFrame
                  THEN paging_ret' = FALSE /\ UNCHANGED <<free_frames, frame_data, mapping>>
                  ELSE /\ free_frames' = free_frames \ {f}
                       /\ frame_data' =
                            [frame_data EXCEPT
                               ![f] = [NewTable(f) EXCEPT ![v[2]] = entry],
                               ![current_page_directory][v[1]] = [present |-> TRUE, frame |-> f, flags |-> 2]]
                       /\ paging_ret' = TRUE /\ mapping' = mapped
  /\ UNCHANGED <<pmm_ready, borrowed, current_page_directory, paging_enabled>>

\* The entry of v, or an absent one where there is no table.
EntryOf(v) == IF Directory[v[1]].present THEN frame_data[Directory[v[1]].frame][v[2]] ELSE Absent

paging_unmap_page(v) ==
  /\ HasDirectory
  /\ paging_ret' = EntryOf(v).present
  /\ IF EntryOf(v).present
     THEN /\ frame_data' = [frame_data EXCEPT ![Directory[v[1]].frame][v[2]] = Absent]
          /\ mapping' = [u \in DOMAIN mapping \ {v} |-> mapping[u]]
     ELSE UNCHANGED <<frame_data, mapping>>
  /\ UNCHANGED <<pmm_ready, free_frames, borrowed, current_page_directory, paging_enabled>>

paging_get_physical(v) == IF EntryOf(v).present THEN EntryOf(v).frame ELSE 0

VirtualPages == Entries \X Entries

PagingNext ==
  \/ PmmReady \/ ClientFrames \/ paging_init
  \/ \E v \in VirtualPages :
       \/ \E phys \in Physical, flags \in PageFlags : paging_map_page(v, phys, flags)
       \/ paging_unmap_page(v)

PagingSpec == PagingInit /\ [][PagingNext]_paging_vars

--------------------------------------------------------------------------------
\* An address translates to what it was last mapped to and to nothing else,
\* whatever the frames of the tables held before, whichever allocation failed
\* and however often a new directory was made (paging.c:17-88).
TranslationIsMapping ==
  HasDirectory =>
    \A v \in VirtualPages :
      /\ EntryOf(v).present <=> v \in DOMAIN mapping
      /\ v \in DOMAIN mapping => paging_get_physical(v) = mapping[v]
================================================================================
