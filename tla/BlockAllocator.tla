--------------------------- MODULE BlockAllocator ---------------------------
(***************************************************************************)
(* What a contiguous page allocator promises its callers: blocks that are  *)
(* never shared, a refusal only when nothing fits, whole blocks given back *)
(* and withheld slots never handed out.  How the place of a block is       *)
(* chosen is left open.                                                    *)
(***************************************************************************)
EXTENDS Integers

CONSTANTS
  N,        \* number of slots
  Classes   \* the sets of slots a request may restrict the start of its block to

VARIABLES
  blocks,    \* the blocks in callers' hands, as pairs <<first slot, length>>
  withheld,  \* slots that are never handed out
  answer     \* the last request and the first slot it got: <<length, class, slot>>

vars == <<blocks, withheld, answer>>

\* No slot, and what is kept of a call that is no request.
Refused == -1
OtherCall == <<0, {}, Refused>>

Slots == 0 .. N - 1
Extent(b) == b[1] .. b[1] + b[2] - 1
Taken == withheld \cup UNION {Extent(b) : b \in blocks}

\* Starts at which n slots are free.
Fits(n, class) == {s \in class : s + n <= N /\ Extent(<<s, n>>) \cap Taken = {}}

Init == blocks = {} /\ withheld = {} /\ answer = OtherCall

Alloc(n, class) ==
  /\ \/ \E s \in Fits(n, class) : blocks' = blocks \cup {<<s, n>>} /\ answer' = <<n, class, s>>
     \/ Fits(n, class) = {} /\ answer' = <<n, class, Refused>> /\ UNCHANGED blocks
  /\ UNCHANGED withheld

Free(b) ==
  /\ blocks' = blocks \ {b}
  /\ answer' = OtherCall
  /\ UNCHANGED withheld

Withhold(S) ==
  /\ S \cap UNION {Extent(b) : b \in blocks} = {}
  /\ withheld' = withheld \cup S
  /\ answer' = OtherCall
  /\ UNCHANGED blocks

\* A call with an argument the allocator does not accept, or a query.
Other == answer' = OtherCall /\ UNCHANGED <<blocks, withheld>>

Next ==
  \/ \E n \in 1 .. N, class \in Classes : Alloc(n, class)
  \/ \E b \in blocks : Free(b)
  \/ \E S \in SUBSET Slots : Withhold(S)
  \/ Other

Spec == Init /\ [][Next]_vars
=============================================================================
