---------------------------------- MODULE Srp ----------------------------------
(***************************************************************************)
(* kern/srp.c, kern/refcnt.c and the list macros of sys/srp.h: one list of *)
(* shared references with one collector, a writer that holds the caller's  *)
(* lock and changes the list one reference at a time, and readers that     *)
(* follow the references without the lock.  The kernel is not built with   *)
(* MULTIPROCESSOR, so srp_enter is a plain load and nothing is hazarded.   *)
(* srpl_ref and the destructor belong to the list's owner: of them only    *)
(* the number of times the destructor runs is kept.                        *)
(***************************************************************************)
EXTENDS Integers, FiniteSets

CONSTANTS Elements, SrpReaders

ListHead == "head"
NULL == "NULL"
Done == "finished"

ASSUME SrpAssumption == IsFiniteSet(Elements) /\ Elements \cap {ListHead, NULL, Done} = {}

VARIABLES
  srp_ref,       \* the reference in the head of the list and in each element
  r_refs,        \* count of the collector
  owner,         \* the collector's owner has not called srp_gc_finalize
  dtor_calls,    \* how often the destructor ran
  writer,        \* the macro the writer is in the middle of
  reader,        \* element each reader stands on
  srp_seen,      \* history: the elements each reader has stood on
  stayed,        \* history: elements in the list ever since the reader began
  disturbed      \* history: readers whose element was removed under them

srp_vars == <<srp_ref, r_refs, owner, dtor_calls, writer, reader, srp_seen, stayed, disturbed>>

References == Elements \union {ListHead}
NoWriter == [op |-> "none"]

\* The elements reached from the head by following references.
Linked == LET reach[n \in 0 .. Cardinality(Elements)] ==
                IF n = 0 THEN {srp_ref[ListHead]} \ {NULL}
                ELSE reach[n - 1] \union ({srp_ref[x] : x \in reach[n - 1]} \ {NULL})
          IN reach[Cardinality(Elements)]

SrpInit ==
  /\ srp_ref = [x \in References |-> NULL]
  /\ r_refs = 1 /\ owner = TRUE
  /\ dtor_calls = 0 /\ writer = NoWriter
  /\ reader = [r \in SrpReaders |-> NULL]
  /\ srp_seen = [r \in SrpReaders |-> {}] /\ stayed = [r \in SrpReaders |-> {}]
  /\ disturbed = {}

--------------------------------------------------------------------------------
\* refcnt_take and refcnt_rele together: the new count, and whether it fell to zero.
Taken(ptr) == IF ptr # NULL THEN 1 ELSE 0

\* srp_update_locked(gc, x, ptr) on the references refs; an object that was
\* replaced is destroyed only when the count of the whole collector falls to zero.
srp_update_locked(refs, x, ptr) ==
  LET old == refs[x]
      left == r_refs + Taken(ptr) - Taken(old)
      dies == old # NULL /\ left = 0
  IN /\ srp_ref' = [refs EXCEPT ![x] = ptr]
     /\ r_refs' = left
     /\ dtor_calls' = IF dies THEN dtor_calls + 1 ELSE dtor_calls

\* Mutant: the element is linked before its own reference is set.
InsertLinksFirst(x, e) ==
  /\ owner /\ writer = NoWriter /\ e \notin Linked /\ x \in Linked \union {ListHead}
  /\ writer' = [op |-> "insert", at |-> e, e |-> srp_ref[x]]
  /\ srp_update_locked([srp_ref EXCEPT ![e] = NULL], x, e)
  /\ UNCHANGED <<owner, reader, srp_seen, stayed, disturbed>>

\* SRPL_INSERT_HEAD_LOCKED and SRPL_INSERT_AFTER_LOCKED: first the element's own
\* reference, to what follows x; srp_init forgets what it held before.
InsertPrepare(x, e) ==
  /\ owner /\ writer = NoWriter /\ e \notin Linked /\ x \in Linked \union {ListHead}
  /\ writer' = [op |-> "insert", at |-> x, e |-> e]
  /\ LET refs == [srp_ref EXCEPT ![e] = NULL]
     IN IF srp_ref[x] = NULL
        THEN srp_ref' = refs /\ UNCHANGED <<r_refs, dtor_calls>>
        ELSE srp_update_locked(refs, e, srp_ref[x])
  /\ UNCHANGED <<owner, reader, srp_seen, stayed, disturbed>>

\* Then the reference to the element.
InsertLink ==
  /\ writer.op = "insert"
  /\ srp_update_locked(srp_ref, writer.at, writer.e)
  /\ writer' = NoWriter
  /\ UNCHANGED <<owner, reader, srp_seen, stayed, disturbed>>

\* SRPL_REMOVE_LOCKED: the reference to e is set to what follows e.
RemoveUnlink(e) ==
  /\ writer = NoWriter /\ e \in Linked
  /\ LET x == CHOOSE y \in References : y \in Linked \union {ListHead} /\ srp_ref[y] = e
     IN srp_update_locked(srp_ref, x, srp_ref[e])
  /\ writer' = [op |-> "remove", e |-> e]
  /\ stayed' = [r \in SrpReaders |-> stayed[r] \ {e}]
  /\ disturbed' = disturbed \union {r \in SrpReaders : reader[r] = e}
  /\ UNCHANGED <<owner, reader, srp_seen>>

\* Mutant: the removed element keeps its reference.
RemoveKeepsReference ==
  /\ writer.op = "remove" /\ writer' = NoWriter
  /\ UNCHANGED <<srp_ref, r_refs, owner, dtor_calls, reader, srp_seen, stayed, disturbed>>

\* Then the removed element's own reference is cleared.
RemoveClear ==
  /\ writer.op = "remove"
  /\ srp_update_locked(srp_ref, writer.e, NULL)
  /\ writer' = NoWriter
  /\ UNCHANGED <<owner, reader, srp_seen, stayed, disturbed>>

srp_gc_finalize ==
  /\ owner /\ writer = NoWriter /\ owner' = FALSE
  /\ r_refs' = r_refs - 1
  /\ dtor_calls' = IF r_refs = 1 THEN dtor_calls + 1 ELSE dtor_calls
  /\ UNCHANGED <<srp_ref, writer, reader, srp_seen, stayed, disturbed>>

\* SRPL_FIRST and SRPL_FOLLOW: srp_enter is a plain load.
srp_enter(r, x) ==
  /\ reader' = [reader EXCEPT ![r] = IF srp_ref[x] = NULL THEN Done ELSE srp_ref[x]]
  /\ srp_seen' = [srp_seen EXCEPT ![r] = (IF x = ListHead THEN {} ELSE @) \union ({srp_ref[x]} \ {NULL})]

ReaderBegins(r) ==
  /\ reader[r] \in {NULL, Done}
  /\ srp_enter(r, ListHead)
  /\ stayed' = [stayed EXCEPT ![r] = Linked]
  /\ disturbed' = disturbed \ {r}
  /\ UNCHANGED <<srp_ref, r_refs, owner, dtor_calls, writer>>

ReaderFollows(r) ==
  /\ reader[r] \in Elements
  /\ srp_enter(r, reader[r])
  /\ UNCHANGED <<srp_ref, r_refs, owner, dtor_calls, writer, stayed, disturbed>>

SrpNext ==
  \/ \E x \in References, e \in Elements : InsertPrepare(x, e)
  \/ InsertLink
  \/ \E e \in Elements : RemoveUnlink(e)
  \/ RemoveClear
  \/ srp_gc_finalize
  \/ \E r \in SrpReaders : ReaderBegins(r) \/ ReaderFollows(r)

SrpSpec == SrpInit /\ [][SrpNext]_srp_vars

--------------------------------------------------------------------------------
\* The collector counts its owner and every reference in the list and in its
\* elements, and the destructor runs once, when there are none left
\* (srp.c:32-59 with the macros of srp.h).
CollectorIsExact ==
  /\ r_refs = (IF owner THEN 1 ELSE 0) + Cardinality({x \in References : srp_ref[x] # NULL})
  /\ dtor_calls = IF r_refs = 0 THEN 1 ELSE 0

\* A reader without the lock that came to the end of the list, and whose own
\* element was never removed under it, has seen every element that stayed in
\* the list meanwhile (the order of the two updates in each macro, srp.h:149-195).
ReadersSeeWhatStays ==
  \A r \in SrpReaders : reader[r] = Done /\ r \notin disturbed => stayed[r] \subseteq srp_seen[r]

================================================================================
