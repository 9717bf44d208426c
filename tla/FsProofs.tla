----------------------------- MODULE FsProofs -----------------------------
(***************************************************************************)
(* Theorems about Fs, Fd and MCFiles for arrays of any size and any calls, *)
(* by name and by descriptor.  Each changes at most one slot: it places an *)
(* entry in a free one, erases one, or changes an entry without moving it. *)
(* The tree stays a tree because the entries have depths: one more than    *)
(* the depth of the directory they are in.                                 *)
(***************************************************************************)
EXTENDS MCFiles, MinLemmas, FiniteSetTheorems

\* What holds of the data of every slot, in use or not.
DataOK(e) ==
  /\ e.position <= e.size
  /\ e.size <= MaxFileSize => e.size <= e.allocated_size
  /\ e.is_dir => e.size = 0 /\ e.allocated_size = 0 /\ e.position = 0

EntriesOK == \A i \in Slots : DataOK(files[i])

\* The depths are those of a tree.
IsDepth(d) ==
  /\ d \in [Slots -> Nat] /\ d[Root] = 0
  /\ \A i \in Live \ {Root} : d[i] = d[files[i].parent] + 1
HasDepths == \E d : IsDepth(d)

\* What the calls by name keep, and with the descriptors.
FsInv == TypeOK /\ EntriesOK /\ CountIsExact /\ NoDanglingParent /\ HasDepths
FilesInv == FsInv /\ FdTypeOK

-----------------------------------------------------------------------------
(* Numbers.                                                                *)

LEMMA MinOfTwo ==
  ASSUME NEW a \in Int, NEW b \in Int
  PROVE  Min({a, b}) = IF a <= b THEN a ELSE b
<1> DEFINE m == IF a <= b THEN a ELSE b
<1>1. m \in {a, b} /\ \A y \in {a, b} : m <= y
  OBVIOUS
<1>2. Min({a, b}) \in {a, b} /\ \A y \in {a, b} : Min({a, b}) <= y
  BY <1>1 DEF Min
<1> QED BY <1>2

LEMMA MaxOfTwo ==
  ASSUME NEW a \in Int, NEW b \in Int
  PROVE  Max({a, b}) = IF a >= b THEN a ELSE b
<1> DEFINE m == IF a >= b THEN a ELSE b
<1>1. m \in {a, b} /\ \A y \in {a, b} : m >= y
  OBVIOUS
<1>2. Max({a, b}) \in {a, b} /\ \A y \in {a, b} : Max({a, b}) >= y
  BY <1>1 DEF Max
<1> QED BY <1>2

\* Whole blocks hold what they were counted for.
LEMMA WholeBlocks ==
  ASSUME NEW s \in Nat
  PROVE  ((s + BlockSize - 1) \div BlockSize) * BlockSize \in Nat
         /\ ((s + BlockSize - 1) \div BlockSize) * BlockSize >= s
<1>1. BlockSize \in Nat /\ BlockSize > 0
  BY FsAssumption
<1> DEFINE a == s + BlockSize - 1
           q == a \div BlockSize
<1>2. a \in Nat
  BY <1>1
<1>3. q \in Nat /\ q * BlockSize \in Nat /\ a < q * BlockSize + BlockSize
  <2> HIDE DEF a
  <2> QED BY <1>1, <1>2
<1> HIDE DEF q
<1>4. q * BlockSize \in Nat /\ q * BlockSize >= s
  BY <1>1, <1>3
<1> QED BY <1>4 DEF q

-----------------------------------------------------------------------------
(* Entries.                                                                *)

LEMMA SlotFacts == Root \in Slots /\ Slots \subseteq Nat /\ NULL \notin Slots /\ IsFiniteSet(Slots)
                   /\ Cardinality(Slots) = MaxFiles
BY FsAssumption, FS_Interval DEF Root, Slots, NULL

LEMMA NewEntries ==
  ASSUME NEW name \in Names, current_dir \in Slots
  PROVE  /\ Zeroed \in Entry /\ DataOK(Zeroed)
         /\ NewDir(name, current_dir) \in Entry /\ DataOK(NewDir(name, current_dir))
         /\ NewDir(name, current_dir).parent = current_dir /\ NewDir(name, current_dir).name = name
         /\ \A perms \in SUBSET AllPerms :
              /\ NewFile(name, perms) \in Entry /\ DataOK(NewFile(name, perms))
              /\ NewFile(name, perms).parent = current_dir /\ NewFile(name, perms).name = name
<1>1. BlockSize \in Nat
  BY FsAssumption
<1>2. Zeroed \in Entry /\ DataOK(Zeroed)
  BY DEF Zeroed, Entry, DataOK
<1>4. /\ NewDir(name, current_dir) \in Entry /\ DataOK(NewDir(name, current_dir))
      /\ NewDir(name, current_dir).parent = current_dir /\ NewDir(name, current_dir).name = name
  <2>1. NewDir(name, current_dir) \in Entry
    BY <1>2 DEF NewDir, Entry
  <2>2. /\ NewDir(name, current_dir).parent = current_dir /\ NewDir(name, current_dir).name = name
        /\ NewDir(name, current_dir).size = 0
        /\ NewDir(name, current_dir).allocated_size = 0 /\ NewDir(name, current_dir).position = 0
    BY DEF NewDir, Zeroed
  <2> QED BY <2>1, <2>2 DEF DataOK
<1>5. ASSUME NEW perms \in SUBSET AllPerms
      PROVE  /\ NewFile(name, perms) \in Entry /\ DataOK(NewFile(name, perms))
             /\ NewFile(name, perms).parent = current_dir /\ NewFile(name, perms).name = name
  <2>1. NewFile(name, perms) \in Entry
    BY <1>1, <1>2 DEF NewFile, Entry
  <2>2. /\ NewFile(name, perms).parent = current_dir /\ NewFile(name, perms).size = 0
        /\ NewFile(name, perms).allocated_size = BlockSize /\ NewFile(name, perms).position = 0
        /\ NewFile(name, perms).is_dir = FALSE /\ NewFile(name, perms).name = name
    BY DEF NewFile, Zeroed
  <2> QED BY <1>1, <2>1, <2>2 DEF DataOK
<1> QED BY <1>2, <1>4, <1>5

\* A file that is resized has a buffer that holds it.
LEMMA ResizedEntry ==
  ASSUME NEW e \in Entry, NEW n \in Nat
  PROVE  /\ Resized(e, n) \in Entry
         /\ Resized(e, n).size = IF n <= MaxFileSize THEN n ELSE MaxFileSize
         /\ Resized(e, n).size <= Resized(e, n).allocated_size
         /\ Resized(e, n).parent = e.parent /\ Resized(e, n).is_dir = e.is_dir
         /\ Resized(e, n).name = e.name /\ Resized(e, n).is_open = e.is_open
<1> DEFINE size == IF n <= MaxFileSize THEN n ELSE MaxFileSize
           blocks == (size + BlockSize - 1) \div BlockSize
<1>1. size \in Nat /\ MaxFileSize \in Nat
  BY FsAssumption
<1>2. Min({n, MaxFileSize}) = size
  BY <1>1, MinOfTwo
<1>3. blocks * BlockSize \in Nat /\ blocks * BlockSize >= size
  BY <1>1, WholeBlocks
<1>4. Resized(e, n) = [e EXCEPT !.size = size,
                                !.allocated_size = IF size > @ THEN blocks * BlockSize ELSE @]
  BY <1>2 DEF Resized
<1> HIDE DEF size, blocks
<1>5. e.allocated_size \in Nat
  BY DEF Entry
<1>6. /\ Resized(e, n) \in Entry /\ Resized(e, n).size = size
      /\ Resized(e, n).allocated_size = IF size > e.allocated_size THEN blocks * BlockSize
                                        ELSE e.allocated_size
      /\ Resized(e, n).parent = e.parent /\ Resized(e, n).is_dir = e.is_dir
      /\ Resized(e, n).name = e.name /\ Resized(e, n).is_open = e.is_open
  BY <1>1, <1>3, <1>4 DEF Entry
<1>7. Resized(e, n).size <= Resized(e, n).allocated_size
  BY <1>1, <1>3, <1>5, <1>6
<1> QED BY <1>6, <1>7 DEF size

\* Entries whose place in the tree is the same.
SamePlace(e, f) == e.parent = f.parent /\ e.is_dir = f.is_dir /\ e.name = f.name

\* What writing leaves, by whichever interface.
LEMMA WrittenEntry ==
  ASSUME NEW e \in Entry, DataOK(e), NEW r \in Entry, SamePlace(r, e), NEW end \in Nat,
         \/ r = e /\ (end <= e.size \/ end <= e.allocated_size) /\ (e.is_dir => end = 0)
         \/ r = Resized(e, end) /\ ~e.is_dir
  PROVE  LET w == [r EXCEPT !.position = end, !.size = Max({@, end})]
         IN w \in Entry /\ DataOK(w) /\ SamePlace(w, e)
<1>1. r.size \in Nat /\ e.size \in Nat /\ r.allocated_size \in Nat /\ e.allocated_size \in Nat
  BY DEF Entry
<1> DEFINE size == IF r.size >= end THEN r.size ELSE end
           w == [r EXCEPT !.position = end, !.size = size]
<1>2. Max({r.size, end}) = size /\ size \in Nat
  BY <1>1, MaxOfTwo
<1>3. w \in Entry /\ w.position = end /\ w.size = size /\ w.allocated_size = r.allocated_size
      /\ SamePlace(w, e) /\ w.is_dir = r.is_dir
  BY <1>2 DEF Entry, SamePlace
<1>4. DataOK(w)
  <2>1. CASE r = e /\ (end <= e.size \/ end <= e.allocated_size) /\ (e.is_dir => end = 0)
    <3>1. size <= MaxFileSize => size <= e.allocated_size
      BY <1>1, <2>1 DEF DataOK
    <3>2. e.is_dir => size = 0
      BY <1>1, <2>1 DEF DataOK
    <3> QED BY <1>1, <1>3, <2>1, <3>1, <3>2 DEF DataOK
  <2>2. CASE r = Resized(e, end) /\ ~e.is_dir
    <3>1. /\ r.size = IF end <= MaxFileSize THEN end ELSE MaxFileSize
          /\ r.size <= r.allocated_size /\ MaxFileSize \in Nat
      BY <2>2, ResizedEntry, FsAssumption
    <3> QED BY <1>1, <1>3, <2>2, <3>1 DEF DataOK, SamePlace
  <2> QED BY <2>1, <2>2
<1> QED BY <1>2, <1>3, <1>4

-----------------------------------------------------------------------------
(* What a call changes.                                                    *)

Stays == UNCHANGED <<files, free_list, file_count, current_dir>>

Changed(f, e) ==
  /\ f \in Slots /\ e \in Entry /\ DataOK(e) /\ SamePlace(e, files[f])
  /\ f \in free_list => e = Zeroed
  /\ files' = [files EXCEPT ![f] = e]
  /\ UNCHANGED <<free_list, file_count, current_dir>>

\* The same with another name, as mv gives one.
Replaced(f, e) ==
  /\ f \in Slots /\ e \in Entry /\ DataOK(e)
  /\ e.parent = files[f].parent /\ e.is_dir = files[f].is_dir
  /\ f \in free_list => e = Zeroed
  /\ files' = [files EXCEPT ![f] = e]
  /\ UNCHANGED <<free_list, file_count, current_dir>>

Placed(e) ==
  /\ free_list # {} /\ e \in Entry /\ DataOK(e) /\ e.parent = current_dir /\ ~Found(e.name)
  /\ files' = [files EXCEPT ![FreeSlot] = e]
  /\ free_list' = free_list \ {FreeSlot}
  /\ file_count' = file_count + 1
  /\ UNCHANGED current_dir

Removed(f) ==
  /\ f \in Live \ {Root} /\ \A i \in Live : files[i].parent # f
  /\ files' = [files EXCEPT ![f] = Zeroed]
  /\ free_list' = free_list \cup {f}
  /\ file_count' = file_count - 1
  /\ current_dir' = IF current_dir = f THEN files[f].parent ELSE current_dir

Moved ==
  /\ current_dir' \in Live /\ files[current_dir'].is_dir
  /\ UNCHANGED <<files, free_list, file_count>>

OneSlot ==
  \/ Stays \/ Moved
  \/ \E f \in Slots, e \in Entry : Changed(f, e)
  \/ \E e \in Entry : Placed(e)
  \/ \E f \in Slots : Removed(f)

LEMMA SlotEntry ==
  ASSUME FsInv, NEW i \in Slots
  PROVE  /\ files[i] \in Entry /\ DataOK(files[i])
         /\ files[i].size \in Nat /\ files[i].position \in Nat /\ files[i].allocated_size \in Nat
         /\ files[i].is_open \in BOOLEAN /\ files[i].is_dir \in BOOLEAN
         /\ files[i].parent \in Slots \cup {NULL}
         /\ i \in free_list => files[i] = Zeroed
<1>1. files[i] \in Entry /\ (i \in free_list => files[i] = Zeroed)
  BY DEF FsInv, TypeOK
<1> QED BY <1>1 DEF FsInv, EntriesOK, Entry

\* A name that is found is one of a live entry of the current directory.
LEMMA FoundEntry ==
  ASSUME FsInv, NEW name \in Names, Found(name)
  PROVE  /\ FindFile(name) \in Live /\ FindFile(name) \in Slots
         /\ files[FindFile(name)].parent = current_dir /\ current_dir \in Live
<1>1. Matches(name, current_dir) \in SUBSET Nat /\ Matches(name, current_dir) # {}
  BY SlotFacts DEF Matches, Live, Found
<1>2. FindFile(name) \in Matches(name, current_dir)
  BY <1>1, MinIsLeast DEF FindFile
<1> QED BY <1>2 DEF Matches, Live, FsInv, NoDanglingParent

LEMMA FreeSlotIsFree ==
  ASSUME FsInv, free_list # {}
  PROVE  FreeSlot \in free_list /\ FreeSlot \in Slots
<1>1. free_list \in SUBSET Nat /\ free_list \subseteq Slots
  BY SlotFacts DEF FsInv, TypeOK
<1> QED BY <1>1, MinIsLeast DEF FreeSlot

LEMMA RootIsNotFound ==
  ASSUME FsInv, NEW name \in Names, Found(name)
  PROVE  FindFile(name) # Root
<1>1. files[FindFile(name)].parent = current_dir /\ current_dir \in Slots
  BY FoundEntry DEF FsInv, TypeOK
<1> QED BY <1>1, SlotFacts DEF FsInv, NoDanglingParent

\* Opening, closing and moving the position inside a file.
LEMMA MarkedEntry ==
  ASSUME NEW e \in Entry, DataOK(e), NEW open \in BOOLEAN
  PROVE  LET m == [e EXCEPT !.is_open = open] IN m \in Entry /\ DataOK(m) /\ SamePlace(m, e)
BY DEF Entry, DataOK, SamePlace

LEMMA MovedEntry ==
  ASSUME NEW e \in Entry, DataOK(e), NEW position \in Nat, position <= e.size
  PROVE  LET m == [e EXCEPT !.position = position] IN m \in Entry /\ DataOK(m) /\ SamePlace(m, e)
<1>1. e.size \in Nat
  BY DEF Entry
<1>2. e.is_dir => position = 0
  BY <1>1 DEF DataOK
<1> QED BY <1>1, <1>2 DEF Entry, DataOK, SamePlace

LEMMA OpenedEntry ==
  ASSUME NEW e \in Entry, DataOK(e), NEW size \in Nat, size = e.size \/ size = 0
  PROVE  LET m == [e EXCEPT !.is_open = TRUE, !.position = 0, !.size = size]
         IN m \in Entry /\ DataOK(m) /\ SamePlace(m, e)
<1> DEFINE m == [e EXCEPT !.is_open = TRUE, !.position = 0, !.size = size]
<1>1. e.size \in Nat /\ e.allocated_size \in Nat
  BY DEF Entry
<1>2. /\ m \in Entry /\ m.size = size /\ m.position = 0 /\ m.allocated_size = e.allocated_size
      /\ m.is_dir = e.is_dir /\ m.parent = e.parent /\ m.name = e.name
  BY DEF Entry
<1> HIDE DEF m
<1>3. DataOK(m)
  BY <1>1, <1>2 DEF DataOK
<1>4. SamePlace(m, e)
  BY <1>2 DEF SamePlace
<1> QED BY <1>2, <1>3, <1>4 DEF m

-----------------------------------------------------------------------------
(* The calls of fs.c.                                                      *)

LEMMA GrowStep ==
  ASSUME FsInv, NEW name \in Names, Grow(name)
  PROVE  OneSlot
<1>1. current_dir \in Slots
  BY DEF FsInv, TypeOK
<1>2. ASSUME NEW call, Refused(call, name) PROVE OneSlot
  BY <1>2 DEF Refused, Reply, OneSlot, Stays
<1>3. ASSUME NEW call, NEW e \in Entry, DataOK(e), e.parent = current_dir, e.name = name,
             Place(call, name, e)
      PROVE  OneSlot
  BY <1>3 DEF Place, OneSlot, Placed
<1>4. DefaultPerms \in SUBSET AllPerms /\ PermInputs \subseteq SUBSET AllPerms
  BY FsAssumption DEF DefaultPerms, AllPerms
<1>5. ASSUME NEW perms \in SUBSET AllPerms, FsCreateWithPerms(name, perms) PROVE OneSlot
  BY <1>1, <1>2, <1>3, <1>5, NewEntries DEF FsCreateWithPerms
<1>6. ASSUME FsMkdir(name) PROVE OneSlot
  BY <1>1, <1>2, <1>3, <1>6, NewEntries DEF FsMkdir
<1> QED BY <1>4, <1>5, <1>6 DEF Grow, FsCreate

LEMMA DeleteStep ==
  ASSUME FsInv, NEW name \in Names, FsDelete(name)
  PROVE  OneSlot
<1>1. ASSUME NEW value, Reply("delete", name, value) PROVE OneSlot
  BY <1>1 DEF Reply, OneSlot, Stays
<1>2. ASSUME Found(name), NEW f, f = FindFile(name), DeleteError(f) = "SUCCESS",
             files' = [files EXCEPT ![f] = Erased(files[f])],
             free_list' = free_list \cup {f}, file_count' = file_count - 1,
             current_dir' = IF current_dir = f THEN files[f].parent ELSE current_dir
      PROVE  OneSlot
  <2>1. f \in Slots /\ f \in Live /\ f # Root
    BY <1>2, FoundEntry, RootIsNotFound
  <2>2. ~(files[f].is_dir /\ HasChildren(f))
    BY <1>2, <2>1, SlotEntry DEF DeleteError
  <2>3. \A i \in Live : files[i].parent # f
    <3> SUFFICES ASSUME NEW i \in Live, files[i].parent = f PROVE FALSE
      OBVIOUS
    <3>1. i # Root
      BY <2>1, SlotFacts DEF FsInv, NoDanglingParent
    <3>2. files[f].is_dir
      BY <3>1 DEF FsInv, NoDanglingParent
    <3> QED BY <2>2, <3>2 DEF HasChildren
  <2>4. Removed(f)
    BY <1>2, <2>1, <2>3 DEF Removed, Erased
  <2> QED BY <2>1, <2>4 DEF OneSlot
<1> QED BY <1>1, <1>2 DEF FsDelete

LEMMA ChangedStep ==
  ASSUME FsInv, NEW f \in Slots, NEW e, UpdateFile(f, e), e \in Entry, DataOK(e),
         SamePlace(e, files[f]), f \in free_list => e = Zeroed
  PROVE  OneSlot
BY DEF UpdateFile, OneSlot, Changed

LEMMA ReadNameStep ==
  ASSUME FsInv, NEW name \in Names, NEW length \in Nat, FsRead(name, length)
  PROVE  OneSlot
<1>1. ASSUME NEW call, NEW value, Reply(call, name, value) PROVE OneSlot
  BY <1>1 DEF Reply, OneSlot, Stays
<1>2. ASSUME Found(name), NEW e, UpdateFile(FindFile(name), e), e \in Entry, DataOK(e),
             SamePlace(e, files[FindFile(name)])
      PROVE  OneSlot
  <2>1. FindFile(name) \in Slots /\ FindFile(name) \notin free_list
    BY <1>2, FoundEntry DEF Live
  <2> QED BY <1>2, <2>1, ChangedStep
<1>3. Found(name) => /\ files[FindFile(name)] \in Entry /\ DataOK(files[FindFile(name)])
                     /\ files[FindFile(name)].size \in Nat /\ files[FindFile(name)].position \in Nat
  BY FoundEntry, SlotEntry
<1>4. ASSUME Found(name), NEW f, f = FindFile(name),
             NEW available, available = Max({files[f].size - files[f].position, 0}),
             NEW bytes, bytes = Min({length, available}),
             UpdateFile(f, [files[f] EXCEPT !.position = @ + bytes])
      PROVE  OneSlot
  <2>1. files[f].position <= files[f].size /\ files[f].size \in Nat /\ files[f].position \in Nat
    BY <1>3, <1>4 DEF DataOK
  <2> DEFINE d == files[f].size - files[f].position
  <2>2. d \in Nat
    BY <2>1
  <2> HIDE DEF d
  <2>a. Max({d, 0}) = d
    BY <2>2, MaxOfTwo
  <2>b. available = d
    BY <1>4, <2>a DEF d
  <2>c. Min({length, d}) = IF length <= d THEN length ELSE d
    BY <2>2, MinOfTwo
  <2>e. bytes = Min({length, d})
    BY <1>4, <2>b
  <2>3. bytes \in Nat /\ bytes <= d
    BY <2>2, <2>c, <2>e
  <2>4. files[f].position + bytes \in Nat /\ files[f].position + bytes <= files[f].size
    BY <2>1, <2>3 DEF d
  <2>5. UpdateFile(f, [files[f] EXCEPT !.position = files[f].position + bytes])
    BY <1>4
  <2>6. LET m == [files[f] EXCEPT !.position = files[f].position + bytes]
        IN m \in Entry /\ DataOK(m) /\ SamePlace(m, files[f])
    BY <1>3, <1>4, <2>4, MovedEntry
  <2> QED BY <1>2, <1>4, <2>5, <2>6
<1>5. CASE length > 0 /\ Accessible(name, "READ")
  <2>1. Found(name)
    BY <1>5 DEF Accessible
  <2> QED BY <1>4, <1>5, <2>1 DEF FsRead
<1> QED BY <1>1, <1>5 DEF FsRead

LEMMA UseStep ==
  ASSUME FsInv, NEW name \in Names, Use(name)
  PROVE  OneSlot
<1>1. ASSUME NEW call, NEW value, Reply(call, name, value) PROVE OneSlot
  BY <1>1 DEF Reply, OneSlot, Stays
<1>2. ASSUME Found(name), NEW e, UpdateFile(FindFile(name), e), e \in Entry, DataOK(e),
             SamePlace(e, files[FindFile(name)])
      PROVE  OneSlot
  <2>1. FindFile(name) \in Slots /\ FindFile(name) \notin free_list
    BY <1>2, FoundEntry DEF Live
  <2> QED BY <1>2, <2>1, ChangedStep
<1>3. Found(name) => /\ files[FindFile(name)] \in Entry /\ DataOK(files[FindFile(name)])
                     /\ files[FindFile(name)].size \in Nat /\ files[FindFile(name)].position \in Nat
  BY FoundEntry, SlotEntry
<1>4. CASE FsOpen(name)
  <2>1. ASSUME Found(name), NEW f, f = FindFile(name),
               UpdateFile(f, [files[f] EXCEPT !.is_open = TRUE, !.position = 0])
        PROVE  OneSlot
    <3> DEFINE m == [files[f] EXCEPT !.is_open = TRUE]
    <3>1. m \in Entry /\ DataOK(m) /\ SamePlace(m, files[f]) /\ m.size \in Nat
      BY <1>3, <2>1, MarkedEntry DEF Entry
    <3>2. LET n == [m EXCEPT !.position = 0] IN n \in Entry /\ DataOK(n) /\ SamePlace(n, m)
      <4> HIDE DEF m
      <4> QED BY <3>1, MovedEntry
    <3> QED BY <1>2, <2>1, <3>1, <3>2 DEF SamePlace
  <2> QED BY <1>1, <1>4, <2>1 DEF FsOpen
<1>5. CASE FsClose(name)
  <2>1. ASSUME Found(name), NEW f, f = FindFile(name),
               UpdateFile(f, [files[f] EXCEPT !.is_open = FALSE])
        PROVE  OneSlot
    <3>1. LET m == [files[f] EXCEPT !.is_open = FALSE]
          IN m \in Entry /\ DataOK(m) /\ SamePlace(m, files[f])
      BY <1>3, <2>1, MarkedEntry
    <3> QED BY <1>2, <2>1, <3>1
  <2> QED BY <1>1, <1>5, <2>1 DEF FsClose
<1>6. ASSUME NEW offset \in Offsets, FsSeek(name, offset) PROVE OneSlot
  <2>1. offset \in Nat
    BY FsAssumption
  <2>2. ASSUME Found(name), NEW f, f = FindFile(name), offset <= files[f].size,
               UpdateFile(f, [files[f] EXCEPT !.position = offset])
        PROVE  OneSlot
    BY <1>2, <1>3, <2>1, <2>2, MovedEntry
  <2> QED BY <1>1, <1>6, <2>2 DEF FsSeek
<1>7. ASSUME NEW length \in Lengths, FsRead(name, length) PROVE OneSlot
  BY <1>7, ReadNameStep, FsAssumption
<1>8. CASE FsChdir(name)
  <2>1. ASSUME Found(name), NEW f, f = FindFile(name), files[f].is_dir, current_dir' = f,
               UNCHANGED <<files, free_list, file_count>>
        PROVE  OneSlot
    BY <2>1, FoundEntry DEF OneSlot, Moved
  <2> QED BY <1>1, <1>8, <2>1 DEF FsChdir
<1> QED BY <1>4, <1>5, <1>6, <1>7, <1>8 DEF Use

LEMMA WriteStep ==
  ASSUME FsInv, NEW name \in Names, NEW length \in Nat, FsWrite(name, length)
  PROVE  OneSlot
<1>1. ASSUME NEW call, NEW value, Reply(call, name, value) PROVE OneSlot
  BY <1>1 DEF Reply, OneSlot, Stays
<1>2. CASE length > 0 /\ Accessible(name, "WRITE")
  <2> DEFINE f == FindFile(name)
  <2>1. f \in Slots /\ f \notin free_list /\ ~files[f].is_dir
    BY <1>2, FoundEntry DEF Accessible, Live
  <2>2. PICK e : e = files[f]
    OBVIOUS
  <2>3. e \in Entry /\ DataOK(e) /\ e.size \in Nat /\ e.position \in Nat /\ ~e.is_dir
    BY <2>1, <2>2, SlotEntry
  <2> HIDE DEF f
  <2>5. PICK end : end = e.position + length
    OBVIOUS
  <2>6. end \in Nat
    BY <2>3, <2>5
  <2>7. PICK r : r = IF end > e.size THEN Resized(e, end) ELSE e
    OBVIOUS
  <2>8. r \in Entry /\ SamePlace(r, e)
    BY <2>3, <2>6, <2>7, ResizedEntry DEF SamePlace
  <2>9. \/ r = e /\ (end <= e.size \/ end <= e.allocated_size) /\ (e.is_dir => end = 0)
        \/ r = Resized(e, end) /\ ~e.is_dir
    BY <2>3, <2>6, <2>7
  <2>10. LET w == [r EXCEPT !.position = end, !.size = Max({@, end})]
         IN w \in Entry /\ DataOK(w) /\ SamePlace(w, e)
    BY <2>3, <2>6, <2>8, <2>9, WrittenEntry
  <2>11. Written(e, length) = [r EXCEPT !.position = end, !.size = Max({@, end})]
    BY <2>5, <2>7 DEF Written
  <2>12. UpdateFile(f, Written(e, length))
    BY <1>2, <2>2 DEF FsWrite, Reply, f
  <2> QED BY <2>1, <2>2, <2>10, <2>11, <2>12, ChangedStep
<1> QED BY <1>1, <1>2 DEF FsWrite

LEMMA UpStep ==
  ASSUME FsInv, FsChdirUp
  PROVE  OneSlot
<1>1. ASSUME NEW parent, parent = files[current_dir].parent, parent # NULL, current_dir' = parent,
             UNCHANGED <<files, free_list, file_count>>
      PROVE  OneSlot
  <2>1. current_dir # Root /\ current_dir \in Live
    BY <1>1 DEF FsInv, NoDanglingParent
  <2> QED BY <1>1, <2>1 DEF FsInv, NoDanglingParent, OneSlot, Moved
<1>2. ASSUME NEW call, NEW name, NEW value, Reply(call, name, value) PROVE OneSlot
  BY <1>2 DEF Reply, OneSlot, Stays
<1> QED BY <1>1, <1>2 DEF FsChdirUp

LEMMA NameStep ==
  ASSUME FsInv, Next
  PROVE  OneSlot
BY GrowStep, DeleteStep, UseStep, WriteStep, UpStep, FsAssumption DEF Next, Write

-----------------------------------------------------------------------------
(* The calls of unistd.c.                                                  *)

LEMMA FreeFdFacts ==
  ASSUME FilesInv, FreeFds # {}
  PROVE  Min(FreeFds) \in Fds
<1> FsInv
  BY DEF FilesInv
<1>1. FreeFds \in SUBSET Nat
  BY DEF FreeFds, Fds, FirstFd
<1>2. Min(FreeFds) \in FreeFds
  BY <1>1, MinIsLeast
<1> QED BY <1>2 DEF FreeFds

\* A descriptor is given for an entry that is in its slot already, or is placed in a free one.
LEMMA GiveFacts ==
  ASSUME FilesInv, NEW f \in Slots, NEW e \in Entry, DataOK(e), NEW trunc \in BOOLEAN,
         GiveDescriptor(f, e, trunc)
  PROVE  /\ \E w \in Entry : /\ files' = [files EXCEPT ![f] = w]
                             /\ DataOK(w) /\ SamePlace(w, e)
         /\ fd_table' \in [Fds -> Slots \cup {NULL}]
<1> FsInv
  BY DEF FilesInv
<1>1. fd_table \in [Fds -> Slots \cup {NULL}]
  BY DEF FilesInv, FdTypeOK
<1>2. Opened(e, trunc) \in Entry /\ DataOK(Opened(e, trunc)) /\ SamePlace(Opened(e, trunc), e)
  <2>1. PICK size : size = IF trunc /\ e.allocated_size > 0 THEN 0 ELSE e.size
    OBVIOUS
  <2>2. size \in Nat /\ (size = e.size \/ size = 0)
    BY <2>1 DEF Entry
  <2>3. Opened(e, trunc) = [e EXCEPT !.is_open = TRUE, !.position = 0, !.size = size]
    BY <2>1 DEF Opened
  <2> QED BY <2>2, <2>3, OpenedEntry
<1>3. CASE FreeFds # {} /\ fd_table' = [fd_table EXCEPT ![Min(FreeFds)] = f]
           /\ files' = [files EXCEPT ![f] = Opened(e, trunc)]
  <2>1. fd_table' \in [Fds -> Slots \cup {NULL}]
    BY <1>1, <1>3, FreeFdFacts
  <2> QED BY <1>2, <1>3, <2>1
<1>4. CASE UNCHANGED fd_table /\ files' = [files EXCEPT ![f] = e]
  BY <1>1, <1>4 DEF SamePlace
<1> QED BY <1>3, <1>4 DEF GiveDescriptor

LEMMA OpenStep ==
  ASSUME FilesInv, NEW name \in Names, NEW creat \in BOOLEAN, NEW trunc \in BOOLEAN,
         Open(name, creat, trunc)
  PROVE  OneSlot /\ fd_table' \in [Fds -> Slots \cup {NULL}]
<1> FsInv
  BY DEF FilesInv
<1>1. CASE OpenExisting(name, trunc)
  <2> DEFINE f == FindFile(name)
  <2>1. Found(name) /\ GiveDescriptor(f, files[f], trunc)
        /\ UNCHANGED <<free_list, file_count, current_dir>>
    BY <1>1 DEF OpenExisting
  <2>2. f \in Slots /\ f \notin free_list
    BY <2>1, FoundEntry DEF Live
  <2> HIDE DEF f
  <2>3. files[f] \in Entry /\ DataOK(files[f])
    BY <2>2, SlotEntry
  <2>4. /\ \E w \in Entry : /\ files' = [files EXCEPT ![f] = w]
                            /\ DataOK(w) /\ SamePlace(w, files[f])
        /\ fd_table' \in [Fds -> Slots \cup {NULL}]
    BY <2>1, <2>2, <2>3, GiveFacts
  <2> QED BY <2>1, <2>2, <2>4 DEF OneSlot, Changed
<1>2. CASE OpenNew(name, trunc)
  <2>1. current_dir \in Slots /\ DefaultPerms \in SUBSET AllPerms
    BY DEF FsInv, FilesInv, FdTypeOK, TypeOK, DefaultPerms, AllPerms
  <2>2. PICK e : e = NewFile(name, DefaultPerms)
    OBVIOUS
  <2>3. e \in Entry /\ DataOK(e) /\ e.parent = current_dir /\ e.name = name
    BY <2>1, <2>2, NewEntries
  <2>4. /\ ~Found(name) /\ free_list # {}
        /\ free_list' = free_list \ {FreeSlot} /\ file_count' = file_count + 1
        /\ UNCHANGED current_dir /\ GiveDescriptor(FreeSlot, e, trunc)
    BY <1>2, <2>2 DEF OpenNew
  <2>5. /\ \E w \in Entry : /\ files' = [files EXCEPT ![FreeSlot] = w]
                            /\ DataOK(w) /\ SamePlace(w, e)
        /\ fd_table' \in [Fds -> Slots \cup {NULL}]
    BY <2>3, <2>4, FreeSlotIsFree, GiveFacts
  <2> QED BY <2>3, <2>4, <2>5 DEF OneSlot, Placed, SamePlace
<1>3. CASE FdReply("fd_open", -1)
  BY <1>3 DEF FdReply, Reply, OneSlot, Stays, FilesInv, FdTypeOK
<1> QED BY <1>1, <1>2, <1>3 DEF Open

\* A file that is not in use is closed already.
LEMMA ClosedIsClosed ==
  ASSUME NEW e \in Entry, e.is_open = FALSE
  PROVE  [e EXCEPT !.is_open = FALSE] = e
BY Zenon DEF Entry

LEMMA CloseStep ==
  ASSUME FilesInv, NEW fd, Close(fd)
  PROVE  OneSlot /\ fd_table' \in [Fds -> Slots \cup {NULL}]
<1> FsInv
  BY DEF FilesInv
<1>1. fd_table \in [Fds -> Slots \cup {NULL}]
  BY DEF FilesInv, FdTypeOK
<1>2. CASE FdReply("fd_close", -1)
  BY <1>1, <1>2 DEF FdReply, Reply, OneSlot, Stays
<1>3. ASSUME IsDescriptor(fd), NEW f, f = fd_table[fd],
             UpdateFile(f, [files[f] EXCEPT !.is_open = FALSE]),
             fd_table' = [fd_table EXCEPT ![fd] = NULL]
      PROVE  OneSlot /\ fd_table' \in [Fds -> Slots \cup {NULL}]
  <2>1. f \in Slots
    BY <1>1, <1>3 DEF IsDescriptor
  <2>2. PICK e : e = files[f]
    OBVIOUS
  <2>3. e \in Entry /\ DataOK(e) /\ (f \in free_list => e = Zeroed)
    BY <2>1, <2>2, SlotEntry
  <2>4. PICK m : m = [e EXCEPT !.is_open = FALSE]
    OBVIOUS
  <2>5. m \in Entry /\ DataOK(m) /\ SamePlace(m, e)
    BY <2>3, <2>4, MarkedEntry
  <2>6. f \in free_list => m = Zeroed
    <3>1. Zeroed.is_open = FALSE
      BY DEF Zeroed
    <3> QED BY <2>3, <2>4, <3>1, ClosedIsClosed
  <2>7. UpdateFile(f, m)
    BY <1>3, <2>2, <2>4
  <2>8. fd_table' \in [Fds -> Slots \cup {NULL}]
    BY <1>1, <1>3
  <2> QED BY <2>1, <2>2, <2>5, <2>6, <2>7, <2>8, ChangedStep
<1> QED BY <1>2, <1>3 DEF Close

LEMMA UsableFile ==
  ASSUME FilesInv, NEW fd, Usable(fd)
  PROVE  fd_table[fd] \in Slots /\ fd_table[fd] \notin free_list
<1> FsInv
  BY DEF FilesInv
<1>1. fd_table[fd] \in Slots
  BY DEF FilesInv, FdTypeOK, Usable, IsDescriptor
<1>2. ~Zeroed.is_open
  BY DEF Zeroed
<1> QED BY <1>1, <1>2, SlotEntry DEF Usable

LEMMA ThroughStep ==
  ASSUME FilesInv, NEW fd, Usable(fd), NEW call, NEW value, NEW e \in Entry, DataOK(e),
         SamePlace(e, files[fd_table[fd]]), UpdateThrough(fd, call, e, value)
  PROVE  OneSlot /\ UNCHANGED fd_table
<1> FsInv
  BY DEF FilesInv
<1>1. UpdateFile(fd_table[fd], e) /\ UNCHANGED fd_table
  BY DEF UpdateThrough
<1> QED BY <1>1, UsableFile, ChangedStep

LEMMA ReadStep ==
  ASSUME FilesInv, NEW fd, NEW count \in Lengths, Read(fd, count)
  PROVE  OneSlot /\ UNCHANGED fd_table
<1> FsInv
  BY DEF FilesInv
<1>1. CASE FdReply("fd_read", -1)
  BY <1>1 DEF FdReply, Reply, OneSlot, Stays
<1>2. ASSUME Usable(fd), NEW e, e = files[fd_table[fd]], NEW bytes,
             bytes = IF e.position >= e.size THEN 0 ELSE Min({count, e.size - e.position}),
             UpdateThrough(fd, "fd_read", [e EXCEPT !.position = @ + bytes], bytes)
      PROVE  OneSlot /\ UNCHANGED fd_table
  <2>1. e \in Entry /\ DataOK(e) /\ e.size \in Nat /\ e.position \in Nat /\ e.position <= e.size
    BY <1>2, UsableFile, SlotEntry DEF DataOK
  <2>2. count \in Nat
    BY FsAssumption
  <2>3. PICK d : d = e.size - e.position
    OBVIOUS
  <2>4. d \in Nat
    BY <2>1, <2>3
  <2>5. Min({count, d}) = IF count <= d THEN count ELSE d
    BY <2>2, <2>4, MinOfTwo
  <2>6. bytes = 0 \/ bytes = Min({count, d})
    BY <1>2, <2>3
  <2>7. bytes \in Nat /\ bytes <= d
    BY <2>2, <2>4, <2>5, <2>6
  <2>8. e.position + bytes \in Nat /\ e.position + bytes <= e.size
    BY <2>1, <2>3, <2>7
  <2>9. LET m == [e EXCEPT !.position = e.position + bytes]
        IN m \in Entry /\ DataOK(m) /\ SamePlace(m, e)
    BY <2>1, <2>8, MovedEntry
  <2>10. UpdateThrough(fd, "fd_read", [e EXCEPT !.position = e.position + bytes], bytes)
    BY <1>2
  <2> QED BY <1>2, <2>9, <2>10, ThroughStep
<1> QED BY <1>1, <1>2 DEF Read

LEMMA WriteFdStep ==
  ASSUME FilesInv, NEW fd, NEW count \in Lengths, WriteFd(fd, count)
  PROVE  OneSlot /\ UNCHANGED fd_table
<1> FsInv
  BY DEF FilesInv
<1>1. CASE FdReply("fd_write", -1)
  BY <1>1 DEF FdReply, Reply, OneSlot, Stays
<1>2. ASSUME Usable(fd), NEW e, e = files[fd_table[fd]], NEW end, end = e.position + count,
             ~(end > e.allocated_size /\ ResizeRefused(e)),
             NEW r, r = IF end > e.allocated_size THEN Resized(e, end) ELSE e,
             UpdateThrough(fd, "fd_write", [r EXCEPT !.position = end, !.size = Max({@, end})], count)
      PROVE  OneSlot /\ UNCHANGED fd_table
  <2>1. /\ e \in Entry /\ DataOK(e) /\ e.position \in Nat /\ e.allocated_size \in Nat
        /\ e.is_dir \in BOOLEAN
    BY <1>2, UsableFile, SlotEntry
  <2>2. count \in Nat
    BY FsAssumption
  <2>3. end \in Nat
    BY <1>2, <2>1, <2>2
  <2>4. r \in Entry /\ SamePlace(r, e)
    BY <1>2, <2>1, <2>3, ResizedEntry DEF SamePlace
  <2>5. \/ r = e /\ (end <= e.size \/ end <= e.allocated_size) /\ (e.is_dir => end = 0)
        \/ r = Resized(e, end) /\ ~e.is_dir
    <3>1. CASE end > e.allocated_size
      BY <1>2, <3>1 DEF ResizeRefused
    <3>2. CASE end <= e.allocated_size
      <4>1. e.is_dir => end = 0
        BY <2>1, <2>3, <3>2 DEF DataOK
      <4>2. r = e
        BY <1>2, <2>1, <2>3, <3>2
      <4> QED BY <3>2, <4>1, <4>2
    <3> QED BY <2>1, <2>3, <3>1, <3>2
  <2>6. LET w == [r EXCEPT !.position = end, !.size = Max({@, end})]
        IN w \in Entry /\ DataOK(w) /\ SamePlace(w, e)
    BY <2>1, <2>3, <2>4, <2>5, WrittenEntry
  <2> QED BY <1>2, <2>6, ThroughStep
<1> QED BY <1>1, <1>2 DEF WriteFd

LEMMA LseekStep ==
  ASSUME FilesInv, NEW fd, NEW offset, NEW whence, Lseek(fd, offset, whence)
  PROVE  OneSlot /\ UNCHANGED fd_table
<1> FsInv
  BY DEF FilesInv
<1>1. CASE FdReply("fd_lseek", -1)
  BY <1>1 DEF FdReply, Reply, OneSlot, Stays
<1>2. ASSUME Usable(fd), NEW e, e = files[fd_table[fd]], NEW position, position \in 0 .. e.size,
             UpdateThrough(fd, "fd_lseek", [e EXCEPT !.position = position], position)
      PROVE  OneSlot /\ UNCHANGED fd_table
  <2>1. e \in Entry /\ DataOK(e) /\ e.size \in Nat
    BY <1>2, UsableFile, SlotEntry
  <2>2. position \in Nat /\ position <= e.size
    BY <1>2, <2>1
  <2>3. LET m == [e EXCEPT !.position = position] IN m \in Entry /\ DataOK(m) /\ SamePlace(m, e)
    BY <2>1, <2>2, MovedEntry
  <2> QED BY <1>2, <2>3, ThroughStep
<1>3. ASSUME Usable(fd) PROVE OneSlot /\ UNCHANGED fd_table
  <2>1. PICK e : e = files[fd_table[fd]]
    OBVIOUS
  <2>2. PICK position : position = CASE whence = "SET" -> offset
                                     [] whence = "CUR" -> e.position + offset
                                     [] whence = "END" -> e.size + offset
    OBVIOUS
  <2>3. \/ FdReply("fd_lseek", -1)
        \/ /\ position \in 0 .. e.size
           /\ UpdateThrough(fd, "fd_lseek", [e EXCEPT !.position = position], position)
    BY <1>1, <1>3, <2>1, <2>2 DEF Lseek
  <2> QED BY <1>1, <1>2, <1>3, <2>1, <2>3
<1> QED BY <1>1, <1>3 DEF Lseek

\* Every call, by name or by descriptor, changes one slot at most.
LEMMA CallStep ==
  ASSUME FilesInv, FdNext
  PROVE  OneSlot /\ fd_table' \in [Fds -> Slots \cup {NULL}] /\ exclusive' \in BOOLEAN
<1> FsInv
  BY DEF FilesInv
<1>1. fd_table \in [Fds -> Slots \cup {NULL}] /\ exclusive \in BOOLEAN
  BY DEF FilesInv, FdTypeOK
<1>2. CASE ByName
  <2>1. OneSlot
    BY <1>2, NameStep DEF ByName
  <2>2. UNCHANGED fd_table /\ exclusive' \in BOOLEAN
    BY <1>1, <1>2 DEF ByName
  <2> QED BY <1>1, <2>1, <2>2
<1>3. CASE Opening
  <2>1. PICK name \in Names, creat \in BOOLEAN, trunc \in BOOLEAN :
          Open(name, creat, trunc) /\ exclusive' \in BOOLEAN
    BY <1>1, <1>3 DEF Opening
  <2> QED BY <2>1, OpenStep
<1>4. CASE ByDescriptor /\ UNCHANGED exclusive
  BY <1>1, <1>4, CloseStep, ReadStep, WriteFdStep, LseekStep DEF ByDescriptor
<1> QED BY <1>2, <1>3, <1>4 DEF FdNext

-----------------------------------------------------------------------------
(* The invariant.                                                          *)

LEMMA FsInvInit ==
  ASSUME Init
  PROVE  FsInv
<1>1. /\ files = [i \in Slots |-> IF i = Root THEN NewDir(RootName, NULL) ELSE Zeroed]
      /\ free_list = Slots \ {Root} /\ file_count = 1 /\ current_dir = Root
  BY DEF Init
<1>2. Root \in Slots
  BY SlotFacts
<1>3. Zeroed \in Entry /\ DataOK(Zeroed)
  BY DEF Zeroed, Entry, DataOK
<1>4. PICK root : root = NewDir(RootName, NULL)
  OBVIOUS
<1>5. /\ root \in Entry /\ root.is_dir /\ root.parent = NULL
      /\ root.size = 0 /\ root.allocated_size = 0 /\ root.position = 0
  <2>1. root \in Entry
    BY <1>3, <1>4 DEF NewDir, Entry
  <2> QED BY <1>4, <2>1 DEF NewDir, Zeroed
<1>6. DataOK(root)
  BY <1>5 DEF DataOK
<1>7. \A i \in Slots : files[i] = IF i = Root THEN root ELSE Zeroed
  BY <1>1, <1>4
<1>8. Live = {Root}
  BY <1>1, <1>2 DEF Live
<1>9. TypeOK
  <2>1. files \in [Slots -> Entry]
    BY <1>1, <1>3, <1>4, <1>5
  <2>2. \A i \in free_list : files[i] = Zeroed
    BY <1>1, <1>7
  <2> QED BY <1>1, <1>2, <2>1, <2>2 DEF TypeOK
<1>11. EntriesOK
  BY <1>3, <1>6, <1>7 DEF EntriesOK
<1>12. CountIsExact
  BY <1>1, <1>8, FS_Singleton DEF CountIsExact
<1>13. NoDanglingParent
  BY <1>1, <1>2, <1>5, <1>7, <1>8 DEF NoDanglingParent
<1>14. HasDepths
  <2> DEFINE d == [i \in Slots |-> 0]
  <2>1. IsDepth(d)
    BY <1>2, <1>8 DEF IsDepth
  <2> QED BY <2>1 DEF HasDepths
<1> QED BY <1>9, <1>11, <1>12, <1>13, <1>14 DEF FsInv

LEMMA FilesInvInit ==
  ASSUME FdInit
  PROVE  FilesInv
<1>1. FsInv
  BY FsInvInit DEF FdInit
<1> QED BY <1>1 DEF FsInv, FilesInv, FdTypeOK, FdInit

LEMMA LiveIsFinite == IsFiniteSet(Live) /\ Live \subseteq Slots /\ Cardinality(Live) \in Nat
BY SlotFacts, FS_Subset, FS_CardinalityType DEF Live

LEMMA LiveIsCounted ==
  ASSUME FsInv
  PROVE  IsFiniteSet(Live) /\ Live \subseteq Slots /\ file_count = Cardinality(Live)
BY LiveIsFinite DEF FsInv, CountIsExact

\* A change in place disturbs neither the tree nor the count.
LEMMA ReplacedKeeps ==
  ASSUME FsInv, NEW f, NEW e, Replaced(f, e)
  PROVE  TypeOK' /\ EntriesOK' /\ CountIsExact' /\ NoDanglingParent' /\ HasDepths'
<1>1. /\ files \in [Slots -> Entry] /\ free_list \subseteq Slots /\ file_count \in Nat
      /\ current_dir \in Slots /\ \A i \in free_list : files[i] = Zeroed
  BY DEF FsInv, TypeOK
<1>2. /\ f \in Slots /\ e \in Entry /\ files' = [files EXCEPT ![f] = e]
      /\ UNCHANGED <<free_list, file_count, current_dir>>
  BY DEF Replaced
<1>3. \A i \in Slots : files'[i] = IF i = f THEN e ELSE files[i]
  BY <1>1, <1>2
<1>4. TypeOK'
  BY <1>1, <1>2, <1>3 DEF TypeOK, Replaced
<1>5. EntriesOK'
  BY <1>3 DEF EntriesOK, FsInv, Replaced
<1>6. \A i \in Slots : files'[i].parent = files[i].parent /\ files'[i].is_dir = files[i].is_dir
  BY <1>3 DEF Replaced
<1>7. Live' = Live /\ Live \subseteq Slots /\ Root \in Slots
  BY <1>2, SlotFacts DEF Live
<1>8. CountIsExact'
  BY <1>2, <1>7 DEF CountIsExact, FsInv
<1>9. NoDanglingParent'
  BY <1>2, <1>6, <1>7 DEF NoDanglingParent, FsInv
<1>10. HasDepths'
  <2>1. PICK d : IsDepth(d)
    BY DEF FsInv, HasDepths
  <2>2. IsDepth(d)'
    BY <1>6, <1>7, <2>1 DEF IsDepth
  <2> QED BY <2>2 DEF HasDepths
<1> QED BY <1>4, <1>5, <1>8, <1>9, <1>10

LEMMA ChangedKeeps ==
  ASSUME FsInv, NEW f, NEW e, Changed(f, e)
  PROVE  TypeOK' /\ EntriesOK' /\ CountIsExact' /\ NoDanglingParent' /\ HasDepths'
BY ReplacedKeeps DEF Changed, Replaced, SamePlace

\* A new entry is one deeper than the current directory; nobody pointed to its slot.
LEMMA PlacedKeeps ==
  ASSUME FsInv, NEW e, Placed(e)
  PROVE  TypeOK' /\ EntriesOK' /\ CountIsExact' /\ NoDanglingParent' /\ HasDepths'
<1>1. /\ files \in [Slots -> Entry] /\ free_list \subseteq Slots /\ file_count \in Nat
      /\ current_dir \in Slots /\ \A i \in free_list : files[i] = Zeroed
  BY DEF FsInv, TypeOK
<1>2. PICK f : f = FreeSlot
  OBVIOUS
<1>3. f \in free_list /\ f \in Slots
  BY <1>2, FreeSlotIsFree DEF Placed
<1>4. /\ e \in Entry /\ DataOK(e) /\ e.parent = current_dir /\ files' = [files EXCEPT ![f] = e]
      /\ free_list' = free_list \ {f} /\ file_count' = file_count + 1 /\ current_dir' = current_dir
  BY <1>2 DEF Placed
<1>5. \A i \in Slots : files'[i] = IF i = f THEN e ELSE files[i]
  BY <1>1, <1>3, <1>4
<1>6. TypeOK'
  BY <1>1, <1>3, <1>4, <1>5 DEF TypeOK
<1>7. EntriesOK'
  BY <1>4, <1>5 DEF EntriesOK, FsInv
<1>8. Live' = Live \cup {f} /\ f \notin Live /\ Live \subseteq Slots
  BY <1>3, <1>4 DEF Live
<1>9. CountIsExact'
  <2>1. Cardinality(Live \cup {f}) = Cardinality(Live) + 1
    BY <1>8, LiveIsCounted, FS_AddElement
  <2> QED BY <1>4, <1>8, <2>1, LiveIsCounted DEF CountIsExact
<1>10. NoDanglingParent'
  <2>1. /\ Root \in Live /\ files[Root].is_dir /\ files[Root].parent = NULL
        /\ \A i \in Live \ {Root} : files[i].parent \in Live /\ files[files[i].parent].is_dir
        /\ current_dir \in Live /\ files[current_dir].is_dir
    BY DEF FsInv, NoDanglingParent
  <2>2. \A i \in Live : files'[i] = files[i]
    BY <1>5, <1>8
  <2>3. files'[f] = e
    BY <1>3, <1>5
  <2> QED BY <1>4, <1>8, <2>1, <2>2, <2>3 DEF NoDanglingParent
<1>11. HasDepths'
  <2>1. PICK d : IsDepth(d)
    BY DEF FsInv, HasDepths
  <2>2. PICK c : c = [d EXCEPT ![f] = d[current_dir] + 1]
    OBVIOUS
  <2>3. /\ d \in [Slots -> Nat] /\ d[Root] = 0
        /\ \A i \in Live \ {Root} : d[i] = d[files[i].parent] + 1
    BY <2>1 DEF IsDepth
  <2>a. d[current_dir] + 1 \in Nat
    BY <1>1, <2>3
  <2>4. c \in [Slots -> Nat] /\ \A i \in Slots : c[i] = IF i = f THEN d[current_dir] + 1 ELSE d[i]
    BY <1>3, <2>2, <2>3, <2>a
  <2>5. /\ Root \in Live /\ Root \in Slots /\ current_dir \in Live
        /\ \A i \in Live \ {Root} : files[i].parent \in Live
    BY SlotFacts DEF FsInv, NoDanglingParent
  <2>6. \A i \in Live : c[i] = d[i] /\ files'[i] = files[i]
    BY <1>5, <1>8, <2>4
  <2>7. c[f] = c[current_dir] + 1 /\ files'[f].parent = current_dir
    BY <1>3, <1>4, <1>5, <2>4, <2>5, <2>6
  <2>8. \A i \in Live \ {Root} : c[i] = c[files'[i].parent] + 1
    BY <2>3, <2>5, <2>6
  <2>9. c[Root] = 0
    BY <2>3, <2>5, <2>6
  <2>10. IsDepth(c)'
    BY <1>8, <2>4, <2>7, <2>8, <2>9 DEF IsDepth
  <2> QED BY <2>10 DEF HasDepths
<1> QED BY <1>6, <1>7, <1>9, <1>10, <1>11

\* Nothing was in the entry that is removed.
LEMMA RemovedKeeps ==
  ASSUME FsInv, NEW f, Removed(f)
  PROVE  TypeOK' /\ EntriesOK' /\ CountIsExact' /\ NoDanglingParent' /\ HasDepths'
<1>1. /\ files \in [Slots -> Entry] /\ free_list \subseteq Slots /\ file_count \in Nat
      /\ current_dir \in Slots /\ \A i \in free_list : files[i] = Zeroed
  BY DEF FsInv, TypeOK
<1>2. /\ f \in Live /\ f \in Slots /\ f # Root /\ \A i \in Live : files[i].parent # f
      /\ files' = [files EXCEPT ![f] = Zeroed] /\ free_list' = free_list \cup {f}
      /\ file_count' = file_count - 1
      /\ current_dir' = IF current_dir = f THEN files[f].parent ELSE current_dir
  BY DEF Removed, Live
<1>3. \A i \in Slots : files'[i] = IF i = f THEN Zeroed ELSE files[i]
  BY <1>1, <1>2
<1>4. Zeroed \in Entry /\ DataOK(Zeroed)
  BY DEF Zeroed, Entry, DataOK
<1>5. Live' = Live \ {f} /\ Live \subseteq Slots
  BY <1>2 DEF Live
<1>6. /\ Root \in Live /\ files[Root].is_dir /\ files[Root].parent = NULL
      /\ \A i \in Live \ {Root} : files[i].parent \in Live /\ files[files[i].parent].is_dir
      /\ current_dir \in Live /\ files[current_dir].is_dir
  BY DEF FsInv, NoDanglingParent
<1>7. current_dir' \in Live \ {f} /\ files[current_dir'].is_dir
  BY <1>2, <1>6
<1>8. \A i \in Live' : files'[i] = files[i]
  BY <1>3, <1>5
<1>9. CountIsExact' /\ file_count' \in Nat
  <2>1. Cardinality(Live \ {f}) = Cardinality(Live) - 1 /\ IsFiniteSet(Live \ {f})
    BY <1>2, LiveIsCounted, FS_RemoveElement
  <2>2. Cardinality(Live \ {f}) \in Nat
    BY <2>1, FS_CardinalityType
  <2> QED BY <1>2, <1>5, <2>1, <2>2, LiveIsCounted DEF CountIsExact
<1>10. TypeOK'
  <2>1. files' \in [Slots -> Entry]
    BY <1>1, <1>2, <1>4
  <2>2. current_dir' \in Slots
    BY <1>5, <1>7
  <2>3. \A i \in free_list' : files'[i] = Zeroed
    BY <1>1, <1>2, <1>3
  <2> QED BY <1>1, <1>2, <1>9, <2>1, <2>2, <2>3 DEF TypeOK
<1>11. EntriesOK'
  BY <1>3, <1>4 DEF EntriesOK, FsInv
<1>12. NoDanglingParent'
  BY <1>2, <1>5, <1>6, <1>7, <1>8 DEF NoDanglingParent
<1>13. HasDepths'
  <2>1. PICK d : IsDepth(d)
    BY DEF FsInv, HasDepths
  <2>2. IsDepth(d)'
    BY <1>5, <1>8, <2>1 DEF IsDepth
  <2> QED BY <2>2 DEF HasDepths
<1> QED BY <1>9, <1>10, <1>11, <1>12, <1>13

LEMMA OneSlotKeeps ==
  ASSUME FsInv, OneSlot
  PROVE  TypeOK' /\ EntriesOK' /\ CountIsExact' /\ NoDanglingParent' /\ HasDepths'
<1>1. CASE Stays
  <2>1. Live' = Live
    BY <1>1 DEF Stays, Live
  <2>2. PICK d : IsDepth(d)
    BY DEF FsInv, HasDepths
  <2>3. IsDepth(d)'
    BY <1>1, <2>1, <2>2 DEF IsDepth, Stays
  <2> QED BY <1>1, <2>1, <2>3 DEF Stays, FsInv, TypeOK, EntriesOK, CountIsExact,
                                  NoDanglingParent, HasDepths
<1>2. CASE Moved
  <2>1. Live' = Live /\ Live \subseteq Slots
    BY <1>2 DEF Moved, Live
  <2>2. PICK d : IsDepth(d)
    BY DEF FsInv, HasDepths
  <2>3. IsDepth(d)'
    BY <1>2, <2>1, <2>2 DEF IsDepth, Moved
  <2> QED BY <1>2, <2>1, <2>3 DEF Moved, FsInv, TypeOK, EntriesOK, CountIsExact,
                                  NoDanglingParent, HasDepths
<1> QED BY <1>1, <1>2, ChangedKeeps, PlacedKeeps, RemovedKeeps DEF OneSlot

LEMMA FilesInvNext ==
  ASSUME FilesInv, [FdNext]_fdVars
  PROVE  FilesInv'
<1> FsInv
  BY DEF FilesInv
<1>1. CASE FdNext
  <2>1. OneSlot /\ fd_table' \in [Fds -> Slots \cup {NULL}] /\ exclusive' \in BOOLEAN
    BY <1>1, CallStep
  <2>2. TypeOK' /\ EntriesOK' /\ CountIsExact' /\ NoDanglingParent' /\ HasDepths'
    BY <2>1, OneSlotKeeps
  <2> QED BY <2>1, <2>2 DEF FsInv, FilesInv, FdTypeOK
<1>2. CASE UNCHANGED fdVars
  <2>1. Stays /\ UNCHANGED <<fd_table, exclusive>>
    BY <1>2 DEF fdVars, vars, Stays
  <2>2. TypeOK' /\ EntriesOK' /\ CountIsExact' /\ NoDanglingParent' /\ HasDepths'
    BY <2>1, OneSlotKeeps DEF OneSlot
  <2> QED BY <2>1, <2>2 DEF FsInv, FilesInv, FdTypeOK
<1> QED BY <1>1, <1>2

LEMMA FilesInvariant == FdSpec => []FilesInv
<1>1. FdInit => FilesInv
  BY FilesInvInit
<1>2. FilesInv /\ [FdNext]_fdVars => FilesInv'
  BY FilesInvNext
<1> QED BY <1>1, <1>2, PTL DEF FdSpec

-----------------------------------------------------------------------------
(* The walk of fs_getcwd.                                                  *)

Up(x) == IF x = NULL THEN NULL ELSE files[x].parent

IsWalk(w, n) == w = [k \in 0 .. n |-> IF k = 0 THEN current_dir ELSE Up(w[k - 1])]

\* A walk of any length exists: the shortest one missing could be made from the one before.
LEMMA WalksExist ==
  ASSUME NEW n \in Nat
  PROVE  \E w : IsWalk(w, n)
<1> DEFINE Missing == {k \in Nat : ~\E w : IsWalk(w, k)}
<1>1. SUFFICES ASSUME Missing # {} PROVE FALSE
  OBVIOUS
<1>2. PICK m \in Missing : \A k \in Missing : m <= k
  BY <1>1, LeastNumber
<1>3. m \in Nat /\ ~\E w : IsWalk(w, m)
  BY <1>2
<1>4. m # 0
  <2> SUFFICES ASSUME m = 0 PROVE FALSE
    OBVIOUS
  <2>1. PICK w : w = [k \in 0 .. 0 |-> current_dir]
    OBVIOUS
  <2>2. w = [k \in 0 .. 0 |-> IF k = 0 THEN current_dir ELSE Up(w[k - 1])]
    BY <2>1
  <2> QED BY <1>3, <2>2 DEF IsWalk
<1>5. m - 1 \in Nat /\ ~(m <= m - 1)
  BY <1>3, <1>4
<1>6. PICK v : IsWalk(v, m - 1)
  BY <1>2, <1>5
<1>7. PICK w : w = [k \in 0 .. m |-> IF k = m THEN Up(v[m - 1]) ELSE v[k]]
  OBVIOUS
<1>8. ASSUME NEW k \in 0 .. m
      PROVE  w[k] = IF k = 0 THEN current_dir ELSE Up(w[k - 1])
  <2>1. w[k] = IF k = m THEN Up(v[m - 1]) ELSE v[k]
    BY <1>7
  <2>2. CASE k = 0
    <3>1. v[0] = current_dir /\ 0 \in 0 .. m - 1
      BY <1>5, <1>6 DEF IsWalk
    <3> QED BY <1>4, <2>1, <2>2, <3>1
  <2>3. CASE k # 0
    <3>1. k - 1 \in 0 .. m /\ k - 1 # m /\ k - 1 \in 0 .. m - 1
      BY <1>3, <2>3
    <3>2. w[k - 1] = v[k - 1]
      BY <1>7, <3>1
    <3>3. CASE k = m
      BY <2>1, <2>3, <3>2, <3>3
    <3>4. CASE k # m
      <4>1. k \in 0 .. m - 1
        BY <1>3, <3>4
      <4>2. v[k] = Up(v[k - 1])
        BY <1>6, <2>3, <4>1 DEF IsWalk
      <4> QED BY <2>1, <2>3, <3>2, <3>4, <4>2
    <3> QED BY <3>3, <3>4
  <2> QED BY <2>2, <2>3
<1>9. w = [k \in 0 .. m |-> IF k = 0 THEN current_dir ELSE Up(w[k - 1])]
  BY <1>7, <1>8
<1> QED BY <1>3, <1>9 DEF IsWalk

\* Ancestor is such a walk.
LEMMA AncestorSteps ==
  /\ Ancestor[0] = current_dir
  /\ \A k \in 1 .. MaxFiles : Ancestor[k] = Up(Ancestor[k - 1])
<1>1. MaxFiles \in Nat
  BY FsAssumption
<1>2. \E w : IsWalk(w, MaxFiles)
  BY <1>1, WalksExist
<1>3. IsWalk(Ancestor, MaxFiles)
  BY <1>2 DEF IsWalk, Ancestor, Up
<1>4. 0 \in 0 .. MaxFiles /\ \A k \in 1 .. MaxFiles : k \in 0 .. MaxFiles /\ k # 0
  BY <1>1
<1> QED BY <1>3, <1>4 DEF IsWalk

\* Each directory above is one less deep, down to the depth of the root.
LEMMA WalkGoesUp ==
  ASSUME FsInv, NEW d, IsDepth(d), NEW n \in 0 .. MaxFiles, n <= d[current_dir]
  PROVE  Ancestor[n] \in Live /\ d[Ancestor[n]] = d[current_dir] - n
<1> DEFINE Good(k) == Ancestor[k] \in Live /\ d[Ancestor[k]] = d[current_dir] - k
           Bad == {k \in 0 .. n : ~Good(k)}
<1>1. SUFFICES ASSUME Bad # {} PROVE FALSE
  BY FsAssumption
<1>2. n \in Nat /\ MaxFiles \in Nat /\ Bad \in SUBSET Nat
  BY FsAssumption
<1>3. PICK m \in Bad : \A k \in Bad : m <= k
  BY <1>1, <1>2, LeastNumber
<1>4. /\ current_dir \in Live /\ Live \subseteq Slots /\ Live \cap {NULL} = {}
      /\ \A i \in Live \ {Root} : files[i].parent \in Live
      /\ d \in [Slots -> Nat] /\ d[Root] = 0
      /\ \A i \in Live \ {Root} : d[i] = d[files[i].parent] + 1
  BY SlotFacts DEF FsInv, NoDanglingParent, IsDepth, Live
<1>5. PICK c : c = d[current_dir]
  OBVIOUS
<1>6. c \in Nat /\ n <= c
  BY <1>4, <1>5
<1>7. m # 0
  <2>1. Good(0)
    BY <1>4, <1>5, <1>6, AncestorSteps
  <2> QED BY <1>3, <2>1
<1>8. m \in 1 .. MaxFiles /\ m - 1 \in 0 .. n /\ ~(m <= m - 1)
  BY <1>2, <1>3, <1>7
<1>9. Good(m - 1)
  BY <1>3, <1>8
<1>10. PICK i : i = Ancestor[m - 1]
  OBVIOUS
<1>11. i \in Live /\ d[i] = c - (m - 1)
  BY <1>5, <1>9, <1>10
<1>12. i # Root
  BY <1>2, <1>3, <1>4, <1>6, <1>8, <1>11
<1>13. files[i].parent \in Live /\ d[i] = d[files[i].parent] + 1 /\ d[files[i].parent] \in Nat
  BY <1>4, <1>11, <1>12
<1>14. Ancestor[m] = files[i].parent
  BY <1>4, <1>8, <1>10, <1>11, AncestorSteps DEF Up
<1>15. d[files[i].parent] = c - m
  BY <1>6, <1>8, <1>11, <1>13
<1>16. Good(m)
  BY <1>5, <1>13, <1>14, <1>15
<1> QED BY <1>3, <1>16

LEMMA RootIsReached ==
  ASSUME FsInv
  PROVE  CwdReachesRoot
<1>1. PICK d : IsDepth(d)
  BY DEF FsInv, HasDepths
<1>2. /\ current_dir \in Slots /\ Live \subseteq Slots /\ d \in [Slots -> Nat]
      /\ \A i \in Live \ {Root} : d[i] = d[files[i].parent] + 1 /\ files[i].parent \in Live
  BY <1>1 DEF FsInv, TypeOK, IsDepth, NoDanglingParent, Live
<1>3. PICK c : c = d[current_dir]
  OBVIOUS
<1>4. c \in Nat /\ MaxFiles \in Nat /\ MaxFiles > 1
  BY <1>2, <1>3, FsAssumption
<1>5. c < MaxFiles
  <2> SUFFICES ASSUME c >= MaxFiles PROVE FALSE
    BY <1>4
  <2> DEFINE w == [k \in 0 .. MaxFiles |-> Ancestor[k]]
  <2>1. \A k \in 0 .. MaxFiles : Ancestor[k] \in Slots /\ d[Ancestor[k]] = c - k
    BY <1>1, <1>2, <1>3, <1>4, WalkGoesUp
  <2>2. \A j, k \in 0 .. MaxFiles : w[j] = w[k] => j = k
    BY <1>4, <2>1
  <2>3. w \in Injection(0 .. MaxFiles, Slots)
    BY <2>1, <2>2 DEF Injection, IsInjective
  <2>4. Cardinality(0 .. MaxFiles) <= Cardinality(Slots)
    BY <2>3, SlotFacts, FS_Injection
  <2>5. Cardinality(0 .. MaxFiles) = MaxFiles + 1
    BY <1>4, FS_Interval
  <2> QED BY <1>4, <2>4, <2>5, SlotFacts
<1>6. c \in 0 .. MaxFiles - 1 /\ \A k \in 0 .. c : k \in 0 .. MaxFiles /\ k <= c
  BY <1>4, <1>5
<1>7. \A k \in 0 .. c : Ancestor[k] \in Live /\ d[Ancestor[k]] = c - k
  BY <1>1, <1>3, <1>6, WalkGoesUp
<1>8. Ancestor[c] = Root
  <2>1. Ancestor[c] \in Live /\ d[Ancestor[c]] = 0
    BY <1>4, <1>7
  <2> SUFFICES ASSUME Ancestor[c] # Root PROVE FALSE
    OBVIOUS
  <2>2. PICK i : i = Ancestor[c]
    OBVIOUS
  <2>3. d[i] = d[files[i].parent] + 1 /\ d[files[i].parent] \in Nat
    BY <1>2, <2>1, <2>2
  <2> QED BY <2>1, <2>2, <2>3
<1> QED BY <1>6, <1>7, <1>8 DEF CwdReachesRoot

-----------------------------------------------------------------------------
(* The search sees what was created.                                       *)

\* All slots before the first free one are in use.
LEMMA FreeSlotIsCounted ==
  ASSUME free_list \subseteq Slots, free_list # {}, CountIsExact
  PROVE  FreeSlot \in Nat /\ FreeSlot <= file_count
<1>1. PICK f : f = FreeSlot
  OBVIOUS
<1>2. f \in Slots /\ f \in Nat /\ \A i \in free_list : f <= i
  BY <1>1, SlotFacts, MinIsLeast DEF FreeSlot
<1>4. 0 .. f - 1 \in SUBSET Live
  <2> SUFFICES ASSUME NEW i \in 0 .. f - 1 PROVE i \in Live
    OBVIOUS
  <2>1. i \in Slots /\ ~(f <= i)
    BY <1>2, FsAssumption DEF Slots
  <2> QED BY <1>2, <2>1 DEF Live
<1>5. Cardinality(0 .. f - 1) <= Cardinality(Live)
  BY <1>4, LiveIsFinite, FS_Subset
<1>6. Cardinality(0 .. f - 1) = f
  BY <1>2, FS_Interval
<1> QED BY <1>1, <1>2, <1>5, <1>6, LiveIsFinite DEF CountIsExact

LEMMA PlacedIsFound ==
  ASSUME files \in [Slots -> Entry], free_list \subseteq Slots, current_dir # NULL, CountIsExact,
         NEW e, Placed(e), NEW i \in Slots, i \in free_list, i \notin free_list',
         NEW name, files'[i].name = name
  PROVE  (Found(name) /\ FindFile(name) = i)'
<1>1. i = FreeSlot /\ i \in Nat /\ i <= file_count /\ file_count \in Nat
  BY FreeSlotIsCounted, LiveIsFinite DEF Placed, CountIsExact
<1>2. /\ files' = [files EXCEPT ![i] = e] /\ free_list' = free_list \ {i}
      /\ file_count' = file_count + 1 /\ current_dir' = current_dir
      /\ e.parent = current_dir /\ ~Found(e.name)
  BY <1>1 DEF Placed
<1>4. \A j \in Slots : files'[j] = IF j = i THEN e ELSE files[j]
  BY <1>2
<1>5. e.name = name /\ current_dir # NULL
  BY <1>4
<1>6. i \in Matches(name, current_dir)'
  BY <1>1, <1>2, <1>4, <1>5 DEF Matches, Live
<1>7. ASSUME NEW j \in Matches(name, current_dir)' PROVE i <= j
  <2>1. /\ j \in Slots /\ j \in Nat /\ j \notin free_list' /\ files'[j].parent = current_dir
        /\ files'[j].name = name
    BY <1>2, SlotFacts DEF Matches, Live
  <2>2. CASE j = i
    BY <1>1, <2>2
  <2>3. CASE j # i
    <3>1. j \in Live /\ files[j].parent = current_dir /\ files[j].name = name
      BY <1>2, <1>4, <2>1, <2>3 DEF Live
    <3>2. Matches(name, current_dir) = {}
      BY <1>2, <1>5 DEF Found
    <3>3. ~(j < file_count)
      BY <3>1, <3>2 DEF Matches
    <3> QED BY <1>1, <2>1, <3>3
  <2> QED BY <2>2, <2>3
<1>8. Matches(name, current_dir)' \in SUBSET Nat
  BY SlotFacts DEF Matches, Live
<1>9. PICK S : S = Matches(name, current_dir)'
  OBVIOUS
<1>10. Min(S) = i
  BY <1>6, <1>7, <1>8, <1>9, MinIs
<1> QED BY <1>2, <1>5, <1>6, <1>9, <1>10 DEF Found, FindFile

LEMMA CountedStep ==
  ASSUME FilesInv, [FdNext]_fdVars
  PROVE  [file_count' = file_count + 1 =>
            \A i \in Slots, name \in Names :
              i \in free_list /\ i \notin free_list' /\ files'[i].name = name =>
                (Found(name) /\ FindFile(name) = i)']_vars
<1> FsInv
  BY DEF FilesInv
<1>1. CASE FdNext
  <2>1. OneSlot
    BY <1>1, CallStep
  <2>2. SUFFICES ASSUME NEW i \in Slots, NEW name, i \in free_list, i \notin free_list',
                        files'[i].name = name
                 PROVE  (Found(name) /\ FindFile(name) = i)'
    OBVIOUS
  <2>3. PICK e : Placed(e)
    BY <2>1, <2>2 DEF OneSlot, Stays, Moved, Changed, Removed
  <2>4. files \in [Slots -> Entry] /\ free_list \subseteq Slots /\ current_dir # NULL /\ CountIsExact
    BY SlotFacts DEF FilesInv, FsInv, TypeOK
  <2> QED BY <2>2, <2>3, <2>4, PlacedIsFound
<1>2. CASE UNCHANGED fdVars
  BY <1>2 DEF fdVars
<1> QED BY <1>1, <1>2

-----------------------------------------------------------------------------
(* Descriptors and open files.                                             *)

\* While no file is opened twice: the open files are those that a descriptor refers to, and
\* each has one.
OpenInv ==
  exclusive =>
    /\ \A fd \in Fds : fd_table[fd] # NULL => files[fd_table[fd]].is_open
    /\ \A i \in Slots : files[i].is_open => \E fd \in Fds : fd_table[fd] = i
    /\ \A a, b \in Fds : fd_table[a] = fd_table[b] /\ fd_table[a] # NULL => a = b

SameOpen == \A i \in Slots : files'[i].is_open = files[i].is_open

LEMMA ReplySameOpen ==
  ASSUME NEW call, NEW name, NEW value, Reply(call, name, value)
  PROVE  SameOpen
BY DEF Reply, SameOpen

LEMMA EntrySameOpen ==
  ASSUME FsInv, NEW f \in Slots, NEW e, files' = [files EXCEPT ![f] = e],
         e.is_open = files[f].is_open
  PROVE  SameOpen
<1>1. files \in [Slots -> Entry]
  BY DEF FsInv, TypeOK
<1> QED BY <1>1 DEF SameOpen

LEMMA FreeIsNotOpen ==
  ASSUME FsInv, NEW i \in free_list
  PROVE  files[i].is_open = FALSE
BY DEF FsInv, TypeOK, Zeroed

LEMMA NewIsNotOpen ==
  ASSUME NEW name, NEW perms
  PROVE  NewFile(name, perms).is_open = FALSE /\ NewDir(name, current_dir).is_open = FALSE
BY DEF NewFile, NewDir, Zeroed

LEMMA GrowSameOpen ==
  ASSUME FsInv, NEW name \in Names, Grow(name)
  PROVE  SameOpen
<1>1. ASSUME NEW call, Refused(call, name) PROVE SameOpen
  BY <1>1, ReplySameOpen DEF Refused
<1>2. ASSUME NEW call, NEW e, e.is_open = FALSE, Place(call, name, e) PROVE SameOpen
  <2>1. free_list # {} /\ files' = [files EXCEPT ![FreeSlot] = e]
    BY <1>2 DEF Place
  <2>2. FreeSlot \in Slots /\ files[FreeSlot].is_open = FALSE
    BY <2>1, FreeSlotIsFree, FreeIsNotOpen
  <2> QED BY <1>2, <2>1, <2>2, EntrySameOpen
<1>3. ASSUME NEW perms, FsCreateWithPerms(name, perms) PROVE SameOpen
  BY <1>1, <1>2, <1>3, NewIsNotOpen DEF FsCreateWithPerms
<1>4. ASSUME FsMkdir(name) PROVE SameOpen
  BY <1>1, <1>2, <1>4, NewIsNotOpen DEF FsMkdir
<1> QED BY <1>3, <1>4 DEF Grow, FsCreate

LEMMA DeleteSameOpen ==
  ASSUME FsInv, NEW name \in Names, FsDelete(name)
  PROVE  SameOpen
<1>1. ASSUME Found(name), NEW f, f = FindFile(name), DeleteError(f) = "SUCCESS",
             files' = [files EXCEPT ![f] = Erased(files[f])]
      PROVE  SameOpen
  <2>1. f \in Slots /\ files[f].is_open \in BOOLEAN
    BY <1>1, FoundEntry, SlotEntry
  <2>2. files[f].is_open = FALSE
    BY <1>1, <2>1 DEF DeleteError
  <2>3. Erased(files[f]).is_open = FALSE
    BY DEF Erased, Zeroed
  <2> QED BY <1>1, <2>1, <2>2, <2>3, EntrySameOpen
<1> QED BY <1>1, ReplySameOpen DEF FsDelete

LEMMA UpdateSameOpen ==
  ASSUME FsInv, NEW f \in Slots, NEW e, UpdateFile(f, e), e.is_open = files[f].is_open
  PROVE  SameOpen
BY EntrySameOpen DEF UpdateFile

\* Nothing but opening and closing opens and closes.
LEMMA UseSameOpen ==
  ASSUME FsInv, NEW name \in Names, Use(name),
         ~(ret'.call \in {"open", "close"} /\ ret'.value = "SUCCESS")
  PROVE  SameOpen
<1>1. Found(name) => FindFile(name) \in Slots /\ files[FindFile(name)] \in Entry
  BY FoundEntry, SlotEntry
<1>2. ASSUME Found(name), NEW position, UpdateFile(FindFile(name),
               [files[FindFile(name)] EXCEPT !.position = position])
      PROVE  SameOpen
  <2>1. PICK f : f = FindFile(name)
    OBVIOUS
  <2>2. [files[f] EXCEPT !.position = position].is_open = files[f].is_open
    BY <1>1, <1>2, <2>1 DEF Entry
  <2> QED BY <1>1, <1>2, <2>1, <2>2, UpdateSameOpen
<1>3. CASE FsOpen(name)
  <2>1. ret' # Answer("open", name, "SUCCESS")
    BY DEF Answer
  <2> QED BY <1>3, <2>1, ReplySameOpen DEF FsOpen
<1>4. CASE FsClose(name)
  <2>1. ret' # Answer("close", name, "SUCCESS")
    BY DEF Answer
  <2> QED BY <1>4, <2>1, ReplySameOpen DEF FsClose
<1>5. ASSUME NEW offset, FsSeek(name, offset) PROVE SameOpen
  BY <1>2, <1>5, ReplySameOpen DEF FsSeek
<1>6. ASSUME NEW length, FsRead(name, length) PROVE SameOpen
  <2>1. CASE Reply("read", name, 0)
    BY <2>1, ReplySameOpen
  <2>2. ASSUME Accessible(name, "READ"), NEW f, f = FindFile(name), NEW bytes,
               UpdateFile(f, [files[f] EXCEPT !.position = @ + bytes])
        PROVE  SameOpen
    BY <1>2, <2>2 DEF Accessible
  <2> QED BY <1>6, <2>1, <2>2 DEF FsRead
<1>7. CASE FsChdir(name)
  BY <1>7, ReplySameOpen DEF FsChdir, SameOpen
<1> QED BY <1>3, <1>4, <1>5, <1>6, <1>7 DEF Use

LEMMA WriteSameOpen ==
  ASSUME FilesInv, NEW name \in Names, NEW length \in Lengths, FsWrite(name, length)
  PROVE  SameOpen
<1> FsInv
  BY DEF FilesInv
<1>1. CASE Accessible(name, "WRITE") /\ UpdateFile(FindFile(name), Written(files[FindFile(name)], length))
  <2>1. PICK f : f = FindFile(name)
    OBVIOUS
  <2>2. PICK e : e = files[f]
    OBVIOUS
  <2>3. f \in Slots /\ e \in Entry /\ length \in Nat /\ e.position \in Nat
    BY <1>1, <2>1, <2>2, FoundEntry, SlotEntry, FsAssumption DEF Accessible
  <2>4. PICK end : end = e.position + length
    OBVIOUS
  <2>5. PICK r : r = IF end > e.size THEN Resized(e, end) ELSE e
    OBVIOUS
  <2>6. end \in Nat
    BY <2>3, <2>4
  <2>7. r \in Entry /\ r.is_open = e.is_open
    BY <2>3, <2>5, <2>6, ResizedEntry
  <2>8. Written(e, length) = [r EXCEPT !.position = end, !.size = Max({@, end})]
    BY <2>4, <2>5 DEF Written
  <2>9. Written(e, length).is_open = e.is_open
    BY <2>7, <2>8 DEF Entry
  <2> QED BY <1>1, <2>1, <2>2, <2>3, <2>9, UpdateSameOpen
<1> QED BY <1>1, ReplySameOpen DEF FsWrite

LEMMA SameOpenKeeps ==
  ASSUME FilesInv, OpenInv, SameOpen, UNCHANGED fd_table, exclusive' => exclusive
  PROVE  OpenInv'
<1> FsInv
  BY DEF FilesInv
<1>1. fd_table \in [Fds -> Slots \cup {NULL}]
  BY DEF FilesInv, FdTypeOK
<1> QED BY <1>1 DEF OpenInv, SameOpen

LEMMA NameKeepsOpen ==
  ASSUME FilesInv, OpenInv, ByName
  PROVE  OpenInv'
<1> FsInv
  BY DEF FilesInv
<1>1. CASE ~exclusive'
  BY <1>1 DEF OpenInv
<1>2. CASE exclusive'
  <2>1. /\ exclusive /\ ~(ret'.call \in {"open", "close"} /\ ret'.value = "SUCCESS")
        /\ UNCHANGED fd_table /\ Next
    BY <1>2 DEF ByName
  <2>2. ASSUME FsChdirUp PROVE SameOpen
    BY <2>2, ReplySameOpen DEF FsChdirUp, SameOpen
  <2>3. SameOpen
    BY <2>1, <2>2, GrowSameOpen, DeleteSameOpen, UseSameOpen, WriteSameOpen DEF Next, Write
  <2> QED BY <2>1, <2>3, SameOpenKeeps
<1> QED BY <1>1, <1>2

\* A file that is not open gets a free descriptor, and is open with it.
LEMMA GiveKeepsOpen ==
  ASSUME FilesInv, OpenInv, exclusive, NEW f \in Slots, files[f].is_open = FALSE,
         NEW e \in Entry, e.is_open = FALSE, NEW trunc, GiveDescriptor(f, e, trunc)
  PROVE  OpenInv'
<1> FsInv
  BY DEF FilesInv
<1>1. fd_table \in [Fds -> Slots \cup {NULL}] /\ files \in [Slots -> Entry] /\ NULL \notin Slots
  BY SlotFacts DEF FsInv, FilesInv, FdTypeOK, TypeOK
<1>2. CASE UNCHANGED fd_table /\ files' = [files EXCEPT ![f] = e]
  BY <1>2, EntrySameOpen, SameOpenKeeps
<1>3. ASSUME NEW fd, fd = Min(FreeFds), FreeFds # {}, fd_table' = [fd_table EXCEPT ![fd] = f],
             NEW w, w = Opened(e, trunc), files' = [files EXCEPT ![f] = w]
      PROVE  OpenInv'
  <2>1. w.is_open
    BY <1>3 DEF Opened, Entry
  <2>2. fd \in Fds
    BY <1>3, FreeFdFacts
  <2>3. \A i \in Slots : files'[i] = IF i = f THEN w ELSE files[i]
    BY <1>1, <1>3
  <2>4. \A a \in Fds : fd_table'[a] = IF a = fd THEN f ELSE fd_table[a]
    BY <1>1, <1>3
  <2>5. \A a \in Fds : fd_table[a] # f /\ (fd_table[a] # NULL => fd_table[a] \in Slots)
    BY <1>1 DEF OpenInv
  <2>6. \A a \in Fds : fd_table'[a] # NULL => files'[fd_table'[a]].is_open
    BY <2>1, <2>3, <2>4, <2>5 DEF OpenInv
  <2>7. \A i \in Slots : files'[i].is_open => \E a \in Fds : fd_table'[a] = i
    <3> TAKE i \in Slots
    <3>1. CASE i = f
      BY <2>2, <2>4, <3>1
    <3>2. CASE i # f
      <4> SUFFICES ASSUME files[i].is_open PROVE \E a \in Fds : fd_table'[a] = i
        BY <2>3, <3>2
      <4>1. PICK a \in Fds : fd_table[a] = i
        BY DEF OpenInv
      <4>2. a # fd
        <5>1. fd_table[fd] = NULL
          <6>1. FreeFds \in SUBSET Nat
            BY DEF FreeFds, Fds, FirstFd
          <6> QED BY <1>3, <6>1, MinIsLeast DEF FreeFds
        <5> QED BY <1>1, <4>1, <5>1
      <4> QED BY <2>4, <4>1, <4>2
    <3> QED BY <3>1, <3>2
  <2>8. \A a, b \in Fds : fd_table'[a] = fd_table'[b] /\ fd_table'[a] # NULL => a = b
    BY <2>4, <2>5 DEF OpenInv
  <2> QED BY <2>6, <2>7, <2>8 DEF OpenInv
<1> QED BY <1>2, <1>3 DEF GiveDescriptor

LEMMA OpeningKeepsOpen ==
  ASSUME FilesInv, OpenInv, Opening
  PROVE  OpenInv'
<1> FsInv
  BY DEF FilesInv
<1>1. CASE ~exclusive'
  BY <1>1 DEF OpenInv
<1>2. CASE exclusive'
  <2>1. PICK name \in Names, creat \in BOOLEAN, trunc \in BOOLEAN :
          /\ Open(name, creat, trunc) /\ exclusive
          /\ Found(name) => ~files[FindFile(name)].is_open
    BY <1>2 DEF Opening
  <2>2. CASE OpenExisting(name, trunc)
    <3>1. PICK f : f = FindFile(name)
      OBVIOUS
    <3>2. Found(name) /\ GiveDescriptor(f, files[f], trunc)
      BY <2>2, <3>1 DEF OpenExisting
    <3>3. f \in Slots /\ files[f] \in Entry /\ files[f].is_open = FALSE
      BY <2>1, <3>1, <3>2, FoundEntry, SlotEntry
    <3> QED BY <2>1, <3>2, <3>3, GiveKeepsOpen
  <2>3. CASE OpenNew(name, trunc)
    <3>1. PICK e : e = NewFile(name, DefaultPerms)
      OBVIOUS
    <3>2. free_list # {} /\ GiveDescriptor(FreeSlot, e, trunc)
      BY <2>3, <3>1 DEF OpenNew
    <3>3. FreeSlot \in Slots /\ files[FreeSlot].is_open = FALSE
      BY <3>2, FreeSlotIsFree, FreeIsNotOpen
    <3>4. current_dir \in Slots /\ DefaultPerms \in SUBSET AllPerms
      BY DEF FsInv, FilesInv, FdTypeOK, TypeOK, DefaultPerms, AllPerms
    <3>5. e \in Entry
      BY <3>1, <3>4, NewEntries
    <3>6. e.is_open = FALSE
      BY <3>1, NewIsNotOpen
    <3> QED BY <2>1, <3>2, <3>3, <3>5, <3>6, GiveKeepsOpen
  <2>4. CASE FdReply("fd_open", -1)
    BY <2>1, <2>4, ReplySameOpen, SameOpenKeeps DEF FdReply
  <2> QED BY <2>1, <2>2, <2>3, <2>4 DEF Open
<1> QED BY <1>1, <1>2

\* No other descriptor refers to the file that is closed.
LEMMA CloseKeepsOpen ==
  ASSUME FilesInv, OpenInv, NEW fd, Close(fd), UNCHANGED exclusive
  PROVE  OpenInv'
<1> FsInv
  BY DEF FilesInv
<1>1. fd_table \in [Fds -> Slots \cup {NULL}] /\ files \in [Slots -> Entry] /\ NULL \notin Slots
  BY SlotFacts DEF FsInv, FilesInv, FdTypeOK, TypeOK
<1>2. CASE FdReply("fd_close", -1)
  BY <1>2, ReplySameOpen, SameOpenKeeps DEF FdReply
<1>3. ASSUME IsDescriptor(fd), NEW f, f = fd_table[fd], NEW w, w = [files[f] EXCEPT !.is_open = FALSE],
             files' = [files EXCEPT ![f] = w], fd_table' = [fd_table EXCEPT ![fd] = NULL]
      PROVE  OpenInv'
  <2>1. fd \in Fds /\ f \in Slots /\ f # NULL
    BY <1>1, <1>3 DEF IsDescriptor
  <2>2. w.is_open = FALSE
    BY <1>1, <1>3, <2>1 DEF Entry
  <2>3. \A i \in Slots : files'[i] = IF i = f THEN w ELSE files[i]
    BY <1>1, <1>3
  <2>4. \A a \in Fds : fd_table'[a] = IF a = fd THEN NULL ELSE fd_table[a]
    BY <1>1, <1>3
  <2>5. SUFFICES ASSUME exclusive PROVE OpenInv'
    BY DEF OpenInv
  <2>6. \A a \in Fds : a # fd => fd_table[a] # f
    BY <1>3, <2>1, <2>5 DEF OpenInv
  <2>7. \A a \in Fds : fd_table'[a] # NULL => files'[fd_table'[a]].is_open
    BY <1>1, <2>3, <2>4, <2>5, <2>6 DEF OpenInv
  <2>8. \A i \in Slots : files'[i].is_open => \E a \in Fds : fd_table'[a] = i
    <3> SUFFICES ASSUME NEW i \in Slots, files'[i].is_open PROVE \E a \in Fds : fd_table'[a] = i
      OBVIOUS
    <3>1. i # f /\ files[i].is_open
      BY <2>2, <2>3
    <3>2. PICK a \in Fds : fd_table[a] = i
      BY <2>5, <3>1 DEF OpenInv
    <3>3. a # fd
      BY <1>3, <3>1, <3>2
    <3> QED BY <2>4, <3>2, <3>3
  <2>9. \A a, b \in Fds : fd_table'[a] = fd_table'[b] /\ fd_table'[a] # NULL => a = b
    BY <2>4, <2>5 DEF OpenInv
  <2> QED BY <2>7, <2>8, <2>9 DEF OpenInv
<1> QED BY <1>2, <1>3 DEF Close, UpdateFile

LEMMA ThroughKeepsOpen ==
  ASSUME FilesInv, OpenInv, NEW fd, Usable(fd), NEW call, NEW value, NEW e,
         e.is_open = files[fd_table[fd]].is_open, UpdateThrough(fd, call, e, value),
         UNCHANGED exclusive
  PROVE  OpenInv'
<1> FsInv
  BY DEF FilesInv
<1>1. PICK f : f = fd_table[fd]
  OBVIOUS
<1>2. f \in Slots /\ UpdateFile(f, e) /\ UNCHANGED fd_table
  BY <1>1, UsableFile DEF UpdateThrough
<1> QED BY <1>1, <1>2, UpdateSameOpen, SameOpenKeeps

LEMMA DescriptorKeepsOpen ==
  ASSUME FilesInv, OpenInv, ByDescriptor, UNCHANGED exclusive
  PROVE  OpenInv'
<1> FsInv
  BY DEF FilesInv
<1>1. ASSUME NEW call, FdReply(call, -1) PROVE OpenInv'
  BY <1>1, ReplySameOpen, SameOpenKeeps DEF FdReply
<1>2. ASSUME NEW fd, Usable(fd)
      PROVE  files[fd_table[fd]] \in Entry /\ files[fd_table[fd]].position \in Nat
  BY <1>2, UsableFile, SlotEntry
<1>3. ASSUME NEW fd, Usable(fd), NEW call, NEW value, NEW position,
             UpdateThrough(fd, call, [files[fd_table[fd]] EXCEPT !.position = position], value)
      PROVE  OpenInv'
  <2>1. PICK e : e = files[fd_table[fd]]
    OBVIOUS
  <2>2. [e EXCEPT !.position = position].is_open = e.is_open
    BY <1>2, <1>3, <2>1 DEF Entry
  <2> QED BY <1>3, <2>1, <2>2, ThroughKeepsOpen
<1>4. ASSUME NEW fd, NEW count \in Lengths, Read(fd, count) PROVE OpenInv'
  BY <1>1, <1>3, <1>4 DEF Read
<1>5. ASSUME NEW fd, NEW count \in Lengths, WriteFd(fd, count) PROVE OpenInv'
  <2>1. ASSUME Usable(fd), NEW e, e = files[fd_table[fd]], NEW end, end = e.position + count,
               NEW r, r = IF end > e.allocated_size THEN Resized(e, end) ELSE e,
               UpdateThrough(fd, "fd_write", [r EXCEPT !.position = end, !.size = Max({@, end})], count)
        PROVE  OpenInv'
    <3>1. e \in Entry /\ end \in Nat
      BY <1>2, <2>1, FsAssumption
    <3>2. r \in Entry /\ r.is_open = e.is_open
      BY <2>1, <3>1, ResizedEntry
    <3>3. PICK w : w = [r EXCEPT !.position = end, !.size = Max({@, end})]
      OBVIOUS
    <3>4. w.is_open = r.is_open
      BY <3>2, <3>3 DEF Entry
    <3> QED BY <2>1, <3>2, <3>3, <3>4, ThroughKeepsOpen
  <2> QED BY <1>1, <1>5, <2>1 DEF WriteFd
<1>6. ASSUME NEW fd, NEW offset, NEW whence, Lseek(fd, offset, whence) PROVE OpenInv'
  BY <1>1, <1>3, <1>6 DEF Lseek
<1> QED BY <1>4, <1>5, <1>6, CloseKeepsOpen DEF ByDescriptor

LEMMA OpenInvariant == FdSpec => []OpenInv
<1>1. FdInit => OpenInv
  <2> SUFFICES ASSUME FdInit PROVE OpenInv
    OBVIOUS
  <2>1. \A fd \in Fds : fd_table[fd] = NULL
    BY DEF FdInit
  <2>2. \A i \in Slots : files[i].is_open = FALSE
    BY NewIsNotOpen DEF FdInit, Init, NewDir, Zeroed
  <2> QED BY <2>1, <2>2 DEF OpenInv
<1>2. FilesInv /\ OpenInv /\ [FdNext]_fdVars => OpenInv'
  <2> SUFFICES ASSUME FilesInv, OpenInv, [FdNext]_fdVars PROVE OpenInv'
    OBVIOUS
  <2>1. CASE UNCHANGED fdVars
    BY <2>1 DEF fdVars, vars, OpenInv
  <2> QED BY <2>1, NameKeepsOpen, OpeningKeepsOpen, DescriptorKeepsOpen DEF FdNext
<1> QED BY <1>1, <1>2, FilesInvariant, PTL DEF FdSpec

-----------------------------------------------------------------------------
(* Names that are not found.                                               *)

\* An answer of FS_ERR_NOT_FOUND comes from a search of the directory as it is.
NotFoundStep ==
  ret'.value = "NOT_FOUND" => ~Found(ret'.name) /\ Stays

LEMMA ReplyNotFound ==
  ASSUME NEW call, NEW name, NEW value, Reply(call, name, value),
         value = "NOT_FOUND" => ~Found(name)
  PROVE  NotFoundStep
BY DEF Reply, Answer, NotFoundStep, Stays

LEMMA AnswerIsElse ==
  ASSUME NEW call, NEW name, NEW value, ret' = Answer(call, name, value), value # "NOT_FOUND"
  PROVE  NotFoundStep
BY DEF Answer, NotFoundStep

LEMMA GrowNotFound ==
  ASSUME NEW name, Grow(name)
  PROVE  NotFoundStep
<1>1. ASSUME NEW call, Refused(call, name) PROVE NotFoundStep
  BY <1>1, ReplyNotFound DEF Refused
<1>2. ASSUME NEW call, NEW e, Place(call, name, e) PROVE NotFoundStep
  BY <1>2, AnswerIsElse DEF Place
<1>3. ASSUME NEW perms, FsCreateWithPerms(name, perms) PROVE NotFoundStep
  BY <1>1, <1>2, <1>3 DEF FsCreateWithPerms
<1>4. ASSUME FsMkdir(name) PROVE NotFoundStep
  BY <1>1, <1>2, <1>4 DEF FsMkdir
<1> QED BY <1>3, <1>4 DEF Grow, FsCreate

LEMMA DeleteNotFound ==
  ASSUME NEW name, FsDelete(name)
  PROVE  NotFoundStep
<1>1. CASE ~Found(name) /\ Reply("delete", name, "NOT_FOUND")
  BY <1>1, ReplyNotFound
<1>2. CASE ret' = Answer("delete", name, "SUCCESS")
  BY <1>2, AnswerIsElse
<1>3. CASE Reply("delete", name, DeleteError(FindFile(name)))
  <2>1. DeleteError(FindFile(name)) # "NOT_FOUND"
    BY DEF DeleteError
  <2> QED BY <1>3, <2>1, ReplyNotFound
<1> QED BY <1>1, <1>2, <1>3 DEF FsDelete

\* The calls that answer with a number are kept apart: they are not those of the mode tree.
LEMMA UseNotFound ==
  ASSUME NEW name, Use(name), ret'.call \notin {"seek", "read", "write"}
  PROVE  NotFoundStep
<1>1. ASSUME FsOpen(name) PROVE NotFoundStep
  BY <1>1, ReplyNotFound, AnswerIsElse DEF FsOpen
<1>2. ASSUME FsClose(name) PROVE NotFoundStep
  BY <1>2, ReplyNotFound, AnswerIsElse DEF FsClose
<1>3. ASSUME FsChdir(name) PROVE NotFoundStep
  BY <1>3, ReplyNotFound, AnswerIsElse DEF FsChdir
<1>4. ASSUME NEW offset, FsSeek(name, offset) PROVE FALSE
  BY <1>4 DEF FsSeek, Reply, Answer
<1>5. ASSUME NEW length, FsRead(name, length) PROVE FALSE
  BY <1>5 DEF FsRead, Reply, Answer
<1> QED BY <1>1, <1>2, <1>3, <1>4, <1>5 DEF Use

LEMMA NextNotFound ==
  ASSUME Next, ret'.call \notin {"seek", "read", "write"}
  PROVE  NotFoundStep
<1>1. ASSUME NEW name, Write(name) PROVE FALSE
  <2>1. PICK length : FsWrite(name, length)
    BY <1>1 DEF Write
  <2> QED BY <2>1 DEF FsWrite, Reply, Answer
<1>2. ASSUME FsChdirUp PROVE NotFoundStep
  BY <1>2, ReplyNotFound, AnswerIsElse DEF FsChdirUp
<1> QED BY <1>1, <1>2, GrowNotFound, DeleteNotFound, UseNotFound DEF Next

\* Without holes the slots in use are the ones that are searched.
LEMMA SearchedAreLive ==
  ASSUME FsInv, NoHoles, NEW i \in Live
  PROVE  i < file_count
<1>1. IsFiniteSet(Live) /\ Live \subseteq Slots /\ file_count = Cardinality(Live)
  BY LiveIsCounted
<1>2. i \in Nat /\ i < MaxFiles
  BY <1>1, FsAssumption DEF Slots
<1>5. \A j \in 0 .. i : j \in Live
  BY <1>1, <1>2, FsAssumption DEF NoHoles, Slots
<1>3. IsFiniteSet(0 .. i) /\ Cardinality(0 .. i) = i + 1
  BY <1>2, FS_Interval
<1>4. Cardinality(0 .. i) <= Cardinality(Live) /\ Cardinality(Live) \in Nat
  BY <1>1, <1>5, FS_Subset, FS_CardinalityType
<1> QED BY <1>1, <1>2, <1>3, <1>4

LEMMA NotFoundIsRight ==
  ASSUME FsInv, NotFoundStep, Stays
  PROVE  CompleteWithoutHoles'
<1> SUFFICES ASSUME NoHoles', ret'.value = "NOT_FOUND", NEW i \in Live',
                    files'[i].parent = current_dir'
             PROVE  files'[i].name # ret'.name
  BY DEF CompleteWithoutHoles, NotFoundIsReal
<1>1. ~Found(ret'.name) /\ Stays
  BY DEF NotFoundStep
<1>2. NoHoles /\ i \in Live /\ files[i].parent = current_dir
  BY <1>1 DEF Stays, NoHoles, Live
<1>3. i < file_count
  BY <1>2, SearchedAreLive
<1>4. current_dir # NULL
  BY SlotFacts DEF FsInv, TypeOK
<1>5. files[i].name # ret'.name
  BY <1>1, <1>2, <1>3, <1>4 DEF Found, Matches
<1> QED BY <1>1, <1>5 DEF Stays

LEMMA LookupsNext ==
  ASSUME FilesInv, LookupsAreComplete, [FilesNext]_<<fdVars, mode>>
  PROVE  LookupsAreComplete'
<1> SUFFICES ASSUME mode' = "tree" PROVE CompleteWithoutHoles'
  BY DEF LookupsAreComplete
<1>1. CASE mode = "tree" /\ ByName /\ StaysEmpty
  <2>1. NotFoundStep
    BY <1>1, NextNotFound DEF ByName, StaysEmpty
  <2>2. CASE Stays
    BY <2>1, <2>2, NotFoundIsRight DEF FilesInv
  <2>3. CASE ~Stays
    BY <2>1, <2>3 DEF NotFoundStep, CompleteWithoutHoles, NotFoundIsReal
  <2> QED BY <2>2, <2>3
<1>2. CASE UNCHANGED <<fdVars, mode>>
  BY <1>2 DEF fdVars, vars, LookupsAreComplete, CompleteWithoutHoles, NotFoundIsReal, NoHoles, Live
<1> QED BY <1>1, <1>2 DEF FilesNext

-----------------------------------------------------------------------------
(* Theorems.                                                               *)

\* Types of the files and the descriptors; a free slot is all zeros, whatever was in it
\* (fs.c:188-199, unistd.c:12-22).
THEOREM Typing == FdSpec => []FdTypeOK
<1>1. FilesInv => FdTypeOK
  BY DEF FilesInv
<1> QED BY <1>1, FilesInvariant, PTL

\* The directories form a tree of exactly the counted slots, and walking up from the current
\* directory ends at the root within the array (fs.c:132-215, 334-420), for arrays of any size.
THEOREM TreeStaysWhole == FdSpec => []TreeIsWhole
<1>1. FilesInv => TreeIsWhole
  BY RootIsReached DEF FsInv, FilesInv, TreeIsWhole
<1> QED BY <1>1, FilesInvariant, PTL

\* Sizes stay inside the buffers while no write passes the limit, positions inside the files,
\* and directories have no data (fs.c:217-332, unistd.c:50-140).
THEOREM DataStays == FdSpec => []DataStaysInside
<1>1. FilesInv => DataStaysInside
  <2> SUFFICES ASSUME FilesInv PROVE DataStaysInside
    OBVIOUS
  <2>1. \A i \in Live : DataOK(files[i])
    BY DEF FsInv, FilesInv, EntriesOK, Live
  <2> QED BY <2>1 DEF DataOK, DataStaysInside, SizeWithinAllocation, PositionInFile,
                      DirectoryHasNoData
<1> QED BY <1>1, FilesInvariant, PTL

\* For programs that open no file twice, the descriptors are those of the open files
\* (unistd.c:12-48).
THEOREM DescriptorsAreOpen == FdSpec => []DescriptorsMatch
<1>1. FilesInv /\ OpenInv => DescriptorsMatch
  <2> SUFFICES ASSUME FilesInv, OpenInv, exclusive PROVE DescriptorIsOpen /\ \A i \in Live :
                 files[i].is_open => \E fd \in Fds : fd_table[fd] = i
    BY DEF DescriptorsMatch, ExclusiveIsOpen, OpenHasDescriptor
  <2>1. \A i \in Slots : files[i].is_open => i \in Live
    BY FreeIsNotOpen DEF FilesInv, Live
  <2>2. \A fd \in Fds : fd_table[fd] \in Slots \cup {NULL}
    BY DEF FilesInv, FdTypeOK
  <2> QED BY <2>1, <2>2 DEF OpenInv, DescriptorIsOpen, Live
<1> QED BY <1>1, FilesInvariant, OpenInvariant, PTL

\* Whatever was deleted before, what was just created is found by its name, although the search
\* stops at file_count (fs.c:17-23 against 95).
THEOREM CreationIsSeen == FdSpec => CreatedIsFound
BY CountedStep, FilesInvariant, PTL DEF FdSpec, CreatedIsFound
\* In a filesystem that is built and cut by name, FS_ERR_NOT_FOUND is right as long as no free
\* slot is in front of one in use, although the search stops at file_count (fs.c:95).
THEOREM LookupsSeeAll == FilesSpec => []LookupsAreComplete
<1>1. FilesInit => FdInit /\ LookupsAreComplete
  <2> SUFFICES ASSUME FilesInit PROVE FdInit /\ LookupsAreComplete
    OBVIOUS
  <2>1. FdInit /\ ret.value = "SUCCESS"
    BY DEF FilesInit, FdInit, Init, Answer
  <2> QED BY <2>1 DEF LookupsAreComplete, CompleteWithoutHoles, NotFoundIsReal
<1>2. [FilesNext]_<<fdVars, mode>> => [FdNext]_fdVars
  BY DEF FilesNext, FdNext
<1>3. FilesInv /\ LookupsAreComplete /\ [FilesNext]_<<fdVars, mode>> => LookupsAreComplete'
  BY LookupsNext
<1> QED BY <1>1, <1>2, <1>3, FilesInvariant, PTL DEF FilesSpec, FdSpec
=============================================================================
