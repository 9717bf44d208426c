----------------------------- MODULE SyncProofs -----------------------------
(***************************************************************************)
(* Theorems about PcLock, for any number of threads and any even number of *)
(* generations, about Srp, for any finite number of elements and any       *)
(* readers, and about the counters of Words, for any holders.              *)
(*                                                                         *)
(* The inductive invariant of the lock is PcLockTypeOK with                *)
(* ReaderKeepsCount: what pc_cons_leave compares is a count of writes,     *)
(* kept modulo Generations, as long as no producer overwrites another's    *)
(* generation.                                                             *)
(***************************************************************************)
EXTENDS PcLock, Srp, Words, MinLemmas, FiniteSetTheorems

-----------------------------------------------------------------------------
\* One more write, modulo Generations, is the next generation.
LEMMA NextCount ==
  ASSUME NEW g \in Values, NEW n \in Nat, n < Generations
  PROVE  Next1((g + n) % Generations) = (g + (n + 1)) % Generations
<1>1. Generations \in Nat \ {0}
  BY PcLockAssumption
<1>2. CASE g + n + 1 < Generations
  BY <1>1, <1>2 DEF Next1, Values
<1>3. CASE g + n + 1 = Generations
  BY <1>1, <1>3 DEF Next1, Values
<1>4. CASE g + n + 1 > Generations
  <2>1. (g + n) % Generations = g + n - Generations
    BY <1>1, <1>4 DEF Values
  <2>2. (g + (n + 1)) % Generations = g + n + 1 - Generations
    BY <1>1, <1>4 DEF Values
  <2> QED BY <1>1, <2>1, <2>2 DEF Next1, Values
<1> QED BY <1>1, <1>2, <1>3, <1>4 DEF Values

\* A generation and the one a number of writes later are the same only when there was
\* no write, if fewer than Generations were made.
LEMMA SameGeneration ==
  ASSUME NEW g \in Values, NEW n \in Nat, n < Generations, g = (g + n) % Generations
  PROVE  n = 0
<1>1. Generations \in Nat \ {0}
  BY PcLockAssumption
<1>2. CASE g + n < Generations
  BY <1>1, <1>2 DEF Values
<1>3. CASE g + n >= Generations
  <2>1. (g + n) % Generations = g + n - Generations
    BY <1>1, <1>3 DEF Values
  <2> QED BY <1>1, <2>1 DEF Values
<1> QED BY <1>1, <1>2, <1>3 DEF Values

LEMMA Next1Value == ASSUME NEW g \in Values PROVE Next1(g) \in Values
BY PcLockAssumption DEF Next1, Values

-----------------------------------------------------------------------------
(* Types.                                                                  *)

\* PcLockTypeOK is inductive.
LEMMA LockTypingStep == PcLockTypeOK /\ [PcLockNext]_pc_lock_vars => PcLockTypeOK'
<1> SUFFICES ASSUME PcLockTypeOK, [PcLockNext]_pc_lock_vars PROVE PcLockTypeOK'
  OBVIOUS
<1>1. Generations \in Nat /\ Generations > 0 /\ Generations % 2 = 0
  BY PcLockAssumption
<1> USE <1>1, Next1Value DEF PcLockTypeOK, Goto, Load, Store, Threads, Producers, Labels
<1>2. ASSUME NEW p \in Threads, SprodEnter(p) PROVE PcLockTypeOK'
  BY <1>2 DEF SprodEnter
<1>3. ASSUME NEW p \in Threads, SprodLeave(p) PROVE PcLockTypeOK'
  BY <1>3 DEF SprodLeave, Leave
<1>4. ASSUME NEW p \in Threads, MprodCall(p) PROVE PcLockTypeOK'
  BY <1>4 DEF MprodCall
<1>5. ASSUME NEW p \in Threads, MprodRead(p) PROVE PcLockTypeOK'
  BY <1>5 DEF MprodRead
<1>6. ASSUME NEW p \in Threads, MprodCas(p) PROVE PcLockTypeOK'
  BY <1>6 DEF MprodCas
<1>7. ASSUME NEW p \in Threads, MprodLeave(p) PROVE PcLockTypeOK'
  BY <1>7 DEF MprodLeave, Leave
<1>8. ASSUME NEW c \in Threads, ConsCall(c) PROVE PcLockTypeOK'
  BY <1>8 DEF ConsCall
<1>9. ASSUME NEW c \in Threads, ConsFirst(c) PROVE PcLockTypeOK'
  BY <1>9 DEF ConsFirst
<1>10. ASSUME NEW c \in Threads, ConsSecond(c) PROVE PcLockTypeOK'
  BY <1>10 DEF ConsSecond
<1>11. ASSUME NEW c \in Threads, ConsLeave(c) PROVE PcLockTypeOK'
  BY <1>11 DEF ConsLeave
<1>12. CASE UNCHANGED pc_lock_vars
  BY <1>12 DEF pc_lock_vars
<1> QED
  BY <1>2, <1>3, <1>4, <1>5, <1>6, <1>7, <1>8, <1>9, <1>10, <1>11, <1>12
  DEF PcLockNext, Step, Call

LEMMA LockTypingInit == PcLockInit => PcLockTypeOK
<1> SUFFICES ASSUME PcLockInit PROVE PcLockTypeOK
  OBVIOUS
<1>1. 0 \in Values /\ 0 \in 0 .. Generations
  BY PcLockAssumption DEF Values
<1>2. \A t \in Threads : pc[t] = "out"
  BY DEF PcLockInit
<1> QED BY <1>1, <1>2 DEF PcLockInit, PcLockTypeOK, Labels

\* Types, for any number of threads and generations.
THEOREM LockTyping == PcLockSpec => []PcLockTypeOK
<1> QED BY LockTypingInit, LockTypingStep, PTL DEF PcLockSpec

-----------------------------------------------------------------------------
(* The generation as a counter.                                            *)

Counting == PcLockTypeOK /\ ReaderKeepsCount /\ AcceptedSawNoWrite

\* A producer that leaves without overwriting a generation of another counts one write.
LEMMA LeaveCounts ==
  ASSUME Counting, NEW p \in Producers, pc[p] = "in", Leave(p)
  PROVE  (ReaderKeepsCount /\ AcceptedSawNoWrite)'
<1> SUFFICES ASSUME ~lost', NEW c \in Consumers
             PROVE /\ pc'[c] = "reading" /\ seen'[c] < Generations =>
                        pcl_gen' = (gen'[c] + seen'[c]) % Generations
                   /\ pc'[c] = "accepted" /\ seen'[c] < Generations => seen'[c] = 0
  BY DEF ReaderKeepsCount, AcceptedSawNoWrite
<1> USE DEF Counting, PcLockTypeOK, Threads, Producers
<1>1. ~lost /\ pcl_gen = gen[p] /\ gen' = gen /\ pcl_gen' = Next1(pcl_gen)
  BY DEF Leave, Store
<1>2. c # p /\ pc'[c] = pc[c]
  BY PcLockAssumption DEF Leave, Goto
<1>3. CASE pc[c] = "reading" /\ seen[c] < Generations
  <2>1. seen'[c] = seen[c] + 1
    BY <1>3 DEF Leave, Store
  <2>2. Next1((gen[c] + seen[c]) % Generations) = (gen[c] + (seen[c] + 1)) % Generations
    BY <1>3, NextCount, PcLockAssumption
  <2> QED BY <1>1, <1>2, <1>3, <2>1, <2>2 DEF ReaderKeepsCount
<1>4. CASE ~(pc[c] = "reading" /\ seen[c] < Generations)
  <2>1. seen'[c] = seen[c]
    BY <1>4 DEF Leave, Store
  <2> QED BY <1>1, <1>2, <1>4, <2>1 DEF AcceptedSawNoWrite
<1> QED BY <1>3, <1>4

\* A compare-and-swap that succeeds counts one write, one that fails none.
LEMMA CasCounts ==
  ASSUME Counting, NEW p \in Threads, MprodCas(p)
  PROVE  (ReaderKeepsCount /\ AcceptedSawNoWrite)'
<1> SUFFICES ASSUME ~lost', NEW c \in Consumers
             PROVE /\ pc'[c] = "reading" /\ seen'[c] < Generations =>
                        pcl_gen' = (gen'[c] + seen'[c]) % Generations
                   /\ pc'[c] = "accepted" /\ seen'[c] < Generations => seen'[c] = 0
  BY DEF ReaderKeepsCount, AcceptedSawNoWrite
<1> USE DEF Counting, PcLockTypeOK, Threads, Producers
<1>1. ~lost /\ c # p /\ pc'[c] = pc[c] /\ gen'[c] = gen[c]
  BY PcLockAssumption DEF MprodCas, Goto
<1>2. CASE pcl_gen = gen[p]
  <2>1. pcl_gen' = Next1(pcl_gen)
    BY <1>2 DEF MprodCas, Store
  <2>2. CASE pc[c] = "reading" /\ seen[c] < Generations
    <3>1. seen'[c] = seen[c] + 1
      BY <1>2, <2>2 DEF MprodCas, Store
    <3>2. Next1((gen[c] + seen[c]) % Generations) = (gen[c] + (seen[c] + 1)) % Generations
      BY <2>2, NextCount, PcLockAssumption
    <3> QED BY <1>1, <2>1, <2>2, <3>1, <3>2 DEF ReaderKeepsCount
  <2>3. CASE ~(pc[c] = "reading" /\ seen[c] < Generations)
    <3>1. seen'[c] = seen[c]
      BY <1>2, <2>3 DEF MprodCas, Store
    <3> QED BY <1>1, <2>3, <3>1 DEF AcceptedSawNoWrite
  <2> QED BY <2>2, <2>3
<1>3. CASE pcl_gen # gen[p]
  BY <1>1, <1>3 DEF MprodCas, ReaderKeepsCount, AcceptedSawNoWrite
<1> QED BY <1>2, <1>3

LEMMA CountingStep == Counting /\ [PcLockNext]_pc_lock_vars => Counting'
<1> SUFFICES ASSUME Counting, [PcLockNext]_pc_lock_vars PROVE (ReaderKeepsCount /\ AcceptedSawNoWrite)'
  BY LockTypingStep DEF Counting
<1> USE DEF Counting, PcLockTypeOK, Threads, Producers
<1>1. ASSUME NEW p \in Threads, SprodEnter(p) PROVE (ReaderKeepsCount /\ AcceptedSawNoWrite)'
  BY <1>1, PcLockAssumption DEF SprodEnter, Goto, Load, ReaderKeepsCount, AcceptedSawNoWrite
<1>2. ASSUME NEW p \in Threads, SprodLeave(p) \/ MprodLeave(p)
      PROVE  (ReaderKeepsCount /\ AcceptedSawNoWrite)'
  BY <1>2, LeaveCounts DEF SprodLeave, MprodLeave
<1>3. ASSUME NEW p \in Threads, MprodCall(p) PROVE (ReaderKeepsCount /\ AcceptedSawNoWrite)'
  BY <1>3, PcLockAssumption DEF MprodCall, Goto, ReaderKeepsCount, AcceptedSawNoWrite
<1>4. ASSUME NEW p \in Threads, MprodRead(p) PROVE (ReaderKeepsCount /\ AcceptedSawNoWrite)'
  BY <1>4, PcLockAssumption DEF MprodRead, Goto, Load, ReaderKeepsCount, AcceptedSawNoWrite
<1>5. ASSUME NEW p \in Threads, MprodCas(p) PROVE (ReaderKeepsCount /\ AcceptedSawNoWrite)'
  BY <1>5, CasCounts
<1>6. ASSUME NEW d \in Threads, ConsCall(d) PROVE (ReaderKeepsCount /\ AcceptedSawNoWrite)'
  BY <1>6 DEF ConsCall, Goto, ReaderKeepsCount, AcceptedSawNoWrite
<1>7. ASSUME NEW d \in Threads, ConsFirst(d) PROVE (ReaderKeepsCount /\ AcceptedSawNoWrite)'
  BY <1>7 DEF ConsFirst, Goto, Load, ReaderKeepsCount, AcceptedSawNoWrite
<1>8. ASSUME NEW d \in Threads, ConsSecond(d) PROVE (ReaderKeepsCount /\ AcceptedSawNoWrite)'
  BY <1>8, PcLockAssumption DEF ConsSecond, Goto, Values, ReaderKeepsCount, AcceptedSawNoWrite
<1>9. ASSUME NEW d \in Threads, ConsLeave(d) PROVE (ReaderKeepsCount /\ AcceptedSawNoWrite)'
  <2>1. CASE pcl_gen = gen[d]
    BY <1>9, <2>1, SameGeneration
    DEF ConsLeave, Goto, ReaderKeepsCount, AcceptedSawNoWrite
  <2>2. CASE pcl_gen # gen[d]
    BY <1>9, <2>2, PcLockAssumption DEF ConsLeave, Values, ReaderKeepsCount, AcceptedSawNoWrite
  <2> QED BY <2>1, <2>2
<1>10. CASE UNCHANGED pc_lock_vars
  BY <1>10 DEF pc_lock_vars, ReaderKeepsCount, AcceptedSawNoWrite
<1> QED
  BY <1>1, <1>2, <1>3, <1>4, <1>5, <1>6, <1>7, <1>8, <1>9, <1>10 DEF PcLockNext, Step, Call

\* What a consumer keeps was read while nobody wrote the generation, unless it wrapped
\* around or producers overwrote each other's generation.
THEOREM ConsistentReads == PcLockSpec => []AcceptedSawNoWrite
<1>1. PcLockInit => Counting
  BY LockTypingInit DEF Counting, PcLockInit, Threads, ReaderKeepsCount, AcceptedSawNoWrite
<1>2. Counting => AcceptedSawNoWrite
  BY DEF Counting
<1> QED BY <1>1, <1>2, CountingStep, PTL DEF PcLockSpec

-----------------------------------------------------------------------------
(* Srp.  The list is a chain of elements from the head to NULL; at most    *)
(* the element the writer is busy with has a reference outside of it.      *)

Writers ==
  {NoWriter} \cup [op : {"insert"}, at : References, e : Elements] \cup [op : {"remove"}, e : Elements]

SrpTypeOK ==
  /\ srp_ref \in [References -> Elements \cup {NULL}]
  /\ r_refs \in Nat /\ owner \in BOOLEAN /\ dtor_calls \in Nat
  /\ writer \in Writers
  /\ reader \in [SrpReaders -> Elements \cup {NULL, Done}]
  /\ srp_seen \in [SrpReaders -> SUBSET Elements] /\ stayed \in [SrpReaders -> SUBSET Elements]

\* s goes from the head through all n elements of the list.
Chain(s, n) ==
  /\ s \in [0 .. n -> References] /\ s[0] = ListHead
  /\ \A i, j \in 0 .. n : s[i] = s[j] => i = j
  /\ \A i \in 0 .. n - 1 : srp_ref[s[i]] = s[i + 1]
  /\ srp_ref[s[n]] = NULL
Members(s, n) == {s[i] : i \in 1 .. n}

\* The writer's element is outside of the list, and nothing else there refers to anything.
WriterOutside(in) ==
  /\ writer.op = "insert" =>
       /\ owner /\ writer.e \notin in /\ writer.at \in in \cup {ListHead}
       /\ srp_ref[writer.e] = srp_ref[writer.at]
  /\ writer.op = "remove" => writer.e \notin in
  /\ \A x \in Elements \ in : srp_ref[x] # NULL => writer.op # "none" /\ x = writer.e

\* What stayed and was not seen yet is behind the reader.
ReadersBehind(s, n) ==
  \A r \in SrpReaders \ disturbed :
    /\ stayed[r] \subseteq Members(s, n)
    /\ reader[r] \in Elements =>
         \E j \in 1 .. n : s[j] = reader[r] /\ \A i \in 1 .. j : s[i] \in stayed[r] => s[i] \in srp_seen[r]
    /\ reader[r] = Done => stayed[r] \subseteq srp_seen[r]

ListKept == \E n \in Nat : \E s : Chain(s, n) /\ WriterOutside(Members(s, n)) /\ ReadersBehind(s, n)

SrpInv == SrpTypeOK /\ CollectorIsExact /\ ListKept

LEMMA SrpFacts ==
  /\ IsFiniteSet(References) /\ References = Elements \cup {ListHead}
  /\ ListHead \notin Elements /\ NULL \notin Elements /\ Done \notin Elements
  /\ NULL # ListHead /\ NULL \notin References /\ Done # NULL
<1>1. IsFiniteSet(References)
  BY SrpAssumption, FS_AddElement DEF References
<1> QED BY <1>1, SrpAssumption DEF References, ListHead, NULL, Done

-----------------------------------------------------------------------------
(* The count.                                                              *)

\* The places that hold a reference.
Referring(refs) == {x \in References : refs[x] # NULL}
Owned == IF owner THEN 1 ELSE 0

\* Replacing one reference changes their number as srp_update_locked says.
LEMMA CountChanges ==
  ASSUME NEW refs \in [References -> Elements \cup {NULL}],
         NEW x \in References, NEW ptr \in Elements \cup {NULL},
         NEW new, new = [refs EXCEPT ![x] = ptr]
  PROVE  /\ Cardinality(Referring(refs)) \in Nat /\ Cardinality(Referring(new)) \in Nat
         /\ Cardinality(Referring(refs)) >= Taken(refs[x])
         /\ Cardinality(Referring(new)) = Cardinality(Referring(refs)) + Taken(ptr) - Taken(refs[x])
<1>0. PICK R : R = Referring(refs)
  OBVIOUS
<1>1. IsFiniteSet(R)
  <2>1. R \subseteq References
    BY <1>0 DEF Referring
  <2> QED BY <2>1, SrpFacts, FS_Subset
<1>2. PICK c : c = Cardinality(R)
  OBVIOUS
<1>3. x \in R <=> refs[x] # NULL
  BY <1>0 DEF Referring
<1>4. c \in Nat /\ (x \in R => c >= 1)
  <2>1. x \in R => R # {}
    OBVIOUS
  <2> QED BY <1>1, <1>2, <2>1, FS_CardinalityType, FS_EmptySet
<1>5. CASE ptr # NULL
  <2>1. Referring(new) = R \cup {x}
    BY <1>0, <1>5 DEF Referring
  <2>2. Cardinality(R \cup {x}) = IF x \in R THEN c ELSE c + 1
    <3>1. x \in R => R \cup {x} = R
      OBVIOUS
    <3>2. CASE x \in R
      BY <1>2, <3>1, <3>2
    <3>3. CASE x \notin R
      BY <1>1, <1>2, <3>3, FS_AddElement
    <3> QED BY <3>2, <3>3
  <2>3. Taken(ptr) = 1 /\ Taken(refs[x]) = IF x \in R THEN 1 ELSE 0
    BY <1>3, <1>5 DEF Taken
  <2>4. PICK d : d = Cardinality(Referring(new))
    OBVIOUS
  <2>5. d = IF x \in R THEN c ELSE c + 1
    BY <2>1, <2>2, <2>4
  <2>6. d \in Nat /\ c >= Taken(refs[x]) /\ d = c + Taken(ptr) - Taken(refs[x])
    BY <1>4, <2>3, <2>5
  <2> QED BY <1>0, <1>2, <1>4, <2>4, <2>6
<1>6. CASE ptr = NULL
  <2>1. Referring(new) = R \ {x}
    BY <1>0, <1>6 DEF Referring
  <2>2. Cardinality(R \ {x}) = IF x \in R THEN c - 1 ELSE c
    <3>1. x \notin R => R \ {x} = R
      OBVIOUS
    <3>2. CASE x \notin R
      BY <1>2, <3>1, <3>2
    <3>3. CASE x \in R
      BY <1>1, <1>2, <3>3, FS_RemoveElement
    <3> QED BY <3>2, <3>3
  <2>3. Taken(ptr) = 0 /\ Taken(refs[x]) = IF x \in R THEN 1 ELSE 0
    BY <1>3, <1>6 DEF Taken
  <2>4. PICK d : d = Cardinality(Referring(new))
    OBVIOUS
  <2>5. d = IF x \in R THEN c - 1 ELSE c
    BY <2>1, <2>2, <2>4
  <2>6. d \in Nat /\ c >= Taken(refs[x]) /\ d = c + Taken(ptr) - Taken(refs[x])
    BY <1>4, <2>3, <2>5
  <2> QED BY <1>0, <1>2, <1>4, <2>4, <2>6
<1> QED BY <1>5, <1>6

\* srp_update_locked keeps the count exact and calls the destructor only once, unless it
\* would give a collector back its first reference that has none.
LEMMA UpdateExact ==
  ASSUME NEW refs \in [References -> Elements \cup {NULL}],
         r_refs = Owned + Cardinality(Referring(refs)), r_refs \in Nat,
         dtor_calls = (IF r_refs = 0 THEN 1 ELSE 0), owner' = owner,
         NEW x \in References, NEW ptr \in Elements \cup {NULL},
         ptr # NULL /\ refs[x] = NULL => owner,
         srp_update_locked(refs, x, ptr)
  PROVE  /\ srp_ref' = [refs EXCEPT ![x] = ptr] /\ r_refs' \in Nat /\ dtor_calls' \in Nat
         /\ CollectorIsExact'
<1>1. PICK new : new = [refs EXCEPT ![x] = ptr]
  OBVIOUS
<1>2. PICK left : left = r_refs + Taken(ptr) - Taken(refs[x])
  OBVIOUS
<1>3. /\ srp_ref' = new /\ r_refs' = left
      /\ dtor_calls' = IF refs[x] # NULL /\ left = 0 THEN dtor_calls + 1 ELSE dtor_calls
  BY <1>1, <1>2 DEF srp_update_locked
<1>4. PICK c : c = Cardinality(Referring(refs))
  OBVIOUS
<1>5. PICK d : d = Cardinality(Referring(new))
  OBVIOUS
<1>6. c \in Nat /\ d \in Nat /\ c >= Taken(refs[x]) /\ d = c + Taken(ptr) - Taken(refs[x])
  BY <1>1, <1>4, <1>5, CountChanges
<1>7. r_refs = Owned + c /\ Owned \in {0, 1} /\ (owner => Owned = 1)
  BY <1>4 DEF Owned
<1>8. left = Owned + d /\ left \in Nat
  BY <1>2, <1>6, <1>7 DEF Taken
<1>9. dtor_calls' = (IF left = 0 THEN 1 ELSE 0)
  <2>1. CASE refs[x] # NULL
    BY <1>3, <1>6, <1>7, <2>1 DEF Taken
  <2>2. CASE refs[x] = NULL /\ ptr # NULL
    BY <1>3, <1>6, <1>7, <1>8, <2>2 DEF Taken
  <2>3. CASE refs[x] = NULL /\ ptr = NULL
    BY <1>3, <1>6, <1>7, <1>8, <2>3 DEF Taken
  <2> QED BY <2>1, <2>2, <2>3
<1>10. Referring(new) = {y \in References : srp_ref'[y] # NULL} /\ Owned = IF owner' THEN 1 ELSE 0
  BY <1>3 DEF Referring, Owned
<1>11. r_refs' = (IF owner' THEN 1 ELSE 0) + Cardinality({y \in References : srp_ref'[y] # NULL})
  BY <1>3, <1>5, <1>8, <1>10
<1>12. dtor_calls' \in Nat /\ dtor_calls' = IF r_refs' = 0 THEN 1 ELSE 0
  BY <1>3, <1>9
<1> QED BY <1>1, <1>3, <1>8, <1>11, <1>12 DEF CollectorIsExact

-----------------------------------------------------------------------------
(* The list.                                                               *)

\* The elements the first k + 1 references lead to.
Reached(s, n, k) == {s[i] : i \in {j \in 1 .. n : j <= k + 1}}

IsReach(f, m) ==
  f = [k \in 0 .. m |-> IF k = 0 THEN {srp_ref[ListHead]} \ {NULL}
                        ELSE f[k - 1] \union ({srp_ref[x] : x \in f[k - 1]} \ {NULL})]

\* In a chain the elements are different from the head, and so are at most as many as there are.
LEMMA ChainFacts ==
  ASSUME SrpTypeOK, NEW n \in Nat, NEW s, Chain(s, n)
  PROVE  /\ \A i \in 1 .. n : s[i] \in Elements
         /\ Members(s, n) \subseteq Elements
         /\ n <= Cardinality(Elements) /\ Cardinality(Elements) \in Nat
<1>1. \A i \in 1 .. n : s[i] \in References /\ s[i] # ListHead
  BY DEF Chain
<1>2. \A i \in 1 .. n : s[i] \in Elements
  BY <1>1 DEF References
<1>3. PICK t : t = [i \in 1 .. n |-> s[i]]
  OBVIOUS
<1>4. t \in [1 .. n -> Elements] /\ \A i, j \in 1 .. n : t[i] = t[j] => i = j
  BY <1>2, <1>3 DEF Chain
<1>5. t \in Injection(1 .. n, Elements)
  BY <1>4 DEF Injection, IsInjective
<1>6. Cardinality(1 .. n) <= Cardinality(Elements)
  BY <1>5, SrpAssumption, FS_Injection
<1>7. Cardinality(1 .. n) = n
  BY FS_Interval
<1>8. Cardinality(Elements) \in Nat
  BY SrpAssumption, FS_CardinalityType
<1> QED BY <1>2, <1>6, <1>7, <1>8 DEF Members

LEMMA ReachedFirst ==
  ASSUME SrpTypeOK, NEW n \in Nat, NEW s, Chain(s, n)
  PROVE  Reached(s, n, 0) = {srp_ref[ListHead]} \ {NULL}
<1>1. CASE n = 0
  BY <1>1 DEF Chain, Reached
<1>2. CASE n > 0
  <2>1. srp_ref[ListHead] = s[1] /\ s[1] # NULL
    <3>1. 0 \in 0 .. n - 1 /\ 1 \in 0 .. n /\ 1 \in 1 .. n
      BY <1>2
    <3>2. srp_ref[s[0]] = s[0 + 1] /\ s[0] = ListHead
      BY <3>1 DEF Chain
    <3>3. s[1] \in Elements
      BY <3>1, ChainFacts
    <3> QED BY <3>2, <3>3, SrpFacts
  <2>2. {j \in 1 .. n : j <= 0 + 1} = {1}
    BY <1>2
  <2> QED BY <2>1, <2>2 DEF Reached
<1> QED BY <1>1, <1>2

LEMMA ReachedNext ==
  ASSUME SrpTypeOK, NEW n \in Nat, NEW s, Chain(s, n), NEW k \in Nat, k > 0
  PROVE  Reached(s, n, k) =
           Reached(s, n, k - 1) \union ({srp_ref[x] : x \in Reached(s, n, k - 1)} \ {NULL})
<1>1. \A i \in 1 .. n : s[i] \in Elements
  BY ChainFacts
<1>2. \A i \in 1 .. n : IF i = n THEN srp_ref[s[i]] = NULL ELSE srp_ref[s[i]] = s[i + 1] /\ i + 1 \in 1 .. n
  BY DEF Chain
<1>3. ASSUME NEW y \in Reached(s, n, k), y \notin Reached(s, n, k - 1)
      PROVE  y \in {srp_ref[x] : x \in Reached(s, n, k - 1)} \ {NULL}
  <2>1. PICK i \in 1 .. n : i <= k + 1 /\ y = s[i]
    BY <1>3 DEF Reached
  <2>2. i = k + 1
    BY <1>3, <2>1 DEF Reached
  <2>3. k \in 1 .. n /\ k <= k - 1 + 1 /\ k # n
    BY <2>1, <2>2
  <2>4. srp_ref[s[k]] = y /\ s[k] \in Reached(s, n, k - 1)
    BY <1>2, <2>1, <2>2, <2>3 DEF Reached
  <2>5. y # NULL
    BY <1>1, <2>1, SrpFacts
  <2> QED BY <2>4, <2>5
<1>4. ASSUME NEW x \in Reached(s, n, k - 1), srp_ref[x] # NULL
      PROVE  srp_ref[x] \in Reached(s, n, k)
  <2>1. PICK i \in 1 .. n : i <= k /\ x = s[i]
    BY <1>4 DEF Reached
  <2>2. i + 1 \in 1 .. n /\ srp_ref[x] = s[i + 1] /\ i + 1 <= k + 1
    BY <1>2, <1>4, <2>1
  <2> QED BY <2>2 DEF Reached
<1>5. Reached(s, n, k - 1) \subseteq Reached(s, n, k)
  BY DEF Reached
<1> QED BY <1>3, <1>4, <1>5

\* What Linked computes are the elements of the chain.
LEMMA LinkedIsChain ==
  ASSUME SrpTypeOK, NEW n \in Nat, NEW s, Chain(s, n)
  PROVE  Linked = Members(s, n)
<1>1. PICK m : m = Cardinality(Elements)
  OBVIOUS
<1>2. m \in Nat /\ n <= m
  BY <1>1, ChainFacts
<1>3. PICK g : g = [k \in 0 .. m |-> Reached(s, n, k)]
  OBVIOUS
<1>4. ASSUME NEW k \in 0 .. m
      PROVE  g[k] = IF k = 0 THEN {srp_ref[ListHead]} \ {NULL}
                    ELSE g[k - 1] \union ({srp_ref[x] : x \in g[k - 1]} \ {NULL})
  <2>1. CASE k = 0
    BY <1>3, <2>1, ReachedFirst
  <2>2. CASE k # 0
    <3>1. k - 1 \in 0 .. m /\ k \in Nat /\ k > 0
      BY <1>2, <2>2
    <3>2. g[k] = Reached(s, n, k) /\ g[k - 1] = Reached(s, n, k - 1)
      BY <1>3, <3>1
    <3> QED BY <2>2, <3>1, <3>2, ReachedNext
  <2> QED BY <2>1, <2>2
<1>5. IsReach(g, m)
  BY <1>3, <1>4 DEF IsReach
<1>6. PICK f : IsReach(f, m) /\ Linked = f[m]
  BY <1>1, <1>5 DEF IsReach, Linked
<1>7. f[m] = g[m]
  <2> DEFINE Bad == {k \in 0 .. m : f[k] # g[k]}
  <2>1. SUFFICES ASSUME Bad # {} PROVE FALSE
    BY <1>2
  <2>2. Bad \in SUBSET Nat
    OBVIOUS
  <2>3. PICK k \in Bad : \A i \in Bad : k <= i
    BY <2>1, <2>2, LeastNumber
  <2>4. k # 0
    <3>1. 0 \in 0 .. m
      BY <1>2
    <3>2. f[0] = g[0]
      BY <1>5, <1>6, <3>1 DEF IsReach
    <3> QED BY <2>3, <3>2
  <2>5. k \in 0 .. m /\ k - 1 \in 0 .. m /\ ~(k <= k - 1)
    BY <1>2, <2>3, <2>4
  <2>6. f[k - 1] = g[k - 1]
    BY <2>3, <2>5
  <2>7. f[k] = g[k]
    BY <1>5, <1>6, <2>4, <2>5, <2>6 DEF IsReach
  <2> QED BY <2>3, <2>7
<1>8. g[m] = Members(s, n)
  <2>1. {j \in 1 .. n : j <= m + 1} = 1 .. n
    BY <1>2
  <2> QED BY <1>2, <1>3, <2>1 DEF Reached, Members
<1> QED BY <1>6, <1>7, <1>8

-----------------------------------------------------------------------------
(* The steps.                                                              *)

\* A chain whose references stay is one.
LEMMA SameChain ==
  ASSUME NEW n \in Nat, NEW s, Chain(s, n), \A i \in 0 .. n : srp_ref'[s[i]] = srp_ref[s[i]]
  PROVE  Chain(s, n)'
<1>1. \A i \in 0 .. n - 1 : i \in 0 .. n
  OBVIOUS
<1>2. n \in 0 .. n
  OBVIOUS
<1> QED BY <1>1, <1>2 DEF Chain

\* What the invariant says, with the chain at hand.
LEMMA SrpOpen ==
  ASSUME SrpInv
  PROVE  \E n \in Nat : \E s :
           /\ Chain(s, n) /\ WriterOutside(Members(s, n)) /\ ReadersBehind(s, n)
           /\ Linked = Members(s, n) /\ Members(s, n) \subseteq Elements
           /\ \A i \in 0 .. n : s[i] \in Members(s, n) \cup {ListHead}
           /\ \A x \in Members(s, n) \cup {ListHead} : \E i \in 0 .. n : s[i] = x
<1>0. PICK n \in Nat : \E s : Chain(s, n) /\ WriterOutside(Members(s, n)) /\ ReadersBehind(s, n)
  BY DEF SrpInv, ListKept
<1>1. PICK s : Chain(s, n) /\ WriterOutside(Members(s, n)) /\ ReadersBehind(s, n)
  BY <1>0
<1>2. Linked = Members(s, n) /\ Members(s, n) \subseteq Elements
  BY <1>1, LinkedIsChain, ChainFacts DEF SrpInv
<1>3. ASSUME NEW i \in 0 .. n PROVE s[i] \in Members(s, n) \cup {ListHead}
  <2>1. CASE i = 0
    BY <1>1, <2>1 DEF Chain
  <2>2. CASE i # 0
    <3>1. i \in 1 .. n
      BY <2>2
    <3> QED BY <3>1 DEF Members
  <2> QED BY <2>1, <2>2
<1>4. ASSUME NEW x \in Members(s, n) \cup {ListHead} PROVE \E i \in 0 .. n : s[i] = x
  <2>1. CASE x \in Members(s, n)
    <3>1. \A i \in 1 .. n : i \in 0 .. n
      OBVIOUS
    <3> QED BY <2>1, <3>1 DEF Members
  <2>2. CASE x = ListHead
    <3>1. 0 \in 0 .. n
      OBVIOUS
    <3> QED BY <1>1, <2>2, <3>1 DEF Chain
  <2> QED BY <2>1, <2>2
<1> QED BY <1>1, <1>2, <1>3, <1>4

LEMMA InsertPrepareInv ==
  ASSUME SrpInv, NEW x \in References, NEW e \in Elements, InsertPrepare(x, e)
  PROVE  SrpInv'
<1>0. PICK n \in Nat : \E s :
        /\ Chain(s, n) /\ WriterOutside(Members(s, n)) /\ ReadersBehind(s, n)
        /\ Linked = Members(s, n) /\ Members(s, n) \subseteq Elements
        /\ \A i \in 0 .. n : s[i] \in Members(s, n) \cup {ListHead}
  BY SrpOpen
<1>1. PICK s :
        /\ Chain(s, n) /\ WriterOutside(Members(s, n)) /\ ReadersBehind(s, n)
        /\ Linked = Members(s, n) /\ Members(s, n) \subseteq Elements
        /\ \A i \in 0 .. n : s[i] \in Members(s, n) \cup {ListHead}
  BY <1>0
<1>2. SrpTypeOK /\ CollectorIsExact /\ srp_ref \in [References -> Elements \cup {NULL}]
  BY DEF SrpInv, SrpTypeOK
<1>3. /\ owner /\ owner' = owner /\ writer = NoWriter /\ e \notin Members(s, n) /\ e \in References
      /\ x \in Members(s, n) \cup {ListHead} /\ e # ListHead /\ e # x
      /\ writer' = [op |-> "insert", at |-> x, e |-> e]
      /\ UNCHANGED <<reader, srp_seen, stayed, disturbed>>
  BY <1>1, SrpFacts DEF InsertPrepare
<1>4. srp_ref[e] = NULL
  BY <1>1, <1>3 DEF WriterOutside, NoWriter
<1>5. [srp_ref EXCEPT ![e] = NULL] = srp_ref
  BY <1>2, <1>4
<1>6. /\ srp_ref' = [srp_ref EXCEPT ![e] = srp_ref[x]] /\ r_refs' \in Nat /\ dtor_calls' \in Nat
      /\ CollectorIsExact'
  <2>1. CASE srp_ref[x] = NULL
    <3>1. srp_ref' = srp_ref /\ r_refs' = r_refs /\ dtor_calls' = dtor_calls
      BY <1>5, <2>1 DEF InsertPrepare
    <3>2. CollectorIsExact'
      BY <1>2, <1>3, <3>1 DEF CollectorIsExact
    <3> QED BY <1>2, <1>5, <2>1, <3>1, <3>2 DEF SrpTypeOK
  <2>2. CASE srp_ref[x] # NULL
    <3>1. srp_update_locked(srp_ref, e, srp_ref[x])
      BY <1>5, <2>2 DEF InsertPrepare
    <3>2. srp_ref[x] \in Elements \cup {NULL}
      BY <1>2
    <3>3. /\ r_refs = Owned + Cardinality(Referring(srp_ref)) /\ r_refs \in Nat
          /\ dtor_calls = IF r_refs = 0 THEN 1 ELSE 0
      BY <1>2 DEF CollectorIsExact, SrpTypeOK, Owned, Referring
    <3> QED BY <1>2, <1>3, <3>1, <3>2, <3>3, UpdateExact
  <2> QED BY <2>1, <2>2
<1>7. \A y \in References : y # e => srp_ref'[y] = srp_ref[y]
  BY <1>2, <1>6
<1>8. srp_ref'[e] = srp_ref'[x]
  BY <1>2, <1>3, <1>6
<1>9. Chain(s, n)'
  <2>1. \A i \in 0 .. n : s[i] \in References /\ s[i] # e
    BY <1>1, <1>3 DEF Chain
  <2> QED BY <1>1, <1>7, <2>1, SameChain
<1>10. WriterOutside(Members(s, n))'
  <2>1. \A y \in Elements \ Members(s, n) : y # e => srp_ref'[y] = NULL
    BY <1>1, <1>3, <1>7 DEF WriterOutside, NoWriter, References
  <2>2. Members(s, n)' = Members(s, n)
    BY DEF Members
  <2> QED BY <1>3, <1>8, <2>1, <2>2 DEF WriterOutside
<1>11. ReadersBehind(s, n)'
  BY <1>1, <1>3 DEF ReadersBehind, Members
<1>12. SrpTypeOK'
  <2>1. writer' \in Writers
    BY <1>3 DEF Writers
  <2>2. srp_ref' \in [References -> Elements \cup {NULL}]
    BY <1>2, <1>6
  <2> QED BY <1>2, <1>3, <1>6, <2>1, <2>2 DEF SrpTypeOK
<1> QED BY <1>6, <1>9, <1>10, <1>11, <1>12 DEF SrpInv, ListKept

\* The count as UpdateExact takes it.
LEMMA ExactCount ==
  ASSUME SrpInv
  PROVE  /\ r_refs = Owned + Cardinality(Referring(srp_ref)) /\ r_refs \in Nat
         /\ dtor_calls = (IF r_refs = 0 THEN 1 ELSE 0)
         /\ srp_ref \in [References -> Elements \cup {NULL}]
BY DEF SrpInv, CollectorIsExact, SrpTypeOK, Owned, Referring

LEMMA InsertLinkInv ==
  ASSUME SrpInv, InsertLink
  PROVE  SrpInv'
<1>0. PICK n \in Nat : \E s :
        /\ Chain(s, n) /\ WriterOutside(Members(s, n)) /\ ReadersBehind(s, n)
        /\ Members(s, n) \subseteq Elements
        /\ \A i \in 0 .. n : s[i] \in Members(s, n) \cup {ListHead}
        /\ \A x \in Members(s, n) \cup {ListHead} : \E i \in 0 .. n : s[i] = x
  BY SrpOpen
<1>1. PICK s :
        /\ Chain(s, n) /\ WriterOutside(Members(s, n)) /\ ReadersBehind(s, n)
        /\ Members(s, n) \subseteq Elements
        /\ \A i \in 0 .. n : s[i] \in Members(s, n) \cup {ListHead}
        /\ \A x \in Members(s, n) \cup {ListHead} : \E i \in 0 .. n : s[i] = x
  BY <1>0
<1>2. SrpTypeOK /\ srp_ref \in [References -> Elements \cup {NULL}]
  BY DEF SrpInv, SrpTypeOK
<1>3. PICK e, at : e = writer.e /\ at = writer.at
  OBVIOUS
<1>4. /\ writer.op = "insert" /\ e \in Elements /\ e \in References /\ at \in References
      /\ owner /\ owner' = owner /\ e \notin Members(s, n) /\ at \in Members(s, n) \cup {ListHead}
      /\ srp_ref[e] = srp_ref[at] /\ writer' = NoWriter
      /\ UNCHANGED <<reader, srp_seen, stayed, disturbed>>
      /\ srp_update_locked(srp_ref, at, e)
  BY <1>1, <1>2, <1>3, SrpFacts DEF InsertLink, WriterOutside, SrpTypeOK, Writers, NoWriter
<1>5. /\ srp_ref' = [srp_ref EXCEPT ![at] = e] /\ r_refs' \in Nat /\ dtor_calls' \in Nat
      /\ CollectorIsExact'
  BY <1>4, ExactCount, UpdateExact
<1>6. srp_ref'[at] = e /\ \A y \in References : y # at => srp_ref'[y] = srp_ref[y]
  BY <1>2, <1>4, <1>5
<1>7. PICK k \in 0 .. n : s[k] = at
  BY <1>1, <1>4
<1>8. PICK t : t = [i \in 0 .. n + 1 |-> IF i <= k THEN s[i] ELSE IF i = k + 1 THEN e ELSE s[i - 1]]
  OBVIOUS
<1>9. \A i \in 0 .. n : s[i] \in References /\ s[i] # e /\ (s[i] = at => i = k)
  BY <1>1, <1>4, <1>7, SrpFacts DEF Chain
<1>10. /\ \A i \in 0 .. k : t[i] = s[i]
       /\ t[k + 1] = e
       /\ \A i \in k + 2 .. n + 1 : t[i] = s[i - 1] /\ i - 1 \in 0 .. n
  BY <1>8
<1>11. Chain(t, n + 1)'
  <2>1. t \in [0 .. n + 1 -> References] /\ t[0] = ListHead
    BY <1>1, <1>4, <1>8, <1>9, <1>10 DEF Chain
  <2>2. ASSUME NEW i \in 0 .. n + 1, NEW j \in 0 .. n + 1, t[i] = t[j] PROVE i = j
    <3>1. \A a, b \in 0 .. n : s[a] = s[b] => a = b
      BY <1>1 DEF Chain
    <3> QED BY <1>8, <1>9, <2>2, <3>1
  <2>3. ASSUME NEW i \in 0 .. n PROVE srp_ref'[t[i]] = t[i + 1]
    <3>1. CASE i < k
      <4>1. srp_ref[s[i]] = s[i + 1] /\ i \in 0 .. n /\ i \in 0 .. k /\ i + 1 \in 0 .. k
        BY <1>1, <3>1 DEF Chain
      <4>2. s[i] # at /\ s[i] \in References
        BY <1>9, <3>1, <4>1
      <4> QED BY <1>6, <1>10, <4>1, <4>2
    <3>2. CASE i = k
      BY <1>6, <1>7, <1>10, <3>2
    <3>3. CASE i = k + 1
      <4>1. k \in 0 .. n - 1 /\ k + 2 \in k + 2 .. n + 1 /\ (k + 2) - 1 = k + 1
        BY <3>3
      <4>2. srp_ref[at] = s[k + 1] /\ t[k + 2] = s[k + 1]
        BY <1>1, <1>7, <1>10, <4>1 DEF Chain
      <4>3. e # at
        BY <1>7, <1>9
      <4> QED BY <1>4, <1>6, <1>10, <3>3, <4>2, <4>3
    <3>4. CASE i > k + 1
      <4>1. i \in k + 2 .. n + 1 /\ i + 1 \in k + 2 .. n + 1 /\ i - 1 \in 0 .. n - 1 /\ i - 1 \in 0 .. n
        BY <3>4
      <4>2. t[i] = s[i - 1] /\ t[i + 1] = s[(i + 1) - 1] /\ (i + 1) - 1 = (i - 1) + 1
        BY <1>10, <4>1
      <4>3. srp_ref[s[i - 1]] = s[(i - 1) + 1]
        BY <1>1, <4>1 DEF Chain
      <4>4. s[i - 1] \in References /\ s[i - 1] # at
        BY <1>9, <3>4, <4>1
      <4> QED BY <1>6, <4>2, <4>3, <4>4
    <3> QED BY <3>1, <3>2, <3>3, <3>4
  <2>4. srp_ref'[t[n + 1]] = NULL
    <3>1. srp_ref[s[n]] = NULL /\ n \in 0 .. n
      BY <1>1 DEF Chain
    <3>2. CASE k = n
      <4>1. t[n + 1] = e /\ e # at
        BY <1>7, <1>9, <1>10, <3>2
      <4> QED BY <1>4, <1>6, <1>7, <3>1, <3>2, <4>1
    <3>3. CASE k # n
      <4>1. t[n + 1] = s[n]
        <5>1. n + 1 \in k + 2 .. n + 1 /\ (n + 1) - 1 = n
          BY <3>3
        <5> QED BY <1>10, <5>1
      <4>2. s[n] \in References /\ s[n] # at
        BY <1>9, <3>1, <3>3
      <4> QED BY <1>6, <3>1, <4>1, <4>2
    <3> QED BY <3>2, <3>3
  <2>5. (n + 1) - 1 = n
    OBVIOUS
  <2> QED BY <2>1, <2>2, <2>3, <2>4, <2>5 DEF Chain
<1>12. Members(t, n + 1) = Members(s, n) \cup {e}
  <2>1. ASSUME NEW i \in 1 .. n + 1 PROVE t[i] \in Members(s, n) \cup {e}
    <3>1. CASE i <= k
      BY <1>10, <3>1 DEF Members
    <3>2. CASE i = k + 1
      BY <1>10, <3>2
    <3>3. CASE i > k + 1
      <4>1. i \in k + 2 .. n + 1 /\ i - 1 \in 1 .. n
        BY <3>3
      <4> QED BY <1>10, <4>1 DEF Members
    <3> QED BY <3>1, <3>2, <3>3
  <2>2. ASSUME NEW i \in 1 .. n PROVE s[i] \in Members(t, n + 1)
    <3>1. CASE i <= k
      <4>1. i \in 1 .. n + 1 /\ i \in 0 .. k
        BY <3>1
      <4> QED BY <1>10, <4>1 DEF Members
    <3>2. CASE i > k
      <4>1. i + 1 \in 1 .. n + 1 /\ i + 1 \in k + 2 .. n + 1 /\ (i + 1) - 1 = i
        BY <3>2
      <4> QED BY <1>10, <4>1 DEF Members
    <3> QED BY <3>1, <3>2
  <2>3. e \in Members(t, n + 1)
    <3>1. k + 1 \in 1 .. n + 1
      OBVIOUS
    <3> QED BY <1>10, <3>1 DEF Members
  <2> QED BY <2>1, <2>2, <2>3 DEF Members
<1>13. WriterOutside(Members(t, n + 1))'
  <2>1. ASSUME NEW y \in Elements \ (Members(s, n) \cup {e}) PROVE srp_ref'[y] = NULL
    <3>1. y # at /\ y \in References
      BY <1>4, SrpFacts
    <3>2. srp_ref[y] = NULL
      BY <1>1, <1>3 DEF WriterOutside
    <3> QED BY <1>6, <3>1, <3>2
  <2>2. Members(t, n + 1)' = Members(s, n) \cup {e}
    BY <1>12 DEF Members
  <2> QED BY <1>4, <2>1, <2>2 DEF WriterOutside, NoWriter
<1>14. ReadersBehind(t, n + 1)'
  <2> SUFFICES ASSUME NEW r \in SrpReaders \ disturbed
               PROVE  /\ stayed[r] \subseteq Members(t, n + 1)
                      /\ reader[r] \in Elements =>
                           \E j \in 1 .. n + 1 : /\ t[j] = reader[r]
                             /\ \A i \in 1 .. j : t[i] \in stayed[r] => t[i] \in srp_seen[r]
                      /\ reader[r] = Done => stayed[r] \subseteq srp_seen[r]
    BY <1>4 DEF ReadersBehind, Members
  <2>1. stayed[r] \subseteq Members(s, n) /\ (reader[r] = Done => stayed[r] \subseteq srp_seen[r])
    BY <1>1 DEF ReadersBehind
  <2>2. ASSUME reader[r] \in Elements
        PROVE  \E j \in 1 .. n + 1 : /\ t[j] = reader[r]
                 /\ \A i \in 1 .. j : t[i] \in stayed[r] => t[i] \in srp_seen[r]
    <3>1. PICK j \in 1 .. n : s[j] = reader[r] /\ \A i \in 1 .. j : s[i] \in stayed[r] => s[i] \in srp_seen[r]
      BY <1>1, <2>2 DEF ReadersBehind
    <3>2. e \notin stayed[r]
      BY <1>4, <2>1
    <3>3. CASE j <= k
      <4>1. j \in 1 .. n + 1 /\ \A i \in 1 .. j : i \in 0 .. k
        BY <3>3
      <4> QED BY <1>10, <3>1, <4>1
    <3>4. CASE j > k
      <4>1. j + 1 \in 1 .. n + 1 /\ j + 1 \in k + 2 .. n + 1 /\ (j + 1) - 1 = j
        BY <3>4
      <4>2. t[j + 1] = reader[r]
        BY <1>10, <3>1, <4>1
      <4>3. ASSUME NEW i \in 1 .. j + 1, t[i] \in stayed[r] PROVE t[i] \in srp_seen[r]
        <5>1. i # k + 1
          BY <1>10, <3>2, <4>3
        <5>2. CASE i <= k
          <6>1. i \in 1 .. j /\ i \in 0 .. k
            BY <3>4, <5>2
          <6> QED BY <1>10, <3>1, <4>3, <6>1
        <5>3. CASE i > k
          <6>1. i - 1 \in 1 .. j /\ i \in k + 2 .. n + 1
            BY <5>1, <5>3
          <6> QED BY <1>10, <3>1, <4>3, <6>1
        <5> QED BY <5>2, <5>3
      <4> QED BY <4>1, <4>2, <4>3
    <3> QED BY <3>3, <3>4
  <2> QED BY <1>12, <2>1, <2>2
<1>15. SrpTypeOK'
  <2>1. writer' \in Writers
    BY <1>4 DEF Writers
  <2>2. srp_ref' \in [References -> Elements \cup {NULL}]
    BY <1>2, <1>4, <1>5
  <2> QED BY <1>2, <1>4, <1>5, <2>1, <2>2 DEF SrpTypeOK
<1>16. n + 1 \in Nat
  OBVIOUS
<1> QED BY <1>5, <1>11, <1>13, <1>14, <1>15, <1>16 DEF SrpInv, ListKept

LEMMA RemoveUnlinkInv ==
  ASSUME SrpInv, NEW e \in Elements, RemoveUnlink(e)
  PROVE  SrpInv'
<1>0. PICK n \in Nat : \E s :
        /\ Chain(s, n) /\ WriterOutside(Members(s, n)) /\ ReadersBehind(s, n)
        /\ Linked = Members(s, n) /\ Members(s, n) \subseteq Elements
        /\ \A i \in 0 .. n : s[i] \in Members(s, n) \cup {ListHead}
        /\ \A x \in Members(s, n) \cup {ListHead} : \E i \in 0 .. n : s[i] = x
  BY SrpOpen
<1>1. PICK s :
        /\ Chain(s, n) /\ WriterOutside(Members(s, n)) /\ ReadersBehind(s, n)
        /\ Linked = Members(s, n) /\ Members(s, n) \subseteq Elements
        /\ \A i \in 0 .. n : s[i] \in Members(s, n) \cup {ListHead}
        /\ \A x \in Members(s, n) \cup {ListHead} : \E i \in 0 .. n : s[i] = x
  BY <1>0
<1>2. SrpTypeOK /\ srp_ref \in [References -> Elements \cup {NULL}]
  BY DEF SrpInv, SrpTypeOK
<1>3. PICK k \in 1 .. n : s[k] = e
  BY <1>1 DEF RemoveUnlink, Members
<1>4. /\ writer = NoWriter /\ writer' = [op |-> "remove", e |-> e] /\ owner' = owner
      /\ stayed' = [r \in SrpReaders |-> stayed[r] \ {e}]
      /\ disturbed' = disturbed \cup {r \in SrpReaders : reader[r] = e}
      /\ UNCHANGED <<reader, srp_seen>>
  BY DEF RemoveUnlink
<1>5. /\ \A i, j \in 0 .. n : s[i] = s[j] => i = j
      /\ \A i \in 0 .. n - 1 : srp_ref[s[i]] = s[i + 1]
      /\ srp_ref[s[n]] = NULL /\ \A i \in 0 .. n : s[i] \in References
      /\ s[0] = ListHead
  BY <1>1 DEF Chain
<1>6. PICK at : at = s[k - 1]
  OBVIOUS
<1>7. k - 1 \in 0 .. n - 1 /\ k - 1 \in 0 .. n /\ k \in 0 .. n /\ (k - 1) + 1 = k
  OBVIOUS
<1>8. at \in References /\ at \in Members(s, n) \cup {ListHead} /\ srp_ref[at] = e /\ at # e /\ e \in References
  <2>1. srp_ref[s[k - 1]] = s[k]
    BY <1>5, <1>7
  <2>2. s[k - 1] # s[k]
    BY <1>5, <1>7
  <2> QED BY <1>1, <1>3, <1>5, <1>6, <1>7, <2>1, <2>2
<1>9. ASSUME NEW y \in References, y \in Linked \union {ListHead}, srp_ref[y] = e PROVE y = at
  <2>1. PICK i \in 0 .. n : s[i] = y
    BY <1>1, <1>9
  <2>2. i # n
    BY <1>5, <1>9, <2>1, SrpFacts
  <2>3. i \in 0 .. n - 1 /\ i + 1 \in 0 .. n /\ s[i + 1] = s[k]
    BY <1>3, <1>5, <1>9, <2>1, <2>2
  <2>4. i + 1 = k
    BY <1>5, <1>7, <2>3
  <2>5. i = k - 1
    BY <2>4
  <2> QED BY <1>6, <2>1, <2>5
<1>10. (CHOOSE y \in References : y \in Linked \union {ListHead} /\ srp_ref[y] = e) = at
  BY <1>1, <1>8, <1>9
<1>11. srp_update_locked(srp_ref, at, srp_ref[e])
  BY <1>10 DEF RemoveUnlink
<1>12. srp_ref[e] \in Elements \cup {NULL} /\ srp_ref[at] # NULL
  BY <1>2, <1>8, SrpFacts
<1>13. /\ srp_ref' = [srp_ref EXCEPT ![at] = srp_ref[e]] /\ r_refs' \in Nat /\ dtor_calls' \in Nat
       /\ CollectorIsExact'
  BY <1>4, <1>8, <1>11, <1>12, ExactCount, UpdateExact
<1>14. srp_ref'[at] = srp_ref[e] /\ \A y \in References : y # at => srp_ref'[y] = srp_ref[y]
  BY <1>2, <1>8, <1>13
<1>15. PICK t : t = [i \in 0 .. n - 1 |-> IF i < k THEN s[i] ELSE s[i + 1]]
  OBVIOUS
<1>16. /\ \A i \in 0 .. k - 1 : t[i] = s[i] /\ i \in 0 .. n
       /\ \A i \in k .. n - 1 : t[i] = s[i + 1] /\ i + 1 \in 0 .. n /\ i + 1 # k
       /\ \A i \in 0 .. n - 1 : i \in 0 .. k - 1 \/ i \in k .. n - 1
  BY <1>15
<1>17. n - 1 \in Nat
  OBVIOUS
<1>18. Chain(t, n - 1)'
  <2>1. t \in [0 .. n - 1 -> References] /\ t[0] = ListHead
    <3>1. 0 \in 0 .. k - 1
      OBVIOUS
    <3>2. \A i \in 0 .. n - 1 : t[i] \in References
      BY <1>5, <1>16
    <3> QED BY <1>5, <1>15, <1>16, <3>1, <3>2
  <2>2. ASSUME NEW i \in 0 .. n - 1, NEW j \in 0 .. n - 1, t[i] = t[j] PROVE i = j
    <3>1. CASE i \in 0 .. k - 1 /\ j \in 0 .. k - 1
      BY <1>5, <1>16, <2>2, <3>1
    <3>2. CASE i \in k .. n - 1 /\ j \in k .. n - 1
      <4>1. i + 1 = j + 1
        BY <1>5, <1>16, <2>2, <3>2
      <4> QED BY <4>1
    <3>3. CASE i \in 0 .. k - 1 /\ j \in k .. n - 1
      <4>1. i = j + 1
        BY <1>5, <1>16, <2>2, <3>3
      <4> QED BY <3>3, <4>1
    <3>4. CASE i \in k .. n - 1 /\ j \in 0 .. k - 1
      <4>1. i + 1 = j
        BY <1>5, <1>16, <2>2, <3>4
      <4> QED BY <3>4, <4>1
    <3> QED BY <1>16, <3>1, <3>2, <3>3, <3>4
  <2>3. ASSUME NEW i \in 0 .. (n - 1) - 1 PROVE srp_ref'[t[i]] = t[i + 1]
    <3>1. CASE i < k - 1
      <4>1. i \in 0 .. k - 1 /\ i + 1 \in 0 .. k - 1 /\ i \in 0 .. n - 1 /\ i # k - 1
        BY <3>1
      <4>2. s[i] # at /\ s[i] \in References
        BY <1>5, <1>6, <1>7, <1>16, <4>1
      <4> QED BY <1>5, <1>14, <1>16, <4>1, <4>2
    <3>2. CASE i = k - 1
      <4>1. i \in 0 .. k - 1 /\ k \in k .. n - 1 /\ i + 1 = k /\ k \in 0 .. n - 1
        BY <3>2
      <4>2. t[i] = at /\ t[i + 1] = s[k + 1] /\ srp_ref[e] = s[k + 1]
        BY <1>3, <1>5, <1>6, <1>16, <3>2, <4>1
      <4> QED BY <1>14, <4>2
    <3>3. CASE i > k - 1
      <4>1. i \in k .. n - 1 /\ i + 1 \in k .. n - 1 /\ i + 1 \in 0 .. n - 1 /\ i + 1 # k - 1
        BY <3>3
      <4>2. s[i + 1] # at /\ s[i + 1] \in References
        BY <1>5, <1>6, <1>7, <1>16, <4>1
      <4> QED BY <1>5, <1>14, <1>16, <4>1, <4>2
    <3> QED BY <3>1, <3>2, <3>3
  <2>4. srp_ref'[t[n - 1]] = NULL
    <3>1. CASE k = n
      <4>1. n - 1 \in 0 .. k - 1
        BY <3>1
      <4>2. t[n - 1] = at
        BY <1>6, <1>16, <3>1, <4>1
      <4> QED BY <1>3, <1>5, <1>14, <3>1, <4>2
    <3>2. CASE k # n
      <4>1. n - 1 \in k .. n - 1 /\ (n - 1) + 1 = n /\ n \in 0 .. n /\ n # k - 1
        BY <3>2
      <4>2. t[n - 1] = s[n] /\ s[n] # at /\ s[n] \in References
        BY <1>5, <1>6, <1>7, <1>16, <4>1
      <4> QED BY <1>5, <1>14, <4>2
    <3> QED BY <3>1, <3>2
  <2> QED BY <2>1, <2>2, <2>3, <2>4 DEF Chain
<1>19. Members(t, n - 1) = Members(s, n) \ {e}
  <2>1. ASSUME NEW i \in 1 .. n - 1 PROVE t[i] \in Members(s, n) \ {e}
    <3>1. CASE i \in 0 .. k - 1
      <4>1. t[i] = s[i] /\ i \in 1 .. n /\ i # k
        BY <1>16, <3>1
      <4> QED BY <1>3, <1>5, <1>7, <1>16, <3>1, <4>1 DEF Members
    <3>2. CASE i \in k .. n - 1
      <4>1. t[i] = s[i + 1] /\ i + 1 \in 1 .. n /\ i + 1 # k
        BY <1>16, <3>2
      <4> QED BY <1>3, <1>5, <1>7, <1>16, <3>2, <4>1 DEF Members
    <3> QED BY <1>16, <3>1, <3>2
  <2>2. ASSUME NEW i \in 1 .. n, s[i] # e PROVE s[i] \in Members(t, n - 1)
    <3>1. CASE i < k
      <4>1. i \in 1 .. n - 1 /\ i \in 0 .. k - 1
        BY <3>1
      <4> QED BY <1>16, <4>1 DEF Members
    <3>2. CASE i > k
      <4>1. i - 1 \in 1 .. n - 1 /\ i - 1 \in k .. n - 1 /\ (i - 1) + 1 = i
        BY <3>2
      <4> QED BY <1>16, <4>1 DEF Members
    <3>3. i # k
      BY <1>3, <2>2
    <3> QED BY <3>1, <3>2, <3>3
  <2> QED BY <2>1, <2>2 DEF Members
<1>20. WriterOutside(Members(t, n - 1))'
  <2>1. ASSUME NEW y \in Elements \ Members(s, n) PROVE srp_ref'[y] = NULL
    <3>1. y # at /\ y \in References
      BY <1>8, SrpFacts
    <3>2. srp_ref[y] = NULL
      BY <1>1, <1>4 DEF WriterOutside, NoWriter
    <3> QED BY <1>14, <3>1, <3>2
  <2>2. Members(t, n - 1)' = Members(s, n) \ {e}
    BY <1>19 DEF Members
  <2> QED BY <1>4, <2>1, <2>2 DEF WriterOutside
<1>21. ReadersBehind(t, n - 1)'
  <2> SUFFICES ASSUME NEW r \in SrpReaders \ disturbed, reader[r] # e
               PROVE  /\ stayed[r] \ {e} \subseteq Members(t, n - 1)
                      /\ reader[r] \in Elements =>
                           \E j \in 1 .. n - 1 : /\ t[j] = reader[r]
                             /\ \A i \in 1 .. j : t[i] \in stayed[r] \ {e} => t[i] \in srp_seen[r]
                      /\ reader[r] = Done => stayed[r] \ {e} \subseteq srp_seen[r]
    BY <1>4 DEF ReadersBehind, Members
  <2>1. stayed[r] \subseteq Members(s, n) /\ (reader[r] = Done => stayed[r] \subseteq srp_seen[r])
    BY <1>1 DEF ReadersBehind
  <2>2. ASSUME reader[r] \in Elements
        PROVE  \E j \in 1 .. n - 1 : /\ t[j] = reader[r]
                 /\ \A i \in 1 .. j : t[i] \in stayed[r] \ {e} => t[i] \in srp_seen[r]
    <3>1. PICK j \in 1 .. n : s[j] = reader[r] /\ \A i \in 1 .. j : s[i] \in stayed[r] => s[i] \in srp_seen[r]
      BY <1>1, <2>2 DEF ReadersBehind
    <3>2. j # k
      BY <1>3, <3>1
    <3>3. CASE j < k
      <4>1. j \in 1 .. n - 1 /\ j \in 0 .. k - 1 /\ \A i \in 1 .. j : i \in 0 .. k - 1
        BY <3>3
      <4> QED BY <1>16, <3>1, <4>1
    <3>4. CASE j > k
      <4>1. j - 1 \in 1 .. n - 1 /\ j - 1 \in k .. n - 1 /\ (j - 1) + 1 = j
        BY <3>4
      <4>2. t[j - 1] = reader[r]
        BY <1>16, <3>1, <4>1
      <4>3. ASSUME NEW i \in 1 .. j - 1, t[i] \in stayed[r] PROVE t[i] \in srp_seen[r]
        <5>1. CASE i < k
          <6>1. i \in 1 .. j /\ i \in 0 .. k - 1
            BY <3>4, <5>1
          <6> QED BY <1>16, <3>1, <4>3, <6>1
        <5>2. CASE i >= k
          <6>1. i + 1 \in 1 .. j /\ i \in k .. n - 1
            BY <5>2
          <6> QED BY <1>16, <3>1, <4>3, <6>1
        <5> QED BY <5>1, <5>2
      <4> QED BY <4>1, <4>2, <4>3
    <3> QED BY <3>2, <3>3, <3>4
  <2> QED BY <1>19, <2>1, <2>2
<1>22. SrpTypeOK'
  <2>1. writer' \in Writers
    BY <1>4 DEF Writers
  <2>2. srp_ref' \in [References -> Elements \cup {NULL}]
    BY <1>2, <1>8, <1>12, <1>13
  <2>3. stayed' \in [SrpReaders -> SUBSET Elements]
    BY <1>2, <1>4 DEF SrpTypeOK
  <2> QED BY <1>2, <1>4, <1>13, <2>1, <2>2, <2>3 DEF SrpTypeOK
<1> QED BY <1>13, <1>17, <1>18, <1>20, <1>21, <1>22 DEF SrpInv, ListKept

LEMMA RemoveClearInv ==
  ASSUME SrpInv, RemoveClear
  PROVE  SrpInv'
<1>0. PICK n \in Nat : \E s :
        /\ Chain(s, n) /\ WriterOutside(Members(s, n)) /\ ReadersBehind(s, n)
        /\ \A i \in 0 .. n : s[i] \in Members(s, n) \cup {ListHead}
  BY SrpOpen
<1>1. PICK s :
        /\ Chain(s, n) /\ WriterOutside(Members(s, n)) /\ ReadersBehind(s, n)
        /\ \A i \in 0 .. n : s[i] \in Members(s, n) \cup {ListHead}
  BY <1>0
<1>2. SrpTypeOK /\ srp_ref \in [References -> Elements \cup {NULL}]
  BY DEF SrpInv, SrpTypeOK
<1>3. PICK e : e = writer.e
  OBVIOUS
<1>4. /\ e \in Elements /\ e \in References /\ e \notin Members(s, n) /\ e # ListHead
      /\ writer' = NoWriter /\ owner' = owner
      /\ UNCHANGED <<reader, srp_seen, stayed, disturbed>>
      /\ srp_update_locked(srp_ref, e, NULL)
  BY <1>1, <1>2, <1>3, SrpFacts DEF RemoveClear, WriterOutside, SrpTypeOK, Writers, NoWriter
<1>5. /\ srp_ref' = [srp_ref EXCEPT ![e] = NULL] /\ r_refs' \in Nat /\ dtor_calls' \in Nat
      /\ CollectorIsExact'
  BY <1>4, ExactCount, UpdateExact
<1>6. srp_ref'[e] = NULL /\ \A y \in References : y # e => srp_ref'[y] = srp_ref[y]
  BY <1>2, <1>4, <1>5
<1>7. Chain(s, n)'
  <2>1. \A i \in 0 .. n : s[i] \in References /\ s[i] # e
    BY <1>1, <1>4 DEF Chain
  <2> QED BY <1>1, <1>6, <2>1, SameChain
<1>8. WriterOutside(Members(s, n))'
  <2>1. \A y \in Elements \ Members(s, n) : srp_ref'[y] = NULL
    BY <1>1, <1>3, <1>6 DEF WriterOutside, References
  <2>2. Members(s, n)' = Members(s, n)
    BY DEF Members
  <2> QED BY <1>4, <2>1, <2>2 DEF WriterOutside, NoWriter
<1>9. ReadersBehind(s, n)'
  BY <1>1, <1>4 DEF ReadersBehind, Members
<1>10. SrpTypeOK'
  <2>1. writer' \in Writers
    BY <1>4 DEF Writers
  <2>2. srp_ref' \in [References -> Elements \cup {NULL}]
    BY <1>2, <1>5
  <2> QED BY <1>2, <1>4, <1>5, <2>1, <2>2 DEF SrpTypeOK
<1> QED BY <1>5, <1>7, <1>8, <1>9, <1>10 DEF SrpInv, ListKept

\* A step that leaves the list, the writer and the readers alone keeps what ListKept says.
LEMMA SameList ==
  ASSUME SrpInv, UNCHANGED <<srp_ref, writer, reader, srp_seen, stayed, disturbed>>,
         writer.op = "insert" => owner'
  PROVE  ListKept'
<1>0. PICK n \in Nat : \E s : Chain(s, n) /\ WriterOutside(Members(s, n)) /\ ReadersBehind(s, n)
  BY SrpOpen
<1>1. PICK s : Chain(s, n) /\ WriterOutside(Members(s, n)) /\ ReadersBehind(s, n)
  BY <1>0
<1>2. Chain(s, n)' /\ WriterOutside(Members(s, n))' /\ ReadersBehind(s, n)'
  BY <1>1 DEF Chain, WriterOutside, ReadersBehind, Members
<1> QED BY <1>1, <1>2 DEF ListKept

LEMMA FinalizeInv ==
  ASSUME SrpInv, srp_gc_finalize
  PROVE  SrpInv'
<1>1. /\ owner /\ owner' = FALSE /\ writer.op = "none" /\ r_refs' = r_refs - 1
      /\ dtor_calls' = (IF r_refs = 1 THEN dtor_calls + 1 ELSE dtor_calls)
      /\ UNCHANGED <<srp_ref, writer, reader, srp_seen, stayed, disturbed>>
  BY DEF srp_gc_finalize, NoWriter
<1>2. ListKept'
  BY <1>1, SameList
<1>3. PICK c : c = Cardinality({x \in References : srp_ref[x] # NULL})
  OBVIOUS
<1>4. c \in Nat
  <2>1. IsFiniteSet({x \in References : srp_ref[x] # NULL})
    BY SrpFacts, FS_Subset
  <2> QED BY <1>3, <2>1, FS_CardinalityType
<1>5. r_refs = 1 + c /\ dtor_calls = 0
  BY <1>1, <1>3, <1>4 DEF SrpInv, CollectorIsExact
<1>6. c = Cardinality({x \in References : srp_ref'[x] # NULL})
  BY <1>1, <1>3
<1>7. r_refs' = c /\ r_refs' \in Nat /\ dtor_calls' = (IF c = 0 THEN 1 ELSE 0) /\ dtor_calls' \in Nat
  BY <1>1, <1>4, <1>5
<1>8. CollectorIsExact'
  <2>1. (IF owner' THEN 1 ELSE 0) = 0
    BY <1>1
  <2>2. r_refs' = (IF owner' THEN 1 ELSE 0) + Cardinality({x \in References : srp_ref'[x] # NULL})
    BY <1>4, <1>6, <1>7, <2>1
  <2>3. dtor_calls' = IF r_refs' = 0 THEN 1 ELSE 0
    BY <1>7
  <2> QED BY <2>2, <2>3 DEF CollectorIsExact
<1>9. SrpTypeOK'
  BY <1>1, <1>7 DEF SrpInv, SrpTypeOK
<1> QED BY <1>2, <1>8, <1>9 DEF SrpInv

\* A reader only moves itself.
LEMMA ReaderStep ==
  ASSUME SrpInv, NEW r \in SrpReaders, NEW x \in References, srp_enter(r, x),
         UNCHANGED <<srp_ref, r_refs, owner, dtor_calls, writer>>,
         stayed' \in [SrpReaders -> SUBSET Elements]
  PROVE  SrpTypeOK' /\ CollectorIsExact'
<1>1. srp_ref[x] \in Elements \cup {NULL}
  BY DEF SrpInv, SrpTypeOK
<1>2. reader' \in [SrpReaders -> Elements \cup {NULL, Done}]
  BY <1>1 DEF SrpInv, SrpTypeOK, srp_enter
<1>3. srp_seen' \in [SrpReaders -> SUBSET Elements]
  <2>1. {srp_ref[x]} \ {NULL} \subseteq Elements
    BY <1>1
  <2> QED BY <2>1 DEF SrpInv, SrpTypeOK, srp_enter
<1> QED BY <1>2, <1>3 DEF SrpInv, SrpTypeOK, CollectorIsExact

LEMMA ReaderBeginsInv ==
  ASSUME SrpInv, NEW r \in SrpReaders, ReaderBegins(r)
  PROVE  SrpInv'
<1>0. PICK n \in Nat : \E s :
        /\ Chain(s, n) /\ WriterOutside(Members(s, n)) /\ ReadersBehind(s, n)
        /\ Linked = Members(s, n) /\ Members(s, n) \subseteq Elements
  BY SrpOpen
<1>1. PICK s :
        /\ Chain(s, n) /\ WriterOutside(Members(s, n)) /\ ReadersBehind(s, n)
        /\ Linked = Members(s, n) /\ Members(s, n) \subseteq Elements
  BY <1>0
<1>2. /\ srp_enter(r, ListHead) /\ stayed' = [stayed EXCEPT ![r] = Linked]
      /\ disturbed' = disturbed \ {r} /\ UNCHANGED <<srp_ref, r_refs, owner, dtor_calls, writer>>
  BY DEF ReaderBegins
<1>3. SrpTypeOK' /\ CollectorIsExact'
  <2>1. stayed' \in [SrpReaders -> SUBSET Elements]
    BY <1>1, <1>2 DEF SrpInv, SrpTypeOK
  <2> QED BY <1>2, <2>1, ReaderStep DEF References
<1>4. Chain(s, n)' /\ WriterOutside(Members(s, n))'
  BY <1>1, <1>2 DEF Chain, WriterOutside, Members
<1>5. ReadersBehind(s, n)'
  <2> SUFFICES ASSUME NEW q \in SrpReaders \ disturbed'
               PROVE  /\ stayed'[q] \subseteq Members(s, n)
                      /\ reader'[q] \in Elements =>
                           \E j \in 1 .. n : /\ s[j] = reader'[q]
                             /\ \A i \in 1 .. j : s[i] \in stayed'[q] => s[i] \in srp_seen'[q]
                      /\ reader'[q] = Done => stayed'[q] \subseteq srp_seen'[q]
    BY DEF ReadersBehind, Members
  <2>1. CASE q # r
    <3>1. reader'[q] = reader[q] /\ srp_seen'[q] = srp_seen[q] /\ stayed'[q] = stayed[q] /\ q \notin disturbed
      BY <1>2, <2>1 DEF srp_enter, SrpInv, SrpTypeOK
    <3> QED BY <1>1, <3>1 DEF ReadersBehind
  <2>2. CASE q = r
    <3>1. /\ reader'[r] = (IF srp_ref[ListHead] = NULL THEN Done ELSE srp_ref[ListHead])
          /\ srp_seen'[r] = {srp_ref[ListHead]} \ {NULL} /\ stayed'[r] = Members(s, n)
      BY <1>1, <1>2 DEF srp_enter, SrpInv, SrpTypeOK
    <3>2. CASE n = 0
      <4>1. srp_ref[ListHead] = NULL /\ Members(s, n) = {}
        BY <1>1, <3>2 DEF Chain, Members
      <4> QED BY <2>2, <3>1, <4>1, SrpFacts
    <3>3. CASE n > 0
      <4>1. srp_ref[s[0]] = s[0 + 1] /\ s[0] = ListHead /\ 1 \in 1 .. n
        BY <1>1, <3>3 DEF Chain
      <4>2. s[1] \in Elements
        BY <1>1, <4>1 DEF Members
      <4>3. srp_ref[ListHead] = s[1] /\ s[1] # NULL /\ s[1] # Done
        BY <4>1, <4>2, SrpFacts
      <4>4. \A i \in 1 .. 1 : i = 1
        OBVIOUS
      <4> QED BY <2>2, <3>1, <4>1, <4>3, <4>4
    <3> QED BY <3>2, <3>3
  <2> QED BY <2>1, <2>2
<1> QED BY <1>3, <1>4, <1>5 DEF SrpInv, ListKept

LEMMA ReaderFollowsInv ==
  ASSUME SrpInv, NEW r \in SrpReaders, ReaderFollows(r)
  PROVE  SrpInv'
<1>0. PICK n \in Nat : \E s :
        /\ Chain(s, n) /\ WriterOutside(Members(s, n)) /\ ReadersBehind(s, n)
        /\ Members(s, n) \subseteq Elements
  BY SrpOpen
<1>1. PICK s :
        /\ Chain(s, n) /\ WriterOutside(Members(s, n)) /\ ReadersBehind(s, n)
        /\ Members(s, n) \subseteq Elements
  BY <1>0
<1>2. PICK x : x = reader[r]
  OBVIOUS
<1>3. /\ srp_enter(r, x) /\ x \in Elements /\ x \in References
      /\ UNCHANGED <<srp_ref, r_refs, owner, dtor_calls, writer, stayed, disturbed>>
  BY <1>2, SrpFacts DEF ReaderFollows
<1>4. SrpTypeOK' /\ CollectorIsExact'
  BY <1>3, ReaderStep DEF SrpInv, SrpTypeOK
<1>5. Chain(s, n)' /\ WriterOutside(Members(s, n))'
  BY <1>1, <1>3 DEF Chain, WriterOutside, Members
<1>6. ReadersBehind(s, n)'
  <2> SUFFICES ASSUME NEW q \in SrpReaders \ disturbed
               PROVE  /\ stayed[q] \subseteq Members(s, n)
                      /\ reader'[q] \in Elements =>
                           \E j \in 1 .. n : /\ s[j] = reader'[q]
                             /\ \A i \in 1 .. j : s[i] \in stayed[q] => s[i] \in srp_seen'[q]
                      /\ reader'[q] = Done => stayed[q] \subseteq srp_seen'[q]
    BY <1>3 DEF ReadersBehind, Members
  <2>1. CASE q # r
    <3>1. reader'[q] = reader[q] /\ srp_seen'[q] = srp_seen[q]
      BY <1>3, <2>1 DEF srp_enter, SrpInv, SrpTypeOK
    <3> QED BY <1>1, <3>1 DEF ReadersBehind
  <2>2. CASE q = r
    <3>1. stayed[r] \subseteq Members(s, n)
      BY <1>1, <2>2 DEF ReadersBehind
    <3>2. PICK j \in 1 .. n : s[j] = x /\ \A i \in 1 .. j : s[i] \in stayed[r] => s[i] \in srp_seen[r]
      BY <1>1, <1>2, <1>3, <2>2 DEF ReadersBehind
    <3>3. /\ reader'[r] = (IF srp_ref[x] = NULL THEN Done ELSE srp_ref[x])
          /\ srp_seen'[r] = srp_seen[r] \cup ({srp_ref[x]} \ {NULL})
      BY <1>3, SrpFacts DEF srp_enter, SrpInv, SrpTypeOK
    <3>4. CASE j = n
      <4>1. srp_ref[x] = NULL
        BY <1>1, <3>2, <3>4 DEF Chain
      <4>2. stayed[r] \subseteq srp_seen[r]
        BY <3>1, <3>2, <3>4 DEF Members
      <4> QED BY <2>2, <3>1, <3>3, <4>1, <4>2, SrpFacts
    <3>5. CASE j # n
      <4>1. j \in 0 .. n - 1 /\ j + 1 \in 1 .. n
        BY <3>5
      <4>2. srp_ref[x] = s[j + 1] /\ s[j + 1] \in Elements
        BY <1>1, <3>2, <4>1 DEF Chain, Members
      <4>3. s[j + 1] # NULL /\ s[j + 1] # Done
        BY <4>2, SrpFacts
      <4>4. ASSUME NEW i \in 1 .. j + 1, s[i] \in stayed[r] PROVE s[i] \in srp_seen'[r]
        <5>1. i \in 1 .. j \/ i = j + 1
          OBVIOUS
        <5> QED BY <3>2, <3>3, <4>2, <4>3, <4>4, <5>1
      <4> QED BY <2>2, <3>1, <3>3, <4>1, <4>2, <4>3, <4>4
    <3> QED BY <3>4, <3>5
  <2> QED BY <2>1, <2>2
<1> QED BY <1>4, <1>5, <1>6 DEF SrpInv, ListKept

LEMMA SrpInitInv == SrpInit => SrpInv
<1> SUFFICES ASSUME SrpInit PROVE SrpInv
  OBVIOUS
<1>1. SrpTypeOK
  BY DEF SrpInit, SrpTypeOK, Writers
<1>2. CollectorIsExact
  <2>1. {x \in References : srp_ref[x] # NULL} = {}
    BY DEF SrpInit
  <2> QED BY <2>1, FS_EmptySet DEF SrpInit, CollectorIsExact
<1>3. PICK s : s = [i \in 0 .. 0 |-> ListHead]
  OBVIOUS
<1>4. ListHead \in References
  BY DEF References
<1>5. Chain(s, 0)
  <2>1. \A i \in 0 .. 0 : i = 0
    OBVIOUS
  <2>2. 0 .. 0 - 1 = {}
    OBVIOUS
  <2> QED BY <1>3, <1>4, <2>1, <2>2 DEF Chain, SrpInit
<1>6. WriterOutside(Members(s, 0)) /\ ReadersBehind(s, 0)
  <2>1. \A x \in Elements : srp_ref[x] = NULL
    BY DEF SrpInit, References
  <2>2. NULL \notin Elements /\ NULL # Done
    BY SrpFacts
  <2> QED BY <2>1, <2>2 DEF WriterOutside, ReadersBehind, SrpInit, NoWriter
<1> QED BY <1>1, <1>2, <1>5, <1>6 DEF SrpInv, ListKept

LEMMA SrpStepInv == SrpInv /\ [SrpNext]_srp_vars => SrpInv'
<1> SUFFICES ASSUME SrpInv, [SrpNext]_srp_vars PROVE SrpInv'
  OBVIOUS
<1>1. ASSUME UNCHANGED srp_vars PROVE SrpInv'
  <2>1. ListKept'
    <3>1. writer.op = "insert" => owner'
      BY <1>1, SrpOpen DEF WriterOutside, srp_vars
    <3> QED BY <1>1, <3>1, SameList DEF srp_vars
  <2> QED BY <1>1, <2>1 DEF SrpInv, srp_vars, SrpTypeOK, CollectorIsExact
<1> QED BY <1>1, InsertPrepareInv, InsertLinkInv, RemoveUnlinkInv, RemoveClearInv, FinalizeInv,
           ReaderBeginsInv, ReaderFollowsInv DEF SrpNext

\* The collector's count is exact after every step of every macro, and the destructor runs
\* once, when the last reference and the owner are gone: for lists of any length (srp.c:32-59).
THEOREM CollectorCounts == SrpSpec => []CollectorIsExact
<1>1. SrpInv => CollectorIsExact
  BY DEF SrpInv
<1> QED BY <1>1, SrpInitInv, SrpStepInv, PTL DEF SrpSpec

\* A reader without the lock misses nothing that stayed in the list, for any number of readers
\* and elements, wherever the writer is between its two updates (srp.h:149-195).
THEOREM ReadersMissNothing == SrpSpec => []ReadersSeeWhatStays
<1>1. SrpInv => ReadersSeeWhatStays
  <2> SUFFICES ASSUME SrpInv, NEW r \in SrpReaders, reader[r] = Done, r \notin disturbed
               PROVE  stayed[r] \subseteq srp_seen[r]
    BY DEF ReadersSeeWhatStays
  <2> QED BY SrpOpen DEF ReadersBehind
<1> QED BY <1>1, SrpInitInv, SrpStepInv, PTL DEF SrpSpec

-----------------------------------------------------------------------------
(* The atomic words: a counter that is exchanged only if it is still what  *)
(* was read, a lock, and a reference count that is the number of the       *)
(* references that are held.                                               *)

WordsTypeOK ==
  /\ counter \in 0 .. Modulus - 1 /\ owed = counter
  /\ expected \in [WordThreads -> Int]
  /\ lock \in {0, 1}
  /\ within \in [WordThreads -> {"out", "locked", "marked", "leaving"}]
  /\ held \in [WordThreads -> 0 .. MaxHeld]

\* The lock is taken while a thread is past it, by that thread alone.
LockKept ==
  /\ lock = 0 => marks = {} /\ \A t \in WordThreads : within[t] = "out"
  /\ \A t \in WordThreads : within[t] # "out" =>
       /\ \A u \in WordThreads \ {t} : within[u] = "out"
       /\ marks = IF within[t] = "marked" THEN {t} ELSE {}

CountKept ==
  /\ references = Cardinality(HeldReferences)
  /\ destroyed = IF references = 0 THEN 1 ELSE 0
  /\ alone # Nobody => alone \in WordThreads /\ \A t \in WordThreads \ {alone} : held[t] = 0

WordsInv == WordsTypeOK /\ LockKept /\ CountKept

\* A word has room for the references, whoever holds them.
LEMMA WordsFacts ==
  /\ Modulus \in Nat \ {0} /\ MaxHeld \in Nat \ {0}
  /\ IsFiniteSet(HeldReferences) /\ Cardinality(HeldReferences) \in Nat
  /\ Cardinality(HeldReferences) < Modulus
<1>1. MaxHeld \in Nat \ {0} /\ WordBits \in Nat /\ IsFiniteSet(WordThreads)
      /\ Cardinality(WordThreads \X (1 .. MaxHeld)) < Modulus
  BY WordsAssumption
<1>2. IsFiniteSet(1 .. MaxHeld)
  BY <1>1, FS_Interval
<1>3. PICK all : all = WordThreads \X (1 .. MaxHeld)
  OBVIOUS
<1>4. IsFiniteSet(all) /\ Cardinality(all) \in Nat
  BY <1>1, <1>2, <1>3, FS_Product, FS_CardinalityType
<1>5. HeldReferences \in SUBSET all
  BY <1>3 DEF HeldReferences
<1>6. IsFiniteSet(HeldReferences) /\ Cardinality(HeldReferences) <= Cardinality(all)
  BY <1>4, <1>5, FS_Subset
<1>7. Cardinality(HeldReferences) \in Nat
  BY <1>6, FS_CardinalityType
<1>8. Modulus \in Int
  BY <1>1 DEF Modulus
<1>9. Cardinality(all) < Modulus
  BY <1>1, <1>3
<1> QED BY <1>1, <1>4, <1>6, <1>7, <1>8, <1>9

\* What the arithmetic of words comes to.
LEMMA WordArithmetic ==
  ASSUME NEW a \in 0 .. Modulus - 1
  PROVE  /\ (a + 0) % Modulus = a
         /\ a + 1 < Modulus => (a + 1) % Modulus = a + 1
         /\ a > 0 => (a - 1) % Modulus = a - 1
BY WordsFacts

LEMMA ModIsWord ==
  ASSUME NEW a \in Int
  PROVE  a % Modulus \in 0 .. Modulus - 1
BY WordsFacts

\* The counter and what it should be take the same step.
LEMMA CounterInv ==
  ASSUME WordsInv, NEW word, NEW amount \in Int, CounterIs(word, amount),
         word = (counter + amount) % Modulus, expected' \in [WordThreads -> Int]
  PROVE  WordsInv'
<1>1. /\ counter' = (counter + amount) % Modulus /\ owed' = (owed + amount) % Modulus
      /\ UNCHANGED <<lock, marks, within, references, held, destroyed, alone, words_part>>
  BY DEF CounterIs
<1>2. counter \in Int /\ owed = counter
  BY WordsFacts DEF WordsInv, WordsTypeOK
<1>3. counter' \in 0 .. Modulus - 1
  BY <1>1, <1>2, ModIsWord
<1>4. WordsTypeOK'
  BY <1>1, <1>2, <1>3 DEF WordsInv, WordsTypeOK, Modulus
<1>5. LockKept'
  BY <1>1 DEF WordsInv, LockKept
<1>6. CountKept'
  BY <1>1 DEF WordsInv, CountKept, HeldReferences
<1> QED BY <1>4, <1>5, <1>6 DEF WordsInv

LEMMA AddInv ==
  ASSUME WordsInv, NEW v \in Amounts, Add(v)
  PROVE  WordsInv'
<1>1. v \in Int /\ counter \in Int
  BY WordsFacts, WordsAssumption DEF WordsInv, WordsTypeOK
<1>2. expected' \in [WordThreads -> Int]
  BY DEF Add, WordsInv, WordsTypeOK
<1>3. CASE CounterIs((counter + v) % Modulus, v)
  BY <1>1, <1>2, <1>3, CounterInv
<1>4. CASE CounterIs((counter - v) % Modulus, -v)
  <2>1. counter - v = counter + (-v) /\ -v \in Int
    BY <1>1
  <2>2. (counter - v) % Modulus = (counter + (-v)) % Modulus
    BY <2>1
  <2> QED BY <1>2, <1>4, <2>1, <2>2, CounterInv
<1>5. CASE CounterIs((counter + 1) % Modulus, 1)
  BY <1>2, <1>5, CounterInv
<1>6. CASE CounterIs((counter - 1) % Modulus, -1)
  <2>1. counter - 1 = counter + (-1)
    BY <1>1
  <2>2. (counter - 1) % Modulus = (counter + (-1)) % Modulus
    BY <2>1
  <2> QED BY <1>2, <1>6, <2>2, CounterInv
<1> QED BY <1>3, <1>4, <1>5, <1>6
        DEF Add, atomic_add, atomic_add_nv, atomic_sub, atomic_sub_nv, atomic_inc, atomic_dec

LEMMA CasReadInv ==
  ASSUME WordsInv, NEW t \in WordThreads, CasRead(t)
  PROVE  WordsInv'
<1>1. CounterIs(counter, 0) /\ expected' = [expected EXCEPT ![t] = counter]
  BY DEF CasRead
<1>2. counter \in 0 .. Modulus - 1 /\ counter \in Int /\ expected \in [WordThreads -> Int]
  BY WordsFacts DEF WordsInv, WordsTypeOK
<1>3. counter = (counter + 0) % Modulus
  BY <1>2, WordArithmetic
<1> QED BY <1>1, <1>2, <1>3, CounterInv

\* The exchange that succeeds found the word as it was read; the one that fails leaves it.
LEMMA CasTryInv ==
  ASSUME WordsInv, NEW t \in WordThreads, CasTry(t)
  PROVE  WordsInv'
<1>1. counter \in 0 .. Modulus - 1 /\ counter \in Int /\ expected \in [WordThreads -> Int]
  BY WordsFacts DEF WordsInv, WordsTypeOK
<1>2. PICK e : e = expected[t]
  OBVIOUS
<1>3. e \in Int
  BY <1>1, <1>2
<1>4. /\ CounterIs(IF counter = e THEN (e + e) % Modulus ELSE counter, IF counter = e THEN e ELSE 0)
      /\ expected' = [expected EXCEPT ![t] = IF counter = e THEN Unread ELSE counter]
  BY <1>2 DEF CasTry, atomic_cas, atomic_add
<1>5. expected' \in [WordThreads -> Int]
  BY <1>1, <1>4 DEF Unread
<1>6. CASE counter = e
  <2>1. CounterIs((counter + e) % Modulus, e)
    BY <1>4, <1>6
  <2> QED BY <1>3, <1>5, <2>1, CounterInv
<1>7. CASE counter # e
  <2>1. CounterIs(counter, 0)
    BY <1>4, <1>7
  <2>2. counter = (counter + 0) % Modulus
    BY <1>1, WordArithmetic
  <2> QED BY <1>5, <2>1, <2>2, CounterInv
<1> QED BY <1>6, <1>7

\* A step about the lock leaves the counter and the object alone.
LEMMA LockStep ==
  ASSUME WordsInv, NEW t \in WordThreads, NEW step, NEW l, NEW m, Within(t, step, l, m),
         step \in {"out", "locked", "marked", "leaving"}, l \in {0, 1},
         LockKept'
  PROVE  WordsInv'
<1>1. UNCHANGED <<counter, owed, expected, references, held, destroyed, alone, words_part>>
      /\ within' = [within EXCEPT ![t] = step] /\ lock' = l
  BY DEF Within
<1>2. WordsTypeOK'
  BY <1>1 DEF WordsInv, WordsTypeOK
<1>3. CountKept'
  BY <1>1 DEF WordsInv, CountKept, HeldReferences
<1> QED BY <1>2, <1>3 DEF WordsInv

LEMMA LockInv ==
  ASSUME WordsInv, NEW t \in WordThreads, TryLock(t) \/ Mark(t) \/ Unmark(t) \/ Unlock(t)
  PROVE  WordsInv'
<1>1. /\ within \in [WordThreads -> {"out", "locked", "marked", "leaving"}]
      /\ lock \in {0, 1} /\ LockKept
  BY DEF WordsInv, WordsTypeOK
<1>2. CASE TryLock(t)
  <2>1. within[t] = "out" /\ Within(t, IF lock = 0 THEN "locked" ELSE "out", 1, marks)
    BY <1>2 DEF TryLock, atomic_swap
  <2>2. within' = [within EXCEPT ![t] = IF lock = 0 THEN "locked" ELSE "out"] /\ lock' = 1 /\ marks' = marks
    BY <2>1 DEF Within
  <2>3. LockKept'
    BY <1>1, <2>1, <2>2 DEF LockKept
  <2> QED BY <1>1, <2>1, <2>3, LockStep
<1>3. CASE Mark(t)
  <2>1. within[t] = "locked" /\ Within(t, "marked", lock, marks \cup {t})
    BY <1>3 DEF Mark, atomic_setbits
  <2>2. within' = [within EXCEPT ![t] = "marked"] /\ lock' = lock /\ marks' = marks \cup {t}
    BY <2>1 DEF Within
  <2>3. LockKept'
    BY <1>1, <2>1, <2>2 DEF LockKept
  <2> QED BY <1>1, <2>1, <2>3, LockStep
<1>4. CASE Unmark(t)
  <2>1. within[t] = "marked" /\ Within(t, "leaving", lock, marks \ {t})
    BY <1>4 DEF Unmark, atomic_clearbits
  <2>2. within' = [within EXCEPT ![t] = "leaving"] /\ lock' = lock /\ marks' = marks \ {t}
    BY <2>1 DEF Within
  <2>3. LockKept'
    BY <1>1, <2>1, <2>2 DEF LockKept
  <2> QED BY <1>1, <2>1, <2>3, LockStep
<1>5. CASE Unlock(t)
  <2>1. within[t] = "leaving" /\ Within(t, "out", 0, marks)
    BY <1>5 DEF Unlock, atomic_swap
  <2>2. within' = [within EXCEPT ![t] = "out"] /\ lock' = 0 /\ marks' = marks
    BY <2>1 DEF Within
  <2>3. LockKept'
    BY <1>1, <2>1, <2>2 DEF LockKept
  <2> QED BY <1>1, <2>1, <2>3, LockStep
<1> QED BY <1>2, <1>3, <1>4, <1>5

\* A step about the object leaves the counter and the lock alone.
LEMMA ObjectStep ==
  ASSUME WordsInv, NEW r, NEW h \in [WordThreads -> 0 .. MaxHeld], NEW d, NEW a, Object(r, h, d, a),
         CountKept'
  PROVE  WordsInv'
<1>1. /\ UNCHANGED <<counter, owed, expected, lock, marks, within, words_part>> /\ held' = h
  BY DEF Object
<1>2. WordsTypeOK'
  BY <1>1 DEF WordsInv, WordsTypeOK
<1>3. LockKept'
  BY <1>1 DEF WordsInv, LockKept
<1> QED BY <1>2, <1>3 DEF WordsInv

\* Who holds a reference is alive: the object was not destroyed.
LEMMA HolderIsCounted ==
  ASSUME WordsInv, NEW t \in WordThreads, held[t] > 0
  PROVE  /\ held[t] \in 1 .. MaxHeld /\ <<t, held[t]>> \in HeldReferences
         /\ references \in 1 .. Modulus - 1 /\ destroyed = 0
<1>1. MaxHeld \in Nat /\ held[t] \in 1 .. MaxHeld
  BY WordsFacts DEF WordsInv, WordsTypeOK
<1>2. <<t, held[t]>> \in HeldReferences
  BY <1>1 DEF HeldReferences
<1>3. HeldReferences # {}
  BY <1>2
<1>4. Cardinality(HeldReferences) # 0
  BY <1>3, WordsFacts, FS_EmptySet
<1>5. references = Cardinality(HeldReferences) /\ (references # 0 => destroyed = 0)
  BY DEF WordsInv, CountKept
<1> QED BY <1>1, <1>2, <1>4, <1>5, WordsFacts

LEMMA TakeInv ==
  ASSUME WordsInv, NEW t \in WordThreads, NEW u \in WordThreads, Take(t, u)
  PROVE  WordsInv'
<1>1. /\ held[t] > 0 /\ held[u] < MaxHeld
      /\ Object((references + 1) % Modulus, [held EXCEPT ![u] = @ + 1], destroyed,
                IF t = alone THEN Nobody ELSE alone)
  BY DEF Take, refcnt_take, atomic_add
<1>2. /\ references' = (references + 1) % Modulus /\ held' = [held EXCEPT ![u] = @ + 1]
      /\ destroyed' = destroyed /\ alone' = IF t = alone THEN Nobody ELSE alone
  BY <1>1 DEF Object
<1>3. held \in [WordThreads -> 0 .. MaxHeld] /\ MaxHeld \in Nat
  BY WordsFacts DEF WordsInv, WordsTypeOK
<1>4. references \in 1 .. Modulus - 1 /\ destroyed = 0
  BY <1>1, HolderIsCounted
<1>5. held' \in [WordThreads -> 0 .. MaxHeld]
  BY <1>1, <1>2, <1>3
<1>6. PICK new : new = <<u, held[u] + 1>>
  OBVIOUS
<1>7. HeldReferences' = HeldReferences \cup {new} /\ new \notin HeldReferences
  <2>1. ASSUME NEW r \in WordThreads \X (1 .. MaxHeld)
        PROVE  r[2] <= held'[r[1]] <=> r[2] <= held[r[1]] \/ r = new
    <3>1. PICK w \in WordThreads, n \in 1 .. MaxHeld : r = <<w, n>>
      OBVIOUS
    <3>2. held[w] \in 0 .. MaxHeld
      BY <1>3
    <3>3. CASE w = u
      BY <1>2, <1>3, <1>6, <3>1, <3>2, <3>3
    <3>4. CASE w # u
      BY <1>2, <1>3, <1>6, <3>1, <3>4
    <3> QED BY <3>3, <3>4
  <2>2. new \in WordThreads \X (1 .. MaxHeld) /\ ~(new[2] <= held[new[1]])
    BY <1>1, <1>3, <1>6
  <2> QED BY <2>1, <2>2 DEF HeldReferences
<1>8. Cardinality(HeldReferences') = Cardinality(HeldReferences) + 1
  BY <1>7, WordsFacts, FS_AddElement
<1>9. Cardinality(HeldReferences') < Modulus
  <2>1. (Cardinality(HeldReferences) < Modulus)'
    BY WordsFacts, PTL
  <2> QED BY <2>1 DEF Modulus
<1>10. references = Cardinality(HeldReferences)
  BY DEF WordsInv, CountKept
<1>11. references' = references + 1
  BY <1>2, <1>4, <1>8, <1>9, <1>10, WordArithmetic, WordsFacts
<1>12. alone' # Nobody => alone' \in WordThreads /\ \A w \in WordThreads \ {alone'} : held'[w] = 0
  <2>1. CASE t = alone
    BY <1>2, <2>1
  <2>2. CASE t # alone
    BY <1>1, <1>2, <2>2 DEF WordsInv, CountKept
  <2> QED BY <2>1, <2>2
<1>13. CountKept'
  BY <1>2, <1>4, <1>8, <1>10, <1>11, <1>12 DEF CountKept
<1> QED BY <1>1, <1>2, <1>5, <1>13, ObjectStep

\* The last reference that a thread holds.
LEMMA OneLess ==
  ASSUME WordsInv, NEW t \in WordThreads, held[t] > 0, NEW h, h = [held EXCEPT ![t] = @ - 1]
  PROVE  /\ h \in [WordThreads -> 0 .. MaxHeld]
         /\ {r \in WordThreads \X (1 .. MaxHeld) : r[2] <= h[r[1]]} = HeldReferences \ {<<t, held[t]>>}
<1>1. held \in [WordThreads -> 0 .. MaxHeld] /\ MaxHeld \in Nat
  BY WordsFacts DEF WordsInv, WordsTypeOK
<1>2. held[t] \in 1 .. MaxHeld
  BY HolderIsCounted
<1>3. h \in [WordThreads -> 0 .. MaxHeld]
  BY <1>1, <1>2
<1>4. PICK old : old = <<t, held[t]>>
  OBVIOUS
<1>5. ASSUME NEW r \in WordThreads \X (1 .. MaxHeld)
      PROVE  r[2] <= h[r[1]] <=> r[2] <= held[r[1]] /\ r # old
  <2>1. PICK w \in WordThreads, n \in 1 .. MaxHeld : r = <<w, n>>
    OBVIOUS
  <2>2. held[w] \in 0 .. MaxHeld
    BY <1>1
  <2>3. CASE w = t
    BY <1>1, <1>2, <1>4, <2>1, <2>2, <2>3
  <2>4. CASE w # t
    BY <1>1, <1>4, <2>1, <2>4
  <2> QED BY <2>3, <2>4
<1> QED BY <1>3, <1>4, <1>5 DEF HeldReferences

\* The object is destroyed when the count reaches 0, which is when the last reference goes.
LEMMA ReleaseInv ==
  ASSUME WordsInv, NEW t \in WordThreads, Release(t)
  PROVE  WordsInv'
<1>1. /\ held[t] > 0
      /\ Object((references - 1) % Modulus, [held EXCEPT ![t] = @ - 1],
                IF (references - 1) % Modulus = 0 THEN destroyed + 1 ELSE destroyed,
                IF t = alone THEN Nobody ELSE alone)
  BY DEF Release, refcnt_rele, atomic_sub_nv
<1>2. references \in 1 .. Modulus - 1 /\ destroyed = 0 /\ <<t, held[t]>> \in HeldReferences
  BY <1>1, HolderIsCounted
<1>3. (references - 1) % Modulus = references - 1
  BY <1>2, WordArithmetic, WordsFacts
<1>4. /\ references' = references - 1 /\ held' = [held EXCEPT ![t] = @ - 1]
      /\ destroyed' = (IF references - 1 = 0 THEN 1 ELSE 0)
      /\ alone' = IF t = alone THEN Nobody ELSE alone
  BY <1>1, <1>2, <1>3 DEF Object
<1>5. held' \in [WordThreads -> 0 .. MaxHeld] /\ HeldReferences' = HeldReferences \ {<<t, held[t]>>}
  BY <1>1, <1>4, OneLess DEF HeldReferences
<1>6. Cardinality(HeldReferences') = Cardinality(HeldReferences) - 1
  BY <1>2, <1>5, WordsFacts, FS_RemoveElement
<1>7. held \in [WordThreads -> 0 .. MaxHeld] /\ MaxHeld \in Nat
  BY WordsFacts DEF WordsInv, WordsTypeOK
<1>8. alone' # Nobody => alone' \in WordThreads /\ \A w \in WordThreads \ {alone'} : held'[w] = 0
  <2>1. CASE t = alone
    BY <1>4, <2>1
  <2>2. CASE t # alone
    BY <1>1, <1>4, <2>2 DEF WordsInv, CountKept
  <2> QED BY <2>1, <2>2
<1>9. CountKept'
  BY <1>4, <1>6, <1>8 DEF WordsInv, CountKept
<1> QED BY <1>1, <1>4, <1>5, <1>9, ObjectStep

\* A reference passed on is one less here and one more there.
LEMMA PassInv ==
  ASSUME WordsInv, NEW t \in WordThreads, NEW u \in WordThreads, Pass(t, u)
  PROVE  WordsInv'
<1>1. /\ t # u /\ held[t] > 0 /\ held[u] < MaxHeld
      /\ Object(references, [held EXCEPT ![t] = @ - 1, ![u] = @ + 1], destroyed,
                IF t = alone THEN Nobody ELSE alone)
  BY DEF Pass
<1>2. /\ UNCHANGED <<references, destroyed>> /\ held' = [held EXCEPT ![t] = @ - 1, ![u] = @ + 1]
      /\ alone' = IF t = alone THEN Nobody ELSE alone
  BY <1>1 DEF Object
<1>3. held \in [WordThreads -> 0 .. MaxHeld] /\ MaxHeld \in Nat
  BY WordsFacts DEF WordsInv, WordsTypeOK
<1>4. PICK h : h = [held EXCEPT ![t] = @ - 1]
  OBVIOUS
<1>5. PICK less : less = {r \in WordThreads \X (1 .. MaxHeld) : r[2] <= h[r[1]]}
  OBVIOUS
<1>6. /\ h \in [WordThreads -> 0 .. MaxHeld] /\ less = HeldReferences \ {<<t, held[t]>>}
      /\ <<t, held[t]>> \in HeldReferences
  BY <1>1, <1>4, <1>5, OneLess, HolderIsCounted
<1>7. h[u] = held[u] /\ held' = [h EXCEPT ![u] = @ + 1] /\ held' \in [WordThreads -> 0 .. MaxHeld]
  <2>1. h[u] = held[u]
    BY <1>1, <1>3, <1>4
  <2>2. held' = [h EXCEPT ![u] = @ + 1]
    <3>1. held' \in [WordThreads -> Int] /\ h \in [WordThreads -> Int]
      BY <1>1, <1>2, <1>3, <1>6
    <3>2. \A w \in WordThreads : held'[w] = IF w = u THEN h[u] + 1 ELSE h[w]
      BY <1>1, <1>2, <1>3, <1>4, <2>1
    <3> QED BY <3>1, <3>2
  <2>3. h[u] + 1 \in 0 .. MaxHeld
    BY <1>1, <1>3, <2>1
  <2> QED BY <1>6, <2>1, <2>2, <2>3
<1>8. PICK new : new = <<u, h[u] + 1>>
  OBVIOUS
<1>9. HeldReferences' = less \cup {new} /\ new \notin less
  <2>1. ASSUME NEW r \in WordThreads \X (1 .. MaxHeld)
        PROVE  r[2] <= held'[r[1]] <=> r[2] <= h[r[1]] \/ r = new
    <3>1. PICK w \in WordThreads, n \in 1 .. MaxHeld : r = <<w, n>>
      OBVIOUS
    <3>2. h[w] \in 0 .. MaxHeld
      BY <1>6
    <3>3. CASE w = u
      BY <1>3, <1>6, <1>7, <1>8, <3>1, <3>2, <3>3
    <3>4. CASE w # u
      BY <1>3, <1>6, <1>7, <1>8, <3>1, <3>4
    <3> QED BY <3>3, <3>4
  <2>2. new \in WordThreads \X (1 .. MaxHeld) /\ ~(new[2] <= h[new[1]])
    BY <1>1, <1>3, <1>6, <1>7, <1>8
  <2> QED BY <1>5, <2>1, <2>2 DEF HeldReferences
<1>10. IsFiniteSet(less) /\ Cardinality(less) = Cardinality(HeldReferences) - 1
  BY <1>6, WordsFacts, FS_RemoveElement
<1>11. Cardinality(HeldReferences') = Cardinality(less) + 1
  BY <1>9, <1>10, FS_AddElement
<1>12. Cardinality(HeldReferences') = Cardinality(HeldReferences)
  BY <1>10, <1>11, WordsFacts
<1>13. alone' # Nobody => alone' \in WordThreads /\ \A w \in WordThreads \ {alone'} : held'[w] = 0
  <2>1. CASE t = alone
    BY <1>2, <2>1
  <2>2. CASE t # alone
    BY <1>1, <1>2, <2>2 DEF WordsInv, CountKept
  <2> QED BY <2>1, <2>2
<1>14. CountKept'
  BY <1>2, <1>12, <1>13 DEF WordsInv, CountKept
<1> QED BY <1>1, <1>2, <1>7, <1>14, ObjectStep

\* An object with one reference is held by nobody but the thread that asks.
LEMMA AskSharedInv ==
  ASSUME WordsInv, NEW t \in WordThreads, AskShared(t)
  PROVE  WordsInv'
<1>1. /\ held[t] > 0 /\ ~((references + 0) % Modulus > 1) /\ Object(references, held, destroyed, t)
  BY DEF AskShared, refcnt_shared, refcnt_read, atomic_add_nv
<1>2. references \in 1 .. Modulus - 1 /\ <<t, held[t]>> \in HeldReferences
  BY <1>1, HolderIsCounted
<1>3. references = 1
  BY <1>1, <1>2, WordArithmetic, WordsFacts
<1>4. Cardinality(HeldReferences) = 1
  BY <1>3 DEF WordsInv, CountKept
<1>5. PICK one : HeldReferences = {one}
  BY <1>4, WordsFacts, FS_Singleton
<1>6. held \in [WordThreads -> 0 .. MaxHeld] /\ MaxHeld \in Nat
  BY WordsFacts DEF WordsInv, WordsTypeOK
<1>7. ASSUME NEW u \in WordThreads \ {t} PROVE held[u] = 0
  <2>1. CASE held[u] > 0
    <3>1. <<u, held[u]>> \in HeldReferences
      BY <2>1, HolderIsCounted
    <3>2. <<u, held[u]>> = <<t, held[t]>>
      BY <1>2, <1>5, <3>1
    <3> QED BY <3>2
  <2> QED BY <1>6, <2>1
<1>8. UNCHANGED <<references, held, destroyed>> /\ alone' = t
  BY <1>1 DEF Object
<1>9. CountKept'
  BY <1>7, <1>8 DEF WordsInv, CountKept, HeldReferences
<1> QED BY <1>1, <1>6, <1>9, ObjectStep

LEMMA WordsInitInv == WordsInit => WordsInv
<1> SUFFICES ASSUME WordsInit PROVE WordsInv
  OBVIOUS
<1>1. Modulus \in Nat \ {0} /\ MaxHeld \in Nat \ {0}
  BY WordsFacts
<1>2. PICK t \in WordThreads : held = [u \in WordThreads |-> IF u = t THEN 1 ELSE 0]
  BY DEF WordsInit
<1>3. WordsTypeOK
  BY <1>1, <1>2 DEF WordsInit, WordsTypeOK, Unread
<1>4. HeldReferences = {<<t, 1>>}
  <2>1. ASSUME NEW r \in WordThreads \X (1 .. MaxHeld)
        PROVE  r[2] <= held[r[1]] <=> r = <<t, 1>>
    <3>1. PICK w \in WordThreads, n \in 1 .. MaxHeld : r = <<w, n>>
      OBVIOUS
    <3> QED BY <1>1, <1>2, <3>1
  <2>2. <<t, 1>> \in WordThreads \X (1 .. MaxHeld)
    BY <1>1
  <2> QED BY <2>1, <2>2 DEF HeldReferences
<1>5. Cardinality(HeldReferences) = 1
  BY <1>4, FS_Singleton
<1>6. CountKept
  BY <1>5 DEF WordsInit, CountKept
<1>7. LockKept
  BY DEF WordsInit, LockKept
<1> QED BY <1>3, <1>6, <1>7 DEF WordsInv

LEMMA WordsStepInv == WordsInv /\ [WordsNext]_words_vars => WordsInv'
<1> SUFFICES ASSUME WordsInv, [WordsNext]_words_vars PROVE WordsInv'
  OBVIOUS
<1>1. CASE \E v \in Amounts : Add(v)
  BY <1>1, AddInv
<1>2. CASE \E t \in WordThreads : CasRead(t) \/ CasTry(t)
  BY <1>2, CasReadInv, CasTryInv
<1>3. CASE \E t \in WordThreads : TryLock(t) \/ Mark(t) \/ Unmark(t) \/ Unlock(t)
  BY <1>3, LockInv
<1>4. CASE \E t \in WordThreads : Release(t) \/ AskShared(t)
  BY <1>4, ReleaseInv, AskSharedInv
<1>5. CASE \E t, u \in WordThreads : Take(t, u) \/ Pass(t, u)
  BY <1>5, TakeInv, PassInv
<1>6. CASE UNCHANGED words_vars
  BY <1>6 DEF words_vars, WordsInv, WordsTypeOK, LockKept, CountKept, HeldReferences
<1> QED BY <1>1, <1>2, <1>3, <1>4, <1>5, <1>6 DEF WordsNext

\* What the invariant says of the object is what its holders can see.
LEMMA WordsInvImplies == WordsInv => WordsAgree
<1> SUFFICES ASSUME WordsInv PROVE WordsAgree
  OBVIOUS
<1>1. references = Cardinality(HeldReferences) /\ references \in 0 .. Modulus - 1
  BY WordsFacts DEF WordsInv, CountKept
<1>2. refcnt_read(references) = references
  BY <1>1, WordArithmetic DEF refcnt_read, atomic_add_nv
<1>3. references = 0 <=> HeldReferences = {}
  BY <1>1, WordsFacts, FS_EmptySet
<1>4. HeldReferences = {} <=> \A t \in WordThreads : held[t] = 0
  <2>1. held \in [WordThreads -> 0 .. MaxHeld] /\ MaxHeld \in Nat
    BY WordsFacts DEF WordsInv, WordsTypeOK
  <2>2. ASSUME HeldReferences = {}, NEW t \in WordThreads PROVE held[t] = 0
    BY <2>1, <2>2, HolderIsCounted
  <2>3. ASSUME \A t \in WordThreads : held[t] = 0, NEW r \in HeldReferences PROVE FALSE
    BY <2>1, <2>3 DEF HeldReferences
  <2> QED BY <2>2, <2>3
<1>5. refcnt_finalize(references) <=> destroyed = 0
  BY <1>1, <1>2 DEF refcnt_finalize, WordsInv, CountKept
<1>6. destroyed = IF \A t \in WordThreads : held[t] = 0 THEN 1 ELSE 0
  BY <1>3, <1>4 DEF WordsInv, CountKept
<1> QED BY <1>1, <1>2, <1>5, <1>6 DEF WordsAgree, WordsInv, WordsTypeOK, LockKept, CountKept

\* However the threads' operations interleave, the counter loses nothing, the lock excludes, and the
\* object is destroyed once, by the release of the last of its references (atomic.h; refcnt.c).
THEOREM CountsAreKept == WordsSpec => []WordsAgree
BY WordsInitInv, WordsStepInv, WordsInvImplies, PTL DEF WordsSpec
=============================================================================
