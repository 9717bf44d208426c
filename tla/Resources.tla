----------------------------- MODULE Resources ------------------------------
(***************************************************************************)
(* Objects made of several blocks of memory: the interrupt maps of         *)
(* intrmap.c and the database handles of db.c, whose calls are stubs; and  *)
(* poll of poll.c, which waits for nothing.  Any allocation may fail.      *)
(***************************************************************************)
EXTENDS Integers, Sequences, FiniteSets, Functions

CONSTANTS Blocks,     \* the addresses that malloc gives
          MaxCpus,    \* bound on cpu_count of a map
          BaseIds,    \* values of cpu_base_id
          DbTypes, DbOpens   \* values of a DBTYPE; those dbopen knows

NoObject == 0
ASSUME ResourcesAssumption ==
  /\ IsFiniteSet(Blocks) /\ NoObject \notin Blocks /\ MaxCpus \in Nat /\ BaseIds \subseteq Nat
  /\ DbOpens \subseteq DbTypes

VARIABLES allocated,  \* blocks that malloc gave and free did not take back
          misfreed,   \* whether a block was freed twice, or one that was not allocated
          intrmaps,   \* the maps that callers hold
          dbs,        \* the databases that callers hold
          resource_ret
resources_vars == <<allocated, misfreed, intrmaps, dbs, resource_ret>>

RET_ERROR == -1
RET_SUCCESS == 0
\* The blocks of a map: the structure, the array and one for each cpu.
OwnedBlocks(im) == {im.im, im.cpus} \cup {im.cpu[i].block : i \in DOMAIN im.cpu}

\* What n calls of malloc give, one after the other.
FreshBlocks(n) == CHOOSE got \in Injection(1 .. n, Blocks \ allocated) : TRUE
CanAllocate(n) == Cardinality(Blocks \ allocated) >= n
\* The blocks more are allocated; then free is called for each of a sequence of blocks.
Frees(freed, more) ==
  /\ allocated' = (allocated \cup more) \ Range(freed)
  /\ misfreed' = (misfreed \/ ~(IsInjective(freed) /\ Range(freed) \subseteq allocated \cup more))

ResourcesInit ==
  /\ allocated = {} /\ misfreed = FALSE /\ intrmaps = {} /\ dbs = {}
  /\ resource_ret = [call |-> "none"]

\* Mutant: the block of the first cpu is freed with the array, a second time.
RolledBackTwice(got) ==
  [k \in 1 .. Len(got) + (IF Len(got) > 2 THEN 1 ELSE 0) |->
     IF k > Len(got) THEN got[3] ELSE got[Len(got) + 1 - k]]

\* What a failing intrmap_create frees of the blocks it got: the cpus
\* backwards, the array, the structure.
RolledBack(got) == [k \in 1 .. Len(got) |-> got[Len(got) + 1 - k]]
intrmap_create(n, base) ==
  /\ CanAllocate(n + 2)
  /\ \/ LET got == FreshBlocks(n + 2)
            im == [im |-> got[1], cpus |-> got[2], base |-> base,
                   cpu |-> [i \in 1..n |-> [block |-> got[i + 2],
                                            cpu_id |-> base + i - 1]]]
        IN /\ Frees(<<>>, Range(got))
           /\ intrmaps' = intrmaps \cup {im}
           /\ resource_ret' = [call |-> "create", ret |-> got[1]]
     \/ \E failing \in 0..n + 1 :
          LET got == FreshBlocks(failing)
          IN /\ Frees(RolledBack(got), Range(got))
             /\ UNCHANGED intrmaps
             /\ resource_ret' = [call |-> "create", ret |-> NoObject]
  /\ UNCHANGED dbs

\* The blocks of the cpus, the array, the structure.
FreedBlocks(im) == [i \in 1 .. Len(im.cpu) |-> im.cpu[i].block] \o <<im.cpus, im.im>>
intrmap_destroy(im) ==
  /\ Frees(FreedBlocks(im), {}) /\ intrmaps' = intrmaps \ {im}
  /\ resource_ret' = [call |-> "destroy"] /\ UNCHANGED dbs
\* intrmap_count and intrmap_cpu, also for NULL.
LookUp(im, idx) ==
  /\ resource_ret' = [call |-> "cpu", im |-> im, idx |-> idx,
                      count |-> Len(im.cpu),
                      ret |-> IF idx >= Len(im.cpu) THEN NoObject
                              ELSE im.cpu[idx + 1].block]
  /\ UNCHANGED <<allocated, misfreed, intrmaps, dbs>>
LookUpNull ==
  /\ resource_ret' = [call |-> "count", ret |-> 0]
  /\ UNCHANGED <<allocated, misfreed, intrmaps, dbs>>

\* dbopen: btree_open, hash_open and recno_open differ in the type only.
dbopen(type) ==
  /\ \/ /\ type \in DbOpens /\ CanAllocate(1)
        /\ LET b == FreshBlocks(1)[1]
           IN /\ Frees(<<>>, {b}) /\ dbs' = dbs \cup {[block |-> b, type |-> type]}
              /\ resource_ret' = [call |-> "dbopen", ret |-> b]
     \/ /\ UNCHANGED <<allocated, misfreed, dbs>>
        /\ resource_ret' = [call |-> "dbopen", ret |-> NoObject]
  /\ UNCHANGED intrmaps
\* internal is NULL in every database: close frees the handle alone.
db_close(db) ==
  /\ Frees(<<db.block>>, {}) /\ dbs' = dbs \ {db}
  /\ resource_ret' = [call |-> "close", ret |-> RET_SUCCESS]
  /\ UNCHANGED intrmaps
db_method(db, method) ==
  /\ resource_ret' = [call |-> method,
                      ret |-> IF method = "fd" THEN -1 ELSE RET_ERROR]
  /\ UNCHANGED <<allocated, misfreed, intrmaps, dbs>>

\* poll and ppoll on an array of which the first nfds entries are named.
Polled(revents, nfds) == [i \in DOMAIN revents |-> IF i <= nfds THEN 0
                                                   ELSE revents[i]]
poll(revents, nfds) ==
  /\ resource_ret' = [call |-> "poll", before |-> revents, nfds |-> nfds,
                      after |-> Polled(revents, nfds)]
  /\ UNCHANGED <<allocated, misfreed, intrmaps, dbs>>

ResourcesNext ==
  \/ \E n \in 0..MaxCpus, base \in BaseIds : intrmap_create(n, base)
  \/ \E im \in intrmaps : intrmap_destroy(im)
  \/ \E im \in intrmaps, idx \in 0..MaxCpus : LookUp(im, idx)
  \/ LookUpNull
  \/ \E type \in DbTypes : dbopen(type)
  \/ \E db \in dbs : db_close(db)
  \/ \E db \in dbs, method \in {"del", "get", "put", "seq", "sync", "fd"} :
       db_method(db, method)
  \/ \E revents \in {<<1, 4>>, <<0, 1>>}, nfds \in 0..2 : poll(revents, nfds)
ResourcesSpec == ResourcesInit /\ [][ResourcesNext]_resources_vars

-----------------------------------------------------------------------------
\* A map's blocks differ from each other.
BlocksDiffer(im) ==
  /\ im.im # im.cpus
  /\ \A i, j \in DOMAIN im.cpu :
       /\ im.cpu[i].block \notin {im.im, im.cpus}
       /\ im.cpu[i].block = im.cpu[j].block => i = j

\* No block belongs to two objects, or twice to one.
OwnedOnce ==
  /\ \A im \in intrmaps : BlocksDiffer(im)
  /\ \A im, other \in intrmaps : OwnedBlocks(im) \cap OwnedBlocks(other) # {} => im = other
  /\ \A db, other \in dbs : db.block = other.block => db = other
  /\ \A im \in intrmaps, db \in dbs : db.block \notin OwnedBlocks(im)

\* The blocks that maps and databases own.
MapBlocks(maps) == UNION {OwnedBlocks(im) : im \in maps}
DbBlocks(handles) == {db.block : db \in handles}

\* What the last look-up and the last poll answered.
Answered ==
  /\ resource_ret.call = "cpu" =>
       IF resource_ret.ret = NoObject THEN resource_ret.idx >= resource_ret.count
       ELSE \E i \in DOMAIN resource_ret.im.cpu :
              /\ resource_ret.im.cpu[i].block = resource_ret.ret
              /\ resource_ret.im.cpu[i].cpu_id =
                   resource_ret.im.base + resource_ret.idx
  /\ resource_ret.call = "poll" =>
       \A i \in DOMAIN resource_ret.after :
         resource_ret.after[i] = IF i <= resource_ret.nfds THEN 0
                                 ELSE resource_ret.before[i]

\* Whichever allocation of whichever call fails, the blocks that are
\* allocated are exactly those of the objects that callers hold, each owned by
\* one object, and none is freed twice; a map's cpus are numbered from its
\* base and no index beyond them answers one.  (intrmap.c; db.c; poll.c.)
NothingLeaks ==
  /\ ~misfreed
  /\ allocated = MapBlocks(intrmaps) \cup DbBlocks(dbs)
  /\ OwnedOnce
  /\ Answered
=============================================================================
