-------------------------------- MODULE Words -------------------------------
(* The atomic operations of usr/include/machine/atomic.h and the reference   *)
(* counts of kern/refcnt.c.                                                  *)
(* An atomic operation is one step: one locked instruction, or one that an   *)
(* interrupt cannot divide on a single processor.  Threads use them the way  *)
(* they are meant: a counter, a lock taken by exchange, a word of flags, an  *)
(* object that its last holder destroys.                                     *)
EXTENDS Integers, FiniteSets

CONSTANTS
  WordBits,        \* bits of a word
  WordThreads,     \* the threads
  Amounts,         \* what they add and subtract
  MaxHeld          \* bound on the references one thread holds

Modulus == 2 ^ WordBits
Nobody == "nobody"
Unread == -1

\* A word has room for the number of references that there can be.
ASSUME WordsAssumption ==
  /\ WordBits \in Nat \ {0} /\ Amounts \subseteq 0..Modulus - 1
  /\ IsFiniteSet(WordThreads) /\ Nobody \notin WordThreads
  /\ MaxHeld \in Nat \ {0} /\ Cardinality(WordThreads \X (1..MaxHeld)) < Modulus

VARIABLES
  counter, owed,   \* a word, and what has been added to it
  expected,        \* per thread: what it read for its compare-and-swap
  lock, marks,     \* a lock and a word of flags, one per thread
  within,          \* the step of each thread about the lock
  references, held,      \* a reference count, and the references of each thread
  destroyed,       \* how often the object was destroyed
  alone,           \* the thread that found the object unshared
  words_part       \* which of these this run uses
words_vars == <<counter, owed, expected, lock, marks, within, references, held,
                destroyed, alone, words_part>>

-----------------------------------------------------------------------------
\* Mutant: the word is exchanged whatever it held.
CasAlways(p, e, n) == [word |-> n, ret |-> e]

\* Each operation: the new word and the value returned.
atomic_cas(p, e, n) == [word |-> IF p = e THEN n ELSE p, ret |-> p]
atomic_swap(p, n)  == [word |-> n, ret |-> p]
atomic_inc(p)      == (p + 1) % Modulus
atomic_dec(p)      == (p - 1) % Modulus
atomic_add(p, v)   == (p + v) % Modulus
atomic_sub(p, v)   == (p - v) % Modulus
atomic_add_nv(p, v) ==
  LET rv == p IN [word |-> (p + v) % Modulus, ret |-> (rv + v) % Modulus]
atomic_sub_nv(p, v) ==
  LET rv == p IN [word |-> (p - v) % Modulus, ret |-> (rv - v) % Modulus]
\* The words of flags are the sets of their bits.
atomic_setbits(p, b)   == p \cup b
atomic_clearbits(p, b) == p \ b

refcnt_take(r) == atomic_add(r, 1)
refcnt_rele(r) ==
  LET n == atomic_sub_nv(r, 1) IN [word |-> n.word, ret |-> n.ret = 0]
refcnt_read(r) == atomic_add_nv(r, 0).ret
refcnt_shared(r) == refcnt_read(r) > 1
\* It complains.
refcnt_finalize(r) == refcnt_read(r) # 0

-----------------------------------------------------------------------------
WordsInit ==
  /\ counter = 0 /\ owed = 0
  /\ expected = [t \in WordThreads |-> Unread]
  /\ lock = 0 /\ marks = {} /\ within = [t \in WordThreads |-> "out"]
  /\ \E t \in WordThreads :
       held = [u \in WordThreads |-> IF u = t THEN 1 ELSE 0]
  /\ references = 1 /\ destroyed = 0 /\ alone = Nobody
  /\ words_part \in {"counter", "lock", "object"}

CounterIs(word, amount) ==
  /\ words_part = "counter"
  /\ counter' = word /\ owed' = (owed + amount) % Modulus
  /\ UNCHANGED <<lock, marks, within, references, held, destroyed, alone, words_part>>

Add(v) ==
  /\ \/ CounterIs(atomic_add(counter, v), v)
     \/ CounterIs(atomic_add_nv(counter, v).word, v)
     \/ CounterIs(atomic_sub(counter, v), -v)
     \/ CounterIs(atomic_sub_nv(counter, v).word, -v)
     \/ CounterIs(atomic_inc(counter), 1)
     \/ CounterIs(atomic_dec(counter), -1)
  /\ UNCHANGED expected
\* A thread that doubles the counter reads it, then tries to exchange it.
CasRead(t) ==
  /\ expected[t] = Unread /\ CounterIs(counter, 0)
  /\ expected' = [expected EXCEPT ![t] = counter]
CasTry(t) ==
  LET e == expected[t]
      r == atomic_cas(counter, e, atomic_add(e, e))
  IN /\ e # Unread
     /\ CounterIs(r.word, IF r.ret = e THEN e ELSE 0)
     /\ expected' = [expected EXCEPT ![t] = IF r.ret = e THEN Unread ELSE r.ret]

Within(t, step, l, m) ==
  /\ words_part = "lock"
  /\ within' = [within EXCEPT ![t] = step] /\ lock' = l /\ marks' = m
  /\ UNCHANGED <<counter, owed, expected, references, held, destroyed, alone, words_part>>
TryLock(t) ==
  LET r == atomic_swap(lock, 1)
  IN within[t] = "out"
     /\ Within(t, IF r.ret = 0 THEN "locked" ELSE "out", r.word, marks)
Mark(t) == /\ within[t] = "locked"
           /\ Within(t, "marked", lock, atomic_setbits(marks, {t}))
Unmark(t) == /\ within[t] = "marked"
             /\ Within(t, "leaving", lock, atomic_clearbits(marks, {t}))
Unlock(t) == /\ within[t] = "leaving"
             /\ Within(t, "out", atomic_swap(lock, 0).word, marks)

Object(r, h, d, a) ==
  /\ words_part = "object"
  /\ references' = r /\ held' = h /\ destroyed' = d /\ alone' = a
  /\ UNCHANGED <<counter, owed, expected, lock, marks, within, words_part>>
\* A holder takes a reference for a thread, or passes its own on.
Take(t, u) ==
  /\ held[t] > 0 /\ held[u] < MaxHeld
  /\ Object(refcnt_take(references), [held EXCEPT ![u] = @ + 1], destroyed,
            IF t = alone THEN Nobody ELSE alone)
Pass(t, u) ==
  /\ t # u /\ held[t] > 0 /\ held[u] < MaxHeld
  /\ Object(references, [held EXCEPT ![t] = @ - 1, ![u] = @ + 1], destroyed,
            IF t = alone THEN Nobody ELSE alone)
Release(t) ==
  LET r == refcnt_rele(references)
  IN /\ held[t] > 0
     /\ Object(r.word, [held EXCEPT ![t] = @ - 1],
               IF r.ret THEN destroyed + 1 ELSE destroyed,
               IF t = alone THEN Nobody ELSE alone)
AskShared(t) ==
  /\ held[t] > 0 /\ ~refcnt_shared(references)
  /\ Object(references, held, destroyed, t)

WordsNext ==
  \/ \E v \in Amounts : Add(v)
  \/ \E t \in WordThreads :
       \/ CasRead(t) \/ CasTry(t)
       \/ TryLock(t) \/ Mark(t) \/ Unmark(t) \/ Unlock(t)
       \/ Release(t) \/ AskShared(t)
       \/ \E u \in WordThreads : Take(t, u) \/ Pass(t, u)
WordsSpec == WordsInit /\ [][WordsNext]_words_vars

-----------------------------------------------------------------------------
\* The references that are held, numbered for each thread.
HeldReferences == {r \in WordThreads \X (1..MaxHeld) : r[2] <= held[r[1]]}

\* However the threads' operations interleave, nothing added to the counter
\* is lost; one thread at a time is past a lock taken by exchange, and only
\* its flag is set; the reference count is the number of references that are
\* held, the object is destroyed when its last holder releases it, once,
\* before which refcnt_finalize would complain, and a thread that finds it
\* unshared is its only holder until it shares it itself.  (atomic.h; refcnt.c.)
WordsAgree ==
  /\ counter = owed
  /\ \A t \in WordThreads : within[t] # "out" =>
       /\ \A u \in WordThreads \ {t} : within[u] = "out"
       /\ marks = IF within[t] = "marked" THEN {t} ELSE {}
  /\ destroyed = IF \A t \in WordThreads : held[t] = 0 THEN 1 ELSE 0
  /\ refcnt_read(references) = Cardinality(HeldReferences)
  /\ refcnt_finalize(references) <=> destroyed = 0
  /\ alone # Nobody => \A t \in WordThreads \ {alone} : held[t] = 0
=============================================================================
