------------------------------- MODULE PcLock -------------------------------
(***************************************************************************)
(* The producer/consumer lock, kern/pclock.c.  A consumer reads what it    *)
(* wants between pc_cons_enter and pc_cons_leave, and keeps it when        *)
(* pc_cons_leave answers 0: then the generation is the one it started      *)
(* with.  Producers come in two kinds: a single one that locks nothing     *)
(* out, and several that exclude each other with a compare-and-swap.       *)
(*                                                                         *)
(* A step is one access to pcl_gen.  Nothing in the repository uses the    *)
(* lock yet: the threads here call its functions in the order in which     *)
(* sys/pclock.h groups them, any number of times.                          *)
(*                                                                         *)
(* History variables: seen[c] counts the writes of pcl_gen while consumer  *)
(* c read, up to Generations; lost says that a producer that left had      *)
(* entered with another generation than the one it overwrote.              *)
(***************************************************************************)
EXTENDS Integers, FiniteSets

CONSTANTS
  SingleProducers,  \* threads that use pc_sprod_enter and pc_sprod_leave
  MultiProducers,   \* threads that use pc_mprod_enter and pc_mprod_leave
  Consumers,
  Generations       \* number of values of an unsigned int (2^32)

ASSUME PcLockAssumption ==
  /\ Generations \in Nat \ {0} /\ Generations % 2 = 0
  /\ SingleProducers \cap MultiProducers = {}
  /\ (SingleProducers \cup MultiProducers) \cap Consumers = {}

VARIABLES
  pcl_gen,
  pc,      \* where a thread is
  gen,     \* what it read: gen, gen1 or *pgen
  seen,
  lost

pc_lock_vars == <<pcl_gen, pc, gen, seen, lost>>

Producers == SingleProducers \cup MultiProducers
Threads == Producers \cup Consumers
Values == 0 .. Generations - 1
Next1(g) == (g + 1) % Generations
Even(g) == g % 2 = 0

\* pc_lock_init
PcLockInit ==
  /\ pcl_gen = 0
  /\ pc = [t \in Threads |-> "out"]
  /\ gen = [t \in Threads |-> 0]
  /\ seen = [c \in Consumers |-> 0]
  /\ lost = FALSE

Goto(t, label) == pc' = [pc EXCEPT ![t] = label]
Load(t) == gen' = [gen EXCEPT ![t] = pcl_gen] /\ UNCHANGED <<pcl_gen, seen, lost>>

Store(g) ==
  /\ pcl_gen' = g
  /\ seen' = [c \in Consumers |->
       IF pc[c] = "reading" /\ seen[c] < Generations THEN seen[c] + 1 ELSE seen[c]]

\* Both leave functions write the generation after the one the caller passes them.
Leave(p) ==
  /\ Store(Next1(gen[p]))
  /\ lost' = (lost \/ pcl_gen # gen[p])
  /\ Goto(p, "out")
  /\ UNCHANGED gen

-----------------------------------------------------------------------------
(* Producers.                                                              *)

SprodEnter(p) == p \in SingleProducers /\ pc[p] = "out" /\ Goto(p, "in") /\ Load(p)
SprodLeave(p) == p \in SingleProducers /\ pc[p] = "in" /\ Leave(p)

MprodCall(p) ==
  /\ p \in MultiProducers /\ pc[p] = "out"
  /\ Goto(p, "entering")
  /\ UNCHANGED <<pcl_gen, gen, seen, lost>>

\* One turn of the loop up to the compare-and-swap.
MprodRead(p) ==
  /\ pc[p] = "entering"
  /\ Load(p)
  /\ Goto(p, IF Even(pcl_gen) THEN "cas" ELSE "entering")

\* The function takes the old value, which atomic_cas_uint answers, for a truth value.
MprodCas(p) ==
  /\ pc[p] = "cas"
  /\ IF pcl_gen = gen[p] THEN Store(Next1(gen[p])) ELSE UNCHANGED <<pcl_gen, seen>>
  /\ IF pcl_gen # 0
     THEN Goto(p, "in") /\ gen' = [gen EXCEPT ![p] = Next1(@)]
     ELSE Goto(p, "entering") /\ UNCHANGED gen
  /\ UNCHANGED lost

MprodLeave(p) == p \in MultiProducers /\ pc[p] = "in" /\ Leave(p)

-----------------------------------------------------------------------------
(* Consumers.                                                              *)

ConsCall(c) ==
  /\ c \in Consumers /\ pc[c] \in {"out", "accepted"}
  /\ Goto(c, "first")
  /\ UNCHANGED <<pcl_gen, gen, seen, lost>>

ConsFirst(c) ==
  /\ pc[c] = "first"
  /\ Load(c)
  /\ Goto(c, IF Even(pcl_gen) THEN "second" ELSE "first")

ConsSecond(c) ==
  /\ pc[c] = "second"
  /\ IF pcl_gen = gen[c]
     THEN Goto(c, "reading") /\ seen' = [seen EXCEPT ![c] = 0]
     ELSE Goto(c, "first") /\ UNCHANGED seen
  /\ UNCHANGED <<pcl_gen, gen, lost>>

\* Mutants: the generation is not compared; the one a retry starts with is not stored.
ConsLeaveAlways(c) ==
  /\ pc[c] = "reading"
  /\ Goto(c, "accepted")
  /\ UNCHANGED <<pcl_gen, gen, seen, lost>>
ConsLeaveStale(c) ==
  /\ pc[c] = "reading"
  /\ IF pcl_gen = gen[c]
     THEN Goto(c, "accepted") /\ UNCHANGED seen
     ELSE seen' = [seen EXCEPT ![c] = 0] /\ UNCHANGED pc
  /\ UNCHANGED <<pcl_gen, gen, lost>>

\* A consumer that is told the generation changed reads again, and asks again, with the
\* generation that pc_cons_leave stored.
ConsLeave(c) ==
  /\ pc[c] = "reading"
  /\ IF pcl_gen = gen[c]
     THEN Goto(c, "accepted") /\ UNCHANGED <<gen, seen>>
     ELSE /\ gen' = [gen EXCEPT ![c] = pcl_gen]
          /\ seen' = [seen EXCEPT ![c] = 0]
          /\ UNCHANGED pc
  /\ UNCHANGED <<pcl_gen, lost>>

-----------------------------------------------------------------------------
Step(t) ==
  \/ SprodLeave(t) \/ MprodRead(t) \/ MprodCas(t) \/ MprodLeave(t)
  \/ ConsFirst(t) \/ ConsSecond(t) \/ ConsLeave(t)

Call(t) == SprodEnter(t) \/ MprodCall(t) \/ ConsCall(t)

PcLockNext == \E t \in Threads : Step(t) \/ Call(t)

PcLockSpec == PcLockInit /\ [][PcLockNext]_pc_lock_vars

-----------------------------------------------------------------------------
(* Properties.                                                             *)

Labels == {"out", "in", "entering", "cas", "first", "second", "reading", "accepted"}

\* Types; a producer that is about to swap and a consumer about to confirm hold an even
\* generation (pclock.c:31, 49).
PcLockTypeOK ==
  /\ pcl_gen \in Values
  /\ pc \in [Threads -> Labels]
  /\ gen \in [Threads -> Values]
  /\ seen \in [Consumers -> 0 .. Generations]
  /\ lost \in BOOLEAN
  /\ \A t \in Threads :
       /\ pc[t] \in {"in"} => t \in Producers
       /\ pc[t] \in {"entering", "cas"} => t \in MultiProducers
       /\ pc[t] \in {"first", "second", "reading", "accepted"} => t \in Consumers
       /\ pc[t] \in {"cas", "second"} => Even(gen[t])

\* What a consumer keeps was read while no producer wrote the generation, unless all
\* its values went by, and unless producers that do not exclude each other overwrote
\* each other's generation (pclock.c:60-70).
AcceptedSawNoWrite ==
  \A c \in Consumers :
    pc[c] = "accepted" /\ ~lost /\ seen[c] < Generations => seen[c] = 0

\* The generation a consumer holds is behind the lock's by the writes it has seen: this is
\* why pc_cons_leave can compare generations instead of counting.
ReaderKeepsCount ==
  ~lost => \A c \in Consumers :
    pc[c] = "reading" /\ seen[c] < Generations =>
      pcl_gen = (gen[c] + seen[c]) % Generations

\* A consumer's loop around pc_cons_leave ends once no producer writes any more.
RetryEnds ==
  \A c \in Consumers :
    <>[][FALSE]_pcl_gen => [](pc[c] = "reading" => <>(pc[c] = "accepted"))

\* Of several producers at most one is in its section (sys/pclock.h:43).
MutualExclusion ==
  \A p, q \in MultiProducers : pc[p] = "in" /\ pc[q] = "in" => p = q
=============================================================================
