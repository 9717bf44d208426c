-------------------------------- MODULE Process --------------------------------
(***************************************************************************)
(* usr/sbin/process/process.c: the process table.  next_pid is an int that *)
(* only grows; the bound NextPidLimit keeps it far from wrapping.  A name  *)
(* is a sequence of characters, cut to MAX_PROCESS_NAME - 1 when stored.   *)
(***************************************************************************)
EXTENDS SequencesExt, Integers

CONSTANTS
  MAX_PROCESSES, MAX_PROCESS_NAME,
  ProcessNames,      \* bound: names given to process_create
  NextPidLimit       \* bound: processes are created while next_pid is below it

ASSUME ProcessAssumption == MAX_PROCESSES \in Nat \ {0} /\ MAX_PROCESS_NAME \in Nat \ {0}

VARIABLES
  process_table, next_pid,
  process_ret,       \* what the last call returned
  living             \* history: the processes created and not cleaned up, with their names

process_vars == <<process_table, next_pid, process_ret, living>>

ProcessSlots == 0 .. MAX_PROCESSES - 1
FirstPid == 100
Parents == {0, 1}    \* the boot code creates init with parent 0 and shell with 1, init.c:133-134
Unused == [used |-> FALSE, pid |-> 0, name |-> <<>>, state |-> "unused", ppid |-> 0]

ProcessInit ==
  /\ process_table = [i \in ProcessSlots |-> Unused]
  /\ next_pid = FirstPid /\ process_ret = 0 /\ living = {}

LeastSlot(S) == CHOOSE i \in S : \A j \in S : i <= j
FreeSlots == {i \in ProcessSlots : ~process_table[i].used}
SlotsOf(pid) == {i \in ProcessSlots : process_table[i].used /\ process_table[i].pid = pid}
Stored(name) == SubSeq(name, 1, IF Len(name) < MAX_PROCESS_NAME THEN Len(name) ELSE MAX_PROCESS_NAME - 1)

\* process_init marks every slot unused and keeps the rest of it, and next_pid.
process_init ==
  /\ process_table' = [i \in ProcessSlots |-> [process_table[i] EXCEPT !.used = FALSE, !.state = "unused"]]
  /\ living' = {}
  /\ UNCHANGED <<next_pid, process_ret>>

process_create(name, ppid) ==
  /\ next_pid < NextPidLimit
  /\ IF FreeSlots = {}
     THEN process_ret' = -1 /\ UNCHANGED <<process_table, next_pid, living>>
     ELSE /\ process_table' = [process_table EXCEPT ![LeastSlot(FreeSlots)] =
               [used |-> TRUE, pid |-> next_pid, name |-> Stored(name), state |-> "running", ppid |-> ppid]]
          /\ process_ret' = next_pid /\ next_pid' = next_pid + 1
          /\ living' = living \union {[pid |-> next_pid, name |-> name, zombie |-> FALSE]}

process_kill(pid) ==
  /\ IF SlotsOf(pid) = {}
     THEN process_ret' = -1 /\ UNCHANGED <<process_table, living>>
     ELSE /\ process_table' = [process_table EXCEPT ![LeastSlot(SlotsOf(pid))].state = "zombie"]
          /\ process_ret' = 0
          /\ living' = {[p EXCEPT !.zombie = @ \/ p.pid = pid] : p \in living}
  /\ UNCHANGED next_pid

\* Mutant: a process that was not killed is cleaned up too.
CleanupRunning(pid) == SlotsOf(pid)

\* The slots process_cleanup may reset.
Zombies(pid) == {i \in SlotsOf(pid) : process_table[i].state = "zombie"}

process_cleanup(pid) ==
  /\ IF Zombies(pid) = {}
     THEN process_ret' = -1 /\ UNCHANGED <<process_table, living>>
     ELSE /\ process_table' = [process_table EXCEPT ![LeastSlot(Zombies(pid))] = Unused]
          /\ process_ret' = 0
          /\ living' = {p \in living : ~(p.pid = pid /\ p.zombie)}
  /\ UNCHANGED next_pid

\* process_find: the pid in the first slot with that stored name, or -1.
process_find(name) ==
  LET named == {i \in ProcessSlots : process_table[i].used /\ process_table[i].name = name}
  IN IF named = {} THEN -1 ELSE process_table[LeastSlot(named)].pid

process_count == Cardinality({i \in ProcessSlots : process_table[i].used})

ProcessNext ==
  \/ process_init
  \/ \E name \in ProcessNames, ppid \in Parents : process_create(name, ppid)
  \/ \E pid \in FirstPid .. NextPidLimit : process_kill(pid) \/ process_cleanup(pid)

ProcessSpec == ProcessInit /\ [][ProcessNext]_process_vars

--------------------------------------------------------------------------------
\* Every process that was created is in the table, once, in its state, until it
\* is killed and cleaned up, and is found by its name if the name was stored
\* whole; slots that are used again never bring an old process back
\* (process.c:9-93).
ProcessesAreKept ==
  /\ process_count = Cardinality(living)
  /\ \A p \in living :
       /\ \E i \in SlotsOf(p.pid) : process_table[i].name = Stored(p.name)
                                   /\ process_table[i].state = IF p.zombie THEN "zombie" ELSE "running"
       /\ Cardinality(SlotsOf(p.pid)) = 1
       /\ p.name = Stored(p.name) =>
            \E q \in living : q.pid = process_find(p.name) /\ Stored(q.name) = p.name
================================================================================
