------------------------------ MODULE MCKernel ------------------------------
(***************************************************************************)
(* The parts of the kernel that do not call each other, side by side: a    *)
(* behaviour runs one of them, chosen at the start, while the others stay  *)
(* in one of their initial states (the two searches: in a final one).      *)
(***************************************************************************)
EXTENDS PcLock, PmmScan, VmmScan, Srp, Process, Paging, Words, Power, Cpu, Time, Resources

CONSTANTS s1, m1, m2, c1

VARIABLE part

KernelParts ==
  {"lock", "pmm scan", "vmm scan", "srp", "processes", "paging", "words", "power", "cpu",
   "time", "resources"}

\* Names of up to one character more than the table stores.
MCProcessNames == {<<"a">>, <<"a", "b">>, <<"a", "b", "c">>}

\* Every pair of bits in one of the two words, the other one clear.
MCCpuidWords ==
  LET pairs == {{a, b} : a, b \in 0 .. 31}
  IN {<<w, {}>> : w \in pairs} \cup {<<{}, w>> : w \in pairs}
MCBootCr0 == {EM, 4}

\* Both sides of a minute, an hour, a day, a month, a year and two.
MCTimes ==
  {0} \cup UNION {{b - 1, b, b + 1} :
                    b \in {60, 3600, 86400, 2678400, 32140800, 64281600, 2000000000}}
MCSleepTimes == (0 .. 6) \X (0 .. 1)

PmmScanIdle ==
  /\ pages = 1 /\ bitmap = {} /\ count = 1
  /\ pmm_i = 0 /\ consecutive = 1 /\ start_page = 0
  /\ pmm_done = TRUE /\ pmm_result = {0}

VmmScanIdle ==
  /\ state = [p \in Pages |-> "FREE"] /\ pages_needed = 1 /\ aligned = Pages
  /\ vmm_i = 0 /\ vmm_done = TRUE /\ vmm_result = {0}

WordsIdle ==
  /\ counter = 0 /\ owed = 0
  /\ expected = [t \in WordThreads |-> Unread]
  /\ lock = 0 /\ marks = {} /\ within = [t \in WordThreads |-> "out"]
  /\ LET first == CHOOSE t \in WordThreads : TRUE
     IN held = [u \in WordThreads |-> IF u = first THEN 1 ELSE 0]
  /\ references = 1 /\ destroyed = 0 /\ alone = Nobody
  /\ words_part = "counter"

PowerIdle ==
  /\ power = [command |-> "shutdown", stage |-> "ports", timeout |-> 0, todo |-> VboxPorts]
  /\ machine = "on" /\ interrupts = TRUE /\ tried = {} /\ honoured = {}

CpuIdle ==
  /\ processor = [cpuid |-> FALSE, edx |-> {}, ecx |-> {}]
  /\ features = {} /\ cpu_step = "detect"
  /\ control = [cr0 |-> BootCr0, cr4 |-> BootCr4, apic |-> FALSE]

KernelInit ==
  /\ part \in KernelParts
  /\ PcLockInit /\ SrpInit /\ ProcessInit /\ PagingInit /\ TimeInit /\ ResourcesInit
  /\ IF part = "pmm scan" THEN PmmScanInit ELSE PmmScanIdle
  /\ IF part = "vmm scan" THEN VmmScanInit ELSE VmmScanIdle
  /\ IF part = "words" THEN WordsInit ELSE WordsIdle
  /\ IF part = "power" THEN PowerInit ELSE PowerIdle
  /\ IF part = "cpu" THEN CpuInit ELSE CpuIdle

OthersRest ==
  /\ UNCHANGED part
  /\ part # "lock" => UNCHANGED pc_lock_vars
  /\ part # "pmm scan" => UNCHANGED pmm_scan_vars
  /\ part # "vmm scan" => UNCHANGED vmm_scan_vars
  /\ part # "srp" => UNCHANGED srp_vars
  /\ part # "processes" => UNCHANGED process_vars
  /\ part # "paging" => UNCHANGED paging_vars
  /\ part # "words" => UNCHANGED words_vars
  /\ part # "power" => UNCHANGED power_vars
  /\ part # "cpu" => UNCHANGED cpu_vars
  /\ part # "time" => UNCHANGED time_vars
  /\ part # "resources" => UNCHANGED resources_vars

KernelNext ==
  \/ part = "lock" /\ PcLockNext /\ OthersRest
  \/ part = "pmm scan" /\ PmmScanNext /\ OthersRest
  \/ part = "vmm scan" /\ VmmScanNext /\ OthersRest
  \/ part = "srp" /\ SrpNext /\ OthersRest
  \/ part = "processes" /\ ProcessNext /\ OthersRest
  \/ part = "paging" /\ PagingNext /\ OthersRest
  \/ part = "words" /\ WordsNext /\ OthersRest
  \/ part = "power" /\ PowerNext /\ OthersRest
  \/ part = "cpu" /\ CpuNext /\ OthersRest
  \/ part = "time" /\ TimeNext /\ OthersRest
  \/ part = "resources" /\ ResourcesNext /\ OthersRest

kernel_vars ==
  <<part, pc_lock_vars, pmm_scan_vars, vmm_scan_vars, srp_vars, process_vars, paging_vars,
    words_vars, power_vars, cpu_vars, time_vars, resources_vars>>

\* Loops go on, and so does a thread inside a function of the lock.  The other threads of
\* the lock and the callers of everything else may stop at any time.
KernelSpec ==
  /\ KernelInit /\ [][KernelNext]_kernel_vars
  /\ \A t \in Threads : WF_pc_lock_vars(Step(t))
  /\ WF_pmm_scan_vars(PmmScanNext)
  /\ WF_vmm_scan_vars(VmmScanNext)
  /\ WF_power_vars(part = "power" /\ PowerNext)
  /\ WF_time_vars(LoopStep)

-----------------------------------------------------------------------------
(* Properties.                                                             *)

\* The two searches end although they jump (pmm.c:213, vmm.c:50); a wait ends whose limit
\* the counter can reach, and no other (time.c:8-12, unistd.c:148-152); a consumer that is told to
\* read again is done once no producer writes any more (pclock.c:60-70); and a machine that is
\* told to go off or to reset does not stay on, whatever its ports and its keyboard controller
\* do (shutdown.c, reboot.c).
LoopsEnd ==
  /\ PmmScanEnds /\ VmmScanEnds /\ WaitsEnd /\ RetryEnds
  /\ part = "power" => <>(machine # "on")
=============================================================================
