-------------------------------- MODULE Cpu ---------------------------------
(***************************************************************************)
(* Detection of the processor's features and what the boot enables by it:  *)
(* cpu_detect_features and the control-register routines of cpu.s,         *)
(* early_cpu_init of init.c.  A register is the set of the numbers of its  *)
(* bits that are 1.  A feature is a byte of the structure, which the C     *)
(* code reads as true when it is not 0.                                    *)
(***************************************************************************)
EXTENDS Integers, Sequences

CONSTANTS CpuidWords,  \* pairs <<edx, ecx>> that CPUID may answer
          BootCr0, BootCr4   \* the control registers when the boot starts

ASSUME CpuAssumption ==
  /\ CpuidWords \subseteq (SUBSET (0..31)) \X (SUBSET (0..31))
  /\ BootCr0 \subseteq 0..31 /\ BootCr4 \subseteq 0..31

VARIABLES processor, \* what CPUID answers; "none" when there is no CPUID
          features,  \* the features that read as true
          control,   \* cr0, cr4 and the APIC's enable bit
          cpu_step   \* the next step of early_cpu_init
cpu_vars == <<processor, features, control, cpu_step>>

\* Bits of cr0, and of cr4.
EM == 2
MP == 1
PAE == 5
OSFXSR == 9
OSXMMEXCPT == 10

\* The fields in the order in which they are stored, fpu aside.
EdxFields ==
  <<"vme", "de", "pse", "tsc", "msr", "pae", "mce", "cx8", "apic", "sep",
    "mtrr", "pge", "mca", "cmov", "pat", "pse36", "psn", "clfsh", "ds", "acpi",
    "mmx", "fxsr", "sse", "sse2", "ss", "htt", "tm", "ia64", "pbe">>
EcxFields ==
  <<"sse3", "pclmul", "dtes64", "monitor", "ds_cpl", "vmx", "smx", "est",
    "tm2", "ssse3", "cid", "sdbg", "fma", "cx16", "xtpr", "pdcm", "pcid",
    "dca", "sse4_1", "sse4_2", "x2apic", "movbe", "popcnt", "tsc_deadline",
    "aes", "xsave", "osxsave", "avx", "f16c", "rdrand">>
Fields == {EdxFields[i] : i \in DOMAIN EdxFields}
            \cup {EcxFields[i] : i \in DOMAIN EcxFields}
            \cup {"fpu", "hypervisor"}

\* The bit at which CPUID tells of a field: bits 10 and 20 of the one word and 16 of the
\* other are reserved, and bit 0 of the first tells of the fpu.
EdxBit(i) == i + (IF i >= 10 THEN 1 ELSE 0) + (IF i >= 19 THEN 1 ELSE 0)
EcxBit(i) == i - (IF i >= 17 THEN 0 ELSE 1)
PresentFeatures(edx, ecx) ==
  {EdxFields[i] : i \in {j \in DOMAIN EdxFields : EdxBit(j) \in edx}}
    \cup {EcxFields[i] : i \in {j \in DOMAIN EcxFields : EcxBit(j) \in ecx}}
    \cup (IF 0 \in edx THEN {"fpu"} ELSE {})
    \cup (IF 31 \in ecx THEN {"hypervisor"} ELSE {})

\* The fields with some bit close to their own.
Near(word, bit) == \E b \in word : b - bit \in -3 .. 7
NearFeatures(edx, ecx) ==
  {EdxFields[i] : i \in {j \in DOMAIN EdxFields : Near(edx, EdxBit(j))}}
    \cup {EcxFields[i] : i \in {j \in DOMAIN EcxFields : Near(ecx, EcxBit(j))}}

\* Mutant: the byte is masked to its lowest bit.
LowBit(word, shifts) == word \cap {shifts}

\* The low byte of a register that was shifted right that often.
LowByte(word, shifts) == {b \in word : b >= shifts /\ b <= shifts + 7}
\* Each store is followed by one shift, but none precedes vme's: what is
\* stored is a byte that starts below the field's own bit.
cpu_detect_features(edx, ecx) ==
  (IF 0 \in edx THEN {"fpu"} ELSE {})
    \cup {EdxFields[i] : i \in {j \in DOMAIN EdxFields : LowByte(edx, j - 1) # {}}}
    \cup {EcxFields[i] : i \in {j \in DOMAIN EcxFields : LowByte(ecx, j - 1) # {}}}
    \cup (IF 31 \in ecx THEN {"hypervisor"} ELSE {})

cpu_init_sse(c) == [c EXCEPT !.cr0 = (@ \ {EM}) \cup {MP},
                             !.cr4 = @ \cup {OSFXSR, OSXMMEXCPT}]
cpu_enable_sse(c) == cpu_init_sse(c)
cpu_enable_smp(c) == [c EXCEPT !.apic = TRUE]

-----------------------------------------------------------------------------
CpuInit ==
  /\ processor \in {[cpuid |-> TRUE, edx |-> w[1], ecx |-> w[2]] : w \in CpuidWords}
                   \cup {[cpuid |-> FALSE, edx |-> {}, ecx |-> {}]}
  /\ features = {} /\ cpu_step = "detect"
  /\ control = [cr0 |-> BootCr0, cr4 |-> BootCr4, apic |-> FALSE]

At_(s, next) == cpu_step = s /\ cpu_step' = next /\ UNCHANGED processor

\* Without CPUID the structure on the stack is left as it was: any bytes, of
\* which the boot reads those that it acts upon.
Detect ==
  /\ At_("detect", "sse")
  /\ IF processor.cpuid
       THEN features' = cpu_detect_features(processor.edx, processor.ecx)
       ELSE features' \in SUBSET {"sse", "sse2", "pae", "apic"}
  /\ UNCHANGED control

\* cpu_init_fpu and, when there is SSE, cpu_init_sse.
InitSse ==
  /\ At_("sse", "pae")
  /\ control' = IF "sse" \in features THEN cpu_init_sse(control) ELSE control
  /\ UNCHANGED features
SetPae ==
  /\ At_("pae", "sse2")
  /\ control' = IF "pae" \in features
                THEN [control EXCEPT !.cr4 = @ \cup {PAE}] ELSE control
  /\ UNCHANGED features
EnableSse ==
  /\ At_("sse2", "apic")
  /\ control' = IF features \cap {"sse", "sse2"} # {}
                THEN cpu_enable_sse(control) ELSE control
  /\ UNCHANGED features
EnableSmp ==
  /\ At_("apic", "booted")
  /\ control' = IF "apic" \in features THEN cpu_enable_smp(control) ELSE control
  /\ UNCHANGED features

CpuNext == Detect \/ InitSse \/ SetPae \/ EnableSse \/ EnableSmp
CpuSpec == CpuInit /\ [][CpuNext]_cpu_vars

-----------------------------------------------------------------------------
\* Although the bytes are shifted by one bit, and from the reserved bits of
\* CPUID's words on by two or three, no feature that the processor has is
\* ever reported missing: each byte reaches up to its field's own bit.  When
\* What it does not have is reported only for another bit of the word, up to three
\* places below the field's own or seven above it.  When
\* the boot is over, SSE, PAE and the APIC are enabled on a processor that has
\* them; all the bits of SSE in both control registers are set or none is
\* touched, and no bit but theirs and PAE's changes.  (cpu.s; early_cpu_init of init.c.)
PresentIsEnabled ==
  LET present == PresentFeatures(processor.edx, processor.ecx)
  IN /\ cpu_step # "detect" => present \subseteq features
     /\ cpu_step # "detect" /\ processor.cpuid =>
          features \subseteq present \cup NearFeatures(processor.edx, processor.ecx)
     /\ cpu_step = "booted" =>
          /\ present \cap {"sse", "sse2"} # {} =>
               {OSFXSR, OSXMMEXCPT} \subseteq control.cr4
          /\ "pae" \in present => PAE \in control.cr4
          /\ "apic" \in present => control.apic
     /\ \/ control.cr0 = BootCr0 /\ control.cr4 \ {PAE} = BootCr4 \ {PAE}
        \/ /\ control.cr0 = (BootCr0 \ {EM}) \cup {MP}
           /\ control.cr4 \ {PAE} = (BootCr4 \cup {OSFXSR, OSXMMEXCPT}) \ {PAE}
=============================================================================
