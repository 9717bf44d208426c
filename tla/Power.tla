-------------------------------- MODULE Power -------------------------------
(* bin/shutdown.c and bin/reboot.c: the commands try one method after        *)
(* another to switch the machine off or to reset it.  Which ports the        *)
(* machine honours is unknown to them; the machine is part of the model.     *)
EXTENDS Integers, Sequences, FiniteSets

CONSTANT KbTries     \* how often shutdown -f asks the keyboard controller
CONSTANT ResetTries  \* how often reboot does

ASSUME PowerAssumption == KbTries \in Nat \ {0} /\ ResetTries \in Nat \ {0}

VARIABLES
  power,      \* the command, what it still writes, its stage and its timeout
  machine,    \* on, off, reset or halted
  interrupts, \* whether they are enabled
  tried,      \* the methods tried
  honoured    \* the ports that the machine honours
power_vars == <<power, machine, interrupts, tried, honoured>>

\* The words written, in order.
VboxPorts == <<"4004", "604:2000", "B004">>     \* try_vbox_shutdown
QemuPorts == <<"501", "604:3400">>              \* try_qemu_shutdown
RebootPorts == <<"4004", "CF9">>                \* try_vbox_reboot, try_pci_reset
KbReset == "64:FE"                              \* the controller's reset line
\* What a port does that is honoured.
Effect(port) == IF port \in {KbReset, "CF9"} THEN "reset"
                ELSE IF port = "4004" /\ power.command = "reboot" THEN "reset"
                ELSE "off"
Written(s) == {s[i] : i \in DOMAIN s}

PowerInit ==
  /\ \E command \in {"shutdown", "shutdown -f", "reboot"} :
       power = [command |-> command, stage |-> "ports", timeout |-> 0,
                todo |-> CASE command = "shutdown" -> VboxPorts
                           [] command = "shutdown -f" -> VboxPorts \o QemuPorts
                           [] command = "reboot" -> RebootPorts]
  /\ machine = "on" /\ interrupts = TRUE /\ tried = {}
  /\ honoured \in SUBSET (Written(VboxPorts \o QemuPorts \o RebootPorts)
                            \cup {KbReset})

\* A word is written and the delay waited out.
Write_(port) ==
  /\ machine' = IF port \in honoured THEN Effect(port) ELSE machine
  /\ tried' = tried \cup {port}

WritePort ==
  /\ machine = "on" /\ power.stage = "ports" /\ power.todo # <<>>
  /\ Write_(Head(power.todo))
  /\ power' = [power EXCEPT !.todo = Tail(@)]
  /\ UNCHANGED <<interrupts, honoured>>

\* try_halt_shutdown: without -f the machine stops here.
HaltShutdown ==
  /\ machine = "on" /\ power.stage = "ports" /\ power.todo = <<>>
  /\ power.command = "shutdown"
  /\ interrupts' = FALSE /\ machine' = "halted"
  /\ power' = [power EXCEPT !.stage = "halted"]
  /\ UNCHANGED <<tried, honoured>>

\* cli, before the keyboard controller is asked: system_fallback_reset of
\* shutdown, try_8042_reset of reboot.
AskController ==
  /\ machine = "on" /\ power.stage = "ports" /\ power.todo = <<>>
  /\ power.command # "shutdown"
  /\ interrupts' = FALSE
  /\ power' = [power EXCEPT !.stage = "asking",
                 !.timeout = IF power.command = "reboot" THEN ResetTries
                             ELSE KbTries]
  /\ UNCHANGED <<machine, tried, honoured>>

\* try_keyboard_reset of shutdown: the counter is lowered before the status
\* is read, and a controller that is ready at the last reading is given up.
PollShutdown(busy) ==
  LET timeout == power.timeout - 1
  IN IF power.timeout <= 0 THEN [stage |-> "fault", timeout |-> timeout]
     ELSE IF busy THEN [stage |-> "asking", timeout |-> timeout]
     ELSE [stage |-> IF timeout <= 0 THEN "fault" ELSE "ready",
           timeout |-> timeout]
\* try_8042_reset of reboot: the counter is lowered after each reading.
PollReboot(busy) ==
  LET timeout == power.timeout - 1
  IN [stage |-> IF timeout = 0 THEN "timeout" ELSE IF busy THEN "asking"
                ELSE "ready", timeout |-> timeout]
Poll(busy) ==
  /\ machine = "on" /\ power.stage = "asking"
  /\ LET p == IF power.command = "reboot" THEN PollReboot(busy)
              ELSE PollShutdown(busy)
     IN power' = [power EXCEPT !.stage = p.stage, !.timeout = p.timeout]
  /\ UNCHANGED <<machine, interrupts, tried, honoured>>

\* The reset command, the wait, and for reboot sti.
ResetController ==
  /\ machine = "on" /\ power.stage = "ready"
  /\ Write_(KbReset)
  /\ power' = [power EXCEPT !.stage = "fault"]
  /\ interrupts' = (power.command = "reboot" /\ KbReset \notin honoured)
  /\ UNCHANGED honoured

\* Mutant: the early return does not enable interrupts again.
GiveUpControllerOff ==
  /\ machine = "on" /\ power.stage = "timeout"
  /\ power' = [power EXCEPT !.stage = "fault"]
  /\ UNCHANGED <<machine, interrupts, tried, honoured>>

GiveUpController ==
  /\ machine = "on" /\ power.stage = "timeout"
  /\ interrupts' = TRUE
  /\ power' = [power EXCEPT !.stage = "fault"]
  /\ UNCHANGED <<machine, tried, honoured>>

\* system_fallback_reset: the empty interrupt table and an interrupt.
TripleFault ==
  /\ machine = "on" /\ power.stage = "fault"
  /\ interrupts' = FALSE /\ machine' = "reset"
  /\ power' = [power EXCEPT !.stage = "faulted"]
  /\ UNCHANGED <<tried, honoured>>

PowerNext ==
  \/ WritePort \/ HaltShutdown \/ AskController \/ ResetController
  \/ GiveUpController \/ TripleFault
  \/ \E busy \in BOOLEAN : Poll(busy)
PowerSpec == PowerInit /\ [][PowerNext]_power_vars

-----------------------------------------------------------------------------
\* A machine that honours a port goes off or is reset by the first such port
\* of its command, and by a triple fault only when it honours none that was
\* written; without -f shutdown halts it, with interrupts off, and never
\* resets it; interrupts are off only while the controller is being asked,
\* from then on for shutdown, and in the end.  (shutdown.c; reboot.c.)
LastResort ==
  /\ power.stage = "faulted" => tried \cap honoured = {}
  /\ machine = "on" => tried \cap honoured = {}
  /\ power.command = "shutdown" => machine # "reset" /\ (machine = "halted" =>
       /\ ~interrupts /\ tried = Written(VboxPorts))
  /\ (power.command = "reboot" /\ power.stage \in {"ports", "fault"}
        /\ machine = "on") => interrupts
=============================================================================
