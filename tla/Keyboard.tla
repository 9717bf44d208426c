------------------------------ MODULE Keyboard ------------------------------
(***************************************************************************)
(* dev/keyboard/keyboard.c: polling for scancodes, the modifiers and locks *)
(* and the LED command, in which the driver waits for an acknowledgement   *)
(* among the scancodes.  The controller's queue and the keyboard are       *)
(* external.  A key sends its scancode, behind E0 for an extended one; the *)
(* keyboard answers ED and the byte that follows with FA.                  *)
(*                                                                         *)
(* History variables: disturbed, a byte was thrown away or the driver gave *)
(* up waiting; lost, the shift keys whose last scancode was thrown away;   *)
(* typed, the last character with the one that the keys stood for when it  *)
(* was typed, until the first disturbance.                                 *)
(***************************************************************************)
EXTENDS Integers, Sequences, FiniteSets

CONSTANTS
  Keys,        \* bound: the keys in use, out of DOMAIN Code
  MaxWire      \* bound: bytes the controller holds

Code ==
  [LShift |-> "2A", RShift |-> "36", LCtrl |-> "1D", RCtrl |-> "1D", LAlt |-> "38", RAlt |-> "38",
   Caps |-> "3A", Num |-> "45", Scroll |-> "46", A |-> "1E", One |-> "02", Esc |-> "01"]
ExtendedKeys == {"RCtrl", "RAlt"}
Locks == {"3A", "45", "46"}
Shifts == {"LShift", "RShift"}
Modifiers == Shifts \cup {"LCtrl", "RCtrl", "LAlt", "RAlt"}

ASSUME KeyboardAssumption == Keys \subseteq DOMAIN Code /\ MaxWire \in Nat

VARIABLES
  held,          \* keys that are down
  caps_typed,    \* the lock that the user sees: presses of the key, modulo 2
  wire,          \* queue of the controller: [code, up, want]
  to_device,     \* the byte the keyboard has not answered yet, or "none"
  device_leds,
  kb_down,       \* the *_pressed flags of kb_state, as a set of modifiers
  kb_locks,      \* caps_lock, num_lock and scroll_lock, as a set of codes
  extended_scancode,
  kb_mode,       \* where the driver is: "poll", or waiting in kb_set_leds
  typed, disturbed, lost

keyboard_vars ==
  <<held, caps_typed, wire, to_device, device_leds, kb_down, kb_locks, extended_scancode, kb_mode, typed, disturbed, lost>>
DriverVars == <<device_leds, kb_down, kb_locks, extended_scancode, kb_mode, typed, disturbed, lost>>

Byte(code, up, want) == [code |-> code, up |-> up, want |-> want]
NoChar == "nul"

\* What kb_init leaves: num_lock, and the LED command under way.
KeyboardInit ==
  /\ held = {} /\ caps_typed = FALSE /\ wire = <<>> /\ to_device = "none" /\ device_leds = {}
  /\ kb_down = {} /\ kb_locks = {"45"} /\ extended_scancode = FALSE /\ kb_mode = "command"
  /\ typed = [got |-> NoChar, want |-> NoChar] /\ disturbed = FALSE /\ lost = {}

-----------------------------------------------------------------------------
(* The keyboard. *)

\* The characters of a key: plain and shifted; caps lock shifts letters only.
Char(code, shift, caps) ==
  CASE code = "1E" -> IF shift # caps THEN "A" ELSE "a"
    [] code = "02" -> IF shift THEN "!" ELSE "1"
    [] code = "01" -> "esc"
    [] OTHER -> NoChar

Sent(key, up) ==
  (IF key \in ExtendedKeys THEN <<Byte("E0", FALSE, NoChar)>> ELSE <<>>)
  \o <<Byte(Code[key], up, IF disturbed THEN NoChar ELSE Char(Code[key], held \cap Shifts # {}, caps_typed))>>

Press(key) ==
  /\ key \notin held /\ Len(wire) < MaxWire
  /\ held' = held \cup {key} /\ wire' = wire \o Sent(key, FALSE)
  /\ caps_typed' = (~disturbed /\ caps_typed # (key = "Caps"))
  /\ UNCHANGED <<DriverVars, to_device>>

Release(key) ==
  /\ key \in held /\ Len(wire) < MaxWire
  /\ held' = held \ {key} /\ wire' = wire \o Sent(key, TRUE)
  /\ UNCHANGED <<DriverVars, to_device, caps_typed>>

Acknowledge ==
  /\ to_device # "none" /\ to_device' = "none"
  /\ wire' = Append(wire, Byte("FA", FALSE, NoChar))
  /\ UNCHANGED <<DriverVars, held, caps_typed>>

-----------------------------------------------------------------------------
(* kb_getchar. *)

\* The key that the code means to the driver; the shift keys ignore E0.
Meant(code, extended) ==
  CASE code = "2A" -> {"LShift"}
    [] code = "36" -> {"RShift"}
    [] code = "1D" -> IF extended THEN {"RCtrl"} ELSE {"LCtrl"}
    [] code = "38" -> IF extended THEN {"RAlt"} ELSE {"LAlt"}
    [] OTHER -> {}

Released(code) == kb_down \ Meant(code, extended_scancode)

\* FA outside of kb_set_leds looks like a release of no key.
handle_key_release(b) ==
  /\ b.up \/ b.code = "FA"
  /\ kb_down' = Released(b.code) /\ extended_scancode' = FALSE
  /\ UNCHANGED <<kb_locks, kb_mode, typed>>

Toggled(set, code) == IF code \in set THEN set \ {code} ELSE set \cup {code}

handle_key_press(b) ==
  /\ ~b.up /\ b.code \notin {"E0", "FA"}
  /\ kb_down' = kb_down \cup Meant(b.code, extended_scancode)
  /\ extended_scancode' = FALSE
  /\ kb_locks' = IF b.code \in Locks THEN Toggled(kb_locks, b.code) ELSE kb_locks
  /\ kb_mode' = IF b.code \in Locks THEN "command" ELSE "poll"
  /\ LET c == Char(b.code, kb_down' \cap Shifts # {}, "3A" \in kb_locks')
     IN typed' = IF c = NoChar \/ disturbed THEN typed ELSE [got |-> c, want |-> b.want]

PrefixByte(b) ==
  /\ b.code = "E0" /\ extended_scancode' = TRUE
  /\ UNCHANGED <<kb_down, kb_locks, kb_mode, typed>>

Taken == wire # <<>> /\ wire' = Tail(wire) /\ UNCHANGED <<held, caps_typed, to_device>>

kb_getchar ==
  /\ kb_mode = "poll" /\ Taken
  /\ PrefixByte(Head(wire)) \/ handle_key_release(Head(wire)) \/ handle_key_press(Head(wire))
  /\ lost' = lost \ Meant(Head(wire).code, FALSE)
  /\ UNCHANGED <<device_leds, disturbed>>

\* A byte that nothing looks at.
ThrownAway(b) ==
  /\ disturbed' = TRUE
  /\ lost' = lost \cup (Meant(b.code, FALSE) \cap Shifts)

\* yes(1) looks whether the next scancode is that of escape, which is gone then as any other.
kb_check_escape ==
  /\ kb_mode = "poll" /\ Taken /\ ThrownAway(Head(wire))
  /\ UNCHANGED <<device_leds, kb_down, kb_locks, extended_scancode, kb_mode, typed>>

-----------------------------------------------------------------------------
(* kb_set_leds: ED, its acknowledgement, the LEDs, theirs. *)

Waiting(mode) ==
  /\ kb_mode = mode
  /\ UNCHANGED <<held, caps_typed, kb_down, extended_scancode, typed>>

SendCommand ==
  /\ Waiting("command") /\ to_device = "none" /\ to_device' = "ED" /\ kb_mode' = "ack"
  /\ UNCHANGED <<wire, device_leds, kb_locks, disturbed, lost>>
SendLeds ==
  /\ Waiting("leds") /\ to_device = "none" /\ to_device' = "leds" /\ device_leds' = kb_locks /\ kb_mode' = "ack2"
  /\ UNCHANGED <<wire, kb_locks, disturbed, lost>>

\* Mutant: the first byte is taken for the acknowledgement.
AnyByteAcknowledges(mode, next) ==
  /\ Waiting(mode) /\ wire # <<>> /\ wire' = Tail(wire)
  /\ kb_mode' = next /\ UNCHANGED <<to_device, device_leds, kb_locks, disturbed, lost>>

\* Every byte but FA is thrown away.
wait_for_ack(mode, next) ==
  /\ Waiting(mode) /\ wire # <<>> /\ wire' = Tail(wire)
  /\ UNCHANGED <<to_device, device_leds, kb_locks>>
  /\ \/ Head(wire).code = "FA" /\ kb_mode' = next /\ UNCHANGED <<disturbed, lost>>
     \/ Head(wire).code # "FA" /\ UNCHANGED kb_mode /\ ThrownAway(Head(wire))

\* The retries are used up, of any of the four waits.
GiveUpWaiting ==
  \E mode \in {"command", "ack", "leds", "ack2"} :
    /\ Waiting(mode) /\ kb_mode' = "poll" /\ disturbed' = TRUE
    /\ UNCHANGED <<wire, to_device, device_leds, kb_locks, lost>>

KeyboardNext ==
  \/ \E key \in Keys : Press(key) \/ Release(key)
  \/ Acknowledge \/ kb_getchar \/ kb_check_escape \/ SendCommand \/ SendLeds
  \/ wait_for_ack("ack", "leds") \/ wait_for_ack("ack2", "poll") \/ GiveUpWaiting
KeyboardSpec == KeyboardInit /\ [][KeyboardNext]_keyboard_vars

-----------------------------------------------------------------------------
(* Properties. *)

\* When the driver has caught up, a shift key is down for it exactly if it is down, unless the key's last
\* scancode was thrown away: nothing else makes a shift stick.  And while nothing at all was thrown
\* away, the characters are those of the keys that were down and of the lock when they were typed,
\* however far the driver lags behind, all modifiers are right and the LEDs show the locks
\* (keyboard.c:87-212).
KeysAreTracked ==
  LET caught_up == wire = <<>> /\ kb_mode = "poll"
  IN /\ caught_up => \A key \in Shifts \ lost : key \in kb_down <=> key \in held
     /\ ~disturbed =>
          /\ typed.got = typed.want
          /\ caught_up =>
               /\ kb_down = held \cap Modifiers
               /\ device_leds = kb_locks /\ caps_typed = ("3A" \in kb_locks)
=============================================================================
