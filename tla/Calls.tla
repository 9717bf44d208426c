-------------------------------- MODULE Calls --------------------------------
(***************************************************************************)
(* The calls with which a program changes what it does not hold itself:    *)
(* the text on the screen (Shell and its Vga), the bytes of its memory     *)
(* (Strings) and the settings of its terminal (Termios).                   *)
(***************************************************************************)
EXTENDS Shell, Strings, Termios

\* A call changes what it is asked to change and nothing else: text moves on the screen as
\* characters are put, overlapping memory moves whole, terminal settings arrive together
\* (vga.c, string.c, termios.c).
CallsChangeOnlyTheirs == TextFollows /\ MovedIntact /\ SettingsFollow
=============================================================================
