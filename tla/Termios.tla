------------------------------ MODULE Termios -------------------------------
(***************************************************************************)
(* The terminal calls of termios.c: a program keeps a structure of line    *)
(* settings, changes its speeds and hands it to the driver through ioctl.  *)
(* The driver is not in the repository: it does what a request asks, or    *)
(* answers -1.                                                             *)
(***************************************************************************)
EXTENDS Integers

CONSTANTS Speeds, OtherSpeeds,   \* those cfset?speed accepts; others
          Durations              \* arguments of tcsendbreak

ASSUME TermiosAssumption ==
  /\ Speeds \subseteq Nat /\ Speeds # {} /\ Speeds \cap OtherSpeeds = {}
  /\ Durations \subseteq Int

VARIABLES termios_line,       \* the program's structure
          tty,        \* the driver's settings, break and output
          line_ret    \* the last call and what it answered
termios_vars == <<termios_line, tty, line_ret>>

EINVAL == "EINVAL"
EBADF == "EBADF"
Slowest == CHOOSE s \in Speeds : \A k \in Speeds : s <= k

TermiosInit ==
  /\ termios_line = [ispeed |-> Slowest, ospeed |-> Slowest]
  /\ tty = [settings |-> termios_line, break |-> FALSE, stopped |-> FALSE,
            input |-> FALSE, output |-> FALSE]
  /\ line_ret = [call |-> "none", ret |-> 0, errno |-> "", broke |-> "no"]

\* The last call that sent a break, until it ends: it has no end of its own
\* when the duration was 0 or the clearing request failed.
Ret(call, ret, errno) ==
  line_ret' = [call |-> call, ret |-> ret, errno |-> errno,
               broke |-> line_ret.broke]

cfsetispeed(speed) ==
  /\ IF speed \in Speeds
       THEN termios_line' = [termios_line EXCEPT !.ispeed = speed] /\ Ret("cfsetispeed", 0, "")
       ELSE UNCHANGED termios_line /\ Ret("cfsetispeed", -1, EINVAL)
  /\ UNCHANGED tty

cfsetospeed(speed) ==
  /\ IF speed \in Speeds
       THEN termios_line' = [termios_line EXCEPT !.ospeed = speed] /\ Ret("cfsetospeed", 0, "")
       ELSE UNCHANGED termios_line /\ Ret("cfsetospeed", -1, EINVAL)
  /\ UNCHANGED tty
CfGetSpeed(call) ==
  /\ Ret(call, IF call = "cfgetispeed" THEN termios_line.ispeed ELSE termios_line.ospeed, "")
  /\ UNCHANGED <<termios_line, tty>>

\* A call with a bad descriptor or a NULL structure.
BadCall(call, errno) == Ret(call, -1, errno) /\ UNCHANGED <<termios_line, tty>>
\* An ioctl that fails, or does what was asked.
Ioctl(call, asked) ==
  /\ \/ tty' = asked /\ Ret(call, 0, "")
     \/ UNCHANGED tty /\ Ret(call, -1, "ioctl")
  /\ UNCHANGED termios_line

tcdrain == Ioctl("tcdrain", [tty EXCEPT !.output = FALSE])
\* action: TCOOFF, TCOON, TCIOFF, TCION.
tcflow(action) ==
  IF action \in {"TCOOFF", "TCIOFF"} THEN Ioctl("tcflow", [tty EXCEPT !.stopped = TRUE])
  ELSE IF action \in {"TCOON", "TCION"} THEN Ioctl("tcflow", [tty EXCEPT !.stopped = FALSE])
  ELSE BadCall("tcflow", EINVAL)
tcflush(queue_selector) ==
  CASE queue_selector = "TCIFLUSH" -> Ioctl("tcflush", [tty EXCEPT !.input = FALSE])
    [] queue_selector = "TCOFLUSH" -> Ioctl("tcflush", [tty EXCEPT !.output = FALSE])
    [] queue_selector = "TCIOFLUSH" ->
         Ioctl("tcflush", [tty EXCEPT !.input = FALSE, !.output = FALSE])
    [] OTHER -> BadCall("tcflush", EINVAL)
tcgetattr ==
  /\ \/ termios_line' = tty.settings /\ Ret("tcgetattr", 0, "")
     \/ UNCHANGED termios_line /\ Ret("tcgetattr", -1, "ioctl")
  /\ UNCHANGED tty
\* The session's number, if the driver tells it.
tcgetsid ==
  /\ \/ Ret("tcgetsid", 1, "") \/ Ret("tcgetsid", -1, "ioctl")
  /\ UNCHANGED <<termios_line, tty>>
\* TIOCSETA at once, TIOCSETAW after the output, TIOCSETAF with a flush.
tcsetattr(optional_actions) ==
  LET set == [tty EXCEPT !.settings = termios_line]
  IN CASE optional_actions = "TCSANOW" -> Ioctl("tcsetattr", set)
       [] optional_actions = "TCSADRAIN" -> Ioctl("tcsetattr", [set EXCEPT !.output = FALSE])
       [] optional_actions = "TCSAFLUSH" ->
            Ioctl("tcsetattr", [set EXCEPT !.output = FALSE, !.input = FALSE])
       [] OTHER -> BadCall("tcsetattr", EINVAL)

\* TIOCSBRK, for a positive duration the wait and TIOCCBRK; either request
\* may fail.
SetBreak(duration) ==
  \E set, cleared \in BOOLEAN :
    /\ tty' = [tty EXCEPT !.break = IF set /\ duration > 0 /\ cleared THEN FALSE
                                    ELSE @ \/ set]
    /\ line_ret' =
         [call |-> "tcsendbreak", errno |-> "",
          ret |-> IF set /\ (duration = 0 \/ cleared) THEN 0 ELSE -1,
          broke |-> IF ~set THEN line_ret.broke
                    ELSE IF duration = 0 THEN "unbounded"
                    ELSE IF cleared THEN "no" ELSE "failed"]
    /\ UNCHANGED termios_line
tcsendbreak(duration) ==
  IF duration < 0 THEN BadCall("tcsendbreak", EINVAL) ELSE SetBreak(duration)

\* The driver: characters arrive and are read, output is waiting and is sent.
Traffic ==
  /\ \/ tty' = [tty EXCEPT !.input = ~@]
     \/ tty' = [tty EXCEPT !.output = ~@]
  /\ UNCHANGED <<termios_line, line_ret>>

TermiosNext ==
  \/ \E speed \in Speeds \cup OtherSpeeds : cfsetispeed(speed) \/ cfsetospeed(speed)
  \/ \E call \in {"cfgetispeed", "cfgetospeed"} : CfGetSpeed(call)
  \/ \E call \in {"tcdrain", "tcflow", "tcflush", "tcsendbreak", "tcgetsid"} :
       BadCall(call, EBADF)
  \/ \E call \in {"cfsetispeed", "cfsetospeed", "tcgetattr", "tcsetattr"} :
       BadCall(call, EINVAL)
  \/ tcdrain \/ tcgetattr \/ tcgetsid \/ Traffic
  \/ \E action \in {"TCOOFF", "TCOON", "TCIOFF", "TCION", "?"} : tcflow(action)
  \/ \E queue_selector \in {"TCIFLUSH", "TCOFLUSH", "TCIOFLUSH", "?"} :
       tcflush(queue_selector)
  \/ \E optional_actions \in {"TCSANOW", "TCSADRAIN", "TCSAFLUSH", "?"} :
       tcsetattr(optional_actions)
  \/ \E duration \in Durations : tcsendbreak(duration)

TermiosSpec == TermiosInit /\ [][TermiosNext]_termios_vars

-----------------------------------------------------------------------------
\* A call that answers -1 leaves the program's settings and the driver as they
\* were, a break excepted whose end could not be requested; the driver's
\* settings change only to the program's, and the program's one speed at a
\* time, or both to the driver's; only speeds that cfsetispeed accepts reach
\* the driver; and the line is in a break exactly when one was sent without a
\* duration or could not be ended.  (termios.c.)
SettingsFollow ==
  [][ /\ (line_ret'.ret = -1 /\ line_ret' # line_ret /\ tty'.break = tty.break)
           => UNCHANGED <<termios_line, tty>>
      /\ tty'.settings # tty.settings => tty'.settings = termios_line
      /\ termios_line' # termios_line =>
           CASE line_ret'.call = "cfsetispeed" -> termios_line'.ospeed = termios_line.ospeed
             [] line_ret'.call = "cfsetospeed" -> termios_line'.ispeed = termios_line.ispeed
             [] OTHER -> termios_line' = tty.settings
      /\ {tty'.settings.ispeed, tty'.settings.ospeed} \subseteq Speeds
      /\ tty'.break = (line_ret'.broke # "no") ]_termios_vars
=============================================================================
