------------------------------- MODULE MCUser -------------------------------
(***************************************************************************)
(* The parts around the user, side by side: the C library and its headers, *)
(* the console, the keyboard, the login, the shell, the commands without   *)
(* files, and the display driver.  A behaviour runs one of them, chosen at *)
(* the start, while the others stay in one of their initial states.  The   *)
(* shell writes to the screen of Vga, standard input and output share the  *)
(* numbers of Stdlib.                                                      *)
(***************************************************************************)
EXTENDS Calls, Stdio, Keyboard, Login, Hdmi, Trees, Queues, Crypto, Commands, Texts

VARIABLE part

UserParts ==
  {"strings", "stdlib", "stdio", "vga", "shell", "keyboard", "login", "hdmi", "trees",
   "queues", "crypto", "commands", "termios", "texts", "bit strings"}

\* Strings: one delimiter or both characters.
MCDelims == {{1}, {1, 2}}

\* Standard output: every kind of directive, with widths on both sides and none.
MCFormats ==
  {[conv |-> c, left |-> l, zero |-> z, sign |-> s, alt |-> (z /\ s = 0), width |-> w,
    prec |-> p] :
     c \in {"s", "d", "x", "u", "z", "o", "p", "c", "f", "%"}, l \in BOOLEAN, z \in BOOLEAN,
     s \in {0, PLUS}, w \in {-3, 0, 1, 3}, p \in {-1, 2}}
MCTexts == {<<>>, <<1, 2>>, <<10, 11, 12>>}
MCDoubles == {-150, -50, -5, 0, 5, 50, 207}
MCInts == {-32, -7, 0, 5, 31, 40}

\* Shell: three names, of one, two and three times the only letter; four of it name nothing.
MCPrompt == <<">">>
MCCommands == {}
MCHelp == <<"a">>
MCExit == <<"a", "a">>
MCHistory == <<"a", "a", "a">>
MCOutputs == {<<>>, <<"o">>}

MCUsername == <<"a", "b">>
MCPassword == <<"b", "b">>

\* Display: a timing of its own, one that is refused, and a sample rate that differs from the
\* default.
MCCustomTimings ==
  {[of |-> 7, clock |-> 2000000, active |-> 100, sync |-> 5],
   [of |-> 8, clock |-> 2000000, active |-> 100, sync |-> 0]}
MCAudioConfigs == {[rate |-> 32000, bits |-> 24]}

\* Trees: pairs of elements have equal keys up to their lowest bit.
MCTreeKey == [n \in TreeNodes |-> n \div 2]

\* Cryptography: pieces shorter than a block, of a block's length and longer.
MCPieces == {<<>>, <<1>>, <<2, 3>>, <<1, 2, 3, 1, 2>>}
MCRC4Keys == {<<1>>, <<3, 0, 2>>, <<7, 7, 1, 5>>}

MCQuitLine == <<"q">>
MCExprNumbers == {-12, -1, 0, 1, 2, 9, 30, 45, 49}

MCDurations == {-1, 0, 2}

\* ctype: every char, signed or not, and codes beyond.
MCCodes == -128 .. 256

\* fnmatch: a, *, ?, backslash and both brackets against a, backslash, period and slash.
MCPatterns == UNION {[1 .. n -> {97, 42, 63, 92, 91, 93}] : n \in 0 .. 3}
MCSubjects == UNION {[1 .. n -> {97, 92, 46, 47}] : n \in 0 .. 2}
MCVisChars ==
  {0, 1, 7, 8, 9, 10, 13, 14, 27, 28, 29, 30, 31, 32, 34, 47, 92, 97, 126, 127, 128, 200, 255}
MCVisFlags == SUBSET {"NL", "SP", "DQ", "CSTYLE", "ALL", "NOSLASH", "WHITE"}
MCVisTexts == UNION {[1 .. n -> {0, 10, 32, 97, 200}] : n \in 0 .. 2}

\* The console's own behaviours start before vga_initialize, the shell's at its prompt.
ConsoleInit ==
  /\ input_buffer = <<>> /\ cursor_pos = 0 /\ history = <<>> /\ history_current = 0
  /\ running = TRUE /\ last_exit_status = 0 /\ argv = <<>> /\ page = 0 /\ entered = <<>>
  /\ VgaInit

UserInit ==
  /\ part \in UserParts
  /\ StringsInit /\ StdlibInit /\ StdioInit /\ KeyboardInit /\ LoginInit /\ TermiosInit /\ TextsInit
  /\ BitStringsInit
  /\ IF part = "vga" THEN ConsoleInit ELSE ShellInit /\ vga_call = "other"
  /\ HdmiInit /\ (part # "hdmi" => display = [k \in Kinds |-> FALSE])
  /\ TreesInit /\ (part # "trees" => tree.kind = "RB")
  /\ QueuesInit /\ (part # "queues" => qstate.kind = "SLIST")
  /\ CryptoInit /\ (part # "crypto" => crypto_part = "sha")
  /\ CommandsInit /\ (part # "commands" => command = "bc")

OthersRest ==
  /\ UNCHANGED part
  /\ part # "strings" => UNCHANGED strings_vars
  /\ part # "stdlib" => UNCHANGED stdlib_vars
  /\ part # "stdio" => UNCHANGED stdio_vars
  /\ part \notin {"vga", "shell"} => UNCHANGED screen
  /\ part # "vga" => UNCHANGED vga_call
  /\ part # "shell" =>
       UNCHANGED <<input_buffer, cursor_pos, history, history_current, running,
                   last_exit_status, argv, page, entered>>
  /\ part # "keyboard" => UNCHANGED keyboard_vars
  /\ part # "login" => UNCHANGED login_vars
  /\ part # "hdmi" => UNCHANGED hdmi_vars
  /\ part # "trees" => UNCHANGED trees_vars
  /\ part # "queues" => UNCHANGED queues_vars
  /\ part # "crypto" => UNCHANGED crypto_vars
  /\ part # "commands" => UNCHANGED commands_vars
  /\ part # "termios" => UNCHANGED termios_vars
  /\ part # "texts" => UNCHANGED texts_vars
  /\ part # "bit strings" => UNCHANGED bit_strings_vars

UserNext ==
  \/ part = "strings" /\ StringsNext /\ OthersRest
  \/ part = "stdlib" /\ StdlibNext /\ OthersRest
  \/ part = "stdio" /\ StdioNext /\ OthersRest
  \/ part = "vga" /\ VgaNext /\ OthersRest
  \/ part = "shell" /\ ShellNext /\ OthersRest
  \/ part = "keyboard" /\ KeyboardNext /\ OthersRest
  \/ part = "login" /\ LoginNext /\ OthersRest
  \/ part = "hdmi" /\ HdmiNext /\ OthersRest
  \/ part = "trees" /\ TreesNext /\ OthersRest
  \/ part = "queues" /\ QueuesNext /\ OthersRest
  \/ part = "crypto" /\ CryptoNext /\ OthersRest
  \/ part = "commands" /\ CommandsNext /\ OthersRest
  \/ part = "termios" /\ TermiosNext /\ OthersRest
  \/ part = "texts" /\ TextsNext /\ OthersRest
  \/ part = "bit strings" /\ BitStringsNext /\ OthersRest

user_vars ==
  <<part, strings_vars, stdlib_vars, stdio_vars, vga_vars, shell_vars, keyboard_vars, login_vars,
    hdmi_vars, trees_vars, queues_vars, crypto_vars, commands_vars, termios_vars, texts_vars,
    bit_strings_vars>>

UserSpec == UserInit /\ [][UserNext]_user_vars

\* Bound: behaviours go on only from states in which at most one setting of the display, its
\* interrupt mask aside, has been made or one of its outputs is on.
OneSetting == Cardinality((chosen \ {"mask"}) \cup hdmi_reg.ctrl) <= 1

-----------------------------------------------------------------------------
(* Properties: those of the parts, with related ones taken together.       *)

\* What the library and the commands compute is what their definitions say, for every
\* input of the instance (string.c, stdlib.c, stdio.c, ctype.c, fnmatch.c, vis.c; bc, expr, factor
\* and rand of bin/).
LibraryAgrees ==
  /\ SearchesAgree /\ RoundTrips /\ SortedAndFound /\ ConversionsAgree /\ CharactersAreClassed
  /\ TextsAreRead /\ CommandsCompute

\* A result that is asked for piece by piece is the one of the whole: the tokens of a
\* string, the digest of a message, the key stream (string.c, sha2.c, arc4.c).
PiecesMakeTheWhole == EveryToken /\ DigestOfWhole /\ StreamGoesOn

\* The macros for lists and trees keep what was inserted and not removed, in order, and
\* their trees balanced; bit strings keep what was set and not cleared (sys/queue.h,
\* sys/tree.h, bitstring.h).
ContainersAgree == ListsAgree /\ RedBlackAgrees /\ SplayAgrees /\ BitsAgree
=============================================================================
