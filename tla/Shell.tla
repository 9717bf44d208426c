-------------------------------- MODULE Shell --------------------------------
(***************************************************************************)
(* dev/shell/shell.c: the line editor, the history and the execution of a  *)
(* line, on the screen of Vga.  An action is one key that kb_getchar       *)
(* answered; an escape sequence is three.  kb_getchar answers no control   *)
(* characters, so the branches of ^C and ^D are never taken.               *)
(***************************************************************************)
EXTENDS Vga, FiniteSets

CONSTANTS
  SHELL_MAX_INPUT_LENGTH, SHELL_HISTORY_SIZE, SHELL_MAX_ARGS,
  Letters,         \* bound: the printable characters that are typed, with the space
  Prompt,          \* text of the prompt
  Commands,        \* names of the commands other than the next three, as sequences of characters
  HelpName, ExitName, HistoryName,
  HelpPages,       \* pages of the list of commands
  Outputs,         \* bound: what a command prints
  MaxLines         \* bound: lines that are entered

\* The prompt and a full line fit in front of the last row: 255 characters in 24 rows of 80
\* (shell.h:13, 17; vga.h:80-81).
ASSUME ShellAssumption ==
  /\ SHELL_MAX_INPUT_LENGTH \in Nat \ {0} /\ SHELL_HISTORY_SIZE \in Nat \ {0}
  /\ SHELL_MAX_INPUT_LENGTH - 1 <= (VGA_HEIGHT - 1) * VGA_WIDTH
  /\ Letters \subseteq STRING
  /\ Letters \cap {NEWLINE, CARRIAGE_RETURN, BACKSPACE, TAB} = {}
  /\ Prompt \in Seq(STRING) /\ Outputs \subseteq Seq(STRING)

VARIABLES
  input_buffer,      \* up to input_length
  cursor_pos,
  history,           \* the queue, oldest first: [id, command]
  history_current,   \* id of an entry, or 0 for NULL
  running,
  last_exit_status,
  argv,
  page,              \* of the list of commands, or 0 outside help
  entered            \* ghost: the lines that were entered, without repetitions

shell_vars ==
  <<screen, input_buffer, cursor_pos, history, history_current, running, last_exit_status, argv, page, entered>>

Space == " "

PromptText(status) == (IF status = 0 THEN <<>> ELSE <<"!">>) \o Prompt

ShellInit ==
  /\ screen = vga_puts([NoScreen EXCEPT !.buffer = TRUE], PromptText(0))
  /\ input_buffer = <<>> /\ cursor_pos = 0 /\ history = <<>> /\ history_current = 0
  /\ running = TRUE /\ last_exit_status = 0 /\ argv = <<>> /\ page = 0 /\ entered = <<>>

Editing == running /\ page = 0
Times(n, c) == [i \in 1 .. n |-> c]
Behind == SubSeq(input_buffer, cursor_pos + 1, Len(input_buffer))

-----------------------------------------------------------------------------
(* Editing the line. *)

Edited(line, pos, text) ==
  /\ Editing
  /\ input_buffer' = line /\ cursor_pos' = pos
  /\ screen' = vga_puts(screen, text)
  /\ UNCHANGED <<history, running, last_exit_status, argv, page, entered>>

Insert ==
  \E c \in Letters :
    /\ Len(input_buffer) < SHELL_MAX_INPUT_LENGTH - 1
    /\ Edited(SubSeq(input_buffer, 1, cursor_pos) \o <<c>> \o Behind, cursor_pos + 1,
              <<c>> \o Behind \o Times(Len(Behind), BACKSPACE))
    /\ UNCHANGED history_current

\* Mutant: the character behind the cursor is taken.
DeleteBehind ==
  /\ cursor_pos > 0
  /\ Edited(SubSeq(input_buffer, 1, cursor_pos - 1) \o Behind, cursor_pos,
            <<BACKSPACE>> \o Behind \o <<Space>> \o Times(Len(Behind) + 1, BACKSPACE))
  /\ UNCHANGED history_current

Delete ==
  /\ cursor_pos > 0
  /\ Edited(SubSeq(input_buffer, 1, cursor_pos - 1) \o Behind, cursor_pos - 1,
            <<BACKSPACE>> \o Behind \o <<Space>> \o Times(Len(Behind) + 1, BACKSPACE))
  /\ UNCHANGED history_current

\* Keys without effect, tab among them.
Ignored == Edited(input_buffer, cursor_pos, <<>>) /\ UNCHANGED history_current

Right ==
  /\ cursor_pos < Len(input_buffer)
  /\ Edited(input_buffer, cursor_pos + 1, <<input_buffer[cursor_pos + 1]>>)
  /\ UNCHANGED history_current

\* vga_putchar blanks the character the cursor goes back over.
Left ==
  /\ cursor_pos > 0
  /\ Edited(input_buffer, cursor_pos - 1, <<BACKSPACE>>)
  /\ UNCHANGED history_current

-----------------------------------------------------------------------------
(* History. *)

Position(id) == CHOOSE i \in DOMAIN history : history[i].id = id

Older ==
  IF history_current = 0 THEN Last(history).id
  ELSE history[Max({Position(history_current) - 1, 1})].id
Newer ==
  IF history_current = 0 \/ Position(history_current) = Len(history) THEN 0
  ELSE history[Position(history_current) + 1].id

\* The line is wiped off, and the entry or an empty line takes its place.
shell_navigate_history(target) ==
  LET line == IF target = 0 THEN <<>> ELSE history[Position(target)].command
      n == Len(input_buffer)
  IN /\ history_current' = target
     /\ Edited(line, Len(line), Times(cursor_pos, BACKSPACE) \o Times(n, Space) \o Times(n, BACKSPACE) \o line)

Up == Editing /\ history # <<>> /\ shell_navigate_history(Older)
Down == Editing /\ history # <<>> /\ shell_navigate_history(Newer)

FreshEntry == 1 + Max({0} \cup {history[i].id : i \in DOMAIN history})

Forget(queue) == IF Len(queue) >= SHELL_HISTORY_SIZE THEN Tail(queue) ELSE queue

shell_add_to_history(line) ==
  IF line = <<>> \/ (history # <<>> /\ Last(history).command = line)
  THEN history ELSE Append(Forget(history), [id |-> FreshEntry, command |-> line])

-----------------------------------------------------------------------------
(* Executing the line. *)

\* The arguments: maximal runs without a space, as many as argv has room for in front of its NULL.
Starts(line) == {i \in DOMAIN line : line[i] # Space /\ (i = 1 \/ line[i - 1] = Space)}
Word(line, i) == SubSeq(line, i, Max({j \in i .. Len(line) : \A k \in i .. j : line[k] # Space}))
ArgumentsOf(line) ==
  LET starts == SetToSortSeq(Starts(line), <)
  IN [n \in 1 .. Min({Len(starts), SHELL_MAX_ARGS - 1}) |-> Word(line, starts[n])]

\* A new line after what a command answered and printed.
FreshLine(status, text) ==
  /\ input_buffer' = <<>> /\ cursor_pos' = 0 /\ history_current' = 0
  /\ last_exit_status' = status
  /\ screen' = vga_puts(screen, text \o (IF running' THEN PromptText(status) ELSE <<>>))

NotFound == <<"?", NEWLINE>>
PageText == <<"#">>
\* The title and the entries, each with its number, the line itself among them.
HistoryLine(text, entry) == text \o <<"#">> \o entry.command \o <<NEWLINE>>
history_main(queue) == FoldLeft(HistoryLine, <<"#", NEWLINE>>, queue)

\* The command the first argument names; exit_main alone ends the shell.
shell_execute ==
  \/ /\ argv'[1] \in Commands \cup {ExitName}
     /\ \E out \in Outputs, status \in {0, 1} : FreshLine(status, <<NEWLINE>> \o out)
  \/ /\ argv'[1] = HistoryName
     /\ FreshLine(0, <<NEWLINE>> \o history_main(history'))
  \/ /\ argv'[1] = HelpName
     /\ screen' = vga_puts(screen, <<NEWLINE>> \o PageText)
     /\ UNCHANGED <<input_buffer, cursor_pos, history_current, last_exit_status>>
  \/ /\ argv'[1] \notin Commands \cup {ExitName, HelpName, HistoryName}
     /\ FreshLine(127, <<NEWLINE>> \o NotFound)
exit_main(args) == args # <<>> /\ args[1] = ExitName

Enter ==
  /\ Editing /\ Len(entered) < MaxLines
  /\ history' = shell_add_to_history(input_buffer)
  /\ entered' = IF input_buffer = <<>> \/ (entered # <<>> /\ Last(entered) = input_buffer)
                THEN entered ELSE Append(entered, input_buffer)
  /\ argv' = ArgumentsOf(input_buffer)
  /\ running' = ~exit_main(argv')
  /\ page' = IF argv' # <<>> /\ argv'[1] = HelpName THEN 1 ELSE 0
  /\ IF argv' = <<>> THEN FreshLine(last_exit_status, <<NEWLINE>>) ELSE shell_execute

\* The list of commands, page by page; any other key shows the page again.
help_key(next, cleared) ==
  /\ running /\ page > 0 /\ page' = next
  /\ screen' = vga_puts(IF cleared THEN vga_clear(screen) ELSE screen, PageText)
  /\ UNCHANGED <<input_buffer, cursor_pos, history_current, last_exit_status, history, running, argv, entered>>

HelpMoves ==
  \/ help_key(IF page < HelpPages THEN page + 1 ELSE page, page < HelpPages)
  \/ help_key(IF page > 1 THEN page - 1 ELSE page, page > 1)
HelpQuits ==
  /\ running /\ page > 0 /\ page' = 0
  /\ UNCHANGED <<history, running, argv, entered>>
  /\ FreshLine(0, <<NEWLINE>>)

ShellNext ==
  \/ Insert \/ Delete \/ Ignored \/ Right \/ Left \/ Up \/ Down \/ Enter \/ HelpMoves \/ HelpQuits

ShellSpec == ShellInit /\ [][ShellNext]_shell_vars

-----------------------------------------------------------------------------
(* Properties. *)

\* Whatever was inserted in the middle, deleted, fetched from the history or scrolled away: in front
\* of the cursor stands the line up to the place where the next character goes (shell.c:430-536).
ScreenShowsPrefix ==
  Editing => /\ cursor_pos <= Len(input_buffer)
             /\ Suffix(Before(screen), cursor_pos) = SubSeq(input_buffer, 1, cursor_pos)

\* The history is the end of what was entered, and the place in it is an entry it still has
\* (shell.c:326-397).
HistoryIsRecent ==
  /\ [i \in DOMAIN history |-> history[i].command] =
       Suffix(entered, Min({Len(entered), SHELL_HISTORY_SIZE}))
  /\ Editing => history_current \in {0} \cup {history[i].id : i \in DOMAIN history}

\* The line that is edited is the one on the screen, the cursor, at which vga_putchar writes
\* unchecked, stays on it, and the history holds the latest lines (shell.c, vga.c).
ShellFollows == ScreenShowsPrefix /\ CursorOnScreen /\ HistoryIsRecent

\* "Move cursor back if not at end" (shell.c:532): the characters behind the cursor stay visible.
LineOnScreen ==
  Editing => LET at == screen.row * VGA_WIDTH + screen.column
             IN \A i \in 1 .. Len(Behind) :
                  at + i <= VGA_WIDTH * VGA_HEIGHT =>
                    screen.cells[(at + i - 1) \div VGA_WIDTH][(at + i - 1) % VGA_WIDTH] = Behind[i]
=============================================================================
