--------------------------------- MODULE Vga ---------------------------------
(***************************************************************************)
(* usr/drivers/vga.c: the text screen.  A screen is a record of its cells, *)
(* its cursor and whether there is a buffer; a cell is the character it    *)
(* shows.  Colours, the registers of the hardware cursor and the second    *)
(* buffer are left out; vga_printf and the numbers are in Stdio.           *)
(***************************************************************************)
EXTENDS Integers, SequencesExt

CONSTANTS
  VGA_WIDTH, VGA_HEIGHT, VGA_TAB_WIDTH,
  Printable                \* bound: characters that are put on the screen

VARIABLES
  screen,      \* [cells, row, column, buffer]
  vga_call     \* the last character given to vga_putchar, or "other"

vga_vars == <<screen, vga_call>>

Rows == 0 .. VGA_HEIGHT - 1
Columns == 0 .. VGA_WIDTH - 1
Blank == " "
NEWLINE == "newline"
CARRIAGE_RETURN == "return"
BACKSPACE == "backspace"
TAB == "tab"

\* A printed character is none of those the screen acts on, and no blank.
ASSUME VgaAssumption ==
  /\ VGA_WIDTH \in Nat \ {0} /\ VGA_HEIGHT \in Nat \ {0} /\ VGA_TAB_WIDTH \in Nat \ {0}
  /\ Printable \subseteq STRING
  /\ Printable \cap {NEWLINE, CARRIAGE_RETURN, BACKSPACE, TAB, Blank, "other"} = {}

BlankRow == [x \in Columns |-> Blank]

vga_bounds_check(x, y) == x \in Columns /\ y \in Rows

\* The rows from first on are those of the old screen, shifted; rows outside are blank.
ShiftRows(cells, by) == [y \in Rows |-> IF y + by \in Rows THEN cells[y + by] ELSE BlankRow]

vga_clear(s) == IF s.buffer THEN [s EXCEPT !.cells = [y \in Rows |-> BlankRow], !.row = 0, !.column = 0] ELSE s

\* Mutant: the cursor stays behind when the screen moves.
ScrollCursorStays(s, lines) ==
  IF ~s.buffer \/ lines <= 0 THEN s
  ELSE IF lines >= VGA_HEIGHT THEN vga_clear(s)
  ELSE [s EXCEPT !.cells = ShiftRows(s.cells, lines)]

vga_scroll_internal(s, lines) ==
  IF ~s.buffer \/ lines <= 0 THEN s
  ELSE IF lines >= VGA_HEIGHT THEN vga_clear(s)
  ELSE [s EXCEPT !.cells = ShiftRows(s.cells, lines),
                 !.row = IF s.row >= lines THEN s.row - lines ELSE 0,
                 !.column = IF s.row >= lines THEN s.column ELSE 0]

Show(s, c) == [s EXCEPT !.cells[s.row][s.column] = c]

\* The cursor goes to the start of the next row, and the screen moves up under it.
NewRow(s) ==
  LET t == [s EXCEPT !.column = 0, !.row = s.row + 1]
  IN IF t.row >= VGA_HEIGHT THEN vga_scroll_internal(t, 1) ELSE t

Advance(s) ==
  IF s.column + 1 >= VGA_WIDTH THEN NewRow(s) ELSE [s EXCEPT !.column = s.column + 1]

\* Backwards over the edge of a row; the cell is blanked.
Back(s) ==
  Show(IF s.column > 0 THEN [s EXCEPT !.column = s.column - 1]
       ELSE IF s.row > 0 THEN [s EXCEPT !.row = s.row - 1, !.column = VGA_WIDTH - 1]
       ELSE s, Blank)

NextTab(column) == Min({VGA_WIDTH, column + VGA_TAB_WIDTH - (column % VGA_TAB_WIDTH)})
ToNextTab(s) ==
  LET t == [s EXCEPT !.cells[s.row] = [x \in Columns |-> IF x \in s.column .. NextTab(s.column) - 1
                                                         THEN Blank ELSE s.cells[s.row][x]]]
  IN IF NextTab(s.column) = VGA_WIDTH THEN NewRow(t) ELSE [t EXCEPT !.column = NextTab(s.column)]

vga_putchar(s, c) ==
  CASE ~s.buffer -> s
    [] s.buffer /\ c = NEWLINE -> NewRow(s)
    [] s.buffer /\ c = CARRIAGE_RETURN -> [s EXCEPT !.column = 0]
    [] s.buffer /\ c = BACKSPACE -> Back(s)
    [] s.buffer /\ c = TAB -> ToNextTab(s)
    [] OTHER -> Advance(Show(s, c))

vga_puts(s, text) == FoldLeft(vga_putchar, s, text)

-----------------------------------------------------------------------------
(* Areas and lines.  x and y are ints: what lies outside the screen is cut. *)

FilledArea(s, x, y, width, height, c) ==
  IF ~s.buffer THEN s
  ELSE [s EXCEPT !.cells = [r \in Rows |-> [k \in Columns |->
         IF r \in y .. y + height - 1 /\ k \in x .. x + width - 1 THEN c ELSE s.cells[r][k]]]]

vga_clear_area(s, x, y, width, height) == FilledArea(s, x, y, width, height, Blank)

vga_putchar_at(s, c, x, y) == FilledArea(s, x, y, 1, 1, c)

\* A line end goes back to x one row down; the first row below the screen ends it.
PutAt(p, c, x) ==
  IF p.y >= VGA_HEIGHT THEN p
  ELSE IF c = NEWLINE THEN [p EXCEPT !.x = x, !.y = p.y + 1]
  ELSE IF vga_bounds_check(p.x, p.y)
       THEN [p EXCEPT !.s = vga_putchar_at(p.s, c, p.x, p.y), !.x = p.x + 1]
  ELSE p
vga_puts_at(s, text, x, y) ==
  FoldLeft(LAMBDA p, c : PutAt(p, c, x), [s |-> s, x |-> x, y |-> y], text).s

\* The corners, the edges, and nothing for a box that is too small.
vga_draw_box(s, x, y, width, height) ==
  LET right == x + width - 1
      bottom == y + height - 1
      Edge(r, k) == CASE r \in {y, bottom} /\ k \in {x, right} -> "+"
                      [] r \in {y, bottom} /\ k \in x + 1 .. right - 1 -> "-"
                      [] r \in y + 1 .. bottom - 1 /\ k \in {x, right} -> "|"
                      [] OTHER -> s.cells[r][k]
  IN IF ~s.buffer \/ width < 2 \/ height < 2 THEN s
     ELSE [s EXCEPT !.cells = [r \in Rows |-> [k \in Columns |-> Edge(r, k)]]]

vga_scroll_up(s, lines) == vga_scroll_internal(s, lines)

vga_scroll_down(s, lines) ==
  IF ~s.buffer \/ lines <= 0 THEN s
  ELSE IF lines >= VGA_HEIGHT THEN vga_clear(s)
  ELSE [s EXCEPT !.cells = ShiftRows(s.cells, -lines), !.row = Min({s.row + lines, VGA_HEIGHT - 1})]

vga_delete_line(s, y) ==
  IF ~s.buffer \/ y \notin Rows THEN s
  ELSE [s EXCEPT !.cells = [r \in Rows |-> IF r < y THEN s.cells[r] ELSE ShiftRows(s.cells, 1)[r]]]

vga_insert_line(s, y) ==
  IF ~s.buffer \/ y \notin Rows THEN s
  ELSE [s EXCEPT !.cells = [r \in Rows |-> IF r < y THEN s.cells[r] ELSE IF r = y THEN BlankRow
                                           ELSE s.cells[r - 1]]]

vga_get_line_length(s, y) ==
  IF ~s.buffer \/ y \notin Rows THEN 0
  ELSE LET used == {x \in Columns : s.cells[y][x] # Blank} IN IF used = {} THEN 0 ELSE Max(used) + 1

vga_move_cursor(s, x, y) == IF vga_bounds_check(x, y) THEN [s EXCEPT !.column = x, !.row = y] ELSE s

-----------------------------------------------------------------------------
(* The calls. *)

NoScreen == [cells |-> [y \in Rows |-> BlankRow], row |-> 0, column |-> 0, buffer |-> FALSE]

VgaInit == screen = NoScreen /\ vga_call = "other"

vga_initialize == screen' = vga_clear([screen EXCEPT !.buffer = TRUE]) /\ vga_call' = "other"

\* Bound: coordinates and counts of a call, from outside one edge to outside the other.
Xs == -1 .. VGA_WIDTH
Ys == -1 .. VGA_HEIGHT

PutChar == \E c \in Printable \cup {NEWLINE, CARRIAGE_RETURN, BACKSPACE, TAB} : screen' = vga_putchar(screen, c) /\ vga_call' = c

ScreenCall ==
  /\ \/ screen' = vga_clear(screen)
     \/ \E lines \in Ys : screen' = vga_scroll_up(screen, lines)
     \/ \E lines \in Ys : screen' = vga_scroll_down(screen, lines)
     \/ \E x \in Xs, y \in Ys : screen' = vga_move_cursor(screen, x, y)
     \/ \E x \in Xs, y \in Ys, c \in Printable : screen' = vga_putchar_at(screen, c, x, y)
     \/ \E x \in Xs, y \in Ys, c \in Printable :
          screen' = vga_puts_at(screen, <<c, NEWLINE, c, c>>, x, y)
     \/ \E y \in Ys : screen' = vga_delete_line(screen, y)
     \/ \E y \in Ys : screen' = vga_insert_line(screen, y)
     \/ \E y \in Ys, width \in Xs : screen' = vga_clear_area(screen, 0, y, width, 2)
     \/ \E x \in Xs, y \in Ys : screen' = vga_draw_box(screen, x, y, VGA_WIDTH, 2)
  /\ vga_call' = "other"

VgaNext == vga_initialize \/ PutChar \/ ScreenCall

VgaSpec == VgaInit /\ [][VgaNext]_vga_vars

-----------------------------------------------------------------------------
(* Properties. *)

\* Every character is written into the buffer: the cursor, which vga_putchar does not check, is on
\* the screen after every call, whatever was scrolled, moved or wrapped (vga.c:118-165).
CursorOnScreen == vga_bounds_check(screen.column, screen.row)

\* Reading the screen from its first row to the cursor.
Before(s) ==
  [i \in 1 .. s.row * VGA_WIDTH + s.column |-> s.cells[(i - 1) \div VGA_WIDTH][(i - 1) % VGA_WIDTH]]
Suffix(t, n) == SubSeq(t, Len(t) - n + 1, Len(t))

\* A printed character follows the text in front of the cursor, at the end of a row and at the end
\* of the screen too, and the length of its line counts it; a backspace takes one character
\* off (vga.c:117-167, 454-465).
TextFollows ==
  [][/\ vga_call' \in Printable /\ screen.buffer =>
          /\ Before(screen') = Suffix(Append(Before(screen), vga_call'), Len(Before(screen')))
          /\ screen'.column > screen.column => vga_get_line_length(screen', screen.row) > screen.column
     /\ vga_call' = BACKSPACE /\ screen.buffer /\ Before(screen) # <<>> => Before(screen') = Front(Before(screen))]_vga_vars
=============================================================================
