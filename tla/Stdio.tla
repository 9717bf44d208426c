--------------------------------- MODULE Stdio ---------------------------------
(***************************************************************************)
(* lib/libc/stdio.c: the line editor behind getchar with the one character *)
(* that ungetc gives back, the readers built on it (gets, fgets, scanf),   *)
(* and the formatted conversions.  A character is the code module Stdlib   *)
(* gives it; a format is a sequence of items, each a literal character or  *)
(* a directive with its flags.  A double is its number of parts, of which  *)
(* FractionDigits digits are printed: what rounding adds is left out, and  *)
(* so are the keys that are neither printable, erasing nor newline, which  *)
(* are ignored.  The console's own vga_printf is compared with vprintf.    *)
(***************************************************************************)
EXTENDS Stdlib

CONSTANTS
  INPUT_BUFFER_SIZE,
  TypedKeys,       \* bound: keys of the user; digits, MINUS, BLANK, LINE, ERASE
  MaxTyped,        \* bound: keys typed
  FgetsSizes,      \* bound: sizes given to fgets
  Ints, Texts,     \* bound: numbers and strings that are formatted
  FractionDigits,  \* the 6 digits of %f
  Doubles,         \* bound: doubles, counted in parts of the last digit
  Formats,         \* bound: directives
  BufferSizes      \* bound: sizes given to vsnprintf

ASSUME StdioAssumption ==
  /\ INPUT_BUFFER_SIZE \in Nat \ {0} /\ MaxTyped \in Nat
  /\ FractionDigits \in Nat \ {0} /\ Doubles \subseteq Int

VARIABLES
  unget_char, stdin_buffer, input_buffer_pos, input_reading,
  reading_call,      \* the reader in progress
  typed_keys,        \* history: the keys typed
  consumed,          \* history: the characters the program has taken for good
  overlong,          \* history: a line did not fit the buffer
  formatted          \* the last conversion

input_vars == <<unget_char, stdin_buffer, input_buffer_pos, input_reading, reading_call, typed_keys,
                consumed, overlong>>
stdio_vars == <<unget_char, stdin_buffer, input_buffer_pos, input_reading, reading_call, typed_keys,
                consumed, overlong, formatted>>

PERCENT == 41
LINE == 42          \* newline
ERASE == 43         \* backspace and delete
POINT == 44
CAPITAL == 45       \* a capital letter is this more than the small one
EOF == -1
Numerals == 0 .. 9
HexDigits == 0 .. 15
Blanks == {BLANK, LINE}
NoCall == [fn |-> "none", at |-> "none"]

StdioInit ==
  /\ unget_char = EOF /\ stdin_buffer = <<>> /\ input_buffer_pos = 1 /\ input_reading = FALSE
  /\ reading_call = NoCall /\ typed_keys = <<>> /\ consumed = <<>> /\ overlong = FALSE
  /\ formatted = [fn |-> "none"]

--------------------------------------------------------------------------------
(* getchar: the pushback, then the buffer, then the keyboard.              *)

Buffered == input_buffer_pos <= Len(stdin_buffer)

\* fgets ends one short of size, before it takes a character.
FgetsHasAll == reading_call.fn = "fgets" /\ Len(reading_call.s) >= reading_call.size - 1

\* A reader needs a character and there is none: a new line is begun.
BeginLine ==
  /\ reading_call.at \notin {"none", "done"} /\ ~FgetsHasAll /\ unget_char = EOF /\ ~Buffered /\ ~input_reading
  /\ stdin_buffer' = <<>> /\ input_buffer_pos' = 1 /\ input_reading' = TRUE
  /\ UNCHANGED <<unget_char, reading_call, typed_keys, consumed, overlong, formatted>>

EditLine(key) ==
  IF key = ERASE THEN stdin_buffer' = SubSeq(stdin_buffer, 1, Len(stdin_buffer) - 1)
  ELSE stdin_buffer' = Append(stdin_buffer, key)

\* The key is read before the room for it is tested: when there is none it is
\* lost, and the line ends without a newline.  A newline that takes the last
\* place leaves none for the NUL, which is written behind the buffer.
TypeKey(key) ==
  /\ input_reading /\ Len(typed_keys) < MaxTyped
  /\ typed_keys' = Append(typed_keys, key)
  /\ IF key = LINE THEN stdin_buffer' = Append(stdin_buffer, LINE) /\ input_reading' = FALSE
                        /\ overlong' = (overlong \/ Len(stdin_buffer) = INPUT_BUFFER_SIZE - 1)
     ELSE IF Len(stdin_buffer) >= INPUT_BUFFER_SIZE - 1
     THEN input_reading' = FALSE /\ overlong' = TRUE /\ UNCHANGED stdin_buffer
     ELSE EditLine(key) /\ UNCHANGED <<input_reading, overlong>>
  /\ UNCHANGED <<unget_char, input_buffer_pos, reading_call, consumed, formatted>>

\* The next character: given back, or from the buffer.
Ready == unget_char # EOF \/ (Buffered /\ ~input_reading)
NextChar == IF unget_char # EOF THEN unget_char ELSE stdin_buffer[input_buffer_pos]

\* Mutant: the character that was given back stays.
getcharKeepsPushback == IF unget_char # EOF THEN UNCHANGED <<unget_char, input_buffer_pos>>
                        ELSE input_buffer_pos' = input_buffer_pos + 1 /\ UNCHANGED unget_char

getchar ==
  IF unget_char # EOF THEN unget_char' = EOF /\ UNCHANGED input_buffer_pos
  ELSE input_buffer_pos' = input_buffer_pos + 1 /\ UNCHANGED unget_char

\* getchar and ungetc of what it returned.
Peek ==
  /\ unget_char' = NextChar
  /\ input_buffer_pos' = IF unget_char # EOF THEN input_buffer_pos ELSE input_buffer_pos + 1

\* The reader goes on with the character taken, or ends without it.
Take(call) ==
  /\ getchar /\ consumed' = Append(consumed, NextChar) /\ reading_call' = call
Leave(call) ==
  /\ Peek /\ reading_call' = call /\ UNCHANGED consumed

--------------------------------------------------------------------------------
(* The readers, one character at a time.                                   *)

Begin ==
  /\ reading_call.at \in {"none", "done"}
  /\ \/ reading_call' = [fn |-> "gets", at |-> "text", s |-> <<>>]
     \/ \E size \in FgetsSizes : reading_call' = [fn |-> "fgets", at |-> "text", s |-> <<>>, size |-> size]
     \/ \E conv \in {"d", "u", "x", "s", "c"} :
          reading_call' = [fn |-> "scanf", at |-> "blanks", conv |-> conv, s |-> <<>>, count |-> 0]
     \/ reading_call' = [fn |-> "scanf", at |-> "literal", s |-> <<>>, count |-> 0]
  /\ UNCHANGED <<unget_char, stdin_buffer, input_buffer_pos, input_reading, typed_keys, consumed,
                 overlong, formatted>>

Reading(at) == reading_call.at = at /\ Ready
With(s, at) == [reading_call EXCEPT !.s = s, !.at = at]
Undisturbed == UNCHANGED <<stdin_buffer, input_reading, typed_keys, overlong, formatted>>

\* gets and fgets; gets drops the newline.
ReadText ==
  /\ ~FgetsHasAll /\ Reading("text")
  /\ IF NextChar = LINE
     THEN Take(With(IF reading_call.fn = "fgets" THEN Append(reading_call.s, LINE) ELSE reading_call.s, "done"))
     ELSE Take(With(Append(reading_call.s, NextChar), "text"))
  /\ Undisturbed
\* With no room at all the character it then tests for a newline was never read.
FgetsFull ==
  /\ reading_call.at = "text" /\ FgetsHasAll
  /\ \E extra \in (IF reading_call.s = <<>> THEN {<<>>, <<LINE>>} ELSE {<<>>}) :
       reading_call' = With(reading_call.s \o extra, "done")
  /\ UNCHANGED <<unget_char, input_buffer_pos, consumed>> /\ Undisturbed

\* scanf: blanks are skipped before every conversion, %c included.
ScanBlanks ==
  /\ Reading("blanks")
  /\ IF NextChar \in Blanks THEN Take(reading_call) ELSE Leave([reading_call EXCEPT !.at = reading_call.conv])
  /\ Undisturbed
ScanChar == Reading("c") /\ Take([With(<<NextChar>>, "done") EXCEPT !.count = 1]) /\ Undisturbed
ScanWord ==
  /\ Reading("s")
  /\ IF NextChar \in Blanks THEN Leave([reading_call EXCEPT !.at = "done", !.count = 1])
     ELSE Take(With(Append(reading_call.s, NextChar), "s"))
  /\ Undisturbed
\* A character of the format has to come as it is: here the sign.
ScanLiteral ==
  /\ Reading("literal")
  /\ IF NextChar = MINUS THEN Take(With(<<MINUS>>, "done")) ELSE Leave([reading_call EXCEPT !.at = "done"])
  /\ Undisturbed
\* A sign that no digit follows is taken all the same.
ScanSign ==
  /\ Reading("d")
  /\ IF NextChar \in {MINUS, PLUS} THEN Take(With(<<NextChar>>, "first"))
     ELSE IF NextChar \in Numerals THEN Take(With(<<NextChar>>, "digits"))
     ELSE Leave([reading_call EXCEPT !.at = "done"])
  /\ Undisturbed
ScanFirst ==
  /\ Reading("first")
  /\ IF NextChar \in Numerals THEN Take(With(Append(reading_call.s, NextChar), "digits"))
     ELSE Leave([reading_call EXCEPT !.at = "done"])
  /\ Undisturbed
ScanDigits ==
  /\ Reading("digits")
  /\ IF NextChar \in Numerals THEN Take(With(Append(reading_call.s, NextChar), "digits"))
     ELSE Leave([reading_call EXCEPT !.at = "done", !.count = 1])
  /\ Undisturbed

ScanUnsigned ==
  /\ Reading("u")
  /\ IF NextChar \in Numerals THEN Take(With(<<NextChar>>, "digits"))
     ELSE Leave([reading_call EXCEPT !.at = "done"])
  /\ Undisturbed

\* %x: an X behind a first 0 is taken with it, whether or not a digit follows;
\* any other character is given back and read again.
HexZero ==
  /\ Reading("x") /\ NextChar = 0
  /\ Take(With(<<0>>, "prefix")) /\ Undisturbed
HexPrefix ==
  /\ Reading("prefix")
  /\ IF NextChar = X THEN Take(With(<<>>, "hex")) ELSE Leave(With(<<0>>, "hexdigits"))
  /\ Undisturbed
HexFirst ==
  /\ (Reading("x") /\ NextChar # 0) \/ Reading("hex")
  /\ IF NextChar \in HexDigits THEN Take(With(<<NextChar>>, "hexdigits"))
     ELSE Leave([reading_call EXCEPT !.at = "done"])
  /\ Undisturbed
HexMore ==
  /\ Reading("hexdigits")
  /\ IF NextChar \in HexDigits THEN Take(With(Append(reading_call.s, NextChar), "hexdigits"))
     ELSE Leave([reading_call EXCEPT !.at = "done", !.count = 1])
  /\ Undisturbed
ScanHex == HexZero \/ HexPrefix \/ HexFirst \/ HexMore

InputNext ==
  \/ BeginLine \/ \E key \in TypedKeys : TypeKey(key)
  \/ Begin \/ ReadText \/ FgetsFull \/ ScanBlanks \/ ScanChar \/ ScanWord \/ ScanSign \/ ScanFirst \/ ScanDigits
  \/ ScanLiteral \/ ScanUnsigned \/ ScanHex

--------------------------------------------------------------------------------
(* Formatted output.  A directive: [conv, left, zero, sign, alt, width,    *)
(* prec]; sign is 0, PLUS or BLANK; a width below 0 is that of "*".        *)

Repeat(n, c) == [i \in 1 .. n |-> c]
Largest(a, b) == IF a > b THEN a ELSE b

\* __output_with_format with __pad_output; a negative count pads nothing.
__output_with_format(text, d, zero) ==
  LET t == IF d.prec >= 0 /\ Len(text) > d.prec THEN SubSeq(text, 1, d.prec) ELSE text
      pad == d.width - Len(t)
  IN IF d.left THEN t \o Repeat(pad, BLANK) ELSE Repeat(pad, IF zero THEN 0 ELSE BLANK) \o t

Printed(text, n) == [out |-> text, n |-> n]
PaddedNumber(text, d) == Printed(__output_with_format(text, d, d.zero), Largest(d.width, Len(text)))

PrintWord(s, d) ==
  LET len == IF d.prec >= 0 /\ Len(s) > d.prec THEN d.prec ELSE Len(s)
  IN Printed(__output_with_format(s, d, FALSE), Largest(d.width, len))

PrintInt(num, d) ==
  LET str == itoa(Signed(Abs(num)), 10)
      sign == IF num < 0 THEN <<MINUS>> ELSE IF d.sign # 0 THEN <<d.sign>> ELSE <<>>
  IN IF sign # <<>> /\ d.zero /\ ~d.left /\ d.width > 0
     THEN Printed(sign \o Repeat(d.width - Len(str) - 1, 0) \o str, d.width)
     ELSE PaddedNumber(sign \o str, d)

PrintHex(num, d) ==
  LET str == itoa(Signed(num), 16)
      prefix == IF d.alt /\ num # 0 THEN <<0, X>> ELSE <<>>
      width == d.width - Len(prefix)
      front == IF d.prec > Len(str) THEN d.prec - Len(str)
               ELSE IF d.zero /\ ~d.left /\ width > Len(str) THEN width - Len(str) ELSE 0
      back == IF d.left /\ width > Len(str) THEN width - Len(str) ELSE 0
  IN Printed(prefix \o Repeat(front, 0) \o str \o Repeat(back, BLANK),
             Len(prefix) + front + Len(str) + back)

PrintUnsigned(num, d) == PaddedNumber(itoa(Signed(num), 10), d)
PrintOctal(num, d) ==
  PaddedNumber((IF d.alt /\ num # 0 THEN <<0>> ELSE <<>>) \o itoa(Signed(num), 8), d)
PrintPointer(num) ==
  LET text == <<0, X>> \o itoa(Signed(num), 16) IN Printed(text, Len(text))

\* The part in front of the point is an int, which is 0 between -1 and 1: such
\* a number loses its sign.
PrintDouble(num, d) ==
  LET parts == 10 ^ FractionDigits
      frac == itoa(Abs(rem(num, parts)), 10)
  IN PaddedNumber(itoa(quot(num, parts), 10) \o <<POINT>> \o Repeat(FractionDigits - Len(frac), 0)
                    \o frac, d)

PrintChar(c, d) ==
  Printed(__output_with_format(<<c>>, [d EXCEPT !.prec = -1], FALSE), Largest(d.width, 1))

\* "*" with a negative width, and "-" before "0".
Settled(d) == [d EXCEPT !.left = @ \/ d.width < 0, !.width = Abs(@), !.zero = @ /\ ~d.left /\ d.width >= 0]

\* vprintf, one item.
vprintf(item, arg) ==
  LET d == Settled(item)
  IN CASE d.conv = "s" -> PrintWord(arg, d)
       [] d.conv = "d" -> PrintInt(Signed(arg), d)
       [] d.conv = "x" -> PrintHex(arg, d)
       [] d.conv = "p" -> PrintPointer(arg)
       [] d.conv \in {"u", "z"} -> PrintUnsigned(arg, d)
       [] d.conv = "o" -> PrintOctal(arg, d)
       [] d.conv = "f" -> PrintDouble(arg, d)
       [] d.conv = "c" -> PrintChar(arg, d)
       [] d.conv = "%" -> Printed(<<PERCENT>>, 1)

--------------------------------------------------------------------------------
(* The console's own conversions (vga.c), without flags.                   *)

Nibbles == (Width + 3) \div 4
Capitals(text) == [i \in DOMAIN text |-> IF text[i] \in 10 .. 35 THEN CAPITAL + text[i] ELSE text[i]]
vga_puthex(num) ==
  <<0, X>> \o Capitals([i \in 1 .. Nibbles |-> ((num % Modulus) \div 16 ^ (Nibbles - i)) % 16])

vga_putdec(value, digits) ==
  LET text == itoa(value, 10) IN Repeat(digits - Len(text), 0) \o text

VgaPrintInt(num) == (IF num < 0 THEN <<MINUS>> ELSE <<>>) \o vga_putdec(Abs(num), 1)

\* A conversion counts as one character, whatever it writes, and a sign as another.
vga_printf(conv, arg) ==
  CASE conv = "d" -> Printed(VgaPrintInt(Signed(arg)), IF Signed(arg) < 0 THEN 2 ELSE 1)
    [] conv = "x" -> Printed(vga_puthex(arg), 1)
    [] conv = "s" -> Printed(arg, 1)
    [] conv = "c" -> Printed(<<arg>>, 1)
    [] conv = "%" -> Printed(<<PERCENT>>, 1)
    [] OTHER -> Printed(<<PERCENT, OTHER_CHAR>>, 2)

--------------------------------------------------------------------------------
(* Formatting into a buffer, and reading from one.                         *)

\* vsprintf, one item: the width is read and not used.
vsprintf(item, arg) ==
  CASE item.conv = "s" -> arg
    [] item.conv \in {"d", "u"} -> itoa(Signed(arg), 10)
    [] item.conv = "x" -> itoa(Signed(arg), 16)
    [] item.conv = "c" -> <<arg>>
    [] item.conv = "p" -> <<0, X>> \o itoa(Signed(arg), 16)
    [] item.conv = "%" -> <<PERCENT>>

\* vsnprintf: each character is written while dst < end; %p only where its
\* prefix and one digit fit.
vsnprintf(items, args, n) ==
  FoldLeft(LAMBDA dst, k : LET text == vsprintf(items[k], args[k])
                               room == n - 1 - Len(dst)
                           IN IF room <= 0 \/ (items[k].conv = "p" /\ room <= 2) THEN dst
                              ELSE dst \o SubSeq(text, 1, Min({Len(text), room})),
           <<>>, [k \in DOMAIN items |-> k])

\* sscanf with one directive: the value, and how many characters it took.
sscanf(str, conv, width) ==
  LET from == Skip(str, 1, {BLANK, RETURN, LINE})
      digits == IF conv = "d" THEN AfterSign(str, from)
                ELSE IF conv = "x" /\ At(str, from) = 0 /\ At(str, from + 1) = X THEN from + 2 ELSE from
      r == Number(IF width = 0 THEN str ELSE SubSeq(str, 1, Min({Len(str), digits + width - 1})),
                  digits, IF conv = "x" THEN 16 ELSE 10)
  IN IF r.end = digits THEN [count |-> 0, val |-> 0]
     ELSE [count |-> 1, val |-> IF conv = "d" THEN WithSign(str, from, r).val ELSE r.val]

Arguments(d) == IF d.conv = "s" THEN Texts ELSE IF d.conv = "c" THEN {1}
                ELSE IF d.conv = "f" THEN Doubles ELSE Ints

\* The conversions share no state with the readers: a program makes one or the
\* other.  vsnprintf reads neither flags nor widths.
Bare == {d \in Formats : d = [conv |-> d.conv, left |-> FALSE, zero |-> FALSE, sign |-> 0,
                              alt |-> FALSE, width |-> 0, prec |-> -1]}
Plain == {d \in Bare : d.conv \notin {"z", "o", "f"}}

Format ==
  /\ formatted.fn = "none" /\ reading_call = NoCall
  /\ \/ \E d \in Formats : \E arg \in Arguments(d) :
          formatted' = [fn |-> "printf", d |-> Settled(d), arg |-> arg, r |-> vprintf(d, arg)]
     \/ \E d \in {e \in Bare : e.conv # "f"} : \E arg \in Arguments(d) :
          formatted' = [fn |-> "vga_printf", d |-> d, arg |-> arg, r |-> vga_printf(d.conv, arg)]
     \/ \E d, e \in Plain, n \in BufferSizes :
          \E a \in Arguments(d), b \in Arguments(e) :
            formatted' = [fn |-> "snprintf", ds |-> <<d, e>>, n |-> n,
                          whole |-> vsprintf(d, a) \o vsprintf(e, b), r |-> vsnprintf(<<d, e>>, <<a, b>>, n)]
     \/ \E conv \in {"d", "u", "x"}, num \in Ints :
          formatted' = [fn |-> "sscanf", conv |-> conv, num |-> num,
                        r |-> sscanf(<<BLANK>> \o vsprintf([conv |-> conv], num), conv, 0)]
  /\ UNCHANGED input_vars

StdioNext == (formatted.fn = "none" /\ InputNext) \/ Format

--------------------------------------------------------------------------------
\* What the keys make of the text: the erased characters are gone, and a line
\* is given to the program when it is complete.
Line(keys) == FoldLeft(LAMBDA line, k : IF k # ERASE THEN Append(line, k)
                                        ELSE SubSeq(line, 1, Len(line) - 1), <<>>, keys)
Ends(keys) == {i \in DOMAIN keys : keys[i] = LINE}
TextOf(keys) ==
  FoldLeft(LAMBDA text, i :
             text \o Line(SubSeq(keys, 1 + Max({j \in Ends(keys) : j < i} \union {0}), i)),
           <<>>, SetToSortSeq(Ends(keys), <))

\* Every character of every line reaches the readers once and in order, through
\* the buffer and the pushback, whichever readers are mixed; a line longer than
\* the buffer is the exception (stdio.c:103-157, 948-975).
TypedIsRead ==
  ~overlong =>
    LET back == IF unget_char # EOF THEN <<unget_char>> ELSE <<>>
        rest == IF input_reading THEN <<>> ELSE SubSeq(stdin_buffer, input_buffer_pos, Len(stdin_buffer))
    IN consumed \o back \o rest = TextOf(typed_keys)

\* vprintf counts what it writes (stdio.c:371-628) unless a precision cuts a
\* number or a sign and zeros do not fit the width, and writes two doubles alike
\* only when they differ in a sign that is lost between -1 and 1; the console's
\* vga_printf writes what vprintf writes without flags, but a %x with its prefix, all its zeros
\* and capitals where vprintf's are small (vga.c:169-260, 339-344; stdlib.c:334);
\* vsnprintf writes the front of what vsprintf writes and room for the NUL is left
\* (stdio.c:648-797); sscanf reads back the number that was written (stdio.c:805-945).
ConversionsAgree ==
  /\ formatted.fn = "printf" =>
       LET d == formatted.d
           exact == d.conv \in {"s", "x", "p", "c", "%"} \/
                    (d.prec < 0 /\ ~(d.zero /\ (d.sign # 0 \/ Signed(formatted.arg) < 0) /\ d.width < Len(formatted.r.out)))
       IN exact => Len(formatted.r.out) = formatted.r.n /\ (d.conv \notin {"x", "p", "%"} => formatted.r.n >= d.width)
  /\ formatted.fn = "printf" /\ formatted.d.conv = "f" /\ formatted.d.prec < 0 =>
       \A num \in Doubles :
         formatted.r.out = PrintDouble(num, formatted.d).out
           <=> (num = formatted.arg \/ (num = -formatted.arg /\ Abs(num) < 10 ^ FractionDigits))
  /\ formatted.fn = "vga_printf" =>
       LET conv == formatted.d.conv
           text == vprintf(formatted.d, formatted.arg).out
       IN /\ conv \in {"s", "c", "%"} \/ (conv = "d" /\ Signed(formatted.arg) # Lowest) =>
               formatted.r.out = text
          /\ conv = "x" /\ Signed(formatted.arg) >= 0 =>
               \E k \in 0 .. Nibbles : formatted.r.out = <<0, X>> \o Repeat(k, 0) \o Capitals(text)
  /\ formatted.fn = "snprintf" =>
       LET room == Largest(formatted.n - 1, 0)
           front == SubSeq(formatted.whole, 1, Min({Len(formatted.whole), room}))
       IN /\ Len(formatted.r) <= room
          /\ (\A k \in {1, 2} : formatted.ds[k].conv # "p") => formatted.r = front
  /\ formatted.fn = "sscanf" =>
       (formatted.num \in (IF formatted.conv = "d" THEN Lowest + 1 ELSE 0) .. -Lowest - 1
          => formatted.r = [count |-> 1, val |-> formatted.num])
================================================================================
