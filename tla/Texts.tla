------------------------------- MODULE Texts --------------------------------
(***************************************************************************)
(* Characters, patterns and printable texts: ctype.c, fnmatch.c and vis.c. *)
(* A character is its code, a text a sequence of codes without the         *)
(* terminator.  The calls are independent: a behaviour makes one.          *)
(***************************************************************************)
EXTENDS Integers, Sequences, SequencesExt

CONSTANTS Codes,                \* arguments of the tests of ctype.c
          Patterns, Subjects,   \* arguments of fnmatch
          VisChars, VisFlags,   \* characters; sets of flags of vis
          VisTexts              \* arguments of strvis and its variants

ASSUME TextsAssumption ==
  /\ Codes \subseteq Int
  /\ Patterns \subseteq Seq(1..255) /\ Subjects \subseteq Seq(1..255)
  /\ VisChars \subseteq 0..255 /\ VisTexts \subseteq Seq(0..255)

VARIABLE text_call   \* the call made and its result
texts_vars == <<text_call>>

EOS == 0
BANG == 33
STAR == 42
DASH == 45
DOT == 46
SLASH == 47
QUESTION == 63
OPEN == 91
BACKSLASH == 92
CLOSE == 93
CARET == 94

-----------------------------------------------------------------------------
\* ctype.  Of the table's bits the tests read UP, LOW, DIG and PUN only.
UpperCodes == 65..90
LowerCodes == 97..122
DigitCodes == 48..57
PunctCodes == 33..47 \cup 58..64 \cup 91..96 \cup 123..126
ctype_table(c) == CASE c \in UpperCodes -> "UP" [] c \in LowerCodes -> "LOW"
                    [] c \in DigitCodes -> "DIG" [] c \in PunctCodes -> "PUN"
                    [] OTHER -> "none"
InTable(c, bits) == c \in 0..127 /\ ctype_table(c) \in bits

isalnum(c) == InTable(c, {"UP", "LOW", "DIG"})
isalpha(c) == InTable(c, {"UP", "LOW"})
isgraph(c) == InTable(c, {"UP", "LOW", "DIG", "PUN"})
ispunct(c) == InTable(c, {"PUN"})
isblank(c) == c \in {32, 9}
iscntrl(c) == c \in 0..31 \cup {127}
isdigit(c) == c >= 48 /\ c <= 57
islower(c) == c >= 97 /\ c <= 122
isupper(c) == c >= 65 /\ c <= 90
isprint(c) == c >= 32 /\ c < 127
isspace(c) == c \in {32, 9, 10, 13, 12, 11}
isxdigit(c) == isdigit(c) \/ c \in 97..102 \/ c \in 65..70
tolower(c) == IF isupper(c) THEN c + 32 ELSE c
toupper(c) == IF islower(c) THEN c - 32 ELSE c
isascii(c) == c \in 0..127
toascii(c) == c % 128

-----------------------------------------------------------------------------
\* fnmatch.  A pattern read behind its terminator makes the result "overrun".
CharAt(p, i) == IF i <= Len(p) THEN p[i] ELSE EOS
Past(p, i) == i > Len(p) + 1

\* rangematch from an index: whether the character is in the list, -1 for a
\* list without an end, and the index behind the closing bracket.
RECURSIVE Listed(_, _, _, _, _)
Listed(p, i, test, noescape, ok) ==
  LET escaped(j) == CharAt(p, j) = BACKSLASH /\ ~noescape
      c == IF escaped(i) THEN CharAt(p, i + 1) ELSE CharAt(p, i)
      j == IF escaped(i) THEN i + 2 ELSE i + 1
      range == CharAt(p, j) = DASH /\ CharAt(p, j + 1) \notin {CLOSE, EOS}
      c2 == IF escaped(j + 1) THEN CharAt(p, j + 2) ELSE CharAt(p, j + 1)
      k == IF escaped(j + 1) THEN j + 3 ELSE j + 2
  IN IF Past(p, i) THEN [ok |-> "overrun", at |-> i]
     ELSE IF CharAt(p, i) = CLOSE THEN [ok |-> IF ok THEN "in" ELSE "out", at |-> i + 1]
     ELSE IF CharAt(p, i) = EOS THEN [ok |-> "endless", at |-> i]
     ELSE IF Past(p, j) THEN [ok |-> "overrun", at |-> j]
     ELSE IF range THEN Listed(p, k, test, noescape, ok \/ (c <= test /\ test <= c2))
     ELSE Listed(p, j, test, noescape, ok \/ c = test)
rangematch(p, i, test, noescape) ==
  LET negate == CharAt(p, i) \in {BANG, CARET}
      r == Listed(p, IF negate THEN i + 1 ELSE i, test, noescape, FALSE)
  IN IF negate /\ r.ok \in {"in", "out"}
     THEN [r EXCEPT !.ok = IF @ = "in" THEN "out" ELSE "in"] ELSE r

\* match: the pattern from i on, the string from k on, begun at start.
RECURSIVE match(_, _, _, _, _, _)
\* Mutant: the star needs a character of its own.
StarTakesOne(p, j, s, k, flags) ==
  LET tries == {n \in k + 1..Len(s) : match(p, j, s, n, n, flags) # "no"}
  IN IF tries = {} THEN "no"
     ELSE LET n == CHOOSE n \in tries : \A o \in tries : n <= o
          IN match(p, j, s, n, n, flags)

\* The rest of a pattern behind a star is tried from each character on.
StarTakes(p, j, s, k, flags) ==
  LET tries == {n \in k..Len(s) : /\ ~("PATHNAME" \in flags /\ s[n] = SLASH)
                                  /\ match(p, j, s, n, n, flags) # "no"}
  IN IF tries = {} THEN "no"
     ELSE LET n == CHOOSE n \in tries : \A o \in tries : n <= o
          IN match(p, j, s, n, n, flags)
match(p, i, s, k, start, flags) ==
  LET noescape == "NOESCAPE" \in flags
      path == "PATHNAME" \in flags
      special == \/ CharAt(s, k) = EOS
                 \/ path /\ s[k] = SLASH
                 \/ /\ "PERIOD" \in flags /\ s[k] = DOT
                    /\ (k = start \/ (path /\ s[k - 1] = SLASH))
      r == rangematch(p, i + 1, s[k], noescape)
      j == CHOOSE n \in i..Len(p) + 1 : /\ CharAt(p, n) # STAR
                                        /\ \A o \in i..n - 1 : CharAt(p, o) = STAR
      literal == IF CharAt(p, i) = BACKSLASH /\ ~noescape /\ CharAt(p, i + 1) # EOS
                 THEN i + 1 ELSE i
  IN CASE Past(p, i) -> "overrun"
       [] CharAt(p, i) = EOS -> IF CharAt(s, k) = EOS THEN "yes" ELSE "no"
       [] CharAt(p, i) = QUESTION ->
            IF special THEN "no" ELSE match(p, i + 1, s, k + 1, start, flags)
       [] CharAt(p, i) = STAR /\ CharAt(p, j) = EOS ->
            IF path /\ \E n \in k..Len(s) : s[n] = SLASH THEN "no" ELSE "yes"
       [] CharAt(p, i) = STAR /\ CharAt(p, j) # EOS -> StarTakes(p, j, s, k, flags)
       [] CharAt(p, i) = OPEN ->
            IF special \/ r.ok = "out" THEN "no"
            ELSE IF r.ok = "overrun" THEN "overrun"
            ELSE match(p, IF r.ok = "endless" THEN i + 1 ELSE r.at + 1,
                       s, k + 1, start, flags)
       [] OTHER ->
            IF CharAt(s, k) # CharAt(p, literal) THEN "no"
            ELSE match(p, literal + 1, s, k + 1, start, flags)
fnmatch(pattern, string, flags) == match(pattern, 1, string, 1, 1, flags)

-----------------------------------------------------------------------------
\* vis: the sequence written for a character.
Letter(c) == CASE c = 10 -> 110 [] c = 13 -> 114 [] c = 8 -> 98 [] c = 7 -> 97
               [] c = 11 -> 118 [] c = 9 -> 116 [] c = 12 -> 102 [] c = 32 -> 115
               [] OTHER -> c
Slashed(flag) == {13, 8, 7, 11, 12, BACKSLASH}
                   \cup (IF "NL" \in flag THEN {} ELSE {10})
                   \cup (IF "TAB" \in flag THEN {} ELSE {9})
                   \cup (IF "SP" \in flag THEN {32} ELSE {})
                   \cup (IF "DQ" \in flag THEN {34} ELSE {})
\* The letters of the table ctl, whose first entry is "^^" and not "^@".
ctl(c) == IF c = 0 THEN CARET ELSE c + 64
Octal(c) == <<BACKSLASH, 48 + (c \div 64), 48 + ((c \div 8) % 8), 48 + (c % 8)>>

vis(c, flag) ==
  IF "NOSLASH" \notin flag /\ c \in Slashed(flag) THEN <<BACKSLASH, Letter(c)>>
  ELSE IF "ALL" \notin flag /\ isprint(c) /\ ~("WHITE" \in flag /\ c = 32) THEN <<c>>
  ELSE IF "CSTYLE" \in flag /\ c = 127 THEN <<BACKSLASH, QUESTION>>
  ELSE IF "CSTYLE" \in flag /\ c < 32 THEN <<BACKSLASH, ctl(c)>>
  ELSE Octal(c)
strvisx(src, n, flag) ==
  FoldLeft(LAMBDA dst, c : dst \o vis(c, flag), <<>>, SubSeq(src, 1, n))
\* Up to the terminator, which may be among the n.
Length(src) == IF Contains(src, EOS) THEN SelectInSeq(src, LAMBDA c : c = EOS) - 1
               ELSE Len(src)
strvis(src, flag) == strvisx(src, Length(src), flag)
strnvis(src, n, flag) ==
  strvisx(src, IF Length(src) < n THEN Length(src) ELSE n, flag)
\* The way back is a stub: characters are copied, whatever they stand for.
strunvis(src) == SubSeq(src, 1, Length(src))
strnunvis(src, n) == SubSeq(src, 1, IF Length(src) < n THEN Length(src) ELSE n)
\* What stravis allocates for a text, its terminator included.
Maxlen(src) == Length(src) * 4 + 1

Classify(c) ==
  text_call' = [call |-> "ctype", c |-> c,
                holds |-> [alnum |-> isalnum(c), alpha |-> isalpha(c), graph |-> isgraph(c),
                           punct |-> ispunct(c), blank |-> isblank(c), cntrl |-> iscntrl(c),
                           digit |-> isdigit(c), lower |-> islower(c), upper |-> isupper(c),
                           print |-> isprint(c), space |-> isspace(c), xdigit |-> isxdigit(c),
                           ascii |-> isascii(c)],
                folded |-> <<tolower(c), toupper(c), toascii(c)>>]
TextsInit == text_call = [call |-> "none"]
Match(pattern, string, flags) ==
  text_call' = [call |-> "fnmatch", pattern |-> pattern, string |-> string,
                flags |-> flags, ret |-> fnmatch(pattern, string, flags)]
Vis(flag) == text_call' = [call |-> "vis", flag |-> flag]
StrVis(src, flag) ==
  text_call' = [call |-> "stravis", src |-> src, dst |-> strvis(src, flag),
                back |-> strunvis(strvis(src, flag)),
                counted |-> [n \in 0..Len(src) |-> strnvis(src, n, flag)],
                backs |-> [n \in 0..Len(src) |-> strnunvis(strvis(src, flag), n)]]
TextsNext ==
  /\ text_call.call = "none"
  /\ \/ \E c \in Codes : Classify(c)
     \/ \E pattern \in Patterns, string \in Subjects,
           flags \in SUBSET {"NOESCAPE", "PATHNAME", "PERIOD"} :
          Match(pattern, string, flags)
     \/ \E flag \in VisFlags : Vis(flag) \/ \E src \in VisTexts : StrVis(src, flag)

-----------------------------------------------------------------------------
\* A pattern without a list matches a string.
RECURSIVE Glob(_, _, _)
Glob(p, s, noescape) ==
  IF p = <<>> THEN s = <<>>
  ELSE CASE p[1] = STAR -> \E n \in 0..Len(s) :
                             Glob(Tail(p), SubSeq(s, n + 1, Len(s)), noescape)
         [] p[1] = QUESTION -> s # <<>> /\ Glob(Tail(p), Tail(s), noescape)
         [] p[1] = BACKSLASH /\ ~noescape /\ Len(p) > 1 ->
              s # <<>> /\ s[1] = p[2] /\ Glob(SubSeq(p, 3, Len(p)), Tail(s), noescape)
         [] OTHER -> s # <<>> /\ s[1] = p[1] /\ Glob(Tail(p), Tail(s), noescape)
\* The characters whose CSTYLE form is another one's: ctl's first entry is
\* that of 30, and the letter of 28 is the backslash itself.
Ambiguous == {0, 28}

\* The table and the comparisons of ctype.c classify a code alike: every code from 0 to 127
\* is a control or printable and no other is anything; letters are of one case, digits and
\* punctuation are neither; folding a letter to the other case and back gives it, and leaves
\* everything else (ctype.c:4-104, one table and ranges written out beside it).
CharactersAreClassed ==
  text_call.call = "ctype" =>
    LET c == text_call.c
        is == text_call.holds
    IN /\ is.ascii <=> (is.cntrl \/ is.print)
       /\ ~(is.cntrl /\ is.print)
       /\ (\E n \in DOMAIN is : is[n]) => is.ascii
       /\ is.alpha <=> (is.lower \/ is.upper)
       /\ is.alnum <=> (is.alpha \/ is.digit)
       /\ is.graph <=> (is.print /\ ~is.space)
       /\ is.punct <=> (is.graph /\ ~is.alnum)
       /\ is.xdigit => is.alnum
       /\ is.blank => is.space
       /\ is.space => is.cntrl \/ is.blank
       /\ is.upper <=> text_call.folded[1] # c
       /\ is.lower <=> text_call.folded[2] # c
       /\ toupper(tolower(c)) = text_call.folded[2] /\ tolower(toupper(c)) = text_call.folded[1]
       /\ is.ascii <=> text_call.folded[3] = c

\* A pattern without a list is matched as its characters say, when slashes and
\* periods are not special, and is never read behind its end; a text that
\* vis has written can be read back, since no character's form begins
\* another's, those of 0 and 28 excepted and unless NOSLASH leaves
\* backslashes as they are; strunvis gives back the texts that needed no
\* form other than themselves, and those alone; and a form has at most four characters, as
\* many as stravis allocates, so that no text outgrows its buffer.
\* (fnmatch.c; vis.c.)
TextsAreRead ==
  CASE text_call.call = "fnmatch" /\ ~Contains(text_call.pattern, OPEN) ->
         /\ text_call.ret # "overrun"
         /\ text_call.flags \subseteq {"NOESCAPE"} =>
              (text_call.ret = "yes") =
                Glob(text_call.pattern, text_call.string,
                     "NOESCAPE" \in text_call.flags)
    [] text_call.call = "vis" /\ "NOSLASH" \notin text_call.flag ->
         \A c, d \in VisChars \ Ambiguous :
           c # d => ~IsPrefix(vis(c, text_call.flag), vis(d, text_call.flag))
    [] text_call.call = "stravis" ->
         /\ Len(text_call.dst) < Maxlen(text_call.src)
         /\ \A n \in DOMAIN text_call.counted :
              /\ IsPrefix(text_call.counted[n], text_call.dst)
              /\ IsPrefix(text_call.backs[n], text_call.back)
         /\ (text_call.back = SubSeq(text_call.src, 1, Length(text_call.src)))
              = (Len(text_call.dst) = Length(text_call.src))
    [] OTHER -> TRUE
=============================================================================
