-------------------------------- MODULE Stdlib --------------------------------
(***************************************************************************)
(* lib/libc/stdlib.c but for its heap, which is module Heap: numbers and   *)
(* their digits, sorting and searching, the pseudo-random numbers and the  *)
(* exit handlers.  An int is Width bits wide, long and long long behave    *)
(* alike, and a char is its digit value or one of the classes below.       *)
(***************************************************************************)
EXTENDS Heap, SequencesExt

CONSTANTS
  MaxExits,     \* the 32 entries of atexit_funcs
  Bases,        \* bound: bases of a conversion
  Values,       \* bound: elements of an array that is sorted
  MaxLen        \* bound: length of such an array

ASSUME StdlibAssumption == Bases \subseteq 2 .. 36

VARIABLES
  next_rand,
  atexit_count

stdlib_vars == <<heap_vars, next_rand, atexit_count>>

Lowest == -(2 ^ (Width - 1))
Signed(n) == ((n - Lowest) % Modulus) + Lowest

-----------------------------------------------------------------------------
(* Numbers.                                                                *)

BLANK == 36     \* space, tab and newline
RETURN == 37    \* carriage return, form feed and vertical tab
MINUS == 38
PLUS == 39
OTHER_CHAR == 40
X == 33         \* the letter, as a digit

At(s, i) == IF i \in DOMAIN s THEN s[i] ELSE OTHER_CHAR
Skip(s, i, chars) == Min({j \in i .. Len(s) + 1 : At(s, j) \notin chars})
Number(s, i, base) ==
  LET stop == Skip(s, i, 0 .. base - 1)
  IN [val |-> FoldLeft(LAMBDA n, d : Signed(n * base + d), 0, SubSeq(s, i, stop - 1)), end |-> stop]
WithSign(s, i, r) == [r EXCEPT !.val = IF At(s, i) = MINUS THEN Signed(-r.val) ELSE r.val]
AfterSign(s, i) == IF At(s, i) \in {MINUS, PLUS} THEN i + 1 ELSE i

atoi(s) ==
  LET i == Skip(s, 1, {BLANK, RETURN}) IN WithSign(s, i, Number(s, AfterSign(s, i), 10)).val

\* strtol and strtoll; 0x in front only for base 16 or a base that is to be found out.
strtol(s, base) ==
  LET i == Skip(s, 1, {BLANK})
      p == AfterSign(s, i)
      hex == base \in {0, 16} /\ At(s, p) = 0 /\ At(s, p + 1) = X
      b == IF base # 0 THEN base ELSE IF hex THEN 16 ELSE IF At(s, p) = 0 THEN 8 ELSE 10
  IN WithSign(s, i, Number(s, IF hex THEN p + 2 ELSE p, b))

\* Division of C: towards zero (div, ldiv, lldiv, __divdi3, __moddi3).
Abs(n) == IF n < 0 THEN -n ELSE n
quot(n, d) == IF n < 0 THEN -(Abs(n) \div d) ELSE n \div d
rem(n, d) == n - d * quot(n, d)

\* A negative remainder gives a character below '0'.
Digit(r) == IF r < 0 THEN OTHER_CHAR ELSE r

RECURSIVE Digits(_, _)
Digits(num, base) ==
  IF num = 0 THEN <<>> ELSE Append(Digits(quot(num, base), base), Digit(rem(num, base)))

\* itoa, ltoa and lltoa.
itoa(num, base) ==
  IF num = 0 THEN <<0>>
  ELSE IF num < 0 /\ base = 10 THEN <<MINUS>> \o Digits(Signed(-num), base)
  ELSE Digits(num, base)

-----------------------------------------------------------------------------
(* Sorting and searching.                                                  *)

Swapped(s, i, j) == [s EXCEPT ![i] = s[j], ![j] = s[i]]

\* The state of partition after each element from low to high - 1: array and i.
Partition(s, low, high) ==
  LET Step(st, j) == IF st.s[j] < s[high] THEN [s |-> Swapped(st.s, st.i, j), i |-> st.i + 1] ELSE st
      st == FoldLeft(Step, [s |-> s, i |-> low], [k \in 1 .. high - low |-> low + k - 1])
  IN [s |-> Swapped(st.s, st.i, high), i |-> st.i]

\* Mutant: the element behind the pivot is left out.
RECURSIVE quicksortShort(_, _, _)
quicksortShort(s, low, high) ==
  IF low >= high THEN s
  ELSE LET p == Partition(s, low, high)
       IN quicksortShort(IF p.i > 1 THEN quicksortShort(p.s, low, p.i - 1) ELSE p.s, p.i + 2, high)

\* Positions count from 1 here.
RECURSIVE quicksort(_, _, _)
quicksort(s, low, high) ==
  IF low >= high THEN s
  ELSE LET p == Partition(s, low, high)
       IN quicksort(IF p.i > 1 THEN quicksort(p.s, low, p.i - 1) ELSE p.s, p.i + 1, high)

qsort(s) == IF Len(s) > 1 THEN quicksort(s, 1, Len(s)) ELSE s

RECURSIVE Bisect(_, _, _, _)
Bisect(key, s, low, high) ==
  LET mid == low + (high - low) \div 2
  IN IF low >= high THEN 0
     ELSE IF key = s[mid] THEN mid
     ELSE IF key < s[mid] THEN Bisect(key, s, low, mid) ELSE Bisect(key, s, mid + 1, high)

bsearch(key, s) == Bisect(key, s, 1, Len(s) + 1)

-----------------------------------------------------------------------------
(* Wide characters: a code up to 255 has a char.                           *)

mbstowcs(src, max) == SubSeq(src, 1, Min({max, Len(src)}))
wcstombs(src, max) ==
  IF \E i \in 1 .. Min({max, Len(src)}) : src[i] > 255 THEN <<-1>> ELSE mbstowcs(src, max)

-----------------------------------------------------------------------------
(* The calls.  Heap, pseudo-random numbers, exit handlers and pure         *)
(* functions share no state: a program makes calls of one kind.            *)

StdlibInit ==
  /\ HeapInit /\ next_rand = 1 /\ atexit_count = 0

Convert ==
  /\ stdlib_ret.fn = "none"
  /\ \E n \in Lowest .. -Lowest - 1, base \in Bases :
       Returned([fn |-> "itoa", n |-> n, base |-> base, val |-> itoa(n, base)])
  /\ UNCHANGED <<heap, heap_end, blocks, exhausted, next_rand, atexit_count>>

Arrays == UNION {[1 .. n -> Values] : n \in 0 .. MaxLen}
Sort ==
  /\ stdlib_ret.fn = "none"
  /\ \E s \in Arrays : Returned([fn |-> "qsort", of |-> s, val |-> qsort(s)])
  /\ UNCHANGED <<heap, heap_end, blocks, exhausted, next_rand, atexit_count>>
Find ==
  /\ stdlib_ret.fn = "qsort"
  /\ \E key \in Values : Returned([fn |-> "bsearch", key |-> key, in |-> stdlib_ret.val,
                                    val |-> bsearch(key, stdlib_ret.val)])
  /\ UNCHANGED <<heap, heap_end, blocks, exhausted, next_rand, atexit_count>>

\* The upper half of the next number but for its first bit; srand sets next_rand to any.
rand ==
  /\ stdlib_ret.fn \in {"none", "rand", "srand"}
  /\ next_rand' = (next_rand * (1103515245 % Modulus) + 12345) % Modulus
  /\ Returned([fn |-> "rand",
               val |-> (next_rand' \div 2 ^ (Width \div 2)) % 2 ^ (Width \div 2 - 1)])
  /\ UNCHANGED <<heap, heap_end, blocks, exhausted, atexit_count>>

srand ==
  /\ stdlib_ret.fn = "none"
  /\ next_rand' \in 0 .. Modulus - 1
  /\ Returned([fn |-> "srand"])
  /\ UNCHANGED <<heap, heap_end, blocks, exhausted, atexit_count>>

atexit ==
  /\ stdlib_ret.fn \in {"none", "atexit"}
  /\ atexit_count' = Min({atexit_count + 1, MaxExits})
  /\ Returned([fn |-> "atexit", ok |-> atexit_count < MaxExits])
  /\ UNCHANGED <<heap, heap_end, blocks, exhausted, next_rand>>

StdlibNext ==
  \/ HeapCall /\ UNCHANGED <<next_rand, atexit_count>>
  \/ Convert \/ Sort \/ Find \/ rand \/ srand \/ atexit

-----------------------------------------------------------------------------
(* Properties.                                                             *)

\* A number that is written in base 10 is read back, by atoi and by strtol to the last digit, and
\* so is a number that is not negative in any base; the lowest one has no opposite.  Characters go
\* through wide ones and back, unless one has no char (stdlib.c:120-430, 577-598).
RoundTrips ==
  stdlib_ret.fn = "itoa" /\ stdlib_ret.n # Lowest /\ (stdlib_ret.n >= 0 \/ stdlib_ret.base = 10) =>
    /\ strtol(stdlib_ret.val, stdlib_ret.base) = [val |-> stdlib_ret.n, end |-> Len(stdlib_ret.val) + 1]
    /\ stdlib_ret.base = 10 => atoi(stdlib_ret.val) = stdlib_ret.n
    /\ \A max \in 0 .. Len(stdlib_ret.val) :
         LET wide == mbstowcs(stdlib_ret.val, max)
         IN /\ wcstombs(wide, max) = wide
            /\ max > 0 => wcstombs([wide EXCEPT ![max] = 256], max) = <<-1>>

\* qsort puts the same elements into ascending order, and bsearch answers an element equal to the
\* key when there is one (stdlib.c:477-538).
SortedAndFound ==
  /\ stdlib_ret.fn = "qsort" =>
       /\ \A i \in 1 .. Len(stdlib_ret.val) - 1 : stdlib_ret.val[i] <= stdlib_ret.val[i + 1]
       /\ \A v \in Values : Cardinality({i \in DOMAIN stdlib_ret.of : stdlib_ret.of[i] = v})
                              = Cardinality({i \in DOMAIN stdlib_ret.val : stdlib_ret.val[i] = v})
  /\ stdlib_ret.fn = "bsearch" =>
       IF stdlib_ret.key \in {stdlib_ret.in[i] : i \in DOMAIN stdlib_ret.in}
       THEN stdlib_ret.val # 0 /\ stdlib_ret.in[stdlib_ret.val] = stdlib_ret.key
       ELSE stdlib_ret.val = 0
=============================================================================
