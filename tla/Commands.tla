------------------------------ MODULE Commands ------------------------------
(* The computing commands: bin/bc.c with its interactive line buffer,        *)
(* bin/expr.c, bin/factor.c and bin/rand.c.  A text is a sequence of         *)
(* one-letter strings.                                                       *)
EXTENDS Integers, Sequences, FiniteSets, SequencesExt

CONSTANTS
  BcKeys,          \* the keys typed to bc besides Enter
  BcLine,          \* the size of bc's buffer expr
  BcTokens,        \* the tokens of a line that bc evaluates
  QuitLine,        \* the text "quit"
  MaxBcKeys,       \* bound on the keys of one line
  ExprNumbers,     \* the numbers given to expr and factor
  RandBits,        \* width of an unsigned number of rand
  RandA, RandC     \* the constants of its generator

ASSUME CommandsAssumption ==
  /\ BcLine \in Nat \ {0} /\ BcTokens \in Nat \ {0} /\ MaxBcKeys \in Nat
  /\ RandBits \in Nat \ {0} /\ ExprNumbers \subseteq Int

VARIABLES
  bc,              \* its state, buffer, and the keys since the last Enter
  seed,            \* of rand
  command_ret,     \* the last command, its arguments and its outcome
  command          \* the command this run is about
commands_vars == <<bc, seed, command_ret, command>>

DecimalDigits == <<"0", "1", "2", "3", "4", "5", "6", "7", "8", "9">>
DigitOf(c) == IF Contains(DecimalDigits, c) THEN SelectInSeq(DecimalDigits, LAMBDA d : d = c) - 1
              ELSE -1
Failed == [ok |-> FALSE, value |-> 0]
Value(n) == [ok |-> TRUE, value |-> n]
\* C's division, towards zero.
Quotient(a, b) ==
  LET abs(n) == IF n < 0 THEN -n ELSE n
      q == abs(a) \div abs(b)
  IN IF (a < 0) = (b < 0) THEN q ELSE -q

-----------------------------------------------------------------------------
\* The number that a text of digits, with or without a sign, starts with.
RECURSIVE Leading(_, _)
Leading(s, n) ==
  IF s = <<>> \/ DigitOf(Head(s)) < 0 THEN n
  ELSE Leading(Tail(s), 10 * n + DigitOf(Head(s)))
NumberOf(s) ==
  CASE s # <<>> /\ Head(s) = "-" -> -Leading(Tail(s), 0)
    [] s # <<>> /\ Head(s) = "+" -> Leading(Tail(s), 0)
    [] OTHER -> Leading(s, 0)

\* The words of a line, as strtok separates them by blanks.
Words(line) ==
  LET step(acc, c) ==
        IF c = " " THEN [acc EXCEPT !.open = FALSE]
        ELSE IF acc.open THEN [acc EXCEPT !.words[Len(acc.words)] = Append(@, c)]
        ELSE [words |-> Append(acc.words, <<c>>), open |-> TRUE]
  IN FoldLeft(step, [words |-> <<>>, open |-> FALSE], line).words

\* eval_expr: operators apply from left to right; a last word without an
\* operand is ignored.
RECURSIVE Evaluated(_, _, _)
Evaluated(args, i, res) ==
  LET val == NumberOf(args[i + 1])
      next(n) == Evaluated(args, i + 2, n)
  IN IF i + 1 > Len(args) THEN Value(res)
     ELSE CASE args[i] = <<"+">> -> next(res + val)
            [] args[i] = <<"-">> -> next(res - val)
            [] args[i] = <<"*">> -> next(res * val)
            [] args[i] = <<"/">> /\ val # 0 -> next(Quotient(res, val))
            [] OTHER -> Failed
eval_expr(args) ==
  IF args = <<>> THEN Failed ELSE Evaluated(args, 2, NumberOf(args[1]))

\* calculate and expr_main on parsed numbers; a division by zero is
\* reported and gives 0.
calculate(num1, num2, operator) ==
  CASE operator = "+" -> Value(num1 + num2)
    [] operator = "-" -> Value(num1 - num2)
    [] operator = "*" -> Value(num1 * num2)
    [] operator = "/" -> Value(IF num2 = 0 THEN 0 ELSE Quotient(num1, num2))
    [] OTHER -> Failed

\* factor_main: the factors it prints.
RECURSIVE Divided(_, _)
Divided(n, i) ==
  IF i > 2 /\ i * i > n THEN IF n > 1 THEN <<n>> ELSE <<>>
  ELSE IF n % i = 0 THEN <<i>> \o Divided(n \div i, i)
  ELSE Divided(n, IF i = 2 THEN 3 ELSE i + 2)
Factors(number) ==
  LET n == IF number < 0 THEN -number ELSE number
  IN IF n <= 1 THEN <<>> ELSE Divided(n, 2)

rand_next(s) == (RandA * s + RandC) % 2 ^ RandBits
\* rand_main: the seed at which the loop ends and the number printed.
RandRange(upper_bound) == (upper_bound + 1) % 2 ^ RandBits
max_allowed(range) == ((2 ^ RandBits - 1) \div range) * range
RECURSIVE Drawn(_, _)
Drawn(s, range) ==
  LET n == rand_next(s)
  IN IF n >= max_allowed(range) THEN Drawn(n, range) ELSE n

-----------------------------------------------------------------------------
CommandsInit ==
  /\ bc = [on |-> FALSE, expr |-> <<>>, typed |-> <<>>]
  /\ seed = 12345 % 2 ^ RandBits
  /\ command_ret = [call |-> "none", args |-> <<>>, ret |-> Failed]
  /\ command \in {"bc", "expr", "factor", "rand"}

Returns(call, args, ret) ==
  /\ command = call /\ UNCHANGED command
  /\ command_ret' = [call |-> call, args |-> args, ret |-> ret]
\* The command goes on and has not returned.
InCommand(call) ==
  /\ command = call /\ UNCHANGED command
  /\ command_ret' = [call |-> "none", args |-> <<>>, ret |-> Failed]

BcStarts ==
  /\ ~bc.on /\ bc' = [on |-> TRUE, expr |-> <<>>, typed |-> <<>>]
  /\ InCommand("bc") /\ UNCHANGED seed

\* A character is kept while the buffer has room; others are ignored.
Kept(expr, c) == IF Len(expr) < BcLine - 1 THEN Append(expr, c) ELSE expr
BcKey(c) ==
  /\ bc.on /\ Len(bc.typed) < MaxBcKeys
  /\ bc' = [bc EXCEPT !.expr = Kept(@, c), !.typed = Append(@, c)]
  /\ InCommand("bc") /\ UNCHANGED seed
BcEnter ==
  LET tokens == Words(bc.expr)
      used == SubSeq(tokens, 1, IF Len(tokens) < BcTokens THEN Len(tokens)
                                ELSE BcTokens)
  IN /\ bc.on
     /\ bc' = [on |-> bc.expr # QuitLine, expr |-> <<>>, typed |-> <<>>]
     /\ IF bc.expr \in {<<>>, QuitLine} THEN InCommand("bc")
        ELSE Returns("bc", <<bc.typed>>, eval_expr(used))
     /\ UNCHANGED seed

Expr(num1, operator, num2) ==
  /\ Returns("expr", <<num1, num2, operator>>, calculate(num1, num2, operator))
  /\ UNCHANGED <<bc, seed>>
Factor(n) ==
  /\ Returns("factor", <<n>>, Factors(n))
  /\ UNCHANGED <<bc, seed>>

\* rand without a bound prints the next number; a bound of 0 is refused; the
\* largest bound makes the range 0 and the division fault (not modelled).
Rand(upper_bound) ==
  LET range == RandRange(upper_bound)
      n == Drawn(seed, range)
  IN /\ IF upper_bound = 0 THEN Returns("rand", <<0>>, Failed) /\ UNCHANGED seed
        ELSE Returns("rand", <<upper_bound>>, Value(n % range)) /\ seed' = n
     /\ UNCHANGED bc
RandPlain ==
  /\ seed' = rand_next(seed) /\ UNCHANGED bc
  /\ Returns("rand", <<>>, Value(seed'))

CommandsNext ==
  \/ BcStarts \/ BcEnter \/ RandPlain
  \/ \E c \in BcKeys : BcKey(c)
  \/ \E n \in ExprNumbers : Factor(n)
  \/ \E n, k \in ExprNumbers, op \in {"+", "-", "*", "/"} : Expr(n, op, k)
  \/ \E n \in 0..2 ^ RandBits - 2 : Rand(n)

-----------------------------------------------------------------------------
\* The value of n words: of all but the last two, and those two.
RECURSIVE Meaning(_, _)
Meaning(args, n) ==
  LET before == Meaning(args, n - 2)
      val == NumberOf(args[n])
  IN IF n = 1 THEN Value(NumberOf(args[1]))
     ELSE IF ~before.ok THEN Failed
     ELSE CASE args[n - 1] = <<"+">> -> Value(before.value + val)
            [] args[n - 1] = <<"-">> -> Value(before.value - val)
            [] args[n - 1] = <<"*">> -> Value(before.value * val)
            [] args[n - 1] = <<"/">> /\ val # 0 ->
                 Value(Quotient(before.value, val))
            [] OTHER -> Failed

\* A line typed to bc is worth what its first characters and words are,
\* whatever was typed before; the factors printed are primes whose product
\* is the number; rand prints a number from 0 to the bound, and of the 2^w
\* numbers of its generator it accepts as many for each, so that the loop
\* ends.  (bc.c; factor.c; rand.c.)
CommandsCompute ==
  LET args == command_ret.args
      ret == command_ret.ret
  IN CASE command_ret.call = "bc" ->
            LET line == SubSeq(args[1], 1, IF Len(args[1]) < BcLine THEN Len(args[1])
                                           ELSE BcLine - 1)
                words == Words(line)
                n == IF Len(words) < BcTokens THEN Len(words) ELSE BcTokens
            IN ret = IF n = 0 THEN Failed
                     ELSE Meaning(words, IF n % 2 = 1 THEN n ELSE n - 1)
       [] command_ret.call = "factor" ->
            /\ \A i \in DOMAIN ret : /\ ret[i] > 1
                                     /\ \A d \in 2..ret[i] - 1 : ret[i] % d # 0
            /\ ret # <<>> => FoldLeft(LAMBDA a, b : a * b, 1, ret)
                               \in {args[1], -args[1]}
            /\ ret = <<>> <=> args[1] \in -1..1
       [] command_ret.call = "rand" /\ args # <<>> /\ args[1] > 0 ->
            LET range == args[1] + 1
                all == {n \in 0..2 ^ RandBits - 1 : n < max_allowed(range)}
            IN /\ ret.value \in 0..args[1]
               /\ \A k \in 0..args[1] :
                    Cardinality({n \in all : n % range = k}) * range
                      = Cardinality(all)
       [] OTHER -> TRUE
=============================================================================
