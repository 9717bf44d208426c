------------------------------- MODULE Strings -------------------------------
(***************************************************************************)
(* lib/libc/string.c over a memory of MemSize bytes.  An action is a call  *)
(* by a program that keeps the rules of the C standard: its strings are    *)
(* terminated and its destination has the room the comments of the file    *)
(* ask for.  A loop over bytes is the memory it leaves behind.             *)
(***************************************************************************)
EXTENDS Integers, FiniteSets, SequencesExt

CONSTANTS
  MemSize,   \* bound: bytes of memory
  Chars,     \* bound: the characters that occur in it
  Delims     \* the delimiter sets handed to strtok and strspn

ASSUME StringsAssumption == MemSize \in Nat

VARIABLES
  mem,          \* address -> byte
  last_token,   \* where strtok goes on, or NULL
  string_ret,   \* the last call: function, arguments and result
  scan,         \* ghost: memory, string and delimiters of the last strtok on a string
  tokens        \* ghost: the addresses strtok answered since

strings_vars == <<mem, last_token, string_ret, scan, tokens>>

NUL == 0
NULL == -1
Address == 0 .. MemSize - 1

Terminated(m, p) == \E a \in p .. MemSize - 1 : m[a] = NUL
Terminator(m, p) == Min({a \in p .. MemSize - 1 : m[a] = NUL})
strlen(m, p) == Terminator(m, p) - p
Content(m, p) == [i \in 1 .. strlen(m, p) |-> m[p + i - 1]]

\* Memory after the bytes b were written at d.
Store(m, d, b) == [a \in Address |-> IF a - d \in 0 .. Len(b) - 1 THEN b[a - d + 1] ELSE m[a]]
Zeros(n) == [i \in 1 .. n |-> NUL]

\* The index at which a comparison of n characters stops.
Stop(m, p, q, n) ==
  Min({i \in 0 .. n - 1 : \/ i = n - 1 \/ p + i \notin Address \/ q + i \notin Address
                          \/ m[p + i] = NUL \/ m[p + i] # m[q + i]})

strncmp(m, p, q, n) ==
  IF n = 0 THEN 0 ELSE LET i == Stop(m, p, q, n) IN m[p + i] - m[q + i]

strcmp(m, p, q) == strncmp(m, p, q, MemSize)

memcmp(m, p, q, n) ==
  LET differ == {i \in 0 .. n - 1 : m[p + i] # m[q + i]}
  IN IF differ = {} THEN 0 ELSE m[p + Min(differ)] - m[q + Min(differ)]

\* The terminator belongs to the string that is searched.
strchr(m, p, c) ==
  LET found == {a \in p .. Terminator(m, p) : m[a] = c} IN IF found = {} THEN NULL ELSE Min(found)

strrchr(m, p, c) ==
  LET found == {a \in p .. Terminator(m, p) : m[a] = c} IN IF found = {} THEN NULL ELSE Max(found)

strstr(m, p, q) ==
  LET found == {a \in p .. Terminator(m, p) - 1 : m[a] = m[q] /\ strncmp(m, a, q, strlen(m, q)) = 0}
  IN IF strlen(m, q) = 0 THEN p ELSE IF found = {} THEN NULL ELSE Min(found)

\* The first address from p on that is a delimiter, and that is not; or the terminator.
Break(m, p, delim) == Min({a \in p .. Terminator(m, p) : m[a] \in delim \cup {NUL}})
SkipDelims(m, p, delim) == Min({a \in p .. Terminator(m, p) : m[a] \notin delim})

strcspn(m, p, reject) == Break(m, p, reject) - p
strspn(m, p, accept) == SkipDelims(m, p, accept) - p

-----------------------------------------------------------------------------
(* Writing. *)

strcpy(m, d, s) == Store(m, d, Content(m, s) \o Zeros(1))
strcat(m, d, s) == strcpy(m, Terminator(m, d), s)

\* The terminator is copied without being counted, and the filling starts behind it.
strncpy(m, d, s, n) ==
  LET k == strlen(m, s)
  IN Store(m, d, IF k < n THEN Content(m, s) \o Zeros(n - k + 1) ELSE SubSeq(Content(m, s), 1, n))

\* The terminator is copied, and written again behind itself.
strncat(m, d, s, n) ==
  LET k == strlen(m, s)
  IN Store(m, Terminator(m, d),
           IF k < n THEN Content(m, s) \o Zeros(2) ELSE SubSeq(Content(m, s), 1, n) \o Zeros(1))

memset(m, d, c, n) == Store(m, d, [i \in 1 .. n |-> c])

\* Byte after byte, each of them read from what the bytes before left.
CopyBytes(m, d, s, order) == FoldLeft(LAMBDA x, i : [x EXCEPT ![d + i] = x[s + i]], m, order)
Upwards(n) == [i \in 1 .. n |-> i - 1]
Downwards(n) == [i \in 1 .. n |-> n - i]

memcpy(m, d, s, n) == CopyBytes(m, d, s, Upwards(n))

memmove(m, d, s, n) == CopyBytes(m, d, s, IF d < s THEN Upwards(n) ELSE Downwards(n))

-----------------------------------------------------------------------------
(* The programs. *)

StringsInit ==
  /\ mem = [a \in Address |-> NUL] /\ last_token = NULL /\ string_ret = [fn |-> "none"]
  /\ scan = <<>> /\ tokens = <<>>

Answer(r) == string_ret' = r
ScanEnds == last_token' = NULL /\ scan' = <<>> /\ tokens' = <<>>

\* A program writes its own memory, from nothing.
Fill ==
  /\ mem = [a \in Address |-> NUL]
  /\ mem' \in [Address -> Chars \cup {NUL}]
  /\ Answer([fn |-> "fill"]) /\ ScanEnds

Fits(d, n) == d + n <= MemSize
Disjoint(d, s, n) == d + n <= s \/ s + n <= d

Search ==
  \E p, q \in Address :
    /\ string_ret.fn = "fill" /\ Terminated(mem, p) /\ Terminated(mem, q)
    /\ \/ Answer([fn |-> "strstr", s |-> p, t |-> q, val |-> strstr(mem, p, q)])
       \/ Answer([fn |-> "strcmp", s |-> p, t |-> q, val |-> strcmp(mem, p, q)])
       \/ \E n \in 0 .. MemSize :
            Answer([fn |-> "strncmp", s |-> p, t |-> q, n |-> n, val |-> strncmp(mem, p, q, n)])
       \/ \E n \in 0 .. MemSize :
            /\ Fits(p, n) /\ Fits(q, n)
            /\ Answer([fn |-> "memcmp", s |-> p, t |-> q, n |-> n, val |-> memcmp(mem, p, q, n)])
    /\ UNCHANGED <<mem, last_token, scan, tokens>>

Scan ==
  \E p \in Address :
    /\ string_ret.fn = "fill" /\ Terminated(mem, p)
    /\ \/ \E c \in Chars \cup {NUL} :
            Answer([fn |-> "strchr", s |-> p, c |-> c, val |-> <<strchr(mem, p, c), strrchr(mem, p, c)>>])
       \/ \E delim \in Delims :
            Answer([fn |-> "strspn", s |-> p, c |-> delim, val |-> <<strspn(mem, p, delim), strcspn(mem, p, delim)>>])
    /\ UNCHANGED <<mem, last_token, scan, tokens>>

Write ==
  \E d, s \in Address, n \in 0 .. MemSize :
    /\ string_ret.fn = "fill"
    /\ \/ /\ Fits(d, n) /\ Fits(s, n)
          /\ mem' = memmove(mem, d, s, n) /\ Answer([fn |-> "memmove", d |-> d, s |-> s, n |-> n])
       \/ /\ Fits(d, n) /\ Fits(s, n) /\ Disjoint(d, s, n)
          /\ mem' = memcpy(mem, d, s, n) /\ Answer([fn |-> "memcpy", d |-> d, s |-> s, n |-> n])
       \/ /\ Fits(d, n) /\ \E c \in Chars : mem' = memset(mem, d, c, n)
          /\ Answer([fn |-> "memset", d |-> d, n |-> n])
       \/ /\ Terminated(mem, s) /\ n = strlen(mem, s) + 1 /\ Fits(d, n) /\ Disjoint(d, s, n)
          /\ mem' = strcpy(mem, d, s) /\ Answer([fn |-> "strcpy", d |-> d, s |-> s, n |-> n])
       \/ /\ Terminated(mem, s) /\ Terminated(mem, d) /\ n = strlen(mem, d) + strlen(mem, s) + 1
          /\ Fits(d, n) /\ Disjoint(d, s, n)
          /\ mem' = strcat(mem, d, s) /\ Answer([fn |-> "strcat", d |-> d, s |-> s, n |-> n])
       \/ /\ Terminated(mem, s) /\ Fits(d, n) /\ Disjoint(d, s, n + 1)
          /\ mem' = strncpy(mem, d, s, n) /\ Answer([fn |-> "strncpy", d |-> d, s |-> s, n |-> n])
       \/ /\ Terminated(mem, s) /\ Terminated(mem, d)
          /\ Fits(Terminator(mem, d), n + 1) /\ Disjoint(d, s, strlen(mem, d) + n + 2)
          /\ mem' = strncat(mem, d, s, n) /\ Answer([fn |-> "strncat", d |-> d, s |-> s, n |-> n])
    /\ ScanEnds

\* strtok on the string at from: what is left of the last one when it is called with NULL.
strtok(from, delim) ==
  LET start == SkipDelims(mem, from, delim)
      stop == Break(mem, start, delim)
      None == Answer([fn |-> "strtok", val |-> NULL]) /\ UNCHANGED <<mem, tokens>>
  IN CASE from = NULL \/ mem[from] = NUL -> None /\ last_token' = from
       [] mem[start] = NUL -> None /\ last_token' = NULL
       [] OTHER -> /\ Answer([fn |-> "strtok", val |-> start])
                   /\ tokens' = Append(tokens, start)
                   /\ last_token' = IF mem[stop] = NUL THEN NULL ELSE stop + 1
                   /\ mem' = IF mem[stop] = NUL THEN mem ELSE [mem EXCEPT ![stop] = NUL]

FirstToken ==
  \E p \in Address, delim \in Delims :
    /\ string_ret.fn = "fill" /\ Terminated(mem, p)
    /\ scan' = [m |-> mem, p |-> p, delim |-> delim]
    /\ strtok(p, delim)

NextToken ==
  /\ string_ret.fn = "strtok" /\ string_ret.val # NULL
  /\ strtok(last_token, scan.delim)
  /\ UNCHANGED scan

StringsNext == Fill \/ Search \/ Scan \/ Write \/ FirstToken \/ NextToken

StringsSpec == StringsInit /\ [][StringsNext]_strings_vars

-----------------------------------------------------------------------------
(* Properties. *)

\* The first occurrence of a string in another is found, character by character equal, and
\* strncmp is 0 exactly for strings that agree up to n or to their end (string.c:22-30, 121-132).
OccursAt(a, t) == \A i \in 0 .. strlen(mem, t) - 1 : a + i \in Address /\ mem[a + i] = mem[t + i]
Prefix(s, n) == SubSeq(s, 1, Min({n, Len(s)}))
Agree(p, q, n) == Prefix(Content(mem, p), n) = Prefix(Content(mem, q), n)
SearchesAgree ==
  CASE string_ret.fn = "strstr" ->
         LET found == {a \in string_ret.s .. Terminator(mem, string_ret.s) : OccursAt(a, string_ret.t)}
         IN string_ret.val = IF found = {} THEN NULL ELSE Min(found)
    [] string_ret.fn = "strncmp" -> (string_ret.val = 0) = Agree(string_ret.s, string_ret.t, string_ret.n)
    [] OTHER -> TRUE

\* strtok answers the maximal runs of characters that are no delimiters, in their order and
\* without leaving one out; NULL comes after the last (string.c:155-192).
Runs ==
  LET m == scan.m
  IN {a \in scan.p .. Terminator(m, scan.p) - 1 :
        m[a] \notin scan.delim /\ (a = scan.p \/ m[a - 1] \in scan.delim)}
EveryToken ==
  string_ret.fn = "strtok" =>
    /\ tokens = SubSeq(SetToSortSeq(Runs, <), 1, Len(tokens))
    /\ string_ret.val = NULL => Len(tokens) = Cardinality(Runs)
    /\ \A i \in DOMAIN tokens :
         Content(mem, tokens[i]) =
           [k \in 1 .. Break(scan.m, tokens[i], scan.delim) - tokens[i] |-> scan.m[tokens[i] + k - 1]]

\* memmove leaves the old bytes of the source in the destination however the two overlap
\* (string.c:79-92).
MovedIntact ==
  [][string_ret'.fn = "memmove" =>
       \A a \in Address :
         mem'[a] = IF a - string_ret'.d \in 0 .. string_ret'.n - 1
                   THEN mem[string_ret'.s + a - string_ret'.d] ELSE mem[a]]_strings_vars

\* "Copy up to n characters from a string" (string.c:39): no byte behind them is written.
NothingPastCount ==
  [][string_ret'.fn = "strncpy" =>
       \A a \in Address : a >= string_ret'.d + string_ret'.n => mem'[a] = mem[a]]_strings_vars
=============================================================================
