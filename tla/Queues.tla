------------------------------- MODULE Queues -------------------------------
(* The list macros of usr/include/sys/queue.h, and behind them the bit       *)
(* strings of usr/include/bitstring.h.  A cell is a word that holds a        *)
(* pointer to an element: the first pointer of a head or the next pointer of *)
(* an element, and it is named by its head or element; the prev and last     *)
(* fields hold the addresses of cells.  Beside the pointers the model keeps  *)
(* the sequences the lists stand for.  Fields of an element that is on no    *)
(* list keep what they held (_Q_INVALIDATE is empty in this build).          *)
EXTENDS Integers, Sequences, FiniteSets, SequencesExt, Bitwise

CONSTANTS
  QueueNodes,     \* the elements, positive numbers
  QueueHeads,     \* the heads, further positive numbers
  Cookies         \* the cookies XSIMPLEQ_INIT may draw

ASSUME QueuesAssumption ==
  /\ QueueNodes \subseteq Nat \ {0} /\ QueueHeads \subseteq Nat \ {0}
  /\ QueueNodes \cap QueueHeads = {}
  /\ Cookies \subseteq Nat

VARIABLES
  qstate,          \* the kind of list and the pointers
  lists,          \* the sequence each head stands for
  spoilt          \* whether STAILQ_INSERT_AFTER has been used
queues_vars == <<qstate, lists, spoilt>>

NIL == 0
Elements(s) == {s[i] : i \in DOMAIN s}
Loose == QueueNodes \ UNION {Elements(lists[h]) : h \in QueueHeads}

\* Cell c points to elm, and elm to what c pointed to.
Linked(q, c, elm) == [q EXCEPT !.next[elm] = q.next[c], !.next[c] = elm]
\* Cell c points past the element it pointed to.
Unlinked(q, c) == [q EXCEPT !.next[c] = q.next[q.next[c]]]
\* If cell c is the end of the list, the head's last field says so.
Ended(q, h, c) == IF q.next[c] = NIL THEN [q EXCEPT !.last[h] = c] ELSE q
\* Element elm, if there is one, is pointed to by cell c.
Backed(q, elm, c) == IF elm = NIL THEN q ELSE [q EXCEPT !.prev[elm] = c]
\* The same, the end of the list being known to the head.
BackedOrLast(q, h, elm, c) ==
  IF elm = NIL THEN [q EXCEPT !.last[h] = c] ELSE Backed(q, elm, c)

\* The cell that points to elm, found from cell c.
RECURSIVE CellBefore(_, _, _)
CellBefore(q, c, elm) ==
  IF q.next[c] = elm THEN c ELSE CellBefore(q, q.next[c], elm)

-----------------------------------------------------------------------------
SLIST_INSERT_AFTER(q, listelm, elm) == Linked(q, listelm, elm)
SLIST_INSERT_HEAD(q, h, elm)        == Linked(q, h, elm)
SLIST_REMOVE_AFTER(q, elm)          == Unlinked(q, elm)
SLIST_REMOVE_HEAD(q, h)             == Unlinked(q, h)
SLIST_REMOVE(q, h, elm)             == Unlinked(q, CellBefore(q, h, elm))

LIST_INSERT_AFTER(q, listelm, elm) ==
  Backed(Backed(Linked(q, listelm, elm), q.next[listelm], elm), elm, listelm)
LIST_INSERT_BEFORE(q, listelm, elm) ==
  [q EXCEPT !.prev[elm] = q.prev[listelm], !.next[elm] = listelm,
            !.next[q.prev[listelm]] = elm, !.prev[listelm] = elm]
LIST_INSERT_HEAD(q, h, elm) ==
  Backed(Backed(Linked(q, h, elm), q.next[h], elm), elm, h)
LIST_REMOVE(q, elm) ==
  [Backed(q, q.next[elm], q.prev[elm])
     EXCEPT !.next[q.prev[elm]] = q.next[elm]]
LIST_REPLACE(q, elm, elm2) ==
  [Backed(q, q.next[elm], elm2)
     EXCEPT !.next[elm2] = q.next[elm], !.prev[elm2] = q.prev[elm],
            !.next[q.prev[elm]] = elm2]

SIMPLEQ_INIT(q, h) == [q EXCEPT !.next[h] = NIL, !.last[h] = h]
SIMPLEQ_INSERT_HEAD(q, h, elm) == Ended(Linked(q, h, elm), h, elm)
SIMPLEQ_INSERT_TAIL(q, h, elm) ==
  [q EXCEPT !.next[elm] = NIL, !.next[q.last[h]] = elm, !.last[h] = elm]
SIMPLEQ_INSERT_AFTER(q, h, listelm, elm) ==
  Ended(Linked(q, listelm, elm), h, elm)
SIMPLEQ_REMOVE_HEAD(q, h)       == Ended(Unlinked(q, h), h, h)
SIMPLEQ_REMOVE_AFTER(q, h, elm) == Ended(Unlinked(q, elm), h, elm)
SIMPLEQ_CONCAT(q, h1, h2) ==
  IF q.next[h2] = NIL THEN q
  ELSE SIMPLEQ_INIT([q EXCEPT !.next[q.last[h1]] = q.next[h2],
                              !.last[h1] = q.last[h2]], h2)

\* Every pointer of an XOR queue is stored XORed with the head's cookie.
XSIMPLEQ_XOR(q, h, p) == q.cookie[h] ^^ p
XSIMPLEQ_FIRST(q, h)  == XSIMPLEQ_XOR(q, h, q.next[h])
XSIMPLEQ_NEXT(q, h, elm) == XSIMPLEQ_XOR(q, h, q.next[elm])
XLinked(q, h, c, elm) ==
  [q EXCEPT !.next[elm] = q.next[c], !.next[c] = XSIMPLEQ_XOR(q, h, elm)]
XUnlinked(q, h, c) ==
  [q EXCEPT !.next[c] = q.next[XSIMPLEQ_XOR(q, h, q.next[c])]]
XEnded(q, h, c) ==
  IF q.next[c] = XSIMPLEQ_XOR(q, h, NIL)
  THEN [q EXCEPT !.last[h] = XSIMPLEQ_XOR(q, h, c)] ELSE q
XSIMPLEQ_INIT(q, h, cookie) ==
  [q EXCEPT !.cookie[h] = cookie,
            !.next[h] = cookie ^^ NIL, !.last[h] = cookie ^^ h]
XSIMPLEQ_INSERT_HEAD(q, h, elm) == XEnded(XLinked(q, h, h, elm), h, elm)
XSIMPLEQ_INSERT_TAIL(q, h, elm) ==
  [q EXCEPT !.next[elm] = XSIMPLEQ_XOR(q, h, NIL),
            !.next[XSIMPLEQ_XOR(q, h, q.last[h])] = XSIMPLEQ_XOR(q, h, elm),
            !.last[h] = XSIMPLEQ_XOR(q, h, elm)]
XSIMPLEQ_INSERT_AFTER(q, h, listelm, elm) ==
  XEnded(XLinked(q, h, listelm, elm), h, elm)
XSIMPLEQ_REMOVE_HEAD(q, h)       == XEnded(XUnlinked(q, h, h), h, h)
XSIMPLEQ_REMOVE_AFTER(q, h, elm) == XEnded(XUnlinked(q, h, elm), h, elm)

\* An element's entry, and a head, read as a head: its second word.
Second(q, c) == IF c \in QueueHeads THEN q.last[c] ELSE q.prev[c]
TAILQ_LAST(q, h)   == q.next[Second(q, q.last[h])]
TAILQ_PREV(q, elm) == q.next[Second(q, q.prev[elm])]
TAILQ_INIT(q, h)   == [q EXCEPT !.next[h] = NIL, !.last[h] = h]
TAILQ_INSERT_HEAD(q, h, elm) ==
  Backed(BackedOrLast(Linked(q, h, elm), h, q.next[h], elm), elm, h)
TAILQ_INSERT_TAIL(q, h, elm) ==
  [q EXCEPT !.next[elm] = NIL, !.prev[elm] = q.last[h],
            !.next[q.last[h]] = elm, !.last[h] = elm]
TAILQ_INSERT_AFTER(q, h, listelm, elm) ==
  Backed(BackedOrLast(Linked(q, listelm, elm), h, q.next[listelm], elm),
         elm, listelm)
TAILQ_INSERT_BEFORE(q, listelm, elm) ==
  [q EXCEPT !.prev[elm] = q.prev[listelm], !.next[elm] = listelm,
            !.next[q.prev[listelm]] = elm, !.prev[listelm] = elm]
TAILQ_REMOVE(q, h, elm) ==
  [BackedOrLast(q, h, q.next[elm], q.prev[elm])
     EXCEPT !.next[q.prev[elm]] = q.next[elm]]
TAILQ_REPLACE(q, h, elm, elm2) ==
  [BackedOrLast(q, h, q.next[elm], elm2)
     EXCEPT !.next[elm2] = q.next[elm], !.prev[elm2] = q.prev[elm],
            !.next[q.prev[elm]] = elm2]
TAILQ_CONCAT(q, h1, h2) ==
  IF q.next[h2] = NIL THEN q
  ELSE TAILQ_INIT([q EXCEPT !.next[q.last[h1]] = q.next[h2],
                            !.prev[q.next[h2]] = q.last[h1],
                            !.last[h1] = q.last[h2]], h2)

STAILQ_INIT(q, h) == [q EXCEPT !.next[h] = NIL, !.last[h] = h]
STAILQ_INSERT_HEAD(q, h, elm) == Ended(Linked(q, h, elm), h, elm)
STAILQ_INSERT_TAIL(q, h, elm) ==
  [q EXCEPT !.next[elm] = NIL, !.next[q.last[h]] = elm, !.last[h] = elm]
\* The macro reads and writes elm where it means listelm.
STAILQ_INSERT_AFTER(q, h, listelm, elm) ==
  [Ended(q, h, elm) EXCEPT !.next[elm] = elm]
STAILQ_REMOVE_HEAD(q, h)       == Ended(Unlinked(q, h), h, h)
STAILQ_REMOVE_AFTER(q, h, elm) == Ended(Unlinked(q, elm), h, elm)
STAILQ_REMOVE(q, h, elm) ==
  IF q.next[h] = elm THEN STAILQ_REMOVE_HEAD(q, h)
  ELSE STAILQ_REMOVE_AFTER(q, h, CellBefore(q, q.next[h], elm))
STAILQ_CONCAT(q, h1, h2) ==
  IF q.next[h2] = NIL THEN q
  ELSE STAILQ_INIT([q EXCEPT !.next[q.last[h1]] = q.next[h2],
                             !.last[h1] = q.last[h2]], h2)
STAILQ_LAST(q, h) == IF q.next[h] = NIL THEN NIL ELSE q.last[h]

-----------------------------------------------------------------------------
QueuesInit ==
  /\ \E kind \in {"SLIST", "LIST", "SIMPLEQ", "XSIMPLEQ", "TAILQ", "STAILQ"},
        cookies \in [QueueHeads -> Cookies] :
       LET xor == kind = "XSIMPLEQ"
           mask(h, p) == IF xor THEN cookies[h] ^^ p ELSE p
       IN /\ xor \/ \A h \in QueueHeads : cookies[h] = 0
          /\ qstate = [kind   |-> kind,
                      next   |-> [c \in QueueHeads \cup QueueNodes |->
                                    IF c \in QueueHeads THEN mask(c, NIL)
                                    ELSE NIL],
                      last   |-> [h \in QueueHeads |-> mask(h, h)],
                      prev   |-> [n \in QueueNodes |-> NIL],
                      cookie |-> cookies]
  /\ lists = [h \in QueueHeads |-> <<>>]
  /\ spoilt = FALSE

\* One operation on pointers and its meaning on sequences.
Becomes(kind, h, s, q) ==
  /\ qstate.kind = kind /\ ~spoilt
  /\ qstate' = q /\ lists' = [lists EXCEPT ![h] = s] /\ UNCHANGED spoilt

SlistNext ==
  \E h \in QueueHeads : LET s == lists[h] IN
    \/ \E elm \in Loose : \/ Becomes("SLIST", h, <<elm>> \o s, SLIST_INSERT_HEAD(qstate, h, elm))
                          \/ \E i \in DOMAIN s :
                               Becomes("SLIST", h, InsertAt(s, i + 1, elm), SLIST_INSERT_AFTER(qstate, s[i], elm))
    \/ /\ s # <<>>
       /\ Becomes("SLIST", h, Tail(s), SLIST_REMOVE_HEAD(qstate, h))
    \/ \E i \in DOMAIN s : \/ Becomes("SLIST", h, RemoveAt(s, i), SLIST_REMOVE(qstate, h, s[i]))
                           \/ /\ i < Len(s)
                              /\ Becomes("SLIST", h, RemoveAt(s, i + 1), SLIST_REMOVE_AFTER(qstate, s[i]))

ListNext ==
  \E h \in QueueHeads : LET s == lists[h] IN
    \/ \E elm \in Loose :
         \/ Becomes("LIST", h, <<elm>> \o s, LIST_INSERT_HEAD(qstate, h, elm))
         \/ \E i \in DOMAIN s :
              \/ Becomes("LIST", h, InsertAt(s, i + 1, elm), LIST_INSERT_AFTER(qstate, s[i], elm))
              \/ Becomes("LIST", h, InsertAt(s, i, elm), LIST_INSERT_BEFORE(qstate, s[i], elm))
              \/ Becomes("LIST", h, [s EXCEPT ![i] = elm], LIST_REPLACE(qstate, s[i], elm))
    \/ \E i \in DOMAIN s : Becomes("LIST", h, RemoveAt(s, i), LIST_REMOVE(qstate, s[i]))

SimpleqNext ==
  \E h \in QueueHeads : LET s == lists[h] IN
    \/ \E elm \in Loose :
         \/ Becomes("SIMPLEQ", h, <<elm>> \o s, SIMPLEQ_INSERT_HEAD(qstate, h, elm))
         \/ Becomes("SIMPLEQ", h, Append(s, elm), SIMPLEQ_INSERT_TAIL(qstate, h, elm))
         \/ \E i \in DOMAIN s :
              Becomes("SIMPLEQ", h, InsertAt(s, i + 1, elm), SIMPLEQ_INSERT_AFTER(qstate, h, s[i], elm))
    \/ s # <<>> /\ Becomes("SIMPLEQ", h, Tail(s), SIMPLEQ_REMOVE_HEAD(qstate, h))
    \/ \E i \in 1..Len(s) - 1 :
         Becomes("SIMPLEQ", h, RemoveAt(s, i + 1), SIMPLEQ_REMOVE_AFTER(qstate, h, s[i]))

XsimpleqNext ==
  \E h \in QueueHeads : LET s == lists[h] IN
    \/ \E elm \in Loose :
         \/ Becomes("XSIMPLEQ", h, <<elm>> \o s, XSIMPLEQ_INSERT_HEAD(qstate, h, elm))
         \/ Becomes("XSIMPLEQ", h, Append(s, elm), XSIMPLEQ_INSERT_TAIL(qstate, h, elm))
         \/ \E i \in DOMAIN s :
              Becomes("XSIMPLEQ", h, InsertAt(s, i + 1, elm), XSIMPLEQ_INSERT_AFTER(qstate, h, s[i], elm))
    \/ s # <<>> /\ Becomes("XSIMPLEQ", h, Tail(s), XSIMPLEQ_REMOVE_HEAD(qstate, h))
    \/ \E i \in 1..Len(s) - 1 :
         Becomes("XSIMPLEQ", h, RemoveAt(s, i + 1), XSIMPLEQ_REMOVE_AFTER(qstate, h, s[i]))
    \/ \E cookie \in Cookies : s = <<>> /\ Becomes("XSIMPLEQ", h, s, XSIMPLEQ_INIT(qstate, h, cookie))

TailqNext ==
  \E h \in QueueHeads : LET s == lists[h] IN
    \/ \E elm \in Loose :
         \/ Becomes("TAILQ", h, <<elm>> \o s, TAILQ_INSERT_HEAD(qstate, h, elm))
         \/ Becomes("TAILQ", h, Append(s, elm), TAILQ_INSERT_TAIL(qstate, h, elm))
         \/ \E i \in DOMAIN s :
              \/ Becomes("TAILQ", h, InsertAt(s, i + 1, elm), TAILQ_INSERT_AFTER(qstate, h, s[i], elm))
              \/ Becomes("TAILQ", h, InsertAt(s, i, elm), TAILQ_INSERT_BEFORE(qstate, s[i], elm))
              \/ Becomes("TAILQ", h, [s EXCEPT ![i] = elm], TAILQ_REPLACE(qstate, h, s[i], elm))
    \/ \E i \in DOMAIN s : Becomes("TAILQ", h, RemoveAt(s, i), TAILQ_REMOVE(qstate, h, s[i]))

StailqNext ==
  \E h \in QueueHeads : LET s == lists[h] IN
    \/ \E elm \in Loose :
         \/ Becomes("STAILQ", h, <<elm>> \o s, STAILQ_INSERT_HEAD(qstate, h, elm))
         \/ Becomes("STAILQ", h, Append(s, elm), STAILQ_INSERT_TAIL(qstate, h, elm))
         \/ \E i \in DOMAIN s :
              /\ qstate.kind = "STAILQ" /\ ~spoilt /\ spoilt' = TRUE
              /\ qstate' = STAILQ_INSERT_AFTER(qstate, h, s[i], elm)
              /\ lists' = [lists EXCEPT ![h] = InsertAt(s, i + 1, elm)]
    \/ s # <<>> /\ Becomes("STAILQ", h, Tail(s), STAILQ_REMOVE_HEAD(qstate, h))
    \/ \E i \in DOMAIN s :
         \/ Becomes("STAILQ", h, RemoveAt(s, i), STAILQ_REMOVE(qstate, h, s[i]))
         \/ /\ i < Len(s)
            /\ Becomes("STAILQ", h, RemoveAt(s, i + 1), STAILQ_REMOVE_AFTER(qstate, h, s[i]))

\* Head h2 is emptied onto the end of h1.
Concat(h1, h2) ==
  /\ ~spoilt /\ UNCHANGED spoilt
  /\ lists' = [lists EXCEPT ![h1] = @ \o lists[h2], ![h2] = <<>>]
  /\ \/ qstate.kind = "SIMPLEQ" /\ qstate' = SIMPLEQ_CONCAT(qstate, h1, h2)
     \/ qstate.kind = "TAILQ" /\ qstate' = TAILQ_CONCAT(qstate, h1, h2)
     \/ qstate.kind = "STAILQ" /\ qstate' = STAILQ_CONCAT(qstate, h1, h2)

QueuesNext ==
  \/ SlistNext \/ ListNext \/ SimpleqNext \/ XsimpleqNext
  \/ TailqNext \/ StailqNext
  \/ \E h1, h2 \in QueueHeads : h1 # h2 /\ Concat(h1, h2)

-----------------------------------------------------------------------------
\* What the FOREACH loops visit: forwards from a cell, and a tail queue
\* backwards from an element, at most n elements.
RECURSIVE Visited(_, _, _, _)
Visited(q, h, c, n) ==
  LET elm == IF q.kind # "XSIMPLEQ" THEN q.next[c]
             ELSE IF c = h THEN XSIMPLEQ_FIRST(q, h) ELSE XSIMPLEQ_NEXT(q, h, c)
  IN IF n = 0 \/ elm = NIL THEN <<>> ELSE <<elm>> \o Visited(q, h, elm, n - 1)

RECURSIVE VisitedBack(_, _, _)
VisitedBack(q, elm, n) ==
  IF n = 0 \/ elm = NIL THEN <<>>
  ELSE <<elm>> \o VisitedBack(q, TAILQ_PREV(q, elm), n - 1)

FOREACH(q, h) == Visited(q, h, h, Cardinality(QueueNodes) + 1)
TAILQ_FOREACH_REVERSE(q, h) ==
  VisitedBack(q, TAILQ_LAST(q, h), Cardinality(QueueNodes) + 1)

\* After any sequence of operations other than STAILQ_INSERT_AFTER every
\* list is the one the operations describe: walking it forwards visits
\* exactly its elements in order, walking a tail queue backwards visits them
\* in the reverse order, and the last element of a singly-linked tail queue
\* is the one STAILQ_LAST names.  (queue.h: every macro.)
ListsAgree ==
  spoilt \/ \A h \in QueueHeads :
    /\ FOREACH(qstate, h) = lists[h]
    /\ qstate.kind = "TAILQ" =>
         TAILQ_FOREACH_REVERSE(qstate, h) = Reverse(lists[h])
    /\ qstate.kind = "STAILQ" /\ lists[h] # <<>> =>
         STAILQ_LAST(qstate, h) = Last(lists[h])

-----------------------------------------------------------------------------
(* The bit strings of usr/include/bitstring.h: bytes in which the bits of a  *)
(* string are set, cleared, tested and searched one after the other, beside  *)
(* the set of bits they stand for.                                           *)

CONSTANTS
  CharBits,        \* bits of a byte of a bit string
  StringBits       \* bits of the bit string

ASSUME BitStringsAssumption == CharBits \in Nat \ {0} /\ StringBits \in Nat

VARIABLES
  bits, set_bits   \* a bit string, and the bits set in it
bit_strings_vars == <<bits, set_bits>>

bit_byte(bit) == bit \div CharBits
bit_mask(bit) == 2 ^ (bit % CharBits)
bit_test(name, bit) == (name[bit_byte(bit)] & bit_mask(bit)) # 0
bit_set(name, bit) == [name EXCEPT ![bit_byte(bit)] = @ | bit_mask(bit)]
bit_clear(name, bit) ==
  [name EXCEPT ![bit_byte(bit)] = @ & ((2 ^ CharBits - 1) - bit_mask(bit))]
RECURSIVE bit_nset(_, _, _)
bit_nset(name, start, stop) ==
  IF start > stop THEN name ELSE bit_nset(bit_set(name, start), start + 1, stop)
RECURSIVE bit_nclear(_, _, _)
bit_nclear(name, start, stop) ==
  IF start > stop THEN name
  ELSE bit_nclear(bit_clear(name, start), start + 1, stop)
RECURSIVE FirstBit(_, _, _, _)
FirstBit(name, bit, nbits, value) ==
  IF bit = nbits THEN -1
  ELSE IF bit_test(name, bit) = value THEN bit
  ELSE FirstBit(name, bit + 1, nbits, value)
bit_ffc(name, nbits) == FirstBit(name, 0, nbits, FALSE)
bit_ffs(name, nbits) == FirstBit(name, 0, nbits, TRUE)
\* Every byte of the string of the given number of bits.
bitstr_size(nbits) == (nbits + CharBits - 1) \div CharBits

-----------------------------------------------------------------------------
BitStringsInit ==
  bits = [i \in 0..bitstr_size(StringBits) - 1 |-> 0] /\ set_bits = {}

SetBits(start, stop) ==
  \/ /\ bits' = bit_nset(bits, start, stop)
     /\ set_bits' = set_bits \cup (start..stop)
  \/ /\ bits' = bit_nclear(bits, start, stop)
     /\ set_bits' = set_bits \ (start..stop)

BitStringsNext == \E start, stop \in 0..StringBits - 1 : SetBits(start, stop)

-----------------------------------------------------------------------------
\* A bit string has the bits set that were, and its searches find the first
\* (bitstring.h).
BitsAgree ==
  /\ {b \in 0..StringBits - 1 : bit_test(bits, b)} = set_bits
  /\ LET first(s) == IF s = {} THEN -1 ELSE CHOOSE b \in s : \A c \in s : b <= c
     IN /\ bit_ffs(bits, StringBits) = first(set_bits)
        /\ bit_ffc(bits, StringBits) = first((0..StringBits - 1) \ set_bits)
=============================================================================
