-------------------------------- MODULE Ring --------------------------------
(***************************************************************************)
(* struct queue of src/src/kernel/interrupt.c, the ring buffer of the work *)
(* queue and of the keyboard: head and tail are offsets from start.        *)
(***************************************************************************)
EXTENDS Integers, Sequences

Junk == "junk"    \* what realloc leaves in the memory it adds

EmptyRing(cap) == [cells |-> [i \in 0..(cap - 1) |-> Junk], head |-> 0, tail |-> 0, cap |-> cap]

\* INC_Q_PT
Inc(q, i) == IF i + 1 = q.cap THEN 0 ELSE i + 1

IsEmpty(q) == q.head = q.tail

\* Mutant of IsFull: only the second test of push, so that a full ring that
\* has wrapped comes to look empty.
FullAtEndOnly(q) == q.tail + 1 = q.cap /\ q.head = 0

\* The two tests of push: one cell is always kept empty.
IsFull(q) == q.tail + 1 = q.head \/ (q.tail + 1 = q.cap /\ q.head = 0)

\* The end of push: the item goes to the tail.
Put(q, v) == [q EXCEPT !.cells = [i \in DOMAIN q.cells |-> IF i = q.tail THEN v ELSE q.cells[i]],
                       !.tail  = Inc(q, q.tail)]

\* realloc to twice the capacity: the cells keep their offsets.
Grown(q, cap) ==
    [q EXCEPT !.cells = [i \in 0..(cap - 1) |-> IF i \in DOMAIN q.cells THEN q.cells[i] ELSE Junk],
              !.cap = cap]

Front(q) == q.cells[q.head]
Popped(q) == [q EXCEPT !.head = Inc(q, q.head)]

Size(q) == IF q.tail >= q.head THEN q.tail - q.head ELSE q.tail + q.cap - q.head

\* The items in the order in which they will be popped.
Contents(q) == [i \in 1..Size(q) |-> q.cells[(q.head + i - 1) % q.cap]]
=============================================================================
