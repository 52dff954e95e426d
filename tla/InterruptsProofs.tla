-------------------------- MODULE InterruptsProofs --------------------------
(***************************************************************************)
(* What holds of the handlers and waitloop for rings of any capacity and   *)
(* any number of interrupts.                                               *)
(***************************************************************************)
EXTENDS Interrupts, FiniteSetTheorems, TLAPS

----------------------------------------------------------------------------
(* Handlers do not interrupt each other, nor a section.                     *)

PCs == {"loop", "keys", "work", "pick", "user", "hlt", "syscall", "print", "crash"}

IsFrame(f) == f = [irq |-> f.irq, todo |-> f.todo, saved |-> f.saved]

OneFrame == frames = <<frames[1]>> /\ IsFrame(frames[1])

\* What is left to do may change.
LEMMA NewTodo ==
    ASSUME NEW f, IsFrame(f)
    PROVE  LET g == [f EXCEPT !.todo = Tail(@)]
           IN  IsFrame(g) /\ g = [irq |-> f.irq, todo |-> Tail(f.todo), saved |-> f.saved]
<1>1. ASSUME NEW x
      PROVE  [f EXCEPT !.todo = x] = [irq |-> f.irq, todo |-> x, saved |-> f.saved]
  BY DEF IsFrame
<1>2. [f EXCEPT !.todo = Tail(@)] = [irq |-> f.irq, todo |-> Tail(f.todo), saved |-> f.saved]
  BY <1>1
<1> QED
  BY <1>2 DEF IsFrame

\* int_blocks counts the open sections and the block that kernel_entry takes and
\* never gives back, so that the realloc in a handler, the ints_okay of a nested
\* section and that of a section of a system call leave the flag as it is; it is
\* clear while a handler runs, in a section, in a system call, and from the look
\* at an empty wq up to the hlt.
FlagInv ==
    /\ ints \in BOOLEAN /\ pc \in PCs /\ depth \in Nat
    /\ int_blocks = 1 + depth
    /\ depth > 0 => pc \in {"work", "syscall", "print"}
    /\ frames = <<>> \/ OneFrame
    /\ frames # <<>> => ~ints
    /\ depth > 0 \/ pc \in {"syscall", "pick"} => ~ints /\ frames = <<>>
    /\ pc = "pick" => IsEmpty(wq)
    /\ pc = "hlt" /\ frames = <<>> => IsEmpty(wq)

\* The flag is set up right at boot.
LEMMA FlagInit == Init => FlagInv
<1> SUFFICES ASSUME Init PROVE FlagInv
  OBVIOUS
<1>1. ints = FALSE /\ int_blocks = 1 /\ depth = 0 /\ pc = "loop" /\ frames = <<>>
  BY DEF Init, BootBlocks
<1>2. depth \in Nat /\ int_blocks = 1 + depth /\ ~(depth > 0)
  BY <1>1
<1> QED
  BY <1>1, <1>2 DEF FlagInv, PCs

\* An interrupt comes when no handler runs.
LEMMA EnterFlag ==
    ASSUME FlagInv, NEW irq, NEW todo, Enter(irq, todo),
           UNCHANGED <<int_blocks, wq, pc, depth>>
    PROVE  FlagInv' /\ frames = <<>> /\ frames' = <<Frame(irq, todo)>>
<1>1. frames = <<>> /\ ints /\ ints' = FALSE /\ frames' = Append(frames, Frame(irq, todo))
  BY DEF FlagInv, Enter
<1>2. frames' = <<Frame(irq, todo)>>
  BY <1>1
<1>3. IsFrame(frames'[1]) /\ frames' = <<frames'[1]>> /\ frames' # <<>>
  BY <1>2 DEF IsFrame, Frame
<1> QED
  BY <1>1, <1>2, <1>3 DEF FlagInv, OneFrame

\* What a handler does to its frame.
LEMMA TopFacts ==
    ASSUME FlagInv, Busy
    PROVE  /\ frames = <<Top>> /\ IsFrame(Top) /\ ~ints
           /\ depth = 0 /\ pc \notin {"syscall", "pick"}
           /\ \A f : SetTop(f) => frames' = <<f>>
<1>1. frames = <<frames[1]>> /\ IsFrame(frames[1]) /\ Len(frames) = 1
  BY DEF FlagInv, OneFrame, Busy
<1>2. Top = frames[1]
  BY <1>1 DEF Top
<1>3. ASSUME NEW f, SetTop(f) PROVE frames' = <<f>>
  BY <1>1, <1>3 DEF SetTop
<1> QED
  BY <1>1, <1>2, <1>3 DEF FlagInv, Busy

\* No step undoes the invariant of the interrupt flag.
LEMMA FlagNext == FlagInv /\ [Next]_vars => FlagInv'
<1> SUFFICES ASSUME FlagInv, [Next]_vars PROVE FlagInv'
  OBVIOUS
<1>1. CASE KbdIrq
  BY <1>1, EnterFlag DEF KbdIrq
<1>2. CASE PitIrq
  BY <1>2, EnterFlag DEF PitIrq
<1>3. ASSUME NEW f, IsFrame(f), frames' = <<f>>, Busy, UNCHANGED <<int_blocks, pc, depth>>, ints' = ints
      PROVE  FlagInv'
  <2>1. frames' # <<>> /\ frames'[1] = f
    BY <1>3
  <2>2. depth = 0 /\ pc \notin {"syscall", "pick"} /\ ~ints
    BY <1>3, TopFacts
  <2> QED
    BY <1>3, <2>1, <2>2 DEF FlagInv, OneFrame
<1>4. CASE PushRoom
  <2>1. IsFrame(Top)
    BY <1>4, TopFacts DEF PushRoom
  <2>2. IsFrame([Top EXCEPT !.todo = Tail(@)])
    BY <2>1, NewTodo
  <2> QED
    BY <1>3, <1>4, <2>2, TopFacts DEF PushRoom
<1>5. CASE PushGrow
  <2> DEFINE f == [Top EXCEPT !.saved = <<Grown(RingOf(Job.ring), 2 * RingOf(Job.ring).cap)>>]
  <2>1. Busy /\ SetTop(f) /\ ints' = (int_blocks = 0) /\ UNCHANGED <<int_blocks, pc, depth>>
    BY <1>5 DEF PushGrow, FlagAfterRealloc
  <2>2. IsFrame(f)
    BY <2>1, TopFacts DEF IsFrame
  <2>3. frames' = <<f>> /\ ~ints
    BY <2>1, TopFacts
  <2>4. ints' = ints
    BY <2>1, <2>3 DEF FlagInv
  <2> QED
    BY <1>3, <2>1, <2>2, <2>3, <2>4
<1>6. CASE PushGrown
  <2>1. IsFrame(Frame(Top.irq, Tail(Top.todo)))
    BY DEF IsFrame, Frame
  <2> QED
    BY <1>3, <1>6, <2>1, TopFacts DEF PushGrown
<1>7. CASE Leave
  <2>1. Len(frames) = 1 /\ frames # <<>>
    BY <1>7 DEF Leave, FlagInv, OneFrame
  <2>2. frames' = <<>>
    BY <1>7, <2>1 DEF Leave
  <2> QED
    BY <1>7, <2>1, <2>2 DEF Leave, FlagInv, PCs
<1>8. CASE Preempt
  BY <1>8 DEF Preempt, FlagInv, PCs
<1>9. CASE PopWork
  BY <1>9 DEF PopWork, FlagAfterPop, FlagInv, PCs
<1>10. CASE PopKey
  BY <1>10 DEF PopKey, FlagAfterPop, FlagInv, PCs
<1>11. CASE BeginSection
  <2>1. depth \in Nat /\ int_blocks = 1 + depth /\ frames = <<>>
    BY <1>11 DEF BeginSection, FlagInv
  <2>2. int_blocks' = 1 + depth' /\ depth' \in Nat /\ ints' = FALSE /\ frames' = <<>> /\ wq' = wq
    BY <1>11, <2>1 DEF BeginSection, NoInts
  <2>3. pc' \in {"work", "syscall", "print"}
    BY <1>11 DEF BeginSection
  <2> QED
    BY <2>2, <2>3 DEF FlagInv, PCs
<1>12. CASE EndSection
  <2>1. depth \in Nat \ {0} /\ int_blocks = 1 + depth /\ ~ints /\ frames = <<>>
    BY <1>12 DEF EndSection, FlagInv
  <2>2. /\ depth' = depth - 1 /\ int_blocks' = (IF int_blocks = 0 THEN 0 ELSE int_blocks - 1)
        /\ ints' = (ints \/ int_blocks' = 0) /\ UNCHANGED <<pc, wq, frames>>
    BY <1>12 DEF EndSection, IntsOkay, IntsOkayOnceOn
  <2>3. depth' \in Nat /\ int_blocks' = 1 + depth' /\ int_blocks' # 0
    BY <2>1, <2>2
  <2>4. ints' = FALSE /\ ints' \in BOOLEAN
    BY <2>1, <2>2, <2>3
  <2>5. pc \in PCs /\ (depth > 0 => pc \in {"work", "syscall", "print"}) /\ (depth' > 0 => depth > 0)
    BY <2>1, <2>2 DEF FlagInv
  <2>6. pc \notin {"pick", "hlt"}
    BY <2>1, <2>5
  <2> QED
    BY <2>1, <2>2, <2>3, <2>4, <2>5, <2>6 DEF FlagInv
<1>13. CASE Go
  BY <1>13 DEF Go, FlagInv, PCs
<1>14. CASE WorkDone
  BY <1>14 DEF WorkDone, FlagInv, PCs
<1>15. CASE SysCall
  BY <1>15 DEF SysCall, FlagInv, PCs
<1>16. CASE PrintCall
  <2>1. int_blocks = 1
    BY <1>16 DEF PrintCall, FlagInv
  <2>2. ints' = FALSE /\ int_blocks' = 2 /\ depth' = 1 /\ pc' = "print" /\ frames' = <<>>
    BY <1>16, <2>1 DEF PrintCall, NoInts
  <2>3. int_blocks' = 1 + depth' /\ depth' \in Nat
    BY <2>2
  <2> QED
    BY <2>2, <2>3 DEF FlagInv, PCs
<1>17. CASE PrintEnd
  BY <1>17 DEF PrintEnd, IntsOkayOnceOn, FlagInv, PCs
<1>18. CASE SysReturn
  <2>1. /\ depth = 0 /\ int_blocks = 1 /\ ~ints /\ depth \in Nat /\ frames = <<>>
        /\ UNCHANGED <<depth, int_blocks, frames, wq>>
    BY <1>18 DEF SysReturn, FlagInv
  <2>2. pc' \in {"user", "loop"} /\ (ints' = TRUE \/ ints' = ints)
    BY <1>18 DEF SysReturn
  <2>3. ~(depth > 0) /\ int_blocks = 1 + depth
    BY <2>1
  <2>4. ints' \in BOOLEAN
    BY <2>2 DEF FlagInv
  <2> QED
    BY <2>1, <2>2, <2>3, <2>4 DEF FlagInv, PCs
<1>19. CASE UNCHANGED vars
  BY <1>19 DEF vars, FlagInv, OneFrame
<1> QED
  BY <1>1, <1>2, <1>4, <1>5, <1>6, <1>7, <1>8, <1>9, <1>10, <1>11, <1>12, <1>13, <1>14, <1>15,
     <1>16, <1>17, <1>18, <1>19 DEF Next, Irq, Handler, Section, Loop, Call

\* The invariant of the interrupt flag holds throughout.
LEMMA FlagInvariance == Spec => []FlagInv
<1> QED
  BY FlagInit, FlagNext, PTL DEF Spec

\* No handler runs inside another, whatever the queues grow to: the block that
\* kernel_entry takes holds through every realloc in irq1_kbd and irq0_pit.
THEOREM Alone == Spec => []HandlersAlone
<1>1. FlagInv => HandlersAlone
  BY DEF FlagInv, OneFrame, HandlersAlone
<1> QED
  BY <1>1, FlagInvariance, PTL

\* No handler comes into an open section or into a system call: however deep
\* the sections nest, the ints_okay of an inner one leaves interrupts off, and so
\* does every ints_okay that a system call goes through.
THEOREM Closed == Spec => []SectionsClosed
<1>1. FlagInv => SectionsClosed
  BY DEF FlagInv, SectionsClosed
<1> QED
  BY <1>1, FlagInvariance, PTL

\* The processor is never halted with a work item in the queue and no handler
\* running.
THEOREM Awake == Spec => []NoSleepOnWork
<1>1. FlagInv => NoSleepOnWork
  BY DEF FlagInv, NoSleepOnWork
<1> QED
  BY <1>1, FlagInvariance, PTL

----------------------------------------------------------------------------
(* Rings: what push and pop do to their contents.                           *)

\* A ring whose offsets are inside it.
GoodRing(q) ==
    /\ q.cap \in Nat \ {0, 1}
    /\ q.head \in 0..(q.cap - 1) /\ q.tail \in 0..(q.cap - 1)
    /\ q = [cells |-> [i \in 0..(q.cap - 1) |-> q.cells[i]],
            head |-> q.head, tail |-> q.tail, cap |-> q.cap]

\* The cell of the i-th item.
Slot(q, i) == IF q.head + i - 1 < q.cap THEN q.head + i - 1 ELSE q.head + i - 1 - q.cap

\* An offset less than twice the capacity wraps at most once.
LEMMA ModOnce ==
    ASSUME NEW c \in Nat \ {0}, NEW x \in Nat, x < 2 * c
    PROVE  x % c = IF x < c THEN x ELSE x - c
OBVIOUS

\* A ring by its parts.
LEMMA RingParts ==
    ASSUME NEW q, GoodRing(q)
    PROVE  \E c \in Nat \ {0, 1} : \E h \in 0..(c - 1), t \in 0..(c - 1) : \E s :
               /\ s = [i \in 0..(c - 1) |-> s[i]]
               /\ q = [cells |-> s, head |-> h, tail |-> t, cap |-> c]
<1>1. q.cells = [i \in 0..(q.cap - 1) |-> q.cells[i]]
  BY DEF GoodRing
<1> QED
  BY <1>1 DEF GoodRing

\* A ring that is put together from offsets in range is a good one.
LEMMA PartsRing ==
    ASSUME NEW c \in Nat \ {0, 1}, NEW h \in 0..(c - 1), NEW t \in 0..(c - 1), NEW s,
           NEW q, q = [cells |-> [i \in 0..(c - 1) |-> s[i]], head |-> h, tail |-> t, cap |-> c]
    PROVE  GoodRing(q)
<1>1. q.cap = c /\ q.head = h /\ q.tail = t /\ q.cells = [i \in 0..(c - 1) |-> s[i]]
  OBVIOUS
<1>2. q.cells = [i \in 0..(c - 1) |-> q.cells[i]]
  BY <1>1
<1> QED
  BY <1>1, <1>2 DEF GoodRing

\* The items of a ring are those from its head on.
LEMMA ContentsFacts ==
    ASSUME NEW q, GoodRing(q)
    PROVE  /\ Size(q) \in 0..(q.cap - 1)
           /\ Contents(q) = [i \in 1..Size(q) |-> q.cells[Slot(q, i)]]
<1>1. PICK c \in Nat \ {0, 1} : q.cap = c /\ q.head \in 0..(c - 1) /\ q.tail \in 0..(c - 1)
  BY DEF GoodRing
<1>2. PICK h \in 0..(c - 1) : q.head = h
  BY <1>1
<1>3. Size(q) \in 0..(c - 1)
  BY <1>1 DEF Size
<1>4. ASSUME NEW i \in 1..Size(q) PROVE (q.head + i - 1) % q.cap = Slot(q, i)
  <2> DEFINE x == h + i - 1
  <2>1. c \in Nat \ {0} /\ x \in Nat /\ x < 2 * c
    BY <1>3
  <2>2. Slot(q, i) = (IF x < c THEN x ELSE x - c) /\ (q.head + i - 1) % q.cap = x % c
    BY <1>1, <1>2 DEF Slot
  <2> HIDE DEF x
  <2> QED
    BY <2>1, <2>2, ModOnce
<1> QED
  BY <1>1, <1>3, <1>4 DEF Contents

\* The end of push.
LEMMA PutFacts ==
    ASSUME NEW q, GoodRing(q), ~IsFull(q), NEW v
    PROVE  GoodRing(Put(q, v)) /\ Contents(Put(q, v)) = Append(Contents(q), v)
<1>1. PICK c \in Nat \ {0, 1} : \E h \in 0..(c - 1), t \in 0..(c - 1) : \E s :
          /\ s = [i \in 0..(c - 1) |-> s[i]]
          /\ q = [cells |-> s, head |-> h, tail |-> t, cap |-> c]
  BY RingParts
<1>2. PICK h \in 0..(c - 1), t \in 0..(c - 1) : \E s :
          /\ s = [i \in 0..(c - 1) |-> s[i]]
          /\ q = [cells |-> s, head |-> h, tail |-> t, cap |-> c]
  BY <1>1
<1>3. PICK s : s = [i \in 0..(c - 1) |-> s[i]] /\ q = [cells |-> s, head |-> h, tail |-> t, cap |-> c]
  BY <1>2
<1> DEFINE u == IF t + 1 = c THEN 0 ELSE t + 1
           r == [i \in 0..(c - 1) |-> IF i = t THEN v ELSE s[i]]
           p == Put(q, v)
<1>4. Inc(q, t) = u
  BY <1>3 DEF Inc
<1>5. DOMAIN s = 0..(c - 1) /\ q.cells = s /\ q.tail = t /\ q.head = h /\ q.cap = c
  BY <1>3
<1>6. Put(q, v) = [q EXCEPT !.cells = r, !.tail = u]
  BY <1>4, <1>5 DEF Put
<1>7. p = [cells |-> r, head |-> h, tail |-> u, cap |-> c]
  BY <1>3, <1>6
<1>8. p.cells = r /\ p.tail = u /\ p.head = h /\ p.cap = c /\ u \in 0..(c - 1)
  BY <1>7
<1> HIDE DEF p
<1>9. GoodRing(p)
  <2>1. r = [i \in 0..(c - 1) |-> r[i]]
    OBVIOUS
  <2> HIDE DEF r, u
  <2> QED
    BY <1>7, <1>8, <2>1, PartsRing
<1>10. ~(t + 1 = h \/ (t + 1 = c /\ h = 0))
  BY <1>5 DEF IsFull
<1>11. Size(q) = (IF t >= h THEN t - h ELSE t + c - h) /\ Size(p) = (IF u >= h THEN u - h ELSE u + c - h)
  BY <1>5, <1>8 DEF Size
<1>12. Size(q) \in Nat /\ Size(q) < c /\ Size(p) = Size(q) + 1
  BY <1>10, <1>11
<1>13. ASSUME NEW i \in 1..(Size(q) + 1)
       PROVE  p.cells[Slot(p, i)] = IF i = Size(q) + 1 THEN v ELSE q.cells[Slot(q, i)]
  <2> DEFINE k == IF h + i - 1 < c THEN h + i - 1 ELSE h + i - 1 - c
  <2>1. Slot(p, i) = k /\ Slot(q, i) = k
    BY <1>5, <1>8 DEF Slot
  <2>2. k \in 0..(c - 1) /\ (k = t <=> i = Size(q) + 1)
    BY <1>10, <1>11, <1>12
  <2> HIDE DEF k
  <2> QED
    BY <1>5, <1>8, <2>1, <2>2
<1>14. /\ Contents(p) = [i \in 1..(Size(q) + 1) |-> p.cells[Slot(p, i)]]
       /\ Contents(q) = [i \in 1..Size(q) |-> q.cells[Slot(q, i)]]
  BY <1>9, <1>12, ContentsFacts
<1> DEFINE n == Size(q)  a(i) == q.cells[Slot(q, i)]
<1>15. n \in Nat /\ Contents(p) = [i \in 1..(n + 1) |-> IF i = n + 1 THEN v ELSE a(i)]
       /\ Contents(q) = [i \in 1..n |-> a(i)]
  BY <1>12, <1>13, <1>14
<1> HIDE DEF n, a
<1>16. Contents(p) = Append(Contents(q), v)
  BY <1>15
<1> QED
  BY <1>9, <1>16 DEF p

\* pop, of a ring that has an item.
LEMMA PopFacts ==
    ASSUME NEW q, GoodRing(q), ~IsEmpty(q)
    PROVE  /\ GoodRing(Popped(q)) /\ Contents(q) # <<>>
           /\ Front(q) = Contents(q)[1] /\ Contents(Popped(q)) = Tail(Contents(q))
<1>1. PICK c \in Nat \ {0, 1} : \E h \in 0..(c - 1), t \in 0..(c - 1) : \E s :
          /\ s = [i \in 0..(c - 1) |-> s[i]]
          /\ q = [cells |-> s, head |-> h, tail |-> t, cap |-> c]
  BY RingParts
<1>2. PICK h \in 0..(c - 1), t \in 0..(c - 1) : \E s :
          /\ s = [i \in 0..(c - 1) |-> s[i]]
          /\ q = [cells |-> s, head |-> h, tail |-> t, cap |-> c]
  BY <1>1
<1>3. PICK s : s = [i \in 0..(c - 1) |-> s[i]] /\ q = [cells |-> s, head |-> h, tail |-> t, cap |-> c]
  BY <1>2
<1> DEFINE u == IF h + 1 = c THEN 0 ELSE h + 1
           p == Popped(q)
<1>4. Inc(q, q.head) = u
  BY <1>3 DEF Inc
<1>5. q.cells = s /\ q.tail = t /\ q.head = h /\ q.cap = c /\ h # t
  BY <1>3 DEF IsEmpty
<1>6. Popped(q) = [q EXCEPT !.head = u]
  BY <1>4 DEF Popped
<1>7. p = [cells |-> s, head |-> u, tail |-> t, cap |-> c]
  BY <1>3, <1>6
<1>8. p.cells = s /\ p.tail = t /\ p.head = u /\ p.cap = c /\ u \in 0..(c - 1)
  BY <1>7
<1> HIDE DEF p
<1>9. GoodRing(p)
  <2> HIDE DEF u
  <2> QED
    BY <1>3, <1>7, <1>8, PartsRing
<1>10. Size(q) = (IF t >= h THEN t - h ELSE t + c - h) /\ Size(p) = (IF t >= u THEN t - u ELSE t + c - u)
  BY <1>5, <1>8 DEF Size
<1> DEFINE n == Size(p)
<1>11. n \in Nat /\ n < c /\ Size(q) = n + 1
  BY <1>5, <1>10
<1>12. ASSUME NEW i \in 1..n PROVE Slot(p, i) = Slot(q, i + 1)
  <2>1. /\ Slot(p, i) = (IF u + i - 1 < c THEN u + i - 1 ELSE u + i - 1 - c)
        /\ Slot(q, i + 1) = (IF h + i + 1 - 1 < c THEN h + i + 1 - 1 ELSE h + i + 1 - 1 - c)
    BY <1>5, <1>8, <1>11 DEF Slot
  <2> QED
    BY <1>5, <1>11, <2>1
<1>13. Slot(q, 1) = h
  BY <1>5 DEF Slot
<1> DEFINE a(i) == q.cells[Slot(q, i)]
<1>14. /\ Contents(p) = [i \in 1..n |-> a(i + 1)]
       /\ Contents(q) = [i \in 1..(n + 1) |-> a(i)]
       /\ Front(q) = a(1)
  BY <1>5, <1>8, <1>9, <1>11, <1>12, <1>13, ContentsFacts DEF Front
<1> HIDE DEF n, a
<1>15. Contents(p) = Tail(Contents(q)) /\ Contents(q) # <<>> /\ Front(q) = Contents(q)[1]
  BY <1>11, <1>14
<1> QED
  BY <1>9, <1>15 DEF p

\* A ring is empty when it has no items.
LEMMA EmptyFacts ==
    ASSUME NEW q, GoodRing(q)
    PROVE  IsEmpty(q) <=> Contents(q) = <<>>
<1>1. IsEmpty(q) => Size(q) = 0
  BY DEF GoodRing, IsEmpty, Size
<1>2. IsEmpty(q) => Contents(q) = <<>>
  BY <1>1, ContentsFacts
<1> QED
  BY <1>2, PopFacts

\* push, of a full ring whose head is at its start.
LEMMA GrownFacts ==
    ASSUME NEW q, GoodRing(q), IsFull(q), q.head = 0
    PROVE  /\ GoodRing(Grown(q, 2 * q.cap)) /\ ~IsFull(Grown(q, 2 * q.cap))
           /\ Contents(Grown(q, 2 * q.cap)) = Contents(q)
           /\ Contents([q EXCEPT !.cap = 2 * q.cap]) = Contents(q)
           /\ Size([q EXCEPT !.cap = 2 * q.cap]) \in Nat
<1>1. PICK c \in Nat \ {0, 1} : \E h \in 0..(c - 1), t \in 0..(c - 1) : \E s :
          /\ s = [i \in 0..(c - 1) |-> s[i]]
          /\ q = [cells |-> s, head |-> h, tail |-> t, cap |-> c]
  BY RingParts
<1>2. PICK h \in 0..(c - 1), t \in 0..(c - 1) : \E s :
          /\ s = [i \in 0..(c - 1) |-> s[i]]
          /\ q = [cells |-> s, head |-> h, tail |-> t, cap |-> c]
  BY <1>1
<1>3. PICK s : s = [i \in 0..(c - 1) |-> s[i]] /\ q = [cells |-> s, head |-> h, tail |-> t, cap |-> c]
  BY <1>2
<1> DEFINE r == [i \in 0..(2 * c - 1) |-> IF i \in 0..(c - 1) THEN s[i] ELSE Junk]
           g == Grown(q, 2 * q.cap)
           w == [q EXCEPT !.cap = 2 * q.cap]
<1>4. DOMAIN s = 0..(c - 1) /\ q.cells = s /\ q.tail = t /\ q.head = h /\ q.cap = c /\ h = 0
  BY <1>3
<1>5. t = c - 1
  BY <1>4 DEF IsFull
<1>6. g = [q EXCEPT !.cells = r, !.cap = 2 * c]
  BY <1>4 DEF Grown
<1>7. g = [cells |-> r, head |-> 0, tail |-> t, cap |-> 2 * c]
  BY <1>3, <1>4, <1>6
<1>8. w = [cells |-> s, head |-> 0, tail |-> t, cap |-> 2 * c]
  <2>1. w = [q EXCEPT !.cap = 2 * c]
    BY <1>4
  <2> HIDE DEF w
  <2> QED
    BY <1>3, <1>4, <2>1
<1>9. /\ g.cells = r /\ g.head = 0 /\ g.tail = t /\ g.cap = 2 * c
      /\ w.cells = s /\ w.head = 0 /\ w.tail = t /\ w.cap = 2 * c
  BY <1>7, <1>8
<1> HIDE DEF g, w
<1>10. GoodRing(g)
  <2>1. 2 * c \in Nat \ {0, 1} /\ 0 \in 0..(2 * c - 1) /\ t \in 0..(2 * c - 1)
    OBVIOUS
  <2>2. r = [i \in 0..(2 * c - 1) |-> r[i]]
    OBVIOUS
  <2> HIDE DEF r
  <2> QED
    BY <1>7, <2>1, <2>2, PartsRing
<1>11. ~IsFull(g)
  BY <1>5, <1>9 DEF IsFull
<1>12. Size(q) = t /\ Size(g) = t /\ Size(w) = t
  BY <1>4, <1>9 DEF Size
<1>13. ASSUME NEW i \in 1..t
       PROVE  /\ Slot(q, i) = i - 1 /\ Slot(g, i) = i - 1 /\ r[i - 1] = s[i - 1]
              /\ (w.head + i - 1) % w.cap = i - 1
  <2>1. i - 1 \in 0..(c - 1) /\ i - 1 < 2 * c
    BY <1>5
  <2>2. (i - 1) % (2 * c) = i - 1
    <3> DEFINE d == 2 * c  x == i - 1
    <3>1. d \in Nat \ {0} /\ x \in Nat /\ x < d /\ x < 2 * d
      BY <2>1
    <3> HIDE DEF d, x
    <3>2. x % d = x
      BY <3>1, ModOnce
    <3> QED
      BY <3>2 DEF d, x
  <2>3. w.head + i - 1 = i - 1
    BY <1>9
  <2>4. (w.head + i - 1) % w.cap = i - 1
    BY <1>9, <2>2, <2>3
  <2>5. Slot(q, i) = i - 1 /\ Slot(g, i) = i - 1
    BY <1>4, <1>5, <1>9, <2>1 DEF Slot
  <2>6. r[i - 1] = s[i - 1]
    BY <2>1
  <2> QED
    BY <2>4, <2>5, <2>6
<1> HIDE DEF r
<1>14. Contents(g) = [i \in 1..t |-> s[i - 1]]
  <2>1. Contents(g) = [i \in 1..t |-> g.cells[Slot(g, i)]]
    BY <1>10, <1>12, ContentsFacts
  <2> QED
    BY <1>9, <1>13, <2>1
<1>15. Contents(q) = [i \in 1..t |-> s[i - 1]]
  <2>1. Contents(q) = [i \in 1..t |-> q.cells[Slot(q, i)]]
    BY <1>12, ContentsFacts
  <2> QED
    BY <1>4, <1>13, <2>1
<1>16. Contents(w) = [i \in 1..t |-> s[i - 1]]
  BY <1>9, <1>12, <1>13 DEF Contents
<1> QED
  BY <1>10, <1>11, <1>12, <1>14, <1>15, <1>16 DEF g, w

----------------------------------------------------------------------------
(* Calls of process_keys among the items of wq                              *)

Works == {"process_keys", "callback"}

Calls(w) == {i \in 1..Len(w) : w[i] = "process_keys"}

\* There are finitely many.
LEMMA CallsFinite ==
    ASSUME NEW w \in Seq(Works)
    PROVE  IsFiniteSet(Calls(w)) /\ Cardinality(Calls(w)) \in Nat
<1>1. IsFiniteSet(1..Len(w)) /\ Calls(w) \subseteq 1..Len(w)
  BY FS_Interval DEF Calls
<1>2. IsFiniteSet(Calls(w))
  BY <1>1, FS_Subset
<1> QED
  BY <1>2, FS_CardinalityType

\* One more, if a call is queued.
LEMMA CallsAppend ==
    ASSUME NEW w \in Seq(Works), NEW v \in Works
    PROVE  Cardinality(Calls(Append(w, v))) =
               Cardinality(Calls(w)) + (IF v = "process_keys" THEN 1 ELSE 0)
<1>1. CASE v = "process_keys"
  <2>1. Calls(Append(w, v)) = Calls(w) \cup {Len(w) + 1} /\ Len(w) + 1 \notin Calls(w)
    BY <1>1 DEF Calls
  <2> QED
    BY <1>1, <2>1, CallsFinite, FS_AddElement
<1>2. CASE v # "process_keys"
  <2>1. Calls(Append(w, v)) = Calls(w)
    BY <1>2 DEF Calls
  <2> QED
    BY <1>2, <2>1, CallsFinite
<1> QED
  BY <1>1, <1>2

\* One less, if a call is popped.
LEMMA CallsTail ==
    ASSUME NEW w \in Seq(Works), w # <<>>
    PROVE  Cardinality(Calls(Tail(w))) =
               Cardinality(Calls(w)) - (IF w[1] = "process_keys" THEN 1 ELSE 0)
<1> DEFINE A == Calls(w) \ {1}  B == Calls(Tail(w))
<1>1. IsFiniteSet(Calls(w)) /\ Cardinality(Calls(w)) \in Nat
  BY CallsFinite
<1>2. IsFiniteSet(A) /\ Cardinality(A) = Cardinality(Calls(w)) - (IF w[1] = "process_keys" THEN 1 ELSE 0)
  <2>1. 1 \in Calls(w) <=> w[1] = "process_keys"
    BY DEF Calls
  <2> QED
    BY <1>1, <2>1, FS_RemoveElement
<1>3. [i \in A |-> i - 1] \in Bijection(A, B)
  <2> DEFINE f == [i \in A |-> i - 1]
  <2>1. ASSUME NEW i \in A PROVE i \in Int /\ i - 1 \in B
    BY DEF Calls
  <2>2. ASSUME NEW j \in B PROVE j + 1 \in A /\ f[j + 1] = j
    BY DEF Calls
  <2>3. f \in [A -> B]
    BY <2>1
  <2>4. \A i, j \in A : f[i] = f[j] => i = j
    BY <2>1
  <2>5. \A j \in B : \E i \in A : f[i] = j
    BY <2>2
  <2> HIDE DEF f, A, B
  <2>6. f \in Bijection(A, B)
    BY <2>3, <2>4, <2>5 DEF Bijection, Injection, Surjection, IsInjective
  <2> QED
    BY <2>6 DEF f
<1>4. ExistsBijection(A, B)
  BY <1>3 DEF ExistsBijection
<1>5. Cardinality(B) = Cardinality(A)
  BY <1>2, <1>4, FS_Bijection
<1> QED
  BY <1>2, <1>5

----------------------------------------------------------------------------
(* The codes in kbd_buf and the work in wq                                  *)

\* What a handler may have left to do; n codes have been typed.
CallDue == Push("wq", "process_keys")
Todos(n) == {<<>>, <<CallDue>>, <<Push("kbd_buf", n), CallDue>>, <<Push("wq", "callback")>>}

\* How many codes, how many calls for codes in kbd_buf, it has yet to push.
CodesDue(todo) == IF Len(todo) = 2 THEN 1 ELSE 0
CallsDue(todo) == IF todo = <<CallDue>> THEN 1 ELSE 0

\* The codes k follow c; after them, n is the last code typed but for d.
Follow(k, c, n, d) ==
    /\ k \in Seq(Nat) /\ c \in Nat
    /\ \A i \in 1..Len(k) : k[i] = c + i
    /\ n = c + Len(k) + d

\* k and w are what kbd_buf and wq hold, p is where waitloop is, c the last
\* code it has taken, n the last code typed: the codes after c wait in order in
\* k, but for one that its handler has not yet put there, and each one in k has
\* its call.
Matched(k, w, todo, p, c, n) ==
    /\ n \in Nat /\ todo \in Todos(n) /\ w \in Seq(Works)
    /\ Follow(k, c, n, CodesDue(todo))
    /\ Len(k) = Cardinality(Calls(w)) + CallsDue(todo) + (IF p = "keys" THEN 1 ELSE 0)

\* What Todos are.
LEMMA TodosFacts ==
    ASSUME NEW n, NEW todo \in Todos(n), todo # <<>>
    PROVE  /\ Tail(todo) \in Todos(n) /\ CodesDue(Tail(todo)) = 0
           /\ \/ /\ Head(todo).ring = "kbd_buf" /\ Head(todo).item = n
                 /\ CodesDue(todo) = 1 /\ CallsDue(todo) = 0 /\ CallsDue(Tail(todo)) = 1
              \/ /\ Head(todo).ring = "wq" /\ Head(todo).item \in Works
                 /\ CodesDue(todo) = 0 /\ CallsDue(Tail(todo)) = 0
                 /\ CallsDue(todo) = IF Head(todo).item = "process_keys" THEN 1 ELSE 0
<1> DEFINE a == CallDue  b == Push("kbd_buf", n)  d == Push("wq", "callback")
<1>1. /\ a.ring = "wq" /\ a.item = "process_keys" /\ b.ring = "kbd_buf" /\ b.item = n
      /\ d.ring = "wq" /\ d.item = "callback"
  BY DEF CallDue, Push
<1>2. todo \in {<<>>, <<a>>, <<b, a>>, <<d>>}
  BY DEF Todos
<1>3. \A t : CodesDue(t) = (IF Len(t) = 2 THEN 1 ELSE 0) /\ CallsDue(t) = IF t = <<a>> THEN 1 ELSE 0
  BY DEF CodesDue, CallsDue
<1>4. {<<>>, <<a>>} \subseteq Todos(n)
  BY DEF Todos
<1> HIDE DEF a, b, d
<1>5. /\ Tail(<<a>>) = <<>> /\ Tail(<<b, a>>) = <<a>> /\ Tail(<<d>>) = <<>>
      /\ Head(<<a>>) = a /\ Head(<<b, a>>) = b /\ Head(<<d>>) = d
      /\ <<d>> # <<a>> /\ Len(<<b, a>>) = 2 /\ Len(<<a>>) = 1 /\ Len(<<d>>) = 1
      /\ <<b, a>> # <<a>> /\ Len(<<>>) = 0 /\ <<>> # <<a>>
  BY <1>1
<1>6. /\ CodesDue(<<>>) = 0 /\ CodesDue(<<a>>) = 0 /\ CodesDue(<<d>>) = 0 /\ CodesDue(<<b, a>>) = 1
      /\ CallsDue(<<>>) = 0 /\ CallsDue(<<a>>) = 1 /\ CallsDue(<<d>>) = 0 /\ CallsDue(<<b, a>>) = 0
  BY <1>3, <1>5
<1>7. CASE todo = <<a>>
  <2>1. Tail(todo) = <<>> /\ Head(todo) = a
    BY <1>5, <1>7
  <2> QED
    BY <1>1, <1>4, <1>6, <1>7, <2>1 DEF Works
<1>8. CASE todo = <<b, a>>
  <2>1. Tail(todo) = <<a>> /\ Head(todo) = b
    BY <1>5, <1>8
  <2> QED
    BY <1>1, <1>4, <1>6, <1>8, <2>1
<1>9. CASE todo = <<d>>
  <2>1. Tail(todo) = <<>> /\ Head(todo) = d
    BY <1>5, <1>9
  <2> QED
    BY <1>1, <1>4, <1>6, <1>9, <2>1 DEF Works
<1> QED
  BY <1>2, <1>7, <1>8, <1>9

\* What the frames of the handlers begin with.
LEMMA TodosBegin ==
    ASSUME NEW n
    PROVE  /\ <<>> \in Todos(n) /\ CodesDue(<<>>) = 0 /\ CallsDue(<<>>) = 0
           /\ LET t == <<Push("kbd_buf", n), Push("wq", "process_keys")>>
              IN  t \in Todos(n) /\ CodesDue(t) = 1 /\ CallsDue(t) = 0
           /\ LET t == <<Push("wq", "callback")>>
              IN  t \in Todos(n) /\ CodesDue(t) = 0 /\ CallsDue(t) = 0
<1>1. <<Push("kbd_buf", n), Push("wq", "process_keys")>> # <<CallDue>>
  OBVIOUS
<1>2. <<Push("wq", "callback")>> # <<CallDue>>
  BY DEF CallDue, Push
<1> QED
  BY <1>1, <1>2 DEF Todos, CodesDue, CallsDue, CallDue

\* A key is typed, or a tick comes, with a callback to queue or none.
LEMMA MatchedIrq ==
    ASSUME NEW k, NEW w, NEW p, NEW c, NEW n, Matched(k, w, <<>>, p, c, n)
    PROVE  /\ Matched(k, w, <<Push("kbd_buf", n + 1), Push("wq", "process_keys")>>, p, c, n + 1)
           /\ Matched(k, w, <<Push("wq", "callback")>>, p, c, n)
<1>1. n \in Nat /\ w \in Seq(Works) /\ Follow(k, c, n, 0)
      /\ Len(k) = Cardinality(Calls(w)) + 0 + (IF p = "keys" THEN 1 ELSE 0)
  BY TodosBegin DEF Matched
<1>2. Follow(k, c, n + 1, 1)
  BY <1>1 DEF Follow
<1> DEFINE kbd == <<Push("kbd_buf", n + 1), Push("wq", "process_keys")>>
           pit == <<Push("wq", "callback")>>
<1>3. kbd \in Todos(n + 1) /\ CodesDue(kbd) = 1 /\ CallsDue(kbd) = 0
  BY TodosBegin
<1>4. pit \in Todos(n) /\ CodesDue(pit) = 0 /\ CallsDue(pit) = 0
  BY TodosBegin
<1>5. n + 1 \in Nat
  BY <1>1
<1> HIDE DEF kbd, pit
<1>6. Matched(k, w, kbd, p, c, n + 1) /\ Matched(k, w, pit, p, c, n)
  BY <1>1, <1>2, <1>3, <1>4, <1>5 DEF Matched
<1> QED
  BY <1>6 DEF kbd, pit

\* A push.
LEMMA MatchedPush ==
    ASSUME NEW k, NEW w, NEW todo, NEW p, NEW c, NEW n, Matched(k, w, todo, p, c, n), todo # <<>>
    PROVE  \/ /\ Head(todo).ring = "kbd_buf"
              /\ Matched(Append(k, Head(todo).item), w, Tail(todo), p, c, n)
           \/ /\ Head(todo).ring = "wq"
              /\ Matched(k, Append(w, Head(todo).item), Tail(todo), p, c, n)
<1>1. n \in Nat /\ todo \in Todos(n) /\ w \in Seq(Works) /\ Follow(k, c, n, CodesDue(todo))
  BY DEF Matched
<1>2. Cardinality(Calls(w)) \in Nat
  BY <1>1, CallsFinite
<1>3. Tail(todo) \in Todos(n) /\ CodesDue(Tail(todo)) = 0
  BY <1>1, TodosFacts
<1>4. CASE /\ Head(todo).ring = "kbd_buf" /\ Head(todo).item = n
           /\ CodesDue(todo) = 1 /\ CallsDue(todo) = 0 /\ CallsDue(Tail(todo)) = 1
  <2>1. Follow(k, c, n, 1)
    BY <1>1, <1>4
  <2>2. Follow(Append(k, n), c, n, 0) /\ Len(Append(k, n)) = Len(k) + 1
    BY <1>1, <2>1 DEF Follow
  <2>3. Len(k) = Cardinality(Calls(w)) + 0 + (IF p = "keys" THEN 1 ELSE 0)
    BY <1>4 DEF Matched
  <2> QED
    BY <1>1, <1>2, <1>3, <1>4, <2>2, <2>3 DEF Matched
<1>5. CASE /\ Head(todo).ring = "wq" /\ Head(todo).item \in Works
           /\ CodesDue(todo) = 0 /\ CallsDue(Tail(todo)) = 0
           /\ CallsDue(todo) = IF Head(todo).item = "process_keys" THEN 1 ELSE 0
  <2> DEFINE v == Head(todo).item
  <2>1. Append(w, v) \in Seq(Works)
    BY <1>1, <1>5
  <2>2. Cardinality(Calls(Append(w, v))) = Cardinality(Calls(w)) + (IF v = "process_keys" THEN 1 ELSE 0)
    BY <1>1, <1>5, CallsAppend
  <2>3. Len(k) = Cardinality(Calls(w)) + (IF v = "process_keys" THEN 1 ELSE 0) + (IF p = "keys" THEN 1 ELSE 0)
    BY <1>5 DEF Matched
  <2> HIDE DEF v
  <2>4. Matched(k, Append(w, v), Tail(todo), p, c, n)
    BY <1>1, <1>2, <1>3, <1>5, <2>1, <2>2, <2>3 DEF Matched
  <2> QED
    BY <1>5, <2>4 DEF v
<1> QED
  BY <1>1, <1>4, <1>5, TodosFacts

\* waitloop takes a work item.
LEMMA MatchedPopWork ==
    ASSUME NEW k, NEW w, NEW p, NEW c, NEW n, NEW r, Matched(k, w, <<>>, p, c, n), w # <<>>,
           p # "keys", r = "keys" <=> w[1] = "process_keys"
    PROVE  w[1] \in Works /\ Matched(k, Tail(w), <<>>, r, c, n)
<1>1. w \in Seq(Works) /\ Tail(w) \in Seq(Works) /\ w[1] \in Works
  BY DEF Matched
<1>2. Cardinality(Calls(Tail(w))) = Cardinality(Calls(w)) - (IF w[1] = "process_keys" THEN 1 ELSE 0)
  BY <1>1, CallsTail
<1>3. Cardinality(Calls(w)) \in Nat
  BY <1>1, CallsFinite
<1>4. CallsDue(<<>>) = 0
  BY TodosBegin
<1> QED
  BY <1>1, <1>2, <1>3, <1>4 DEF Matched

\* process_keys takes a code: there is one, and it is the next.
LEMMA MatchedPopKey ==
    ASSUME NEW k, NEW w, NEW c, NEW n, Matched(k, w, <<>>, "keys", c, n)
    PROVE  k # <<>> /\ k[1] = c + 1 /\ Matched(Tail(k), w, <<>>, "work", c + 1, n)
<1>1. /\ w \in Seq(Works) /\ n \in Nat /\ Follow(k, c, n, 0) /\ <<>> \in Todos(n)
      /\ Len(k) = Cardinality(Calls(w)) + 0 + 1
  BY TodosBegin DEF Matched
<1>2. Cardinality(Calls(w)) \in Nat
  BY <1>1, CallsFinite
<1>3. k # <<>> /\ k[1] = c + 1
  BY <1>1, <1>2 DEF Follow
<1>4. Follow(Tail(k), c + 1, n, 0) /\ Len(Tail(k)) = Len(k) - 1
  BY <1>1, <1>3 DEF Follow
<1>5. CodesDue(<<>>) = 0 /\ CallsDue(<<>>) = 0
  BY TodosBegin
<1>6. Matched(Tail(k), w, <<>>, "work", c + 1, n)
  BY <1>1, <1>2, <1>4, <1>5 DEF Matched
<1> QED
  BY <1>3, <1>6

\* waitloop goes on to something else than process_keys.
LEMMA MatchedGo ==
    ASSUME NEW k, NEW w, NEW todo, NEW p, NEW c, NEW n, NEW r, Matched(k, w, todo, p, c, n),
           r = "keys" <=> p = "keys"
    PROVE  Matched(k, w, todo, r, c, n)
BY DEF Matched

----------------------------------------------------------------------------
(* The rings and what they hold                                             *)

\* What the handler that runs has left to do, and the ring that it has grown.
Todo  == IF frames = <<>> THEN <<>> ELSE frames[1].todo
Saved == IF frames = <<>> THEN <<>> ELSE frames[1].saved

\* While a ring grows, the copy of it holds what it held and has room.
RingsGood ==
    \/ Saved = <<>> /\ GoodRing(wq) /\ GoodRing(kbd_buf)
    \/ /\ Saved = <<Head(Saved)>> /\ Todo # <<>>
       /\ GoodRing(Head(Saved)) /\ ~IsFull(Head(Saved))
       /\ Contents(Head(Saved)) = Contents(RingOf(Head(Todo).ring))
       /\ Size(RingOf(Head(Todo).ring)) \in Nat
       /\ \A name \in {"wq", "kbd_buf"} \ {Head(Todo).ring} : GoodRing(RingOf(name))

RingsInv ==
    ~spliced => /\ RingsGood
                /\ Matched(Contents(kbd_buf), Contents(wq), Todo, pc, code, typed)

\* The rings are good, and agree, when they have been made.
LEMMA RingsInit == Init => RingsInv
<1> SUFFICES ASSUME Init PROVE RingsInv
  OBVIOUS
<1>1. /\ wq = EmptyRing(Cap) /\ kbd_buf = EmptyRing(Cap) /\ frames = <<>>
      /\ pc = "loop" /\ code = 0 /\ typed = 0
  BY DEF Init
<1> DEFINE e == EmptyRing(Cap)
<1>2. GoodRing(e)
  BY InterruptsAssumption, PartsRing DEF EmptyRing
<1>3. IsEmpty(e)
  BY DEF EmptyRing, IsEmpty
<1> HIDE DEF e
<1>4. Contents(e) = <<>>
  BY <1>2, <1>3, EmptyFacts
<1>5. Todo = <<>> /\ Saved = <<>>
  BY <1>1 DEF Todo, Saved
<1>6. Cardinality(Calls(<<>>)) = 0
  <2>1. Calls(<<>>) = {}
    BY DEF Calls
  <2> QED
    BY <2>1, FS_EmptySet
<1>7. Matched(<<>>, <<>>, <<>>, "loop", 0, 0)
  <2>1. Follow(<<>>, 0, 0, 0) /\ <<>> \in Seq(Works)
    BY DEF Follow
  <2>2. <<>> \in Todos(0) /\ CodesDue(<<>>) = 0 /\ CallsDue(<<>>) = 0
    BY TodosBegin
  <2> QED
    BY <1>6, <2>1, <2>2 DEF Matched
<1> QED
  BY <1>1, <1>2, <1>4, <1>5, <1>7 DEF RingsInv, RingsGood, e

\* The frame of the handler that runs.
LEMMA TodoOfTop ==
    ASSUME FlagInv
    PROVE  /\ frames # <<>> => Len(frames) = 1 /\ Todo = Top.todo /\ Saved = Top.saved
           /\ Busy => Todo # <<>> /\ Job = Head(Todo) /\ frames # <<>>
           /\ \A f : frames' = <<f>> => Todo' = f.todo /\ Saved' = f.saved
           /\ frames = <<>> => Todo = <<>> /\ Saved = <<>>
           /\ frames' = <<>> => Todo' = <<>> /\ Saved' = <<>>
<1>1. frames # <<>> => Len(frames) = 1 /\ Top = frames[1]
  BY DEF FlagInv, OneFrame, Top
<1>2. /\ frames # <<>> => Len(frames) = 1 /\ Todo = Top.todo /\ Saved = Top.saved
      /\ Busy => Todo # <<>> /\ Job = Head(Todo) /\ frames # <<>>
  BY <1>1 DEF Todo, Saved, Busy, Job
<1>3. \A f : <<f>> # <<>> /\ <<f>>[1] = f
  OBVIOUS
<1> QED
  BY <1>2, <1>3 DEF Todo, Saved

\* What every step does to the rings while none has grown wrapped.
LEMMA RingsNext ==
    ASSUME FlagInv, RingsInv, [Next]_vars, ~spliced'
    PROVE  /\ RingsGood' /\ Matched(Contents(kbd_buf), Contents(wq), Todo, pc, code, typed)'
           /\ UNCHANGED code \/ code' = code + 1
<1> DEFINE K == Contents(kbd_buf)  W == Contents(wq)
           M == Matched(K, W, Todo, pc, code, typed)
<1>1. ~spliced
  BY DEF Next, Irq, Handler, Section, Loop, Call, KbdIrq, PitIrq, PushRoom, PushGrow, PushGrown,
         Leave, Preempt, PopWork, PopKey, BeginSection, EndSection, WorkDone, Go, SysCall,
         PrintCall, PrintEnd, SysReturn, vars
<1>2. RingsGood /\ M
  BY <1>1 DEF RingsInv
<1>3. ASSUME UNCHANGED <<wq, kbd_buf>>, Saved' = <<>>, Saved = <<>>
      PROVE  RingsGood' /\ K' = K /\ W' = W
  BY <1>2, <1>3 DEF RingsGood
<1>4. ASSUME UNCHANGED <<wq, kbd_buf, frames, code, typed>>, pc' = "keys" <=> pc = "keys"
      PROVE  RingsGood' /\ M' /\ UNCHANGED code
  <2>1. K' = K /\ W' = W /\ Todo' = Todo /\ Saved' = Saved /\ code' = code /\ typed' = typed
    BY <1>4 DEF Todo, Saved
  <2>2. RingsGood'
    BY <1>2, <1>4, <2>1 DEF RingsGood, RingOf
  <2> HIDE DEF K, W
  <2>3. M'
    BY <1>2, <1>4, <2>1, MatchedGo
  <2> QED
    BY <2>1, <2>2, <2>3 DEF K, W
<1>5. CASE KbdIrq
  <2> DEFINE t == <<Push("kbd_buf", typed + 1), Push("wq", "process_keys")>>
  <2>1. frames = <<>> /\ frames' = <<Frame("kbd", t)>>
    BY <1>5, EnterFlag DEF KbdIrq
  <2>2. Todo = <<>> /\ Saved = <<>> /\ Todo' = t /\ Saved' = <<>>
    BY <2>1, TodoOfTop DEF Frame
  <2>3. UNCHANGED <<wq, kbd_buf, pc, code>> /\ typed' = typed + 1
    BY <1>5 DEF KbdIrq
  <2>4. RingsGood' /\ K' = K /\ W' = W
    BY <1>3, <2>2, <2>3
  <2> HIDE DEF K, W
  <2>5. Matched(K, W, t, pc, code, typed + 1)
    BY <1>2, <2>2, MatchedIrq
  <2>6. M'
    BY <2>2, <2>3, <2>4, <2>5
  <2> QED
    BY <2>3, <2>4, <2>6 DEF K, W
<1>6. CASE PitIrq
  <2>1. PICK t \in {<<>>, <<Push("wq", "callback")>>} : Enter("pit", t)
    BY <1>6 DEF PitIrq
  <2>2. UNCHANGED <<int_blocks, wq, kbd_buf, pc, depth, code, typed>>
    BY <1>6 DEF PitIrq
  <2>3. frames = <<>> /\ frames' = <<Frame("pit", t)>>
    BY <2>1, <2>2, EnterFlag
  <2>4. Todo = <<>> /\ Saved = <<>> /\ Todo' = t /\ Saved' = <<>>
    BY <2>3, TodoOfTop DEF Frame
  <2>5. RingsGood' /\ K' = K /\ W' = W
    BY <1>3, <2>2, <2>4
  <2> HIDE DEF K, W
  <2>6. Matched(K, W, t, pc, code, typed)
    BY <1>2, <2>4, MatchedIrq
  <2>7. M'
    BY <2>2, <2>4, <2>5, <2>6
  <2> QED
    BY <2>2, <2>5, <2>7 DEF K, W
<1> DEFINE item == Head(Todo).item  ring == Head(Todo).ring
<1>7. ASSUME NEW q, GoodRing(q), ~IsFull(q), Contents(q) = Contents(RingOf(ring)), Todo # <<>>,
             SetRing(ring, Put(q, item)), Todo' = Tail(Todo), Saved' = <<>>,
             \A name \in {"wq", "kbd_buf"} \ {ring} : GoodRing(RingOf(name)),
             UNCHANGED <<pc, code, typed>>
      PROVE  RingsGood' /\ M' /\ UNCHANGED code
  <2>1. GoodRing(Put(q, item)) /\ Contents(Put(q, item)) = Append(Contents(RingOf(ring)), item)
    BY <1>7, PutFacts
  <2>2. CASE ring = "kbd_buf" /\ Matched(Append(K, item), W, Tail(Todo), pc, code, typed)
    <3>1. kbd_buf' = Put(q, item) /\ wq' = wq /\ RingOf(ring) = kbd_buf
      BY <1>7, <2>2 DEF SetRing, RingOf
    <3>2. GoodRing(wq)
      BY <1>7, <2>2 DEF RingOf
    <3> QED
      BY <1>7, <2>1, <2>2, <3>1, <3>2 DEF RingsGood
  <2>3. CASE ring = "wq" /\ Matched(K, Append(W, item), Tail(Todo), pc, code, typed)
    <3>1. wq' = Put(q, item) /\ kbd_buf' = kbd_buf /\ RingOf(ring) = wq
      BY <1>7, <2>3 DEF SetRing, RingOf
    <3>2. GoodRing(kbd_buf)
      BY <1>7, <2>3 DEF RingOf
    <3> QED
      BY <1>7, <2>1, <2>3, <3>1, <3>2 DEF RingsGood
  <2> HIDE DEF K, W
  <2>4. \/ ring = "kbd_buf" /\ Matched(Append(K, item), W, Tail(Todo), pc, code, typed)
        \/ ring = "wq" /\ Matched(K, Append(W, item), Tail(Todo), pc, code, typed)
    BY <1>2, <1>7, MatchedPush
  <2> QED
    BY <2>2, <2>3, <2>4 DEF K, W
<1>8. CASE PushRoom
  <2>1. /\ Busy /\ Todo = Top.todo /\ Todo # <<>> /\ Job = Head(Todo) /\ Saved = <<>> /\ Top.saved = <<>>
        /\ UNCHANGED <<pc, code, typed>>
    BY <1>8, TodoOfTop DEF PushRoom
  <2>2. ~IsFull(RingOf(ring)) /\ SetRing(ring, Put(RingOf(ring), item))
    BY <1>8, <2>1 DEF PushRoom
  <2>3. IsFrame(Top) /\ frames' = <<[Top EXCEPT !.todo = Tail(@)]>>
    BY <1>8, <2>1, TopFacts DEF PushRoom
  <2>4. frames' = <<[irq |-> Top.irq, todo |-> Tail(Top.todo), saved |-> Top.saved]>>
    BY <2>3, NewTodo
  <2>5. Todo' = Tail(Todo) /\ Saved' = <<>>
    BY <2>1, <2>4, TodoOfTop
  <2>6. GoodRing(wq) /\ GoodRing(kbd_buf)
    BY <1>2, <2>1 DEF RingsGood
  <2>7. GoodRing(RingOf(ring)) /\ \A name : GoodRing(RingOf(name))
    BY <2>6 DEF RingOf
  <2> HIDE DEF ring, item
  <2> QED
    BY <1>7, <2>1, <2>2, <2>5, <2>7
<1>9. CASE PushGrow
  <2> DEFINE q == RingOf(ring)  g == Grown(q, 2 * q.cap)
  <2>1. /\ Busy /\ Todo = Top.todo /\ Todo # <<>> /\ Job = Head(Todo) /\ Saved = <<>>
        /\ UNCHANGED <<pc, code, typed>>
    BY <1>9, TodoOfTop DEF PushGrow
  <2>2. /\ IsFull(q) /\ SetRing(ring, [q EXCEPT !.cap = 2 * q.cap])
        /\ SetTop([Top EXCEPT !.saved = <<g>>]) /\ q.head = 0
    BY <1>9, <2>1 DEF PushGrow
  <2>3. GoodRing(wq) /\ GoodRing(kbd_buf)
    BY <1>2, <2>1 DEF RingsGood
  <2>4. GoodRing(q)
    BY <2>3 DEF RingOf
  <2>5. /\ GoodRing(g) /\ ~IsFull(g) /\ Contents(g) = Contents(q)
        /\ Contents([q EXCEPT !.cap = 2 * q.cap]) = Contents(q)
        /\ Size([q EXCEPT !.cap = 2 * q.cap]) \in Nat
    <3> HIDE DEF q
    <3> QED
      BY <2>2, <2>4, GrownFacts
  <2>6. IsFrame(Top) /\ frames' = <<[Top EXCEPT !.saved = <<g>>]>>
    BY <2>1, <2>2, TopFacts
  <2>7. frames' = <<[irq |-> Top.irq, todo |-> Top.todo, saved |-> <<g>>]>>
    <3> HIDE DEF g
    <3> QED
      BY <2>6 DEF IsFrame
  <2>8. Todo' = Todo /\ Saved' = <<g>>
    BY <2>1, <2>7, TodoOfTop
  <2>9. ring \in {"kbd_buf", "wq"}
    BY <1>2, <2>1, MatchedPush
  <2>10. /\ RingOf(ring)' = [q EXCEPT !.cap = 2 * q.cap]
         /\ \A name \in {"wq", "kbd_buf"} \ {ring} : RingOf(name)' = RingOf(name)
    BY <2>2, <2>8, <2>9 DEF SetRing, RingOf
  <2>11. K' = K /\ W' = W
    BY <2>2, <2>5, <2>9 DEF SetRing, RingOf
  <2> QED
    BY <1>2, <2>1, <2>3, <2>5, <2>8, <2>9, <2>10, <2>11 DEF RingsGood, RingOf
<1>10. CASE PushGrown
  <2>1. /\ Busy /\ Todo = Top.todo /\ Todo # <<>> /\ Job = Head(Todo) /\ Saved = Top.saved /\ Saved # <<>>
        /\ UNCHANGED <<pc, code, typed>>
    BY <1>10, TodoOfTop DEF PushGrown
  <2>2. SetRing(ring, Put(Head(Saved), item))
    BY <1>10, <2>1 DEF PushGrown
  <2>3. frames' = <<Frame(Top.irq, Tail(Top.todo))>>
    BY <1>10, <2>1, TopFacts DEF PushGrown
  <2>4. Todo' = Tail(Todo) /\ Saved' = <<>>
    BY <2>1, <2>3, TodoOfTop DEF Frame
  <2>5. /\ GoodRing(Head(Saved)) /\ ~IsFull(Head(Saved))
        /\ Contents(Head(Saved)) = Contents(RingOf(ring))
        /\ \A name \in {"wq", "kbd_buf"} \ {ring} : GoodRing(RingOf(name))
    BY <1>2, <2>1 DEF RingsGood
  <2> HIDE DEF ring, item
  <2> QED
    BY <1>7, <2>1, <2>2, <2>4, <2>5
<1>11. ASSUME UNCHANGED <<wq, kbd_buf, code, typed>>, pc' = "keys" <=> pc = "keys",
              Todo = <<>>, frames' = <<>>
       PROVE  RingsGood' /\ M' /\ UNCHANGED code
  <2>1. Saved = <<>> /\ Saved' = <<>> /\ Todo' = <<>>
    BY <1>2, <1>11, TodoOfTop DEF RingsGood
  <2>2. RingsGood' /\ K' = K /\ W' = W
    BY <1>3, <1>11, <2>1
  <2> HIDE DEF K, W
  <2>3. M'
    BY <1>2, <1>11, <2>1, <2>2, MatchedGo
  <2> QED
    BY <1>11, <2>2, <2>3 DEF K, W
<1>12. CASE Leave
  <2>1. Len(frames) = 1 /\ Todo = <<>>
    BY <1>12, TodoOfTop DEF Leave
  <2>2. frames' = <<>>
    BY <1>12, <2>1 DEF Leave, FlagInv, OneFrame
  <2> QED
    BY <1>11, <1>12, <2>1, <2>2 DEF Leave
<1>13. CASE Preempt
  <2>1. frames # <<>>
    BY <1>13 DEF Preempt
  <2> QED
    BY <1>11, <1>13, <2>1, TodoOfTop DEF Preempt
<1>14. CASE PopWork
  <2>1. CASE IsEmpty(wq)
    BY <1>4, <1>14, <2>1 DEF PopWork
  <2>2. CASE ~IsEmpty(wq)
    <3>1. /\ frames = <<>> /\ frames' = <<>> /\ pc = "loop" /\ wq' = Popped(wq) /\ kbd_buf' = kbd_buf
          /\ pc' = (CASE Front(wq) = "process_keys" -> "keys"
                      [] Front(wq) = "callback" -> "work"
                      [] OTHER -> "crash")
          /\ UNCHANGED <<code, typed>>
      BY <1>14, <2>2 DEF PopWork
    <3>2. Todo = <<>> /\ Saved = <<>> /\ Todo' = <<>> /\ Saved' = <<>>
      BY <3>1, TodoOfTop
    <3>3. GoodRing(wq) /\ GoodRing(kbd_buf)
      BY <1>2, <3>2 DEF RingsGood
    <3>4. GoodRing(wq') /\ W # <<>> /\ Front(wq) = W[1] /\ W' = Tail(W) /\ K' = K
      BY <2>2, <3>1, <3>3, PopFacts
    <3>5. RingsGood'
      BY <3>1, <3>2, <3>3, <3>4 DEF RingsGood
    <3> HIDE DEF K, W
    <3>6. pc' = "keys" <=> W[1] = "process_keys"
      BY <3>1, <3>4
    <3>7. Matched(K, Tail(W), <<>>, pc', code, typed)
      BY <1>2, <3>1, <3>2, <3>4, <3>6, MatchedPopWork
    <3>8. M'
      BY <3>1, <3>2, <3>4, <3>7
    <3> QED
      BY <3>1, <3>5, <3>8 DEF K, W
  <2> QED
    BY <2>1, <2>2
<1>15. CASE PopKey
  <2>1. /\ frames = <<>> /\ frames' = <<>> /\ pc = "keys" /\ pc' = "work"
        /\ UNCHANGED <<wq, typed>>
    BY <1>15 DEF PopKey
  <2>2. Todo = <<>> /\ Saved = <<>> /\ Todo' = <<>> /\ Saved' = <<>>
    BY <2>1, TodoOfTop
  <2>3. GoodRing(wq) /\ GoodRing(kbd_buf)
    BY <1>2, <2>2 DEF RingsGood
  <2>4. K # <<>> /\ K[1] = code + 1 /\ Matched(Tail(K), W, <<>>, "work", code + 1, typed)
    <3> HIDE DEF K, W
    <3> QED
      BY <1>2, <2>1, <2>2, MatchedPopKey
  <2>5. ~IsEmpty(kbd_buf)
    BY <2>3, <2>4, EmptyFacts
  <2>6. code' = Front(kbd_buf) /\ kbd_buf' = Popped(kbd_buf)
    BY <1>15, <2>5 DEF PopKey
  <2>7. GoodRing(kbd_buf') /\ Front(kbd_buf) = K[1] /\ K' = Tail(K) /\ W' = W
    BY <2>1, <2>3, <2>5, <2>6, PopFacts
  <2>8. RingsGood'
    BY <2>1, <2>2, <2>3, <2>7 DEF RingsGood
  <2> HIDE DEF K, W
  <2>9. M'
    BY <2>1, <2>2, <2>4, <2>6, <2>7
  <2> QED
    BY <2>4, <2>6, <2>7, <2>8, <2>9 DEF K, W
<1>16. CASE BeginSection
  BY <1>4, <1>16 DEF BeginSection
<1>17. CASE EndSection
  BY <1>4, <1>17 DEF EndSection
<1>18. CASE Go
  BY <1>4, <1>18 DEF Go
<1>19. CASE SysCall
  BY <1>4, <1>19 DEF SysCall
<1>20. CASE WorkDone
  BY <1>4, <1>20 DEF WorkDone
<1>21. CASE PrintCall
  BY <1>4, <1>21 DEF PrintCall
<1>22. CASE PrintEnd
  BY <1>4, <1>22 DEF PrintEnd
<1>23. CASE SysReturn
  BY <1>4, <1>23 DEF SysReturn
<1>24. CASE UNCHANGED vars
  BY <1>4, <1>24 DEF vars
<1> QED
  BY <1>5, <1>6, <1>8, <1>9, <1>10, <1>12, <1>13, <1>14, <1>15, <1>16, <1>17, <1>18, <1>19, <1>20,
     <1>21, <1>22, <1>23, <1>24 DEF Next, Irq, Handler, Section, Loop, Call

\* The invariants of the flag and of the rings hold throughout.
THEOREM RingsInvariance == Spec => [](FlagInv /\ RingsInv)
<1>1. FlagInv /\ RingsInv /\ [Next]_vars => (FlagInv /\ RingsInv)'
  BY FlagNext, RingsNext DEF RingsInv
<1> QED
  BY <1>1, FlagInit, RingsInit, PTL DEF Spec

\* Every scan code in kbd_buf has a call of process_keys to its name, queued,
\* begun or about to be queued, whatever the capacity of the rings and however
\* often they grow, as long as none has grown while it was wrapped.
THEOREM KeysMatch == Spec => []KeysMatchWork
<1>1. ASSUME FlagInv, RingsInv, ~spliced
      PROVE  Size(kbd_buf) = Cardinality({i \in 1..Size(wq) : Contents(wq)[i] = "process_keys"})
                 + Cardinality({i \in 1..Len(frames) : frames[i].todo = <<Push("wq", "process_keys")>>})
                 + (IF pc = "keys" THEN 1 ELSE 0)
  <2> DEFINE coming == {i \in 1..Len(frames) : frames[i].todo = <<Push("wq", "process_keys")>>}
  <2>1. Matched(Contents(kbd_buf), Contents(wq), Todo, pc, code, typed)
    BY <1>1 DEF RingsInv
  <2>2. Len(Contents(kbd_buf)) = Cardinality(Calls(Contents(wq))) + CallsDue(Todo)
                                     + (IF pc = "keys" THEN 1 ELSE 0)
    BY <2>1 DEF Matched
  <2>3. Cardinality(coming) = CallsDue(Todo)
    <3>1. CASE frames = <<>>
      <4>1. coming = {} /\ Todo = <<>>
        BY <3>1 DEF Todo
      <4> QED
        BY <4>1, FS_EmptySet, TodosBegin
    <3>2. CASE frames # <<>>
      <4>1. Len(frames) = 1 /\ Todo = frames[1].todo
        BY <1>1, <3>2, TodoOfTop DEF Todo
      <4>2. coming = IF Todo = <<CallDue>> THEN {1} ELSE {}
        BY <4>1 DEF CallDue
      <4>3. Cardinality({1}) = 1 /\ Cardinality({}) = 0
        BY FS_Singleton, FS_EmptySet
      <4> QED
        BY <4>2, <4>3 DEF CallsDue
    <3> QED
      BY <3>1, <3>2
  <2>4. Size(kbd_buf) \in Nat /\ Size(wq) \in Nat
    <3>1. ASSUME NEW q, GoodRing(q) PROVE Size(q) \in Nat
      BY <3>1, ContentsFacts DEF GoodRing
    <3>2. RingsGood
      BY <1>1 DEF RingsInv
    <3>3. CASE Saved = <<>> /\ GoodRing(wq) /\ GoodRing(kbd_buf)
      BY <3>1, <3>3
    <3>4. CASE /\ Size(RingOf(Head(Todo).ring)) \in Nat
               /\ \A name \in {"wq", "kbd_buf"} \ {Head(Todo).ring} : GoodRing(RingOf(name))
      BY <3>1, <3>4 DEF RingOf
    <3> QED
      BY <3>2, <3>3, <3>4 DEF RingsGood
  <2>5. Len(Contents(kbd_buf)) = Size(kbd_buf) /\ Len(Contents(wq)) = Size(wq)
    BY <2>4 DEF Contents
  <2> QED
    BY <2>2, <2>3, <2>5 DEF Calls
<1>2. FlagInv /\ RingsInv => KeysMatchWork
  BY <1>1 DEF KeysMatchWork
<1> QED
  BY <1>2, RingsInvariance, PTL

\* keyScanned is given every scan code once, in the order of the interrupts, as
\* long as no ring has grown while it was wrapped.
THEOREM InOrder == Spec => KeysInOrder
<1>1. FlagInv /\ RingsInv /\ [Next]_vars 
          => spliced \/ UNCHANGED code \/ code' = code + 1
  <2> SUFFICES ASSUME FlagInv, RingsInv, [Next]_vars, ~spliced
               PROVE  UNCHANGED code \/ code' = code + 1
    OBVIOUS
  <2>1. CASE PushGrow
    BY <2>1 DEF PushGrow
  <2>2. CASE ~PushGrow
    <3>1. ~spliced'
      BY <2>2 DEF Next, Irq, Handler, Section, Loop, Call, KbdIrq, PitIrq, PushRoom, PushGrown,
                  Leave, Preempt, PopWork, PopKey, BeginSection, EndSection, WorkDone, Go, SysCall,
                  PrintCall, PrintEnd, SysReturn, vars
    <3> QED
      BY <3>1, RingsNext
  <2> QED
    BY <2>1, <2>2
<1>2. (spliced \/ UNCHANGED code \/ code' = code + 1)
          => [spliced \/ UNCHANGED code \/ code' = code + 1]_vars
  OBVIOUS
<1> QED
  BY <1>1, <1>2, RingsInvariance, PTL DEF Spec, KeysInOrder
=============================================================================
