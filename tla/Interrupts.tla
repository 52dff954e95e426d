----------------------------- MODULE Interrupts -----------------------------
(***************************************************************************)
(* Interrupt handlers against waitloop: what the interrupt flag and        *)
(* int_blocks (src/src/kernel/interrupt.c and interrupt.h) keep apart.     *)
(* irq1_kbd puts a scan code in kbd_buf and process_keys in wq; irq0_pit   *)
(* puts a periodic callback in wq; waitloop pops wq, and process_keys pops *)
(* kbd_buf.  A push that has to grow its ring calls realloc, which ends    *)
(* with ints_okay: a handler is then interruptible if int_blocks is 0.     *)
(* Work functions, system calls and faults share lists, terminals and the  *)
(* heap with handlers, in sections between no_ints and ints_okay, which    *)
(* nest: gotInput > printColorTo > ensureTerm > malloc.                    *)
(***************************************************************************)
EXTENDS Ring, FiniteSets

CONSTANTS Cap,        \* INIT_KB_CAP and INIT_WQ_CAP
          MaxKeys,    \* bound: scan codes sent, which are 1, 2, 3, ...
          MaxTicks,   \* bound: periodic callbacks queued
          MaxNest,    \* bound: handlers that interrupt each other
          MaxDepth    \* bound: sections that are open at once

ASSUME InterruptsAssumption ==
    /\ Cap \in Nat \ {0, 1}
    /\ {MaxKeys, MaxTicks, MaxNest, MaxDepth} \subseteq Nat

VARIABLES ints,       \* the interrupt flag
          int_blocks,
          wq, kbd_buf,
          pc,         \* where the interrupted code is
          depth,      \* the sections it has open: no_ints without its pair
          frames,     \* the handlers that are running, the innermost last
          code,       \* the scan code last given to keyScanned, -1: none was there
          typed, ticks,
          spliced     \* a ring has grown while its contents were wrapped

vars == <<ints, int_blocks, wq, kbd_buf, pc, depth, frames, code, typed, ticks, spliced>>

----------------------------------------------------------------------------
(* no_ints and ints_okay: the flag and the count of blocks.                 *)

NoInts == ints' = FALSE /\ int_blocks' = int_blocks + 1

\* One block less, if there is one.
IntsOkayOnceOn == int_blocks' = IF int_blocks = 0 THEN 0 ELSE int_blocks - 1

\* Mutant of IntsOkay: sti without asking int_blocks, the way pop does it.
PlainSti == IntsOkayOnceOn /\ ints' = TRUE

IntsOkay == IntsOkayOnceOn /\ ints' = (ints \/ int_blocks' = 0)

\* The flag after a realloc, where malloc's no_ints and ints_okay pair up.
FlagAfterRealloc == int_blocks = 0

\* Mutant of BootBlocks: kernel_entry without no_ints.
NoBootBlock == 0

\* kernel_entry calls no_ints once before startTty and never takes it back.
BootBlocks == 1

----------------------------------------------------------------------------
(* Handlers                                                                 *)

Push(ring, v) == [ring |-> ring, item |-> v]

\* A handler: the pushes it has yet to make, and the ring as push has saved
\* it (head_off, tail_off, and the cells realloc copied) while it grows.
Frame(irq, todo) == [irq |-> irq, todo |-> todo, saved |-> <<>>]

\* The processor clears the flag on its way through an interrupt gate.
Enter(irq, todo) ==
    /\ ints
    /\ Len(frames) < MaxNest
    /\ pc # "crash"
    /\ frames' = Append(frames, Frame(irq, todo))
    /\ ints' = FALSE

KbdIrq ==
    /\ typed < MaxKeys
    /\ typed' = typed + 1
    /\ Enter("kbd", <<Push("kbd_buf", typed + 1), Push("wq", "process_keys")>>)
    /\ UNCHANGED <<int_blocks, wq, kbd_buf, pc, depth, code, ticks, spliced>>

\* A tick that is due to no periodic callback, or to one.
PitIrq ==
    /\ \/ Enter("pit", <<>>) /\ UNCHANGED ticks
       \/ /\ ticks < MaxTicks
          /\ ticks' = ticks + 1
          /\ Enter("pit", <<Push("wq", "callback")>>)
    /\ UNCHANGED <<int_blocks, wq, kbd_buf, pc, depth, code, typed, spliced>>

Top == frames[Len(frames)]

SetTop(f) == frames' = [frames EXCEPT ![Len(frames)] = f]

RingOf(name) == IF name = "wq" THEN wq ELSE kbd_buf

SetRing(name, q) ==
    IF name = "wq" THEN wq' = q /\ UNCHANGED kbd_buf
                   ELSE kbd_buf' = q /\ UNCHANGED wq

Busy == frames # <<>> /\ Top.todo # <<>>
Job  == Head(Top.todo)

PushRoom ==
    /\ Busy /\ Top.saved = <<>>
    /\ ~IsFull(RingOf(Job.ring))
    /\ SetRing(Job.ring, Put(RingOf(Job.ring), Job.item))
    /\ SetTop([Top EXCEPT !.todo = Tail(@)])
    /\ UNCHANGED <<ints, int_blocks, pc, depth, code, typed, ticks, spliced>>

\* push up to and including realloc: cap is doubled in place, start is not
\* yet set, the offsets are in locals.
PushGrow ==
    /\ Busy /\ Top.saved = <<>>
    /\ LET q == RingOf(Job.ring)
       IN  /\ IsFull(q)
           /\ SetRing(Job.ring, [q EXCEPT !.cap = 2 * q.cap])
           /\ SetTop([Top EXCEPT !.saved = <<Grown(q, 2 * q.cap)>>])
           /\ spliced' = (spliced \/ q.head # 0)
    /\ ints' = FlagAfterRealloc
    /\ UNCHANGED <<int_blocks, pc, depth, code, typed, ticks>>

\* Mutant of PushGrown: the item that found the ring full is lost.
GrownWithoutItem ==
    /\ Busy /\ Top.saved # <<>>
    /\ SetRing(Job.ring, Head(Top.saved))
    /\ SetTop(Frame(Top.irq, Tail(Top.todo)))
    /\ UNCHANGED <<ints, int_blocks, pc, depth, code, typed, ticks, spliced>>

\* The rest of push.
PushGrown ==
    /\ Busy /\ Top.saved # <<>>
    /\ SetRing(Job.ring, Put(Head(Top.saved), Job.item))
    /\ SetTop(Frame(Top.irq, Tail(Top.todo)))
    /\ UNCHANGED <<ints, int_blocks, pc, depth, code, typed, ticks, spliced>>

\* iretq: to the handler below, or to the interrupted code, after its hlt.
Leave ==
    /\ frames # <<>> /\ Top.todo = <<>>
    /\ frames' = SubSeq(frames, 1, Len(frames) - 1)
    /\ ints' = TRUE
    /\ pc' = IF Len(frames) = 1 /\ pc = "hlt" THEN "loop" ELSE pc
    /\ UNCHANGED <<int_blocks, wq, kbd_buf, depth, code, typed, ticks, spliced>>

\* Mutant of Preempt: irq0_pit resumes the process it has interrupted.
Resume ==
    /\ Len(frames) = 1 /\ Top.irq = "pit" /\ Top.todo = <<>>
    /\ pc = "user"
    /\ frames' = <<>>
    /\ ints' = TRUE
    /\ UNCHANGED <<pc, depth, int_blocks, wq, kbd_buf, code, typed, ticks, spliced>>

\* The end of irq0_pit when it has interrupted a process and 2 ms have
\* passed since it last did so: iretqWaitloop.
Preempt ==
    /\ Len(frames) = 1 /\ Top.irq = "pit" /\ Top.todo = <<>>
    /\ pc = "user"
    /\ frames' = <<>>
    /\ pc' = "loop"
    /\ UNCHANGED <<ints, int_blocks, wq, kbd_buf, depth, code, typed, ticks, spliced>>

----------------------------------------------------------------------------
(* waitloop and the work functions, while no handler is running             *)

\* Mutant of FlagAfterPop: pop turns interrupts on again when it is empty.
AlwaysSti(q) == TRUE

\* pop: interrupts are off while it looks, and stay off only if it was empty.
FlagAfterPop(q) == ~IsEmpty(q)

PopWork ==
    /\ frames = <<>> /\ pc = "loop"
    /\ ints' = FlagAfterPop(wq)
    /\ IF IsEmpty(wq)
       THEN pc' = "pick" /\ UNCHANGED wq
       ELSE /\ wq' = Popped(wq)
            /\ pc' = CASE Front(wq) = "process_keys" -> "keys"
                       [] Front(wq) = "callback" -> "work"
                       [] OTHER -> "crash"
    /\ UNCHANGED <<int_blocks, kbd_buf, depth, frames, code, typed, ticks, spliced>>

PopKey ==
    /\ frames = <<>> /\ pc = "keys"
    /\ ints' = FlagAfterPop(kbd_buf)
    /\ IF IsEmpty(kbd_buf)
       THEN code' = -1 /\ UNCHANGED kbd_buf
       ELSE code' = Front(kbd_buf) /\ kbd_buf' = Popped(kbd_buf)
    /\ pc' = "work"
    /\ UNCHANGED <<int_blocks, wq, depth, frames, typed, ticks, spliced>>

\* no_ints, in a work function, a system call or a section of one.
BeginSection ==
    /\ frames = <<>> /\ pc \in {"work", "syscall", "print"}
    /\ depth < MaxDepth
    /\ NoInts
    /\ depth' = depth + 1
    /\ UNCHANGED <<wq, kbd_buf, pc, frames, code, typed, ticks, spliced>>

\* The ints_okay of the innermost section; the outermost one of "print" is
\* closed by PrintEnd.
EndSection ==
    /\ frames = <<>>
    /\ depth > IF pc = "print" THEN 1 ELSE 0
    /\ IntsOkay
    /\ depth' = depth - 1
    /\ UNCHANGED <<wq, kbd_buf, pc, frames, code, typed, ticks, spliced>>

\* A work function returns to waitloop.
WorkDone ==
    /\ frames = <<>> /\ pc = "work" /\ depth = 0
    /\ pc' = "loop"
    /\ UNCHANGED <<ints, int_blocks, wq, kbd_buf, depth, frames, code, typed, ticks, spliced>>

\* startProc's iretq turns interrupts on, and so does "sti; hlt".
Go ==
    /\ frames = <<>> /\ pc = "pick"
    /\ pc' \in {"user", "hlt"}
    /\ ints' = TRUE
    /\ UNCHANGED <<int_blocks, wq, kbd_buf, depth, frames, code, typed, ticks, spliced>>

\* int0x80 and a fault of a process go through an interrupt gate.
SysCall ==
    /\ frames = <<>> /\ pc = "user"
    /\ pc' = "syscall"
    /\ ints' = FALSE
    /\ UNCHANGED <<int_blocks, wq, kbd_buf, depth, frames, code, typed, ticks, spliced>>

\* printColor: the handler takes a block of its own around printColorTo.
PrintCall ==
    /\ frames = <<>> /\ pc = "user"
    /\ NoInts
    /\ pc' = "print" /\ depth' = 1
    /\ UNCHANGED <<wq, kbd_buf, frames, code, typed, ticks, spliced>>

PrintEnd ==
    /\ frames = <<>> /\ pc = "print" /\ depth = 1
    /\ IntsOkayOnceOn
    /\ pc' = "syscall" /\ depth' = 0
    /\ UNCHANGED <<ints, wq, kbd_buf, frames, code, typed, ticks, spliced>>

\* The handler ends: iretq to the process, whose flags have interrupts on, or
\* iretqWaitloop, which goes on with the flags of the handler.
SysReturn ==
    /\ frames = <<>> /\ pc = "syscall" /\ depth = 0
    /\ \/ pc' = "user" /\ ints' = TRUE
       \/ pc' = "loop" /\ UNCHANGED ints
    /\ UNCHANGED <<int_blocks, wq, kbd_buf, depth, frames, code, typed, ticks, spliced>>

----------------------------------------------------------------------------

\* waitloop is entered from kernel_entry.
Init ==
    /\ ints = FALSE
    /\ int_blocks = BootBlocks
    /\ wq = EmptyRing(Cap) /\ kbd_buf = EmptyRing(Cap)
    /\ pc = "loop" /\ depth = 0
    /\ frames = <<>>
    /\ code = 0 /\ typed = 0 /\ ticks = 0
    /\ spliced = FALSE

Irq     == KbdIrq \/ PitIrq
Handler == PushRoom \/ PushGrow \/ PushGrown \/ Leave \/ Preempt
Section == BeginSection \/ EndSection
Loop    == PopWork \/ PopKey \/ WorkDone \/ Go
Call    == PrintEnd \/ SysReturn

Next == Irq \/ Handler \/ Section \/ Loop \/ Call \/ SysCall \/ PrintCall

Spec == Init /\ [][Next]_vars

(* The kernel goes on, and executes something between two interrupts; a     *)
(* tick waits for the flag, and every few ticks end the time slice of a     *)
(* process, which may compute or make calls for ever; a section, a work     *)
(* function and a system call come to their end.                            *)
Fairness ==
    /\ WF_vars(Handler) /\ SF_vars(Loop) /\ SF_vars(PitIrq) /\ SF_vars(Preempt)
    /\ \A d \in 1..MaxDepth : SF_vars(EndSection /\ depth = d)
    /\ SF_vars(Call)

FairSpec == Spec /\ Fairness

----------------------------------------------------------------------------
(* Properties                                                               *)

\* The variables keep their types; a ring's offsets stay inside it.
TypeOK ==
    /\ ints \in BOOLEAN /\ spliced \in BOOLEAN
    /\ int_blocks \in Nat
    /\ \A name \in {"wq", "kbd_buf"} :
           LET q == RingOf(name) IN {q.head, q.tail} \subseteq 0..(q.cap - 1)
    /\ pc \in {"loop", "keys", "work", "pick", "user", "hlt",
           "syscall", "print", "crash"}
    /\ depth \in 0..MaxDepth
    /\ Len(frames) <= MaxNest
    /\ spliced \/ code \in -1..MaxKeys

\* No handler runs inside another: only the block taken in kernel_entry keeps
\* the realloc of a full queue from turning interrupts on in irq1_kbd.
HandlersAlone == Len(frames) <= 1

\* Neither the ints_okay of a nested section nor any that a system call or a
\* fault goes through on its way to malloc turns interrupts on under the code
\* around it: no handler comes into an open section or into a system call.
SectionsClosed == depth > 0 \/ pc = "syscall" => ~ints /\ frames = <<>>

\* Every scan code in kbd_buf has a call of process_keys to its name, queued,
\* begun, or about to be queued by the handler that took it: process_keys
\* never finds kbd_buf empty, and no code stays behind.
KeysMatchWork ==
    LET queued == {i \in 1..Size(wq) : Contents(wq)[i] = "process_keys"}
        coming == {i \in 1..Len(frames) : frames[i].todo = <<Push("wq", "process_keys")>>}
    IN  ~spliced => Size(kbd_buf) = Cardinality(queued) + Cardinality(coming)
                                    + (IF pc = "keys" THEN 1 ELSE 0)

\* The processor never sleeps on queued work: an interrupt that comes between
\* waitloop's last look at wq and its hlt ends the hlt.
NoSleepOnWork == pc = "hlt" /\ frames = <<>> => IsEmpty(wq)

\* keyScanned is given every scan code once, in the order of the interrupts,
\* as long as no ring has grown while it was wrapped.
KeysInOrder == [][spliced \/ UNCHANGED code \/ code' = code + 1]_vars

\* Every scan code is given to keyScanned in the end, with whatever the
\* processor was doing when it came.
KeysHandled ==
    \A k \in 1..MaxKeys : (typed >= k) ~> (spliced \/ code >= k)
=============================================================================
