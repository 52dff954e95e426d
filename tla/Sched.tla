------------------------------- MODULE Sched -------------------------------
(***************************************************************************)
(* The process table, the run queue and the scheduler of the kernel        *)
(* (src/src/kernel/interrupt.c), together with what they share with the    *)
(* terminals (terms[t].sh and terms[t].reading in console.c) and the three *)
(* programs in src/src/userspace that drive the system calls.              *)
(*                                                                         *)
(* A process is named by its pid: "struct process*" and the pid of the     *)
(* process it points to are the same value here, 0 is the null pointer.    *)
(* DOMAIN procs is the set of pids that procByPid finds, so a pid outside  *)
(* it belongs to a process whose memory has been freed.                    *)
(***************************************************************************)
EXTENDS Integers, Sequences, Lists

CONSTANTS Terms,       \* terminals that can have a shell
          BootTerm,    \* the terminal startTty shows at boot
          MaxInput,    \* bound: key presses the environment makes
          MaxPending,  \* bound: work items queued at any time
          MaxFaults,   \* bound: processes killed by a page or double fault
          MayReuse     \* may an allocation land on the memory of a process
                       \* that killProc has just freed?

ASSUME SchedAssumption ==
    /\ BootTerm \in Terms
    /\ {MaxInput, MaxPending, MaxFaults} \subseteq Nat
    /\ MayReuse \in BOOLEAN

Programs == {"sh", "app", "procs"}
Lines    == Programs \cup {"exit", "help", "other"}

VARIABLES
    procs,     \* the live processes: pid |-> struct process
    last_pid,
    runnable,  \* struct list runnableProcs: the items in order, and len
    curProc,   \* pid of *curProc, 0 when null; outside DOMAIN procs: dangling
    next,      \* the next pointer left in the freed node of a dangling curProc
    mode,      \* who has the CPU: a process, waitloop, or nobody (hlt)
    sh,        \* terms[t].sh
    reading,   \* terms[t].reading
    at,        \* the terminal on screen
    wq,        \* work queued by interrupt handlers and not yet popped
    reused,    \* the memory of a dangling curProc has been overwritten
    corrupt,   \* waitloop followed pointers found in overwritten memory
    inputs, faults

vars == <<procs, last_pid, runnable, curProc, next, mode, sh, reading, at, wq,
          reused, corrupt, inputs, faults>>

KeyItems == [what : {"enter"}, term : {BootTerm}] \cup [what : {"show"}, term : Terms]
Clock    == [what |-> "callback", term |-> BootTerm]
Items    == KeyItems \cup {Clock}

----------------------------------------------------------------------------
(* Processes                                                                *)

Live == DOMAIN procs

NewProc(prog, t) == [prog |-> prog, stdout |-> t, pc |-> "start",
                     line |-> "help", child |-> 0, waiting |-> 0]

WithProc(ps, pid, p) == [q \in DOMAIN ps \cup {pid} |-> IF q = pid THEN p ELSE ps[q]]
WithoutProc(ps, pid) == [q \in DOMAIN ps \ {pid} |-> ps[q]]

\* Mutant: procByPid is not asked.
AlwaysFound(pid) == TRUE

\* procByPid finds the process.
Found(pid) == pid \in Live

\* Mutant: last_pid is not incremented.
CreateSamePid(ps, prog, t) ==
    /\ last_pid' = last_pid
    /\ procs' = WithProc(ps, last_pid + 1, NewProc(prog, t))
    /\ runnable' = PushTail(runnable, last_pid + 1)

\* createProc: a new pid, an entry in pids, a node at the tail of the run
\* queue.  ps is the table before, with what the caller changes in it.
CreateProc(ps, prog, t) ==
    /\ last_pid' = last_pid + 1
    /\ procs' = WithProc(ps, last_pid + 1, NewProc(prog, t))
    /\ runnable' = PushTail(runnable, last_pid + 1)

\* Mutant: the console is not told which process is done.
NeverShell(p) == FALSE

\* procDone: the shell of a terminal is replaced.
IsShell(p) == sh[procs[p].stdout] = p

\* Mutant: killProc forgets the process that waits.
Nobody(p) == 0

\* The process killProc wakes.
Waiter(p) == procs[p].waiting

\* The run queue after killProc's wake-ups, the dying process still on it.
Respawned(p) == IF IsShell(p) THEN PushTail(runnable, last_pid + 1) ELSE runnable
Woken(p) == IF Waiter(p) # 0 THEN PushTail(Respawned(p), Waiter(p)) ELSE Respawned(p)

\* killProc(p), with the procDone and startSh it calls.  Nothing but "the
\* only runnable process" resets curProc: otherwise it keeps pointing to
\* the freed process, and to its freed node, whose next pointer is intact.
KillProc(p) ==
    LET t     == procs[p].stdout
        new   == last_pid + 1
        rest  == WithoutProc(procs, p)
        alone == NextCirc(Woken(p), p) = p
    IN  /\ IF IsShell(p)
           THEN /\ procs' = WithProc(rest, new, NewProc("sh", t))
                /\ last_pid' = new
                /\ sh' = [sh EXCEPT ![t] = new]
           ELSE /\ procs' = rest
                /\ UNCHANGED <<last_pid, sh>>
        /\ runnable' = RemoveItem(Woken(p), p)
        /\ curProc'  = IF alone THEN 0 ELSE p
        /\ next'     = IF alone THEN 0 ELSE NextNode(Woken(p), p)

----------------------------------------------------------------------------
(* What the current process does in user mode.  The printing system call    *)
(* changes nothing here, nor does computing between two calls.              *)

Running(p) == mode = "user" /\ curProc = p /\ ~corrupt

\* The process is taken off the run queue and the CPU goes to waitloop.
Block(p) ==
    /\ runnable' = RemoveNode(runnable, p)
    /\ curProc' = 0
    /\ mode' = "work"

\* System call 3.  A second reader of a terminal displaces the first.
Readline(p) ==
    /\ Running(p)
    /\ procs[p].prog \in {"sh", "app"} /\ procs[p].pc = "start"
    /\ procs' = [procs EXCEPT ![p].pc = "got"]
    /\ reading' = [reading EXCEPT ![procs[p].stdout] = p]
    /\ Block(p)
    /\ UNCHANGED <<last_pid, next, sh, at, wq, reused, corrupt, inputs, faults>>

\* System call 4: the program named by the line, or 0 for an unknown name.
RunProg(p) ==
    /\ Running(p)
    /\ procs[p].prog = "sh" /\ procs[p].pc = "got"
    /\ \/ /\ procs[p].line \in Programs
          /\ CreateProc([procs EXCEPT ![p].pc = "wait", ![p].child = last_pid + 1],
                        procs[p].line, procs[p].stdout)
       \/ /\ procs[p].line = "other"
          /\ procs' = [procs EXCEPT ![p].pc = "start"]
          /\ UNCHANGED <<last_pid, runnable>>
    /\ UNCHANGED <<curProc, next, mode, sh, reading, at, wq, reused, corrupt, inputs, faults>>

\* The shell answers "help" or an empty line itself.
ShellHelp(p) ==
    /\ Running(p)
    /\ procs[p].prog = "sh" /\ procs[p].pc = "got" /\ procs[p].line = "help"
    /\ procs' = [procs EXCEPT ![p].pc = "start"]
    /\ UNCHANGED <<last_pid, runnable, curProc, next, mode, sh, reading, at, wq,
                   reused, corrupt, inputs, faults>>

\* System call 5.  The child may already be gone: then the caller goes on.
Wait(p) ==
    /\ Running(p)
    /\ procs[p].prog = "sh" /\ procs[p].pc = "wait"
    /\ LET c == procs[p].child
       IN  IF Found(c)
           THEN /\ procs' = [procs EXCEPT ![p].pc = "start", ![c].waiting = p]
                /\ Block(p)
           ELSE /\ procs' = [procs EXCEPT ![p].pc = "start"]
                /\ UNCHANGED <<runnable, curProc, mode>>
    /\ UNCHANGED <<last_pid, next, sh, reading, at, wq, reused, corrupt, inputs, faults>>

\* Where each program calls exit(): procs at once, app after its line, a
\* shell when the line is "exit".
AtExit(p) ==
    \/ procs[p].prog = "procs"
    \/ procs[p].prog = "app" /\ procs[p].pc = "got"
    \/ procs[p].prog = "sh" /\ procs[p].pc = "got" /\ procs[p].line = "exit"

\* System call 0.
Exit(p) ==
    /\ Running(p)
    /\ AtExit(p)
    /\ KillProc(p)
    /\ mode' = "work"
    /\ UNCHANGED <<reading, at, wq, reused, corrupt, inputs, faults>>

\* A page fault or a double fault in user mode kills the process anywhere.
Fault(p) ==
    /\ Running(p)
    /\ faults < MaxFaults
    /\ faults' = faults + 1
    /\ KillProc(p)
    /\ mode' = "work"
    /\ UNCHANGED <<reading, at, wq, reused, corrupt, inputs>>

\* The timer: registers are saved and the CPU goes to waitloop.
Preempt ==
    /\ mode = "user" /\ ~corrupt
    /\ mode' = "work"
    /\ UNCHANGED <<procs, last_pid, runnable, curProc, next, sh, reading, at, wq,
                   reused, corrupt, inputs, faults>>

UserStep(p) == Readline(p) \/ RunProg(p) \/ ShellHelp(p) \/ Wait(p) \/ Exit(p)

----------------------------------------------------------------------------
(* Interrupts that queue work: they arrive in user mode, between the work   *)
(* items, and end a hlt.                                                    *)

Queue(item) ==
    /\ ~corrupt
    /\ Len(wq) < MaxPending
    /\ wq' = Append(wq, item)
    /\ mode' = IF mode = "hlt" THEN "work" ELSE mode

KeyIrq ==
    /\ inputs < MaxInput
    /\ inputs' = inputs + 1
    /\ \E item \in KeyItems : Queue(item)
    /\ UNCHANGED <<procs, last_pid, runnable, curProc, next, sh, reading, at,
                   reused, corrupt, faults>>

\* A periodic callback has finished long before its next period begins.
CallbackIrq ==
    /\ \A i \in 1..Len(wq) : wq[i] # Clock
    /\ Queue(Clock)
    /\ UNCHANGED <<procs, last_pid, runnable, curProc, next, sh, reading, at,
                   reused, corrupt, inputs, faults>>

----------------------------------------------------------------------------
(* waitloop                                                                 *)

\* Mutant: the terminal still has its reader afterwards.
GotLineKeepReader(line) ==
    /\ IF Found(reading[at])
       THEN /\ procs' = [procs EXCEPT ![reading[at]].line = line]
            /\ runnable' = PushTail(runnable, reading[at])
       ELSE UNCHANGED <<procs, runnable>>
    /\ UNCHANGED <<reading, last_pid, sh, at>>

\* gotLine(reading[at], l), then reading[at] = 0; a line nobody reads is lost.
GotLine(line) ==
    /\ IF Found(reading[at])
       THEN /\ procs' = [procs EXCEPT ![reading[at]].line = line]
            /\ runnable' = PushTail(runnable, reading[at])
       ELSE UNCHANGED <<procs, runnable>>
    /\ reading' = [reading EXCEPT ![at] = 0]
    /\ UNCHANGED <<last_pid, sh, at>>

\* showTerm and ensureTerm: a terminal shown for the first time gets a shell.
ShowTerm(t) ==
    /\ at' = t
    /\ IF sh[t] = 0
       THEN /\ CreateProc(procs, "sh", t)
            /\ sh' = [sh EXCEPT ![t] = last_pid + 1]
       ELSE UNCHANGED <<procs, last_pid, runnable, sh>>
    /\ UNCHANGED reading

\* Every work item allocates memory, perhaps where a process has been.
Work ==
    /\ mode = "work" /\ ~corrupt
    /\ wq # <<>>
    /\ wq' = Tail(wq)
    /\ \/ /\ Head(wq).what = "enter"
          /\ \E line \in Lines : GotLine(line)
       \/ /\ Head(wq).what = "show"
          /\ ShowTerm(Head(wq).term)
       \/ /\ Head(wq).what = "callback"
          /\ UNCHANGED <<procs, last_pid, runnable, sh, reading, at>>
    /\ \E hit \in {FALSE, MayReuse} :
          reused' = (reused \/ (hit /\ curProc # 0 /\ curProc \notin Live))
    /\ UNCHANGED <<curProc, next, mode, corrupt, inputs, faults>>

\* Mutant: the pointer in the freed node is followed even when it is null.
SuccessorOfFreed ==
    IF curProc = 0 THEN (IF runnable.len > 0 THEN Head0(runnable) ELSE 0)
    ELSE IF curProc \in Live THEN NextCirc(runnable, curProc)
    ELSE next

\* Mutant: waitloop resumes curProc itself, even when it has just been freed.
SuccessorStays ==
    IF curProc # 0 THEN curProc
    ELSE IF runnable.len > 0 THEN Head0(runnable) ELSE 0

\* The process waitloop resumes, read through curProc->node when there is one.
Successor ==
    IF curProc = 0 THEN (IF runnable.len > 0 THEN Head0(runnable) ELSE 0)
    ELSE IF curProc \in Live THEN NextCirc(runnable, curProc)
    ELSE IF next # 0 THEN next ELSE Head0(runnable)

Pick ==
    /\ mode = "work" /\ ~corrupt
    /\ wq = <<>>
    /\ IF curProc # 0 /\ curProc \notin Live /\ reused
       THEN /\ corrupt' = TRUE
            /\ UNCHANGED <<curProc, next, mode, reused>>
       ELSE /\ curProc' = Successor
            /\ mode' = IF Successor # 0 THEN "user" ELSE "hlt"
            /\ next' = 0
            /\ reused' = FALSE
            /\ UNCHANGED corrupt
    /\ UNCHANGED <<procs, last_pid, runnable, sh, reading, at, wq, inputs, faults>>

----------------------------------------------------------------------------

\* After boot: the terminal startTty showed has a shell, waitloop begins.
Init ==
    /\ procs = [p \in {1} |-> NewProc("sh", BootTerm)]
    /\ last_pid = 1
    /\ runnable = [nodes |-> <<1>>, len |-> 1]
    /\ curProc = 0 /\ next = 0
    /\ mode = "work"
    /\ sh = [t \in Terms |-> IF t = BootTerm THEN 1 ELSE 0]
    /\ reading = [t \in Terms |-> 0]
    /\ at = BootTerm
    /\ wq = <<>>
    /\ reused = FALSE /\ corrupt = FALSE
    /\ inputs = 0 /\ faults = 0

Next ==
    \/ UserStep(curProc)
    \/ Fault(curProc)
    \/ Preempt
    \/ KeyIrq
    \/ CallbackIrq
    \/ Work
    \/ Pick

Spec == Init /\ [][Next]_vars

(* The kernel's own part: the timer fires, queued work is done.  Pick needs *)
(* strong fairness because a callback may be queued each time waitloop is   *)
(* about to look at the run queue, though never for ever.                   *)
KernelFairness == WF_vars(Preempt) /\ WF_vars(Work) /\ SF_vars(Pick)

\* The pids that can be given out within the bounds.
Pids == 1..(1 + MaxInput + MaxFaults)

(* A time slice is at least 2 ms: a process that is given the CPU for ever  *)
(* gets to its next system call.                                            *)
UserFairness == \A p \in Pids : SF_vars(UserStep(p))

KernelSpec == Spec /\ KernelFairness

----------------------------------------------------------------------------
(* Properties                                                               *)

Proc == [prog : Programs, stdout : Terms, pc : {"start", "got", "wait"},
         line : Lines, child : Nat, waiting : Nat]

\* The variables keep their types and every live pid has been given out.
TypeOK ==
    /\ last_pid \in Nat
    /\ DOMAIN procs \subseteq 1..last_pid
    /\ procs = [p \in DOMAIN procs |-> procs[p]]
    /\ \A p \in Live : procs[p] \in Proc
    /\ runnable \in [nodes : Seq(Nat), len : Int]
    /\ {curProc, next, inputs, faults} \subseteq Nat
    /\ mode \in {"user", "work", "hlt"}
    /\ sh \in [Terms -> Nat]
    /\ reading \in [Terms -> Nat]
    /\ at \in Terms
    /\ wq \in Seq(Items)
    /\ reused \in BOOLEAN /\ corrupt \in BOOLEAN

\* The run queue holds live processes only, each of them once: killProc
\* takes out the process it frees, and no two wake-ups add one twice
\* (pushListTail in createProc, killProc and gotLine never looks).
RunnableOnce ==
    /\ \A i \in 1..Len(runnable.nodes) : runnable.nodes[i] \in Live
    /\ \A i, j \in 1..Len(runnable.nodes) :
          runnable.nodes[i] = runnable.nodes[j] => i = j

\* Whatever will wake a process (a terminal that has it as its reader, a
\* process that has it in "waiting") names a live process that is off the
\* run queue, and no two things will wake the same one.
NoDoubleWake ==
    /\ \A t \in Terms : reading[t] # 0 =>
          /\ reading[t] \in Live
          /\ ~Has(runnable, reading[t])
          /\ procs[reading[t]].stdout = t
    /\ \A q \in Live : procs[q].waiting # 0 =>
          /\ procs[q].waiting \in Live
          /\ ~Has(runnable, procs[q].waiting)
          /\ \A t \in Terms : reading[t] # procs[q].waiting
          /\ \A r \in Live : procs[r].waiting = procs[q].waiting => r = q

\* A process off the run queue is known to something that will put it back.
\* The kernel keeps no list of blocked processes ("Huh, what if I didn't
\* keep a list of waiting/sleeping procs?"), so one without is lost.  A fault
\* may lose one: it replaces a shell whose program still reads.
BlockedHasWaker ==
    faults = 0 =>
        \A p \in Live : ~Has(runnable, p) =>
            \/ \E t \in Terms : reading[t] = p
            \/ \E q \in Live : procs[q].waiting = p

\* The shell a terminal remembers is alive and writes to that terminal:
\* console.c is informed when its shell exits, and starts a new one.
ShellAlive ==
    \A t \in Terms : sh[t] # 0 => sh[t] \in Live /\ procs[sh[t]].stdout = t

\* The process that has the CPU is live and on the run queue, so that
\* waitloop can step past it; and where curProc was left on a freed process,
\* the next pointer in its freed node still leads to a process on the run
\* queue when waitloop follows it, whatever ran in between.
CpuOwner ==
    /\ mode = "user" => curProc \in Live
    /\ mode = "hlt" => curProc = 0
    /\ curProc \in Live => Has(runnable, curProc)
    /\ next # 0 => mode = "work" /\ Has(runnable, next)

\* The CPU is halted only when no process is runnable, although waitloop
\* asks listLen, which readline and wait leave too high, and may look
\* through the freed node of a dead process.
HltIdle == mode = "hlt" => runnable.nodes = <<>>

\* waitloop never follows pointers out of memory that was freed by killProc
\* and has been given to somebody else since.
NoGarbageNext == ~corrupt

\* A process on the run queue gets the CPU (unless it stops being runnable)
\* whatever the others do: they may compute for ever.
NoStarvation ==
    \A p \in Pids : Has(runnable, p) ~> (mode = "user" /\ curProc = p)

\* When programs do not compute for ever and none faults, a terminal that has
\* a shell always comes back to waiting for a line: the programs it runs end,
\* the shell is woken or replaced.
PromptReturns ==
    UserFairness /\ [](faults = 0) =>
        \A t \in Terms : (sh[t] # 0) ~> (reading[t] # 0)
=============================================================================
