----------------------------- MODULE ProcMemory -----------------------------
(***************************************************************************)
(* What the scheduler holds of the heap: createProc and killProc           *)
(* (src/src/kernel/interrupt.c) are chains of malloc, palloc and free, and *)
(* procDone (console.c) puts the first into the middle of the second.      *)
(* Heap decides where each of them goes.  Who runs when is Sched's matter; *)
(* here any process that has a run-queue node may be the one that runs.    *)
(***************************************************************************)
EXTENDS Heap, Sequences

CONSTANTS Terms,    \* terminals
          PidsSz,   \* PIDS_SZ, the number of pid buckets: 1000 in the code
          MaxPid,   \* bound: processes that are ever made
          MaxText   \* bound: pages of text

ASSUME ProcMemoryAssumption ==
    PidsSz \in Nat \ {0} /\ {MaxPid, MaxText} \subseteq Nat /\ Q > 1

ListBlocks == 1
NodeBlocks == 1

\* What a process holds, in blocks: struct process is 200 bytes; struct list,
\* struct list_node and struct pidMap are less than 128.
ProcBlocks == [p |-> 2, page |-> PQ * Q, node |-> NodeBlocks, kids |-> ListBlocks,
               pm |-> 1, pidNode |-> NodeBlocks]
Fields == DOMAIN ProcBlocks

\* A page of a terminal's text takes 30 of the 32 blocks of a qword.
TextBlocks == Q - 1

Null == -1

VARIABLES
    procs,    \* pid |-> the addresses that a living process holds
    buckets,  \* the lists in pids[], Null where there is none yet
    last_pid,
    sh,       \* terms[t].sh, 0 while there is none
    text,     \* pages of text of the terminals
    orphans      \* regions that no code frees any more

memVars == <<map, live, wild, procs, buckets, last_pid, sh, text, orphans>>

----------------------------------------------------------------------------
(* Chains of calls: h carries the heap, the address returned last, and all  *)
(* else that createProc and killProc write.                                 *)

Here == [map |-> map, live |-> live, wild |-> wild, got |-> Null,
         procs |-> procs, buckets |-> buckets, last_pid |-> last_pid, sh |-> sh, orphans |-> orphans]

\* Nobody tests what malloc and palloc return before writing there.
MallocIn(h, n) ==
    IF Openings(h.map, n) = {} THEN [h EXCEPT !.got = Null, !.wild = TRUE]
    ELSE LET s == FirstFit(h.map, n)
         IN  [h EXCEPT !.got = s, !.map = Marked(@, s, n), !.live = @ \cup {Given(s, n)}]

PallocIn(h) ==
    IF FreeSlots(h.map) = {} THEN [h EXCEPT !.got = Null, !.wild = TRUE]
    ELSE LET i == TopFree(h.map)
         IN  [h EXCEPT !.got = i * Q, !.map = PageMarked(@, i * Q), !.live = @ \cup {Page(i)}]

FreeIn(h, s) ==
    IF s = Null THEN h
    ELSE [h EXCEPT !.map = Cleared(@, s), !.live = {r \in @ : r.start # s}]

\* Process pid gets memory for f, gives it back, or leaves it behind.
Take(h, pid, f) ==
    LET m == IF f = "page" THEN PallocIn(h) ELSE MallocIn(h, ProcBlocks[f])
    IN  [m EXCEPT !.procs[pid][f] = m.got]

Give(h, pid, f) == [FreeIn(h, h.procs[pid][f]) EXCEPT !.procs[pid][f] = Null]

Leave(h, pid, f) ==
    LET a == h.procs[pid][f]
    IN  [h EXCEPT !.orphans = IF a = Null THEN @ ELSE @ \cup {Given(a, ProcBlocks[f])},
                  !.procs[pid][f] = Null]

\* What createProc writes: a new process, that holds nothing yet.
Born(h, parent) ==
    LET pid == h.last_pid + 1
        new == [p |-> Null, page |-> Null, node |-> Null, kids |-> Null, pm |-> Null,
                pidNode |-> Null, parent |-> parent, waiting |-> 0]
    IN  [h EXCEPT !.last_pid = pid,
                  !.procs = [q \in DOMAIN @ \cup {pid} |-> IF q = pid THEN new ELSE @[q]]]

\* pushListTail(parent->children, p), after newList if there is none.
AsChild(h, parent) ==
    LET list == IF h.procs[parent].kids = Null THEN Take(h, parent, "kids") ELSE h
        node == MallocIn(list, NodeBlocks)
    IN  [node EXCEPT !.orphans = @ \cup {Given(node.got, NodeBlocks)}]

\* pids[b] = newList(), if there is none.
WithBucket(h, b) ==
    LET list == MallocIn(h, ListBlocks)
    IN  IF h.buckets[b] = Null THEN [list EXCEPT !.buckets[b] = list.got] ELSE h

\* createProc(a, stdout, parent), parent 0 for a shell of the kernel:
\* rootProcs is never made, and pushListTail does nothing without a list.
Created(h, parent) ==
    LET pid   == h.last_pid + 1
        ready == Take(Take(Take(Born(h, parent), pid, "p"), pid, "page"), pid, "node")
        child == IF parent # 0 THEN AsChild(ready, parent) ELSE ready
    IN  Take(WithBucket(Take(child, pid, "pm"), pid % PidsSz), pid, "pidNode")

\* Mutant: the early return of killProc comes before the run queue.
EndedInQueue(h, pid) == Give(Give(h, pid, "pidNode"), pid, "p")

\* The last three calls of killProc: the node in the pid bucket, the process
\* and its run-queue node.
Ended(h, pid) == Give(Give(Give(h, pid, "pidNode"), pid, "p"), pid, "node")

\* procDone
Replaced(h, pid) ==
    IF \E t \in Terms : h.sh[t] = pid
    THEN [Created(h, 0) EXCEPT !.sh = [t \in Terms |-> IF h.sh[t] = pid THEN h.last_pid + 1 ELSE h.sh[t]]]
    ELSE h

\* p->waiting->node = pushListTail(runnableProcs, p->waiting)
Woken(h, pid) ==
    LET w == h.procs[pid].waiting IN IF w # 0 THEN Take(h, w, "node") ELSE h

Gone(h, pid) == [h EXCEPT !.procs = [q \in DOMAIN @ \ {pid} |-> @[q]]]

\* killProc.  The pidMap and the list of children stay behind.
Killed(h, pid) ==
    LET end == Ended(Woken(Replaced(Give(h, pid, "page"), pid), pid), pid)
    IN  Gone(Leave(Leave(end, pid, "pm"), pid, "kids"), pid)

----------------------------------------------------------------------------
Becomes(h) ==
    /\ ~wild
    /\ map' = h.map /\ live' = h.live /\ wild' = h.wild
    /\ procs' = h.procs /\ buckets' = h.buckets /\ last_pid' = h.last_pid
    /\ sh' = h.sh /\ orphans' = h.orphans

CanRun == {pid \in DOMAIN procs : procs[pid].node # Null}

\* showTerm of a terminal that has no shell yet.
ShowTerm(t) ==
    /\ sh[t] = 0 /\ last_pid < MaxPid
    /\ Becomes([Created(Here, 0) EXCEPT !.sh[t] = last_pid + 1])
    /\ UNCHANGED text

RunProg(pid) ==
    /\ last_pid < MaxPid
    /\ Becomes(Created(Here, pid))
    /\ UNCHANGED text

\* readline and wait take the process off the run queue.
Blocked(pid) == Give(Here, pid, "node")

Readline(pid) == Becomes(Blocked(pid)) /\ UNCHANGED text

\* A shell waits for the program it has started; nobody else waits.
Wait(pid) ==
    /\ \E c \in DOMAIN procs :
          /\ procs[c].parent = pid /\ procs[c].waiting = 0
          /\ Becomes([Blocked(pid) EXCEPT !.procs[c].waiting = pid])
    /\ UNCHANGED text

Reading(pid) == procs[pid].node = Null /\ \A c \in DOMAIN procs : procs[c].waiting # pid

\* Enter: M_readline makes a string of n blocks, gotLine copies it to the
\* reader, and then it is freed.
GotLine(pid, n) ==
    /\ Reading(pid)
    /\ LET l == MallocIn(Here, n)
       IN  Becomes(FreeIn(Take(l, pid, "node"), l.got))
    /\ UNCHANGED text

\* ensurePages: a terminal needs another page for what is printed.
EnsurePages ==
    /\ Cardinality(text) < MaxText
    /\ LET h == MallocIn(Here, TextBlocks)
       IN  Becomes(h) /\ text' = IF h.wild THEN text ELSE text \cup {Given(h.got, TextBlocks)}

\* exit, or a fault in user mode.
Exit(pid) ==
    /\ (\E t \in Terms : sh[t] = pid) => last_pid < MaxPid
    /\ Becomes(Killed(Here, pid))
    /\ UNCHANGED text

----------------------------------------------------------------------------
MemInit ==
    /\ Init
    /\ procs = [pid \in {} |-> 0]
    /\ buckets = [b \in 0..(PidsSz - 1) |-> Null]
    /\ last_pid = 0
    /\ sh = [t \in Terms |-> 0]
    /\ text = {} /\ orphans = {}

MemNext ==
    \/ \E t \in Terms : ShowTerm(t)
    \/ \E pid \in CanRun : RunProg(pid) \/ Readline(pid) \/ Wait(pid) \/ Exit(pid)
    \/ \E pid \in DOMAIN procs, n \in Sizes : GotLine(pid, n)
    \/ EnsurePages

MemSpec == MemInit /\ [][MemNext]_memVars

----------------------------------------------------------------------------
(* Properties                                                               *)

\* Who holds what: a living process its own memory, page and nodes, and the
\* kernel the buckets, the text, and what nobody will free.
Held(pid, f) == [start |-> procs[pid][f], len |-> ProcBlocks[f], page |-> (f = "page")]

Holdings == {g \in (DOMAIN procs) \X Fields : procs[g[1]][g[2]] # Null}

\* As long as the heap lasts, every region that is handed out has exactly one
\* holder, and nobody holds one that was freed: not the process that starts
\* another, not the one that is woken, nor the shell that is made while its
\* predecessor is half gone.  All that a process leaves behind is in orphans:
\* its pidMap, and as a parent its list of children with their nodes.
MemoryOwned ==
    ~wild =>
        /\ live = {Held(g[1], g[2]) : g \in Holdings}
                    \cup {Given(buckets[b], ListBlocks) : b \in {b \in DOMAIN buckets : buckets[b] # Null}}
                    \cup text \cup orphans
        /\ \A g, h \in Holdings : Held(g[1], g[2]) = Held(h[1], h[2]) => g = h
        /\ \A g \in Holdings : Held(g[1], g[2]) \notin orphans \cup text
        /\ RegionsDisjoint
=============================================================================
