# DarOS (PurpOS): models and proofs

DarOS is a small single-processor x86-64 kernel with ten text terminals, a
shell on each, and a handful of user programs. The part that is hard to test
is the part that runs between interrupts: a scheduler that keeps no list of
blocked processes, two ring buffers shared with interrupt handlers, an
allocator whose only record is a bit map, and structures that point at each
other from all of these. This directory models that part in TLA+, checks it
with TLC on small instances, and proves with TLAPS, for every value of the
constants, every safety property that the runs show: of the scheduler, the
interrupt handlers with their rings, the heap and the memory of processes, the
terminals, the lists, the keyboard, the clock and formatted strings.

    tlc -config MCSched_safe.cfg MCSched     # one run
    tlapm SchedProofs.tla                    # the proofs about one component

`PROJECT.json` lists the runs, the mutants that each property must catch, the
source lines every definition stands for, the hazards and the findings.

## The system

| component | state | operations | interacts with |
|---|---|---|---|
| processes and scheduler (`interrupt.c`) | `pids`, `last_pid`, `runnableProcs`, `curProc`, `struct process` | `createProc`, `killProc`, system calls, faults, preemption, `waitloop` | terminals (shell, reader), lists, heap |
| interrupt handlers and work queue (`interrupt.c`, `interrupt.h`) | `wq`, `kbd_buf`, the interrupt flag, `int_blocks` | `irq0_pit`, `irq1_kbd`, `push`, `pop`, `process_keys`, `no_ints`, `ints_okay` | heap (`realloc` in `push`), everything that runs as work |
| heap (`malloc.c`) | `map`, two bits per 128-byte block | `malloc`, `palloc`, `free`, `realloc` and their zeroing variants | used by all others |
| lists (`list.c`) | nodes, `head`, `tail`, `len` | push, pop, remove by node, item or condition, circular next | run queue, pid buckets, listeners, log |
| terminals (`console.c`) | per terminal `buf`, `anchor`, `cur`, `end`, `clear_top`, `v_scroll`, `sh`, `reading`; `at` | editing keys, printing, scrolling, `showTerm`, `procDone`, `setReading` | scheduler, keyboard |
| keyboard (`keyboard.c`) | modifier flags, `last_e0`, listeners | `keyScanned`, register and unregister | work queue, terminals |
| periodic callbacks (`periodic_callback.c`) | an array of (count, period, function) | register, unregister, `irq0_pit`'s test | work queue |
| clock (`rtc.c`) | `rtc_seconds`, `seconds_at_boot`, `ms_since_boot` | `sync_rtc_seconds`, `get_rtc_time` | timer interrupt, status bar |
| strings (`strings.c`) | a growing buffer | `M_vsprintf` and conversions | all printing |
| user programs (`userspace/`) | the point each has reached | `sh`, `app`, `procs`, system calls | scheduler, terminals |
| log, boot, devices | log list; tables set up once | straight-line code | (not modelled) |

What makes the components hard, and what makes them correct:

* **Scheduler.** A process off the run queue exists only for whoever will wake
  it: a terminal (`reading`) or a process (`waiting`). Correct: wake-ups name
  live, blocked processes, no process is woken twice, none is forgotten, none
  starves, and each terminal gets its prompt back. `killProc` frees the process
  that `curProc` and its run-queue node name, and `waitloop` reads both later.
* **Interrupts.** Handlers run between any two instructions of the kernel with
  the flag set, and `pop`, `push` and `malloc` each treat the flag in their own
  way; sections that must not be interrupted nest, and system calls, which hold
  interrupts off without a block of their own, go through them. Correct: a handler
  runs alone, never inside an open section or a system call, the processor never
  sleeps on queued work, and each scan code is handled once and in order.
* **Heap.** `free` and `realloc` have nothing but an address, so a region is
  whatever the map says between it and the next END. Correct: regions are
  disjoint and in the heap, each can be found again, and what is freed can be
  allocated.
* **Lists.** Nodes are removed during iteration and `len` is not maintained by
  every removal. Correct: links agree both ways, `len` is the length.
* **Terminals.** Five unsigned indices bound each other, pages are added as they
  grow, and processes print into the line being typed. Correct: keys do what
  they promise, history stays, every index that is used lies in an allocated
  page, `top` never goes below zero, and the screen shows the text.
* **Keyboard, callbacks, clock, strings.** Small sequential code with edges:
  two shift keys and one flag; a callback removed by shifting; the twelve-hour
  clock; the length a formatted number needs.

## Modules

| module | models | state and actions |
|---|---|---|
| `Lists` | lists as sequences, with the field `len` | operators only |
| `Sched` | scheduler, terminals' `sh` and `reading`, user programs | below |
| `Ring` | `struct queue` | operators only |
| `Interrupts` | flag, `int_blocks`, both rings, handlers, `waitloop` | below |
| `Regions` | what an allocator promises | abstract specification |
| `Heap` | the map of `malloc.c` | below; implements `Regions` without pages |
| `ProcMemory` | `createProc` and `killProc` on `Heap` | below; composes the two |
| `LineEditor` | what a terminal promises to who types | abstract specification |
| `Vterm` | one terminal's text, view and cursor | below; implements `LineEditor` |
| `ItemList` | the operations of `Lists`, a step each | abstract specification |
| `List` | the nodes of `list.c` | below; implements `ItemList` |
| `Keyboard` | `keyboard.c`, with a user and a controller | below |
| `Callbacks`, `Clock` | callbacks and `irq0_pit`; `rtc.c` and `updateClock` on them | below |
| `Format` | `M_vsprintf` | below |
| `SchedProofs`, `InterruptsProofs`, `VtermProofs`, `ListProofs`, `ClockProofs`, `KeyboardProofs`, `FormatProofs` | theorems about the module each is named for | |
| `MemoryProofs` | theorems about `Heap` and `ProcMemory` | |
| `MCSched`, `MCInterrupts`, `MCHeap`, `MCVterm`, `MCParts` | instances for TLC | |

**Sched.** A process pointer and the pid of that process are one value; a pid
outside `DOMAIN procs` is a pointer to freed memory. `runnable` is a list as a
sequence together with the separate field `len`, which is kept exactly as the
code keeps it. `sh`, `reading` and `at` are the fields of `terms` and the
terminal on screen; terminal 0 (logs) has neither shell nor reader and is left
out. `mode` says who has the CPU. The actions are the system calls of the
running process (`Readline`, `RunProg`, `Wait`, `Exit`), the shell's own
commands (`ShellHelp`), `Fault` (page or double fault in user mode), `Preempt`
(the timer), `KeyIrq` and `CallbackIrq`, which only queue, and `waitloop` in
two steps: `Work`, one queued item with all it calls, and `Pick`, the choice of
the next process or `hlt`. `KillProc` contains `procDone` and `startSh`.
Because `killProc` leaves `curProc` dangling, `next` keeps the pointer in the
freed node, `reused` says that some allocation has since landed there (allowed
if `MayReuse`), and `corrupt` that `waitloop` then followed it.

**Interrupts.** `frames` is the stack of handlers, each with the pushes it has
yet to make; `pc` says where the interrupted code is. A push that finds its
ring full is two steps (`PushGrow`, `PushGrown`), because `realloc` ends in
`ints_okay`, which turns interrupts on if `int_blocks` is 0. `Preempt` is the
end of `irq0_pit` in a process. `depth` is the number of sections that are open:
`BeginSection` is a `no_ints`, `EndSection` the `ints_okay` of the innermost one,
in a work function (`pc = "work"`, `gotInput` first of all, whose sections are
those of `printColorTo`, `ensureTerm` and `malloc`) or in a system call or a fault
(`SysCall`), which the processor enters with the flag off but with `int_blocks` as
it was: only that count keeps the `ints_okay` of a `malloc` inside from turning
interrupts on. `printColor` takes a block of its own and gives it back without
`sti` (`PrintCall`, `PrintEnd`). What a section does is in the other modules.
`Go` is `startProc` or `sti; hlt`. The boot code before `waitloop`, where interrupts are on for a moment with both
rings empty, is not modelled. `spliced` records that a ring grew while it was
wrapped: the added cells then lie between its two parts, and what `waitloop`
pops is garbage. The properties about keys hold up to then, and say so.

**Heap.** Blocks are numbered; `Q` map entries make a qword (32 in the code),
`PQ` qwords a page (512). `live` is what callers hold and have not given back.
`Marked`, `Cleared`, `Shrunk`, `PageMarked` are the map after the loops of
`malloc`, `free`, `dorealloc` and `palloc`; `PageMarked` makes the first entry
of the last qword the END, as `map[i + 511] -= 1` does. `Fits` is the search,
which does not stop at the end of the map for a large region: `PastMapZero`
says what lies there. `wild` marks a step after which `malloc.c` has read or
written where it should not. Interrupts are off in all of these functions, so
each is one step. Where `free` compares with `BEND << 64`, undefined in C, the
model takes the result of the x86 shift.

**Vterm.** Positions are cells, of two bytes each. The actions are the branches
of `gotInput` (several keys with the same call are one action), `PrintTo` and
`showTerm`; all of them run with interrupts off, so each is one step. `Put` is
`printCharColor` with its `printcc`s and `ensurePages`, `TakeOut` what the six
deletions have in common, `MoveTo` what the cursor keys have. `screen` and
`cursor` are the video memory and the cursor as they were last written: whether
they fit the text is a property and not a definition. `M_readline` is the
string `Enter` hands to the reader, with the copy's real length. `fault` marks
the two steps after which nothing is said any more: a cell written through a
page that is not there, and a look before the first cell. `long` is a history
variable, true once the line typed has been longer than the screen.

**ProcMemory.** `createProc` is a chain of up to seven `malloc`s and a `palloc`,
`killProc` a chain of `free`s with, in the middle, the `createProc` of a new
shell and the `malloc` of the waiter's node. A chain is a composition of
`Take`, `Give` and `Leave` (a process gets memory for a field, frees it, or drops
the pointer) and a few calls of their own, over `MallocIn`, `PallocIn` and
`FreeIn`. Each takes and returns a record `h` of the heap and all that the chain
has written so far; a chain is one step, as interrupts are off. `procs` has the addresses a living process holds, `orphans`
the regions nobody will free: each process leaves its `pidMap`, and if it was a
parent its list of children. (`rootProcs` is never made, so a shell of the
kernel leaves no node there.) Terminals take pages of text meanwhile
(`EnsurePages`), and lines that are read come and go within `GotLine`. Which
process runs is left open; `Sched` says that. `wild` is set when the heap is
full and a null pointer is written through.

**List.** `node` is memory, so a freed node keeps its contents until its address
is given out again. All operations are one step but for the loop of
`removeFromListWithEquality`: `RemoveBegin` is the code before it, `RemoveRound`
one round, which takes `cur->next` out of a node it may just have freed. `len`
is an integer here; in the code it is unsigned and would wrap where the model
goes below zero. `DestroyList`, which nobody calls, frees the items and the list as
well; their memory is not kept here. No caller puts an item on a list twice, as `RunnableOnce` shows
of the run queue, and `Push` says so. `before` is a history variable: the
refinement to `ItemList` shows the old list until the loop has ended.

**Keyboard.** The user (`Press`, `Release`) and the controller are the environment.
A key that is held is repeated, unless another was pressed since; escaped keys
may come with fake shifts. `wire` and `kbd_buf` are the bytes before and after
`irq1_kbd`; `KeyScanned` is one call of `process_keys`. `kbd_cmd` reads the
answers off the same wire, so it may take a scan code for one: `lost`. The
acknowledgement that `init_keyboard` leaves unread is on the wire at first.
`due` holds the inputs that were meant. One key stands for each way `keyScanned`
treats a code: a letter, a key with a shifted symbol, one that shares its code
with an escaped key, and each modifier.

**Callbacks, Clock.** `Tick` is the counting part of `irq0_pit`; `Interrupts` and
`Sched` have what it does to the work queue and the CPU. `TICK_HZ` and
`PIT_FREQ` are scaled to 8 and 83, so that a tick is not a whole number of
milliseconds either. `since` counts the ticks for each callback. In `Clock`, the
CMOS may tick between any two registers that `read` reads (`ReadA`, `ReadB`,
`Compare`), in any of its four formats; after boot, `RunCallback` and `Show` are
the two looks `updateClock` takes at `ms_since_boot`, between which the timer may
tick. `lag` bounds how long `waitloop` may take.

**Format.** A format is a sequence of pieces; a piece knows the characters, the
arguments, and what should become of them, and the loop sees only the first two.
`Room` is the test at its top, `Needed` the one before an argument. A format that
ends in the middle of a conversion (a single `%` in `MCParts`) takes the loop past
its closing zero into what lies behind, `Beyond`. The initial
size of a growing buffer is scaled from 128 to 4, and numbers have three decimal
and two hexadecimal places instead of 20 and 16. `padc` is not initialised in the
code, so it is anything at first, and so is what `va_arg` returns when the format
asks for more arguments than there are. `Dstoui` relates the digits of a width to
the number `dstoui` computes from them. Widths are at most `MaxWidth` (12; the
widest in the code is 24): neither they nor the lengths, `int`s and `uint64_t`s in the
code, come near an overflow.

**MCParts.** Five of these share no variable. Its runs take one of them at a time
(`part`) and leave the others as they were.

## Runs

| run | specification | shows |
|---|---|---|
| `sched_safe` | `Spec` | `RunnableOnce`, `NoDoubleWake`, `ShellAlive`, `CpuOwner`, `HltIdle` and types, with a fault at any moment and with freed memory reused at once, up to the point where garbage is followed |
| `sched_live` | `KernelSpec` | every runnable process gets the CPU although others may compute for ever (`NoStarvation`); if programs go on and none faults, every terminal returns to its prompt (`PromptReturns`); without faults no blocked process is forgotten (`BlockedHasWaker`) |
| `sched_reuse` | `Spec` | violation of `NoGarbageNext` |
| `interrupts` | `FairSpec` | `HandlersAlone`, `SectionsClosed`, `KeysMatchWork`, `NoSleepOnWork`, `KeysInOrder`, `KeysHandled` |
| `heap_regions` | `Spec` | without pages the map implements `Regions` (`ImplementsRegions`): regions are in the heap, apart, and what is freed is free |
| `heap_pages` | `Spec` | with pages: `RegionsDisjoint`, `Encoded`, `OthersUntouched`, and `LeaksOnlyPageTails` |
| `vterm_edit` | `Spec` | keys implement `LineEditor` (`ImplementsEditor`), Enter hands over exactly the line (`ReadsTheLine`), what is left of `anchor` stays (`HistoryKept`), pages are there unless a line was too long (`PagesThere`) |
| `vterm_view` | `Spec` | the view never begins below line 0 (`TopInRange`), screen and cursor fit the text (`ScreenTrue`, `CursorTrue`) |
| `heap_leak` | `Spec` | violation of `NoLeak` by pages |
| `heap_end` | `Spec` | violation of `RegionsInHeap` behind the map |
| `parts` | `MCSpec` | `List`: links agree both ways and have all nodes (`WellLinked`), the removal loop stays on nodes (`LoopOnNodes`), lists are as `Sched` has them (`ImplementsItems`). `Keyboard`: no modifier is stuck (`NoStuckModifier`), inputs are as typed (`AsTyped`). `Clock`: callbacks come often enough (`OftenEnough`), the time read at boot is one the CMOS had (`BootTime`), the time shown is right (`ShownNear`) and its seconds stay or go on by one from each showing to the next (`SecondsGoOn`). `Format`: the closing zero fits (`ZeroFits`), the string is what the format says (`Renders`). `ProcMemory`: every region has one holder (`MemoryOwned`) |
| `clock_noon` | `MCSpec` | violation of `SecondsIntoDay` on a CMOS that counts twelve hours |

Every property of a passing run has a mutant: a plausible bug in one mapped
definition, given as an operator just before it, with which TLC finds that
property violated.

**Findings.** (1) A process that exits is freed while `curProc` still points to
it, and `waitloop` allocates before it follows the pointer (`sched_reuse`).
This is a way to lose the prompt that `procs.c` wonders about, and the trace in
`memory` shows such a value. (2) A freed page leaves 31 entries, 3968 bytes,
behind, and its slot can never be a page again: the leak of "about 4K every
time I start and stop a process" (`heap_leak`). (3) `malloc` of more than 4 KB
near the end of the heap reads past its map (`heap_end`). (4) A CMOS that
counts twelve hours says 12 PM at noon, which `sync_rtc_seconds` turns into 24
and then into midnight; and it toggles the PM bit of the hours before noon, where
it is not set (`clock_noon`).

**What `Heap` and `ProcMemory` show besides.** Memory that runs out is not
noticed: `realloc`, `createProc` and the lists write at address 0, and `palloc`
goes below the start of the map unless the heap begins at a multiple of 2 MB. By
the second finding this is a matter of time. The models have these steps, mark
them with `wild`, and say nothing after them, as the repository does not say what
should happen.

**What `Keyboard` shows besides.** One flag stands for two shift keys, Caps Lock
is toggled by its own repeats, and `kbd_cmd` can swallow a scan code, so that a
modifier sticks. The variables `mixed` and `lost` say when; the properties hold
otherwise, and no text of the repository says more.

**What `Vterm` shows besides.** Three things go wrong in the model as in the
code, and no text of the repository says they cannot, so the properties make
room for them. When the line typed is longer than the screen, the line on top is
the one with the cursor; typing at one place then never changes the top line,
`ensurePages` is not called, and at last a cell is written through a null page
pointer. In the same situation the cursor keys, which do not refresh the
screen, leave it stale. And `wordLeft` in a terminal whose shell has not
printed yet looks before the first cell.

**Bounds, and why they are enough.** Two terminals give the shells on
different terminals, and the shell and child on one, that interact; nothing
relates three terminals. `MaxInput = 3` key presses are enough to start a
program, answer it, and switch or start another. `MaxPending = 2` work items
can be queued at once, so that an item runs between a `killProc` and the next
`Pick`, and another arrives meanwhile. One fault hits every process at every
step; in `sched_live` the same bounds give starvation its two runnable
processes and a third that comes and goes. In `interrupts`
rings of three cells, four keys and one callback let a ring fill, wrap and
grow, wrapped or not; two nested handlers are one more than there may be, and two
open sections let one end inside the other (the code nests up to four, the proofs
any number). In
`heap_*`, three entries to a qword give regions inside a qword, exactly one,
just above one and above two; a page of two qwords has a middle and a last
qword; `TopSlot = 3` is not a multiple of it, like an unaligned heap.
In `vterm_edit` the screen is one line of three cells: a line of three characters
holds two words, a fourth makes it longer than the screen, and seven reach the
page that may be missing. In `vterm_view` eight cells are two pages of two lines
of two cells, and the view can be scrolled by one or two lines. In `parts`: three
objects and three addresses give a list a head, a middle and a tail, and every
node its reuse; three presses with five bytes on their way let two modifiers and a
key overlap and an answer of `kbd_cmd` meet a scan code; seventeen ticks at 8 Hz are
a little over two seconds, with a callback that does not divide a second; booting
takes place just before noon, midnight and one o'clock, where digits and
halves of the day change, and two CMOS ticks can fall into one round; three
pieces of sixteen kinds meet buffers of 1 to 12 bytes and one that grows from 4;
four processes on twelve qwords use up the pages, so that calls of `createProc`
fail, and take again what earlier ones gave back; two starts share a pid bucket.

**Fairness.** `KernelFairness`: the timer interrupts a running process
(`Preempt`), queued work is done (`Work`), and `waitloop` gets to its choice of
a process: strongly fair for `Pick`, since a callback may be queued just before
it again and again, but its period is far longer than the loop. `UserFairness`
(the hypothesis of `PromptReturns`): a process that gets time slices for ever makes its
next system call; the programs in `userspace/` compute for a bounded time
between calls. In `Interrupts`, the kernel executes something between two
interrupts (strong fairness of `Loop`), ticks come (strong fairness of `PitIrq`: a
tick that finds the flag off is taken when it is next on), one of a few ends the time
slice of a process (strong fairness of `Preempt`: `irq0_pit` does so whenever
2 ms have passed), and sections, work functions and system calls end (`EndSection` at
every depth, `Call`): the code in them is loops over a line, a screen or a map. A
process need not call the kernel, or may do so again and again.

## Proofs

A theorem holds for every value of the constants that the module's named
assumptions allow: any number of terminals, any size of rings, heap, screen or
list, any frequencies, and any of the bounds. Nine theorems have a hypothesis
besides, which is said below; each is met by the instance of a passing run, and
a run shows what is lost without most of them. No theorem has a liveness
property: those rest on fairness, hence on ENABLED, which the prover does not
handle.

| module | theorem | property | hypothesis |
|---|---|---|---|
| `SchedProofs` | `TypeCorrect`, `QueueSound`, `WakersSound`, `ShellsSound`, `CpuSound`, `HltSound` | `TypeOK`, `RunnableOnce`, `NoDoubleWake`, `ShellAlive`, `CpuOwner`, `HltIdle` | |
| | `WakersFound` | `BlockedHasWaker` | |
| `InterruptsProofs` | `Alone`, `Closed`, `Awake` | `HandlersAlone`, `SectionsClosed`, `NoSleepOnWork` | |
| | `KeysMatch`, `InOrder` | `KeysMatchWork`, `KeysInOrder` | |
| `MemoryProofs` | `Disjointness`, `Leaks` | `RegionsDisjoint`, `LeaksOnlyPageTails` | |
| | `Encoding`, `Untouching`, `InHeap` | `Encoded`, `OthersUntouched`, `RegionsInHeap` | `~PastMapZero` |
| | `NoLeaks` | `NoLeak` | `~Paging` |
| | `Refinement` | `ImplementsRegions` | both |
| | `Ownership` | `MemoryOwned` | |
| `VtermProofs` | `Typed`, `TopShown`, `Pages`, `Cursor`, `Screen` | `TypeOK`, `TopInRange`, `PagesThere`, `CursorTrue`, `ScreenTrue` | |
| | `Read`, `History` | `ReadsTheLine`, `HistoryKept` | |
| | `Refinement` | `ImplementsEditor` | |
| `ListProofs` | `Links`, `Loop` | `WellLinked`, `LoopOnNodes` | |
| | `Refinement` | `ImplementsItems` | |
| `ClockProofs` | `Often` | `OftenEnough` | |
| | `BootRight` | `BootTime` | `Brisk` |
| | `Shown` | `ShownNear` | `Prompt` |
| | `SecondBySecond` | `SecondsGoOn` | `Frequent` |
| `KeyboardProofs` | `NeverStuck` | `NoStuckModifier` | |
| | `AsMeant` | `AsTyped` | |
| `FormatProofs` | `Fits` | `ZeroFits` | |
| | `Rendered` | `Renders` | `Formats` |

Each module goes from lemmas on the data (sequences, rings, the map, chains of
nodes) over one lemma for each action to a theorem `Invariance` of the inductive
invariant, from which the properties follow.

**Scheduler.** `Inv` is the conjunction of the six invariants and
`GoodList(runnable)`, which says that `len` is at least the number of nodes:
`HltIdle` needs it because `waitloop` trusts `listLen`, which removals by node
leave too high. The six are inductive only together. That a woken process is not
on the run queue already (`RunnableOnce`) needs `NoDoubleWake`; that a waker
names a live process after `killProc` needs `CpuOwner` and `RunnableOnce`, for
the process killed is on the run queue and no waker names such a one; that
`waitloop` finds a next process behind a freed `curProc` needs `CpuOwner`'s
statement about the freed node, which every action that may run in between,
`Work` and the interrupts, must keep. `BlockedHasWaker` has an invariant of its
own, `WakerInv`, on top of `Inv`. Nothing in the code says that two processes
of one terminal are never active at once; without a fault it is so, because a
program is started only by a process that then waits for it. `Family` states
this: the processes of a terminal form a chain in which each older one holds the
next, only the youngest acts, and the shell is the oldest. A fault breaks the
chain, as it kills whatever process is running, so `BlockedHasWaker` says
`faults = 0`.

**Interrupts.** `FlagInv` relates the flag to who runs. Its centre is that
`int_blocks` is one more than the sections that are open (`1 + depth`): the block that
`kernel_entry` takes is never given back, so that no `ints_okay`, be it of a nested
section, in a system call or in the `realloc` of a handler, turns interrupts on under
the code around it. Without it, or with an `ints_okay` that does not ask the count,
`SectionsClosed` fails. `RingsInv` says that both rings are good (indices in
range, contents of the length the indices say) and that `kbd_buf` and the calls
of `process_keys` match: those queued, the one begun, and the one that the
handler has still to push. It holds while no ring has grown while it was wrapped
(`~spliced`), and the two properties say the same; the growing itself, the
two steps of it included, is part of the proof.

**Heap.** `HeapInv` is `GoodHeap`, that every region handed out is PART up to one
END in the map and that no two overlap, with `LeaksOnlyPageTails`; it holds
of the part of a region that lies in the map, so `RegionsDisjoint` needs no
hypothesis, not even where `malloc` runs past the end of the map. What lies
there is outside the program; if it reads as zero (`PastMapZero`), `malloc` can
hand out a region whose END is not in the map: `heap_end` shows it, and the three
theorems exclude it. `Refinement` excludes pages as well, because of what
`heap_leak` shows: a freed page is not free again. Its refinement mapping is
`live`; the proof is that `free` finds in the map the length that the caller
was given.

**Process memory.** `Ownership` rests on the lemmas about the heap: `GoodHeap`, which
`malloc`, `palloc` and `free` keep, becomes a part of `MemInv`. The other parts are
`Own` (the regions handed out are those of the processes' fields, one each, and
those the kernel keeps, and no region is both), `Typed` (a field is an address or
null) and `Waits` (who waits has no run-queue node, and waits for one process
only). `Waits` is what makes the middle of `killProc` right: the node that the waiter
gets would otherwise overwrite one it has. Each link of a chain is a lemma `...Step`,
which also says which fields it leaves (`Frame`), so that what `createProc` makes
for the new shell is not what `killProc` frees next. `GotLine` needs a region that
nobody holds for a while: `Own` lets the kernel keep it until its `free`. `MemInv` and
`MemoryOwned` say nothing once a null pointer has been written through (`wild`).

**Terminals.** `VtermInv` adds to the properties `LineKept` (order of the indices and
what cells behind `end` hold), `ViewKept` (the line on top against `clear_top` and
`v_scroll`) and `PagesAhead` (there are pages for what is on screen and for the
next cell, which is why `ensurePages` may be called only when the top line
changes). The refinement maps `line` to the cells from `anchor` to `end` and
`point` to `cur - anchor`; the loops of `wordLeft` and `wordRight` are where they
stop, given by a first or last boundary and not by recursion, so they are proved
for lines of any length.

**Lists.** `ListInv` says that there is a number `n` and an order `s` of the nodes
given out such that `next` leads from `s[k]` to `s[k + 1]` and `prev` back, and
that the removal loop is at `s[k]` for some `k`. Every operation is shown to give
another such order, and the refinement maps the list to the items in that order.

**Clock.** `Often` is arithmetic on the remainder of the tick count. `BootRight`
keeps what has been read as registers of moments between `from` and `cmos`: two
equal readings, of which the second began after the first was over, can only be
equal if the seconds did not change in between, and this needs that they did not
come round: `Brisk`, a round takes less than a minute, and the `BootTimes` are
further apart than a round. `Shown` bounds the time from the look at the seconds
to the look at the milliseconds: `Prompt`, queued work is done within half a second
(`2 * MaxLag <= TickHz`). `rtc.c` and `console.c` say neither; both hold by orders of
magnitude on any machine. `SecondBySecond` needs that the second shown is that of a
moment not more than one second before the next call: `Fresh` bounds its age by the
ticks since `updateClock` was last called for (`since`), or by its interval and the
lag while a call is queued or begun. `Frequent` says that the two make no more
than a second; `console.c` registers `updateClock` sixty times a second. The loop of
`irq0_pit` is the recursive function `Queued`; what it appends is proved from the
least number of callbacks for which it would not be so.

**Keyboard.** `NoStuckModifier` speaks of the moment when every byte has been handled,
so its invariant speaks of the bytes that have not, those in `kbd_buf` and those on
the wire: a modifier none of whose keys is held is off when they have been (`LetGo`:
the last byte that sets or clears its flag is a release, or there is none and it is
off). What `irq1` moves does not change them. A pretended shift is harmless because
its `e0` comes right before it, whichever bytes are sent before; an acknowledgement
that `kbd_cmd` takes may be taken out because none stands between an `e0` and its
byte (`Whole`). Once `kbd_cmd` has taken a scan code for the answer (`lost`) neither
holds: a byte of the release of a modifier may be the one that is gone.
`AsMeant` has an invariant of its own, `TypedInv`: there is a run of `keyScanned` over
all the bytes on their way, from the flags as they are (`Now`) to those the user means
(`Last`), that delivers exactly what is `due`. Such a run is a function from places in
the stream to states (`Runs`), so that runs can be joined and split without
induction: what is sent is a run joined at the end, with one input more due in all its
states; what `keyScanned` does is its first step; an acknowledgement is a step from
a state to itself, so that `kbd_cmd` may take one out of its middle.

**Format.** `Fits` needs `FormatInv`: a buffer that grows has at least four characters,
so that doubling it once at the top of the loop makes room for three and a zero, as
much as any branch without an argument writes; an argument asks for its own room.
The pieces need not be what they say. For `Rendered` they must: `Formats` says that
each is a character, a percent sign, an unknown conversion, a `%p` without a width,
or a conversion without or with one, and that it becomes its argument, as a numeral
without leading zeros (`IsNumeral`), behind as much padding as its width asks for
(`Shows`). What pieces there are is a constant, and `MCParts` has `Formats` as an
assumption, evaluated for the fourteen of its sixteen pieces that fit. The invariant is `RenderInv`: what is written is the
output of the first `k` pieces, and the loop is before the next (`Between`) or has read
its padding character and its width (`Inside`). Most of the work is that a number
cut to its width, or padded, is the numeral behind the padding, be the zeros
stripped first or not (`ShownRight`), and that the loop, which sees characters only, is
never out of step with the pieces; as no character of a piece that fits is a zero,
and the format ends where a piece does, it never looks behind. `FlattenSeq` is a recursive function; its facts are
proved from the least number of pieces for which they would not hold.

**Only model-checked.** Liveness: `PromptReturns`, `NoStarvation`, `KeysHandled`. They
rest on fairness. Of the hypotheses, that `Formats` holds of the pieces of `MCParts` is
evaluated by TLC and not proved.

## Not modelled

The log only grows and nobody reads it back; its list is one of `List`. Boot
code, port I/O, ACPI, HPET, CPUID and the serial line run once or hold no state. Registers, page contents,
the copying of a line to a process's stack, and all wording and colours are
left out. So are the default handlers of interrupts and the unknown system calls,
which print and return, and the traps without a handler of their own and the
division by zero, which print and return to `waitloop` (they set `frame->ip`), with
the code segment of whatever was interrupted. A fault in the kernel itself goes to `waitloop` and is not modelled. Memory that runs out is
modelled in `Heap` and `ProcMemory` but not in `Sched`. `unregisterPeriodicCallback`,
`unregisterKbdListener`, `irq8_type` and system call 6 are called by nobody. The
date registers of the CMOS are read and not used. `strlen`, `strcmp`, `M_sappend`
and `M_scopy` keep no state. That `init_heap`
rounds the start of the heap up after it has computed `map_size`, so that the heap
ends up to 4 KB after its memory, is arithmetic on two addresses that nothing here
would add to.
