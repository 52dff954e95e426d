----------------------------- MODULE Callbacks -----------------------------
(***************************************************************************)
(* Periodic callbacks: registerPeriodicCallback                            *)
(* (src/src/kernel/periodic_callback.c) and the part of irq0_pit           *)
(* (interrupt.c) that counts ticks and queues the callbacks that are due.  *)
(* Clock adds what one of them, updateClock, does.                         *)
(***************************************************************************)
EXTENDS Integers, Sequences

CONSTANTS TickHz,    \* TICK_HZ: 1000 in the code
          PitFreq,   \* PIT_FREQ: 1193182 in the code
          InitCap,   \* INIT_CAP: 10 in the code
          Wanted,    \* the callbacks somebody registers: [count, period, f]
          BootTicks, \* bound: ticks during which callbacks are registered
          MaxTicks   \* bound: ticks in all

ASSUME CallbacksAssumption ==
    /\ {TickHz, InitCap} \subseteq Nat \ {0} /\ InitCap >= 2
    /\ PitFreq \in Nat /\ PitFreq >= TickHz
    /\ {BootTicks, MaxTicks} \subseteq Nat
    /\ \A c \in Wanted : c.count \in Nat /\ c.period \in Nat \ {0}

VARIABLES
    pcs,           \* periodicCallbacks.pcs[0 .. len - 1]
    cap,           \* the cells there are, 0 before the first is registered
    pitCount,
    ms_since_boot,
    calls,         \* callbacks that are queued as work
    since          \* history: ticks since a callback was queued or registered

callbackVars == <<pcs, cap, pitCount, ms_since_boot, calls, since>>

PitCount == PitFreq \div TickHz

Registered == {pcs[i] : i \in 1..Len(pcs)}

Full == Len(pcs) + 1 >= cap

\* A count that irq0_pit could not serve is not registered.
RegisterPeriodicCallback(c) ==
    /\ c \notin Registered
    /\ c.count \in 1..TickHz
    /\ cap' = IF cap = 0 THEN InitCap ELSE IF Full THEN 2 * cap ELSE cap
    /\ pcs' = Append(pcs, c)
    /\ since' = [since EXCEPT ![c] = 0]
    /\ UNCHANGED <<pitCount, ms_since_boot, calls>>

\* Mutant: the number of ticks is rounded up.
IntervalUp(c) == (TickHz * c.period + c.count - 1) \div c.count

\* The ticks between two calls.
Interval(c) == (TickHz * c.period) \div c.count

\* Whether c is to be called at the tick that comes.
Due(c) == (pitCount + 1) % Interval(c) = 0

\* irq0_pit's loop over the callbacks: the work queue after the n-th.
Queued[n \in 0..Len(pcs)] ==
    IF n = 0 THEN calls
    ELSE IF Due(pcs[n]) THEN Append(Queued[n - 1], pcs[n]) ELSE Queued[n - 1]

\* One timer interrupt.
Tick ==
    /\ pitCount < MaxTicks
    /\ pitCount' = pitCount + 1
    /\ ms_since_boot' = (pitCount' * PitCount * 1000) \div PitFreq
    /\ calls' = Queued[Len(pcs)]
    /\ since' = [c \in Wanted |-> IF c \notin Registered \/ Due(c) THEN 0 ELSE since[c] + 1]
    /\ UNCHANGED <<pcs, cap>>

CallbacksInit ==
    /\ pcs = <<>> /\ cap = 0
    /\ pitCount = 0 /\ ms_since_boot = 0
    /\ calls = <<>>
    /\ since = [c \in Wanted |-> 0]

----------------------------------------------------------------------------
(* Properties                                                               *)

\* A callback is queued at least as often as it was registered for, although
\* the interval between two calls is a whole number of ticks.
OftenEnough ==
    \A i \in 1..Len(pcs) : (since[pcs[i]] + 1) * pcs[i].count <= TickHz * pcs[i].period
=============================================================================
