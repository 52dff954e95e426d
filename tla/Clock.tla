------------------------------- MODULE Clock -------------------------------
(***************************************************************************)
(* The clock: rtc.c reads the time of day from the CMOS once, at boot, and *)
(* afterwards adds the time that irq0_pit counts; the callback updateClock *)
(* (console.c) shows it.  The date registers are left out.                 *)
(***************************************************************************)
EXTENDS Callbacks

CONSTANTS BootTimes,    \* times of day, in seconds, at which the kernel boots
          MaxCmosTicks, \* bound: seconds that pass while the CMOS is read
          MaxLag        \* bound: ticks before waitloop has done all its work

Day == 86400

ASSUME ClockAssumption == BootTimes \subseteq 0..(Day - 1) /\ {MaxCmosTicks, MaxLag} \subseteq Nat

VARIABLES
    cmos,       \* the CMOS: seconds since the midnight before booting
    hrs24, bcd, \* how it codes: bits of status register B
    a, b,       \* the registers read so far, twice
    from,       \* history: cmos when the first register of a was read
    synced,     \* sync_rtc_seconds has returned
    seconds_at_boot,
    rtc_seconds,
    updating,   \* updateClock is between its two looks at ms_since_boot
    shown,      \* the time on the status bar
    shownAt,    \* history: ms_since_boot when it was put there
    lag         \* ticks since waitloop was last out of work

bootVars  == <<cmos, hrs24, bcd, a, b, from, synced, seconds_at_boot>>
showVars  == <<rtc_seconds, updating, shown, shownAt, lag>>
clockVars == <<callbackVars, bootVars, showVars>>

UpdateClock == "updateClock"

----------------------------------------------------------------------------
(* The CMOS.                                                                *)

Coded(x) == IF bcd THEN (x \div 10) * 16 + (x % 10) ELSE x

HourRegister(h) ==
    IF hrs24 THEN Coded(h)
    ELSE Coded(IF h % 12 = 0 THEN 12 ELSE h % 12) + (IF h >= 12 THEN 128 ELSE 0)

\* Seconds, minutes and hours, as read() goes through them.
Register(k) ==
    CASE k = 1 -> Coded(cmos % 60)
      [] k = 2 -> Coded((cmos \div 60) % 60)
      [] k = 3 -> HourRegister((cmos \div 3600) % 24)

CmosTick ==
    /\ ~synced
    /\ \E t \in BootTimes : cmos \in t..(t + MaxCmosTicks - 1)
    /\ cmos' = cmos + 1
    /\ UNCHANGED <<callbackVars, showVars, hrs24, bcd, a, b, from, synced, seconds_at_boot>>

----------------------------------------------------------------------------
(* sync_rtc_seconds                                                         *)

ReadA ==
    /\ ~synced /\ Len(a) < 3
    /\ a' = Append(a, Register(Len(a) + 1))
    /\ from' = IF a = <<>> THEN cmos ELSE from
    /\ UNCHANGED <<callbackVars, showVars, cmos, hrs24, bcd, b, synced, seconds_at_boot>>

ReadB ==
    /\ ~synced /\ Len(a) = 3 /\ Len(b) < 3
    /\ b' = Append(b, Register(Len(b) + 1))
    /\ UNCHANGED <<callbackVars, showVars, cmos, hrs24, bcd, a, from, synced, seconds_at_boot>>

\* A field taken out of BCD, unless the CMOS counts in binary.
FromBcd(x) == IF bcd THEN (x \div 16) * 10 + (x % 16) ELSE x

\* The hour: bit 7 is toggled, set or not, and noon becomes 24 and then 0.
HourOf(x) ==
    LET pm    == ~hrs24 /\ x >= 128
        bits  == IF hrs24 THEN x ELSE (x + 128) % 256
        hours == IF pm THEN (FromBcd(bits) + 12) % 256 ELSE FromBcd(bits)
    IN  IF hours = 24 THEN 0 ELSE hours

\* Mutant: what was read first is taken as it is.
AnyTwo == TRUE

Equal == a = b

\* The end of a round: again, or the seconds of the day are calculated.
Compare ==
    /\ ~synced /\ Len(b) = 3
    /\ IF Equal
       THEN /\ synced' = TRUE
            /\ seconds_at_boot' = (HourOf(a[3]) * 60 + FromBcd(a[2])) * 60 + FromBcd(a[1])
       ELSE UNCHANGED <<synced, seconds_at_boot>>
    /\ a' = <<>> /\ b' = <<>>
    /\ UNCHANGED <<callbackVars, showVars, cmos, hrs24, bcd, from>>

----------------------------------------------------------------------------
(* After boot.                                                              *)

Ticks ==
    /\ synced
    /\ lag < MaxLag
    /\ Tick
    /\ lag' = IF calls # <<>> \/ updating THEN lag + 1 ELSE 0
    /\ UNCHANGED <<bootVars, rtc_seconds, updating, shown, shownAt>>

Registers ==
    /\ pitCount <= BootTicks
    /\ \E c \in Wanted : RegisterPeriodicCallback(c)
    /\ UNCHANGED <<bootVars, showVars>>

\* Mutant: all the time since boot is added to the last reading.
RoundedFromLast == (rtc_seconds + (ms_since_boot + 500) \div 1000) % Day

\* The seconds of the day, rounded from half a second on.
Rounded == (seconds_at_boot + (ms_since_boot + 500) \div 1000) % Day

\* waitloop takes up a callback.  updateClock reads ms_since_boot for the
\* seconds; interrupts are on.
RunCallback ==
    /\ calls # <<>> /\ ~updating
    /\ calls' = Tail(calls)
    /\ IF Head(calls).f = UpdateClock
       THEN updating' = TRUE /\ rtc_seconds' = Rounded
       ELSE UNCHANGED <<updating, rtc_seconds>>
    /\ lag' = IF calls' = <<>> /\ ~updating' THEN 0 ELSE lag
    /\ UNCHANGED <<bootVars, shown, shownAt, pcs, cap, pitCount, ms_since_boot, since>>

Twelve(h) == IF h % 12 = 0 THEN 12 ELSE h % 12

\* Mutant: an hour after noon begins the afternoon.
AfterNoon(h) == h > 12

Pm(h) == h >= 12

\* And once more for the milliseconds; then it shows what it has.
Show ==
    /\ updating
    /\ updating' = FALSE
    /\ LET h == rtc_seconds \div 3600
       IN  shown' = [hours |-> Twelve(h), pm |-> Pm(h), minutes |-> (rtc_seconds \div 60) % 60,
                     seconds |-> rtc_seconds % 60, ms |-> ms_since_boot % 1000]
    /\ shownAt' = ms_since_boot
    /\ lag' = IF calls = <<>> THEN 0 ELSE lag
    /\ UNCHANGED <<bootVars, callbackVars, rtc_seconds>>

----------------------------------------------------------------------------
Blank == [hours |-> 0, pm |-> FALSE, minutes |-> 0, seconds |-> 0, ms |-> 0]

ClockInit ==
    /\ CallbacksInit
    /\ cmos \in BootTimes /\ from = cmos
    /\ hrs24 \in BOOLEAN /\ bcd \in BOOLEAN
    /\ a = <<>> /\ b = <<>> /\ synced = FALSE
    /\ seconds_at_boot = 0 /\ rtc_seconds = 0
    /\ updating = FALSE
    /\ shown = Blank /\ shownAt = 0 /\ lag = 0

ClockNext == \/ CmosTick \/ ReadA \/ ReadB \/ Compare
             \/ Registers \/ Ticks \/ RunCallback \/ Show

ClockSpec == ClockInit /\ [][ClockNext]_clockVars

----------------------------------------------------------------------------
(* Properties                                                               *)

\* get_rtc_time takes the seconds modulo a day.
TimeRight == seconds_at_boot % Day \in {t % Day : t \in from..cmos}

\* The hours that sync_rtc_seconds understands in the twelve-hour format.
Afternoon(t) == t \div 3600 \in 13..23

\* The time taken at boot is one the CMOS had during the last round, though
\* it ticks between any two of the registers that are read; on a CMOS that
\* counts twelve hours, from one in the afternoon only.
BootTime ==
    synced /\ (hrs24 \/ (Afternoon(from) /\ Afternoon(cmos))) => TimeRight

\* "Now calculate seconds into day" (rtc.c:106), for every CMOS.
SecondsIntoDay == synced => TimeRight

\* The second a reader of the status bar takes it for.
SecondShown(t) == (((t.hours % 12) + (IF t.pm THEN 12 ELSE 0)) * 60 + t.minutes) * 60 + t.seconds

\* What is shown is the time since boot or a second more, never less, also
\* when the timer ticks between the two looks at ms_since_boot.
ShownNear ==
    shown # Blank =>
        ((SecondShown(shown) - seconds_at_boot) * 1000 + shown.ms - shownAt) % (Day * 1000)
            \in {0, 1000}

\* From each showing to the next the second on the status bar stays or goes on
\* by one, past noon and midnight as well: none is left out or taken back.
SecondsGoOn ==
    [][shown # Blank =>
          (SecondShown(shown') - SecondShown(shown)) % Day \in {0, 1}]_shown
=============================================================================
