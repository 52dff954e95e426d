----------------------------- MODULE ClockProofs -----------------------------
(***************************************************************************)
(* What holds of the periodic callbacks and of the clock for any           *)
(* frequencies and callbacks, and any time of day.                         *)
(***************************************************************************)
EXTENDS Clock, SequenceTheorems, WellFoundedInduction, TLAPS

----------------------------------------------------------------------------
(* Arithmetic.                                                              *)

\* Division by a positive number.
LEMMA DivFacts ==
    ASSUME NEW n \in Nat, NEW d \in Nat \ {0}
    PROVE  /\ n \div d \in Nat /\ n % d \in 0..(d - 1)
           /\ n = d * (n \div d) + (n % d)
OBVIOUS

\* There is one quotient.
LEMMA DivUnique ==
    ASSUME NEW n \in Nat, NEW d \in Nat \ {0}, NEW q \in Nat, d * q <= n, n < d * q + d
    PROVE  n \div d = q /\ n % d = n - d * q
<1>1. PICK p \in Nat, r \in 0..(d - 1) : p = n \div d /\ r = n % d /\ n = d * p + r
  BY DivFacts
<1>2. p < q => FALSE
  <2> SUFFICES ASSUME p < q PROVE FALSE
    OBVIOUS
  <2>1. PICK e \in Nat : q = p + 1 + e
    <3>1. q - p - 1 \in Nat /\ q = p + 1 + (q - p - 1)
      OBVIOUS
    <3> QED
      BY <3>1
  <2>2. d * q = d * p + d + d * e /\ d * e \in Nat
    BY <2>1
  <2> QED
    BY <1>1, <2>2
<1>3. q < p => FALSE
  <2> SUFFICES ASSUME q < p PROVE FALSE
    OBVIOUS
  <2>1. PICK e \in Nat : p = q + 1 + e
    <3>1. p - q - 1 \in Nat /\ p = q + 1 + (p - q - 1)
      OBVIOUS
    <3> QED
      BY <3>1
  <2>2. d * p = d * q + d + d * e /\ d * e \in Nat
    BY <2>1
  <2> QED
    BY <1>1, <2>2
<1> QED
  BY <1>1, <1>2, <1>3

\* The remainder of the next number.
LEMMA ModNext ==
    ASSUME NEW n \in Nat, NEW d \in Nat \ {0}, (n + 1) % d # 0
    PROVE  (n + 1) % d = (n % d) + 1
<1>1. PICK p \in Nat, r \in 0..(d - 1) : p = n \div d /\ r = n % d /\ n = d * p + r
  BY DivFacts
<1>2. CASE r = d - 1
  <2>1. d * (p + 1) = d * p + d
    BY <1>1
  <2>2. n + 1 \in Nat /\ p + 1 \in Nat /\ d * (p + 1) = n + 1
    BY <1>1, <1>2, <2>1
  <2>3. (n + 1) % d = (n + 1) - d * (p + 1)
    <3> DEFINE x == n + 1
               y == p + 1
    <3>1. x \in Nat /\ y \in Nat /\ d * y <= x /\ x < d * y + d
      BY <2>2
    <3> HIDE DEF x, y
    <3>2. x % d = x - d * y
      BY <3>1, DivUnique
    <3> QED
      BY <3>2 DEF x, y
  <2> QED
    BY <2>2, <2>3
<1>3. CASE r < d - 1
  <2> DEFINE x == n + 1
  <2>1. x \in Nat /\ d * p <= x /\ x < d * p + d
    BY <1>1, <1>3
  <2> HIDE DEF x
  <2>2. x % d = x - d * p
    BY <2>1, DivUnique
  <2> QED
    BY <1>1, <2>2 DEF x
<1> QED
  BY <1>1, <1>2, <1>3

----------------------------------------------------------------------------
(* The callbacks.                                                           *)

\* A registered callback has been queued since the last tick that its
\* interval divides.
Counted ==
    /\ pcs \in Seq(Wanted) /\ pitCount \in Nat /\ since \in [Wanted -> Nat]
    /\ \A i \in 1..Len(pcs) :
          /\ pcs[i].count \in 1..TickHz
          /\ since[pcs[i]] <= pitCount % Interval(pcs[i])

\* The interval is a number of ticks, and no longer than was asked for.
LEMMA IntervalFacts ==
    ASSUME NEW c \in Wanted, c.count \in 1..TickHz
    PROVE  /\ Interval(c) \in Nat \ {0}
           /\ Interval(c) * c.count <= TickHz * c.period
<1>1. PICK k \in Nat \ {0}, u \in Nat \ {0}, h \in Nat \ {0} :
          k = c.count /\ u = c.period /\ h = TickHz /\ k <= h
  BY CallbacksAssumption
<1>2. PICK t \in Nat : t = h * u
  BY <1>1
<1>3. h <= t
  <2>1. PICK e \in Nat : u = 1 + e
    <3>1. u - 1 \in Nat /\ u = 1 + (u - 1)
      OBVIOUS
    <3> QED
      BY <3>1
  <2>2. t = h + h * e /\ h * e \in Nat
    BY <1>2, <2>1
  <2> QED
    BY <2>2
<1>4. PICK q \in Nat, r \in 0..(k - 1) : q = t \div k /\ t = k * q + r
  BY DivFacts
<1>5. Interval(c) = q
  BY <1>1, <1>2, <1>4 DEF Interval
<1>6. q # 0
  BY <1>1, <1>3, <1>4
<1>7. q * k = k * q
  BY <1>1, <1>4
<1>8. q * k <= t
  BY <1>1, <1>4, <1>7
<1> QED
  BY <1>1, <1>2, <1>5, <1>6, <1>8

\* Registering, counting and everything else keep count.
LEMMA CountedNext == Counted /\ [ClockNext]_clockVars => Counted'
<1> SUFFICES ASSUME Counted, [ClockNext]_clockVars PROVE Counted'
  OBVIOUS
<1>1. /\ pcs \in Seq(Wanted) /\ pitCount \in Nat /\ since \in [Wanted -> Nat]
      /\ \A i \in 1..Len(pcs) : pcs[i] \in Wanted
  BY ElementOfSeq DEF Counted
<1>2. ASSUME NEW c \in Wanted, RegisterPeriodicCallback(c) PROVE Counted'
  <2>1. /\ pcs' = Append(pcs, c) /\ since' = [since EXCEPT ![c] = 0] /\ pitCount' = pitCount
        /\ c.count \in 1..TickHz
    BY <1>2 DEF RegisterPeriodicCallback
  <2>2. PICK n \in Nat : n = Len(pcs)
    BY <1>1, LenProperties
  <2>3. /\ pcs' \in Seq(Wanted) /\ Len(pcs') = n + 1
        /\ \A i \in 1..n : pcs'[i] = pcs[i]
        /\ pcs'[n + 1] = c
    BY <1>1, <2>1, <2>2, AppendProperties
  <2>4. ASSUME NEW d \in Wanted, d.count \in 1..TickHz PROVE pitCount % Interval(d) \in Nat
    <3>1. PICK k \in Nat \ {0} : k = Interval(d)
      BY <2>4, IntervalFacts
    <3>2. pitCount % k \in 0..(k - 1)
      BY <1>1, DivFacts
    <3> QED
      BY <3>1, <3>2
  <2>5. ASSUME NEW i \in 1..(n + 1)
        PROVE  pcs'[i].count \in 1..TickHz /\ since'[pcs'[i]] <= pitCount % Interval(pcs'[i])
    <3>1. CASE i = n + 1
      BY <1>1, <2>1, <2>3, <2>4, <3>1
    <3>2. CASE i \in 1..n
      <4>1. pcs[i] \in Wanted /\ pcs[i].count \in 1..TickHz /\ since[pcs[i]] <= pitCount % Interval(pcs[i])
        BY <1>1, <2>2, <3>2 DEF Counted
      <4>2. since'[pcs[i]] = since[pcs[i]] \/ since'[pcs[i]] = 0
        BY <1>1, <2>1, <4>1
      <4> QED
        BY <2>3, <2>4, <3>2, <4>1, <4>2
    <3> QED
      BY <3>1, <3>2
  <2>6. since' \in [Wanted -> Nat] /\ pitCount' \in Nat
    BY <1>1, <2>1
  <2> QED
    BY <2>1, <2>3, <2>5, <2>6 DEF Counted, Interval
<1>3. CASE Tick
  <2>1. pcs' = pcs /\ pitCount' = pitCount + 1
    BY <1>3 DEF Tick
  <2>2. since' = [c \in Wanted |->
                     IF c \notin Registered \/ (pitCount + 1) % Interval(c) = 0 THEN 0 ELSE since[c] + 1]
    BY <1>3 DEF Tick, Due
  <2>3. ASSUME NEW i \in 1..Len(pcs)
        PROVE  since'[pcs[i]] <= pitCount' % Interval(pcs[i])
    <3>1. PICK c \in Wanted : c = pcs[i] /\ c.count \in 1..TickHz /\ since[c] <= pitCount % Interval(c)
      BY <1>1 DEF Counted
    <3>2. PICK d \in Nat \ {0} : d = Interval(c)
      BY <3>1, IntervalFacts
    <3>3. pitCount + 1 \in Nat /\ since[c] \in Nat /\ c \in Registered
      BY <1>1, <3>1 DEF Registered
    <3>4. (pitCount + 1) % d \in Nat
      BY <3>2, <3>3
    <3>5. (pitCount + 1) % d # 0 => (pitCount + 1) % d = (pitCount % d) + 1
      BY <1>1, <3>2, ModNext
    <3>6. since'[c] = IF (pitCount + 1) % d = 0 THEN 0 ELSE since[c] + 1
      BY <2>1, <2>2, <3>2, <3>3
    <3>7. pitCount % d \in Nat
      BY <1>1, <3>2
    <3> QED
      BY <2>1, <3>1, <3>2, <3>3, <3>4, <3>5, <3>6, <3>7
  <2>4. since' \in [Wanted -> Nat]
    BY <1>1, <2>2
  <2> QED
    BY <1>1, <2>1, <2>3, <2>4 DEF Counted, Interval
<1>4. CASE UNCHANGED <<pcs, pitCount, since>>
  BY <1>4 DEF Counted, Interval
<1>5. Registers => \E c \in Wanted : RegisterPeriodicCallback(c)
  BY DEF Registers
<1>6. Ticks => Tick
  BY DEF Ticks
<1>7. CmosTick \/ ReadA \/ ReadB \/ Compare \/ RunCallback \/ Show \/ UNCHANGED clockVars
         => UNCHANGED <<pcs, pitCount, since>>
  BY DEF CmosTick, ReadA, ReadB, Compare, RunCallback, Show, clockVars, callbackVars
<1> QED
  BY <1>2, <1>3, <1>4, <1>5, <1>6, <1>7 DEF ClockNext

\* No callback is registered at first.
LEMMA CountedInit == ClockInit => Counted
<1> SUFFICES ASSUME ClockInit PROVE Counted
  OBVIOUS
<1>1. pcs = <<>> /\ pitCount = 0 /\ since = [c \in Wanted |-> 0]
  BY DEF ClockInit, CallbacksInit
<1>2. pcs \in Seq(Wanted) /\ Len(pcs) = 0
  BY <1>1
<1> QED
  BY <1>1, <1>2 DEF Counted

\* A callback is queued at least as often as it was registered for, at any
\* frequency of the timer and for any count and period.
THEOREM Often == ClockSpec => []OftenEnough
<1>1. ClockInit => Counted
  BY CountedInit
<1>2. ASSUME Counted PROVE OftenEnough
  <2> SUFFICES ASSUME NEW i \in 1..Len(pcs)
               PROVE  (since[pcs[i]] + 1) * pcs[i].count <= TickHz * pcs[i].period
    BY DEF OftenEnough
  <2>1. PICK c \in Wanted : c = pcs[i] /\ c.count \in 1..TickHz /\ since[c] <= pitCount % Interval(c)
    BY <1>2, ElementOfSeq DEF Counted
  <2>2. PICK d \in Nat \ {0} : d = Interval(c) /\ d * c.count <= TickHz * c.period
    BY <2>1, IntervalFacts
  <2>3. PICK s \in Nat, k \in Nat, t \in Nat : s = since[c] /\ k = c.count /\ t = TickHz * c.period
    <3>1. PICK h \in Nat, u \in Nat : h = TickHz /\ u = c.period
      BY CallbacksAssumption
    <3>2. h * u \in Nat
      OBVIOUS
    <3> QED
      BY <1>2, <2>1, <3>1, <3>2 DEF Counted
  <2>4. pitCount % d \in 0..(d - 1)
    BY <1>2, DivFacts DEF Counted
  <2>5. s + 1 <= d
    BY <2>1, <2>2, <2>3, <2>4
  <2>6. PICK e \in Nat : d = (s + 1) + e
    <3>1. d - (s + 1) \in Nat /\ d = (s + 1) + (d - (s + 1))
      BY <2>5
    <3> QED
      BY <3>1
  <2>7. d * k = (s + 1) * k + e * k /\ e * k \in Nat /\ (s + 1) * k \in Nat
    BY <2>6
  <2>8. (s + 1) * k <= t
    BY <2>2, <2>3, <2>7
  <2> QED
    BY <2>1, <2>3, <2>8
<1> QED
  BY <1>1, <1>2, CountedNext, PTL DEF ClockSpec
----------------------------------------------------------------------------
(* Booting.                                                                 *)

\* A number up to 99 comes back from its code, in either format.
LEMMA Decoded ==
    ASSUME NEW x \in 0..99
    PROVE  Coded(x) \in Nat /\ FromBcd(Coded(x)) = x
BY DEF Coded, FromBcd

\* So does an hour: any in the format of twenty-four hours, and one in the
\* afternoon in that of twelve.
LEMMA HourDecoded ==
    ASSUME NEW h \in 0..23
    PROVE  /\ HourRegister(h) \in Nat
           /\ hrs24 \/ h \in 13..23 => HourOf(HourRegister(h)) = h
<1>1. CASE hrs24
  <2>1. HourRegister(h) = Coded(h) /\ Coded(h) \in Nat /\ FromBcd(Coded(h)) = h
    BY <1>1, Decoded DEF HourRegister
  <2>2. HourOf(Coded(h)) = IF FromBcd(Coded(h)) = 24 THEN 0 ELSE FromBcd(Coded(h))
    BY <1>1 DEF HourOf
  <2> QED
    BY <2>1, <2>2
<1>2. CASE ~hrs24
  <2>1. PICK t \in 1..12 : t = IF h % 12 = 0 THEN 12 ELSE h % 12
    OBVIOUS
  <2>2. Coded(t) \in 0..18 /\ FromBcd(Coded(t)) = t
    BY DEF Coded, FromBcd
  <2>3. HourRegister(h) = Coded(t) + (IF h >= 12 THEN 128 ELSE 0)
    BY <1>2, <2>1 DEF HourRegister
  <2>4. ASSUME h \in 13..23 PROVE HourOf(HourRegister(h)) = h
    <3>1. HourRegister(h) = Coded(t) + 128 /\ t = h - 12
      BY <2>1, <2>3, <2>4
    <3>2. (HourRegister(h) + 128) % 256 = Coded(t) /\ HourRegister(h) >= 128
      BY <2>2, <3>1
    <3>3. (FromBcd(Coded(t)) + 12) % 256 = h
      BY <2>2, <2>4, <3>1
    <3> QED
      BY <1>2, <2>4, <3>2, <3>3 DEF HourOf
  <2> QED
    BY <1>2, <2>2, <2>3, <2>4
<1> QED
  BY <1>1, <1>2

\* Register k of the CMOS at time t.
RegisterAt(k, t) ==
    CASE k = 1 -> Coded(t % 60)
      [] k = 2 -> Coded((t \div 60) % 60)
      [] k = 3 -> HourRegister((t \div 3600) % 24)

\* The registers are numbers.
LEMMA RegisterFacts ==
    ASSUME NEW k \in 1..3, NEW t \in Nat
    PROVE  RegisterAt(k, t) \in Nat
<1>1. t % 60 \in 0..99 /\ (t \div 60) % 60 \in 0..99 /\ (t \div 3600) % 24 \in 0..23
  OBVIOUS
<1>2. Coded(t % 60) \in Nat /\ Coded((t \div 60) % 60) \in Nat /\ HourRegister((t \div 3600) % 24) \in Nat
  BY <1>1, Decoded, HourDecoded
<1> QED
  BY <1>2 DEF RegisterAt

\* All three registers of one moment give the second of the day.
LEMMA Calculated ==
    ASSUME NEW t \in Nat, hrs24 \/ Afternoon(t)
    PROVE  (HourOf(RegisterAt(3, t)) * 60 + FromBcd(RegisterAt(2, t))) * 60
               + FromBcd(RegisterAt(1, t)) = t % Day
<1>1. PICK x \in 0..59 : x = t % 60
  OBVIOUS
<1>2. PICK y \in 0..59 : y = (t \div 60) % 60
  OBVIOUS
<1>3. PICK h \in 0..23 : h = (t \div 3600) % 24
  OBVIOUS
<1>4. hrs24 \/ h \in 13..23
  BY <1>3 DEF Afternoon
<1>5. /\ FromBcd(RegisterAt(1, t)) = x
      /\ FromBcd(RegisterAt(2, t)) = y
      /\ HourOf(RegisterAt(3, t)) = h
  BY <1>1, <1>2, <1>3, <1>4, Decoded, HourDecoded DEF RegisterAt
<1>6. (h * 60 + y) * 60 + x = t % 86400
  <2>1. PICK m \in Nat : m = t \div 60 /\ t = 60 * m + x
    BY <1>1
  <2>2. PICK n \in Nat : m = 60 * n + y
    BY ONLY <1>2, <2>1
  <2>3. n = t \div 3600
    BY ONLY <2>1, <2>2, <1>1, <1>2
  <2>4. PICK d \in Nat : n = 24 * d + h
    BY ONLY <1>3, <2>2, <2>3
  <2>5. t = 86400 * d + ((h * 60 + y) * 60 + x)
    <3>1. PICK u \in Nat, v \in Nat, w \in Nat : u = x /\ v = y /\ w = h
      BY ONLY <1>1, <1>2, <1>3
    <3>2. t = 60 * (60 * (24 * d + w) + v) + u
      BY ONLY <2>1, <2>2, <2>4, <3>1, SMT
    <3>3. 60 * (60 * (24 * d + w) + v) + u = 86400 * d + ((w * 60 + v) * 60 + u)
      BY ONLY <3>1, <2>4, SMT
    <3> QED
      BY ONLY <3>1, <3>2, <3>3, SMT
  <2>6. PICK z \in Nat : z = (h * 60 + y) * 60 + x /\ z < 86400
    BY ONLY <1>1, <1>2, <1>3, SMT
  <2>7. t = 86400 * d + z
    BY ONLY <2>5, <2>6
  <2>8. t % 86400 = z
    BY ONLY <2>4, <2>6, <2>7, SMT
  <2> QED
    BY ONLY <2>6, <2>8, SMT
<1>7. (HourOf(RegisterAt(3, t)) * 60 + FromBcd(RegisterAt(2, t))) * 60 + FromBcd(RegisterAt(1, t))
         = (h * 60 + y) * 60 + x
  BY ONLY <1>5
<1> QED
  BY <1>6, <1>7 DEF Day

\* Within a minute, no two moments have the same seconds.
LEMMA SameSecond ==
    ASSUME NEW t \in Nat, NEW u \in Nat, t <= u, u - t < 60, RegisterAt(1, t) = RegisterAt(1, u)
    PROVE  t = u
<1>1. PICK x \in 0..59, y \in 0..59 : x = t % 60 /\ y = u % 60
  OBVIOUS
<1>2. Coded(x) = Coded(y)
  BY <1>1 DEF RegisterAt
<1>3. x = y
  BY <1>2, Decoded
<1> QED
  BY <1>1, <1>3

\* What has been read is what the CMOS had since the round began, the first
\* time before the seconds were read for the second time.
Reading ==
    /\ a # <<>> => a[1] = RegisterAt(1, from)
    /\ \E u \in from..cmos :
          /\ b # <<>> => b[1] = RegisterAt(1, u)
          /\ \A k \in 1..Len(a) : \E v \in from..u : a[k] = RegisterAt(k, v)

Numbers ==
    /\ cmos \in Nat /\ from \in Nat /\ from <= cmos
    /\ a \in Seq(Nat) /\ Len(a) \in 0..3 /\ b \in Seq(Nat) /\ (b # <<>> => Len(a) = 3)
    /\ seconds_at_boot \in Nat

\* The CMOS does not get further than a round takes.
Within == \E t \in BootTimes : t <= from /\ cmos <= t + MaxCmosTicks

Booting == Numbers /\ Within /\ (~synced => Reading) /\ BootTime

\* How long a round takes: the code does not say; with a minute or more, the
\* seconds could come round.  The times of day do not run into each other.
Brisk ==
    /\ MaxCmosTicks < 60
    /\ \A t, u \in BootTimes : t < u => t + MaxCmosTicks < u

\* Times of day are numbers.
LEMMA BootNumbers == BootTimes \subseteq Nat
<1>1. \A t \in 0..(Day - 1) : t \in Nat
  OBVIOUS
<1> QED
  BY <1>1, ClockAssumption

\* The bounds are numbers.
LEMMA Bounds == MaxCmosTicks \in Nat /\ MaxLag \in Nat
  BY ClockAssumption

\* Booting starts with nothing read.
LEMMA BootingInit == ClockInit => Booting
<1> SUFFICES ASSUME ClockInit PROVE Booting
  OBVIOUS
<1>1. /\ cmos \in BootTimes /\ cmos \in Nat /\ from = cmos /\ a = <<>> /\ b = <<>> /\ synced = FALSE /\ seconds_at_boot = 0
  BY BootNumbers DEF ClockInit
<1>2. a \in Seq(Nat) /\ b \in Seq(Nat) /\ Len(a) = 0
  BY <1>1
<1>3. Reading
  BY <1>1, <1>2 DEF Reading
<1>4. BootTime
  BY <1>1 DEF BootTime
<1>5. Numbers
  <2>1. b # <<>> => Len(a) = 3
    BY <1>1
  <2>2. Len(a) \in 0..3
    BY <1>2
  <2>3. cmos \in Nat /\ from \in Nat /\ from <= cmos /\ seconds_at_boot \in Nat
    BY <1>1
  <2> QED
    BY <1>2, <2>1, <2>2, <2>3 DEF Numbers
<1>6. Within
  BY <1>1, Bounds DEF Within
<1> QED
  BY <1>3, <1>4, <1>5, <1>6 DEF Booting

\* Whatever is read is a number, and so is the time it gives.
LEMMA NumbersNext == ASSUME Numbers, [ClockNext]_clockVars
                     PROVE  Numbers'
<1>1. /\ cmos \in Nat /\ from \in Nat /\ from <= cmos
      /\ a \in Seq(Nat) /\ b \in Seq(Nat) /\ Len(a) \in 0..3 /\ (b # <<>> => Len(a) = 3)
      /\ seconds_at_boot \in Nat
  BY DEF Numbers
<1>2. CASE CmosTick
  <2>1. /\ cmos' = cmos + 1 /\ from' = from /\ a' = a /\ b' = b
        /\ seconds_at_boot' = seconds_at_boot
    BY <1>2 DEF CmosTick
  <2> QED
    BY <1>1, <2>1 DEF Numbers
<1>3. CASE ReadA
  <2>1. /\ Len(a) < 3 /\ cmos' = cmos /\ b' = b
        /\ a' = Append(a, RegisterAt(Len(a) + 1, cmos))
        /\ from' = (IF a = <<>> THEN cmos ELSE from)
        /\ seconds_at_boot' = seconds_at_boot
    BY <1>3 DEF ReadA, Register, RegisterAt
  <2>2. PICK n \in 0..2 : n = Len(a)
    BY <1>1, <2>1
  <2>3. b = <<>>
    BY <1>1, <2>1
  <2>4. RegisterAt(n + 1, cmos) \in Nat
    <3>1. n + 1 \in 1..3
      OBVIOUS
    <3> QED
      BY <1>1, <3>1, RegisterFacts
  <2>5. a' \in Seq(Nat) /\ Len(a') = n + 1
    BY <1>1, <2>1, <2>2, <2>4, AppendProperties
  <2>6. from' \in Nat /\ from' <= cmos
    BY <1>1, <2>1
  <2> QED
    BY <1>1, <2>1, <2>3, <2>5, <2>6 DEF Numbers
<1>4. CASE ReadB
  <2>1. /\ Len(a) = 3 /\ Len(b) < 3 /\ cmos' = cmos /\ a' = a /\ from' = from
        /\ b' = Append(b, RegisterAt(Len(b) + 1, cmos))
        /\ seconds_at_boot' = seconds_at_boot
    BY <1>4 DEF ReadB, Register, RegisterAt
  <2>2. PICK n \in 0..2 : n = Len(b)
    <3>1. PICK m \in Nat : m = Len(b)
      BY <1>1, LenProperties
    <3>2. m < 3
      BY <2>1, <3>1
    <3> QED
      BY <3>1, <3>2
  <2>3. RegisterAt(n + 1, cmos) \in Nat
    <3>1. n + 1 \in 1..3
      OBVIOUS
    <3> QED
      BY <1>1, <3>1, RegisterFacts
  <2>4. b' \in Seq(Nat)
    BY <1>1, <2>1, <2>2, <2>3, AppendProperties
  <2> QED
    BY <1>1, <2>1, <2>4 DEF Numbers
<1>5. CASE Compare
  <2>1. /\ Len(b) = 3 /\ a' = <<>> /\ b' = <<>> /\ cmos' = cmos /\ from' = from
    BY <1>5 DEF Compare
  <2>2. a' \in Seq(Nat) /\ b' \in Seq(Nat) /\ Len(a') = 0 /\ b # <<>>
    BY <1>1, <2>1
  <2>3. seconds_at_boot' \in Nat
    <3>1. CASE Equal
      <4>1. \A x \in Nat : FromBcd(x) \in Nat
        BY DEF FromBcd
      <4>2. \A x \in Nat : HourOf(x) \in Nat
        BY <4>1 DEF HourOf
      <4>3. \A k \in 1..3 : a[k] \in Nat
        BY <1>1, <2>2, ElementOfSeq
      <4>4. a[1] \in Nat /\ a[2] \in Nat /\ a[3] \in Nat
        BY <4>3
      <4>5. PICK x \in Nat, y \in Nat, z \in Nat : x = HourOf(a[3]) /\ y = FromBcd(a[2]) /\ z = FromBcd(a[1])
        BY <4>1, <4>2, <4>4
      <4>6. seconds_at_boot' = (HourOf(a[3]) * 60 + FromBcd(a[2])) * 60 + FromBcd(a[1])
        BY <1>5, <3>1 DEF Compare
      <4> QED
        BY <4>5, <4>6
    <3>2. CASE ~Equal
      BY <1>1, <1>5, <3>2 DEF Compare
    <3> QED
      BY <3>1, <3>2
  <2> QED
    BY <1>1, <2>1, <2>2, <2>3 DEF Numbers
<1>6. CASE UNCHANGED bootVars
  BY <1>6 DEF bootVars, Numbers
<1>7. Registers \/ Ticks \/ RunCallback \/ Show \/ UNCHANGED clockVars => UNCHANGED bootVars
  BY DEF Registers, Ticks, RunCallback, Show, clockVars
<1> QED
  BY <1>2, <1>3, <1>4, <1>5, <1>6, <1>7 DEF ClockNext

\* A round goes on, whatever the CMOS does meanwhile.
LEMMA BootingNext ==
    ASSUME Brisk, Booting, [ClockNext]_clockVars
    PROVE  Booting'
<1>1. /\ cmos \in Nat /\ from \in Nat /\ from <= cmos
      /\ a \in Seq(Nat) /\ b \in Seq(Nat) /\ Len(a) \in 0..3 /\ (b # <<>> => Len(a) = 3)
      /\ seconds_at_boot \in Nat /\ MaxCmosTicks \in Nat
  <2>1. Numbers
    BY DEF Booting
  <2>2. MaxCmosTicks \in Nat
    BY Bounds
  <2> QED
    BY <2>1, <2>2 DEF Numbers
<1>0. \A k \in 1..Len(a) : k \in 1..3
  <2>1. PICK n \in 0..3 : n = Len(a)
    BY <1>1
  <2>2. \A k \in 1..n : k \in 1..3
    OBVIOUS
  <2> QED
    BY <2>1, <2>2
<1>8. Numbers'
  BY NumbersNext DEF Booting
<1>2. CASE CmosTick
  <2>1. /\ ~synced /\ ~synced' /\ cmos' = cmos + 1 /\ from' = from /\ a' = a /\ b' = b
        /\ seconds_at_boot' = seconds_at_boot
        /\ hrs24' = hrs24 /\ bcd' = bcd
    BY <1>2 DEF CmosTick
  <2>2. PICK t \in BootTimes : t \in Nat /\ t <= from /\ cmos <= t + MaxCmosTicks - 1
    <3>1. PICK t \in BootTimes : t \in Nat /\ t <= from /\ cmos <= t + MaxCmosTicks
      BY BootNumbers DEF Booting, Within
    <3>2. PICK u \in BootTimes : u \in Nat /\ cmos \in u..(u + MaxCmosTicks - 1)
      BY <1>2, BootNumbers DEF CmosTick
    <3>3. t <= cmos /\ u <= cmos /\ cmos <= u + MaxCmosTicks - 1
      BY <1>1, <3>1, <3>2
    <3>4. ~(t < u) /\ ~(u < t)
      <4>1. (t < u => t + MaxCmosTicks < u) /\ (u < t => u + MaxCmosTicks < t)
        BY <3>1, <3>2 DEF Brisk
      <4> QED
        BY <1>1, <3>1, <3>2, <3>3, <4>1
    <3> QED
      BY <3>1, <3>2, <3>3, <3>4
  <2>3. Reading'
    <3>1. PICK u \in from..cmos :
            /\ b # <<>> => b[1] = RegisterAt(1, u)
            /\ \A k \in 1..Len(a) : \E v \in from..u : a[k] = RegisterAt(k, v)
      BY <2>1 DEF Booting, Reading
    <3>2. u \in from'..cmos'
      BY <1>1, <2>1, <3>1
    <3>3. \A k \in 1..3 : \A v : RegisterAt(k, v)' = RegisterAt(k, v)
      BY <2>1 DEF RegisterAt, Coded, HourRegister
    <3>5. a # <<>> => a[1] = RegisterAt(1, from)
      BY <2>1 DEF Booting, Reading
    <3> QED
      BY <1>0, <2>1, <3>1, <3>2, <3>3, <3>5 DEF Reading
  <2>4. BootTime'
    BY <2>1 DEF BootTime
  <2>6. Within'
    BY <1>1, <2>1, <2>2 DEF Within
  <2> QED
    BY <1>8, <2>3, <2>4, <2>6 DEF Booting
<1>3. CASE ReadA
  <2>1. /\ ~synced /\ ~synced' /\ Len(a) < 3 /\ cmos' = cmos /\ b' = b
        /\ a' = Append(a, RegisterAt(Len(a) + 1, cmos))
        /\ from' = (IF a = <<>> THEN cmos ELSE from)
        /\ seconds_at_boot' = seconds_at_boot
        /\ hrs24' = hrs24 /\ bcd' = bcd
    BY <1>3 DEF ReadA, Register, RegisterAt
  <2>2. PICK n \in 0..2 : n = Len(a)
    BY <1>1, <2>1
  <2>3. b = <<>>
    BY <1>1, <2>1
  <2>4. RegisterAt(n + 1, cmos) \in Nat
    <3>1. n + 1 \in 1..3
      OBVIOUS
    <3> QED
      BY <1>1, <3>1, RegisterFacts
  <2>5. /\ a' \in Seq(Nat) /\ Len(a') = n + 1
        /\ \A k \in 1..n : a'[k] = a[k]
        /\ a'[n + 1] = RegisterAt(n + 1, cmos)
    BY <1>1, <2>1, <2>2, <2>4, AppendProperties
  <2>6. n = 0 <=> a = <<>>
    BY <1>1, <2>2, EmptySeq
  <2>7. from' \in Nat /\ from' <= cmos /\ from' >= from
    BY <1>1, <2>1
  <2>8. Reading'
    <3>1. \A k \in 1..3 : \A v : RegisterAt(k, v)' = RegisterAt(k, v)
      BY <2>1 DEF RegisterAt, Coded, HourRegister
    <3>2. a'[1] = RegisterAt(1, from')
      BY <1>1, <2>1, <2>2, <2>5, <2>6 DEF Booting, Reading
    <3>3. ASSUME NEW k \in 1..(n + 1) PROVE \E v \in from'..cmos : a'[k] = RegisterAt(k, v)
      <4>1. CASE k = n + 1
        BY <1>1, <2>5, <2>7, <4>1
      <4>2. CASE k \in 1..n
        <5>1. from' = from /\ a'[k] = a[k]
          BY <2>1, <2>5, <2>6, <4>2
        <5>2. PICK u \in from..cmos : \A e \in 1..Len(a) : \E v \in from..u : a[e] = RegisterAt(e, v)
          BY <2>1 DEF Booting, Reading
        <5>3. PICK v \in from..u : a[k] = RegisterAt(k, v)
          BY <2>2, <4>2, <5>2
        <5>4. v \in from'..cmos
          BY <1>1, <5>1, <5>2, <5>3
        <5> QED
          BY <5>1, <5>3, <5>4
      <4> QED
        BY <4>1, <4>2
    <3>4. \A k \in 1..(n + 1) : k \in 1..3
      OBVIOUS
    <3>5. \A k \in 1..Len(a') : \E v \in from'..cmos' : a'[k] = RegisterAt(k, v)'
      BY <2>1, <2>5, <3>1, <3>3, <3>4
    <3>6. cmos' \in from'..cmos' /\ b' = <<>>
      BY <1>1, <2>1, <2>3, <2>7
    <3>7. a'[1] = RegisterAt(1, from)'
      BY <3>1, <3>2
    <3> QED
      BY <3>5, <3>6, <3>7 DEF Reading
  <2>9. BootTime'
    BY <2>1 DEF BootTime
  <2>11. Within'
    <3>1. PICK t \in BootTimes : t \in Nat /\ t <= from /\ cmos <= t + MaxCmosTicks
      BY BootNumbers DEF Booting, Within
    <3>2. t <= from' /\ cmos' <= t + MaxCmosTicks
      BY <1>1, <2>1, <2>7, <3>1
    <3> QED
      BY <3>2 DEF Within
  <2> QED
    BY <1>8, <2>8, <2>9, <2>11 DEF Booting
<1>4. CASE ReadB
  <2>1. /\ ~synced /\ ~synced' /\ Len(a) = 3 /\ Len(b) < 3 /\ cmos' = cmos /\ a' = a /\ from' = from
        /\ b' = Append(b, RegisterAt(Len(b) + 1, cmos))
        /\ seconds_at_boot' = seconds_at_boot
        /\ hrs24' = hrs24 /\ bcd' = bcd
    BY <1>4 DEF ReadB, Register, RegisterAt
  <2>2. PICK n \in 0..2 : n = Len(b)
    <3>1. PICK m \in Nat : m = Len(b)
      BY <1>1, LenProperties
    <3>2. m < 3
      BY <2>1, <3>1
    <3> QED
      BY <3>1, <3>2
  <2>3. RegisterAt(n + 1, cmos) \in Nat
    <3>1. n + 1 \in 1..3
      OBVIOUS
    <3> QED
      BY <1>1, <3>1, RegisterFacts
  <2>4. /\ b' \in Seq(Nat) /\ Len(b') = n + 1
        /\ \A k \in 1..n : b'[k] = b[k]
        /\ b'[n + 1] = RegisterAt(n + 1, cmos)
    BY <1>1, <2>1, <2>2, <2>3, AppendProperties
  <2>5. n = 0 <=> b = <<>>
    BY <1>1, <2>2, EmptySeq
  <2>6. \A k \in 1..3 : \A v : RegisterAt(k, v)' = RegisterAt(k, v)
    BY <2>1 DEF RegisterAt, Coded, HourRegister
  <2>7. PICK u \in from..cmos :
            /\ b # <<>> => b[1] = RegisterAt(1, u)
            /\ \A k \in 1..Len(a) : \E v \in from..u : a[k] = RegisterAt(k, v)
    BY <2>1 DEF Booting, Reading
  <2>8. PICK w \in from..cmos : u <= w /\ b'[1] = RegisterAt(1, w)
    <3>1. CASE n = 0
      <4>1. cmos \in from..cmos /\ u <= cmos
        BY <1>1, <2>7
      <4> QED
        BY <2>4, <3>1, <4>1
    <3>2. CASE n # 0
      <4>1. b'[1] = b[1] /\ b # <<>>
        BY <2>2, <2>4, <2>5, <3>2
      <4> QED
        BY <1>1, <2>7, <4>1
    <3> QED
      BY <3>1, <3>2
  <2>9. \A k \in 1..Len(a) : \E v \in from..w : a[k] = RegisterAt(k, v)
    <3>1. \A v \in from..u : v \in from..w
      BY <1>1, <2>7, <2>8
    <3> QED
      BY <2>7, <3>1
  <2>10. Reading'
    <3>1. a # <<>> => a[1] = RegisterAt(1, from)
      BY <2>1 DEF Booting, Reading
    <3>2. b'[1] = RegisterAt(1, w)'
      BY <2>6, <2>8
    <3>3. a'[1] = RegisterAt(1, from)' \/ a' = <<>>
      BY <2>1, <2>6, <3>1
    <3>4. \A k \in 1..Len(a') : \E v \in from..w : a'[k] = RegisterAt(k, v)'
      BY <1>0, <2>1, <2>6, <2>9
    <3>5. w \in from'..cmos'
      BY <2>1
    <3> QED
      BY <2>1, <3>2, <3>3, <3>4, <3>5 DEF Reading
  <2>11. BootTime'
    BY <2>1 DEF BootTime
  <2>13. Within'
    BY <2>1 DEF Booting, Within
  <2> QED
    BY <1>8, <2>1, <2>10, <2>11, <2>13 DEF Booting
<1>5. CASE Compare
  <2>1. /\ ~synced /\ Len(b) = 3 /\ a' = <<>> /\ b' = <<>> /\ cmos' = cmos /\ from' = from
        /\ hrs24' = hrs24 /\ bcd' = bcd
    BY <1>5 DEF Compare
  <2>2. a' \in Seq(Nat) /\ b' \in Seq(Nat) /\ Len(a') = 0 /\ b # <<>>
    BY <1>1, <2>1
  <2>5. Within'
    BY <2>1 DEF Booting, Within
  <2>3. CASE Equal
    <3>1. /\ synced' = TRUE
          /\ seconds_at_boot' = (HourOf(a[3]) * 60 + FromBcd(a[2])) * 60 + FromBcd(a[1])
      BY <1>5, <2>3 DEF Compare
    <3>2. Len(a) = 3 /\ a[1] = b[1] /\ a # <<>>
      BY <1>1, <2>1, <2>2, <2>3 DEF Equal
    <3>3. PICK u \in from..cmos :
            /\ b[1] = RegisterAt(1, u)
            /\ \A k \in 1..3 : \E v \in from..u : a[k] = RegisterAt(k, v)
      BY <2>1, <2>2, <3>2 DEF Booting, Reading
    <3>4. a[1] = RegisterAt(1, from)
      BY <2>1, <3>2 DEF Booting, Reading
    <3>5. u = from
      <4>0. PICK t \in BootTimes : t \in Nat /\ t <= from /\ cmos <= t + MaxCmosTicks
        BY BootNumbers DEF Booting, Within
      <4>1. u \in Nat /\ from <= u /\ u - from < 60
        BY <1>1, <3>3, <4>0 DEF Brisk
      <4> QED
        BY <1>1, <3>2, <3>3, <3>4, <4>1, SameSecond
    <3>6. a[2] = RegisterAt(2, from) /\ a[3] = RegisterAt(3, from)
      <4>1. \A v \in from..u : v = from
        BY <1>1, <3>5
      <4> QED
        BY <3>3, <4>1
    <3>8. hrs24 \/ Afternoon(from) => seconds_at_boot' = from % Day
      BY <1>1, <3>1, <3>4, <3>6, Calculated
    <3>9. BootTime'
      <4>0. SUFFICES ASSUME hrs24' \/ Afternoon(from') PROVE TimeRight'
        BY DEF BootTime, Afternoon
      <4>1. seconds_at_boot' = from % Day
        BY <2>1, <3>8, <4>0 DEF Afternoon
      <4>2. (from % Day) % Day = from % Day
        BY <1>1 DEF Day
      <4>3. from' \in from'..cmos'
        BY <1>1, <2>1
      <4> QED
        BY <2>1, <4>1, <4>2, <4>3 DEF TimeRight
    <3> QED
      BY <1>8, <2>1, <2>5, <3>1, <3>9 DEF Booting
  <2>4. CASE ~Equal
    <3>1. synced' = synced /\ seconds_at_boot' = seconds_at_boot
      BY <1>5, <2>4 DEF Compare
    <3>2. Reading'
      <4>1. cmos' \in from'..cmos'
        BY <1>1, <2>1
      <4> QED
        BY <2>1, <2>2, <4>1 DEF Reading
    <3>3. BootTime'
      BY <2>1, <3>1 DEF BootTime
    <3> QED
      BY <1>8, <2>1, <2>5, <3>2, <3>3 DEF Booting
  <2> QED
    BY <2>3, <2>4
<1>6. CASE UNCHANGED bootVars
  <2>1. Reading' <=> Reading
    BY <1>6 DEF bootVars, Reading, RegisterAt, Coded, HourRegister
  <2>2. BootTime' <=> BootTime
    BY <1>6 DEF bootVars, BootTime, TimeRight
  <2>4. synced' = synced /\ cmos' = cmos /\ from' = from
    BY <1>6 DEF bootVars
  <2>5. Within' <=> Within
    BY <2>4 DEF Within
  <2> QED
    BY <1>8, <2>1, <2>2, <2>4, <2>5 DEF Booting
<1>7. Registers \/ Ticks \/ RunCallback \/ Show \/ UNCHANGED clockVars => UNCHANGED bootVars
  BY DEF Registers, Ticks, RunCallback, Show, clockVars
<1> QED
  BY <1>2, <1>3, <1>4, <1>5, <1>6, <1>7 DEF ClockNext

\* The time taken at boot is one the CMOS had, at whatever time of day it
\* ticks between two registers, as long as reading is over within a minute.
THEOREM BootRight == ASSUME Brisk PROVE ClockSpec => []BootTime
<1>1. ClockInit => Booting
  BY BootingInit
<1>2. Booting /\ [ClockNext]_clockVars => Booting'
  BY BootingNext
<1>3. Booting => BootTime
  BY DEF Booting
<1> QED
  BY <1>1, <1>2, <1>3, PTL DEF ClockSpec

----------------------------------------------------------------------------
(* What the status bar shows.                                               *)

MsAt(n) == (n * PitCount * 1000) \div PitFreq

RoundedAt(n) == (seconds_at_boot + (MsAt(n) + 500) \div 1000) % Day

\* waitloop has done all its work within half a second.
Prompt == 2 * MaxLag <= TickHz

\* Time is counted in ticks, and nothing is shown before it is known.
Timed ==
    /\ pitCount \in Nat /\ ms_since_boot = MsAt(pitCount) /\ lag \in 0..MaxLag
    /\ ~synced => calls = <<>> /\ ~updating /\ shown = Blank

\* updateClock has taken its seconds at one of the last ticks.
Showing ==
    /\ Timed
    /\ updating => \E n \in 0..lag : n <= pitCount /\ rtc_seconds = RoundedAt(pitCount - n)
    /\ ShownNear

\* PitCount ticks of the timer chip are no longer than a tick of TickHz.
LEMMA PitFacts == /\ PitCount \in Nat /\ PitFreq \in Nat \ {0} /\ TickHz \in Nat \ {0}
                  /\ TickHz * PitCount <= PitFreq
<1>1. TickHz \in Nat \ {0} /\ PitFreq \in Nat /\ PitFreq >= TickHz
  BY CallbacksAssumption
<1>2. PICK c \in Nat, r \in 0..(TickHz - 1) : c = PitFreq \div TickHz /\ PitFreq = TickHz * c + r
  BY <1>1, DivFacts
<1>3. TickHz * c \in Nat
  BY <1>1, <1>2
<1> QED
  BY <1>1, <1>2, <1>3 DEF PitCount

\* A product grows with its first factor.
LEMMA Times ==
    ASSUME NEW c \in Nat, NEW m \in Nat, NEW n \in Nat, m <= n
    PROVE  m * c \in Nat /\ n * c \in Nat /\ m * c <= n * c
<1>1. PICK e \in Nat : n = m + e
  <2>1. n - m \in Nat /\ n = m + (n - m)
    OBVIOUS
  <2> QED
    BY <2>1
<1>2. n * c = m * c + e * c /\ m * c \in Nat /\ e * c \in Nat
  BY <1>1
<1> QED
  BY <1>2

\* The milliseconds of n ticks are no more than they should be.
LEMMA MsRise ==
    ASSUME NEW m \in Nat, NEW n \in Nat, NEW k \in Nat, 1000 * n <= k * TickHz
    PROVE  /\ MsAt(m) \in Nat /\ MsAt(m + n) \in Nat
           /\ MsAt(m) <= MsAt(m + n) /\ MsAt(m + n) <= MsAt(m) + k
<1>1. PICK c \in Nat, f \in Nat \ {0}, h \in Nat \ {0} :
          c = PitCount /\ f = PitFreq /\ h = TickHz /\ h * c <= f
  BY PitFacts
<1>2. PICK x \in Nat, y \in Nat : x = m * c * 1000 /\ y = 1000 * n * c /\ (m + n) * c * 1000 = x + y
  <2>1. PICK w \in Nat, v \in Nat : w = m * c /\ v = n * c
    BY <1>1
  <2>2. (m + n) * c = w + v
    BY <1>1, <2>1
  <2>3. m * c * 1000 = w * 1000 /\ 1000 * n * c = v * 1000 /\ (m + n) * c * 1000 = (w + v) * 1000
    <3>1. 1000 * n * c = 1000 * (n * c)
      BY <1>1
    <3> QED
      BY <2>1, <2>2, <3>1
  <2>4. w * 1000 \in Nat /\ v * 1000 \in Nat /\ (w + v) * 1000 = w * 1000 + v * 1000
    BY <2>1
  <2> QED
    BY <2>3, <2>4
<1>3. k * f \in Nat /\ y <= k * f
  <2>1. PICK u \in Nat, v \in Nat : u = 1000 * n /\ v = k * h /\ u <= v
    BY <1>1
  <2>2. u * c <= v * c /\ v * c \in Nat /\ u * c \in Nat
    BY <1>1, <2>1, Times
  <2>3. v * c = k * (h * c)
    BY <1>1, <2>1
  <2>4. PICK g \in Nat : g = h * c /\ g <= f
    BY <1>1
  <2>5. g * k <= f * k /\ g * k \in Nat /\ f * k \in Nat
    BY <1>1, <2>4, Times
  <2>6. k * g = g * k /\ k * f = f * k
    BY <1>1, <2>4
  <2> QED
    BY <1>2, <2>1, <2>2, <2>3, <2>4, <2>5, <2>6
<1>4. PICK p \in Nat, r \in 0..(f - 1) : p = x \div f /\ x = f * p + r
  <2>1. x \div f \in Nat /\ x % f \in 0..(f - 1) /\ x = f * (x \div f) + (x % f)
    BY ONLY x \in Nat, f \in Nat \ {0}, DivFacts, Zenon
  <2> QED
    BY <2>1
<1>5. PICK z \in Nat : z = x + y
  BY <1>2
<1>6. PICK q \in Nat, s \in 0..(f - 1) : q = z \div f /\ z = f * q + s
  <2>1. z \div f \in Nat /\ z % f \in 0..(f - 1) /\ z = f * (z \div f) + (z % f)
    BY ONLY z \in Nat, f \in Nat \ {0}, DivFacts, Zenon
  <2> QED
    BY <2>1
<1>7. p <= q
  <2> SUFFICES ASSUME q < p PROVE FALSE
    OBVIOUS
  <2>1. PICK e \in Nat : p = q + 1 + e
    <3>1. p - q - 1 \in Nat /\ p = q + 1 + (p - q - 1)
      OBVIOUS
    <3> QED
      BY <3>1
  <2>2. f * p = f * q + f + f * e /\ f * e \in Nat /\ f * q \in Nat
    BY <1>1, <2>1
  <2> QED
    BY <1>1, <1>4, <1>5, <1>6, <2>2
<1>8. q <= p + k
  <2> SUFFICES ASSUME p + k < q PROVE FALSE
    OBVIOUS
  <2>1. PICK e \in Nat : q = p + k + 1 + e
    <3>1. q - (p + k) - 1 \in Nat /\ q = p + k + 1 + (q - (p + k) - 1)
      OBVIOUS
    <3> QED
      BY <3>1
  <2>2. f * q = f * p + k * f + f + f * e /\ f * e \in Nat /\ f * p \in Nat
    BY <1>1, <2>1
  <2> QED
    BY <1>1, <1>3, <1>4, <1>5, <1>6, <2>2
<1>9. MsAt(m) = p /\ MsAt(m + n) = q
  BY <1>1, <1>2, <1>4, <1>5, <1>6 DEF MsAt
<1> QED
  BY <1>7, <1>8, <1>9

\* No more than half a second passes in MaxLag ticks.
LEMMA MsFacts ==
    ASSUME Prompt, NEW m \in Nat, NEW n \in 0..MaxLag
    PROVE  /\ MsAt(m) \in Nat
           /\ MsAt(m) <= MsAt(m + n) /\ MsAt(m + n) <= MsAt(m) + 500
<1>1. n \in Nat /\ TickHz \in Nat /\ 1000 * n <= 500 * TickHz
  BY Bounds, PitFacts DEF Prompt
<1> QED
  BY <1>1, MsRise

\* Twelve hours and the afternoon say what the hour is.
LEMMA TwelveHours ==
    ASSUME NEW s \in Nat, s < Day, NEW t,
           t.hours = Twelve(s \div 3600), t.pm = Pm(s \div 3600),
           t.minutes = (s \div 60) % 60, t.seconds = s % 60
    PROVE  SecondShown(t) = s
<1>1. PICK h : h = s \div 3600
  OBVIOUS
<1>2. PICK w : w = (IF h % 12 = 0 THEN 12 ELSE h % 12)
  OBVIOUS
<1>3. s < 86400
  BY DEF Day
<1>4. (((w % 12) + (IF h >= 12 THEN 12 ELSE 0)) * 60 + ((s \div 60) % 60)) * 60 + (s % 60) = s
  BY <1>1, <1>2, <1>3, SMT
<1>5. Twelve(s \div 3600) = w
  BY <1>1, <1>2 DEF Twelve
<1>6. Pm(s \div 3600) <=> h >= 12
  BY <1>1 DEF Pm
<1>7. PICK z : z = (IF h >= 12 THEN 12 ELSE 0)
  OBVIOUS
<1>8. (IF t.pm THEN 12 ELSE 0) = z
  <2>1. t.pm <=> h >= 12
    <3> HIDE DEF Pm
    <3>1. t.pm <=> Pm(s \div 3600)
      OBVIOUS
    <3> QED
      BY ONLY <1>6, <3>1
  <2> QED
    BY ONLY <1>7, <2>1
<1>9. SecondShown(t) = (((t.hours % 12) + z) * 60 + t.minutes) * 60 + t.seconds
  BY ONLY <1>8, Zenon DEF SecondShown
<1>10. SecondShown(t) = (((w % 12) + z) * 60 + ((s \div 60) % 60)) * 60 + (s % 60)
  BY ONLY <1>5, <1>9, t.hours = Twelve(s \div 3600), t.minutes = (s \div 60) % 60, t.seconds = s % 60
<1> QED
  BY ONLY <1>4, <1>7, <1>10, Zenon

SoonAfter(n, m) == n <= m /\ m <= n + 500
RoundedFrom(e, n) == (e + (n + 500) \div 1000) % Day
Gap(s, e, m) == ((s - e) * 1000 + (m % 1000) - m) % (Day * 1000)

\* Seconds rounded at one moment go with the milliseconds of another no more
\* than half a second later.
LEMMA Nearly ==
    ASSUME NEW e \in Nat, NEW m \in Nat, NEW n \in Nat, SoonAfter(n, m),
           NEW s \in Nat, s = RoundedFrom(e, n)
    PROVE  Gap(s, e, m) \in {0, 1000}
<1>0. n <= m /\ m <= n + 500 /\ s = (e + (n + 500) \div 1000) % Day
  BY DEF SoonAfter, RoundedFrom
<1>1. PICK q \in Nat, r \in 0..999 : r = m % 1000 /\ m = 1000 * q + r
  OBVIOUS
<1>2. PICK u \in Nat : u = (n + 500) \div 1000 /\ u \in {q, q + 1}
  <2>1. PICK u \in Nat, v \in 0..999 : u = (n + 500) \div 1000 /\ n + 500 = 1000 * u + v
    OBVIOUS
  <2>2. u \in {q, q + 1}
    BY <1>0, <1>1, <2>1
  <2> QED
    BY <2>1, <2>2
<1>3. PICK k \in Nat : e + u = 86400 * k + s
  BY <1>0, <1>2 DEF Day
<1>4. PICK d \in {0, 1000} : d = (u - q) * 1000
  BY <1>1, <1>2
<1>5. PICK x \in Nat : x = 86400000
  OBVIOUS
<1>6. PICK j \in Nat : j = 86400 * k /\ j * 1000 = x * k
  BY <1>3, <1>5, SMT
<1>7. (s - e) * 1000 + r - m = d - x * k
  <2>1. s - e = u - j
    BY ONLY e \in Nat, s \in Nat, <1>2, <1>3, <1>6, SMT
  <2>2. r - m = 0 - 1000 * q
    BY ONLY <1>1, SMT
  <2>3. (u - j) * 1000 + (0 - 1000 * q) = (u - q) * 1000 - j * 1000
    BY ONLY <1>1, <1>2, <1>6, SMT
  <2>4. (s - e) * 1000 + r - m = (s - e) * 1000 + (r - m)
    BY ONLY e \in Nat, s \in Nat, m \in Nat, <1>1, SMT
  <2>5. PICK jj, xk, qq, uq : jj = j * 1000 /\ xk = x * k /\ qq = 0 - 1000 * q /\ uq = (u - q) * 1000
    OBVIOUS
  <2>6. jj = xk /\ d = uq /\ r - m = qq
    BY ONLY <1>4, <1>6, <2>2, <2>5
  <2>7. (s - e) * 1000 + qq = uq - jj
    BY ONLY <2>1, <2>3, <2>5
  <2> QED
    BY ONLY <2>4, <2>5, <2>6, <2>7
<1>8. (d - x * k) % x = d
  BY <1>3, <1>4, <1>5, SMT
<1>9. Day * 1000 = x
  BY <1>5, SMT DEF Day
<1>10. Gap(s, e, m) = ((s - e) * 1000 + r - m) % (Day * 1000)
  <2>1. m % 1000 = r
    BY ONLY <1>1
  <2>2. Gap(s, e, m) = ((s - e) * 1000 + (m % 1000) - m) % (Day * 1000)
    BY DEF Gap
  <2> QED
    BY ONLY <2>1, <2>2
<1>11. Gap(s, e, m) = (d - x * k) % x
  BY ONLY <1>7, <1>9, <1>10
<1> QED
  BY ONLY <1>4, <1>8, <1>11

\* What is calculated at boot stays; before, there is no time.
LEMMA AtBoot ==
    ASSUME [ClockNext]_clockVars, ~(Ticks \/ RunCallback \/ Show)
    PROVE  /\ UNCHANGED <<pitCount, ms_since_boot, calls, showVars>>
           /\ synced => synced' /\ seconds_at_boot' = seconds_at_boot
<1>1. CASE CmosTick \/ ReadA \/ ReadB \/ Compare \/ UNCHANGED clockVars
  BY <1>1 DEF CmosTick, ReadA, ReadB, Compare, callbackVars, showVars, clockVars, bootVars
<1>2. CASE Registers
  BY <1>2 DEF Registers, RegisterPeriodicCallback, bootVars, showVars
<1> QED
  BY <1>1, <1>2 DEF ClockNext

\* The seconds of an earlier tick do not change.
LEMMA SameRounded ==
    ASSUME seconds_at_boot' = seconds_at_boot
    PROVE  \A n : MsAt(n)' = MsAt(n) /\ RoundedAt(n)' = RoundedAt(n)
BY DEF RoundedAt, MsAt, PitCount

\* Ticks are counted, and nothing is queued before boot is over.
LEMMA TimedNext ==
    ASSUME Timed, [ClockNext]_clockVars
    PROVE  Timed'
<1>1. /\ pitCount \in Nat /\ ms_since_boot = MsAt(pitCount) /\ lag \in 0..MaxLag /\ MaxLag \in Nat
      /\ (~synced => calls = <<>> /\ ~updating /\ shown = Blank)
  BY Bounds DEF Timed
<1>2. MsAt(pitCount)' = (pitCount' * PitCount * 1000) \div PitFreq
  BY DEF MsAt, PitCount
<1>3. CASE Ticks
  <2>1. /\ synced' /\ pitCount' = pitCount + 1 /\ lag' \in {0, lag + 1} /\ lag < MaxLag
        /\ ms_since_boot' = (pitCount' * PitCount * 1000) \div PitFreq
    BY <1>3 DEF Ticks, Tick, bootVars
  <2>2. lag' \in 0..MaxLag
    BY <1>1, <2>1
  <2> QED
    BY <1>1, <1>2, <2>1, <2>2 DEF Timed
<1>4. CASE RunCallback \/ Show
  <2>1. /\ pitCount' = pitCount /\ ms_since_boot' = ms_since_boot /\ lag' \in {0, lag}
        /\ synced' = synced /\ synced
    BY <1>1, <1>4 DEF RunCallback, Show, bootVars, callbackVars
  <2>2. lag' \in 0..MaxLag
    BY <1>1, <2>1
  <2> QED
    BY <1>1, <1>2, <2>1, <2>2 DEF Timed, MsAt
<1>5. CASE ~(Ticks \/ RunCallback \/ Show)
  BY <1>1, <1>2, <1>5, AtBoot DEF Timed, MsAt, showVars
<1> QED
  BY <1>3, <1>4, <1>5

\* updateClock shows the seconds it has taken.
LEMMA ShowsSeconds ==
    ASSUME Show, rtc_seconds \in Nat, rtc_seconds < Day, ms_since_boot \in Nat
    PROVE  SecondShown(shown') = rtc_seconds /\ shown'.ms = ms_since_boot % 1000
<1>1. PICK s \in Nat, y \in Nat : s = rtc_seconds /\ s < Day /\ y = ms_since_boot
  OBVIOUS
<1>2. shown' = [hours |-> Twelve(s \div 3600), pm |-> Pm(s \div 3600), minutes |-> (s \div 60) % 60,
                seconds |-> s % 60, ms |-> y % 1000]
  BY <1>1 DEF Show
<1> DEFINE t == shown'
<1>3. /\ t.hours = Twelve(s \div 3600) /\ t.pm = Pm(s \div 3600)
      /\ t.minutes = (s \div 60) % 60 /\ t.seconds = s % 60 /\ t.ms = y % 1000
  BY <1>2
<1> HIDE DEF t
<1>4. SecondShown(t) = s
  BY <1>1, <1>3, TwelveHours
<1> QED
  BY <1>1, <1>3, <1>4 DEF t

\* The seconds of a tick are some of a day.
LEMMA RoundedType ==
    ASSUME Numbers, NEW m \in Nat
    PROVE  MsAt(m) \in Nat /\ RoundedAt(m) \in Nat /\ RoundedAt(m) < Day
<1>1. MsAt(m) \in Nat
  BY PitFacts, MsRise
<1>2. PICK w \in Nat : w = seconds_at_boot + (MsAt(m) + 500) \div 1000
  BY <1>1 DEF Numbers
<1>3. w % Day \in Nat /\ w % Day < Day
  BY <1>2 DEF Day
<1> QED
  BY <1>1, <1>2, <1>3 DEF RoundedAt

\* Nothing is shown before the time is known, and from then on it is near.
LEMMA ShowingNext ==
    ASSUME Prompt, Numbers, Showing, [ClockNext]_clockVars
    PROVE  Showing'
<1>1. /\ pitCount \in Nat /\ ms_since_boot = MsAt(pitCount) /\ lag \in 0..MaxLag
      /\ (~synced => calls = <<>> /\ ~updating /\ shown = Blank)
      /\ (updating => \E n \in 0..lag : n <= pitCount /\ rtc_seconds = RoundedAt(pitCount - n))
      /\ ShownNear
      /\ seconds_at_boot \in Nat /\ MaxLag \in Nat
  BY Bounds DEF Showing, Timed, Numbers
<1>2. Timed'
  BY TimedNext DEF Showing
<1>3. CASE ~(Ticks \/ RunCallback \/ Show)
  <2>1. /\ pitCount' = pitCount /\ rtc_seconds' = rtc_seconds /\ updating' = updating
        /\ shown' = shown /\ shownAt' = shownAt /\ lag' = lag
        /\ (synced => seconds_at_boot' = seconds_at_boot)
    BY <1>3, AtBoot DEF showVars
  <2>2. CASE synced
    <3>1. \A n : RoundedAt(n)' = RoundedAt(n)
      BY <2>1, <2>2, SameRounded
    <3>2. ShownNear' <=> ShownNear
      BY <2>1, <2>2 DEF ShownNear
    <3>3. updating' => \E n \in 0..lag' : n <= pitCount' /\ rtc_seconds' = RoundedAt(pitCount - n)'
      BY <1>1, <2>1, <3>1
    <3> QED
      BY <1>1, <1>2, <2>1, <3>2, <3>3 DEF Showing
  <2>3. CASE ~synced
    <3>1. ~updating' /\ shown' = Blank
      BY <1>1, <2>1, <2>3
    <3>2. ShownNear'
      BY <3>1 DEF ShownNear, Blank
    <3> QED
      BY <1>2, <3>1, <3>2 DEF Showing
  <2> QED
    BY <2>2, <2>3
<1>4. CASE Ticks
  <2>1. /\ pitCount' = pitCount + 1
        /\ lag' = (IF calls # <<>> \/ updating THEN lag + 1 ELSE 0)
        /\ seconds_at_boot' = seconds_at_boot /\ rtc_seconds' = rtc_seconds
        /\ updating' = updating /\ shown' = shown /\ shownAt' = shownAt
    BY <1>4 DEF Ticks, Tick, bootVars
  <2>2. ASSUME updating' PROVE \E n \in 0..lag' : n <= pitCount' /\ rtc_seconds' = RoundedAt(pitCount' - n)
    <3>1. updating /\ lag' = lag + 1
      BY <2>1, <2>2
    <3>2. PICK n \in 0..lag : n <= pitCount /\ rtc_seconds = RoundedAt(pitCount - n)
      BY <1>1, <3>1
    <3>3. n + 1 \in 0..lag' /\ n + 1 <= pitCount' /\ pitCount' - (n + 1) = pitCount - n
      BY <1>1, <2>1, <3>1, <3>2
    <3> QED
      BY <2>1, <3>2, <3>3
  <2>3. ShownNear'
    BY <1>1, <2>1 DEF ShownNear
  <2>4. updating' => \E n \in 0..lag' : n <= pitCount' /\ rtc_seconds' = RoundedAt(pitCount - n)'
    BY <2>1, <2>2 DEF RoundedAt, MsAt, PitCount
  <2> QED
    BY <1>2, <2>3, <2>4 DEF Showing
<1>5. CASE RunCallback
  <2>1. /\ pitCount' = pitCount /\ seconds_at_boot' = seconds_at_boot
        /\ shown' = shown /\ shownAt' = shownAt /\ ~updating
        /\ (updating' => rtc_seconds' = Rounded)
    BY <1>5 DEF RunCallback, bootVars
  <2>2. Rounded = RoundedAt(pitCount)
    BY <1>1 DEF Rounded, RoundedAt
  <2>3. 0 \in 0..lag' /\ pitCount - 0 = pitCount /\ 0 <= pitCount
    BY <1>1, <1>2 DEF Timed
  <2>4. RoundedAt(pitCount - 0)' = RoundedAt(pitCount - 0)
    BY <2>1 DEF RoundedAt, MsAt, PitCount
  <2>5. updating' => \E n \in 0..lag' : n <= pitCount' /\ rtc_seconds' = RoundedAt(pitCount - n)'
    BY <2>1, <2>2, <2>3, <2>4
  <2>6. ShownNear'
    BY <1>1, <2>1 DEF ShownNear
  <2> QED
    BY <1>2, <2>5, <2>6 DEF Showing
<1>6. CASE Show
  <2>1. /\ updating /\ ~updating' /\ seconds_at_boot' = seconds_at_boot /\ shownAt' = ms_since_boot
    BY <1>6 DEF Show, bootVars, callbackVars
  <2>2. PICK n \in 0..lag : n <= pitCount /\ rtc_seconds = RoundedAt(pitCount - n)
    BY <1>1, <2>1
  <2>3. PICK m \in Nat : m = pitCount - n /\ m + n = pitCount /\ n \in 0..MaxLag
    <3>1. pitCount - n \in Nat /\ (pitCount - n) + n = pitCount /\ n \in 0..MaxLag
      BY <1>1, <2>2
    <3> QED
      BY <3>1
  <2>4. PICK x \in Nat, y \in Nat : x = MsAt(m) /\ y = ms_since_boot /\ x <= y /\ y <= x + 500
    <3>1. MsAt(m) \in Nat /\ MsAt(m + n) \in Nat
      BY <1>1, <2>3, RoundedType
    <3>2. MsAt(m) <= MsAt(m + n) /\ MsAt(m + n) <= MsAt(m) + 500
      BY <2>3, MsFacts
    <3> QED
      BY <1>1, <2>3, <3>1, <3>2
  <2>5. PICK s \in Nat : s = rtc_seconds /\ s < Day /\ s = (seconds_at_boot + (x + 500) \div 1000) % Day
    <3>1. rtc_seconds \in Nat /\ rtc_seconds < Day
      BY <2>2, <2>3, RoundedType
    <3>2. rtc_seconds = (seconds_at_boot + (x + 500) \div 1000) % Day
      BY <2>2, <2>3, <2>4 DEF RoundedAt
    <3> QED
      BY <3>1, <3>2
  <2>6. SecondShown(shown') = s /\ shown'.ms = y % 1000
    BY <1>6, <2>4, <2>5, ShowsSeconds
  <2>7. ((s - seconds_at_boot) * 1000 + (y % 1000) - y) % (Day * 1000) \in {0, 1000}
    <3>1. PICK e \in Nat : e = seconds_at_boot
      BY <1>1
    <3>2. s = RoundedFrom(e, x) /\ SoonAfter(x, y)
      BY <2>4, <2>5, <3>1 DEF RoundedFrom, SoonAfter
    <3>3. Gap(s, e, y) \in {0, 1000}
      BY <3>2, Nearly
    <3> QED
      BY <3>1, <3>3 DEF Gap
  <2>8. ShownNear'
    BY <2>1, <2>4, <2>6, <2>7 DEF ShownNear, SecondShown
  <2> QED
    BY <1>2, <2>1, <2>8 DEF Showing
<1> QED
  BY <1>3, <1>4, <1>5, <1>6

\* The clock begins with nothing shown.
LEMMA TimedInit == ClockInit => Timed
<1> SUFFICES ASSUME ClockInit PROVE Timed
  OBVIOUS
<1>1. /\ pitCount = 0 /\ ms_since_boot = 0 /\ calls = <<>> /\ ~updating /\ shown = Blank /\ lag = 0
  BY DEF ClockInit, CallbacksInit
<1>2. MsAt(0) = 0
  <2>1. 0 * PitCount * 1000 = 0
    BY PitFacts
  <2>2. 0 \div PitFreq = 0
    BY PitFacts
  <2> QED
    BY <2>1, <2>2 DEF MsAt
<1>3. lag \in 0..MaxLag
  BY <1>1, Bounds
<1> QED
  BY <1>1, <1>2, <1>3 DEF Timed

\* The time on the status bar is the time since boot or a second more, though
\* the timer goes on between the two looks updateClock takes at it, as long as
\* waitloop is done with its work within half a second.
THEOREM Shown == ASSUME Prompt PROVE ClockSpec => []ShownNear
<1> DEFINE Inv == Numbers /\ Showing
<1>1. ClockInit => Inv
  <2>1. ClockInit => ~updating /\ ShownNear
    BY DEF ClockInit, ShownNear
  <2> QED
    BY <2>1, BootingInit, TimedInit DEF Booting, Showing
<1>2. Inv /\ [ClockNext]_clockVars => Inv'
  BY NumbersNext, ShowingNext
<1>3. Inv => ShownNear
  BY DEF Showing
<1> QED
  BY <1>1, <1>2, <1>3, PTL DEF ClockSpec
----------------------------------------------------------------------------
(* The seconds go on.                                                       *)

\* A nonempty set of naturals has a least element.
LEMMA Least ==
    ASSUME NEW S, S \subseteq Nat, S # {}
    PROVE  \E x \in S : \A y \in S : x <= y
<1> DEFINE Less == {p \in Nat \X Nat : p[1] < p[2]}
<1>1. IsWellFoundedOn(Less, Nat)
  BY NatLessThanWellFounded DEF OpToRel, Less
<1>2. PICK x \in S : \A y \in S : ~ (<<y, x>> \in Less)
  BY <1>1, WFMin
<1>3. ASSUME NEW y \in S PROVE x <= y
  <2>1. x \in Nat /\ y \in Nat
    OBVIOUS
  <2>2. y < x => <<y, x>> \in Less
    BY <2>1
  <2> QED
    BY <1>2, <2>1, <2>2
<1> QED
  BY <1>3

\* One round of irq0_pit's loop.
Round(g, n) ==
    IF n = 0 THEN calls ELSE IF Due(pcs[n]) THEN Append(g[n - 1], pcs[n]) ELSE g[n - 1]

\* The loop does what its rounds do.
LEMMA QueuedRounds ==
    ASSUME pcs \in Seq(Wanted), calls \in Seq(Wanted)
    PROVE  \A n \in 0..Len(pcs) : Queued[n] = Round(Queued, n)
<1>1. PICK N \in Nat : N = Len(pcs)
  BY LenProperties
<1>2. \A n \in 1..N : pcs[n] \in Wanted
  BY <1>1, ElementOfSeq
<1> DEFINE Good(k) == \E g \in [0..k -> Seq(Wanted)] : \A n \in 0..k : g[n] = Round(g, n)
<1>3. Good(0)
  <2> DEFINE g == [n \in 0..0 |-> calls]
  <2>1. g \in [0..0 -> Seq(Wanted)] /\ \A n \in 0..0 : g[n] = Round(g, n)
    BY DEF Round
  <2> QED
    BY <2>1
<1>4. ASSUME NEW k \in 0..(N - 1), Good(k) PROVE Good(k + 1)
  <2>1. PICK g \in [0..k -> Seq(Wanted)] : \A n \in 0..k : g[n] = Round(g, n)
    BY <1>4
  <2> DEFINE h == [n \in 0..(k + 1) |-> IF n = k + 1 THEN Round(g, n) ELSE g[n]]
  <2>2. Round(g, k + 1) \in Seq(Wanted)
    <3>1. k + 1 \in 1..N /\ (k + 1) - 1 = k /\ k \in 0..k /\ k + 1 # 0
      BY <1>1
    <3>2. g[k] \in Seq(Wanted) /\ pcs[k + 1] \in Wanted
      BY <1>2, <2>1, <3>1
    <3>3. Append(g[k], pcs[k + 1]) \in Seq(Wanted)
      BY <3>2, AppendProperties
    <3> QED
      BY <3>1, <3>2, <3>3 DEF Round
  <2>3. h \in [0..(k + 1) -> Seq(Wanted)]
    <3>1. \A n \in 0..(k + 1) : n # k + 1 => n \in 0..k
      BY <1>1
    <3> QED
      BY <2>1, <2>2, <3>1
  <2>4. ASSUME NEW n \in 0..(k + 1) PROVE h[n] = Round(h, n)
    <3>1. n = 0 \/ (n - 1 \in 0..k /\ n - 1 \in 0..(k + 1) /\ n - 1 # k + 1)
      BY <1>1, <2>4
    <3>2. n = 0 \/ h[n - 1] = g[n - 1]
      BY <3>1
    <3>3. Round(h, n) = Round(g, n)
      BY <3>2 DEF Round
    <3>4. n = k + 1 \/ n \in 0..k
      BY <1>1, <2>4
    <3> QED
      BY <2>1, <3>3, <3>4
  <2> QED
    BY <2>3, <2>4
<1>5. Good(N)
  <2> HIDE DEF Good
  <2> DEFINE S == {k \in 0..N : ~Good(k)}
  <2> SUFFICES ASSUME ~Good(N) PROVE FALSE
    OBVIOUS
  <2>1. N \in S /\ S \subseteq Nat
    BY <1>1
  <2>2. PICK x \in S : \A y \in S : x <= y
    BY <2>1, Least
  <2>3. x # 0
    BY <1>3, <2>2
  <2>4. x - 1 \in 0..(N - 1) /\ (x - 1) + 1 = x /\ x - 1 \notin S /\ x - 1 \in 0..N
    BY <1>1, <2>2, <2>3
  <2>5. Good(x - 1)
    BY <2>4
  <2>6. Good((x - 1) + 1)
    BY <1>4, <2>4, <2>5
  <2> QED
    BY <2>2, <2>4, <2>6
<1>6. PICK g \in [0..N -> Seq(Wanted)] : \A n \in 0..N : g[n] = Round(g, n)
  BY <1>5
<1>7. g = [n \in 0..Len(pcs) |-> IF n = 0 THEN calls
                                 ELSE IF Due(pcs[n]) THEN Append(g[n - 1], pcs[n]) ELSE g[n - 1]]
  BY <1>1, <1>6 DEF Round
<1>8. Queued = [n \in 0..Len(pcs) |-> IF n = 0 THEN calls
                                      ELSE IF Due(pcs[n]) THEN Append(Queued[n - 1], pcs[n])
                                      ELSE Queued[n - 1]]
  BY <1>7 DEF Queued
<1>9. ASSUME NEW n \in 0..Len(pcs) PROVE Queued[n] = Round(Queued, n)
  BY <1>8 DEF Round
<1> QED
  BY <1>9

\* The elements of a sequence with one more.
LEMMA RangeAppend ==
    ASSUME NEW S, NEW s \in Seq(S), NEW c \in S
    PROVE  Append(s, c) \in Seq(S) /\ Range(Append(s, c)) = Range(s) \cup {c}
<1> DEFINE t == Append(s, c)
<1>1. PICK n \in Nat : n = Len(s) /\ DOMAIN s = 1..n
  BY LenProperties
<1>2. /\ t \in Seq(S) /\ Len(t) = n + 1 /\ t[n + 1] = c
      /\ \A i \in 1..n : t[i] = s[i]
  BY <1>1, AppendProperties
<1> HIDE DEF t
<1>3. DOMAIN t = 1..(n + 1)
  BY <1>2, LenProperties
<1>4. \A i \in 1..(n + 1) : i \in 1..n \/ i = n + 1
  BY <1>1
<1>5. n + 1 \in 1..(n + 1) /\ \A i \in 1..n : i \in 1..(n + 1)
  BY <1>1
<1>6. Range(t) = Range(s) \cup {c}
  BY <1>1, <1>2, <1>3, <1>4, <1>5 DEF Range
<1> QED
  BY <1>2, <1>6 DEF t

\* The elements of a sequence: its head, and those of its tail.
LEMMA RangeTail ==
    ASSUME NEW S, NEW s \in Seq(S), s # <<>>
    PROVE  /\ Tail(s) \in Seq(S) /\ Head(s) \in S
           /\ Range(s) = {Head(s)} \cup Range(Tail(s))
<1> DEFINE t == Tail(s)
<1>1. PICK n \in Nat \ {0} : n = Len(s) /\ DOMAIN s = 1..n
  BY EmptySeq, LenProperties
<1>2. /\ t \in Seq(S) /\ Len(t) = n - 1 /\ Head(s) \in S
      /\ \A i \in 1..(n - 1) : t[i] = s[i + 1]
  BY <1>1, HeadTailProperties
<1> HIDE DEF t
<1>3. DOMAIN t = 1..(n - 1)
  BY <1>2, LenProperties
<1>4. Head(s) = s[1]
  OBVIOUS
<1>5. Range(s) \subseteq {s[1]} \cup Range(t)
  <2> SUFFICES ASSUME NEW i \in 1..n PROVE s[i] \in {s[1]} \cup Range(t)
    BY <1>1 DEF Range
  <2>1. i = 1 \/ (i - 1 \in 1..(n - 1) /\ (i - 1) + 1 = i)
    BY <1>1
  <2>2. i = 1 \/ t[i - 1] = s[i]
    BY <1>2, <2>1
  <2> QED
    BY <1>3, <2>1, <2>2 DEF Range
<1>6. Range(t) \subseteq Range(s) /\ s[1] \in Range(s)
  <2>1. 1 \in 1..n
    OBVIOUS
  <2>2. ASSUME NEW i \in 1..(n - 1) PROVE t[i] \in Range(s)
    <3>1. i + 1 \in 1..n
      OBVIOUS
    <3> QED
      BY <1>1, <1>2, <3>1 DEF Range
  <2> QED
    BY <1>1, <1>3, <2>1, <2>2 DEF Range
<1> QED
  BY <1>2, <1>4, <1>5, <1>6 DEF t

\* What the loop queues: what was queued, and each callback that is due.
LEMMA QueuedFacts ==
    ASSUME pcs \in Seq(Wanted), calls \in Seq(Wanted)
    PROVE  /\ Queued[Len(pcs)] \in Seq(Wanted)
           /\ Range(Queued[Len(pcs)]) = Range(calls) \cup {c \in Registered : Due(c)}
<1>1. PICK N \in Nat : N = Len(pcs)
  BY LenProperties
<1>2. \A n \in 1..N : pcs[n] \in Wanted
  BY <1>1, ElementOfSeq
<1> DEFINE Some(n) == {c \in {pcs[i] : i \in 1..n} : Due(c)}
           Good(n) == Queued[n] \in Seq(Wanted) /\ Range(Queued[n]) = Range(calls) \cup Some(n)
<1>3. \A n \in 0..N : Queued[n] = Round(Queued, n)
  BY <1>1, QueuedRounds
<1>4. Good(0)
  <2>1. Queued[0] = calls
    BY <1>1, <1>3 DEF Round
  <2>2. Some(0) = {}
    OBVIOUS
  <2> QED
    BY <2>1, <2>2
<1>5. ASSUME NEW k \in 0..(N - 1), Good(k) PROVE Good(k + 1)
  <2>1. k + 1 \in 0..N /\ k + 1 \in 1..N /\ (k + 1) - 1 = k /\ k + 1 # 0
    BY <1>1
  <2>2. Queued[k + 1] = IF Due(pcs[k + 1]) THEN Append(Queued[k], pcs[k + 1]) ELSE Queued[k]
    BY <1>3, <2>1 DEF Round
  <2>3. {pcs[i] : i \in 1..(k + 1)} = {pcs[i] : i \in 1..k} \cup {pcs[k + 1]}
    <3>1. 1..(k + 1) = 1..k \cup {k + 1}
      BY <1>1
    <3> QED
      BY <3>1
  <2>4. Some(k + 1) = Some(k) \cup IF Due(pcs[k + 1]) THEN {pcs[k + 1]} ELSE {}
    BY <2>3
  <2>5. pcs[k + 1] \in Wanted
    BY <1>2, <2>1
  <2>6. Queued[k] \in Seq(Wanted) /\ Range(Queued[k]) = Range(calls) \cup Some(k)
    BY <1>5
  <2> HIDE DEF Some
  <2>7. CASE Due(pcs[k + 1])
    <3>1. /\ Append(Queued[k], pcs[k + 1]) \in Seq(Wanted)
          /\ Range(Append(Queued[k], pcs[k + 1])) = Range(Queued[k]) \cup {pcs[k + 1]}
      BY <2>5, <2>6, RangeAppend
    <3> QED
      BY <2>2, <2>4, <2>6, <2>7, <3>1
  <2>8. CASE ~Due(pcs[k + 1])
    BY <2>2, <2>4, <2>6, <2>8
  <2> QED
    BY <2>7, <2>8
<1>6. Good(N)
  <2> HIDE DEF Good
  <2> DEFINE S == {k \in 0..N : ~Good(k)}
  <2> SUFFICES ASSUME ~Good(N) PROVE FALSE
    OBVIOUS
  <2>1. N \in S /\ S \subseteq Nat
    BY <1>1
  <2>2. PICK x \in S : \A y \in S : x <= y
    BY <2>1, Least
  <2>3. x # 0
    BY <1>4, <2>2
  <2>4. x - 1 \in 0..(N - 1) /\ (x - 1) + 1 = x /\ x - 1 \notin S /\ x - 1 \in 0..N
    BY <1>1, <2>2, <2>3
  <2>5. Good(x - 1)
    BY <2>4
  <2>6. Good((x - 1) + 1)
    BY <1>5, <2>4, <2>5
  <2> QED
    BY <2>2, <2>4, <2>6
<1>7. Some(N) = {c \in Registered : Due(c)}
  BY <1>1 DEF Registered
<1> QED
  BY <1>1, <1>6, <1>7

\* updateClock has been queued and not taken up.
Calling == \E d \in Range(calls) : d.f = UpdateClock

\* The next call of updateClock comes no later than it should after tick t.
Fresh(t) ==
    \E c \in Registered :
        /\ c.f = UpdateClock
        /\ pitCount - t <= IF Calling THEN Interval(c) + lag ELSE since[c]

\* What is shown is the second of a tick since which updateClock has not been
\* called, or the one before the tick whose second it is about to show.
Going ==
    /\ calls \in Seq(Wanted) /\ Range(calls) \subseteq Registered
    /\ shown # Blank /\ ~updating =>
          \E t \in 0..pitCount : SecondShown(shown) = RoundedAt(t) /\ Fresh(t)
    /\ updating =>
          \E t \in 0..pitCount :
             /\ rtc_seconds = RoundedAt(t) /\ Fresh(t)
             /\ shown # Blank =>
                   \E u \in 0..t : t - u <= TickHz /\ SecondShown(shown) = RoundedAt(u)

\* updateClock is called, and its call taken up, within every second.
Frequent ==
    \A c \in Wanted :
        c.f = UpdateClock /\ c.count \in 1..TickHz => Interval(c) + MaxLag <= TickHz

\* A second that is rounded within a second of another is the same or the next.
LEMMA NextSecond ==
    ASSUME Numbers, NEW u \in Nat, NEW t \in Nat, u <= t, t - u <= TickHz
    PROVE  (RoundedAt(t) - RoundedAt(u)) % Day \in {0, 1}
<1>1. PICK n \in Nat : n = t - u /\ t = u + n /\ 1000 * n <= 1000 * TickHz
  <2>1. t - u \in Nat /\ t = u + (t - u) /\ 1000 * (t - u) <= 1000 * TickHz
    BY PitFacts
  <2> QED
    BY <2>1
<1>2. PICK x \in Nat, y \in Nat : x = MsAt(u) /\ y = MsAt(t) /\ x <= y /\ y <= x + 1000
  <2>1. PICK k \in Nat : k = 1000 /\ 1000 * n <= k * TickHz
    BY <1>1
  <2>2. /\ MsAt(u) \in Nat /\ MsAt(u + n) \in Nat
        /\ MsAt(u) <= MsAt(u + n) /\ MsAt(u + n) <= MsAt(u) + k
    <3>1. u \in Nat /\ n \in Nat /\ k \in Nat /\ 1000 * n <= k * TickHz
      BY <1>1, <2>1
    <3> QED
      BY ONLY <3>1, MsRise, Zenon
  <2> QED
    BY <1>1, <2>1, <2>2
<1>3. PICK p \in Nat, q \in Nat : p = (x + 500) \div 1000 /\ q = (y + 500) \div 1000 /\ q \in {p, p + 1}
  <2>1. /\ (x + 500) \div 1000 \in Nat /\ (y + 500) \div 1000 \in Nat
        /\ (y + 500) \div 1000 \in {(x + 500) \div 1000, (x + 500) \div 1000 + 1}
    BY <1>2
  <2> QED
    BY <2>1
<1>4. PICK w \in Nat : w = seconds_at_boot + p
  BY DEF Numbers
<1>5. RoundedAt(u) = w % 86400
  BY <1>2, <1>3, <1>4 DEF RoundedAt, Day
<1>6. RoundedAt(t) = w % 86400 \/ RoundedAt(t) = (w + 1) % 86400
  <2>1. RoundedAt(t) = (seconds_at_boot + q) % 86400
    BY <1>2, <1>3 DEF RoundedAt, Day
  <2>2. seconds_at_boot + q = w \/ seconds_at_boot + q = w + 1
    BY <1>3, <1>4 DEF Numbers
  <2> QED
    BY <2>1, <2>2
<1>7. ((w % 86400) - (w % 86400)) % 86400 = 0
  OBVIOUS
<1>8. (((w + 1) % 86400) - (w % 86400)) % 86400 = 1
  OBVIOUS
<1> QED
  BY <1>5, <1>6, <1>7, <1>8 DEF Day

\* What is known of a registered callback.
LEMMA RegisteredFacts ==
    ASSUME Counted, NEW c \in Registered
    PROVE  /\ c \in Wanted /\ c.count \in 1..TickHz
           /\ Interval(c) \in Nat \ {0} /\ since[c] \in Nat /\ since[c] + 1 <= Interval(c)
<1>1. PICK i \in 1..Len(pcs) : c = pcs[i]
  BY DEF Registered
<1>2. c \in Wanted /\ c.count \in 1..TickHz /\ since[c] <= pitCount % Interval(c)
  BY <1>1, ElementOfSeq DEF Counted
<1>3. PICK d \in Nat \ {0} : d = Interval(c)
  BY <1>2, IntervalFacts
<1>4. pitCount % d \in 0..(d - 1)
  BY <1>3, DivFacts DEF Counted
<1>5. since[c] \in Nat
  BY <1>2 DEF Counted
<1> QED
  BY <1>2, <1>3, <1>4, <1>5

\* No more than a second has passed when the call is taken up.
LEMMA FreshCalled ==
    ASSUME Frequent, Counted, Timed, NEW t \in 0..pitCount, Fresh(t), Calling
    PROVE  pitCount - t <= TickHz
<1>1. PICK c \in Registered : c.f = UpdateClock /\ pitCount - t <= Interval(c) + lag
  BY DEF Fresh
<1>2. c \in Wanted /\ c.count \in 1..TickHz /\ Interval(c) \in Nat
  BY RegisteredFacts
<1>3. Interval(c) + MaxLag <= TickHz
  BY <1>1, <1>2 DEF Frequent
<1>4. pitCount \in Nat /\ lag \in 0..MaxLag /\ MaxLag \in Nat /\ TickHz \in Nat
  BY Bounds, PitFacts DEF Timed
<1> QED
  BY <1>1, <1>2, <1>3, <1>4

\* A tick that is fresh stays so when nothing is queued or taken up.
LEMMA FreshStays ==
    ASSUME NEW t, Fresh(t), pitCount' = pitCount, Calling' <=> Calling, Calling => lag' = lag,
           Registered \subseteq Registered', \A c \in Registered : since'[c] = since[c]
    PROVE  Fresh(t)'
<1>1. PICK c \in Registered :
          c.f = UpdateClock /\ pitCount - t <= IF Calling THEN Interval(c) + lag ELSE since[c]
  BY DEF Fresh
<1>2. c \in Registered' /\ since'[c] = since[c]
  OBVIOUS
<1>3. pitCount' - t <= IF Calling' THEN Interval(c) + lag' ELSE since'[c]
  BY <1>1, <1>2
<1> QED
  BY <1>1, <1>2, <1>3 DEF Fresh, Interval

\* A tick makes a fresh one no older than it may be.
LEMMA FreshTicks ==
    ASSUME Counted, Timed, Going, Ticks, NEW t \in 0..pitCount, Fresh(t)
    PROVE  Fresh(t)'
<1>1. PICK c \in Registered :
          c.f = UpdateClock /\ pitCount - t <= IF Calling THEN Interval(c) + lag ELSE since[c]
  BY DEF Fresh
<1>2. /\ c \in Wanted /\ Interval(c) \in Nat \ {0} /\ since[c] \in Nat /\ since[c] + 1 <= Interval(c)
  BY RegisteredFacts
<1>3. pitCount \in Nat /\ t \in Nat /\ lag \in Nat /\ lag' \in Nat
  <2>1. Timed'
    BY TimedNext DEF ClockNext
  <2> QED
    BY <2>1, Bounds DEF Timed
<1>4. /\ pcs' = pcs /\ pitCount' = pitCount + 1 /\ calls' = Queued[Len(pcs)]
      /\ (calls # <<>> => lag' = lag + 1)
      /\ since'[c] = IF Due(c) THEN 0 ELSE since[c] + 1
  BY <1>2 DEF Ticks, Tick
<1>5. Range(calls') = Range(calls) \cup {d \in Registered : Due(d)}
  BY <1>4, QueuedFacts DEF Counted, Going
<1>6. c \in Registered'
  BY <1>4 DEF Registered
<1>7. Calling' <=> \E d \in Range(calls') : d.f = UpdateClock
  BY DEF Calling
<1>8. pitCount' - t <= IF Calling' THEN Interval(c) + lag' ELSE since'[c]
  <2>1. CASE Calling
    <3>1. calls # <<>>
      <4>1. Range(<<>>) = {}
        BY DEF Range
      <4> QED
        BY <2>1, <4>1 DEF Calling
    <3>2. Calling'
      BY <1>5, <1>7, <2>1 DEF Calling
    <3> QED
      BY <1>1, <1>2, <1>3, <1>4, <2>1, <3>1, <3>2
  <2>2. CASE ~Calling /\ Calling'
    BY <1>1, <1>2, <1>3, <1>4, <2>2
  <2>3. CASE ~Calling'
    <3>1. ~Calling /\ ~Due(c)
      BY <1>1, <1>5, <1>7, <2>3 DEF Calling
    <3> QED
      BY <1>1, <1>2, <1>3, <1>4, <2>3, <3>1
  <2> QED
    BY <2>1, <2>2, <2>3
<1> QED
  BY <1>1, <1>6, <1>8 DEF Fresh, Interval

\* Registering, counting, calling and showing.
LEMMA GoingNext ==
    ASSUME Frequent, Numbers, Counted, Timed, Going, [ClockNext]_clockVars
    PROVE  Going'
<1>1. /\ calls \in Seq(Wanted) /\ Range(calls) \subseteq Registered /\ pcs \in Seq(Wanted)
      /\ pitCount \in Nat
      /\ (~synced => calls = <<>> /\ ~updating /\ shown = Blank)
  BY DEF Going, Counted, Timed
<1>2. Timed' /\ Counted'
  BY TimedNext, CountedNext
<1>3. CASE ~(Ticks \/ RunCallback \/ Show)
  <2>1. /\ pitCount' = pitCount /\ calls' = calls /\ rtc_seconds' = rtc_seconds
        /\ updating' = updating /\ shown' = shown /\ lag' = lag
        /\ (synced => seconds_at_boot' = seconds_at_boot)
    BY <1>3, AtBoot DEF showVars
  <2>2. Registered \subseteq Registered' /\ \A c \in Registered : since'[c] = since[c]
    <3>1. ASSUME NEW d \in Wanted, RegisterPeriodicCallback(d)
          PROVE  Registered \subseteq Registered' /\ \A c \in Registered : since'[c] = since[c]
      <4>1. /\ pcs' = Append(pcs, d) /\ d \notin Registered /\ since' = [since EXCEPT ![d] = 0]
        BY <3>1 DEF RegisterPeriodicCallback
      <4>2. PICK n \in Nat : n = Len(pcs)
        BY <1>1, LenProperties
      <4>3. Len(pcs') = n + 1 /\ \A i \in 1..n : pcs'[i] = pcs[i]
        BY <1>1, <4>1, <4>2, AppendProperties
      <4>4. \A i \in 1..n : i \in 1..(n + 1)
        OBVIOUS
      <4>5. Registered \subseteq Registered'
        BY <4>2, <4>3, <4>4 DEF Registered
      <4>6. ASSUME NEW c \in Registered PROVE since'[c] = since[c]
        <5>1. c # d /\ c \in Wanted
          BY <4>1, <4>6, RegisteredFacts
        <5> QED
          BY <4>1, <5>1 DEF Counted
      <4> QED
        BY <4>5, <4>6
    <3>2. CASE UNCHANGED <<pcs, since>>
      BY <3>2 DEF Registered
    <3>3. Registers => \E d \in Wanted : RegisterPeriodicCallback(d)
      BY DEF Registers
    <3>4. CmosTick \/ ReadA \/ ReadB \/ Compare \/ UNCHANGED clockVars => UNCHANGED <<pcs, since>>
      BY DEF CmosTick, ReadA, ReadB, Compare, clockVars, callbackVars
    <3> QED
      BY <1>3, <3>1, <3>2, <3>3, <3>4 DEF ClockNext
  <2>3. calls' \in Seq(Wanted) /\ Range(calls') \subseteq Registered'
    BY <1>1, <2>1, <2>2
  <2>4. CASE synced
    <3>1. \A n : RoundedAt(n)' = RoundedAt(n)
      BY <2>1, <2>4, SameRounded
    <3>2. \A t : Fresh(t) => Fresh(t)'
      <4>1. Calling' <=> Calling
        BY <2>1 DEF Calling
      <4> QED
        BY <2>1, <2>2, <4>1, FreshStays
    <3>3. ASSUME shown' # Blank, ~updating'
          PROVE  \E t \in 0..pitCount' : SecondShown(shown') = RoundedAt(t)' /\ Fresh(t)'
      BY <2>1, <3>1, <3>2, <3>3 DEF Going
    <3>4. ASSUME updating'
          PROVE  \E t \in 0..pitCount' :
                    /\ rtc_seconds' = RoundedAt(t)' /\ Fresh(t)'
                    /\ shown' # Blank => \E u \in 0..t : t - u <= TickHz /\ SecondShown(shown') = RoundedAt(u)'
      <4>1. PICK t \in 0..pitCount :
                /\ rtc_seconds = RoundedAt(t) /\ Fresh(t)
                /\ shown # Blank => \E u \in 0..t : t - u <= TickHz /\ SecondShown(shown) = RoundedAt(u)
        BY <2>1, <3>4 DEF Going
      <4> QED
        BY <2>1, <3>1, <3>2, <4>1
    <3> QED
      BY <2>3, <3>3, <3>4 DEF Going, SecondShown
  <2>5. CASE ~synced
    <3>1. ~updating' /\ shown' = Blank
      BY <1>1, <2>1, <2>5
    <3> QED
      BY <2>3, <3>1 DEF Going
  <2> QED
    BY <2>4, <2>5
<1>4. CASE Ticks
  <2>1. /\ seconds_at_boot' = seconds_at_boot /\ rtc_seconds' = rtc_seconds
        /\ updating' = updating /\ shown' = shown /\ pitCount' = pitCount + 1
        /\ pcs' = pcs /\ calls' = Queued[Len(pcs)]
    BY <1>4 DEF Ticks, Tick, bootVars
  <2>2. calls' \in Seq(Wanted) /\ Range(calls') \subseteq Registered'
    <3>1. /\ Queued[Len(pcs)] \in Seq(Wanted)
          /\ Range(Queued[Len(pcs)]) = Range(calls) \cup {c \in Registered : Due(c)}
      BY <1>1, QueuedFacts
    <3>2. Registered' = Registered
      BY <2>1 DEF Registered
    <3> QED
      BY <1>1, <2>1, <3>1, <3>2
  <2>3. \A n : RoundedAt(n)' = RoundedAt(n)
    BY <2>1, SameRounded
  <2>4. \A t \in 0..pitCount : t \in 0..pitCount' /\ (Fresh(t) => Fresh(t)')
    BY <1>1, <1>4, <2>1, FreshTicks
  <2>5. ASSUME shown' # Blank, ~updating'
        PROVE  \E t \in 0..pitCount' : SecondShown(shown') = RoundedAt(t)' /\ Fresh(t)'
    <3>1. PICK t \in 0..pitCount : SecondShown(shown) = RoundedAt(t) /\ Fresh(t)
      BY <2>1, <2>5 DEF Going
    <3> QED
      BY <2>1, <2>3, <2>4, <3>1
  <2>6. ASSUME updating'
        PROVE  \E t \in 0..pitCount' :
                  /\ rtc_seconds' = RoundedAt(t)' /\ Fresh(t)'
                  /\ shown' # Blank => \E u \in 0..t : t - u <= TickHz /\ SecondShown(shown') = RoundedAt(u)'
    <3>1. PICK t \in 0..pitCount :
              /\ rtc_seconds = RoundedAt(t) /\ Fresh(t)
              /\ shown # Blank => \E u \in 0..t : t - u <= TickHz /\ SecondShown(shown) = RoundedAt(u)
      BY <2>1, <2>6 DEF Going
    <3> QED
      BY <2>1, <2>3, <2>4, <3>1
  <2> QED
    BY <2>2, <2>5, <2>6 DEF Going, SecondShown
<1>5. CASE RunCallback
  <2>1. /\ seconds_at_boot' = seconds_at_boot /\ calls # <<>> /\ calls' = Tail(calls)
        /\ shown' = shown /\ pitCount' = pitCount /\ pcs' = pcs /\ since' = since /\ ~updating
        /\ lag' = IF calls' = <<>> /\ ~updating' THEN 0 ELSE lag
    BY <1>5 DEF RunCallback, bootVars
  <2>2. /\ Tail(calls) \in Seq(Wanted) /\ Head(calls) \in Wanted
        /\ Range(calls) = {Head(calls)} \cup Range(Tail(calls))
    BY <1>1, <2>1, RangeTail
  <2>3. calls' \in Seq(Wanted) /\ Range(calls') \subseteq Registered' /\ Registered' = Registered
    BY <1>1, <2>1, <2>2 DEF Registered
  <2>4. \A n : RoundedAt(n)' = RoundedAt(n)
    BY <2>1, SameRounded
  <2>5. shown # Blank => \E t \in 0..pitCount : SecondShown(shown) = RoundedAt(t) /\ Fresh(t)
    BY <2>1 DEF Going
  <2>6. CASE Head(calls).f = UpdateClock
    <3>1. updating' /\ rtc_seconds' = Rounded /\ Rounded = RoundedAt(pitCount)
      BY <1>5, <2>6 DEF RunCallback, Rounded, RoundedAt, Timed
    <3>2. Calling /\ Head(calls) \in Registered'
      BY <1>1, <2>2, <2>3, <2>6 DEF Calling
    <3>3. Fresh(pitCount)'
      <4>1. PICK c \in Registered' : c.f = UpdateClock
        BY <2>6, <3>2
      <4>2. Interval(c) \in Nat /\ since'[c] \in Nat
        BY <1>2, <2>1, <2>3, <4>1, RegisteredFacts
      <4>3. pitCount' - pitCount' = 0 /\ lag' \in Nat
        BY <1>1, <1>2, <2>1, Bounds DEF Timed
      <4>4. pitCount' - pitCount' <= IF Calling' THEN Interval(c) + lag' ELSE since'[c]
        BY <4>2, <4>3
      <4> QED
        BY <4>1, <4>4 DEF Fresh, Interval
    <3>4. ASSUME shown' # Blank
          PROVE  \E u \in 0..pitCount : pitCount - u <= TickHz /\ SecondShown(shown') = RoundedAt(u)'
      <4>1. PICK u \in 0..pitCount : SecondShown(shown) = RoundedAt(u) /\ Fresh(u)
        BY <2>1, <2>5, <3>4
      <4>2. pitCount - u <= TickHz
        BY <3>2, <4>1, FreshCalled
      <4> QED
        BY <2>1, <2>4, <4>1, <4>2
    <3>5. PICK t \in Nat : t = pitCount
      BY <1>1
    <3>6. t \in 0..pitCount' /\ rtc_seconds' = RoundedAt(t)' /\ Fresh(t)'
      BY <2>1, <2>4, <3>1, <3>3, <3>5 DEF Fresh
    <3> QED
      BY <2>3, <3>1, <3>4, <3>5, <3>6 DEF Going, SecondShown
  <2>7. CASE Head(calls).f # UpdateClock
    <3>1. ~updating'
      BY <1>5, <2>7 DEF RunCallback
    <3>2. Calling' <=> Calling
      BY <2>1, <2>2, <2>7 DEF Calling
    <3>3. Calling => lag' = lag
      <4>1. Range(<<>>) = {}
        BY DEF Range
      <4> QED
        BY <2>1, <3>2, <4>1 DEF Calling
    <3>4. \A t : Fresh(t) => Fresh(t)'
      BY <2>1, <2>3, <3>2, <3>3, FreshStays
    <3> QED
      BY <2>1, <2>3, <2>4, <2>5, <3>1, <3>4 DEF Going, SecondShown
  <2> QED
    BY <2>6, <2>7
<1>6. CASE Show
  <2>1. /\ seconds_at_boot' = seconds_at_boot /\ calls' = calls /\ updating /\ ~updating'
        /\ pitCount' = pitCount /\ pcs' = pcs /\ since' = since
        /\ lag' = IF calls = <<>> THEN 0 ELSE lag
    BY <1>6 DEF Show, bootVars, callbackVars
  <2>2. PICK t \in 0..pitCount : rtc_seconds = RoundedAt(t) /\ Fresh(t)
    BY <2>1 DEF Going
  <2>3. SecondShown(shown') = RoundedAt(t)
    <3>1. t \in Nat /\ ms_since_boot \in Nat
      BY <1>1, RoundedType DEF Timed
    <3>2. rtc_seconds \in Nat /\ rtc_seconds < Day
      BY <2>2, <3>1, RoundedType
    <3> QED
      BY <1>6, <2>2, <3>1, <3>2, ShowsSeconds
  <2>4. RoundedAt(t)' = RoundedAt(t)
    BY <2>1, SameRounded
  <2>5. Registered' = Registered /\ (Calling' <=> Calling)
    BY <2>1 DEF Registered, Calling
  <2>6. Calling => lag' = lag
    <3>1. Range(<<>>) = {}
      BY DEF Range
    <3> QED
      BY <2>1, <3>1 DEF Calling
  <2>7. Fresh(t)'
    BY <2>1, <2>2, <2>5, <2>6, FreshStays
  <2> QED
    BY <1>1, <2>1, <2>2, <2>3, <2>4, <2>5, <2>7 DEF Going, SecondShown
<1> QED
  BY <1>3, <1>4, <1>5, <1>6

\* The second on the status bar stays or goes on by one from each showing to the
\* next, past noon and midnight, for any frequencies and whatever else is called,
\* as long as updateClock is called and its call taken up within every second.
THEOREM SecondBySecond == ASSUME Frequent PROVE ClockSpec => SecondsGoOn
<1> DEFINE Inv == Numbers /\ Counted /\ Timed /\ Going
<1>1. ClockInit => Inv
  <2> SUFFICES ASSUME ClockInit PROVE Inv
    OBVIOUS
  <2>1. Numbers /\ Timed /\ Counted
    BY CountedInit, TimedInit, BootingInit DEF Booting
  <2>2. calls = <<>> /\ ~updating /\ shown = Blank
    BY DEF ClockInit, CallbacksInit
  <2>3. calls \in Seq(Wanted) /\ Range(calls) = {}
    BY <2>2, EmptySeq DEF Range
  <2> QED
    BY <2>1, <2>2, <2>3 DEF Going
<1>2. Inv /\ [ClockNext]_clockVars => Inv'
  BY NumbersNext, CountedNext, TimedNext, GoingNext
<1>3. Inv /\ [ClockNext]_clockVars
         => [shown # Blank => (SecondShown(shown') - SecondShown(shown)) % Day \in {0, 1}]_shown
  <2> SUFFICES ASSUME Inv, [ClockNext]_clockVars, shown' # shown, shown # Blank
               PROVE  (SecondShown(shown') - SecondShown(shown)) % Day \in {0, 1}
    OBVIOUS
  <2>1. Show
    <3>1. Ticks \/ RunCallback => shown' = shown
      BY DEF Ticks, RunCallback
    <3> QED
      BY <3>1, AtBoot DEF showVars
  <2>2. PICK t \in 0..pitCount :
            /\ rtc_seconds = RoundedAt(t)
            /\ \E u \in 0..t : t - u <= TickHz /\ SecondShown(shown) = RoundedAt(u)
    BY <2>1 DEF Show, Going
  <2>3. PICK u \in 0..t : t - u <= TickHz /\ SecondShown(shown) = RoundedAt(u)
    BY <2>2
  <2>4. t \in Nat /\ u \in Nat /\ u <= t /\ ms_since_boot \in Nat
    BY RoundedType DEF Timed
  <2>5. SecondShown(shown') = RoundedAt(t)
    BY <2>1, <2>2, <2>4, RoundedType, ShowsSeconds
  <2> QED
    BY <2>3, <2>4, <2>5, NextSecond
<1> QED
  BY <1>1, <1>2, <1>3, PTL DEF ClockSpec, SecondsGoOn

=============================================================================
