---------------------------- MODULE FormatProofs ----------------------------
(***************************************************************************)
(* What M_vsprintf writes lies in its buffer, for every format, all        *)
(* arguments and buffers of any size; and it is what the pieces of the     *)
(* format should become.                                                   *)
(***************************************************************************)
EXTENDS Format, SequenceTheorems, WellFoundedInduction, TLAPS

----------------------------------------------------------------------------
(* Texts: sequences of whatever characters.                                 *)

IsText(t) == \E S : t \in Seq(S)

LEMMA TextLen ==
    ASSUME NEW t, IsText(t)
    PROVE  Len(t) \in Nat
  BY DEF IsText

LEMMA Joined ==
    ASSUME NEW t, NEW u, IsText(t), IsText(u)
    PROVE  IsText(t \o u) /\ Len(t \o u) = Len(t) + Len(u)
<1>1. PICK S : t \in Seq(S)
  BY DEF IsText
<1>2. PICK U : u \in Seq(U)
  BY DEF IsText
<1>3. t \in Seq(S \cup U) /\ u \in Seq(S \cup U)
  BY <1>1, <1>2
<1>4. t \o u \in Seq(S \cup U) /\ Len(t \o u) = Len(t) + Len(u)
  BY <1>3
<1> QED
  BY <1>4 DEF IsText

LEMMA Spelled ==
    ASSUME NEW n \in Nat, NEW t, t = [j \in 1..n |-> t[j]]
    PROVE  IsText(t) /\ Len(t) = n
<1> DEFINE S == {t[j] : j \in 1..n}
<1>1. t \in [1..n -> S]
  OBVIOUS
<1>2. t \in Seq(S) /\ Len(t) = n
  BY <1>1
<1> QED
  BY <1>2 DEF IsText

\* Up to three characters are a text.
LEMMA NoText == IsText(<<>>) /\ Len(<<>>) = 0
<1>1. <<>> \in Seq({})
  OBVIOUS
<1> QED
  BY <1>1 DEF IsText

LEMMA Few ==
    ASSUME NEW a, NEW b, NEW c
    PROVE  /\ IsText(<<a>>) /\ Len(<<a>>) <= 3
           /\ IsText(<<a, b>>) /\ Len(<<a, b>>) <= 3
           /\ IsText(<<a, b, c>>) /\ Len(<<a, b, c>>) <= 3
<1> DEFINE S == {a, b, c}
<1>1. <<a>> \in Seq(S) /\ <<a, b>> \in Seq(S) /\ <<a, b, c>> \in Seq(S)
  OBVIOUS
<1>2. Len(<<a>>) <= 3 /\ Len(<<a, b>>) <= 3 /\ Len(<<a, b, c>>) <= 3
  OBVIOUS
<1> HIDE DEF S
<1>3. IsText(<<a>>) /\ IsText(<<a, b>>) /\ IsText(<<a, b, c>>)
  BY ONLY <1>1, Zenon DEF IsText
<1> QED
  BY <1>2, <1>3

LEMMA Cut ==
    ASSUME NEW t, IsText(t), NEW k \in 1..Len(t)
    PROVE  IsText(SubSeq(t, k, Len(t))) /\ Len(SubSeq(t, k, Len(t))) = Len(t) - k + 1
<1>1. PICK S : t \in Seq(S)
  BY DEF IsText
<1>2. SubSeq(t, k, Len(t)) \in Seq(S) /\ Len(SubSeq(t, k, Len(t))) = Len(t) - k + 1
  BY <1>1
<1> QED
  BY <1>2 DEF IsText

----------------------------------------------------------------------------
(* The arguments of a format.                                               *)

\* A set of numbers that is not empty has a least one.
LEMMA Least ==
    ASSUME NEW T, T \subseteq Nat, T # {}
    PROVE  \E n \in T : \A m \in T : n <= m
<1>1. PICK n \in T : \A m \in T : <<m, n>> \notin OpToRel(<, Nat)
  BY NatLessThanWellFounded, WFMin
<1>2. ASSUME NEW m \in T PROVE n <= m
  <2>1. ~(m < n)
    BY <1>1 DEF OpToRel
  <2> QED
    BY <2>1
<1> QED
  BY <1>2

\* g joins the sequences of q one after the other, up to the n-th.
Joins(q, n, g) ==
    g = [i \in 1..n |-> IF i = 1 THEN q[i] ELSE g[i - 1] \o q[i]]

LEMMA JoinsExists ==
    ASSUME NEW q, NEW N \in Nat
    PROVE  \E g : Joins(q, N, g)
<1> DEFINE Bad == {n \in Nat : ~ \E g : Joins(q, n, g)}
<1> SUFFICES ASSUME Bad # {} PROVE FALSE
  OBVIOUS
<1>1. PICK n \in Bad : \A m \in Bad : n <= m
  BY Least
<1>2. n \in Nat /\ ~ \E g : Joins(q, n, g)
  BY <1>1
<1>3. CASE n = 0
  <2>1. Joins(q, 0, [i \in 1..0 |-> q[i]])
    BY DEF Joins
  <2> QED
    BY <1>2, <1>3, <2>1
<1>4. CASE n # 0
  <2>1. n - 1 \in Nat /\ n - 1 \notin Bad
    BY <1>1, <1>2, <1>4
  <2>2. PICK g : Joins(q, n - 1, g)
    BY <2>1
  <2> DEFINE h == [i \in 1..n |-> IF i < n THEN g[i] ELSE IF i = 1 THEN q[i] ELSE g[i - 1] \o q[i]]
  <2>3. ASSUME NEW i \in 1..n
        PROVE  h[i] = IF i = 1 THEN q[i] ELSE h[i - 1] \o q[i]
    <3>1. CASE i < n
      <4>1. i \in 1..(n - 1)
        BY <1>2, <3>1
      <4>2. g[i] = IF i = 1 THEN q[i] ELSE g[i - 1] \o q[i]
        BY <2>2, <4>1 DEF Joins
      <4>3. h[i] = g[i] /\ (i # 1 => h[i - 1] = g[i - 1])
        BY <1>2, <3>1
      <4> QED
        BY <4>2, <4>3
    <3>2. CASE i = n
      <4>1. i # 1 => h[i - 1] = g[i - 1]
        BY <1>2, <3>2
      <4>2. h[i] = IF i = 1 THEN q[i] ELSE g[i - 1] \o q[i]
        BY <1>2, <3>2
      <4> QED
        BY <4>1, <4>2
    <3> QED
      BY <1>2, <3>1, <3>2
  <2>4. Joins(q, n, h)
    BY <2>3 DEF Joins
  <2> QED
    BY <1>2, <2>4
<1> QED
  BY <1>3, <1>4

LEMMA JoinsTyped ==
    ASSUME NEW A, NEW q, NEW N \in Nat, \A i \in 1..N : q[i] \in Seq(A),
           NEW g, Joins(q, N, g)
    PROVE  \A i \in 1..N : g[i] \in Seq(A)
<1> DEFINE Bad == {i \in 1..N : g[i] \notin Seq(A)}
<1> SUFFICES ASSUME Bad # {} PROVE FALSE
  OBVIOUS
<1>1. PICK i \in Bad : \A j \in Bad : i <= j
  <2>1. Bad \subseteq Nat
    OBVIOUS
  <2> QED
    BY <2>1, Least
<1>2. i \in 1..N /\ g[i] \notin Seq(A)
  BY <1>1
<1>3. g[i] = IF i = 1 THEN q[i] ELSE g[i - 1] \o q[i]
  BY <1>2 DEF Joins
<1>4. CASE i = 1
  BY <1>2, <1>3, <1>4
<1>5. CASE i # 1
  <2>1. i - 1 \in 1..N /\ i - 1 \notin Bad
    BY <1>1, <1>2, <1>5
  <2>2. g[i - 1] \in Seq(A)
    BY <2>1
  <2> QED
    BY <1>2, <1>3, <1>5, <2>2
<1> QED
  BY <1>4, <1>5

LEMMA Flattened ==
    ASSUME NEW A, NEW q \in Seq(Seq(A))
    PROVE  FlattenSeq(q) \in Seq(A)
<1>1. CASE Len(q) = 0
  <2>1. FlattenSeq(q) = q /\ q = <<>>
    BY <1>1 DEF FlattenSeq
  <2> QED
    BY <2>1
<1>2. CASE Len(q) # 0
  <2> DEFINE f == CHOOSE g : g = [i \in 1..Len(q) |-> IF i = 1 THEN q[i] ELSE g[i - 1] \o q[i]]
  <2>1. f = [i \in 1..Len(q) |-> IF i = 1 THEN q[i] ELSE f[i - 1] \o q[i]]
    <3>1. \E g : g = [i \in 1..Len(q) |-> IF i = 1 THEN q[i] ELSE g[i - 1] \o q[i]]
      BY JoinsExists, Len(q) \in Nat DEF Joins
    <3> QED
      BY <3>1
  <2>2. Joins(q, Len(q), f)
    BY <2>1 DEF Joins
  <2>3. \A i \in 1..Len(q) : f[i] \in Seq(A)
    BY <2>2, JoinsTyped, Len(q) \in Nat, \A i \in 1..Len(q) : q[i] \in Seq(A)
  <2>4. FlattenSeq(q) = f[Len(q)]
    BY <1>2 DEF FlattenSeq
  <2>5. Len(q) \in 1..Len(q)
    BY <1>2, Len(q) \in Nat
  <2> HIDE DEF f
  <2> QED
    BY <2>3, <2>4, <2>5
<1> QED
  BY <1>1, <1>2
LEMMA ArgsTyped ==
    ASSUME NEW n \in Nat, pieces \in [1..n -> Pieces]
    PROVE  Args \in Seq(Arguments)
<1>1. Len(pieces) = n
  OBVIOUS
<1> DEFINE q == [k \in 1..n |-> pieces[k].args]
<1>2. q \in Seq(Seq(Arguments))
  BY FormatAssumption DEF FormatAssumption
<1> HIDE DEF q
<1>3. FlattenSeq(q) \in Seq(Arguments)
  BY <1>2, Flattened
<1>4. Args = FlattenSeq(q)
  BY <1>1 DEF Args, q
<1> QED
  BY <1>3, <1>4

----------------------------------------------------------------------------
(* What a conversion writes.                                                *)

LEMMA DigitsText ==
    ASSUME NEW c \in {"u", "h"}, NEW n
    PROVE  IsText(Digits(c, n)) /\ Len(Digits(c, n)) = Places[c] /\ Places[c] \in Nat \ {0}
<1>1. Places[c] \in Nat \ {0}
  BY FormatAssumption DEF FormatAssumption
<1> DEFINE t == Digits(c, n)
<1>2. t = [j \in 1..Places[c] |-> t[j]]
  BY DEF Digits
<1> HIDE DEF t
<1>3. IsText(t) /\ Len(t) = Places[c]
  BY <1>1, <1>2, Spelled
<1> QED
  BY <1>1, <1>3 DEF t

\* A text that is not empty keeps its last digit.
LEMMA StrippedText ==
    ASSUME NEW t, IsText(t), Len(t) # 0
    PROVE  IsText(Stripped(t)) /\ Len(Stripped(t)) \in 1..Len(t)
<1> DEFINE Kept == {k \in 1..Len(t) : k = Len(t) \/ t[k] # "0"}
           First(k) == /\ k = Len(t) \/ t[k] # "0"
                       /\ \A j \in 1..(k - 1) : t[j] = "0"
           m == CHOOSE k \in 1..Len(t) : First(k)
<1>1. Len(t) \in Nat
  BY TextLen
<1>2. PICK k \in Kept : \A j \in Kept : k <= j
  <2>1. Kept \subseteq Nat /\ Len(t) \in Kept
    BY <1>1
  <2> HIDE DEF Kept
  <2> QED
    BY <2>1, Least
<1>3. First(k)
  BY <1>1, <1>2
<1>4. m \in 1..Len(t)
  BY <1>2, <1>3
<1>5. Stripped(t) = SubSeq(t, m, Len(t))
  BY DEF Stripped
<1> HIDE DEF m
<1>6. IsText(Stripped(t)) /\ Len(Stripped(t)) = Len(t) - m + 1
  BY <1>4, <1>5, Cut
<1> QED
  BY <1>1, <1>4, <1>6

LEMMA TextTyped ==
    ASSUME NEW c, NEW arg \in Arguments
    PROVE  IsText(Text(c, arg))
<1>1. CASE c \notin {"u", "h"}
  <2>1. arg.text \in Seq(STRING)
    BY FormatAssumption DEF FormatAssumption
  <2> QED
    BY <1>1, <2>1 DEF Text, IsText
<1>2. CASE c \in {"u", "h"}
  <2>1. IsText(Digits(c, arg.n)) /\ Len(Digits(c, arg.n)) # 0
    BY <1>2, DigitsText
  <2>2. IsText(Stripped(Digits(c, arg.n)))
    BY <2>1, StrippedText
  <2> QED
    BY <1>2, <2>1, <2>2 DEF Text
<1> QED
  BY <1>1, <1>2

LEMMA WrittenTyped ==
    ASSUME NEW c, NEW arg \in Arguments, padw \in Nat
    PROVE  IsText(InWidth(c, arg)) /\ Fill(c, arg) \in Nat
<1>1. IsText(Text(c, arg)) /\ Len(Text(c, arg)) \in Nat
  BY TextTyped, TextLen
<1>2. Fill(c, arg) \in Nat
  BY <1>1 DEF Fill
<1>3. CASE padw > 0 /\ padw < Len(Text(c, arg))
  <2> DEFINE k == Len(Text(c, arg)) - padw + 1
  <2>1. k \in 1..Len(Text(c, arg))
    BY <1>1, <1>3
  <2> HIDE DEF k
  <2>2. IsText(SubSeq(Text(c, arg), k, Len(Text(c, arg))))
    BY <1>1, <2>1, Cut
  <2> QED
    BY <1>1, <1>2, <2>2 DEF InWidth, k
<1>4. CASE ~(padw > 0 /\ padw < Len(Text(c, arg)))
  BY <1>1, <1>2, <1>4 DEF InWidth
<1> QED
  BY <1>3, <1>4

----------------------------------------------------------------------------
(* The loop.                                                                *)

\* A growing buffer keeps at least four characters, so that doubling it is
\* enough for what the top of the loop asks for.
FormatInv ==
    /\ ap \in Seq(Arguments)
    /\ IsText(s)
    /\ s_cap \in Nat
    /\ padw \in Nat
    /\ dyn \in BOOLEAN
    /\ dyn => s_cap >= 4
    /\ ZeroFits

LEMMA InitSound == FormatInit => FormatInv
<1> SUFFICES ASSUME FormatInit PROVE FormatInv
  OBVIOUS
<1>1. PICK n \in 1..MaxPieces : pieces \in [1..n -> Pieces]
  BY DEF FormatInit
<1>2. n \in Nat
  BY <1>1, FormatAssumption DEF FormatAssumption
<1>3. ap \in Seq(Arguments)
  BY <1>1, <1>2, ArgsTyped DEF FormatInit
<1>4. IsText(s) /\ Len(s) = 0
  BY NoText DEF FormatInit
<1>5. /\ s_cap \in Nat \ {0}
      /\ dyn \in BOOLEAN
      /\ dyn => s_cap >= 4
      /\ padw \in Nat
  <2>1. CASE dyn = TRUE /\ s_cap = Cap0
    <3>1. Cap0 \in Nat /\ Cap0 >= 4
      BY FormatAssumption DEF FormatAssumption
    <3>2. s_cap \in Nat \ {0} /\ s_cap >= 4
      BY <2>1, <3>1
    <3> QED
      BY <2>1, <3>2 DEF FormatInit
  <2>2. CASE dyn = FALSE /\ s_cap \in FixedCaps
    BY <2>2, FormatAssumption DEF FormatAssumption, FormatInit
  <2> QED
    BY <2>1, <2>2 DEF FormatInit
<1> QED
  BY <1>3, <1>4, <1>5 DEF FormatInv, ZeroFits

\* At the top of the loop there is room for three characters and a zero.
LEMMA RoomMade ==
    ASSUME FormatInv, InLoop
    PROVE  /\ CapNow \in Nat /\ CapNow >= s_cap
           /\ CapNow - Len(s) >= 4
<1>1. Len(s) \in Nat
  BY TextLen DEF FormatInv
<1> QED
  BY <1>1 DEF FormatInv, ZeroFits, InLoop, CapNow, Room

LEMMA LiterallyFits ==
    ASSUME FormatInv, InLoop, NEW chars, IsText(chars), Len(chars) <= 3, NEW k,
           Literally(chars, k)
    PROVE  IsText(s') /\ s_cap' \in Nat /\ s_cap' >= s_cap /\ ZeroFits'
<1>1. Len(s) \in Nat /\ Len(chars) \in Nat
  BY TextLen DEF FormatInv
<1>2. IsText(s \o chars) /\ Len(s \o chars) = Len(s) + Len(chars)
  BY Joined DEF FormatInv
<1>3. CapNow \in Nat /\ CapNow >= s_cap /\ CapNow - Len(s) >= 4
  BY RoomMade
<1>4. s' = s \o chars /\ s_cap' = CapNow
  BY DEF Literally
<1> QED
  BY <1>1, <1>2, <1>3, <1>4 DEF ZeroFits

LEMMA PlainSound == FormatInv /\ Plain => FormatInv'
<1> SUFFICES ASSUME FormatInv, Plain PROVE FormatInv'
  OBVIOUS
<1>1. IsText(s') /\ s_cap' \in Nat /\ s_cap' >= s_cap /\ ZeroFits'
  <2> DEFINE chars == <<CharAt(p)>>
             k == p + 1
  <2>1. IsText(chars) /\ Len(chars) <= 3
    BY Few
  <2>2. InLoop /\ Literally(chars, k)
    BY DEF Plain
  <2> HIDE DEF chars, k
  <2> QED
    BY <2>1, <2>2, LiterallyFits
<1> QED
  BY <1>1 DEF FormatInv, Plain

LEMMA PercentSound == FormatInv /\ PercentOrUnknown => FormatInv'
<1> SUFFICES ASSUME FormatInv, PercentOrUnknown PROVE FormatInv'
  OBVIOUS
<1>1. IsText(s') /\ s_cap' \in Nat /\ s_cap' >= s_cap /\ ZeroFits'
  <2>1. InLoop
    BY DEF PercentOrUnknown, AtConv
  <2>2. CASE Literally(<<"%">>, ConvAt + 1)
    <3> DEFINE chars == <<"%">>
               k == ConvAt + 1
    <3>1. IsText(chars) /\ Len(chars) <= 3
      BY Few
    <3>2. Literally(chars, k)
      BY <2>2
    <3> HIDE DEF chars, k
    <3> QED
      BY <2>1, <3>1, <3>2, LiterallyFits
  <2>3. CASE Literally(<<"%", Conv>>, ConvAt + 1)
    <3> DEFINE chars == <<"%", Conv>>
               k == ConvAt + 1
    <3>1. IsText(chars) /\ Len(chars) <= 3
      BY Few
    <3>2. Literally(chars, k)
      BY <2>3
    <3> HIDE DEF chars, k
    <3> QED
      BY <2>1, <3>1, <3>2, LiterallyFits
  <2> QED
    BY <2>2, <2>3 DEF PercentOrUnknown
<1> QED
  BY <1>1 DEF FormatInv, PercentOrUnknown

LEMMA PadSound == FormatInv /\ Pad => FormatInv'
<1> SUFFICES ASSUME FormatInv, Pad PROVE FormatInv'
  OBVIOUS
<1> DEFINE k == ConvAt + 2
<1>1. InLoop
  BY DEF Pad, AtConv
<1>2. CASE /\ padw' \in {n \in 0..MaxWidth : Dstoui(NumberAt(k), n)}
           /\ Literally(<<>>, EndOfNumber(k))
  <2>1. padw' \in Nat
    BY <1>2
  <2>2. IsText(s') /\ s_cap' \in Nat /\ s_cap' >= s_cap /\ ZeroFits'
    <3> DEFINE e == EndOfNumber(k)
    <3>1. IsText(<<>>) /\ Len(<<>>) <= 3
      BY NoText
    <3>2. Literally(<<>>, e)
      BY <1>2
    <3> HIDE DEF e
    <3> QED
      BY <1>1, <3>1, <3>2, LiterallyFits
  <2> QED
    BY <2>1, <2>2 DEF FormatInv, Pad
<1>3. CASE Literally(<<"%", "p", CharAt(k)>>, k + 1) /\ UNCHANGED padw
  <2>1. IsText(s') /\ s_cap' \in Nat /\ s_cap' >= s_cap /\ ZeroFits'
    <3> DEFINE chars == <<"%", "p", CharAt(k)>>
               e == k + 1
    <3>1. IsText(chars) /\ Len(chars) <= 3
      BY Few
    <3>2. Literally(chars, e)
      BY <1>3
    <3> HIDE DEF chars, e
    <3> QED
      BY <1>1, <3>1, <3>2, LiterallyFits
  <2> QED
    BY <1>3, <2>1 DEF FormatInv, Pad
<1> QED
  BY <1>2, <1>3 DEF Pad

LEMMA ConvertedSound ==
    ASSUME FormatInv, InLoop, NEW arg \in Arguments, Converted(arg), UNCHANGED dyn
    PROVE  /\ IsText(s') /\ s_cap' \in Nat /\ padw' \in Nat
           /\ dyn => s_cap' >= 4
           /\ ZeroFits'
<1> DEFINE w == InWidth(Conv, arg)
           f == Fill(Conv, arg)
           blank == [k \in 1..f |-> padc]
<1>1. IsText(w) /\ f \in Nat
  BY WrittenTyped DEF FormatInv
<1>2. IsText(blank) /\ Len(blank) = f
  <2>1. blank = [k \in 1..f |-> blank[k]]
    OBVIOUS
  <2> HIDE DEF f, blank
  <2> QED
    BY <1>1, <2>1, Spelled
<1>3. Needed(Conv, arg) = Len(s) + Len(w) + f + 1
  BY DEF Needed
<1>4. CapNow \in Nat /\ CapNow >= s_cap
  BY RoomMade
<1>5. CASE /\ s' = s \o blank \o w
           /\ s_cap' = IF CapNow < Needed(Conv, arg) THEN Needed(Conv, arg) ELSE CapNow
           /\ padw' = 0
  <2> HIDE DEF w, f, blank
  <2>1. Len(s) \in Nat /\ Len(w) \in Nat
    BY <1>1, TextLen DEF FormatInv
  <2>2. IsText(s \o blank) /\ Len(s \o blank) = Len(s) + f
    BY <1>2, Joined DEF FormatInv
  <2>3. IsText(s \o blank \o w) /\ Len(s \o blank \o w) = Len(s) + f + Len(w)
    BY <1>1, <2>2, Joined
  <2>4. s_cap' \in Nat /\ s_cap' >= CapNow /\ s_cap' >= Len(s) + Len(w) + f + 1
    BY <1>1, <1>3, <1>4, <1>5, <2>1
  <2> QED
    BY <1>1, <1>4, <1>5, <2>1, <2>3, <2>4 DEF FormatInv, ZeroFits
<1>6. CASE UNCHANGED <<s, s_cap, p, padw>>
  BY <1>6 DEF FormatInv, ZeroFits, IsText
<1> QED
  BY <1>5, <1>6 DEF Converted

LEMMA ConvertSound == FormatInv /\ Convert => FormatInv'
<1> SUFFICES ASSUME FormatInv, Convert PROVE FormatInv'
  OBVIOUS
<1>1. PICK arg \in IF ap # <<>> THEN {Head(ap)} ELSE Arguments : Converted(arg)
  BY DEF Convert
<1>2. arg \in Arguments
  BY <1>1 DEF FormatInv
<1>3. /\ IsText(s') /\ s_cap' \in Nat /\ padw' \in Nat
      /\ dyn => s_cap' >= 4
      /\ ZeroFits'
  BY <1>1, <1>2, ConvertedSound DEF Convert, AtConv
<1>4. ap' \in Seq(Arguments)
  BY DEF FormatInv, Convert
<1> QED
  BY <1>3, <1>4 DEF FormatInv, Convert

LEMMA StepSound == FormatInv /\ [FormatNext]_formatVars => FormatInv'
<1> SUFFICES ASSUME FormatInv, [FormatNext]_formatVars PROVE FormatInv'
  OBVIOUS
<1>1. CASE Finish
  BY <1>1 DEF FormatInv, ZeroFits, IsText, Finish
<1>2. CASE UNCHANGED formatVars
  BY <1>2 DEF FormatInv, ZeroFits, IsText, formatVars
<1> QED
  BY <1>1, <1>2, PlainSound, PercentSound, PadSound, ConvertSound DEF FormatNext

\* Whatever M_vsprintf and sprintf write, with the zero after it, lies in the
\* buffer: for every format, any arguments, also ones that are missing, and
\* buffers of any size.
THEOREM Fits == FormatSpec => []ZeroFits
<1>1. FormatInv => ZeroFits
  BY DEF FormatInv
<1> QED
  BY <1>1, InitSound, StepSound, PTL DEF FormatSpec

----------------------------------------------------------------------------
(* The first k sequences of q, one after the other.                         *)

Upto(q, k) == FlattenSeq(SubSeq(q, 1, k))

\* The sequences t and u are the same up to the n-th item.
Agree(t, u, n) == \A i \in 1..n : t[i] = u[i]

LEMMA JoinsSame ==
    ASSUME NEW q, NEW r, NEW N \in Nat, NEW M \in Nat, M <= N,
           NEW g, NEW h, Agree(r, q, M), Joins(q, N, g), Joins(r, M, h)
    PROVE  Agree(h, g, M)
<1> DEFINE Bad == {i \in 1..M : h[i] # g[i]}
<1> SUFFICES ASSUME Bad # {} PROVE FALSE
  BY DEF Agree
<1>1. PICK i \in Bad : \A j \in Bad : i <= j
  <2>1. Bad \subseteq Nat
    OBVIOUS
  <2> QED
    BY <2>1, Least
<1>2. i \in 1..M /\ i \in 1..N /\ h[i] # g[i]
  BY <1>1
<1>3. g[i] = IF i = 1 THEN q[i] ELSE g[i - 1] \o q[i]
  BY <1>2 DEF Joins
<1>4. h[i] = IF i = 1 THEN q[i] ELSE h[i - 1] \o q[i]
  BY <1>2 DEF Joins, Agree
<1>5. CASE i = 1
  BY <1>2, <1>3, <1>4, <1>5
<1>6. CASE i # 1
  <2>1. i - 1 \in 1..M /\ i - 1 \notin Bad
    BY <1>1, <1>2, <1>6
  <2>2. h[i - 1] = g[i - 1]
    BY <2>1
  <2> QED
    BY <1>2, <1>3, <1>4, <1>6, <2>2
<1> QED
  BY <1>5, <1>6

LEMMA FlattenJoins ==
    ASSUME NEW q, Len(q) \in Nat \ {0}
    PROVE  \E g : Joins(q, Len(q), g) /\ FlattenSeq(q) = g[Len(q)]
<1> DEFINE f == CHOOSE g : g = [i \in 1..Len(q) |-> IF i = 1 THEN q[i] ELSE g[i - 1] \o q[i]]
<1>1. f = [i \in 1..Len(q) |-> IF i = 1 THEN q[i] ELSE f[i - 1] \o q[i]]
  <2>1. \E g : g = [i \in 1..Len(q) |-> IF i = 1 THEN q[i] ELSE g[i - 1] \o q[i]]
    BY JoinsExists DEF Joins
  <2> QED
    BY <2>1
<1>2. FlattenSeq(q) = f[Len(q)]
  BY DEF FlattenSeq
<1> HIDE DEF f
<1>3. Joins(q, Len(q), f)
  BY <1>1 DEF Joins
<1> QED
  BY <1>2, <1>3

LEMMA UptoZero ==
    ASSUME NEW A, NEW q \in Seq(A)
    PROVE  Upto(q, 0) = <<>>
<1>1. SubSeq(q, 1, 0) = <<>>
  OBVIOUS
<1>2. FlattenSeq(<<>>) = <<>>
  BY DEF FlattenSeq
<1> QED
  BY <1>1, <1>2 DEF Upto

LEMMA UptoAll ==
    ASSUME NEW A, NEW q \in Seq(A)
    PROVE  Upto(q, Len(q)) = FlattenSeq(q)
<1>1. SubSeq(q, 1, Len(q)) = q
  BY SubSeqFull
<1> QED
  BY <1>1 DEF Upto

LEMMA UptoTyped ==
    ASSUME NEW A, NEW q \in Seq(Seq(A)), NEW k \in 0..Len(q)
    PROVE  Upto(q, k) \in Seq(A)
<1> DEFINE r == SubSeq(q, 1, k)
<1>1. r \in Seq(Seq(A))
  OBVIOUS
<1> HIDE DEF r
<1>2. FlattenSeq(r) \in Seq(A)
  BY <1>1, Flattened
<1> QED
  BY <1>2 DEF Upto, r

LEMMA UptoNext ==
    ASSUME NEW A, NEW q \in Seq(Seq(A)), NEW k \in 1..Len(q)
    PROVE  Upto(q, k) = Upto(q, k - 1) \o q[k]
<1>1. Len(q) \in Nat \ {0}
  OBVIOUS
<1>2. PICK g : Joins(q, Len(q), g) /\ FlattenSeq(q) = g[Len(q)]
  BY <1>1, FlattenJoins
<1>3. ASSUME NEW m \in 1..Len(q)
      PROVE  Upto(q, m) = g[m]
  <2> DEFINE r == SubSeq(q, 1, m)
  <2>1. Len(r) = m /\ m \in Nat \ {0} /\ m <= Len(q) /\ \A i \in 1..m : r[i] = q[i]
    OBVIOUS
  <2> HIDE DEF r
  <2>2. PICK h : Joins(r, m, h) /\ FlattenSeq(r) = h[m]
    BY <2>1, FlattenJoins
  <2>3. Agree(h, g, m)
    <3> DEFINE n == Len(q)
    <3>1. n \in Nat /\ m \in Nat /\ m <= n
      BY <1>1, <2>1
    <3>2. Agree(r, q, m)
      BY <2>1 DEF Agree
    <3>3. Joins(q, n, g) /\ Joins(r, m, h)
      BY <1>2, <2>2
    <3> HIDE DEF n
    <3> QED
      BY <3>1, <3>2, <3>3, JoinsSame
  <2>4. h[m] = g[m]
    BY <2>1, <2>3 DEF Agree
  <2> QED
    BY <2>2, <2>4 DEF Upto, r
<1>4. g[k] = IF k = 1 THEN q[k] ELSE g[k - 1] \o q[k]
  BY <1>2 DEF Joins
<1>5. CASE k = 1
  <2>1. Upto(q, 0) = <<>>
    BY UptoZero
  <2>2. q[k] \in Seq(A) /\ k - 1 = 0
    BY <1>5
  <2>3. <<>> \o q[k] = q[k]
    BY <2>2
  <2> QED
    BY <1>3, <1>4, <1>5, <2>1, <2>2, <2>3
<1>6. CASE k # 1
  <2>1. k - 1 \in 1..Len(q)
    BY <1>6
  <2> QED
    BY <1>3, <1>4, <1>6, <2>1
<1> QED
  BY <1>5, <1>6

LEMMA Associative == \A A : \A a, b, c \in Seq(A) : (a \o b) \o c = a \o (b \o c)
  BY ConcatAssociative

LEMMA UptoPrefix ==
    ASSUME NEW A, NEW q \in Seq(Seq(A)), NEW k \in 0..Len(q)
    PROVE  \E r \in Seq(A) : FlattenSeq(q) = Upto(q, k) \o r
<1> DEFINE Good(m) == \E r \in Seq(A) : Upto(q, m) = Upto(q, k) \o r
           Bad == {m \in k..Len(q) : ~Good(m)}
<1>1. Bad = {}
  <2> SUFFICES ASSUME Bad # {} PROVE FALSE
    OBVIOUS
  <2>1. PICK m \in Bad : \A j \in Bad : m <= j
    <3>1. Bad \subseteq Nat
      OBVIOUS
    <3> HIDE DEF Bad
    <3> QED
      BY <3>1, Least
  <2>2. m \in k..Len(q) /\ ~Good(m)
    BY <2>1
  <2>3. Upto(q, k) \in Seq(A)
    BY UptoTyped
  <2>4. CASE m = k
    <3>1. Upto(q, k) = Upto(q, k) \o <<>> /\ <<>> \in Seq(A)
      BY <2>3
    <3> QED
      BY <2>2, <2>4, <3>1
  <2>5. CASE m # k
    <3>1. m - 1 \in k..Len(q) /\ m - 1 \notin Bad
      <4>1. m - 1 \in k..Len(q) /\ ~(m <= m - 1)
        BY <2>2, <2>5
      <4> HIDE DEF Bad
      <4> QED
        BY <2>1, <4>1
    <3>2. PICK r \in Seq(A) : Upto(q, m - 1) = Upto(q, k) \o r
      BY <3>1
    <3>3. m \in 1..Len(q) /\ q[m] \in Seq(A)
      BY <2>2, <2>5
    <3>4. Upto(q, m) = Upto(q, m - 1) \o q[m]
      BY <3>3, UptoNext
    <3>5. (Upto(q, k) \o r) \o q[m] = Upto(q, k) \o (r \o q[m])
      <4> DEFINE u == Upto(q, k)
                 v == q[m]
      <4>1. u \in Seq(A) /\ v \in Seq(A) /\ r \in Seq(A)
        BY <2>3, <3>3
      <4> HIDE DEF u, v
      <4>2. (u \o r) \o v = u \o (r \o v)
        BY <4>1, Associative, SMT
      <4> QED
        BY <4>2 DEF u, v
    <3>6. r \o q[m] \in Seq(A)
      BY <3>3
    <3> QED
      BY <2>2, <3>2, <3>4, <3>5, <3>6
  <2> QED
    BY <2>4, <2>5
<1>2. Len(q) \in k..Len(q)
  OBVIOUS
<1>3. Good(Len(q))
  BY <1>1, <1>2
<1> QED
  BY <1>3, UptoAll

\* The characters of the k-th sequence, in their place.
LEMMA UptoAround ==
    ASSUME NEW A, NEW q \in Seq(Seq(A)), NEW k \in 1..Len(q)
    PROVE  \E r \in Seq(A) : /\ FlattenSeq(q) = Upto(q, k - 1) \o (q[k] \o r)
                             /\ FlattenSeq(q) = Upto(q, k) \o r
<1>1. PICK r \in Seq(A) : FlattenSeq(q) = Upto(q, k) \o r
  <2>1. k \in 0..Len(q)
    OBVIOUS
  <2> QED
    BY <2>1, UptoPrefix
<1>2. Upto(q, k) = Upto(q, k - 1) \o q[k]
  BY UptoNext
<1>3. Upto(q, k - 1) \in Seq(A) /\ q[k] \in Seq(A)
  BY UptoTyped
<1>4. (Upto(q, k - 1) \o q[k]) \o r = Upto(q, k - 1) \o (q[k] \o r)
  <2> DEFINE u == Upto(q, k - 1)
             v == q[k]
  <2>1. u \in Seq(A) /\ v \in Seq(A) /\ r \in Seq(A)
    BY <1>3
  <2> HIDE DEF u, v
  <2>2. (u \o v) \o r = u \o (v \o r)
    BY <2>1, Associative, SMT
  <2> QED
    BY <2>2 DEF u, v
<1> QED
  BY <1>1, <1>2, <1>4

----------------------------------------------------------------------------
(* Padding and numerals.                                                    *)

\* The backends do not know that a literal is a string.
Glyphs == STRING \cup {"0", " ", "%", "p"}

LEMMA WiderSeq ==
    ASSUME NEW A, NEW B, A \subseteq B
    PROVE  Seq(A) \subseteq Seq(B)
  OBVIOUS

LEMMA StringsAreGlyphs == Seq(STRING) \subseteq Seq(Glyphs)
<1> DEFINE A == STRING
<1>1. A \subseteq Glyphs
  BY DEF Glyphs
<1> HIDE DEF A
<1>2. Seq(A) \subseteq Seq(Glyphs)
  BY <1>1, WiderSeq
<1> QED
  BY <1>2 DEF A

Blank(c, n) == [j \in 1..n |-> c]

LEMMA BlankText ==
    ASSUME NEW c \in Glyphs, NEW n \in Nat
    PROVE  /\ Blank(c, n) \in Seq(Glyphs) /\ Len(Blank(c, n)) = n
           /\ \A j \in 1..n : Blank(c, n)[j] = c
<1> DEFINE b == Blank(c, n)
<1>1. b \in [1..n -> Glyphs] /\ \A j \in 1..n : b[j] = c
  BY DEF Blank
<1> HIDE DEF b
<1>2. b \in Seq(Glyphs) /\ Len(b) = n
  BY <1>1
<1> QED
  BY <1>1, <1>2 DEF b

\* A text behind n characters c, character by character.
LEMMA Behind ==
    ASSUME NEW c \in Glyphs, NEW n \in Nat, NEW t \in Seq(Glyphs)
    PROVE  /\ Blank(c, n) \o t \in Seq(Glyphs)
           /\ Len(Blank(c, n) \o t) = n + Len(t)
           /\ \A j \in 1..n : (Blank(c, n) \o t)[j] = c
           /\ \A j \in 1..(n + Len(t)) : j > n => (Blank(c, n) \o t)[j] = t[j - n]
<1> DEFINE b == Blank(c, n)
<1>1. b \in Seq(Glyphs) /\ Len(b) = n /\ \A j \in 1..n : b[j] = c
  BY BlankText
<1> HIDE DEF b
<1>2. /\ b \o t \in Seq(Glyphs)
      /\ Len(b \o t) = n + Len(t)
      /\ \A j \in 1..n : (b \o t)[j] = c
      /\ \A j \in 1..(n + Len(t)) : j > n => (b \o t)[j] = t[j - n]
  BY <1>1
<1> QED
  BY <1>2 DEF b

\* What is behind n characters c is known from its characters.
LEMMA BehindEqual ==
    ASSUME NEW c \in Glyphs, NEW n \in Nat, NEW t \in Seq(Glyphs),
           NEW u \in Seq(Glyphs), Len(u) = n + Len(t),
           \A j \in 1..n : u[j] = c,
           \A j \in 1..Len(t) : u[n + j] = t[j]
    PROVE  u = Blank(c, n) \o t
<1> DEFINE v == Blank(c, n) \o t
<1>1. v \in Seq(Glyphs) /\ Len(v) = n + Len(t)
  BY Behind
<1>2. (\A j \in 1..n : v[j] = c) /\ \A j \in 1..(n + Len(t)) : j > n => v[j] = t[j - n]
  BY Behind
<1> HIDE DEF v
<1>3. ASSUME NEW j \in 1..Len(u) PROVE u[j] = v[j]
  <2>1. CASE j <= n
    <3>1. j \in 1..n
      BY <2>1
    <3> QED
      BY <1>2, <3>1
  <2>2. CASE j > n
    <3>1. j - n \in 1..Len(t) /\ n + (j - n) = j /\ j \in 1..(n + Len(t))
      BY <2>2
    <3>2. u[j] = t[j - n]
      BY <3>1
    <3> QED
      BY <1>2, <2>2, <3>1, <3>2
  <2>3. j <= n \/ j > n
    OBVIOUS
  <2> QED
    BY <2>1, <2>2, <2>3
<1>4. u = v
  BY <1>1, <1>3, SeqEqual
<1> QED
  BY <1>4 DEF v

LEMMA BlankTwice ==
    ASSUME NEW c \in Glyphs, NEW n \in Nat, NEW m \in Nat, NEW t \in Seq(Glyphs)
    PROVE  Blank(c, n) \o (Blank(c, m) \o t) = Blank(c, n + m) \o t
<1> DEFINE u == Blank(c, m) \o t
           v == Blank(c, n) \o u
<1>1. /\ u \in Seq(Glyphs) /\ Len(u) = m + Len(t)
      /\ \A j \in 1..m : u[j] = c
      /\ \A j \in 1..(m + Len(t)) : j > m => u[j] = t[j - m]
  BY Behind
<1> HIDE DEF u
<1>2. /\ v \in Seq(Glyphs) /\ Len(v) = n + Len(u)
      /\ \A j \in 1..n : v[j] = c
      /\ \A j \in 1..(n + Len(u)) : j > n => v[j] = u[j - n]
  BY <1>1, Behind
<1> HIDE DEF v
<1>3. n + m \in Nat /\ Len(v) = (n + m) + Len(t)
  BY <1>1, <1>2
<1>4. ASSUME NEW j \in 1..(n + m) PROVE v[j] = c
  <2>1. CASE j <= n
    <3>1. j \in 1..n
      BY <2>1
    <3> QED
      BY <1>2, <3>1
  <2>2. CASE j > n
    <3>1. j - n \in 1..m /\ j \in 1..(n + Len(u))
      BY <1>1, <2>2
    <3>2. v[j] = u[j - n]
      BY <1>2, <2>2, <3>1
    <3> QED
      BY <1>1, <3>1, <3>2
  <2>3. j <= n \/ j > n
    BY <1>3
  <2> QED
    BY <2>1, <2>2, <2>3
<1>5. ASSUME NEW j \in 1..Len(t) PROVE v[(n + m) + j] = t[j]
  <2>1. /\ (n + m) + j \in 1..(n + Len(u)) /\ (n + m) + j > n
        /\ ((n + m) + j) - n = m + j
        /\ m + j \in 1..(m + Len(t)) /\ m + j > m /\ (m + j) - m = j
    BY <1>1
  <2>2. v[(n + m) + j] = u[m + j]
    BY <1>2, <2>1
  <2>3. u[m + j] = t[j]
    BY <1>1, <2>1
  <2> QED
    BY <2>2, <2>3
<1>6. v = Blank(c, n + m) \o t
  BY <1>2, <1>3, <1>4, <1>5, BehindEqual
<1> QED
  BY <1>6 DEF u, v

\* The last characters of zeros and a text: all of the text, and fewer zeros.
LEMMA FewerZeros ==
    ASSUME NEW z \in Nat, NEW t \in Seq(Glyphs), NEW w \in Nat, Len(t) <= w, w <= z + Len(t)
    PROVE  SubSeq(Blank("0", z) \o t, (z + Len(t)) - w + 1, z + Len(t)) = Blank("0", w - Len(t)) \o t
<1> DEFINE d == Blank("0", z) \o t
           P == z + Len(t)
           u == SubSeq(d, P - w + 1, P)
<1> SUFFICES u = Blank("0", w - Len(t)) \o t
  OBVIOUS
<1>1. /\ d \in Seq(Glyphs) /\ Len(d) = P
      /\ \A j \in 1..z : d[j] = "0"
      /\ \A j \in 1..P : j > z => d[j] = t[j - z]
  <2>1. "0" \in Glyphs
    BY DEF Glyphs
  <2> QED
    BY <2>1, Behind
<1> HIDE DEF d
<1>2. P \in Nat /\ P - w + 1 \in 1..(P + 1) /\ w - Len(t) \in Nat
  OBVIOUS
<1>3. /\ u \in Seq(Glyphs) /\ Len(u) = w
      /\ \A j \in 1..w : u[j] = d[P - w + j]
  <2> DEFINE a == P - w + 1
  <2>1. u \in Seq(Glyphs)
    BY <1>1, <1>2
  <2>2. Len(u) = w
    BY <1>1, <1>2
  <2>3. ASSUME NEW j \in 1..w PROVE u[j] = d[P - w + j]
    <3>1. P - w + 1 + j - 1 = P - w + j
      OBVIOUS
    <3> QED
      BY <1>1, <1>2, <3>1
  <2> QED
    BY <2>1, <2>2, <2>3
<1> HIDE DEF u
<1>4. ASSUME NEW j \in 1..(w - Len(t)) PROVE u[j] = "0"
  <2>1. j \in 1..w /\ P - w + j \in 1..z
    OBVIOUS
  <2> QED
    BY <1>1, <1>3, <2>1
<1>5. ASSUME NEW j \in 1..Len(t) PROVE u[(w - Len(t)) + j] = t[j]
  <2>1. /\ (w - Len(t)) + j \in 1..w
        /\ P - w + ((w - Len(t)) + j) = z + j
        /\ z + j \in 1..P /\ z + j > z /\ (z + j) - z = j
    OBVIOUS
  <2>2. u[(w - Len(t)) + j] = d[z + j]
    BY <1>3, <2>1
  <2> QED
    BY <1>1, <2>1, <2>2
<1>6. Len(u) = (w - Len(t)) + Len(t)
  BY <1>3
<1>7. u = Blank("0", w - Len(t)) \o t
  <2> DEFINE n == w - Len(t)
  <2>1. "0" \in Glyphs /\ n \in Nat /\ u \in Seq(Glyphs)
    BY <1>2, <1>3 DEF Glyphs
  <2>2. Len(u) = n + Len(t) /\ (\A j \in 1..n : u[j] = "0") /\ \A j \in 1..Len(t) : u[n + j] = t[j]
    BY <1>4, <1>5, <1>6
  <2> HIDE DEF n
  <2>3. u = Blank("0", n) \o t
    BY <2>1, <2>2, BehindEqual
  <2> QED
    BY <2>3 DEF n
<1> QED
  BY <1>7

\* The leading zeros that are skipped are those in front of the numeral.
LEMMA NumeralStripped ==
    ASSUME NEW c \in {"u", "h"}, NEW n, NEW t \in Seq(Glyphs), IsNumeral(c, n, t)
    PROVE  Stripped(Digits(c, n)) = t
<1> DEFINE P == Places[c]
           z == P - Len(t)
           d == Digits(c, n)
<1>1. P \in Nat /\ Len(t) \in 1..P /\ z \in Nat /\ P = z + Len(t)
  <2>1. P \in Nat
    BY FormatAssumption DEF FormatAssumption
  <2>2. Len(t) \in 1..P
    BY DEF IsNumeral
  <2> QED
    BY <2>1, <2>2
<1>2. t[1] # "0" \/ Len(t) = 1
  BY DEF IsNumeral
<1>3. d = Blank("0", z) \o t
  BY DEF IsNumeral, Blank
<1> HIDE DEF P, z, d
<1>4. /\ d \in Seq(Glyphs) /\ Len(d) = P
      /\ \A j \in 1..z : d[j] = "0"
      /\ \A j \in 1..P : j > z => d[j] = t[j - z]
  <2>1. "0" \in Glyphs
    BY DEF Glyphs
  <2> QED
    BY <1>1, <1>3, <2>1, Behind
<1> DEFINE First(k) == /\ k = Len(d) \/ d[k] # "0"
                       /\ \A j \in 1..(k - 1) : d[j] = "0"
           m == CHOOSE k \in 1..Len(d) : First(k)
<1>5. z + 1 \in 1..Len(d) /\ d[z + 1] = t[1]
  BY <1>1, <1>4
<1>6. First(z + 1)
  <2>1. z + 1 = Len(d) \/ d[z + 1] # "0"
    BY <1>1, <1>2, <1>4, <1>5
  <2> QED
    BY <1>1, <1>4, <2>1
<1>7. ASSUME NEW k \in 1..Len(d), First(k)
      PROVE  k = z + 1
  <2>1. ~(k < z + 1)
    BY <1>1, <1>4, <1>7
  <2>2. ~(k > z + 1)
    <3> SUFFICES ASSUME k > z + 1 PROVE FALSE
      OBVIOUS
    <3>1. d[z + 1] = "0"
      BY <1>1, <1>7
    <3>2. Len(t) = 1
      BY <1>2, <1>5, <3>1
    <3> QED
      BY <1>1, <1>4, <3>2
  <2> QED
    BY <1>1, <1>4, <2>1, <2>2
<1>8. m = z + 1
  BY <1>5, <1>6, <1>7
<1>9. Stripped(d) = SubSeq(d, z + 1, Len(d))
  BY <1>8 DEF Stripped
<1>10. SubSeq(d, z + 1, Len(d)) = t
  <2> DEFINE u == SubSeq(d, z + 1, Len(d))
  <2>1. u \in Seq(Glyphs) /\ Len(u) = Len(t)
    BY <1>1, <1>4
  <2>2. ASSUME NEW j \in 1..Len(u) PROVE u[j] = t[j]
    <3>1. u[j] = d[z + j]
      BY <1>1, <1>4, <2>1
    <3>2. z + j \in 1..P /\ z + j > z /\ (z + j) - z = j
      BY <1>1, <2>1
    <3> QED
      BY <1>4, <3>1, <3>2
  <2> HIDE DEF u
  <2>3. u = t
    BY <2>1, <2>2, SeqEqual
  <2> QED
    BY <2>3 DEF u
<1> QED
  BY <1>9, <1>10 DEF d

\* What a conversion writes for the digits d of a number whose zeros are kept,
\* when without them they are t.
ZerosKept(d, t, w) ==
    /\ d \in Seq(Glyphs)
    /\ w < Len(d) => SubSeq(d, Len(d) - w + 1, Len(d)) = Blank("0", w - Len(t)) \o t
    /\ w >= Len(d) => Blank("0", w - Len(d)) \o d = Blank("0", w - Len(t)) \o t

LEMMA ZerosWritten ==
    ASSUME NEW c \in {"u", "h"}, NEW n, NEW t \in Seq(Glyphs), IsNumeral(c, n, t),
           NEW w \in Nat, Len(t) <= w, NEW d, d = Digits(c, n)
    PROVE  ZerosKept(d, t, w)
<1> DEFINE P == Places[c]
           z == P - Len(t)
<1>1. P \in Nat /\ Len(t) \in 1..P /\ z \in Nat /\ P = z + Len(t)
  <2>1. P \in Nat
    BY FormatAssumption DEF FormatAssumption
  <2>2. Len(t) \in 1..P
    BY DEF IsNumeral
  <2> QED
    BY <2>1, <2>2
<1>2. d = Blank("0", z) \o t
  BY DEF IsNumeral, Blank
<1>3. "0" \in Glyphs
  BY DEF Glyphs
<1> HIDE DEF P, z
<1>4. d \in Seq(Glyphs) /\ Len(d) = P
  BY <1>1, <1>2, <1>3, Behind
<1>5. ASSUME w < P
      PROVE  SubSeq(d, P - w + 1, P) = Blank("0", w - Len(t)) \o t
  <2>1. w <= z + Len(t)
    BY <1>1, <1>5
  <2>2. SubSeq(Blank("0", z) \o t, (z + Len(t)) - w + 1, z + Len(t)) = Blank("0", w - Len(t)) \o t
    BY <1>1, <2>1, FewerZeros
  <2> QED
    BY <1>1, <1>2, <2>2
<1>6. ASSUME w >= P
      PROVE  Blank("0", w - P) \o d = Blank("0", w - Len(t)) \o t
  <2> DEFINE a == w - P
  <2>1. a \in Nat /\ a + z = w - Len(t)
    BY <1>1, <1>6
  <2> HIDE DEF a
  <2>2. Blank("0", a) \o (Blank("0", z) \o t) = Blank("0", a + z) \o t
    BY <1>1, <1>3, <2>1, BlankTwice
  <2>3. Blank("0", a) \o d = Blank("0", w - Len(t)) \o t
    BY <1>2, <2>1, <2>2
  <2> QED
    BY <2>3 DEF a
<1> QED
  BY <1>4, <1>5, <1>6 DEF ZerosKept

\* A conversion writes what its piece should become.
LEMMA ShownRight ==
    ASSUME NEW q, NEW c \in Conversions, NEW w \in Nat, NEW pad \in Glyphs,
           q.out \in Seq(Glyphs), Shows(q, c, w, pad),
           padw = w, w # 0 => padc = pad
    PROVE  Blank(padc, Fill(c, q.args[1])) \o InWidth(c, q.args[1]) = q.out
<1> DEFINE arg == q.args[1]
           x == q.out
<1>1. PICK l \in 0..Len(x) :
         /\ l = IF w > Len(SubSeq(x, l + 1, Len(x))) THEN w - Len(SubSeq(x, l + 1, Len(x))) ELSE 0
         /\ \A j \in 1..l : x[j] = pad
         /\ IF c \in {"u", "h"}
            THEN /\ IsNumeral(c, arg.n, SubSeq(x, l + 1, Len(x)))
                 /\ w = 0 \/ Len(SubSeq(x, l + 1, Len(x))) <= w
            ELSE SubSeq(x, l + 1, Len(x)) = arg.text
  BY DEF Shows
<1> DEFINE t == SubSeq(x, l + 1, Len(x))
<1>2. x \in Seq(Glyphs) /\ Len(x) \in Nat /\ l \in Nat
  OBVIOUS
<1> SUFFICES Blank(padc, Fill(c, arg)) \o InWidth(c, arg) = x
  OBVIOUS
<1> HIDE DEF arg, x
<1>3. /\ t \in Seq(Glyphs) /\ Len(t) \in Nat /\ Len(x) = l + Len(t)
      /\ \A j \in 1..Len(t) : x[l + j] = t[j]
  <2>1. t \in Seq(Glyphs) /\ Len(t) = Len(x) - l
    BY <1>2
  <2>2. ASSUME NEW j \in 1..Len(t) PROVE x[l + j] = t[j]
    BY <1>2, <2>1
  <2> HIDE DEF t
  <2> QED
    BY <1>2, <2>1, <2>2
<1>4. /\ l = IF w > Len(t) THEN w - Len(t) ELSE 0
      /\ \A j \in 1..l : x[j] = pad
      /\ c \in {"u", "h"} => IsNumeral(c, arg.n, t) /\ (w = 0 \/ Len(t) <= w)
      /\ c \notin {"u", "h"} => t = arg.text
  BY <1>1
<1> HIDE DEF t
<1>5. x = Blank(pad, l) \o t
  BY <1>2, <1>3, <1>4, BehindEqual
<1>6. Blank(padc, l) = Blank(pad, l)
  <2>1. CASE l = 0
    <3>1. \A j \in 1..l : FALSE
      BY <2>1
    <3> QED
      BY <3>1 DEF Blank
  <2>2. CASE l # 0
    <3>1. w # 0
      BY <1>2, <1>3, <1>4, <2>2
    <3> QED
      BY <3>1
  <2> QED
    BY <2>1, <2>2
<1>7. ASSUME Text(c, arg) = t
      PROVE  Blank(padc, Fill(c, arg)) \o InWidth(c, arg) = x
  <2>1. Fill(c, arg) = l
    BY <1>3, <1>4, <1>7 DEF Fill
  <2>2. InWidth(c, arg) = t
    <3>1. ~(c \in {"u", "h"} /\ padw > 0 /\ padw < Len(t))
      BY <1>3, <1>4
    <3> QED
      BY <1>7, <3>1 DEF InWidth
  <2> QED
    BY <1>5, <1>6, <2>1, <2>2
<1>8. CASE c \notin {"u", "h"}
  BY <1>4, <1>7, <1>8 DEF Text
<1>9. CASE c \in {"u", "h"} /\ (padc # "0" \/ w = 0)
  <2>1. Stripped(Digits(c, arg.n)) = t
    BY <1>3, <1>4, <1>9, NumeralStripped
  <2>2. Text(c, arg) = t
    BY <1>9, <2>1 DEF Text
  <2> QED
    BY <1>7, <2>2
<1>10. CASE c \in {"u", "h"} /\ padc = "0" /\ w # 0
  <2> DEFINE d == Digits(c, arg.n)
  <2>1. IsNumeral(c, arg.n, t) /\ Len(t) <= w /\ l = w - Len(t) /\ pad = "0"
    BY <1>3, <1>4, <1>10
  <2>2. /\ d \in Seq(Glyphs)
        /\ w < Len(d) => SubSeq(d, Len(d) - w + 1, Len(d)) = x
        /\ w >= Len(d) => Blank("0", w - Len(d)) \o d = x
    <3>1. ZerosKept(d, t, w)
      <4> DEFINE n == arg.n
      <4>1. d = Digits(c, n) /\ IsNumeral(c, n, t)
        BY <2>1
      <4>2. c \in {"u", "h"} /\ t \in Seq(Glyphs) /\ w \in Nat /\ Len(t) <= w
        BY <1>3, <1>10, <2>1
      <4> HIDE DEF d, n
      <4> QED
        BY ONLY <4>1, <4>2, ZerosWritten
    <3>2. x = Blank("0", w - Len(t)) \o t
      BY <1>5, <2>1
    <3> HIDE DEF d
    <3> QED
      BY <3>1, <3>2 DEF ZerosKept
  <2>3. Text(c, arg) = d
    BY <1>10 DEF Text
  <2> HIDE DEF d
  <2>4. Len(d) \in Nat
    BY <2>2
  <2>5. CASE w < Len(d)
    <3>1. InWidth(c, arg) = x
      BY <1>10, <2>2, <2>3, <2>5 DEF InWidth
    <3>2. Fill(c, arg) = 0
      BY <2>3, <2>4, <2>5 DEF Fill
    <3>3. Blank(padc, 0) = <<>>
      BY DEF Blank
    <3>4. <<>> \o x = x
      BY <1>2
    <3> QED
      BY <3>1, <3>2, <3>3, <3>4
  <2>6. CASE w >= Len(d)
    <3>1. InWidth(c, arg) = d
      BY <2>3, <2>4, <2>6 DEF InWidth
    <3>2. Fill(c, arg) = w - Len(d)
      BY <2>3, <2>4, <2>6 DEF Fill
    <3> QED
      BY <1>10, <2>2, <2>6, <3>1, <3>2
  <2> QED
    BY <2>4, <2>5, <2>6
<1> QED
  BY <1>8, <1>9, <1>10

----------------------------------------------------------------------------
(* The pieces of a format, in their places.                                 *)

CharsOf(P) == [k \in 1..Len(P) |-> P[k].chars]
ArgsOf(P)  == [k \in 1..Len(P) |-> P[k].args]
OutsOf(P)  == [k \in 1..Len(P) |-> P[k].out]

\* The hypothesis about the constant Pieces.
Formats == \A q \in Pieces : q.fits => IsPiece(q)

LEMMA PieceTyped ==
    ASSUME Formats, NEW q \in Pieces
    PROVE  /\ q.fits => IsPiece(q)
           /\ q.chars \in Seq(Glyphs) /\ q.out \in Seq(Glyphs) /\ q.args \in Seq(Arguments)
           /\ Len(q.chars) \in Nat \ {0}
<1>1. q.fits => IsPiece(q)
  BY DEF Formats
<1>2. /\ q.chars \in Seq(STRING) /\ q.out \in Seq(STRING) /\ q.args \in Seq(Arguments)
      /\ q.chars # <<>>
  BY FormatAssumption DEF FormatAssumption
<1>3. q.chars \in Seq(Glyphs) /\ q.out \in Seq(Glyphs)
  BY <1>2, StringsAreGlyphs
<1>4. Len(q.chars) \in Nat \ {0}
  BY <1>2
<1> QED
  BY <1>1, <1>2, <1>3, <1>4

LEMMA PiecesTyped ==
    ASSUME Formats, NEW P \in Seq(Pieces)
    PROVE  /\ CharsOf(P) \in Seq(Seq(Glyphs)) /\ Len(CharsOf(P)) = Len(P)
           /\ OutsOf(P) \in Seq(Seq(Glyphs)) /\ Len(OutsOf(P)) = Len(P)
           /\ ArgsOf(P) \in Seq(Seq(Arguments)) /\ Len(ArgsOf(P)) = Len(P)
<1>1. Len(P) \in Nat
  OBVIOUS
<1>2. ASSUME NEW k \in 1..Len(P)
      PROVE  P[k].chars \in Seq(Glyphs) /\ P[k].out \in Seq(Glyphs) /\ P[k].args \in Seq(Arguments)
  <2> DEFINE q == P[k]
  <2>1. q \in Pieces
    OBVIOUS
  <2> HIDE DEF q
  <2>2. q.chars \in Seq(Glyphs) /\ q.out \in Seq(Glyphs) /\ q.args \in Seq(Arguments)
    BY <2>1, PieceTyped
  <2> QED
    BY <2>2 DEF q
<1>3. CharsOf(P) \in [1..Len(P) -> Seq(Glyphs)]
  BY <1>2 DEF CharsOf
<1>4. OutsOf(P) \in [1..Len(P) -> Seq(Glyphs)]
  BY <1>2 DEF OutsOf
<1>5. ArgsOf(P) \in [1..Len(P) -> Seq(Arguments)]
  BY <1>2 DEF ArgsOf
<1>6. CharsOf(P) \in Seq(Seq(Glyphs)) /\ Len(CharsOf(P)) = Len(P)
  BY <1>1, <1>3
<1>7. OutsOf(P) \in Seq(Seq(Glyphs)) /\ Len(OutsOf(P)) = Len(P)
  BY <1>1, <1>4
<1>8. ArgsOf(P) \in Seq(Seq(Arguments)) /\ Len(ArgsOf(P)) = Len(P)
  BY <1>1, <1>5
<1> QED
  BY <1>6, <1>7, <1>8

\* What the shape of a piece that fits says of what the loop sees of it.
Shaped(q) ==
    LET c == q.chars
        m == Len(q.chars)
    IN  \/ m = 1 /\ c[1] # "%" /\ q.args = <<>> /\ q.out = <<c[1]>>
        \/ /\ m = 2 /\ c[1] = "%" /\ q.args = <<>>
           /\ \/ c[2] = "%" /\ q.out = <<"%">>
              \/ c[2] \notin {"%", "p"} \cup Conversions /\ q.out = <<"%", c[2]>>
        \/ m = 2 /\ c[1] = "%" /\ c[2] \in Conversions /\ Shows(q, c[2], 0, " ")
        \/ /\ m = 4 /\ c[1] = "%" /\ c[2] = "p" /\ c[4] \notin DecimalDigits
           /\ q.args = <<>> /\ q.out = <<"%", "p", c[4]>>
        \/ /\ m > 4 /\ c[1] = "%" /\ c[2] = "p" /\ c[m] \in Conversions
           /\ \A j \in 4..(m - 1) : c[j] \in DecimalDigits
           /\ \A w \in 0..MaxWidth : Dstoui(SubSeq(c, 4, m - 1), w) =>
                 w # 0 /\ Shows(q, c[m], w, c[3])

LEMMA Shape ==
    ASSUME NEW q \in Pieces, IsPiece(q)
    PROVE  Shaped(q)
<1> DEFINE c == q.chars
           m == Len(q.chars)
<1>1. c \in Seq(STRING)
  BY FormatAssumption DEF FormatAssumption
<1>2. CASE q.args = <<>> /\ m = 1 /\ c[1] # "%" /\ q.out = c
  <2>1. c = <<c[1]>>
    BY <1>1, <1>2
  <2> QED
    BY <1>2, <2>1 DEF Shaped
<1>3. CASE q.args = <<>> /\ c = <<"%", "%">> /\ q.out = <<"%">>
  <2>1. m = 2 /\ c[1] = "%" /\ c[2] = "%"
    BY <1>3
  <2> QED
    BY <1>3, <2>1 DEF Shaped
<1>4. CASE /\ q.args = <<>>
           /\ m = 2 /\ c[1] = "%" /\ c[2] \notin {"%", "p"} \cup Conversions
           /\ q.out = c
  <2>1. c = <<c[1], c[2]>>
    BY <1>1, <1>4
  <2>2. q.out = <<"%", c[2]>>
    BY <1>4, <2>1
  <2> QED
    BY <1>4, <2>2 DEF Shaped
<1>5. CASE /\ q.args = <<>>
           /\ m = 4 /\ c[1] = "%" /\ c[2] = "p" /\ c[4] \notin DecimalDigits
           /\ q.out = <<"%", "p", c[4]>>
  BY <1>5 DEF Shaped
<1>6. CASE m = 2 /\ c[1] = "%" /\ c[2] \in Conversions /\ Shows(q, c[2], 0, " ")
  BY <1>6 DEF Shaped
<1>7. CASE /\ m > 4 /\ c[1] = "%" /\ c[2] = "p" /\ c[m] \in Conversions
           /\ \A j \in 4..(m - 1) : c[j] \in DecimalDigits
           /\ \A w \in 0..MaxWidth : Dstoui(SubSeq(c, 4, m - 1), w) =>
                 w # 0 /\ Shows(q, c[m], w, c[3])
  BY <1>7 DEF Shaped
<1> QED
  BY <1>2, <1>3, <1>4, <1>5, <1>6, <1>7 DEF IsPiece

----------------------------------------------------------------------------
(* What stands before, in and behind a piece.                               *)

LEMMA Flat ==
    ASSUME Formats, pieces \in Seq(Pieces)
    PROVE  /\ Fmt = FlattenSeq(CharsOf(pieces)) /\ Fmt \in Seq(Glyphs)
           /\ Want = FlattenSeq(OutsOf(pieces)) /\ Want \in Seq(Glyphs)
           /\ Args = FlattenSeq(ArgsOf(pieces)) /\ Args \in Seq(Arguments)
<1>1. /\ CharsOf(pieces) \in Seq(Seq(Glyphs)) /\ OutsOf(pieces) \in Seq(Seq(Glyphs))
      /\ ArgsOf(pieces) \in Seq(Seq(Arguments))
  BY PiecesTyped
<1>2. /\ FlattenSeq(CharsOf(pieces)) \in Seq(Glyphs)
      /\ FlattenSeq(OutsOf(pieces)) \in Seq(Glyphs)
      /\ FlattenSeq(ArgsOf(pieces)) \in Seq(Arguments)
  BY <1>1, Flattened
<1> QED
  BY <1>2 DEF Fmt, Want, Args, CharsOf, OutsOf, ArgsOf

\* The characters c of the piece after the first k, which are L characters.
AfterPiece(k, L, c) ==
    /\ L \in Nat /\ c \in Seq(Glyphs)
    /\ L + Len(c) <= Len(Fmt)
    /\ \A j \in 1..Len(c) : Fmt[L + j] = c[j]
    /\ Len(Upto(CharsOf(pieces), k + 1)) = L + Len(c)

LEMMA NextChars ==
    ASSUME Formats, pieces \in Seq(Pieces), NEW k \in 0..(Len(pieces) - 1), NEW L,
           L = Len(Upto(CharsOf(pieces), k)), NEW c, c = pieces[k + 1].chars
    PROVE  AfterPiece(k, L, c)
<1> DEFINE q == CharsOf(pieces)
           u == Upto(q, k)
<1>1. q \in Seq(Seq(Glyphs)) /\ Len(q) = Len(pieces) /\ k + 1 \in 1..Len(q) /\ (k + 1) - 1 = k
  BY PiecesTyped
<1>2. q[k + 1] = c
  BY DEF CharsOf
<1>3. Fmt = FlattenSeq(q)
  BY Flat
<1> HIDE DEF q
<1>4. u \in Seq(Glyphs) /\ c \in Seq(Glyphs)
  <2>1. k \in 0..Len(q)
    BY <1>1
  <2> QED
    BY <1>1, <1>2, <2>1, UptoTyped
<1>5. PICK r \in Seq(Glyphs) : Fmt = u \o (c \o r)
  <2> DEFINE i == k + 1
  <2>1. i \in 1..Len(q) /\ i - 1 = k /\ q[i] = c
    BY <1>1, <1>2
  <2> HIDE DEF i
  <2>2. \E r \in Seq(Glyphs) : FlattenSeq(q) = Upto(q, i - 1) \o (q[i] \o r)
    BY <1>1, <2>1, UptoAround
  <2> QED
    BY <1>3, <2>1, <2>2
<1>6. Upto(q, k + 1) = u \o c
  <2> DEFINE i == k + 1
  <2>1. i \in 1..Len(q) /\ i - 1 = k /\ q[i] = c
    BY <1>1, <1>2
  <2> HIDE DEF i
  <2>2. Upto(q, i) = Upto(q, i - 1) \o q[i]
    BY <1>1, <2>1, UptoNext
  <2> QED
    BY <2>1, <2>2 DEF i
<1>7. L = Len(u)
  BY DEF q
<1> HIDE DEF u
<1>8. /\ Len(c \o r) = Len(c) + Len(r) /\ c \o r \in Seq(Glyphs)
      /\ \A j \in 1..Len(c) : (c \o r)[j] = c[j]
  BY <1>4
<1>9. /\ Len(Fmt) = L + Len(c) + Len(r)
      /\ \A j \in 1..Len(c) : Fmt[L + j] = (c \o r)[j]
  <2> DEFINE v == c \o r
  <2>1. v \in Seq(Glyphs) /\ Len(v) = Len(c) + Len(r)
    BY <1>8
  <2> HIDE DEF v
  <2>2. Fmt = u \o v
    BY <1>5 DEF v
  <2>3. Len(Fmt) = L + Len(v) /\ \A j \in 1..Len(v) : Fmt[L + j] = v[j]
    <3>1. Len(u \o v) = Len(u) + Len(v)
      BY <1>4, <2>1, ConcatProperties
    <3>2. ASSUME NEW j \in 1..Len(v) PROVE (u \o v)[Len(u) + j] = v[j]
      BY <1>4, <2>1
    <3> QED
      BY <1>7, <2>2, <3>1, <3>2
  <2>4. \A j \in 1..Len(c) : j \in 1..Len(v)
    BY <1>4, <2>1
  <2>5. Len(Fmt) = L + Len(c) + Len(r)
    BY <2>1, <2>3
  <2> QED
    BY <2>3, <2>4, <2>5 DEF v
<1>10. Len(Upto(CharsOf(pieces), k + 1)) = L + Len(c)
  BY <1>4, <1>6, <1>7 DEF q
<1>11. L \in Nat /\ Len(c) \in Nat /\ Len(r) \in Nat
  BY <1>4, <1>7
<1> QED
  BY <1>4, <1>8, <1>9, <1>10, <1>11 DEF AfterPiece

\* What it becomes.
LEMMA NextOut ==
    ASSUME Formats, pieces \in Seq(Pieces), NEW k \in 0..(Len(pieces) - 1), NEW o,
           o = pieces[k + 1].out
    PROVE  /\ Upto(OutsOf(pieces), k + 1) = Upto(OutsOf(pieces), k) \o o
           /\ o \in Seq(Glyphs)
           /\ Len(Upto(OutsOf(pieces), k)) + Len(o) <= Len(Want)
<1> DEFINE q == OutsOf(pieces)
           u == Upto(q, k)
           i == k + 1
<1>1. q \in Seq(Seq(Glyphs)) /\ Len(q) = Len(pieces) /\ i \in 1..Len(q) /\ i - 1 = k /\ k \in 0..Len(q)
  BY PiecesTyped
<1>2. q[i] = o
  BY DEF OutsOf
<1>3. Want = FlattenSeq(q)
  BY Flat
<1> HIDE DEF q, i
<1>4. u \in Seq(Glyphs) /\ o \in Seq(Glyphs)
  BY <1>1, <1>2, UptoTyped
<1>5. Upto(q, i) = u \o o
  BY <1>1, <1>2, UptoNext
<1>6. PICK r \in Seq(Glyphs) : Want = Upto(q, i) \o r
  BY <1>1, <1>3, UptoAround
<1> HIDE DEF u
<1>7. u \o o \in Seq(Glyphs) /\ Len(u \o o) = Len(u) + Len(o)
  BY <1>4
<1>8. Len(Want) = Len(u) + Len(o) + Len(r) /\ Len(r) \in Nat
  BY <1>5, <1>6, <1>7
<1>9. Len(u) + Len(o) <= Len(Want)
  BY <1>4, <1>8
<1> QED
  BY <1>4, <1>5, <1>9 DEF q, i, u

\* Its arguments.
LEMMA NextArgs ==
    ASSUME Formats, pieces \in Seq(Pieces), NEW k \in 0..(Len(pieces) - 1),
           NEW a \in Seq(Arguments), Args = Upto(ArgsOf(pieces), k) \o a
    PROVE  \E r \in Seq(Arguments) : /\ a = pieces[k + 1].args \o r
                                     /\ Args = Upto(ArgsOf(pieces), k + 1) \o r
<1> DEFINE q == ArgsOf(pieces)
           u == Upto(q, k)
           i == k + 1
           v == pieces[k + 1].args
<1>1. q \in Seq(Seq(Arguments)) /\ Len(q) = Len(pieces) /\ i \in 1..Len(q) /\ i - 1 = k /\ k \in 0..Len(q)
  BY PiecesTyped
<1>2. q[i] = v
  BY DEF ArgsOf
<1>3. Args = FlattenSeq(q)
  BY Flat
<1>4. Args = u \o a
  OBVIOUS
<1> HIDE DEF q, i, v
<1>5. u \in Seq(Arguments) /\ v \in Seq(Arguments)
  BY <1>1, <1>2, UptoTyped
<1>6. PICK r \in Seq(Arguments) : /\ Args = u \o (v \o r)
                                  /\ Args = Upto(q, i) \o r
  BY <1>1, <1>2, <1>3, UptoAround
<1> HIDE DEF u
<1>7. a = v \o r
  <2> DEFINE b == v \o r
  <2>1. b \in Seq(Arguments)
    BY <1>5
  <2> HIDE DEF b
  <2>2. u \o a = u \o b
    BY <1>4, <1>6 DEF b
  <2>3. Len(u \o a) = Len(u) + Len(a) /\ Len(u \o b) = Len(u) + Len(b)
    BY <1>5, <2>1
  <2>4. Len(a) = Len(b) /\ Len(u) \in Nat /\ Len(a) \in Nat
    BY <1>5, <2>1, <2>2, <2>3
  <2>5. ASSUME NEW j \in 1..Len(a) PROVE a[j] = b[j]
    <3>1. (u \o a)[Len(u) + j] = a[j]
      BY <1>5, <2>4
    <3>2. (u \o b)[Len(u) + j] = b[j]
      BY <1>5, <2>1, <2>4
    <3> QED
      BY <2>2, <3>1, <3>2
  <2>6. a = b
    BY <2>1, <2>4, <2>5, SeqEqual
  <2> QED
    BY <2>6 DEF b
<1>8. Args = Upto(q, i) \o r
  BY <1>6
<1> QED
  BY <1>7, <1>8 DEF q, i, v

----------------------------------------------------------------------------
(* How far the loop has come in a format P all of whose pieces fit.         *)

\* The first k pieces are written, and the next has not been looked at.
Between(P, k, at, a, w) ==
    /\ w = 0
    /\ at = Len(Upto(CharsOf(P), k)) + 1
    /\ FlattenSeq(ArgsOf(P)) = Upto(ArgsOf(P), k) \o a

\* Of the next piece the padding character and the width have been read.
Inside(P, k, at, a, w, c) ==
    /\ k < Len(P)
    /\ Len(P[k + 1].chars) > 4 /\ P[k + 1].chars[1] = "%" /\ P[k + 1].chars[2] = "p"
    /\ w \in 0..MaxWidth
    /\ Dstoui(SubSeq(P[k + 1].chars, 4, Len(P[k + 1].chars) - 1), w)
    /\ c = P[k + 1].chars[3]
    /\ at = Len(Upto(CharsOf(P), k)) + Len(P[k + 1].chars)
    /\ FlattenSeq(ArgsOf(P)) = Upto(ArgsOf(P), k) \o a

\* Once the string is finished, nothing is missing unless it had no room.
Reached(P, k, at, a, w, c, over, grows, cap) ==
    \/ ~over /\ Between(P, k, at, a, w)
    \/ ~over /\ Inside(P, k, at, a, w, c)
    \/ over /\ (grows \/ Len(FlattenSeq(OutsOf(P))) + 4 <= cap => k = Len(P))

Follows ==
    \E P : P = pieces /\ \E k \in 0..Len(P) :
        /\ s = Upto(OutsOf(P), k)
        /\ Reached(P, k, p, ap, padw, padc, ended, dyn, s_cap)

RenderInv ==
    /\ pieces \in Seq(Pieces)
    /\ (\A k \in 1..Len(pieces) : pieces[k].fits) => Follows

LEMMA FollowsAfter ==
    ASSUME NEW P, P = pieces', NEW k \in 0..Len(P), s' = Upto(OutsOf(P), k),
           Reached(P, k, p', ap', padw', padc', ended', dyn', s_cap')
    PROVE  Follows'
<1>1. (s = Upto(OutsOf(P), k))'
  BY DEF Upto, OutsOf, FlattenSeq
<1>2. Reached(P, k, p, ap, padw, padc, ended, dyn, s_cap)'
  BY DEF Reached, Between, Inside, Upto, OutsOf, CharsOf, ArgsOf, FlattenSeq, Dstoui, DigitSeq
<1> QED
  BY <1>1, <1>2 DEF Follows

LEMMA JoinedThrice ==
    ASSUME NEW a, NEW b, NEW c, IsText(a), IsText(b), IsText(c)
    PROVE  (a \o b) \o c = a \o (b \o c)
<1>1. PICK A : a \in Seq(A)
  BY DEF IsText
<1>2. PICK B : b \in Seq(B)
  BY DEF IsText
<1>3. PICK C : c \in Seq(C)
  BY DEF IsText
<1> DEFINE S == A \cup B \cup C
<1>4. A \subseteq S /\ B \subseteq S /\ C \subseteq S
  OBVIOUS
<1> HIDE DEF S
<1>5. a \in Seq(S) /\ b \in Seq(S) /\ c \in Seq(S)
  BY <1>1, <1>2, <1>3, <1>4, WiderSeq
<1> QED
  BY <1>5, Associative

\* The same, as the loop sees them.
Seen(k, L, c) ==
    /\ L \in Nat /\ c \in Seq(Glyphs) /\ Len(c) \in Nat \ {0}
    /\ \A j \in 1..Len(c) : CharAt(L + j) = c[j] /\ L + j <= Len(Fmt)
    /\ Len(Upto(CharsOf(pieces), k + 1)) = L + Len(c)

LEMMA Looking ==
    ASSUME Formats, pieces \in Seq(Pieces), NEW k \in 0..(Len(pieces) - 1), NEW L,
           L = Len(Upto(CharsOf(pieces), k)), NEW c, c = pieces[k + 1].chars
    PROVE  Seen(k, L, c)
<1>1. AfterPiece(k, L, c)
  BY NextChars
<1>2. Len(c) \in Nat \ {0}
  <2> DEFINE q == pieces[k + 1]
  <2>1. q \in Pieces
    OBVIOUS
  <2>2. c = q.chars
    OBVIOUS
  <2> HIDE DEF q
  <2> QED
    BY <2>1, <2>2, PieceTyped
<1>3. Len(Fmt) \in Nat
  BY Flat
<1>4. ASSUME NEW j \in 1..Len(c) PROVE CharAt(L + j) = c[j] /\ L + j <= Len(Fmt)
  <2>1. L + j <= Len(Fmt)
    BY <1>1, <1>2, <1>3 DEF AfterPiece
  <2> QED
    BY <1>1, <2>1 DEF CharAt, AfterPiece
<1> QED
  BY <1>1, <1>2, <1>4 DEF AfterPiece, Seen

\* Before the end of the format there is a piece to come.
LEMMA PieceToCome ==
    ASSUME Formats, pieces \in Seq(Pieces), NEW k \in 0..Len(pieces),
           Between(pieces, k, p, ap, padw), \A i \in 1..Len(pieces) : pieces[i].fits
    PROVE  CharAt(p) # "nul" <=> k < Len(pieces)
<1>1. CharsOf(pieces) \in Seq(Seq(Glyphs)) /\ Len(CharsOf(pieces)) = Len(pieces)
  BY PiecesTyped
<1>2. Fmt = FlattenSeq(CharsOf(pieces)) /\ Len(Fmt) \in Nat
  BY Flat
<1> DEFINE L == Len(Upto(CharsOf(pieces), k))
<1>3. p = L + 1
  BY DEF Between
<1>4. CASE k = Len(pieces)
  <2>1. Upto(CharsOf(pieces), k) = Fmt
    BY <1>1, <1>2, <1>4, UptoAll
  <2>2. p = Len(Fmt) + 1
    BY <1>3, <2>1
  <2>3. Len(Beyond) \in Nat
    BY FormatAssumption DEF FormatAssumption
  <2>4. ~(p <= Len(Fmt)) /\ ~(p - (Len(Fmt) + 1) \in 1..Len(Beyond))
    BY <1>2, <2>2, <2>3
  <2>5. CharAt(p) = "nul"
    BY <2>4 DEF CharAt
  <2> QED
    BY <1>4, <2>5
<1>5. CASE k < Len(pieces)
  <2> DEFINE c == pieces[k + 1].chars
  <2>1. k \in 0..(Len(pieces) - 1)
    BY <1>5
  <2>2. Seen(k, L, c)
    BY <2>1, Looking
  <2>3. c[1] # "nul"
    <3> DEFINE q == pieces[k + 1]
    <3>1. q \in Pieces /\ q.fits /\ c = q.chars
      BY <2>1
    <3> HIDE DEF q, c
    <3>2. IsPiece(q) /\ Len(c) \in Nat \ {0}
      BY <3>1, PieceTyped
    <3>3. 1 \in 1..Len(c)
      BY <3>2
    <3> QED
      BY <3>1, <3>2, <3>3 DEF IsPiece
  <2> HIDE DEF L, c
  <2>4. 1 \in 1..Len(c)
    BY <2>2 DEF Seen
  <2>5. CharAt(p) = c[1]
    BY <1>3, <2>2, <2>4 DEF Seen
  <2> QED
    BY <1>5, <2>3, <2>5
<1> QED
  BY <1>4, <1>5

\* One piece further.
LEMMA Advanced ==
    ASSUME Formats, pieces \in Seq(Pieces), NEW k \in 0..(Len(pieces) - 1),
           NEW q, q = pieces[k + 1], UNCHANGED pieces,
           s = Upto(OutsOf(pieces), k), s' = s \o q.out,
           p' = Len(Upto(CharsOf(pieces), k)) + Len(q.chars) + 1,
           Args = Upto(ArgsOf(pieces), k + 1) \o ap',
           padw' = 0, ~ended'
    PROVE  Follows'
<1> DEFINE P == pieces
           i == k + 1
<1>1. i \in 0..Len(P)
  OBVIOUS
<1>2. s' = Upto(OutsOf(P), i)
  BY NextOut
<1>3. p' = Len(Upto(CharsOf(P), i)) + 1
  <2> DEFINE L == Len(Upto(CharsOf(pieces), k))
             c == q.chars
  <2>1. Seen(k, L, c)
    BY Looking
  <2> QED
    BY <2>1 DEF Seen
<1>4. FlattenSeq(ArgsOf(P)) = Upto(ArgsOf(P), i) \o ap'
  BY Flat
<1>5. Between(P, i, p', ap', padw')
  BY <1>3, <1>4 DEF Between
<1> QED
  <2>1. PICK Q : Q = pieces
    OBVIOUS
  <2>2. Q = pieces' /\ i \in 0..Len(Q) /\ s' = Upto(OutsOf(Q), i) /\ Between(Q, i, p', ap', padw')
    BY <1>1, <1>2, <1>5, <2>1
  <2> HIDE DEF P, i
  <2>3. Reached(Q, i, p', ap', padw', padc', ended', dyn', s_cap')
    BY <2>2 DEF Reached
  <2> QED
    BY <2>2, <2>3, FollowsAfter

----------------------------------------------------------------------------
(* Every step goes on to the next piece, or into it.                        *)

\* What the steps below begin with.
Going(k) ==
    /\ Formats /\ FormatInv
    /\ pieces \in Seq(Pieces) /\ UNCHANGED pieces
    /\ \A i \in 1..Len(pieces) : pieces[i].fits
    /\ k \in 0..Len(pieces)
    /\ s = Upto(OutsOf(pieces), k)

\* Where the loop is before a piece: what it sees, and what the piece is.
LEMMA AtPiece ==
    ASSUME NEW k, Going(k), Between(pieces, k, p, ap, padw), InLoop,
           NEW q, q = pieces[k + 1], NEW L, L = Len(Upto(CharsOf(pieces), k))
    PROVE  /\ k \in 0..(Len(pieces) - 1) /\ p = L + 1 /\ padw = 0
           /\ q \in Pieces /\ IsPiece(q) /\ q.fits
           /\ Seen(k, L, q.chars) /\ CharAt(p) = q.chars[1]
           /\ Len(q.chars) > 1 => ConvAt = L + 2 /\ Conv = q.chars[2]
<1>1. k < Len(pieces)
  BY PieceToCome DEF Going, InLoop
<1>2. k \in 0..(Len(pieces) - 1)
  BY <1>1 DEF Going
<1>3. q \in Pieces /\ q.fits
  BY <1>2 DEF Going
<1>4. IsPiece(q)
  BY <1>3, PieceTyped DEF Going
<1>5. Seen(k, L, q.chars)
  <2> DEFINE c == q.chars
  <2>1. c = pieces[k + 1].chars
    OBVIOUS
  <2> HIDE DEF c
  <2>2. Seen(k, L, c)
    BY <1>2, <2>1, Looking DEF Going
  <2> QED
    BY <2>2 DEF c
<1>6. p = L + 1 /\ padw = 0
  BY DEF Between
<1>7. CharAt(p) = q.chars[1]
  BY <1>5, <1>6 DEF Seen
<1>8. ASSUME Len(q.chars) > 1
      PROVE  ConvAt = L + 2 /\ Conv = q.chars[2]
  <2>1. ConvAt = L + 2
    BY <1>5, <1>6 DEF ConvAt, Seen
  <2>2. 2 \in 1..Len(q.chars)
    BY <1>5, <1>8 DEF Seen
  <2> QED
    BY <1>5, <2>1, <2>2 DEF Conv, Seen
<1> QED
  BY <1>2, <1>3, <1>4, <1>5, <1>6, <1>7, <1>8

\* Where it is in a piece.
LEMMA InPiece ==
    ASSUME NEW k, Going(k), Inside(pieces, k, p, ap, padw, padc),
           NEW q, q = pieces[k + 1], NEW L, L = Len(Upto(CharsOf(pieces), k))
    PROVE  /\ k \in 0..(Len(pieces) - 1) /\ p = L + Len(q.chars) /\ p <= Len(Fmt)
           /\ q \in Pieces /\ padw # 0 /\ padw \in Nat
           /\ Seen(k, L, q.chars) /\ padc = q.chars[3] /\ padc \in Glyphs
           /\ ConvAt = p /\ Conv \in Conversions
           /\ Shows(q, Conv, padw, padc)
<1>1. k \in 0..(Len(pieces) - 1)
  BY DEF Going, Inside
<1>2. q \in Pieces /\ q.fits
  BY <1>1 DEF Going
<1>3. IsPiece(q)
  BY <1>2, PieceTyped DEF Going
<1> DEFINE c == q.chars
           m == Len(q.chars)
<1>4. c = pieces[k + 1].chars
  OBVIOUS
<1>5. Seen(k, L, c)
  <2> HIDE DEF c
  <2> QED
    BY <1>1, <1>4, Looking DEF Going
<1>6. /\ m > 4 /\ c[1] = "%" /\ c[2] = "p"
      /\ padw \in 0..MaxWidth /\ Dstoui(SubSeq(c, 4, m - 1), padw)
      /\ padc = c[3] /\ p = L + m
  BY DEF Inside
<1>7. c[m] \in Conversions /\ padw # 0 /\ Shows(q, c[m], padw, c[3])
  <2>1. /\ c[m] \in Conversions
        /\ \A w \in 0..MaxWidth : Dstoui(SubSeq(c, 4, m - 1), w) => w # 0 /\ Shows(q, c[m], w, c[3])
    <3>1. Shaped(q)
      BY <1>2, <1>3, Shape
    <3>2. m # 1 /\ m # 2 /\ m # 4
      <4>1. m \in Nat /\ m > 4
        BY <1>5, <1>6 DEF Seen
      <4> HIDE DEF m
      <4> QED
        BY <4>1
    <3> QED
      BY <3>1, <3>2, Zenon DEF Shaped
  <2> QED
    BY <1>6, <2>1
<1>8. m \in Nat \ {0} /\ m \in 1..m /\ 3 \in 1..m
  BY <1>5, <1>6 DEF Seen
<1> HIDE DEF c, m
<1>9. p <= Len(Fmt) /\ CharAt(p) = c[m]
  BY <1>5, <1>6, <1>8 DEF Seen, m, c
<1>10. ConvAt = p /\ Conv = c[m]
  BY <1>7, <1>9 DEF ConvAt, Conv
<1>11. padc \in Glyphs
  BY <1>5, <1>6, <1>8 DEF Seen, m, c
<1>12. padw \in Nat
  BY <1>6
<1> QED
  BY <1>1, <1>2, <1>5, <1>6, <1>7, <1>9, <1>10, <1>11, <1>12 DEF c, m

\* A piece without an argument has been written.
LEMMA Written ==
    ASSUME NEW k, Going(k), Between(pieces, k, p, ap, padw), k < Len(pieces),
           NEW q, q = pieces[k + 1], NEW L, L = Len(Upto(CharsOf(pieces), k)),
           q.args = <<>>, s' = s \o q.out, p' = L + Len(q.chars) + 1,
           UNCHANGED <<ap, padw, ended>>, ~ended
    PROVE  Follows'
<1>1. k \in 0..(Len(pieces) - 1)
  BY DEF Going
<1>2. ap \in Seq(Arguments) /\ Args = Upto(ArgsOf(pieces), k) \o ap
  BY Flat DEF Going, FormatInv, Between
<1>3. PICK r \in Seq(Arguments) : /\ ap = pieces[k + 1].args \o r
                                  /\ Args = Upto(ArgsOf(pieces), k + 1) \o r
  BY <1>1, <1>2, NextArgs DEF Going
<1>4. r = ap
  BY <1>3
<1>5. Args = Upto(ArgsOf(pieces), k + 1) \o ap'
  BY <1>3, <1>4
<1>6. padw' = 0 /\ ~ended'
  BY DEF Between
<1> QED
  BY <1>1, <1>5, <1>6, Advanced DEF Going

LEMMA PlainFollows ==
    ASSUME NEW k, Going(k), Between(pieces, k, p, ap, padw), Plain
    PROVE  Follows'
<1> DEFINE q == pieces[k + 1]
           L == Len(Upto(CharsOf(pieces), k))
<1>1. /\ k \in 0..(Len(pieces) - 1) /\ p = L + 1
      /\ q \in Pieces /\ IsPiece(q) /\ CharAt(p) = q.chars[1]
  BY AtPiece DEF Plain
<1>2. q.chars[1] # "%" /\ s' = s \o <<q.chars[1]>> /\ p' = p + 1
  BY <1>1 DEF Plain, Literally
<1> HIDE DEF q, L
<1>3. Len(q.chars) = 1 /\ q.args = <<>> /\ q.out = <<q.chars[1]>>
  <2>1. Shaped(q)
    BY <1>1, Shape
  <2> QED
    BY <1>2, <2>1 DEF Shaped
<1>4. p' = L + Len(q.chars) + 1
  BY <1>1, <1>2, <1>3
<1> QED
  <2>1. UNCHANGED <<ap, padw, ended>> /\ ~ended
    BY DEF Plain, InLoop
  <2>2. q = pieces[k + 1] /\ L = Len(Upto(CharsOf(pieces), k))
    BY DEF q, L
  <2>3. s' = s \o q.out /\ k < Len(pieces)
    BY <1>1, <1>2, <1>3
  <2> QED
    BY <1>3, <1>4, <2>1, <2>2, <2>3, Written

\* No such character ends a width.
LEMMA PercentFollows ==
    ASSUME NEW k, Going(k), PercentOrUnknown,
           \/ Between(pieces, k, p, ap, padw)
           \/ Inside(pieces, k, p, ap, padw, padc)
    PROVE  Follows'
<1> DEFINE q == pieces[k + 1]
           L == Len(Upto(CharsOf(pieces), k))
<1>1. Conv \notin Conversions
  BY DEF PercentOrUnknown, Conversions
<1>2. Between(pieces, k, p, ap, padw)
  BY <1>1, InPiece
<1>3. InLoop
  BY DEF PercentOrUnknown, AtConv
<1>4. /\ k \in 0..(Len(pieces) - 1) /\ p = L + 1 /\ padw = 0
      /\ q \in Pieces /\ IsPiece(q) /\ CharAt(p) = q.chars[1] /\ Seen(k, L, q.chars)
      /\ Len(q.chars) > 1 => ConvAt = L + 2 /\ Conv = q.chars[2]
  BY <1>2, <1>3, AtPiece
<1>5. q.chars[1] = "%"
  BY <1>4 DEF PercentOrUnknown, AtConv
<1> HIDE DEF q, L
<1>6. Shaped(q) /\ Len(q.chars) > 1
  <2>1. Shaped(q)
    BY <1>4, Shape
  <2>2. Len(q.chars) = 2 \/ Len(q.chars) = 4 \/ Len(q.chars) > 4
    BY <1>5, <2>1 DEF Shaped
  <2>3. Len(q.chars) \in Nat
    BY <1>4 DEF Seen
  <2>4. Len(q.chars) > 1
    BY <2>2, <2>3
  <2> QED
    BY <2>1, <2>4
<1>7. Conv = q.chars[2] /\ ConvAt = L + 2
  BY <1>4, <1>6
<1>8. /\ Conv # "p" /\ p' = ConvAt + 1
      /\ Conv = "%" => s' = s \o <<"%">>
      /\ Conv # "%" => s' = s \o <<"%", Conv>>
  BY DEF PercentOrUnknown, Literally
<1>9. Len(q.chars) = 2 /\ q.args = <<>> /\ q.out = IF Conv = "%" THEN <<"%">> ELSE <<"%", Conv>>
  BY <1>1, <1>5, <1>6, <1>7, <1>8 DEF Shaped
<1>10. s' = s \o q.out
  BY <1>8, <1>9
<1>11. p' = L + Len(q.chars) + 1
  BY <1>4, <1>7, <1>8, <1>9
<1> QED
  <2>1. UNCHANGED <<ap, padw, ended>> /\ ~ended
    BY <1>3 DEF PercentOrUnknown, InLoop
  <2>2. q = pieces[k + 1] /\ L = Len(Upto(CharsOf(pieces), k)) /\ k < Len(pieces)
    BY <1>4 DEF q, L
  <2> QED
    BY <1>2, <1>9, <1>10, <1>11, <2>1, <2>2, Written

LEMMA NotDigits == Conversions \cap DecimalDigits = {}
BY DEF Conversions, DecimalDigits, DigitSeq

\* The digits of a width end where its conversion stands.
LEMMA WidthEnds ==
    ASSUME Formats, pieces \in Seq(Pieces), NEW k, NEW L, NEW c, Seen(k, L, c),
           Len(c) > 4, c[Len(c)] \in Conversions,
           \A j \in 4..(Len(c) - 1) : c[j] \in DecimalDigits
    PROVE  /\ EndOfNumber(L + 4) = L + Len(c)
           /\ NumberAt(L + 4) = SubSeq(c, 4, Len(c) - 1)
<1> DEFINE m == Len(c)
           F == Len(Fmt) + Len(Beyond) + 1
<1>1. m \in Nat /\ L \in Nat /\ F \in Nat /\ L + m <= F /\ m > 4
  <2>1. Len(Fmt) \in Nat /\ Len(Beyond) \in Nat
    BY Flat, FormatAssumption DEF FormatAssumption
  <2>2. m \in Nat /\ L \in Nat /\ m \in 1..m
    BY DEF Seen
  <2>3. L + m <= Len(Fmt)
    BY <2>2 DEF Seen
  <2> QED
    BY <2>1, <2>2, <2>3
<1>2. \A j \in 1..m : CharAt(L + j) = c[j]
  BY DEF Seen
<1>3. CharAt(L + m) \notin DecimalDigits
  BY <1>1, <1>2, NotDigits
<1>4. ASSUME NEW j \in (L + 4)..(L + m - 1)
      PROVE  CharAt(j) \in DecimalDigits
  <2>1. j - L \in 4..(m - 1) /\ j - L \in 1..m /\ L + (j - L) = j
    BY <1>1
  <2> QED
    BY <1>2, <2>1
<1> HIDE DEF m, F
<1>5. ASSUME NEW e \in (L + 4)..(F + 1), CharAt(e) \notin DecimalDigits,
             \A j \in (L + 4)..(e - 1) : CharAt(j) \in DecimalDigits
      PROVE  e = L + m
  <2>1. CASE e < L + m
    <3>1. e \in (L + 4)..(L + m - 1)
      BY <1>1, <2>1
    <3> QED
      BY <1>4, <1>5, <3>1
  <2>2. CASE e > L + m
    <3>1. L + m \in (L + 4)..(e - 1)
      BY <1>1, <2>2
    <3> QED
      BY <1>3, <1>5, <3>1
  <2> QED
    BY <1>1, <2>1, <2>2
<1>6. L + m \in (L + 4)..(F + 1)
  BY <1>1
<1>7. EndOfNumber(L + 4) = L + m
  <2> DEFINE x == EndOfNumber(L + 4)
  <2>1. /\ x \in (L + 4)..(F + 1) /\ CharAt(x) \notin DecimalDigits
        /\ \A j \in (L + 4)..(x - 1) : CharAt(j) \in DecimalDigits
    <3>1. \E e \in (L + 4)..(F + 1) : /\ CharAt(e) \notin DecimalDigits
                                    /\ \A j \in (L + 4)..(e - 1) : CharAt(j) \in DecimalDigits
      <4> DEFINE y == L + m
      <4>1. y - 1 = L + m - 1
        BY <1>1
      <4>2. \A j \in (L + 4)..(y - 1) : CharAt(j) \in DecimalDigits
        BY <1>4, <4>1, Zenon
      <4>3. y \in (L + 4)..(F + 1) /\ CharAt(y) \notin DecimalDigits
        BY <1>3, <1>6
      <4> HIDE DEF y
      <4> QED
        BY <4>2, <4>3, Zenon
    <3>2. (L + 4)..(F + 1) = (L + 4)..(Len(Fmt) + Len(Beyond) + 2)
      <4>1. Len(Fmt) \in Nat /\ Len(Beyond) \in Nat
        BY Flat, FormatAssumption DEF FormatAssumption
      <4> QED
        BY <4>1 DEF F
    <3> QED
      BY <3>1, <3>2, Zenon DEF EndOfNumber
  <2> HIDE DEF x
  <2>2. x = L + m
    BY <1>5, <2>1
  <2> QED
    BY <2>2 DEF x
<1>8. NumberAt(L + 4) = SubSeq(c, 4, m - 1)
  <2> DEFINE u == SubSeq(c, 4, m - 1)
  <2>1. (L + m) - (L + 4) = m - 4
    BY <1>1
  <2>2. NumberAt(L + 4) = [j \in 1..(m - 4) |-> CharAt(L + 4 + j - 1)]
    BY <1>7, <2>1 DEF NumberAt
  <2>3. u = [j \in 1..(m - 4) |-> c[3 + j]]
    BY <1>1 DEF Seen, m
  <2>4. ASSUME NEW j \in 1..(m - 4) PROVE CharAt(L + 4 + j - 1) = c[3 + j]
    <3>1. 3 + j \in 1..m /\ L + (3 + j) = L + 4 + j - 1
      BY <1>1
    <3> QED
      BY <1>2, <3>1
  <2> HIDE DEF u
  <2>5. NumberAt(L + 4) = u
    BY <2>2, <2>3, <2>4
  <2> QED
    BY <2>5 DEF u
<1> QED
  BY <1>7, <1>8 DEF m

\* A width leads into the piece, and without one the piece is written.
LEMMA PadFollows ==
    ASSUME NEW k, Going(k), Pad,
           \/ Between(pieces, k, p, ap, padw)
           \/ Inside(pieces, k, p, ap, padw, padc)
    PROVE  Follows'
<1> DEFINE q == pieces[k + 1]
           L == Len(Upto(CharsOf(pieces), k))
<1>1. Conv \notin Conversions
  BY DEF Pad, Conversions
<1>2. Between(pieces, k, p, ap, padw)
  BY <1>1, InPiece
<1>3. InLoop
  BY DEF Pad, AtConv
<1>4. /\ k \in 0..(Len(pieces) - 1) /\ p = L + 1 /\ padw = 0
      /\ q \in Pieces /\ IsPiece(q) /\ CharAt(p) = q.chars[1] /\ Seen(k, L, q.chars)
      /\ Len(q.chars) > 1 => ConvAt = L + 2 /\ Conv = q.chars[2]
  BY <1>2, <1>3, AtPiece
<1>5. q.chars[1] = "%"
  BY <1>4 DEF Pad, AtConv
<1>6. q = pieces[k + 1] /\ L = Len(Upto(CharsOf(pieces), k)) /\ k < Len(pieces)
  BY <1>4
<1> HIDE DEF q, L
<1>7. Shaped(q) /\ Len(q.chars) > 1
  <2>1. Shaped(q)
    BY <1>4, Shape
  <2>2. Len(q.chars) = 2 \/ Len(q.chars) = 4 \/ Len(q.chars) > 4
    BY <1>5, <2>1 DEF Shaped
  <2>3. Len(q.chars) \in Nat
    BY <1>4 DEF Seen
  <2>4. Len(q.chars) > 1
    BY <2>2, <2>3
  <2> QED
    BY <2>1, <2>4
<1>8. q.chars[2] = "p" /\ ConvAt = L + 2
  BY <1>4, <1>7 DEF Pad
<1>9. ~ended /\ UNCHANGED <<ap, ended>> /\ L \in Nat
  BY <1>3, <1>4 DEF Pad, InLoop, Seen
<1>10. /\ ConvAt + 1 = L + 3 /\ ConvAt + 2 = L + 4
       /\ (ConvAt + 2) + 1 = L + 5
  BY <1>8, <1>9
<1>11. \/ /\ Len(q.chars) = 4 /\ q.chars[4] \notin DecimalDigits
          /\ q.args = <<>> /\ q.out = <<"%", "p", q.chars[4]>>
       \/ /\ Len(q.chars) > 4 /\ q.chars[Len(q.chars)] \in Conversions
          /\ \A j \in 4..(Len(q.chars) - 1) : q.chars[j] \in DecimalDigits
  BY <1>1, <1>4, <1>5, <1>7, <1>8, Zenon DEF Shaped, Pad, Conversions
<1>12. CharAt(L + 3) = q.chars[3] /\ CharAt(L + 4) = q.chars[4]
  <2>1. 3 \in 1..Len(q.chars) /\ 4 \in 1..Len(q.chars)
    BY <1>4, <1>11 DEF Seen
  <2> QED
    BY <1>4, <2>1 DEF Seen
<1>13. CASE /\ Len(q.chars) = 4 /\ q.chars[4] \notin DecimalDigits
            /\ q.args = <<>> /\ q.out = <<"%", "p", q.chars[4]>>
  <2>1. s' = s \o <<"%", "p", CharAt(L + 4)>> /\ p' = L + 5 /\ padw' = padw
    BY <1>10, <1>12, <1>13 DEF Pad, Literally
  <2>2. s' = s \o q.out /\ p' = L + Len(q.chars) + 1
    <3>1. s' = s \o q.out
      BY <1>12, <1>13, <2>1, Zenon
    <3>2. p' = L + Len(q.chars) + 1
      BY <1>9, <1>13, <2>1
    <3> QED
      BY <3>1, <3>2
  <2>3. UNCHANGED <<ap, padw, ended>>
    BY <1>9, <2>1
  <2> QED
    BY <1>2, <1>6, <1>9, <1>13, <2>2, <2>3, Written
<1>14. CASE /\ Len(q.chars) > 4 /\ q.chars[Len(q.chars)] \in Conversions
            /\ \A j \in 4..(Len(q.chars) - 1) : q.chars[j] \in DecimalDigits
  <2> DEFINE c == q.chars
             m == Len(q.chars)
  <2>1. m \in Nat /\ m > 4 /\ 4 \in 4..(m - 1)
    BY <1>4, <1>14 DEF Seen
  <2>2. CharAt(L + 4) \in DecimalDigits
    BY <1>12, <1>14, <2>1
  <2>3. /\ EndOfNumber(L + 4) = L + m
        /\ NumberAt(L + 4) = SubSeq(c, 4, m - 1)
    <3> HIDE DEF c
    <3>1. Seen(k, L, c) /\ Len(c) > 4 /\ c[Len(c)] \in Conversions
          /\ \A j \in 4..(Len(c) - 1) : c[j] \in DecimalDigits
      BY <1>4, <1>14 DEF c
    <3>2. /\ EndOfNumber(L + 4) = L + Len(c)
          /\ NumberAt(L + 4) = SubSeq(c, 4, Len(c) - 1)
      BY <3>1, WidthEnds DEF Going
    <3> QED
      BY <3>2 DEF c
  <2>4. /\ padw' \in 0..MaxWidth
        /\ Dstoui(NumberAt(L + 4), padw')
        /\ s' = s \o <<>> /\ p' = EndOfNumber(L + 4)
        /\ padc' = CharAt(L + 3)
    BY <1>10, <2>2 DEF Pad, Literally
  <2>5. Dstoui(SubSeq(c, 4, m - 1), padw') /\ p' = L + m
    BY <2>3, <2>4, Zenon
  <2>6. padc' = c[3]
    BY <1>12, <2>4
  <2>7. s' = s
    BY <2>4 DEF Going, FormatInv, IsText
  <2>8. PICK P : P = pieces
    OBVIOUS
  <2>9. P = pieces' /\ k \in 0..Len(P) /\ s' = Upto(OutsOf(P), k)
    BY <2>7, <2>8 DEF Going
  <2>10. FlattenSeq(ArgsOf(P)) = Upto(ArgsOf(P), k) \o ap'
    BY <1>2, <1>9, <2>8 DEF Between
  <2>11. Inside(P, k, p', ap', padw', padc')
    BY <1>5, <1>6, <1>8, <2>1, <2>4, <2>5, <2>6, <2>8, <2>10 DEF Inside
  <2>12. Reached(P, k, p', ap', padw', padc', ended', dyn', s_cap')
    BY <1>9, <2>11 DEF Reached
  <2> QED
    BY <2>9, <2>12, FollowsAfter
<1> QED
  BY <1>11, <1>13, <1>14

LEMMA OneTaken ==
    ASSUME NEW A, NEW b \in Seq(A), Len(b) = 1, NEW r \in Seq(A), NEW a, a = b \o r
    PROVE  a # <<>> /\ Head(a) = b[1] /\ Tail(a) = r /\ b[1] \in A
<1>1. a \in Seq(A) /\ Len(a) = 1 + Len(r) /\ Len(r) \in Nat
  <2>1. b \o r \in Seq(A) /\ Len(b \o r) = Len(b) + Len(r) /\ Len(r) \in Nat
    BY ConcatProperties, LenProperties
  <2> QED
    BY <2>1, Zenon
<1>2. a # <<>>
  BY <1>1
<1>3. Head(a) = b[1] /\ b[1] \in A
  BY <1>1, <1>2
<1>4. Tail(a) \in Seq(A) /\ Len(Tail(a)) = Len(r)
  BY <1>1, <1>2
<1>5. ASSUME NEW i \in 1..Len(r) PROVE Tail(a)[i] = r[i]
  <2>1. Tail(a)[i] = a[i + 1]
    BY <1>1, <1>2
  <2> QED
    BY <1>1, <2>1
<1>6. Tail(a) = r
  BY <1>4, <1>5, SeqEqual
<1> QED
  BY <1>2, <1>3, <1>6

\* What a conversion in the next piece takes and writes.
LEMMA Taken ==
    ASSUME NEW k, Going(k), NEW q, q = pieces[k + 1], k \in 0..(Len(pieces) - 1),
           Args = Upto(ArgsOf(pieces), k) \o ap,
           NEW pad \in Glyphs, Shows(q, Conv, padw, pad), padw # 0 => padc = pad,
           NEW arg, arg \in IF ap # <<>> THEN {Head(ap)} ELSE Arguments, Convert
    PROVE  /\ arg = q.args[1] /\ arg \in Arguments
           /\ Args = Upto(ArgsOf(pieces), k + 1) \o ap'
           /\ Blank(padc, Fill(Conv, arg)) \o InWidth(Conv, arg) = q.out
<1>1. q \in Pieces
  BY DEF Going
<1>2. q.args \in Seq(Arguments) /\ q.out \in Seq(Glyphs)
  BY <1>1, PieceTyped DEF Going
<1>3. Len(q.args) = 1
  BY DEF Shows
<1>4. ap \in Seq(Arguments)
  BY DEF Going, FormatInv
<1>5. PICK r \in Seq(Arguments) : /\ ap = pieces[k + 1].args \o r
                                  /\ Args = Upto(ArgsOf(pieces), k + 1) \o r
  BY <1>4, NextArgs DEF Going
<1> DEFINE b == q.args
<1>6. ap = b \o r
  BY <1>5
<1> HIDE DEF b
<1>7. b \in Seq(Arguments) /\ Len(b) = 1
  BY <1>2, <1>3 DEF b
<1>8. ap # <<>> /\ Head(ap) = b[1] /\ Tail(ap) = r /\ b[1] \in Arguments
  BY <1>6, <1>7, OneTaken
<1>9. arg = q.args[1] /\ arg \in Arguments
  BY <1>8 DEF b
<1>10. Args = Upto(ArgsOf(pieces), k + 1) \o ap'
  BY <1>5, <1>8 DEF Convert
<1>11. Conv \in Conversions /\ padw \in Nat
  BY DEF Convert, Going, FormatInv
<1>12. Blank(padc, Fill(Conv, q.args[1])) \o InWidth(Conv, q.args[1]) = q.out
  BY <1>2, <1>11, ShownRight
<1> QED
  BY <1>9, <1>10, <1>12

LEMMA ConvertedFollows ==
    ASSUME NEW k, Going(k), NEW q, q = pieces[k + 1], k \in 0..(Len(pieces) - 1),
           Args = Upto(ArgsOf(pieces), k) \o ap,
           NEW pad \in Glyphs, Shows(q, Conv, padw, pad), padw # 0 => padc = pad, Convert,
           ConvAt = Len(Upto(CharsOf(pieces), k)) + Len(q.chars)
    PROVE  Follows'
<1>1. PICK arg \in IF ap # <<>> THEN {Head(ap)} ELSE Arguments : Converted(arg)
  BY DEF Convert
<1>2. /\ arg \in Arguments
      /\ Args = Upto(ArgsOf(pieces), k + 1) \o ap'
      /\ Blank(padc, Fill(Conv, arg)) \o InWidth(Conv, arg) = q.out
  BY <1>1, Taken
<1> DEFINE f == Fill(Conv, arg)
           b == Blank(padc, f)
           w == InWidth(Conv, arg)
<1>3. IsText(w) /\ f \in Nat
  BY <1>2, WrittenTyped DEF Going, FormatInv
<1>4. IsText(b) /\ Len(b) = f
  <2>1. b = [j \in 1..f |-> b[j]]
    BY DEF Blank
  <2> HIDE DEF f, b
  <2> QED
    BY <1>3, <2>1, Spelled
<1>5. IsText(b) /\ IsText(s)
  BY <1>4 DEF Going, FormatInv
<1>6. ~ended /\ UNCHANGED dyn /\ (~dyn => CapNow = s_cap)
  BY DEF Convert, AtConv, InLoop, CapNow
<1>7. CASE /\ s' = s \o [j \in 1..f |-> padc] \o w
           /\ p' = ConvAt + 1 /\ padw' = 0 /\ UNCHANGED ended
  <2>1. s' = (s \o b) \o w
    BY <1>7 DEF Blank
  <2> HIDE DEF b, w
  <2>2. (s \o b) \o w = s \o (b \o w)
    <3>1. IsText(s) /\ IsText(b) /\ IsText(w)
      BY <1>3, <1>5
    <3> HIDE DEF f
    <3> QED
      BY <3>1, JoinedThrice
  <2>3. s' = s \o q.out
    BY <1>2, <2>1, <2>2 DEF b, w
  <2>4. p' = Len(Upto(CharsOf(pieces), k)) + Len(q.chars) + 1
    BY <1>7
  <2> QED
    BY <1>2, <1>6, <1>7, <2>3, <2>4, Advanced DEF Going
<1>8. CASE /\ CapNow < Needed(Conv, arg) /\ ~dyn
           /\ ended' = TRUE /\ UNCHANGED <<s, s_cap, p, padw>>
  <2> DEFINE o == q.out
  <2>1. s_cap < Len(s) + Len(w) + f + 1
    BY <1>6, <1>8 DEF Needed
  <2>2. Len(o) = f + Len(w) /\ Len(w) \in Nat
    <3> HIDE DEF b, w, f
    <3>1. Len(b \o w) = Len(b) + Len(w) /\ Len(w) \in Nat
      BY <1>3, <1>5, Joined, TextLen
    <3> QED
      BY <1>2, <1>4, <3>1 DEF b, w, f
  <2>3. Len(s) + Len(o) <= Len(Want) /\ Len(o) \in Nat
    <3>1. o = pieces[k + 1].out
      OBVIOUS
    <3> HIDE DEF o
    <3> QED
      BY <3>1, NextOut DEF Going
  <2>4. Len(s) \in Nat /\ s_cap \in Nat /\ Len(Want) \in Nat
    BY TextLen, Flat DEF Going, FormatInv
  <2>5. ~(Len(Want) + 4 <= s_cap)
    <3> HIDE DEF o, w, f
    <3> QED
      BY <1>3, <2>1, <2>2, <2>3, <2>4
  <2>6. PICK P : P = pieces
    OBVIOUS
  <2>7. P = pieces' /\ k \in 0..Len(P) /\ s' = Upto(OutsOf(P), k)
    BY <1>8, <2>6 DEF Going
  <2>8. ~(Len(FlattenSeq(OutsOf(P))) + 4 <= s_cap') /\ ~dyn'
    BY <1>6, <1>8, <2>5, <2>6, Flat DEF Going
  <2>9. Reached(P, k, p', ap', padw', padc', ended', dyn', s_cap')
    BY <1>8, <2>8 DEF Reached
  <2> QED
    BY <2>7, <2>9, FollowsAfter
<1> QED
  BY <1>1, <1>7, <1>8 DEF Converted

LEMMA ConvertFollows ==
    ASSUME NEW k, Going(k), Convert,
           \/ Between(pieces, k, p, ap, padw)
           \/ Inside(pieces, k, p, ap, padw, padc)
    PROVE  Follows'
<1> DEFINE q == pieces[k + 1]
           L == Len(Upto(CharsOf(pieces), k))
<1>1. InLoop /\ Conv \in Conversions
  BY DEF Convert, AtConv
<1>2. q = pieces[k + 1] /\ L = Len(Upto(CharsOf(pieces), k))
  OBVIOUS
<1>3. ASSUME Between(pieces, k, p, ap, padw)
      PROVE  Follows'
  <2>1. /\ k \in 0..(Len(pieces) - 1) /\ p = L + 1 /\ padw = 0
        /\ q \in Pieces /\ IsPiece(q) /\ CharAt(p) = q.chars[1] /\ Seen(k, L, q.chars)
        /\ Len(q.chars) > 1 => ConvAt = L + 2 /\ Conv = q.chars[2]
    BY <1>1, <1>3, AtPiece
  <2>2. q.chars[1] = "%"
    BY <2>1 DEF Convert, AtConv
  <2> HIDE DEF q, L
  <2>3. Shaped(q) /\ Len(q.chars) > 1
    <3>1. Shaped(q)
      BY <2>1, Shape
    <3>2. Len(q.chars) = 2 \/ Len(q.chars) = 4 \/ Len(q.chars) > 4
      BY <2>2, <3>1 DEF Shaped
    <3>3. Len(q.chars) \in Nat
      BY <2>1 DEF Seen
    <3>4. Len(q.chars) > 1
      BY <3>2, <3>3
    <3> QED
      BY <3>1, <3>4
  <2>4. Conv = q.chars[2] /\ ConvAt = L + 2
    BY <2>1, <2>3
  <2>5. "p" \notin Conversions /\ "%" \notin Conversions
    BY DEF Conversions
  <2>6. Len(q.chars) = 2 /\ Shows(q, Conv, padw, " ")
    BY <1>1, <2>1, <2>2, <2>3, <2>4, <2>5, Zenon DEF Shaped
  <2>7. " " \in Glyphs
    BY DEF Glyphs
  <2>8. Args = Upto(ArgsOf(pieces), k) \o ap
    BY <1>3, Flat DEF Between, Going
  <2>9. ConvAt = L + Len(q.chars)
    BY <2>4, <2>6
  <2> QED
    BY <1>2, <2>1, <2>6, <2>7, <2>8, <2>9, ConvertedFollows
<1>4. ASSUME Inside(pieces, k, p, ap, padw, padc)
      PROVE  Follows'
  <2>1. /\ k \in 0..(Len(pieces) - 1) /\ p = L + Len(q.chars)
        /\ padc \in Glyphs /\ ConvAt = p /\ Shows(q, Conv, padw, padc)
    BY <1>4, InPiece
  <2>2. Args = Upto(ArgsOf(pieces), k) \o ap
    BY <1>4, Flat DEF Inside, Going
  <2> HIDE DEF q, L
  <2> QED
    BY <1>2, <2>1, <2>2, ConvertedFollows
<1> QED
  BY <1>3, <1>4

\* At the end of the format every piece is written; before it, the loop breaks
\* only in a buffer with no room for four characters.
LEMMA FinishFollows ==
    ASSUME NEW k, Going(k), Finish,
           \/ Between(pieces, k, p, ap, padw)
           \/ Inside(pieces, k, p, ap, padw, padc)
    PROVE  Follows'
<1>1. PICK P : P = pieces
  OBVIOUS
<1>2. P = pieces' /\ k \in 0..Len(P) /\ s' = Upto(OutsOf(P), k)
  BY <1>1 DEF Going, Finish
<1>3. ended' /\ UNCHANGED <<dyn, s_cap>>
  BY DEF Finish
<1>4. dyn \/ Len(FlattenSeq(OutsOf(P))) + 4 <= s_cap => k = Len(P)
  <2>1. CASE CharAt(p) = "nul"
    <3>1. ~Inside(pieces, k, p, ap, padw, padc)
      <4>1. "nul" \notin Conversions
        BY DEF Conversions
      <4> QED
        BY <2>1, <4>1, InPiece DEF Conv
    <3>2. Between(pieces, k, p, ap, padw)
      BY <3>1
    <3>3. ~(k < Len(pieces))
      BY <2>1, <3>2, PieceToCome DEF Going
    <3> QED
      BY <1>1, <3>3 DEF Going
  <2>2. CASE ~Room /\ ~dyn
    <3>1. PICK r \in Seq(Glyphs) : Want = s \o r
      <4> DEFINE o == OutsOf(pieces)
      <4>1. o \in Seq(Seq(Glyphs)) /\ Len(o) = Len(pieces) /\ Want = FlattenSeq(o)
        BY PiecesTyped, Flat DEF Going
      <4> HIDE DEF o
      <4>2. \E r \in Seq(Glyphs) : FlattenSeq(o) = Upto(o, k) \o r
        BY <4>1, UptoPrefix DEF Going
      <4> QED
        BY <4>1, <4>2 DEF Going, o
    <3>2. s \in Seq(Glyphs)
      BY PiecesTyped, UptoTyped DEF Going
    <3>3. Len(s) <= Len(Want) /\ Len(s) \in Nat /\ Len(Want) \in Nat
      BY <3>1, <3>2
    <3>4. ~(Len(Want) + 4 <= s_cap)
      BY <2>2, <3>3 DEF Room, Going, FormatInv
    <3> QED
      BY <1>1, <2>2, <3>4, Flat DEF Going
  <2> QED
    BY <2>1, <2>2 DEF Finish
<1>5. Reached(P, k, p', ap', padw', padc', ended', dyn', s_cap')
  BY <1>3, <1>4 DEF Reached
<1> QED
  BY <1>2, <1>5, FollowsAfter

LEMMA StillFollows ==
    ASSUME NEW k, Going(k), Reached(pieces, k, p, ap, padw, padc, ended, dyn, s_cap),
           UNCHANGED formatVars
    PROVE  Follows'
<1>1. PICK P : P = pieces
  OBVIOUS
<1>2. P = pieces' /\ k \in 0..Len(P) /\ s' = Upto(OutsOf(P), k)
  BY <1>1 DEF Going, formatVars
<1>3. Reached(P, k, p', ap', padw', padc', ended', dyn', s_cap')
  <2>1. Reached(P, k, p, ap, padw, padc, ended, dyn, s_cap)
    BY <1>1
  <2>2. /\ p' = p /\ ap' = ap /\ padw' = padw /\ padc' = padc
        /\ ended' = ended /\ dyn' = dyn /\ s_cap' = s_cap
    BY DEF formatVars
  <2> QED
    BY <2>1, <2>2, Zenon
<1> QED
  BY <1>2, <1>3, FollowsAfter

LEMMA RenderInit ==
    ASSUME Formats, FormatInit
    PROVE  RenderInv
<1>1. PICK n \in 1..MaxPieces : pieces \in [1..n -> Pieces]
  BY DEF FormatInit
<1>2. n \in Nat
  BY <1>1, FormatAssumption DEF FormatAssumption
<1>3. pieces \in Seq(Pieces)
  BY <1>1, <1>2
<1>4. Follows
  <2> DEFINE P == pieces
  <2>1. /\ CharsOf(P) \in Seq(Seq(Glyphs)) /\ OutsOf(P) \in Seq(Seq(Glyphs))
        /\ ArgsOf(P) \in Seq(Seq(Arguments))
    BY <1>3, PiecesTyped
  <2>2. Upto(CharsOf(P), 0) = <<>> /\ Upto(OutsOf(P), 0) = <<>> /\ Upto(ArgsOf(P), 0) = <<>>
    BY <2>1, UptoZero
  <2>3. s = Upto(OutsOf(P), 0) /\ 0 \in 0..Len(P)
    <3>1. s = <<>>
      BY Zenon DEF FormatInit
    <3> QED
      BY <1>3, <2>2, <3>1
  <2>4. p = Len(Upto(CharsOf(P), 0)) + 1
    <3>1. p = 1
      BY Zenon DEF FormatInit
    <3>2. Len(Upto(CharsOf(P), 0)) = 0
      BY <2>2
    <3> QED
      BY <3>1, <3>2
  <2>5. FlattenSeq(ArgsOf(P)) = Upto(ArgsOf(P), 0) \o ap
    <3>1. Args = FlattenSeq(ArgsOf(P)) /\ Args \in Seq(Arguments)
      BY <1>3, Flat
    <3>2. <<>> \o Args = Args
      BY <3>1
    <3> QED
      BY <2>2, <3>1, <3>2 DEF FormatInit
  <2>6. Between(P, 0, p, ap, padw)
    BY <2>4, <2>5 DEF Between, FormatInit
  <2>7. Reached(P, 0, p, ap, padw, padc, ended, dyn, s_cap)
    BY <2>6 DEF Reached, FormatInit
  <2> QED
    BY <2>3, <2>7 DEF Follows
<1> QED
  BY <1>3, <1>4 DEF RenderInv

LEMMA RenderStep ==
    ASSUME Formats, FormatInv, RenderInv, [FormatNext]_formatVars
    PROVE  RenderInv'
<1>1. UNCHANGED pieces
  BY DEF FormatNext, Plain, PercentOrUnknown, Pad, Convert, Finish, formatVars
<1>2. pieces' \in Seq(Pieces)
  BY <1>1 DEF RenderInv
<1>3. ASSUME \A i \in 1..Len(pieces) : pieces[i].fits
      PROVE  Follows'
  <2>1. Follows
    BY <1>3 DEF RenderInv
  <2>2. PICK k \in 0..Len(pieces) :
            /\ s = Upto(OutsOf(pieces), k)
            /\ Reached(pieces, k, p, ap, padw, padc, ended, dyn, s_cap)
    BY <2>1 DEF Follows
  <2>3. Going(k)
    BY <1>1, <1>3, <2>2 DEF Going, RenderInv
  <2>4. CASE UNCHANGED formatVars
    BY <2>2, <2>3, <2>4, StillFollows
  <2>5. CASE FormatNext
    <3>1. ~ended
      BY <2>5 DEF FormatNext, Plain, PercentOrUnknown, Pad, Convert, Finish, AtConv, InLoop
    <3>2. \/ Between(pieces, k, p, ap, padw)
          \/ Inside(pieces, k, p, ap, padw, padc)
      BY <2>2, <3>1, Zenon DEF Reached
    <3>3. CASE Plain
      <4>1. Between(pieces, k, p, ap, padw)
        BY <2>3, <3>2, <3>3, InPiece DEF Plain
      <4> QED
        BY <2>3, <3>3, <4>1, PlainFollows
    <3> QED
      BY <2>3, <2>5, <3>2, <3>3, PercentFollows, PadFollows, ConvertFollows, FinishFollows
      DEF FormatNext
  <2> QED
    BY <2>4, <2>5
<1>4. (\A i \in 1..Len(pieces) : pieces[i].fits)' => Follows'
  BY <1>1, <1>3
<1> QED
  BY <1>2, <1>4 DEF RenderInv

LEMMA RenderInvRenders ==
    ASSUME Formats, FormatInv, RenderInv
    PROVE  Renders
<1> SUFFICES ASSUME ended, \A i \in 1..Len(pieces) : pieces[i].fits
             PROVE  /\ IsPrefix(s, Want)
                    /\ dyn \/ Len(Want) + 4 <= s_cap => s = Want
  BY DEF Renders
<1> DEFINE o == OutsOf(pieces)
<1>1. o \in Seq(Seq(Glyphs)) /\ Len(o) = Len(pieces) /\ Want = FlattenSeq(o)
  BY PiecesTyped, Flat DEF RenderInv
<1>2. PICK k \in 0..Len(o) :
          /\ s = Upto(o, k)
          /\ Reached(pieces, k, p, ap, padw, padc, ended, dyn, s_cap)
  BY <1>1 DEF RenderInv, Follows
<1> HIDE DEF o
<1>3. PICK r \in Seq(Glyphs) : Want = s \o r
  BY <1>1, <1>2, UptoPrefix
<1>4. s \in Seq(Glyphs)
  BY <1>1, <1>2, UptoTyped
<1>5. IsPrefix(s, Want)
  <2>1. Len(s) <= Len(Want) /\ \A i \in 1..Len(s) : Want[i] = s[i]
    BY <1>3, <1>4
  <2>2. SubSeq(Want, 1, Len(s)) = SubSeq(s, 1, Len(s))
    BY <1>3, <1>4
  <2> QED
    BY <2>1, <2>2 DEF IsPrefix
<1>6. ASSUME dyn \/ Len(Want) + 4 <= s_cap
      PROVE  s = Want
  <2>1. dyn \/ Len(FlattenSeq(OutsOf(pieces))) + 4 <= s_cap => k = Len(pieces)
    BY <1>2, Zenon DEF Reached
  <2>2. k = Len(o)
    BY <1>1, <1>6, <2>1 DEF o
  <2> QED
    BY <1>1, <1>2, <2>2, UptoAll
<1> QED
  BY <1>5, <1>6

\* For every format made of pieces that are what they say, the finished string
\* is what the pieces should become, as long as every number has room in its
\* width; in a fixed buffer it is cut off, and only for want of room.
THEOREM Rendered == Formats => (FormatSpec => []Renders)
<1> SUFFICES ASSUME Formats
             PROVE  FormatSpec => []Renders
  OBVIOUS
<1>1. FormatInit => FormatInv /\ RenderInv
  BY InitSound, RenderInit
<1>2. FormatInv /\ RenderInv /\ [FormatNext]_formatVars => (FormatInv /\ RenderInv)'
  BY StepSound, RenderStep
<1>3. FormatInv /\ RenderInv => Renders
  BY RenderInvRenders
<1> QED
  BY <1>1, <1>2, <1>3, PTL DEF FormatSpec
=============================================================================
