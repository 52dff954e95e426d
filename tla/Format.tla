------------------------------- MODULE Format -------------------------------
(***************************************************************************)
(* M_vsprintf (src/src/lib/strings.c): the loop that writes a formatted    *)
(* string into a buffer that grows, or into one of a fixed size, for       *)
(* formats such as updateClock's "%p 2u:%p02u" and updateHeapUse's         *)
(* "%p 24s".  A format is put together from pieces; a piece knows what it  *)
(* should become, and the loop sees only the characters and arguments.     *)
(* A format that ends in the middle of a conversion takes the loop past    *)
(* the zero that ends it, into the memory behind.                          *)
(***************************************************************************)
EXTENDS Integers, SequencesExt

CONSTANTS Pieces,     \* [chars, args, out, fits]: see MCParts
          MaxPieces,  \* bound: pieces in a format
          Arguments,  \* [n, text]: a number or a string
          Beyond,     \* the characters behind the format's zero; zeros follow
          MaxWidth,   \* bound: the width of a field
          Cap0,       \* size of a growing buffer at first: 128 in the code
          FixedCaps,  \* sizes of the buffers given to sprintf
          Places      \* digits in the decimal and the hexadecimal form of a
                      \* number: "u" |-> 20, "h" |-> 16 in the code

ASSUME FormatAssumption ==
    /\ {Cap0, MaxPieces, MaxWidth} \subseteq Nat /\ Cap0 >= 4
    /\ FixedCaps \subseteq Nat \ {0}
    /\ Places \in [{"u", "h"} -> Nat \ {0}]
    /\ \A q \in Pieces :
         /\ q.chars # <<>>
         /\ {q.chars, q.out} \subseteq Seq(STRING)
         /\ q.args \in Seq(Arguments)
    /\ Beyond \in Seq(STRING)
    /\ \A a \in Arguments : a.text \in Seq(STRING)

VARIABLES
    pieces,   \* history: the pieces of the format
    p,        \* the next character of the format
    ap,       \* arguments not yet taken
    dyn,      \* the buffer is M_vsprintf's own and may grow
    s, s_cap, \* what has been written, and the size of the buffer
    padw, padc,
    ended     \* the closing zero is written

formatVars == <<pieces, p, ap, dyn, s, s_cap, padw, padc, ended>>

Fmt  == FlattenSeq([k \in 1..Len(pieces) |-> pieces[k].chars])
Want == FlattenSeq([k \in 1..Len(pieces) |-> pieces[k].out])
Args == FlattenSeq([k \in 1..Len(pieces) |-> pieces[k].args])

\* The format, the zero that ends it, and what lies behind that.
CharAt(k) ==
    IF k <= Len(Fmt) THEN Fmt[k]
    ELSE IF k - (Len(Fmt) + 1) \in 1..Len(Beyond) THEN Beyond[k - (Len(Fmt) + 1)]
    ELSE "nul"

DigitSeq == <<"0", "1", "2", "3", "4", "5", "6", "7", "8", "9", "A", "B", "C", "D", "E", "F">>
DecimalDigits == {DigitSeq[d] : d \in 1..10}

Conversions == {"c", "u", "h", "s"}

----------------------------------------------------------------------------
\* The room asked for at the top of the loop: three characters and a zero.
Room == s_cap - Len(s) >= 4

\* The size of the buffer after the top of the loop.
CapNow == IF Room THEN s_cap ELSE 2 * s_cap

\* Where the conversion character is: a width has been read just before it,
\* or a percent sign.
ConvAt == IF padw = 0 THEN p + 1 ELSE p
Conv   == CharAt(ConvAt)

InLoop == ~ended /\ CharAt(p) # "nul" /\ (Room \/ dyn)
AtConv == InLoop /\ (padw # 0 \/ CharAt(p) = "%")

\* Characters copied as they are, and the loop's step past k characters.
Literally(chars, k) ==
    /\ s' = s \o chars
    /\ p' = k
    /\ s_cap' = CapNow

Plain ==
    /\ InLoop /\ padw = 0 /\ CharAt(p) # "%"
    /\ Literally(<<CharAt(p)>>, p + 1)
    /\ UNCHANGED <<pieces, ap, dyn, padw, padc, ended>>

PercentOrUnknown ==
    /\ AtConv
    /\ \/ Conv = "%" /\ Literally(<<"%">>, ConvAt + 1)
       \/ Conv \notin {"%", "p"} \cup Conversions /\ Literally(<<"%", Conv>>, ConvAt + 1)
    /\ UNCHANGED <<pieces, ap, dyn, padw, padc, ended>>

\* Where the number that begins at k ends: the first character after it.
EndOfNumber(k) == CHOOSE e \in k..(Len(Fmt) + Len(Beyond) + 2) :
    /\ CharAt(e) \notin DecimalDigits
    /\ \A j \in k..(e - 1) : CharAt(j) \in DecimalDigits

NumberAt(k) == [j \in 1..(EndOfNumber(k) - k) |-> CharAt(k + j - 1)]

\* dstoui: n is the number with the digits t.
Dstoui(t, n) ==
    /\ n < 10^Len(t)
    /\ \A j \in 1..Len(t) : t[j] = DigitSeq[((n \div 10^(Len(t) - j)) % 10) + 1]

\* "%p", the padding character and the width.  Without a width the three
\* characters are written and the padding character is kept all the same.
Pad ==
    /\ AtConv /\ Conv = "p"
    /\ padc' = CharAt(ConvAt + 1)
    /\ LET k == ConvAt + 2
       IN  \/ /\ CharAt(k) \in DecimalDigits
              /\ padw' \in {n \in 0..MaxWidth : Dstoui(NumberAt(k), n)}
              /\ Literally(<<>>, EndOfNumber(k))
           \/ /\ CharAt(k) \notin DecimalDigits
              /\ Literally(<<"%", "p", CharAt(k)>>, k + 1)
              /\ UNCHANGED padw
    /\ UNCHANGED <<pieces, ap, dyn, ended>>

\* All the digits of number n, zeros in front.
Digits(c, n) ==
    LET base == IF c = "u" THEN 10 ELSE 16
    IN  [j \in 1..Places[c] |-> DigitSeq[((n \div base^(Places[c] - j)) % base) + 1]]

\* Mutant: the last digit is not kept.
StrippedOfAll(t) == SelectSeq(t, LAMBDA d : d # "0")

\* Leading zeros skipped, the last digit kept.
Stripped(t) ==
    LET k == CHOOSE k \in 1..Len(t) :
                /\ k = Len(t) \/ t[k] # "0"
                /\ \A j \in 1..(k - 1) : t[j] = "0"
    IN  SubSeq(t, k, Len(t))

\* The text t of the argument, before and after it is cut to padw digits.
Text(c, arg) ==
    IF c \notin {"u", "h"} THEN arg.text
    ELSE IF padc # "0" \/ padw <= 0 THEN Stripped(Digits(c, arg.n))
    ELSE Digits(c, arg.n)

InWidth(c, arg) ==
    LET t == Text(c, arg)
    IN  IF c \in {"u", "h"} /\ padw > 0 /\ padw < Len(t)
        THEN SubSeq(t, Len(t) - padw + 1, Len(t)) ELSE t

\* Mutant: the padding is not counted.
NeededUnpadded(c, arg) == Len(s) + Len(InWidth(c, arg)) + 1

Fill(c, arg) == IF padw >= Len(Text(c, arg)) THEN padw - Len(Text(c, arg)) ELSE 0

Needed(c, arg) == Len(s) + Len(InWidth(c, arg)) + Fill(c, arg) + 1

\* A conversion of its argument: in a fixed buffer that is too small the
\* string ends here.
Converted(arg) ==
    \/ /\ CapNow >= Needed(Conv, arg) \/ dyn
       /\ s' = s \o [k \in 1..Fill(Conv, arg) |-> padc] \o InWidth(Conv, arg)
       /\ s_cap' = IF CapNow < Needed(Conv, arg) THEN Needed(Conv, arg) ELSE CapNow
       /\ p' = ConvAt + 1
       /\ padw' = 0
       /\ UNCHANGED ended
    \/ /\ CapNow < Needed(Conv, arg) /\ ~dyn
       /\ ended' = TRUE
       /\ UNCHANGED <<s, s_cap, p, padw>>

\* va_arg, which returns anything when the format asks for more arguments
\* than there are.
Convert ==
    /\ AtConv /\ Conv \in Conversions
    /\ \E arg \in IF ap # <<>> THEN {Head(ap)} ELSE Arguments : Converted(arg)
    /\ ap' = IF ap # <<>> THEN Tail(ap) ELSE <<>>
    /\ UNCHANGED <<pieces, dyn, padc>>

\* The loop ends, or breaks for want of room at its top.
Finish ==
    /\ ~ended
    /\ CharAt(p) = "nul" \/ ~(Room \/ dyn)
    /\ ended' = TRUE
    /\ UNCHANGED <<pieces, p, ap, dyn, s, s_cap, padw, padc>>

----------------------------------------------------------------------------
FormatInit ==
    /\ pieces \in UNION {[1..n -> Pieces] : n \in 1..MaxPieces}
    /\ p = 1
    /\ ap = Args
    /\ \/ dyn = TRUE /\ s_cap = Cap0
       \/ dyn = FALSE /\ s_cap \in FixedCaps
    /\ s = <<>>
    /\ padw = 0
    /\ padc \in {"0", " "}         \* not initialised
    /\ ended = FALSE

FormatNext == Plain \/ PercentOrUnknown \/ Pad \/ Convert \/ Finish

FormatSpec == FormatInit /\ [][FormatNext]_formatVars

----------------------------------------------------------------------------
(* Properties                                                               *)

\* Whatever the loop writes, and the zero after it, lies in the buffer, be
\* it grown by doubling at the top or by what one argument needs.
ZeroFits == Len(s) < s_cap

\* The string is what the format says, as long as every number has room in
\* its width; in a fixed buffer it is cut off, and only for want of room.
Renders ==
    ended /\ (\A k \in 1..Len(pieces) : pieces[k].fits) =>
        /\ IsPrefix(s, Want)
        /\ dyn \/ Len(Want) + 4 <= s_cap => s = Want

----------------------------------------------------------------------------
(* What the pieces of a format are, and what should become of them.         *)

\* All the digits of n are zeros and then t, which begins with a zero only if
\* that is its only digit.
IsNumeral(c, n, t) ==
    /\ Len(t) \in 1..Places[c]
    /\ t[1] # "0" \/ Len(t) = 1
    /\ Digits(c, n) = [j \in 1..(Places[c] - Len(t)) |-> "0"] \o t

\* The piece becomes its argument, behind as many characters pad as bring it
\* to width w.
Shows(q, c, w, pad) ==
    /\ Len(q.args) = 1
    /\ \E l \in 0..Len(q.out) :
         LET t == SubSeq(q.out, l + 1, Len(q.out))
         IN  /\ l = IF w > Len(t) THEN w - Len(t) ELSE 0
             /\ \A j \in 1..l : q.out[j] = pad
             /\ IF c \in {"u", "h"}
                THEN IsNumeral(c, q.args[1].n, t) /\ (w = 0 \/ Len(t) <= w)
                ELSE t = q.args[1].text

\* A character, a percent sign, no conversion, "%p" without a width, and a
\* conversion without and with a width.
IsPiece(q) ==
    LET c == q.chars
        m == Len(q.chars)
    IN  /\ \A j \in 1..m : c[j] # "nul"
        /\ \/ /\ q.args = <<>>
              /\ \/ m = 1 /\ c[1] # "%" /\ q.out = c
                 \/ c = <<"%", "%">> /\ q.out = <<"%">>
                 \/ /\ m = 2 /\ c[1] = "%" /\ c[2] \notin {"%", "p"} \cup Conversions
                    /\ q.out = c
                 \/ /\ m = 4 /\ c[1] = "%" /\ c[2] = "p" /\ c[4] \notin DecimalDigits
                    /\ q.out = <<"%", "p", c[4]>>
           \/ m = 2 /\ c[1] = "%" /\ c[2] \in Conversions /\ Shows(q, c[2], 0, " ")
           \/ /\ m > 4 /\ c[1] = "%" /\ c[2] = "p" /\ c[m] \in Conversions
              /\ \A j \in 4..(m - 1) : c[j] \in DecimalDigits
              /\ \A w \in 0..MaxWidth : Dstoui(SubSeq(c, 4, m - 1), w) =>
                    w # 0 /\ Shows(q, c[m], w, c[3])
=============================================================================
