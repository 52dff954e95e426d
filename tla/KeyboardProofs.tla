--------------------------- MODULE KeyboardProofs ---------------------------
(***************************************************************************)
(* What holds of the keyboard for any set of keys and any number of bytes  *)
(* on their way.                                                           *)
(***************************************************************************)
EXTENDS Keyboard, SequenceTheorems, TLAPS

----------------------------------------------------------------------------
(* Bytes on their way.                                                      *)

Modifiers == {"shift", "ctrl", "alt"}

Codes(m) ==
    CASE m = "shift" -> {"2a", "36"}
      [] m = "ctrl"  -> {"1d"}
      [] m = "alt"   -> {"38"}

Flag(m) ==
    CASE m = "shift" -> shift_down
      [] m = "ctrl"  -> ctrl_down
      [] m = "alt"   -> alt_down

Alphabet == [code : {"2a", "36", "1d", "38", "3a", "1e", "02", "48", "e0", "fa"}, up : BOOLEAN]

\* All bytes that keyScanned has not seen; e is last_e0 before the first.
Stream == kbd_buf \o wire

Escaped(e, s, k) == (k = 1 /\ e) \/ (k # 1 /\ s[k - 1] = E0)

\* The k-th byte sets or clears the flag of modifier m.
Counts(m, e, s, k) == s[k].code \in Codes(m) /\ (m = "shift" => ~Escaped(e, s, k))

\* When all bytes of s have been handled, the flag f of m is not set.
LetGo(m, f, e, s) ==
    \/ ~f /\ \A k \in 1..Len(s) : ~Counts(m, e, s, k)
    \/ \E k \in 1..Len(s) :
          Counts(m, e, s, k) /\ s[k].up /\ \A j \in (k + 1)..Len(s) : ~Counts(m, e, s, j)

\* No e0 is the last byte, or has an acknowledgement behind it.
Whole(e, s) ==
    /\ e => Len(s) > 0 /\ s[1] # Ack
    /\ \A k \in 1..Len(s) : s[k] = E0 => k < Len(s) /\ s[k + 1] # Ack

\* Wherever these bytes come, they do nothing to m.
Harmless(m, g) ==
    \A k \in 1..Len(g) : g[k].code \in Codes(m) => m = "shift" /\ k > 1 /\ g[k - 1] = E0

\* The elements of a concatenation, by their places.
LEMMA Places2 ==
    ASSUME NEW s \in Seq(Alphabet), NEW g \in Seq(Alphabet)
    PROVE  /\ s \o g \in Seq(Alphabet) /\ Len(s) \in Nat /\ Len(g) \in Nat
           /\ Len(s \o g) = Len(s) + Len(g)
           /\ \A k \in 1..Len(s) : (s \o g)[k] = s[k]
           /\ \A k \in 1..Len(g) : (s \o g)[Len(s) + k] = g[k]
<1>1. PICK n \in Nat, p \in Nat : n = Len(s) /\ p = Len(g)
  BY LenProperties
<1>2. /\ s \o g \in Seq(Alphabet) /\ Len(s \o g) = n + p
      /\ \A k \in 1..(n + p) : (s \o g)[k] = IF k <= n THEN s[k] ELSE g[k - n]
  BY <1>1, ConcatProperties
<1>3. ASSUME NEW k \in 1..n PROVE (s \o g)[k] = s[k]
  BY <1>2
<1>4. ASSUME NEW k \in 1..p PROVE (s \o g)[n + k] = g[k]
  <2>1. n + k \in 1..(n + p) /\ ~(n + k <= n) /\ (n + k) - n = k
    BY <1>1
  <2> QED
    BY <1>2, <2>1
<1> QED
  BY <1>1, <1>2, <1>3, <1>4

\* The first byte of a sequence, and the others.
LEMMA FirstOut ==
    ASSUME NEW s \in Seq(Alphabet), s # <<>>
    PROVE  Head(s) \in Alphabet /\ Tail(s) \in Seq(Alphabet) /\ s = <<Head(s)>> \o Tail(s)
<1>1. Head(s) \in Alphabet /\ Tail(s) \in Seq(Alphabet)
  BY HeadTailProperties
<1>2. Len(s) \in Nat \ {0}
  BY EmptySeq
<1>3. 1 \in 1..Len(s) /\ Len(s) \in 1..Len(s)
  BY <1>2
<1>4. SubSeq(s, 1, Len(s)) = <<s[1]>> \o SubSeq(s, 2, Len(s))
  <2>1. SubSeq(s, 1, Len(s)) = <<s[1]>> \o SubSeq(s, 1 + 1, Len(s))
    BY <1>3, SubSeqRecursiveFirst
  <2>2. 1 + 1 = 2
    OBVIOUS
  <2> QED
    BY ONLY <2>1, <2>2, Zenon
<1>5. SubSeq(s, 1, Len(s)) = s /\ SubSeq(s, 2, Len(s)) = Tail(s)
  BY SubSeqFull, TailIsSubSeq
<1>6. s[1] = Head(s)
  <2>1. Head(SubSeq(s, 1, Len(s))) = s[1]
    BY <1>3, HeadTailOfSubSeq
  <2> QED
    BY <1>5, <2>1
<1> QED
  BY ONLY <1>1, <1>4, <1>5, <1>6, Zenon

\* Bytes are sent behind others.
LEMMA WholeAppend ==
    ASSUME NEW e \in BOOLEAN, NEW s \in Seq(Alphabet), NEW g \in Seq(Alphabet),
           Whole(e, s), Whole(FALSE, g)
    PROVE  Whole(e, s \o g)
<1> DEFINE t == s \o g
<1>1. PICK n \in Nat, p \in Nat : n = Len(s) /\ p = Len(g) /\ Len(t) = n + p
  BY Places2
<1>2. (\A k \in 1..n : t[k] = s[k]) /\ (\A k \in 1..p : t[n + k] = g[k])
  BY <1>1, Places2
<1> HIDE DEF t
<1>3. e => Len(t) > 0 /\ t[1] # Ack
  BY <1>1, <1>2 DEF Whole
<1>4. ASSUME NEW k \in 1..(n + p), t[k] = E0 PROVE k < n + p /\ t[k + 1] # Ack
  <2>1. CASE k \in 1..n
    <3>1. k < n /\ s[k + 1] # Ack
      BY <1>1, <1>2, <1>4, <2>1 DEF Whole
    <3>2. k + 1 \in 1..n
      BY <2>1, <3>1
    <3> QED
      BY <1>1, <1>2, <3>1, <3>2
  <2>2. CASE k > n
    <3>1. PICK j \in 1..p : k = n + j
      <4>1. k - n \in 1..p /\ k = n + (k - n)
        BY <1>4, <2>2
      <4> QED
        BY <4>1
    <3>2. g[j] = E0
      BY <1>2, <1>4, <3>1
    <3>3. j < p /\ g[j + 1] # Ack
      BY <1>1, <3>1, <3>2 DEF Whole
    <3>4. j + 1 \in 1..p /\ n + (j + 1) = k + 1
      BY <3>1, <3>3
    <3>5. t[k + 1] = g[j + 1]
      <4>1. t[n + (j + 1)] = g[j + 1]
        BY <1>2, <3>4
      <4> QED
        BY <3>4, <4>1
    <3> QED
      BY <3>1, <3>3, <3>5
  <2> QED
    BY <2>1, <2>2
<1> QED
  BY <1>1, <1>3, <1>4 DEF Whole, t

\* What counts does not change when bytes are sent behind it.
LEMMA CountsAppend ==
    ASSUME NEW m \in Modifiers, NEW e \in BOOLEAN, NEW s \in Seq(Alphabet), NEW g \in Seq(Alphabet),
           NEW k \in 1..Len(s)
    PROVE  /\ Counts(m, e, s \o g, k) <=> Counts(m, e, s, k)
           /\ (s \o g)[k] = s[k]
<1> DEFINE t == s \o g
<1>1. PICK n \in Nat : n = Len(s) /\ k \in 1..n
  BY Places2
<1>2. \A i \in 1..n : t[i] = s[i]
  BY <1>1, Places2
<1> HIDE DEF t
<1>3. t[k] = s[k]
  BY <1>1, <1>2
<1>4. k # 1 => t[k - 1] = s[k - 1]
  <2> SUFFICES ASSUME k # 1 PROVE t[k - 1] = s[k - 1]
    OBVIOUS
  <2>1. k - 1 \in 1..n
    BY <1>1
  <2> QED
    BY <1>2, <2>1
<1>5. Escaped(e, t, k) <=> Escaped(e, s, k)
  BY <1>4 DEF Escaped
<1> QED
  BY <1>3, <1>5 DEF Counts, t

\* Harmless bytes are sent behind others.
LEMMA LetGoAppend ==
    ASSUME NEW m \in Modifiers, NEW f \in BOOLEAN, NEW e \in BOOLEAN,
           NEW s \in Seq(Alphabet), NEW g \in Seq(Alphabet),
           LetGo(m, f, e, s), Harmless(m, g)
    PROVE  LetGo(m, f, e, s \o g)
<1> DEFINE t == s \o g
<1>1. PICK n \in Nat, p \in Nat : n = Len(s) /\ p = Len(g) /\ Len(t) = n + p
  BY Places2
<1>2. \A k \in 1..p : t[n + k] = g[k]
  BY <1>1, Places2
<1>3. \A k \in 1..n : (Counts(m, e, t, k) <=> Counts(m, e, s, k)) /\ t[k] = s[k]
  BY <1>1, CountsAppend
<1> HIDE DEF t
<1>4. ASSUME NEW k \in 1..(n + p), k > n PROVE ~Counts(m, e, t, k)
  <2>1. PICK j \in 1..p : k = n + j
    <3>1. k - n \in 1..p /\ k = n + (k - n)
      BY <1>4
    <3> QED
      BY <3>1
  <2>2. t[k] = g[j]
    BY <1>2, <2>1
  <2>3. CASE g[j].code \notin Codes(m)
    BY <2>2, <2>3 DEF Counts
  <2>4. CASE g[j].code \in Codes(m)
    <3>1. m = "shift" /\ j > 1 /\ g[j - 1] = E0
      BY <1>1, <2>4 DEF Harmless
    <3>2. j - 1 \in 1..p /\ n + (j - 1) = k - 1 /\ k # 1
      BY <2>1, <3>1
    <3>3. t[k - 1] = E0
      BY <1>2, <3>1, <3>2
    <3> QED
      BY <3>1, <3>2, <3>3 DEF Counts, Escaped
  <2> QED
    BY <2>3, <2>4
<1>5. CASE ~f /\ \A k \in 1..n : ~Counts(m, e, s, k)
  <2>1. ASSUME NEW k \in 1..(n + p) PROVE ~Counts(m, e, t, k)
    BY <1>3, <1>4, <1>5
  <2> QED
    BY <1>1, <1>5, <2>1 DEF LetGo, t
<1>6. CASE \E k \in 1..n : Counts(m, e, s, k) /\ s[k].up /\ \A j \in (k + 1)..n : ~Counts(m, e, s, j)
  <2>1. PICK k \in 1..n : Counts(m, e, s, k) /\ s[k].up /\ \A j \in (k + 1)..n : ~Counts(m, e, s, j)
    BY <1>6
  <2>2. Counts(m, e, t, k) /\ t[k].up
    BY <1>3, <2>1
  <2>3. ASSUME NEW j \in (k + 1)..(n + p) PROVE ~Counts(m, e, t, j)
    <3>1. CASE j <= n
      <4>1. j \in 1..n /\ j \in (k + 1)..n
        BY <2>3, <3>1
      <4> QED
        BY <1>3, <2>1, <4>1
    <3>2. CASE j > n
      <4>1. j \in 1..(n + p)
        BY <2>3
      <4> QED
        BY <1>4, <3>2, <4>1
    <3> QED
      BY <3>1, <3>2
  <2>4. k \in 1..(n + p)
    OBVIOUS
  <2> QED
    BY <1>1, <2>2, <2>3, <2>4 DEF LetGo, t
<1> QED
  BY <1>1, <1>5, <1>6 DEF LetGo

\* The release of a modifier is sent last.
LEMMA LetGoReleased ==
    ASSUME NEW m \in Modifiers, NEW f \in BOOLEAN, NEW e \in BOOLEAN,
           NEW s \in Seq(Alphabet), NEW g \in Seq(Alphabet),
           Whole(e, s), Len(g) > 0, g[Len(g)].code \in Codes(m), g[Len(g)].up,
           m = "shift" => Len(g) = 1
    PROVE  LetGo(m, f, e, s \o g)
<1> DEFINE t == s \o g
<1>1. PICK n \in Nat, p \in Nat : n = Len(s) /\ p = Len(g) /\ Len(t) = n + p /\ p > 0
  BY Places2
<1>2. (\A k \in 1..n : t[k] = s[k]) /\ (\A k \in 1..p : t[n + k] = g[k])
  BY <1>1, Places2
<1> HIDE DEF t
<1>3. t[n + p] = g[p]
  BY <1>1, <1>2
<1>4. m = "shift" => ~Escaped(e, t, n + p)
  <2> SUFFICES ASSUME m = "shift" PROVE ~Escaped(e, t, n + p)
    OBVIOUS
  <2>1. p = 1
    BY <1>1
  <2>2. CASE n = 0
    BY <1>1, <2>1, <2>2 DEF Whole, Escaped
  <2>3. CASE n # 0
    <3>1. n \in 1..n /\ n + p - 1 = n /\ n + p # 1
      BY <2>1, <2>3
    <3>2. t[n] = s[n] /\ s[n] # E0
      BY <1>1, <1>2, <3>1 DEF Whole
    <3> QED
      BY <3>1, <3>2 DEF Escaped
  <2> QED
    BY <2>2, <2>3
<1>5. Counts(m, e, t, n + p) /\ t[n + p].up
  BY <1>1, <1>3, <1>4 DEF Counts
<1>6. n + p \in 1..(n + p) /\ \A j \in (n + p + 1)..(n + p) : FALSE
  BY <1>1
<1> QED
  BY <1>1, <1>5, <1>6 DEF LetGo, t

\* The first byte is handled.
LEMMA LetGoHandled ==
    ASSUME NEW m \in Modifiers, NEW f \in BOOLEAN, NEW f2 \in BOOLEAN, NEW e \in BOOLEAN,
           NEW e2 \in BOOLEAN, NEW s \in Seq(Alphabet), s # <<>>, e2 <=> s[1] = E0,
           LetGo(m, f, e, s),
           Counts(m, e, s, 1) => (s[1].up => ~f2),
           ~Counts(m, e, s, 1) => (f2 => f)
    PROVE  LetGo(m, f2, e2, Tail(s))
<1> DEFINE t == Tail(s)
<1>1. PICK n \in Nat \ {0} : n = Len(s) /\ Len(t) = n - 1
  BY EmptySeq, HeadTailProperties
<1>2. \A k \in 1..(n - 1) : t[k] = s[k + 1]
  BY <1>1, HeadTailProperties
<1> HIDE DEF t
<1>3. ASSUME NEW k \in 1..(n - 1) PROVE Counts(m, e2, t, k) <=> Counts(m, e, s, k + 1)
  <2>1. t[k] = s[k + 1] /\ k + 1 # 1 /\ (k + 1) - 1 = k
    BY <1>2
  <2>2. k # 1 => t[k - 1] = s[k]
    <3> SUFFICES ASSUME k # 1 PROVE t[k - 1] = s[k]
      OBVIOUS
    <3>1. k - 1 \in 1..(n - 1) /\ (k - 1) + 1 = k
      BY <1>3
    <3> QED
      BY <1>2, <3>1
  <2>3. Escaped(e2, t, k) <=> s[k] = E0
    BY <2>2 DEF Escaped
  <2>4. Escaped(e, s, k + 1) <=> s[k] = E0
    BY <2>1 DEF Escaped
  <2> QED
    BY <2>1, <2>3, <2>4 DEF Counts
<1>4. CASE \E k \in 1..n : Counts(m, e, s, k) /\ s[k].up /\ \A j \in (k + 1)..n : ~Counts(m, e, s, j)
  <2>1. PICK k \in 1..n : Counts(m, e, s, k) /\ s[k].up /\ \A j \in (k + 1)..n : ~Counts(m, e, s, j)
    BY <1>4
  <2>2. CASE k = 1
    <3>1. ~f2
      BY <2>1, <2>2
    <3>2. ASSUME NEW j \in 1..(n - 1) PROVE ~Counts(m, e2, t, j)
      <4>1. j + 1 \in (k + 1)..n
        BY <2>2, <3>2
      <4> QED
        BY <1>3, <2>1, <4>1
    <3> QED
      BY <1>1, <3>1, <3>2 DEF LetGo, t
  <2>3. CASE k # 1
    <3>1. PICK i \in 1..(n - 1) : k = i + 1
      <4>1. k - 1 \in 1..(n - 1) /\ k = (k - 1) + 1
        BY <2>1, <2>3
      <4> QED
        BY <4>1
    <3>2. Counts(m, e2, t, i) /\ t[i].up
      BY <1>2, <1>3, <2>1, <3>1
    <3>3. ASSUME NEW j \in (i + 1)..(n - 1) PROVE ~Counts(m, e2, t, j)
      <4>1. j \in 1..(n - 1) /\ j + 1 \in (k + 1)..n
        BY <3>1, <3>3
      <4> QED
        BY <1>3, <2>1, <4>1
    <3> QED
      BY <1>1, <3>2, <3>3 DEF LetGo, t
  <2> QED
    BY <2>2, <2>3
<1>5. CASE ~f /\ \A k \in 1..n : ~Counts(m, e, s, k)
  <2>1. ~f2
    BY <1>1, <1>5
  <2>2. ASSUME NEW j \in 1..(n - 1) PROVE ~Counts(m, e2, t, j)
    <3>1. j + 1 \in 1..n
      BY <2>2
    <3> QED
      BY <1>3, <1>5, <3>1
  <2> QED
    BY <1>1, <2>1, <2>2 DEF LetGo, t
<1> QED
  BY <1>1, <1>4, <1>5 DEF LetGo

\* The first byte is handled: no e0 becomes the last.
LEMMA WholeHandled ==
    ASSUME NEW e \in BOOLEAN, NEW e2 \in BOOLEAN, NEW s \in Seq(Alphabet), s # <<>>,
           e2 <=> s[1] = E0, Whole(e, s)
    PROVE  Whole(e2, Tail(s))
<1> DEFINE t == Tail(s)
<1>1. PICK n \in Nat \ {0} : n = Len(s) /\ Len(t) = n - 1
  BY EmptySeq, HeadTailProperties
<1>2. \A k \in 1..(n - 1) : t[k] = s[k + 1]
  BY <1>1, HeadTailProperties
<1> HIDE DEF t
<1>3. ASSUME NEW k \in 1..n, s[k] = E0 PROVE k < n /\ s[k + 1] # Ack
  BY <1>1, <1>3 DEF Whole
<1>4. ASSUME e2 PROVE n - 1 > 0 /\ t[1] # Ack
  <2>1. 1 \in 1..n /\ s[1] = E0
    BY <1>4
  <2>2. 1 < n /\ s[1 + 1] # Ack
    BY <1>3, <2>1
  <2>3. 1 \in 1..(n - 1)
    BY <2>2
  <2> QED
    BY <1>2, <2>2, <2>3
<1>5. ASSUME NEW k \in 1..(n - 1), t[k] = E0 PROVE k < n - 1 /\ t[k + 1] # Ack
  <2>1. k + 1 \in 1..n /\ s[k + 1] = E0
    BY <1>2, <1>5
  <2>2. k + 1 < n /\ s[(k + 1) + 1] # Ack
    BY <1>3, <2>1
  <2>3. k + 1 \in 1..(n - 1)
    BY <2>2
  <2> QED
    BY <1>2, <2>2, <2>3
<1> QED
  BY <1>1, <1>4, <1>5 DEF Whole, t

\* An acknowledgement is taken out, the one at n + 1.
LEMMA WithoutAck ==
    ASSUME NEW e \in BOOLEAN, NEW s \in Seq(Alphabet), NEW t \in Seq(Alphabet),
           NEW n \in 0..(Len(s) - 1), s[n + 1] = Ack, Len(t) = Len(s) - 1,
           \A k \in 1..n : t[k] = s[k], \A k \in (n + 1)..Len(t) : t[k] = s[k + 1],
           Whole(e, s)
    PROVE  /\ Whole(e, t)
           /\ \A m \in Modifiers, f \in BOOLEAN : LetGo(m, f, e, s) => LetGo(m, f, e, t)
<1>1. PICK p \in Nat : p = Len(s) /\ n \in 0..(p - 1) /\ Len(t) = p - 1 /\ n \in Nat /\ p > 0
  BY LenProperties
<1>2. (\A k \in 1..n : t[k] = s[k]) /\ (\A k \in (n + 1)..(p - 1) : t[k] = s[k + 1])
  BY <1>1
<1>3. ASSUME NEW k \in 1..p, s[k] = E0 PROVE k < p /\ s[k + 1] # Ack
  BY <1>1, <1>3 DEF Whole
<1>4. Ack # E0 /\ \A m \in Modifiers : Ack.code \notin Codes(m)
  BY DEF Ack, E0, Byte, Modifiers, Codes
<1>5. n = 0 => ~e
  <2> SUFFICES ASSUME n = 0 PROVE ~e
    OBVIOUS
  <2>1. s[1] = Ack
    OBVIOUS
  <2> QED
    BY <2>1 DEF Whole
<1>6. n # 0 => s[n] # E0
  <2> SUFFICES ASSUME n # 0, s[n] = E0 PROVE FALSE
    OBVIOUS
  <2>1. n \in 1..p
    BY <1>1
  <2> QED
    BY <1>3, <2>1
<1>7. Whole(e, t)
  <2>1. ASSUME e PROVE p - 1 > 0 /\ t[1] # Ack
    <3>1. n # 0 /\ s[1] # Ack
      BY <1>5, <2>1 DEF Whole
    <3>2. 1 \in 1..n
      BY <1>1, <3>1
    <3> QED
      BY <1>1, <1>2, <3>1, <3>2
  <2>2. ASSUME NEW k \in 1..(p - 1), t[k] = E0 PROVE k < p - 1 /\ t[k + 1] # Ack
    <3>1. CASE k < n
      <4>1. k \in 1..n /\ k + 1 \in 1..n /\ k \in 1..p
        BY <1>1, <2>2, <3>1
      <4>2. s[k] = E0 /\ t[k + 1] = s[k + 1]
        BY <1>2, <2>2, <4>1
      <4>3. s[k + 1] # Ack
        BY <1>3, <4>1, <4>2
      <4> QED
        BY <1>1, <3>1, <4>2, <4>3
    <3>2. CASE k = n
      <4>1. n # 0 /\ n \in 1..n
        BY <1>1, <2>2, <3>2
      <4>2. s[n] = E0
        BY <1>2, <2>2, <3>2, <4>1
      <4> QED
        BY <1>6, <4>1, <4>2
    <3>3. CASE k > n
      <4>1. k \in (n + 1)..(p - 1) /\ k + 1 \in 1..p
        BY <1>1, <2>2, <3>3
      <4>2. s[k + 1] = E0
        BY <1>2, <2>2, <4>1
      <4>3. k + 1 < p /\ s[(k + 1) + 1] # Ack
        BY <1>3, <4>1, <4>2
      <4>4. k + 1 \in (n + 1)..(p - 1)
        BY <4>1, <4>3
      <4> QED
        BY <1>2, <4>3, <4>4
    <3> QED
      BY <1>1, <3>1, <3>2, <3>3
  <2> QED
    BY <1>1, <2>1, <2>2 DEF Whole
<1>8. ASSUME NEW m \in Modifiers, NEW f \in BOOLEAN, LetGo(m, f, e, s) PROVE LetGo(m, f, e, t)
  <2>1. ASSUME NEW k \in 1..n PROVE Counts(m, e, t, k) <=> Counts(m, e, s, k)
    <3>1. k # 1 => t[k - 1] = s[k - 1]
      <4> SUFFICES ASSUME k # 1 PROVE t[k - 1] = s[k - 1]
        OBVIOUS
      <4>1. k - 1 \in 1..n
        BY <1>1, <2>1
      <4> QED
        BY <1>2, <4>1
    <3> QED
      BY <1>2, <2>1, <3>1 DEF Counts, Escaped
  <2>2. ASSUME NEW k \in (n + 1)..(p - 1) PROVE Counts(m, e, t, k) <=> Counts(m, e, s, k + 1)
    <3>1. t[k] = s[k + 1] /\ (k + 1) - 1 = k /\ k + 1 # 1
      BY <1>1, <1>2, <2>2
    <3>2. CASE k = n + 1
      <4>1. ~Escaped(e, s, k + 1)
        BY <1>4, <3>1, <3>2 DEF Escaped
      <4>2. ~Escaped(e, t, k)
        <5>1. n = 0 => k = 1 /\ ~e
          BY <1>5, <3>2
        <5>2. n # 0 => k # 1 /\ t[k - 1] # E0
          <6>1. n # 0 => n \in 1..n /\ k - 1 = n /\ k # 1
            BY <1>1, <3>2
          <6> QED
            BY <1>2, <1>6, <6>1
        <5> QED
          BY <5>1, <5>2 DEF Escaped
      <4> QED
        BY <3>1, <4>1, <4>2 DEF Counts
    <3>3. CASE k > n + 1
      <4>1. k - 1 \in (n + 1)..(p - 1) /\ (k - 1) + 1 = k /\ k # 1
        BY <1>1, <2>2, <3>3
      <4>2. t[k - 1] = s[k]
        BY <1>2, <4>1
      <4> QED
        BY <3>1, <4>1, <4>2 DEF Counts, Escaped
    <3> QED
      BY <1>1, <2>2, <3>2, <3>3
  <2>3. ~Counts(m, e, s, n + 1)
    BY <1>4 DEF Counts
  <2>4. CASE ~f /\ \A k \in 1..p : ~Counts(m, e, s, k)
    <3>1. ASSUME NEW k \in 1..(p - 1) PROVE ~Counts(m, e, t, k)
      <4>1. k \in 1..p /\ k + 1 \in 1..p /\ (k \in 1..n \/ k \in (n + 1)..(p - 1))
        BY <1>1, <3>1
      <4> QED
        BY <2>1, <2>2, <2>4, <4>1
    <3> QED
      BY <1>1, <2>4, <3>1 DEF LetGo
  <2>5. CASE \E k \in 1..p : Counts(m, e, s, k) /\ s[k].up /\ \A j \in (k + 1)..p : ~Counts(m, e, s, j)
    <3>1. PICK k \in 1..p : Counts(m, e, s, k) /\ s[k].up /\ \A j \in (k + 1)..p : ~Counts(m, e, s, j)
      BY <2>5
    <3>2. CASE k <= n
      <4>1. k \in 1..n /\ k \in 1..(p - 1)
        BY <1>1, <3>1, <3>2
      <4>2. Counts(m, e, t, k) /\ t[k].up
        BY <1>2, <2>1, <3>1, <4>1
      <4>3. ASSUME NEW j \in (k + 1)..(p - 1) PROVE ~Counts(m, e, t, j)
        <5>1. j \in (k + 1)..p /\ j + 1 \in (k + 1)..p /\ (j \in 1..n \/ j \in (n + 1)..(p - 1))
          BY <1>1, <4>1, <4>3
        <5> QED
          BY <2>1, <2>2, <3>1, <5>1
      <4> QED
        BY <1>1, <4>1, <4>2, <4>3 DEF LetGo
    <3>3. CASE k > n
      <4>1. k # n + 1
        BY <2>3, <3>1
      <4>2. PICK i \in (n + 1)..(p - 1) : k = i + 1
        <5>1. k - 1 \in (n + 1)..(p - 1) /\ k = (k - 1) + 1
          BY <1>1, <3>1, <3>3, <4>1
        <5> QED
          BY <5>1
      <4>3. Counts(m, e, t, i) /\ t[i].up /\ i \in 1..(p - 1)
        BY <1>1, <1>2, <2>2, <3>1, <4>2
      <4>4. ASSUME NEW j \in (i + 1)..(p - 1) PROVE ~Counts(m, e, t, j)
        <5>1. j \in (n + 1)..(p - 1) /\ j + 1 \in (k + 1)..p
          BY <1>1, <4>2, <4>4
        <5> QED
          BY <2>2, <3>1, <5>1
      <4> QED
        BY <1>1, <4>3, <4>4 DEF LetGo
    <3> QED
      BY <1>1, <3>1, <3>2, <3>3
  <2> QED
    BY <1>1, <1>8, <2>4, <2>5 DEF LetGo
<1> QED
  BY <1>7, <1>8

----------------------------------------------------------------------------
(* What the keyboard sends.                                                 *)

\* What the table of keys says of modifiers.
LEMMA KeyFacts ==
    ASSUME NEW k \in Keys
    PROVE  /\ Key[k].code \in {"2a", "36", "1d", "38", "3a", "1e", "02", "48"}
           /\ Key[k].esc \in BOOLEAN
           /\ Key[k].kind = "shift" => ~Key[k].esc
           /\ \A m \in Modifiers : Key[k].code \in Codes(m) <=> Key[k].kind = m
           /\ Key[k].kind \in {"shift", "ctrl", "alt", "caps", "char"}
           /\ k = "caps" <=> Key[k].kind = "caps"
           /\ Key[k].code = "3a" <=> Key[k].kind = "caps"
           /\ Key[k].code \in {"1e", "02", "48"} <=> Key[k].kind = "char"
           /\ k = "a" <=> Key[k].code = "1e"
           /\ k = "up" <=> Key[k].code = "48" /\ Key[k].esc
           /\ Key[k].kind = "char" /\ Key[k].esc => k = "up"
<1>1. k \in {"shiftL", "shiftR", "ctrlL", "ctrlR", "altL", "altR", "caps", "a", "one", "eight", "up"}
  BY KeyboardAssumption DEF Key
<1>2. PICK c, e, d : c = Key[k].code /\ e = Key[k].esc /\ d = Key[k].kind
  OBVIOUS
<1>3. k = "shiftL" => c = "2a" /\ e = FALSE /\ d = "shift"
  BY <1>2 DEF Key
<1>4. k = "shiftR" => c = "36" /\ e = FALSE /\ d = "shift"
  BY <1>2 DEF Key
<1>5. k = "ctrlL" => c = "1d" /\ e = FALSE /\ d = "ctrl"
  BY <1>2 DEF Key
<1>6. k = "ctrlR" => c = "1d" /\ e = TRUE /\ d = "ctrl"
  BY <1>2 DEF Key
<1>7. k = "altL" => c = "38" /\ e = FALSE /\ d = "alt"
  BY <1>2 DEF Key
<1>8. k = "altR" => c = "38" /\ e = TRUE /\ d = "alt"
  BY <1>2 DEF Key
<1>9. k = "caps" => c = "3a" /\ e = FALSE /\ d = "caps"
  BY <1>2 DEF Key
<1>10. k = "a" => c = "1e" /\ e = FALSE /\ d = "char"
  BY <1>2 DEF Key
<1>11. k = "one" => c = "02" /\ e = FALSE /\ d = "char"
  BY <1>2 DEF Key
<1>12. k = "eight" => c = "48" /\ e = FALSE /\ d = "char"
  BY <1>2 DEF Key
<1>13. k = "up" => c = "48" /\ e = TRUE /\ d = "char"
  BY <1>2 DEF Key
<1>14. /\ c \in {"2a", "36", "1d", "38", "3a", "1e", "02", "48"} /\ e \in BOOLEAN
       /\ d \in {"shift", "ctrl", "alt", "caps", "char"}
       /\ d = "shift" => ~e
       /\ c \in {"2a", "36"} <=> d = "shift"
       /\ c = "1d" <=> d = "ctrl"
       /\ c = "38" <=> d = "alt"
       /\ c = "3a" <=> d = "caps"
       /\ c \in {"1e", "02", "48"} <=> d = "char"
       /\ k = "caps" <=> d = "caps"
       /\ k = "a" <=> c = "1e"
       /\ k = "up" <=> c = "48" /\ e
       /\ d = "char" /\ e => k = "up"
  BY ONLY <1>1, <1>3, <1>4, <1>5, <1>6, <1>7, <1>8, <1>9, <1>10, <1>11, <1>12, <1>13
<1>15. /\ Codes("shift") = {"2a", "36"} /\ Codes("ctrl") = {"1d"} /\ Codes("alt") = {"38"}
       /\ \A m \in Modifiers : m \in {"shift", "ctrl", "alt"}
  BY DEF Codes, Modifiers
<1>16. \A m \in Modifiers : c \in Codes(m) <=> d = m
  BY ONLY <1>14, <1>15
<1> QED
  BY ONLY <1>2, <1>14, <1>16

\* One byte.
LEMMA Single ==
    ASSUME NEW x \in Alphabet
    PROVE  <<x>> \in Seq(Alphabet) /\ Len(<<x>>) = 1 /\ <<x>>[1] = x
OBVIOUS

\* Two bytes.
LEMMA Pair ==
    ASSUME NEW x \in Alphabet, NEW y \in Alphabet
    PROVE  LET g == <<x>> \o <<y>>
           IN  g \in Seq(Alphabet) /\ Len(g) = 2 /\ g[1] = x /\ g[2] = y
<1>1. Len(<<x>>) = 1 /\ Len(<<y>>) = 1 /\ <<x>>[1] = x /\ <<y>>[1] = y
      /\ <<x>> \in Seq(Alphabet) /\ <<y>> \in Seq(Alphabet)
  BY Single
<1> DEFINE a == <<x>>
           b == <<y>>
<1> HIDE DEF a, b
<1>2. /\ a \o b \in Seq(Alphabet) /\ Len(a \o b) = 2
      /\ (a \o b)[1] = a[1] /\ (a \o b)[1 + 1] = b[1]
  <2>1. Len(a) = 1 /\ Len(b) = 1 /\ a \in Seq(Alphabet) /\ b \in Seq(Alphabet)
    BY <1>1 DEF a, b
  <2>2. 1 \in 1..1
    OBVIOUS
  <2> QED
    BY <2>1, <2>2, Places2
<1> QED
  BY <1>1, <1>2 DEF a, b

\* The letters of the alphabet.
LEMMA Letters ==
    /\ E0 \in Alphabet /\ Ack \in Alphabet /\ E0 # Ack /\ E0.code = "e0" /\ Ack.code = "fa"
    /\ \A m \in Modifiers : "e0" \notin Codes(m) /\ "fa" \notin Codes(m)
    /\ \A up \in BOOLEAN : /\ Byte("2a", up) \in Alphabet /\ Byte("2a", up).code = "2a"
                           /\ Byte("2a", up) # E0 /\ Byte("2a", up) # Ack
BY DEF E0, Ack, Byte, Alphabet, Modifiers, Codes

\* The bytes of one key.
LEMMA BytesFacts ==
    ASSUME NEW k \in Keys, NEW up \in BOOLEAN
    PROVE  LET g == Bytes(k, up)
           IN  /\ g \in Seq(Alphabet) /\ Len(g) \in {1, 2}
               /\ g[Len(g)].code = Key[k].code /\ g[Len(g)].up = up
               /\ Key[k].kind = "shift" => Len(g) = 1
               /\ Whole(FALSE, g)
               /\ \A m \in Modifiers : Key[k].kind # m => Harmless(m, g)
<1> DEFINE x == Byte(Key[k].code, up)
<1>1. /\ Key[k].code \in {"2a", "36", "1d", "38", "3a", "1e", "02", "48"}
      /\ Key[k].esc \in BOOLEAN /\ (Key[k].kind = "shift" => ~Key[k].esc)
      /\ \A m \in Modifiers : Key[k].code \in Codes(m) <=> Key[k].kind = m
  BY KeyFacts
<1>2. x \in Alphabet /\ x.code = Key[k].code /\ x.up = up /\ x # E0 /\ x # Ack
  BY <1>1 DEF Byte, Alphabet, E0, Ack
<1> HIDE DEF x
<1>3. CASE ~Key[k].esc
  <2>1. Bytes(k, up) = <<>> \o <<x>>
    BY <1>3 DEF Bytes, x
  <2>2. <<x>> \in Seq(Alphabet) /\ Len(<<x>>) = 1 /\ <<x>>[1] = x
    BY <1>2, Single
  <2>3. Bytes(k, up) = <<x>>
    BY <2>1, <2>2, ConcatEmptySeq
  <2> DEFINE g == <<x>>
  <2>4. g \in Seq(Alphabet) /\ Len(g) = 1 /\ g[1] = x
    BY <2>2
  <2> HIDE DEF g
  <2>5. Whole(FALSE, g)
    BY <1>2, <2>4 DEF Whole
  <2>6. \A m \in Modifiers : Key[k].kind # m => Harmless(m, g)
    BY <1>1, <1>2, <2>4 DEF Harmless
  <2>7. Bytes(k, up) = g
    BY <2>3 DEF g
  <2> QED
    BY <1>2, <2>4, <2>5, <2>6, <2>7
<1>4. CASE Key[k].esc
  <2> DEFINE g == <<E0>> \o <<x>>
  <2>1. Bytes(k, up) = g
    BY <1>4 DEF Bytes, x
  <2>2. g \in Seq(Alphabet) /\ Len(g) = 2 /\ g[1] = E0 /\ g[2] = x
    BY <1>2, Letters, Pair
  <2> HIDE DEF g
  <2>3. Whole(FALSE, g)
    <3>1. \A i \in 1..2 : i = 1 \/ i = 2
      OBVIOUS
    <3> QED
      BY <1>2, <2>2, <3>1 DEF Whole
  <2>4. \A m \in Modifiers : Key[k].kind # m => Harmless(m, g)
    <3>1. \A i \in 1..2 : i = 1 \/ i = 2
      OBVIOUS
    <3> QED
      BY <1>1, <1>2, <2>2, <3>1, Letters DEF Harmless
  <2> QED
    BY <1>1, <1>2, <1>4, <2>1, <2>2, <2>3, <2>4
<1> QED
  BY <1>1, <1>3, <1>4

\* A pretended shift does nothing, wherever it comes.
LEMMA FakeFacts ==
    ASSUME NEW k \in Keys, NEW g \in Fakes(k)
    PROVE  /\ g \in Seq(Alphabet) /\ Whole(FALSE, g)
           /\ \A m \in Modifiers : Harmless(m, g)
           /\ Key[k].kind # "char" => g = <<>>
<1>1. CASE g = <<>>
  <2>1. g \in Seq(Alphabet) /\ Len(g) = 0
    BY <1>1
  <2> QED
    BY <1>1, <2>1 DEF Whole, Harmless
<1>2. CASE g # <<>>
  <2>1. PICK up \in BOOLEAN : g = <<E0, Byte("2a", up)>> /\ Key[k].kind = "char"
    BY <1>2 DEF Fakes
  <2>2. PICK x \in Alphabet : x = Byte("2a", up) /\ x.code = "2a" /\ x # E0 /\ x # Ack
    BY Letters
  <2>3. g = <<E0, x>>
    BY <2>1, <2>2
  <2>4. g \in Seq(Alphabet) /\ Len(g) = 2 /\ g[1] = E0 /\ g[2] = x
    BY <2>3, Letters
  <2>5. \A i \in 1..2 : i = 1 \/ i = 2
    OBVIOUS
  <2>6. Whole(FALSE, g)
    BY <2>2, <2>4, <2>5 DEF Whole
  <2>7. ASSUME NEW m \in Modifiers PROVE Harmless(m, g)
    <3>1. "e0" \notin Codes(m) /\ ("2a" \in Codes(m) => m = "shift")
      BY DEF Modifiers, Codes
    <3> QED
      BY <2>2, <2>4, <2>5, <3>1, Letters DEF Harmless
  <2> QED
    BY <2>1, <2>4, <2>6, <2>7
<1> QED
  BY <1>1, <1>2

\* Two harmless sequences make one.
LEMMA HarmlessConcat ==
    ASSUME NEW m \in Modifiers, NEW g \in Seq(Alphabet), NEW h \in Seq(Alphabet),
           Harmless(m, g), Harmless(m, h)
    PROVE  Harmless(m, g \o h)
<1> DEFINE t == g \o h
<1>1. PICK n \in Nat, p \in Nat : n = Len(g) /\ p = Len(h) /\ Len(t) = n + p
  BY Places2
<1>2. (\A k \in 1..n : t[k] = g[k]) /\ (\A k \in 1..p : t[n + k] = h[k])
  BY <1>1, Places2
<1> HIDE DEF t
<1>3. ASSUME NEW k \in 1..(n + p), t[k].code \in Codes(m)
      PROVE  m = "shift" /\ k > 1 /\ t[k - 1] = E0
  <2>1. CASE k <= n
    <3>1. k \in 1..n /\ t[k] = g[k]
      BY <1>2, <2>1
    <3>2. m = "shift" /\ k > 1 /\ g[k - 1] = E0
      BY <1>1, <1>3, <3>1 DEF Harmless
    <3>3. k - 1 \in 1..n
      BY <3>1, <3>2
    <3> QED
      BY <1>2, <3>2, <3>3
  <2>2. CASE k > n
    <3>1. PICK j \in 1..p : k = n + j
      <4>1. k - n \in 1..p /\ k = n + (k - n)
        BY <2>2
      <4> QED
        BY <4>1
    <3>2. t[k] = h[j]
      BY <1>2, <3>1
    <3>3. m = "shift" /\ j > 1 /\ h[j - 1] = E0
      BY <1>1, <1>3, <3>2 DEF Harmless
    <3>4. j - 1 \in 1..p /\ n + (j - 1) = k - 1
      BY <3>1, <3>3
    <3>5. t[n + (j - 1)] = h[j - 1]
      BY <1>2, <3>4
    <3> QED
      BY <3>1, <3>3, <3>4, <3>5
  <2> QED
    BY <2>1, <2>2
<1> QED
  BY <1>1, <1>3 DEF Harmless, t

----------------------------------------------------------------------------
(* The invariant.                                                           *)

\* As long as no scan code is taken for an answer: a modifier none of whose
\* keys is held will be off when the bytes on their way have been handled.
KbdInv ==
    ~lost =>
        /\ kbd_buf \in Seq(Alphabet) /\ wire \in Seq(Alphabet)
        /\ {shift_down, ctrl_down, alt_down, last_e0} \subseteq BOOLEAN
        /\ Whole(last_e0, Stream)
        /\ \A m \in Modifiers : ~Holding(m) => LetGo(m, Flag(m), last_e0, Stream)

\* The flags are Boolean.
LEMMA FlagType ==
    ASSUME {shift_down, ctrl_down, alt_down} \subseteq BOOLEAN, NEW m \in Modifiers
    PROVE  Flag(m) \in BOOLEAN
BY DEF Modifiers, Flag

\* KbdInv after a step.
LEMMA InvPrimed ==
    ASSUME kbd_buf' \in Seq(Alphabet), wire' \in Seq(Alphabet),
           {shift_down', ctrl_down', alt_down', last_e0'} \subseteq BOOLEAN,
           Whole(last_e0', Stream'),
           \A m \in Modifiers : ~Holding(m)' => LetGo(m, Flag(m)', last_e0', Stream')
    PROVE  KbdInv'
<1>1. Whole(last_e0, Stream)' <=> Whole(last_e0', Stream')
  BY DEF Whole, Ack, E0, Byte
<1>2. \A m \in Modifiers : LetGo(m, Flag(m), last_e0, Stream)' <=> LetGo(m, Flag(m)', last_e0', Stream')
  BY DEF LetGo, Counts, Codes, Escaped, E0, Byte
<1> QED
  BY <1>1, <1>2 DEF KbdInv

\* A step after which the same bytes have to be handled.
LEMMA SameStream ==
    ASSUME KbdInv, UNCHANGED <<flagVars, held, lost>>,
           ~lost => kbd_buf' \in Seq(Alphabet) /\ wire' \in Seq(Alphabet) /\ Stream' = Stream
    PROVE  KbdInv'
<1> SUFFICES ASSUME ~lost PROVE KbdInv'
  BY DEF KbdInv
<1>1. /\ shift_down' = shift_down /\ ctrl_down' = ctrl_down /\ alt_down' = alt_down
      /\ last_e0' = last_e0 /\ held' = held
  BY DEF flagVars
<1>2. \A m \in Modifiers : (Holding(m)' <=> Holding(m)) /\ Flag(m)' = Flag(m)
  BY <1>1 DEF Holding, Flag
<1>3. Stream' = Stream /\ kbd_buf' \in Seq(Alphabet) /\ wire' \in Seq(Alphabet)
  OBVIOUS
<1>4. /\ {shift_down, ctrl_down, alt_down, last_e0} \subseteq BOOLEAN
      /\ Whole(last_e0, Stream)
      /\ \A m \in Modifiers : ~Holding(m) => LetGo(m, Flag(m), last_e0, Stream)
  BY DEF KbdInv
<1>5. {shift_down', ctrl_down', alt_down', last_e0'} \subseteq BOOLEAN /\ Whole(last_e0', Stream')
  BY <1>1, <1>3, <1>4
<1>6. \A m \in Modifiers : ~Holding(m)' => LetGo(m, Flag(m)', last_e0', Stream')
  BY <1>1, <1>2, <1>3, <1>4
<1> QED
  BY <1>3, <1>5, <1>6, InvPrimed

\* The user presses or releases a key.
LEMMA SendInv ==
    ASSUME KbdInv, NEW k \in Keys, NEW g \in Seq(Alphabet), Whole(FALSE, g),
           wire' = wire \o g, UNCHANGED <<flagVars, kbd_buf, lost>>,
           \A m \in Modifiers :
               \/ Holding(m)'
               \/ ~Holding(m) /\ Harmless(m, g)
               \/ /\ Len(g) > 0 /\ g[Len(g)].code \in Codes(m) /\ g[Len(g)].up
                  /\ m = "shift" => Len(g) = 1
    PROVE  KbdInv'
<1> SUFFICES ASSUME ~lost PROVE KbdInv'
  BY DEF KbdInv
<1>1. /\ kbd_buf \in Seq(Alphabet) /\ wire \in Seq(Alphabet)
      /\ {shift_down, ctrl_down, alt_down, last_e0} \subseteq BOOLEAN
      /\ Whole(last_e0, Stream)
      /\ \A m \in Modifiers : ~Holding(m) => LetGo(m, Flag(m), last_e0, Stream)
  BY DEF KbdInv
<1>2. /\ shift_down' = shift_down /\ ctrl_down' = ctrl_down /\ alt_down' = alt_down
      /\ last_e0' = last_e0 /\ kbd_buf' = kbd_buf
  BY DEF flagVars
<1>3. PICK s \in Seq(Alphabet) : s = Stream
  BY <1>1, Places2 DEF Stream
<1>4. Stream' = s \o g
  BY <1>1, <1>2, <1>3, ConcatAssociative DEF Stream
<1>5. wire' \in Seq(Alphabet)
  BY <1>1, Places2
<1>6. PICK e \in BOOLEAN : e = last_e0
  BY <1>1
<1>7. Whole(e, s \o g)
  BY <1>1, <1>3, <1>6, WholeAppend
<1>8. ASSUME NEW m \in Modifiers, ~Holding(m)' PROVE LetGo(m, Flag(m)', e, s \o g)
  <2>1. PICK f \in BOOLEAN : f = Flag(m) /\ f = Flag(m)'
    <3>1. Flag(m)' = Flag(m)
      BY <1>2 DEF Flag
    <3> QED
      BY <1>1, <3>1, FlagType
  <2>2. CASE ~Holding(m) /\ Harmless(m, g)
    <3>1. LetGo(m, f, e, s)
      BY <1>1, <1>3, <1>6, <2>1, <2>2
    <3> QED
      BY <2>1, <2>2, <3>1, LetGoAppend
  <2>3. CASE /\ Len(g) > 0 /\ g[Len(g)].code \in Codes(m) /\ g[Len(g)].up
             /\ m = "shift" => Len(g) = 1
    <3>1. Whole(e, s)
      BY <1>1, <1>3, <1>6
    <3> QED
      BY <2>1, <2>3, <3>1, LetGoReleased
  <2> QED
    BY <1>8, <2>2, <2>3
<1>9. /\ kbd_buf' \in Seq(Alphabet) /\ {shift_down', ctrl_down', alt_down', last_e0'} \subseteq BOOLEAN
      /\ Whole(last_e0', Stream')
      /\ \A m \in Modifiers : ~Holding(m)' => LetGo(m, Flag(m)', last_e0', Stream')
  BY <1>1, <1>2, <1>4, <1>6, <1>7, <1>8
<1> QED
  BY <1>5, <1>9, InvPrimed

\* A press: the modifier is held, or the bytes do nothing to it.
LEMMA PressInv ==
    ASSUME KbdInv, NEW k \in Keys, Press(k)
    PROVE  KbdInv'
<1>1. PICK fake \in Fakes(k) : wire' = wire \o (fake \o Bytes(k, FALSE))
  BY DEF Press, Sent
<1> DEFINE g == fake \o Bytes(k, FALSE)
<1>2. /\ fake \in Seq(Alphabet) /\ Whole(FALSE, fake)
      /\ \A m \in Modifiers : Harmless(m, fake)
  BY FakeFacts
<1>3. PICK y \in Seq(Alphabet) : /\ y = Bytes(k, FALSE) /\ Whole(FALSE, y)
                                 /\ \A m \in Modifiers : Key[k].kind # m => Harmless(m, y)
  BY BytesFacts
<1>4. g \in Seq(Alphabet) /\ Whole(FALSE, g)
  BY <1>2, <1>3, WholeAppend, Places2
<1>5. ASSUME NEW m \in Modifiers PROVE Holding(m)' \/ (~Holding(m) /\ Harmless(m, g))
  <2>1. held' = held \cup {k}
    BY DEF Press
  <2>2. CASE Key[k].kind = m
    BY <2>1, <2>2 DEF Holding
  <2>3. CASE Key[k].kind # m
    <3>1. Harmless(m, g)
      BY <1>2, <1>3, <2>3, HarmlessConcat
    <3>2. Holding(m) => Holding(m)'
      BY <2>1 DEF Holding
    <3> QED
      BY <3>1, <3>2
  <2> QED
    BY <2>2, <2>3
<1>6. UNCHANGED <<flagVars, kbd_buf, lost>>
  BY DEF Press
<1> HIDE DEF g
<1>7. wire' = wire \o g
  BY <1>1 DEF g
<1> QED
  BY <1>4, <1>5, <1>6, <1>7, SendInv

\* A release: no other key of the modifier is held, or the bytes do nothing to it.
LEMMA ReleaseInv ==
    ASSUME KbdInv, NEW k \in Keys, Release(k)
    PROVE  KbdInv'
<1>1. PICK fake \in Fakes(k) : wire' = wire \o (Bytes(k, TRUE) \o fake)
  BY DEF Release, Sent
<1> DEFINE g == Bytes(k, TRUE) \o fake
<1>2. /\ fake \in Seq(Alphabet) /\ Whole(FALSE, fake)
      /\ \A m \in Modifiers : Harmless(m, fake)
      /\ Key[k].kind # "char" => fake = <<>>
  BY FakeFacts
<1>3. PICK y \in Seq(Alphabet) : /\ y = Bytes(k, TRUE) /\ Whole(FALSE, y)
                                 /\ Len(y) \in {1, 2} /\ y[Len(y)].code = Key[k].code /\ y[Len(y)].up
                                 /\ Key[k].kind = "shift" => Len(y) = 1
                                 /\ \A m \in Modifiers : Key[k].kind # m => Harmless(m, y)
  BY BytesFacts
<1>4. g \in Seq(Alphabet) /\ Whole(FALSE, g)
  BY <1>2, <1>3, WholeAppend, Places2
<1>5. ASSUME NEW m \in Modifiers
      PROVE  \/ Holding(m)'
             \/ ~Holding(m) /\ Harmless(m, g)
             \/ /\ Len(g) > 0 /\ g[Len(g)].code \in Codes(m) /\ g[Len(g)].up
                /\ m = "shift" => Len(g) = 1
  <2>1. held' = held \ {k}
    BY DEF Release
  <2>2. CASE Key[k].kind = m
    <3>1. m # "char"
      BY DEF Modifiers
    <3>2. g = y
      BY <1>2, <1>3, <2>2, <3>1, ConcatEmptySeq
    <3>3. Key[k].code \in Codes(m)
      BY <2>2, KeyFacts
    <3>4. Len(g) > 0 /\ g[Len(g)].code \in Codes(m) /\ g[Len(g)].up
      <4>1. Len(y) > 0
        <5>1. Len(y) = 1 \/ Len(y) = 2
          BY ONLY <1>3, Zenon
        <5> QED
          BY ONLY <5>1
      <4>2. y[Len(y)].code \in Codes(m) /\ y[Len(y)].up
        BY ONLY <1>3, <3>3, Zenon
      <4> QED
        BY <3>2, <4>1, <4>2
    <3>5. m = "shift" => Len(g) = 1
      BY <1>3, <2>2, <3>2
    <3> QED
      BY <3>4, <3>5
  <2>3. CASE Key[k].kind # m
    <3>1. Harmless(m, g)
      BY <1>2, <1>3, <2>3, HarmlessConcat
    <3>2. Holding(m) => Holding(m)'
      BY <2>1, <2>3 DEF Holding
    <3> QED
      BY <3>1, <3>2
  <2> QED
    BY <2>2, <2>3
<1>6. UNCHANGED <<flagVars, kbd_buf, lost>>
  BY DEF Release
<1> HIDE DEF g
<1>7. wire' = wire \o g
  BY <1>1 DEF g
<1> QED
  BY <1>4, <1>5, <1>6, <1>7, SendInv

\* irq1 moves a byte from the controller to the kernel's buffer.
LEMMA Irq1Stream ==
    ASSUME Irq1, kbd_buf \in Seq(Alphabet), wire \in Seq(Alphabet)
    PROVE  kbd_buf' \in Seq(Alphabet) /\ wire' \in Seq(Alphabet) /\ Stream' = Stream
<1>1. wire # <<>> /\ kbd_buf' = Append(kbd_buf, Head(wire)) /\ wire' = Tail(wire)
  BY DEF Irq1
<1>2. PICK h \in Alphabet : h = Head(wire) /\ wire' \in Seq(Alphabet) /\ wire = <<h>> \o wire'
  BY <1>1, FirstOut
<1>3. <<h>> \in Seq(Alphabet)
  BY Single
<1>4. kbd_buf' = kbd_buf \o <<h>> /\ kbd_buf' \in Seq(Alphabet)
  BY <1>1, <1>2, AppendIsConcat, AppendProperties
<1> QED
  BY <1>2, <1>3, <1>4, ConcatAssociative DEF Stream

\* The bytes that have to be handled are the same.
LEMMA Irq1Inv ==
    ASSUME KbdInv, Irq1
    PROVE  KbdInv'
<1>1. UNCHANGED <<flagVars, held, lost>>
  BY DEF Irq1
<1>2. ~lost => kbd_buf' \in Seq(Alphabet) /\ wire' \in Seq(Alphabet) /\ Stream' = Stream
  BY Irq1Stream DEF KbdInv
<1> QED
  BY <1>1, <1>2, SameStream

\* kbd_cmd takes an acknowledgement that is the first byte of w.
LEMMA AckSkipped ==
    ASSUME NEW e \in BOOLEAN, NEW b \in Seq(Alphabet), NEW w \in Seq(Alphabet),
           NEW v \in Seq(Alphabet), Len(w) > 0, w[1] = Ack, Len(v) = Len(w) - 1,
           \A k \in 1..Len(v) : v[k] = w[k + 1], Whole(e, b \o w)
    PROVE  /\ Whole(e, b \o v)
           /\ \A m \in Modifiers, f \in BOOLEAN : LetGo(m, f, e, b \o w) => LetGo(m, f, e, b \o v)
<1> DEFINE s == b \o w
           t == b \o v
<1>1. PICK n \in Nat, p \in Nat : n = Len(b) /\ p = Len(v)
  BY LenProperties
<1>2. Len(w) = p + 1
  BY <1>1, LenProperties
<1>3. /\ s \in Seq(Alphabet) /\ Len(s) = n + (p + 1)
      /\ \A k \in 1..n : s[k] = b[k]
      /\ \A k \in 1..(p + 1) : s[n + k] = w[k]
  BY <1>1, <1>2, Places2
<1>4. /\ t \in Seq(Alphabet) /\ Len(t) = n + p
      /\ \A k \in 1..n : t[k] = b[k]
      /\ \A k \in 1..p : t[n + k] = v[k]
  BY <1>1, Places2
<1> HIDE DEF s, t
<1>5. n \in 0..(Len(s) - 1) /\ Len(t) = Len(s) - 1
  BY <1>3, <1>4
<1>6. s[n + 1] = Ack
  <2>1. 1 \in 1..(p + 1)
    OBVIOUS
  <2> QED
    BY <1>3, <2>1
<1>7. \A k \in 1..n : t[k] = s[k]
  BY <1>3, <1>4
<1>8. ASSUME NEW k \in (n + 1)..Len(t) PROVE t[k] = s[k + 1]
  <2>1. PICK j \in 1..p : k = n + j
    <3>1. k - n \in 1..p /\ k = n + (k - n)
      BY <1>4, <1>8
    <3> QED
      BY <3>1
  <2>2. j + 1 \in 1..(p + 1) /\ n + (j + 1) = k + 1
    BY <2>1
  <2>3. s[n + (j + 1)] = w[j + 1]
    BY <1>3, <2>2
  <2>4. t[n + j] = v[j] /\ v[j] = w[j + 1]
    BY <1>1, <1>4
  <2> QED
    BY <2>1, <2>2, <2>3, <2>4
<1>9. Whole(e, s)
  BY DEF s
<1>10. /\ Whole(e, t)
       /\ \A m \in Modifiers, f \in BOOLEAN : LetGo(m, f, e, s) => LetGo(m, f, e, t)
  BY <1>3, <1>4, <1>5, <1>6, <1>7, <1>8, <1>9, WithoutAck
<1> QED
  BY <1>10 DEF s, t

\* When kbd_cmd took no scan code for the answer, it tried once, and the
\* first byte on its way, if any, was an acknowledgement.
LEMMA KbdCmdOnce ==
    ASSUME KbdCmd, ~lost'
    PROVE  ~lost /\ Tries = 1 /\ Answer(1) = Ack
<1> DEFINE Try(n) == (n = 3 \/ Answer(n) = Ack) /\ \A m \in 1..(n - 1) : Answer(m) # Ack
<1>1. \E n \in 1..3 : Try(n)
  <2>1. CASE Answer(1) = Ack
    <3>1. Try(1)
      BY <2>1
    <3> QED
      BY <3>1
  <2>2. CASE Answer(1) # Ack /\ Answer(2) = Ack
    <3>1. \A m \in 1..(2 - 1) : m = 1
      OBVIOUS
    <3>2. Try(2)
      BY <2>2, <3>1
    <3> QED
      BY <3>2
  <2>3. CASE Answer(1) # Ack /\ Answer(2) # Ack
    <3>1. \A m \in 1..(3 - 1) : m = 1 \/ m = 2
      OBVIOUS
    <3>2. Try(3)
      BY <2>3, <3>1
    <3> QED
      BY <3>2
  <2> QED
    BY <2>1, <2>2, <2>3
<1>2. Tries = CHOOSE n \in 1..3 : Try(n)
  BY DEF Tries
<1> HIDE DEF Try
<1>3. Tries \in 1..3 /\ Try(Tries)
  BY <1>1, <1>2
<1>4. ~lost /\ \A n \in 1..Tries : Answer(n) = Ack
  BY DEF KbdCmd
<1>5. Answer(1) = Ack
  BY <1>3, <1>4
<1>6. ~(1 \in 1..(Tries - 1))
  BY <1>3, <1>5 DEF Try
<1> QED
  BY <1>3, <1>4, <1>5, <1>6

\* What kbd_cmd leaves on the wire then.
LEMMA KbdCmdWire ==
    ASSUME KbdCmd, ~lost', wire \in Seq(Alphabet)
    PROVE  \E w, a \in Seq(Alphabet) :
              /\ w = wire \o a /\ Whole(FALSE, a) /\ \A m \in Modifiers : Harmless(m, a)
              /\ \A k \in 1..Len(a) : a[k] = Ack
              /\ Len(w) > 0 /\ w[1] = Ack
              /\ wire' \in Seq(Alphabet) /\ Len(wire') = Len(w) - 1
              /\ \A k \in 1..Len(wire') : wire'[k] = w[k + 1]
<1>1. Tries = 1 /\ Answer(1) = Ack
  BY KbdCmdOnce
<1> DEFINE a == [n \in 1..2 |-> Ack]
<1>2. a \in Seq(Alphabet) /\ Len(a) = 2 /\ \A n \in 1..2 : a[n] = Ack
  BY Letters
<1>3. wire' = SubSeq(wire \o a, 1 + 1, Len(wire) + 2)
  <2>1. 2 * 1 = 2
    OBVIOUS
  <2> QED
    BY <1>1, <2>1 DEF KbdCmd
<1> HIDE DEF a
<1>4. Whole(FALSE, a) /\ \A m \in Modifiers : Harmless(m, a)
  BY <1>2, Letters DEF Whole, Harmless
<1> DEFINE w == wire \o a
<1>5. PICK p \in Nat : p = Len(wire)
  BY LenProperties
<1>6. /\ w \in Seq(Alphabet) /\ Len(w) = p + 2
      /\ \A k \in 1..p : w[k] = wire[k]
      /\ \A k \in 1..2 : w[p + k] = a[k]
  <2>1. /\ w \in Seq(Alphabet) /\ Len(w) = Len(wire) + Len(a)
        /\ \A k \in 1..Len(wire) : w[k] = wire[k]
        /\ \A k \in 1..Len(a) : w[Len(wire) + k] = a[k]
    BY <1>2, Places2
  <2> HIDE DEF w
  <2> QED
    BY <1>2, <1>5, <2>1
<1> HIDE DEF w
<1>7. w[1] = Ack
  <2>1. CASE p = 0
    <3>1. w[p + 1] = a[1] /\ a[1] = Ack
      BY <1>2, <1>6
    <3> QED
      BY <2>1, <3>1
  <2>2. CASE p > 0
    <3>1. wire[1] = Ack
      BY <1>1, <1>5, <2>2 DEF Answer
    <3> QED
      BY <1>6, <2>2, <3>1
  <2> QED
    BY <2>1, <2>2
<1>8. wire' = SubSeq(w, 2, p + 2)
  BY <1>3, <1>5 DEF w
<1>9. \A i \in 2..(p + 2) : w[i] \in Alphabet
  BY <1>6, ElementOfSeq
<1>10. /\ wire' \in Seq(Alphabet) /\ Len(wire') = p + 1
       /\ \A i \in 1..(p + 1) : wire'[i] = w[i + 1]
  <2>1. /\ SubSeq(w, 2, p + 2) \in Seq(Alphabet)
        /\ Len(SubSeq(w, 2, p + 2)) = IF 2 <= p + 2 THEN (p + 2) - 2 + 1 ELSE 0
        /\ \A i \in 1..((p + 2) - 2 + 1) : SubSeq(w, 2, p + 2)[i] = w[2 + i - 1]
    BY <1>9, SubSeqProperties
  <2>2. (p + 2) - 2 + 1 = p + 1 /\ 2 <= p + 2 /\ \A i \in 1..(p + 1) : 2 + i - 1 = i + 1
    OBVIOUS
  <2> QED
    BY <1>8, <2>1, <2>2
<1>11. /\ w = wire \o a /\ Len(w) > 0 /\ Len(wire') = Len(w) - 1
       /\ \A k \in 1..Len(wire') : wire'[k] = w[k + 1]
  BY <1>6, <1>10 DEF w
<1>12. \A k \in 1..Len(a) : a[k] = Ack
  BY <1>2
<1> QED
  BY <1>2, <1>4, <1>6, <1>7, <1>10, <1>11, <1>12

\* What keyScanned does to last_e0 and to the flags: a byte that counts and
\* is a release clears the flag, one that does not count does not set it.
LEMMA ScannedFlags ==
    ASSUME {shift_down, ctrl_down, alt_down, last_e0} \subseteq BOOLEAN,
           NEW s \in Seq(Alphabet), NEW b \in Alphabet, b = s[1],
           IF last_e0 /\ (b = E0 \/ FakeShift(b) \/ EscHandled(b)) THEN ScanEscaped(b) ELSE ScanPlain(b)
    PROVE  /\ {shift_down', ctrl_down', alt_down', last_e0'} \subseteq BOOLEAN
           /\ last_e0' <=> b = E0
           /\ \A m \in Modifiers :
                 /\ Counts(m, last_e0, s, 1) => (b.up => ~Flag(m)')
                 /\ ~Counts(m, last_e0, s, 1) => (Flag(m)' => Flag(m))
<1>1. b.up \in BOOLEAN
  BY DEF Alphabet
<1>2. \A m \in Modifiers : Counts(m, last_e0, s, 1) <=> b.code \in Codes(m) /\ (m = "shift" => ~last_e0)
  BY DEF Counts, Escaped
<1>3. last_e0' = (b = E0)
  BY DEF ScanEscaped, ScanPlain
<1>4. /\ Codes("shift") = {"2a", "36"} /\ Codes("ctrl") = {"1d"} /\ Codes("alt") = {"38"}
      /\ \A m \in Modifiers : m \in {"shift", "ctrl", "alt"}
      /\ Modifiers = {"shift", "ctrl", "alt"}
  BY DEF Codes, Modifiers
<1>5. /\ Flag("shift") = shift_down /\ Flag("ctrl") = ctrl_down /\ Flag("alt") = alt_down
      /\ Flag("shift")' = shift_down' /\ Flag("ctrl")' = ctrl_down' /\ Flag("alt")' = alt_down'
  BY DEF Flag
<1>6. CASE last_e0 /\ (b = E0 \/ FakeShift(b) \/ EscHandled(b))
  <2>1. shift_down' = shift_down /\ ctrl_down' = ctrl_down /\ alt_down' = alt_down
    BY <1>6 DEF ScanEscaped
  <2>2. b.code \in {"e0", "2a", "36", "48"}
    BY <1>6 DEF E0, Byte, FakeShift, EscHandled
  <2>3. \A m \in Modifiers : ~Counts(m, last_e0, s, 1)
    BY <1>2, <1>4, <1>6, <2>2
  <2>4. \A m \in Modifiers : Flag(m)' => Flag(m)
    BY <1>4, <1>5, <2>1
  <2>5. {shift_down', ctrl_down', alt_down', last_e0'} \subseteq BOOLEAN
    BY <1>3, <2>1
  <2> QED
    BY <1>3, <2>3, <2>4, <2>5
<1>7. CASE ~(last_e0 /\ (b = E0 \/ FakeShift(b) \/ EscHandled(b)))
  <2>1. /\ shift_down' = IF b.code \in {"2a", "36"} THEN ~b.up ELSE shift_down
        /\ ctrl_down' = IF b.code = "1d" THEN ~b.up ELSE ctrl_down
        /\ alt_down' = IF b.code = "38" THEN ~b.up ELSE alt_down
    BY <1>7 DEF ScanPlain
  <2>2. b.code \in {"2a", "36"} => ~last_e0
    BY <1>7 DEF FakeShift
  <2>3. {shift_down', ctrl_down', alt_down', last_e0'} \subseteq BOOLEAN
    <3>1. shift_down' \in BOOLEAN
      BY <1>1, <2>1
    <3>2. ctrl_down' \in BOOLEAN
      BY <1>1, <2>1
    <3>3. alt_down' \in BOOLEAN
      BY <1>1, <2>1
    <3> QED
      BY <1>3, <3>1, <3>2, <3>3
  <2> DEFINE Goal(m) == /\ Counts(m, last_e0, s, 1) => (b.up => ~Flag(m)')
                        /\ ~Counts(m, last_e0, s, 1) => (Flag(m)' => Flag(m))
  <2>4. Goal("shift")
    <3>1. Counts("shift", last_e0, s, 1) <=> b.code \in {"2a", "36"}
      BY <1>2, <1>4, <2>2
    <3> QED
      BY <1>1, <1>5, <2>1, <3>1
  <2>5. Goal("ctrl")
    <3>1. Counts("ctrl", last_e0, s, 1) <=> b.code = "1d"
      BY <1>2, <1>4
    <3> QED
      BY <1>1, <1>5, <2>1, <3>1
  <2>6. Goal("alt")
    <3>1. Counts("alt", last_e0, s, 1) <=> b.code = "38"
      BY <1>2, <1>4
    <3> QED
      BY <1>1, <1>5, <2>1, <3>1
  <2> HIDE DEF Goal
  <2>7. \A m \in Modifiers : Goal(m)
    BY <1>4, <2>4, <2>5, <2>6
  <2> QED
    BY <1>3, <2>3, <2>7 DEF Goal
<1> QED
  BY <1>6, <1>7

\* process_keys handles a byte.
LEMMA KeyScannedInv ==
    ASSUME KbdInv, KeyScanned
    PROVE  KbdInv'
<1> SUFFICES ASSUME ~lost' PROVE KbdInv'
  BY DEF KbdInv
<1> DEFINE b == Head(kbd_buf)
<1>1. IF last_e0 /\ (b = E0 \/ FakeShift(b) \/ EscHandled(b)) THEN ScanEscaped(b) ELSE ScanPlain(b)
  BY DEF KeyScanned
<1>2. kbd_buf # <<>> /\ kbd_buf' = Tail(kbd_buf) /\ held' = held
  BY DEF KeyScanned
<1>3. KbdCmd \/ NoCmd
  BY <1>1 DEF ScanEscaped, ScanPlain
<1>4. ~lost
  BY <1>3, KbdCmdOnce DEF NoCmd
<1>5. /\ kbd_buf \in Seq(Alphabet) /\ wire \in Seq(Alphabet)
      /\ {shift_down, ctrl_down, alt_down, last_e0} \subseteq BOOLEAN
      /\ Whole(last_e0, Stream)
      /\ \A m \in Modifiers : ~Holding(m) => LetGo(m, Flag(m), last_e0, Stream)
  BY <1>4 DEF KbdInv
<1>6. PICK s \in Seq(Alphabet) : s = Stream
  BY <1>5, Places2 DEF Stream
<1>7. /\ b \in Alphabet /\ kbd_buf' \in Seq(Alphabet) /\ b = s[1] /\ s # <<>>
      /\ Tail(s) = kbd_buf' \o wire
  <2>1. b \in Alphabet /\ kbd_buf' \in Seq(Alphabet)
    BY <1>2, <1>5, HeadTailProperties
  <2>2. PICK n \in Nat \ {0}, p \in Nat : n = Len(kbd_buf) /\ p = Len(wire)
    BY <1>2, <1>5, EmptySeq, LenProperties
  <2>3. /\ Len(s) = n + p
        /\ \A k \in 1..n : s[k] = kbd_buf[k]
        /\ \A k \in 1..p : s[n + k] = wire[k]
    BY <1>5, <1>6, <2>2, Places2 DEF Stream
  <2>4. s # <<>>
    <3>1. Len(s) # 0
      BY <2>2, <2>3
    <3> QED
      BY <3>1
  <2>5. kbd_buf[1] = b
    <3>1. SubSeq(kbd_buf, 1, Len(kbd_buf)) = kbd_buf
      BY <1>5, SubSeqFull
    <3>2. 1 \in 1..Len(kbd_buf) /\ Len(kbd_buf) \in 1..Len(kbd_buf)
      BY <2>2
    <3>3. Head(SubSeq(kbd_buf, 1, Len(kbd_buf))) = kbd_buf[1]
      BY <1>5, <3>2, HeadTailOfSubSeq
    <3> QED
      BY <3>1, <3>3
  <2>6. s[1] = b
    <3>1. 1 \in 1..n
      OBVIOUS
    <3> QED
      BY <2>3, <2>5, <3>1
  <2>7. /\ Tail(s) \in Seq(Alphabet) /\ Len(Tail(s)) = n + p - 1
        /\ \A k \in 1..(n + p - 1) : Tail(s)[k] = s[k + 1]
    BY <2>3, <2>4, HeadTailProperties
  <2>8. Len(kbd_buf') = n - 1 /\ \A k \in 1..(n - 1) : kbd_buf'[k] = kbd_buf[k + 1]
    BY <1>2, <1>5, <2>2, HeadTailProperties
  <2> DEFINE t == kbd_buf' \o wire
  <2>9. /\ t \in Seq(Alphabet) /\ Len(t) = n - 1 + p
        /\ \A k \in 1..(n - 1) : t[k] = kbd_buf'[k]
        /\ \A k \in 1..p : t[n - 1 + k] = wire[k]
    <3>1. /\ t \in Seq(Alphabet) /\ Len(t) = Len(kbd_buf') + Len(wire)
          /\ \A k \in 1..Len(kbd_buf') : t[k] = kbd_buf'[k]
          /\ \A k \in 1..Len(wire) : t[Len(kbd_buf') + k] = wire[k]
      BY <1>5, <2>1, Places2
    <3> HIDE DEF t
    <3>2. Len(kbd_buf') = n - 1 /\ Len(wire) = p
      BY <2>2, <2>8
    <3> QED
      BY ONLY <3>1, <3>2, Zenon
  <2> HIDE DEF t, b
  <2>10. ASSUME NEW k \in 1..(n + p - 1) PROVE Tail(s)[k] = t[k]
    <3>1. Tail(s)[k] = s[k + 1]
      BY <2>7
    <3>2. CASE k \in 1..(n - 1)
      <4>1. k + 1 \in 1..n
        BY <3>2
      <4> QED
        BY <2>3, <2>8, <2>9, <3>1, <3>2, <4>1
    <3>3. CASE k \notin 1..(n - 1)
      <4>1. PICK j \in 1..p : k = n - 1 + j /\ n + j = k + 1
        <5>1. k - (n - 1) \in 1..p /\ k = n - 1 + (k - (n - 1)) /\ n + (k - (n - 1)) = k + 1
          BY <2>10, <3>3
        <5> QED
          BY <5>1
      <4>2. t[n - 1 + j] = wire[j] /\ s[n + j] = wire[j]
        BY <2>3, <2>9
      <4> QED
        BY <3>1, <4>1, <4>2
    <3> QED
      BY <3>2, <3>3
  <2>11. Len(Tail(s)) = Len(t) /\ Len(Tail(s)) = n + p - 1
    BY <2>7, <2>9
  <2>12. Tail(s) = t
    BY <2>7, <2>9, <2>10, <2>11, SeqEqual
  <2> QED
    BY <2>1, <2>4, <2>6, <2>12 DEF t
<1> HIDE DEF b
<1>8. /\ {shift_down', ctrl_down', alt_down', last_e0'} \subseteq BOOLEAN
      /\ last_e0' <=> b = E0
      /\ \A m \in Modifiers :
            /\ Counts(m, last_e0, s, 1) => (b.up => ~Flag(m)')
            /\ ~Counts(m, last_e0, s, 1) => (Flag(m)' => Flag(m))
  BY <1>1, <1>5, <1>7, ScannedFlags
<1>9. PICK e \in BOOLEAN, e2 \in BOOLEAN : e = last_e0 /\ e2 = last_e0'
  BY <1>5, <1>8
<1> DEFINE t == kbd_buf' \o wire
<1>10. t \in Seq(Alphabet) /\ t = Tail(s)
  BY <1>5, <1>7, Places2
<1> HIDE DEF t
<1>11. Whole(e2, t)
  BY <1>5, <1>6, <1>7, <1>8, <1>9, <1>10, WholeHandled
<1>12. ASSUME NEW m \in Modifiers, ~Holding(m)' PROVE Flag(m)' \in BOOLEAN /\ LetGo(m, Flag(m)', e2, t)
  <2>1. ~Holding(m)
    BY <1>2, <1>12 DEF Holding
  <2>2. PICK f \in BOOLEAN : f = Flag(m)
    BY <1>5, FlagType
  <2>3. Flag(m)' \in BOOLEAN
    BY <1>8 DEF Modifiers, Flag
  <2>4. PICK f2 \in BOOLEAN : f2 = Flag(m)'
    BY <2>3
  <2>5. LetGo(m, f, e, s)
    BY <1>5, <1>6, <1>9, <2>1, <2>2
  <2>6. /\ Counts(m, e, s, 1) => (s[1].up => ~f2)
        /\ ~Counts(m, e, s, 1) => (f2 => f)
        /\ e2 <=> s[1] = E0
    BY <1>7, <1>8, <1>9, <2>2, <2>4
  <2>7. LetGo(m, f2, e2, Tail(s))
    BY <1>7, <2>5, <2>6, LetGoHandled
  <2> QED
    BY <1>10, <2>3, <2>4, <2>7
<1>13. /\ wire' \in Seq(Alphabet) /\ Whole(e2, kbd_buf' \o wire')
       /\ \A m \in Modifiers : ~Holding(m)' => LetGo(m, Flag(m)', e2, kbd_buf' \o wire')
  <2>1. CASE NoCmd
    <3>1. wire' = wire
      BY <2>1 DEF NoCmd
    <3> QED
      BY <1>5, <1>11, <1>12, <3>1 DEF t
  <2>2. CASE KbdCmd
    <3>1. PICK w \in Seq(Alphabet), a \in Seq(Alphabet) :
              /\ w = wire \o a /\ Whole(FALSE, a) /\ \A m \in Modifiers : Harmless(m, a)
              /\ Len(w) > 0 /\ w[1] = Ack
              /\ wire' \in Seq(Alphabet) /\ Len(wire') = Len(w) - 1
              /\ \A k \in 1..Len(wire') : wire'[k] = w[k + 1]
      BY <1>5, <2>2, KbdCmdWire
    <3>2. t \o a = kbd_buf' \o w
      <4>1. kbd_buf' \in Seq(Alphabet) /\ wire \in Seq(Alphabet) /\ a \in Seq(Alphabet)
        BY <1>5, <1>7
      <4>2. (kbd_buf' \o wire) \o a = kbd_buf' \o (wire \o a)
        BY ONLY <4>1, ConcatAssociative
      <4> QED
        BY ONLY <3>1, <4>2, Zenon DEF t
    <3>3. Whole(e2, kbd_buf' \o w)
      BY <1>10, <1>11, <3>1, <3>2, WholeAppend
    <3>4. /\ Whole(e2, kbd_buf' \o wire')
          /\ \A m \in Modifiers, f \in BOOLEAN :
                LetGo(m, f, e2, kbd_buf' \o w) => LetGo(m, f, e2, kbd_buf' \o wire')
      BY <1>7, <3>1, <3>3, AckSkipped
    <3>5. ASSUME NEW m \in Modifiers, ~Holding(m)' PROVE LetGo(m, Flag(m)', e2, kbd_buf' \o wire')
      <4>1. PICK f \in BOOLEAN : f = Flag(m)' /\ LetGo(m, f, e2, t)
        BY <1>12, <3>5
      <4>2. LetGo(m, f, e2, t \o a)
        BY <1>10, <3>1, <4>1, LetGoAppend
      <4> QED
        BY <3>2, <3>4, <4>1, <4>2
    <3> QED
      BY <3>1, <3>4, <3>5
  <2> QED
    BY <1>3, <2>1, <2>2
<1>14. Stream' = kbd_buf' \o wire'
  BY DEF Stream
<1>15. Whole(last_e0', Stream') /\ \A m \in Modifiers : ~Holding(m)' => LetGo(m, Flag(m)', last_e0', Stream')
  BY <1>9, <1>13, <1>14
<1> QED
  BY <1>7, <1>8, <1>13, <1>15, InvPrimed

----------------------------------------------------------------------------
(* The theorem.                                                             *)

\* The one byte on its way at the start is an acknowledgement.
LEMMA KbdInitInv == KbdInit => KbdInv
<1> SUFFICES ASSUME KbdInit PROVE KbdInv
  OBVIOUS
<1>1. /\ shift_down = FALSE /\ ctrl_down = FALSE /\ alt_down = FALSE /\ last_e0 = FALSE
      /\ wire = <<Ack>> /\ kbd_buf = <<>>
  BY DEF KbdInit
<1>2. <<Ack>> \in Seq(Alphabet) /\ Len(<<Ack>>) = 1 /\ <<Ack>>[1] = Ack
  BY Letters, Single
<1>3. PICK s \in Seq(Alphabet) : s = <<Ack>> /\ Len(s) = 1 /\ s[1] = Ack
  BY <1>2
<1>4. Stream = s
  BY <1>1, <1>3, ConcatEmptySeq DEF Stream
<1>5. Whole(FALSE, s)
  BY <1>3, Letters DEF Whole
<1>6. ASSUME NEW m \in Modifiers PROVE ~Flag(m) /\ LetGo(m, Flag(m), FALSE, s)
  <2>1. ~Flag(m)
    BY <1>1 DEF Modifiers, Flag
  <2>2. ~Counts(m, FALSE, s, 1)
    BY <1>3, Letters DEF Counts
  <2>3. \A k \in 1..Len(s) : k = 1
    BY <1>3
  <2> QED
    BY <2>1, <2>2, <2>3 DEF LetGo
<1>7. kbd_buf \in Seq(Alphabet) /\ wire \in Seq(Alphabet)
  BY <1>1, <1>2, EmptySeq
<1> QED
  BY <1>1, <1>4, <1>5, <1>6, <1>7 DEF KbdInv

\* Every step keeps the invariant.
LEMMA KbdInvNext ==
    ASSUME KbdInv, [KbdNext]_kbdVars
    PROVE  KbdInv'
<1>1. ASSUME NEW k \in Keys, Press(k) PROVE KbdInv'
  BY <1>1, PressInv
<1>2. ASSUME NEW k \in Keys, Release(k) PROVE KbdInv'
  BY <1>2, ReleaseInv
<1>3. CASE Irq1
  BY <1>3, Irq1Inv
<1>4. CASE KeyScanned
  BY <1>4, KeyScannedInv
<1>5. CASE UNCHANGED kbdVars
  <2>1. UNCHANGED <<flagVars, held, lost>> /\ kbd_buf' = kbd_buf /\ wire' = wire
    BY <1>5 DEF kbdVars, flagVars
  <2>2. Stream' = Stream
    BY <2>1 DEF Stream
  <2>3. ~lost => kbd_buf' \in Seq(Alphabet) /\ wire' \in Seq(Alphabet)
    BY <2>1 DEF KbdInv
  <2> QED
    BY <2>1, <2>2, <2>3, SameStream
<1> QED
  BY <1>1, <1>2, <1>3, <1>4, <1>5 DEF KbdNext

\* Whatever is pressed, released, pretended, repeated or acknowledged late,
\* when every byte has been handled and kbd_cmd has swallowed none, a flag
\* that is set has a key that is held.
THEOREM NeverStuck == KbdSpec => []NoStuckModifier
<1>1. KbdInv /\ [KbdNext]_kbdVars => KbdInv'
  BY KbdInvNext
<1>2. KbdInv => NoStuckModifier
  <2> SUFFICES ASSUME KbdInv, wire = <<>>, kbd_buf = <<>>, ~lost
               PROVE  \A m \in Modifiers : Flag(m) => Holding(m)
    BY DEF NoStuckModifier, Quiet, Modifiers, Flag
  <2>1. \A m \in Modifiers : ~Holding(m) => LetGo(m, Flag(m), last_e0, Stream)
    BY DEF KbdInv
  <2>2. Len(Stream) = 0
    <3>1. <<>> \in Seq(Alphabet) /\ Len(<<>>) = 0
      BY EmptySeq
    <3> QED
      BY <3>1, ConcatEmptySeq DEF Stream
  <2>3. 1..Len(Stream) = {}
    BY <2>2
  <2> QED
    BY <2>1, <2>3 DEF LetGo
<1> QED
  BY <1>1, <1>2, KbdInitInv, PTL DEF KbdSpec

----------------------------------------------------------------------------
(* What the bytes on their way will do.                                     *)

Inputs == [key : {"A", "a", "!", "1", "8", "up"}, shift : BOOLEAN, ctrl : BOOLEAN, alt : BOOLEAN]

\* The flags, and the inputs that are still due.
States == [shift : BOOLEAN, ctrl : BOOLEAN, alt : BOOLEAN, caps : BOOLEAN, e0 : BOOLEAN,
           due : Seq(Inputs)]

Escapes(x, b) == x.e0 /\ (b = E0 \/ FakeShift(b) \/ EscHandled(b))

Delivers(x, b) ==
    IF Escapes(x, b) THEN EscHandled(b) ELSE b.code \in {"1e", "02", "48"} /\ ~b.up

Delivered(x, b) ==
    Input(IF Escapes(x, b) THEN "up"
          ELSE Symbol(b.code, IF b.code = "1e" THEN x.shift # x.caps ELSE x.shift),
          x.shift, x.ctrl, x.alt)

\* keyScanned handles b: it delivers what is due, and no e0 stands before an
\* acknowledgement.
Scans(x, b, y) ==
    /\ y.shift = IF b.code \in {"2a", "36"} /\ ~Escapes(x, b) THEN ~b.up ELSE x.shift
    /\ y.ctrl = IF b.code = "1d" THEN ~b.up ELSE x.ctrl
    /\ y.alt = IF b.code = "38" THEN ~b.up ELSE x.alt
    /\ y.caps = IF b = Byte("3a", FALSE) THEN ~x.caps ELSE x.caps
    /\ y.e0 = (b = E0)
    /\ IF Delivers(x, b)
       THEN x.due # <<>> /\ Head(x.due) = Delivered(x, b) /\ y.due = Tail(x.due)
       ELSE y.due = x.due
    /\ b = Ack => ~x.e0

\* The bytes of s lead from x to z.
Runs(x, s, z) ==
    \E r \in [1..(Len(s) + 1) -> States] :
        r[1] = x /\ r[Len(s) + 1] = z /\ \A k \in 1..Len(s) : Scans(r[k], s[k], r[k + 1])

\* x with one more input due.
More(x, i) ==
    [shift |-> x.shift, ctrl |-> x.ctrl, alt |-> x.alt, caps |-> x.caps, e0 |-> x.e0,
     due |-> Append(x.due, i)]

\* No byte leads nowhere.
LEMMA RunsNone ==
    ASSUME NEW x \in States, NEW z \in States
    PROVE  Runs(x, <<>>, z) <=> x = z
<1> DEFINE s == <<>>
<1>1. Len(s) = 0
  OBVIOUS
<1> HIDE DEF s
<1>2. ASSUME Runs(x, s, z) PROVE x = z
  <2>1. PICK r : r[1] = x /\ r[Len(s) + 1] = z
    BY <1>2 DEF Runs
  <2> QED
    BY <1>1, <2>1
<1>3. ASSUME x = z PROVE Runs(x, s, z)
  <2> DEFINE r == [k \in 1..1 |-> x]
  <2>1. r \in [1..(Len(s) + 1) -> States] /\ r[1] = x /\ r[Len(s) + 1] = z
    BY <1>1, <1>3
  <2> HIDE DEF r
  <2> QED
    BY <1>1, <2>1 DEF Runs
<1> QED
  BY <1>2, <1>3 DEF s

\* One byte is one step.
LEMMA RunsOne ==
    ASSUME NEW x \in States, NEW z \in States, NEW b \in Alphabet
    PROVE  Runs(x, <<b>>, z) <=> Scans(x, b, z)
<1> DEFINE s == <<b>>
<1>1. Len(s) = 1 /\ s[1] = b
  OBVIOUS
<1> HIDE DEF s
<1>2. ASSUME Runs(x, s, z) PROVE Scans(x, b, z)
  <2>1. PICK r : /\ r[1] = x /\ r[Len(s) + 1] = z
                 /\ \A k \in 1..Len(s) : Scans(r[k], s[k], r[k + 1])
    BY <1>2 DEF Runs
  <2>2. 1 \in 1..Len(s) /\ 1 + 1 = Len(s) + 1
    BY <1>1
  <2>3. Scans(r[1], s[1], r[1 + 1])
    BY <2>1, <2>2
  <2> QED
    BY <1>1, <2>1, <2>2, <2>3
<1>3. ASSUME Scans(x, b, z) PROVE Runs(x, s, z)
  <2> DEFINE r == [k \in 1..2 |-> IF k = 1 THEN x ELSE z]
  <2>1. r \in [1..(Len(s) + 1) -> States] /\ r[1] = x /\ r[Len(s) + 1] = z /\ r[1 + 1] = z
    BY <1>1
  <2> HIDE DEF r
  <2>2. \A k \in 1..Len(s) : k = 1
    BY <1>1
  <2>3. \A k \in 1..Len(s) : Scans(r[k], s[k], r[k + 1])
    BY <1>1, <1>3, <2>1, <2>2
  <2> QED
    BY <2>1, <2>3 DEF Runs
<1> QED
  BY <1>2, <1>3 DEF s

\* What follows what has come.
LEMMA RunsJoin ==
    ASSUME NEW x \in States, NEW y \in States, NEW z \in States,
           NEW s \in Seq(Alphabet), NEW t \in Seq(Alphabet), Runs(x, s, y), Runs(y, t, z)
    PROVE  Runs(x, s \o t, z)
<1> DEFINE u == s \o t
<1>1. PICK n \in Nat, p \in Nat : n = Len(s) /\ p = Len(t) /\ Len(u) = n + p
  BY Places2
<1>2. (\A k \in 1..n : u[k] = s[k]) /\ (\A k \in 1..p : u[n + k] = t[k])
  BY <1>1, Places2
<1> HIDE DEF u
<1>3. PICK q \in [1..(n + 1) -> States] :
          q[1] = x /\ q[n + 1] = y /\ \A k \in 1..n : Scans(q[k], s[k], q[k + 1])
  BY <1>1 DEF Runs
<1>4. PICK r \in [1..(p + 1) -> States] :
          r[1] = y /\ r[p + 1] = z /\ \A k \in 1..p : Scans(r[k], t[k], r[k + 1])
  BY <1>1 DEF Runs
<1> DEFINE v == [k \in 1..(n + p + 1) |-> IF k <= n THEN q[k] ELSE r[k - n]]
<1>5. v \in [1..(n + p + 1) -> States]
  <2> SUFFICES ASSUME NEW k \in 1..(n + p + 1) PROVE (IF k <= n THEN q[k] ELSE r[k - n]) \in States
    OBVIOUS
  <2>1. k <= n => k \in 1..(n + 1)
    OBVIOUS
  <2>2. ~(k <= n) => k - n \in 1..(p + 1)
    OBVIOUS
  <2> QED
    BY <2>1, <2>2
<1>6. \A k \in 1..(n + 1) : v[k] = q[k]
  <2> SUFFICES ASSUME NEW k \in 1..(n + 1) PROVE v[k] = q[k]
    OBVIOUS
  <2>1. k \in 1..(n + p + 1)
    OBVIOUS
  <2>2. CASE k <= n
    BY <2>1, <2>2
  <2>3. CASE ~(k <= n)
    <3>1. k = n + 1 /\ k - n = 1
      BY <2>3
    <3> QED
      BY <1>3, <1>4, <2>1, <2>3, <3>1
  <2> QED
    BY <2>2, <2>3
<1>7. \A k \in 1..(p + 1) : v[n + k] = r[k]
  <2> SUFFICES ASSUME NEW k \in 1..(p + 1) PROVE v[n + k] = r[k]
    OBVIOUS
  <2>1. n + k \in 1..(n + p + 1) /\ ~(n + k <= n) /\ (n + k) - n = k
    OBVIOUS
  <2> QED
    BY <2>1
<1> HIDE DEF v
<1>8. ASSUME NEW k \in 1..(n + p) PROVE Scans(v[k], u[k], v[k + 1])
  <2>1. CASE k <= n
    <3>1. k \in 1..n /\ k \in 1..(n + 1) /\ k + 1 \in 1..(n + 1)
      BY <2>1
    <3> QED
      BY <1>2, <1>3, <1>6, <3>1
  <2>2. CASE ~(k <= n)
    <3>1. PICK j \in 1..p : k = n + j
      <4>1. k - n \in 1..p /\ k = n + (k - n)
        BY <2>2
      <4> QED
        BY <4>1
    <3>2. j \in 1..(p + 1) /\ j + 1 \in 1..(p + 1) /\ n + (j + 1) = k + 1
      BY <3>1
    <3>3. v[n + j] = r[j] /\ v[n + (j + 1)] = r[j + 1] /\ u[n + j] = t[j]
      BY <1>2, <1>7, <3>2
    <3> QED
      BY <1>4, <3>1, <3>2, <3>3
  <2> QED
    BY <2>1, <2>2
<1>9. v[1] = x /\ v[n + p + 1] = z
  <2>1. 1 \in 1..(n + 1) /\ p + 1 \in 1..(p + 1) /\ n + (p + 1) = n + p + 1
    OBVIOUS
  <2>2. v[1] = q[1] /\ v[n + (p + 1)] = r[p + 1]
    BY <1>6, <1>7, <2>1
  <2> QED
    BY <1>3, <1>4, <2>1, <2>2
<1> QED
  BY <1>1, <1>5, <1>8, <1>9 DEF Runs, u

\* And the other way round.
LEMMA RunsSplit ==
    ASSUME NEW x \in States, NEW z \in States,
           NEW s \in Seq(Alphabet), NEW t \in Seq(Alphabet), Runs(x, s \o t, z)
    PROVE  \E y \in States : Runs(x, s, y) /\ Runs(y, t, z)
<1> DEFINE u == s \o t
<1>1. PICK n \in Nat, p \in Nat : n = Len(s) /\ p = Len(t) /\ Len(u) = n + p
  BY Places2
<1>2. (\A k \in 1..n : u[k] = s[k]) /\ (\A k \in 1..p : u[n + k] = t[k])
  BY <1>1, Places2
<1>3. Runs(x, u, z)
  OBVIOUS
<1> HIDE DEF u
<1>4. PICK v \in [1..(n + p + 1) -> States] :
          v[1] = x /\ v[n + p + 1] = z /\ \A k \in 1..(n + p) : Scans(v[k], u[k], v[k + 1])
  BY <1>1, <1>3 DEF Runs
<1>5. n + 1 \in 1..(n + p + 1)
  OBVIOUS
<1>6. v[n + 1] \in States
  BY <1>4, <1>5
<1> DEFINE q == [k \in 1..(n + 1) |-> v[k]]
           r == [k \in 1..(p + 1) |-> v[n + k]]
<1>7. /\ q \in [1..(n + 1) -> States] /\ q[1] = x /\ q[n + 1] = v[n + 1]
      /\ \A k \in 1..(n + 1) : q[k] = v[k]
  <2>1. \A k \in 1..(n + 1) : k \in 1..(n + p + 1)
    OBVIOUS
  <2> QED
    BY <1>4, <2>1
<1>8. /\ r \in [1..(p + 1) -> States] /\ r[1] = v[n + 1] /\ r[p + 1] = z
      /\ \A k \in 1..(p + 1) : r[k] = v[n + k]
  <2>1. \A k \in 1..(p + 1) : n + k \in 1..(n + p + 1)
    OBVIOUS
  <2>2. n + (p + 1) = n + p + 1
    OBVIOUS
  <2> QED
    BY <1>4, <2>1, <2>2
<1> HIDE DEF q, r
<1>9. ASSUME NEW k \in 1..n PROVE Scans(q[k], s[k], q[k + 1])
  <2>1. k \in 1..(n + 1) /\ k + 1 \in 1..(n + 1) /\ k \in 1..(n + p)
    OBVIOUS
  <2> QED
    BY <1>2, <1>4, <1>7, <2>1
<1>10. ASSUME NEW k \in 1..p PROVE Scans(r[k], t[k], r[k + 1])
  <2>1. k \in 1..(p + 1) /\ k + 1 \in 1..(p + 1) /\ n + k \in 1..(n + p) /\ (n + k) + 1 = n + (k + 1)
    OBVIOUS
  <2>2. Scans(v[n + k], u[n + k], v[(n + k) + 1])
    BY <1>4, <2>1
  <2>3. u[n + k] = t[k] /\ r[k] = v[n + k] /\ r[k + 1] = v[n + (k + 1)]
    BY <1>2, <1>8, <2>1
  <2> QED
    BY <2>1, <2>2, <2>3
<1>11. Runs(x, s, v[n + 1])
  BY <1>1, <1>7, <1>9 DEF Runs
<1>12. Runs(v[n + 1], t, z)
  BY <1>1, <1>8, <1>10 DEF Runs
<1> QED
  BY <1>6, <1>11, <1>12

\* One more input due changes nothing before it.
LEMMA RunsMore ==
    ASSUME NEW x \in States, NEW z \in States, NEW s \in Seq(Alphabet), NEW i \in Inputs,
           Runs(x, s, z)
    PROVE  More(x, i) \in States /\ More(z, i) \in States /\ Runs(More(x, i), s, More(z, i))
<1>1. ASSUME NEW y \in States
      PROVE  /\ More(y, i) \in States
             /\ More(y, i).shift = y.shift /\ More(y, i).ctrl = y.ctrl /\ More(y, i).alt = y.alt
             /\ More(y, i).caps = y.caps /\ More(y, i).e0 = y.e0 /\ More(y, i).due = Append(y.due, i)
  <2>1. Append(y.due, i) \in Seq(Inputs)
    BY AppendProperties DEF States
  <2> QED
    BY <2>1 DEF More, States
<1>2. ASSUME NEW y \in States, NEW b \in Alphabet, NEW w \in States, Scans(y, b, w)
      PROVE  Scans(More(y, i), b, More(w, i))
  <2> DEFINE Y == More(y, i)
             W == More(w, i)
  <2>1. /\ Y.shift = y.shift /\ Y.ctrl = y.ctrl /\ Y.alt = y.alt
        /\ Y.caps = y.caps /\ Y.e0 = y.e0 /\ Y.due = Append(y.due, i)
        /\ W.shift = w.shift /\ W.ctrl = w.ctrl /\ W.alt = w.alt
        /\ W.caps = w.caps /\ W.e0 = w.e0 /\ W.due = Append(w.due, i)
    BY <1>1
  <2> HIDE DEF Y, W
  <2>2. Escapes(Y, b) <=> Escapes(y, b)
    BY <2>1 DEF Escapes
  <2>3. Delivers(Y, b) <=> Delivers(y, b)
    BY <2>2 DEF Delivers
  <2>4. Delivered(Y, b) = Delivered(y, b)
    BY <2>1, <2>2 DEF Delivered
  <2>8. /\ W.shift = IF b.code \in {"2a", "36"} /\ ~Escapes(Y, b) THEN ~b.up ELSE Y.shift
        /\ W.ctrl = IF b.code = "1d" THEN ~b.up ELSE Y.ctrl
        /\ W.alt = IF b.code = "38" THEN ~b.up ELSE Y.alt
        /\ W.caps = IF b = Byte("3a", FALSE) THEN ~Y.caps ELSE Y.caps
        /\ W.e0 = (b = E0)
        /\ b = Ack => ~Y.e0
    <3>1. /\ w.shift = IF b.code \in {"2a", "36"} /\ ~Escapes(y, b) THEN ~b.up ELSE y.shift
          /\ w.ctrl = IF b.code = "1d" THEN ~b.up ELSE y.ctrl
          /\ w.alt = IF b.code = "38" THEN ~b.up ELSE y.alt
          /\ w.caps = IF b = Byte("3a", FALSE) THEN ~y.caps ELSE y.caps
          /\ w.e0 = (b = E0)
          /\ b = Ack => ~y.e0
      BY <1>2 DEF Scans
    <3> QED
      BY ONLY <2>1, <2>2, <3>1
  <2>5. ASSUME Delivers(y, b) PROVE Scans(Y, b, W)
    <3>1. y.due \in Seq(Inputs) /\ y.due # <<>> /\ Head(y.due) = Delivered(y, b) /\ w.due = Tail(y.due)
      BY <1>2, <2>5 DEF Scans, States
    <3> DEFINE d == y.due
    <3>2. Append(d, i) # <<>> /\ Head(Append(d, i)) = Head(d) /\ Tail(Append(d, i)) = Append(Tail(d), i)
      <4>1. d \in Seq(Inputs) /\ d # <<>>
        BY <3>1
      <4> HIDE DEF d
      <4> QED
        BY ONLY <4>1, HeadTailAppend, AppendProperties, i \in Inputs
    <3>3. Y.due # <<>> /\ Head(Y.due) = Delivered(Y, b) /\ W.due = Tail(Y.due)
      BY <2>1, <2>4, <3>1, <3>2
    <3> QED
      BY <2>3, <2>5, <2>8, <3>3 DEF Scans
  <2>6. ASSUME ~Delivers(y, b) PROVE Scans(Y, b, W)
    <3>1. W.due = Y.due
      BY <1>2, <2>1, <2>6 DEF Scans
    <3> QED
      BY <2>3, <2>6, <2>8, <3>1 DEF Scans
  <2>7. Scans(Y, b, W)
    BY <2>5, <2>6
  <2> QED
    BY <2>7 DEF Y, W
<1>3. PICK n \in Nat : n = Len(s)
  BY LenProperties
<1>4. PICK r \in [1..(n + 1) -> States] :
          r[1] = x /\ r[n + 1] = z /\ \A k \in 1..n : Scans(r[k], s[k], r[k + 1])
  BY <1>3 DEF Runs
<1> DEFINE q == [k \in 1..(n + 1) |-> More(r[k], i)]
<1>5. /\ q \in [1..(n + 1) -> States] /\ q[1] = More(x, i) /\ q[n + 1] = More(z, i)
      /\ \A k \in 1..(n + 1) : q[k] = More(r[k], i)
  BY <1>1, <1>4
<1> HIDE DEF q
<1>6. ASSUME NEW k \in 1..n PROVE Scans(q[k], s[k], q[k + 1])
  <2>1. k \in 1..(n + 1) /\ k + 1 \in 1..(n + 1)
    OBVIOUS
  <2>2. r[k] \in States /\ r[k + 1] \in States /\ s[k] \in Alphabet
    BY <1>3, <1>4, <2>1, ElementOfSeq
  <2> QED
    BY <1>2, <1>4, <1>5, <2>1, <2>2
<1>7. Runs(More(x, i), s, More(z, i))
  BY <1>3, <1>5, <1>6 DEF Runs
<1> QED
  BY <1>1, <1>7

\* The first byte handled.
LEMMA RunsFirst ==
    ASSUME NEW x \in States, NEW z \in States, NEW b \in Alphabet, NEW t \in Seq(Alphabet),
           Runs(x, <<b>> \o t, z)
    PROVE  \E y \in States : Scans(x, b, y) /\ Runs(y, t, z)
<1>1. <<b>> \in Seq(Alphabet)
  BY Single
<1>2. PICK y \in States : Runs(x, <<b>>, y) /\ Runs(y, t, z)
  BY <1>1, RunsSplit
<1> QED
  BY <1>2, RunsOne

\* States that agree on what they have are one.
LEMMA SameState ==
    ASSUME NEW x \in States, NEW y \in States,
           x.shift = y.shift, x.ctrl = y.ctrl, x.alt = y.alt, x.caps = y.caps,
           x.e0 = y.e0, x.due = y.due
    PROVE  x = y
BY DEF States

\* An acknowledgement does nothing.
LEMMA AckRuns ==
    ASSUME NEW x \in States, NEW z \in States
    PROVE  Runs(x, <<Ack>>, z) <=> x = z /\ ~x.e0
<1>1. /\ Ack \in Alphabet /\ Ack.code = "fa" /\ Ack # E0 /\ Ack # Byte("3a", FALSE)
      /\ Ack # Byte("48", FALSE)
  BY DEF Ack, Alphabet, E0, Byte
<1>2. ~Escapes(x, Ack) /\ ~Delivers(x, Ack)
  BY <1>1 DEF Escapes, Delivers, FakeShift, EscHandled
<1>3. x.e0 \in BOOLEAN /\ z.e0 \in BOOLEAN
  BY DEF States
<1>4. Scans(x, Ack, z) <=> x = z /\ ~x.e0
  <2>1. ASSUME Scans(x, Ack, z) PROVE x = z /\ ~x.e0
    <3>1. /\ z.shift = x.shift /\ z.ctrl = x.ctrl /\ z.alt = x.alt /\ z.caps = x.caps
          /\ z.due = x.due /\ ~x.e0 /\ ~z.e0
      BY <1>1, <1>2, <2>1 DEF Scans
    <3>2. z.e0 = x.e0
      BY <1>3, <3>1
    <3> QED
      BY <3>1, <3>2, SameState
  <2>2. ASSUME x = z, ~x.e0 PROVE Scans(x, Ack, z)
    BY <1>1, <1>2, <1>3, <2>2 DEF Scans
  <2> QED
    BY <2>1, <2>2
<1> QED
  BY <1>1, <1>4, RunsOne

\* An e0 sets last_e0 and does nothing else.
LEMMA E0Scans ==
    ASSUME NEW x \in States, ~x.e0, NEW y \in States, y.e0,
           y.shift = x.shift, y.ctrl = x.ctrl, y.alt = x.alt, y.caps = x.caps, y.due = x.due
    PROVE  Scans(x, E0, y)
<1>1. /\ E0 \in Alphabet /\ E0.code = "e0" /\ E0 # Ack /\ E0 # Byte("3a", FALSE)
      /\ E0 # Byte("48", FALSE)
  BY DEF Ack, Alphabet, E0, Byte
<1>2. ~Escapes(x, E0) /\ ~Delivers(x, E0)
  BY <1>1 DEF Escapes, Delivers
<1>3. y.e0 = TRUE
  BY DEF States
<1> QED
  BY <1>1, <1>2, <1>3 DEF Scans

\* x behind an e0.
LEMMA Behind ==
    ASSUME NEW x \in States, NEW e \in BOOLEAN
    PROVE  \E y \in States :
              /\ y.e0 = e /\ y.shift = x.shift /\ y.ctrl = x.ctrl /\ y.alt = x.alt
              /\ y.caps = x.caps /\ y.due = x.due
<1> DEFINE y == [shift |-> x.shift, ctrl |-> x.ctrl, alt |-> x.alt, caps |-> x.caps, e0 |-> e,
                 due |-> x.due]
<1>1. y \in States
  BY DEF States
<1>2. /\ y.e0 = e /\ y.shift = x.shift /\ y.ctrl = x.ctrl /\ y.alt = x.alt
      /\ y.caps = x.caps /\ y.due = x.due
  OBVIOUS
<1> HIDE DEF y
<1> QED
  BY <1>1, <1>2

\* An e0 and a byte.
LEMMA EscapedRuns ==
    ASSUME NEW x \in States, ~x.e0, NEW b \in Alphabet, NEW z \in States,
           NEW y \in States, y.e0, y.shift = x.shift, y.ctrl = x.ctrl, y.alt = x.alt,
           y.caps = x.caps, y.due = x.due, Scans(y, b, z)
    PROVE  Runs(x, <<E0>> \o <<b>>, z)
<1>1. E0 \in Alphabet /\ <<E0>> \in Seq(Alphabet) /\ <<b>> \in Seq(Alphabet)
  BY Letters, Single
<1>2. Runs(x, <<E0>>, y)
  BY <1>1, E0Scans, RunsOne
<1>3. Runs(y, <<b>>, z)
  BY RunsOne
<1> QED
  BY <1>1, <1>2, <1>3, RunsJoin

\* A pretended shift leads back to where it comes.
LEMMA FakeRuns ==
    ASSUME NEW x \in States, ~x.e0, NEW k \in Keys, NEW g \in Fakes(k)
    PROVE  Runs(x, g, x)
<1>1. CASE g = <<>>
  BY <1>1, RunsNone
<1>2. CASE g # <<>>
  <2>1. PICK up \in BOOLEAN : g = <<E0, Byte("2a", up)>>
    BY <1>2 DEF Fakes
  <2>2. PICK b \in Alphabet : /\ b = Byte("2a", up) /\ b.code = "2a" /\ b # E0 /\ b # Ack
                              /\ b # Byte("3a", FALSE) /\ b # Byte("48", FALSE)
    <3>1. Byte("2a", up) # Byte("3a", FALSE) /\ Byte("2a", up) # Byte("48", FALSE)
      BY DEF Byte
    <3> QED
      BY <3>1, Letters
  <2>3. g = <<E0>> \o <<b>>
    BY <2>1, <2>2
  <2>4. PICK y \in States : /\ y.e0 /\ y.shift = x.shift /\ y.ctrl = x.ctrl /\ y.alt = x.alt
                            /\ y.caps = x.caps /\ y.due = x.due
    BY Behind
  <2>5. Escapes(y, b) /\ ~Delivers(y, b)
    BY <2>2, <2>4 DEF Escapes, Delivers, FakeShift, EscHandled
  <2>6. x.e0 = (b = E0)
    BY <2>2 DEF States
  <2>7. Scans(y, b, x)
    BY <2>2, <2>4, <2>5, <2>6 DEF Scans
  <2> QED
    BY <2>2, <2>3, <2>4, <2>7, EscapedRuns
<1> QED
  BY <1>1, <1>2

\* The bytes of one key do what its last byte does.
LEMMA BytesRuns ==
    ASSUME NEW x \in States, ~x.e0, NEW z \in States, NEW k \in Keys, NEW up \in BOOLEAN,
           \A y \in States :
               /\ y.e0 = Key[k].esc /\ y.shift = x.shift /\ y.ctrl = x.ctrl /\ y.alt = x.alt
               /\ y.caps = x.caps /\ y.due = x.due
               => Scans(y, Byte(Key[k].code, up), z)
    PROVE  Runs(x, Bytes(k, up), z)
<1>1. Key[k].esc \in BOOLEAN /\ Key[k].code \in {"2a", "36", "1d", "38", "3a", "1e", "02", "48"}
  BY KeyFacts
<1>2. PICK b \in Alphabet : b = Byte(Key[k].code, up)
  BY <1>1 DEF Byte, Alphabet
<1>3. PICK y \in States : /\ y.e0 = Key[k].esc /\ y.shift = x.shift /\ y.ctrl = x.ctrl
                          /\ y.alt = x.alt /\ y.caps = x.caps /\ y.due = x.due
  BY <1>1, Behind
<1>4. Scans(y, b, z)
  BY <1>2, <1>3
<1>5. CASE Key[k].esc
  <2>1. Bytes(k, up) = <<E0>> \o <<b>>
    BY <1>2, <1>5 DEF Bytes
  <2> QED
    BY <1>3, <1>4, <1>5, <2>1, EscapedRuns
<1>6. CASE ~Key[k].esc
  <2>1. Bytes(k, up) = <<b>>
    <3>1. Bytes(k, up) = <<>> \o <<b>>
      BY <1>2, <1>6 DEF Bytes
    <3> QED
      BY <3>1, Single, ConcatEmptySeq
  <2>2. x = y
    <3>1. x.e0 = y.e0
      BY <1>3, <1>6 DEF States
    <3> QED
      BY <1>3, <3>1, SameState
  <2> QED
    BY <1>4, <2>1, <2>2, RunsOne
<1> QED
  BY <1>1, <1>5, <1>6

\* What keyScanned does with the last byte of a key, in the user's terms.
LEMMA KeyScans ==
    ASSUME NEW y \in States, NEW z \in States, NEW k \in Keys, NEW up \in BOOLEAN,
           y.e0 = Key[k].esc, ~z.e0,
           z.shift = IF Key[k].kind = "shift" THEN ~up ELSE y.shift,
           z.ctrl = IF Key[k].kind = "ctrl" THEN ~up ELSE y.ctrl,
           z.alt = IF Key[k].kind = "alt" THEN ~up ELSE y.alt,
           z.caps = IF k = "caps" /\ ~up THEN ~y.caps ELSE y.caps,
           IF Key[k].kind = "char" /\ ~up
           THEN /\ y.due # <<>> /\ z.due = Tail(y.due)
                /\ Head(y.due) = Input(IF k = "up" THEN "up"
                                       ELSE Symbol(Key[k].code, IF k = "a" THEN y.shift # y.caps ELSE y.shift),
                                       y.shift, y.ctrl, y.alt)
           ELSE z.due = y.due
    PROVE  Scans(y, Byte(Key[k].code, up), z)
<1>1. PICK c, e, d : c = Key[k].code /\ e = Key[k].esc /\ d = Key[k].kind
  OBVIOUS
<1>2. /\ c \in {"2a", "36", "1d", "38", "3a", "1e", "02", "48"} /\ e \in BOOLEAN
      /\ d \in {"shift", "ctrl", "alt", "caps", "char"}
      /\ d = "shift" => ~e
      /\ c \in {"2a", "36"} <=> d = "shift"
      /\ c = "1d" <=> d = "ctrl"
      /\ c = "38" <=> d = "alt"
      /\ c = "3a" <=> d = "caps"
      /\ c \in {"1e", "02", "48"} <=> d = "char"
      /\ k = "caps" <=> d = "caps"
      /\ k = "a" <=> c = "1e"
      /\ k = "up" <=> c = "48" /\ e
      /\ d = "char" /\ e => k = "up"
  <2>1. /\ Codes("shift") = {"2a", "36"} /\ Codes("ctrl") = {"1d"} /\ Codes("alt") = {"38"}
        /\ "shift" \in Modifiers /\ "ctrl" \in Modifiers /\ "alt" \in Modifiers
    BY DEF Codes, Modifiers
  <2>2. \A m \in Modifiers : c \in Codes(m) <=> d = m
    BY <1>1, KeyFacts
  <2>3. /\ c \in {"2a", "36"} <=> d = "shift"
        /\ c = "1d" <=> d = "ctrl"
        /\ c = "38" <=> d = "alt"
    BY <2>1, <2>2
  <2> QED
    BY <1>1, <2>3, KeyFacts
<1>3. PICK b \in Alphabet : /\ b = Byte(c, up) /\ b.code = c /\ b.up = up /\ b # E0 /\ b # Ack
                            /\ b = Byte("3a", FALSE) <=> c = "3a" /\ ~up
                            /\ b = Byte("48", FALSE) <=> c = "48" /\ ~up
  <2>1. /\ Byte(c, up) \in Alphabet /\ Byte(c, up).code = c /\ Byte(c, up).up = up
        /\ Byte(c, up) # E0 /\ Byte(c, up) # Ack
        /\ Byte(c, up) = Byte("3a", FALSE) <=> c = "3a" /\ ~up
        /\ Byte(c, up) = Byte("48", FALSE) <=> c = "48" /\ ~up
    BY <1>2 DEF Byte, Alphabet, E0, Ack
  <2> QED
    BY <2>1
<1>4. Escapes(y, b) <=> k = "up" /\ ~up
  BY <1>1, <1>2, <1>3 DEF Escapes, FakeShift, EscHandled
<1>5. Delivers(y, b) <=> d = "char" /\ ~up
  BY <1>2, <1>3, <1>4 DEF Delivers, EscHandled
<1>6. ASSUME d = "char", ~up
      PROVE  y.due # <<>> /\ Head(y.due) = Delivered(y, b) /\ z.due = Tail(y.due)
  <2>1. Delivered(y, b) = Input(IF k = "up" THEN "up"
                                ELSE Symbol(c, IF k = "a" THEN y.shift # y.caps ELSE y.shift),
                                y.shift, y.ctrl, y.alt)
    <3>1. Escapes(y, b) <=> k = "up"
      BY <1>4, <1>6
    <3>2. b.code = "1e" <=> k = "a"
      BY <1>2, <1>3
    <3> QED
      BY <1>3, <3>1, <3>2 DEF Delivered
  <2> QED
    BY <1>1, <1>6, <2>1
<1>7. IF Delivers(y, b)
      THEN y.due # <<>> /\ Head(y.due) = Delivered(y, b) /\ z.due = Tail(y.due)
      ELSE z.due = y.due
  <2>1. CASE d = "char" /\ ~up
    BY <1>5, <1>6, <2>1
  <2>2. CASE ~(d = "char" /\ ~up)
    BY <1>1, <1>5, <2>2
  <2> QED
    BY <2>1, <2>2
<1>8. z.shift = IF b.code \in {"2a", "36"} /\ ~Escapes(y, b) THEN ~b.up ELSE y.shift
  <2>1. b.code \in {"2a", "36"} /\ ~Escapes(y, b) <=> d = "shift"
    BY <1>2, <1>3, <1>4
  <2> QED
    BY <1>1, <1>3, <2>1
<1>9. /\ z.ctrl = IF b.code = "1d" THEN ~b.up ELSE y.ctrl
      /\ z.alt = IF b.code = "38" THEN ~b.up ELSE y.alt
  BY <1>1, <1>2, <1>3
<1>10. z.caps = IF b = Byte("3a", FALSE) THEN ~y.caps ELSE y.caps
  BY <1>1, <1>2, <1>3
<1>11. z.e0 = (b = E0)
  BY <1>3 DEF States
<1>12. Scans(y, b, z)
  BY <1>3, <1>7, <1>8, <1>9, <1>10, <1>11 DEF Scans
<1> QED
  BY <1>1, <1>3, <1>12

----------------------------------------------------------------------------
(* What is typed is what is meant.                                          *)

Now == [shift |-> shift_down, ctrl |-> ctrl_down, alt |-> alt_down, caps |-> caps_lock_on,
        e0 |-> last_e0, due |-> due]

\* What the flags should be when every byte has been handled.
Last == [shift |-> Holding("shift"), ctrl |-> Holding("ctrl"), alt |-> Holding("alt"),
         caps |-> capsMeant, e0 |-> FALSE, due |-> <<>>]

\* The bytes on their way lead from the flags as they are to those the user
\* means, and deliver what is due.
TypedInv ==
    ~lost /\ ~mixed =>
        /\ wrong = FALSE /\ held \subseteq Keys
        /\ \A j, k \in held : Key[j].kind = Key[k].kind /\ Key[j].kind # "char" => j = k
        /\ \E x, z \in States, s \in Seq(Alphabet) :
              x = Now /\ z = Last /\ s = Stream /\ Runs(x, s, z)

\* TypedInv after a step.
LEMMA TypedPrimed ==
    ASSUME wrong' = FALSE, held' \subseteq Keys,
           \A j, k \in held' : Key[j].kind = Key[k].kind /\ Key[j].kind # "char" => j = k,
           NEW x \in States, NEW z \in States, NEW s \in Seq(Alphabet),
           x = Now', z = Last', s = Stream', Runs(x, s, z)
    PROVE  TypedInv'
<1>1. Runs(x, s, z)'
  BY DEF Runs, Scans, Escapes, Delivers, Delivered, FakeShift, EscHandled, E0, Ack, Byte,
         Input, Symbol
<1>2. \E x2, z2 \in States, s2 \in Seq(Alphabet) :
          x2 = Now' /\ z2 = Last' /\ s2 = Stream' /\ Runs(x2, s2, z2)'
  BY <1>1
<1> QED
  BY <1>2 DEF TypedInv

\* The flags are those of Now.
LEMMA NowFacts ==
    /\ Now.shift = shift_down /\ Now.ctrl = ctrl_down /\ Now.alt = alt_down
    /\ Now.caps = caps_lock_on /\ Now.e0 = last_e0 /\ Now.due = due
    /\ Now'.shift = shift_down' /\ Now'.ctrl = ctrl_down' /\ Now'.alt = alt_down'
    /\ Now'.caps = caps_lock_on' /\ Now'.e0 = last_e0' /\ Now'.due = due'
BY DEF Now

\* And the intentions those of Last.
LEMMA LastFacts ==
    /\ Last.shift = Holding("shift") /\ Last.ctrl = Holding("ctrl") /\ Last.alt = Holding("alt")
    /\ Last.caps = capsMeant /\ Last.e0 = FALSE /\ Last.due = <<>>
    /\ Last'.shift = Holding("shift")' /\ Last'.ctrl = Holding("ctrl")'
    /\ Last'.alt = Holding("alt")' /\ Last'.caps = capsMeant' /\ Last'.e0 = FALSE
    /\ Last'.due = <<>>
BY DEF Last

\* Last is a state when Caps Lock has been pressed or not.
LEMMA LastType ==
    /\ capsMeant \in BOOLEAN => Last \in States
    /\ capsMeant' \in BOOLEAN => Last' \in States
<1>1. <<>> \in Seq(Inputs)
  BY EmptySeq
<1>2. \A kind : Holding(kind) \in BOOLEAN /\ Holding(kind)' \in BOOLEAN
  BY DEF Holding
<1> QED
  BY <1>1, <1>2 DEF Last, States

\* What is sent comes last.
LEMMA Sending ==
    ASSUME NEW g \in Seq(Alphabet), kbd_buf \in Seq(Alphabet), wire \in Seq(Alphabet),
           wire' = wire \o g, kbd_buf' = kbd_buf
    PROVE  Stream' = Stream \o g /\ Stream \in Seq(Alphabet) /\ Stream' \in Seq(Alphabet)
<1>1. Stream' = Stream \o g
  BY ConcatAssociative DEF Stream
<1>2. Stream \in Seq(Alphabet)
  BY Places2 DEF Stream
<1> QED
  BY <1>1, <1>2, Places2

\* A release.
LEMMA ReleaseTyped ==
    ASSUME KbdInv, TypedInv, NEW k \in Keys, Release(k)
    PROVE  TypedInv'
<1> SUFFICES ASSUME ~lost, ~mixed PROVE TypedInv'
  BY DEF TypedInv, Release
<1>1. /\ wrong = FALSE /\ held \subseteq Keys
      /\ \A i, j \in held : Key[i].kind = Key[j].kind /\ Key[i].kind # "char" => i = j
  BY DEF TypedInv
<1>2. PICK x \in States, z \in States, s \in Seq(Alphabet) :
          x = Now /\ z = Last /\ s = Stream /\ Runs(x, s, z)
  BY DEF TypedInv
<1>3. /\ shift_down' = shift_down /\ ctrl_down' = ctrl_down /\ alt_down' = alt_down
      /\ caps_lock_on' = caps_lock_on /\ last_e0' = last_e0 /\ due' = due
      /\ kbd_buf' = kbd_buf /\ wrong' = wrong /\ capsMeant' = capsMeant
      /\ held' = held \ {k} /\ k \in held
  BY DEF Release, flagVars
<1>4. PICK fake \in Fakes(k) : wire' = wire \o (Bytes(k, TRUE) \o fake)
  BY DEF Release, Sent
<1>5. fake \in Seq(Alphabet) /\ Bytes(k, TRUE) \in Seq(Alphabet)
  BY BytesFacts, FakeFacts
<1>6. /\ z.shift = Holding("shift") /\ z.ctrl = Holding("ctrl") /\ z.alt = Holding("alt")
      /\ z.caps = capsMeant /\ z.e0 = FALSE /\ z.due = <<>>
  BY <1>2, LastFacts
<1>7. PICK w \in States : w = Last'
  <2>1. capsMeant' \in BOOLEAN
    BY <1>3, <1>6 DEF States
  <2> QED
    BY <2>1, LastType
<1>8. /\ w.shift = Holding("shift")' /\ w.ctrl = Holding("ctrl")' /\ w.alt = Holding("alt")'
      /\ w.caps = capsMeant /\ w.e0 = FALSE /\ w.due = <<>>
  BY <1>3, <1>7, LastFacts
<1>9. ASSUME NEW m, m # "char"
      PROVE  Holding(m)' = IF Key[k].kind = m THEN FALSE ELSE Holding(m)
  <2>1. CASE Key[k].kind = m
    <3>1. ~Holding(m)'
      BY <1>1, <1>3, <1>9, <2>1 DEF Holding
    <3>2. Holding(m)' \in BOOLEAN
      BY DEF Holding
    <3>3. Holding(m)' = FALSE
      BY ONLY <3>1, <3>2
    <3> QED
      BY <2>1, <3>3
  <2>2. CASE Key[k].kind # m
    <3>1. Holding(m)' <=> Holding(m)
      BY <1>3, <2>2 DEF Holding
    <3>2. Holding(m)' \in BOOLEAN /\ Holding(m) \in BOOLEAN
      BY DEF Holding
    <3>3. Holding(m)' = Holding(m)
      BY ONLY <3>1, <3>2
    <3> QED
      BY <2>2, <3>3
  <2> QED
    BY <2>1, <2>2
<1>10. ASSUME NEW y \in States,
              y.e0 = Key[k].esc, y.shift = z.shift, y.ctrl = z.ctrl, y.alt = z.alt,
              y.caps = z.caps, y.due = z.due
       PROVE  Scans(y, Byte(Key[k].code, TRUE), w)
  <2>1. /\ w.shift = IF Key[k].kind = "shift" THEN ~TRUE ELSE y.shift
        /\ w.ctrl = IF Key[k].kind = "ctrl" THEN ~TRUE ELSE y.ctrl
        /\ w.alt = IF Key[k].kind = "alt" THEN ~TRUE ELSE y.alt
    BY <1>6, <1>8, <1>9, <1>10
  <2>2. w.caps = y.caps /\ w.due = y.due /\ ~w.e0
    BY <1>6, <1>8, <1>10
  <2> QED
    BY <1>10, <2>1, <2>2, KeyScans
<1>11. Runs(z, Bytes(k, TRUE), w)
  BY <1>6, <1>10, BytesRuns
<1>12. Runs(w, fake, w)
  BY <1>8, FakeRuns
<1> DEFINE g == Bytes(k, TRUE) \o fake
<1>13. g \in Seq(Alphabet) /\ Runs(z, g, w)
  BY <1>5, <1>11, <1>12, RunsJoin, Places2
<1>14. wire' = wire \o g
  BY <1>4
<1> HIDE DEF g
<1>15. PICK t \in Seq(Alphabet) : t = Stream' /\ t = s \o g
  <2>1. kbd_buf \in Seq(Alphabet) /\ wire \in Seq(Alphabet)
    BY DEF KbdInv
  <2> QED
    BY <1>2, <1>3, <1>13, <1>14, <2>1, Sending
<1>16. Runs(x, t, w)
  BY <1>2, <1>13, <1>15, RunsJoin
<1>17. x = Now'
  BY <1>2, <1>3 DEF Now
<1> QED
  BY <1>1, <1>3, <1>7, <1>15, <1>16, <1>17, TypedPrimed

\* An input that is meant.
LEMMA MeantFacts ==
    ASSUME NEW k \in Keys, Key[k].kind = "char"
    PROVE  /\ Meant(k) \in Inputs
           /\ Meant(k) = Input(IF k = "up" THEN "up"
                               ELSE Symbol(Key[k].code, IF k = "a" THEN Holding("shift") # capsMeant
                                                        ELSE Holding("shift")),
                               Holding("shift"), Holding("ctrl"), Holding("alt"))
<1>1. Key[k].code \in {"1e", "02", "48"}
  BY KeyFacts
<1>2. \A c \in {"1e", "02", "48"}, u \in BOOLEAN : Symbol(c, u) \in {"A", "a", "!", "1", "8"}
  BY DEF Symbol
<1>3. \A m : Holding(m) \in BOOLEAN
  BY DEF Holding
<1> DEFINE u == IF k = "a" THEN Holding("shift") # capsMeant ELSE Holding("shift")
<1>4. u \in BOOLEAN
  BY <1>3
<1>5. Meant(k) = Input(IF k = "up" THEN "up" ELSE Symbol(Key[k].code, u),
                       Holding("shift"), Holding("ctrl"), Holding("alt"))
  BY DEF Meant
<1> HIDE DEF u
<1>6. (IF k = "up" THEN "up" ELSE Symbol(Key[k].code, u)) \in {"A", "a", "!", "1", "8", "up"}
  BY <1>1, <1>2, <1>4
<1>7. Meant(k) \in Inputs
  BY <1>3, <1>5, <1>6 DEF Input, Inputs
<1> QED
  BY <1>5, <1>7 DEF u

\* A press, or a repeat.
LEMMA PressTyped ==
    ASSUME KbdInv, TypedInv, NEW k \in Keys, Press(k)
    PROVE  TypedInv'
<1> SUFFICES ASSUME ~lost, ~mixed, ~mixed' PROVE TypedInv'
  BY DEF TypedInv, Press
<1>1. /\ wrong = FALSE /\ held \subseteq Keys
      /\ \A i, j \in held : Key[i].kind = Key[j].kind /\ Key[i].kind # "char" => i = j
  BY DEF TypedInv
<1>2. PICK x \in States, z \in States, s \in Seq(Alphabet) :
          x = Now /\ z = Last /\ s = Stream /\ Runs(x, s, z)
  BY DEF TypedInv
<1>3. /\ shift_down' = shift_down /\ ctrl_down' = ctrl_down /\ alt_down' = alt_down
      /\ caps_lock_on' = caps_lock_on /\ last_e0' = last_e0
      /\ kbd_buf' = kbd_buf /\ wrong' = wrong /\ held' = held \cup {k}
      /\ capsMeant' = IF k = "caps" THEN ~capsMeant ELSE capsMeant
      /\ due' = IF Key[k].kind = "char" THEN Append(due, Meant(k)) ELSE due
  BY DEF Press, flagVars
<1>4. Key[k].kind # "char" => \A j \in held : Key[j].kind = Key[k].kind => j = k
  BY DEF Press
<1>5. /\ held' \subseteq Keys
      /\ \A i, j \in held' : Key[i].kind = Key[j].kind /\ Key[i].kind # "char" => i = j
  BY <1>1, <1>3, <1>4
<1>6. PICK fake \in Fakes(k) : wire' = wire \o (fake \o Bytes(k, FALSE))
  BY DEF Press, Sent
<1>7. fake \in Seq(Alphabet) /\ Bytes(k, FALSE) \in Seq(Alphabet)
  BY BytesFacts, FakeFacts
<1>8. /\ z.shift = Holding("shift") /\ z.ctrl = Holding("ctrl") /\ z.alt = Holding("alt")
      /\ z.caps = capsMeant /\ z.e0 = FALSE /\ z.due = <<>>
  BY <1>2, LastFacts
<1>9. PICK w \in States : w = Last'
  <2>1. capsMeant' \in BOOLEAN
    BY <1>3, <1>8 DEF States
  <2> QED
    BY <2>1, LastType
<1>10. /\ w.shift = Holding("shift")' /\ w.ctrl = Holding("ctrl")' /\ w.alt = Holding("alt")'
       /\ w.caps = IF k = "caps" THEN ~z.caps ELSE z.caps
       /\ w.e0 = FALSE /\ w.due = <<>>
  BY <1>3, <1>8, <1>9, LastFacts
<1>11. ASSUME NEW m
       PROVE  Holding(m)' = IF Key[k].kind = m THEN TRUE ELSE Holding(m)
  <2>1. Holding(m)' \in BOOLEAN /\ Holding(m) \in BOOLEAN
    BY DEF Holding
  <2>2. CASE Key[k].kind = m
    <3>1. Holding(m)'
      BY <1>3, <2>2 DEF Holding
    <3>2. Holding(m)' = TRUE
      BY ONLY <2>1, <3>1
    <3> QED
      BY <2>2, <3>2
  <2>3. CASE Key[k].kind # m
    <3>1. Holding(m)' <=> Holding(m)
      BY <1>3, <2>3 DEF Holding
    <3>2. Holding(m)' = Holding(m)
      BY ONLY <2>1, <3>1
    <3> QED
      BY <2>3, <3>2
  <2> QED
    BY <2>2, <2>3
<1> DEFINE g == fake \o Bytes(k, FALSE)
<1>12. \E a, v \in States :
          /\ a = Now' /\ Runs(a, s, v) /\ ~v.e0
          /\ v.shift = z.shift /\ v.ctrl = z.ctrl /\ v.alt = z.alt /\ v.caps = z.caps
          /\ IF Key[k].kind = "char" THEN v.due = <<Meant(k)>> ELSE v.due = w.due
  <2>1. CASE Key[k].kind # "char"
    <3>1. x = Now'
      BY <1>2, <1>3, <2>1 DEF Now
    <3> QED
      BY <1>2, <1>8, <1>10, <2>1, <3>1
  <2>2. CASE Key[k].kind = "char"
    <3>1. PICK i \in Inputs : i = Meant(k)
      BY <2>2, MeantFacts
    <3>2. /\ More(x, i) \in States /\ More(z, i) \in States
          /\ Runs(More(x, i), s, More(z, i))
      BY <1>2, RunsMore
    <3>3. More(x, i) = Now'
      <4>1. /\ x.shift = shift_down /\ x.ctrl = ctrl_down /\ x.alt = alt_down
            /\ x.caps = caps_lock_on /\ x.e0 = last_e0 /\ x.due = due
        BY <1>2, NowFacts
      <4>2. due' = Append(due, i)
        BY <1>3, <2>2, <3>1
      <4> QED
        BY <1>3, <4>1, <4>2 DEF More, Now
    <3>4. /\ More(z, i).shift = z.shift /\ More(z, i).ctrl = z.ctrl /\ More(z, i).alt = z.alt
          /\ More(z, i).caps = z.caps /\ More(z, i).e0 = z.e0
          /\ More(z, i).due = Append(z.due, i)
      BY DEF More
    <3>5. Append(<<>>, i) = <<i>>
      OBVIOUS
    <3> QED
      BY <1>8, <2>2, <3>1, <3>2, <3>3, <3>4, <3>5
  <2> QED
    BY <2>1, <2>2
<1>13. PICK a \in States, v \in States :
          /\ a = Now' /\ Runs(a, s, v) /\ ~v.e0
          /\ v.shift = z.shift /\ v.ctrl = z.ctrl /\ v.alt = z.alt /\ v.caps = z.caps
          /\ IF Key[k].kind = "char" THEN v.due = <<Meant(k)>> ELSE v.due = w.due
  BY <1>12
<1>14. ASSUME NEW y \in States,
              y.e0 = Key[k].esc, y.shift = v.shift, y.ctrl = v.ctrl, y.alt = v.alt,
              y.caps = v.caps, y.due = v.due
       PROVE  Scans(y, Byte(Key[k].code, FALSE), w)
  <2>1. /\ w.shift = IF Key[k].kind = "shift" THEN ~FALSE ELSE y.shift
        /\ w.ctrl = IF Key[k].kind = "ctrl" THEN ~FALSE ELSE y.ctrl
        /\ w.alt = IF Key[k].kind = "alt" THEN ~FALSE ELSE y.alt
    BY <1>8, <1>10, <1>11, <1>13, <1>14
  <2>2. w.caps = IF k = "caps" /\ ~FALSE THEN ~y.caps ELSE y.caps
    BY <1>10, <1>13, <1>14
  <2>3. CASE Key[k].kind = "char"
    <3>1. y.due = <<Meant(k)>>
      BY <1>13, <1>14, <2>3
    <3>2. y.due # <<>> /\ Head(y.due) = Meant(k) /\ Tail(y.due) = <<>>
      <4> DEFINE i == Meant(k)
      <4> HIDE DEF i
      <4>1. <<i>> # <<>> /\ Head(<<i>>) = i /\ Tail(<<i>>) = <<>>
        OBVIOUS
      <4> QED
        BY <3>1, <4>1 DEF i
    <3>3. Meant(k) = Input(IF k = "up" THEN "up"
                           ELSE Symbol(Key[k].code, IF k = "a" THEN y.shift # y.caps ELSE y.shift),
                           y.shift, y.ctrl, y.alt)
      BY <1>8, <1>13, <1>14, <2>3, MeantFacts
    <3>4. /\ y.due # <<>> /\ w.due = Tail(y.due)
          /\ Head(y.due) = Input(IF k = "up" THEN "up"
                                 ELSE Symbol(Key[k].code, IF k = "a" THEN y.shift # y.caps ELSE y.shift),
                                 y.shift, y.ctrl, y.alt)
      BY <1>10, <3>2, <3>3
    <3> QED
      BY <1>10, <1>14, <2>1, <2>2, <2>3, <3>4, KeyScans
  <2>4. CASE Key[k].kind # "char"
    <3>1. w.due = y.due
      BY <1>13, <1>14, <2>4
    <3> QED
      BY <1>10, <1>14, <2>1, <2>2, <2>4, <3>1, KeyScans
  <2> QED
    BY <2>3, <2>4
<1>15. Runs(v, Bytes(k, FALSE), w)
  BY <1>13, <1>14, BytesRuns
<1>16. Runs(v, fake, v)
  BY <1>13, FakeRuns
<1>17. g \in Seq(Alphabet) /\ Runs(v, g, w)
  BY <1>7, <1>15, <1>16, RunsJoin, Places2
<1>18. wire' = wire \o g
  BY <1>6
<1> HIDE DEF g
<1>19. PICK t \in Seq(Alphabet) : t = Stream' /\ t = s \o g
  <2>1. kbd_buf \in Seq(Alphabet) /\ wire \in Seq(Alphabet)
    BY DEF KbdInv
  <2> QED
    BY <1>2, <1>3, <1>17, <1>18, <2>1, Sending
<1>20. Runs(a, t, w)
  BY <1>13, <1>17, <1>19, RunsJoin
<1> QED
  BY <1>1, <1>3, <1>5, <1>9, <1>13, <1>19, <1>20, TypedPrimed

\* irq1 changes nothing of what is to come.
LEMMA Irq1Typed ==
    ASSUME KbdInv, TypedInv, Irq1
    PROVE  TypedInv'
<1> SUFFICES ASSUME ~lost, ~mixed PROVE TypedInv'
  BY DEF TypedInv, Irq1
<1>1. /\ wrong = FALSE /\ held \subseteq Keys
      /\ \A i, j \in held : Key[i].kind = Key[j].kind /\ Key[i].kind # "char" => i = j
  BY DEF TypedInv
<1>2. PICK x \in States, z \in States, s \in Seq(Alphabet) :
          x = Now /\ z = Last /\ s = Stream /\ Runs(x, s, z)
  BY DEF TypedInv
<1>3. /\ shift_down' = shift_down /\ ctrl_down' = ctrl_down /\ alt_down' = alt_down
      /\ caps_lock_on' = caps_lock_on /\ last_e0' = last_e0 /\ due' = due
      /\ wrong' = wrong /\ capsMeant' = capsMeant /\ held' = held
  BY DEF Irq1, flagVars
<1>4. Now' = Now /\ Last' = Last
  BY <1>3 DEF Now, Last, Holding
<1>5. Stream' = Stream
  BY Irq1Stream DEF KbdInv
<1> QED
  BY <1>1, <1>2, <1>3, <1>4, <1>5, TypedPrimed

\* Acknowledgements lead back.
LEMMA AcksRun ==
    ASSUME NEW x \in States, ~x.e0, NEW a \in Seq(Alphabet), \A k \in 1..Len(a) : a[k] = Ack
    PROVE  Runs(x, a, x)
<1>1. Scans(x, Ack, x)
  BY AckRuns, RunsOne, Letters
<1> DEFINE r == [k \in 1..(Len(a) + 1) |-> x]
<1>2. 1 \in 1..(Len(a) + 1) /\ Len(a) + 1 \in 1..(Len(a) + 1)
  BY LenProperties
<1>3. r \in [1..(Len(a) + 1) -> States] /\ r[1] = x /\ r[Len(a) + 1] = x
  BY <1>2
<1>4. \A k \in 1..Len(a) : k \in 1..(Len(a) + 1) /\ k + 1 \in 1..(Len(a) + 1)
  BY LenProperties
<1>5. \A k \in 1..Len(a) : Scans(r[k], a[k], r[k + 1])
  BY <1>1, <1>4
<1> HIDE DEF r
<1> QED
  BY <1>3, <1>5 DEF Runs

\* A sequence that begins with an acknowledgement.
LEMMA AckFirst ==
    ASSUME NEW w \in Seq(Alphabet), NEW v \in Seq(Alphabet), Len(w) > 0, w[1] = Ack,
           Len(v) = Len(w) - 1, \A k \in 1..Len(v) : v[k] = w[k + 1]
    PROVE  w = <<Ack>> \o v
<1> DEFINE a == <<Ack>>
           u == a \o v
<1>1. a \in Seq(Alphabet) /\ Len(a) = 1 /\ a[1] = Ack
  BY Letters, Single
<1> HIDE DEF a
<1>2. PICK n \in Nat : n = Len(v) /\ Len(w) = n + 1
  BY LenProperties
<1>3. /\ u \in Seq(Alphabet) /\ Len(u) = 1 + n
      /\ \A k \in 1..1 : u[k] = a[k]
      /\ \A k \in 1..n : u[1 + k] = v[k]
  <2>1. /\ u \in Seq(Alphabet) /\ Len(u) = Len(a) + Len(v)
        /\ \A k \in 1..Len(a) : u[k] = a[k]
        /\ \A k \in 1..Len(v) : u[Len(a) + k] = v[k]
    BY <1>1, Places2
  <2> QED
    BY ONLY <1>1, <1>2, <2>1, Zenon
<1> HIDE DEF u
<1>4. ASSUME NEW k \in 1..(n + 1) PROVE u[k] = w[k]
  <2>1. CASE k = 1
    BY <1>1, <1>3, <2>1
  <2>2. CASE k # 1
    <3>1. PICK j \in 1..n : k = 1 + j /\ k = j + 1
      <4>1. k - 1 \in 1..n /\ k = 1 + (k - 1) /\ k = (k - 1) + 1
        BY <2>2
      <4> QED
        BY <4>1
    <3>2. u[1 + j] = v[j] /\ v[j] = w[j + 1]
      BY <1>2, <1>3
    <3> QED
      BY <3>1, <3>2
  <2> QED
    BY <2>1, <2>2
<1>5. Len(u) = n + 1 /\ Len(w) = n + 1
  BY <1>2, <1>3
<1>6. u = w
  BY <1>3, <1>4, <1>5, SeqEqual
<1> QED
  BY <1>6 DEF u, a

\* kbd_cmd takes one acknowledgement away and brings others.
LEMMA CmdRuns ==
    ASSUME KbdCmd, ~lost', wire \in Seq(Alphabet), NEW u \in Seq(Alphabet),
           NEW y \in States, NEW z \in States, ~z.e0, Runs(y, u \o wire, z)
    PROVE  wire' \in Seq(Alphabet) /\ Runs(y, u \o wire', z)
<1>1. PICK w \in Seq(Alphabet), a \in Seq(Alphabet) :
          /\ w = wire \o a /\ \A k \in 1..Len(a) : a[k] = Ack
          /\ Len(w) > 0 /\ w[1] = Ack
          /\ wire' \in Seq(Alphabet) /\ Len(wire') = Len(w) - 1
          /\ \A k \in 1..Len(wire') : wire'[k] = w[k + 1]
  BY KbdCmdWire
<1>2. w = <<Ack>> \o wire'
  <2>1. PICK v \in Seq(Alphabet) : v = wire' /\ Len(v) = Len(w) - 1 /\ \A k \in 1..Len(v) : v[k] = w[k + 1]
    BY <1>1
  <2>2. w = <<Ack>> \o v
    BY <1>1, <2>1, AckFirst
  <2> QED
    BY <2>1, <2>2
<1>3. (u \o wire) \o a = u \o w
  <2>1. wire \in Seq(Alphabet) /\ a \in Seq(Alphabet) /\ u \in Seq(Alphabet)
    OBVIOUS
  <2>2. (u \o wire) \o a = u \o (wire \o a)
    BY ONLY <2>1, ConcatAssociative
  <2> QED
    BY ONLY <1>1, <2>2, Zenon
<1>4. Runs(y, u \o w, z)
  <2>1. Runs(z, a, z) /\ u \o wire \in Seq(Alphabet)
    BY <1>1, AcksRun, Places2
  <2>2. Runs(y, (u \o wire) \o a, z)
    BY <2>1, RunsJoin
  <2> QED
    BY <1>3, <2>2
<1>5. PICK v \in States : Runs(y, u, v) /\ Runs(v, w, z)
  BY <1>4, RunsSplit
<1>6. Runs(v, wire', z)
  <2>1. PICK t \in Seq(Alphabet) : t = wire' /\ Runs(v, <<Ack>> \o t, z)
    BY <1>1, <1>2, <1>5
  <2>2. PICK q \in States : Runs(v, <<Ack>>, q) /\ Runs(q, t, z)
    BY <2>1, Letters, Single, RunsSplit
  <2>3. v = q
    BY <2>2, AckRuns
  <2> QED
    BY <2>1, <2>2, <2>3
<1> QED
  BY <1>1, <1>5, <1>6, RunsJoin

\* The step that the invariant foretells is the one that keyScanned takes.
LEMMA ScansNow ==
    ASSUME NEW b \in Alphabet, NEW y \in States, Now \in States, Scans(Now, b, y), wrong = FALSE,
           IF last_e0 /\ (b = E0 \/ FakeShift(b) \/ EscHandled(b)) THEN ScanEscaped(b) ELSE ScanPlain(b)
    PROVE  y = Now' /\ wrong' = FALSE
<1>1. PICK x \in States : x = Now
  OBVIOUS
<1>2. /\ x.shift = shift_down /\ x.ctrl = ctrl_down /\ x.alt = alt_down
      /\ x.caps = caps_lock_on /\ x.e0 = last_e0 /\ x.due = due
  BY <1>1, NowFacts
<1>3. Escapes(x, b) <=> last_e0 /\ (b = E0 \/ FakeShift(b) \/ EscHandled(b))
  BY <1>2 DEF Escapes
<1>4. /\ y.shift = IF b.code \in {"2a", "36"} /\ ~Escapes(x, b) THEN ~b.up ELSE shift_down
      /\ y.ctrl = IF b.code = "1d" THEN ~b.up ELSE ctrl_down
      /\ y.alt = IF b.code = "38" THEN ~b.up ELSE alt_down
      /\ y.caps = IF b = Byte("3a", FALSE) THEN ~caps_lock_on ELSE caps_lock_on
      /\ y.e0 = (b = E0)
      /\ IF Delivers(x, b)
         THEN due # <<>> /\ Head(due) = Delivered(x, b) /\ y.due = Tail(due)
         ELSE y.due = due
  BY <1>1, <1>2 DEF Scans
<1>5. /\ y.shift = shift_down' /\ y.ctrl = ctrl_down' /\ y.alt = alt_down'
      /\ y.caps = caps_lock_on' /\ y.e0 = last_e0' /\ y.due = due' /\ wrong' = FALSE
  <2>1. CASE Escapes(x, b)
    <3>1. /\ IF EscHandled(b) THEN GotInput("up") ELSE NoInput
          /\ last_e0' = (b = E0) /\ shift_down' = shift_down /\ ctrl_down' = ctrl_down
          /\ alt_down' = alt_down /\ caps_lock_on' = caps_lock_on
      BY <1>3, <2>1 DEF ScanEscaped
    <3>2. b.code \in {"e0", "2a", "36", "48"}
      BY <1>3, <2>1 DEF E0, Byte, FakeShift, EscHandled
    <3>3. b # Byte("3a", FALSE)
      BY <3>2 DEF Byte
    <3>4. Delivers(x, b) <=> EscHandled(b)
      BY <2>1 DEF Delivers
    <3>5. Delivered(x, b) = Input("up", shift_down, ctrl_down, alt_down)
      BY <1>2, <2>1 DEF Delivered
    <3>6. y.due = due' /\ wrong' = FALSE
      <4>1. CASE EscHandled(b)
        BY <1>4, <3>1, <3>4, <3>5, <4>1 DEF GotInput
      <4>2. CASE ~EscHandled(b)
        BY <1>4, <3>1, <3>4, <4>2 DEF NoInput
      <4> QED
        BY <4>1, <4>2
    <3> QED
      BY <1>4, <2>1, <3>1, <3>2, <3>3, <3>6
  <2>2. CASE ~Escapes(x, b)
    <3>1. /\ shift_down' = IF b.code \in {"2a", "36"} THEN ~b.up ELSE shift_down
          /\ ctrl_down' = IF b.code = "1d" THEN ~b.up ELSE ctrl_down
          /\ alt_down' = IF b.code = "38" THEN ~b.up ELSE alt_down
          /\ caps_lock_on' = IF b = Byte("3a", FALSE) THEN ~caps_lock_on ELSE caps_lock_on
          /\ last_e0' = (b = E0)
      BY <1>3, <2>2 DEF ScanPlain
    <3>2. IF b.code \in {"1e", "02", "48"} /\ ~b.up
          THEN GotInput(Symbol(b.code, IF b.code = "1e" THEN shift_down # caps_lock_on
                                       ELSE shift_down))
          ELSE NoInput
      BY <1>3, <2>2 DEF ScanPlain
    <3>3. Delivers(x, b) <=> b.code \in {"1e", "02", "48"} /\ ~b.up
      BY <2>2 DEF Delivers
    <3>4. Delivered(x, b) = Input(Symbol(b.code, IF b.code = "1e" THEN shift_down # caps_lock_on
                                                 ELSE shift_down),
                                  shift_down, ctrl_down, alt_down)
      BY <1>2, <2>2 DEF Delivered
    <3>5. y.due = due' /\ wrong' = FALSE
      <4>1. CASE Delivers(x, b)
        BY <1>4, <3>2, <3>3, <3>4, <4>1 DEF GotInput
      <4>2. CASE ~Delivers(x, b)
        BY <1>4, <3>2, <3>3, <4>2 DEF NoInput
      <4> QED
        BY <4>1, <4>2
    <3> QED
      BY <1>4, <2>2, <3>1, <3>5
  <2> QED
    BY <2>1, <2>2
<1>6. y = Now'
  <2> DEFINE n == Now'
  <2>1. /\ n.shift = shift_down' /\ n.ctrl = ctrl_down' /\ n.alt = alt_down'
        /\ n.caps = caps_lock_on' /\ n.e0 = last_e0' /\ n.due = due'
    BY NowFacts
  <2>2. n = [shift |-> y.shift, ctrl |-> y.ctrl, alt |-> y.alt, caps |-> y.caps, e0 |-> y.e0,
             due |-> y.due]
    BY <1>5 DEF Now
  <2>3. n \in States
    BY <2>2 DEF States
  <2> HIDE DEF n
  <2>4. y = n
    BY <1>5, <2>1, <2>3, SameState
  <2> QED
    BY <2>4 DEF n
<1> QED
  BY <1>5, <1>6

\* process_keys handles a byte, and the stream is what is left.
LEMMA KeyScannedTyped ==
    ASSUME KbdInv, TypedInv, KeyScanned
    PROVE  TypedInv'
<1> DEFINE b == Head(kbd_buf)
<1>1. /\ IF last_e0 /\ (b = E0 \/ FakeShift(b) \/ EscHandled(b)) THEN ScanEscaped(b) ELSE ScanPlain(b)
      /\ kbd_buf # <<>> /\ kbd_buf' = Tail(kbd_buf)
      /\ held' = held /\ capsMeant' = capsMeant /\ mixed' = mixed
  BY DEF KeyScanned
<1>2. KbdCmd \/ NoCmd
  BY <1>1 DEF ScanEscaped, ScanPlain
<1> SUFFICES ASSUME ~lost', ~mixed PROVE TypedInv'
  BY <1>1 DEF TypedInv
<1>3. ~lost
  BY <1>2, KbdCmdOnce DEF NoCmd
<1>4. /\ wrong = FALSE /\ held \subseteq Keys
      /\ \A i, j \in held : Key[i].kind = Key[j].kind /\ Key[i].kind # "char" => i = j
  BY <1>3 DEF TypedInv
<1>5. PICK x \in States, z \in States, s \in Seq(Alphabet) :
          x = Now /\ z = Last /\ s = Stream /\ Runs(x, s, z)
  BY <1>3 DEF TypedInv
<1>6. wire \in Seq(Alphabet) /\ kbd_buf \in Seq(Alphabet)
  BY <1>3 DEF KbdInv
<1>7. PICK h \in Alphabet, u \in Seq(Alphabet) : h = b /\ u = kbd_buf' /\ kbd_buf = <<h>> \o u
  BY <1>1, <1>6, FirstOut
<1> HIDE DEF b
<1>8. s = <<h>> \o (u \o wire) /\ u \o wire \in Seq(Alphabet)
  <2>1. <<h>> \in Seq(Alphabet) /\ u \in Seq(Alphabet) /\ wire \in Seq(Alphabet)
    BY <1>6, Single
  <2>2. (<<h>> \o u) \o wire = <<h>> \o (u \o wire) /\ u \o wire \in Seq(Alphabet)
    BY ONLY <2>1, ConcatAssociative, ConcatProperties
  <2>3. s = kbd_buf \o wire
    BY <1>5 DEF Stream
  <2> QED
    BY ONLY <1>7, <2>2, <2>3, Zenon
<1>9. PICK y \in States : Scans(x, h, y) /\ Runs(y, u \o wire, z)
  BY <1>5, <1>8, RunsFirst
<1>10. y = Now' /\ wrong' = FALSE
  <2>1. IF last_e0 /\ (h = E0 \/ FakeShift(h) \/ EscHandled(h)) THEN ScanEscaped(h) ELSE ScanPlain(h)
    BY <1>1, <1>7
  <2>2. Now \in States /\ Scans(Now, h, y)
    BY <1>5, <1>9
  <2> QED
    BY <1>4, <2>1, <2>2, ScansNow
<1>11. z = Last' /\ ~z.e0
  <2>1. Last' = Last
    BY <1>1 DEF Last, Holding
  <2> QED
    BY <1>5, <2>1, LastFacts
<1>12. wire' \in Seq(Alphabet) /\ Runs(y, u \o wire', z)
  <2>1. CASE NoCmd
    BY <1>6, <1>9, <2>1 DEF NoCmd
  <2>2. CASE KbdCmd
    BY <1>6, <1>9, <1>11, <2>2, CmdRuns
  <2> QED
    BY <1>2, <2>1, <2>2
<1>13. PICK t \in Seq(Alphabet) : t = Stream' /\ Runs(y, t, z)
  <2>1. u \o wire' \in Seq(Alphabet)
    BY <1>12, Places2
  <2>2. Stream' = u \o wire'
    BY <1>7 DEF Stream
  <2> QED
    BY <1>12, <2>1, <2>2
<1> QED
  BY <1>1, <1>4, <1>10, <1>11, <1>13, TypedPrimed

\* At the start nothing is due, and one acknowledgement is on its way.
LEMMA TypedInit == KbdInit => TypedInv
<1> SUFFICES ASSUME KbdInit PROVE TypedInv
  OBVIOUS
<1>1. /\ shift_down = FALSE /\ ctrl_down = FALSE /\ alt_down = FALSE
      /\ caps_lock_on = FALSE /\ last_e0 = FALSE
      /\ wire = <<Ack>> /\ kbd_buf = <<>> /\ held = {} /\ capsMeant = FALSE
      /\ due = <<>> /\ wrong = FALSE
  BY DEF KbdInit
<1>2. \A m : Holding(m) = FALSE
  BY <1>1 DEF Holding
<1>3. Now = Last
  BY <1>1, <1>2 DEF Now, Last
<1>4. Last \in States
  BY <1>1, LastType
<1>5. PICK x \in States : x = Now /\ x = Last /\ ~x.e0
  BY <1>3, <1>4, LastFacts
<1>6. Ack \in Alphabet /\ <<Ack>> \in Seq(Alphabet)
  BY Letters, Single
<1>7. Stream = <<Ack>>
  BY <1>1, <1>6, ConcatEmptySeq DEF Stream
<1>8. Runs(x, <<Ack>>, x)
  BY <1>5, AckRuns
<1> QED
  BY <1>1, <1>5, <1>6, <1>7, <1>8 DEF TypedInv

\* Every step keeps TypedInv.
LEMMA TypedNext ==
    ASSUME KbdInv, TypedInv, [KbdNext]_kbdVars
    PROVE  TypedInv'
<1>1. ASSUME NEW k \in Keys, Press(k) PROVE TypedInv'
  BY <1>1, PressTyped
<1>2. ASSUME NEW k \in Keys, Release(k) PROVE TypedInv'
  BY <1>2, ReleaseTyped
<1>3. CASE Irq1
  BY <1>3, Irq1Typed
<1>4. CASE KeyScanned
  BY <1>4, KeyScannedTyped
<1>5. CASE UNCHANGED kbdVars
  <2>1. /\ wrong' = wrong /\ held' = held /\ Now' = Now /\ Last' = Last /\ Stream' = Stream
        /\ lost' = lost /\ mixed' = mixed
    BY <1>5 DEF kbdVars, Now, Last, Holding, Stream
  <2>2. CASE lost \/ mixed
    BY <2>1, <2>2 DEF TypedInv
  <2>3. CASE ~lost /\ ~mixed
    <3>1. PICK x \in States, z \in States, s \in Seq(Alphabet) :
              x = Now' /\ z = Last' /\ s = Stream' /\ Runs(x, s, z)
      BY <2>1, <2>3 DEF TypedInv
    <3>2. /\ wrong' = FALSE /\ held' \subseteq Keys
          /\ \A j, k \in held' : Key[j].kind = Key[k].kind /\ Key[j].kind # "char" => j = k
      BY <2>1, <2>3 DEF TypedInv
    <3> QED
      BY <3>1, <3>2, TypedPrimed
  <2> QED
    BY <2>2, <2>3
<1> QED
  BY <1>1, <1>2, <1>3, <1>4, <1>5 DEF KbdNext

\* The console gets what was meant, in order, with the modifiers that were
\* held when the key went down, whatever is pretended, repeated or
\* acknowledged late, as long as kbd_cmd swallows no scan code and no two
\* keys of one modifier are held.
THEOREM AsMeant == KbdSpec => []AsTyped
<1>1. KbdInv /\ TypedInv /\ [KbdNext]_kbdVars => KbdInv' /\ TypedInv'
  BY KbdInvNext, TypedNext
<1>2. KbdInit => KbdInv /\ TypedInv
  BY KbdInitInv, TypedInit
<1>3. TypedInv => AsTyped
  <2> SUFFICES ASSUME TypedInv, ~lost, ~mixed PROVE ~wrong /\ (Quiet => due = <<>>)
    BY DEF AsTyped
  <2>1. wrong = FALSE
    BY DEF TypedInv
  <2>2. PICK x \in States, z \in States, s \in Seq(Alphabet) :
            x = Now /\ z = Last /\ s = Stream /\ Runs(x, s, z)
    BY DEF TypedInv
  <2>3. ASSUME Quiet PROVE due = <<>>
    <3>1. <<>> \in Seq(Alphabet)
      BY EmptySeq
    <3>2. s = <<>>
      BY <2>2, <2>3, <3>1, ConcatEmptySeq DEF Quiet, Stream
    <3>3. x = z
      BY <2>2, <3>2, RunsNone
    <3> QED
      BY <2>2, <3>3, NowFacts, LastFacts
  <2> QED
    BY <2>1, <2>3
<1> QED
  BY <1>1, <1>2, <1>3, PTL DEF KbdSpec
=============================================================================
