---------------------------- MODULE VtermProofs ----------------------------
(***************************************************************************)
(* What holds of a terminal for any size of the screen and any length of   *)
(* text.                                                                   *)
(***************************************************************************)
EXTENDS Vterm, SequenceTheorems, WellFoundedInduction, TLAPS

----------------------------------------------------------------------------
(* Lines, pages and the line on top, as arithmetic.                         *)

\* The constants are positive numbers, and so is their product.
LEMMA SizeFacts ==
    /\ Lines \in Nat /\ Lines >= 1
    /\ Cols \in Nat /\ Cols >= 1
    /\ MaxEnd \in Nat /\ MaxEnd >= 1
    /\ PageSize \in Nat /\ PageSize >= 1
<1>1. /\ Lines \in Nat /\ Lines >= 1
      /\ Cols \in Nat /\ Cols >= 1
      /\ MaxEnd \in Nat /\ MaxEnd >= 1
  BY VtermAssumption
<1>2. \A x, y \in Nat : x >= 1 /\ y >= 1 => x * y \in Nat /\ x * y >= 1
  OBVIOUS
<1> QED
  BY <1>1, <1>2 DEF PageSize

\* The cells of a line.
LEMMA LineFacts ==
    ASSUME NEW x \in Nat
    PROVE  Line(x) \in Nat /\ Line(x) * Cols <= x /\ x < (Line(x) + 1) * Cols
BY SizeFacts DEF Line

\* Later cells are on the same line or on later ones.
LEMMA LineGrows ==
    ASSUME NEW x \in Nat, NEW y \in Nat, x <= y
    PROVE  Line(x) <= Line(y)
BY SizeFacts DEF Line

\* A line that a number of lines leads to.
LEMMA LineUnique ==
    ASSUME NEW x \in Nat, NEW l \in Nat, l * Cols <= x, x < (l + 1) * Cols
    PROVE  Line(x) = l
BY SizeFacts DEF Line

\* A line more at most, when there is a line's worth of cells more at most.
LEMMA LineStep ==
    ASSUME NEW x \in Nat, NEW n \in 0..Cols
    PROVE  Line(x + n) <= Line(x) + 1
BY SizeFacts DEF Line

\* A page is as many lines as the screen.
LEMMA PageOfLine ==
    ASSUME NEW x \in Nat
    PROVE  Page(x) \in Nat /\ Page(x) = Line(x) \div Lines
BY SizeFacts DEF Page, Line, PageSize

\* The rest of a line ends at the next one.
LEMMA RestFacts ==
    ASSUME NEW x \in Nat
    PROVE  RestOfLine(x) \in 1..Cols
BY SizeFacts DEF RestOfLine

\* The line on top, when nothing is scrolled: the edit point is among the
\* lines on the screen, and so is the end, if it is no screen further down.
LEMMA BaseFacts ==
    ASSUME NEW c \in Nat, NEW e \in Nat, NEW ct \in Nat, c <= e, ct <= Line(c)
    PROVE  /\ BaseLine(c, e, ct) \in Nat
           /\ BaseLine(c, e, ct) <= Line(c) /\ Line(c) <= BaseLine(c, e, ct) + Lines - 1
           /\ Line(e) - Line(c) < Lines => Line(e) <= BaseLine(c, e, ct) + Lines - 1
<1>1. Line(c) \in Nat /\ Line(e) \in Nat /\ Line(c) <= Line(e)
  BY LineFacts, LineGrows
<1> QED
  BY <1>1, SizeFacts DEF BaseLine

\* It goes down with the edit point and the end, and not up.
LEMMA BaseGrows ==
    ASSUME NEW c \in Nat, NEW e \in Nat, NEW ct \in Nat, c <= e, ct <= Line(c),
           NEW d \in Nat, NEW f \in Nat, c <= d, e <= f, d <= f
    PROVE  BaseLine(c, e, ct) <= BaseLine(d, f, ct)
<1>1. /\ Line(c) \in Nat /\ Line(e) \in Nat /\ Line(c) <= Line(e)
      /\ Line(d) \in Nat /\ Line(f) \in Nat /\ Line(d) <= Line(f)
      /\ Line(c) <= Line(d) /\ Line(e) <= Line(f)
  BY LineFacts, LineGrows
<1> QED
  BY <1>1, SizeFacts DEF BaseLine

\* It does not depend on the edit point, while the line typed is no longer
\* than the screen.
LEMMA BaseSame ==
    ASSUME NEW a \in Nat, NEW c \in Nat, NEW d \in Nat, NEW e \in Nat, NEW ct,
           a <= c, c <= e, a <= d, d <= e, Line(e) - Line(a) < Lines
    PROVE  BaseLine(c, e, ct) = BaseLine(d, e, ct)
<1>1. /\ Line(a) \in Nat /\ Line(c) \in Nat /\ Line(d) \in Nat /\ Line(e) \in Nat
      /\ Line(a) <= Line(c) /\ Line(c) <= Line(e) /\ Line(a) <= Line(d) /\ Line(d) <= Line(e)
  BY LineFacts, LineGrows
<1> QED
  BY <1>1, SizeFacts DEF BaseLine

\* The cursor is on the screen or hidden; on it, when the edit point is in one
\* of the lines there.
LEMMA CursorFacts ==
    ASSUME NEW c \in Nat, NEW tl \in Int
    PROVE  /\ CursorAt(c, tl) \in Hidden..(PageSize - 1)
           /\ tl <= Line(c) /\ Line(c) <= tl + Lines - 1 => CursorAt(c, tl) # Hidden
<1>1. \A x, y \in Int : x * y \in Int
  OBVIOUS
<1>2. CursorAt(c, tl) \in Hidden..(PageSize - 1)
  BY <1>1, SizeFacts DEF CursorAt, Hidden
<1>3. ASSUME tl <= Line(c), Line(c) <= tl + Lines - 1 PROVE CursorAt(c, tl) # Hidden
  <2>1. /\ Line(c) \in Nat /\ Line(c) * Cols <= c /\ c < (Line(c) + 1) * Cols
    BY LineFacts
  <2>2. tl * Cols <= Line(c) * Cols
    BY <1>3, <2>1, SizeFacts
  <2>3. (Line(c) + 1) * Cols <= (tl + Lines) * Cols
    BY <1>3, <2>1, SizeFacts
  <2>4. (tl + Lines) * Cols = tl * Cols + PageSize
    BY SizeFacts DEF PageSize
  <2>5. c - tl * Cols >= 0 /\ c - tl * Cols < PageSize
    BY <1>1, <2>1, <2>2, <2>3, <2>4, SizeFacts
  <2> QED
    BY <1>1, <2>5, SizeFacts DEF CursorAt, Hidden
<1> QED
  BY <1>2, <1>3

\* The pages that lines 0 to l are on.
PagesTo(l, ps) == \A q \in 0..(l \div Lines) : q \in ps

\* Fewer lines need no more pages.
LEMMA PagesToLess ==
    ASSUME NEW l \in Nat, NEW k \in Nat, k <= l, NEW ps, PagesTo(l, ps)
    PROVE  PagesTo(k, ps)
BY SizeFacts DEF PagesTo

\* A cell on one of the lines is on one of the pages.
LEMMA PagesToCell ==
    ASSUME NEW l \in Nat, NEW ps, PagesTo(l, ps), NEW i \in Nat, Line(i) <= l
    PROVE  Page(i) \in ps
<1>1. Line(i) \in Nat /\ Page(i) = Line(i) \div Lines
  BY LineFacts, PageOfLine
<1>2. Line(i) \div Lines \in 0..(l \div Lines)
  BY <1>1, SizeFacts
<1> QED
  BY <1>1, <1>2 DEF PagesTo

\* With the pages to where the end is, ensurePages sees to a screen more.
LEMMA EnsuredFacts ==
    ASSUME NEW e \in Nat, NEW ps, PagesTo(Line(e), ps), NEW l \in Nat, l <= Line(e) + Lines
    PROVE  PagesTo(l, Ensured(ps, e))
<1>1. Line(e) \in Nat /\ Page(e) = Line(e) \div Lines
  BY LineFacts, PageOfLine
<1>2. PICK d, k : d = Line(e) \div Lines /\ k = l \div Lines
  OBVIOUS
<1>3. d \in Nat /\ k \in Nat /\ k <= d + 1
  BY <1>1, <1>2, SizeFacts
<1>4. \A q \in 0..k : q \in 0..d \/ q = d + 1
  BY <1>3
<1>5. PagesTo(l, Ensured(ps, e)) <=> \A q \in 0..k : q \in ps \cup {d, d + 1}
  BY <1>1, <1>2 DEF PagesTo, Ensured
<1> QED
  BY <1>2, <1>4, <1>5 DEF PagesTo

\* The cells on the screen are on the lines from the one on top.
LEMMA ShownCells ==
    ASSUME NEW tl \in Nat, NEW i \in 0..(PageSize - 1)
    PROVE  tl * Cols + i \in Nat /\ Line(tl * Cols + i) <= tl + Lines - 1
<1>1. tl * Cols \in Nat
  BY SizeFacts
<1> DEFINE x == tl * Cols + i
<1>2. x \in Nat /\ x < tl * Cols + PageSize
  BY <1>1, SizeFacts
<1>3. tl * Cols + PageSize = (tl + Lines) * Cols
  BY SizeFacts DEF PageSize
<1>4. Line(x) \in Nat /\ Line(x) * Cols <= x
  BY <1>2, LineFacts
<1>5. Line(x) * Cols < (tl + Lines) * Cols
  BY <1>1, <1>2, <1>3, <1>4, SizeFacts
<1>6. Line(x) < tl + Lines
  BY <1>4, <1>5, SizeFacts
<1> QED
  BY <1>2, <1>4, <1>6, SizeFacts

\* A nonempty set of naturals has a least element.
LEMMA Least ==
    ASSUME NEW S, S \subseteq Nat, S # {}
    PROVE  \E x \in S : \A y \in S : x <= y
<1> DEFINE Less == {p \in Nat \X Nat : p[1] < p[2]}
<1>1. IsWellFoundedOn(Less, Nat)
  BY NatLessThanWellFounded DEF OpToRel, Less
<1>2. PICK x \in S : \A y \in S : ~ (<<y, x>> \in Less)
  BY <1>1, WFMin
<1>3. ASSUME NEW y \in S PROVE x <= y
  <2>1. x \in Nat /\ y \in Nat
    OBVIOUS
  <2>2. y < x => <<y, x>> \in Less
    BY <2>1
  <2> QED
    BY <1>2, <2>1, <2>2
<1> QED
  BY <1>3

----------------------------------------------------------------------------
(* The inductive invariant.                                                 *)

Char == {Blank, Space, Letter, Printed}

Base == BaseLine(cur, end, clear_top)

\* What has been typed is no blank; nothing stands after the end; and where
\* the line that is typed stands, there are pages.
LineKept ==
    /\ \A i \in Cells : i >= anchor /\ i < end => cells[i] # Blank
    /\ \A i \in Cells : i >= end => cells[i] = Blank
    /\ \A i \in Nat : i >= anchor /\ i < end => Page(i) \in pages

\* The line on top is never above the first, nor was the last clear below the
\* line that is typed.
ViewKept == clear_top <= Line(anchor) /\ v_scroll <= Base

\* There are pages for the line after the screen, too: what a newline needs
\* that is printed on the last line, before ensurePages is called.
PagesAhead ==
    ~long => /\ Line(end) - Line(anchor) < Lines
             /\ PagesTo(Base + Lines, pages)
             /\ fault # "page"

VtermInv ==
    /\ TypeOK
    /\ LineKept
    /\ ViewKept
    /\ PagesAhead
    /\ CursorTrue
    /\ ScreenTrue

\* What the invariant says of the indices and the line on top.
LEMMA IndexFacts ==
    ASSUME VtermInv
    PROVE  /\ anchor \in Nat /\ cur \in Nat /\ end \in Nat /\ clear_top \in Nat /\ v_scroll \in Nat
           /\ anchor <= cur /\ cur <= end /\ end <= MaxEnd
           /\ clear_top <= Line(anchor) /\ clear_top <= Line(cur) /\ Line(cur) <= Line(end)
           /\ Base \in Nat /\ Base <= Line(cur) /\ Line(cur) <= Base + Lines - 1
           /\ Line(end) - Line(anchor) < Lines => Line(end) <= Base + Lines - 1
           /\ Top = Base - v_scroll /\ Top \in Nat
<1>1. /\ anchor \in Nat /\ cur \in Nat /\ end \in Nat /\ clear_top \in Nat /\ v_scroll \in Nat
      /\ anchor <= cur /\ cur <= end /\ end <= MaxEnd
      /\ clear_top <= Line(anchor) /\ v_scroll <= Base
  BY DEF VtermInv, TypeOK, ViewKept
<1>2. /\ Line(anchor) \in Nat /\ Line(cur) \in Nat /\ Line(end) \in Nat
      /\ Line(anchor) <= Line(cur) /\ Line(cur) <= Line(end)
  BY <1>1, LineFacts, LineGrows
<1>3. clear_top <= Line(cur)
  BY <1>1, <1>2
<1>4. /\ Base \in Nat /\ Base <= Line(cur) /\ Line(cur) <= Base + Lines - 1
      /\ Line(end) - Line(cur) < Lines => Line(end) <= Base + Lines - 1
  BY <1>1, <1>3, BaseFacts DEF Base
<1>5. Line(end) - Line(anchor) < Lines => Line(end) - Line(cur) < Lines
  BY <1>2, SizeFacts
<1>6. Top = Base - v_scroll
  BY DEF Top, TopLine, Base
<1> QED
  BY <1>1, <1>2, <1>3, <1>4, <1>5, <1>6

\* The loops of wordLeft and wordRight end, and where they do.
LEMMA WordFacts ==
    ASSUME VtermInv
    PROVE  /\ SpacesLeft \in anchor..cur /\ \A i \in SpacesLeft..(cur - 1) : cells[i] = Space
           /\ SpacesLeft = anchor \/ cells[SpacesLeft - 1] # Space
           /\ WordLeft \in anchor..SpacesLeft /\ \A i \in WordLeft..(SpacesLeft - 1) : cells[i] # Space
           /\ WordLeft = anchor \/ cells[WordLeft - 1] = Space
           /\ SpacesRight \in cur..end /\ \A i \in cur..(SpacesRight - 1) : cells[i] = Space
           /\ SpacesRight = end \/ cells[SpacesRight] # Space
           /\ WordRight \in SpacesRight..end /\ \A i \in SpacesRight..(WordRight - 1) : cells[i] # Space
           /\ WordRight = end \/ cells[WordRight] = Space
<1>1. /\ anchor \in Nat /\ cur \in Nat /\ end \in Nat
      /\ anchor <= cur /\ cur <= end
  BY IndexFacts
<1> DEFINE
      Begins(c, hi) == /\ c \in anchor..hi /\ \A i \in c..(hi - 1) : cells[i] = Space
                       /\ c = anchor \/ cells[c - 1] # Space
      WordBegins(c, hi) == /\ c \in anchor..hi /\ \A i \in c..(hi - 1) : cells[i] # Space
                           /\ c = anchor \/ cells[c - 1] = Space
      Ends(c, lo) == /\ c \in lo..end /\ \A i \in lo..(c - 1) : cells[i] = Space
                     /\ c = end \/ cells[c] # Space
      WordEnds(c, lo) == /\ c \in lo..end /\ \A i \in lo..(c - 1) : cells[i] # Space
                         /\ c = end \/ cells[c] = Space
<1>2. ASSUME NEW hi \in anchor..end PROVE \E c : Begins(c, hi)
  <2> DEFINE S == {c \in anchor..hi : \A i \in c..(hi - 1) : cells[i] = Space}
  <2>1. S \subseteq Nat /\ hi \in S
    BY <1>1, <1>2
  <2>2. PICK m \in S : \A n \in S : m <= n
    BY <2>1, Least
  <2>3. ASSUME m # anchor, cells[m - 1] = Space PROVE FALSE
    <3>1. m \in Int /\ m - 1 \in anchor..hi
      BY <1>1, <1>2, <2>3
    <3>2. \A i \in (m - 1)..(hi - 1) : cells[i] = Space
      BY <1>1, <1>2, <2>3, <3>1
    <3>3. m - 1 \in S
      BY <3>1, <3>2
    <3> QED
      BY <2>2, <3>1, <3>3
  <2> QED
    BY <2>3
<1>3. ASSUME NEW hi \in anchor..end PROVE \E c : WordBegins(c, hi)
  <2> DEFINE S == {c \in anchor..hi : \A i \in c..(hi - 1) : cells[i] # Space}
  <2>1. S \subseteq Nat /\ hi \in S
    BY <1>1, <1>3
  <2>2. PICK m \in S : \A n \in S : m <= n
    BY <2>1, Least
  <2>3. ASSUME m # anchor, cells[m - 1] # Space PROVE FALSE
    <3>1. m \in Int /\ m - 1 \in anchor..hi
      BY <1>1, <1>3, <2>3
    <3>2. \A i \in (m - 1)..(hi - 1) : cells[i] # Space
      BY <1>1, <1>3, <2>3, <3>1
    <3>3. m - 1 \in S
      BY <3>1, <3>2
    <3> QED
      BY <2>2, <3>1, <3>3
  <2> QED
    BY <2>3
<1>4. ASSUME NEW lo \in cur..end PROVE \E c : Ends(c, lo)
  <2> DEFINE S == {c \in lo..end : c = end \/ cells[c] # Space}
  <2>1. S \subseteq Nat /\ end \in S
    BY <1>1, <1>4
  <2>2. PICK m \in S : \A n \in S : m <= n
    BY <2>1, Least
  <2>3. \A i \in lo..(m - 1) : cells[i] = Space
    BY <1>1, <1>4, <2>2
  <2> QED
    BY <2>3
<1>5. ASSUME NEW lo \in cur..end PROVE \E c : WordEnds(c, lo)
  <2> DEFINE S == {c \in lo..end : c = end \/ cells[c] = Space}
  <2>1. S \subseteq Nat /\ end \in S
    BY <1>1, <1>5
  <2>2. PICK m \in S : \A n \in S : m <= n
    BY <2>1, Least
  <2>3. \A i \in lo..(m - 1) : cells[i] # Space
    BY <1>1, <1>5, <2>2
  <2> QED
    BY <2>3
<1>6. Begins(SpacesLeft, cur)
  <2>1. cur \in anchor..end
    BY <1>1
  <2>2. PICK c : Begins(c, cur)
    <3> HIDE DEF Begins
    <3> QED
      BY <1>2, <2>1
  <2> QED
    BY <2>2 DEF SpacesLeft
<1>7. WordBegins(WordLeft, SpacesLeft)
  <2>1. SpacesLeft \in anchor..end
    BY <1>1, <1>6
  <2>2. PICK c : WordBegins(c, SpacesLeft)
    <3> HIDE DEF WordBegins
    <3> QED
      BY <1>3, <2>1
  <2> QED
    BY <2>2 DEF WordLeft
<1>8. Ends(SpacesRight, cur)
  <2>1. cur \in cur..end
    BY <1>1
  <2>2. PICK c : Ends(c, cur)
    <3> HIDE DEF Ends
    <3> QED
      BY <1>4, <2>1
  <2> QED
    BY <2>2 DEF SpacesRight
<1>9. WordEnds(WordRight, SpacesRight)
  <2>1. SpacesRight \in cur..end
    BY <1>1, <1>8
  <2>2. PICK c : WordEnds(c, SpacesRight)
    <3> HIDE DEF WordEnds
    <3> QED
      BY <1>5, <2>1
  <2> QED
    BY <2>2 DEF WordRight
<1> QED
  BY <1>6, <1>7, <1>8, <1>9

\* Where the steps by a word and by a character lead: not out of the line
\* that is typed.
LEMMA PointFacts ==
    ASSUME VtermInv
    PROVE  /\ Left \in anchor..cur /\ Right \in cur..end
           /\ WordLeft \in anchor..cur /\ WordRight \in cur..end
<1>1. anchor \in Nat /\ cur \in Nat /\ end \in Nat /\ anchor <= cur /\ cur <= end
  BY IndexFacts
<1>2. Left \in anchor..cur /\ Right \in cur..end
  BY <1>1 DEF Left, Right
<1>3. /\ SpacesLeft \in anchor..cur /\ WordLeft \in anchor..SpacesLeft
      /\ SpacesRight \in cur..end /\ WordRight \in SpacesRight..end
  BY WordFacts
<1> QED
  BY <1>1, <1>2, <1>3

\* What the screen can show.
LEMMA ViewFacts ==
    ASSUME NEW tx \in [Cells -> Char], NEW ps, NEW tl \in Int
    PROVE  View(tx, ps, tl) \in [0..(PageSize - 1) -> Char \cup {Junk}]
BY DEF View, Char

\* scrollToBottom brings the edit point and the cursor back.
LEMMA BottomFacts ==
    ASSUME VtermInv, onScreen
    PROVE  /\ Bottom = Base
           /\ BottomCursor = CursorAt(cur, Base) /\ BottomCursor # Hidden
           /\ BottomCursor \in Hidden..(PageSize - 1)
           /\ BottomScreen \in [0..(PageSize - 1) -> Char \cup {Junk}]
           /\ Line(end) - Line(anchor) < Lines => BottomScreen = View(cells, pages, Base)
<1>1. /\ cur \in Nat /\ v_scroll \in Nat
      /\ Base \in Nat /\ Base <= Line(cur) /\ Line(cur) <= Base + Lines - 1
      /\ Top = Base - v_scroll
  BY IndexFacts
<1>2. Bottom = Base
  BY <1>1 DEF Bottom, TopLine, Base
<1>3. CursorAt(cur, Base) \in Hidden..(PageSize - 1) /\ CursorAt(cur, Base) # Hidden
  BY <1>1, CursorFacts
<1>4. v_scroll = 0 => Top = Base
  BY <1>1
<1>5. BottomCursor = CursorAt(cur, Base)
  BY <1>2, <1>4 DEF BottomCursor, VtermInv, CursorTrue
<1>6. /\ screen \in [0..(PageSize - 1) -> Char \cup {Junk}]
      /\ cells \in [Cells -> Char]
  BY DEF VtermInv, TypeOK, Char
<1>7. BottomScreen \in [0..(PageSize - 1) -> Char \cup {Junk}]
  BY <1>1, <1>2, <1>6, ViewFacts DEF BottomScreen
<1>8. Line(end) - Line(anchor) < Lines => BottomScreen = View(cells, pages, Base)
  BY <1>2, <1>4 DEF BottomScreen, VtermInv, ScreenTrue
<1> QED
  BY <1>2, <1>3, <1>5, <1>7, <1>8

\* A character printed or typed, or a newline, by pieces: the text, the line
\* on top and the pages.  vs is how far the view stays scrolled up.
LEMMA PutFacts ==
    ASSUME VtermInv, NEW c \in Char, NEW n \in 1..Cols, NEW p \in {cur, end},
           NEW vs \in Nat, Put(c, n, p, vs)
    PROVE  /\ cells' \in [Cells -> Char] /\ cur' = p + n /\ end' = end + n
           /\ cur' \in Nat /\ end' \in Nat /\ cur' <= end' /\ end' <= MaxEnd
           /\ pages \subseteq pages' /\ pages' \subseteq Nat
           /\ \A i \in Cells : /\ i < p => cells'[i] = cells[i]
                               /\ i >= p /\ i < p + n => cells'[i] = c
                               /\ i >= p + n /\ i < end + n => cells'[i] = cells[i - n]
                               /\ i >= end + n => cells'[i] = Blank
           /\ \A i \in Nat : i >= p /\ i < end + n => Page(i) \in pages'
           /\ Base <= BaseLine(cur', end', clear_top)
           /\ ~long => PagesTo(BaseLine(cur', end', clear_top) + Lines, pages')
<1>1. /\ anchor \in Nat /\ cur \in Nat /\ end \in Nat /\ clear_top \in Nat
      /\ anchor <= cur /\ cur <= end /\ end <= MaxEnd
      /\ clear_top <= Line(cur) /\ Base \in Nat
      /\ Line(end) - Line(anchor) < Lines => Line(end) <= Base + Lines - 1
  BY IndexFacts
<1>2. /\ end + n <= MaxEnd /\ HavePages(p, n) /\ cells' = Inserted(c, n, p)
      /\ cur' = p + n /\ end' = end + n
  BY DEF Put
<1>3. /\ p \in Nat /\ n \in Nat /\ n <= Cols /\ n >= 1 /\ cur <= p /\ p <= end
      /\ cur' \in Nat /\ end' \in Nat /\ cur' <= end' /\ cur <= cur' /\ end <= end'
  BY <1>1, <1>2, SizeFacts
<1>4. cells \in [Cells -> Char] /\ \A i \in Cells : i >= end => cells[i] = Blank
  BY DEF VtermInv, TypeOK, LineKept, Char
<1>5. cells' \in [Cells -> Char]
  <2>1. \A i \in Cells : i >= p + n => i - n \in Cells
    BY <1>3, SizeFacts DEF Cells
  <2>2. Blank \in Char
    BY DEF Char
  <2>3. \A i \in Cells : i \in Int
    BY DEF Cells
  <2> QED
    BY <1>2, <1>3, <1>4, <2>1, <2>2, <2>3 DEF Inserted
<1>6. \A i \in Cells : /\ i < p => cells'[i] = cells[i]
                       /\ i >= p /\ i < p + n => cells'[i] = c
                       /\ i >= p + n /\ i < end + n => cells'[i] = cells[i - n]
                       /\ i >= end + n => cells'[i] = Blank
  <2> SUFFICES ASSUME NEW i \in Cells
               PROVE  /\ i < p => cells'[i] = cells[i]
                      /\ i >= p /\ i < p + n => cells'[i] = c
                      /\ i >= p + n /\ i < end + n => cells'[i] = cells[i - n]
                      /\ i >= end + n => cells'[i] = Blank
    OBVIOUS
  <2>1. i \in Int
    BY DEF Cells
  <2>2. cells'[i] = IF i < p \/ i >= end + n THEN cells[i]
                    ELSE IF i < p + n THEN c ELSE cells[i - n]
    BY <1>2 DEF Inserted
  <2> QED
    BY <1>1, <1>3, <1>4, <2>1, <2>2
<1>7. pages' = pages \/ pages' = Ensured(pages, end + n)
  BY DEF Put
<1>8. pages \subseteq pages' /\ pages' \subseteq Nat
  <2>1. pages \subseteq Nat
    BY DEF VtermInv, TypeOK
  <2>2. Page(end + n) \in Nat
    BY <1>2, <1>3, PageOfLine
  <2>3. PICK d : d = Page(end + n)
    OBVIOUS
  <2>4. Ensured(pages, end + n) = pages \cup {d, d + 1}
    BY <2>3 DEF Ensured
  <2>5. d \in Nat /\ d + 1 \in Nat
    BY <2>2, <2>3
  <2>6. CASE pages' = pages
    BY <2>1, <2>6
  <2>7. CASE pages' = Ensured(pages, end + n)
    <3>1. pages' = pages \cup {d, d + 1}
      BY <2>4, <2>7
    <3> QED
      BY <2>1, <2>5, <3>1
  <2> QED
    BY <1>7, <2>6, <2>7
<1>9. ASSUME NEW i \in Nat, i >= p, i < end + n PROVE Page(i) \in pages'
  <2>1. i \in p..(end + n - 1)
    BY <1>1, <1>3, <1>9
  <2>2. Page(i) \in pages
    BY <1>2, <2>1 DEF HavePages
  <2> QED
    BY <1>8, <2>2
<1>10. PICK B : B = BaseLine(cur', end', clear_top)
  OBVIOUS
<1>11. Line(cur) <= Line(cur') /\ Line(cur') <= Line(end') /\ Line(cur') \in Nat /\ Line(end') \in Nat
       /\ Line(cur) \in Nat
  BY <1>1, <1>3, LineGrows, LineFacts
<1>12. Base <= B
  BY <1>1, <1>3, <1>10, BaseGrows DEF Base
<1>13. B \in Nat /\ B <= Line(end')
  <2>1. clear_top <= Line(cur')
    BY <1>1, <1>11
  <2>2. B \in Nat /\ B <= Line(cur')
    BY <1>1, <1>3, <1>10, <2>1, BaseFacts
  <2> QED
    BY <1>11, <2>2
<1>14. ASSUME ~long PROVE PagesTo(B + Lines, pages')
  <2>1. Line(end) - Line(anchor) < Lines /\ PagesTo(Base + Lines, pages)
    BY <1>14 DEF VtermInv, PagesAhead
  <2>2. BaseLine(p, end, clear_top) = Base
    BY <1>1, <1>3, <2>1, BaseSame DEF Base
  <2>3. CASE B = Base
    <3>1. pages' = pages
      <4>1. TopLine(p + n, end + n, clear_top, vs) = TopLine(p, end, clear_top, vs)
        BY <1>2, <1>10, <2>2, <2>3 DEF TopLine
      <4> QED
        BY <4>1 DEF Put
    <3> QED
      BY <2>1, <2>3, <3>1
  <2>4. CASE B # Base
    <3>1. pages' = Ensured(pages, end')
      <4>1. TopLine(p + n, end + n, clear_top, vs) # TopLine(p, end, clear_top, vs)
        <5>1. TopLine(p + n, end + n, clear_top, vs) = B - vs /\ TopLine(p, end, clear_top, vs) = Base - vs
          BY <1>2, <1>10, <2>2 DEF TopLine
        <5> QED
          BY <1>1, <1>13, <2>4, <5>1
      <4> QED
        BY <1>2, <4>1 DEF Put
    <3>2. Line(end') <= Base + Lines
      <4>1. Line(end + n) <= Line(end) + 1 /\ Line(end) \in Nat
        BY <1>1, <1>3, LineStep, LineFacts
      <4> QED
        BY <1>1, <1>2, <1>11, <2>1, <4>1, SizeFacts
    <3>3. PagesTo(Line(end'), pages)
      BY <1>1, <1>11, <2>1, <3>2, PagesToLess, SizeFacts
    <3>4. PICK l : l = B + Lines
      OBVIOUS
    <3>5. l \in Nat /\ l <= Line(end') + Lines
      BY <1>11, <1>13, <3>4, SizeFacts
    <3>6. PagesTo(l, Ensured(pages, end'))
      BY <1>3, <3>3, <3>5, EnsuredFacts
    <3> QED
      BY <3>1, <3>4, <3>6
  <2> QED
    BY <2>3, <2>4
<1> QED
  BY <1>2, <1>3, <1>5, <1>6, <1>8, <1>9, <1>10, <1>12, <1>14

\* Nothing is written where there is no page, unless the line is too long.
LEMMA PagesFor ==
    ASSUME VtermInv, ~long, NEW p \in {cur, end}, NEW n \in 1..Cols
    PROVE  HavePages(p, n)
<1>1. /\ cur \in Nat /\ end \in Nat /\ cur <= end /\ Base \in Nat
      /\ Line(end) - Line(anchor) < Lines => Line(end) <= Base + Lines - 1
      /\ Line(end) \in Nat
  BY IndexFacts, LineFacts
<1>2. Line(end) - Line(anchor) < Lines /\ PagesTo(Base + Lines, pages)
  BY DEF VtermInv, PagesAhead
<1>3. ASSUME NEW i \in p..(end + n - 1) PROVE Page(i) \in pages
  <2>1. i \in Nat /\ n \in 0..Cols /\ end + n \in Nat /\ i <= end + n
    BY <1>1, SizeFacts
  <2>2. Line(i) <= Line(end + n) /\ Line(end + n) <= Line(end) + 1
    BY <1>1, <2>1, LineGrows, LineStep
  <2>3. Line(i) \in Nat /\ Line(end + n) \in Nat
    BY <2>1, LineFacts
  <2>4. PICK l : l = Base + Lines
    OBVIOUS
  <2>5. l \in Nat /\ Line(i) <= l
    BY <1>1, <1>2, <2>2, <2>3, <2>4, SizeFacts
  <2> QED
    BY <1>2, <2>1, <2>4, <2>5, PagesToCell
<1> QED
  BY <1>3 DEF HavePages

\* What is on the screen after syncScreen; s is the cursor before.
LEMMA Synced ==
    ASSUME NEW s \in Hidden..(PageSize - 1), Sync(s), cells' \in [Cells -> Char],
           cur' \in Nat, end' \in Nat, clear_top' \in Nat, v_scroll' \in Nat,
           cur' <= end', clear_top' <= Line(cur'), v_scroll' <= Base',
           v_scroll' = 0 => s # Hidden
    PROVE  /\ screen' \in [0..(PageSize - 1) -> Char \cup {Junk}]
           /\ cursor' \in Hidden..(PageSize - 1)
           /\ CursorTrue' /\ ScreenTrue'
<1>1. PICK B : B = BaseLine(cur', end', clear_top')
  OBVIOUS
<1>2. B \in Nat /\ B <= Line(cur') /\ Line(cur') <= B + Lines - 1
  BY <1>1, BaseFacts
<1>3. Base' = B
  BY <1>1 DEF Base
<1>4. PICK vs \in Nat : vs = v_scroll'
  OBVIOUS
<1>5. PICK tl : tl = B - vs
  OBVIOUS
<1>6. Top' = tl /\ TopLine(cur', end', clear_top', v_scroll') = tl
  BY <1>1, <1>4, <1>5 DEF Top, TopLine
<1>7. tl \in Int /\ (v_scroll' = 0 => tl = B)
  <2>1. B \in Nat
    BY <1>2
  <2>2. tl \in Int /\ (vs = 0 => tl = B)
    BY <1>5, <2>1
  <2> QED
    BY <1>4, <2>2
<1>8. screen' = View(cells', pages', tl) /\ cursor' = Updated(s, cur', tl)
  BY <1>6 DEF Sync
<1>9. CursorAt(cur', tl) \in Hidden..(PageSize - 1)
  BY <1>7, CursorFacts
<1>10. v_scroll' = 0 => CursorAt(cur', tl) # Hidden
  BY <1>2, <1>7, CursorFacts
<1>11. CursorTrue'
  BY <1>6, <1>8, <1>10 DEF CursorTrue, Updated
<1>12. ScreenTrue'
  BY <1>6, <1>8 DEF ScreenTrue
<1>13. screen' \in [0..(PageSize - 1) -> Char \cup {Junk}]
  BY <1>7, <1>8, ViewFacts
<1> QED
  BY <1>8, <1>9, <1>11, <1>12, <1>13 DEF Updated

----------------------------------------------------------------------------
(* Every action keeps the invariant.                                        *)

\* The text, its pages and the line on top, in PrintTo, Type and Enter alike.
LEMMA PutKeeps ==
    ASSUME VtermInv, NEW c \in Char, NEW n \in 1..Cols, NEW p \in {cur, end},
           Put(c, n, p, v_scroll'), v_scroll' \in Nat, v_scroll' <= v_scroll, Aged,
           UNCHANGED <<clear_top, fault>>,
           anchor' = cur' \/ (anchor' = anchor /\ p = cur /\ c # Blank)
    PROVE  /\ cells' \in [Cells -> Char] /\ {0, 1} \subseteq pages' /\ pages' \subseteq Nat
           /\ {anchor', cur', end', clear_top', v_scroll'} \subseteq Nat
           /\ anchor' <= cur' /\ cur' <= end' /\ end' <= MaxEnd
           /\ long' \in BOOLEAN /\ fault' \in {"none", "page", "before"}
           /\ LineKept' /\ ViewKept' /\ PagesAhead'
           /\ clear_top' <= Line(cur')
           /\ anchor <= anchor' /\ \A i \in Cells : i < anchor => cells'[i] = cells[i]
<1>1. /\ anchor \in Nat /\ cur \in Nat /\ end \in Nat /\ clear_top \in Nat /\ v_scroll \in Nat
      /\ anchor <= cur /\ cur <= end /\ end <= MaxEnd
      /\ clear_top <= Line(anchor) /\ clear_top <= Line(cur) /\ Base \in Nat
  BY IndexFacts
<1>2. /\ cells' \in [Cells -> Char] /\ cur' = p + n /\ end' = end + n
      /\ cur' \in Nat /\ end' \in Nat /\ cur' <= end' /\ end' <= MaxEnd
      /\ pages \subseteq pages' /\ pages' \subseteq Nat
      /\ \A i \in Cells : /\ i < p => cells'[i] = cells[i]
                          /\ i >= p /\ i < p + n => cells'[i] = c
                          /\ i >= p + n /\ i < end + n => cells'[i] = cells[i - n]
                          /\ i >= end + n => cells'[i] = Blank
      /\ \A i \in Nat : i >= p /\ i < end + n => Page(i) \in pages'
      /\ Base <= BaseLine(cur', end', clear_top)
      /\ ~long => PagesTo(BaseLine(cur', end', clear_top) + Lines, pages')
  <2>1. PICK vs \in Nat : vs = v_scroll'
    OBVIOUS
  <2>2. Put(c, n, p, vs)
    BY <2>1
  <2> QED
    BY <2>2, PutFacts
<1>3. n \in Nat /\ n >= 1 /\ p \in Nat /\ cur <= p /\ p <= end
  BY <1>1, SizeFacts
<1>4. anchor' \in Nat /\ anchor <= anchor' /\ anchor' <= cur'
  BY <1>1, <1>2, <1>3
<1>5. LineKept'
  <2>1. \A i \in Cells : i >= anchor /\ i < end => cells[i] # Blank
    BY DEF VtermInv, LineKept
  <2>2. ASSUME NEW i \in Cells, i >= anchor', i < end' PROVE cells'[i] # Blank
    <3>1. i \in Nat /\ i < MaxEnd
      BY SizeFacts DEF Cells
    <3>2. i < p => i >= anchor /\ i < end
      BY <1>1, <1>3, <1>4, <2>2, <3>1
    <3>3. i >= p + n => i - n \in Cells /\ i - n >= anchor /\ i - n < end
      BY <1>1, <1>2, <1>3, <2>2, <3>1, SizeFacts DEF Cells
    <3>4. i >= p /\ i < p + n => c # Blank
      BY <1>1, <1>2, <1>3, <2>2, <3>1
    <3>5. i < p => cells'[i] # Blank
      BY <1>2, <2>1, <3>2
    <3>6. i >= p + n => cells'[i] # Blank
      BY <1>2, <2>1, <2>2, <3>3
    <3>7. i >= p /\ i < p + n => cells'[i] # Blank
      BY <1>2, <3>4
    <3> QED
      BY <1>3, <3>1, <3>5, <3>6, <3>7
  <2>3. ASSUME NEW i \in Cells, i >= end' PROVE cells'[i] = Blank
    BY <1>2, <2>3
  <2>4. ASSUME NEW i \in Nat, i >= anchor', i < end' PROVE Page(i) \in pages'
    <3>1. CASE i >= p
      BY <1>2, <2>4, <3>1
    <3>2. CASE i < p
      <4>1. i >= anchor /\ i < end
        BY <1>1, <1>3, <1>4, <2>4, <3>2
      <4> QED
        BY <1>2, <4>1 DEF VtermInv, LineKept
    <3> QED
      BY <1>3, <3>1, <3>2
  <2> QED
    BY <2>2, <2>3, <2>4 DEF LineKept
<1>6. clear_top <= Line(anchor') /\ clear_top <= Line(cur')
  <2>1. /\ Line(anchor) <= Line(anchor') /\ Line(anchor') <= Line(cur')
        /\ Line(anchor) \in Nat /\ Line(anchor') \in Nat /\ Line(cur') \in Nat
    BY <1>1, <1>2, <1>4, LineGrows, LineFacts
  <2> QED
    BY <1>1, <2>1
<1>7. PICK B : B = BaseLine(cur', end', clear_top)
  OBVIOUS
<1>8. Base' = B
  BY <1>7 DEF Base
<1>9. B \in Nat
  BY <1>1, <1>2, <1>6, <1>7, BaseFacts
<1>10. ViewKept'
  <2>1. v_scroll <= Base
    BY DEF VtermInv, ViewKept
  <2>2. v_scroll' <= B
    BY <1>1, <1>2, <1>7, <1>9, <2>1
  <2> QED
    BY <1>6, <1>8, <2>2 DEF ViewKept
<1>11. PagesAhead'
  <2>1. ASSUME ~long'
        PROVE  /\ Line(end') - Line(anchor') < Lines
               /\ PagesTo(B + Lines, pages')
               /\ fault' # "page"
    <3>1. ~long /\ ~(Line(end') - Line(anchor') >= Lines)
      BY <2>1 DEF Aged
    <3>2. Line(end') \in Nat /\ Line(anchor') \in Nat
      BY <1>2, <1>4, LineFacts
    <3> QED
      BY <1>2, <1>7, <3>1, <3>2, SizeFacts DEF VtermInv, PagesAhead
  <2> QED
    BY <1>8, <2>1 DEF PagesAhead
<1>12. long' \in BOOLEAN /\ fault' \in {"none", "page", "before"} /\ {0, 1} \subseteq pages'
  BY <1>2 DEF VtermInv, TypeOK, Aged
<1>13. \A i \in Cells : i < anchor => cells'[i] = cells[i]
  BY <1>1, <1>2, <1>3 DEF Cells
<1> QED
  BY <1>1, <1>2, <1>4, <1>5, <1>6, <1>10, <1>11, <1>12, <1>13

\* A character typed is none that could end the line.
LEMMA TypeKeeps ==
    ASSUME VtermInv, NEW c \in Keys, Type(c)
    PROVE  VtermInv' /\ anchor <= anchor' /\ \A i \in Cells : i < anchor => cells'[i] = cells[i]
<1>1. c \in Char /\ c # Blank /\ 0 \in Nat /\ 1 \in 1..Cols
  BY VtermAssumption, SizeFacts DEF Char, Blank, Space, Letter
<1>2. /\ onScreen /\ onScreen' /\ Put(c, 1, cur, v_scroll') /\ v_scroll' = 0 /\ v_scroll' <= v_scroll
      /\ Aged /\ UNCHANGED <<clear_top, fault>> /\ anchor' = anchor /\ Sync(BottomCursor)
  BY IndexFacts DEF Type, ToBottom, Key
<1>3. /\ cells' \in [Cells -> Char] /\ {0, 1} \subseteq pages' /\ pages' \subseteq Nat
      /\ {anchor', cur', end', clear_top', v_scroll'} \subseteq Nat
      /\ anchor' <= cur' /\ cur' <= end' /\ end' <= MaxEnd
      /\ long' \in BOOLEAN /\ fault' \in {"none", "page", "before"}
      /\ LineKept' /\ ViewKept' /\ PagesAhead'
      /\ clear_top' <= Line(cur')
      /\ anchor <= anchor' /\ \A i \in Cells : i < anchor => cells'[i] = cells[i]
  BY <1>1, <1>2, PutKeeps
<1>4. BottomCursor \in Hidden..(PageSize - 1) /\ BottomCursor # Hidden
  BY <1>2, BottomFacts
<1>5. /\ screen' \in [0..(PageSize - 1) -> Char \cup {Junk}]
      /\ cursor' \in Hidden..(PageSize - 1)
      /\ CursorTrue' /\ ScreenTrue'
  <2>1. v_scroll' <= Base'
    BY <1>3 DEF ViewKept
  <2>2. cur' \in Nat /\ end' \in Nat /\ clear_top' \in Nat /\ v_scroll' \in Nat
    BY <1>3
  <2> QED
    BY <1>2, <1>3, <1>4, <2>1, <2>2, Synced
<1> QED
  BY <1>2, <1>3, <1>5 DEF VtermInv, TypeOK, Char

\* After Enter nothing of the line can be edited.
LEMMA EnterKeeps ==
    ASSUME VtermInv, Enter
    PROVE  VtermInv' /\ anchor <= anchor' /\ \A i \in Cells : i < anchor => cells'[i] = cells[i]
<1>1. Blank \in Char /\ RestOfLine(end) \in 1..Cols
  BY IndexFacts, RestFacts DEF Char
<1>2. /\ onScreen /\ onScreen' /\ Put(Blank, RestOfLine(end), end, v_scroll')
      /\ v_scroll' = v_scroll /\ v_scroll' \in Nat /\ v_scroll' <= v_scroll
      /\ Aged /\ UNCHANGED <<clear_top, fault>> /\ anchor' = cur' /\ Sync(cursor)
  BY IndexFacts DEF Enter, Key
<1>3. /\ cells' \in [Cells -> Char] /\ {0, 1} \subseteq pages' /\ pages' \subseteq Nat
      /\ {anchor', cur', end', clear_top', v_scroll'} \subseteq Nat
      /\ anchor' <= cur' /\ cur' <= end' /\ end' <= MaxEnd
      /\ long' \in BOOLEAN /\ fault' \in {"none", "page", "before"}
      /\ LineKept' /\ ViewKept' /\ PagesAhead'
      /\ clear_top' <= Line(cur')
      /\ anchor <= anchor' /\ \A i \in Cells : i < anchor => cells'[i] = cells[i]
  BY <1>1, <1>2, PutKeeps
<1>4. cursor \in Hidden..(PageSize - 1) /\ (v_scroll' = 0 => cursor # Hidden)
  BY <1>2 DEF VtermInv, TypeOK, CursorTrue
<1>5. /\ screen' \in [0..(PageSize - 1) -> Char \cup {Junk}]
      /\ cursor' \in Hidden..(PageSize - 1)
      /\ CursorTrue' /\ ScreenTrue'
  <2>1. v_scroll' <= Base'
    BY <1>3 DEF ViewKept
  <2>2. cur' \in Nat /\ end' \in Nat /\ clear_top' \in Nat /\ v_scroll' \in Nat
    BY <1>3
  <2> QED
    BY <1>2, <1>3, <1>4, <2>1, <2>2, Synced
<1> QED
  BY <1>2, <1>3, <1>5 DEF VtermInv, TypeOK, Char

\* A process prints, with the terminal on screen or not.
LEMMA PrintKeeps ==
    ASSUME VtermInv, PrintTo
    PROVE  VtermInv' /\ anchor <= anchor' /\ \A i \in Cells : i < anchor => cells'[i] = cells[i]
<1>1. /\ v_scroll' = v_scroll /\ v_scroll' \in Nat /\ v_scroll' <= v_scroll
      /\ UNCHANGED <<clear_top, fault, onScreen>> /\ anchor' = cur' /\ Aged
      /\ IF onScreen THEN Sync(cursor) ELSE UNCHANGED <<screen, cursor>>
  BY IndexFacts DEF PrintTo
<1>2. /\ cells' \in [Cells -> Char] /\ {0, 1} \subseteq pages' /\ pages' \subseteq Nat
      /\ {anchor', cur', end', clear_top', v_scroll'} \subseteq Nat
      /\ anchor' <= cur' /\ cur' <= end' /\ end' <= MaxEnd
      /\ long' \in BOOLEAN /\ fault' \in {"none", "page", "before"}
      /\ LineKept' /\ ViewKept' /\ PagesAhead'
      /\ clear_top' <= Line(cur')
      /\ anchor <= anchor' /\ \A i \in Cells : i < anchor => cells'[i] = cells[i]
  <2>1. CASE \E c \in Char, n \in 1..Cols : Put(c, n, cur, v_scroll)
    <3>1. PICK c \in Char, n \in 1..Cols : Put(c, n, cur, v_scroll')
      BY <1>1, <2>1
    <3> QED
      BY <1>1, <3>1, PutKeeps
  <2>2. CASE UNCHANGED <<cells, cur, end, pages>>
    <3>1. /\ anchor \in Nat /\ cur \in Nat /\ end \in Nat /\ clear_top \in Nat
          /\ anchor <= cur /\ cur <= end /\ end <= MaxEnd
          /\ clear_top <= Line(anchor) /\ clear_top <= Line(cur)
      BY IndexFacts
    <3>2. /\ Line(anchor) <= Line(cur) /\ Line(anchor) \in Nat /\ Line(cur) \in Nat
          /\ Line(end) \in Nat
      BY <3>1, LineGrows, LineFacts
    <3>3. LineKept'
      <4>1. ASSUME NEW i \in Cells, i >= cur, i < end PROVE cells[i] # Blank
        <5>1. i \in Nat /\ i >= anchor
          BY <3>1, <4>1, SizeFacts DEF Cells
        <5> QED
          BY <4>1, <5>1 DEF VtermInv, LineKept
      <4>2. ASSUME NEW i \in Nat, i >= cur, i < end PROVE Page(i) \in pages
        <5>1. i >= anchor
          BY <3>1, <4>2
        <5> QED
          BY <4>2, <5>1 DEF VtermInv, LineKept
      <4> QED
        BY <1>1, <2>2, <4>1, <4>2 DEF VtermInv, LineKept
    <3>4. Base' = Base
      BY <1>1, <2>2 DEF Base
    <3>5. ViewKept'
      BY <1>1, <2>2, <3>1, <3>4 DEF VtermInv, ViewKept
    <3>6. PagesAhead'
      <4>1. ~long' => ~long /\ Line(end') - Line(anchor') < Lines
        <5>1. Line(end') \in Nat /\ Line(anchor') \in Nat
          BY <1>1, <2>2, <3>2
        <5>2. ~long' => ~long /\ ~(Line(end') - Line(anchor') >= Lines)
          BY <1>1 DEF Aged
        <5> QED
          BY <5>1, <5>2, SizeFacts
      <4> QED
        BY <1>1, <2>2, <3>4, <4>1 DEF VtermInv, PagesAhead
    <3>7. anchor <= anchor' /\ long' \in BOOLEAN
      BY <1>1, <2>2, <3>1 DEF Aged, VtermInv, TypeOK
    <3> QED
      BY <1>1, <2>2, <3>1, <3>3, <3>5, <3>6, <3>7 DEF VtermInv, TypeOK, Char
  <2> QED
    <3>1. Printed \in Char /\ 1 \in 1..Cols /\ Blank \in Char /\ RestOfLine(cur) \in 1..Cols
      BY IndexFacts, RestFacts, SizeFacts DEF Char
    <3> QED
      BY <2>1, <2>2, <3>1 DEF PrintTo
<1>3. /\ screen' \in [0..(PageSize - 1) -> Char \cup {Junk}]
      /\ cursor' \in Hidden..(PageSize - 1)
      /\ CursorTrue' /\ ScreenTrue'
  <2>1. CASE onScreen
    <3>1. cursor \in Hidden..(PageSize - 1) /\ (v_scroll' = 0 => cursor # Hidden)
      BY <1>1, <2>1 DEF VtermInv, TypeOK, CursorTrue
    <3>2. v_scroll' <= Base' /\ Sync(cursor)
      BY <1>1, <1>2, <2>1 DEF ViewKept
    <3>3. cur' \in Nat /\ end' \in Nat /\ clear_top' \in Nat /\ v_scroll' \in Nat
      BY <1>2
    <3> QED
      BY <1>2, <3>1, <3>2, <3>3, Synced
  <2>2. CASE ~onScreen
    BY <1>1, <2>2 DEF VtermInv, TypeOK, CursorTrue, ScreenTrue, Char
  <2> QED
    BY <2>1, <2>2
<1> QED
  BY <1>1, <1>2, <1>3 DEF VtermInv, TypeOK, Char

\* What is taken out of the line lies between anchor and end, and nothing of
\* what is left moves out of it.
LEMMA TakeOutKeeps ==
    ASSUME VtermInv, NEW a \in anchor..end, NEW b \in a..end, a <= cur, cur <= b, TakeOut(a, b)
    PROVE  VtermInv' /\ anchor <= anchor' /\ \A i \in Cells : i < anchor => cells'[i] = cells[i]
<1>1. /\ anchor \in Nat /\ cur \in Nat /\ end \in Nat /\ clear_top \in Nat
      /\ anchor <= cur /\ cur <= end /\ end <= MaxEnd
      /\ clear_top <= Line(anchor) /\ a \in Nat /\ b \in Nat /\ a <= b /\ b <= end /\ anchor <= a
  BY IndexFacts
<1>2. PICK n \in Nat : n = b - a
  BY <1>1
<1>3. /\ onScreen /\ onScreen' /\ v_scroll' = 0 /\ UNCHANGED <<clear_top, fault, pages, anchor, long>>
      /\ cells' = Removed(a, b) /\ end' = end - n /\ cur' = a
  BY <1>2 DEF TakeOut, ToBottom, Key
<1>4. cur' \in Nat /\ end' \in Nat /\ cur' <= end' /\ end' <= end /\ anchor <= cur'
  BY <1>1, <1>2, <1>3
<1>5. /\ cells \in [Cells -> Char]
      /\ \A i \in Cells : i >= anchor /\ i < end => cells[i] # Blank
      /\ \A i \in Cells : i >= end => cells[i] = Blank
      /\ \A i \in Nat : i >= anchor /\ i < end => Page(i) \in pages
      /\ Blank \in Char
  BY DEF VtermInv, TypeOK, LineKept, Char
<1>6. ASSUME NEW i \in Cells
      PROVE  /\ i \in Nat
             /\ i < a => cells'[i] = cells[i]
             /\ i >= a /\ i < end' => i + n \in Cells /\ cells'[i] = cells[i + n]
             /\ i >= end' => cells'[i] = Blank
  <2>1. i \in Nat
    BY SizeFacts DEF Cells
  <2>2. cells'[i] = IF i < a \/ i >= end THEN cells[i]
                    ELSE IF i < end - n THEN cells[i + n] ELSE Blank
    BY <1>2, <1>3 DEF Removed
  <2>3. i < end' => i + n \in Cells
    BY <1>1, <1>2, <1>3, <2>1, SizeFacts DEF Cells
  <2>4. i >= end => cells[i] = Blank
    BY <1>5
  <2> QED
    BY <1>1, <1>2, <1>3, <2>1, <2>2, <2>3, <2>4
<1>7. cells' \in [Cells -> Char]
  <2>1. ASSUME NEW i \in Cells PROVE cells'[i] \in Char
    BY <1>1, <1>4, <1>5, <1>6
  <2>2. cells' = [i \in Cells |-> cells'[i]]
    BY <1>3 DEF Removed
  <2> QED
    BY <2>1, <2>2
<1>8. LineKept'
  <2>1. ASSUME NEW i \in Cells, i >= anchor, i < end' PROVE cells'[i] # Blank
    <3>1. i \in Nat /\ i < end
      BY <1>1, <1>4, <1>6, <2>1
    <3>2. CASE i < a
      BY <1>5, <1>6, <2>1, <3>1, <3>2
    <3>3. CASE i >= a
      <4>1. i + n \in Cells /\ cells'[i] = cells[i + n]
        BY <1>6, <2>1, <3>3
      <4>2. i + n >= anchor /\ i + n < end
        BY <1>1, <1>2, <1>3, <2>1, <3>1
      <4> QED
        BY <1>5, <4>1, <4>2
    <3> QED
      BY <1>1, <3>1, <3>2, <3>3
  <2>2. ASSUME NEW i \in Cells, i >= end' PROVE cells'[i] = Blank
    BY <1>6, <2>2
  <2>3. ASSUME NEW i \in Nat, i >= anchor, i < end' PROVE Page(i) \in pages
    <3>1. i < end
      BY <1>1, <1>4, <2>3
    <3> QED
      BY <1>5, <2>3, <3>1
  <2> QED
    BY <1>3, <2>1, <2>2, <2>3 DEF LineKept
<1>9. /\ Line(anchor) <= Line(cur') /\ Line(anchor) \in Nat /\ Line(cur') \in Nat
      /\ Line(end') <= Line(end) /\ Line(end') \in Nat /\ Line(end) \in Nat /\ Line(cur') <= Line(end')
      /\ Line(cur') <= Line(cur) /\ Line(cur) \in Nat
  <2>1. cur' <= cur
    BY <1>3
  <2> QED
    BY <1>1, <1>4, <2>1, LineGrows, LineFacts
<1>10. clear_top' \in Nat /\ clear_top' <= Line(cur') /\ clear_top' <= Line(anchor')
  BY <1>1, <1>3, <1>9
<1>11. PICK B : B = BaseLine(cur', end', clear_top)
  OBVIOUS
<1>12. B \in Nat /\ Base' = B
  BY <1>1, <1>3, <1>4, <1>10, <1>11, BaseFacts DEF Base
<1>13. ViewKept'
  BY <1>3, <1>10, <1>12 DEF ViewKept
<1>14. PagesAhead'
  <2>1. ASSUME ~long
        PROVE  /\ Line(end') - Line(anchor) < Lines
               /\ PagesTo(B + Lines, pages)
               /\ fault # "page"
    <3>1. Line(end) - Line(anchor) < Lines /\ PagesTo(Base + Lines, pages) /\ fault # "page"
      BY <2>1 DEF VtermInv, PagesAhead
    <3>2. B <= Base
      <4>1. BaseLine(a, end', clear_top) <= BaseLine(cur, end, clear_top)
        <5>1. a <= end' /\ clear_top <= Line(a) /\ a <= cur
          BY <1>3, <1>4, <1>10
        <5> QED
          BY <1>1, <1>4, <5>1, BaseGrows
      <4> QED
        BY <1>3, <1>11, <4>1 DEF Base
    <3>3. Base \in Nat
      BY IndexFacts
    <3>4. PICK l, k : l = Base + Lines /\ k = B + Lines
      OBVIOUS
    <3>5. l \in Nat /\ k \in Nat /\ k <= l
      BY <1>12, <3>2, <3>3, <3>4, SizeFacts
    <3>6. PagesTo(k, pages)
      BY <3>1, <3>4, <3>5, PagesToLess
    <3> QED
      BY <1>9, <3>1, <3>4, <3>6, SizeFacts
  <2> QED
    BY <1>3, <1>12, <2>1 DEF PagesAhead
<1>15. /\ BottomCursor \in Hidden..(PageSize - 1) /\ BottomCursor # Hidden
       /\ BottomCursor = CursorAt(cur, Base)
       /\ BottomScreen \in [0..(PageSize - 1) -> Char \cup {Junk}]
       /\ Line(end) - Line(anchor) < Lines => BottomScreen = View(cells, pages, Base)
  BY <1>3, BottomFacts
<1>16. /\ screen' \in [0..(PageSize - 1) -> Char \cup {Junk}]
       /\ cursor' \in Hidden..(PageSize - 1)
       /\ CursorTrue' /\ ScreenTrue'
  <2>1. CASE a = b
    <3>1. /\ cells' = cells /\ end' = end /\ cur' = cur
          /\ screen' = BottomScreen /\ cursor' = BottomCursor
      <4>1. n = 0 /\ a = cur
        BY <1>1, <1>2, <2>1
      <4>2. end' = end
        BY <1>1, <1>3, <4>1
      <4>3. ASSUME NEW i \in Cells PROVE cells'[i] = cells[i]
        <5>1. i \in Nat /\ i + n = i
          BY <1>6, <4>1
        <5>2. i >= end' => cells'[i] = Blank /\ cells[i] = Blank
          BY <1>5, <1>6, <4>2
        <5>3. i >= a /\ i < end' => cells'[i] = cells[i]
          BY <1>6, <5>1
        <5>4. i < a => cells'[i] = cells[i]
          BY <1>6
        <5> QED
          BY <1>1, <1>4, <5>1, <5>2, <5>3, <5>4
      <4>4. cells' = cells
        BY <1>5, <1>7, <4>3
      <4> QED
        BY <1>3, <2>1, <4>1, <4>2, <4>4 DEF TakeOut
    <3>2. Top' = Base /\ Base \in Nat
      <4>1. Top' = B - 0
        BY <1>3, <1>11 DEF Top, TopLine
      <4>2. B = Base
        BY <1>11, <3>1 DEF Base
      <4> QED
        BY <1>12, <4>1, <4>2
    <3> QED
      BY <1>3, <1>15, <3>1, <3>2 DEF CursorTrue, ScreenTrue
  <2>2. CASE a # b
    <3>1. Sync(BottomCursor)
      BY <2>2 DEF TakeOut
    <3>2. v_scroll' <= Base' /\ v_scroll' \in Nat
      BY <1>3, <1>12
    <3> QED
      BY <1>4, <1>7, <1>10, <1>15, <3>1, <3>2, Synced
  <2> QED
    BY <2>1, <2>2
<1> QED
  <2>1. \A i \in Cells : i < anchor => cells'[i] = cells[i]
    BY <1>1, <1>6
  <2>2. end' <= MaxEnd
    BY <1>1, <1>4, SizeFacts
  <2>3. /\ anchor' <= cur' /\ anchor <= anchor'
        /\ {anchor', cur', end', clear_top', v_scroll'} \subseteq Nat
    BY <1>1, <1>3, <1>4
  <2>4. TypeOK'
    BY <1>3, <1>4, <1>7, <1>16, <2>2, <2>3 DEF VtermInv, TypeOK, Char
  <2> QED
    BY <1>8, <1>13, <1>14, <1>16, <2>1, <2>3, <2>4 DEF VtermInv

\* The edit point moves in the line only, so that the screen need not change.
LEMMA MoveKeeps ==
    ASSUME VtermInv, NEW c \in anchor..end, MoveTo(c)
    PROVE  VtermInv' /\ UNCHANGED <<anchor, cells>>
<1>1. /\ anchor \in Nat /\ cur \in Nat /\ end \in Nat /\ clear_top \in Nat
      /\ anchor <= cur /\ cur <= end /\ end <= MaxEnd
      /\ clear_top <= Line(anchor) /\ c \in Nat /\ anchor <= c /\ c <= end
  BY IndexFacts
<1>2. /\ onScreen /\ onScreen' /\ v_scroll' = 0
      /\ UNCHANGED <<clear_top, fault, cells, pages, anchor, end, long>>
      /\ cur' = c /\ screen' = BottomScreen
  BY DEF MoveTo, ToBottom, Key
<1>3. clear_top <= Line(c)
  <2>1. Line(anchor) \in Nat /\ Line(c) \in Nat /\ Line(anchor) <= Line(c)
    BY <1>1, LineFacts, LineGrows
  <2> QED
    BY <1>1, <2>1
<1>4. PICK B : B = BaseLine(c, end, clear_top)
  OBVIOUS
<1>5. B \in Nat /\ B <= Line(c) /\ Line(c) <= B + Lines - 1
  BY <1>1, <1>3, <1>4, BaseFacts
<1>6. Base' = B /\ TopLine(c, end, clear_top, 0) = B /\ Top' = B
  <2>1. B - 0 = B
    BY <1>5
  <2> QED
    BY <1>2, <1>4, <2>1 DEF Base, Top, TopLine
<1>7. Line(end) - Line(anchor) < Lines => B = Base
  BY <1>1, <1>4, BaseSame DEF Base
<1>8. CursorAt(c, B) \in Hidden..(PageSize - 1) /\ CursorAt(c, B) # Hidden
  BY <1>1, <1>5, CursorFacts
<1>9. /\ BottomCursor = CursorAt(cur, Base) /\ BottomCursor # Hidden
      /\ BottomScreen \in [0..(PageSize - 1) -> Char \cup {Junk}]
      /\ Line(end) - Line(anchor) < Lines => BottomScreen = View(cells, pages, Base)
  BY <1>2, BottomFacts
<1>10. cursor' = CursorAt(c, B)
  <2>1. CASE c = cur
    BY <1>4, <1>9, <2>1 DEF MoveTo, Base
  <2>2. CASE c # cur
    BY <1>6, <1>9, <2>2 DEF MoveTo, Updated
  <2> QED
    BY <2>1, <2>2
<1>11. CursorTrue' /\ ScreenTrue'
  BY <1>2, <1>6, <1>7, <1>8, <1>9, <1>10 DEF CursorTrue, ScreenTrue
<1>12. LineKept'
  BY <1>2 DEF VtermInv, LineKept
<1>13. ViewKept'
  BY <1>1, <1>2, <1>5, <1>6 DEF ViewKept
<1>14. PagesAhead'
  BY <1>2, <1>6, <1>7 DEF VtermInv, PagesAhead
<1>15. TypeOK'
  BY <1>1, <1>2, <1>8, <1>9, <1>10 DEF VtermInv, TypeOK, Char
<1> QED
  BY <1>2, <1>11, <1>12, <1>13, <1>14, <1>15 DEF VtermInv

\* The text stays as it is when only the view changes.
LEMMA ViewKeeps ==
    ASSUME VtermInv, UNCHANGED <<text, fault, long>>, v_scroll' \in Nat, clear_top' \in Nat,
           clear_top' <= Line(anchor), v_scroll' <= Base', pages \subseteq pages', pages' \subseteq Nat,
           ~long => PagesTo(Base' + Lines, pages'), onScreen' \in BOOLEAN,
           screen' \in [0..(PageSize - 1) -> Char \cup {Junk}], cursor' \in Hidden..(PageSize - 1),
           CursorTrue', ScreenTrue'
    PROVE  VtermInv' /\ UNCHANGED <<anchor, cells>>
<1>1. UNCHANGED <<cells, anchor, cur, end, fault, long>>
  BY DEF text
<1>2. LineKept'
  BY <1>1 DEF VtermInv, LineKept
<1>3. ViewKept'
  BY <1>1 DEF ViewKept
<1>4. PagesAhead'
  BY <1>1 DEF VtermInv, PagesAhead
<1>5. TypeOK'
  BY <1>1 DEF VtermInv, TypeOK, Char
<1> QED
  BY <1>1, <1>2, <1>3, <1>4, <1>5 DEF VtermInv

\* The pages that ensurePages adds serve any view of the text.
LEMMA ClearPages ==
    ASSUME VtermInv, ~long, NEW ct \in Nat, ct <= Line(anchor)
    PROVE  PagesTo(BaseLine(cur, end, ct) + Lines, Ensured(pages, end))
<1>1. /\ anchor \in Nat /\ cur \in Nat /\ end \in Nat /\ anchor <= cur /\ cur <= end
      /\ Base \in Nat /\ Line(cur) <= Line(end)
      /\ Line(end) - Line(anchor) < Lines => Line(end) <= Base + Lines - 1
  BY IndexFacts
<1>2. /\ Line(anchor) \in Nat /\ Line(cur) \in Nat /\ Line(end) \in Nat
      /\ Line(anchor) <= Line(cur)
  BY <1>1, LineFacts, LineGrows
<1>3. ct <= Line(cur)
  BY <1>2
<1>4. PICK l, k : l = Base + Lines /\ k = BaseLine(cur, end, ct) + Lines
  OBVIOUS
<1>5. BaseLine(cur, end, ct) \in Nat /\ BaseLine(cur, end, ct) <= Line(cur)
  BY <1>1, <1>3, BaseFacts
<1>6. l \in Nat /\ k \in Nat /\ k <= Line(end) + Lines
  BY <1>1, <1>2, <1>4, <1>5, SizeFacts
<1>7. Line(end) <= l /\ PagesTo(l, pages)
  BY <1>1, <1>2, <1>4, SizeFacts DEF VtermInv, PagesAhead
<1>8. PagesTo(Line(end), pages)
  BY <1>2, <1>6, <1>7, PagesToLess
<1>9. PagesTo(k, Ensured(pages, end))
  BY <1>1, <1>6, <1>8, EnsuredFacts
<1> QED
  BY <1>4, <1>9

\* ensurePages takes no page away.
LEMMA EnsuredMore ==
    ASSUME VtermInv
    PROVE  pages \subseteq Ensured(pages, end) /\ Ensured(pages, end) \subseteq Nat
<1>1. PICK d : d = Page(end)
  OBVIOUS
<1>2. d \in Nat /\ d + 1 \in Nat
  BY <1>1, IndexFacts, PageOfLine
<1>3. Ensured(pages, end) = pages \cup {d, d + 1}
  BY <1>1 DEF Ensured
<1> QED
  BY <1>2, <1>3 DEF VtermInv, TypeOK

\* Clear puts the line typed on top.
LEMMA ClearKeeps ==
    ASSUME VtermInv, Clear
    PROVE  VtermInv' /\ UNCHANGED <<anchor, cells>>
<1>1. /\ anchor \in Nat /\ cur \in Nat /\ end \in Nat /\ clear_top \in Nat
      /\ anchor <= cur /\ cur <= end /\ Base \in Nat /\ clear_top <= Line(anchor)
      /\ Line(anchor) \in Nat /\ Line(cur) \in Nat /\ Line(anchor) <= Line(cur)
  BY IndexFacts, LineFacts, LineGrows
<1>2. /\ onScreen /\ onScreen' /\ v_scroll' = 0 /\ UNCHANGED <<text, fault, long>>
  BY DEF Clear, Key
<1>3. UNCHANGED <<cells, anchor, cur, end, fault, long>>
  BY <1>2 DEF text
<1>4. /\ BottomCursor = CursorAt(cur, Base) /\ BottomCursor # Hidden
      /\ BottomCursor \in Hidden..(PageSize - 1)
      /\ BottomScreen \in [0..(PageSize - 1) -> Char \cup {Junk}]
      /\ Line(end) - Line(anchor) < Lines => BottomScreen = View(cells, pages, Base)
  BY <1>2, BottomFacts
<1>5. CASE Line(anchor) = Bottom
  <2>1. UNCHANGED <<clear_top, pages>> /\ screen' = BottomScreen /\ cursor' = BottomCursor
    BY <1>5 DEF Clear
  <2>2. Base' = Base
    BY <1>3, <2>1 DEF Base
  <2>3. Top' = Base
    <3>1. Top' = Base - 0
      BY <1>2, <1>3, <2>1 DEF Top, TopLine, Base
    <3> QED
      BY <1>1, <3>1
  <2>4. CursorTrue' /\ ScreenTrue'
    BY <1>2, <1>3, <1>4, <2>1, <2>3 DEF CursorTrue, ScreenTrue
  <2>5. ~long => PagesTo(Base' + Lines, pages')
    BY <2>1, <2>2 DEF VtermInv, PagesAhead
  <2>6. pages \subseteq pages' /\ pages' \subseteq Nat
    BY <2>1 DEF VtermInv, TypeOK
  <2>7. v_scroll' \in Nat /\ v_scroll' <= Base' /\ clear_top' \in Nat /\ clear_top' <= Line(anchor)
    BY <1>1, <1>2, <2>1, <2>2
  <2> QED
    BY <1>2, <1>4, <2>1, <2>4, <2>5, <2>6, <2>7, ViewKeeps
<1>6. CASE Line(anchor) # Bottom
  <2>1. clear_top' = Line(anchor) /\ pages' = Ensured(pages, end) /\ Sync(BottomCursor)
    BY <1>6 DEF Clear
  <2>2. PICK ct \in Nat : ct = Line(anchor)
    BY <1>1
  <2>3. PICK B : B = BaseLine(cur, end, ct)
    OBVIOUS
  <2>4. ct <= Line(anchor) /\ ct <= Line(cur)
    BY <1>1, <2>2
  <2>5. B \in Nat /\ Base' = B
    BY <1>1, <1>3, <2>1, <2>2, <2>3, <2>4, BaseFacts DEF Base
  <2>6. ~long => PagesTo(Base' + Lines, pages')
    <3>1. ~long => PagesTo(BaseLine(cur, end, ct) + Lines, Ensured(pages, end))
      BY <2>4, ClearPages
    <3> QED
      BY <2>1, <2>3, <2>5, <3>1
  <2>7. pages \subseteq pages' /\ pages' \subseteq Nat
    BY <2>1, EnsuredMore
  <2>8. v_scroll' \in Nat /\ v_scroll' <= Base' /\ clear_top' \in Nat /\ clear_top' <= Line(anchor)
    BY <1>2, <2>1, <2>2, <2>4, <2>5
  <2>9. cells' \in [Cells -> Char] /\ cur' \in Nat /\ end' \in Nat /\ cur' <= end' /\ clear_top' <= Line(cur')
    BY <1>1, <1>3, <2>1, <2>2, <2>4 DEF VtermInv, TypeOK, Char
  <2>10. /\ screen' \in [0..(PageSize - 1) -> Char \cup {Junk}]
         /\ cursor' \in Hidden..(PageSize - 1)
         /\ CursorTrue' /\ ScreenTrue'
    BY <1>4, <2>1, <2>8, <2>9, Synced
  <2> QED
    BY <1>2, <2>6, <2>7, <2>8, <2>10, ViewKeeps
<1> QED
  BY <1>5, <1>6

\* Scrolling and the change of terminals: the line on top stays in range, and
\* what is shown is what the indices say.
LEMMA ScrollKeeps ==
    ASSUME VtermInv, ScrollUp \/ ScrollDown \/ ShowOther \/ ShowThis
    PROVE  VtermInv' /\ UNCHANGED <<anchor, cells>>
<1>1. /\ anchor \in Nat /\ cur \in Nat /\ end \in Nat /\ clear_top \in Nat /\ v_scroll \in Nat
      /\ anchor <= cur /\ cur <= end /\ Base \in Nat
      /\ clear_top <= Line(anchor) /\ clear_top <= Line(cur)
      /\ Base <= Line(cur) /\ Line(cur) <= Base + Lines - 1
      /\ Top = Base - v_scroll /\ Top \in Nat
  BY IndexFacts
<1>2. UNCHANGED <<text, pages, clear_top, fault, long>>
  BY DEF ScrollUp, ScrollDown, ShowOther, ShowThis
<1>3. UNCHANGED <<cells, anchor, cur, end>>
  BY <1>2 DEF text
<1>4. Base' = Base
  BY <1>2, <1>3 DEF Base
<1>5. cells \in [Cells -> Char]
  BY DEF VtermInv, TypeOK, Char
<1>6. /\ v_scroll' \in Nat /\ v_scroll' <= Base
      /\ ScrollUp => v_scroll <= v_scroll'
  <2>1. ASSUME ScrollUp
        PROVE  v_scroll' \in Nat /\ v_scroll' <= Base /\ v_scroll <= v_scroll'
    <3>1. PICK n \in {1, Lines, Top} : v_scroll' = v_scroll + UpBy(n)
      BY <2>1 DEF ScrollUp
    <3>2. n \in Nat
      BY <1>1, SizeFacts
    <3>3. UpBy(n) \in Nat /\ UpBy(n) <= Top
      BY <1>1, <3>2 DEF UpBy
    <3> QED
      BY <1>1, <3>1, <3>3
  <2>2. ASSUME ScrollDown PROVE v_scroll' \in Nat /\ v_scroll' <= Base
    <3>1. PICK n \in {1, Lines, v_scroll} : v_scroll' = IF n < v_scroll THEN v_scroll - n ELSE 0
      BY <2>2 DEF ScrollDown
    <3>2. n \in Nat /\ v_scroll <= Base
      BY <1>1, SizeFacts DEF VtermInv, ViewKept
    <3> QED
      BY <1>1, <3>1, <3>2
  <2>3. ASSUME ShowOther \/ ShowThis PROVE v_scroll' \in Nat /\ v_scroll' <= Base
    BY <1>1, <2>3 DEF ShowOther, ShowThis, VtermInv, ViewKept
  <2> QED
    BY <2>1, <2>2, <2>3
<1>7. PICK vs \in Nat : vs = v_scroll'
  BY <1>6
<1>8. PICK tl : tl = Base - vs
  OBVIOUS
<1>9. tl \in Int /\ Top' = tl /\ (vs = 0 => tl = Base) /\ TopLine(cur, end, clear_top, vs) = tl
  <2>1. Top' = tl /\ TopLine(cur, end, clear_top, vs) = tl
    BY <1>2, <1>3, <1>7, <1>8 DEF Top, TopLine, Base
  <2>2. tl \in Int /\ (vs = 0 => tl = Base)
    BY <1>1, <1>8
  <2> QED
    BY <2>1, <2>2
<1>10. /\ CursorAt(cur, tl) \in Hidden..(PageSize - 1)
       /\ vs = 0 => CursorAt(cur, tl) # Hidden
  BY <1>1, <1>9, CursorFacts
<1>11. View(cells, pages, tl) \in [0..(PageSize - 1) -> Char \cup {Junk}]
  BY <1>5, <1>9, ViewFacts
<1>12. /\ onScreen' \in BOOLEAN
       /\ screen' \in [0..(PageSize - 1) -> Char \cup {Junk}]
       /\ cursor' \in Hidden..(PageSize - 1)
       /\ CursorTrue' /\ ScreenTrue'
  <2>1. CASE ScrollUp
    <3>1. onScreen /\ onScreen' /\ Sync(cursor)
      BY <2>1 DEF ScrollUp, Key
    <3>2. cursor \in Hidden..(PageSize - 1) /\ (v_scroll' = 0 => cursor # Hidden)
      BY <1>1, <1>6, <2>1, <3>1 DEF VtermInv, TypeOK, CursorTrue
    <3>3. v_scroll' <= Base' /\ cells' \in [Cells -> Char] /\ cur' \in Nat /\ end' \in Nat
          /\ clear_top' \in Nat /\ cur' <= end' /\ clear_top' <= Line(cur')
      BY <1>1, <1>2, <1>3, <1>4, <1>5, <1>6
    <3> QED
      BY <1>6, <3>1, <3>2, <3>3, Synced
  <2>2. CASE ScrollDown
    <3>1. /\ onScreen /\ onScreen'
          /\ screen' = View(cells, pages, tl) /\ cursor' = CursorAt(cur, tl)
      BY <1>7, <1>9, <2>2 DEF ScrollDown, Key
    <3> QED
      BY <1>2, <1>3, <1>7, <1>9, <1>10, <1>11, <3>1 DEF CursorTrue, ScreenTrue
  <2>3. CASE ShowOther
    <3>1. ~onScreen' /\ onScreen' \in BOOLEAN /\ cursor' = Hidden
          /\ screen' = [i \in 0..(PageSize - 1) |-> Blank]
      BY <2>3 DEF ShowOther
    <3>2. Hidden \in Hidden..(PageSize - 1)
      BY SizeFacts DEF Hidden
    <3> QED
      BY <3>1, <3>2 DEF CursorTrue, ScreenTrue, Char
  <2>4. CASE ShowThis
    <3>1. v_scroll' = v_scroll /\ Top = tl
      BY <1>1, <1>7, <1>8, <2>4 DEF ShowThis
    <3>2. onScreen' /\ screen' = View(cells, pages, tl) /\ cursor' = CursorAt(cur, tl)
      BY <2>4, <3>1 DEF ShowThis
    <3>3. onScreen' \in BOOLEAN
      BY <2>4 DEF ShowThis
    <3> QED
      BY <1>2, <1>3, <1>7, <1>9, <1>10, <1>11, <3>2, <3>3 DEF CursorTrue, ScreenTrue
  <2> QED
    BY <2>1, <2>2, <2>3, <2>4
<1>13. /\ ~long => PagesTo(Base' + Lines, pages')
       /\ pages \subseteq pages' /\ pages' \subseteq Nat
  BY <1>2, <1>4 DEF VtermInv, TypeOK, PagesAhead
<1>14. clear_top' \in Nat /\ clear_top' <= Line(anchor) /\ v_scroll' <= Base'
  BY <1>1, <1>2, <1>4, <1>6
<1> QED
  BY <1>2, <1>6, <1>12, <1>13, <1>14, ViewKeeps

\* What goes wrong: a write to a page that is not there, which takes a line
\* too long, and the look before the first cell.
LEMMA FaultKeeps ==
    ASSUME VtermInv, WriteLost \/ ReadBefore0
    PROVE  VtermInv' /\ UNCHANGED <<anchor, cells>>
<1>1. /\ UNCHANGED <<text, pages, clear_top, v_scroll, view, long>>
      /\ fault' = "before" \/ (fault' = "page" /\ WriteLost)
  BY DEF WriteLost, ReadBefore0
<1>2. UNCHANGED <<cells, anchor, cur, end, onScreen, screen, cursor>>
  BY <1>1 DEF text, view
<1>3. fault' = "page" => long
  <2>1. SUFFICES ASSUME ~long, WriteLost PROVE FALSE
    BY <1>1
  <2>2. PICK p \in {cur, end}, n \in 1..Cols : ~HavePages(p, n)
    BY <2>1 DEF WriteLost
  <2> QED
    BY <2>1, <2>2, PagesFor
<1>4. Base' = Base /\ Top' = Top
  BY <1>1, <1>2 DEF Base, Top
<1>5. TypeOK'
  BY <1>1, <1>2 DEF VtermInv, TypeOK
<1>6. LineKept'
  BY <1>1, <1>2 DEF VtermInv, LineKept
<1>7. ViewKept'
  BY <1>1, <1>2, <1>4 DEF VtermInv, ViewKept
<1>8. PagesAhead'
  BY <1>1, <1>2, <1>3, <1>4 DEF VtermInv, PagesAhead
<1>9. CursorTrue' /\ ScreenTrue'
  BY <1>1, <1>2, <1>4 DEF VtermInv, CursorTrue, ScreenTrue
<1> QED
  BY <1>2, <1>5, <1>6, <1>7, <1>8, <1>9 DEF VtermInv

----------------------------------------------------------------------------
(* The theorems.                                                            *)

\* showTerm and ensureTerm establish the invariant.
LEMMA InitKeeps ==
    ASSUME Init
    PROVE  VtermInv
<1>1. /\ cells = [i \in Cells |-> Blank] /\ pages = {0, 1} /\ anchor = 0 /\ cur = 0 /\ end = 0
      /\ clear_top = 0 /\ v_scroll = 0 /\ onScreen = TRUE /\ cursor = 0 /\ fault = "none"
      /\ screen = [i \in 0..(PageSize - 1) |-> Blank] /\ long = FALSE
  BY DEF Init
<1>2. Line(0) = 0
  BY SizeFacts DEF Line
<1>3. Base = 0
  BY <1>1, <1>2, SizeFacts DEF Base, BaseLine
<1>4. Top = 0
  <2>1. Top = 0 - 0
    BY <1>1, <1>3 DEF Top, TopLine, Base
  <2> QED
    BY <2>1
<1>5. TypeOK
  <2>1. cursor \in Hidden..(PageSize - 1)
    BY <1>1, SizeFacts DEF Hidden
  <2>2. end <= MaxEnd
    BY <1>1, SizeFacts
  <2>3. cells \in [Cells -> {Blank, Space, Letter, Printed}]
    BY <1>1
  <2>4. screen \in [0..(PageSize - 1) -> {Blank, Space, Letter, Printed, Junk}]
    BY <1>1
  <2>5. {anchor, cur, end, clear_top, v_scroll} \subseteq Nat /\ anchor <= cur /\ cur <= end
    BY <1>1
  <2>6. {0, 1} \subseteq pages /\ pages \subseteq Nat
    BY <1>1
  <2>7. onScreen \in BOOLEAN /\ long \in BOOLEAN /\ fault \in {"none", "page", "before"}
    BY <1>1
  <2> QED
    BY <2>1, <2>2, <2>3, <2>4, <2>5, <2>6, <2>7 DEF TypeOK
<1>6. LineKept
  <2>1. \A i \in Nat : ~(i >= anchor /\ i < end)
    BY <1>1
  <2>2. Cells \subseteq Nat
    BY SizeFacts DEF Cells
  <2>3. \A i \in Cells : cells[i] = Blank
    BY <1>1
  <2> QED
    BY <2>1, <2>2, <2>3 DEF LineKept
<1>7. ViewKept
  BY <1>1, <1>2, <1>3 DEF ViewKept
<1>8. PagesAhead
  <2>1. PagesTo(Lines, {0, 1})
    <3>1. Lines \div Lines = 1
      BY SizeFacts
    <3> QED
      BY <3>1 DEF PagesTo
  <2>2. 0 + Lines = Lines /\ 0 - 0 < Lines
    BY SizeFacts
  <2> QED
    BY <1>1, <1>2, <1>3, <2>1, <2>2 DEF PagesAhead
<1>9. 0 * Cols = 0
  BY SizeFacts
<1>10. CursorTrue
  <2>1. CursorAt(0, 0) = 0
    BY <1>9, SizeFacts DEF CursorAt
  <2>2. 0 # Hidden
    BY DEF Hidden
  <2> QED
    BY <1>1, <1>4, <2>1, <2>2 DEF CursorTrue
<1>11. ScreenTrue
  <2>1. View(cells, pages, 0) = screen
    <3>1. ASSUME NEW i \in 0..(PageSize - 1)
          PROVE  Page(0 * Cols + i) = 0
      BY <1>9, SizeFacts DEF Page
    <3> QED
      BY <1>1, <1>9, <3>1 DEF View
  <2> QED
    BY <1>4, <2>1 DEF ScreenTrue
<1> QED
  BY <1>5, <1>6, <1>7, <1>8, <1>10, <1>11 DEF VtermInv

\* No step undoes the invariant, changes what is left of anchor, or takes
\* anchor back.
LEMMA NextKeeps ==
    ASSUME VtermInv, [Next]_vars
    PROVE  /\ VtermInv'
           /\ anchor <= anchor'
           /\ \A i \in Cells : i < anchor => cells'[i] = cells[i]
<1>1. /\ anchor \in Nat /\ cur \in Nat /\ end \in Nat /\ anchor <= cur /\ cur <= end
  BY IndexFacts
<1> DEFINE Done == /\ VtermInv' /\ anchor <= anchor'
                   /\ \A i \in Cells : i < anchor => cells'[i] = cells[i]
<1> SUFFICES Done
  OBVIOUS
<1>2. VtermInv' /\ UNCHANGED <<anchor, cells>> => Done
  BY <1>1
<1>3. ASSUME NEW a \in anchor..cur, TakeOut(a, cur) PROVE Done
  BY <1>1, <1>3, TakeOutKeeps
<1>4. ASSUME NEW b \in cur..end, TakeOut(cur, b) PROVE Done
  BY <1>1, <1>4, TakeOutKeeps
<1>5. ASSUME NEW c \in anchor..end, MoveTo(c) PROVE Done
  BY <1>2, <1>5, MoveKeeps
<1> HIDE DEF Done
<1>6. /\ Left \in anchor..cur /\ Right \in cur..end
      /\ WordLeft \in anchor..cur /\ WordRight \in cur..end
  BY PointFacts
<1>7. CASE PrintTo \/ Enter \/ \E c \in Keys : Type(c)
  BY <1>7, PrintKeeps, EnterKeeps, TypeKeeps DEF Done
<1>8. CASE WriteLost \/ ReadBefore0
  BY <1>2, <1>8, FaultKeeps
<1>9. CASE CursorMove \/ CursorHome \/ CursorEnd \/ WordMove
  <2>1. /\ Left \in anchor..end /\ Right \in anchor..end /\ anchor \in anchor..end
        /\ end \in anchor..end /\ WordLeft \in anchor..end /\ WordRight \in anchor..end
    BY <1>1, <1>6
  <2> QED
    BY <1>5, <1>9, <2>1 DEF CursorMove, CursorHome, CursorEnd, WordMove
<1>10. CASE Backspace \/ Delete \/ DeleteWord \/ ClearCurToAnchor \/ ClearCurToEnd
  <2>1. anchor \in anchor..cur /\ end \in cur..end
    BY <1>1
  <2> QED
    BY <1>3, <1>4, <1>6, <1>10, <2>1
    DEF Backspace, Delete, DeleteWord, ClearCurToAnchor, ClearCurToEnd
<1>11. CASE Clear
  BY <1>2, <1>11, ClearKeeps
<1>12. CASE ScrollUp \/ ScrollDown \/ ShowOther \/ ShowThis
  BY <1>2, <1>12, ScrollKeeps
<1>13. CASE UNCHANGED vars
  <2>1. UNCHANGED <<cells, pages, anchor, cur, end, clear_top, v_scroll, onScreen, screen, cursor, fault, long>>
    BY <1>13 DEF vars, text, view
  <2>2. Base' = Base /\ Top' = Top
    BY <2>1 DEF Base, Top
  <2>3. TypeOK' /\ LineKept'
    BY <2>1 DEF VtermInv, TypeOK, LineKept
  <2>4. ViewKept' /\ PagesAhead' /\ CursorTrue' /\ ScreenTrue'
    BY <2>1, <2>2 DEF VtermInv, ViewKept, PagesAhead, CursorTrue, ScreenTrue
  <2> QED
    BY <1>2, <2>1, <2>3, <2>4 DEF VtermInv
<1> QED
  BY <1>7, <1>8, <1>9, <1>10, <1>11, <1>12, <1>13 DEF Next, Done

\* The invariant holds throughout.
THEOREM Invariance == Spec => []VtermInv
<1>1. VtermInv /\ [Next]_vars => VtermInv'
  BY NextKeeps
<1> QED
  BY InitKeeps, <1>1, PTL DEF Spec

\* The indices of a terminal stay in order and within the text.
THEOREM Typed == Spec => []TypeOK
<1>1. VtermInv => TypeOK
  BY DEF VtermInv
<1> QED
  BY Invariance, <1>1, PTL

\* What gotInput and printColorTo leave on screen is what the indices say, as
\* long as the line typed is not longer than the screen.
THEOREM Screen == Spec => []ScreenTrue
<1>1. VtermInv => ScreenTrue
  BY DEF VtermInv
<1> QED
  BY Invariance, <1>1, PTL

\* The cursor is seen where the edit point is, and seen whenever nothing is
\* scrolled.
THEOREM Cursor == Spec => []CursorTrue
<1>1. VtermInv => CursorTrue
  BY DEF VtermInv
<1> QED
  BY Invariance, <1>1, PTL

\* The line on top is never above the first, and unscrolled the edit point is
\* on the screen.
THEOREM TopShown == Spec => []TopInRange
<1>1. VtermInv => TopInRange
  <2> SUFFICES ASSUME VtermInv PROVE TopInRange
    OBVIOUS
  <2>1. /\ cur \in Nat /\ Base \in Nat /\ Base <= Line(cur) /\ Line(cur) <= Base + Lines - 1
        /\ Top = Base - v_scroll /\ Top \in Nat
    BY IndexFacts
  <2>2. v_scroll = 0 => Top = Base
    BY <2>1
  <2>3. CursorAt(cur, Base) # Hidden
    BY <2>1, CursorFacts
  <2> QED
    BY <2>1, <2>2, <2>3 DEF TopInRange
<1> QED
  BY Invariance, <1>1, PTL

\* Pages are added before they are needed, though only when the line on top
\* changes.
THEOREM Pages == Spec => []PagesThere
<1>1. VtermInv => PagesThere
  <2> SUFFICES ASSUME VtermInv, ~long
               PROVE  fault # "page" /\ \A i \in 0..(PageSize - 1) : Page(Top * Cols + i) \in pages
    BY DEF PagesThere, Top
  <2>1. fault # "page" /\ PagesTo(Base + Lines, pages)
    BY DEF VtermInv, PagesAhead
  <2>2. Base \in Nat /\ v_scroll \in Nat /\ Top = Base - v_scroll /\ Top \in Nat
    BY IndexFacts
  <2>3. PICK l, tl : l = Base + Lines /\ tl = Top
    OBVIOUS
  <2>4. l \in Nat /\ tl \in Nat /\ tl + Lines - 1 <= l
    BY <2>2, <2>3, SizeFacts
  <2>5. ASSUME NEW i \in 0..(PageSize - 1) PROVE Page(tl * Cols + i) \in pages
    <3>1. PICK j : j = tl * Cols + i
      OBVIOUS
    <3>2. j \in Nat /\ Line(j) <= tl + Lines - 1
      BY <2>4, <3>1, ShownCells
    <3>3. Line(j) <= l
      BY <2>4, <3>2, LineFacts, SizeFacts
    <3> QED
      BY <2>1, <2>3, <2>4, <3>1, <3>2, <3>3, PagesToCell
  <2> QED
    BY <2>1, <2>3, <2>5
<1> QED
  BY Invariance, <1>1, PTL

\* What a process has printed, and every line entered, is never changed.
THEOREM History == Spec => HistoryKept
<1>1. VtermInv /\ [Next]_vars =>
        [anchor' >= anchor /\ \A i \in 0..(anchor - 1) : cells'[i] = cells[i]]_vars
  <2> SUFFICES ASSUME VtermInv, [Next]_vars
               PROVE  anchor' >= anchor /\ \A i \in 0..(anchor - 1) : cells'[i] = cells[i]
    OBVIOUS
  <2>1. anchor \in Nat /\ anchor <= MaxEnd
    BY IndexFacts, SizeFacts
  <2>2. VtermInv' /\ anchor <= anchor' /\ \A i \in Cells : i < anchor => cells'[i] = cells[i]
    BY NextKeeps
  <2>3. anchor' \in Nat
    BY <2>2 DEF VtermInv, TypeOK
  <2>4. \A i \in 0..(anchor - 1) : i \in Cells /\ i < anchor
    BY <2>1, SizeFacts DEF Cells
  <2> QED
    BY <2>1, <2>2, <2>3, <2>4
<1> QED
  BY Invariance, <1>1, PTL DEF Spec, HistoryKept

\* What Enter hands to the reader is the line typed: the copy ends at the
\* blank after end, and at no blank before.
THEOREM Read == Spec => []ReadsTheLine
<1>1. VtermInv => ReadsTheLine
  <2> SUFFICES ASSUME VtermInv, Page(end) \in pages PROVE M_readline = EditLine
    BY DEF ReadsTheLine
  <2> DEFINE
        byte(i) == IF Page(i) \notin pages THEN Junk
                   ELSE IF i \in Cells THEN cells[i] ELSE Blank
        over == anchor + 2 * (end - anchor)
        Stops(i) == /\ i = over + 1 \/ byte(i) = Blank
                    /\ \A j \in anchor..(i - 1) : byte(j) # Blank
        stop == CHOOSE i \in anchor..(over + 1) : Stops(i)
  <2>1. anchor \in Nat /\ end \in Nat /\ anchor <= end /\ end <= MaxEnd
    BY IndexFacts
  <2>2. \A j \in anchor..(end - 1) : Page(j) \in pages /\ j \in Cells /\ cells[j] # Blank
    <3> SUFFICES ASSUME NEW j \in anchor..(end - 1)
                 PROVE  Page(j) \in pages /\ j \in Cells /\ cells[j] # Blank
      OBVIOUS
    <3>1. j \in Cells /\ j \in Nat /\ j >= anchor /\ j < end
      BY <2>1, SizeFacts DEF Cells
    <3> QED
      BY <3>1 DEF VtermInv, LineKept
  <2>3. \A j \in anchor..(end - 1) : byte(j) = cells[j] /\ byte(j) # Blank
    BY <2>2
  <2>4. byte(end) = Blank
    <3>1. end \in Cells => cells[end] = Blank
      BY <2>1 DEF VtermInv, LineKept
    <3> QED
      BY <3>1
  <2>5. end \in anchor..(over + 1) /\ over + 1 > end
    BY <2>1
  <2> HIDE DEF byte, over
  <2>6. Stops(end)
    BY <2>3, <2>4
  <2>7. ASSUME NEW i \in anchor..(over + 1), Stops(i) PROVE i = end
    <3>1. i \in Nat
      BY <2>1, <2>7
    <3>2. CASE i < end
      <4>1. i \in anchor..(end - 1) /\ i # over + 1
        BY <2>1, <2>5, <2>7, <3>1, <3>2
      <4> QED
        BY <2>3, <2>7, <4>1
    <3>3. CASE i > end
      <4>1. end \in anchor..(i - 1)
        BY <2>1, <3>1, <3>3
      <4> QED
        BY <2>4, <2>7, <4>1
    <3> QED
      BY <2>1, <3>1, <3>2, <3>3
  <2> HIDE DEF Stops
  <2>8. stop = end
    BY <2>5, <2>6, <2>7
  <2>9. M_readline = [i \in 1..(stop - anchor) |-> byte(anchor + i - 1)]
    BY DEF M_readline, byte, over, Stops
  <2> HIDE DEF stop
  <2>10. ASSUME NEW i \in 1..(end - anchor) PROVE byte(anchor + i - 1) = cells[anchor + i - 1]
    <3>1. anchor + i - 1 \in anchor..(end - 1)
      BY <2>1
    <3> QED
      BY <2>3, <3>1
  <2> QED
    BY <2>8, <2>9, <2>10 DEF EditLine
<1> QED
  BY Invariance, <1>1, PTL

----------------------------------------------------------------------------
(* The line that is typed, as LineEditor describes it.                      *)

\* What is left of a sequence without the elements after the a-th up to the
\* b-th.
LEMMA WithoutFacts ==
    ASSUME NEW S, NEW s \in Seq(S), NEW a \in 0..Len(s), NEW b \in a..Len(s)
    PROVE  SubSeq(s, 1, a) \o SubSeq(s, b + 1, Len(s)) =
             [i \in 1..(Len(s) - (b - a)) |-> IF i <= a THEN s[i] ELSE s[i + (b - a)]]
<1>1. PICK n \in Nat : n = Len(s)
  BY LenProperties
<1>2. a \in Nat /\ b \in Nat /\ a <= b /\ b <= n
  BY <1>1
<1>3. \A i \in 1..n : s[i] \in S
  BY <1>1, ElementOfSeq
<1>4. PICK u : u = SubSeq(s, 1, a)
  OBVIOUS
<1>5. PICK v : v = SubSeq(s, b + 1, n)
  OBVIOUS
<1>6. u \in Seq(S) /\ Len(u) = a /\ \A i \in 1..a : u[i] = s[i]
  <2>1. \A i \in 1..a : s[i] \in S
    BY <1>2, <1>3
  <2>2. /\ u \in Seq(S) /\ Len(u) = IF 1 <= a THEN a - 1 + 1 ELSE 0
        /\ \A i \in 1..(a - 1 + 1) : u[i] = s[1 + i - 1]
    BY <1>2, <1>4, <2>1, SubSeqProperties
  <2> QED
    BY <1>2, <2>2
<1>7. v \in Seq(S) /\ Len(v) = n - b /\ \A i \in 1..(n - b) : v[i] = s[b + i]
  <2>1. \A i \in (b + 1)..n : s[i] \in S
    BY <1>2, <1>3
  <2>2. PICK m \in Int : m = b + 1
    BY <1>2
  <2>3. /\ v \in Seq(S) /\ Len(v) = IF m <= n THEN n - m + 1 ELSE 0
        /\ \A i \in 1..(n - m + 1) : v[i] = s[m + i - 1]
    BY <1>2, <1>5, <2>1, <2>2, SubSeqProperties
  <2> QED
    BY <1>2, <2>2, <2>3
<1>8. PICK w : w = u \o v
  OBVIOUS
<1>9. /\ w \in Seq(S) /\ Len(w) = a + (n - b)
      /\ \A i \in 1..(a + (n - b)) : w[i] = IF i <= a THEN u[i] ELSE v[i - a]
  <2>1. /\ w \in Seq(S) /\ Len(w) = Len(u) + Len(v)
        /\ \A i \in 1..(Len(u) + Len(v)) : w[i] = IF i <= Len(u) THEN u[i] ELSE v[i - Len(u)]
    <3>1. u \in Seq(S) /\ v \in Seq(S)
      BY <1>6, <1>7
    <3> QED
      BY <1>8, <3>1, ConcatProperties
  <2>2. Len(u) = a /\ Len(v) = n - b
    BY <1>6, <1>7
  <2> QED
    BY <2>1, <2>2
<1>10. ASSUME NEW i \in 1..(n - (b - a))
       PROVE  w[i] = IF i <= a THEN s[i] ELSE s[i + (b - a)]
  <2>1. i \in 1..(a + (n - b)) /\ i \in Nat
    BY <1>2
  <2>2. CASE i <= a
    BY <1>2, <1>6, <1>9, <2>1, <2>2
  <2>3. CASE i > a
    <3>1. i - a \in 1..(n - b) /\ b + (i - a) = i + (b - a)
      BY <1>2, <2>1, <2>3
    <3>2. w[i] = v[i - a]
      BY <1>2, <1>9, <2>1, <2>3
    <3> QED
      BY <1>2, <1>7, <2>1, <2>3, <3>1, <3>2
  <2> QED
    BY <1>2, <2>1, <2>2, <2>3
<1>11. DOMAIN w = 1..(n - (b - a)) /\ w = [i \in DOMAIN w |-> w[i]]
  <2>1. w \in [1..Len(w) -> S] /\ a + (n - b) = n - (b - a)
    BY <1>2, <1>9, LenProperties
  <2> QED
    BY <1>9, <2>1
<1> QED
  BY <1>1, <1>4, <1>5, <1>8, <1>10, <1>11

\* A sequence with an element put in after the p-th.
LEMMA InsertFacts ==
    ASSUME NEW S, NEW s \in Seq(S), NEW p \in 0..Len(s), NEW c \in S
    PROVE  Editor!InsertAt(s, p + 1, c) =
             [i \in 1..(Len(s) + 1) |-> IF i <= p THEN s[i] ELSE IF i = p + 1 THEN c ELSE s[i - 1]]
<1>1. PICK n \in Nat : n = Len(s)
  BY LenProperties
<1>2. p \in Nat /\ p <= n
  BY <1>1
<1>3. \A i \in 1..n : s[i] \in S
  BY <1>1, ElementOfSeq
<1>4. PICK m : m = p + 1
  OBVIOUS
<1>5. PICK u : u = SubSeq(s, 1, m - 1)
  OBVIOUS
<1>6. PICK v : v = SubSeq(s, m, n)
  OBVIOUS
<1>7. u \in Seq(S) /\ Len(u) = p /\ \A i \in 1..p : u[i] = s[i]
  <2>1. \A i \in 1..p : s[i] \in S
    BY <1>2, <1>3
  <2>2. /\ u \in Seq(S) /\ Len(u) = IF 1 <= p THEN p - 1 + 1 ELSE 0
        /\ \A i \in 1..(p - 1 + 1) : u[i] = s[1 + i - 1]
    <3>1. m - 1 = p
      BY <1>2, <1>4
    <3> QED
      BY <1>2, <1>5, <2>1, <3>1, SubSeqProperties
  <2> QED
    BY <1>2, <2>2
<1>8. v \in Seq(S) /\ Len(v) = n - p /\ \A i \in 1..(n - p) : v[i] = s[p + i]
  <2>1. m \in Int /\ \A i \in m..n : s[i] \in S
    BY <1>2, <1>3, <1>4
  <2>2. /\ v \in Seq(S) /\ Len(v) = IF m <= n THEN n - m + 1 ELSE 0
        /\ \A i \in 1..(n - m + 1) : v[i] = s[m + i - 1]
    BY <1>2, <1>6, <2>1, SubSeqProperties
  <2> QED
    BY <1>2, <1>4, <2>2
<1>9. /\ <<c>> \in Seq(S) /\ Len(<<c>>) = 1 /\ <<c>>[1] = c
  OBVIOUS
<1>10. PICK x : x = u \o <<c>>
  OBVIOUS
<1>11. /\ x \in Seq(S) /\ Len(x) = p + 1
       /\ \A i \in 1..(p + 1) : x[i] = IF i <= p THEN u[i] ELSE <<c>>[i - p]
  BY <1>7, <1>9, <1>10, ConcatProperties
<1>12. PICK w : w = x \o v
  OBVIOUS
<1>13. /\ w \in Seq(S) /\ Len(w) = (p + 1) + (n - p)
       /\ \A i \in 1..((p + 1) + (n - p)) : w[i] = IF i <= p + 1 THEN x[i] ELSE v[i - (p + 1)]
  <2>1. /\ w \in Seq(S) /\ Len(w) = Len(x) + Len(v)
        /\ \A i \in 1..(Len(x) + Len(v)) : w[i] = IF i <= Len(x) THEN x[i] ELSE v[i - Len(x)]
    <3>1. x \in Seq(S) /\ v \in Seq(S)
      BY <1>8, <1>11
    <3> QED
      BY <1>12, <3>1, ConcatProperties
  <2>2. Len(x) = p + 1 /\ Len(v) = n - p
    BY <1>8, <1>11
  <2> QED
    BY <2>1, <2>2
<1>14. ASSUME NEW i \in 1..(n + 1)
       PROVE  w[i] = IF i <= p THEN s[i] ELSE IF i = p + 1 THEN c ELSE s[i - 1]
  <2>1. i \in 1..((p + 1) + (n - p)) /\ i \in Nat /\ i >= 1
    BY <1>2
  <2>2. CASE i <= p
    BY <1>2, <1>7, <1>11, <1>13, <2>1, <2>2
  <2>3. CASE i = p + 1
    BY <1>2, <1>9, <1>11, <1>13, <2>1, <2>3
  <2>4. CASE i > p + 1
    <3>1. i - (p + 1) \in 1..(n - p) /\ p + (i - (p + 1)) = i - 1
      BY <1>2, <2>1, <2>4
    <3>2. w[i] = v[i - (p + 1)]
      BY <1>2, <1>13, <2>1, <2>4
    <3>3. v[i - (p + 1)] = s[p + (i - (p + 1))]
      BY <1>8, <3>1
    <3>4. w[i] = s[i - 1]
      BY <3>1, <3>2, <3>3
    <3>5. ~(i <= p) /\ i # p + 1
      BY <1>2, <2>1, <2>4
    <3> QED
      BY <3>4, <3>5
  <2> QED
    BY <1>2, <2>1, <2>2, <2>3, <2>4
<1>15. DOMAIN w = 1..(n + 1) /\ w = [i \in DOMAIN w |-> w[i]]
  <2>1. w \in [1..Len(w) -> S] /\ (p + 1) + (n - p) = n + 1
    BY <1>2, <1>13, LenProperties
  <2> QED
    BY <1>13, <2>1
<1>16. Editor!InsertAt(s, m, c) = w
  BY <1>1, <1>5, <1>6, <1>10, <1>12 DEF Editor!InsertAt
<1> QED
  BY <1>1, <1>4, <1>14, <1>15, <1>16

\* The line typed is a sequence, and the edit point in it.
LEMMA LineSeq ==
    ASSUME VtermInv
    PROVE  /\ EditLine \in Seq(Char) /\ Len(EditLine) = end - anchor
           /\ cur - anchor \in 0..Len(EditLine)
           /\ \A i \in 1..(end - anchor) : EditLine[i] = cells[anchor + i - 1]
<1>1. /\ anchor \in Nat /\ cur \in Nat /\ end \in Nat /\ anchor <= cur /\ cur <= end
      /\ end <= MaxEnd
  BY IndexFacts
<1>2. PICK n \in Nat : n = end - anchor
  BY <1>1
<1>3. ASSUME NEW i \in 1..n PROVE cells[anchor + i - 1] \in Char
  <2>1. anchor + i - 1 \in Cells
    BY <1>1, <1>2, SizeFacts DEF Cells
  <2> QED
    BY <2>1 DEF VtermInv, TypeOK, Char
<1>4. EditLine \in [1..n -> Char]
  BY <1>2, <1>3 DEF EditLine
<1>5. EditLine \in Seq(Char)
  BY <1>4, SeqDef
<1>6. Len(EditLine) = n
  BY <1>4, <1>5, LenProperties
<1> QED
  BY <1>1, <1>2, <1>5, <1>6 DEF EditLine

\* The greatest and the least element of a set.
LEMMA MaxMin ==
    ASSUME NEW S, S \subseteq Int, NEW m \in S
    PROVE  /\ (\A y \in S : m >= y) => Editor!Max(S) = m
           /\ (\A y \in S : m <= y) => Editor!Min(S) = m
<1>1. ASSUME \A y \in S : m >= y PROVE Editor!Max(S) = m
  <2>1. \A x \in S : (\A y \in S : x >= y) => x = m
    BY <1>1
  <2> QED
    BY <1>1, <2>1 DEF Editor!Max
<1>2. ASSUME \A y \in S : m <= y PROVE Editor!Min(S) = m
  <2>1. \A x \in S : (\A y \in S : x <= y) => x = m
    BY <1>2
  <2> QED
    BY <1>2, <2>1 DEF Editor!Min
<1> QED
  BY <1>1, <1>2

\* wordLeft goes to the nearest beginning of a word on the left, or to the
\* beginning of the line.
LEMMA BeforeFacts ==
    ASSUME VtermInv
    PROVE  Editor!Before = WordLeft - anchor
<1>1. anchor \in Nat /\ cur \in Nat /\ end \in Nat /\ anchor <= cur /\ cur <= end
  BY IndexFacts
<1>2. /\ Len(EditLine) = end - anchor
      /\ \A i \in 1..(end - anchor) : EditLine[i] = cells[anchor + i - 1]
  BY LineSeq
<1>3. PICK s, w : s = SpacesLeft /\ w = WordLeft
  OBVIOUS
<1>4. /\ s \in anchor..cur /\ \A i \in s..(cur - 1) : cells[i] = Space
      /\ s = anchor \/ cells[s - 1] # Space
      /\ w \in anchor..s /\ \A i \in w..(s - 1) : cells[i] # Space
      /\ w = anchor \/ cells[w - 1] = Space
  BY <1>3, WordFacts
<1>5. PICK n \in Nat, p \in Nat : n = end - anchor /\ p = cur - anchor
  BY <1>1
<1> DEFINE S == {q \in 0..(n - 1) : /\ EditLine[q + 1] # Space
                                    /\ q = 0 \/ EditLine[q] = Space}
           T == {q \in S : q < p} \cup {0}
<1>6. Editor!Before = Editor!Max(T)
  BY <1>2, <1>5 DEF Editor!Before, Editor!WordStarts
<1>7. T \subseteq Int
  OBVIOUS
<1>8. PICK m : m = w - anchor
  OBVIOUS
<1>9. m \in T
  <2>1. CASE w = s
    <3>1. s = anchor
      <4>1. SUFFICES ASSUME s # anchor PROVE FALSE
        OBVIOUS
      <4>2. cells[s - 1] # Space /\ cells[s - 1] = Space
        BY <1>4, <2>1, <4>1
      <4> QED
        BY <4>2
    <3> QED
      BY <1>1, <1>8, <2>1, <3>1
  <2>2. CASE w # s
    <3>1. w \in w..(s - 1) /\ w \in Nat /\ w < s
      BY <1>1, <1>4, <2>2
    <3>2. cells[w] # Space
      BY <1>4, <3>1
    <3>3. m \in 0..(n - 1) /\ m < p /\ m \in Nat /\ anchor + (m + 1) - 1 = w
          /\ (m # 0 => m \in 1..n /\ anchor + m - 1 = w - 1 /\ w # anchor)
      BY <1>1, <1>4, <1>5, <1>8, <3>1
    <3>4. m + 1 \in 1..n
      BY <1>5, <3>3
    <3>5. EditLine[m + 1] = cells[w]
      BY <1>2, <1>5, <3>3, <3>4
    <3>6. m # 0 => EditLine[m] = cells[w - 1]
      BY <1>2, <1>5, <3>3
    <3>7. m = 0 \/ EditLine[m] = Space
      BY <1>4, <3>3, <3>6
    <3> QED
      BY <3>2, <3>3, <3>5, <3>7
  <2> QED
    BY <2>1, <2>2
<1>10. ASSUME NEW q \in T PROVE m >= q
  <2>1. SUFFICES ASSUME q > m PROVE FALSE
    BY <1>1, <1>4, <1>8
  <2>2. q \in 1..(n - 1) /\ q < p /\ EditLine[q + 1] # Space /\ EditLine[q] = Space /\ m \in Nat
    BY <1>1, <1>4, <1>8, <2>1
  <2>3. q + 1 \in 1..n /\ q \in 1..n /\ q \in Nat
    BY <1>5, <2>2
  <2>4. anchor + (q + 1) - 1 = anchor + q /\ anchor + q - 1 = (anchor + q) - 1
    BY <1>1, <2>3
  <2>5. cells[anchor + q] # Space /\ cells[(anchor + q) - 1] = Space
    <3>1. EditLine[q + 1] = cells[anchor + q] /\ EditLine[q] = cells[(anchor + q) - 1]
      BY <1>2, <1>5, <2>3, <2>4
    <3> QED
      BY <2>2, <3>1
  <2>6. CASE anchor + q >= s
    <3>1. anchor + q \in s..(cur - 1)
      BY <1>1, <1>4, <1>5, <2>2, <2>3, <2>6
    <3> QED
      BY <1>4, <2>5, <3>1
  <2>7. CASE anchor + q < s
    <3>1. (anchor + q) - 1 \in w..(s - 1)
      BY <1>1, <1>4, <1>8, <2>1, <2>2, <2>3, <2>7
    <3> QED
      BY <1>4, <2>5, <3>1
  <2> QED
    BY <1>1, <1>4, <2>3, <2>6, <2>7
<1> HIDE DEF T
<1>11. Editor!Max(T) = m
  BY <1>7, <1>9, <1>10, MaxMin
<1> QED
  BY <1>3, <1>6, <1>8, <1>11

\* wordRight goes to the nearest end of a word on the right, or to the end of
\* the line.
LEMMA AfterFacts ==
    ASSUME VtermInv
    PROVE  Editor!After = WordRight - anchor
<1>1. anchor \in Nat /\ cur \in Nat /\ end \in Nat /\ anchor <= cur /\ cur <= end
  BY IndexFacts
<1>2. /\ Len(EditLine) = end - anchor
      /\ \A i \in 1..(end - anchor) : EditLine[i] = cells[anchor + i - 1]
  BY LineSeq
<1>3. PICK s, w : s = SpacesRight /\ w = WordRight
  OBVIOUS
<1>4. /\ s \in cur..end /\ \A i \in cur..(s - 1) : cells[i] = Space
      /\ s = end \/ cells[s] # Space
      /\ w \in s..end /\ \A i \in s..(w - 1) : cells[i] # Space
      /\ w = end \/ cells[w] = Space
  BY <1>3, WordFacts
<1>5. PICK n \in Nat, p \in Nat : n = end - anchor /\ p = cur - anchor
  BY <1>1
<1> DEFINE S == {q \in 1..n : /\ EditLine[q] # Space
                              /\ q = n \/ EditLine[q + 1] = Space}
           T == {q \in S : q > p} \cup {n}
<1>6. Editor!After = Editor!Min(T)
  BY <1>2, <1>5 DEF Editor!After, Editor!WordEnds
<1>7. T \subseteq Int
  OBVIOUS
<1>8. PICK m : m = w - anchor
  OBVIOUS
<1>9. m \in T
  <2>1. CASE w = s
    <3>1. s = end
      <4>1. SUFFICES ASSUME s # end PROVE FALSE
        OBVIOUS
      <4>2. cells[s] # Space /\ cells[s] = Space
        BY <1>4, <2>1, <4>1
      <4> QED
        BY <4>2
    <3> QED
      BY <1>1, <1>5, <1>8, <2>1, <3>1
  <2>2. CASE w # s
    <3>1. w - 1 \in s..(w - 1) /\ w \in Nat /\ s < w
      BY <1>1, <1>4, <2>2
    <3>2. cells[w - 1] # Space
      BY <1>4, <3>1
    <3>3. m \in 1..n /\ m > p /\ anchor + m - 1 = w - 1
          /\ (m # n => m + 1 \in 1..n /\ anchor + (m + 1) - 1 = w /\ w # end)
      BY <1>1, <1>4, <1>5, <1>8, <3>1
    <3>4. EditLine[m] = cells[w - 1]
      BY <1>2, <1>5, <3>3
    <3>5. m # n => EditLine[m + 1] = cells[w]
      BY <1>2, <1>5, <3>3
    <3>6. m = n \/ EditLine[m + 1] = Space
      BY <1>4, <3>3, <3>5
    <3> QED
      BY <3>2, <3>3, <3>4, <3>6
  <2> QED
    BY <2>1, <2>2
<1>10. ASSUME NEW q \in T PROVE m <= q
  <2>1. SUFFICES ASSUME q < m PROVE FALSE
    BY <1>1, <1>4, <1>8
  <2>2. q \in 1..(n - 1) /\ q > p /\ EditLine[q] # Space /\ EditLine[q + 1] = Space /\ m \in Nat
    BY <1>1, <1>4, <1>5, <1>8, <2>1
  <2>3. q + 1 \in 1..n /\ q \in 1..n /\ q \in Nat
    BY <1>5, <2>2
  <2>4. anchor + (q + 1) - 1 = anchor + q /\ anchor + q - 1 = (anchor + q) - 1
    BY <1>1, <2>3
  <2>5. cells[anchor + q] = Space /\ cells[(anchor + q) - 1] # Space
    <3>1. EditLine[q + 1] = cells[anchor + q] /\ EditLine[q] = cells[(anchor + q) - 1]
      BY <1>2, <1>5, <2>3, <2>4
    <3> QED
      BY <2>2, <3>1
  <2>6. CASE (anchor + q) - 1 < s
    <3>1. (anchor + q) - 1 \in cur..(s - 1)
      BY <1>1, <1>4, <1>5, <2>2, <2>3, <2>6
    <3> QED
      BY <1>4, <2>5, <3>1
  <2>7. CASE (anchor + q) - 1 >= s
    <3>1. anchor + q \in s..(w - 1)
      BY <1>1, <1>4, <1>8, <2>1, <2>2, <2>3, <2>7
    <3> QED
      BY <1>4, <2>5, <3>1
  <2> QED
    BY <1>1, <1>4, <2>3, <2>6, <2>7
<1> HIDE DEF T
<1>11. Editor!Min(T) = m
  BY <1>7, <1>9, <1>10, MaxMin
<1> QED
  BY <1>3, <1>6, <1>8, <1>11

\* Typing puts a character in at the point.
LEMMA TypeRefines ==
    ASSUME VtermInv, NEW c \in Keys, Type(c)
    PROVE  Editor!Insert(c)
<1>1. anchor \in Nat /\ cur \in Nat /\ end \in Nat /\ anchor <= cur /\ cur <= end
  BY IndexFacts
<1>2. /\ EditLine \in Seq(Char) /\ Len(EditLine) = end - anchor
      /\ \A i \in 1..(end - anchor) : EditLine[i] = cells[anchor + i - 1]
  BY LineSeq
<1>3. c \in Char /\ 1 \in 1..Cols /\ 0 \in Nat
  BY VtermAssumption, SizeFacts DEF Char
<1>4. Put(c, 1, cur, 0) /\ anchor' = anchor
  BY DEF Type
<1>5. /\ cur' = cur + 1 /\ end' = end + 1 /\ end' <= MaxEnd
      /\ \A i \in Cells : /\ i < cur => cells'[i] = cells[i]
                          /\ i >= cur /\ i < cur + 1 => cells'[i] = c
                          /\ i >= cur + 1 /\ i < end + 1 => cells'[i] = cells[i - 1]
  BY <1>3, <1>4, PutFacts
<1>6. PICK n \in Nat, p \in Nat : n = end - anchor /\ p = cur - anchor
  BY <1>1
<1>7. p \in 0..Len(EditLine) /\ Len(EditLine) = n
  BY <1>1, <1>2, <1>6
<1>8. Editor!InsertAt(EditLine, p + 1, c) =
        [i \in 1..(n + 1) |-> IF i <= p THEN EditLine[i] ELSE IF i = p + 1 THEN c ELSE EditLine[i - 1]]
  <2>1. PICK s \in Seq(Char) : s = EditLine
    BY <1>2
  <2>2. p \in 0..Len(s)
    BY <1>7, <2>1
  <2>3. Editor!InsertAt(s, p + 1, c) =
          [i \in 1..(Len(s) + 1) |-> IF i <= p THEN s[i] ELSE IF i = p + 1 THEN c ELSE s[i - 1]]
    BY <1>3, <2>2, InsertFacts
  <2> QED
    BY <1>7, <2>1, <2>3
<1>9. EditLine' = [i \in 1..(n + 1) |-> cells'[anchor + i - 1]]
  <2>1. end' - anchor' = n + 1
    BY <1>1, <1>4, <1>5, <1>6
  <2> QED
    BY <1>4, <2>1 DEF EditLine
<1>10. ASSUME NEW i \in 1..(n + 1)
       PROVE  cells'[anchor + i - 1] =
                IF i <= p THEN EditLine[i] ELSE IF i = p + 1 THEN c ELSE EditLine[i - 1]
  <2>1. PICK j : j = anchor + i - 1
    OBVIOUS
  <2>2. j \in Cells /\ j \in Nat /\ i \in Nat /\ i >= 1 /\ j < end + 1
    BY <1>1, <1>5, <1>6, <2>1, SizeFacts DEF Cells
  <2>3. CASE i <= p
    <3>1. j < cur /\ i \in 1..n
      BY <1>1, <1>6, <2>1, <2>2, <2>3
    <3> QED
      BY <1>2, <1>5, <1>6, <2>1, <2>2, <2>3, <3>1
  <2>4. CASE i = p + 1
    <3>1. j >= cur /\ j < cur + 1 /\ ~(i <= p)
      BY <1>1, <1>6, <2>1, <2>2, <2>4
    <3> QED
      BY <1>5, <2>1, <2>2, <2>4, <3>1
  <2>5. CASE i > p + 1
    <3>1. j >= cur + 1 /\ ~(i <= p) /\ i # p + 1 /\ i - 1 \in 1..n /\ anchor + (i - 1) - 1 = j - 1
      BY <1>1, <1>6, <2>1, <2>2, <2>5
    <3>2. cells'[j] = cells[j - 1]
      BY <1>5, <2>2, <3>1
    <3>3. EditLine[i - 1] = cells[j - 1]
      BY <1>2, <1>6, <3>1
    <3> QED
      BY <2>1, <3>1, <3>2, <3>3
  <2> QED
    BY <1>6, <2>2, <2>3, <2>4, <2>5
<1>11. EditLine' = Editor!InsertAt(EditLine, p + 1, c)
  BY <1>8, <1>9, <1>10
<1>12. (cur - anchor)' = (cur - anchor) + 1
  BY <1>1, <1>4, <1>5
<1> QED
  BY <1>6, <1>11, <1>12 DEF Editor!Insert

\* What a key takes out, it takes out of the line.
LEMMA TakenOut ==
    ASSUME VtermInv, NEW a \in anchor..end, NEW b \in a..end, TakeOut(a, b)
    PROVE  EditLine' = Editor!Without(a - anchor, b - anchor) /\ (cur - anchor)' = a - anchor
<1>1. anchor \in Nat /\ cur \in Nat /\ end \in Nat /\ anchor <= cur /\ cur <= end /\ end <= MaxEnd
  BY IndexFacts
<1>2. /\ EditLine \in Seq(Char) /\ Len(EditLine) = end - anchor
      /\ \A i \in 1..(end - anchor) : EditLine[i] = cells[anchor + i - 1]
  BY LineSeq
<1>3. cells' = Removed(a, b) /\ end' = end - (b - a) /\ cur' = a /\ anchor' = anchor
  BY DEF TakeOut
<1>4. PICK n \in Nat, p \in Nat, q \in Nat, d \in Nat :
         n = end - anchor /\ p = a - anchor /\ q = b - anchor /\ d = q - p
  BY <1>1
<1>5. p \in 0..Len(EditLine) /\ q \in p..Len(EditLine) /\ Len(EditLine) = n /\ d <= n /\ b - a = d
  BY <1>1, <1>2, <1>4
<1>6. SubSeq(EditLine, 1, p) \o SubSeq(EditLine, q + 1, n) =
        [i \in 1..(n - d) |-> IF i <= p THEN EditLine[i] ELSE EditLine[i + d]]
  <2>1. SubSeq(EditLine, 1, p) \o SubSeq(EditLine, q + 1, Len(EditLine)) =
          [i \in 1..(Len(EditLine) - (q - p)) |-> IF i <= p THEN EditLine[i] ELSE EditLine[i + (q - p)]]
    <3>1. PICK s \in Seq(Char) : s = EditLine
      BY <1>2
    <3>2. p \in 0..Len(s) /\ q \in p..Len(s)
      BY <1>5, <3>1
    <3>3. SubSeq(s, 1, p) \o SubSeq(s, q + 1, Len(s)) =
            [i \in 1..(Len(s) - (q - p)) |-> IF i <= p THEN s[i] ELSE s[i + (q - p)]]
      BY <3>2, WithoutFacts
    <3> QED
      BY <3>1, <3>3
  <2> QED
    BY <1>4, <1>5, <2>1
<1>7. EditLine' = [i \in 1..(n - d) |-> cells'[anchor + i - 1]]
  <2>1. end' - anchor' = n - d
    BY <1>1, <1>3, <1>4, <1>5
  <2> QED
    BY <1>3, <2>1 DEF EditLine
<1>8. ASSUME NEW i \in 1..(n - d)
      PROVE  cells'[anchor + i - 1] = IF i <= p THEN EditLine[i] ELSE EditLine[i + d]
  <2>1. PICK j : j = anchor + i - 1
    OBVIOUS
  <2>2. j \in Cells /\ j \in Nat /\ i \in Nat /\ i >= 1 /\ j < end - d /\ i \in 1..n /\ i + d \in 1..n
    BY <1>1, <1>4, <1>5, <2>1, SizeFacts DEF Cells
  <2>3. cells'[j] = IF j < a \/ j >= end THEN cells[j]
                    ELSE IF j < end - d THEN cells[j + d] ELSE Blank
    BY <1>3, <1>5, <2>2 DEF Removed
  <2>4. anchor + (i + d) - 1 = j + d
    BY <1>1, <2>1, <2>2
  <2>5. EditLine[i] = cells[j] /\ EditLine[i + d] = cells[j + d]
    BY <1>2, <1>4, <2>1, <2>2, <2>4
  <2>6. ~(j >= end) /\ (j < a <=> i <= p)
    BY <1>1, <1>4, <2>1, <2>2
  <2> QED
    BY <2>1, <2>2, <2>3, <2>5, <2>6
<1>9. EditLine' = SubSeq(EditLine, 1, p) \o SubSeq(EditLine, q + 1, n)
  BY <1>6, <1>7, <1>8
<1> QED
  BY <1>3, <1>4, <1>5, <1>9 DEF Editor!Without

\* Nothing is printed over what is right of the edit point.
LEMMA PrintRefines ==
    ASSUME VtermInv, PrintTo
    PROVE  Editor!Output
<1>1. /\ anchor \in Nat /\ cur \in Nat /\ end \in Nat /\ anchor <= cur /\ cur <= end
      /\ end <= MaxEnd
  BY IndexFacts
<1>2. /\ EditLine \in Seq(Char) /\ Len(EditLine) = end - anchor
      /\ \A i \in 1..(end - anchor) : EditLine[i] = cells[anchor + i - 1]
  BY LineSeq
<1>3. anchor' = cur'
  BY DEF PrintTo
<1>4. PICK n \in Nat, p \in Nat : n = end - anchor /\ p = cur - anchor
  BY <1>1
<1>5. 0 \in 0..Len(EditLine) /\ p \in 0..Len(EditLine) /\ Len(EditLine) = n
  BY <1>1, <1>2, <1>4
<1>6. SubSeq(EditLine, 1, 0) \o SubSeq(EditLine, p + 1, n) = [i \in 1..(n - p) |-> EditLine[i + p]]
  <2>1. SubSeq(EditLine, 1, 0) \o SubSeq(EditLine, p + 1, Len(EditLine)) =
          [i \in 1..(Len(EditLine) - (p - 0)) |-> IF i <= 0 THEN EditLine[i] ELSE EditLine[i + (p - 0)]]
    BY <1>2, <1>5, WithoutFacts
  <2>2. p - 0 = p /\ \A i \in 1..(n - p) : ~(i <= 0)
    OBVIOUS
  <2> QED
    BY <1>5, <2>1, <2>2
<1>7. /\ end' - cur' = n - p
      /\ \A i \in 1..(n - p) : cells'[cur' + i - 1] = cells[cur + i - 1]
  <2>1. CASE \E c \in Char, k \in 1..Cols : Put(c, k, cur, v_scroll)
    <3>1. PICK c \in Char, k \in 1..Cols : Put(c, k, cur, v_scroll)
      BY <2>1
    <3>2. v_scroll \in Nat /\ k \in Nat /\ k >= 1
      BY IndexFacts, SizeFacts
    <3>3. /\ cur' = cur + k /\ end' = end + k /\ end' <= MaxEnd
          /\ \A i \in Cells : i >= cur + k /\ i < end + k => cells'[i] = cells[i - k]
      BY <3>1, <3>2, PutFacts
    <3>4. ASSUME NEW i \in 1..(n - p) PROVE cells'[cur' + i - 1] = cells[cur + i - 1]
      <4>1. PICK j : j = cur' + i - 1
        OBVIOUS
      <4>2. /\ j \in Cells /\ j >= cur + k /\ j < end + k /\ j - k = cur + i - 1
        BY <1>1, <1>4, <3>2, <3>3, <4>1, SizeFacts DEF Cells
      <4> QED
        BY <3>3, <4>1, <4>2
    <3> QED
      BY <1>1, <1>4, <3>2, <3>3, <3>4
  <2>2. CASE UNCHANGED <<cells, cur, end, pages>>
    BY <1>1, <1>4, <2>2
  <2> QED
    <3>1. Printed \in Char /\ 1 \in 1..Cols /\ Blank \in Char /\ RestOfLine(cur) \in 1..Cols
      BY IndexFacts, RestFacts, SizeFacts DEF Char
    <3> QED
      BY <2>1, <2>2, <3>1 DEF PrintTo
<1>8. EditLine' = [i \in 1..(n - p) |-> cells'[cur' + i - 1]]
  BY <1>3, <1>7 DEF EditLine
<1>9. ASSUME NEW i \in 1..(n - p) PROVE EditLine[i + p] = cells[cur + i - 1]
  <2>1. i + p \in 1..n /\ anchor + (i + p) - 1 = cur + i - 1
    BY <1>1, <1>4, <1>5
  <2> QED
    BY <1>2, <1>4, <2>1
<1>10. EditLine' = SubSeq(EditLine, 1, 0) \o SubSeq(EditLine, p + 1, n)
  BY <1>6, <1>7, <1>8, <1>9
<1>11. (cur - anchor)' = 0
  <2>1. cur' \in Nat
    <3>1. VtermInv'
      BY PrintKeeps
    <3> QED
      BY <3>1 DEF VtermInv, TypeOK
  <2>2. PICK k \in Nat : k = cur'
    BY <2>1
  <2>3. k - k = 0
    OBVIOUS
  <2> QED
    BY <1>3, <2>2, <2>3
<1> QED
  BY <1>4, <1>5, <1>10, <1>11 DEF Editor!Output, Editor!Without

\* After Enter the line is empty.
LEMMA EnterRefines ==
    ASSUME VtermInv, Enter
    PROVE  Editor!Enter
<1>1. Blank \in Char /\ RestOfLine(end) \in 1..Cols /\ v_scroll \in Nat /\ end \in Nat
  BY IndexFacts, RestFacts DEF Char
<1>2. Put(Blank, RestOfLine(end), end, v_scroll) /\ anchor' = cur'
  BY DEF Enter
<1>3. PICK k \in 1..Cols : k = RestOfLine(end)
  BY <1>1
<1>4. cur' = end + k /\ end' = end + k /\ cur' \in Nat
  BY <1>1, <1>2, <1>3, PutFacts
<1>5. end' - anchor' = 0 /\ cur' - anchor' = 0
  BY <1>2, <1>4
<1>6. EditLine' = <<>>
  BY <1>5 DEF EditLine
<1> QED
  BY <1>5, <1>6 DEF Editor!Enter

\* Where nothing of the text changes, neither does the line.
LEMMA LineStays ==
    ASSUME VtermInv, UNCHANGED <<anchor, cells, end>>
    PROVE  EditLine' = EditLine
BY DEF EditLine

\* Keys do to the line what they promise, whatever is printed meanwhile.
THEOREM Refinement == Spec => ImplementsEditor
<1> DEFINE line == EditLine
           point == cur - anchor
           Step == Editor!Next \/ UNCHANGED <<line, point>>
<1>1. Init => Editor!Init
  <2> SUFFICES ASSUME Init PROVE Editor!Init
    OBVIOUS
  <2>1. anchor = 0 /\ cur = 0 /\ end = 0 /\ end - anchor = 0 /\ cur - anchor = 0
    BY DEF Init
  <2> QED
    BY <2>1 DEF Editor!Init, EditLine
<1>2. VtermInv /\ [Next]_vars => [Editor!Next]_<<EditLine, cur - anchor>>
  <2> SUFFICES ASSUME VtermInv, [Next]_vars PROVE Step
    OBVIOUS
  <2>1. anchor \in Nat /\ cur \in Nat /\ end \in Nat /\ anchor <= cur /\ cur <= end
    BY IndexFacts
  <2>2. PICK n, p : n = end - anchor /\ p = cur - anchor
    OBVIOUS
  <2>3. Len(EditLine) = n /\ n \in Nat /\ p \in 0..n
    BY <2>1, <2>2, LineSeq
  <2>4. /\ Left \in anchor..cur /\ Right \in cur..end
        /\ WordLeft \in anchor..cur /\ WordRight \in cur..end
    BY PointFacts
  <2>5. Editor!Before = WordLeft - anchor /\ Editor!After = WordRight - anchor
    BY BeforeFacts, AfterFacts
  <2>6. /\ Left - anchor \in {0, p - 1} /\ Right - anchor \in {n, p + 1}
        /\ anchor - anchor = 0 /\ end - anchor = n
    BY <2>1, <2>2 DEF Left, Right
  <2>7. ASSUME NEW c \in anchor..end, MoveTo(c),
               c - anchor \in {0, n, Editor!Before, Editor!After, p - 1, p + 1}
        PROVE  Step
    <3>1. UNCHANGED <<anchor, cells, end>> /\ cur' = c
      BY <2>7 DEF MoveTo
    <3>2. EditLine' = EditLine
      BY <3>1, LineStays
    <3>3. (cur - anchor)' = c - anchor
      BY <3>1
    <3>4. c - anchor \in 0..n
      BY <2>1, <2>2
    <3>5. Editor!Go
      BY <2>2, <2>3, <2>7, <3>2, <3>3, <3>4 DEF Editor!Go, Editor!GoTo
    <3> QED
      BY <3>5 DEF Editor!Next
  <2>8. ASSUME NEW a \in anchor..cur, TakeOut(a, cur), a - anchor \in {0, Editor!Before, p - 1}
        PROVE  Step
    <3>1. EditLine' = Editor!Without(a - anchor, p) /\ (cur - anchor)' = a - anchor
      <4>1. a \in anchor..end /\ cur \in a..end
        BY <2>1
      <4> QED
        BY <2>2, <2>8, <4>1, TakenOut
    <3>2. a - anchor \in 0..p
      BY <2>1, <2>2
    <3>3. Editor!Erase
      BY <2>2, <2>8, <3>1, <3>2 DEF Editor!Erase
    <3> QED
      BY <3>3 DEF Editor!Next
  <2>9. ASSUME NEW b \in cur..end, TakeOut(cur, b), b - anchor \in {n, Editor!After, p + 1}
        PROVE  Step
    <3>1. EditLine' = Editor!Without(p, b - anchor) /\ (cur - anchor)' = p
      <4>1. cur \in anchor..end /\ b \in cur..end
        BY <2>1
      <4> QED
        BY <2>2, <2>9, <4>1, TakenOut
    <3>2. b - anchor \in p..n
      BY <2>1, <2>2
    <3>3. Editor!Erase
      BY <2>2, <2>3, <2>9, <3>1, <3>2 DEF Editor!Erase
    <3> QED
      BY <3>3 DEF Editor!Next
  <2>10. UNCHANGED <<anchor, cells, end, cur>> => Step
    BY LineStays
  <2>11. CASE PrintTo \/ Enter \/ \E c \in Keys : Type(c)
    BY <2>11, PrintRefines, EnterRefines, TypeRefines DEF Editor!Next
  <2> HIDE DEF Step
  <2>12. CASE CursorMove \/ CursorHome \/ CursorEnd \/ WordMove
    <3>1. /\ Left \in anchor..end /\ Right \in anchor..end /\ anchor \in anchor..end
          /\ end \in anchor..end /\ WordLeft \in anchor..end /\ WordRight \in anchor..end
      BY <2>1, <2>4
    <3>2. MoveTo(Left) => Step
      BY <2>6, <2>7, <3>1
    <3>3. MoveTo(Right) => Step
      BY <2>6, <2>7, <3>1
    <3>4. MoveTo(anchor) => Step
      BY <2>6, <2>7, <3>1
    <3>5. MoveTo(end) => Step
      BY <2>6, <2>7, <3>1
    <3>6. MoveTo(WordLeft) => Step
      BY <2>5, <2>7, <3>1
    <3>7. MoveTo(WordRight) => Step
      BY <2>5, <2>7, <3>1
    <3> QED
      BY <2>12, <3>2, <3>3, <3>4, <3>5, <3>6, <3>7 DEF CursorMove, CursorHome, CursorEnd, WordMove
  <2>13. CASE Backspace \/ Delete \/ DeleteWord \/ ClearCurToAnchor \/ ClearCurToEnd
    <3>1. anchor \in anchor..cur /\ end \in cur..end
      BY <2>1
    <3>2. TakeOut(Left, cur) => Step
      BY <2>4, <2>6, <2>8
    <3>3. TakeOut(anchor, cur) => Step
      BY <2>6, <2>8, <3>1
    <3>4. TakeOut(WordLeft, cur) => Step
      BY <2>4, <2>5, <2>8
    <3>5. TakeOut(cur, Right) => Step
      BY <2>4, <2>6, <2>9
    <3>6. TakeOut(cur, end) => Step
      BY <2>6, <2>9, <3>1
    <3>7. TakeOut(cur, WordRight) => Step
      BY <2>4, <2>5, <2>9
    <3> QED
      BY <2>13, <3>2, <3>3, <3>4, <3>5, <3>6, <3>7
      DEF Backspace, Delete, DeleteWord, ClearCurToAnchor, ClearCurToEnd
  <2>14. CASE \/ WriteLost \/ ReadBefore0 \/ Clear \/ ScrollUp \/ ScrollDown
              \/ ShowOther \/ ShowThis \/ UNCHANGED vars
    <3>1. UNCHANGED text
      BY <2>14 DEF WriteLost, ReadBefore0, Clear, ScrollUp, ScrollDown, ShowOther, ShowThis, vars
    <3> QED
      BY <2>10, <3>1 DEF text
  <2> QED
    BY <2>11, <2>12, <2>13, <2>14 DEF Next
<1> QED
  BY Invariance, <1>1, <1>2, PTL DEF Spec, ImplementsEditor, Editor!Spec
=============================================================================
