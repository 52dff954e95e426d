------------------------------- MODULE Vterm -------------------------------
(***************************************************************************)
(* One terminal of src/src/kernel/console.c: its text, the line that is    *)
(* being edited, the pages that hold them and the part that is on screen.  *)
(* Keys come from gotInput, while the terminal is the one on screen;       *)
(* processes print to it whether it is or not.                             *)
(*                                                                         *)
(* Positions are counted in cells, two bytes each in the code; a line has  *)
(* Cols cells, and a page as many lines as the screen.                     *)
(***************************************************************************)
EXTENDS Integers

CONSTANTS Lines,    \* LINES, 24 in the code
          Cols,     \* cells of a line, 80 in the code
          Keys,     \* the characters that are typed, of Space and Letter
          MaxEnd    \* bound: cells of text

Blank   == "blank"    \* 0x0700, and what printing a newline leaves
Space   == "space"
Letter  == "letter"   \* any other character that was typed
Printed == "printed"  \* a character that a process has printed
Junk    == "junk"     \* what is read where there is no page

ASSUME VtermAssumption ==
    /\ {Lines, Cols, MaxEnd} \subseteq Nat \ {0}
    /\ Keys \subseteq {Space, Letter}

PageSize == Lines * Cols
Cells    == 0..(MaxEnd - 1)
Hidden   == -1

VARIABLES
    cells,      \* the text
    pages,      \* the pages that buf has
    anchor,     \* after the last character that cannot be edited
    cur,        \* the edit point
    end,        \* after the last character
    clear_top,  \* the line on top after a clear
    v_scroll,   \* lines scrolled up
    onScreen,   \* is this terminal "at"?
    screen,     \* the cells that video memory shows of it
    cursor,     \* where on the screen the cursor is seen, or Hidden
    fault,      \* the step that went wrong, or "none"
    long        \* history: has the line typed ever been longer than the screen?

text == <<cells, anchor, cur, end>>
view == <<onScreen, screen, cursor>>
vars == <<text, pages, clear_top, v_scroll, view, fault, long>>

Line(i) == i \div Cols
Page(i) == i \div PageSize

----------------------------------------------------------------------------
(* The viewport                                                             *)

\* The line on top before scrolling.  Differences are unsigned in the code,
\* so that a negative one counts as large.
BaseLine(c, e, ct) ==
    IF Line(e) - Line(c) \notin 0..(Lines - 1) THEN Line(c)
    ELSE IF Line(e) - ct \in 0..(Lines - 1) THEN ct
    ELSE Line(e) - Lines + 1

TopLine(c, e, ct, vs) == BaseLine(c, e, ct) - vs

Top == TopLine(cur, end, clear_top, v_scroll)

\* What syncScreen copies: tx is the text, ps its pages, tl the line on top.
View(tx, ps, tl) ==
    [i \in 0..(PageSize - 1) |-> LET j == tl * Cols + i IN
        IF Page(j) \notin ps THEN Junk ELSE IF j \in Cells THEN tx[j] ELSE Blank]

\* Where c is on the screen; curPositionInScreen is unsigned, too.
CursorAt(c, tl) ==
    IF c - tl * Cols \in 0..(PageSize - 1) THEN c - tl * Cols ELSE Hidden

\* Mutant of Updated: the cursor is moved only when it is on the screen.
MovedOnly(s, c, tl) == IF CursorAt(c, tl) = Hidden THEN s ELSE CursorAt(c, tl)

\* updateCursorPosition moves or hides the cursor that was at s; only
\* showCursor brings a hidden one back.
Updated(s, c, tl) == IF s = Hidden THEN Hidden ELSE CursorAt(c, tl)

\* syncScreen at the end of an action; s is the cursor before.
Sync(s) ==
    LET tl == TopLine(cur', end', clear_top', v_scroll')
    IN  /\ screen' = View(cells', pages', tl)
        /\ cursor' = Updated(s, cur', tl)

\* Mutant of BottomScreen: the screen is not refreshed.
StaleScreen == screen

\* scrollToBottom: the screen and the cursor that it leaves.
Bottom       == TopLine(cur, end, clear_top, 0)
BottomScreen == IF v_scroll = 0 THEN screen ELSE View(cells, pages, Bottom)
BottomCursor == IF v_scroll = 0 THEN cursor ELSE CursorAt(cur, Bottom)

\* Mutant of Ensured: not the page after it.
PageOfEnd(ps, e) == ps \cup {Page(e)}

\* ensurePages: the page of end, and the next.
Ensured(ps, e) == ps \cup {Page(e), Page(e) + 1}

Aged == long' = (long \/ Line(end') - Line(anchor') >= Lines)

----------------------------------------------------------------------------
(* Printing                                                                 *)

RestOfLine(p) == Cols - (p % Cols)

\* The cells that n calls of printcc at p write to.
HavePages(p, n) == \A i \in p..(end + n - 1) : Page(i) \in pages

\* What they leave: the text from p on has moved along.
Inserted(c, n, p) ==
    [i \in Cells |-> IF i < p \/ i >= end + n THEN cells[i]
                     ELSE IF i < p + n THEN c ELSE cells[i - n]]

\* printCharColor at p, scrolled up by vs.  Pages are added only when the
\* line on top has changed.
Put(c, n, p, vs) ==
    /\ end + n <= MaxEnd
    /\ HavePages(p, n)
    /\ cells' = Inserted(c, n, p)
    /\ cur' = p + n
    /\ end' = end + n
    /\ pages' = IF TopLine(p + n, end + n, clear_top, vs) # TopLine(p, end, clear_top, vs)
                THEN Ensured(pages, end + n) ELSE pages

\* printColorTo with a string of one character or of none; a longer one does the
\* same as several of these, since anchor is not looked at in between.  "\r" is
\* "\n" or, at the first column, the empty string.
PrintTo ==
    /\ fault = "none"
    /\ \/ Put(Printed, 1, cur, v_scroll)
       \/ Put(Blank, RestOfLine(cur), cur, v_scroll)
       \/ UNCHANGED <<cells, cur, end, pages>>
    /\ anchor' = cur'
    /\ UNCHANGED <<clear_top, v_scroll, onScreen, fault>>
    /\ Aged
    /\ IF onScreen THEN Sync(cursor) ELSE UNCHANGED <<screen, cursor>>

\* A character is written to a page that is not there, by printing or typing
\* it at the edit point or by a newline there or at the end.
WriteLost ==
    /\ fault = "none"
    /\ \E p \in {cur, end}, n \in 1..Cols :
          /\ (p = cur /\ n = 1) \/ n = RestOfLine(p)
          /\ end + n <= MaxEnd
          /\ ~HavePages(p, n)
    /\ fault' = "page"
    /\ UNCHANGED <<text, pages, clear_top, v_scroll, view, long>>

----------------------------------------------------------------------------
(* Editing.  All keys but Enter first scroll to the bottom.                 *)

Key == onScreen /\ fault = "none"

ToBottom == v_scroll' = 0 /\ UNCHANGED <<clear_top, onScreen, fault>>

Type(c) ==
    /\ Key
    /\ ToBottom
    /\ Put(c, 1, cur, 0)
    /\ UNCHANGED anchor
    /\ Aged
    /\ Sync(BottomCursor)

\* Mutant of Removed: what was at the end stays there.
RemovedNoBlank(a, b) ==
    [i \in Cells |-> IF i \in a..(end - (b - a) - 1) THEN cells[i + (b - a)] ELSE cells[i]]

\* The cells from a up to b are taken out, and the rest of the line moves up.
Removed(a, b) ==
    [i \in Cells |-> IF i < a \/ i >= end THEN cells[i]
                     ELSE IF i < end - (b - a) THEN cells[i + (b - a)] ELSE Blank]

\* Nothing else happens when there are none.
TakeOut(a, b) ==
    /\ Key
    /\ ToBottom
    /\ cells' = Removed(a, b)
    /\ end' = end - (b - a)
    /\ cur' = a
    /\ UNCHANGED <<pages, anchor, long>>
    /\ IF a = b THEN screen' = BottomScreen /\ cursor' = BottomCursor
                ELSE Sync(BottomCursor)

\* Only updateCursorPosition follows, and not even that at the same place.
MoveTo(c) ==
    /\ Key
    /\ ToBottom
    /\ cur' = c
    /\ UNCHANGED <<cells, pages, anchor, end, long>>
    /\ screen' = BottomScreen
    /\ cursor' = IF c = cur THEN BottomCursor
                 ELSE Updated(BottomCursor, c, TopLine(c, end, clear_top, 0))

\* Mutants of Left and Right: the ends of the line are not looked at.
LeftPastAnchor == IF cur = 0 THEN cur ELSE cur - 1
RightPastEnd   == IF cur = MaxEnd THEN cur ELSE cur + 1

Left  == IF cur = anchor THEN cur ELSE cur - 1
Right == IF cur = end THEN cur ELSE cur + 1

\* Where wordLeft stops: over spaces, then to the beginning of a word.
SpacesLeft == CHOOSE c \in anchor..cur :
    /\ \A i \in c..(cur - 1) : cells[i] = Space
    /\ c = anchor \/ cells[c - 1] # Space

WordLeft == CHOOSE c \in anchor..SpacesLeft :
    /\ \A i \in c..(SpacesLeft - 1) : cells[i] # Space
    /\ c = anchor \/ cells[c - 1] = Space

SpacesRight == CHOOSE c \in cur..end :
    /\ \A i \in cur..(c - 1) : cells[i] = Space
    /\ c = end \/ cells[c] # Space

\* Mutant of WordRight: only the spaces.
SpacesOnly == SpacesRight

WordRight == CHOOSE c \in SpacesRight..end :
    /\ \A i \in SpacesRight..(c - 1) : cells[i] # Space
    /\ c = end \/ cells[c] = Space

\* wordLeft and deleteWordLeft look at the cell before and only then ask
\* whether there is one: before the first cell this is a wild read.
LooksBefore0 == anchor = 0 /\ cur > 0 /\ WordLeft = 0

ReadBefore0 ==
    /\ Key
    /\ LooksBefore0
    /\ fault' = "before"
    /\ UNCHANGED <<text, pages, clear_top, v_scroll, view, long>>

CursorMove == MoveTo(Left) \/ MoveTo(Right)
CursorHome == MoveTo(anchor)
CursorEnd  == MoveTo(end)
WordMove   == (~LooksBefore0 /\ MoveTo(WordLeft)) \/ MoveTo(WordRight)

Backspace        == TakeOut(Left, cur)
Delete           == TakeOut(cur, Right)
DeleteWord       == (~LooksBefore0 /\ TakeOut(WordLeft, cur)) \/ TakeOut(cur, WordRight)
ClearCurToAnchor == TakeOut(anchor, cur)
ClearCurToEnd    == TakeOut(cur, end)

\* The bytes of the line, two from each cell in the code, which copies more of
\* them than there are; the string ends at the first blank.
M_readline ==
    LET byte(i) == IF Page(i) \notin pages THEN Junk
                   ELSE IF i \in Cells THEN cells[i] ELSE Blank
        over == anchor + 2 * (end - anchor)
        stop == CHOOSE i \in anchor..(over + 1) :
                   /\ i = over + 1 \/ byte(i) = Blank
                   /\ \A j \in anchor..(i - 1) : byte(j) # Blank
    IN  [i \in 1..(stop - anchor) |-> byte(anchor + i - 1)]

\* A newline is printed at the end; the view stays scrolled up.
Enter ==
    /\ Key
    /\ Put(Blank, RestOfLine(end), end, v_scroll)
    /\ anchor' = cur'
    /\ UNCHANGED <<clear_top, v_scroll, onScreen, fault>>
    /\ Aged
    /\ Sync(cursor)

----------------------------------------------------------------------------
(* The view                                                                 *)

Clear ==
    /\ Key
    /\ v_scroll' = 0
    /\ UNCHANGED <<text, onScreen, fault, long>>
    /\ IF Line(anchor) = Bottom
       THEN /\ UNCHANGED <<clear_top, pages>>
            /\ screen' = BottomScreen
            /\ cursor' = BottomCursor
       ELSE /\ clear_top' = Line(anchor)
            /\ pages' = Ensured(pages, end)
            /\ Sync(BottomCursor)

\* Mutant of UpBy: as far as is asked for.
UpByAll(n) == n

UpBy(n) == IF n > Top THEN Top ELSE n

\* By a line, by a screen, or as far as it goes.
ScrollUp == \E n \in {1, Lines, Top} :
    /\ Key
    /\ Top # 0
    /\ v_scroll' = v_scroll + UpBy(n)
    /\ UNCHANGED <<text, pages, clear_top, onScreen, fault, long>>
    /\ Sync(cursor)

ScrollDown == \E n \in {1, Lines, v_scroll} :
    /\ Key
    /\ v_scroll # 0
    /\ v_scroll' = IF n < v_scroll THEN v_scroll - n ELSE 0
    /\ UNCHANGED <<text, pages, clear_top, onScreen, fault, long>>
    /\ LET tl == TopLine(cur, end, clear_top, v_scroll')
       IN  screen' = View(cells, pages, tl) /\ cursor' = CursorAt(cur, tl)

\* showTerm, of another terminal or of this one.
ShowOther ==
    /\ Key
    /\ onScreen' = FALSE
    /\ screen' = [i \in 0..(PageSize - 1) |-> Blank]
    /\ cursor' = Hidden
    /\ UNCHANGED <<text, pages, clear_top, v_scroll, fault, long>>

ShowThis ==
    /\ ~onScreen /\ fault = "none"
    /\ onScreen' = TRUE
    /\ screen' = View(cells, pages, Top)
    /\ cursor' = CursorAt(cur, Top)
    /\ UNCHANGED <<text, pages, clear_top, v_scroll, fault, long>>

----------------------------------------------------------------------------
\* showTerm has shown the terminal for the first time, and ensureTerm has made
\* its first two pages.
Init ==
    /\ cells = [i \in Cells |-> Blank]
    /\ pages = {0, 1}
    /\ anchor = 0 /\ cur = 0 /\ end = 0
    /\ clear_top = 0 /\ v_scroll = 0
    /\ onScreen = TRUE
    /\ screen = [i \in 0..(PageSize - 1) |-> Blank]
    /\ cursor = 0
    /\ fault = "none"
    /\ long = FALSE

Next ==
    \/ PrintTo \/ WriteLost
    \/ (\E c \in Keys : Type(c)) \/ Enter \/ ReadBefore0
    \/ CursorMove \/ CursorHome \/ CursorEnd \/ WordMove
    \/ Backspace \/ Delete \/ DeleteWord \/ ClearCurToAnchor \/ ClearCurToEnd
    \/ Clear \/ ScrollUp \/ ScrollDown \/ ShowOther \/ ShowThis

Spec == Init /\ [][Next]_vars

----------------------------------------------------------------------------
(* Properties                                                               *)

\* The values of the variables; the indices are in order and within the text.
TypeOK ==
    /\ cells \in [Cells -> {Blank, Space, Letter, Printed}]
    /\ {0, 1} \subseteq pages /\ pages \subseteq Nat
    /\ {anchor, cur, end, clear_top, v_scroll} \subseteq Nat
    /\ anchor <= cur /\ cur <= end /\ end <= MaxEnd
    /\ onScreen \in BOOLEAN /\ long \in BOOLEAN
    /\ screen \in [0..(PageSize - 1) -> {Blank, Space, Letter, Printed, Junk}]
    /\ cursor \in Hidden..(PageSize - 1)
    /\ fault \in {"none", "page", "before"}

\* As long as no line has been typed that is longer than the screen, pages are
\* added in time: nothing is written or shown from a page that is not there,
\* although ensurePages is called only when the line on top changes.
PagesThere ==
    ~long => /\ fault # "page"
             /\ \A i \in 0..(PageSize - 1) :
                   Page(TopLine(cur, end, clear_top, v_scroll) * Cols + i) \in pages

\* The view never begins before the first line, where top would wrap around;
\* and without scrolling the edit point is on the screen.
TopInRange ==
    /\ Top >= 0
    /\ v_scroll = 0 => CursorAt(cur, Top) # Hidden

\* The cursor is never seen but where the edit point is, and it is seen
\* whenever nothing is scrolled, although it is hidden in one place and shown
\* in others.  (Scrolled up it may stay hidden when output brings the edit point
\* back into view.)
CursorTrue ==
    onScreen => /\ cursor \in {Hidden, CursorAt(cur, Top)}
                /\ v_scroll = 0 => cursor # Hidden

\* Unless the line typed is longer than the screen, the screen shows what the
\* indices say, although moving the edit point does not refresh it.
ScreenTrue ==
    onScreen /\ Line(end) - Line(anchor) < Lines => screen = View(cells, pages, Top)

EditLine == [i \in 1..(end - anchor) |-> cells[anchor + i - 1]]

\* The line that Enter hands to the reader is what stands between anchor and
\* end, no more and no less, although it is copied until a zero that only the
\* blanks after end provide, through deletions and insertions of all kinds.
\* (Where a long line ends at a page that is not there, it ends in junk.)
ReadsTheLine == Page(end) \in pages => M_readline = EditLine

Editor == INSTANCE LineEditor WITH Chars <- Keys, line <- EditLine, point <- cur - anchor

\* Keys do to the line what they promise, whatever is printed meanwhile.
ImplementsEditor == Editor!Spec

\* What is left of anchor is never changed again, and anchor never goes back.
HistoryKept ==
    [][/\ anchor' >= anchor
       /\ \A i \in 0..(anchor - 1) : cells'[i] = cells[i]]_vars
=============================================================================
