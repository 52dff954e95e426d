----------------------------- MODULE LineEditor -----------------------------
(***************************************************************************)
(* What a terminal promises to the person who types: a line and a point in *)
(* it.  Output of a process takes away what is left of the point, as it    *)
(* cannot be edited any more.                                              *)
(***************************************************************************)
EXTENDS Integers, SequencesExt

CONSTANTS Chars,  \* what can be typed
          Space   \* what separates words

VARIABLES line,
          point   \* how many characters of line are left of the edit point

Init == line = <<>> /\ point = 0

Without(a, b) == SubSeq(line, 1, a) \o SubSeq(line, b + 1, Len(line))

\* Where words begin and end, as values of point; and where a step by a word
\* leads to.
WordStarts == {p \in 0..(Len(line) - 1) :
                  line[p + 1] # Space /\ (p = 0 \/ line[p] = Space)}
WordEnds   == {p \in 1..Len(line) :
                  line[p] # Space /\ (p = Len(line) \/ line[p + 1] = Space)}

Before == Max({p \in WordStarts : p < point} \cup {0})
After  == Min({p \in WordEnds : p > point} \cup {Len(line)})

Insert(c) == line' = InsertAt(line, point + 1, c) /\ point' = point + 1

GoTo(p) == line' = line /\ point' = p

Go == \E p \in {0, Len(line), Before, After, point - 1, point + 1} \cap 0..Len(line) : GoTo(p)

\* From the point to where a step would lead, either way.
Erase ==
    \/ \E a \in {0, Before, point - 1} \cap 0..point : line' = Without(a, point) /\ point' = a
    \/ \E b \in {Len(line), After, point + 1} \cap point..Len(line) :
          line' = Without(point, b) /\ point' = point

Output == line' = Without(0, point) /\ point' = 0

Enter == line' = <<>> /\ point' = 0

Next == (\E c \in Chars : Insert(c)) \/ Go \/ Erase \/ Output \/ Enter

Spec == Init /\ [][Next]_<<line, point>>
=============================================================================
