------------------------------ MODULE MCParts ------------------------------
(* The parts of the kernel that share no state with each other: lists, the  *)
(* keyboard, the clock with the periodic callbacks, formatting, and the     *)
(* memory of processes.  A run takes one of them and leaves the others as   *)
(* they were.                                                               *)
EXTENDS List, Keyboard, Clock, Format, ProcMemory

VARIABLE part

Number(n) == [n |-> n, text |-> <<>>]
String(t) == [n |-> 0, text |-> t]
Piece(chars, args, out, fits) == [chars |-> chars, args |-> args, out |-> out, fits |-> fits]

PlainPiece == Piece(<<"x">>, <<>>, <<"x">>, TRUE)

\* Pieces as the kernel's formats have them, and some that are no formats.
MCPieces ==
    {PlainPiece,
     Piece(<<"%", "%">>, <<>>, <<"%">>, TRUE),
     Piece(<<"%", "z">>, <<>>, <<"%", "z">>, TRUE),
     Piece(<<"%", "p", "0", "x">>, <<>>, <<"%", "p", "x">>, TRUE),
     Piece(<<"%", "u">>, <<Number(0)>>, <<"0">>, TRUE),
     Piece(<<"%", "u">>, <<Number(102)>>, <<"1", "0", "2">>, TRUE),
     Piece(<<"%", "p", " ", "2", "u">>, <<Number(7)>>, <<" ", "7">>, TRUE),
     Piece(<<"%", "p", " ", "2", "u">>, <<Number(102)>>, <<"1", "0", "2">>, FALSE),
     Piece(<<"%", "p", "0", "2", "u">>, <<Number(5)>>, <<"0", "5">>, TRUE),
     Piece(<<"%", "p", "0", "5", "u">>, <<Number(40)>>, <<"0", "0", "0", "4", "0">>, TRUE),
     Piece(<<"%", "p", "0", "2", "h">>, <<Number(10)>>, <<"0", "A">>, TRUE),
     Piece(<<"%", "s">>, <<String(<<"y", "y", "y", "y", "y">>)>>, <<"y", "y", "y", "y", "y">>, TRUE),
     Piece(<<"%", "p", " ", "1", "0", "s">>, <<String(<<"y">>)>>,
           <<" ", " ", " ", " ", " ", " ", " ", " ", " ", "y">>, TRUE),
     Piece(<<"%", "p", "0", "1", "s">>, <<String(<<"y", "y">>)>>, <<"y", "y">>, TRUE),
     Piece(<<"%", "c">>, <<String(<<"z">>)>>, <<"z">>, TRUE),
     Piece(<<"%">>, <<>>, <<"%">>, FALSE)}

MCBeyond == <<"x", "%", "p">>

MCArguments == {Number(n) : n \in {0, 5, 7, 10, 40, 102}} \cup
               {String(t) : t \in {<<"y">>, <<"y", "y">>, <<"y", "y", "y", "y", "y">>, <<"z">>}}

MCPlaces == [c \in {"u", "h"} |-> IF c = "u" THEN 3 ELSE 2]

MCWanted ==
    {[count |-> 4, period |-> 1, f |-> UpdateClock],
     [count |-> 3, period |-> 1, f |-> "updateHeapUse"],
     [count |-> 1, period |-> 2, f |-> "check_queue_caps"],
     [count |-> 9, period |-> 1, f |-> "tooOften"]}

\* The outputs above are what the formats that fit mean.
ASSUME MCPiecesArePieces == \A q \in Pieces : q.fits => IsPiece(q)

----------------------------------------------------------------------------
\* A part that is not taken begins in one state.
ClockAtRest  == hrs24 = TRUE /\ bcd = FALSE /\ cmos = CHOOSE t \in BootTimes : TRUE
FormatAtRest == pieces = <<PlainPiece>> /\ dyn = TRUE /\ padc = " "

MCInit ==
    /\ part \in {"list", "keyboard", "clock", "format", "memory"}
    /\ IF part = "clock" THEN TRUE ELSE ClockAtRest
    /\ IF part = "format" THEN TRUE ELSE FormatAtRest
    /\ ListInit /\ KbdInit /\ ClockInit /\ FormatInit /\ MemInit

MCNext ==
    \/ part = "list" /\ ListNext /\ UNCHANGED <<kbdVars, clockVars, formatVars, memVars, part>>
    \/ part = "keyboard" /\ KbdNext /\ UNCHANGED <<listVars, clockVars, formatVars, memVars, part>>
    \/ part = "clock" /\ ClockNext /\ UNCHANGED <<listVars, kbdVars, formatVars, memVars, part>>
    \/ part = "format" /\ FormatNext /\ UNCHANGED <<listVars, kbdVars, clockVars, memVars, part>>
    \/ part = "memory" /\ MemNext /\ UNCHANGED <<listVars, kbdVars, clockVars, formatVars, part>>

MCSpec == MCInit /\ [][MCNext]_<<listVars, kbdVars, clockVars, formatVars, memVars, part>>
=============================================================================
