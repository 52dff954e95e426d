------------------------------ MODULE MCVterm ------------------------------
(* Vterm on screens of a few cells.                                         *)
EXTENDS Vterm

Words   == {Space, Letter}
Letters == {Letter}
=============================================================================
