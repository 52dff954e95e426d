------------------------------- MODULE MCHeap -------------------------------
(* Heap on a map of a few qwords with three entries each.  The sizes are a   *)
(* single block, parts of a qword, a whole one, one block more, and two      *)
(* qwords and a block.                                                       *)
EXTENDS Heap

MCSizes == {1, 2, 3, 4, 7}
=============================================================================
