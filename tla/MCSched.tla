------------------------------ MODULE MCSched ------------------------------
(* Sched on two terminals.                                                  *)
EXTENDS Sched

MCTerms == {1, 2}
=============================================================================
