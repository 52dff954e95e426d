---------------------------- MODULE MCInterrupts ----------------------------
(* Rings of three cells, of which a third pending item makes them grow.     *)
EXTENDS Interrupts
=============================================================================
