----------------------------- MODULE MCProgram -----------------------------
(* Program with nothing left out: its state space is finite as it is. *)
EXTENDS Program

\* Memory that was never written holds anything.
Anything == {"junk", "zero"}
=============================================================================
