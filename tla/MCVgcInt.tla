------------------------------- MODULE MCVgcInt -------------------------------
(* The video interrupts in frames of a few lines.                           *)
EXTENDS VgcInt
===============================================================================
