------------------------------ MODULE MCMainLoop ------------------------------
(* The main loop on a frame of a few instructions.                          *)
EXTENDS MainLoop

CONSTANT scc

(* Already due, within the frame, and past its end.                         *)
MCDelays == {-1, 2, 5}
===============================================================================
