--------------------------------- MODULE MCDoc ---------------------------------
(* A pair of oscillators in their modes, beside a third that interrupts and *)
(* can be disabled, alone or together with one of the pair.                 *)
EXTENDS Doc
Modes == {Free, OneShot, Sync, Swap}
ControlValues == [o \in Osc |->
  CASE o = 0 -> [halt : BOOLEAN, mode : Modes, ie : BOOLEAN]
    [] o = 1 -> [halt : BOOLEAN, mode : {Sync, Swap}, ie : {TRUE}]
    [] o = 2 -> [halt : BOOLEAN, mode : {OneShot}, ie : {TRUE}]
    [] OTHER -> {}]
===============================================================================
