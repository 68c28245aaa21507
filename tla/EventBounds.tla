------------------------------ MODULE EventBounds -----------------------------
(* What EventQueue and EventList share besides the operators of EventOps.   *)
EXTENDS EventOps

CONSTANT MaxTime     \* bound of the model: g_cur_dfcyc stops here

ASSUME MaxTimeAssumption == MaxTime \in Nat
===============================================================================
