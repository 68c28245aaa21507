----------------------------- MODULE MCMockingboard -----------------------------
(* Both timers of one chip with counts that differ, and timer 1 of both.    *)
EXTENDS Mockingboard
OneChip == [u \in {<<0, "T1">>, <<0, "T2">>} |-> IF u[2] = "T1" THEN {1} ELSE {0}]
BothChips == [u \in {<<0, "T1">>, <<1, "T1">>} |-> {0}]
GuestPrograms == {OneChip, BothChips}
===============================================================================
