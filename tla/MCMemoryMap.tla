----------------------------- MODULE MCMemoryMap ------------------------------
(* A ROM 03 IIgs, with a breakpoint over several regions or a watch of      *)
(* writes.                                                                  *)
EXTENDS MemoryMap
Breaks == {[pages |-> {<<"00", r>> : r \in {"zp", "ram", "txt2", "hires1", "c3", "d0"}},
            wr_only |-> FALSE],
           [pages |-> {<<"00", "hires1">>, <<"01", "shr">>}, wr_only |-> TRUE]}
===============================================================================
