--------------------------------- MODULE MCScc ---------------------------------
(* Channel A with every register, channel B transmitting beside it.         *)
EXTENDS Scc
BothOrNone == {<<FALSE, FALSE>>, <<TRUE, TRUE>>}
OneOrNone == {<<FALSE, FALSE>>, <<TRUE, FALSE>>, <<FALSE, TRUE>>}
===============================================================================
