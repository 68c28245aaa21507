----------------------------- MODULE MCEventList ------------------------------
(* The linked list on a pool of a few nodes, against the queue it promises. *)
EXTENDS EventList

CONSTANTS e1
===============================================================================
