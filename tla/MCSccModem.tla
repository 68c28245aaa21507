------------------------------- MODULE MCSccModem -------------------------------
(* Slot 1's port as a virtual modem or an outgoing connection.              *)
EXTENDS SccModem
===============================================================================
