------------------------------- MODULE SccState --------------------------------
(* The state of the SCC, with the sizes of its buffers and what its host and  *)
(* its guest do, and what is to be true of it.                                *)
EXTENDS Integers

CONSTANTS
  InBufSize,   \* SCC_INBUF_SIZE, 512
  QueueSize,   \* the characters rx_queue takes, 3
  MaxRecv,     \* characters one reading of the host connection gives
  Guest,       \* the channels of which the guest changes every register
  Wr1Values,   \* <<receive, transmit>>: the interrupt enables it writes
  Wr14Values   \* <<generator, loopback>>

ASSUME InBufAssumption == InBufSize \in Nat /\ InBufSize >= 2
ASSUME RecvAssumption == MaxRecv \in Nat \ {0} /\ QueueSize \in Nat \ {0}
ASSUME GuestAssumption ==
  /\ Guest \subseteq {0, 1}
  /\ Wr1Values \subseteq BOOLEAN \X BOOLEAN /\ Wr14Values \subseteq BOOLEAN \X BOOLEAN

Port == {0, 1}                   \* channel A is port 0, slot 1
Kind == {"RX", "TX", "ZEROCNT"}  \* the BR event raises ZEROCNT

VARIABLES
  reg,         \* the bits of WR1, WR14 and WR15 that are acted on
  mie,         \* WR9's master interrupt enable, in g_scc[0]
  wantint,     \* [Port -> SUBSET Kind]: the wantint_* that are set
  g_irq_pending, \* [Port -> SUBSET Kind]: the SCC's lines that are up
  pending,     \* [Port -> SUBSET Kind]: the *_event_pending that are set
  queue,       \* [Port \X Kind -> Nat]: the SCC events in the event list
  tx_buf_empty,
  buffered,    \* characters between in_rdptr and in_wrptr
  depth        \* rx_queue_depth

rcv == <<buffered, depth>>
events == <<pending, queue>>
chip == <<reg, mie, wantint, g_irq_pending, events, tx_buf_empty, rcv>>

-------------------------------------------------------------------------------
(* A port holds a line up exactly while the master enable is set and it     *)
(* wants an interrupt, and only lines it wants: nothing survives a register *)
(* write or a reset that withdrew its cause, and though add_irq may lose    *)
(* one of two wants, the guest is never left without any.                   *)
IrqDelivered == \A p \in Port :
  LET wanted == IF mie THEN wantint[p] ELSE {} IN
  /\ g_irq_pending[p] \subseteq wanted
  /\ wanted # {} => g_irq_pending[p] # {}

(* An *_event_pending flag is set exactly while one such event is in the    *)
(* event list, across channel resets, which clear neither; and a full       *)
(* transmit buffer has the event that empties it on its way.                *)
EventBooked == \A p \in Port :
  /\ \A k \in Kind : queue[<<p, k>>] = IF k \in pending[p] THEN 1 ELSE 0
  /\ ~tx_buf_empty[p] => "TX" \in pending[p]

Stalled(p) == buffered[p] > 0 /\ depth[p] < QueueSize /\ "RX" \notin pending[p]

(* Waiting characters stop moving only when a reset empties a full receive  *)
(* queue under them: nothing else leaves them without an event.             *)
StalledByReset ==
  [][\A p \in Port : Stalled(p)' /\ ~Stalled(p) => depth[p] = QueueSize /\ depth'[p] = 0]_chip
===============================================================================
