---------------------------------- MODULE Scc ----------------------------------
(***************************************************************************)
(* The Zilog 8530 as the Apple IIgs sees it (scc.c): the control and data  *)
(* registers of its two channels, the receive queue fed from the host's    *)
(* characters, the baud-rate, transmit and receive events, and the six     *)
(* interrupt lines.                                                        *)
(*                                                                         *)
(* Characters are counted, not named.  The register a control write goes   *)
(* to is the one its action names: any register may be the selected one.   *)
(* The event list is the number of SCC events queued of each kind, taken   *)
(* in any order, since no baud rate is fixed.  The output buffer and the   *)
(* host connection belong to SccModem.                                     *)
(***************************************************************************)
EXTENDS SccState, FiniteSets

NoBits == [rx_int |-> FALSE, tx_int |-> FALSE, br_gen |-> FALSE,
           loopback |-> FALSE, ext |-> FALSE]
Bits == [rx_int : BOOLEAN, tx_int : BOOLEAN, br_gen : BOOLEAN,
         loopback : BOOLEAN, ext : BOOLEAN]

(* scc_init, and the scc_reset of the first do_reset.                       *)
Init ==
  /\ reg = [p \in Port |-> NoBits] /\ mie = FALSE
  /\ wantint = [p \in Port |-> {}] /\ g_irq_pending = [p \in Port |-> {}]
  /\ pending = [p \in Port |-> {}] /\ queue = [e \in Port \X Kind |-> 0]
  /\ tx_buf_empty = [p \in Port |-> TRUE]
  /\ buffered = [p \in Port |-> 0] /\ depth = [p \in Port |-> 0]

-------------------------------------------------------------------------------
(* Interrupt lines.                                                         *)

(* add_irq gets out when one bit of its mask is up already: a line joins    *)
(* those of its port only when none of the wanted ones is up.               *)
Raised(up, want) == IF up \cap want = {} THEN want ELSE up \cap want

scc_evaluate_ints(p, enabled, want, irq) ==
  IF enabled THEN [irq EXCEPT ![p] = Raised(@, want[p])]
             ELSE [q \in Port |-> {}]

(* What a handler leaves on the lines when it ends with port p evaluated.   *)
Evaluate(p) == g_irq_pending' = scc_evaluate_ints(p, mie, wantint', g_irq_pending)

(* scc_maybe_rx_int on a queue of n characters.                             *)
RxWanted(p, n) ==
  CASE n = 0 -> wantint[p] \ {"RX"}
    [] n > 0 /\ reg[p].rx_int -> wantint[p] \union {"RX"}
    [] OTHER -> wantint[p]

-------------------------------------------------------------------------------
(* The receiver: a record of its two counters and its event's flag.         *)

Receiver(p) == [buffered |-> buffered[p], depth |-> depth[p],
                pending |-> "RX" \in pending[p]]
Room == InBufSize - 1
SpaceLeft(b) == (7 * InBufSize) \div 8 - b.buffered
Smaller(a, b) == IF a < b THEN a ELSE b

scc_maybe_rx_event(b) ==
  IF b.pending \/ b.buffered = 0 \/ b.depth >= QueueSize
    THEN b
    ELSE [buffered |-> b.buffered - 1, depth |-> b.depth + 1, pending |-> TRUE]

scc_add_to_readbuf(b) ==
  scc_maybe_rx_event([b EXCEPT !.buffered = Smaller(@ + 1, Room)])

(* n calls in a row: after the first the event is pending or the queue full *)
Received(b, n) ==
  IF n = 0 THEN b
           ELSE [scc_add_to_readbuf(b) EXCEPT !.buffered = Smaller(@ + n - 1, Room)]

(* Mutant: a read does not move the next character up.                      *)
PoppedOnly(b) == IF b.depth = 0 THEN b ELSE [b EXCEPT !.depth = @ - 1]

Popped(b) == IF b.depth = 0 THEN b
                            ELSE scc_maybe_rx_event([b EXCEPT !.depth = @ - 1])

(* The receiver of port p becomes b, n new events filed for it.             *)
SetReceiver(p, b) ==
  /\ buffered' = [buffered EXCEPT ![p] = b.buffered]
  /\ depth' = [depth EXCEPT ![p] = b.depth]
  /\ pending' = [pending EXCEPT ![p] = IF b.pending THEN @ \union {"RX"} ELSE @ \ {"RX"}]
  /\ wantint' = [wantint EXCEPT ![p] = RxWanted(p, b.depth)]
  /\ Evaluate(p)

Filed(p, k) == queue' = [queue EXCEPT ![<<p, k>>] = @ + 1]
Filing(p, k, cond) == IF cond THEN Filed(p, k) ELSE UNCHANGED queue

Receive(p, b) ==
  /\ SetReceiver(p, b)
  /\ Filing(p, "RX", b.pending /\ "RX" \notin pending[p])

(* The host's characters, from scc_update: no more than the space left.     *)
HostSends(p, n) ==
  /\ n <= SpaceLeft(Receiver(p))
  /\ Receive(p, Received(Receiver(p), n))
  /\ UNCHANGED <<reg, mie, tx_buf_empty>>

(* The virtual modem's answers come whatever the room.                      *)
ModemSays(p) ==
  /\ Receive(p, Received(Receiver(p), 1))
  /\ UNCHANGED <<reg, mie, tx_buf_empty>>

-------------------------------------------------------------------------------
(* The guest's registers.                                                   *)

(* $C03A/B read: n characters of the host come in first.                    *)
scc_read_data(p, n) ==
  LET b == Received(Receiver(p), n) IN
    /\ n > 0 => n <= SpaceLeft(Receiver(p))
    /\ IF n > 0 \/ b.depth > 0
         THEN Receive(p, Popped(b))
         ELSE UNCHANGED <<rcv, events, wantint, g_irq_pending>>
    /\ UNCHANGED <<reg, mie, tx_buf_empty>>

(* Mutant: every write files an event.                                      *)
TxFilesAlways(p) == TRUE

TxFiles(p) == "TX" \notin pending[p]

(* $C03A/B written: scc_maybe_tx_event once the character is gone.          *)
scc_write_data(p) ==
  /\ LET b == IF reg[p].loopback THEN Received(Receiver(p), 1) ELSE Receiver(p)
     IN
       /\ buffered' = [buffered EXCEPT ![p] = b.buffered]
       /\ depth' = [depth EXCEPT ![p] = b.depth]
       /\ wantint' = IF reg[p].loopback
                       THEN [wantint EXCEPT ![p] = RxWanted(p, b.depth)]
                       ELSE wantint
       /\ pending' = [pending EXCEPT ![p] =
                        @ \union {"TX"} \union (IF b.pending THEN {"RX"} ELSE {})]
       /\ queue' = [queue EXCEPT
            ![<<p, "TX">>] = IF TxFiles(p) THEN @ + 1 ELSE @,
            ![<<p, "RX">>] = IF b.pending /\ "RX" \notin pending[p] THEN @ + 1 ELSE @]
  /\ tx_buf_empty' = [tx_buf_empty EXCEPT ![p] = FALSE]
  /\ Evaluate(p)
  /\ UNCHANGED <<reg, mie>>

(* WR0's commands: 2 resets the external interrupts, 5 the transmitter's,   *)
(* 7 the highest line that is up.                                           *)
Highest(up) ==
  CASE "RX" \in up -> {"RX"} [] "RX" \notin up /\ "TX" \in up -> {"TX"}
    [] OTHER -> up

ResetKinds(p) == {{"ZEROCNT"}, {"TX"}, Highest(g_irq_pending[p])}

write_wr0(p, kinds) ==
  /\ wantint' = [wantint EXCEPT ![p] = @ \ kinds]
  /\ IF kinds = {} THEN UNCHANGED g_irq_pending ELSE Evaluate(p)
  /\ UNCHANGED <<reg, mie, events, tx_buf_empty, rcv>>

(* WR1 is only stored.                                                      *)
write_wr1(p, rx, tx) ==
  /\ reg' = [reg EXCEPT ![p].rx_int = rx, ![p].tx_int = tx]
  /\ UNCHANGED <<mie, wantint, g_irq_pending, events, tx_buf_empty, rcv>>

(* WR9: scc_reset_port of the channels named, scc_hard_reset_port of both   *)
(* when both are, and then the new master interrupt enable.                 *)
ResetBits(b, hard) ==
  [b EXCEPT !.loopback = FALSE, !.ext = FALSE, !.br_gen = @ /\ ~hard,
            !.rx_int = @ /\ ~hard, !.tx_int = @ /\ ~hard]

scc_reset_port(ports, hard) ==
  /\ reg' = [p \in Port |-> IF p \in ports THEN ResetBits(reg[p], hard) ELSE reg[p]]
  /\ wantint' = [p \in Port |-> IF p \in ports THEN {} ELSE wantint[p]]
  /\ tx_buf_empty' = [p \in Port |-> p \in ports \/ tx_buf_empty[p]]
  /\ depth' = [p \in Port |-> IF p \in ports THEN 0 ELSE depth[p]]
  /\ UNCHANGED events

(* Mutant: WR9 evaluates channel A only.                                    *)
EvaluateFirst(irq) == scc_evaluate_ints(0, mie', wantint', irq)

EvaluateBoth(irq) ==
  scc_evaluate_ints(1, mie', wantint', scc_evaluate_ints(0, mie', wantint', irq))

write_wr9(ports, enable) ==
  /\ scc_reset_port(ports, ports = Port)
  /\ mie' = enable
  /\ g_irq_pending' = EvaluateBoth(g_irq_pending)
  /\ UNCHANGED buffered

(* scc_maybe_br_event: the port's own WR9, which only port 0 has.           *)
BrWanted(p) == p = 0 /\ mie /\ reg'[p].br_gen /\ reg'[p].ext

scc_maybe_br_event(p, pend) ==
  /\ pending' = [pending EXCEPT ![p] =
                   IF BrWanted(p) THEN pend \union {"ZEROCNT"} ELSE pend]

write_wr14(p, gen, loop) ==
  /\ reg' = [reg EXCEPT ![p].br_gen = gen, ![p].loopback = loop]
  /\ scc_maybe_br_event(p, pending[p])
  /\ Filing(p, "ZEROCNT", BrWanted(p) /\ "ZEROCNT" \notin pending[p])
  /\ UNCHANGED <<mie, wantint, g_irq_pending, tx_buf_empty, rcv>>

write_wr15(p, ext) ==
  /\ reg' = [reg EXCEPT ![p].ext = ext]
  /\ scc_maybe_br_event(p, pending[p])
  /\ Filing(p, "ZEROCNT", BrWanted(p) /\ "ZEROCNT" \notin pending[p])
  /\ UNCHANGED <<mie, wantint, tx_buf_empty, rcv>>
  /\ Evaluate(p)

(* scc_reset, from do_reset: events stay queued and pending.                *)
scc_reset ==
  /\ scc_reset_port(Port, TRUE)
  /\ mie' = FALSE
  /\ buffered' = [p \in Port |-> 0]
  /\ g_irq_pending' = EvaluateBoth(g_irq_pending)

-------------------------------------------------------------------------------
(* scc_do_event.                                                            *)

Taken(p, k) == queue[<<p, k>>] > 0
Less(p, k) == queue' = [queue EXCEPT ![<<p, k>>] = @ - 1]

BrEvent(p) ==
  /\ Taken(p, "ZEROCNT")
  /\ UNCHANGED <<reg, mie, tx_buf_empty, rcv>>
  /\ wantint' = [wantint EXCEPT ![p] = IF reg[p].ext THEN @ \union {"ZEROCNT"} ELSE @]
  /\ Evaluate(p)
  /\ scc_maybe_br_event(p, pending[p] \ {"ZEROCNT"})
  /\ IF BrWanted(p) THEN UNCHANGED queue ELSE Less(p, "ZEROCNT")

TxEvent(p) ==
  /\ Taken(p, "TX")
  /\ pending' = [pending EXCEPT ![p] = @ \ {"TX"}]
  /\ Less(p, "TX")
  /\ tx_buf_empty' = [tx_buf_empty EXCEPT ![p] = TRUE]
  /\ wantint' = [wantint EXCEPT ![p] = IF reg[p].tx_int THEN @ \union {"TX"} ELSE @]
  /\ Evaluate(p)
  /\ UNCHANGED <<reg, mie, rcv>>

(* Mutant: the event does not move the next character up.                   *)
RxEventOnly(p) ==
  LET b == [Receiver(p) EXCEPT !.pending = FALSE] IN
    /\ Taken(p, "RX")
    /\ SetReceiver(p, b)
    /\ Less(p, "RX")
    /\ UNCHANGED <<reg, mie, tx_buf_empty>>

RxEvent(p) ==
  LET b == scc_maybe_rx_event([Receiver(p) EXCEPT !.pending = FALSE]) IN
    /\ Taken(p, "RX")
    /\ SetReceiver(p, b)
    /\ IF b.pending THEN UNCHANGED queue ELSE Less(p, "RX")
    /\ UNCHANGED <<reg, mie, tx_buf_empty>>

scc_do_event(p) == BrEvent(p) \/ TxEvent(p) \/ RxEvent(p)

-------------------------------------------------------------------------------
GuestAccess(p) ==
  \/ \E n \in 0 .. MaxRecv : scc_read_data(p, n)
  \/ scc_write_data(p)
  \/ \E kinds \in ResetKinds(p) : write_wr0(p, kinds)
  \/ \E ints \in Wr1Values : write_wr1(p, ints[1], ints[2])
  \/ \E v \in Wr14Values : write_wr14(p, v[1], v[2])
  \/ \E ext \in BOOLEAN : write_wr15(p, ext)

(* The channel outside Guest transmits with its interrupt on or off.        *)
PlainAccess(p) ==
  \/ scc_write_data(p)
  \/ \E tx \in BOOLEAN : write_wr1(p, FALSE, tx)
  \/ write_wr0(p, {"TX"})

Next ==
  \/ \E p \in Guest : GuestAccess(p) \/ ModemSays(p)
                      \/ \E n \in 1 .. MaxRecv : HostSends(p, n)
  \/ \E p \in Port \ Guest : PlainAccess(p)
  \/ \E ports \in SUBSET Port, enable \in BOOLEAN : write_wr9(ports, enable)
  \/ scc_reset
  \/ \E p \in Port : scc_do_event(p)

Spec == Init /\ [][Next]_chip

(* The event list brings every event to its time.                           *)
Fairness == \A p \in Port :
  WF_chip(BrEvent(p)) /\ WF_chip(TxEvent(p)) /\ WF_chip(RxEvent(p))
FairSpec == Spec /\ Fairness

-------------------------------------------------------------------------------
(* Properties, beside those of SccState.                                    *)

(* Every variable has a value of its type.                                  *)
TypeOK ==
  /\ reg \in [Port -> Bits] /\ mie \in BOOLEAN
  /\ wantint \in [Port -> SUBSET Kind]
  /\ g_irq_pending \in [Port -> SUBSET Kind]
  /\ pending \in [Port -> SUBSET Kind]
  /\ queue \in [Port \X Kind -> Nat]
  /\ tx_buf_empty \in [Port -> BOOLEAN]
  /\ buffered \in [Port -> 0 .. Room] /\ depth \in [Port -> 0 .. QueueSize]

(* Characters that wait without a stall reach the receive queue, unless     *)
(* do_reset throws them away first.                                         *)
RxComes == \A p \in Port :
  (buffered[p] > 0 /\ ~Stalled(p)) ~> (depth[p] > 0 \/ buffered[p] = 0)
===============================================================================
