-------------------------------- MODULE SccModem --------------------------------
(***************************************************************************)
(* The host side of one serial port: opening and closing it in the mode    *)
(* the user configured (scc.c), the virtual modem, its incoming and        *)
(* outgoing connections, and the output buffer (scc_socket_driver.c).      *)
(*                                                                         *)
(* The handlers call each other, so each is an operator on the port's      *)
(* record and an action applies the one the program enters by.  What the   *)
(* guest sends is a whole modem command or a piece of data, and what it is *)
(* to read an answer, the echo of a command or a piece of data; the answers *)
(* are told apart only as CONNECT and the rest.  What the host does during *)
(* an action is the action's parameter host.                               *)
(***************************************************************************)
EXTENDS Integers, Sequences

CONSTANTS
  PortNo,          \* 0 is slot 1, 1 is slot 2
  Modes,           \* the values of g_serial_cfg the user picks
  AllowIncoming,   \* g_serial_modem_allow_incoming
  NumRings,        \* rings before the modem decides, 4
  AnswerRings,     \* the S0 the guest sets to have calls answered
  MaxOut,          \* SCC_OUTBUF_SIZE - 1, in pieces of output
  MaxIn            \* 7/8 of SCC_INBUF_SIZE, in pieces of input

ASSUME PortAssumption == PortNo \in {0, 1} /\ AllowIncoming \in BOOLEAN
ASSUME ModesAssumption == Modes \subseteq 0 .. 3
ASSUME RingsAssumption == {NumRings, AnswerRings, MaxOut, MaxIn} \subseteq Nat \ {0}

Serial == 0       \* a real serial device
Modem == 1        \* the virtual modem
Outgoing == 2     \* a connection to the configured address
Incoming == 3     \* a listener on 6501 or 6502
Unopened == -1
Failed == -2

(* Commands, as lines; in data mode they are data like any other.           *)
Output == {"data", "plus", "ata", "ath", "ato", "atd", "ats0", "atz"}

(* How long ago the last byte went out: under .5 s, .8 s, .9 s, or longer.  *)
Long == 3

VARIABLES
  g_serial_cfg,
  scc,    \* the port's record
  frame   \* the parity of the frames gone by

vars == <<g_serial_cfg, scc, frame>>

Host == [ok : BOOLEAN,       \* open, socket, bind, connect succeed
         caller : BOOLEAN,   \* a call waits at the listener
         line : {"alive", "talks", "slow", "gone"}]   \* talks: it has sent something
Quiet == {host \in Host : host.line # "talks"}   \* all that a write tells apart

Init ==
  /\ g_serial_cfg \in Modes /\ frame = 0
  /\ scc = [cur_state |-> Unopened, sockfd |-> "none", rdwrfd |-> "none",
            modem_state |-> FALSE, dcd |-> PortNo = 0, rings |-> 0,
            ring_wait |-> FALSE, s0 |-> 0, plus |-> 0, since |-> Long,
            out |-> <<>>, inbuf |-> 0, write_called |-> FALSE,
            dtr_off |-> FALSE, told |-> FALSE]

-------------------------------------------------------------------------------
(* Sockets.                                                                 *)

(* scc_add_to_readbuf of a piece: above 7/8 only what the port itself has   *)
(* to say comes in, as long as it fits.                                     *)
Deaf(s) == s.inbuf = MaxIn
Hears(s) == [s EXCEPT !.inbuf = IF Deaf(s) THEN @ ELSE @ + 1]

(* A modem answer: only CONNECT tells the guest it talks to the line.       *)
Says(s, code) ==
  CASE code = "CONNECT" /\ s.cur_state # Modem -> [s EXCEPT !.told = FALSE]
    [] code = "RING" -> Hears(s)
    [] OTHER -> [Hears(s) EXCEPT !.told = code = "CONNECT"]

scc_socket_close(s) ==
  [s EXCEPT !.sockfd = "none", !.rdwrfd = "none", !.rings = 0,
            !.modem_state = s.cur_state = Modem,
            !.dcd = @ /\ s.cur_state # Modem]

scc_socket_close_extended(s, allow_retry) ==
  LET c == scc_socket_close(s) IN
    CASE s.cur_state = Modem -> Says(c, "NO CARRIER")
      [] s.cur_state = Outgoing /\ ~allow_retry -> [c EXCEPT !.cur_state = Failed]
      [] OTHER -> c

MayListen(s) ==
  \/ s.cur_state = Incoming
  \/ s.cur_state = Modem /\ AllowIncoming /\ ~s.dtr_off

scc_socket_open_incoming(s, host) ==
  IF s.sockfd # "none"
    THEN s
    ELSE [scc_socket_close(s) EXCEPT
            !.sockfd = IF MayListen(s) /\ host.ok THEN "listen" ELSE "none"]

(* Mutant: the old connection is not let go.                                *)
scc_socket_open_outgoing_over(s, host) ==
  IF host.ok
    THEN [Says(s, "CONNECT") EXCEPT !.dcd = TRUE, !.modem_state = FALSE,
                                    !.sockfd = "out"]
    ELSE scc_socket_close_extended(s, FALSE)

scc_socket_open_outgoing(s, host) ==
  LET c == scc_socket_close(s) IN
    IF host.ok
      THEN [Says(c, "CONNECT") EXCEPT !.dcd = TRUE, !.modem_state = FALSE,
                                      !.sockfd = "out", !.rdwrfd = "out"]
      ELSE scc_socket_close_extended(c, FALSE)

(* must: there is output, so an outgoing port dials now.                    *)
scc_socket_maybe_open(s, must, host) ==
  CASE s.sockfd # "none" ->
         IF s.dtr_off /\ s.cur_state = Modem
           THEN [scc_socket_close(s) EXCEPT !.told = FALSE] ELSE s
    [] s.sockfd = "none" /\ s.cur_state = Outgoing ->
         IF must THEN scc_socket_open_outgoing(s, host) ELSE s
    [] OTHER -> scc_socket_open_incoming(s, host)

-------------------------------------------------------------------------------
(* Calls that come in.                                                      *)

(* scc_socket_do_answer, once scc_accept_socket has had its chance.         *)
Answered(s) ==
  IF s.rdwrfd = "none"
    THEN scc_socket_close_extended(s, FALSE)
    ELSE [(IF s.modem_state THEN Says(s, "CONNECT") ELSE s) EXCEPT
            !.modem_state = FALSE, !.dcd = TRUE, !.rings = 0]

(* Mutant: the rings are not counted down.                                  *)
scc_socket_modem_do_ring_on(s) ==
  IF s.rings > 0 /\ s.modem_state /\ ~s.ring_wait
    THEN Says([s EXCEPT !.ring_wait = TRUE], "RING")
    ELSE s

(* A ringing port has its caller, so the accept before an answer is void.   *)
scc_socket_modem_do_ring(s) ==
  LET r == [s EXCEPT !.rings = @ - 1, !.ring_wait = TRUE] IN
    IF s.rings = 0 \/ ~s.modem_state \/ s.ring_wait
      THEN s
      ELSE CASE r.rings > 0 -> Says(r, "RING")
             [] r.rings = 0 /\ r.s0 > 0 -> Answered(r)
             [] OTHER -> scc_socket_close(r)

scc_accept_socket(s, host) ==
  LET o == scc_socket_open_incoming(s, host) IN
    IF o.sockfd = "none" \/ o.rdwrfd # "none" \/ ~host.caller
      THEN o
      ELSE scc_socket_modem_do_ring(
             [o EXCEPT !.rdwrfd = "in", !.ring_wait = FALSE,
                       !.rings = IF o.s0 > 0 THEN o.s0 ELSE NumRings])

scc_socket_do_answer(s, host) == Answered(scc_accept_socket(s, host))

scc_socket_fill_readbuf(s, host) ==
  LET r == scc_socket_modem_do_ring(scc_accept_socket(s, host)) IN
    CASE r.modem_state \/ r.rdwrfd = "none" -> r
      [] ~r.modem_state /\ r.rdwrfd # "none" /\ host.line = "gone" ->
           scc_socket_close_extended(r, TRUE)
      [] OTHER -> IF host.line = "talks" THEN Hears(r) ELSE r

-------------------------------------------------------------------------------
(* Output.                                                                  *)

CanGoOnline(s) == s.dcd /\ s.modem_state /\ s.rdwrfd # "none"

(* scc_socket_modem_write of a command line, which is echoed, and           *)
(* scc_socket_do_cmd_str.                                                   *)
scc_socket_modem_write(s, c, host) ==
  LET o == Hears(scc_socket_open_incoming(s, host)) IN
    CASE c = "ats0" -> Says([o EXCEPT !.s0 = AnswerRings], "OK")
      [] c = "atz" -> Says([o EXCEPT !.s0 = 0], "OK")
      [] c = "ath" -> Says(scc_socket_close(o), "OK")
      [] c = "ata" -> scc_socket_do_answer(o, host)
      [] c = "atd" -> scc_socket_open_outgoing(o, host)
      [] c = "ato" -> IF CanGoOnline(o)
                        THEN [Says(o, "CONNECT") EXCEPT !.modem_state = FALSE]
                        ELSE Says(o, "OK")
      [] OTHER -> o

(* The escape sequence: a pause, and pluses close together.                 *)
PlusMode(s, c) ==
  CASE c # "plus" -> 0
    [] c = "plus" /\ s.plus = 0 -> IF s.since > 0 THEN 1 ELSE 0
    [] OTHER -> IF s.since < 2 /\ s.plus < 4 THEN s.plus + 1 ELSE s.plus

Popped(s) == [s EXCEPT !.out = Tail(@)]
Takes(host) == host.line \in {"alive", "talks"}

(* A send that would block fails like one to a dead socket.                 *)
Sent(s, c, host) ==
  LET t == [s EXCEPT !.plus = PlusMode(s, c), !.since = 0] IN
    IF Takes(host) THEN Popped(t) ELSE scc_socket_close_extended(t, TRUE)

(* One round of the write loop, on the piece c at the head of out.  rdwrfd  *)
(* is read before the port is opened.                                       *)
Round(run, c, host) ==
  LET s == run.scc
      o == scc_socket_maybe_open(s, TRUE, host)
      t == IF o.modem_state
             THEN [scc_socket_modem_write(Popped(o), c, host) EXCEPT
                     !.write_called = FALSE]
             ELSE IF s.rdwrfd = "none" THEN o ELSE Sent(o, c, host)
  IN
    IF run.done THEN run ELSE [scc |-> t, done |-> Len(t.out) = Len(s.out)]

Escaped(s) ==
  IF s.since = Long /\ s.plus = 3 /\ ~s.modem_state /\ s.cur_state = Modem
    THEN Says([s EXCEPT !.modem_state = TRUE, !.plus = 0], "OK")
    ELSE s

(* The loop runs over the pieces there are at its start, until one stays.   *)
scc_socket_empty_writebuf(s, host) ==
  LET e == Escaped(scc_socket_maybe_open(s, FALSE, host))
      run[n \in 0 .. Len(e.out)] ==
        IF n = 0 THEN [scc |-> e, done |-> FALSE]
                 ELSE Round(run[n - 1], e.out[n], host)
  IN run[Len(e.out)].scc

-------------------------------------------------------------------------------
(* The port.                                                                *)

scc_socket_open(s, cfg, host) ==
  LET o == [s EXCEPT !.cur_state = cfg, !.sockfd = "none", !.rdwrfd = "none",
                     !.modem_state = cfg = Modem, !.rings = 0,
                     !.dcd = cfg # Modem, !.s0 = 0, !.told = FALSE]
  IN IF cfg = Outgoing THEN o ELSE scc_socket_open_incoming(o, host)

scc_port_open(s, host) ==
  IF g_serial_cfg = Serial
    THEN [s EXCEPT !.cur_state = IF host.ok THEN Serial ELSE Unopened]
    ELSE scc_socket_open(s, g_serial_cfg, host)

scc_port_close(s) == [scc_socket_close(s) EXCEPT !.cur_state = Unopened]

(* scc_is_port_closed tries to open the port first.                         *)
Opened(s, host) ==
  LET o == IF s.cur_state = Unopened THEN scc_port_open(s, host) ELSE s IN
    [o EXCEPT !.cur_state = IF @ = Unopened THEN Failed ELSE @]

(* cur_state is read before the port is opened.                             *)
scc_try_to_empty_writebuf(s, host) ==
  LET o == Opened(s, host)
      w == [o EXCEPT !.write_called = TRUE]
  IN CASE s.write_called -> s
       [] ~s.write_called /\ o.cur_state < 0 -> o
       [] ~s.write_called /\ o.cur_state >= 0 /\ s.cur_state = Serial ->
            IF Takes(host) THEN [w EXCEPT !.out = <<>>] ELSE w
       [] ~s.write_called /\ o.cur_state >= 0 /\ s.cur_state > Serial ->
            scc_socket_empty_writebuf(w, host)
       [] OTHER -> w

scc_serial_fill_readbuf(s, host) ==
  [(IF host.line = "talks" THEN Hears(s) ELSE s) EXCEPT !.dcd = Takes(host)]

(* Calls, rings and the line wait while the guest has much to read.         *)
scc_try_fill_readbuf(s, host) ==
  LET o == Opened(s, host) IN
    CASE Deaf(s) -> s
      [] ~Deaf(s) /\ o.cur_state = Serial -> scc_serial_fill_readbuf(o, host)
      [] ~Deaf(s) /\ o.cur_state > Serial -> scc_socket_fill_readbuf(o, host)
      [] OTHER -> o

(* Once in a frame.                                                         *)
scc_update(host) ==
  LET w == scc_try_to_empty_writebuf([scc EXCEPT !.write_called = FALSE], host) IN
    /\ scc' = [scc_try_fill_readbuf(w, host) EXCEPT !.write_called = FALSE]
    /\ frame' = 1 - frame
    /\ UNCHANGED g_serial_cfg

(* scc_transmit and scc_add_to_writebuf: a closed port or a full buffer     *)
(* loses what the guest writes.                                             *)
Transmitted(s, c, host) ==
  LET o == Opened(s, host) IN
    IF o.cur_state < 0 \/ Len(o.out) = MaxOut THEN o
                                             ELSE [o EXCEPT !.out = Append(@, c)]

scc_write_data(c, host) ==
  /\ scc' = scc_try_to_empty_writebuf(Transmitted(scc, c, host), host)
  /\ UNCHANGED <<g_serial_cfg, frame>>

Taken(s) == [s EXCEPT !.inbuf = IF @ = 0 THEN 0 ELSE @ - 1]

(* The character read may be the last of its piece, to come out of in_buf   *)
(* for the next to be read; an RX event moves one into the queue as well.   *)
scc_read_data(last, host) ==
  /\ scc' = LET r == scc_try_fill_readbuf(scc, host) IN IF last THEN Taken(r) ELSE r
  /\ UNCHANGED <<g_serial_cfg, frame>>

scc_maybe_rx_event ==
  /\ scc.inbuf > 0
  /\ scc' = Taken(scc)
  /\ UNCHANGED <<g_serial_cfg, frame>>

(* WR5: the guest drops DTR, or raises it again.  Dropping it is its own    *)
(* doing: it no longer counts on the line.                                  *)
write_wr5(off) ==
  /\ scc' = [scc EXCEPT !.dtr_off = off, !.told = @ /\ ~off]
  /\ UNCHANGED <<g_serial_cfg, frame>>

(* A channel reset clears WR5's DTR bit; scc_reset forgets more.            *)
scc_reset_port ==
  /\ scc' = [scc EXCEPT !.dtr_off = FALSE]
  /\ UNCHANGED <<g_serial_cfg, frame>>

scc_reset ==
  /\ scc' = [scc EXCEPT !.dtr_off = FALSE, !.out = <<>>, !.inbuf = 0,
                        !.dcd = PortNo = 0, !.write_called = FALSE,
                        !.told = FALSE]
  /\ UNCHANGED <<g_serial_cfg, frame>>

(* The user changes the mode, the address or the device.                    *)
cfg_changed(cfg) ==
  /\ g_serial_cfg # cfg
  /\ g_serial_cfg' = cfg
  /\ scc' = scc_port_close(scc)
  /\ UNCHANGED frame

remote_changed ==
  /\ scc.cur_state = Outgoing
  /\ scc' = scc_port_close(scc)
  /\ UNCHANGED <<g_serial_cfg, frame>>

serial_dev_changed ==
  /\ scc.cur_state = Serial
  /\ scc' = scc_port_close(scc)
  /\ UNCHANGED <<g_serial_cfg, frame>>

(* Time passes since the last byte, and since the last ring.                *)
OutAges ==
  /\ scc.since < Long
  /\ scc' = [scc EXCEPT !.since = @ + 1]
  /\ UNCHANGED <<g_serial_cfg, frame>>

RingAges ==
  /\ scc.ring_wait
  /\ scc' = [scc EXCEPT !.ring_wait = FALSE]
  /\ UNCHANGED <<g_serial_cfg, frame>>

Next ==
  \/ \E host \in Host :
       \/ scc_update(host)
       \/ \E last \in BOOLEAN : scc_read_data(last, host)
  \/ \E host \in Quiet, c \in Output : scc_write_data(c, host)
  \/ \E off \in BOOLEAN : write_wr5(off)
  \/ scc_maybe_rx_event
  \/ scc_reset_port
  \/ scc_reset
  \/ \E cfg \in Modes : cfg_changed(cfg)
  \/ remote_changed
  \/ serial_dev_changed
  \/ OutAges
  \/ RingAges

Spec == Init /\ [][Next]_vars

(* Frames go on, each with its scc_update, and two seconds pass.            *)
Fairness == []<>(frame = 0) /\ []<>(frame = 1) /\ WF_vars(RingAges)
FairSpec == Spec /\ Fairness

-------------------------------------------------------------------------------
(* Properties.                                                              *)

RingCount == 0 .. NumRings + AnswerRings

Ports ==
  [cur_state : Modes \union {Unopened, Failed},
   sockfd : {"none", "listen", "out"}, rdwrfd : {"none", "in", "out"},
   modem_state : BOOLEAN, dcd : BOOLEAN, rings : RingCount,
   ring_wait : BOOLEAN, s0 : {0, AnswerRings}, plus : 0 .. 4,
   since : 0 .. Long, out : Seq(Output), inbuf : 0 .. MaxIn,
   write_called : BOOLEAN,
   dtr_off : BOOLEAN, told : BOOLEAN]

(* Every field of the port has a value of its type, and no more output      *)
(* waits than the buffer holds.                                             *)
TypeOK ==
  /\ g_serial_cfg \in Modes /\ frame \in {0, 1}
  /\ scc \in Ports /\ Len(scc.out) <= MaxOut

IsModem == scc.cur_state = Modem

(* Sockets, mode, rings and what the guest knows tell one story: an open    *)
(* port is in the mode configured last; one that is not on sockets has none *)
(* open, a call taken in has its listener, a call dialled is both fields,   *)
(* so that no accept is tried on it; the modem is in data mode only on a    *)
(* connection, and rings only for a caller that is still there; a guest     *)
(* that was told CONNECT, and nothing to the contrary since, and has not    *)
(* dropped DTR, is in data mode on a connection.                            *)
SocketsMatch ==
  /\ scc.cur_state >= 0 => scc.cur_state = g_serial_cfg
  /\ scc.cur_state \in {Serial, Unopened, Failed} =>
       scc.sockfd = "none" /\ scc.rdwrfd = "none"
  /\ scc.rdwrfd = "in" => scc.sockfd = "listen"
  /\ scc.rdwrfd = "out" <=> scc.sockfd = "out"
  /\ IsModem /\ ~scc.modem_state => scc.rdwrfd # "none"
  /\ IsModem /\ scc.rings > 0 => scc.rdwrfd = "in"
  /\ IsModem /\ scc.told => ~scc.modem_state

(* A call that rings is answered, given up or dropped, unless the guest     *)
(* leaves so much unread, the RINGs among it, that the port does not count  *)
(* them any more.                                                           *)
Ringing == IsModem /\ scc.modem_state /\ scc.rings > 0
RingEnds == Ringing ~> (~Ringing \/ Deaf(scc))
===============================================================================
