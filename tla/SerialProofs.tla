----------------------------- MODULE SerialProofs ------------------------------
(* Proofs about the serial ports: first the modem and the sockets of a port   *)
(* (SccModem), then the chip (Scc).                                           *)
(*                                                                            *)
(* The modem. A port's record is kept by a chain of some twenty functions, of *)
(* which each leaves the socket, the mode, the rings and the flags as the     *)
(* next one expects them, and a close takes for granted that a port in        *)
(* command mode is a modem, which SocketsMatch does not say. Fits is what     *)
(* agrees all through a handler, Held what does between two, and Agreed, that *)
(* of the port's record with the configured mode, is inductive.               *)
(*                                                                            *)
(* The chip, for receive rings and queues of any size and any guest. The      *)
(* lines of a port only depend on the port's wants and the master enable, and *)
(* the events on the *_event_pending flags, so that the types, IrqDelivered   *)
(* and EventBooked are together inductive. Each handler ends in               *)
(* scc_evaluate_ints, on one port or on both: what it makes of the lines is   *)
(* proved once for each of the two.                                           *)
EXTENDS SccModem, SccState, FiniteSetTheorems, TLAPS

(* A set that has 0 and the successor of each of its numbers has them all. *)
LEMMA NatSetInduction ==
  ASSUME NEW S, 0 \in S, \A n \in Nat : n \in S => n + 1 \in S
  PROVE  Nat \subseteq S
<1> DEFINE Missing == Nat \ S
           Down == { 0 .. n : n \in Missing }
           R == StrictSubsetOrdering(Nat)
<1> SUFFICES ASSUME Missing # {} PROVE FALSE
  OBVIOUS
<1>1. Down \subseteq FiniteSubsetsOf(Nat)
  <2> SUFFICES ASSUME NEW n \in Missing
               PROVE  0 .. n \in FiniteSubsetsOf(Nat)
    OBVIOUS
  <2>1. IsFiniteSet(0 .. n)
    BY FS_Interval
  <2>2. 0 .. n \subseteq Nat
    OBVIOUS
  <2> QED
    BY <2>1, <2>2 DEF FiniteSubsetsOf
<1>2. Down # {}
  OBVIOUS
<1>3. IsWellFoundedOn(R, FiniteSubsetsOf(Nat))
  BY FS_StrictSubsetOrderingWellFounded
<1>4. PICK d \in Down : \A e \in Down : ~ (<<e, d>> \in R)
  <2> HIDE DEF Down, R
  <2> QED
    BY <1>1, <1>2, <1>3, WFMin
<1>5. PICK x \in Missing : d = 0 .. x
  OBVIOUS
<1>6. x # 0 /\ x - 1 \in Missing
  OBVIOUS
<1>7. 0 .. (x - 1) \in Down /\ <<0 .. (x - 1), d>> \in R
  BY <1>5, <1>6 DEF StrictSubsetOrdering
<1> QED
  BY <1>4, <1>7

(* What SocketsMatch says of a port's record, and that command mode is the  *)
(* modem's.                                                                 *)
Fits(s) ==
  /\ s.cur_state \in {Serial, Unopened, Failed} =>
       s.sockfd = "none" /\ s.rdwrfd = "none"
  /\ s.rdwrfd = "in" => s.sockfd = "listen"
  /\ s.rdwrfd = "out" <=> s.sockfd = "out"
  /\ s.cur_state = Modem /\ ~s.modem_state => s.rdwrfd # "none"
  /\ s.cur_state = Modem /\ s.rings > 0 => s.rdwrfd = "in"
  /\ s.cur_state = Modem /\ s.told => ~s.modem_state
  /\ s.cur_state \in {Outgoing, Incoming} => ~s.modem_state

(* A port on which the socket handlers may run: open on sockets, or given   *)
(* up by them.                                                              *)
OnSockets(s) ==
  /\ s.cur_state \in {Modem, Outgoing, Incoming, Failed}
  /\ s.modem_state => s.cur_state = Modem

Good(s) == s \in Ports /\ Fits(s) /\ OnSockets(s)

(* A handler leaves the mode alone, or gives an outgoing port up.           *)
Stays(s, t) ==
  \/ t.cur_state = s.cur_state
  \/ s.cur_state = Outgoing /\ t.cur_state = Failed

Keeps(s, t) == Good(t) /\ Stays(s, t) /\ t.out = s.out

(* t differs from s in what no socket depends on.                           *)
Alike(s, t) ==
  /\ t \in Ports
  /\ t.cur_state = s.cur_state /\ t.out = s.out
  /\ t.sockfd = s.sockfd /\ t.rdwrfd = s.rdwrfd
  /\ t.rings = s.rings /\ t.modem_state = s.modem_state

LEMMA Rings ==
  /\ 0 \in RingCount /\ NumRings \in RingCount
  /\ RingCount \subseteq Nat
  /\ \A n \in RingCount : n # 0 => n - 1 \in RingCount
  /\ \A n \in {0, AnswerRings} : n \in RingCount
BY RingsAssumption DEF RingCount

LEMMA Rung ==
  ASSUME NEW s \in Ports
  PROVE  s.rings \in RingCount /\ s.s0 \in {0, AnswerRings} /\ s.told \in BOOLEAN
         /\ s.modem_state \in BOOLEAN /\ s.dcd \in BOOLEAN
         /\ s.sockfd \in {"none", "listen", "out"}
         /\ s.rdwrfd \in {"none", "in", "out"}
BY DEF Ports

(* Telling the guest changes only what it was told.                         *)
LEMMA Telling ==
  ASSUME NEW s \in Ports, NEW b \in BOOLEAN
  PROVE  /\ Alike(s, [s EXCEPT !.told = b])
         /\ [s EXCEPT !.told = b].told = b
BY DEF Ports, Alike

(* Nor does a socket depend on how much the guest has to read.              *)
LEMMA Counting ==
  ASSUME NEW s \in Ports, NEW n \in 0 .. MaxIn
  PROVE  /\ Alike(s, [s EXCEPT !.inbuf = n])
         /\ [s EXCEPT !.inbuf = n].told = s.told
BY DEF Ports, Alike

LEMMA Heard ==
  ASSUME NEW s \in Ports
  PROVE  Alike(s, Hears(s)) /\ Hears(s).told = s.told
<1> DEFINE n == IF Deaf(s) THEN s.inbuf ELSE s.inbuf + 1
<1>1. s.inbuf \in 0 .. MaxIn /\ MaxIn \in Nat
  BY RingsAssumption DEF Ports
<1>2. n \in 0 .. MaxIn
  BY <1>1 DEF Deaf
<1>3. Hears(s) = [s EXCEPT !.inbuf = n]
  BY DEF Hears
<1> HIDE DEF n
<1> QED
  BY <1>2, <1>3, Counting

LEMMA Read ==
  ASSUME NEW s \in Ports
  PROVE  Alike(s, Taken(s)) /\ Taken(s).told = s.told
<1> DEFINE n == IF s.inbuf = 0 THEN 0 ELSE s.inbuf - 1
<1>1. s.inbuf \in 0 .. MaxIn /\ MaxIn \in Nat
  BY RingsAssumption DEF Ports
<1>2. n \in 0 .. MaxIn
  BY <1>1
<1>3. Taken(s) = [s EXCEPT !.inbuf = n]
  BY DEF Taken
<1> HIDE DEF n
<1> QED
  BY <1>2, <1>3, Counting

LEMMA AlikeOn ==
  ASSUME NEW s, NEW t, NEW u, Alike(s, t), Alike(t, u)
  PROVE  Alike(s, u)
BY DEF Alike

LEMMA KeepsAlike ==
  ASSUME NEW s \in Ports, Good(s), NEW t, Alike(s, t), t.told = s.told
  PROVE  Keeps(s, t)
BY DEF Alike, Keeps, Stays, Good, Fits, OnSockets, Serial, Modem, Outgoing,
       Incoming, Unopened, Failed

LEMMA AnswersConnect ==
  ASSUME NEW s \in Ports
  PROVE  /\ Alike(s, Says(s, "CONNECT"))
         /\ Says(s, "CONNECT").told <=> s.cur_state = Modem
<1> DEFINE h == Hears(s)
<1>1. h \in Ports /\ Alike(s, h)
  BY Heard DEF Alike
<1>2. CASE s.cur_state = Modem
  <2>1. Says(s, "CONNECT") = [h EXCEPT !.told = TRUE]
    BY <1>2 DEF Says
  <2> HIDE DEF h
  <2>2. Alike(h, Says(s, "CONNECT")) /\ Says(s, "CONNECT").told = TRUE
    BY <1>1, <2>1, Telling
  <2> QED
    BY <1>1, <1>2, <2>2, AlikeOn
<1>3. CASE s.cur_state # Modem
  <2>1. Says(s, "CONNECT") = [s EXCEPT !.told = FALSE]
    BY <1>3 DEF Says
  <2> QED
    BY <1>3, <2>1, Telling
<1> QED
  BY <1>2, <1>3

LEMMA AnswersOther ==
  ASSUME NEW s \in Ports, NEW code \in {"NO CARRIER", "OK"}
  PROVE  /\ Alike(s, Says(s, code))
         /\ Says(s, code).told = FALSE
<1> DEFINE h == Hears(s)
<1>1. h \in Ports /\ Alike(s, h)
  BY Heard DEF Alike
<1>2. Says(s, code) = [h EXCEPT !.told = FALSE]
  <2> HIDE DEF h
  <2>1. Says(s, "OK") = [h EXCEPT !.told = FALSE]
    BY DEF Says, h
  <2>2. Says(s, "NO CARRIER") = [h EXCEPT !.told = FALSE]
    BY DEF Says, h
  <2> QED
    BY <2>1, <2>2
<1> HIDE DEF h
<1>3. Alike(h, Says(s, code)) /\ Says(s, code).told = FALSE
  BY <1>1, <1>2, Telling
<1> QED
  BY <1>1, <1>3, AlikeOn

LEMMA Closes ==
  ASSUME NEW s \in Ports
  PROVE  LET t == scc_socket_close(s) IN
         /\ t \in Ports
         /\ t.cur_state = s.cur_state /\ t.out = s.out
         /\ t.sockfd = "none" /\ t.rdwrfd = "none" /\ t.rings = 0
         /\ t.modem_state <=> s.cur_state = Modem
         /\ t.told = s.told
<1> DEFINE on == s.cur_state = Modem
           up == s.dcd /\ s.cur_state # Modem
           t(m, d) == [s EXCEPT !.sockfd = "none", !.rdwrfd = "none",
                                !.rings = 0, !.modem_state = m, !.dcd = d]
<1>1. ASSUME NEW m \in BOOLEAN, NEW d \in BOOLEAN
      PROVE  /\ t(m, d) \in Ports
             /\ t(m, d).cur_state = s.cur_state /\ t(m, d).out = s.out
             /\ t(m, d).sockfd = "none" /\ t(m, d).rdwrfd = "none"
             /\ t(m, d).rings = 0
             /\ t(m, d).modem_state = m
             /\ t(m, d).told = s.told
  BY Rings DEF Ports
<1>2. on \in BOOLEAN /\ up \in BOOLEAN
  OBVIOUS
<1>3. scc_socket_close(s) = t(on, up)
  BY DEF scc_socket_close
<1> HIDE DEF on, up, t
<1>4. t(on, up).modem_state = on
  BY <1>1, <1>2, Zenon
<1>5. on <=> s.cur_state = Modem
  BY DEF on
<1>6. /\ t(on, up) \in Ports
      /\ t(on, up).cur_state = s.cur_state /\ t(on, up).out = s.out
      /\ t(on, up).sockfd = "none" /\ t(on, up).rdwrfd = "none"
      /\ t(on, up).rings = 0 /\ t(on, up).told = s.told
  BY <1>1, <1>2, Zenon
<1> HIDE DEF on
<1> QED
  BY <1>3, <1>4, <1>5, <1>6

(* A closed port has no socket left; a modem's is in command mode.          *)
LEMMA Closed ==
  ASSUME NEW s \in Ports, Good(s), s.cur_state # Modem \/ ~s.told
  PROVE  Keeps(s, scc_socket_close(s))
<1> DEFINE t == scc_socket_close(s)
<1>1. /\ t \in Ports
      /\ t.cur_state = s.cur_state /\ t.out = s.out
      /\ t.sockfd = "none" /\ t.rdwrfd = "none" /\ t.rings = 0
      /\ t.modem_state <=> s.cur_state = Modem
      /\ t.told = s.told
  BY Closes, Zenon
<1> HIDE DEF t
<1>2. Fits(t) /\ OnSockets(t)
  BY <1>1 DEF Good, Fits, OnSockets, Serial, Modem, Outgoing, Incoming, Unopened, Failed
<1> QED
  BY <1>1, <1>2 DEF Good, Keeps, Stays, t
(* The end of a connection leaves no socket, whatever the guest was told.   *)
LEMMA Hangs ==
  ASSUME NEW s \in Ports, OnSockets(s), NEW allow_retry \in BOOLEAN
  PROVE  Keeps(s, scc_socket_close_extended(s, allow_retry))
<1> DEFINE c == scc_socket_close(s)
           t == scc_socket_close_extended(s, allow_retry)
<1>1. /\ c \in Ports
      /\ c.cur_state = s.cur_state /\ c.out = s.out
      /\ c.sockfd = "none" /\ c.rdwrfd = "none" /\ c.rings = 0
      /\ c.modem_state <=> s.cur_state = Modem
  BY Closes, Zenon
<1> DEFINE given == [c EXCEPT !.cur_state = Failed]
           told == Says(c, "NO CARRIER")
<1>a. t = CASE s.cur_state = Modem -> told
            [] s.cur_state = Outgoing /\ ~allow_retry -> given
            [] OTHER -> c
  BY DEF scc_socket_close_extended
<1> HIDE DEF c, t, given, told
<1>2. /\ s.cur_state = Modem => t = told
      /\ s.cur_state = Outgoing /\ ~allow_retry => t = given
      /\ s.cur_state # Modem /\ ~(s.cur_state = Outgoing /\ ~allow_retry) => t = c
  BY <1>a DEF Modem, Outgoing
<1>3. CASE s.cur_state = Modem
  <2>1. t = Says(c, "NO CARRIER")
    BY <1>2, <1>3 DEF told
  <2>2. Alike(c, t) /\ t.told = FALSE
    BY <1>1, <2>1, AnswersOther
  <2>3. Fits(t) /\ OnSockets(t)
    BY <1>1, <1>3, <2>2
      DEF Alike, Fits, OnSockets, Serial, Modem, Outgoing, Incoming, Unopened, Failed
  <2> QED
    BY <1>1, <2>2, <2>3 DEF Alike, Keeps, Stays, Good, t
<1>4. CASE s.cur_state = Outgoing /\ ~allow_retry
  <2>1. t = [c EXCEPT !.cur_state = Failed]
    BY <1>2, <1>4 DEF given
  <2>2. /\ t \in Ports
        /\ t.cur_state = Failed /\ t.out = s.out
        /\ t.sockfd = "none" /\ t.rdwrfd = "none"
        /\ t.modem_state = c.modem_state
    BY <1>1, <2>1 DEF Ports
  <2>3. Fits(t) /\ OnSockets(t)
    BY <1>1, <1>4, <2>2
      DEF Fits, OnSockets, Serial, Modem, Outgoing, Incoming, Unopened, Failed
  <2> QED
    BY <1>1, <1>4, <2>2, <2>3 DEF Keeps, Stays, Good, t
<1>5. CASE s.cur_state # Modem /\ ~(s.cur_state = Outgoing /\ ~allow_retry)
  <2>1. t = c
    BY <1>2, <1>5
  <2>2. Fits(t) /\ OnSockets(t)
    BY <1>1, <1>5, <2>1
      DEF Fits, OnSockets, Serial, Modem, Outgoing, Incoming, Unopened, Failed
  <2> QED
    BY <1>1, <2>1, <2>2 DEF Keeps, Stays, Good, t
<1> QED
  BY <1>3, <1>4, <1>5 DEF t

(* A port without a listener has no connection, so listening anew loses     *)
(* none.                                                                    *)
LEMMA Listens ==
  ASSUME NEW s \in Ports, Good(s), NEW host \in Host
  PROVE  Keeps(s, scc_socket_open_incoming(s, host))
<1> DEFINE c == scc_socket_close(s)
           t == scc_socket_open_incoming(s, host)
<1>1. CASE s.sockfd # "none"
  <2>1. t = s
    BY <1>1 DEF scc_socket_open_incoming
  <2> QED
    BY <2>1 DEF Keeps, Stays
<1>2. CASE s.sockfd = "none"
  <2>1. /\ c \in Ports
        /\ c.cur_state = s.cur_state /\ c.out = s.out
        /\ c.sockfd = "none" /\ c.rdwrfd = "none" /\ c.rings = 0
        /\ c.modem_state <=> s.cur_state = Modem
        /\ c.told = s.told
    BY Closes, Zenon
  <2>2. PICK x \in {"none", "listen"} :
          t = [c EXCEPT !.sockfd = x] /\ (x = "listen" => MayListen(s))
    <3>1. t = [c EXCEPT !.sockfd = IF MayListen(s) /\ host.ok THEN "listen" ELSE "none"]
      BY <1>2 DEF scc_socket_open_incoming
    <3> HIDE DEF c, t
    <3>2. CASE MayListen(s) /\ host.ok
      BY <3>1, <3>2
    <3>3. CASE ~(MayListen(s) /\ host.ok)
      BY <3>1, <3>3
    <3> QED
      BY <3>2, <3>3
  <2> HIDE DEF c, t
  <2>3. /\ t \in Ports
        /\ t.cur_state = s.cur_state /\ t.out = s.out
        /\ t.sockfd = x /\ t.rdwrfd = "none" /\ t.rings = 0
        /\ t.modem_state = c.modem_state
        /\ t.told = s.told
    BY <2>1, <2>2 DEF Ports
  <2>4. x = "listen" => s.cur_state \in {Modem, Incoming}
    BY <2>2 DEF MayListen
  <2>5. Fits(t) /\ OnSockets(t)
    BY <1>2, <2>1, <2>3, <2>4, Rung
    DEF Good, Fits, OnSockets, Serial, Modem, Outgoing, Incoming, Unopened, Failed
  <2> QED
    BY <2>3, <2>5 DEF Keeps, Stays, Good, t
<1> QED
  BY <1>1, <1>2

(* A call out that succeeds is both descriptors; one that fails leaves none. *)
LEMMA Dials ==
  ASSUME NEW s \in Ports, Good(s), NEW host \in Host,
         s.cur_state \in {Modem, Outgoing}
  PROVE  Keeps(s, scc_socket_open_outgoing(s, host))
<1> DEFINE c == scc_socket_close(s)
           a == Says(c, "CONNECT")
           t == scc_socket_open_outgoing(s, host)
<1>1. /\ c \in Ports
      /\ c.cur_state = s.cur_state /\ c.out = s.out
      /\ c.modem_state <=> s.cur_state = Modem
  BY Closes, Zenon
<1>2. CASE host.ok
  <2>1. t = [a EXCEPT !.dcd = TRUE, !.modem_state = FALSE, !.sockfd = "out", !.rdwrfd = "out"]
    BY <1>2 DEF scc_socket_open_outgoing
  <2>2. Alike(c, a)
    BY <1>1, AnswersConnect
  <2>3. a \in Ports /\ a.cur_state = s.cur_state /\ a.out = s.out /\ a.rings = c.rings /\ c.rings = 0
    BY <1>1, <2>2, Closes, Zenon DEF Alike
  <2> HIDE DEF c, a, t
  <2>4. /\ t \in Ports
        /\ t.cur_state = s.cur_state /\ t.out = s.out
        /\ t.sockfd = "out" /\ t.rdwrfd = "out" /\ t.rings = 0
        /\ t.modem_state = FALSE
    BY <2>1, <2>3 DEF Ports
  <2>5. Fits(t) /\ OnSockets(t)
    BY <2>4 DEF Good, Fits, OnSockets, Serial, Modem, Outgoing, Incoming, Unopened, Failed
  <2> QED
    BY <2>4, <2>5 DEF Keeps, Stays, Good, t
<1>3. CASE ~host.ok
  <2>1. t = scc_socket_close_extended(c, FALSE)
    BY <1>3 DEF scc_socket_open_outgoing
  <2>2. OnSockets(c)
    BY <1>1 DEF OnSockets
  <2>3. Keeps(c, t)
    BY <1>1, <2>1, <2>2, Hangs
  <2> QED
    BY <1>1, <2>3 DEF Keeps, Stays
<1> QED
  BY <1>2, <1>3

LEMMA MaybeOpens ==
  ASSUME NEW s \in Ports, Good(s), NEW must \in BOOLEAN, NEW host \in Host
  PROVE  Keeps(s, scc_socket_maybe_open(s, must, host))
<1> DEFINE c == scc_socket_close(s)
           t == scc_socket_maybe_open(s, must, host)
<1>0. Keeps(s, s)
  BY DEF Keeps, Stays
<1>1. CASE s.sockfd # "none" /\ s.dtr_off /\ s.cur_state = Modem
  <2>1. t = [c EXCEPT !.told = FALSE]
    BY <1>1 DEF scc_socket_maybe_open
  <2>2. /\ c \in Ports
        /\ c.cur_state = s.cur_state /\ c.out = s.out
        /\ c.sockfd = "none" /\ c.rdwrfd = "none" /\ c.rings = 0
        /\ c.modem_state <=> s.cur_state = Modem
    BY Closes, Zenon
  <2>3. Alike(c, t) /\ t.told = FALSE
    BY <2>1, <2>2, Telling
  <2> HIDE DEF c, t
  <2>4. Fits(t) /\ OnSockets(t)
    BY <1>1, <2>2, <2>3
    DEF Alike, Fits, OnSockets, Serial, Modem, Outgoing, Incoming, Unopened, Failed
  <2> QED
    BY <2>2, <2>3, <2>4 DEF Keeps, Stays, Good, Alike, t
<1>2. CASE s.sockfd # "none" /\ ~(s.dtr_off /\ s.cur_state = Modem)
  BY <1>0, <1>2 DEF scc_socket_maybe_open
<1>3. CASE s.sockfd = "none" /\ s.cur_state = Outgoing
  <2>1. t = IF must THEN scc_socket_open_outgoing(s, host) ELSE s
    BY <1>3 DEF scc_socket_maybe_open
  <2> QED
    BY <1>0, <1>3, <2>1, Dials
<1>4. CASE s.sockfd = "none" /\ s.cur_state # Outgoing
  <2>1. t = scc_socket_open_incoming(s, host)
    BY <1>4 DEF scc_socket_maybe_open
  <2> QED
    BY <2>1, Listens
<1> QED
  BY <1>1, <1>2, <1>3, <1>4

LEMMA KeepsOn ==
  ASSUME NEW s, NEW t, NEW u, Keeps(s, t), Keeps(t, u)
  PROVE  Keeps(s, u)
BY DEF Keeps, Stays, Outgoing, Failed

(* An answer connects a caller that is there and hangs up when none is.     *)
LEMMA Answers ==
  ASSUME NEW s \in Ports, Good(s)
  PROVE  Keeps(s, Answered(s))
<1> DEFINE u == IF s.modem_state THEN Says(s, "CONNECT") ELSE s
           t == Answered(s)
<1>1. CASE s.rdwrfd = "none"
  <2>1. t = scc_socket_close_extended(s, FALSE)
    BY <1>1 DEF Answered
  <2> QED
    BY <2>1, Hangs DEF Good
<1>2. CASE s.rdwrfd # "none"
  <2>1. t = [u EXCEPT !.modem_state = FALSE, !.dcd = TRUE, !.rings = 0]
    BY <1>2 DEF Answered
  <2>2. Alike(s, u)
    <3>1. Alike(s, s)
      BY DEF Alike
    <3> QED
      BY <3>1, AnswersConnect
  <2> HIDE DEF u, t
  <2>3. /\ t \in Ports
        /\ t.cur_state = u.cur_state /\ t.out = u.out
        /\ t.sockfd = u.sockfd /\ t.rdwrfd = u.rdwrfd /\ t.rings = 0
        /\ t.modem_state = FALSE
    BY <2>1, <2>2, Rings DEF Alike, Ports
  <2>4. Fits(t) /\ OnSockets(t)
    BY <1>2, <2>2, <2>3
    DEF Alike, Good, Fits, OnSockets, Serial, Modem, Outgoing, Incoming, Unopened, Failed
  <2> QED
    BY <2>2, <2>3, <2>4 DEF Alike, Keeps, Stays, Good, t
<1> QED
  BY <1>1, <1>2

(* A ring is one of a caller that is there; after the last the call is      *)
(* answered or dropped.                                                     *)
LEMMA RingsOn ==
  ASSUME NEW s \in Ports, Good(s)
  PROVE  Keeps(s, scc_socket_modem_do_ring(s))
<1> DEFINE r == [s EXCEPT !.rings = @ - 1, !.ring_wait = TRUE]
           rung == Says(r, "RING")
           given == scc_socket_close(r)
           t == scc_socket_modem_do_ring(s)
<1>1. t = IF s.rings = 0 \/ ~s.modem_state \/ s.ring_wait
            THEN s
            ELSE CASE r.rings > 0 -> rung
                   [] r.rings = 0 /\ r.s0 > 0 -> Answered(r)
                   [] OTHER -> given
  BY DEF scc_socket_modem_do_ring
<1>2. rung = Hears(r)
  BY DEF Says
<1>3. s.rings \in Nat
  BY Rings, Rung
<1>4. CASE s.rings = 0 \/ ~s.modem_state \/ s.ring_wait
  <2>1. t = s
    BY <1>1, <1>4, Zenon
  <2> QED
    BY <2>1 DEF Keeps, Stays
<1>5. CASE ~(s.rings = 0 \/ ~s.modem_state \/ s.ring_wait)
  <2>1. /\ r \in Ports
        /\ r.cur_state = s.cur_state /\ r.out = s.out
        /\ r.sockfd = s.sockfd /\ r.rdwrfd = s.rdwrfd
        /\ r.rings = s.rings - 1
        /\ r.modem_state = s.modem_state /\ r.told = s.told
    <3>1. s.rings - 1 \in RingCount
      BY <1>5, Rings, Rung
    <3> DEFINE n == s.rings - 1
    <3>2. r = [s EXCEPT !.rings = n, !.ring_wait = TRUE]
      OBVIOUS
    <3> HIDE DEF r, n
    <3>3. n \in RingCount
      BY <3>1 DEF n
    <3>4. /\ r \in Ports
          /\ r.cur_state = s.cur_state /\ r.out = s.out
          /\ r.sockfd = s.sockfd /\ r.rdwrfd = s.rdwrfd
          /\ r.rings = n
          /\ r.modem_state = s.modem_state /\ r.told = s.told
      BY <3>2, <3>3 DEF Ports
    <3> QED
      BY <3>4 DEF n
  <2> HIDE DEF r, rung, given, t
  <2>2. Good(r) /\ Keeps(s, r)
    <3>1. Fits(r) /\ OnSockets(r)
      BY <1>3, <1>5, <2>1
      DEF Good, Fits, OnSockets, Serial, Modem, Outgoing, Incoming, Unopened, Failed
    <3> QED
      BY <2>1, <3>1 DEF Good, Keeps, Stays
  <2>3. Keeps(r, Hears(r))
    BY <2>1, <2>2, Heard, KeepsAlike
  <2>4. Keeps(r, Answered(r))
    BY <2>1, <2>2, Answers
  <2>5. Keeps(r, given)
    <3>1. r.cur_state = Modem => ~r.told
      BY <1>5, <2>1, <2>2 DEF Good, Fits, Modem
    <3> QED
      BY <2>1, <2>2, <3>1, Closed DEF given
  <2>6. t \in {Hears(r), Answered(r), given}
    <3>1. t = CASE r.rings > 0 -> rung
                [] r.rings = 0 /\ r.s0 > 0 -> Answered(r)
                [] OTHER -> given
      BY <1>1, <1>5, Zenon
    <3> QED
      BY <1>2, <1>3, <2>1, <3>1
  <2>7. Keeps(r, t)
    BY <2>3, <2>4, <2>5, <2>6
  <2> QED
    BY <2>2, <2>7, KeepsOn DEF t
<1> QED
  BY <1>4, <1>5

(* A call is taken in at the listener only, and only when there is no       *)
(* connection.                                                              *)
LEMMA Accepts ==
  ASSUME NEW s \in Ports, Good(s), NEW host \in Host
  PROVE  Keeps(s, scc_accept_socket(s, host))
<1> DEFINE o == scc_socket_open_incoming(s, host)
           n == IF o.s0 > 0 THEN o.s0 ELSE NumRings
           u == [o EXCEPT !.rdwrfd = "in", !.ring_wait = FALSE, !.rings = n]
           t == scc_accept_socket(s, host)
<1>1. Keeps(s, o) /\ o \in Ports
  BY Listens DEF Keeps, Good
<1>2. CASE o.sockfd = "none" \/ o.rdwrfd # "none" \/ ~host.caller
  <2>1. t = o
    BY <1>2 DEF scc_accept_socket
  <2> QED
    BY <1>1, <2>1
<1>3. CASE ~(o.sockfd = "none" \/ o.rdwrfd # "none" \/ ~host.caller)
  <2>1. t = scc_socket_modem_do_ring(u)
    BY <1>3 DEF scc_accept_socket
  <2>2. n \in RingCount
    BY <1>1, Rings, Rung
  <2> HIDE DEF o, n, t
  <2>3. /\ u \in Ports
        /\ u.cur_state = o.cur_state /\ u.out = o.out
        /\ u.sockfd = o.sockfd /\ u.rdwrfd = "in"
        /\ u.modem_state = o.modem_state /\ u.told = o.told
    BY <1>1, <2>2 DEF Ports
  <2> HIDE DEF u
  <2>4. o.sockfd = "listen"
    BY <1>1, <1>3, Rung DEF Keeps, Good, Fits
  <2>5. Fits(u) /\ OnSockets(u)
    BY <1>1, <1>3, <2>3, <2>4
    DEF Keeps, Good, Fits, OnSockets, Serial, Modem, Outgoing, Incoming, Unopened, Failed
  <2>6. Good(u) /\ Keeps(o, u)
    BY <2>3, <2>5 DEF Good, Keeps, Stays
  <2> QED
    BY <1>1, <2>1, <2>3, <2>6, RingsOn, KeepsOn DEF t
<1> QED
  BY <1>2, <1>3

LEMMA DoAnswers ==
  ASSUME NEW s \in Ports, Good(s), NEW host \in Host
  PROVE  Keeps(s, scc_socket_do_answer(s, host))
<1> DEFINE a == scc_accept_socket(s, host)
<1>1. Keeps(s, a)
  BY Accepts
<1>2. Keeps(a, Answered(a))
  BY <1>1, Answers DEF Keeps, Good
<1> QED
  BY <1>1, <1>2, KeepsOn DEF scc_socket_do_answer

LEMMA Fills ==
  ASSUME NEW s \in Ports, Good(s), NEW host \in Host
  PROVE  Keeps(s, scc_socket_fill_readbuf(s, host))
<1> DEFINE a == scc_accept_socket(s, host)
           r == scc_socket_modem_do_ring(a)
           t == scc_socket_fill_readbuf(s, host)
<1>1. Keeps(s, a)
  BY Accepts
<1>2. Keeps(a, r)
  BY <1>1, RingsOn DEF Keeps, Good
<1>3. t \in {r, Hears(r), scc_socket_close_extended(r, TRUE)}
  BY DEF scc_socket_fill_readbuf
<1>4. Keeps(r, t)
  <2>1. Keeps(r, r)
    BY <1>2 DEF Keeps, Stays
  <2>2. Keeps(r, scc_socket_close_extended(r, TRUE))
    BY <1>2, Hangs DEF Keeps, Good
  <2>3. Keeps(r, Hears(r))
    BY <1>2, Heard, KeepsAlike DEF Keeps, Good
  <2> QED
    BY <1>3, <2>1, <2>2, <2>3
<1> QED
  BY <1>1, <1>2, <1>4, KeepsOn

(* Every modem command leaves the sockets and the guest's picture agreeing. *)
LEMMA Commands ==
  ASSUME NEW s \in Ports, Good(s), s.cur_state = Modem, s.modem_state,
         NEW c \in Output, NEW host \in Host
  PROVE  Keeps(s, scc_socket_modem_write(s, c, host))
<1> DEFINE i == scc_socket_open_incoming(s, host)
           o == Hears(i)
           t == scc_socket_modem_write(s, c, host)
<1>0. Keeps(s, i) /\ i \in Ports /\ Good(i)
  BY Listens DEF Keeps, Good
<1>1. Keeps(s, o) /\ o \in Ports /\ Good(o) /\ o.cur_state = Modem
  <2> HIDE DEF i
  <2>1. Keeps(i, o)
    BY <1>0, Heard, KeepsAlike
  <2>2. Keeps(s, o)
    BY <1>0, <2>1, KeepsOn
  <2> HIDE DEF o
  <2> QED
    BY <2>2 DEF Keeps, Good, Stays, Modem, Outgoing
<1>2. Keeps(o, o)
  BY <1>1 DEF Keeps, Stays
<1>3. CASE c = "ats0" \/ c = "atz"
  <2>1. PICK n \in {0, AnswerRings} : t = Says([o EXCEPT !.s0 = n], "OK")
    BY <1>3 DEF scc_socket_modem_write
  <2> HIDE DEF o, t
  <2> DEFINE u == [o EXCEPT !.s0 = n]
  <2>2. /\ Alike(o, u)
    BY <1>1 DEF Alike, Ports
  <2> HIDE DEF u
  <2>3. Alike(u, t) /\ t.told = FALSE
    BY <2>1, <2>2, AnswersOther DEF Alike, u
  <2>4. Keeps(o, t)
    BY <1>1, <2>2, <2>3
    DEF Alike, Keeps, Stays, Good, Fits, OnSockets, Serial, Modem, Outgoing, Incoming,
        Unopened, Failed
  <2> QED
    BY <1>1, <2>4, KeepsOn DEF t
<1>4. CASE c = "ath"
  <2>1. t = Says(scc_socket_close(o), "OK")
    BY <1>4 DEF scc_socket_modem_write
  <2> HIDE DEF o, t
  <2> DEFINE u == scc_socket_close(o)
  <2>2. /\ u \in Ports
        /\ u.cur_state = Modem /\ u.out = o.out
        /\ u.sockfd = "none" /\ u.rdwrfd = "none" /\ u.rings = 0
        /\ u.modem_state
    BY <1>1, Closes
  <2> HIDE DEF u
  <2>3. Alike(u, t) /\ t.told = FALSE
    BY <2>1, <2>2, AnswersOther DEF u
  <2>4. Keeps(o, t)
    BY <1>1, <2>2, <2>3
    DEF Alike, Keeps, Stays, Good, Fits, OnSockets, Serial, Modem, Outgoing, Incoming,
        Unopened, Failed
  <2> QED
    BY <1>1, <2>4, KeepsOn DEF t
<1>5. CASE c = "ata"
  <2>1. t = scc_socket_do_answer(o, host)
    BY <1>5 DEF scc_socket_modem_write
  <2> QED
    BY <1>1, <2>1, DoAnswers, KeepsOn
<1>6. CASE c = "atd"
  <2>1. t = scc_socket_open_outgoing(o, host)
    BY <1>6 DEF scc_socket_modem_write
  <2> QED
    BY <1>1, <2>1, Dials, KeepsOn
<1>7. CASE c = "ato" /\ CanGoOnline(o)
  <2>1. t = [Says(o, "CONNECT") EXCEPT !.modem_state = FALSE]
    BY <1>7 DEF scc_socket_modem_write
  <2>2. o.rdwrfd # "none"
    BY <1>7 DEF CanGoOnline
  <2> HIDE DEF o, t
  <2> DEFINE u == Says(o, "CONNECT")
  <2>3. Alike(o, u)
    BY <1>1, AnswersConnect
  <2> HIDE DEF u
  <2>4. /\ t \in Ports
        /\ t.cur_state = u.cur_state /\ t.out = u.out
        /\ t.sockfd = u.sockfd /\ t.rdwrfd = u.rdwrfd /\ t.rings = u.rings
        /\ t.modem_state = FALSE
    BY <2>1, <2>3 DEF Alike, Ports, u
  <2>5. Fits(t) /\ OnSockets(t)
    BY <1>1, <2>2, <2>3, <2>4
    DEF Alike, Good, Fits, OnSockets, Serial, Modem, Outgoing, Incoming, Unopened, Failed
  <2>6. Keeps(o, t)
    BY <2>3, <2>4, <2>5 DEF Alike, Keeps, Stays, Good
  <2> QED
    BY <1>1, <2>6, KeepsOn DEF t
<1>8. CASE c = "ato" /\ ~CanGoOnline(o)
  <2>1. t = Says(o, "OK")
    BY <1>8 DEF scc_socket_modem_write
  <2> HIDE DEF o, t
  <2>2. Alike(o, t) /\ t.told = FALSE
    BY <1>1, <2>1, AnswersOther
  <2>3. Keeps(o, t)
    BY <1>1, <2>2
    DEF Alike, Keeps, Stays, Good, Fits, OnSockets, Serial, Modem, Outgoing, Incoming,
        Unopened, Failed
  <2> QED
    BY <1>1, <2>3, KeepsOn DEF t
<1>9. CASE c \in {"data", "plus"}
  <2>1. t = o
    BY <1>9 DEF scc_socket_modem_write
  <2> QED
    BY <1>1, <2>1
<1> QED
  BY <1>3, <1>4, <1>5, <1>6, <1>7, <1>8, <1>9 DEF Output

(* The head of the output went out, or nothing did.                         *)
Sends(s, t) ==
  Good(t) /\ Stays(s, t) /\ (t.out = s.out \/ t.out = Tail(s.out))

LEMMA Pops ==
  ASSUME NEW s \in Ports, Good(s), s.out # <<>>
  PROVE  /\ Good(Popped(s))
         /\ Popped(s).out = Tail(s.out)
         /\ Popped(s).cur_state = s.cur_state
         /\ Popped(s).modem_state = s.modem_state
<1> DEFINE q == Tail(s.out)
           t == Popped(s)
<1>1. q \in Seq(Output)
  BY DEF Ports
<1>2. t = [s EXCEPT !.out = q]
  BY DEF Popped
<1> HIDE DEF q, t
<1>3. /\ t \in Ports
      /\ t.cur_state = s.cur_state /\ t.out = q
      /\ t.sockfd = s.sockfd /\ t.rdwrfd = s.rdwrfd /\ t.rings = s.rings
      /\ t.modem_state = s.modem_state /\ t.told = s.told
  BY <1>1, <1>2 DEF Ports
<1>4. Fits(t) /\ OnSockets(t)
  BY <1>3
  DEF Good, Fits, OnSockets, Serial, Modem, Outgoing, Incoming, Unopened, Failed
<1> QED
  BY <1>3, <1>4 DEF Good, t, q

(* A piece that goes out leaves the connection; one that does not ends it.  *)
LEMMA SendsOne ==
  ASSUME NEW s \in Ports, Good(s), s.out # <<>>,
         NEW c \in Output, NEW host \in Host
  PROVE  Sends(s, Sent(s, c, host))
<1> DEFINE p == PlusMode(s, c)
           u == [s EXCEPT !.plus = p, !.since = 0]
<1>1. p \in 0 .. 4
  BY DEF PlusMode, Ports
<1>2. 0 \in 0 .. Long
  BY DEF Long
<1> HIDE DEF p
<1>3. /\ u \in Ports
      /\ u.cur_state = s.cur_state /\ u.out = s.out
      /\ u.sockfd = s.sockfd /\ u.rdwrfd = s.rdwrfd /\ u.rings = s.rings
      /\ u.modem_state = s.modem_state /\ u.told = s.told
  BY <1>1, <1>2 DEF Ports
<1>4. Sent(s, c, host) = IF Takes(host) THEN Popped(u)
                         ELSE scc_socket_close_extended(u, TRUE)
  BY DEF Sent, p
<1> HIDE DEF u
<1>5. Good(u)
  BY <1>3
  DEF Good, Fits, OnSockets, Serial, Modem, Outgoing, Incoming, Unopened, Failed
<1>6. Keeps(u, scc_socket_close_extended(u, TRUE))
  BY <1>3, <1>5, Hangs DEF Good
<1>7. Good(Popped(u)) /\ Popped(u).out = Tail(u.out)
        /\ Popped(u).cur_state = u.cur_state
  BY <1>3, <1>5, Pops
<1> QED
  BY <1>3, <1>4, <1>6, <1>7 DEF Sends, Keeps, Stays

(* A round of the write loop sends the piece at the head, or is the last.   *)
LEMMA RoundSends ==
  ASSUME NEW run, ~run.done, run.scc \in Ports, Good(run.scc),
         run.scc.out # <<>>, NEW c \in Output, NEW host \in Host
  PROVE  /\ Sends(run.scc, Round(run, c, host).scc)
         /\ Round(run, c, host).done \in BOOLEAN
         /\ Round(run, c, host).done
              <=> Len(Round(run, c, host).scc.out) = Len(run.scc.out)
<1> DEFINE s == run.scc
           o == scc_socket_maybe_open(s, TRUE, host)
           w == scc_socket_modem_write(Popped(o), c, host)
           t == IF o.modem_state
                  THEN [w EXCEPT !.write_called = FALSE]
                  ELSE IF s.rdwrfd = "none" THEN o ELSE Sent(o, c, host)
           b == Len(t.out) = Len(s.out)
<1>1. Round(run, c, host) = [scc |-> t, done |-> b]
  BY DEF Round
<1>2. Keeps(s, o) /\ o \in Ports /\ Good(o)
  BY MaybeOpens DEF Keeps, Good
<1>3. Sends(s, t)
  <2>1. CASE o.modem_state
    <3>1. /\ Good(Popped(o)) /\ Popped(o).out = Tail(s.out)
          /\ Popped(o).cur_state = Modem /\ Popped(o).modem_state
          /\ o.cur_state = Modem
      BY <1>2, <2>1, Pops DEF Keeps, Good, OnSockets
    <3>2. Keeps(Popped(o), w)
      BY <3>1, Commands DEF Good
    <3> HIDE DEF w
    <3> DEFINE u == [w EXCEPT !.write_called = FALSE]
    <3>3. /\ u \in Ports
          /\ u.cur_state = w.cur_state /\ u.out = w.out
          /\ u.sockfd = w.sockfd /\ u.rdwrfd = w.rdwrfd /\ u.rings = w.rings
          /\ u.modem_state = w.modem_state /\ u.told = w.told
      BY <3>2 DEF Keeps, Good, Ports
    <3>4. t = u
      BY <2>1 DEF u
    <3> HIDE DEF u, t, o
    <3>5. Good(u)
      BY <3>2, <3>3
      DEF Keeps, Good, Fits, OnSockets, Serial, Modem, Outgoing, Incoming, Unopened, Failed
    <3> QED
      BY <1>2, <3>1, <3>2, <3>3, <3>4, <3>5 DEF Sends, Keeps, Stays, Modem, Outgoing
  <2>2. CASE ~o.modem_state /\ s.rdwrfd = "none"
    <3>1. t = o
      BY <2>2
    <3> QED
      BY <1>2, <3>1 DEF Sends, Keeps
  <2>3. CASE ~o.modem_state /\ s.rdwrfd # "none"
    <3>1. t = Sent(o, c, host)
      BY <2>3
    <3>2. Sends(o, t)
      BY <1>2, <3>1, SendsOne DEF Keeps
    <3> QED
      BY <1>2, <3>2 DEF Sends, Keeps, Stays, Outgoing, Failed
  <2> QED
    BY <2>1, <2>2, <2>3
<1>4. b \in BOOLEAN
  OBVIOUS
<1>5. /\ Round(run, c, host).scc = t
      /\ Round(run, c, host).done \in BOOLEAN
      /\ Round(run, c, host).done <=> b
  <2> HIDE DEF t, b
  <2> QED
    BY <1>1, <1>4
<1> HIDE DEF t
<1> QED
  BY <1>3, <1>5, Zenon

(* f goes through k rounds, on the pieces of q, from a.                     *)
IsRun(f, a, q, host, k) ==
  f = [n \in 0 .. k |-> IF n = 0 THEN a ELSE Round(f[n - 1], q[n], host)]

(* The rounds of the write loop can be run one after the other.             *)
LEMMA RoundsRun ==
  ASSUME NEW a, NEW q, NEW host, NEW m \in Nat
  PROVE  \E f : IsRun(f, a, q, host, m)
<1> DEFINE Runs(f, k) == f = [n \in 0 .. k |-> IF n = 0 THEN a
                                ELSE Round(f[n - 1], q[n], host)]
           S == { k \in Nat : \E f : Runs(f, k) }
<1>1. 0 \in S
  <2>1. Runs([n \in 0 .. 0 |-> a], 0)
    OBVIOUS
  <2> QED
    BY <2>1
<1>2. ASSUME NEW k \in Nat, k \in S PROVE k + 1 \in S
  <2>1. PICK f : Runs(f, k)
    BY <1>2
  <2> DEFINE r == Round(f[k], q[k + 1], host)
             g == [n \in 0 .. k + 1 |-> IF n = k + 1 THEN r ELSE f[n]]
             h == [n \in 0 .. k + 1 |-> IF n = 0 THEN a
                                        ELSE Round(g[n - 1], q[n], host)]
  <2>2. ASSUME NEW n \in 0 .. k + 1 PROVE g[n] = h[n]
    <3>1. CASE n = k + 1
      <4>1. g[n] = r /\ g[n - 1] = f[k] /\ n # 0 /\ n - 1 = k
        BY <3>1
      <4>2. h[n] = Round(g[n - 1], q[n], host)
        BY <4>1
      <4> QED
        BY <3>1, <4>1, <4>2
    <3>2. CASE n \in 1 .. k
      <4>1. g[n] = f[n] /\ g[n - 1] = f[n - 1] /\ n # 0
        BY <3>2
      <4>2. f[n] = Round(f[n - 1], q[n], host)
        BY <2>1, <3>2, <4>1
      <4> QED
        BY <4>1, <4>2
    <3>3. CASE n = 0
      BY <2>1, <3>3
    <3> QED
      BY <3>1, <3>2, <3>3
  <2>3. g = h
    <3> HIDE DEF r
    <3> QED
      BY <2>2
  <2>4. Runs(g, k + 1)
    BY <2>3
  <2>5. \E f2 : Runs(f2, k + 1)
    <3> HIDE DEF g, Runs
    <3> QED
      BY <2>4
  <2> HIDE DEF Runs
  <2> QED
    BY <2>5
<1>3. Nat \subseteq S
  <2> HIDE DEF S
  <2> QED
    BY <1>1, <1>2, NatSetInduction
<1> QED
  BY <1>3 DEF IsRun

(* The escape sequence puts a modem that is online in command mode.         *)
LEMMA Escapes ==
  ASSUME NEW s \in Ports, Good(s)
  PROVE  Keeps(s, Escaped(s))
<1> DEFINE u == [s EXCEPT !.modem_state = TRUE, !.plus = 0]
           t == Says(u, "OK")
<1>0. Keeps(s, s)
  BY DEF Keeps, Stays
<1>1. ASSUME s.cur_state = Modem PROVE Keeps(s, t)
  <2>1. /\ u \in Ports
        /\ u.cur_state = s.cur_state /\ u.out = s.out
        /\ u.sockfd = s.sockfd /\ u.rdwrfd = s.rdwrfd /\ u.rings = s.rings
        /\ u.modem_state = TRUE
    <3>1. 0 \in 0 .. 4
      OBVIOUS
    <3> QED
      BY <3>1 DEF Ports
  <2>2. Alike(u, t) /\ t.told = FALSE
    BY <2>1, AnswersOther
  <2> HIDE DEF u, t
  <2>3. Fits(t) /\ OnSockets(t)
    BY <1>1, <2>1, <2>2
    DEF Alike, Good, Fits, OnSockets, Serial, Modem, Outgoing, Incoming, Unopened, Failed
  <2> QED
    BY <2>1, <2>2, <2>3 DEF Alike, Keeps, Stays, Good
<1>2. (Escaped(s) = t /\ s.cur_state = Modem) \/ Escaped(s) = s
  BY DEF Escaped
<1> QED
  BY <1>0, <1>1, <1>2

(* The write loop: however many rounds it takes, no more is in the output   *)
(* than there was.                                                          *)
LEMMA Empties ==
  ASSUME NEW s \in Ports, Good(s), NEW host \in Host
  PROVE  LET t == scc_socket_empty_writebuf(s, host) IN
         Good(t) /\ Stays(s, t) /\ Len(t.out) <= Len(s.out)
<1> DEFINE o == scc_socket_maybe_open(s, FALSE, host)
           e == Escaped(o)
           m == Len(e.out)
           start == [scc |-> e, done |-> FALSE]
           run == CHOOSE f : IsRun(f, start, e.out, host, m)
<1>1. Keeps(s, e)
  <2>1. Keeps(s, o)
    BY MaybeOpens
  <2>2. Keeps(o, e)
    BY <2>1, Escapes DEF Keeps, Good
  <2> QED
    BY <2>1, <2>2, KeepsOn
<1>2. scc_socket_empty_writebuf(s, host) = run[m].scc
  BY DEF scc_socket_empty_writebuf, IsRun
<1> HIDE DEF e
<1>3. e \in Ports /\ Good(e) /\ m \in Nat /\ e.out \in Seq(Output)
  <2>1. e \in Ports /\ Good(e)
    BY <1>1 DEF Keeps, Good
  <2>2. e.out \in Seq(Output)
    BY <2>1 DEF Ports
  <2> QED
    BY <2>1, <2>2
<1> HIDE DEF m
<1>4. \A n \in 0 .. m :
        run[n] = IF n = 0 THEN start ELSE Round(run[n - 1], e.out[n], host)
  <2>1. \E f : IsRun(f, start, e.out, host, m)
    BY <1>3, RoundsRun, Zenon
  <2>2. IsRun(run, start, e.out, host, m)
    BY <2>1, Zenon
  <2> HIDE DEF run, start
  <2> QED
    BY <2>2 DEF IsRun
<1> HIDE DEF run
<1> DEFINE Here(r, n) == /\ Good(r.scc) /\ Stays(e, r.scc)
                         /\ Len(r.scc.out) <= m
                         /\ r.done \/ Len(r.scc.out) = m - n
           S == { n \in Nat : n <= m => Here(run[n], n) }
<1>5. 0 \in S
  <2>1. run[0] = start
    <3> HIDE DEF start
    <3>1. 0 \in 0 .. m
      BY <1>3
    <3> QED
      BY <1>4, <3>1
  <2> QED
    BY <1>3, <2>1 DEF Stays, m
<1>6. ASSUME NEW n \in Nat, n \in S PROVE n + 1 \in S
  <2> SUFFICES ASSUME n + 1 <= m PROVE Here(run[n + 1], n + 1)
    <3> HIDE DEF Here
    <3> QED
      OBVIOUS
  <2>1. Here(run[n], n)
    BY <1>3, <1>6
  <2>2. run[n + 1] = Round(run[n], e.out[n + 1], host)
    <3>1. n + 1 \in 0 .. m /\ n + 1 # 0 /\ (n + 1) - 1 = n
      BY <1>3
    <3> QED
      BY <1>4, <3>1
  <2> DEFINE r == run[n]
             t == run[n + 1]
  <2> HIDE DEF r, t
  <2>3. CASE r.done
    <3>1. t = r
      BY <2>2, <2>3 DEF Round, r, t
    <3> QED
      BY <2>1, <2>3, <3>1 DEF r, t
  <2>4. CASE ~r.done
    <3>1. Len(r.scc.out) = m - n
      BY <2>1, <2>4 DEF r
    <3>2. r.scc \in Ports /\ Good(r.scc) /\ r.scc.out \in Seq(Output)
      BY <2>1 DEF r, Good, Ports
    <3>3. r.scc.out # <<>>
      BY <1>3, <3>1, <3>2
    <3>4. e.out[n + 1] \in Output
      BY <1>3 DEF m
    <3>5. /\ Sends(r.scc, t.scc)
          /\ t.done <=> Len(t.scc.out) = Len(r.scc.out)
      BY <2>2, <2>4, <3>2, <3>3, <3>4, RoundSends DEF r, t
    <3>6. Len(Tail(r.scc.out)) = m - (n + 1)
      BY <1>3, <3>1, <3>2, <3>3
    <3>7. Len(t.scc.out) <= m /\ (t.done \/ Len(t.scc.out) = m - (n + 1))
      <4>1. t.scc.out = r.scc.out \/ t.scc.out = Tail(r.scc.out)
        BY <3>5 DEF Sends
      <4>2. CASE t.scc.out = r.scc.out
        BY <1>3, <3>1, <3>5, <4>2
      <4>3. CASE t.scc.out = Tail(r.scc.out)
        BY <1>3, <3>6, <4>3
      <4> QED
        BY <4>1, <4>2, <4>3
    <3>8. Stays(e, t.scc)
      BY <2>1, <3>5 DEF r, Sends, Stays, Outgoing, Failed
    <3> QED
      BY <3>5, <3>7, <3>8 DEF Sends, t
  <2> QED
    BY <2>3, <2>4
<1>7. Here(run[m], m)
  <2> HIDE DEF Here
  <2>1. Nat \subseteq S
    <3> HIDE DEF S
    <3> QED
      BY <1>5, <1>6, NatSetInduction
  <2> QED
    BY <1>3, <2>1
<1> QED
  BY <1>1, <1>2, <1>7 DEF m, Keeps, Stays, Outgoing, Failed

(* What SocketsMatch says of a port's record while cfg is configured.       *)
Held(s, cfg) ==
  /\ s \in Ports /\ Len(s.out) <= MaxOut
  /\ Fits(s)
  /\ s.cur_state >= 0 => s.cur_state = cfg

LEMMA MoreOutput ==
  MaxOut \in Nat \ {0}
BY RingsAssumption

LEMMA StateIsInt ==
  ASSUME NEW s \in Ports
  PROVE  /\ s.cur_state \in Int /\ s.cur_state >= -2
         /\ s.cur_state \in {Serial, Modem, Outgoing, Incoming, Unopened, Failed}
         /\ s.cur_state \in Modes \union {Unopened, Failed}
<1>1. s.cur_state \in Modes \union {Unopened, Failed}
  BY DEF Ports
<1>2. s.cur_state \in 0 .. 3 \/ s.cur_state \in {Unopened, Failed}
  BY <1>1, ModesAssumption
<1> QED
  BY <1>1, <1>2 DEF Serial, Modem, Outgoing, Incoming, Unopened, Failed

(* A handler of an open port on sockets keeps the port in its mode.         *)
LEMMA HeldOnSockets ==
  ASSUME NEW s \in Ports, NEW cfg, Held(s, cfg), s.cur_state > Serial
  PROVE  Good(s)
BY StateIsInt
DEF Held, Good, Fits, OnSockets, Serial, Modem, Outgoing, Incoming, Unopened, Failed

LEMMA StillHeld ==
  ASSUME NEW s \in Ports, NEW cfg, Held(s, cfg), NEW t, Good(t), Stays(s, t),
         Len(t.out) <= Len(s.out)
  PROVE  Held(t, cfg)
<1>1. t \in Ports /\ s.out \in Seq(Output) /\ t.out \in Seq(Output)
  <2>1. t \in Ports
    BY DEF Good
  <2> QED
    BY <2>1 DEF Ports
<1>2. Len(t.out) <= MaxOut
  BY <1>1, MoreOutput DEF Held
<1>3. t.cur_state >= 0 => t.cur_state = cfg
  BY DEF Held, Stays, Failed
<1> QED
  BY <1>1, <1>2, <1>3 DEF Held, Good

(* A port opened on sockets is in command mode if it is a modem's, and has  *)
(* no connection yet.                                                       *)
LEMMA OpensOnSockets ==
  ASSUME NEW s \in Ports, NEW cfg \in Modes, cfg # Serial, NEW host \in Host
  PROVE  LET t == scc_socket_open(s, cfg, host) IN
         Good(t) /\ t.cur_state = cfg /\ t.out = s.out
<1> DEFINE up == cfg # Modem
           on == cfg = Modem
           rec(b, d) == [s EXCEPT !.cur_state = cfg, !.sockfd = "none",
                                  !.rdwrfd = "none", !.modem_state = b,
                                  !.rings = 0, !.dcd = d, !.s0 = 0,
                                  !.told = FALSE]
           o == rec(on, up)
           t == scc_socket_open(s, cfg, host)
<1>1. t = IF cfg = Outgoing THEN o ELSE scc_socket_open_incoming(o, host)
  BY DEF scc_socket_open
<1>2. ASSUME NEW b \in BOOLEAN, NEW d \in BOOLEAN
      PROVE  /\ rec(b, d) \in Ports
             /\ rec(b, d).cur_state = cfg /\ rec(b, d).out = s.out
             /\ rec(b, d).sockfd = "none" /\ rec(b, d).rdwrfd = "none"
             /\ rec(b, d).rings = 0 /\ rec(b, d).modem_state = b
             /\ rec(b, d).told = FALSE
  BY Rings DEF Ports
<1> HIDE DEF rec
<1>3. /\ o \in Ports /\ o.cur_state = cfg /\ o.out = s.out
      /\ o.sockfd = "none" /\ o.rdwrfd = "none"
      /\ o.rings = 0 /\ o.told = FALSE
      /\ o.modem_state = on
  BY <1>2, Zenon
<1>4. o.modem_state <=> cfg = Modem
  BY <1>3, Zenon
<1> HIDE DEF o, t, on
<1>5. cfg \in {Modem, Outgoing, Incoming}
  BY ModesAssumption DEF Serial, Modem, Outgoing, Incoming
<1>6. Good(o)
  <2>1. /\ o.cur_state = cfg
        /\ o.sockfd = "none" /\ o.rdwrfd = "none" /\ o.rings = 0 /\ o.told = FALSE
    BY <1>3
  <2>2. Fits(o) /\ OnSockets(o)
    BY <1>4, <1>5, <2>1
    DEF Fits, OnSockets, Serial, Modem, Outgoing, Incoming, Unopened, Failed
  <2> QED
    BY <1>3, <2>2 DEF Good
<1>7. o \in Ports /\ o.cur_state = cfg /\ o.out = s.out
  BY <1>3
<1> QED
  <2>1. CASE cfg = Outgoing
    BY <1>1, <1>6, <1>7, <2>1 DEF t
  <2>2. CASE cfg # Outgoing
    <3>1. Keeps(o, t)
      BY <1>1, <1>6, <1>7, <2>2, Listens
    <3> QED
      BY <1>7, <2>2, <3>1 DEF Keeps, Stays, t
  <2> QED
    BY <2>1, <2>2

(* t is s but for the mode, and nothing is lost by the change.              *)
LEMMA ChangesMode ==
  ASSUME NEW s \in Ports, NEW m \in Modes \union {Unopened, Failed},
         s.sockfd = "none", s.rdwrfd = "none",
         m \in {Serial, Unopened, Failed}
  PROVE  LET t == [s EXCEPT !.cur_state = m] IN
         t \in Ports /\ Fits(t) /\ t.cur_state = m /\ t.out = s.out
<1> DEFINE t == [s EXCEPT !.cur_state = m]
<1>1. /\ t \in Ports /\ t.cur_state = m /\ t.out = s.out
      /\ t.sockfd = "none" /\ t.rdwrfd = "none"
  BY DEF Ports
<1> HIDE DEF t
<1>2. Fits(t)
  BY <1>1 DEF Fits, Serial, Modem, Outgoing, Incoming, Unopened, Failed
<1> QED
  BY <1>1, <1>2 DEF t

(* A port is opened in the mode configured, or is given up.                 *)
LEMMA Opens ==
  ASSUME NEW s \in Ports, g_serial_cfg \in Modes, Held(s, g_serial_cfg),
         NEW host \in Host
  PROVE  /\ Opened(s, host) \in Ports
         /\ Held(Opened(s, host), g_serial_cfg)
         /\ Opened(s, host).out = s.out
         /\ s.cur_state # Unopened => Opened(s, host).cur_state = s.cur_state
<1> DEFINE o == IF s.cur_state = Unopened THEN scc_port_open(s, host) ELSE s
           t == Opened(s, host)
<1>1. t = [o EXCEPT !.cur_state = IF o.cur_state = Unopened THEN Failed
                                                            ELSE o.cur_state]
  BY DEF Opened
<1>2. /\ o \in Ports /\ Fits(o) /\ o.out = s.out
      /\ o.cur_state >= 0 => o.cur_state = g_serial_cfg
      /\ s.cur_state # Unopened => o = s
  <2>1. CASE s.cur_state # Unopened
    BY <2>1 DEF Held
  <2>2. CASE s.cur_state = Unopened /\ g_serial_cfg = Serial
    <3>1. s.sockfd = "none" /\ s.rdwrfd = "none"
      BY <2>2 DEF Held, Fits
    <3>2. PICK m \in {Serial, Unopened} : o = [s EXCEPT !.cur_state = m]
      <4>1. o = [s EXCEPT !.cur_state = IF host.ok THEN Serial ELSE Unopened]
        BY <2>2 DEF scc_port_open
      <4>2. CASE host.ok
        BY <4>1, <4>2
      <4>3. CASE ~host.ok
        BY <4>1, <4>3
      <4> QED
        BY <4>2, <4>3
    <3>3. m \in Modes \union {Unopened, Failed}
      BY <2>2, <3>2 DEF Serial, Unopened
    <3> HIDE DEF o
    <3>4. o \in Ports /\ Fits(o) /\ o.cur_state = m /\ o.out = s.out
      BY <3>1, <3>2, <3>3, ChangesMode
    <3> QED
      BY <2>2, <3>2, <3>4 DEF Serial, Unopened
  <2>3. CASE s.cur_state = Unopened /\ g_serial_cfg # Serial
    <3>1. o = scc_socket_open(s, g_serial_cfg, host)
      BY <2>3 DEF scc_port_open
    <3> HIDE DEF o
    <3>2. Good(o) /\ o.cur_state = g_serial_cfg /\ o.out = s.out
      BY <2>3, <3>1, OpensOnSockets
    <3> QED
      BY <2>3, <3>2 DEF Good
  <2> QED
    BY <2>1, <2>2, <2>3
<1> HIDE DEF o, t
<1>3. CASE o.cur_state = Unopened
  <2>1. t = [o EXCEPT !.cur_state = Failed]
    BY <1>1, <1>3
  <2>2. o.sockfd = "none" /\ o.rdwrfd = "none"
    BY <1>2, <1>3 DEF Fits
  <2>3. t \in Ports /\ Fits(t) /\ t.cur_state = Failed /\ t.out = o.out
    BY <1>2, <2>1, <2>2, ChangesMode
  <2> QED
    BY <1>2, <1>3, <2>3 DEF Held, Failed, t
<1>4. CASE o.cur_state # Unopened
  <2>1. t = o
    <3>1. t = [o EXCEPT !.cur_state = o.cur_state]
      BY <1>1, <1>4
    <3> QED
      BY <1>2, <3>1 DEF Ports
  <2> QED
    BY <1>2, <2>1 DEF Held, t
<1> QED
  BY <1>3, <1>4

(* Fields no socket depends on may change, and the output may shrink.       *)
LEMMA HeldAlike ==
  ASSUME NEW s \in Ports, NEW cfg, Held(s, cfg), NEW t \in Ports,
         t.cur_state = s.cur_state, Len(t.out) <= MaxOut,
         t.sockfd = s.sockfd, t.rdwrfd = s.rdwrfd, t.rings = s.rings,
         t.modem_state = s.modem_state, t.told = s.told \/ ~t.told
  PROVE  Held(t, cfg)
BY DEF Held, Fits, Serial, Modem, Outgoing, Incoming, Unopened, Failed

LEMMA Writes ==
  ASSUME NEW s \in Ports, g_serial_cfg \in Modes, Held(s, g_serial_cfg),
         NEW host \in Host
  PROVE  Held(scc_try_to_empty_writebuf(s, host), g_serial_cfg)
<1> DEFINE o == Opened(s, host)
           w == [o EXCEPT !.write_called = TRUE]
           e == [w EXCEPT !.out = <<>>]
           sent == scc_socket_empty_writebuf(w, host)
           t == scc_try_to_empty_writebuf(s, host)
<1>1. /\ o \in Ports /\ Held(o, g_serial_cfg) /\ o.out = s.out
      /\ s.cur_state # Unopened => o.cur_state = s.cur_state
  BY Opens
<1>2. \/ t = s \/ t = o \/ t = w \/ t = e
      \/ t = sent /\ s.cur_state > Serial
  BY DEF scc_try_to_empty_writebuf
<1> HIDE DEF o, t
<1>3. Len(o.out) <= MaxOut
  BY <1>1 DEF Held
<1>4. /\ w \in Ports /\ w.cur_state = o.cur_state /\ w.out = o.out
      /\ w.sockfd = o.sockfd /\ w.rdwrfd = o.rdwrfd /\ w.rings = o.rings
      /\ w.modem_state = o.modem_state /\ w.told = o.told
  BY <1>1 DEF Ports
<1> HIDE DEF w
<1>5. Held(w, g_serial_cfg)
  BY <1>1, <1>3, <1>4, HeldAlike
<1>6. Held(e, g_serial_cfg)
  <2>1. /\ e \in Ports /\ e.cur_state = w.cur_state /\ e.out = <<>>
        /\ e.sockfd = w.sockfd /\ e.rdwrfd = w.rdwrfd /\ e.rings = w.rings
        /\ e.modem_state = w.modem_state /\ e.told = w.told
    <3> DEFINE q == <<>>
    <3>1. q \in Seq(Output) /\ e = [w EXCEPT !.out = q]
      OBVIOUS
    <3> HIDE DEF q, e
    <3>2. /\ e \in Ports /\ e.cur_state = w.cur_state /\ e.out = q
          /\ e.sockfd = w.sockfd /\ e.rdwrfd = w.rdwrfd /\ e.rings = w.rings
          /\ e.modem_state = w.modem_state /\ e.told = w.told
      BY <1>4, <3>1 DEF Ports
    <3> QED
      BY <3>2 DEF q
  <2>2. Len(e.out) <= MaxOut
    BY <2>1, MoreOutput
  <2> HIDE DEF e
  <2> QED
    BY <1>4, <1>5, <2>1, <2>2, HeldAlike
<1>7. ASSUME s.cur_state > Serial PROVE Held(sent, g_serial_cfg)
  <2>1. w.cur_state > Serial
    BY <1>1, <1>4, <1>7 DEF Serial, Unopened
  <2>2. Good(w)
    BY <1>4, <1>5, <2>1, HeldOnSockets
  <2>3. Good(sent) /\ Stays(w, sent) /\ Len(sent.out) <= Len(w.out)
    BY <1>4, <2>2, Empties
  <2> HIDE DEF sent
  <2> QED
    BY <1>4, <1>5, <2>3, StillHeld
<1> HIDE DEF e, sent
<1> QED
  BY <1>1, <1>2, <1>5, <1>6, <1>7 DEF t

LEMMA Reads ==
  ASSUME NEW s \in Ports, g_serial_cfg \in Modes, Held(s, g_serial_cfg),
         NEW host \in Host
  PROVE  Held(scc_try_fill_readbuf(s, host), g_serial_cfg)
<1> DEFINE o == Opened(s, host)
           takes == Takes(host)
           heard == IF host.line = "talks" THEN Hears(o) ELSE o
           d == [heard EXCEPT !.dcd = takes]
           r == scc_socket_fill_readbuf(o, host)
           t == scc_try_fill_readbuf(s, host)
<1>1. o \in Ports /\ Held(o, g_serial_cfg)
  BY Opens
<1>2. t = s \/ t = d \/ (t = r /\ o.cur_state > Serial) \/ t = o
  <2> HIDE DEF r, d, takes, heard
  <2>0. CASE Deaf(s)
    BY <2>0 DEF scc_try_fill_readbuf
  <2>1. CASE ~Deaf(s) /\ o.cur_state = Serial
    <3>1. t = scc_serial_fill_readbuf(o, host)
      BY <2>1 DEF scc_try_fill_readbuf, Serial
    <3> QED
      BY <3>1, Zenon DEF scc_serial_fill_readbuf, d, heard, takes
  <2>2. CASE ~Deaf(s) /\ o.cur_state > Serial
    <3>1. o.cur_state # Serial
      BY <1>1, <2>2, StateIsInt DEF Serial
    <3>2. t = scc_socket_fill_readbuf(o, host)
      BY <2>2, <3>1 DEF scc_try_fill_readbuf
    <3> QED
      BY <2>2, <3>2 DEF r
  <2>3. CASE ~Deaf(s) /\ o.cur_state # Serial /\ ~(o.cur_state > Serial)
    BY <2>3 DEF scc_try_fill_readbuf
  <2> QED
    BY <2>0, <2>1, <2>2, <2>3
<1>3. takes \in BOOLEAN
  BY DEF Takes
<1> HIDE DEF o, t, takes
<1>4. Held(d, g_serial_cfg)
  <2>0. Alike(o, heard) /\ heard.told = o.told
    <3>1. Alike(o, o)
      BY <1>1 DEF Alike
    <3> QED
      BY <1>1, <3>1, Heard
  <2> HIDE DEF heard
  <2>1. /\ d \in Ports /\ d.cur_state = o.cur_state /\ d.out = o.out
        /\ d.sockfd = o.sockfd /\ d.rdwrfd = o.rdwrfd /\ d.rings = o.rings
        /\ d.modem_state = o.modem_state /\ d.told = o.told
    BY <1>3, <2>0 DEF Alike, Ports
  <2> HIDE DEF d
  <2>2. Len(d.out) <= MaxOut
    BY <1>1, <2>1 DEF Held
  <2> QED
    BY <1>1, <2>1, <2>2, HeldAlike
<1>5. ASSUME o.cur_state > Serial PROVE Held(r, g_serial_cfg)
  <2>1. Keeps(o, r)
    BY <1>1, <1>5, HeldOnSockets, Fills
  <2> HIDE DEF r
  <2>2. o.out \in Seq(Output)
    BY <1>1 DEF Ports
  <2> QED
    BY <1>1, <2>1, <2>2, StillHeld DEF Keeps
<1> HIDE DEF d, r
<1> QED
  BY <1>1, <1>2, <1>4, <1>5 DEF t

(* What the guest writes is dropped once the buffer is full.                *)
LEMMA Transmits ==
  ASSUME NEW s \in Ports, g_serial_cfg \in Modes, Held(s, g_serial_cfg),
         NEW c \in Output, NEW host \in Host
  PROVE  /\ Transmitted(s, c, host) \in Ports
         /\ Held(Transmitted(s, c, host), g_serial_cfg)
<1> DEFINE o == Opened(s, host)
           q == Append(o.out, c)
           a == [o EXCEPT !.out = q]
           t == Transmitted(s, c, host)
<1>1. o \in Ports /\ Held(o, g_serial_cfg)
  BY Opens
<1>2. t = IF o.cur_state < 0 \/ Len(o.out) = MaxOut THEN o ELSE a
  BY DEF Transmitted
<1> HIDE DEF o
<1>3. o.out \in Seq(Output) /\ Len(o.out) <= MaxOut
  BY <1>1 DEF Ports, Held
<1>4. q \in Seq(Output) /\ Len(q) = Len(o.out) + 1
  BY <1>3
<1> HIDE DEF q
<1>5. /\ a \in Ports /\ a.cur_state = o.cur_state /\ a.out = q
      /\ a.sockfd = o.sockfd /\ a.rdwrfd = o.rdwrfd /\ a.rings = o.rings
      /\ a.modem_state = o.modem_state /\ a.told = o.told
  BY <1>1, <1>4 DEF Ports
<1> HIDE DEF a, t
<1>6. CASE o.cur_state < 0 \/ Len(o.out) = MaxOut
  BY <1>1, <1>2, <1>6 DEF t
<1>7. CASE ~(o.cur_state < 0 \/ Len(o.out) = MaxOut)
  <2>1. Len(a.out) <= MaxOut
    BY <1>3, <1>4, <1>5, <1>7, MoreOutput
  <2>2. Held(a, g_serial_cfg)
    BY <1>1, <1>5, <2>1, HeldAlike
  <2> QED
    BY <1>2, <1>5, <1>7, <2>2 DEF t
<1> QED
  BY <1>6, <1>7

(* A port closed for its configuration has no socket, in any mode.          *)
LEMMA ClosesPort ==
  ASSUME NEW s \in Ports, Len(s.out) <= MaxOut, NEW cfg
  PROVE  /\ scc_port_close(s) \in Ports
         /\ Held(scc_port_close(s), cfg)
<1> DEFINE c == scc_socket_close(s)
           t == scc_port_close(s)
<1>1. /\ c \in Ports /\ c.out = s.out
      /\ c.sockfd = "none" /\ c.rdwrfd = "none"
  BY Closes, Zenon
<1>2. t = [c EXCEPT !.cur_state = Unopened]
  BY DEF scc_port_close
<1> HIDE DEF c, t
<1>3. t \in Ports /\ Fits(t) /\ t.cur_state = Unopened /\ t.out = c.out
  BY <1>1, <1>2, ChangesMode
<1> QED
  BY <1>1, <1>3 DEF Held, Unopened, t

-------------------------------------------------------------------------------
(* The inductive invariant: TypeOK, SocketsMatch and, because the close of  *)
(* a port takes its mode for granted, that command mode is the modem's.     *)
Agreed ==
  g_serial_cfg \in Modes /\ frame \in {0, 1} /\ Held(scc, g_serial_cfg)

LEMMA AgreedMeans == Agreed => TypeOK /\ SocketsMatch
BY DEF Agreed, Held, Fits, TypeOK, SocketsMatch, IsModem

LEMMA AgreedAtFirst == Init => Agreed
<1> SUFFICES ASSUME Init PROVE Agreed
  OBVIOUS
<1> DEFINE up == PortNo = 0
           q == <<>>
<1>1. up \in BOOLEAN /\ q \in Seq(Output) /\ Len(q) = 0
  OBVIOUS
<1>2. scc = [cur_state |-> Unopened, sockfd |-> "none", rdwrfd |-> "none",
             modem_state |-> FALSE, dcd |-> up, rings |-> 0,
             ring_wait |-> FALSE, s0 |-> 0, plus |-> 0, since |-> Long,
             out |-> q, inbuf |-> 0, write_called |-> FALSE,
             dtr_off |-> FALSE, told |-> FALSE]
  BY DEF Init
<1>3. 0 \in 0 .. 4 /\ Long \in 0 .. Long /\ 0 \in 0 .. MaxIn
  BY RingsAssumption DEF Long
<1> HIDE DEF up, q
<1>4. /\ scc \in Ports /\ scc.cur_state = Unopened /\ scc.out = q
      /\ scc.sockfd = "none" /\ scc.rdwrfd = "none"
  BY <1>1, <1>2, <1>3, Rings DEF Ports
<1>5. Fits(scc)
  BY <1>4 DEF Fits, Serial, Modem, Outgoing, Incoming, Unopened, Failed
<1> QED
  BY <1>1, <1>4, <1>5, MoreOutput DEF Agreed, Held, Init, Unopened

(* A step that changes only what no socket depends on.                      *)
LEMMA AgreedAlike ==
  ASSUME Agreed, NEW t \in Ports, scc' = t,
         t.cur_state = scc.cur_state, Len(t.out) <= MaxOut,
         t.sockfd = scc.sockfd, t.rdwrfd = scc.rdwrfd, t.rings = scc.rings,
         t.modem_state = scc.modem_state, t.told = scc.told \/ ~t.told,
         UNCHANGED <<g_serial_cfg, frame>>
  PROVE  Agreed'
<1>1. scc \in Ports /\ Held(scc, g_serial_cfg)
  BY DEF Agreed, Held
<1>2. Held(t, g_serial_cfg)
  BY <1>1, HeldAlike
<1> QED
  BY <1>2 DEF Agreed

LEMMA AgreedKept == Agreed /\ [Next]_vars => Agreed'
<1> SUFFICES ASSUME Agreed, [Next]_vars PROVE Agreed'
  OBVIOUS
<1>0. /\ scc \in Ports /\ Held(scc, g_serial_cfg) /\ g_serial_cfg \in Modes
      /\ frame \in {0, 1} /\ Len(scc.out) <= MaxOut
  BY DEF Agreed, Held
<1>1. ASSUME NEW host \in Host, scc_update(host) PROVE Agreed'
  <2> DEFINE u == [scc EXCEPT !.write_called = FALSE]
             w == scc_try_to_empty_writebuf(u, host)
             r == scc_try_fill_readbuf(w, host)
             t == [r EXCEPT !.write_called = FALSE]
  <2>1. /\ u \in Ports /\ u.cur_state = scc.cur_state /\ u.out = scc.out
        /\ u.sockfd = scc.sockfd /\ u.rdwrfd = scc.rdwrfd
        /\ u.rings = scc.rings /\ u.modem_state = scc.modem_state
        /\ u.told = scc.told
    BY <1>0 DEF Ports
  <2>2. scc' = t /\ frame' = 1 - frame /\ g_serial_cfg' = g_serial_cfg
    BY <1>1 DEF scc_update
  <2> HIDE DEF u
  <2>3. Held(u, g_serial_cfg)
    BY <1>0, <2>1, HeldAlike
  <2>4. Held(w, g_serial_cfg) /\ w \in Ports
    BY <1>0, <2>1, <2>3, Writes DEF Held
  <2> HIDE DEF w
  <2>5. Held(r, g_serial_cfg) /\ r \in Ports /\ Len(r.out) <= MaxOut
    BY <1>0, <2>4, Reads DEF Held
  <2> HIDE DEF r
  <2>6. /\ t \in Ports /\ t.cur_state = r.cur_state /\ t.out = r.out
        /\ t.sockfd = r.sockfd /\ t.rdwrfd = r.rdwrfd
        /\ t.rings = r.rings /\ t.modem_state = r.modem_state
        /\ t.told = r.told
    BY <2>5 DEF Ports
  <2> HIDE DEF t
  <2>7. Held(t, g_serial_cfg)
    BY <2>5, <2>6, HeldAlike
  <2> QED
    BY <1>0, <2>2, <2>7 DEF Agreed
<1>2. ASSUME NEW host \in Quiet, NEW c \in Output, scc_write_data(c, host)
      PROVE  Agreed'
  <2>0. host \in Host
    BY DEF Quiet
  <2> DEFINE a == Transmitted(scc, c, host)
             t == scc_try_to_empty_writebuf(a, host)
  <2>1. a \in Ports /\ Held(a, g_serial_cfg)
    BY <1>0, <2>0, Transmits
  <2>2. Held(t, g_serial_cfg)
    BY <1>0, <2>0, <2>1, Writes
  <2>3. scc' = t /\ UNCHANGED <<g_serial_cfg, frame>>
    BY <1>2 DEF scc_write_data
  <2> HIDE DEF t
  <2> QED
    BY <1>0, <2>2, <2>3 DEF Agreed
<1>3. ASSUME NEW host \in Host, NEW last \in BOOLEAN, scc_read_data(last, host)
      PROVE  Agreed'
  <2> DEFINE t == scc_try_fill_readbuf(scc, host)
  <2>1. Held(t, g_serial_cfg) /\ t \in Ports /\ Len(t.out) <= MaxOut
    BY <1>0, Reads DEF Held
  <2>2. scc' \in {t, Taken(t)} /\ UNCHANGED <<g_serial_cfg, frame>>
    BY <1>3 DEF scc_read_data
  <2> HIDE DEF t
  <2>3. Held(Taken(t), g_serial_cfg)
    BY <2>1, Read, HeldAlike DEF Alike
  <2> QED
    BY <1>0, <2>1, <2>2, <2>3 DEF Agreed
<1>13. ASSUME scc_maybe_rx_event PROVE Agreed'
  BY <1>0, <1>13, Read, AgreedAlike DEF scc_maybe_rx_event, Alike
<1>4. ASSUME NEW off \in BOOLEAN, write_wr5(off) PROVE Agreed'
  <2> DEFINE b == scc.told /\ ~off
             t == [scc EXCEPT !.dtr_off = off, !.told = b]
  <2>1. scc' = t /\ UNCHANGED <<g_serial_cfg, frame>>
    BY <1>4 DEF write_wr5
  <2>2. b \in BOOLEAN /\ (b = scc.told \/ ~b)
    BY <1>0, Rung
  <2> HIDE DEF b
  <2>3. /\ t \in Ports /\ t.cur_state = scc.cur_state /\ t.out = scc.out
        /\ t.sockfd = scc.sockfd /\ t.rdwrfd = scc.rdwrfd
        /\ t.rings = scc.rings /\ t.modem_state = scc.modem_state
        /\ t.told = b
    BY <1>0, <2>2 DEF Ports
  <2> HIDE DEF t
  <2>4. t.told = scc.told \/ ~t.told
    BY <2>2, <2>3, Zenon
  <2> QED
    BY <1>0, <2>1, <2>3, <2>4, AgreedAlike
<1>5. ASSUME scc_reset_port PROVE Agreed'
  <2> DEFINE t == [scc EXCEPT !.dtr_off = FALSE]
  <2>1. scc' = t /\ UNCHANGED <<g_serial_cfg, frame>>
    BY <1>5 DEF scc_reset_port
  <2>2. /\ t \in Ports /\ t.cur_state = scc.cur_state /\ t.out = scc.out
        /\ t.sockfd = scc.sockfd /\ t.rdwrfd = scc.rdwrfd
        /\ t.rings = scc.rings /\ t.modem_state = scc.modem_state
        /\ t.told = scc.told
    BY <1>0 DEF Ports
  <2> HIDE DEF t
  <2> QED
    BY <1>0, <2>1, <2>2, AgreedAlike
<1>6. ASSUME scc_reset PROVE Agreed'
  <2> DEFINE q == <<>>
             up == PortNo = 0
             t == [scc EXCEPT !.dtr_off = FALSE, !.out = q, !.inbuf = 0,
                              !.dcd = up, !.write_called = FALSE,
                              !.told = FALSE]
  <2>1. scc' = t /\ UNCHANGED <<g_serial_cfg, frame>>
    BY <1>6 DEF scc_reset
  <2>2. q \in Seq(Output) /\ Len(q) <= MaxOut /\ up \in BOOLEAN /\ 0 \in 0 .. MaxIn
    BY MoreOutput, RingsAssumption
  <2> HIDE DEF q, up
  <2>3. /\ t \in Ports /\ t.cur_state = scc.cur_state /\ t.out = q
        /\ t.sockfd = scc.sockfd /\ t.rdwrfd = scc.rdwrfd
        /\ t.rings = scc.rings /\ t.modem_state = scc.modem_state
        /\ t.told = FALSE
    BY <1>0, <2>2 DEF Ports
  <2> HIDE DEF t
  <2> QED
    BY <1>0, <2>1, <2>2, <2>3, AgreedAlike
<1>7. ASSUME scc' = scc_port_close(scc), g_serial_cfg' \in Modes, frame' = frame
      PROVE  Agreed'
  <2>1. Held(scc_port_close(scc), g_serial_cfg')
    BY <1>0, ClosesPort
  <2> QED
    BY <1>0, <1>7, <2>1 DEF Agreed
<1>8. ASSUME NEW cfg \in Modes, cfg_changed(cfg) PROVE Agreed'
  BY <1>7, <1>8 DEF cfg_changed
<1>9. ASSUME remote_changed \/ serial_dev_changed PROVE Agreed'
  BY <1>0, <1>7, <1>9 DEF remote_changed, serial_dev_changed
<1>10. ASSUME OutAges PROVE Agreed'
  <2> DEFINE n == scc.since + 1
             t == [scc EXCEPT !.since = n]
  <2>1. scc' = t /\ UNCHANGED <<g_serial_cfg, frame>>
    BY <1>10 DEF OutAges
  <2>2. n \in 0 .. Long
    <3>1. scc.since \in 0 .. Long
      BY <1>0 DEF Ports
    <3> QED
      BY <1>10, <3>1 DEF OutAges, Long
  <2> HIDE DEF n
  <2>3. /\ t \in Ports /\ t.cur_state = scc.cur_state /\ t.out = scc.out
        /\ t.sockfd = scc.sockfd /\ t.rdwrfd = scc.rdwrfd
        /\ t.rings = scc.rings /\ t.modem_state = scc.modem_state
        /\ t.told = scc.told
    BY <1>0, <2>2 DEF Ports
  <2> HIDE DEF t
  <2> QED
    BY <1>0, <2>1, <2>3, AgreedAlike
<1>11. ASSUME RingAges PROVE Agreed'
  <2> DEFINE t == [scc EXCEPT !.ring_wait = FALSE]
  <2>1. scc' = t /\ UNCHANGED <<g_serial_cfg, frame>>
    BY <1>11 DEF RingAges
  <2>2. /\ t \in Ports /\ t.cur_state = scc.cur_state /\ t.out = scc.out
        /\ t.sockfd = scc.sockfd /\ t.rdwrfd = scc.rdwrfd
        /\ t.rings = scc.rings /\ t.modem_state = scc.modem_state
        /\ t.told = scc.told
    BY <1>0 DEF Ports
  <2> HIDE DEF t
  <2> QED
    BY <1>0, <2>1, <2>2, AgreedAlike
<1>12. CASE UNCHANGED vars
  BY <1>12 DEF Agreed, vars
<1> QED
  BY <1>1, <1>2, <1>3, <1>4, <1>5, <1>6, <1>8, <1>9, <1>10, <1>11, <1>12, <1>13
  DEF Next

(* The port's record keeps its types, and never holds more output than its  *)
(* buffer.                                                                  *)
THEOREM PortTypeCorrect == Spec => []TypeOK
BY AgreedAtFirst, AgreedKept, AgreedMeans, PTL DEF Spec

(* Whatever the guest, the host and the user do in whatever order, the      *)
(* sockets, the mode, the rings and what the guest was told agree.          *)
THEOREM SocketsAgree == Spec => []SocketsMatch
BY AgreedAtFirst, AgreedKept, AgreedMeans, PTL DEF Spec
-------------------------------------------------------------------------------
(* The chip.                                                                *)
Chip == INSTANCE Scc

Receivers == [buffered : 0 .. Chip!Room, depth : 0 .. QueueSize, pending : BOOLEAN]
Kinds == [Chip!Port -> SUBSET Chip!Kind]

ChipInv == Chip!TypeOK /\ Chip!IrqDelivered /\ Chip!EventBooked

LEMMA Sizes == InBufSize \in Nat /\ Chip!Room \in Nat \ {0} /\ QueueSize \in Nat \ {0}
BY InBufAssumption, RecvAssumption DEF Chip!Room

-------------------------------------------------------------------------------
(* The receiver's counters stay in their ranges, and its event is never     *)
(* forgotten.                                                               *)
LEMMA MaybeRxFacts ==
  ASSUME NEW b \in Receivers
  PROVE  /\ Chip!scc_maybe_rx_event(b) \in Receivers
         /\ b.pending => Chip!scc_maybe_rx_event(b).pending
BY Sizes DEF Receivers, Chip!scc_maybe_rx_event

LEMMA ReceivedFacts ==
  ASSUME NEW b \in Receivers, NEW n \in Nat
  PROVE  /\ Chip!Received(b, n) \in Receivers
         /\ b.pending => Chip!Received(b, n).pending
<1> DEFINE one == [b EXCEPT !.buffered = Chip!Smaller(@ + 1, Chip!Room)]
<1>1. one \in Receivers /\ one.pending = b.pending
  BY Sizes DEF Receivers, Chip!Smaller
<1>2. Chip!scc_add_to_readbuf(b) = Chip!scc_maybe_rx_event(one)
  BY DEF Chip!scc_add_to_readbuf
<1> HIDE DEF one
<1>3. Chip!scc_add_to_readbuf(b) \in Receivers
           /\ (b.pending => Chip!scc_add_to_readbuf(b).pending)
  BY <1>1, <1>2, MaybeRxFacts
<1> DEFINE c == Chip!scc_add_to_readbuf(b)
           more == Chip!Smaller(c.buffered + n - 1, Chip!Room)
<1>4. CASE n = 0
  BY <1>4 DEF Chip!Received
<1>5. CASE n # 0
  <2>1. Chip!Received(b, n) = [c EXCEPT !.buffered = more]
    BY <1>5 DEF Chip!Received
  <2>2. c \in Receivers /\ (b.pending => c.pending)
    BY <1>3
  <2> HIDE DEF c
  <2>3. more \in 0 .. Chip!Room
    BY <1>5, <2>2, Sizes DEF Receivers, Chip!Smaller
  <2> HIDE DEF more
  <2> QED BY <2>1, <2>2, <2>3 DEF Receivers
<1> QED BY <1>4, <1>5

LEMMA PoppedFacts ==
  ASSUME NEW b \in Receivers
  PROVE  Chip!Popped(b) \in Receivers /\ (b.pending => Chip!Popped(b).pending)
<1> DEFINE less == [b EXCEPT !.depth = @ - 1]
<1>1. CASE b.depth = 0
  BY <1>1 DEF Chip!Popped
<1>2. CASE b.depth # 0
  <2>1. less \in Receivers /\ less.pending = b.pending
    BY <1>2, Sizes DEF Receivers
  <2>2. Chip!Popped(b) = Chip!scc_maybe_rx_event(less)
    BY <1>2 DEF Chip!Popped
  <2> HIDE DEF less
  <2> QED BY <2>1, <2>2, MaybeRxFacts
<1> QED BY <1>1, <1>2

LEMMA ReceiverTyped ==
  ASSUME Chip!TypeOK, NEW p \in Chip!Port
  PROVE  Chip!Receiver(p) \in Receivers /\ (Chip!Receiver(p).pending <=> "RX" \in pending[p])
<1>1. /\ buffered[p] \in 0 .. Chip!Room /\ depth[p] \in 0 .. QueueSize
      /\ ("RX" \in pending[p]) \in BOOLEAN
  BY DEF Chip!TypeOK
<1> QED BY <1>1 DEF Chip!Receiver, Receivers

-------------------------------------------------------------------------------
(* The lines of a port after scc_evaluate_ints.                             *)
LEMMA RaisedFacts ==
  ASSUME NEW up, NEW want
  PROVE  Chip!Raised(up, want) \subseteq want /\ (want # {} => Chip!Raised(up, want) # {})
BY DEF Chip!Raised

LEMMA EvaluateDelivers ==
  ASSUME Chip!TypeOK, Chip!IrqDelivered, NEW p \in Chip!Port, mie' = mie,
              wantint' \in Kinds, \A q \in Chip!Port \ {p} : wantint'[q] = wantint[q],
              Chip!Evaluate(p)
  PROVE  g_irq_pending' \in Kinds /\ Chip!IrqDelivered'
<1>1. CASE mie
  <2>1. g_irq_pending' = [g_irq_pending EXCEPT ![p] = Chip!Raised(@, wantint'[p])]
    BY <1>1 DEF Chip!Evaluate, Chip!scc_evaluate_ints
  <2>2. g_irq_pending \in Kinds
    BY DEF Chip!TypeOK, Kinds
  <2>3. /\ g_irq_pending'[p] = Chip!Raised(g_irq_pending[p], wantint'[p])
        /\ \A q \in Chip!Port \ {p} : g_irq_pending'[q] = g_irq_pending[q]
    BY <2>1, <2>2 DEF Kinds
  <2>4. g_irq_pending'[p] \subseteq wantint'[p]
        /\ (wantint'[p] # {} => g_irq_pending'[p] # {})
    BY <2>3, RaisedFacts
  <2>5. g_irq_pending' \in Kinds
    BY <2>1, <2>2, <2>3, <2>4 DEF Kinds
  <2> QED BY <1>1, <2>3, <2>4, <2>5 DEF Chip!IrqDelivered
<1>2. CASE ~ mie
  BY <1>2 DEF Chip!Evaluate, Chip!scc_evaluate_ints, Chip!IrqDelivered, Kinds
<1> QED BY <1>1, <1>2

LEMMA BothDelivered ==
  ASSUME Chip!TypeOK, mie' \in BOOLEAN, wantint' \in Kinds,
              g_irq_pending' = Chip!EvaluateBoth(g_irq_pending)
  PROVE  g_irq_pending' \in Kinds /\ Chip!IrqDelivered'
<1>1. CASE mie'
  <2> DEFINE first == [g_irq_pending EXCEPT ![0] = Chip!Raised(@, wantint'[0])]
  <2>1. g_irq_pending' = [first EXCEPT ![1] = Chip!Raised(@, wantint'[1])]
    BY <1>1 DEF Chip!EvaluateBoth, Chip!scc_evaluate_ints
  <2>2. DOMAIN g_irq_pending = Chip!Port /\ g_irq_pending = [p \in Chip!Port |-> g_irq_pending[p]]
    BY DEF Chip!TypeOK
  <2>3. /\ g_irq_pending'[0] = Chip!Raised(g_irq_pending[0], wantint'[0])
        /\ g_irq_pending'[1] = Chip!Raised(g_irq_pending[1], wantint'[1])
        /\ g_irq_pending' = [p \in Chip!Port |-> g_irq_pending'[p]]
    <3>1. 0 \in Chip!Port /\ 1 \in Chip!Port /\ \A p \in Chip!Port : p = 0 \/ p = 1
      BY DEF Chip!Port
    <3>2. first = [p \in Chip!Port |-> IF p = 0 THEN Chip!Raised(g_irq_pending[0], wantint'[0])
                                       ELSE g_irq_pending[p]]
      BY <2>2, <3>1
    <3> HIDE DEF first
    <3>3. g_irq_pending' = [p \in Chip!Port |-> IF p = 1 THEN Chip!Raised(first[1], wantint'[1])
                                                ELSE first[p]]
      BY <2>1, <3>2
    <3> QED BY <3>1, <3>2, <3>3
  <2>4. \A p \in Chip!Port : /\ g_irq_pending'[p] \subseteq wantint'[p]
                             /\ wantint'[p] # {} => g_irq_pending'[p] # {}
    BY <2>3, RaisedFacts DEF Chip!Port
  <2>5. g_irq_pending' \in Kinds
    BY <2>3, <2>4 DEF Kinds
  <2> QED BY <1>1, <2>4, <2>5 DEF Chip!IrqDelivered
<1>2. CASE ~ mie'
  BY <1>2 DEF Chip!EvaluateBoth, Chip!scc_evaluate_ints, Chip!IrqDelivered, Kinds
<1> QED BY <1>1, <1>2

-------------------------------------------------------------------------------
(* The event list follows the flags: an event is filed with its flag set,   *)
(* and taken with its flag cleared.                                         *)
FlagsBooked == \A p \in Chip!Port, k \in Chip!Kind :
  queue[<<p, k>>] = IF k \in pending[p] THEN 1 ELSE 0

SameBut(p, k) == \A q \in Chip!Port, j \in Chip!Kind :
  <<q, j>> # <<p, k>> => (j \in pending'[q] <=> j \in pending[q])

LEMMA FiledBooked ==
  ASSUME Chip!TypeOK, FlagsBooked, NEW p \in Chip!Port, NEW k \in Chip!Kind, SameBut(p, k),
              k \in pending[p] => k \in pending'[p],
              Chip!Filing(p, k, k \in pending'[p] /\ k \notin pending[p])
  PROVE  queue' \in [Chip!Port \X Chip!Kind -> Nat] /\ FlagsBooked'
<1>1. queue \in [Chip!Port \X Chip!Kind -> Nat] /\ <<p, k>> \in Chip!Port \X Chip!Kind
  BY DEF Chip!TypeOK
<1>2. CASE k \in pending'[p] /\ k \notin pending[p]
  <2>1. queue' = [queue EXCEPT ![<<p, k>>] = @ + 1]
    BY <1>2 DEF Chip!Filing, Chip!Filed
  <2>2. queue' \in [Chip!Port \X Chip!Kind -> Nat] /\ queue'[<<p, k>>] = queue[<<p, k>>] + 1
    BY <1>1, <2>1
  <2>3. \A q \in Chip!Port, j \in Chip!Kind : <<q, j>> # <<p, k>> => queue'[<<q, j>>] = queue[<<q, j>>]
    BY <1>1, <2>1
  <2>4. queue[<<p, k>>] = 0
    BY <1>2 DEF FlagsBooked
  <2> QED BY <1>2, <2>2, <2>3, <2>4 DEF FlagsBooked, SameBut
<1>3. CASE ~ (k \in pending'[p] /\ k \notin pending[p])
  <2>1. queue' = queue
    BY <1>3 DEF Chip!Filing
  <2> QED BY <1>1, <1>3, <2>1 DEF FlagsBooked, SameBut
<1> QED BY <1>2, <1>3

LEMMA TakenBooked ==
  ASSUME Chip!TypeOK, FlagsBooked, NEW p \in Chip!Port, NEW k \in Chip!Kind, SameBut(p, k),
              Chip!Taken(p, k), k \notin pending'[p], Chip!Less(p, k)
  PROVE  queue' \in [Chip!Port \X Chip!Kind -> Nat] /\ FlagsBooked'
<1>1. queue \in [Chip!Port \X Chip!Kind -> Nat] /\ <<p, k>> \in Chip!Port \X Chip!Kind
  BY DEF Chip!TypeOK
<1>2. queue[<<p, k>>] = 1
  BY DEF Chip!Taken, FlagsBooked
<1>3. queue' = [queue EXCEPT ![<<p, k>>] = @ - 1]
  BY DEF Chip!Less
<1>4. queue' \in [Chip!Port \X Chip!Kind -> Nat] /\ queue'[<<p, k>>] = 0
  BY <1>1, <1>2, <1>3
<1>5. \A q \in Chip!Port, j \in Chip!Kind : <<q, j>> # <<p, k>> => queue'[<<q, j>>] = queue[<<q, j>>]
  BY <1>1, <1>3
<1> QED BY <1>4, <1>5 DEF FlagsBooked, SameBut

(* What a new state of the receiver does to the other variables.            *)
LEMMA SetReceiverFacts ==
  ASSUME ChipInv, NEW p \in Chip!Port, NEW b \in Receivers, Chip!SetReceiver(p, b), mie' = mie
  PROVE  /\ buffered' \in [Chip!Port -> 0 .. Chip!Room] /\ depth' \in [Chip!Port -> 0 .. QueueSize]
         /\ wantint' \in Kinds /\ pending' \in Kinds /\ SameBut(p, "RX")
         /\ "RX" \in pending'[p] <=> b.pending
         /\ g_irq_pending' \in Kinds /\ Chip!IrqDelivered'
<1>1. /\ buffered' \in [Chip!Port -> 0 .. Chip!Room] /\ depth' \in [Chip!Port -> 0 .. QueueSize]
  BY DEF Chip!SetReceiver, Receivers, ChipInv, Chip!TypeOK
<1>2. pending \in Kinds /\ wantint \in Kinds /\ "RX" \in Chip!Kind /\ b.depth \in Nat
  BY Sizes DEF ChipInv, Chip!TypeOK, Kinds, Chip!Kind, Receivers
<1>3. pending' = [pending EXCEPT ![p] = IF b.pending THEN @ \union {"RX"} ELSE @ \ {"RX"}]
  BY DEF Chip!SetReceiver
<1>4. pending' \in Kinds /\ ("RX" \in pending'[p] <=> b.pending)
  BY <1>2, <1>3 DEF Kinds
<1>5. SameBut(p, "RX")
  BY <1>2, <1>3 DEF SameBut, Kinds
<1>6. Chip!RxWanted(p, b.depth) \in SUBSET Chip!Kind
  BY <1>2 DEF Chip!RxWanted, Kinds
<1>7. wantint' = [wantint EXCEPT ![p] = Chip!RxWanted(p, b.depth)] /\ Chip!Evaluate(p)
  BY DEF Chip!SetReceiver
<1>8. wantint' \in Kinds /\ \A q \in Chip!Port \ {p} : wantint'[q] = wantint[q]
  BY <1>2, <1>6, <1>7 DEF Kinds
<1>9. g_irq_pending' \in Kinds /\ Chip!IrqDelivered'
  BY <1>7, <1>8, EvaluateDelivers DEF ChipInv
<1> QED BY <1>1, <1>4, <1>5, <1>8, <1>9

(* A full transmit buffer keeps its event.                                  *)
TxBooked == \A p \in Chip!Port : ~tx_buf_empty[p] => "TX" \in pending[p]

LEMMA Assembled ==
  ASSUME ChipInv, mie' \in BOOLEAN, reg' \in [Chip!Port -> Chip!Bits], wantint' \in Kinds,
         g_irq_pending' \in Kinds, pending' \in Kinds,
         queue' \in [Chip!Port \X Chip!Kind -> Nat], tx_buf_empty' \in [Chip!Port -> BOOLEAN],
         buffered' \in [Chip!Port -> 0 .. Chip!Room], depth' \in [Chip!Port -> 0 .. QueueSize],
         Chip!IrqDelivered', FlagsBooked', TxBooked'
  PROVE  ChipInv'
BY DEF ChipInv, Chip!TypeOK, Kinds, Chip!EventBooked, FlagsBooked, TxBooked

LEMMA ReceiveKeeps ==
  ASSUME ChipInv, NEW p \in Chip!Port, NEW b \in Receivers, "RX" \in pending[p] => b.pending,
         Chip!Receive(p, b), UNCHANGED <<reg, mie, tx_buf_empty>>
  PROVE  ChipInv'
<1>1. Chip!SetReceiver(p, b) /\ Chip!Filing(p, "RX", b.pending /\ "RX" \notin pending[p])
  BY DEF Chip!Receive
<1>2. /\ buffered' \in [Chip!Port -> 0 .. Chip!Room] /\ depth' \in [Chip!Port -> 0 .. QueueSize]
      /\ wantint' \in Kinds /\ pending' \in Kinds /\ SameBut(p, "RX")
      /\ "RX" \in pending'[p] <=> b.pending
      /\ g_irq_pending' \in Kinds /\ Chip!IrqDelivered'
  BY <1>1, SetReceiverFacts
<1>3. Chip!TypeOK /\ FlagsBooked /\ TxBooked /\ "RX" \in Chip!Kind
  BY DEF ChipInv, Chip!EventBooked, FlagsBooked, TxBooked, Chip!Kind
<1>4. b.pending \in BOOLEAN
  BY DEF Receivers
<1>5. (b.pending /\ "RX" \notin pending[p]) <=> ("RX" \in pending'[p] /\ "RX" \notin pending[p])
  BY <1>2
<1>6. Chip!Filing(p, "RX", "RX" \in pending'[p] /\ "RX" \notin pending[p])
  BY <1>1, <1>5 DEF Chip!Filing
<1>7. queue' \in [Chip!Port \X Chip!Kind -> Nat] /\ FlagsBooked'
  BY <1>2, <1>3, <1>6, FiledBooked
<1>8. TxBooked'
  BY <1>2, <1>3 DEF TxBooked, SameBut, Chip!Kind
<1> QED BY <1>2, <1>7, <1>8, Assembled DEF ChipInv, Chip!TypeOK

-------------------------------------------------------------------------------
(* The receiver's operations.                                               *)
LEMMA HostKeeps ==
  ASSUME ChipInv, NEW p \in Chip!Port, NEW n \in Nat,
         Chip!HostSends(p, n) \/ Chip!ModemSays(p) \/ Chip!scc_read_data(p, n)
  PROVE  ChipInv'
<1>1. Chip!Receiver(p) \in Receivers /\ (Chip!Receiver(p).pending <=> "RX" \in pending[p])
  BY ReceiverTyped DEF ChipInv
<1>2. \A m \in Nat : /\ Chip!Received(Chip!Receiver(p), m) \in Receivers
                     /\ "RX" \in pending[p] => Chip!Received(Chip!Receiver(p), m).pending
  BY <1>1, ReceivedFacts
<1>3. CASE Chip!HostSends(p, n)
  BY <1>2, <1>3, ReceiveKeeps DEF Chip!HostSends
<1>4. CASE Chip!ModemSays(p)
  BY <1>2, <1>4, ReceiveKeeps DEF Chip!ModemSays
<1>5. CASE Chip!scc_read_data(p, n)
  <2> DEFINE b == Chip!Popped(Chip!Received(Chip!Receiver(p), n))
  <2>1. b \in Receivers /\ ("RX" \in pending[p] => b.pending)
    BY <1>2, PoppedFacts
  <2>2. UNCHANGED <<reg, mie, tx_buf_empty>>
        /\ (Chip!Receive(p, b) \/ UNCHANGED <<Chip!rcv, Chip!events, wantint, g_irq_pending>>)
    BY <1>5 DEF Chip!scc_read_data
  <2> HIDE DEF b
  <2>3. CASE Chip!Receive(p, b)
    BY <2>1, <2>2, <2>3, ReceiveKeeps
  <2>4. CASE UNCHANGED <<Chip!rcv, Chip!events, wantint, g_irq_pending>>
    BY <2>2, <2>4
      DEF Chip!rcv, Chip!events, ChipInv, Chip!TypeOK, Chip!IrqDelivered, Chip!EventBooked
  <2> QED BY <2>2, <2>3, <2>4
<1> QED BY <1>3, <1>4, <1>5

LEMMA WriteDataKeeps ==
  ASSUME ChipInv, NEW p \in Chip!Port, Chip!scc_write_data(p)
  PROVE  ChipInv'
<1> DEFINE b == IF reg[p].loopback THEN Chip!Received(Chip!Receiver(p), 1) ELSE Chip!Receiver(p)
           up == {"TX"} \union (IF b.pending THEN {"RX"} ELSE {})
<1>1. /\ buffered' = [buffered EXCEPT ![p] = b.buffered]
      /\ depth' = [depth EXCEPT ![p] = b.depth]
      /\ wantint' = IF reg[p].loopback
                      THEN [wantint EXCEPT ![p] = Chip!RxWanted(p, b.depth)] ELSE wantint
      /\ pending' = [pending EXCEPT ![p] =
                       @ \union {"TX"} \union (IF b.pending THEN {"RX"} ELSE {})]
      /\ queue' = [queue EXCEPT
           ![<<p, "TX">>] = IF Chip!TxFiles(p) THEN @ + 1 ELSE @,
           ![<<p, "RX">>] = IF b.pending /\ "RX" \notin pending[p] THEN @ + 1 ELSE @]
      /\ tx_buf_empty' = [tx_buf_empty EXCEPT ![p] = FALSE]
      /\ Chip!Evaluate(p) /\ UNCHANGED <<reg, mie>>
  BY DEF Chip!scc_write_data
<1>2. Chip!TypeOK /\ Chip!IrqDelivered /\ FlagsBooked /\ TxBooked
  BY DEF ChipInv, Chip!EventBooked, FlagsBooked, TxBooked
<1>3. Chip!Receiver(p) \in Receivers /\ (Chip!Receiver(p).pending <=> "RX" \in pending[p])
  BY <1>2, ReceiverTyped
<1>4. b \in Receivers /\ ("RX" \in pending[p] => b.pending)
  BY <1>3, ReceivedFacts
<1> HIDE DEF b
<1>5. /\ buffered' \in [Chip!Port -> 0 .. Chip!Room] /\ depth' \in [Chip!Port -> 0 .. QueueSize]
      /\ tx_buf_empty' \in [Chip!Port -> BOOLEAN] /\ reg' \in [Chip!Port -> Chip!Bits] /\ mie' \in BOOLEAN
  BY <1>1, <1>2, <1>4 DEF Chip!TypeOK, Receivers
<1>6. pending \in Kinds /\ wantint \in Kinds /\ {"TX", "RX"} \subseteq Chip!Kind
  BY <1>2 DEF Chip!TypeOK, Kinds, Chip!Kind
<1>7. /\ pending' \in Kinds /\ pending'[p] = pending[p] \union up
      /\ \A q \in Chip!Port \ {p} : pending'[q] = pending[q]
  BY <1>1, <1>6 DEF Kinds
<1>8. Chip!RxWanted(p, b.depth) \in SUBSET Chip!Kind
  BY <1>4, <1>6, Sizes DEF Chip!RxWanted, Kinds, Receivers
<1>9. wantint' \in Kinds /\ \A q \in Chip!Port \ {p} : wantint'[q] = wantint[q]
  BY <1>1, <1>6, <1>8 DEF Kinds
<1>10. g_irq_pending' \in Kinds /\ Chip!IrqDelivered'
  BY <1>1, <1>2, <1>9, EvaluateDelivers
<1>11. queue' \in [Chip!Port \X Chip!Kind -> Nat] /\ FlagsBooked'
  <2> DEFINE tx == IF Chip!TxFiles(p) THEN queue[<<p, "TX">>] + 1 ELSE queue[<<p, "TX">>]
             rx == IF b.pending /\ "RX" \notin pending[p]
                     THEN queue[<<p, "RX">>] + 1 ELSE queue[<<p, "RX">>]
             first == [queue EXCEPT ![<<p, "TX">>] = tx]
  <2>1. queue \in [Chip!Port \X Chip!Kind -> Nat] /\ <<p, "TX">> \in Chip!Port \X Chip!Kind
        /\ <<p, "RX">> \in Chip!Port \X Chip!Kind /\ <<p, "TX">> # <<p, "RX">>
    BY <1>2, <1>6 DEF Chip!TypeOK
  <2>2. tx = 1
    BY <1>2, <1>6 DEF FlagsBooked, Chip!TxFiles
  <2>3. rx = IF "RX" \in pending'[p] THEN 1 ELSE 0
    BY <1>2, <1>4, <1>6, <1>7 DEF FlagsBooked
  <2>4. queue' = [first EXCEPT ![<<p, "RX">>] = rx]
    BY <1>1, <2>1
  <2> HIDE DEF tx, rx
  <2>5. first \in [Chip!Port \X Chip!Kind -> Nat] /\ first[<<p, "TX">>] = 1
        /\ \A e \in Chip!Port \X Chip!Kind : e # <<p, "TX">> => first[e] = queue[e]
    BY <2>1, <2>2
  <2> HIDE DEF first
  <2>6. queue' \in [Chip!Port \X Chip!Kind -> Nat] /\ queue'[<<p, "TX">>] = 1
        /\ queue'[<<p, "RX">>] = rx
        /\ \A e \in Chip!Port \X Chip!Kind : e # <<p, "TX">> /\ e # <<p, "RX">> => queue'[e] = queue[e]
    BY <2>1, <2>3, <2>4, <2>5
  <2>7. ASSUME NEW q \in Chip!Port, NEW k \in Chip!Kind
        PROVE  queue'[<<q, k>>] = IF k \in pending'[q] THEN 1 ELSE 0
    <3>1. CASE q = p /\ k = "TX"
      BY <1>7, <2>6, <3>1
    <3>2. CASE q = p /\ k = "RX"
      BY <2>3, <2>6, <3>2
    <3>3. CASE ~ (q = p /\ k \in {"TX", "RX"})
      <4>1. queue'[<<q, k>>] = queue[<<q, k>>]
        BY <2>6, <3>3
      <4>2. k \in pending'[q] <=> k \in pending[q]
        BY <1>7, <3>3
      <4> QED BY <1>2, <4>1, <4>2 DEF FlagsBooked
    <3> QED BY <3>1, <3>2, <3>3
  <2> QED BY <2>6, <2>7 DEF FlagsBooked
<1>12. TxBooked'
  BY <1>1, <1>2, <1>7 DEF TxBooked, Chip!TypeOK
<1> QED BY <1>5, <1>7, <1>9, <1>10, <1>11, <1>12, Assembled

-------------------------------------------------------------------------------
(* The control registers.                                                   *)
LEMMA Wr0Keeps ==
  ASSUME ChipInv, NEW p \in Chip!Port, NEW kinds, Chip!write_wr0(p, kinds)
  PROVE  ChipInv'
<1>1. /\ wantint' = [wantint EXCEPT ![p] = @ \ kinds]
      /\ UNCHANGED <<reg, mie, Chip!events, tx_buf_empty, Chip!rcv>>
  BY DEF Chip!write_wr0
<1>2. wantint \in Kinds /\ Chip!TypeOK /\ Chip!IrqDelivered
  BY DEF ChipInv, Chip!TypeOK, Kinds
<1>3. wantint' \in Kinds /\ \A q \in Chip!Port \ {p} : wantint'[q] = wantint[q]
  BY <1>1, <1>2 DEF Kinds
<1>4. g_irq_pending' \in Kinds /\ Chip!IrqDelivered'
  <2>1. CASE kinds = {}
    <3>1. wantint' = wantint /\ g_irq_pending' = g_irq_pending
      BY <1>1, <1>2, <2>1 DEF Chip!write_wr0, Kinds
    <3> QED BY <1>1, <1>2, <3>1 DEF Chip!IrqDelivered, Chip!TypeOK, Kinds
  <2>2. CASE kinds # {}
    <3>1. Chip!Evaluate(p)
      BY <2>2 DEF Chip!write_wr0
    <3> QED BY <1>1, <1>2, <1>3, <3>1, EvaluateDelivers
  <2> QED BY <2>1, <2>2
<1>5. Chip!TypeOK'
  BY <1>1, <1>3, <1>4 DEF ChipInv, Chip!TypeOK, Chip!events, Chip!rcv, Kinds
<1>6. Chip!EventBooked'
  BY <1>1 DEF ChipInv, Chip!EventBooked, Chip!events
<1> QED BY <1>4, <1>5, <1>6 DEF ChipInv

LEMMA Wr1Keeps ==
  ASSUME ChipInv, NEW p \in Chip!Port, NEW rx \in BOOLEAN, NEW tx \in BOOLEAN, Chip!write_wr1(p, rx, tx)
  PROVE  ChipInv'
<1>1. reg' \in [Chip!Port -> Chip!Bits]
  BY ZenonT(30) DEF Chip!write_wr1, ChipInv, Chip!TypeOK, Chip!Bits
<1> QED BY <1>1
  DEF Chip!write_wr1, Chip!events, Chip!rcv, ChipInv, Chip!TypeOK, Chip!IrqDelivered,
      Chip!EventBooked

LEMMA ResetKeeps ==
  ASSUME ChipInv, NEW ports, NEW hard \in BOOLEAN, Chip!scc_reset_port(ports, hard), mie' \in BOOLEAN,
         buffered' \in [Chip!Port -> 0 .. Chip!Room], g_irq_pending' = Chip!EvaluateBoth(g_irq_pending)
  PROVE  ChipInv'
<1>1. /\ reg' = [p \in Chip!Port |-> IF p \in ports THEN Chip!ResetBits(reg[p], hard) ELSE reg[p]]
      /\ wantint' = [p \in Chip!Port |-> IF p \in ports THEN {} ELSE wantint[p]]
      /\ tx_buf_empty' = [p \in Chip!Port |-> p \in ports \/ tx_buf_empty[p]]
      /\ depth' = [p \in Chip!Port |-> IF p \in ports THEN 0 ELSE depth[p]]
      /\ pending' = pending /\ queue' = queue
  BY DEF Chip!scc_reset_port, Chip!events
<1>2. \A b \in Chip!Bits : Chip!ResetBits(b, hard) \in Chip!Bits
  BY DEF Chip!ResetBits, Chip!Bits
<1>3. reg' \in [Chip!Port -> Chip!Bits] /\ wantint' \in Kinds
  BY <1>1, <1>2 DEF ChipInv, Chip!TypeOK, Kinds
<1>4. depth' \in [Chip!Port -> 0 .. QueueSize]
  BY <1>1, Sizes DEF ChipInv, Chip!TypeOK
<1>5. tx_buf_empty' \in [Chip!Port -> BOOLEAN]
  BY <1>1
<1>6. g_irq_pending' \in Kinds /\ Chip!IrqDelivered'
  BY <1>3, BothDelivered DEF ChipInv
<1>7. FlagsBooked' /\ TxBooked'
  BY <1>1 DEF ChipInv, Chip!EventBooked, FlagsBooked, TxBooked
<1>8. pending' \in Kinds /\ queue' \in [Chip!Port \X Chip!Kind -> Nat]
  BY <1>1 DEF ChipInv, Chip!TypeOK, Kinds
<1> QED BY <1>3, <1>4, <1>5, <1>6, <1>7, <1>8, Assembled

LEMMA Wr9Keeps ==
  ASSUME ChipInv, NEW ports, NEW enable \in BOOLEAN, Chip!write_wr9(ports, enable)
  PROVE  ChipInv'
<1>1. (ports = Chip!Port) \in BOOLEAN /\ buffered \in [Chip!Port -> 0 .. Chip!Room]
  BY DEF ChipInv, Chip!TypeOK
<1> QED BY <1>1, ResetKeeps DEF Chip!write_wr9

LEMMA SccResetKeeps == ASSUME ChipInv, Chip!scc_reset PROVE ChipInv'
<1>1. buffered' \in [Chip!Port -> 0 .. Chip!Room]
  BY Sizes DEF Chip!scc_reset
<1> QED BY <1>1, ResetKeeps DEF Chip!scc_reset

(* The baud-rate generator's event is filed with its flag.                  *)
LEMMA BrFiled ==
  ASSUME ChipInv, NEW p \in Chip!Port, Chip!scc_maybe_br_event(p, pending[p]),
         Chip!Filing(p, "ZEROCNT", Chip!BrWanted(p) /\ "ZEROCNT" \notin pending[p]),
         UNCHANGED tx_buf_empty
  PROVE  /\ pending' \in Kinds /\ queue' \in [Chip!Port \X Chip!Kind -> Nat]
         /\ FlagsBooked' /\ TxBooked'
<1>1. pending \in Kinds /\ "ZEROCNT" \in Chip!Kind /\ FlagsBooked /\ TxBooked /\ Chip!TypeOK
  BY DEF ChipInv, Chip!TypeOK, Chip!EventBooked, FlagsBooked, TxBooked, Kinds, Chip!Kind
<1>2. pending' = [pending EXCEPT ![p] = IF Chip!BrWanted(p) THEN @ \union {"ZEROCNT"} ELSE @]
  BY <1>1 DEF Chip!scc_maybe_br_event, Kinds
<1>3. /\ pending' \in Kinds /\ SameBut(p, "ZEROCNT")
      /\ "ZEROCNT" \in pending'[p] <=> Chip!BrWanted(p) \/ "ZEROCNT" \in pending[p]
  BY <1>1, <1>2 DEF SameBut, Kinds
<1>4. (Chip!BrWanted(p) /\ "ZEROCNT" \notin pending[p])
        <=> ("ZEROCNT" \in pending'[p] /\ "ZEROCNT" \notin pending[p])
  BY <1>3
<1>5. Chip!Filing(p, "ZEROCNT", "ZEROCNT" \in pending'[p] /\ "ZEROCNT" \notin pending[p])
  BY <1>4 DEF Chip!Filing
<1>6. queue' \in [Chip!Port \X Chip!Kind -> Nat] /\ FlagsBooked'
  BY <1>1, <1>3, <1>5, FiledBooked
<1>7. TxBooked'
  BY <1>1, <1>3 DEF TxBooked, SameBut, Chip!Kind
<1> QED BY <1>3, <1>6, <1>7

LEMMA Wr14Keeps ==
  ASSUME ChipInv, NEW p \in Chip!Port, NEW gen \in BOOLEAN, NEW loop \in BOOLEAN,
         Chip!write_wr14(p, gen, loop)
  PROVE  ChipInv'
<1>1. reg' \in [Chip!Port -> Chip!Bits]
  BY ZenonT(30) DEF Chip!write_wr14, ChipInv, Chip!TypeOK, Chip!Bits
<1>2. /\ pending' \in Kinds /\ queue' \in [Chip!Port \X Chip!Kind -> Nat]
      /\ FlagsBooked' /\ TxBooked'
  BY BrFiled DEF Chip!write_wr14
<1>3. Chip!IrqDelivered'
  BY DEF Chip!write_wr14, ChipInv, Chip!IrqDelivered
<1> QED BY <1>1, <1>2, <1>3, Assembled
  DEF Chip!write_wr14, Chip!rcv, ChipInv, Chip!TypeOK, Kinds

LEMMA Wr15Keeps ==
  ASSUME ChipInv, NEW p \in Chip!Port, NEW ext \in BOOLEAN, Chip!write_wr15(p, ext)
  PROVE  ChipInv'
<1>1. reg' \in [Chip!Port -> Chip!Bits]
  BY DEF Chip!write_wr15, ChipInv, Chip!TypeOK, Chip!Bits
<1>2. /\ pending' \in Kinds /\ queue' \in [Chip!Port \X Chip!Kind -> Nat]
      /\ FlagsBooked' /\ TxBooked'
  BY BrFiled DEF Chip!write_wr15
<1>3. wantint' \in Kinds /\ \A q \in Chip!Port \ {p} : wantint'[q] = wantint[q]
  BY DEF Chip!write_wr15, ChipInv, Chip!TypeOK, Kinds
<1>4. g_irq_pending' \in Kinds /\ Chip!IrqDelivered'
  BY <1>3, EvaluateDelivers DEF Chip!write_wr15, ChipInv
<1> QED BY <1>1, <1>2, <1>3, <1>4, Assembled
  DEF Chip!write_wr15, Chip!rcv, ChipInv, Chip!TypeOK

-------------------------------------------------------------------------------
(* The events.                                                              *)
LEMMA BrEventKeeps == ASSUME ChipInv, NEW p \in Chip!Port, Chip!BrEvent(p) PROVE ChipInv'
<1>1. /\ Chip!Taken(p, "ZEROCNT")
      /\ UNCHANGED <<reg, mie, tx_buf_empty, Chip!rcv>>
      /\ wantint' = [wantint EXCEPT ![p] = IF reg[p].ext THEN @ \union {"ZEROCNT"} ELSE @]
      /\ Chip!Evaluate(p)
      /\ pending' = [pending EXCEPT ![p] =
                       IF Chip!BrWanted(p) THEN (pending[p] \ {"ZEROCNT"}) \union {"ZEROCNT"}
                                           ELSE pending[p] \ {"ZEROCNT"}]
      /\ IF Chip!BrWanted(p) THEN UNCHANGED queue ELSE Chip!Less(p, "ZEROCNT")
  BY DEF Chip!BrEvent, Chip!scc_maybe_br_event
<1>2. /\ pending \in Kinds /\ wantint \in Kinds /\ "ZEROCNT" \in Chip!Kind
      /\ Chip!TypeOK /\ Chip!IrqDelivered /\ FlagsBooked /\ TxBooked
  BY DEF ChipInv, Chip!TypeOK, Chip!EventBooked, FlagsBooked, TxBooked, Kinds, Chip!Kind
<1>3. wantint' \in Kinds /\ \A q \in Chip!Port \ {p} : wantint'[q] = wantint[q]
  BY <1>1, <1>2 DEF Kinds
<1>4. g_irq_pending' \in Kinds /\ Chip!IrqDelivered'
  BY <1>1, <1>2, <1>3, EvaluateDelivers
<1>5. pending' \in Kinds /\ SameBut(p, "ZEROCNT")
      /\ ("ZEROCNT" \in pending'[p] <=> Chip!BrWanted(p))
  BY <1>1, <1>2 DEF SameBut, Kinds
<1>6. "ZEROCNT" \in pending[p]
  BY <1>1, <1>2 DEF Chip!Taken, FlagsBooked
<1>7. queue' \in [Chip!Port \X Chip!Kind -> Nat] /\ FlagsBooked'
  <2>1. CASE Chip!BrWanted(p)
    BY <1>1, <1>2, <1>5, <1>6, <2>1 DEF Chip!TypeOK, FlagsBooked, SameBut
  <2>2. CASE ~ Chip!BrWanted(p)
    BY <1>1, <1>2, <1>5, <2>2, TakenBooked
  <2> QED BY <2>1, <2>2
<1>8. TxBooked'
  BY <1>1, <1>2, <1>5 DEF TxBooked, SameBut, Chip!Kind
<1> QED BY <1>1, <1>3, <1>4, <1>5, <1>7, <1>8, Assembled DEF Chip!rcv, Chip!TypeOK, ChipInv

LEMMA TxEventKeeps == ASSUME ChipInv, NEW p \in Chip!Port, Chip!TxEvent(p) PROVE ChipInv'
<1>1. /\ Chip!Taken(p, "TX") /\ pending' = [pending EXCEPT ![p] = @ \ {"TX"}]
      /\ Chip!Less(p, "TX") /\ tx_buf_empty' = [tx_buf_empty EXCEPT ![p] = TRUE]
      /\ wantint' = [wantint EXCEPT ![p] = IF reg[p].tx_int THEN @ \union {"TX"} ELSE @]
      /\ Chip!Evaluate(p) /\ UNCHANGED <<reg, mie, Chip!rcv>>
  BY DEF Chip!TxEvent
<1>2. /\ pending \in Kinds /\ wantint \in Kinds /\ "TX" \in Chip!Kind
      /\ Chip!TypeOK /\ Chip!IrqDelivered /\ FlagsBooked /\ TxBooked
  BY DEF ChipInv, Chip!TypeOK, Chip!EventBooked, FlagsBooked, TxBooked, Kinds, Chip!Kind
<1>3. wantint' \in Kinds /\ \A q \in Chip!Port \ {p} : wantint'[q] = wantint[q]
  BY <1>1, <1>2 DEF Kinds
<1>4. g_irq_pending' \in Kinds /\ Chip!IrqDelivered'
  BY <1>1, <1>2, <1>3, EvaluateDelivers
<1>5. pending' \in Kinds /\ SameBut(p, "TX") /\ "TX" \notin pending'[p]
      /\ \A q \in Chip!Port \ {p} : pending'[q] = pending[q]
  BY <1>1, <1>2 DEF SameBut, Kinds
<1>6. queue' \in [Chip!Port \X Chip!Kind -> Nat] /\ FlagsBooked'
  BY <1>1, <1>2, <1>5, TakenBooked
<1>7. tx_buf_empty' \in [Chip!Port -> BOOLEAN] /\ TxBooked'
  BY <1>1, <1>2, <1>5 DEF TxBooked, Chip!TypeOK
<1> QED BY <1>1, <1>3, <1>4, <1>5, <1>6, <1>7, Assembled DEF Chip!rcv, Chip!TypeOK, ChipInv

LEMMA RxEventKeeps == ASSUME ChipInv, NEW p \in Chip!Port, Chip!RxEvent(p) PROVE ChipInv'
<1> DEFINE b == Chip!scc_maybe_rx_event([Chip!Receiver(p) EXCEPT !.pending = FALSE])
<1>1. /\ Chip!Taken(p, "RX") /\ Chip!SetReceiver(p, b)
      /\ IF b.pending THEN UNCHANGED queue ELSE Chip!Less(p, "RX")
      /\ UNCHANGED <<reg, mie, tx_buf_empty>>
  BY DEF Chip!RxEvent
<1>2. [Chip!Receiver(p) EXCEPT !.pending = FALSE] \in Receivers
  BY ReceiverTyped DEF ChipInv, Receivers
<1>3. b \in Receivers
  BY <1>2, MaybeRxFacts
<1> HIDE DEF b
<1>4. /\ buffered' \in [Chip!Port -> 0 .. Chip!Room] /\ depth' \in [Chip!Port -> 0 .. QueueSize]
      /\ wantint' \in Kinds /\ pending' \in Kinds /\ SameBut(p, "RX")
      /\ "RX" \in pending'[p] <=> b.pending
      /\ g_irq_pending' \in Kinds /\ Chip!IrqDelivered'
  BY <1>1, <1>3, SetReceiverFacts
<1>5. Chip!TypeOK /\ FlagsBooked /\ TxBooked /\ "RX" \in Chip!Kind
  BY DEF ChipInv, Chip!EventBooked, FlagsBooked, TxBooked, Chip!Kind
<1>6. "RX" \in pending[p]
  BY <1>1, <1>5 DEF Chip!Taken, FlagsBooked
<1>7. queue' \in [Chip!Port \X Chip!Kind -> Nat] /\ FlagsBooked'
  <2>1. CASE b.pending
    BY <1>1, <1>4, <1>5, <1>6, <2>1 DEF Chip!TypeOK, FlagsBooked, SameBut
  <2>2. CASE ~ b.pending
    BY <1>1, <1>4, <1>5, <2>2, TakenBooked
  <2> QED BY <2>1, <2>2
<1>8. TxBooked'
  BY <1>1, <1>4, <1>5 DEF TxBooked, SameBut, Chip!Kind
<1> QED BY <1>1, <1>4, <1>7, <1>8, Assembled DEF ChipInv, Chip!TypeOK

-------------------------------------------------------------------------------
LEMMA ChipStarts == Chip!Init => ChipInv
<1> SUFFICES ASSUME Chip!Init PROVE ChipInv
  OBVIOUS
<1>1. Chip!TypeOK
  <2>1. Chip!NoBits \in Chip!Bits /\ 0 \in 0 .. Chip!Room /\ 0 \in 0 .. QueueSize
    BY Sizes DEF Chip!NoBits, Chip!Bits
  <2>2. reg \in [Chip!Port -> Chip!Bits] /\ mie \in BOOLEAN
    BY <2>1 DEF Chip!Init
  <2>3. /\ wantint \in [Chip!Port -> SUBSET Chip!Kind] /\ g_irq_pending \in [Chip!Port -> SUBSET Chip!Kind]
        /\ pending \in [Chip!Port -> SUBSET Chip!Kind]
    BY DEF Chip!Init
  <2>4. queue \in [Chip!Port \X Chip!Kind -> Nat] /\ tx_buf_empty \in [Chip!Port -> BOOLEAN]
    BY DEF Chip!Init
  <2>5. buffered \in [Chip!Port -> 0 .. Chip!Room] /\ depth \in [Chip!Port -> 0 .. QueueSize]
    BY <2>1 DEF Chip!Init
  <2> QED BY <2>2, <2>3, <2>4, <2>5 DEF Chip!TypeOK
<1>2. Chip!IrqDelivered /\ Chip!EventBooked
  BY DEF Chip!Init, Chip!IrqDelivered, Chip!EventBooked
<1> QED BY <1>1, <1>2 DEF ChipInv

LEMMA ChipSteps == ChipInv /\ [Chip!Next]_Chip!chip => ChipInv'
<1> SUFFICES ASSUME ChipInv, [Chip!Next]_Chip!chip PROVE ChipInv'
  OBVIOUS
<1>1. Guest \subseteq Chip!Port /\ MaxRecv \in Nat
      /\ \A v \in Wr1Values \union Wr14Values : v[1] \in BOOLEAN /\ v[2] \in BOOLEAN
  BY GuestAssumption, RecvAssumption DEF Chip!Port
<1>2. CASE UNCHANGED Chip!chip
  BY <1>2
    DEF Chip!chip, Chip!events, Chip!rcv, ChipInv, Chip!TypeOK, Chip!IrqDelivered,
        Chip!EventBooked
<1>3. ASSUME NEW p \in Chip!Port, Chip!GuestAccess(p) PROVE ChipInv'
  BY <1>1, <1>3, HostKeeps, WriteDataKeeps, Wr0Keeps, Wr1Keeps, Wr14Keeps, Wr15Keeps
     DEF Chip!GuestAccess
<1>4. ASSUME NEW p \in Chip!Port, Chip!PlainAccess(p) PROVE ChipInv'
  BY <1>4, WriteDataKeeps, Wr0Keeps, Wr1Keeps DEF Chip!PlainAccess
<1>5. ASSUME NEW p \in Chip!Port, Chip!scc_do_event(p) PROVE ChipInv'
  BY <1>5, BrEventKeeps, TxEventKeeps, RxEventKeeps DEF Chip!scc_do_event
<1>6. ASSUME NEW p \in Chip!Port, Chip!ModemSays(p) \/ \E n \in 1 .. MaxRecv : Chip!HostSends(p, n)
      PROVE ChipInv'
  BY <1>1, <1>6, HostKeeps
<1> QED BY <1>1, <1>2, <1>3, <1>4, <1>5, <1>6, Wr9Keeps, SccResetKeeps DEF Chip!Next

-------------------------------------------------------------------------------
LEMMA ChipHolds == Chip!Spec => []ChipInv
BY ChipStarts, ChipSteps, PTL DEF Chip!Spec

(* Every variable keeps its type: the receive queue and the ring behind it  *)
(* never take more than fits, whatever host, modem and guest do.            *)
THEOREM SccTypeCorrect == Chip!Spec => []Chip!TypeOK
BY ChipHolds, PTL DEF ChipInv

(* No line of the SCC is up without its want and the master enable, and no  *)
(* port that wants an interrupt is without one.                             *)
THEOREM LinesDelivered == Chip!Spec => []IrqDelivered
<1>1. ChipInv => IrqDelivered
  BY DEF ChipInv, IrqDelivered, Chip!IrqDelivered, Port, Chip!Port
<1> QED BY ChipHolds, <1>1, PTL

(* The flags and the event list agree, and a full transmit buffer has its   *)
(* event, across resets.                                                    *)
THEOREM EventsStayBooked == Chip!Spec => []EventBooked
<1>1. ChipInv => EventBooked
  BY DEF ChipInv, EventBooked, Chip!EventBooked, Port, Chip!Port, Kind, Chip!Kind
<1> QED BY ChipHolds, <1>1, PTL

-------------------------------------------------------------------------------
(* When waiting characters stop moving.                                     *)
Stuck(b) == b.buffered > 0 /\ b.depth < QueueSize /\ ~ b.pending

LEMMA MaybeRxMoves == ASSUME NEW b \in Receivers PROVE ~ Stuck(Chip!scc_maybe_rx_event(b))
BY Sizes DEF Receivers, Chip!scc_maybe_rx_event, Stuck

LEMMA ReceivedMoves ==
  ASSUME NEW b \in Receivers, NEW n \in Nat, Stuck(Chip!Received(b, n))
  PROVE  n = 0 /\ Stuck(b)
<1> DEFINE one == [b EXCEPT !.buffered = Chip!Smaller(@ + 1, Chip!Room)]
           c == Chip!scc_maybe_rx_event(one)
           more == Chip!Smaller(c.buffered + n - 1, Chip!Room)
<1>1. one \in Receivers /\ one.buffered > 0
  BY Sizes DEF Receivers, Chip!Smaller
<1>2. Chip!scc_add_to_readbuf(b) = c
  BY DEF Chip!scc_add_to_readbuf
<1> HIDE DEF one
<1>3. c \in Receivers /\ (c.pending \/ c.depth >= QueueSize)
  BY <1>1, Sizes, MaybeRxFacts DEF Chip!scc_maybe_rx_event, Receivers
<1>4. CASE n = 0
  BY <1>4 DEF Chip!Received
<1>5. CASE n # 0
  <2>1. Chip!Received(b, n) = [c EXCEPT !.buffered = more]
    BY <1>2, <1>5 DEF Chip!Received
  <2> HIDE DEF c, more
  <2>2. Chip!Received(b, n).pending = c.pending /\ Chip!Received(b, n).depth = c.depth
    BY <1>3, <2>1 DEF Receivers
  <2> QED BY <1>3, <2>2, Sizes DEF Stuck, Receivers
<1> QED BY <1>4, <1>5

LEMMA PoppedMoves ==
  ASSUME NEW b \in Receivers, Stuck(Chip!Popped(b))
  PROVE  Stuck(b)
<1>1. CASE b.depth = 0
  BY <1>1 DEF Chip!Popped
<1>2. CASE b.depth # 0
  <2> DEFINE less == [b EXCEPT !.depth = @ - 1]
  <2>1. less \in Receivers
    BY <1>2, Sizes DEF Receivers
  <2>2. Chip!Popped(b) = Chip!scc_maybe_rx_event(less)
    BY <1>2 DEF Chip!Popped
  <2> HIDE DEF less
  <2> QED BY <2>1, <2>2, MaybeRxMoves
<1> QED BY <1>1, <1>2

(* A port that is given a receiver state is stuck when that state is, and   *)
(* the other port stays as it was.                                          *)
LEMMA SetMoves ==
  ASSUME Chip!TypeOK, NEW p \in Chip!Port, NEW b \in Receivers,
              buffered' = [buffered EXCEPT ![p] = b.buffered],
              depth' = [depth EXCEPT ![p] = b.depth],
              \A q \in Chip!Port \ {p} : pending'[q] = pending[q],
              b.pending => "RX" \in pending'[p],
              Stuck(b) => Chip!Stalled(p),
              NEW q \in Chip!Port, Chip!Stalled(q)'
  PROVE  Chip!Stalled(q)
<1>1. buffered'[p] = b.buffered /\ depth'[p] = b.depth
  BY DEF Chip!TypeOK
<1>2. CASE q = p
  BY <1>1, <1>2 DEF Chip!Stalled, Stuck
<1>3. CASE q # p
  <2>1. buffered'[q] = buffered[q] /\ depth'[q] = depth[q] /\ pending'[q] = pending[q]
    BY <1>3 DEF Chip!TypeOK
  <2> QED BY <2>1 DEF Chip!Stalled
<1> QED BY <1>2, <1>3

LEMMA SetReceiverMoves ==
  ASSUME Chip!TypeOK, NEW p \in Chip!Port, NEW b \in Receivers, Chip!SetReceiver(p, b),
              Stuck(b) => Chip!Stalled(p), NEW q \in Chip!Port, Chip!Stalled(q)'
  PROVE  Chip!Stalled(q)
<1>1. pending' = [pending EXCEPT ![p] = IF b.pending THEN @ \union {"RX"} ELSE @ \ {"RX"}]
  BY DEF Chip!SetReceiver
<1>2. pending \in [Chip!Port -> SUBSET Chip!Kind]
  BY DEF Chip!TypeOK
<1>3. (\A r \in Chip!Port \ {p} : pending'[r] = pending[r]) /\ (b.pending => "RX" \in pending'[p])
  BY <1>1, <1>2
<1> QED BY <1>3, SetMoves DEF Chip!SetReceiver

LEMMA ReceiverStuck ==
  ASSUME Chip!TypeOK, NEW p \in Chip!Port
  PROVE  Stuck(Chip!Receiver(p)) <=> Chip!Stalled(p)
BY DEF Chip!Receiver, Stuck, Chip!Stalled

ByReset(p) == Chip!Stalled(p)' /\ ~Chip!Stalled(p) => depth[p] = QueueSize /\ depth'[p] = 0

LEMMA HostMoves ==
  ASSUME ChipInv, NEW p \in Chip!Port, NEW n \in Nat,
         Chip!HostSends(p, n) \/ Chip!ModemSays(p) \/ Chip!scc_read_data(p, n) \/ Chip!RxEvent(p)
  PROVE  \A q \in Chip!Port : ByReset(q)
<1> SUFFICES ASSUME NEW q \in Chip!Port, Chip!Stalled(q)' PROVE Chip!Stalled(q)
  BY DEF ByReset
<1>1. Chip!TypeOK /\ Chip!Receiver(p) \in Receivers
  BY ReceiverTyped DEF ChipInv
<1>2. \A m \in Nat : Chip!Received(Chip!Receiver(p), m) \in Receivers
  BY <1>1, ReceivedFacts
<1>3. \A m \in Nat : Stuck(Chip!Received(Chip!Receiver(p), m)) => Chip!Stalled(p)
  BY <1>1, ReceivedMoves, ReceiverStuck
<1>4. CASE Chip!HostSends(p, n)
  BY <1>1, <1>2, <1>3, <1>4, SetReceiverMoves DEF Chip!HostSends, Chip!Receive
<1>5. CASE Chip!ModemSays(p)
  BY <1>1, <1>2, <1>3, <1>5, SetReceiverMoves DEF Chip!ModemSays, Chip!Receive
<1>6. CASE Chip!scc_read_data(p, n)
  <2> DEFINE b == Chip!Popped(Chip!Received(Chip!Receiver(p), n))
  <2>1. b \in Receivers
    BY <1>2, PoppedFacts
  <2>2. Stuck(b) => Chip!Stalled(p)
    BY <1>2, <1>3, PoppedMoves
  <2>3. Chip!Receive(p, b) \/ UNCHANGED <<Chip!rcv, Chip!events, wantint, g_irq_pending>>
    BY <1>6 DEF Chip!scc_read_data
  <2> HIDE DEF b
  <2>4. CASE Chip!Receive(p, b)
    BY <1>1, <2>1, <2>2, <2>4, SetReceiverMoves DEF Chip!Receive
  <2>5. CASE UNCHANGED <<Chip!rcv, Chip!events, wantint, g_irq_pending>>
    BY <2>5 DEF Chip!rcv, Chip!events, Chip!Stalled
  <2> QED BY <2>3, <2>4, <2>5
<1>7. CASE Chip!RxEvent(p)
  <2> DEFINE a == [Chip!Receiver(p) EXCEPT !.pending = FALSE]
             b == Chip!scc_maybe_rx_event(a)
  <2>1. a \in Receivers
    BY <1>1 DEF Receivers
  <2> HIDE DEF a
  <2>2. b \in Receivers /\ ~ Stuck(b)
    BY <2>1, MaybeRxFacts, MaybeRxMoves
  <2>3. Chip!SetReceiver(p, b)
    BY <1>7 DEF Chip!RxEvent, a
  <2> HIDE DEF b
  <2> QED BY <1>1, <2>2, <2>3, SetReceiverMoves
<1> QED BY <1>4, <1>5, <1>6, <1>7

LEMMA WriteDataMoves ==
  ASSUME ChipInv, NEW p \in Chip!Port, Chip!scc_write_data(p)
  PROVE  \A q \in Chip!Port : ByReset(q)
<1> SUFFICES ASSUME NEW q \in Chip!Port, Chip!Stalled(q)' PROVE Chip!Stalled(q)
  BY DEF ByReset
<1> DEFINE b == IF reg[p].loopback THEN Chip!Received(Chip!Receiver(p), 1) ELSE Chip!Receiver(p)
<1>1. Chip!TypeOK /\ Chip!Receiver(p) \in Receivers
  BY ReceiverTyped DEF ChipInv
<1>2. b \in Receivers /\ (Stuck(b) => Chip!Stalled(p))
  BY <1>1, ReceivedFacts, ReceivedMoves, ReceiverStuck
<1>3. /\ buffered' = [buffered EXCEPT ![p] = b.buffered]
      /\ depth' = [depth EXCEPT ![p] = b.depth]
      /\ pending' = [pending EXCEPT ![p] =
                       @ \union {"TX"} \union (IF b.pending THEN {"RX"} ELSE {})]
  BY DEF Chip!scc_write_data
<1> HIDE DEF b
<1>4. (\A r \in Chip!Port \ {p} : pending'[r] = pending[r]) /\ (b.pending => "RX" \in pending'[p])
  BY <1>1, <1>3 DEF Chip!TypeOK
<1> QED BY <1>1, <1>2, <1>3, <1>4, SetMoves

(* The other steps either leave the receiver alone or empty its queue.      *)
LEMMA RestMoves ==
  ASSUME ChipInv,
         \/ UNCHANGED Chip!chip
         \/ \E p \in Chip!Port : \E kinds : Chip!write_wr0(p, kinds)
         \/ \E p \in Chip!Port : \E rx, tx : Chip!write_wr1(p, rx, tx) \/ Chip!write_wr14(p, rx, tx)
         \/ \E p \in Chip!Port : \E ext : Chip!write_wr15(p, ext)
         \/ \E p \in Chip!Port : Chip!BrEvent(p) \/ Chip!TxEvent(p)
  PROVE  \A q \in Chip!Port : ByReset(q)
<1>1. buffered' = buffered /\ depth' = depth
  BY DEF Chip!chip, Chip!rcv, Chip!write_wr0, Chip!write_wr1, Chip!write_wr14,
         Chip!write_wr15, Chip!BrEvent, Chip!TxEvent
<1>2. \A q \in Chip!Port : "RX" \in pending[q] => "RX" \in pending'[q]
  <2>1. pending \in [Chip!Port -> SUBSET Chip!Kind]
    BY DEF ChipInv, Chip!TypeOK
  <2>2. \/ pending' = pending
        \/ \E p \in Chip!Port : pending' = [pending EXCEPT ![p] = @ \ {"TX"}]
        \/ \E p \in Chip!Port : Chip!scc_maybe_br_event(p, pending[p])
                          \/ Chip!scc_maybe_br_event(p, pending[p] \ {"ZEROCNT"})
    BY DEF Chip!chip, Chip!events, Chip!write_wr0, Chip!write_wr1, Chip!write_wr14,
           Chip!write_wr15, Chip!BrEvent, Chip!TxEvent
  <2> QED BY <2>1, <2>2 DEF Chip!scc_maybe_br_event
<1> QED BY <1>1, <1>2 DEF ByReset, Chip!Stalled

LEMMA ResetMoves ==
  ASSUME ChipInv, Chip!scc_reset \/ \E ports, enable : Chip!write_wr9(ports, enable)
  PROVE  \A q \in Chip!Port : ByReset(q)
<1> SUFFICES ASSUME NEW q \in Chip!Port, Chip!Stalled(q)', ~ Chip!Stalled(q)
             PROVE  depth[q] = QueueSize /\ depth'[q] = 0
  BY DEF ByReset
<1>1. buffered'[q] > 0 /\ "RX" \notin pending'[q] /\ depth'[q] < QueueSize
  BY DEF Chip!Stalled
<1>2. CASE Chip!scc_reset
  BY <1>1, <1>2 DEF Chip!scc_reset
<1>3. ASSUME NEW ports, NEW enable, Chip!write_wr9(ports, enable)
      PROVE  depth[q] = QueueSize /\ depth'[q] = 0
  <2>1. /\ buffered' = buffered /\ pending' = pending
        /\ depth'[q] = IF q \in ports THEN 0 ELSE depth[q]
    BY <1>3 DEF Chip!write_wr9, Chip!scc_reset_port, Chip!events
  <2>2. depth[q] >= QueueSize
    BY <1>1, <2>1, Sizes DEF Chip!Stalled, ChipInv, Chip!TypeOK
  <2> QED BY <1>1, <2>1, <2>2, Sizes DEF ChipInv, Chip!TypeOK
<1> QED BY <1>2, <1>3

(* Waiting characters are left without an event only by a reset that        *)
(* empties a full queue under them.                                         *)
THEOREM OnlyResetsStall == Chip!Spec => StalledByReset
<1>1. ChipInv /\ [Chip!Next]_Chip!chip => \A p \in Chip!Port : ByReset(p)
  <2> SUFFICES ASSUME ChipInv, [Chip!Next]_Chip!chip PROVE \A p \in Chip!Port : ByReset(p)
    OBVIOUS
  <2>1. Guest \subseteq Chip!Port /\ MaxRecv \in Nat
    BY GuestAssumption, RecvAssumption DEF Chip!Port
  <2>2. CASE UNCHANGED Chip!chip
    BY <2>2, RestMoves
  <2>3. ASSUME NEW p \in Chip!Port, Chip!GuestAccess(p) PROVE \A q \in Chip!Port : ByReset(q)
    BY <2>1, <2>3, HostMoves, WriteDataMoves, RestMoves DEF Chip!GuestAccess
  <2>4. ASSUME NEW p \in Chip!Port, Chip!PlainAccess(p) PROVE \A q \in Chip!Port : ByReset(q)
    BY <2>4, WriteDataMoves, RestMoves DEF Chip!PlainAccess
  <2>5. ASSUME NEW p \in Chip!Port, Chip!scc_do_event(p) PROVE \A q \in Chip!Port : ByReset(q)
    BY <2>5, HostMoves, RestMoves DEF Chip!scc_do_event
  <2>6. ASSUME NEW p \in Chip!Port, Chip!ModemSays(p) \/ \E n \in 1 .. MaxRecv : Chip!HostSends(p, n)
        PROVE  \A q \in Chip!Port : ByReset(q)
    BY <2>1, <2>6, HostMoves
  <2> QED BY <2>1, <2>2, <2>3, <2>4, <2>5, <2>6, ResetMoves DEF Chip!Next
<1>2. (\A p \in Chip!Port : ByReset(p))
      => [\A p \in Port : Stalled(p)' /\ ~Stalled(p)
            => depth[p] = QueueSize /\ depth'[p] = 0]_chip
  BY DEF ByReset, Chip!Stalled, Stalled, Chip!Port, Port
<1> QED BY ChipHolds, <1>1, <1>2, PTL DEF Chip!Spec, StalledByReset
===============================================================================
