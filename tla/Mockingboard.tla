------------------------------ MODULE Mockingboard ------------------------------
(***************************************************************************)
(* The two 6522 timer chips of the Mockingboard (mockingboard.c).  The     *)
(* chips are not stepped: mock_update_timers catches their counters up     *)
(* when the guest looks at them, and books one event for the earliest      *)
(* interrupt of all four timers.                                           *)
(*                                                                         *)
(* Times are relative to now: "ago" is the time since the last update and  *)
(* the event's time is what is left until it.  A byte has the Byte values  *)
(* 0 .. Byte - 1, so that a 16-bit count wraps at Byte * Byte.  The sound  *)
(* chips (the AY8913) behind the ports are not modelled.                   *)
(***************************************************************************)
EXTENDS Integers, FiniteSets, FiniteSetsExt

CONSTANTS
  Byte,      \* values of a byte, 256
  Programs,  \* guest programs: each maps the <<pair, timer>> it accesses to the
             \* bytes it writes to the low half of their counts
  Highs,     \* the bytes it writes to the high half
  Skews,     \* what the elapsed time may come to after a reset: any large time
  MaxStep,   \* the longest instruction, in microseconds
  MaxAgo     \* the guest looks at the timers at least this often

Pair == {0, 1}
Timer == {"T1", "T2"}       \* bit 6 and bit 5 of IFR, IER and ACR
ResetLatch == (Byte - 1) * Byte   \* 0xff00

Used == UNION { DOMAIN q : q \in Programs }

ASSUME ByteAssumption == Byte \in Nat /\ Byte >= 2 /\ Highs \subseteq 0 .. Byte - 1
ASSUME UsedAssumption ==
  /\ Used \subseteq Pair \X Timer
  /\ \A q \in Programs : \A u \in DOMAIN q : q[u] \subseteq 0 .. Byte - 1
ASSUME TimeAssumption ==
  /\ MaxStep \in Nat \ {0} /\ MaxAgo \in Nat /\ MaxAgo >= MaxStep
  /\ \A s \in Skews : s \in Nat /\ s >= ResetLatch

VARIABLES
  mos6522,         \* [Pair -> the chip's registers and its interrupt line]
  ago,             \* now - g_mockingboard_last_int_dusec
  skewed,          \* ... which a reset has set in the wrong unit
  event_int_dusec, \* {} or {the time until it}
  queue,           \* the times until the EV_MOCKINGBOARDs in the event list
  program,         \* the guest program
  started          \* the timers started by a write of their count in the mode
                   \* they are in: kept for the properties, never read

vars == <<mos6522, ago, skewed, event_int_dusec, queue, program, started>>

Counter == [count : 0 .. Byte * Byte + 1, triggered : BOOLEAN]
Chip == [T1 : Counter, T2 : Counter, latch : [Timer -> 0 .. Byte * Byte - 1],
         ifr : SUBSET Timer, ier : SUBSET Timer, acr : SUBSET Timer,
         ifr7 : BOOLEAN, irq : BOOLEAN]

Idle == [count |-> ResetLatch, triggered |-> TRUE]     \* 0x2ff00
ResetChip ==
  [T1 |-> Idle, T2 |-> Idle,
   latch |-> [t \in Timer |-> IF t = "T1" THEN ResetLatch ELSE 0],
   ifr |-> {}, ier |-> {}, acr |-> {}, ifr7 |-> FALSE, irq |-> FALSE]

(* The first do_reset, at time 0.                                           *)
Init ==
  /\ mos6522 = [p \in Pair |-> ResetChip]
  /\ ago = 0 /\ skewed = FALSE
  /\ event_int_dusec = {} /\ queue = {} /\ started = {} /\ program \in Programs

-------------------------------------------------------------------------------
(* The chip with new flags: bit 7 and the line follow them.                 *)
mock_6522_new_ifr(chip, ifr) ==
  LET on == ifr \cap chip.ier # {} IN
  [chip EXCEPT !.ifr = ifr, !.ifr7 = on, !.irq = on]

(* Mutant: the period starts over when the timer is looked at.              *)
ReloadedNow(chip, over) == chip.latch["T1"] + 2

(* What timer 1 has come to "over" after it ran out, periods later perhaps. *)
Reloaded(chip, over) ==
  LET period == chip.latch["T1"] + 2
      left == over % period
  IN period - IF left = 0 THEN period ELSE left

(* Timer 1 after d microseconds.                                            *)
Timer1(chip, d) ==
  IF d < chip.T1.count
    THEN [chip EXCEPT !.T1.count = @ - d]
    ELSE [ (IF chip.T1.triggered THEN chip
            ELSE mock_6522_new_ifr(chip, chip.ifr \union {"T1"}))
           EXCEPT !.T1 = [count |-> Reloaded(chip, d - chip.T1.count),
                          triggered |-> "T1" \notin chip.acr] ]

(* Timer 2, which counts pulses when ACR says so: there are none.           *)
Timer2(chip, d) ==
  LET passed == IF "T2" \in chip.acr THEN 0 ELSE d IN
  IF passed < chip.T2.count
    THEN [chip EXCEPT !.T2.count = @ - passed]
    ELSE [ (IF chip.T2.triggered THEN chip
            ELSE mock_6522_new_ifr(chip, chip.ifr \union {"T2"}))
           EXCEPT !.T2 = [count |-> (chip.T2.count - passed) % (Byte * Byte),
                          triggered |-> TRUE] ]

(* The timers of a chip that want an event: they have not run out in these  *)
(* d microseconds, and may interrupt when they do.                          *)
Awaited(chip, d) ==
  { t \in chip.ier \ chip.ifr :
      (IF t = "T2" /\ "T2" \in chip.acr THEN 0 ELSE d) < chip[t].count }

(* The times until the interrupts of "chips", updated after d, that an      *)
(* event may be booked for.  The time of timer 2 is only merged into that   *)
(* of the same chip's timer 1: where timer 1 wants no event, neither has    *)
(* one.                                                                     *)
Ahead(chips, d) ==
  UNION { { Timer2(Timer1(chips[p], d), d)[t].count : t \in Awaited(chips[p], d) }
          : p \in { q \in Pair : "T1" \in Awaited(chips[q], d) } }

(* The microseconds an update sees.                                         *)
Elapsed == IF skewed THEN Skews ELSE {ago}

Now == [chips |-> mos6522, event |-> event_int_dusec, queue |-> queue]

(* Mutant: a sooner interrupt does not move the event that is booked.       *)
BookedOnce(s, ahead) ==
  LET closest == Min(ahead) IN
  IF ahead = {} \/ s.event # {}
    THEN s
    ELSE [s EXCEPT !.event = {closest}, !.queue = @ \union {closest}]

(* The event for the closest of the times "ahead" replaces a later one; an  *)
(* earlier one, whose reason may be gone, stays.                            *)
Booked(s, ahead) ==
  LET closest == Min(ahead) IN
  IF ahead = {} \/ (s.event # {} /\ closest >= Min(s.event))
    THEN s
    ELSE [s EXCEPT
           !.event = {closest},
           !.queue = (IF s.event = {} THEN @ ELSE @ \ {Min(@)}) \union {closest}]

mock_update_timers(s, d) ==
  Booked([s EXCEPT !.chips = [p \in Pair |-> Timer2(Timer1(@[p], d), d)]],
         Ahead(s.chips, d))

(* Where an update leaves the chips, and how the variables take it.         *)
Updated(d) == mock_update_timers(Now, d)
Chips(s, p, chip) == [s EXCEPT !.chips[p] = chip]
Becomes(s) == mos6522' = s.chips /\ event_int_dusec' = s.event /\ queue' = s.queue
UpToDate == ago' = 0 /\ skewed' = FALSE

mockingboard_event ==
  /\ queue # {} /\ Min(queue) <= 0
  /\ \E d \in Elapsed :
       Becomes(mock_update_timers(
                 [Now EXCEPT !.event = {}, !.queue = @ \ {Min(@)}], d))
  /\ UpToDate /\ UNCHANGED started

(* An instruction of n microseconds, which begins with no event due.        *)
Passes(n) ==
  /\ queue # {} => Min(queue) > 0
  /\ ago + n <= MaxAgo
  /\ ago' = IF skewed THEN ago ELSE ago + n
  /\ event_int_dusec' = { e - n : e \in event_int_dusec }
  /\ queue' = { e - n : e \in queue }
  /\ UNCHANGED <<mos6522, skewed, started>>

-------------------------------------------------------------------------------
(* The guest's accesses.                                                    *)

(* A register that is read for its count or its flags.                      *)
ReadCount ==
  /\ \E d \in Elapsed : Becomes(Updated(d))
  /\ UpToDate /\ UNCHANGED started

(* T1C-L or T2C-L read: the timer's flag is cleared.                        *)
ReadLow(p, t) ==
  /\ \E d \in Elapsed :
       LET s == Updated(d)
           chip == mock_6522_new_ifr(s.chips[p], s.chips[p].ifr \ {t})
       IN Becomes(mock_update_timers(Chips(s, p, chip), 0))
  /\ UpToDate /\ UNCHANGED started

(* An update that is made only when time has passed since the last.         *)
Lazily == IF skewed \/ ago = 0 THEN Now ELSE Updated(ago)
WithLow(chip, t, low) ==
  [chip EXCEPT !.latch[t] = Byte * (@ \div Byte) + low]
WithHigh(chip, t, high) == [chip EXCEPT !.latch[t] = Byte * high + (@ % Byte)]

(* T1C-L, T1L-L and T2C-L written: the latch.  T2's needs no update.        *)
WriteLow(p, t, low) ==
  LET s == IF t = "T1" THEN Lazily ELSE Now IN
  /\ Becomes(Chips(s, p, WithLow(s.chips[p], t, low)))
  /\ IF t = "T2" \/ skewed THEN UNCHANGED <<ago, skewed>> ELSE UpToDate
  /\ UNCHANGED started

(* T1C-H or T2C-H written: the timer starts, and its flag is cleared.       *)
WriteCountHigh(p, t, high) ==
  /\ \E d \in Elapsed :
       LET s == Updated(d)
           chip == WithHigh(s.chips[p], t, high)
           loaded == [chip EXCEPT ![t] = [count |-> chip.latch[t] + 2,
                                          triggered |-> FALSE]]
       IN Becomes(mock_update_timers(
                    Chips(s, p, mock_6522_new_ifr(loaded, loaded.ifr \ {t})), 0))
  /\ UpToDate /\ started' = started \union {<<p, t>>}

(* T1L-H written: the latch, and timer 1's flag is cleared.                 *)
WriteLatchHigh(p, high) ==
  /\ \E d \in Elapsed :
       LET s == Updated(d)
           chip == WithHigh(s.chips[p], "T1", high)
       IN Becomes(mock_update_timers(
                    Chips(s, p, mock_6522_new_ifr(chip, chip.ifr \ {"T1"})), 0))
  /\ UpToDate /\ UNCHANGED started

(* ACR written: the modes of both timers.                                   *)
WriteACR(p, val) ==
  LET s == Lazily IN
  /\ \E d \in IF skewed THEN Skews ELSE {0} :
       Becomes(mock_update_timers(Chips(s, p, [s.chips[p] EXCEPT !.acr = val]), d))
  /\ UpToDate
  /\ started' = started \
       { <<p, t>> : t \in { u \in Timer : (u \in val) # (u \in mos6522[p].acr) } }

(* IFR written: the flags of "val" are cleared.                             *)
WriteIFR(p, val) ==
  /\ \E d \in Elapsed :
       LET s == Updated(d)
           chip == mock_6522_new_ifr(s.chips[p], s.chips[p].ifr \ val)
       IN Becomes(mock_update_timers(Chips(s, p, chip), 0))
  /\ UpToDate /\ UNCHANGED started

(* IER written: the interrupts of "val" are enabled, or disabled.           *)
WriteIER(p, set, val) ==
  /\ \E d \in Elapsed :
       LET s == Updated(d)
           chip == [s.chips[p] EXCEPT !.ier = IF set THEN @ \union val ELSE @ \ val]
       IN Becomes(mock_update_timers(
                    Chips(s, p, mock_6522_new_ifr(chip, chip.ifr)), 0))
  /\ UpToDate /\ UNCHANGED started

(* A reset of the machine.  The time of the last update is set in fcycles   *)
(* instead of microseconds.  do_reset then clears the lines.                *)
mockingboard_reset ==
  /\ mos6522' = [p \in Pair |-> ResetChip]
  /\ event_int_dusec' = {}
  /\ queue' = IF event_int_dusec # {} THEN queue \ {Min(queue)} ELSE queue
  /\ ago' = 0 /\ skewed' = TRUE /\ started' = {}

UsedOf(p) == { t \in Timer : <<p, t>> \in DOMAIN program }
Access ==
  \/ ReadCount
  \/ \E u \in DOMAIN program :
       \/ ReadLow(u[1], u[2])
       \/ \E low \in program[u] : WriteLow(u[1], u[2], low)
       \/ \E high \in Highs : WriteCountHigh(u[1], u[2], high)
       \/ u[2] = "T1" /\ \E high \in Highs : WriteLatchHigh(u[1], high)
  \/ \E p \in Pair : \E val \in SUBSET UsedOf(p) :
       \/ WriteACR(p, val)
       \/ val # {} /\ WriteIFR(p, val)
       \/ val # {} /\ \E set \in BOOLEAN : WriteIER(p, set, val)

Next ==
  /\ \/ \E n \in 1 .. MaxStep : Passes(n)
     \/ mockingboard_event
     \/ mockingboard_reset
     \/ Access
  /\ UNCHANGED program

Spec == Init /\ [][Next]_vars

-------------------------------------------------------------------------------
(* Every count fits its width, and no more than one event is booked.        *)
TypeOK ==
  /\ mos6522 \in [Pair -> Chip]
  /\ ago \in 0 .. MaxAgo /\ skewed \in BOOLEAN /\ program \in Programs
  /\ Cardinality(event_int_dusec) <= 1 /\ started \subseteq Used

(* The timers that will interrupt when they run out.                        *)
Armed(p, t) ==
  LET chip == mos6522[p] IN
  /\ t \in chip.ier \ chip.ifr
  /\ ~ chip[t].triggered
  /\ ~ (t = "T2" /\ t \in chip.acr)

(* ... and were started in their present mode.                              *)
Running == { u \in started : Armed(u[1], u[2]) }

(* The event remembered in g_mockingboard_event_int_dusec is the one in the *)
(* event list, and it is booked no later than the expiry of every timer 1   *)
(* that was started in its present mode and will interrupt, and of the same *)
(* chip's timer 2 as long as timer 1 is such a one; so these interrupts are *)
(* late by less than an instruction, although nothing counts the timers     *)
(* while the guest does not look.  A timer 2 alone has no event.            *)
ExpiryBooked ==
  /\ event_int_dusec = queue
  /\ \A u \in Running : <<u[1], "T1">> \in Running =>
       LET expiry == mos6522[u[1]][u[2]].count - ago IN
       expiry > - MaxStep /\ \E e \in queue : e <= expiry

(* A 6522 that counts every microsecond: a timer interrupts when it comes   *)
(* to 0, and the next microsecond loads timer 1's latch and wraps timer 2.  *)
RanOut(chip, t) ==
  IF chip[t].count = 1 /\ ~ chip[t].triggered
    THEN mock_6522_new_ifr(chip, chip.ifr \union {t}) ELSE chip
CountedFrom0(chip, t) ==
  IF t = "T1" THEN chip.latch["T1"] + 1 ELSE Byte * Byte - 1
Counted(chip, t) ==
  LET c == chip[t]
      once == t = "T2" \/ "T1" \notin chip.acr IN
  IF t = "T2" /\ "T2" \in chip.acr THEN chip
  ELSE IF c.count = 0 THEN [chip EXCEPT ![t].count = CountedFrom0(chip, t)]
  ELSE [RanOut(chip, t) EXCEPT
          ![t] = [count |-> c.count - 1,
                  triggered |-> IF c.count = 1 THEN once ELSE c.triggered]]

(* Catching up with any stretch of time leaves a started timer, its flag    *)
(* and the interrupt line as counting every microsecond of it would, also   *)
(* over several periods of timer 1 and where timer 2 wraps.                 *)
CountsEveryMicrosecond == \A u \in started :
  LET chip == mos6522[u[1]]
      counted[n \in 0 .. MaxAgo] ==
        IF n = 0 THEN chip ELSE Counted(counted[n - 1], u[2])
  IN chip[u[2]].count > 0 \/ (u[2] = "T2" /\ chip.T2.triggered) =>
       \A n \in 0 .. MaxAgo :
         (IF u[2] = "T1" THEN Timer1(chip, n) ELSE Timer2(chip, n)) = counted[n]
===============================================================================
