------------------------------- MODULE DocProofs -------------------------------
(***************************************************************************)
(* The interrupt line, the count and the ranks of the oscillators agree,   *)
(* no end of a wave loses its event and none that interrupts goes without  *)
(* its interrupt, for any number of oscillators and whatever the guest     *)
(* writes to them.                                                         *)
(*                                                                         *)
(* sound_play and the halting of many oscillators are recursive functions: *)
(* RoundKeeps and EachKeeps bring what holds along them down to one        *)
(* oscillator, and the relations Plays and Goes say what one oscillator    *)
(* may do to all others.                                                   *)
(***************************************************************************)
EXTENDS Doc, FiniteSetTheorems, TLAPS

(* A set that has 0 and the successor of each of its numbers has them all. *)
LEMMA NatSetInduction ==
  ASSUME NEW S, 0 \in S, \A n \in Nat : n \in S => n + 1 \in S
  PROVE  Nat \subseteq S
<1> DEFINE Missing == Nat \ S
           Down == { 0 .. n : n \in Missing }
           R == StrictSubsetOrdering(Nat)
<1> SUFFICES ASSUME Missing # {} PROVE FALSE
  OBVIOUS
<1>1. Down \subseteq FiniteSubsetsOf(Nat)
  <2> SUFFICES ASSUME NEW n \in Missing
               PROVE  0 .. n \in FiniteSubsetsOf(Nat)
    OBVIOUS
  <2>1. IsFiniteSet(0 .. n)
    BY FS_Interval
  <2>2. 0 .. n \subseteq Nat
    OBVIOUS
  <2> QED
    BY <2>1, <2>2 DEF FiniteSubsetsOf
<1>2. Down # {}
  OBVIOUS
<1>3. IsWellFoundedOn(R, FiniteSubsetsOf(Nat))
  BY FS_StrictSubsetOrderingWellFounded
<1>4. PICK d \in Down : \A e \in Down : ~ (<<e, d>> \in R)
  <2> HIDE DEF Down, R
  <2> QED
    BY <1>1, <1>2, <1>3, WFMin
<1>5. PICK x \in Missing : d = 0 .. x
  OBVIOUS
<1>6. x # 0 /\ x - 1 \in Missing
  OBVIOUS
<1>7. 0 .. (x - 1) \in Down /\ <<0 .. (x - 1), d>> \in R
  BY <1>5, <1>6 DEF StrictSubsetOrdering
<1> QED
  BY <1>4, <1>7

(* The state of the device, without bounds on ranks and events.             *)
Checks == {"no event", "added twice", "no interrupt", "interrupt left", "not running",
           "already running", "already stopped", "interrupt at reset", "count at reset"}
OscState == [ctl : Ctl, running : BOOLEAN, event : BOOLEAN, has_irq_pending : Nat]
DocState == [regs : [Osc -> OscState], queue : [Osc -> Nat],
             num_osc_en : 1 .. NumOsc, num_interrupting : Nat,
             e0 : SUBSET Osc, irq : BOOLEAN, halted : SUBSET Checks]

Rank(s, o) == s.regs[o].has_irq_pending

(* t has the ranks of s, whatever else has changed.                         *)
SameRanks(s, t) ==
  /\ \A o \in Osc : Rank(t, o) = Rank(s, o)
  /\ t.num_osc_en = s.num_osc_en /\ t.num_interrupting = s.num_interrupting
  /\ t.e0 = s.e0 /\ t.irq = s.irq
  /\ s.halted \subseteq t.halted

(* A stopped emulation aside, line and count are those of the interrupts    *)
(* pending; a reset may leave the count too high, never too low.            *)
Counted(s) ==
  /\ s.num_interrupting >= Cardinality(Pending(s))
  /\ s.halted = {} => /\ s.irq = (Pending(s) # {})
                      /\ s.num_interrupting = Cardinality(Pending(s))

(* The ranks are those of a queue, and 0xe0 names its first.                *)
Exact(s) ==
  /\ \A o \in Osc : Rank(s, o) \in 0 .. s.num_interrupting
  /\ \A k \in 1 .. s.num_interrupting : \E o \in Osc : Rank(s, o) = k
  /\ \A o \in Osc, p \in Osc : Rank(s, o) = Rank(s, p) /\ Rank(s, o) # 0 => o = p
  /\ s.e0 = { o \in Osc : Rank(s, o) = 1 }

Inside(s) == \A o \in Osc : Rank(s, o) # 0 => o < s.num_osc_en

(* An oscillator that runs is not halted.                                   *)
Unhalted(s) == \A o \in Osc : s.regs[o].running => ~ s.regs[o].ctl.halt

LEMMA OscFacts ==
  /\ NumOsc \in Nat /\ NumOsc > 0
  /\ \A o \in Osc : Partner(o) \in Osc /\ Partner(o) # o
                    /\ o \in Nat /\ o \in Int /\ o < NumOsc
  /\ \A s \in DocState : /\ s.num_osc_en \in Int
                          /\ 1 <= s.num_osc_en /\ s.num_osc_en <= NumOsc
<1>1. NumOsc \in Nat /\ NumOsc > 0 /\ NumOsc % 2 = 0
  BY OscAssumption
<1>2. ASSUME NEW o \in Osc PROVE Partner(o) \in Osc /\ Partner(o) # o
  <2>1. o \in Nat /\ o < NumOsc
    BY <1>1, <1>2 DEF Osc
  <2>2. CASE o % 2 = 0
    <3>1. o + 1 < NumOsc
      BY <1>1, <2>1, <2>2
    <3> QED
      BY <1>1, <2>1, <2>2, <3>1 DEF Partner, Osc
  <2>3. CASE o % 2 # 0
    <3>1. o # 0
      BY <2>3
    <3> QED
      BY <1>1, <2>1, <2>3, <3>1 DEF Partner, Osc
  <2> QED
    BY <2>2, <2>3
<1>3. \A s \in DocState : s.num_osc_en \in Int /\ 1 <= s.num_osc_en /\ s.num_osc_en <= NumOsc
  BY <1>1 DEF DocState
<1> QED
  BY <1>1, <1>2, <1>3 DEF Osc

LEMMA PendingFinite ==
  ASSUME NEW s
  PROVE  /\ IsFiniteSet(Pending(s)) /\ Cardinality(Pending(s)) \in Nat
         /\ Pending(s) = { o \in Osc : Rank(s, o) # 0 }
         /\ (Cardinality(Pending(s)) = 0) <=> (Pending(s) = {})
<1>1. IsFiniteSet(Osc)
  BY OscAssumption, FS_Interval DEF Osc
<1>2. Pending(s) \subseteq Osc
  BY DEF Pending
<1>3. IsFiniteSet(Pending(s))
  BY <1>1, <1>2, FS_Subset
<1> QED
  BY <1>3, FS_CardinalityType, FS_EmptySet DEF Pending, Rank

(* What is said of ranks carries over where they stay.                      *)
LEMMA RanksCarryOver ==
  ASSUME NEW s, NEW t, SameRanks(s, t)
  PROVE  /\ Counted(s) => Counted(t)
         /\ Exact(s) => Exact(t)
         /\ Inside(s) => Inside(t)
         /\ Pending(t) = Pending(s)
<1>1. Pending(t) = Pending(s)
  BY DEF SameRanks, Pending, Rank
<1>2. t.halted = {} => s.halted = {}
  BY DEF SameRanks
<1> QED
  BY <1>1, <1>2 DEF SameRanks, Counted, Exact, Inside

(* From s to t only the oscillator o changes, and not its rank.             *)
Changed(s, t, o) ==
  /\ t \in DocState
  /\ SameRanks(s, t)
  /\ \A p \in Osc : p # o => t.regs[p] = s.regs[p]

(* s with a failed check noted.                                             *)
Noted(s, why) == [s EXCEPT !.halted = @ \union {why}]

LEMMA NotedFacts ==
  ASSUME NEW s \in DocState, NEW why \in Checks, NEW t, t = s \/ t = Noted(s, why)
  PROVE  /\ t \in DocState
         /\ SameRanks(s, t)
         /\ t.regs = s.regs
         /\ t = Noted(s, why) => t.halted # {}
<1>1. CASE t = s
  <2>1. s = Noted(s, why) => why \in s.halted
    BY DEF Noted, DocState
  <2> QED
    BY <1>1, <2>1 DEF SameRanks
<1>2. CASE t = Noted(s, why)
  <2>1. t \in DocState
    BY <1>2 DEF Noted, DocState
  <2>2. /\ t.regs = s.regs /\ t.num_osc_en = s.num_osc_en
        /\ t.num_interrupting = s.num_interrupting /\ t.e0 = s.e0 /\ t.irq = s.irq
        /\ t.halted = s.halted \union {why}
    BY <1>2 DEF Noted, DocState
  <2> QED
    BY <2>1, <2>2 DEF SameRanks, Rank
<1> QED
  BY <1>1, <1>2

(* s with the registers of one oscillator, and the queue of events.         *)
With(s, o, reg, q) == [s EXCEPT !.regs[o] = reg, !.queue = q]

(* A change of one oscillator's registers that leaves its rank.             *)
LEMMA OneChanged ==
  ASSUME NEW s \in DocState, NEW o \in Osc, NEW reg \in OscState, NEW q \in [Osc -> Nat],
         reg.has_irq_pending = Rank(s, o)
  PROVE  Changed(s, With(s, o, reg, q), o) /\ With(s, o, reg, q).regs[o] = reg
<1> DEFINE t == With(s, o, reg, q)
<1>1. s.regs \in [Osc -> OscState]
  BY DEF DocState
<1>2. t = [s EXCEPT !.regs = [s.regs EXCEPT ![o] = reg], !.queue = q]
  BY DEF With
<1>3. [s.regs EXCEPT ![o] = reg] \in [Osc -> OscState]
  BY <1>1
<1>4. t \in DocState
  BY <1>2, <1>3 DEF DocState
<1>5. /\ t.regs = [s.regs EXCEPT ![o] = reg] /\ t.num_osc_en = s.num_osc_en
      /\ t.num_interrupting = s.num_interrupting /\ t.e0 = s.e0 /\ t.irq = s.irq
      /\ t.halted = s.halted
  BY <1>2 DEF DocState
<1> HIDE DEF t
<1>6. Changed(s, t, o) /\ t.regs[o] = reg
  BY <1>1, <1>4, <1>5 DEF Changed, SameRanks, Rank
<1> QED
  BY <1>6 DEF t

LEMMA ChangedTwice ==
  ASSUME NEW s, NEW t, NEW u, NEW o \in Osc, Changed(s, t, o), Changed(t, u, o)
  PROVE  Changed(s, u, o)
BY DEF Changed, SameRanks

LEMMA RegTypes ==
  ASSUME NEW s \in DocState, NEW o \in Osc
  PROVE  /\ s.regs[o] \in OscState /\ s.regs[o].ctl \in Ctl
         /\ s.regs[o].ctl.halt \in BOOLEAN /\ s.regs[o].ctl.ie \in BOOLEAN
         /\ s.regs[o].running \in BOOLEAN /\ s.regs[o].event \in BOOLEAN
         /\ s.regs[o].has_irq_pending \in Nat
         /\ s.queue \in [Osc -> Nat] /\ s.queue[o] \in Nat
BY DEF DocState, OscState, Ctl

LEMMA EventRemoved ==
  ASSUME NEW s \in DocState, NEW o \in Osc, NEW t, t = doc_remove_sound_event(s, o)
  PROVE  /\ Changed(s, t, o)
         /\ t.regs[o].ctl = s.regs[o].ctl
         /\ t.regs[o].running = s.regs[o].running
         /\ ~ t.regs[o].event
<1> DEFINE reg == [s.regs[o] EXCEPT !.event = FALSE]
           q == [s.queue EXCEPT ![o] = IF @ = 0 THEN 0 ELSE @ - 1]
           u == With(s, o, reg, q)
<1>1. CASE ~ s.regs[o].event
  <2>1. t = s
    BY <1>1 DEF doc_remove_sound_event
  <2> QED
    BY <1>1, <2>1, RegTypes DEF Changed, SameRanks
<1>2. CASE s.regs[o].event
  <2>1. /\ reg \in OscState /\ reg.has_irq_pending = Rank(s, o)
        /\ reg.ctl = s.regs[o].ctl /\ reg.running = s.regs[o].running
        /\ ~ reg.event
    BY RegTypes DEF OscState, Rank
  <2>2. q \in [Osc -> Nat]
    BY RegTypes
  <2>3. Changed(s, u, o) /\ u.regs[o] = reg
    <3> HIDE DEF reg, q
    <3> QED
      BY <2>1, <2>2, OneChanged
  <2>4. t = u \/ t = Noted(u, "no event")
    BY <1>2 DEF doc_remove_sound_event, Halts, Noted, With
  <2> HIDE DEF u, reg
  <2>5. u \in DocState
    BY <2>3 DEF Changed
  <2>6. t \in DocState /\ SameRanks(u, t) /\ t.regs = u.regs
    <3>1. "no event" \in Checks
      BY DEF Checks
    <3> QED
      BY <2>4, <2>5, <3>1, NotedFacts
  <2>7. Changed(s, t, o)
    BY <2>3, <2>6 DEF Changed, SameRanks
  <2> QED
    BY <2>1, <2>3, <2>6, <2>7
<1> QED
  BY <1>1, <1>2

LEMMA EndEstimated ==
  ASSUME NEW s \in DocState, NEW o \in Osc, NEW t, t = doc_wave_end_estimate(s, o)
  PROVE  /\ Changed(s, t, o)
         /\ t.regs[o].ctl = s.regs[o].ctl
         /\ t.regs[o].running = s.regs[o].running
         /\ t.regs[o].event <=> s.regs[o].ctl.ie \/ s.regs[Partner(o)].ctl.ie
<1> DEFINE u == doc_remove_sound_event(s, o)
           reg == [u.regs[o] EXCEPT !.event = TRUE]
           q == [u.queue EXCEPT ![o] = @ + 1]
           wanted == s.regs[o].ctl.ie \/ s.regs[Partner(o)].ctl.ie
<1>1. /\ Changed(s, u, o) /\ u.regs[o].ctl = s.regs[o].ctl
      /\ u.regs[o].running = s.regs[o].running /\ ~ u.regs[o].event
  BY EventRemoved
<1>2. CASE ~ wanted
  <2>1. t = u
    BY <1>2 DEF doc_wave_end_estimate
  <2> QED
    BY <1>1, <1>2, <2>1
<1>3. CASE wanted
  <2>1. t = With(u, o, reg, q)
    BY <1>3 DEF doc_wave_end_estimate, With
  <2>2. u \in DocState
    BY <1>1 DEF Changed
  <2> HIDE DEF u
  <2>3. /\ reg \in OscState /\ reg.has_irq_pending = Rank(u, o)
        /\ reg.ctl = u.regs[o].ctl /\ reg.running = u.regs[o].running /\ reg.event
    BY <2>2, RegTypes DEF OscState, Rank
  <2>4. q \in [Osc -> Nat]
    BY <2>2, RegTypes
  <2> HIDE DEF reg, q
  <2>5. Changed(u, t, o) /\ t.regs[o] = reg
    BY <2>1, <2>2, <2>3, <2>4, OneChanged
  <2>6. Changed(s, t, o)
    BY <1>1, <2>5, ChangedTwice
  <2> QED
    BY <1>1, <1>3, <2>3, <2>5, <2>6
<1> QED
  BY <1>2, <1>3

(* What writing a control register, its halt bit or whether it runs changes. *)
CtlIs(s, o, val, t) == t = [s EXCEPT !.regs[o].ctl = val]
RunIs(s, o, runs, t) == t = [s EXCEPT !.regs[o].running = runs]
HaltIs(s, o, halt, t) == t = [s EXCEPT !.regs[o].ctl.halt = halt]

LEMMA CtlWritten ==
  ASSUME NEW s \in DocState, NEW o \in Osc, NEW val \in Ctl,
         NEW t, CtlIs(s, o, val, t)
  PROVE  /\ Changed(s, t, o)
         /\ t.regs[o].ctl = val
         /\ t.regs[o].running = s.regs[o].running
         /\ t.regs[o].event = s.regs[o].event
<1> DEFINE reg == [s.regs[o] EXCEPT !.ctl = val]
<1>1. t = With(s, o, reg, s.queue)
  BY DEF DocState, With, CtlIs, RunIs
<1>2. /\ reg \in OscState /\ reg.has_irq_pending = Rank(s, o)
      /\ reg.ctl = val /\ reg.running = s.regs[o].running
      /\ reg.event = s.regs[o].event
  BY RegTypes DEF OscState, Rank
<1> HIDE DEF reg
<1>3. Changed(s, t, o) /\ t.regs[o] = reg
  <2>1. s.queue \in [Osc -> Nat]
    BY RegTypes
  <2>2. Changed(s, With(s, o, reg, s.queue), o) /\ With(s, o, reg, s.queue).regs[o] = reg
    BY <1>2, <2>1, OneChanged
  <2> QED
    BY <1>1, <2>2
<1> QED
  BY <1>2, <1>3

LEMMA RunWritten ==
  ASSUME NEW s \in DocState, NEW o \in Osc, NEW runs \in BOOLEAN,
         NEW t, RunIs(s, o, runs, t)
  PROVE  /\ Changed(s, t, o)
         /\ t.regs[o].ctl = s.regs[o].ctl
         /\ t.regs[o].running = runs
         /\ t.regs[o].event = s.regs[o].event
<1> DEFINE reg == [s.regs[o] EXCEPT !.running = runs]
<1>1. t = With(s, o, reg, s.queue)
  BY DEF DocState, With, CtlIs, RunIs
<1>2. /\ reg \in OscState /\ reg.has_irq_pending = Rank(s, o)
      /\ reg.ctl = s.regs[o].ctl /\ reg.running = runs
      /\ reg.event = s.regs[o].event
  BY RegTypes DEF OscState, Rank
<1> HIDE DEF reg
<1>3. Changed(s, t, o) /\ t.regs[o] = reg
  <2>1. s.queue \in [Osc -> Nat]
    BY RegTypes
  <2>2. Changed(s, With(s, o, reg, s.queue), o) /\ With(s, o, reg, s.queue).regs[o] = reg
    BY <1>2, <2>1, OneChanged
  <2> QED
    BY <1>1, <2>2
<1> QED
  BY <1>2, <1>3

(* The halt bit as the code sets and clears it.                             *)
LEMMA HaltWritten ==
  ASSUME NEW s \in DocState, NEW o \in Osc, NEW halt \in BOOLEAN,
         NEW t, HaltIs(s, o, halt, t)
  PROVE  /\ Changed(s, t, o)
         /\ t.regs[o].ctl.halt = halt
         /\ t.regs[o].ctl.ie = s.regs[o].ctl.ie
         /\ t.regs[o].ctl.mode = s.regs[o].ctl.mode
         /\ t.regs[o].running = s.regs[o].running
         /\ t.regs[o].event = s.regs[o].event
<1> DEFINE ctl == [s.regs[o].ctl EXCEPT !.halt = halt]
           reg == [s.regs[o] EXCEPT !.ctl = ctl]
<1>1. s.regs[o].ctl \in Ctl
  BY RegTypes
<1>2. /\ ctl \in Ctl /\ ctl.halt = halt
      /\ ctl.ie = s.regs[o].ctl.ie /\ ctl.mode = s.regs[o].ctl.mode
  BY <1>1 DEF Ctl
<1>3. t = With(s, o, reg, s.queue)
  BY DEF DocState, OscState, With, HaltIs
<1> HIDE DEF ctl
<1>4. /\ reg \in OscState /\ reg.has_irq_pending = Rank(s, o)
      /\ reg.ctl = ctl /\ reg.running = s.regs[o].running
      /\ reg.event = s.regs[o].event
  BY <1>2, RegTypes DEF OscState, Rank
<1> HIDE DEF reg
<1>5. Changed(s, t, o) /\ t.regs[o] = reg
  <2>1. s.queue \in [Osc -> Nat]
    BY RegTypes
  <2>2. Changed(s, With(s, o, reg, s.queue), o) /\ With(s, o, reg, s.queue).regs[o] = reg
    BY <1>4, <2>1, OneChanged
  <2> QED
    BY <1>3, <2>2
<1> QED
  BY <1>2, <1>4, <1>5

(* From s to t only ranks change, and what depends on them.                 *)
SameRegs(s, t) ==
  /\ t \in DocState
  /\ t.num_osc_en = s.num_osc_en /\ s.halted \subseteq t.halted
  /\ \A p \in Osc : /\ t.regs[p].ctl = s.regs[p].ctl
                    /\ t.regs[p].running = s.regs[p].running
                    /\ t.regs[p].event = s.regs[p].event

(* An interrupt is added behind all others.                                 *)
LEMMA IrqAdded ==
  ASSUME NEW s \in DocState, Counted(s), NEW o \in Osc, Rank(s, o) = 0,
         NEW t, t = doc_add_sound_irq(s, o)
  PROVE  /\ SameRegs(s, t)
         /\ \A p \in Osc : p # o => Rank(t, p) = Rank(s, p)
         /\ Rank(t, o) # 0
         /\ Counted(t)
         /\ Exact(s) => Exact(t)
<1> DEFINE n == s.num_interrupting
           reg == [s.regs[o] EXCEPT !.has_irq_pending = n + 1]
           regs == [s.regs EXCEPT ![o] = reg]
           e0 == IF n + 1 = 1 THEN {o} ELSE s.e0
<1>1. n \in Nat /\ n + 1 \in Nat /\ n + 1 # 0 /\ s.e0 \in SUBSET Osc /\ e0 \in SUBSET Osc
  BY DEF DocState
<1>2. /\ reg \in OscState /\ reg.has_irq_pending = n + 1
      /\ reg.ctl = s.regs[o].ctl /\ reg.running = s.regs[o].running
      /\ reg.event = s.regs[o].event
  BY <1>1, RegTypes DEF OscState
<1>3. s.regs \in [Osc -> OscState]
  BY DEF DocState
<1>4. t = [s EXCEPT !.regs = regs, !.num_interrupting = n + 1, !.irq = TRUE, !.e0 = e0]
  BY DEF doc_add_sound_irq, Halts, Rank, DocState
<1> HIDE DEF n, reg, e0
<1>5. regs \in [Osc -> OscState] /\ regs[o] = reg
      /\ \A p \in Osc : p # o => regs[p] = s.regs[p]
  BY <1>2, <1>3
<1> HIDE DEF regs
<1>6. /\ t \in DocState /\ t.regs = regs /\ t.num_interrupting = n + 1 /\ t.irq = TRUE
      /\ t.e0 = e0 /\ t.num_osc_en = s.num_osc_en /\ t.halted = s.halted
  BY <1>1, <1>4, <1>5 DEF DocState
<1>7. SameRegs(s, t)
  BY <1>2, <1>5, <1>6 DEF SameRegs
<1>8. Rank(t, o) = n + 1 /\ \A p \in Osc : p # o => Rank(t, p) = Rank(s, p)
  BY <1>2, <1>5, <1>6 DEF Rank
<1>9. Counted(t)
  <2>1. Pending(t) = Pending(s) \union {o} /\ o \notin Pending(s)
    BY <1>1, <1>8, PendingFinite
  <2>2. Cardinality(Pending(t)) = Cardinality(Pending(s)) + 1
    BY <2>1, PendingFinite, FS_AddElement, ZenonT(30)
  <2>3. t.irq = (Pending(t) # {})
    BY <1>6, <2>1
  <2>4. n >= Cardinality(Pending(s)) /\ (s.halted = {} => n = Cardinality(Pending(s)))
    BY DEF Counted, n
  <2>5. Cardinality(Pending(s)) \in Nat
    BY PendingFinite
  <2> QED
    BY <1>1, <1>6, <2>2, <2>3, <2>4, <2>5 DEF Counted
<1>10. Exact(s) => Exact(t)
  <2> SUFFICES ASSUME Exact(s) PROVE Exact(t)
    OBVIOUS
  <2>1. \A p \in Osc : Rank(s, p) \in 0 .. n
    BY DEF Exact, n
  <2>2. \A p \in Osc : Rank(t, p) \in 0 .. t.num_interrupting
    BY <1>1, <1>6, <1>8, <2>1
  <2>3. ASSUME NEW k \in 1 .. t.num_interrupting PROVE \E p \in Osc : Rank(t, p) = k
    <3>1. CASE k = n + 1
      BY <1>8, <3>1
    <3>2. CASE k # n + 1
      <4>1. k \in 1 .. n
        BY <1>1, <1>6, <2>3, <3>2
      <4>2. PICK p \in Osc : Rank(s, p) = k
        BY <4>1 DEF Exact, n
      <4>3. p # o
        BY <4>1, <4>2
      <4> QED
        BY <1>8, <4>2, <4>3
    <3> QED
      BY <3>1, <3>2
  <2>4. ASSUME NEW p \in Osc, NEW q \in Osc, Rank(t, p) = Rank(t, q), Rank(t, p) # 0
        PROVE  p = q
    <3>1. \A r \in Osc : r # o => Rank(t, r) # n + 1
      BY <1>1, <1>8, <2>1
    <3>2. CASE p = o
      BY <1>8, <2>4, <3>1, <3>2
    <3>3. CASE q = o
      BY <1>8, <2>4, <3>1, <3>3
    <3>4. CASE p # o /\ q # o
      BY <1>8, <2>4, <3>4 DEF Exact
    <3> QED
      BY <3>2, <3>3, <3>4
  <2>5. t.e0 = { p \in Osc : Rank(t, p) = 1 }
    <3>1. s.e0 = { p \in Osc : Rank(s, p) = 1 }
      BY DEF Exact
    <3>2. CASE n = 0
      <4>1. \A p \in Osc : Rank(s, p) = 0
        BY <2>1, <3>2
      <4> QED
        BY <1>6, <1>8, <3>2, <4>1 DEF e0
    <3>3. CASE n # 0
      BY <1>1, <1>6, <1>8, <3>1, <3>3 DEF e0
    <3> QED
      BY <3>2, <3>3
  <2> QED
    BY <2>2, <2>3, <2>4, <2>5 DEF Exact
<1> QED
  BY <1>1, <1>7, <1>8, <1>9, <1>10

(* g is the sequence of values that the first m steps of F lead through.    *)
IsSteps(g, V, v0, F, m) ==
  /\ g \in [0 .. m -> V]
  /\ g[0] = v0
  /\ \A n \in 0 .. (m - 1) : g[n + 1] = F[n][g[n]]

(* A number of steps can be taken one after the other.                      *)
LEMMA StepsExist ==
  ASSUME NEW V, NEW v0 \in V, NEW F \in [Nat -> [V -> V]], NEW m \in Nat
  PROVE  \E g : IsSteps(g, V, v0, F, m)
<1> DEFINE Good(k, g) == /\ g \in [0 .. k -> V]
                         /\ g[0] = v0
                         /\ \A n \in 0 .. (k - 1) : g[n + 1] = F[n][g[n]]
           S == { k \in Nat : \E g \in [0 .. k -> V] : Good(k, g) }
<1>1. 0 \in S
  <2> DEFINE g == [i \in 0 .. 0 |-> v0]
  <2>1. g \in [0 .. 0 -> V] /\ Good(0, g)
    OBVIOUS
  <2> QED
    BY <2>1
<1>2. ASSUME NEW k \in Nat, k \in S PROVE k + 1 \in S
  <2>1. PICK g \in [0 .. k -> V] : Good(k, g)
    BY <1>2
  <2> DEFINE h == [i \in 0 .. (k + 1) |-> IF i = k + 1 THEN F[k][g[k]] ELSE g[i]]
  <2>2. g[k] \in V
    BY <2>1
  <2>3. h \in [0 .. (k + 1) -> V] /\ h[0] = v0
    BY <2>1, <2>2
  <2>4. ASSUME NEW n \in 0 .. k PROVE h[n + 1] = F[n][h[n]]
    BY <2>1
  <2>5. (k + 1) - 1 = k
    OBVIOUS
  <2>6. Good(k + 1, h)
    <3> HIDE DEF h
    <3> QED
      BY <2>3, <2>4, <2>5
  <2> HIDE DEF h, Good
  <2> QED
    BY <2>3, <2>6
<1>3. Nat \subseteq S
  <2> HIDE DEF S
  <2> QED
    BY <1>1, <1>2, NatSetInduction
<1>4. PICK g : Good(m, g)
  BY <1>3
<1> QED
  BY <1>4 DEF IsSteps

(* r has the registers of regs, with those ranked after rank moved up among *)
(* the first n oscillators.                                                 *)
MovedBelow(regs, r, n, rank) ==
  /\ r \in [Osc -> OscState]
  /\ \A p \in Osc :
       /\ r[p].ctl = regs[p].ctl /\ r[p].running = regs[p].running
       /\ r[p].event = regs[p].event
       /\ r[p].has_irq_pending = IF p < n /\ regs[p].has_irq_pending > rank
                                  THEN regs[p].has_irq_pending - 1
                                  ELSE regs[p].has_irq_pending

LEMMA MovedUpFacts ==
  ASSUME NEW r \in [Osc -> OscState], NEW o \in Osc, NEW rank \in Nat,
         NEW t, t = MovedUp(r, o, rank)
  PROVE  /\ t \in [Osc -> OscState]
         /\ \A p \in Osc : p # o => t[p] = r[p]
         /\ t[o].ctl = r[o].ctl /\ t[o].running = r[o].running
         /\ t[o].event = r[o].event
         /\ t[o].has_irq_pending = IF r[o].has_irq_pending > rank
                                    THEN r[o].has_irq_pending - 1
                                    ELSE r[o].has_irq_pending
<1> DEFINE reg == [r[o] EXCEPT !.has_irq_pending = @ - 1]
<1>1. r[o] \in OscState /\ r[o].has_irq_pending \in Nat
  BY DEF OscState
<1>2. CASE r[o].has_irq_pending > rank
  <2>1. r[o].has_irq_pending - 1 \in Nat
    BY <1>1, <1>2
  <2>2. /\ reg \in OscState /\ reg.has_irq_pending = r[o].has_irq_pending - 1
        /\ reg.ctl = r[o].ctl /\ reg.running = r[o].running /\ reg.event = r[o].event
    BY <1>1, <2>1 DEF OscState
  <2>3. t = [r EXCEPT ![o] = reg]
    BY <1>2 DEF MovedUp
  <2> HIDE DEF reg
  <2>4. t \in [Osc -> OscState] /\ t[o] = reg /\ \A p \in Osc : p # o => t[p] = r[p]
    BY <2>2, <2>3
  <2> QED
    BY <1>2, <2>2, <2>4
<1>3. CASE ~ (r[o].has_irq_pending > rank)
  <2>1. t = r
    BY <1>3 DEF MovedUp
  <2> QED
    BY <1>3, <2>1
<1> QED
  BY <1>2, <1>3

LEMMA MovesOn ==
  ASSUME NEW regs \in [Osc -> OscState], NEW rank \in Nat, NEW o \in Osc, NEW r,
         MovedBelow(regs, r, o, rank)
  PROVE  MovedBelow(regs, MovedUp(r, o, rank), o + 1, rank)
<1>1. PICK t : t = MovedUp(r, o, rank)
  OBVIOUS
<1>2. /\ t \in [Osc -> OscState]
      /\ \A p \in Osc : p # o => t[p] = r[p]
      /\ t[o].ctl = r[o].ctl /\ t[o].running = r[o].running
      /\ t[o].event = r[o].event
      /\ t[o].has_irq_pending = IF r[o].has_irq_pending > rank
                                 THEN r[o].has_irq_pending - 1
                                 ELSE r[o].has_irq_pending
  BY <1>1, MovedUpFacts DEF MovedBelow
<1>3. o \in Int /\ o < o + 1 /\ ~ (o < o) /\ \A p \in Osc : p # o => (p < o + 1 <=> p < o)
  BY OscFacts
<1>4. r[o].has_irq_pending = regs[o].has_irq_pending
  BY <1>3 DEF MovedBelow
<1>5. MovedBelow(regs, t, o + 1, rank)
  <2> SUFFICES ASSUME NEW p \in Osc
               PROVE  /\ t[p].ctl = regs[p].ctl /\ t[p].running = regs[p].running
                      /\ t[p].event = regs[p].event
                      /\ t[p].has_irq_pending =
                           IF p < o + 1 /\ regs[p].has_irq_pending > rank
                             THEN regs[p].has_irq_pending - 1
                             ELSE regs[p].has_irq_pending
    BY <1>2 DEF MovedBelow
  <2>1. CASE p = o
    BY <1>2, <1>3, <1>4, <2>1 DEF MovedBelow
  <2>2. CASE p # o
    <3>1. p < o + 1 <=> p < o
      BY <1>3, <2>2
    <3> QED
      BY <1>2, <2>2, <3>1 DEF MovedBelow
  <2> QED
    BY <2>1, <2>2
<1> QED
  BY <1>1, <1>5

(* f moves up one oscillator after the other.                               *)
IsClosed(f, s, rank) ==
  f = [n \in 0 .. s.num_osc_en |->
         IF n = 0 THEN s.regs ELSE MovedUp(f[n - 1], n - 1, rank)]

(* The loop of the removal, as it leaves all oscillators.                   *)
LEMMA ClosedUpFacts ==
  ASSUME NEW s, s.regs \in [Osc -> OscState], s.num_osc_en \in 1 .. NumOsc,
         NEW rank \in Nat
  PROVE  MovedBelow(s.regs, ClosedUp(s, rank), s.num_osc_en, rank)
<1> DEFINE V == [Osc -> OscState]
           m == s.num_osc_en
           One(n, r) == MovedUp(r, n, rank)
           F == [n \in Nat |-> [r \in V |-> IF n < m THEN One(n, r) ELSE r]]
<1>1. m \in Nat /\ m <= NumOsc /\ \A n \in Nat : n < m => n \in Osc
  BY OscFacts DEF Osc
<1>2. ASSUME NEW n \in Nat, n < m, NEW r \in V PROVE One(n, r) \in V
  <2>1. n \in Osc
    BY <1>1, <1>2
  <2> QED
    BY <2>1, MovedUpFacts
<1>3. F \in [Nat -> [V -> V]]
  <2> HIDE DEF One, m, V
  <2> QED
    BY <1>2
<1>4. ASSUME NEW n \in Nat, n < m, NEW r \in V PROVE F[n][r] = One(n, r)
  <2> HIDE DEF One, m, V
  <2> QED
    BY <1>4
<1> HIDE DEF F
<1>a. PICK g : IsSteps(g, V, s.regs, F, m)
  <2> HIDE DEF m
  <2> QED
    BY <1>1, <1>3, StepsExist
<1>5. /\ g \in [0 .. m -> V] /\ g[0] = s.regs
      /\ \A n \in 0 .. (m - 1) : g[n + 1] = F[n][g[n]]
  BY <1>a DEF IsSteps
<1>6. IsClosed(g, s, rank)
  <2>1. ASSUME NEW n \in 0 .. m
        PROVE  g[n] = IF n = 0 THEN s.regs ELSE One(n - 1, g[n - 1])
    <3>1. CASE n = 0
      BY <1>5, <3>1
    <3>2. CASE n # 0
      <4>1. /\ n - 1 \in 0 .. (m - 1) /\ (n - 1) + 1 = n
            /\ n - 1 \in Nat /\ n - 1 < m /\ n - 1 \in 0 .. m
        BY <1>1, <3>2
      <4>2. g[n] = F[n - 1][g[n - 1]] /\ g[n - 1] \in V
        BY <1>5, <4>1
      <4>3. F[n - 1][g[n - 1]] = One(n - 1, g[n - 1])
        <5> HIDE DEF One, m, V
        <5> QED
          BY <1>4, <4>1, <4>2
      <4> QED
        BY <3>2, <4>2, <4>3
    <3> QED
      BY <3>1, <3>2
  <2> DEFINE h == [n \in 0 .. m |-> IF n = 0 THEN s.regs ELSE One(n - 1, g[n - 1])]
  <2>2. \A n \in 0 .. m : g[n] = h[n]
    <3> HIDE DEF One, m
    <3> QED
      BY <2>1
  <2>3. g = [n \in 0 .. m |-> g[n]] /\ h = [n \in 0 .. m |-> h[n]]
    <3> HIDE DEF One, m, V
    <3> QED
      BY <1>5
  <2>4. g = h
    <3> HIDE DEF h, m
    <3> QED
      BY <2>2, <2>3
  <2> QED
    BY <2>4 DEF IsClosed
<1> DEFINE closed == CHOOSE f : IsClosed(f, s, rank)
<1>7. IsClosed(closed, s, rank) /\ ClosedUp(s, rank) = closed[m]
  BY <1>6 DEF ClosedUp, IsClosed
<1> HIDE DEF closed
<1>8. ASSUME NEW n \in 0 .. m
      PROVE  closed[n] = IF n = 0 THEN s.regs ELSE One(n - 1, closed[n - 1])
  BY <1>7 DEF IsClosed
<1> DEFINE U == { n \in Nat : n <= m => MovedBelow(s.regs, closed[n], n, rank) }
<1>9. 0 \in U
  <2>1. 0 \in 0 .. m
    BY <1>1
  <2>2. closed[0] = s.regs
    BY <1>8, <2>1
  <2>3. \A p \in Osc : ~ (p < 0)
    BY OscFacts
  <2>4. MovedBelow(s.regs, s.regs, 0, rank)
    BY <2>3 DEF MovedBelow
  <2> QED
    BY <2>2, <2>4
<1>10. ASSUME NEW n \in Nat, n \in U PROVE n + 1 \in U
  <2> SUFFICES ASSUME n + 1 <= m PROVE MovedBelow(s.regs, closed[n + 1], n + 1, rank)
    OBVIOUS
  <2>1. n <= m /\ n < m /\ n + 1 \in 0 .. m /\ (n + 1) - 1 = n /\ n + 1 # 0
    BY <1>1
  <2>2. n \in Osc
    BY <1>1, <2>1
  <2>3. MovedBelow(s.regs, closed[n], n, rank)
    BY <1>10, <2>1
  <2>4. closed[n + 1] = MovedUp(closed[n], n, rank)
    BY <1>8, <2>1
  <2> QED
    BY <2>2, <2>3, <2>4, MovesOn
<1>11. m \in U
  <2>1. Nat \subseteq U
    <3> HIDE DEF U
    <3> QED
      BY <1>9, <1>10, NatSetInduction
  <2> QED
    BY <1>1, <2>1
<1> QED
  BY <1>1, <1>7, <1>11

(* A set of oscillators has a last one.                                     *)
LEMMA HasLargest ==
  ASSUME NEW S \in SUBSET Osc, S # {}
  PROVE  \E x \in S : \A y \in S : x >= y
<1> DEFINE T == { n \in Nat : (\E x \in S : x + n >= NumOsc) =>
                               \E x \in S : \A y \in S : x >= y }
<1>1. 0 \in T
  <2>1. \A x \in S : ~ (x + 0 >= NumOsc)
    BY OscFacts
  <2> QED
    BY <2>1
<1>2. ASSUME NEW n \in Nat, n \in T PROVE n + 1 \in T
  <2> SUFFICES ASSUME NEW x \in S, x + (n + 1) >= NumOsc
               PROVE  \E y \in S : \A z \in S : y >= z
    OBVIOUS
  <2>1. CASE \A z \in S : x >= z
    BY <2>1
  <2>2. CASE \E z \in S : ~ (x >= z)
    <3>1. PICK z \in S : ~ (x >= z)
      BY <2>2
    <3>a. x \in Int /\ z \in Int /\ NumOsc \in Int
      BY OscFacts
    <3>2. z + n >= NumOsc
      BY <3>1, <3>a
    <3> QED
      BY <1>2, <3>2
  <2> QED
    BY <2>1, <2>2
<1>3. NumOsc \in T
  <2>1. Nat \subseteq T
    <3> HIDE DEF T
    <3> QED
      BY <1>1, <1>2, NatSetInduction
  <2> QED
    BY <2>1, OscFacts
<1> QED
  BY <1>3, OscFacts

(* What removing an interrupt makes of the other oscillators' ranks.        *)
RanksClosed(s, t, o) ==
  \A p \in Osc : p # o =>
    Rank(t, p) = IF p < s.num_osc_en /\ Rank(s, p) > Rank(s, o)
                   THEN Rank(s, p) - 1 ELSE Rank(s, p)

(* What 0xe0 names then.                                                    *)
FirstNamed(s, t, o) ==
  t.e0 = IF Rank(s, o) # 1 THEN s.e0
         ELSE LET first == { i \in 0 .. s.num_osc_en - 1 : Rank(t, i) = 1 }
              IN IF first = {} THEN {} ELSE {Max(first)}

LEMMA RemovedFacts ==
  ASSUME NEW s \in DocState, Counted(s), NEW o \in Osc, Rank(s, o) # 0,
         NEW t, t = Removed(s, o)
  PROVE  /\ SameRegs(s, t) /\ t.halted = s.halted
         /\ Rank(t, o) = 0
         /\ RanksClosed(s, t, o)
         /\ t.num_interrupting = s.num_interrupting - 1
         /\ t.irq <=> s.irq /\ t.num_interrupting # 0
         /\ FirstNamed(s, t, o)
<1> DEFINE rank == Rank(s, o)
           n == s.num_interrupting
           gone == [s EXCEPT !.regs[o].has_irq_pending = 0, !.num_interrupting = @ - 1]
           regs == ClosedUp(gone, rank)
           first == { i \in 0 .. s.num_osc_en - 1 : regs[i].has_irq_pending = 1 }
           e0 == IF rank # 1 THEN s.e0 ELSE IF first = {} THEN {} ELSE {Max(first)}
           irq == s.irq /\ n - 1 # 0
           reg == [s.regs[o] EXCEPT !.has_irq_pending = 0]
<1>1. n - 1 \in Nat
  <2>1. Cardinality(Pending(s)) # 0 /\ Cardinality(Pending(s)) \in Nat
    BY PendingFinite
  <2> QED
    BY <2>1 DEF Counted, DocState
<1>2. /\ gone = [s EXCEPT !.regs = [s.regs EXCEPT ![o] = reg], !.num_interrupting = n - 1]
      /\ gone.regs = [s.regs EXCEPT ![o] = reg] /\ gone.num_osc_en = s.num_osc_en
      /\ gone.num_interrupting = n - 1
  BY DEF DocState
<1>3. /\ reg \in OscState /\ reg.has_irq_pending = 0 /\ rank \in Nat
      /\ reg.ctl = s.regs[o].ctl /\ reg.running = s.regs[o].running
      /\ reg.event = s.regs[o].event
  BY RegTypes DEF OscState, Rank
<1>4. s.regs \in [Osc -> OscState]
  BY DEF DocState
<1>5. t = [s EXCEPT !.regs = regs, !.num_interrupting = n - 1, !.irq = irq, !.e0 = e0]
  BY <1>2 DEF Removed, Rank, DocState
<1> DEFINE goneRegs == [s.regs EXCEPT ![o] = reg]
<1> HIDE DEF gone, reg
<1>6. /\ goneRegs \in [Osc -> OscState] /\ goneRegs[o] = reg
      /\ \A p \in Osc : p # o => goneRegs[p] = s.regs[p]
  BY <1>3, <1>4
<1>7. gone.regs = goneRegs
  BY <1>2
<1> HIDE DEF goneRegs
<1>8. MovedBelow(goneRegs, regs, s.num_osc_en, rank)
  <2>1. gone.num_osc_en = s.num_osc_en /\ s.num_osc_en \in 1 .. NumOsc
    BY <1>2 DEF DocState
  <2>2. gone.regs \in [Osc -> OscState]
    BY <1>6, <1>7
  <2>3. MovedBelow(gone.regs, ClosedUp(gone, rank), gone.num_osc_en, rank)
    <3> HIDE DEF rank
    <3> QED
      BY <1>3, <2>1, <2>2, ClosedUpFacts
  <2> QED
    BY <1>7, <2>1, <2>3
<1>9. regs \in [Osc -> OscState]
  BY <1>8 DEF MovedBelow
<1>10. s.e0 \in SUBSET Osc /\ s.irq \in BOOLEAN /\ s.num_osc_en \in 1 .. NumOsc
  BY DEF DocState
<1> HIDE DEF regs, rank, n
<1>11. e0 \in SUBSET Osc
  <2>1. first \subseteq Osc
    BY <1>10, OscFacts DEF Osc
  <2>2. CASE first # {}
    <3>1. first \subseteq Nat /\ \A i \in first : i <= s.num_osc_en
      BY <1>10, OscFacts
    <3>2. Max(first) \in first
      <4>1. \E x \in first : \A y \in first : x >= y
        BY <1>10, <2>1, <2>2, HasLargest
      <4> HIDE DEF first
      <4> QED
        BY <4>1 DEF Max
    <3> HIDE DEF first
    <3> QED
      BY <1>10, <2>1, <3>2
  <2>3. CASE first = {}
    BY <1>10, <2>3
  <2> QED
    BY <2>2, <2>3
<1>12. irq \in BOOLEAN
  BY <1>10
<1> HIDE DEF e0, irq
<1>13. /\ t \in DocState /\ t.regs = regs /\ t.num_interrupting = n - 1 /\ t.irq = irq
       /\ t.e0 = e0 /\ t.num_osc_en = s.num_osc_en /\ t.halted = s.halted
  BY <1>1, <1>5, <1>9, <1>11, <1>12 DEF DocState
<1>14. SameRegs(s, t)
  BY <1>3, <1>6, <1>8, <1>13 DEF SameRegs, MovedBelow
<1>15. Rank(t, o) = 0
  <2>1. ~ (0 > rank)
    BY <1>3
  <2> QED
    BY <1>3, <1>6, <1>8, <1>13, <2>1 DEF Rank, MovedBelow
<1>16. RanksClosed(s, t, o)
  BY <1>6, <1>8, <1>13 DEF RanksClosed, Rank, rank, MovedBelow
<1>17. first = { i \in 0 .. s.num_osc_en - 1 : Rank(t, i) = 1 }
  BY <1>13 DEF Rank
<1>18. FirstNamed(s, t, o)
  BY <1>13, <1>17 DEF FirstNamed, e0, rank
<1>19. t.irq <=> s.irq /\ t.num_interrupting # 0
  BY <1>13 DEF irq
<1> QED
  BY <1>13, <1>14, <1>15, <1>16, <1>18, <1>19 DEF n

(* Closing the ranks up keeps each interrupt pending but the one removed.   *)
LEMMA ClosedUpPending ==
  ASSUME NEW s \in DocState, NEW o \in Osc, NEW t \in DocState, Rank(s, o) # 0,
         RanksClosed(s, t, o), Rank(t, o) = 0
  PROVE  /\ \A p \in Osc : p # o => (Rank(t, p) # 0 <=> Rank(s, p) # 0)
         /\ Pending(t) = Pending(s) \ {o} /\ o \in Pending(s)
<1>1. \A p \in Osc : p # o => (Rank(t, p) # 0 <=> Rank(s, p) # 0)
  <2> SUFFICES ASSUME NEW p \in Osc, p # o
               PROVE  Rank(t, p) # 0 <=> Rank(s, p) # 0
    OBVIOUS
  <2>1. Rank(s, p) \in Nat /\ Rank(s, o) \in Nat
    BY RegTypes DEF Rank
  <2>2. Rank(t, p) = IF p < s.num_osc_en /\ Rank(s, p) > Rank(s, o)
                       THEN Rank(s, p) - 1 ELSE Rank(s, p)
    BY DEF RanksClosed
  <2> QED
    BY <2>1, <2>2
<1> QED
  BY <1>1, PendingFinite

LEMMA RemovedCounted ==
  ASSUME NEW s \in DocState, Counted(s), NEW o \in Osc, Rank(s, o) # 0,
         NEW t, t = Removed(s, o)
  PROVE  Counted(t)
<1>1. /\ t \in DocState /\ t.halted = s.halted
      /\ t.irq <=> s.irq /\ t.num_interrupting # 0
      /\ t.num_interrupting = s.num_interrupting - 1
      /\ Pending(t) = Pending(s) \ {o} /\ o \in Pending(s)
  BY RemovedFacts, ClosedUpPending DEF SameRegs
<1>2. Cardinality(Pending(t)) = Cardinality(Pending(s)) - 1
  BY <1>1, PendingFinite, FS_RemoveElement
<1>3. /\ Cardinality(Pending(t)) \in Nat /\ Cardinality(Pending(s)) \in Nat
      /\ (Cardinality(Pending(t)) = 0 <=> Pending(t) = {})
      /\ s.num_interrupting \in Nat /\ s.irq \in BOOLEAN
  BY PendingFinite DEF DocState
<1>4. s.num_interrupting >= Cardinality(Pending(s))
  BY DEF Counted
<1>5. ASSUME t.halted = {}
      PROVE  /\ t.irq <=> Pending(t) # {}
             /\ t.num_interrupting = Cardinality(Pending(t))
  <2>1. s.irq /\ s.num_interrupting = Cardinality(Pending(s))
    BY <1>1, <1>5 DEF Counted
  <2> QED
    BY <1>1, <1>2, <1>3, <2>1
<1>6. t.irq \in BOOLEAN
  BY <1>1 DEF DocState
<1> QED
  BY <1>1, <1>2, <1>3, <1>4, <1>5, <1>6 DEF Counted

(* The ranks stay those of a queue, if all others with an interrupt pending *)
(* are enabled: the code only moves up those.                               *)
LEMMA RemovedExact ==
  ASSUME NEW s \in DocState, Counted(s), NEW o \in Osc, Rank(s, o) # 0,
         NEW t, t = Removed(s, o), Exact(s),
         \A p \in Osc : p # o /\ Rank(s, p) # 0 => p < s.num_osc_en
  PROVE  Exact(t)
<1> DEFINE n == s.num_interrupting
           r == Rank(s, o)
<1>1. /\ t \in DocState /\ t.num_interrupting = n - 1 /\ Rank(t, o) = 0
      /\ RanksClosed(s, t, o)
      /\ FirstNamed(s, t, o)
  BY RemovedFacts DEF SameRegs
<1>2. n \in Nat /\ r \in 1 .. n
  <2>1. n \in Nat
    BY DEF DocState
  <2>2. r \in 0 .. n
    BY DEF Exact
  <2> QED
    BY <2>1, <2>2
<1>3. ASSUME NEW p \in Osc
      PROVE  /\ Rank(s, p) \in 0 .. n
             /\ Rank(s, p) = r => p = o
             /\ Rank(s, p) < r => Rank(t, p) = Rank(s, p)
             /\ Rank(s, p) > r => Rank(t, p) = Rank(s, p) - 1
  <2>1. Rank(s, p) \in 0 .. n /\ (Rank(s, p) = r => p = o)
    BY <1>2 DEF Exact
  <2>2. CASE p = o
    BY <1>2, <2>1, <2>2
  <2>3. CASE p # o
    <3>1. Rank(s, p) # 0 => p < s.num_osc_en
      BY <2>3
    <3>2. Rank(t, p) = IF p < s.num_osc_en /\ Rank(s, p) > r
                         THEN Rank(s, p) - 1 ELSE Rank(s, p)
      BY <1>1, <2>3 DEF RanksClosed
    <3> QED
      BY <1>2, <2>1, <3>1, <3>2
  <2> QED
    BY <2>2, <2>3
<1> HIDE DEF n, r
<1>4. \A p \in Osc : Rank(t, p) \in 0 .. t.num_interrupting
  <2> SUFFICES ASSUME NEW p \in Osc PROVE Rank(t, p) \in 0 .. n - 1
    BY <1>1
  <2>1. CASE p = o
    BY <1>1, <1>2, <2>1
  <2>2. CASE p # o
    BY <1>2, <1>3, <2>2
  <2> QED
    BY <2>1, <2>2
<1>5. ASSUME NEW k \in 1 .. t.num_interrupting PROVE \E p \in Osc : Rank(t, p) = k
  <2>1. k \in Int /\ 1 <= k /\ k <= n - 1
    BY <1>1, <1>2, <1>5
  <2>2. CASE k < r
    <3>1. k \in 1 .. n
      BY <1>2, <2>1
    <3>2. PICK p \in Osc : Rank(s, p) = k
      BY <3>1 DEF Exact, n
    <3> QED
      BY <1>3, <2>2, <3>2
  <2>3. CASE k >= r
    <3>1. k + 1 \in 1 .. n
      BY <1>2, <2>1
    <3>2. PICK p \in Osc : Rank(s, p) = k + 1
      BY <3>1 DEF Exact, n
    <3>3. Rank(s, p) > r /\ (k + 1) - 1 = k
      BY <1>2, <2>1, <2>3, <3>2
    <3> QED
      BY <1>3, <3>2, <3>3
  <2> QED
    BY <1>2, <2>1, <2>2, <2>3
<1>6. ASSUME NEW p \in Osc, NEW q \in Osc, Rank(t, p) = Rank(t, q), Rank(t, p) # 0
      PROVE  p = q
  <2>1. p # o /\ q # o
    BY <1>1, <1>6
  <2>2. Rank(s, p) # r /\ Rank(s, q) # r
    BY <1>3, <2>1
  <2>3. Rank(s, p) = Rank(s, q) /\ Rank(s, p) # 0
    BY <1>2, <1>3, <1>6, <2>2
  <2> QED
    BY <2>3 DEF Exact
<1>7. t.e0 = { p \in Osc : Rank(t, p) = 1 }
  <2>1. CASE r # 1
    <3>1. t.e0 = { p \in Osc : Rank(s, p) = 1 }
      BY <1>1, <2>1 DEF Exact, FirstNamed, r
    <3>2. ASSUME NEW p \in Osc PROVE Rank(s, p) = 1 <=> Rank(t, p) = 1
      BY <1>2, <1>3, <2>1, <1>1
    <3> QED
      BY <3>1, <3>2
  <2>2. CASE r = 1
    <3> DEFINE first == { i \in 0 .. s.num_osc_en - 1 : Rank(t, i) = 1 }
    <3>1. t.e0 = IF first = {} THEN {} ELSE {Max(first)}
      BY <1>1, <2>2 DEF FirstNamed, r
    <3>2. 0 .. s.num_osc_en - 1 \subseteq Osc
      BY OscFacts DEF Osc, DocState
    <3>3. first = { p \in Osc : Rank(t, p) = 1 }
      <4>1. ASSUME NEW p \in Osc, Rank(t, p) = 1 PROVE p \in 0 .. s.num_osc_en - 1
        <5>1. p # o /\ Rank(s, p) # 0
          BY <1>1, <1>2, <1>3, <4>1
        <5> QED
          BY <5>1, OscFacts DEF Osc, DocState
      <4> QED
        BY <3>2, <4>1
    <3> HIDE DEF first
    <3>4. ASSUME NEW p \in first PROVE first = {p}
      BY <1>6, <3>3, <3>4
    <3>5. ASSUME NEW p \in first PROVE Max(first) = p
      <4>1. first = {p} /\ p \in Nat
        BY <3>3, <3>4, OscFacts
      <4> QED
        BY <4>1 DEF Max
    <3> QED
      BY <3>1, <3>3, <3>4, <3>5
  <2> QED
    BY <2>1, <2>2
<1> QED
  BY <1>4, <1>5, <1>6, <1>7 DEF Exact

(* Moving up the enabled oscillators is enough when o goes.                 *)
Removable(s, o) ==
  Rank(s, o) = 0 \/ \A p \in Osc : p # o /\ Rank(s, p) # 0 => p < s.num_osc_en

IrqGone(s, o, t) ==
  t \in { doc_remove_sound_irq(s, o, must) : must \in BOOLEAN }

LEMMA IrqRemoved ==
  ASSUME NEW s \in DocState, Counted(s), NEW o \in Osc, NEW t,
         IrqGone(s, o, t)
  PROVE  /\ SameRegs(s, t)
         /\ Rank(t, o) = 0
         /\ \A p \in Osc : p # o => (Rank(t, p) # 0 <=> Rank(s, p) # 0)
         /\ Counted(t)
         /\ Exact(s) /\ Removable(s, o) => Exact(t)
<1> DEFINE after == IF Rank(s, o) # 0 THEN Removed(s, o) ELSE s
<1>1. PICK u : /\ u = after \/ u = Noted(after, "no interrupt")
               /\ t = u \/ t = Noted(u, "interrupt left")
  BY DEF IrqGone, doc_remove_sound_irq, Halts, Noted, Rank
<1>2. /\ SameRegs(s, after) /\ Counted(after) /\ Rank(after, o) = 0
      /\ \A p \in Osc : p # o => (Rank(after, p) # 0 <=> Rank(s, p) # 0)
  <2>1. CASE Rank(s, o) # 0
    BY <2>1, RemovedFacts, RemovedCounted, ClosedUpPending DEF SameRegs
  <2>2. CASE Rank(s, o) = 0
    BY <2>2 DEF SameRegs
  <2> QED
    BY <2>1, <2>2
<1>3. Exact(s) /\ Removable(s, o) => Exact(after)
  <2>1. CASE Rank(s, o) # 0
    BY <2>1, RemovedExact DEF Removable
  <2>2. CASE Rank(s, o) = 0
    BY <2>2
  <2> QED
    BY <2>1, <2>2
<1> HIDE DEF after
<1>4. "no interrupt" \in Checks /\ "interrupt left" \in Checks
  BY DEF Checks
<1>5. u \in DocState /\ SameRanks(after, u) /\ u.regs = after.regs
  BY <1>1, <1>2, <1>4, NotedFacts DEF SameRegs
<1>6. t \in DocState /\ SameRanks(u, t) /\ t.regs = u.regs
  BY <1>1, <1>4, <1>5, NotedFacts, ZenonT(30)
<1>7. SameRanks(after, t)
  BY <1>5, <1>6 DEF SameRanks
<1>8. Counted(t) /\ (Exact(after) => Exact(t))
  BY <1>2, <1>7, RanksCarryOver
<1>9. SameRegs(s, t)
  BY <1>2, <1>5, <1>6, <1>7 DEF SameRegs, SameRanks
<1>10. \A p \in Osc : Rank(t, p) = Rank(after, p)
  BY <1>5, <1>6 DEF Rank
<1> QED
  BY <1>2, <1>3, <1>8, <1>9, <1>10

(* Interrupt and event of an oscillator go: what it does to o, and to all   *)
(* others.                                                                  *)
LEMMA Quieted ==
  ASSUME NEW s \in DocState, Counted(s), NEW o \in Osc, NEW t, t = Quiet(s, o)
  PROVE  /\ t \in DocState
         /\ t.num_osc_en = s.num_osc_en /\ s.halted \subseteq t.halted
         /\ \A p \in Osc : /\ t.regs[p].ctl = s.regs[p].ctl
                           /\ t.regs[p].running = s.regs[p].running
                           /\ p # o => /\ t.regs[p].event = s.regs[p].event
                                       /\ Rank(t, p) # 0 <=> Rank(s, p) # 0
         /\ Rank(t, o) = 0
         /\ Counted(t)
         /\ Exact(s) /\ Removable(s, o) => Exact(t)
<1>a. PICK u : u = doc_remove_sound_irq(s, o, FALSE)
  OBVIOUS
<1>0. IrqGone(s, o, u)
  BY <1>a DEF IrqGone
<1>1. /\ SameRegs(s, u) /\ Rank(u, o) = 0 /\ Counted(u)
      /\ \A p \in Osc : p # o => (Rank(u, p) # 0 <=> Rank(s, p) # 0)
      /\ Exact(s) /\ Removable(s, o) => Exact(u)
  BY <1>0, IrqRemoved
<1>2. t = doc_remove_sound_event(u, o)
  BY <1>a DEF Quiet
<1>3. u \in DocState
  BY <1>1 DEF SameRegs
<1>4. /\ Changed(u, t, o) /\ t.regs[o].ctl = u.regs[o].ctl
      /\ t.regs[o].running = u.regs[o].running
  BY <1>2, <1>3, EventRemoved
<1>5. t \in DocState /\ SameRanks(u, t) /\ \A p \in Osc : p # o => t.regs[p] = u.regs[p]
  BY <1>4 DEF Changed
<1>6. Counted(t) /\ (Exact(u) => Exact(t))
  BY <1>1, <1>5, RanksCarryOver
<1>7. \A p \in Osc : Rank(t, p) = Rank(u, p)
  BY <1>5 DEF SameRanks
<1>8. t.num_osc_en = s.num_osc_en /\ s.halted \subseteq t.halted
  BY <1>1, <1>5 DEF SameRegs, SameRanks
<1>9. \A p \in Osc : /\ t.regs[p].ctl = s.regs[p].ctl
                     /\ t.regs[p].running = s.regs[p].running
                     /\ p # o => t.regs[p].event = s.regs[p].event
  BY <1>1, <1>4, <1>5 DEF SameRegs
<1> QED
  BY <1>1, <1>5, <1>6, <1>7, <1>8, <1>9

(***************************************************************************)
(* Starting.                                                               *)
(***************************************************************************)

(* What starting oscillators does to any of them.                           *)
Starts(s, t) ==
  /\ t \in DocState
  /\ SameRanks(s, t)
  /\ \A p \in Osc :
       /\ t.regs[p].ctl.ie = s.regs[p].ctl.ie
       /\ Unawaited(t, p) => Unawaited(s, p)
       /\ s.regs[p].running => t.regs[p].running
       /\ t.regs[p].running => s.regs[p].running \/ p < s.num_osc_en

LEMMA RunsFacts ==
  ASSUME NEW s \in DocState, NEW o \in Osc, NEW t, t = Runs(s, o)
  PROVE  /\ Changed(s, t, o)
         /\ t.regs[o].ctl = s.regs[o].ctl
         /\ t.regs[o].running
         /\ t.regs[o].event = s.regs[o].event
<1>a. PICK runs \in BOOLEAN : runs = TRUE
  OBVIOUS
<1>1. PICK u : RunIs(s, o, runs, u)
  BY DEF RunIs
<1>2. /\ Changed(s, u, o) /\ u.regs[o].ctl = s.regs[o].ctl
      /\ u.regs[o].running = runs /\ u.regs[o].event = s.regs[o].event
  BY <1>1, RunWritten
<1>3. t = u \/ t = Noted(u, "already running")
  BY <1>a, <1>1 DEF Runs, Halts, Noted, RunIs
<1>4. "already running" \in Checks /\ u \in DocState
  BY <1>2 DEF Checks, Changed
<1>5. t \in DocState /\ SameRanks(u, t) /\ t.regs = u.regs
  BY <1>3, <1>4, NotedFacts
<1>6. Changed(s, t, o)
  BY <1>2, <1>5 DEF Changed, SameRanks
<1> QED
  BY <1>a, <1>2, <1>5, <1>6

LEMMA StoppedFacts ==
  ASSUME NEW s \in DocState, NEW o \in Osc, NEW t, t = Stopped(s, o)
  PROVE  /\ Changed(s, t, o)
         /\ t.regs[o].ctl.halt
         /\ t.regs[o].ctl.ie = s.regs[o].ctl.ie
         /\ t.regs[o].ctl.mode = s.regs[o].ctl.mode
         /\ t.regs[o].running = s.regs[o].running
         /\ t.regs[o].event = s.regs[o].event
<1>1. PICK halt \in BOOLEAN : halt = TRUE
  OBVIOUS
<1>2. HaltIs(s, o, halt, t)
  BY <1>1 DEF Stopped, HaltIs
<1>3. /\ Changed(s, t, o)
      /\ t.regs[o].ctl.halt = halt
      /\ t.regs[o].ctl.ie = s.regs[o].ctl.ie
      /\ t.regs[o].ctl.mode = s.regs[o].ctl.mode
      /\ t.regs[o].running = s.regs[o].running
      /\ t.regs[o].event = s.regs[o].event
  BY <1>2, HaltWritten
<1> QED
  BY <1>1, <1>3

(* Started as the code does, but for the partner.                           *)
LEMMA StartedFacts ==
  ASSUME NEW s \in DocState, NEW o \in Osc, NEW t, t = Started(s, o)
  PROVE  /\ Changed(s, t, o)
         /\ t.regs[o].ctl.ie = s.regs[o].ctl.ie
         /\ t.regs[o].ctl.mode = s.regs[o].ctl.mode
         /\ o < s.num_osc_en =>
              /\ t.regs[o].ctl = s.regs[o].ctl /\ t.regs[o].running
              /\ t.regs[o].ctl.ie => t.regs[o].event
         /\ o >= s.num_osc_en =>
              /\ t.regs[o].ctl.halt
              /\ t.regs[o].running = s.regs[o].running
              /\ t.regs[o].event = s.regs[o].event
<1>1. CASE o >= s.num_osc_en
  <2>1. t = Stopped(s, o) /\ ~ (o < s.num_osc_en)
    BY <1>1, OscFacts DEF Started
  <2> QED
    BY <1>1, <2>1, StoppedFacts
<1>2. CASE ~ (o >= s.num_osc_en)
  <2>1. PICK u : u = Runs(s, o)
    OBVIOUS
  <2>2. t = doc_wave_end_estimate(u, o)
    BY <1>2, <2>1 DEF Started
  <2>3. Changed(s, u, o) /\ u.regs[o].ctl = s.regs[o].ctl /\ u.regs[o].running
    BY <2>1, RunsFacts
  <2>4. u \in DocState
    BY <2>3 DEF Changed
  <2>5. /\ Changed(u, t, o) /\ t.regs[o].ctl = u.regs[o].ctl
        /\ t.regs[o].running = u.regs[o].running
        /\ u.regs[o].ctl.ie => t.regs[o].event
    BY <2>2, <2>4, EndEstimated
  <2>6. Changed(s, t, o)
    BY <2>3, <2>5, ChangedTwice
  <2> QED
    BY <1>2, <2>3, <2>5, <2>6
<1> QED
  BY <1>1, <1>2

(* An oscillator that is not halted may be started, one that is disabled    *)
(* only if it does not run.                                                 *)
LEMMA StartStarts ==
  ASSUME NEW s \in DocState, Unhalted(s), NEW o \in Osc, ~ s.regs[o].ctl.halt,
         o >= s.num_osc_en => ~ s.regs[o].running,
         NEW t, t = doc_start_sound(s, o)
  PROVE  /\ Starts(s, t) /\ Unhalted(t)
         /\ o < s.num_osc_en => ~ Unawaited(t, o)
<1> DEFINE P == Partner(o)
           Pairs == /\ o < s.num_osc_en
                    /\ s.regs[o].ctl.mode = Sync /\ o % 2 = 0
                    /\ s.regs[P].ctl.mode = Sync /\ s.regs[P].ctl.halt
<1>0. P \in Osc /\ P # o
  BY OscFacts
<1>1. CASE ~ Pairs
  <2>1. t = Started(s, o)
    BY <1>1 DEF doc_start_sound
  <2>2. /\ Changed(s, t, o) /\ t.regs[o].ctl.ie = s.regs[o].ctl.ie
        /\ o < s.num_osc_en =>
             /\ t.regs[o].ctl = s.regs[o].ctl /\ t.regs[o].running
             /\ t.regs[o].ctl.ie => t.regs[o].event
        /\ o >= s.num_osc_en => t.regs[o].running = s.regs[o].running
    BY <2>1, StartedFacts
  <2>3. o < s.num_osc_en \/ o >= s.num_osc_en
    BY OscFacts
  <2>4. Starts(s, t)
    BY <2>2, <2>3 DEF Starts, Changed, Unawaited
  <2>5. Unhalted(t)
    BY <2>2, <2>3 DEF Unhalted, Changed
  <2>6. o < s.num_osc_en => ~ Unawaited(t, o)
    BY <2>2 DEF Unawaited
  <2> QED
    BY <2>4, <2>5, <2>6
<1>2. CASE Pairs
  <2>1. PICK a : a = Runs(s, o)
    OBVIOUS
  <2>a. PICK halt \in BOOLEAN : halt = FALSE
    OBVIOUS
  <2>2. PICK u : HaltIs(a, P, halt, u)
    BY DEF HaltIs
  <2>3. PICK v : v = Started(u, P)
    OBVIOUS
  <2>4. t = doc_wave_end_estimate(v, o)
    BY <1>2, <2>a, <2>1, <2>2, <2>3 DEF doc_start_sound, HaltIs
  <2>5. /\ Changed(s, a, o) /\ a \in DocState /\ a.regs[o].ctl = s.regs[o].ctl
        /\ a.regs[o].running
    BY <2>1, RunsFacts DEF Changed
  <2>6. /\ Changed(a, u, P) /\ u \in DocState /\ ~ u.regs[P].ctl.halt
        /\ u.regs[P].ctl.ie = a.regs[P].ctl.ie
        /\ u.regs[P].running = a.regs[P].running
    BY <1>0, <2>a, <2>2, <2>5, HaltWritten DEF Changed
  <2>7. /\ Changed(u, v, P) /\ v \in DocState /\ v.regs[P].ctl.ie = u.regs[P].ctl.ie
        /\ P < u.num_osc_en =>
              /\ v.regs[P].ctl = u.regs[P].ctl /\ v.regs[P].running
              /\ v.regs[P].ctl.ie => v.regs[P].event
        /\ P >= u.num_osc_en => v.regs[P].running = u.regs[P].running
    <3>1. u \in DocState /\ P \in Osc /\ v = Started(u, P)
      BY <1>0, <2>3, <2>6
    <3> HIDE DEF P
    <3>2. /\ Changed(u, v, P) /\ v.regs[P].ctl.ie = u.regs[P].ctl.ie
          /\ P < u.num_osc_en =>
                /\ v.regs[P].ctl = u.regs[P].ctl /\ v.regs[P].running
                /\ v.regs[P].ctl.ie => v.regs[P].event
          /\ P >= u.num_osc_en => v.regs[P].running = u.regs[P].running
      BY ONLY <3>1, StartedFacts
    <3> QED
      BY ONLY <3>2 DEF Changed
  <2>8. /\ Changed(v, t, o) /\ t \in DocState /\ t.regs[o].ctl = v.regs[o].ctl
        /\ t.regs[o].running = v.regs[o].running
        /\ v.regs[o].ctl.ie => t.regs[o].event
    BY <2>4, <2>7, EndEstimated DEF Changed
  <2>9. SameRanks(s, t) /\ u.num_osc_en = s.num_osc_en
    BY <2>5, <2>6, <2>7, <2>8 DEF Changed, SameRanks
  <2>10. \A p \in Osc : p # o /\ p # P => t.regs[p] = s.regs[p]
    BY <2>5, <2>6, <2>7, <2>8 DEF Changed
  <2>11. /\ t.regs[o].ctl = s.regs[o].ctl /\ t.regs[o].running
         /\ t.regs[o].ctl.ie => t.regs[o].event
    BY <1>0, <2>5, <2>6, <2>7, <2>8 DEF Changed
  <2>12. /\ t.regs[P] = v.regs[P] /\ a.regs[P] = s.regs[P]
         /\ ~ s.regs[P].running /\ t.regs[P].ctl.ie = s.regs[P].ctl.ie
    BY <1>0, <1>2, <2>5, <2>6, <2>7, <2>8 DEF Changed, Unhalted
  <2>13. P < u.num_osc_en \/ P >= u.num_osc_en
    BY <1>0, <2>6, OscFacts
  <2>14. /\ Unawaited(t, P) => Unawaited(s, P)
         /\ t.regs[P].running => P < s.num_osc_en /\ ~ t.regs[P].ctl.halt
    BY <2>6, <2>7, <2>9, <2>12, <2>13 DEF Unawaited
  <2>15. Starts(s, t)
    <3> HIDE DEF P
    <3> SUFFICES ASSUME NEW p \in Osc
                 PROVE  /\ t.regs[p].ctl.ie = s.regs[p].ctl.ie
                        /\ Unawaited(t, p) => Unawaited(s, p)
                        /\ s.regs[p].running => t.regs[p].running
                        /\ t.regs[p].running => s.regs[p].running \/ p < s.num_osc_en
      BY <2>8, <2>9 DEF Starts
    <3>1. CASE p = o
      BY <1>2, <2>11, <3>1 DEF Unawaited
    <3>2. CASE p = P
      BY <2>12, <2>14, <3>2
    <3>3. CASE p # o /\ p # P
      BY <2>10, <3>3 DEF Unawaited
    <3> QED
      BY <3>1, <3>2, <3>3
  <2>16. Unhalted(t)
    BY <2>10, <2>11, <2>14 DEF Unhalted
  <2>17. ~ Unawaited(t, o)
    BY <2>11 DEF Unawaited
  <2> QED
    BY <2>15, <2>16, <2>17
<1> QED
  BY <1>1, <1>2

(***************************************************************************)
(* Playing.                                                                *)
(***************************************************************************)

(* What playing sound does to any oscillator: an interrupt pending stays,   *)
(* one that comes is an enabled oscillator's; who waits without an event    *)
(* did so before; who stops with its interrupt enabled leaves it pending;   *)
(* no disabled oscillator is started.                                       *)
Plays(s, t) ==
  /\ t \in DocState
  /\ t.num_osc_en = s.num_osc_en /\ s.halted \subseteq t.halted
  /\ \A p \in Osc :
       /\ t.regs[p].ctl.ie = s.regs[p].ctl.ie
       /\ Rank(s, p) # 0 => Rank(t, p) # 0
       /\ Rank(t, p) # 0 => Rank(s, p) # 0 \/ p < s.num_osc_en
       /\ Unawaited(t, p) => Unawaited(s, p)
       /\ s.regs[p].running /\ ~ t.regs[p].running /\ s.regs[p].ctl.ie
            => Rank(t, p) # 0
       /\ t.regs[p].running => s.regs[p].running \/ p < s.num_osc_en
  /\ Exact(s) => Exact(t)

(* What playing needs and leaves.                                           *)
Sane(s) == s \in DocState /\ Counted(s) /\ Unhalted(s)

LEMMA PlaysNothing ==
  ASSUME NEW s \in DocState
  PROVE  Plays(s, s)
BY DEF Plays

LEMMA PlaysOn ==
  ASSUME NEW s, NEW t, NEW u, Plays(s, t), Plays(t, u)
  PROVE  Plays(s, u)
<1>1. \A p \in Osc :
       /\ u.regs[p].ctl.ie = s.regs[p].ctl.ie
       /\ Rank(s, p) # 0 => Rank(u, p) # 0
       /\ Rank(u, p) # 0 => Rank(s, p) # 0 \/ p < s.num_osc_en
       /\ Unawaited(u, p) => Unawaited(s, p)
       /\ s.regs[p].running /\ ~ u.regs[p].running /\ s.regs[p].ctl.ie
            => Rank(u, p) # 0
       /\ u.regs[p].running => s.regs[p].running \/ p < s.num_osc_en
  BY DEF Plays
<1>2. /\ u \in DocState /\ u.num_osc_en = s.num_osc_en /\ s.halted \subseteq u.halted
      /\ Exact(s) => Exact(u)
  BY DEF Plays
<1> QED
  BY <1>1, <1>2 DEF Plays

LEMMA StartsPlays ==
  ASSUME NEW s \in DocState, NEW t, Starts(s, t)
  PROVE  Plays(s, t) /\ (Counted(s) => Counted(t))
<1>1. SameRanks(s, t)
  BY DEF Starts
<1>2. (Exact(s) => Exact(t)) /\ (Counted(s) => Counted(t))
  BY <1>1, RanksCarryOver
<1>3. /\ t.num_osc_en = s.num_osc_en /\ s.halted \subseteq t.halted
      /\ \A p \in Osc : Rank(t, p) = Rank(s, p)
  BY <1>1 DEF SameRanks
<1> QED
  BY <1>2, <1>3 DEF Starts, Plays

(* Stopping one that does not run.                                          *)
LEMMA StoppedStarts ==
  ASSUME NEW s \in DocState, Unhalted(s), NEW o \in Osc, ~ s.regs[o].running,
         NEW t, t = Stopped(s, o)
  PROVE  Starts(s, t) /\ Unhalted(t)
<1>1. /\ Changed(s, t, o)
      /\ t.regs[o].ctl.ie = s.regs[o].ctl.ie
      /\ t.regs[o].running = s.regs[o].running
      /\ t.regs[o].event = s.regs[o].event
  BY StoppedFacts
<1> QED
  BY <1>1 DEF Changed, Starts, Unawaited, Unhalted

(* The oscillator at its end, before it goes on, stops or hands over.       *)
Ended(s, o, t) ==
  t = [Halts(Interrupted(doc_remove_sound_event(s, o), o),
             ~ s.regs[o].running, "not running") EXCEPT !.regs[o].running = FALSE]

LEMMA EndedPlays ==
  ASSUME NEW s, Sane(s), NEW o \in Osc, s.regs[o].running, o < s.num_osc_en,
         NEW t, Ended(s, o, t)
  PROVE  /\ Plays(s, t) /\ Sane(t)
         /\ ~ t.regs[o].running
         /\ t.regs[o].ctl = s.regs[o].ctl
<1>0. s \in DocState /\ Counted(s) /\ Unhalted(s)
  BY DEF Sane
<1>a. PICK runs \in BOOLEAN : runs = FALSE
  OBVIOUS
<1>1. PICK a : a = doc_remove_sound_event(s, o)
  OBVIOUS
<1>2. PICK b : b = Interrupted(a, o)
  OBVIOUS
<1>3. RunIs(b, o, runs, t)
  BY <1>a, <1>1, <1>2 DEF Ended, Halts, RunIs
<1>4. /\ Changed(s, a, o) /\ a \in DocState /\ a.regs[o].ctl = s.regs[o].ctl
      /\ SameRanks(s, a)
  BY <1>0, <1>1, EventRemoved DEF Changed
<1>5. Counted(a) /\ (Exact(s) => Exact(a))
  BY <1>0, <1>4, RanksCarryOver
<1>6. /\ SameRegs(a, b) /\ Counted(b) /\ (Exact(a) => Exact(b))
      /\ \A p \in Osc : p # o => Rank(b, p) = Rank(a, p)
      /\ Rank(a, o) # 0 => Rank(b, o) # 0
      /\ a.regs[o].ctl.ie => Rank(b, o) # 0
  <2>1. CASE a.regs[o].ctl.ie /\ Rank(a, o) = 0
    <3>1. b = doc_add_sound_irq(a, o)
      BY <1>2, <2>1 DEF Interrupted, Rank
    <3> QED
      BY <1>4, <1>5, <2>1, <3>1, IrqAdded
  <2>2. CASE ~ (a.regs[o].ctl.ie /\ Rank(a, o) = 0)
    <3>1. b = a
      BY <1>2, <2>2 DEF Interrupted, Rank
    <3> QED
      BY <1>4, <1>5, <2>2, <3>1 DEF SameRegs
  <2> QED
    BY <2>1, <2>2
<1>7. b \in DocState
  BY <1>6 DEF SameRegs
<1>8. /\ Changed(b, t, o) /\ t \in DocState /\ t.regs[o].ctl = b.regs[o].ctl
      /\ t.regs[o].running = runs /\ SameRanks(b, t)
  BY <1>3, <1>7, RunWritten DEF Changed
<1>9. Counted(t) /\ (Exact(b) => Exact(t))
  BY <1>6, <1>8, RanksCarryOver
<1>10. \A p \in Osc : p # o =>
         /\ t.regs[p].ctl = s.regs[p].ctl /\ t.regs[p].running = s.regs[p].running
         /\ t.regs[p].event = s.regs[p].event /\ Rank(t, p) = Rank(s, p)
  BY <1>4, <1>6, <1>8 DEF Changed, SameRegs, SameRanks
<1>11. t.regs[o].ctl = s.regs[o].ctl /\ ~ t.regs[o].running
  BY <1>a, <1>4, <1>6, <1>8 DEF SameRegs
<1>12. /\ Rank(s, o) # 0 => Rank(t, o) # 0
       /\ s.regs[o].ctl.ie => Rank(t, o) # 0
  BY <1>4, <1>6, <1>8 DEF SameRanks
<1>13. t.num_osc_en = s.num_osc_en /\ s.halted \subseteq t.halted
  BY <1>4, <1>6, <1>8 DEF SameRegs, SameRanks
<1>14. Plays(s, t)
  <2> SUFFICES ASSUME NEW p \in Osc
               PROVE  /\ t.regs[p].ctl.ie = s.regs[p].ctl.ie
                      /\ Rank(s, p) # 0 => Rank(t, p) # 0
                      /\ Rank(t, p) # 0 => Rank(s, p) # 0 \/ p < s.num_osc_en
                      /\ Unawaited(t, p) => Unawaited(s, p)
                      /\ s.regs[p].running /\ ~ t.regs[p].running /\ s.regs[p].ctl.ie
                           => Rank(t, p) # 0
                      /\ t.regs[p].running => s.regs[p].running \/ p < s.num_osc_en
    BY <1>5, <1>6, <1>8, <1>9, <1>13 DEF Plays
  <2>1. CASE p = o
    BY <1>11, <1>12, <2>1 DEF Unawaited
  <2>2. CASE p # o
    BY <1>10, <2>2 DEF Unawaited
  <2> QED
    BY <2>1, <2>2
<1>15. Unhalted(t)
  BY <1>0, <1>10, <1>11 DEF Unhalted
<1> QED
  BY <1>8, <1>9, <1>11, <1>14, <1>15 DEF Sane

(* Whatever becomes of an oscillator.                                       *)
LEMMA FatePlays ==
  ASSUME NEW s, Sane(s), NEW o \in Osc, o < s.num_osc_en, NEW t \in Fates(s, o)
  PROVE  Plays(s, t) /\ Sane(t)
<1>0. s \in DocState /\ Counted(s) /\ Unhalted(s)
  BY DEF Sane
<1>1. CASE t = s
  BY <1>0, <1>1, PlaysNothing
<1>2. CASE t # s
  <2>1. s.regs[o].running
    BY <1>2 DEF Fates
  <2>2. PICK repeat \in BOOLEAN : t = doc_sound_end(s, o, repeat)
    BY <1>2 DEF Fates
  <2>3. ~ s.regs[o].ctl.halt
    BY <1>0, <2>1 DEF Unhalted
  <2>4. PICK e : Ended(s, o, e)
    BY DEF Ended
  <2>5. /\ Plays(s, e) /\ Sane(e) /\ ~ e.regs[o].running
        /\ e.regs[o].ctl = s.regs[o].ctl
    BY <2>1, <2>4, EndedPlays
  <2>6. e \in DocState /\ Counted(e) /\ Unhalted(e) /\ e.num_osc_en = s.num_osc_en
    BY <2>5 DEF Sane, Plays
  <2>7. \/ t = doc_start_sound(e, o)
        \/ t = HandedOver(e, o, repeat)
        \/ t = Stopped(e, o)
    BY <2>2, <2>3, <2>4 DEF doc_sound_end, Ended
  <2>8. SUFFICES ASSUME t # e PROVE Plays(e, t) /\ Sane(t)
    BY <2>5, PlaysOn
  <2>9. CASE t = doc_start_sound(e, o)
    <3>1. o >= e.num_osc_en => ~ e.regs[o].running
      BY <2>5
    <3>2. Starts(e, t) /\ Unhalted(t)
      BY <2>3, <2>5, <2>6, <2>9, <3>1, StartStarts
    <3>3. Plays(e, t) /\ Counted(t)
      BY <2>6, <3>2, StartsPlays
    <3> QED
      BY <3>2, <3>3 DEF Sane, Plays
  <2>10. CASE t = Stopped(e, o)
    <3>1. Starts(e, t) /\ Unhalted(t)
      BY <2>5, <2>6, <2>10, StoppedStarts
    <3>2. Plays(e, t) /\ Counted(t)
      BY <2>6, <3>1, StartsPlays
    <3> QED
      BY <3>1, <3>2 DEF Sane, Plays
  <2>11. CASE t = HandedOver(e, o, repeat) /\ t # Stopped(e, o)
    <3> DEFINE P == Partner(o)
    <3>1. PICK a : a = Stopped(e, o)
      OBVIOUS
    <3>2. PICK halt \in BOOLEAN : halt = FALSE
      OBVIOUS
    <3>3. PICK b : HaltIs(a, P, halt, b)
      BY DEF HaltIs
    <3>4. t = doc_start_sound(b, P) /\ ~ e.regs[P].running
      BY <2>11, <3>1, <3>2, <3>3 DEF HandedOver, HaltIs
    <3>5. Starts(e, a) /\ Unhalted(a)
      BY <2>5, <2>6, <3>1, StoppedStarts
    <3>6. Plays(e, a) /\ Counted(a) /\ a \in DocState
      BY <2>6, <3>5, StartsPlays DEF Starts
    <3>7. P \in Osc /\ P # o
      BY OscFacts
    <3>8. Changed(e, a, o)
      BY <2>6, <3>1, StoppedFacts
    <3>9. /\ Changed(a, b, P) /\ b.regs[P].ctl.halt = halt
          /\ b.regs[P].ctl.ie = a.regs[P].ctl.ie
          /\ b.regs[P].running = a.regs[P].running
          /\ b.regs[P].event = a.regs[P].event
      BY <3>3, <3>6, <3>7, HaltWritten
    <3>10. Starts(a, b) /\ b \in DocState
      BY <3>9 DEF Starts, Changed, Unawaited
    <3>11. ~ b.regs[P].running /\ ~ b.regs[P].ctl.halt
      BY <3>2, <3>4, <3>7, <3>8, <3>9 DEF Changed
    <3>12. Unhalted(b)
      BY <3>5, <3>9, <3>11 DEF Unhalted, Changed
    <3>13. Starts(b, t) /\ Unhalted(t)
      BY <3>4, <3>7, <3>10, <3>11, <3>12, StartStarts
    <3>14. Plays(a, b) /\ Counted(b)
      BY <3>6, <3>10, StartsPlays
    <3>15. Plays(b, t) /\ Counted(t)
      BY <3>10, <3>13, <3>14, StartsPlays
    <3>16. Plays(e, t)
      BY <3>6, <3>14, <3>15, PlaysOn
    <3> QED
      BY <3>13, <3>15, <3>16 DEF Sane, Plays
  <2> QED
    BY <2>7, <2>9, <2>10, <2>11
<1> QED
  BY <1>1, <1>2

(***************************************************************************)
(* Recursion: what holds along a round, and along the halting of one       *)
(* oscillator after the other.                                             *)
(***************************************************************************)

(* f goes from s through the round.                                         *)
IsRound(f, s) ==
  f = [n \in 0 .. s.num_osc_en |->
         IF n = 0 THEN {s} ELSE UNION { Fates(t, n - 1) : t \in f[n - 1] }]

(* A set of states that no fate of an enabled oscillator leaves.            *)
LEMMA RoundKeeps ==
  ASSUME NEW S, NEW s \in S, s \in DocState,
         \A t \in S : \A o \in Osc : o < s.num_osc_en => Fates(t, o) \subseteq S
  PROVE  Round(s) \subseteq S
<1> DEFINE m == s.num_osc_en
           After(n, T) == UNION { Fates(t, n) : t \in T }
           F == [n \in Nat |-> [T \in SUBSET S |->
                   IF n < m THEN After(n, T) ELSE T]]
<1>1. m \in Nat /\ m <= NumOsc /\ \A n \in Nat : n < m => n \in Osc
  BY OscFacts DEF Osc
<1>2. ASSUME NEW n \in Nat, n < m, NEW T \in SUBSET S PROVE After(n, T) \in SUBSET S
  BY <1>1, <1>2
<1>3. F \in [Nat -> [SUBSET S -> SUBSET S]]
  <2> HIDE DEF After, m
  <2> QED
    BY <1>2
<1>4. ASSUME NEW n \in Nat, n < m, NEW T \in SUBSET S PROVE F[n][T] = After(n, T)
  <2> HIDE DEF After, m
  <2> QED
    BY <1>4
<1> HIDE DEF F
<1>a. PICK g : IsSteps(g, SUBSET S, {s}, F, m)
  <2>1. {s} \in SUBSET S
    OBVIOUS
  <2> HIDE DEF m
  <2> QED
    BY <1>1, <1>3, <2>1, StepsExist
<1>5. /\ g \in [0 .. m -> SUBSET S] /\ g[0] = {s}
      /\ \A n \in 0 .. (m - 1) : g[n + 1] = F[n][g[n]]
  BY <1>a DEF IsSteps
<1>6. IsRound(g, s)
  <2>1. ASSUME NEW n \in 0 .. m
        PROVE  g[n] = IF n = 0 THEN {s} ELSE After(n - 1, g[n - 1])
    <3>1. CASE n = 0
      BY <1>5, <3>1
    <3>2. CASE n # 0
      <4>1. /\ n - 1 \in 0 .. (m - 1) /\ (n - 1) + 1 = n
            /\ n - 1 \in Nat /\ n - 1 < m /\ n - 1 \in 0 .. m
        BY <1>1, <3>2
      <4>2. g[n] = F[n - 1][g[n - 1]] /\ g[n - 1] \in SUBSET S
        BY <1>5, <4>1
      <4>3. F[n - 1][g[n - 1]] = After(n - 1, g[n - 1])
        <5> HIDE DEF After, m
        <5> QED
          BY <1>4, <4>1, <4>2
      <4> QED
        BY <3>2, <4>2, <4>3
    <3> QED
      BY <3>1, <3>2
  <2>2. g = [n \in 0 .. m |-> IF n = 0 THEN {s} ELSE After(n - 1, g[n - 1])]
    <3> DEFINE h == [n \in 0 .. m |-> IF n = 0 THEN {s} ELSE After(n - 1, g[n - 1])]
    <3>1. \A n \in 0 .. m : g[n] = h[n]
      <4> HIDE DEF After, m
      <4> QED
        BY <2>1
    <3>2. g = [n \in 0 .. m |-> g[n]] /\ h = [n \in 0 .. m |-> h[n]]
      <4> HIDE DEF After, m
      <4> QED
        BY <1>5
    <3> HIDE DEF h, m
    <3>3. g = h
      BY <3>1, <3>2
    <3> QED
      BY <3>3 DEF h
  <2> QED
    BY <2>2 DEF IsRound
<1> DEFINE played == CHOOSE f : IsRound(f, s)
<1>7. IsRound(played, s) /\ Round(s) = played[m]
  BY <1>6 DEF Round, IsRound
<1> HIDE DEF played
<1>8. ASSUME NEW n \in 0 .. m
      PROVE  played[n] = IF n = 0 THEN {s} ELSE After(n - 1, played[n - 1])
  BY <1>7 DEF IsRound
<1> DEFINE U == { n \in Nat : n <= m => played[n] \subseteq S }
<1>9. 0 \in U
  <2>1. 0 \in 0 .. m
    BY <1>1
  <2>2. played[0] = {s}
    BY <1>8, <2>1
  <2> QED
    BY <2>2
<1>10. ASSUME NEW n \in Nat, n \in U PROVE n + 1 \in U
  <2> SUFFICES ASSUME n + 1 <= m PROVE played[n + 1] \subseteq S
    OBVIOUS
  <2>1. n <= m /\ n < m /\ n + 1 \in 0 .. m /\ (n + 1) - 1 = n /\ n + 1 # 0
    BY <1>1
  <2>2. played[n] \in SUBSET S
    BY <1>10, <2>1
  <2>3. played[n + 1] = After(n, played[n])
    <3> HIDE DEF After, m
    <3> QED
      BY <1>8, <2>1
  <2> HIDE DEF After, m
  <2> QED
    BY <1>2, <2>1, <2>2, <2>3
<1>11. m \in U
  <2>1. Nat \subseteq U
    <3> HIDE DEF U
    <3> QED
      BY <1>9, <1>10, NatSetInduction
  <2> QED
    BY <1>1, <2>1
<1> QED
  BY <1>1, <1>7, <1>11

LEMMA PlayKeeps ==
  ASSUME NEW S, NEW s \in S,
         \A t \in S : t \in DocState /\ t.num_osc_en = s.num_osc_en,
         \A t \in S : \A o \in Osc : o < s.num_osc_en => Fates(t, o) \subseteq S
  PROVE  sound_play(s) \subseteq S
<1>1. ASSUME NEW t \in S PROVE Round(t) \subseteq S
  <2>1. \A u \in S : \A o \in Osc : o < t.num_osc_en => Fates(u, o) \subseteq S
    OBVIOUS
  <2> QED
    BY <2>1, RoundKeeps
<1> QED
  BY <1>1 DEF sound_play

(* f halts one oscillator after the other.                                  *)
IsEach(f, s, a, b, reset) ==
  f = [n \in a .. b + 1 |-> IF n = a THEN s ELSE HaltOne(f[n - 1], n - 1, reset)]

(* A set of states that halting one of them does not leave, and the last.   *)
LEMMA EachKeeps ==
  ASSUME NEW S, NEW s \in S, NEW a \in Int, NEW b \in Int, a <= b + 1, NEW reset,
         \A t \in S : \A o \in a .. b : HaltOne(t, o, reset) \in S
  PROVE  /\ HaltEach(s, a, b, reset) \in S
         /\ a <= b => \E t \in S : HaltEach(s, a, b, reset) = HaltOne(t, b, reset)
<1> DEFINE m == b + 1 - a
           One(n, t) == HaltOne(t, a + n, reset)
           F == [n \in Nat |-> [t \in S |-> IF n < m THEN One(n, t) ELSE t]]
<1>1. m \in Nat /\ a + m = b + 1 /\ \A n \in Nat : n < m => a + n \in a .. b
  OBVIOUS
<1>2. ASSUME NEW n \in Nat, n < m, NEW t \in S PROVE One(n, t) \in S
  BY <1>1, <1>2
<1>3. F \in [Nat -> [S -> S]]
  <2> HIDE DEF One, m
  <2> QED
    BY <1>2
<1>4. ASSUME NEW n \in Nat, n < m, NEW t \in S PROVE F[n][t] = One(n, t)
  <2> HIDE DEF One, m
  <2> QED
    BY <1>4
<1> HIDE DEF F
<1>a. PICK g : IsSteps(g, S, s, F, m)
  <2> HIDE DEF m
  <2> QED
    BY <1>1, <1>3, StepsExist
<1>5. /\ g \in [0 .. m -> S] /\ g[0] = s
      /\ \A n \in 0 .. (m - 1) : g[n + 1] = F[n][g[n]]
  BY <1>a DEF IsSteps
<1> DEFINE h == [n \in a .. b + 1 |-> g[n - a]]
<1>6. ASSUME NEW n \in a .. b + 1
      PROVE  h[n] = IF n = a THEN s ELSE HaltOne(h[n - 1], n - 1, reset)
  <2>1. CASE n = a
    BY <1>5, <2>1
  <2>2. CASE n # a
    <3> DEFINE k == n - a - 1
    <3>1. /\ k \in 0 .. (m - 1) /\ k + 1 = n - a /\ k \in Nat /\ k < m
          /\ k \in 0 .. m /\ a + k = n - 1 /\ (n - 1) - a = k /\ n - 1 \in a .. b + 1
      BY <2>2
    <3>2. h[n] = g[k + 1] /\ h[n - 1] = g[k]
      BY <3>1
    <3> HIDE DEF k, h
    <3>3. g[k + 1] = F[k][g[k]] /\ g[k] \in S
      BY <1>5, <3>1
    <3>4. F[k][g[k]] = One(k, g[k])
      <4> HIDE DEF One, m
      <4> QED
        BY <1>4, <3>1, <3>3
    <3>5. One(k, g[k]) = HaltOne(g[k], n - 1, reset)
      BY <3>1
    <3> QED
      BY <2>2, <3>2, <3>3, <3>4, <3>5
  <2> QED
    BY <2>1, <2>2
<1>7. IsEach(h, s, a, b, reset)
  <2> DEFINE hh == [n \in a .. b + 1 |->
                      IF n = a THEN s ELSE HaltOne(h[n - 1], n - 1, reset)]
  <2>1. \A n \in a .. b + 1 : h[n] = hh[n]
    <3> HIDE DEF h
    <3> QED
      BY <1>6
  <2>2. h = [n \in a .. b + 1 |-> h[n]] /\ hh = [n \in a .. b + 1 |-> hh[n]]
    OBVIOUS
  <2> HIDE DEF h, hh
  <2>3. h = hh
    BY <2>1, <2>2
  <2> QED
    BY <2>3 DEF hh, IsEach
<1> HIDE DEF h
<1> DEFINE f == CHOOSE x : IsEach(x, s, a, b, reset)
<1>8. IsEach(f, s, a, b, reset) /\ HaltEach(s, a, b, reset) = f[b + 1]
  BY <1>7 DEF HaltEach, IsEach
<1> HIDE DEF f
<1>9. ASSUME NEW n \in a .. b + 1
      PROVE  f[n] = IF n = a THEN s ELSE HaltOne(f[n - 1], n - 1, reset)
  BY <1>8 DEF IsEach
<1> DEFINE U == { n \in Nat : n <= m => f[a + n] \in S }
<1>10. 0 \in U
  BY <1>9
<1>11. ASSUME NEW n \in Nat, n \in U PROVE n + 1 \in U
  <2> SUFFICES ASSUME n + 1 <= m PROVE f[a + (n + 1)] \in S
    OBVIOUS
  <2>1. /\ n <= m /\ a + n \in a .. b /\ a + (n + 1) \in a .. b + 1
        /\ (a + (n + 1)) - 1 = a + n /\ a + (n + 1) # a
    OBVIOUS
  <2>2. f[a + n] \in S
    BY <1>11, <2>1
  <2>3. f[a + (n + 1)] = HaltOne(f[a + n], a + n, reset)
    BY <1>9, <2>1
  <2> QED
    BY <2>1, <2>2, <2>3
<1>12. Nat \subseteq U
  <2> HIDE DEF U
  <2> QED
    BY <1>10, <1>11, NatSetInduction
<1>13. f[b + 1] \in S
  <2> HIDE DEF m
  <2>1. m \in U /\ m <= m
    BY <1>1, <1>12
  <2>2. f[a + m] \in S
    BY <2>1
  <2> QED
    BY <1>1, <2>2
<1>14. ASSUME a <= b PROVE f[b] \in S /\ f[b + 1] = HaltOne(f[b], b, reset)
  <2>1. m - 1 \in Nat /\ m - 1 <= m /\ a + (m - 1) = b
    BY <1>14
  <2>2. f[a + (m - 1)] \in S
    BY <1>12, <2>1
  <2>3. b + 1 \in a .. b + 1 /\ b + 1 # a /\ (b + 1) - 1 = b
    BY <1>14
  <2>4. f[b + 1] = HaltOne(f[b], b, reset)
    BY <1>9, <2>3
  <2> QED
    BY <2>1, <2>2, <2>4
<1> QED
  BY <1>8, <1>13, <1>14

LEMMA PlayPlays ==
  ASSUME NEW s, Sane(s), NEW t \in sound_play(s)
  PROVE  Plays(s, t) /\ Sane(t)
<1> DEFINE S == { u \in DocState : Plays(s, u) /\ Sane(u) }
<1>1. s \in S
  BY PlaysNothing DEF Sane
<1>2. \A u \in S : u \in DocState /\ u.num_osc_en = s.num_osc_en
  BY DEF Plays
<1>3. ASSUME NEW u \in S, NEW o \in Osc, o < s.num_osc_en, NEW v \in Fates(u, o)
      PROVE  v \in S
  <2>1. Plays(s, u) /\ Sane(u) /\ o < u.num_osc_en
    BY <1>2, <1>3
  <2>2. Plays(u, v) /\ Sane(v)
    BY <1>3, <2>1, FatePlays
  <2>3. Plays(s, v) /\ v \in DocState
    BY <2>1, <2>2, PlaysOn DEF Sane
  <2> QED
    BY <2>2, <2>3
<1>4. \A u \in S : \A o \in Osc : o < s.num_osc_en => Fates(u, o) \subseteq S
  BY <1>3
<1> HIDE DEF S
<1>5. t \in S
  BY <1>1, <1>2, <1>4, PlayKeeps
<1> QED
  BY <1>5 DEF S

(***************************************************************************)
(* The control register.                                                   *)
(***************************************************************************)

(* No oscillator comes to wait without an event, and those from first on    *)
(* apart, none stops without the interrupt it should leave.                 *)
Goes(s, t, first) ==
  /\ t.num_osc_en = s.num_osc_en
  /\ \A p \in Osc :
       /\ Unawaited(t, p) => Unawaited(s, p)
       /\ p < first =>
            /\ t.regs[p].ctl.ie = s.regs[p].ctl.ie
            /\ Rank(s, p) # 0 => Rank(t, p) # 0
            /\ s.regs[p].running /\ ~ t.regs[p].running /\ s.regs[p].ctl.ie
                 => Rank(t, p) # 0

(* The ranks are exact, with one disabled oscillator among them at most.    *)
Queued(s) ==
  /\ Exact(s)
  /\ \A p \in Osc, q \in Osc :
       /\ Rank(s, p) # 0 /\ p >= s.num_osc_en
       /\ Rank(s, q) # 0 /\ q >= s.num_osc_en
       => p = q

LEMMA GoesOn ==
  ASSUME NEW s, NEW t, NEW u, NEW first, Goes(s, t, first), Goes(t, u, first)
  PROVE  Goes(s, u, first)
BY DEF Goes

LEMMA PlaysGoes ==
  ASSUME NEW s \in DocState, NEW t, NEW first, Plays(s, t)
  PROVE  Goes(s, t, first) /\ (Queued(s) => Queued(t))
<1>1. Goes(s, t, first)
  BY DEF Plays, Goes
<1>2. \A p \in Osc : Rank(t, p) # 0 /\ p >= t.num_osc_en
        => Rank(s, p) # 0 /\ p >= s.num_osc_en
  BY OscFacts DEF Plays
<1>3. Exact(s) => Exact(t)
  BY DEF Plays
<1>4. Queued(s) => Queued(t)
  BY <1>2, <1>3 DEF Queued
<1> QED
  BY <1>1, <1>4

LEMMA HaltedFacts ==
  ASSUME NEW s \in DocState, NEW o \in Osc, NEW val \in Ctl, NEW t, t = Halted(s, o, val)
  PROVE  /\ Changed(s, t, o)
         /\ t.regs[o].ctl = val
         /\ ~ t.regs[o].running
         /\ t.regs[o].event = s.regs[o].event
<1>1. PICK u : CtlIs(s, o, val, u)
  BY DEF CtlIs
<1>2. PICK runs \in BOOLEAN : runs = FALSE
  OBVIOUS
<1>3. RunIs(u, o, runs, t)
  BY <1>1, <1>2 DEF Halted, CtlIs, RunIs
<1>4. /\ Changed(s, u, o) /\ u.regs[o].ctl = val
      /\ u.regs[o].event = s.regs[o].event
  BY <1>1, CtlWritten
<1>5. u \in DocState
  BY <1>4 DEF Changed
<1>6. /\ Changed(u, t, o) /\ t.regs[o].ctl = u.regs[o].ctl
      /\ t.regs[o].running = runs /\ t.regs[o].event = u.regs[o].event
  BY <1>3, <1>5, RunWritten
<1>7. Changed(s, t, o)
  BY <1>4, <1>6, ChangedTwice
<1> QED
  BY <1>2, <1>4, <1>6, <1>7

LEMMA HaltedSane ==
  ASSUME NEW s, Sane(s), NEW o \in Osc, NEW val \in Ctl, NEW t, t = Halted(s, o, val)
  PROVE  Sane(t) /\ SameRanks(s, t)
<1>1. /\ Changed(s, t, o) /\ ~ t.regs[o].running
  BY HaltedFacts DEF Sane
<1>2. SameRanks(s, t) /\ t \in DocState
  BY <1>1 DEF Changed
<1>3. Counted(t)
  BY <1>2, RanksCarryOver DEF Sane
<1>4. Unhalted(t)
  BY <1>1 DEF Sane, Unhalted, Changed
<1> QED
  BY <1>2, <1>3, <1>4 DEF Sane

(* No oscillator comes to have an interrupt pending while it is disabled,   *)
(* and no other than o loses its interrupt, its event or the interrupt of   *)
(* its end.                                                                 *)
Others(s, t, o) ==
  /\ t.num_osc_en = s.num_osc_en /\ s.halted \subseteq t.halted
  /\ \A p \in Osc :
       /\ Rank(t, p) # 0 => Rank(s, p) # 0 \/ p < s.num_osc_en
       /\ p # o =>
            /\ t.regs[p].ctl.ie = s.regs[p].ctl.ie
            /\ Unawaited(t, p) => Unawaited(s, p)
            /\ Rank(s, p) # 0 => Rank(t, p) # 0
            /\ s.regs[p].running /\ ~ t.regs[p].running /\ s.regs[p].ctl.ie
                 => Rank(t, p) # 0

LEMMA OthersOn ==
  ASSUME NEW s, NEW t, NEW u, NEW o, Others(s, t, o), Others(t, u, o)
  PROVE  Others(s, u, o)
<1>1. u.num_osc_en = s.num_osc_en /\ s.halted \subseteq u.halted
  BY DEF Others
<1>2. \A p \in Osc : Rank(u, p) # 0 => Rank(s, p) # 0 \/ p < s.num_osc_en
  BY DEF Others
<1>3. \A p \in Osc : p # o =>
        /\ u.regs[p].ctl.ie = s.regs[p].ctl.ie
        /\ Unawaited(u, p) => Unawaited(s, p)
        /\ Rank(s, p) # 0 => Rank(u, p) # 0
        /\ s.regs[p].running /\ ~ u.regs[p].running /\ s.regs[p].ctl.ie
             => Rank(u, p) # 0
  BY DEF Others
<1> QED
  BY <1>1, <1>2, <1>3 DEF Others

LEMMA PlaysOthers ==
  ASSUME NEW s, NEW t, NEW o, Plays(s, t)
  PROVE  Others(s, t, o)
BY DEF Plays, Others

LEMMA ChangedOthers ==
  ASSUME NEW s, NEW t, NEW o \in Osc, Changed(s, t, o)
  PROVE  Others(s, t, o)
BY DEF Changed, SameRanks, Others, Unawaited

LEMMA OthersInside ==
  ASSUME NEW s, NEW t, NEW o, Others(s, t, o), Inside(s)
  PROVE  Inside(t)
BY DEF Others, Inside

(* The interrupt of o goes.                                                 *)
LEMMA IrqGoneOthers ==
  ASSUME NEW s, Sane(s), NEW o \in Osc, NEW t, IrqGone(s, o, t)
  PROVE  /\ Sane(t) /\ Others(s, t, o)
         /\ t.regs[o].ctl = s.regs[o].ctl
         /\ t.regs[o].running = s.regs[o].running
         /\ t.regs[o].event = s.regs[o].event
         /\ Exact(s) /\ Inside(s) => Exact(t)
<1>0. s \in DocState /\ Counted(s) /\ Unhalted(s)
  BY DEF Sane
<1>1. /\ SameRegs(s, t) /\ Rank(t, o) = 0 /\ Counted(t)
      /\ \A p \in Osc : p # o => (Rank(t, p) # 0 <=> Rank(s, p) # 0)
      /\ Exact(s) /\ Removable(s, o) => Exact(t)
  BY <1>0, IrqRemoved
<1>2. Others(s, t, o)
  BY <1>1 DEF SameRegs, Others, Unawaited
<1>3. Sane(t)
  BY <1>0, <1>1 DEF SameRegs, Unhalted, Sane
<1>4. Inside(s) => Removable(s, o)
  BY DEF Inside, Removable
<1> QED
  BY <1>1, <1>2, <1>3, <1>4 DEF SameRegs

(* Interrupt and event of o go.                                             *)
LEMMA QuietOthers ==
  ASSUME NEW s, Sane(s), NEW o \in Osc, NEW t, t = Quiet(s, o)
  PROVE  /\ Sane(t) /\ Others(s, t, o)
         /\ t.regs[o].ctl = s.regs[o].ctl
         /\ t.regs[o].running = s.regs[o].running
         /\ Exact(s) /\ Inside(s) => Exact(t)
<1>0. s \in DocState /\ Counted(s) /\ Unhalted(s)
  BY DEF Sane
<1>1. /\ t \in DocState /\ Counted(t) /\ Rank(t, o) = 0
      /\ t.num_osc_en = s.num_osc_en /\ s.halted \subseteq t.halted
      /\ \A p \in Osc : /\ t.regs[p].ctl = s.regs[p].ctl
                        /\ t.regs[p].running = s.regs[p].running
                        /\ p # o => /\ t.regs[p].event = s.regs[p].event
                                    /\ Rank(t, p) # 0 <=> Rank(s, p) # 0
      /\ Exact(s) /\ Removable(s, o) => Exact(t)
  BY <1>0, Quieted
<1>2. Others(s, t, o)
  BY <1>1 DEF Others, Unawaited
<1>3. Sane(t)
  BY <1>0, <1>1 DEF Unhalted, Sane
<1>4. Inside(s) => Removable(s, o)
  BY DEF Inside, Removable
<1> QED
  BY <1>1, <1>2, <1>3, <1>4

(* What writing a control register does: o keeps its event or gets one, and *)
(* it only stops because it was written.                                    *)
LEMMA CtlWriting ==
  ASSUME NEW s, Sane(s), NEW o \in Osc, NEW val \in Ctl,
         NEW t \in doc_write_ctl_reg(s, o, val)
  PROVE  /\ Sane(t) /\ Others(s, t, o)
         /\ Unawaited(t, o) => Unawaited(s, o)
         /\ s.regs[o].running /\ ~ t.regs[o].running => t.regs[o].ctl = val
         /\ Exact(s) /\ Inside(s) => Exact(t)
<1> DEFINE old == s.regs[o].ctl
<1>0. /\ s \in DocState /\ Unhalted(s) /\ old \in Ctl
      /\ old.halt \in BOOLEAN /\ val.halt \in BOOLEAN
  BY RegTypes DEF Sane, Ctl
<1>1. CASE old = val
  <2>1. t = s
    BY <1>1 DEF doc_write_ctl_reg
  <2> QED
    BY <2>1 DEF Others
<1>2. CASE old # val /\ val.halt
  <2>1. PICK q : q = Quiet(s, o)
    OBVIOUS
  <2>2. PICK r : (r = q \/ r \in sound_play(q)) /\ t = Halted(r, o, val)
    BY <1>2, <2>1 DEF doc_write_ctl_reg
  <2>3. /\ Sane(q) /\ Others(s, q, o) /\ (Exact(s) /\ Inside(s) => Exact(q))
    BY <2>1, QuietOthers
  <2>4. Plays(q, r) /\ Sane(r)
    BY <2>2, <2>3, PlayPlays, PlaysNothing DEF Sane
  <2>5. r \in DocState
    BY <2>4 DEF Sane
  <2>6. /\ Changed(r, t, o) /\ t.regs[o].ctl = val /\ ~ t.regs[o].running
    BY <2>2, <2>5, HaltedFacts
  <2>7. Sane(t) /\ SameRanks(r, t)
    BY <2>2, <2>4, HaltedSane
  <2>8. Others(q, r, o) /\ Others(r, t, o)
    BY <2>4, <2>6, PlaysOthers, ChangedOthers
  <2>9. Others(s, t, o)
    BY <2>3, <2>8, OthersOn
  <2>10. (Exact(q) => Exact(r)) /\ (Exact(r) => Exact(t))
    BY <2>4, <2>7, RanksCarryOver DEF Plays
  <2> QED
    BY <2>3, <2>6, <2>7, <2>9, <2>10 DEF Unawaited
<1>3. CASE old # val /\ ~ val.halt
  <2>1. PICK q : q = doc_remove_sound_irq(s, o, FALSE)
    OBVIOUS
  <2>2. IrqGone(s, o, q)
    BY <2>1 DEF IrqGone
  <2>3. PICK r, w :
          /\ r \in sound_play(q)
          /\ CtlIs(r, o, val, w)
          /\ old.halt => t = doc_start_sound(w, o)
          /\ ~ old.halt => t = IF val.ie /\ ~ old.ie THEN doc_wave_end_estimate(w, o) ELSE w
    <3>1. CASE old.halt
      BY <1>3, <2>1, <3>1 DEF doc_write_ctl_reg, CtlIs
    <3>2. CASE ~ old.halt
      BY <1>3, <2>1, <3>2 DEF doc_write_ctl_reg, CtlIs
    <3> QED
      BY <3>1, <3>2
  <2>4. /\ Sane(q) /\ Others(s, q, o)
        /\ q.regs[o].ctl = s.regs[o].ctl
        /\ q.regs[o].running = s.regs[o].running
        /\ q.regs[o].event = s.regs[o].event
        /\ Exact(s) /\ Inside(s) => Exact(q)
    BY <2>2, IrqGoneOthers
  <2>5. Plays(q, r) /\ Sane(r) /\ r \in DocState /\ q.num_osc_en = s.num_osc_en
    BY <2>3, <2>4, PlayPlays DEF Sane, Others
  <2>6. /\ Changed(r, w, o) /\ w.regs[o].ctl = val
        /\ w.regs[o].running = r.regs[o].running
        /\ w.regs[o].event = r.regs[o].event
    BY <2>3, <2>5, CtlWritten
  <2>7. w \in DocState /\ SameRanks(r, w)
    BY <2>6 DEF Changed
  <2>8. Counted(w) /\ (Exact(r) => Exact(w))
    BY <2>5, <2>7, RanksCarryOver DEF Sane
  <2>9. Unhalted(w)
    BY <1>3, <2>5, <2>6 DEF Sane, Unhalted, Changed
  <2>10. Others(s, w, o)
    <3>1. Others(q, r, o) /\ Others(r, w, o)
      BY <2>5, <2>6, PlaysOthers, ChangedOthers
    <3> QED
      BY <2>4, <3>1, OthersOn
  <2>11. Exact(s) /\ Inside(s) => Exact(w)
    BY <2>4, <2>5, <2>8 DEF Plays
  <2>12. CASE old.halt
    <3>1. ~ s.regs[o].running
      BY <1>0, <2>12 DEF Unhalted
    <3>2. o >= w.num_osc_en => ~ w.regs[o].running
      <4>1. w.num_osc_en = q.num_osc_en
        BY <2>5, <2>7 DEF Plays, SameRanks
      <4>2. r.regs[o].running => q.regs[o].running \/ o < q.num_osc_en
        BY <2>5 DEF Plays
      <4> QED
        BY <2>4, <2>6, <2>7, <3>1, <4>1, <4>2, OscFacts
    <3>3. /\ Starts(w, t) /\ Unhalted(t)
          /\ o < w.num_osc_en => ~ Unawaited(t, o)
      BY <1>3, <2>3, <2>6, <2>7, <2>9, <2>12, <3>2, StartStarts
    <3>4. Plays(w, t) /\ Counted(t) /\ t \in DocState
      BY <2>7, <2>8, <3>3, StartsPlays DEF Starts
    <3>5. Others(s, t, o)
      BY <2>10, <3>4, PlaysOthers, OthersOn
    <3>6. ~ Unawaited(t, o)
      <4>1. o < w.num_osc_en \/ o >= w.num_osc_en
        BY <2>7, OscFacts
      <4>2. Unawaited(t, o) => Unawaited(w, o)
        BY <3>3 DEF Starts
      <4> QED
        BY <3>2, <3>3, <4>1, <4>2 DEF Unawaited
    <3>7. Exact(w) => Exact(t)
      BY <3>4 DEF Plays
    <3> QED
      BY <2>11, <3>1, <3>3, <3>4, <3>5, <3>6, <3>7 DEF Sane
  <2>13. CASE ~ old.halt /\ val.ie /\ ~ old.ie
    <3>1. t = doc_wave_end_estimate(w, o)
      BY <2>3, <2>13
    <3>2. /\ Changed(w, t, o) /\ t.regs[o].ctl = val
          /\ t.regs[o].running = w.regs[o].running
          /\ t.regs[o].event
      BY <2>6, <2>7, <2>13, <3>1, EndEstimated
    <3>3. t \in DocState /\ SameRanks(w, t)
      BY <3>2 DEF Changed
    <3>4. Counted(t) /\ (Exact(w) => Exact(t))
      BY <2>8, <3>3, RanksCarryOver
    <3>5. Unhalted(t)
      BY <2>9, <2>6, <3>2 DEF Unhalted, Changed
    <3>6. Others(s, t, o)
      BY <2>10, <3>2, ChangedOthers, OthersOn
    <3> QED
      BY <2>11, <3>2, <3>3, <3>4, <3>5, <3>6 DEF Sane, Unawaited
  <2>14. CASE ~ old.halt /\ ~ (val.ie /\ ~ old.ie)
    <3>1. t = w
      BY <2>3, <2>14
    <3>2. Unawaited(w, o) => Unawaited(s, o)
      <4>1. Unawaited(w, o) => Unawaited(r, o)
        <5>1. r.regs[o].ctl.ie = old.ie
          BY <2>4, <2>5 DEF Plays
        <5> QED
          BY <2>6, <2>14, <5>1 DEF Unawaited
      <4>2. Unawaited(r, o) => Unawaited(q, o)
        BY <2>5 DEF Plays
      <4> QED
        BY <2>4, <4>1, <4>2 DEF Unawaited
    <3> QED
      BY <2>6, <2>7, <2>8, <2>9, <2>10, <2>11, <3>1, <3>2 DEF Sane
  <2> QED
    BY <2>12, <2>13, <2>14
<1> QED
  BY <1>1, <1>2, <1>3

(* An event comes.                                                          *)
LEMMA EventHandled ==
  ASSUME NEW s, Sane(s), NEW o \in Osc, s.queue[o] > 0,
         NEW t \in sound_play([s EXCEPT !.queue[o] = @ - 1, !.regs[o].event = FALSE])
  PROVE  /\ Sane(t) /\ Others(s, t, o)
         /\ s.regs[o].running /\ ~ t.regs[o].running /\ s.regs[o].ctl.ie
              => Rank(t, o) # 0
         /\ Exact(s) => Exact(t)
<1> DEFINE reg == [s.regs[o] EXCEPT !.event = FALSE]
           q == [s.queue EXCEPT ![o] = @ - 1]
<1>0. s \in DocState /\ Counted(s) /\ Unhalted(s)
  BY DEF Sane
<1>1. PICK u : u = With(s, o, reg, q)
  OBVIOUS
<1>2. t \in sound_play(u)
  <2>1. u = [s EXCEPT !.queue[o] = @ - 1, !.regs[o].event = FALSE]
    BY <1>0, <1>1 DEF With, DocState
  <2> QED
    BY <2>1
<1>3. /\ reg \in OscState /\ reg.has_irq_pending = Rank(s, o)
      /\ reg.ctl = s.regs[o].ctl /\ reg.running = s.regs[o].running
  BY <1>0, RegTypes DEF OscState, Rank
<1>4. q \in [Osc -> Nat]
  BY <1>0, RegTypes
<1> HIDE DEF reg, q
<1>5. Changed(s, u, o) /\ u.regs[o] = reg
  BY <1>0, <1>1, <1>3, <1>4, OneChanged
<1>6. u \in DocState /\ SameRanks(s, u)
  BY <1>5 DEF Changed
<1>7. Counted(u) /\ (Exact(s) => Exact(u))
  BY <1>0, <1>6, RanksCarryOver
<1>8. Unhalted(u)
  BY <1>0, <1>3, <1>5 DEF Unhalted, Changed
<1>9. Sane(u)
  BY <1>6, <1>7, <1>8 DEF Sane
<1>10. Plays(u, t) /\ Sane(t)
  BY <1>2, <1>9, PlayPlays
<1>11. Others(s, t, o)
  BY <1>5, <1>10, ChangedOthers, PlaysOthers, OthersOn
<1>12. s.regs[o].running /\ ~ t.regs[o].running /\ s.regs[o].ctl.ie => Rank(t, o) # 0
  BY <1>3, <1>5, <1>10 DEF Plays
<1> QED
  BY <1>7, <1>10, <1>11, <1>12 DEF Plays

(***************************************************************************)
(* Halting many oscillators.                                               *)
(***************************************************************************)

LEMMA HasSmallest ==
  ASSUME NEW S \in SUBSET Osc, S # {}
  PROVE  \E x \in S : \A y \in S : x <= y
<1> DEFINE T == { n \in Nat : (\E x \in S : x <= n) => \E x \in S : \A y \in S : x <= y }
<1>1. 0 \in T
  <2>1. \A x \in S : x \in Nat
    BY OscFacts
  <2>2. \A x \in S : x <= 0 => \A y \in S : x <= y
    BY <2>1
  <2> QED
    BY <2>2
<1>2. ASSUME NEW n \in Nat, n \in T PROVE n + 1 \in T
  <2> SUFFICES ASSUME NEW x \in S, x <= n + 1
               PROVE  \E y \in S : \A z \in S : y <= z
    OBVIOUS
  <2>1. CASE \A z \in S : x <= z
    BY <2>1
  <2>2. CASE \E z \in S : ~ (x <= z)
    <3>1. PICK z \in S : ~ (x <= z)
      BY <2>2
    <3>2. x \in Int /\ z \in Int
      BY OscFacts
    <3>3. z <= n
      BY <3>1, <3>2
    <3> QED
      BY <1>2, <3>3
  <2> QED
    BY <2>1, <2>2
<1>3. Nat \subseteq T
  <2> HIDE DEF T
  <2> QED
    BY <1>1, <1>2, NatSetInduction
<1>4. PICK x \in S : x \in Nat /\ x <= x
  BY OscFacts
<1> QED
  BY <1>3, <1>4

LEMMA ClearedFacts ==
  ASSUME NEW s, Sane(s), NEW o \in Osc, NEW t, t = Cleared(s, o)
  PROVE  /\ Sane(t) /\ SameRegs(s, t)
         /\ Rank(t, o) = 0 /\ \A p \in Osc : p # o => Rank(t, p) = Rank(s, p)
         /\ t.e0 = {}
<1> DEFINE reg == [s.regs[o] EXCEPT !.has_irq_pending = 0]
           regs == [s.regs EXCEPT ![o] = reg]
<1>0. /\ s \in DocState /\ Counted(s) /\ Unhalted(s) /\ s.regs \in [Osc -> OscState]
      /\ s.halted \in SUBSET Checks
  BY DEF Sane, DocState
<1>1. /\ reg \in OscState /\ reg.has_irq_pending = 0
      /\ reg.ctl = s.regs[o].ctl /\ reg.running = s.regs[o].running
      /\ reg.event = s.regs[o].event
  BY <1>0, RegTypes DEF OscState
<1>2. PICK u : u = [s EXCEPT !.regs = regs, !.e0 = {}]
  OBVIOUS
<1>3. /\ t = u \/ t = Noted(u, "interrupt at reset")
      /\ Rank(s, o) # 0 => t = Noted(u, "interrupt at reset")
  BY <1>0, <1>2 DEF Cleared, Halts, Noted, DocState, Rank
<1> HIDE DEF reg
<1>4. regs \in [Osc -> OscState] /\ regs[o] = reg /\ \A p \in Osc : p # o => regs[p] = s.regs[p]
  BY <1>0, <1>1
<1> HIDE DEF regs
<1>5. /\ u \in DocState /\ u.regs = regs /\ u.e0 = {} /\ u.num_osc_en = s.num_osc_en
      /\ u.num_interrupting = s.num_interrupting /\ u.irq = s.irq /\ u.halted = s.halted
  BY <1>0, <1>2, <1>4 DEF DocState
<1>6. "interrupt at reset" \in Checks
  BY DEF Checks
<1>7. /\ t \in DocState /\ SameRanks(u, t) /\ t.regs = u.regs
      /\ Rank(s, o) # 0 => t.halted # {}
  BY <1>3, <1>5, <1>6, NotedFacts
<1>8. Rank(t, o) = 0 /\ \A p \in Osc : p # o => Rank(t, p) = Rank(s, p)
  BY <1>1, <1>4, <1>5, <1>7 DEF Rank
<1>9. SameRegs(s, t)
  BY <1>1, <1>4, <1>5, <1>7 DEF SameRegs, SameRanks
<1>10. t.e0 = {} /\ t.num_interrupting = s.num_interrupting /\ t.irq = s.irq
  BY <1>5, <1>7 DEF SameRanks
<1>11. Counted(t)
  <2>1. Pending(t) \subseteq Pending(s)
    BY <1>8, PendingFinite
  <2>2. Cardinality(Pending(t)) <= Cardinality(Pending(s))
    BY <2>1, PendingFinite, FS_Subset
  <2>3. /\ Cardinality(Pending(t)) \in Nat /\ Cardinality(Pending(s)) \in Nat
        /\ s.num_interrupting \in Nat
    BY <1>0, PendingFinite DEF DocState
  <2>4. ASSUME t.halted = {}
        PROVE  t.irq = (Pending(t) # {}) /\ t.num_interrupting = Cardinality(Pending(t))
    <3>1. s.halted = {} /\ Rank(s, o) = 0
      BY <1>7, <1>9, <2>4 DEF SameRegs
    <3>2. Pending(t) = Pending(s)
      BY <1>8, <3>1, PendingFinite
    <3> QED
      BY <1>0, <1>10, <3>1, <3>2 DEF Counted
  <2> QED
    BY <1>0, <1>10, <2>2, <2>3, <2>4 DEF Counted
<1>12. Unhalted(t)
  BY <1>0, <1>9 DEF Unhalted, SameRegs
<1> QED
  BY <1>7, <1>8, <1>9, <1>10, <1>11, <1>12 DEF Sane

(* What settling o leaves of all others.                                    *)
LEMMA SettledFacts ==
  ASSUME NEW s, Sane(s), NEW o \in Osc, NEW reset \in BOOLEAN,
         NEW t, t = Settled(s, o, reset)
  PROVE  /\ Sane(t) /\ SameRegs(s, t) /\ Others(s, t, o)
         /\ ~ reset => t = s
         /\ reset => t.e0 = {}
<1>1. CASE reset
  <2>1. t = Cleared(s, o)
    BY <1>1 DEF Settled
  <2>2. /\ Sane(t) /\ SameRegs(s, t) /\ t.e0 = {}
        /\ Rank(t, o) = 0 /\ \A p \in Osc : p # o => Rank(t, p) = Rank(s, p)
    BY <2>1, ClearedFacts
  <2>3. Others(s, t, o)
    BY <2>2 DEF SameRegs, Others, Unawaited
  <2> QED
    BY <1>1, <2>2, <2>3
<1>2. CASE ~ reset
  <2>1. t = s
    BY <1>2 DEF Settled
  <2>2. SameRegs(s, t) /\ Others(s, t, o)
    BY <2>1 DEF Sane, SameRegs, Others
  <2> QED
    BY <1>2, <2>1, <2>2
<1> QED
  BY <1>1, <1>2

LEMMA OthersGoes ==
  ASSUME NEW s, NEW t, NEW o \in Osc, NEW first \in Int, o >= first, Others(s, t, o),
         Unawaited(t, o) => Unawaited(s, o)
  PROVE  Goes(s, t, first)
<1>1. \A p \in Osc : p < first => p # o
  BY OscFacts
<1> QED
  BY <1>1 DEF Others, Goes

(* What halting one of the oscillators from first on keeps.                 *)
HaltKeeps(s, t, first, reset) ==
  /\ Sane(t)
  /\ Goes(s, t, first)
  /\ ~ reset /\ s.num_osc_en <= first /\ Queued(s) => Queued(t)

LEMMA KeepsOn ==
  ASSUME NEW s, NEW t, NEW u, NEW first, NEW reset \in BOOLEAN,
         HaltKeeps(s, t, first, reset), HaltKeeps(t, u, first, reset)
  PROVE  HaltKeeps(s, u, first, reset)
<1>1. t.num_osc_en = s.num_osc_en
  BY DEF HaltKeeps, Goes
<1>2. Goes(s, u, first)
  BY GoesOn DEF HaltKeeps
<1> QED
  BY <1>1, <1>2 DEF HaltKeeps

(* One that was active: it loses interrupt and event, sound is played or    *)
(* not, and it is halted.                                                   *)
LEMMA ActiveHalted ==
  ASSUME NEW s, Sane(s), NEW o \in Osc, NEW first \in Int, o >= first,
         NEW reset \in BOOLEAN,
         NEW q, q = Quiet(s, o), NEW r, r = q \/ r \in sound_play(q),
         NEW t, t = Settled(Halting(r, o), o, reset)
  PROVE  HaltKeeps(s, t, first, reset) /\ (reset => t.e0 = {})
<1>0. s \in DocState /\ Counted(s) /\ Unhalted(s)
  BY DEF Sane
<1>1. Sane(q) /\ Others(s, q, o)
  BY QuietOthers
<1>2. Plays(q, r) /\ Sane(r) /\ q \in DocState /\ r \in DocState
  BY <1>1, PlayPlays, PlaysNothing DEF Sane
<1>3. PICK val : val = [r.regs[o].ctl EXCEPT !.halt = TRUE]
  OBVIOUS
<1>4. val \in Ctl
  BY <1>2, <1>3, RegTypes DEF Ctl
<1>5. PICK h : h = Halted(r, o, val)
  OBVIOUS
<1>6. t = Settled(h, o, reset)
  BY <1>3, <1>5 DEF Halting
<1>7. Changed(r, h, o) /\ ~ h.regs[o].running
  BY <1>2, <1>4, <1>5, HaltedFacts
<1>8. Sane(h) /\ SameRanks(r, h)
  BY <1>2, <1>4, <1>5, HaltedSane
<1>9. /\ Sane(t) /\ SameRegs(h, t) /\ Others(h, t, o)
      /\ ~ reset => t = h
      /\ reset => t.e0 = {}
  BY <1>6, <1>8, SettledFacts
<1>10. Others(s, t, o)
  <2>1. Others(q, r, o) /\ Others(r, h, o)
    BY <1>2, <1>7, PlaysOthers, ChangedOthers
  <2>2. Others(s, h, o)
    BY <1>1, <2>1, OthersOn
  <2> QED
    BY <1>9, <2>2, OthersOn
<1>11. ~ Unawaited(t, o)
  BY <1>7, <1>9 DEF SameRegs, Unawaited
<1>12. Goes(s, t, first)
  BY <1>10, <1>11, OthersGoes
<1>13. ASSUME ~ reset, s.num_osc_en <= first, Queued(s) PROVE Queued(t)
  <2>1. o >= s.num_osc_en
    BY <1>0, <1>13, OscFacts
  <2>2. Removable(s, o)
    <3> SUFFICES ASSUME Rank(s, o) # 0, NEW p \in Osc, p # o, Rank(s, p) # 0
                 PROVE  p < s.num_osc_en
      BY DEF Removable
    <3>1. ~ (p >= s.num_osc_en)
      BY <1>13, <2>1 DEF Queued
    <3> QED
      BY <1>0, <3>1, OscFacts
  <2>3. /\ q.num_osc_en = s.num_osc_en /\ Rank(q, o) = 0
        /\ \A p \in Osc : p # o => (Rank(q, p) # 0 <=> Rank(s, p) # 0)
        /\ Exact(q)
    BY <1>0, <1>13, <2>2, Quieted DEF Queued
  <2>4. Queued(q)
    BY <1>13, <2>3 DEF Queued
  <2>5. Queued(r)
    BY <1>2, <2>4, PlaysGoes
  <2>6. Exact(h) /\ h.num_osc_en = r.num_osc_en /\ \A p \in Osc : Rank(h, p) = Rank(r, p)
    BY <1>8, <2>5, RanksCarryOver DEF Queued, SameRanks
  <2>7. Queued(h)
    BY <2>5, <2>6 DEF Queued
  <2> QED
    BY <1>9, <1>13, <2>7
<1> QED
  BY <1>9, <1>12, <1>13 DEF HaltKeeps

LEMMA OneHalted ==
  ASSUME NEW s, Sane(s), NEW o \in Osc, NEW first \in Int, o >= first,
         NEW reset \in BOOLEAN, NEW t, t = HaltOne(s, o, reset)
  PROVE  HaltKeeps(s, t, first, reset) /\ (reset => t.e0 = {})
<1>1. CASE s.regs[o].ctl.halt
  <2>1. t = Settled(s, o, reset)
    BY <1>1 DEF HaltOne
  <2>2. /\ Sane(t) /\ SameRegs(s, t) /\ Others(s, t, o)
        /\ ~ reset => t = s
        /\ reset => t.e0 = {}
    BY <2>1, SettledFacts
  <2>3. Goes(s, t, first)
    BY <2>2, OthersGoes DEF SameRegs, Unawaited
  <2> QED
    BY <2>2, <2>3 DEF HaltKeeps
<1>2. CASE ~ s.regs[o].ctl.halt
  <2>1. PICK q : q = Quiet(s, o)
    OBVIOUS
  <2>2. t = Settled(Halting(q, o), o, reset)
    BY <1>2, <2>1 DEF HaltOne
  <2> QED
    BY <2>1, <2>2, ActiveHalted
<1> QED
  BY <1>1, <1>2

LEMMA EachHalted ==
  ASSUME NEW s, Sane(s), NEW first \in Int, NEW a \in Int, NEW b \in Int,
         0 <= first, first <= a, a <= b + 1, b < NumOsc, NEW reset \in BOOLEAN,
         NEW t, t = HaltEach(s, a, b, reset)
  PROVE  /\ HaltKeeps(s, t, first, reset)
         /\ reset /\ a <= b => t.e0 = {}
         /\ b < a => t = s
<1> DEFINE S == { u \in DocState : HaltKeeps(s, u, first, reset) }
<1>1. s \in S
  BY DEF Sane, HaltKeeps, Goes
<1>2. \A o \in a .. b : o \in Osc /\ o >= first
  BY OscFacts DEF Osc
<1>3. ASSUME NEW u \in S, NEW o \in a .. b
      PROVE  /\ HaltOne(u, o, reset) \in S
             /\ reset => HaltOne(u, o, reset).e0 = {}
  <2>1. PICK v : v = HaltOne(u, o, reset)
    OBVIOUS
  <2>2. Sane(u) /\ HaltKeeps(s, u, first, reset)
    BY DEF HaltKeeps
  <2>3. HaltKeeps(u, v, first, reset) /\ (reset => v.e0 = {})
    BY <1>2, <2>1, <2>2, OneHalted
  <2>4. HaltKeeps(s, v, first, reset) /\ v \in DocState
    BY <2>2, <2>3, KeepsOn DEF HaltKeeps, Sane
  <2> QED
    BY <2>1, <2>3, <2>4
<1> HIDE DEF S
<1>4. /\ t \in S
      /\ a <= b => \E u \in S : t = HaltOne(u, b, reset)
  BY <1>1, <1>3, EachKeeps
<1>5. ASSUME reset, a <= b PROVE t.e0 = {}
  <2>1. PICK u \in S : t = HaltOne(u, b, reset)
    BY <1>4, <1>5
  <2>2. b \in a .. b
    BY <1>5
  <2> QED
    BY <1>3, <1>5, <2>1, <2>2
<1>6. ASSUME b < a PROVE t = s
  <2>1. \A u \in {s} : \A o \in a .. b : HaltOne(u, o, reset) \in {s}
    BY <1>6
  <2>2. t \in {s}
    BY <2>1, EachKeeps
  <2> QED
    BY <2>2
<1> QED
  BY <1>4, <1>5, <1>6 DEF S

LEMMA FromHalted ==
  ASSUME NEW s, Sane(s), NEW first \in Int, 0 <= first, first <= NumOsc,
         NEW reset \in BOOLEAN, NEW t \in HaltFrom(s, first, reset)
  PROVE  /\ HaltKeeps(s, t, first, reset)
         /\ reset /\ first < NumOsc => t.e0 = {}
<1> DEFINE active == { o \in Osc : o >= first /\ ~ s.regs[o].ctl.halt }
<1>0. NumOsc \in Int /\ NumOsc - 1 \in Int /\ NumOsc - 1 < NumOsc
  BY OscFacts
<1>1. CASE active = {}
  <2>1. t = HaltEach(s, first, NumOsc - 1, reset)
    BY <1>1 DEF HaltFrom
  <2> QED
    BY <1>0, <2>1, EachHalted
<1>2. CASE active # {}
  <2>1. PICK i : i = Min(active)
    OBVIOUS
  <2>2. i \in Osc /\ i >= first /\ i \in Int /\ i < NumOsc
    <3>1. active \in SUBSET Osc
      OBVIOUS
    <3>2. \E x \in active : \A y \in active : x <= y
      <4> HIDE DEF active
      <4> QED
        BY <1>2, <3>1, HasSmallest
    <3>3. i \in active
      <4> HIDE DEF active
      <4> QED
        BY <2>1, <3>2 DEF Min
    <3> QED
      BY <3>3, OscFacts
  <2>3. PICK w : w = HaltEach(s, first, i - 1, reset)
    OBVIOUS
  <2>4. PICK q : q = Quiet(w, i)
    OBVIOUS
  <2>5. PICK r \in sound_play(q) :
          t = HaltEach(Settled(Halting(r, i), i, reset), i + 1, NumOsc - 1, reset)
    BY <1>2, <2>1, <2>3, <2>4 DEF HaltFrom
  <2>6. PICK x : x = Settled(Halting(r, i), i, reset)
    OBVIOUS
  <2>7. t = HaltEach(x, i + 1, NumOsc - 1, reset)
    BY <2>5, <2>6
  <2>8. HaltKeeps(s, w, first, reset) /\ Sane(w)
    <3>1. /\ i - 1 \in Int /\ first <= first /\ first <= (i - 1) + 1
          /\ i - 1 < NumOsc
      BY <1>0, <2>2
    <3>2. PICK below \in Int : below = i - 1
      BY <3>1
    <3>3. /\ w = HaltEach(s, first, below, reset)
          /\ first <= below + 1 /\ below < NumOsc
      BY ONLY <2>3, <3>1, <3>2
    <3>4. Sane(s) /\ first \in Int /\ 0 <= first /\ first <= first /\ reset \in BOOLEAN
      OBVIOUS
    <3>5. HaltKeeps(s, w, first, reset)
      BY ONLY <3>2, <3>3, <3>4, EachHalted
    <3> QED
      BY ONLY <3>5 DEF HaltKeeps
  <2>9. HaltKeeps(w, x, first, reset) /\ (reset => x.e0 = {}) /\ Sane(x)
    BY <2>2, <2>4, <2>5, <2>6, <2>8, ActiveHalted DEF HaltKeeps
  <2>10. /\ HaltKeeps(x, t, first, reset)
         /\ reset /\ i + 1 <= NumOsc - 1 => t.e0 = {}
         /\ NumOsc - 1 < i + 1 => t = x
    <3>1. PICK above \in Int, last \in Int : above = i + 1 /\ last = NumOsc - 1
      BY <1>0, <2>2
    <3>2. first \in Int /\ 0 <= first /\ reset \in BOOLEAN
      OBVIOUS
    <3>3. /\ t = HaltEach(x, above, last, reset)
          /\ first <= above /\ above <= last + 1 /\ last < NumOsc
      BY ONLY <1>0, <2>2, <2>7, <3>1, <3>2
    <3>4. /\ HaltKeeps(x, t, first, reset)
          /\ reset /\ above <= last => t.e0 = {}
          /\ last < above => t = x
      BY ONLY <2>9, <3>1, <3>2, <3>3, EachHalted
    <3> QED
      BY ONLY <3>1, <3>4
  <2>11. HaltKeeps(s, t, first, reset)
    BY <2>8, <2>9, <2>10, KeepsOn
  <2>12. i + 1 <= NumOsc - 1 \/ NumOsc - 1 < i + 1
    BY <1>0, <2>2
  <2> QED
    BY <2>9, <2>10, <2>11, <2>12
<1> QED
  BY <1>1, <1>2

(* The number of enabled oscillators is written.                            *)
LEMMA EnabledWritten ==
  ASSUME NEW s, Sane(s), NEW n \in 1 .. NumOsc, NEW u, u = [s EXCEPT !.num_osc_en = n]
  PROVE  /\ Sane(u) /\ u.num_osc_en = n /\ u.regs = s.regs
         /\ Exact(s) => Exact(u)
<1>1. /\ u \in DocState /\ u.regs = s.regs /\ u.num_osc_en = n /\ u.irq = s.irq
      /\ u.num_interrupting = s.num_interrupting /\ u.e0 = s.e0 /\ u.halted = s.halted
  BY DEF Sane, DocState
<1>2. Pending(u) = Pending(s) /\ \A o \in Osc : Rank(u, o) = Rank(s, o)
  BY <1>1 DEF Pending, Rank
<1>3. Counted(u) /\ (Exact(s) => Exact(u))
  BY <1>1, <1>2 DEF Sane, Counted, Exact
<1>4. Unhalted(u)
  BY <1>1 DEF Sane, Unhalted
<1> QED
  BY <1>1, <1>3, <1>4 DEF Sane

(* A set of oscillators that is not larger than one has no two.             *)
LEMMA NoTwo ==
  ASSUME NEW S \in SUBSET Osc, ~ (Cardinality(S) > 1), NEW p \in S, NEW q \in S
  PROVE  p = q
<1> SUFFICES ASSUME p # q PROVE FALSE
  OBVIOUS
<1>1. IsFiniteSet(Osc)
  BY OscAssumption, FS_Interval DEF Osc
<1>2. IsFiniteSet(S) /\ Cardinality(S) \in Nat
  BY <1>1, FS_Subset, FS_CardinalityType
<1>3. IsFiniteSet({p}) /\ Cardinality({p}) = 1
  BY FS_Singleton
<1>4. Cardinality({p} \union {q}) = 2
  <2>1. q \notin {p}
    OBVIOUS
  <2>2. Cardinality({p} \union {q}) = Cardinality({p}) + 1
    BY <1>3, <2>1, FS_AddElement
  <2> QED
    BY <1>3, <2>2
<1>5. Cardinality({p} \union {q}) <= Cardinality(S)
  BY <1>2, FS_Subset
<1> QED
  BY <1>2, <1>4, <1>5

(***************************************************************************)
(* The invariant.  While the emulation runs, line and count are those of   *)
(* the interrupts pending and no oscillator runs that is halted; until     *)
(* oscillators are disabled with interrupts pending, the ranks are those   *)
(* of a queue and every oscillator in it is enabled.                       *)
(***************************************************************************)
DocInv ==
  /\ doc \in DocState /\ orphaned \in BOOLEAN
  /\ doc.halted = {} =>
       /\ Sane(doc)
       /\ ~ orphaned => Exact(doc) /\ Inside(doc)

(* What the two action properties say of a step.                            *)
Awaits ==
  \A o \in Osc : Unawaited(doc', o) => Unawaited(doc, o) \/ doc_handle_event(o)
Ends ==
  \A o \in Osc :
    /\ doc.regs[o].running /\ ~ doc'.regs[o].running
    /\ doc.regs[o].ctl.ie
    => \/ doc'.regs[o].has_irq_pending # 0
       \/ WriteCtl(o, doc'.regs[o].ctl)
       \/ doc_reset
       \/ \E n \in Enabled : n <= o /\ WriteE1(n)

LEMMA DocInitial == Init => DocInv
<1> SUFFICES ASSUME Init PROVE DocInv
  OBVIOUS
<1>1. Initially \in OscState
  BY DEF Initially, OscState, Ctl, Free, Swap
<1>2. /\ doc.regs = [o \in Osc |-> Initially] /\ doc.num_osc_en = 1
      /\ doc.num_interrupting = 0 /\ doc.e0 = {} /\ doc.irq = FALSE /\ doc.halted = {}
  BY DEF Init
<1>3. doc \in DocState /\ orphaned \in BOOLEAN
  <2>1. 1 \in 1 .. NumOsc
    BY OscAssumption
  <2>2. [o \in Osc |-> Initially] \in [Osc -> OscState] /\ [o \in Osc |-> 0] \in [Osc -> Nat]
    BY <1>1
  <2> QED
    BY <2>1, <2>2 DEF Init, DocState
<1>4. \A o \in Osc : Rank(doc, o) = 0 /\ ~ doc.regs[o].running
  BY <1>2 DEF Rank, Initially
<1>5. Pending(doc) = {} /\ Cardinality(Pending(doc)) = 0
  BY <1>4, PendingFinite
<1>6. Counted(doc)
  <2>1. ~ doc.irq /\ ~ (Pending(doc) # {}) /\ doc.irq \in BOOLEAN
    BY <1>2, <1>5
  <2>2. doc.irq = (Pending(doc) # {})
    BY <2>1
  <2>3. doc.num_interrupting = 0 /\ 0 >= 0
    BY <1>2
  <2> QED
    BY <1>5, <2>2, <2>3 DEF Counted
<1>7. Exact(doc)
  BY <1>2, <1>4 DEF Exact
<1> QED
  BY <1>3, <1>4, <1>6, <1>7 DEF DocInv, Sane, Inside, Unhalted

(* Playing sound.                                                           *)
LEMMA UpdateKeeps ==
  ASSUME DocInv, sound_update PROVE DocInv' /\ Awaits /\ Ends
<1>1. Sane(doc)
  BY DEF DocInv, sound_update, Running
<1>2. Plays(doc, doc') /\ Sane(doc')
  BY <1>1, PlayPlays DEF sound_update
<1>3. DocInv'
  <2>1. ~ orphaned => Exact(doc) /\ Inside(doc)
    BY DEF DocInv, sound_update, Running
  <2>2. Exact(doc) => Exact(doc')
    BY <1>2 DEF Plays
  <2>3. Inside(doc) => Inside(doc')
    BY <1>2 DEF Plays, Inside
  <2>4. orphaned' = orphaned /\ orphaned \in BOOLEAN
    BY DEF sound_update, DocInv
  <2> QED
    BY <1>2, <2>1, <2>2, <2>3, <2>4 DEF DocInv, Sane
<1>4. Awaits
  BY <1>2 DEF Plays, Awaits
<1>5. Ends
  BY <1>2 DEF Plays, Ends, Rank
<1> QED
  BY <1>3, <1>4, <1>5

(* An event.                                                                *)
LEMMA EventKeeps ==
  ASSUME DocInv, NEW o \in Osc, doc_handle_event(o) PROVE DocInv' /\ Awaits /\ Ends
<1>1. Sane(doc) /\ doc.queue[o] > 0
  BY DEF DocInv, doc_handle_event, Running
<1>2. /\ Sane(doc') /\ Others(doc, doc', o)
      /\ doc.regs[o].running /\ ~ doc'.regs[o].running /\ doc.regs[o].ctl.ie
           => Rank(doc', o) # 0
      /\ Exact(doc) => Exact(doc')
  BY <1>1, EventHandled DEF doc_handle_event
<1>3. DocInv'
  <2>1. ~ orphaned => Exact(doc) /\ Inside(doc)
    BY DEF DocInv, doc_handle_event, Running
  <2>2. Inside(doc) => Inside(doc')
    BY <1>2, OthersInside
  <2>3. orphaned' = orphaned /\ orphaned \in BOOLEAN
    BY DEF doc_handle_event, DocInv
  <2> QED
    BY <1>2, <2>1, <2>2, <2>3 DEF DocInv, Sane
<1>4. Awaits
  BY <1>2 DEF Others, Awaits
<1>5. Ends
  BY <1>2 DEF Others, Ends, Rank
<1> QED
  BY <1>3, <1>4, <1>5

(* A write of a control register.                                           *)
LEMMA WriteKeeps ==
  ASSUME DocInv, NEW o \in Osc, NEW val \in Controls[o], WriteCtl(o, val)
  PROVE  DocInv' /\ Awaits /\ Ends
<1>1. Sane(doc) /\ val \in Ctl
  BY ControlsAssumption DEF DocInv, WriteCtl, Running
<1>2. /\ Sane(doc') /\ Others(doc, doc', o)
      /\ Unawaited(doc', o) => Unawaited(doc, o)
      /\ doc.regs[o].running /\ ~ doc'.regs[o].running => doc'.regs[o].ctl = val
      /\ Exact(doc) /\ Inside(doc) => Exact(doc')
  BY <1>1, CtlWriting DEF WriteCtl
<1>3. DocInv'
  <2>1. ~ orphaned => Exact(doc) /\ Inside(doc)
    BY DEF DocInv, WriteCtl, Running
  <2>2. Inside(doc) => Inside(doc')
    BY <1>2, OthersInside
  <2>3. orphaned' = orphaned /\ orphaned \in BOOLEAN
    BY DEF WriteCtl, DocInv
  <2> QED
    BY <1>2, <2>1, <2>2, <2>3 DEF DocInv, Sane
<1>4. Awaits
  BY <1>2 DEF Others, Awaits
<1>5. Ends
  <2> SUFFICES ASSUME NEW p \in Osc, doc.regs[p].running, ~ doc'.regs[p].running,
                      doc.regs[p].ctl.ie, Rank(doc', p) = 0
               PROVE  WriteCtl(p, doc'.regs[p].ctl)
    BY DEF Ends, Rank
  <2>1. p = o
    BY <1>2 DEF Others
  <2>2. doc'.regs[p].ctl = val
    BY <1>2, <2>1
  <2> QED
    BY <2>1, <2>2
<1> QED
  BY <1>3, <1>4, <1>5

(* A read of register 0xe0.                                                 *)
LEMMA ReadKeeps ==
  ASSUME DocInv, ReadE0 PROVE DocInv' /\ Awaits /\ Ends
<1>1. Sane(doc)
  BY DEF DocInv, ReadE0, Running
<1>2. ~ orphaned => Exact(doc) /\ Inside(doc)
  BY DEF DocInv, ReadE0, Running
<1>3. orphaned' = orphaned /\ orphaned \in BOOLEAN
  BY DEF ReadE0, DocInv
<1>4. CASE doc.e0 = {}
  <2>1. doc' = doc
    BY <1>4 DEF ReadE0
  <2>2. DocInv'
    BY <1>1, <1>2, <1>3, <2>1 DEF DocInv, Sane
  <2> QED
    BY <2>1, <2>2 DEF Awaits, Ends
<1>5. CASE doc.e0 # {}
  <2>1. PICK o : o = CHOOSE x \in doc.e0 : TRUE
    OBVIOUS
  <2>2. o \in Osc
    BY <1>1, <1>5, <2>1 DEF Sane, DocState
  <2>3. doc' = doc_remove_sound_irq(doc, o, TRUE)
    BY <1>5, <2>1 DEF ReadE0
  <2>4. IrqGone(doc, o, doc')
    BY <2>3 DEF IrqGone
  <2>5. /\ Sane(doc') /\ Others(doc, doc', o)
        /\ doc'.regs[o].ctl = doc.regs[o].ctl
        /\ doc'.regs[o].running = doc.regs[o].running
        /\ doc'.regs[o].event = doc.regs[o].event
        /\ Exact(doc) /\ Inside(doc) => Exact(doc')
    BY <1>1, <2>2, <2>4, IrqGoneOthers
  <2>6. Inside(doc) => Inside(doc')
    BY <2>5, OthersInside
  <2>7. DocInv'
    BY <1>2, <1>3, <2>5, <2>6 DEF DocInv, Sane
  <2>8. Awaits
    BY <2>5 DEF Others, Awaits, Unawaited
  <2>9. Ends
    BY <2>5 DEF Others, Ends, Rank
  <2> QED
    BY <2>7, <2>8, <2>9
<1> QED
  BY <1>4, <1>5

(* A write of register 0xe1.                                                *)
LEMMA DisableKeeps ==
  ASSUME DocInv, NEW n \in Enabled, WriteE1(n) PROVE DocInv' /\ Awaits /\ Ends
<1>0. n \in 1 .. NumOsc /\ n \in Int /\ 0 <= n /\ n <= NumOsc
  BY EnabledAssumption, OscAssumption
<1>1. Sane(doc)
  BY DEF DocInv, WriteE1, Running
<1>2. PICK u : u = [doc EXCEPT !.num_osc_en = n]
  OBVIOUS
<1>3. /\ Sane(u) /\ u.num_osc_en = n /\ u.regs = doc.regs
      /\ Exact(doc) => Exact(u)
  BY <1>0, <1>1, <1>2, EnabledWritten
<1>a. PICK reset \in BOOLEAN : reset = FALSE
  OBVIOUS
<1>4. doc' \in HaltFrom(u, n, reset)
  <2>1. doc' \in HaltFrom(u, n, FALSE)
    BY <1>2 DEF WriteE1
  <2> QED
    BY <1>a, <2>1, Zenon
<1>5. /\ Sane(doc') /\ Goes(u, doc', n)
      /\ Queued(u) => Queued(doc')
  BY <1>0, <1>3, <1>4, <1>a, FromHalted DEF HaltKeeps
<1>6. ASSUME ~ orphaned' PROVE Exact(doc') /\ Inside(doc')
  <2>1. /\ ~ orphaned /\ ~ \E o \in Pending(doc') : o >= n
        /\ ~ (Cardinality({ o \in Pending(doc) : o >= n }) > 1)
    BY <1>6 DEF WriteE1
  <2>2. Exact(u)
    BY <1>3, <2>1 DEF DocInv, WriteE1, Running
  <2>3. Queued(u)
    <3> SUFFICES ASSUME NEW p \in Osc, NEW q \in Osc, Rank(u, p) # 0, p >= n,
                        Rank(u, q) # 0, q >= n
                 PROVE  p = q
      BY <1>3, <2>2 DEF Queued
    <3> DEFINE S == { o \in Pending(doc) : o >= n }
    <3>1. p \in S /\ q \in S /\ S \in SUBSET Osc
      BY <1>3 DEF Pending, Rank
    <3> QED
      BY <2>1, <3>1, NoTwo
  <2>4. Exact(doc')
    BY <1>5, <2>3 DEF Queued
  <2>5. Inside(doc')
    <3>1. doc'.num_osc_en = n
      BY <1>3, <1>5 DEF Goes
    <3>2. \A o \in Osc : Rank(doc', o) # 0 => ~ (o >= n)
      BY <2>1, PendingFinite
    <3> QED
      BY <1>0, <3>1, <3>2, OscFacts DEF Inside
  <2> QED
    BY <2>4, <2>5
<1>7. orphaned' \in BOOLEAN
  BY DEF WriteE1, DocInv
<1>8. DocInv'
  BY <1>5, <1>6, <1>7 DEF DocInv, Sane
<1>9. Awaits
  BY <1>3, <1>5 DEF Awaits, Goes, Unawaited
<1>10. Ends
  <2> SUFFICES ASSUME NEW p \in Osc, doc.regs[p].running, ~ doc'.regs[p].running,
                      doc.regs[p].ctl.ie, Rank(doc', p) = 0
               PROVE  n <= p
    BY DEF Ends, Rank
  <2>1. ~ (p < n)
    BY <1>3, <1>5 DEF Goes
  <2> QED
    BY <1>0, <2>1, OscFacts
<1> QED
  BY <1>8, <1>9, <1>10

(* A reset.                                                                 *)
LEMMA ResetKeeps ==
  ASSUME DocInv, doc_reset PROVE DocInv' /\ Awaits /\ Ends
<1>1. Sane(doc)
  BY DEF DocInv, doc_reset, Running
<1>a. PICK reset \in BOOLEAN : reset = TRUE
  OBVIOUS
<1>2. PICK s \in HaltFrom(doc, 0, reset) :
        doc' = [Halts(s, s.num_interrupting # 0, "count at reset")
                EXCEPT !.num_interrupting = 0, !.num_osc_en = 1, !.irq = FALSE]
  <2>1. HaltFrom(doc, 0, reset) = HaltFrom(doc, 0, TRUE)
    BY <1>a, Zenon
  <2> QED
    BY <2>1 DEF doc_reset
<1>3. Sane(s) /\ Goes(doc, s, 0) /\ s.e0 = {}
  <2>1. 0 \in Int /\ 0 <= 0 /\ 0 <= NumOsc /\ 0 < NumOsc
    BY OscFacts
  <2>2. HaltKeeps(doc, s, 0, reset) /\ (reset => s.e0 = {})
    BY <1>1, <2>1, FromHalted
  <2> QED
    BY <1>a, <2>2 DEF HaltKeeps
<1>4. PICK v : /\ v = s \/ v = Noted(s, "count at reset")
               /\ s.num_interrupting # 0 => v = Noted(s, "count at reset")
               /\ doc' = [v EXCEPT !.num_interrupting = 0, !.num_osc_en = 1, !.irq = FALSE]
  BY <1>2 DEF Halts, Noted
<1>5. s \in DocState /\ "count at reset" \in Checks
  BY <1>3 DEF Sane, Checks
<1>6. /\ v \in DocState /\ v.regs = s.regs /\ SameRanks(s, v)
      /\ s.num_interrupting # 0 => v.halted # {}
  BY <1>4, <1>5, NotedFacts
<1>7. /\ doc' \in DocState /\ doc'.regs = s.regs /\ doc'.e0 = {} /\ doc'.halted = v.halted
      /\ doc'.num_interrupting = 0 /\ doc'.num_osc_en = 1 /\ doc'.irq = FALSE
  <2>1. 1 \in 1 .. NumOsc
    BY OscAssumption
  <2>2. v.e0 = {}
    BY <1>3, <1>6 DEF SameRanks
  <2> QED
    BY <1>4, <1>6, <2>1, <2>2 DEF DocState
<1>8. ASSUME doc'.halted = {} PROVE Sane(doc') /\ Exact(doc') /\ Inside(doc')
  <2>1. s.num_interrupting = 0 /\ s.halted = {}
    BY <1>6, <1>7, <1>8 DEF SameRanks
  <2>2. Cardinality(Pending(s)) = 0
    BY <1>3, <2>1 DEF Sane, Counted
  <2>3. \A o \in Osc : Rank(doc', o) = 0
    BY <1>7, <2>2, PendingFinite DEF Rank
  <2>4. Pending(doc') = {} /\ Cardinality(Pending(doc')) = 0
    BY <2>3, PendingFinite
  <2>5. Counted(doc')
    <3>1. ~ doc'.irq /\ ~ (Pending(doc') # {}) /\ doc'.irq \in BOOLEAN
      BY <1>7, <2>4
    <3>2. doc'.irq = (Pending(doc') # {})
      BY <3>1
    <3>3. doc'.num_interrupting = 0 /\ 0 >= 0
      BY <1>7
    <3> QED
      BY <2>4, <3>2, <3>3 DEF Counted
  <2>6. Exact(doc') /\ Inside(doc')
    BY <1>7, <2>3 DEF Exact, Inside
  <2>7. Unhalted(doc')
    BY <1>3, <1>7 DEF Sane, Unhalted
  <2> QED
    BY <1>7, <2>5, <2>6, <2>7 DEF Sane
<1>9. orphaned' \in BOOLEAN
  BY DEF doc_reset
<1>10. DocInv'
  BY <1>7, <1>8, <1>9 DEF DocInv
<1>11. Awaits
  BY <1>3, <1>7 DEF Awaits, Goes, Unawaited
<1>12. Ends
  BY DEF Ends
<1> QED
  BY <1>10, <1>11, <1>12

LEMMA NextKeeps ==
  ASSUME DocInv, Next PROVE DocInv' /\ Awaits /\ Ends
<1>1. CASE sound_update
  BY <1>1, UpdateKeeps
<1>2. CASE \E o \in Osc : doc_handle_event(o)
  BY <1>2, EventKeeps
<1>3. CASE \E o \in Osc : \E val \in Controls[o] : WriteCtl(o, val)
  BY <1>3, WriteKeeps
<1>4. CASE ReadE0
  BY <1>4, ReadKeeps
<1>5. CASE \E n \in Enabled : WriteE1(n)
  BY <1>5, DisableKeeps
<1>6. CASE doc_reset
  BY <1>6, ResetKeeps
<1> QED
  BY <1>1, <1>2, <1>3, <1>4, <1>5, <1>6 DEF Next

(* What an oscillator does to the device and the guest to it keeps the      *)
(* invariant.                                                               *)
THEOREM DocKeepsInv == Spec => []DocInv
<1>1. DocInv /\ [Next]_vars => DocInv'
  <2> SUFFICES ASSUME DocInv, [Next]_vars PROVE DocInv'
    OBVIOUS
  <2>1. CASE Next
    BY <2>1, NextKeeps
  <2>2. CASE UNCHANGED vars
    BY <2>2 DEF vars, DocInv
  <2> QED
    BY <2>1, <2>2
<1> QED
  BY <1>1, DocInitial, PTL DEF Spec

(* The line is up exactly while an interrupt is pending, as many are as the *)
(* count says, and their ranks are 1 to that count with 0xe0 naming the     *)
(* first (doc_add_sound_irq, doc_remove_sound_irq), for any number of       *)
(* oscillators.                                                             *)
THEOREM RanksAreExact == Spec => []RanksExact
<1>1. DocInv => RanksExact
  <2> SUFFICES ASSUME DocInv, doc.halted = {} PROVE RanksExact
    BY DEF RanksExact, Running
  <2> DEFINE count == Cardinality(Pending(doc))
  <2>1. doc \in DocState /\ Counted(doc)
    BY DEF DocInv, Sane
  <2>2. count \in Nat /\ (count = 0 <=> Pending(doc) = {})
    BY PendingFinite
  <2>3. doc.num_interrupting = count /\ doc.irq = (Pending(doc) # {})
    BY <2>1 DEF Counted
  <2>4. doc.irq = (count > 0)
    BY <2>2, <2>3
  <2>5. ASSUME ~ orphaned
        PROVE  /\ { doc.regs[o].has_irq_pending : o \in Pending(doc) } = 1 .. count
               /\ doc.e0 = { o \in Osc : doc.regs[o].has_irq_pending = 1 }
    <3>1. Exact(doc)
      BY <2>5 DEF DocInv
    <3> DEFINE R == { doc.regs[o].has_irq_pending : o \in Pending(doc) }
    <3>2. R \subseteq 1 .. count
      <4> SUFFICES ASSUME NEW o \in Osc, Rank(doc, o) # 0 PROVE Rank(doc, o) \in 1 .. count
        BY PendingFinite DEF Rank
      <4>1. Rank(doc, o) \in 0 .. count
        BY <2>3, <3>1 DEF Exact
      <4> HIDE DEF count
      <4> QED
        BY <2>2, <4>1
    <3>3. ASSUME NEW k \in 1 .. count PROVE k \in R
      <4>1. PICK o \in Osc : Rank(doc, o) = k
        BY <2>3, <3>1 DEF Exact
      <4>2. o \in Pending(doc)
        BY <2>2, <3>3, <4>1, PendingFinite
      <4> QED
        BY <4>1, <4>2 DEF Rank
    <3>4. R = 1 .. count
      BY <3>2, <3>3
    <3>5. doc.e0 = { o \in Osc : doc.regs[o].has_irq_pending = 1 }
      BY <3>1 DEF Exact, Rank
    <3> QED
      BY <3>4, <3>5
  <2> HIDE DEF count
  <2>6. RanksExact <=> (Running =>
          /\ doc.irq = (count > 0) /\ doc.num_interrupting = count
          /\ ~ orphaned =>
               /\ { doc.regs[o].has_irq_pending : o \in Pending(doc) } = 1 .. count
               /\ doc.e0 = { o \in Osc : doc.regs[o].has_irq_pending = 1 })
    BY DEF RanksExact, count
  <2> QED
    BY <2>3, <2>4, <2>5, <2>6
<1> QED
  BY <1>1, DocKeepsInv, PTL

(* An oscillator that plays with its interrupt enabled has its event until  *)
(* that event comes (doc_wave_end_estimate, doc_write_ctl_reg).             *)
THEOREM EndsAreAwaited == Spec => EndAwaited
<1>1. DocInv /\ [Next]_vars => [Awaits]_vars
  BY NextKeeps
<1>2. [][Awaits]_vars => EndAwaited
  <2>1. [Awaits]_vars =>
        [\A o \in Osc : Unawaited(doc', o) => Unawaited(doc, o) \/ doc_handle_event(o)]_vars
    BY DEF Awaits
  <2> QED
    BY <2>1, PTL DEF EndAwaited
<1> QED
  BY <1>1, <1>2, DocKeepsInv, PTL DEF Spec

(* An oscillator that stops by itself with its interrupt enabled leaves it  *)
(* pending (doc_sound_end), unless its registers were written, the device   *)
(* was reset or it was disabled.                                            *)
THEOREM EndsInterrupt == Spec => EndInterrupts
<1>1. DocInv /\ [Next]_vars => [Ends]_vars
  BY NextKeeps
<1>2. [][Ends]_vars => EndInterrupts
  <2>1. [Ends]_vars =>
        [\A o \in Osc :
           /\ doc.regs[o].running /\ ~ doc'.regs[o].running
           /\ doc.regs[o].ctl.ie
           => \/ doc'.regs[o].has_irq_pending # 0
              \/ WriteCtl(o, doc'.regs[o].ctl)
              \/ doc_reset
              \/ \E n \in Enabled : n <= o /\ WriteE1(n)]_vars
    BY DEF Ends
  <2> QED
    BY <2>1, PTL DEF EndInterrupts
<1> QED
  BY <1>1, <1>2, DocKeepsInv, PTL DEF Spec

===============================================================================
