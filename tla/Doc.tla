---------------------------------- MODULE Doc ----------------------------------
(***************************************************************************)
(* The oscillators of the Ensoniq DOC and their interrupts (doc.c).        *)
(* Nothing steps an oscillator: sound_play catches the sound up to now     *)
(* when a register is about to change, when a frame ends and when the      *)
(* event comes that doc_wave_end_estimate booked for the end of a wave     *)
(* whose interrupt, or whose partner's, is enabled.                        *)
(*                                                                         *)
(* Where a wave ends and whether it ends on a zero byte depends on sound   *)
(* data, frequencies and times: here any oscillator that runs may end, in  *)
(* either way, whenever sound is played.  A halt_printf of the code's own  *)
(* consistency checks stops the emulation and is recorded in "halted".     *)
(***************************************************************************)
EXTENDS Integers, FiniteSets, FiniteSetsExt

CONSTANTS
  NumOsc,    \* the oscillators, in pairs: 32
  Controls,  \* [Osc -> SUBSET Ctl]: what the guest writes to the registers
  Enabled    \* the numbers of oscillators it enables

Osc == 0 .. NumOsc - 1
Free == 0     OneShot == 1     Sync == 2     Swap == 3
Ctl == [halt : BOOLEAN, mode : Free .. Swap, ie : BOOLEAN]

ASSUME OscAssumption == NumOsc \in Nat \ {0} /\ NumOsc % 2 = 0
ASSUME ControlsAssumption == Controls \in [Osc -> SUBSET Ctl]
ASSUME EnabledAssumption == Enabled \subseteq 1 .. NumOsc

VARIABLES
  doc,      \* the registers, flags and counters the handlers work on
  orphaned  \* whether oscillators were disabled, since the last reset, with
            \* an interrupt that stayed pending or with several at once: kept
            \* for the properties, never read

vars == <<doc, orphaned>>

Doc_reg == [ctl : Ctl, running : BOOLEAN, event : BOOLEAN,
            has_irq_pending : 0 .. NumOsc]
Initially == [ctl |-> [halt |-> TRUE, mode |-> Free, ie |-> FALSE],
              running |-> FALSE, event |-> FALSE, has_irq_pending |-> 0]

(* doc_init, and the doc_reset of the first do_reset.                       *)
Init ==
  /\ doc = [regs |-> [o \in Osc |-> Initially],
            queue |-> [o \in Osc |-> 0], \* the EV_DOC_INTs in the event list
            num_osc_en |-> 1,
            num_interrupting |-> 0,      \* g_num_osc_interrupting
            e0 |-> {},                   \* {} is bit 7: no oscillator named
            irq |-> FALSE,               \* IRQ_PENDING_DOC
            halted |-> {}]
  /\ orphaned = FALSE

Partner(o) == IF o % 2 = 0 THEN o + 1 ELSE o - 1
Pending(s) == { o \in Osc : s.regs[o].has_irq_pending # 0 }
Halts(s, when, why) == IF when THEN [s EXCEPT !.halted = @ \union {why}] ELSE s

-------------------------------------------------------------------------------
(* Events and interrupts.                                                   *)

doc_remove_sound_event(s, o) ==
  IF ~ s.regs[o].event
    THEN s
    ELSE Halts([s EXCEPT !.regs[o].event = FALSE,
                         !.queue[o] = IF @ = 0 THEN 0 ELSE @ - 1],
               s.queue[o] = 0, "no event")

(* Mutant: only the partner's interrupt is thought of.                      *)
doc_wave_end_estimate_partner(s, o) ==
  LET removed == doc_remove_sound_event(s, o) IN
  IF s.regs[Partner(o)].ctl.ie
    THEN [removed EXCEPT !.regs[o].event = TRUE, !.queue[o] = @ + 1]
    ELSE removed

(* The end of the wave is booked when somebody waits for it.                *)
doc_wave_end_estimate(s, o) ==
  LET removed == doc_remove_sound_event(s, o) IN
  IF s.regs[o].ctl.ie \/ s.regs[Partner(o)].ctl.ie
    THEN [removed EXCEPT !.regs[o].event = TRUE, !.queue[o] = @ + 1]
    ELSE removed

(* The interrupting oscillators are ranked in the order they came: 0xe0     *)
(* names the first.                                                         *)
doc_add_sound_irq(s, o) ==
  LET rank == s.num_interrupting + 1 IN
  Halts([s EXCEPT !.regs[o].has_irq_pending = rank,
                  !.num_interrupting = rank,
                  !.irq = TRUE,
                  !.e0 = IF rank = 1 THEN {o} ELSE @],
        s.regs[o].has_irq_pending # 0, "added twice")

(* Mutant: the oscillators behind the one removed keep their ranks.         *)
ClosedUpNot(s, rank) == s.regs

MovedUp(regs, o, rank) ==
  IF regs[o].has_irq_pending > rank
    THEN [regs EXCEPT ![o].has_irq_pending = @ - 1] ELSE regs

(* The enabled oscillators ranked after the one that goes move up.          *)
ClosedUp(s, rank) ==
  LET closed[n \in 0 .. s.num_osc_en] ==
        IF n = 0 THEN s.regs ELSE MovedUp(closed[n - 1], n - 1, rank)
  IN closed[s.num_osc_en]

Removed(s, o) ==
  LET rank == s.regs[o].has_irq_pending
      gone == [s EXCEPT !.regs[o].has_irq_pending = 0, !.num_interrupting = @ - 1]
      regs == ClosedUp(gone, rank)
      first == { i \in 0 .. s.num_osc_en - 1 : regs[i].has_irq_pending = 1 }
  IN [gone EXCEPT !.regs = regs,
                  !.irq = @ /\ gone.num_interrupting # 0,
                  !.e0 = IF rank # 1 THEN @ ELSE IF first = {} THEN {} ELSE {Max(first)}]

doc_remove_sound_irq(s, o, must) ==
  LET pending == s.regs[o].has_irq_pending # 0
      after == IF pending THEN Removed(s, o) ELSE s
  IN Halts(Halts(after, must /\ ~ pending, "no interrupt"),
           after.e0 = {} /\ Pending(after) # {}, "interrupt left")

-------------------------------------------------------------------------------
(* Starting and ending.                                                     *)

Stopped(s, o) == [s EXCEPT !.regs[o].ctl.halt = TRUE]
Runs(s, o) == Halts([s EXCEPT !.regs[o].running = TRUE],
                    s.regs[o].running, "already running")

(* An oscillator that is not enabled is halted instead.                     *)
Started(s, o) ==
  IF o >= s.num_osc_en THEN Stopped(s, o) ELSE doc_wave_end_estimate(Runs(s, o), o)

(* An even oscillator in sync mode starts its odd partner, if that is       *)
(* halted in sync mode.                                                     *)
doc_start_sound(s, o) ==
  LET other == s.regs[Partner(o)].ctl
      unhalted == [Runs(s, o) EXCEPT !.regs[Partner(o)].ctl.halt = FALSE]
  IN IF /\ o < s.num_osc_en
        /\ s.regs[o].ctl.mode = Sync /\ o % 2 = 0
        /\ other.mode = Sync /\ other.halt
       THEN doc_wave_end_estimate(Started(unhalted, Partner(o)), o)
       ELSE Started(s, o)

(* Mutant: an interrupt is only added when no oscillator has one.           *)
InterruptedAlone(s, o) ==
  IF s.regs[o].ctl.ie /\ Pending(s) = {} THEN doc_add_sound_irq(s, o) ELSE s

(* What the end of the wave makes of the oscillator's interrupt.            *)
Interrupted(s, o) ==
  IF s.regs[o].ctl.ie /\ s.regs[o].has_irq_pending = 0
    THEN doc_add_sound_irq(s, o) ELSE s

(* Of a pair in swap mode the partner goes on, if it is halted.             *)
HandedOver(s, o, repeat) ==
  LET other == s.regs[Partner(o)]
      one_shot_stop == s.regs[o].ctl.mode = OneShot /\ ~ repeat
  IN IF ~ one_shot_stop /\ ~ other.running /\ other.ctl.halt
       THEN doc_start_sound([Stopped(s, o) EXCEPT
                               !.regs[Partner(o)].ctl.halt = FALSE], Partner(o))
       ELSE Stopped(s, o)

(* The wave of o has come to its end, or to a zero byte, which does not     *)
(* repeat.                                                                  *)
doc_sound_end(s, o, repeat) ==
  LET quiet == doc_remove_sound_event(s, o)
      mode == s.regs[o].ctl.mode
      ended == [Halts(Interrupted(quiet, o), ~ s.regs[o].running, "not running")
                EXCEPT !.regs[o].running = FALSE]
  IN IF s.regs[o].ctl.halt THEN Halts(quiet, TRUE, "already stopped")
     ELSE IF mode = Free /\ repeat THEN doc_start_sound(ended, o)
     ELSE IF Swap \in {mode, s.regs[Partner(o)].ctl.mode}
       THEN HandedOver(ended, o, repeat)
     ELSE Stopped(ended, o)

-------------------------------------------------------------------------------
(* Playing.                                                                 *)

(* What becomes of an oscillator: it plays on, comes to the end of its wave *)
(* or to a zero byte.                                                       *)
Fates(s, o) ==
  {s} \union IF s.regs[o].running
               THEN { doc_sound_end(s, o, repeat) : repeat \in BOOLEAN } ELSE {}

(* One round of doc_play over the enabled oscillators, in their order.      *)
Round(s) ==
  LET played[n \in 0 .. s.num_osc_en] ==
        IF n = 0 THEN {s} ELSE UNION { Fates(t, n - 1) : t \in played[n - 1] }
  IN played[s.num_osc_en]

(* Rounds go on until every oscillator has reached the present: two show    *)
(* an oscillator that ends after it was started in the same call.           *)
sound_play(s) == UNION { Round(t) : t \in Round(s) }

-------------------------------------------------------------------------------
(* The control register.                                                    *)

Halted(s, o, val) == [s EXCEPT !.regs[o].ctl = val, !.regs[o].running = FALSE]
Quiet(s, o) == doc_remove_sound_event(doc_remove_sound_irq(s, o, FALSE), o)

(* What a write of the control register comes to.  The interrupt of the     *)
(* oscillator goes whatever is written, unless nothing changes.             *)
doc_write_ctl_reg(s, o, val) ==
  LET old == s.regs[o].ctl
      removed == doc_remove_sound_irq(s, o, FALSE)
      written == { [t EXCEPT !.regs[o].ctl = val] : t \in sound_play(removed) }
  IN CASE old = val -> {s}
       [] old # val /\ val.halt ->
            { Halted(t, o, val) : t \in IF old.halt THEN {Quiet(s, o)}
                                        ELSE sound_play(Quiet(s, o)) }
       [] old # val /\ ~ val.halt /\ old.halt ->
            { doc_start_sound(t, o) : t \in written }
       [] OTHER -> { IF val.ie /\ ~ old.ie THEN doc_wave_end_estimate(t, o) ELSE t
                     : t \in written }

(* What doc_reset checks and clears of each oscillator.                     *)
Cleared(s, o) ==
  Halts([s EXCEPT !.regs[o].has_irq_pending = 0, !.e0 = {}],
        s.regs[o].has_irq_pending # 0, "interrupt at reset")

Settled(s, o, reset) == IF reset THEN Cleared(s, o) ELSE s
Halting(s, o) == Halted(s, o, [s.regs[o].ctl EXCEPT !.halt = TRUE])

HaltOne(s, o, reset) ==
  Settled(IF s.regs[o].ctl.halt THEN s ELSE Halting(Quiet(s, o), o), o, reset)

(* Those from a to b, one after the other.                                  *)
HaltEach(s, a, b, reset) ==
  LET f[n \in a .. b + 1] == IF n = a THEN s ELSE HaltOne(f[n - 1], n - 1, reset)
  IN f[b + 1]

(* The oscillators from "first" on are halted one after the other, each     *)
(* settled then.  Only the first that runs plays sound: no time passes      *)
(* after it.  A reset clears each as well.                                  *)
HaltFrom(s, first, reset) ==
  LET active == { o \in Osc : o >= first /\ ~ s.regs[o].ctl.halt }
      i == Min(active)
  IN IF active = {} THEN {HaltEach(s, first, NumOsc - 1, reset)}
     ELSE { HaltEach(Settled(Halting(t, i), i, reset), i + 1, NumOsc - 1, reset)
            : t \in sound_play(Quiet(HaltEach(s, first, i - 1, reset), i)) }

-------------------------------------------------------------------------------
(* The handlers.  Nothing runs once the emulation has stopped.              *)

Running == doc.halted = {}

(* A frame ends, or the guest reads the data register or changes a register *)
(* of an oscillator that plays, or the volume.                              *)
sound_update ==
  /\ Running /\ doc' \in sound_play(doc) /\ UNCHANGED orphaned

doc_handle_event(o) ==
  /\ Running /\ doc.queue[o] > 0
  /\ doc' \in sound_play([doc EXCEPT !.queue[o] = @ - 1, !.regs[o].event = FALSE])
  /\ UNCHANGED orphaned

WriteCtl(o, val) ==
  /\ Running /\ doc' \in doc_write_ctl_reg(doc, o, val) /\ UNCHANGED orphaned

(* Register 0xe0 read: the interrupt it names is over.                      *)
ReadE0 ==
  /\ Running
  /\ doc' = IF doc.e0 = {} THEN doc
            ELSE doc_remove_sound_irq(doc, CHOOSE o \in doc.e0 : TRUE, TRUE)
  /\ UNCHANGED orphaned

(* Register 0xe1 written: those no longer enabled are halted.               *)
WriteE1(n) ==
  /\ Running
  /\ doc' \in HaltFrom([doc EXCEPT !.num_osc_en = n], n, FALSE)
  /\ orphaned' = \/ orphaned
                 \/ \E o \in Pending(doc') : o >= n
                 \/ Cardinality({ o \in Pending(doc) : o >= n }) > 1

(* The line goes with all others when do_reset has reset the devices.       *)
doc_reset ==
  /\ Running
  /\ doc' \in { [Halts(s, s.num_interrupting # 0, "count at reset")
                 EXCEPT !.num_interrupting = 0, !.num_osc_en = 1, !.irq = FALSE]
                : s \in HaltFrom(doc, 0, TRUE) }
  /\ orphaned' = FALSE

Next ==
  \/ sound_update
  \/ \E o \in Osc : doc_handle_event(o)
  \/ \E o \in Osc : \E val \in Controls[o] : WriteCtl(o, val)
  \/ ReadE0
  \/ \E n \in Enabled : WriteE1(n)
  \/ doc_reset

Spec == Init /\ [][Next]_vars

-------------------------------------------------------------------------------
TypeOK ==
  /\ doc.regs \in [Osc -> Doc_reg]
  /\ doc.queue \in [Osc -> 0 .. 1]
  /\ doc.num_osc_en \in {1} \union Enabled
  /\ doc.num_interrupting \in 0 .. NumOsc
  /\ doc.e0 \subseteq Osc /\ Cardinality(doc.e0) <= 1
  /\ doc.irq \in BOOLEAN /\ orphaned \in BOOLEAN

(* The line is up exactly while an oscillator's interrupt is pending, as    *)
(* many are as g_num_osc_interrupting says, and they are ranked without a   *)
(* gap or a tie with 0xe0 naming the first, so that the guest is told of    *)
(* each once and in order.                                                  *)
RanksExact == Running =>
  LET count == Cardinality(Pending(doc)) IN
  /\ doc.irq = (count > 0) /\ doc.num_interrupting = count
  /\ ~ orphaned =>
       /\ { doc.regs[o].has_irq_pending : o \in Pending(doc) } = 1 .. count
       /\ doc.e0 = { o \in Osc : doc.regs[o].has_irq_pending = 1 }

Unawaited(s, o) == s.regs[o].running /\ s.regs[o].ctl.ie /\ ~ s.regs[o].event

(* An oscillator that plays with its interrupt enabled and has no event     *)
(* lost it when the event came, and in no other way.                        *)
EndAwaited ==
  [][\A o \in Osc :
       Unawaited(doc', o) => Unawaited(doc, o) \/ doc_handle_event(o)]_vars

(* An oscillator that stops by itself with its interrupt enabled leaves     *)
(* that interrupt pending.                                                  *)
EndInterrupts ==
  [][\A o \in Osc :
       /\ doc.regs[o].running /\ ~ doc'.regs[o].running
       /\ doc.regs[o].ctl.ie
       => \/ doc'.regs[o].has_irq_pending # 0
          \/ WriteCtl(o, doc'.regs[o].ctl)
          \/ doc_reset
          \/ \E n \in Enabled : n <= o /\ WriteE1(n)]_vars
===============================================================================
