------------------------------- MODULE MainLoop -------------------------------
(***************************************************************************)
(* The emulator's main loop: run_16ms, run_a2_one_vbl, enter_engine, the   *)
(* 65816 engine's control (its stop time, its return code, the interrupt   *)
(* mask, WAI and STP), handle_action, the event dispatch, and the debugger *)
(* commands and resets that reach them.                                    *)
(*                                                                         *)
(* The guest program is any sequence of instructions: one that is plain,   *)
(* rewrites the status register, waits, stops, or touches a device's       *)
(* registers (starts or cancels its event, raises or acknowledges its      *)
(* interrupt).  Times are relative to g_last_vbl_dfcyc, the start of the   *)
(* current frame, in units of the "+ 1" that ends the engine.              *)
(***************************************************************************)
EXTENDS EventOps, Integers

CONSTANTS
  EV_60HZ,      \* the frame event
  Devs,         \* the devices that have an event and an interrupt line
  ResetDevs,    \* those whose reset cancels their event
  Costs,        \* how long an instruction may take
  FrameLen,     \* CYCLES_IN_16MS_RAW
  Delays,       \* how far ahead, or behind, a device's event is put
  HaltOnIrq     \* Halt_on has HALT_ON_IRQ (the debugger's H command)

ASSUME SourcesAssumption ==
  /\ EV_60HZ \notin Devs
  /\ Evs = Devs \cup {EV_60HZ}
  /\ ResetDevs \subseteq Devs
ASSUME TimesAssumption ==
  /\ Costs \subseteq Nat \ {0, 1} /\ Costs # {} /\ IsFiniteSet(Costs)
  /\ FrameLen \in Nat \ {0}
  /\ Delays \subseteq Int
  /\ MaxAhead >= 2 * FrameLen
ASSUME FrameAssumption == \A cost \in Costs : 1 + cost < FrameLen
ASSUME PoolAssumption == IsFiniteSet(Devs) /\ MaxEvents > Cardinality(Devs)
ASSUME HaltAssumption == HaltOnIrq \in BOOLEAN

VARIABLES
  pc,              \* where the host thread is
  queue,           \* the event list
  g_cur_dfcyc,     \* when the engine last returned
  dfcyc,           \* engine.dfcyc, the time inside the engine
  g_dcycles_end,   \* when the engine stops
  stop,            \* dcycles_end_save of enter_engine
  g_ret1,          \* the engine's return code
  runs8,           \* the 8-bit engine (enter_engine_acc8) is running
  g_irq_pending,
  mask,            \* psr bit 2: interrupts are masked
  acc8,            \* psr bit 5: which engine, 8 or 16 bits, must run
  at,              \* the instruction kpc is at, when it matters
  g_wait_pending,
  g_stp_pending,
  g_halt_sim,
  g_stepping

cpu == <<mask, acc8, at, g_wait_pending, g_stp_pending>>
engine == <<dfcyc, g_dcycles_end, stop, g_ret1, runs8>>
vars == <<pc, queue, g_cur_dfcyc, engine, g_irq_pending, cpu, g_halt_sim,
          g_stepping>>

Phases == {"idle", "loop", "engine", "action", "events"}
Rets == {"0", "RET_IRQ", "RET_PSR", "RET_STP", "RET_WDM"}
Places == {"wai", "stp", "other"}

(* g_dcycles_end = 0: before every time.                                    *)
Ended == -1

Bare(ev) == [ev |-> ev, arg |-> 0]
Queued(ev) == Bare(ev) \in TypesOf(queue)

Init ==
  /\ pc = "idle"
  /\ queue = <<[dfcyc |-> FrameLen, type |-> Bare(EV_60HZ)]>>
  /\ g_cur_dfcyc = 0
  /\ dfcyc = 0
  /\ g_dcycles_end = Ended
  /\ stop = Ended
  /\ g_ret1 = "0" /\ runs8 = TRUE
  /\ g_irq_pending = {}
  /\ mask = TRUE /\ acc8 = TRUE /\ at = "other"
  /\ g_wait_pending = FALSE /\ g_stp_pending = FALSE
  /\ g_halt_sim = FALSE /\ g_stepping = FALSE

-------------------------------------------------------------------------------
(* Adding and removing events and interrupts, from wherever they are.       *)

Inserted(q, time, ev) ==
  LET i == CHOOSE j \in InsertSlots(q, time) : TRUE
  IN InsertAt(q, i, [dfcyc |-> time, type |-> Bare(ev)])

Removed(q, ev) ==
  RemoveAt(q, CHOOSE i \in RemoveSlots(q, Bare(ev), "full") : TRUE)

(* What is left of the list once the events of devs have been removed.      *)
Without(q, devs) ==
  LET upTo[i \in 0 .. Len(q)] ==
        IF i = 0 THEN <<>>
        ELSE IF q[i].type.ev \in devs THEN upTo[i - 1]
             ELSE Append(upTo[i - 1], q[i])
  IN upTo[Len(q)]

(* What a handler asks to be filed, if anything: a device's event, so far   *)
(* from now.                                                                *)
Filings == [files : BOOLEAN, dev : Devs, delay : Delays]

(* add_event_doc, add_event_scc, add_event_mockingboard and                 *)
(* add_event_scan_int put a time that has passed at g_cur_dfcyc.            *)
Clipped(time, cur) == IF time < cur THEN cur ELSE time

FilingTime(time, cur) == FiledTime(Clipped(time, cur), cur)

(* add_event_entry halts for a time it refuses.                             *)
Refused(f, cur) == f.files /\ BadTime(Clipped(cur + f.delay, cur), cur)

(* The list after the filing: an event the device had filed is moved.       *)
After(q, f, cur) ==
  IF f.files
  THEN Inserted(Without(q, {f.dev}), FilingTime(cur + f.delay, cur), f.dev)
  ELSE q

(* Mutant: the engine is not stopped for the new event.                     *)
RecalcsNever(q, time) == FALSE

(* add_event_entry's call of engine_recalc_events.                          *)
Recalcs(q, time) == BecomesFirst(q, time)

(* add_irq's call of engine_recalc_events.                                  *)
IrqRecalcs(irq) == irq \notin g_irq_pending

(* check_breakpoints or an unmapped access may halt inside an instruction;  *)
(* set_halt_act zeroes g_dcycles_end.                                       *)
EndAfter(hit, zeroed) ==
  /\ g_halt_sim' = (g_halt_sim \/ hit)
  /\ g_dcycles_end' = IF hit \/ zeroed THEN Ended ELSE g_dcycles_end

(* One more instruction is fetched: while(dfcyc <= g_dcycles_end).          *)
Fetch(cost) ==
  /\ pc = "engine"
  /\ dfcyc <= g_dcycles_end
  /\ dfcyc' = dfcyc + cost
  /\ UNCHANGED <<pc, g_cur_dfcyc, stop, runs8, g_stepping>>

GoesOn(place) == at' = place /\ UNCHANGED <<acc8, g_wait_pending, g_stp_pending>>

-------------------------------------------------------------------------------
(* The instructions.  "hit" is a breakpoint or other halt on the way.       *)

Plain(cost, hit, place) ==
  /\ at \notin {"wai", "stp"}
  /\ Fetch(cost) /\ GoesOn(place) /\ EndAfter(hit, FALSE)
  /\ UNCHANGED <<queue, g_ret1, g_irq_pending, mask>>

(* SEI.                                                                     *)
Sei(cost, hit, place) ==
  /\ at \notin {"wai", "stp"}
  /\ Fetch(cost) /\ GoesOn(place) /\ EndAfter(hit, FALSE)
  /\ mask' = TRUE
  /\ UNCHANGED <<queue, g_ret1, g_irq_pending>>

(* CLI leaves the engine when an interrupt is waiting.                      *)
Cli(cost, hit, place) ==
  /\ at \notin {"wai", "stp"}
  /\ Fetch(cost) /\ GoesOn(place)
  /\ EndAfter(hit, g_irq_pending # {})
  /\ mask' = FALSE
  /\ g_ret1' = IF g_irq_pending # {} THEN "RET_IRQ" ELSE g_ret1
  /\ UNCHANGED <<queue, g_irq_pending>>

(* Mutant: a change of width does not leave the engine.                     *)
PsrRetNoWidth(i, m) ==
  IF ~ i /\ g_irq_pending # {} THEN "RET_IRQ" ELSE "0"

(* UPDATE_PSR: the second FINISH overwrites the first one's return code.    *)
PsrRet(i, m) ==
  IF m # acc8 THEN "RET_PSR"
  ELSE IF ~ i /\ g_irq_pending # {} THEN "RET_IRQ" ELSE "0"

(* PLP, RTI, REP, SEP and XCE.                                              *)
UpdatePsr(cost, hit, place, i, m) ==
  /\ at \notin {"wai", "stp"}
  /\ Fetch(cost)
  /\ EndAfter(hit, PsrRet(i, m) # "0")
  /\ g_ret1' = PsrRet(i, m)
  /\ mask' = i /\ acc8' = m /\ at' = place
  /\ UNCHANGED <<queue, g_irq_pending, g_wait_pending, g_stp_pending>>

WaiGoesOn == g_irq_pending # {}

(* WAI stays where it is until an interrupt is pending, masked or not.      *)
Wai(cost, hit, place) ==
  /\ at = "wai"
  /\ Fetch(cost) /\ EndAfter(hit, FALSE)
  /\ g_wait_pending' = ~ WaiGoesOn
  /\ at' = IF WaiGoesOn THEN place ELSE at
  /\ UNCHANGED <<queue, g_ret1, g_irq_pending, mask, acc8, g_stp_pending>>

(* STP stays where it is and leaves the engine.                             *)
Stp(cost, hit) ==
  /\ at = "stp"
  /\ Fetch(cost) /\ EndAfter(hit, TRUE)
  /\ g_ret1' = "RET_STP"
  /\ UNCHANGED <<queue, g_irq_pending, mask, acc8, at, g_wait_pending,
                 g_stp_pending>>

(* WDM leaves the engine for a disk call or another service of the host.    *)
Wdm(cost, hit, place) ==
  /\ at \notin {"wai", "stp"}
  /\ Fetch(cost) /\ GoesOn(place) /\ EndAfter(hit, TRUE)
  /\ g_ret1' = "RET_WDM"
  /\ UNCHANGED <<queue, g_irq_pending, mask>>

(* An access to a device register that starts the device's event, or moves  *)
(* it, as the Mockingboard's and the scan line's interrupts do.  The time   *)
(* may have passed, and may even be before the engine was entered.          *)
StartEvent(cost, hit, place, dev, delay) ==
  LET others == Without(queue, {dev})
      time == Clipped(dfcyc + delay, g_cur_dfcyc)
      filed == FilingTime(dfcyc + delay, g_cur_dfcyc)
  IN
  /\ at \notin {"wai", "stp"}
  /\ BadTime(time, g_cur_dfcyc) => hit
  /\ Fetch(cost) /\ GoesOn(place)
  /\ EndAfter(hit, Recalcs(others, filed))
  /\ queue' = Inserted(others, filed, dev)
  /\ UNCHANGED <<g_ret1, g_irq_pending, mask>>

(* One that cancels it.                                                     *)
StopEvent(cost, hit, place, dev) ==
  /\ at \notin {"wai", "stp"}
  /\ Queued(dev)
  /\ Fetch(cost) /\ GoesOn(place) /\ EndAfter(hit, FALSE)
  /\ queue' = Removed(queue, dev)
  /\ UNCHANGED <<g_ret1, g_irq_pending, mask>>

(* One that raises or removes the device's interrupt.                       *)
RaiseIrq(cost, hit, place, irq) ==
  /\ at \notin {"wai", "stp"}
  /\ Fetch(cost) /\ GoesOn(place) /\ EndAfter(hit, IrqRecalcs(irq))
  /\ g_irq_pending' = g_irq_pending \cup {irq}
  /\ UNCHANGED <<queue, g_ret1, mask>>

RemoveIrq(cost, hit, place, irq) ==
  /\ at \notin {"wai", "stp"}
  /\ Fetch(cost) /\ GoesOn(place) /\ EndAfter(hit, FALSE)
  /\ g_irq_pending' = g_irq_pending \ {irq}
  /\ UNCHANGED <<queue, g_ret1, mask>>

(* The ADB reset command: do_reset, called from inside an instruction.  The *)
(* engine keeps the processor's registers in locals and writes them back,   *)
(* so the new psr and kpc are lost.                                         *)
AdbReset(cost, hit, place) ==
  /\ at \notin {"wai", "stp"}
  /\ pc = "engine"
  /\ dfcyc <= g_dcycles_end
  /\ dfcyc' = dfcyc + cost
  /\ EndAfter(hit, FALSE)
  /\ g_irq_pending' = {}
  /\ queue' = Without(queue, ResetDevs)
  /\ g_wait_pending' = FALSE /\ g_stp_pending' = FALSE /\ g_stepping' = FALSE
  /\ at' = place
  /\ UNCHANGED <<pc, g_cur_dfcyc, stop, g_ret1, runs8, mask, acc8>>

Instruction ==
  \E cost \in Costs, hit \in BOOLEAN, place \in Places :
    \/ Plain(cost, hit, place) \/ Sei(cost, hit, place) \/ Cli(cost, hit, place)
    \/ \E i, m \in BOOLEAN : UpdatePsr(cost, hit, place, i, m)
    \/ Wai(cost, hit, place) \/ Stp(cost, hit) \/ Wdm(cost, hit, place)
    \/ \E dev \in Devs, delay \in Delays : StartEvent(cost, hit, place, dev, delay)
    \/ \E dev \in Devs : \/ StopEvent(cost, hit, place, dev)
                         \/ RaiseIrq(cost, hit, place, dev)
    \/ \E irq \in Evs : RemoveIrq(cost, hit, place, irq)
    \/ AdbReset(cost, hit, place)

-------------------------------------------------------------------------------
(* run_a2_one_vbl.                                                          *)

(* Mutant: the engine is stopped an instruction early, to be on time.       *)
StopTimeShort == IF g_stepping THEN g_cur_dfcyc + 1 ELSE queue[1].dfcyc - 2

(* When the engine is told to stop: just past the first event.              *)
StopTime == IF g_stepping THEN g_cur_dfcyc + 1 ELSE queue[1].dfcyc + 1

(* Mutant: no interrupt is taken while the debugger steps.                  *)
TakesIrqRunning == g_irq_pending # {} /\ ~ mask /\ ~ g_stepping

TakesIrq == g_irq_pending # {} /\ ~ mask

(* The top of the loop: take_irq, which steps over a WAI, and the call of   *)
(* the engine.  A halt in take_irq zeroes g_dcycles_end before it is set.   *)
EnterEngine ==
  /\ pc = "loop"
  /\ \E place \in Places :
       IF TakesIrq
       THEN /\ mask' = TRUE /\ at' = place /\ g_wait_pending' = FALSE
            /\ g_halt_sim' = (g_halt_sim \/ HaltOnIrq)
       ELSE UNCHANGED <<mask, at, g_wait_pending, g_halt_sim>>
  /\ dfcyc' = g_cur_dfcyc
  /\ stop' = StopTime /\ g_dcycles_end' = StopTime
  /\ g_ret1' = "0" /\ runs8' = acc8
  /\ pc' = "engine"
  /\ UNCHANGED <<queue, g_cur_dfcyc, g_irq_pending, acc8, g_stp_pending,
                 g_stepping>>

(* enter_engine goes on with the other engine after a change of width.      *)
Restarts == g_ret1 = "RET_PSR" /\ ~ g_halt_sim

RestartEngine ==
  /\ pc = "engine" /\ dfcyc > g_dcycles_end
  /\ Restarts
  /\ g_dcycles_end' = stop
  /\ g_ret1' = "0" /\ runs8' = acc8
  /\ UNCHANGED <<pc, queue, g_cur_dfcyc, dfcyc, stop, g_irq_pending, cpu,
                 g_halt_sim, g_stepping>>

(* The stop times are dead from here until EnterEngine sets them again.     *)
LeaveEngine ==
  /\ pc = "engine" /\ dfcyc > g_dcycles_end
  /\ ~ Restarts
  /\ g_cur_dfcyc' = dfcyc
  /\ pc' = IF g_ret1 = "0" THEN "events" ELSE "action"
  /\ g_dcycles_end' = Ended /\ stop' = Ended
  /\ UNCHANGED <<queue, dfcyc, g_ret1, runs8, g_irq_pending, cpu, g_halt_sim,
                 g_stepping>>

(* handle_action: do_stp halts once, do_wdm may halt, and a code that has   *)
(* no case halts ("Unknown special action").                                *)
handle_action ==
  /\ pc = "action"
  /\ \E halts \in BOOLEAN :
       /\ g_halt_sim' = (g_halt_sim \/
            CASE g_ret1 = "RET_IRQ" -> FALSE
              [] g_ret1 = "RET_STP" -> ~ g_stp_pending
              [] g_ret1 = "RET_WDM" -> halts
              [] OTHER -> TRUE)
       /\ g_stp_pending' = (g_stp_pending \/ g_ret1 = "RET_STP")
  /\ pc' = "events"
  /\ g_ret1' = "0"
  /\ UNCHANGED <<queue, g_cur_dfcyc, dfcyc, g_dcycles_end, stop, runs8,
                 g_irq_pending, mask, acc8, at, g_wait_pending, g_stepping>>

Due == queue # <<>> /\ g_cur_dfcyc >= queue[1].dfcyc

(* A device's handler may raise its interrupt, may file its next event or   *)
(* another oscillator's, and may halt.                                      *)
DeviceEvent(f, raises, hit) ==
  LET dev == queue[1].type.ev IN
  /\ pc = "events" /\ Due /\ dev \in Devs
  /\ Refused(f, g_cur_dfcyc) => hit
  /\ queue' = After(Tail(queue), f, g_cur_dfcyc)
  /\ g_irq_pending' = IF raises THEN g_irq_pending \cup {dev} ELSE g_irq_pending
  /\ g_halt_sim' = (g_halt_sim \/ hit)
  /\ UNCHANGED <<pc, g_cur_dfcyc, engine, cpu, g_stepping>>

(* The frame event is filed again for the frame's end.                      *)
NextFrame(rest) == Inserted(rest, 2 * FrameLen, EV_60HZ)

(* The list in the times of the next frame.                                 *)
Shifted(q) == [i \in 1 .. Len(q) |-> [q[i] EXCEPT !.dfcyc = @ - FrameLen]]

(* update_60hz: the frame's start moves up, the next frame event is filed,  *)
(* then the blanking's (add_event_vbl) and a scan line's                    *)
(* (check_scan_line_int) if they are asked for; frame-driven interrupts may *)
(* be raised, and run_a2_one_vbl returns at once, whatever else is due.     *)
update_60hz(vbl, scan, raises, hit) ==
  LET now == g_cur_dfcyc - FrameLen
      next == Shifted(NextFrame(Tail(queue)))
  IN
  /\ pc = "events" /\ Due /\ queue[1].type = Bare(EV_60HZ)
  /\ Refused(vbl, now) \/ Refused(scan, now) => hit
  /\ queue' = After(After(next, vbl, now), scan, now)
  /\ g_cur_dfcyc' = now /\ dfcyc' = now
  /\ g_irq_pending' = IF raises THEN g_irq_pending \cup {EV_60HZ}
                                ELSE g_irq_pending
  /\ g_halt_sim' = (g_halt_sim \/ hit)
  /\ pc' = "idle"
  /\ UNCHANGED <<g_dcycles_end, stop, g_ret1, runs8, cpu, g_stepping>>

(* Nothing more is due: once more around, or out.                           *)
NextRound ==
  /\ pc = "events" /\ ~ Due
  /\ pc' = IF g_halt_sim \/ g_stepping THEN "idle" ELSE "loop"
  /\ UNCHANGED <<queue, g_cur_dfcyc, engine, g_irq_pending, cpu, g_halt_sim,
                 g_stepping>>

(* run_16ms calls run_a2_one_vbl; a halted emulator runs the debugger.      *)
run_16ms ==
  /\ pc = "idle" /\ ~ g_halt_sim
  /\ pc' = "loop"
  /\ UNCHANGED <<queue, g_cur_dfcyc, engine, g_irq_pending, cpu, g_halt_sim,
                 g_stepping>>

-------------------------------------------------------------------------------
(* What the user does between two calls of run_a2_one_vbl.                  *)

(* The debugger's g command, which may be given an address to go to.        *)
do_go(place) ==
  /\ pc = "idle"
  /\ g_halt_sim' = FALSE /\ g_stepping' = FALSE
  /\ at' = place
  /\ UNCHANGED <<pc, queue, g_cur_dfcyc, engine, g_irq_pending, mask, acc8,
                 g_wait_pending, g_stp_pending>>

(* Its s command; do_step does nothing more.                                *)
step(place) ==
  /\ pc = "idle"
  /\ g_stepping' = TRUE
  /\ at' = place
  /\ UNCHANGED <<pc, queue, g_cur_dfcyc, engine, g_irq_pending, mask, acc8,
                 g_wait_pending, g_stp_pending, g_halt_sim>>

(* do_reset from the keyboard, the debugger or the configuration panel.     *)
do_reset ==
  /\ pc = "idle"
  /\ g_irq_pending' = {}
  /\ queue' = Without(queue, ResetDevs)
  /\ mask' = TRUE /\ acc8' = TRUE /\ at' = "other"
  /\ g_wait_pending' = FALSE /\ g_stp_pending' = FALSE /\ g_stepping' = FALSE
  /\ UNCHANGED <<pc, g_cur_dfcyc, engine, g_halt_sim>>

-------------------------------------------------------------------------------
Handler ==
  \E raises, hit \in BOOLEAN :
    \/ \E f \in Filings : DeviceEvent(f, raises, hit)
    \/ \E vbl, scan \in Filings : update_60hz(vbl, scan, raises, hit)

Host == \/ EnterEngine \/ RestartEngine \/ LeaveEngine \/ handle_action
        \/ NextRound \/ run_16ms

User == do_reset \/ \E place \in Places : do_go(place) \/ step(place)

Next == Instruction \/ Handler \/ Host \/ User

Spec == Init /\ [][Next]_vars

(* A handler that leaves no event due that it files.                        *)
HandlerAhead ==
  \E f \in Filings, raises, hit \in BOOLEAN :
    (f.files => f.delay > 0) /\ DeviceEvent(f, raises, hit)

(* The host thread keeps running; the user need not do anything.  Handlers  *)
(* do not file events that are already due for ever: do_scan_int does so    *)
(* only for a later line, and the others file ahead of the time they are    *)
(* given (scc_maybe_br_event, doc_wave_end_estimate, mock_update_timers).   *)
FairSpec == Spec /\ WF_vars(Instruction \/ Handler \/ Host)
                 /\ SF_vars(HandlerAhead)

-------------------------------------------------------------------------------
TypeOK ==
  /\ pc \in Phases
  /\ queue \in Seq(Event) /\ Len(queue) <= MaxEvents
  /\ \A i, j \in 1 .. Len(queue) : i # j => queue[i].type # queue[j].type
  /\ Queued(EV_60HZ)
  /\ {g_cur_dfcyc, dfcyc} \subseteq Nat
  /\ {g_dcycles_end, stop} \subseteq Nat \cup {Ended}
  /\ g_ret1 \in Rets
  /\ g_irq_pending \subseteq Evs
  /\ at \in Places
  /\ {runs8, mask, acc8, g_wait_pending, g_stp_pending, g_halt_sim, g_stepping}
       \subseteq BOOLEAN

(* The engine starts no instruction with an event overdue: whatever was     *)
(* filed on the way, in front of the others, at once or in the past, and    *)
(* whatever frame, halt or change of width came between, an event waits for *)
(* no more than the instruction under way when it came due or was filed.    *)
(* Only the debugger's step runs its one instruction in any case            *)
(* (run_a2_one_vbl, enter_engine, engine_recalc_events).                    *)
EventsOnTime ==
  /\ pc = "engine" /\ dfcyc <= g_dcycles_end
  /\ ~ (g_stepping /\ dfcyc = g_cur_dfcyc)
  => \A i \in 1 .. Len(queue) : dfcyc <= queue[i].dfcyc + 1

(* While the engine goes on fetching, it is the one for the accumulator's   *)
(* width, and nothing has asked for a halt: whatever several reasons to     *)
(* leave met in one instruction, enter_engine did not lose one of them      *)
(* (UPDATE_PSR, set_halt_act, enter_engine).                                *)
EngineHeeds ==
  pc = "engine" /\ dfcyc <= g_dcycles_end => runs8 = acc8 /\ ~ g_halt_sim

(* Every call of run_a2_one_vbl returns, so that the window is drawn and    *)
(* keys are read, whatever the guest and the devices do (run_16ms).         *)
FramesGoOn == []<>(pc = "idle")

(* An interrupt that stays up and unmasked is taken, unless the emulator is *)
(* halted, also when the debugger steps (run_a2_one_vbl, take_irq).         *)
IrqTaken ==
  (g_irq_pending # {} /\ ~ mask)
    ~> (g_irq_pending = {} \/ mask \/ g_halt_sim)

===============================================================================
