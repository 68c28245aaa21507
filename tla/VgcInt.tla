-------------------------------- MODULE VgcInt --------------------------------
(***************************************************************************)
(* The video interrupts of the Apple IIgs: the scan-line and one-second    *)
(* interrupts of the VGC ($C023, $C032), the vertical-blanking and         *)
(* quarter-second interrupts of the Mega II ($C041, $C046, $C047), the     *)
(* scan-line event that follows the SCBs, and the frame event.             *)
(*                                                                         *)
(* A register is the set of its bits that are on.  Times are relative to   *)
(* g_last_vbl_dfcyc; a frame is Lines lines of LineLen.  An instruction    *)
(* begins no later than the first event is due, and its access to a        *)
(* register falls up to MaxCost after it began.                            *)
(***************************************************************************)
EXTENDS Integers, FiniteSets

CONSTANTS
  Lines,          \* 262 lines from one frame event to the next
  Visible,        \* 200 of them have an SCB
  VblLine,        \* 192, the line the VBL interrupt comes at
  LineLen,        \* 65 cycles
  MaxCost,        \* the longest instruction
  QuarterFrames,  \* 16 frames make a quarter second
  SecondFrames    \* 60 frames make a second

ASSUME FrameAssumption ==
  /\ {Lines, Visible, VblLine, LineLen, MaxCost} \subseteq Nat \ {0}
  /\ VblLine < Visible /\ Visible < Lines
  /\ MaxCost < LineLen * (Lines - Visible)
ASSUME CountAssumption == {QuarterFrames, SecondFrames} \subseteq Nat \ {0}

VARIABLES
  pc,                \* "idle", "engine" or "events"
  now,               \* the time in the engine
  g_cur_dfcyc,       \* when the engine was entered, and when it returned
  g_c023_val,        \* en_scan 02, en_1sec 04, scan 20, 1sec 40, vgc 80
  g_c041_val,        \* vbl 08, 25sec 10: the enables
  g_c046_val,        \* vbl 08, 25sec 10: the status
  g_irq_pending,     \* SCAN, 1SEC, 25SEC, VBL
  scb,               \* the lines whose SCB has the interrupt bit
  shr,               \* super hi-res is on
  scan_event,        \* the queued EV_SCAN_INT, or NoScan
  g_dfcyc_scan_int,  \* its time, or None when none is queued
  g_scan_int_events,
  vbl_event,         \* an EV_VBL_INT is queued, always for VblLine
  g_25sec_cntr,
  g_1sec_cntr

regs == <<g_c023_val, g_c041_val, g_c046_val, g_irq_pending>>
screen == <<scb, shr>>
scan == <<scan_event, g_dfcyc_scan_int, g_scan_int_events>>
counters == <<g_25sec_cntr, g_1sec_cntr>>
vars == <<pc, now, g_cur_dfcyc, regs, screen, scan, vbl_event, counters>>

C023 == {"en_scan", "en_1sec", "scan", "1sec", "vgc"}
C041 == {"vbl", "25sec"}
Irqs == {"SCAN", "1SEC", "25SEC", "VBL"}
ScbLines == 0 .. Visible - 1
FrameLen == LineLen * Lines

None == -1
VblTime == LineLen * VblLine

Init ==
  /\ pc = "idle" /\ now = 0 /\ g_cur_dfcyc = 0
  /\ g_c023_val = {} /\ g_c041_val = {} /\ g_c046_val = {}
  /\ g_irq_pending = {}
  /\ scb \in SUBSET ScbLines
  /\ shr = FALSE
  /\ scan_event = [dfcyc |-> None, line |-> None] /\ g_dfcyc_scan_int = None
  /\ g_scan_int_events = FALSE
  /\ vbl_event = FALSE
  /\ g_25sec_cntr = 0 /\ g_1sec_cntr = 0

-------------------------------------------------------------------------------
(* The scan-line event.                                                     *)

(* get_lines_since_vbl: past the frame's end update_60hz has not run yet,   *)
(* and the counters already show the next frame's first line.               *)
LineAt(t) ==
  LET line == t \div LineLen IN IF line < Lines THEN line ELSE line - Lines

(* The first line from "start" on whose SCB asks for an interrupt.          *)
NextScbLine(lines, start) ==
  { l \in lines : l >= start /\ \A k \in lines : k >= start => l <= k }

(* The scan-line event and its two flags, as one value.                     *)
NoScan == [dfcyc |-> None, line |-> None]
ScanNow == [event |-> scan_event, time |-> g_dfcyc_scan_int,
            flag |-> g_scan_int_events]
SetScan(s) ==
  /\ scan_event' = s.event
  /\ g_dfcyc_scan_int' = s.time
  /\ g_scan_int_events' = s.flag

(* The pending event is not later than the wanted time.                     *)
Keeps(time, wanted) == time # None /\ wanted >= time

(* add_event_scan_int: the earlier of the new and the pending event stays,  *)
(* and one that is already past is put at g_cur_dfcyc.                      *)
add_event_scan_int(s, line, cur) ==
  LET wanted == LineLen * line
      dfcyc == IF wanted < cur THEN cur ELSE wanted
  IN  IF Keeps(s.time, wanted) THEN [s EXCEPT !.flag = TRUE]
      ELSE [event |-> [dfcyc |-> dfcyc, line |-> line], time |-> dfcyc,
            flag |-> TRUE]

(* check_scan_line_int's early returns.                                     *)
MayScan(c023, on) == on /\ "scan" \notin c023

(* check_scan_line_int: the event for the first line from "start" on.       *)
check_scan_line_int(s, start, lines, c023, on, cur) ==
  IF MayScan(c023, on) /\ NextScbLine(lines, start) # {}
  THEN add_event_scan_int(s, CHOOSE l \in NextScbLine(lines, start) : TRUE, cur)
  ELSE s

-------------------------------------------------------------------------------
(* The guest's accesses, at time "now + cost" of an instruction.            *)

FirstDue ==
  LET due == {FrameLen} \cup (IF vbl_event THEN {VblTime} ELSE {})
             \cup (IF scan_event # NoScan THEN {scan_event.dfcyc} ELSE {})
  IN  CHOOSE t \in due : \A u \in due : t <= u

Access(cost) ==
  /\ pc = "engine"
  /\ now <= FirstDue
  /\ now' = now + cost
  /\ UNCHANGED <<pc, g_cur_dfcyc, vbl_event, counters>>

(* Mutant: disabling the scan-line interrupt leaves its line up.            *)
C023IrqsLeftUp(bits) ==
  LET on == g_irq_pending
            \cup (IF {"en_scan", "scan"} \subseteq bits THEN {"SCAN"} ELSE {})
            \cup (IF {"en_1sec", "1sec"} \subseteq bits THEN {"1SEC"} ELSE {})
  IN  on \ (IF "en_1sec" \notin bits THEN {"1SEC"} ELSE {})

(* The lines after a write of $C023 left "bits" in it.                      *)
C023Irqs(bits) ==
  LET on == g_irq_pending
            \cup (IF {"en_scan", "scan"} \subseteq bits THEN {"SCAN"} ELSE {})
            \cup (IF {"en_1sec", "1sec"} \subseteq bits THEN {"1SEC"} ELSE {})
  IN  on \ ((IF "en_scan" \notin bits THEN {"SCAN"} ELSE {})
            \cup (IF "en_1sec" \notin bits THEN {"1SEC"} ELSE {}))

Vgc(irqs) == IF irqs \cap {"SCAN", "1SEC"} # {} THEN {"vgc"} ELSE {}

write_c023(cost, enables) ==
  LET bits == (g_c023_val \cap {"scan", "1sec"}) \cup enables IN
  /\ Access(cost)
  /\ g_irq_pending' = C023Irqs(bits)
  /\ g_c023_val' = bits \cup Vgc(g_irq_pending')
  /\ UNCHANGED <<g_c041_val, g_c046_val, screen, scan>>

AckedIrqs(acks) ==
  (IF "1sec" \in acks THEN {"1SEC"} ELSE {})
  \cup (IF "scan" \in acks THEN {"SCAN"} ELSE {})

(* A write of $C032 with zeroes in the status bits it clears.  The clearing *)
(* of the scan-line status looks for the next line.                         *)
write_c032(cost, zeroes) ==
  LET acks == zeroes \cap g_c023_val IN
  /\ Access(cost)
  /\ g_irq_pending' = g_irq_pending \ AckedIrqs(acks)
  /\ g_c023_val' = (IF acks = {} THEN g_c023_val
                                 ELSE (g_c023_val \ acks) \ {"vgc"})
                   \cup Vgc(g_irq_pending')
  /\ IF "scan" \in acks
     THEN SetScan(check_scan_line_int(ScanNow, LineAt(now'), scb, g_c023_val',
                                      shr, g_cur_dfcyc))
     ELSE UNCHANGED scan
  /\ UNCHANGED <<g_c041_val, g_c046_val, screen>>

(* Mutant: disabling the vertical-blanking interrupt leaves its line up.    *)
DisabledIrqs25(enables) == IF "25sec" \in enables THEN {} ELSE {"25SEC"}

DisabledIrqs(enables) ==
  (IF "25sec" \in enables THEN {} ELSE {"25SEC"})
  \cup (IF "vbl" \in enables THEN {} ELSE {"VBL"})

write_c041(cost, enables) ==
  /\ Access(cost)
  /\ g_c041_val' = enables
  /\ g_irq_pending' = g_irq_pending \ DisabledIrqs(enables)
  /\ UNCHANGED <<g_c023_val, g_c046_val, screen, scan>>

(* A read or a write of $C047.                                              *)
access_c047(cost) ==
  /\ Access(cost)
  /\ g_irq_pending' = g_irq_pending \ {"25SEC", "VBL"}
  /\ g_c046_val' = {}
  /\ UNCHANGED <<g_c023_val, g_c041_val, screen, scan>>

(* A write of $C029 that turns super hi-res on or off.                      *)
write_c029(cost, on) ==
  /\ Access(cost)
  /\ shr' = on
  /\ UNCHANGED <<regs, scb, scan>>

(* A write of an SCB; scb_changed looks for a new line when the interrupt   *)
(* bit goes on.                                                             *)
write_scb(cost, line) ==
  /\ Access(cost)
  /\ \/ /\ line \in scb
        /\ scb' = scb \ {line}
        /\ UNCHANGED scan
     \/ /\ line \notin scb
        /\ scb' = scb \cup {line}
        /\ SetScan(check_scan_line_int(ScanNow, LineAt(now'), scb', g_c023_val,
                                       shr, g_cur_dfcyc))
  /\ UNCHANGED <<regs, shr>>

(* An instruction that touches none of these registers.                     *)
Plain(cost) == Access(cost) /\ UNCHANGED <<regs, screen, scan>>

Instruction ==
  \E cost \in 1 .. MaxCost :
    \/ \E enables \in SUBSET {"en_scan", "en_1sec"} : write_c023(cost, enables)
    \/ \E zeroes \in SUBSET {"scan", "1sec"} : write_c032(cost, zeroes)
    \/ \E enables \in SUBSET C041 : write_c041(cost, enables)
    \/ access_c047(cost) \/ Plain(cost)
    \/ \E on \in BOOLEAN : write_c029(cost, on)
    \/ \E line \in ScbLines : write_scb(cost, line)

(* do_reset, between two calls of the main loop or from an instruction.     *)
do_reset ==
  /\ pc \in {"idle", "engine"}
  /\ g_c023_val' = {} /\ g_c041_val' = {} /\ g_irq_pending' = {}
  /\ shr' = FALSE
  /\ UNCHANGED <<pc, now, g_cur_dfcyc, g_c046_val, scb, scan, vbl_event,
                 counters>>

-------------------------------------------------------------------------------
(* The main loop and the handlers of the events.                            *)

EnterEngine ==
  /\ pc = "idle"
  /\ pc' = "engine"
  /\ now' = g_cur_dfcyc
  /\ UNCHANGED <<g_cur_dfcyc, regs, screen, scan, vbl_event, counters>>

(* The engine runs at least one instruction, unless it is past the first    *)
(* event already; it may leave after any.                                   *)
LeaveEngine ==
  /\ pc = "engine"
  /\ now > g_cur_dfcyc \/ now > FirstDue
  /\ pc' = "events"
  /\ g_cur_dfcyc' = now
  /\ UNCHANGED <<now, regs, screen, scan, vbl_event, counters>>

Due(t) == pc = "events" /\ t = FirstDue /\ g_cur_dfcyc >= t

do_vbl_int ==
  /\ vbl_event /\ Due(VblTime)
  /\ vbl_event' = FALSE
  /\ IF "vbl" \in g_c041_val
     THEN /\ g_c046_val' = g_c046_val \cup {"vbl"}
          /\ g_irq_pending' = g_irq_pending \cup {"VBL"}
     ELSE UNCHANGED <<g_c046_val, g_irq_pending>>
  /\ UNCHANGED <<pc, now, g_cur_dfcyc, g_c023_val, g_c041_val, screen, scan,
                 counters>>

(* Mutant: the SCB is not looked at again.                                  *)
StillWantedAlways(line) == shr

(* The SCB may have been cleared since the event was queued.                *)
StillWanted(line) == line \in scb /\ shr

(* Mutant: the flag is left for update_60hz to clear.                       *)
ScanTakenFlagged == [event |-> NoScan, time |-> None, flag |-> g_scan_int_events]

(* do_scan_int begins by forgetting the event.                              *)
ScanTaken == [event |-> NoScan, time |-> None, flag |-> FALSE]

(* do_scan_int: the interrupt, if the SCB still asks for it, or the event   *)
(* of the next line that does.                                              *)
do_scan_int ==
  LET line == scan_event.line IN
  /\ scan_event # NoScan /\ Due(scan_event.dfcyc)
  /\ \/ /\ StillWanted(line)
        /\ g_c023_val' = g_c023_val \cup {"scan", "vgc"}
        /\ g_irq_pending' = g_irq_pending \cup
             (IF "en_scan" \in g_c023_val THEN {"SCAN"} ELSE {})
        /\ SetScan(ScanTaken)
     \/ /\ ~ StillWanted(line)
        /\ SetScan(check_scan_line_int(ScanTaken, line + 1, scb, g_c023_val,
                                       shr, g_cur_dfcyc))
        /\ UNCHANGED <<g_c023_val, g_irq_pending>>
  /\ UNCHANGED <<pc, now, g_cur_dfcyc, g_c041_val, g_c046_val, screen,
                 vbl_event, counters>>

(* A counter that goes up once a frame and starts again at "limit".         *)
Ticked(counter, limit) == IF counter + 1 >= limit THEN 0 ELSE counter + 1

(* Mutant: an event that is still queued keeps its line's search from the   *)
(* frames that follow.                                                      *)
NeedsScanNever(s) == FALSE

(* update_60hz files the frame's VBL event.                                 *)
FilesVbl == "vbl" \in g_c041_val

(* update_60hz looks for the frame's first line unless an event is queued.  *)
NeedsScan(s) == ~ s.flag

(* update_60hz: the frame's start moves up by FrameLen, the VBL event is    *)
(* filed, the quarter-second and one-second interrupts are raised when      *)
(* their frame has come, and the first scan line is looked for.             *)
update_60hz ==
  LET cur == g_cur_dfcyc - FrameLen
      quarter == Ticked(g_25sec_cntr, QuarterFrames) = 0
      second == Ticked(g_1sec_cntr, SecondFrames) = 0
      irq25 == quarter /\ "25sec" \in g_c041_val
      irq1 == second /\ "en_1sec" \in g_c023_val
      late == IF scan_event = NoScan THEN ScanNow
              ELSE [event |-> [scan_event EXCEPT !.dfcyc = @ - FrameLen],
                    time |-> g_dfcyc_scan_int - FrameLen,
                    flag |-> g_scan_int_events]
  IN
  /\ Due(FrameLen)
  /\ pc' = "idle"
  /\ now' = cur /\ g_cur_dfcyc' = cur
  /\ vbl_event' = FilesVbl
  /\ g_25sec_cntr' = Ticked(g_25sec_cntr, QuarterFrames)
  /\ g_1sec_cntr' = Ticked(g_1sec_cntr, SecondFrames)
  /\ g_c046_val' = g_c046_val \cup (IF irq25 THEN {"25sec"} ELSE {})
  /\ g_c023_val' = g_c023_val \cup (IF second THEN {"1sec"} ELSE {})
                              \cup (IF irq1 THEN {"vgc"} ELSE {})
  /\ g_irq_pending' = g_irq_pending \cup (IF irq25 THEN {"25SEC"} ELSE {})
                                    \cup (IF irq1 THEN {"1SEC"} ELSE {})
  /\ SetScan(IF NeedsScan(late)
             THEN check_scan_line_int(late, 0, scb, g_c023_val', shr, cur)
             ELSE late)
  /\ UNCHANGED <<g_c041_val, screen>>

(* Nothing is due: the engine is entered again, or the main loop returns.   *)
NextRound ==
  /\ pc = "events" /\ g_cur_dfcyc < FirstDue
  /\ pc' = "idle"
  /\ UNCHANGED <<now, g_cur_dfcyc, regs, screen, scan, vbl_event, counters>>

MainLoop == \/ Instruction \/ EnterEngine \/ LeaveEngine \/ NextRound
            \/ do_vbl_int \/ do_scan_int \/ update_60hz

Next == MainLoop \/ do_reset

Spec == Init /\ [][Next]_vars

(* The host thread keeps running the main loop.                             *)
FairSpec == Spec /\ WF_vars(MainLoop)

-------------------------------------------------------------------------------
TypeOK ==
  /\ pc \in {"idle", "engine", "events"}
  /\ now \in Nat /\ g_cur_dfcyc \in Nat
  /\ g_c023_val \subseteq C023
  /\ g_c041_val \subseteq C041 /\ g_c046_val \subseteq C041
  /\ g_irq_pending \subseteq Irqs
  /\ scb \subseteq ScbLines
  /\ scan_event \in [dfcyc : Nat, line : ScbLines] \cup {NoScan}
  /\ g_dfcyc_scan_int \in Nat \cup {None}
  /\ shr \in BOOLEAN /\ g_scan_int_events \in BOOLEAN /\ vbl_event \in BOOLEAN
  /\ g_25sec_cntr \in 0 .. QuarterFrames - 1
  /\ g_1sec_cntr \in 0 .. SecondFrames - 1

(* The VGC's interrupt lines are up exactly when their status and their     *)
(* enable are both on in $C023, and then its summary bit is on, after any   *)
(* order of events, acknowledgements, enables and resets.                   *)
VgcIrqExact ==
  /\ "SCAN" \in g_irq_pending <=> {"en_scan", "scan"} \subseteq g_c023_val
  /\ "1SEC" \in g_irq_pending <=> {"en_1sec", "1sec"} \subseteq g_c023_val
  /\ Vgc(g_irq_pending) \subseteq g_c023_val

(* A Mega II interrupt line that is up is enabled in $C041 and shown in     *)
(* $C046, so that the handler finds its cause and can clear it.             *)
MegaIrqExplained ==
  /\ "VBL" \in g_irq_pending => "vbl" \in g_c041_val \cap g_c046_val
  /\ "25SEC" \in g_irq_pending => "25sec" \in g_c041_val \cap g_c046_val

(* The two flags and the event list agree on whether a scan-line event is   *)
(* queued and when: a flag left up would keep update_60hz and               *)
(* add_event_scan_int from ever queueing another.  None is queued while one *)
(* is unacknowledged: the halt "c023 scan_int and another on line" of       *)
(* do_scan_int cannot happen.                                               *)
ScanEventBooked ==
  /\ g_scan_int_events <=> scan_event # NoScan
  /\ g_dfcyc_scan_int = scan_event.dfcyc
  /\ "scan" \in g_c023_val => scan_event = NoScan

(* A scan-line interrupt is not given on a line whose SCB was cleared       *)
(* before the line came ("not take a scan-line int if the SCB was cleared   *)
(* right before the raster got to this line").                              *)
ClearedScbNotTaken ==
  [][ "scan" \in g_c023_val' \ g_c023_val => scan_event.line \in scb /\ shr ]_vars

(* A line whose SCB keeps asking is always found again, however the guest   *)
(* acknowledges, moves other SCBs and resets: the scan-line status comes on *)
(* again and again, or stays on (do_scan_int, check_scan_line_int).         *)
ScanLineComes ==
  \A line \in ScbLines :
    <>[](shr /\ line \in scb) => []<>("scan" \in g_c023_val)

-------------------------------------------------------------------------------
(* What the source says of itself and the code does not do.                 *)

(* A scan-line event is filed for the time of its own line: what is past    *)
(* when it is filed is past by no more than the line and an instruction     *)
(* ("scan_int for line 0 is found during EV_60HZ, and some cycles may have  *)
(* passed", add_event_scan_int).                                            *)
ScanOnItsLine ==
  scan_event # NoScan =>
    scan_event.dfcyc <= LineLen * (scan_event.line + 1) + MaxCost
===============================================================================
