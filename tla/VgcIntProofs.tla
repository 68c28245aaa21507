----------------------------- MODULE VgcIntProofs -----------------------------
(***************************************************************************)
(* Proofs about VgcInt, for frames of any number of lines of any length,   *)
(* any instruction times and any counters.                                 *)
(*                                                                         *)
(* The interrupt lines and the scan-line event only depend on each other   *)
(* through $C023, so the three invariants are proved together with the     *)
(* types.  The types need that a scan-line event which update_60hz moves   *)
(* to the new frame is not due before the frame's end: that is the event   *)
(* list's order, here FirstDue.                                            *)
(***************************************************************************)
EXTENDS VgcInt, TLAPS

ScanEvents == [dfcyc : Nat, line : ScbLines] \cup {NoScan}
ScanStates == [event : ScanEvents, time : Nat \cup {None}, flag : BOOLEAN]

(* ScanEventBooked of the three values as one.                              *)
Booked(s, c023) ==
  /\ s.flag <=> s.event # NoScan
  /\ s.time = s.event.dfcyc
  /\ "scan" \in c023 => s.event = NoScan

IInv == TypeOK /\ VgcIrqExact /\ MegaIrqExplained /\ ScanEventBooked

(* A line of the frame is at a natural time, and a frame is not empty.      *)
LEMMA FrameTimes ==
  /\ FrameLen \in Nat \ {0} /\ VblTime \in Nat
  /\ \A line \in ScbLines : line \in Nat /\ LineLen * line \in Nat
<1>1. LineLen \in Nat \ {0} /\ Lines \in Nat \ {0} /\ VblLine \in Nat /\ Visible \in Nat
  BY FrameAssumption
<1>2. \A m, n \in Nat : m * n \in Nat
  OBVIOUS
<1>3. \A m, n \in Nat \ {0} : m * n # 0
  OBVIOUS
<1> QED BY <1>1, <1>2, <1>3 DEF FrameLen, VblTime, ScbLines

(* The queued times have an earliest one.                                   *)
LEMMA FirstDueFirst ==
  ASSUME TypeOK
  PROVE  /\ FirstDue \in Nat
         /\ FirstDue <= FrameLen
         /\ scan_event # NoScan => FirstDue <= scan_event.dfcyc
<1> DEFINE due == {FrameLen} \cup (IF vbl_event THEN {VblTime} ELSE {})
                  \cup (IF scan_event # NoScan THEN {scan_event.dfcyc} ELSE {})
<1>1. scan_event # NoScan => scan_event.dfcyc \in Nat
  BY DEF TypeOK
<1>2. due \in SUBSET Nat
  BY <1>1, FrameTimes
<1>3. \E t \in due : \A u \in due : t <= u
  <2>1. PICK a \in {FrameLen} \cup (IF vbl_event THEN {VblTime} ELSE {}) :
          \A u \in {FrameLen} \cup (IF vbl_event THEN {VblTime} ELSE {}) : a <= u
    BY FrameTimes
  <2>2. CASE scan_event # NoScan /\ scan_event.dfcyc <= a
    BY <1>1, <1>2, <2>1, <2>2, FrameTimes
  <2>3. CASE ~ (scan_event # NoScan /\ scan_event.dfcyc <= a)
    BY <1>1, <1>2, <2>1, <2>3, FrameTimes
  <2> QED BY <2>2, <2>3
<1>4. FirstDue = CHOOSE t \in due : \A u \in due : t <= u
  BY DEF FirstDue
<1>5. FirstDue \in due /\ \A u \in due : FirstDue <= u
  BY <1>3, <1>4
<1> QED BY <1>2, <1>5

(* A search for the next line keeps the event and its flags in agreement,   *)
(* and files nothing while the last interrupt is unacknowledged.            *)
LEMMA SearchBooked ==
  ASSUME NEW s \in ScanStates, NEW start, NEW lines \in SUBSET ScbLines,
         NEW c023, NEW on \in BOOLEAN, NEW cur \in Nat, Booked(s, c023)
  PROVE  /\ check_scan_line_int(s, start, lines, c023, on, cur) \in ScanStates
         /\ Booked(check_scan_line_int(s, start, lines, c023, on, cur), c023)
<1> DEFINE line == CHOOSE l \in NextScbLine(lines, start) : TRUE
           wanted == LineLen * line
           dfcyc == IF wanted < cur THEN cur ELSE wanted
           filed == [event |-> [dfcyc |-> dfcyc, line |-> line],
                     time |-> dfcyc, flag |-> TRUE]
<1>1. CASE ~ (MayScan(c023, on) /\ NextScbLine(lines, start) # {})
  BY <1>1 DEF check_scan_line_int
<1>2. CASE MayScan(c023, on) /\ NextScbLine(lines, start) # {}
  <2>1. line \in NextScbLine(lines, start)
    BY <1>2
  <2>2. line \in ScbLines
    BY <2>1 DEF NextScbLine
  <2>3. wanted \in Nat /\ dfcyc \in Nat /\ line \in Nat
    BY <2>2, FrameTimes
  <2>4. check_scan_line_int(s, start, lines, c023, on, cur)
          = IF Keeps(s.time, wanted) THEN [s EXCEPT !.flag = TRUE] ELSE filed
    BY <1>2 DEF check_scan_line_int, add_event_scan_int
  <2>5. "scan" \notin c023
    BY <1>2 DEF MayScan
  <2> HIDE DEF line, wanted, dfcyc
  <2>6. CASE Keeps(s.time, wanted)
    <3>1. s.event # NoScan
      BY <2>6 DEF Keeps, Booked, NoScan, None
    <3> QED BY <2>4, <2>5, <2>6, <3>1 DEF ScanStates, Booked
  <2>7. CASE ~ Keeps(s.time, wanted)
    <3>1. filed \in ScanStates
      BY <2>2, <2>3 DEF ScanStates, ScanEvents
    <3>2. filed.event # NoScan
      BY <2>3 DEF NoScan, None
    <3> QED BY <2>4, <2>5, <2>7, <3>1, <3>2 DEF Booked
  <2> QED BY <2>6, <2>7
<1> QED BY <1>1, <1>2

-------------------------------------------------------------------------------
(* The invariant holds at the start: nothing is queued and nothing is up.   *)
LEMMA InitInvariant == Init => IInv
<1>1. 0 \in 0 .. QuarterFrames - 1 /\ 0 \in 0 .. SecondFrames - 1
  BY CountAssumption
<1>2. Init => TypeOK
  <2> SUFFICES ASSUME Init PROVE TypeOK
    OBVIOUS
  <2>1. scan_event = NoScan /\ g_dfcyc_scan_int = None
    BY DEF Init, NoScan
  <2>2. /\ pc = "idle" /\ now = 0 /\ g_cur_dfcyc = 0
        /\ g_c023_val = {} /\ g_c041_val = {} /\ g_c046_val = {}
        /\ g_irq_pending = {} /\ scb \subseteq ScbLines
        /\ shr = FALSE /\ g_scan_int_events = FALSE /\ vbl_event = FALSE
        /\ g_25sec_cntr = 0 /\ g_1sec_cntr = 0
    BY DEF Init
  <2> QED BY <1>1, <2>1, <2>2 DEF TypeOK
<1>3. Init => VgcIrqExact /\ MegaIrqExplained /\ ScanEventBooked
  BY DEF Init, VgcIrqExact, MegaIrqExplained, ScanEventBooked, Vgc, NoScan, None
<1> QED BY <1>2, <1>3 DEF IInv

(* The scan variables as one value, before a step and after it.             *)
LEMMA ScanNowBooked == IInv => ScanNow \in ScanStates /\ Booked(ScanNow, g_c023_val)
BY DEF IInv, TypeOK, ScanEventBooked, ScanNow, ScanStates, ScanEvents, Booked

LEMMA SetScanBooked ==
  ASSUME NEW s \in ScanStates, SetScan(s), Booked(s, g_c023_val')
  PROVE  /\ scan_event' \in ScanEvents /\ g_dfcyc_scan_int' \in Nat \cup {None}
         /\ g_scan_int_events' \in BOOLEAN
         /\ ScanEventBooked'
BY DEF ScanStates, SetScan, Booked, ScanEventBooked

(* The instruction's part that all accesses share.                          *)
LEMMA AccessTyped ==
  ASSUME IInv, NEW cost \in 1 .. MaxCost, Access(cost)
  PROVE  /\ now' \in Nat
         /\ pc' = pc /\ g_cur_dfcyc' = g_cur_dfcyc /\ vbl_event' = vbl_event
         /\ g_25sec_cntr' = g_25sec_cntr /\ g_1sec_cntr' = g_1sec_cntr
<1>1. MaxCost \in Nat
  BY FrameAssumption
<1>2. now \in Nat
  BY DEF IInv, TypeOK
<1>3. now' = now + cost
  BY DEF Access
<1> QED BY <1>1, <1>2, <1>3 DEF Access, counters

(* The accesses that leave the scan-line event alone keep the invariant.    *)
LEMMA RegistersKeep ==
  ASSUME IInv, NEW cost \in 1 .. MaxCost, Access(cost), UNCHANGED scan,
         g_c023_val' \subseteq C023, g_c041_val' \subseteq C041,
         g_c046_val' \subseteq C041, g_irq_pending' \subseteq Irqs,
         scb' \subseteq ScbLines, shr' \in BOOLEAN,
         "scan" \in g_c023_val' => "scan" \in g_c023_val,
         VgcIrqExact', MegaIrqExplained'
  PROVE  IInv'
<1>1. TypeOK'
  BY AccessTyped DEF IInv, TypeOK, scan
<1>2. ScanEventBooked'
  BY DEF IInv, ScanEventBooked, scan
<1> QED BY <1>1, <1>2 DEF IInv

LEMMA C023Keeps ==
  ASSUME IInv, NEW cost \in 1 .. MaxCost,
         NEW enables \in SUBSET {"en_scan", "en_1sec"}, write_c023(cost, enables)
  PROVE  IInv'
<1> DEFINE bits == (g_c023_val \cap {"scan", "1sec"}) \cup enables
<1>1. /\ Access(cost)
      /\ g_irq_pending' = C023Irqs(bits)
      /\ g_c023_val' = bits \cup Vgc(g_irq_pending')
      /\ UNCHANGED <<g_c041_val, g_c046_val, screen, scan>>
  BY DEF write_c023
<1>2. bits \subseteq {"en_scan", "en_1sec", "scan", "1sec"}
  OBVIOUS
<1>3. /\ "SCAN" \in g_irq_pending' <=> {"en_scan", "scan"} \subseteq bits
      /\ "1SEC" \in g_irq_pending' <=> {"en_1sec", "1sec"} \subseteq bits
  BY <1>1, <1>2 DEF C023Irqs, IInv, VgcIrqExact
<1>4. /\ "VBL" \in g_irq_pending' => "VBL" \in g_irq_pending
      /\ "25SEC" \in g_irq_pending' => "25SEC" \in g_irq_pending
      /\ g_irq_pending' \subseteq Irqs
  BY <1>1 DEF C023Irqs, IInv, TypeOK, Irqs
<1>5. Vgc(g_irq_pending') \subseteq {"vgc"}
  BY DEF Vgc
<1>6. VgcIrqExact'
  BY <1>1, <1>3, <1>5 DEF VgcIrqExact
<1>7. MegaIrqExplained'
  BY <1>1, <1>4 DEF IInv, MegaIrqExplained
<1>8. g_c023_val' \subseteq C023 /\ ("scan" \in g_c023_val' => "scan" \in g_c023_val)
  BY <1>1, <1>2, <1>5 DEF C023
<1> HIDE DEF bits
<1> QED BY <1>1, <1>4, <1>6, <1>7, <1>8, RegistersKeep DEF IInv, TypeOK, screen

LEMMA C041Keeps ==
  ASSUME IInv, NEW cost \in 1 .. MaxCost, NEW enables \in SUBSET C041,
         write_c041(cost, enables)
  PROVE  IInv'
<1>1. MegaIrqExplained'
  BY DEF write_c041, DisabledIrqs, IInv, MegaIrqExplained
<1>2. g_irq_pending' \subseteq g_irq_pending
      /\ \A irq \in {"SCAN", "1SEC"} : irq \in g_irq_pending' <=> irq \in g_irq_pending
  BY DEF write_c041, DisabledIrqs
<1>3. VgcIrqExact'
  BY <1>2 DEF write_c041, IInv, VgcIrqExact, Vgc
<1> QED BY <1>1, <1>2, <1>3, RegistersKeep DEF write_c041, IInv, TypeOK, screen

LEMMA C047Keeps ==
  ASSUME IInv, NEW cost \in 1 .. MaxCost, access_c047(cost)
  PROVE  IInv'
<1>1. MegaIrqExplained'
  BY DEF access_c047, MegaIrqExplained
<1>2. VgcIrqExact'
  BY DEF access_c047, IInv, VgcIrqExact, Vgc
<1> QED BY <1>1, <1>2, RegistersKeep DEF access_c047, IInv, TypeOK, screen

LEMMA ScreenKeeps ==
  ASSUME IInv, NEW cost \in 1 .. MaxCost,
         Plain(cost) \/ \E on \in BOOLEAN : write_c029(cost, on)
  PROVE  IInv'
<1>1. VgcIrqExact' /\ MegaIrqExplained'
  BY DEF Plain, write_c029, regs, IInv, VgcIrqExact, MegaIrqExplained, Vgc
<1> QED BY <1>1, RegistersKeep DEF Plain, write_c029, regs, screen, IInv, TypeOK

-------------------------------------------------------------------------------
(* The accesses that look for the next line.                                *)
LEMMA C032Keeps ==
  ASSUME IInv, NEW cost \in 1 .. MaxCost, NEW zeroes \in SUBSET {"scan", "1sec"},
         write_c032(cost, zeroes)
  PROVE  IInv'
<1> DEFINE acks == zeroes \cap g_c023_val
           kept == IF acks = {} THEN g_c023_val ELSE (g_c023_val \ acks) \ {"vgc"}
<1>1. /\ Access(cost)
      /\ g_irq_pending' = g_irq_pending \ AckedIrqs(acks)
      /\ g_c023_val' = kept \cup Vgc(g_irq_pending')
      /\ UNCHANGED <<g_c041_val, g_c046_val, screen>>
  BY DEF write_c032
<1>2. /\ "SCAN" \in g_irq_pending' <=> "SCAN" \in g_irq_pending /\ "scan" \notin acks
      /\ "1SEC" \in g_irq_pending' <=> "1SEC" \in g_irq_pending /\ "1sec" \notin acks
      /\ g_irq_pending' \subseteq g_irq_pending
  BY <1>1 DEF AckedIrqs
<1>3. Vgc(g_irq_pending') \subseteq {"vgc"}
  BY DEF Vgc
<1>4. \A bit \in {"en_scan", "en_1sec", "scan", "1sec"} :
        bit \in g_c023_val' <=> bit \in g_c023_val /\ bit \notin acks
  BY <1>1, <1>3
<1>5. "en_scan" \notin acks /\ "en_1sec" \notin acks
  OBVIOUS
<1>6. VgcIrqExact'
  BY <1>1, <1>2, <1>4, <1>5 DEF IInv, VgcIrqExact
<1>7. MegaIrqExplained'
  BY <1>1, <1>2 DEF IInv, MegaIrqExplained
<1>8. g_c023_val' \subseteq C023 /\ g_irq_pending' \subseteq Irqs
  BY <1>1, <1>2, <1>3 DEF IInv, TypeOK, C023
<1>9. g_c041_val' \subseteq C041 /\ g_c046_val' \subseteq C041
      /\ scb' \subseteq ScbLines /\ shr' \in BOOLEAN
  BY <1>1 DEF IInv, TypeOK, screen
<1>10. CASE "scan" \in acks
  <2> DEFINE searched == check_scan_line_int(ScanNow, LineAt(now'), scb, g_c023_val',
                                             shr, g_cur_dfcyc)
  <2>1. SetScan(searched)
    BY <1>10 DEF write_c032
  <2>2. ScanNow \in ScanStates /\ Booked(ScanNow, g_c023_val')
    BY <1>4, <1>10, ScanNowBooked DEF Booked
  <2>3. scb \in SUBSET ScbLines /\ shr \in BOOLEAN /\ g_cur_dfcyc \in Nat
    BY DEF IInv, TypeOK
  <2>4. searched \in ScanStates /\ Booked(searched, g_c023_val')
    BY <2>2, <2>3, SearchBooked
  <2> HIDE DEF searched
  <2>5. TypeOK' /\ ScanEventBooked'
    BY <1>1, <1>8, <1>9, <2>1, <2>4, SetScanBooked, AccessTyped
       DEF IInv, TypeOK, ScanEvents
  <2> QED BY <1>6, <1>7, <2>5 DEF IInv
<1>11. CASE "scan" \notin acks
  <2>1. UNCHANGED scan
    BY <1>11 DEF write_c032
  <2>2. "scan" \in g_c023_val' => "scan" \in g_c023_val
    BY <1>4
  <2> QED BY <1>1, <1>6, <1>7, <1>8, <1>9, <2>1, <2>2, RegistersKeep
<1> QED BY <1>10, <1>11

LEMMA ScbKeeps ==
  ASSUME IInv, NEW cost \in 1 .. MaxCost, NEW line \in ScbLines, write_scb(cost, line)
  PROVE  IInv'
<1>1. Access(cost) /\ UNCHANGED <<regs, shr>>
  BY DEF write_scb
<1>2. scb' \subseteq ScbLines
  BY DEF write_scb, IInv, TypeOK
<1>3. VgcIrqExact' /\ MegaIrqExplained'
  BY <1>1 DEF regs, IInv, VgcIrqExact, MegaIrqExplained, Vgc
<1>4. CASE line \in scb
  <2>1. UNCHANGED scan
    BY <1>4 DEF write_scb
  <2> QED BY <1>1, <1>2, <1>3, <2>1, RegistersKeep DEF regs, IInv, TypeOK
<1>5. CASE line \notin scb
  <2> DEFINE searched == check_scan_line_int(ScanNow, LineAt(now'), scb', g_c023_val,
                                             shr, g_cur_dfcyc)
  <2>1. SetScan(searched)
    BY <1>5 DEF write_scb
  <2>2. scb' \in SUBSET ScbLines /\ shr \in BOOLEAN /\ g_cur_dfcyc \in Nat
    BY <1>2 DEF IInv, TypeOK
  <2>3. searched \in ScanStates /\ Booked(searched, g_c023_val)
    BY <2>2, ScanNowBooked, SearchBooked
  <2>4. g_c023_val' = g_c023_val
    BY <1>1 DEF regs
  <2> HIDE DEF searched
  <2>5. TypeOK' /\ ScanEventBooked'
    BY <1>1, <1>2, <2>1, <2>3, <2>4, SetScanBooked, AccessTyped
       DEF IInv, TypeOK, ScanEvents, regs
  <2> QED BY <1>3, <2>5 DEF IInv
<1> QED BY <1>4, <1>5

LEMMA InstructionKeeps == ASSUME IInv, Instruction PROVE IInv'
BY C023Keeps, C032Keeps, C041Keeps, C047Keeps, ScreenKeeps, ScbKeeps DEF Instruction

-------------------------------------------------------------------------------
(* The reset, the main loop and the handlers.                               *)
LEMMA ResetKeeps == ASSUME IInv, do_reset PROVE IInv'
<1>1. VgcIrqExact' /\ MegaIrqExplained'
  BY DEF do_reset, VgcIrqExact, MegaIrqExplained, Vgc
<1>2. ScanEventBooked'
  BY DEF do_reset, scan, IInv, ScanEventBooked
<1>3. TypeOK'
  BY DEF do_reset, scan, counters, IInv, TypeOK
<1> QED BY <1>1, <1>2, <1>3 DEF IInv

LEMMA LoopKeeps ==
  ASSUME IInv, EnterEngine \/ LeaveEngine \/ NextRound
  PROVE  IInv'
<1>1. UNCHANGED <<regs, screen, scan, vbl_event, counters>>
  BY DEF EnterEngine, LeaveEngine, NextRound
<1>2. VgcIrqExact' /\ MegaIrqExplained' /\ ScanEventBooked'
  BY <1>1 DEF regs, scan, IInv, VgcIrqExact, MegaIrqExplained, ScanEventBooked, Vgc
<1>3. pc' \in {"idle", "engine", "events"} /\ now' \in Nat /\ g_cur_dfcyc' \in Nat
  BY DEF EnterEngine, LeaveEngine, NextRound, IInv, TypeOK
<1>4. TypeOK'
  BY <1>1, <1>3 DEF regs, screen, scan, counters, IInv, TypeOK
<1> QED BY <1>2, <1>4 DEF IInv

LEMMA VblKeeps == ASSUME IInv, do_vbl_int PROVE IInv'
<1>1. UNCHANGED <<pc, now, g_cur_dfcyc, g_c023_val, g_c041_val, screen, scan, counters>>
      /\ vbl_event' = FALSE
  BY DEF do_vbl_int
<1>2. CASE "vbl" \in g_c041_val
  <2>1. /\ g_c046_val' = g_c046_val \cup {"vbl"}
        /\ g_irq_pending' = g_irq_pending \cup {"VBL"}
    BY <1>2 DEF do_vbl_int
  <2>2. VgcIrqExact' /\ MegaIrqExplained'
    BY <1>1, <1>2, <2>1 DEF IInv, VgcIrqExact, MegaIrqExplained, Vgc
  <2>3. g_c046_val' \subseteq C041 /\ g_irq_pending' \subseteq Irqs
    BY <2>1 DEF IInv, TypeOK, C041, Irqs
  <2>4. TypeOK'
    BY <1>1, <2>3 DEF screen, scan, counters, IInv, TypeOK
  <2>5. ScanEventBooked'
    BY <1>1 DEF scan, IInv, ScanEventBooked
  <2> QED BY <2>2, <2>4, <2>5 DEF IInv
<1>3. CASE "vbl" \notin g_c041_val
  <2>1. UNCHANGED <<g_c046_val, g_irq_pending>>
    BY <1>3 DEF do_vbl_int
  <2>2. VgcIrqExact' /\ MegaIrqExplained' /\ ScanEventBooked'
    BY <1>1, <2>1 DEF scan, IInv, VgcIrqExact, MegaIrqExplained, ScanEventBooked, Vgc
  <2>3. TypeOK'
    BY <1>1, <2>1 DEF screen, scan, counters, IInv, TypeOK
  <2> QED BY <2>2, <2>3 DEF IInv
<1> QED BY <1>2, <1>3

LEMMA ScanKeeps == ASSUME IInv, do_scan_int PROVE IInv'
<1>1. UNCHANGED <<pc, now, g_cur_dfcyc, g_c041_val, g_c046_val, screen, vbl_event, counters>>
  BY DEF do_scan_int
<1>2. ScanTaken \in ScanStates /\ \A c023 : Booked(ScanTaken, c023)
  BY DEF ScanTaken, ScanStates, ScanEvents, Booked, NoScan
<1>3. "scan" \notin g_c023_val
  BY DEF do_scan_int, IInv, ScanEventBooked
<1>4. CASE StillWanted(scan_event.line) /\ SetScan(ScanTaken)
           /\ g_c023_val' = g_c023_val \cup {"scan", "vgc"}
           /\ g_irq_pending' = g_irq_pending \cup
                (IF "en_scan" \in g_c023_val THEN {"SCAN"} ELSE {})
  <2>1. VgcIrqExact' /\ MegaIrqExplained'
    BY <1>1, <1>3, <1>4 DEF IInv, VgcIrqExact, MegaIrqExplained, Vgc
  <2>2. g_c023_val' \subseteq C023 /\ g_irq_pending' \subseteq Irqs
    BY <1>4 DEF IInv, TypeOK, C023, Irqs
  <2>3. /\ scan_event' \in ScanEvents /\ g_dfcyc_scan_int' \in Nat \cup {None}
        /\ g_scan_int_events' \in BOOLEAN /\ ScanEventBooked'
    BY <1>2, <1>4, SetScanBooked
  <2>4. TypeOK'
    BY <1>1, <2>2, <2>3 DEF IInv, TypeOK, ScanEvents, screen, counters
  <2> QED BY <2>1, <2>3, <2>4 DEF IInv
<1>5. CASE /\ SetScan(check_scan_line_int(ScanTaken, scan_event.line + 1, scb,
                                          g_c023_val, shr, g_cur_dfcyc))
           /\ UNCHANGED <<g_c023_val, g_irq_pending>>
  <2> DEFINE searched == check_scan_line_int(ScanTaken, scan_event.line + 1, scb,
                                             g_c023_val, shr, g_cur_dfcyc)
  <2>1. scb \in SUBSET ScbLines /\ shr \in BOOLEAN /\ g_cur_dfcyc \in Nat
    BY DEF IInv, TypeOK
  <2>2. searched \in ScanStates /\ Booked(searched, g_c023_val)
    BY <1>2, <2>1, SearchBooked
  <2> HIDE DEF searched
  <2>3. /\ scan_event' \in ScanEvents /\ g_dfcyc_scan_int' \in Nat \cup {None}
        /\ g_scan_int_events' \in BOOLEAN /\ ScanEventBooked'
    BY <1>5, <2>2, SetScanBooked DEF searched
  <2>5. TypeOK'
    BY <1>1, <1>5, <2>3 DEF IInv, TypeOK, ScanEvents, screen, counters
  <2>4. VgcIrqExact' /\ MegaIrqExplained'
    BY <1>1, <1>5 DEF IInv, VgcIrqExact, MegaIrqExplained, Vgc
  <2> QED BY <2>3, <2>4, <2>5 DEF IInv
<1> QED BY <1>4, <1>5 DEF do_scan_int

(* A frame begins with the counters in their ranges.                        *)
LEMMA TickedCounter ==
  ASSUME NEW limit \in Nat \ {0}, NEW counter \in 0 .. limit - 1
  PROVE  Ticked(counter, limit) \in 0 .. limit - 1
BY DEF Ticked

(* The frame event is the last of its frame: a scan-line event that is      *)
(* still queued keeps a time in the new frame.                              *)
LEMMA FrameKeeps == ASSUME IInv, update_60hz PROVE IInv'
<1> DEFINE cur == g_cur_dfcyc - FrameLen
           second == Ticked(g_1sec_cntr, SecondFrames) = 0
           irq25 == /\ Ticked(g_25sec_cntr, QuarterFrames) = 0
                    /\ "25sec" \in g_c041_val
           irq1 == second /\ "en_1sec" \in g_c023_val
           late == IF scan_event = NoScan THEN ScanNow
                   ELSE [event |-> [scan_event EXCEPT !.dfcyc = @ - FrameLen],
                         time |-> g_dfcyc_scan_int - FrameLen,
                         flag |-> g_scan_int_events]
           next == IF NeedsScan(late)
                   THEN check_scan_line_int(late, 0, scb, g_c023_val', shr, cur)
                   ELSE late
<1>1. /\ Due(FrameLen) /\ pc' = "idle" /\ now' = cur /\ g_cur_dfcyc' = cur
      /\ vbl_event' = FilesVbl
      /\ g_25sec_cntr' = Ticked(g_25sec_cntr, QuarterFrames)
      /\ g_1sec_cntr' = Ticked(g_1sec_cntr, SecondFrames)
      /\ g_c046_val' = g_c046_val \cup (IF irq25 THEN {"25sec"} ELSE {})
      /\ g_c023_val' = g_c023_val \cup (IF second THEN {"1sec"} ELSE {})
                                  \cup (IF irq1 THEN {"vgc"} ELSE {})
      /\ g_irq_pending' = g_irq_pending \cup (IF irq25 THEN {"25SEC"} ELSE {})
                                        \cup (IF irq1 THEN {"1SEC"} ELSE {})
      /\ SetScan(next) /\ UNCHANGED <<g_c041_val, screen>>
  BY DEF update_60hz
<1>2. FrameLen \in Nat /\ g_cur_dfcyc \in Nat /\ FirstDue = FrameLen
      /\ g_cur_dfcyc >= FrameLen
  BY <1>1, FrameTimes DEF Due, IInv, TypeOK
<1>3. cur \in Nat
  BY <1>2
<1>4. late \in ScanStates /\ Booked(late, g_c023_val)
  <2>1. CASE scan_event = NoScan
    <3>1. late = ScanNow /\ ScanNow.event = NoScan
      BY <2>1 DEF ScanNow
    <3> HIDE DEF late
    <3> QED BY <3>1, ScanNowBooked DEF Booked
  <2>2. CASE scan_event # NoScan
    <3>1. /\ scan_event \in [dfcyc : Nat, line : ScbLines]
          /\ FrameLen <= scan_event.dfcyc
          /\ g_dfcyc_scan_int = scan_event.dfcyc /\ g_scan_int_events
          /\ g_scan_int_events \in BOOLEAN
          /\ "scan" \notin g_c023_val
      BY <1>2, <2>2, FirstDueFirst DEF IInv, TypeOK, ScanEventBooked
    <3>2. PICK d \in Nat, l \in ScbLines : scan_event = [dfcyc |-> d, line |-> l]
      BY <3>1
    <3>3. late = [event |-> [dfcyc |-> d - FrameLen, line |-> l],
                  time |-> d - FrameLen, flag |-> g_scan_int_events]
      BY <2>2, <3>1, <3>2
    <3>4. d - FrameLen \in Nat /\ l \in Nat
      BY <1>2, <3>1, <3>2, FrameTimes
    <3>5. [dfcyc |-> d - FrameLen, line |-> l] # NoScan
      BY <3>4 DEF NoScan, None
    <3> DEFINE time == d - FrameLen
               moved == [dfcyc |-> time, line |-> l]
    <3>6. late = [event |-> moved, time |-> time, flag |-> g_scan_int_events]
      BY <3>3
    <3>7. time \in Nat /\ moved \in ScanEvents /\ moved # NoScan /\ moved.dfcyc = time
      BY <3>4, <3>5 DEF ScanEvents
    <3> HIDE DEF time, moved, late
    <3>8. late \in ScanStates
      BY <3>1, <3>6, <3>7 DEF ScanStates
    <3> QED BY <3>1, <3>6, <3>7, <3>8 DEF Booked
  <2> QED BY <2>1, <2>2
<1>5. "scan" \in g_c023_val' <=> "scan" \in g_c023_val
  BY <1>1
<1>6. next \in ScanStates /\ Booked(next, g_c023_val')
  <2>1. Booked(late, g_c023_val')
    BY <1>4, <1>5 DEF Booked
  <2>2. scb \in SUBSET ScbLines /\ shr \in BOOLEAN
    BY DEF IInv, TypeOK
  <2> HIDE DEF late, cur
  <2> QED BY <1>3, <1>4, <2>1, <2>2, SearchBooked
<1>7. VgcIrqExact' /\ MegaIrqExplained'
  BY <1>1 DEF IInv, VgcIrqExact, MegaIrqExplained, Vgc
<1>8. /\ g_c023_val' \subseteq C023 /\ g_c046_val' \subseteq C041
      /\ g_irq_pending' \subseteq Irqs
  BY <1>1 DEF IInv, TypeOK, C023, C041, Irqs
<1>9. /\ g_25sec_cntr' \in 0 .. QuarterFrames - 1
      /\ g_1sec_cntr' \in 0 .. SecondFrames - 1
  BY <1>1, TickedCounter, CountAssumption DEF IInv, TypeOK
<1> HIDE DEF cur, next, late, second, irq25, irq1
<1>10. vbl_event' \in BOOLEAN
  BY <1>1 DEF FilesVbl
<1>11. TypeOK' /\ ScanEventBooked'
  BY <1>1, <1>3, <1>6, <1>8, <1>9, <1>10, SetScanBooked
     DEF IInv, TypeOK, ScanEvents, screen
<1> QED BY <1>7, <1>11 DEF IInv

LEMMA NextInvariant == IInv /\ [Next]_vars => IInv'
<1> SUFFICES ASSUME IInv, [Next]_vars PROVE IInv'
  OBVIOUS
<1>1. CASE UNCHANGED vars
  BY <1>1 DEF vars, regs, screen, scan, counters, IInv, TypeOK, VgcIrqExact,
              MegaIrqExplained, ScanEventBooked, Vgc
<1>2. CASE Next
  BY <1>2, InstructionKeeps, LoopKeeps, VblKeeps, ScanKeeps, FrameKeeps, ResetKeeps
     DEF Next, MainLoop
<1> QED BY <1>1, <1>2

-------------------------------------------------------------------------------
LEMMA Invariant == Spec => []IInv
BY InitInvariant, NextInvariant, PTL DEF Spec

(* The interrupt lines of the VGC are up exactly while $C023 says so, for   *)
(* every frame geometry and any order of accesses, events and resets.       *)
THEOREM VgcLinesExact == Spec => []VgcIrqExact
BY Invariant, PTL DEF IInv

(* A Mega II interrupt is never up without its enable and its status.       *)
THEOREM MegaLinesExplained == Spec => []MegaIrqExplained
BY Invariant, PTL DEF IInv

(* The flags of the scan-line event never come apart from the event list,   *)
(* and no second event is filed before the first is acknowledged.           *)
THEOREM ScanEventStaysBooked == Spec => []ScanEventBooked
BY Invariant, PTL DEF IInv

(* The scan-line status only comes on for a line whose SCB asks for it when *)
(* its event is handled.                                                    *)
THEOREM OnlyWantedScans == Spec => ClearedScbNotTaken
<1> DEFINE Wanted == "scan" \in g_c023_val' \ g_c023_val => scan_event.line \in scb /\ shr
<1>1. ASSUME [Next]_vars PROVE Wanted
  <2>1. CASE UNCHANGED vars
    BY <2>1 DEF vars, regs
  <2>2. CASE Instruction
    <3>1. ASSUME NEW cost, NEW enables \in SUBSET {"en_scan", "en_1sec"},
                 write_c023(cost, enables)
          PROVE  Wanted
      BY <3>1 DEF write_c023, Vgc
    <3>2. ASSUME NEW cost, NEW zeroes, write_c032(cost, zeroes) PROVE Wanted
      BY <3>2 DEF write_c032, Vgc
    <3>3. ASSUME NEW cost, NEW enables, write_c041(cost, enables) PROVE Wanted
      BY <3>3 DEF write_c041
    <3>4. ASSUME NEW cost, access_c047(cost) \/ Plain(cost) PROVE Wanted
      BY <3>4 DEF access_c047, Plain, regs
    <3>5. ASSUME NEW cost, NEW on, write_c029(cost, on) PROVE Wanted
      BY <3>5 DEF write_c029, regs
    <3>6. ASSUME NEW cost, NEW line, write_scb(cost, line) PROVE Wanted
      BY <3>6 DEF write_scb, regs
    <3> QED BY <2>2, <3>1, <3>2, <3>3, <3>4, <3>5, <3>6 DEF Instruction
  <2>3. CASE EnterEngine \/ LeaveEngine \/ NextRound \/ do_reset
    BY <2>3 DEF EnterEngine, LeaveEngine, NextRound, do_reset, regs
  <2>4. CASE do_vbl_int
    BY <2>4 DEF do_vbl_int
  <2>5. CASE do_scan_int
    BY <2>5 DEF do_scan_int, StillWanted
  <2>6. CASE update_60hz
    BY <2>6 DEF update_60hz
  <2> QED BY <1>1, <2>1, <2>2, <2>3, <2>4, <2>5, <2>6 DEF Next, MainLoop
<1> QED BY <1>1, PTL DEF Spec, ClearedScbNotTaken
===============================================================================
