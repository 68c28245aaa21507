---------------------------- MODULE MemoryMapProofs ----------------------------
(***************************************************************************)
(* The page table of MemoryMap for every setting of the switches.  Each    *)
(* entry has one value the registers give it (Target); every fixup either  *)
(* writes that value or leaves the entry alone, and the entries a register *)
(* write leaves alone are those whose value it does not change.            *)
(***************************************************************************)
EXTENDS MemoryMap, TLAPS

Marked(B, s) == \E b \in B : Covers(b, s)
Same(e, f) == e.mem = f.mem /\ e.page = f.page /\ e.mark = f.mark

(* What the registers make of slot s.                                       *)
Target(R, s) ==
  LET b == s.at[1]
      r == s.at[2]
  IN CASE r = "zp" /\ b \in Low -> fixup_altzp(R, s, Io)
       [] r \in IoPages /\ b \in Fast /\ "iolc" \in R.shadow -> At(OwnMem(b), "d000", "none")
       [] r \in IoPages /\ ~(b \in Fast /\ "iolc" \in R.shadow) ->
            IF s.side = "rd" THEN IoRead(R, r) ELSE Io
       [] r \in {"d0", "e0"} -> fixup_lc(R, s, Io)
       [] r = "txt1" /\ b \in Low -> fixup_bank0_0400_0800(R, s, Io)
       [] r = "hires1" /\ b \in Low -> fixup_bank0_2000_4000(R, s, Io)
       [] r \in {"ram", "txt2", "hires2", "shr"} /\ b \in Low /\ s.side = "rd" -> fixup_ramrd(R, s, Io)
       [] r \in {"ram", "txt2", "hires2", "shr"} /\ b \in Low /\ s.side = "wr" -> fixup_ramwrt(R, s, Io)
       [] r = "txt1" /\ b = "01" /\ s.side = "wr" -> fixup_shadow_txt1(R, s, Io)
       [] r = "txt2" /\ b = "01" /\ s.side = "wr" -> fixup_shadow_txt2(R, s, Io)
       [] r = "hires1" /\ b = "01" /\ s.side = "wr" -> fixup_shadow_hires1(R, s, Io)
       [] r = "hires2" /\ b = "01" /\ s.side = "wr" -> fixup_shadow_hires2(R, s, Io)
       [] r = "shr" /\ b = "01" /\ s.side = "wr" -> fixup_shadow_shr(R, s, Io)
       [] b = "03" /\ s.side = "wr" -> Ram(s, FALSE, Mark(s, TRUE, R.all_banks /\ "shr" \notin R.shadow))
       [] OTHER -> BaseEntry(s)

(* A fixup given entry e for slot s leaves f, and writes s or not.          *)
Leaves(R, B, s, e, f, writes) ==
  /\ f \in Entry
  /\ f.brk => e.brk \/ Marked(B, s)
  /\ writes => Same(f, Target(R, s))
  /\ ~writes => Same(f, e)

(* The parts of a slot.                                                     *)
LEMMA SlotParts ==
  ASSUME NEW s \in Slot
  PROVE  /\ s.side \in {"rd", "wr"}
         /\ s.at[1] \in Bank \union {"03"} /\ s.at[2] \in Region
         /\ s.at[1] = "03" => s.at[2] = "shr"
BY DEF Slot, Place, Bank, Region

(* A page of RAM is an entry without a breakpoint.                          *)
LEMMA RamIsEntry ==
  ASSUME NEW s \in Slot, NEW alt, NEW mark \in {"none", "shadow", "shadow2", "protect"}
  PROVE  /\ Ram(s, alt, mark) \in Entry
         /\ ~Ram(s, alt, mark).brk
BY DEF Ram, At, Entry, OwnMem, AltMem

(* fixup_brks writes nothing but the mark.                                  *)
LEMMA Brks ==
  ASSUME NEW R, NEW B, NEW s, NEW e \in Entry
  PROVE  /\ Leaves(R, B, s, e, fixup_brks(B, s, e), FALSE)
         /\ fixup_brks(B, s, e).brk = (e.brk \/ Marked(B, s))
BY DEF Leaves, Same, fixup_brks, Marked, Entry

(* The marks a write to display memory may have.                            *)
LEMMA MarkTyped ==
  ASSUME NEW s, NEW alt, NEW open
  PROVE  Mark(s, alt, open) \in {"none", "shadow", "shadow2"}
BY DEF Mark

(* fixup_bank0_2000_4000 writes its pages' values and leaves the others.    *)
LEMMA Hires1Leaves ==
  ASSUME NEW R \in Registers, NEW B, NEW s \in Slot, NEW e \in Entry
  PROVE  Leaves(R, B, s, e, fixup_bank0_2000_4000(R, s, e), Is(s, Low, {"hires1"}))
<1> DEFINE alt == IF {"st80", "hires"} \subseteq R.a2 THEN "page2" \in R.a2 ELSE RamSwitch(R, s)
           mark == Mark(s, alt, HiresOpen(R, "hires1", alt))
<1>1. CASE Is(s, Low, {"hires1"})
  <2>1. /\ fixup_bank0_2000_4000(R, s, e) = Ram(s, alt, mark)
        /\ fixup_bank0_2000_4000(R, s, Io) = Ram(s, alt, mark)
    BY <1>1 DEF fixup_bank0_2000_4000
  <2>3. mark \in {"none", "shadow", "shadow2"}
    BY MarkTyped
  <2> HIDE DEF mark, alt
  <2>4. Ram(s, alt, mark) \in Entry /\ ~Ram(s, alt, mark).brk
    BY <2>3, RamIsEntry
  <2>5. Target(R, s) = fixup_bank0_2000_4000(R, s, Io)
    BY <1>1, SlotParts DEF Target, Is, IoPages, SlotPages, Low
  <2> QED BY <1>1, <2>1, <2>4, <2>5 DEF Leaves, Same
<1>2. CASE ~Is(s, Low, {"hires1"})
  BY <1>2 DEF fixup_bank0_2000_4000, Leaves, Same
<1> QED BY <1>1, <1>2

(* fixup_bank0_0400_0800 does so too, and so does each fixup below.         *)
LEMMA Txt1Leaves ==
  ASSUME NEW R \in Registers, NEW B, NEW s \in Slot, NEW e \in Entry
  PROVE  Leaves(R, B, s, e, fixup_bank0_0400_0800(R, s, e), Is(s, Low, {"txt1"}))
<1> DEFINE alt == IF "st80" \in R.a2 THEN "page2" \in R.a2 ELSE RamSwitch(R, s)
           mark == Mark(s, alt, "txt1" \notin R.shadow)
<1>1. CASE Is(s, Low, {"txt1"})
  <2>1. /\ fixup_bank0_0400_0800(R, s, e) = Ram(s, alt, mark)
        /\ fixup_bank0_0400_0800(R, s, Io) = Ram(s, alt, mark)
    BY <1>1 DEF fixup_bank0_0400_0800
  <2>2. mark \in {"none", "shadow", "shadow2"}
    BY MarkTyped
  <2> HIDE DEF mark, alt
  <2>3. Ram(s, alt, mark) \in Entry /\ ~Ram(s, alt, mark).brk
    BY <2>2, RamIsEntry
  <2>4. Target(R, s) = fixup_bank0_0400_0800(R, s, Io)
    BY <1>1, SlotParts DEF Target, Is, IoPages, SlotPages, Low
  <2> QED BY <1>1, <2>1, <2>3, <2>4 DEF Leaves, Same
<1>2. CASE ~Is(s, Low, {"txt1"})
  BY <1>2 DEF fixup_bank0_0400_0800, Leaves, Same
<1> QED BY <1>1, <1>2

(* fixup_altzp.                                                             *)
LEMMA AltzpLeaves ==
  ASSUME NEW R \in Registers, NEW B, NEW s \in Slot, NEW e \in Entry
  PROVE  Leaves(R, B, s, e, fixup_altzp(R, s, e), Is(s, Low, {"zp"}))
<1>1. CASE Is(s, Low, {"zp"})
  <2>1. /\ fixup_altzp(R, s, e) = Ram(s, "altzp" \in R.state, "none")
        /\ fixup_altzp(R, s, Io) = Ram(s, "altzp" \in R.state, "none")
    BY <1>1 DEF fixup_altzp
  <2>2. Target(R, s) = fixup_altzp(R, s, Io)
    BY <1>1, SlotParts DEF Target, Is, IoPages, SlotPages, Low
  <2> QED BY <1>1, <2>1, <2>2, RamIsEntry DEF Leaves, Same
<1>2. CASE ~Is(s, Low, {"zp"})
  BY <1>2 DEF fixup_altzp, Leaves, Same
<1> QED BY <1>1, <1>2

(* The slots that only 80STORE's own routines write while it is on.         *)
Switched(R, s) == \/ "st80" \notin R.a2 /\ Is(s, Low, {"txt1"})
                  \/ ~({"st80", "hires"} \subseteq R.a2) /\ Is(s, Low, {"hires1"})

(* The common part of fixup_ramrd and fixup_ramwrt.                         *)
LEMMA SwitchedLeaves ==
  ASSUME NEW R \in Registers, NEW B, NEW s \in Slot, NEW e \in Entry
  PROVE  Leaves(R, B, s, e, SwitchedPages(R, s, e), Switched(R, s))
<1> DEFINE txt == IF "st80" \notin R.a2 THEN fixup_bank0_0400_0800(R, s, e) ELSE e
<1>1. Leaves(R, B, s, e, txt, "st80" \notin R.a2 /\ Is(s, Low, {"txt1"}))
  BY Txt1Leaves DEF Leaves, Same
<1> HIDE DEF txt
<1>2. Leaves(R, B, s, txt, fixup_bank0_2000_4000(R, s, txt), Is(s, Low, {"hires1"}))
  BY <1>1, Hires1Leaves DEF Leaves
<1>3. SwitchedPages(R, s, e) = IF {"st80", "hires"} \subseteq R.a2 THEN txt
                               ELSE fixup_bank0_2000_4000(R, s, txt)
  BY DEF SwitchedPages, txt
<1> QED BY <1>1, <1>2, <1>3 DEF Leaves, Same, Switched

(* fixup_ramrd.                                                             *)
LEMMA RamrdLeaves ==
  ASSUME NEW R \in Registers, NEW B, NEW s \in Slot, NEW e \in Entry
  PROVE  Leaves(R, B, s, e, fixup_ramrd(R, s, e),
                \/ s.side = "rd" /\ Is(s, Low, {"ram", "txt2", "hires2", "shr"})
                \/ Switched(R, s))
<1>1. CASE s.side = "rd" /\ Is(s, Low, {"ram", "txt2", "hires2", "shr"})
  <2>1. /\ fixup_ramrd(R, s, e) = Ram(s, "ramrd" \in R.state, "none")
        /\ fixup_ramrd(R, s, Io) = Ram(s, "ramrd" \in R.state, "none")
    BY <1>1 DEF fixup_ramrd
  <2>2. Target(R, s) = fixup_ramrd(R, s, Io)
    BY <1>1, SlotParts DEF Target, Is, IoPages, SlotPages, Low
  <2> QED BY <1>1, <2>1, <2>2, RamIsEntry DEF Leaves, Same
<1>2. CASE ~(s.side = "rd" /\ Is(s, Low, {"ram", "txt2", "hires2", "shr"}))
  BY <1>2, SwitchedLeaves DEF fixup_ramrd, Leaves
<1> QED BY <1>1, <1>2

(* fixup_ramwrt.                                                            *)
LEMMA RamwrtLeaves ==
  ASSUME NEW R \in Registers, NEW B, NEW s \in Slot, NEW e \in Entry
  PROVE  Leaves(R, B, s, e, fixup_ramwrt(R, s, e),
                Wr(s, Low, {"ram", "txt2", "hires2", "shr"}) \/ Switched(R, s))
<1>1. CASE Wr(s, Low, {"ram", "txt2", "hires2", "shr"})
  <2>1. Target(R, s) = fixup_ramwrt(R, s, Io)
    BY <1>1, SlotParts DEF Target, Wr, Is, IoPages, SlotPages, Low
  <2>2. fixup_ramwrt(R, s, e) = fixup_ramwrt(R, s, Io)
    BY <1>1 DEF Wr, Is, fixup_ramwrt
  <2>3. \E alt, mark : /\ mark \in {"none", "shadow", "shadow2"}
                       /\ fixup_ramwrt(R, s, e) = Ram(s, alt, mark)
    <3> DEFINE alt == "ramwrt" \in R.state
    <3>1. \E mark \in {"none", "shadow", "shadow2"} : fixup_ramwrt(R, s, e) = Ram(s, alt, mark)
      BY <1>1, MarkTyped DEF Wr, Is, fixup_ramwrt
    <3> QED BY <3>1
  <2>4. fixup_ramwrt(R, s, e) \in Entry /\ ~fixup_ramwrt(R, s, e).brk
    BY <2>3, RamIsEntry
  <2> QED BY <1>1, <2>1, <2>2, <2>4 DEF Leaves, Same
<1>2. CASE ~Wr(s, Low, {"ram", "txt2", "hires2", "shr"})
  <2>1. fixup_ramwrt(R, s, e) = SwitchedPages(R, s, e)
    BY <1>2 DEF fixup_ramwrt, Wr, Is
  <2> QED BY <1>2, <2>1, SwitchedLeaves DEF Leaves
<1> QED BY <1>1, <1>2

(* fixup_page2.                                                             *)
LEMMA Page2Leaves ==
  ASSUME NEW R \in Registers, NEW B, NEW s \in Slot, NEW e \in Entry
  PROVE  Leaves(R, B, s, e, fixup_page2(R, s, e),
                \/ "st80" \in R.a2 /\ Is(s, Low, {"txt1"})
                \/ {"st80", "hires"} \subseteq R.a2 /\ Is(s, Low, {"hires1"}))
<1> DEFINE txt == fixup_bank0_0400_0800(R, s, e)
<1>1. Leaves(R, B, s, e, txt, Is(s, Low, {"txt1"}))
  BY Txt1Leaves
<1>2. fixup_page2(R, s, e) = IF "st80" \notin R.a2 THEN e
                             ELSE IF {"st80", "hires"} \subseteq R.a2
                                  THEN fixup_bank0_2000_4000(R, s, txt) ELSE txt
  BY DEF fixup_page2
<1> HIDE DEF txt
<1>3. Leaves(R, B, s, txt, fixup_bank0_2000_4000(R, s, txt), Is(s, Low, {"hires1"}))
  BY <1>1, Hires1Leaves DEF Leaves
<1> QED BY <1>1, <1>2, <1>3 DEF Leaves, Same

(* What fixup_lc writes does not depend on what was there.                  *)
LEMMA LcValue ==
  ASSUME NEW R \in Registers, NEW s \in Slot, NEW e, Is(s, Bank, {"d0", "e0"})
  PROVE  /\ fixup_lc(R, s, e) = fixup_lc(R, s, Io)
         /\ fixup_lc(R, s, Io) \in Entry
         /\ ~fixup_lc(R, s, Io).brk
<1> DEFINE fast == s.at[1] \in Fast
           off == fast /\ "iolc" \in R.shadow
           alt == s.at[1] \in Low /\ "altzp" \in R.state
           mark == IF s.side = "wr" /\ fast /\ ~("wrdefram" \in R.state \/ off)
                     THEN "protect" ELSE "none"
           rom == Is(s, Fast, {"d0", "e0"}) /\ s.side = "rd" /\ "rdrom" \in R.state /\ ~off
           bank1 == s.at[2] = "d0" /\ ~("lcbank2" \in R.state /\ ~off)
                      /\ (s.side = "rd" => ~("rdrom" \in R.state /\ ~off))
           value == IF rom THEN Rom ELSE [Ram(s, alt, mark) EXCEPT !.page = IF bank1 THEN "c000" ELSE "own"]
<1>1. \A d : fixup_lc(R, s, d) = value
  BY DEF fixup_lc
<1>2. mark \in {"none", "shadow", "shadow2", "protect"}
  OBVIOUS
<1> HIDE DEF mark, alt, rom, bank1
<1>3. Ram(s, alt, mark) \in Entry /\ ~Ram(s, alt, mark).brk
  BY <1>2, RamIsEntry
<1>4. value \in Entry /\ ~value.brk
  BY <1>3 DEF Entry, Rom, At
<1> QED BY <1>1, <1>4

(* fixup_lc.                                                                *)
LEMMA LcLeaves ==
  ASSUME NEW R \in Registers, NEW B, NEW s \in Slot, NEW e \in Entry
  PROVE  Leaves(R, B, s, e, fixup_lc(R, s, e), Is(s, Bank, {"d0", "e0"}))
<1>1. CASE Is(s, Bank, {"d0", "e0"})
  <2>1. Target(R, s) = fixup_lc(R, s, Io)
    BY <1>1, SlotParts DEF Target, Is, IoPages, SlotPages, Low
  <2>2. /\ fixup_lc(R, s, e) = fixup_lc(R, s, Io)
        /\ fixup_lc(R, s, Io) \in Entry
        /\ ~fixup_lc(R, s, Io).brk
    BY <1>1, LcValue
  <2> QED BY <1>1, <2>1, <2>2 DEF Leaves, Same
<1>2. CASE ~Is(s, Bank, {"d0", "e0"})
  BY <1>2 DEF fixup_lc, Leaves, Same, Is, Bank, Fast
<1> QED BY <1>1, <1>2

(* The I/O pages of the banks whose I/O is not inhibited.                   *)
IoSlot(R, s) == Is(s, IF "iolc" \in R.shadow THEN Bank \ Fast ELSE Bank, IoPages)

(* Reads of the I/O pages have entries.                                     *)
LEMMA IoReadTyped ==
  ASSUME NEW R \in Registers, NEW r \in IoPages
  PROVE  IoRead(R, r) \in Entry /\ ~IoRead(R, r).brk
BY DEF IoRead, CardOrRom, Io, Rom, At, Entry, IoPages, SlotPages

(* fixup_intcx.                                                             *)
LEMMA IntcxLeaves ==
  ASSUME NEW R \in Registers, NEW B, NEW s \in Slot, NEW e \in Entry
  PROVE  Leaves(R, B, s, e, fixup_intcx(R, B, s, e), IoSlot(R, s))
<1> DEFINE io == IF s.side = "rd" THEN IoRead(R, s.at[2]) ELSE Io
           f == IF IoSlot(R, s) THEN io ELSE e
<1>1. fixup_intcx(R, B, s, e) = fixup_brks(B, s, f)
  BY DEF fixup_intcx, IoSlot
<1>2. CASE IoSlot(R, s)
  <2>1. s.at[2] \in IoPages
    BY <1>2 DEF IoSlot, Is
  <2>2. io \in Entry /\ ~io.brk
    BY <2>1, IoReadTyped DEF Io, At, Entry
  <2>3. Target(R, s) = io
    BY <1>2, SlotParts DEF Target, IoSlot, Is, IoPages, SlotPages, Bank, Fast
  <2> HIDE DEF io
  <2>4. Leaves(R, B, s, io, fixup_brks(B, s, io), FALSE)
    BY <2>2, Brks
  <2> QED BY <1>1, <1>2, <2>2, <2>3, <2>4 DEF Leaves, Same
<1>3. CASE ~IoSlot(R, s)
  BY <1>1, <1>3, Brks DEF Leaves, Same
<1> QED BY <1>2, <1>3

-------------------------------------------------------------------------------
(* The fixups of the shadow register.                                       *)

(* fixup_shadow_txt1.                                                       *)
LEMMA ShadowTxt1Leaves ==
  ASSUME NEW R \in Registers, NEW B, NEW s \in Slot, NEW e \in Entry
  PROVE  Leaves(R, B, s, e, fixup_shadow_txt1(R, s, e),
                Wr(s, {"01"}, {"txt1"}) \/ Is(s, Low, {"txt1"}))
<1>1. CASE Wr(s, {"01"}, {"txt1"})
  <2> DEFINE mark == Mark(s, TRUE, "txt1" \notin R.shadow)
  <2>1. /\ fixup_shadow_txt1(R, s, e) = Ram(s, FALSE, mark)
        /\ fixup_shadow_txt1(R, s, Io) = Ram(s, FALSE, mark)
    BY <1>1 DEF fixup_shadow_txt1
  <2>2. Target(R, s) = fixup_shadow_txt1(R, s, Io)
    BY <1>1, SlotParts DEF Target, Wr, Is, IoPages, SlotPages, Low
  <2>3. mark \in {"none", "shadow", "shadow2"}
    BY MarkTyped
  <2> HIDE DEF mark
  <2> QED BY <1>1, <2>1, <2>2, <2>3, RamIsEntry DEF Leaves, Same
<1>2. CASE ~Wr(s, {"01"}, {"txt1"})
  <2>1. fixup_shadow_txt1(R, s, e) = fixup_bank0_0400_0800(R, s, e)
    BY <1>2 DEF fixup_shadow_txt1
  <2> QED BY <1>2, <2>1, Txt1Leaves DEF Leaves
<1> QED BY <1>1, <1>2

(* fixup_shadow_hires1.                                                     *)
LEMMA ShadowHires1Leaves ==
  ASSUME NEW R \in Registers, NEW B, NEW s \in Slot, NEW e \in Entry
  PROVE  Leaves(R, B, s, e, fixup_shadow_hires1(R, s, e),
                Wr(s, {"01"}, {"hires1"}) \/ Is(s, Low, {"hires1"}))
<1>1. CASE Wr(s, {"01"}, {"hires1"})
  <2> DEFINE mark == Mark(s, TRUE, AuxOpen(R, "hires1"))
  <2>1. /\ fixup_shadow_hires1(R, s, e) = Ram(s, FALSE, mark)
        /\ fixup_shadow_hires1(R, s, Io) = Ram(s, FALSE, mark)
    BY <1>1 DEF fixup_shadow_hires1
  <2>2. Target(R, s) = fixup_shadow_hires1(R, s, Io)
    BY <1>1, SlotParts DEF Target, Wr, Is, IoPages, SlotPages, Low
  <2>3. mark \in {"none", "shadow", "shadow2"}
    BY MarkTyped
  <2> HIDE DEF mark
  <2> QED BY <1>1, <2>1, <2>2, <2>3, RamIsEntry DEF Leaves, Same
<1>2. CASE ~Wr(s, {"01"}, {"hires1"})
  <2>1. fixup_shadow_hires1(R, s, e) = fixup_bank0_2000_4000(R, s, e)
    BY <1>2 DEF fixup_shadow_hires1
  <2> QED BY <1>2, <2>1, Hires1Leaves DEF Leaves
<1> QED BY <1>1, <1>2

(* Bank 0's pages have one value, from RAMWRT's fixup and from the shadow   *)
(* register's.                                                              *)
LEMMA ShadowTxt2Leaves ==
  ASSUME NEW R \in Registers, NEW B, NEW s \in Slot, NEW e \in Entry
  PROVE  Leaves(R, B, s, e, fixup_shadow_txt2(R, s, e), Wr(s, Fast, {"txt2"}))
<1>1. CASE Wr(s, {"00"}, {"txt2"})
  <2> DEFINE alt == "ramwrt" \in R.state
             mark == Mark(s, alt, ~Txt2Inhibited(R))
  <2>1. fixup_shadow_txt2(R, s, e) = Ram(s, alt, mark)
    BY <1>1 DEF fixup_shadow_txt2, Wr, Is
  <2>2. Target(R, s) = fixup_ramwrt(R, s, Io)
    BY <1>1, SlotParts DEF Target, Wr, Is, IoPages, SlotPages, Low
  <2>3. fixup_ramwrt(R, s, Io) = Ram(s, alt, mark)
    BY <1>1 DEF fixup_ramwrt, Wr, Is, Low
  <2>4. mark \in {"none", "shadow", "shadow2"}
    BY MarkTyped
  <2>5. Wr(s, Fast, {"txt2"})
    BY <1>1 DEF Wr, Is, Fast
  <2> HIDE DEF mark, alt
  <2> QED BY <2>1, <2>2, <2>3, <2>4, <2>5, RamIsEntry DEF Leaves, Same
<1>2. CASE Wr(s, {"01"}, {"txt2"})
  <2> DEFINE mark == Mark(s, TRUE, ~Txt2Inhibited(R))
  <2>1. /\ fixup_shadow_txt2(R, s, e) = Ram(s, FALSE, mark)
        /\ fixup_shadow_txt2(R, s, Io) = Ram(s, FALSE, mark)
    BY <1>2 DEF fixup_shadow_txt2, Wr, Is
  <2>2. Target(R, s) = fixup_shadow_txt2(R, s, Io)
    BY <1>2, SlotParts DEF Target, Wr, Is, IoPages, SlotPages, Low
  <2>3. mark \in {"none", "shadow", "shadow2"}
    BY MarkTyped
  <2>4. Wr(s, Fast, {"txt2"})
    BY <1>2 DEF Wr, Is, Fast
  <2> HIDE DEF mark
  <2> QED BY <2>1, <2>2, <2>3, <2>4, RamIsEntry DEF Leaves, Same
<1>3. CASE ~Wr(s, {"00"}, {"txt2"}) /\ ~Wr(s, {"01"}, {"txt2"})
  BY <1>3 DEF fixup_shadow_txt2, Leaves, Same, Wr, Is, Fast
<1> QED BY <1>1, <1>2, <1>3

(* fixup_shadow_hires2, in the same way.                                    *)
LEMMA ShadowHires2Leaves ==
  ASSUME NEW R \in Registers, NEW B, NEW s \in Slot, NEW e \in Entry
  PROVE  Leaves(R, B, s, e, fixup_shadow_hires2(R, s, e), Wr(s, Fast, {"hires2"}))
<1>1. CASE Wr(s, {"00"}, {"hires2"})
  <2> DEFINE alt == "ramwrt" \in R.state
             mark == Mark(s, alt, HiresOpen(R, "hires2", alt))
  <2>1. fixup_shadow_hires2(R, s, e) = Ram(s, alt, mark)
    BY <1>1 DEF fixup_shadow_hires2, Wr, Is
  <2>2. Target(R, s) = fixup_ramwrt(R, s, Io)
    BY <1>1, SlotParts DEF Target, Wr, Is, IoPages, SlotPages, Low
  <2>3. fixup_ramwrt(R, s, Io) = Ram(s, alt, mark)
    BY <1>1 DEF fixup_ramwrt, Wr, Is, Low
  <2>4. mark \in {"none", "shadow", "shadow2"}
    BY MarkTyped
  <2>5. Wr(s, Fast, {"hires2"})
    BY <1>1 DEF Wr, Is, Fast
  <2> HIDE DEF mark, alt
  <2> QED BY <2>1, <2>2, <2>3, <2>4, <2>5, RamIsEntry DEF Leaves, Same
<1>2. CASE Wr(s, {"01"}, {"hires2"})
  <2> DEFINE mark == Mark(s, TRUE, AuxOpen(R, "hires2"))
  <2>1. /\ fixup_shadow_hires2(R, s, e) = Ram(s, FALSE, mark)
        /\ fixup_shadow_hires2(R, s, Io) = Ram(s, FALSE, mark)
    BY <1>2 DEF fixup_shadow_hires2, Wr, Is
  <2>2. Target(R, s) = fixup_shadow_hires2(R, s, Io)
    BY <1>2, SlotParts DEF Target, Wr, Is, IoPages, SlotPages, Low
  <2>3. mark \in {"none", "shadow", "shadow2"}
    BY MarkTyped
  <2>4. Wr(s, Fast, {"hires2"})
    BY <1>2 DEF Wr, Is, Fast
  <2> HIDE DEF mark
  <2> QED BY <2>1, <2>2, <2>3, <2>4, RamIsEntry DEF Leaves, Same
<1>3. CASE ~Wr(s, {"00"}, {"hires2"}) /\ ~Wr(s, {"01"}, {"hires2"})
  BY <1>3 DEF fixup_shadow_hires2, Leaves, Same, Wr, Is, Fast
<1> QED BY <1>1, <1>2, <1>3

(* fixup_shadow_shr.                                                        *)
LEMMA ShadowShrLeaves ==
  ASSUME NEW R \in Registers, NEW B, NEW s \in Slot, NEW e \in Entry
  PROVE  Leaves(R, B, s, e, fixup_shadow_shr(R, s, e), Wr(s, Fast, {"shr"}))
<1>1. CASE Wr(s, {"00"}, {"shr"})
  <2> DEFINE alt == "ramwrt" \in R.state
             mark == IF alt THEN Mark(s, alt, "shr" \notin R.shadow) ELSE "none"
  <2>1. fixup_shadow_shr(R, s, e) = Ram(s, alt, mark)
    <3>1. fixup_shadow_shr(R, s, e) = Ram(s, alt, Mark(s, alt, alt /\ "shr" \notin R.shadow))
      BY <1>1 DEF fixup_shadow_shr, Wr, Is
    <3>2. Mark(s, alt, alt /\ "shr" \notin R.shadow) = mark
      BY <1>1 DEF Mark, Wr, Is
    <3> QED BY <3>1, <3>2
  <2>2. Target(R, s) = fixup_ramwrt(R, s, Io)
    BY <1>1, SlotParts DEF Target, Wr, Is, IoPages, SlotPages, Low
  <2>3. fixup_ramwrt(R, s, Io) = Ram(s, alt, mark)
    BY <1>1 DEF fixup_ramwrt, Wr, Is, Low
  <2>4. mark \in {"none", "shadow", "shadow2"}
    BY MarkTyped
  <2>5. Wr(s, Fast, {"shr"})
    BY <1>1 DEF Wr, Is, Fast
  <2> HIDE DEF mark, alt
  <2> QED BY <2>1, <2>2, <2>3, <2>4, <2>5, RamIsEntry DEF Leaves, Same
<1>2. CASE Wr(s, {"01"}, {"shr"})
  <2> DEFINE mark == Mark(s, TRUE, "shr" \notin R.shadow)
  <2>1. /\ fixup_shadow_shr(R, s, e) = Ram(s, FALSE, mark)
        /\ fixup_shadow_shr(R, s, Io) = Ram(s, FALSE, mark)
    BY <1>2 DEF fixup_shadow_shr, Wr, Is
  <2>2. Target(R, s) = fixup_shadow_shr(R, s, Io)
    BY <1>2, SlotParts DEF Target, Wr, Is, IoPages, SlotPages, Low
  <2>3. mark \in {"none", "shadow", "shadow2"}
    BY MarkTyped
  <2>4. Wr(s, Fast, {"shr"})
    BY <1>2 DEF Wr, Is, Fast
  <2> HIDE DEF mark
  <2> QED BY <2>1, <2>2, <2>3, <2>4, RamIsEntry DEF Leaves, Same
<1>3. CASE ~Wr(s, {"00"}, {"shr"}) /\ ~Wr(s, {"01"}, {"shr"})
  BY <1>3 DEF fixup_shadow_shr, Leaves, Same, Wr, Is, Fast
<1> QED BY <1>1, <1>2, <1>3

(* With the language card off, fixup_lc would give bank 0 and 1's pages the *)
(* same values.                                                             *)
LEMMA LcOff ==
  ASSUME NEW R \in Registers, NEW s \in Slot, "iolc" \in R.shadow, Is(s, Fast, {"d0", "e0"})
  PROVE  fixup_lc(R, s, Io) =
           [Ram(s, s.at[1] = "00" /\ "altzp" \in R.state, "none")
              EXCEPT !.page = IF s.at[2] = "d0" THEN "c000" ELSE "own"]
<1>1. s.at[1] \in Low <=> s.at[1] = "00"
  BY DEF Is, Fast, Low
<1>2. Is(s, Bank, {"d0", "e0"}) /\ s.at[1] \in Fast
  BY DEF Is, Fast, Bank
<1> QED BY <1>1, <1>2 DEF fixup_lc, Ram, At

(* fixup_shadow_iolc.                                                       *)
LEMMA ShadowIolcLeaves ==
  ASSUME NEW R \in Registers, NEW B, NEW s \in Slot, NEW e \in Entry
  PROVE  Leaves(R, B, s, e, fixup_shadow_iolc(R, B, s, e),
                Is(s, IF "iolc" \in R.shadow THEN Fast ELSE Bank, IoPages \union {"d0", "e0"}))
<1> DEFINE f == fixup_shadow_iolc(R, B, s, e)
           alt == s.at[1] = "00" /\ "altzp" \in R.state
           writes == Is(s, IF "iolc" \in R.shadow THEN Fast ELSE Bank, IoPages \union {"d0", "e0"})
<1> SUFFICES Leaves(R, B, s, e, f, writes)
  OBVIOUS
<1>1. CASE "iolc" \notin R.shadow
  <2> DEFINE cx == fixup_intcx(R, B, s, e)
  <2>1. f = fixup_lc(R, s, cx)
    BY <1>1 DEF fixup_shadow_iolc
  <2>2. Leaves(R, B, s, e, cx, Is(s, Bank, IoPages))
    BY <1>1, IntcxLeaves DEF IoSlot
  <2> HIDE DEF cx
  <2>3. Leaves(R, B, s, cx, fixup_lc(R, s, cx), Is(s, Bank, {"d0", "e0"}))
    BY <2>2, LcLeaves DEF Leaves
  <2>4. writes <=> Is(s, Bank, IoPages) \/ Is(s, Bank, {"d0", "e0"})
    BY <1>1 DEF Is
  <2> HIDE DEF f, writes
  <2> QED BY <1>1, <2>1, <2>2, <2>3, <2>4 DEF Leaves, Same
<1>2. CASE "iolc" \in R.shadow /\ Is(s, Fast, IoPages)
  <2>1. f = At(OwnMem(s.at[1]), "d000", "none")
    BY <1>2 DEF fixup_shadow_iolc, Is, IoPages, SlotPages
  <2>2. Target(R, s) = At(OwnMem(s.at[1]), "d000", "none")
    BY <1>2, SlotParts DEF Target, Is, IoPages, SlotPages, Fast
  <2>3. f \in Entry /\ ~f.brk
    BY <2>1 DEF At, OwnMem, Entry
  <2>4. writes
    BY <1>2 DEF Is
  <2> HIDE DEF f, writes
  <2> QED BY <2>1, <2>2, <2>3, <2>4 DEF Leaves, Same
<1>3. CASE "iolc" \in R.shadow /\ Is(s, Fast, {"d0", "e0"})
  <2> DEFINE ram == Ram(s, alt, "none")
             g == [ram EXCEPT !.page = IF s.at[2] = "d0" THEN "c000" ELSE "own"]
  <2>1. ram \in Entry /\ ~ram.brk /\ ram.page = "own"
    BY RamIsEntry DEF Ram, At
  <2>2. f = IF s.at[2] = "d0" THEN [ram EXCEPT !.page = "c000"] ELSE ram
    BY <1>3 DEF fixup_shadow_iolc, Is, IoPages, SlotPages
  <2>3. g = IF s.at[2] = "d0" THEN [ram EXCEPT !.page = "c000"] ELSE ram
    <3> HIDE DEF ram
    <3> QED BY <2>1 DEF Entry
  <2>4. Target(R, s) = fixup_lc(R, s, Io)
    BY <1>3, SlotParts DEF Target, Is, IoPages, SlotPages, Low
  <2>5. fixup_lc(R, s, Io) = g
    BY <1>3, LcOff
  <2>6. writes
    BY <1>3 DEF Is
  <2>7. g \in Entry /\ ~g.brk
    <3> HIDE DEF ram
    <3> QED BY <2>1 DEF Entry
  <2> HIDE DEF f, g, writes
  <2> QED BY <2>2, <2>3, <2>4, <2>5, <2>6, <2>7 DEF Leaves, Same
<1>4. CASE "iolc" \in R.shadow /\ ~Is(s, Fast, IoPages \union {"d0", "e0"})
  <2>1. f = e
    BY <1>4 DEF fixup_shadow_iolc, Is
  <2> QED BY <1>4, <2>1 DEF Leaves, Same
<1>5. Is(s, Fast, IoPages \union {"d0", "e0"}) <=> Is(s, Fast, IoPages) \/ Is(s, Fast, {"d0", "e0"})
  BY DEF Is
<1> QED BY <1>1, <1>2, <1>3, <1>4, <1>5

(* fixup_shadow_all_banks.                                                  *)
LEMMA AllBanksLeaves ==
  ASSUME NEW R \in Registers, NEW B, NEW s \in Slot, NEW e \in Entry
  PROVE  Leaves(R, B, s, e, fixup_shadow_all_banks(R, B, s, e), Wr(s, {"03"}, {"shr"}))
<1> DEFINE mark == Mark(s, TRUE, R.all_banks /\ "shr" \notin R.shadow)
           f == IF Wr(s, {"03"}, {"shr"}) THEN Ram(s, FALSE, mark) ELSE e
<1>1. fixup_shadow_all_banks(R, B, s, e) = fixup_brks(B, s, f)
  BY DEF fixup_shadow_all_banks
<1>2. mark \in {"none", "shadow", "shadow2"}
  BY MarkTyped
<1>3. Wr(s, {"03"}, {"shr"}) => Target(R, s) = Ram(s, FALSE, mark)
  BY SlotParts DEF Target, Wr, Is, IoPages, SlotPages, Low, Fast
<1> HIDE DEF mark
<1>4. f \in Entry /\ (f.brk => e.brk)
  BY <1>2, RamIsEntry
<1>5. Leaves(R, B, s, f, fixup_brks(B, s, f), FALSE)
  BY <1>4, Brks
<1> QED BY <1>1, <1>3, <1>4, <1>5 DEF Leaves, Same

(* fixup_st80col.                                                           *)
LEMMA St80Leaves ==
  ASSUME NEW R \in Registers, NEW B, NEW s \in Slot, NEW e \in Entry
  PROVE  Leaves(R, B, s, e, fixup_st80col(R, B, s, e),
                Is(s, Low, {"txt1"}) \/ ("hires" \in R.a2 /\ Is(s, Low, {"hires1"})))
<1> DEFINE txt == fixup_bank0_0400_0800(R, s, e)
           gr == IF "hires" \in R.a2 THEN fixup_bank0_2000_4000(R, s, txt) ELSE txt
<1>1. Leaves(R, B, s, e, txt, Is(s, Low, {"txt1"}))
  BY Txt1Leaves
<1>2. fixup_st80col(R, B, s, e) = fixup_brks(B, s, gr)
  BY DEF fixup_st80col
<1> HIDE DEF txt
<1>3. Leaves(R, B, s, txt, fixup_bank0_2000_4000(R, s, txt), Is(s, Low, {"hires1"}))
  BY <1>1, Hires1Leaves DEF Leaves
<1>4. Leaves(R, B, s, txt, gr, "hires" \in R.a2 /\ Is(s, Low, {"hires1"}))
  BY <1>1, <1>3 DEF Leaves, Same
<1> HIDE DEF gr
<1>5. Leaves(R, B, s, gr, fixup_brks(B, s, gr), FALSE)
  BY <1>4, Brks DEF Leaves
<1> QED BY <1>1, <1>2, <1>4, <1>5 DEF Leaves, Same

(* fixup_hires_on.                                                          *)
LEMMA HiresOnLeaves ==
  ASSUME NEW R \in Registers, NEW B, NEW s \in Slot, NEW e \in Entry
  PROVE  Leaves(R, B, s, e, fixup_hires_on(R, B, s, e), "st80" \in R.a2 /\ Is(s, Low, {"hires1"}))
<1> DEFINE gr == fixup_bank0_2000_4000(R, s, e)
<1>1. Leaves(R, B, s, e, gr, Is(s, Low, {"hires1"}))
  BY Hires1Leaves
<1>2. fixup_hires_on(R, B, s, e) = IF "st80" \in R.a2 THEN fixup_brks(B, s, gr) ELSE e
  BY DEF fixup_hires_on
<1> HIDE DEF gr
<1>3. Leaves(R, B, s, gr, fixup_brks(B, s, gr), FALSE)
  BY <1>1, Brks DEF Leaves
<1> QED BY <1>1, <1>2, <1>3 DEF Leaves, Same

-------------------------------------------------------------------------------
(* What each entry depends on.                                              *)

TxtAlt(R, s) == IF "st80" \in R.a2 THEN "page2" \in R.a2 ELSE RamSwitch(R, s)
HiresAlt(R, s) == IF {"st80", "hires"} \subseteq R.a2 THEN "page2" \in R.a2 ELSE RamSwitch(R, s)

Alike(S, T, bits) == \A x \in bits : x \in S <=> x \in T

(* Registers R and Q agree on all that decides slot s.                      *)
Agree(R, Q, s) ==
  /\ Is(s, Low, {"zp"}) => Alike(R.state, Q.state, {"altzp"})
  /\ Is(s, Fast, IoPages \union {"d0", "e0"}) => Alike(R.shadow, Q.shadow, {"iolc"})
  /\ IoSlot(R, s) => /\ Alike(R.state, Q.state, {"intcx", "intc8rom"})
                     /\ R.crom = Q.crom
  /\ Is(s, Bank, {"d0", "e0"}) =>
       Alike(R.state, Q.state, {"altzp", "rdrom", "lcbank2", "wrdefram"})
  /\ Is(s, Low, {"txt1"}) => /\ TxtAlt(R, s) <=> TxtAlt(Q, s)
                             /\ Alike(R.shadow, Q.shadow, {"txt1"})
  /\ Is(s, Low, {"hires1"}) => /\ HiresAlt(R, s) <=> HiresAlt(Q, s)
                               /\ Alike(R.shadow, Q.shadow, {"hires1", "auxhires", "shr"})
  /\ Is(s, Low, {"ram", "txt2", "hires2", "shr"}) => RamSwitch(R, s) <=> RamSwitch(Q, s)
  /\ Wr(s, {"01"}, {"txt1"}) => Alike(R.shadow, Q.shadow, {"txt1"})
  /\ Wr(s, Fast, {"txt2"}) => Txt2Inhibited(R) <=> Txt2Inhibited(Q)
  /\ Wr(s, {"01"}, {"hires1"}) => Alike(R.shadow, Q.shadow, {"hires1", "auxhires", "shr"})
  /\ Wr(s, Fast, {"hires2"}) => Alike(R.shadow, Q.shadow, {"hires2", "auxhires", "shr"})
  /\ Wr(s, Fast, {"shr"}) => Alike(R.shadow, Q.shadow, {"shr"})
  /\ Wr(s, {"03"}, {"shr"}) => /\ R.all_banks <=> Q.all_banks
                               /\ Alike(R.shadow, Q.shadow, {"shr"})

(* Registers that agree on what decides a slot give it the same value.      *)
LEMMA TargetDepends ==
  ASSUME NEW R \in Registers, NEW Q \in Registers, NEW s \in Slot, Agree(R, Q, s)
  PROVE  Same(Target(R, s), Target(Q, s))
<1> USE SlotParts DEF Is, Wr, Alike, Same
<1>1. CASE Is(s, Low, {"zp"})
  BY <1>1 DEF Agree, Target, fixup_altzp, Ram, At, Low, IoPages, SlotPages
<1>2. CASE Is(s, Bank, IoPages)
  <2>1. Target(R, s) = IF s.at[1] \in Fast /\ "iolc" \in R.shadow THEN At(OwnMem(s.at[1]), "d000", "none")
                       ELSE IF s.side = "rd" THEN IoRead(R, s.at[2]) ELSE Io
    BY <1>2 DEF Target, IoPages, SlotPages
  <2>2. Target(Q, s) = IF s.at[1] \in Fast /\ "iolc" \in Q.shadow THEN At(OwnMem(s.at[1]), "d000", "none")
                       ELSE IF s.side = "rd" THEN IoRead(Q, s.at[2]) ELSE Io
    BY <1>2 DEF Target, IoPages, SlotPages
  <2>3. IoSlot(R, s) => IoRead(R, s.at[2]) = IoRead(Q, s.at[2])
    BY <1>2 DEF Agree, IoRead, CardOrRom, IoPages, SlotPages
  <2>4. s.at[1] \in Fast => ("iolc" \in R.shadow <=> "iolc" \in Q.shadow)
    BY <1>2 DEF Agree
  <2>5. IoSlot(R, s) <=> ~(s.at[1] \in Fast /\ "iolc" \in R.shadow)
    BY <1>2 DEF IoSlot
  <2> QED BY <2>1, <2>2, <2>3, <2>4, <2>5
<1>3. CASE Is(s, Bank, {"d0", "e0"})
  <2>1. Target(R, s) = fixup_lc(R, s, Io) /\ Target(Q, s) = fixup_lc(Q, s, Io)
    BY <1>3 DEF Target, Low, IoPages, SlotPages
  <2>2. fixup_lc(R, s, Io) = fixup_lc(Q, s, Io)
    <3>1. s.at[1] \in Fast => ("iolc" \in R.shadow <=> "iolc" \in Q.shadow)
      BY <1>3 DEF Agree
    <3>2. Alike(R.state, Q.state, {"altzp", "rdrom", "lcbank2", "wrdefram"})
      BY <1>3 DEF Agree
    <3> QED BY <1>3, <3>1, <3>2 DEF fixup_lc, Ram, At
  <2> QED BY <2>1, <2>2
<1>4. CASE Is(s, Low, {"txt1"})
  <2>1. /\ Target(R, s) = fixup_bank0_0400_0800(R, s, Io)
        /\ Target(Q, s) = fixup_bank0_0400_0800(Q, s, Io)
    BY <1>4 DEF Target, Low, IoPages, SlotPages
  <2>2. fixup_bank0_0400_0800(R, s, Io) = fixup_bank0_0400_0800(Q, s, Io)
    BY <1>4 DEF Agree, TxtAlt, fixup_bank0_0400_0800, Ram, At, Mark
  <2> QED BY <2>1, <2>2
<1>5. CASE Is(s, Low, {"hires1"})
  <2>1. /\ Target(R, s) = fixup_bank0_2000_4000(R, s, Io)
        /\ Target(Q, s) = fixup_bank0_2000_4000(Q, s, Io)
    BY <1>5 DEF Target, Low, IoPages, SlotPages
  <2>2. fixup_bank0_2000_4000(R, s, Io) = fixup_bank0_2000_4000(Q, s, Io)
    BY <1>5 DEF Agree, HiresAlt, fixup_bank0_2000_4000, Ram, At, Mark, HiresOpen, AuxOpen
  <2> QED BY <2>1, <2>2
<1>6. CASE s.side = "rd" /\ Is(s, Low, {"ram", "txt2", "hires2", "shr"})
  <2>1. Target(R, s) = fixup_ramrd(R, s, Io) /\ Target(Q, s) = fixup_ramrd(Q, s, Io)
    BY <1>6 DEF Target, Low, IoPages, SlotPages
  <2>2. fixup_ramrd(R, s, Io) = fixup_ramrd(Q, s, Io)
    BY <1>6 DEF Agree, RamSwitch, fixup_ramrd, Ram, At
  <2> QED BY <2>1, <2>2
<1>7. CASE s.side = "wr" /\ Is(s, Low, {"ram", "txt2", "hires2", "shr"})
  <2>1. Target(R, s) = fixup_ramwrt(R, s, Io) /\ Target(Q, s) = fixup_ramwrt(Q, s, Io)
    BY <1>7 DEF Target, Low, IoPages, SlotPages
  <2>2. CASE s.at[1] = "00"
    <3>1. fixup_ramwrt(R, s, Io) = fixup_ramwrt(Q, s, Io)
      BY <1>7, <2>2 DEF Agree, RamSwitch, fixup_ramwrt, Ram, At, Mark, HiresOpen, AuxOpen, Fast
    <3> QED BY <2>1, <3>1
  <2>3. CASE s.at[1] = "E0"
    <3>1. fixup_ramwrt(R, s, Io) = fixup_ramwrt(Q, s, Io)
      BY <1>7, <2>3 DEF Agree, RamSwitch, fixup_ramwrt, Ram, At, Mark
    <3> QED BY <2>1, <3>1
  <2> QED BY <1>7, <2>2, <2>3 DEF Low
<1>8. CASE Wr(s, {"01"}, {"txt1", "txt2", "hires1", "hires2", "shr"})
  <2>1. CASE s.at[2] = "txt1"
    BY <1>8, <2>1 DEF Agree, Target, fixup_shadow_txt1, Ram, At, Mark, Low, IoPages, SlotPages
  <2>2. CASE s.at[2] = "txt2"
    BY <1>8, <2>2 DEF Agree, Target, fixup_shadow_txt2, Ram, At, Mark, Low, Fast, IoPages, SlotPages
  <2>3. CASE s.at[2] = "hires1"
    BY <1>8, <2>3 DEF Agree, Target, fixup_shadow_hires1, Ram, At, Mark, AuxOpen, Low, IoPages, SlotPages
  <2>4. CASE s.at[2] = "hires2"
    BY <1>8, <2>4 DEF Agree, Target, fixup_shadow_hires2, Ram, At, Mark, AuxOpen, Low, Fast, IoPages, SlotPages
  <2>5. CASE s.at[2] = "shr"
    BY <1>8, <2>5 DEF Agree, Target, fixup_shadow_shr, Ram, At, Mark, Low, Fast, IoPages, SlotPages
  <2> QED BY <1>8, <2>1, <2>2, <2>3, <2>4, <2>5
<1>9. CASE Wr(s, {"03"}, {"shr"})
  BY <1>9 DEF Agree, Target, Ram, At, Mark, Low, Fast, IoPages, SlotPages
<1>10. CASE /\ s.at[1] = "03" => s.side = "rd"
            /\ s.at[2] \notin IoPages \union {"d0", "e0"}
            /\ s.at[1] \notin Low
            /\ s.at[1] = "01" /\ s.side = "wr" => s.at[2] \notin {"txt1", "txt2", "hires1", "hires2", "shr"}
  <2>1. Target(R, s) = BaseEntry(s) /\ Target(Q, s) = BaseEntry(s)
    BY <1>10 DEF Target, Low, IoPages, SlotPages
  <2> QED BY <2>1
<1>11. CASE s.at[1] = "03"
  BY <1>9, <1>10, <1>11 DEF IoPages, SlotPages, Low
<1>12. CASE s.at[1] # "03"
  BY <1>1, <1>2, <1>3, <1>4, <1>5, <1>6, <1>7, <1>8, <1>10, <1>12 DEF IoPages, SlotPages, Low, Bank, Region
<1> QED BY <1>11, <1>12

-------------------------------------------------------------------------------
(* setup_pageinfo.                                                          *)

(* What setup_pageinfo begins with are entries.                             *)
LEMMA BaseTyped ==
  ASSUME NEW s \in Slot
  PROVE  BaseEntry(s) \in Entry /\ ~BaseEntry(s).brk
BY RamIsEntry DEF BaseEntry, Wr, Is

(* Every slot some fixup of setup_pageinfo writes, and the others are what  *)
(* it begins with.                                                          *)
SetupWrites(R, s) ==
  \/ Wr(s, {"03"}, {"shr"}) \/ IoSlot(R, s) \/ Is(s, Bank, {"d0", "e0"})
  \/ Is(s, Low, {"hires1"}) \/ Is(s, Low, {"txt1"}) \/ Is(s, Low, {"zp"})
  \/ s.side = "rd" /\ Is(s, Low, {"ram", "txt2", "hires2", "shr"})
  \/ Wr(s, Low, {"ram", "txt2", "hires2", "shr"})
  \/ Wr(s, {"01"}, {"txt1"}) \/ Wr(s, Fast, {"txt2"}) \/ Wr(s, {"01"}, {"hires1"})
  \/ Wr(s, Fast, {"hires2"}) \/ Wr(s, Fast, {"shr"})
  \/ Is(s, IF "iolc" \in R.shadow THEN Fast ELSE Bank, IoPages \union {"d0", "e0"})

(* What setup_pageinfo begins with is right where no fixup writes.          *)
LEMMA SetupUnwritten ==
  ASSUME NEW R \in Registers, NEW s \in Slot, ~SetupWrites(R, s)
  PROVE  Target(R, s) = BaseEntry(s)
<1>1. ~Is(s, Bank, IoPages)
  BY DEF SetupWrites, IoSlot, Is, Bank, Fast
<1>2. ~Is(s, Low, {"txt1", "hires1", "zp", "ram", "txt2", "hires2", "shr"})
  BY SlotParts DEF SetupWrites, Is, Wr
<1>3. ~Wr(s, {"01"}, {"txt1", "txt2", "hires1", "hires2", "shr"})
  BY DEF SetupWrites, Is, Wr, Fast
<1>4. ~Is(s, Bank, {"d0", "e0"}) /\ ~Wr(s, {"03"}, {"shr"})
  BY DEF SetupWrites
<1> QED BY <1>1, <1>2, <1>3, <1>4, SlotParts DEF Target, Is, Wr, IoPages, SlotPages, Low, Fast, Bank

(* setup_pageinfo gives every slot its value and its breakpoint mark.       *)
LEMMA SetupIs ==
  ASSUME NEW R \in Registers, NEW B, NEW s \in Slot
  PROVE  /\ setup_pageinfo(R, B, s) \in Entry
         /\ setup_pageinfo(R, B, s).brk <=> Marked(B, s)
         /\ Same(setup_pageinfo(R, B, s), Target(R, s))
<1> DEFINE e0 == BaseEntry(s)
           e1 == fixup_shadow_all_banks(R, B, s, e0)
           e2 == fixup_intcx(R, B, s, e1)
           e3 == fixup_lc(R, s, e2)
           e4 == fixup_bank0_2000_4000(R, s, e3)
           e5 == fixup_bank0_0400_0800(R, s, e4)
           e6 == fixup_altzp(R, s, e5)
           e7 == fixup_ramrd(R, s, e6)
           e8 == fixup_ramwrt(R, s, e7)
           e9 == fixup_shadow_txt1(R, s, e8)
           e10 == fixup_shadow_txt2(R, s, e9)
           e11 == fixup_shadow_hires1(R, s, e10)
           e12 == fixup_shadow_hires2(R, s, e11)
           e13 == fixup_shadow_shr(R, s, e12)
           e14 == fixup_shadow_iolc(R, B, s, e13)
           e15 == fixup_brks(B, s, e14)
<1>0. setup_pageinfo(R, B, s) = e15
  BY DEF setup_pageinfo
<1>1. Leaves(R, B, s, e0, e1, Wr(s, {"03"}, {"shr"}))
  BY BaseTyped, AllBanksLeaves
<1>2. Leaves(R, B, s, e1, e2, IoSlot(R, s))
  <2> HIDE DEF e1
  <2> QED BY <1>1, IntcxLeaves DEF Leaves
<1>3. Leaves(R, B, s, e2, e3, Is(s, Bank, {"d0", "e0"}))
  <2> HIDE DEF e2
  <2> QED BY <1>2, LcLeaves DEF Leaves
<1>4. Leaves(R, B, s, e3, e4, Is(s, Low, {"hires1"}))
  <2> HIDE DEF e3
  <2> QED BY <1>3, Hires1Leaves DEF Leaves
<1>5. Leaves(R, B, s, e4, e5, Is(s, Low, {"txt1"}))
  <2> HIDE DEF e4
  <2> QED BY <1>4, Txt1Leaves DEF Leaves
<1>6. Leaves(R, B, s, e5, e6, Is(s, Low, {"zp"}))
  <2> HIDE DEF e5
  <2> QED BY <1>5, AltzpLeaves DEF Leaves
<1>7. Leaves(R, B, s, e6, e7, \/ s.side = "rd" /\ Is(s, Low, {"ram", "txt2", "hires2", "shr"})
                              \/ Switched(R, s))
  <2> HIDE DEF e6
  <2> QED BY <1>6, RamrdLeaves DEF Leaves
<1>8. Leaves(R, B, s, e7, e8, Wr(s, Low, {"ram", "txt2", "hires2", "shr"}) \/ Switched(R, s))
  <2> HIDE DEF e7
  <2> QED BY <1>7, RamwrtLeaves DEF Leaves
<1>9. Leaves(R, B, s, e8, e9, Wr(s, {"01"}, {"txt1"}) \/ Is(s, Low, {"txt1"}))
  <2> HIDE DEF e8
  <2> QED BY <1>8, ShadowTxt1Leaves DEF Leaves
<1>10. Leaves(R, B, s, e9, e10, Wr(s, Fast, {"txt2"}))
  <2> HIDE DEF e9
  <2> QED BY <1>9, ShadowTxt2Leaves DEF Leaves
<1>11. Leaves(R, B, s, e10, e11, Wr(s, {"01"}, {"hires1"}) \/ Is(s, Low, {"hires1"}))
  <2> HIDE DEF e10
  <2> QED BY <1>10, ShadowHires1Leaves DEF Leaves
<1>12. Leaves(R, B, s, e11, e12, Wr(s, Fast, {"hires2"}))
  <2> HIDE DEF e11
  <2> QED BY <1>11, ShadowHires2Leaves DEF Leaves
<1>13. Leaves(R, B, s, e12, e13, Wr(s, Fast, {"shr"}))
  <2> HIDE DEF e12
  <2> QED BY <1>12, ShadowShrLeaves DEF Leaves
<1>14. Leaves(R, B, s, e13, e14, Is(s, IF "iolc" \in R.shadow THEN Fast ELSE Bank, IoPages \union {"d0", "e0"}))
  <2> HIDE DEF e13
  <2> QED BY <1>13, ShadowIolcLeaves DEF Leaves
<1>15. e15 \in Entry /\ Same(e15, e14) /\ (e15.brk <=> e14.brk \/ Marked(B, s))
  <2> HIDE DEF e14
  <2> QED BY <1>14, Brks DEF Leaves
<1>16. ~e0.brk
  BY BaseTyped
<1> HIDE DEF e0, e1, e2, e3, e4, e5, e6, e7, e8, e9, e10, e11, e12, e13, e14, e15
<1>17. e14.brk => Marked(B, s)
  BY <1>1, <1>2, <1>3, <1>4, <1>5, <1>6, <1>7, <1>8, <1>9, <1>10, <1>11, <1>12, <1>13, <1>14, <1>16 DEF Leaves
<1>18. ASSUME Same(e0, Target(R, s)) \/ SetupWrites(R, s)
       PROVE  Same(e14, Target(R, s))
  BY <1>1, <1>2, <1>3, <1>4, <1>5, <1>6, <1>7, <1>8, <1>9, <1>10, <1>11, <1>12, <1>13, <1>14, <1>18
     DEF Leaves, Same, SetupWrites
<1>19. Same(e0, Target(R, s)) \/ SetupWrites(R, s)
  BY SetupUnwritten DEF Same, e0
<1> QED BY <1>0, <1>15, <1>17, <1>18, <1>19 DEF Same

-------------------------------------------------------------------------------
(* The fixups of one register write.                                        *)

StateWrites(R, changed, s) ==
  \/ /\ changed \intersect {"wrdefram", "altzp", "rdrom", "lcbank2"} # {}
     /\ Is(s, Bank, {"d0", "e0"})
  \/ "altzp" \in changed /\ Is(s, Low, {"zp"})
  \/ "page2" \in changed /\ "st80" \in R.a2 /\ Is(s, Low, {"txt1"})
  \/ "page2" \in changed /\ {"st80", "hires"} \subseteq R.a2 /\ Is(s, Low, {"hires1"})
  \/ "ramrd" \in changed /\ s.side = "rd" /\ Is(s, Low, {"ram", "txt2", "hires2", "shr"})
  \/ "ramwrt" \in changed /\ Wr(s, Low, {"ram", "txt2", "hires2", "shr"})
  \/ changed \intersect {"ramrd", "ramwrt"} # {} /\ Switched(R, s)
  \/ changed \intersect {"intc8rom", "intcx"} # {} /\ IoSlot(R, s)

(* The fixups of set_statereg write the slots of StateWrites.               *)
LEMMA StateFixupsLeaves ==
  ASSUME NEW R \in Registers, NEW B, NEW s \in Slot, NEW e \in Entry, NEW changed,
         e.brk => Marked(B, s)
  PROVE  /\ Leaves(R, B, s, e, StateFixups(R, B, changed, s, e), StateWrites(R, changed, s))
         /\ StateFixups(R, B, changed, s, e).brk <=> Marked(B, s)
<1> DEFINE lc == IF changed \intersect {"wrdefram", "altzp", "rdrom", "lcbank2"} # {}
                   THEN fixup_lc(R, s, e) ELSE e
           zp == IF "altzp" \in changed THEN fixup_altzp(R, s, lc) ELSE lc
           page2 == IF "page2" \in changed THEN fixup_page2(R, s, zp) ELSE zp
           rd == IF "ramrd" \in changed THEN fixup_ramrd(R, s, page2) ELSE page2
           wrt == IF "ramwrt" \in changed THEN fixup_ramwrt(R, s, rd) ELSE rd
           cx == IF changed \intersect {"intc8rom", "intcx"} # {}
                   THEN fixup_intcx(R, B, s, wrt) ELSE wrt
           f == fixup_brks(B, s, cx)
<1>0. StateFixups(R, B, changed, s, e) = f
  BY DEF StateFixups
<1>1. Leaves(R, B, s, e, lc, /\ changed \intersect {"wrdefram", "altzp", "rdrom", "lcbank2"} # {}
                             /\ Is(s, Bank, {"d0", "e0"}))
  <2> DEFINE any == changed \intersect {"wrdefram", "altzp", "rdrom", "lcbank2"} # {}
  <2> HIDE DEF any
  <2> QED BY LcLeaves DEF Leaves, Same
<1>2. Leaves(R, B, s, lc, zp, "altzp" \in changed /\ Is(s, Low, {"zp"}))
  <2> HIDE DEF lc
  <2>1. lc \in Entry
    BY <1>1 DEF Leaves
  <2> QED BY <2>1, AltzpLeaves DEF Leaves, Same
<1>3. Leaves(R, B, s, zp, page2,
        /\ "page2" \in changed
        /\ \/ "st80" \in R.a2 /\ Is(s, Low, {"txt1"})
           \/ {"st80", "hires"} \subseteq R.a2 /\ Is(s, Low, {"hires1"}))
  <2> HIDE DEF zp
  <2>1. zp \in Entry
    BY <1>2 DEF Leaves
  <2> QED BY <2>1, Page2Leaves DEF Leaves, Same
<1>4. Leaves(R, B, s, page2, rd,
        /\ "ramrd" \in changed
        /\ \/ s.side = "rd" /\ Is(s, Low, {"ram", "txt2", "hires2", "shr"})
           \/ Switched(R, s))
  <2> HIDE DEF page2
  <2>1. page2 \in Entry
    BY <1>3 DEF Leaves
  <2> QED BY <2>1, RamrdLeaves DEF Leaves, Same
<1>5. Leaves(R, B, s, rd, wrt,
        /\ "ramwrt" \in changed
        /\ Wr(s, Low, {"ram", "txt2", "hires2", "shr"}) \/ Switched(R, s))
  <2> HIDE DEF rd
  <2>1. rd \in Entry
    BY <1>4 DEF Leaves
  <2> QED BY <2>1, RamwrtLeaves DEF Leaves, Same
<1>6. Leaves(R, B, s, wrt, cx, changed \intersect {"intc8rom", "intcx"} # {} /\ IoSlot(R, s))
  <2> DEFINE any == changed \intersect {"intc8rom", "intcx"} # {}
  <2> HIDE DEF wrt, any
  <2>1. wrt \in Entry
    BY <1>5 DEF Leaves
  <2>2. CASE any
    <3>1. cx = fixup_intcx(R, B, s, wrt)
      BY <2>2 DEF any
    <3>2. Leaves(R, B, s, wrt, cx, IoSlot(R, s))
      BY <2>1, <3>1, IntcxLeaves
    <3> QED BY ONLY <2>2, <3>2 DEF Leaves, any
  <2>3. CASE ~any
    <3>1. cx = wrt
      BY <2>3 DEF any
    <3> QED BY ONLY <2>1, <2>3, <3>1 DEF Leaves, Same, any
  <2> QED BY <2>2, <2>3
<1>7. f \in Entry /\ Same(f, cx) /\ (f.brk <=> cx.brk \/ Marked(B, s))
  <2> HIDE DEF cx
  <2> QED BY <1>6, Brks DEF Leaves
<1> HIDE DEF lc, zp, page2, rd, wrt, cx, f
<1>8. f.brk <=> Marked(B, s)
  BY <1>1, <1>2, <1>3, <1>4, <1>5, <1>6, <1>7 DEF Leaves
<1>9. StateWrites(R, changed, s) => Same(cx, Target(R, s))
  BY <1>1, <1>2, <1>3, <1>4, <1>5, <1>6 DEF Leaves, Same, StateWrites
<1>10. ~StateWrites(R, changed, s) => Same(cx, e)
  BY <1>1, <1>2, <1>3, <1>4, <1>5, <1>6 DEF Leaves, Same, StateWrites
<1> QED BY <1>0, <1>7, <1>8, <1>9, <1>10 DEF Leaves, Same

ShadowWrites(R, changed, s) ==
  \/ /\ changed \intersect {"shr", "auxhires", "hires1"} # {}
     /\ Wr(s, {"01"}, {"hires1"}) \/ Is(s, Low, {"hires1"})
  \/ changed \intersect {"shr", "auxhires", "hires2"} # {} /\ Wr(s, Fast, {"hires2"})
  \/ "shr" \in changed /\ Wr(s, Fast, {"shr"})
  \/ "txt1" \in changed /\ (Wr(s, {"01"}, {"txt1"}) \/ Is(s, Low, {"txt1"}))
  \/ /\ "txt2" \in changed /\ (RomVersion # 1 \/ R.user_page2)
     /\ Wr(s, Fast, {"txt2"})
  \/ /\ "iolc" \in changed
     /\ Is(s, IF "iolc" \in R.shadow THEN Fast ELSE Bank, IoPages \union {"d0", "e0"})

(* The fixups of update_shadow_reg write the slots of ShadowWrites.         *)
LEMMA ShadowFixupsLeaves ==
  ASSUME NEW R \in Registers, NEW B, NEW s \in Slot, NEW e \in Entry, NEW changed,
         e.brk => Marked(B, s)
  PROVE  /\ Leaves(R, B, s, e, ShadowFixups(R, B, changed, s, e), ShadowWrites(R, changed, s))
         /\ ShadowFixups(R, B, changed, s, e).brk <=> Marked(B, s)
<1> DEFINE h1(d) == fixup_shadow_hires1(R, s, d)
           h2(d) == fixup_shadow_hires2(R, s, d)
           shr == IF "shr" \in changed THEN fixup_shadow_shr(R, s, h2(h1(e))) ELSE e
           left == changed \ (IF "shr" \in changed THEN {"auxhires", "hires1", "hires2"} ELSE {})
           aux == IF "auxhires" \in left THEN h2(h1(shr)) ELSE shr
           last == left \ (IF "auxhires" \in left THEN {"hires1", "hires2"} ELSE {})
           hires1 == IF "hires1" \in last THEN h1(aux) ELSE aux
           hires2 == IF "hires2" \in last THEN h2(hires1) ELSE hires1
           txt1 == IF "txt1" \in last THEN fixup_shadow_txt1(R, s, hires2) ELSE hires2
           txt2 == IF "txt2" \in last /\ (RomVersion # 1 \/ R.user_page2)
                     THEN fixup_shadow_txt2(R, s, txt1) ELSE txt1
           iolc == IF "iolc" \in last THEN fixup_shadow_iolc(R, B, s, txt2) ELSE txt2
           f == fixup_brks(B, s, iolc)
           W1 == Wr(s, {"01"}, {"hires1"}) \/ Is(s, Low, {"hires1"})
           W2 == Wr(s, Fast, {"hires2"})
           WS == Wr(s, Fast, {"shr"})
           WT1 == Wr(s, {"01"}, {"txt1"}) \/ Is(s, Low, {"txt1"})
           WT2 == Wr(s, Fast, {"txt2"})
           WIO == Is(s, IF "iolc" \in R.shadow THEN Fast ELSE Bank, IoPages \union {"d0", "e0"})
           user == RomVersion # 1 \/ R.user_page2
<1>0. ShadowFixups(R, B, changed, s, e) = f
  BY DEF ShadowFixups
<1>1. \A d \in Entry : Leaves(R, B, s, d, h1(d), W1)
  BY ShadowHires1Leaves
<1>2. \A d \in Entry : Leaves(R, B, s, d, h2(d), W2)
  BY ShadowHires2Leaves
<1>3. \A d \in Entry : Leaves(R, B, s, d, fixup_shadow_shr(R, s, d), WS)
  BY ShadowShrLeaves
<1>4. \A d \in Entry : Leaves(R, B, s, d, fixup_shadow_txt1(R, s, d), WT1)
  BY ShadowTxt1Leaves
<1>5. \A d \in Entry : Leaves(R, B, s, d, fixup_shadow_txt2(R, s, d), WT2)
  BY ShadowTxt2Leaves
<1>6. \A d \in Entry : Leaves(R, B, s, d, fixup_shadow_iolc(R, B, s, d), WIO)
  BY ShadowIolcLeaves
<1>7. /\ "shr" \in left <=> "shr" \in changed
      /\ "auxhires" \in left <=> "auxhires" \in changed /\ "shr" \notin changed
      /\ "hires1" \in last <=> /\ "hires1" \in changed
                                /\ "shr" \notin changed /\ "auxhires" \notin changed
      /\ "hires2" \in last <=> /\ "hires2" \in changed
                                /\ "shr" \notin changed /\ "auxhires" \notin changed
      /\ "txt1" \in last <=> "txt1" \in changed
      /\ "txt2" \in last <=> "txt2" \in changed
      /\ "iolc" \in last <=> "iolc" \in changed
  OBVIOUS
<1>8. ShadowWrites(R, changed, s) <=>
        \/ ("shr" \in changed \/ "auxhires" \in changed \/ "hires1" \in changed) /\ W1
        \/ ("shr" \in changed \/ "auxhires" \in changed \/ "hires2" \in changed) /\ W2
        \/ "shr" \in changed /\ WS
        \/ "txt1" \in changed /\ WT1
        \/ "txt2" \in changed /\ user /\ WT2
        \/ "iolc" \in changed /\ WIO
  <2>1. changed \intersect {"shr", "auxhires", "hires1"} # {}
          <=> "shr" \in changed \/ "auxhires" \in changed \/ "hires1" \in changed
    OBVIOUS
  <2>2. changed \intersect {"shr", "auxhires", "hires2"} # {}
          <=> "shr" \in changed \/ "auxhires" \in changed \/ "hires2" \in changed
    OBVIOUS
  <2> QED BY <2>1, <2>2 DEF ShadowWrites
<1> HIDE DEF h1, h2, left, last, W1, W2, WS, WT1, WT2, WIO, user
<1>11. Leaves(R, B, s, e, shr, "shr" \in changed /\ (W1 \/ W2 \/ WS))
  BY <1>1, <1>2, <1>3 DEF Leaves, Same
<1>12. Leaves(R, B, s, shr, aux, "auxhires" \in left /\ (W1 \/ W2))
  <2> HIDE DEF shr
  <2> QED BY <1>1, <1>2, <1>11 DEF Leaves, Same
<1>13. Leaves(R, B, s, aux, hires1, "hires1" \in last /\ W1)
  <2> HIDE DEF aux
  <2> QED BY <1>1, <1>12 DEF Leaves, Same
<1>14. Leaves(R, B, s, hires1, hires2, "hires2" \in last /\ W2)
  <2> HIDE DEF hires1
  <2> QED BY <1>2, <1>13 DEF Leaves, Same
<1>15. Leaves(R, B, s, hires2, txt1, "txt1" \in last /\ WT1)
  <2> HIDE DEF hires2
  <2> QED BY <1>4, <1>14 DEF Leaves, Same
<1>16. Leaves(R, B, s, txt1, txt2, "txt2" \in last /\ user /\ WT2)
  <2> HIDE DEF txt1
  <2> QED BY <1>5, <1>15 DEF Leaves, Same, user
<1>17. Leaves(R, B, s, txt2, iolc, "iolc" \in last /\ WIO)
  <2> HIDE DEF txt2
  <2> QED BY <1>6, <1>16 DEF Leaves, Same
<1>18. f \in Entry /\ Same(f, iolc) /\ (f.brk <=> iolc.brk \/ Marked(B, s))
  <2> HIDE DEF iolc
  <2> QED BY <1>17, Brks DEF Leaves
<1> HIDE DEF shr, aux, hires1, hires2, txt1, txt2, iolc, f
<1>19. f.brk <=> Marked(B, s)
  BY <1>11, <1>12, <1>13, <1>14, <1>15, <1>16, <1>17, <1>18 DEF Leaves
<1>20. ShadowWrites(R, changed, s) => Same(iolc, Target(R, s))
  BY <1>7, <1>8, <1>11, <1>12, <1>13, <1>14, <1>15, <1>16, <1>17 DEF Leaves, Same
<1>21. ~ShadowWrites(R, changed, s) => Same(iolc, e)
  BY <1>7, <1>8, <1>11, <1>12, <1>13, <1>14, <1>15, <1>16, <1>17 DEF Leaves, Same
<1> QED BY <1>0, <1>18, <1>19, <1>20, <1>21 DEF Leaves, Same

-------------------------------------------------------------------------------
(* The invariant.                                                           *)

Correct == \A s \in Slot :
  /\ table[s].brk <=> Marked(bps, s)
  /\ s \notin unsettled => Same(table[s], Target(regs, s))

IInv == TypeOK /\ Correct

(* A rebuild makes every entry right.                                       *)
LEMMA RebuiltIsRight ==
  ASSUME NEW R \in Registers, NEW B \in SUBSET Breakpoints, Rebuilt(R, B)
  PROVE  IInv'
<1>1. regs' = R /\ bps' = B /\ unsettled' = {}
      /\ table' = [s \in Slot |-> setup_pageinfo(R, B, s)]
  BY DEF Rebuilt, Become
<1>2. \A s \in Slot : /\ setup_pageinfo(R, B, s) \in Entry
                      /\ setup_pageinfo(R, B, s).brk <=> Marked(B, s)
                      /\ Same(setup_pageinfo(R, B, s), Target(R, s))
  BY SetupIs
<1>3. TypeOK'
  BY <1>1, <1>2 DEF TypeOK
<1>4. Correct'
  BY <1>1, <1>2 DEF Correct
<1> QED BY <1>3, <1>4 DEF IInv

(* A register write that gives each entry its new value, or leaves it       *)
(* alone where nothing it depends on changed.                               *)
LEMMA FixedIsRight ==
  ASSUME IInv, regs' \in Registers, UNCHANGED bps,
         unsettled' \subseteq OddSlots \union Txt2Slots,
         table' = [s \in Slot |-> table'[s]],
         \A s \in Slot :
           /\ table'[s] \in Entry
           /\ table'[s].brk <=> Marked(bps, s)
           /\ \/ s \in unsettled'
              \/ Same(table'[s], Target(regs', s))
              \/ s \notin unsettled /\ Agree(regs, regs', s) /\ Same(table'[s], table[s])
  PROVE  IInv'
<1>1. TypeOK'
  BY DEF IInv, TypeOK
<1>2. Correct'
  <2> SUFFICES ASSUME NEW s \in Slot
               PROVE  /\ table'[s].brk <=> Marked(bps, s)
                      /\ s \notin unsettled' => Same(table'[s], Target(regs', s))
    BY DEF Correct
  <2>1. CASE s \notin unsettled /\ Agree(regs, regs', s) /\ Same(table'[s], table[s])
    <3>1. Same(table[s], Target(regs, s))
      BY <2>1 DEF IInv, Correct
    <3>2. Same(Target(regs, s), Target(regs', s))
      BY <2>1, TargetDepends DEF IInv, TypeOK
    <3> QED BY <2>1, <3>1, <3>2 DEF Same
  <2> QED BY <2>1
<1> QED BY <1>1, <1>2 DEF IInv

(* Before a step every entry is typed and marked by a breakpoint only.      *)
LEMMA EntryNow ==
  ASSUME IInv, NEW s \in Slot
  PROVE  table[s] \in Entry /\ (table[s].brk => Marked(bps, s))
BY DEF IInv, TypeOK, Correct

(* set_statereg: what its fixups do not write, no changed bit decides.      *)
LEMMA SetStateregIsRight ==
  ASSUME IInv, NEW val \in SUBSET StateFlags, set_statereg(val)
  PROVE  IInv'
<1> DEFINE changed == SymDiff(val, regs.state)
           R == [regs EXCEPT !.state = val,
                  !.a2 = IF "page2" \in changed THEN (@ \ {"page2"}) \union (val \intersect {"page2"}) ELSE @]
<1>1. /\ regs' = R /\ UNCHANGED <<bps, unsettled>>
      /\ table' = [s \in Slot |-> StateFixups(R, bps, changed, s, table[s])]
  BY DEF set_statereg, Fixed, Become
<1>2. regs \in Registers
  BY DEF IInv, TypeOK
<1>3. R \in Registers
  BY <1>2 DEF Registers, ModeFlags
<1>4. /\ R.state = val /\ R.shadow = regs.shadow /\ R.crom = regs.crom
      /\ R.all_banks = regs.all_banks /\ R.user_page2 = regs.user_page2
      /\ "st80" \in R.a2 <=> "st80" \in regs.a2
      /\ "hires" \in R.a2 <=> "hires" \in regs.a2
      /\ "page2" \notin changed => ("page2" \in R.a2 <=> "page2" \in regs.a2)
  BY <1>2 DEF Registers
<1>5. \A x : x \in changed <=> ~(x \in val <=> x \in regs.state)
  BY DEF SymDiff
<1> HIDE DEF R, changed
<1>6. ASSUME NEW s \in Slot
      PROVE  /\ table'[s] \in Entry
             /\ table'[s].brk <=> Marked(bps, s)
             /\ \/ s \in unsettled'
                \/ Same(table'[s], Target(regs', s))
                \/ s \notin unsettled /\ Agree(regs, regs', s) /\ Same(table'[s], table[s])
  <2>1. /\ Leaves(R, bps, s, table[s], table'[s], StateWrites(R, changed, s))
        /\ table'[s].brk <=> Marked(bps, s)
    BY <1>1, <1>3, EntryNow, StateFixupsLeaves
  <2>2. ASSUME ~StateWrites(R, changed, s)
        PROVE  Agree(regs, R, s)
    <3>1. Is(s, Low, {"zp"}) => Alike(regs.state, R.state, {"altzp"})
      BY <1>4, <1>5, <2>2 DEF StateWrites, Alike
    <3>2. IoSlot(R, s) => Alike(regs.state, R.state, {"intcx", "intc8rom"})
      BY <1>4, <1>5, <2>2 DEF StateWrites, Alike
    <3>3. Is(s, Bank, {"d0", "e0"}) =>
            Alike(regs.state, R.state, {"altzp", "rdrom", "lcbank2", "wrdefram"})
      BY <1>4, <1>5, <2>2 DEF StateWrites, Alike
    <3>4. Switched(R, s) => (RamSwitch(regs, s) <=> RamSwitch(R, s))
      BY <1>4, <1>5, <2>2 DEF StateWrites, RamSwitch
    <3>5. Is(s, Low, {"txt1"}) => (TxtAlt(regs, s) <=> TxtAlt(R, s))
      <4>1. Is(s, Low, {"txt1"}) /\ "st80" \notin R.a2 => Switched(R, s)
        BY DEF Switched
      <4>2. Is(s, Low, {"txt1"}) /\ "st80" \in R.a2 => "page2" \notin changed
        BY <2>2 DEF StateWrites
      <4> QED BY <1>4, <3>4, <4>1, <4>2 DEF TxtAlt
    <3>6. Is(s, Low, {"hires1"}) => (HiresAlt(regs, s) <=> HiresAlt(R, s))
      <4>1. Is(s, Low, {"hires1"}) /\ ~({"st80", "hires"} \subseteq R.a2) => Switched(R, s)
        BY DEF Switched
      <4>2. Is(s, Low, {"hires1"}) /\ {"st80", "hires"} \subseteq R.a2 => "page2" \notin changed
        BY <2>2 DEF StateWrites
      <4> QED BY <1>4, <3>4, <4>1, <4>2 DEF HiresAlt
    <3>7. Is(s, Low, {"ram", "txt2", "hires2", "shr"}) => (RamSwitch(regs, s) <=> RamSwitch(R, s))
      BY <1>4, <1>5, <2>2, SlotParts DEF StateWrites, RamSwitch, Wr
    <3>8. IoSlot(regs, s) <=> IoSlot(R, s)
      BY <1>4 DEF IoSlot
    <3>9. Txt2Inhibited(regs) <=> Txt2Inhibited(R)
      BY <1>4 DEF Txt2Inhibited
    <3>10. \A bits : Alike(regs.shadow, R.shadow, bits)
      BY <1>4 DEF Alike
    <3> QED BY <1>4, <3>1, <3>2, <3>3, <3>5, <3>6, <3>7, <3>8, <3>9, <3>10 DEF Agree
  <2> QED BY <1>1, <2>1, <2>2 DEF Leaves, IInv, Correct
<1>7. regs' \in Registers /\ UNCHANGED <<bps, unsettled>> /\ table' = [s \in Slot |-> table'[s]]
  BY <1>1, <1>3
<1>8. unsettled' \subseteq OddSlots \union Txt2Slots
  BY <1>1 DEF IInv, TypeOK
<1> QED BY <1>6, <1>7, <1>8, FixedIsRight

(* update_shadow_reg, but for the odd banks.                                *)
LEMMA ShadowRegIsRight ==
  ASSUME IInv, NEW val \in SUBSET ShadowFlags, update_shadow_reg(val)
  PROVE  IInv'
<1> DEFINE changed == SymDiff(val, regs.shadow)
           R == [regs EXCEPT !.shadow = val]
           odd == IF "shr" \in changed THEN OddSlots ELSE {}
<1>1. /\ regs' = R /\ UNCHANGED bps /\ unsettled' = unsettled \union odd
      /\ table' = [s \in Slot |-> ShadowFixups(R, bps, changed, s, table[s])]
  BY DEF update_shadow_reg, Become
<1>2. regs \in Registers
  BY DEF IInv, TypeOK
<1>3. R \in Registers
  BY <1>2 DEF Registers
<1>4. /\ R.state = regs.state /\ R.shadow = val /\ R.a2 = regs.a2 /\ R.crom = regs.crom
      /\ R.all_banks = regs.all_banks /\ R.user_page2 = regs.user_page2
  BY <1>2 DEF Registers
<1>5. \A x : x \in changed <=> ~(x \in val <=> x \in regs.shadow)
  BY DEF SymDiff
<1>6. \A s \in Slot : Wr(s, {"03"}, {"shr"}) /\ "shr" \in changed => s \in odd
  BY DEF OddSlots
<1> HIDE DEF R, changed, odd
<1>7. ASSUME NEW s \in Slot
      PROVE  /\ table'[s] \in Entry
             /\ table'[s].brk <=> Marked(bps, s)
             /\ \/ s \in unsettled'
                \/ Same(table'[s], Target(regs', s))
                \/ s \notin unsettled /\ Agree(regs, regs', s) /\ Same(table'[s], table[s])
  <2>1. /\ Leaves(R, bps, s, table[s], table'[s], ShadowWrites(R, changed, s))
        /\ table'[s].brk <=> Marked(bps, s)
    BY <1>1, <1>3, EntryNow, ShadowFixupsLeaves
  <2>2. ASSUME ~ShadowWrites(R, changed, s), s \notin odd
        PROVE  Agree(regs, R, s)
    <3>1. /\ Is(s, Low, {"hires1"}) => Alike(regs.shadow, R.shadow, {"hires1", "auxhires", "shr"})
          /\ Wr(s, {"01"}, {"hires1"}) => Alike(regs.shadow, R.shadow, {"hires1", "auxhires", "shr"})
      BY <1>4, <1>5, <2>2 DEF ShadowWrites, Alike
    <3>2. Wr(s, Fast, {"hires2"}) => Alike(regs.shadow, R.shadow, {"hires2", "auxhires", "shr"})
      BY <1>4, <1>5, <2>2 DEF ShadowWrites, Alike
    <3>3. /\ Wr(s, Fast, {"shr"}) => Alike(regs.shadow, R.shadow, {"shr"})
          /\ Wr(s, {"03"}, {"shr"}) => Alike(regs.shadow, R.shadow, {"shr"})
      BY <1>4, <1>5, <1>6, <2>2 DEF ShadowWrites, Alike
    <3>4. /\ Is(s, Low, {"txt1"}) => Alike(regs.shadow, R.shadow, {"txt1"})
          /\ Wr(s, {"01"}, {"txt1"}) => Alike(regs.shadow, R.shadow, {"txt1"})
      BY <1>4, <1>5, <2>2 DEF ShadowWrites, Alike
    <3>5. Wr(s, Fast, {"txt2"}) => (Txt2Inhibited(regs) <=> Txt2Inhibited(R))
      BY <1>4, <1>5, <2>2 DEF ShadowWrites, Txt2Inhibited
    <3>6. Is(s, Fast, IoPages \union {"d0", "e0"}) => Alike(regs.shadow, R.shadow, {"iolc"})
      BY <1>4, <1>5, <2>2 DEF ShadowWrites, Alike, Is, Fast, Bank
    <3>7. (TxtAlt(regs, s) <=> TxtAlt(R, s)) /\ (HiresAlt(regs, s) <=> HiresAlt(R, s))
          /\ (RamSwitch(regs, s) <=> RamSwitch(R, s))
      BY <1>4 DEF TxtAlt, HiresAlt, RamSwitch
    <3>8. \A bits : Alike(regs.state, R.state, bits)
      BY <1>4 DEF Alike
    <3> QED BY <1>4, <3>1, <3>2, <3>3, <3>4, <3>5, <3>6, <3>7, <3>8 DEF Agree
  <2> QED BY <1>1, <2>1, <2>2 DEF Leaves, IInv, Correct
<1>8. regs' \in Registers /\ UNCHANGED bps /\ table' = [s \in Slot |-> table'[s]]
  BY <1>1, <1>3
<1>9. unsettled' \subseteq OddSlots \union Txt2Slots
  BY <1>1 DEF IInv, TypeOK, odd
<1> QED BY <1>7, <1>8, <1>9, FixedIsRight

(* $C000 and $C001.                                                         *)
LEMMA St80IsRight ==
  ASSUME IInv, NEW on \in BOOLEAN, write_80store(on)
  PROVE  IInv'
<1> DEFINE R == [regs EXCEPT !.a2 = IF on THEN @ \union {"st80"} ELSE @ \ {"st80"}]
<1>1. /\ regs' = R /\ UNCHANGED <<bps, unsettled>>
      /\ table' = [s \in Slot |-> fixup_st80col(R, bps, s, table[s])]
  BY DEF write_80store, Fixed, Become
<1>2. regs \in Registers
  BY DEF IInv, TypeOK
<1>3. R \in Registers
  BY <1>2 DEF Registers, ModeFlags
<1>4. /\ R.state = regs.state /\ R.shadow = regs.shadow /\ R.crom = regs.crom
      /\ R.all_banks = regs.all_banks /\ R.user_page2 = regs.user_page2
      /\ "hires" \in R.a2 <=> "hires" \in regs.a2
  BY <1>2 DEF Registers
<1> HIDE DEF R
<1>5. ASSUME NEW s \in Slot
      PROVE  /\ table'[s] \in Entry
             /\ table'[s].brk <=> Marked(bps, s)
             /\ \/ s \in unsettled'
                \/ Same(table'[s], Target(regs', s))
                \/ s \notin unsettled /\ Agree(regs, regs', s) /\ Same(table'[s], table[s])
  <2>1. Leaves(R, bps, s, table[s], table'[s],
               Is(s, Low, {"txt1"}) \/ ("hires" \in R.a2 /\ Is(s, Low, {"hires1"})))
    BY <1>1, <1>3, EntryNow, St80Leaves
  <2>2. ASSUME ~Is(s, Low, {"txt1"}), ~("hires" \in R.a2 /\ Is(s, Low, {"hires1"}))
        PROVE  Agree(regs, R, s)
    <3>1. Is(s, Low, {"hires1"}) => (HiresAlt(regs, s) <=> HiresAlt(R, s))
      BY <1>4, <2>2 DEF HiresAlt, RamSwitch
    <3>2. \A bits : Alike(regs.state, R.state, bits) /\ Alike(regs.shadow, R.shadow, bits)
      BY <1>4 DEF Alike
    <3> QED BY <1>4, <2>2, <3>1, <3>2 DEF Agree, RamSwitch, Txt2Inhibited
  <2>3. Marked(bps, s) => table'[s].brk
    <3>1. \E d \in Entry : table'[s] = fixup_brks(bps, s, d)
      <4>1. \A d \in Entry : fixup_bank0_0400_0800(R, s, d) \in Entry /\ fixup_bank0_2000_4000(R, s, d) \in Entry
        BY <1>3, Txt1Leaves, Hires1Leaves DEF Leaves
      <4> QED BY <1>1, <4>1, EntryNow DEF fixup_st80col
    <3> QED BY <3>1, Brks
  <2> QED BY <1>1, <2>1, <2>2, <2>3, EntryNow DEF Leaves, IInv, Correct
<1>6. regs' \in Registers /\ UNCHANGED bps /\ table' = [s \in Slot |-> table'[s]]
  BY <1>1, <1>3
<1>7. unsettled' \subseteq OddSlots \union Txt2Slots
  BY <1>1 DEF IInv, TypeOK
<1> QED BY <1>5, <1>6, <1>7, FixedIsRight

(* $C056 and $C057.                                                         *)
LEMMA HiresIsRight ==
  ASSUME IInv, NEW on \in BOOLEAN, access_hires(on)
  PROVE  IInv'
<1> DEFINE R == [regs EXCEPT !.a2 = IF on THEN @ \union {"hires"} ELSE @ \ {"hires"}]
<1>1. /\ regs' = R /\ UNCHANGED <<bps, unsettled>>
      /\ table' = [s \in Slot |-> fixup_hires_on(R, bps, s, table[s])]
  BY DEF access_hires, Fixed, Become
<1>2. regs \in Registers
  BY DEF IInv, TypeOK
<1>3. R \in Registers
  BY <1>2 DEF Registers, ModeFlags
<1>4. /\ R.state = regs.state /\ R.shadow = regs.shadow /\ R.crom = regs.crom
      /\ R.all_banks = regs.all_banks /\ R.user_page2 = regs.user_page2
      /\ "st80" \in R.a2 <=> "st80" \in regs.a2
      /\ "page2" \in R.a2 <=> "page2" \in regs.a2
  BY <1>2 DEF Registers
<1> HIDE DEF R
<1>5. ASSUME NEW s \in Slot
      PROVE  /\ table'[s] \in Entry
             /\ table'[s].brk <=> Marked(bps, s)
             /\ \/ s \in unsettled'
                \/ Same(table'[s], Target(regs', s))
                \/ s \notin unsettled /\ Agree(regs, regs', s) /\ Same(table'[s], table[s])
  <2>1. Leaves(R, bps, s, table[s], table'[s], "st80" \in R.a2 /\ Is(s, Low, {"hires1"}))
    BY <1>1, <1>3, EntryNow, HiresOnLeaves
  <2>2. ASSUME ~("st80" \in R.a2 /\ Is(s, Low, {"hires1"}))
        PROVE  Agree(regs, R, s)
    <3>1. Is(s, Low, {"hires1"}) => (HiresAlt(regs, s) <=> HiresAlt(R, s))
      BY <1>4, <2>2 DEF HiresAlt, RamSwitch
    <3>2. TxtAlt(regs, s) <=> TxtAlt(R, s)
      BY <1>4 DEF TxtAlt, RamSwitch
    <3>3. \A bits : Alike(regs.state, R.state, bits) /\ Alike(regs.shadow, R.shadow, bits)
      BY <1>4 DEF Alike
    <3> QED BY <1>4, <2>2, <3>1, <3>2, <3>3 DEF Agree, RamSwitch, Txt2Inhibited
  <2>3. Marked(bps, s) => table'[s].brk
    <3>1. table[s].brk <=> Marked(bps, s)
      BY DEF IInv, Correct
    <3>2. \E d \in Entry : table'[s] = IF "st80" \in R.a2 THEN fixup_brks(bps, s, d) ELSE table[s]
      <4>1. \A d \in Entry : fixup_bank0_2000_4000(R, s, d) \in Entry
        BY <1>3, Hires1Leaves DEF Leaves
      <4> QED BY <1>1, <4>1, EntryNow DEF fixup_hires_on
    <3>3. CASE "st80" \in R.a2
      BY <3>2, <3>3, Brks
    <3> QED BY <3>1, <3>2, <3>3
  <2> QED BY <1>1, <2>1, <2>2, <2>3, EntryNow DEF Leaves, IInv, Correct
<1>6. regs' \in Registers /\ UNCHANGED bps /\ table' = [s \in Slot |-> table'[s]]
  BY <1>1, <1>3
<1>7. unsettled' \subseteq OddSlots \union Txt2Slots
  BY <1>1 DEF IInv, TypeOK
<1> QED BY <1>5, <1>6, <1>7, FixedIsRight

(* fixup_intcx, for a register only the I/O pages follow.                   *)
LEMMA C02dIsRight ==
  ASSUME IInv, NEW val \in SUBSET SlotPages, write_c02d(val)
  PROVE  IInv'
<1> DEFINE R == [regs EXCEPT !.crom = val]
<1>1. /\ regs' = R /\ UNCHANGED <<bps, unsettled>>
      /\ table' = [s \in Slot |-> fixup_intcx(R, bps, s, table[s])]
  BY DEF write_c02d, Fixed, Become
<1>2. regs \in Registers
  BY DEF IInv, TypeOK
<1>3. R \in Registers
  BY <1>2 DEF Registers
<1>4. /\ R.state = regs.state /\ R.shadow = regs.shadow /\ R.a2 = regs.a2
      /\ R.all_banks = regs.all_banks /\ R.user_page2 = regs.user_page2
  BY <1>2 DEF Registers
<1> HIDE DEF R
<1>5. ASSUME NEW s \in Slot
      PROVE  /\ table'[s] \in Entry
             /\ table'[s].brk <=> Marked(bps, s)
             /\ \/ s \in unsettled'
                \/ Same(table'[s], Target(regs', s))
                \/ s \notin unsettled /\ Agree(regs, regs', s) /\ Same(table'[s], table[s])
  <2>1. Leaves(R, bps, s, table[s], table'[s], IoSlot(R, s))
    BY <1>1, <1>3, EntryNow, IntcxLeaves
  <2>2. ASSUME ~IoSlot(R, s)
        PROVE  Agree(regs, R, s)
    <3>1. ~IoSlot(regs, s)
      BY <1>4, <2>2 DEF IoSlot
    <3>2. \A bits : Alike(regs.state, R.state, bits) /\ Alike(regs.shadow, R.shadow, bits)
      BY <1>4 DEF Alike
    <3> QED BY <1>4, <3>1, <3>2 DEF Agree, TxtAlt, HiresAlt, RamSwitch, Txt2Inhibited
  <2>3. Marked(bps, s) => table'[s].brk
    <3> DEFINE io == IF s.side = "rd" THEN IoRead(R, s.at[2]) ELSE Io
               d == IF IoSlot(R, s) THEN io ELSE table[s]
    <3>1. table'[s] = fixup_brks(bps, s, d)
      BY <1>1 DEF fixup_intcx, IoSlot
    <3>2. d \in Entry
      <4>1. IoSlot(R, s) => s.at[2] \in IoPages
        BY DEF IoSlot, Is
      <4>2. Io \in Entry
        BY DEF Io, At, Entry
      <4> QED BY <1>3, <4>1, <4>2, EntryNow, IoReadTyped
    <3> HIDE DEF d
    <3> QED BY <3>1, <3>2, Brks
  <2> QED BY <1>1, <2>1, <2>2, <2>3, EntryNow DEF Leaves, IInv, Correct
<1>6. regs' \in Registers /\ UNCHANGED bps /\ table' = [s \in Slot |-> table'[s]]
  BY <1>1, <1>3
<1>7. unsettled' \subseteq OddSlots \union Txt2Slots
  BY <1>1 DEF IInv, TypeOK
<1> QED BY <1>5, <1>6, <1>7, FixedIsRight

(* $C036 settles the odd banks.                                             *)
LEMMA C036IsRight ==
  ASSUME IInv, NEW all \in BOOLEAN, write_c036(all)
  PROVE  IInv'
<1> DEFINE R == [regs EXCEPT !.all_banks = all]
<1>1. /\ regs' = R /\ UNCHANGED bps /\ unsettled' = unsettled \ OddSlots
      /\ table' = [s \in Slot |-> fixup_shadow_all_banks(R, bps, s, table[s])]
  BY DEF write_c036, Become
<1>2. regs \in Registers
  BY DEF IInv, TypeOK
<1>3. R \in Registers
  BY <1>2 DEF Registers
<1>4. /\ R.state = regs.state /\ R.shadow = regs.shadow /\ R.a2 = regs.a2
      /\ R.crom = regs.crom /\ R.user_page2 = regs.user_page2
  BY <1>2 DEF Registers
<1> HIDE DEF R
<1>5. ASSUME NEW s \in Slot
      PROVE  /\ table'[s] \in Entry
             /\ table'[s].brk <=> Marked(bps, s)
             /\ \/ s \in unsettled'
                \/ Same(table'[s], Target(regs', s))
                \/ s \notin unsettled /\ Agree(regs, regs', s) /\ Same(table'[s], table[s])
  <2>1. Leaves(R, bps, s, table[s], table'[s], Wr(s, {"03"}, {"shr"}))
    BY <1>1, <1>3, EntryNow, AllBanksLeaves
  <2>2. ASSUME ~Wr(s, {"03"}, {"shr"})
        PROVE  Agree(regs, R, s)
    <3>1. \A bits : Alike(regs.state, R.state, bits) /\ Alike(regs.shadow, R.shadow, bits)
      BY <1>4 DEF Alike
    <3> QED BY <1>4, <2>2, <3>1 DEF Agree, TxtAlt, HiresAlt, RamSwitch, Txt2Inhibited
  <2>3. Marked(bps, s) => table'[s].brk
    <3> DEFINE mark == Mark(s, TRUE, R.all_banks /\ "shr" \notin R.shadow)
               d == IF Wr(s, {"03"}, {"shr"}) THEN Ram(s, FALSE, mark) ELSE table[s]
    <3>1. table'[s] = fixup_brks(bps, s, d)
      BY <1>1 DEF fixup_shadow_all_banks
    <3>2. mark \in {"none", "shadow", "shadow2"}
      BY MarkTyped
    <3> HIDE DEF mark
    <3>3. d \in Entry
      BY <3>2, EntryNow, RamIsEntry
    <3> HIDE DEF d
    <3> QED BY <3>1, <3>3, Brks
  <2>4. s \notin OddSlots => ~Wr(s, {"03"}, {"shr"})
    BY DEF OddSlots
  <2>5. s \in OddSlots => Wr(s, {"03"}, {"shr"})
    BY DEF OddSlots
  <2>6. table'[s] \in Entry /\ (table'[s].brk <=> Marked(bps, s))
    BY <2>1, <2>3, EntryNow DEF Leaves
  <2>7. CASE Wr(s, {"03"}, {"shr"})
    BY <1>1, <2>1, <2>6, <2>7 DEF Leaves
  <2>8. CASE ~Wr(s, {"03"}, {"shr"})
    <3>1. s \in unsettled <=> s \in unsettled'
      BY <1>1, <2>5, <2>8
    <3> QED BY <1>1, <2>1, <2>2, <2>6, <2>8, <3>1 DEF Leaves
  <2> QED BY <2>7, <2>8
<1>6. regs' \in Registers /\ UNCHANGED bps /\ table' = [s \in Slot |-> table'[s]]
  BY <1>1, <1>3
<1>7. unsettled' \subseteq OddSlots \union Txt2Slots
  BY <1>1 DEF IInv, TypeOK
<1> QED BY <1>5, <1>6, <1>7, FixedIsRight

(* The configuration panel, which on a ROM 01 unsettles text page 2.        *)
LEMMA UserPage2IsRight ==
  ASSUME IInv, cfg_user_page2_shadow
  PROVE  IInv'
<1> DEFINE R == [regs EXCEPT !.user_page2 = ~@]
<1>1. /\ regs' = R /\ UNCHANGED <<bps, table>>
      /\ unsettled' = unsettled \union (IF RomVersion = 1 THEN Txt2Slots ELSE {})
  BY DEF cfg_user_page2_shadow, Become
<1>2. regs \in Registers
  BY DEF IInv, TypeOK
<1>3. R \in Registers
  BY <1>2 DEF Registers
<1>4. /\ R.state = regs.state /\ R.shadow = regs.shadow /\ R.a2 = regs.a2
      /\ R.crom = regs.crom /\ R.all_banks = regs.all_banks
  BY <1>2 DEF Registers
<1> HIDE DEF R
<1>5. ASSUME NEW s \in Slot
      PROVE  /\ table'[s] \in Entry
             /\ table'[s].brk <=> Marked(bps, s)
             /\ \/ s \in unsettled'
                \/ Same(table'[s], Target(regs', s))
                \/ s \notin unsettled /\ Agree(regs, regs', s) /\ Same(table'[s], table[s])
  <2>1. ASSUME s \notin unsettled'
        PROVE  Agree(regs, R, s)
    <3>1. \A bits : Alike(regs.state, R.state, bits) /\ Alike(regs.shadow, R.shadow, bits)
      BY <1>4 DEF Alike
    <3>2. Wr(s, Fast, {"txt2"}) => RomVersion # 1
      BY <1>1, <2>1 DEF Txt2Slots
    <3>3. Wr(s, Fast, {"txt2"}) => (Txt2Inhibited(regs) <=> Txt2Inhibited(R))
      BY <1>4, <3>2 DEF Txt2Inhibited
    <3> QED BY <1>4, <3>1, <3>3 DEF Agree, TxtAlt, HiresAlt, RamSwitch
  <2>2. Same(table'[s], table[s])
    BY <1>1 DEF Same
  <2>3. table'[s] \in Entry /\ (table'[s].brk <=> Marked(bps, s))
    BY <1>1, EntryNow DEF IInv, Correct
  <2> QED BY <1>1, <2>1, <2>2, <2>3
<1>6. regs' \in Registers /\ UNCHANGED bps /\ table' = [s \in Slot |-> table'[s]]
  BY <1>1, <1>3 DEF IInv, TypeOK
<1>7. unsettled' \subseteq OddSlots \union Txt2Slots
  BY <1>1 DEF IInv, TypeOK
<1> QED BY <1>5, <1>6, <1>7, FixedIsRight

(* The registers after the first reset.                                     *)
LEMMA PowerOnTyped == PowerOn \in Registers
BY RomAssumption DEF PowerOn, Registers, StateFlags, ShadowFlags, ModeFlags, SlotPages

(* do_reset rebuilds the table.                                             *)
LEMMA ResetIsRight ==
  ASSUME IInv, do_reset
  PROVE  IInv'
<1>1. regs \in Registers /\ bps \in SUBSET Breakpoints
  BY DEF IInv, TypeOK
<1>2. PICK panel \in BOOLEAN : Rebuilt(ResetRegs(IF panel THEN regs.a2 ELSE {}), bps)
  BY DEF do_reset
<1>3. ResetRegs(IF panel THEN regs.a2 ELSE {}) \in Registers
  BY <1>1 DEF ResetRegs, Registers, StateFlags, ShadowFlags, SlotPages
<1> QED BY <1>1, <1>2, <1>3, RebuiltIsRight

(* set_bp adds marks only.                                                  *)
LEMMA SetBpIsRight ==
  ASSUME IInv, NEW b \in Breakpoints, set_bp(b)
  PROVE  IInv'
<1>1. /\ bps' = bps \union {b} /\ UNCHANGED <<regs, unsettled>>
      /\ table' = [s \in Slot |-> fixup_brks(bps', s, table[s])]
  BY DEF set_bp
<1>2. ASSUME NEW s \in Slot
      PROVE  /\ table'[s] \in Entry
             /\ table'[s].brk <=> Marked(bps', s)
             /\ Same(table'[s], table[s])
  <2>1. table[s] \in Entry /\ (table[s].brk => Marked(bps, s))
    BY EntryNow
  <2>2. Marked(bps, s) => Marked(bps', s)
    BY <1>1 DEF Marked
  <2>3. table'[s] = fixup_brks(bps', s, table[s])
    BY <1>1
  <2>4. /\ fixup_brks(bps', s, table[s]) \in Entry
        /\ Same(fixup_brks(bps', s, table[s]), table[s])
        /\ fixup_brks(bps', s, table[s]).brk <=> (table[s].brk \/ Marked(bps', s))
    BY <2>1 DEF fixup_brks, Marked, Entry, Same
  <2> QED BY <2>1, <2>2, <2>3, <2>4
<1>3. TypeOK'
  BY <1>1, <1>2 DEF IInv, TypeOK
<1>4. Correct'
  BY <1>1, <1>2 DEF IInv, Correct, Same
<1> QED BY <1>3, <1>4 DEF IInv

(* Every access of the guest.                                               *)
LEMMA GuestIsRight ==
  ASSUME IInv, GuestAccess
  PROVE  IInv'
<1>1. regs.state \in SUBSET StateFlags
  BY DEF IInv, TypeOK, Registers
<1>2. CASE \E on \in BOOLEAN : write_80store(on) \/ access_hires(on) \/ write_c036(on)
  BY <1>2, St80IsRight, HiresIsRight, C036IsRight
<1>3. CASE \E val \in SUBSET SlotPages : write_c02d(val)
  BY <1>3, C02dIsRight
<1>4. CASE \E val \in SUBSET ShadowFlags : update_shadow_reg(val)
  BY <1>4, ShadowRegIsRight
<1>5. CASE \E val \in SUBSET C068Flags : write_c068(val)
  <2>1. PICK val \in SUBSET C068Flags : write_c068(val)
    BY <1>5
  <2>2. (regs.state \ C068Flags) \union val \in SUBSET StateFlags
    BY <1>1 DEF C068Flags
  <2> QED BY <2>1, <2>2, SetStateregIsRight DEF write_c068
<1>6. CASE \E bit0, bit1, bit3, read \in BOOLEAN : access_c08x(bit0, bit1, bit3, read)
  <2>1. PICK val : set_statereg(val) /\ val \subseteq regs.state \union {"lcbank2", "rdrom", "prewrite", "wrdefram"}
    <3>1. PICK bit0, bit1, bit3, read \in BOOLEAN : access_c08x(bit0, bit1, bit3, read)
      BY <1>6
    <3> DEFINE bank2 == IF bit3 THEN {} ELSE {"lcbank2"}
               rdrom == IF bit0 # bit1 THEN {"rdrom"} ELSE {}
               prewrite == IF bit0 /\ read THEN {"prewrite"} ELSE {}
               ram == IF bit0 /\ ("wrdefram" \in regs.state \/ (read /\ "prewrite" \in regs.state))
                        THEN {"wrdefram"} ELSE {}
               val == (regs.state \ {"lcbank2", "rdrom", "prewrite", "wrdefram"})
                        \union bank2 \union rdrom \union prewrite \union ram
    <3>2. set_statereg(val)
      BY <3>1 DEF access_c08x
    <3>3. val \subseteq regs.state \union {"lcbank2", "rdrom", "prewrite", "wrdefram"}
      OBVIOUS
    <3> QED BY <3>2, <3>3
  <2>2. val \in SUBSET StateFlags
    BY <1>1, <2>1 DEF StateFlags
  <2> QED BY <2>1, <2>2, SetStateregIsRight
<1>7. CASE \E side \in {"rd", "wr"} : access_c3xx(side) \/ access_cfff(side)
  <2>1. regs.state \union {"intc8rom"} \in SUBSET StateFlags
    BY <1>1 DEF StateFlags
  <2>2. regs.state \ {"intc8rom"} \in SUBSET StateFlags
    BY <1>1
  <2> QED BY <1>7, <2>1, <2>2, SetStateregIsRight DEF access_c3xx, access_cfff
<1> QED BY <1>2, <1>3, <1>4, <1>5, <1>6, <1>7 DEF GuestAccess

(* The invariant is inductive.                                              *)
LEMMA Inductive == Spec => []IInv
<1>1. Init => IInv
  <2> SUFFICES ASSUME Init PROVE IInv
    OBVIOUS
  <2>1. \A s \in Slot : /\ setup_pageinfo(PowerOn, {}, s) \in Entry
                        /\ setup_pageinfo(PowerOn, {}, s).brk <=> Marked({}, s)
                        /\ Same(setup_pageinfo(PowerOn, {}, s), Target(PowerOn, s))
    BY PowerOnTyped, SetupIs
  <2>2. TypeOK
    BY <2>1, PowerOnTyped DEF Init, TypeOK
  <2>3. Correct
    BY <2>1 DEF Init, Correct
  <2> QED BY <2>2, <2>3 DEF IInv
<1>2. IInv /\ [Next]_vars => IInv'
  <2> SUFFICES ASSUME IInv, [Next]_vars PROVE IInv'
    OBVIOUS
  <2>1. CASE GuestAccess
    BY <2>1, GuestIsRight
  <2>2. CASE do_reset
    BY <2>2, ResetIsRight
  <2>3. CASE cfg_user_page2_shadow
    BY <2>3, UserPage2IsRight
  <2>4. CASE debug_bp_clear_all
    <3>1. regs \in Registers /\ {} \in SUBSET Breakpoints
      BY DEF IInv, TypeOK
    <3> QED BY <2>4, <3>1, RebuiltIsRight DEF debug_bp_clear_all
  <2>5. ASSUME NEW b \in Breakpoints, set_bp(b)
        PROVE  IInv'
    BY <2>5, SetBpIsRight
  <2>6. ASSUME NEW b \in Breakpoints, delete_bp(b)
        PROVE  IInv'
    <3> DEFINE left == bps \ {x \in bps : x.pages \intersect b.pages # {} /\ x.wr_only = b.wr_only}
    <3>1. regs \in Registers /\ left \in SUBSET Breakpoints
      BY DEF IInv, TypeOK
    <3>2. Rebuilt(regs, left)
      BY <2>6 DEF delete_bp
    <3> QED BY <3>1, <3>2, RebuiltIsRight
  <2>7. CASE UNCHANGED vars
    BY <2>7 DEF vars, IInv, TypeOK, Correct
  <2> QED BY <2>1, <2>2, <2>3, <2>4, <2>5, <2>6, <2>7 DEF Next
<1> QED BY <1>1, <1>2, PTL DEF Spec

-------------------------------------------------------------------------------
(* The theorems.                                                            *)

(* For every ROM, every set of breakpoints and any number of switches       *)
(* changed in any order, the fixups leave the table that setup_pageinfo     *)
(* would build (moremem.c:880), but for the pages no fixup follows.         *)
THEOREM TableStaysRight == Spec => []TableMatches
<1>1. IInv => TableMatches
  <2> SUFFICES ASSUME IInv, NEW s \in Slot \ unsettled
               PROVE  Points(table[s]) = Points(setup_pageinfo(regs, bps, s))
    BY DEF TableMatches
  <2>1. regs \in Registers
    BY DEF IInv, TypeOK
  <2>2. Same(table[s], Target(regs, s))
    BY DEF IInv, Correct
  <2>3. Same(setup_pageinfo(regs, bps, s), Target(regs, s))
    BY <2>1, SetupIs
  <2> QED BY <2>2, <2>3 DEF Same, Points
<1> QED BY <1>1, Inductive, PTL

(* No order of accesses and breakpoint commands loses a mark or leaves one  *)
(* behind (fixup_brks, moremem.c:149).                                      *)
THEOREM BreaksStayMarked == Spec => []BreaksMarked
<1>1. IInv => BreaksMarked
  <2> SUFFICES ASSUME IInv, NEW s \in Slot
               PROVE  table[s].brk = (\E b \in bps : Covers(b, s))
    BY DEF BreaksMarked
  <2>1. table[s].brk <=> \E b \in bps : Covers(b, s)
    BY DEF IInv, Correct, Marked
  <2>2. table[s].brk \in BOOLEAN
    BY DEF IInv, TypeOK, Entry
  <2> QED BY <2>1, <2>2, Zenon
<1> QED BY <1>1, Inductive, PTL

(* A write to display memory in banks 0 and 1 is shown unless the shadow    *)
(* register inhibits it, for every setting of the switches (moremem.c:60).  *)
THEOREM ScreenMissesNoWrite == Spec => []WritesReachScreen
<1>1. IInv => WritesReachScreen
  <2> SUFFICES ASSUME IInv, NEW s \in Slot \ unsettled,
                      Wr(s, Fast, {"txt1", "txt2", "hires1", "hires2", "shr"})
               PROVE  table[s].mark = (IF Inhibited(table[s].mem, s.at[2]) THEN "none"
                                       ELSE IF table[s].mem = "main" THEN "shadow" ELSE "shadow2")
    BY DEF WritesReachScreen
  <2>1. Same(table[s], Target(regs, s))
    BY DEF IInv, Correct
  <2>2. s.side = "wr" /\ s.at[1] \in {"00", "01"} /\ s.at[2] \in {"txt1", "txt2", "hires1", "hires2", "shr"}
    BY DEF Wr, Is, Fast
  <2> USE SlotParts DEF Same, Is, Wr, Fast, Inhibited, Ram, At, Mark, OwnMem, AltMem
  <2>3. CASE s.at[2] = "txt1"
    <3>1. CASE s.at[1] = "00"
      <4>1. Target(regs, s) = fixup_bank0_0400_0800(regs, s, Io)
        BY <2>2, <2>3, <3>1 DEF Target, Low, IoPages, SlotPages
      <4> QED BY <2>1, <2>2, <2>3, <3>1, <4>1 DEF fixup_bank0_0400_0800, Low
    <3>2. CASE s.at[1] = "01"
      <4>1. Target(regs, s) = fixup_shadow_txt1(regs, s, Io)
        BY <2>2, <2>3, <3>2 DEF Target, Low, IoPages, SlotPages
      <4> QED BY <2>1, <2>2, <2>3, <3>2, <4>1 DEF fixup_shadow_txt1
    <3> QED BY <2>2, <3>1, <3>2
  <2>4. CASE s.at[2] = "txt2"
    <3>1. CASE s.at[1] = "00"
      <4>1. Target(regs, s) = fixup_ramwrt(regs, s, Io)
        BY <2>2, <2>4, <3>1 DEF Target, Low, IoPages, SlotPages
      <4>2. fixup_ramwrt(regs, s, Io) =
              Ram(s, "ramwrt" \in regs.state,
                  Mark(s, "ramwrt" \in regs.state, ~Txt2Inhibited(regs)))
        BY <2>2, <2>4, <3>1 DEF fixup_ramwrt, Low
      <4>3. /\ table[s].mem = IF "ramwrt" \in regs.state THEN "aux" ELSE "main"
            /\ table[s].mark = IF Txt2Inhibited(regs) THEN "none"
                                ELSE IF "ramwrt" \in regs.state THEN "shadow2" ELSE "shadow"
        BY <2>1, <2>2, <3>1, <4>1, <4>2
      <4>4. Inhibited(table[s].mem, s.at[2]) <=> Txt2Inhibited(regs)
        BY <2>4
      <4> QED BY <4>3, <4>4
    <3>2. CASE s.at[1] = "01"
      <4>1. Target(regs, s) = fixup_shadow_txt2(regs, s, Io)
        BY <2>2, <2>4, <3>2 DEF Target, Low, IoPages, SlotPages
      <4> QED BY <2>1, <2>2, <2>4, <3>2, <4>1 DEF fixup_shadow_txt2
    <3> QED BY <2>2, <3>1, <3>2
  <2>5. CASE s.at[2] = "hires1"
    <3>1. CASE s.at[1] = "00"
      <4>1. Target(regs, s) = fixup_bank0_2000_4000(regs, s, Io)
        BY <2>2, <2>5, <3>1 DEF Target, Low, IoPages, SlotPages
      <4> QED BY <2>1, <2>2, <2>5, <3>1, <4>1 DEF fixup_bank0_2000_4000, HiresOpen, AuxOpen, Low
    <3>2. CASE s.at[1] = "01"
      <4>1. Target(regs, s) = fixup_shadow_hires1(regs, s, Io)
        BY <2>2, <2>5, <3>2 DEF Target, Low, IoPages, SlotPages
      <4> QED BY <2>1, <2>2, <2>5, <3>2, <4>1 DEF fixup_shadow_hires1, AuxOpen
    <3> QED BY <2>2, <3>1, <3>2
  <2>6. CASE s.at[2] = "hires2"
    <3>1. CASE s.at[1] = "00"
      <4>1. Target(regs, s) = fixup_ramwrt(regs, s, Io)
        BY <2>2, <2>6, <3>1 DEF Target, Low, IoPages, SlotPages
      <4> QED BY <2>1, <2>2, <2>6, <3>1, <4>1 DEF fixup_ramwrt, HiresOpen, AuxOpen, Low
    <3>2. CASE s.at[1] = "01"
      <4>1. Target(regs, s) = fixup_shadow_hires2(regs, s, Io)
        BY <2>2, <2>6, <3>2 DEF Target, Low, IoPages, SlotPages
      <4> QED BY <2>1, <2>2, <2>6, <3>2, <4>1 DEF fixup_shadow_hires2, AuxOpen
    <3> QED BY <2>2, <3>1, <3>2
  <2>7. CASE s.at[2] = "shr"
    <3>1. CASE s.at[1] = "00"
      <4>1. Target(regs, s) = fixup_ramwrt(regs, s, Io)
        BY <2>2, <2>7, <3>1 DEF Target, Low, IoPages, SlotPages
      <4>2. fixup_ramwrt(regs, s, Io) =
              Ram(s, "ramwrt" \in regs.state,
                  IF "ramwrt" \in regs.state
                    THEN Mark(s, "ramwrt" \in regs.state, "shr" \notin regs.shadow) ELSE "none")
        BY <2>2, <2>7, <3>1 DEF fixup_ramwrt, Low
      <4>3. /\ table[s].mem = IF "ramwrt" \in regs.state THEN "aux" ELSE "main"
            /\ table[s].mark = IF "ramwrt" \in regs.state /\ "shr" \notin regs.shadow
                                THEN "shadow2" ELSE "none"
        BY <2>1, <2>2, <3>1, <4>1, <4>2
      <4>4. Inhibited(table[s].mem, s.at[2]) <=> table[s].mem = "main" \/ "shr" \in regs.shadow
        BY <2>7
      <4> QED BY <4>3, <4>4
    <3>2. CASE s.at[1] = "01"
      <4>1. Target(regs, s) = fixup_shadow_shr(regs, s, Io)
        BY <2>2, <2>7, <3>2 DEF Target, Low, IoPages, SlotPages
      <4> QED BY <2>1, <2>2, <2>7, <3>2, <4>1 DEF fixup_shadow_shr
    <3> QED BY <2>2, <3>1, <3>2
  <2> QED BY <2>2, <2>3, <2>4, <2>5, <2>6, <2>7
<1> QED BY <1>1, Inductive, PTL

===============================================================================
