------------------------------- MODULE MemoryMap -------------------------------
(***************************************************************************)
(* The page table through which the engine reads and writes memory         *)
(* (moremem.c).  Each soft switch rewrites the pages it decides, by one of *)
(* a dozen fixup routines that share pages and registers; setup_pageinfo   *)
(* builds the whole table.                                                 *)
(*                                                                         *)
(* Pages that every routine treats alike are one region.  A fixup is given *)
(* a slot of the table and the entry in it, and returns the entry it       *)
(* leaves there.  Left out: what is displayed, ROMBANK (which halts), and  *)
(* the memory behind the pages.                                            *)
(***************************************************************************)
EXTENDS Integers, FiniteSets

CONSTANTS
  RomVersion,   \* g_rom_version: 0 for an Apple IIe, else 1 or 3
  Breakpoints,  \* those the debugger is told to set: [pages, wr_only]
  MaxBreaks,    \* MAX_BREAK_POINTS
  MaxChanged    \* bound: the switches that differ from a reset's at once

(* The banks with soft switches, and 03, which stands for the odd banks     *)
(* above the first two, with their pages $20 to $9F.                        *)
Bank == {"00", "01", "E0", "E1"}
Low == {"00", "E0"}
Fast == {"00", "01"}

(* zp: pages 0-1; ram: 2-3, C-1F, A0-BF; txt1: 4-7; txt2: 8-B; hires1:      *)
(* 20-3F; hires2: 40-5F; shr: 60-9F; cx: the slots' pages but C3 and C4.    *)
SlotPages == {"c3", "c4", "cx"}
IoPages == SlotPages \union {"c0", "c8", "cf"}
Region == {"zp", "ram", "txt1", "txt2", "hires1", "hires2", "shr", "d0", "e0"} \union IoPages

Place == (Bank \X Region) \union {<<"03", "shr">>}
Slot == [side : {"rd", "wr"}, at : Place]

StateFlags == {"altzp", "page2", "ramrd", "ramwrt", "rdrom", "lcbank2", "intcx",
               "prewrite", "wrdefram", "intc8rom"}
C068Flags == StateFlags \ {"prewrite", "wrdefram", "intc8rom"}  \* the low byte
ShadowFlags == {"iolc", "txt2", "auxhires", "shr", "hires2", "hires1", "txt1"}
ModeFlags == {"st80", "hires", "page2"}

ASSUME RomAssumption == RomVersion \in {0, 1, 3}
ASSUME BreakAssumption ==
  /\ MaxBreaks \in Nat /\ MaxChanged \in Nat
  /\ Breakpoints \subseteq [pages : SUBSET Place, wr_only : BOOLEAN]

VARIABLES
  regs,      \* the registers the table follows
  bps,       \* the breakpoints set
  table,     \* [Slot -> entry]: page_info_rd_wr
  unsettled  \* history: the slots a register changed that no fixup follows

vars == <<regs, bps, table, unsettled>>

Registers ==
  [state : SUBSET StateFlags,    \* g_c068_statereg
   shadow : SUBSET ShadowFlags,  \* g_c035_shadow_reg: what is inhibited
   a2 : SUBSET ModeFlags,        \* g_cur_a2_stat
   crom : SUBSET SlotPages,      \* g_c02d_int_crom: slots with a card
   all_banks : BOOLEAN,          \* g_c036_val_speed, bit 4
   user_page2 : BOOLEAN]         \* g_user_page2_shadow

Entry == [mem : {"main", "aux", "slow0", "slow1", "odd", "rom", "card", "io"},
          page : {"own", "c000", "d000"},  \* the page of mem, if not the slot's own
          mark : {"none", "shadow", "shadow2", "protect"},
          brk : BOOLEAN]                   \* BANK_BREAK

OwnMem(b) == CASE b = "00" -> "main" [] b = "01" -> "aux" [] b = "E0" -> "slow0"
               [] b = "E1" -> "slow1" [] OTHER -> "odd"
AltMem(b) == IF b = "E0" THEN "slow1" ELSE "aux"

At(mem, page, mark) == [mem |-> mem, page |-> page, mark |-> mark, brk |-> FALSE]
Ram(s, alt, mark) == At(IF alt THEN AltMem(s.at[1]) ELSE OwnMem(s.at[1]), "own", mark)
Io == At("io", "own", "none")
Rom == At("rom", "own", "none")

Is(s, banks, regions) == s.at[1] \in banks /\ s.at[2] \in regions
Wr(s, banks, regions) == s.side = "wr" /\ Is(s, banks, regions)

(* What a write to display memory does when its shadowing is not inhibited; *)
(* writes to banks E0 and E1 always reach the screen.                       *)
Mark(s, alt, open) ==
  IF s.side = "wr" /\ (open \/ s.at[1] = "E0")
    THEN IF alt THEN "shadow2" ELSE "shadow"
    ELSE "none"

(* Mutant: super hires shadowing does not open the auxiliary hires pages.    *)
AuxOpenBySwitch(R, page) == R.shadow \intersect {"auxhires", page} = {}

AuxOpen(R, page) == R.shadow \intersect {"auxhires", page} = {} \/ "shr" \notin R.shadow
HiresOpen(R, page, alt) == IF alt THEN AuxOpen(R, page) ELSE page \notin R.shadow
Txt2Inhibited(R) == "txt2" \in R.shadow \/ (RomVersion = 1 /\ ~R.user_page2)

RamSwitch(R, s) == (IF s.side = "rd" THEN "ramrd" ELSE "ramwrt") \in R.state

-------------------------------------------------------------------------------
(* The fixup routines.                                                      *)

Covers(b, s) == s.at \in b.pages /\ (s.side = "wr" \/ ~b.wr_only)

fixup_brks(B, s, e) == IF \E b \in B : Covers(b, s) THEN [e EXCEPT !.brk = TRUE] ELSE e

fixup_bank0_2000_4000(R, s, e) ==
  LET alt == IF {"st80", "hires"} \subseteq R.a2 THEN "page2" \in R.a2 ELSE RamSwitch(R, s)
  IN IF Is(s, Low, {"hires1"}) THEN Ram(s, alt, Mark(s, alt, HiresOpen(R, "hires1", alt))) ELSE e

fixup_bank0_0400_0800(R, s, e) ==
  LET alt == IF "st80" \in R.a2 THEN "page2" \in R.a2 ELSE RamSwitch(R, s)
  IN IF Is(s, Low, {"txt1"}) THEN Ram(s, alt, Mark(s, alt, "txt1" \notin R.shadow)) ELSE e

fixup_hires_on(R, B, s, e) ==
  IF "st80" \in R.a2 THEN fixup_brks(B, s, fixup_bank0_2000_4000(R, s, e)) ELSE e

CardOrRom(R, r) == IF r \notin R.crom \/ "intcx" \in R.state THEN Rom
                   ELSE IF r = "c4" THEN Io ELSE At("card", "own", "none")

IoRead(R, r) ==
  CASE r = "c0" -> Io
    [] r = "c3" /\ "intc8rom" \notin R.state -> Io
    [] r \in SlotPages /\ (r = "c3" => "intc8rom" \in R.state) -> CardOrRom(R, r)
    [] r = "c8" -> IF R.state \intersect {"intcx", "intc8rom"} # {} THEN Rom ELSE Io
    [] r = "cf" -> IF "intcx" \in R.state /\ "intc8rom" \notin R.state THEN Rom ELSE Io

fixup_intcx(R, B, s, e) ==
  fixup_brks(B, s,
    IF Is(s, IF "iolc" \in R.shadow THEN Bank \ Fast ELSE Bank, IoPages)
      THEN IF s.side = "rd" THEN IoRead(R, s.at[2]) ELSE Io
      ELSE e)

(* Mutant: the breakpoints are not marked again.                            *)
fixup_st80col_unmarked(R, B, s, e) ==
  LET txt == fixup_bank0_0400_0800(R, s, e)
  IN IF "hires" \in R.a2 THEN fixup_bank0_2000_4000(R, s, txt) ELSE txt

fixup_st80col(R, B, s, e) ==
  LET txt == fixup_bank0_0400_0800(R, s, e)
      gr == IF "hires" \in R.a2 THEN fixup_bank0_2000_4000(R, s, txt) ELSE txt
  IN fixup_brks(B, s, gr)

fixup_altzp(R, s, e) == IF Is(s, Low, {"zp"}) THEN Ram(s, "altzp" \in R.state, "none") ELSE e

fixup_page2(R, s, e) ==
  LET txt == fixup_bank0_0400_0800(R, s, e)
  IN CASE "st80" \notin R.a2 -> e
       [] {"st80", "hires"} \subseteq R.a2 -> fixup_bank0_2000_4000(R, s, txt)
       [] OTHER -> txt

(* The two pages whose switch 80STORE may take over, when it does not.      *)
SwitchedPages(R, s, e) ==
  LET txt == IF "st80" \notin R.a2 THEN fixup_bank0_0400_0800(R, s, e) ELSE e
  IN IF {"st80", "hires"} \subseteq R.a2 THEN txt ELSE fixup_bank0_2000_4000(R, s, txt)

(* Mutant: the pages that 80STORE may switch are forgotten.                 *)
fixup_ramrd_alone(R, s, e) ==
  IF s.side = "rd" /\ Is(s, Low, {"ram", "txt2", "hires2", "shr"})
    THEN Ram(s, "ramrd" \in R.state, "none")
    ELSE e

fixup_ramrd(R, s, e) ==
  IF s.side = "rd" /\ Is(s, Low, {"ram", "txt2", "hires2", "shr"})
    THEN Ram(s, "ramrd" \in R.state, "none")
    ELSE SwitchedPages(R, s, e)

fixup_ramwrt(R, s, e) ==
  LET alt == "ramwrt" \in R.state
  IN CASE Wr(s, Low, {"ram"}) -> Ram(s, alt, "none")
       [] Wr(s, Low, {"txt2"}) -> Ram(s, alt, Mark(s, alt, ~Txt2Inhibited(R)))
       [] Wr(s, Low, {"hires2"}) -> Ram(s, alt, Mark(s, alt, HiresOpen(R, "hires2", alt)))
       [] Wr(s, Low, {"shr"}) ->
            Ram(s, alt, IF alt THEN Mark(s, alt, "shr" \notin R.shadow) ELSE "none")
       [] OTHER -> SwitchedPages(R, s, e)

(* Banks 0 and 1 without their language card are plain RAM up there.        *)
fixup_lc(R, s, e) ==
  LET fast == s.at[1] \in Fast
      off == fast /\ "iolc" \in R.shadow
      lcbank2 == "lcbank2" \in R.state /\ ~off
      wrdefram == "wrdefram" \in R.state \/ off
      rdrom == "rdrom" \in R.state /\ ~off
      ram == Ram(s, s.at[1] \in Low /\ "altzp" \in R.state,
                 IF s.side = "wr" /\ fast /\ ~wrdefram THEN "protect" ELSE "none")
      bank1 == s.at[2] = "d0" /\ ~lcbank2 /\ (s.side = "rd" => ~rdrom)
  IN CASE ~Is(s, Bank, {"d0", "e0"}) -> e
       [] Is(s, Fast, {"d0", "e0"}) /\ s.side = "rd" /\ rdrom -> Rom
       [] OTHER -> [ram EXCEPT !.page = IF bank1 THEN "c000" ELSE "own"]

-------------------------------------------------------------------------------
(* The fixups of the shadow register.                                       *)

fixup_shadow_txt1(R, s, e) ==
  IF Wr(s, {"01"}, {"txt1"})
    THEN Ram(s, FALSE, Mark(s, TRUE, "txt1" \notin R.shadow))
    ELSE fixup_bank0_0400_0800(R, s, e)

fixup_shadow_txt2(R, s, e) ==
  LET alt == "ramwrt" \in R.state
  IN CASE Wr(s, {"00"}, {"txt2"}) -> Ram(s, alt, Mark(s, alt, ~Txt2Inhibited(R)))
       [] Wr(s, {"01"}, {"txt2"}) -> Ram(s, FALSE, Mark(s, TRUE, ~Txt2Inhibited(R)))
       [] OTHER -> e

fixup_shadow_hires1(R, s, e) ==
  IF Wr(s, {"01"}, {"hires1"})
    THEN Ram(s, FALSE, Mark(s, TRUE, AuxOpen(R, "hires1")))
    ELSE fixup_bank0_2000_4000(R, s, e)

fixup_shadow_hires2(R, s, e) ==
  LET alt == "ramwrt" \in R.state
  IN CASE Wr(s, {"00"}, {"hires2"}) -> Ram(s, alt, Mark(s, alt, HiresOpen(R, "hires2", alt)))
       [] Wr(s, {"01"}, {"hires2"}) -> Ram(s, FALSE, Mark(s, TRUE, AuxOpen(R, "hires2")))
       [] OTHER -> e

fixup_shadow_shr(R, s, e) ==
  LET alt == "ramwrt" \in R.state
  IN CASE Wr(s, {"00"}, {"shr"}) -> Ram(s, alt, Mark(s, alt, alt /\ "shr" \notin R.shadow))
       [] Wr(s, {"01"}, {"shr"}) -> Ram(s, FALSE, Mark(s, TRUE, "shr" \notin R.shadow))
       [] OTHER -> e

fixup_shadow_iolc(R, B, s, e) ==
  LET alt == s.at[1] = "00" /\ "altzp" \in R.state
  IN CASE "iolc" \notin R.shadow -> fixup_lc(R, s, fixup_intcx(R, B, s, e))
       [] "iolc" \in R.shadow /\ Is(s, Fast, IoPages) -> At(OwnMem(s.at[1]), "d000", "none")
       [] "iolc" \in R.shadow /\ Is(s, Fast, {"d0"}) ->
            [Ram(s, alt, "none") EXCEPT !.page = "c000"]
       [] "iolc" \in R.shadow /\ Is(s, Fast, {"e0"}) -> Ram(s, alt, "none")
       [] OTHER -> e

fixup_shadow_all_banks(R, B, s, e) ==
  LET open == R.all_banks /\ "shr" \notin R.shadow
  IN fixup_brks(B, s, IF Wr(s, {"03"}, {"shr"}) THEN Ram(s, FALSE, Mark(s, TRUE, open)) ELSE e)

(* Every page itself, and the display pages of banks E0 and E1.             *)
BaseEntry(s) ==
  LET display == s.at[2] \in {"txt1", "txt2", "hires1", "hires2", "shr"}
  IN CASE Wr(s, {"E0"}, Region) /\ display -> Ram(s, FALSE, "shadow")
       [] Wr(s, {"E1"}, Region) /\ display -> Ram(s, FALSE, "shadow2")
       [] OTHER -> Ram(s, FALSE, "none")

setup_pageinfo(R, B, s) ==
  LET base == fixup_shadow_all_banks(R, B, s, BaseEntry(s))
      high == fixup_lc(R, s, fixup_intcx(R, B, s, base))
      pages == fixup_bank0_0400_0800(R, s, fixup_bank0_2000_4000(R, s, high))
      banks == fixup_ramwrt(R, s, fixup_ramrd(R, s, fixup_altzp(R, s, pages)))
      txt == fixup_shadow_txt2(R, s, fixup_shadow_txt1(R, s, banks))
      hires == fixup_shadow_hires2(R, s, fixup_shadow_hires1(R, s, txt))
      all == fixup_shadow_iolc(R, B, s, fixup_shadow_shr(R, s, hires))
  IN fixup_brks(B, s, all)

-------------------------------------------------------------------------------
(* Writing the registers.                                                   *)

(* The registers after the first do_reset.                                  *)
PowerOn ==
  [state |-> {"wrdefram", "rdrom", "lcbank2"} \union (IF RomVersion = 0 THEN {} ELSE {"intcx"}),
   shadow |-> {}, a2 |-> {}, crom |-> IF RomVersion = 0 THEN SlotPages ELSE {},
   all_banks |-> FALSE, user_page2 |-> TRUE]

SymDiff(a, b) == (a \ b) \union (b \ a)

(* The bound of a run: how many switches differ from those of a reset.      *)
Changed(R) ==
  Cardinality(SymDiff(R.state, PowerOn.state)) + Cardinality(R.shadow) + Cardinality(R.a2)
  + Cardinality(SymDiff(R.crom, PowerOn.crom))
  + (IF R.all_banks THEN 1 ELSE 0) + (IF R.user_page2 THEN 0 ELSE 1)

Become(R) == Changed(R) <= MaxChanged /\ regs' = R

Rebuilt(R, B) ==
  /\ Become(R) /\ bps' = B /\ unsettled' = {}
  /\ table' = [s \in Slot |-> setup_pageinfo(R, B, s)]

(* A register is written and the fixups leave table t.                      *)
Fixed(R, t) == Become(R) /\ table' = t /\ UNCHANGED <<bps, unsettled>>

ResetRegs(a2) ==
  [regs EXCEPT !.shadow = {}, !.a2 = a2,
    !.state = {"wrdefram", "rdrom", "lcbank2"} \union (IF RomVersion = 0 THEN {} ELSE {"intcx"}),
    !.crom = IF RomVersion = 0 THEN SlotPages ELSE {}]

(* do_reset; video_reset leaves g_cur_a2_stat while the panel is shown.     *)
do_reset == \E panel \in BOOLEAN :
  Rebuilt(ResetRegs(IF panel THEN regs.a2 ELSE {}), bps)

(* The fixups for the changed bits, with the new registers.                 *)
StateFixups(R, B, changed, s, e) ==
  LET lc == IF changed \intersect {"wrdefram", "altzp", "rdrom", "lcbank2"} # {}
              THEN fixup_lc(R, s, e) ELSE e
      zp == IF "altzp" \in changed THEN fixup_altzp(R, s, lc) ELSE lc
      page2 == IF "page2" \in changed THEN fixup_page2(R, s, zp) ELSE zp
      rd == IF "ramrd" \in changed THEN fixup_ramrd(R, s, page2) ELSE page2
      wrt == IF "ramwrt" \in changed THEN fixup_ramwrt(R, s, rd) ELSE rd
      cx == IF changed \intersect {"intc8rom", "intcx"} # {} THEN fixup_intcx(R, B, s, wrt) ELSE wrt
  IN fixup_brks(B, s, cx)

set_statereg(val) ==
  LET changed == SymDiff(val, regs.state)
      R == [regs EXCEPT !.state = val,
              !.a2 = IF "page2" \in changed THEN (@ \ {"page2"}) \union (val \intersect {"page2"}) ELSE @]
  IN /\ changed # {}
     /\ Fixed(R, [s \in Slot |-> StateFixups(R, bps, changed, s, table[s])])

ShadowFixups(R, B, changed, s, e) ==
  LET shr == IF "shr" \in changed
               THEN fixup_shadow_shr(R, s, fixup_shadow_hires2(R, s, fixup_shadow_hires1(R, s, e)))
               ELSE e
      left == changed \ (IF "shr" \in changed THEN {"auxhires", "hires1", "hires2"} ELSE {})
      aux == IF "auxhires" \in left
               THEN fixup_shadow_hires2(R, s, fixup_shadow_hires1(R, s, shr)) ELSE shr
      last == left \ (IF "auxhires" \in left THEN {"hires1", "hires2"} ELSE {})
      hires1 == IF "hires1" \in last THEN fixup_shadow_hires1(R, s, aux) ELSE aux
      hires2 == IF "hires2" \in last THEN fixup_shadow_hires2(R, s, hires1) ELSE hires1
      txt1 == IF "txt1" \in last THEN fixup_shadow_txt1(R, s, hires2) ELSE hires2
      txt2 == IF "txt2" \in last /\ (RomVersion # 1 \/ R.user_page2)
                THEN fixup_shadow_txt2(R, s, txt1) ELSE txt1
      iolc == IF "iolc" \in last THEN fixup_shadow_iolc(R, B, s, txt2) ELSE txt2
  IN fixup_brks(B, s, iolc)

OddSlots == {s \in Slot : Wr(s, {"03"}, {"shr"})}
Txt2Slots == {s \in Slot : Wr(s, Fast, {"txt2"})}

update_shadow_reg(val) ==
  LET changed == SymDiff(val, regs.shadow)
      R == [regs EXCEPT !.shadow = val]
  IN /\ changed # {} /\ Become(R) /\ UNCHANGED bps
     /\ table' = [s \in Slot |-> ShadowFixups(R, bps, changed, s, table[s])]
     /\ unsettled' = unsettled \union (IF "shr" \in changed THEN OddSlots ELSE {})

-------------------------------------------------------------------------------
(* The guest's accesses.                                                    *)

(* $C000, $C001.                                                            *)
write_80store(on) ==
  LET R == [regs EXCEPT !.a2 = IF on THEN @ \union {"st80"} ELSE @ \ {"st80"}]
  IN /\ R # regs
     /\ Fixed(R, [s \in Slot |-> fixup_st80col(R, bps, s, table[s])])

(* $C056, $C057.                                                            *)
access_hires(on) ==
  LET R == [regs EXCEPT !.a2 = IF on THEN @ \union {"hires"} ELSE @ \ {"hires"}]
  IN /\ R # regs
     /\ Fixed(R, [s \in Slot |-> fixup_hires_on(R, bps, s, table[s])])

(* $C02D, and $C00A and $C00B for its bit of slot 3.                        *)
write_c02d(val) ==
  LET R == [regs EXCEPT !.crom = val]
  IN /\ R # regs
     /\ Fixed(R, [s \in Slot |-> fixup_intcx(R, bps, s, table[s])])

write_c036(all) ==
  LET R == [regs EXCEPT !.all_banks = all]
  IN /\ R # regs /\ Become(R) /\ UNCHANGED bps
     /\ table' = [s \in Slot |-> fixup_shadow_all_banks(R, bps, s, table[s])]
     /\ unsettled' = unsettled \ OddSlots

(* $C068, and the switches for one bit of it: $C002-$C009, $C054, $C055.    *)
write_c068(val) == set_statereg((regs.state \ C068Flags) \union val)

(* $C080-$C08F: bits 0, 1 and 3 of the address.                             *)
access_c08x(bit0, bit1, bit3, read) ==
  LET bank2 == IF bit3 THEN {} ELSE {"lcbank2"}
      rdrom == IF bit0 # bit1 THEN {"rdrom"} ELSE {}
      prewrite == IF bit0 /\ read THEN {"prewrite"} ELSE {}
      wrdefram == bit0 /\ ("wrdefram" \in regs.state \/ (read /\ "prewrite" \in regs.state))
  IN set_statereg((regs.state \ {"lcbank2", "rdrom", "prewrite", "wrdefram"})
                    \union bank2 \union rdrom \union prewrite
                    \union (IF wrdefram THEN {"wrdefram"} ELSE {}))

(* Reads reach io_read only where the table says so.                        *)
Watched(side, r) == \E b \in Bank : table[[side |-> side, at |-> <<b, r>>]].mem = "io"

access_c3xx(side) ==
  /\ Watched(side, "c3") /\ "c3" \notin regs.crom /\ "intc8rom" \notin regs.state
  /\ set_statereg(regs.state \union {"intc8rom"})

access_cfff(side) ==
  /\ Watched(side, "cf") /\ "intc8rom" \in regs.state
  /\ set_statereg(regs.state \ {"intc8rom"})

-------------------------------------------------------------------------------
(* The configuration panel and the debugger.                                *)

cfg_user_page2_shadow ==
  /\ Become([regs EXCEPT !.user_page2 = ~@])
  /\ unsettled' = unsettled \union (IF RomVersion = 1 THEN Txt2Slots ELSE {})
  /\ UNCHANGED <<bps, table>>

set_bp(b) ==
  /\ Cardinality(bps) < MaxBreaks
  /\ bps' = bps \union {b}
  /\ table' = [s \in Slot |-> fixup_brks(bps', s, table[s])]
  /\ UNCHANGED <<regs, unsettled>>

(* A range deletes every breakpoint it meets; bit 24 of an address makes it *)
(* a watch of writes, and takes part in the comparison.                     *)
delete_bp(b) ==
  LET hit == {x \in bps : x.pages \intersect b.pages # {} /\ x.wr_only = b.wr_only}
  IN hit # {} /\ Rebuilt(regs, bps \ hit)

debug_bp_clear_all == bps # {} /\ Rebuilt(regs, {})

-------------------------------------------------------------------------------
(* After the do_reset that ends load_roms_init_memory.                      *)
Init ==
  /\ regs = PowerOn /\ bps = {} /\ unsettled = {}
  /\ table = [s \in Slot |-> setup_pageinfo(PowerOn, {}, s)]

GuestAccess ==
  \/ \E on \in BOOLEAN : write_80store(on) \/ access_hires(on) \/ write_c036(on)
  \/ \E val \in SUBSET SlotPages : write_c02d(val)
  \/ \E val \in SUBSET ShadowFlags : update_shadow_reg(val)
  \/ \E val \in SUBSET C068Flags : write_c068(val)
  \/ \E bit0, bit1, bit3, read \in BOOLEAN : access_c08x(bit0, bit1, bit3, read)
  \/ \E side \in {"rd", "wr"} : access_c3xx(side) \/ access_cfff(side)

Next ==
  \/ GuestAccess \/ do_reset \/ cfg_user_page2_shadow \/ debug_bp_clear_all
  \/ \E b \in Breakpoints : set_bp(b) \/ delete_bp(b)

Spec == Init /\ [][Next]_vars

-------------------------------------------------------------------------------
(* Properties.                                                              *)

(* The registers, the breakpoints and every entry of the table have their   *)
(* types.                                                                   *)
TypeOK ==
  /\ regs \in Registers /\ bps \subseteq Breakpoints
  /\ table \in [Slot -> Entry] /\ unsettled \subseteq OddSlots \union Txt2Slots

Points(e) == [mem |-> e.mem, page |-> e.page, mark |-> e.mark]

(* However the switches got where they are, the table is the one            *)
(* setup_pageinfo would build for them (moremem.c:880): no fixup forgets a  *)
(* page, nor computes it in another way than its fellows.  Excepted are the *)
(* pages two registers decide and no fixup follows: the odd banks after     *)
(* $C035 and text page 2 after a change of the configuration.               *)
TableMatches == \A s \in Slot \ unsettled :
  Points(table[s]) = Points(setup_pageinfo(regs, bps, s))

(* Exactly the pages under a breakpoint stop the engine, though every fixup *)
(* wipes the marks of the pages it rewrites (fixup_brks, moremem.c:149).    *)
BreaksMarked == \A s \in Slot : table[s].brk = (\E b \in bps : Covers(b, s))

(* The inhibit bits of $C035 as its comment gives them (moremem.c:60), for  *)
(* the memory a write really goes to.                                       *)
Inhibited(mem, r) ==
  \/ r = "txt1" /\ "txt1" \in regs.shadow
  \/ r = "txt2" /\ Txt2Inhibited(regs)
  \/ r = "shr" /\ (mem = "main" \/ "shr" \in regs.shadow)
  \/ r \in {"hires1", "hires2"} /\ mem = "main" /\ r \in regs.shadow
  \/ /\ r \in {"hires1", "hires2"} /\ mem # "main"
     /\ "shr" \in regs.shadow /\ regs.shadow \intersect {"auxhires", r} # {}

(* A write to display memory in banks 0 and 1 reaches the screen unless the *)
(* shadow register inhibits it, whichever of the two banks the switches     *)
(* send it to: the screen misses no write and shows none it should not.     *)
WritesReachScreen == \A s \in Slot \ unsettled :
  Wr(s, Fast, {"txt1", "txt2", "hires1", "hires2", "shr"}) =>
    LET e == table[s]
    IN e.mark = (IF Inhibited(e.mem, s.at[2]) THEN "none"
                 ELSE IF e.mem = "main" THEN "shadow" ELSE "shadow2")
===============================================================================
