-------------------------------- MODULE CpuOps --------------------------------
(***************************************************************************)
(* The 65816 as the engine computes it (engine_c.c, defs_instr.h,          *)
(* op_routs.h): memory accesses, the stack, the status register,           *)
(* addressing modes and operations.  Each operator takes the machine m, a  *)
(* record, and returns the machine it leaves; as in the macros, m.arg is   *)
(* the operand an addressing mode hands to an operation, its address or    *)
(* its value.                                                              *)
(*                                                                         *)
(* The status register is the set of its bits that are on, "e" among them. *)
(* N and Z of the last result are kept apart, in m.neg and m.nz, and only  *)
(* merged into it when they are asked for.  Left out: cycles, and what     *)
(* pages other than plain memory do with an access.                        *)
(***************************************************************************)
EXTENDS Integers, Sequences, FiniteSetsExt, Bitwise

CONSTANTS Fill(_)      \* the byte at an address nobody wrote to

Flags == {"c", "z", "i", "d", "x", "m", "v", "n"}
Weight == [c |-> 1, z |-> 2, i |-> 4, d |-> 8, x |-> 16, m |-> 32, v |-> 64, n |-> 128]
Byte(psr) == SumSet({Weight[f] : f \in psr \ {"e"}})
FlagsOf(byte) == {f \in Flags : (byte \div Weight[f]) % 2 = 1}

Lo(v) == v % 256
Hi(v) == (v \div 256) % 256
W16(v) == v % 65536
Bank(a) == (a \div 65536) * 65536
Page(a) == (a \div 256) * 256
InBank(a, n) == Bank(a) + W16(a + n)
INC_KPC(m, n) == [m EXCEPT !.kpc = InBank(@, n)]

Emul(m) == "e" \in m.psr
Wide(m) == "m" \notin m.psr       \* which of the two engines runs
WideIndex(m) == "x" \notin m.psr

-------------------------------------------------------------------------------
(* Memory.  The page of an address keeps 24 bits of it.                     *)
At(m, a) == LET b == a % 16777216 IN IF b \in DOMAIN m.mem THEN m.mem[b] ELSE Fill(b)
Following(a, in_bank) == IF in_bank THEN InBank(a, 1) ELSE a + 1

get_memory16(m, a, in_bank) == At(m, a) + 256 * At(m, Following(a, in_bank))
get_memory24(m, a) ==
  At(m, a) + 256 * At(m, InBank(a, 1)) + 65536 * At(m, InBank(a, 2))

SET_MEMORY8(m, a, v) ==
  LET b == a % 16777216
  IN  [m EXCEPT !.mem = [c \in DOMAIN @ \union {b} |-> IF c = b THEN Lo(v) ELSE @[c]]]
SET_MEMORY16(m, a, v, in_bank) ==
  SET_MEMORY8(SET_MEMORY8(m, a, v), Following(a, in_bank), Hi(v))
SET_MEMORY24(m, a, v) ==
  SET_MEMORY8(SET_MEMORY16(m, a, v, TRUE), InBank(a, 2), v \div 65536)

(* A pointer in the direct page, which wraps in its page in emulation mode. *)
GET_MEMORY_DIRECT_PAGE16(m, addr, x_wrap) ==
  LET aligned == Lo(m.d) = 0
      InPage(a) == IF aligned THEN Lo(a) + m.d ELSE a
      first == IF Emul(m) THEN InPage(addr) ELSE addr
      second == InPage(IF x_wrap THEN Page(first) + Lo(first + 1) ELSE W16(first + 1))
  IN  IF Emul(m) /\ Lo(addr) = 255 THEN At(m, first) + 256 * At(m, second)
      ELSE get_memory16(m, first, TRUE)

-------------------------------------------------------------------------------
(* The stack: it stays in page 1 in emulation mode, but the instructions    *)
(* the 6502 lacked access it before they wrap its pointer.                  *)
Wrapped(m, s) == IF Emul(m) THEN 256 + Lo(s) ELSE W16(s)
MoveStack(m, n) == [m EXCEPT !.s = Wrapped(m, W16(@ + n))]

PUSH8(m, v) == MoveStack(SET_MEMORY8(m, m.s, v), -1)
PUSH16_fast(m, v) ==          \* a mutant: no look at the page's start
  LET n == [m EXCEPT !.s = W16(@ - 2)] IN SET_MEMORY16(n, n.s + 1, v, TRUE)
PUSH16(m, v) ==
  IF Lo(m.s) \in {0, 1} THEN PUSH8(PUSH8(m, Hi(v)), v)
  ELSE LET n == [m EXCEPT !.s = W16(@ - 2)] IN SET_MEMORY16(n, n.s + 1, v, TRUE)
PUSH16_UNSAFE(m, v) == MoveStack(SET_MEMORY16(m, W16(m.s - 1), v, TRUE), -2)
PUSH24_UNSAFE(m, v) == MoveStack(SET_MEMORY24(m, W16(m.s - 2), v), -3)

(* What is pulled is left in arg.                                           *)
PULL8(m) == LET n == MoveStack(m, 1) IN [n EXCEPT !.arg = At(n, n.s)]
PULL8_UNSAFE(m) == LET a == W16(m.s + 1) IN [MoveStack(m, 1) EXCEPT !.arg = At(m, a)]
PULL16(m) ==
  IF Lo(m.s) \in {254, 255}
  THEN LET lo == PULL8(m)  hi == PULL8(lo) IN [hi EXCEPT !.arg = @ * 256 + lo.arg]
  ELSE [MoveStack(m, 2) EXCEPT !.arg = get_memory16(m, m.s + 1, TRUE)]
PULL16_UNSAFE(m) ==
  [MoveStack(m, 2) EXCEPT !.arg = get_memory16(m, W16(m.s + 1), TRUE)]
PULL24(m) ==
  IF Lo(m.s) >= 252
  THEN LET lo == PULL8(m)  mid == PULL8(lo)  hi == PULL8(mid)
       IN  [hi EXCEPT !.arg = 65536 * @ + 256 * mid.arg + lo.arg]
  ELSE [MoveStack(m, 3) EXCEPT !.arg = get_memory24(m, m.s + 1)]
PULL24_UNSAFE(m) == [MoveStack(m, 3) EXCEPT !.arg = get_memory24(m, W16(m.s + 1))]

-------------------------------------------------------------------------------
(* The status register                                                      *)
SetFlag(psr, f, on) == IF on THEN psr \union {f} ELSE psr \ {f}
Carry(m, on) == [m EXCEPT !.psr = SetFlag(@, "c", on)]

SET_NEG_ZERO(m, v, wide) ==
  [m EXCEPT !.neg = v >= IF wide THEN 32768 ELSE 128, !.nz = v # 0]

(* The register with the latest N and Z in it                               *)
Merged(m) == SetFlag(SetFlag(m.psr, "n", m.neg), "z", ~m.nz)
MergeNZ(m) == [m EXCEPT !.psr = Merged(m)]
LoadNZ(m) == [m EXCEPT !.neg = "n" \in m.psr, !.nz = "z" \notin m.psr]

(* After an instruction that rewrote the register: old is what it was.      *)
UPDATE_PSR(m, old) ==
  LET psr == IF Emul(m) THEN m.psr \union {"m", "x"} ELSE m.psr
      narrow == "x" \in psr \ old
      irq == "i" \notin psr /\ m.irq_pending
  IN  [m EXCEPT !.psr = psr,
                !.s = IF Emul(m) THEN 256 + Lo(@) ELSE @,
                !.x = IF narrow THEN Lo(@) ELSE @,
                !.y = IF narrow THEN Lo(@) ELSE @,
                !.ret = IF ("m" \in psr) # ("m" \in old) THEN "psr"
                        ELSE IF irq THEN "irq" ELSE @]

-------------------------------------------------------------------------------
(* Addition, in1 and in2 being the accumulator and the operand              *)
AddResult(psr, sum, overflow, wide) ==
  LET top == IF wide THEN 65536 ELSE 256
  IN  [sum |-> sum % top,
       psr |-> SetFlag(SetFlag(SetFlag(SetFlag(psr, "c", sum >= top), "v", overflow),
                               "n", sum % top >= top \div 2), "z", sum % top = 0)]
Bit(v, n) == (v \div 2^n) % 2

do_adc_sbc8_99(in1, operand, psr, sub) ==  \* a mutant: 100 is not adjusted
  LET sum == in1 + (IF sub THEN 255 - operand ELSE operand) + (IF "c" \in psr THEN 1 ELSE 0)
  IN  AddResult(psr, IF "d" \in psr /\ ~sub /\ sum > 160 THEN sum + 96 ELSE sum, FALSE, FALSE)
do_adc_sbc8(in1, operand, psr, sub) ==
  LET in2 == IF sub THEN 255 - operand ELSE operand
      carry == IF "c" \in psr THEN 1 ELSE 0
      binary == in1 + in2 + carry
      low == (in1 % 16) + (in2 % 16) + carry
      digit == IF sub THEN IF low < 16 THEN (low - 6) % 16 ELSE low
               ELSE IF low >= 10 THEN (low - 10) | 16 ELSE low
      tens == (in1 - (in1 % 16)) + (in2 - (in2 % 16)) + digit
      decimal == IF sub THEN IF tens < 256 THEN (tens + 160) % 256 ELSE tens
                 ELSE IF tens >= 160 THEN tens + 96 ELSE tens
      same == Bit(in1, 7) = Bit(in2, 7)
  IN  IF "d" \in psr
      THEN AddResult(psr, decimal, same /\ Bit(tens, 8) # Bit(tens, 7), FALSE)
      ELSE AddResult(psr, binary, same /\ Bit(binary, 7) # Bit(in2, 7), FALSE)

do_adc_sbc16(in1, operand, psr, sub) ==
  LET in2 == IF sub THEN 65535 - operand ELSE operand
      binary == in1 + in2 + IF "c" \in psr THEN 1 ELSE 0
      lo == do_adc_sbc8(Lo(in1), Lo(operand), psr, sub)
      hi == do_adc_sbc8(Hi(in1), Hi(operand), lo.psr, sub)
      decimal == 256 * hi.sum + lo.sum + IF "c" \in hi.psr THEN 65536 ELSE 0
      same == Bit(in1, 15) = Bit(in2, 15)
  IN  IF "d" \in psr THEN AddResult(hi.psr, decimal, same /\ "v" \in hi.psr, TRUE)
      ELSE AddResult(psr, binary, same /\ Bit(binary, 15) # Bit(in2, 15), TRUE)

-------------------------------------------------------------------------------
(* Addressing modes.  An _ADDR or a _WR leaves an address in arg, an _RD    *)
(* the value there, of the accumulator's width; latch is the address read.  *)
Arg1(m) == m.ops[1]
Arg2(m) == m.ops[1] + 256 * m.ops[2]
Arg3(m) == Arg2(m) + 65536 * m.ops[3]
Data(m, a) == 65536 * m.dbank + a

Read(m, a, in_bank, wide) ==
  [m EXCEPT !.arg = IF wide THEN get_memory16(m, a, in_bank) ELSE At(m, a), !.latch = a]

(* The modes whose address is in bank 0, and wraps in it.                   *)
BankZero == {"d", "d,x", "d,y", "s"}
Pointer(m) == GET_MEMORY_DIRECT_PAGE16(m, W16(m.d + Arg1(m)), FALSE)
LongPointer(m) == get_memory24(m, W16(m.d + Arg1(m)))
Index(m, mode) == IF mode \in {"d,y", "a,y"} THEN m.y ELSE m.x
GET_DLOC_INDEX_WR(m, index) ==
  IF Emul(m) /\ Lo(m.d) = 0 THEN W16(m.d + Lo(Arg1(m) + index))
  ELSE W16(m.d + Arg1(m) + index)

Direct(m, mode) ==
  CASE mode = "d" -> W16(m.d + Arg1(m))
    [] mode \in {"d,x", "d,y"} -> GET_DLOC_INDEX_WR(m, Index(m, mode))
    [] mode = "s" -> W16(m.s + Arg1(m))
    [] mode = "(d)" -> Data(m, Pointer(m))
    [] mode = "(d,x)" ->
         Data(m, GET_MEMORY_DIRECT_PAGE16(m, W16(m.d + Arg1(m) + m.x), TRUE))
    [] mode = "(s),y" -> (Data(m, get_memory16(m, W16(m.s + Arg1(m)), TRUE)) + m.y) % 16777216
    [] mode = "[d]" -> LongPointer(m)
    [] mode = "[d],y" -> (LongPointer(m) + m.y) % 16777216
GET_DLOC_IND_Y_ADDR(m) == (Data(m, Pointer(m)) + m.y) % 16777216

GET_ABS_INDEX_ADDR(m, index) == Data(m, Arg2(m)) + index

Address(m, mode) ==
  CASE mode = "(d),y" -> GET_DLOC_IND_Y_ADDR(m)
    [] mode \in {"a,x", "a,y"} -> GET_ABS_INDEX_ADDR(m, Index(m, mode))
    [] mode = "a" -> Data(m, Arg2(m))
    [] mode = "al" -> Arg3(m)
    [] mode = "al,x" -> (Arg3(m) + m.x) % 16777216
    [] OTHER -> Direct(m, mode)

(* The bytes of an instruction                                              *)
Length(m, mode) ==
  CASE mode \in {"imp", "acc"} -> 1
    [] mode = "immM" -> IF Wide(m) THEN 3 ELSE 2
    [] mode = "immX" -> IF WideIndex(m) THEN 3 ELSE 2
    [] mode \in {"a", "a,x", "a,y", "r16", "imm16", "blk"} -> 3
    [] mode \in {"al", "al,x"} -> 4
    [] OTHER -> 2

Immediate(m, wide) == [m EXCEPT !.arg = IF wide THEN Arg2(m) ELSE Arg1(m)]
GET_IMM_MEM(m) == Immediate(m, Wide(m))

(* Loads of the accumulator's width, and of the index registers'.           *)
Indexed == {"(d)", "d,x", "(s),y", "[d],y", "a,x", "a,y", "al,x"}
GET_INDEXED_RD(m, mode) == Read(m, Address(m, mode), mode = "d,x", Wide(m))
GET_RD(m, mode) ==
  CASE mode = "immM" -> GET_IMM_MEM(m)
    [] mode \in Indexed -> GET_INDEXED_RD(m, mode)
    [] OTHER -> Read(m, Address(m, mode), mode = "d", Wide(m))
IndexRead(m, mode) ==
  IF mode = "immX" THEN Immediate(m, WideIndex(m))
  ELSE Read(m, Address(m, mode), mode \in BankZero, WideIndex(m))

(* A read-modify-write: in emulation mode the value read is written first.  *)
GET_MEM_RMW(m) == IF ~Wide(m) /\ Emul(m) THEN SET_MEMORY8(m, m.latch, m.arg) ELSE m

-------------------------------------------------------------------------------
(* Operations on the accumulator and arg, whose width is the engine's       *)
Top(m) == IF Wide(m) THEN 65536 ELSE 256
Acc(m) == m.acc % Top(m)
SetAcc(m, v) ==
  SET_NEG_ZERO([m EXCEPT !.acc = (@ - (@ % Top(m))) + v], v, Wide(m))
SET_INDEX_REG(m, reg, v) ==
  LET kept == IF WideIndex(m) THEN W16(v) ELSE Lo(v)
  IN  SET_NEG_ZERO([m EXCEPT ![reg] = kept], kept, WideIndex(m))

ORA_INST(m) == SetAcc(m, Acc(m) | m.arg)
AND_INST(m) == SetAcc(m, Acc(m) & m.arg)
EOR_INST(m) == SetAcc(m, Acc(m) ^^ m.arg)
LDA_INST(m) == SetAcc(m, m.arg % Top(m))

ADC_SBC(m, sub) ==
  LET res == IF Wide(m) THEN do_adc_sbc16(m.acc, m.arg, m.psr, sub)
             ELSE do_adc_sbc8(Lo(m.acc), m.arg, m.psr, sub)
  IN  LoadNZ([m EXCEPT !.acc = (@ - (@ % Top(m))) + res.sum, !.psr = res.psr])
ADC_INST(m) == ADC_SBC(m, FALSE)
SBC_INST(m) == ADC_SBC(m, TRUE)

Compare(m, reg, wide) ==
  LET top == IF wide THEN 65536 ELSE 256
      diff == reg + top - m.arg
  IN  Carry(SET_NEG_ZERO(m, diff % top, wide), diff >= top)
CMP_INST(m) == Compare(m, Acc(m), Wide(m))
CP_INDEX_VAL(m, reg) == Compare(m, reg, WideIndex(m))

BIT_INST(m) ==
  [m EXCEPT !.neg = m.arg >= Top(m) \div 2, !.nz = (Acc(m) & m.arg) # 0,
            !.psr = SetFlag(@, "v", (m.arg \div (Top(m) \div 4)) % 2 = 1)]
BitImmediate(m) == [m EXCEPT !.nz = (Acc(m) & m.arg) # 0]

Store(m, v, mode, wide) ==
  LET a == Address(m, mode)
  IN  IF wide THEN SET_MEMORY16(m, a, v, mode \in BankZero) ELSE SET_MEMORY8(m, a, v)
STA_INST(m, mode) == Store(m, m.acc, mode, Wide(m))
STZ_INST(m, mode) == Store(m, 0, mode, Wide(m))
STX_INST(m, mode) == Store(m, m.x, mode, WideIndex(m))
STY_INST(m, mode) == Store(m, m.y, mode, WideIndex(m))

(* Shifts and steps: what becomes of a value v of the engine's width, and   *)
(* the carry, if it changes.                                                *)
CarryIn(m) == IF "c" \in m.psr THEN 1 ELSE 0
ASL_INST(m, v) == [v |-> (2 * v) % Top(m), c |-> 2 * v >= Top(m)]
ROL_INST(m, v) == [v |-> ((2 * v) % Top(m)) + CarryIn(m), c |-> 2 * v >= Top(m)]
LSR_INST(m, v) == [v |-> v \div 2, c |-> v % 2 = 1]
ROR_INST(m, v) == [v |-> (v \div 2) + CarryIn(m) * (Top(m) \div 2), c |-> v % 2 = 1]
INC_INST(m, v) == [v |-> (v + 1) % Top(m), c |-> "c" \in m.psr]
DEC_INST(m, v) == [v |-> (v - 1) % Top(m), c |-> "c" \in m.psr]

Shifted(m, op, v) ==
  CASE op = "ASL" -> ASL_INST(m, v) [] op = "ROL" -> ROL_INST(m, v)
    [] op = "LSR" -> LSR_INST(m, v) [] op = "ROR" -> ROR_INST(m, v)
    [] op = "INC" -> INC_INST(m, v) [] op = "DEC" -> DEC_INST(m, v)

WriteBack(m, v, mode) ==
  IF Wide(m) THEN SET_MEMORY16(m, m.latch, v, mode \in BankZero)
  ELSE SET_MEMORY8(m, m.latch, v)
ShiftMemory(m, op, mode) ==
  LET s == Shifted(m, op, m.arg)
  IN  SET_NEG_ZERO(Carry(WriteBack(m, s.v, mode), s.c), s.v, Wide(m))
ShiftAcc(m, op) == LET s == Shifted(m, op, Acc(m)) IN Carry(SetAcc(m, s.v), s.c)

TSB_INST(m, mode) ==
  [WriteBack(m, m.arg | Acc(m), mode) EXCEPT !.nz = (m.arg & Acc(m)) # 0]
TRB_INST(m, mode) ==
  [WriteBack(m, m.arg - (m.arg & Acc(m)), mode) EXCEPT !.nz = (m.arg & Acc(m)) # 0]

BRANCH_DISP8(m, taken) ==
  LET disp == IF Arg1(m) >= 128 THEN Arg1(m) - 256 ELSE Arg1(m)
  IN  INC_KPC(m, IF taken THEN 2 + disp ELSE 2)
===============================================================================
