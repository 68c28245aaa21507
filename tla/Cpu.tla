---------------------------------- MODULE Cpu ----------------------------------
(***************************************************************************)
(* The 65816 executing instructions (instable.h, engine.h), with the       *)
(* interrupts the main loop gives it (take_irq).  The opcodes are a table  *)
(* of operations and addressing modes; size_c.h is the second table that   *)
(* must agree with it.  One step is one instruction or one interrupt.      *)
(***************************************************************************)
EXTENDS CpuOps, TLC

CONSTANTS
  Starts,      \* the machines to start from, each with the .steps it may take
  Codes        \* bound: the instructions tried at each count of steps left

VARIABLES cpu,         \* the machine
          was          \* history: the machine before the last step, and what it did

vars == <<cpu, was>>

Word == {"acc", "x", "y", "s", "d"}

-------------------------------------------------------------------------------
(* The opcodes, row by row: operation and addressing mode                   *)
Row0 == <<<<"BRK", "imm8">>, <<"ORA", "(d,x)">>, <<"COP", "imm8">>, <<"ORA", "s">>,
          <<"TSB", "d">>, <<"ORA", "d">>, <<"ASL", "d">>, <<"ORA", "[d]">>,
          <<"PHP", "imp">>, <<"ORA", "immM">>, <<"ASL", "acc">>, <<"PHD", "imp">>,
          <<"TSB", "a">>, <<"ORA", "a">>, <<"ASL", "a">>, <<"ORA", "al">>>>
Row1 == <<<<"BPL", "r8">>, <<"ORA", "(d),y">>, <<"ORA", "(d)">>, <<"ORA", "(s),y">>,
          <<"TRB", "d">>, <<"ORA", "d,x">>, <<"ASL", "d,x">>, <<"ORA", "[d],y">>,
          <<"CLC", "imp">>, <<"ORA", "a,y">>, <<"INC", "acc">>, <<"TCS", "imp">>,
          <<"TRB", "a">>, <<"ORA", "a,x">>, <<"ASL", "a,x">>, <<"ORA", "al,x">>>>
Row2 == <<<<"JSR", "imm16">>, <<"AND", "(d,x)">>, <<"JSL", "al">>, <<"AND", "s">>,
          <<"BIT", "d">>, <<"AND", "d">>, <<"ROL", "d">>, <<"AND", "[d]">>,
          <<"PLP", "imp">>, <<"AND", "immM">>, <<"ROL", "acc">>, <<"PLD", "imp">>,
          <<"BIT", "a">>, <<"AND", "a">>, <<"ROL", "a">>, <<"AND", "al">>>>
Row3 == <<<<"BMI", "r8">>, <<"AND", "(d),y">>, <<"AND", "(d)">>, <<"AND", "(s),y">>,
          <<"BIT", "d,x">>, <<"AND", "d,x">>, <<"ROL", "d,x">>, <<"AND", "[d],y">>,
          <<"SEC", "imp">>, <<"AND", "a,y">>, <<"DEC", "acc">>, <<"TSC", "imp">>,
          <<"BIT", "a,x">>, <<"AND", "a,x">>, <<"ROL", "a,x">>, <<"AND", "al,x">>>>
Row4 == <<<<"RTI", "imp">>, <<"EOR", "(d,x)">>, <<"WDM", "imm8">>, <<"EOR", "s">>,
          <<"MVP", "blk">>, <<"EOR", "d">>, <<"LSR", "d">>, <<"EOR", "[d]">>,
          <<"PHA", "imp">>, <<"EOR", "immM">>, <<"LSR", "acc">>, <<"PHK", "imp">>,
          <<"JMP", "imm16">>, <<"EOR", "a">>, <<"LSR", "a">>, <<"EOR", "al">>>>
Row5 == <<<<"BVC", "r8">>, <<"EOR", "(d),y">>, <<"EOR", "(d)">>, <<"EOR", "(s),y">>,
          <<"MVN", "blk">>, <<"EOR", "d,x">>, <<"LSR", "d,x">>, <<"EOR", "[d],y">>,
          <<"CLI", "imp">>, <<"EOR", "a,y">>, <<"PHY", "imp">>, <<"TCD", "imp">>,
          <<"JML", "al">>, <<"EOR", "a,x">>, <<"LSR", "a,x">>, <<"EOR", "al,x">>>>
Row6 == <<<<"RTS", "imp">>, <<"ADC", "(d,x)">>, <<"PER", "r16">>, <<"ADC", "s">>,
          <<"STZ", "d">>, <<"ADC", "d">>, <<"ROR", "d">>, <<"ADC", "[d]">>,
          <<"PLA", "imp">>, <<"ADC", "immM">>, <<"ROR", "acc">>, <<"RTL", "imp">>,
          <<"JMP(a)", "imm16">>, <<"ADC", "a">>, <<"ROR", "a">>, <<"ADC", "al">>>>
Row7 == <<<<"BVS", "r8">>, <<"ADC", "(d),y">>, <<"ADC", "(d)">>, <<"ADC", "(s),y">>,
          <<"STZ", "d,x">>, <<"ADC", "d,x">>, <<"ROR", "d,x">>, <<"ADC", "[d],y">>,
          <<"SEI", "imp">>, <<"ADC", "a,y">>, <<"PLY", "imp">>, <<"TDC", "imp">>,
          <<"JMP(a,x)", "imm16">>, <<"ADC", "a,x">>, <<"ROR", "a,x">>, <<"ADC", "al,x">>>>
Row8 == <<<<"BRA", "r8">>, <<"STA", "(d,x)">>, <<"BRL", "r16">>, <<"STA", "s">>,
          <<"STY", "d">>, <<"STA", "d">>, <<"STX", "d">>, <<"STA", "[d]">>,
          <<"DEY", "imp">>, <<"BIT", "immM">>, <<"TXA", "imp">>, <<"PHB", "imp">>,
          <<"STY", "a">>, <<"STA", "a">>, <<"STX", "a">>, <<"STA", "al">>>>
Row9 == <<<<"BCC", "r8">>, <<"STA", "(d),y">>, <<"STA", "(d)">>, <<"STA", "(s),y">>,
          <<"STY", "d,x">>, <<"STA", "d,x">>, <<"STX", "d,y">>, <<"STA", "[d],y">>,
          <<"TYA", "imp">>, <<"STA", "a,y">>, <<"TXS", "imp">>, <<"TXY", "imp">>,
          <<"STZ", "a">>, <<"STA", "a,x">>, <<"STZ", "a,x">>, <<"STA", "al,x">>>>
RowA == <<<<"LDY", "immX">>, <<"LDA", "(d,x)">>, <<"LDX", "immX">>, <<"LDA", "s">>,
          <<"LDY", "d">>, <<"LDA", "d">>, <<"LDX", "d">>, <<"LDA", "[d]">>,
          <<"TAY", "imp">>, <<"LDA", "immM">>, <<"TAX", "imp">>, <<"PLB", "imp">>,
          <<"LDY", "a">>, <<"LDA", "a">>, <<"LDX", "a">>, <<"LDA", "al">>>>
RowB == <<<<"BCS", "r8">>, <<"LDA", "(d),y">>, <<"LDA", "(d)">>, <<"LDA", "(s),y">>,
          <<"LDY", "d,x">>, <<"LDA", "d,x">>, <<"LDX", "d,y">>, <<"LDA", "[d],y">>,
          <<"CLV", "imp">>, <<"LDA", "a,y">>, <<"TSX", "imp">>, <<"TYX", "imp">>,
          <<"LDY", "a,x">>, <<"LDA", "a,x">>, <<"LDX", "a,y">>, <<"LDA", "al,x">>>>
RowC == <<<<"CPY", "immX">>, <<"CMP", "(d,x)">>, <<"REP", "imm8">>, <<"CMP", "s">>,
          <<"CPY", "d">>, <<"CMP", "d">>, <<"DEC", "d">>, <<"CMP", "[d]">>,
          <<"INY", "imp">>, <<"CMP", "immM">>, <<"DEX", "imp">>, <<"WAI", "imp">>,
          <<"CPY", "a">>, <<"CMP", "a">>, <<"DEC", "a">>, <<"CMP", "al">>>>
RowD == <<<<"BNE", "r8">>, <<"CMP", "(d),y">>, <<"CMP", "(d)">>, <<"CMP", "(s),y">>,
          <<"PEI", "d">>, <<"CMP", "d,x">>, <<"DEC", "d,x">>, <<"CMP", "[d],y">>,
          <<"CLD", "imp">>, <<"CMP", "a,y">>, <<"PHX", "imp">>, <<"STP", "imp">>,
          <<"JML(a)", "imm16">>, <<"CMP", "a,x">>, <<"DEC", "a,x">>, <<"CMP", "al,x">>>>
RowE == <<<<"CPX", "immX">>, <<"SBC", "(d,x)">>, <<"SEP", "imm8">>, <<"SBC", "s">>,
          <<"CPX", "d">>, <<"SBC", "d">>, <<"INC", "d">>, <<"SBC", "[d]">>,
          <<"INX", "imp">>, <<"SBC", "immM">>, <<"NOP", "imp">>, <<"XBA", "imp">>,
          <<"CPX", "a">>, <<"SBC", "a">>, <<"INC", "a">>, <<"SBC", "al">>>>
RowF == <<<<"BEQ", "r8">>, <<"SBC", "(d),y">>, <<"SBC", "(d)">>, <<"SBC", "(s),y">>,
          <<"PEA", "imm16">>, <<"SBC", "d,x">>, <<"INC", "d,x">>, <<"SBC", "[d],y">>,
          <<"SED", "imp">>, <<"SBC", "a,y">>, <<"PLX", "imp">>, <<"XCE", "imp">>,
          <<"JSR(a,x)", "imm16">>, <<"SBC", "a,x">>, <<"INC", "a,x">>, <<"SBC", "al,x">>>>

Rows == <<Row0, Row1, Row2, Row3, Row4, Row5, Row6, Row7,
          Row8, Row9, RowA, RowB, RowC, RowD, RowE, RowF>>
Opcode(byte) == Rows[1 + (byte \div 16)][1 + (byte % 16)]

(* size_tab: the operand bytes to read where they cannot be read in place;  *)
(* 4 and 5 stand for the accumulator's width and the index registers'.      *)
size_tab_low_5c ==      \* a mutant: JMP long with two operand bytes
  <<<<1, 1, 1, 1, 1, 1, 1, 1, 0, 4, 0, 0, 2, 2, 2, 3>>,
    <<1, 1, 1, 1, 1, 1, 1, 1, 0, 2, 0, 0, 2, 2, 2, 3>>,
    <<2, 1, 3, 1, 1, 1, 1, 1, 0, 4, 0, 0, 2, 2, 2, 3>>,
    <<1, 1, 1, 1, 1, 1, 1, 1, 0, 2, 0, 0, 2, 2, 2, 3>>,
    <<0, 1, 2, 1, 2, 1, 1, 1, 0, 4, 0, 0, 2, 2, 2, 3>>,
    <<1, 1, 1, 1, 2, 1, 1, 1, 0, 2, 0, 0, 2, 2, 2, 3>>,
    <<0, 1, 2, 1, 1, 1, 1, 1, 0, 4, 0, 0, 2, 2, 2, 3>>,
    <<1, 1, 1, 1, 1, 1, 1, 1, 0, 2, 0, 0, 2, 2, 2, 3>>>>
size_tab_low ==
  <<<<1, 1, 1, 1, 1, 1, 1, 1, 0, 4, 0, 0, 2, 2, 2, 3>>,
    <<1, 1, 1, 1, 1, 1, 1, 1, 0, 2, 0, 0, 2, 2, 2, 3>>,
    <<2, 1, 3, 1, 1, 1, 1, 1, 0, 4, 0, 0, 2, 2, 2, 3>>,
    <<1, 1, 1, 1, 1, 1, 1, 1, 0, 2, 0, 0, 2, 2, 2, 3>>,
    <<0, 1, 2, 1, 2, 1, 1, 1, 0, 4, 0, 0, 2, 2, 2, 3>>,
    <<1, 1, 1, 1, 2, 1, 1, 1, 0, 2, 0, 0, 3, 2, 2, 3>>,
    <<0, 1, 2, 1, 1, 1, 1, 1, 0, 4, 0, 0, 2, 2, 2, 3>>,
    <<1, 1, 1, 1, 1, 1, 1, 1, 0, 2, 0, 0, 2, 2, 2, 3>>>>
size_tab_high ==
  <<<<1, 1, 2, 1, 1, 1, 1, 1, 0, 4, 0, 0, 2, 2, 2, 3>>,
    <<1, 1, 1, 1, 1, 1, 1, 1, 0, 2, 0, 0, 2, 2, 2, 3>>,
    <<5, 1, 5, 1, 1, 1, 1, 1, 0, 4, 0, 0, 2, 2, 2, 3>>,
    <<1, 1, 1, 1, 1, 1, 1, 1, 0, 2, 0, 0, 2, 2, 2, 3>>,
    <<5, 1, 1, 1, 1, 1, 1, 1, 0, 4, 0, 0, 2, 2, 2, 3>>,
    <<1, 1, 1, 1, 1, 1, 1, 1, 0, 2, 0, 0, 2, 2, 2, 3>>,
    <<5, 1, 1, 1, 1, 1, 1, 1, 0, 4, 0, 0, 2, 2, 2, 3>>,
    <<1, 1, 1, 1, 2, 1, 1, 1, 0, 2, 0, 0, 2, 2, 2, 3>>>>
size_tab == size_tab_low \o size_tab_high
size(byte) == size_tab[1 + (byte \div 16)][1 + (byte % 16)]

-------------------------------------------------------------------------------
(* Fetching.  code is what memory holds at the program counter: an opcode   *)
(* and the three bytes after it.                                            *)
InPlace(code) == SubSeq(code, 2, 4)

get_remaining_operands(m, code) ==
  LET n == CASE size(code[1]) = 4 -> IF Wide(m) THEN 2 ELSE 1
             [] size(code[1]) = 5 -> IF WideIndex(m) THEN 2 ELSE 1
             [] OTHER -> size(code[1])
  IN  [k \in 1..3 |-> IF k <= n THEN code[k + 1] ELSE 0]

FETCH_OPCODE(m, code) ==
  IF Lo(m.kpc) > 252 THEN get_remaining_operands(m, code) ELSE InPlace(code)

-------------------------------------------------------------------------------
(* Instructions with no memory operand but the stack, after the program     *)
(* counter has moved past them                                              *)
Transfer(m, op) ==
  CASE op = "TAX" -> SET_INDEX_REG(m, "x", m.acc)
    [] op = "TAY" -> SET_INDEX_REG(m, "y", m.acc)
    [] op = "TXY" -> SET_INDEX_REG(m, "y", m.x)
    [] op = "TYX" -> SET_INDEX_REG(m, "x", m.y)
    [] op = "TSX" -> SET_INDEX_REG(m, "x", m.s)
    [] op = "TXA" -> LDA_INST([m EXCEPT !.arg = m.x])
    [] op = "TYA" -> LDA_INST([m EXCEPT !.arg = m.y])
    [] op = "TXS" -> [m EXCEPT !.s = IF Emul(m) THEN 256 + Lo(m.x) ELSE m.x]
    [] op = "TCS" -> [m EXCEPT !.s = IF Emul(m) THEN 256 + Lo(m.acc) ELSE m.acc]
    [] op = "TSC" -> SET_NEG_ZERO([m EXCEPT !.acc = m.s], m.s, TRUE)
    [] op = "TCD" -> SET_NEG_ZERO([m EXCEPT !.d = m.acc], m.acc, TRUE)
    [] op = "TDC" -> SET_NEG_ZERO([m EXCEPT !.acc = m.d], m.d, TRUE)
    [] op = "XBA" -> SET_NEG_ZERO([m EXCEPT !.acc = 256 * Lo(@) + Hi(@)], Hi(m.acc), FALSE)
    [] op = "INX" -> SET_INDEX_REG(m, "x", m.x + 1)
    [] op = "INY" -> SET_INDEX_REG(m, "y", m.y + 1)
    [] op = "DEX" -> SET_INDEX_REG(m, "x", m.x - 1)
    [] op = "DEY" -> SET_INDEX_REG(m, "y", m.y - 1)
Transfers == {"TAX", "TAY", "TXY", "TYX", "TSX", "TXA", "TYA", "TXS", "TCS", "TSC",
              "TCD", "TDC", "XBA", "INX", "INY", "DEX", "DEY"}

PushReg(m, v, wide) == IF wide THEN PUSH16(m, v) ELSE PUSH8(m, v)
Push(m, op, mode) ==
  CASE op = "PHP" -> LET n == MergeNZ(m) IN PUSH8(n, Byte(n.psr))
    [] op = "PHA" -> PushReg(m, m.acc, Wide(m))
    [] op = "PHX" -> PushReg(m, m.x, WideIndex(m))
    [] op = "PHY" -> PushReg(m, m.y, WideIndex(m))
    [] op = "PHB" -> PUSH8(m, m.dbank)
    [] op = "PHK" -> PUSH8(m, m.kpc \div 65536)
    [] op = "PHD" -> PUSH16_UNSAFE(m, m.d)
    [] op = "PEA" -> PUSH16_UNSAFE(m, Arg2(m))
    [] op = "PER" -> PUSH16_UNSAFE(m, m.kpc + Arg2(m))
    [] op = "PEI" -> PUSH16_UNSAFE(m, get_memory16(m, Address(m, mode), TRUE))
Pushes == {"PHP", "PHA", "PHX", "PHY", "PHB", "PHK", "PHD", "PEA", "PER", "PEI"}

PullReg(m, wide) ==
  LET n == IF wide THEN PULL16(m) ELSE PULL8(m) IN SET_NEG_ZERO(n, n.arg, wide)
Pull(m, op) ==
  CASE op = "PLP" -> LET n == PULL8(m)
                         psr == FlagsOf(n.arg) \union (m.psr \ Flags)
                     IN  UPDATE_PSR(LoadNZ([n EXCEPT !.psr = psr]), m.psr)
    [] op = "PLA" -> LET n == PullReg(m, Wide(m))
                     IN  [n EXCEPT !.acc = (@ - (@ % Top(m))) + n.arg]
    [] op = "PLX" -> LET n == PullReg(m, WideIndex(m)) IN [n EXCEPT !.x = n.arg]
    [] op = "PLY" -> LET n == PullReg(m, WideIndex(m)) IN [n EXCEPT !.y = n.arg]
    [] op = "PLB" -> LET n == PULL8_UNSAFE(m)
                     IN  SET_NEG_ZERO([n EXCEPT !.dbank = n.arg], n.arg, FALSE)
    [] op = "PLD" -> LET n == PULL16_UNSAFE(m)
                     IN  SET_NEG_ZERO([n EXCEPT !.d = n.arg], n.arg, TRUE)
Pulls == {"PLP", "PLA", "PLX", "PLY", "PLB", "PLD"}

Status(m, op) ==
  CASE op = "CLC" -> [m EXCEPT !.psr = @ \ {"c"}]
    [] op = "SEC" -> [m EXCEPT !.psr = @ \union {"c"}]
    [] op = "CLD" -> [m EXCEPT !.psr = @ \ {"d"}]
    [] op = "SED" -> [m EXCEPT !.psr = @ \union {"d"}]
    [] op = "CLV" -> [m EXCEPT !.psr = @ \ {"v"}]
    [] op = "SEI" -> [m EXCEPT !.psr = @ \union {"i"}]
    [] op = "CLI" -> [m EXCEPT !.psr = @ \ {"i"},
                               !.ret = IF m.irq_pending THEN "irq" ELSE @]
    [] op = "REP" -> UPDATE_PSR(LoadNZ([m EXCEPT !.psr = Merged(m) \ FlagsOf(Arg1(m))]), m.psr)
    [] op = "SEP" ->
         UPDATE_PSR(LoadNZ([m EXCEPT !.psr = Merged(m) \union FlagsOf(Arg1(m))]), m.psr)
    [] op = "XCE" ->
         UPDATE_PSR([m EXCEPT !.psr = SetFlag(SetFlag(@, "e", "c" \in @), "c", "e" \in @)], m.psr)
Statuses == {"CLC", "SEC", "CLD", "SED", "CLV", "SEI", "CLI", "REP", "SEP", "XCE"}

-------------------------------------------------------------------------------
(* Jumps, from the program counter of the instruction itself                *)
Taken(m, op) ==
  CASE op = "BPL" -> ~m.neg [] op = "BMI" -> m.neg
    [] op = "BVC" -> "v" \notin m.psr [] op = "BVS" -> "v" \in m.psr
    [] op = "BCC" -> "c" \notin m.psr [] op = "BCS" -> "c" \in m.psr
    [] op = "BNE" -> m.nz [] op = "BEQ" -> ~m.nz [] op = "BRA" -> TRUE
Branches == {"BPL", "BMI", "BVC", "BVS", "BCC", "BCS", "BNE", "BEQ", "BRA"}

RTI(m) ==
  LET e == PULL24(m)
      p == PULL8(m)
      n == PULL24(p)
  IN  IF Emul(m)
      THEN UPDATE_PSR(LoadNZ([e EXCEPT !.kpc = Bank(@) + e.arg \div 256,
                                       !.psr = FlagsOf(Lo(e.arg)) \union {"e"}]), m.psr)
      ELSE UPDATE_PSR(LoadNZ([n EXCEPT !.kpc = n.arg, !.psr = FlagsOf(p.arg)]), m.psr)

Jump(m, op) ==
  LET next == INC_KPC(m, 2)
      Here(a) == Bank(m.kpc) + W16(a)
      indexed == Here(m.x + Arg2(m))
  IN  CASE op = "JMP" -> [m EXCEPT !.kpc = Here(Arg2(m))]
        [] op = "JML" -> [m EXCEPT !.kpc = Arg3(m)]
        [] op = "JMP(a)" -> [m EXCEPT !.kpc = Here(get_memory16(m, Arg2(m), TRUE))]
        [] op = "JML(a)" -> [m EXCEPT !.kpc = get_memory24(m, Arg2(m))]
        [] op = "JMP(a,x)" -> [m EXCEPT !.kpc = Here(get_memory16(m, indexed, TRUE))]
        [] op = "BRL" -> [m EXCEPT !.kpc = Here(@ + 3 + Arg2(m))]
        [] op = "JSR" -> [PUSH16(next, W16(next.kpc)) EXCEPT !.kpc = Here(Arg2(m))]
        [] op = "JSR(a,x)" -> [PUSH16_UNSAFE(next, W16(next.kpc))
                                 EXCEPT !.kpc = Here(get_memory16(m, indexed, TRUE))]
        [] op = "JSL" -> [PUSH24_UNSAFE(next, InBank(next.kpc, 1)) EXCEPT !.kpc = Arg3(m)]
        [] op = "RTS" -> LET n == PULL16(m) IN [n EXCEPT !.kpc = Here(n.arg + 1)]
        [] op = "RTL" -> LET n == PULL24_UNSAFE(m) IN [n EXCEPT !.kpc = InBank(n.arg, 1)]
        [] op = "RTI" -> RTI(m)
Jumps == {"JMP", "JML", "JMP(a)", "JML(a)", "JMP(a,x)", "BRL", "JSR", "JSR(a,x)",
          "JSL", "RTS", "RTL", "RTI"}

(* Vectors: the ROM's, or bank 0's when I/O shadowing is off or on a IIe.   *)
moremem_fix_vector_pull(m, a) == IF m.low_vectors THEN W16(a) ELSE a

(* What BRK, COP and an interrupt push, bits being the status register      *)
PushState(m, bits) ==
  LET bank == IF Emul(m) THEN m ELSE PUSH8(m, m.kpc \div 65536)
  IN  PUSH8(PUSH16(bank, W16(m.kpc)), bits)
Vector(m, a) ==
  [m EXCEPT !.kpc = get_memory16(m, moremem_fix_vector_pull(m, a), FALSE),
            !.psr = (@ \union {"i"}) \ {"d"}]

SoftTrap(m, emul_vector, native_vector) ==
  LET n == MergeNZ(INC_KPC(m, 2))
      pushed == PushState(n, Byte(n.psr))
  IN  IF Emul(m) THEN Vector([pushed EXCEPT !.dbank = 0], emul_vector)
      ELSE Vector(pushed, native_vector)
BRK(m) == [SoftTrap(m, 16777214, 16777190) EXCEPT !.halt = @ \/ ~Emul(m)]
COP(m) == [SoftTrap(m, 16777204, 16777188) EXCEPT !.halt = @ \/ Emul(m)]

(* Main loop: the engine has returned, and what it keeps has N and Z in it. *)
take_irq(m) ==
  LET n == MergeNZ(IF m.wait THEN INC_KPC(m, 1) ELSE m)
      bits == Byte(IF Emul(m) THEN n.psr \ {"x"} ELSE n.psr)
  IN  Vector([PushState(n, bits) EXCEPT !.wait = FALSE],
             IF Emul(m) THEN 16777214 ELSE 16777198)

(* MVN and MVP move one byte, and advance when it was the last.             *)
BlockMove(m, step) ==
  LET from == 65536 * m.ops[2] + m.x
      to == 65536 * m.ops[1] + m.y
      Step(v) == IF WideIndex(m) THEN W16(v + step) ELSE Lo(v + step)
      moved == [SET_MEMORY8(m, to, At(m, from)) EXCEPT
                  !.dbank = m.ops[1], !.x = Step(@), !.y = Step(@), !.acc = W16(@ - 1)]
  IN  IF Emul(m) THEN [m EXCEPT !.halt = TRUE]
      ELSE IF m.acc = 0 THEN INC_KPC(moved, 3) ELSE moved

Waits(m, op) ==
  CASE op = "WAI" -> IF m.irq_pending THEN [INC_KPC(m, 1) EXCEPT !.wait = FALSE]
                     ELSE [m EXCEPT !.wait = TRUE]
    [] op = "STP" -> [m EXCEPT !.ret = "stp"]
    [] op = "WDM" -> [INC_KPC(m, IF m.ops[2] = 0 THEN 3 ELSE 2) EXCEPT !.ret = "wdm"]

-------------------------------------------------------------------------------
Computes == {"ORA", "AND", "EOR", "ADC", "SBC", "LDA", "CMP", "BIT"}
Compute(m, op, mode) ==
  CASE op = "ORA" -> ORA_INST(m) [] op = "AND" -> AND_INST(m)
    [] op = "EOR" -> EOR_INST(m) [] op = "ADC" -> ADC_INST(m)
    [] op = "SBC" -> SBC_INST(m) [] op = "LDA" -> LDA_INST(m)
    [] op = "CMP" -> CMP_INST(m)
    [] op = "BIT" -> IF mode = "immM" THEN BitImmediate(m) ELSE BIT_INST(m)

Indexes == {"LDX", "LDY", "CPX", "CPY", "STX", "STY"}
IndexInst(m, op, mode) ==
  LET n == IndexRead(m, mode)
  IN  CASE op = "LDX" -> SET_INDEX_REG(n, "x", n.arg)
        [] op = "LDY" -> SET_INDEX_REG(n, "y", n.arg)
        [] op = "CPX" -> CP_INDEX_VAL(n, n.x) [] op = "CPY" -> CP_INDEX_VAL(n, n.y)
        [] op = "STX" -> STX_INST(m, mode) [] op = "STY" -> STY_INST(m, mode)

Shifts == {"ASL", "ROL", "LSR", "ROR", "INC", "DEC"}

Execute(m, op, mode) ==
  LET n == INC_KPC(m, Length(m, mode))
  IN  CASE op \in Computes -> Compute(GET_RD(n, mode), op, mode)
        [] op \in Shifts -> IF mode = "acc" THEN ShiftAcc(n, op)
                            ELSE ShiftMemory(GET_MEM_RMW(GET_RD(n, mode)), op, mode)
        [] op = "TSB" -> TSB_INST(GET_MEM_RMW(GET_RD(n, mode)), mode)
        [] op = "TRB" -> TRB_INST(GET_MEM_RMW(GET_RD(n, mode)), mode)
        [] op = "STA" -> STA_INST(n, mode)
        [] op = "STZ" -> STZ_INST(n, mode)
        [] op \in Indexes -> IndexInst(n, op, mode)
        [] op \in Transfers -> Transfer(n, op)
        [] op \in Pushes -> Push(n, op, mode)
        [] op \in Pulls -> Pull(n, op)
        [] op \in Statuses -> Status(n, op)
        [] op \in Branches -> BRANCH_DISP8(m, Taken(m, op))
        [] op \in Jumps -> Jump(m, op)
        [] op = "BRK" -> BRK(m) [] op = "COP" -> COP(m)
        [] op = "MVN" -> BlockMove(m, 1) [] op = "MVP" -> BlockMove(m, -1)
        [] op \in {"WAI", "STP", "WDM"} -> Waits(m, op)
        [] op = "NOP" -> n

Run(m, code, ops) ==
  LET oc == Opcode(code[1])
  IN  [Execute([m EXCEPT !.ops = ops, !.ret = "none"], oc[1], oc[2]) EXCEPT
         !.arg = 0, !.latch = 0, !.ops = <<0, 0, 0>>]

Init == /\ cpu \in Starts
        /\ was = [m |-> cpu, op |-> "start", code |-> <<0, 0, 0, 0>>]

Step(code) ==
  /\ cpu.ret # "stp"
  /\ cpu.wait => Opcode(code[1])[1] = "WAI"
  /\ cpu' = [Run(cpu, code, FETCH_OPCODE(cpu, code)) EXCEPT !.steps = @ - 1]
  /\ was' = [m |-> cpu, op |-> Opcode(code[1])[1], code |-> code]

Interrupt ==
  /\ cpu.ret # "stp"
  /\ "i" \notin cpu.psr
  /\ Codes[cpu.steps] # {}
  /\ cpu' = [take_irq(cpu) EXCEPT !.steps = @ - 1, !.ret = "none"]
  /\ was' = [m |-> cpu, op |-> "IRQ", code |-> <<0, 0, 0, 0>>]

Next == (\E code \in Codes[cpu.steps] : Step(code)) \/ Interrupt
Spec == Init /\ [][Next]_vars

-------------------------------------------------------------------------------
(* Properties                                                               *)
(* instable.h against size_c.h: an instruction whose operands were read     *)
(* apart, at a page's end or from I/O, does what it does when they are read *)
(* in place.                                                                *)
FetchesAgree ==
  was.op \notin {"start", "IRQ"} =>
    cpu = [Run(was.m, was.code, get_remaining_operands(was.m, was.code))
             EXCEPT !.steps = was.m.steps - 1]

(* The way back: what an instruction that comes after a call, a trap, an    *)
(* interrupt or a push undoes.                                              *)
Pair == [JSR |-> "RTS", JSL |-> "RTL", BRK |-> "RTI", COP |-> "RTI", IRQ |-> "RTI",
         PHA |-> "PLA", PHX |-> "PLX", PHY |-> "PLY", PHP |-> "PLP", PHB |-> "PLB",
         PHD |-> "PLD"]
Old6502 == {"JSR", "BRK", "COP", "IRQ", "PHA", "PHX", "PHY", "PHP"}
Return(m, call) ==
  CASE call = "JSR" -> InBank(m.kpc, 3) [] call = "JSL" -> InBank(m.kpc, 4)
    [] call \in {"BRK", "COP"} -> InBank(m.kpc, 2)
    [] call = "IRQ" -> IF m.wait THEN InBank(m.kpc, 1) ELSE m.kpc
Restored(m, call, back) ==
  /\ back.s = m.s
  /\ call \in {"JSR", "JSL", "BRK", "COP", "IRQ"} => back.kpc = Return(m, call)
  /\ call \in {"BRK", "COP", "IRQ", "PHP"} => Merged(back) = Merged(m)
  /\ call = "PHA" => back.acc = m.acc
  /\ call = "PHX" => back.x = m.x
  /\ call = "PHY" => back.y = m.y
  /\ call = "PHB" => back.dbank = m.dbank
  /\ call = "PHD" => back.d = m.d

(* Pushes and pulls: a return undoes the call, trap or interrupt it         *)
(* follows, flags included, and a pull the push, wherever the stack is: at  *)
(* a page's end, at the end of the bank, in either mode.  Instructions the  *)
(* 6502 lacked leave page 1 in emulation mode, and so do not come back when *)
(* they start within two bytes of its start; nor does an interrupt that     *)
(* left a bank other than 0 in that mode.                                   *)
ReturnsMatch ==
  [][/\ was.op \in DOMAIN Pair
     /\ was'.op = Pair[was.op]
     /\ Emul(was.m) => /\ was.op \in Old6502 \/ Lo(was.m.s) > 2
                       /\ Pair[was.op] = "RTI" => Bank(was.m.kpc) = 0
     => Restored(was.m, was.op, cpu')]_vars

Signed(v, top) == IF v >= top \div 2 THEN v - top ELSE v
IsBcd(v) == \A n \in 0..3 : (v \div 16^n) % 16 < 10
FromBcd(v) == (v % 16) + 10 * ((v \div 16) % 16) + 100 * ((v \div 256) % 16)
                + 1000 * (v \div 4096)

(* do_adc_sbc8 and do_adc_sbc16: addition and subtraction of an immediate   *)
(* give the sum and the carry that arithmetic gives, of binary numbers and, *)
(* in decimal mode, of decimal ones; N and Z say what the sum is, and V,    *)
(* in binary, that its sign is wrong.                                       *)
SumsRight ==
  [][was'.op \in {"ADC", "SBC"} /\ was'.code[1] \in {105, 233} =>
       LET wide == Wide(cpu)
           in1 == Acc(cpu)
           in2 == IF wide THEN was'.code[2] + 256 * was'.code[3] ELSE was'.code[2]
           out == Acc(cpu')
           c == IF "c" \in cpu.psr THEN 1 ELSE 0
           Sum(a, b) == IF was'.op = "ADC" THEN a + b + c ELSE a - b - (1 - c)
           decimal == "d" \in cpu.psr
           top == IF decimal THEN IF wide THEN 10000 ELSE 100 ELSE Top(cpu)
           Value(v) == IF decimal THEN FromBcd(v) ELSE v
           sum == Sum(Value(in1), Value(in2))
           signed == Sum(Signed(in1, top), Signed(in2, top))
       IN  (decimal => IsBcd(in1) /\ IsBcd(in2)) =>
             /\ Value(out) = sum % top
             /\ ("c" \in cpu'.psr) = IF was'.op = "ADC" THEN sum >= top ELSE sum >= 0
             /\ cpu'.neg = (out >= Top(cpu) \div 2) /\ cpu'.nz = (out # 0)
             /\ ~decimal => ("v" \in cpu'.psr) = (Signed(out, top) # signed)]_vars
===============================================================================
