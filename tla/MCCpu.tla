--------------------------------- MODULE MCCpu ---------------------------------
(* Three kinds of starts: at the ends of pages and banks, from which any    *)
(* instruction runs and then one that returns or pulls; accumulators at the *)
(* ends of their ranges, for additions; and every mode, for a run of the    *)
(* instructions that change modes and the stack.                            *)
EXTENDS Cpu

MemoryByte(a) == (7 * a + 3) % 256

Base == [kpc |-> 4096, acc |-> 33023, x |-> 200, y |-> 255, s |-> 511, d |-> 0,
         dbank |-> 1, psr |-> {"e", "m", "x", "i"}, neg |-> TRUE, nz |-> TRUE,
         mem |-> [a \in {} |-> 0], arg |-> 0, latch |-> 0, ops |-> <<0, 0, 0>>,
         ret |-> "none", irq_pending |-> FALSE, wait |-> FALSE, halt |-> FALSE,
         low_vectors |-> FALSE, steps |-> 2]

Native == SUBSET {"m", "x"}
Wider(m) == [m EXCEPT !.x = IF WideIndex(m) THEN 65535 ELSE @]

EdgeStarts ==
  {[Base EXCEPT !.s = s, !.kpc = k, !.d = IF k = 4096 THEN 0 ELSE 511, !.acc = (k * 3) % 65536,
                !.psr = IF k = 4096 THEN @ ELSE @ \ {"i"}, !.low_vectors = (s = 256)]
     : s \in {256, 257, 510, 511}, k \in {4096, 65533}}
  \union
  {Wider([Base EXCEPT !.s = s, !.kpc = k, !.d = IF k = 4096 THEN 65280 ELSE 511,
                      !.psr = mode \union {"c"}, !.irq_pending = (s = 1)])
     : s \in {0, 1, 509, 65534}, k \in {4096, 2162685}, mode \in Native}

Sums8 == {0, 1, 9, 16, 25, 73, 80, 127, 128, 153, 255}
Sums16 == {0, 1, 2457, 20480, 32767, 32768, 39321, 65535}
SumStarts ==
  {[Base EXCEPT !.acc = 43520 + a, !.psr = @ \union more, !.steps = 12]
     : a \in Sums8, more \in SUBSET {"c", "d"}}
  \union
  {[Base EXCEPT !.acc = a, !.psr = more, !.steps = 12]
     : a \in Sums16, more \in SUBSET {"c", "d"}}
SumCodes == {<<op, b, 0, 0>> : op \in {105, 233}, b \in 0..255}
            \union {<<op, v % 256, v \div 256, 0>> : op \in {105, 233}, v \in Sums16}

ModeStarts ==
  {[Base EXCEPT !.steps = 9, !.irq_pending = p] : p \in BOOLEAN}
  \union {Wider([Base EXCEPT !.psr = mode, !.s = 65534, !.steps = 9]) : mode \in Native}

(* CLC SEC XCE, REP and SEP of the widths and of I, PLP, RTI, TCS, TXS,     *)
(* LDX #, INY, PHD, PLB, PLD, MVN and WAI                                   *)
ModeCodes == {<<op, 1, 255, 0>> : op \in {24, 56, 251, 40, 64, 27, 154, 162, 200, 11, 171,
                                         43, 84, 203}}
             \union {<<op, b, 0, 0>> : op \in {194, 226}, b \in {16, 52}}

AllStarts == EdgeStarts \union SumStarts \union ModeStarts
AllCodes ==
  [n \in 0..12 |->
     CASE n = 2 -> {<<op, b, 255 - b, 129>> : op \in 0..255, b \in {4, 254}}
       [] n = 1 -> {<<op, 0, 0, 0>> : op \in {96, 107, 64, 104, 250, 122, 40, 171, 43, 203}}
       [] n = 12 -> SumCodes
       [] n \in 7..9 -> ModeCodes
       [] OTHER -> {}]
===============================================================================
