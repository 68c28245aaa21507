------------------------------- MODULE AdbProofs -------------------------------
(* What holds of the ADB for every session.                                   *)
(*                                                                            *)
(* That its interrupts are always explained. The invariant is BusInv, what    *)
(* IrqsExplained says of the state together with what the controller's        *)
(* registers have to be for a step to keep it: the keyboard's register 3 lets *)
(* it ask for service in every state. The controller is a record of forty-    *)
(* eight fields, of which an operator writes a few, so for every operator     *)
(* there is a lemma that says which fields it writes, or that BusInv goes     *)
(* from its argument to its result; what writes none of BusFields keeps       *)
(* BusInv by BusKept.                                                         *)
(*                                                                            *)
(* That the latch at $C000 implements KeyFifo. With LatchInv, that at most    *)
(* seven keys wait and each has its strobe, every step of the controller      *)
(* leaves them alone (Keeps) or is one of KeyFifo's actions (Step).           *)
(*                                                                            *)
(* That the character that came with a key is the one that gets into the      *)
(* latch, by what the table of keys is.                                       *)
(*                                                                            *)
(* That no key stays down. With HeldInv, every key that is down is behind one *)
(* that the host holds, and the code noted for that one is the code it went   *)
(* down with; most steps are Idle, they leave the keys down as they are.      *)
EXTENDS Adb, SequenceTheorems, FiniteSetTheorems, TLAPS

Fields == DOMAIN adb_init

LEMMA FieldsAre ==
  Fields = {"state", "cmd", "cmd_data", "data", "interrupt_byte", "c027", "irqs", "mode",
            "kbd_dev", "kbd_ctl", "mouse_dev", "mouse_ctl", "kbd_reg0", "kbd_reg3", "memory",
            "halt_on_all_c027", "halted", "c025", "key_down", "hard_key_down", "a2code_down",
            "read_no_update", "kbd_buf", "chars_buffered", "paste_buf", "paste_rd", "paste_last",
            "repeat_left", "repeat_delay", "repeat_rate", "keys_down", "a2codes", "keypad_down",
            "panel", "warp", "hide", "unhide", "speed", "focus", "toggles",
            "a2_x", "a2_y", "a2_button", "fifo", "raw_x", "raw_y", "valid_data", "coord"}
BY DEF Fields, adb_init

(* A record with these fields, whatever they hold.                            *)
Whole(a) == DOMAIN a = Fields

(* t is a with nothing but the fields of W changed.                         *)
Writes(a, t, W) == Whole(t) /\ \A f \in Fields \ W : t[f] = a[f]

LEMMA WritesNothing ==
  ASSUME NEW a, Whole(a)
  PROVE  Writes(a, a, {})
BY DEF Writes

LEMMA WritesMore ==
  ASSUME NEW a, NEW t, NEW W, NEW X, Writes(a, t, W), W \subseteq X
  PROVE  Writes(a, t, X)
BY DEF Writes

LEMMA WritesAfter ==
  ASSUME NEW a, NEW t, NEW u, NEW W, Writes(a, t, W), Writes(t, u, W)
  PROVE  Writes(a, u, W)
BY DEF Writes

-------------------------------------------------------------------------------
(* The bus: what is queued for the program, what it is told and interrupted   *)
(* for.                                                                       *)
BusFields == {"irqs", "interrupt_byte", "c027", "data", "cmd_data", "kbd_reg0",
              "kbd_reg3", "valid_data"}

LEMMA BusFieldsAre == BusFields \subseteq Fields
BY FieldsAre DEF BusFields

IsSeq(s) == \E S : s \in Seq(S)

(* Bit 9 of the keyboard's register 3, which lets it ask for service, stays.  *)
MayAsk(reg3) == \E to \in Nat : reg3 = (to * 4096) + 1538

BusTyped(a) ==
  /\ Whole(a)
  /\ IsSeq(a.kbd_reg0)
  /\ a.cmd_data \in Seq(Byte)
  /\ MayAsk(a.kbd_reg3)

Asks(a) ==
  /\ (a.kbd_reg0 # << >>) <=> ("srq" \in a.irqs)
  /\ "srq" \in a.irqs => SRQ \in a.interrupt_byte
Answers(a) ==
  "data" \in a.irqs => DATA_INT \in a.c027 /\ (a.data # << >> \/ a.interrupt_byte # {})
Points(a) == "mouse" \in a.irqs => MOUSE_INT \in a.c027 /\ a.valid_data

BusInv(a) == BusTyped(a) /\ Asks(a) /\ Answers(a) /\ Points(a)

LEMMA BusWhole == ASSUME NEW a, BusInv(a) PROVE Whole(a)
BY DEF BusInv, BusTyped

(* The fields of the bus an operator leaves alone.                          *)
LEMMA BusSame ==
  ASSUME NEW a, NEW t, NEW W, Writes(a, t, W)
  PROVE  /\ "irqs" \notin W => t.irqs = a.irqs
         /\ "interrupt_byte" \notin W => t.interrupt_byte = a.interrupt_byte
         /\ "c027" \notin W => t.c027 = a.c027
         /\ "data" \notin W => t.data = a.data
         /\ "cmd_data" \notin W => t.cmd_data = a.cmd_data
         /\ "kbd_reg0" \notin W => t.kbd_reg0 = a.kbd_reg0
         /\ "kbd_reg3" \notin W => t.kbd_reg3 = a.kbd_reg3
         /\ "valid_data" \notin W => t.valid_data = a.valid_data
         /\ Whole(t)
BY BusFieldsAre DEF BusFields, Writes

(* What leaves the bus alone.                                               *)
LEMMA BusKept ==
  ASSUME NEW a, BusInv(a), NEW t, NEW W, Writes(a, t, W), W \intersect BusFields = {}
  PROVE  BusInv(t)
<1>1. /\ t.irqs = a.irqs /\ t.interrupt_byte = a.interrupt_byte /\ t.c027 = a.c027
      /\ t.data = a.data /\ t.cmd_data = a.cmd_data /\ t.kbd_reg0 = a.kbd_reg0
      /\ t.kbd_reg3 = a.kbd_reg3 /\ t.valid_data = a.valid_data /\ Whole(t)
  BY BusSame DEF BusFields
<1> QED
  BY <1>1 DEF BusInv, BusTyped, Asks, Answers, Points

(* What leaves the keys that wait, and the request for them, alone.         *)
LEMMA BusAnswers ==
  ASSUME NEW a, BusInv(a), NEW t, Whole(t), t.kbd_reg0 = a.kbd_reg0,
         t.cmd_data = a.cmd_data, t.kbd_reg3 = a.kbd_reg3,
         "srq" \in t.irqs <=> "srq" \in a.irqs,
         SRQ \in a.interrupt_byte => SRQ \in t.interrupt_byte,
         Answers(t), Points(t)
  PROVE  BusInv(t)
<1>1. BusTyped(t)
  BY DEF BusInv, BusTyped
<1>2. Asks(t)
  BY DEF BusInv, Asks
<1> QED
  BY <1>1, <1>2 DEF BusInv

LEMMA HaltWrites == ASSUME NEW a, Whole(a) PROVE Writes(a, Halt(a), {"halted"})
BY DEF Halt, Writes, Whole

LEMMA HaltBus == ASSUME NEW a, BusInv(a) PROVE BusInv(Halt(a))
BY HaltWrites, BusWhole, BusKept DEF BusFields

(* Whether an interrupt is raised, and with something behind it.            *)
LEMMA DataIntFacts ==
  ASSUME NEW a, Whole(a)
  PROVE  /\ Writes(a, adb_add_data_int(a), {"irqs"})
         /\ adb_add_data_int(a).irqs =
              IF DATA_INT \in a.c027 THEN a.irqs \union {"data"} ELSE a.irqs
<1>1. Writes(a, adb_add_data_int(a), {"irqs"})
  BY DEF adb_add_data_int, Writes, Whole
<1> QED
  BY <1>1, BusFieldsAre DEF adb_add_data_int, BusFields, Whole

LEMMA DataIntBus ==
  ASSUME NEW a, BusInv(a), a.data # << >> \/ a.interrupt_byte # {}
  PROVE  BusInv(adb_add_data_int(a))
<1> SUFFICES ASSUME NEW t, t = adb_add_data_int(a) PROVE BusInv(t)
  OBVIOUS
<1>1. /\ Writes(a, t, {"irqs"})
      /\ t.irqs = IF DATA_INT \in a.c027 THEN a.irqs \union {"data"} ELSE a.irqs
  BY BusWhole, DataIntFacts
<1>2. /\ t.interrupt_byte = a.interrupt_byte /\ t.c027 = a.c027
      /\ t.data = a.data /\ t.cmd_data = a.cmd_data /\ t.kbd_reg0 = a.kbd_reg0
      /\ t.kbd_reg3 = a.kbd_reg3 /\ t.valid_data = a.valid_data /\ Whole(t)
  BY ONLY <1>1, BusSame
<1>3. Answers(t) /\ Points(t)
  BY <1>1, <1>2 DEF BusInv, Answers, Points
<1> QED
  BY <1>1, <1>2, <1>3, BusAnswers

LEMMA MouseIntBus ==
  ASSUME NEW a, BusInv(a), a.valid_data
  PROVE  BusInv(adb_add_mouse_int(a))
<1> SUFFICES ASSUME NEW t, t = adb_add_mouse_int(a) PROVE BusInv(t)
  OBVIOUS
<1>1. Whole(a)
  BY BusWhole
<1>2. Writes(a, t, {"irqs"})
  BY <1>1 DEF adb_add_mouse_int, Writes, Whole
<1>3. t.irqs = IF MOUSE_INT \in a.c027 THEN a.irqs \union {"mouse"} ELSE a.irqs
  BY <1>1, BusFieldsAre DEF adb_add_mouse_int, BusFields, Whole
<1>4. /\ t.interrupt_byte = a.interrupt_byte /\ t.c027 = a.c027
      /\ t.data = a.data /\ t.cmd_data = a.cmd_data /\ t.kbd_reg0 = a.kbd_reg0
      /\ t.kbd_reg3 = a.kbd_reg3 /\ t.valid_data = a.valid_data /\ Whole(t)
  BY ONLY <1>2, BusSame
<1>5. Answers(t) /\ Points(t)
  BY <1>3, <1>4 DEF BusInv, Answers, Points
<1> QED
  BY <1>3, <1>4, <1>5, BusAnswers

(* An interrupt that is taken back needs nothing behind it.                 *)
LEMMA ClearsBus ==
  ASSUME NEW a, BusInv(a)
  PROVE  BusInv(adb_clear_data_int(a)) /\ BusInv(adb_clear_mouse_int(a))
<1>1. Whole(a)
  BY BusWhole
<1>2. ASSUME NEW v \in {"data", "mouse"}, NEW t, t = [a EXCEPT !.irqs = @ \ {v}]
      PROVE  BusInv(t)
  <2>1. Writes(a, t, {"irqs"})
    BY <1>1, <1>2 DEF Writes, Whole
  <2>2. t.irqs = a.irqs \ {v}
    BY <1>1, <1>2, BusFieldsAre DEF BusFields, Whole
  <2>3. /\ t.interrupt_byte = a.interrupt_byte /\ t.c027 = a.c027
        /\ t.data = a.data /\ t.cmd_data = a.cmd_data /\ t.kbd_reg0 = a.kbd_reg0
        /\ t.kbd_reg3 = a.kbd_reg3 /\ t.valid_data = a.valid_data /\ Whole(t)
    BY ONLY <2>1, BusSame
  <2>4. Answers(t) /\ Points(t)
    BY <2>2, <2>3 DEF BusInv, Answers, Points
  <2> QED
    BY <2>2, <2>3, <2>4, BusAnswers
<1> QED
  BY <1>2 DEF adb_clear_data_int, adb_clear_mouse_int

(* A reset forgets all that was to be told.                                 *)
LEMMA ResetBus ==
  ASSUME NEW a, BusInv(a)
  PROVE  BusInv(adb_reset(a))
<1> SUFFICES ASSUME NEW t, t = adb_reset(a) PROVE BusInv(t)
  OBVIOUS
<1>0. Whole(a)
  BY BusWhole
<1>1. a.cmd_data \in Seq(Byte)
  BY DEF BusInv, BusTyped
<1>2. Whole(t)
  BY <1>0, ZenonT(60) DEF adb_reset, Whole
<1>3. /\ t.irqs = {} /\ t.kbd_reg0 = << >> /\ t.kbd_reg3 = 1538
      /\ t.cmd_data = a.cmd_data
  <2>1. t.irqs = {} /\ t.kbd_reg0 = << >>
    BY <1>0, BusFieldsAre DEF adb_reset, BusFields, Whole
  <2>2. t.kbd_reg3 = 1538
    BY <1>0, BusFieldsAre DEF adb_reset, BusFields, Whole
  <2>3. t.cmd_data = a.cmd_data
    BY <1>0, BusFieldsAre DEF adb_reset, BusFields, Whole
  <2> QED
    BY <2>1, <2>2, <2>3
<1>4. IsSeq(t.kbd_reg0)
  <2>1. << >> \in Seq({})
    OBVIOUS
  <2> QED
    BY <1>3, <2>1 DEF IsSeq
<1>5. MayAsk(t.kbd_reg3)
  <2>1. 0 \in Nat /\ 1538 = (0 * 4096) + 1538
    OBVIOUS
  <2> QED
    BY <1>3, <2>1 DEF MayAsk
<1>6. BusTyped(t)
  BY <1>1, <1>2, <1>3, <1>4, <1>5 DEF BusTyped
<1> QED
  BY <1>3, <1>6 DEF BusInv, Asks, Answers, Points

(* An answer is something to read.                                          *)
LEMMA SendBus ==
  ASSUME NEW a, BusInv(a), NEW bytes, bytes # << >>
  PROVE  BusInv(adb_send_bytes(a, bytes))
<1> DEFINE t == [a EXCEPT !.state = "sending", !.data = bytes]
<1>1. Whole(a)
  BY BusWhole
<1>2. Writes(a, t, {"state", "data"})
  BY <1>1 DEF Writes, Whole
<1>3. t.data = bytes
  BY <1>1, BusFieldsAre DEF BusFields, Whole
<1>4. adb_send_bytes(a, bytes) = adb_add_data_int(t)
  BY DEF adb_send_bytes
<1> HIDE DEF t
<1>5. /\ t.irqs = a.irqs /\ t.interrupt_byte = a.interrupt_byte /\ t.c027 = a.c027
      /\ t.cmd_data = a.cmd_data /\ t.kbd_reg0 = a.kbd_reg0
      /\ t.kbd_reg3 = a.kbd_reg3 /\ t.valid_data = a.valid_data /\ Whole(t)
  BY ONLY <1>2, BusSame
<1>6. Answers(t) /\ Points(t)
  BY <1>3, <1>5 DEF BusInv, Answers, Points
<1>7. BusInv(t)
  BY <1>5, <1>6, BusAnswers
<1> QED
  BY <1>3, <1>4, <1>7, DataIntBus

LEMMA Send1Bus ==
  ASSUME NEW a, BusInv(a), NEW byte
  PROVE  BusInv(adb_send_1byte(a, byte))
<1>1. <<byte>> # << >>
  OBVIOUS
<1>2. BusInv(IF a.data = << >> THEN a ELSE Halt(a))
  BY HaltBus
<1> QED
  BY <1>1, <1>2, SendBus DEF adb_send_1byte

(* A packet is announced in the interrupt byte, which goes on telling of the  *)
(* keys that wait.  The keys themselves may just have been taken.             *)
LEMMA PacketFacts ==
  ASSUME NEW a, BusTyped(a), Answers(a), Points(a), NEW bytes,
         NEW t, t = adb_response_packet(a, bytes)
  PROVE  /\ BusTyped(t) /\ Answers(t) /\ Points(t)
         /\ t.kbd_reg0 = a.kbd_reg0
         /\ "srq" \in t.irqs <=> "srq" \in a.irqs
         /\ RESPONSE \in t.interrupt_byte
         /\ SRQ \in a.interrupt_byte => SRQ \in t.interrupt_byte
<1>0. Whole(a)
  BY DEF BusTyped
<1> DEFINE before == IF a.data = << >> THEN a ELSE Halt(a)
           told == {RESPONSE} \union (IF Len(bytes) > 0 THEN Bits(Len(bytes) - 1) ELSE {})
<1>1. PICK u : u = [before EXCEPT !.state = "idle", !.data = bytes,
                                  !.interrupt_byte = @ \union told]
  OBVIOUS
<1>2. t = adb_add_data_int(u)
  BY <1>1 DEF adb_response_packet
<1>3. Writes(a, before, {"halted"})
  BY <1>0, HaltWrites, WritesNothing DEF Writes
<1> HIDE DEF before, told
<1>4. Whole(before) /\ before.interrupt_byte = a.interrupt_byte
  BY ONLY <1>3, BusSame
<1>5. Writes(before, u, {"state", "data", "interrupt_byte"})
  BY <1>1, <1>4 DEF Writes, Whole
<1>6. u.interrupt_byte = a.interrupt_byte \union told
  BY <1>1, <1>4, BusFieldsAre DEF BusFields, Whole
<1>7. /\ before.irqs = a.irqs /\ before.c027 = a.c027 /\ before.cmd_data = a.cmd_data
      /\ before.kbd_reg0 = a.kbd_reg0 /\ before.kbd_reg3 = a.kbd_reg3
      /\ before.valid_data = a.valid_data
  BY ONLY <1>3, BusSame
<1>8. /\ u.irqs = before.irqs /\ u.c027 = before.c027 /\ u.cmd_data = before.cmd_data
      /\ u.kbd_reg0 = before.kbd_reg0 /\ u.kbd_reg3 = before.kbd_reg3
      /\ u.valid_data = before.valid_data /\ Whole(u)
  BY ONLY <1>5, BusSame
<1>9. /\ Writes(u, t, {"irqs"})
      /\ t.irqs = IF DATA_INT \in u.c027 THEN u.irqs \union {"data"} ELSE u.irqs
  BY <1>2, <1>8, DataIntFacts
<1>10. /\ t.c027 = u.c027 /\ t.cmd_data = u.cmd_data /\ t.kbd_reg0 = u.kbd_reg0
       /\ t.kbd_reg3 = u.kbd_reg3 /\ t.valid_data = u.valid_data /\ Whole(t)
       /\ t.interrupt_byte = u.interrupt_byte
  BY ONLY <1>9, BusSame
<1>11. RESPONSE \in t.interrupt_byte
  BY <1>6, <1>10 DEF told
<1>12. BusTyped(t)
  BY <1>7, <1>8, <1>10 DEF BusTyped
<1>13. "data" \in t.irqs => "data" \in a.irqs \/ DATA_INT \in t.c027
  BY <1>7, <1>8, <1>9, <1>10
<1>14. "mouse" \in t.irqs <=> "mouse" \in a.irqs
  BY <1>7, <1>8, <1>9
<1>15. "srq" \in t.irqs <=> "srq" \in a.irqs
  BY <1>7, <1>8, <1>9
<1>16. Answers(t)
  BY <1>7, <1>8, <1>10, <1>11, <1>13 DEF Answers
<1>17. Points(t)
  BY <1>7, <1>8, <1>10, <1>14 DEF Points
<1> QED
  BY <1>6, <1>7, <1>8, <1>10, <1>11, <1>12, <1>15, <1>16, <1>17

LEMMA PacketBus ==
  ASSUME NEW a, BusInv(a), NEW bytes
  PROVE  BusInv(adb_response_packet(a, bytes))
<1> SUFFICES ASSUME NEW t, t = adb_response_packet(a, bytes) PROVE BusInv(t)
  OBVIOUS
<1> QED
  BY PacketFacts DEF BusInv, Asks
(* A key that waits asks to be fetched: the keyboard may always ask.        *)
LEMMA AskBit ==
  ASSUME NEW reg3, MayAsk(reg3)
  PROVE  (reg3 \div 512) % 2 = 1
<1>1. PICK to \in Nat : reg3 = (to * 4096) + 1538
  BY DEF MayAsk
<1>2. reg3 = 512 * ((8 * to) + 3) + 2
  BY <1>1
<1>3. reg3 \div 512 = (8 * to) + 3
  BY <1>2
<1>4. ((8 * to) + 3) % 2 = 1
  OBVIOUS
<1> QED
  BY <1>3, <1>4

LEMMA AppendAny ==
  ASSUME NEW s, IsSeq(s), NEW e
  PROVE  IsSeq(Append(s, e)) /\ Append(s, e) # << >>
<1>1. PICK S : s \in Seq(S)
  BY DEF IsSeq
<1>2. s \in Seq(S \union {e}) /\ e \in S \union {e}
  BY <1>1
<1>3. Append(s, e) \in Seq(S \union {e}) /\ Len(Append(s, e)) = Len(s) + 1 /\ Len(s) \in Nat
  BY <1>2, AppendProperties
<1>4. Append(s, e) # << >>
  BY <1>3
<1> QED
  BY <1>3, <1>4 DEF IsSeq

LEMMA KbdReg0Bus ==
  ASSUME NEW a, BusInv(a), NEW a2code, NEW is_up
  PROVE  BusInv(adb_kbd_reg0_data(a, a2code, is_up))
<1>0. Whole(a)
  BY BusWhole
<1> DEFINE key == a2code + (IF is_up THEN 128 ELSE 0)
<1>1. ASSUME NEW u, u = [a EXCEPT !.kbd_reg0 = Append(@, key)],
             NEW t, t = adb_add_kbd_srq(u)
      PROVE  BusInv(t)
  <2>1. Writes(a, u, {"kbd_reg0"})
    BY <1>0, <1>1 DEF Writes, Whole
  <2>2. u.kbd_reg0 = Append(a.kbd_reg0, key)
    BY <1>0, <1>1, BusFieldsAre DEF BusFields, Whole
  <2>3. /\ u.irqs = a.irqs /\ u.interrupt_byte = a.interrupt_byte /\ u.c027 = a.c027
        /\ u.data = a.data /\ u.cmd_data = a.cmd_data
        /\ u.kbd_reg3 = a.kbd_reg3 /\ u.valid_data = a.valid_data /\ Whole(u)
    BY ONLY <2>1, BusSame
  <2>4. (u.kbd_reg3 \div 512) % 2 = 1
    BY <2>3, AskBit DEF BusInv, BusTyped
  <2>5. t = [u EXCEPT !.interrupt_byte = @ \union {SRQ}, !.irqs = @ \union {"srq"}]
    BY <1>1, <2>4 DEF adb_add_kbd_srq
  <2>6. Writes(u, t, {"interrupt_byte", "irqs"})
    BY <2>3, <2>5 DEF Writes, Whole
  <2>7. /\ t.interrupt_byte = u.interrupt_byte \union {SRQ}
        /\ t.irqs = u.irqs \union {"srq"}
    BY <2>3, <2>5, BusFieldsAre DEF BusFields, Whole
  <2>8. /\ t.c027 = u.c027 /\ t.data = u.data /\ t.cmd_data = u.cmd_data
        /\ t.kbd_reg0 = u.kbd_reg0
        /\ t.kbd_reg3 = u.kbd_reg3 /\ t.valid_data = u.valid_data /\ Whole(t)
    BY ONLY <2>6, BusSame
  <2>9. IsSeq(t.kbd_reg0) /\ t.kbd_reg0 # << >>
    BY <2>2, <2>8, AppendAny DEF BusInv, BusTyped
  <2>10. BusTyped(t)
    BY <2>3, <2>8, <2>9 DEF BusInv, BusTyped
  <2>11. Asks(t)
    BY <2>7, <2>9 DEF Asks
  <2>12. Answers(t)
    BY <2>3, <2>7, <2>8 DEF BusInv, Answers
  <2>13. "mouse" \in t.irqs <=> "mouse" \in a.irqs
    BY <2>3, <2>7
  <2>14. Points(t)
    BY <2>3, <2>8, <2>13 DEF BusInv, Points
  <2> QED
    BY <2>10, <2>11, <2>12, <2>14 DEF BusInv
<1> QED
  BY <1>1, HaltBus DEF adb_kbd_reg0_data

(* The keys left behind one answer.                                         *)
LEMMA TalkLeaves ==
  ASSUME NEW reg0, IsSeq(reg0), reg0 # << >>
  PROVE  IsSeq(AfterTalk(reg0, TalkTakes(reg0)))
<1>1. PICK S : reg0 \in Seq(S)
  BY DEF IsSeq
<1>2. TalkTakes(reg0) \in Nat /\ 1 <= TalkTakes(reg0) /\ TalkTakes(reg0) <= Len(reg0)
  BY <1>1 DEF TalkTakes
<1> DEFINE num == TalkTakes(reg0)
<1> HIDE DEF num
<1>3. num \in Nat /\ 1 <= num /\ num <= Len(reg0) /\ Len(reg0) \in Nat
  BY <1>1, <1>2 DEF num
<1>4. \A n \in 1 .. (Len(reg0) - num) : n \in 1 .. Len(reg0) /\ n + 1 \in 1 .. Len(reg0)
  BY <1>3
<1>5. \A n \in 1 .. (Len(reg0) - num) :
        (IF n < num THEN reg0[n] ELSE reg0[n + 1]) \in S
  BY <1>1, <1>4
<1>6. AfterTalk(reg0, num) \in [1 .. (Len(reg0) - num) -> S] /\ Len(reg0) - num \in Nat
  BY <1>3, <1>5 DEF AfterTalk
<1>7. AfterTalk(reg0, num) \in Seq(S)
  BY <1>6
<1> QED
  BY <1>7 DEF IsSeq, num

(* The keys an answer leaves go on asking; the last one ends the request.   *)
LEMMA ClearsSrqBus ==
  ASSUME NEW a, BusTyped(a), Answers(a), Points(a), RESPONSE \in a.interrupt_byte,
         a.kbd_reg0 = << >>
  PROVE  BusInv(adb_clear_kbd_srq(a))
<1> SUFFICES ASSUME NEW t, t = adb_clear_kbd_srq(a) PROVE BusInv(t)
  OBVIOUS
<1>0. Whole(a)
  BY DEF BusTyped
<1>1. Writes(a, t, {"interrupt_byte", "irqs"})
  BY <1>0 DEF adb_clear_kbd_srq, Writes, Whole
<1>2. t.interrupt_byte = a.interrupt_byte \ {SRQ} /\ t.irqs = a.irqs \ {"srq"}
  BY <1>0, BusFieldsAre DEF adb_clear_kbd_srq, BusFields, Whole
<1>3. /\ t.c027 = a.c027 /\ t.data = a.data /\ t.cmd_data = a.cmd_data
      /\ t.kbd_reg0 = a.kbd_reg0
      /\ t.kbd_reg3 = a.kbd_reg3 /\ t.valid_data = a.valid_data /\ Whole(t)
  BY ONLY <1>1, BusSame
<1>4. BusTyped(t)
  BY <1>3 DEF BusTyped
<1>5. Asks(t)
  BY <1>2, <1>3 DEF Asks
<1>6. RESPONSE \in t.interrupt_byte
  BY <1>2 DEF RESPONSE, SRQ
<1>7. Answers(t)
  BY <1>2, <1>3, <1>6 DEF Answers
<1>8. "mouse" \in t.irqs <=> "mouse" \in a.irqs
  BY <1>2
<1>9. Points(t)
  BY <1>3, <1>8 DEF Points
<1> QED
  BY <1>4, <1>5, <1>7, <1>9 DEF BusInv

LEMMA TalkBus ==
  ASSUME NEW a, BusInv(a)
  PROVE  BusInv(adb_kbd_talk_reg0(a))
<1>0. Whole(a)
  BY BusWhole
<1>1. CASE a.kbd_reg0 = << >>
  <2>1. PICK sent : sent = adb_response_packet(a, << >>)
    OBVIOUS
  <2>2. /\ BusTyped(sent) /\ Answers(sent) /\ Points(sent)
        /\ RESPONSE \in sent.interrupt_byte /\ sent.kbd_reg0 = << >>
    BY <1>1, <2>1, PacketFacts DEF BusInv
  <2>3. adb_kbd_talk_reg0(a) = adb_clear_kbd_srq(sent)
    BY <1>1, <2>1, <2>2 DEF adb_kbd_talk_reg0
  <2> QED
    BY <2>2, <2>3, ClearsSrqBus
<1>2. CASE a.kbd_reg0 # << >>
  <2> DEFINE num == TalkTakes(a.kbd_reg0)
             val1 == IF ResetKey(a.kbd_reg0[1]) THEN a.kbd_reg0[1]
                     ELSE IF num = 2 THEN a.kbd_reg0[2] ELSE 255
  <2>1. PICK x : x = [a EXCEPT !.kbd_reg0 = AfterTalk(@, num)]
    OBVIOUS
  <2>2. PICK sent : sent = adb_response_packet(x, <<val1, a.kbd_reg0[1]>>)
    OBVIOUS
  <2>3. adb_kbd_talk_reg0(a) = IF sent.kbd_reg0 = << >>
                               THEN adb_clear_kbd_srq(sent) ELSE sent
    BY <1>2, <2>1, <2>2 DEF adb_kbd_talk_reg0
  <2>4. Writes(a, x, {"kbd_reg0"})
    BY <1>0, <2>1 DEF Writes, Whole
  <2>5. x.kbd_reg0 = AfterTalk(a.kbd_reg0, num)
    BY <1>0, <2>1, BusFieldsAre DEF BusFields, Whole
  <2>6. /\ x.irqs = a.irqs /\ x.interrupt_byte = a.interrupt_byte /\ x.c027 = a.c027
        /\ x.data = a.data /\ x.cmd_data = a.cmd_data
        /\ x.kbd_reg3 = a.kbd_reg3 /\ x.valid_data = a.valid_data /\ Whole(x)
    BY ONLY <2>4, BusSame
  <2>7. BusTyped(x)
    BY <1>2, <2>5, <2>6, TalkLeaves DEF BusInv, BusTyped
  <2>8. Answers(x) /\ Points(x)
    BY <2>6 DEF BusInv, Answers, Points
  <2>9. "srq" \in x.irqs /\ SRQ \in x.interrupt_byte
    BY <1>2, <2>6 DEF BusInv, Asks
  <2> HIDE DEF val1, num
  <2>10. /\ BusTyped(sent) /\ Answers(sent) /\ Points(sent)
         /\ RESPONSE \in sent.interrupt_byte
         /\ "srq" \in sent.irqs /\ SRQ \in sent.interrupt_byte
    BY <2>2, <2>7, <2>8, <2>9, PacketFacts
  <2>11. CASE sent.kbd_reg0 = << >>
    BY <2>3, <2>10, <2>11, ClearsSrqBus
  <2>12. CASE sent.kbd_reg0 # << >>
    BY <2>3, <2>10, <2>12 DEF BusInv, Asks
  <2> QED
    BY <2>11, <2>12
<1> QED
  BY <1>1, <1>2

-------------------------------------------------------------------------------
(* The keyboard: it reaches the bus by the desk manager's call and by the keys *)
(* held back for the program.                                                 *)
LatchFields == {"kbd_buf", "chars_buffered", "key_down", "hard_key_down", "a2code_down",
                "repeat_left", "c025"}

LEMMA LatchIsOff == LatchFields \intersect BusFields = {}
BY DEF LatchFields, BusFields

LEMMA DeskBus ==
  ASSUME NEW a, BusInv(a)
  PROVE  BusInv(adb_add_data_int([a EXCEPT !.interrupt_byte = @ \union {DESK_MGR}]))
<1>0. Whole(a)
  BY BusWhole
<1>1. PICK u : u = [a EXCEPT !.interrupt_byte = @ \union {DESK_MGR}]
  OBVIOUS
<1>2. Writes(a, u, {"interrupt_byte"})
  BY <1>0, <1>1 DEF Writes, Whole
<1>3. u.interrupt_byte = a.interrupt_byte \union {DESK_MGR}
  BY <1>0, <1>1, BusFieldsAre DEF BusFields, Whole
<1>4. /\ u.irqs = a.irqs /\ u.c027 = a.c027 /\ u.data = a.data
      /\ u.cmd_data = a.cmd_data /\ u.kbd_reg0 = a.kbd_reg0
      /\ u.kbd_reg3 = a.kbd_reg3 /\ u.valid_data = a.valid_data /\ Whole(u)
  BY ONLY <1>2, BusSame
<1>5. Answers(u) /\ Points(u)
  BY <1>3, <1>4 DEF BusInv, Answers, Points
<1>6. BusInv(u)
  BY <1>3, <1>4, <1>5, BusAnswers
<1> QED
  BY <1>1, <1>3, <1>6, DataIntBus

LEMMA BufferKeyWrites ==
  ASSUME NEW a, Whole(a), NEW a2code, NEW key
  PROVE  Writes(a, BufferKey(a, a2code, key), LatchFields)
BY DEF BufferKey, Writes, Whole, LatchFields

LEMMA KeyEventBus ==
  ASSUME NEW a, BusInv(a), NEW a2code, NEW is_up
  PROVE  BusInv(adb_key_event(a, a2code, is_up))
<1>0. Whole(a)
  BY BusWhole
<1> DEFINE desk == ~is_up /\ a2code = 53 /\ {CTRL, CMD} \subseteq a.c025
           call == IF desk
                   THEN adb_add_data_int([a EXCEPT !.interrupt_byte = @ \union {DESK_MGR}])
                   ELSE a
           ascii == CharacterOf(a, a2code)
           special == Special(ascii)
           press(called) == IF HasAscii(a2code)
                            THEN BufferKey(called, a2code, (ascii % 128) + 128) ELSE called
           release == IF HasAscii(a2code) /\ a2code = a.a2code_down
                      THEN [a EXCEPT !.hard_key_down = FALSE, !.key_down = FALSE]
                      ELSE a
           change(pressed, released) ==
             IF is_up THEN [released EXCEPT !.c025 = @ \ special]
             ELSE [pressed EXCEPT !.c025 = @ \union special]
           latch(new) ==
             [new EXCEPT !.c025 = IF new.key_down THEN @ \ {LATCH} ELSE @ \union {LATCH}]
<1>1. PICK called : called = call
  OBVIOUS
<1>2. PICK pressed : pressed = press(called)
  OBVIOUS
<1>3. PICK released : released = release
  OBVIOUS
<1>4. PICK new : new = change(pressed, released)
  OBVIOUS
<1>5. adb_key_event(a, a2code, is_up) = latch(new)
  BY <1>1, <1>2, <1>3, <1>4 DEF adb_key_event
<1>6. BusInv(called)
  BY <1>1, DeskBus
<1>7. Whole(called)
  BY <1>6, BusWhole
<1>8. Writes(called, pressed, LatchFields)
  BY <1>2, <1>7, BufferKeyWrites, WritesNothing DEF Writes
<1>9. Writes(a, released, LatchFields)
  BY <1>0, <1>3 DEF Writes, Whole, LatchFields
<1>10. BusInv(pressed) /\ BusInv(released)
  BY <1>6, <1>8, <1>9, BusKept, LatchIsOff
<1>11. Whole(pressed) /\ Whole(released)
  BY <1>10, BusWhole
<1> HIDE DEF special
<1>12. Writes(IF is_up THEN released ELSE pressed, new, LatchFields)
  BY <1>4, <1>11 DEF Writes, Whole, LatchFields
<1>13. BusInv(new)
  BY <1>10, <1>12, BusKept, LatchIsOff
<1>14. Whole(new)
  BY <1>13, BusWhole
<1>15. Writes(new, latch(new), LatchFields)
  BY <1>14 DEF Writes, Whole, LatchFields
<1> HIDE DEF latch
<1> QED
  BY <1>5, <1>13, <1>15, BusKept, LatchIsOff

(* An operator that writes nothing of the bus keeps it; W names what it does. *)
LEMMA VirtualKeyBus ==
  ASSUME NEW a, BusInv(a), NEW a2code, NEW is_up
  PROVE  BusInv(adb_virtual_key_update(a, a2code, is_up))
<1>0. Whole(a)
  BY BusWhole
<1>1. PICK u : u = [a EXCEPT !.keys_down = IF is_up THEN @ \ {a2code}
                                           ELSE @ \union {a2code}]
  OBVIOUS
<1>2. Writes(a, u, {"keys_down"})
  BY <1>0, <1>1 DEF Writes, Whole
<1>3. BusInv(u)
  BY <1>2, BusKept DEF BusFields
<1>4. BusInv(adb_key_event(u, a2code, is_up))
  BY <1>3, KeyEventBus
<1> QED
  BY <1>1, <1>4 DEF adb_virtual_key_update

LEMMA MaybeKeyBus ==
  ASSUME NEW a, BusInv(a), NEW a2code, NEW is_up
  PROVE  BusInv(adb_maybe_virtual_key_update(a, a2code, is_up))
BY VirtualKeyBus, KbdReg0Bus DEF adb_maybe_virtual_key_update

LEMMA PasteStateWrites ==
  ASSUME NEW a, Whole(a)
  PROVE  Writes(a, adb_paste_update_state(a), {"paste_buf", "paste_rd", "kbd_buf", "chars_buffered"})
BY DEF adb_paste_update_state, Writes, Whole

LEMMA PasteBus ==
  ASSUME NEW a, BusInv(a), NEW key
  PROVE  BusInv(adb_paste_add_buf(a, key))
<1>0. Whole(a)
  BY BusWhole
<1>1. PICK noted : noted = [a EXCEPT !.paste_last = key]
  OBVIOUS
<1>2. Writes(a, noted, {"paste_last"})
  BY <1>0, <1>1 DEF Writes, Whole
<1>3. BusInv(noted)
  BY <1>2, BusKept DEF BusFields
<1>4. PICK put : put = [noted EXCEPT !.paste_buf =
                          Append(@, PasteKey(a.paste_last, key) + 128)]
  OBVIOUS
<1>5. Writes(noted, put, {"paste_buf"})
  BY <1>3, <1>4, BusWhole DEF Writes, Whole
<1>6. BusInv(put)
  BY <1>3, <1>5, BusKept DEF BusFields
<1>7. BusInv(adb_paste_update_state(put))
  BY <1>6, BusWhole, BusKept, PasteStateWrites DEF BusFields
<1> QED
  BY <1>1, <1>3, <1>4, <1>7 DEF adb_paste_add_buf

LEMMA C010Bus ==
  ASSUME NEW a, BusInv(a)
  PROVE  BusInv(adb_access_c010(a))
<1>0. Whole(a)
  BY BusWhole
<1> DEFINE n == a.chars_buffered
           W == {"read_no_update", "kbd_buf", "chars_buffered", "paste_buf", "paste_rd", "c025"}
<1>1. PICK dropped : dropped = [a EXCEPT !.read_no_update = 0, !.kbd_buf[0] = @ % 128]
  OBVIOUS
<1>2. PICK moved : moved = [dropped EXCEPT
                  !.kbd_buf = [i \in 0..7 |-> IF i + 1 < n THEN dropped.kbd_buf[i + 1] ELSE @[i]],
                  !.chars_buffered = n - 1]
  OBVIOUS
<1>3. PICK next : next = IF n = 0 THEN dropped
                         ELSE IF n = 1 THEN adb_paste_update_state(moved) ELSE moved
  OBVIOUS
<1>4. adb_access_c010(a) = [next EXCEPT !.c025 = @ \ {REPEAT}]
  BY <1>1, <1>2, <1>3 DEF adb_access_c010
<1>5. Writes(a, dropped, W)
  BY <1>0, <1>1 DEF Writes, Whole
<1>6. Whole(dropped)
  BY <1>5 DEF Writes
<1>7. Writes(dropped, moved, W)
  BY <1>2, <1>6 DEF Writes, Whole
<1>8. Whole(moved)
  BY <1>7 DEF Writes
<1>9. Writes(moved, adb_paste_update_state(moved), W)
  BY <1>8, PasteStateWrites, WritesMore
<1>10. Writes(a, next, W)
  BY <1>3, <1>5, <1>7, <1>9 DEF Writes
<1>11. Whole(next)
  BY <1>10 DEF Writes
<1>12. Writes(next, adb_access_c010(a), W)
  BY <1>4, <1>11 DEF Writes, Whole
<1>13. Writes(a, adb_access_c010(a), W)
  BY <1>10, <1>12, WritesAfter
<1> QED
  BY <1>13, BusKept DEF BusFields

LEMMA C000Bus ==
  ASSUME NEW a, BusInv(a)
  PROVE  BusInv(adb_read_c000(a))
<1>0. Whole(a)
  BY BusWhole
<1>1. PICK counted : counted = [a EXCEPT !.read_no_update = Min({@ + 1, ReadsCounted})]
  OBVIOUS
<1>2. Writes(a, counted, {"read_no_update"})
  BY <1>0, <1>1 DEF Writes, Whole
<1>3. BusInv(counted) /\ BusInv(adb_access_c010(counted))
  BY <1>2, BusKept, C010Bus DEF BusFields
<1>4. PICK repeats : repeats = [a EXCEPT !.c025 = @ \union {REPEAT}]
  OBVIOUS
<1>5. Writes(a, repeats, {"c025"})
  BY <1>0, <1>4 DEF Writes, Whole
<1>6. BusInv(repeats)
  BY <1>5, BusKept DEF BusFields
<1>7. PICK again : again = adb_key_event(repeats, a.a2code_down, FALSE)
  OBVIOUS
<1>8. BusInv(again) /\ Whole(again)
  BY <1>6, <1>7, KeyEventBus, BusWhole
<1>9. PICK t : t = [again EXCEPT !.repeat_left = a.repeat_rate]
  OBVIOUS
<1>10. Writes(again, t, {"repeat_left"})
  BY <1>8, <1>9 DEF Writes, Whole
<1>11. BusInv(t)
  BY <1>8, <1>10, BusKept DEF BusFields
<1> QED
  BY <1>1, <1>3, <1>4, <1>7, <1>9, <1>11 DEF adb_read_c000

-------------------------------------------------------------------------------
(* The panel takes 20 keys off; recursion over their number has a value.    *)
(* A set that has 0 and the successor of each of its numbers has them all. *)
LEMMA NatSetInduction ==
  ASSUME NEW S, 0 \in S, \A n \in Nat : n \in S => n + 1 \in S
  PROVE  Nat \subseteq S
<1> DEFINE Missing == Nat \ S
           Down == { 0 .. n : n \in Missing }
           R == StrictSubsetOrdering(Nat)
<1> SUFFICES ASSUME Missing # {} PROVE FALSE
  OBVIOUS
<1>1. Down \subseteq FiniteSubsetsOf(Nat)
  <2> SUFFICES ASSUME NEW n \in Missing
               PROVE  0 .. n \in FiniteSubsetsOf(Nat)
    OBVIOUS
  <2>1. IsFiniteSet(0 .. n)
    BY FS_Interval
  <2>2. 0 .. n \subseteq Nat
    OBVIOUS
  <2> QED
    BY <2>1, <2>2 DEF FiniteSubsetsOf
<1>2. Down # {}
  OBVIOUS
<1>3. IsWellFoundedOn(R, FiniteSubsetsOf(Nat))
  BY FS_StrictSubsetOrderingWellFounded
<1>4. PICK d \in Down : \A e \in Down : ~ (<<e, d>> \in R)
  <2> HIDE DEF Down, R
  <2> QED
    BY <1>1, <1>2, <1>3, WFMin
<1>5. PICK x \in Missing : d = 0 .. x
  OBVIOUS
<1>6. x # 0 /\ x - 1 \in Missing
  OBVIOUS
<1>7. 0 .. (x - 1) \in Down /\ <<0 .. (x - 1), d>> \in R
  BY <1>5, <1>6 DEF StrictSubsetOrdering
<1> QED
  BY <1>4, <1>7

LEMMA TossRun ==
  ASSUME NEW a
  PROVE  \E f : /\ TossKeys(a) = f[20] /\ f[0] = a
                /\ \A n \in 1 .. 20 : f[n] = TossKey(f[n - 1])
<1> DEFINE Run(g, m) == g = [n \in 0 .. m |-> IF n = 0 THEN a ELSE TossKey(g[n - 1])]
           S == { m \in Nat : \E g : Run(g, m) }
<1>1. 0 \in S
  <2>1. Run([n \in 0 .. 0 |-> a], 0)
    OBVIOUS
  <2> QED
    BY <2>1
<1>2. ASSUME NEW m \in Nat, m \in S PROVE m + 1 \in S
  <2>1. PICK g : Run(g, m)
    BY <1>2
  <2>2. PICK h : h = [n \in 0 .. m + 1 |-> IF n = m + 1 THEN TossKey(g[m]) ELSE g[n]]
    OBVIOUS
  <2>3. DOMAIN h = 0 .. m + 1 /\ h[m + 1] = TossKey(g[m]) /\ h[m] = g[m]
    BY <2>2
  <2>4. ASSUME NEW n \in 0 .. m + 1
        PROVE  h[n] = IF n = 0 THEN a ELSE TossKey(h[n - 1])
    <3>1. CASE n = m + 1
      BY <2>3, <3>1
    <3>2. CASE n # m + 1
      <4>1. n \in 0 .. m /\ h[n] = g[n]
        BY <2>2, <3>2
      <4>2. g[n] = IF n = 0 THEN a ELSE TossKey(g[n - 1])
        BY <2>1, <4>1
      <4>3. n # 0 => n - 1 \in 0 .. m + 1 /\ n - 1 # m + 1
        BY <4>1
      <4>4. n # 0 => h[n - 1] = g[n - 1]
        BY <2>2, <4>3
      <4> QED
        BY <4>1, <4>2, <4>4
    <3> QED
      BY <3>1, <3>2
  <2>5. h = [n \in 0 .. m + 1 |-> h[n]]
    BY <2>2
  <2>6. Run(h, m + 1)
    BY <2>4, <2>5
  <2> QED
    BY <2>6
<1>3. 20 \in S
  <2> HIDE DEF S
  <2>1. Nat \subseteq S
    BY <1>1, <1>2, NatSetInduction
  <2> QED
    BY <2>1
<1>4. \E g : Run(g, 20)
  BY <1>3
<1>5. PICK f : f = CHOOSE g : Run(g, 20)
  OBVIOUS
<1>6. Run(f, 20)
  <2> HIDE DEF Run
  <2> QED
    BY <1>4, <1>5, Zenon
<1>7. TossKeys(a) = f[20]
  BY <1>5, Zenon DEF TossKeys
<1>8. f[0] = a /\ \A n \in 1 .. 20 : f[n] = TossKey(f[n - 1])
  BY <1>6
<1> QED
  BY <1>7, <1>8

LEMMA TossKeysBus ==
  ASSUME NEW a, BusInv(a)
  PROVE  BusInv(TossKeys(a))
<1>1. PICK f : /\ TossKeys(a) = f[20] /\ f[0] = a
               /\ \A n \in 1 .. 20 : f[n] = TossKey(f[n - 1])
  BY TossRun
<1> DEFINE S == { n \in Nat : n <= 20 => BusInv(f[n]) }
<1>2. 0 \in S
  BY <1>1
<1>3. ASSUME NEW n \in Nat, n \in S PROVE n + 1 \in S
  <2> SUFFICES ASSUME n + 1 <= 20 PROVE BusInv(f[n + 1])
    OBVIOUS
  <2>1. BusInv(f[n]) /\ f[n + 1] = TossKey(f[n])
    BY <1>1, <1>3
  <2> QED
    BY <2>1, C000Bus, C010Bus DEF TossKey
<1>4. 20 \in S
  <2> HIDE DEF S
  <2>1. Nat \subseteq S
    BY <1>2, <1>3, NatSetInduction
  <2> QED
    BY <2>1
<1> QED
  BY <1>1, <1>4

LEMMA PanelBus ==
  ASSUME NEW a, BusInv(a), NEW panel
  PROVE  BusInv(cfg_set_config_panel(a, panel))
<1>1. PICK u : u = [a EXCEPT !.panel = panel]
  OBVIOUS
<1>2. Writes(a, u, {"panel"})
  BY <1>1, BusWhole DEF Writes, Whole
<1>3. BusInv(u) /\ BusInv(TossKeys(u))
  BY <1>2, BusKept, TossKeysBus DEF BusFields
<1>4. PICK v : v = IF panel THEN TossKeys(u) ELSE u
  OBVIOUS
<1>5. BusInv(v)
  BY <1>3, <1>4
<1>6. cfg_set_config_panel(a, panel) = [v EXCEPT !.repeat_left = 60]
  BY <1>1, <1>4 DEF cfg_set_config_panel
<1>7. Writes(v, cfg_set_config_panel(a, panel), {"repeat_left"})
  BY <1>5, <1>6, BusWhole DEF Writes, Whole
<1> QED
  BY <1>5, <1>7, BusKept DEF BusFields

(* Of the hot keys, the panel alone reaches the bus.                        *)
LEMMA SpeedWrites ==
  ASSUME NEW a, Whole(a)
  PROVE  Writes(a, adb_increment_speed(a), {"speed"})
BY DEF adb_increment_speed, Writes, Whole

LEMMA ToggleWrites ==
  ASSUME NEW a, Whole(a), NEW what
  PROVE  Writes(a, Toggle(a, what), {"toggles"})
BY DEF Toggle, Writes, Whole

LEMMA HotKeyBus ==
  ASSUME NEW a, BusInv(a), NEW special
  PROVE  BusInv(HotKeyPressed(a, special))
<1>0. Whole(a)
  BY BusWhole
<1>1. BusInv(cfg_toggle_config_panel(a)) /\ BusInv(Halt(a))
  BY PanelBus, HaltBus DEF cfg_toggle_config_panel
<1>2. BusInv(adb_increment_speed(a))
  BY <1>0, SpeedWrites, BusKept DEF BusFields
<1>3. ASSUME NEW what PROVE BusInv(Toggle(a, what))
  BY <1>0, ToggleWrites, BusKept DEF BusFields
<1>4. PICK u : u = [a EXCEPT !.warp = ~@, !.hide = ~a.warp]
  OBVIOUS
<1>5. Writes(a, u, {"warp", "hide"})
  BY <1>0, <1>4 DEF Writes, Whole
<1>6. BusInv(u)
  BY <1>5, BusKept DEF BusFields
<1>7. PICK v : v = [a EXCEPT !.toggles = @ \union {"copy"}]
  OBVIOUS
<1>8. Writes(a, v, {"toggles"})
  BY <1>0, <1>7 DEF Writes, Whole
<1>9. BusInv(v)
  BY <1>8, BusKept DEF BusFields
<1> DEFINE shift == SHIFT \in a.c025
<1>10. CASE special = 4
  BY <1>1, <1>10 DEF HotKeyPressed
<1>11. CASE special = 5
  BY <1>3, <1>11 DEF HotKeyPressed
<1>12. CASE special = 6
  BY <1>1, <1>2, <1>12 DEF HotKeyPressed
<1>13. CASE special = 7
  BY <1>3, <1>13 DEF HotKeyPressed
<1>14. CASE special = 8
  BY <1>4, <1>6, <1>14 DEF HotKeyPressed
<1>15. CASE special = 9
  <2>1. HotKeyPressed(a, special) =
          IF CTRL \in a.c025 THEN v
          ELSE Toggle(a, IF shift THEN "swap_paddles" ELSE "invert_paddles")
    BY <1>7, <1>15 DEF HotKeyPressed
  <2> QED
    BY <1>3, <1>9, <2>1
<1>16. CASE special \notin 4 .. 9
  BY <1>16 DEF HotKeyPressed
<1> QED
  BY <1>10, <1>11, <1>12, <1>13, <1>14, <1>15, <1>16
(* A key of the host, up or down, in either window.                         *)
LEMMA ReleaseBus ==
  ASSUME NEW a, BusInv(a), NEW raw
  PROVE  BusInv(Release(a, raw))
<1>1. PICK u : u = adb_maybe_virtual_key_update(a, a.a2codes[raw], TRUE)
  OBVIOUS
<1>2. BusInv(u)
  BY <1>1, MaybeKeyBus
<1>3. PICK v : v = [u EXCEPT !.a2codes = Restrict(@, DOMAIN @ \ {raw})]
  OBVIOUS
<1>4. Writes(u, v, {"a2codes"})
  BY <1>2, <1>3, BusWhole DEF Writes, Whole
<1>5. BusInv(v)
  BY <1>2, <1>4, BusKept DEF BusFields
<1> QED
  BY <1>1, <1>3, <1>5 DEF Release

LEMMA PassKeyBus ==
  ASSUME NEW a, BusInv(a), NEW raw, NEW a2code, NEW is_up
  PROVE  BusInv(PassKey(a, raw, a2code, is_up))
BY MaybeKeyBus, ReleaseBus DEF PassKey

LEMMA KeyOfBus ==
  ASSUME NEW a, BusInv(a), NEW window, NEW raw, NEW found, NEW is_up
  PROVE  BusInv(KeyOf(a, window, raw, found, is_up))
<1>0. Whole(a)
  BY BusWhole
<1> DEFINE hot == HotKey(found)
           remapped == hot \in DOMAIN FunctionRemap
           a2code == IF remapped THEN FunctionRemap[hot] ELSE found
           ascii == Ascii(found, 1) % 256
           keypad == Type(found) = KEYPAD
           joystick == IF keypad THEN KeypadKey(a, ascii, is_up) ELSE a
           passed == PassKey(joystick, raw,
                       IF keypad THEN JoystickRemap(ascii, a2code) ELSE a2code, is_up)
           other == IF window = "debug" THEN a
                    ELSE IF keypad /\ JoystickIgnores(ascii) THEN joystick ELSE passed
<1>1. Writes(a, KeypadKey(a, ascii, is_up), {"keypad_down"})
  BY <1>0 DEF KeypadKey, Writes, Whole
<1>2. BusInv(KeypadKey(a, ascii, is_up))
  BY <1>1, BusKept DEF BusFields
<1>3. BusInv(joystick)
  BY <1>2
<1>4. BusInv(passed)
  BY <1>3, PassKeyBus
<1> HIDE DEF joystick, passed
<1>5. BusInv(other)
  BY <1>3, <1>4
<1>6. KeyOf(a, window, raw, found, is_up) \in {adb_reset(a), HotKeyPressed(a, hot), other}
  BY DEF KeyOf, joystick, passed
<1> HIDE DEF other, hot
<1> QED
  BY <1>5, <1>6, ResetBus, HotKeyBus

LEMMA NoteWrites ==
  ASSUME NEW a, Whole(a), NEW raw, NEW a2code, NEW t, t = Note(a, raw, a2code)
  PROVE  /\ Writes(a, t, {"a2codes"})
         /\ t.a2codes = [key \in DOMAIN a.a2codes \union {raw} |->
                          IF key = raw THEN a2code ELSE a.a2codes[key]]
<1>1. PICK noted : noted = [key \in DOMAIN a.a2codes \union {raw} |->
                              IF key = raw THEN a2code ELSE a.a2codes[key]]
  OBVIOUS
<1>2. t = [a EXCEPT !.a2codes = noted]
  BY <1>1 DEF Note
<1> QED
  BY <1>1, <1>2, FieldsAre DEF Writes, Whole

LEMMA PhysicalKeyBus ==
  ASSUME NEW a, BusInv(a), NEW window, NEW raw, NEW c, NEW is_up
  PROVE  BusInv(adb_physical_key_update(a, window, raw, c, is_up))
<1>0. Whole(a)
  BY BusWhole
<1>1. PICK found : found = IF c > 0
                           THEN adb_ascii_to_a2code(c, raw, SHIFT \in a.c025)
                           ELSE [a2code |-> raw, shift |-> SHIFT \in a.c025]
  OBVIOUS
<1> DEFINE override == found.a2code # 0 /\ found.shift # (SHIFT \in a.c025)
<1>2. PICK shifted : shifted = IF override THEN [a EXCEPT !.c025 = SymDiff(@, {SHIFT})]
                               ELSE a
  OBVIOUS
<1>3. PICK noted : noted = IF c > 0 /\ ~is_up
                           THEN Note(shifted, raw, found.a2code)
                           ELSE shifted
  OBVIOUS
<1>4. PICK handled : handled = KeyOf(noted, window, raw, Remapped(found.a2code), is_up)
  OBVIOUS
<1>5. adb_physical_key_update(a, window, raw, c, is_up) =
        IF override THEN [handled EXCEPT !.c025 = a.c025] ELSE handled
  BY <1>1, <1>2, <1>3, <1>4 DEF adb_physical_key_update
<1> HIDE DEF override
<1>6. Writes(a, shifted, {"c025"})
  BY <1>0, <1>2 DEF Writes, Whole
<1>7. BusInv(shifted)
  BY <1>6, BusKept DEF BusFields
<1>8. Writes(shifted, noted, {"a2codes"})
  BY <1>3, <1>7, BusWhole, NoteWrites, WritesNothing, WritesMore
<1>9. BusInv(noted)
  BY <1>7, <1>8, BusKept DEF BusFields
<1>10. BusInv(handled)
  BY <1>4, <1>9, KeyOfBus
<1>11. Writes(handled, [handled EXCEPT !.c025 = a.c025], {"c025"})
  BY <1>10, BusWhole DEF Writes, Whole
<1>12. BusInv([handled EXCEPT !.c025 = a.c025])
  BY <1>10, <1>11, BusKept DEF BusFields
<1> QED
  BY <1>5, <1>10, <1>12

(* What the host tells besides keys.                                        *)
LEMMA HostTellsBus ==
  ASSUME NEW a, BusInv(a), NEW new, NEW mask, NEW has_focus
  PROVE  /\ BusInv(adb_update_c025_mask(a, new, mask))
         /\ BusInv(adb_nonmain_check(a))
         /\ BusInv(adb_kbd_repeat_off(adb_mainwin_focus(a, has_focus)))
<1>0. Whole(a)
  BY BusWhole
<1>1. Writes(a, adb_update_c025_mask(a, new, mask), {"c025"})
  BY <1>0 DEF adb_update_c025_mask, Writes, Whole
<1>2. Writes(a, adb_nonmain_check(a), {"warp", "hide"})
  BY <1>0 DEF adb_nonmain_check, Writes, Whole
<1>3. PICK u : u = IF has_focus THEN a ELSE adb_nonmain_check(a)
  OBVIOUS
<1>4. BusInv(adb_nonmain_check(a)) /\ BusInv(u)
  BY <1>2, <1>3, BusKept DEF BusFields
<1>5. PICK v : v = [u EXCEPT !.focus = has_focus]
  OBVIOUS
<1>6. Writes(u, v, {"focus"})
  BY <1>4, <1>5, BusWhole DEF Writes, Whole
<1>7. BusInv(v)
  BY <1>4, <1>6, BusKept DEF BusFields
<1>8. Writes(v, adb_kbd_repeat_off(v), {"key_down"})
  BY <1>7, BusWhole DEF adb_kbd_repeat_off, Writes, Whole
<1>9. BusInv(adb_kbd_repeat_off(v))
  BY <1>7, <1>8, BusKept DEF BusFields
<1>10. adb_mainwin_focus(a, has_focus) = v
  BY <1>3, <1>5 DEF adb_mainwin_focus
<1> QED
  BY <1>1, <1>4, <1>9, <1>10, BusKept DEF BusFields
-------------------------------------------------------------------------------
(* The mouse: it interrupts for a move that is there to be read.            *)
LEMMA CompressWrites ==
  ASSUME NEW a, Whole(a), NEW dfcyc
  PROVE  Writes(a, mouse_compress_fifo(a, dfcyc), {"fifo"})
BY DEF mouse_compress_fifo, Writes, Whole

LEMMA MovedBus ==
  ASSUME NEW a, BusInv(a), NEW p, NEW buttons, NEW valid, NEW dfcyc
  PROVE  BusInv(Moved(a, p, buttons, valid, dfcyc))
<1> DEFINE old == Newest(a)
           moved == old.x # p.x \/ old.y # p.y
           pressed(button) == button \in (buttons \intersect valid) \ old.buttons
           changed == LEFT \in valid /\ (LEFT \in buttons) # (LEFT \in old.buttons)
<1>1. PICK placed : placed = [a EXCEPT !.fifo[1] = [x |-> p.x, y |-> p.y, dfcyc |-> dfcyc,
                                                    buttons |-> old.buttons]]
  OBVIOUS
<1>2. PICK sped : sped = IF pressed(RIGHT) THEN adb_increment_speed(placed) ELSE placed
  OBVIOUS
<1>3. PICK halted : halted = IF pressed(MIDDLE) THEN Halt(sped) ELSE sped
  OBVIOUS
<1>4. PICK queued : queued = Queued(halted, changed)
  OBVIOUS
<1>5. PICK new : new = [queued EXCEPT !.fifo[1].buttons =
                          (buttons \intersect valid) \union (old.buttons \ valid)]
  OBVIOUS
<1>6. PICK valued : valued = [new EXCEPT !.valid_data = TRUE]
  OBVIOUS
<1>7. Moved(a, p, buttons, valid, dfcyc) =
        IF (moved \/ changed) /\ MouseOn(new) THEN adb_add_mouse_int(valued) ELSE new
  BY <1>1, <1>2, <1>3, <1>4, <1>5, <1>6, ZenonT(60) DEF Moved
<1> HIDE DEF old, moved, pressed, changed
<1>8. Writes(a, placed, {"fifo"})
  BY <1>1, BusWhole DEF Writes, Whole
<1>9. BusInv(placed)
  BY <1>8, BusKept DEF BusFields
<1>10. BusInv(sped)
  BY <1>2, <1>9, SpeedWrites, BusWhole, BusKept DEF BusFields
<1>11. BusInv(halted)
  BY <1>3, <1>10, HaltBus
<1>12. Writes(halted, queued, {"fifo"})
  BY <1>4, <1>11, BusWhole DEF Queued, Writes, Whole
<1>13. BusInv(queued)
  BY <1>11, <1>12, BusKept DEF BusFields
<1>14. Writes(queued, new, {"fifo"})
  BY <1>5, <1>13, BusWhole DEF Writes, Whole
<1>15. BusInv(new)
  BY <1>13, <1>14, BusKept DEF BusFields
<1>16. Writes(new, valued, {"valid_data"})
  BY <1>6, <1>15, BusWhole DEF Writes, Whole
<1>17. /\ valued.irqs = new.irqs /\ valued.interrupt_byte = new.interrupt_byte
       /\ valued.c027 = new.c027 /\ valued.data = new.data
       /\ valued.cmd_data = new.cmd_data /\ valued.kbd_reg0 = new.kbd_reg0
       /\ valued.kbd_reg3 = new.kbd_reg3 /\ Whole(valued)
  BY ONLY <1>16, BusSame
<1>18. valued.valid_data
  <2>1. Whole(new)
    BY <1>15, BusWhole
  <2>2. valued.valid_data = TRUE
    BY <2>1, <1>6, BusFieldsAre DEF BusFields, Whole
  <2> QED
    BY ONLY <2>2
<1>19. Answers(valued) /\ Points(valued)
  BY <1>15, <1>17, <1>18 DEF BusInv, Answers, Points
<1>20. BusInv(valued)
  BY <1>15, <1>17, <1>19, BusAnswers
<1> QED
  BY <1>7, <1>15, <1>18, <1>20, MouseIntBus

LEMMA UpdateMouseBus ==
  ASSUME NEW a, BusInv(a), NEW window, NEW x, NEW y, NEW relative, NEW buttons,
         NEW valid, NEW recentre, NEW narrow, NEW dfcyc
  PROVE  BusInv(adb_update_mouse(a, window, x, y, relative, buttons, valid,
                                 recentre, narrow, dfcyc))
<1>1. PICK seen : seen = IF window = "debug" THEN adb_nonmain_check(a) ELSE a
  OBVIOUS
<1>2. PICK place : place = Located(seen, x, y, relative)
  OBVIOUS
<1>3. PICK at : at = place.at
  OBVIOUS
<1>4. PICK shown : shown = [at EXCEPT !.hide = @ /\ (at.warp \/ ~at.unhide)]
  OBVIOUS
<1>5. PICK young : young = mouse_compress_fifo(shown, dfcyc)
  OBVIOUS
<1>6. PICK p : p = Scaled(young, place, narrow)
  OBVIOUS
<1>7. PICK recent : recent = Recentred(young, p)
  OBVIOUS
<1>8. PICK moved : moved = Moved(young, p, IF recentre THEN {} ELSE buttons,
                                 IF recentre THEN 0..2 ELSE valid, dfcyc)
  OBVIOUS
<1>9. adb_update_mouse(a, window, x, y, relative, buttons, valid, recentre, narrow, dfcyc)
        = IF window = "debug" THEN at
          ELSE IF recentre /\ young.warp THEN recent ELSE moved
  BY <1>1, <1>2, <1>3, <1>4, <1>5, <1>6, <1>7, <1>8 DEF adb_update_mouse
<1>10. BusInv(seen)
  BY <1>1, HostTellsBus
<1>11. Writes(seen, at, {"raw_x", "raw_y", "unhide"})
  BY <1>2, <1>3, <1>10, BusWhole DEF Located, Writes, Whole
<1>12. BusInv(at)
  BY <1>10, <1>11, BusKept DEF BusFields
<1>13. Writes(at, shown, {"hide"})
  BY <1>4, <1>12, BusWhole DEF Writes, Whole
<1>14. BusInv(shown)
  BY <1>12, <1>13, BusKept DEF BusFields
<1>15. BusInv(young)
  BY <1>5, <1>14, CompressWrites, BusWhole, BusKept DEF BusFields
<1>16. Writes(young, recent, {"a2_x", "a2_y", "fifo"})
  BY <1>7, <1>15, BusWhole DEF Recentred, Writes, Whole
<1>17. BusInv(recent)
  BY <1>15, <1>16, BusKept DEF BusFields
<1>18. BusInv(moved)
  BY <1>8, <1>15, MovedBus
<1> QED
  BY <1>9, <1>12, <1>17, <1>18

(* A read takes the interrupt back once there is nothing left to read.      *)
LEMMA ReadMouseBus ==
  ASSUME NEW a, BusInv(a), NEW em_active, NEW superhires, NEW dfcyc
  PROVE  BusInv(mouse_read_c024(a, em_active, superhires, dfcyc))
<1>0. Whole(a)
  BY BusWhole
<1>a. ASSUME NEW b, BusInv(b), NEW u, u = [b EXCEPT !.valid_data = FALSE]
      PROVE  BusInv(adb_clear_mouse_int(u))
  <2>1. Writes(b, u, {"valid_data"})
    BY <1>a, BusWhole DEF Writes, Whole
  <2>2. /\ u.irqs = b.irqs /\ u.interrupt_byte = b.interrupt_byte
        /\ u.c027 = b.c027 /\ u.data = b.data /\ u.cmd_data = b.cmd_data
        /\ u.kbd_reg0 = b.kbd_reg0 /\ u.kbd_reg3 = b.kbd_reg3 /\ Whole(u)
    BY ONLY <2>1, BusSame
  <2>3. PICK t : t = adb_clear_mouse_int(u)
    OBVIOUS
  <2>4. Writes(u, t, {"irqs"})
    BY <2>2, <2>3 DEF adb_clear_mouse_int, Writes, Whole
  <2>5. t.irqs = u.irqs \ {"mouse"}
    BY <2>2, <2>3, BusFieldsAre DEF adb_clear_mouse_int, BusFields, Whole
  <2>6. /\ t.interrupt_byte = u.interrupt_byte /\ t.c027 = u.c027
        /\ t.data = u.data /\ t.cmd_data = u.cmd_data /\ t.kbd_reg0 = u.kbd_reg0
        /\ t.kbd_reg3 = u.kbd_reg3 /\ Whole(t)
    BY ONLY <2>4, BusSame
  <2>7. Answers(t) /\ Points(t)
    BY <1>a, <2>2, <2>5, <2>6 DEF BusInv, Answers, Points
  <2>8. ("srq" \in t.irqs <=> "srq" \in b.irqs)
    BY <2>2, <2>5
  <2> QED
    BY <1>a, <2>2, <2>3, <2>6, <2>7, <2>8, BusAnswers
<1>b. ASSUME NEW b, BusInv(b), NEW u, NEW x, NEW y, NEW c,
             u = [b EXCEPT !.a2_x = x, !.a2_y = y, !.a2_button = c]
      PROVE  BusInv(u)
  <2>1. Writes(b, u, {"a2_x", "a2_y", "a2_button"})
    BY <1>b, BusWhole DEF Writes, Whole
  <2> QED
    BY <1>b, <2>1, BusKept DEF BusFields
<1>c. ASSUME NEW b, BusInv(b), NEW u, NEW f, u = [b EXCEPT !.fifo = f]
      PROVE  BusInv(u)
  <2>1. Writes(b, u, {"fifo"})
    BY <1>c, BusWhole DEF Writes, Whole
  <2> QED
    BY <1>c, <2>1, BusKept DEF BusFields
<1>d. ASSUME NEW b, BusInv(b) PROVE BusInv([b EXCEPT !.coord = ~@])
  <2>1. Writes(b, [b EXCEPT !.coord = ~@], {"coord"})
    BY <1>d, BusWhole DEF Writes, Whole
  <2> QED
    BY <1>d, <2>1, BusKept DEF BusFields
<1>e. ASSUME NEW b, BusInv(b), NEW u, u = Tracked(b, em_active, superhires)
      PROVE  BusInv(u)
  <2>1. Writes(b, u, {"hide"})
    BY <1>e, BusWhole DEF Tracked, Writes, Whole
  <2> QED
    BY <1>e, <2>1, BusKept DEF BusFields
<1> DEFINE young == mouse_compress_fifo(a, dfcyc)
           target == Oldest(young)
           delta_x == Clamp(target.x - a.a2_x, -MaxDelta, MaxDelta)
           delta_y == Clamp(target.y - a.a2_y, -MaxDelta, MaxDelta)
           clamped == delta_x # target.x - a.a2_x \/ delta_y # target.y - a.a2_y
           entry == IF Pos(young) > 0 /\ ~clamped /\ a.coord
                    THEN young.fifo[Len(young.fifo) - 1] ELSE target
           button == IF LEFT \in entry.buttons THEN 1 ELSE 0
           tracked == Tracked(young, em_active, superhires)
           x == IF a.coord THEN tracked.a2_x ELSE tracked.a2_x + delta_x
           y == IF a.coord THEN tracked.a2_y + delta_y ELSE tracked.a2_y
           pressed == IF a.coord THEN button ELSE tracked.a2_button
           told == [tracked EXCEPT !.a2_x = x, !.a2_y = y, !.a2_button = pressed]
           reached == target.x = told.a2_x /\ target.y = told.a2_y /\ told.a2_button = button
           shorter == SubSeq(told.fifo, 1, Len(told.fifo) - 1)
           next == IF Pos(told) > 0 /\ reached THEN [told EXCEPT !.fifo = shorter] ELSE told
           seen == [next EXCEPT !.valid_data = FALSE]
           quiet == IF Told(next) THEN adb_clear_mouse_int(seen) ELSE next
           forgot == [a EXCEPT !.valid_data = FALSE]
<1>1. mouse_read_c024(a, em_active, superhires, dfcyc) =
        IF ~MouseOn(a) THEN adb_clear_mouse_int(forgot) ELSE [quiet EXCEPT !.coord = ~@]
  BY ZenonT(60) DEF mouse_read_c024
<1>2. BusInv(young)
  <2>1. Writes(a, young, {"fifo"})
    BY <1>0, CompressWrites
  <2> HIDE DEF young
  <2> QED
    BY <2>1, BusKept DEF BusFields
<1> HIDE DEF young, target, delta_x, delta_y, button
<1>3. BusInv(tracked)
  BY <1>2, <1>e
<1> HIDE DEF tracked, x, y, pressed
<1>4. BusInv(told)
  BY <1>3, <1>b
<1> HIDE DEF told, reached, shorter
<1>5. BusInv(next)
  BY <1>4, <1>c
<1> HIDE DEF next
<1>6. BusInv(adb_clear_mouse_int(seen)) /\ BusInv(adb_clear_mouse_int(forgot))
  BY <1>5, <1>a
<1> HIDE DEF seen, forgot
<1>7. BusInv(quiet)
  BY <1>5, <1>6
<1> HIDE DEF quiet
<1> QED
  BY <1>1, <1>6, <1>7, <1>d
-------------------------------------------------------------------------------
(* The commands.                                                            *)
LEMMA ConfigBus ==
  ASSUME NEW a, BusInv(a), NEW val0, NEW val2, NEW mode
  PROVE  /\ BusInv(adb_set_config(a, val0, val2))
         /\ BusInv(adb_set_new_mode(a, mode))
<1>0. Whole(a)
  BY BusWhole
<1>1. Writes(a, adb_set_config(a, val0, val2),
             {"halted", "mouse_ctl", "kbd_ctl", "repeat_delay", "repeat_rate"})
  BY <1>0 DEF adb_set_config, Writes, Whole
<1>2. Writes(a, adb_set_new_mode(a, mode), {"halted", "mode"})
  BY <1>0 DEF adb_set_new_mode, Writes, Whole
<1> QED
  BY <1>1, <1>2, BusKept DEF BusFields

(* The keyboard's address moves; its right to ask stays.                    *)
LEMMA ListenBus ==
  ASSUME NEW a, BusInv(a), NEW dev, a.cmd_data[1] \in Byte
  PROVE  BusInv(Listen(a, dev))
<1>0. Whole(a)
  BY BusWhole
<1> DEFINE data == a.cmd_data
           to == data[1] % 16
           moves == data[2] = 254
           odd(new) == (moves /\ to # dev) \/ (~moves /\ data[2] # 1) \/ data[1] # new.kbd_dev
<1>a. PICK place : place = IF moves THEN to ELSE a.kbd_dev
  OBVIOUS
<1>b. PICK reg3 : reg3 = (to * 4096) + (a.kbd_reg3 % 4096)
  OBVIOUS
<1>1. PICK new : new = [a EXCEPT !.kbd_dev = place, !.kbd_reg3 = reg3]
  OBVIOUS
<1>2. PICK moved : moved = [new EXCEPT !.halted = @ \/ odd(new)]
  OBVIOUS
<1>3. PICK mouse : mouse = [a EXCEPT !.halted = @ \/ data[1] # dev \/ data[2] \notin 1..2]
  OBVIOUS
<1>4. Listen(a, dev) \in {moved, mouse, Halt(a)}
  BY <1>a, <1>b, <1>1, <1>2, <1>3 DEF Listen
<1> HIDE DEF odd
<1>5. Writes(a, new, {"kbd_dev", "kbd_reg3"})
  BY <1>0, <1>1 DEF Writes, Whole
<1>6. new.kbd_reg3 = (to * 4096) + (a.kbd_reg3 % 4096)
  BY <1>0, <1>b, <1>1, BusFieldsAre DEF BusFields, Whole
<1>7. to \in Nat
  BY DEF Byte
<1> HIDE DEF to
<1>8. MayAsk(new.kbd_reg3)
  <2>1. PICK from \in Nat : a.kbd_reg3 = (from * 4096) + 1538
    BY DEF BusInv, BusTyped, MayAsk
  <2>2. a.kbd_reg3 % 4096 = 1538
    BY <2>1
  <2>3. new.kbd_reg3 = (to * 4096) + 1538
    BY <1>6, <2>2
  <2> QED
    BY <1>7, <2>3 DEF MayAsk
<1>9. /\ new.irqs = a.irqs /\ new.interrupt_byte = a.interrupt_byte
      /\ new.c027 = a.c027 /\ new.data = a.data /\ new.cmd_data = a.cmd_data
      /\ new.kbd_reg0 = a.kbd_reg0 /\ new.valid_data = a.valid_data /\ Whole(new)
  BY ONLY <1>5, BusSame
<1>10. BusTyped(new)
  BY <1>8, <1>9 DEF BusInv, BusTyped
<1>11. BusInv(new)
  BY <1>9, <1>10 DEF BusInv, Asks, Answers, Points
<1>12. Writes(new, moved, {"halted"})
  BY <1>2, <1>9 DEF Writes, Whole
<1>13. BusInv(moved)
  BY <1>11, <1>12, BusKept DEF BusFields
<1>14. Writes(a, mouse, {"halted"})
  BY <1>0, <1>3 DEF Writes, Whole
<1>15. BusInv(mouse)
  BY <1>14, BusKept DEF BusFields
<1> QED
  BY <1>4, <1>13, <1>15, HaltBus

(* The last byte of a command: there is at least that one.                  *)
LEMMA CommandBus ==
  ASSUME NEW a, BusInv(a), a.cmd_data[1] \in Byte
  PROVE  BusInv(do_adb_cmd(a))
<1>1. PICK u : u = [a EXCEPT !.state = "idle"]
  OBVIOUS
<1>2. Writes(a, u, {"state"})
  BY <1>1, BusWhole DEF Writes, Whole
<1>3. BusInv(u)
  BY <1>2, BusKept DEF BusFields
<1>4. u.cmd_data = a.cmd_data
  BY ONLY <1>2, BusSame
<1> DEFINE data == a.cmd_data
<1> HIDE DEF data
<1>5. do_adb_cmd(a) =
        CASE u.cmd = 4 -> adb_set_new_mode(u, u.mode \union Bits(data[1]))
          [] u.cmd = 5 -> adb_set_new_mode(u, u.mode \ Bits(data[1]))
          [] u.cmd = 6 -> adb_set_config(u, data[1], data[3])
          [] u.cmd = 7 -> adb_set_config(adb_set_new_mode(u, Bits(data[1])), data[2], data[4])
          [] u.cmd = 8 -> write_adb_ram(u, data[1], data[2])
          [] u.cmd = 9 -> adb_send_1byte(u, read_adb_ram(u, (data[2] * 256) + data[1]))
          [] u.cmd = 17 -> adb_virtual_key_update(u, data[1] % 128, data[1] >= 128)
          [] u.cmd \in 176..191 -> Listen(u, u.cmd % 16)
          [] OTHER -> u
  BY <1>1, <1>4, Zenon DEF do_adb_cmd, data
<1>6. \A m : BusInv(adb_set_new_mode(u, m))
  BY <1>3, ConfigBus
<1>7. \A v, w : BusInv(adb_set_config(u, v, w))
  BY <1>3, ConfigBus
<1>8. \A m, v, w : BusInv(adb_set_config(adb_set_new_mode(u, m), v, w))
  BY <1>6, ConfigBus
<1>9. ASSUME NEW addr, NEW val PROVE BusInv(write_adb_ram(u, addr, val))
  <2>1. Writes(u, write_adb_ram(u, addr, val), {"memory"})
    BY <1>3, BusWhole DEF write_adb_ram, Writes, Whole
  <2> QED
    BY <1>3, <2>1, BusKept DEF BusFields
<1>10. \A byte : BusInv(adb_send_1byte(u, byte))
  BY <1>3, Send1Bus
<1>11. \A key, is_up : BusInv(adb_virtual_key_update(u, key, is_up))
  BY <1>3, VirtualKeyBus
<1>12. \A dev : BusInv(Listen(u, dev))
  BY <1>3, <1>4, ListenBus
<1> QED
  BY <1>3, <1>5, <1>6, <1>7, <1>8, <1>9, <1>10, <1>11, <1>12

LEMMA ImmediateBus ==
  ASSUME NEW a, BusInv(a), NEW cmd
  PROVE  BusInv(Immediate(a, cmd))
<1>1. \A byte : BusInv(adb_send_1byte(a, byte))
  BY Send1Bus
<1>2. \A b, c, d, e : BusInv(adb_send_bytes(a, <<b, c, d, e>>))
  <2>1. \A b, c, d, e : <<b, c, d, e>> # << >>
    OBVIOUS
  <2> QED
    BY <2>1, SendBus
<1>3. \A b, c : BusInv(adb_send_bytes(a, <<b, c>>))
  <2>1. \A b, c : <<b, c>> # << >>
    OBVIOUS
  <2> QED
    BY <2>1, SendBus
<1>4. \A bytes : BusInv(adb_response_packet(a, bytes))
  BY PacketBus
<1> QED
  BY <1>1, <1>2, <1>3, <1>4, ResetBus, TalkBus, HaltBus DEF Immediate

LEMMA WriteC026Bus ==
  ASSUME NEW a, BusInv(a), NEW val, a.state = "in_cmd" => val \in Byte
  PROVE  BusInv(adb_write_c026(a, val))
<1>0. Whole(a)
  BY BusWhole
<1>1. ASSUME a.state = "idle" PROVE BusInv(adb_write_c026(a, val))
  <2>1. PICK u : u = [a EXCEPT !.cmd = val, !.cmd_data = << >>]
    OBVIOUS
  <2>2. Writes(a, u, {"cmd", "cmd_data"})
    BY <1>0, <2>1 DEF Writes, Whole
  <2>3. u.cmd_data = << >>
    BY <1>0, <2>1, BusFieldsAre DEF BusFields, Whole
  <2>4. /\ u.irqs = a.irqs /\ u.interrupt_byte = a.interrupt_byte
        /\ u.c027 = a.c027 /\ u.data = a.data /\ u.kbd_reg3 = a.kbd_reg3
        /\ u.kbd_reg0 = a.kbd_reg0 /\ u.valid_data = a.valid_data /\ Whole(u)
    BY ONLY <2>2, BusSame
  <2>5. u.cmd_data \in Seq(Byte)
    BY <2>3
  <2>6. BusTyped(u)
    BY <2>4, <2>5 DEF BusInv, BusTyped
  <2>7. BusInv(u)
    BY <2>4, <2>6 DEF BusInv, Asks, Answers, Points
  <2>8. PICK v : v = [u EXCEPT !.state = "in_cmd"]
    OBVIOUS
  <2>9. Writes(u, v, {"state"})
    BY <2>4, <2>8 DEF Writes, Whole
  <2>10. BusInv(v)
    BY <2>7, <2>9, BusKept DEF BusFields
  <2>11. BusInv(Immediate(u, val))
    BY <2>7, ImmediateBus
  <2>12. adb_write_c026(a, val) = IF CommandLength(val) > 0 THEN v ELSE Immediate(u, val)
    BY <1>1, <2>1, <2>8 DEF adb_write_c026, Command
  <2> QED
    BY <2>10, <2>11, <2>12
<1>2. ASSUME a.state = "in_cmd" PROVE BusInv(adb_write_c026(a, val))
  <2>1. PICK more : more = [a EXCEPT !.cmd_data = Append(@, val)]
    OBVIOUS
  <2>2. Writes(a, more, {"cmd_data"})
    BY <1>0, <2>1 DEF Writes, Whole
  <2>3. more.cmd_data = Append(a.cmd_data, val)
    BY <1>0, <2>1, BusFieldsAre DEF BusFields, Whole
  <2>4. /\ more.irqs = a.irqs /\ more.interrupt_byte = a.interrupt_byte
        /\ more.c027 = a.c027 /\ more.data = a.data /\ more.kbd_reg3 = a.kbd_reg3
        /\ more.kbd_reg0 = a.kbd_reg0 /\ more.valid_data = a.valid_data /\ Whole(more)
    BY ONLY <2>2, BusSame
  <2>5. more.cmd_data \in Seq(Byte) /\ more.cmd_data[1] \in Byte
    <3>1. a.cmd_data \in Seq(Byte) /\ val \in Byte
      BY <1>2 DEF BusInv, BusTyped
    <3>2. more.cmd_data \in Seq(Byte) /\ 1 \in 1 .. Len(more.cmd_data)
      BY <2>3, <3>1
    <3> QED
      BY <3>2
  <2>6. BusTyped(more)
    BY <2>4, <2>5 DEF BusInv, BusTyped
  <2>7. BusInv(more)
    BY <2>4, <2>6 DEF BusInv, Asks, Answers, Points
  <2>8. BusInv(do_adb_cmd(more))
    BY <2>5, <2>7, CommandBus
  <2>9. adb_write_c026(a, val) \in {do_adb_cmd(more), more}
    BY <1>2, <2>1 DEF adb_write_c026
  <2> QED
    BY <2>7, <2>8, <2>9
<1>3. ASSUME a.state # "idle", a.state # "in_cmd" PROVE BusInv(adb_write_c026(a, val))
  <2>1. Writes(a, adb_write_c026(a, val), {"state", "halted", "halt_on_all_c027"})
    BY <1>0, <1>3 DEF adb_write_c026, Writes, Whole
  <2> QED
    BY <2>1, BusKept DEF BusFields
<1> QED
  BY <1>1, <1>2, <1>3

(* A read of the interrupt byte leaves in it what the keys ask for; the last *)
(* byte of an answer takes its interrupt back.                               *)
LEMMA ReadC026Bus ==
  ASSUME NEW a, BusInv(a)
  PROVE  BusInv(adb_read_c026(a))
<1>0. Whole(a)
  BY BusWhole
<1>1. PICK byte : byte = [a EXCEPT !.interrupt_byte = IF "srq" \in a.irqs THEN {SRQ} ELSE {}]
  OBVIOUS
<1>2. Writes(a, byte, {"interrupt_byte"})
  BY <1>0, <1>1 DEF Writes, Whole
<1>3. byte.interrupt_byte = IF "srq" \in a.irqs THEN {SRQ} ELSE {}
  BY <1>0, <1>1, BusFieldsAre DEF BusFields, Whole
<1>4. /\ byte.irqs = a.irqs /\ byte.c027 = a.c027 /\ byte.data = a.data
      /\ byte.cmd_data = a.cmd_data /\ byte.kbd_reg3 = a.kbd_reg3
      /\ byte.kbd_reg0 = a.kbd_reg0 /\ byte.valid_data = a.valid_data /\ Whole(byte)
  BY ONLY <1>2, BusSame
<1>5. BusTyped(byte) /\ Asks(byte) /\ Points(byte)
  <2>1. BusTyped(byte)
    BY <1>4 DEF BusInv, BusTyped
  <2>2. Asks(byte)
    BY <1>3, <1>4 DEF BusInv, Asks
  <2>3. Points(byte)
    BY <1>4 DEF BusInv, Points
  <2> QED
    BY <2>1, <2>2, <2>3
<1>6. ASSUME NEW u, BusTyped(u), Asks(u), Points(u)
      PROVE  BusInv(adb_clear_data_int(u))
  <2>1. PICK t : t = adb_clear_data_int(u)
    OBVIOUS
  <2>2. Whole(u)
    BY <1>6 DEF BusTyped
  <2>3. Writes(u, t, {"irqs"})
    BY <2>1, <2>2 DEF adb_clear_data_int, Writes, Whole
  <2>4. t.irqs = u.irqs \ {"data"}
    BY <2>1, <2>2, BusFieldsAre DEF adb_clear_data_int, BusFields, Whole
  <2>5. /\ t.interrupt_byte = u.interrupt_byte /\ t.c027 = u.c027 /\ t.data = u.data
        /\ t.cmd_data = u.cmd_data /\ t.kbd_reg3 = u.kbd_reg3
        /\ t.kbd_reg0 = u.kbd_reg0 /\ t.valid_data = u.valid_data /\ Whole(t)
    BY ONLY <2>3, BusSame
  <2>6. BusTyped(t)
    BY <1>6, <2>5 DEF BusTyped
  <2>7. Asks(t)
    BY <1>6, <2>4, <2>5 DEF Asks
  <2>8. Answers(t)
    BY <2>4 DEF Answers
  <2>9. Points(t)
    BY <1>6, <2>4, <2>5 DEF Points
  <2> QED
    BY <2>1, <2>6, <2>7, <2>8, <2>9 DEF BusInv
<1>7. CASE a.state = "idle" /\ a.data # << >>
  <2>1. PICK t : t = [byte EXCEPT !.state = "sending"]
    OBVIOUS
  <2>2. Answers(byte)
    BY <1>4, <1>7 DEF BusInv, Answers
  <2>3. BusInv(byte)
    BY <1>5, <2>2 DEF BusInv
  <2>4. Writes(byte, t, {"state"})
    BY <1>4, <2>1 DEF Writes, Whole
  <2>5. adb_read_c026(a) = t
    BY <1>1, <1>7, <2>1 DEF adb_read_c026
  <2> QED
    BY <2>3, <2>4, <2>5, BusKept DEF BusFields
<1>8. CASE a.state = "idle" /\ a.data = << >>
  <2>1. PICK u : u = IF RESPONSE \in a.interrupt_byte THEN Halt(byte) ELSE byte
    OBVIOUS
  <2>2. Writes(byte, u, {"halted"})
    BY <1>4, <2>1 DEF Halt, Writes, Whole
  <2>3. /\ u.interrupt_byte = byte.interrupt_byte /\ u.c027 = byte.c027
        /\ u.data = byte.data /\ u.irqs = byte.irqs
        /\ u.cmd_data = byte.cmd_data /\ u.kbd_reg3 = byte.kbd_reg3
        /\ u.kbd_reg0 = byte.kbd_reg0 /\ u.valid_data = byte.valid_data /\ Whole(u)
    BY ONLY <2>2, BusSame
  <2>4. BusTyped(u)
    BY <1>5, <2>3 DEF BusTyped
  <2>5. Asks(u) /\ Points(u)
    BY <1>5, <2>3 DEF Asks, Points
  <2>6. adb_read_c026(a) = adb_clear_data_int(u)
    BY <1>1, <1>8, <2>1 DEF adb_read_c026
  <2> QED
    BY <1>6, <2>4, <2>5, <2>6
<1>9. CASE a.state = "in_cmd"
  BY <1>9 DEF adb_read_c026
<1>10. CASE a.state # "idle" /\ a.state # "in_cmd"
  <2>1. PICK u : u = [a EXCEPT !.data = Tail(@)]
    OBVIOUS
  <2>2. Writes(a, u, {"data"})
    BY <1>0, <2>1 DEF Writes, Whole
  <2>3. /\ u.interrupt_byte = a.interrupt_byte /\ u.c027 = a.c027 /\ u.irqs = a.irqs
        /\ u.cmd_data = a.cmd_data /\ u.kbd_reg3 = a.kbd_reg3
        /\ u.kbd_reg0 = a.kbd_reg0 /\ u.valid_data = a.valid_data /\ Whole(u)
    BY ONLY <2>2, BusSame
  <2>4. BusTyped(u)
    BY <2>3 DEF BusInv, BusTyped
  <2>5. Asks(u) /\ Points(u)
    BY <2>3 DEF BusInv, Asks, Points
  <2>6. PICK v : v = [u EXCEPT !.state = "idle"]
    OBVIOUS
  <2>7. Writes(u, v, {"state"})
    BY <2>3, <2>6 DEF Writes, Whole
  <2>8. /\ v.interrupt_byte = u.interrupt_byte /\ v.c027 = u.c027 /\ v.irqs = u.irqs
        /\ v.cmd_data = u.cmd_data /\ v.kbd_reg3 = u.kbd_reg3 /\ v.data = u.data
        /\ v.kbd_reg0 = u.kbd_reg0 /\ v.valid_data = u.valid_data /\ Whole(v)
    BY ONLY <2>7, BusSame
  <2>9. BusTyped(v)
    BY <2>4, <2>8 DEF BusTyped
  <2>10. Asks(v) /\ Points(v)
    BY <2>5, <2>8 DEF Asks, Points
  <2>11. adb_read_c026(a) = IF u.data = << >> THEN adb_clear_data_int(v) ELSE u
    BY <1>10, <2>1, <2>6 DEF adb_read_c026
  <2>12. CASE u.data = << >>
    BY <1>6, <2>9, <2>10, <2>11, <2>12
  <2>13. CASE u.data # << >>
    <3>1. Answers(u)
      BY <2>3, <2>13 DEF BusInv, Answers
    <3> QED
      BY <2>4, <2>5, <2>11, <2>13, <3>1 DEF BusInv
  <2> QED
    BY <2>12, <2>13
<1> QED
  BY <1>7, <1>8, <1>9, <1>10

(* An interrupt that is no longer enabled goes.                             *)
LEMMA WriteC027Bus ==
  ASSUME NEW a, BusInv(a), NEW val
  PROVE  BusInv(adb_write_c027(a, val))
<1>0. Whole(a)
  BY BusWhole
<1> DEFINE kept == Bits(val) \intersect {MOUSE_INT, DATA_INT, KBD_INT}
           off == a.c027 \ kept
<1>1. PICK t : t = adb_write_c027(a, val)
  OBVIOUS
<1>2. Writes(a, t, {"c027", "irqs", "halted"})
  BY <1>0, <1>1 DEF adb_write_c027, Writes, Whole
<1>3. t.c027 = kept
  BY <1>0, <1>1, BusFieldsAre DEF adb_write_c027, BusFields, Whole
<1>4. t.irqs = a.irqs \ ({x \in {"mouse"} : MOUSE_INT \in off}
                         \union {x \in {"data"} : DATA_INT \in off})
  BY <1>0, <1>1, BusFieldsAre DEF adb_write_c027, BusFields, Whole
<1> HIDE DEF kept
<1>5. /\ t.interrupt_byte = a.interrupt_byte /\ t.data = a.data
      /\ t.cmd_data = a.cmd_data /\ t.kbd_reg3 = a.kbd_reg3
      /\ t.kbd_reg0 = a.kbd_reg0 /\ t.valid_data = a.valid_data /\ Whole(t)
  BY ONLY <1>2, BusSame
<1>6. "srq" \in t.irqs <=> "srq" \in a.irqs
  BY <1>4
<1>7. "data" \in t.irqs => "data" \in a.irqs /\ (DATA_INT \in a.c027 => DATA_INT \in kept)
  BY <1>4
<1>8. "mouse" \in t.irqs => "mouse" \in a.irqs /\ (MOUSE_INT \in a.c027 => MOUSE_INT \in kept)
  BY <1>4
<1>9. Answers(t)
  BY <1>3, <1>5, <1>7 DEF BusInv, Answers
<1>10. Points(t)
  BY <1>3, <1>5, <1>8 DEF BusInv, Points
<1> QED
  BY <1>1, <1>5, <1>6, <1>9, <1>10, BusAnswers
-------------------------------------------------------------------------------
(* The controller as a whole.                                               *)
AdbInv == BusInv(adb) /\ session \in DOMAIN Sessions

LEMMA InitBus == Init => AdbInv
<1> SUFFICES ASSUME Init PROVE AdbInv
  OBVIOUS
<1>1. Whole(adb)
  BY DEF Init, Whole, Fields
<1>2. /\ adb.irqs = {} /\ adb.kbd_reg0 = << >> /\ adb.cmd_data = << >>
      /\ adb.kbd_reg3 = (0 * 4096) + 1538
  <2>1. PICK start : start = adb_init
    OBVIOUS
  <2>2. start.irqs = {} /\ start.kbd_reg0 = << >> /\ start.cmd_data = << >>
    BY <2>1, Zenon DEF adb_init
  <2>3. start.kbd_reg3 = 1538
    BY <2>1, Zenon DEF adb_init
  <2> QED
    BY <2>1, <2>2, <2>3 DEF Init
<1>3. IsSeq(adb.kbd_reg0) /\ adb.cmd_data \in Seq(Byte)
  BY <1>2 DEF IsSeq
<1>4. MayAsk(adb.kbd_reg3)
  BY <1>2 DEF MayAsk
<1> QED
  BY <1>1, <1>2, <1>3, <1>4 DEF AdbInv, BusInv, BusTyped, Asks, Answers, Points, Init

(* What the host does: keys, pastes, frames, the focus and the mouse.       *)
LEMMA HostKeeps == AdbInv /\ Host => AdbInv'
<1> SUFFICES ASSUME BusInv(adb), session \in DOMAIN Sessions, Host PROVE AdbInv'
  BY DEF AdbInv
<1>1. CASE \E stroke \in Allowed.strokes, window \in Allowed.windows :
             KeyDown(stroke[1], stroke[2], window) \/ KeyUp(stroke[1], stroke[2], window)
  <2>1. ASSUME NEW raw, NEW c, NEW window, KeyDown(raw, c, window) PROVE AdbInv'
    BY <2>1, PhysicalKeyBus DEF AdbInv, KeyDown, Spend
  <2>2. ASSUME NEW raw, NEW c, NEW window, KeyUp(raw, c, window) PROVE AdbInv'
    BY <2>2, PhysicalKeyBus DEF AdbInv, KeyUp, Spend
  <2> QED
    BY <1>1, <2>1, <2>2
<1>2. CASE \E key \in Allowed.pastes : Paste(key)
  BY <1>2, PasteBus DEF AdbInv, Paste, Spend
<1>3. CASE \E n \in Allowed.frames : Frames(n)
  <2>1. PICK left : adb' = [adb EXCEPT !.repeat_left = left]
    BY <1>3 DEF Frames
  <2>2. Writes(adb, adb', {"repeat_left"})
    BY <2>1, BusWhole DEF Writes, Whole
  <2>3. BusInv(adb')
    BY <2>2, BusKept DEF BusFields
  <2> QED
    BY <1>3, <2>3 DEF AdbInv, Frames, Spend
<1>4. CASE \E bits \in Allowed.masks : ModifierMask(bits)
  BY <1>4, HostTellsBus DEF AdbInv, ModifierMask, Spend
<1>5. CASE Allowed.focus /\ (FocusLost \/ FocusGained)
  BY <1>5, HostTellsBus DEF AdbInv, FocusLost, FocusGained, Spend
<1>6. ASSUME NEW x, NEW y, NEW relative, NEW buttons, NEW valid, NEW recentre, NEW narrow,
             NEW window, Mouse(x, y, relative, buttons, valid, recentre, narrow, window)
      PROVE  AdbInv'
  BY <1>6, UpdateMouseBus DEF AdbInv, Mouse, Spend
<1>7. CASE Allowed.waits /\ Wait
  BY <1>7 DEF AdbInv, Wait, Spend
<1> QED
  BY <1>1, <1>2, <1>3, <1>4, <1>5, <1>6, <1>7 DEF Host

(* What the program does: the bytes it writes and reads, and the keys and     *)
(* the mouse it reads.                                                        *)
LEMMA ProgramKeeps == AdbInv /\ Program => AdbInv'
<1> SUFFICES ASSUME BusInv(adb), session \in DOMAIN Sessions, Program PROVE AdbInv'
  BY DEF AdbInv
<1>1. CASE \E val \in Allowed.commands : adb.state # "in_cmd" /\ WriteC026(val)
  BY <1>1, WriteC026Bus DEF AdbInv, WriteC026, Spend
<1>2. CASE \E val \in Allowed.params : adb.state = "in_cmd" /\ WriteC026(val)
  <2>1. PICK val \in Allowed.params : WriteC026(val)
    BY <1>2
  <2>2. val \in Byte
    BY <2>1, SessionsAssumption DEF Allowed
  <2> QED
    BY <2>1, <2>2, WriteC026Bus DEF AdbInv, WriteC026, Spend
<1>3. CASE \E val \in Allowed.enables : WriteC027(val)
  BY <1>3, WriteC027Bus DEF AdbInv, WriteC027, Spend
<1>4. CASE ReadC000
  BY <1>4, C000Bus DEF AdbInv, ReadC000
<1>5. CASE AccessC010
  BY <1>5, C010Bus DEF AdbInv, AccessC010
<1>6. CASE ReadC026
  BY <1>6, ReadC026Bus DEF AdbInv, ReadC026
<1>7. CASE ReadC027
  BY <1>7, HaltBus DEF AdbInv, ReadC027
<1>8. ASSUME NEW em_active, NEW superhires, ReadC024(em_active, superhires)
      PROVE  AdbInv'
  BY <1>8, ReadMouseBus DEF AdbInv, ReadC024
<1> QED
  BY <1>1, <1>2, <1>3, <1>4, <1>5, <1>6, <1>7, <1>8 DEF Program

LEMMA BusHolds == Spec => []AdbInv
<1>1. AdbInv /\ [Next]_vars => AdbInv'
  <2> SUFFICES ASSUME AdbInv, [Next]_vars PROVE AdbInv'
    OBVIOUS
  <2>1. CASE UNCHANGED vars
    BY <2>1 DEF AdbInv, vars
  <2> QED
    BY <2>1, HostKeeps, ProgramKeeps DEF Next
<1> QED
  BY InitBus, <1>1, PTL DEF Spec

(* The interrupts of the ADB are never without a cause, whatever the user     *)
(* types and the program writes: while keys wait for a poll the request for   *)
(* service stands and the interrupt byte says so, no poll, reset, flush or    *)
(* full buffer leaves one without the other, and a data or mouse interrupt    *)
(* has its enable and something to be read (adb.c).                           *)
THEOREM InterruptsExplained == Spec => []IrqsExplained
<1>1. AdbInv => IrqsExplained
  BY DEF AdbInv, BusInv, Asks, Answers, Points, IrqsExplained
<1> QED
  BY BusHolds, <1>1, PTL
-------------------------------------------------------------------------------
(* The latch: the keys that wait, from the place shown at $C000 on, and what  *)
(* can get into them.                                                         *)
KeyFields == {"kbd_buf", "chars_buffered", "paste_buf", "paste_rd", "panel", "a2code_down"}

LEMMA KeyFieldsAre == KeyFields \subseteq Fields
BY FieldsAre DEF KeyFields

(* t has the keys of a; whatever else differs.                              *)
Keeps(a, t) == Whole(t) /\ \A f \in KeyFields : t[f] = a[f]

LEMMA KeepsFields ==
  ASSUME NEW a, NEW t, Keeps(a, t)
  PROVE  /\ t.kbd_buf = a.kbd_buf /\ t.chars_buffered = a.chars_buffered
         /\ t.paste_buf = a.paste_buf /\ t.paste_rd = a.paste_rd
         /\ t.panel = a.panel /\ t.a2code_down = a.a2code_down /\ Whole(t)
BY DEF Keeps, KeyFields

LEMMA KeepsItself == ASSUME NEW a, Whole(a) PROVE Keeps(a, a)
BY DEF Keeps

LEMMA KeepsAfter ==
  ASSUME NEW a, NEW t, NEW u, Keeps(a, t), Keeps(t, u)
  PROVE  Keeps(a, u)
BY DEF Keeps

LEMMA WritesKeeps ==
  ASSUME NEW a, NEW t, NEW W, Writes(a, t, W), W \intersect KeyFields = {}
  PROVE  Keeps(a, t)
BY KeyFieldsAre DEF Writes, Keeps

(* Characters with the strobe, as Fifo has them; Keycode is an Apple key's. *)
KeyChar == 128..255
Keycode == 0..127

(* Every key that waits has its strobe, and so has every pasted one.          *)
LatchInv(a) ==
  /\ Whole(a)
  /\ a.kbd_buf \in [0..7 -> 0..255]
  /\ a.chars_buffered \in 0..7
  /\ \A i \in 0..7 : i < a.chars_buffered => a.kbd_buf[i] \in KeyChar
  /\ a.paste_buf \in Seq(KeyChar) /\ a.paste_rd \in Nat
  /\ a.panel \in BOOLEAN
  /\ a.a2code_down \in Keycode

(* What may become of the latch in a step, in the order of Fifo's actions.    *)
Stays(a, t) ==
  /\ t.chars_buffered = a.chars_buffered /\ t.panel = a.panel
  /\ \A i \in 0..6 : t.kbd_buf[i] = a.kbd_buf[i]
Enters(a, t) ==
  /\ a.chars_buffered < 7 /\ t.chars_buffered = a.chars_buffered + 1 /\ t.panel = a.panel
  /\ \A i \in 0..6 : i < a.chars_buffered => t.kbd_buf[i] = a.kbd_buf[i]
Leaves(a, t) ==
  /\ t.chars_buffered = IF a.chars_buffered = 0 THEN 0 ELSE a.chars_buffered - 1
  /\ a.chars_buffered < 2 => t.kbd_buf[0] = a.kbd_buf[0] % 128
  /\ \A i \in 0..6 : i + 1 < a.chars_buffered => t.kbd_buf[i] = a.kbd_buf[i + 1]
  /\ t.panel = a.panel
Pastes(a, t) ==
  a.chars_buffered = 1 /\ t.chars_buffered = 1 /\ t.panel = a.panel
Clears(a, t) ==
  t.chars_buffered = 0 /\ t.kbd_buf = a.kbd_buf /\ t.panel = a.panel
Emptied(t) == t.chars_buffered = 0 => t.kbd_buf[0] < 128
Switches(a, t) ==
  /\ t.panel = ~a.panel
  /\ IF a.panel THEN t.kbd_buf = a.kbd_buf /\ t.chars_buffered = a.chars_buffered
     ELSE t.chars_buffered < 2 /\ Emptied(t)

Step(a, t) ==
  Stays(a, t) \/ Enters(a, t) \/ Leaves(a, t) \/ Pastes(a, t) \/ Clears(a, t) \/ Switches(a, t)

LEMMA KeepsLatch ==
  ASSUME NEW a, LatchInv(a), NEW t, Keeps(a, t)
  PROVE  LatchInv(t) /\ Stays(a, t)
<1>1. /\ t.kbd_buf = a.kbd_buf /\ t.chars_buffered = a.chars_buffered
      /\ t.paste_buf = a.paste_buf /\ t.paste_rd = a.paste_rd
      /\ t.panel = a.panel /\ t.a2code_down = a.a2code_down /\ Whole(t)
  BY KeepsFields
<1>2. LatchInv(t)
  BY <1>1 DEF LatchInv
<1> QED
  BY <1>1, <1>2 DEF Stays

(* Steps may have other fields change before and after them.                *)
LEMMA KeepsThenStep ==
  ASSUME NEW a, NEW b, NEW t, Keeps(a, b), Step(b, t)
  PROVE  Step(a, t)
<1>1. /\ b.kbd_buf = a.kbd_buf /\ b.chars_buffered = a.chars_buffered /\ b.panel = a.panel
  BY KeepsFields
<1> QED
  BY <1>1 DEF Step, Stays, Enters, Leaves, Pastes, Clears, Switches, Emptied

LEMMA StepThenKeeps ==
  ASSUME NEW a, NEW b, LatchInv(b), NEW t, Step(a, b), Keeps(b, t)
  PROVE  LatchInv(t) /\ Step(a, t)
<1>1. /\ t.kbd_buf = b.kbd_buf /\ t.chars_buffered = b.chars_buffered /\ t.panel = b.panel
  BY KeepsFields
<1>2. Step(a, t)
  BY <1>1 DEF Step, Stays, Enters, Leaves, Pastes, Clears, Switches, Emptied
<1> QED
  BY <1>2, KeepsLatch

-------------------------------------------------------------------------------
(* The keys' characters are numbers, so that each is buffered as one.       *)
LEMMA KeysAreTriples == \A k \in 1..128 : Keys[k] \in Int \X Int \X Int
BY SMTT(60) DEF Keys

LEMMA CharacterIsInt ==
  ASSUME NEW a, NEW a2code \in Keycode
  PROVE  (CharacterOf(a, a2code) % 128) + 128 \in KeyChar
<1>1. a2code + 1 \in 1..128 /\ a2code \in 0..127
  BY DEF Keycode
<1>2. \A column \in 1..3 : Ascii(a2code, column) \in Int
  <2>1. Keys[a2code + 1] \in Int \X Int \X Int
    BY <1>1, KeysAreTriples
  <2>2. g_a2_key_to_ascii[a2code] = Keys[a2code + 1]
    BY <1>1, Zenon DEF g_a2_key_to_ascii
  <2> HIDE DEF Keys
  <2> QED
    BY <2>1, <2>2 DEF Ascii
<1>3. Column(a, a2code) \in 1..3
  BY DEF Column
<1>4. CharacterOf(a, a2code) \in Int
  BY <1>2, <1>3 DEF CharacterOf
<1> QED
  BY <1>4 DEF KeyChar

LEMMA BufferKeyLatch ==
  ASSUME NEW a, LatchInv(a), NEW a2code \in Keycode, NEW key \in KeyChar,
         NEW t, t = BufferKey(a, a2code, key)
  PROVE  LatchInv(t) /\ (Enters(a, t) \/ (a.chars_buffered = 7 /\ Stays(a, t)))
<1>0. Whole(a)
  BY DEF LatchInv
<1>1. Writes(a, t, LatchFields)
  BY <1>0, BufferKeyWrites
<1>2. /\ t.paste_buf = a.paste_buf /\ t.paste_rd = a.paste_rd /\ t.panel = a.panel /\ Whole(t)
  BY <1>1, KeyFieldsAre DEF Writes, LatchFields, KeyFields
<1>3. t.kbd_buf = [a.kbd_buf EXCEPT ![a.chars_buffered] = key]
  BY <1>0, KeyFieldsAre DEF BufferKey, KeyFields, Whole
<1>4. t.chars_buffered = IF a.chars_buffered + 1 >= 8 THEN 7 ELSE a.chars_buffered + 1
  BY <1>0, KeyFieldsAre DEF BufferKey, KeyFields, Whole, MAX_KBD_BUF
<1>5. t.a2code_down = a2code
  BY <1>0, KeyFieldsAre DEF BufferKey, KeyFields, Whole
<1>6. /\ a.kbd_buf \in [0..7 -> 0..255] /\ a.chars_buffered \in 0..7
      /\ \A i \in 0..7 : i < a.chars_buffered => a.kbd_buf[i] \in KeyChar
  BY DEF LatchInv
<1>7. /\ t.kbd_buf \in [0..7 -> 0..255] /\ t.kbd_buf[a.chars_buffered] = key
      /\ \A i \in 0..7 : i # a.chars_buffered => t.kbd_buf[i] = a.kbd_buf[i]
  BY <1>3, <1>6 DEF KeyChar
<1>8. t.chars_buffered \in 0..7
  BY <1>4, <1>6
<1>9. \A i \in 0..7 : i < t.chars_buffered => t.kbd_buf[i] \in KeyChar
  BY <1>4, <1>6, <1>7
<1>10. LatchInv(t)
  BY <1>2, <1>5, <1>7, <1>8, <1>9 DEF LatchInv
<1>11. CASE a.chars_buffered = 7
  BY <1>2, <1>4, <1>7, <1>10, <1>11 DEF Stays
<1>12. CASE a.chars_buffered < 7
  <2>1. t.chars_buffered = a.chars_buffered + 1
    BY <1>4, <1>6, <1>12
  <2>2. \A i \in 0..6 : i < a.chars_buffered => t.kbd_buf[i] = a.kbd_buf[i]
    BY <1>6, <1>7
  <2>3. t.panel = a.panel
    BY <1>2
  <2>4. Enters(a, t)
    BY ONLY <1>12, <2>1, <2>2, <2>3 DEF Enters
  <2> QED
    BY <1>10, <2>4
<1> QED
  BY <1>6, <1>11, <1>12

(* A key event: at most one key more, and none for a key that goes up.      *)
Typed(a, t) == Stays(a, t) \/ Enters(a, t)

LEMMA KeepsAround ==
  ASSUME NEW a, NEW b, Keeps(a, b), NEW c, Typed(b, c), LatchInv(c), NEW t, Keeps(c, t)
  PROVE  LatchInv(t) /\ Typed(a, t)
<1>1. /\ b.kbd_buf = a.kbd_buf /\ b.chars_buffered = a.chars_buffered /\ b.panel = a.panel
  BY KeepsFields
<1>2. /\ t.kbd_buf = c.kbd_buf /\ t.chars_buffered = c.chars_buffered /\ t.panel = c.panel
  BY KeepsFields
<1>3. Typed(a, t)
  BY <1>1, <1>2 DEF Typed, Stays, Enters
<1> QED
  BY <1>3, KeepsLatch

LEMMA KeyEventLatch ==
  ASSUME NEW a, LatchInv(a), NEW a2code, NEW is_up \in BOOLEAN, is_up \/ a2code \in Keycode,
         NEW t, t = adb_key_event(a, a2code, is_up)
  PROVE  LatchInv(t) /\ Typed(a, t) /\ (is_up => Keeps(a, t))
<1>0. Whole(a)
  BY DEF LatchInv
<1> DEFINE desk == ~is_up /\ a2code = 53 /\ {CTRL, CMD} \subseteq a.c025
           call(bus) == IF desk THEN adb_add_data_int(bus) ELSE a
           ascii == CharacterOf(a, a2code)
           special == Special(ascii)
           press(called) == IF HasAscii(a2code)
                            THEN BufferKey(called, a2code, (ascii % 128) + 128) ELSE called
           release == IF HasAscii(a2code) /\ a2code = a.a2code_down
                      THEN [a EXCEPT !.hard_key_down = FALSE, !.key_down = FALSE]
                      ELSE a
           change(pressed, released) ==
             IF is_up THEN [released EXCEPT !.c025 = @ \ special]
             ELSE [pressed EXCEPT !.c025 = @ \union special]
           latch(new) ==
             [new EXCEPT !.c025 = IF new.key_down THEN @ \ {LATCH} ELSE @ \union {LATCH}]
<1>1. PICK bus : bus = [a EXCEPT !.interrupt_byte = @ \union {DESK_MGR}]
  OBVIOUS
<1>2. PICK called : called = call(bus)
  OBVIOUS
<1>3. PICK pressed : pressed = press(called)
  OBVIOUS
<1>4. PICK released : released = release
  OBVIOUS
<1>5. PICK new : new = change(pressed, released)
  OBVIOUS
<1>6. t = latch(new)
  BY <1>1, <1>2, <1>3, <1>4, <1>5 DEF adb_key_event
<1>7. Keeps(a, bus)
  BY <1>0, <1>1 DEF Keeps, KeyFields, Whole
<1>8. Whole(bus)
  BY <1>7 DEF Keeps
<1>9. Keeps(bus, adb_add_data_int(bus))
  BY <1>8, DataIntFacts, WritesKeeps DEF KeyFields
<1>10. Keeps(a, called)
  BY <1>0, <1>2, <1>7, <1>9, KeepsItself, KeepsAfter
<1>11. LatchInv(called)
  BY <1>10, KeepsLatch
<1>12. Keeps(a, released)
  BY <1>0, <1>4 DEF Keeps, KeyFields, Whole
<1>13. Whole(released)
  BY <1>12 DEF Keeps
<1> HIDE DEF special
<1>14. CASE is_up
  <2>0. new = [released EXCEPT !.c025 = @ \ special]
    BY <1>5, <1>14
  <2>1. Keeps(released, new)
    BY <1>13, <2>0 DEF Keeps, KeyFields, Whole
  <2>2. Whole(new)
    BY <2>1 DEF Keeps
  <2>3. Keeps(new, t)
    BY <1>6, <2>2 DEF Keeps, KeyFields, Whole
  <2>4. Keeps(a, t)
    BY <1>12, <2>1, <2>3, KeepsAfter
  <2> QED
    BY <2>4, KeepsLatch DEF Typed
<1>15. CASE ~is_up
  <2>1. (ascii % 128) + 128 \in KeyChar
    BY <1>15, CharacterIsInt
  <2>2. LatchInv(pressed) /\ Typed(called, pressed)
    <3>1. CASE HasAscii(a2code)
      BY <1>3, <1>11, <1>15, <2>1, <3>1, BufferKeyLatch DEF Typed
    <3>2. CASE ~HasAscii(a2code)
      BY <1>3, <1>11, <3>2 DEF Typed, Stays
    <3> QED
      BY <3>1, <3>2
  <2>3. Whole(pressed)
    BY <2>2 DEF LatchInv
  <2>4. Keeps(pressed, new)
    BY <1>5, <1>15, <2>3 DEF Keeps, KeyFields, Whole
  <2>5. Whole(new)
    BY <2>4 DEF Keeps
  <2>6. Keeps(new, t)
    BY <1>6, <2>5 DEF Keeps, KeyFields, Whole
  <2>7. Keeps(pressed, t)
    BY <2>4, <2>6, KeepsAfter
  <2> QED
    BY <1>10, <1>15, <2>2, <2>7, KeepsAround
<1> QED
  BY <1>14, <1>15

LEMMA VirtualKeyLatch ==
  ASSUME NEW a, LatchInv(a), NEW a2code, NEW is_up \in BOOLEAN, is_up \/ a2code \in Keycode,
         NEW t, t = adb_virtual_key_update(a, a2code, is_up)
  PROVE  LatchInv(t) /\ Typed(a, t) /\ (is_up => Keeps(a, t))
<1>0. Whole(a)
  BY DEF LatchInv
<1>1. PICK u : u = [a EXCEPT !.keys_down = IF is_up THEN @ \ {a2code}
                                           ELSE @ \union {a2code}]
  OBVIOUS
<1>2. Keeps(a, u)
  BY <1>0, <1>1 DEF Keeps, KeyFields, Whole
<1>3. LatchInv(u)
  BY <1>2, KeepsLatch
<1>4. PICK v : v = adb_key_event(u, a2code, is_up)
  OBVIOUS
<1>5. LatchInv(v) /\ Typed(u, v) /\ (is_up => Keeps(u, v))
  BY <1>3, <1>4, KeyEventLatch
<1>6. Keeps(v, v)
  BY <1>5, KeepsItself DEF LatchInv
<1>7. LatchInv(v) /\ Typed(a, v) /\ (is_up => Keeps(a, v))
  BY <1>2, <1>5, <1>6, KeepsAround, KeepsAfter
<1>8. Typed(a, a) /\ Keeps(a, a)
  BY <1>0, KeepsItself DEF Typed, Stays
<1> QED
  BY <1>1, <1>4, <1>7, <1>8 DEF adb_virtual_key_update

LEMMA HeldBackKeeps ==
  ASSUME NEW a, Whole(a), NEW a2code, NEW is_up
  PROVE  Keeps(a, adb_kbd_reg0_data(a, a2code, is_up))
<1> DEFINE key == a2code + (IF is_up THEN 128 ELSE 0)
<1>1. PICK u : u = [a EXCEPT !.kbd_reg0 = Append(@, key)]
  OBVIOUS
<1>2. Keeps(a, u)
  BY <1>1 DEF Keeps, KeyFields, Whole
<1>3. Whole(u)
  BY <1>2 DEF Keeps
<1>4. Keeps(u, adb_add_kbd_srq(u))
  BY <1>3 DEF adb_add_kbd_srq, Keeps, KeyFields, Whole
<1>5. Keeps(a, adb_add_kbd_srq(u))
  BY <1>2, <1>4, KeepsAfter
<1>6. Keeps(a, Halt(a))
  BY HaltWrites, WritesKeeps DEF KeyFields
<1> QED
  BY <1>1, <1>5, <1>6 DEF adb_kbd_reg0_data

LEMMA MaybeKeyLatch ==
  ASSUME NEW a, LatchInv(a), NEW a2code, NEW is_up \in BOOLEAN, is_up \/ a2code \in Keycode,
         NEW t, t = adb_maybe_virtual_key_update(a, a2code, is_up)
  PROVE  LatchInv(t) /\ Typed(a, t) /\ (is_up => Keeps(a, t))
<1>1. CASE t = adb_virtual_key_update(a, a2code, is_up)
  BY <1>1, VirtualKeyLatch
<1>2. CASE t = adb_kbd_reg0_data(a, a2code, is_up)
  <2>1. Keeps(a, t)
    BY <1>2, HeldBackKeeps DEF LatchInv
  <2> QED
    BY <2>1, KeepsLatch DEF Typed
<1> QED
  BY <1>1, <1>2 DEF adb_maybe_virtual_key_update

(* A paste: its next character when no key waits.                           *)
LEMMA PasteStateLatch ==
  ASSUME NEW a, LatchInv(a), NEW t, t = adb_paste_update_state(a)
  PROVE  /\ LatchInv(t) /\ t.panel = a.panel
         /\ \/ t.chars_buffered = a.chars_buffered /\ t.kbd_buf = a.kbd_buf
            \/ a.chars_buffered = 0 /\ t.chars_buffered = 1
<1>0. Whole(a)
  BY DEF LatchInv
<1>1. CASE a.paste_rd >= Len(a.paste_buf)
  <2>1. t = [a EXCEPT !.paste_buf = << >>, !.paste_rd = 0]
    BY <1>1 DEF adb_paste_update_state
  <2>2. Writes(a, t, {"paste_buf", "paste_rd"})
    BY <1>0, <2>1 DEF Writes, Whole
  <2>3. /\ t.kbd_buf = a.kbd_buf /\ t.chars_buffered = a.chars_buffered /\ t.panel = a.panel
        /\ t.a2code_down = a.a2code_down /\ Whole(t)
    BY <2>2, KeyFieldsAre DEF Writes, KeyFields
  <2>4. t.paste_buf = << >> /\ t.paste_rd = 0
    BY <1>0, <2>1, KeyFieldsAre DEF KeyFields, Whole
  <2>5. t.paste_buf \in Seq(KeyChar) /\ t.paste_rd \in Nat
    BY <2>4
  <2>6. LatchInv(t)
    BY <2>3, <2>5 DEF LatchInv
  <2> QED
    BY <2>3, <2>6
<1>2. CASE a.paste_rd < Len(a.paste_buf) /\ a.chars_buffered = 0
  <2>1. t = [a EXCEPT !.kbd_buf[0] = a.paste_buf[a.paste_rd + 1], !.paste_rd = @ + 1,
                      !.chars_buffered = 1]
    BY <1>2 DEF adb_paste_update_state, LatchInv
  <2>2. Writes(a, t, {"kbd_buf", "paste_rd", "chars_buffered"})
    BY <1>0, <2>1 DEF Writes, Whole
  <2>3. /\ t.paste_buf = a.paste_buf /\ t.panel = a.panel
        /\ t.a2code_down = a.a2code_down /\ Whole(t)
    BY <2>2, KeyFieldsAre DEF Writes, KeyFields
  <2>4. t.paste_rd = a.paste_rd + 1 /\ t.chars_buffered = 1
    BY <1>0, <2>1, KeyFieldsAre DEF KeyFields, Whole
  <2>5. t.kbd_buf = [a.kbd_buf EXCEPT ![0] = a.paste_buf[a.paste_rd + 1]]
    BY <1>0, <2>1, KeyFieldsAre DEF KeyFields, Whole
  <2>6. a.paste_buf[a.paste_rd + 1] \in KeyChar
    BY <1>2 DEF LatchInv
  <2>7. /\ t.kbd_buf \in [0..7 -> 0..255]
        /\ \A i \in 0..7 : i < t.chars_buffered => t.kbd_buf[i] \in KeyChar
    <3>1. a.kbd_buf \in [0..7 -> 0..255]
      BY DEF LatchInv
    <3>2. t.kbd_buf \in [0..7 -> 0..255] /\ t.kbd_buf[0] \in KeyChar
      BY <2>5, <2>6, <3>1 DEF KeyChar
    <3> QED
      BY <2>4, <3>2
  <2>8. t.paste_rd \in Nat /\ t.chars_buffered \in 0..7
    BY <2>4 DEF LatchInv
  <2>9. LatchInv(t)
    BY <2>3, <2>7, <2>8 DEF LatchInv
  <2> QED
    BY <1>2, <2>3, <2>4, <2>9
<1>3. CASE a.paste_rd < Len(a.paste_buf) /\ a.chars_buffered # 0
  BY <1>3 DEF adb_paste_update_state, LatchInv
<1>4. a.paste_rd >= Len(a.paste_buf) \/ a.paste_rd < Len(a.paste_buf)
  <2>1. a.paste_rd \in Nat /\ a.paste_buf \in Seq(KeyChar)
    BY DEF LatchInv
  <2>2. Len(a.paste_buf) \in Nat
    BY <2>1
  <2> QED
    BY ONLY <2>1, <2>2
<1> QED
  BY ONLY <1>1, <1>2, <1>3, <1>4

LEMMA PasteLatch ==
  ASSUME NEW a, LatchInv(a), NEW key, NEW t, t = adb_paste_add_buf(a, key)
  PROVE  LatchInv(t) /\ Typed(a, t)
<1>0. Whole(a)
  BY DEF LatchInv
<1> DEFINE taken == PasteKey(a.paste_last, key)
<1>1. PICK noted : noted = [a EXCEPT !.paste_last = key]
  OBVIOUS
<1>2. Keeps(a, noted)
  BY <1>0, <1>1 DEF Keeps, KeyFields, Whole
<1>3. LatchInv(noted) /\ Stays(a, noted) /\ Whole(noted)
  BY <1>2, KeepsLatch DEF LatchInv
<1>4. PICK put : put = [noted EXCEPT !.paste_buf = Append(@, taken + 128)]
  OBVIOUS
<1>5. PICK pasted : pasted = adb_paste_update_state(put)
  OBVIOUS
<1>6. IF taken \notin 1..127 \/ Len(a.paste_buf) >= MaxPaste
      THEN t = noted ELSE t = pasted
  BY <1>1, <1>2, <1>4, <1>5, KeepsFields DEF adb_paste_add_buf
<1> HIDE DEF taken
<1>7. ASSUME taken \in 1..127 PROVE LatchInv(pasted) /\ Typed(a, pasted)
  <2>1. Writes(noted, put, {"paste_buf"})
    BY <1>3, <1>4 DEF Writes, Whole
  <2>2. /\ put.kbd_buf = noted.kbd_buf /\ put.chars_buffered = noted.chars_buffered
        /\ put.panel = noted.panel /\ put.paste_rd = noted.paste_rd
        /\ put.a2code_down = noted.a2code_down /\ Whole(put)
    BY <2>1, KeyFieldsAre DEF Writes, KeyFields
  <2>3. put.paste_buf = Append(noted.paste_buf, taken + 128)
    BY <1>3, <1>4, KeyFieldsAre DEF KeyFields, Whole
  <2>4. put.paste_buf \in Seq(KeyChar)
    <3>1. noted.paste_buf \in Seq(KeyChar) /\ taken + 128 \in KeyChar
      BY <1>3, <1>7 DEF LatchInv, KeyChar
    <3> QED
      BY <2>3, <3>1
  <2>5. LatchInv(put)
    BY <1>3, <2>2, <2>4 DEF LatchInv
  <2>6. /\ LatchInv(pasted) /\ pasted.panel = put.panel
        /\ \/ pasted.chars_buffered = put.chars_buffered /\ pasted.kbd_buf = put.kbd_buf
           \/ put.chars_buffered = 0 /\ pasted.chars_buffered = 1
    BY <1>5, <2>5, PasteStateLatch
  <2>7. /\ noted.kbd_buf = a.kbd_buf /\ noted.chars_buffered = a.chars_buffered
        /\ noted.panel = a.panel
    BY <1>2, KeepsFields
  <2>8. CASE pasted.chars_buffered = put.chars_buffered /\ pasted.kbd_buf = put.kbd_buf
    BY <2>2, <2>6, <2>7, <2>8 DEF Typed, Stays
  <2>9. CASE put.chars_buffered = 0 /\ pasted.chars_buffered = 1
    BY <2>2, <2>6, <2>7, <2>9 DEF Typed, Enters
  <2> QED
    BY <2>6, <2>8, <2>9
<1> QED
  BY <1>3, <1>6, <1>7 DEF Typed

(* $C010: the key shown goes, and the next one or a pasted one comes.       *)
LEMMA C010Latch ==
  ASSUME NEW a, LatchInv(a), NEW t, t = adb_access_c010(a)
  PROVE  LatchInv(t) /\ (Leaves(a, t) \/ Pastes(a, t))
<1>0. Whole(a)
  BY DEF LatchInv
<1> DEFINE n == a.chars_buffered
<1>1. PICK dropped : dropped = [a EXCEPT !.read_no_update = 0, !.kbd_buf[0] = @ % 128]
  OBVIOUS
<1>2. PICK moved : moved = [dropped EXCEPT
                  !.kbd_buf = [i \in 0..7 |-> IF i + 1 < n THEN dropped.kbd_buf[i + 1] ELSE @[i]],
                  !.chars_buffered = n - 1]
  OBVIOUS
<1>3. PICK next : next = IF n = 0 THEN dropped
                         ELSE IF n = 1 THEN adb_paste_update_state(moved) ELSE moved
  OBVIOUS
<1>4. t = [next EXCEPT !.c025 = @ \ {REPEAT}]
  <2>1. adb_access_c010(a) = [next EXCEPT !.c025 = @ \ {REPEAT}]
    BY ONLY <1>1, <1>2, <1>3 DEF adb_access_c010
  <2> QED
    BY <2>1
<1>5. /\ a.kbd_buf \in [0..7 -> 0..255] /\ n \in 0..7
      /\ \A i \in 0..7 : i < n => a.kbd_buf[i] \in KeyChar
  BY DEF LatchInv
<1>6. Writes(a, dropped, {"read_no_update", "kbd_buf"})
  BY <1>0, <1>1 DEF Writes, Whole
<1>7. /\ dropped.chars_buffered = n /\ dropped.paste_buf = a.paste_buf
      /\ dropped.paste_rd = a.paste_rd /\ dropped.panel = a.panel
      /\ dropped.a2code_down = a.a2code_down /\ Whole(dropped)
  BY <1>6, KeyFieldsAre DEF Writes, KeyFields
<1>8. dropped.kbd_buf = [a.kbd_buf EXCEPT ![0] = @ % 128]
  BY <1>0, <1>1, KeyFieldsAre DEF KeyFields, Whole
<1>9. /\ dropped.kbd_buf \in [0..7 -> 0..255] /\ dropped.kbd_buf[0] = a.kbd_buf[0] % 128
      /\ \A i \in 1..7 : dropped.kbd_buf[i] = a.kbd_buf[i]
  BY <1>5, <1>8
<1>10. Writes(dropped, moved, {"kbd_buf", "chars_buffered"})
  BY <1>2, <1>7 DEF Writes, Whole
<1>11. /\ moved.paste_buf = a.paste_buf
       /\ moved.paste_rd = a.paste_rd /\ moved.panel = a.panel
       /\ moved.a2code_down = a.a2code_down /\ Whole(moved)
  BY <1>7, <1>10, KeyFieldsAre DEF Writes, KeyFields
<1>12. moved.chars_buffered = n - 1
  BY <1>2, <1>7, KeyFieldsAre DEF KeyFields, Whole
<1>13. moved.kbd_buf = [i \in 0..7 |-> IF i + 1 < n THEN dropped.kbd_buf[i + 1]
                                       ELSE dropped.kbd_buf[i]]
  BY <1>2, <1>7, KeyFieldsAre DEF KeyFields, Whole
<1>14. \A i \in 0..7 : i + 1 < n => moved.kbd_buf[i] = a.kbd_buf[i + 1]
  BY <1>5, <1>9, <1>13
<1>15. n < 2 => moved.kbd_buf[0] = a.kbd_buf[0] % 128
  BY <1>5, <1>9, <1>13
<1>16. moved.kbd_buf \in [0..7 -> 0..255]
  <2>1. PICK old : old = dropped.kbd_buf
    OBVIOUS
  <2>2. \A i \in 0..7 : i + 1 < n => i + 1 \in 0..7
    BY <1>5
  <2>3. \A i \in 0..7 : (IF i + 1 < n THEN old[i + 1] ELSE old[i]) \in 0..255
    BY ONLY <1>9, <2>1, <2>2
  <2> QED
    BY ONLY <1>13, <2>1, <2>3
<1>17. ASSUME n # 0 PROVE LatchInv(moved)
  <2>1. moved.chars_buffered \in 0..7
    BY <1>5, <1>12, <1>17
  <2>2. \A i \in 0..7 : i < moved.chars_buffered => moved.kbd_buf[i] \in KeyChar
    BY <1>5, <1>12, <1>14
  <2> QED
    BY <1>11, <1>16, <2>1, <2>2 DEF LatchInv
<1>18. ASSUME LatchInv(next), Leaves(a, next) \/ Pastes(a, next)
       PROVE  LatchInv(t) /\ (Leaves(a, t) \/ Pastes(a, t))
  <2>1. Keeps(next, t)
    BY <1>4, <1>18 DEF LatchInv, Keeps, KeyFields, Whole
  <2>2. /\ t.kbd_buf = next.kbd_buf /\ t.chars_buffered = next.chars_buffered
        /\ t.panel = next.panel
    BY <2>1, KeepsFields
  <2>3. LatchInv(t)
    BY <1>18, <2>1, KeepsLatch
  <2> QED
    BY <1>18, <2>2, <2>3 DEF Leaves, Pastes
<1>19. CASE n = 0
  <2>1. next = dropped
    BY <1>3, <1>19
  <2>2. LatchInv(next)
    <3>1. a.paste_buf \in Seq(KeyChar) /\ a.paste_rd \in Nat /\ a.panel \in BOOLEAN
      BY DEF LatchInv
    <3>2. a.a2code_down \in Keycode
      BY DEF LatchInv
    <3>3. \A i \in 0..7 : ~(i < dropped.chars_buffered)
      BY <1>7, <1>19
    <3> QED
      BY ONLY <1>5, <1>7, <1>9, <2>1, <3>1, <3>2, <3>3 DEF LatchInv
  <2>3. Leaves(a, next)
    BY <1>7, <1>9, <1>19, <2>1 DEF Leaves
  <2> QED
    BY <1>18, <2>2, <2>3
<1>20. CASE n = 1
  <2>1. next = adb_paste_update_state(moved)
    BY <1>3, <1>20
  <2>2. /\ LatchInv(next) /\ next.panel = moved.panel
        /\ \/ next.chars_buffered = moved.chars_buffered /\ next.kbd_buf = moved.kbd_buf
           \/ moved.chars_buffered = 0 /\ next.chars_buffered = 1
    BY <1>17, <1>20, <2>1, PasteStateLatch
  <2>3. CASE next.chars_buffered = moved.chars_buffered /\ next.kbd_buf = moved.kbd_buf
    <3>1. Leaves(a, next)
      BY <1>11, <1>12, <1>15, <1>20, <2>2, <2>3 DEF Leaves
    <3> QED
      BY <1>18, <2>2, <3>1
  <2>4. CASE next.chars_buffered = 1
    <3>1. Pastes(a, next)
      BY <1>11, <1>20, <2>2, <2>4 DEF Pastes
    <3> QED
      BY <1>18, <2>2, <3>1
  <2> QED
    BY <2>2, <2>3, <2>4
<1>21. CASE n > 1
  <2>1. next = moved
    BY <1>3, <1>21
  <2>2. LatchInv(next)
    BY <1>17, <1>21, <2>1
  <2>3. Leaves(a, next)
    BY <1>5, <1>11, <1>12, <1>14, <1>21, <2>1 DEF Leaves
  <2> QED
    BY <1>18, <2>2, <2>3
<1> QED
  BY <1>5, <1>19, <1>20, <1>21

(* $C000: a key read too often goes, and a key held down comes again.       *)
LEMMA C000Latch ==
  ASSUME NEW a, LatchInv(a), NEW t, t = adb_read_c000(a)
  PROVE  /\ LatchInv(t)
         /\ Strobe(a) => Stays(a, t) \/ (a.chars_buffered > 1 /\ Leaves(a, t))
         /\ ~Strobe(a) => Typed(a, t)
<1>0. Whole(a)
  BY DEF LatchInv
<1>1. CASE Strobe(a)
  <2>1. PICK counted : counted = [a EXCEPT !.read_no_update = Min({@ + 1, ReadsCounted})]
    OBVIOUS
  <2>2. t = IF a.read_no_update > 5 /\ a.chars_buffered > 1
            THEN adb_access_c010(counted) ELSE counted
    BY <1>1, <2>1 DEF adb_read_c000
  <2>3. Keeps(a, counted)
    BY <1>0, <2>1 DEF Keeps, KeyFields, Whole
  <2>4. LatchInv(counted) /\ Stays(a, counted)
    BY <2>3, KeepsLatch
  <2>5. CASE t = counted
    BY <1>1, <2>4, <2>5
  <2>6. CASE t = adb_access_c010(counted) /\ a.chars_buffered > 1
    <3>1. LatchInv(t) /\ (Leaves(counted, t) \/ Pastes(counted, t))
      BY <2>4, <2>6, C010Latch
    <3>2. /\ counted.kbd_buf = a.kbd_buf /\ counted.chars_buffered = a.chars_buffered
          /\ counted.panel = a.panel
      BY <2>3, KeepsFields
    <3>3. ~Pastes(counted, t)
      BY <2>6, <3>2 DEF Pastes
    <3>4. Leaves(a, t)
      BY <3>1, <3>2, <3>3 DEF Leaves
    <3> QED
      BY <1>1, <2>6, <3>1, <3>4
  <2> QED
    BY <2>2, <2>5, <2>6
<1>2. CASE ~Strobe(a) /\ a.key_down /\ a.repeat_left = 0
  <2>1. PICK repeats : repeats = [a EXCEPT !.c025 = @ \union {REPEAT}]
    OBVIOUS
  <2>2. PICK again : again = adb_key_event(repeats, a.a2code_down, FALSE)
    OBVIOUS
  <2>3. t = [again EXCEPT !.repeat_left = a.repeat_rate]
    BY <1>2, <2>1, <2>2 DEF adb_read_c000
  <2>4. Keeps(a, repeats)
    BY <1>0, <2>1 DEF Keeps, KeyFields, Whole
  <2>5. LatchInv(repeats)
    BY <2>4, KeepsLatch
  <2>6. LatchInv(again) /\ Typed(repeats, again)
    <3>1. PICK a2code : a2code = a.a2code_down
      OBVIOUS
    <3>2. a2code \in Keycode /\ again = adb_key_event(repeats, a2code, FALSE)
      BY <2>2, <3>1 DEF LatchInv
    <3> QED
      BY ONLY <2>5, <3>2, KeyEventLatch
  <2>7. Keeps(again, t)
    BY <2>3, <2>6 DEF LatchInv, Keeps, KeyFields, Whole
  <2> QED
    BY <1>2, <2>4, <2>6, <2>7, KeepsAround
<1>3. CASE ~Strobe(a) /\ ~(a.key_down /\ a.repeat_left = 0)
  BY <1>3 DEF adb_read_c000, Typed, Stays
<1> QED
  BY <1>1, <1>2, <1>3

-------------------------------------------------------------------------------
(* The panel tosses the keys: each toss takes one at least, and what was      *)
(* pasted may go on coming one by one.                                        *)
LEMMA ShownFacts ==
  ASSUME NEW a, LatchInv(a)
  PROVE  a.kbd_buf[0] \in 0..255 /\ (0 < a.chars_buffered => a.kbd_buf[0] >= 128)
<1>1. /\ a.kbd_buf \in [0..7 -> 0..255] /\ a.chars_buffered \in 0..7 /\ 0 \in 0..7
      /\ \A i \in 0..7 : i < a.chars_buffered => a.kbd_buf[i] \in KeyChar
  BY DEF LatchInv
<1> QED
  BY <1>1 DEF KeyChar

LEMMA TossLatch ==
  ASSUME NEW a, LatchInv(a), NEW t, t = TossKey(a)
  PROVE  /\ LatchInv(t) /\ t.panel = a.panel /\ Emptied(t)
         /\ t.chars_buffered < 2 \/ t.chars_buffered < a.chars_buffered
<1>1. PICK read : read = adb_read_c000(a)
  OBVIOUS
<1>2. t = IF Strobe(read) THEN adb_access_c010(read) ELSE read
  BY <1>1 DEF TossKey
<1>3. /\ LatchInv(read)
      /\ Strobe(a) => Stays(a, read) \/ (a.chars_buffered > 1 /\ Leaves(a, read))
      /\ ~Strobe(a) => Typed(a, read)
  BY <1>1, C000Latch
<1>4. a.chars_buffered \in 0..7 /\ read.chars_buffered \in 0..7
  BY <1>3 DEF LatchInv
<1>5. a.kbd_buf[0] \in 0..255 /\ (0 < a.chars_buffered => a.kbd_buf[0] >= 128)
  BY ShownFacts
<1>6. read.panel = a.panel
  BY <1>3 DEF Typed, Stays, Enters, Leaves
<1>7. read.chars_buffered < 2 \/ read.chars_buffered <= a.chars_buffered
  <2>1. CASE Strobe(a)
    BY <1>3, <1>4, <2>1 DEF Stays, Leaves
  <2>2. CASE ~Strobe(a)
    <3>1. a.chars_buffered = 0
      BY <1>4, <1>5, <2>2 DEF Strobe
    <3> QED
      BY <1>3, <1>4, <2>2, <3>1 DEF Typed, Stays, Enters
  <2> QED
    BY <2>1, <2>2
<1>8. CASE Strobe(read)
  <2>1. LatchInv(t) /\ (Leaves(read, t) \/ Pastes(read, t))
    BY <1>2, <1>3, <1>8, C010Latch
  <2>2. t.panel = a.panel
    BY <1>6, <2>1 DEF Leaves, Pastes
  <2>3. t.chars_buffered < 2 \/ t.chars_buffered < a.chars_buffered
    BY <1>4, <1>7, <2>1 DEF Leaves, Pastes
  <2>4. Emptied(t)
    <3>1. read.kbd_buf[0] \in 0..255
      BY <1>3 DEF LatchInv
    <3>2. read.kbd_buf[0] % 128 < 128
      BY <3>1
    <3> QED
      BY <1>4, <2>1, <3>2 DEF Emptied, Leaves, Pastes
  <2> QED
    BY <2>1, <2>2, <2>3, <2>4
<1>9. CASE ~Strobe(read)
  <2>1. read.kbd_buf[0] \in 0..255 /\ (0 < read.chars_buffered => read.kbd_buf[0] >= 128)
    BY <1>3, ShownFacts
  <2>2. t = read /\ t.kbd_buf[0] < 128
    BY <1>2, <1>9, <2>1 DEF Strobe
  <2>3. t.chars_buffered = 0
    BY <1>4, <2>1, <2>2
  <2> QED
    BY <1>3, <1>6, <2>2, <2>3 DEF Emptied
<1> QED
  BY <1>8, <1>9

LEMMA TossKeysLatch ==
  ASSUME NEW a, LatchInv(a), NEW t, t = TossKeys(a)
  PROVE  LatchInv(t) /\ t.panel = a.panel /\ Emptied(t) /\ t.chars_buffered < 2
<1>1. PICK f : /\ TossKeys(a) = f[20] /\ f[0] = a
               /\ \A n \in 1 .. 20 : f[n] = TossKey(f[n - 1])
  BY TossRun
<1> DEFINE Tossed(n) == /\ LatchInv(f[n]) /\ f[n].panel = a.panel
                        /\ n > 0 => Emptied(f[n])
                        /\ f[n].chars_buffered < 2 \/ f[n].chars_buffered <= 7 - n
           S == { n \in Nat : n <= 20 => Tossed(n) }
<1>2. 0 \in S
  <2>1. a.chars_buffered \in 0..7
    BY DEF LatchInv
  <2>2. Tossed(0)
    BY <1>1, <2>1
  <2> QED
    BY <2>2
<1>3. ASSUME NEW n \in Nat, n \in S PROVE n + 1 \in S
  <2> SUFFICES ASSUME n + 1 <= 20 PROVE Tossed(n + 1)
    OBVIOUS
  <2>1. Tossed(n) /\ f[n + 1] = TossKey(f[n])
    BY <1>1, <1>3
  <2>2. /\ LatchInv(f[n + 1]) /\ f[n + 1].panel = f[n].panel /\ Emptied(f[n + 1])
        /\ f[n + 1].chars_buffered < 2 \/ f[n + 1].chars_buffered < f[n].chars_buffered
    BY <2>1, TossLatch
  <2>3. f[n].chars_buffered \in 0..7 /\ f[n + 1].chars_buffered \in 0..7
    BY <2>1, <2>2 DEF LatchInv
  <2> QED
    BY <2>1, <2>2, <2>3
<1>4. 20 \in S
  <2> HIDE DEF S
  <2>1. Nat \subseteq S
    BY <1>2, <1>3, NatSetInduction
  <2> QED
    BY <2>1
<1>5. Tossed(20)
  BY <1>4
<1>6. t.chars_buffered \in 0..7
  BY <1>1, <1>5 DEF LatchInv
<1> QED
  BY <1>1, <1>5, <1>6

LEMMA PanelLatch ==
  ASSUME NEW a, LatchInv(a), NEW t, t = cfg_toggle_config_panel(a)
  PROVE  LatchInv(t) /\ Switches(a, t)
<1>0. Whole(a) /\ a.panel \in BOOLEAN
  BY DEF LatchInv
<1>1. PICK u : u = [a EXCEPT !.panel = ~a.panel]
  OBVIOUS
<1>2. PICK v : v = IF ~a.panel THEN TossKeys(u) ELSE u
  OBVIOUS
<1>3. t = [v EXCEPT !.repeat_left = 60]
  BY <1>1, <1>2 DEF cfg_toggle_config_panel, cfg_set_config_panel
<1>4. Writes(a, u, {"panel"})
  BY <1>0, <1>1 DEF Writes, Whole
<1>5. /\ u.kbd_buf = a.kbd_buf /\ u.chars_buffered = a.chars_buffered
      /\ u.paste_buf = a.paste_buf /\ u.paste_rd = a.paste_rd
      /\ u.a2code_down = a.a2code_down /\ Whole(u)
  BY <1>4, KeyFieldsAre DEF Writes, KeyFields
<1>6. u.panel = ~a.panel
  BY <1>0, <1>1, KeyFieldsAre, Zenon DEF KeyFields, Whole
<1>7. u.panel \in BOOLEAN
  BY <1>6
<1>8. LatchInv(u)
  BY <1>5, <1>7 DEF LatchInv
<1>9. LatchInv(v) /\ Switches(a, v)
  <2>1. CASE a.panel
    BY <1>2, <1>5, <1>6, <1>8, <2>1 DEF Switches
  <2>2. CASE ~a.panel
    <3>1. v = TossKeys(u)
      BY <1>2, <2>2
    <3>2. LatchInv(v) /\ v.panel = u.panel /\ Emptied(v) /\ v.chars_buffered < 2
      BY <1>8, <3>1, TossKeysLatch
    <3> QED
      BY <1>6, <2>2, <3>2 DEF Switches
  <2> QED
    BY <2>1, <2>2
<1>10. Keeps(v, t)
  BY <1>3, <1>9 DEF LatchInv, Keeps, KeyFields, Whole
<1>11. t.kbd_buf = v.kbd_buf /\ t.chars_buffered = v.chars_buffered /\ t.panel = v.panel
  BY <1>10, KeepsFields
<1> QED
  BY <1>9, <1>10, <1>11, KeepsLatch DEF Switches, Emptied

(* A reset forgets the keys that wait, and the one shown stays shown.       *)
LEMMA ResetLatch ==
  ASSUME NEW a, LatchInv(a), NEW t, t = adb_reset(a)
  PROVE  LatchInv(t) /\ Clears(a, t)
<1>0. Whole(a)
  BY DEF LatchInv
<1>1. Whole(t)
  BY <1>0, ZenonT(60) DEF adb_reset, Whole
<1>2. t.chars_buffered = 0 /\ t.paste_buf = << >> /\ t.paste_rd = 0
  <2>1. t.chars_buffered = 0
    BY <1>0, KeyFieldsAre DEF adb_reset, KeyFields, Whole
  <2>2. t.paste_buf = << >>
    BY <1>0, KeyFieldsAre DEF adb_reset, KeyFields, Whole
  <2>3. t.paste_rd = 0
    BY <1>0, KeyFieldsAre DEF adb_reset, KeyFields, Whole
  <2> QED
    BY <2>1, <2>2, <2>3
<1>3. t.kbd_buf = a.kbd_buf /\ t.panel = a.panel /\ t.a2code_down = a.a2code_down
  <2>1. t.kbd_buf = a.kbd_buf
    BY <1>0, KeyFieldsAre DEF adb_reset, KeyFields, Whole
  <2>2. t.panel = a.panel
    BY <1>0, KeyFieldsAre DEF adb_reset, KeyFields, Whole
  <2>3. t.a2code_down = a.a2code_down
    BY <1>0, KeyFieldsAre DEF adb_reset, KeyFields, Whole
  <2> QED
    BY <2>1, <2>2, <2>3
<1>4. /\ t.chars_buffered \in 0..7 /\ t.paste_buf \in Seq(KeyChar) /\ t.paste_rd \in Nat
      /\ \A i \in 0..7 : i < t.chars_buffered => t.kbd_buf[i] \in KeyChar
  BY <1>2
<1>5. LatchInv(t)
  BY <1>1, <1>3, <1>4 DEF LatchInv
<1> QED
  BY <1>2, <1>3, <1>5 DEF Clears

(* What leaves the latch alone stays in the invariant.                      *)
LEMMA KeepsStep ==
  ASSUME NEW a, LatchInv(a), NEW t, Keeps(a, t)
  PROVE  LatchInv(t) /\ Step(a, t)
BY KeepsLatch DEF Step

LEMMA HotKeyLatch ==
  ASSUME NEW a, LatchInv(a), NEW special, NEW t, t = HotKeyPressed(a, special)
  PROVE  LatchInv(t) /\ Step(a, t)
<1>0. Whole(a)
  BY DEF LatchInv
<1>1. Keeps(a, Halt(a)) /\ Keeps(a, adb_increment_speed(a)) /\ Keeps(a, a)
  BY <1>0, HaltWrites, SpeedWrites, WritesKeeps, KeepsItself DEF KeyFields
<1>2. \A what : Keeps(a, Toggle(a, what))
  BY <1>0, ToggleWrites, WritesKeeps DEF KeyFields
<1>3. PICK u : u = [a EXCEPT !.warp = ~@, !.hide = ~a.warp]
  OBVIOUS
<1>4. PICK v : v = [a EXCEPT !.toggles = @ \union {"copy"}]
  OBVIOUS
<1>5. Keeps(a, u) /\ Keeps(a, v)
  BY <1>0, <1>3, <1>4 DEF Keeps, KeyFields, Whole
<1>6. CASE special = 4
  <2>1. t = cfg_toggle_config_panel(a)
    BY <1>6 DEF HotKeyPressed
  <2> QED
    BY <2>1, PanelLatch DEF Step
<1>7. CASE special # 4
  <2>1. Keeps(a, t)
    <3>1. CASE special \in {5, 6, 7}
      BY <1>1, <1>2, <3>1 DEF HotKeyPressed
    <3>2. CASE special = 8
      BY <1>3, <1>5, <3>2 DEF HotKeyPressed
    <3>3. CASE special = 9
      <4>1. t = IF CTRL \in a.c025 THEN v
                ELSE Toggle(a, IF SHIFT \in a.c025 THEN "swap_paddles" ELSE "invert_paddles")
        BY <1>4, <3>3 DEF HotKeyPressed
      <4> QED
        BY <1>2, <1>5, <4>1
    <3>4. CASE special \notin 4 .. 9
      BY <1>1, <3>4 DEF HotKeyPressed
    <3> QED
      BY <1>7, <3>1, <3>2, <3>3, <3>4
  <2> QED
    BY <2>1, KeepsStep
<1> QED
  BY <1>6, <1>7

(* A key that goes up leaves the latch alone under whatever code.           *)
LEMMA ReleaseKeeps ==
  ASSUME NEW a, LatchInv(a), NEW raw
  PROVE  Keeps(a, Release(a, raw))
<1>1. PICK u : u = adb_maybe_virtual_key_update(a, a.a2codes[raw], TRUE)
  OBVIOUS
<1>2. Keeps(a, u)
  BY <1>1, MaybeKeyLatch
<1>3. PICK v : v = [u EXCEPT !.a2codes = Restrict(@, DOMAIN @ \ {raw})]
  OBVIOUS
<1>4. Keeps(u, v)
  BY <1>2, <1>3 DEF Keeps, KeyFields, Whole
<1>5. Keeps(a, v) /\ Keeps(a, a)
  BY <1>2, <1>4, KeepsAfter, KeepsItself DEF LatchInv
<1> QED
  BY <1>1, <1>3, <1>5 DEF Release

LEMMA PassKeyLatch ==
  ASSUME NEW a, LatchInv(a), NEW raw, NEW a2code \in Keycode, NEW is_up \in BOOLEAN,
         NEW t, t = PassKey(a, raw, a2code, is_up)
  PROVE  LatchInv(t) /\ Typed(a, t)
<1>1. PICK passed : passed = adb_maybe_virtual_key_update(a, a2code, is_up)
  OBVIOUS
<1>2. LatchInv(passed) /\ Typed(a, passed) /\ (is_up => Keeps(a, passed))
  BY <1>1, MaybeKeyLatch
<1>3. t = IF is_up THEN Release(passed, raw) ELSE passed
  BY <1>1 DEF PassKey
<1>4. CASE is_up
  <2>1. t = Release(passed, raw)
    BY <1>3, <1>4
  <2>2. Keeps(passed, t)
    BY <1>2, <2>1, ReleaseKeeps
  <2>3. Keeps(a, t)
    BY <1>2, <1>4, <2>2, KeepsAfter
  <2> QED
    BY <2>3, KeepsLatch DEF Typed
<1>5. CASE ~is_up
  BY <1>2, <1>3, <1>5
<1> QED
  BY <1>4, <1>5

(* The codes a key of the host may be given are keycodes.                   *)
LEMMA RemappedIsKeycode ==
  ASSUME NEW a2code \in Keycode
  PROVE  /\ Remapped(a2code) \in Keycode
         /\ \A ascii : JoystickRemap(ascii, a2code) \in Keycode
         /\ \A hot \in DOMAIN FunctionRemap : FunctionRemap[hot] \in Keycode
<1>1. Remapped(a2code) \in Keycode
  <2> DEFINE arrow == IF a2code \in 123..126 THEN a2code - 64 ELSE a2code
  <2>1. arrow \in Keycode
    BY DEF Keycode
  <2>2. Remapped(a2code) \in {arrow, 55, 58}
    <3> HIDE DEF arrow
    <3>1. Remapped(a2code) = CASE SwapCommandOption /\ arrow = 55 -> 58
                               [] SwapCommandOption /\ arrow = 58 -> 55
                               [] OTHER -> arrow
      BY Zenon DEF Remapped, arrow
    <3> QED
      BY <3>1
  <2> QED
    BY <2>1, <2>2 DEF Keycode
<1>2. \A ascii : JoystickRemap(ascii, a2code) \in Keycode
  BY DEF JoystickRemap, Keycode
<1>3. \A hot \in DOMAIN FunctionRemap : FunctionRemap[hot] \in Keycode
  BY DEF FunctionRemap, Keycode
<1> QED
  BY <1>1, <1>2, <1>3

LEMMA SmallestCode ==
  ASSUME NEW S, S \subseteq Keycode, S # {}
  PROVE  Min(S) \in S
<1> DEFINE Lower == { n \in Nat : \A x \in S : n < x }
<1>1. \A y \in S : y \in Nat
  BY DEF Keycode
<1>2. \E low \in S : \A y \in S : low <= y
  <2> SUFFICES ASSUME \A low \in S : \E y \in S : y < low PROVE FALSE
    BY <1>1
  <2>1. 0 \in Lower
    BY <1>1
  <2>2. ASSUME NEW n \in Nat, n \in Lower PROVE n + 1 \in Lower
    BY <1>1, <2>2
  <2>3. Nat \subseteq Lower
    <3> HIDE DEF Lower
    <3> QED
      BY <2>1, <2>2, NatSetInduction
  <2>4. PICK x : x \in S
    OBVIOUS
  <2> QED
    BY <1>1, <2>3, <2>4
<1> QED
  BY <1>2 DEF Min

LEMMA FoundIsKeycode ==
  ASSUME NEW c \in Nat, NEW raw \in Keycode, NEW shift
  PROVE  adb_ascii_to_a2code(c, raw, shift).a2code \in Keycode
<1> DEFINE intl == International(c)
<1>1. intl \in Nat
  BY DEF International
<1> HIDE DEF intl
<1>2. CASE intl > 127 \/ (Type(raw) = KEYPAD /\ intl \in 48..57) \/ CodesOf[intl] = {}
  BY <1>2 DEF adb_ascii_to_a2code, intl
<1>3. CASE intl <= 127 /\ CodesOf[intl] # {}
  <2>1. CodesOf[intl] \subseteq Keycode
    BY <1>1, <1>3 DEF CodesOf, Keycode
  <2>2. Min(CodesOf[intl]) \in Keycode
    BY <1>3, <2>1, SmallestCode
  <2> QED
    BY <2>2 DEF adb_ascii_to_a2code, intl
<1> QED
  BY <1>1, <1>2, <1>3

(* A key of the host: a reset, a hot key, or at most one more key.          *)
LEMMA KeyOfLatch ==
  ASSUME NEW a, LatchInv(a), NEW window, NEW raw, NEW found \in Keycode,
         NEW is_up \in BOOLEAN, NEW t, t = KeyOf(a, window, raw, found, is_up)
  PROVE  LatchInv(t) /\ Step(a, t)
<1>0. Whole(a)
  BY DEF LatchInv
<1> DEFINE hot == HotKey(found)
           remapped == hot \in DOMAIN FunctionRemap
           a2code == IF remapped THEN FunctionRemap[hot] ELSE found
           ascii == Ascii(found, 1) % 256
           keypad == Type(found) = KEYPAD
           joystick == IF keypad THEN KeypadKey(a, ascii, is_up) ELSE a
           code == IF keypad THEN JoystickRemap(ascii, a2code) ELSE a2code
           passed == PassKey(joystick, raw, code, is_up)
           other == IF window = "debug" THEN a
                    ELSE IF keypad /\ JoystickIgnores(ascii) THEN joystick ELSE passed
<1>1. Keeps(a, KeypadKey(a, ascii, is_up))
  BY <1>0 DEF KeypadKey, Keeps, KeyFields, Whole
<1>2. Keeps(a, joystick)
  BY <1>0, <1>1, KeepsItself
<1>3. code \in Keycode
  <2> HIDE DEF hot, ascii, keypad
  <2>1. a2code \in Keycode
    BY RemappedIsKeycode
  <2> QED
    BY <2>1, RemappedIsKeycode
<1> HIDE DEF code, joystick
<1>4. LatchInv(joystick)
  BY <1>2, KeepsLatch
<1>5. LatchInv(passed) /\ Typed(joystick, passed)
  BY <1>3, <1>4, PassKeyLatch
<1> HIDE DEF passed
<1>6. Step(joystick, passed)
  BY <1>5 DEF Step, Typed
<1>7. Step(a, passed)
  BY <1>2, <1>6, KeepsThenStep
<1>8. Keeps(a, a)
  BY <1>0, KeepsItself
<1>9. LatchInv(other) /\ Step(a, other)
  BY <1>2, <1>5, <1>7, <1>8, KeepsStep
<1>10. t \in {adb_reset(a), HotKeyPressed(a, hot), other}
  BY DEF KeyOf, joystick, passed, code
<1> HIDE DEF other, hot
<1>11. CASE t = adb_reset(a)
  BY <1>11, ResetLatch DEF Step
<1>12. CASE t = HotKeyPressed(a, hot)
  BY <1>12, HotKeyLatch
<1> QED
  BY <1>9, <1>10, <1>11, <1>12

LEMMA PhysicalKeyLatch ==
  ASSUME NEW a, LatchInv(a), NEW window, NEW raw \in Keycode, NEW c \in Nat,
         NEW is_up \in BOOLEAN, NEW t, t = adb_physical_key_update(a, window, raw, c, is_up)
  PROVE  LatchInv(t) /\ Step(a, t)
<1>0. Whole(a)
  BY DEF LatchInv
<1>1. PICK found : found = IF c > 0
                           THEN adb_ascii_to_a2code(c, raw, SHIFT \in a.c025)
                           ELSE [a2code |-> raw, shift |-> SHIFT \in a.c025]
  OBVIOUS
<1> DEFINE override == found.a2code # 0 /\ found.shift # (SHIFT \in a.c025)
<1>2. PICK shifted : shifted = IF override THEN [a EXCEPT !.c025 = SymDiff(@, {SHIFT})]
                               ELSE a
  OBVIOUS
<1>3. PICK noted : noted = IF c > 0 /\ ~is_up
                           THEN Note(shifted, raw, found.a2code)
                           ELSE shifted
  OBVIOUS
<1>4. PICK handled : handled = KeyOf(noted, window, raw, Remapped(found.a2code), is_up)
  OBVIOUS
<1>5. t = IF override THEN [handled EXCEPT !.c025 = a.c025] ELSE handled
  BY <1>1, <1>2, <1>3, <1>4 DEF adb_physical_key_update
<1> HIDE DEF override
<1>6. Keeps(a, shifted)
  BY <1>0, <1>2 DEF Keeps, KeyFields, Whole
<1>7. Whole(shifted)
  BY <1>6 DEF Keeps
<1>8. Keeps(shifted, noted)
  BY <1>3, <1>7, NoteWrites, WritesKeeps, KeepsItself DEF KeyFields
<1>9. Keeps(a, noted)
  BY <1>6, <1>8, KeepsAfter
<1>10. LatchInv(noted)
  BY <1>9, KeepsLatch
<1>11. found.a2code \in Keycode
  BY <1>1, FoundIsKeycode
<1>12. Remapped(found.a2code) \in Keycode
  BY <1>11, RemappedIsKeycode
<1>13. LatchInv(handled) /\ Step(noted, handled)
  BY <1>4, <1>10, <1>12, KeyOfLatch
<1>14. Step(a, handled)
  BY <1>9, <1>13, KeepsThenStep
<1>15. Keeps(handled, t)
  BY <1>5, <1>13 DEF LatchInv, Keeps, KeyFields, Whole
<1> QED
  BY <1>13, <1>14, <1>15, StepThenKeeps

(* The rest leaves the keyboard alone: what the host tells besides keys,    *)
BoardFields ==
  KeyFields \union {"keys_down", "a2codes", "mode", "kbd_dev", "kbd_ctl", "c025", "state"}
KeepsBoard(a, t) == Whole(t) /\ \A f \in BoardFields : t[f] = a[f]

LEMMA KeepsBoardItself == ASSUME NEW a, Whole(a) PROVE KeepsBoard(a, a)
BY DEF KeepsBoard

LEMMA KeepsBoardAfter ==
  ASSUME NEW a, NEW t, NEW u, KeepsBoard(a, t), KeepsBoard(t, u)
  PROVE  KeepsBoard(a, u)
BY DEF KeepsBoard

LEMMA WritesKeepsBoard ==
  ASSUME NEW a, NEW t, NEW W, Writes(a, t, W), W \intersect BoardFields = {}
  PROVE  KeepsBoard(a, t)
<1>1. BoardFields \subseteq Fields
  BY KeyFieldsAre, FieldsAre DEF BoardFields
<1> QED
  BY <1>1 DEF Writes, KeepsBoard

LEMMA KeepsBoardKeeps ==
  ASSUME NEW a, NEW t, KeepsBoard(a, t)
  PROVE  Keeps(a, t)
BY DEF KeepsBoard, Keeps, BoardFields

LEMMA MaskKeeps ==
  ASSUME NEW a, Whole(a), NEW new, NEW mask
  PROVE  Writes(a, adb_update_c025_mask(a, new, mask), {"c025"})
BY DEF adb_update_c025_mask, Writes, Whole

LEMMA HostTellsKeeps ==
  ASSUME NEW a, Whole(a), NEW has_focus
  PROVE  /\ KeepsBoard(a, adb_nonmain_check(a))
         /\ KeepsBoard(a, adb_kbd_repeat_off(adb_mainwin_focus(a, has_focus)))
<1>1. KeepsBoard(a, adb_nonmain_check(a))
  BY DEF adb_nonmain_check, KeepsBoard, BoardFields, KeyFields, Whole
<1>2. PICK u : u = IF has_focus THEN a ELSE adb_nonmain_check(a)
  OBVIOUS
<1>3. KeepsBoard(a, u)
  BY <1>1, <1>2, KeepsBoardItself
<1>4. PICK v : v = [u EXCEPT !.focus = has_focus]
  OBVIOUS
<1>5. Whole(u)
  BY <1>3 DEF KeepsBoard
<1>6. KeepsBoard(u, v)
  BY <1>4, <1>5 DEF KeepsBoard, BoardFields, KeyFields, Whole
<1>7. Whole(v)
  BY <1>6 DEF KeepsBoard
<1>8. KeepsBoard(v, adb_kbd_repeat_off(v))
  BY <1>7 DEF adb_kbd_repeat_off, KeepsBoard, BoardFields, KeyFields, Whole
<1>9. adb_mainwin_focus(a, has_focus) = v
  BY <1>2, <1>4 DEF adb_mainwin_focus
<1> QED
  BY <1>1, <1>3, <1>6, <1>8, <1>9, KeepsBoardAfter

(* the mouse,                                                               *)
LEMMA MovedKeeps ==
  ASSUME NEW a, Whole(a), NEW p, NEW buttons, NEW valid, NEW dfcyc
  PROVE  KeepsBoard(a, Moved(a, p, buttons, valid, dfcyc))
<1> DEFINE old == Newest(a)
           moved == old.x # p.x \/ old.y # p.y
           pressed(button) == button \in (buttons \intersect valid) \ old.buttons
           changed == LEFT \in valid /\ (LEFT \in buttons) # (LEFT \in old.buttons)
<1>1. PICK placed : placed = [a EXCEPT !.fifo[1] = [x |-> p.x, y |-> p.y, dfcyc |-> dfcyc,
                                                    buttons |-> old.buttons]]
  OBVIOUS
<1>2. PICK sped : sped = IF pressed(RIGHT) THEN adb_increment_speed(placed) ELSE placed
  OBVIOUS
<1>3. PICK halted : halted = IF pressed(MIDDLE) THEN Halt(sped) ELSE sped
  OBVIOUS
<1>4. PICK queued : queued = Queued(halted, changed)
  OBVIOUS
<1>5. PICK new : new = [queued EXCEPT !.fifo[1].buttons =
                          (buttons \intersect valid) \union (old.buttons \ valid)]
  OBVIOUS
<1>6. PICK valued : valued = [new EXCEPT !.valid_data = TRUE]
  OBVIOUS
<1>7. Moved(a, p, buttons, valid, dfcyc) =
        IF (moved \/ changed) /\ MouseOn(new) THEN adb_add_mouse_int(valued) ELSE new
  BY <1>1, <1>2, <1>3, <1>4, <1>5, <1>6, ZenonT(60) DEF Moved
<1> HIDE DEF old, moved, pressed, changed
<1>8. KeepsBoard(a, placed) /\ Whole(placed)
  BY <1>1 DEF KeepsBoard, BoardFields, KeyFields, Whole
<1>9. KeepsBoard(placed, sped) /\ Whole(sped)
  BY <1>2, <1>8, SpeedWrites, WritesKeepsBoard, KeepsBoardItself DEF BoardFields, KeyFields, KeepsBoard
<1>10. KeepsBoard(sped, halted) /\ Whole(halted)
  BY <1>3, <1>9, HaltWrites, WritesKeepsBoard, KeepsBoardItself DEF BoardFields, KeyFields, KeepsBoard
<1>11. KeepsBoard(halted, queued) /\ Whole(queued)
  BY <1>4, <1>10 DEF Queued, KeepsBoard, BoardFields, KeyFields, Whole
<1>12. KeepsBoard(queued, new) /\ Whole(new)
  BY <1>5, <1>11 DEF KeepsBoard, BoardFields, KeyFields, Whole
<1>13. KeepsBoard(new, valued) /\ Whole(valued)
  BY <1>6, <1>12 DEF KeepsBoard, BoardFields, KeyFields, Whole
<1>14. KeepsBoard(valued, adb_add_mouse_int(valued))
  BY <1>13 DEF adb_add_mouse_int, KeepsBoard, BoardFields, KeyFields, Whole
<1>15. KeepsBoard(a, new)
  BY <1>8, <1>9, <1>10, <1>11, <1>12, KeepsBoardAfter
<1> QED
  BY <1>7, <1>13, <1>14, <1>15, KeepsBoardAfter

LEMMA UpdateMouseKeeps ==
  ASSUME NEW a, Whole(a), NEW window, NEW x, NEW y, NEW relative, NEW buttons,
         NEW valid, NEW recentre, NEW narrow, NEW dfcyc
  PROVE  KeepsBoard(a, adb_update_mouse(a, window, x, y, relative, buttons, valid,
                                   recentre, narrow, dfcyc))
<1>1. PICK seen : seen = IF window = "debug" THEN adb_nonmain_check(a) ELSE a
  OBVIOUS
<1>2. PICK place : place = Located(seen, x, y, relative)
  OBVIOUS
<1>3. PICK at : at = place.at
  OBVIOUS
<1>4. PICK shown : shown = [at EXCEPT !.hide = @ /\ (at.warp \/ ~at.unhide)]
  OBVIOUS
<1>5. PICK young : young = mouse_compress_fifo(shown, dfcyc)
  OBVIOUS
<1>6. PICK p : p = Scaled(young, place, narrow)
  OBVIOUS
<1>7. PICK recent : recent = Recentred(young, p)
  OBVIOUS
<1>8. PICK moved : moved = Moved(young, p, IF recentre THEN {} ELSE buttons,
                                 IF recentre THEN 0..2 ELSE valid, dfcyc)
  OBVIOUS
<1>9. adb_update_mouse(a, window, x, y, relative, buttons, valid, recentre, narrow, dfcyc)
        = IF window = "debug" THEN at
          ELSE IF recentre /\ young.warp THEN recent ELSE moved
  BY <1>1, <1>2, <1>3, <1>4, <1>5, <1>6, <1>7, <1>8 DEF adb_update_mouse
<1>10. KeepsBoard(a, seen) /\ Whole(seen)
  BY <1>1, HostTellsKeeps, KeepsBoardItself DEF KeepsBoard
<1>11. KeepsBoard(seen, at) /\ Whole(at)
  <2>1. Writes(seen, at, {"raw_x", "raw_y", "unhide"})
    BY <1>2, <1>3, <1>10 DEF Located, Writes, Whole
  <2> QED
    BY <2>1, WritesKeepsBoard DEF BoardFields, KeyFields, KeepsBoard
<1>12. KeepsBoard(at, shown) /\ Whole(shown)
  BY <1>4, <1>11 DEF KeepsBoard, BoardFields, KeyFields, Whole
<1>13. KeepsBoard(shown, young) /\ Whole(young)
  BY <1>5, <1>12, CompressWrites, WritesKeepsBoard DEF BoardFields, KeyFields, KeepsBoard
<1>14. KeepsBoard(young, recent)
  BY <1>7, <1>13 DEF Recentred, KeepsBoard, BoardFields, KeyFields, Whole
<1>15. KeepsBoard(young, moved)
  BY <1>8, <1>13, MovedKeeps
<1>16. KeepsBoard(a, at) /\ KeepsBoard(a, young)
  BY <1>10, <1>11, <1>12, <1>13, KeepsBoardAfter
<1> QED
  BY <1>9, <1>14, <1>15, <1>16, KeepsBoardAfter

LEMMA ClearsKeep ==
  ASSUME NEW a, Whole(a)
  PROVE  /\ KeepsBoard(a, adb_clear_data_int(a)) /\ KeepsBoard(a, adb_clear_mouse_int(a))
         /\ KeepsBoard(a, adb_clear_kbd_srq(a)) /\ KeepsBoard(a, adb_add_data_int(a))
BY DEF adb_clear_data_int, adb_clear_mouse_int, adb_clear_kbd_srq, adb_add_data_int,
       KeepsBoard, BoardFields, KeyFields, Whole

LEMMA ReadMouseKeeps ==
  ASSUME NEW a, Whole(a), NEW em_active, NEW superhires, NEW dfcyc
  PROVE  KeepsBoard(a, mouse_read_c024(a, em_active, superhires, dfcyc))
<1> DEFINE young == mouse_compress_fifo(a, dfcyc)
           target == Oldest(young)
           delta_x == Clamp(target.x - a.a2_x, -MaxDelta, MaxDelta)
           delta_y == Clamp(target.y - a.a2_y, -MaxDelta, MaxDelta)
           clamped == delta_x # target.x - a.a2_x \/ delta_y # target.y - a.a2_y
           entry == IF Pos(young) > 0 /\ ~clamped /\ a.coord
                    THEN young.fifo[Len(young.fifo) - 1] ELSE target
           button == IF LEFT \in entry.buttons THEN 1 ELSE 0
           tracked == Tracked(young, em_active, superhires)
           x == IF a.coord THEN tracked.a2_x ELSE tracked.a2_x + delta_x
           y == IF a.coord THEN tracked.a2_y + delta_y ELSE tracked.a2_y
           pressed == IF a.coord THEN button ELSE tracked.a2_button
           told == [tracked EXCEPT !.a2_x = x, !.a2_y = y, !.a2_button = pressed]
           reached == target.x = told.a2_x /\ target.y = told.a2_y /\ told.a2_button = button
           shorter == SubSeq(told.fifo, 1, Len(told.fifo) - 1)
           next == IF Pos(told) > 0 /\ reached THEN [told EXCEPT !.fifo = shorter] ELSE told
           seen == [next EXCEPT !.valid_data = FALSE]
           quiet == IF Told(next) THEN adb_clear_mouse_int(seen) ELSE next
           forgot == [a EXCEPT !.valid_data = FALSE]
           flipped == [quiet EXCEPT !.coord = ~@]
<1>1. mouse_read_c024(a, em_active, superhires, dfcyc) =
        IF ~MouseOn(a) THEN adb_clear_mouse_int(forgot) ELSE flipped
  BY ZenonT(60) DEF mouse_read_c024
<1>2. KeepsBoard(a, young) /\ Whole(young)
  BY CompressWrites, WritesKeepsBoard DEF BoardFields, KeyFields, KeepsBoard
<1> HIDE DEF young, target, delta_x, delta_y, button
<1>3. KeepsBoard(young, tracked) /\ Whole(tracked)
  BY <1>2 DEF Tracked, KeepsBoard, BoardFields, KeyFields, Whole
<1> HIDE DEF tracked, x, y, pressed
<1>4. KeepsBoard(tracked, told) /\ Whole(told)
  BY <1>3 DEF KeepsBoard, BoardFields, KeyFields, Whole
<1> HIDE DEF told, reached, shorter
<1>5. KeepsBoard(told, next) /\ Whole(next)
  BY <1>4 DEF KeepsBoard, BoardFields, KeyFields, Whole
<1> HIDE DEF next
<1>6. KeepsBoard(next, seen) /\ Whole(seen) /\ KeepsBoard(a, forgot) /\ Whole(forgot)
  BY <1>5 DEF KeepsBoard, BoardFields, KeyFields, Whole
<1> HIDE DEF seen, forgot
<1>7. KeepsBoard(next, adb_clear_mouse_int(seen)) /\ KeepsBoard(a, adb_clear_mouse_int(forgot))
  BY <1>6, ClearsKeep, KeepsBoardAfter
<1>8. KeepsBoard(next, quiet) /\ Whole(quiet)
  BY <1>5, <1>7, KeepsBoardItself DEF KeepsBoard
<1> HIDE DEF quiet
<1>9. KeepsBoard(quiet, flipped)
  BY <1>8 DEF KeepsBoard, BoardFields, KeyFields, Whole
<1> HIDE DEF flipped
<1>10. KeepsBoard(a, flipped)
  BY <1>2, <1>3, <1>4, <1>5, <1>8, <1>9, KeepsBoardAfter
<1> QED
  BY <1>1, <1>7, <1>10

(* and the answers.                                                         *)
LEMMA SendKeeps ==
  ASSUME NEW a, Whole(a), NEW bytes
  PROVE  Keeps(a, adb_send_bytes(a, bytes)) /\ Keeps(a, adb_response_packet(a, bytes))
<1> DEFINE before == IF a.data = << >> THEN a ELSE Halt(a)
           told == {RESPONSE} \union (IF Len(bytes) > 0 THEN Bits(Len(bytes) - 1) ELSE {})
<1>1. PICK u : u = [a EXCEPT !.state = "sending", !.data = bytes]
  OBVIOUS
<1>2. Keeps(a, u) /\ Whole(u)
  BY <1>1 DEF Keeps, KeyFields, Whole
<1>3. Keeps(a, adb_send_bytes(a, bytes))
  BY <1>1, <1>2, ClearsKeep, KeepsBoardKeeps, KeepsAfter DEF adb_send_bytes
<1>4. PICK v : v = [before EXCEPT !.state = "idle", !.data = bytes,
                                  !.interrupt_byte = @ \union told]
  OBVIOUS
<1>5. adb_response_packet(a, bytes) = adb_add_data_int(v)
  BY <1>4 DEF adb_response_packet
<1>6. Keeps(a, before) /\ Whole(before)
  BY HaltWrites, WritesKeeps, KeepsItself DEF KeyFields, Keeps
<1> HIDE DEF before, told
<1>7. Keeps(before, v) /\ Whole(v)
  BY <1>4, <1>6 DEF Keeps, KeyFields, Whole
<1>8. Keeps(a, adb_response_packet(a, bytes))
  BY <1>5, <1>6, <1>7, ClearsKeep, KeepsBoardKeeps, KeepsAfter
<1> QED
  BY <1>3, <1>8

LEMMA Send1Keeps ==
  ASSUME NEW a, Whole(a), NEW byte
  PROVE  Keeps(a, adb_send_1byte(a, byte))
<1>1. Keeps(a, Halt(a)) /\ Whole(Halt(a)) /\ Keeps(a, a)
  BY HaltWrites, WritesKeeps, KeepsItself DEF KeyFields, Keeps
<1> QED
  BY <1>1, SendKeeps, KeepsAfter DEF adb_send_1byte

LEMMA TalkKeeps ==
  ASSUME NEW a, Whole(a)
  PROVE  Keeps(a, adb_kbd_talk_reg0(a))
<1> DEFINE num == TalkTakes(a.kbd_reg0)
           val1 == IF ResetKey(a.kbd_reg0[1]) THEN a.kbd_reg0[1]
                   ELSE IF num = 2 THEN a.kbd_reg0[2] ELSE 255
<1>1. PICK x : x = [a EXCEPT !.kbd_reg0 = AfterTalk(@, num)]
  OBVIOUS
<1>2. PICK sent : sent = IF a.kbd_reg0 = << >> THEN adb_response_packet(a, << >>)
                         ELSE adb_response_packet(x, <<val1, a.kbd_reg0[1]>>)
  OBVIOUS
<1>3. adb_kbd_talk_reg0(a) = IF sent.kbd_reg0 = << >> THEN adb_clear_kbd_srq(sent) ELSE sent
  BY <1>1, <1>2 DEF adb_kbd_talk_reg0
<1>4. Keeps(a, x) /\ Whole(x)
  BY <1>1 DEF Keeps, KeyFields, Whole
<1> HIDE DEF num, val1
<1>5. Keeps(a, sent) /\ Whole(sent)
  BY <1>2, <1>4, SendKeeps, KeepsAfter DEF Keeps
<1> QED
  BY <1>3, <1>5, ClearsKeep, KeepsBoardKeeps, KeepsAfter

(* A command the program writes: a reset, a key, or nothing of the latch.   *)
LEMMA ListenKeeps ==
  ASSUME NEW a, Whole(a), NEW dev
  PROVE  Keeps(a, Listen(a, dev))
<1> DEFINE data == a.cmd_data
           to == data[1] % 16
           moves == data[2] = 254
           odd(new) == (moves /\ to # dev) \/ (~moves /\ data[2] # 1) \/ data[1] # new.kbd_dev
<1>1. PICK new : new = [a EXCEPT !.kbd_dev = IF moves THEN to ELSE @,
                                 !.kbd_reg3 = (to * 4096) + (@ % 4096)]
  OBVIOUS
<1>2. PICK moved : moved = [new EXCEPT !.halted = @ \/ odd(new)]
  OBVIOUS
<1>3. PICK mouse : mouse = [a EXCEPT !.halted = @ \/ data[1] # dev \/ data[2] \notin 1..2]
  OBVIOUS
<1>4. Listen(a, dev) \in {moved, mouse, Halt(a)}
  BY <1>1, <1>2, <1>3 DEF Listen
<1> HIDE DEF odd, to, moves, data
<1>5. Keeps(a, new) /\ Whole(new)
  BY <1>1 DEF Keeps, KeyFields, Whole
<1>6. Keeps(new, moved)
  BY <1>2, <1>5 DEF Keeps, KeyFields, Whole
<1>7. Keeps(a, mouse)
  BY <1>3 DEF Keeps, KeyFields, Whole
<1>8. Keeps(a, Halt(a))
  BY HaltWrites, WritesKeeps DEF KeyFields
<1> QED
  BY <1>4, <1>5, <1>6, <1>7, <1>8, KeepsAfter

LEMMA CommandLatch ==
  ASSUME NEW a, LatchInv(a), a.cmd_data[1] \in Byte, NEW t, t = do_adb_cmd(a)
  PROVE  LatchInv(t) /\ Step(a, t)
<1>0. Whole(a)
  BY DEF LatchInv
<1>1. PICK u : u = [a EXCEPT !.state = "idle"]
  OBVIOUS
<1>2. Writes(a, u, {"state"})
  BY <1>0, <1>1 DEF Writes, Whole
<1>3. Keeps(a, u) /\ Whole(u)
  BY <1>2, WritesKeeps DEF KeyFields, Keeps
<1>4. u.cmd_data = a.cmd_data
  BY ONLY <1>2, BusSame
<1>5. LatchInv(u)
  BY <1>3, KeepsLatch
<1> DEFINE data == a.cmd_data
<1> HIDE DEF data
<1>6. t =
        CASE u.cmd = 4 -> adb_set_new_mode(u, u.mode \union Bits(data[1]))
          [] u.cmd = 5 -> adb_set_new_mode(u, u.mode \ Bits(data[1]))
          [] u.cmd = 6 -> adb_set_config(u, data[1], data[3])
          [] u.cmd = 7 -> adb_set_config(adb_set_new_mode(u, Bits(data[1])), data[2], data[4])
          [] u.cmd = 8 -> write_adb_ram(u, data[1], data[2])
          [] u.cmd = 9 -> adb_send_1byte(u, read_adb_ram(u, (data[2] * 256) + data[1]))
          [] u.cmd = 17 -> adb_virtual_key_update(u, data[1] % 128, data[1] >= 128)
          [] u.cmd \in 176..191 -> Listen(u, u.cmd % 16)
          [] OTHER -> u
  BY <1>1, <1>4, Zenon DEF do_adb_cmd, data
<1>7. \A m : Keeps(u, adb_set_new_mode(u, m)) /\ Whole(adb_set_new_mode(u, m))
  BY <1>3 DEF adb_set_new_mode, Keeps, KeyFields, Whole
<1>8. \A v, w : Keeps(u, adb_set_config(u, v, w))
  BY <1>3 DEF adb_set_config, Keeps, KeyFields, Whole
<1>9. \A m, v, w : Keeps(u, adb_set_config(adb_set_new_mode(u, m), v, w))
  <2> SUFFICES ASSUME NEW m, NEW v, NEW w
               PROVE  Keeps(u, adb_set_config(adb_set_new_mode(u, m), v, w))
    OBVIOUS
  <2>1. PICK x : x = adb_set_new_mode(u, m)
    OBVIOUS
  <2>2. Keeps(u, x) /\ Whole(x)
    BY <1>7, <2>1
  <2>3. Keeps(x, adb_set_config(x, v, w))
    BY <2>2 DEF adb_set_config, Keeps, KeyFields, Whole
  <2> QED
    BY <2>1, <2>2, <2>3, KeepsAfter
<1>10. \A addr, val : Keeps(u, write_adb_ram(u, addr, val))
  BY <1>3 DEF write_adb_ram, Keeps, KeyFields, Whole
<1>11. \A byte : Keeps(u, adb_send_1byte(u, byte))
  BY <1>3, Send1Keeps
<1>12. \A dev : Keeps(u, Listen(u, dev))
  BY <1>3, ListenKeeps
<1>13. Keeps(u, u)
  BY <1>3, KeepsItself
<1>14. LatchInv(t) /\ Step(u, t)
  <2>1. CASE u.cmd = 17
    <3>1. t = adb_virtual_key_update(u, data[1] % 128, data[1] >= 128)
      BY <1>6, <2>1
    <3>2. data[1] % 128 \in Keycode /\ (data[1] >= 128) \in BOOLEAN
      BY DEF data, Byte, Keycode
    <3> QED
      BY <1>5, <3>1, <3>2, VirtualKeyLatch DEF Step, Typed
  <2>2. CASE u.cmd # 17
    <3>1. Keeps(u, t)
      BY <1>6, <1>7, <1>8, <1>9, <1>10, <1>11, <1>12, <1>13, <2>2
    <3> QED
      BY <1>5, <3>1, KeepsStep
  <2> QED
    BY <2>1, <2>2
<1> QED
  BY <1>3, <1>14, KeepsThenStep

LEMMA ImmediateLatch ==
  ASSUME NEW a, LatchInv(a), NEW cmd, NEW t, t = Immediate(a, cmd)
  PROVE  LatchInv(t) /\ Step(a, t)
<1>0. Whole(a)
  BY DEF LatchInv
<1>1. \A bytes : Keeps(a, adb_send_bytes(a, bytes)) /\ Keeps(a, adb_response_packet(a, bytes))
  BY <1>0, SendKeeps
<1>2. \A byte : Keeps(a, adb_send_1byte(a, byte))
  BY <1>0, Send1Keeps
<1>3. Keeps(a, adb_kbd_talk_reg0(a)) /\ Keeps(a, Halt(a)) /\ Keeps(a, a)
  BY <1>0, TalkKeeps, HaltWrites, WritesKeeps, KeepsItself DEF KeyFields
<1>4. CASE cmd = 16
  <2>1. t = adb_reset(a)
    BY <1>4 DEF Immediate
  <2> QED
    BY <2>1, ResetLatch DEF Step
<1>5. CASE cmd # 16
  <2>1. Keeps(a, t)
    BY <1>1, <1>2, <1>3, <1>5 DEF Immediate
  <2> QED
    BY <2>1, KeepsStep
<1> QED
  BY <1>4, <1>5

LEMMA WriteC026Latch ==
  ASSUME NEW a, LatchInv(a), a.cmd_data \in Seq(Byte), NEW val,
         a.state = "in_cmd" => val \in Byte, NEW t, t = adb_write_c026(a, val)
  PROVE  LatchInv(t) /\ Step(a, t)
<1>0. Whole(a)
  BY DEF LatchInv
<1>1. CASE a.state = "idle"
  <2>1. PICK u : u = [a EXCEPT !.cmd = val, !.cmd_data = << >>]
    OBVIOUS
  <2>2. Keeps(a, u) /\ Whole(u)
    BY <1>0, <2>1 DEF Keeps, KeyFields, Whole
  <2>3. LatchInv(u)
    BY <2>2, KeepsLatch
  <2>4. PICK v : v = [u EXCEPT !.state = "in_cmd"]
    OBVIOUS
  <2>5. Keeps(u, v)
    BY <2>2, <2>4 DEF Keeps, KeyFields, Whole
  <2>6. t = IF CommandLength(val) > 0 THEN v ELSE Immediate(u, val)
    BY <1>1, <2>1, <2>4 DEF adb_write_c026, Command
  <2>7. LatchInv(t) /\ Step(u, t)
    BY <2>3, <2>5, <2>6, KeepsStep, ImmediateLatch
  <2> QED
    BY <2>2, <2>7, KeepsThenStep
<1>2. CASE a.state = "in_cmd"
  <2>1. PICK more : more = [a EXCEPT !.cmd_data = Append(@, val)]
    OBVIOUS
  <2>2. Keeps(a, more)
    BY <1>0, <2>1 DEF Keeps, KeyFields, Whole
  <2>3. more.cmd_data = Append(a.cmd_data, val)
    BY <1>0, <2>1, BusFieldsAre DEF BusFields, Whole
  <2>4. more.cmd_data[1] \in Byte
    <3>1. more.cmd_data \in Seq(Byte) /\ 1 \in 1 .. Len(more.cmd_data)
      BY <1>2, <2>3
    <3> QED
      BY <3>1
  <2>5. LatchInv(more)
    BY <2>2, KeepsLatch
  <2>6. t \in {do_adb_cmd(more), more}
    BY <1>2, <2>1 DEF adb_write_c026
  <2>7. Keeps(more, more)
    BY <2>5, KeepsItself DEF LatchInv
  <2>8. LatchInv(t) /\ Step(more, t)
    BY <2>4, <2>5, <2>6, <2>7, CommandLatch, KeepsStep
  <2> QED
    BY <2>2, <2>8, KeepsThenStep
<1>3. CASE a.state # "idle" /\ a.state # "in_cmd"
  <2>1. Keeps(a, t)
    BY <1>0, <1>3 DEF adb_write_c026, Keeps, KeyFields, Whole
  <2> QED
    BY <2>1, KeepsStep
<1> QED
  BY <1>1, <1>2, <1>3

LEMMA ReadC026Keeps ==
  ASSUME NEW a, Whole(a)
  PROVE  Keeps(a, adb_read_c026(a))
<1>1. PICK byte : byte = [a EXCEPT !.interrupt_byte = IF "srq" \in a.irqs THEN {SRQ} ELSE {}]
  OBVIOUS
<1>2. PICK sends : sends = [byte EXCEPT !.state = "sending"]
  OBVIOUS
<1>3. PICK halts : halts = IF RESPONSE \in a.interrupt_byte THEN Halt(byte) ELSE byte
  OBVIOUS
<1>4. PICK answered : answered = [a EXCEPT !.data = Tail(@)]
  OBVIOUS
<1>5. PICK idle : idle = [answered EXCEPT !.state = "idle"]
  OBVIOUS
<1>6. adb_read_c026(a) \in {sends, adb_clear_data_int(halts), a,
                            adb_clear_data_int(idle), answered}
  BY <1>1, <1>2, <1>3, <1>4, <1>5 DEF adb_read_c026
<1>7. Keeps(a, byte) /\ Whole(byte) /\ Keeps(a, answered) /\ Whole(answered) /\ Keeps(a, a)
  BY <1>1, <1>4 DEF Keeps, KeyFields, Whole
<1>8. Keeps(byte, sends) /\ Keeps(byte, halts) /\ Whole(halts)
  BY <1>2, <1>3, <1>7 DEF Halt, Keeps, KeyFields, Whole
<1>9. Keeps(answered, idle) /\ Whole(idle)
  BY <1>5, <1>7 DEF Keeps, KeyFields, Whole
<1>10. Keeps(halts, adb_clear_data_int(halts)) /\ Keeps(idle, adb_clear_data_int(idle))
  BY <1>8, <1>9, ClearsKeep, KeepsBoardKeeps
<1> QED
  BY <1>6, <1>7, <1>8, <1>9, <1>10, KeepsAfter

LEMMA WriteC027Keeps ==
  ASSUME NEW a, Whole(a), NEW val
  PROVE  KeepsBoard(a, adb_write_c027(a, val))
BY DEF adb_write_c027, KeepsBoard, BoardFields, KeyFields, Whole

-------------------------------------------------------------------------------
(* The latch is that of KeyFifo: what a step makes of the keys that wait.     *)
Waiting(a) == [n \in 1..a.chars_buffered |-> a.kbd_buf[n - 1]]

LEMMA FunctionIsSeq ==
  ASSUME NEW S, NEW n \in Nat, NEW q \in [1..n -> S]
  PROVE  q \in Seq(S) /\ Len(q) = n
<1>1. q \in Seq(S)
  OBVIOUS
<1>2. Len(q) \in Nat /\ DOMAIN q = 1..Len(q)
  BY <1>1, LenProperties
<1>3. DOMAIN q = 1..n
  OBVIOUS
<1> QED
  BY <1>1, <1>2, <1>3

LEMMA WaitingFacts ==
  ASSUME NEW a, LatchInv(a), NEW q, q = Waiting(a)
  PROVE  /\ q \in Seq(0..255) /\ Len(q) = a.chars_buffered
         /\ \A n \in 1..a.chars_buffered : q[n] = a.kbd_buf[n - 1] /\ q[n] \in KeyChar
<1>1. /\ a.kbd_buf \in [0..7 -> 0..255] /\ a.chars_buffered \in 0..7
      /\ \A i \in 0..7 : i < a.chars_buffered => a.kbd_buf[i] \in KeyChar
  BY DEF LatchInv
<1>2. \A n \in 1..a.chars_buffered : n - 1 \in 0..7 /\ n - 1 < a.chars_buffered
  BY <1>1
<1>3. \A n \in 1..a.chars_buffered : q[n] = a.kbd_buf[n - 1] /\ q[n] \in KeyChar
  BY <1>1, <1>2 DEF Waiting
<1>4. q \in [1..a.chars_buffered -> 0..255]
  BY <1>1, <1>2 DEF Waiting
<1>5. a.chars_buffered \in Nat
  BY <1>1
<1>6. q \in Seq(0..255) /\ Len(q) = a.chars_buffered
  <2>1. PICK n \in Nat : n = a.chars_buffered
    BY <1>5
  <2>2. q \in [1..n -> 0..255]
    BY <1>4, <2>1
  <2>3. q \in Seq(0..255) /\ Len(q) = n
    BY ONLY <2>2, FunctionIsSeq
  <2> QED
    BY <2>1, <2>3
<1> QED
  BY <1>3, <1>6

LEMMA WaitingStays ==
  ASSUME NEW a, LatchInv(a), NEW t, LatchInv(t), Stays(a, t)
  PROVE  Waiting(t) = Waiting(a) /\ t.kbd_buf[0] = a.kbd_buf[0] /\ t.panel = a.panel
<1>1. a.chars_buffered \in 0..7 /\ t.chars_buffered = a.chars_buffered
  BY DEF LatchInv, Stays
<1>2. \A n \in 1..a.chars_buffered : n - 1 \in 0..6
  BY <1>1
<1>3. \A n \in 1..a.chars_buffered : t.kbd_buf[n - 1] = a.kbd_buf[n - 1]
  BY <1>2 DEF Stays
<1>4. Waiting(t) = Waiting(a)
  BY <1>1, <1>3 DEF Waiting
<1> QED
  BY <1>4 DEF Stays

LEMMA WaitingEnters ==
  ASSUME NEW a, LatchInv(a), NEW t, LatchInv(t), Enters(a, t)
  PROVE  \E key \in KeyChar :
           /\ Waiting(t) = Append(Waiting(a), key) /\ Len(Waiting(a)) < 7
           /\ t.kbd_buf[0] = (IF Waiting(a) = << >> THEN key ELSE a.kbd_buf[0])
           /\ key \in Range(Waiting(t)) /\ t.panel = a.panel
<1> DEFINE n == a.chars_buffered
<1>1. PICK q : q = Waiting(a)
  OBVIOUS
<1>2. PICK r : r = Waiting(t)
  OBVIOUS
<1>3. n \in 0..6 /\ t.chars_buffered = n + 1 /\ t.panel = a.panel
  BY DEF LatchInv, Enters
<1>4. /\ q \in Seq(0..255) /\ Len(q) = n
      /\ \A i \in 1..n : q[i] = a.kbd_buf[i - 1]
  BY <1>1, WaitingFacts
<1>5. /\ r \in Seq(0..255) /\ Len(r) = n + 1
      /\ \A i \in 1..(n + 1) : r[i] = t.kbd_buf[i - 1] /\ r[i] \in KeyChar
  BY <1>2, <1>3, WaitingFacts
<1>7. \A i \in 1..n : r[i] = q[i]
  <2> SUFFICES ASSUME NEW i \in 1..n PROVE r[i] = q[i]
    OBVIOUS
  <2>1. i \in 1..(n + 1) /\ i - 1 \in 0..6 /\ i - 1 < n
    BY <1>3
  <2>2. r[i] = t.kbd_buf[i - 1] /\ q[i] = a.kbd_buf[i - 1]
    BY <1>4, <1>5, <2>1
  <2>3. t.kbd_buf[i - 1] = a.kbd_buf[i - 1]
    BY <2>1 DEF Enters
  <2> QED
    BY <2>2, <2>3
<1>8. r[n + 1] \in KeyChar /\ n + 1 \in 1..Len(r)
  BY <1>3, <1>5
<1>9. r = Append(q, r[n + 1])
  BY <1>3, <1>4, <1>5, <1>7
<1>10. r[n + 1] \in Range(r)
  BY <1>5, <1>8 DEF Range
<1>11. t.kbd_buf[0] = IF q = << >> THEN r[n + 1] ELSE a.kbd_buf[0]
  <2>1. CASE n = 0
    <3>1. q = << >> /\ r[n + 1] = t.kbd_buf[0]
      BY <1>4, <1>5, <2>1
    <3> QED
      BY <3>1
  <2>2. CASE n # 0
    <3>1. q # << >>
      BY <1>4, <2>2
    <3>2. t.kbd_buf[0] = a.kbd_buf[0]
      BY <1>3, <2>2 DEF Enters
    <3> QED
      BY <3>1, <3>2
  <2> QED
    BY <2>1, <2>2
<1> QED
  BY <1>1, <1>2, <1>3, <1>4, <1>8, <1>9, <1>10, <1>11

LEMMA WaitingLeaves ==
  ASSUME NEW a, LatchInv(a), NEW t, LatchInv(t), Leaves(a, t)
  PROVE  /\ Waiting(t) = IF Waiting(a) = << >> THEN Waiting(a) ELSE Tail(Waiting(a))
         /\ t.kbd_buf[0] = IF Len(Waiting(a)) > 1 THEN Waiting(a)[2] ELSE a.kbd_buf[0] % 128
         /\ t.panel = a.panel
<1> DEFINE n == a.chars_buffered
<1>1. PICK q : q = Waiting(a)
  OBVIOUS
<1>2. PICK r : r = Waiting(t)
  OBVIOUS
<1>3. n \in 0..7 /\ t.chars_buffered = IF n = 0 THEN 0 ELSE n - 1
  BY DEF LatchInv, Leaves
<1>4. /\ q \in Seq(0..255) /\ Len(q) = n
      /\ \A i \in 1..n : q[i] = a.kbd_buf[i - 1]
  BY <1>1, WaitingFacts
<1>5. /\ r \in Seq(0..255) /\ Len(r) = t.chars_buffered
      /\ \A i \in 1..t.chars_buffered : r[i] = t.kbd_buf[i - 1]
  BY <1>2, WaitingFacts
<1>6. t.panel = a.panel
  BY DEF Leaves
<1>7. CASE n = 0
  <2>1. q = << >> /\ r = << >>
    BY <1>3, <1>4, <1>5, <1>7
  <2>2. t.kbd_buf[0] = a.kbd_buf[0] % 128
    BY <1>7 DEF Leaves
  <2> QED
    BY <1>1, <1>2, <1>4, <1>6, <1>7, <2>1, <2>2
<1>8. CASE n # 0
  <2>1. Len(r) = n - 1 /\ q # << >>
    BY <1>3, <1>4, <1>5, <1>8
  <2>2. \A i \in 1..(n - 1) : i \in 1..n /\ i + 1 \in 1..n /\ i - 1 \in 0..6 /\ (i - 1) + 1 < n
    BY <1>3
  <2>3. \A i \in 1..(n - 1) : t.kbd_buf[i - 1] = a.kbd_buf[(i - 1) + 1]
    BY <2>2 DEF Leaves
  <2>4. \A i \in 1..(n - 1) : r[i] = q[i + 1]
    <3> SUFFICES ASSUME NEW i \in 1..(n - 1) PROVE r[i] = q[i + 1]
      OBVIOUS
    <3>1. r[i] = t.kbd_buf[i - 1]
      BY <1>5, <1>3, <1>8
    <3>2. q[i + 1] = a.kbd_buf[(i + 1) - 1]
      BY <1>4, <2>2
    <3>3. (i + 1) - 1 = (i - 1) + 1
      BY <1>3
    <3> QED
      BY <2>3, <3>1, <3>2, <3>3
  <2>5. /\ Tail(q) \in Seq(0..255) /\ Len(Tail(q)) = n - 1
        /\ \A i \in 1..(n - 1) : Tail(q)[i] = q[i + 1]
    BY <1>4, <2>1, HeadTailProperties
  <2>6. r = Tail(q)
    BY <1>5, <2>1, <2>4, <2>5
  <2>7. t.kbd_buf[0] = IF n > 1 THEN q[2] ELSE a.kbd_buf[0] % 128
    <3>1. CASE n > 1
      <4>1. 1 \in 1..(n - 1) /\ 2 \in 1..n /\ 0 \in 0..6 /\ 0 + 1 < n
        BY <1>3, <3>1
      <4>2. t.kbd_buf[0] = a.kbd_buf[0 + 1]
        BY <4>1 DEF Leaves
      <4>3. q[2] = a.kbd_buf[2 - 1]
        BY <1>4, <4>1
      <4> QED
        BY <3>1, <4>2, <4>3
    <3>2. CASE n = 1
      BY <3>2 DEF Leaves
    <3> QED
      BY <1>3, <1>8, <3>1, <3>2
  <2> QED
    BY <1>1, <1>2, <1>4, <1>6, <2>1, <2>6, <2>7
<1> QED
  BY <1>7, <1>8

LEMMA WaitingOne ==
  ASSUME NEW a, LatchInv(a), a.chars_buffered = 1, NEW q, q = Waiting(a)
  PROVE  Len(q) = 1 /\ q \in Seq(0..255) /\ q[1] = a.kbd_buf[0] /\ q[1] \in KeyChar
<1>1. /\ q \in Seq(0..255) /\ Len(q) = 1
      /\ \A n \in 1..1 : q[n] = a.kbd_buf[n - 1] /\ q[n] \in KeyChar
  BY WaitingFacts
<1> QED
  BY <1>1

(* A step of the latch is one of Fifo's, or none.                           *)
LEMMA LatchSteps ==
  ASSUME LatchInv(adb), LatchInv(adb'), Step(adb, adb')
  PROVE  [Fifo!Next]_Fifo!vars
<1>1. PICK a : a = adb
  OBVIOUS
<1>2. PICK t : t = adb'
  OBVIOUS
<1>3. LatchInv(a) /\ LatchInv(t) /\ Step(a, t)
  BY <1>1, <1>2
<1> DEFINE q == Waiting(a)
           r == Waiting(t)
<1>4. /\ [n \in 1..adb.chars_buffered |-> adb.kbd_buf[n - 1]] = q
      /\ [n \in 1..adb'.chars_buffered |-> adb'.kbd_buf[n - 1]] = r
  BY <1>1, <1>2 DEF Waiting
<1> HIDE DEF q, r
<1>5. CASE Stays(a, t)
  <2>1. r = q /\ t.kbd_buf[0] = a.kbd_buf[0] /\ t.panel = a.panel
    BY <1>3, <1>5, WaitingStays DEF q, r
  <2> QED
    BY <1>1, <1>2, <1>4, <2>1 DEF Fifo!vars
<1>6. CASE Enters(a, t)
  <2>1. PICK key \in KeyChar :
           /\ r = Append(q, key) /\ Len(q) < 7
           /\ t.kbd_buf[0] = (IF q = << >> THEN key ELSE a.kbd_buf[0])
           /\ key \in Range(r) /\ t.panel = a.panel
    BY <1>3, <1>6, WaitingEnters DEF q, r
  <2>2. Len(q) < MAX_KBD_BUF - 1
    BY <2>1 DEF MAX_KBD_BUF
  <2>3. Fifo!Enter(key)
    BY <1>1, <1>2, <1>4, <2>1, <2>2 DEF Fifo!Enter
  <2>4. key \in Fifo!Key /\ key \in Fifo!Range(r)
    BY <2>1 DEF Fifo!Key, KeyChar, Fifo!Range, Range
  <2> QED
    BY <1>4, <2>3, <2>4 DEF Fifo!Next
<1>7. CASE Leaves(a, t)
  <2>1. /\ r = IF q = << >> THEN q ELSE Tail(q)
        /\ t.kbd_buf[0] = IF Len(q) > 1 THEN q[2] ELSE a.kbd_buf[0] % 128
        /\ t.panel = a.panel
    BY <1>3, <1>7, WaitingLeaves DEF q, r
  <2>2. Fifo!Take
    BY <1>1, <1>2, <1>4, <2>1 DEF Fifo!Take, Fifo!Shown
  <2> QED
    BY <2>2 DEF Fifo!Next
<1>8. CASE Pastes(a, t)
  <2>1. /\ Len(q) = 1 /\ Len(r) = 1 /\ r \in Seq(0..255)
        /\ r[1] = t.kbd_buf[0] /\ r[1] \in KeyChar
    BY <1>3, <1>8, WaitingOne, WaitingFacts DEF q, r, Pastes
  <2>2. /\ r = <<t.kbd_buf[0]>> /\ t.kbd_buf[0] \in KeyChar /\ t.kbd_buf[0] \in Range(r)
        /\ t.panel = a.panel
    BY <1>8, <2>1 DEF Range, Pastes
  <2>3. Fifo!TakeAndPaste(t.kbd_buf[0])
    BY <1>1, <1>2, <1>4, <2>1, <2>2 DEF Fifo!TakeAndPaste
  <2>4. t.kbd_buf[0] \in Fifo!Key /\ t.kbd_buf[0] \in Fifo!Range(r)
    BY <2>2 DEF Fifo!Key, KeyChar, Fifo!Range, Range
  <2> QED
    BY <1>4, <2>2, <2>3, <2>4 DEF Fifo!Next
<1>9. CASE Clears(a, t)
  <2>1. r = << >> /\ t.kbd_buf = a.kbd_buf /\ t.panel = a.panel
    BY <1>3, <1>9, WaitingFacts DEF r, Clears
  <2>2. Fifo!Clear
    BY <1>1, <1>2, <1>4, <2>1 DEF Fifo!Clear
  <2> QED
    BY <2>2 DEF Fifo!Next
<1>10. CASE Switches(a, t)
  <2>1. a.panel \in BOOLEAN /\ t.panel = ~a.panel /\ t.kbd_buf[0] \in 0..255
    BY <1>3, <1>10 DEF LatchInv, Switches
  <2>2. CASE a.panel
    <3>1. r = q /\ t.kbd_buf = a.kbd_buf
      BY <1>10, <2>2 DEF Switches, q, r, Waiting
    <3>2. Fifo!Switch
      BY <1>1, <1>2, <1>4, <2>1, <2>2, <3>1 DEF Fifo!Switch
    <3> QED
      BY <3>2 DEF Fifo!Next
  <2>3. CASE ~a.panel
    <3>1. t.chars_buffered \in {0, 1} /\ Emptied(t)
      <4>1. t.chars_buffered \in 0..7
        BY <1>3 DEF LatchInv
      <4>2. t.chars_buffered < 2 /\ Emptied(t)
        BY <1>10, <2>3 DEF Switches
      <4> QED
        BY ONLY <4>1, <4>2
    <3>2. CASE t.chars_buffered = 0
      <4>1. r \in Seq(0..255) /\ Len(r) = 0
        BY <1>3, <3>2, WaitingFacts DEF r
      <4>2. r = << >>
        BY <4>1
      <4>3. t.kbd_buf[0] \in 0..127
        BY <2>1, <3>1, <3>2 DEF Emptied
      <4>4. Fifo!Switch
        BY <1>1, <1>2, <1>4, <2>1, <2>3, <4>2, <4>3 DEF Fifo!Switch
      <4> QED
        BY <4>4 DEF Fifo!Next
    <3>3. CASE t.chars_buffered = 1
      <4>1. /\ Len(r) = 1 /\ r \in Seq(0..255)
            /\ r[1] = t.kbd_buf[0] /\ r[1] \in KeyChar
        BY <1>3, <3>3, WaitingOne DEF r
      <4>2. r = <<t.kbd_buf[0]>> /\ t.kbd_buf[0] \in KeyChar
        BY <4>1
      <4>3. Fifo!Switch
        BY <1>1, <1>2, <1>4, <2>1, <2>3, <4>2 DEF Fifo!Switch, Fifo!Key, KeyChar
      <4> QED
        BY <4>3 DEF Fifo!Next
    <3> QED
      BY <3>1, <3>2, <3>3
  <2> QED
    BY <2>2, <2>3
<1> QED
  BY <1>3, <1>5, <1>6, <1>7, <1>8, <1>9, <1>10 DEF Step

(* The latch together with the bus, whose bytes say which key a command types. *)
KeyInv == AdbInv /\ LatchInv(adb)

LEMMA InitLatch == Init => KeyInv /\ Fifo!Init
<1> SUFFICES ASSUME Init PROVE KeyInv /\ Fifo!Init
  OBVIOUS
<1>1. PICK start : start = adb_init
  OBVIOUS
<1>2. adb = start
  BY <1>1 DEF Init
<1>3. Whole(start)
  BY <1>1 DEF Whole, Fields
<1>4. start.kbd_buf = [n \in 0..7 |-> 0] /\ start.chars_buffered = 0 /\ start.panel = FALSE
  BY <1>1, Zenon DEF adb_init
<1>5. start.paste_buf = << >> /\ start.paste_rd = 0 /\ start.a2code_down = 0
  BY <1>1, Zenon DEF adb_init
<1>6. LatchInv(start)
  <2>1. start.kbd_buf \in [0..7 -> 0..255]
    BY <1>4
  <2>2. start.paste_buf \in Seq(KeyChar)
    BY <1>5
  <2>3. start.chars_buffered \in 0..7 /\ start.paste_rd \in Nat /\ start.a2code_down \in Keycode
    BY <1>4, <1>5 DEF Keycode
  <2>4. start.panel \in BOOLEAN
    BY <1>4, Zenon
  <2>5. \A i \in 0..7 : i < start.chars_buffered => start.kbd_buf[i] \in KeyChar
    BY <1>4
  <2> QED
    BY <1>3, <2>1, <2>2, <2>3, <2>4, <2>5 DEF LatchInv
<1>7. [n \in 1..start.chars_buffered |-> start.kbd_buf[n - 1]] = << >>
  BY <1>4
<1>8. Fifo!Init
  BY <1>2, <1>4, <1>7 DEF Fifo!Init
<1> QED
  BY <1>2, <1>6, <1>8, InitBus DEF KeyInv

LEMMA HostStepsLatch ==
  ASSUME KeyInv, Host
  PROVE  LatchInv(adb') /\ Step(adb, adb')
<1>0. LatchInv(adb) /\ Whole(adb) /\ session \in DOMAIN Sessions
  BY DEF KeyInv, AdbInv, LatchInv
<1>1. CASE \E stroke \in Allowed.strokes, window \in Allowed.windows :
             KeyDown(stroke[1], stroke[2], window) \/ KeyUp(stroke[1], stroke[2], window)
  <2>1. PICK stroke \in Allowed.strokes, window \in Allowed.windows :
             KeyDown(stroke[1], stroke[2], window) \/ KeyUp(stroke[1], stroke[2], window)
    BY <1>1
  <2>2. stroke[1] \in Keycode /\ stroke[2] \in Nat
    BY <1>0, <2>1, SessionsAssumption DEF Allowed, Keycode
  <2>3. CASE KeyDown(stroke[1], stroke[2], window)
    BY <1>0, <2>2, <2>3, PhysicalKeyLatch DEF KeyDown
  <2>4. CASE KeyUp(stroke[1], stroke[2], window)
    BY <1>0, <2>2, <2>4, PhysicalKeyLatch DEF KeyUp
  <2> QED
    BY <2>1, <2>3, <2>4
<1>2. CASE \E key \in Allowed.pastes : Paste(key)
  BY <1>0, <1>2, PasteLatch DEF Paste, Step, Typed
<1>3. CASE \E n \in Allowed.frames : Frames(n)
  <2>1. PICK left : adb' = [adb EXCEPT !.repeat_left = left]
    BY <1>3 DEF Frames
  <2>2. Keeps(adb, adb')
    BY <1>0, <2>1 DEF Keeps, KeyFields, Whole
  <2> QED
    BY <1>0, <2>2, KeepsStep
<1>4. CASE \E bits \in Allowed.masks : ModifierMask(bits)
  BY <1>0, <1>4, MaskKeeps, WritesKeeps, KeepsStep DEF ModifierMask, KeyFields
<1>5. CASE Allowed.focus /\ (FocusLost \/ FocusGained)
  BY <1>0, <1>5, HostTellsKeeps, KeepsBoardKeeps, KeepsStep DEF FocusLost, FocusGained
<1>6. ASSUME NEW x, NEW y, NEW relative, NEW buttons, NEW valid, NEW recentre, NEW narrow,
             NEW window, Mouse(x, y, relative, buttons, valid, recentre, narrow, window)
      PROVE  LatchInv(adb') /\ Step(adb, adb')
  BY <1>0, <1>6, UpdateMouseKeeps, KeepsBoardKeeps, KeepsStep DEF Mouse
<1>7. CASE Allowed.waits /\ Wait
  BY <1>0, <1>7, KeepsItself, KeepsStep DEF Wait
<1> QED
  BY <1>1, <1>2, <1>3, <1>4, <1>5, <1>6, <1>7 DEF Host

LEMMA ProgramStepsLatch ==
  ASSUME KeyInv, Program
  PROVE  LatchInv(adb') /\ Step(adb, adb')
<1>0. LatchInv(adb) /\ Whole(adb) /\ session \in DOMAIN Sessions
  BY DEF KeyInv, AdbInv, LatchInv
<1>a. adb.cmd_data \in Seq(Byte)
  BY DEF KeyInv, AdbInv, BusInv, BusTyped
<1>1. CASE \E val \in Allowed.commands : adb.state # "in_cmd" /\ WriteC026(val)
  BY <1>0, <1>a, <1>1, WriteC026Latch DEF WriteC026
<1>2. CASE \E val \in Allowed.params : adb.state = "in_cmd" /\ WriteC026(val)
  <2>1. PICK val \in Allowed.params : WriteC026(val)
    BY <1>2
  <2>2. val \in Byte
    BY <1>0, <2>1, SessionsAssumption DEF Allowed
  <2> QED
    BY <1>0, <1>a, <2>1, <2>2, WriteC026Latch DEF WriteC026
<1>3. CASE \E val \in Allowed.enables : WriteC027(val)
  BY <1>0, <1>3, WriteC027Keeps, KeepsBoardKeeps, KeepsStep DEF WriteC027
<1>4. CASE ReadC000
  BY <1>0, <1>4, C000Latch DEF ReadC000, Step, Typed
<1>5. CASE AccessC010
  BY <1>0, <1>5, C010Latch DEF AccessC010, Step
<1>6. CASE ReadC026
  BY <1>0, <1>6, ReadC026Keeps, KeepsStep DEF ReadC026
<1>7. CASE ReadC027
  BY <1>0, <1>7, HaltWrites, WritesKeeps, KeepsStep DEF ReadC027, KeyFields
<1>8. ASSUME NEW em_active, NEW superhires, ReadC024(em_active, superhires)
      PROVE  LatchInv(adb') /\ Step(adb, adb')
  BY <1>0, <1>8, ReadMouseKeeps, KeepsBoardKeeps, KeepsStep DEF ReadC024
<1> QED
  BY <1>1, <1>2, <1>3, <1>4, <1>5, <1>6, <1>7, <1>8 DEF Program

LEMMA KeyStep ==
  ASSUME KeyInv, [Next]_vars
  PROVE  KeyInv' /\ Step(adb, adb')
<1>1. LatchInv(adb') /\ Step(adb, adb')
  <2>1. CASE UNCHANGED vars
    BY <2>1, KeepsItself, KeepsStep DEF KeyInv, LatchInv, vars
  <2> QED
    BY <2>1, HostStepsLatch, ProgramStepsLatch DEF Next
<1>2. AdbInv'
  <2>1. CASE UNCHANGED vars
    BY <2>1 DEF KeyInv, AdbInv, vars
  <2> QED
    BY <2>1, HostKeeps, ProgramKeeps DEF KeyInv, Next
<1> QED
  BY <1>1, <1>2 DEF KeyInv

(* A program that reads $C000 and $C010 is shown the keys in the order they   *)
(* were typed or pasted, each until it is taken; a key is lost only when      *)
(* seven wait, and else goes only by a reset, which leaves the one shown, or  *)
(* by the panel that opens: whatever else is typed, clicked, commanded or     *)
(* polled in between changes nothing of what waits (adb.c).                   *)
THEOREM LatchIsKeyFifo == Spec => ImplementsKeyFifo
<1>1. Init => KeyInv /\ Fifo!Init
  BY InitLatch
<1>2. KeyInv /\ [Next]_vars => KeyInv' /\ [Fifo!Next]_Fifo!vars
  <2> SUFFICES ASSUME KeyInv, [Next]_vars
               PROVE  KeyInv' /\ [Fifo!Next]_Fifo!vars
    OBVIOUS
  <2>1. KeyInv' /\ Step(adb, adb')
    BY KeyStep
  <2>2. LatchInv(adb) /\ LatchInv(adb')
    BY <2>1 DEF KeyInv
  <2> QED
    BY <2>1, <2>2, LatchSteps
<1> QED
  BY <1>1, <1>2, PTL DEF Spec, ImplementsKeyFifo, Fifo!Spec
-------------------------------------------------------------------------------
(* The character that comes with a key. First the table: every printable      *)
(* character is on it, and no key that has one is remapped or taken out.      *)
CharacterRows ==
  {n \in Int : \/ 1 <= n /\ n <= 54 /\ n # 11 /\ n # 53
               \/ 60 <= n /\ n <= 63
               \/ n = 91
               \/ 124 <= n /\ n <= 127}
SevenBits == {n \in Int : 0 <= n /\ n < 128}
Wider == {n \in Int : n < 0 \/ n > 127}

LEMMA CharacterRowsAre ==
  \A k \in 1..128 : k \in CharacterRows => Keys[k] \in SevenBits \X SevenBits \X Int
BY SMTT(60) DEF Keys, CharacterRows, SevenBits

LEMMA OtherRowsAre ==
  \A k \in 1..128 : k \notin CharacterRows => Keys[k] \in Wider \X Wider \X Int
BY SMTT(60) DEF Keys, CharacterRows, Wider

LEMMA ArrowRowsAre == \A k \in {124, 125, 126, 127} : Keys[k][1] < 33 /\ Keys[k][2] < 33
BY SMTT(60) DEF Keys

LEMMA CharactersInTable ==
  ASSUME NEW k \in 1..128, Keys[k][1] \in 0..127 \/ Keys[k][2] \in 0..127
  PROVE  k \in CharacterRows /\ Keys[k][1] \in 0..127
<1>1. PICK row : row = Keys[k]
  OBVIOUS
<1> HIDE DEF Keys
<1>2. row[1] \in 0..127 \/ row[2] \in 0..127
  BY <1>1
<1>3. k \in CharacterRows
  <2> SUFFICES ASSUME k \notin CharacterRows PROVE FALSE
    OBVIOUS
  <2>1. row \in Wider \X Wider \X Int
    BY <1>1, OtherRowsAre
  <2> QED
    BY <1>2, <2>1 DEF Wider
<1>4. row \in SevenBits \X SevenBits \X Int
  BY <1>1, <1>3, CharacterRowsAre
<1>5. row[1] \in 0..127
  BY <1>4 DEF SevenBits
<1> QED
  BY <1>1, <1>3, <1>5

LEMMA PrintableKeys ==
  ASSUME NEW k \in 1..128, Keys[k][1] \in Printable \/ Keys[k][2] \in Printable
  PROVE  k \notin {56, 59, 124, 125, 126, 127, 128} /\ Keys[k][1] \in 0..255
<1> HIDE DEF Keys
<1>0. Keys[k][1] \in 0..127 \/ Keys[k][2] \in 0..127
  BY DEF Printable
<1>1. k \in CharacterRows /\ Keys[k][1] \in 0..127
  BY ONLY k \in 1..128, <1>0, CharactersInTable
<1>2. k \notin {124, 125, 126, 127}
  BY ArrowRowsAre DEF Printable
<1> QED
  BY <1>1, <1>2 DEF CharacterRows

LEMMA PrintableHasKey ==
  ASSUME NEW c \in Printable
  PROVE  \E k \in 1..128 : Keys[k][1] = c \/ Keys[k][2] = c
<1> SUFFICES ASSUME \A k \in 1..128 : Keys[k][1] # c /\ Keys[k][2] # c
             PROVE  FALSE
  OBVIOUS
<1> QED
  BY SMTT(60) DEF Keys, Printable

LEMMA KeyOfA == Keys[1][1] = 97 /\ Keys[1][2] = 65
BY SMTT(60) DEF Keys

LEMMA AsciiIsKeys ==
  ASSUME NEW a2code \in Keycode, NEW column
  PROVE  Ascii(a2code, column) = Keys[a2code + 1][column]
<1>1. g_a2_key_to_ascii[a2code] = Keys[a2code + 1]
  BY Zenon DEF g_a2_key_to_ascii, Keycode
<1> HIDE DEF Keys
<1> QED
  BY <1>1 DEF Ascii

(* a2code is a key with the character c, which it has alone or with shift.  *)
HasCharacter(a2code, c) ==
  /\ a2code \in Keycode /\ a2code # 0
  /\ Ascii(a2code, 1) = c \/ Ascii(a2code, 2) = c

LEMMA CharacterKey ==
  ASSUME NEW c \in Printable, NEW a2code, HasCharacter(a2code, c)
  PROVE  /\ Remapped(a2code) = a2code /\ a2code # 127
         /\ Type(a2code) = 0 /\ HotKey(a2code) = 0 /\ HasAscii(a2code)
<1> HIDE DEF Keys
<1>1. a2code + 1 \in 1..128 /\ a2code \in Keycode
  BY DEF HasCharacter, Keycode
<1>2. Ascii(a2code, 1) = Keys[a2code + 1][1] /\ Ascii(a2code, 2) = Keys[a2code + 1][2]
  BY <1>1, AsciiIsKeys
<1>3. /\ a2code + 1 \notin {56, 59, 124, 125, 126, 127, 128}
      /\ Keys[a2code + 1][1] \in 0..255
  <2>1. PICK row : row = a2code + 1
    OBVIOUS
  <2>2. row \in 1..128 /\ (Keys[row][1] \in Printable \/ Keys[row][2] \in Printable)
    BY <1>1, <1>2, <2>1 DEF HasCharacter
  <2>3. row \notin {56, 59, 124, 125, 126, 127, 128} /\ Keys[row][1] \in 0..255
    BY ONLY <2>2, PrintableKeys
  <2> QED
    BY <2>1, <2>3
<1>4. a2code \notin {55, 58, 123, 124, 125, 126, 127}
  BY <1>1, <1>3 DEF Keycode
<1>5. Ascii(a2code, 1) \in 0..255
  BY <1>2, <1>3
<1>6. Type(a2code) = 0 /\ HasAscii(a2code)
  BY <1>5 DEF Type, HasAscii
<1>7. HotKey(a2code) = 0
  BY <1>6 DEF HotKey, FUNCTION_KEY
<1>8. Remapped(a2code) = a2code
  <2> DEFINE arrow == IF a2code \in 123..126 THEN a2code - 64 ELSE a2code
  <2>1. arrow = a2code
    BY <1>1, <1>4 DEF Keycode
  <2>2. Remapped(a2code) = CASE SwapCommandOption /\ arrow = 55 -> 58
                             [] SwapCommandOption /\ arrow = 58 -> 55
                             [] OTHER -> arrow
    BY Zenon DEF Remapped
  <2> HIDE DEF arrow
  <2> QED
    BY <1>4, <2>1, <2>2
<1> QED
  BY <1>4, <1>6, <1>7, <1>8

(* The host's key stands for the key that has the character, with the shift   *)
(* it takes.                                                                  *)
LEMMA FoundHasCharacter ==
  ASSUME NEW c \in Printable \ {65, 97}, NEW raw \in Keycode, Type(raw) # KEYPAD,
         NEW shift, NEW found, found = adb_ascii_to_a2code(c, raw, shift)
  PROVE  /\ HasCharacter(found.a2code, c)
         /\ found.shift \in BOOLEAN
         /\ Ascii(found.a2code, IF found.shift THEN 2 ELSE 1) = c
<1> HIDE DEF Keys
<1>1. International(c) = c
  BY DEF International, Printable
<1>2. c \in 0..127 /\ CodesOf[c] = {i \in Keycode : Ascii(i, 1) = c \/ Ascii(i, 2) = c}
  BY DEF CodesOf, Printable, Keycode
<1>3. CodesOf[c] # {}
  <2>1. PICK k \in 1..128 : Keys[k][1] = c \/ Keys[k][2] = c
    BY PrintableHasKey
  <2>2. k - 1 \in Keycode /\ (k - 1) + 1 = k
    BY DEF Keycode
  <2>3. Ascii(k - 1, 1) = Keys[k][1] /\ Ascii(k - 1, 2) = Keys[k][2]
    BY <2>2, AsciiIsKeys
  <2> QED
    BY <1>2, <2>1, <2>2, <2>3
<1>4. PICK i : i = Min(CodesOf[c])
  OBVIOUS
<1>5. i \in CodesOf[c]
  BY <1>2, <1>3, <1>4, SmallestCode
<1>6. i # 0
  <2>1. 0 \in Keycode /\ 0 + 1 = 1
    BY DEF Keycode
  <2>2. Ascii(0, 1) = 97 /\ Ascii(0, 2) = 65
    BY <2>1, AsciiIsKeys, KeyOfA
  <2> QED
    BY <1>2, <1>5, <2>2
<1>7. found = [a2code |-> i, shift |-> Ascii(i, 1) # c]
  <2>1. ~(c > 127)
    BY <1>2
  <2> QED
    BY <1>1, <1>3, <1>4, <2>1 DEF adb_ascii_to_a2code
<1>8. HasCharacter(i, c)
  BY <1>2, <1>5, <1>6 DEF HasCharacter
<1>9. found.a2code = i /\ found.shift = (Ascii(i, 1) # c)
  BY <1>7
<1>10. CASE Ascii(i, 1) = c
  BY <1>8, <1>9, <1>10
<1>11. CASE Ascii(i, 1) # c
  BY <1>8, <1>9, <1>11 DEF HasCharacter
<1> QED
  BY <1>10, <1>11

(* A key event with a character leaves it at the end of the buffer.         *)
Shows(a, t, key) ==
  t.chars_buffered = a.chars_buffered + 1 => t.kbd_buf[a.chars_buffered] = key

LEMMA FlagsKeep ==
  ASSUME NEW a, Whole(a), NEW flags
  PROVE  Keeps(a, [a EXCEPT !.c025 = flags])
BY DEF Keeps, KeyFields, Whole

(* A latch that got no key shows none.                                        *)
LEMMA ShowsNothing ==
  ASSUME NEW a, LatchInv(a), NEW t, t.chars_buffered = a.chars_buffered, NEW key
  PROVE  Shows(a, t, key)
<1>1. a.chars_buffered \in Int
  BY DEF LatchInv
<1> QED
  BY <1>1 DEF Shows

LEMMA BufferKeyShows ==
  ASSUME NEW a, LatchInv(a), NEW a2code, NEW key, NEW t, t = BufferKey(a, a2code, key)
  PROVE  t.kbd_buf[a.chars_buffered] = key
<1>1. t.kbd_buf = [a.kbd_buf EXCEPT ![a.chars_buffered] = key]
  BY KeyFieldsAre DEF BufferKey, KeyFields, Whole, LatchInv
<1> QED
  BY <1>1 DEF LatchInv

LEMMA KeyEventShows ==
  ASSUME NEW a, LatchInv(a), NEW a2code \in Keycode, HasAscii(a2code),
         NEW t, t = adb_key_event(a, a2code, FALSE)
  PROVE  t.kbd_buf[a.chars_buffered] = (CharacterOf(a, a2code) % 128) + 128
<1>0. Whole(a)
  BY DEF LatchInv
<1> DEFINE desk == a2code = 53 /\ {CTRL, CMD} \subseteq a.c025
           key == (CharacterOf(a, a2code) % 128) + 128
           special == Special(CharacterOf(a, a2code))
<1>1. PICK bus : bus = [a EXCEPT !.interrupt_byte = @ \union {DESK_MGR}]
  OBVIOUS
<1>2. PICK called : called = IF desk THEN adb_add_data_int(bus) ELSE a
  OBVIOUS
<1>3. PICK pressed : pressed = BufferKey(called, a2code, key)
  OBVIOUS
<1>4. PICK new : new = [pressed EXCEPT !.c025 = @ \union special]
  OBVIOUS
<1>5. t = [new EXCEPT !.c025 = IF new.key_down THEN @ \ {LATCH} ELSE @ \union {LATCH}]
  BY <1>1, <1>2, <1>3, <1>4 DEF adb_key_event
<1>6. Keeps(a, bus)
  BY <1>0, <1>1 DEF Keeps, KeyFields, Whole
<1>7. Keeps(bus, adb_add_data_int(bus))
  BY <1>6, DataIntFacts, WritesKeeps DEF KeyFields, Keeps
<1>8. Keeps(a, called)
  BY <1>0, <1>2, <1>6, <1>7, KeepsItself, KeepsAfter
<1>9. LatchInv(called) /\ called.chars_buffered = a.chars_buffered
  BY <1>8, KeepsLatch DEF Stays
<1> HIDE DEF key, special
<1>10. pressed.kbd_buf[a.chars_buffered] = key /\ Whole(pressed)
  <2>1. Whole(called)
    BY <1>9 DEF LatchInv
  <2>2. Whole(pressed)
    BY <1>3, <2>1 DEF BufferKey, Whole
  <2> QED
    BY <1>3, <1>9, <2>2, BufferKeyShows
<1>11. Keeps(pressed, new)
  BY <1>4, <1>10 DEF Keeps, KeyFields, Whole
<1>12. Whole(new)
  BY <1>11 DEF Keeps
<1>13. Keeps(new, t)
  <2>1. PICK flags : t = [new EXCEPT !.c025 = flags]
    BY <1>5
  <2> QED
    BY <1>12, <2>1, FlagsKeep
<1>14. t.kbd_buf = pressed.kbd_buf
  <2>1. t.kbd_buf = new.kbd_buf
    BY ONLY <1>13, KeepsFields
  <2>2. new.kbd_buf = pressed.kbd_buf
    BY ONLY <1>11, KeepsFields
  <2> QED
    BY ONLY <2>1, <2>2
<1> QED
  BY <1>10, <1>14 DEF key

(* Which it is when the shift is the one it takes.                            *)
Suits(a, a2code, c) ==
  /\ HasCharacter(a2code, c)
  /\ a.c025 \intersect {CTRL, CAPS_LOCK} = {}
  /\ Ascii(a2code, IF SHIFT \in a.c025 THEN 2 ELSE 1) = c

LEMMA MaybeKeyShows ==
  ASSUME NEW c \in Printable, NEW a, LatchInv(a), NEW a2code, Suits(a, a2code, c),
         NEW t, t = adb_maybe_virtual_key_update(a, a2code, FALSE)
  PROVE  Shows(a, t, c + 128)
<1>0. Whole(a)
  BY DEF LatchInv
<1>1. CASE t = adb_virtual_key_update(a, a2code, FALSE)
  <2>1. PICK u : u = [a EXCEPT !.keys_down = @ \union {a2code}]
    OBVIOUS
  <2>2. Keeps(a, u) /\ u.c025 = a.c025 /\ u.mode = a.mode
    BY <1>0, <2>1 DEF Keeps, KeyFields, Whole
  <2>3. LatchInv(u) /\ u.chars_buffered = a.chars_buffered
    BY <2>2, KeepsLatch, KeepsFields
  <2>4. CharacterOf(u, a2code) = c
    <3>1. Column(u, a2code) = IF SHIFT \in a.c025 THEN 2 ELSE 1
      BY <2>2 DEF Column, Suits
    <3>2. CharacterOf(u, a2code) = Ascii(a2code, Column(u, a2code))
      BY <2>2 DEF CharacterOf, Suits
    <3> QED
      BY <3>1, <3>2 DEF Suits
  <2>5. CASE t = adb_key_event(u, a2code, FALSE)
    <3>0. a2code \in Keycode /\ HasAscii(a2code)
      BY CharacterKey DEF Suits, HasCharacter
    <3>1. t.kbd_buf[a.chars_buffered] = (c % 128) + 128
      <4>1. t.kbd_buf[u.chars_buffered] = (CharacterOf(u, a2code) % 128) + 128
        BY ONLY <2>3, <2>5, <3>0, KeyEventShows
      <4> QED
        BY <2>3, <2>4, <4>1
    <3>2. (c % 128) + 128 = c + 128
      BY DEF Printable
    <3> QED
      BY <3>1, <3>2 DEF Shows
  <2>6. CASE t = a
    BY <2>6, ShowsNothing
  <2> QED
    BY <1>1, <2>1, <2>5, <2>6 DEF adb_virtual_key_update
<1>2. CASE t = adb_kbd_reg0_data(a, a2code, FALSE)
  <2>1. Keeps(a, t)
    BY <1>0, <1>2, HeldBackKeeps
  <2>2. t.chars_buffered = a.chars_buffered
    BY <2>1, KeepsFields
  <2> QED
    BY <2>2, ShowsNothing
<1> QED
  BY <1>1, <1>2 DEF adb_maybe_virtual_key_update

(* No key with a character is a reset, a hot key or the keypad's.           *)
LEMMA KeyOfShows ==
  ASSUME NEW c \in Printable, NEW a, LatchInv(a), NEW raw, NEW found, Suits(a, found, c),
         NEW t, t = KeyOf(a, "main", raw, found, FALSE)
  PROVE  Shows(a, t, c + 128)
<1>1. /\ found # 127 /\ HotKey(found) = 0 /\ ~(Type(found) = KEYPAD)
      /\ ~(HotKey(found) \in DOMAIN FunctionRemap)
  <2>1. found # 127 /\ HotKey(found) = 0 /\ Type(found) = 0
    BY CharacterKey DEF Suits
  <2> QED
    BY <2>1 DEF KEYPAD, FunctionRemap
<1>2. t = PassKey(a, raw, found, FALSE)
  BY <1>1 DEF KeyOf
<1>3. t = adb_maybe_virtual_key_update(a, found, FALSE)
  BY <1>2 DEF PassKey
<1> QED
  BY <1>3, MaybeKeyShows

LEMMA PhysicalKeyShows ==
  ASSUME NEW a, LatchInv(a), NEW c \in Printable \ {65, 97}, NEW raw \in Keycode,
         Type(raw) # KEYPAD, a.c025 \intersect {CTRL, CAPS_LOCK} = {},
         NEW t, t = adb_physical_key_update(a, "main", raw, c, FALSE)
  PROVE  Shows(a, t, c + 128)
<1>0. Whole(a)
  BY DEF LatchInv
<1>a. c > 0
  BY DEF Printable
<1>1. PICK found : found = adb_ascii_to_a2code(c, raw, SHIFT \in a.c025)
  OBVIOUS
<1> DEFINE override == found.a2code # 0 /\ found.shift # (SHIFT \in a.c025)
<1>2. PICK shifted : shifted = IF override THEN [a EXCEPT !.c025 = SymDiff(@, {SHIFT})]
                               ELSE a
  OBVIOUS
<1>3. PICK noted : noted = Note(shifted, raw, found.a2code)
  OBVIOUS
<1>4. PICK handled : handled = KeyOf(noted, "main", raw, Remapped(found.a2code), FALSE)
  OBVIOUS
<1>5. t = IF override THEN [handled EXCEPT !.c025 = a.c025] ELSE handled
  BY <1>a, <1>1, <1>2, <1>3, <1>4 DEF adb_physical_key_update
<1>6. /\ HasCharacter(found.a2code, c) /\ found.shift \in BOOLEAN
      /\ Ascii(found.a2code, IF found.shift THEN 2 ELSE 1) = c
  BY <1>1, FoundHasCharacter
<1>7. (SHIFT \in shifted.c025) = found.shift
  <2>1. found.a2code # 0
    BY <1>6 DEF HasCharacter
  <2>2. CASE override
    <3>1. shifted.c025 = SymDiff(a.c025, {SHIFT})
      BY <1>0, <1>2, <2>2, KeyFieldsAre, FieldsAre DEF Whole
    <3> QED
      BY <1>6, <2>2, <3>1 DEF SymDiff
  <2>3. CASE ~override
    BY <1>2, <1>6, <2>1, <2>3
  <2> QED
    BY <2>2, <2>3
<1>8. shifted.c025 \intersect {CTRL, CAPS_LOCK} = {}
  <2>1. shifted.c025 \in {a.c025, SymDiff(a.c025, {SHIFT})}
    BY <1>0, <1>2, FieldsAre DEF Whole
  <2> QED
    BY <2>1 DEF SymDiff, SHIFT, CTRL, CAPS_LOCK
<1> HIDE DEF override
<1>9. Keeps(a, shifted)
  BY <1>0, <1>2 DEF Keeps, KeyFields, Whole
<1>10. Whole(shifted)
  BY <1>9 DEF Keeps
<1>11. Keeps(shifted, noted) /\ noted.c025 = shifted.c025
  <2>1. Writes(shifted, noted, {"a2codes"})
    BY <1>3, <1>10, NoteWrites
  <2>2. noted.c025 = shifted.c025
    BY <2>1, FieldsAre DEF Writes
  <2> QED
    BY <2>1, <2>2, WritesKeeps DEF KeyFields
<1>12. LatchInv(noted) /\ noted.chars_buffered = a.chars_buffered
  BY <1>9, <1>11, KeepsAfter, KeepsLatch, KeepsFields
<1>13. Suits(noted, found.a2code, c)
  BY <1>6, <1>7, <1>8, <1>11 DEF Suits
<1>14. Remapped(found.a2code) = found.a2code
  BY <1>6, CharacterKey
<1>15. Shows(noted, handled, c + 128)
  BY <1>4, <1>12, <1>13, <1>14, KeyOfShows
<1>16. found.a2code \in Keycode
  BY <1>6 DEF HasCharacter
<1>17. Whole(handled)
  BY <1>4, <1>12, <1>14, <1>16, KeyOfLatch DEF LatchInv
<1>18. Keeps(handled, t)
  <2>1. PICK after : after = [handled EXCEPT !.c025 = a.c025]
    OBVIOUS
  <2>2. Keeps(handled, after) /\ Keeps(handled, handled)
    BY <1>17, <2>1, FlagsKeep, KeepsItself
  <2> QED
    BY <1>5, <2>1, <2>2
<1>19. t.kbd_buf = handled.kbd_buf /\ t.chars_buffered = handled.chars_buffered
  BY ONLY <1>18, KeepsFields
<1> QED
  BY <1>12, <1>15, <1>19 DEF Shows

(* Only a key that goes down is new among those that are held.                *)
LEMMA OnlyKeyDownHolds ==
  ASSUME [Next]_vars, NEW raw \in DOMAIN held' \ DOMAIN held
  PROVE  \E stroke \in Allowed.strokes, window \in Allowed.windows :
           KeyDown(stroke[1], stroke[2], window)
<1>1. held' # held
  OBVIOUS
<1>2. ASSUME NEW key, NEW c, NEW window, KeyUp(key, c, window) PROVE FALSE
  <2>1. held' = [k \in DOMAIN held \ {key} |-> held[k]]
    BY <1>2 DEF KeyUp, Restrict
  <2> QED
    BY <2>1
<1>3. ~Program
  BY <1>1 DEF Program, WriteC026, WriteC027, ReadC000, AccessC010, ReadC026, ReadC027, ReadC024
<1>4. Host
  BY <1>1, <1>3 DEF Next, vars
<1> QED
  BY <1>1, <1>2, <1>4 DEF Host, Paste, Frames, ModifierMask, FocusLost, FocusGained, Mouse, Wait

(* Whatever is on the host's layout, the character that came with the key is  *)
(* the one that enters the latch: the keycode found for it, with the shift    *)
(* put in the place of the one that is held, gives that character back        *)
(* (adb_physical_key_update, adb_ascii_to_a2code, adb_key_event).             *)
THEOREM EveryCharArrives == Spec => CharsArrive
<1>1. Init => KeyInv
  BY InitLatch
<1>2. KeyInv /\ [Next]_vars => KeyInv'
  BY KeyStep
<1> DEFINE Arrives(raw) ==
      /\ Taken /\ Allowed.windows = {"main"}
      /\ held'[raw] \in Printable \ {65, 97} /\ Type(raw) # KEYPAD
      /\ adb.c025 \intersect {CTRL, CAPS_LOCK} = {}
      => adb'.kbd_buf[adb.chars_buffered] = held'[raw] + 128
<1>3. KeyInv /\ [Next]_vars => [\A raw \in DOMAIN held' \ DOMAIN held : Arrives(raw)]_vars
  <2> SUFFICES ASSUME KeyInv, [Next]_vars, NEW raw \in DOMAIN held' \ DOMAIN held,
                      Taken, Allowed.windows = {"main"},
                      held'[raw] \in Printable \ {65, 97}, Type(raw) # KEYPAD,
                      adb.c025 \intersect {CTRL, CAPS_LOCK} = {}
               PROVE  adb'.kbd_buf[adb.chars_buffered] = held'[raw] + 128
    BY Zenon
  <2>1. PICK stroke \in Allowed.strokes, window \in Allowed.windows :
               KeyDown(stroke[1], stroke[2], window)
    BY OnlyKeyDownHolds
  <2>2. /\ held' = [key \in DOMAIN held \union {stroke[1]} |->
                      IF key = stroke[1] THEN stroke[2] ELSE held[key]]
        /\ adb' = adb_physical_key_update(adb, window, stroke[1], stroke[2], FALSE)
        /\ window = "main"
    BY <2>1 DEF KeyDown
  <2>3. raw = stroke[1] /\ held'[raw] = stroke[2]
    BY <2>2
  <2>4. stroke[1] \in Keycode
    BY <2>1, SessionsAssumption DEF KeyInv, AdbInv, Allowed, Keycode
  <2>5. LatchInv(adb)
    BY DEF KeyInv
  <2>6. Shows(adb, adb', stroke[2] + 128)
    BY <2>2, <2>3, <2>4, <2>5, PhysicalKeyShows
  <2> QED
    BY <2>3, <2>6 DEF Shows, Taken
<1> QED
  BY <1>1, <1>2, <1>3, PTL DEF Spec, CharsArrive
-------------------------------------------------------------------------------
(* The keys that are down. A key with a modifier's bit is one of the five of  *)
(* ModifierKeys: the others that KeyOf lets through set none of their bits.   *)
LEMMA BitsOf ==
  /\ Bits(0) = {} /\ Bits(1) = {0} /\ Bits(2) = {1} /\ Bits(4) = {2}
  /\ Bits(16) = {4} /\ Bits(64) = {6} /\ Bits(128) = {7}
<1>1. \A n : Bits(n) = {b \in 0..7 : \/ b = 0 /\ (n \div 1) % 2 = 1
                                     \/ b = 1 /\ (n \div 2) % 2 = 1
                                     \/ b = 2 /\ (n \div 4) % 2 = 1
                                     \/ b = 3 /\ (n \div 8) % 2 = 1
                                     \/ b = 4 /\ (n \div 16) % 2 = 1
                                     \/ b = 5 /\ (n \div 32) % 2 = 1
                                     \/ b = 6 /\ (n \div 64) % 2 = 1
                                     \/ b = 7 /\ (n \div 128) % 2 = 1}
  BY DEF Bits, Weights
<1>2. Bits(0) = {} /\ Bits(1) = {0}
  BY <1>1
<1>3. Bits(2) = {1} /\ Bits(4) = {2}
  BY <1>1
<1>4. Bits(16) = {4} /\ Bits(64) = {6}
  BY <1>1
<1>5. Bits(128) = {7}
  BY <1>1
<1> QED
  BY <1>2, <1>3, <1>4, <1>5

LEMMA ModifiersInTable ==
  /\ Keys[55] = <<512, 512, -1>> /\ Keys[56] = <<32768, 32768, -1>>
  /\ Keys[57] = <<256, 256, -1>> /\ Keys[58] = <<1024, 1024, -1>>
  /\ Keys[59] = <<16384, 16384, -1>>
BY SMTT(60) DEF Keys

LEMMA SecondOptionInTable == Keys[111] = <<16384, 16384, -1>>
BY SMTT(60) DEF Keys

(* Other values of the table set no modifier's bit; a function key's has more.  *)
Plainly == {n \in Int : -1 <= n /\ n < 256}
OnKeypad == {n \in Int : 4096 <= n /\ n < 4352}
Ordinary == Plainly \union OnKeypad
FunctionCodes == {96, 97, 98, 99, 100, 101, 103, 105, 107, 109, 111, 113, 118, 120, 122}

LEMMA OrdinaryRowsAre ==
  \A k \in 1..128 : k - 1 \notin FunctionCodes \union {54, 55, 56, 57, 58, 110} =>
    Keys[k] \in Ordinary \X Ordinary \X Plainly
BY SMTT(60) DEF Keys, Ordinary, Plainly, OnKeypad, FunctionCodes

LEMMA OthersInTable ==
  ASSUME NEW k \in 1..128, k - 1 \notin FunctionCodes \union {54, 55, 56, 57, 58, 110}
  PROVE  Keys[k][1] \in Ordinary /\ Keys[k][2] \in Ordinary /\ Keys[k][3] \in Ordinary
<1> HIDE DEF Keys
<1>1. Keys[k] \in Ordinary \X Ordinary \X Plainly
  BY OrdinaryRowsAre
<1>2. Plainly \subseteq Ordinary
  BY DEF Ordinary
<1> QED
  BY <1>1, <1>2

LEMMA FunctionsInTable ==
  \A k \in 1..128 : k - 1 \in FunctionCodes => Keys[k][1] \in 32769..32783
BY SMTT(60) DEF Keys, FunctionCodes

LEMMA KeysAreInts ==
  ASSUME NEW k \in Keycode
  PROVE  Ascii(k, 1) \in Int /\ Ascii(k, 2) \in Int /\ Ascii(k, 3) \in Int
<1>1. k + 1 \in 1..128
  BY DEF Keycode
<1>2. Keys[k + 1] \in Int \X Int \X Int
  BY <1>1, KeysAreTriples
<1> HIDE DEF Keys
<1> QED
  BY <1>2, AsciiIsKeys

LEMMA ArrowsInTable ==
  \A k \in {60, 61, 62, 63} : Keys[k][1] \in 0..127
BY SMTT(60) DEF Keys

(* What KeyOf can let through: no hot key, and not the second option key.     *)
Modifiers == 54..58
Passing == Keycode \ (FunctionCodes \union {SecondOption})
ModBits == DOMAIN ModifierKeys
Mods(a) == a.c025 \intersect ModBits
ModOf(k) == {bit \in ModBits : ModifierKeys[bit] = k}

LEMMA ModifierKeysAre ==
  /\ ModBits = {SHIFT, CTRL, CAPS_LOCK, OPTION, CMD}
  /\ ModifierKeys[SHIFT] = 56 /\ ModifierKeys[CTRL] = 54 /\ ModifierKeys[CAPS_LOCK] = 57
  /\ ModifierKeys[OPTION] = 58 /\ ModifierKeys[CMD] = 55
BY DEF ModBits, ModifierKeys, SHIFT, CTRL, CAPS_LOCK, OPTION, CMD

LEMMA ModOfAre ==
  /\ ModOf(56) = {SHIFT} /\ ModOf(54) = {CTRL} /\ ModOf(57) = {CAPS_LOCK}
  /\ ModOf(58) = {OPTION} /\ ModOf(55) = {CMD}
  /\ \A k : k \notin Modifiers => ModOf(k) = {}
BY ModifierKeysAre DEF ModOf, Modifiers

LEMMA SpecialOf ==
  /\ \A v \in -1..255 : Special(v) = {}
  /\ \A v \in 4096..4351 : Special(v) = {4}
  /\ Special(256) = {0} /\ Special(512) = {1} /\ Special(1024) = {2}
  /\ Special(16384) = {6} /\ Special(32768) = {7}
<1>1. \A v \in -1..255 : Special(v) = {}
  <2> SUFFICES ASSUME NEW v \in -1..255 PROVE Special(v) = {}
    OBVIOUS
  <2>1. v < 0 \/ (v \div 256) % 256 = 0
    OBVIOUS
  <2> QED
    BY <2>1, BitsOf DEF Special
<1>2. \A v \in 4096..4351 : Special(v) = {4}
  <2> SUFFICES ASSUME NEW v \in 4096..4351 PROVE Special(v) = {4}
    OBVIOUS
  <2>1. (v \div 256) % 256 = 16 /\ ~(v < 0)
    OBVIOUS
  <2> QED
    BY <2>1, BitsOf DEF Special
<1>3. /\ Special(256) = {0} /\ Special(512) = {1} /\ Special(1024) = {2}
      /\ Special(16384) = {6} /\ Special(32768) = {7}
  <2>1. /\ (256 \div 256) % 256 = 1 /\ (512 \div 256) % 256 = 2 /\ (1024 \div 256) % 256 = 4
        /\ (16384 \div 256) % 256 = 64 /\ (32768 \div 256) % 256 = 128
    OBVIOUS
  <2> QED
    BY <2>1, BitsOf DEF Special
<1> QED
  BY <1>1, <1>2, <1>3

(* A key's bits are the modifier's it is, whatever column of the table counts. *)
LEMMA SpecialIsMod ==
  ASSUME NEW a, NEW k \in Passing
  PROVE  Special(CharacterOf(a, k)) \intersect ModBits = ModOf(k)
<1> HIDE DEF Keys
<1>1. k \in Keycode /\ k + 1 \in 1..128 /\ k # 110
  BY DEF Passing, Keycode, SecondOption
<1>2. /\ Ascii(k, 1) = Keys[k + 1][1] /\ Ascii(k, 2) = Keys[k + 1][2]
      /\ Ascii(k, 3) = Keys[k + 1][3]
  BY <1>1, AsciiIsKeys
<1>3. CharacterOf(a, k) \in {Ascii(k, 1), Ascii(k, 2), Ascii(k, 3)}
  BY DEF CharacterOf, Column
<1>4. Ascii(k, 3) = -1 => CharacterOf(a, k) \in {Ascii(k, 1), Ascii(k, 2)}
  BY DEF CharacterOf, Column
<1>5. CASE k \notin Modifiers
  <2>1. (k + 1) - 1 \notin FunctionCodes \union {54, 55, 56, 57, 58, 110}
    BY <1>1, <1>5 DEF Modifiers, Keycode, Passing
  <2>2. CharacterOf(a, k) \in Ordinary
    <3>1. Keys[k + 1][1] \in Ordinary /\ Keys[k + 1][2] \in Ordinary /\ Keys[k + 1][3] \in Ordinary
      BY <1>1, <2>1, OthersInTable
    <3> QED
      BY <1>2, <1>3, <3>1
  <2>3. Special(CharacterOf(a, k)) \in {{}, {4}}
    BY <2>2, SpecialOf DEF Ordinary, Plainly, OnKeypad
  <2>4. 4 \notin ModBits
    BY ModifierKeysAre DEF SHIFT, CTRL, CAPS_LOCK, OPTION, CMD
  <2> QED
    BY <1>5, <2>3, <2>4, ModOfAre
<1>6. CASE k \in Modifiers
  <2>1. k \in {54, 55, 56, 57, 58}
    BY <1>6 DEF Modifiers
  <2>2. /\ k = 54 => CharacterOf(a, k) = 512
        /\ k = 55 => CharacterOf(a, k) = 32768
        /\ k = 56 => CharacterOf(a, k) = 256
        /\ k = 57 => CharacterOf(a, k) = 1024
        /\ k = 58 => CharacterOf(a, k) = 16384
    BY <1>2, <1>4, <2>1, ModifiersInTable
  <2>3. Special(CharacterOf(a, k)) = ModOf(k)
    <3>1. /\ ModOf(54) = {1} /\ ModOf(55) = {7} /\ ModOf(56) = {0} /\ ModOf(57) = {2}
          /\ ModOf(58) = {6}
      BY ModOfAre DEF SHIFT, CTRL, CAPS_LOCK, OPTION, CMD
    <3>2. /\ Special(512) = {1} /\ Special(32768) = {7} /\ Special(256) = {0}
          /\ Special(1024) = {2} /\ Special(16384) = {6}
      BY SpecialOf
    <3> QED
      BY ONLY <2>1, <2>2, <3>1, <3>2
  <2>4. ModOf(k) \subseteq ModBits
    BY DEF ModOf
  <2> QED
    BY <2>3, <2>4
<1> QED
  BY <1>5, <1>6

(* What a step of a session without commands finds: the keyboard polled by    *)
(* the firmware, and no key down but those that KeyOf lets through.           *)
IdleFields == {"mode", "kbd_dev", "kbd_ctl", "state", "a2code_down", "keys_down", "a2codes"}
BoardInv(a) ==
  /\ Whole(a)
  /\ 0 \notin a.mode /\ a.kbd_dev = a.kbd_ctl
  /\ a.state # "in_cmd"
  /\ a.a2code_down \in Keycode /\ HasAscii(a.a2code_down)
  /\ a.keys_down \subseteq Passing
ModsOK(a) == \A bit \in ModBits : (bit \in a.c025) <=> (ModifierKeys[bit] \in a.keys_down)

(* t has the keys down that a has, under the same codes and modifiers.        *)
Idle(a, t) ==
  BoardInv(t) /\ t.keys_down = a.keys_down /\ t.a2codes = a.a2codes /\ Mods(t) = Mods(a)

LEMMA IdleItself == ASSUME NEW a, BoardInv(a) PROVE Idle(a, a)
BY DEF Idle

LEMMA IdleAfter ==
  ASSUME NEW a, NEW t, NEW u, Idle(a, t), Idle(t, u)
  PROVE  Idle(a, u)
BY DEF Idle

LEMMA IdleMods ==
  ASSUME NEW a, ModsOK(a), NEW t, Idle(a, t)
  PROVE  ModsOK(t)
BY DEF Idle, ModsOK, Mods

LEMMA IdleFieldsAre == IdleFields \union {"c025"} \subseteq Fields
BY FieldsAre DEF IdleFields

LEMMA WritesIdle ==
  ASSUME NEW a, BoardInv(a), NEW t, NEW W, Writes(a, t, W), W \intersect IdleFields = {},
         Mods(t) = Mods(a)
  PROVE  Idle(a, t)
<1>1. \A f \in IdleFields : t[f] = a[f]
  BY IdleFieldsAre DEF Writes
<1>2. /\ t.mode = a.mode /\ t.kbd_dev = a.kbd_dev /\ t.kbd_ctl = a.kbd_ctl
      /\ t.state = a.state /\ t.a2code_down = a.a2code_down
      /\ t.keys_down = a.keys_down /\ t.a2codes = a.a2codes
  BY <1>1 DEF IdleFields
<1>3. Whole(t)
  BY DEF Writes
<1> QED
  BY <1>2, <1>3 DEF BoardInv, Idle

LEMMA WritesNoFlagIdle ==
  ASSUME NEW a, BoardInv(a), NEW t, NEW W, Writes(a, t, W),
         W \intersect (IdleFields \union {"c025"}) = {}
  PROVE  Idle(a, t)
<1>1. t.c025 = a.c025
  BY IdleFieldsAre DEF Writes
<1> QED
  BY <1>1, WritesIdle DEF Mods

LEMMA KeepsBoardIdle ==
  ASSUME NEW a, BoardInv(a), NEW t, KeepsBoard(a, t)
  PROVE  Idle(a, t)
<1>1. /\ t.mode = a.mode /\ t.kbd_dev = a.kbd_dev /\ t.kbd_ctl = a.kbd_ctl
      /\ t.state = a.state /\ t.a2code_down = a.a2code_down /\ t.c025 = a.c025
      /\ t.keys_down = a.keys_down /\ t.a2codes = a.a2codes /\ Whole(t)
  BY DEF KeepsBoard, BoardFields, KeyFields
<1> QED
  BY <1>1 DEF BoardInv, Idle, Mods

(* A flag that is no modifier's comes or goes.                                *)
LEMMA FlagIdle ==
  ASSUME NEW a, BoardInv(a), NEW bits, bits \intersect ModBits = {}
  PROVE  /\ Idle(a, [a EXCEPT !.c025 = @ \union bits])
         /\ Idle(a, [a EXCEPT !.c025 = @ \ bits])
<1>0. Whole(a)
  BY DEF BoardInv
<1>1. ASSUME NEW flags, flags \intersect ModBits = Mods(a)
      PROVE  Idle(a, [a EXCEPT !.c025 = flags])
  <2>1. PICK t : t = [a EXCEPT !.c025 = flags]
    OBVIOUS
  <2>2. Writes(a, t, {"c025"}) /\ t.c025 = flags
    BY <1>0, <2>1, FieldsAre DEF Writes, Whole
  <2> QED
    BY <1>1, <2>1, <2>2, WritesIdle DEF Mods, IdleFields
<1>2. PICK more : more = a.c025 \union bits
  OBVIOUS
<1>3. PICK fewer : fewer = a.c025 \ bits
  OBVIOUS
<1>4. more \intersect ModBits = Mods(a) /\ fewer \intersect ModBits = Mods(a)
  BY <1>2, <1>3 DEF Mods
<1> QED
  BY <1>1, <1>2, <1>3, <1>4

LEMMA NoModifierFlags ==
  /\ {LATCH} \intersect ModBits = {} /\ {REPEAT} \intersect ModBits = {}
BY ModifierKeysAre DEF LATCH, REPEAT, SHIFT, CTRL, CAPS_LOCK, OPTION, CMD

(* A key with a character is no modifier.                                     *)
LEMMA CharacterPasses ==
  ASSUME NEW k \in Keycode, HasAscii(k)
  PROVE  k \in Passing /\ ModOf(k) = {}
<1> HIDE DEF Keys
<1>1. k + 1 \in 1..128 /\ Ascii(k, 1) = Keys[k + 1][1]
  BY AsciiIsKeys DEF Keycode
<1>2. Ascii(k, 1) \in Int
  BY KeysAreInts
<1>3. Ascii(k, 1) \in 0..255 \union 4096..4351
  BY <1>2 DEF HasAscii
<1>4. k \notin FunctionCodes
  <2>1. (k + 1) - 1 = k
    BY DEF Keycode
  <2>2. k \in FunctionCodes => Ascii(k, 1) \in 32769..32783
    BY <1>1, <2>1, FunctionsInTable
  <2> QED
    BY <1>3, <2>2
<1>5. k \notin {54, 55, 56, 57, 58, 110}
  <2>1. /\ Ascii(54, 1) = 512 /\ Ascii(55, 1) = 32768 /\ Ascii(56, 1) = 256
        /\ Ascii(57, 1) = 1024 /\ Ascii(58, 1) = 16384 /\ Ascii(110, 1) = 16384
    BY AsciiIsKeys, ModifiersInTable, SecondOptionInTable DEF Keycode
  <2> QED
    BY <1>3, <2>1
<1> QED
  BY <1>4, <1>5, ModOfAre DEF Passing, SecondOption, Modifiers
(* A key event sets or clears the bits of the modifier it is.                 *)
Shifts(a, t, k, is_up) ==
  Mods(t) = IF is_up THEN Mods(a) \ ModOf(k) ELSE Mods(a) \union ModOf(k)

LEMMA KeyEventBoard ==
  ASSUME NEW a, BoardInv(a), NEW k \in Passing, NEW is_up \in BOOLEAN,
         NEW t, t = adb_key_event(a, k, is_up)
  PROVE  /\ BoardInv(t) /\ t.keys_down = a.keys_down /\ t.a2codes = a.a2codes
         /\ Shifts(a, t, k, is_up)
<1>0. Whole(a)
  BY DEF BoardInv
<1> DEFINE desk == ~is_up /\ k = 53 /\ {CTRL, CMD} \subseteq a.c025
           call(bus) == IF desk THEN adb_add_data_int(bus) ELSE a
           ascii == CharacterOf(a, k)
           special == Special(ascii)
           press(called) == IF HasAscii(k)
                            THEN BufferKey(called, k, (ascii % 128) + 128) ELSE called
           release == IF HasAscii(k) /\ k = a.a2code_down
                      THEN [a EXCEPT !.hard_key_down = FALSE, !.key_down = FALSE]
                      ELSE a
           change(pressed, released) ==
             IF is_up THEN [released EXCEPT !.c025 = @ \ special]
             ELSE [pressed EXCEPT !.c025 = @ \union special]
           latch(new) ==
             [new EXCEPT !.c025 = IF new.key_down THEN @ \ {LATCH} ELSE @ \union {LATCH}]
<1>1. PICK bus : bus = [a EXCEPT !.interrupt_byte = @ \union {DESK_MGR}]
  OBVIOUS
<1>2. PICK called : called = call(bus)
  OBVIOUS
<1>3. PICK pressed : pressed = press(called)
  OBVIOUS
<1>4. PICK released : released = release
  OBVIOUS
<1>5. PICK new : new = change(pressed, released)
  OBVIOUS
<1>6. t = latch(new)
  BY <1>1, <1>2, <1>3, <1>4, <1>5 DEF adb_key_event
<1>7. Idle(a, bus)
  <2>1. Writes(a, bus, {"interrupt_byte"})
    BY <1>0, <1>1 DEF Writes, Whole
  <2> QED
    BY <2>1, WritesNoFlagIdle DEF IdleFields
<1>8. Idle(bus, adb_add_data_int(bus))
  <2>1. BoardInv(bus) /\ Whole(bus)
    BY <1>7 DEF Idle, BoardInv
  <2>2. Writes(bus, adb_add_data_int(bus), {"irqs"})
    BY <2>1, DataIntFacts
  <2> QED
    BY <2>1, <2>2, WritesNoFlagIdle DEF IdleFields
<1>9. Idle(a, called)
  BY <1>2, <1>7, <1>8, IdleItself, IdleAfter
<1>10. Idle(a, released)
  <2>1. PICK off : off = [a EXCEPT !.hard_key_down = FALSE, !.key_down = FALSE]
    OBVIOUS
  <2>2. Writes(a, off, {"hard_key_down", "key_down"})
    BY <1>0, <2>1 DEF Writes, Whole
  <2>3. Idle(a, off)
    BY <2>2, WritesNoFlagIdle DEF IdleFields
  <2> QED
    BY <1>4, <2>1, <2>3, IdleItself
<1>11. special \intersect ModBits = ModOf(k)
  BY SpecialIsMod
<1> HIDE DEF ascii, special
<1>12. Idle(a, pressed)
  <2>1. CASE HasAscii(k)
    <3>1. PICK key : pressed = BufferKey(called, k, key)
      BY <1>3, <2>1
    <3>2. BoardInv(called) /\ Whole(called)
      BY <1>9 DEF Idle, BoardInv
    <3>3. pressed = [called EXCEPT
                       !.kbd_buf[called.chars_buffered] = key,
                       !.chars_buffered = IF @ + 1 >= MAX_KBD_BUF THEN MAX_KBD_BUF - 1 ELSE @ + 1,
                       !.key_down = called.repeat_delay # 0, !.hard_key_down = TRUE,
                       !.a2code_down = k, !.repeat_left = called.repeat_delay]
      BY <3>1 DEF BufferKey
    <3>4. /\ Whole(pressed) /\ pressed.a2code_down = k
          /\ pressed.mode = called.mode /\ pressed.kbd_dev = called.kbd_dev
          /\ pressed.kbd_ctl = called.kbd_ctl /\ pressed.state = called.state
          /\ pressed.keys_down = called.keys_down /\ pressed.a2codes = called.a2codes
          /\ pressed.c025 = called.c025
      BY <3>2, <3>3, FieldsAre DEF Whole
    <3>5. k \in Keycode
      BY DEF Passing
    <3>6. BoardInv(pressed)
      BY <2>1, <3>2, <3>4, <3>5 DEF BoardInv
    <3>7. Idle(called, pressed)
      BY <3>4, <3>6 DEF Idle, Mods
    <3> QED
      BY <1>9, <3>7, IdleAfter
  <2>2. CASE ~HasAscii(k)
    BY <1>3, <1>9, <2>2
  <2> QED
    BY <2>1, <2>2
<1>13. PICK old : old = IF is_up THEN released ELSE pressed
  OBVIOUS
<1>14. Idle(a, old)
  BY <1>10, <1>12, <1>13
<1>15. PICK flags : flags = IF is_up THEN old.c025 \ special ELSE old.c025 \union special
  OBVIOUS
<1>16. new = [old EXCEPT !.c025 = flags]
  BY <1>5, <1>13, <1>15
<1>17. BoardInv(old) /\ Whole(old)
  BY <1>14 DEF Idle, BoardInv
<1>18. Writes(old, new, {"c025"}) /\ new.c025 = flags
  BY <1>16, <1>17, FieldsAre DEF Writes, Whole
<1>19. /\ BoardInv(new) /\ new.keys_down = old.keys_down /\ new.a2codes = old.a2codes
  <2>1. \A f \in IdleFields : new[f] = old[f]
    BY <1>18, IdleFieldsAre DEF Writes, IdleFields
  <2>2. /\ new.mode = old.mode /\ new.kbd_dev = old.kbd_dev /\ new.kbd_ctl = old.kbd_ctl
        /\ new.state = old.state /\ new.a2code_down = old.a2code_down
        /\ new.keys_down = old.keys_down /\ new.a2codes = old.a2codes
    BY <2>1 DEF IdleFields
  <2> QED
    BY <1>17, <1>18, <2>2 DEF BoardInv, Writes
<1>20. Mods(new) = IF is_up THEN Mods(a) \ ModOf(k) ELSE Mods(a) \union ModOf(k)
  <2>1. old.c025 \intersect ModBits = Mods(a)
    BY <1>14 DEF Idle, Mods
  <2> QED
    BY <1>11, <1>15, <1>18, <2>1 DEF Mods
<1>21. Idle(new, t)
  <2>1. PICK off : off = [new EXCEPT !.c025 = @ \ {LATCH}]
    OBVIOUS
  <2>2. PICK on : on = [new EXCEPT !.c025 = @ \union {LATCH}]
    OBVIOUS
  <2>3. Idle(new, off) /\ Idle(new, on)
    BY <1>19, <2>1, <2>2, FlagIdle, NoModifierFlags
  <2>4. t \in {off, on}
    BY <1>6, <2>1, <2>2
  <2> QED
    BY <2>3, <2>4
<1> QED
  BY <1>14, <1>19, <1>20, <1>21 DEF Idle, Shifts

(* A key that is down is noted as down, with its modifier's bit.              *)
Moves(a, t, k, is_up) ==
  /\ BoardInv(t) /\ t.a2codes = a.a2codes
  /\ t.keys_down = IF is_up THEN a.keys_down \ {k} ELSE a.keys_down \union {k}
  /\ ModsOK(a) => ModsOK(t)

LEMMA VirtualKeyBoard ==
  ASSUME NEW a, BoardInv(a), NEW k \in Keycode, NEW is_up \in BOOLEAN,
         is_up \/ k \in Passing, NEW t, t = adb_virtual_key_update(a, k, is_up)
  PROVE  Moves(a, t, k, is_up)
<1>0. Whole(a)
  BY DEF BoardInv
<1>1. CASE is_up # (k \in a.keys_down)
  <2>1. t = a
    BY <1>1 DEF adb_virtual_key_update
  <2> QED
    BY <1>1, <2>1 DEF Moves
<1>2. CASE is_up = (k \in a.keys_down)
  <2>1. PICK down : down = IF is_up THEN a.keys_down \ {k} ELSE a.keys_down \union {k}
    OBVIOUS
  <2>2. PICK u : u = [a EXCEPT !.keys_down = down]
    OBVIOUS
  <2>3. t = adb_key_event(u, k, is_up)
    BY <1>2, <2>1, <2>2 DEF adb_virtual_key_update
  <2>4. k \in Passing
    BY <1>2 DEF BoardInv
  <2>5. /\ Whole(u) /\ u.keys_down = down /\ u.mode = a.mode /\ u.kbd_dev = a.kbd_dev
        /\ u.kbd_ctl = a.kbd_ctl /\ u.state = a.state /\ u.a2code_down = a.a2code_down
        /\ u.a2codes = a.a2codes /\ u.c025 = a.c025
    BY <1>0, <2>2, FieldsAre DEF Whole
  <2>6. BoardInv(u)
    BY <2>1, <2>4, <2>5 DEF BoardInv
  <2>7. /\ BoardInv(t) /\ t.keys_down = down /\ t.a2codes = a.a2codes
        /\ Shifts(u, t, k, is_up)
    BY <2>3, <2>4, <2>5, <2>6, KeyEventBoard
  <2>8. ASSUME ModsOK(a) PROVE ModsOK(t)
    <3> SUFFICES ASSUME NEW bit \in ModBits
                 PROVE  (bit \in t.c025) <=> (ModifierKeys[bit] \in t.keys_down)
      BY DEF ModsOK
    <3>1. (bit \in a.c025) <=> (ModifierKeys[bit] \in a.keys_down)
      BY <2>8 DEF ModsOK
    <3>2. Mods(u) = Mods(a)
      BY <2>5 DEF Mods
    <3>3. Mods(t) = IF is_up THEN Mods(a) \ ModOf(k) ELSE Mods(a) \union ModOf(k)
      BY <2>7, <3>2 DEF Shifts
    <3>4. bit \in ModOf(k) <=> ModifierKeys[bit] = k
      BY DEF ModOf
    <3> QED
      BY <2>1, <2>7, <3>1, <3>3, <3>4 DEF Mods
  <2> QED
    BY <2>1, <2>7, <2>8 DEF Moves
<1> QED
  BY <1>1, <1>2

LEMMA MaybeKeyBoard ==
  ASSUME NEW a, BoardInv(a), NEW k \in Keycode, NEW is_up \in BOOLEAN,
         is_up \/ k \in Passing, NEW t, t = adb_maybe_virtual_key_update(a, k, is_up)
  PROVE  Moves(a, t, k, is_up)
<1>1. Autopoll(a)
  BY DEF BoardInv, Autopoll
<1>2. t = adb_virtual_key_update(a, k, is_up)
  BY <1>1 DEF adb_maybe_virtual_key_update
<1> QED
  BY <1>2, VirtualKeyBoard
(* What takes keys off, pastes or resets leaves the keys down as they are.    *)
LEMMA PasteStateIdle ==
  ASSUME NEW a, BoardInv(a), NEW t, t = adb_paste_update_state(a)
  PROVE  Idle(a, t)
<1>1. Writes(a, t, {"paste_buf", "paste_rd", "kbd_buf", "chars_buffered"})
  BY PasteStateWrites DEF BoardInv
<1> QED
  BY <1>1, WritesNoFlagIdle DEF IdleFields

LEMMA PasteIdle ==
  ASSUME NEW a, BoardInv(a), NEW key, NEW t, t = adb_paste_add_buf(a, key)
  PROVE  Idle(a, t)
<1>0. Whole(a)
  BY DEF BoardInv
<1>1. PICK taken : taken = PasteKey(a.paste_last, key)
  OBVIOUS
<1>2. PICK noted : noted = [a EXCEPT !.paste_last = key]
  OBVIOUS
<1>3. PICK more : more = [noted EXCEPT !.paste_buf = Append(@, taken + 128)]
  OBVIOUS
<1>4. t \in {noted, adb_paste_update_state(more)}
  BY <1>1, <1>2, <1>3 DEF adb_paste_add_buf
<1>5. Idle(a, noted)
  <2>1. Writes(a, noted, {"paste_last"})
    BY <1>0, <1>2 DEF Writes, Whole
  <2> QED
    BY <2>1, WritesNoFlagIdle DEF IdleFields
<1>6. BoardInv(noted) /\ Whole(noted)
  BY <1>5 DEF Idle, BoardInv
<1>7. Idle(noted, more)
  <2>1. Writes(noted, more, {"paste_buf"})
    BY <1>3, <1>6 DEF Writes, Whole
  <2> QED
    BY <1>6, <2>1, WritesNoFlagIdle DEF IdleFields
<1>8. Idle(a, more) /\ BoardInv(more)
  BY <1>5, <1>7, IdleAfter DEF Idle
<1>9. PICK pasted : pasted = adb_paste_update_state(more)
  OBVIOUS
<1>10. Idle(a, pasted)
  BY <1>8, <1>9, PasteStateIdle, IdleAfter
<1> QED
  BY <1>4, <1>5, <1>9, <1>10

LEMMA C010Idle ==
  ASSUME NEW a, BoardInv(a), NEW t, t = adb_access_c010(a)
  PROVE  Idle(a, t)
<1>0. Whole(a)
  BY DEF BoardInv
<1> DEFINE n == a.chars_buffered
<1>1. PICK dropped : dropped = [a EXCEPT !.read_no_update = 0, !.kbd_buf[0] = @ % 128]
  OBVIOUS
<1>2. PICK moved : moved = [dropped EXCEPT
                  !.kbd_buf = [i \in 0..7 |-> IF i + 1 < n THEN dropped.kbd_buf[i + 1] ELSE @[i]],
                  !.chars_buffered = n - 1]
  OBVIOUS
<1>3. PICK next : next = IF n = 0 THEN dropped
                         ELSE IF n = 1 THEN adb_paste_update_state(moved) ELSE moved
  OBVIOUS
<1>4. t = [next EXCEPT !.c025 = @ \ {REPEAT}]
  <2>1. adb_access_c010(a) = [next EXCEPT !.c025 = @ \ {REPEAT}]
    BY ONLY <1>1, <1>2, <1>3 DEF adb_access_c010
  <2> QED
    BY <2>1
<1>5. Writes(a, dropped, {"read_no_update", "kbd_buf"})
  BY <1>0, <1>1 DEF Writes, Whole
<1>6. Idle(a, dropped)
  BY <1>5, WritesNoFlagIdle DEF IdleFields
<1>7. Writes(dropped, moved, {"kbd_buf", "chars_buffered"})
  BY <1>2, <1>5 DEF Writes, Whole
<1>8. Idle(dropped, moved)
  BY <1>6, <1>7, WritesNoFlagIdle DEF IdleFields, Idle
<1>9. Idle(a, moved) /\ BoardInv(moved)
  BY <1>6, <1>8, IdleAfter DEF Idle
<1>10. Idle(moved, adb_paste_update_state(moved))
  BY <1>9, PasteStateIdle
<1>11. Idle(a, next) /\ BoardInv(next)
  BY <1>3, <1>6, <1>9, <1>10, IdleAfter DEF Idle
<1>12. Idle(next, t)
  <2>1. PICK off : off = [next EXCEPT !.c025 = @ \ {REPEAT}]
    OBVIOUS
  <2>2. Idle(next, off)
    BY <1>11, <2>1, FlagIdle, NoModifierFlags
  <2> QED
    BY <1>4, <2>1, <2>2
<1> QED
  BY <1>11, <1>12, IdleAfter

LEMMA C000Idle ==
  ASSUME NEW a, BoardInv(a), NEW t, t = adb_read_c000(a)
  PROVE  Idle(a, t)
<1>0. Whole(a)
  BY DEF BoardInv
<1>1. CASE Strobe(a)
  <2>1. PICK counted : counted = [a EXCEPT !.read_no_update = Min({@ + 1, ReadsCounted})]
    OBVIOUS
  <2>2. t \in {adb_access_c010(counted), counted}
    BY <1>1, <2>1 DEF adb_read_c000
  <2>3. Writes(a, counted, {"read_no_update"})
    BY <1>0, <2>1 DEF Writes, Whole
  <2>4. Idle(a, counted) /\ BoardInv(counted)
    BY <2>3, WritesNoFlagIdle DEF IdleFields, Idle
  <2>5. Idle(a, adb_access_c010(counted))
    BY <2>4, C010Idle, IdleAfter
  <2> QED
    BY <2>2, <2>4, <2>5
<1>2. CASE ~Strobe(a) /\ a.key_down /\ a.repeat_left = 0
  <2>1. PICK u : u = [a EXCEPT !.c025 = @ \union {REPEAT}]
    OBVIOUS
  <2>2. PICK v : v = adb_key_event(u, a.a2code_down, FALSE)
    OBVIOUS
  <2>3. t = [v EXCEPT !.repeat_left = a.repeat_rate]
    BY <1>2, <2>1, <2>2 DEF adb_read_c000
  <2>4. Idle(a, u) /\ BoardInv(u)
    BY <2>1, FlagIdle, NoModifierFlags DEF Idle
  <2>5. a.a2code_down \in Passing /\ ModOf(a.a2code_down) = {}
    BY CharacterPasses DEF BoardInv
  <2>6. /\ BoardInv(v) /\ v.keys_down = u.keys_down /\ v.a2codes = u.a2codes
        /\ Shifts(u, v, a.a2code_down, FALSE)
    BY <2>2, <2>4, <2>5, KeyEventBoard
  <2>7. Idle(u, v)
    BY <2>5, <2>6 DEF Shifts, Idle
  <2>8. Writes(v, t, {"repeat_left"})
    BY <2>3, <2>6 DEF Writes, Whole, BoardInv
  <2>9. Idle(v, t)
    BY <2>6, <2>8, WritesNoFlagIdle DEF IdleFields
  <2> QED
    BY <2>4, <2>7, <2>9, IdleAfter
<1>3. CASE ~Strobe(a) /\ ~(a.key_down /\ a.repeat_left = 0)
  BY <1>3, IdleItself DEF adb_read_c000
<1> QED
  BY <1>1, <1>2, <1>3

LEMMA TossKeysIdle ==
  ASSUME NEW a, BoardInv(a), NEW t, t = TossKeys(a)
  PROVE  Idle(a, t)
<1>1. PICK f : /\ TossKeys(a) = f[20] /\ f[0] = a
               /\ \A n \in 1 .. 20 : f[n] = TossKey(f[n - 1])
  BY TossRun
<1> DEFINE S == { n \in Nat : n <= 20 => Idle(a, f[n]) }
<1>2. 0 \in S
  BY <1>1, IdleItself
<1>3. ASSUME NEW n \in Nat, n \in S PROVE n + 1 \in S
  <2> SUFFICES ASSUME n + 1 <= 20 PROVE Idle(a, f[n + 1])
    OBVIOUS
  <2>1. n + 1 \in 1..20 /\ (n + 1) - 1 = n /\ n <= 20
    OBVIOUS
  <2>2. Idle(a, f[n]) /\ f[n + 1] = TossKey(f[n])
    BY <1>1, <1>3, <2>1
  <2>3. PICK u : u = f[n]
    OBVIOUS
  <2>4. PICK read : read = adb_read_c000(u)
    OBVIOUS
  <2>5. Idle(a, u) /\ BoardInv(u)
    BY <2>2, <2>3 DEF Idle
  <2>6. Idle(a, read) /\ BoardInv(read)
    BY <2>4, <2>5, C000Idle, IdleAfter DEF Idle
  <2>7. Idle(a, adb_access_c010(read))
    BY <2>6, C010Idle, IdleAfter
  <2>8. f[n + 1] \in {read, adb_access_c010(read)}
    BY <2>2, <2>3, <2>4 DEF TossKey
  <2> QED
    BY <2>6, <2>7, <2>8
<1>4. 20 \in S
  <2> HIDE DEF S
  <2>1. Nat \subseteq S
    BY <1>2, <1>3, NatSetInduction
  <2> QED
    BY <2>1
<1> QED
  BY <1>1, <1>4

LEMMA PanelIdle ==
  ASSUME NEW a, BoardInv(a), NEW t, t = cfg_toggle_config_panel(a)
  PROVE  Idle(a, t)
<1>0. Whole(a)
  BY DEF BoardInv
<1>1. PICK u : u = [a EXCEPT !.panel = ~a.panel]
  OBVIOUS
<1>2. PICK v : v = IF ~a.panel THEN TossKeys(u) ELSE u
  OBVIOUS
<1>3. t = [v EXCEPT !.repeat_left = 60]
  BY <1>1, <1>2 DEF cfg_toggle_config_panel, cfg_set_config_panel
<1>4. Writes(a, u, {"panel"})
  BY <1>0, <1>1 DEF Writes, Whole
<1>5. Idle(a, u) /\ BoardInv(u)
  BY <1>4, WritesNoFlagIdle DEF IdleFields, Idle
<1>6. Idle(u, TossKeys(u))
  BY <1>5, TossKeysIdle
<1>7. Idle(a, v) /\ BoardInv(v)
  BY <1>2, <1>5, <1>6, IdleAfter DEF Idle
<1>8. Writes(v, t, {"repeat_left"})
  BY <1>3, <1>7 DEF Writes, Whole, BoardInv
<1>9. Idle(v, t)
  BY <1>7, <1>8, WritesNoFlagIdle DEF IdleFields
<1> QED
  BY <1>7, <1>9, IdleAfter

LEMMA ResetIdle ==
  ASSUME NEW a, BoardInv(a), NEW t, t = adb_reset(a)
  PROVE  Idle(a, t)
<1>0. Whole(a)
  BY DEF BoardInv
<1>1. Whole(t)
  BY <1>0, ZenonT(60) DEF adb_reset, Whole
<1>2. t.kbd_dev = 2 /\ t.kbd_ctl = 2 /\ t.state = "idle"
  <2>1. t.kbd_dev = 2
    BY <1>0, FieldsAre DEF adb_reset, Whole
  <2>2. t.kbd_ctl = 2
    BY <1>0, FieldsAre DEF adb_reset, Whole
  <2>3. t.state = "idle"
    BY <1>0, FieldsAre DEF adb_reset, Whole
  <2> QED
    BY <2>1, <2>2, <2>3
<1>3. t.mode = a.mode /\ t.a2code_down = a.a2code_down
  <2>1. t.mode = a.mode
    BY <1>0, FieldsAre DEF adb_reset, Whole
  <2>2. t.a2code_down = a.a2code_down
    BY <1>0, FieldsAre DEF adb_reset, Whole
  <2> QED
    BY <2>1, <2>2
<1>4. t.keys_down = a.keys_down /\ t.a2codes = a.a2codes /\ t.c025 = a.c025
  <2>1. t.keys_down = a.keys_down
    BY <1>0, FieldsAre DEF adb_reset, Whole
  <2>2. t.a2codes = a.a2codes
    BY <1>0, FieldsAre DEF adb_reset, Whole
  <2>3. t.c025 = a.c025
    BY <1>0, FieldsAre DEF adb_reset, Whole
  <2> QED
    BY <2>1, <2>2, <2>3
<1> QED
  BY <1>1, <1>2, <1>3, <1>4 DEF BoardInv, Idle, Mods

LEMMA HotKeyIdle ==
  ASSUME NEW a, BoardInv(a), NEW special, NEW t, t = HotKeyPressed(a, special)
  PROVE  Idle(a, t)
<1>0. Whole(a)
  BY DEF BoardInv
<1>1. Idle(a, Halt(a)) /\ Idle(a, adb_increment_speed(a)) /\ Idle(a, a)
  <2>1. Writes(a, Halt(a), {"halted"}) /\ Writes(a, adb_increment_speed(a), {"speed"})
    BY <1>0, HaltWrites, SpeedWrites
  <2> QED
    BY <2>1, WritesNoFlagIdle, IdleItself DEF IdleFields
<1>2. ASSUME NEW what PROVE Idle(a, Toggle(a, what))
  <2>1. Writes(a, Toggle(a, what), {"toggles"})
    BY <1>0, ToggleWrites
  <2> QED
    BY <2>1, WritesNoFlagIdle DEF IdleFields
<1>3. PICK u : u = [a EXCEPT !.warp = ~@, !.hide = ~a.warp]
  OBVIOUS
<1>4. PICK v : v = [a EXCEPT !.toggles = @ \union {"copy"}]
  OBVIOUS
<1>5. Idle(a, u) /\ Idle(a, v)
  <2>1. Writes(a, u, {"warp", "hide"}) /\ Writes(a, v, {"toggles"})
    BY <1>0, <1>3, <1>4 DEF Writes, Whole
  <2> QED
    BY <2>1, WritesNoFlagIdle DEF IdleFields
<1>6. CASE special = 4
  <2>1. t = cfg_toggle_config_panel(a)
    BY <1>6 DEF HotKeyPressed
  <2> QED
    BY <2>1, PanelIdle
<1>7. CASE special \in {5, 6, 7}
  BY <1>1, <1>2, <1>7 DEF HotKeyPressed
<1>8. CASE special = 8
  BY <1>3, <1>5, <1>8 DEF HotKeyPressed
<1>9. CASE special = 9
  <2>1. t = IF CTRL \in a.c025 THEN v
            ELSE Toggle(a, IF SHIFT \in a.c025 THEN "swap_paddles" ELSE "invert_paddles")
    BY <1>4, <1>9 DEF HotKeyPressed
  <2> QED
    BY <1>2, <1>5, <2>1
<1>10. CASE special \notin 4 .. 9
  BY <1>1, <1>10 DEF HotKeyPressed
<1> QED
  BY <1>6, <1>7, <1>8, <1>9, <1>10

(* A read of an answer goes on with it; no command waits for bytes.           *)
LEMMA ReadC026Idle ==
  ASSUME NEW a, BoardInv(a), NEW t, t = adb_read_c026(a)
  PROVE  Idle(a, t)
<1>0. Whole(a) /\ a.state # "in_cmd"
  BY DEF BoardInv
<1>1. PICK answered : answered = [a EXCEPT !.data = Tail(@)]
  OBVIOUS
<1>2. PICK byte : byte = [a EXCEPT !.interrupt_byte = IF "srq" \in a.irqs THEN {SRQ} ELSE {}]
  OBVIOUS
<1>3. Idle(a, answered) /\ Idle(a, byte)
  <2>1. Writes(a, answered, {"data"}) /\ Writes(a, byte, {"interrupt_byte"})
    BY <1>0, <1>1, <1>2 DEF Writes, Whole
  <2> QED
    BY <2>1, WritesNoFlagIdle DEF IdleFields
<1>4. /\ BoardInv(answered) /\ BoardInv(byte) /\ Whole(answered) /\ Whole(byte)
  BY <1>3 DEF Idle, BoardInv
<1>5. ASSUME NEW b, BoardInv(b), NEW to, to \in {"idle", "sending"}
      PROVE  Idle(b, [b EXCEPT !.state = to])
  <2>1. PICK u : u = [b EXCEPT !.state = to]
    OBVIOUS
  <2>2. /\ Whole(u) /\ u.state = to /\ u.mode = b.mode /\ u.kbd_dev = b.kbd_dev
        /\ u.kbd_ctl = b.kbd_ctl /\ u.a2code_down = b.a2code_down
        /\ u.keys_down = b.keys_down /\ u.a2codes = b.a2codes /\ u.c025 = b.c025
    BY <1>5, <2>1, FieldsAre DEF Whole, BoardInv
  <2>3. to # "in_cmd"
    BY <1>5
  <2> QED
    BY <1>5, <2>1, <2>2, <2>3 DEF BoardInv, Idle, Mods
<1>6. ASSUME NEW b, Idle(a, b) PROVE Idle(a, adb_clear_data_int(b))
  <2>1. BoardInv(b) /\ Whole(b)
    BY <1>6 DEF Idle, BoardInv
  <2>2. Idle(b, adb_clear_data_int(b))
    BY <2>1, ClearsKeep, KeepsBoardIdle
  <2> QED
    BY <1>6, <2>2, IdleAfter
<1>7. Idle(a, Halt(byte))
  <2>1. Writes(byte, Halt(byte), {"halted"})
    BY <1>4, HaltWrites
  <2>2. Idle(byte, Halt(byte))
    BY <1>4, <2>1, WritesNoFlagIdle DEF IdleFields
  <2> QED
    BY <1>3, <2>2, IdleAfter
<1>8. PICK sending : sending = [byte EXCEPT !.state = "sending"]
  OBVIOUS
<1>9. PICK ended : ended = [answered EXCEPT !.state = "idle"]
  OBVIOUS
<1>10. Idle(a, sending) /\ Idle(a, ended)
  <2>1. Idle(byte, sending) /\ Idle(answered, ended)
    BY <1>4, <1>5, <1>8, <1>9
  <2> QED
    BY <1>3, <2>1, IdleAfter
<1>11. t \in {sending, adb_clear_data_int(Halt(byte)), adb_clear_data_int(byte),
              adb_clear_data_int(ended), answered}
  <2>1. adb_read_c026(a) =
          CASE a.state = "idle" /\ a.data # << >> -> sending
            [] a.state = "idle" /\ a.data = << >> ->
                 adb_clear_data_int(IF RESPONSE \in a.interrupt_byte THEN Halt(byte) ELSE byte)
            [] a.state = "in_cmd" -> a
            [] OTHER -> IF answered.data = << >> THEN adb_clear_data_int(ended) ELSE answered
    BY <1>1, <1>2, <1>8, <1>9 DEF adb_read_c026
  <2> QED
    BY <1>0, <2>1
<1> QED
  BY <1>3, <1>6, <1>7, <1>10, <1>11
(* The key that a code noted for a key of the host goes down under, or none.  *)
Passed(found) ==
  LET a2code == IF HotKey(found) \in DOMAIN FunctionRemap
                THEN FunctionRemap[HotKey(found)] ELSE found
  IN IF Type(found) = KEYPAD THEN JoystickRemap(Ascii(found, 1) % 256, a2code) ELSE a2code
Ignored(found) == Type(found) = KEYPAD /\ JoystickIgnores(Ascii(found, 1) % 256)
Behind(found) == IF Ignored(found) THEN {} ELSE {Passed(found)}
HotOnly(found) == HotKey(found) # 0 /\ HotKey(found) \notin DOMAIN FunctionRemap

LEMMA FunctionHot ==
  ASSUME NEW k \in FunctionCodes
  PROVE  HotKey(k) # 0
<1> HIDE DEF Keys
<1>1. k \in Keycode /\ k + 1 \in 1..128 /\ (k + 1) - 1 = k
  BY DEF FunctionCodes, Keycode
<1>2. Ascii(k, 1) \in 32769..32783
  BY <1>1, FunctionsInTable, AsciiIsKeys
<1>3. Type(k) = 8 /\ Ascii(k, 1) % 256 # 0
  BY <1>2 DEF Type
<1> QED
  BY <1>3 DEF HotKey, FUNCTION_KEY

LEMMA FixedPass == {53, 55, 58, 127} \subseteq Passing
BY DEF Passing, Keycode, FunctionCodes, SecondOption

LEMMA PassedPasses ==
  ASSUME NEW found \in Keycode \ {SecondOption}
  PROVE  Passed(found) \in Keycode /\ (~HotOnly(found) => Passed(found) \in Passing)
<1> DEFINE hot == HotKey(found)
           a2code == IF hot \in DOMAIN FunctionRemap THEN FunctionRemap[hot] ELSE found
<1>1. \A f \in DOMAIN FunctionRemap : FunctionRemap[f] \in {53, 55, 58, 127}
  BY DEF FunctionRemap
<1> HIDE DEF hot
<1>2. a2code \in Keycode
  BY <1>1, FixedPass DEF Passing
<1>3. ~HotOnly(found) => a2code \in Passing
  <2>1. CASE hot \in DOMAIN FunctionRemap
    BY <1>1, <2>1, FixedPass
  <2>2. CASE hot \notin DOMAIN FunctionRemap /\ hot = 0
    <3>1. found \notin FunctionCodes
      BY <2>2, FunctionHot DEF hot
    <3> QED
      BY <2>2, <3>1 DEF Passing
  <2> QED
    BY <2>1, <2>2 DEF HotOnly, hot
<1> HIDE DEF a2code
<1>4. ASSUME NEW ascii
      PROVE  JoystickRemap(ascii, a2code) \in {a2code, 55, 58}
  BY DEF JoystickRemap
<1>5. Passed(found) \in {a2code, 55, 58}
  BY <1>4 DEF Passed, a2code, hot
<1> QED
  BY <1>2, <1>3, <1>5, FixedPass DEF Passing

(* The codes noted are keycodes, and never the second option key's.           *)
LEMMA RemappedSkipsSecond ==
  ASSUME NEW a2code \in Keycode \ {SecondOption}
  PROVE  Remapped(a2code) \in Keycode \ {SecondOption}
<1> DEFINE arrow == IF a2code \in 123..126 THEN a2code - 64 ELSE a2code
<1>1. arrow \in Keycode \ {110}
  BY DEF Keycode, SecondOption
<1>2. Remapped(a2code) \in {arrow, 55, 58}
  <2>1. Remapped(a2code) = CASE SwapCommandOption /\ arrow = 55 -> 58
                             [] SwapCommandOption /\ arrow = 58 -> 55
                             [] OTHER -> arrow
    BY Zenon DEF Remapped
  <2> HIDE DEF arrow
  <2> QED
    BY <2>1
<1> QED
  BY <1>1, <1>2 DEF Keycode, SecondOption

(* A key that has a character goes down under its own code: neither it nor    *)
(* the key an arrow stands for is a modifier, a hot key or the keypad's.      *)
Character(k) ==
  k \in Keycode /\ (Ascii(k, 1) \in 1..127 \/ Ascii(k, 2) \in 1..127)

LEMMA CharacterCode ==
  ASSUME NEW k, Character(k)
  PROVE  LET found == Remapped(k)
         IN /\ k # SecondOption /\ k \notin Modifiers /\ found \in Keycode \ {127, SecondOption}
            /\ Type(found) = 0 /\ HotKey(found) = 0 /\ found \notin Modifiers
<1> HIDE DEF Keys
<1> DEFINE arrow == IF k \in 123..126 THEN k - 64 ELSE k
<1>1. k \in Keycode /\ k + 1 \in 1..128
  BY DEF Character, Keycode
<1>2. k + 1 \notin {55, 56, 57, 58, 59, 111, 128} /\ Keys[k + 1][1] \in 0..127
  <2>1. Ascii(k, 1) = Keys[k + 1][1] /\ Ascii(k, 2) = Keys[k + 1][2]
    BY <1>1, AsciiIsKeys
  <2>2. PICK row : row = k + 1
    OBVIOUS
  <2>3. Keys[row][1] \in 0..127 \/ Keys[row][2] \in 0..127
    BY <2>1, <2>2 DEF Character
  <2>4. row \in CharacterRows /\ Keys[row][1] \in 0..127
    BY ONLY <1>1, <2>2, <2>3, CharactersInTable
  <2> QED
    BY <2>2, <2>4 DEF CharacterRows
<1>3. k \notin {54, 55, 56, 57, 58, 110, 127}
  BY <1>1, <1>2 DEF Keycode
<1>4. arrow \in Keycode /\ arrow \notin {54, 55, 56, 57, 58, 110, 127}
  BY <1>1, <1>3 DEF Keycode
<1>5. Ascii(arrow, 1) \in 0..127
  <2>1. CASE k \in 123..126
    <3>1. arrow \in Keycode /\ arrow + 1 \in {60, 61, 62, 63}
      BY <2>1 DEF Keycode
    <3>2. Ascii(arrow, 1) = Keys[arrow + 1][1]
      BY <3>1, AsciiIsKeys
    <3> QED
      BY <3>1, <3>2, ArrowsInTable
  <2>2. CASE k \notin 123..126
    BY <1>1, <1>2, <2>2, AsciiIsKeys
  <2> QED
    BY <2>1, <2>2
<1>6. Remapped(k) = arrow
  <2>1. Remapped(k) = CASE SwapCommandOption /\ arrow = 55 -> 58
                        [] SwapCommandOption /\ arrow = 58 -> 55
                        [] OTHER -> arrow
    BY Zenon DEF Remapped
  <2> HIDE DEF arrow
  <2> QED
    BY <1>4, <2>1
<1>7. Type(arrow) = 0
  BY <1>5 DEF Type
<1>8. HotKey(arrow) = 0
  BY <1>7 DEF HotKey, FUNCTION_KEY
<1>9. arrow \notin Modifiers /\ k \notin Modifiers
  BY <1>1, <1>3, <1>4 DEF Modifiers, Keycode
<1> QED
  BY <1>3, <1>4, <1>6, <1>7, <1>8, <1>9 DEF SecondOption

LEMMA OwnCode ==
  ASSUME NEW found, Type(found) # KEYPAD, HotKey(found) = 0
  PROVE  Passed(found) = found /\ ~Ignored(found) /\ Behind(found) = {found}
<1>1. HotKey(found) \notin DOMAIN FunctionRemap
  BY DEF FunctionRemap
<1>2. Passed(found) = found
  BY <1>1 DEF Passed
<1> QED
  BY <1>2 DEF Behind, Ignored

LEMMA PlainCode ==
  ASSUME NEW k \in Keycode, Plain(k)
  PROVE  /\ Remapped(k) = k /\ Type(k) # KEYPAD /\ HotKey(k) = 0
         /\ k \notin Modifiers
<1> HIDE DEF Keys
<1>1. Ascii(k, 1) \in Int /\ Ascii(k, 1) < 256 /\ Remapped(k) = k
  BY KeysAreInts DEF Plain
<1>2. ~(Type(k) = 1) /\ ~(Type(k) = 8)
  BY <1>1 DEF Type
<1>3. k \notin {54, 55, 56, 57, 58}
  <2>1. /\ Ascii(54, 1) = 512 /\ Ascii(55, 1) = 32768 /\ Ascii(56, 1) = 256
        /\ Ascii(57, 1) = 1024 /\ Ascii(58, 1) = 16384
    BY AsciiIsKeys, ModifiersInTable DEF Keycode
  <2> QED
    BY <1>1, <2>1
<1> QED
  BY <1>1, <1>2, <1>3 DEF KEYPAD, HotKey, FUNCTION_KEY, Modifiers

(* The code found for a character does not depend on the shift, and an        *)
(* override of the shift is for a key that has the character.                 *)
LEMMA FoundCode ==
  ASSUME NEW c \in Nat, NEW raw \in Keycode \ {SecondOption}, c > 0, NEW shift,
         NEW found, found = adb_ascii_to_a2code(c, raw, shift)
  PROVE  /\ found.a2code = CodeFor(<<raw, c>>)
         /\ found.a2code \in Keycode \ {SecondOption}
         /\ found.shift # shift => Character(found.a2code)
<1> HIDE DEF Keys
<1>1. PICK intl : intl = International(c)
  OBVIOUS
<1>2. intl \in Nat /\ intl # 0
  <2>1. c # 0
    OBVIOUS
  <2>2. International(c) # 0
    BY <2>1 DEF International
  <2>3. International(c) \in Nat
    BY DEF International
  <2> QED
    BY <1>1, <2>2, <2>3
<1> DEFINE stays == intl > 127 \/ (Type(raw) = KEYPAD /\ intl \in 48..57) \/ CodesOf[intl] = {}
<1>3. CodeFor(<<raw, c>>) = adb_ascii_to_a2code(c, raw, FALSE).a2code
  BY DEF CodeFor
<1>4. CASE stays
  BY <1>1, <1>3, <1>4 DEF adb_ascii_to_a2code
<1>5. CASE ~stays
  <2>1. PICK i : i = Min(CodesOf[intl])
    OBVIOUS
  <2>2. intl \in 1..127 /\ CodesOf[intl] # {}
    BY <1>2, <1>5
  <2>3. CodesOf[intl] = {k \in Keycode : Ascii(k, 1) = intl \/ Ascii(k, 2) = intl}
    BY <2>2 DEF CodesOf, Keycode
  <2>4. i \in CodesOf[intl]
    BY <2>1, <2>2, <2>3, SmallestCode
  <2>5. Character(i)
    BY <2>2, <2>3, <2>4 DEF Character
  <2>6. i \in Keycode \ {SecondOption}
    BY <2>3, <2>4, <2>5, CharacterCode
  <2>7. \A s : adb_ascii_to_a2code(c, raw, s) = [a2code |-> i, shift |-> Ascii(i, 1) # intl]
    BY <1>1, <1>5, <2>1 DEF adb_ascii_to_a2code
  <2>8. found.a2code = i /\ CodeFor(<<raw, c>>) = i
    <3>1. PICK same : same = [a2code |-> i, shift |-> Ascii(i, 1) # intl]
      OBVIOUS
    <3>2. same.a2code = i
      BY <3>1
    <3>3. found = same /\ adb_ascii_to_a2code(c, raw, FALSE) = same
      BY <2>7, <3>1
    <3> QED
      BY <1>3, <3>2, <3>3
  <2> QED
    BY <2>5, <2>6, <2>8
<1> QED
  BY <1>4, <1>5
(* A key of the host that goes up takes the code it went down with along.     *)
Freed(a, raw) == {a.a2codes[r] : r \in DOMAIN a.a2codes \intersect {raw}}
KnownCodes(a) == \A r \in DOMAIN a.a2codes : a.a2codes[r] \in Keycode
Forgets(a, t, raw) ==
  /\ DOMAIN a.a2codes \ {raw} \subseteq DOMAIN t.a2codes
  /\ \A r \in DOMAIN t.a2codes : r \in DOMAIN a.a2codes /\ t.a2codes[r] = a.a2codes[r]

LetsGo(a, t, raw, codes) ==
  /\ BoardInv(t) /\ Forgets(a, t, raw)
  /\ t.keys_down = a.keys_down \ codes
  /\ ModsOK(a) => ModsOK(t)

LEMMA ReleaseBoard ==
  ASSUME NEW a, BoardInv(a), KnownCodes(a), NEW raw, NEW t, t = Release(a, raw)
  PROVE  LetsGo(a, t, raw, Freed(a, raw))
<1>1. CASE raw \in DOMAIN a.a2codes
  <2>1. PICK k : k = a.a2codes[raw]
    OBVIOUS
  <2>2. PICK u : u = adb_maybe_virtual_key_update(a, k, TRUE)
    OBVIOUS
  <2>3. k \in Keycode
    BY <1>1, <2>1 DEF KnownCodes
  <2>4. Moves(a, u, k, TRUE)
    BY <2>2, <2>3, MaybeKeyBoard
  <2>5. /\ BoardInv(u) /\ u.a2codes = a.a2codes /\ u.keys_down = a.keys_down \ {k}
        /\ ModsOK(a) => ModsOK(u)
    BY <2>4 DEF Moves
  <2>6. PICK kept : kept = Restrict(u.a2codes, DOMAIN u.a2codes \ {raw})
    OBVIOUS
  <2>7. t = [u EXCEPT !.a2codes = kept]
    BY <1>1, <2>1, <2>2, <2>6 DEF Release
  <2>8. /\ Whole(t) /\ t.a2codes = kept /\ t.mode = u.mode /\ t.kbd_dev = u.kbd_dev
        /\ t.kbd_ctl = u.kbd_ctl /\ t.state = u.state /\ t.a2code_down = u.a2code_down
        /\ t.keys_down = u.keys_down /\ t.c025 = u.c025
    BY <2>5, <2>7, FieldsAre DEF Whole, BoardInv
  <2>9. BoardInv(t) /\ (ModsOK(u) => ModsOK(t))
    BY <2>5, <2>8 DEF BoardInv, ModsOK
  <2>10. kept = [r \in DOMAIN a.a2codes \ {raw} |-> a.a2codes[r]]
    BY <2>5, <2>6 DEF Restrict
  <2>11. Forgets(a, t, raw)
    BY <2>8, <2>10 DEF Forgets
  <2>12. Freed(a, raw) = {k}
    BY <1>1, <2>1 DEF Freed
  <2> QED
    BY <2>5, <2>8, <2>9, <2>11, <2>12 DEF LetsGo
<1>2. CASE raw \notin DOMAIN a.a2codes
  <2>1. t = a /\ Freed(a, raw) = {}
    BY <1>2 DEF Release, Freed
  <2> QED
    BY <2>1 DEF LetsGo, Forgets
<1> QED
  BY <1>1, <1>2

LEMMA PassKeyDown ==
  ASSUME NEW a, BoardInv(a), NEW raw, NEW k \in Passing,
         NEW t, t = PassKey(a, raw, k, FALSE)
  PROVE  Moves(a, t, k, FALSE)
<1>1. t = adb_maybe_virtual_key_update(a, k, FALSE)
  BY DEF PassKey
<1>2. k \in Keycode
  BY DEF Passing
<1> QED
  BY <1>1, <1>2, MaybeKeyBoard

LEMMA PassKeyUp ==
  ASSUME NEW a, BoardInv(a), KnownCodes(a), NEW raw, NEW k \in Keycode,
         NEW t, t = PassKey(a, raw, k, TRUE)
  PROVE  LetsGo(a, t, raw, {k} \union Freed(a, raw))
<1>1. PICK passed : passed = adb_maybe_virtual_key_update(a, k, TRUE)
  OBVIOUS
<1>2. t = Release(passed, raw)
  BY <1>1 DEF PassKey
<1>3. Moves(a, passed, k, TRUE)
  BY <1>1, MaybeKeyBoard
<1>4. /\ BoardInv(passed) /\ passed.a2codes = a.a2codes
      /\ passed.keys_down = a.keys_down \ {k} /\ (ModsOK(a) => ModsOK(passed))
  BY <1>3 DEF Moves
<1>5. KnownCodes(passed) /\ Freed(passed, raw) = Freed(a, raw)
  BY <1>4 DEF KnownCodes, Freed
<1>6. LetsGo(passed, t, raw, Freed(passed, raw))
  BY <1>2, <1>4, <1>5, ReleaseBoard
<1> QED
  BY <1>4, <1>5, <1>6 DEF LetsGo, Forgets

(* The keypad's keys move the joystick.                                       *)
LEMMA JoystickIdle ==
  ASSUME NEW a, BoardInv(a), NEW ascii, NEW is_up
  PROVE  Idle(a, KeypadKey(a, ascii, is_up))
<1>1. Whole(a)
  BY DEF BoardInv
<1>2. PICK t : t = KeypadKey(a, ascii, is_up)
  OBVIOUS
<1>3. Writes(a, t, {"keypad_down"})
  BY <1>1, <1>2 DEF KeypadKey, Writes, Whole
<1> QED
  BY <1>2, <1>3, WritesNoFlagIdle DEF IdleFields

(* What a key does that goes down, and one that goes up.                      *)
Presses(a, t, codes) ==
  /\ BoardInv(t) /\ t.a2codes = a.a2codes
  /\ a.keys_down \subseteq t.keys_down /\ t.keys_down \subseteq a.keys_down \union codes
  /\ ModsOK(a) => ModsOK(t)

Releases(a, t, raw, found) ==
  /\ BoardInv(t) /\ Forgets(a, t, raw)
  /\ t.keys_down \subseteq a.keys_down
  /\ a.keys_down \ t.keys_down \subseteq Behind(found) \union Freed(a, raw)
  /\ Behind(found) \intersect t.keys_down = {}
  /\ Type(found) # KEYPAD => Freed(a, raw) \intersect t.keys_down = {}
  /\ ModsOK(a) => ModsOK(t)

LEMMA IdlePresses ==
  ASSUME NEW a, NEW t, Idle(a, t), NEW codes
  PROVE  Presses(a, t, codes)
BY IdleMods DEF Idle, Presses

LEMMA KeyOfDown ==
  ASSUME NEW a, BoardInv(a), NEW raw, NEW found \in Keycode \ {SecondOption},
         NEW t, t = KeyOf(a, "main", raw, found, FALSE)
  PROVE  Presses(a, t, Behind(found))
<1> DEFINE hot == HotKey(found)
           remapped == hot \in DOMAIN FunctionRemap
           a2code == IF remapped THEN FunctionRemap[hot] ELSE found
           ascii == Ascii(found, 1) % 256
           keypad == Type(found) = KEYPAD
           joystick == IF keypad THEN KeypadKey(a, ascii, FALSE) ELSE a
           code == IF keypad THEN JoystickRemap(ascii, a2code) ELSE a2code
           passed == PassKey(joystick, raw, code, FALSE)
<1>1. code = Passed(found) /\ Ignored(found) = (keypad /\ JoystickIgnores(ascii))
  BY DEF Passed, Ignored
<1>2. Idle(a, joystick) /\ BoardInv(joystick)
  <2>1. Idle(a, KeypadKey(a, ascii, FALSE))
    BY JoystickIdle
  <2> QED
    BY <2>1, IdleItself DEF Idle
<1> HIDE DEF joystick, code
<1>3. \/ t = adb_reset(a)
      \/ HotOnly(found) /\ t = HotKeyPressed(a, hot)
      \/ ~HotOnly(found) /\ Ignored(found) /\ t = joystick
      \/ ~HotOnly(found) /\ ~Ignored(found) /\ t = passed
  <2> DEFINE reset == ~FALSE /\ a2code = 127 /\ CTRL \in a.c025
             only == ~FALSE /\ hot # 0 /\ ~remapped
             ignores == keypad /\ JoystickIgnores(ascii)
  <2>1. t = CASE reset -> adb_reset(a)
              [] only -> HotKeyPressed(a, hot)
              [] OTHER -> IF "main" = "debug" THEN a ELSE IF ignores THEN joystick ELSE passed
    BY Zenon DEF KeyOf, joystick, code
  <2>2. only = HotOnly(found) /\ ignores = Ignored(found)
    BY <1>1, Zenon DEF HotOnly
  <2> HIDE DEF reset, only, ignores, passed, hot
  <2>3. \/ t = adb_reset(a)
        \/ only /\ t = HotKeyPressed(a, hot)
        \/ ~only /\ ignores /\ t = joystick
        \/ ~only /\ ~ignores /\ t = passed
    BY <2>1
  <2> QED
    BY <2>2, <2>3
<1>4. CASE t = adb_reset(a)
  BY <1>4, ResetIdle, IdlePresses
<1>5. CASE t = HotKeyPressed(a, hot)
  <2> HIDE DEF hot
  <2> QED
    BY <1>5, HotKeyIdle, IdlePresses
<1>6. CASE t = joystick
  BY <1>2, <1>6, IdlePresses
<1>7. CASE ~HotOnly(found) /\ ~Ignored(found) /\ t = passed
  <2>1. code \in Passing /\ Behind(found) = {code}
    BY <1>1, <1>7, PassedPasses DEF Behind
  <2>2. Moves(joystick, t, code, FALSE)
    BY <1>2, <1>7, <2>1, PassKeyDown
  <2>3. /\ BoardInv(t) /\ t.a2codes = joystick.a2codes
        /\ t.keys_down = joystick.keys_down \union {code}
        /\ ModsOK(joystick) => ModsOK(t)
    BY <2>2 DEF Moves
  <2>4. joystick.a2codes = a.a2codes /\ joystick.keys_down = a.keys_down
    BY <1>2 DEF Idle
  <2>5. ModsOK(a) => ModsOK(joystick)
    BY <1>2, IdleMods
  <2> QED
    BY <2>1, <2>3, <2>4, <2>5 DEF Presses
<1> QED
  BY <1>3, <1>4, <1>5, <1>6, <1>7

LEMMA KeyOfUp ==
  ASSUME NEW a, BoardInv(a), KnownCodes(a), NEW raw, NEW found \in Keycode \ {SecondOption},
         NEW t, t = KeyOf(a, "main", raw, found, TRUE)
  PROVE  Releases(a, t, raw, found)
<1> DEFINE hot == HotKey(found)
           remapped == hot \in DOMAIN FunctionRemap
           a2code == IF remapped THEN FunctionRemap[hot] ELSE found
           ascii == Ascii(found, 1) % 256
           keypad == Type(found) = KEYPAD
           joystick == IF keypad THEN KeypadKey(a, ascii, TRUE) ELSE a
           code == IF keypad THEN JoystickRemap(ascii, a2code) ELSE a2code
           passed == PassKey(joystick, raw, code, TRUE)
<1>1. code = Passed(found) /\ Ignored(found) = (keypad /\ JoystickIgnores(ascii))
  BY DEF Passed, Ignored
<1>2. Idle(a, joystick)
  <2>1. Idle(a, KeypadKey(a, ascii, TRUE))
    BY JoystickIdle
  <2> QED
    BY <2>1, IdleItself
<1>3. /\ BoardInv(joystick) /\ joystick.a2codes = a.a2codes
      /\ joystick.keys_down = a.keys_down /\ (ModsOK(a) => ModsOK(joystick))
  BY <1>2, IdleMods DEF Idle
<1> HIDE DEF joystick, code
<1>4. \/ Ignored(found) /\ t = joystick
      \/ ~Ignored(found) /\ t = passed
  BY <1>1, Zenon DEF KeyOf, joystick, code
<1>5. CASE Ignored(found) /\ t = joystick
  <2>1. Behind(found) = {} /\ Type(found) = KEYPAD
    BY <1>5 DEF Behind, Ignored
  <2> QED
    BY <1>3, <1>5, <2>1 DEF Releases, Forgets
<1>6. CASE ~Ignored(found) /\ t = passed
  <2>1. code \in Keycode /\ Behind(found) = {code}
    BY <1>1, <1>6, PassedPasses DEF Behind
  <2>2. KnownCodes(joystick) /\ Freed(joystick, raw) = Freed(a, raw)
    BY <1>3 DEF KnownCodes, Freed
  <2>3. LetsGo(joystick, t, raw, {code} \union Freed(joystick, raw))
    BY <1>3, <1>6, <2>1, <2>2, PassKeyUp
  <2>4. /\ BoardInv(t) /\ Forgets(a, t, raw)
        /\ t.keys_down = a.keys_down \ ({code} \union Freed(a, raw))
        /\ ModsOK(a) => ModsOK(t)
    BY <1>3, <2>2, <2>3 DEF LetsGo, Forgets
  <2> QED
    BY <2>1, <2>4 DEF Releases
<1> QED
  BY <1>4, <1>5, <1>6
LEMMA FlagsBoard ==
  ASSUME NEW a, BoardInv(a), NEW flags, NEW t, t = [a EXCEPT !.c025 = flags]
  PROVE  /\ BoardInv(t) /\ Whole(t) /\ t.c025 = flags
         /\ t.keys_down = a.keys_down /\ t.a2codes = a.a2codes
<1>1. /\ Whole(t) /\ t.a2codes = a.a2codes /\ t.mode = a.mode /\ t.kbd_dev = a.kbd_dev
      /\ t.kbd_ctl = a.kbd_ctl /\ t.state = a.state /\ t.a2code_down = a.a2code_down
      /\ t.keys_down = a.keys_down /\ t.c025 = flags
  BY FieldsAre DEF Whole, BoardInv
<1> QED
  BY <1>1 DEF BoardInv

LEMMA NoteBoard ==
  ASSUME NEW a, BoardInv(a), NEW raw, NEW code, NEW t, t = Note(a, raw, code)
  PROVE  /\ BoardInv(t) /\ t.keys_down = a.keys_down /\ t.c025 = a.c025
         /\ t.a2codes = [key \in DOMAIN a.a2codes \union {raw} |->
                          IF key = raw THEN code ELSE a.a2codes[key]]
<1>1. /\ Writes(a, t, {"a2codes"})
      /\ t.a2codes = [key \in DOMAIN a.a2codes \union {raw} |->
                        IF key = raw THEN code ELSE a.a2codes[key]]
  BY NoteWrites DEF BoardInv
<1>2. /\ Whole(t) /\ t.mode = a.mode /\ t.kbd_dev = a.kbd_dev
      /\ t.kbd_ctl = a.kbd_ctl /\ t.state = a.state /\ t.a2code_down = a.a2code_down
      /\ t.keys_down = a.keys_down /\ t.c025 = a.c025
  BY <1>1, FieldsAre DEF Writes
<1> QED
  BY <1>1, <1>2 DEF BoardInv

(* The code found for a key, and whether the shift is put in its place.       *)
LEMMA FoundFor ==
  ASSUME NEW c \in Nat, NEW raw \in Keycode \ {SecondOption}, NEW shift,
         NEW found, found = IF c > 0 THEN adb_ascii_to_a2code(c, raw, shift)
                            ELSE [a2code |-> raw, shift |-> shift]
  PROVE  /\ found.a2code = CodeFor(<<raw, c>>)
         /\ found.a2code \in Keycode \ {SecondOption}
         /\ found.shift # shift => c > 0 /\ Character(found.a2code)
<1>1. CASE c > 0
  BY <1>1, FoundCode
<1>2. CASE ~(c > 0)
  BY <1>2 DEF CodeFor
<1> QED
  BY <1>1, <1>2

LEMMA ModifiersAre == \A bit \in ModBits : ModifierKeys[bit] \in Modifiers
BY ModifierKeysAre DEF Modifiers

(* The modifiers do not see the shift that is put in its place for a while.   *)
LEMMA ModsApart ==
  ASSUME NEW a, ModsOK(a), NEW t, t.c025 = a.c025,
         \A k \in Modifiers : k \in t.keys_down <=> k \in a.keys_down
  PROVE  ModsOK(t)
BY ModifiersAre DEF ModsOK

Noted(a, raw, c) ==
  IF c > 0
  THEN [key \in DOMAIN a.a2codes \union {raw} |->
          IF key = raw THEN CodeFor(<<raw, c>>) ELSE a.a2codes[key]]
  ELSE a.a2codes

Strikes(a, t, raw, c) ==
  /\ BoardInv(t) /\ (ModsOK(a) => ModsOK(t))
  /\ t.keys_down \subseteq a.keys_down \union Behind(Remapped(CodeFor(<<raw, c>>)))
  /\ t.a2codes = Noted(a, raw, c)

LEMMA PhysicalKeyDown ==
  ASSUME NEW a, BoardInv(a), NEW raw \in Keycode \ {SecondOption}, NEW c \in Nat,
         NEW t, t = adb_physical_key_update(a, "main", raw, c, FALSE)
  PROVE  Strikes(a, t, raw, c)
<1>1. PICK found : found = IF c > 0
                           THEN adb_ascii_to_a2code(c, raw, SHIFT \in a.c025)
                           ELSE [a2code |-> raw, shift |-> SHIFT \in a.c025]
  OBVIOUS
<1> DEFINE override == found.a2code # 0 /\ found.shift # (SHIFT \in a.c025)
<1>2. PICK shifted : shifted = IF override THEN [a EXCEPT !.c025 = SymDiff(@, {SHIFT})]
                               ELSE a
  OBVIOUS
<1>3. PICK noted : noted = IF c > 0 THEN Note(shifted, raw, found.a2code) ELSE shifted
  OBVIOUS
<1>4. PICK handled : handled = KeyOf(noted, "main", raw, Remapped(found.a2code), FALSE)
  OBVIOUS
<1>5. t = IF override THEN [handled EXCEPT !.c025 = a.c025] ELSE handled
  BY <1>1, <1>2, <1>3, <1>4 DEF adb_physical_key_update
<1>6. PICK code : code = CodeFor(<<raw, c>>)
  OBVIOUS
<1>7. /\ found.a2code = code /\ code \in Keycode \ {SecondOption}
      /\ override => Character(code)
  BY <1>1, <1>6, FoundFor
<1> HIDE DEF override
<1>8. /\ BoardInv(shifted) /\ shifted.keys_down = a.keys_down /\ shifted.a2codes = a.a2codes
      /\ ~override => shifted.c025 = a.c025
  <2>1. CASE override
    <3>1. PICK flags : shifted = [a EXCEPT !.c025 = flags]
      BY <1>2, <2>1
    <3> QED
      BY <2>1, <3>1, FlagsBoard
  <2>2. CASE ~override
    BY <1>2, <2>2
  <2> QED
    BY <2>1, <2>2
<1>9. /\ BoardInv(noted) /\ noted.keys_down = a.keys_down /\ noted.c025 = shifted.c025
      /\ noted.a2codes = Noted(a, raw, c)
  <2>1. CASE c > 0
    <3>1. noted = Note(shifted, raw, code)
      BY <1>3, <1>7, <2>1
    <3>2. /\ BoardInv(noted) /\ noted.keys_down = shifted.keys_down
          /\ noted.c025 = shifted.c025
          /\ noted.a2codes = [k \in DOMAIN shifted.a2codes \union {raw} |->
                                IF k = raw THEN code ELSE shifted.a2codes[k]]
      BY <1>8, <3>1, NoteBoard
    <3>3. Noted(a, raw, c) = [k \in DOMAIN a.a2codes \union {raw} |->
                                IF k = raw THEN code ELSE a.a2codes[k]]
      BY <1>6, <2>1 DEF Noted
    <3> QED
      BY <1>8, <3>2, <3>3
  <2>2. CASE ~(c > 0)
    BY <1>3, <1>8, <2>2 DEF Noted
  <2> QED
    BY <2>1, <2>2
<1>10. PICK key : key = Remapped(code)
  OBVIOUS
<1>11. key \in Keycode \ {SecondOption}
  BY <1>7, <1>10, RemappedSkipsSecond
<1>12. Presses(noted, handled, Behind(key))
  BY <1>4, <1>7, <1>9, <1>10, <1>11, KeyOfDown
<1>13. /\ BoardInv(handled) /\ handled.a2codes = Noted(a, raw, c)
       /\ a.keys_down \subseteq handled.keys_down
       /\ handled.keys_down \subseteq a.keys_down \union Behind(key)
       /\ ModsOK(noted) => ModsOK(handled)
  BY <1>9, <1>12 DEF Presses
<1>14. CASE override
  <2>1. t = [handled EXCEPT !.c025 = a.c025]
    BY <1>5, <1>14
  <2>2. /\ BoardInv(t) /\ t.c025 = a.c025
        /\ t.keys_down = handled.keys_down /\ t.a2codes = handled.a2codes
    <3>1. PICK flags : flags = a.c025
      OBVIOUS
    <3>2. t = [handled EXCEPT !.c025 = flags]
      BY <2>1, <3>1
    <3>3. BoardInv(handled)
      BY <1>13
    <3>4. /\ BoardInv(t) /\ t.c025 = flags
          /\ t.keys_down = handled.keys_down /\ t.a2codes = handled.a2codes
      BY ONLY <3>2, <3>3, FlagsBoard
    <3> QED
      BY <3>1, <3>4
  <2>3. Type(key) = 0 /\ HotKey(key) = 0 /\ key \notin Modifiers
    BY <1>7, <1>10, <1>14, CharacterCode
  <2>4. Behind(key) = {key}
    BY <2>3, OwnCode DEF KEYPAD
  <2>5. \A k \in Modifiers : k \in t.keys_down <=> k \in a.keys_down
    BY <1>13, <2>2, <2>3, <2>4
  <2>6. ModsOK(a) => ModsOK(t)
    BY <2>2, <2>5, ModsApart
  <2> QED
    BY <1>6, <1>10, <1>13, <2>2, <2>6 DEF Strikes
<1>15. CASE ~override
  <2>1. t = handled
    BY <1>5, <1>15
  <2>2. ModsOK(a) => ModsOK(noted)
    BY <1>8, <1>9, <1>15 DEF ModsOK
  <2> QED
    BY <1>6, <1>10, <1>13, <2>1, <2>2 DEF Strikes
<1> QED
  BY <1>14, <1>15

LEMMA PhysicalKeyUp ==
  ASSUME NEW a, BoardInv(a), KnownCodes(a), NEW raw \in Keycode \ {SecondOption},
         NEW c \in Nat, NEW code, code = CodeFor(<<raw, c>>),
         c > 0 => \A freed \in Freed(a, raw) : freed = code \/ Plain(freed),
         NEW t, t = adb_physical_key_update(a, "main", raw, c, TRUE)
  PROVE  Releases(a, t, raw, Remapped(code))
<1>1. PICK found : found = IF c > 0
                           THEN adb_ascii_to_a2code(c, raw, SHIFT \in a.c025)
                           ELSE [a2code |-> raw, shift |-> SHIFT \in a.c025]
  OBVIOUS
<1> DEFINE override == found.a2code # 0 /\ found.shift # (SHIFT \in a.c025)
<1>2. PICK shifted : shifted = IF override THEN [a EXCEPT !.c025 = SymDiff(@, {SHIFT})]
                               ELSE a
  OBVIOUS
<1>3. PICK handled : handled = KeyOf(shifted, "main", raw, Remapped(found.a2code), TRUE)
  OBVIOUS
<1>4. t = IF override THEN [handled EXCEPT !.c025 = a.c025] ELSE handled
  BY <1>1, <1>2, <1>3 DEF adb_physical_key_update
<1>5. /\ found.a2code = code /\ code \in Keycode \ {SecondOption}
      /\ override => c > 0 /\ Character(code)
  BY <1>1, FoundFor
<1> HIDE DEF override
<1>6. /\ BoardInv(shifted) /\ shifted.keys_down = a.keys_down /\ shifted.a2codes = a.a2codes
      /\ ~override => shifted = a
  <2>1. CASE override
    <3>1. PICK flags : shifted = [a EXCEPT !.c025 = flags]
      BY <1>2, <2>1
    <3> QED
      BY <2>1, <3>1, FlagsBoard
  <2>2. CASE ~override
    BY <1>2, <2>2
  <2> QED
    BY <2>1, <2>2
<1>7. KnownCodes(shifted) /\ Freed(shifted, raw) = Freed(a, raw)
  BY <1>6 DEF KnownCodes, Freed
<1>8. PICK key : key = Remapped(code)
  OBVIOUS
<1>9. key \in Keycode \ {SecondOption}
  BY <1>5, <1>8, RemappedSkipsSecond
<1>10. Releases(shifted, handled, raw, key)
  BY <1>3, <1>5, <1>6, <1>7, <1>8, <1>9, KeyOfUp
<1>11. CASE override
  <2>1. t = [handled EXCEPT !.c025 = a.c025]
    BY <1>4, <1>11
  <2>2. /\ BoardInv(t) /\ t.c025 = a.c025
        /\ t.keys_down = handled.keys_down /\ t.a2codes = handled.a2codes
    <3>1. PICK flags : flags = a.c025
      OBVIOUS
    <3>2. t = [handled EXCEPT !.c025 = flags]
      BY <2>1, <3>1
    <3>3. BoardInv(handled)
      BY <1>10 DEF Releases
    <3>4. /\ BoardInv(t) /\ t.c025 = flags
          /\ t.keys_down = handled.keys_down /\ t.a2codes = handled.a2codes
      BY ONLY <3>2, <3>3, FlagsBoard
    <3> QED
      BY <3>1, <3>4
  <2>3. Type(key) = 0 /\ HotKey(key) = 0 /\ key \notin Modifiers
    BY <1>5, <1>8, <1>11, CharacterCode
  <2>4. Behind(key) = {key}
    BY <2>3, OwnCode DEF KEYPAD
  <2>5. \A freed \in Freed(a, raw) : freed \notin Modifiers
    <3> SUFFICES ASSUME NEW freed \in Freed(a, raw) PROVE freed \notin Modifiers
      OBVIOUS
    <3>1. freed \in Keycode
      BY DEF Freed, KnownCodes
    <3>2. CASE freed = code
      <4>1. code \notin Modifiers
        BY <1>5, <1>11, CharacterCode
      <4> QED
        BY <3>2, <4>1
    <3>3. CASE Plain(freed)
      BY <3>1, <3>3, PlainCode
    <3> QED
      BY <1>5, <1>11, <3>2, <3>3
  <2>6. \A k \in Modifiers : k \in t.keys_down <=> k \in a.keys_down
    BY <1>6, <1>7, <1>10, <2>2, <2>3, <2>4, <2>5 DEF Releases
  <2>7. ModsOK(a) => ModsOK(t)
    BY <2>2, <2>6, ModsApart
  <2> QED
    BY <1>6, <1>7, <1>8, <1>10, <2>2, <2>7 DEF Releases, Forgets
<1>12. CASE ~override
  <2>1. t = handled
    BY <1>4, <1>12
  <2> QED
    BY <1>6, <1>8, <1>10, <1>12, <2>1
<1> QED
  BY <1>11, <1>12
(* What is down is behind a key of the host that is held, and what was noted  *)
(* for one was found for a character that it may come with.                   *)
StandsFor(raw) == CodeFor(<<raw, held[raw]>>)
HeldInv ==
  /\ BoardInv(adb)
  /\ \A raw \in DOMAIN held : \E s \in Allowed.strokes : s[1] = raw /\ s[2] = held[raw]
  /\ \A k \in adb.keys_down : \E raw \in DOMAIN held : k \in Behind(Remapped(StandsFor(raw)))
  /\ \A raw \in DOMAIN held :
       held[raw] > 0 => raw \in DOMAIN adb.a2codes /\ adb.a2codes[raw] = StandsFor(raw)
  /\ \A raw \in DOMAIN adb.a2codes :
       \E s \in Allowed.strokes :
         s[1] = raw /\ s[2] > 0 /\ adb.a2codes[raw] = CodeFor(<<raw, s[2]>>)
  /\ Allowed.masks = {} => ModsOK(adb)

Firm == Untouched /\ Steady
StuckInv == AdbInv /\ (Firm => HeldInv)

LEMMA StrokeFacts ==
  ASSUME AdbInv, Firm, NEW s \in Allowed.strokes
  PROVE  /\ s[1] \in Keycode \ {SecondOption} /\ s[2] \in Nat
         /\ CodeFor(s) = CodeFor(<<s[1], s[2]>>)
         /\ CodeFor(s) \in Keycode \ {SecondOption}
<1>1. s[1] \in Keycode \ {SecondOption} /\ s[2] \in Nat
  BY SessionsAssumption DEF AdbInv, Firm, Steady, Allowed, Keycode
<1>2. CodeFor(s) = CodeFor(<<s[1], s[2]>>)
  BY DEF CodeFor
<1>3. CodeFor(<<s[1], s[2]>>) \in Keycode \ {SecondOption}
  <2>1. PICK found : found = IF s[2] > 0 THEN adb_ascii_to_a2code(s[2], s[1], FALSE)
                             ELSE [a2code |-> s[1], shift |-> FALSE]
    OBVIOUS
  <2> QED
    BY <1>1, <2>1, FoundFor
<1> QED
  BY <1>1, <1>2, <1>3

(* What leaves the keys down as they are.                                     *)
LEMMA KeptHeld ==
  ASSUME HeldInv, BoardInv(adb'), adb'.keys_down = adb.keys_down,
         adb'.a2codes = adb.a2codes, Allowed.masks = {} => ModsOK(adb'),
         UNCHANGED <<session, held>>
  PROVE  HeldInv'
<1>1. Allowed' = Allowed /\ held' = held
  BY DEF Allowed
<1>2. \A raw : StandsFor(raw)' = StandsFor(raw)
  BY <1>1 DEF StandsFor
<1> QED
  BY <1>1, <1>2 DEF HeldInv

LEMMA IdleHeld ==
  ASSUME HeldInv, Idle(adb, adb'), UNCHANGED <<session, held>>
  PROVE  HeldInv'
<1>1. ModsOK(adb) => ModsOK(adb')
  BY IdleMods
<1> QED
  BY <1>1, KeptHeld DEF Idle, HeldInv

LEMMA KeyDownHeld ==
  ASSUME AdbInv, Firm, HeldInv, NEW s \in Allowed.strokes, KeyDown(s[1], s[2], "main")
  PROVE  HeldInv'
<1>1. PICK raw : raw = s[1]
  OBVIOUS
<1>2. PICK c : c = s[2]
  OBVIOUS
<1>3. raw \in Keycode \ {SecondOption} /\ c \in Nat
  BY <1>1, <1>2, StrokeFacts
<1>4. PICK code : code = CodeFor(<<raw, c>>)
  OBVIOUS
<1>5. /\ raw \notin DOMAIN held
      /\ adb' = adb_physical_key_update(adb, "main", raw, c, FALSE)
      /\ held' = [key \in DOMAIN held \union {raw} |-> IF key = raw THEN c ELSE held[key]]
      /\ Allowed' = Allowed
  BY <1>1, <1>2 DEF KeyDown, Spend, Allowed
<1>6. PICK t : t = adb'
  OBVIOUS
<1>7. /\ BoardInv(t) /\ (ModsOK(adb) => ModsOK(t))
      /\ t.keys_down \subseteq adb.keys_down \union Behind(Remapped(code))
      /\ t.a2codes = Noted(adb, raw, c)
  <2>1. BoardInv(adb) /\ t = adb_physical_key_update(adb, "main", raw, c, FALSE)
    BY <1>5, <1>6 DEF HeldInv
  <2>2. Strikes(adb, t, raw, c)
    BY ONLY <1>3, <2>1, PhysicalKeyDown
  <2> QED
    BY <1>4, <2>2 DEF Strikes
<1>8. /\ DOMAIN held' = DOMAIN held \union {raw} /\ held'[raw] = c
      /\ \A r \in DOMAIN held : r # raw /\ held'[r] = held[r]
  BY <1>5
<1>9. /\ StandsFor(raw)' = code
      /\ \A r \in DOMAIN held : StandsFor(r)' = StandsFor(r)
  BY <1>4, <1>8 DEF StandsFor
<1>10. \A r \in DOMAIN held' : \E x \in Allowed.strokes : x[1] = r /\ x[2] = held'[r]
  BY <1>1, <1>2, <1>8 DEF HeldInv
<1>11. \A k \in t.keys_down : \E r \in DOMAIN held' : k \in Behind(Remapped(StandsFor(r)'))
  BY <1>7, <1>8, <1>9 DEF HeldInv
<1>12. /\ DOMAIN adb.a2codes \subseteq DOMAIN t.a2codes
       /\ DOMAIN t.a2codes \subseteq DOMAIN adb.a2codes \union {raw}
       /\ \A r \in DOMAIN adb.a2codes : r # raw => t.a2codes[r] = adb.a2codes[r]
       /\ c > 0 => raw \in DOMAIN t.a2codes /\ t.a2codes[raw] = code
       /\ ~(c > 0) => t.a2codes = adb.a2codes
  <2>1. CASE c > 0
    <3>1. t.a2codes = [r \in DOMAIN adb.a2codes \union {raw} |->
                         IF r = raw THEN code ELSE adb.a2codes[r]]
      BY <1>4, <1>7, <2>1 DEF Noted
    <3> QED
      BY <2>1, <3>1
  <2>2. CASE ~(c > 0)
    BY <1>7, <2>2 DEF Noted
  <2> QED
    BY <2>1, <2>2
<1>13. \A r \in DOMAIN held' :
         held'[r] > 0 => r \in DOMAIN t.a2codes /\ t.a2codes[r] = StandsFor(r)'
  BY <1>8, <1>9, <1>12 DEF HeldInv
<1>14. \A r \in DOMAIN t.a2codes :
         \E x \in Allowed.strokes :
           x[1] = r /\ x[2] > 0 /\ t.a2codes[r] = CodeFor(<<r, x[2]>>)
  <2> SUFFICES ASSUME NEW r \in DOMAIN t.a2codes
               PROVE  \E x \in Allowed.strokes :
                        x[1] = r /\ x[2] > 0 /\ t.a2codes[r] = CodeFor(<<r, x[2]>>)
    OBVIOUS
  <2>1. CASE c > 0 /\ r = raw
    BY <1>1, <1>2, <1>4, <1>12, <2>1
  <2>2. CASE ~(c > 0 /\ r = raw)
    <3>1. r \in DOMAIN adb.a2codes /\ t.a2codes[r] = adb.a2codes[r]
      BY <1>12, <2>2
    <3> QED
      BY <3>1 DEF HeldInv
  <2> QED
    BY <2>1, <2>2
<1>15. Allowed.masks = {} => ModsOK(t)
  BY <1>7 DEF HeldInv
<1>16. BoardInv(adb') /\ (Allowed'.masks = {} => ModsOK(adb'))
  BY <1>5, <1>6, <1>7, <1>15
<1>17. /\ \A r \in DOMAIN held' : \E x \in Allowed'.strokes : x[1] = r /\ x[2] = held'[r]
       /\ \A k \in adb'.keys_down : \E r \in DOMAIN held' : k \in Behind(Remapped(StandsFor(r)'))
  BY <1>5, <1>6, <1>10, <1>11
<1>18. /\ \A r \in DOMAIN held' :
            held'[r] > 0 => r \in DOMAIN adb'.a2codes /\ adb'.a2codes[r] = StandsFor(r)'
       /\ \A r \in DOMAIN adb'.a2codes :
            \E x \in Allowed'.strokes :
              x[1] = r /\ x[2] > 0 /\ adb'.a2codes[r] = CodeFor(<<r, x[2]>>)
  BY <1>5, <1>6, <1>13, <1>14
<1> QED
  BY ONLY <1>16, <1>17, <1>18 DEF HeldInv

LEMMA KeyUpHeld ==
  ASSUME AdbInv, Firm, HeldInv, NEW s \in Allowed.strokes, KeyUp(s[1], s[2], "main")
  PROVE  HeldInv'
<1>1. PICK raw : raw = s[1]
  OBVIOUS
<1>2. PICK c : c = s[2]
  OBVIOUS
<1>3. raw \in Keycode \ {SecondOption} /\ c \in Nat
  BY <1>1, <1>2, StrokeFacts
<1>4. PICK code : code = CodeFor(<<raw, c>>)
  OBVIOUS
<1>5. /\ raw \in DOMAIN held /\ (held[raw] > 0) = (c > 0)
      /\ adb' = adb_physical_key_update(adb, "main", raw, c, TRUE)
      /\ held' = [r \in DOMAIN held \ {raw} |-> held[r]]
      /\ Allowed' = Allowed
  BY <1>1, <1>2 DEF KeyUp, Spend, Allowed, Restrict
<1>6. PICK t : t = adb'
  OBVIOUS
<1>7. PICK down : down = StandsFor(raw)
  OBVIOUS
<1>8. PICK first \in Allowed.strokes : first[1] = raw /\ first[2] = held[raw]
  BY <1>5 DEF HeldInv
<1>9. CodeFor(first) = down /\ CodeFor(s) = code /\ down \in Keycode /\ code \in Keycode
  BY <1>1, <1>2, <1>4, <1>7, <1>8, StrokeFacts DEF StandsFor
<1>10. \/ down = code
       \/ c > 0 /\ Plain(down) /\ Plain(code)
  <2>1. CASE c > 0
    <3>1. s[1] = first[1] /\ s[2] > 0 /\ first[2] > 0
      BY <1>1, <1>2, <1>5, <1>8, <2>1
    <3>2. /\ CodeFor(s) = CodeFor(first) \/ Plain(CodeFor(s))
          /\ CodeFor(first) = CodeFor(s) \/ Plain(CodeFor(first))
      BY <3>1 DEF Firm, Steady
    <3> QED
      BY <1>9, <2>1, <3>2
  <2>2. CASE ~(c > 0)
    <3>1. ~(held[raw] > 0)
      BY <1>5, <2>2
    <3>2. down = raw /\ code = raw
      BY <1>4, <1>7, <2>2, <3>1 DEF StandsFor, CodeFor
    <3> QED
      BY <3>2
  <2> QED
    BY <2>1, <2>2
<1>11. c > 0 => Freed(adb, raw) = {down}
  BY <1>5, <1>7 DEF HeldInv, Freed
<1>12. KnownCodes(adb)
  <2> SUFFICES ASSUME NEW r \in DOMAIN adb.a2codes PROVE adb.a2codes[r] \in Keycode
    BY DEF KnownCodes
  <2>1. PICK x \in Allowed.strokes : x[1] = r /\ adb.a2codes[r] = CodeFor(<<r, x[2]>>)
    BY DEF HeldInv
  <2> QED
    BY <2>1, StrokeFacts
<1>13. Releases(adb, t, raw, Remapped(code))
  <2>1. c > 0 => \A freed \in Freed(adb, raw) : freed = code \/ Plain(freed)
    BY <1>10, <1>11
  <2> QED
    BY <1>3, <1>4, <1>5, <1>6, <1>12, <2>1, PhysicalKeyUp DEF HeldInv
<1>14. Behind(Remapped(down)) \intersect t.keys_down = {}
  <2>1. CASE down = code
    BY <1>13, <2>1 DEF Releases
  <2>2. CASE c > 0 /\ Plain(down) /\ Plain(code)
    <3>1. Remapped(down) = down /\ Behind(down) = {down}
      BY <1>9, <2>2, PlainCode, OwnCode
    <3>2. Remapped(code) = code /\ Type(code) # KEYPAD
      BY <1>9, <2>2, PlainCode
    <3> QED
      BY <1>11, <1>13, <2>2, <3>1, <3>2 DEF Releases
  <2> QED
    BY <1>10, <2>1, <2>2
<1>15. /\ DOMAIN held' = DOMAIN held \ {raw}
       /\ \A r \in DOMAIN held' : held'[r] = held[r] /\ StandsFor(r)' = StandsFor(r)
  BY <1>5 DEF StandsFor
<1>16. /\ t.keys_down \subseteq adb.keys_down /\ BoardInv(t) /\ Forgets(adb, t, raw)
       /\ ModsOK(adb) => ModsOK(t)
  BY <1>13 DEF Releases
<1>17. \A r \in DOMAIN held' : \E x \in Allowed.strokes : x[1] = r /\ x[2] = held'[r]
  BY <1>15 DEF HeldInv
<1>18. \A k \in t.keys_down : \E r \in DOMAIN held' : k \in Behind(Remapped(StandsFor(r)'))
  <2> SUFFICES ASSUME NEW k \in t.keys_down
               PROVE  \E r \in DOMAIN held' : k \in Behind(Remapped(StandsFor(r)'))
    OBVIOUS
  <2>1. PICK r \in DOMAIN held : k \in Behind(Remapped(StandsFor(r)))
    BY <1>16 DEF HeldInv
  <2>2. r # raw
    BY <1>7, <1>14, <2>1
  <2> QED
    BY <1>15, <2>1, <2>2
<1>19. \A r \in DOMAIN held' :
         held'[r] > 0 => r \in DOMAIN t.a2codes /\ t.a2codes[r] = StandsFor(r)'
  BY <1>15, <1>16 DEF HeldInv, Forgets
<1>20. \A r \in DOMAIN t.a2codes :
         \E x \in Allowed.strokes :
           x[1] = r /\ x[2] > 0 /\ t.a2codes[r] = CodeFor(<<r, x[2]>>)
  BY <1>16 DEF HeldInv, Forgets
<1>21. Allowed.masks = {} => ModsOK(t)
  BY <1>16 DEF HeldInv
<1>22. BoardInv(adb') /\ (Allowed'.masks = {} => ModsOK(adb'))
  BY <1>5, <1>6, <1>16, <1>21
<1>23. /\ \A r \in DOMAIN held' : \E x \in Allowed'.strokes : x[1] = r /\ x[2] = held'[r]
       /\ \A k \in adb'.keys_down : \E r \in DOMAIN held' : k \in Behind(Remapped(StandsFor(r)'))
  BY <1>5, <1>6, <1>17, <1>18
<1>24. /\ \A r \in DOMAIN held' :
            held'[r] > 0 => r \in DOMAIN adb'.a2codes /\ adb'.a2codes[r] = StandsFor(r)'
       /\ \A r \in DOMAIN adb'.a2codes :
            \E x \in Allowed'.strokes :
              x[1] = r /\ x[2] > 0 /\ adb'.a2codes[r] = CodeFor(<<r, x[2]>>)
  BY <1>5, <1>6, <1>19, <1>20
<1> QED
  BY ONLY <1>22, <1>23, <1>24 DEF HeldInv

LEMMA InitHeld == Init => StuckInv
<1> SUFFICES ASSUME Init PROVE HeldInv
  BY InitBus DEF StuckInv
<1>1. PICK start : start = adb_init
  OBVIOUS
<1>2. adb = start /\ DOMAIN held = {}
  BY <1>1 DEF Init
<1>3. start.mode = {} /\ start.kbd_dev = 2 /\ start.kbd_ctl = 2 /\ start.state = "idle"
  BY <1>1, Zenon DEF adb_init
<1>4. start.a2code_down = 0 /\ start.keys_down = {} /\ start.c025 = {}
  BY <1>1, Zenon DEF adb_init
<1>5. DOMAIN start.a2codes = {}
  <2>1. start.a2codes = [n \in {} |-> 0]
    BY <1>1, Zenon DEF adb_init
  <2> QED
    BY <2>1
<1>6. Whole(start)
  BY <1>1 DEF Whole, Fields
<1>7. 0 \in Keycode /\ HasAscii(0)
  <2>1. 0 \in Keycode
    BY DEF Keycode
  <2>2. Ascii(0, 1) = Keys[1][1]
    BY <2>1, AsciiIsKeys
  <2> QED
    BY <2>1, <2>2, KeyOfA DEF HasAscii
<1>8. BoardInv(start)
  BY <1>3, <1>4, <1>6, <1>7 DEF BoardInv
<1>9. ModsOK(start)
  BY <1>4 DEF ModsOK
<1> QED
  BY <1>2, <1>4, <1>5, <1>8, <1>9 DEF HeldInv

LEMMA HostHeld ==
  ASSUME AdbInv, Firm, HeldInv, Host
  PROVE  HeldInv'
<1>0. BoardInv(adb) /\ Whole(adb)
  BY DEF HeldInv, BoardInv
<1>1. CASE \E stroke \in Allowed.strokes, window \in Allowed.windows :
             KeyDown(stroke[1], stroke[2], window) \/ KeyUp(stroke[1], stroke[2], window)
  <2>1. PICK stroke \in Allowed.strokes, window \in Allowed.windows :
             KeyDown(stroke[1], stroke[2], window) \/ KeyUp(stroke[1], stroke[2], window)
    BY <1>1
  <2>2. window = "main"
    BY <2>1 DEF Firm, Untouched
  <2> QED
    BY <2>1, <2>2, KeyDownHeld, KeyUpHeld
<1>2. CASE \E key \in Allowed.pastes : Paste(key)
  <2>1. Idle(adb, adb') /\ UNCHANGED <<session, held>>
    BY <1>0, <1>2, PasteIdle DEF Paste, Spend
  <2> QED
    BY <2>1, IdleHeld
<1>3. CASE \E n \in Allowed.frames : Frames(n)
  <2>1. PICK left : adb' = [adb EXCEPT !.repeat_left = left]
    BY <1>3 DEF Frames
  <2>2. Writes(adb, adb', {"repeat_left"})
    BY <1>0, <2>1 DEF Writes, Whole
  <2>3. Idle(adb, adb')
    BY <1>0, <2>2, WritesNoFlagIdle DEF IdleFields
  <2> QED
    BY <1>3, <2>3, IdleHeld DEF Frames, Spend
<1>4. CASE \E bits \in Allowed.masks : ModifierMask(bits)
  <2>1. PICK bits \in Allowed.masks : ModifierMask(bits)
    BY <1>4
  <2>2. PICK flags : adb' = [adb EXCEPT !.c025 = flags]
    BY <2>1 DEF ModifierMask, adb_update_c025_mask
  <2>3. BoardInv(adb') /\ adb'.keys_down = adb.keys_down /\ adb'.a2codes = adb.a2codes
    BY <1>0, <2>2, FlagsBoard
  <2>4. Allowed.masks # {} /\ UNCHANGED <<session, held>>
    BY <2>1 DEF ModifierMask, Spend
  <2> QED
    BY <2>3, <2>4, KeptHeld
<1>5. CASE Allowed.focus /\ (FocusLost \/ FocusGained)
  <2>1. KeepsBoard(adb, adb') /\ UNCHANGED <<session, held>>
    BY <1>0, <1>5, HostTellsKeeps DEF FocusLost, FocusGained, Spend
  <2> QED
    BY <1>0, <2>1, KeepsBoardIdle, IdleHeld
<1>6. ASSUME NEW x, NEW y, NEW relative, NEW buttons, NEW valid, NEW recentre, NEW narrow,
             NEW window, Mouse(x, y, relative, buttons, valid, recentre, narrow, window)
      PROVE  HeldInv'
  <2>1. KeepsBoard(adb, adb') /\ UNCHANGED <<session, held>>
    BY <1>0, <1>6, UpdateMouseKeeps DEF Mouse, Spend
  <2> QED
    BY <1>0, <2>1, KeepsBoardIdle, IdleHeld
<1>7. CASE Allowed.waits /\ Wait
  <2>1. Idle(adb, adb') /\ UNCHANGED <<session, held>>
    BY <1>0, <1>7, IdleItself DEF Wait, Spend
  <2> QED
    BY <2>1, IdleHeld
<1> QED
  BY <1>1, <1>2, <1>3, <1>4, <1>5, <1>6, <1>7 DEF Host

LEMMA ProgramHeld ==
  ASSUME AdbInv, Firm, HeldInv, Program
  PROVE  HeldInv'
<1>0. BoardInv(adb) /\ Whole(adb)
  BY DEF HeldInv, BoardInv
<1>1. ~(\E val \in Allowed.commands : adb.state # "in_cmd" /\ WriteC026(val))
  BY DEF Firm, Untouched
<1>2. ~(\E val \in Allowed.params : adb.state = "in_cmd" /\ WriteC026(val))
  BY <1>0 DEF BoardInv
<1>3. CASE \E val \in Allowed.enables : WriteC027(val)
  <2>1. KeepsBoard(adb, adb') /\ UNCHANGED <<session, held>>
    BY <1>0, <1>3, WriteC027Keeps DEF WriteC027, Spend
  <2> QED
    BY <1>0, <2>1, KeepsBoardIdle, IdleHeld
<1>4. CASE ReadC000
  <2>1. Idle(adb, adb') /\ UNCHANGED <<session, held>>
    BY <1>0, <1>4, C000Idle DEF ReadC000
  <2> QED
    BY <2>1, IdleHeld
<1>5. CASE AccessC010
  <2>1. Idle(adb, adb') /\ UNCHANGED <<session, held>>
    BY <1>0, <1>5, C010Idle DEF AccessC010
  <2> QED
    BY <2>1, IdleHeld
<1>6. CASE ReadC026
  <2>1. Idle(adb, adb') /\ UNCHANGED <<session, held>>
    BY <1>0, <1>6, ReadC026Idle DEF ReadC026
  <2> QED
    BY <2>1, IdleHeld
<1>7. CASE ReadC027
  <2>1. Writes(adb, adb', {"halted"}) /\ UNCHANGED <<session, held>>
    BY <1>0, <1>7, HaltWrites DEF ReadC027
  <2>2. Idle(adb, adb')
    BY <1>0, <2>1, WritesNoFlagIdle DEF IdleFields
  <2> QED
    BY <2>1, <2>2, IdleHeld
<1>8. ASSUME NEW em_active, NEW superhires, ReadC024(em_active, superhires)
      PROVE  HeldInv'
  <2>1. KeepsBoard(adb, adb') /\ UNCHANGED <<session, held>>
    BY <1>0, <1>8, ReadMouseKeeps DEF ReadC024
  <2> QED
    BY <1>0, <2>1, KeepsBoardIdle, IdleHeld
<1> QED
  BY <1>1, <1>2, <1>3, <1>4, <1>5, <1>6, <1>7, <1>8 DEF Program

(* A session stays what it is.                                                *)
LEMMA SessionStays == [Next]_vars => session' = session
<1> SUFFICES ASSUME [Next]_vars PROVE session' = session
  OBVIOUS
<1>1. CASE Host
  BY <1>1 DEF Host, KeyDown, KeyUp, Paste, Frames, ModifierMask, FocusLost, FocusGained,
              Mouse, Wait, Spend
<1>2. CASE Program
  BY <1>2 DEF Program, WriteC026, WriteC027, ReadC000, AccessC010, ReadC026, ReadC027,
              ReadC024, Spend
<1>3. CASE UNCHANGED vars
  BY <1>3 DEF vars
<1> QED
  BY <1>1, <1>2, <1>3 DEF Next

LEMMA StuckStep == StuckInv /\ [Next]_vars => StuckInv'
<1> SUFFICES ASSUME StuckInv, [Next]_vars PROVE StuckInv'
  OBVIOUS
<1>1. AdbInv /\ (Firm => HeldInv)
  BY DEF StuckInv
<1>2. AdbInv'
  <2>1. CASE UNCHANGED vars
    BY <1>1, <2>1 DEF AdbInv, vars
  <2> QED
    BY <1>1, <2>1, HostKeeps, ProgramKeeps DEF Next
<1>3. Firm' => Firm
  <2>1. Allowed' = Allowed
    BY SessionStays DEF Allowed
  <2> QED
    BY <2>1 DEF Firm, Untouched, Steady
<1>4. ASSUME Firm PROVE HeldInv'
  <2>1. HeldInv
    BY <1>1, <1>4
  <2>2. CASE UNCHANGED vars
    <3>1. UNCHANGED <<adb, session, held>>
      BY <2>2 DEF vars
    <3> QED
      BY <2>1, <3>1, IdleItself, IdleHeld DEF HeldInv
  <2> QED
    BY <1>1, <1>4, <2>1, <2>2, HostHeld, ProgramHeld DEF Next
<1> QED
  BY <1>2, <1>3, <1>4 DEF StuckInv

(* Once the user has let go of every key, none is down, whatever characters   *)
(* came with it when it went down and when it came up, and a modifier's bit   *)
(* is set while its key is down and no longer: a key is released under the    *)
(* code noted for it, and the shift put in a character's place is taken back  *)
(* (adb_physical_key_update). A reset, a paste, a poll or a change of the     *)
(* focus in between forgets none of it.                                       *)
THEOREM KeysComeUp == Spec => []NoKeyStuck
<1>1. Init => StuckInv
  BY InitHeld
<1>2. StuckInv /\ [Next]_vars => StuckInv'
  BY StuckStep
<1>3. StuckInv => NoKeyStuck
  <2> SUFFICES ASSUME StuckInv, Untouched, Steady
               PROVE  /\ DOMAIN held = {} => adb.keys_down = {}
                      /\ Allowed.masks = {} =>
                           \A bit \in DOMAIN ModifierKeys :
                             (bit \in adb.c025) <=> (ModifierKeys[bit] \in adb.keys_down)
    BY DEF NoKeyStuck
  <2>1. HeldInv
    BY DEF StuckInv, Firm
  <2>2. DOMAIN held = {} => adb.keys_down = {}
    BY <2>1 DEF HeldInv
  <2>3. Allowed.masks = {} => ModsOK(adb)
    BY <2>1 DEF HeldInv
  <2> QED
    BY <2>2, <2>3 DEF ModsOK, ModBits
<1> QED
  BY <1>1, <1>2, <1>3, PTL DEF Spec
===============================================================================
