--------------------------------- MODULE AdbBus ---------------------------------
(* The ADB microcontroller's side that the keyboard and the mouse share: its  *)
(* state, the interrupts it raises and the packets it answers with.           *)
(*                                                                            *)
(* Bytes made of flags are sets of bit numbers.                               *)
EXTENDS Integers, Sequences

CONSTANT RomVersion          \* 1 or 3

Byte == 0..255
Weights == <<1, 2, 4, 8, 16, 32, 64, 128>>
Bits(n) == {b \in 0..7 : (n \div Weights[b + 1]) % 2 = 1}

\* $C027: what can interrupt, and the bits of the interrupt byte
MOUSE_INT == 6
DATA_INT == 4
KBD_INT == 2
RESPONSE == 7
DESK_MGR == 5
SRQ == 3

MAX_ADB_KBD_REG3 == 16

(* A machine that has just started, with the ADB initialised. *)
adb_init ==
  [state |-> "idle", cmd |-> 0, cmd_data |-> << >>, data |-> << >>,
   interrupt_byte |-> {}, c027 |-> {}, irqs |-> {}, mode |-> {},
   kbd_dev |-> 2, kbd_ctl |-> 2, mouse_dev |-> 3, mouse_ctl |-> 3,
   kbd_reg0 |-> << >>, kbd_reg3 |-> 1538, memory |-> [n \in {} |-> 0],
   halt_on_all_c027 |-> FALSE, halted |-> FALSE,
   c025 |-> {}, key_down |-> FALSE, hard_key_down |-> FALSE, a2code_down |-> 0,
   read_no_update |-> 0, kbd_buf |-> [n \in 0..7 |-> 0], chars_buffered |-> 0,
   paste_buf |-> << >>, paste_rd |-> 0, paste_last |-> 0,
   repeat_left |-> 0, repeat_delay |-> 45, repeat_rate |-> 3,
   keys_down |-> {}, a2codes |-> [n \in {} |-> 0], keypad_down |-> {},
   panel |-> FALSE, warp |-> FALSE, hide |-> FALSE, unhide |-> FALSE, speed |-> 0,
   focus |-> TRUE, toggles |-> {},
   a2_x |-> 0, a2_y |-> 0, a2_button |-> 0,
   fifo |-> <<[x |-> 0, y |-> 0, buttons |-> {}, dfcyc |-> 0]>>,
   raw_x |-> 0, raw_y |-> 0, valid_data |-> FALSE, coord |-> FALSE]

Halt(a) == [a EXCEPT !.halted = TRUE]

adb_add_kbd_srq(a) ==
  IF (a.kbd_reg3 \div 512) % 2 = 1
  THEN [a EXCEPT !.interrupt_byte = @ \union {SRQ}, !.irqs = @ \union {"srq"}]
  ELSE a

adb_clear_kbd_srq(a) ==
  [a EXCEPT !.interrupt_byte = @ \ {SRQ}, !.irqs = @ \ {"srq"}]

adb_add_data_int(a) ==
  IF DATA_INT \in a.c027 THEN [a EXCEPT !.irqs = @ \union {"data"}] ELSE a

adb_add_mouse_int(a) ==
  IF MOUSE_INT \in a.c027 THEN [a EXCEPT !.irqs = @ \union {"mouse"}] ELSE a

adb_clear_data_int(a) == [a EXCEPT !.irqs = @ \ {"data"}]
adb_clear_mouse_int(a) == [a EXCEPT !.irqs = @ \ {"mouse"}]

(* A reset leaves the key latch, the host keys that are down, the mouse queue *)
(* and the map of raw keys alone; its caller then clears every interrupt.     *)
adb_reset(a) ==
  [a EXCEPT !.c027 = {}, !.key_down = FALSE, !.paste_buf = << >>, !.paste_rd = 0,
            !.chars_buffered = 0, !.kbd_dev = 2, !.mouse_dev = 3, !.kbd_ctl = 2,
            !.mouse_ctl = 3, !.irqs = {}, !.data = << >>, !.interrupt_byte = {},
            !.state = "idle", !.coord = FALSE, !.valid_data = FALSE,
            !.kbd_reg0 = << >>, !.kbd_reg3 = 1538]

adb_send_bytes(a, bytes) ==
  adb_add_data_int([a EXCEPT !.state = "sending", !.data = bytes])

adb_send_1byte(a, byte) ==
  adb_send_bytes(IF a.data = << >> THEN a ELSE Halt(a), <<byte>>)

(* The answer waits behind the interrupt byte, which counts its bytes. *)
adb_response_packet(a, bytes) ==
  LET n == Len(bytes)
  IN adb_add_data_int(
       [(IF a.data = << >> THEN a ELSE Halt(a)) EXCEPT
          !.state = "idle", !.data = bytes,
          !.interrupt_byte = @ \union {RESPONSE} \union (IF n > 0 THEN Bits(n - 1) ELSE {})])

(* Keys held back for a program that polls the keyboard itself. *)
adb_kbd_reg0_data(a, a2code, is_up) ==
  IF Len(a.kbd_reg0) >= MAX_ADB_KBD_REG3
  THEN Halt(a)
  ELSE adb_add_kbd_srq([a EXCEPT !.kbd_reg0 = Append(@, a2code + (IF is_up THEN 128 ELSE 0))])

ResetKey(val) == val % 128 = 127

(* How many of the waiting keys one answer takes: two, or one when either is  *)
(* the reset key, which goes alone.                                           *)
TalkTakes(reg0) ==
  IF Len(reg0) > 1 /\ ~ResetKey(reg0[1]) /\ ~ResetKey(reg0[2]) THEN 2 ELSE 1

(* The keys behind those taken move up by one place, however many were taken. *)
AfterTalk(reg0, num) ==
  [n \in 1..(Len(reg0) - num) |-> IF n < num THEN reg0[n] ELSE reg0[n + 1]]

\* As below, with the request left standing
adb_kbd_talk_reg0_silent(a) ==
  LET reg0 == a.kbd_reg0
  IN IF reg0 = << >> THEN adb_response_packet(a, << >>)
     ELSE adb_response_packet([a EXCEPT !.kbd_reg0 = AfterTalk(@, TalkTakes(reg0))],
                              <<255, reg0[1]>>)

adb_kbd_talk_reg0(a) ==
  LET reg0 == a.kbd_reg0
      num == TalkTakes(reg0)
      val1 == IF ResetKey(reg0[1]) THEN reg0[1] ELSE IF num = 2 THEN reg0[2] ELSE 255
      sent == IF reg0 = << >>
              THEN adb_response_packet(a, << >>)
              ELSE adb_response_packet([a EXCEPT !.kbd_reg0 = AfterTalk(@, num)],
                                       <<val1, reg0[1]>>)
  IN IF sent.kbd_reg0 = << >> THEN adb_clear_kbd_srq(sent) ELSE sent
===============================================================================
