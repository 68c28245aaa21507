---------------------------------- MODULE Adb -----------------------------------
(* The ADB controller: the commands a program writes to $C026, the answers it *)
(* reads there, the enables of $C027, and the keyboard and mouse of the host. *)
(*                                                                            *)
(* A session is what a program and a user may do in one run: the strokes      *)
(* (raw keycode, character), the bytes written, the places the mouse goes to  *)
(* and the number of steps. Sessions maps its name to each.                   *)
EXTENDS AdbMouse

CONSTANT Sessions
ASSUME SessionsAssumption ==
  \A name \in DOMAIN Sessions :
    /\ Sessions[name].steps \in Nat
    /\ Sessions[name].commands \union Sessions[name].params \subseteq Byte
    /\ \A stroke \in Sessions[name].strokes : stroke[1] \in 0..127 /\ stroke[2] \in Nat

VARIABLES adb,
          session, steps,  \* its name, and the steps it has left
          held,      \* the host's keys that are down, with their characters
          now        \* the time, in the unit of CompressAge
vars == <<adb, session, steps, held, now>>

Init == /\ adb = adb_init
        /\ session \in DOMAIN Sessions /\ steps = Sessions[session].steps
        /\ held = [raw \in {} |-> 0]
        /\ now = 0

--------------------------------------------------------------------------------
(* The commands.                                                              *)

Delay(n) == IF n = 4 THEN 0 ELSE (n + 1) * 15
Rates == <<1, 2, 3, 3, 4, 5, 7, 15, 30, 60>>
RateIndex(n) == IF RomVersion >= 3 THEN 9 - n ELSE n

adb_set_config(a, val0, val2) ==
  LET mouse == val0 \div 16
      kbd == val0 % 16
      delay == val2 \div 16
      rate == RateIndex(val2 % 16)
      bad == mouse # a.mouse_ctl \/ kbd # a.kbd_ctl \/ delay > 4 \/ rate \notin 0..9
  IN [a EXCEPT !.halted = @ \/ bad, !.mouse_ctl = mouse, !.kbd_ctl = kbd,
               !.repeat_delay = IF delay > 4 THEN @ ELSE Delay(delay),
               !.repeat_rate = IF rate \in 0..9 THEN Rates[rate + 1] ELSE @]

\* Bits 1, 5 and 7 of the modes are not expected
adb_set_new_mode(a, mode) ==
  [a EXCEPT !.halted = @ \/ mode \intersect {1, 5, 7} # {}, !.mode = mode]

\* The modifiers where a game looks for them in the controller's memory
SpecialKeys(a) ==
  LET moved(from, to) == IF from \in a.c025 THEN 2^to ELSE 0
  IN IF RomVersion = 1
     THEN moved(1, 0) + moved(2, 1) + moved(7, 6) + moved(0, 2) + moved(6, 4)
     ELSE moved(0, 0) + moved(1, 1) + moved(2, 2) + moved(6, 6) + moved(7, 7)
SpecialKeysAt == IF RomVersion = 1 THEN 11 ELSE 12

read_adb_ram(a, addr) ==
  CASE addr = 5120 -> 114
    [] addr = 5121 -> 247
    [] addr = SpecialKeysAt -> SpecialKeys(a)
    [] addr \in (DOMAIN a.memory \intersect Byte) \ {SpecialKeysAt} -> a.memory[addr]
    [] OTHER -> 0

write_adb_ram(a, addr, val) == [a EXCEPT !.memory = (addr :> val) @@ @]

\* Listen to register 3: the keyboard's address may move
Listen(a, dev) ==
  LET data == a.cmd_data
      to == data[1] % 16
      moves == data[2] = 254
      new == [a EXCEPT !.kbd_dev = IF moves THEN to ELSE @,
                       !.kbd_reg3 = (to * 4096) + (@ % 4096)]
      odd == (moves /\ to # dev) \/ (~moves /\ data[2] # 1) \/ data[1] # new.kbd_dev
  IN IF dev = a.kbd_dev THEN [new EXCEPT !.halted = @ \/ odd]
     ELSE IF dev = a.mouse_dev
     THEN [a EXCEPT !.halted = @ \/ data[1] # dev \/ data[2] \notin 1..2]
     ELSE Halt(a)

(* The command's last byte came. *)
do_adb_cmd(before) ==
  LET a == [before EXCEPT !.state = "idle"]
      data == a.cmd_data
  IN CASE a.cmd = 4 -> adb_set_new_mode(a, a.mode \union Bits(data[1]))
       [] a.cmd = 5 -> adb_set_new_mode(a, a.mode \ Bits(data[1]))
       [] a.cmd = 6 -> adb_set_config(a, data[1], data[3])
       [] a.cmd = 7 -> adb_set_config(adb_set_new_mode(a, Bits(data[1])), data[2], data[4])
       [] a.cmd = 8 -> write_adb_ram(a, data[1], data[2])
       [] a.cmd = 9 -> adb_send_1byte(a, read_adb_ram(a, (data[2] * 256) + data[1]))
       [] a.cmd = 17 -> adb_virtual_key_update(a, data[1] % 128, data[1] >= 128)
       [] a.cmd \in 176..191 -> Listen(a, a.cmd % 16)
       [] OTHER -> a

\* How many bytes follow a command, 0 when it is carried out at once
CommandLength(cmd) ==
  CASE cmd \in {4, 5, 17} -> 1
    [] cmd = 6 -> 3
    [] cmd = 7 -> IF RomVersion = 1 THEN 4 ELSE 8
    [] cmd \in {8, 9} \union 176..191 -> 2
    [] cmd \in {18, 19} -> IF RomVersion >= 3 THEN 2 ELSE 0
    [] OTHER -> 0

Number(bits) == FoldSet(LAMBDA b, sum : sum + 2^b, 0, bits)

\* The commands without more bytes; the unknown ones halt
Immediate(a, cmd) ==
  CASE cmd \in {1, 3, 115} -> a
    [] cmd = 10 -> adb_send_1byte(a, Number(a.mode))
    [] cmd = 11 -> adb_send_bytes(a, <<130, (a.mouse_ctl * 16) + a.kbd_ctl, 0, 35>>)
    [] cmd = 13 -> adb_send_1byte(a, IF RomVersion = 1 THEN 5 ELSE 6)
    [] cmd = 14 -> adb_send_bytes(a, <<8, 0>>)
    [] cmd = 15 -> adb_send_bytes(a, <<10, 0>>)
    [] cmd = 16 -> adb_reset(a)
    [] cmd \in 192..207 /\ cmd % 16 = a.kbd_dev -> adb_kbd_talk_reg0(a)
    [] cmd \in 240..255 /\ cmd % 16 = a.kbd_dev ->
         adb_response_packet(a, <<a.kbd_reg3 % 256, a.kbd_reg3 \div 256>>)
    [] OTHER -> Halt(a)

Command(a, val) ==
  LET new == [a EXCEPT !.cmd = val, !.cmd_data = << >>]
  IN IF CommandLength(val) > 0 THEN [new EXCEPT !.state = "in_cmd"] ELSE Immediate(new, val)

(* A byte written while an answer is being read ends the reading, not the     *)
(* answer, and makes every later look at $C027 halt.                          *)
adb_write_c026(a, val) ==
  LET more == [a EXCEPT !.cmd_data = Append(@, val)]
  IN CASE a.state = "idle" -> Command(a, val)
       [] a.state = "in_cmd" -> IF Len(more.cmd_data) >= CommandLength(a.cmd)
                                THEN do_adb_cmd(more) ELSE more
       [] OTHER -> [a EXCEPT !.state = "idle", !.halted = TRUE, !.halt_on_all_c027 = TRUE]

(* The interrupt byte first, then the answer byte by byte. *)
adb_read_c026(a) ==
  LET answered == [a EXCEPT !.data = Tail(@)]
      byte == [a EXCEPT !.interrupt_byte = IF "srq" \in a.irqs THEN {SRQ} ELSE {}]
  IN CASE a.state = "idle" /\ a.data # << >> -> [byte EXCEPT !.state = "sending"]
       [] a.state = "idle" /\ a.data = << >> ->
            adb_clear_data_int(IF RESPONSE \in a.interrupt_byte THEN Halt(byte) ELSE byte)
       [] a.state = "in_cmd" -> a
       [] OTHER -> IF answered.data = << >>
                   THEN adb_clear_data_int([answered EXCEPT !.state = "idle"]) ELSE answered

MOUSE_DATA == 7
DATA_VALID == 5
MOUSE_COORD == 1

(* What $C027 shows. *)
adb_read_c027(a) ==
  a.c027
  \union {b \in {MOUSE_DATA} : a.valid_data}
  \union {b \in {DATA_VALID} : a.interrupt_byte # {} \/ (a.data # << >> /\ a.state # "in_cmd")}
  \union {b \in {MOUSE_COORD} : a.coord}

adb_write_c027(a, val) ==
  LET kept == Bits(val) \intersect {MOUSE_INT, DATA_INT, KBD_INT}
      off == a.c027 \ kept
  IN [a EXCEPT !.c027 = kept,
               !.irqs = @ \ ({x \in {"mouse"} : MOUSE_INT \in off}
                             \union {x \in {"data"} : DATA_INT \in off}),
               !.halted = @ \/ KBD_INT \in kept]

--------------------------------------------------------------------------------
(* What the user and the program do. Steps bounds those that put something    *)
(* in; the reads that take it out are free.                                   *)

Allowed == Sessions[session]
Spend == steps > 0 /\ steps' = steps - 1 /\ UNCHANGED session

KeyDown(raw, unicode_c, window) ==
  /\ raw \notin DOMAIN held
  /\ adb' = adb_physical_key_update(adb, window, raw, unicode_c, FALSE)
  /\ held' = [key \in DOMAIN held \union {raw} |-> IF key = raw THEN unicode_c ELSE held[key]]
  /\ Spend
  /\ UNCHANGED now

\* The character may be another one by now, but there still is one or is none
KeyUp(raw, unicode_c, window) ==
  /\ raw \in DOMAIN held /\ (held[raw] > 0) = (unicode_c > 0)
  /\ adb' = adb_physical_key_update(adb, window, raw, unicode_c, TRUE)
  /\ held' = Restrict(held, DOMAIN held \ {raw})
  /\ Spend
  /\ UNCHANGED now

Paste(key) == adb' = adb_paste_add_buf(adb, key) /\ Spend /\ UNCHANGED <<held, now>>

\* Some frames pass
Frames(n) ==
  /\ adb.repeat_left > 0
  /\ adb' = [adb EXCEPT !.repeat_left = Max({0, @ - n})]
  /\ Spend
  /\ UNCHANGED <<held, now>>

ModifierMask(bits) ==
  adb' = adb_update_c025_mask(adb, bits, {SHIFT, CTRL, CAPS_LOCK}) /\ Spend /\ UNCHANGED <<held, now>>

FocusLost ==
  adb' = adb_kbd_repeat_off(adb_mainwin_focus(adb, FALSE)) /\ Spend /\ UNCHANGED <<held, now>>
FocusGained ==
  adb' = adb_kbd_repeat_off(adb_mainwin_focus(adb, TRUE)) /\ Spend /\ UNCHANGED <<held, now>>

WriteC026(val) == adb' = adb_write_c026(adb, val) /\ Spend /\ UNCHANGED <<held, now>>
WriteC027(val) == adb' = adb_write_c027(adb, val) /\ Spend /\ UNCHANGED <<held, now>>

Mouse(x, y, relative, buttons, valid, recentre, narrow, window) ==
  /\ adb' = adb_update_mouse(adb, window, x, y, relative, buttons, valid, recentre, narrow, now)
  /\ Spend
  /\ UNCHANGED <<held, now>>

Wait == now' = now + 1 /\ Spend /\ UNCHANGED <<adb, held>>

ReadC000 == adb' = adb_read_c000(adb) /\ UNCHANGED <<session, steps, held, now>>
AccessC010 == adb' = adb_access_c010(adb) /\ UNCHANGED <<session, steps, held, now>>
ReadC026 == adb' = adb_read_c026(adb) /\ UNCHANGED <<session, steps, held, now>>
\* Once a byte was written at the wrong time
ReadC027 ==
  /\ adb.halt_on_all_c027
  /\ adb' = Halt(adb)
  /\ UNCHANGED <<session, steps, held, now>>
ReadC024(em_active, superhires) ==
  /\ adb' = mouse_read_c024(adb, em_active, superhires, now)
  /\ UNCHANGED <<session, steps, held, now>>

Host ==
  \/ \E stroke \in Allowed.strokes, window \in Allowed.windows :
       KeyDown(stroke[1], stroke[2], window) \/ KeyUp(stroke[1], stroke[2], window)
  \/ \E key \in Allowed.pastes : Paste(key)
  \/ \E n \in Allowed.frames : Frames(n)
  \/ \E bits \in Allowed.masks : ModifierMask(bits)
  \/ Allowed.focus /\ (FocusLost \/ FocusGained)
  \/ \E spot \in Allowed.spots, window \in Allowed.windows, narrow \in Allowed.narrow :
       \/ \E buttons \in Allowed.buttons, valid \in {{}, {0, 1, 2}} :
            Mouse(spot[1], spot[2], spot[3], buttons, valid, FALSE, narrow, window)
       \/ ~spot[3] /\ Mouse(spot[1], spot[2], FALSE, {}, {}, TRUE, narrow, window)
  \/ Allowed.waits /\ Wait

Program ==
  \/ \E val \in Allowed.commands : adb.state # "in_cmd" /\ WriteC026(val)
  \/ \E val \in Allowed.params : adb.state = "in_cmd" /\ WriteC026(val)
  \/ \E val \in Allowed.enables : WriteC027(val)
  \/ ReadC000 \/ AccessC010 \/ ReadC026 \/ ReadC027
  \/ /\ Allowed.spots # {}
     /\ \E em_active, superhires \in BOOLEAN : ReadC024(em_active, superhires)

Next == Host \/ Program

(* A program reads the mouse for as long as there is something to read. *)
ReadsMouse ==
  MOUSE_DATA \in adb_read_c027(adb) /\ \E superhires \in BOOLEAN : ReadC024(TRUE, superhires)

Spec == Init /\ [][Next]_vars
Fairness == WF_vars(ReadsMouse)
FairSpec == Spec /\ Fairness

--------------------------------------------------------------------------------
(* Properties.                                                                *)

(* Each of the three interrupts has something a read returns behind it, or it *)
(* never ends: the keyboard asks for service exactly while keys wait to be    *)
(* fetched and the interrupt byte says so, for a request that is lost leaves  *)
(* the keys in the queue; data and mouse interrupts only come while enabled.  *)
IrqsExplained ==
  /\ (adb.kbd_reg0 # << >>) <=> ("srq" \in adb.irqs)
  /\ "srq" \in adb.irqs => SRQ \in adb.interrupt_byte
  /\ "data" \in adb.irqs =>
       DATA_INT \in adb.c027 /\ (adb.data # << >> \/ adb.interrupt_byte # {})
  /\ "mouse" \in adb.irqs => MOUSE_INT \in adb.c027 /\ adb.valid_data

Untouched == Allowed.commands = {} /\ Allowed.windows = {"main"}

\* The keys behind the bits of the modifier register
ModifierKeys ==
  [bit \in {SHIFT, CTRL, CAPS_LOCK, OPTION, CMD} |->
     CASE bit = SHIFT -> 56
       [] bit = CTRL -> 54
       [] bit = CAPS_LOCK -> 57
       [] bit = OPTION -> 58
       [] bit = CMD -> 55]
SecondOption == 110

\* The code a key of the host is found to have, and one that means only itself
CodeFor(stroke) ==
  IF stroke[2] > 0 THEN adb_ascii_to_a2code(stroke[2], stroke[1], FALSE).a2code ELSE stroke[1]
Plain(a2code) == Remapped(a2code) = a2code /\ Ascii(a2code, 1) < 256

(* The host's keys may go up with another character than they went down with, *)
(* but not those that stand for another key: the code noted for the release   *)
(* is the one before it is remapped. The second option key stays out of it:   *)
(* it shares its bit with the first.                                          *)
Steady ==
  /\ \A s \in Allowed.strokes :
       s[2] > 0 /\ ~Plain(CodeFor(s)) =>
         \A t \in Allowed.strokes : s[1] = t[1] /\ t[2] > 0 => CodeFor(s) = CodeFor(t)
  /\ \A s \in Allowed.strokes : s[1] # SecondOption

(* When the user has let go of every key, none is down, though the characters *)
(* that came with a key and the shift it needed changed while it was held; a  *)
(* modifier's bit is set while its key is down, and no longer: the shift a    *)
(* character needs is put in its place only for as long as its key is         *)
(* handled, and a reset in between forgets neither.                           *)
NoKeyStuck ==
  Untouched /\ Steady =>
    /\ DOMAIN held = {} => adb.keys_down = {}
    /\ Allowed.masks = {} =>
         \A bit \in DOMAIN ModifierKeys :
           (bit \in adb.c025) <=> (ModifierKeys[bit] \in adb.keys_down)

Printable == 33..126
Taken == adb'.chars_buffered = adb.chars_buffered + 1

(* A key that comes with a character puts that character into the buffer, on  *)
(* whatever key of the host's layout it is and whether shift is held or not.  *)
(* The key of A alone takes the shift from the host.                          *)
CharsArrive ==
  [][\A raw \in DOMAIN held' \ DOMAIN held :
       /\ Taken /\ Allowed.windows = {"main"}
       /\ held'[raw] \in Printable \ {65, 97} /\ Type(raw) # KEYPAD
       /\ adb.c025 \intersect {CTRL, CAPS_LOCK} = {}
       => adb'.kbd_buf[adb.chars_buffered] = held'[raw] + 128]_vars

(* When the user leaves the mouse alone, a program that reads it as long as   *)
(* there is data comes to have the pointer where the user put it, with the    *)
(* button as it is. A reset, or switching the mouse off, forgets that there   *)
(* was something to read.                                                     *)
PointerCatchesUp == Allowed.commands = {} => <>[]CaughtUp(adb)

(* The keys shown at $C000 are those of the latch KeyFifo specifies.          *)
Fifo == INSTANCE KeyFifo WITH
          Capacity <- MAX_KBD_BUF - 1,
          latch <- adb.kbd_buf[0],
          queue <- [n \in 1..adb.chars_buffered |-> adb.kbd_buf[n - 1]],
          panel <- adb.panel
ImplementsKeyFifo == Fifo!Spec
===============================================================================
