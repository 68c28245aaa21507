-------------------------------- MODULE AdbKeys ---------------------------------
(* The keyboard: from a key of the host to the keycode of an Apple keyboard,  *)
(* to the character and modifiers a program reads at $C000, $C010 and $C025,  *)
(* or to the queue of keys the ADB answers with.                              *)
(*                                                                            *)
(* c025 is the set of the modifier register's bits, keys_down the complement  *)
(* of g_virtual_key_up, a2codes the part of g_rawa2_to_a2code that is not -1. *)
(* Time in frames is kept as repeat_left, the frames until the next repeat.   *)
EXTENDS AdbBus, FiniteSets, FiniteSetsExt, Functions, TLC

CONSTANTS MaxPaste,          \* MAX_KBD_PASTE_BUF
          SwapCommandOption, \* g_adb_swap_command_option
          JoystickType       \* g_joystick_type, 0 when the keypad is the joystick

MAX_KBD_BUF == 8
SHIFT == 0
CTRL == 1
CAPS_LOCK == 2
REPEAT == 3
LATCH == 5
OPTION == 6
CMD == 7

(* For each keycode its character alone, with shift and with control, or -1.  *)
(* From 256 on it is no character: 4096 marks the keypad, which has one, and  *)
(* 32768 the function keys; the rest are the modifiers' bits.                 *)
Keys == <<
  <<97,65,1>>, <<115,83,19>>, <<100,68,4>>, <<102,70,6>>, <<104,72,8>>, <<103,71,7>>,
  <<122,90,26>>, <<120,88,24>>, <<99,67,3>>, <<118,86,22>>, <<-1,-1,-1>>, <<98,66,2>>,
  <<113,81,17>>, <<119,87,23>>, <<101,69,5>>, <<114,82,18>>, <<121,89,25>>, <<116,84,20>>,
  <<49,33,-1>>, <<50,64,0>>, <<51,35,-1>>, <<52,36,-1>>, <<54,94,30>>, <<53,37,-1>>,
  <<61,43,-1>>, <<57,40,-1>>, <<55,38,-1>>, <<45,95,31>>, <<56,42,-1>>, <<48,41,-1>>,
  <<93,125,29>>, <<111,79,15>>, <<117,85,21>>, <<91,123,27>>, <<105,73,9>>, <<112,80,16>>,
  <<13,13,-1>>, <<108,76,12>>, <<106,74,10>>, <<39,34,-1>>, <<107,75,11>>, <<59,58,-1>>,
  <<92,124,28>>, <<44,60,-1>>, <<47,63,127>>, <<110,78,14>>, <<109,77,13>>, <<46,62,-1>>,
  <<9,9,-1>>, <<32,32,-1>>, <<96,126,-1>>, <<127,127,-1>>, <<-1,-1,-1>>, <<27,27,-1>>,
  <<512,512,-1>>, <<32768,32768,-1>>, <<256,256,-1>>, <<1024,1024,-1>>, <<16384,16384,-1>>,
  <<8,8,-1>>, <<21,21,-1>>, <<10,10,-1>>, <<11,11,-1>>, <<-1,-1,-1>>, <<-1,-1,-1>>,
  <<4142,4140,-1>>, <<-1,-1,-1>>, <<4138,4138,-1>>, <<-1,-1,-1>>, <<4139,4139,-1>>,
  <<-1,-1,-1>>, <<4120,4120,-1>>, <<-1,-1,-1>>, <<-1,-1,-1>>, <<-1,-1,-1>>, <<4143,4143,-1>>,
  <<4109,4109,-1>>, <<-1,-1,-1>>, <<4141,4141,-1>>, <<-1,-1,-1>>, <<-1,-1,-1>>,
  <<4157,4157,-1>>, <<4144,4144,-1>>, <<4145,4145,-1>>, <<4146,4146,-1>>, <<4147,4147,-1>>,
  <<4148,4148,-1>>, <<4149,4149,-1>>, <<4150,4150,-1>>, <<4151,4151,-1>>, <<97,65,1>>,
  <<4152,4152,-1>>, <<4153,4153,-1>>, <<-1,-1,-1>>, <<-1,-1,-1>>, <<-1,-1,-1>>,
  <<32773,4192,-1>>, <<32774,4193,-1>>, <<32775,4194,-1>>, <<32771,4195,-1>>, <<32776,4196,-1>>,
  <<32777,4197,-1>>, <<-1,-1,-1>>, <<32779,4199,-1>>, <<-1,-1,-1>>, <<32781,4201,-1>>,
  <<-1,-1,-1>>, <<32782,4203,-1>>, <<-1,-1,-1>>, <<32778,4205,-1>>, <<16384,16384,-1>>,
  <<32780,4207,-1>>, <<-1,-1,-1>>, <<32783,4209,-1>>, <<4210,4210,-1>>, <<4211,4211,-1>>,
  <<4212,4212,-1>>, <<4213,4213,-1>>, <<32772,4214,-1>>, <<4215,4215,-1>>, <<32770,4216,-1>>,
  <<4217,4217,-1>>, <<32769,4218,-1>>, <<8,8,-1>>, <<21,21,-1>>, <<10,10,-1>>, <<11,11,-1>>,
  <<-1,-1,-1>>>>
g_a2_key_to_ascii == [a2code \in 0..127 |-> Keys[a2code + 1]]

Ascii(a2code, column) == g_a2_key_to_ascii[a2code][column]
Type(a2code) == Ascii(a2code, 1) \div 4096
KEYPAD == 1
FUNCTION_KEY == 8
HasAscii(a2code) == (Ascii(a2code, 1) \div 256) \in {0, 16}
Special(ascii) == IF ascii < 0 THEN {} ELSE Bits((ascii \div 256) % 256)

Letter(ascii) == ascii \in 97..122

(* The column of the table that the modifiers select. *)
Column(a, a2code) ==
  IF CAPS_LOCK \in a.c025 /\ Letter(Ascii(a2code, 1))
  THEN IF SHIFT \in a.c025 /\ 6 \in a.mode THEN 1 ELSE 2
  ELSE IF SHIFT \in a.c025 THEN 2 ELSE 1

CharacterOf(a, a2code) ==
  IF CTRL \in a.c025 /\ Ascii(a2code, 3) >= 0
  THEN Ascii(a2code, 3) ELSE Ascii(a2code, Column(a, a2code))

(* A key with a character goes to the end of the buffer, or into its last     *)
(* place for good when it is full.                                            *)
BufferKey(a, a2code, key) ==
  [a EXCEPT !.kbd_buf[a.chars_buffered] = key,
            !.chars_buffered = IF @ + 1 >= MAX_KBD_BUF THEN MAX_KBD_BUF - 1 ELSE @ + 1,
            !.key_down = a.repeat_delay # 0, !.hard_key_down = TRUE,
            !.a2code_down = a2code, !.repeat_left = a.repeat_delay]

adb_key_event(a, a2code, is_up) ==
  LET desk == ~is_up /\ a2code = 53 /\ {CTRL, CMD} \subseteq a.c025
      called == IF desk
                THEN adb_add_data_int([a EXCEPT !.interrupt_byte = @ \union {DESK_MGR}])
                ELSE a
      ascii == CharacterOf(a, a2code)
      special == Special(ascii)
      pressed == IF HasAscii(a2code) THEN BufferKey(called, a2code, (ascii % 128) + 128)
                 ELSE called
      released == IF HasAscii(a2code) /\ a2code = a.a2code_down
                  THEN [a EXCEPT !.hard_key_down = FALSE, !.key_down = FALSE]
                  ELSE a
      new == IF is_up THEN [released EXCEPT !.c025 = @ \ special]
             ELSE [pressed EXCEPT !.c025 = @ \union special]
  IN [new EXCEPT !.c025 = IF new.key_down THEN @ \ {LATCH} ELSE @ \union {LATCH}]

(* A key counts once, however many keys of the host are mapped to it. *)
adb_virtual_key_update(a, a2code, is_up) ==
  IF is_up = (a2code \in a.keys_down)
  THEN adb_key_event([a EXCEPT !.keys_down = IF is_up THEN @ \ {a2code}
                                             ELSE @ \union {a2code}],
                     a2code, is_up)
  ELSE a

Autopoll(a) == a.panel \/ (0 \notin a.mode /\ a.kbd_dev = a.kbd_ctl)

adb_maybe_virtual_key_update(a, a2code, is_up) ==
  IF Autopoll(a) THEN adb_virtual_key_update(a, a2code, is_up)
  ELSE adb_kbd_reg0_data(a, a2code, is_up)

(* A pasted character is shown when no key waits. *)
adb_paste_update_state(a) ==
  IF a.paste_rd >= Len(a.paste_buf)
  THEN [a EXCEPT !.paste_buf = << >>, !.paste_rd = 0]
  ELSE IF a.chars_buffered = 0
       THEN [a EXCEPT !.kbd_buf[0] = a.paste_buf[a.paste_rd + 1], !.paste_rd = @ + 1,
                      !.chars_buffered = 1]
       ELSE a

Newline == 10
Return == 13
PasteKey(last, key) == IF key # Newline THEN key ELSE IF last = Return THEN 0 ELSE Return

adb_paste_add_buf(a, key) ==
  LET taken == PasteKey(a.paste_last, key)
      noted == [a EXCEPT !.paste_last = key]
  IN IF taken \notin 1..127 \/ Len(a.paste_buf) >= MaxPaste
     THEN noted
     ELSE adb_paste_update_state([noted EXCEPT !.paste_buf = Append(@, taken + 128)])

\* As below, with the keys behind forgotten
adb_access_c010_forgets(a) == [a EXCEPT !.kbd_buf[0] = @ % 128, !.chars_buffered = 0]

(* $C010 drops the strobe and moves the next key up. *)
adb_access_c010(a) ==
  LET n == a.chars_buffered
      dropped == [a EXCEPT !.read_no_update = 0, !.kbd_buf[0] = @ % 128]
      moved == [dropped EXCEPT
                  !.kbd_buf = [i \in 0..7 |-> IF i + 1 < n THEN dropped.kbd_buf[i + 1] ELSE @[i]],
                  !.chars_buffered = n - 1]
      next == IF n = 0 THEN dropped
              ELSE IF n = 1 THEN adb_paste_update_state(moved) ELSE moved
  IN [next EXCEPT !.c025 = @ \ {REPEAT}]

Strobe(a) == a.kbd_buf[0] >= 128

\* Reads of one key are counted up to the number that matters
ReadsCounted == 6

(* $C000 moves on by itself when the same key was read again and again, and   *)
(* repeats the key that is held down.                                         *)
adb_read_c000(a) ==
  IF Strobe(a)
  THEN LET counted == [a EXCEPT !.read_no_update = Min({@ + 1, ReadsCounted})]
       IN IF a.read_no_update > 5 /\ a.chars_buffered > 1
          THEN adb_access_c010(counted) ELSE counted
  ELSE IF a.key_down /\ a.repeat_left = 0
       THEN [adb_key_event([a EXCEPT !.c025 = @ \union {REPEAT}], a.a2code_down, FALSE)
               EXCEPT !.repeat_left = a.repeat_rate]
       ELSE a

(* The keys that wait are read off before the configuration panel shows. *)
TossKey(a) ==
  LET read == adb_read_c000(a)
  IN IF Strobe(read) THEN adb_access_c010(read) ELSE read
TossKeys(a) ==
  LET tossed[n \in 0..20] == IF n = 0 THEN a ELSE TossKey(tossed[n - 1]) IN tossed[20]

cfg_set_config_panel(a, panel) ==
  [(IF panel THEN TossKeys([a EXCEPT !.panel = panel]) ELSE [a EXCEPT !.panel = panel])
     EXCEPT !.repeat_left = 60]
cfg_toggle_config_panel(a) == cfg_set_config_panel(a, ~a.panel)

adb_increment_speed(a) == [a EXCEPT !.speed = (@ + 1) % 6]

(* The characters of other layouts stand for the one their key has here. *)
International(c) ==
  CASE c = 163 -> 35
    [] c = 224 -> 64
    [] c \in {176, 196, 161, 198} -> 91
    [] c \in {231, 209, 214, 216} -> 92
    [] c \in {167, 220, 191, 197} -> 93
    [] c \in {228, 233, 0} -> 123
    [] c \in {246, 249, 248, 241, 242} -> 124
    [] c \in {232, 252, 229} -> 125
    [] c \in {168, 236, 223} -> 126
    [] OTHER -> c

CodesOf == [c \in 0..127 |-> {i \in 0..127 : Ascii(i, 1) = c \/ Ascii(i, 2) = c}]

\* As below, with shift only ever added
adb_ascii_to_a2code_adds(unicode_c, a2code, shift) ==
  LET c == International(unicode_c)
  IN IF c > 127 \/ (Type(a2code) = KEYPAD /\ c \in 48..57) \/ CodesOf[c] = {}
     THEN [a2code |-> a2code, shift |-> shift]
     ELSE [a2code |-> Min(CodesOf[c]), shift |-> shift \/ Ascii(Min(CodesOf[c]), 1) # c]

(* The key that has a character, and the shift it takes; the raw key, with    *)
(* the shift as it is, when there is none or it is a digit of the keypad.     *)
adb_ascii_to_a2code(unicode_c, a2code, shift) ==
  LET c == International(unicode_c)
  IN IF c > 127 \/ (Type(a2code) = KEYPAD /\ c \in 48..57) \/ CodesOf[c] = {}
     THEN [a2code |-> a2code, shift |-> shift]
     ELSE [a2code |-> Min(CodesOf[c]), shift |-> Ascii(Min(CodesOf[c]), 1) # c]

(* Keys of newer keyboards and the option to swap two of them. *)
Remapped(a2code) ==
  LET arrow == IF a2code \in 123..126 THEN a2code - 64 ELSE a2code
  IN CASE SwapCommandOption /\ arrow = 55 -> 58
       [] SwapCommandOption /\ arrow = 58 -> 55
       [] OTHER -> arrow

\* F1, F2, F3 and F12 stand for command, option, escape and reset
FunctionRemap ==
  [f \in {1, 2, 3, 12} |-> CASE f = 1 -> 55 [] f = 2 -> 58 [] f = 3 -> 53 [] f = 12 -> 127]
HotKey(a2code) == IF Type(a2code) = FUNCTION_KEY THEN Ascii(a2code, 1) % 256 ELSE 0

Toggle(a, what) == [a EXCEPT !.toggles = SymDiff(@, {what})]

HotKeyPressed(a, special) ==
  LET shift == SHIFT \in a.c025
  IN CASE special = 4 -> cfg_toggle_config_panel(a)
       [] special = 5 -> Toggle(a, "status")
       [] special = 6 -> IF shift THEN Halt(a) ELSE adb_increment_speed(a)
       [] special = 7 -> Toggle(a, IF shift THEN "fast_disk" ELSE "debugger")
       [] special = 8 -> [a EXCEPT !.warp = ~@, !.hide = ~a.warp]
       [] special = 9 -> IF CTRL \in a.c025 THEN [a EXCEPT !.toggles = @ \union {"copy"}]
                         ELSE Toggle(a, IF shift THEN "swap_paddles" ELSE "invert_paddles")
       [] OTHER -> a

Digits == 49..57

(* A key of the keypad moves the joystick, and stands for a button or nothing *)
(* while the keypad is the joystick.                                          *)
KeypadKey(a, ascii, is_up) ==
  IF ascii \in Digits
  THEN [a EXCEPT !.keypad_down = IF is_up THEN @ \ {ascii - 48} ELSE @ \union {ascii - 48}]
  ELSE a
JoystickIgnores(ascii) == JoystickType = 0 /\ ascii \notin {46, 44, 48}
JoystickRemap(ascii, a2code) ==
  IF JoystickType # 0 THEN a2code ELSE IF ascii = 48 THEN 55 ELSE 58

\* As it would be were the code a key went down with not kept
Release_by_code(a, raw_a2code) == a

(* The key goes up under the code it went down with, too. *)
Release(a, raw_a2code) ==
  IF raw_a2code \in DOMAIN a.a2codes
  THEN [adb_maybe_virtual_key_update(a, a.a2codes[raw_a2code], TRUE)
          EXCEPT !.a2codes = Restrict(@, DOMAIN @ \ {raw_a2code})]
  ELSE a

PassKey(a, raw_a2code, a2code, is_up) ==
  LET passed == adb_maybe_virtual_key_update(a, a2code, is_up)
  IN IF is_up THEN Release(passed, raw_a2code) ELSE passed

(* The keycode with hot keys, reset, the debugger's window and the keypad     *)
(* taken out. found is the code before the function keys' remapping.          *)
KeyOf(a, window, raw_a2code, found, is_up) ==
  LET hot == HotKey(found)
      remapped == hot \in DOMAIN FunctionRemap
      a2code == IF remapped THEN FunctionRemap[hot] ELSE found
      ascii == Ascii(found, 1) % 256
      keypad == Type(found) = KEYPAD
      joystick == IF keypad THEN KeypadKey(a, ascii, is_up) ELSE a
  IN CASE ~is_up /\ a2code = 127 /\ CTRL \in a.c025 -> adb_reset(a)
       [] ~is_up /\ hot # 0 /\ ~remapped -> HotKeyPressed(a, hot)
       [] OTHER ->
            IF window = "debug" THEN a
            ELSE IF keypad /\ JoystickIgnores(ascii) THEN joystick
            ELSE PassKey(joystick, raw_a2code,
                         IF keypad THEN JoystickRemap(ascii, a2code) ELSE a2code, is_up)

\* What key of the host stands for which code, until it goes up
Note(a, raw_a2code, a2code) ==
  [a EXCEPT !.a2codes = [raw \in DOMAIN @ \union {raw_a2code} |->
                           IF raw = raw_a2code THEN a2code ELSE @[raw]]]

(* With a character, the key is the one that has it on a US keyboard, and     *)
(* shift is as that key needs it until the key was handled: none of the       *)
(* keys that KeyOf takes out has a character.                                *)
adb_physical_key_update(a, window, raw_a2code, unicode_c, is_up) ==
  LET found == IF unicode_c > 0
               THEN adb_ascii_to_a2code(unicode_c, raw_a2code, SHIFT \in a.c025)
               ELSE [a2code |-> raw_a2code, shift |-> SHIFT \in a.c025]
      override == found.a2code # 0 /\ found.shift # (SHIFT \in a.c025)
      shifted == IF override THEN [a EXCEPT !.c025 = SymDiff(@, {SHIFT})] ELSE a
      noted == IF unicode_c > 0 /\ ~is_up
               THEN Note(shifted, raw_a2code, found.a2code)
               ELSE shifted
      handled == KeyOf(noted, window, raw_a2code, Remapped(found.a2code), is_up)
  IN IF override THEN [handled EXCEPT !.c025 = a.c025] ELSE handled

(* The host's drivers tell which modifiers are held and when the focus goes. *)
adb_update_c025_mask(a, new, mask) == [a EXCEPT !.c025 = (@ \ mask) \union new]
adb_kbd_repeat_off(a) == [a EXCEPT !.key_down = FALSE]
adb_nonmain_check(a) == [a EXCEPT !.warp = FALSE, !.hide = FALSE]
adb_mainwin_focus(a, has_focus) ==
  [(IF has_focus THEN a ELSE adb_nonmain_check(a)) EXCEPT !.focus = has_focus]

(* The joystick's position on one axis: the keypad's digits lie in rows of    *)
(* three from 1 at the lower left, and opposite ones share the deflection.    *)
adb_get_keypad_xy(a, get_y) ==
  LET place(key) == IF get_y THEN 1 - ((key - 1) \div 3) ELSE ((key - 1) % 3) - 1
      sum == FoldSet(LAMBDA key, total : total + (place(key) * 32768), 0, a.keypad_down)
      n == Cardinality(a.keypad_down)
      size == (IF sum < 0 THEN -sum ELSE sum) \div (IF n = 0 THEN 1 ELSE n)
  IN IF sum < 0 THEN -size ELSE size
===============================================================================
