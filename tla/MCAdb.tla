--------------------------------- MODULE MCAdb ----------------------------------
(* Sessions: typing with shortcuts and resets, characters of every kind on    *)
(* keys of another layout, the ADB's commands with a keyboard that is polled, *)
(* and the mouse.                                                             *)
EXTENDS Adb

Nothing == [strokes |-> {}, windows |-> {"main"}, pastes |-> {}, frames |-> {},
            masks |-> {}, focus |-> FALSE, spots |-> {}, buttons |-> {}, waits |-> FALSE, narrow |-> {FALSE},
            commands |-> {}, params |-> {}, enables |-> {}, steps |-> 5]

\* A, D, shift, control, command, escape, an arrow, reset, F4 and a keypad's key
Typing == [Nothing EXCEPT !.strokes = {<<0, 0>>, <<56, 0>>, <<54, 0>>, <<58, 0>>, <<53, 0>>,
                                       <<123, 0>>, <<111, 0>>, <<118, 0>>, <<87, 0>>},
                          !.frames = {45}, !.steps = 4]
\* One key after another until the buffer is full, and a paste between them
Fast == [Nothing EXCEPT !.strokes = {<<2, 0>>}, !.frames = {45},
                        !.pastes = {10, 13, 98}, !.steps = 5]
Rush == [Nothing EXCEPT !.strokes = {<<2, 0>>}, !.steps = 18]
\* Hot keys, either window, the focus and modifiers told by the host
Windows == [Nothing EXCEPT !.strokes = {<<96, 0>>, <<97, 0>>, <<98, 0>>, <<100, 0>>, <<101, 0>>,
                                        <<109, 0>>, <<56, 0>>, <<2, 0>>},
                           !.windows = {"main", "debug"}, !.focus = TRUE,
                           !.masks = {{}, {SHIFT}, {CAPS_LOCK}}, !.steps = 4]
\* A key with any character, with shift or without
Foreign == {8, 163, 176, 178, 214, 220, 224, 233, 241, 252, 168, 200}
Layouts == [Nothing EXCEPT !.strokes = {<<19, c>> : c \in (33..126) \union Foreign}
                                       \union {<<56, 0>>, <<82, 48>>}, !.steps = 2]
Turns == [Nothing EXCEPT !.strokes = {<<0, 64>>, <<0, 224>>, <<19, 50>>, <<19, 64>>, <<56, 0>>,
                                      <<123, 8>>, <<123, 0>>}, !.steps = 5]
\* The program polls the keyboard, moves it, and enables interrupts
Polling == [Nothing EXCEPT !.strokes = {<<2, 0>>, <<14, 0>>, <<127, 0>>},
                           !.commands = {4, 194}, !.params = {1}, !.steps = 6]
Commands == [Nothing EXCEPT !.commands = {1, 4, 5, 8, 9, 10, 11, 12, 13, 14, 16, 17, 18, 178, 179, 180,
                                          194, 242},
                            !.params = {2, 254}, !.enables = {84}, !.steps = 4]
DeskManager == [Nothing EXCEPT !.strokes = {<<54, 0>>, <<58, 0>>, <<53, 0>>},
                               !.commands = {13}, !.enables = {0, 16}, !.steps = 5]
Setup == [Nothing EXCEPT !.commands = {6, 7, 9}, !.params = {3, 11, 20, 50, 73}, !.steps = 5,
                         !.strokes = {<<0, 0>>}]
\* Clicks and moves, with the pointer held in the middle at times
Mousing == [Nothing EXCEPT !.spots = {<<0, 0, FALSE>>, <<200, 90, FALSE>>, <<700, -1, FALSE>>},
                           !.buttons = {{0}}, !.enables = {64}, !.narrow = BOOLEAN, !.steps = 3]
Clicking == [Nothing EXCEPT !.spots = {<<40, 0, FALSE>>}, !.buttons = {{}, {0}, {1, 2}},
                            !.waits = TRUE, !.steps = 5]
Warped == [Nothing EXCEPT !.strokes = {<<100, 0>>}, !.spots = {<<20, 8, TRUE>>, <<100, 60, FALSE>>},
                          !.buttons = {{}, {0}}, !.enables = {64}, !.steps = 3]
Off == [Nothing EXCEPT !.spots = {<<100, 60, FALSE>>}, !.buttons = {{0}}, !.enables = {64},
                       !.commands = {4, 5, 16}, !.params = {2}, !.steps = 5]
AllSessions ==
  [typing |-> Typing, fast |-> Fast, rush |-> Rush, windows |-> Windows, layouts |-> Layouts,
   turns |-> Turns, polling |-> Polling, commands |-> Commands, setup |-> Setup, desk |-> DeskManager,
   mousing |-> Mousing, clicking |-> Clicking, warped |-> Warped, off |-> Off]
MouseSessions ==
  [mousing |-> [Mousing EXCEPT !.spots = {<<40, 0, FALSE>>}, !.buttons = {{}, {0}}]]
===============================================================================
