-------------------------------- MODULE KeyFifo ---------------------------------
(* What the keyboard latch promises: the keys are shown in the order they     *)
(* were typed, each until the program takes it, and only keys that do not fit *)
(* are lost. A reset forgets the keys that wait and leaves the one shown.     *)
EXTENDS Naturals, Sequences, Functions

CONSTANT Capacity   \* the keys that fit, a number

VARIABLES latch,     \* what the program sees, 128 and more while it is new
          queue,     \* the keys that wait, the one shown included
          panel      \* whether the configuration panel has the keyboard
vars == <<latch, queue, panel>>

Key == 128..255
Shown == latch % 128

Init == latch = 0 /\ queue = << >> /\ panel = FALSE

Enter(key) ==
  /\ Len(queue) < Capacity /\ queue' = Append(queue, key)
  /\ latch' = IF queue = << >> THEN key ELSE latch
  /\ UNCHANGED panel

Take ==
  /\ latch' = IF Len(queue) > 1 THEN queue[2] ELSE Shown
  /\ queue' = IF queue = << >> THEN queue ELSE Tail(queue)
  /\ UNCHANGED panel

\* The last key goes and one that was pasted takes its place
TakeAndPaste(key) ==
  /\ Len(queue) = 1
  /\ latch' = key /\ queue' = <<key>>
  /\ UNCHANGED panel

Clear == queue' = << >> /\ UNCHANGED <<latch, panel>>

\* The panel opens, and what waited is tossed; or closes
Switch ==
  /\ panel' = ~panel
  /\ \/ panel' /\ latch' \in 0..127 /\ queue' = << >>
     \/ panel' /\ latch' \in Key /\ queue' = <<latch'>>
     \/ ~panel' /\ UNCHANGED <<latch, queue>>

\* Only a key that shows up afterwards can have come in
Next == \/ \E key \in Key \intersect Range(queue') : Enter(key) \/ TakeAndPaste(key)
        \/ Take \/ Clear \/ Switch

Spec == Init /\ [][Next]_vars
===============================================================================
