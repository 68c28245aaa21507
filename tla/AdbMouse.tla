-------------------------------- MODULE AdbMouse --------------------------------
(* The mouse: host positions and buttons, a queue of the places where the      *)
(* button changed, and the register a program reads moves from, x and y in     *)
(* turn.                                                                       *)
(*                                                                             *)
(* fifo holds g_mouse_fifo up to g_mouse_fifo_pos, the newest entry first.     *)
EXTENDS AdbKeys

CONSTANTS Width, Height,   \* of the host's picture: 640 by 400
          MaxDelta,        \* the largest move one read tells: 63
          CompressAge      \* half a second, after which an entry is dropped

ADB_MOUSE_FIFO == 8
LEFT == 0
RIGHT == 2
MIDDLE == 1

Clamp(v, low, high) == Max({low, Min({v, high})})

Pos(a) == Len(a.fifo) - 1
Newest(a) == a.fifo[1]
Oldest(a) == a.fifo[Len(a.fifo)]

(* Entries that are too old go, from the oldest on, but never the newest. *)
mouse_compress_fifo(a, dfcyc) ==
  LET young == {n \in 2..Len(a.fifo) : a.fifo[n].dfcyc + CompressAge >= dfcyc}
  IN [a EXCEPT !.fifo = SubSeq(@, 1, Max(young \union {1}))]

(* A host position: a relative one is added up, an absolute one is kept inside *)
(* the picture and shows the host's pointer when it is not.                    *)
Located(a, x, y, relative) ==
  LET inside == x \in 0..(Width - 1) /\ y \in 0..(Height - 1)
      new_x == IF relative THEN a.raw_x + x ELSE x
      new_y == IF relative THEN a.raw_y + y ELSE y
  IN [x |-> IF relative THEN new_x ELSE Clamp(x, 0, Width - 1),
      y |-> IF relative THEN new_y ELSE Clamp(y, 0, Height - 1),
      at |-> [a EXCEPT !.raw_x = new_x, !.raw_y = new_y,
                       !.unhide = ~a.warp /\ (~a.focus \/ (~relative /\ ~inside))]]

(* In the machine's coordinates; narrow is the 320 pixel mode. *)
Scaled(a, place, narrow) ==
  IF a.warp THEN [x |-> place.x, y |-> place.y]
  ELSE [x |-> IF narrow THEN place.x \div 2 ELSE place.x, y |-> place.y \div 2]

(* The pointer was put back in the middle: where the program thinks it is      *)
(* moves along, so that it sees no move.                                       *)
Recentred(a, p) ==
  [a EXCEPT !.a2_x = @ + p.x - Newest(a).x, !.a2_y = @ + p.y - Newest(a).y,
            !.fifo[1].x = p.x, !.fifo[1].y = p.y]

(* A change of the left button keeps the entry it ends, as long as there is    *)
(* room for it.                                                                *)
Queued(a, changed) ==
  IF changed /\ Pos(a) < ADB_MOUSE_FIFO - 2
  THEN [a EXCEPT !.fifo = <<Newest(a)>> \o @] ELSE a

MouseOn(a) == a.mouse_ctl = a.mouse_dev /\ 1 \notin a.mode

(* buttons are the ones that are down among valid, those the event tells of. *)
Moved(a, p, buttons, valid, dfcyc) ==
  LET old == Newest(a)
      moved == old.x # p.x \/ old.y # p.y
      pressed(button) == button \in (buttons \intersect valid) \ old.buttons
      changed == LEFT \in valid /\ (LEFT \in buttons) # (LEFT \in old.buttons)
      placed == [a EXCEPT !.fifo[1] = [x |-> p.x, y |-> p.y, dfcyc |-> dfcyc,
                                       buttons |-> old.buttons]]
      sped == IF pressed(RIGHT) THEN adb_increment_speed(placed) ELSE placed
      halted == IF pressed(MIDDLE) THEN Halt(sped) ELSE sped
      new == [Queued(halted, changed) EXCEPT
                !.fifo[1].buttons = (buttons \intersect valid) \union (old.buttons \ valid)]
  IN IF (moved \/ changed) /\ MouseOn(new)
     THEN adb_add_mouse_int([new EXCEPT !.valid_data = TRUE])
     ELSE new

(* recentre is an event without valid buttons. *)
adb_update_mouse(a, window, x, y, relative, buttons, valid, recentre, narrow, dfcyc) ==
  LET seen == IF window = "debug" THEN adb_nonmain_check(a) ELSE a
      place == Located(seen, x, y, relative)
      at == place.at
      shown == [at EXCEPT !.hide = @ /\ (at.warp \/ ~at.unhide)]
      young == mouse_compress_fifo(shown, dfcyc)
      p == Scaled(young, place, narrow)
  IN IF window = "debug" THEN at
     ELSE IF recentre /\ young.warp THEN Recentred(young, p)
     ELSE Moved(young, p, IF recentre THEN {} ELSE buttons,
                IF recentre THEN 0..2 ELSE valid, dfcyc)

(* The pointer of the host is hidden while the event manager tracks it. *)
Tracked(a, em_active, superhires) ==
  IF em_active /\ ~a.warp THEN [a EXCEPT !.hide = @ \/ (superhires /\ ~a.unhide)]
  ELSE [a EXCEPT !.hide = @ /\ a.warp]

CaughtUp(a) ==
  /\ Len(a.fifo) = 1
  /\ Newest(a).x = a.a2_x /\ Newest(a).y = a.a2_y
  /\ (LEFT \in Newest(a).buttons) = (a.a2_button = 1)

\* As Told below, with the entries that are still behind the oldest one left out
Told_oldest(a) ==
  Oldest(a).x = a.a2_x /\ Oldest(a).y = a.a2_y /\ (LEFT \in Oldest(a).buttons) = (a.a2_button = 1)

(* There is nothing left to read. *)
Told(a) == CaughtUp(a)

(* One read: the move towards the oldest entry along one axis. An entry goes   *)
(* when both axes have reached it and its button was told.                     *)
mouse_read_c024(a, em_active, superhires, dfcyc) ==
  LET young == mouse_compress_fifo(a, dfcyc)
      target == Oldest(young)
      delta_x == Clamp(target.x - a.a2_x, -MaxDelta, MaxDelta)
      delta_y == Clamp(target.y - a.a2_y, -MaxDelta, MaxDelta)
      clamped == delta_x # target.x - a.a2_x \/ delta_y # target.y - a.a2_y
      entry == IF Pos(young) > 0 /\ ~clamped /\ a.coord
               THEN young.fifo[Len(young.fifo) - 1] ELSE target
      button == IF LEFT \in entry.buttons THEN 1 ELSE 0
      told == [Tracked(young, em_active, superhires) EXCEPT
                 !.a2_x = IF a.coord THEN @ ELSE @ + delta_x,
                 !.a2_y = IF a.coord THEN @ + delta_y ELSE @,
                 !.a2_button = IF a.coord THEN button ELSE @]
      reached == target.x = told.a2_x /\ target.y = told.a2_y /\ told.a2_button = button
      next == IF Pos(told) > 0 /\ reached
              THEN [told EXCEPT !.fifo = SubSeq(@, 1, Len(@) - 1)] ELSE told
      quiet == IF Told(next)
               THEN adb_clear_mouse_int([next EXCEPT !.valid_data = FALSE]) ELSE next
  IN IF ~MouseOn(a)
     THEN adb_clear_mouse_int([a EXCEPT !.valid_data = FALSE])
     ELSE [quiet EXCEPT !.coord = ~@]
===============================================================================
