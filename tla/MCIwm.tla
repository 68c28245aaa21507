--------------------------------- MODULE MCIwm ---------------------------------
(* Small disks and the programs that use them: tracks of two short sectors,   *)
(* two tracks on a 5.25" disk.                                                *)
EXTENDS Iwm, TLC

MCPhysToDos == 0 :> 1 @@ 1 :> 0
MCPhysToProdos == 0 :> 0 @@ 1 :> 1
MCImages == [n \in {"dos", "po", "nib", "woz", "five", "bad", "gone", "mac"} |->
               [kind |-> CASE n = "dos" -> "dos33" [] n \in {"po", "mac"} -> "prodos" [] n = "nib" -> "nib"
                           [] OTHER -> "woz",
                is525 |-> n # "mac", readonly |-> n = "nib"]]
Bytes(count, seed) == [i \in 1..count |-> (77 * i * i + 91 * seed + 130) % 256]
Image525 == [q \in {0, 4} |-> [log \in 0..(Sectors525 - 1) |-> Bytes(SectorBytes525, q + log)]]
Image35 == [q \in QtrTracks |-> [log \in 0..(Sectors35 - 1) |-> Bytes(SectorBytes35, 3 * q + log)]]
ImageNib == [q \in {0, 4} |-> [i \in 1..30 |-> ToDisk((7 * i + q) % 64)]]
Dos33 == [iwm_init_drive EXCEPT !.kind = "dos33"]
Filled(dsk, image) ==
  [dsk EXCEPT !.trk = [q \in QtrTracks |-> IF q \notin DOMAIN image THEN NoTrack
                                           ELSE disk_unix_to_nib(dsk, "s6d1", q, image[q])]]
ImageFive(woz) ==
  [woz EXCEPT !.tmap = [q \in QtrTracks |-> IF q < 2 THEN 0 ELSE IF q \in 3..7 THEN 1 ELSE NoSlot]]
MCFiles ==
  LET With(dos, woz) ==
        "dos" :> dos @@ "po" :> dos @@ "mac" :> Image35 @@ "nib" :> ImageNib
        @@ "woz" :> woz @@ "bad" :> [woz EXCEPT !.ok = FALSE] @@ "five" :> ImageFive(woz)
      Made(dos) == With(dos, WozImage(woz_new_from_woz(Filled(Dos33, dos))))
  IN Made(Image525)

\* The drive and the arm: an access is <<kind, time before it, what it takes>>
Reads(t, locs) == [i \in DOMAIN locs |-> <<"read", t, locs[i]>>]
Start(n) == Reads(1, <<10 + n, 9, 14, 12>>)
Stop == Reads(1, <<8>>)
HalfIn(from) == <<<<"read", 1, 2 * ((from + 1) % 4) + 1>>, <<"read", PhaseTicks, 2 * from>>>>
HalfOut(from) == <<<<"read", 1, 2 * ((from + 3) % 4) + 1>>, <<"read", PhaseTicks, 2 * from>>>>
Settle(phase) == <<<<"read", PhaseTicks, 2 * phase>>, <<"read", 1, 12>>>>

\* A 5.25" sector's data, written after its header
Vals(nibs) == [i \in DOMAIN nibs |-> nibs[i][1]]
Header525(q, phys) ==
  LET Coded4x4(id) == Vals(FoldLeft(LAMBDA nibs, byte : nibs \o disk_4x4_nib_out(byte), <<>>, id))
  IN Coded4x4(<<254, q \div 4, phys, (254 ^^ (q \div 4)) ^^ phys>>)
Find525(q, phys) == <<<<"find", 2, Header525(q, phys)>>>>
NewBytes(count) == Bytes(count, 50)
Data525 == Vals(Coded(Chained(sector_to_partial_nib(NewBytes(SectorBytes525)))))
WriteOn == <<<<"read", 1, 13>>, <<"read", 1, 14>>, <<"write", 2, 15, 255>>, <<"read", 0, 12>>>>
WriteOff(t) == <<<<"read", t, 14>>, <<"read", 0, 12>>>>
Write525 == <<WriteOn \o <<<<"nibs", 10, <<255, 213>>>>, <<"nibs", 8, <<170, 173>>>>>>,
              <<<<"nibs", 8, Data525 \o <<222, 170, 235>>>>>> \o WriteOff(8)>>

\* A 3.5" drive: the same, with its functions and the asynchronous mode
Start35 ==
  <<<<"c031", 1, TRUE, FALSE>>>> \o Reads(1, <<10, 13>>) \o <<<<"write", 1, 15, 15>>>>
  \o Reads(1, <<14, 12, 9>>)
Motor35 == Reads(1, <<3, 7, 6, 2>>)
StepIn35 == Reads(1, <<1, 7, 6, 0>>)
Out35 == Reads(1, <<5, 7, 6, 4>>)
Eject35 == Reads(1, <<1, 3, 5, 7, 6, 0, 2, 4>>)
Status35(ctrl, on) == <<<<"c031", 1, TRUE, ctrl>>>> \o Reads(1, on \o <<13, 14, 12, 0, 2, 4>>)
Statuses35(ctrls, ons) == FlattenSeq([i \in DOMAIN ons |-> Status35(ctrls[i], ons[i])])
Header35(q, log) ==
  LET At(track, side) == Vals(Coded(<<track, log, side, 34, ((track ^^ log) ^^ side) ^^ 34>>))
  IN At((q \div 2) % 64, 32 * (q % 2))
Find35(q, log) == <<<<"c031", 1, TRUE, FALSE>>, <<"find", 2, Header35(q, log)>>>>
Data35(log) == Vals(Coded(<<log>>) \o Coded(EncodedSector35(NewBytes(SectorBytes35))))
WriteOn35 == <<<<"read", 1, 13>>, <<"read", 1, 14>>, <<"write", 2, 15, 255>>, <<"read", 1, 12>>>>
Write35(log) == <<WriteOn35 \o <<<<"nibs", 4, <<255, 213, 170, 173>>>>>>,
                  <<<<"nibs", 4, Data35(log) \o <<222, 170, 255>>>>>> \o WriteOff(4)>>

\* A few nibbles on the quarter track under the head, more than the track holds,
\* and some that are cut in two by the arm
Some(count) == [i \in 1..count |-> ToDisk((5 * i) % 64)]
Scribble(count) == WriteOn \o <<<<"nibs", 8, Some(count)>>>>
Drag(from, to) == WriteOn \o <<<<"read", 1, 2 * to + 1>>, <<"nibs", 8, Some(40)>>, <<"read", 1, 2 * from>>>>

New(name, q, log, count) == [name |-> name, q |-> q, log |-> log, bytes |-> NewBytes(count)]
Program(disks, fast, steps) ==
  [disks |-> disks, fast |-> fast, steps |-> steps, saves |-> {}, spare |-> {},
   files |-> {disks[d] : d \in DOMAIN disks}, listens |-> "s6d1"]
Saving(program, new) == [program EXCEPT !.saves = {new}]
Save525(name, fast) ==
  Saving(Program("s6d1" :> name, fast,
                 <<Start(0), HalfIn(0) \o HalfIn(1) \o Settle(2), Find525(4, 1)>>
                   \o Write525 \o <<Stop>>),
         New(name, 4, IF name = "po" THEN 1 ELSE 0, SectorBytes525))
Save35(fast) ==
  Saving(Program("s5d1" :> "mac", fast,
                 <<Start35, Motor35 \o StepIn35 \o Status35(TRUE, <<0, 2, 5>>), Find35(3, 0)>>
                   \o Write35(0) \o <<Stop>>),
         New("mac", 3, 0, SectorBytes35))
Listen(t, n) == <<<<"listen", t, n>>>>
Listens(name, fast) ==
  Program("s6d1" :> name, fast, <<Start(0), Find525(0, 1), Listen(2, 8), Listen(2, 30), Stop>>)
Listens35 ==
  [Program("s5d1" :> "mac", FALSE, <<Start35, Motor35, Find35(0, 1), Listen(1, 8), Listen(1, 50), Stop>>)
     EXCEPT !.listens = "s5d1"]

\* From one drive to the other: the second holds a WOZ image
Copy ==
  [Saving(Program("s6d1" :> "dos" @@ "s6d2" :> "woz", TRUE,
                  <<Start(0), Find525(0, 1) \o Listen(2, 8), <<<<"read", 1, 11>>>> \o Find525(0, 1)>>
                    \o Write525 \o <<Stop>>),
          New("woz", 0, 0, SectorBytes525))
     EXCEPT !.spare = {"dos", "woz"}]
\* Writes between tracks, and one as long as a track
Between(name, fast) ==
  Program("s6d1" :> name, fast,
          <<Start(0), HalfIn(0), Scribble(12), WriteOff(8), HalfIn(1), Scribble(66), WriteOff(8), Stop>>)
Dragged(name, fast) ==
  Program("s6d1" :> name, fast,
          <<Start(0), HalfIn(0), Drag(1, 2), WriteOff(8) \o Settle(2) \o HalfOut(2), Drag(1, 0),
            WriteOff(8), Stop>>)

\* The 3.5" drive's other functions, and a mouse's handshake
Functions35 ==
  Program("s5d1" :> "mac", FALSE,
          <<Start35, Motor35 \o StepIn35 \o Statuses35(<<FALSE, FALSE>>, <<<<0, 2, 4>>, <<0, 2, 5>>>>),
            Statuses35(<<TRUE, TRUE, FALSE, TRUE, FALSE, TRUE, TRUE>>,
                       <<<<0, 2, 4>>, <<1, 2, 4>>, <<0, 3, 4>>, <<0, 3, 4>>, <<1, 3, 4>>, <<1, 3, 5>>,
                         <<1, 3, 4>>>>)
              \o <<<<"c031", 1, TRUE, FALSE>>>>,
            Out35 \o StepIn35 \o StepIn35, Eject35, Status35(FALSE, <<1, 3, 4>>), Stop>>)
Enabled2 ==
  Program("s6d1" :> "nib", TRUE,
          <<Reads(1, <<3, 7, 9, 12>>), Reads(1, <<15, 12, 12, 12, 12>>), Reads(1, <<2, 6, 14>>),
            Listen(2, 8), Stop>>)
\* Disks put in while a program looks for one
Swaps ==
  [Program("s6d1" :> "five", TRUE, <<Start(0), Listen(2, 4), Listen(2, 4), Stop>>)
     EXCEPT !.spare = {"five", "dos", "bad", "gone"},
            !.files = {"five", "dos", "bad"}]

Scripts ==
  {Save525(c[1], c[2]) : c \in {<<"dos", FALSE>>, <<"po", TRUE>>, <<"woz", TRUE>>}}
  \union {Save35(fast) : fast \in BOOLEAN}
  \union {Listens(c[1], c[2]) : c \in {<<"woz", FALSE>>, <<"dos", TRUE>>}}
  \union {Between(c[1], c[2]) : c \in {<<"dos", TRUE>>, <<"woz", FALSE>>}}
  \union {Listens35, Copy, Dragged("woz", FALSE), Functions35, Enabled2, Swaps}
MCPrograms ==
  LET With(contents) == {[p EXCEPT !.files = [n \in @ |-> contents[n]]] : p \in Scripts}
  IN With(MCFiles)
===============================================================================
