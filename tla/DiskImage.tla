------------------------------- MODULE DiskImage -------------------------------
(* A disk in a drive: what the code keeps of it, how its tracks are made from *)
(* the image file when it is inserted, and the WOZ format an image is changed *)
(* to once it has tracks its own format cannot hold.  A quarter track without *)
(* bits is read from a neighbour that has some.                               *)
EXTENDS DiskNibble

CONSTANTS NumQtr,                  \* quarter tracks a drive can hold (160)
          Std525, Arm525,          \* those of an image, and the arm's reach (4 * 35 and 4 * 36)
          Bits525, Bits35,         \* bits of a track, before the extra ones
          MinWozBits, ShortTrack,  \* the fewest bits a WOZ track has, and the fewest that are saved
          Images                   \* name -> [kind, is525, readonly] of the image files

QtrTracks == 0..(NumQtr - 1)
None == -1
DriveOf(slot, n) == IF slot = 6 THEN IF n = 0 THEN "s6d1" ELSE "s6d2"
                    ELSE IF n = 0 THEN "s5d1" ELSE "s5d2"
Drives == {"s6d1", "s6d2", "s5d1", "s5d2"}
disk_525(d) == d \in {"s6d1", "s6d2"}

\* cur is the track under the head, by which it is read and written; frac is
\* where the head is, in Frac-ths of a quarter track; prot is 2 for a file that
\* cannot be written; phasesAt and lastRead are times, 0 for none
Frac == 1024
iwm_init_drive ==
  [in |-> FALSE, name |-> "", kind |-> "none", woz |-> FALSE, reparse |-> FALSE, lock |-> FALSE,
   tmap |-> <<>>, frac |-> 0, pos |-> 0, cur |-> None, curBits |-> 0, num |-> 0,
   trk |-> [q \in QtrTracks |-> NoTrack], dirty |-> FALSE, through |-> FALSE, prot |-> 1,
   ejected |-> FALSE, phases |-> {}, phasesAt |-> 0, lastRead |-> 0]
Qtr(frac) == (frac + (Frac \div 2)) \div Frac

iwm_get_default_track_bits(d, q) ==
  (IF disk_525(d) THEN Bits525 ELSE Bits35) + ((q + (q \div 32)) % 16)

iwm_move_to_qtr_track(dsk, q) ==
  LET bits == dsk.trk[q].bits
  IN [dsk EXCEPT !.cur = q, !.curBits = bits, !.pos = IF bits = 0 THEN @ ELSE @ % bits]

\* The quarter track whose bits are read where the head is
Beneath(dsk, is525, reach, q) ==
  IF ~is525 \/ dsk.trk[q].bits # 0 THEN q
  ELSE IF q > 0 /\ dsk.trk[q - 1].bits # 0 THEN q - 1
  ELSE IF q < reach /\ dsk.trk[q + 1].bits # 0 THEN q + 1 ELSE q

-----------------------------------------------------------------------------
\* Tracks of an image of sectors

phys_to_log_sec(dsk) == IF dsk.kind = "dos33" THEN PhysToDos ELSE PhysToProdos

disk_unix_to_nib(dsk, d, q, content) ==
  LET bits == IF dsk.kind = "nib" THEN 8 * Len(content) ELSE iwm_get_default_track_bits(d, q)
      blank == [Track(bits, [p \in 0..(bits - 1) |-> 0]) EXCEPT !.at = q, !.len = bits]
      made == IF dsk.kind = "nib" THEN iwm_nibblize_track_nib525(blank, content)
              ELSE IF disk_525(d) THEN iwm_nibblize_track_525(blank, content, q, 254, phys_to_log_sec(dsk))
              ELSE iwm_nibblize_track_35(blank, content, q)
  IN [made EXCEPT !.dirty = FALSE]
StdTracks(d) == IF disk_525(d) THEN {q \in 0..(Std525 - 1) : q % 4 = 0} ELSE QtrTracks

iwm_denib(dsk, d, q) ==
  IF ~disk_525(d) THEN iwm_denib_track35(dsk.trk[q], q)
  ELSE IF q % 4 # 0 THEN [ok |-> FALSE, sectors |-> <<>>]
  ELSE iwm_denib_track525(dsk.trk[q], q, phys_to_log_sec(dsk))

-----------------------------------------------------------------------------
\* WOZ: slots of bits, and the slot of each quarter track, 255 for none

\* A neighbour of a track is given its slot, so the same track can be met three
\* times; a lone run of them is one track, in its middle.  No two tracks kept
\* may have one slot: that is put right at once.
NoSlot == 255
Run(tmap, q) == LET same == {j \in q..(NumQtr - 1) : \A k \in q..j : tmap[k] = tmap[q]}
                IN Cardinality(same)
\* As below, were the first of a run kept
Kept_first(tmap, is525) ==
  {q \in QtrTracks : tmap[q] # NoSlot /\ (is525 => q = 0 \/ tmap[q - 1] # tmap[q])}
Kept(tmap, is525) ==
  {q \in QtrTracks :
     /\ tmap[q] # NoSlot
     /\ is525 => LET first == q = 0 \/ tmap[q - 1] # tmap[q]
                 IN CASE Run(tmap, q) = 1 -> first
                      [] Run(tmap, q) = 2 -> TRUE
                      [] OTHER -> ~first}
woz_add_track(bits, slot) ==
  [iwm_recalc_sync_from(Track(Len(bits), [p \in 0..(Len(bits) - 1) |-> bits[p + 1]]), 0).trk
     EXCEPT !.at = slot, !.len = Len(bits)]
woz_reopen(dsk, d, content) ==
  LET kept == Kept(content.tmap, disk_525(d))
      last == Max({Std525 - 1} \union {q \in Std525..(NumQtr - 1) : content.tmap[q] # NoSlot})
  IN [dsk EXCEPT !.woz = TRUE, !.tmap = content.tmap, !.lock = content.lock,
                 !.num = IF disk_525(d) THEN last + 1 ELSE NumQtr,
                 !.prot = IF content.lock THEN 1 ELSE @,
                 !.trk = [q \in QtrTracks |->
                            IF q \notin kept THEN NoTrack
                            ELSE woz_add_track(content.slots[content.tmap[q] + 1], content.tmap[q])],
                 !.reparse = \E p, q \in kept : p # q /\ content.tmap[p] = content.tmap[q]]

\* Give each track that has enough bits a slot, in order, and its neighbours
\* without bits the same; the rest are lost, and so are what was dirty and the lock
woz_new_from_woz(dsk) ==
  LET valid == {q \in QtrTracks : dsk.trk[q].bits >= MinWozBits}
      Slot(q) == Cardinality({v \in valid : v < q})
  IN [dsk EXCEPT !.woz = TRUE, !.reparse = FALSE, !.lock = FALSE,
        !.through = @ /\ dsk.woz,
        !.tmap = [q \in QtrTracks |-> IF q \in valid THEN Slot(q)
                                      ELSE IF q - 1 \in valid THEN Slot(q - 1)
                                      ELSE IF q + 1 \in valid THEN Slot(q + 1) ELSE NoSlot],
        !.trk = [q \in QtrTracks |->
                   IF q \notin valid THEN NoTrack
                   ELSE [dsk.trk[q] EXCEPT !.at = Slot(q), !.len = dsk.trk[q].bits, !.dirty = FALSE]]]

\* The image as it stands in memory; ok says that its checksum is right
RawBits(trk) == [i \in 1..trk.bits |-> trk.raw[i - 1]]
WozImage(dsk) ==
  LET kept == {q \in QtrTracks : dsk.trk[q].bits # 0}
  IN [tmap |-> dsk.tmap, lock |-> dsk.lock, ok |-> TRUE,
      slots |-> [i \in 1..Cardinality(kept) |-> RawBits(dsk.trk[CHOOSE q \in kept : dsk.trk[q].at = i - 1])]]

\* The checksum written to a file's header is that of the image in memory, with
\* the bits of the tracks that are still to be saved
woz_rewrite_crc(content, dsk) ==
  LET agreeing == [content EXCEPT !.ok = TRUE]
  IN [content EXCEPT !.ok = agreeing = WozImage(dsk)]

\* A new track is given bits no program means anything by
FreshBits(bits) ==
  LET bytes == (bits + 7) \div 8
      Val(i) == ((i \div 64) ^^ i) % 128
      Byte(i) == IF i = bytes - 1 THEN 0
                 ELSE IF Val(i) \div 16 = 0 \/ Val(i) % 16 = 0 THEN Val(i) | 33 ELSE Val(i)
  IN iwm_recalc_sync_from(Track(bits, [p \in 0..(bits - 1) |-> BitOf(Byte(p \div 8), 7 - (p % 8))]), 0).trk
===============================================================================
