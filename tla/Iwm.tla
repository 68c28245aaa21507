---------------------------------- MODULE Iwm ----------------------------------
(* The IWM disk controller with the 5.25" and 3.5" drives it selects: the     *)
(* switches a program touches, the head and the arm, writes over several      *)
(* quarter tracks at once, and the saving of what was written to the image    *)
(* files.  A C function is an operator on the machine m, a record of the      *)
(* variables.  Time counts bits of a 5.25" disk, of which a 3.5" disk passes  *)
(* two.                                                                       *)
EXTENDS DiskImage

CONSTANTS Programs,      \* [steps, disks, files, spare, fast, saves, listens], see ProgramStep and Init
          MotorVbls,     \* VBLs from "motor off" to the motor's stop (60)
          PhaseTicks,    \* time the arm takes from one phase to the next (2.8 ms)
          Faults         \* bound on what the user and the host do to one program

VARIABLES iwm, disk, file, host, guest
vars == <<iwm, disk, file, host, guest>>
Machine == [iwm |-> iwm, disk |-> disk, file |-> file, host |-> host, guest |-> guest]

\* Bits of g_iwm.state are fields; left counts down to motor_off_vbl_count
Unset == 395040         \* what a bit number is until it is set
Cleared == 938268
iwm_reset_state ==
  [motor |-> FALSE, off |-> FALSE, left |-> 0, sel35 |-> FALSE, ctrl |-> FALSE, dir35 |-> FALSE,
   motor35 |-> FALSE, drive |-> 0, q6 |-> FALSE, q7 |-> FALSE, enable2 |-> FALSE, phases |-> {},
   mode |-> 0, forced |-> Unset, lastRd |-> Unset, writeVal |-> 0, active |-> 0,
   wr |-> [i \in 0..4 |-> [last |-> 0, trk |-> 0, bits |-> 0, prior |-> 0, delta |-> 0]]]

Selected(m) == DriveOf(IF m.iwm.sel35 THEN 5 ELSE 6, m.iwm.drive)
Drive35(m) == DriveOf(5, m.iwm.drive)
Told(m, val) == [m EXCEPT !.host.out = val]
halt_printf(m) == [m EXCEPT !.host.halted = TRUE]

-----------------------------------------------------------------------------
\* Saving, moving and writing call one another: Call gives the machine after the
\* function of that name, see below

RECURSIVE Call(_, _, _)

woz_maybe_reparse(m, d) ==
  IF m.disk[d].woz /\ m.disk[d].reparse THEN Call(m, "woz_reparse_woz", <<d>>) ELSE m
woz_set_reparse(m, d) ==
  IF m.disk[d].woz THEN [m EXCEPT !.disk[d].reparse = TRUE] ELSE Call(m, "woz_reparse_woz", <<d>>)

\* A file the host does not let be written is found to differ
woz_check_file(m, d) ==
  IF m.disk[d].woz /\ m.disk[d].through /\ m.file[m.disk[d].name] # WozImage(m.disk[d])
  THEN halt_printf(m) ELSE m

woz_reparse_woz(m, d) ==
  LET new == woz_new_from_woz(m.disk[d])
      name == new.name
      made == [m EXCEPT !.disk[d] = [new EXCEPT !.cur = None],
                        !.host.halted = @ \/ ~m.disk[d].woz,
                        !.file = IF ~new.through THEN @
                                 ELSE IF m.host.failing THEN [@ EXCEPT ![name].ok = FALSE]
                                 ELSE [@ EXCEPT ![name] = WozImage(new)]]
  IN woz_check_file(Call(made, "iwm_move_to_ftrack", <<d, new.frac, 0>>), d)

\* As below, were a failed write not noticed
iwm_track_to_unix_blind(m, d, q) ==
  LET clean == [m EXCEPT !.disk[d].trk[q].dirty = FALSE]
      Saved(r) == IF m.disk[d].woz THEN [m |-> clean, ret |-> 1]
                  ELSE IF ~r.ok THEN [m |-> m, ret |-> -1]
                  ELSE [m |-> IF m.host.failing THEN clean
                              ELSE [clean EXCEPT !.file[m.disk[d].name][q] = r.sectors], ret |-> 1]
  IN IF m.disk[d].trk[q].bits = 0 \/ ~m.disk[d].trk[q].dirty THEN [m |-> m, ret |-> 0]
     ELSE Saved(iwm_denib(m.disk[d], d, q))
\* One dirty track to the file: 1 when it was written, 0 when there was nothing
\* to write.  To be decoded, a track is put under the head.
iwm_track_to_unix(m, d, q) ==
  LET dsk == m.disk[d]
      trk == dsk.trk[q]
      decode == ~dsk.woz /\ (disk_525(d) => q % 4 = 0)
      at == [m EXCEPT !.disk[d].cur = q, !.disk[d].curBits = trk.bits]
      seen == IF decode THEN Call(at, "iwm_move_to_ftrack", <<d, dsk.frac, 0>>) ELSE m
      clean == [seen EXCEPT !.disk[d].trk[q].dirty = FALSE]
      Saved(denib) ==
        IF ~dsk.woz /\ ~denib.ok THEN [m |-> seen, ret |-> -1]
        ELSE IF trk.len < ShortTrack THEN [m |-> halt_printf(seen), ret |-> -1]
        ELSE IF m.host.failing THEN [m |-> clean, ret |-> -1]
        ELSE IF dsk.woz
        THEN [m |-> [clean EXCEPT !.file[dsk.name] =
                       woz_rewrite_crc([@ EXCEPT !.slots[trk.at + 1] = RawBits(trk)], dsk)], ret |-> 1]
        ELSE [m |-> [clean EXCEPT !.file[dsk.name][q] = denib.sectors], ret |-> 1]
  IN IF trk.bits = 0 \/ ~trk.dirty THEN [m |-> m, ret |-> 0] ELSE Saved(iwm_denib(dsk, d, q))

\* wrote is not set to anything before the first track that is written
RECURSIVE FlushFrom(_, _, _, _)
FlushFrom(m, d, q, wrote) ==
  LET Then(r) == IF r.ret = -1 THEN Call(halt_printf(r.m), "woz_reparse_woz", <<d>>)
                 ELSE FlushFrom(r.m, d, q + 1, wrote \/ r.ret = 1)
  IN IF q = NumQtr
     THEN [(IF m.disk[d].woz /\ wrote THEN woz_check_file(m, d) ELSE m) EXCEPT !.disk[d].dirty = FALSE]
     ELSE Then(iwm_track_to_unix(m, d, q))
iwm_flush_disk_to_unix(m, d) ==
  IF m.disk[d].dirty /\ m.disk[d].through THEN FlushFrom(m, d, 0, m.host.junk) ELSE m
iwm_flush_cur_disk(m) == Call(m, "iwm_flush_disk_to_unix", <<Selected(m)>>)

\* delta steps a 3.5" drive, whose side is a bit of frac
max_track(dsk) == IF dsk.num >= Arm525 THEN dsk.num - 1 ELSE Arm525 - 1
iwm_move_to_ftrack(m, d, to, delta) ==
  LET dsk == m.disk[d]
      whole == Frac * (to \div Frac)
      asked == IF delta = 0 THEN to
               ELSE IF delta < 0 /\ whole < -delta THEN Frac * ((dsk.frac \div Frac) % 2)
               ELSE whole + delta
      frac == Min({asked, Frac * max_track(dsk)})
      active == m.iwm.active > 0
      ended == IF active THEN Call(m, "iwm_write_end", <<d, FALSE>>) ELSE m
      under == Beneath(ended.disk[d], disk_525(d), max_track(dsk), Qtr(frac))
      flushed == Call(ended, "iwm_flush_disk_to_unix", <<d>>)
      moved == IF Qtr(dsk.frac) # Qtr(frac) \/ ended.disk[d].cur = None
               THEN [flushed EXCEPT !.disk[d] = iwm_move_to_qtr_track(@, under)]
               ELSE ended
      there == [moved EXCEPT !.disk[d].frac = frac]
  IN IF active THEN Call(there, "iwm_start_write", <<d, m.iwm.wr[0].last, m.iwm.writeVal, TRUE>>) ELSE there

\* Begin a write on the quarter track under the head, or on one by it that has
\* bits; on a track without any, it is made first.  A write that begins soon
\* after where the last ended goes on with it.
iwm_start_write_act(m, d, pos, n, noPrior, delta) ==
  LET q == Qtr(m.disk[d].frac) + delta
      Bits(p) == IF p \in QtrTracks THEN m.disk[d].trk[p].bits ELSE 0
      useless == Bits(q) = 0 /\ (\/ delta \in {-2, 2}
                                 \/ delta = -1 /\ q > 0 /\ Bits(q - 1) = 0
                                 \/ delta = 1 /\ q < NumQtr - 1 /\ Bits(q + 1) = 0)
      bits == IF Bits(q) = 0 THEN iwm_get_default_track_bits(d, q) ELSE Bits(q)
      made == IF Bits(q) # 0 THEN m
              ELSE woz_set_reparse([m EXCEPT !.disk[d].trk[q] = FreshBits(bits)], d)
      at == pos % bits
      was == made.iwm.wr[n]
      diff == iwm_calc_bit_diff(at, was.last, bits)
      goesOn == ~noPrior /\ was.trk = q /\ diff < (IF m.host.fast THEN 32 ELSE 16)
      here == IF delta # 0 THEN made
              ELSE [made EXCEPT !.disk[d] = iwm_move_to_qtr_track([@ EXCEPT !.pos = at], q)]
  IN IF q \notin QtrTracks THEN [m |-> IF delta = 0 THEN halt_printf(m) ELSE m, num |-> n]
     ELSE IF (~disk_525(d) /\ delta # 0) \/ useless THEN [m |-> m, num |-> n]
     ELSE [m |-> [here EXCEPT !.iwm.wr[n] = [last |-> at, trk |-> q, bits |-> 0,
                                prior |-> IF goesOn THEN was.prior + was.bits + diff ELSE 0,
                                delta |-> IF delta < 0 THEN -delta ELSE delta]],
           num |-> n + 1]

iwm_start_write(m, d, pos, val, noPrior) ==
  LET Act(r, delta) == iwm_start_write_act(r.m, d, pos, r.num, noPrior, delta)
      all == FoldLeft(Act, [m |-> [m EXCEPT !.iwm.writeVal = val], num |-> 0], <<0, -1, 1, -2, 2>>)
  IN woz_maybe_reparse([all.m EXCEPT !.iwm.active = all.num], d)

\* As below, were the track marked and not the disk
iwm_write_one_nib_clean(m, d, bits) ==
  LET Out(r, i) ==
        LET w == r.iwm.wr[i]
        IN [r EXCEPT !.disk[d].trk[w.trk] = disk_nib_out_raw(@, r.iwm.writeVal, bits, w.last),
                     !.iwm.wr[i].last = (@ + bits) % r.disk[d].trk[w.trk].bits, !.iwm.wr[i].bits = @ + bits]
  IN FoldLeft(Out, m, [i \in 1..m.iwm.active |-> i - 1])
\* The nibble goes on each track; two quarters away it comes out wrong, and so
\* do the ones after that
iwm_write_one_nib(m, d, bits) ==
  LET Out(r, i) ==
        LET w == r.m.iwm.wr[i]
            trk == r.m.disk[d].trk[w.trk]
            val == IF w.delta = 2 THEN ((r.val % 128) ^^ i) ^^ 12 ELSE r.val
            written == IF trk.bits = 0 THEN halt_printf(r.m)
                       ELSE [r.m EXCEPT !.disk[d].trk[w.trk] = disk_nib_out_raw(trk, val, bits, w.last),
                                        !.disk[d].dirty = TRUE]
            last == IF trk.bits = 0 THEN w.last ELSE (w.last + bits) % trk.bits
        IN [m |-> [written EXCEPT !.iwm.wr[i].last = last, !.iwm.wr[i].bits = @ + bits], val |-> val]
  IN FoldLeft(Out, [m |-> m, val |-> m.iwm.writeVal], [i \in 1..m.iwm.active |-> i - 1]).m

\* The program may be late or early: the last nibble is as long as it took to
\* write the next.  The first write of a fast 5.25" drive is put as far after
\* what was read last as the program is thought to have been away.
iwm_fastemul_start_write(m, d) ==
  LET away == m.host.now - m.host.fastRead
      skip == IF away < 8 THEN 8 ELSE IF away > 32 THEN 32 ELSE away
  IN (m.disk[d].pos + skip) % m.disk[d].curBits
iwm_write_data(m, d, val) ==
  LET dsk == m.disk[d]
      first == disk_525(d) /\ ~m.host.slow
      pos == IF first /\ dsk.curBits > 0 /\ m.host.fast THEN iwm_fastemul_start_write(m, d)
             ELSE IF dsk.curBits > 0 THEN dsk.pos % dsk.curBits ELSE dsk.pos
      ready == [m EXCEPT !.host.slow = @ \/ disk_525(d), !.disk[d].pos = pos]
      late == iwm_calc_bit_diff(pos, m.iwm.wr[0].last, dsk.curBits)
      async == [iwm_write_one_nib(ready, d, 8) EXCEPT !.iwm.writeVal = val]
      timed == IF late >= 500 THEN iwm_write_one_nib(halt_printf(ready), d, 40)
               ELSE iwm_write_one_nib(ready, d, late)
  IN IF dsk.cur = None \/ dsk.prot # 0 THEN m
     ELSE IF m.iwm.active = 0 THEN Call(ready, "iwm_start_write", <<d, pos, val, FALSE>>)
     ELSE IF dsk.curBits = 0 THEN halt_printf(ready)
     ELSE IF BitOf(m.iwm.mode, 1) = 1 THEN [async EXCEPT !.disk[d].pos = async.iwm.wr[0].last]
     ELSE [timed EXCEPT !.iwm.writeVal = val]

\* A write as long as the track leaves nothing of the tracks beside it; of the
\* others, the marks are found again from three bytes before it
RECURSIVE EndWrites(_, _, _, _)
EndWrites(m, d, i, count) ==
  LET w == m.iwm.wr[i]
      trk == m.disk[d].trk[w.trk]
      full == w.bits + w.prior >= trk.bits
      removed == woz_set_reparse([m EXCEPT !.disk[d].trk[w.trk] = [@ EXCEPT !.bits = 0]], d)
      from == iwm_calc_bit_sum(w.last, -(w.bits % trk.bits) - 24, trk.bits)
      marked == [m EXCEPT !.disk[d].trk[w.trk] = iwm_recalc_sync_from(trk, from).trk,
                          !.iwm.wr[i].prior = IF full THEN 0 ELSE @]
  IN IF i = count THEN m
     ELSE IF w.bits = 0 THEN EndWrites(m, d, i + 1, count)
     ELSE IF full /\ w.delta # 0 THEN EndWrites(removed, d, i + 1, count)
     ELSE IF trk.bits = 0 THEN [m EXCEPT !.host.crashed = TRUE]
     ELSE EndWrites(marked, d, i + 1, count)
iwm_write_end(m, d, through) ==
  LET last == IF through THEN Call(m, "iwm_write_data", <<d, 0>>) ELSE m
  IN IF m.iwm.active = 0 THEN m
     ELSE woz_maybe_reparse([EndWrites(last, d, 0, m.iwm.active) EXCEPT !.iwm.active = 0], d)

-----------------------------------------------------------------------------
\* The 5.25" arm: two quarter tracks from one phase to the next, PhaseTicks away.
\* The phase of the nearest half track at or below holds it, those beside it
\* pull, and the one beyond does when the arm is nearly there.
HalfTrack == 2 * Frac
Below(frac) == HalfTrack * (frac \div HalfTrack)
Pulls(frac, phases) ==
  LET mine == (frac \div HalfTrack) % 4
      Near(i) == i # 3 \/ Below(frac) + HalfTrack - frac < 3 * Frac
  IN {i \in 0..3 : (mine + 3 + i) % 4 \in phases /\ Near(i)}
PulledTo(frac, i) ==
  LET to == Below(frac) + HalfTrack * (IF i = 3 THEN 1 ELSE i - 1) IN IF to < 0 THEN 0 ELSE to
iwm525_update_head(m, d) ==
  LET dsk == m.disk[d]
      pulls == Pulls(dsk.frac, dsk.phases)
      to == MapThenSumSet(LAMBDA i : PulledTo(dsk.frac, i), pulls) \div Cardinality(pulls)
      way == to - dsk.frac
      ticks == m.host.now - dsk.phasesAt
      passed == (HalfTrack * ticks) \div PhaseTicks
      late == /\ ~m.host.fast /\ dsk.phasesAt # 0
              /\ (IF way < 0 THEN -way ELSE way) * PhaseTicks > HalfTrack * ticks
      frac == IF pulls = {} THEN dsk.frac
              ELSE IF late THEN IF way > 0 THEN dsk.frac + passed ELSE dsk.frac - passed
              ELSE to
      timed == [m EXCEPT !.disk[d].phasesAt = IF pulls # {} /\ late THEN m.host.now ELSE 0]
  IN IF Qtr(frac) # Qtr(dsk.frac) THEN Call(timed, "iwm_move_to_ftrack", <<d, frac, 0>>)
     ELSE [timed EXCEPT !.disk[d].frac = frac]

iwm525_update_phases(m, d) ==
  LET dsk == m.disk[d]
      far == {(2 + (dsk.frac \div HalfTrack)) % 4}
      same == dsk.phases \ far = m.iwm.phases \ far
  IN IF same THEN [m EXCEPT !.disk[d].phases = m.iwm.phases]
     ELSE [iwm525_update_head(m, d) EXCEPT !.disk[d].phases = m.iwm.phases,
                                           !.disk[d].phasesAt = m.host.now]

-----------------------------------------------------------------------------
\* The user's and the 3.5" drive's own way to put a disk in and take it out

iwm_eject_disk(m, d) ==
  LET running == IF m.iwm.sel35 THEN m.iwm.motor35 ELSE m.iwm.motor
      saved == Call(IF running THEN halt_printf(m) ELSE m, "iwm_flush_disk_to_unix", <<d>>)
      dsk == saved.disk[d]
  IN IF ~m.disk[d].in THEN m
     ELSE [saved EXCEPT !.disk[d] =
             [iwm_init_drive EXCEPT !.name = dsk.name, !.kind = dsk.kind, !.frac = dsk.frac,
                !.cur = dsk.cur, !.ejected = TRUE, !.phases = dsk.phases,
                !.phasesAt = dsk.phasesAt, !.lastRead = dsk.lastRead]]

\* An image is in one drive at most.  A WOZ file whose checksum is wrong is
\* ejected again; one that cannot be written is locked for good.  A drive whose
\* file is missing stays empty, unlocked and with the track its head was at.
insert_disk(m, d, name) ==
  LET InOther(r, e) == IF r.disk[e].in /\ r.disk[e].name = name THEN Call(r, "iwm_eject_disk", <<e>>) ELSE r
      free == FoldLeft(InOther, Call(m, "iwm_eject_disk", <<d>>), <<"s5d1", "s6d1", "s5d2", "s6d2">>)
      image == Images[name]
      content == free.file[name]
      dsk == [free.disk[d] EXCEPT !.in = TRUE, !.name = name, !.kind = image.kind, !.cur = None,
                !.prot = IF image.readonly THEN 2 ELSE 0, !.through = TRUE, !.pos = 0, !.curBits = 0,
                !.dirty = FALSE]
      Made(q) == IF q \in StdTracks(d) THEN disk_unix_to_nib(dsk, d, q, content[q]) ELSE NoTrack
      filled == [dsk EXCEPT !.num = IF disk_525(d) THEN Std525 ELSE NumQtr,
                            !.trk = [q \in QtrTracks |-> Made(q)]]
      opened == IF image.kind = "woz" THEN woz_reopen(dsk, d, content) ELSE filled
      missing == [free EXCEPT !.disk[d] =
                    [@ EXCEPT !.name = name, !.kind = "none", !.prot = 0, !.through = TRUE]]
      loaded == woz_maybe_reparse([free EXCEPT !.disk[d] = opened], d)
  IN IF name \notin DOMAIN free.file THEN missing
     ELSE IF image.kind = "woz" /\ ~content.ok
     THEN Call([free EXCEPT !.disk[d] = [dsk EXCEPT !.woz = TRUE]], "iwm_eject_disk", <<d>>)
     ELSE Call(loaded, "iwm_move_to_ftrack", <<d, dsk.frac, 0>>)

woz_rewrite_lock(m, d) ==
  LET dsk == [m.disk[d] EXCEPT !.lock = m.disk[d].prot # 0]
      header == woz_rewrite_crc([m.file[dsk.name] EXCEPT !.lock = dsk.lock], dsk)
  IN [m EXCEPT !.disk[d] = dsk,
               !.file = IF m.host.failing THEN @ ELSE [@ EXCEPT ![dsk.name] = header]]
iwm_toggle_lock(m, d) ==
  LET dsk == m.disk[d]
      turned == [m EXCEPT !.disk[d].prot = IF dsk.prot = 0 THEN 1 ELSE 0]
  IN IF dsk.prot = 2 THEN m ELSE IF dsk.woz /\ dsk.through THEN woz_rewrite_lock(turned, d) ELSE turned

-----------------------------------------------------------------------------
\* The switches

\* A disk turns while the motor is on, except that fast emulation moves it only
\* as it is read; Nowhere is the position then
Nowhere(dsk) == 8 * dsk.curBits
Rotated(m) ==
  LET d == Selected(m)
      dsk == m.disk[d]
      passed == (m.host.now - dsk.lastRead) * (IF disk_525(d) THEN 1 ELSE 2)
      pos == IF dsk.curBits = 0 THEN dsk.pos + passed ELSE (dsk.pos + passed) % dsk.curBits
      turns == m.host.slow \/ m.iwm.q7 \/ ~m.host.fast \/ dsk.curBits = 0
  IN IF ~m.iwm.motor THEN [m |-> m, pos |-> Nowhere(dsk)]
     ELSE [m |-> [m EXCEPT !.disk[d].lastRead = m.host.now, !.disk[d].pos = IF turns THEN pos ELSE @],
           pos |-> IF turns THEN pos ELSE Nowhere(dsk)]

\* 3.5": the phases and a switch of $c031 address the drive's functions
stat35(m) == {i \in {1, 0, 2} : i \in m.iwm.phases} \union (IF m.iwm.ctrl THEN {7} ELSE {})
Side(m, up) == LET frac == m.disk[Drive35(m)].frac
                   low == HalfTrack * (frac \div HalfTrack)
               IN Call(m, "iwm_move_to_ftrack", <<Drive35(m), IF up THEN low + Frac ELSE low, 0>>)
iwm_do_action35(m) ==
  LET d == Drive35(m)
      at == stat35(m)
      frac == m.disk[d].frac
  IN CASE at = {} -> [m EXCEPT !.iwm.dir35 = FALSE]
       [] at = {2} -> [m EXCEPT !.iwm.dir35 = TRUE]
       [] at = {7, 2} -> [m EXCEPT !.disk[d].ejected = FALSE]
       [] at = {0} -> Call(m, "iwm_move_to_ftrack",
                           <<d, frac, IF m.iwm.dir35 THEN -HalfTrack ELSE HalfTrack>>)
       [] at = {1} -> [m EXCEPT !.iwm.motor35 = TRUE]
       [] at = {1, 2} -> [m EXCEPT !.iwm.motor35 = FALSE]
       [] at = {1, 0, 2} -> Call(m, "iwm_eject_disk", <<d>>)
       [] at \in {{7}, {0, 7, 2}, {1, 7, 2}} -> m
       [] OTHER -> halt_printf(m)
iwm_read_status35(m) ==
  LET d == Drive35(m)
      at == stat35(m)
      One(bool) == Told(m, IF bool THEN 1 ELSE 0)
      HeadBit(r) == Told(r, (r.disk[d].pos \div 64) % 2)
  IN IF ~m.iwm.motor THEN Told(m, 1)
     ELSE CASE at = {} -> One(m.iwm.dir35)
            [] at = {2} -> HeadBit(Side(m, FALSE))
            [] at = {7, 2} -> HeadBit(Side(m, TRUE))
            [] at = {7} -> One(m.disk[d].num <= 0)
            [] at = {0, 7} -> One(m.disk[d].prot = 0)
            [] at \in {{1}, {1, 7, 2}} -> One(~m.iwm.motor35)
            [] at = {1, 7} -> One(m.disk[d].frac # 0)
            [] at = {1, 0} -> One(m.disk[d].ejected)
            [] at = {1, 0, 7} -> Told(halt_printf(m), (m.disk[d].pos \div 4) % 2)
            [] at = {1, 0, 7, 2} -> One(m.iwm.drive # 0)
            [] at \in {{0}, {0, 2}, {1, 2}, {1, 0, 2}} -> Told(m, 1)
            [] OTHER -> Told(halt_printf(m), 1)

TouchPhase(m, d, loc) ==
  LET phase == loc \div 2
      on == loc % 2 = 1
      set == [m EXCEPT !.iwm.phases = IF on THEN @ \union {phase} ELSE @ \ {phase}]
      acted == IF ~m.iwm.motor THEN set
               ELSE IF ~m.iwm.sel35 THEN iwm525_update_phases(set, d)
               ELSE IF phase = 3 /\ on THEN iwm_do_action35(set) ELSE set
  IN [acted EXCEPT !.iwm.enable2 = {1, 3} \subseteq set.iwm.phases]

\* The motor stops at once, or MotorVbls later unless it is turned on before
MotorOff(m) ==
  LET atOnce == BitOf(m.iwm.mode, 2) = 1
      set == IF atOnce THEN [m EXCEPT !.iwm.motor = FALSE, !.iwm.off = FALSE]
             ELSE IF m.iwm.motor /\ ~m.iwm.off THEN [m EXCEPT !.iwm.off = TRUE, !.iwm.left = MotorVbls]
             ELSE m
      saved == IF m.host.motor \/ m.host.slow
               THEN iwm_flush_cur_disk([set EXCEPT !.host.fast = m.host.fastEn]) ELSE set
  IN [saved EXCEPT !.host.motor = FALSE, !.host.slow = FALSE]
MotorOn(m, d) ==
  [m EXCEPT !.iwm.motor = TRUE, !.iwm.off = FALSE, !.disk[d].lastRead = m.host.now,
            !.host.fast = @ /\ (m.host.motor \/ ~m.disk[d].woz), !.host.motor = TRUE]
DriveSelect(m, n) ==
  LET set == [(IF n # m.iwm.drive THEN iwm_flush_cur_disk(m) ELSE m) EXCEPT !.iwm.drive = n]
  IN [set EXCEPT !.host.fast = m.host.fastEn /\ ~(set.disk[Selected(set)].woz /\ m.host.motor)]
\* Reading begins anew where the disk is, a bit before when the latch is on
TouchQ6(m, on, pos, bits) ==
  LET sync == iwm_calc_bit_sum(pos, -BitOf(m.iwm.mode, 0), bits)
      resync == m.iwm.q6 /\ ~m.iwm.q7 /\ m.iwm.motor /\ ~m.iwm.enable2 /\ ~on
  IN [m EXCEPT !.iwm.q6 = on, !.iwm.forced = IF resync THEN sync ELSE @,
               !.iwm.lastRd = IF resync THEN sync ELSE @]
\* As below, were a write not ended
TouchQ7_forgets(m, d, on) == [m EXCEPT !.iwm.q7 = on]
TouchQ7(m, d, on) ==
  [(IF m.iwm.q7 /\ m.iwm.motor /\ ~m.iwm.enable2 /\ ~on THEN Call(m, "iwm_write_end", <<d, TRUE>>) ELSE m)
     EXCEPT !.iwm.q7 = on]

iwm_touch_switches(m, loc) ==
  LET d == Selected(m)
      bits == m.disk[d].curBits
      on == loc % 2 = 1
      Then(set) == IF set.iwm.q7 THEN set ELSE [set EXCEPT !.iwm.active = 0, !.host.slow = FALSE]
      Switched(here, pos) ==
        Then(CASE loc < 8 -> TouchPhase(here, d, loc)
               [] loc = 8 -> MotorOff(here)
               [] loc = 9 -> MotorOn(here, d)
               [] loc \in {10, 11} -> DriveSelect(here, loc - 10)
               [] loc \in {12, 13} -> TouchQ6(here, on, pos, bits)
               [] OTHER -> TouchQ7(here, d, on))
      After(r) == Switched(IF r.m.disk[d].phasesAt # 0 THEN iwm525_update_head(r.m, d) ELSE r.m, r.pos)
  IN After(Rotated(m))

-----------------------------------------------------------------------------
\* Reading and writing the registers

\* The nibbles that end in the last bits read.  Runs of zeros read as noise,
\* and reading then begins anew, as it does after the latch was let go.
Window(m, dsk) ==
  LET known == m.iwm.forced < dsk.curBits
      back == Min({63, iwm_calc_bit_diff(dsk.pos, m.iwm.forced, dsk.curBits)})
      wanted == iwm_calc_bit_diff(dsk.pos, m.iwm.lastRd, dsk.curBits) + 10
      count == Max({25, Min({60, wanted})})
      Anew(old, zeros, ones, syncs) ==
        [ones |-> ones, syncs |-> syncs,
         forced |-> IF old[1] = syncs[1] /\ zeros = {} THEN Cleared
                    ELSE iwm_calc_bit_sum(dsk.pos, -(syncs[1] % 16), dsk.curBits)]
      From(raw, zeros, ones, from) ==
        IF from < 0 THEN [ones |-> ones, syncs |-> raw.syncs, forced |-> m.iwm.forced]
        ELSE Anew(raw.syncs, zeros, ones \intersect (0..from), iwm_calc_forced_sync(ones, from))
      Noisy(raw, zeros, bits) ==
        From(raw, zeros, IF m.host.junk THEN raw.ones \union zeros ELSE raw.ones,
             IF known THEN back ELSE IF zeros = {} THEN -1 ELSE iwm_calc_forced_sync_0s(raw.syncs, bits))
      Raw(raw, bits) == Noisy(raw, ZeroRuns(raw.ones, bits), bits)
      Of(bits) == Raw(iwm_get_raw_bits(dsk.trk[dsk.cur], dsk.pos, bits), bits)
  IN Of(IF known /\ back > count THEN back ELSE count)

\* Bit 0 of the window is not read yet; msb is a nibble's first bit
ValueAt(ones, msb) ==
  IF msb < 8 THEN ByteAt(ones \intersect (0..msb), 1)
  ELSE IF msb < 63 THEN ByteAt(ones, msb - 7) ELSE ByteAt(ones, 1)
\* As below, were a nibble gone when the next one's first bit comes
NibbleRead_new(latch, held, since, new, old) ==
  IF held THEN old ELSE IF latch /\ since <= new THEN 1 ELSE new
\* Which nibble of the window is read, by its first bit: with the latch, the one
\* before until it has been read, and none until the new one is there
NibbleRead(latch, held, since, new, old) ==
  IF held THEN old
  ELSE IF latch THEN IF since <= new THEN 1 ELSE new
  ELSE IF new <= 1 THEN old ELSE new
iwm_read_data(m, d) ==
  LET dsk == m.disk[d]
      since == iwm_calc_bit_diff(dsk.pos, m.iwm.lastRd, dsk.curBits) + 8
      latch == BitOf(m.iwm.mode, 0) = 1
      Latched(w, held, new, old) ==
        Told([m EXCEPT !.iwm.forced = w.forced,
                !.iwm.lastRd = IF held THEN iwm_calc_bit_sum(dsk.pos, 8 - old, dsk.curBits) ELSE dsk.pos],
             ValueAt(w.ones, NibbleRead(latch, held, since, new, old)))
      Slow(w, new, old) == Latched(w, latch /\ old >= 8 /\ since > old, new, old)
      Slowly(w) == Slow(w, SyncNo(w.syncs, 1), SyncNo(w.syncs, 2))
      Fast(r) == Told([m EXCEPT !.disk[d].pos = r.pos, !.host.fastRead = m.host.now], r.val)
  IN IF dsk.curBits = 0 \/ dsk.cur = None THEN Told(m, ((25 * dsk.pos) \div 4) % 256)
     ELSE IF m.host.fast THEN Fast(iwm_read_data_fast(dsk.trk[dsk.cur], dsk.pos, FALSE, m.host.motor))
     ELSE Slowly(Window(m, dsk))

Status(m) ==
  LET told == IF m.iwm.enable2 THEN Told(m, 1)
              ELSE IF m.iwm.sel35 THEN iwm_read_status35(m)
              ELSE Told(m, m.disk[Selected(m)].prot)
  IN Told(told, 128 * (told.host.out % 2) + (IF m.iwm.motor THEN 32 ELSE 0) + m.iwm.mode)
Handshake(m) ==
  LET dsk == m.disk[Selected(m)]
      n == IF m.host.handshakes = 3 THEN 0 ELSE m.host.handshakes + 1
      underrun == iwm_calc_bit_diff(dsk.pos, m.iwm.wr[0].last, dsk.curBits) > 8
  IN IF m.iwm.enable2 THEN [Told(m, IF n = 0 THEN 128 ELSE 192) EXCEPT !.host.handshakes = n]
     ELSE Told(m, IF underrun THEN 128 ELSE 192)
read_iwm(m, loc) ==
  LET Then(t) ==
        CASE loc % 2 = 1 -> Told(t, 0)
          [] loc % 2 = 0 /\ t.iwm.q7 /\ t.iwm.q6 -> Told(t, 0)
          [] loc % 2 = 0 /\ t.iwm.q7 /\ ~t.iwm.q6 -> Handshake(t)
          [] loc % 2 = 0 /\ ~t.iwm.q7 /\ t.iwm.q6 -> Status(t)
          [] OTHER -> IF t.iwm.enable2 \/ ~t.iwm.motor THEN Told(t, 255) ELSE iwm_read_data(t, Selected(t))
  IN Then(Call(m, "iwm_touch_switches", <<loc>>))

write_iwm(m, loc, val) ==
  LET Then(t) == IF loc % 2 = 0 \/ ~t.iwm.q7 \/ ~t.iwm.q6 THEN t
                 ELSE IF ~t.iwm.motor THEN [t EXCEPT !.iwm.mode = val % 32]
                 ELSE IF t.iwm.enable2 THEN t ELSE Call(t, "iwm_write_data", <<Selected(t), val>>)
  IN Then(Call(m, "iwm_touch_switches", <<loc>>))

\* $c031: the drive selected may change
WriteC031(m, sel, ctrl) == [iwm_flush_cur_disk(m) EXCEPT !.iwm.sel35 = sel, !.iwm.ctrl = ctrl]

iwm_vbl_update(m) ==
  LET left == IF m.iwm.left > 0 THEN m.iwm.left - 1 ELSE 0
  IN IF ~(m.iwm.motor /\ m.iwm.off) THEN m
     ELSE IF left > 0 THEN [m EXCEPT !.iwm.left = left]
     ELSE [iwm_flush_cur_disk(m) EXCEPT !.iwm.motor = FALSE, !.iwm.off = FALSE, !.iwm.left = 0,
             !.disk["s6d1"].phasesAt = 0, !.disk["s6d2"].phasesAt = 0]
iwm_reset(m) == [m EXCEPT !.iwm = iwm_reset_state, !.host.motor = FALSE]

-----------------------------------------------------------------------------
\* The program that uses the drives: a sequence of steps nothing interrupts, each
\* of accesses with the time t before them.  Beside a single access there are the
\* loops such programs are made of: reading until a nibble has come, looking for
\* a sector's header, and writing nibbles at a steady pace.

Later(m, t) == [m EXCEPT !.host.now = @ + t]
RECURSIVE NextNibble(_, _, _)
NextNibble(m, t, tries) ==
  LET Then(r) == IF r.host.out >= 128 \/ tries = 0 THEN r ELSE NextNibble(r, t, tries - 1)
  IN Then(Call(Later(m, t), "read_iwm", <<12>>))
RECURSIVE Nibbles(_, _, _, _)
Nibbles(m, t, count, vals) ==
  IF count = 0 \/ m.host.crashed THEN [m |-> m, vals |-> vals]
  ELSE LET Then(r) == Nibbles(r, t, count - 1, Append(vals, r.host.out)) IN Then(NextNibble(m, t, 20))

\* header holds the nibbles after the prologue by which a sector is known
RECURSIVE FindHeader(_, _, _, _, _)
FindHeader(m, t, header, last, tries) ==
  LET Id(r) == IF r.vals # header THEN FindHeader(r.m, t, header, <<0, 0, 0>>, tries - 1)
               ELSE Nibbles(r.m, t, 2, <<>>).m
      Then(r, now) == IF now # <<213, 170, 150>> THEN FindHeader(r, t, header, now, tries - 1)
                      ELSE Id(Nibbles(r, t, Len(header), <<>>))
      Nibble(r) == Then(r, <<last[2], last[3], r.host.out>>)
  IN IF tries = 0 THEN [m EXCEPT !.guest.lost = TRUE] ELSE Nibble(NextNibble(m, t, 20))
RECURSIVE WriteNibbles(_, _, _)
WriteNibbles(m, t, vals) ==
  IF vals = <<>> \/ m.host.crashed THEN m
  ELSE WriteNibbles(Call(Call(Later(m, t), "write_iwm", <<13, vals[1]>>), "read_iwm", <<12>>), t, Tail(vals))

\* An access is <<kind, time, what it takes>>
Access(m, a) ==
  LET Heard(r) == [r.m EXCEPT !.guest.heard = @ \o r.vals]
      Then(r) == CASE a[1] = "read" -> Call(r, "read_iwm", <<a[3]>>)
                   [] a[1] = "write" -> Call(r, "write_iwm", <<a[3], a[4]>>)
                   [] a[1] = "c031" -> WriteC031(r, a[3], a[4])
                   [] a[1] = "listen" -> Heard(Nibbles(m, a[2], a[3], <<>>))
                   [] a[1] = "find" -> FindHeader(m, a[2], a[3], <<0, 0, 0>>, 140)
                   [] OTHER -> WriteNibbles(m, a[2], a[3])
  IN Then(Later(m, a[2]))
RECURSIVE Accesses(_, _)
Accesses(m, accesses) ==
  IF accesses = <<>> \/ m.host.crashed THEN m
  ELSE Accesses(Call(m, "access", Head(accesses)), Tail(accesses))

Call(m, name, a) ==
  CASE name = "woz_reparse_woz" -> woz_reparse_woz(m, a[1])
    [] name = "iwm_flush_disk_to_unix" -> iwm_flush_disk_to_unix(m, a[1])
    [] name = "iwm_move_to_ftrack" -> iwm_move_to_ftrack(m, a[1], a[2], a[3])
    [] name = "iwm_start_write" -> iwm_start_write(m, a[1], a[2], a[3], a[4])
    [] name = "iwm_write_data" -> iwm_write_data(m, a[1], a[2])
    [] name = "iwm_write_end" -> iwm_write_end(m, a[1], a[2])
    [] name = "iwm_eject_disk" -> iwm_eject_disk(m, a[1])
    [] name = "iwm_touch_switches" -> iwm_touch_switches(m, a[1])
    [] name = "read_iwm" -> read_iwm(m, a[1])
    [] name = "write_iwm" -> write_iwm(m, a[1], a[2])
    [] name = "insert_disk" -> insert_disk(m, a[1], a[2])
    [] OTHER -> Access(m, a)

-----------------------------------------------------------------------------
\* One step of anyone

Become(m) ==
  /\ iwm' = m.iwm
  /\ disk' = m.disk
  /\ file' = m.file
  /\ host' = [m.host EXCEPT !.junk = FALSE, !.out = 0]
  /\ guest' = m.guest
Running == ~host.crashed

Steps == guest.program.steps
ProgramStep ==
  /\ Running
  /\ guest.pc <= Len(Steps)
  /\ \E junk \in BOOLEAN :
       LET m == Accesses([Machine EXCEPT !.host.junk = junk], Steps[guest.pc])
       IN Become([m EXCEPT !.guest.pc = IF m.guest.lost THEN Len(Steps) + 1 ELSE @ + 1])
Vbl ==
  /\ Running
  /\ iwm.motor /\ iwm.off
  /\ \E junk \in BOOLEAN : Become(iwm_vbl_update([Machine EXCEPT !.host.junk = junk]))

\* What the user does, at the panel or with the reset key, and what the host does;
\* each counts as a fault of the program's run
Fault(kind, m) ==
  /\ Running
  /\ kind \notin host.faults /\ Cardinality(host.faults) < Faults
  /\ Become([m EXCEPT !.host.faults = @ \union {kind}])
Ejects == \E d \in Drives : disk[d].in /\ Fault("ejects", Call(Machine, "iwm_eject_disk", <<d>>))
Inserts == \E d \in Drives, name \in guest.program.spare :
             /\ iwm.active = 0
             /\ disk_525(d) = Images[name].is525
             /\ Fault("inserts", Call(Machine, "insert_disk", <<d, name>>))
Locks == \E d \in Drives : disk[d].in /\ Fault("locks", iwm_toggle_lock(Machine, d))
TurnsFast == Fault("fast", [Machine EXCEPT !.host.fastEn = ~@,
                                           !.host.fast = IF host.motor THEN @ ELSE ~host.fastEn])
Resets ==
  /\ guest.pc <= Len(Steps)
  /\ Fault("resets", [iwm_reset(Machine) EXCEPT !.guest.pc = Len(Steps) + 1,
                                                 !.guest.cut = iwm.active > 0])
HostFails == Fault("failing", [Machine EXCEPT !.host.failing = TRUE])
Next == \/ ProgramStep \/ Vbl \/ Ejects \/ Inserts \/ Locks \/ TurnsFast \/ Resets \/ HostFails

Blank(program) ==
  [iwm |-> iwm_reset_state, disk |-> [d \in Drives |-> iwm_init_drive], file |-> program.files,
   host |-> [fast |-> program.fast, fastEn |-> program.fast, slow |-> FALSE, motor |-> FALSE,
             now |-> 1, fastRead |-> 0, out |-> 0, handshakes |-> 0, halted |-> FALSE,
             crashed |-> FALSE, failing |-> FALSE, junk |-> FALSE, faults |-> {}],
   guest |-> [program |-> program, pc |-> 1, heard |-> <<>>, lost |-> FALSE, cut |-> FALSE]]
Loaded(program) ==
  LET Put(m, d) == IF d \in DOMAIN program.disks THEN Call(m, "insert_disk", <<d, program.disks[d]>>) ELSE m
  IN FoldLeft(Put, Blank(program), <<"s6d1", "s6d2", "s5d1", "s5d2">>)
Init == \E m \in {Loaded(program) : program \in Programs} :
          /\ iwm = m.iwm
          /\ disk = m.disk
          /\ file = m.file
          /\ host = m.host
          /\ guest = m.guest
Spec == Init /\ [][Next]_vars

-----------------------------------------------------------------------------
\* What must hold

TypeOK ==
  /\ iwm.drive \in {0, 1} /\ iwm.left \in 0..MotorVbls /\ iwm.active \in 0..5 /\ iwm.mode \in 0..31
  /\ iwm.writeVal \in 0..255 /\ \A i \in 0..4 : iwm.wr[i].trk \in QtrTracks /\ iwm.wr[i].delta \in 0..2
  /\ \A d \in Drives :
       /\ disk[d].cur \in QtrTracks \union {None} /\ disk[d].prot \in 0..2
       /\ disk[d].curBits > 0 => disk[d].pos \in 0..(disk[d].curBits - 1)
       /\ \A q \in QtrTracks : DOMAIN disk[d].trk[q].raw = 0..(disk[d].trk[q].bits - 1)

\* Between writes, the marks of a track say how its bits divide into nibbles:
\* from each, the next is at the first one bit after the nibble's eight.  A
\* write changes bits anywhere on the ring, over several tracks at once, and
\* may be cut in two by the arm; iwm_write_end has to find the marks again
\* from a place it works out.  Only a reset may leave a write unfinished.
RECURSIVE FirstOne(_, _)
FirstOne(trk, p) == IF trk.raw[p % trk.bits] = 1 THEN p ELSE FirstOne(trk, p + 1)
Marks(trk) == {p \in DOMAIN trk.raw : Begins(trk, p)}
Linked(trk, marks) ==
  \A p \in marks : LET next == FirstOne(trk, p + 8)
                   IN /\ next % trk.bits \in marks
                      /\ \A q \in (p + 1)..(next - 1) : q % trk.bits \notin marks
SyncChained ==
  iwm.active = 0 /\ ~guest.cut =>
    \A d \in Drives, q \in QtrTracks :
      LET trk == disk[d].trk[q]
          marks == Marks(trk)
      IN trk.bits # 0 => marks # {} /\ Linked(trk, marks)

\* A track that is not dirty is as the image file has it, unless the emulator
\* has stopped to tell the user that it could not be written.  Once no track of
\* a WOZ image is dirty its file has the right checksum; while some are, a
\* toggled lock leaves the checksum of bits that are not in the file yet.
OnFile(d, q) ==
  LET dsk == disk[d]
      saved == file[dsk.name]
  IN IF dsk.woz THEN saved.slots[dsk.trk[q].at + 1] = RawBits(dsk.trk[q])
     ELSE dsk.kind # "nib" => iwm_denib(dsk, d, q).sectors = saved[q]
Unsaved(dsk) == {q \in QtrTracks : dsk.trk[q].bits # 0 /\ dsk.trk[q].dirty}
CleanMeansSaved ==
  ~host.halted =>
    \A d \in Drives : disk[d].in /\ disk[d].through =>
      /\ \A q \in QtrTracks \ Unsaved(disk[d]) : disk[d].trk[q].bits # 0 => OnFile(d, q)
      /\ disk[d].woz /\ Unsaved(disk[d]) = {} => file[disk[d].name].ok

\* A sector of an image file is what it was or all that a program wrote to it,
\* whatever the user, the reset key and the host do
Wrote(name, q, log) ==
  {w.bytes : w \in {v \in guest.program.saves :
                      (v.name = name \/ "inserts" \in host.faults) /\ v.q = q /\ v.log = log}}
NoTornSector ==
  \A name \in DOMAIN file : Images[name].kind \in {"dos33", "prodos"} =>
    \A q \in DOMAIN file[name] : \A log \in DOMAIN file[name][q] :
      file[name][q][log] \in {guest.program.files[name][q][log]} \union Wrote(name, q, log)

\* What a program wrote is in the file once the motor has stopped, unless the
\* user was told, the disk was locked or the machine was reset
SectorsOf(name, q) ==
  IF Images[name].kind # "woz" THEN file[name][q]
  ELSE LET trk == woz_add_track(file[name].slots[file[name].tmap[q] + 1], 0)
       IN iwm_denib_track525(trk, q, PhysToDos).sectors
SavedWhenStopped ==
  guest.pc > Len(Steps) /\ ~guest.lost /\ ~iwm.motor /\ ~host.halted
  /\ host.faults \intersect {"locks", "resets"} = {} =>
    \A w \in guest.program.saves : SectorsOf(w.name, w.q)[w.log] = w.bytes

\* A WOZ image read again gives under the head the bits that were read there,
\* though its tracks may have moved to other quarters
WozReread ==
  \A d \in Drives :
    LET dsk == disk[d]
        again == woz_reopen([iwm_init_drive EXCEPT !.in = TRUE], d, WozImage(dsk))
        Under(e, q) == RawBits(e.trk[Beneath(e, disk_525(d), max_track(dsk), q)])
    IN dsk.in /\ dsk.woz /\ ~dsk.reparse /\ ~dsk.dirty =>
         \A q \in 0..max_track(dsk) : Under(dsk, q) \in {<<>>, Under(again, q)}

\* A program that polls the register at its own pace is given each nibble of the
\* track, in order and none twice; but where the latch does not hold a nibble
\* until it is read, one longer than the others may be given again
NibbleAt(trk, p) == SumSet({2^(7 - i) : i \in {j \in 0..7 : trk.raw[(p + j) % trk.bits] = 1}})
RECURSIVE NibblesFrom(_, _, _)
NibblesFrom(trk, p, count) ==
  IF count = 0 THEN <<>>
  ELSE <<NibbleAt(trk, p)>> \o NibblesFrom(trk, FirstOne(trk, p + 8) % trk.bits, count - 1)
Distinct(nibs) == IF BitOf(iwm.mode, 0) = 1 THEN nibs ELSE SelectSeq(nibs, LAMBDA n : n # 255)
EveryNibbleRead ==
  guest.heard # <<>> /\ "inserts" \notin host.faults =>
    LET dsk == disk[guest.program.listens]
        trk == dsk.trk[dsk.cur]
    IN dsk.in => \E p \in Marks(trk) :
                   IsPrefix(Distinct(guest.heard), Distinct(NibblesFrom(trk, p, Len(guest.heard))))
==============================================================================
