------------------------------- MODULE DiskTrack -------------------------------
(* A track as the IWM code keeps it: a ring of bits, and for each byte of the *)
(* ring where in it a nibble begins.  Bits are written over the ring from any *)
(* position; the nibbles' beginnings are found again from there; and the read *)
(* head sees the ring through a window that ends at its position.             *)
(* A position counts whole bits: the 512ths of a bit that cur_fbit_pos also   *)
(* counts are left out.                                                       *)
EXTENDS Integers, Sequences, FiniteSets, FiniteSetsExt, SequencesExt, Bitwise

BitOf(value, i) == (value \div 2^i) % 2

\* A track without bits is one the disk does not have.  sync holds 7 less the
\* first nibble's offset, NoSync where a byte begins none, Unsure where bits
\* were written since.  len is 0 for a track the image file does not have yet;
\* at is its place in the file.
NoSync == 32
Unsure == 255
NoTrack == [bits |-> 0, raw |-> <<>>, sync |-> <<>>, dirty |-> FALSE, at |-> 0, len |-> 0]
LastByte(bits) == (bits - 1) \div 8
LastBits(bits) == ((bits - 1) % 8) + 1
Track(bits, raw) ==
  [NoTrack EXCEPT !.bits = bits, !.raw = raw,
                  !.sync = [b \in 0..LastByte(bits) |-> Unsure]]

-----------------------------------------------------------------------------
\* Positions on the ring

iwm_calc_bit_diff(first, last, bits) ==
  LET val == first - last IN IF val < 0 \/ val >= bits THEN val + bits ELSE val

iwm_calc_bit_sum(pos, add, bits) ==
  LET val == pos + add
  IN IF val \in 0..(bits - 1) THEN val ELSE IF add < 0 THEN val + bits ELSE val - bits

-----------------------------------------------------------------------------
\* Writing

\* Bits from value's top down, then zeros; every byte touched loses its mark
disk_nib_out_raw(trk, value, count, pos) ==
  LET dist == [p \in DOMAIN trk.raw |-> (p - pos) % trk.bits]
      BitAt(i) == IF i < 8 THEN BitOf(value, 7 - i) ELSE 0
      touched == {((pos + i) % trk.bits) \div 8 : i \in 0..(count - 1)}
  IN [trk EXCEPT !.raw = [p \in DOMAIN @ |-> IF dist[p] < count THEN BitAt(dist[p]) ELSE @[p]],
                 !.sync = [b \in DOMAIN @ |-> IF b \in touched THEN Unsure ELSE @[b]],
                 !.dirty = TRUE]

\* From byte p on, where a nibble begins at bit or after it: mark each nibble's
\* first bit until seven marks in a row are what they were.  A ring gone round
\* three times has no stable marks.
RECURSIVE SyncFrom(_, _, _, _, _)
SyncFrom(trk, p, bit, match, wrap) ==
  LET atEnd == p >= LastByte(trk.bits)
      width == IF atEnd THEN LastBits(trk.bits) ELSE 8
      laps == IF atEnd THEN wrap + 1 ELSE wrap
      next == IF atEnd THEN 0 ELSE p + 1
      cleared == [trk EXCEPT !.sync[p] = NoSync]
      ones == {b \in bit..(width - 1) : trk.raw[8 * p + b] = 1}
      first == Min(ones)
      marked == [trk EXCEPT !.sync[p] = 7 - first]
  IN CASE atEnd /\ laps >= 3 -> [trk |-> cleared, stable |-> FALSE]
       [] atEnd /\ laps < 3 /\ bit >= width -> SyncFrom(cleared, 0, bit - width, match, laps)
       [] ~(atEnd /\ (laps >= 3 \/ bit >= width)) /\ ones = {} -> SyncFrom(cleared, next, 0, match, laps)
       [] OTHER -> IF trk.sync[p] # 7 - first
                   THEN SyncFrom(marked, next, (first + 8 - width) % 8, 0, laps)
                   ELSE IF match = 6 THEN [trk |-> marked, stable |-> TRUE]
                   ELSE SyncFrom(marked, next, (first + 8 - width) % 8, match + 1, laps)

\* pos is three bytes before what was written: its byte, or the one before, has
\* a mark to start from
iwm_recalc_sync_from(trk, pos) ==
  LET byte == pos \div 8
      from == IF trk.sync[byte] < 8 THEN byte ELSE IF byte > 0 THEN byte - 1 ELSE 1
  IN SyncFrom(trk, from, (7 - trk.sync[from]) % 8, 0, 0)

-----------------------------------------------------------------------------
\* Reading

\* The bits ending at pos, at least count of them and whole bytes: how many,
\* which are ones (0 is the bit at pos), and how far back nibbles begin.  A
\* nibble that begins at pos itself is not told, nor one as far back as the first.
RawLength(bits, pos, count) ==
  IF pos - count + 1 >= 0 THEN pos + 1 - 8 * ((pos - count + 1) \div 8)
  ELSE (pos + 1) + bits - 8 * ((bits + pos + 1 - count) \div 8)
Begins(trk, p) == trk.sync[p \div 8] = 7 - (p % 8)
RECURSIVE Listed(_, _)
Listed(found, syncs) ==
  IF found = {} \/ Len(syncs) = 8 THEN syncs
  ELSE LET k == Min(found)
           first == IF syncs = <<>> THEN 0 ELSE syncs[1]
       IN Listed(found \ {k}, IF k # first THEN Append(syncs, k) ELSE syncs)
iwm_get_raw_bits(trk, pos, count) ==
  LET window == 0..(RawLength(trk.bits, pos, count) - 1)
      At(k) == (pos - k) % trk.bits
      syncs == Listed({k \in window : Begins(trk, At(k))}, <<>>)
  IN [ones |-> {k \in window : trk.raw[At(k)] = 1},
      syncs |-> IF syncs = <<>> THEN <<255>> ELSE syncs]
SyncNo(syncs, i) == IF i <= Len(syncs) THEN syncs[i] ELSE 0

\* Eight bits of the window, the lowest at k
ByteAt(ones, k) == SumSet({2^i : i \in {j \in 0..7 : k + j \in ones}})

\* The next nibble after pos, as the fast emulation finds it.  Unless a track is
\* being decoded, a nibble that does not begin where the last ended is first
\* given without its top bit, and one read with the motor off is not moved past.
FirstBit(syncs) ==
  LET second == SyncNo(syncs, 2)
  IN IF second \in 1..15 THEN second ELSE IF syncs[1] > 15 THEN 8 ELSE syncs[1]
NibbleOf(trk, ahead, ones, msb, decoding, motor) ==
  LET held == IF ~motor /\ msb = 15 /\ ~decoding THEN 1 ELSE 0
      slid == msb # 15 /\ ~decoding
  IN [val |-> ByteAt(ones, msb - 7) % (IF slid THEN 128 ELSE 256),
      pos |-> iwm_calc_bit_sum(ahead, 8 - msb - held - (IF slid THEN 8 ELSE 0), trk.bits)]
NibbleIn(trk, ahead, w, decoding, motor) ==
  NibbleOf(trk, ahead, w.ones, Max({7, FirstBit(w.syncs)}), decoding, motor)
NibbleBefore(trk, ahead, decoding, motor) ==
  NibbleIn(trk, ahead, iwm_get_raw_bits(trk, ahead, 16), decoding, motor)
iwm_read_data_fast(trk, pos, decoding, motor) ==
  NibbleBefore(trk, iwm_calc_bit_sum(pos, 15, trk.bits), decoding, motor)

\* Nibbles where the latch was told to begin anew at bit k: the marks below it,
\* the lowest first
RECURSIVE ForcedFrom(_, _, _)
ForcedFrom(ones, k, syncs) ==
  IF k < 0 THEN syncs
  ELSE IF k \in ones THEN ForcedFrom(ones, k - 8, <<k>> \o syncs) ELSE ForcedFrom(ones, k - 1, syncs)
iwm_calc_forced_sync(ones, k) == ForcedFrom(ones \union {k}, k, <<30>>)

\* Where to begin anew once a run of zeros has been read: the oldest mark of the
\* window, brought back into it
RECURSIVE OldestSync(_, _, _, _)
OldestSync(syncs, i, bits, forced) ==
  LET sync == SyncNo(syncs, i)
      over == IF sync > bits THEN (sync - bits + 7) \div 8 ELSE 0
      back == sync - 8 * over
      kept == IF back < bits THEN back ELSE forced
  IN IF i > 8 THEN forced ELSE IF sync = 255 THEN bits
     ELSE IF back < forced THEN forced
     ELSE IF over > 0 THEN kept ELSE OldestSync(syncs, i + 1, bits, kept)
iwm_calc_forced_sync_0s(syncs, bits) ==
  IF bits <= 8 THEN bits ELSE OldestSync(IF syncs[1] <= 7 THEN Tail(syncs) ELSE syncs, 1, bits, 8)

\* The fourth and later zeros of a run, where the head reads noise
ZeroRuns(ones, bits) ==
  {i \in 0..(bits - 1) : \A j \in i..(i + 3) : j # bits /\ j \notin ones}
===============================================================================
