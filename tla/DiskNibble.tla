------------------------------ MODULE DiskNibble -------------------------------
(* The two encodings of a disk image's sectors as nibbles on a track, and how *)
(* a track is decoded again to be written to the image: 16 sectors of 256     *)
(* bytes in "6 and 2" nibbles on a 5.25" disk, 512-byte sectors in groups of  *)
(* three bytes on a 3.5" disk.  The sizes are constants; a sector of a 5.25"  *)
(* disk has 3 * Aux - 2 bytes, of a 3.5" disk 3 * Rows - 1.                   *)
EXTENDS DiskTrack

CONSTANTS Sectors525, Aux, PhysToDos, PhysToProdos,   \* 16, 86, and the tables
          Sectors35, Rows, TagRows,                   \* 8 to 12, 171 and 4
          FirstGap525, Gap525, DataGap525,            \* 70, 22 and 7 sync nibbles
          FirstGap35, Gap35, DataGap35                \* 400, 54 and 5

SectorBytes525 == 3 * Aux - 2
SectorBytes35 == 3 * Rows - 1
NIBS_FROM_ADDR_TO_DATA == 28

to_disk_byte ==
  <<150, 151, 154, 155, 157, 158, 159, 166, 167, 171, 172, 173, 174, 175, 178, 179,
    180, 181, 182, 183, 185, 186, 187, 188, 189, 190, 191, 203, 205, 206, 207, 211,
    214, 215, 217, 218, 219, 220, 221, 222, 223, 229, 230, 231, 233, 234, 235, 236,
    237, 238, 239, 242, 243, 244, 245, 246, 247, 249, 250, 251, 252, 253, 254, 255>>
ToDisk(six) == to_disk_byte[six + 1]
FromDiskTable == [nib \in 0..255 |-> IF \E i \in 1..64 : to_disk_byte[i] = nib
                                     THEN (CHOOSE i \in 1..64 : to_disk_byte[i] = nib) - 1
                                     ELSE 256 + nib]
g_from_disk_byte(nib) == FromDiskTable[nib]
ASSUME ToDiskAssumption == \A i, j \in 1..64 : to_disk_byte[i] = to_disk_byte[j] => i = j

\* Nibbles are pairs of a value and its length in bits
Nibs(values) == [i \in DOMAIN values |-> <<values[i], 8>>]
Sync(count) == [i \in 1..count |-> <<255, 10>>]
Coded(sixes) == [i \in DOMAIN sixes |-> <<ToDisk(sixes[i]), 8>>]
disk_4x4_nib_out(val) == Nibs(<<170 | (val \div 2), 170 | val>>)

\* Nibbles laid on the track one after another from its start: the marks are
\* then found from there
RECURSIVE LaidFrom(_, _, _)
LaidFrom(trk, pos, nibs) ==
  IF trk.bits = 0 \/ nibs = <<>> THEN trk
  ELSE LaidFrom(disk_nib_out_raw(trk, nibs[1][1], nibs[1][2], pos), (pos + nibs[1][2]) % trk.bits, Tail(nibs))
Laid(trk, nibs) == LaidFrom(trk, 0, nibs)
disk_nib_end_track(trk) == iwm_recalc_sync_from(trk, 0).trk

-----------------------------------------------------------------------------
\* 5.25"

\* The low two bits of a byte, exchanged: the top six bits of each byte go in a
\* nibble of their own, the low two of up to three bytes share one
Low2(byte) == 2 * (byte % 2) + ((byte \div 2) % 2)
sector_to_partial_nib(sector) ==
  LET In(i) == IF i < SectorBytes525 THEN sector[i + 1] ELSE 0
  IN [x \in 1..Aux |-> 16 * Low2(In(x - 1 + 2 * Aux)) + 4 * Low2(In(x - 1 + Aux)) + Low2(In(x - 1))]
     \o [i \in 1..SectorBytes525 |-> sector[i] \div 4]

\* Each nibble holds its value and the last's, exclusive-or, and so does a last one
Chained(vals) ==
  LET At(i) == IF i \in DOMAIN vals THEN vals[i] ELSE 0
  IN [i \in 1..(Len(vals) + 1) |-> At(i) ^^ At(i - 1)]

iwm_nibblize_track_525(trk, sectors, qtr, vol, order) ==
  LET Sector(phys) ==
        Sync(IF phys = 0 THEN FirstGap525 ELSE Gap525) \o Nibs(<<213, 170, 150>>)
        \o disk_4x4_nib_out(vol) \o disk_4x4_nib_out(qtr \div 4) \o disk_4x4_nib_out(phys)
        \o disk_4x4_nib_out((vol ^^ (qtr \div 4)) ^^ phys) \o Nibs(<<222, 170, 235>>)
        \o Sync(DataGap525) \o Nibs(<<213, 170, 173>>)
        \o Coded(Chained(sector_to_partial_nib(sectors[order[phys]]))) \o Nibs(<<222, 170, 235>>)
  IN disk_nib_end_track(Laid(trk, FlattenSeq([i \in 1..Sectors525 |-> Sector(i - 1)])))

\* The old .nib format: bytes, each one a nibble
iwm_nibblize_track_nib525(trk, bytes) ==
  [trk EXCEPT !.raw = [p \in DOMAIN @ |-> BitOf(bytes[(p \div 8) + 1], 7 - (p % 8))],
              !.sync = [b \in DOMAIN @ |-> 7]]

\* The next count nibbles from a place on the track
RECURSIVE ReadOn(_, _, _, _)
ReadOn(trk, at, count, vals) ==
  LET Then(nib) == ReadOn(trk, nib.pos, count - 1, Append(vals, nib.val))
  IN IF count = 0 THEN [vals |-> vals, pos |-> at] ELSE Then(iwm_read_data_fast(trk, at, TRUE, TRUE))
Read(trk, pos, count) == ReadOn(trk, pos, count, <<>>)

\* Read until three nibbles are the prologue, or tries have been used up; the
\* value read last counts as the first of them
RECURSIVE Find(_, _, _, _, _)
Third(trk, r, prologue, tries) ==
  IF r.vals[1] # prologue THEN Find(trk, r.pos, r.vals[1], prologue, tries)
  ELSE [found |-> TRUE, pos |-> r.pos, left |-> tries]
Second(trk, r, val, prologue, tries) ==
  IF val # 213 \/ r.vals[1] # 170 THEN Find(trk, r.pos, r.vals[1], prologue, tries)
  ELSE Third(trk, Read(trk, r.pos, 1), prologue, tries)
Find(trk, pos, val, prologue, tries) ==
  IF tries = 0 THEN [found |-> FALSE, pos |-> pos, left |-> 0]
  ELSE Second(trk, Read(trk, pos, 1), val, prologue, tries - 1)

\* Undo the chain for count nibbles; a value no nibble has ends it early
RECURSIVE Unchained(_, _, _, _)
UnchainedBy(trk, val, at, count, prev) ==
  LET With(rest) == [rest EXCEPT !.vals = <<val ^^ prev>> \o @]
  IN IF val >= 256 THEN [vals |-> [i \in 1..count |-> 0], pos |-> at, prev |-> prev]
     ELSE With(Unchained(trk, at, count - 1, val ^^ prev))
Unchained(trk, pos, count, prev) ==
  LET Seen(r) == UnchainedBy(trk, g_from_disk_byte(r.vals[1]), r.pos, count, prev)
  IN IF count = 0 THEN [vals |-> <<>>, pos |-> pos, prev |-> prev] ELSE Seen(Read(trk, pos, 1))

disk_unnib_4x4(vals, i) == (2 * vals[i] + 1) & vals[i + 1]
\* A sector's data from behind its prologue
Byte525(aux, top, i) == 4 * top[i] + Low2(aux[((i - 1) % Aux) + 1] \div 4^((i - 1) \div Aux))
Ended525(aux, top, tail) ==
  [ok |-> g_from_disk_byte(tail.vals[1]) = top.prev /\ SubSeq(tail.vals, 2, 3) = <<222, 170>>,
   bytes |-> [i \in 1..SectorBytes525 |-> Byte525(aux.vals, top.vals, i)], pos |-> tail.pos]
TopOf525(trk, aux, top) == Ended525(aux, top, Read(trk, top.pos, 3))
AuxOf525(trk, aux) == TopOf525(trk, aux, Unchained(trk, aux.pos, SectorBytes525, aux.prev))
DataAt525(trk, pos) == AuxOf525(trk, Unchained(trk, pos, Aux, 0))

\* Sector by sector until all have been seen; a header that is wrong, or seen
\* before, or data that is wrong ends it.  s is [trk, q, order, left, done].
RECURSIVE Sectors525From(_, _, _)
Wrong(s) == [ok |-> FALSE, sectors |-> s.done]
Sector525(s, log, data) ==
  LET now == (log :> data.bytes) @@ s.done
  IN IF ~data.ok THEN Wrong(s)
     ELSE IF Cardinality(DOMAIN now) = Sectors525 THEN [ok |-> TRUE, sectors |-> now]
     ELSE Sectors525From([s EXCEPT !.done = now], data.pos, 170)
Begun525(s, log, start) ==
  IF start.found THEN Sector525(s, log, DataAt525(s.trk, start.pos)) ELSE Wrong(s)
\* vol, track, sector and sum
Known525(s, id, after) ==
  IF \/ id[3] >= Sectors525 \/ id[4] # ((id[1] ^^ id[2]) ^^ id[3]) \/ id[2] # s.q \div 4
     \/ s.order[id[3]] \in DOMAIN s.done
  THEN Wrong(s)
  ELSE Begun525(s, s.order[id[3]], Find(s.trk, after, 0, 173, NIBS_FROM_ADDR_TO_DATA - 1))
Id525(s, r) == Known525(s, [i \in 1..4 |-> disk_unnib_4x4(r.vals, 2 * i - 1)], r.pos)
Header525At(s, h) == IF h.found THEN Id525([s EXCEPT !.left = h.left], Read(s.trk, h.pos, 8)) ELSE Wrong(s)
Sectors525From(s, pos, val) == Header525At(s, Find(s.trk, pos, val, 150, s.left))
Start525(trk, qtr, order) ==
  [trk |-> trk, q |-> qtr, order |-> order, left |-> 2 * ((trk.bits + 7) \div 8),
   done |-> [log \in {} |-> <<>>]]

\* As below, were a sector that cannot be read taken for an empty one
iwm_denib_track525_zeros(trk, qtr, order) ==
  LET Filled(sectors) == [ok |-> TRUE, sectors |-> sectors @@ [log \in 0..(Sectors525 - 1) |->
                                                                [i \in 1..SectorBytes525 |-> 0]]]
  IN Filled(Sectors525From(Start525(trk, qtr, order), 0, 0).sectors)
iwm_denib_track525(trk, qtr, order) == Sectors525From(Start525(trk, qtr, order), 0, 0)

-----------------------------------------------------------------------------
\* 3.5": three running sums, and each byte hidden by one of them

Sums == [c |-> 0, d |-> 0, e |-> 0]
Carry(sum) == sum \div 256
\* One group of three bytes, of two when it is the last, given plain or as they
\* are hidden on the disk
Turned(s) == LET twice == 2 * s.c IN [s EXCEPT !.c = (twice + Carry(twice)) % 256]
Plain(bytes, areHidden, k, over) == IF areHidden THEN bytes[k] ^^ (over % 256) ELSE bytes[k]
Summed(rotated, last, c, sumE, d, sumD, e) ==
  [plain |-> IF last THEN <<c, d>> ELSE <<c, d, e>>,
   hidden |-> <<c ^^ rotated.c, d ^^ (sumE % 256), IF last THEN 0 ELSE e ^^ (sumD % 256)>>,
   sums |-> [c |-> IF last THEN rotated.c ELSE (e + rotated.c + Carry(sumD)) % 256,
             d |-> sumD % 256, e |-> sumE % 256]]
GroupFromD(rotated, last, bytes, areHidden, c, sumE, d, sumD) ==
  Summed(rotated, last, c, sumE, d, sumD, Plain(bytes, areHidden, 3, sumD))
GroupFromC(rotated, last, bytes, areHidden, c, sumE) ==
  LET D(d) == GroupFromD(rotated, last, bytes, areHidden, c, sumE, d, d + rotated.d + Carry(sumE))
  IN D(Plain(bytes, areHidden, 2, sumE))
Group(sums, last, bytes, areHidden) ==
  LET C(rotated, c) ==
        GroupFromC(rotated, last, bytes, areHidden, c, c + rotated.e + Carry(2 * sums.c))
      R(rotated) == C(rotated, Plain(bytes, areHidden, 1, rotated.c))
  IN R(Turned(sums))

\* The top two bits of three bytes in a nibble, then the rest of each
SixOf(hidden, last) ==
  <<16 * (hidden[1] \div 64) + 4 * (hidden[2] \div 64) + (hidden[3] \div 64),
    hidden[1] % 64, hidden[2] % 64>> \o (IF last THEN <<>> ELSE <<hidden[3] % 64>>)
Checks(s) == <<16 * (s.e \div 64) + 4 * (s.d \div 64) + (s.c \div 64), s.e % 64, s.d % 64, s.c % 64>>
RECURSIVE Groups(_, _, _)
Groups(sector, row, sums) ==
  LET With(g) == SixOf(g.hidden, row = Rows)
                \o (IF row = Rows THEN Checks(g.sums) ELSE Groups(sector, row + 1, g.sums))
  IN With(Group(sums, row = Rows, [k \in 1..3 |-> sector[3 * (row - 1) + k]], FALSE))
EncodedSector35(sector) == [i \in 1..(4 * TagRows) |-> 0] \o Groups(sector, 1, Sums)

\* Two places from one sector to the next
RECURSIVE Interleaved(_, _, _)
Interleaved(log, phys, table) ==
  LET free == CHOOSE p \in (0..(Sectors35 - 1)) \ DOMAIN table :
                \A q \in (0..(Sectors35 - 1)) \ DOMAIN table :
                   (p - phys) % Sectors35 <= (q - phys) % Sectors35
  IN IF log = Sectors35 THEN table
     ELSE Interleaved(log + 1, (free + 2) % Sectors35, (free :> log) @@ table)
PhysToLog35 == Interleaved(0, 0, [p \in {} |-> 0])

iwm_nibblize_track_35(trk, sectors, qtr) ==
  LET track == (qtr \div 2) % 64
      side == 32 * (qtr % 2) + (qtr \div 128)
      Sector(phys) ==
        LET log == PhysToLog35[phys]
        IN Sync(IF phys = 0 THEN FirstGap35 ELSE Gap35) \o Nibs(<<213, 170, 150>>)
           \o Coded(<<track, log, side, 34, ((track ^^ log) ^^ side) ^^ 34>>) \o Nibs(<<222, 170>>)
           \o Sync(DataGap35) \o Nibs(<<213, 170, 173>>) \o Coded(<<log>>)
           \o Coded(EncodedSector35(sectors[log])) \o Nibs(<<222, 170, 255>>)
  IN disk_nib_end_track(Laid(trk, FlattenSeq([i \in 1..Sectors35 |-> Sector(i - 1)])))

\* The groups of a sector as they are read back, with the place and the sums
\* after them; a value no nibble has among a group's first two ends them early
RECURSIVE GroupsFrom(_, _, _, _, _)
GroupRead(trk, g, after, row, bytes) ==
  LET now == IF row > TagRows THEN bytes \o g.plain ELSE bytes
  IN IF row = TagRows + Rows THEN [pos |-> after, sums |-> g.sums, bytes |-> now]
     ELSE GroupsFrom(trk, after, row + 1, g.sums, now)
SixthByte(six, k) == six[k + 1] + 64 * ((six[1] \div 4^(3 - k)) % 4)
GroupDecoded(trk, pos, six, after, row, sums, bytes) ==
  LET Add(plain) == GroupRead(trk, Group(sums, row = TagRows + Rows, plain, TRUE), after, row, bytes)
  IN IF six[1] < 256 /\ six[2] < 256 THEN Add([k \in 1..(Len(six) - 1) |-> SixthByte(six, k)])
     ELSE [pos |-> Read(trk, pos, IF six[1] >= 256 THEN 1 ELSE 2).pos,
           sums |-> IF six[1] >= 256 THEN sums ELSE Turned(sums), bytes |-> bytes]
GroupsFrom(trk, pos, row, sums, bytes) ==
  LET Seen(r) == GroupDecoded(trk, pos, [i \in DOMAIN r.vals |-> g_from_disk_byte(r.vals[i])], r.pos,
                              row, sums, bytes)
  IN Seen(Read(trk, pos, IF row = TagRows + Rows THEN 3 ELSE 4))

\* The data's prologue: its first nibble soon after the header, the rest at once
RECURSIVE FindOnce(_, _, _)
FindOnce(trk, pos, tries) ==
  LET Rest(r) == [found |-> r.vals = <<170, 173>>, pos |-> r.pos]
      First(r) == IF r.vals[1] # 213 THEN FindOnce(trk, r.pos, tries - 1) ELSE Rest(Read(trk, r.pos, 2))
  IN IF tries = 0 THEN [found |-> FALSE, pos |-> pos] ELSE First(Read(trk, pos, 1))

SumsAgree(given, sums) ==
  SixthByte(given, 1) = sums.e /\ SixthByte(given, 2) = sums.d /\ SixthByte(given, 3) = sums.c
Ended35(groups, r) ==
  [ok |-> /\ SumsAgree([i \in 1..4 |-> g_from_disk_byte(r.vals[i])], groups.sums)
          /\ SubSeq(r.vals, 5, 6) = <<222, 170>>,
   bytes |-> groups.bytes, pos |-> r.pos]
GroupsOf35(trk, groups) == Ended35(groups, Read(trk, groups.pos, 6))
DataAt35(trk, pos, log) ==
  LET Begun(r) == IF g_from_disk_byte(r.vals[1]) # log THEN [ok |-> FALSE, bytes |-> <<>>, pos |-> pos]
                  ELSE GroupsOf35(trk, GroupsFrom(trk, r.pos, 1, Sums, <<>>))
  IN Begun(Read(trk, pos, 1))

RECURSIVE Sectors35From(_, _)
Sector35(s, log, data) ==
  LET now == (log :> data.bytes) @@ s.done
  IN IF ~data.ok THEN Wrong(s)
     ELSE IF Cardinality(DOMAIN now) = Sectors35 THEN [ok |-> TRUE, sectors |-> now]
     ELSE Sectors35From([s EXCEPT !.done = now], data.pos)
Begun35(s, log, start) ==
  IF start.found THEN Sector35(s, log, DataAt35(s.trk, start.pos, log)) ELSE Wrong(s)
\* track, sector, side, format and sum
Known35(s, id, after) ==
  IF \/ id[1] # (s.q \div 2) % 64 \/ id[2] >= Sectors35
     \/ id[3] # 32 * (s.q % 2) + (s.q \div 128) \/ id[5] # (((id[1] ^^ id[2]) ^^ id[3]) ^^ id[4])
     \/ id[2] \in DOMAIN s.done
  THEN Wrong(s) ELSE Begun35(s, id[2], FindOnce(s.trk, after, 38))
Id35(s, r) == Known35(s, [i \in 1..5 |-> g_from_disk_byte(r.vals[i])], r.pos)
Header35At(s, h) == IF h.found THEN Id35([s EXCEPT !.left = h.left], Read(s.trk, h.pos, 5)) ELSE Wrong(s)
Sectors35From(s, pos) == Header35At(s, Find(s.trk, pos, 0, 150, s.left))
iwm_denib_track35(trk, qtr) ==
  Sectors35From([trk |-> trk, q |-> qtr, left |-> 2 * (trk.bits \div 8), done |-> [log \in {} |-> <<>>]], 0)
===============================================================================
