-------------------------- MODULE MockingboardProofs --------------------------
(***************************************************************************)
(* No interrupt that has an event is late, and catching the timers up is   *)
(* counting every microsecond, for every byte size, every way to access    *)
(* the registers and every length of instruction.                          *)
(*                                                                         *)
(* The invariant MockInv adds to the properties that at most one event is  *)
(* booked and how late it can be, that a timer started in free-run mode    *)
(* never counts as expired, and that no timer is started between a reset,  *)
(* which skews the time of the last update, and the next update.           *)
(***************************************************************************)
EXTENDS Mockingboard, FiniteSetTheorems, TLAPS

(* A set that has 0 and the successor of each of its numbers has them all. *)
LEMMA NatSetInduction ==
  ASSUME NEW S, 0 \in S, \A n \in Nat : n \in S => n + 1 \in S
  PROVE  Nat \subseteq S
<1> DEFINE Missing == Nat \ S
           Down == { 0 .. n : n \in Missing }
           R == StrictSubsetOrdering(Nat)
<1> SUFFICES ASSUME Missing # {} PROVE FALSE
  OBVIOUS
<1>1. Down \subseteq FiniteSubsetsOf(Nat)
  <2> SUFFICES ASSUME NEW n \in Missing
               PROVE  0 .. n \in FiniteSubsetsOf(Nat)
    OBVIOUS
  <2>1. IsFiniteSet(0 .. n)
    BY FS_Interval
  <2>2. 0 .. n \subseteq Nat
    OBVIOUS
  <2> QED
    BY <2>1, <2>2 DEF FiniteSubsetsOf
<1>2. Down # {}
  OBVIOUS
<1>3. IsWellFoundedOn(R, FiniteSubsetsOf(Nat))
  BY FS_StrictSubsetOrderingWellFounded
<1>4. PICK d \in Down : \A e \in Down : ~ (<<e, d>> \in R)
  <2> HIDE DEF Down, R
  <2> QED
    BY <1>1, <1>2, <1>3, WFMin
<1>5. PICK x \in Missing : d = 0 .. x
  OBVIOUS
<1>6. x # 0 /\ x - 1 \in Missing
  OBVIOUS
<1>7. 0 .. (x - 1) \in Down /\ <<0 .. (x - 1), d>> \in R
  BY <1>5, <1>6 DEF StrictSubsetOrdering
<1> QED
  BY <1>4, <1>7


(***************************************************************************)
(* Remainders.                                                             *)
(***************************************************************************)

LEMMA ModRange ==
  ASSUME NEW p \in Nat, p > 0, NEW x \in Int
  PROVE  x % p \in 0 .. p - 1
OBVIOUS

LEMMA DivMod ==
  ASSUME NEW p \in Nat, p > 0, NEW x \in Int
  PROVE  x = p * (x \div p) + (x % p) /\ x \div p \in Int
OBVIOUS

(* A larger quotient is larger by the divisor at least.                    *)
LEMMA QuotientStep ==
  ASSUME NEW p \in Nat, NEW k \in Int, NEW j \in Int, k < j
  PROVE  p * k + p <= p * j
<1>1. PICK e \in Nat : j = k + 1 + e
  <2>1. j - k - 1 \in Nat /\ j = k + 1 + (j - k - 1)
    OBVIOUS
  <2> QED
    BY <2>1
<1>2. p * j = p * k + p + p * e
  BY <1>1
<1>3. p * e >= 0
  OBVIOUS
<1>4. p * k \in Int /\ p * j \in Int /\ p * e \in Int
  OBVIOUS
<1> QED
  BY <1>2, <1>3, <1>4

(* A quotient and a remainder are the quotient and the remainder.          *)
LEMMA Unique ==
  ASSUME NEW p \in Nat, p > 0, NEW k \in Int, NEW j \in Int,
         NEW r \in 0 .. p - 1, NEW s \in 0 .. p - 1, p * k + r = p * j + s
  PROVE  r = s
<1>1. p * k \in Int /\ p * j \in Int
  OBVIOUS
<1>2. CASE k = j
  BY <1>2
<1>3. CASE k < j
  <2>1. p * k + p <= p * j
    BY <1>3, QuotientStep
  <2> QED
    BY <1>1, <2>1
<1>4. CASE j < k
  <2>1. p * j + p <= p * k
    BY <1>4, QuotientStep
  <2> QED
    BY <1>1, <2>1
<1> QED
  BY <1>2, <1>3, <1>4

(* The remainder of the next number.                                       *)
LEMMA ModNext ==
  ASSUME NEW p \in Nat, p > 0, NEW x \in Int
  PROVE  (x + 1) % p = IF x % p = p - 1 THEN 0 ELSE (x % p) + 1
<1> DEFINE k == x \div p
           j == (x + 1) \div p
           r == x % p
           s == (x + 1) % p
<1>1. x = p * k + r /\ k \in Int /\ r \in 0 .. p - 1
  BY DivMod, ModRange
<1>2. x + 1 = p * j + s /\ j \in Int /\ s \in 0 .. p - 1
  BY DivMod, ModRange
<1> HIDE DEF k, j, r, s
<1>3. CASE r = p - 1
  <2>1. p * (k + 1) = p * k + p
    BY <1>1
  <2>2. p * (k + 1) + 0 = p * j + s
    BY <1>1, <1>2, <1>3, <2>1
  <2>3. s = 0
    BY <1>1, <1>2, <2>2, Unique
  <2> QED
    BY <1>3, <2>3 DEF r, s
<1>4. CASE r # p - 1
  <2>1. p * k + (r + 1) = p * j + s /\ r + 1 \in 0 .. p - 1
    BY <1>1, <1>2, <1>4
  <2>3. s = r + 1
    BY <1>1, <1>2, <2>1, Unique
  <2> QED
    BY <1>4, <2>3 DEF r, s
<1> QED
  BY <1>3, <1>4

(***************************************************************************)
(* The types of counts and latches.                                        *)
(***************************************************************************)

LEMMA WordFacts ==
  /\ Byte * Byte \in Nat /\ Byte * Byte > 0
  /\ ResetLatch \in 0 .. Byte * Byte - 1
<1>1. Byte \in Nat /\ Byte >= 2
  BY ByteAssumption
<1>2. \A b \in Nat : (b - 1) * b = b * b - b
  OBVIOUS
<1>3. \A b \in Nat : b >= 2 => b * b >= b + b
  <2> SUFFICES ASSUME NEW b \in Nat, b >= 2 PROVE b * b >= b + b
    OBVIOUS
  <2>1. PICK c \in Nat : b = c + 2
    <3>1. b - 2 \in Nat /\ b = (b - 2) + 2
      OBVIOUS
    <3> QED
      BY <3>1
  <2>2. b * b = b * c + (b + b) /\ b * c >= 0
    BY <2>1
  <2> QED
    BY <2>2
<1>4. Byte * Byte >= Byte + Byte /\ (Byte - 1) * Byte = Byte * Byte - Byte
  BY <1>1, <1>2, <1>3
<1>5. Byte * Byte \in Nat
  BY <1>1
<1> QED
  BY <1>1, <1>4, <1>5 DEF ResetLatch

(* A word is made of two bytes.                                            *)
LEMMA BytesFit ==
  ASSUME NEW hi \in 0 .. Byte - 1, NEW lo \in 0 .. Byte - 1
  PROVE  Byte * hi + lo \in 0 .. Byte * Byte - 1
<1>1. Byte \in Nat /\ hi \in Nat /\ lo \in Nat /\ hi < Byte
  BY ByteAssumption
<1>2. Byte * hi + Byte <= Byte * Byte
  BY <1>1, QuotientStep
<1>3. Byte * hi \in Nat /\ Byte * Byte \in Nat
  BY <1>1
<1> QED
  BY <1>1, <1>2, <1>3

LEMMA BytesOf ==
  ASSUME NEW w \in 0 .. Byte * Byte - 1
  PROVE  w \div Byte \in 0 .. Byte - 1 /\ w % Byte \in 0 .. Byte - 1
<1>1. Byte \in Nat /\ Byte > 0 /\ Byte * Byte \in Nat
  BY ByteAssumption, WordFacts
<1> DEFINE k == w \div Byte
           r == w % Byte
<1>2. w = Byte * k + r /\ k \in Int /\ r \in 0 .. Byte - 1
  BY <1>1, DivMod, ModRange
<1> HIDE DEF k, r
<1>3. Byte * k \in Int
  BY <1>1, <1>2
<1>4. k < Byte
  <2>1. CASE k >= Byte
    <3>1. Byte * Byte <= Byte * k
      <4>1. CASE k = Byte
        BY <4>1, <1>1
      <4>2. CASE Byte < k
        <5>1. Byte * Byte + Byte <= Byte * k
          BY <1>1, <1>2, <4>2, QuotientStep
        <5> QED
          BY <1>1, <1>3, <5>1
      <4> QED
        BY <1>1, <1>2, <2>1, <4>1, <4>2
    <3> QED
      BY <1>1, <1>2, <1>3, <3>1
  <2> QED
    BY <1>1, <1>2, <2>1
<1>5. k >= 0
  <2>1. CASE k < 0
    <3>1. Byte * k + Byte <= Byte * 0
      BY <1>1, <1>2, <2>1, QuotientStep
    <3>2. Byte * 0 = 0
      BY <1>1
    <3> QED
      BY <1>1, <1>2, <1>3, <3>1, <3>2
  <2> QED
    BY <1>2, <2>1
<1> QED
  BY <1>1, <1>2, <1>4, <1>5 DEF k, r

(* The fields of a chip have their types.                                  *)
LEMMA ChipFields ==
  ASSUME NEW chip \in Chip
  PROVE  /\ \A t \in Timer : /\ chip[t] \in Counter
                             /\ chip[t].count \in 0 .. Byte * Byte + 1
                             /\ chip[t].triggered \in BOOLEAN
                             /\ chip.latch[t] \in 0 .. Byte * Byte - 1
         /\ chip.ifr \subseteq Timer /\ chip.ier \subseteq Timer
         /\ chip.acr \subseteq Timer
         /\ chip.latch \in [Timer -> 0 .. Byte * Byte - 1]
BY DEF Chip, Counter, Timer

(* New flags leave the rest of a chip alone.                               *)
LEMMA NewIfr ==
  ASSUME NEW chip \in Chip, NEW ifr \in SUBSET Timer
  PROVE  LET c == mock_6522_new_ifr(chip, ifr) IN
         /\ c \in Chip /\ c.ifr = ifr /\ c.T1 = chip.T1 /\ c.T2 = chip.T2
         /\ c.latch = chip.latch /\ c.ier = chip.ier /\ c.acr = chip.acr
BY DEF mock_6522_new_ifr, Chip

(* Timer 1 never comes to more than its latch and one.                     *)
LEMMA ReloadedRange ==
  ASSUME NEW chip \in Chip, NEW over \in Nat
  PROVE  Reloaded(chip, over) \in 0 .. chip.latch["T1"] + 1
<1> DEFINE period == chip.latch["T1"] + 2
           left == over % period
<1>1. chip.latch["T1"] \in Nat /\ period \in Nat /\ period > 0
  BY WordFacts, ChipFields DEF Timer
<1>2. left \in 0 .. period - 1
  BY <1>1, ModRange
<1>3. Reloaded(chip, over) = period - (IF left = 0 THEN period ELSE left)
  BY DEF Reloaded
<1>4. period = chip.latch["T1"] + 2
  OBVIOUS
<1> HIDE DEF period, left
<1> QED
  BY <1>1, <1>2, <1>3, <1>4

(***************************************************************************)
(* What catching up makes of a chip.                                       *)
(***************************************************************************)

(* How long timer t has counted when d has passed.                         *)
Ran(chip, t, d) == IF t = "T2" /\ "T2" \in chip.acr THEN 0 ELSE d

(* Timer t of chip c is the one of chip after d: it has run out if there    *)
(* was time for it, and then its flag is up, unless it had expired before.  *)
Aged(chip, c, t, d) ==
  /\ Ran(chip, t, d) < chip[t].count =>
       /\ c[t].count = chip[t].count - Ran(chip, t, d)
       /\ c[t].triggered = chip[t].triggered
  /\ Ran(chip, t, d) >= chip[t].count =>
       /\ ~ chip[t].triggered => t \in c.ifr
       /\ ~ (t = "T1" /\ t \in chip.acr) => c[t].triggered
  /\ t = "T1" /\ t \in chip.acr /\ ~ chip[t].triggered => ~ c[t].triggered

SameModes(chip, c) ==
  c.latch = chip.latch /\ c.ier = chip.ier /\ c.acr = chip.acr

LEMMA Timer1Facts ==
  ASSUME NEW chip \in Chip, NEW d \in Nat
  PROVE  LET c == Timer1(chip, d) IN
         /\ c \in Chip /\ SameModes(chip, c) /\ Aged(chip, c, "T1", d)
         /\ c.T2 = chip.T2
         /\ chip.ifr \subseteq c.ifr /\ c.ifr \subseteq chip.ifr \union {"T1"}
<1> DEFINE c == Timer1(chip, d)
<1>0. /\ chip.T1.count \in Nat /\ chip.T1.count <= Byte * Byte + 1
      /\ chip.T1.triggered \in BOOLEAN /\ chip.T1 \in Counter
      /\ chip.ifr \in SUBSET Timer /\ "T1" \in Timer /\ "T2" \in Timer
      /\ chip.latch["T1"] \in 0 .. Byte * Byte - 1 /\ Byte * Byte \in Nat
  BY ChipFields, WordFacts DEF Timer
<1>1. CASE d < chip.T1.count
  <2>1. c = [chip EXCEPT !.T1.count = chip.T1.count - d]
    BY <1>1 DEF Timer1
  <2>2. chip.T1.count - d \in 0 .. Byte * Byte + 1
    BY <1>0, <1>1
  <2>3. /\ c.T1 = [chip.T1 EXCEPT !.count = chip.T1.count - d]
        /\ c.T2 = chip.T2 /\ SameModes(chip, c) /\ c.ifr = chip.ifr
    BY <2>1 DEF Chip, SameModes
  <2>4. /\ c.T1.count = chip.T1.count - d
        /\ c.T1.triggered = chip.T1.triggered /\ c.T1 \in Counter
    BY <1>0, <2>2, <2>3 DEF Counter
  <2>5. c \in Chip
    <3>1. c = [chip EXCEPT !.T1 = [chip.T1 EXCEPT !.count = chip.T1.count - d]]
      BY <2>1
    <3> QED
      BY <2>3, <2>4, <3>1 DEF Chip
  <2>6. Aged(chip, c, "T1", d)
    BY <1>0, <1>1, <2>4 DEF Aged, Ran
  <2> QED
    BY <2>3, <2>5, <2>6
<1>2. CASE d >= chip.T1.count
  <2> DEFINE k == IF chip.T1.triggered THEN chip
                  ELSE mock_6522_new_ifr(chip, chip.ifr \union {"T1"})
             counter == [count |-> Reloaded(chip, d - chip.T1.count),
                         triggered |-> "T1" \notin chip.acr]
  <2>1. c = [k EXCEPT !.T1 = counter]
    BY <1>0, <1>2 DEF Timer1
  <2>2. /\ k \in Chip /\ SameModes(chip, k) /\ k.T1 = chip.T1 /\ k.T2 = chip.T2
        /\ chip.ifr \subseteq k.ifr /\ k.ifr \subseteq chip.ifr \union {"T1"}
        /\ ~ chip.T1.triggered => "T1" \in k.ifr
    <3>1. CASE chip.T1.triggered
      BY <3>1 DEF SameModes
    <3>2. CASE ~ chip.T1.triggered
      <4>1. chip.ifr \union {"T1"} \in SUBSET Timer
        BY <1>0
      <4> QED
        BY <3>2, <4>1, NewIfr DEF SameModes
    <3> QED
      BY <3>1, <3>2
  <2>3. counter \in Counter
    <3>1. d - chip.T1.count \in Nat
      BY <1>0, <1>2
    <3>2. Reloaded(chip, d - chip.T1.count) \in 0 .. chip.latch["T1"] + 1
      BY <3>1, ReloadedRange
    <3>3. Reloaded(chip, d - chip.T1.count) \in 0 .. Byte * Byte + 1
      BY <1>0, <3>2
    <3> QED
      BY <3>3 DEF Counter
  <2>4. /\ "T1" \in chip.acr => ~ counter.triggered
        /\ "T1" \notin chip.acr => counter.triggered
    OBVIOUS
  <2> HIDE DEF k, counter, c
  <2>5. /\ c \in Chip /\ c.T1 = counter /\ c.T2 = k.T2 /\ c.ifr = k.ifr
        /\ SameModes(chip, c)
    BY <2>1, <2>2, <2>3 DEF Chip, SameModes
  <2>6. Aged(chip, c, "T1", d)
    <3>1. Ran(chip, "T1", d) = d
      BY DEF Ran
    <3>2. ~ (d < chip.T1.count)
      BY <1>0, <1>2
    <3> QED
      BY <2>2, <2>4, <2>5, <3>1, <3>2 DEF Aged
  <2> QED
    BY <2>2, <2>5, <2>6 DEF c
<1> QED
  BY <1>0, <1>1, <1>2

LEMMA Timer2Facts ==
  ASSUME NEW chip \in Chip, NEW d \in Nat
  PROVE  LET c == Timer2(chip, d) IN
         /\ c \in Chip /\ SameModes(chip, c) /\ Aged(chip, c, "T2", d)
         /\ c.T1 = chip.T1
         /\ chip.ifr \subseteq c.ifr /\ c.ifr \subseteq chip.ifr \union {"T2"}
<1> DEFINE c == Timer2(chip, d)
           n == Ran(chip, "T2", d)
<1>0. /\ chip.T2.count \in Nat /\ chip.T2.count <= Byte * Byte + 1
      /\ chip.T2.triggered \in BOOLEAN /\ chip.T2 \in Counter
      /\ chip.ifr \in SUBSET Timer /\ "T1" \in Timer /\ "T2" \in Timer
      /\ Byte * Byte \in Nat /\ Byte * Byte > 0
      /\ n \in Nat
  BY ChipFields, WordFacts DEF Timer, Ran
<1>3. n = IF "T2" \in chip.acr THEN 0 ELSE d
  BY DEF Ran
<1>1. CASE n < chip.T2.count
  <2>1. c = [chip EXCEPT !.T2.count = chip.T2.count - n]
    BY <1>1, <1>3 DEF Timer2
  <2>2. chip.T2.count - n \in 0 .. Byte * Byte + 1
    BY <1>0, <1>1
  <2>3. /\ c.T2 = [chip.T2 EXCEPT !.count = chip.T2.count - n]
        /\ c.T1 = chip.T1 /\ SameModes(chip, c) /\ c.ifr = chip.ifr
    BY <2>1 DEF Chip, SameModes
  <2>4. /\ c.T2.count = chip.T2.count - n
        /\ c.T2.triggered = chip.T2.triggered /\ c.T2 \in Counter
    BY <1>0, <2>2, <2>3 DEF Counter
  <2>5. c \in Chip
    <3>1. c = [chip EXCEPT !.T2 = [chip.T2 EXCEPT !.count = chip.T2.count - n]]
      BY <2>1
    <3> QED
      BY <2>3, <2>4, <3>1 DEF Chip
  <2>6. Aged(chip, c, "T2", d)
    BY <1>0, <1>1, <2>4 DEF Aged
  <2> QED
    BY <2>3, <2>5, <2>6
<1>2. CASE n >= chip.T2.count
  <2> DEFINE k == IF chip.T2.triggered THEN chip
                  ELSE mock_6522_new_ifr(chip, chip.ifr \union {"T2"})
             counter == [count |-> (chip.T2.count - n) % (Byte * Byte),
                         triggered |-> TRUE]
  <2>1. c = [k EXCEPT !.T2 = counter]
    <3>1. ~ (n < chip.T2.count)
      BY <1>0, <1>2
    <3> QED
      BY <1>3, <3>1 DEF Timer2
  <2>2. /\ k \in Chip /\ SameModes(chip, k) /\ k.T1 = chip.T1 /\ k.T2 = chip.T2
        /\ chip.ifr \subseteq k.ifr /\ k.ifr \subseteq chip.ifr \union {"T2"}
        /\ ~ chip.T2.triggered => "T2" \in k.ifr
    <3>1. CASE chip.T2.triggered
      BY <3>1 DEF SameModes
    <3>2. CASE ~ chip.T2.triggered
      <4>1. chip.ifr \union {"T2"} \in SUBSET Timer
        BY <1>0
      <4> QED
        BY <3>2, <4>1, NewIfr DEF SameModes
    <3> QED
      BY <3>1, <3>2
  <2>3. counter \in Counter
    <3>1. chip.T2.count - n \in Int
      BY <1>0
    <3>2. (chip.T2.count - n) % (Byte * Byte) \in 0 .. Byte * Byte - 1
      BY <1>0, <3>1, ModRange
    <3>3. (chip.T2.count - n) % (Byte * Byte) \in 0 .. Byte * Byte + 1
      BY <1>0, <3>2
    <3> QED
      BY <3>3 DEF Counter
  <2>4. counter.triggered
    OBVIOUS
  <2> HIDE DEF k, counter, c, n
  <2>5. /\ c \in Chip /\ c.T2 = counter /\ c.T1 = k.T1 /\ c.ifr = k.ifr
        /\ SameModes(chip, c)
    BY <2>1, <2>2, <2>3 DEF Chip, SameModes
  <2>6. Aged(chip, c, "T2", d)
    BY <1>0, <1>2, <2>2, <2>4, <2>5 DEF Aged, n
  <2> QED
    BY <2>2, <2>5, <2>6 DEF c
<1> QED
  BY <1>0, <1>1, <1>2

(* An update runs timer 1 and then timer 2 of each chip.                   *)
CaughtUp(chip, c, d) ==
  /\ c \in Chip /\ SameModes(chip, c) /\ chip.ifr \subseteq c.ifr
  /\ \A t \in Timer : Aged(chip, c, t, d)

LEMMA BothTimers ==
  ASSUME NEW chip \in Chip, NEW d \in Nat
  PROVE  CaughtUp(chip, Timer2(Timer1(chip, d), d), d)
<1> DEFINE b == Timer1(chip, d)
           c == Timer2(b, d)
<1>1. /\ b \in Chip /\ SameModes(chip, b) /\ Aged(chip, b, "T1", d)
      /\ b.T2 = chip.T2
      /\ chip.ifr \subseteq b.ifr /\ b.ifr \subseteq chip.ifr \union {"T1"}
  BY Timer1Facts
<1>2. /\ c \in Chip /\ SameModes(b, c) /\ Aged(b, c, "T2", d)
      /\ c.T1 = b.T1
      /\ b.ifr \subseteq c.ifr /\ c.ifr \subseteq b.ifr \union {"T2"}
  BY <1>1, Timer2Facts
<1> HIDE DEF b, c
<1>3. c \in Chip /\ SameModes(chip, c) /\ chip.ifr \subseteq c.ifr
  BY <1>1, <1>2 DEF SameModes
<1>4. Aged(chip, c, "T1", d)
  BY <1>1, <1>2 DEF Aged, Ran
<1>5. Aged(chip, c, "T2", d)
  BY <1>1, <1>2 DEF Aged, Ran, SameModes
<1> QED
  BY <1>3, <1>4, <1>5 DEF CaughtUp, Timer, b, c

(***************************************************************************)
(* The event that is booked.                                               *)
(***************************************************************************)

OneEvent(q) == q = {} \/ \E e \in Int : q = {e} /\ e > - MaxStep

(* What an update is given and leaves: one event at most, in the list too. *)
Books(s) ==
  /\ s \in [chips : [Pair -> Chip], event : SUBSET Int, queue : SUBSET Int]
  /\ s.event = s.queue /\ OneEvent(s.queue)

(* Armed, of a chip.                                                       *)
Wants(chip, t) ==
  /\ t \in chip.ier \ chip.ifr
  /\ ~ chip[t].triggered
  /\ ~ (t = "T2" /\ t \in chip.acr)

(* A timer started in free-run mode has not expired.                       *)
FreeRuns(chips, timers) == \A u \in timers :
  u[2] = "T1" /\ "T1" \in chips[u[1]].acr => ~ chips[u[1]].T1.triggered

(* Timer t of chip p is one of the timers, and will interrupt.             *)
Due(chips, timers, p, t) == <<p, t>> \in timers /\ Wants(chips[p], t)

(* An event is booked by the time each of the timers will interrupt, when  *)
(* the chips were last updated d ago and timer 1 of the chip will, too.    *)
Covered(s, timers, d) == \A p \in Pair, t \in Timer :
  Due(s.chips, timers, p, "T1") /\ Due(s.chips, timers, p, t) =>
    \E e \in s.queue : e <= s.chips[p][t].count - d

LEMMA MinOfNats ==
  ASSUME NEW S \in SUBSET Nat, S # {}
  PROVE  Min(S) \in S /\ \A x \in S : Min(S) <= x
<1> DEFINE Below == { n \in Nat : \A x \in S : n <= x }
<1>1. \E m \in S : \A x \in S : m <= x
  <2> SUFFICES ASSUME \A m \in S : \E x \in S : x < m PROVE FALSE
    OBVIOUS
  <2>1. 0 \in Below
    OBVIOUS
  <2>2. ASSUME NEW n \in Nat, n \in Below PROVE n + 1 \in Below
    <3>1. n \notin S
      BY <2>2
    <3>2. ASSUME NEW x \in S PROVE n + 1 <= x
      BY <2>2, <3>1
    <3> QED
      BY <3>2
  <2>3. Nat \subseteq Below
    <3> HIDE DEF Below
    <3> QED
      BY <2>1, <2>2, NatSetInduction
  <2>4. PICK x \in S : TRUE
    OBVIOUS
  <2>5. x + 1 \in Below
    BY <2>3
  <2> QED
    BY <2>5
<1> QED
  BY <1>1 DEF Min

LEMMA MinOfOne ==
  ASSUME NEW e \in Int
  PROVE  Min({e}) = e
BY DEF Min

LEMMA BookedFacts ==
  ASSUME NEW s, Books(s), NEW ahead \in SUBSET Nat
  PROVE  LET b == Booked(s, ahead) IN
         /\ Books(b) /\ b.chips = s.chips
         /\ \A x \in ahead : \E e \in b.queue : e <= x
<1> DEFINE b == Booked(s, ahead)
           closest == Min(ahead)
<1>1. CASE ahead = {}
  BY <1>1 DEF Booked
<1>2. CASE ahead # {}
  <2>1. closest \in ahead /\ \A x \in ahead : closest <= x
    BY <1>2, MinOfNats
  <2>2. closest \in Nat
    BY <2>1
  <2>3. CASE s.event # {} /\ closest >= Min(s.event)
    <3>1. b = s
      BY <2>3 DEF Booked
    <3>2. PICK e \in Int : s.event = {e} /\ s.queue = {e}
      BY <2>3 DEF Books, OneEvent
    <3>3. closest >= e
      BY <2>3, <3>2, MinOfOne
    <3>4. \A x \in ahead : e <= x
      BY <2>1, <2>2, <3>3
    <3> HIDE DEF b, closest
    <3>5. \A x \in ahead : \E e1 \in b.queue : e1 <= x
      BY <3>1, <3>2, <3>4
    <3> QED
      BY <3>1, <3>5 DEF b
  <2>4. CASE ~ (s.event # {} /\ closest >= Min(s.event))
    <3>1. b = [s EXCEPT !.event = {closest},
                        !.queue = (IF s.event = {} THEN s.queue
                                   ELSE s.queue \ {Min(s.queue)})
                                  \union {closest}]
      BY <1>2, <2>4 DEF Booked
    <3>2. IF s.event = {} THEN s.queue = {} ELSE s.queue \ {Min(s.queue)} = {}
      <4>1. CASE s.event = {}
        BY <4>1 DEF Books
      <4>2. CASE s.event # {}
        <5>1. PICK e \in Int : s.queue = {e}
          BY <4>2 DEF Books, OneEvent
        <5>2. Min(s.queue) = e
          BY <5>1, MinOfOne
        <5> QED
          BY <4>2, <5>1, <5>2
      <4> QED
        BY <4>1, <4>2
    <3> HIDE DEF b, closest
    <3>3. b = [s EXCEPT !.event = {closest}, !.queue = {closest}]
      BY <3>1, <3>2
    <3>4. b.event = {closest} /\ b.queue = {closest} /\ b.chips = s.chips
          /\ b \in [chips : [Pair -> Chip], event : SUBSET Int, queue : SUBSET Int]
      <4> DEFINE T == SUBSET Int
                 C == [Pair -> Chip]
      <4>1. s \in [chips : C, event : T, queue : T]
        BY DEF Books
      <4>2. {closest} \in T
        BY <2>2
      <4> HIDE DEF T, C
      <4>3. b.event = {closest} /\ b.queue = {closest} /\ b.chips = s.chips
            /\ b \in [chips : C, event : T, queue : T]
        BY <3>3, <4>1, <4>2
      <4> QED
        BY <4>3 DEF T, C
    <3>5. OneEvent(b.queue)
      BY <2>2, <3>4, TimeAssumption DEF OneEvent
    <3>6. \A x \in ahead : \E e \in b.queue : e <= x
      BY <2>1, <3>4
    <3> QED
      BY <3>4, <3>5, <3>6 DEF Books, b
  <2> QED
    BY <2>3, <2>4
<1> QED
  BY <1>1, <1>2

(* An update books an event for every started timer that will interrupt,   *)
(* whatever was booked before.                                             *)
LEMMA UpdateBooks ==
  ASSUME NEW s, Books(s), NEW d \in Nat, NEW timers \in SUBSET Used,
         FreeRuns(s.chips, timers)
  PROVE  LET b == mock_update_timers(s, d) IN
         /\ Books(b) /\ FreeRuns(b.chips, timers) /\ Covered(b, timers, 0)
         /\ \A p \in Pair : CaughtUp(s.chips[p], b.chips[p], d)
<1> DEFINE After(p) == Timer2(Timer1(s.chips[p], d), d)
           r == [s EXCEPT !.chips = [p \in Pair |-> After(p)]]
           ahead == Ahead(s.chips, d)
           b == mock_update_timers(s, d)
<1>1. b = Booked(r, ahead)
  BY DEF mock_update_timers
<1>2. \A p \in Pair : s.chips[p] \in Chip
  BY DEF Books
<1>3. \A p \in Pair : CaughtUp(s.chips[p], After(p), d)
  BY <1>2, BothTimers
<1>4. Books(r) /\ \A p \in Pair : r.chips[p] = After(p)
  <2>1. \A p \in Pair : After(p) \in Chip
    BY <1>3 DEF CaughtUp
  <2> HIDE DEF After
  <2> QED
    BY <2>1 DEF Books
<1>5. ahead = UNION { { After(p)[t].count : t \in Awaited(s.chips[p], d) }
                      : p \in { q \in Pair : "T1" \in Awaited(s.chips[q], d) } }
  BY DEF Ahead
<1> HIDE DEF After, r, ahead, b
<1>6. ahead \in SUBSET Nat
  <2> SUFFICES ASSUME NEW p \in Pair, NEW t \in Awaited(s.chips[p], d)
               PROVE  After(p)[t].count \in Nat
    BY <1>5
  <2>1. t \in Timer
    BY <1>2, ChipFields DEF Awaited
  <2>2. After(p)[t].count \in 0 .. Byte * Byte + 1
    BY <1>3, <2>1, ChipFields DEF CaughtUp
  <2> QED
    BY <2>2, WordFacts
<1>7. /\ Books(b) /\ b.chips = r.chips
      /\ \A x \in ahead : \E e \in b.queue : e <= x
  BY <1>1, <1>4, <1>6, BookedFacts
<1>8. \A u \in timers : u[1] \in Pair /\ u[2] \in Timer
  BY UsedAssumption
<1>9. FreeRuns(b.chips, timers)
  <2> SUFFICES ASSUME NEW u \in timers, u[2] = "T1",
                      "T1" \in b.chips[u[1]].acr
               PROVE  ~ b.chips[u[1]].T1.triggered
    BY DEF FreeRuns
  <2> DEFINE p == u[1]
  <2>1. b.chips[p] = After(p) /\ p \in Pair
    BY <1>4, <1>7, <1>8
  <2>2. "T1" \in s.chips[p].acr
    BY <1>3, <2>1 DEF CaughtUp, SameModes
  <2>3. ~ s.chips[p].T1.triggered
    BY <2>2 DEF FreeRuns
  <2>4. Aged(s.chips[p], After(p), "T1", d)
    BY <1>3, <2>1 DEF CaughtUp, Timer
  <2> QED
    BY <2>1, <2>2, <2>3, <2>4 DEF Aged
<1>12. ASSUME NEW p \in Pair, NEW t \in Timer, Due(b.chips, timers, p, t)
       PROVE  t \in Awaited(s.chips[p], d)
  <2> DEFINE chip == s.chips[p]
  <2>1. b.chips[p] = After(p) /\ <<p, t>> \in timers
    BY <1>4, <1>7, <1>12 DEF Due
  <2>2. /\ CaughtUp(chip, After(p), d) /\ Aged(chip, After(p), t, d)
        /\ Wants(After(p), t) /\ chip \in Chip
    BY <1>2, <1>3, <1>12, <2>1 DEF CaughtUp, Due
  <2>3. t = "T1" /\ "T1" \in chip.acr => ~ chip.T1.triggered
    BY <2>1 DEF FreeRuns
  <2>4. Ran(chip, t, d) \in Nat /\ chip[t].count \in Nat
    BY <2>1, <2>2, ChipFields, WordFacts DEF Ran
  <2> HIDE DEF chip
  <2>5. Ran(chip, t, d) < chip[t].count
    <3>1. CASE Ran(chip, t, d) >= chip[t].count
      <4>1. ~ chip[t].triggered => t \in After(p).ifr
        BY <2>2, <3>1 DEF Aged
      <4>2. t \notin After(p).ifr /\ ~ After(p)[t].triggered
        BY <2>2 DEF Wants
      <4>3. t = "T1" /\ t \in chip.acr
        BY <2>2, <3>1, <4>2 DEF Aged
      <4>4. ~ chip[t].triggered
        BY <2>3, <4>3
      <4> QED
        BY <4>1, <4>2, <4>4
    <3> QED
      BY <2>4, <3>1
  <2> QED
    BY <2>2, <2>5 DEF chip, Awaited, Wants, Ran, CaughtUp, SameModes
<1>10. Covered(b, timers, 0)
  <2> SUFFICES ASSUME NEW p \in Pair, NEW t \in Timer,
                      Due(b.chips, timers, p, "T1"), Due(b.chips, timers, p, t)
               PROVE  \E e \in b.queue : e <= b.chips[p][t].count - 0
    BY DEF Covered
  <2>1. b.chips[p] = After(p)
    BY <1>4, <1>7
  <2>6. t \in Awaited(s.chips[p], d) /\ "T1" \in Awaited(s.chips[p], d)
    BY <1>12 DEF Timer
  <2>7. After(p)[t].count \in ahead
    BY <1>5, <2>6
  <2>8. PICK e \in b.queue : e <= After(p)[t].count
    BY <1>7, <2>7
  <2>9. After(p)[t].count - 0 = After(p)[t].count
    <3>1. \A x \in Nat : x - 0 = x
      OBVIOUS
    <3>2. After(p)[t].count \in Nat
      BY <1>6, <2>7
    <3> QED
      BY <3>1, <3>2
  <2> QED
    BY <2>1, <2>8, <2>9
<1>11. \A p \in Pair : CaughtUp(s.chips[p], b.chips[p], d)
  BY <1>3, <1>4, <1>7
<1> QED
  BY <1>7, <1>9, <1>10, <1>11 DEF b

(***************************************************************************)
(* The invariant, and the steps that keep it.                              *)
(***************************************************************************)

MockInv ==
  /\ Books(Now)
  /\ ago \in 0 .. MaxAgo /\ skewed \in BOOLEAN /\ started \in SUBSET Used
  /\ skewed => started = {}
  /\ FreeRuns(mos6522, started)
  /\ Covered(Now, started, ago)

(* The program stays the same one.                                         *)
OneProgram == program \in Programs

(* The time an update sees.                                                *)
LEMMA ElapsedFacts ==
  ASSUME MockInv
  PROVE  Elapsed \subseteq Nat /\ Skews \subseteq Nat /\ ago \in Nat /\ MaxAgo \in Nat
BY TimeAssumption DEF Elapsed, MockInv

(* A step that ends with an update keeps the invariant.                    *)
LEMMA LookKeeps ==
  ASSUME NEW s, Books(s), NEW timers \in SUBSET Used, FreeRuns(s.chips, timers),
         NEW d \in Nat, Becomes(mock_update_timers(s, d)), UpToDate,
         started' = timers
  PROVE  MockInv'
<1> DEFINE b == mock_update_timers(s, d)
<1>1. Books(b) /\ FreeRuns(b.chips, timers) /\ Covered(b, timers, 0)
  BY UpdateBooks
<1>2. mos6522' = b.chips /\ event_int_dusec' = b.event /\ queue' = b.queue
  BY DEF Becomes
<1> HIDE DEF b
<1>3. b \in [chips : [Pair -> Chip], event : SUBSET Int, queue : SUBSET Int]
  BY <1>1 DEF Books
<1>4. Now' = b
  <2> DEFINE C == [Pair -> Chip]
             T == SUBSET Int
  <2>1. b \in [chips : C, event : T, queue : T]
    BY <1>3
  <2>2. Now' = [chips |-> b.chips, event |-> b.event, queue |-> b.queue]
    BY <1>2 DEF Now
  <2> HIDE DEF C, T
  <2> QED
    BY <2>1, <2>2
<1>5. ago' = 0 /\ skewed' = FALSE /\ 0 \in 0 .. MaxAgo
  BY TimeAssumption DEF UpToDate
<1> QED
  BY <1>1, <1>2, <1>4, <1>5 DEF MockInv

(* Another chip of the same types leaves the event as it is.               *)
LEMMA ChipsFacts ==
  ASSUME NEW s, Books(s), NEW p \in Pair, NEW chip \in Chip
  PROVE  /\ Books(Chips(s, p, chip))
         /\ Chips(s, p, chip).chips = [s.chips EXCEPT ![p] = chip]
         /\ Chips(s, p, chip).queue = s.queue
<1> DEFINE C == [Pair -> Chip]
           T == SUBSET Int
           c == Chips(s, p, chip)
           x == [s.chips EXCEPT ![p] = chip]
<1>1. s \in [chips : C, event : T, queue : T]
  BY DEF Books
<1>2. x \in C
  BY <1>1
<1>3. c = [s EXCEPT !.chips = x]
  BY DEF Chips
<1> HIDE DEF C, T, c, x
<1>4. c \in [chips : C, event : T, queue : T] /\ c.chips = x
      /\ c.queue = s.queue /\ c.event = s.event
  BY <1>1, <1>2, <1>3
<1> QED
  BY <1>4 DEF Books, C, T, c, x

(* ... and its started timers run free if they did, or were just loaded.   *)
LEMMA ChipsRunFree ==
  ASSUME NEW s, Books(s), NEW p \in Pair, NEW chip \in Chip,
         NEW old, NEW timers \in SUBSET Used, FreeRuns(s.chips, old),
         \A u \in timers : u[1] # p => u \in old,
         <<p, "T1">> \in timers /\ "T1" \in chip.acr => ~ chip.T1.triggered
  PROVE  FreeRuns(Chips(s, p, chip).chips, timers)
<1> SUFFICES ASSUME NEW u \in timers, u[2] = "T1",
                    "T1" \in Chips(s, p, chip).chips[u[1]].acr
             PROVE  ~ Chips(s, p, chip).chips[u[1]].T1.triggered
  BY DEF FreeRuns
<1>1. u[1] \in Pair /\ u = <<u[1], "T1">>
  BY UsedAssumption
<1>2. Chips(s, p, chip).chips = [s.chips EXCEPT ![p] = chip]
  BY ChipsFacts
<1>3. s.chips \in [Pair -> Chip]
  BY DEF Books
<1>4. CASE u[1] = p
  BY <1>1, <1>2, <1>3, <1>4
<1>5. CASE u[1] # p
  BY <1>1, <1>2, <1>3, <1>5 DEF FreeRuns
<1> QED
  BY <1>4, <1>5

(* What an update of the present chips leaves.                             *)
LEMMA UpdatedFacts ==
  ASSUME MockInv, NEW d \in Nat
  PROVE  /\ Books(Updated(d)) /\ FreeRuns(Updated(d).chips, started)
         /\ Covered(Updated(d), started, 0)
         /\ \A p \in Pair : Updated(d).chips[p] \in Chip
                            /\ SameModes(mos6522[p], Updated(d).chips[p])
<1>1. Books(Now) /\ FreeRuns(Now.chips, started) /\ started \in SUBSET Used
      /\ Now.chips = mos6522
  BY DEF MockInv, Now
<1> HIDE DEF MockInv
<1> QED
  BY <1>1, UpdateBooks DEF Updated, CaughtUp

(* An access that changes the flags or the latch of a chip.                *)
LEMMA AccessKeeps ==
  ASSUME MockInv, NEW p \in Pair, NEW chip \in Chip, NEW d \in Nat,
         Becomes(mock_update_timers(Chips(Updated(d), p, chip), 0)),
         UpToDate, UNCHANGED started,
         chip.T1 = Updated(d).chips[p].T1, chip.acr = Updated(d).chips[p].acr
  PROVE  MockInv'
<1> DEFINE s == Updated(d)
<1>1. Books(s) /\ FreeRuns(s.chips, started)
  BY UpdatedFacts
<1>2. started \in SUBSET Used
  BY DEF MockInv
<1>3. Books(Chips(s, p, chip))
  BY <1>1, ChipsFacts
<1>4. <<p, "T1">> \in started /\ "T1" \in chip.acr => ~ chip.T1.triggered
  BY <1>1 DEF FreeRuns
<1> HIDE DEF s
<1>5. FreeRuns(Chips(s, p, chip).chips, started)
  BY <1>1, <1>2, <1>4, ChipsRunFree
<1> QED
  BY <1>2, <1>3, <1>5, LookKeeps DEF s

(* The latch takes a byte in either half.                                  *)
LEMMA WithLowFacts ==
  ASSUME NEW chip \in Chip, NEW t \in Timer, NEW low \in 0 .. Byte - 1
  PROVE  LET c == WithLow(chip, t, low) IN
         /\ c \in Chip /\ c.T1 = chip.T1 /\ c.T2 = chip.T2 /\ c.ifr = chip.ifr
         /\ c.ier = chip.ier /\ c.acr = chip.acr
<1>1. chip.latch[t] \in 0 .. Byte * Byte - 1
  BY ChipFields
<1>2. Byte * (chip.latch[t] \div Byte) + low \in 0 .. Byte * Byte - 1
  BY <1>1, BytesOf, BytesFit
<1> DEFINE w == Byte * (chip.latch[t] \div Byte) + low
           W == 0 .. Byte * Byte - 1
<1>3. WithLow(chip, t, low) = [chip EXCEPT !.latch = [chip.latch EXCEPT ![t] = w]]
  BY DEF WithLow
<1>4. [chip.latch EXCEPT ![t] = w] \in [Timer -> W]
  <2>1. w \in W /\ chip.latch \in [Timer -> W]
    BY <1>2, ChipFields
  <2> HIDE DEF w, W
  <2> QED
    BY <2>1
<1> HIDE DEF w
<1> QED
  BY <1>3, <1>4 DEF Chip

LEMMA WithHighFacts ==
  ASSUME NEW chip \in Chip, NEW t \in Timer, NEW high \in 0 .. Byte - 1
  PROVE  LET c == WithHigh(chip, t, high) IN
         /\ c \in Chip /\ c.T1 = chip.T1 /\ c.T2 = chip.T2 /\ c.ifr = chip.ifr
         /\ c.ier = chip.ier /\ c.acr = chip.acr
<1>1. chip.latch[t] \in 0 .. Byte * Byte - 1
  BY ChipFields
<1>2. Byte * high + (chip.latch[t] % Byte) \in 0 .. Byte * Byte - 1
  BY <1>1, BytesOf, BytesFit
<1> DEFINE w == Byte * high + (chip.latch[t] % Byte)
           W == 0 .. Byte * Byte - 1
<1>3. WithHigh(chip, t, high) = [chip EXCEPT !.latch = [chip.latch EXCEPT ![t] = w]]
  BY DEF WithHigh
<1>4. [chip.latch EXCEPT ![t] = w] \in [Timer -> W]
  <2>1. w \in W /\ chip.latch \in [Timer -> W]
    BY <1>2, ChipFields
  <2> HIDE DEF w, W
  <2> QED
    BY <2>1
<1> HIDE DEF w
<1> QED
  BY <1>3, <1>4 DEF Chip

LEMMA InitHolds == Init => MockInv
<1> SUFFICES ASSUME Init PROVE MockInv
  OBVIOUS
<1>1. ResetChip \in Chip
  BY WordFacts DEF ResetChip, Idle, Chip, Counter
<1>2. mos6522 \in [Pair -> Chip]
  BY <1>1 DEF Init
<1>3. Books(Now)
  BY <1>2 DEF Init, Books, Now, OneEvent
<1>4. 0 \in 0 .. MaxAgo
  BY TimeAssumption
<1> QED
  BY <1>3, <1>4 DEF Init, MockInv, FreeRuns, Covered, Due

LEMMA ResetKeeps == MockInv /\ mockingboard_reset => MockInv'
<1> SUFFICES ASSUME MockInv, mockingboard_reset PROVE MockInv'
  OBVIOUS
<1>1. ResetChip \in Chip
  BY WordFacts DEF ResetChip, Idle, Chip, Counter
<1>2. mos6522' \in [Pair -> Chip] /\ started' = {} /\ event_int_dusec' = {}
      /\ ago' = 0 /\ skewed' = TRUE
  BY <1>1 DEF mockingboard_reset
<1>3. queue' = {}
  <2>1. event_int_dusec = queue /\ OneEvent(queue)
    BY DEF MockInv, Books, Now
  <2>2. CASE queue = {}
    BY <2>1, <2>2 DEF mockingboard_reset
  <2>3. CASE queue # {}
    <3>1. PICK e \in Int : queue = {e}
      BY <2>1, <2>3 DEF OneEvent
    <3> QED
      BY <2>1, <3>1, MinOfOne DEF mockingboard_reset
  <2> QED
    BY <2>2, <2>3
<1> QED
  BY <1>2, <1>3, TimeAssumption DEF MockInv, Books, Now, OneEvent, FreeRuns, Covered, Due

(* An instruction brings the event nearer, and the timers' ends with it.   *)
LEMMA PassesKeeps ==
  ASSUME MockInv, NEW n \in 1 .. MaxStep, Passes(n)
  PROVE  MockInv'
<1>0. /\ ago \in Nat /\ MaxAgo \in Nat /\ MaxStep \in Nat /\ n \in Nat
      /\ ago + n <= MaxAgo
      /\ mos6522 \in [Pair -> Chip] /\ event_int_dusec = queue
      /\ OneEvent(queue)
  BY TimeAssumption DEF MockInv, Books, Now, Passes
<1>1. /\ mos6522' = mos6522 /\ skewed' = skewed /\ started' = started
      /\ event_int_dusec' = queue' /\ queue' = { e - n : e \in queue }
      /\ ago' = IF skewed THEN ago ELSE ago + n
  BY <1>0 DEF Passes
<1>2. OneEvent(queue') /\ queue' \in SUBSET Int
  <2>1. CASE queue = {}
    BY <1>1, <2>1 DEF OneEvent
  <2>2. CASE queue # {}
    <3>1. PICK e \in Int : queue = {e}
      BY <1>0, <2>2 DEF OneEvent
    <3>2. e > 0
      BY <2>2, <3>1, MinOfOne DEF Passes
    <3>3. queue' = {e - n}
      BY <1>1, <3>1
    <3>4. e - n \in Int /\ e - n > - MaxStep
      BY <1>0, <3>2
    <3> QED
      BY <3>3, <3>4 DEF OneEvent
  <2> QED
    BY <2>1, <2>2
<1>3. Books(Now')
  BY <1>0, <1>1, <1>2 DEF Books, Now
<1>4. ago' \in 0 .. MaxAgo
  BY <1>0, <1>1
<1>5. Covered(Now', started', ago')
  <2> SUFFICES ASSUME NEW p \in Pair, NEW t \in Timer,
                      Due(mos6522, started, p, "T1"), Due(mos6522, started, p, t)
               PROVE  \E e \in queue' : e <= mos6522[p][t].count - ago'
    BY <1>1 DEF Covered, Now
  <2>1. ~ skewed
    BY DEF MockInv, Due
  <2>2. ago' = ago + n
    BY <1>1, <2>1
  <2>3. PICK e \in queue : e <= mos6522[p][t].count - ago
    BY DEF MockInv, Covered, Now
  <2>5. mos6522[p][t].count \in Nat
    BY <1>0, ChipFields, WordFacts
  <2>6. e \in Int
    BY <1>0 DEF OneEvent
  <2>7. e - n <= mos6522[p][t].count - (ago + n)
    BY <1>0, <2>3, <2>5, <2>6
  <2> QED
    BY <1>1, <2>2, <2>7
<1> QED
  BY <1>1, <1>3, <1>4, <1>5 DEF MockInv

LEMMA EventKeeps == MockInv /\ mockingboard_event => MockInv'
<1> SUFFICES ASSUME MockInv, mockingboard_event PROVE MockInv'
  OBVIOUS
<1> DEFINE s == [Now EXCEPT !.event = {}, !.queue = queue \ {Min(queue)}]
<1>1. PICK d \in Elapsed : Becomes(mock_update_timers(s, d))
  BY DEF mockingboard_event, Now
<1>2. d \in Nat
  BY ElapsedFacts
<1>3. queue \ {Min(queue)} = {}
  <2>1. OneEvent(queue) /\ queue # {}
    BY DEF MockInv, Books, Now, mockingboard_event
  <2>2. PICK e \in Int : queue = {e}
    BY <2>1 DEF OneEvent
  <2> QED
    BY <2>2, MinOfOne
<1>4. s.chips = mos6522 /\ Books(s)
  BY <1>3 DEF MockInv, Books, Now, OneEvent
<1>5. started \in SUBSET Used /\ FreeRuns(mos6522, started) /\ UpToDate
      /\ started' = started
  BY DEF MockInv, mockingboard_event
<1> HIDE DEF s
<1>6. FreeRuns(s.chips, started)
  BY <1>4, <1>5
<1> QED
  BY <1>1, <1>2, <1>4, <1>5, <1>6, LookKeeps

LEMMA ReadCountKeeps == MockInv /\ ReadCount => MockInv'
<1> SUFFICES ASSUME MockInv, ReadCount PROVE MockInv'
  OBVIOUS
<1>1. PICK d \in Elapsed : Becomes(mock_update_timers(Now, d))
  BY DEF ReadCount, Updated
<1>2. d \in Nat
  BY ElapsedFacts
<1>3. Books(Now) /\ Now.chips = mos6522 /\ FreeRuns(mos6522, started)
      /\ started \in SUBSET Used
  BY DEF MockInv, Now
<1>4. UpToDate /\ started' = started /\ FreeRuns(Now.chips, started)
  BY <1>3 DEF ReadCount
<1> HIDE DEF MockInv
<1> QED
  BY <1>1, <1>2, <1>3, <1>4, LookKeeps

(* The flags are read and cleared.                                         *)
LEMMA FlagsKeep ==
  ASSUME MockInv, NEW p \in Pair, NEW d \in Nat, NEW ifr,
         ifr \subseteq Updated(d).chips[p].ifr,
         Becomes(mock_update_timers(
                   Chips(Updated(d), p, mock_6522_new_ifr(Updated(d).chips[p], ifr)), 0)),
         UpToDate, UNCHANGED started
  PROVE  MockInv'
<1> DEFINE old == Updated(d).chips[p]
           chip == mock_6522_new_ifr(old, ifr)
<1>1. old \in Chip /\ ifr \in SUBSET Timer
  BY UpdatedFacts, ChipFields
<1>2. chip \in Chip /\ chip.T1 = old.T1 /\ chip.acr = old.acr
  BY <1>1, NewIfr
<1> HIDE DEF chip
<1>3. Becomes(mock_update_timers(Chips(Updated(d), p, chip), 0))
  BY DEF chip
<1> QED
  BY <1>2, <1>3, AccessKeeps

LEMMA ReadLowKeeps ==
  ASSUME MockInv, NEW p \in Pair, NEW t \in Timer, ReadLow(p, t)
  PROVE  MockInv'
<1>1. PICK d \in Elapsed :
        Becomes(mock_update_timers(
                  Chips(Updated(d), p,
                        mock_6522_new_ifr(Updated(d).chips[p],
                                          Updated(d).chips[p].ifr \ {t})), 0))
  BY DEF ReadLow
<1>2. d \in Nat /\ UpToDate /\ UNCHANGED started
  BY ElapsedFacts DEF ReadLow
<1>3. Updated(d).chips[p].ifr \ {t} \subseteq Updated(d).chips[p].ifr
  OBVIOUS
<1> QED
  BY <1>1, <1>2, <1>3, FlagsKeep

LEMMA WriteIFRKeeps ==
  ASSUME MockInv, NEW p \in Pair, NEW val \in SUBSET Timer, WriteIFR(p, val)
  PROVE  MockInv'
<1>1. PICK d \in Elapsed :
        Becomes(mock_update_timers(
                  Chips(Updated(d), p,
                        mock_6522_new_ifr(Updated(d).chips[p],
                                          Updated(d).chips[p].ifr \ val)), 0))
  BY DEF WriteIFR
<1>2. d \in Nat /\ UpToDate /\ UNCHANGED started
  BY ElapsedFacts DEF WriteIFR
<1>3. Updated(d).chips[p].ifr \ val \subseteq Updated(d).chips[p].ifr
  OBVIOUS
<1> QED
  BY <1>1, <1>2, <1>3, FlagsKeep

LEMMA WriteIERKeeps ==
  ASSUME MockInv, NEW p \in Pair, NEW set \in BOOLEAN, NEW val \in SUBSET Timer,
         WriteIER(p, set, val)
  PROVE  MockInv'
<1>1. PICK d \in Elapsed :
        LET old == Updated(d).chips[p]
            chip == [old EXCEPT !.ier = IF set THEN old.ier \union val
                                        ELSE old.ier \ val]
        IN Becomes(mock_update_timers(
                     Chips(Updated(d), p, mock_6522_new_ifr(chip, chip.ifr)), 0))
  BY DEF WriteIER
<1> DEFINE old == Updated(d).chips[p]
           ier == IF set THEN old.ier \union val ELSE old.ier \ val
           chip == [old EXCEPT !.ier = ier]
           new == mock_6522_new_ifr(chip, chip.ifr)
<1>2. d \in Nat /\ UpToDate /\ UNCHANGED started
  BY ElapsedFacts DEF WriteIER
<1>3. old \in Chip
  BY <1>2, UpdatedFacts
<1>4. ier \in SUBSET Timer
  BY <1>3, ChipFields
<1>5. chip \in Chip /\ chip.T1 = old.T1 /\ chip.acr = old.acr
  <2> HIDE DEF old, ier
  <2> QED
    BY <1>3, <1>4 DEF Chip
<1>6. chip.ifr \in SUBSET Timer
  BY <1>5, ChipFields
<1>7. new \in Chip /\ new.T1 = chip.T1 /\ new.acr = chip.acr
  <2> HIDE DEF chip
  <2> QED
    BY <1>5, <1>6, NewIfr
<1>8. Becomes(mock_update_timers(Chips(Updated(d), p, new), 0))
  BY <1>1
<1>9. new.T1 = Updated(d).chips[p].T1 /\ new.acr = Updated(d).chips[p].acr
  BY <1>5, <1>7
<1> HIDE DEF new
<1> QED
  BY <1>2, <1>7, <1>8, <1>9, AccessKeeps

LEMMA WriteLatchHighKeeps ==
  ASSUME MockInv, NEW p \in Pair, NEW high \in 0 .. Byte - 1,
         WriteLatchHigh(p, high)
  PROVE  MockInv'
<1>1. PICK d \in Elapsed :
        LET chip == WithHigh(Updated(d).chips[p], "T1", high)
        IN Becomes(mock_update_timers(
                     Chips(Updated(d), p,
                           mock_6522_new_ifr(chip, chip.ifr \ {"T1"})), 0))
  BY DEF WriteLatchHigh
<1> DEFINE old == Updated(d).chips[p]
           chip == WithHigh(old, "T1", high)
           new == mock_6522_new_ifr(chip, chip.ifr \ {"T1"})
<1>2. d \in Nat /\ UpToDate /\ UNCHANGED started
  BY ElapsedFacts DEF WriteLatchHigh
<1>3. old \in Chip
  BY <1>2, UpdatedFacts
<1>4. chip \in Chip /\ chip.T1 = old.T1 /\ chip.acr = old.acr
  BY <1>3, WithHighFacts DEF Timer
<1>5. chip.ifr \ {"T1"} \in SUBSET Timer
  BY <1>4, ChipFields
<1>6. new \in Chip /\ new.T1 = chip.T1 /\ new.acr = chip.acr
  <2> HIDE DEF chip
  <2> QED
    BY <1>4, <1>5, NewIfr
<1>7. Becomes(mock_update_timers(Chips(Updated(d), p, new), 0))
  BY <1>1
<1>8. new.T1 = Updated(d).chips[p].T1 /\ new.acr = Updated(d).chips[p].acr
  BY <1>4, <1>6
<1> HIDE DEF new
<1> QED
  BY <1>2, <1>6, <1>7, <1>8, AccessKeeps

(* A timer that is started has not expired.                                *)
LEMMA WriteCountHighKeeps ==
  ASSUME MockInv, NEW p \in Pair, NEW t \in Timer, <<p, t>> \in Used,
         NEW high \in 0 .. Byte - 1, WriteCountHigh(p, t, high)
  PROVE  MockInv'
<1>1. PICK d \in Elapsed :
        LET chip == WithHigh(Updated(d).chips[p], t, high)
            loaded == [chip EXCEPT ![t] = [count |-> chip.latch[t] + 2,
                                           triggered |-> FALSE]]
        IN Becomes(mock_update_timers(
                     Chips(Updated(d), p,
                           mock_6522_new_ifr(loaded, loaded.ifr \ {t})), 0))
  BY DEF WriteCountHigh
<1> DEFINE s == Updated(d)
           old == s.chips[p]
           chip == WithHigh(old, t, high)
           counter == [count |-> chip.latch[t] + 2, triggered |-> FALSE]
           loaded == [chip EXCEPT ![t] = counter]
           new == mock_6522_new_ifr(loaded, loaded.ifr \ {t})
           timers == started \union {<<p, t>>}
<1>2. d \in Nat /\ UpToDate /\ started' = timers
  BY ElapsedFacts DEF WriteCountHigh
<1>3. old \in Chip /\ Books(s) /\ FreeRuns(s.chips, started)
  BY <1>2, UpdatedFacts
<1>4. chip \in Chip /\ chip.T1 = old.T1 /\ chip.acr = old.acr
  BY <1>3, WithHighFacts
<1>5. counter \in Counter
  <2>1. chip.latch[t] \in 0 .. Byte * Byte - 1 /\ Byte * Byte \in Nat
    BY <1>4, ChipFields, WordFacts
  <2>2. chip.latch[t] + 2 \in 0 .. Byte * Byte + 1
    BY <2>1
  <2> QED
    BY <2>2 DEF Counter
<1>6. /\ loaded \in Chip /\ loaded.acr = old.acr
      /\ loaded.T1 = IF t = "T1" THEN counter ELSE old.T1
  <2> HIDE DEF chip, counter
  <2>1. CASE t = "T1"
    BY <1>4, <1>5, <2>1 DEF Chip
  <2>2. CASE t = "T2"
    BY <1>4, <1>5, <2>2 DEF Chip
  <2> QED
    BY <2>1, <2>2 DEF Timer
<1>7. loaded.ifr \ {t} \in SUBSET Timer
  BY <1>6, ChipFields
<1>8. new \in Chip /\ new.T1 = loaded.T1 /\ new.acr = loaded.acr
  <2> HIDE DEF loaded
  <2> QED
    BY <1>6, <1>7, NewIfr
<1>9. Becomes(mock_update_timers(Chips(s, p, new), 0))
  BY <1>1
<1>10. timers \in SUBSET Used
  BY DEF MockInv
<1>11. <<p, "T1">> \in timers /\ "T1" \in new.acr => ~ new.T1.triggered
  <2> HIDE DEF new, loaded, s
  <2>1. CASE t = "T1"
    BY <1>6, <1>8, <2>1
  <2>2. CASE t # "T1"
    <3>1. <<p, "T1">> \in timers => <<p, "T1">> \in started
      BY <2>2
    <3>2. <<p, "T1">> \in started /\ "T1" \in old.acr => ~ old.T1.triggered
      BY <1>3 DEF FreeRuns
    <3>3. new.T1 = old.T1 /\ new.acr = old.acr
      BY <1>6, <1>8, <2>2
    <3> HIDE DEF old, timers
    <3> QED
      BY <3>1, <3>2, <3>3
  <2> QED
    BY <2>1, <2>2
<1>12. \A u \in timers : u[1] # p => u \in started
  OBVIOUS
<1> HIDE DEF new, loaded, s, old, chip, timers
<1>13. Books(Chips(s, p, new)) /\ FreeRuns(Chips(s, p, new).chips, timers)
  BY <1>3, <1>8, <1>10, <1>11, <1>12, ChipsFacts, ChipsRunFree
<1> QED
  BY <1>2, <1>9, <1>10, <1>13, LookKeeps

(* What a lazy update leaves.                                              *)
LEMMA LazilyFacts ==
  ASSUME MockInv
  PROVE  /\ Books(Lazily) /\ FreeRuns(Lazily.chips, started)
         /\ Covered(Lazily, started, 0)
         /\ \A p \in Pair : Lazily.chips[p] \in Chip
                            /\ Lazily.chips[p].acr = mos6522[p].acr
<1>1. Now.chips = mos6522 /\ mos6522 \in [Pair -> Chip]
  BY DEF MockInv, Books, Now
<1>2. CASE skewed
  <2>1. Lazily = Now /\ started = {}
    BY <1>2 DEF Lazily, MockInv
  <2> QED
    BY <1>1, <2>1 DEF MockInv, FreeRuns, Covered, Due
<1>3. CASE ~ skewed /\ ago = 0
  <2>1. Lazily = Now /\ Covered(Now, started, 0)
    BY <1>3 DEF Lazily, MockInv
  <2> QED
    BY <1>1, <2>1 DEF MockInv
<1>4. CASE ~ skewed /\ ago # 0
  <2>1. Lazily = Updated(ago) /\ ago \in Nat
    BY <1>4, ElapsedFacts DEF Lazily
  <2> QED
    BY <2>1, UpdatedFacts DEF SameModes
<1> QED
  BY <1>2, <1>3, <1>4

(* The low byte of a latch changes nothing an interrupt depends on.        *)
LEMMA WriteLowKeeps ==
  ASSUME MockInv, NEW p \in Pair, NEW t \in Timer, NEW low \in 0 .. Byte - 1,
         WriteLow(p, t, low)
  PROVE  MockInv'
<1> DEFINE s == IF t = "T1" THEN Lazily ELSE Now
           chip == WithLow(s.chips[p], t, low)
           new == Chips(s, p, chip)
<1>1. /\ Books(s) /\ FreeRuns(s.chips, started) /\ Covered(s, started, ago')
      /\ ago' \in 0 .. MaxAgo /\ skewed' \in BOOLEAN
      /\ skewed' => started = {}
  <2>1. CASE t = "T1" /\ ~ skewed
    <3>1. UpToDate
      BY <2>1 DEF WriteLow
    <3>2. ago' = 0 /\ skewed' = FALSE /\ 0 \in 0 .. MaxAgo
      BY <3>1, TimeAssumption DEF UpToDate
    <3> QED
      BY <2>1, <3>2, LazilyFacts
  <2>2. CASE t = "T1" /\ skewed
    <3>1. ago' = ago /\ skewed' = skewed /\ started = {}
      BY <2>2 DEF WriteLow, MockInv
    <3> QED
      BY <2>2, <3>1, LazilyFacts DEF MockInv, Covered, Due
  <2>3. CASE t # "T1"
    <3>1. t = "T2"
      BY <2>3 DEF Timer
    <3>2. ago' = ago /\ skewed' = skewed
      BY <3>1 DEF WriteLow
    <3> QED
      BY <2>3, <3>2 DEF MockInv, Now
  <2> QED
    BY <2>1, <2>2, <2>3
<1>2. Becomes(new) /\ started' = started /\ started \in SUBSET Used
  BY DEF WriteLow, MockInv
<1>3. s.chips \in [Pair -> Chip] /\ s.chips[p] \in Chip
  BY <1>1 DEF Books
<1> HIDE DEF s
<1>4. /\ chip \in Chip /\ chip.T1 = s.chips[p].T1 /\ chip.T2 = s.chips[p].T2
      /\ chip.ifr = s.chips[p].ifr /\ chip.ier = s.chips[p].ier
      /\ chip.acr = s.chips[p].acr
  BY <1>3, WithLowFacts
<1> HIDE DEF chip
<1>5. Books(new) /\ new.chips = [s.chips EXCEPT ![p] = chip]
      /\ new.queue = s.queue
  BY <1>1, <1>4, ChipsFacts
<1> HIDE DEF new
<1>6. \A q \in Pair : /\ new.chips[q].T1 = s.chips[q].T1
                      /\ new.chips[q].T2 = s.chips[q].T2
                      /\ new.chips[q].ifr = s.chips[q].ifr
                      /\ new.chips[q].ier = s.chips[q].ier
                      /\ new.chips[q].acr = s.chips[q].acr
  BY <1>3, <1>4, <1>5
<1>7. \A u \in started : u[1] \in Pair /\ u[2] \in Timer
  BY <1>2, UsedAssumption
<1>8. FreeRuns(new.chips, started)
  BY <1>1, <1>6, <1>7 DEF FreeRuns
<1>9. Covered(new, started, ago')
  <2> SUFFICES ASSUME NEW q \in Pair, NEW v \in Timer,
                      Due(new.chips, started, q, "T1"), Due(new.chips, started, q, v)
               PROVE  \E e \in new.queue : e <= new.chips[q][v].count - ago'
    BY DEF Covered
  <2>1. \A w \in Timer : new.chips[q][w] = s.chips[q][w]
    BY <1>6 DEF Timer
  <2>2. Due(s.chips, started, q, "T1") /\ Due(s.chips, started, q, v)
    BY <1>6, <2>1 DEF Wants, Due, Timer
  <2>3. PICK e \in s.queue : e <= s.chips[q][v].count - ago'
    BY <1>1, <2>2 DEF Covered
  <2> QED
    BY <1>5, <2>1, <2>3
<1>10. Now' = new /\ mos6522' = new.chips
  <2>1. Now' = [chips |-> new.chips, event |-> new.event, queue |-> new.queue]
        /\ mos6522' = new.chips
    BY <1>2 DEF Becomes, Now
  <2> DEFINE C == [Pair -> Chip]
             T == SUBSET Int
  <2>2. new \in [chips : C, event : T, queue : T]
    BY <1>5 DEF Books
  <2> HIDE DEF C, T
  <2> QED
    BY <2>1, <2>2
<1> QED
  BY <1>1, <1>2, <1>5, <1>8, <1>9, <1>10 DEF MockInv

(* A timer whose mode changes is no longer one started in its mode.        *)
LEMMA WriteACRKeeps ==
  ASSUME MockInv, NEW p \in Pair, NEW val \in SUBSET Timer, WriteACR(p, val)
  PROVE  MockInv'
<1> DEFINE s == Lazily
           chip == [s.chips[p] EXCEPT !.acr = val]
           timers == started \
             { <<p, t>> : t \in { u \in Timer : (u \in val) # (u \in mos6522[p].acr) } }
<1>1. PICK d \in IF skewed THEN Skews ELSE {0} :
        Becomes(mock_update_timers(Chips(s, p, chip), d))
  BY DEF WriteACR
<1>2. d \in Nat /\ UpToDate /\ started' = timers
  BY <1>1, ElapsedFacts DEF WriteACR
<1>3. /\ Books(s) /\ FreeRuns(s.chips, started) /\ s.chips[p] \in Chip
      /\ s.chips[p].acr = mos6522[p].acr
  BY LazilyFacts
<1> HIDE DEF s
<1>4. chip \in Chip /\ chip.acr = val /\ chip.T1 = s.chips[p].T1
  BY <1>3 DEF Chip
<1>5. timers \in SUBSET Used /\ timers \subseteq started
  BY DEF MockInv
<1>6. <<p, "T1">> \in timers /\ "T1" \in chip.acr => ~ chip.T1.triggered
  <2> SUFFICES ASSUME <<p, "T1">> \in timers, "T1" \in val
               PROVE  ~ s.chips[p].T1.triggered
    BY <1>4
  <2>1. <<p, "T1">> \in started
    BY <1>5
  <2>2. "T1" \in mos6522[p].acr
    BY DEF Timer
  <2> QED
    BY <1>3, <2>1, <2>2 DEF FreeRuns
<1>7. \A u \in timers : u[1] # p => u \in started
  BY <1>5
<1> HIDE DEF chip, timers
<1>8. Books(Chips(s, p, chip)) /\ FreeRuns(Chips(s, p, chip).chips, timers)
  BY <1>3, <1>4, <1>5, <1>6, <1>7, ChipsFacts, ChipsRunFree
<1> QED
  BY <1>1, <1>2, <1>5, <1>8, LookKeeps

LEMMA AccessesKeep == MockInv /\ program \in Programs /\ Access => MockInv'
<1> SUFFICES ASSUME MockInv, program \in Programs, Access PROVE MockInv'
  OBVIOUS
<1>1. CASE ReadCount
  BY <1>1, ReadCountKeeps
<1>2. ASSUME NEW u \in DOMAIN program,
             \/ ReadLow(u[1], u[2])
             \/ \E low \in program[u] : WriteLow(u[1], u[2], low)
             \/ \E high \in Highs : WriteCountHigh(u[1], u[2], high)
             \/ u[2] = "T1" /\ \E high \in Highs : WriteLatchHigh(u[1], high)
      PROVE  MockInv'
  <2>1. u[1] \in Pair /\ u[2] \in Timer /\ <<u[1], u[2]>> \in Used /\ u \in Used
    BY UsedAssumption DEF Used
  <2>2. program[u] \subseteq 0 .. Byte - 1 /\ Highs \subseteq 0 .. Byte - 1
    BY <2>1, UsedAssumption, ByteAssumption
  <2>3. CASE ReadLow(u[1], u[2])
    BY <2>1, <2>3, ReadLowKeeps
  <2>4. ASSUME NEW low \in program[u], WriteLow(u[1], u[2], low)
        PROVE  MockInv'
    BY <2>1, <2>2, <2>4, WriteLowKeeps
  <2>5. ASSUME NEW high \in Highs, WriteCountHigh(u[1], u[2], high)
        PROVE  MockInv'
    BY <2>1, <2>2, <2>5, WriteCountHighKeeps
  <2>6. ASSUME NEW high \in Highs, WriteLatchHigh(u[1], high)
        PROVE  MockInv'
    BY <2>1, <2>2, <2>6, WriteLatchHighKeeps
  <2> QED
    BY <1>2, <2>3, <2>4, <2>5, <2>6
<1>3. ASSUME NEW p \in Pair, NEW val \in SUBSET UsedOf(p),
             \/ WriteACR(p, val)
             \/ val # {} /\ WriteIFR(p, val)
             \/ val # {} /\ \E set \in BOOLEAN : WriteIER(p, set, val)
      PROVE  MockInv'
  <2>1. val \in SUBSET Timer
    BY DEF UsedOf
  <2> QED
    BY <1>3, <2>1, WriteACRKeeps, WriteIFRKeeps, WriteIERKeeps
<1> QED
  BY <1>1, <1>2, <1>3 DEF Access

LEMMA NextKeeps ==
  MockInv /\ OneProgram /\ [Next]_vars => MockInv' /\ OneProgram'
<1> SUFFICES ASSUME MockInv, OneProgram, [Next]_vars
             PROVE  MockInv' /\ OneProgram'
  OBVIOUS
<1>0. OneProgram'
  BY DEF Next, vars, OneProgram
<1>1. ASSUME NEW n \in 1 .. MaxStep, Passes(n) PROVE MockInv'
  BY <1>1, PassesKeeps
<1>2. CASE mockingboard_event
  BY <1>0, <1>2, EventKeeps
<1>3. CASE mockingboard_reset
  BY <1>0, <1>3, ResetKeeps
<1>4. CASE Access
  BY <1>0, <1>4, AccessesKeep DEF OneProgram
<1>5. CASE UNCHANGED vars
  BY <1>0, <1>5 DEF vars, MockInv, Now
<1> QED
  BY <1>0, <1>1, <1>2, <1>3, <1>4, <1>5 DEF Next

LEMMA MockInvHolds == Spec => [](MockInv /\ OneProgram)
<1>1. Init => OneProgram
  BY DEF Init, OneProgram
<1> QED
  BY <1>1, InitHolds, NextKeeps, PTL DEF Spec

(***************************************************************************)
(* The first results.                                                      *)
(***************************************************************************)

(* Every count, latch and flag of both chips keeps its width, the event of  *)
(* all four timers is one at most, and the guest is never longer away than  *)
(* MaxAgo (mock_update_timers, mock_6522_write).                            *)
THEOREM TimersTypeCorrect == Spec => []TypeOK
<1>1. MockInv /\ OneProgram => TypeOK
  <2> SUFFICES ASSUME MockInv, OneProgram PROVE TypeOK
    OBVIOUS
  <2>1. mos6522 \in [Pair -> Chip] /\ event_int_dusec = queue /\ OneEvent(queue)
    BY DEF MockInv, Books, Now
  <2>2. Cardinality(event_int_dusec) <= 1
    <3>1. CASE queue = {}
      BY <2>1, <3>1, FS_EmptySet
    <3>2. ASSUME NEW e \in Int, queue = {e} PROVE Cardinality(queue) = 1
      BY <3>2, FS_Singleton
    <3> QED
      BY <2>1, <3>1, <3>2 DEF OneEvent
  <2> QED
    BY <2>1, <2>2 DEF MockInv, OneProgram, TypeOK
<1> QED
  BY <1>1, MockInvHolds, PTL

(* However accesses, instructions, events and resets follow each other,     *)
(* the one event of the four timers is booked no later than the expiry of   *)
(* every started timer 1 that will interrupt, and of the timer 2 beside it, *)
(* and no such expiry is an instruction past (mock_update_timers,           *)
(* mockingboard_event).  Of a timer 2 whose timer 1 will not interrupt it   *)
(* says nothing: the code books no event for it.                            *)
THEOREM ExpiriesAreBooked == Spec => []ExpiryBooked
<1>1. MockInv => ExpiryBooked
  <2> SUFFICES ASSUME MockInv PROVE ExpiryBooked
    OBVIOUS
  <2>1. event_int_dusec = queue /\ OneEvent(queue) /\ mos6522 \in [Pair -> Chip]
    BY DEF MockInv, Books, Now
  <2>2. ASSUME NEW u \in Running, <<u[1], "T1">> \in Running
        PROVE  LET expiry == mos6522[u[1]][u[2]].count - ago IN
               expiry > - MaxStep /\ \E e \in queue : e <= expiry
    <3>0. u[1] \in Pair /\ u[2] \in Timer /\ u = <<u[1], u[2]>>
      BY UsedAssumption DEF MockInv, Running
    <3>1. Due(mos6522, started, u[1], "T1") /\ Due(mos6522, started, u[1], u[2])
      BY <2>2, <3>0 DEF Armed, Wants, Due, Running
    <3>2. PICK e \in queue : e <= mos6522[u[1]][u[2]].count - ago
      BY <3>0, <3>1 DEF MockInv, Covered, Now
    <3>3. e \in Int /\ e > - MaxStep
      BY <2>1 DEF OneEvent
    <3>4. mos6522[u[1]][u[2]].count \in Nat /\ ago \in Nat /\ MaxStep \in Nat
      <4> QED
        BY <2>1, <3>0, ChipFields, WordFacts, ElapsedFacts, TimeAssumption
    <3>5. mos6522[u[1]][u[2]].count - ago > - MaxStep
      BY <3>2, <3>3, <3>4
    <3> QED
      BY <3>2, <3>5
  <2> QED
    BY <2>1, <2>2 DEF ExpiryBooked
<1> QED
  BY <1>1, MockInvHolds, PTL

(***************************************************************************)
(* Catching up is counting.                                                *)
(***************************************************************************)

CatchUp(chip, t, n) == IF t = "T1" THEN Timer1(chip, n) ELSE Timer2(chip, n)

(* The timer counts, in a mode in which it can have been started.          *)
Countable(chip, t) ==
  /\ chip \in Chip /\ t \in Timer
  /\ chip[t].count > 0 \/ (t = "T2" /\ chip.T2.triggered)
  /\ t = "T1" /\ "T1" \in chip.acr => ~ chip.T1.triggered

(* The pieces CatchUp and Counted are both made of: a timer loaded, its     *)
(* flag raised unless it had expired before, whether it then counts as     *)
(* expired, and the count it has come to when it ran out before.           *)
Loaded(chip, t, counter) == [chip EXCEPT ![t] = counter]
Flagged(chip, t) ==
  IF chip[t].triggered THEN chip
  ELSE mock_6522_new_ifr(chip, chip.ifr \union {t})
Once(chip, t) == t = "T2" \/ "T1" \notin chip.acr
Past(chip, t, n) ==
  IF t = "T1" THEN Reloaded(chip, n - chip.T1.count)
  ELSE (chip.T2.count - n) % (Byte * Byte)
PulsesOnly(chip, t) == t = "T2" /\ "T2" \in chip.acr

LEMMA LoadedFacts ==
  ASSUME NEW chip \in Chip, NEW t \in Timer, NEW x \in Counter
  PROVE  LET c == Loaded(chip, t, x) IN
         /\ c \in Chip /\ c[t] = x /\ SameModes(chip, c) /\ c.ifr = chip.ifr
         /\ \A y \in Counter : Loaded(c, t, y) = Loaded(chip, t, y)
         /\ \A ifr \in SUBSET Timer :
              mock_6522_new_ifr(c, ifr) = Loaded(mock_6522_new_ifr(chip, ifr), t, x)
         /\ Loaded(chip, t, chip[t]) = chip
<1>1. CASE t = "T1"
  BY <1>1 DEF Loaded, SameModes, mock_6522_new_ifr, Chip
<1>2. CASE t = "T2"
  BY <1>2 DEF Loaded, SameModes, mock_6522_new_ifr, Chip
<1> QED
  BY <1>1, <1>2 DEF Timer

LEMMA FlaggedFacts ==
  ASSUME NEW chip \in Chip, NEW t \in Timer
  PROVE  LET k == Flagged(chip, t) IN
         /\ k \in Chip /\ SameModes(chip, k) /\ k.T1 = chip.T1 /\ k.T2 = chip.T2
         /\ ~ chip[t].triggered =>
              t \in k.ifr /\ mock_6522_new_ifr(k, k.ifr \union {t}) = k
<1>1. CASE chip[t].triggered
  BY <1>1 DEF Flagged, SameModes
<1>2. CASE ~ chip[t].triggered
  <2>1. chip.ifr \union {t} \in SUBSET Timer
    BY ChipFields
  <2>2. Flagged(chip, t) = mock_6522_new_ifr(chip, chip.ifr \union {t})
    BY <1>2 DEF Flagged
  <2> DEFINE ifr == chip.ifr \union {t}
             k == mock_6522_new_ifr(chip, ifr)
  <2>3. /\ k \in Chip /\ k.ifr = ifr /\ k.T1 = chip.T1 /\ k.T2 = chip.T2
        /\ SameModes(chip, k)
    BY <2>1, NewIfr DEF SameModes
  <2>4. ifr \union {t} = ifr /\ t \in ifr
    OBVIOUS
  <2>5. mock_6522_new_ifr(k, ifr) = k
    <3> HIDE DEF ifr
    <3> QED
      BY DEF mock_6522_new_ifr, Chip
  <2> QED
    BY <2>2, <2>3, <2>4, <2>5
<1> QED
  BY <1>1, <1>2

(* What the count comes to, and what follows it.                           *)
LEMMA PastFacts ==
  ASSUME NEW chip \in Chip, NEW t \in Timer, NEW n \in Nat, n >= chip[t].count
  PROVE  /\ Past(chip, t, n) \in 0 .. Byte * Byte + 1
         /\ n = chip[t].count => Past(chip, t, n) = 0
         /\ Past(chip, t, n) = 0 => Past(chip, t, n + 1) = CountedFrom0(chip, t)
         /\ Past(chip, t, n) # 0 => Past(chip, t, n + 1) = Past(chip, t, n) - 1
<1>0. /\ chip[t].count \in Nat /\ Byte * Byte \in Nat /\ Byte * Byte > 0
      /\ chip.latch["T1"] \in 0 .. Byte * Byte - 1
  BY ChipFields, WordFacts DEF Timer
<1>1. CASE t = "T1"
  <2> DEFINE p == chip.latch["T1"] + 2
             over == n - chip.T1.count
             Back(m) == p - (IF m = 0 THEN p ELSE m)
  <2>1. p \in Nat /\ p >= 2 /\ over \in Nat /\ (n + 1) - chip.T1.count = over + 1
    BY <1>0, <1>1
  <2>2. Past(chip, t, n) = Back(over % p)
        /\ Past(chip, t, n + 1) = Back((over + 1) % p)
    BY <1>1, <2>1 DEF Past, Reloaded
  <2>3. over % p \in 0 .. p - 1
    BY <2>1, ModRange
  <2>4. (over + 1) % p = IF over % p = p - 1 THEN 0 ELSE (over % p) + 1
    <3> HIDE DEF p, over
    <3>1. p > 0 /\ over \in Int
      BY <2>1
    <3> QED
      BY <2>1, <3>1, ModNext
  <2>5. CountedFrom0(chip, t) = p - 1 /\ p <= Byte * Byte + 1
    BY <1>0, <1>1 DEF CountedFrom0
  <2>6. n = chip[t].count => over = 0
    BY <1>0, <1>1
  <2>7. 0 % p = 0
    <3>1. 0 % p \in 0 .. p - 1 /\ 0 = p * (0 \div p) + (0 % p) /\ 0 \div p \in Int
      BY <2>1, ModRange, DivMod
    <3>2. p * 0 + 0 = 0 /\ 0 \in 0 .. p - 1
      BY <2>1
    <3> HIDE DEF p
    <3> QED
      BY <2>1, <3>1, <3>2, Unique
  <2> HIDE DEF p, over
  <2>8. Past(chip, t, n) \in 0 .. p - 1
    BY <2>1, <2>2, <2>3
  <2>9. n = chip[t].count => Past(chip, t, n) = 0
    BY <2>1, <2>2, <2>6, <2>7
  <2>10. Past(chip, t, n) = 0 => Past(chip, t, n + 1) = p - 1
    BY <2>1, <2>2, <2>3, <2>4
  <2>11. Past(chip, t, n) # 0 => Past(chip, t, n + 1) = Past(chip, t, n) - 1
    BY <2>1, <2>2, <2>3, <2>4
  <2> QED
    BY <1>0, <2>1, <2>5, <2>8, <2>9, <2>10, <2>11
<1>2. CASE t = "T2"
  <2> DEFINE p == Byte * Byte
             x == chip.T2.count - n
  <2>1. p \in Nat /\ p > 0 /\ x \in Int /\ chip.T2.count - (n + 1) = x - 1
        /\ x - 1 \in Int /\ (x - 1) + 1 = x
    BY <1>0, <1>2
  <2>2. Past(chip, t, n) = x % p /\ Past(chip, t, n + 1) = (x - 1) % p
    BY <1>2, <2>1 DEF Past
  <2>3. x % p \in 0 .. p - 1 /\ (x - 1) % p \in 0 .. p - 1
    BY <2>1, ModRange
  <2>4. x % p = IF (x - 1) % p = p - 1 THEN 0 ELSE ((x - 1) % p) + 1
    <3> HIDE DEF p, x
    <3>1. ((x - 1) + 1) % p = IF (x - 1) % p = p - 1 THEN 0 ELSE ((x - 1) % p) + 1
      BY <2>1, ModNext
    <3> QED
      BY <2>1, <3>1
  <2>5. CountedFrom0(chip, t) = p - 1
    BY <1>2 DEF CountedFrom0
  <2>6. n = chip[t].count => x = 0
    BY <1>0, <1>2
  <2>7. 0 % p = 0
    <3>1. 0 % p \in 0 .. p - 1 /\ 0 = p * (0 \div p) + (0 % p) /\ 0 \div p \in Int
      BY <2>1, ModRange, DivMod
    <3>2. p * 0 + 0 = 0 /\ 0 \in 0 .. p - 1
      BY <2>1
    <3> HIDE DEF p
    <3> QED
      BY <2>1, <3>1, <3>2, Unique
  <2>8. p = Byte * Byte
    OBVIOUS
  <2> HIDE DEF p, x
  <2> QED
    BY <2>1, <2>2, <2>3, <2>4, <2>5, <2>6, <2>7, <2>8
<1> QED
  BY <1>1, <1>2 DEF Timer

LEMMA CatchUpIs ==
  ASSUME NEW chip \in Chip, NEW t \in Timer, ~ PulsesOnly(chip, t), NEW n \in Nat
  PROVE  /\ n < chip[t].count =>
              CatchUp(chip, t, n) =
                Loaded(chip, t, [count |-> chip[t].count - n,
                                 triggered |-> chip[t].triggered])
         /\ n >= chip[t].count =>
              CatchUp(chip, t, n) =
                Loaded(Flagged(chip, t), t, [count |-> Past(chip, t, n),
                                             triggered |-> Once(chip, t)])
<1>0. chip[t].count \in Nat /\ chip[t] \in Counter
  BY ChipFields, WordFacts
<1>1. CASE t = "T1"
  <2>1. CASE n < chip[t].count
    <3>1. CatchUp(chip, t, n) = [chip EXCEPT !.T1.count = chip.T1.count - n]
      BY <1>1, <2>1 DEF CatchUp, Timer1
    <3> QED
      BY <1>0, <1>1, <2>1, <3>1 DEF Loaded, Counter, Chip
  <2>2. CASE n >= chip[t].count
    <3>1. ~ (n < chip.T1.count)
      BY <1>0, <1>1, <2>2
    <3> QED
      BY <1>1, <3>1 DEF CatchUp, Timer1, Loaded, Flagged, Past, Once
  <2> QED
    BY <1>0, <2>1, <2>2
<1>2. CASE t = "T2"
  <2>0. "T2" \notin chip.acr
    BY <1>2 DEF PulsesOnly
  <2>1. CASE n < chip[t].count
    <3>1. CatchUp(chip, t, n) = [chip EXCEPT !.T2.count = chip.T2.count - n]
      BY <1>2, <2>0, <2>1 DEF CatchUp, Timer2
    <3> QED
      BY <1>0, <1>2, <2>1, <3>1 DEF Loaded, Counter, Chip
  <2>2. CASE n >= chip[t].count
    <3>1. ~ (n < chip.T2.count)
      BY <1>0, <1>2, <2>2
    <3> QED
      BY <1>2, <2>0, <3>1 DEF CatchUp, Timer2, Loaded, Flagged, Past, Once
  <2> QED
    BY <1>0, <2>1, <2>2
<1> QED
  BY <1>1, <1>2 DEF Timer

LEMMA CountedIs ==
  ASSUME NEW c \in Chip, NEW t \in Timer, ~ PulsesOnly(c, t)
  PROVE  /\ c[t].count = 0 =>
              Counted(c, t) = Loaded(c, t, [count |-> CountedFrom0(c, t),
                                            triggered |-> c[t].triggered])
         /\ c[t].count = 1 =>
              Counted(c, t) = Loaded(Flagged(c, t), t, [count |-> 0,
                                                        triggered |-> Once(c, t)])
         /\ c[t].count > 1 =>
              Counted(c, t) = Loaded(c, t, [count |-> c[t].count - 1,
                                            triggered |-> c[t].triggered])
<1>0. c[t] \in Counter /\ ~ (t = "T2" /\ "T2" \in c.acr) /\ c[t].count \in Nat
  BY ChipFields, WordFacts DEF PulsesOnly
<1>1. CASE c[t].count = 0
  <2>1. Counted(c, t) = [c EXCEPT ![t].count = CountedFrom0(c, t)]
    BY <1>0, <1>1 DEF Counted
  <2> DEFINE v == CountedFrom0(c, t)
             x == [c[t] EXCEPT !.count = v]
  <2>2. x = [count |-> v, triggered |-> c[t].triggered]
    <3> HIDE DEF v
    <3> QED
      BY <1>0 DEF Counter
  <2>3. [c EXCEPT ![t].count = v] = [c EXCEPT ![t] = x]
    OBVIOUS
  <2>4. Counted(c, t) = Loaded(c, t, x)
    BY <2>1, <2>3 DEF Loaded
  <2>5. Counted(c, t) = Loaded(c, t, [count |-> v, triggered |-> c[t].triggered])
    BY <2>2, <2>4
  <2> QED
    BY <1>1, <2>5
<1>2. CASE c[t].count # 0
  <2>1. Counted(c, t) =
          Loaded(RanOut(c, t), t,
                 [count |-> c[t].count - 1,
                  triggered |-> IF c[t].count = 1 THEN Once(c, t)
                                ELSE c[t].triggered])
    BY <1>0, <1>2 DEF Counted, Loaded, Once
  <2>2. c[t].count = 1 => RanOut(c, t) = Flagged(c, t)
    BY DEF RanOut, Flagged
  <2>3. c[t].count # 1 => RanOut(c, t) = c
    BY DEF RanOut
  <2> QED
    BY <1>0, <1>2, <2>1, <2>2, <2>3
<1> QED
  BY <1>1, <1>2

LEMMA CatchUpFrom ==
  ASSUME NEW chip, NEW t, Countable(chip, t)
  PROVE  CatchUp(chip, t, 0) = chip
<1>0. chip \in Chip /\ t \in Timer /\ chip[t] \in Counter /\ chip[t].count \in Nat
  BY ChipFields, WordFacts DEF Countable
<1>1. CASE chip[t].count > 0
  <2>1. [count |-> chip[t].count - 0, triggered |-> chip[t].triggered] = chip[t]
    BY <1>0 DEF Counter
  <2>2. CASE ~ PulsesOnly(chip, t)
    <3>1. CatchUp(chip, t, 0) = Loaded(chip, t, chip[t])
      BY <1>0, <1>1, <2>1, <2>2, CatchUpIs
    <3> QED
      BY <1>0, <3>1, LoadedFacts
  <2>3. CASE PulsesOnly(chip, t)
    <3>1. CatchUp(chip, t, 0) = [chip EXCEPT !.T2.count = chip.T2.count - 0]
          /\ t = "T2"
      BY <1>0, <1>1, <2>3 DEF CatchUp, Timer2, PulsesOnly
    <3>2. chip.T2.count - 0 = chip.T2.count
      BY <1>0, <3>1
    <3> QED
      BY <1>0, <3>1, <3>2 DEF Chip, Counter
  <2> QED
    BY <2>2, <2>3
<1>2. CASE ~ (chip[t].count > 0)
  <2>1. t = "T2" /\ chip.T2.triggered /\ chip.T2.count = 0
    BY <1>0, <1>2 DEF Countable
  <2>2. 0 - 0 = 0 /\ chip.T2 \in Counter
    BY <1>0, <2>1
  <2>3. 0 % (Byte * Byte) = 0
    <3>1. Past(chip, t, 0) = 0 /\ Past(chip, t, 0) = 0 % (Byte * Byte)
      BY <1>0, <2>1, <2>2, PastFacts DEF Past
    <3> QED
      BY <3>1
  <2>4. CatchUp(chip, t, 0) = [chip EXCEPT !.T2 = [count |-> 0, triggered |-> TRUE]]
    <3>1. (IF "T2" \in chip.acr THEN 0 ELSE 0) = 0 /\ ~ (0 < 0) /\ t # "T1"
      BY <2>1
    <3> QED
      BY <2>1, <2>2, <2>3, <3>1 DEF CatchUp, Timer2
  <2>5. [count |-> 0, triggered |-> TRUE] = chip.T2
    BY <2>1, <2>2 DEF Counter
  <2> QED
    BY <1>0, <2>4, <2>5 DEF Chip
<1> QED
  BY <1>1, <1>2

(* Counting one more microsecond is catching up one more.                  *)
LEMMA CatchUpStep ==
  ASSUME NEW chip, NEW t, Countable(chip, t), NEW n \in Nat
  PROVE  Counted(CatchUp(chip, t, n), t) = CatchUp(chip, t, n + 1)
<1>0. /\ chip \in Chip /\ t \in Timer /\ chip[t] \in Counter
      /\ chip[t].count \in Nat /\ chip[t].triggered \in BOOLEAN
      /\ Byte * Byte \in Nat /\ chip[t].count <= Byte * Byte + 1
  BY ChipFields, WordFacts DEF Countable
<1>1. CASE PulsesOnly(chip, t)
  <2>1. CatchUp(chip, t, n) = CatchUp(chip, t, 0)
        /\ CatchUp(chip, t, n + 1) = CatchUp(chip, t, 0)
    BY <1>1 DEF PulsesOnly, CatchUp, Timer2
  <2>2. Counted(chip, t) = chip
    BY <1>1 DEF PulsesOnly, Counted
  <2> QED
    BY <2>1, <2>2, CatchUpFrom
<1>2. CASE ~ PulsesOnly(chip, t) /\ n < chip[t].count
  <2> DEFINE x == [count |-> chip[t].count - n, triggered |-> chip[t].triggered]
             c == CatchUp(chip, t, n)
  <2>1. x \in Counter /\ x.count = chip[t].count - n /\ x.count # 0
        /\ x.triggered = chip[t].triggered
    BY <1>0, <1>2 DEF Counter
  <2>2. c = Loaded(chip, t, x)
    BY <1>0, <1>2, CatchUpIs
  <2> HIDE DEF c, x
  <2>3. /\ c \in Chip /\ c[t] = x /\ SameModes(chip, c) /\ c.ifr = chip.ifr
        /\ \A y \in Counter : Loaded(c, t, y) = Loaded(chip, t, y)
        /\ \A ifr \in SUBSET Timer :
             mock_6522_new_ifr(c, ifr) = Loaded(mock_6522_new_ifr(chip, ifr), t, x)
    BY <1>0, <2>1, <2>2, LoadedFacts
  <2>4. ~ PulsesOnly(c, t) /\ Once(c, t) = Once(chip, t)
    BY <1>2, <2>3 DEF PulsesOnly, SameModes, Once
  <2>5. CASE n + 1 < chip[t].count
    <3> DEFINE y == [count |-> x.count - 1, triggered |-> x.triggered]
    <3>1. x.count > 1 /\ x.count - 1 = chip[t].count - (n + 1)
      BY <1>0, <2>1, <2>5
    <3>2. Counted(c, t) = Loaded(c, t, y)
      BY <1>0, <2>3, <2>4, <3>1, CountedIs
    <3>3. y \in Counter
      BY <1>0, <2>1, <2>5, <3>1 DEF Counter
    <3>4. Counted(c, t) = Loaded(chip, t, y)
      <4> HIDE DEF y
      <4> QED
        BY <2>3, <3>2, <3>3
    <3>5. CatchUp(chip, t, n + 1) = Loaded(chip, t, y)
      <4>1. CatchUp(chip, t, n + 1) =
              Loaded(chip, t, [count |-> chip[t].count - (n + 1),
                               triggered |-> chip[t].triggered])
        <5>1. n + 1 \in Nat
          OBVIOUS
        <5> QED
          BY <1>0, <1>2, <2>5, <5>1, CatchUpIs
      <4> QED
        BY <2>1, <3>1, <4>1
    <3> QED
      BY <3>4, <3>5 DEF c
  <2>6. CASE ~ (n + 1 < chip[t].count)
    <3> DEFINE y == [count |-> 0, triggered |-> Once(chip, t)]
    <3>1. x.count = 1 /\ n + 1 = chip[t].count
      BY <1>0, <1>2, <2>1, <2>6
    <3>2. Counted(c, t) = Loaded(Flagged(c, t), t, y)
      BY <1>0, <2>3, <2>4, <3>1, CountedIs
    <3>3. y \in Counter
      <4>1. Once(chip, t) \in BOOLEAN
        BY DEF Once
      <4> QED
        BY <1>0, <4>1 DEF Counter
    <3>4. CatchUp(chip, t, n + 1) = Loaded(Flagged(chip, t), t, y)
      <4>1. Past(chip, t, n + 1) = 0
        BY <1>0, <3>1, PastFacts
      <4>2. n + 1 >= chip[t].count /\ n + 1 \in Nat
        BY <1>0, <3>1
      <4> QED
        BY <1>0, <1>2, <4>1, <4>2, CatchUpIs
    <3> HIDE DEF y
    <3>5. Loaded(Flagged(c, t), t, y) = Loaded(Flagged(chip, t), t, y)
      <4>1. CASE chip[t].triggered
        <5>1. Flagged(c, t) = c /\ Flagged(chip, t) = chip
          BY <2>1, <2>3, <4>1 DEF Flagged
        <5> QED
          BY <2>3, <3>3, <5>1
      <4>2. CASE ~ chip[t].triggered
        <5> DEFINE k == mock_6522_new_ifr(chip, chip.ifr \union {t})
        <5>1. chip.ifr \union {t} \in SUBSET Timer
          BY <1>0, ChipFields
        <5>2. Flagged(c, t) = Loaded(k, t, x) /\ Flagged(chip, t) = k
          BY <2>1, <2>3, <4>2, <5>1 DEF Flagged
        <5>3. k \in Chip
          BY <1>0, <5>1, NewIfr
        <5> HIDE DEF k
        <5>4. Loaded(Loaded(k, t, x), t, y) = Loaded(k, t, y)
          BY <1>0, <2>1, <3>3, <5>3, LoadedFacts
        <5> QED
          BY <5>2, <5>4
      <4> QED
        BY <4>1, <4>2
    <3> QED
      BY <3>2, <3>4, <3>5 DEF c
  <2> QED
    BY <2>5, <2>6
<1>3. CASE ~ PulsesOnly(chip, t) /\ n >= chip[t].count
  <2> DEFINE k == Flagged(chip, t)
             x == [count |-> Past(chip, t, n), triggered |-> Once(chip, t)]
             y == [count |-> Past(chip, t, n + 1), triggered |-> Once(chip, t)]
             c == CatchUp(chip, t, n)
  <2>1. Once(chip, t) \in BOOLEAN
    BY DEF Once
  <2>2. n + 1 \in Nat /\ n + 1 >= chip[t].count
    BY <1>0, <1>3
  <2>3. x \in Counter /\ x.count = Past(chip, t, n) /\ x.triggered = Once(chip, t)
        /\ x.count \in Nat
    BY <1>0, <1>3, <2>1, PastFacts DEF Counter
  <2>4. y \in Counter
    BY <1>0, <2>1, <2>2, PastFacts DEF Counter
  <2>5. c = Loaded(k, t, x) /\ CatchUp(chip, t, n + 1) = Loaded(k, t, y)
    BY <1>0, <1>3, <2>2, CatchUpIs
  <2>6. /\ k \in Chip /\ SameModes(chip, k) /\ k.T1 = chip.T1 /\ k.T2 = chip.T2
        /\ ~ chip[t].triggered =>
             t \in k.ifr /\ mock_6522_new_ifr(k, k.ifr \union {t}) = k
    BY <1>0, FlaggedFacts
  <2>7. x.count = 0 => y = [count |-> CountedFrom0(chip, t), triggered |-> x.triggered]
    BY <1>0, <1>3, PastFacts
  <2>8. x.count # 0 => y = [count |-> x.count - 1, triggered |-> x.triggered]
    BY <1>0, <1>3, PastFacts
  <2> HIDE DEF c, x, y, k
  <2>9. /\ c \in Chip /\ c[t] = x /\ SameModes(k, c) /\ c.ifr = k.ifr
        /\ Loaded(c, t, y) = Loaded(k, t, y)
        /\ \A ifr \in SUBSET Timer :
             mock_6522_new_ifr(c, ifr) = Loaded(mock_6522_new_ifr(k, ifr), t, x)
    BY <1>0, <2>3, <2>4, <2>5, <2>6, LoadedFacts
  <2>10. /\ ~ PulsesOnly(c, t) /\ Once(c, t) = Once(chip, t)
         /\ CountedFrom0(c, t) = CountedFrom0(chip, t)
    BY <1>3, <2>6, <2>9 DEF PulsesOnly, SameModes, Once, CountedFrom0
  <2>11. CASE x.count = 0
    <3>1. Counted(c, t) = Loaded(c, t, y)
      BY <1>0, <2>7, <2>9, <2>10, <2>11, CountedIs
    <3> QED
      BY <2>5, <2>9, <3>1 DEF c
  <2>12. CASE x.count > 1
    <3>1. Counted(c, t) = Loaded(c, t, y)
      <4>1. y = [count |-> x.count - 1, triggered |-> x.triggered]
        BY <2>3, <2>8, <2>12
      <4> QED
        BY <1>0, <2>9, <2>10, <2>12, <4>1, CountedIs
    <3> QED
      BY <2>5, <2>9, <3>1 DEF c
  <2>13. CASE x.count = 1
    <3>1. Counted(c, t) = Loaded(Flagged(c, t), t, y)
      <4>1. y = [count |-> 0, triggered |-> Once(c, t)]
        BY <2>3, <2>8, <2>10, <2>13
      <4> QED
        BY <1>0, <2>9, <2>10, <2>13, <4>1, CountedIs
    <3>2. Flagged(c, t) = c
      <4>1. CASE x.triggered
        BY <2>9, <4>1 DEF Flagged
      <4>2. CASE ~ x.triggered
        <5>1. t = "T1" /\ "T1" \in chip.acr
          BY <1>0, <2>3, <4>2 DEF Once, Timer
        <5>2. ~ chip[t].triggered
          BY <5>1 DEF Countable
        <5>3. c.ifr \union {t} \in SUBSET Timer /\ c.ifr \union {t} = k.ifr \union {t}
          BY <1>0, <2>9, ChipFields
        <5>4. mock_6522_new_ifr(c, c.ifr \union {t}) = Loaded(k, t, x)
          BY <2>6, <2>9, <5>2, <5>3
        <5> QED
          BY <2>5, <2>9, <4>2, <5>4 DEF Flagged
      <4> QED
        BY <4>1, <4>2
    <3> QED
      BY <2>5, <2>9, <3>1, <3>2 DEF c
  <2> QED
    BY <2>3, <2>11, <2>12, <2>13
<1> QED
  BY <1>0, <1>1, <1>2, <1>3

(* f counts the timer from chip on.                                        *)
IsCount(f, chip, t) ==
  f = [n \in 0 .. MaxAgo |-> IF n = 0 THEN chip ELSE Counted(f[n - 1], t)]

LEMMA CatchUpCounts ==
  ASSUME NEW chip, NEW t, Countable(chip, t)
  PROVE  IsCount([n \in 0 .. MaxAgo |-> CatchUp(chip, t, n)], chip, t)
<1> DEFINE g == [n \in 0 .. MaxAgo |-> CatchUp(chip, t, n)]
<1>1. MaxAgo \in Nat
  BY TimeAssumption
<1>2. ASSUME NEW n \in 0 .. MaxAgo
      PROVE  g[n] = IF n = 0 THEN chip ELSE Counted(g[n - 1], t)
  <2>1. CASE n = 0
    BY <2>1, CatchUpFrom
  <2>2. CASE n # 0
    <3>1. n - 1 \in Nat /\ n - 1 \in 0 .. MaxAgo /\ (n - 1) + 1 = n
      BY <1>1, <2>2
    <3>2. g[n - 1] = CatchUp(chip, t, n - 1)
      BY <3>1
    <3>3. Counted(CatchUp(chip, t, n - 1), t) = CatchUp(chip, t, (n - 1) + 1)
      BY <3>1, CatchUpStep
    <3> QED
      BY <2>2, <3>1, <3>2, <3>3
  <2> QED
    BY <2>1, <2>2
<1>3. g = [n \in 0 .. MaxAgo |-> IF n = 0 THEN chip ELSE Counted(g[n - 1], t)]
  <2> DEFINE h == [n \in 0 .. MaxAgo |-> IF n = 0 THEN chip ELSE Counted(g[n - 1], t)]
  <2>1. \A n \in 0 .. MaxAgo : g[n] = h[n]
    <3> HIDE DEF g
    <3> QED
      BY <1>2
  <2> QED
    BY <2>1
<1> QED
  BY <1>3 DEF IsCount

(* There is one way to count.                                              *)
LEMMA OneCount ==
  ASSUME NEW chip, NEW t, NEW f, NEW g, IsCount(f, chip, t), IsCount(g, chip, t)
  PROVE  \A n \in 0 .. MaxAgo : f[n] = g[n]
<1> DEFINE S == { n \in Nat : n \in 0 .. MaxAgo => f[n] = g[n] }
<1>1. MaxAgo \in Nat
  BY TimeAssumption
<1>2. ASSUME NEW n \in 0 .. MaxAgo
      PROVE  /\ f[n] = IF n = 0 THEN chip ELSE Counted(f[n - 1], t)
             /\ g[n] = IF n = 0 THEN chip ELSE Counted(g[n - 1], t)
  BY DEF IsCount
<1>3. 0 \in S
  <2>1. 0 \in 0 .. MaxAgo
    BY <1>1
  <2> QED
    BY <1>2, <2>1
<1>4. ASSUME NEW n \in Nat, n \in S PROVE n + 1 \in S
  <2> SUFFICES ASSUME n + 1 \in 0 .. MaxAgo PROVE f[n + 1] = g[n + 1]
    OBVIOUS
  <2>1. n \in 0 .. MaxAgo /\ (n + 1) - 1 = n /\ n + 1 # 0
    BY <1>1
  <2>2. f[n] = g[n]
    BY <1>4, <2>1
  <2>3. f[n + 1] = Counted(f[n], t) /\ g[n + 1] = Counted(g[n], t)
    BY <1>2, <2>1
  <2> QED
    BY <2>2, <2>3
<1>5. Nat \subseteq S
  <2> HIDE DEF S
  <2> QED
    BY <1>3, <1>4, NatSetInduction
<1> QED
  BY <1>1, <1>5

(* Whatever the guest did before, bringing a started timer up to date after *)
(* any time leaves its count, its flag and the interrupt line as counting   *)
(* every microsecond would, over all the periods of timer 1 and the wraps   *)
(* of timer 2 in it (mock_update_timers).                                   *)
THEOREM CatchingUpIsCounting == Spec => []CountsEveryMicrosecond
<1>1. MockInv => CountsEveryMicrosecond
  <2> SUFFICES ASSUME MockInv, NEW u \in started
      PROVE  LET chip == mos6522[u[1]]
                 counted[n \in 0 .. MaxAgo] ==
                   IF n = 0 THEN chip ELSE Counted(counted[n - 1], u[2])
             IN chip[u[2]].count > 0 \/ (u[2] = "T2" /\ chip.T2.triggered) =>
                  \A n \in 0 .. MaxAgo :
                    (IF u[2] = "T1" THEN Timer1(chip, n) ELSE Timer2(chip, n))
                      = counted[n]
    BY DEF CountsEveryMicrosecond
  <2> DEFINE chip == mos6522[u[1]]
             t == u[2]
             counted[n \in 0 .. MaxAgo] ==
               IF n = 0 THEN chip ELSE Counted(counted[n - 1], t)
             g == [n \in 0 .. MaxAgo |-> CatchUp(chip, t, n)]
  <2>1. SUFFICES ASSUME chip[t].count > 0 \/ (t = "T2" /\ chip.T2.triggered)
                 PROVE  \A n \in 0 .. MaxAgo : CatchUp(chip, t, n) = counted[n]
    BY DEF CatchUp
  <2>2. Countable(chip, t)
    <3>1. u[1] \in Pair /\ t \in Timer /\ mos6522 \in [Pair -> Chip]
      BY UsedAssumption DEF MockInv, Books, Now
    <3>2. t = "T1" /\ "T1" \in chip.acr => ~ chip.T1.triggered
      BY DEF MockInv, FreeRuns
    <3> QED
      BY <2>1, <3>1, <3>2 DEF Countable
  <2>3. IsCount(g, chip, t)
    BY <2>2, CatchUpCounts
  <2>4. counted = CHOOSE f : IsCount(f, chip, t)
    BY DEF IsCount
  <2> HIDE DEF g, counted
  <2>5. IsCount(counted, chip, t)
    BY <2>3, <2>4
  <2>6. \A n \in 0 .. MaxAgo : g[n] = counted[n]
    BY <2>3, <2>5, OneCount
  <2> QED
    BY <2>6 DEF g
<1> QED
  BY <1>1, MockInvHolds, PTL
===============================================================================
