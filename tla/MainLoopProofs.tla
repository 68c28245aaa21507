---------------------------- MODULE MainLoopProofs ----------------------------
(***************************************************************************)
(* The main loop handles no event late and loses no reason to leave the    *)
(* engine, for every set of devices, instruction times, delays and frame.  *)
(*                                                                         *)
(* The invariant has four parts.  QueueOK: the list is in time order,      *)
(* holds no type twice, and the frame event is on it, at the frame's end.  *)
(* TimeInv: the frame event is one instruction late at most.  EngineInv:   *)
(* an engine that goes on stops just past the first event, or after the    *)
(* debugger's one instruction, has met no reason to leave, and has the     *)
(* accumulator's width.  The rest is types.                                *)
(***************************************************************************)
EXTENDS MainLoop, SequenceTheorems, FiniteSetTheorems, TLAPS

(* The lemmas about the list's operators: they are about sequences, and     *)
(* hold whatever nodes and links there are.                                 *)
List == INSTANCE EventListProofs
          WITH next <- <<>>, node <- <<>>, g_event_free <- 0,
               g_event_start <- 0, g_cur_dfcyc <- 0, recalc <- FALSE,
               halted <- FALSE, MaxTime <- 0

(* What the instance asks of the constants.                                 *)
LEMMA ListConstants ==
  /\ Evs # {}
  /\ Args \subseteq Nat /\ 0 \in Args
  /\ MaxEvents \in Nat \ {0}
  /\ MaxAhead \in Nat /\ BadDelay \in 0 .. MaxAhead
  /\ 0 \in Nat
BY EvsAssumption, ArgsAssumption, MaxEventsAssumption, DelayAssumption

(* A set that has 0 and the successor of each of its numbers has them all. *)
LEMMA NatSetInduction ==
  ASSUME NEW S, 0 \in S, \A n \in Nat : n \in S => n + 1 \in S
  PROVE  Nat \subseteq S
BY ListConstants, List!NatSetInduction

Entries(q) == { q[i] : i \in 1 .. Len(q) }

(* Every entry has a type of its own.                                       *)
Distinct(q) == \A i, j \in 1 .. Len(q) : i # j => q[i].type # q[j].type

(* The entries are bare events, and their times are numbers.                *)
LEMMA EventFields ==
  ASSUME NEW q \in Seq(Event)
  PROVE  /\ Len(q) \in Nat
         /\ \A i \in 1 .. Len(q) : q[i] \in Event /\ q[i].dfcyc \in Nat
                                     /\ q[i].type \in Types
         /\ Entries(q) \subseteq Event
<1>1. \A e \in Event : e.dfcyc \in Nat /\ e.type \in Types
  BY DEF Event
<1> QED
  BY <1>1 DEF Entries

(* Filing an event: one more entry, in its place, and the others as before. *)
LEMMA InsertedFacts ==
  ASSUME NEW q \in Seq(Event), NEW time \in Nat, NEW ev \in Evs
  PROVE  LET new == [dfcyc |-> time, type |-> Bare(ev)] IN
         /\ new \in Event
         /\ Inserted(q, time, ev) \in Seq(Event)
         /\ Len(Inserted(q, time, ev)) = Len(q) + 1
         /\ \E i \in 1 .. Len(q) + 1 :
              /\ \A j \in 1 .. i - 1 : q[j].dfcyc < time
              /\ i <= Len(q) => q[i].dfcyc >= time
              /\ \A j \in 1 .. Len(q) + 1 :
                   Inserted(q, time, ev)[j] =
                     IF j < i THEN q[j] ELSE IF j = i THEN new ELSE q[j - 1]
<1> DEFINE new == [dfcyc |-> time, type |-> Bare(ev)]
           i == CHOOSE j \in InsertSlots(q, time) : TRUE
<1>1. new \in Event
  BY ArgsAssumption DEF Event, Types, Bare
<1>2. InsertSlots(q, time) # {}
  <2>1. q \in Seq(List!Event)
    BY DEF Event, Types, List!Event, List!Types
  <2>2. List!InsertSlots(q, time) = InsertSlots(q, time)
    BY DEF InsertSlots, List!InsertSlots
  <2> QED
    BY <2>1, <2>2, ListConstants, List!SlotExists
<1>3. i \in InsertSlots(q, time)
  BY <1>2
<1>4. /\ i \in 1 .. Len(q) + 1
      /\ \A j \in 1 .. i - 1 : q[j].dfcyc < time
      /\ i <= Len(q) => q[i].dfcyc >= time
  BY <1>3 DEF InsertSlots
<1>5. Inserted(q, time, ev) = InsertAt(q, i, new)
  BY DEF Inserted
<1> HIDE DEF i, new
<1>6. List!InsertAt(q, i, new) = InsertAt(q, i, new)
  BY DEF InsertAt, List!InsertAt
<1>7. /\ InsertAt(q, i, new) \in Seq(Event)
      /\ Len(InsertAt(q, i, new)) = Len(q) + 1
      /\ \A j \in 1 .. Len(q) + 1 :
           InsertAt(q, i, new)[j] =
             IF j < i THEN q[j] ELSE IF j = i THEN new ELSE q[j - 1]
  <2>1. \A S : \A s \in Seq(S) : \A k \in 1 .. Len(s) + 1 : \A e \in S :
          /\ List!InsertAt(s, k, e) \in Seq(S)
          /\ Len(List!InsertAt(s, k, e)) = Len(s) + 1
          /\ \A j \in 1 .. Len(s) + 1 :
               List!InsertAt(s, k, e)[j] =
                 IF j < k THEN s[j] ELSE IF j = k THEN e ELSE s[j - 1]
    BY ListConstants, List!InsertAtFacts
  <2>2. /\ List!InsertAt(q, i, new) \in Seq(Event)
        /\ Len(List!InsertAt(q, i, new)) = Len(q) + 1
        /\ \A j \in 1 .. Len(q) + 1 :
             List!InsertAt(q, i, new)[j] =
               IF j < i THEN q[j] ELSE IF j = i THEN new ELSE q[j - 1]
    BY <1>1, <1>4, <2>1
  <2> QED
    BY <1>6, <2>2
<1> QED
  BY <1>1, <1>4, <1>5, <1>7 DEF new

(* Filing an event keeps the order, and types apart if the new one is new.  *)
LEMMA InsertedKeeps ==
  ASSUME NEW q \in Seq(Event), NEW time \in Nat, NEW ev \in Evs,
         TimeOrdered(q)
  PROVE  LET new == [dfcyc |-> time, type |-> Bare(ev)] IN
         /\ TimeOrdered(Inserted(q, time, ev))
         /\ Entries(Inserted(q, time, ev)) = Entries(q) \cup {new}
         /\ Distinct(q) /\ (\A e \in Entries(q) : e.type # Bare(ev))
              => Distinct(Inserted(q, time, ev))
<1> DEFINE new == [dfcyc |-> time, type |-> Bare(ev)]
           p == Inserted(q, time, ev)
<1>1. PICK i \in 1 .. Len(q) + 1 :
        /\ \A j \in 1 .. i - 1 : q[j].dfcyc < time
        /\ i <= Len(q) => q[i].dfcyc >= time
        /\ \A j \in 1 .. Len(q) + 1 :
             p[j] = IF j < i THEN q[j] ELSE IF j = i THEN new ELSE q[j - 1]
  BY InsertedFacts
<1>2. Len(p) = Len(q) + 1 /\ p \in Seq(Event)
  BY InsertedFacts
<1>3. Len(q) \in Nat /\ \A j \in 1 .. Len(q) : q[j].dfcyc \in Nat
  BY EventFields
<1>4. new.dfcyc = time /\ new.type = Bare(ev)
  OBVIOUS
<1> HIDE DEF p, new
<1>5. /\ \A j \in 1 .. i - 1 : j \in 1 .. Len(q) /\ p[j] = q[j]
      /\ p[i] = new
      /\ \A j \in i + 1 .. Len(q) + 1 : j - 1 \in i .. Len(q) /\ p[j] = q[j - 1]
  BY <1>1, <1>3
<1>6. \A k \in i .. Len(q) : q[k].dfcyc >= time
  BY <1>1, <1>3 DEF TimeOrdered
<1>7. TimeOrdered(p)
  <2> SUFFICES ASSUME NEW j \in 1 .. Len(q) + 1, NEW k \in 1 .. Len(q) + 1, j < k
               PROVE  p[j].dfcyc <= p[k].dfcyc
    BY <1>2 DEF TimeOrdered
  <2>1. CASE k < i
    BY <1>3, <1>5, <2>1 DEF TimeOrdered
  <2>2. CASE k = i
    BY <1>1, <1>3, <1>4, <1>5, <2>2
  <2>3. CASE k > i
    <3>1. k - 1 \in i .. Len(q) /\ p[k] = q[k - 1]
      BY <1>3, <1>5, <2>3
    <3>2. CASE j < i
      BY <1>3, <1>5, <3>1, <3>2 DEF TimeOrdered
    <3>3. CASE j = i
      BY <1>4, <1>5, <1>6, <3>1, <3>3
    <3>4. CASE j > i
      <4>1. j - 1 \in i .. Len(q) /\ p[j] = q[j - 1] /\ j - 1 < k - 1
        BY <1>3, <1>5, <3>4
      <4> QED
        BY <1>3, <3>1, <4>1 DEF TimeOrdered
    <3> QED
      BY <1>3, <3>2, <3>3, <3>4
  <2> QED
    BY <1>3, <2>1, <2>2, <2>3
<1>8. Entries(p) = Entries(q) \cup {new}
  <2>1. ASSUME NEW j \in 1 .. Len(q) + 1 PROVE p[j] \in Entries(q) \cup {new}
    BY <1>3, <1>5 DEF Entries
  <2>2. ASSUME NEW j \in 1 .. Len(q) PROVE q[j] \in Entries(p)
    <3>1. CASE j < i
      BY <1>2, <1>3, <1>5, <3>1 DEF Entries
    <3>2. CASE j >= i
      <4>1. j + 1 \in i + 1 .. Len(q) + 1 /\ (j + 1) - 1 = j
        BY <1>3, <3>2
      <4>2. p[j + 1] = q[j] /\ j + 1 \in 1 .. Len(p)
        BY <1>2, <1>3, <1>5, <4>1
      <4> QED
        BY <4>2 DEF Entries
    <3> QED
      BY <1>3, <3>1, <3>2
  <2>3. new \in Entries(p)
    BY <1>2, <1>5 DEF Entries
  <2> QED
    BY <1>2, <2>1, <2>2, <2>3 DEF Entries
<1>9. ASSUME Distinct(q), \A e \in Entries(q) : e.type # Bare(ev)
      PROVE  Distinct(p)
  <2> SUFFICES ASSUME NEW j \in 1 .. Len(q) + 1, NEW k \in 1 .. Len(q) + 1, j < k
               PROVE  p[j].type # p[k].type
    BY <1>2, <1>3 DEF Distinct
  <2>0. \A a, b \in 1 .. Len(q) : a < b => q[a].type # q[b].type
    BY <1>3, <1>9 DEF Distinct
  <2>a. \A a \in 1 .. Len(q) : q[a].type # new.type
    BY <1>4, <1>9 DEF Entries
  <2>1. CASE k < i
    BY <1>3, <1>5, <2>0, <2>1
  <2>2. CASE k = i
    BY <1>3, <1>5, <2>a, <2>2
  <2>3. CASE k > i
    <3>1. k - 1 \in i .. Len(q) /\ p[k] = q[k - 1]
      BY <1>3, <1>5, <2>3
    <3>2. CASE j < i
      BY <1>3, <1>5, <2>0, <3>1, <3>2
    <3>3. CASE j = i
      BY <1>3, <1>5, <2>a, <3>1, <3>3
    <3>4. CASE j > i
      <4>1. j - 1 \in i .. Len(q) /\ p[j] = q[j - 1] /\ j - 1 < k - 1
        BY <1>3, <1>5, <3>4
      <4> QED
        BY <1>3, <2>0, <3>1, <4>1
    <3> QED
      BY <1>3, <3>2, <3>3, <3>4
  <2> QED
    BY <1>3, <2>1, <2>2, <2>3
<1> QED
  BY <1>7, <1>8, <1>9 DEF p, new

(* p is q with some of its entries left out.                                *)
Thinned(p, q) ==
  \E k \in [1 .. Len(p) -> 1 .. Len(q)] :
    /\ \A a, b \in 1 .. Len(p) : a < b => k[a] < k[b]
    /\ \A a \in 1 .. Len(p) : p[a] = q[k[a]]

(* Leaving entries out keeps the order and the types apart.                 *)
LEMMA ThinnedKeeps ==
  ASSUME NEW p \in Seq(Event), NEW q \in Seq(Event), Thinned(p, q)
  PROVE  /\ TimeOrdered(q) => TimeOrdered(p)
         /\ Distinct(q) => Distinct(p)
         /\ Entries(p) \subseteq Entries(q)
<1>1. PICK k \in [1 .. Len(p) -> 1 .. Len(q)] :
        /\ \A a, b \in 1 .. Len(p) : a < b => k[a] < k[b]
        /\ \A a \in 1 .. Len(p) : p[a] = q[k[a]]
  BY DEF Thinned
<1>2. \A a \in 1 .. Len(p) : k[a] \in 1 .. Len(q)
  BY <1>1
<1>3. Len(p) \in Nat /\ Len(q) \in Nat
  BY EventFields
<1>4. ASSUME TimeOrdered(q) PROVE TimeOrdered(p)
  <2> SUFFICES ASSUME NEW a \in 1 .. Len(p), NEW b \in 1 .. Len(p), a < b
               PROVE  p[a].dfcyc <= p[b].dfcyc
    BY DEF TimeOrdered
  <2>1. k[a] < k[b] /\ k[a] \in 1 .. Len(q) /\ k[b] \in 1 .. Len(q)
    BY <1>1, <1>2
  <2> QED
    BY <1>1, <1>4, <2>1 DEF TimeOrdered
<1>5. ASSUME Distinct(q) PROVE Distinct(p)
  <2> SUFFICES ASSUME NEW a \in 1 .. Len(p), NEW b \in 1 .. Len(p), a < b
               PROVE  p[a].type # p[b].type
    BY <1>3 DEF Distinct
  <2>1. k[a] < k[b] /\ k[a] \in 1 .. Len(q) /\ k[b] \in 1 .. Len(q)
    BY <1>1, <1>2
  <2>2. k[a] # k[b]
    BY <1>3, <2>1
  <2> QED
    BY <1>1, <1>5, <2>1, <2>2 DEF Distinct
<1>6. Entries(p) \subseteq Entries(q)
  <2> SUFFICES ASSUME NEW a \in 1 .. Len(p) PROVE p[a] \in Entries(q)
    BY DEF Entries
  <2>1. p[a] = q[k[a]] /\ k[a] \in 1 .. Len(q)
    BY <1>1, <1>2
  <2> QED
    BY <2>1 DEF Entries
<1> QED
  BY <1>4, <1>5, <1>6

(* Taking the first entry off.                                              *)
LEMMA TailFacts ==
  ASSUME NEW q \in Seq(Event), q # <<>>
  PROVE  /\ Tail(q) \in Seq(Event) /\ Thinned(Tail(q), q)
         /\ q[1] \in Entries(q) /\ Len(Tail(q)) < Len(q)
         /\ Entries(q) = Entries(Tail(q)) \cup {q[1]}
         /\ Distinct(q) => \A e \in Entries(Tail(q)) : e.type # q[1].type
<1> DEFINE p == Tail(q)
           k == [a \in 1 .. Len(p) |-> a + 1]
<1>1. /\ p \in Seq(Event) /\ Len(p) = Len(q) - 1 /\ Len(q) \in Nat /\ Len(q) > 0
      /\ \A a \in 1 .. Len(q) - 1 : p[a] = q[a + 1]
  OBVIOUS
<1> HIDE DEF p
<1>2. Thinned(p, q)
  <2>1. k \in [1 .. Len(p) -> 1 .. Len(q)]
    BY <1>1
  <2>2. \A a, b \in 1 .. Len(p) : a < b => k[a] < k[b]
    BY <1>1
  <2>3. \A a \in 1 .. Len(p) : p[a] = q[k[a]]
    BY <1>1
  <2> HIDE DEF k
  <2> QED
    BY <2>1, <2>2, <2>3 DEF Thinned
<1>3. ASSUME NEW a \in 1 .. Len(q), a # 1 PROVE q[a] \in Entries(p)
  <2>1. a - 1 \in 1 .. Len(p) /\ p[a - 1] = q[a]
    <3>1. a - 1 \in 1 .. Len(q) - 1 /\ (a - 1) + 1 = a
      BY <1>1, <1>3
    <3> QED
      BY <1>1, <3>1
  <2> QED
    BY <2>1 DEF Entries
<1>4. Entries(q) = Entries(p) \cup {q[1]} /\ q[1] \in Entries(q)
  <2>1. 1 \in 1 .. Len(q)
    BY <1>1
  <2>2. q[1] \in Entries(q)
    BY <2>1 DEF Entries
  <2>3. ASSUME NEW e \in Entries(q) PROVE e \in Entries(p) \cup {q[1]}
    <3>1. PICK a \in 1 .. Len(q) : e = q[a]
      BY DEF Entries
    <3> QED
      BY <1>3, <3>1
  <2>4. ASSUME NEW e \in Entries(p) PROVE e \in Entries(q)
    <3>1. PICK a \in 1 .. Len(p) : e = p[a]
      BY DEF Entries
    <3>2. a \in 1 .. Len(q) - 1 /\ a + 1 \in 1 .. Len(q)
      BY <1>1
    <3> QED
      BY <1>1, <3>1, <3>2 DEF Entries
  <2> QED
    BY <2>2, <2>3, <2>4
<1>5. Distinct(q) => \A e \in Entries(p) : e.type # q[1].type
  BY <1>1, SMTT(20) DEF Distinct, Entries
<1> QED
  BY <1>1, <1>2, <1>4, <1>5 DEF p

(* remove_event_entry takes one event off.                                  *)
LEMMA RemovedFacts ==
  ASSUME NEW q \in Seq(Event), NEW ev \in Evs, Bare(ev) \in TypesOf(q),
         Distinct(q)
  PROVE  /\ Removed(q, ev) \in Seq(Event) /\ Thinned(Removed(q, ev), q)
         /\ \A e \in Entries(q) : e.type # Bare(ev) => e \in Entries(Removed(q, ev))
<1> DEFINE i == CHOOSE j \in RemoveSlots(q, Bare(ev), "full") : TRUE
           p == RemoveAt(q, i)
           k == [a \in 1 .. Len(p) |-> IF a < i THEN a ELSE a + 1]
<1>1. PICK j \in 1 .. Len(q) : q[j].type = Bare(ev)
  BY DEF TypesOf
<1>2. \A a \in 1 .. Len(q) : q[a].type \in Types
  BY EventFields
<1>3. \A a \in 1 .. Len(q) : Matches(q[a].type, Bare(ev), "full") <=>
                              q[a].type = Bare(ev)
  BY <1>2 DEF Matches, Types
<1>4. Len(q) \in Nat
  OBVIOUS
<1>5. j \in RemoveSlots(q, Bare(ev), "full")
  BY <1>1, <1>3, <1>4 DEF RemoveSlots, Distinct
<1>6. i \in RemoveSlots(q, Bare(ev), "full")
  BY <1>5
<1>7. i \in 1 .. Len(q) /\ q[i].type = Bare(ev)
  BY <1>3, <1>6 DEF RemoveSlots
<1>8. Removed(q, ev) = p
  BY DEF Removed
<1> HIDE DEF i
<1>9. /\ p \in Seq(Event) /\ Len(p) = Len(q) - 1
      /\ \A a \in 1 .. Len(q) - 1 : p[a] = IF a < i THEN q[a] ELSE q[a + 1]
  <2>1. List!RemoveAt(q, i) = RemoveAt(q, i)
    BY DEF RemoveAt, List!RemoveAt
  <2>2. \A S : \A s \in Seq(S) : \A n \in 1 .. Len(s) :
          /\ List!RemoveAt(s, n) \in Seq(S)
          /\ Len(List!RemoveAt(s, n)) = Len(s) - 1
          /\ \A a \in 1 .. Len(s) - 1 :
               List!RemoveAt(s, n)[a] = IF a < n THEN s[a] ELSE s[a + 1]
    BY ListConstants, List!RemoveAtFacts
  <2>3. /\ List!RemoveAt(q, i) \in Seq(Event)
        /\ Len(List!RemoveAt(q, i)) = Len(q) - 1
        /\ \A a \in 1 .. Len(q) - 1 :
             List!RemoveAt(q, i)[a] = IF a < i THEN q[a] ELSE q[a + 1]
    BY <1>7, <2>2
  <2> QED
    BY <2>1, <2>3
<1> HIDE DEF p
<1>10. Thinned(p, q)
  <2>1. k \in [1 .. Len(p) -> 1 .. Len(q)]
    BY <1>4, <1>7, <1>9
  <2>2. \A a, b \in 1 .. Len(p) : a < b => k[a] < k[b]
    BY <1>4, <1>7, <1>9
  <2>3. \A a \in 1 .. Len(p) : p[a] = q[k[a]]
    BY <1>4, <1>7, <1>9
  <2> HIDE DEF k
  <2> QED
    BY <2>1, <2>2, <2>3 DEF Thinned
<1>11. ASSUME NEW a \in 1 .. Len(q), q[a].type # Bare(ev) PROVE q[a] \in Entries(p)
  <2>1. CASE a < i
    BY <1>4, <1>7, <1>9, <2>1 DEF Entries
  <2>2. CASE a > i
    <3>1. a - 1 \in 1 .. Len(q) - 1 /\ ~ (a - 1 < i) /\ (a - 1) + 1 = a
      BY <1>4, <1>7, <2>2
    <3>2. p[a - 1] = q[a] /\ a - 1 \in 1 .. Len(p)
      BY <1>9, <3>1
    <3> QED
      BY <3>2 DEF Entries
  <2> QED
    BY <1>4, <1>7, <1>11, <2>1, <2>2
<1> QED
  BY <1>8, <1>9, <1>10, <1>11 DEF Entries

(* f has the values of the recursive function in Without.                   *)
IsThinning(f, q, devs) ==
  /\ Without(q, devs) = f[Len(q)]
  /\ f[0] = <<>>
  /\ \A n \in 0 .. Len(q) - 1 :
       f[n + 1] = IF q[n + 1].type.ev \in devs THEN f[n]
                  ELSE Append(f[n], q[n + 1])

LEMMA WithoutUnfolds ==
  ASSUME NEW q \in Seq(Event), NEW devs
  PROVE  \E f : IsThinning(f, q, devs)
<1> DEFINE upTo[i \in 0 .. Len(q)] ==
             IF i = 0 THEN <<>>
             ELSE IF q[i].type.ev \in devs THEN upTo[i - 1]
                  ELSE Append(upTo[i - 1], q[i])
           V == Seq(Event)
           Step(n, u) == IF n + 1 \in 1 .. Len(q) /\ q[n + 1].type.ev \notin devs
                         THEN Append(u, q[n + 1]) ELSE u
           F == [n \in Nat |-> [u \in V |-> Step(n, u)]]
<1>1. Without(q, devs) = upTo[Len(q)]
  BY DEF Without
<1>2. upTo = [i \in 0 .. Len(q) |->
                IF i = 0 THEN <<>>
                ELSE IF q[i].type.ev \in devs THEN upTo[i - 1]
                     ELSE Append(upTo[i - 1], q[i])]
  <2>1. <<>> \in V
    OBVIOUS
  <2>2. F \in [Nat -> [V -> V]]
    <3> SUFFICES ASSUME NEW n \in Nat, NEW u \in V PROVE Step(n, u) \in V
      OBVIOUS
    <3> QED
      OBVIOUS
  <2>3. PICK f : List!IsIteration(f, V, <<>>, F)
    <3> HIDE DEF V, F
    <3>1. \A W : \A w \in W : \A G \in [Nat -> [W -> W]] :
            \E g : List!IsIteration(g, W, w, G)
      BY ListConstants, List!Iterates
    <3> QED
      BY <2>1, <2>2, <3>1
  <2> DEFINE g == [i \in 0 .. Len(q) |-> f[i]]
             Unfold(h) == [i \in 0 .. Len(q) |->
                             IF i = 0 THEN <<>>
                             ELSE IF q[i].type.ev \in devs THEN h[i - 1]
                                  ELSE Append(h[i - 1], q[i])]
  <2>4. ASSUME NEW i \in 0 .. Len(q)
        PROVE  g[i] = IF i = 0 THEN <<>>
                      ELSE IF q[i].type.ev \in devs THEN g[i - 1]
                           ELSE Append(g[i - 1], q[i])
    <3>1. CASE i = 0
      BY <2>3, <3>1 DEF List!IsIteration
    <3>2. CASE i # 0
      <4>1. i - 1 \in Nat /\ i - 1 \in 0 .. Len(q) /\ (i - 1) + 1 = i
            /\ i \in 1 .. Len(q)
        BY <3>2
      <4>2. f[i] = F[i - 1][f[i - 1]] /\ f[i - 1] \in V
        BY <2>3, <4>1 DEF List!IsIteration
      <4>3. F[i - 1][f[i - 1]] = Step(i - 1, f[i - 1])
        <5> HIDE DEF V, Step
        <5> QED
          BY <4>1, <4>2
      <4> QED
        BY <3>2, <4>1, <4>2, <4>3
    <3> QED
      BY <3>1, <3>2
  <2>5. g = Unfold(g)
    BY <2>4
  <2>6. upTo = CHOOSE h : h = Unfold(h)
    OBVIOUS
  <2> HIDE DEF Unfold, g, upTo
  <2>7. upTo = Unfold(upTo)
    BY <2>5, <2>6
  <2> QED
    BY <2>7 DEF Unfold
<1> HIDE DEF upTo
<1>3. upTo[0] = <<>>
  BY <1>2
<1>4. ASSUME NEW n \in 0 .. Len(q) - 1
      PROVE  upTo[n + 1] = IF q[n + 1].type.ev \in devs THEN upTo[n]
                           ELSE Append(upTo[n], q[n + 1])
  <2>1. n + 1 \in 0 .. Len(q) /\ n + 1 # 0 /\ (n + 1) - 1 = n
    OBVIOUS
  <2>2. \A i \in 0 .. Len(q) : i # 0 =>
          upTo[i] = IF q[i].type.ev \in devs THEN upTo[i - 1]
                    ELSE Append(upTo[i - 1], q[i])
    BY <1>2
  <2> QED
    BY <2>1, <2>2
<1> QED
  BY <1>1, <1>3, <1>4 DEF IsThinning

(* A reset leaves out the events of its devices and keeps the others.       *)
LEMMA WithoutFacts ==
  ASSUME NEW q \in Seq(Event), NEW devs
  PROVE  /\ Without(q, devs) \in Seq(Event) /\ Thinned(Without(q, devs), q)
         /\ \A e \in Entries(q) : e.type.ev \notin devs => e \in Entries(Without(q, devs))
         /\ \A e \in Entries(Without(q, devs)) : e.type.ev \notin devs
<1>a. PICK f : IsThinning(f, q, devs)
  BY WithoutUnfolds
<1>1. /\ Without(q, devs) = f[Len(q)]
      /\ f[0] = <<>>
      /\ \A n \in 0 .. Len(q) - 1 :
           f[n + 1] = IF q[n + 1].type.ev \in devs THEN f[n]
                      ELSE Append(f[n], q[n + 1])
  BY <1>a DEF IsThinning
<1>0. Len(q) \in Nat /\ \A n \in 1 .. Len(q) : q[n] \in Event
  OBVIOUS
<1> DEFINE Keeps(p, k, n) ==
             /\ p \in Seq(Event)
             /\ k \in [1 .. Len(p) -> 1 .. n]
             /\ \A a, b \in 1 .. Len(p) : a < b => k[a] < k[b]
             /\ \A a \in 1 .. Len(p) : p[a] = q[k[a]]
             /\ \A i \in 1 .. n : q[i].type.ev \notin devs => q[i] \in Entries(p)
             /\ \A a \in 1 .. Len(p) : p[a].type.ev \notin devs
           S == { n \in Nat : n <= Len(q) => \E k : Keeps(f[n], k, n) }
<1>2. 0 \in S
  <2> DEFINE k == [a \in 1 .. 0 |-> a]
  <2>1. k \in [1 .. Len(<<>>) -> 1 .. 0] /\ Len(<<>>) = 0 /\ <<>> \in Seq(Event)
    OBVIOUS
  <2> HIDE DEF k
  <2>2. Keeps(<<>>, k, 0)
    BY <2>1
  <2>3. Keeps(f[0], k, 0)
    <3> HIDE DEF Keeps
    <3> QED
      BY <1>1, <2>2
  <2> HIDE DEF Keeps
  <2> QED
    BY <2>3
<1>3. ASSUME NEW n \in Nat, n \in S PROVE n + 1 \in S
  <2> SUFFICES ASSUME n + 1 <= Len(q) PROVE \E k : Keeps(f[n + 1], k, n + 1)
    BY SMTT(20)
  <2> DEFINE p == f[n]
  <2>1. PICK k : Keeps(p, k, n)
    <3>1. n <= Len(q)
      BY <1>0
    <3> HIDE DEF Keeps
    <3> QED
      BY ONLY <1>3, <3>1
  <2>2. /\ n \in 0 .. Len(q) - 1 /\ n + 1 \in 1 .. Len(q) /\ q[n + 1] \in Event
        /\ f[n + 1] = IF q[n + 1].type.ev \in devs THEN p ELSE Append(p, q[n + 1])
    BY <1>0, <1>1
  <2>0. Len(p) \in Nat /\ \A a \in 1 .. Len(p) : k[a] \in 1 .. n
    <3>1. p \in Seq(Event) /\ k \in [1 .. Len(p) -> 1 .. n]
      BY <2>1
    <3> HIDE DEF p
    <3> QED
      BY ONLY <3>1
  <2> HIDE DEF p
  <2>3. CASE q[n + 1].type.ev \in devs
    <3>1. Keeps(p, k, n + 1)
      BY <2>0, <2>1, <2>3
    <3> HIDE DEF Keeps
    <3> QED
      BY <2>2, <2>3, <3>1
  <2>4. CASE q[n + 1].type.ev \notin devs
    <3>0. n \in Nat
      OBVIOUS
    <3> DEFINE p1 == Append(p, q[n + 1])
               k1 == [a \in 1 .. Len(p) + 1 |-> IF a = Len(p) + 1 THEN n + 1 ELSE k[a]]
    <3>1. /\ p1 \in Seq(Event) /\ Len(p1) = Len(p) + 1
          /\ p1[Len(p) + 1] = q[n + 1]
          /\ \A a \in 1 .. Len(p) : p1[a] = p[a]
      BY <2>1, <2>2
    <3> HIDE DEF p1
    <3>2. k1 \in [1 .. Len(p1) -> 1 .. n + 1]
      BY <2>0, <3>1
    <3>3. \A a, b \in 1 .. Len(p1) : a < b => k1[a] < k1[b]
      <4>1. /\ \A a \in 1 .. Len(p) : k1[a] = k[a]
            /\ k1[Len(p) + 1] = n + 1
        BY ONLY <2>0
      <4>2. /\ \A a \in 1 .. Len(p1) : a \in 1 .. Len(p) \/ a = Len(p) + 1
            /\ \A a \in 1 .. Len(p) : ~ (Len(p) + 1 < a)
        BY ONLY <2>0, <3>1
      <4>3. \A a \in 1 .. Len(p) : k[a] < n + 1
        BY ONLY <2>0, <3>0
      <4>4. \A a, b \in 1 .. Len(p) : a < b => k[a] < k[b]
        BY <2>1
      <4>5. ~ (Len(p) + 1 < Len(p) + 1)
        BY ONLY <2>0
      <4> HIDE DEF k1
      <4> QED
        BY ONLY <4>1, <4>2, <4>3, <4>4, <4>5
    <3>4. \A a \in 1 .. Len(p1) : p1[a] = q[k1[a]]
      BY <2>0, <2>1, <3>1
    <3>5. ASSUME NEW i \in 1 .. n + 1, q[i].type.ev \notin devs
          PROVE  q[i] \in Entries(p1)
      <4>1. CASE i = n + 1
        BY <2>0, <3>1, <4>1 DEF Entries
      <4>2. CASE i # n + 1
        <5>1. q[i] \in Entries(p)
          BY <2>1, <3>5, <4>2
        <5>2. PICK a \in 1 .. Len(p) : q[i] = p[a]
          BY <5>1 DEF Entries
        <5>3. a \in 1 .. Len(p1) /\ p1[a] = q[i]
          BY ONLY <2>0, <3>1, <5>2
        <5> QED
          BY ONLY <5>3 DEF Entries
      <4> QED
        BY <4>1, <4>2
    <3> HIDE DEF k1
    <3>a. \A a \in 1 .. Len(p1) : p1[a].type.ev \notin devs
      <4>1. \A a \in 1 .. Len(p1) : a \in 1 .. Len(p) \/ a = Len(p) + 1
        BY ONLY <2>0, <3>1
      <4>2. \A a \in 1 .. Len(p) : p[a].type.ev \notin devs
        BY <2>1
      <4> QED
        BY ONLY <2>4, <3>1, <4>1, <4>2
    <3>6. Keeps(p1, k1, n + 1)
      BY <3>1, <3>2, <3>3, <3>4, <3>5, <3>a
    <3> HIDE DEF Keeps
    <3> QED
      BY <2>2, <2>4, <3>6 DEF p1
  <2> QED
    BY <2>3, <2>4
<1>4. PICK k : Keeps(f[Len(q)], k, Len(q))
  <2>1. Nat \subseteq S
    <3> HIDE DEF S
    <3> QED
      BY <1>2, <1>3, NatSetInduction
  <2> HIDE DEF Keeps
  <2> QED
    BY <1>0, <2>1
<1> DEFINE p == f[Len(q)]
<1>5. p = Without(q, devs)
  BY <1>1
<1> HIDE DEF p
<1>6. Keeps(p, k, Len(q))
  <2> HIDE DEF Keeps
  <2> QED
    BY <1>4 DEF p
<1>7. p \in Seq(Event) /\ Thinned(p, q)
  BY <1>6 DEF Thinned
<1>8. \A e \in Entries(q) : e.type.ev \notin devs => e \in Entries(p)
  <2> SUFFICES ASSUME NEW i \in 1 .. Len(q), q[i].type.ev \notin devs
               PROVE  q[i] \in Entries(p)
    BY DEF Entries
  <2> QED
    BY <1>6
<1>9. \A e \in Entries(p) : e.type.ev \notin devs
  BY <1>6 DEF Entries
<1> QED
  BY <1>5, <1>7, <1>8, <1>9

-------------------------------------------------------------------------------
(* The event list as the main loop finds it.                                *)
QueueOK(q) ==
  /\ q \in Seq(Event)
  /\ TimeOrdered(q)
  /\ Distinct(q)
  /\ \A e \in Entries(q) : e.type = Bare(e.type.ev)
  /\ \A e \in Entries(q) : e.type = Bare(EV_60HZ) => e.dfcyc = FrameLen
  /\ \E e \in Entries(q) : e.type = Bare(EV_60HZ)

(* Every entry is an event; the list is not empty and starts with the       *)
(* earliest.                                                                *)
LEMMA QueueHead ==
  ASSUME NEW q, QueueOK(q)
  PROVE  /\ Entries(q) \subseteq Event
         /\ \A e \in Entries(q) : e.dfcyc \in Nat /\ e.type.ev \in Evs
         /\ q # <<>> /\ Len(q) \in Nat /\ 1 \in 1 .. Len(q)
         /\ q[1] \in Entries(q)
         /\ \A e \in Entries(q) : q[1].dfcyc <= e.dfcyc
<1>1. q \in Seq(Event) /\ TimeOrdered(q) /\ Entries(q) # {}
  BY DEF QueueOK
<1>2. /\ Len(q) \in Nat
      /\ \A i \in 1 .. Len(q) : q[i] \in Event /\ q[i].dfcyc \in Nat
      /\ Entries(q) \subseteq Event
  BY <1>1, EventFields
<1>3. \A e \in Event : e.dfcyc \in Nat /\ e.type.ev \in Evs
  BY DEF Event, Types
<1>4. 1 \in 1 .. Len(q)
  BY <1>1, <1>2 DEF Entries
<1>5. q # <<>> /\ q[1] \in Entries(q)
  BY <1>4 DEF Entries
<1>6. ASSUME NEW e \in Entries(q) PROVE q[1].dfcyc <= e.dfcyc
  <2>1. PICK i \in 1 .. Len(q) : e = q[i]
    BY DEF Entries
  <2>2. i = 1 \/ q[1].dfcyc <= q[i].dfcyc
    BY <1>1, <1>2, <1>4 DEF TimeOrdered
  <2> QED
    BY <1>2, <1>4, <2>1, <2>2
<1> QED
  BY <1>2, <1>3, <1>4, <1>5, <1>6

(* One bare event of each kind: the pool never runs out.                    *)
LEMMA PoolSuffices ==
  ASSUME NEW q, QueueOK(q)
  PROVE  Len(q) <= MaxEvents
<1> DEFINE f == [i \in 1 .. Len(q) |-> q[i].type.ev]
<1>1. Len(q) \in Nat /\ \A e \in Entries(q) : e.type.ev \in Evs
  BY QueueHead
<1>2. IsFiniteSet(Evs) /\ Cardinality(Evs) = Cardinality(Devs) + 1
  BY SourcesAssumption, PoolAssumption, FS_AddElement
<1>3. \A i \in 1 .. Len(q) : q[i] \in Entries(q)
  BY DEF Entries
<1>4. f \in [1 .. Len(q) -> Evs]
  BY <1>1, <1>3
<1>5. ASSUME NEW i \in 1 .. Len(q), NEW j \in 1 .. Len(q), f[i] = f[j]
      PROVE  i = j
  <2>1. q[i].type = Bare(q[i].type.ev) /\ q[j].type = Bare(q[j].type.ev)
    BY <1>3 DEF QueueOK
  <2>2. q[i].type = q[j].type
    BY <1>5, <2>1
  <2> QED
    BY <2>2 DEF QueueOK, Distinct
<1>6. f \in Injection(1 .. Len(q), Evs)
  <2> HIDE DEF f
  <2> QED
    BY <1>4, <1>5 DEF Injection, IsInjective
<1>7. Cardinality(1 .. Len(q)) = Len(q)
  <2>1. PICK n \in Nat : n = Len(q)
    BY <1>1
  <2>2. Cardinality(1 .. n) = IF 1 > n THEN 0 ELSE n - 1 + 1
    BY ONLY FS_Interval
  <2> QED
    BY ONLY <2>1, <2>2
<1>8. Cardinality(1 .. Len(q)) <= Cardinality(Evs)
  <2> HIDE DEF f
  <2> QED
    BY <1>2, <1>6, FS_Injection
<1>9. Cardinality(Devs) \in Nat
  BY PoolAssumption, FS_CardinalityType
<1> QED
  BY <1>1, <1>2, <1>7, <1>8, <1>9, PoolAssumption, MaxEventsAssumption

(* A device's event that is not on the list is filed.                       *)
LEMMA QueueInserted ==
  ASSUME NEW q, QueueOK(q), NEW time \in Nat, NEW dev \in Devs,
         \A e \in Entries(q) : e.type # Bare(dev)
  PROVE  /\ QueueOK(Inserted(q, time, dev))
         /\ Entries(Inserted(q, time, dev)) =
              Entries(q) \cup {[dfcyc |-> time, type |-> Bare(dev)]}
<1> DEFINE new == [dfcyc |-> time, type |-> Bare(dev)]
           p == Inserted(q, time, dev)
<1>1. dev \in Evs /\ dev # EV_60HZ
  BY SourcesAssumption
<1>2. q \in Seq(Event) /\ TimeOrdered(q) /\ Distinct(q)
  BY DEF QueueOK
<1>3. p \in Seq(Event)
  BY <1>1, <1>2, InsertedFacts
<1>4. TimeOrdered(p) /\ Distinct(p) /\ Entries(p) = Entries(q) \cup {new}
  BY <1>1, <1>2, InsertedKeeps
<1>5. new.type = Bare(new.type.ev) /\ new.type # Bare(EV_60HZ)
  BY <1>1 DEF Bare
<1> HIDE DEF p, new
<1>6. QueueOK(p)
  BY <1>3, <1>4, <1>5 DEF QueueOK
<1> QED
  BY <1>4, <1>6 DEF p, new

(* Entries may go as long as the frame event stays.                         *)
LEMMA QueueThinned ==
  ASSUME NEW q, QueueOK(q), NEW p \in Seq(Event), Thinned(p, q),
         \A e \in Entries(q) : e.type = Bare(EV_60HZ) => e \in Entries(p)
  PROVE  QueueOK(p) /\ Entries(p) \subseteq Entries(q)
<1>1. q \in Seq(Event)
  BY DEF QueueOK
<1>2. /\ TimeOrdered(q) => TimeOrdered(p)
      /\ Distinct(q) => Distinct(p)
      /\ Entries(p) \subseteq Entries(q)
  BY <1>1, ThinnedKeeps
<1> QED
  BY <1>2 DEF QueueOK

(* A device's event is cancelled.                                           *)
LEMMA QueueRemoved ==
  ASSUME NEW q, QueueOK(q), NEW dev \in Devs, Bare(dev) \in TypesOf(q)
  PROVE  QueueOK(Removed(q, dev)) /\ Entries(Removed(q, dev)) \subseteq Entries(q)
<1>1. dev \in Evs /\ Bare(dev) # Bare(EV_60HZ)
  BY SourcesAssumption DEF Bare
<1>2. q \in Seq(Event) /\ Distinct(q)
  BY DEF QueueOK
<1>3. /\ Removed(q, dev) \in Seq(Event) /\ Thinned(Removed(q, dev), q)
      /\ \A e \in Entries(q) : e.type # Bare(dev) => e \in Entries(Removed(q, dev))
  BY <1>1, <1>2, RemovedFacts
<1> QED
  BY <1>1, <1>3, QueueThinned

(* Devices' events are cancelled, by a reset or before one is moved.        *)
LEMMA QueueWithout ==
  ASSUME NEW q, QueueOK(q), NEW devs, devs \subseteq Devs
  PROVE  /\ QueueOK(Without(q, devs))
         /\ Entries(Without(q, devs)) \subseteq Entries(q)
         /\ \A e \in Entries(Without(q, devs)) : e.type.ev \notin devs
<1> DEFINE p == Without(q, devs)
<1>1. q \in Seq(Event)
  BY DEF QueueOK
<1>2. /\ p \in Seq(Event) /\ Thinned(p, q)
      /\ \A e \in Entries(q) : e.type.ev \notin devs => e \in Entries(p)
      /\ \A e \in Entries(p) : e.type.ev \notin devs
  BY <1>1, WithoutFacts
<1>3. Bare(EV_60HZ).ev \notin devs
  BY SourcesAssumption DEF Bare
<1> HIDE DEF p
<1>4. QueueOK(p) /\ Entries(p) \subseteq Entries(q)
  BY <1>2, <1>3, QueueThinned
<1> QED
  BY <1>2, <1>4 DEF p

(* A device's event is filed, or moved.                                     *)
LEMMA QueueMoved ==
  ASSUME NEW q, QueueOK(q), NEW time \in Nat, NEW dev \in Devs
  PROVE  /\ QueueOK(Inserted(Without(q, {dev}), time, dev))
         /\ Entries(Inserted(Without(q, {dev}), time, dev)) =
              Entries(Without(q, {dev})) \cup {[dfcyc |-> time, type |-> Bare(dev)]}
<1> DEFINE p == Without(q, {dev})
<1>1. QueueOK(p) /\ \A e \in Entries(p) : e.type.ev \notin {dev}
  BY QueueWithout
<1> HIDE DEF p
<1>2. \A e \in Entries(p) : e.type # Bare(dev)
  BY <1>1 DEF Bare
<1>3. /\ QueueOK(Inserted(p, time, dev))
      /\ Entries(Inserted(p, time, dev)) =
           Entries(p) \cup {[dfcyc |-> time, type |-> Bare(dev)]}
  BY <1>1, <1>2, QueueInserted
<1> QED
  BY <1>3 DEF p

(* Whatever time is asked for, the event is filed no earlier than the time  *)
(* the engine last returned.                                                *)
LEMMA FilingFacts ==
  ASSUME NEW time \in Int, NEW cur \in Nat
  PROVE  FilingTime(time, cur) \in Nat /\ FilingTime(time, cur) >= cur
<1>1. Clipped(time, cur) \in Nat /\ Clipped(time, cur) >= cur
  BY DEF Clipped
<1>2. MaxAhead \in Nat /\ BadDelay \in Nat
  BY DelayAssumption
<1> QED
  BY <1>1, <1>2 DEF FilingTime, FiledTime, BadTime

(* What a handler files leaves the list as it should be.                    *)
LEMMA QueueAfter ==
  ASSUME NEW q, QueueOK(q), NEW cur \in Nat, NEW f \in Filings
  PROVE  QueueOK(After(q, f, cur))
<1>1. f.files \in BOOLEAN /\ f.dev \in Devs /\ f.delay \in Int
  BY TimesAssumption DEF Filings
<1>2. FilingTime(cur + f.delay, cur) \in Nat
  BY <1>1, FilingFacts
<1> DEFINE time == FilingTime(cur + f.delay, cur)
           p == Inserted(Without(q, {f.dev}), time, f.dev)
<1>3. After(q, f, cur) = IF f.files THEN p ELSE q
  BY DEF After
<1>4. QueueOK(p)
  <2> HIDE DEF time
  <2> QED
    BY <1>1, <1>2, QueueMoved DEF time
<1> HIDE DEF p
<1> QED
  BY <1>3, <1>4


-------------------------------------------------------------------------------
(* The types of everything but the list.                                    *)
StateOK ==
  /\ pc \in Phases
  /\ g_cur_dfcyc \in Nat /\ dfcyc \in Nat
  /\ g_dcycles_end \in Nat \cup {Ended} /\ stop \in Nat \cup {Ended}
  /\ g_ret1 \in Rets
  /\ g_irq_pending \subseteq Evs
  /\ at \in Places
  /\ runs8 \in BOOLEAN /\ mask \in BOOLEAN /\ acc8 \in BOOLEAN
  /\ g_wait_pending \in BOOLEAN /\ g_stp_pending \in BOOLEAN
  /\ g_halt_sim \in BOOLEAN /\ g_stepping \in BOOLEAN

(* The frame event is at most one instruction late at time t.               *)
FrameInTime(t) == \E cost \in Costs : t <= FrameLen + 1 + cost

TimeInv ==
  /\ pc # "engine" => dfcyc = g_cur_dfcyc
  /\ pc \in {"idle", "loop", "engine"} => g_cur_dfcyc < FrameLen
  /\ pc = "engine" /\ dfcyc # g_cur_dfcyc => dfcyc >= g_cur_dfcyc + 2
  /\ FrameInTime(dfcyc)

(* The engine stops after one instruction or just past the first event.     *)
StopsInTime(end, cur, q) ==
  end = cur + 1 \/ \A e \in Entries(q) : end <= e.dfcyc + 1

EngineInv ==
  /\ pc = "loop" => ~ g_halt_sim
  /\ pc = "engine" => stop \in Nat /\ g_dcycles_end \in {Ended, stop}
  /\ pc = "engine" /\ g_dcycles_end # Ended =>
       /\ g_ret1 = "0"
       /\ runs8 = acc8
       /\ g_halt_sim => HaltOnIrq
  /\ pc = "engine" /\ (g_dcycles_end # Ended \/ g_ret1 = "RET_PSR") =>
       StopsInTime(stop, g_cur_dfcyc, queue)
  /\ pc = "engine" /\ dfcyc = g_cur_dfcyc /\ ~ g_stepping =>
       \A e \in Entries(queue) : stop <= e.dfcyc + 1

LoopInv == StateOK /\ QueueOK(queue) /\ TimeInv /\ EngineInv

(* An instruction takes some time and less than a frame.                    *)
LEMMA CostFacts ==
  /\ \A cost \in Costs : cost \in Nat /\ cost >= 2 /\ 1 + cost < FrameLen
  /\ Costs # {} /\ FrameLen \in Nat /\ FrameLen > 0
  /\ \A delay \in Delays : delay \in Int
BY TimesAssumption, FrameAssumption

(* An instruction that was fetched in time does not make the frame event    *)
(* later than the invariant allows.                                         *)
LEMMA InstructionInTime ==
  ASSUME LoopInv, NEW cost \in Costs,
         pc = "engine", dfcyc <= g_dcycles_end, dfcyc' = dfcyc + cost,
         UNCHANGED <<pc, g_cur_dfcyc>>
  PROVE  TimeInv' /\ dfcyc' # g_cur_dfcyc'
<1>1. cost \in Nat /\ cost >= 2 /\ FrameLen \in Nat
  BY CostFacts
<1>2. dfcyc \in Nat /\ g_cur_dfcyc \in Nat /\ g_cur_dfcyc < FrameLen
  BY DEF LoopInv, StateOK, TimeInv
<1>3. stop \in Nat /\ g_dcycles_end = stop
  BY <1>2 DEF LoopInv, EngineInv, Ended
<1>4. g_dcycles_end # Ended
  BY <1>3 DEF Ended
<1>5. StopsInTime(stop, g_cur_dfcyc, queue)
  BY <1>4 DEF LoopInv, EngineInv
<1>6. dfcyc = g_cur_dfcyc \/ dfcyc >= g_cur_dfcyc + 2
  BY DEF LoopInv, TimeInv
<1>7. dfcyc' # g_cur_dfcyc' /\ dfcyc' >= g_cur_dfcyc' + 2
  BY <1>1, <1>2, <1>6
<1>8. \E e \in Entries(queue) : e.dfcyc = FrameLen
  BY DEF LoopInv, QueueOK
<1>9. dfcyc <= FrameLen + 1
  BY <1>1, <1>2, <1>3, <1>5, <1>8 DEF StopsInTime
<1>10. dfcyc' <= FrameLen + 1 + cost
  BY <1>1, <1>2, <1>9
<1> QED
  BY <1>2, <1>7, <1>10 DEF TimeInv, FrameInTime

(* What an instruction has to show to keep the invariant: a reason to leave *)
(* zeroes the engine's end; and where the engine may go on to stop, no      *)
(* event has come in front of that.                                         *)
LEMMA InstructionKeeps ==
  ASSUME LoopInv, NEW cost \in Costs, NEW hit \in BOOLEAN, NEW zeroed \in BOOLEAN,
         pc = "engine", dfcyc <= g_dcycles_end, dfcyc' = dfcyc + cost,
         UNCHANGED <<pc, g_cur_dfcyc, stop, runs8>>,
         EndAfter(hit, zeroed),
         QueueOK(queue'),
         \/ zeroed /\ g_ret1' # "RET_PSR"
         \/ \A e \in Entries(queue') :
              \E d \in Entries(queue) : d.dfcyc <= e.dfcyc,
         ~ zeroed => g_ret1' \in {g_ret1, "0"} /\ acc8' = acc8,
         g_ret1' \in Rets, g_irq_pending' \subseteq Evs, at' \in Places,
         mask' \in BOOLEAN, acc8' \in BOOLEAN, g_wait_pending' \in BOOLEAN,
         g_stp_pending' \in BOOLEAN, g_stepping' \in BOOLEAN
  PROVE  LoopInv'
<1>1. StateOK /\ TimeInv /\ EngineInv
  BY DEF LoopInv
<1>2. cost \in Nat /\ dfcyc \in Nat /\ g_cur_dfcyc \in Nat
  BY <1>1, CostFacts DEF StateOK
<1>3. stop \in Nat /\ g_dcycles_end = stop /\ g_dcycles_end # Ended
  BY <1>1, <1>2 DEF EngineInv, Ended
<1>4. /\ g_ret1 = "0" /\ runs8 = acc8 /\ (g_halt_sim => HaltOnIrq)
      /\ StopsInTime(stop, g_cur_dfcyc, queue)
  BY <1>1, <1>3 DEF EngineInv
<1>5. /\ g_dcycles_end' \in {Ended, stop}
      /\ g_dcycles_end' # Ended => ~ hit /\ ~ zeroed
      /\ g_halt_sim' = (g_halt_sim \/ hit)
  BY <1>3 DEF EndAfter
<1>6. g_halt_sim' \in BOOLEAN
  BY <1>5
<1>7. StateOK'
  <2>1. dfcyc' \in Nat /\ g_dcycles_end' \in Nat \cup {Ended}
    BY <1>2, <1>3, <1>5
  <2> QED
    BY <1>1, <1>6, <2>1 DEF StateOK
<1>8. TimeInv' /\ dfcyc' # g_cur_dfcyc'
  BY InstructionInTime
<1>9. EngineInv'
  <2>1. g_dcycles_end' # Ended => g_ret1' = "0" /\ runs8' = acc8'
                                    /\ (g_halt_sim' => HaltOnIrq)
    BY <1>4, <1>5
  <2>2. ASSUME g_dcycles_end' # Ended \/ g_ret1' = "RET_PSR"
        PROVE  StopsInTime(stop', g_cur_dfcyc', queue')
    <3>1. ~ (zeroed /\ g_ret1' # "RET_PSR")
      BY <1>4, <1>5, <2>2
    <3>2. \A e \in Entries(queue') :
            \E d \in Entries(queue) : d.dfcyc <= e.dfcyc
      BY <3>1
    <3>3. /\ \A e \in Entries(queue) : e.dfcyc \in Nat
          /\ \A e \in Entries(queue') : e.dfcyc \in Nat
      BY QueueHead DEF LoopInv
    <3>4. ASSUME NEW e \in Entries(queue'),
                 \A d \in Entries(queue) : stop <= d.dfcyc + 1
          PROVE  stop <= e.dfcyc + 1
      <4>1. PICK d \in Entries(queue) : d.dfcyc <= e.dfcyc
        BY <3>2
      <4>2. d.dfcyc \in Nat /\ e.dfcyc \in Nat /\ stop <= d.dfcyc + 1
        BY <3>3, <3>4
      <4> QED
        BY <1>3, <4>1, <4>2
    <3>5. stop' = stop /\ g_cur_dfcyc' = g_cur_dfcyc
      OBVIOUS
    <3> QED
      BY <1>4, <3>4, <3>5 DEF StopsInTime
  <2>3. pc' = "engine" /\ stop' = stop
    OBVIOUS
  <2> QED
    BY <1>3, <1>5, <1>8, <2>1, <2>2, <2>3 DEF EngineInv
<1> QED
  BY <1>7, <1>8, <1>9 DEF LoopInv


(* The list as an instruction that leaves it alone keeps it.                *)
LEMMA ListUntouched ==
  ASSUME LoopInv, UNCHANGED queue
  PROVE  /\ QueueOK(queue')
         /\ \A e \in Entries(queue') : \E d \in Entries(queue) : d.dfcyc <= e.dfcyc
<1>1. QueueOK(queue)
  BY DEF LoopInv
<1>2. \A e \in Entries(queue) : e.dfcyc <= e.dfcyc
  BY <1>1, QueueHead
<1> QED
  BY <1>1, <1>2

(* The same where entries only went.                                        *)
LEMMA ListShrinks ==
  ASSUME LoopInv, Entries(queue') \subseteq Entries(queue)
  PROVE  \A e \in Entries(queue') : \E d \in Entries(queue) : d.dfcyc <= e.dfcyc
<1>1. \A e \in Entries(queue) : e.dfcyc <= e.dfcyc
  BY QueueHead DEF LoopInv
<1> QED
  BY <1>1

(* Every instruction keeps the invariant.                                   *)
LEMMA InstructionStep ==
  ASSUME LoopInv, Instruction
  PROVE  LoopInv'
<1>0. StateOK /\ QueueOK(queue)
  BY DEF LoopInv
<1>a. PICK cost \in Costs, hit \in BOOLEAN, place \in Places :
    \/ Plain(cost, hit, place) \/ Sei(cost, hit, place) \/ Cli(cost, hit, place)
    \/ \E i, m \in BOOLEAN : UpdatePsr(cost, hit, place, i, m)
    \/ Wai(cost, hit, place) \/ Stp(cost, hit) \/ Wdm(cost, hit, place)
    \/ \E dev \in Devs, delay \in Delays : StartEvent(cost, hit, place, dev, delay)
    \/ \E dev \in Devs : \/ StopEvent(cost, hit, place, dev)
                         \/ RaiseIrq(cost, hit, place, dev)
    \/ \E irq \in Evs : RemoveIrq(cost, hit, place, irq)
    \/ AdbReset(cost, hit, place)
  BY DEF Instruction
<1>1. CASE Plain(cost, hit, place)
  BY <1>0, <1>1, ListUntouched, InstructionKeeps
     DEF Plain, Fetch, GoesOn, StateOK
<1>2. CASE Sei(cost, hit, place)
  BY <1>0, <1>2, ListUntouched, InstructionKeeps
     DEF Sei, Fetch, GoesOn, StateOK
<1>3. CASE Cli(cost, hit, place)
  <2> DEFINE zeroed == g_irq_pending # {}
  <2>1. zeroed \in BOOLEAN /\ g_ret1' \in Rets
        /\ (~ zeroed => g_ret1' = g_ret1) /\ EndAfter(hit, zeroed)
    BY <1>0, <1>3 DEF Cli, StateOK, Rets
  <2> HIDE DEF zeroed
  <2> QED
    BY <1>0, <1>3, <2>1, ListUntouched, InstructionKeeps
       DEF Cli, Fetch, GoesOn, StateOK
<1>4. ASSUME NEW i \in BOOLEAN, NEW m \in BOOLEAN,
             UpdatePsr(cost, hit, place, i, m)
      PROVE  LoopInv'
  <2> DEFINE zeroed == PsrRet(i, m) # "0"
  <2>1. /\ zeroed \in BOOLEAN /\ g_ret1' \in Rets
        /\ ~ zeroed => g_ret1' \in {g_ret1, "0"} /\ acc8' = acc8
        /\ EndAfter(hit, zeroed)
    BY <1>0, <1>4 DEF UpdatePsr, StateOK, Rets, PsrRet
  <2> HIDE DEF zeroed
  <2> QED
    BY <1>0, <1>4, <2>1, ListUntouched, InstructionKeeps
       DEF UpdatePsr, Fetch, StateOK
<1>5. CASE Wai(cost, hit, place)
  BY <1>0, <1>5, ListUntouched, InstructionKeeps
     DEF Wai, WaiGoesOn, Fetch, StateOK
<1>6. CASE Stp(cost, hit)
  BY <1>0, <1>6, ListUntouched, InstructionKeeps
     DEF Stp, Fetch, StateOK, Rets
<1>7. CASE Wdm(cost, hit, place)
  BY <1>0, <1>7, ListUntouched, InstructionKeeps
     DEF Wdm, Fetch, GoesOn, StateOK, Rets
<1>8. ASSUME NEW dev \in Devs, NEW delay \in Delays,
             StartEvent(cost, hit, place, dev, delay)
      PROVE  LoopInv'
  <2> DEFINE time == FilingTime(dfcyc + delay, g_cur_dfcyc)
             others == Without(queue, {dev})
             zeroed == Recalcs(others, time)
             new == [dfcyc |-> time, type |-> Bare(dev)]
  <2>1. time \in Nat
    <3>1. dfcyc + delay \in Int /\ g_cur_dfcyc \in Nat
      BY <1>0, CostFacts DEF StateOK
    <3> QED
      BY <3>1, FilingFacts
  <2>2. queue' = Inserted(others, time, dev) /\ EndAfter(hit, zeroed)
    BY <1>8 DEF StartEvent
  <2>3. QueueOK(others) /\ Entries(others) \subseteq Entries(queue)
    BY <1>0, QueueWithout
  <2>a. new.dfcyc = time
    OBVIOUS
  <2> HIDE DEF time
  <2>4. QueueOK(queue') /\ Entries(queue') = Entries(others) \cup {new}
    BY <1>0, <2>1, <2>2, QueueMoved
  <2> HIDE DEF others, new
  <2>5. /\ others # <<>> /\ others[1] \in Entries(others)
        /\ \A d \in Entries(others) : d.dfcyc \in Nat
    BY <2>3, QueueHead
  <2>6. zeroed \in BOOLEAN /\ (~ zeroed => ~ (time < others[1].dfcyc))
    BY <2>5 DEF Recalcs, BecomesFirst
  <2>7. ASSUME ~ zeroed, NEW e \in Entries(queue')
        PROVE  \E d \in Entries(queue) : d.dfcyc <= e.dfcyc
    <3>1. others[1].dfcyc <= time
      BY <2>1, <2>5, <2>6, <2>7
    <3> QED
      BY <2>3, <2>4, <2>5, <2>a, <3>1
  <2>8. g_ret1' # "RET_PSR"
    BY <1>0, <1>8 DEF StartEvent, Fetch, LoopInv, EngineInv, StateOK, Ended
  <2> HIDE DEF zeroed
  <2> QED
    BY <1>0, <1>8, <2>2, <2>4, <2>6, <2>7, <2>8, InstructionKeeps
       DEF StartEvent, Fetch, GoesOn, StateOK
<1>9. ASSUME NEW dev \in Devs, StopEvent(cost, hit, place, dev)
      PROVE  LoopInv'
  <2>1. QueueOK(queue') /\ Entries(queue') \subseteq Entries(queue)
    BY <1>0, <1>9, QueueRemoved DEF StopEvent, Queued
  <2> QED
    BY <1>0, <1>9, <2>1, ListShrinks, InstructionKeeps
       DEF StopEvent, Fetch, GoesOn, StateOK
<1>10. ASSUME NEW dev \in Devs, RaiseIrq(cost, hit, place, dev)
       PROVE  LoopInv'
  <2> DEFINE zeroed == IrqRecalcs(dev)
  <2>1. zeroed \in BOOLEAN /\ EndAfter(hit, zeroed)
    BY <1>10 DEF RaiseIrq, IrqRecalcs
  <2>2. g_irq_pending' \subseteq Evs
    BY <1>0, <1>10, SourcesAssumption DEF RaiseIrq, StateOK
  <2> HIDE DEF zeroed
  <2> QED
    BY <1>0, <1>10, <2>1, <2>2, ListUntouched, InstructionKeeps
       DEF RaiseIrq, Fetch, GoesOn, StateOK
<1>11. ASSUME NEW irq \in Evs, RemoveIrq(cost, hit, place, irq)
       PROVE  LoopInv'
  BY <1>0, <1>11, ListUntouched, InstructionKeeps
     DEF RemoveIrq, Fetch, GoesOn, StateOK
<1>12. CASE AdbReset(cost, hit, place)
  <2>1. QueueOK(queue') /\ Entries(queue') \subseteq Entries(queue)
    BY <1>0, <1>12, SourcesAssumption, QueueWithout DEF AdbReset
  <2> QED
    BY <1>0, <1>12, <2>1, ListShrinks, InstructionKeeps
       DEF AdbReset, StateOK
<1> QED
  BY <1>a, <1>1, <1>2, <1>3, <1>4, <1>5, <1>6, <1>7, <1>8, <1>9, <1>10, <1>11,
     <1>12


-------------------------------------------------------------------------------
(* Taking the engine up, changing it and leaving it.                        *)
LEMMA EngineStep ==
  ASSUME LoopInv, EnterEngine \/ RestartEngine \/ LeaveEngine
  PROVE  LoopInv'
<1>0. StateOK /\ QueueOK(queue) /\ TimeInv /\ EngineInv
  BY DEF LoopInv
<1>q. /\ queue[1].dfcyc \in Nat
      /\ \A e \in Entries(queue) : queue[1].dfcyc <= e.dfcyc /\ e.dfcyc \in Nat
  BY <1>0, QueueHead
<1>1. CASE EnterEngine
  <2>1. /\ pc = "loop" /\ pc' = "engine" /\ queue' = queue
        /\ g_cur_dfcyc' = g_cur_dfcyc /\ dfcyc' = g_cur_dfcyc
        /\ stop' = StopTime /\ g_dcycles_end' = StopTime
        /\ g_ret1' = "0" /\ runs8' = acc8 /\ acc8' = acc8
        /\ g_stepping' = g_stepping
    BY <1>1 DEF EnterEngine
  <2>2. /\ StopTime \in Nat /\ StopsInTime(StopTime, g_cur_dfcyc, queue)
        /\ ~ g_stepping => \A e \in Entries(queue) : StopTime <= e.dfcyc + 1
    BY <1>0, <1>q DEF StopTime, StopsInTime, StateOK
  <2>3. ~ g_halt_sim
    BY <1>0, <2>1 DEF EngineInv
  <2>4. g_halt_sim' \in BOOLEAN /\ (g_halt_sim' => HaltOnIrq)
    <3>1. g_halt_sim \in BOOLEAN
      BY <1>0 DEF StateOK
    <3>2. \/ g_halt_sim' = (g_halt_sim \/ HaltOnIrq)
          \/ g_halt_sim' = g_halt_sim
      BY <1>1 DEF EnterEngine
    <3>3. g_halt_sim' \in BOOLEAN
      BY <3>1, <3>2
    <3>4. g_halt_sim' => g_halt_sim \/ HaltOnIrq
      BY <3>2
    <3> QED
      BY <2>3, <3>3, <3>4
  <2>5. mask' \in BOOLEAN /\ at' \in Places /\ g_wait_pending' \in BOOLEAN
    BY <1>0, <1>1 DEF EnterEngine, StateOK
  <2>6. StateOK'
    BY <1>0, <1>1, <2>1, <2>2, <2>4, <2>5
       DEF EnterEngine, StateOK, Phases, Rets
  <2>7. TimeInv'
    BY <1>0, <2>1 DEF TimeInv
  <2>8. EngineInv'
    BY <2>1, <2>2, <2>4 DEF EngineInv
  <2> QED
    BY <1>0, <2>1, <2>6, <2>7, <2>8 DEF LoopInv
<1>2. CASE RestartEngine
  <2>1. /\ pc = "engine" /\ pc' = pc /\ queue' = queue
        /\ g_cur_dfcyc' = g_cur_dfcyc /\ dfcyc' = dfcyc /\ stop' = stop
        /\ g_dcycles_end' = stop /\ g_ret1' = "0" /\ runs8' = acc8
        /\ acc8' = acc8 /\ g_halt_sim' = g_halt_sim
        /\ g_ret1 = "RET_PSR" /\ ~ g_halt_sim /\ g_stepping' = g_stepping
    BY <1>2 DEF RestartEngine, Restarts, cpu
  <2>2. StopsInTime(stop, g_cur_dfcyc, queue) /\ stop \in Nat
    BY <1>0, <2>1 DEF EngineInv
  <2>3. StateOK'
    BY <1>0, <1>2, <2>1, <2>2 DEF RestartEngine, StateOK, Rets, cpu
  <2>4. TimeInv'
    BY <1>0, <2>1 DEF TimeInv
  <2>5. EngineInv'
    BY <1>0, <2>1, <2>2 DEF EngineInv
  <2> QED
    BY <1>0, <2>1, <2>3, <2>4, <2>5 DEF LoopInv
<1>3. CASE LeaveEngine
  <2>1. /\ pc' \in {"events", "action"} /\ queue' = queue
        /\ g_cur_dfcyc' = dfcyc /\ dfcyc' = dfcyc
    BY <1>3 DEF LeaveEngine
  <2>2. StateOK'
    BY <1>0, <1>3, <2>1 DEF LeaveEngine, StateOK, Phases, cpu
  <2>3. TimeInv'
    BY <1>0, <2>1 DEF TimeInv
  <2>4. EngineInv'
    BY <2>1 DEF EngineInv
  <2> QED
    BY <1>0, <2>1, <2>2, <2>3, <2>4 DEF LoopInv
<1> QED
  BY <1>1, <1>2, <1>3

(* What follows an engine's return, and the start of the next run.          *)
LEMMA RoundStep ==
  ASSUME LoopInv, handle_action \/ NextRound \/ run_16ms
  PROVE  LoopInv'
<1>0. StateOK /\ QueueOK(queue) /\ TimeInv /\ EngineInv
  BY DEF LoopInv
<1>1. CASE handle_action
  <2>1. /\ pc = "action" /\ pc' = "events" /\ queue' = queue
        /\ g_cur_dfcyc' = g_cur_dfcyc /\ dfcyc' = dfcyc
    BY <1>1 DEF handle_action
  <2>2. g_halt_sim' \in BOOLEAN /\ g_stp_pending' \in BOOLEAN
    BY <1>1 DEF handle_action
  <2>3. StateOK'
    BY <1>0, <1>1, <2>1, <2>2 DEF handle_action, StateOK, Phases, Rets
  <2>4. TimeInv'
    BY <1>0, <2>1 DEF TimeInv
  <2>5. EngineInv'
    BY <2>1 DEF EngineInv
  <2> QED
    BY <1>0, <2>1, <2>3, <2>4, <2>5 DEF LoopInv
<1>2. CASE NextRound
  <2>1. /\ pc = "events" /\ pc' = (IF g_halt_sim \/ g_stepping THEN "idle" ELSE "loop")
        /\ queue' = queue /\ g_cur_dfcyc' = g_cur_dfcyc /\ dfcyc' = dfcyc
        /\ g_halt_sim' = g_halt_sim /\ ~ Due
    BY <1>2 DEF NextRound, engine
  <2>a. pc' \in {"idle", "loop"} /\ (pc' = "loop" => ~ g_halt_sim')
    BY <2>1
  <2>2. StateOK'
    BY <1>0, <1>2, <2>a DEF NextRound, StateOK, Phases, engine, cpu
  <2>3. g_cur_dfcyc \in Nat /\ dfcyc = g_cur_dfcyc
    BY <1>0, <2>1 DEF StateOK, TimeInv
  <2>4. \A e \in Entries(queue) : e.dfcyc \in Nat /\ g_cur_dfcyc < e.dfcyc
    <3>1. /\ queue # <<>> /\ queue[1] \in Entries(queue)
          /\ \A e \in Entries(queue) : queue[1].dfcyc <= e.dfcyc /\ e.dfcyc \in Nat
      BY <1>0, QueueHead
    <3>2. ~ (g_cur_dfcyc >= queue[1].dfcyc) /\ queue[1].dfcyc \in Nat
      BY <2>1, <3>1 DEF Due
    <3> QED
      BY <2>3, <3>1, <3>2
  <2>5. g_cur_dfcyc < FrameLen
    BY <1>0, <2>4 DEF QueueOK
  <2>7. TimeInv'
    BY <1>0, <2>1, <2>a, <2>3, <2>5 DEF TimeInv
  <2>8. EngineInv'
    BY <2>a DEF EngineInv
  <2> QED
    BY <1>0, <2>1, <2>2, <2>7, <2>8 DEF LoopInv
<1>3. CASE run_16ms
  <2>1. /\ pc = "idle" /\ pc' = "loop" /\ ~ g_halt_sim
        /\ queue' = queue /\ g_cur_dfcyc' = g_cur_dfcyc /\ dfcyc' = dfcyc
        /\ g_halt_sim' = g_halt_sim
    BY <1>3 DEF run_16ms, engine
  <2>2. StateOK'
    BY <1>0, <1>3, <2>1 DEF run_16ms, StateOK, Phases, engine, cpu
  <2>3. TimeInv'
    BY <1>0, <2>1 DEF TimeInv
  <2>4. EngineInv'
    BY <2>1 DEF EngineInv
  <2> QED
    BY <1>0, <2>1, <2>2, <2>3, <2>4 DEF LoopInv
<1> QED
  BY <1>1, <1>2, <1>3

(* What the user does between two frames.                                   *)
LEMMA UserStep ==
  ASSUME LoopInv, User
  PROVE  LoopInv'
<1>0. StateOK /\ QueueOK(queue) /\ TimeInv /\ EngineInv
  BY DEF LoopInv
<1>1. CASE do_reset
  <2>1. /\ pc = "idle" /\ pc' = pc
        /\ queue' = Without(queue, ResetDevs)
        /\ g_cur_dfcyc' = g_cur_dfcyc /\ dfcyc' = dfcyc
    BY <1>1 DEF do_reset, engine
  <2>2. QueueOK(queue') /\ Entries(queue') \subseteq Entries(queue)
    BY <1>0, <2>1, SourcesAssumption, QueueWithout
  <2>3. StateOK'
    BY <1>0, <1>1, <2>1 DEF do_reset, StateOK, Places, engine
  <2>4. TimeInv'
    BY <1>0, <2>1, <2>2 DEF TimeInv
  <2>5. EngineInv'
    BY <2>1 DEF EngineInv
  <2> QED
    BY <2>2, <2>3, <2>4, <2>5 DEF LoopInv
<1>2. ASSUME NEW place \in Places, do_go(place) \/ step(place) PROVE LoopInv'
  <2>1. /\ pc = "idle" /\ pc' = pc /\ queue' = queue
        /\ g_cur_dfcyc' = g_cur_dfcyc /\ dfcyc' = dfcyc
    BY <1>2 DEF do_go, step, engine
  <2>2. g_halt_sim' \in BOOLEAN /\ g_stepping' \in BOOLEAN /\ at' \in Places
    BY <1>0, <1>2 DEF do_go, step, StateOK
  <2>3. StateOK'
    BY <1>0, <1>2, <2>1, <2>2 DEF do_go, step, StateOK, engine
  <2>4. TimeInv'
    BY <1>0, <2>1 DEF TimeInv
  <2>5. EngineInv'
    BY <2>1 DEF EngineInv
  <2> QED
    BY <1>0, <2>1, <2>3, <2>4, <2>5 DEF LoopInv
<1> QED
  BY <1>1, <1>2 DEF User


(* What is left once a device's event has been taken off.                   *)
LEMMA QueueTail ==
  ASSUME NEW q, QueueOK(q), q[1].type.ev \in Devs
  PROVE  /\ QueueOK(Tail(q)) /\ Entries(Tail(q)) \subseteq Entries(q)
         /\ \A e \in Entries(Tail(q)) : e.type # Bare(q[1].type.ev)
<1>1. q \in Seq(Event) /\ q # <<>> /\ Distinct(q)
  BY QueueHead DEF QueueOK
<1>2. /\ Tail(q) \in Seq(Event) /\ Thinned(Tail(q), q)
      /\ Entries(q) = Entries(Tail(q)) \cup {q[1]}
      /\ \A e \in Entries(Tail(q)) : e.type # q[1].type
      /\ q[1] \in Entries(q)
  BY <1>1, TailFacts
<1>3. q[1].type = Bare(q[1].type.ev)
  BY <1>2 DEF QueueOK
<1>4. q[1].type # Bare(EV_60HZ)
  BY SourcesAssumption DEF Bare
<1>5. QueueOK(Tail(q)) /\ Entries(Tail(q)) \subseteq Entries(q)
  BY <1>2, <1>4, QueueThinned
<1> QED
  BY <1>2, <1>3, <1>5

(* A device's handler leaves the list as it should be.                      *)
LEMMA DeviceStep ==
  ASSUME LoopInv, NEW f \in Filings, NEW raises \in BOOLEAN, NEW hit \in BOOLEAN,
         DeviceEvent(f, raises, hit)
  PROVE  LoopInv'
<1>0. StateOK /\ QueueOK(queue) /\ TimeInv /\ EngineInv
  BY DEF LoopInv
<1>1. /\ pc = "events" /\ pc' = pc /\ queue[1].type.ev \in Devs
      /\ queue' = After(Tail(queue), f, g_cur_dfcyc)
      /\ g_cur_dfcyc' = g_cur_dfcyc /\ dfcyc' = dfcyc
  BY DEF DeviceEvent, engine
<1>2. QueueOK(queue')
  <2>1. QueueOK(Tail(queue)) /\ g_cur_dfcyc \in Nat
    BY <1>0, <1>1, QueueTail DEF StateOK
  <2> QED
    BY <1>1, <2>1, QueueAfter
<1>3. g_irq_pending' \subseteq Evs /\ g_halt_sim' \in BOOLEAN
  BY <1>0, <1>1, SourcesAssumption DEF DeviceEvent, StateOK
<1>4. StateOK'
  BY <1>0, <1>3 DEF DeviceEvent, StateOK, engine, cpu
<1>5. TimeInv'
  BY <1>0, <1>1 DEF TimeInv
<1>6. EngineInv'
  BY <1>1 DEF EngineInv
<1> QED
  BY <1>2, <1>4, <1>5, <1>6 DEF LoopInv

(* The list of the next frame: every time a frame less.                     *)
LEMMA ShiftedFacts ==
  ASSUME NEW q \in Seq(Event), \A e \in Entries(q) : e.dfcyc >= FrameLen
  PROVE  /\ Shifted(q) \in Seq(Event) /\ Len(Shifted(q)) = Len(q)
         /\ \A i \in 1 .. Len(q) :
              /\ Shifted(q)[i].dfcyc = q[i].dfcyc - FrameLen
              /\ Shifted(q)[i].type = q[i].type
         /\ \A e \in Entries(Shifted(q)) : \E d \in Entries(q) :
              e.type = d.type /\ e.dfcyc = d.dfcyc - FrameLen
         /\ \A d \in Entries(q) : \E e \in Entries(Shifted(q)) :
              e.type = d.type /\ e.dfcyc = d.dfcyc - FrameLen
<1> DEFINE p == Shifted(q)
<1>1. Len(q) \in Nat /\ \A i \in 1 .. Len(q) : q[i] \in Event /\ q[i] \in Entries(q)
  BY DEF Entries
<1>2. FrameLen \in Nat
  BY CostFacts
<1>3. ASSUME NEW d \in Event, d.dfcyc >= FrameLen
      PROVE  LET e == [d EXCEPT !.dfcyc = @ - FrameLen] IN
             e \in Event /\ e.dfcyc = d.dfcyc - FrameLen /\ e.type = d.type
  <2>1. d.dfcyc - FrameLen \in Nat
    BY <1>2, <1>3 DEF Event
  <2> QED
    BY <2>1 DEF Event
<1>4. \A i \in 1 .. Len(q) :
        /\ p[i] \in Event
        /\ p[i].dfcyc = q[i].dfcyc - FrameLen
        /\ p[i].type = q[i].type
  <2> SUFFICES ASSUME NEW i \in 1 .. Len(q)
               PROVE  /\ p[i] \in Event
                      /\ p[i].dfcyc = q[i].dfcyc - FrameLen
                      /\ p[i].type = q[i].type
    OBVIOUS
  <2>1. p[i] = [q[i] EXCEPT !.dfcyc = @ - FrameLen]
    BY DEF Shifted
  <2> HIDE DEF p
  <2> QED
    BY <1>1, <1>3, <2>1
<1>5. p = [i \in 1 .. Len(q) |-> p[i]]
  BY DEF Shifted
<1> HIDE DEF p
<1>6. p \in Seq(Event) /\ Len(p) = Len(q)
  <2>1. p \in [1 .. Len(q) -> Event]
    BY <1>4, <1>5
  <2> QED
    BY <1>1, <2>1
<1>7. /\ \A e \in Entries(p) : \E d \in Entries(q) :
           e.type = d.type /\ e.dfcyc = d.dfcyc - FrameLen
      /\ \A d \in Entries(q) : \E e \in Entries(p) :
           e.type = d.type /\ e.dfcyc = d.dfcyc - FrameLen
  BY <1>4, <1>6 DEF Entries
<1> QED
  BY <1>4, <1>6, <1>7 DEF p

(* The frame event is the head; what stays behind it and the next frame's   *)
(* event make the list of the next frame.                                   *)
LEMMA QueueNextFrame ==
  ASSUME NEW q, QueueOK(q), q[1].type = Bare(EV_60HZ)
  PROVE  QueueOK(Shifted(NextFrame(Tail(q))))
<1> DEFINE rest == Tail(q)
           p == NextFrame(rest)
           new == [dfcyc |-> 2 * FrameLen, type |-> Bare(EV_60HZ)]
<1>1. /\ q \in Seq(Event) /\ TimeOrdered(q) /\ Distinct(q) /\ q # <<>>
      /\ q[1] \in Entries(q) /\ q[1].dfcyc = FrameLen
      /\ \A e \in Entries(q) : e.dfcyc >= FrameLen /\ e.dfcyc \in Nat
  <2>1. q[1] \in Entries(q) /\ q # <<>>
    BY QueueHead
  <2>2. q[1].dfcyc = FrameLen
    BY <2>1 DEF QueueOK
  <2>3. \A e \in Entries(q) : e.dfcyc >= FrameLen /\ e.dfcyc \in Nat
    BY <2>2, QueueHead, CostFacts
  <2> QED
    BY <2>1, <2>2, <2>3 DEF QueueOK
<1>2. FrameLen \in Nat /\ FrameLen > 0 /\ 2 * FrameLen \in Nat
      /\ 2 * FrameLen - FrameLen = FrameLen /\ 2 * FrameLen >= FrameLen
  BY CostFacts
<1>3. /\ rest \in Seq(Event) /\ Thinned(rest, q)
      /\ Entries(rest) \subseteq Entries(q)
      /\ \A e \in Entries(rest) : e.type # Bare(EV_60HZ)
  BY <1>1, TailFacts
<1>4. TimeOrdered(rest) /\ Distinct(rest)
  BY <1>1, <1>3, ThinnedKeeps
<1>5. EV_60HZ \in Evs
  BY SourcesAssumption
<1>6. new.dfcyc = 2 * FrameLen /\ new.type = Bare(EV_60HZ)
  OBVIOUS
<1>a. p = Inserted(rest, 2 * FrameLen, EV_60HZ)
  BY DEF NextFrame
<1> HIDE DEF rest, p
<1>7. p \in Seq(Event)
  BY <1>a, <1>2, <1>3, <1>5, InsertedFacts
<1>8. TimeOrdered(p) /\ Entries(p) = Entries(rest) \cup {new} /\ Distinct(p)
  BY <1>a, <1>2, <1>3, <1>4, <1>5, InsertedKeeps
<1> HIDE DEF new
<1>9. \A e \in Entries(p) : e.dfcyc >= FrameLen /\ e.dfcyc \in Nat
  BY <1>1, <1>2, <1>3, <1>6, <1>8
<1> DEFINE s == Shifted(p)
<1>10. /\ s \in Seq(Event) /\ Len(s) = Len(p)
       /\ \A i \in 1 .. Len(p) :
            /\ s[i].dfcyc = p[i].dfcyc - FrameLen
            /\ s[i].type = p[i].type
       /\ \A e \in Entries(s) : \E d \in Entries(p) :
            e.type = d.type /\ e.dfcyc = d.dfcyc - FrameLen
       /\ \A d \in Entries(p) : \E e \in Entries(s) :
            e.type = d.type /\ e.dfcyc = d.dfcyc - FrameLen
  BY <1>7, <1>9, ShiftedFacts
<1> HIDE DEF s
<1>11. TimeOrdered(s)
  <2> SUFFICES ASSUME NEW i \in 1 .. Len(p), NEW j \in 1 .. Len(p), i < j
               PROVE  s[i].dfcyc <= s[j].dfcyc
    BY <1>10 DEF TimeOrdered
  <2>1. p[i].dfcyc <= p[j].dfcyc
    BY <1>8 DEF TimeOrdered
  <2>2. p[i].dfcyc \in Nat /\ p[j].dfcyc \in Nat
    BY <1>9 DEF Entries
  <2>3. s[i].dfcyc = p[i].dfcyc - FrameLen /\ s[j].dfcyc = p[j].dfcyc - FrameLen
    BY <1>10
  <2>4. \A a, b, c \in Nat : a <= b => a - c <= b - c
    OBVIOUS
  <2>5. p[i].dfcyc - FrameLen <= p[j].dfcyc - FrameLen
    BY <1>2, <2>1, <2>2, <2>4
  <2> QED
    BY <2>3, <2>5
<1>12. Distinct(s)
  BY <1>8, <1>10 DEF Distinct
<1>13. \A e \in Entries(p) : e.type = Bare(e.type.ev)
  <2>1. Bare(EV_60HZ) = Bare(Bare(EV_60HZ).ev)
    BY DEF Bare
  <2> QED
    BY <1>3, <1>6, <1>8, <2>1 DEF QueueOK
<1>14. \A e \in Entries(p) : e.type = Bare(EV_60HZ) => e.dfcyc = 2 * FrameLen
  BY <1>3, <1>6, <1>8
<1>15. new \in Entries(p)
  BY <1>8
<1>16. QueueOK(s)
  <2>1. \A e \in Entries(s) : e.type = Bare(e.type.ev)
    BY <1>10, <1>13
  <2>2. \A e \in Entries(s) : e.type = Bare(EV_60HZ) => e.dfcyc = FrameLen
    BY <1>2, <1>10, <1>14
  <2>3. \E e \in Entries(s) : e.type = Bare(EV_60HZ)
    BY <1>6, <1>10, <1>15
  <2> QED
    BY <1>10, <1>11, <1>12, <2>1, <2>2, <2>3 DEF QueueOK
<1> QED
  BY <1>16 DEF s, p, rest

(* The frame's end: it is never more than one instruction late.             *)
LEMMA FrameStep ==
  ASSUME LoopInv, NEW vbl \in Filings, NEW scan \in Filings,
         NEW raises \in BOOLEAN, NEW hit \in BOOLEAN,
         update_60hz(vbl, scan, raises, hit)
  PROVE  LoopInv'
<1> DEFINE now == g_cur_dfcyc - FrameLen
           next == Shifted(NextFrame(Tail(queue)))
<1>0. StateOK /\ QueueOK(queue) /\ TimeInv /\ EngineInv
  BY DEF LoopInv
<1>1. /\ pc = "events" /\ Due /\ queue[1].type = Bare(EV_60HZ)
      /\ queue' = After(After(next, vbl, now), scan, now)
      /\ g_cur_dfcyc' = now /\ dfcyc' = now /\ pc' = "idle"
  BY DEF update_60hz
<1>2. QueueOK(next)
  BY <1>0, <1>1, QueueNextFrame
<1>3. dfcyc = g_cur_dfcyc /\ g_cur_dfcyc \in Nat /\ FrameLen \in Nat
  BY <1>0, <1>1, CostFacts DEF StateOK, TimeInv
<1>4. queue[1] \in Entries(queue) /\ queue[1].dfcyc = FrameLen
  BY <1>0, <1>1, QueueHead DEF QueueOK
<1>5. g_cur_dfcyc >= FrameLen
  BY <1>1, <1>4 DEF Due
<1>6. now \in Nat /\ now < FrameLen
  <2>1. PICK cost \in Costs : dfcyc <= FrameLen + 1 + cost
    BY <1>0 DEF TimeInv, FrameInTime
  <2> QED
    BY <1>3, <1>5, <2>1, CostFacts
<1> HIDE DEF now, next
<1>7. QueueOK(queue')
  <2>1. QueueOK(After(next, vbl, now))
    BY <1>2, <1>6, QueueAfter
  <2> HIDE DEF After
  <2> QED
    BY <1>1, <1>6, <2>1, QueueAfter
<1>8. FrameInTime(now)
  BY <1>3, <1>6, CostFacts DEF FrameInTime
<1>9. TimeInv'
  BY <1>1, <1>6, <1>8 DEF TimeInv
<1>10. g_irq_pending' \subseteq Evs /\ g_halt_sim' \in BOOLEAN
  BY <1>0, SourcesAssumption DEF update_60hz, StateOK
<1>11. StateOK'
  BY <1>0, <1>1, <1>6, <1>10 DEF update_60hz, StateOK, Phases, cpu
<1>12. EngineInv'
  BY <1>1 DEF EngineInv
<1> QED
  BY <1>7, <1>9, <1>11, <1>12 DEF LoopInv


-------------------------------------------------------------------------------
LEMMA LoopInvHolds == Spec => []LoopInv
<1>1. Init => LoopInv
  <2> SUFFICES ASSUME Init PROVE LoopInv
    OBVIOUS
  <2> DEFINE first == [dfcyc |-> FrameLen, type |-> Bare(EV_60HZ)]
  <2>1. /\ pc = "idle" /\ queue = <<first>> /\ g_cur_dfcyc = 0 /\ dfcyc = 0
        /\ g_halt_sim = FALSE
    BY DEF Init
  <2>2. first \in Event
    BY SourcesAssumption, ArgsAssumption, CostFacts DEF Event, Types, Bare
  <2>3. first.dfcyc = FrameLen /\ first.type = Bare(first.type.ev)
        /\ first.type = Bare(EV_60HZ)
    BY DEF Bare
  <2> HIDE DEF first
  <2>4. queue \in Seq(Event) /\ Len(queue) = 1 /\ Entries(queue) = {first}
    BY <2>1, <2>2 DEF Entries
  <2>5. QueueOK(queue)
    <3>1. TimeOrdered(queue) /\ Distinct(queue)
      BY <2>4 DEF TimeOrdered, Distinct
    <3> QED
      BY <2>3, <2>4, <3>1 DEF QueueOK
  <2>6. StateOK
    BY DEF Init, StateOK, Phases, Rets, Places
  <2>7. FrameInTime(dfcyc)
    BY <2>1, CostFacts DEF FrameInTime
  <2>8. TimeInv
    BY <2>1, <2>7, CostFacts DEF TimeInv
  <2>9. EngineInv
    BY <2>1 DEF EngineInv
  <2> QED
    BY <2>5, <2>6, <2>8, <2>9 DEF LoopInv
<1>2. LoopInv /\ [Next]_vars => LoopInv'
  <2> SUFFICES ASSUME LoopInv, [Next]_vars PROVE LoopInv'
    OBVIOUS
  <2>1. CASE Instruction
    BY <2>1, InstructionStep
  <2>2. CASE Handler
    BY <2>2, DeviceStep, FrameStep DEF Handler
  <2>3. CASE Host
    BY <2>3, EngineStep, RoundStep DEF Host
  <2>4. CASE User
    BY <2>4, UserStep
  <2>5. CASE UNCHANGED vars
    BY <2>5 DEF vars, engine, cpu, LoopInv, StateOK, TimeInv, EngineInv
  <2> QED
    BY <2>1, <2>2, <2>3, <2>4, <2>5 DEF Next
<1> QED
  BY <1>1, <1>2, PTL DEF Spec

(* Everything the loop keeps has its type; in particular the event pool     *)
(* never overflows and the frame event is always filed (sim65816.c          *)
(* add_event_entry, run_a2_one_vbl).                                        *)
THEOREM LoopTypeCorrect == Spec => []TypeOK
<1>1. LoopInv => TypeOK
  <2> SUFFICES ASSUME LoopInv PROVE TypeOK
    OBVIOUS
  <2>1. queue \in Seq(Event) /\ Len(queue) <= MaxEvents /\ Distinct(queue)
    BY PoolSuffices DEF LoopInv, QueueOK
  <2>2. Queued(EV_60HZ)
    BY DEF LoopInv, QueueOK, Queued, TypesOf, Entries
  <2> QED
    BY <2>1, <2>2 DEF LoopInv, StateOK, TypeOK, Distinct
<1> QED
  BY <1>1, LoopInvHolds, PTL

(* The engine starts no instruction with an event overdue, but for the      *)
(* debugger's step: however instructions, events filed, moved and cancelled *)
(* on the way, ahead or in the past, changes of width and frames follow     *)
(* each other (run_a2_one_vbl, enter_engine, engine_recalc_events).         *)
THEOREM EventsAreOnTime == Spec => []EventsOnTime
<1>1. LoopInv => EventsOnTime
  <2> SUFFICES ASSUME LoopInv, pc = "engine", dfcyc <= g_dcycles_end,
                      ~ (g_stepping /\ dfcyc = g_cur_dfcyc),
                      NEW i \in 1 .. Len(queue)
               PROVE  dfcyc <= queue[i].dfcyc + 1
    BY DEF EventsOnTime
  <2>1. /\ queue[i] \in Entries(queue) /\ queue[i].dfcyc \in Nat
        /\ dfcyc \in Nat /\ g_cur_dfcyc \in Nat
    BY QueueHead DEF LoopInv, StateOK, Entries
  <2>2. stop \in Nat /\ g_dcycles_end = stop /\ g_dcycles_end # Ended
    BY <2>1 DEF LoopInv, EngineInv, Ended
  <2>3. CASE dfcyc = g_cur_dfcyc
    <3>1. stop <= queue[i].dfcyc + 1
      BY <2>1, <2>3 DEF LoopInv, EngineInv
    <3> QED
      BY <2>1, <2>2, <3>1
  <2>4. CASE dfcyc # g_cur_dfcyc
    <3>1. dfcyc >= g_cur_dfcyc + 2
      BY <2>4 DEF LoopInv, TimeInv
    <3>2. StopsInTime(stop, g_cur_dfcyc, queue)
      BY <2>2 DEF LoopInv, EngineInv
    <3>3. stop <= queue[i].dfcyc + 1
      BY <2>1, <2>2, <3>1, <3>2 DEF StopsInTime
    <3> QED
      BY <2>1, <2>2, <3>3
  <2> QED
    BY <2>3, <2>4
<1> QED
  BY <1>1, LoopInvHolds, PTL

(* Unless the debugger halts on interrupts, an engine that goes on fetching *)
(* has the accumulator's width, and no halt has been asked for (UPDATE_PSR, *)
(* set_halt_act, enter_engine).  With that halt take_irq asks before        *)
(* g_dcycles_end is set, and the engine runs on until the next event.       *)
THEOREM EngineAlwaysHeeds ==
  ASSUME HaltOnIrq = FALSE
  PROVE  Spec => []EngineHeeds
<1>1. LoopInv => EngineHeeds
  <2> SUFFICES ASSUME LoopInv, pc = "engine", dfcyc <= g_dcycles_end
               PROVE  runs8 = acc8 /\ ~ g_halt_sim
    BY DEF EngineHeeds
  <2>1. g_dcycles_end # Ended
    BY DEF LoopInv, StateOK, Ended
  <2> QED
    BY <2>1 DEF LoopInv, EngineInv
<1> QED
  BY <1>1, LoopInvHolds, PTL

===============================================================================
