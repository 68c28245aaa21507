--------------------------- MODULE EventListProofs ----------------------------
(***************************************************************************)
(* The linked list implements the queue: for every pool size, set of       *)
(* events and bound, every rewriting of the links is one step of the       *)
(* promised queue.  The queue is well typed and in time order, and when a  *)
(* new event becomes its earliest one the engine's stop time is zeroed;    *)
(* so the list is and does.  The list's invariant is PoolInv: the types,   *)
(* and every node on exactly one of the two chains.                        *)
(*                                                                         *)
(* ChainOf follows the links by recursion, so its value has to be found by *)
(* induction.  The library states induction with an operator parameter;    *)
(* the first two lemmas state it with a set and a function instead, from   *)
(* the well-foundedness of strict inclusion on finite sets.                *)
(***************************************************************************)
EXTENDS EventList, SequenceTheorems, FiniteSetTheorems, TLAPS

(* A set that has 0 and the successor of each of its numbers has them all. *)
LEMMA NatSetInduction ==
  ASSUME NEW S, 0 \in S, \A n \in Nat : n \in S => n + 1 \in S
  PROVE  Nat \subseteq S
<1> DEFINE Missing == Nat \ S
           Down == { 0 .. n : n \in Missing }
           R == StrictSubsetOrdering(Nat)
<1> SUFFICES ASSUME Missing # {} PROVE FALSE
  OBVIOUS
<1>1. Down \subseteq FiniteSubsetsOf(Nat)
  <2> SUFFICES ASSUME NEW n \in Missing
               PROVE  0 .. n \in FiniteSubsetsOf(Nat)
    OBVIOUS
  <2>1. IsFiniteSet(0 .. n)
    BY FS_Interval
  <2>2. 0 .. n \subseteq Nat
    OBVIOUS
  <2> QED
    BY <2>1, <2>2 DEF FiniteSubsetsOf
<1>2. Down # {}
  OBVIOUS
<1>3. IsWellFoundedOn(R, FiniteSubsetsOf(Nat))
  BY FS_StrictSubsetOrderingWellFounded
<1>4. PICK d \in Down : \A e \in Down : ~ (<<e, d>> \in R)
  <2> HIDE DEF Down, R
  <2> QED
    BY <1>1, <1>2, <1>3, WFMin
<1>5. PICK x \in Missing : d = 0 .. x
  OBVIOUS
<1>6. x # 0 /\ x - 1 \in Missing
  OBVIOUS
<1>7. 0 .. (x - 1) \in Down /\ <<0 .. (x - 1), d>> \in R
  BY <1>5, <1>6 DEF StrictSubsetOrdering
<1> QED
  BY <1>4, <1>7

(* f is the sequence of values the steps F[0], F[1], ... lead through.      *)
IsIteration(f, V, v0, F) ==
  /\ f \in [Nat -> V]
  /\ f[0] = v0
  /\ \A n \in Nat : f[n + 1] = F[n][f[n]]

(* Steps can be iterated: what a recursive function is made of.             *)
LEMMA Iterates ==
  ASSUME NEW V, NEW v0 \in V, NEW F \in [Nat -> [V -> V]]
  PROVE  \E f : IsIteration(f, V, v0, F)
<1> DEFINE Good(m, g) == /\ g \in [0 .. m -> V]
                         /\ g[0] = v0
                         /\ \A n \in 0 .. (m - 1) : g[n + 1] = F[n][g[n]]
           S == { m \in Nat : \E g \in [0 .. m -> V] : Good(m, g) }
<1>1. Nat \subseteq S
  <2>1. 0 \in S
    <3> DEFINE g == [i \in 0 .. 0 |-> v0]
    <3>1. g \in [0 .. 0 -> V] /\ Good(0, g)
      OBVIOUS
    <3> QED
      BY <3>1
  <2>2. ASSUME NEW m \in Nat, m \in S PROVE m + 1 \in S
    <3>1. PICK g \in [0 .. m -> V] : Good(m, g)
      BY <2>2
    <3> DEFINE h == [i \in 0 .. (m + 1) |-> IF i = m + 1 THEN F[m][g[m]] ELSE g[i]]
    <3>2. g[m] \in V
      BY <3>1
    <3>3. h \in [0 .. (m + 1) -> V] /\ h[0] = v0
      BY <3>1, <3>2
    <3>4. ASSUME NEW n \in 0 .. m PROVE h[n + 1] = F[n][h[n]]
      BY <3>1
    <3>5. (m + 1) - 1 = m
      OBVIOUS
    <3>6. Good(m + 1, h)
      <4> HIDE DEF h
      <4> QED
        BY <3>3, <3>4, <3>5
    <3> HIDE DEF h, Good
    <3> QED
      BY <3>3, <3>6
  <2> HIDE DEF S
  <2> QED
    BY <2>1, <2>2, NatSetInduction
<1>2. ASSUME NEW a \in Nat, NEW b \in Nat, a <= b,
             NEW g, NEW h, Good(a, g), Good(b, h)
      PROVE  \A i \in 0 .. a : g[i] = h[i]
  <2> DEFINE U == { i \in Nat : i <= a => g[i] = h[i] }
  <2>1. 0 \in U
    BY <1>2
  <2>2. ASSUME NEW n \in Nat, n \in U PROVE n + 1 \in U
    BY <1>2, <2>2
  <2>3. Nat \subseteq U
    <3> HIDE DEF U
    <3> QED
      BY <2>1, <2>2, NatSetInduction
  <2> QED
    BY <2>3
<1> DEFINE G(m) == CHOOSE g : Good(m, g)
           f == [m \in Nat |-> G(m)[m]]
<1>3. \A m \in Nat : Good(m, G(m))
  <2>1. \A m \in Nat : \E g : Good(m, g)
    BY <1>1
  <2> HIDE DEF Good
  <2> QED
    BY <2>1
<1>4. f \in [Nat -> V]
  <2> SUFFICES ASSUME NEW m \in Nat PROVE G(m)[m] \in V
    OBVIOUS
  <2> HIDE DEF G
  <2> QED
    BY <1>3
<1>5. f[0] = v0
  <2> HIDE DEF G
  <2> QED
    BY <1>3
<1>6. ASSUME NEW n \in Nat PROVE f[n + 1] = F[n][f[n]]
  <2>1. G(n + 1)[n + 1] = F[n][G(n + 1)[n]]
    <3> HIDE DEF G
    <3> QED
      BY <1>3
  <2>2. G(n)[n] = G(n + 1)[n]
    <3> HIDE DEF G, Good
    <3> QED
      BY <1>2, <1>3
  <2>3. f[n + 1] = G(n + 1)[n + 1] /\ f[n] = G(n)[n]
    <3> HIDE DEF G
    <3> QED
      OBVIOUS
  <2> QED
    BY <2>1, <2>2, <2>3
<1> HIDE DEF f
<1> QED
  BY <1>4, <1>5, <1>6 DEF IsIteration

(* What linking one entry into a list does to it, entry by entry.           *)
LEMMA InsertAtFacts ==
  ASSUME NEW S, NEW q \in Seq(S), NEW i \in 1 .. Len(q) + 1, NEW e \in S
  PROVE  /\ InsertAt(q, i, e) \in Seq(S)
         /\ Len(InsertAt(q, i, e)) = Len(q) + 1
         /\ \A j \in 1 .. Len(q) + 1 :
              InsertAt(q, i, e)[j] = IF j < i THEN q[j]
                                     ELSE IF j = i THEN e ELSE q[j - 1]
<1> DEFINE front == SubSeq(q, 1, i - 1)
           middle == <<e>>
           joined == front \o middle
           back == SubSeq(q, i, Len(q))
<1>0. Len(q) \in Nat /\ i \in Nat
  OBVIOUS
<1>1. /\ front \in Seq(S) /\ Len(front) = i - 1
      /\ \A j \in 1 .. i - 1 : front[j] = q[j]
  OBVIOUS
<1>2. /\ back \in Seq(S) /\ Len(back) = Len(q) + 1 - i
      /\ \A j \in 1 .. Len(q) + 1 - i : back[j] = q[i + j - 1]
  OBVIOUS
<1>3. middle \in Seq(S) /\ Len(middle) = 1 /\ middle[1] = e
  OBVIOUS
<1>4. InsertAt(q, i, e) = joined \o back
  BY DEF InsertAt
<1> HIDE DEF front, middle, back
<1>5. /\ joined \in Seq(S) /\ Len(joined) = i
      /\ \A j \in 1 .. i : joined[j] = IF j < i THEN q[j] ELSE e
  <2>1. Len(front) + Len(middle) = i
    BY <1>0, <1>1, <1>3
  <2>2. /\ joined \in Seq(S) /\ Len(joined) = i
        /\ \A j \in 1 .. i : joined[j] = IF j <= i - 1 THEN front[j]
                                       ELSE middle[j - (i - 1)]
    <3>1. /\ joined \in Seq(S)
          /\ Len(joined) = Len(front) + Len(middle)
          /\ \A j \in 1 .. Len(front) + Len(middle) :
               joined[j] = IF j <= Len(front) THEN front[j]
                           ELSE middle[j - Len(front)]
      BY <1>1, <1>3, ConcatProperties
    <3> QED
      BY <1>1, <2>1, <3>1
  <2> QED
    BY <1>0, <1>1, <1>3, <2>2
<1> HIDE DEF joined
<1>6. /\ joined \o back \in Seq(S) /\ Len(joined \o back) = Len(q) + 1
      /\ \A j \in 1 .. Len(q) + 1 :
           (joined \o back)[j] = IF j <= i THEN joined[j] ELSE back[j - i]
  <2>1. Len(joined) + Len(back) = Len(q) + 1
    BY <1>0, <1>2, <1>5
  <2>2. /\ joined \o back \in Seq(S)
        /\ Len(joined \o back) = Len(joined) + Len(back)
        /\ \A j \in 1 .. Len(joined) + Len(back) :
             (joined \o back)[j] = IF j <= Len(joined) THEN joined[j]
                                  ELSE back[j - Len(joined)]
    BY <1>2, <1>5, ConcatProperties
  <2> QED
    BY <1>5, <2>1, <2>2
<1>7. ASSUME NEW j \in 1 .. Len(q) + 1, j > i PROVE back[j - i] = q[j - 1]
  <2>1. j - i \in 1 .. Len(q) + 1 - i /\ i + (j - i) - 1 = j - 1
    BY <1>0, <1>7
  <2> QED
    BY <1>2, <2>1
<1> QED
  BY <1>0, <1>4, <1>5, <1>6, <1>7

(* What unlinking one entry does.                                           *)
LEMMA RemoveAtFacts ==
  ASSUME NEW S, NEW q \in Seq(S), NEW i \in 1 .. Len(q)
  PROVE  /\ RemoveAt(q, i) \in Seq(S)
         /\ Len(RemoveAt(q, i)) = Len(q) - 1
         /\ \A j \in 1 .. Len(q) - 1 :
              RemoveAt(q, i)[j] = IF j < i THEN q[j] ELSE q[j + 1]
<1> DEFINE front == SubSeq(q, 1, i - 1)
           back == SubSeq(q, i + 1, Len(q))
<1>0. Len(q) \in Nat /\ i \in Nat
  OBVIOUS
<1>1. /\ front \in Seq(S) /\ Len(front) = i - 1
      /\ \A j \in 1 .. i - 1 : front[j] = q[j]
  OBVIOUS
<1>2. /\ back \in Seq(S) /\ Len(back) = Len(q) - i
      /\ \A j \in 1 .. Len(q) - i : back[j] = q[i + j]
  OBVIOUS
<1>3. RemoveAt(q, i) = front \o back
  BY DEF RemoveAt
<1> HIDE DEF front, back
<1>4. /\ front \o back \in Seq(S) /\ Len(front \o back) = Len(q) - 1
      /\ \A j \in 1 .. Len(q) - 1 :
           (front \o back)[j] = IF j <= i - 1 THEN front[j]
                                ELSE back[j - (i - 1)]
  <2>1. Len(front) + Len(back) = Len(q) - 1
    BY <1>0, <1>1, <1>2
  <2>2. /\ front \o back \in Seq(S)
        /\ Len(front \o back) = Len(front) + Len(back)
        /\ \A j \in 1 .. Len(front) + Len(back) :
             (front \o back)[j] = IF j <= Len(front) THEN front[j]
                                  ELSE back[j - Len(front)]
    BY <1>1, <1>2, ConcatProperties
  <2> QED
    BY <1>1, <2>1, <2>2
<1>5. ASSUME NEW j \in 1 .. Len(q) - 1, j >= i
      PROVE  back[j - (i - 1)] = q[j + 1]
  <2>1. /\ j - (i - 1) \in 1 .. Len(q) - i
        /\ i + (j - (i - 1)) = j + 1
    BY <1>0, <1>5
  <2> QED
    BY <1>2, <2>1
<1>6. front \o back \in Seq(S) /\ Len(front \o back) = Len(q) - 1
  BY ONLY <1>4
<1>7. ASSUME NEW j \in 1 .. Len(q) - 1
      PROVE  (front \o back)[j] = IF j < i THEN q[j] ELSE q[j + 1]
  <2>1. CASE j < i
    <3>1. j <= i - 1 /\ j \in 1 .. i - 1
      BY ONLY <1>0, <1>7, <2>1
    <3>2. (front \o back)[j] = front[j]
      BY ONLY <1>4, <1>7, <3>1
    <3> QED
      BY ONLY <1>1, <2>1, <3>1, <3>2
  <2>2. CASE ~ (j < i)
    <3>1. ~ (j <= i - 1) /\ j >= i
      BY ONLY <1>0, <1>7, <2>2
    <3>2. (front \o back)[j] = back[j - (i - 1)]
      BY ONLY <1>4, <1>7, <3>1
    <3>3. back[j - (i - 1)] = q[j + 1]
      BY <1>5, <1>7, <3>1
    <3> QED
      BY ONLY <2>2, <3>2, <3>3
  <2> QED
    BY ONLY <2>1, <2>2
<1> QED
  BY ONLY <1>3, <1>6, <1>7, Zenon

(* The search of add_event_entry always stops somewhere.                    *)
LEMMA SlotExists ==
  ASSUME NEW q \in Seq(Event), NEW dfcyc \in Nat
  PROVE  InsertSlots(q, dfcyc) # {}
<1>1. Len(q) \in Nat /\ \A j \in 1 .. Len(q) : q[j].dfcyc \in Nat
  <2>1. \A x \in Event : x.dfcyc \in Nat
    BY DEF Event
  <2> QED
    BY <2>1
<1> SUFFICES ASSUME InsertSlots(q, dfcyc) = {} PROVE FALSE
  OBVIOUS
<1>2. \A i \in 1 .. Len(q) + 1 :
        (\A j \in 1 .. i - 1 : q[j].dfcyc < dfcyc)
          => i <= Len(q) /\ q[i].dfcyc < dfcyc
  BY <1>1 DEF InsertSlots
<1> DEFINE S == { n \in Nat : n <= Len(q) + 1 =>
                                \A j \in 1 .. n : j <= Len(q) /\ q[j].dfcyc < dfcyc }
<1>3. 0 \in S
  OBVIOUS
<1>4. ASSUME NEW n \in Nat, n \in S PROVE n + 1 \in S
  <2> SUFFICES ASSUME n + 1 <= Len(q) + 1
               PROVE  n + 1 <= Len(q) /\ q[n + 1].dfcyc < dfcyc
    BY <1>1, <1>4
  <2>1. \A j \in 1 .. n : q[j].dfcyc < dfcyc
    BY <1>1, <1>4
  <2>2. n + 1 \in 1 .. Len(q) + 1 /\ (n + 1) - 1 = n
    BY <1>1
  <2> QED
    BY <1>2, <2>1, <2>2
<1>5. Nat \subseteq S
  <2> HIDE DEF S
  <2> QED
    BY <1>3, <1>4, NatSetInduction
<1>6. Len(q) + 1 \in Nat /\ Len(q) + 1 \in 1 .. Len(q) + 1 /\ ~ (Len(q) + 1 <= Len(q))
  BY <1>1
<1> QED
  BY <1>5, <1>6

(* The links of a chain determine it: what ChainOf returns for the pointer  *)
(* in front of the sequence s.                                              *)
LEMMA ChainOfLinked ==
  ASSUME NEW links \in [Nodes -> Ptr], NEW p \in Ptr, NEW s \in Seq(Nodes),
         Len(s) <= MaxEvents, Linked(links, p, s)
  PROVE  ChainOf(links, p) = s
<1> DEFINE upTo[len \in 0 .. MaxEvents + 1] ==
             [q \in Ptr |-> IF q = Null \/ len = 0 THEN <<>>
                            ELSE <<q>> \o upTo[len - 1][links[q]]]
           Step(u) == [q \in Ptr |-> IF q = Null THEN <<>>
                                     ELSE <<q>> \o u[links[q]]]
           V == [Ptr -> Seq(Nodes)]
           v0 == [q \in Ptr |-> <<>>]
           F == [n \in Nat |-> [u \in V |-> Step(u)]]
<1>1. ChainOf(links, p) = upTo[MaxEvents + 1][p]
  BY DEF ChainOf
<1>2. upTo = [len \in 0 .. MaxEvents + 1 |->
                [q \in Ptr |-> IF q = Null \/ len = 0 THEN <<>>
                               ELSE <<q>> \o upTo[len - 1][links[q]]]]
  <2>1. v0 \in V
    OBVIOUS
  <2>2. F \in [Nat -> [V -> V]]
    <3> SUFFICES ASSUME NEW u \in V PROVE Step(u) \in V
      OBVIOUS
    <3>1. ASSUME NEW q \in Ptr, q # Null
          PROVE  <<q>> \o u[links[q]] \in Seq(Nodes)
      <4>1. q \in Nodes /\ links[q] \in Ptr
        BY <3>1 DEF Ptr
      <4>2. u[links[q]] \in Seq(Nodes) /\ <<q>> \in Seq(Nodes)
        BY <4>1
      <4> QED
        BY <4>2
    <3> QED
      BY <3>1
  <2>3. PICK f : IsIteration(f, V, v0, F)
    <3> HIDE DEF V, v0, F
    <3> QED
      BY <2>1, <2>2, Iterates
  <2> USE DEF IsIteration
  <2> DEFINE g == [len \in 0 .. MaxEvents + 1 |-> f[len]]
             Unfold(h) == [len \in 0 .. MaxEvents + 1 |->
                             [q \in Ptr |-> IF q = Null \/ len = 0 THEN <<>>
                                            ELSE <<q>> \o h[len - 1][links[q]]]]
  <2>4. ASSUME NEW len \in 0 .. MaxEvents + 1
        PROVE  g[len] = [q \in Ptr |-> IF q = Null \/ len = 0 THEN <<>>
                                       ELSE <<q>> \o g[len - 1][links[q]]]
    <3>1. CASE len = 0
      BY <2>3, <3>1, MaxEventsAssumption
    <3>2. CASE len # 0
      <4>1. len - 1 \in Nat /\ len - 1 \in 0 .. MaxEvents + 1
            /\ (len - 1) + 1 = len
        BY <3>2, MaxEventsAssumption
      <4>2. f[len] = F[len - 1][f[len - 1]] /\ f[len - 1] \in V
        BY <2>3, <4>1
      <4>3. F[len - 1][f[len - 1]] = Step(f[len - 1])
        <5> HIDE DEF V, Step
        <5> QED
          BY <4>1, <4>2
      <4> QED
        BY <3>2, <4>1, <4>2, <4>3
    <3> QED
      BY <3>1, <3>2
  <2>5. g = Unfold(g)
    BY <2>4
  <2>6. upTo = CHOOSE h : h = Unfold(h)
    OBVIOUS
  <2> HIDE DEF Unfold, g, upTo
  <2>7. upTo = Unfold(upTo)
    BY <2>5, <2>6
  <2> QED
    BY <2>7 DEF Unfold
<1> HIDE DEF upTo
<1>3. Len(s) \in Nat /\ \A i \in 1 .. Len(s) : s[i] \in Nodes /\ s[i] # Null
  BY MaxEventsAssumption DEF Nodes, Null
<1> DEFINE Left(i) == SubSeq(s, i, Len(s))
           Reached(len) == \A i \in 1 .. Len(s) + 1 :
                             Len(s) + 1 - i <= len
                               => upTo[len][NodeAt(s, i)] = Left(i)
           S == { len \in Nat : len <= MaxEvents + 1 => Reached(len) }
<1>4. NodeAt(s, Len(s) + 1) = Null /\ Left(Len(s) + 1) = <<>>
  BY <1>3 DEF NodeAt
<1>5. \A i \in 1 .. Len(s) + 1 : NodeAt(s, i) \in Ptr
  BY <1>3 DEF NodeAt, Ptr
<1>6. 0 \in S
  <2> SUFFICES ASSUME NEW i \in 1 .. Len(s) + 1, Len(s) + 1 - i <= 0
               PROVE  upTo[0][NodeAt(s, i)] = Left(i)
    OBVIOUS
  <2>1. i = Len(s) + 1
    BY <1>3
  <2>2. upTo[0][Null] = <<>>
    BY <1>2, MaxEventsAssumption DEF Ptr
  <2> QED
    BY <1>4, <2>1, <2>2
<1>7. ASSUME NEW len \in Nat, len \in S PROVE len + 1 \in S
  <2> SUFFICES ASSUME len + 1 <= MaxEvents + 1, NEW i \in 1 .. Len(s) + 1,
                      Len(s) + 1 - i <= len + 1
               PROVE  upTo[len + 1][NodeAt(s, i)] = Left(i)
    OBVIOUS
  <2>1. Reached(len)
    BY <1>7, MaxEventsAssumption
  <2>2. \A q \in Ptr : upTo[len + 1][q] = IF q = Null THEN <<>>
                                          ELSE <<q>> \o upTo[len][links[q]]
    <3>1. len + 1 \in 0 .. MaxEvents + 1 /\ len + 1 # 0 /\ (len + 1) - 1 = len
      BY MaxEventsAssumption
    <3>2. \A k \in 0 .. MaxEvents + 1 : k # 0 =>
            upTo[k] = [q \in Ptr |-> IF q = Null THEN <<>>
                                     ELSE <<q>> \o upTo[k - 1][links[q]]]
      BY <1>2
    <3>3. upTo[len + 1] = [q \in Ptr |-> IF q = Null THEN <<>>
                                         ELSE <<q>> \o upTo[len][links[q]]]
      BY <3>1, <3>2
    <3> QED
      BY <3>3
  <2>3. CASE i = Len(s) + 1
    BY <1>4, <1>5, <2>2, <2>3
  <2>4. CASE i # Len(s) + 1
    <3>1. i \in 1 .. Len(s) /\ i + 1 \in 1 .. Len(s) + 1
          /\ Len(s) + 1 - (i + 1) <= len
      BY <1>3, <2>4
    <3>2. NodeAt(s, i) = s[i] /\ links[s[i]] = NodeAt(s, i + 1)
      BY <3>1 DEF NodeAt, Linked
    <3>3. upTo[len + 1][s[i]] = <<s[i]>> \o Left(i + 1)
      <4> HIDE DEF Left
      <4> QED
        BY <1>3, <1>5, <2>1, <2>2, <3>1, <3>2
    <3>4. <<s[i]>> \o Left(i + 1) = Left(i)
      BY <1>3, <3>1
    <3> QED
      BY <3>2, <3>3, <3>4
  <2> QED
    BY <2>3, <2>4
<1>8. Reached(MaxEvents + 1)
  <2>1. Nat \subseteq S
    <3> HIDE DEF S
    <3> QED
      BY <1>6, <1>7, NatSetInduction
  <2>2. MaxEvents + 1 \in Nat
    BY MaxEventsAssumption
  <2> QED
    BY <2>1, <2>2, SMTT(20)
<1>9. p = NodeAt(s, 1) /\ 1 \in 1 .. Len(s) + 1 /\ Len(s) + 1 - 1 <= MaxEvents + 1
  BY <1>3, MaxEventsAssumption DEF Linked
<1>10. Left(1) = s
  OBVIOUS
<1> QED
  BY <1>1, <1>8, <1>9, <1>10

(* What linking one node into a chain does to the sequence of its nodes.    *)
Inserted(S, q, i, e) ==
  /\ InsertAt(q, i, e) \in Seq(S)
  /\ Len(InsertAt(q, i, e)) = Len(q) + 1
  /\ \A j \in 1 .. Len(q) + 1 :
       InsertAt(q, i, e)[j] = IF j < i THEN q[j]
                              ELSE IF j = i THEN e ELSE q[j - 1]

LEMMA InsertedEntry ==
  ASSUME NEW S, NEW q \in Seq(S), NEW i \in 1 .. Len(q) + 1, NEW e \in S
  PROVE  Inserted(S, q, i, e)
BY InsertAtFacts DEF Inserted

(* Node x is on no place of s.                                              *)
Off(x, s) == \A i \in 1 .. Len(s) : s[i] # x

(* A chain does not notice a new link of a node that is not on it.          *)
LEMMA LinksElsewhere ==
  ASSUME NEW links \in [Nodes -> Ptr], NEW p \in Ptr, NEW s \in Seq(Nodes),
         Linked(links, p, s), NEW x \in Nodes, NEW v \in Ptr, Off(x, s)
  PROVE  Linked([links EXCEPT ![x] = v], p, s)
BY DEF Linked, Off

(* A node with the chain's head as its link is the head of a longer chain.  *)
LEMMA LinksInFront ==
  ASSUME NEW links \in [Nodes -> Ptr], NEW p \in Ptr, NEW s \in Seq(Nodes),
         Linked(links, p, s), NEW x \in Nodes, Off(x, s)
  PROVE  Linked([links EXCEPT ![x] = p], x, <<x>> \o s)
<1> DEFINE c == <<x>> \o s
           after == [links EXCEPT ![x] = p]
<1>1. /\ Len(s) \in Nat /\ Len(c) = Len(s) + 1 /\ c[1] = x
      /\ \A i \in 2 .. Len(s) + 1 : c[i] = s[i - 1]
  OBVIOUS
<1> HIDE DEF c
<1>2. after[c[1]] = NodeAt(c, 2)
  BY <1>1 DEF NodeAt, Linked
<1>3. ASSUME NEW i \in 2 .. Len(c) PROVE after[c[i]] = NodeAt(c, i + 1)
  <2>1. i - 1 \in 1 .. Len(s) /\ c[i] = s[i - 1] /\ (i - 1) + 1 = i
    BY <1>1
  <2>2. links[s[i - 1]] = NodeAt(s, i) /\ s[i - 1] # x /\ s[i - 1] \in Nodes
    BY <2>1 DEF Linked, Off
  <2>3. NodeAt(s, i) = NodeAt(c, i + 1)
    BY <1>1 DEF NodeAt
  <2> QED
    BY <2>1, <2>2, <2>3
<1>4. x = NodeAt(c, 1)
  BY <1>1 DEF NodeAt
<1> HIDE DEF after
<1>5. Linked(after, x, c)
  BY <1>1, <1>2, <1>3, <1>4 DEF Linked
<1> QED
  BY <1>5 DEF after, c

(* The link of a chain's head leads through the rest of it.                 *)
LEMMA LinksOfTail ==
  ASSUME NEW links \in [Nodes -> Ptr], NEW p \in Ptr, NEW s \in Seq(Nodes),
         Linked(links, p, s), s # <<>>
  PROVE  Linked(links, links[p], Tail(s))
BY DEF Linked, NodeAt

(* add_event_entry's two assignments link x in at place i.                  *)
LEMMA LinksInserted ==
  ASSUME NEW links \in [Nodes -> Ptr], NEW p \in Ptr, NEW s \in Seq(Nodes),
         Linked(links, p, s), IsInjective(s), NEW x \in Nodes, Off(x, s),
         NEW i \in 1 .. Len(s) + 1, NEW prev, NEW ptr,
         prev = IF i = 1 THEN Null ELSE s[i - 1],
         ptr = IF prev = Null THEN p ELSE links[prev]
  PROVE  Linked(LinkAfter([links EXCEPT ![x] = ptr], prev, x),
                IF prev = Null THEN x ELSE p, InsertAt(s, i, x))
<1> DEFINE c == InsertAt(s, i, x)
           after == LinkAfter([links EXCEPT ![x] = ptr], prev, x)
<1>1. Len(s) \in Nat /\ i \in Nat /\ \A j \in 1 .. Len(s) : s[j] \in Nodes
  OBVIOUS
<1>2. /\ Len(c) = Len(s) + 1
      /\ \A j \in 1 .. Len(s) + 1 :
           c[j] = IF j < i THEN s[j] ELSE IF j = i THEN x ELSE s[j - 1]
  <2> HIDE DEF after
  <2>1. s \in Seq(Nodes) /\ i \in 1 .. Len(s) + 1 /\ x \in Nodes
    OBVIOUS
  <2>2. Inserted(Nodes, s, i, x)
    BY ONLY <2>1, InsertedEntry
  <2> QED
    BY ONLY <2>2 DEF Inserted
<1> HIDE DEF c
<1>3. prev = Null <=> i = 1
  BY <1>1 DEF Nodes, Null
<1>4. ptr = NodeAt(s, i)
  BY <1>1, <1>3 DEF Linked
<1>5. /\ after[x] = ptr
      /\ i # 1 => after[s[i - 1]] = x
      /\ \A j \in 1 .. Len(s) : j # i - 1 => after[s[j]] = NodeAt(s, j + 1)
  <2> DEFINE links_x == [links EXCEPT ![x] = ptr]
  <2>1. /\ links_x[x] = ptr /\ DOMAIN links_x = Nodes
        /\ \A j \in 1 .. Len(s) : links_x[s[j]] = NodeAt(s, j + 1)
    <3>1. ASSUME NEW j \in 1 .. Len(s) PROVE links_x[s[j]] = NodeAt(s, j + 1)
      <4>1. s[j] # x /\ s[j] \in Nodes /\ links[s[j]] = NodeAt(s, j + 1)
        BY <1>1 DEF Off, Linked
      <4> QED
        BY <4>1
    <3> QED
      BY <3>1
  <2> HIDE DEF links_x
  <2>2. CASE i = 1
    <3>1. after = links_x
      BY <1>3, <2>2 DEF LinkAfter, links_x
    <3> HIDE DEF after
    <3> QED
      BY <1>1, <2>1, <2>2, <3>1
  <2>3. CASE i # 1
    <3>0. i - 1 \in 1 .. Len(s) /\ prev = s[i - 1]
      BY <1>1, <2>3
    <3>1. i - 1 \in 1 .. Len(s) /\ prev = s[i - 1] /\ prev \in Nodes /\ prev # x
      BY <1>1, <3>0 DEF Off
    <3>2. after = [links_x EXCEPT ![prev] = x]
      BY <1>3, <2>3 DEF LinkAfter, links_x
    <3>3. \A j \in 1 .. Len(s) : j # i - 1 => s[j] # prev
      BY <3>1 DEF IsInjective
    <3>4. after[x] = ptr /\ after[s[i - 1]] = x
      BY <2>1, <3>1, <3>2
    <3>5. ASSUME NEW j \in 1 .. Len(s), j # i - 1
          PROVE  after[s[j]] = NodeAt(s, j + 1)
      BY <1>1, <2>1, <3>2, <3>3, <3>5
    <3> QED
      BY <3>4, <3>5
  <2> QED
    BY <2>2, <2>3
<1> HIDE DEF after
<1>6. ASSUME NEW j \in 1 .. Len(c) PROVE after[c[j]] = NodeAt(c, j + 1)
  <2>1. CASE j = i
    BY <1>1, <1>2, <1>4, <1>5, <2>1 DEF NodeAt
  <2>2. CASE j < i
    BY <1>1, <1>2, <1>5, <2>2 DEF NodeAt
  <2>3. CASE j > i
    <3>1. j - 1 \in 1 .. Len(s) /\ c[j] = s[j - 1] /\ j - 1 # i - 1
          /\ (j - 1) + 1 = j
      BY <1>1, <1>2, <2>3
    <3>2. after[s[j - 1]] = NodeAt(s, j)
      BY <1>5, <3>1
    <3>3. NodeAt(s, j) = NodeAt(c, j + 1)
      BY <1>1, <1>2, <2>3 DEF NodeAt
    <3> QED
      BY <3>1, <3>2, <3>3
  <2> QED
    BY <1>1, <1>2, <2>1, <2>2, <2>3
<1>7. (IF prev = Null THEN x ELSE p) = NodeAt(c, 1)
  BY <1>1, <1>2, <1>3 DEF Linked, NodeAt
<1> QED
  BY <1>6, <1>7 DEF Linked, c, after

(* remove_event_entry's assignment unlinks the node at place i.             *)
LEMMA LinksRemoved ==
  ASSUME NEW links \in [Nodes -> Ptr], NEW p \in Ptr, NEW s \in Seq(Nodes),
         Linked(links, p, s), IsInjective(s), NEW i \in 1 .. Len(s), NEW prev,
         prev = IF i = 1 THEN Null ELSE s[i - 1]
  PROVE  Linked(LinkAfter(links, prev, links[s[i]]),
                IF prev = Null THEN links[s[i]] ELSE p, RemoveAt(s, i))
<1> DEFINE c == RemoveAt(s, i)
           after == LinkAfter(links, prev, links[s[i]])
<1>1. Len(s) \in Nat /\ i \in Nat /\ \A j \in 1 .. Len(s) : s[j] \in Nodes
  OBVIOUS
<1>2. /\ Len(c) = Len(s) - 1
      /\ \A j \in 1 .. Len(s) - 1 : c[j] = IF j < i THEN s[j] ELSE s[j + 1]
  BY RemoveAtFacts
<1> HIDE DEF c
<1>3. prev = Null <=> i = 1
  BY <1>1 DEF Nodes, Null
<1>4. links[s[i]] = NodeAt(s, i + 1)
  BY DEF Linked
<1>5. /\ i # 1 => after[s[i - 1]] = NodeAt(s, i + 1)
      /\ \A j \in 1 .. Len(s) : j # i - 1 => after[s[j]] = NodeAt(s, j + 1)
  BY <1>1, <1>3, <1>4 DEF LinkAfter, IsInjective, Linked
<1> HIDE DEF after
<1>6. ASSUME NEW j \in 1 .. Len(c) PROVE after[c[j]] = NodeAt(c, j + 1)
  <2>1. CASE j < i
    BY <1>1, <1>2, <1>5, <2>1 DEF NodeAt
  <2>2. CASE j >= i
    BY <1>1, <1>2, <1>5, <2>2 DEF NodeAt
  <2> QED
    BY <1>1, <1>2, <2>1, <2>2
<1>7. (IF prev = Null THEN links[s[i]] ELSE p) = NodeAt(c, 1)
  BY <1>1, <1>2, <1>3, <1>4 DEF Linked, NodeAt
<1> QED
  BY <1>6, <1>7 DEF Linked, c, after

(* It is enough to compare each place of a sequence with the later ones.    *)
LEMMA InjectiveInOrder ==
  ASSUME NEW s \in Seq(Nodes)
  PROVE  IsInjective(s) <=>
           \A a \in 1 .. Len(s), b \in 1 .. Len(s) : a < b => s[a] # s[b]
<1>1. DOMAIN s = 1 .. Len(s) /\ Len(s) \in Nat
  OBVIOUS
<1> QED
  BY <1>1 DEF IsInjective

(* Node t[1] goes from one chain to place i of the other.                   *)
LEMMA ApartAfterInsert ==
  ASSUME NEW s \in Seq(Nodes), NEW t \in Seq(Nodes), Apart(s, t), t # <<>>,
         NEW i \in 1 .. Len(s) + 1
  PROVE  Apart(InsertAt(s, i, t[1]), Tail(t)) /\ Off(t[1], s) /\ t[1] \in Nodes
<1> DEFINE x == t[1]
           c == InsertAt(s, i, x)
           d == Tail(t)
<1>1. Len(s) \in Nat /\ i \in Nat /\ Len(t) \in Nat /\ 1 \in 1 .. Len(t)
      /\ x \in Nodes
  OBVIOUS
<1>2. /\ c \in Seq(Nodes) /\ Len(c) = Len(s) + 1
      /\ \A j \in 1 .. Len(s) + 1 :
           c[j] = IF j < i THEN s[j] ELSE IF j = i THEN x ELSE s[j - 1]
  <2>1. s \in Seq(Nodes) /\ i \in 1 .. Len(s) + 1
    OBVIOUS
  <2> HIDE DEF x
  <2>2. Inserted(Nodes, s, i, x)
    BY ONLY <1>1, <2>1, InsertedEntry
  <2> QED
    BY ONLY <2>2 DEF Inserted
<1>3. /\ d \in Seq(Nodes) /\ Len(d) = Len(t) - 1
      /\ \A j \in 1 .. Len(t) - 1 : d[j] = t[j + 1]
  OBVIOUS
<1>4. \A j \in 1 .. Len(s) : s[j] # x
  BY <1>1 DEF Apart
<1>5. \A j \in 1 .. Len(t) : j # 1 => t[j] # x
  BY <1>1 DEF Apart, IsInjective
<1> HIDE DEF c, d, x
<1>6. IsInjective(c)
  <2> SUFFICES ASSUME NEW j \in 1 .. Len(c), NEW k \in 1 .. Len(c), j < k
               PROVE  c[j] # c[k]
    BY <1>2, InjectiveInOrder
  <2>1. \A a \in 1 .. Len(s), b \in 1 .. Len(s) : a < b => s[a] # s[b]
    BY InjectiveInOrder DEF Apart
  <2>2. CASE k < i
    BY <1>1, <1>2, <2>1, <2>2
  <2>3. CASE k = i
    BY <1>1, <1>2, <1>4, <2>3
  <2>4. CASE k > i
    <3>1. c[k] = s[k - 1] /\ k - 1 \in 1 .. Len(s)
      BY <1>1, <1>2, <2>4
    <3>2. CASE j < i
      <4>1. c[j] = s[j] /\ j \in 1 .. Len(s) /\ j < k - 1
        BY <1>1, <1>2, <2>4, <3>2
      <4> QED
        BY <2>1, <3>1, <4>1
    <3>3. CASE j = i
      BY <1>1, <1>2, <1>4, <3>1, <3>3
    <3>4. CASE j > i
      <4>1. c[j] = s[j - 1] /\ j - 1 \in 1 .. Len(s) /\ j - 1 < k - 1
        BY <1>1, <1>2, <3>4
      <4> QED
        BY <2>1, <3>1, <4>1
    <3> QED
      BY <1>1, <1>2, <3>2, <3>3, <3>4
  <2> QED
    BY <1>1, <1>2, <2>2, <2>3, <2>4
<1>7. IsInjective(d)
  <2> SUFFICES ASSUME NEW j \in 1 .. Len(d), NEW k \in 1 .. Len(d), j < k
               PROVE  d[j] # d[k]
    BY <1>3, InjectiveInOrder
  <2>1. \A a \in 1 .. Len(t), b \in 1 .. Len(t) : a < b => t[a] # t[b]
    BY InjectiveInOrder DEF Apart
  <2>2. /\ d[j] = t[j + 1] /\ d[k] = t[k + 1] /\ j + 1 < k + 1
        /\ j + 1 \in 1 .. Len(t) /\ k + 1 \in 1 .. Len(t)
    BY <1>1, <1>3
  <2> QED
    BY <2>1, <2>2
<1>8. ASSUME NEW j \in 1 .. Len(c), NEW k \in 1 .. Len(d) PROVE c[j] # d[k]
  <2>1. d[k] = t[k + 1] /\ k + 1 \in 1 .. Len(t) /\ k + 1 # 1
    BY <1>1, <1>3
  <2>2. c[j] = x \/ \E a \in 1 .. Len(s) : c[j] = s[a]
    BY <1>1, <1>2
  <2> QED
    BY <1>5, <2>1, <2>2 DEF Apart
<1>9. Apart(c, d)
  BY <1>6, <1>7, <1>8 DEF Apart
<1> QED
  BY <1>1, <1>4, <1>9 DEF Off, c, d, x

(* The node at place i of one chain goes in front of the other.             *)
LEMMA ApartAfterRemove ==
  ASSUME NEW s \in Seq(Nodes), NEW t \in Seq(Nodes), Apart(s, t),
         NEW i \in 1 .. Len(s)
  PROVE  /\ Apart(RemoveAt(s, i), <<s[i]>> \o t)
         /\ Off(s[i], RemoveAt(s, i)) /\ Off(s[i], t)
<1> DEFINE x == s[i]
           c == RemoveAt(s, i)
           d == <<x>> \o t
<1>1. Len(s) \in Nat /\ i \in Nat /\ Len(t) \in Nat /\ x \in Nodes
  OBVIOUS
<1>2. /\ c \in Seq(Nodes) /\ Len(c) = Len(s) - 1
      /\ \A j \in 1 .. Len(s) - 1 : c[j] = IF j < i THEN s[j] ELSE s[j + 1]
  <2>1. s \in Seq(Nodes) /\ i \in 1 .. Len(s)
    OBVIOUS
  <2> QED
    BY ONLY <2>1, RemoveAtFacts
<1>3. /\ d \in Seq(Nodes) /\ Len(d) = Len(t) + 1 /\ d[1] = x
      /\ \A j \in 2 .. Len(t) + 1 : d[j] = t[j - 1]
  BY <1>1
<1>4. \A j \in 1 .. Len(s) : j # i => s[j] # x
  BY <1>1 DEF Apart, IsInjective
<1>5. \A j \in 1 .. Len(t) : t[j] # x
  BY <1>1 DEF Apart
<1> HIDE DEF c, d, x
<1>6. IsInjective(c)
  <2> SUFFICES ASSUME NEW j \in 1 .. Len(c), NEW k \in 1 .. Len(c), j < k
               PROVE  c[j] # c[k]
    BY <1>2, InjectiveInOrder
  <2>1. \A a \in 1 .. Len(s), b \in 1 .. Len(s) : a < b => s[a] # s[b]
    BY InjectiveInOrder DEF Apart
  <2> QED
    BY <1>1, <1>2, <2>1, SMTT(20)
<1>7. IsInjective(d)
  <2> SUFFICES ASSUME NEW j \in 1 .. Len(d), NEW k \in 1 .. Len(d), j < k
               PROVE  d[j] # d[k]
    BY <1>3, InjectiveInOrder
  <2>1. d[k] = t[k - 1] /\ k - 1 \in 1 .. Len(t)
    BY <1>1, <1>3
  <2>2. CASE j = 1
    BY <1>3, <1>5, <2>1, <2>2
  <2>3. CASE j # 1
    BY <1>1, <1>3, <2>1, <2>3 DEF Apart, IsInjective
  <2> QED
    BY <2>2, <2>3
<1>8. \A j \in 1 .. Len(c) : c[j] # x
  BY <1>1, <1>2, <1>4
<1>9. ASSUME NEW j \in 1 .. Len(c), NEW k \in 1 .. Len(d) PROVE c[j] # d[k]
  <2>1. \E a \in 1 .. Len(s) : c[j] = s[a]
    BY <1>1, <1>2
  <2>2. CASE k = 1
    BY <1>3, <1>8, <2>2
  <2>3. CASE k # 1
    <3>1. d[k] = t[k - 1] /\ k - 1 \in 1 .. Len(t)
      BY <1>1, <1>3, <2>3
    <3> QED
      BY <2>1, <3>1 DEF Apart
  <2> QED
    BY <2>2, <2>3
<1>10. Apart(c, d)
  BY <1>6, <1>7, <1>9 DEF Apart
<1> QED
  BY <1>5, <1>8, <1>10 DEF Off, c, d, x

-------------------------------------------------------------------------------
(* The links after a step decide the chains after it.                       *)
LEMMA PoolRestored ==
  ASSUME NEW s \in Seq(Nodes), NEW t \in Seq(Nodes),
         next' \in [Nodes -> Ptr], g_event_start' \in Ptr, g_event_free' \in Ptr,
         Linked(next', g_event_start', s), Linked(next', g_event_free', t),
         Apart(s, t), Len(s) + Len(t) = MaxEvents
  PROVE  Pending' = s /\ Free' = t /\ PoolWhole'
<1>1. Len(s) <= MaxEvents /\ Len(t) <= MaxEvents
  <2>1. Len(s) \in Nat /\ Len(t) \in Nat
    OBVIOUS
  <2> QED
    BY <2>1
<1>2. Pending' = s
  BY <1>1, ChainOfLinked DEF Pending
<1>3. Free' = t
  BY <1>1, ChainOfLinked DEF Free
<1> QED
  BY <1>2, <1>3 DEF PoolWhole

(* The inductive invariant.                                                 *)
PoolInv == TypeOK /\ PoolWhole

(* The entries of the nodes of a chain.                                     *)
LEMMA EntriesOnChain ==
  ASSUME NEW s \in Seq(Nodes), NEW nodes \in [Nodes -> Event],
         NEW q, q = [i \in 1 .. Len(s) |-> nodes[s[i]]]
  PROVE  /\ q \in Seq(Event) /\ Len(q) = Len(s)
         /\ \A i \in 1 .. Len(s) : q[i] = nodes[s[i]]
<1>1. Len(s) \in Nat /\ \A i \in 1 .. Len(s) : nodes[s[i]] \in Event
  OBVIOUS
<1> QED
  BY <1>1

(* The entries the chain leads to, and how many of them there are.          *)
LEMMA QueueOfPool ==
  ASSUME PoolInv
  PROVE  /\ queue \in Seq(Event) /\ Len(queue) = Len(Pending)
         /\ \A i \in 1 .. Len(Pending) : queue[i] = node[Pending[i]]
         /\ Pending \in Seq(Nodes) /\ Len(Pending) \in Nat
         /\ Free \in Seq(Nodes) /\ Len(Free) \in Nat
         /\ Len(queue) < MaxEvents <=> g_event_free # Null
         /\ queue # <<>> <=> g_event_start # Null
         /\ g_event_free # Null => Free # <<>> /\ Free[1] = g_event_free
         /\ g_event_start # Null => Pending # <<>> /\ Pending[1] = g_event_start
<1>1. /\ Pending \in Seq(Nodes) /\ Len(Pending) \in Nat
      /\ Free \in Seq(Nodes) /\ Len(Free) \in Nat
      /\ node \in [Nodes -> Event]
  BY DEF PoolInv, PoolWhole, TypeOK
<1>2. \A x \in Nodes : x # Null
  BY MaxEventsAssumption DEF Nodes, Null
<1>3. /\ queue \in Seq(Event) /\ Len(queue) = Len(Pending)
      /\ \A i \in 1 .. Len(Pending) : queue[i] = node[Pending[i]]
  BY <1>1, EntriesOnChain DEF queue
<1>4. /\ g_event_free = NodeAt(Free, 1) /\ g_event_start = NodeAt(Pending, 1)
      /\ Len(Pending) + Len(Free) = MaxEvents
  BY DEF PoolInv, PoolWhole, Linked
<1>5. /\ g_event_free # Null <=> Len(Free) > 0
      /\ g_event_free # Null => Free # <<>> /\ Free[1] = g_event_free
  BY <1>1, <1>2, <1>4 DEF NodeAt
<1>6. /\ g_event_start # Null <=> Len(Pending) > 0
      /\ g_event_start # Null => Pending # <<>> /\ Pending[1] = g_event_start
  BY <1>1, <1>2, <1>4 DEF NodeAt
<1> QED
  BY <1>1, <1>3, <1>4, <1>5, <1>6, MaxEventsAssumption

(* initialize_events: every node is on the free chain.                      *)
LEMMA PoolAtStart == Init => PoolInv /\ queue = <<>>
<1> SUFFICES ASSUME Init PROVE PoolInv /\ queue = <<>>
  OBVIOUS
<1> DEFINE all == [i \in 1 .. MaxEvents |-> i]
<1>1. all \in Seq(Nodes) /\ Len(all) = MaxEvents /\ \A i \in Nodes : all[i] = i
  BY MaxEventsAssumption DEF Nodes
<1>2. next \in [Nodes -> Ptr] /\ g_event_free \in Ptr /\ g_event_start \in Ptr
  BY MaxEventsAssumption DEF Init, NextNode, Ptr, Nodes, Null
<1> HIDE DEF all
<1>3. Linked(next, g_event_free, all)
  BY <1>1, MaxEventsAssumption DEF Linked, NodeAt, Init, NextNode, Nodes, Null
<1>4. Linked(next, g_event_start, <<>>) /\ <<>> \in Seq(Nodes) /\ Len(<<>>) = 0
  BY DEF Linked, NodeAt, Init
<1>5. Apart(<<>>, all)
  <2>1. IsInjective(all)
    BY <1>1, MaxEventsAssumption, InjectiveInOrder DEF Nodes
  <2>2. IsInjective(<<>>)
    BY DEF IsInjective
  <2> QED
    BY <2>1, <2>2 DEF Apart
<1>6. Pending = <<>> /\ Free = all
  <2>1. ChainOf(next, g_event_start) = <<>>
    <3>1. Len(<<>>) <= MaxEvents
      BY <1>4, MaxEventsAssumption
    <3> QED
      BY <1>2, <1>4, <3>1, ChainOfLinked
  <2>2. ChainOf(next, g_event_free) = all
    <3>1. Len(all) <= MaxEvents
      BY <1>1, MaxEventsAssumption
    <3> QED
      BY <1>1, <1>2, <1>3, <3>1, ChainOfLinked
  <2> QED
    BY <2>1, <2>2 DEF Pending, Free
<1>7. PoolWhole
  BY <1>1, <1>3, <1>4, <1>5, <1>6, MaxEventsAssumption DEF PoolWhole
<1>8. TypeOK
  <2>1. AnyEvent \in Event
    <3>1. \E type : type \in Types
      <4>1. PICK ev \in Evs : TRUE
        BY EvsAssumption
      <4>2. [ev |-> ev, arg |-> 0] \in Types
        BY <4>1, ArgsAssumption DEF Types
      <4> QED
        BY <4>2
    <3> QED
      BY <3>1 DEF AnyEvent, Event
  <2>2. node \in [Nodes -> Event] /\ g_cur_dfcyc \in Nat
    BY <2>1 DEF Init
  <2>3. {recalc, halted} \subseteq BOOLEAN
    BY DEF Init
  <2> QED
    BY <1>2, <2>2, <2>3 DEF TypeOK
<1>9. queue = <<>>
  <2>1. Len(Pending) = 0
    BY <1>6
  <2> QED
    BY <2>1 DEF queue
<1> QED
  BY <1>7, <1>8, <1>9 DEF PoolInv

(* add_event_entry takes the first free node and links it in.               *)
LEMMA PoolAdds ==
  ASSUME PoolInv, NEW dfcyc \in Nat, NEW type \in Types,
         add_event_entry(dfcyc, type)
  PROVE  LET filed == FiledTime(dfcyc, g_cur_dfcyc) IN
         /\ PoolInv'
         /\ Len(queue) < MaxEvents
         /\ \E i \in InsertSlots(queue, filed) :
              queue' = InsertAt(queue, i, [dfcyc |-> filed, type |-> type])
<1> DEFINE filed == FiledTime(dfcyc, g_cur_dfcyc)
           entry == [dfcyc |-> filed, type |-> type]
           this == g_event_free
           slot == CHOOSE i \in InsertSlots(queue, filed) : TRUE
           prev == PrevOf(slot)
           ptr == IF prev = Null THEN g_event_start ELSE next[prev]
           chain == InsertAt(Pending, slot, this)
<1>1. /\ next \in [Nodes -> Ptr] /\ node \in [Nodes -> Event]
      /\ g_event_free \in Ptr /\ g_event_start \in Ptr /\ g_cur_dfcyc \in Nat
      /\ recalc \in BOOLEAN /\ halted \in BOOLEAN
  BY DEF PoolInv, TypeOK
<1>2. /\ Pending \in Seq(Nodes) /\ Free \in Seq(Nodes)
      /\ Linked(next, g_event_start, Pending) /\ Linked(next, g_event_free, Free)
      /\ Apart(Pending, Free) /\ Len(Pending) + Len(Free) = MaxEvents
      /\ Len(Pending) \in Nat /\ Len(Free) \in Nat
  BY DEF PoolInv, PoolWhole
<1>3. /\ this # Null
      /\ g_event_free' = next[this]
      /\ node' = [node EXCEPT ![this] = entry]
      /\ next' = LinkAfter([next EXCEPT ![this] = ptr], prev, this)
      /\ g_event_start' = IF prev = Null THEN this ELSE g_event_start
      /\ recalc' = (recalc \/ BecomesFirst(queue, filed))
      /\ halted' = (halted \/ BadTime(dfcyc, g_cur_dfcyc)
                           \/ MoreThanOne(queue', type, "full"))
      /\ g_cur_dfcyc' = g_cur_dfcyc
  BY DEF add_event_entry
<1>4. filed \in Nat /\ entry \in Event
  BY <1>1, DelayAssumption DEF FiledTime, Event
<1>5. /\ queue \in Seq(Event) /\ Len(queue) = Len(Pending)
      /\ \A i \in 1 .. Len(Pending) : queue[i] = node[Pending[i]]
      /\ Len(queue) < MaxEvents
      /\ Free # <<>> /\ Free[1] = this
  BY <1>3, QueueOfPool
<1>6. slot \in InsertSlots(queue, filed) /\ slot \in 1 .. Len(Pending) + 1
  <2>1. InsertSlots(queue, filed) # {}
    BY <1>4, <1>5, SlotExists
  <2>2. slot \in InsertSlots(queue, filed)
    BY <2>1
  <2> QED
    BY <1>5, <2>2 DEF InsertSlots
<1>7. prev = IF slot = 1 THEN Null ELSE Pending[slot - 1]
  BY DEF PrevOf
<1>8. ptr = IF prev = Null THEN g_event_start ELSE next[prev]
  OBVIOUS
<1> HIDE DEF filed, entry, slot, prev, ptr, chain
<1>9. this \in Nodes /\ Off(this, Pending) /\ Apart(chain, Tail(Free))
  BY <1>2, <1>5, <1>6, ApartAfterInsert DEF chain
<1>10. IsInjective(Pending)
  BY <1>2 DEF Apart
<1>11. Linked(next', g_event_start', chain)
  <2>1. Linked(LinkAfter([next EXCEPT ![this] = ptr], prev, this),
               IF prev = Null THEN this ELSE g_event_start, chain)
    BY <1>1, <1>2, <1>6, <1>7, <1>8, <1>9, <1>10, LinksInserted DEF chain
  <2> QED
    BY <1>3, <2>1
<1>12. /\ chain \in Seq(Nodes) /\ Len(chain) = Len(Pending) + 1
       /\ \A j \in 1 .. Len(Pending) + 1 :
            chain[j] = IF j < slot THEN Pending[j]
                       ELSE IF j = slot THEN this ELSE Pending[j - 1]
  BY <1>2, <1>6, <1>9, InsertAtFacts DEF chain
<1>13. prev = Null \/ (prev \in Nodes /\ Off(prev, Tail(Free)))
  <2> SUFFICES ASSUME slot # 1
               PROVE  prev \in Nodes /\ Off(prev, Tail(Free))
    BY <1>7
  <2>1. slot - 1 \in 1 .. Len(Pending) /\ prev = Pending[slot - 1]
    BY <1>2, <1>6, <1>7
  <2>2. \A j \in 1 .. Len(Tail(Free)) :
          Tail(Free)[j] = Free[j + 1] /\ j + 1 \in 1 .. Len(Free)
    BY <1>2, <1>5
  <2> QED
    BY <1>2, <2>1, <2>2 DEF Apart, Off
<1>14. Off(this, Tail(Free))
  <2>1. \A j \in 1 .. Len(Tail(Free)) :
          Tail(Free)[j] = Free[j + 1] /\ j + 1 \in 1 .. Len(Free) /\ j + 1 # 1
    BY <1>2, <1>5
  <2>2. 1 \in 1 .. Len(Free)
    BY <1>2, <1>5
  <2> QED
    BY <1>2, <1>5, <2>1, <2>2 DEF Apart, Off, IsInjective
<1>15. Tail(Free) \in Seq(Nodes) /\ Len(Tail(Free)) = Len(Free) - 1
  BY <1>2, <1>5
<1>16. ptr \in Ptr
  BY <1>1, <1>8, <1>13
<1>17. Linked(next', g_event_free', Tail(Free))
  <2>1. Linked(next, next[this], Tail(Free)) /\ next[this] \in Ptr
    BY <1>1, <1>2, <1>5, <1>9, LinksOfTail DEF Ptr
  <2>2. Linked([next EXCEPT ![this] = ptr], next[this], Tail(Free))
    BY <1>1, <1>9, <1>14, <1>15, <1>16, <2>1, LinksElsewhere
  <2>3. [next EXCEPT ![this] = ptr] \in [Nodes -> Ptr] /\ this \in Ptr
    BY <1>1, <1>9, <1>16 DEF Ptr
  <2>4. CASE prev = Null
    BY <1>3, <2>2, <2>4 DEF LinkAfter
  <2>5. CASE prev # Null
    <3> DEFINE links == [next EXCEPT ![this] = ptr]
               rest == Tail(Free)
               head == next[this]
    <3>1. next' = [links EXCEPT ![prev] = this]
      BY <1>3, <2>5 DEF LinkAfter
    <3>2. Linked(links, head, rest) /\ links \in [Nodes -> Ptr] /\ head \in Ptr
      BY <2>1, <2>2, <2>3
    <3>3. prev \in Nodes /\ Off(prev, rest) /\ rest \in Seq(Nodes) /\ this \in Ptr
      BY <1>13, <1>15, <2>3, <2>5
    <3>4. g_event_free' = head
      BY <1>3
    <3> HIDE DEF links, rest, head
    <3>5. Linked(next', head, rest)
      BY <3>1, <3>2, <3>3, LinksElsewhere
    <3> QED
      BY <3>4, <3>5 DEF rest
  <2> QED
    BY <2>4, <2>5
<1>18. next' \in [Nodes -> Ptr] /\ g_event_start' \in Ptr /\ g_event_free' \in Ptr
  BY <1>1, <1>3, <1>9, <1>13, <1>16 DEF LinkAfter, Ptr
<1>19. Pending' = chain /\ PoolWhole'
  <2>1. Len(chain) + Len(Tail(Free)) = MaxEvents
    BY <1>2, <1>12, <1>15
  <2> QED
    BY <1>9, <1>11, <1>12, <1>15, <1>17, <1>18, <2>1, PoolRestored
<1>20. TypeOK'
  <2>1. node' \in [Nodes -> Event]
    BY <1>1, <1>3, <1>4, <1>9
  <2>2. recalc' \in BOOLEAN /\ halted' \in BOOLEAN /\ g_cur_dfcyc' \in Nat
    BY <1>1, <1>3 DEF BecomesFirst, BadTime, MoreThanOne
  <2> QED
    BY <1>18, <2>1, <2>2 DEF TypeOK
<1>21. queue' = InsertAt(queue, slot, entry)
  <2>1. /\ InsertAt(queue, slot, entry) \in Seq(Event)
        /\ Len(InsertAt(queue, slot, entry)) = Len(queue) + 1
        /\ \A j \in 1 .. Len(queue) + 1 :
             InsertAt(queue, slot, entry)[j] =
               IF j < slot THEN queue[j] ELSE IF j = slot THEN entry ELSE queue[j - 1]
    <3>1. queue \in Seq(Event) /\ slot \in 1 .. Len(queue) + 1 /\ entry \in Event
      BY <1>4, <1>5, <1>6
    <3>2. Inserted(Event, queue, slot, entry)
      BY ONLY <3>1, InsertedEntry
    <3> QED
      BY ONLY <3>2 DEF Inserted
  <2>2. /\ queue' \in Seq(Event) /\ Len(queue') = Len(chain)
        /\ \A i \in 1 .. Len(chain) : queue'[i] = node'[chain[i]]
    <3>1. node' \in [Nodes -> Event]
      BY <1>20 DEF TypeOK
    <3>2. queue' = [i \in 1 .. Len(chain) |-> node'[chain[i]]]
      BY <1>19 DEF queue
    <3> QED
      BY <1>12, <3>1, <3>2, EntriesOnChain
  <2>3. /\ node'[this] = entry
        /\ \A j \in 1 .. Len(Pending) : node'[Pending[j]] = queue[j]
    BY <1>1, <1>2, <1>3, <1>5, <1>9 DEF Off
  <2>4. ASSUME NEW j \in 1 .. Len(queue) + 1
        PROVE  queue'[j] = InsertAt(queue, slot, entry)[j]
    <3>1. CASE j < slot
      <4>1. j \in 1 .. Len(Pending) /\ chain[j] = Pending[j] /\ j \in 1 .. Len(chain)
        BY <1>2, <1>5, <1>6, <1>12, <3>1
      <4>2. InsertAt(queue, slot, entry)[j] = queue[j]
        BY <2>1, <3>1
      <4> QED
        BY <2>2, <2>3, <4>1, <4>2
    <3>2. CASE j = slot
      BY <1>2, <1>5, <1>6, <1>12, <2>1, <2>2, <2>3, <3>2
    <3>3. CASE j > slot
      <4>1. /\ j - 1 \in 1 .. Len(Pending) /\ chain[j] = Pending[j - 1]
            /\ j \in 1 .. Len(chain) /\ slot \in Nat
        BY <1>2, <1>5, <1>6, <1>12, <3>3
      <4>2. InsertAt(queue, slot, entry)[j] = queue[j - 1]
        BY <2>1, <3>3, <4>1
      <4> QED
        BY <2>2, <2>3, <4>1, <4>2
    <3> QED
      BY <1>2, <1>5, <1>6, <3>1, <3>2, <3>3
  <2> QED
    BY <1>5, <1>12, <2>1, <2>2, <2>4
<1> QED
  BY <1>5, <1>6, <1>19, <1>20, <1>21 DEF PoolInv, filed, entry

(* Unlinking the node at some place of the list and freeing it, which is    *)
(* what remove_event_entry and the pop of run_a2_one_vbl do.                *)
LEMMA PoolFrees ==
  ASSUME PoolInv, NEW slot \in 1 .. Len(Pending), NEW prev, NEW ptr,
         prev = PrevOf(slot), ptr = Pending[slot],
         next' = FreeAhead(LinkAfter(next, prev, next[ptr]), ptr),
         g_event_start' = IF prev = Null THEN next[ptr] ELSE g_event_start,
         g_event_free' = ptr,
         UNCHANGED <<node, g_cur_dfcyc, recalc, halted>>
  PROVE  PoolInv' /\ queue' = RemoveAt(queue, slot)
<1> DEFINE chain == RemoveAt(Pending, slot)
           free == <<ptr>> \o Free
           links == LinkAfter(next, prev, next[ptr])
           start == IF prev = Null THEN next[ptr] ELSE g_event_start
<1>1. /\ next \in [Nodes -> Ptr] /\ node \in [Nodes -> Event]
      /\ g_event_free \in Ptr /\ g_event_start \in Ptr
  BY DEF PoolInv, TypeOK
<1>2. /\ Pending \in Seq(Nodes) /\ Free \in Seq(Nodes)
      /\ Linked(next, g_event_start, Pending) /\ Linked(next, g_event_free, Free)
      /\ Apart(Pending, Free) /\ Len(Pending) + Len(Free) = MaxEvents
      /\ Len(Pending) \in Nat /\ Len(Free) \in Nat
  BY DEF PoolInv, PoolWhole
<1>3. /\ queue \in Seq(Event) /\ Len(queue) = Len(Pending)
      /\ \A i \in 1 .. Len(Pending) : queue[i] = node[Pending[i]]
  BY QueueOfPool
<1>4. prev = IF slot = 1 THEN Null ELSE Pending[slot - 1]
  BY DEF PrevOf
<1>5. ptr \in Nodes /\ Apart(chain, free) /\ Off(ptr, chain) /\ Off(ptr, Free)
  BY <1>2, ApartAfterRemove
<1>6. Linked(links, start, chain)
  <2>1. IsInjective(Pending)
    BY <1>2 DEF Apart
  <2> QED
    BY <1>1, <1>2, <1>4, <2>1, LinksRemoved
<1>7. /\ chain \in Seq(Nodes) /\ Len(chain) = Len(Pending) - 1
      /\ \A j \in 1 .. Len(Pending) - 1 :
           chain[j] = IF j < slot THEN Pending[j] ELSE Pending[j + 1]
  BY <1>2, RemoveAtFacts
<1>8. free \in Seq(Nodes) /\ Len(free) = Len(Free) + 1
  BY <1>2, <1>5
<1>9. prev = Null \/ (prev \in Nodes /\ Off(prev, Free))
  <2> SUFFICES ASSUME slot # 1 PROVE prev \in Nodes /\ Off(prev, Free)
    BY <1>4
  <2>1. slot - 1 \in 1 .. Len(Pending) /\ prev = Pending[slot - 1]
    BY <1>2, <1>4
  <2> QED
    BY <1>2, <2>1 DEF Apart, Off
<1>10. /\ links \in [Nodes -> Ptr] /\ start \in Ptr /\ ptr \in Ptr
       /\ next[ptr] \in Ptr
  BY <1>1, <1>5, <1>9 DEF LinkAfter, Ptr
<1>11. Linked(links, g_event_free, Free)
  <2>1. CASE prev = Null
    BY <1>2, <2>1 DEF LinkAfter
  <2>2. CASE prev # Null
    <3>1. links = [next EXCEPT ![prev] = next[ptr]]
      BY <2>2 DEF LinkAfter
    <3> HIDE DEF links
    <3> QED
      BY <1>1, <1>2, <1>9, <1>10, <2>2, <3>1, LinksElsewhere
  <2> QED
    BY <2>1, <2>2
<1>12. next' = [links EXCEPT ![ptr] = g_event_free]
  BY DEF FreeAhead
<1>13. g_event_start' = start /\ g_event_free' = ptr
  OBVIOUS
<1> HIDE DEF chain, free, links, start
<1>14. Linked(next', g_event_start', chain)
  <2>1. Linked([links EXCEPT ![ptr] = g_event_free], start, chain)
    BY ONLY <1>1, <1>5, <1>6, <1>7, <1>10, LinksElsewhere
  <2> QED
    BY ONLY <1>12, <1>13, <2>1
<1>15. Linked(next', g_event_free', free)
  <2>1. Linked([links EXCEPT ![ptr] = g_event_free], ptr, <<ptr>> \o Free)
    BY ONLY <1>1, <1>2, <1>5, <1>10, <1>11, LinksInFront
  <2> QED
    BY ONLY <1>12, <1>13, <2>1 DEF free
<1>16. next' \in [Nodes -> Ptr]
  BY <1>1, <1>10, <1>12
<1>17. Pending' = chain /\ PoolWhole'
  <2>1. Len(chain) + Len(free) = MaxEvents
    BY <1>2, <1>7, <1>8
  <2> QED
    BY <1>5, <1>7, <1>8, <1>10, <1>13, <1>14, <1>15, <1>16, <2>1, PoolRestored
<1>18. TypeOK'
  <2>1. TypeOK
    BY DEF PoolInv
  <2> QED
    BY <1>10, <1>13, <1>16, <2>1 DEF TypeOK
<1>19. queue' = RemoveAt(queue, slot)
  <2>1. /\ RemoveAt(queue, slot) \in Seq(Event)
        /\ Len(RemoveAt(queue, slot)) = Len(queue) - 1
        /\ \A j \in 1 .. Len(queue) - 1 :
             RemoveAt(queue, slot)[j] = IF j < slot THEN queue[j] ELSE queue[j + 1]
    <3>1. queue \in Seq(Event) /\ slot \in 1 .. Len(queue)
      BY <1>3
    <3> QED
      BY ONLY <3>1, RemoveAtFacts, Zenon
  <2>2. /\ queue' \in Seq(Event) /\ Len(queue') = Len(chain)
        /\ \A i \in 1 .. Len(chain) : queue'[i] = node[chain[i]]
    <3>1. queue' = [i \in 1 .. Len(chain) |-> node[chain[i]]]
      BY <1>17 DEF queue
    <3> QED
      BY <1>1, <1>7, <3>1, EntriesOnChain
  <2>3. ASSUME NEW j \in 1 .. Len(queue) - 1
        PROVE  queue'[j] = RemoveAt(queue, slot)[j]
    <3>1. CASE j < slot
      <4>1. /\ j \in 1 .. Len(Pending) /\ j \in 1 .. Len(chain)
            /\ chain[j] = Pending[j]
        BY <1>2, <1>3, <1>7, <3>1
      <4> QED
        BY <1>3, <2>1, <2>2, <3>1, <4>1
    <3>2. CASE j >= slot
      <4>1. /\ j + 1 \in 1 .. Len(Pending) /\ j \in 1 .. Len(chain)
            /\ chain[j] = Pending[j + 1]
        BY <1>2, <1>3, <1>7, <3>2
      <4>2. ~ (j < slot)
        BY <1>3, <3>2
      <4>3. RemoveAt(queue, slot)[j] = queue[j + 1]
        BY ONLY <2>1, <2>3, <4>2
      <4> QED
        BY <1>3, <2>2, <4>1, <4>3
    <3> QED
      BY <1>2, <1>3, <3>1, <3>2
  <2>4. Len(queue') = Len(RemoveAt(queue, slot))
    BY <1>3, <1>7, <2>1, <2>2
  <2>5. \A j \in 1 .. Len(queue') : queue'[j] = RemoveAt(queue, slot)[j]
    BY ONLY <2>1, <2>3, <2>4
  <2> QED
    BY ONLY <2>1, <2>2, <2>4, <2>5, SeqEqual
<1> QED
  BY <1>17, <1>18, <1>19 DEF PoolInv

(* A step that leaves the links and the nodes alone leaves the pool whole.  *)
LEMMA PoolUntouched ==
  ASSUME PoolInv, UNCHANGED <<next, node, g_event_free, g_event_start>>,
         g_cur_dfcyc' \in Nat, recalc' \in BOOLEAN, halted' \in BOOLEAN
  PROVE  PoolInv' /\ queue' = queue
<1>1. Pending' = Pending /\ Free' = Free
  BY DEF Pending, Free
<1>2. PoolWhole'
  BY <1>1 DEF PoolInv, PoolWhole
<1>3. TypeOK'
  BY DEF PoolInv, TypeOK
<1> QED
  BY <1>1, <1>2, <1>3 DEF PoolInv, queue

(* The entry remove_event_entry finds.                                      *)
LEMMA PoolRemoves ==
  ASSUME PoolInv, NEW pattern \in Types, NEW mask \in Masks,
         remove_event_entry(pattern, mask)
  PROVE  /\ PoolInv'
         /\ \E i \in RemoveSlots(queue, pattern, mask) : queue' = RemoveAt(queue, i)
<1> DEFINE slot == CHOOSE i \in RemoveSlots(queue, pattern, mask) : TRUE
           ptr == Pending[slot]
           prev == PrevOf(slot)
<1>1. /\ RemoveSlots(queue, pattern, mask) # {}
      /\ next' = FreeAhead(LinkAfter(next, prev, next[ptr]), ptr)
      /\ g_event_start' = IF prev = Null THEN next[ptr] ELSE g_event_start
      /\ g_event_free' = ptr
      /\ UNCHANGED <<node, g_cur_dfcyc, recalc, halted>>
  BY DEF remove_event_entry
<1>2. slot \in RemoveSlots(queue, pattern, mask)
  BY <1>1
<1>3. slot \in 1 .. Len(Pending)
  BY <1>2, QueueOfPool DEF RemoveSlots
<1> HIDE DEF slot
<1>4. PoolInv' /\ queue' = RemoveAt(queue, slot)
  BY <1>1, <1>3, PoolFrees
<1> QED
  BY <1>2, <1>4

(* The pop of run_a2_one_vbl.                                               *)
LEMMA PoolPops ==
  ASSUME PoolInv, PopDue
  PROVE  /\ PoolInv'
         /\ queue # <<>> /\ g_cur_dfcyc >= queue[1].dfcyc /\ queue' = Tail(queue)
<1>1. /\ queue \in Seq(Event) /\ Len(queue) = Len(Pending)
      /\ queue # <<>> /\ 1 \in 1 .. Len(Pending) /\ Pending[1] = g_event_start
      /\ queue[1] = node[g_event_start]
  BY QueueOfPool DEF PopDue
<1>2. PrevOf(1) = Null
  BY DEF PrevOf
<1>3. /\ next' = FreeAhead(LinkAfter(next, Null, next[Pending[1]]), Pending[1])
      /\ g_event_start' = next[Pending[1]] /\ g_event_free' = Pending[1]
      /\ UNCHANGED <<node, g_cur_dfcyc, recalc, halted>>
      /\ g_cur_dfcyc >= queue[1].dfcyc
  BY <1>1 DEF PopDue, LinkAfter
<1>4. PoolInv' /\ queue' = RemoveAt(queue, 1)
  BY <1>1, <1>2, <1>3, PoolFrees
<1>5. RemoveAt(queue, 1) = Tail(queue)
  <2>1. /\ RemoveAt(queue, 1) \in Seq(Event)
        /\ Len(RemoveAt(queue, 1)) = Len(queue) - 1
        /\ \A j \in 1 .. Len(queue) - 1 :
             RemoveAt(queue, 1)[j] = IF j < 1 THEN queue[j] ELSE queue[j + 1]
    <3>1. 1 \in 1 .. Len(queue)
      BY <1>1
    <3> QED
      BY ONLY <1>1, <3>1, RemoveAtFacts
  <2>2. /\ Tail(queue) \in Seq(Event) /\ Len(Tail(queue)) = Len(queue) - 1
        /\ \A j \in 1 .. Len(queue) - 1 : Tail(queue)[j] = queue[j + 1]
    BY <1>1
  <2> QED
    BY <1>1, <2>1, <2>2
<1> QED
  BY <1>1, <1>3, <1>4, <1>5

-------------------------------------------------------------------------------
(* EventQueue's operators are the list's own.                               *)
LEMMA SameOperators ==
  /\ Abstract!Types = Types /\ Abstract!Masks = Masks
  /\ \A dfcyc, cur : /\ Abstract!FiledTime(dfcyc, cur) = FiledTime(dfcyc, cur)
                     /\ Abstract!BadTime(dfcyc, cur) <=> BadTime(dfcyc, cur)
  /\ \A q, filed : /\ Abstract!InsertSlots(q, filed) = InsertSlots(q, filed)
                   /\ Abstract!BecomesFirst(q, filed) <=> BecomesFirst(q, filed)
  /\ \A q, i, e : Abstract!InsertAt(q, i, e) = InsertAt(q, i, e)
  /\ \A q, i : Abstract!RemoveAt(q, i) = RemoveAt(q, i)
  /\ \A q, type, mask :
       /\ Abstract!MoreThanOne(q, type, mask) <=> MoreThanOne(q, type, mask)
       /\ Abstract!RemoveSlots(q, type, mask) = RemoveSlots(q, type, mask)
BY Zenon
   DEF Abstract!Types, Abstract!Masks, Abstract!FiledTime, Abstract!BadTime,
       Abstract!InsertSlots, Abstract!BecomesFirst, Abstract!InsertAt,
       Abstract!RemoveAt, Abstract!MoreThanOne, Abstract!RemoveSlots,
       Abstract!Matches, Types, Masks, FiledTime, BadTime, InsertSlots,
       BecomesFirst, InsertAt, RemoveAt, MoreThanOne, RemoveSlots, Matches

(* Every step of the list keeps the pool whole and is a step of the queue.  *)
LEMMA PoolStep ==
  ASSUME PoolInv, [Next]_vars
  PROVE  PoolInv' /\ [Abstract!Next]_Abstract!vars
<1> USE SameOperators
<1>0. TypeOK
  BY DEF PoolInv
<1>1. ASSUME NEW dfcyc \in 0 .. MaxTime, NEW type \in Types,
             add_event_entry(dfcyc, type)
      PROVE  PoolInv' /\ Abstract!add_event_entry(dfcyc, type)
  <2>1. dfcyc \in Nat
    BY MaxTimeAssumption
  <2>2. LET filed == FiledTime(dfcyc, g_cur_dfcyc) IN
        /\ PoolInv'
        /\ Len(queue) < MaxEvents
        /\ \E i \in InsertSlots(queue, filed) :
             queue' = InsertAt(queue, i, [dfcyc |-> filed, type |-> type])
    BY <1>1, <2>1, PoolAdds
  <2>3. LET filed == FiledTime(dfcyc, g_cur_dfcyc) IN
        /\ recalc' = (recalc \/ BecomesFirst(queue, filed))
        /\ halted' = (halted \/ BadTime(dfcyc, g_cur_dfcyc)
                             \/ MoreThanOne(queue', type, "full"))
        /\ UNCHANGED g_cur_dfcyc
    BY <1>1 DEF add_event_entry
  <2> QED
    BY <2>2, <2>3, Zenon DEF Abstract!add_event_entry, Abstract!FreeLeft
<1>2. ASSUME NEW type \in Types, add_event_entry_full(type)
      PROVE  PoolInv' /\ Abstract!add_event_entry_full(type)
  <2>1. PoolInv' /\ queue' = queue
    BY <1>0, <1>2, PoolUntouched DEF add_event_entry_full, TypeOK
  <2>2. ~ (Len(queue) < MaxEvents)
    BY <1>2, QueueOfPool DEF add_event_entry_full
  <2> QED
    BY <1>2, <2>1, <2>2, Zenon
       DEF add_event_entry_full, Abstract!add_event_entry_full, Abstract!FreeLeft
<1>3. ASSUME NEW pattern \in Types, NEW mask \in Masks,
             remove_event_entry(pattern, mask)
      PROVE  PoolInv' /\ Abstract!remove_event_entry(pattern, mask)
  <2>1. /\ PoolInv'
        /\ \E i \in RemoveSlots(queue, pattern, mask) : queue' = RemoveAt(queue, i)
    BY <1>3, PoolRemoves
  <2> QED
    BY <1>3, <2>1, Zenon DEF remove_event_entry, Abstract!remove_event_entry
<1>4. ASSUME NEW pattern \in Types, NEW mask \in Masks,
             remove_event_entry_missing(pattern, mask)
      PROVE  PoolInv' /\ Abstract!remove_event_entry_missing(pattern, mask)
  <2>1. PoolInv' /\ queue' = queue
    BY <1>0, <1>4, PoolUntouched DEF remove_event_entry_missing, TypeOK
  <2> QED
    BY <1>4, <2>1, Zenon
       DEF remove_event_entry_missing, Abstract!remove_event_entry_missing
<1>5. ASSUME PopDue PROVE PoolInv' /\ Abstract!PopDue
  BY <1>5, PoolPops DEF PopDue, Abstract!PopDue
<1>6. ASSUME NEW dfcyc \in 0 .. MaxTime, Advance(dfcyc)
      PROVE  PoolInv' /\ Abstract!Advance(dfcyc)
  <2>1. PoolInv' /\ queue' = queue
    <3>1. g_cur_dfcyc' \in Nat /\ UNCHANGED <<next, node, g_event_free, g_event_start>>
      BY <1>6, MaxTimeAssumption DEF Advance
    <3>2. recalc' \in BOOLEAN /\ halted' \in BOOLEAN
      BY <1>0, <1>6, Zenon DEF Advance, TypeOK
    <3> QED
      BY <3>1, <3>2, PoolUntouched
  <2> QED
    BY <1>6, <2>1 DEF Advance, Abstract!Advance
<1>7. ASSUME UNCHANGED vars PROVE PoolInv' /\ UNCHANGED Abstract!vars
  <2>1. PoolInv' /\ queue' = queue
    BY <1>0, <1>7, PoolUntouched DEF vars, TypeOK
  <2> QED
    BY <1>7, <2>1 DEF vars, Abstract!vars
<1> QED
  BY <1>1, <1>2, <1>3, <1>4, <1>5, <1>6, <1>7, Zenon DEF Next, Abstract!Next

(* However the list is used, every node stays on exactly one of its two     *)
(* chains and both end (sim65816.c add_event_entry, remove_event_entry).    *)
THEOREM NoNodeLost == Spec => []PoolWhole
<1>1. Init => PoolInv
  BY PoolAtStart
<1>2. PoolInv /\ [Next]_vars => PoolInv'
  BY PoolStep
<1>3. PoolInv => PoolWhole
  BY DEF PoolInv
<1> QED
  BY <1>1, <1>2, <1>3, PTL DEF Spec

(* The rewriting of the links implements the promised queue: the step of    *)
(* the list is a step of EventQueue on the entries the chain leads to.      *)
THEOREM ListImplementsQueue == Spec => ImplementsQueue
<1>1. Init => PoolInv /\ Abstract!Init
  BY PoolAtStart DEF Init, Abstract!Init
<1>2. PoolInv /\ [Next]_vars => PoolInv' /\ [Abstract!Next]_Abstract!vars
  BY PoolStep
<1> QED
  BY <1>1, <1>2, PTL DEF Spec, ImplementsQueue, Abstract!Spec

-------------------------------------------------------------------------------
(* The steps of the promised queue, in the list's own operators.            *)
LEMMA QueueInOrder == Abstract!QueueSorted <=> TimeOrdered(queue)
BY Zenon DEF Abstract!QueueSorted, Abstract!TimeOrdered, TimeOrdered

QueueTyped ==
  /\ queue \in Seq(Event)
  /\ Len(queue) <= MaxEvents
  /\ g_cur_dfcyc \in Nat
  /\ recalc \in BOOLEAN
  /\ halted \in BOOLEAN

LEMMA QueueTypes == Abstract!TypeOK <=> QueueTyped
BY DEF Abstract!TypeOK, Abstract!Event, Abstract!Types, QueueTyped, Event, Types

LEMMA QueueAdds ==
  ASSUME NEW dfcyc, NEW type, Abstract!add_event_entry(dfcyc, type)
  PROVE  LET filed == FiledTime(dfcyc, g_cur_dfcyc) IN
         /\ Len(queue) < MaxEvents
         /\ \E i \in InsertSlots(queue, filed) :
              queue' = InsertAt(queue, i, [dfcyc |-> filed, type |-> type])
         /\ recalc' = (recalc \/ BecomesFirst(queue, filed))
         /\ halted' = (halted \/ BadTime(dfcyc, g_cur_dfcyc)
                              \/ MoreThanOne(queue', type, "full"))
         /\ UNCHANGED g_cur_dfcyc
BY SameOperators, Zenon DEF Abstract!add_event_entry, Abstract!FreeLeft

LEMMA QueueRemoves ==
  ASSUME NEW pattern, NEW mask, Abstract!remove_event_entry(pattern, mask)
  PROVE  /\ \E i \in RemoveSlots(queue, pattern, mask) : queue' = RemoveAt(queue, i)
         /\ UNCHANGED <<g_cur_dfcyc, recalc, halted>>
BY SameOperators, Zenon DEF Abstract!remove_event_entry

(* The type invariant of the queue (sim65816.c g_event_start).              *)
THEOREM QueueTypeCorrect == Abstract!Spec => []Abstract!TypeOK
<1>1. Abstract!Init => QueueTyped
  <2>1. Abstract!Init => queue \in Seq(Event) /\ Len(queue) = 0
    BY DEF Abstract!Init
  <2>2. Abstract!Init => Len(queue) <= MaxEvents /\ g_cur_dfcyc \in Nat
    BY <2>1, MaxEventsAssumption DEF Abstract!Init
  <2>3. Abstract!Init => recalc \in BOOLEAN /\ halted \in BOOLEAN
    BY Zenon DEF Abstract!Init
  <2> QED
    BY <2>1, <2>2, <2>3, Zenon DEF QueueTyped
<1>2. QueueTyped /\ [Abstract!Next]_Abstract!vars => QueueTyped'
  <2> SUFFICES ASSUME QueueTyped, [Abstract!Next]_Abstract!vars
               PROVE  QueueTyped'
    OBVIOUS
  <2> USE DEF QueueTyped
  <2>1. ASSUME NEW dfcyc \in 0 .. MaxTime, NEW type \in Types,
               Abstract!add_event_entry(dfcyc, type)
        PROVE  QueueTyped'
    <3> DEFINE filed == FiledTime(dfcyc, g_cur_dfcyc)
               entry == [dfcyc |-> filed, type |-> type]
    <3>1. filed \in Nat
      BY DelayAssumption, MaxTimeAssumption DEF FiledTime
    <3>2. entry \in Event
      BY <3>1 DEF Event
    <3>3. PICK i \in 1 .. Len(queue) + 1 : queue' = InsertAt(queue, i, entry)
      BY <2>1, QueueAdds DEF InsertSlots
    <3> HIDE DEF entry
    <3>4. queue' \in Seq(Event) /\ Len(queue') = Len(queue) + 1
      <4>1. Inserted(Event, queue, i, entry)
        BY ONLY <3>2, <3>3, InsertedEntry, QueueTyped DEF QueueTyped
      <4> QED
        BY <3>3, <4>1 DEF Inserted
    <3>5. recalc' \in BOOLEAN /\ halted' \in BOOLEAN /\ g_cur_dfcyc' \in Nat
      BY <2>1, QueueAdds DEF BecomesFirst, BadTime, MoreThanOne
    <3>6. Len(queue) < MaxEvents
      BY <2>1, QueueAdds
    <3> QED
      BY <3>4, <3>5, <3>6, MaxEventsAssumption
  <2>2. ASSUME NEW type \in Types, Abstract!add_event_entry_full(type)
        PROVE  QueueTyped'
    BY <2>2 DEF Abstract!add_event_entry_full
  <2>3. ASSUME NEW pattern \in Types, NEW mask \in Masks,
               Abstract!remove_event_entry(pattern, mask)
        PROVE  QueueTyped'
    <3>1. PICK i \in 1 .. Len(queue) : queue' = RemoveAt(queue, i)
      BY <2>3, QueueRemoves DEF RemoveSlots
    <3>2. queue' \in Seq(Event) /\ Len(queue') = Len(queue) - 1
      BY <3>1, RemoveAtFacts
    <3> QED
      BY <2>3, QueueRemoves, <3>2, MaxEventsAssumption
  <2>4. ASSUME NEW pattern \in Types, NEW mask \in Masks,
               Abstract!remove_event_entry_missing(pattern, mask)
        PROVE  QueueTyped'
    BY <2>4 DEF Abstract!remove_event_entry_missing
  <2>5. ASSUME Abstract!PopDue PROVE QueueTyped'
    BY <2>5, MaxEventsAssumption DEF Abstract!PopDue
  <2>6. ASSUME NEW dfcyc \in 0 .. MaxTime, Abstract!Advance(dfcyc)
        PROVE  QueueTyped'
    <3>1. g_cur_dfcyc' \in Nat
      BY <2>6, MaxTimeAssumption DEF Abstract!Advance
    <3> QED
      BY <2>6, <3>1 DEF Abstract!Advance
  <2>7. ASSUME UNCHANGED Abstract!vars PROVE QueueTyped'
    BY <2>7 DEF Abstract!vars
  <2> QED
    BY <2>1, <2>2, <2>3, <2>4, <2>5, <2>6, <2>7
       DEF Abstract!Next, Abstract!Types, Abstract!Masks, Types, Masks
<1> QED
  BY <1>1, <1>2, QueueTypes, PTL DEF Abstract!Spec

(* The list is in time order in every reachable state: an insertion keeps   *)
(* every earlier entry before the new one and every later one behind it.    *)
THEOREM QueueStaysSorted == Abstract!Spec => []Abstract!QueueSorted
<1>1. Abstract!Init => TimeOrdered(queue)
  BY DEF Abstract!Init, TimeOrdered
<1>2. QueueTyped /\ TimeOrdered(queue) /\ [Abstract!Next]_Abstract!vars
        => TimeOrdered(queue)'
  <2> SUFFICES ASSUME QueueTyped, TimeOrdered(queue),
                      [Abstract!Next]_Abstract!vars
               PROVE  TimeOrdered(queue)'
    OBVIOUS
  <2>0. queue \in Seq(Event) /\ TimeOrdered(queue)
    BY DEF QueueTyped
  <2>1. ASSUME NEW dfcyc \in 0 .. MaxTime, NEW type \in Types,
               Abstract!add_event_entry(dfcyc, type)
        PROVE  TimeOrdered(queue)'
    <3> DEFINE filed == FiledTime(dfcyc, g_cur_dfcyc)
               entry == [dfcyc |-> filed, type |-> type]
    <3>1. filed \in Nat /\ g_cur_dfcyc \in Nat
      BY DelayAssumption, MaxTimeAssumption DEF FiledTime, QueueTyped
    <3>2. entry \in Event
      BY <3>1 DEF Event
    <3>3. PICK i \in InsertSlots(queue, filed) :
                 queue' = InsertAt(queue, i, entry)
      BY <2>1, QueueAdds
    <3>4. /\ i \in 1 .. Len(queue) + 1
          /\ \A j \in 1 .. i - 1 : queue[j].dfcyc < filed
          /\ i <= Len(queue) => queue[i].dfcyc >= filed
      BY <3>3 DEF InsertSlots
    <3>5. /\ Len(queue') = Len(queue) + 1
          /\ \A j \in 1 .. Len(queue) + 1 :
               queue'[j] = IF j < i THEN queue[j]
                           ELSE IF j = i THEN entry ELSE queue[j - 1]
      <4> HIDE DEF entry
      <4> QED
        BY <2>0, <3>2, <3>3, <3>4, InsertAtFacts, SMTT(20)
    <3>6. \A j \in 1 .. Len(queue) : queue[j].dfcyc \in Nat
      <4>1. \A x \in Event : x.dfcyc \in Nat
        BY DEF Event
      <4>2. \A j \in 1 .. Len(queue) : queue[j] \in Event
        BY <2>0
      <4> QED
        BY <4>1, <4>2
    <3>7. ASSUME NEW k \in i .. Len(queue) PROVE queue[k].dfcyc >= filed
      BY <2>0, <3>1, <3>4, <3>6 DEF TimeOrdered
    <3>8. ASSUME NEW j \in 1 .. Len(queue'), NEW k \in 1 .. Len(queue'), j < k
          PROVE  queue'[j].dfcyc <= queue'[k].dfcyc
      <4> HIDE DEF filed
      <4>1. Len(queue) \in Nat
        BY <2>0
      <4>2. CASE k < i
        BY <2>0, <3>4, <3>5, <3>8, <4>1, <4>2 DEF TimeOrdered
      <4>3. CASE k = i
        BY <3>1, <3>4, <3>5, <3>6, <3>8, <4>1, <4>3
      <4>4. CASE i < k
        <5>1. queue'[k] = queue[k - 1] /\ k - 1 \in i .. Len(queue)
          BY <3>4, <3>5, <4>1, <4>4
        <5>2. CASE j < i
          BY <2>0, <3>4, <3>5, <3>8, <4>1, <5>1, <5>2, SMTT(20) DEF TimeOrdered
        <5>3. CASE j = i
          BY <3>5, <3>7, <4>1, <5>1, <5>3
        <5>4. CASE i < j
          BY <2>0, <3>4, <3>5, <3>8, <4>1, <5>1, <5>4, SMTT(20) DEF TimeOrdered
        <5> QED
          BY <3>4, <4>1, <5>2, <5>3, <5>4
      <4> QED
        BY <3>4, <3>5, <4>1, <4>2, <4>3, <4>4
    <3> QED
      BY <3>8 DEF TimeOrdered
  <2>2. ASSUME NEW type \in Types, Abstract!add_event_entry_full(type)
        PROVE  TimeOrdered(queue)'
    BY <2>2 DEF Abstract!add_event_entry_full, TimeOrdered
  <2>3. ASSUME NEW pattern \in Types, NEW mask \in Masks,
               Abstract!remove_event_entry(pattern, mask)
        PROVE  TimeOrdered(queue)'
    <3>1. PICK i \in 1 .. Len(queue) : queue' = RemoveAt(queue, i)
      BY <2>3, QueueRemoves DEF RemoveSlots
    <3>2. /\ Len(queue') = Len(queue) - 1
          /\ \A j \in 1 .. Len(queue) - 1 :
               queue'[j] = IF j < i THEN queue[j] ELSE queue[j + 1]
      BY <2>0, <3>1, RemoveAtFacts
    <3> DEFINE was(j) == IF j < i THEN j ELSE j + 1
    <3>3. Len(queue) \in Nat /\ i \in Nat /\ TimeOrdered(queue)
      BY <2>0 DEF TimeOrdered
    <3>4. ASSUME NEW j \in 1 .. Len(queue')
          PROVE  was(j) \in 1 .. Len(queue) /\ queue'[j] = queue[was(j)]
      BY ONLY <3>2, <3>3, <3>4
    <3>5. ASSUME NEW j \in 1 .. Len(queue'), NEW k \in 1 .. Len(queue'), j < k
          PROVE  queue'[j].dfcyc <= queue'[k].dfcyc
      <4>1. was(j) < was(k)
        BY ONLY <3>2, <3>3, <3>5
      <4> HIDE DEF was
      <4> QED
        BY ONLY <3>3, <3>4, <3>5, <4>1 DEF TimeOrdered
    <3> QED
      BY <3>5 DEF TimeOrdered
  <2>4. ASSUME NEW pattern \in Types, NEW mask \in Masks,
               Abstract!remove_event_entry_missing(pattern, mask)
        PROVE  TimeOrdered(queue)'
    BY <2>4 DEF Abstract!remove_event_entry_missing, TimeOrdered
  <2>5. ASSUME Abstract!PopDue PROVE TimeOrdered(queue)'
    <3>1. /\ Len(queue') = Len(queue) - 1
          /\ \A j \in 1 .. Len(queue) - 1 : queue'[j] = queue[j + 1]
      BY <2>0, <2>5 DEF Abstract!PopDue
    <3> QED
      BY <2>0, <3>1 DEF TimeOrdered
  <2>6. ASSUME NEW dfcyc \in 0 .. MaxTime, Abstract!Advance(dfcyc)
        PROVE  TimeOrdered(queue)'
    BY <2>6 DEF Abstract!Advance, TimeOrdered
  <2>7. ASSUME UNCHANGED Abstract!vars PROVE TimeOrdered(queue)'
    BY <2>7 DEF Abstract!vars, TimeOrdered
  <2> QED
    BY <2>1, <2>2, <2>3, <2>4, <2>5, <2>6, <2>7
       DEF Abstract!Next, Abstract!Types, Abstract!Masks, Types, Masks
<1> QED
  BY <1>1, <1>2, QueueTypeCorrect, QueueTypes, QueueInOrder, PTL
     DEF Abstract!Spec

(* The engine never runs on towards a stop time that is later than the     *)
(* first event: only add_event_entry puts an earlier entry in front, and it *)
(* zeroes g_dcycles_end when it does; removals leave a later one in front.  *)
THEOREM StopTimeFollowsHead == Abstract!Spec => Abstract!EarlierEventRecalcs
<1> DEFINE Goal == queue # <<>> /\ queue' # <<>>
                     /\ queue'[1].dfcyc < queue[1].dfcyc => recalc'
<1>1. QueueTyped /\ TimeOrdered(queue) /\ [Abstract!Next]_Abstract!vars
        => [Goal]_Abstract!vars
  <2> SUFFICES ASSUME QueueTyped, TimeOrdered(queue), Abstract!Next,
                      queue # <<>>, queue' # <<>>,
                      queue'[1].dfcyc < queue[1].dfcyc
               PROVE  recalc'
    OBVIOUS
  <2>0. /\ queue \in Seq(Event) /\ TimeOrdered(queue) /\ Len(queue) \in Nat
        /\ 1 \in 1 .. Len(queue)
        /\ g_cur_dfcyc \in Nat
    BY DEF QueueTyped
  <2>a. \A j \in 1 .. Len(queue) : queue[j].dfcyc \in Nat
    <3>1. \A x \in Event : x.dfcyc \in Nat
      BY DEF Event
    <3>2. \A j \in 1 .. Len(queue) : queue[j] \in Event
      BY <2>0
    <3> QED
      BY <3>1, <3>2
  <2>b. ASSUME queue'[1] = queue[1] \/ (2 \in 1 .. Len(queue)
                                          /\ queue'[1] = queue[2])
        PROVE  FALSE
    BY <2>0, <2>a, <2>b DEF TimeOrdered
  <2>1. ASSUME NEW dfcyc \in 0 .. MaxTime, NEW type \in Types,
               Abstract!add_event_entry(dfcyc, type)
        PROVE  recalc'
    <3> DEFINE filed == FiledTime(dfcyc, g_cur_dfcyc)
               entry == [dfcyc |-> filed, type |-> type]
    <3>1. filed \in Nat
      BY <2>0, DelayAssumption, MaxTimeAssumption DEF FiledTime
    <3>2. entry \in Event
      BY <3>1 DEF Event
    <3>3. PICK i \in 1 .. Len(queue) + 1 : queue' = InsertAt(queue, i, entry)
      BY <2>1, QueueAdds DEF InsertSlots
    <3>4. queue'[1] = IF i = 1 THEN entry ELSE queue[1]
      <4>1. \A j \in 1 .. Len(queue) + 1 :
              queue'[j] = IF j < i THEN queue[j]
                          ELSE IF j = i THEN entry ELSE queue[j - 1]
        <5> HIDE DEF entry
        <5> QED
          BY <2>0, <3>2, <3>3, InsertAtFacts, SMTT(20)
      <4> HIDE DEF entry
      <4> QED
        BY <2>0, <3>3, <4>1
    <3>5. queue'[1] = entry
      BY <2>b, <3>4
    <3>6. BecomesFirst(queue, filed)
      <4>1. entry.dfcyc = filed
        OBVIOUS
      <4> QED
        BY <3>5, <4>1 DEF BecomesFirst
    <3> QED
      BY <2>1, QueueAdds, <3>6
  <2>2. ASSUME NEW type \in Types, Abstract!add_event_entry_full(type)
        PROVE  recalc'
    BY <2>2, <2>b DEF Abstract!add_event_entry_full
  <2>3. ASSUME NEW pattern \in Types, NEW mask \in Masks,
               Abstract!remove_event_entry(pattern, mask)
        PROVE  recalc'
    <3>1. PICK i \in 1 .. Len(queue) : queue' = RemoveAt(queue, i)
      BY <2>3, QueueRemoves DEF RemoveSlots
    <3>2. /\ queue' \in Seq(Event)
          /\ Len(queue') = Len(queue) - 1
          /\ \A j \in 1 .. Len(queue) - 1 :
               queue'[j] = IF j < i THEN queue[j] ELSE queue[j + 1]
      BY <2>0, <3>1, RemoveAtFacts
    <3>3. 1 \in 1 .. Len(queue) - 1 /\ 2 \in 1 .. Len(queue)
      BY <2>0, <3>2
    <3> QED
      BY <2>b, <3>2, <3>3
  <2>4. ASSUME NEW pattern \in Types, NEW mask \in Masks,
               Abstract!remove_event_entry_missing(pattern, mask)
        PROVE  recalc'
    BY <2>4, <2>b DEF Abstract!remove_event_entry_missing
  <2>5. ASSUME Abstract!PopDue PROVE recalc'
    <3>1. queue'[1] = queue[2] /\ 2 \in 1 .. Len(queue)
      BY <2>0, <2>5 DEF Abstract!PopDue
    <3> QED
      BY <2>b, <3>1
  <2>6. ASSUME NEW dfcyc \in 0 .. MaxTime, Abstract!Advance(dfcyc) PROVE recalc'
    BY <2>6, <2>b DEF Abstract!Advance
  <2> QED
    BY <2>1, <2>2, <2>3, <2>4, <2>5, <2>6
       DEF Abstract!Next, Abstract!Types, Abstract!Masks, Types, Masks
<1> QED
  BY <1>1, QueueTypeCorrect, QueueStaysSorted, QueueTypes, QueueInOrder, PTL
     DEF Abstract!Spec, Abstract!EarlierEventRecalcs

(* Whatever its links went through, the first entry of the list is the      *)
(* earliest one, which is the only one the main loop looks at               *)
(* (sim65816.c add_event_entry).                                            *)
THEOREM ListStaysSorted == Spec => []QueueSorted
BY QueueStaysSorted, ListImplementsQueue, PTL DEF QueueSorted, ImplementsQueue

(* No change of the links puts an earlier entry in front without the        *)
(* engine's stop time being zeroed (sim65816.c engine_recalc_events).       *)
THEOREM ListStopFollowsHead == Spec => EarlierEventRecalcs
BY StopTimeFollowsHead, ListImplementsQueue, PTL
   DEF EarlierEventRecalcs, ImplementsQueue
===============================================================================
