------------------------------- MODULE EventList -------------------------------
(***************************************************************************)
(* The linked list behind EventQueue: MAX_EVENTS nodes, each on exactly    *)
(* one of two chains, the free chain from g_event_free and the pending     *)
(* chain from g_event_start.  The code moves a node from one chain to the  *)
(* other by rewriting "next" fields, so a wrong order of assignments loses *)
(* nodes, shares them or closes a loop.                                    *)
(***************************************************************************)
EXTENDS EventBounds

Null == 0            \* the null pointer
Nodes == 1 .. MaxEvents
Ptr == Nodes \cup {Null}

VARIABLES
  next,           \* g_event_list[i].next
  node,           \* g_event_list[i].dfcyc and .type
  g_event_free,   \* g_event_free.next
  g_event_start,  \* g_event_start.next
  g_cur_dfcyc,
  recalc,
  halted

vars == <<next, node, g_event_free, g_event_start, g_cur_dfcyc, recalc, halted>>

(* The nodes that links lead to from pointer p on, in order; a chain longer *)
(* than the pool has a loop, and is cut one node after that.                *)
ChainOf(links, p) ==
  LET upTo[len \in 0 .. MaxEvents + 1] ==
        [q \in Ptr |-> IF q = Null \/ len = 0 THEN <<>>
                       ELSE <<q>> \o upTo[len - 1][links[q]]]
  IN upTo[MaxEvents + 1][p]

Pending == ChainOf(next, g_event_start)

(* The list of EventQueue.                                                  *)
queue == [i \in 1 .. Len(Pending) |-> node[Pending[i]]]

AnyEvent == [dfcyc |-> 0, type |-> CHOOSE type \in Types : TRUE]

(* The links initialize_events makes.                                       *)
NextNode(i) == IF i = MaxEvents THEN Null ELSE i + 1

(* initialize_events links every node to the next one; the node contents    *)
(* are the zeroes of static storage.  Its add_event_entry for EV_60HZ is    *)
(* one of the adds of Next.                                                 *)
Init ==
  /\ next = [i \in Nodes |-> NextNode(i)]
  /\ node = [i \in Nodes |-> AnyEvent]
  /\ g_event_free = 1
  /\ g_event_start = Null
  /\ g_cur_dfcyc = 1
  /\ recalc = FALSE
  /\ halted = FALSE

(* Mutant: the new node goes in front of the list whatever its time.        *)
PrevOfFront(slot) == Null

(* The loop of add_event_entry: prev_ptr is the last node it steps across,  *)
(* Null standing for &g_event_start.                                        *)
PrevOf(slot) == IF slot = 1 THEN Null ELSE Pending[slot - 1]

(* prev_ptr->next = p, where prev_ptr may be &g_event_start.                *)
LinkAfter(links, prev, p) ==
  IF prev = Null THEN links ELSE [links EXCEPT ![prev] = p]

add_event_entry(dfcyc, type) ==
  LET filed == FiledTime(dfcyc, g_cur_dfcyc)
      this_event == g_event_free
      slot == CHOOSE i \in InsertSlots(queue, filed) : TRUE
      prev_ptr == PrevOf(slot)
      ptr == IF prev_ptr = Null THEN g_event_start ELSE next[prev_ptr]
  IN
  /\ this_event # Null
  /\ g_event_free' = next[this_event]
  /\ node' = [node EXCEPT ![this_event] = [dfcyc |-> filed, type |-> type]]
  /\ next' = LinkAfter([next EXCEPT ![this_event] = ptr], prev_ptr, this_event)
  /\ g_event_start' = IF prev_ptr = Null THEN this_event ELSE g_event_start
  /\ recalc' = (recalc \/ BecomesFirst(queue, filed))
  /\ halted' = (halted \/ BadTime(dfcyc, g_cur_dfcyc)
                       \/ MoreThanOne(queue', type, "full"))
  /\ UNCHANGED g_cur_dfcyc

add_event_entry_full(type) ==
  /\ g_event_free = Null
  /\ halted' = TRUE
  /\ UNCHANGED <<next, node, g_event_free, g_event_start, g_cur_dfcyc, recalc>>

(* ptr->next = g_event_free.next: ptr goes in front of the free chain.      *)
FreeAhead(links, ptr) == [links EXCEPT ![ptr] = g_event_free]

(* The node found goes to the head of the free chain; its time is left in   *)
(* it, which is what the caller is given.                                   *)
remove_event_entry(pattern, mask) ==
  LET slots == RemoveSlots(queue, pattern, mask)
      slot == CHOOSE i \in slots : TRUE
      ptr == Pending[slot]
      prev_ptr == PrevOf(slot)
      next_ptr == next[ptr]
  IN
  /\ slots # {}
  /\ next' = FreeAhead(LinkAfter(next, prev_ptr, next_ptr), ptr)
  /\ g_event_start' = IF prev_ptr = Null THEN next_ptr ELSE g_event_start
  /\ g_event_free' = ptr
  /\ UNCHANGED <<node, g_cur_dfcyc, recalc, halted>>

remove_event_entry_missing(pattern, mask) ==
  /\ RemoveSlots(queue, pattern, mask) = {}
  /\ halted' = TRUE
  /\ UNCHANGED <<next, node, g_event_free, g_event_start, g_cur_dfcyc, recalc>>

(* run_a2_one_vbl: pop the first node and free it before its handler runs.  *)
PopDue ==
  /\ g_event_start # Null
  /\ g_cur_dfcyc >= node[g_event_start].dfcyc
  /\ g_event_start' = next[g_event_start]
  /\ next' = FreeAhead(next, g_event_start)
  /\ g_event_free' = g_event_start
  /\ UNCHANGED <<node, g_cur_dfcyc, recalc, halted>>

(* The engine returns at a later time; the stop time is set afresh.         *)
Advance(dfcyc) ==
  /\ dfcyc >= g_cur_dfcyc
  /\ g_cur_dfcyc' = dfcyc
  /\ recalc' = FALSE
  /\ UNCHANGED <<next, node, g_event_free, g_event_start, halted>>

Next ==
  \/ \E dfcyc \in 0 .. MaxTime, type \in Types : add_event_entry(dfcyc, type)
  \/ \E type \in Types : add_event_entry_full(type)
  \/ \E pattern \in Types, mask \in Masks :
       \/ remove_event_entry(pattern, mask)
       \/ remove_event_entry_missing(pattern, mask)
  \/ PopDue
  \/ \E dfcyc \in 0 .. MaxTime : Advance(dfcyc)

Spec == Init /\ [][Next]_vars

-------------------------------------------------------------------------------
TypeOK ==
  /\ next \in [Nodes -> Ptr]
  /\ node \in [Nodes -> Event]
  /\ {g_event_free, g_event_start} \subseteq Ptr
  /\ g_cur_dfcyc \in Nat
  /\ {recalc, halted} \subseteq BOOLEAN

Free == ChainOf(next, g_event_free)

(* The node at place i of a chain; Null stands behind its last one.         *)
NodeAt(s, i) == IF i \in 1 .. Len(s) THEN s[i] ELSE Null

(* From p on, links lead through s and end there.                           *)
Linked(links, p, s) ==
  /\ p = NodeAt(s, 1)
  /\ \A i \in 1 .. Len(s) : links[s[i]] = NodeAt(s, i + 1)

(* No node is on two places of the two chains.                              *)
Apart(s, t) ==
  /\ IsInjective(s)
  /\ IsInjective(t)
  /\ \A i \in 1 .. Len(s), j \in 1 .. Len(t) : s[i] # t[j]

(* Every node is on exactly one of the two chains and both chains end:      *)
(* no sequence of adds, removes and pops leaks a node, hands it out twice   *)
(* or closes a loop that add_event_entry would follow for ever.             *)
PoolWhole ==
  /\ {Pending, Free} \subseteq Seq(Nodes)
  /\ Linked(next, g_event_start, Pending)
  /\ Linked(next, g_event_free, Free)
  /\ Apart(Pending, Free)
  /\ Len(Pending) + Len(Free) = MaxEvents

Abstract == INSTANCE EventQueue WITH queue <- queue, g_cur_dfcyc <- g_cur_dfcyc,
                                     recalc <- recalc, halted <- halted

(* The linked list implements the sorted queue: each rewriting of the links *)
(* is one step of the queue, on the entries the chain leads to, and the     *)
(* pool holds MaxEvents entries for ever: no node is lost or shared.        *)
ImplementsQueue == Abstract!Spec

(* The entries on the pending chain are in time order (EventQueue).         *)
QueueSorted == Abstract!QueueSorted

(* A new earliest entry brings the engine's stop time forward (EventQueue). *)
EarlierEventRecalcs == Abstract!EarlierEventRecalcs
===============================================================================
