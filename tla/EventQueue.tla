------------------------------ MODULE EventQueue ------------------------------
(***************************************************************************)
(* What the event list promises its callers: the pending events in time    *)
(* order, none lost and none invented, and the engine's stop time brought  *)
(* forward whenever an earlier event arrives.  Every caller of             *)
(* add_event_entry and remove_event_entry in the emulator is one of the    *)
(* steps below; EventList is the linked list that implements it.           *)
(***************************************************************************)
EXTENDS EventBounds

VARIABLES
  queue,        \* the entries from g_event_start.next on
  g_cur_dfcyc,  \* the time the engine last returned at
  recalc,       \* g_dcycles_end was zeroed since the engine's stop was set
  halted        \* a halt_printf assertion has fired

vars == <<queue, g_cur_dfcyc, recalc, halted>>

Init ==
  /\ queue = <<>>
  /\ g_cur_dfcyc = 1
  /\ recalc = FALSE
  /\ halted = FALSE

(* g_event_free.next is not 0.                                              *)
FreeLeft == Len(queue) < MaxEvents

(* add_event_entry.                                                         *)
add_event_entry(dfcyc, type) ==
  LET filed == FiledTime(dfcyc, g_cur_dfcyc) IN
  /\ FreeLeft
  /\ \E i \in InsertSlots(queue, filed) :
       queue' = InsertAt(queue, i, [dfcyc |-> filed, type |-> type])
  /\ recalc' = (recalc \/ BecomesFirst(queue, filed))
  /\ halted' = (halted \/ BadTime(dfcyc, g_cur_dfcyc)
                       \/ MoreThanOne(queue', type, "full"))
  /\ UNCHANGED g_cur_dfcyc

(* add_event_entry when the free list is empty: the event is dropped.       *)
add_event_entry_full(type) ==
  /\ ~ FreeLeft
  /\ type \in Types
  /\ halted' = TRUE
  /\ UNCHANGED <<queue, g_cur_dfcyc, recalc>>

(* remove_event_entry, when an entry matches and when none does.            *)
remove_event_entry(pattern, mask) ==
  /\ \E i \in RemoveSlots(queue, pattern, mask) : queue' = RemoveAt(queue, i)
  /\ UNCHANGED <<g_cur_dfcyc, recalc, halted>>

remove_event_entry_missing(pattern, mask) ==
  /\ RemoveSlots(queue, pattern, mask) = {}
  /\ halted' = TRUE
  /\ UNCHANGED <<queue, g_cur_dfcyc, recalc>>

(* run_a2_one_vbl takes the first entry off once the engine has passed it.  *)
PopDue ==
  /\ queue # <<>>
  /\ g_cur_dfcyc >= queue[1].dfcyc
  /\ queue' = Tail(queue)
  /\ UNCHANGED <<g_cur_dfcyc, recalc, halted>>

(* The engine runs to some later time; its stop time is set afresh.         *)
Advance(dfcyc) ==
  /\ dfcyc >= g_cur_dfcyc
  /\ g_cur_dfcyc' = dfcyc
  /\ recalc' = FALSE
  /\ UNCHANGED <<queue, halted>>

Next ==
  \/ \E dfcyc \in 0 .. MaxTime, type \in Types : add_event_entry(dfcyc, type)
  \/ \E type \in Types : add_event_entry_full(type)
  \/ \E pattern \in Types, mask \in Masks :
       \/ remove_event_entry(pattern, mask)
       \/ remove_event_entry_missing(pattern, mask)
  \/ PopDue
  \/ \E dfcyc \in 0 .. MaxTime : Advance(dfcyc)

Spec == Init /\ [][Next]_vars

-------------------------------------------------------------------------------
TypeOK ==
  /\ queue \in Seq(Event)
  /\ Len(queue) <= MaxEvents
  /\ g_cur_dfcyc \in Nat
  /\ recalc \in BOOLEAN
  /\ halted \in BOOLEAN

(* The list stays in time order whatever is added, removed and popped: the  *)
(* main loop looks at the first entry only, so an entry filed behind a      *)
(* later one would be handled late (sim65816.c add_event_entry).            *)
QueueSorted == TimeOrdered(queue)

(* When an event becomes the earliest one, the engine's stop time has been  *)
(* zeroed: an engine that is running towards the old first event would      *)
(* otherwise run past the new one (engine_recalc_events).                   *)
EarlierEventRecalcs ==
  [][ queue # <<>> /\ queue' # <<>> /\ queue'[1].dfcyc < queue[1].dfcyc
        => recalc' ]_vars
===============================================================================
