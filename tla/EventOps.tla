------------------------------- MODULE EventOps -------------------------------
(***************************************************************************)
(* The operators of the emulator's event list (sim65816.c).  The list is a *)
(* sequence of [dfcyc, type] entries in the order of the "next" links that *)
(* start at g_event_start; module EventList models the links themselves    *)
(* and shows that they implement this view.                                *)
(*                                                                         *)
(* An event type is an EV_ number in the low byte and an argument (the     *)
(* oscillator, the line, the SCC port and kind) in the bits above it:      *)
(* here a record [ev, arg], whose argument 0 is the bare EV_ number.       *)
(***************************************************************************)
EXTENDS Naturals, Sequences, SequencesExt, FiniteSets

CONSTANTS
  Evs,        \* the EV_ numbers
  Args,       \* the arguments a type may carry; 0 is the bare type
  MaxEvents,  \* MAX_EVENTS, the nodes of g_event_list
  MaxAhead,   \* an event further ahead than this is refused (50,000,000 us)
  BadDelay    \* where a refused time is put instead (1,000 us from now)

ASSUME EvsAssumption == Evs # {}
ASSUME ArgsAssumption == Args \subseteq Nat /\ 0 \in Args
ASSUME MaxEventsAssumption == MaxEvents \in Nat \ {0}
ASSUME DelayAssumption == MaxAhead \in Nat /\ BadDelay \in 0 .. MaxAhead

Types == [ev : Evs, arg : Args]
Event == [dfcyc : Nat, type : Types]

(* The masks remove_event_entry and check_for_one_event_type are called     *)
(* with: 0xff compares the EV_ number, 0xffff the argument as well.         *)
Masks == {"ev", "full"}

(* (ptr->type & mask) == type.  Both functions are handed a type, and a     *)
(* type whose argument is not 0 never equals a value masked with 0xff.      *)
Matches(type, pattern, mask) ==
  [ev |-> type.ev, arg |-> IF mask = "full" THEN type.arg ELSE 0] = pattern

(* Mutant: the search gives up after the first entry.                       *)
InsertSlotsShort(q, dfcyc) ==
  { i \in 1 .. Len(q) + 1 :
      /\ \A j \in 1 .. i - 1 : q[j].dfcyc < dfcyc
      /\ (i <= Len(q) /\ i <= 1) => q[i].dfcyc >= dfcyc }

(* Where add_event_entry links a new entry: it steps across every entry     *)
(* that is strictly earlier, and goes before one that is due at the same    *)
(* time.                                                                    *)
InsertSlots(q, dfcyc) ==
  { i \in 1 .. Len(q) + 1 :
      /\ \A j \in 1 .. i - 1 : q[j].dfcyc < dfcyc
      /\ i <= Len(q) => q[i].dfcyc >= dfcyc }

(* The entry remove_event_entry unlinks: the first that matches.            *)
RemoveSlots(q, pattern, mask) ==
  { i \in 1 .. Len(q) :
      /\ Matches(q[i].type, pattern, mask)
      /\ \A j \in 1 .. i - 1 : ~ Matches(q[j].type, pattern, mask) }

(* check_for_one_event_type halts when it counts more than one match.  It   *)
(* strips the argument from the type it is given before it compares.        *)
MoreThanOne(q, type, mask) ==
  \E i, j \in 1 .. Len(q) :
    /\ i # j
    /\ Matches(q[i].type, [ev |-> type.ev, arg |-> 0], mask)
    /\ Matches(q[j].type, [ev |-> type.ev, arg |-> 0], mask)

(* A time before g_cur_dfcyc or too far ahead of it is refused.             *)
BadTime(dfcyc, cur) == dfcyc > cur + MaxAhead \/ dfcyc < cur

(* The time add_event_entry files the entry under.                          *)
FiledTime(dfcyc, cur) == IF BadTime(dfcyc, cur) THEN cur + BadDelay ELSE dfcyc

(* Mutant: the comparison is with the last entry.                           *)
BeforeLast(q, filed) == q # <<>> /\ q[1].dfcyc < filed

(* The new entry goes in front of every other: add_event_entry then calls   *)
(* engine_recalc_events, which zeroes g_dcycles_end.                        *)
BecomesFirst(q, filed) == q # <<>> /\ filed < q[1].dfcyc

(* The list is in time order.                                               *)
TimeOrdered(q) == \A i, j \in 1 .. Len(q) : i < j => q[i].dfcyc <= q[j].dfcyc

TypesOf(q) == { q[i].type : i \in 1 .. Len(q) }
===============================================================================
