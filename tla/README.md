# A verification project for KEGS

KEGS emulates an Apple IIgs in C. This directory holds TLA+ modules translated from its source, TLC
configurations that check them on small instances, and theorems about them that hold for every value
of the constants. Line numbers are those of the files in `src/`.

## The system

The emulation is one thread. The host calls `run_16ms`, which runs the 65816 engine up to the first
timed event, handles what is due and returns once per video frame. Devices talk to the processor
through

- one **event list** in time order (`sim65816.c`), whose first entry is the engine's stop time,
- one word of **interrupt lines**, `g_irq_pending`, set and cleared by the devices,
- **registers**, read and written in the middle of an instruction (`moremem.c`), and
- one **page table**, which says for each page of memory what a read or a write reaches.

What is hard is not parallelism but order: a register access, an event, the end of a frame, a reset,
the user's hand in the configuration panel or the debugger, and the host's sockets come in any order,
and each handler changes a few of several copies of one fact. Most state is lazy: a timer, a sound or
a scan line is not stepped but caught up with when somebody looks, and its next interrupt is booked as
an event computed ahead.

| Component | State | Operations | Hard behaviour | Correct when |
|---|---|---|---|---|
| Event list (`sim65816.c`) | pool of nodes, pending and free chain, stop time | add, remove, check, pop | an earlier event while the engine runs; the pool's limit | in time order, no node lost, the engine stops for the first |
| 65816 (`engine_c.c`, `engine.h`, `instable.h`, `defs_instr.h`, `op_routs.h`, `size_c.h`) | registers, flags, memory | 256 opcodes, `take_irq` | two ways of fetching operands from two tables; page, bank and mode boundaries; decimal sums digit by digit | both fetches do the same, a return undoes its call, sums are right |
| Main loop (`sim65816.c`, `engine_c.c`) | engine's time, stop time and return code, mask, width, WAI/STP, halt | run_16ms, enter_engine, take_irq, handle_action, update_60hz, go, step, reset | two reasons to stop in one instruction; the saved stop time | no event late, right engine, a halt halts, interrupts taken, frames go on |
| Video interrupts (`moremem.c`, `sim65816.c`) | `$C023`, `$C041`, `$C046`, scan-line event and its two shadows | register accesses, scan, VBL and frame events, reset | status, enable and line are three copies; the event is filed ahead of its line | lines follow registers, no wanted line forgotten |
| Memory map (`moremem.c`) | switches, shadow register, breakpoints, page table | a fixup for each switch, full rebuild | fixups share pages and registers and wipe breakpoint marks | the table is what a rebuild would give |
| SCC 8530 (`scc.c`) | registers, wants, lines, pending events, receive queue of two channels | control and data registers, three events, reset | master enable, enables and wants combine into six lines | lines follow wants, flags follow events, characters move |
| Serial modes and modem (`scc.c`, `scc_socket_driver.c`) | mode, sockets, modem state, rings, DTR/DCD, output | update, open, close, dial, answer, hang up, config change | failures at each step; commands inside the read loop; a guest that does not read | sockets, mode and what the guest was told agree |
| Mockingboard (`mockingboard.c`) | two 6522s, time of last update, one event | register reads and writes, update, event, reset | counters caught up lazily; one event for four timers | as if each microsecond were counted |
| Ensoniq DOC (`doc.c`) | 32 oscillators, ranks of pending interrupts, estimated ends | control, 0xe0, 0xe1, sound_play, event, reset | interrupts arise while catching up inside another handler | ranks, count, line and event agree |
| ADB (`adb.c`) | command state machine, interrupts, modifiers, key buffer, repeat, paste, polled keys, mouse queue | `$C000`, `$C010`, `$C024`-`$C027`, host keys, mouse, focus and pastes | three interrupts share one line; a character that its host key makes another way; the shift put on and taken off; limits of three queues | no key stuck, lost or doubled, every interrupt has an answer, the pointer catches up |
| Floppy drives, WOZ (`iwm.c`, `woz.c`) | switches, arms, motors, tracks of bits with marks of their nibbles, dirty flags, track map | `$C0E0` accesses, `$C031`, VBL, insert, eject, reset | writes across the ring's end and over five tracks; the mark search; eject or reset while dirty; a file that cannot be written | marks chain, what is clean is on file, no half sector, nothing written is lost |
| SmartPort, Dynamic ProDOS (`smartport.c`, `dynapro.c` and others) | block images; a map between blocks and host files | read, write, format; validate and write back | a host file changed half-way through its blocks | map is a partition, files equal blocks |
| Decompressors (`undeflate.c`, `unshk.c`, `applesingle.c`) | none | pure functions | lengths at boundaries | the inverse of packing |
| Clock (`clock.c`) | shift state, 32-bit time, battery RAM | `$C033`, `$C034` | protocol left half-way | reads what was written |
| Sound output (`sound.c`, host drivers) | sample ring shared with an audio thread | fill, consume | the only shared memory between threads | no sample overwritten unread |
| Video (`video.c`, `voc.c`), configuration (`config.c`), debugger (`debugger.c`), host windows | pixels, menus, text | drawing, parsing, host calls | the panel and the debugger act between any two instructions | their effects on other parts are actions of those parts |

`PROJECT.json` lists all components with their status, the definition-to-line map and the hazards,
each with the properties that cover it.

## Modules

| Module | Models |
|---|---|
| `EventOps`, `EventBounds` | operators on an event list seen as a sequence; the bound on its times |
| `EventQueue` | what callers of the list are promised |
| `EventList` | the linked nodes and the free chain; implements `EventQueue` |
| `MainLoop` | the host loop, the engine's control, and events dispatched to one handler per device; extends `EventOps` |
| `CpuOps` | the 65816's memory accesses, stack, status register, addressing modes and operations |
| `Cpu` | the opcode table, both ways of fetching, execution and interrupts; extends `CpuOps` |
| `VgcInt` | video interrupts with the scan-line event and frames |
| `MemoryMap` | the page table, soft switches, shadow register, breakpoints |
| `Scc` | the two channels of the SCC, from control register to interrupt line; `SccState` has its state and what is promised of it |
| `SccModem` | one serial port towards the host |
| `Mockingboard` | the 6522 timers |
| `Doc` | the DOC's oscillators and interrupts |
| `AdbBus`, `AdbKeys`, `AdbMouse` | the ADB's shared state, answers and interrupts; the keyboard; the mouse; each extends the one before |
| `Adb` | the commands, `$C026`, `$C027`, and the steps of user and program; extends `AdbMouse` |
| `KeyFifo` | what the keyboard latch promises a program; `Adb` implements it |
| `DiskTrack` | a ring of bits, its nibbles' marks, writing over it and reading from it |
| `DiskNibble` | sectors to nibbles and back, for both sizes of disk; extends `DiskTrack` |
| `DiskImage` | a disk in a drive, its image file and the WOZ format; extends `DiskNibble` |
| `Iwm` | the IWM, the drives, writes over several tracks, saving, and what user and host do; extends `DiskImage` |
| `EventListProofs`, `MainLoopProofs`, `VgcIntProofs`, `SerialProofs`, `MockingboardProofs`, `DocProofs`, `MemoryMapProofs`, `AdbProofs` | theorems |

`MC...` modules and `.cfg` files instantiate them. Definitions keep the C names; where a handler is a
case of `io_read` or `io_write` the action is `read_`, `write_` or `access_` and the register.

How state and actions correspond:

- `EventQueue.queue` is the chain from `g_event_start`; `recalc` records that `g_dcycles_end` was
  zeroed. Times of refused events (`MaxAhead`, `BadDelay`) follow `add_event_entry`. In `EventList`
  nodes and `next` pointers are explicit and `queue` is computed from them (`ChainOf`, a recursive
  function).
- `MainLoop` has one action per stretch of code between two places where control may go elsewhere:
  entering the engine, an instruction, leaving, `handle_action`, each round of the event loop. The
  guest program is any sequence of instructions, so `at` only names the kinds that matter (breakpoint,
  WAI, STP, code rewriting the status register). Time is relative to the frame's start. A device's
  event may be filed or moved from an instruction, from a handler and, for the blanking and line 0, from
  `update_60hz`, at any distance (`Delays` is any set of integers): a time that has passed is put at
  `g_cur_dfcyc` as `add_event_doc` and the others do, one too far ahead is refused with a halt.
- `Cpu` takes one instruction or one interrupt per step. The machine is a record; `arg` is the operand
  that an addressing mode's macro hands to an operation's. N and Z are kept as the engine keeps them,
  apart from the status register, and merged where the code merges them. Memory is a default byte for
  every address and the bytes written since. `FETCH_OPCODE` reads operands in place, or through
  `get_remaining_operands` and `size_c.h` at a page's end. `was` is a history variable.
- `VgcInt` lets an instruction start up to the stop time and touch a register up to `MaxCost` later,
  which is where `get_lines_since_vbl` and the event list can disagree. A register is the set of its
  bits that are on.
- `MemoryMap` groups the pages that all fixups treat alike into regions. A fixup is an operator from
  the entry in a slot to the entry it leaves, so each action applies the code's sequence of fixups to
  every slot. `regs` holds the registers. `unsettled` is a history variable: slots that depend on a
  register whose change the code follows with no fixup (see below).
- `Scc` counts characters, and takes its events in any order since no baud rate is fixed. `queue` is
  the number of queued events of each kind, so a flag without its event, or two events, can be seen.
- `SccModem` writes the handlers as operators on the port's record because they call each other; each
  action applies the one the program enters by, with what the host does as a parameter. `inbuf` counts
  pieces of what the guest has yet to read: a message is a piece, and so is what a caller sends or an
  echo. With `MaxIn` of them the ring is 7/8 full and the port is `Deaf`: `scc_try_fill_readbuf` returns
  before it accepts a call, rings or receives.
- `Mockingboard` keeps times relative to now; `Byte` scales the registers' width down and every
  wrap with it. `program` says which timers the guest uses in a behaviour. `started` is a history
  variable, read only by properties.
- `Doc` lets any running oscillator end, on a zero byte or not, whenever sound is played. `orphaned`
  is a history variable: whether, since the last reset, oscillators were disabled of which one's
  interrupt stayed pending or several had one (see below). A failed check stops the emulation.
- `Adb` keeps the globals of `adb.c` in one record, `adb`. Each access to a register and each call from
  a host driver is an action. `keys_down` is the complement of `g_virtual_key_up`; queues of the mouse
  hold the newest entry first, as the arrays do. A *session* says which strokes, spots, pastes and
  commands may occur in one behaviour and how many steps it has; their order is free.
- `Iwm` writes a C function as an operator on the record of all variables, and `Call` is where
  functions that call each other meet. A position counts whole bits, and time the bits of a 5.25" disk.
  Decoding and encoding of sectors is exact, on sectors of fewer bytes. A *program* is a script: a
  sequence of steps, each the accesses that nothing interrupts; between them, the user and the host
  eject, insert, lock, reset, change the speed or fail a write. A mark the code has not found again is
  `Unsure`. `junk` is the value of `did_write`, which `iwm_flush_disk_to_unix` reads uninitialised.

## Runs

| Run | Instance | What it shows |
|---|---|---|
| `event_list` | pool of 3 nodes, one event with two arguments, times to 4 | the list is sorted; only an add brings the stop time forward, and says so; the links implement `EventQueue` |
| `cpu` | every opcode at the ends of pages and banks, then a return or a pull; sums at the ends of their ranges; three instructions that change modes | `size_c.h` agrees with the instructions; returns and pulls undo calls and pushes; sums and flags are those of arithmetic |
| `main_loop` | one device, frame of 4, instructions of 2, delays of -1, 2 and 5, refused beyond 8 | no instruction starts with an event overdue, whether it was filed ahead, past the frame's end or already due; an engine that goes on has the right width and no halt to heed; frames and interrupts under fairness |
| `adb` | 14 sessions of 2 to 18 steps | interrupts have something behind them, no key stays down, characters arrive, the latch implements `KeyFifo`, the pointer catches up |
| `iwm` | 15 programs on drives of 10 quarter tracks, two sectors a track, one fault each | marks chain, clean tracks are on file, no half sector, what was written is saved, WOZ images read back, each nibble read once |
| `vgc_int` | 4 lines, 2 visible | lines, status, enables, scan-line event; every wanted line comes again |
| `scan_on_its_line` | 4 lines, longer instruction | violation: a line filed in the last instruction of a frame comes early |
| `memory_map` | ROM 03, one breakpoint, 3 switches away from reset | fixups equal a rebuild, marks survive, display writes reach the screen |
| `scc` | 2 channels, ring of 2, queue of 2 | lines, event flags, where characters can stall, characters arrive |
| `scc_modem` | one port, modes serial/modem/outgoing, two pieces unread | sockets and mode agree; ringing ends unless the guest leaves its ring full |
| `mockingboard` | 4-count registers, look at least every 4 us; both timers of one chip, or timer 1 of both | one event for the earliest expiry of each timer 1 and the timer 2 beside it, equality with a 6522 that counts each microsecond |
| `doc` | 4 oscillators: a pair and a third in use, the third disabled alone or with one of the pair | ranks, line and count; no end lost or left without its event |

Bounds and why they suffice.

- A list of three entries has a first, a middle and a last place to insert and a full pool.
- A frame of a few instructions has events before, inside and on both sides of its end.
- Two visible lines and two blank ones give a next line in this frame, in the next, and none.
- Two characters of ring and queue reach empty, one and full.
- Two unread pieces of `scc_modem` reach an empty ring, one that still takes input and a full one.
- Three oscillators of `doc` are a pair that interacts and another to compete with for rank.
- With `Byte = 2` a 16-bit count has four values, so a stretch of four microseconds covers several
  periods and every wrap. `Programs` are two: both timers of a chip with counts that differ, whose times
  are merged, and timer 1 of both chips, which share the event.
- Three switches away from the reset's values reach every pair of interacting switches along with a
  third; a table entry is decided by at most 80STORE, HIRES, PAGE2, one of RAMRD and RAMWRT, and two
  inhibit bits, so some combinations of four and more remain outside the run; the theorems of
  `MemoryMapProofs` cover them.
- An instruction's operands are at most three bytes, so starts at the last three of a page meet
  every way of cutting it; stack pointers at both ends of page 1 and of bank 0 meet every wrap. Sums
  take operands on both sides of each digit's, sign's and carry's threshold.
- The sessions of `adb` each concern one part (typing with shortcuts, a full buffer with a paste, hot
  keys and windows, foreign layouts, commands to a polled keyboard, the mouse) and allow what can
  disturb it. One of 18 steps fills the buffer of eight keys and overruns it.
- Two sectors on a track give a write that ends before the ring's end and one that crosses it; ten
  quarter tracks are two whole tracks, those between and the arm's stop. The programs save sectors,
  listen, copy between drives, write between tracks and while the arm moves, and use the 3.5" drive's
  functions; one fault may fall between any two of their steps. Disks go in only while no write is
  active, and only those of the drive's size.

States found: 1,612 (`iwm`, each many accesses long), 14,928 (`memory_map`), 75,721 (`doc`), 88,234
(`event_list`), 132,220 (`scc`), 146,404 (`adb`), 183,744 (`main_loop`), 213,680 (`cpu`), 299,240
(`vgc_int`), 604,528 (`scc_modem`), 629,897 (`mockingboard`). `iwm` and `adb` spend their time in decoding
and in the choice of strokes.

Deadlock is checked in all runs but `doc`, where a failed consistency check stops the emulator, `cpu`,
which stops at STP and when its instructions are used up, and `adb` and `iwm`, whose sessions and
programs end.

Fairness. `MainLoop`: weak fairness of the host thread's next step (`run_16ms` is called for ever and
nothing blocks), and handlers do not file events that are already due for ever (strong fairness of
`HandlerAhead`: `do_scan_int` does so only for a later line, the SCC, DOC and Mockingboard handlers end
with events ahead of the time they are given); the user is not fair. `VgcInt`: the same. `Scc`: each queued event is handled, which
is what `MainLoop` shows of the event list. `SccModem`: frames alternate for ever, each with its
`scc_update`, and the two seconds between rings pass; nothing is assumed of the guest's reading, so the
property leaves out a port that is deaf (see below). `Adb`: a program goes on reading `$C024` while
`$C027` announces data, as the property is about such a program; nothing is assumed of the user. No
other assumption is made of the guest, a caller or the network.

Refinements. `EventList!ImplementsQueue` maps the chain of nodes to `EventQueue`'s sequence: every
rewriting of links is one of its steps or a stutter; the run checks it and `ListImplementsQueue` proves
it. `Adb!ImplementsKeyFifo`, proved by `LatchIsKeyFifo`, maps the key buffer and `$C000` to `KeyFifo`:
keys are shown in the order typed, each until it is taken, and only keys that do not fit are lost;
repeats, pastes, tosses, resets and the panel are its steps too.

## Proofs

`EventListProofs`, for every pool size and set of events. First the queue: `QueueTypeCorrect`,
`QueueStaysSorted`, `StopTimeFollowsHead`. An insertion slot has only earlier entries before it and
none after it, so insertion keeps order; removal is a subsequence. Then the links: `NoNodeLost`,
`ListImplementsQueue`, `ListStaysSorted`, `ListStopFollowsHead`. The inductive invariant `PoolInv` adds
to the types that every node is on exactly one of the pending and the free chain and that both end
(`PoolWhole`): without it a rewritten link could close a cycle, and the chain would be no sequence. A
chain is the sequence whose links it has (`ChainOfLinked`); each rewriting of links cuts or joins such
sequences, so each action of the list is the queue's action of that name on the entries. The last two
theorems are those of the queue, brought over by the refinement.

`MainLoopProofs`: `LoopTypeCorrect`, `EventsAreOnTime`, `EngineAlwaysHeeds`. The inductive invariant
`LoopInv` has four parts: types; `QueueOK`, that the list is in time order, holds each event once and
the frame event at the frame's end; `TimeInv`, that the frame event is one instruction late at most, so
that a frame ends before the next could; and `EngineInv`, that an engine going on stops just past the
first event or after one instruction, and has met no reason to leave. An event can be filed already due,
so its lateness is no bound on its time: what holds is that no instruction starts with an event overdue.
The exception is the debugger's step, which runs an instruction before what a frame left due is handled.
Assumed is that an instruction is shorter than a frame, that two frames are within the reach of
`add_event_entry`, and that the pool has room for each device's event and the frame's; delays are any
integers. `EngineAlwaysHeeds` has the hypothesis `HaltOnIrq = FALSE` (the
debugger's setting is off, as it is unless the user asks): with it on, a halt asked for in `take_irq`
is undone (see below), and the property does not hold.

`VgcIntProofs`: `VgcLinesExact`, `MegaLinesExplained`, `ScanEventStaysBooked`, `OnlyWantedScans`, for
every frame height, set of lines, instruction length. The inductive invariant is
`TypeOK /\ VgcIrqExact /\ MegaIrqExplained /\ ScanEventBooked`: none is inductive alone, since the
handlers compute a line from status and enable, and a scan-line event may only fire when the status
bit is off. That a fired event's SCB is the one looked up rests on events being popped in order
(`FirstDueFirst`).

`SerialProofs`, the modem: `PortTypeCorrect`, `SocketsAgree`, for every number of rings and set of modes.
An action is a chain of functions on the port's record that call each other, most of which meet a record
that breaks `SocketsMatch` or leave one that does. `Fits` is what holds all through a handler, one lemma
per function says what it does to the fields `Fits` speaks of, and `Held` adds that the port's mode is the
configured one. The inductive invariant `Agreed` is `Held` of the port, and stronger than `SocketsMatch`:
it says that a port in command mode is a modem, without which `scc_socket_close` would leave a port of
another kind with a mode it cannot have.

`SerialProofs`, the chip: `SccTypeCorrect`, `LinesDelivered`, `EventsStayBooked`, `OnlyResetsStall`, for
every buffer and queue size. The inductive invariant `ChipInv` is `TypeOK /\ IrqDelivered /\ EventBooked`.
Each handler is a chain of register changes followed by the evaluation of both channels' lines; one
lemma per link says what it does to lines and flags.

`AdbProofs`: `InterruptsExplained`, `LatchIsKeyFifo`, `EveryCharArrives`, `KeysComeUp`, for every ROM
and every session whose commands are bytes and whose keys have codes below 128
(`adb_physical_key_update` halts on others).

- *Interrupts.* The inductive invariant `BusInv` adds to `IrqsExplained` that register 3 of the keyboard
  has the bit that lets it ask for service (`MayAsk`): only then is every key that is queued for a poll
  asked for. A Listen command rewrites that register and a reset sets it, so its value is part of the
  invariant. The program may poll, reset, flush and re-address the keyboard at any time, and the panel
  may toss keys. The controller's record has forty-eight fields of which eight matter (`BusFields`): an
  operator that writes none of them keeps the invariant (`BusKept`), and one lemma per operator says which
  it writes or that `BusInv` goes from its argument to its result. Recursion (`TossKeys`) is by induction
  on the number of keys.
- *The latch.* The theorem is a refinement, with the invariant `LatchInv`: at most seven keys wait, and
  each of them and of the pasted ones has its strobe. Without the bound a key could go to the buffer's
  last place while fewer wait for `KeyFifo`, and without the strobes a read would not be a `Take`. Every
  operator either keeps the six fields of the latch (`Keeps`) or takes one of `KeyFifo`'s steps, stated
  on the buffer (`Step`) and carried over to the sequence of waiting keys (`LatchSteps`). The panel's
  toss reads at most 20 keys off a buffer of seven and a paste buffer of any length, which the
  specification allows for by what is shown afterwards.
- *Characters.* `EveryCharArrives` adds what the table of keys has to be: every printable character is on
  it (`PrintableHasKey`), on a key that is neither remapped nor taken out (`PrintableKeys`); the first
  such key with the shift it takes gives the character back.
- *Keys that come up.* `NoKeyStuck` says nothing of the keys while some are held, so by itself it is far
  from inductive. `HeldInv` says that every key that is down is behind one the host holds, under the
  code that one went down with (`StandsFor`), that this code is the one noted for it, and that the
  modifiers' bits are those of their keys. Two host keys may stand for the same one, and a key may come
  up with another character than it went down with: its release takes up both what the noted code and
  what the new character stand for (`Releases`), which is all that it put down unless the code was
  remapped after it was noted. The property leaves that case out (`Steady`; see below). The shift put
  in a character's place is no modifier's while the key is handled (`ModsApart`). Everything else, from
  pastes to the panel's toss and the reset from the keyboard, leaves the keys down as they are (`Idle`).

`MemoryMapProofs`: `TableStaysRight`, `BreaksStayMarked`, `ScreenMissesNoWrite`, for every ROM version,
any number of switches and breakpoints. Each table entry has one value the registers give it
(`Target`). Every fixup either writes that value or leaves the entry (`Leaves`, one lemma per fixup); the
entries it leaves are those whose value the change does not touch (`Agree`, `TargetDepends`); and
`setup_pageinfo` writes the value of every slot (`SetupIs`). The inductive invariant adds to
`TypeOK` that each entry outside `unsettled` has its target and the marks of the breakpoints (`Correct`):
`TableMatches` by itself leaves the marks open, which a fixup wipes and `fixup_brks` sets again.

`MockingboardProofs`: `TimersTypeCorrect`, `ExpiriesAreBooked`, `CatchingUpIsCounting`, for every
width of the registers, set of accesses and length of instruction. The inductive invariant `MockInv`
adds to the types that at most one event is booked, and no later than the expiry of any started timer 1
that will interrupt or of the timer 2 beside one (`Books`, `Covered`), that a timer started to run free never counts as expired (`FreeRuns`), and that nothing is
started between a reset, which skews the time of the last update, and the next update. That catching
up equals counting is shown for one timer and one microsecond more, and holds for any stretch of time
by induction.

`DocProofs`: `DocKeepsInv`, `RanksAreExact`, `EndsAreAwaited`, `EndsInterrupt`, for any number of
oscillators. The inductive invariant `DocInv` says, while the emulation runs, that line and count are
those of the pending interrupts and no halted oscillator runs, and, until oscillators are disabled with
interrupts pending, that ranks are those of a queue of enabled oscillators. Handlers nest: a write
catches up with the sound, which ends oscillators, which start partners, each of which touches ranks.
So the proof has three relations, each closed under composition: what playing may do (`Plays`), what a
write, an event or a read of 0xe0 may do to all other oscillators (`Others`), and what halting many may
do (`Goes`). Each is shown for one oscillator and then for a whole pass.

Induction. The library's induction theorems take an operator as parameter, which the installed provers
cannot instantiate. `NatSetInduction` states induction with a set instead and is proved from the
well-foundedness of strict inclusion on finite sets; `Iterates`, `StepsExist` and their like use it to
show that a recursive function satisfies its equation. Recursion over numbers and links is so within
reach where the model writes it as a function.

The proofs use the named assumptions on constants in the modules, which TLC evaluates on every run.

Only model-checked: everything under fairness (`FramesGoOn`, `IrqTaken`, `ScanLineComes`, `RxComes`,
`RingEnds`, `PointerCatchesUp`), which the proof system does not reach; and all properties of `Cpu` and
`Iwm`, which rest on recursive operators and on bitwise ones, which a proved module may not use.

## Where code and text, or code and code, disagree

With a run: `scan_on_its_line` (`moremem.c:2210`), see above.

Met while modelling, and part of the models:

- *Main loop.* RET_PSR replaces RET_IRQ (`engine_c.c:106`): when one instruction unmasks interrupts and
  changes width, a waiting interrupt is only taken after the next event, though RET_IRQ is there for a
  "fast IRQ response" (`sim65816.c:1866`). `take_irq` steps over "the WAI" whenever one was pending
  (`sim65816.c:1333`), also when the debugger's go has moved to another instruction. The message of STP
  says that only RESET continues (`:1954`), yet after a go the next interrupt does. The ADB's reset
  command (`adb.c:905`) calls `do_reset` inside an instruction, whose end overwrites the registers the
  reset set. What HALT_ON_IRQ asks for (`:1376`) is undone when the stop time is set (`:1204`).
- *Memory map.* A change of the SHR inhibit bit does not redo the odd banks (`moremem.c:808`), and a
  change of the text-page-2 setting redoes nothing until a reset: the properties except these slots
  (`unsettled`). A reset while the panel is shown keeps `g_cur_a2_stat`, so its PAGE2 and that of
  the state register differ, and a later `$C054` is ignored. In banks E0 and E1, RDROM with LCBANK1
  reads the `$D000` page and writes the `$C000` page (`:588`).
- *SCC.* `add_irq` returns when any bit of a mask is up (`sim65816.c:1308`), so one of two wants waits.
  A channel reset that empties a full queue leaves the characters behind it without an event (`scc.c:189`);
  "reset highest" clears the receive want while characters wait (`:790`); enabling receive interrupts
  raises none for waiting characters (`:818`); channel B never gets baud-rate events (`:1062`).
- *Modem.* A send that would block hangs up (`scc_socket_driver.c:857`); `+++` progress outlives the
  call (`:107`); a short DTR drop between frames is missed; a port that failed to open is not tried
  again when its address changes (`scc.c:59`); output unsent at a disconnect is read as commands. While
  the guest leaves its receive ring 7/8 full, `scc_try_fill_readbuf` returns at once (`scc.c:535`): a
  call rings on, or is not noticed, and so is the loss of the line.
- *Mockingboard.* Timer 2's time only lowers that of the same chip's timer 1 (`mockingboard.c:235`, and
  `:239` tests timer 1's alone). So a timer 2 alone, or one whose timer 1 has its flag up, has its
  interrupt disabled or runs out in this very update, books no event, and its interrupt comes when the
  guest next looks; `ExpiryBooked` speaks of a timer 2 beside a timer 1 that will interrupt. A one-shot timer that expired and is then set to run free books no event for its
  next expiry (`mockingboard.c:155`); a reset stores cycles where microseconds belong (`:63`). Properties
  speak of timers started in the mode they are in.
- *DOC.* An oscillator that ends inside the `sound_play` of its own control write is written as running
  and plays no more (`doc.c:674`); one whose partner starts it there is started twice and halts
  (`:666`); a reset with interrupts pending halts. 0xe1 lowers the number of enabled oscillators before
  it halts those beyond (`:965`), and the loop that closes the ranks up visits only enabled ones
  (`:388`): when the first in rank goes while another to be halted is ranked behind it, 0xe0 says "no
  interrupt" with that one pending, and the check at `:427` halts; an oscillator that had halted already
  keeps its interrupt, whose rank no longer moves up. The properties on ranks end there (`orphaned`).
- *ADB.* The mouse's queue exists "so that fast button changes don't get lost" (`adb.c:1595`); while six
  wait the next overwrites the last (`:1413`). The code a key goes down with is noted for its release
  before an arrow, a function key, swapped command and option or the keypad joystick are remapped
  (`:2015`): such a key that comes up with another character leaves the remapped one down. The keys 0x3a
  and 0x6e share the option bit, which goes when either comes up. An answer to a poll that takes two
  keys moves the others up by one place instead of two (`:635`): the first of the two is sent again, and
  the newest of the others is lost (`AfterTalk`); no property depends on it.
- *Disks.* An eject in the middle of a write leaves `iwm_write_end` a track of 0 bits, by which it divides
  (`iwm.c:1969`). The comment at `iwm.c:317` speaks of a check three times a second, but a track is only
  saved when the motor stops, the arm moves or the drive changes, and not after a reset, until the motor
  next runs. In `woz_reopen` the copy of the track map that is looked at is never changed, so "add a
  track every other one" adds each one. A locked WOZ image that is parsed again is rewritten unlocked.
  Locking a WOZ image, or unlocking it, writes to the file the checksum of the image in memory
  (`woz.c:70`), and that of a track is written by the same means: while other tracks are dirty the file
  has a checksum of bits it does not hold, and `woz_open` refuses such a file. It is right again after
  the last of them is saved, which is what `CleanMeansSaved` says of it.
  `iwm_flush_disk_to_unix` reads `did_write` before it is set. A write that a reset cuts off leaves marks
  that no one finds again. The distance test of `iwm525_update_head` is always true.

## Plan

1. Done: event list, main loop, video interrupts, memory map, SCC, modem, Mockingboard, DOC, 65816, ADB,
   IWM and WOZ.
2. SmartPort and Dynamic ProDOS (`smartport.c`, `dynapro.c`): the block map against an abstract set of
   files.
3. Clock, telnet options, paddles, decompressors: the first three as small state machines, the last as
   operators against a reference definition.
4. Composition: devices of `Scc` and `VgcInt` on `EventQueue`, to discharge their fairness.
5. Proofs left: those of `Cpu` and `Iwm`, whose bits and decoding would first be written as functions.

Not modelled, of the modelled parts: cycles of an instruction, what it does to registers of devices
(the devices' modules take any access), and logging; the event manager's copy of the pointer; parts of
a bit (a 512th), partitions, 2IMG and DiskCopy headers, compressed images and disks made from host
directories, printing, the parsing of a WOZ file's chunks, and the arm's stop for debugging
(`g_halt_arm_move`). Not planned: drawing, menus, host drivers. They keep little state across steps, or
are calls into the host.
