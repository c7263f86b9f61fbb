# LisaEmu: a TLA+ model of the emulator

These modules specify the parts of the Lisa emulator in which steps of several
actors meet: the devices behind the VIAs (hard disk, COPS), the diskette
controller, the run loop that executes the processor in bursts between timed
events, and the application around them: its emulation thread, its printer and its
main thread. Below them they specify the 68000 core itself, every instruction with
its exceptions and the bus errors the Lisa OS lives by. They are checked with TLC on
small instances. Proved with TLAPS for every instance are the safety properties of
the devices, of the application, of the run loop and of the input capture, the four
refinements of the devices' abstract specifications, and of the core the flags of its
adders and the three invariants of a program's run.

Source paths are relative to the repository; `LisaCore` stands for
`Sources/LisaCore`, `LisaShell` for `Sources/LisaShell`, `CMusashi` for
`Sources/CMusashi`.

## 1. Inventory

The emulated machine is single-threaded: the emulation thread calls
`Machine.run(until:)`, which executes the processor in bursts of up to 1024
cycles and, between two bursts, ticks the VIAs, sets the interrupt level and runs
the scheduled events that are due. Concurrency comes from three sides: the guest
software accesses device registers in any order within a burst; scheduled events
(acknowledgements, deliveries, completions, frames) fall between bursts; and the
shell's UI thread posts commands, keys, disks and resets through a mailbox.

| component | state | operations | talks to | correct when |
|---|---|---|---|---|
| Widget drive, image (`WidgetDrive`, `WidgetImage`) | handshake phase, strobe level, streams, accumulators, backing file | `portBWrite`, `portBInput`, `portAAccess`, completion event, attach, detach, reset | VIA1 (register 1/15, BSY, CA1), event queue, file | blocks written and read are the ones asked for, a status never lies, every handshake ends |
| COPS (`COPS`) | ready line, pending acknowledgements, input FIFO, byte on port, timers, clock, set sequence | command write, Port A/B reads, events, `postKey/postMouse/pressPowerButton`, reset | VIA2, event queue, power-off handler, shell | input is one stream in order, nothing stalls, commands execute in order, the clock reads back |
| Run loop (`Machine`, `M68K`) | cycles, event queue, VIA clock remainder, interrupt level, halted, power | `run(until:)`, `schedule`, `step`, `reset` | every device, the core | events in order and on time, interrupts seen, power-off and halt stop it |
| Video timing (`VideoTiming`) | pending, armed | frame event, VERT RESET / ENABLE | run loop | one frame timer |
| VIA6522 | timers, IFR, IER, port registers | read, write, tick | devices, run loop | flags follow timers and registers |
| Floppy (`FloppyController`, `DC42Image`) | shared RAM, interrupt status, pending go byte, image | go byte, `performExCmd`, insert, eject, completion events | run loop, shell | one completion per command, no data of another disk |
| Emulation controller (`EmulationController`, `Governor`, `FramePublisher`) | mailbox, running/paused/throttled, published status | post, drain, run a slice, publish | UI thread, machine | commands in order, the status shown is the machine's |
| Printer path (`SCC8530`, `PrinterPort`, `ImageWriterInterpreter`, `PrinterPipeline`, `PrintJobSpooler`) | register pointers, page, idle clock, open job | data write, tick, flush | guest, shell | every byte in one job, no page lost |
| Bus, MMU, I/O dispatch (`Bus`, `MMU`, `IODispatcher`) | segment registers, latches, fault tracking | access, translate, latch writes | processor, devices | the right device answers, faults are delivered once |
| PFG | Microwire shift state, baud configuration | `clockMicrowire`, chip select | SCC wiring | a command is decoded once |
| Input capture, `AppModel` | captured, forwarded keys, modifier tracker | handle event, release, resync | controller | no key stays pressed in the guest |
| Processor core (`CMusashi`: `m68kcpu.c/h`, `m68k_in.c`, the generated `m68kops.c`, `shim.c`) | registers, status register, the two stack pointers, interrupt level, saved registers | `m68k_execute`, an instruction, an exception, an interrupt, a bus error | bus, run loop, the guest's kernel | results and flags are exact, a faulted instruction can be run again, the supervisor is sealed, an interrupt goes where it should and comes back |
| 68881 and PMMU (`m68kfpu.c`, `m68kmmu.h`, `softfloat`), disassembler (`m68kdasm.c`) | | | | a 68000 runs none of it; text |
| Debugger (`lisadbg`, `Monitor`), `ROMImage`, views | | | | text I/O; no protocol state |

What is hard, with the line at which it bites, is the list `hazards` of
`PROJECT.json`: events of one transaction that fire in the next, flags software
clears behind a device's back, cycle counts that are stale within a burst, resets
and disk changes in mid-transfer, writes that fail half way, retries that are
carried out twice, the batches in which the shell's commands are drained, and, in
the core, the instruction that faults half way, the jump whose target is not in
memory, and the flags at the ends of a word's range.

## 2. Modules

| module | models | role |
|---|---|---|
| `WidgetDrive` | `WidgetDrive.swift`, `WidgetImage.swift`, IFR bit 1 of VIA1 | the drive under *any* host |
| `WidgetSystem` | the OS driver (external, from `WidgetDriveTests.swift` and docs/hardware-notes.md section 10) with `WidgetDrive` | composition |
| `BlockDevice` | - | abstract specification implemented by `WidgetSystem` |
| `COPS` | `COPS.swift`, IFR bit 1 of VIA2, the event drain after a power-off | COPS under *any* software and shell |
| `InputStream` | - | abstract specification implemented by `COPS` |
| `COPSSender` | the send routines of the boot ROM and of the OS (external, from the header of `COPS.swift` and `COPSTests.swift`) with `COPS` | composition |
| `ViaTimers` | timer 1 of `VIA6522.swift` | the timer as a record |
| `Machine` | `run(until:)`, `VideoTiming.swift`, the events of COPS, the processor as far as the loop sees it, with `ViaTimers` | the burst loop |
| `SonyGeometry`, `Floppy` | `FloppyController.swift` | the controller under *any* software, sectors and block numbers |
| `FloppySystem` | the Sony driver and its interrupt handler (external, from docs/hardware-notes.md section 9 and docs/macworks-plus-notes.md:214-222) with `Floppy` | composition |
| `Diskette` | - | abstract specification implemented by `FloppySystem` |
| `PrinterPath` | `ImageWriterInterpreter.swift`, `PrinterPipeline.swift`, `PrintJobSpooler.swift` | the printer under *any* stream of bytes |
| `Controller` | the thread of `EmulationController.swift`, `Governor.swift` | the emulation thread, on top of `PrinterPath` |
| `Shell` | `AppModel.swift`, `applicationWillTerminate`; a guest that prints (external) | composition: main thread, main queue, emulation thread, guest |
| `InputCapture` | `InputCapture.swift` under *any* user | keys, modifiers and button, from the host to the posts |
| `Words` | the macros of `m68kcpu.h` on words and flags | width as a parameter |
| `M68k` | `m68kcpu.h`, `m68kcpu.c`, `shim.c`, the fault path of `Bus.swift` | the machine as a record: registers, accesses, stacks, exceptions |
| `M68kStep` | what every handler of `m68kops.c` shares | operands, opcode sets |
| `M68kArith`, `M68kLogic`, `M68kShift`, `M68kMove`, `M68kFlow` | `m68k_in.c`, and the handlers generated from it in `m68kops.c` | the handlers, a family each |
| `M68kISA` | one turn of the loop of `m68k_execute` | any instruction from any of a set of machines |
| `M68kExecute` | `m68k_execute` in bursts, `m68ki_check_interrupts`, `m68ki_exception_bus_error` with the patch for the Lisa OS; the kernel (external, from docs/hardware-notes.md section 5) | composition: a program, its missing segments, interrupts |
| `WidgetDriveProofs`, `COPSProofs`, `FloppyProofs`, `ShellProofs`, `MachineProofs`, `InputCaptureProofs`, `M68kProofs`, `CoreProofs` | - | theorems |
| `MC*` | - | instances for TLC |

### WidgetDrive

A variable per stored property of the class, with the same name; `store` is the
file behind each image, `completions` the number of scheduled `raiseInterrupt`
events, `ifrCA1` the flag they raise. One action per entry point: `portBWrite`
(strobe edges), `writePORTA` (reply), `writeORA`/`readIRA` (register 1),
`Completion`, `Attach`, `Detach`, `Reset` (which, like `Machine.reset`, empties
the event queue first), and `ClearFlag` (software's write to IFR). The six command
bytes are three *words*, the write stream (tag, data) two, the read stream
(status, tag, data) three: a split in the wrong place or order is visible, the
532 bytes are not. `commitWrite` may find the file's write failing: the block is
then old, half written (`Torn`) or new, and the status must not say OK.

### WidgetSystem and BlockDevice

One action is one register access of the OS driver: clear the flag, wait for BSY,
strobe, compare the response, reply or refuse, send, wait for the interrupt,
drain. Its timers are far longer than the drive's delays, so `TimeOut` expires
only when nothing is coming. The application plugs disks and the machine is reset
between any two accesses. `BlockDevice` says what is promised above the driver:
one request at a time, a write changes its own block only and before its answer, a
failed request leaves the block old, torn or new, a read answered OK returns the
block. A disk pulled in mid-read may leave its reader with bus noise
(`ReadPulled`): the drive returns $FF, whose status byte the driver's mask rejects
in some positions only.

### COPS and InputStream

What a scheduled event will do is state: `acks` (a command per acknowledgement
pending), `inFlight` (the byte of the scheduled delivery), `timers` (re-assert
timers). Acknowledgements are a FIFO here; that the event queue makes them one is
`AcksAreFIFO` of `Machine`. Every other order of events is allowed. Bytes keep their
values, so that packets are as ambiguous as they are in the code ($80 is a marker
and a key code). `KeepLast` drops at storage the nibbles `finishSetSequence` drops
with `suffix(11)` at the end: only the last eleven are ever used. `power` has a
third value, `stopping`: the command that turned the power off was one event of a
drain, whose other events still run (`Machine.swift:218-228`). `InputStream` is
the promise: whole packets are appended, the oldest byte is taken, a reset leaves
its announcement.

### COPSSender

The routines differ in what they wait for. The boot ROM polls for the drop of the
ready line and then for its rise. COPSCMD rewrites the byte until a read right
after the write shows the line ready, waits a bounded time for the drop, and
returns without waiting for the rise. The handler takes a byte while the flag is
up; `DriverStart` clears the flag behind COPS's back.

### Machine

Times are relative to `Machine.cycles`, which advances only at the end of a burst:
an event caused by an instruction is scheduled from the start of its burst. A burst
ends at the target, at the next event or at the quantum (`boundedSlice`);
`EndBurst` advances the clock, ticks the VIAs and sets the interrupt level *before*
the events of the drain run; `AfterDrain` tests the power, the halt and the target.
A processor halted by a double fault runs to the end of its burst: the stop bit is
looked at when Musashi's execute function is entered, not between instructions.
The queue holds the frame event, COPS's acknowledgements and its byte delivery;
interrupt sources are COPS (level 2) and the frame (level 1).

A timer of a VIA is a record in `ViaTimers`: counter, latches, mode, whether it has
fired since it was loaded, and its flag. `access` is what software does to it by its
registers, `advance` what a tick of n clocks does. `EndBurst` ticks it with the cycles
of the burst divided down, `Reset` stops it. Beside it `clocked` is advanced a clock at
a time, with a phase of its own in place of `viaPhi2Remainder`. Software either uses the
devices or the timer (`Uses`): the two share only the cycles. Its interrupt is left
disabled.

### Floppy, FloppySystem and Diskette

A variable per cell of the window that matters: command, sub-command, address, one
word for data and tag, and the cells by which the controller answers. A go-byte is not carried out
when it is written: `decodes` holds the scheduled decodings, which read the cells
*then*, and `raises` the interrupts scheduled after it. `performRead`,
`performWrite`, `performUnclamp` and `rejectSubCommand` are the sub-commands with
all their error exits; what is written goes to `sessionOverlay`, never to the image,
and stays there until the next insertion (`ImportSession` puts an exported one back). `SonyGeometry` numbers the sectors
of the four zones, side by side or track by track. The cells the controller owns
(`DISKERR`, `DISKSTAT`, `DISKIN`, `DISKFLG`) are written by it only, although the
code stores a host's write to them too; a go-byte of zero is excluded
(section 6).

In `FloppySystem` the driver waits for an idle `DISKCMD`, stages its parameters
cell by cell, writes the go-byte and waits for its handler, which interrupts it
anywhere: it reads `DISKSTAT`, writes clristat, waits until it is taken and acts on
what it *read*. `Diskette` is the promise: a request takes effect once, on the
diskette in the drive at that moment, and the answer says what it did.

### PrinterPath, Controller and Shell

`PrinterPath` keeps of the printer what decides where a page and a job end: the
parser's state with its operand, line height and direction, the position on the
page, the page, the open job, and the idle clock. A page is the *set of the marks*
it holds, and marks are numbered as they are made, so that a lost, doubled or
displaced one is visible without a picture. Where on the page they are, styles and
densities, and ink that falls off the page are left out. `PrinterSpec` lets any
bytes, ticks and flushes happen.

`Controller` adds the thread's loop, one action per command of the mailbox and per
stage of an iteration (drain, commands, printer tick, idle branch or slice, status).
Times are ages, each up to the age after which nothing changes: the lag behind the
anchor of the pacing, the time since the last status, the silence on the wire. The
clock (`Elapse`) moves where the thread spends time, in its sleeps and its slices.
A slice reaches its target, or ends short of it with the machine halted or off; it
may publish frames. Commands that only reach a device are one command, `device`:
their effects are `Plug` of `WidgetSystem`, `InsertByHand` and `EjectByHand` of
`FloppySystem`, and the posts of `COPS`. `EndSlice` does not model the overshoot of
a burst, which is far below a slice.

`Shell` adds the main thread: menu actions (each posts one command, `reset` two in
two steps), blocks of the main queue in their order, and quitting, where the main
thread blocks until the thread has ended and runs no block any more. The guest
sends a script of whole commands byte by byte; a reset of the machine cuts it off.
The switch `printerConnected`, the print panel, disk menus and drawing are left out.

### InputCapture

The host delivers a key, a change of the modifiers or the button to the class while its
window has the focus and nothing otherwise; `held` is the keyboard, `down` what the last
post of each keycap said. An action is an event and the whole handler of it. A key may go
up in any order with Command and with the focus, so that the down of a key can be
reserved for the menu and its up not, or the reverse. A modifier's event carries all the
bits; each that differs from the last event is posted with the keycap of the key that
changed. Two histories say what the code cannot know: `clean`, that no modifier was on
when the window got the focus, and `missed`, the keys that went up elsewhere (section 6
has what happens to both).

### Words, M68k, M68kStep and the handlers

The core has no variables in `M68k`: a machine is a record (registers, status
register, banks, memory, the set of pages present, the fault) and a handler an
operator from the machine after the opcode fetch to the machine it leaves. In C a
faulting access leaves the instruction by `longjmp`. Here it sets the field `flt`;
every later primitive leaves a faulted machine as it is, so exactly what the
handler had changed before stays changed, and `Settle` does what the code at the
landing place does (restore the registers of `REG_DA_SAVE`, push the frame, with
the patched instruction word and PC of `m68ki_exception_bus_error`). The order of
a handler's accesses, register updates and flag computations is therefore part of
the model: it decides what a restart finds.

An instruction is a record: its form, size, operands and extension words; `Encode`
gives the opcode word where a value of it matters (what the frame holds, what the
OS reads back). Code is not in the memory of the model: an action chooses the
instruction and fetching costs only the access, which may fault. A definition
covers the generated functions of `m68kops.c` of its group (one per addressing
mode), which differ in the operand macros only; the operand record and the
operators that form its address, read and write it are those macros. The
opcodes of later processors are modelled as what a 68000 does with them: illegal,
line A, line F.

Widths are parameters. `ByteBits` is 8 in the machine and every other width is
derived from it (word, long, nibble, sign bit, the bit of a carry), as are the
constants of decimal correction from `Ten`. TLC runs it with narrow bytes; the
proofs leave it open.

### M68kISA

`M68kISA` runs one instruction of any family from each machine of `Starts`: user and
supervisor, stack pointers odd and even, pages missing under an operand, a stack or
the second word of either. Its properties are the core's contract, none of them a
flag formula repeated: `ArithmeticIsExact` compares results and flags with
arithmetic on the integers, `DecimalIsDecimal` with decimal numbers,
`ShiftsIterate` with as many shifts by one; `RestartIsTransparent` runs a faulted
instruction again with the page present and compares it with an undisturbed run;
`SupervisorIsSealed` says which instructions may leave user mode and that the
user's stack pointer survives; `ReturnsUnwind` that what an exception, a call or a
link pushes, the matching return takes.

### M68kExecute

The program calls routines through every form of jump the patch knows, in segments
that come and go. The kernel is external: the table of docs/hardware-notes.md
(section 5, lines 870-891), which the patch is written against, says which word and
distance it expects for each form; its bus-error handler brings the segment in, backs
the PC up and returns, its interrupt handler returns. Both are one step; their RTE is
executed by the model's core. Interrupts are looked at where a burst begins and where
an RTE loads the status register. `UserSeesItsProgram` compares the user's
registers and stack with those of a run in which everything is in memory. What the
kernel and the program must be for that is in two assumptions (`KernelAssumption`,
`ProgramAssumption`, section 5), which the proofs use and TLC evaluates.

## 3. Runs

| run | states | what it asks |
|---|---|---|
| `widget_system` | driver and drive, reads, writes, a format command, valid, invalid and geometry blocks | truthful statuses and streams, refinement of `BlockDevice`, every request answered, recovery by one refusal |
| `cops_senders` | both routines send a set sequence, a read and a power-off, with a wipe and a reset | order of commands, clock read back, ready line and input never stalled, refinement of `InputStream`, every byte arrives |
| `machine` | bursts of 5 cycles, instructions of 1 or 2, a timer of two bits | order and time of events, timers that count every cycle, visibility of interrupts, prompt power-off |
| `floppy_system` | driver, handler and controller; two diskettes swapped by hand, a reset, six requests | one command at a time, order of sectors, refinement of `Diskette`, every request answered |
| `shell` | two user commands; one with two frames; prints with and without one | jobs whole, in order and handed over; pacing; menu, status, frames; quitting |
| `isa` | every instruction family from machines in either mode with pages missing, bytes of 6 bits | exact results and flags, transparent restarts, a sealed supervisor, returns that unwind |
| `core` | a program of jumps through gates, a segment swapped out, two interrupts, bursts of up to two instructions | the program runs as if nothing had been missing, every interrupt is served, the program ends |
| `input` | two keys, one of them of a menu shortcut, three modifiers, the button, the focus | the guest's modifiers are the user's, no key or button stays pressed |
| `widget_reject`, `cops_os`, `floppy_insert`, `print_quit` | the instances above | disagreements, section 6 |

The type invariants and the structural invariants of the devices (`TypeOK` of
`WidgetDrive`, `COPS`, `Floppy` and `PrinterPath`, `PhaseAgreement`,
`OnlyTheNamedBlockChanges`, `FlagFollowsByte`, `LineTellsStatus`, `CellsShowDisk`)
are proved for every instance (section 5) and no longer take a run's time. Sizes: `cops_senders` has about 540,000
states, `machine` 940,000, `shell` 378,000, `isa` 184,000, `floppy_system` 154,000,
`core` 43,000; every run ends within three minutes on two workers.

Why the bounds suffice. *Widget*: words 0..2 are at once command codes, block
numbers, contents and statuses, so a mistaken role cannot hide behind distinct
values; block 1 is just out of range, block 2 the geometry block; one completion
event may be left over from an abandoned transaction (two in the system, where a
new one may be added to a stale one). *COPS*: three queued bytes hold a packet
and a byte of another; two acknowledgements are a write made while another is
pending; two timers are an old and a new one; a clock of one selector and one pair
has both kinds of nibbles, and the set sequence is one nibble longer than it.
*Senders*: queue of six, because a clock reply, the announcement and a key may be
waiting together; one wipe and one reset may fall anywhere (two resets in the
violation run). *Machine*: the constants keep the order of the code's (delivery
300 < acknowledgement 400 < burst 1024 < frame) and the odd lengths let an event
fall on, just before and just behind an instruction boundary. `MaxAcks` bounds the
commands written and not carried out. A byte of the timer has two values and a clock is
two cycles, so a burst holds up to three clocks, several underflows of a timer of the
shortest period, and bursts that end in the middle of a clock. *Input*: a key of a menu
shortcut and one that is not; Shift and Command are the modifiers that are in a
shortcut and are not, the lock one that stays on without being held. *Floppy*: a single- and a double-sided
diskette of full size; the addresses are the last sector of the first track, a
sector its zone does not have and the first one of the second side, which only one
of them has. Two interrupts scheduled are a completion and an attention; two swaps
exchange the diskette of a request under way; one reset may fall anywhere. *Shell*:
`Scenarios` says what the user, the guest and the frames may do together; the page
is shorter than a line feed, so that every line feed ejects; the idle window, the
status interval and the catch-up ceiling are one unit of the clock, each an age that
is either reached or not; `MaxBlocks` lets the main thread fall behind by one block
before the clock waits for it (blocks dispatched within one iteration come on top).
*Core*: bytes of six bits are the narrowest in which a nibble (three bits), a word
and a long keep their relations: a decimal digit (base six) carries from one nibble to the
next, a shift count reaches past the width, and a carry and an overflow occur with and
without each other. The operands are the values around 0, the sign bit and the
top. One instruction (`MaxSteps`) from every start says all the properties of `isa`
ask; sequences are the business of `core`, where bursts of one or two instructions
let an interrupt fall on either side of a jump and of the fetch behind it, a second
interrupt falls into the handler of the first or of a fault, and one swap takes a segment
out between two uses.

Deadlock is checked everywhere except in `isa`, whose machine stops after its step, in the sender runs, where a powered-off
machine with its resets used up really stops, in the floppy runs, where a driver
that is free with nothing more to be swapped waits for a request, and in the shell
runs, where the process ends.

## 4. Fairness

`WidgetSystem`: weak fairness of the driver's steps (the processor executes) and of
`Completion` (the run loop runs every due event). No fairness on plugging, resets,
requests or failures. `COPSSender`: weak fairness of the scheduled events (`Carry`,
`Delivery`, `Timer`: the drain of the run loop), of the interrupt handler (level 2,
above the level-1 sources and the senders' loops) and of the running routine.
Nothing else is fair: posts, wipes and resets need not happen. `FloppySystem`: weak
fairness of the two scheduled events (`Decode`, `Raise`), of the driver's steps and
of its handler; none of swaps, resets or submissions. `EveryRequestIsAnswered`
excepts the time between a media-change attention and the next reset, because of
`floppy_insert`. `Shell`: weak fairness of the emulation thread and of the main
thread's blocks (the host schedules both), strong fairness of the clock, which
moves in the thread's sleeps and slices only and is disabled in between. The user,
the guest and the frames owe nothing; a paused machine may stay paused.
`M68kExecute`: the processor executes whenever it can, for the loop that calls it
goes on; this is weak fairness of `Processor`, written as `[]<>Stopped \/
[]<><<Processor>>_vars` with `Stopped` the negation of its enabling condition.
Interrupts need not be raised and segments need not be swapped. `Machine` and
`InputCapture` state none: their properties are invariants.

## 5. Theorems

Eight modules prove, from the assumptions on the constants only, every safety
property the runs check of the devices and their drivers, the printer, the application,
the run loop and the input capture, and, of the core, the adders and the three invariants
of a program's run. What the assumptions demand is named in the modules (`WidgetAssumption`, `SystemAssumption`,
`FloppySystemAssumption`, ...); they type the constants and keep the values that stand
for "none" apart, and TLC evaluates each of them.

`WidgetDriveProofs`. `TypeOK` is inductive; `PhaseAgreement` (stream index,
accumulators, response code and image agree with the phase) is inductive with it,
and gives `StatusNeverLies` and `StreamTellsTruth`: while a post-write status of
OK is on offer the block named holds the words received, because nothing changes
`store` without leaving the phase. `OnlyTheNamedBlockChanges` is an action property
from `TypeOK` and `PhaseAgreement`: the only step that writes is the last word of a
write stream, and the block was checked against the attached image.
With the OS driver at the other end (`SystemImplementsDrive`: it is one of the hosts the
drive was specified for) the inductive invariant is `Together`, which says for each
place of the driver in which phase the drive can be and what both believe of the stream:
how many words were sent and drained, which command they belong to, and whether a
completion is still to come. Neither half is inductive alone, since every wait of the
driver is for a value that the other half sets. From it follow that a refusal rewinds the
drive (`OneRefusalResynchronises`), and step by step the refinement of `BlockDevice`: the
write takes effect when the drive takes the last word, a request fails or succeeds when
the driver returns.

`COPSProofs`. The inductive invariant is the conjunction of `TypeOK`,
`FlagFollowsByte`, `NeverStalled` and `LowLineWillRise`. None of the three is
inductive alone: that a delivery does not overwrite a byte needs that none is on
the port while one is in flight (`NeverStalled`), and that is kept only because
`scheduleDeliveryIfIdle` is called after each of enqueue, read and reset.
`InputIsAStream` proves the refinement: initial states map to initial states, and
every step is an append of a whole packet, a take, a reset or a stutter.

With the senders (`SenderImplementsCOPS`): they write commands and nothing else, and only while the
machine runs, so every step of the composition is one of COPS or
leaves it alone, and the theorems above carry over. What the boot ROM's
routine sends is carried out once and in order: while it
waits for the line at most one command is pending, and that is the one it sent.
COPSCMD repeats its writes, and each is carried out; `CommandsExecuteInOrder` says that
what is carried out is what was sent, once repetitions of a byte next to each other are
taken as one. Its invariant (`CmdOK`) compares the commands carried out or pending with
those sent by an alignment: both are walked from end to end, each going on by one place or
staying, and are always at the same byte (`SameButRepeats`). That aligned sequences merge to
the same one is shown by induction over the walk (`AlignedMerge`). `PolledSetReadsBack` holds for every program that sets the
clock once and entirely (`SetsTheClock`, which TLC evaluates on the program of the
runs): since the ROM has each command carried out once, the number of those carried out says which
nibbles COPS has kept (`ClockOfRom`).

`FloppyProofs`. The inductive invariant of the controller is `TypeOK`, `LineTellsStatus`,
`OneCommandAtATime` and `CellsShowDisk` together, under any writes to the window:
that a decoding finds the controller busy needs the agreement of the flag with the
scheduled decodings, and that no block beyond the image is stored needs
`blockNumber` and the type of the session. `SectorsInOrder` is arithmetic: the
sectors before a track are those of the tracks before it (`TrackFollows`), so the
number of the next sector on the disk is the next number. With the driver and its
handler, `Serv` says who owns `DISKCMD`: a go-byte on its way is the request's while the
request is not performed, and otherwise the handler's clristat or the enable; and until it
is decoded the window holds what the driver staged. So the decoding of the request's
go-byte, and no other step, is the effect `Diskette` promises, and the handler that then
finds the completion answers with it (`ImplementsDisketteHolds`). That a write changes one
sector and no other is `SectorsDiffer`: two sectors of a disk never have one number,
because a track ends before the next begins (`TracksApart`).

`ShellProofs`. Whatever a byte does to the head of the printer, it makes a mark, ejects
the page or leaves the paper alone (`FeedEffects`); the invariants about the paper need no
more of the parser. `NothingPrintedIsLost` is inductive with the types, because a
new mark is later than those of every page, and an ejected page or a closed job
later than those before it; `OutputIsArmed` follows step by step. The stream is
arbitrary, so the theorems also hold for one cut in two by an idle close. Every step of
the user, the guest, the two threads and the queue is a
step of `PrinterSpec` or leaves the printer alone, so both hold in the application.
`JobsEndInSilence` and `PacedByTheClock` add
the thread's loop: the age of the last byte and the lag behind the anchor are
measured by the same clock that the tick and the slice look at. `MenuIsTrue` rests on
`Shows`: the running state the thread will have when it has carried out what is in the
mailbox and in the batch it drained (`EndsUp`: the last start, pause or reset decides) is the one
the menu shows, at every place of the thread between a drain and its last command.

`MachineProofs`. `PowerOffIsPrompt` needs only where the loop is; `InterruptIsVisible`
needs that a burst begins with the level set at the end of the one before it, and
that an event falls between the two. `AcksAreFIFO` and `FramesOnTime` share the
inductive invariant `Timely`: the queue is sorted by time, an acknowledgement written later
is due later or stands behind, there is one frame event, and how far each event can
be overdue at each place of the loop (not at all where a burst begins, by less than an
instruction where it ends). `TimersCountEveryCycle` needs two facts about `ViaTimers`: n
clocks at once (`advance`, which jumps from underflow to underflow) are n clocks one
by one, and the remainder of the division of the cycles is the phase of the timer that
sees every cycle.

`InputCaptureProofs`. `Known` relates what the class remembers to what it has posted
and to what the user holds: without the focus it believes in no modifier, a letter that
is down in the guest is held and remembered as forwarded, or was missed, and the button
is down only while captured.

`M68kProofs`. The carry and overflow formulas of `m68kcpu.h` say what a programmer
reads in them, at every width: with h half the number of values a sign bit says
x >= h, and each formula becomes linear arithmetic about a symbolic h. So the adders of
the real machine, whose bytes have eight bits, are covered where TLC's have
six. `PowersAssumption` says what is needed of the powers of two (they are positive,
and each is twice the one before). `ChainIsExact` composes ADD and ADDX into a sum of two words with the Z
of the whole.

It also holds the lemmas about the machine the next module rests on: what `BusAddress`,
`Mask` and the stacks do with addresses, what `Store` leaves alone and `Load` reads back
over two and four bytes, what a change of S does to the two stack pointers, and what
a bus error, an interrupt and RTE do to a supervisor's stack that is in memory.

`CoreProofs`. `UserSeesItsProgram`, `KernelStackIsEmpty` and `FaultsAreRecoverable`, for
every program, kernel, set of segments, burst and width that two named assumptions
of `M68kExecute` admit. `KernelAssumption`: the supervisor's stack is in memory, even, and has
room for the frame of a bus error and of an interrupt of every level; the vectors are in
read-only bytes that stay; the kernel's entries are told apart; segments are whole words; and the
program's first instruction is in memory, or the kernel has just returned to it (otherwise
the first fetch faults with a `REG_IR` that no jump left there, which the OS has no row for).
`ProgramAssumption` speaks of the undisturbed run only: each of its instructions lies
in one segment, its operands are aligned and live, data that may be missing is probed by a
TST first, and it leaves a segment by a form of jump in the table. TLC evaluates both on
the instance of `core`.

The inductive invariant (`IInv`) is that the machine is *somewhere* (`Somewhere`): at a point
n of the undisturbed run, or in the kernel on its way back to one. At a point (`User`): the
same registers, condition codes, PC, data and live stack, an empty supervisor's
stack, no segment missing that the program has probed, and if the next fetch is going to
fault, `Reaches` says that the instruction behind it was an RTE or a gate, and then
`Rewinds` says that what lived before the gate is still there, for it will run again. In the kernel
(`Kernel`): d exceptions deep. The first frame is a bus error's or an interrupt's and holds the
program's status and PC; if it is a bus error's that is not handled yet, `Told` says that the
word and the address in it give a form of the table whose distance, subtracted by the kernel,
resumes the program at point n. Each further frame is an interrupt's, of a higher level than what
it preempted, and returns to an entry of the kernel (`FramesOf`); the mask bounds the depth
(`Fits`, `Nested`). None of the
three invariants is inductive alone, and none without the depth: an interrupt may be taken
right after an RTE, before the next fetch, and preempts what that RTE returned to.

The step of the program (`UserTurn`) compares two runs of one instruction,
with everything in memory and with segments missing and dead bytes that differ. `Follows`
is the relation, a congruence of every operation the seven handlers are built from
(`FollowsExecute`), so nothing is said of a handler twice. Where the target or an operand is missing
there are three faults: of the fetch behind an RTE (`ReturnFaults`), of the fetch behind a gate, where the
frame undoes the jump (`GateFaults`: the machine in the handler is at point n - 1), and of
a TST's operand (`ProbeFaults`). The kernel's step (`RecoveredIs`) and its RTE
(`ReturnTurn`) take the frames off again. That the undisturbed run has the value its recursive
definition says is shown by the induction below (`RunsExist`, `IdealIs`).

The prover cannot use the library's induction theorems, which take a predicate as a
parameter. Where a recursive function had to be followed (the clocks of a timer, the
merging of repetitions, the undisturbed run) the induction is over a *set* of numbers instead: if the set of
counterexamples is not empty it has a least element (`WFMin` of the well-founded order of
the naturals), which a lemma stated about sets excludes.

Only model-checked: the liveness properties (`EveryRequestIsAnswered` of both drivers,
`EveryByteArrives`, `EveryInterruptIsServed`, `ProgramFinishes`, and `StopIsShown`,
`EveryPrintIsHandedOver` and `QuitIsJoined` of `Shell`), because liveness under
fairness is beyond the prover; and the action properties of `isa`, because `M68kISA`
extends `M68kLogic`, whose AND, OR and EOR are bitwise operators of which the prover has no theory,
and counts places and bytes with recursive ones. `M68kExecute` reaches neither: its
program moves, adds, tests and jumps.

## 6. Disagreements found

- `widget_reject`: `resetTransaction` forgets `rejectNext`. A transaction dropped
  after an unsupported command was decoded leaves the flag, and the next valid
  command is refused with a fatal status.
- `cops_os`: every write to the command port is acknowledged and carried out,
  also the rewrites of COPSCMD's Phase A, so nibbles of a clock set by the OS
  may be stored twice.
- `floppy_insert`: clristat is decoded 2000 cycles after it was written and clears
  whatever `DISKSTAT` holds then. The attention of a diskette inserted between the
  handler's look and that moment is cleared unseen, and the diskette not noticed.
- `print_quit`: at quit a print is flushed "so a print in flight at quit isn't silently
  lost" (`EmulationController.swift:596-597`), but its job goes to the main queue, whose
  thread is blocked in `deinit` and then ends the process.

Seen and not run. A processor that double-faults is "halted" by the core's stop bit, which
is looked at when `m68k_execute` is entered: it takes the exception after all, runs to the
end of its burst, and reaches devices (`Bus.swift:163-165` says it halts "rather than
taking another exception"). The printer's idle window is host time and runs while the
machine is paused: a pause in the middle of a command of the wire format closes the job and
abandons the half-parsed command, whose rest is then printed as text or taken for commands
(docs/hardware-notes.md:2755-2757 says that `flush` does not affect the parsing of commands).
A VIA's timer is ticked after the burst, by all of it: one loaded late in a burst
runs early by up to a burst, where the comment speaks of latency only (`VIA6522.swift:66-70`).
A diskette go-byte of zero is taken like any other
(`FloppyController.swift:633`): `DISKCMD` then reads idle while the controller is
busy. A window that gets the focus back with Shift and Command held (Command-Shift-Tab) starts
from `previousModifierFlags = []`; the first release then differs in the bit of the *other*
modifier too, whose keycap is taken from the event's key: Shift goes down in the guest as
it goes up on the keyboard, and stays there (`InputCapture.swift:301-311`, against the
"clean 'nothing held' baseline" of 326); `ModifiersFollow` excepts this with `clean`. Keys that
are not modifiers are not resynchronised on a loss of focus at all: `NothingStaysPressed`
excepts them with `missed`.

In the core: an interrupt's frame is pushed before `m68k_execute` has called `setjmp`
(`m68kcpu.c:987`). A user-mode exception whose push to the supervisor's stack faults
is left half taken. After a bus error the loop is entered again without a look at
the cycles, so one instruction runs beyond the burst. Comments of `m68kcpu.h` say a gate is
"always reached by the jump itself"; after an interrupt at the end of a burst it is reached
by the RTE, which the OS recovers from through the RTE's own form. MOVE16 ($F620)
executes on a 68000, and cannot be restarted when its operands overlap. The most
negative long divided by -1 answers 0. A bus error inside an instruction that
straddles two segments, and inside a JSR's push to a stack page that is absent, takes paths of the patch
whose frames the table of the OS has no row for; the model leaves them out with the
row for `MOVE.L (A1),D1`.

In `VIA6522.swift`: a free-running T1 sets its flag without ever having been loaded,
although the comment on `advance` says that a timer not loaded cannot fire.

## 7. Not modelled

The parts the inventory lists and no module names. Permanently out: the 68881, the
PMMU and the software floating point (a 68000 refuses their opcodes, which is
modelled), the disassembler, what later processors do beyond that refusal (their
frames, caches, loop mode), cycle counts of instructions, trace, debugger and monitor
text, ROM interleaving, pixel and glyph work, the motion of the pointer, the provenance logs, `step`,
`run(untilPC:)` and `run(untilChangeAt:)` (the loop one instruction at a time, for
the debugger).

Operators of the core that take a handler as an argument have no row of their own in
the map of definitions to code: they are the code's macros with a parameter.

## 8. Plan

Written: `WidgetDrive`, `COPS`, `Machine` with `ViaTimers`, `Floppy`, `PrinterPath`,
`Controller` with their compositions, `InputCapture`, and the core. Next, in this order:

1. `BusAccess`: the translation domain, segment registers and the address latches
   (`Bus`, `MMU`, `IODispatcher`), beneath `M68kExecute` in place of its set of pages.
   Properties: a fault is delivered once or halts, a latch write takes effect from the
   next access on.
2. `SerialChannel`, `PFG`: register pointer and interrupts of the SCC, Microwire.
3. `BurstSender`: the ROM's polls against `Machine`, where the acknowledgement of a
   byte written late in a burst is due before the poll has seen the drop.
4. Proofs: what the shifts and the decimal instructions of the core compute, with the
   operators they need in a module without recursion; that an exception and its return
   restore the machine (`ReturnsUnwind`).
