------------------------------ MODULE M68kExecute ------------------------------
(***************************************************************************)
(* The run of a user program on the processor core: the bursts of           *)
(* m68k_execute as Machine.run(until:) asks for them, the interrupts taken  *)
(* only where a burst begins or a status register is loaded, and the bus    *)
(* errors the Lisa OS lives by.  User code calls through gates: jumps whose *)
(* target segment is not in memory.  The OS reads the instruction word and  *)
(* the fault address out of the frame the core pushed, brings the segment   *)
(* in, backs the PC up by the distance of that form of jump and returns, so *)
(* that the jump runs again.                                               *)
(*                                                                         *)
(* The processor, its bursts and the interrupt line are the code's.  The    *)
(* kernel is not in the repository: its two handlers are one step each,     *)
(* taken from the table of docs/hardware-notes.md that the patch of         *)
(* m68ki_exception_bus_error is written against; their RTE is executed.     *)
(***************************************************************************)
EXTENDS M68kArith, M68kMove, M68kFlow

CONSTANTS
  Program,       \* the user program: a function from bus addresses to instructions
  Start,         \* the machine about to run its first instruction, in user mode
  Finish,        \* the bus address of its last instruction, a branch to itself
  Length,        \* instructions it executes to get there
  Watched,       \* bus addresses of its data
  StackTop,      \* bus address where its stack begins
  Segments,      \* what the OS brings in: a set of sets of bus addresses
  Swappable,     \* and what it may take out
  KernelReturn,  \* the address of the kernel's RTE
  FormOf(_),     \* the form the OS tells from an opcode word
  BusErrorEntry, InterruptEntry,   \* the kernel's handlers; a function of the level
  MaxBurst,      \* bound: instructions in a burst
  MaxRaised,     \* bound: interrupts the devices raise
  MaxSwaps       \* bound: segments taken out

Levels == DOMAIN InterruptEntry

ASSUME ExecuteAssumption ==
  /\ MachineType(Start) /\ Start.s = 0 /\ Start.stopped = {}
  /\ Segments \subseteq SUBSET Mapped /\ Swappable \subseteq Segments
  /\ Watched \subseteq Ram
  /\ Levels \subseteq 1 .. 6
  /\ MaxBurst \in Nat \ {0} /\ {Length, MaxRaised, MaxSwaps} \subseteq Nat

VARIABLES
  m,           \* the machine
  at,          \* "idle" between bursts, "loop" in one, "done" at its end, "halted" or "lost"
  left,        \* the budget of the burst, in instructions
  lines,       \* the levels the devices assert
  raised, swaps   \* bounds: what has happened so far

vars == <<m, at, left, lines, raised, swaps>>
others == <<lines, raised, swaps>>

(***************************************************************************)
(* The instructions the program and the kernel's return are made of.        *)
(***************************************************************************)
Execute(c, i) ==
  CASE i.op \in {"addq", "tst"} -> ArithExecute(c, i)
    [] i.op = "move"            -> MoveExecute(c, i)
    [] OTHER                    -> FlowExecute(c, i)

Bare(op) == [op |-> op, size |-> L, ea |-> NoOperand, arg |-> 0]

\* Where there is no instruction, the word found is taken to be an illegal one
InstructionAt(a) ==
  IF a = KernelReturn THEN Bare("rte")
  ELSE IF BusAddress(a) \in DOMAIN Program THEN Program[BusAddress(a)]
  ELSE Bare("illegal")

\* One turn of the loop of m68k_execute
Turn(c) == LET i == InstructionAt(c.pc) IN Settle(Execute(Begin(c, i), i))

(***************************************************************************)
(* Bursts.                                                                 *)
(***************************************************************************)
Highest == IF lines = {} THEN 0 ELSE CHOOSE l \in lines : \A k \in lines : k <= l

\* M68K.run forgets the last fault, m68k_execute looks for interrupts once; a fault in
\* pushing their frame lands in the loop
Landed(c) == IF c.flt = NoFault THEN c ELSE Settle(c)

StartBurst ==
  /\ at = "idle"
  /\ \E n \in 1 .. MaxBurst :
       LET c == CheckInterrupts([m EXCEPT !.pending = FALSE])
       IN  IF c.stopped # {}
             THEN m' = c /\ at' = "done" /\ left' = 0
             ELSE m' = Landed(c) /\ at' = "loop" /\ left' = n
  /\ UNCHANGED others

\* After a bus error the loop is entered again without a look at the cycles; a burst
\* that ends does so after an instruction that did not fault.
InKernel == m.pc = BusErrorEntry \/ \E l \in Levels : m.pc = InterruptEntry[l]
Spent(n) == IF n > 0 THEN n - 1 ELSE 0

Instruction ==
  /\ at = "loop" /\ ~InKernel
  /\ m' = Turn(m)
  /\ LET faulted == m'.run = "berr" /\ m'.pc = BusErrorEntry
     IN  /\ left' = Spent(left)
         /\ at' = IF faulted \/ left > 1 THEN "loop" ELSE "done"
  /\ UNCHANGED others

\* tickVIAsAndUpdateIRQ
EndBurst ==
  /\ at = "done"
  /\ m' = SetIrq(m, Highest)
  /\ at' = IF "halt" \in m.stopped THEN "halted" ELSE "idle"
  /\ UNCHANGED <<left, others>>

\* A device asserts its line, in an event or in the tick of its timer
Raise ==
  /\ at \in {"idle", "done"} /\ raised < MaxRaised
  /\ \E l \in Levels \ lines : lines' = lines \cup {l}
  /\ raised' = raised + 1
  /\ UNCHANGED <<m, at, left, swaps>>

(***************************************************************************)
(* The kernel.                                                             *)
(***************************************************************************)
LongAt(c, a) == ValueAt(c, BusAddress(a), 2) * 2^W + ValueAt(c, BusAddress(a + 2), 2)
StoredLong(mem, a, v) == Stored(Stored(mem, BusAddress(a), 2, v \div 2^W), BusAddress(a + 2), 2, v % 2^W)

\* The frame of a bus error: status word, fault address, instruction word, SR, PC
BadAddress(c) == LongAt(c, c.da[SP] + 2)
FormInFrame(c) == FormOf(ValueAt(c, BusAddress(c.da[SP] + 6), 2))

\* How far the PC of the frame is past the instruction, by its form
Distance == [jsrlong |-> 6, jsrdisp |-> 4, jsrind |-> 2, jump |-> 2, rts |-> 2, tst |-> 2]

\* The segments a bus address is in
Holding(a) == {g \in Segments : BusAddress(a) \in g}

\* The kernel has executed code of its own, and its next instruction is the RTE
AtReturn(c) ==
  [c EXCEPT !.pc = KernelReturn, !.ppc = KernelReturn - 2, !.prev = KernelReturn - 2,
            !.ir = [op |-> "nop"]]

\* BUS_ERR: bring in, back up, un-pop, and drop what a 68000's RTE does not take
Recovered(c) ==
  LET bad  == BadAddress(c)
      form == FormInFrame(c)
      pc   == IF form = "rte" THEN bad ELSE Mask(L, LongAt(c, c.da[SP] + 10) - Distance[form])
  IN  AtReturn([c EXCEPT !.out = @ \ UNION Holding(bad),
                         !.mem = StoredLong(@, c.da[SP] + 10, pc),
                         !.da[SP] = @ + 8,
                         !.base[0] = IF form = "rts" THEN Mask(L, @ - 4) ELSE @])

\* A whole frame, of a form in the table, about an address the OS can bring in
Recoverable(c) ==
  /\ \A n \in 0 .. 13 : Translates(c, c.da[SP] + n)
  /\ FormInFrame(c) \in DOMAIN Distance \cup {"rte"}
  /\ Holding(BadAddress(c)) # {}

HandleBusError ==
  /\ at = "loop" /\ m.pc = BusErrorEntry
  /\ IF Recoverable(m) THEN m' = Recovered(m) /\ at' = IF left > 1 THEN "loop" ELSE "done"
                       ELSE UNCHANGED m /\ at' = "lost"
  /\ left' = Spent(left)
  /\ UNCHANGED others

\* A device's handler: the line is dropped at its source
HandleInterrupt ==
  /\ at = "loop"
  /\ \E l \in Levels : m.pc = InterruptEntry[l] /\ lines' = lines \ {l}
  /\ m' = AtReturn(m)
  /\ left' = Spent(left)
  /\ at' = IF left > 1 THEN "loop" ELSE "done"
  /\ UNCHANGED <<raised, swaps>>

\* The memory manager takes a segment out before the kernel returns
SwapOut ==
  /\ at = "loop" /\ m.pc = KernelReturn /\ swaps < MaxSwaps
  /\ \E g \in Swappable : g \cap m.out = {} /\ m' = [m EXCEPT !.out = @ \cup g]
  /\ swaps' = swaps + 1
  /\ UNCHANGED <<at, left, lines, raised>>

Init ==
  /\ m = Start /\ at = "idle" /\ left = 0
  /\ lines = {} /\ raised = 0 /\ swaps = 0

Processor == StartBurst \/ Instruction \/ EndBurst \/ HandleBusError \/ HandleInterrupt
Next == Processor \/ Raise \/ SwapOut

\* The thread that runs the machine does not stop before the machine does: weak fairness
\* of Processor, with the condition that enables it written out
Stopped == at \in {"halted", "lost"}
Fairness == []<>Stopped \/ []<><<Processor>>_vars
Spec == Init /\ [][Next]_vars /\ Fairness

(***************************************************************************)
(* The program on a machine with everything in memory and no interrupts.    *)
(***************************************************************************)
Ideal[n \in 0 .. Length] ==
  IF n = 0 THEN [Start EXCEPT !.out = {}] ELSE Turn(Ideal[n - 1])

\* The bytes of a program's data that live: what it keeps, and what is on its stack
Alive(c) == Watched \cup {a \in Ram : a >= BusAddress(c.da[SP]) /\ a < StackTop}

\* What the program can see: its registers, where it is, its condition codes, its data
\* and what is on its stack
View(c) == [da |-> c.da, pc |-> c.pc, ccr |-> Ccr(c), mem |-> [a \in Alive(c) |-> c.mem[a]]]

Views == {View(Ideal[n]) : n \in 0 .. Length}

(***************************************************************************)
(* What the kernel's code and stack, and the program, must be for the       *)
(* properties to hold.                                                     *)
(***************************************************************************)
Paged == UNION Segments
KernelCode == {BusErrorEntry, KernelReturn} \cup {InterruptEntry[l] : l \in Levels}

\* Room for the frame of one bus error and of an interrupt of every level
KernelStack == UNION {Start.base[1] - 14 - 6 * l .. Start.base[1] - 1 : l \in Levels \cup {0}}

VectorTo(v, entry) == 4 * v .. 4 * v + 3 \subseteq DOMAIN Rom \ Paged /\ LongAt(Start, 4 * v) = entry

\* The forms the OS tells apart by the opcode word
Form(i) ==
  CASE i.op = "jsr" /\ i.ea.mode = "al"          -> "jsrlong"
    [] i.op = "jsr" /\ i.ea.mode = "di"          -> "jsrdisp"
    [] i.op = "jsr" /\ i.ea.mode = "ai"          -> "jsrind"
    [] i.op = "jmp" /\ i.ea.mode \in {"al", "ai"} -> "jump"
    [] i.op \in {"rts", "rte", "tst"}            -> i.op
    [] OTHER                                     -> "other"

TellsForm(i) == Form(i) # "other" => Encode(i) \in Values(W) /\ FormOf(Encode(i)) = Form(i)

\* The kernel is in memory, its stack is even and deep enough, its vectors are in the
\* read-only bytes, its RTE can be told from the program's instructions; what is out is
\* whole segments, and segments are of whole words; the program's first instruction is
\* in memory, or the kernel has just returned to it
ASSUME KernelAssumption ==
  /\ Start.flt = NoFault /\ Start.run = "normal" /\ Start.level = 0
  /\ ~Start.pending /\ ~Start.nmi
  /\ BusAddress(Start.pc) \notin Start.out \/ Start.ir = Bare("rte")
  /\ Start.out = UNION {g \in Segments : g \subseteq Start.out}
  /\ \A g \in Segments, a \in Mapped : a % 2 = 0 => (a \in g <=> a + 1 \in g)
  /\ Start.base[1] % 2 = 0 /\ KernelStack \subseteq Ram \ (Paged \cup Watched)
  /\ VectorTo(BusErrorVector, BusErrorEntry)
  /\ \A l \in Levels : VectorTo(AutoVector + l, InterruptEntry[l]) /\ InterruptEntry[l] # 0
  /\ \A l \in Levels : InterruptEntry[l] \notin {BusErrorEntry, KernelReturn}
  /\ BusErrorEntry # KernelReturn
  /\ KernelReturn \in 2 .. 2^L - 3 /\ KernelReturn % 2 = 0
  /\ BusAddress(KernelReturn) \in Mapped \ Paged
  /\ {BusAddress(e) : e \in KernelCode} \cap DOMAIN Program = {}
  /\ \A i \in {Bare("rte")} \cup {Program[a] : a \in DOMAIN Program} : TellsForm(i)

\* The words of an instruction
Words(i) ==
  CASE i.op = "move"                    -> 1 + ExtensionWords(i.size, i.ea) + ExtensionWords(i.size, i.arg)
    [] i.op = "bra"                     -> IF i.size = W THEN 2 ELSE 1
    [] i.op \in {"tst", "addq"}          -> 1 + ExtensionWords(i.size, i.ea)
    [] i.op \in {"jmp", "jsr"}           -> 1 + ExtensionWords(L, i.ea)
    [] OTHER                            -> 1

\* What an instruction accesses: an address and a size for each operand in memory, which
\* is one that is not of the modes `held`
Pointed(c, size, op, held) ==
  IF op.mode \in held THEN {} ELSE {[a |-> Ea(c, size, op).v, size |-> size]}

Accesses(c, i) ==
  CASE i.op = "tst"  -> Pointed(c, i.size, i.ea, {"d", "a", "i"})
    [] i.op = "addq" -> Pointed(c, i.size, i.ea, {"d", "a"})
    [] i.op = "move" -> Pointed(c, i.size, i.ea, {"d", "a", "i"}) \cup
                        Pointed(Oper(c, i.size, i.ea).m, i.size, i.arg, {"d"})
    [] i.op = "jsr"  -> {[a |-> Mask(L, Ea(c, L, i.ea).m.da[SP] - 4), size |-> L]}
    [] i.op = "rts"  -> {[a |-> c.da[SP], size |-> L]}
    [] OTHER         -> {}

WordBytes(a) == {BusAddress(a), BusAddress(a) + 1}
BytesOf(r) ==
  CASE r.size = B -> {BusAddress(r.a)}
    [] r.size = W -> WordBytes(r.a)
    [] OTHER      -> WordBytes(r.a) \cup WordBytes(r.a + 2)

InstructionOf(n) == InstructionAt(Ideal[n].pc)
AccessesOf(n) == Accesses(Begin(Ideal[n], InstructionOf(n)), InstructionOf(n))
Touched(n) == UNION {BytesOf(r) : r \in AccessesOf(n)}

\* What the program has probed for good before its n-th instruction
Probed(n) ==
  (UNION {Touched(k) : k \in {j \in 0 .. n - 1 : InstructionOf(j).op = "tst"}}) \ UNION Swappable

\* Its instructions are these, each in one segment, and it never faults or traps
RunsStraight(n) ==
  LET c == Ideal[n] i == InstructionOf(n) IN
  /\ MachineType(c) /\ c.s = 0 /\ c.flt = NoFault /\ c.out = {}
  /\ BusAddress(c.pc) \in DOMAIN Program
  /\ i.op \in {"tst", "addq", "move", "bra", "jmp", "jsr", "rts"}
  /\ c.pc % 2 = 0 /\ c.pc + 2 * Words(i) < 2^L
  /\ \A w \in 0 .. Words(i) - 1 :
       BusAddress(c.pc + 2 * w) \in Mapped /\ Holding(c.pc + 2 * w) = Holding(c.pc)

\* Its operands are aligned, live and in memory; a TST may find its own missing, a JSR
\* pushes onto what is dead
TouchesItsOwn(n) ==
  LET c == Ideal[n] i == InstructionOf(n) IN
  /\ \A r \in AccessesOf(n) : r.size \in Sizes /\ r.a \in Values(L) /\ (r.size # B => r.a % 2 = 0)
  /\ IF i.op = "jsr" THEN Touched(n) \subseteq Ram \ Alive(c) ELSE Touched(n) \subseteq Alive(c)
  /\ i.op # "tst" => Touched(n) \cap (Start.out \cup UNION Swappable) \subseteq Probed(n)
  /\ Alive(c) \cap KernelStack = {}

\* It leaves a segment through a gate, and at its end it stays where it is
UsesGates(n) ==
  LET c == Ideal[n] i == InstructionOf(n) IN
  IF n = Length THEN i.op = "bra" /\ Turn(c).pc = c.pc
  ELSE /\ Holding(Ideal[n + 1].pc) = Holding(c.pc) \/ Form(i) \in DOMAIN Distance \ {"tst"}
       /\ Alive(Ideal[n + 1]) \subseteq Alive(c) \cup Touched(n)

ASSUME ProgramAssumption ==
  \A n \in 0 .. Length : RunsStraight(n) /\ TouchesItsOwn(n) /\ UsesGates(n)

InUser == m.s = 0 /\ at # "lost"

\* A user program never sees a fault or an interrupt: whenever the machine is in user
\* mode the program's registers, PC, condition codes, data and live stack are those of
\* some point of an undisturbed run of it, whatever was missing, swapped out or raised.
\* A gate run again after its frame was decoded pushes its return address exactly once
\* (the frame and the undone push of m68ki_exception_bus_error).
UserSeesItsProgram == InUser => View(m) \in Views

\* Every frame pushed on the supervisor's stack has been taken off when the program runs
\* again: interrupts that preempt the handler of a bus error, or follow an RTE at once,
\* leave nothing behind (m68ki_set_s_flag, m68ki_exception_interrupt, m68k_op_rte_32).
KernelStackIsEmpty == InUser => m.base[1] = Start.base[1]

\* No fault of this program is beyond the kernel's table, and none halts the processor:
\* the instruction word and the address in the frame are always those of the jump or
\* the probe that faulted, although the core faults one instruction later.
FaultsAreRecoverable == at \notin {"lost", "halted"}

\* A device that asserts its line is served, although the core looks at the line only at
\* the start of a burst and forgets the level once it has taken it.
EveryInterruptIsServed == \A l \in Levels : l \in lines ~> l \notin lines

\* The program gets to its end however often its segments are taken from it.
ProgramFinishes == <>(m.s = 0 /\ BusAddress(m.pc) = Finish)
=============================================================================
