--------------------------------- MODULE M68k ---------------------------------
(***************************************************************************)
(* The processor core's machine: registers, memory as the bus presents it,  *)
(* operands, the stack, and exception processing (m68kcpu.h, m68kcpu.c, the *)
(* shim and Bus.swift's fault path).  It has no variables: a machine is a   *)
(* record, and every operator takes one and returns the next.               *)
(*                                                                         *)
(* A memory access that faults leaves by longjmp: the rest of the           *)
(* instruction does not run.  Here the access sets the field `flt` and      *)
(* every later primitive leaves a faulted machine as it is, so what the     *)
(* instruction had changed before the fault stays changed; Settle then does *)
(* what the code at the landing place of the longjmp does.                  *)
(*                                                                         *)
(* The code of a program is not in `mem`: an action chooses its instruction *)
(* and its extension words, and fetching them costs only the access.        *)
(***************************************************************************)
EXTENDS Words

CONSTANTS
  AddressBits,   \* bits of the address bus (24)
  Rom,           \* the read-only bytes: a function from bus addresses
  Ram,           \* the bus addresses of the read-write bytes
  Encode(_)      \* the opcode word of an instruction

ASSUME AddressBitsAssumption == AddressBits \in 1 .. 3 * ByteBits
ASSUME MemoryAssumption ==
  /\ Ram \subseteq 0 .. 2^AddressBits - 1
  /\ DOMAIN Rom \subseteq 0 .. 2^AddressBits - 1
  /\ Ram \cap DOMAIN Rom = {}
  /\ \A a \in DOMAIN Rom : Rom[a] \in Values(B)
  /\ \A a \in Ram \cup DOMAIN Rom : a % 2 = 0 => {a, a + 1} \subseteq Ram \/ {a, a + 1} \subseteq DOMAIN Rom

Dn == 0 .. 7
An == 8 .. 15
SP == 15            \* REG_SP, which is A7

\* Exception vectors
BusErrorVector == 2
AddressErrorVector == 3
IllegalVector == 4
ZeroDivideVector == 5
CheckVector == 6
OverflowTrapVector == 7
PrivilegeVector == 8
ALineVector == 10
FLineVector == 11
UninitializedVector == 15
AutoVector == 24
TrapVector == 32

NoFault == [kind |-> "none", address |-> 0, mode |-> 0, fc |-> 0]
ModeRead == 16
ModeWrite == 0
InstructionYes == 0
InstructionNo == 8

\* FLAG_S | FUNCTION_CODE_USER_DATA and FLAG_S | FUNCTION_CODE_USER_PROGRAM
DataSpace(c) == 4 * c.s + 1
ProgramSpace(c) == 4 * c.s + 2

\* The rest of an instruction runs only if nothing before it faulted.
Go(c, next) == IF c.flt = NoFault THEN next ELSE c

\* What is read, or computed, comes with the machine it leaves: [m, v].
With(r, Rest(_, _)) == Rest(r.m, r.v)

(***************************************************************************)
(* The bus.  A word is two byte accesses and a long two words, high byte    *)
(* first (Bus.swift, read16 .. write32).  Each byte can fault, but the two  *)
(* of an aligned word translate alike, so a word is one access here.  The   *)
(* first fault pulses a bus error, which leaves by longjmp.  A fault that   *)
(* comes while the previous one's frame is being pushed (nothing was        *)
(* accessed since, or the core is still writing the frame) halts the        *)
(* processor instead; that access reads all ones or is dropped, and the     *)
(* code goes on.                                                            *)
(***************************************************************************)
BusAddress(a) == a % 2^AddressBits

Mapped == Ram \cup DOMAIN Rom
Translates(c, a) == BusAddress(a) \in Mapped /\ BusAddress(a) \notin c.out

\* pulseBusError: lisa_set_bus_error_fault records the access, always as data space
PulseBusError(c, a, mode) ==
  [c EXCEPT !.flt = [kind |-> "bus", address |-> BusAddress(a), mode |-> mode, fc |-> DataSpace(c)],
            !.pending = TRUE]

\* m68k_read_memory_8(0x00ffff01), CPU_STOPPED = STOP_LEVEL_HALT
HaltProbe == 2^(3 * B) - 2^B + 1
HaltInFrame(c) == [c EXCEPT !.stopped = {"halt"}, !.pending = ~Translates(c, HaltProbe)]

ForceHalt(c) == [c EXCEPT !.stopped = @ \cup {"halt"}]

\* What a faulting byte does; the machine it returns is faulted or halted.
BusFault(c, a, mode) ==
  IF c.pending THEN ForceHalt(c)
  ELSE IF c.run = "wsf" THEN HaltInFrame(c)
  ELSE PulseBusError(c, a, mode)

ByteAt(c, a) == IF a \in Ram THEN c.mem[a] ELSE Rom[a]
ValueAt(c, a, n) == IF n = 1 THEN ByteAt(c, a) ELSE ByteAt(c, a) * 2^B + ByteAt(c, a + 1)

Stored(mem, a, n, v) ==
  IF n = 1 THEN [mem EXCEPT ![a] = v % 2^B]
  ELSE [mem EXCEPT ![a] = (v \div 2^B) % 2^B, ![a + 1] = v % 2^B]

\* One access of n bytes, none, one or two, joined to what was read before it
ReadPart(r, a, n) ==
  LET joined == r.v * 2^(B * n) IN
  IF n = 0 \/ r.m.flt # NoFault THEN r
  ELSE IF Translates(r.m, a)
    THEN [m |-> [r.m EXCEPT !.pending = FALSE], v |-> joined + ValueAt(r.m, BusAddress(a), n)]
  ELSE [m |-> BusFault(r.m, a, ModeRead), v |-> joined + 2^(B * n) - 1]

WritePart(c, a, n, v) ==
  IF n = 0 \/ c.flt # NoFault THEN c
  ELSE IF Translates(c, a)
    THEN [c EXCEPT !.pending = FALSE,
                   !.mem = IF BusAddress(a) \in Ram THEN Stored(@, BusAddress(a), n, v) ELSE @]
  ELSE BusFault(c, a, ModeWrite)

\* The bytes of the first and of the second access of a size
FirstPart(size) == IF size = B THEN 1 ELSE 2
SecondPart(size) == IF size = L THEN 2 ELSE 0

\* m68ki_check_address_error: an odd word or long address leaves by siglongjmp
AddressFault(c, a, mode, fc) ==
  [c EXCEPT !.flt = [kind |-> "address", address |-> a, mode |-> mode, fc |-> fc]]

\* m68ki_read_8/16/32_fc; a PC-relative operand is read as program (m68ki_read_pcrel)
ReadIn(c, size, a, space) ==
  LET nothing == [m |-> c, v |-> 0] IN
  IF c.flt # NoFault THEN nothing
  ELSE IF size # B /\ a % 2 = 1 THEN [m |-> AddressFault(c, a, ModeRead, space), v |-> 0]
  ELSE ReadPart(ReadPart(nothing, a, FirstPart(size)), a + 2, SecondPart(size))

Read(c, size, a) == ReadIn(c, size, a, DataSpace(c))

\* m68ki_write_8/16/32_fc
Write(c, size, a, v) ==
  LET second == SecondPart(size) IN
  IF c.flt # NoFault THEN c
  ELSE IF size # B /\ a % 2 = 1 THEN AddressFault(c, a, ModeWrite, DataSpace(c))
  ELSE WritePart(WritePart(c, a, FirstPart(size), v \div 2^(B * second)), a + 2, second, v)

\* m68ki_read_imm_16 and _32: the PC moves before the bus is asked
Fetch(c, words) ==
  LET next == [m |-> [c EXCEPT !.pc = Mask(L, @ + 2 * words)], v |-> 0] IN
  IF c.flt # NoFault \/ words = 0 THEN c
  ELSE IF c.pc % 2 = 1 THEN AddressFault(c, c.pc, ModeRead, ProgramSpace(c))
  ELSE ReadPart(ReadPart(next, c.pc, 2), c.pc + 2, 2 * (words - 1)).m

(***************************************************************************)
(* Operands.  One is a record: an addressing mode, a register of `da` and   *)
(* the extension words' content (`ext`: a displacement, an absolute address *)
(* or an immediate; `index` and `long` for the brief extension word).       *)
(***************************************************************************)
\* (A7)+ and -(A7) keep the stack pointer even: the _pi7 and _pd7 handlers
Stride(size, reg) == IF size = B /\ reg = SP THEN 2 ELSE Bytes(size)

SetReg(c, x, v) == Go(c, [c EXCEPT !.da[x] = Mask(L, v)])

\* The extension words an operand takes; the brief format only, as a 68000 has it
ExtensionWords(size, op) ==
  CASE op.mode \in {"d", "a", "ai", "pi", "pd"}        -> 0
    [] op.mode = "al" \/ (op.mode = "i" /\ size = L)   -> 2
    [] OTHER                                           -> 1

Extended(c, size, op) == Fetch(c, ExtensionWords(size, op))

\* m68ki_get_ea_ix, and the bases and offsets of EA_AY_AI .. EA_PCIX
Base(c, op) ==
  CASE op.mode \in {"aw", "al"}     -> 0
    [] op.mode \in {"pcdi", "pcix"} -> c.pc
    [] OTHER                        -> c.da[op.reg]

IndexOf(c, op) == IF op.long THEN c.da[op.index] ELSE Extend(W, c.da[op.index])

OffsetOf(c, size, op) ==
  CASE op.mode \in {"ai", "pi"}         -> 0
    [] op.mode = "pd"                   -> -Stride(size, op.reg)
    [] op.mode \in {"di", "pcdi", "aw"} -> Extend(W, op.ext)
    [] op.mode = "al"                   -> op.ext
    [] op.mode \in {"ix", "pcix"}       -> IndexOf(c, op) + Extend(B, op.ext)

\* The machine after the extension words and the step of (An)+ and -(An), and the address
Ea(c, size, op) ==
  [m |-> CASE op.mode = "pi" -> SetReg(c, op.reg, c.da[op.reg] + Stride(size, op.reg))
           [] op.mode = "pd" -> SetReg(c, op.reg, c.da[op.reg] - Stride(size, op.reg))
           [] OTHER          -> Extended(c, size, op),
   v |-> Mask(L, Base(c, op) + OffsetOf(c, size, op))]

SpaceOf(c, op) == IF op.mode \in {"pcdi", "pcix"} THEN ProgramSpace(c) ELSE DataSpace(c)

\* OPER_AY_AI_8 .. OPER_I_32, and DY/AY for the register modes
Oper(c, size, op) ==
  LET At(k, a) == ReadIn(k, size, a, SpaceOf(c, op)) IN
  CASE op.mode \in {"d", "a"} -> [m |-> c, v |-> Mask(size, c.da[op.reg])]
    [] op.mode = "i"          -> [m |-> Extended(c, size, op), v |-> Mask(size, op.ext)]
    [] OTHER                  -> With(Ea(c, size, op), At)

\* A result into the low bits of a data register
SetD(c, size, x, v) == Go(c, [c EXCEPT !.da[x] = Low(size, @, v)])

\* m68ki_push_16/32: the stack pointer moves before the bus is asked
Push(c, size, v) == Write(SetReg(c, SP, c.da[SP] - Bytes(size)), size, Mask(L, c.da[SP] - Bytes(size)), v)

\* m68ki_pull_16/32
Pull(c, size) == Read(SetReg(c, SP, c.da[SP] + Bytes(size)), size, c.da[SP])

(***************************************************************************)
(* The status register.                                                    *)
(***************************************************************************)
Ccr(c) == 16 * c.x + 8 * c.n + 4 * c.z + 2 * c.v + c.c
Sr(c) == 2^(W - 1) * c.t + 2^(W - 3) * c.s + 2^B * c.mask + Ccr(c)

SetCcr(c, v) ==
  Go(c, [c EXCEPT !.x = Bit(v, 4), !.n = Bit(v, 3), !.z = Bit(v, 2), !.v = Bit(v, 1), !.c = Bit(v, 0)])

\* m68ki_set_s_flag: the stack pointer of the mode left is put away, the other fetched
\* A mutated form: the stack pointer of the mode left is not put away.
SetSForgetting(c, s) == [c EXCEPT !.s = s, !.da[SP] = c.base[s]]

SetS(c, s) ==
  LET base == [c.base EXCEPT ![c.s] = c.da[SP]]
  IN  [c EXCEPT !.base = base, !.s = s, !.da[SP] = base[s]]

\* m68ki_set_sr_noint
\* A mutated form: the mask stays what it is.
SetSrNoIntMasked(c, v) == Go(c, SetS(SetCcr([c EXCEPT !.t = Bit(v, W - 1)], v), Bit(v, W - 3)))

SetSrNoInt(c, v) ==
  Go(c, SetS(SetCcr([c EXCEPT !.t = Bit(v, W - 1), !.mask = (v \div 2^B) % 8], v), Bit(v, W - 3)))

(***************************************************************************)
(* Exceptions.                                                             *)
(***************************************************************************)
\* m68ki_init_exception; the caller keeps the old status register
InitException(c) == SetS([c EXCEPT !.t = 0], 1)

Jump(c, a) == Go(c, [c EXCEPT !.pc = a])

\* m68ki_jump_vector
JumpVector(c, vector) ==
  Go(c, With(Read([c EXCEPT !.pc = 4 * vector], L, 4 * vector), Jump))

\* m68ki_stack_frame_0000 on a 68000: three words
Frame3(c, pc, sr) == Push(Push(c, L, pc), W, sr)

\* m68ki_stack_frame_buserr: seven words
FrameBusError(c, sr, pc, address, flt) ==
  LET word == Encode(c.ir) IN
  Push(Push(Push(Push(Push(c, L, pc), W, sr), W, word), L, address), W, flt.mode + c.instr + flt.fc)

\* m68ki_exception_trap, trapN, 1010, 1111
Exception(c, vector, pc) == Go(c, JumpVector(Frame3(InitException(c), pc, Sr(c)), vector))

\* m68ki_exception_privilege_violation and m68ki_exception_illegal
ExceptionNoInstr(c, vector) ==
  Go(c, Exception([c EXCEPT !.instr = InstructionNo], vector, c.ppc))

Privilege(c) == ExceptionNoInstr(c, PrivilegeVector)
Illegal(c) == ExceptionNoInstr(c, IllegalVector)

\* A second fault while the frame of the first is written halts the machine
FaultInFrame(c) == HaltInFrame(InitException([c EXCEPT !.flt = NoFault]))
Framed(c) == IF c.flt # NoFault THEN FaultInFrame(c) ELSE [c EXCEPT !.run = "berr"]

\* m68ki_exception_address_error
AddressError(c) ==
  FrameBusError(InitException([c EXCEPT !.flt = NoFault, !.run = "wsf"]), Sr(c), c.pc, c.flt.address, c.flt)

(***************************************************************************)
(* m68ki_exception_bus_error.  The registers go back to what they were when *)
(* the instruction began; memory and condition codes do not.  A fault of    *)
(* the fetch at the top of the loop finds the previous instruction in the   *)
(* instruction register: after one of the jump forms the Lisa OS can re-run *)
(* the frame describes the jump (its address plus what the OS subtracts,    *)
(* the whole target) and a JSR's push is undone in the bank it was made in. *)
(***************************************************************************)
\* A mutated form: the displacement of a JSR is not counted.
RerunShort(i) ==
  CASE i.op = "jsr" /\ i.ea.mode = "al" -> [adj |-> 6, undo |-> TRUE]
    [] i.op = "jsr" /\ i.ea.mode \in {"di", "ai"} -> [adj |-> 2, undo |-> TRUE]
    [] i.op = "jmp" /\ i.ea.mode \in {"al", "ai"} -> [adj |-> 2, undo |-> FALSE]
    [] i.op \in {"rts", "rte"} -> [adj |-> 2, undo |-> FALSE]
    [] OTHER -> [adj |-> 0, undo |-> FALSE]

Rerun(i) ==
  CASE i.op = "jsr" /\ i.ea.mode = "al" -> [adj |-> 6, undo |-> TRUE]
    [] i.op = "jsr" /\ i.ea.mode = "di" -> [adj |-> 4, undo |-> TRUE]
    [] i.op = "jsr" /\ i.ea.mode = "ai" -> [adj |-> 2, undo |-> TRUE]
    [] i.op = "jmp" /\ i.ea.mode \in {"al", "ai"} -> [adj |-> 2, undo |-> FALSE]
    [] i.op \in {"rts", "rte"} -> [adj |-> 2, undo |-> FALSE]
    [] OTHER -> [adj |-> 0, undo |-> FALSE]

\* Two mutated forms: the push is not undone; it is undone in the mode of the handler.
UndoNothing(c, s) == c
UndoPushHere(c, s) == [c EXCEPT !.da[SP] = Mask(L, @ + 4)]

UndoPush(c, s) ==
  IF s = 1 THEN [c EXCEPT !.da[SP] = Mask(L, @ + 4)] ELSE [c EXCEPT !.base[0] = Mask(L, @ + 4)]

BusErrorFrame(c, sr, flt) ==
  LET jump   == Rerun(c.ir)
      reruns == c.fetching /\ jump.adj > 0
      undone == IF reruns /\ jump.undo THEN UndoPush(c, Bit(sr, W - 3)) ELSE c
      pc     == IF reruns THEN Mask(L, c.prev + jump.adj)
                ELSE IF c.fetching THEN c.pc ELSE Mask(L, c.ppc + 2)
  IN  FrameBusError([undone EXCEPT !.fetching = FALSE], sr, pc,
                    IF reruns THEN Mask(L, c.pc - 2) ELSE flt.address, flt)

\* A mutated form: the registers are not put back.
BusErrorKeepsRegisters(c) ==
  BusErrorFrame(InitException([c EXCEPT !.flt = NoFault, !.run = "wsf"]), Sr(c), c.flt)

BusError(c) ==
  BusErrorFrame(InitException([c EXCEPT !.flt = NoFault, !.run = "wsf", !.da = c.save]), Sr(c), c.flt)

\* Where the longjmp lands; an instruction that ends normally is remembered (m68ki_ppc_prev)
Settle(c) ==
  CASE c.flt = NoFault                             -> [c EXCEPT !.prev = c.ppc]
    [] c.flt.kind = "address" /\ c.run = "wsf"     -> FaultInFrame(c)
    [] OTHER ->
         Framed(IF c.flt.kind = "bus" THEN JumpVector(BusError(c), BusErrorVector)
                ELSE JumpVector(AddressError(c), AddressErrorVector))

(***************************************************************************)
(* Interrupts.                                                             *)
(***************************************************************************)
\* m68ki_exception_interrupt, autovectored; a zero vector is the uninitialized one
VectorOf(c, level) ==
  LET Chosen(k, v) == IF v = 0 THEN Read(k, L, 4 * UninitializedVector) ELSE [m |-> k, v |-> v]
  IN  With(Read(c, L, 4 * (AutoVector + level)), Chosen)

Served(c) == Go(c, [c EXCEPT !.level = 0])

Interrupt(c, level) ==
  LET woken        == [c EXCEPT !.instr = InstructionNo, !.stopped = @ \ {"stop"}]
      Enter(k, to) == Served(Jump(Frame3(k, c.pc, Sr(c)), to))
  IN  IF woken.stopped # {} THEN woken
      ELSE With(VectorOf([InitException(woken) EXCEPT !.mask = level], level), Enter)

\* m68ki_check_interrupts
CheckInterrupts(c) ==
  Go(c, IF c.nmi \/ c.level > c.mask
          THEN Interrupt([c EXCEPT !.nmi = FALSE], IF c.nmi THEN 7 ELSE c.level)
          ELSE c)

\* m68k_set_irq: level 7 is edge triggered
SetIrq(c, level) ==
  [c EXCEPT !.level = level, !.nmi = @ \/ (c.level # 7 /\ level = 7)]

\* m68ki_set_sr
SetSr(c, v) == CheckInterrupts(SetSrNoInt(c, v))

(***************************************************************************)
(* The loop of m68k_execute, up to the handler: the previous PC and the     *)
(* registers are saved, and the opcode word replaces the instruction        *)
(* register only when its fetch did not fault.                              *)
(***************************************************************************)
Decode(c, i) == Go(c, [c EXCEPT !.ir = i, !.fetching = FALSE])
\* A mutated form: the instruction register is loaded before the fetch has succeeded.
BeginEarly(c, i) ==
  Decode(Fetch([c EXCEPT !.ppc = c.pc, !.save = c.da, !.fetching = TRUE, !.ir = i], 1), i)

Begin(c, i) == Decode(Fetch([c EXCEPT !.ppc = c.pc, !.save = c.da, !.fetching = TRUE], 1), i)

\* m68k_pulse_reset
PulseReset(c) ==
  LET up == [c EXCEPT !.stopped = {}, !.run = "berr", !.instr = InstructionYes, !.t = 0, !.mask = 7,
                      !.level = 0]
      r  == Read([SetS(up, 1) EXCEPT !.pc = 0], L, 0)
      p  == Read(SetReg(r.m, SP, r.v), L, 4)
  IN  [p.m EXCEPT !.pc = p.v, !.run = "normal"]

\* m68k_pulse_halt
PulseHalt(c) == [c EXCEPT !.stopped = @ \cup {"halt"}]

\* A machine's fields have the types the C structure gives them.
MachineType(c) ==
  c \in [da : [0 .. 15 -> Values(L)], save : [0 .. 15 -> Values(L)], base : [{0, 1} -> Values(L)],
         pc : Values(L), ppc : Values(L), prev : Values(L),
         x : Flag, n : Flag, z : Flag, v : Flag, c : Flag, s : Flag, t : Flag,
         mask : 0 .. 7, level : 0 .. 7, nmi : BOOLEAN, stopped : SUBSET {"stop", "halt"},
         run : {"normal", "berr", "wsf"}, instr : {InstructionYes, InstructionNo},
         fetching : BOOLEAN, pending : BOOLEAN,
         ir : {c.ir}, flt : {c.flt}, out : {c.out}, mem : [Ram -> Values(B)]]
=============================================================================
