------------------------------- MODULE M68kFlow -------------------------------
(***************************************************************************)
(* The flow of control: branches, calls and returns, the traps an           *)
(* instruction takes, STOP and RESET, and the opcodes a 68000 refuses.      *)
(***************************************************************************)
EXTENDS M68kStep

CONSTANT Conventions         \* the trap numbers of TRAP, out of 0 .. 15
ASSUME ConventionsAssumption == Conventions \subseteq 0 .. 15

\* m68ki_branch_8, m68ki_branch_16
Branch(c, size, offset) == Jump(c, Mask(L, c.pc + Extend(size, offset)))

\* A taken 16-bit branch fetches its offset and goes back to it; one not taken
\* skips the word without reading it
Back(c) == Go(c, [c EXCEPT !.pc = Mask(L, @ - 2)])
Skipped(c) == Go(c, [c EXCEPT !.pc = Mask(L, @ + 2)])
BranchWord(c, offset) == Branch(Back(Fetch(c, 1)), W, offset)

\* On a 68000 the 32-bit form is the 8-bit one with the offset in its opcode, 0xff
Offset(i) == IF i.size = L THEN 2^B - 1 ELSE i.ea.ext

Bcc(c, i) ==
  IF i.size = W THEN IF Holds(c, i.arg) THEN BranchWord(c, Offset(i)) ELSE Skipped(c)
  ELSE IF Holds(c, i.arg) THEN Branch(c, B, Offset(i)) ELSE c

Bra(c, i) == IF i.size = W THEN BranchWord(c, Offset(i)) ELSE Branch(c, B, Offset(i))

Bsr(c, i) ==
  LET Call(k) == Push(k, L, k.pc)
  IN  IF i.size = W THEN Branch(Back(Call(Fetch(c, 1))), W, Offset(i)) ELSE Branch(Call(c), B, Offset(i))

\* DBcc, with "t" for DBT and "f" for DBF: the counter is a word
Dbcc(c, i) ==
  LET n == Mask(W, c.da[i.ea.reg] - 1)
      k == SetD(c, W, i.ea.reg, n)
  IN  IF i.arg.cc = "t" \/ (i.arg.cc # "f" /\ Holds(c, i.arg.cc)) THEN Skipped(c)
      ELSE IF n = 2^W - 1 THEN Skipped(k)
      ELSE BranchWord(k, i.arg.ext)

JmpTo(c, i) == With(Ea(c, L, i.ea), Jump)
Jsr(c, i) == LET Call(k, a) == Jump(Push(k, L, k.pc), a) IN With(Ea(c, L, i.ea), Call)
Rts(c, i) == With(Pull(c, L), Jump)
Rtr(c, i) == With(Pull(With(Pull(c, W), SetCcr), L), Jump)

\* RTE ends the exception: the flags INSTRUCTION_YES and RUN_MODE_NORMAL come back,
\* after an interrupt the new mask lets through has been taken
Rte(c, i) ==
  LET Ended(k)     == Go(k, [k EXCEPT !.instr = InstructionYes, !.run = "normal"])
      Return(k, sr) == LET To(j, pc) == SetSr(Jump(j, pc), sr) IN Ended(With(Pull(k, L), To))
  IN  IF c.s = 0 THEN Privilege(c) ELSE With(Pull(c, W), Return)

Trap(c, i) == Exception(c, TrapVector + i.arg, c.pc)
Trapv(c, i) == IF c.v = 0 THEN c ELSE Exception(c, OverflowTrapVector, c.pc)
LineA(c, i) == Exception(c, ALineVector, c.ppc)
LineF(c, i) == Exception(c, FLineVector, c.ppc)
Refused(c, i) == Illegal(c)

\* The stop is entered before the status register is set, so an interrupt the new
\* mask admits ends it at once
Stop(c, i) ==
  LET Stopped(k) == Go(k, [k EXCEPT !.stopped = @ \cup {"stop"}])
  IN  IF c.s = 1 THEN SetSr(Stopped(Fetch(c, 1)), Mask(W, i.arg)) ELSE Privilege(c)

\* RESET moves no pin anybody listens to (M68K_EMULATE_RESET is off)
Reset(c, i) == IF c.s = 1 THEN c ELSE Privilege(c)
Nop(c, i) == c

\* MOVE16 (Ax)+,(Ay)+: its handler does not ask for the processor's type
Move16(c, i) ==
  LET Copy(k, n) == LET To(j, v) == Write(j, L, Mask(L, j.da[i.arg] + n), v)
                    IN  With(Read(k, L, Mask(L, k.da[i.ea.reg] + n)), To)
      Step(k, x) == SetReg(k, x, k.da[x] + 16)
  IN  Step(Step(Copy(Copy(Copy(Copy(Fetch(c, 1), 0), 4), 8), 12), i.ea.reg), i.arg)

(***************************************************************************)
(* The opcodes: the functions of m68kops.c.                                 *)
(***************************************************************************)
Offsets(size) == {[mode |-> "none", ext |-> d] : d \in IF size = W THEN Displacements ELSE BranchOffsets}

CarryConditions == {"hi", "ls", "cc", "cs"}
ZeroConditions == {"ne", "eq", "vc", "vs"}
SignConditions == {"pl", "mi", "ge", "lt"}
OrderConditions == {"gt", "le"}
ConditionalBranch(size, ccs) == Ins("bcc", size, Offsets(size), ccs)
CountedBranch(ccs) == Ins("dbcc", W, DataReg, [cc : ccs, ext : Displacements])

\* m68k_op_b<cc>_8, _16, _32
Bcc8Carry == ConditionalBranch(B, CarryConditions)
Bcc8Zero == ConditionalBranch(B, ZeroConditions)
Bcc8Sign == ConditionalBranch(B, SignConditions)
Bcc8Order == ConditionalBranch(B, OrderConditions)
Bcc16Carry == ConditionalBranch(W, CarryConditions)
Bcc16Zero == ConditionalBranch(W, ZeroConditions)
Bcc16Sign == ConditionalBranch(W, SignConditions)
Bcc16Order == ConditionalBranch(W, OrderConditions)
Bcc32Carry == ConditionalBranch(L, CarryConditions)
Bcc32Zero == ConditionalBranch(L, ZeroConditions)
Bcc32Sign == ConditionalBranch(L, SignConditions)
Bcc32Order == ConditionalBranch(L, OrderConditions)

\* m68k_op_bra_*, bsr_*: the three widths
BraAll == UNION {Ins("bra", size, Offsets(size), {0}) : size \in Sizes}
BsrAll == UNION {Ins("bsr", size, Offsets(size), {0}) : size \in Sizes}

\* m68k_op_dbt_16, dbf_16, db<cc>_16
DbccAlways == CountedBranch({"t", "f"})
DbccCarry == CountedBranch(CarryConditions)
DbccZero == CountedBranch(ZeroConditions)
DbccSign == CountedBranch(SignConditions)
DbccOrder == CountedBranch(OrderConditions)

\* m68k_op_jmp_32_*, jsr, rts, rtr, rte
Jmp32 == Ins("jmp", L, Control \cup ProgramRelative, {0})
Jsr32 == Ins("jsr", L, Control \cup ProgramRelative, {0})
Rts32 == Ins("rts", L, {NoOperand}, {0})
Rtr32 == Ins("rtr", L, {NoOperand}, {0})
Rte32 == Ins("rte", L, {NoOperand}, {0})

\* m68k_op_trap, trapv, stop, reset, nop, illegal, 1010, 1111, move16
TrapN == Ins("trap", L, {NoOperand}, Conventions)
TrapOverflow == Ins("trapv", L, {NoOperand}, {0})
StopWait == Ins("stop", L, {NoOperand}, Immediates)
ResetPins == Ins("reset", L, {NoOperand}, {0})
NopStep == Ins("nop", L, {NoOperand}, {0})
IllegalCode == Ins("illegal", L, {NoOperand}, {0})
Line1010 == Ins("linea", L, {NoOperand}, {0})
Line1111 == Ins("linef", L, {NoOperand}, {0})
Move16Line == Ins("move16", L, AddressReg, ARegs)

\* Opcodes of later processors, which a 68000 takes as illegal
BfchgRefused == Ins("bfchg", L, {NoOperand}, {0})
BfclrRefused == Ins("bfclr", L, {NoOperand}, {0})
BfextsRefused == Ins("bfexts", L, {NoOperand}, {0})
BfextuRefused == Ins("bfextu", L, {NoOperand}, {0})
BfffoRefused == Ins("bfffo", L, {NoOperand}, {0})
BfinsRefused == Ins("bfins", L, {NoOperand}, {0})
BfsetRefused == Ins("bfset", L, {NoOperand}, {0})
BftstRefused == Ins("bftst", L, {NoOperand}, {0})
CallmRefused == Ins("callm", L, {NoOperand}, {0})
CasRefused == Ins("cas", L, {NoOperand}, {0})
Cas2Refused == Ins("cas2", L, {NoOperand}, {0})
Chk32Refused == Ins("chk32", L, {NoOperand}, {0})
Chk2Refused == Ins("chk2", L, {NoOperand}, {0})
DivlRefused == Ins("divl", L, {NoOperand}, {0})
ExtbRefused == Ins("extb", L, {NoOperand}, {0})
Link32Refused == Ins("link32", L, {NoOperand}, {0})
CmpipcRefused == Ins("cmpipc", L, {NoOperand}, {0})
MovefrcRefused == Ins("movefrc", L, {NoOperand}, {0})
MovecRefused == Ins("movec", L, {NoOperand}, {0})
MovesRefused == Ins("moves", L, {NoOperand}, {0})
MullRefused == Ins("mull", L, {NoOperand}, {0})
PackRefused == Ins("pack", L, {NoOperand}, {0})
RtdRefused == Ins("rtd", L, {NoOperand}, {0})
RtmRefused == Ins("rtm", L, {NoOperand}, {0})
TrapccRefused == Ins("trapcc", L, {NoOperand}, {0})
TstpcRefused == Ins("tstpc", L, {NoOperand}, {0})
UnpkRefused == Ins("unpk", L, {NoOperand}, {0})
BkptRefused == Ins("bkpt", L, {NoOperand}, {0})

\* Coprocessor opcodes, which a 68000 takes as line F
CpAsLineF == Ins("cp", L, {NoOperand}, {0})
FpuAsLineF == Ins("fpu", L, {NoOperand}, {0})
PmmuAsLineF == Ins("pmmu", L, {NoOperand}, {0})

FlowInstructions == UNION {
  Bcc8Carry, Bcc8Zero, Bcc8Sign, Bcc8Order, Bcc16Carry, Bcc16Zero, Bcc16Sign, Bcc16Order,
  Bcc32Carry, Bcc32Zero, Bcc32Sign, Bcc32Order, BraAll, BsrAll, DbccAlways, DbccCarry, DbccZero,
  DbccSign, DbccOrder, Jmp32, Jsr32, Rts32, Rtr32, Rte32, TrapN, TrapOverflow, StopWait, ResetPins,
  NopStep, IllegalCode, Line1010, Line1111, Move16Line, BfchgRefused, BfclrRefused, BfextsRefused,
  BfextuRefused, BfffoRefused, BfinsRefused, BfsetRefused, BftstRefused, CallmRefused, CasRefused,
  Cas2Refused, Chk32Refused, Chk2Refused, DivlRefused, ExtbRefused, Link32Refused, CmpipcRefused,
  MovefrcRefused, MovecRefused, MovesRefused, MullRefused, PackRefused, RtdRefused, RtmRefused,
  TrapccRefused, TstpcRefused, UnpkRefused, BkptRefused, CpAsLineF, FpuAsLineF, PmmuAsLineF}

\* Opcodes of later processors, and those of the coprocessors
LaterProcessors == {
  "bfchg", "bfclr", "bfexts", "bfextu", "bfffo", "bfins", "bfset", "bftst", "callm", "cas",
  "cas2", "chk32", "chk2", "divl", "extb", "link32", "cmpipc", "movefrc", "movec", "moves",
  "mull", "pack", "rtd", "rtm", "trapcc", "tstpc", "unpk", "bkpt"}
Coprocessors == {"cp", "fpu", "pmmu"}

\* The handler an opcode of this family runs
FlowExecute(c, i) ==
  CASE i.op = "bcc" -> Bcc(c, i)
    [] i.op = "dbcc" -> Dbcc(c, i)
    [] i.op = "bra" -> Bra(c, i)
    [] i.op = "bsr" -> Bsr(c, i)
    [] i.op = "jmp" -> JmpTo(c, i)
    [] i.op = "jsr" -> Jsr(c, i)
    [] i.op = "rts" -> Rts(c, i)
    [] i.op = "rtr" -> Rtr(c, i)
    [] i.op = "rte" -> Rte(c, i)
    [] i.op = "trap" -> Trap(c, i)
    [] i.op = "trapv" -> Trapv(c, i)
    [] i.op = "stop" -> Stop(c, i)
    [] i.op = "reset" -> Reset(c, i)
    [] i.op = "nop" -> Nop(c, i)
    [] i.op \in {"illegal"} \cup LaterProcessors -> Refused(c, i)
    [] i.op = "linea" -> LineA(c, i)
    [] i.op \in {"linef"} \cup Coprocessors -> LineF(c, i)
    [] i.op = "move16" -> Move16(c, i)
=============================================================================
