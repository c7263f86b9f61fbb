-------------------------------- MODULE M68kISA --------------------------------
(***************************************************************************)
(* The instruction set as the Lisa relies on it: one instruction of any     *)
(* family from any of a set of machines, and what must be true of the       *)
(* machine it leaves.  The properties compare the handlers with arithmetic  *)
(* on the integers, with one another, and with themselves run again after   *)
(* a bus error.                                                            *)
(***************************************************************************)
EXTENDS M68kArith, M68kLogic, M68kShift, M68kMove, M68kFlow

CONSTANTS
  Starts,       \* the machines an instruction is run on
  MaxSteps      \* bound: instructions a behaviour executes

ASSUME StartsAssumption == MaxSteps \in Nat /\ \A c \in Starts : MachineType(c)

VARIABLES m, steps
vars == <<m, steps>>

\* One turn of the loop: fetch the opcode, run the handler, land where it leaves
Running == steps < MaxSteps /\ m.stopped = {}
Run(left) ==
  /\ m' = Settle(left)
  /\ steps' = steps + 1

ArithNext == Running /\ \E i \in ArithInstructions : Run(ArithExecute(Begin(m, i), i))
LogicNext == Running /\ \E i \in LogicInstructions : Run(LogicExecute(Begin(m, i), i))
ShiftNext == Running /\ \E i \in ShiftInstructions : Run(ShiftExecute(Begin(m, i), i))
MoveNext == Running /\ \E i \in MoveInstructions : Run(MoveExecute(Begin(m, i), i))
FlowNext == Running /\ \E i \in FlowInstructions : Run(FlowExecute(Begin(m, i), i))

Init == m \in Starts /\ steps = 0
Next == ArithNext \/ LogicNext \/ ShiftNext \/ MoveNext \/ FlowNext
Spec == Init /\ [][Next]_vars

ArithOps == {i.op : i \in ArithInstructions}
LogicOps == {i.op : i \in LogicInstructions}
MoveOps  == {i.op : i \in MoveInstructions}
FlowOps  == {i.op : i \in FlowInstructions}
Execute(c, i) ==
  CASE i.op \in ArithOps -> ArithExecute(c, i)
    [] i.op \in LogicOps -> LogicExecute(c, i)
    [] i.op \in Shifts   -> ShiftExecute(c, i)
    [] i.op \in MoveOps  -> MoveExecute(c, i)
    [] i.op \in FlowOps  -> FlowExecute(c, i)
Step(c, i) == Settle(Execute(Begin(c, i), i))

\* The address an exception vector holds
RECURSIVE LongAt(_, _, _)
LongAt(c, a, n) == IF n = 0 THEN 0 ELSE LongAt(c, a, n - 1) * 2^B + ByteAt(c, a + n - 1)
Target(v) == LongAt(m, 4 * v, 4)
Vectors == {BusErrorVector, AddressErrorVector, IllegalVector, ZeroDivideVector, CheckVector,
            OverflowTrapVector, PrivilegeVector, ALineVector, FLineVector} \cup
           {TrapVector + n : n \in Conventions}
Entered(v) == m'.pc = Target(v) /\ m'.s = 1

\* What a program can see of a machine, the memory aside: the stack pointer of the mode
\* it is not in counts, the stale copy of the one it is in does not.
Seen(c) == [da |-> c.da, other |-> c.base[1 - c.s], pc |-> c.pc, sr |-> Sr(c), stopped |-> c.stopped]
SeenBut(c, pc) == Seen([c EXCEPT !.pc = pc])

\* The same memory but for n bytes from a, which the two may have used differently
AlikeBut(c, d, a, n) == \A b \in Ram : b \in a .. a + n - 1 \/ c.mem[b] = d.mem[b]

(***************************************************************************)
(* Restart.                                                                *)
(***************************************************************************)
\* The Lisa OS's BUS_ERR handler maps what was missing, drops the four words above the
\* status register, backs the PC up to the instruction and returns (docs/hardware-notes.md).
Resumed(c) ==
  LET back == Rte(SetReg([c EXCEPT !.out = {}], SP, c.da[SP] + 8), [op |-> "rte"])
  IN  [back EXCEPT !.pc = Mask(L, @ - 2)]

Restarts(again, straight, stack) == Seen(again) = Seen(straight) /\ AlikeBut(again, straight, stack, 14)

\* A user instruction stopped halfway by a bus error and run again from its start, once
\* the page is there, does exactly what it would have done had the page been there at
\* once: the registers the core puts back (REG_DA_SAVE) are enough, although memory and
\* the condition codes are not put back (m68ki_exception_bus_error).  MOVE16, which copies
\* a long at a time and is no 68000 instruction, would not when its operands overlap.
RestartIsTransparent ==
  [][(m.s = 0 /\ Entered(BusErrorVector) /\ m'.ir.op \notin {m.ir.op, "move16"})
       => \A again \in {Step(Resumed(m'), m'.ir)}, straight \in {Step([m EXCEPT !.out = {}], m'.ir)} :
            Restarts(again, straight, BusAddress(m'.da[SP]))]_vars

(***************************************************************************)
(* Privilege.                                                              *)
(***************************************************************************)
\* A user program gets at the supervisor's state only through a vector: an instruction
\* in user mode leaves the mask, the trace bit and the supervisor's stack pointer alone,
\* or enters a handler with the user's stack pointer put away and the user's mode on the
\* supervisor's stack (m68ki_init_exception and every handler that asks for FLAG_S).
SupervisorIsSealed ==
  [][m.s = 0 =>
       \/ /\ <<m'.s, m'.t, m'.mask, m'.base[1]>> = <<0, m.t, m.mask, m.base[1]>>
          /\ \A a \in Ram : m'.mem[a] # m.mem[a] => a \notin m.base[1] - 14 .. m.base[1] - 1
       \/ \E v \in Vectors :
            /\ Entered(v) /\ m'.mask = m.mask /\ m'.t = 0
            /\ LET frame == m.base[1] - m'.da[SP]
                   sr    == ValueAt(m', BusAddress(m'.da[SP] + frame - 6), 2)
               IN  frame \in {6, 14} /\ Bit(sr, W - 3) = 0]_vars

(***************************************************************************)
(* Arithmetic.  A sum names what is added to or taken from a register.      *)
(***************************************************************************)
InRegisters(i) == i.ea.mode \in {"d", "i"}
Completed == m'.run = "normal" /\ m'.ir # m.ir /\ m'.s = m.s /\ ~ \E v \in Vectors : Entered(v)
SourceOf(i) == Mask(i.size, IF i.ea.mode = "i" THEN i.ea.ext ELSE m.da[i.ea.reg])

Adds == {"add", "addi", "addq", "addx"}
Sums(i) ==
  CASE i.op \in {"add", "sub", "cmp", "addx", "subx"} ->
         [src |-> SourceOf(i), dst |-> Mask(i.size, m.da[i.arg]), reg |-> i.arg]
    [] i.op \in {"addi", "subi", "cmpi", "addq", "subq"} ->
         [src |-> Mask(i.size, i.arg), dst |-> SourceOf(i), reg |-> i.ea.reg]
    [] OTHER -> [src |-> SourceOf(i), dst |-> 0, reg |-> i.ea.reg]
Summing == {"add", "sub", "cmp", "addx", "subx", "addi", "subi", "cmpi", "addq", "subq", "neg", "negx"}
Extending == {"addx", "subx", "negx"}
Comparisons == {"cmp", "cmpi"}

Fits(size, v) == v \in Values(size)
FitsSigned(size, v) == v \in -2^(size - 1) .. 2^(size - 1) - 1

SumIsExact(i, s) ==
  LET carried == IF i.op \in Extending THEN m.x ELSE 0
      Total(f(_)) == IF i.op \in Adds THEN f(s.dst) + f(s.src) + carried ELSE f(s.dst) - f(s.src) - carried
      Plain(v) == v
      AsSigned(v) == Signed(i.size, v)
      result == Mask(i.size, Total(Plain))
  IN  /\ m'.c = AsFlag(~Fits(i.size, Total(Plain)))
      /\ m'.v = AsFlag(~FitsSigned(i.size, Total(AsSigned)))
      /\ m'.n = AsFlag(Signed(i.size, result) < 0)
      /\ m'.z = AsFlag(result = 0 /\ (i.op \in Extending => m.z = 1))
      /\ m'.x = IF i.op \in Comparisons THEN m.x ELSE m'.c
      /\ m'.da = IF i.op \in Comparisons THEN m.da ELSE [m.da EXCEPT ![s.reg] = @ - Mask(i.size, @) + result]

ProductIsExact(i) ==
  LET f(v) == IF i.op = "muls" THEN Signed(W, v) ELSE Mask(W, v)
  IN  m'.da[i.arg] = Mask(L, f(SourceOf(i)) * f(m.da[i.arg]))

\* dst = src * q + r, with r nearer zero than src and on dst's side of it
QuotientIsExact(i) ==
  LET Of(size, v) == IF i.op = "divs" THEN Signed(size, v) ELSE Mask(size, v)
      src == Of(W, SourceOf(i))
      dst == Of(L, m.da[i.arg])
      q   == Of(W, m'.da[i.arg])
      r   == Of(W, m'.da[i.arg] \div 2^W)
  IN  IF m'.v = 0
        THEN dst = src * q + r /\ Abs(r) < Abs(src) /\ (r = 0 \/ (r < 0 <=> dst < 0))
        ELSE m'.da = m.da /\ ~ (IF i.op = "divs" THEN FitsSigned(W, Quotient(dst, src)) ELSE Fits(W, Quotient(dst, src)))

\* The flags and the result of every addition, subtraction, comparison and negation are
\* those of the same operation on integers, at every width, although the core takes the
\* carry of a byte or word from the bit above it and that of a long from three sign bits
\* (CFLAG_ADD_32 and its kin); products and quotients are exact, or V says otherwise.
\* The most negative long over -1 is left out: there the code answers 0.
ArithmeticIsExact ==
  [][(Completed /\ InRegisters(m'.ir)) =>
       LET i == m'.ir IN
       CASE i.op \in Summing          -> SumIsExact(i, Sums(i))
         [] i.op \in {"muls", "mulu"} -> ProductIsExact(i)
         [] i.op = "divu"             -> QuotientIsExact(i)
         [] i.op = "divs"             -> m.da[i.arg] # 2^(L - 1) => QuotientIsExact(i)
         [] OTHER                     -> TRUE]_vars

\* Two decimal digits
IsDecimal(v) == Digit(v) < Ten /\ Tens(v) \div 2^Nib < Ten
Number(v) == (Tens(v) \div 2^Nib) * Ten + Digit(v)

DecimalIs(reg, total) ==
  LET v == Mask(B, m'.da[reg])
      over == total \notin 0 .. Ten * Ten - 1
  IN  /\ IsDecimal(v) /\ Number(v) = total % (Ten * Ten)
      /\ m'.c = AsFlag(over) /\ m'.x = m'.c
      /\ m'.z = AsFlag(m.z = 1 /\ v = 0)

\* On operands that are two decimal digits, ABCD, SBCD and NBCD do the arithmetic of
\* two-digit numbers with a carry, and Z survives a zero result, although the code
\* corrects a binary sum digit by digit with 0x06, 0x99 and 0xa0.
DecimalIsDecimal ==
  [][(Completed /\ m'.ir.op \in {"abcd", "sbcd", "nbcd"} /\ m'.ir.ea.mode = "d") =>
       LET i == m'.ir
           a == Mask(B, m.da[i.ea.reg])
           b == Mask(B, m.da[i.arg])
       IN  (IsDecimal(a) /\ (IsDecimal(b) \/ i.op = "nbcd")) =>
             CASE i.op = "abcd" -> DecimalIs(i.arg, Number(b) + Number(a) + m.x)
               [] i.op = "sbcd" -> DecimalIs(i.arg, Number(b) - Number(a) - m.x)
               [] i.op = "nbcd" -> DecimalIs(i.ea.reg, -Number(a) - m.x)]_vars

(***************************************************************************)
(* Shifts.  One place at a time: the value, the bit that left, X, and       *)
(* whether the sign has changed on the way.                                *)
(***************************************************************************)
OnePlace(op, size, s) ==
  LET top    == Msb(size, s.v)
      bottom == s.v % 2
      right  == s.v \div 2
      left   == Mask(size, 2 * s.v)
      half   == 2^(size - 1)
  IN  CASE op = "asr"  -> [v |-> right + top * half, c |-> bottom, x |-> bottom, o |-> 0]
        [] op = "lsr"  -> [v |-> right, c |-> bottom, x |-> bottom, o |-> 0]
        [] op = "lsl"  -> [v |-> left, c |-> top, x |-> top, o |-> 0]
        [] op = "asl"  -> [v |-> left, c |-> top, x |-> top, o |-> AsFlag(s.o = 1 \/ Msb(size, left) # top)]
        [] op = "ror"  -> [v |-> right + bottom * half, c |-> bottom, x |-> s.x, o |-> 0]
        [] op = "rol"  -> [v |-> left + top, c |-> top, x |-> s.x, o |-> 0]
        [] op = "roxr" -> [v |-> right + s.x * half, c |-> bottom, x |-> bottom, o |-> 0]
        [] op = "roxl" -> [v |-> left + s.x, c |-> top, x |-> top, o |-> 0]

RECURSIVE Places(_, _, _, _)
Places(op, size, s, n) == IF n = 0 THEN s ELSE Places(op, size, OnePlace(op, size, s), n - 1)

\* A shift or rotate by n is n shifts by one, flags included, for counts up to and past
\* the width: the code has a formula for each range of counts, and 33-bit rotates.
ShiftsIterate ==
  [][(Completed /\ m'.ir.op \in Shifts /\ m'.ir.ea.mode = "d") =>
       LET i == m'.ir
           n == IF i.arg.by = "count" THEN i.arg.n ELSE m.da[i.arg.n] % (2 * L)
           src == Mask(i.size, m.da[i.ea.reg])
           s == Places(i.op, i.size, [v |-> src, c |-> IF i.op \in ThroughX THEN m.x ELSE 0, x |-> m.x, o |-> 0], n)
       IN  /\ Mask(i.size, m'.da[i.ea.reg]) = s.v
           /\ <<m'.c, m'.x, m'.v>> = <<s.c, s.x, s.o>>
           /\ <<m'.n, m'.z>> = <<Msb(i.size, s.v), AsFlag(s.v = 0)>>]_vars

(***************************************************************************)
(* There and back.                                                         *)
(***************************************************************************)
WordsOf(i) == 1 + ExtensionWords(i.size, i.ea)
After(i) == Mask(L, m.pc + 2 * WordsOf(i))
Privileged == {"stop", "reset", "rte", "movetos", "movefru", "movetou", "andisr", "orisr", "eorisr"}
Refusals == {"illegal", "linea", "linef"} \cup LaterProcessors \cup Coprocessors

\* What takes the machine somewhere has a way back that leaves no trace: RTE from a
\* trap or a refused instruction, RTS from a call, UNLK from LINK, MOVEM from the stack,
\* EXG and SWAP a second time.  It holds for the mode, both stack pointers and every
\* flag, and for the address of the next instruction, or of the same one when refused.
ReturnsUnwind ==
  [][(m'.run = "normal" /\ m'.ir # m.ir /\ m'.stopped = {}) =>
       LET i == m'.ir IN
       CASE i.op \in Refusals \/ (m.s = 0 /\ i.op \in Privileged) -> Seen(Rte(m', i)) = Seen(m)
         [] i.op \in {"trap", "trapv"} /\ m'.pc # m.pc + 2 ->
              Seen(Rte(m', i)) = SeenBut(m, Mask(L, m.pc + 2))
         [] i.op = "jsr" /\ i.ea.mode \in {"ai", "di", "ix", "aw", "al"} -> Seen(Rts(m', i)) = SeenBut(m, After(i))
         [] i.op = "link" -> Unlk(m', i).da = m.da
         [] i.op = "movempd" /\ i.size = L /\ i.ea.reg \notin i.arg ->
              MovemEr([m' EXCEPT !.pc = m.pc], [i EXCEPT !.ea.mode = "pi"]).da = m.da
         [] i.op \in {"exg", "swap"} -> MoveExecute(m', i).da = m.da
         [] OTHER -> TRUE]_vars
=============================================================================
