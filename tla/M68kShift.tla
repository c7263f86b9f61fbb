------------------------------ MODULE M68kShift ------------------------------
(***************************************************************************)
(* Shifts and rotates.  A shift of `src` by n > 0 places is a record: the   *)
(* result, the last bit out, the new X, and the overflow; the code's        *)
(* formulas for counts below, at and beyond the width are kept apart.       *)
(***************************************************************************)
EXTENDS M68kStep

Asr(size, src, n, x) ==
  LET sign == Msb(size, src)
      last == IF n < size THEN Bit(src, n - 1) ELSE sign
  IN  [v |-> IF n < size THEN src \div 2^n + sign * (2^size - 2^(size - n)) ELSE sign * (2^size - 1),
       c |-> last, x |-> last, o |-> 0]

Lsr(size, src, n, x) ==
  LET last == IF n <= size THEN Bit(src, n - 1) ELSE 0
  IN  [v |-> IF n <= size THEN src \div 2^n ELSE 0, c |-> last, x |-> last, o |-> 0]

\* A mutated form: a shift by the whole width carries nothing out.
LslShort(size, src, n, x) ==
  LET last == IF n < size THEN Bit(src, size - n) ELSE 0
  IN  [v |-> IF n < size THEN (src % 2^(size - n)) * 2^n ELSE 0, c |-> last, x |-> last, o |-> 0]

Lsl(size, src, n, x) ==
  LET last == IF n <= size THEN Bit(src, size - n) ELSE 0
  IN  [v |-> IF n <= size THEN (src % 2^(size - n)) * 2^n ELSE 0, c |-> last, x |-> last, o |-> 0]

\* FLAG_V of ASL: the sign changed on the way, i.e. the top n + 1 bits were not all equal
Asl(size, src, n, x) ==
  LET top == src \div 2^(size - 1 - n)
      all == 2^(n + 1) - 1
  IN  [Lsl(size, src, n, x) EXCEPT
         !.o = AsFlag(IF n < size THEN top \notin {0, all} ELSE src # 0)]

\* ROR_8/16/32, ROL_8/16/32 with the count reduced to the width; X stays
Turn(size, src, k) == (src % 2^k) * 2^(size - k) + src \div 2^k

Ror(size, src, n, x) ==
  [v |-> Turn(size, src, n % size), c |-> Bit(src, (n - 1) % size), x |-> x, o |-> 0]

Rol(size, src, n, x) ==
  [v |-> Turn(size, src, (size - n) % size), c |-> Bit(src, (-n) % size), x |-> x, o |-> 0]

\* ROR_9/17/33, ROL_9/17/33: X is the bit above the operand
Through(size, wide) == [v |-> Mask(size, wide), c |-> Bit(wide, size), x |-> Bit(wide, size), o |-> 0]

Roxr(size, src, n, x) == Through(size, Turn(size + 1, x * 2^size + src, n % (size + 1)))
Roxl(size, src, n, x) == Through(size, Turn(size + 1, x * 2^size + src, (-n) % (size + 1)))

Shifts == {"asr", "asl", "lsr", "lsl", "ror", "rol", "roxr", "roxl"}
Shifted(op, size, src, n, x) ==
  CASE op = "asr"  -> Asr(size, src, n, x)  [] op = "asl"  -> Asl(size, src, n, x)
    [] op = "lsr"  -> Lsr(size, src, n, x)  [] op = "lsl"  -> Lsl(size, src, n, x)
    [] op = "ror"  -> Ror(size, src, n, x)  [] op = "rol"  -> Rol(size, src, n, x)
    [] op = "roxr" -> Roxr(size, src, n, x) [] op = "roxl" -> Roxl(size, src, n, x)

ThroughX == {"roxr", "roxl"}

\* A count of zero moves nothing: C is cleared, or is X for the rotates through X
Unshifted(op, src, x) == [v |-> src, c |-> IF op \in ThroughX THEN x ELSE 0, x |-> x, o |-> 0]

ShiftFlags(c, size, s) ==
  Go(c, [c EXCEPT !.n = NFlag(size, s.v), !.z = ZFlag(size, s.v), !.c = s.c, !.x = s.x, !.v = s.o])

Shift(c, i, n) ==
  LET Done(s) == ShiftFlags(SetD(c, i.size, i.ea.reg, s.v), i.size, s)
      src     == Mask(i.size, c.da[i.ea.reg])
  IN  Done(IF n = 0 THEN Unshifted(i.op, src, c.x) ELSE Shifted(i.op, i.size, src, n, c.x))

ShiftS(c, i) == Shift(c, i, i.arg.n)
ShiftR(c, i) == Shift(c, i, c.da[i.arg.n] % (2 * L))

\* A memory word by one place: the write precedes the flags, C and X of ROXd excepted
ShiftMemory(c, i) ==
  LET Early(k, s) == IF i.op \in ThroughX THEN Go(k, [k EXCEPT !.c = s.c, !.x = s.x]) ELSE k
      At(k, a)    ==
        LET Store(j, s)  == ShiftFlags(Write(Early(j, s), W, a, s.v), W, s)
            From(j, src) == Store(j, Shifted(i.op, W, src, 1, j.x))
        IN  With(Read(k, W, a), From)
  IN  With(Ea(c, W, i.ea), At)

(***************************************************************************)
(* The opcodes: m68k_op_<shift>_<width>_s (a count in the opcode), _r (in a *)
(* data register), and the memory forms.                                    *)
(***************************************************************************)
Counts == 1 .. B
ByCount(op) == UNION {Ins(op, size, DataReg, [by : {"count"}, n : Counts]) : size \in Sizes}
ByRegister(op) == UNION {Ins(op, size, DataReg, [by : {"register"}, n : DRegs]) : size \in Sizes}
InMemory(op) == Ins(op, W, Memory, [by : {"one"}, n : {1}])

AsrStatic == ByCount("asr")
AsrRegister == ByRegister("asr")
AsrMemory == InMemory("asr")
AslStatic == ByCount("asl")
AslRegister == ByRegister("asl")
AslMemory == InMemory("asl")
LsrStatic == ByCount("lsr")
LsrRegister == ByRegister("lsr")
LsrMemory == InMemory("lsr")
LslStatic == ByCount("lsl")
LslRegister == ByRegister("lsl")
LslMemory == InMemory("lsl")
RorStatic == ByCount("ror")
RorRegister == ByRegister("ror")
RorMemory == InMemory("ror")
RolStatic == ByCount("rol")
RolRegister == ByRegister("rol")
RolMemory == InMemory("rol")
RoxrStatic == ByCount("roxr")
RoxrRegister == ByRegister("roxr")
RoxrMemory == InMemory("roxr")
RoxlStatic == ByCount("roxl")
RoxlRegister == ByRegister("roxl")
RoxlMemory == InMemory("roxl")

ShiftInstructions == UNION {
  AsrStatic, AsrRegister, AsrMemory, AslStatic, AslRegister, AslMemory,
  LsrStatic, LsrRegister, LsrMemory, LslStatic, LslRegister, LslMemory,
  RorStatic, RorRegister, RorMemory, RolStatic, RolRegister, RolMemory,
  RoxrStatic, RoxrRegister, RoxrMemory, RoxlStatic, RoxlRegister, RoxlMemory}

\* The handler an opcode of this family runs
ShiftExecute(c, i) ==
  CASE i.arg.by = "count"    -> ShiftS(c, i)
    [] i.arg.by = "register" -> ShiftR(c, i)
    [] i.arg.by = "one"      -> ShiftMemory(c, i)
=============================================================================
