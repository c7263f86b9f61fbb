------------------------------ MODULE M68kArith ------------------------------
(***************************************************************************)
(* Addition, subtraction, comparison, negation, multiplication, division    *)
(* and decimal arithmetic: the handlers, translated from the templates of   *)
(* m68k_in.c, and the set of opcodes of each group of functions that           *)
(* m68kmake generated from them into m68kops.c.                             *)
(***************************************************************************)
EXTENDS M68kStep

CONSTANT Ten          \* the base of a decimal digit: 10 in a nibble of 4 bits

Nib == ByteBits \div 2
ASSUME TenAssumption == Ten \in 2^(Nib - 1) + 1 .. 2^Nib

(***************************************************************************)
(* Sums and differences: the flags, and the masked result.  ADDX and its    *)
(* kin only ever clear Z, so a chain of them tests a long number for zero.  *)
(***************************************************************************)
Adding(c, size, src, dst) ==
  LET res   == dst + src
      carry == CarryAdd(size, src, dst, res)
  IN  [m |-> Go(c, [c EXCEPT !.n = NFlag(size, res), !.z = ZFlag(size, res), !.c = carry,
                             !.v = OverflowAdd(size, src, dst, res), !.x = carry]),
       v |-> Mask(size, res)]

AddingX(c, size, src, dst) ==
  LET res   == dst + src + c.x
      carry == CarryAdd(size, src, dst, res)
  IN  [m |-> Go(c, [c EXCEPT !.n = NFlag(size, res), !.z = IF Mask(size, res) = 0 THEN @ ELSE 0,
                             !.c = carry, !.v = OverflowAdd(size, src, dst, res), !.x = carry]),
       v |-> Mask(size, res)]

Comparing(c, size, src, dst) ==
  LET res == dst - src
  IN  Go(c, [c EXCEPT !.n = NFlag(size, res), !.z = ZFlag(size, res),
                      !.v = OverflowSub(size, src, dst, res), !.c = CarrySub(size, src, dst, res)])

WithX(k, v) == [m |-> Go(k, [k EXCEPT !.x = k.c]), v |-> v]
Subtracting(c, size, src, dst) == WithX(Comparing(c, size, src, dst), Mask(size, dst - src))

SubtractingX(c, size, src, dst) ==
  LET res   == dst - src - c.x
      carry == CarrySub(size, src, dst, res)
  IN  [m |-> Go(c, [c EXCEPT !.n = NFlag(size, res), !.z = IF Mask(size, res) = 0 THEN @ ELSE 0,
                             !.c = carry, !.v = OverflowSub(size, src, dst, res), !.x = carry]),
       v |-> Mask(size, res)]

(***************************************************************************)
(* ADD, SUB, CMP: an operand into a data register (`er`), or a data         *)
(* register into memory (`re`).                                             *)
(***************************************************************************)
ToReg(c, i, F(_, _, _, _)) ==
  LET G(k, src)  == F(k, i.size, src, Mask(i.size, k.da[i.arg]))
      Keep(k, v) == SetD(k, i.size, i.arg, v)
  IN  With(With(Oper(c, i.size, i.ea), G), Keep)

FromReg(c, i, F(_, _, _, _)) ==
  LET G(k, dst) == F(k, i.size, Mask(i.size, k.da[i.arg]), dst) IN Update(c, i.size, i.ea, G)

AddEr(c, i) == ToReg(c, i, Adding)
AddRe(c, i) == FromReg(c, i, Adding)
SubEr(c, i) == ToReg(c, i, Subtracting)
SubRe(c, i) == FromReg(c, i, Subtracting)

Cmp(c, i) ==
  LET Against(k, src) == Comparing(k, i.size, src, Mask(i.size, k.da[i.arg]))
  IN  With(Oper(c, i.size, i.ea), Against)

\* ADDA, SUBA, CMPA: a word source is extended, the operation is 32 bits wide
Adda(c, i) ==
  LET Add(k, src) == SetReg(k, i.arg, k.da[i.arg] + Extend(i.size, src)) IN With(Oper(c, i.size, i.ea), Add)
Suba(c, i) ==
  LET Take(k, src) == SetReg(k, i.arg, k.da[i.arg] - Extend(i.size, src)) IN With(Oper(c, i.size, i.ea), Take)
Cmpa(c, i) ==
  LET Against(k, src) == Comparing(k, L, Extend(i.size, src), k.da[i.arg])
  IN  With(Oper(c, i.size, i.ea), Against)

\* ADDI, SUBI, CMPI: the immediate (the field `arg`) is fetched before the operand
ImmediateTo(c, i, F(_, _, _, _)) ==
  LET f == Fetch(c, IF i.size = L THEN 2 ELSE 1)
      G(k, dst) == F(k, i.size, Mask(i.size, i.arg), dst)
  IN  Update(f, i.size, i.ea, G)

Addi(c, i) == ImmediateTo(c, i, Adding)
Subi(c, i) == ImmediateTo(c, i, Subtracting)

Cmpi(c, i) ==
  LET Against(k, dst) == Comparing(k, i.size, Mask(i.size, i.arg), dst)
  IN  With(Oper(Fetch(c, IF i.size = L THEN 2 ELSE 1), i.size, i.ea), Against)

\* ADDQ, SUBQ: 1 .. 8 in the opcode; an address register changes whole and sets no flag
Quick(c, i, F(_, _, _, _)) ==
  LET G(k, dst) == F(k, i.size, i.arg, dst) IN Update(c, i.size, i.ea, G)

Addq(c, i) == IF i.ea.mode = "a" THEN SetReg(c, i.ea.reg, c.da[i.ea.reg] + i.arg) ELSE Quick(c, i, Adding)
Subq(c, i) == IF i.ea.mode = "a" THEN SetReg(c, i.ea.reg, c.da[i.ea.reg] - i.arg) ELSE Quick(c, i, Subtracting)

\* ADDX, SUBX Dy,Dx and -(Ay),-(Ax)
PairRr(c, i, F(_, _, _, _)) ==
  LET Keep(k, v) == SetD(k, i.size, i.arg, v)
  IN  With(F(c, i.size, Mask(i.size, c.da[i.ea.reg]), Mask(i.size, c.da[i.arg])), Keep)

PairMm(c, i, F(_, _, _, _)) ==
  LET Second(k, src) == LET G(j, dst) == F(j, i.size, src, dst)
                        IN  Update(k, i.size, [mode |-> "pd", reg |-> i.arg], G)
  IN  With(Oper(c, i.size, i.ea), Second)

AddxRr(c, i) == PairRr(c, i, AddingX)
AddxMm(c, i) == PairMm(c, i, AddingX)
SubxRr(c, i) == PairRr(c, i, SubtractingX)
SubxMm(c, i) == PairMm(c, i, SubtractingX)

\* CMPM (Ay)+,(Ax)+
Cmpm(c, i) ==
  LET Second(k, src) == LET Against(j, dst) == Comparing(j, i.size, src, dst)
                        IN  With(Oper(k, i.size, [mode |-> "pi", reg |-> i.arg]), Against)
  IN  With(Oper(c, i.size, i.ea), Second)

\* NEG, NEGX: FLAG_V is (source & result), which is VFLAG_SUB with a zero destination
Neg(c, i) == LET F(k, src) == Subtracting(k, i.size, src, 0) IN Update(c, i.size, i.ea, F)
Negx(c, i) == LET F(k, src) == SubtractingX(k, i.size, src, 0) IN Update(c, i.size, i.ea, F)

\* CLR writes without reading first; the flags follow the write
Clr(c, i) == LET Zero(k) == 0 IN Logic(Assign(c, i.size, i.ea, Zero), i.size, 0)

Tst(c, i) == LET Flags(k, v) == Logic(k, i.size, v) IN With(Oper(c, i.size, i.ea), Flags)

\* EXT.W and EXT.L: `size` is the width of the result
Ext(c, i) ==
  LET v == Signed(i.size \div 2, c.da[i.ea.reg])
  IN  Logic(SetD(c, i.size, i.ea.reg, v), i.size, Mask(i.size, v))

(***************************************************************************)
(* Multiplication and division of a data register.                          *)
(***************************************************************************)
Product(k, x, v) == Logic(SetReg(k, x, v), L, Mask(L, v))

Muls(c, i) ==
  LET Times(k, src) == Product(k, i.arg, Signed(W, src) * Signed(W, k.da[i.arg]))
  IN  With(Oper(c, W, i.ea), Times)

Mulu(c, i) ==
  LET Times(k, src) == Product(k, i.arg, src * Mask(W, k.da[i.arg])) IN With(Oper(c, W, i.ea), Times)

\* C division: the quotient is truncated towards zero
Abs(a) == IF a < 0 THEN -a ELSE a
Quotient(a, b) == LET q == Abs(a) \div Abs(b) IN IF (a < 0) = (b < 0) THEN q ELSE -q
Remainder(a, b) == a - b * Quotient(a, b)

\* A quotient that fits leaves quotient and remainder; one that does not leaves FLAG_V
Divided(c, x, q, r, fits) ==
  IF fits THEN Go(c, Logic([c EXCEPT !.da[x] = Mask(W, q) + 2^W * Mask(W, r)], W, Mask(W, q)))
  ELSE Go(c, [c EXCEPT !.v = 1])

\* The most negative long by -1: the code answers 0 instead of asking the host
Divs(c, i) ==
  LET By(k, v) ==
        LET src == Signed(W, v)
            dst == Signed(L, k.da[i.arg])
            q   == Quotient(dst, src)
        IN  CASE src = 0 -> Exception(k, ZeroDivideVector, k.pc)
              [] dst = -2^(L - 1) /\ src = -1 -> Product(k, i.arg, 0)
              [] OTHER -> Divided(k, i.arg, q, Remainder(dst, src), q = Signed(W, q))
  IN  With(Oper(c, W, i.ea), By)

Divu(c, i) ==
  LET By(k, src) ==
        IF src = 0 THEN Exception(k, ZeroDivideVector, k.pc)
        ELSE Divided(k, i.arg, k.da[i.arg] \div src, k.da[i.arg] % src, k.da[i.arg] \div src < 2^W)
  IN  With(Oper(c, W, i.ea), By)

\* CHK: N is left alone when the register is within bounds
Chk(c, i) ==
  LET Within(k, bound) ==
        LET src  == Signed(W, k.da[i.arg])
            done == Go(k, [k EXCEPT !.z = ZFlag(W, src), !.v = 0, !.c = 0])
        IN  IF src \in 0 .. Signed(W, bound) THEN done
            ELSE Go(k, Exception([done EXCEPT !.n = AsFlag(src < 0)], CheckVector, k.pc))
  IN  With(Oper(c, W, i.ea), Within)

(***************************************************************************)
(* Decimal arithmetic: two digits in a byte.  N and V are undefined on the  *)
(* chip; the code gives them the values below.                              *)
(***************************************************************************)
Digit(v) == v % 2^Nib
Tens(v) == Mask(B, v) - Digit(v)
Skip == 2^Nib - Ten                          \* 6
Ninety9 == (Ten - 1) * 2^Nib + Ten - 1       \* 0x99
Hundred == Ten * 2^Nib                       \* 0xa0

Decimal(c, first, last, carry) ==
  [m |-> Go(c, [c EXCEPT !.x = AsFlag(carry), !.c = AsFlag(carry), !.n = Msb(B, Mask(B, last)),
                         !.v = AsFlag(Bit(first, B - 1) = 0 /\ Bit(last, B - 1) = 1),
                         !.z = IF Mask(B, last) = 0 THEN @ ELSE 0]),
   v |-> Mask(B, last)]

\* A mutated form: the carry into the sum does not count for the correction of the low digit.
AbcdUncarried(c, size, src, dst) ==
  LET low   == Digit(src) + Digit(dst)
      sum   == (IF low > Ten - 1 THEN low + Skip ELSE low) + Tens(src) + Tens(dst) + c.x
      carry == sum > Ninety9
  IN  Decimal(c, low, IF carry THEN sum - Hundred ELSE sum, carry)

Abcd(c, size, src, dst) ==
  LET low   == Digit(src) + Digit(dst) + c.x
      sum   == (IF low > Ten - 1 THEN low + Skip ELSE low) + Tens(src) + Tens(dst)
      carry == sum > Ninety9
  IN  Decimal(c, low, IF carry THEN sum - Hundred ELSE sum, carry)

\* The C code works in unsigned integers: a negative difference is a large number
Sbcd(c, size, src, dst) ==
  LET low   == Digit(dst) - Digit(src) - c.x
      dif   == (IF low < 0 \/ low > Ten - 1 THEN low - Skip ELSE low) + Tens(dst) - Tens(src)
      carry == dif < 0 \/ dif > Ninety9
  IN  Decimal(c, low, IF carry THEN dif + Hundred ELSE dif, carry)

AbcdRr(c, i) == PairRr(c, i, Abcd)
AbcdMm(c, i) == PairMm(c, i, Abcd)
SbcdRr(c, i) == PairRr(c, i, Sbcd)
SbcdMm(c, i) == PairMm(c, i, Sbcd)

\* NBCD writes only when there is something to borrow; V is set before the write
Nbcd(c, i) ==
  LET Unborrowed(k) == Go(k, [k EXCEPT !.v = 0, !.c = 0, !.x = 0, !.n = Msb(B, Ninety9 + 1)])
      Borrowed(k, v) ==
        Go(k, [k EXCEPT !.c = 1, !.x = 1, !.n = Msb(B, v), !.z = IF v = 0 THEN @ ELSE 0])
      From(k, src, Store(_, _)) ==
        LET res  == Mask(B, Ninety9 + 1 - src - k.x)
            last == IF Digit(res) = Ten THEN Mask(B, Tens(res) + 2^Nib) ELSE res
            over == Go(k, [k EXCEPT !.v = AsFlag(Msb(B, res) = 0 /\ Msb(B, last) = 1)])
        IN  IF res = Ninety9 + 1 THEN Unborrowed(k) ELSE Borrowed(Store(over, last), last)
      Keep(k, v)  == SetD(k, B, i.ea.reg, v)
      At(k, a)    == LET Store(j, v)   == Write(j, B, a, v)
                         Fetched(j, v) == From(j, v, Store)
                     IN  With(Read(k, B, a), Fetched)
  IN  IF i.ea.mode = "d" THEN From(c, Mask(B, c.da[i.ea.reg]), Keep) ELSE With(Ea(c, B, i.ea), At)

(***************************************************************************)
(* The opcodes: m68k_op_<instruction>_<width>_<form> of m68kops.c.          *)
(***************************************************************************)

\* m68k_op_add_*
Add8Er == Ins("add", B, DataReg \cup Readable, DRegs)
Add16Er == Ins("add", W, DataReg \cup AddressReg \cup Readable, DRegs)
Add32Er == Ins("add", L, DataReg \cup AddressReg \cup Readable, DRegs)
Add8Re == Ins("addm", B, Memory, DRegs)
Add16Re == Ins("addm", W, Memory, DRegs)
Add32Re == Ins("addm", L, Memory, DRegs)
Adda16 == Ins("adda", W, DataReg \cup AddressReg \cup Readable, ARegs)
Adda32 == Ins("adda", L, DataReg \cup AddressReg \cup Readable, ARegs)
Addi8 == Ins("addi", B, DataReg \cup Memory, Immediates)
Addi16 == Ins("addi", W, DataReg \cup Memory, Immediates)
Addi32 == Ins("addi", L, DataReg \cup Memory, Immediates)
Addq8 == Ins("addq", B, DataReg \cup Memory, QuickData)
Addq16 == Ins("addq", W, DataReg \cup AddressReg \cup Memory, QuickData)
Addq32 == Ins("addq", L, DataReg \cup AddressReg \cup Memory, QuickData)
Addx8Rr == Ins("addx", B, DataReg, DRegs)
Addx16Rr == Ins("addx", W, DataReg, DRegs)
Addx32Rr == Ins("addx", L, DataReg, DRegs)
Addx8Mm == Ins("addxm", B, PreDecrement, ARegs)
Addx16Mm == Ins("addxm", W, PreDecrement, ARegs)
Addx32Mm == Ins("addxm", L, PreDecrement, ARegs)

\* m68k_op_sub_*
Sub8Er == Ins("sub", B, DataReg \cup Readable, DRegs)
Sub16Er == Ins("sub", W, DataReg \cup AddressReg \cup Readable, DRegs)
Sub32Er == Ins("sub", L, DataReg \cup AddressReg \cup Readable, DRegs)
Sub8Re == Ins("subm", B, Memory, DRegs)
Sub16Re == Ins("subm", W, Memory, DRegs)
Sub32Re == Ins("subm", L, Memory, DRegs)
Suba16 == Ins("suba", W, DataReg \cup AddressReg \cup Readable, ARegs)
Suba32 == Ins("suba", L, DataReg \cup AddressReg \cup Readable, ARegs)
Subi8 == Ins("subi", B, DataReg \cup Memory, Immediates)
Subi16 == Ins("subi", W, DataReg \cup Memory, Immediates)
Subi32 == Ins("subi", L, DataReg \cup Memory, Immediates)
Subq8 == Ins("subq", B, DataReg \cup Memory, QuickData)
Subq16 == Ins("subq", W, DataReg \cup AddressReg \cup Memory, QuickData)
Subq32 == Ins("subq", L, DataReg \cup AddressReg \cup Memory, QuickData)
Subx8Rr == Ins("subx", B, DataReg, DRegs)
Subx16Rr == Ins("subx", W, DataReg, DRegs)
Subx32Rr == Ins("subx", L, DataReg, DRegs)
Subx8Mm == Ins("subxm", B, PreDecrement, ARegs)
Subx16Mm == Ins("subxm", W, PreDecrement, ARegs)
Subx32Mm == Ins("subxm", L, PreDecrement, ARegs)

\* m68k_op_cmp_*
Cmp8 == Ins("cmp", B, DataReg \cup Readable, DRegs)
Cmp16 == Ins("cmp", W, DataReg \cup AddressReg \cup Readable, DRegs)
Cmp32 == Ins("cmp", L, DataReg \cup AddressReg \cup Readable, DRegs)
Cmpa16 == Ins("cmpa", W, DataReg \cup AddressReg \cup Readable, ARegs)
Cmpa32 == Ins("cmpa", L, DataReg \cup AddressReg \cup Readable, ARegs)
Cmpi8 == Ins("cmpi", B, DataReg \cup Memory, Immediates)
Cmpi16 == Ins("cmpi", W, DataReg \cup Memory, Immediates)
Cmpi32 == Ins("cmpi", L, DataReg \cup Memory, Immediates)
Cmpm8 == Ins("cmpm", B, PostIncrement, ARegs)
Cmpm16 == Ins("cmpm", W, PostIncrement, ARegs)
Cmpm32 == Ins("cmpm", L, PostIncrement, ARegs)

\* m68k_op_neg_*
Neg8 == Ins("neg", B, DataReg \cup Memory, {0})
Neg16 == Ins("neg", W, DataReg \cup Memory, {0})
Neg32 == Ins("neg", L, DataReg \cup Memory, {0})

\* m68k_op_negx_*
Negx8 == Ins("negx", B, DataReg \cup Memory, {0})
Negx16 == Ins("negx", W, DataReg \cup Memory, {0})
Negx32 == Ins("negx", L, DataReg \cup Memory, {0})

\* m68k_op_clr_*
Clr8 == Ins("clr", B, DataReg \cup Memory, {0})
Clr16 == Ins("clr", W, DataReg \cup Memory, {0})
Clr32 == Ins("clr", L, DataReg \cup Memory, {0})

\* m68k_op_tst_*
Tst8 == Ins("tst", B, DataReg \cup Memory, {0})
Tst16 == Ins("tst", W, DataReg \cup Memory, {0})
Tst32 == Ins("tst", L, DataReg \cup Memory, {0})

\* m68k_op_ext_*
Ext16 == Ins("ext", W, DataReg, {0})
Ext32 == Ins("ext", L, DataReg, {0})

\* m68k_op_muls_*, mulu, divs, divu, chk
Muls16 == Ins("muls", W, DataReg \cup Readable, DRegs)
Mulu16 == Ins("mulu", W, DataReg \cup Readable, DRegs)
Divs16 == Ins("divs", W, DataReg \cup Readable, DRegs)
Divu16 == Ins("divu", W, DataReg \cup Readable, DRegs)
Chk16 == Ins("chk", W, DataReg \cup Readable, DRegs)

\* m68k_op_abcd_*, sbcd, nbcd
Abcd8Rr == Ins("abcd", B, DataReg, DRegs)
Abcd8Mm == Ins("abcdm", B, PreDecrement, ARegs)
Sbcd8Rr == Ins("sbcd", B, DataReg, DRegs)
Sbcd8Mm == Ins("sbcdm", B, PreDecrement, ARegs)
Nbcd8 == Ins("nbcd", B, DataReg \cup Memory, {0})

ArithInstructions == UNION {
  Add8Er, Add16Er, Add32Er, Add8Re, Add16Re, Add32Re, Adda16, Adda32, Addi8, Addi16, Addi32, Addq8,
  Addq16, Addq32, Addx8Rr, Addx16Rr, Addx32Rr, Addx8Mm, Addx16Mm, Addx32Mm, Sub8Er, Sub16Er,
  Sub32Er, Sub8Re, Sub16Re, Sub32Re, Suba16, Suba32, Subi8, Subi16, Subi32, Subq8, Subq16, Subq32,
  Subx8Rr, Subx16Rr, Subx32Rr, Subx8Mm, Subx16Mm, Subx32Mm, Cmp8, Cmp16, Cmp32, Cmpa16, Cmpa32,
  Cmpi8, Cmpi16, Cmpi32, Cmpm8, Cmpm16, Cmpm32, Neg8, Neg16, Neg32, Negx8, Negx16, Negx32, Clr8,
  Clr16, Clr32, Tst8, Tst16, Tst32, Ext16, Ext32, Muls16, Mulu16, Divs16, Divu16, Chk16, Abcd8Rr,
  Abcd8Mm, Sbcd8Rr, Sbcd8Mm, Nbcd8}

\* The handler an opcode of this family runs
ArithExecute(c, i) ==
  CASE i.op = "add" -> AddEr(c, i)
    [] i.op = "addm" -> AddRe(c, i)
    [] i.op = "adda" -> Adda(c, i)
    [] i.op = "addi" -> Addi(c, i)
    [] i.op = "addq" -> Addq(c, i)
    [] i.op = "addx" -> AddxRr(c, i)
    [] i.op = "addxm" -> AddxMm(c, i)
    [] i.op = "sub" -> SubEr(c, i)
    [] i.op = "subm" -> SubRe(c, i)
    [] i.op = "suba" -> Suba(c, i)
    [] i.op = "subi" -> Subi(c, i)
    [] i.op = "subq" -> Subq(c, i)
    [] i.op = "subx" -> SubxRr(c, i)
    [] i.op = "subxm" -> SubxMm(c, i)
    [] i.op = "cmp" -> Cmp(c, i)
    [] i.op = "cmpa" -> Cmpa(c, i)
    [] i.op = "cmpi" -> Cmpi(c, i)
    [] i.op = "cmpm" -> Cmpm(c, i)
    [] i.op = "neg" -> Neg(c, i)
    [] i.op = "negx" -> Negx(c, i)
    [] i.op = "clr" -> Clr(c, i)
    [] i.op = "tst" -> Tst(c, i)
    [] i.op = "ext" -> Ext(c, i)
    [] i.op = "muls" -> Muls(c, i)
    [] i.op = "mulu" -> Mulu(c, i)
    [] i.op = "divs" -> Divs(c, i)
    [] i.op = "divu" -> Divu(c, i)
    [] i.op = "chk" -> Chk(c, i)
    [] i.op = "abcd" -> AbcdRr(c, i)
    [] i.op = "abcdm" -> AbcdMm(c, i)
    [] i.op = "sbcd" -> SbcdRr(c, i)
    [] i.op = "sbcdm" -> SbcdMm(c, i)
    [] i.op = "nbcd" -> Nbcd(c, i)
=============================================================================
