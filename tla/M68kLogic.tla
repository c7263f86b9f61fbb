------------------------------ MODULE M68kLogic ------------------------------
(***************************************************************************)
(* AND, OR, EOR, NOT, single bits, TAS, Scc and the immediates to CCR and   *)
(* SR (m68k_in.c; an opcode set for each group of functions of m68kops.c).            *)
(***************************************************************************)
EXTENDS M68kStep, Bitwise

AndOf(a, b) == a & b
OrOf(a, b) == a | b
EorOf(a, b) == a ^^ b

(***************************************************************************)
(* Two operands.  AND to memory sets the flags and then writes; OR and EOR  *)
(* write and then set the flags.                                            *)
(***************************************************************************)
LogicToReg(c, i, R(_, _)) ==
  LET Keep(k, v)    == Logic(SetD(k, i.size, i.arg, v), i.size, v)
      Joined(k, src) == Keep(k, R(src, Mask(i.size, k.da[i.arg])))
  IN  With(Oper(c, i.size, i.ea), Joined)

FlagsThenWrite(c, size, ea, src, R(_, _)) ==
  LET Flagged(k, v) == [m |-> Logic(k, size, v), v |-> v]
      F(k, old) == Flagged(k, R(src, old))
  IN  Update(c, size, ea, F)

WriteThenFlags(c, size, ea, src, R(_, _)) ==
  LET G(old) == R(src, old)
      F(k, v) == Logic(k, size, v)
  IN  Rewrite(c, size, ea, G, F)

DataOf(c, i) == Mask(i.size, c.da[i.arg])
AndEr(c, i) == LogicToReg(c, i, AndOf)
AndRe(c, i) == FlagsThenWrite(c, i.size, i.ea, DataOf(c, i), AndOf)
OrEr(c, i) == LogicToReg(c, i, OrOf)
OrRe(c, i) == WriteThenFlags(c, i.size, i.ea, DataOf(c, i), OrOf)
Eor(c, i) == WriteThenFlags(c, i.size, i.ea, DataOf(c, i), EorOf)

\* The immediate (the field `arg`) is fetched before the operand's address is formed
FetchImmediate(c, i) == Fetch(c, IF i.size = L THEN 2 ELSE 1)
Andi(c, i) == FlagsThenWrite(FetchImmediate(c, i), i.size, i.ea, Mask(i.size, i.arg), AndOf)
Ori(c, i) == WriteThenFlags(FetchImmediate(c, i), i.size, i.ea, Mask(i.size, i.arg), OrOf)
Eori(c, i) == WriteThenFlags(FetchImmediate(c, i), i.size, i.ea, Mask(i.size, i.arg), EorOf)

Complement(size, v) == 2^size - 1 - v
Invert(c, i) ==
  LET R(old) == Complement(i.size, old)
      F(k, v) == Logic(k, i.size, v)
  IN  Rewrite(c, i.size, i.ea, R, F)

\* ANDI, ORI, EORI to CCR and, privileged, to SR
ToCcr(c, i, R(_, _)) == SetCcr(Fetch(c, 1), R(Mask(B, i.arg), Ccr(c)))
ToSr(c, i, R(_, _)) ==
  IF c.s = 1 THEN SetSr(Fetch(c, 1), R(Mask(W, i.arg), Sr(c))) ELSE Privilege(c)

AndiToCcr(c, i) == ToCcr(c, i, AndOf)
OriToCcr(c, i) == ToCcr(c, i, OrOf)
EoriToCcr(c, i) == ToCcr(c, i, EorOf)
AndiToSr(c, i) == ToSr(c, i, AndOf)
OriToSr(c, i) == ToSr(c, i, OrOf)
EoriToSr(c, i) == ToSr(c, i, EorOf)

(***************************************************************************)
(* BTST, BCHG, BCLR, BSET: bit n of a data register modulo 32, or of a      *)
(* memory byte modulo 8.  Z is set from the old bit, before the write.      *)
(***************************************************************************)
BitWidth(op) == IF op.mode = "d" THEN L ELSE B

Bchg(v, n) == IF Bit(v, n) = 1 THEN v - 2^n ELSE v + 2^n
Bclr(v, n) == IF Bit(v, n) = 1 THEN v - 2^n ELSE v
Bset(v, n) == IF Bit(v, n) = 1 THEN v ELSE v + 2^n

TestBit(c, v, n) == Go(c, [c EXCEPT !.z = 1 - Bit(v, n)])

ChangeBit(c, i, n, R(_, _)) ==
  LET k == n % BitWidth(i.ea)
      F(a, old) == [m |-> TestBit(a, old, k), v |-> R(old, k)]
  IN  Update(c, BitWidth(i.ea), i.ea, F)

ChangeBitR(c, i, R(_, _)) == ChangeBit(c, i, c.da[i.arg], R)
ChangeBitS(c, i, R(_, _)) == ChangeBit(Fetch(c, 1), i, Mask(B, i.arg), R)

BchgR(c, i) == ChangeBitR(c, i, Bchg)
BchgS(c, i) == ChangeBitS(c, i, Bchg)
BclrR(c, i) == ChangeBitR(c, i, Bclr)
BclrS(c, i) == ChangeBitS(c, i, Bclr)
BsetR(c, i) == ChangeBitR(c, i, Bset)
BsetS(c, i) == ChangeBitS(c, i, Bset)

BtstR(c, i) ==
  LET Test(k, v) == TestBit(k, v, c.da[i.arg] % BitWidth(i.ea)) IN With(Oper(c, BitWidth(i.ea), i.ea), Test)
BtstS(c, i) ==
  LET Test(k, v) == TestBit(k, v, Mask(B, i.arg) % BitWidth(i.ea))
  IN  With(Oper(Fetch(c, 1), BitWidth(i.ea), i.ea), Test)

\* TAS: the flags of the byte as it was, then its top bit set
Tas(c, i) ==
  LET F(k, old) == [m |-> Logic(k, B, old), v |-> Bset(old, B - 1)] IN Update(c, B, i.ea, F)

\* ST, SF, Scc: all ones or all zeros, written without reading, no flag touched
Scc(c, i) ==
  LET V(k) == IF i.arg = "t" \/ (i.arg # "f" /\ Holds(k, i.arg)) THEN 2^B - 1 ELSE 0
  IN  Assign(c, B, i.ea, V)

(***************************************************************************)
(* The opcodes: m68k_op_<instruction>_<width>_<form> of m68kops.c.          *)
(***************************************************************************)
\* m68k_op_and_*, andi_*
And8Er == Ins("and", B, DataReg \cup Readable, DRegs)
And16Er == Ins("and", W, DataReg \cup Readable, DRegs)
And32Er == Ins("and", L, DataReg \cup Readable, DRegs)
And8Re == Ins("andm", B, Memory, DRegs)
And16Re == Ins("andm", W, Memory, DRegs)
And32Re == Ins("andm", L, Memory, DRegs)
Andi8 == Ins("andi", B, DataReg \cup Memory, Immediates)
Andi16 == Ins("andi", W, DataReg \cup Memory, Immediates)
Andi32 == Ins("andi", L, DataReg \cup Memory, Immediates)

\* m68k_op_or_*, ori_*
Or8Er == Ins("or", B, DataReg \cup Readable, DRegs)
Or16Er == Ins("or", W, DataReg \cup Readable, DRegs)
Or32Er == Ins("or", L, DataReg \cup Readable, DRegs)
Or8Re == Ins("orm", B, Memory, DRegs)
Or16Re == Ins("orm", W, Memory, DRegs)
Or32Re == Ins("orm", L, Memory, DRegs)
Ori8 == Ins("ori", B, DataReg \cup Memory, Immediates)
Ori16 == Ins("ori", W, DataReg \cup Memory, Immediates)
Ori32 == Ins("ori", L, DataReg \cup Memory, Immediates)

\* m68k_op_eor_*, eori_*, not_*
Eor8 == Ins("eor", B, DataReg \cup Memory, DRegs)
Eor16 == Ins("eor", W, DataReg \cup Memory, DRegs)
Eor32 == Ins("eor", L, DataReg \cup Memory, DRegs)
Eori8 == Ins("eori", B, DataReg \cup Memory, Immediates)
Eori16 == Ins("eori", W, DataReg \cup Memory, Immediates)
Eori32 == Ins("eori", L, DataReg \cup Memory, Immediates)
Not8 == Ins("not", B, DataReg \cup Memory, {0})
Not16 == Ins("not", W, DataReg \cup Memory, {0})
Not32 == Ins("not", L, DataReg \cup Memory, {0})

\* m68k_op_andi_16_toc, _tos, and so on
AndiCcr == Ins("andiccr", B, {NoOperand}, Immediates)
AndiSr == Ins("andisr", W, {NoOperand}, Immediates)
OriCcr == Ins("oriccr", B, {NoOperand}, Immediates)
OriSr == Ins("orisr", W, {NoOperand}, Immediates)
EoriCcr == Ins("eoriccr", B, {NoOperand}, Immediates)
EoriSr == Ins("eorisr", W, {NoOperand}, Immediates)

\* m68k_op_bchg_*, bclr, bset, btst: the bit number in a register (_r) or in an extension word (_s)
BchgRegister == Ins("bchg", B, DataReg \cup Memory, DRegs)
BchgStatic == Ins("bchgs", B, DataReg \cup Memory, BitNumbers)
BclrRegister == Ins("bclr", B, DataReg \cup Memory, DRegs)
BclrStatic == Ins("bclrs", B, DataReg \cup Memory, BitNumbers)
BsetRegister == Ins("bset", B, DataReg \cup Memory, DRegs)
BsetStatic == Ins("bsets", B, DataReg \cup Memory, BitNumbers)
BtstRegister == Ins("btst", B, DataReg \cup Readable, DRegs)
BtstStatic == Ins("btsts", B, DataReg \cup Memory \cup ProgramRelative, BitNumbers)

\* m68k_op_tas_*, st, sf, s<cc>_8_d and the memory forms
Tas8 == Ins("tas", B, DataReg \cup Memory, {0})
St8 == Ins("scc", B, DataReg \cup Memory, {"t"})
Sf8 == Ins("scc", B, DataReg \cup Memory, {"f"})
Scc8D == Ins("scc", B, DataReg, Conditions)
Shils8 == Ins("scc", B, Memory, {"hi", "ls"})
Scccs8 == Ins("scc", B, Memory, {"cc", "cs"})
Sneeq8 == Ins("scc", B, Memory, {"ne", "eq"})
Svcvs8 == Ins("scc", B, Memory, {"vc", "vs"})
Splmi8 == Ins("scc", B, Memory, {"pl", "mi"})
Sgelt8 == Ins("scc", B, Memory, {"ge", "lt"})
Sgtle8 == Ins("scc", B, Memory, {"gt", "le"})

LogicInstructions == UNION {
  And8Er, And16Er, And32Er, And8Re, And16Re, And32Re, Andi8, Andi16, Andi32, Or8Er, Or16Er, Or32Er,
  Or8Re, Or16Re, Or32Re, Ori8, Ori16, Ori32, Eor8, Eor16, Eor32, Eori8, Eori16, Eori32, Not8,
  Not16, Not32, AndiCcr, AndiSr, OriCcr, OriSr, EoriCcr, EoriSr, BchgRegister, BchgStatic,
  BclrRegister, BclrStatic, BsetRegister, BsetStatic, BtstRegister, BtstStatic, Tas8, St8, Sf8,
  Scc8D, Shils8, Scccs8, Sneeq8, Svcvs8, Splmi8, Sgelt8, Sgtle8}

\* The handler an opcode of this family runs
LogicExecute(c, i) ==
  CASE i.op = "and" -> AndEr(c, i)
    [] i.op = "andm" -> AndRe(c, i)
    [] i.op = "andi" -> Andi(c, i)
    [] i.op = "or" -> OrEr(c, i)
    [] i.op = "orm" -> OrRe(c, i)
    [] i.op = "ori" -> Ori(c, i)
    [] i.op = "eor" -> Eor(c, i)
    [] i.op = "eori" -> Eori(c, i)
    [] i.op = "not" -> Invert(c, i)
    [] i.op = "andiccr" -> AndiToCcr(c, i)
    [] i.op = "andisr" -> AndiToSr(c, i)
    [] i.op = "oriccr" -> OriToCcr(c, i)
    [] i.op = "orisr" -> OriToSr(c, i)
    [] i.op = "eoriccr" -> EoriToCcr(c, i)
    [] i.op = "eorisr" -> EoriToSr(c, i)
    [] i.op = "bchg" -> BchgR(c, i)
    [] i.op = "bchgs" -> BchgS(c, i)
    [] i.op = "bclr" -> BclrR(c, i)
    [] i.op = "bclrs" -> BclrS(c, i)
    [] i.op = "bset" -> BsetR(c, i)
    [] i.op = "bsets" -> BsetS(c, i)
    [] i.op = "btst" -> BtstR(c, i)
    [] i.op = "btsts" -> BtstS(c, i)
    [] i.op = "tas" -> Tas(c, i)
    [] i.op = "scc" -> Scc(c, i)
=============================================================================
