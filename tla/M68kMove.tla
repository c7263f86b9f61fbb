------------------------------- MODULE M68kMove -------------------------------
(***************************************************************************)
(* Moves: MOVE, MOVEA, MOVEM, MOVEP, MOVEQ, the status registers, LEA, PEA, *)
(* EXG, SWAP, LINK and UNLK.                                                *)
(***************************************************************************)
EXTENDS M68kStep, SequencesExt

CONSTANT RegisterLists       \* the register lists of MOVEM, sets of registers
ASSUME RegisterListsAssumption == RegisterLists \subseteq SUBSET (Dn \cup An)

\* MOVE.L to -(An) and MOVEM.L to -(An) write the low word first
WriteDown(c, size, ea, v) ==
  IF size = L THEN Write(Write(c, W, Mask(L, ea + 2), v % 2^W), W, ea, v \div 2^W) ELSE Write(c, size, ea, v)

\* MOVE <ea>,<ea>: the destination is the operand `arg`; the flags follow the write
Move(c, i) ==
  LET To(k, v) ==
        LET At(j, a) == IF i.arg.mode = "pd" THEN WriteDown(j, i.size, a, v) ELSE Write(j, i.size, a, v)
        IN  Logic(IF i.arg.mode = "d" THEN SetD(k, i.size, i.arg.reg, v)
                  ELSE With(Ea(k, i.size, i.arg), At), i.size, v)
  IN  With(Oper(c, i.size, i.ea), To)

Movea(c, i) ==
  LET To(k, v) == SetReg(k, i.arg, Extend(i.size, v)) IN With(Oper(c, i.size, i.ea), To)

Moveq(c, i) == Logic(SetReg(c, i.ea.reg, Extend(B, i.arg)), L, Extend(B, i.arg))

(***************************************************************************)
(* MOVEM: the list is fetched, then the address is formed; An of -(An) and  *)
(* (An)+ changes only after the last register.  To -(An) the list runs from *)
(* A7 down to D0.  A word read is extended into the whole of any register.  *)
(***************************************************************************)
Ascending == [k \in 1 .. 16 |-> k - 1]
Descending == [k \in 1 .. 16 |-> 16 - k]

Store(c, size, list, a) ==
  LET Put(r, x) ==
        IF x \in list THEN [m |-> Write(r.m, size, r.v, Mask(size, r.m.da[x])), v |-> Mask(L, r.v + Bytes(size))]
        ELSE r
  IN  FoldLeft(Put, [m |-> c, v |-> a], Ascending).m

MovemRe(c, i) ==
  LET At(k, a) == Store(k, i.size, i.arg, a) IN With(Ea(Fetch(c, 1), i.size, i.ea), At)

StoreDown(c, i) ==
  LET Below(r, x, a) == [m |-> WriteDown(r.m, i.size, a, Mask(i.size, r.m.da[x])), v |-> a]
      Put(r, x)  == IF x \in i.arg THEN Below(r, x, Mask(L, r.v - Bytes(i.size))) ELSE r
      Final(k, a) == SetReg(k, i.ea.reg, a)
  IN  With(FoldLeft(Put, [m |-> Fetch(c, 1), v |-> c.da[i.ea.reg]], Descending), Final)

Load(c, size, list, a, space) ==
  LET Get(r, x) ==
        LET Keep(k, v) == [m |-> SetReg(k, x, Extend(size, v)), v |-> Mask(L, r.v + Bytes(size))]
        IN  IF x \in list THEN With(ReadIn(r.m, size, r.v, space), Keep) ELSE r
  IN  FoldLeft(Get, [m |-> c, v |-> a], Ascending)

MovemEr(c, i) ==
  LET From(k, a) == Load(k, i.size, i.arg, a, SpaceOf(c, i.ea))
      Step(k, a) == SetReg(k, i.ea.reg, a)
  IN  IF i.ea.mode = "pi" THEN With(From(Fetch(c, 1), c.da[i.ea.reg]), Step)
      ELSE With(Ea(Fetch(c, 1), i.size, i.ea), From).m

\* MOVEP: every other byte, high byte first
EveryOther(size) == [b \in 1 .. Bytes(size) |-> b - 1]
MovepRe(c, i) ==
  LET ByteOf(k, b) == Mask(B, k.da[i.arg] \div 2^(B * (Bytes(i.size) - 1 - b)))
      From(k, a)   == LET Put(j, b) == Write(j, B, Mask(L, a + 2 * b), ByteOf(j, b))
                      IN  FoldLeft(Put, k, EveryOther(i.size))
  IN  With(Ea(c, i.size, i.ea), From)

MovepEr(c, i) ==
  LET From(k, a) ==
        LET Get(r, b) == LET Join(j, v) == [m |-> j, v |-> r.v * 2^B + v]
                         IN  With(Read(r.m, B, Mask(L, a + 2 * b)), Join)
        IN  FoldLeft(Get, [m |-> k, v |-> 0], EveryOther(i.size))
      Keep(k, v) == SetD(k, i.size, i.arg, v)
  IN  With(With(Ea(c, i.size, i.ea), From), Keep)

(***************************************************************************)
(* The status registers and the user stack pointer.  MOVE from SR is not    *)
(* privileged on a 68000, and writes without reading.                       *)
(***************************************************************************)
MoveToCcr(c, i) == With(Oper(c, W, i.ea), SetCcr)
\* A mutated form: the privilege is not asked for.
MoveToSrUnguarded(c, i) == With(Oper(c, W, i.ea), SetSr)

MoveToSr(c, i) == IF c.s = 1 THEN With(Oper(c, W, i.ea), SetSr) ELSE Privilege(c)
MoveFromSr(c, i) == Assign(c, W, i.ea, Sr)
MoveFromUsp(c, i) == IF c.s = 1 THEN SetReg(c, i.ea.reg, c.base[0]) ELSE Privilege(c)
MoveToUsp(c, i) == IF c.s = 1 THEN Go(c, [c EXCEPT !.base[0] = c.da[i.ea.reg]]) ELSE Privilege(c)

(***************************************************************************)
(* Addresses, exchanges and stack frames.                                  *)
(***************************************************************************)
Lea(c, i) == LET Keep(k, a) == SetReg(k, i.arg, a) IN With(Ea(c, L, i.ea), Keep)
Pea(c, i) == LET Save(k, a) == Push(k, L, a) IN With(Ea(c, L, i.ea), Save)

Exg(c, i) == Go(c, [c EXCEPT !.da[i.arg] = c.da[i.ea.reg], !.da[i.ea.reg] = c.da[i.arg]])

SwapWords(v) == (v % 2^W) * 2^W + v \div 2^W
Swap(c, i) == LET v == SwapWords(c.da[i.ea.reg]) IN Logic(SetReg(c, i.ea.reg, v), L, v)

\* The displacement is fetched after the push; LINK A7 stores the lowered stack pointer
Lower(c, i) == SetReg(Fetch(c, 1), SP, c.da[SP] + Extend(W, i.arg))
Frame(c, i) == SetReg(c, i.ea.reg, c.da[SP])
Link(c, i) == Lower(Frame(Push(c, L, c.da[i.ea.reg]), i), i)
LinkA7(c, i) == Lower(Push(c, L, Mask(L, c.da[SP] - Bytes(L))), i)

Unlk(c, i) ==
  LET Keep(k, v) == SetReg(k, i.ea.reg, v) IN With(Pull(SetReg(c, SP, c.da[i.ea.reg]), L), Keep)
UnlkA7(c, i) == LET Keep(k, v) == SetReg(k, SP, v) IN With(Read(c, L, c.da[SP]), Keep)

(***************************************************************************)
(* The opcodes: m68k_op_<instruction>_<width>_<form> of m68kops.c.          *)
(***************************************************************************)
MoveTo(size, destinations) ==
  Ins("move", size, DataReg \cup Readable \cup (IF size = B THEN {} ELSE AddressReg), destinations)
AbsoluteShort == {d \in Absolute : d.mode = "aw"}
AbsoluteLong == {d \in Absolute : d.mode = "al"}

\* m68k_op_move_<width>_<destination>_*
Move8D == MoveTo(B, DataReg)
Move8Ai == MoveTo(B, Indirect)
Move8Pi == MoveTo(B, PostIncrement)
Move8Pd == MoveTo(B, PreDecrement)
Move8Di == MoveTo(B, Displaced)
Move8Ix == MoveTo(B, IndexedBy("ix", ARegs))
Move8Aw == MoveTo(B, AbsoluteShort)
Move8Al == MoveTo(B, AbsoluteLong)
Move16D == MoveTo(W, DataReg)
Move16Ai == MoveTo(W, Indirect)
Move16Pi == MoveTo(W, PostIncrement)
Move16Pd == MoveTo(W, PreDecrement)
Move16Di == MoveTo(W, Displaced)
Move16Ix == MoveTo(W, IndexedBy("ix", ARegs))
Move16Aw == MoveTo(W, AbsoluteShort)
Move16Al == MoveTo(W, AbsoluteLong)
Move32D == MoveTo(L, DataReg)
Move32Ai == MoveTo(L, Indirect)
Move32Pi == MoveTo(L, PostIncrement)
Move32Pd == MoveTo(L, PreDecrement)
Move32Di == MoveTo(L, Displaced)
Move32Ix == MoveTo(L, IndexedBy("ix", ARegs))
Move32Aw == MoveTo(L, AbsoluteShort)
Move32Al == MoveTo(L, AbsoluteLong)

\* m68k_op_movea_*, moveq, movem, movep
Movea16 == Ins("movea", W, DataReg \cup AddressReg \cup Readable, ARegs)
Movea32 == Ins("movea", L, DataReg \cup AddressReg \cup Readable, ARegs)
Moveq32 == Ins("moveq", L, DataReg, {v \in Immediates : v < 2^B})
Movem16Pd == Ins("movempd", W, PreDecrement, RegisterLists)
Movem16Re == Ins("movemre", W, Control, RegisterLists)
Movem16Er == Ins("movemer", W, Control \cup PostIncrement \cup ProgramRelative, RegisterLists)
Movep16Re == Ins("movepre", W, Displaced, DRegs)
Movep16Er == Ins("moveper", W, Displaced, DRegs)
Movem32Pd == Ins("movempd", L, PreDecrement, RegisterLists)
Movem32Re == Ins("movemre", L, Control, RegisterLists)
Movem32Er == Ins("movemer", L, Control \cup PostIncrement \cup ProgramRelative, RegisterLists)
Movep32Re == Ins("movepre", L, Displaced, DRegs)
Movep32Er == Ins("moveper", L, Displaced, DRegs)

\* m68k_op_move_16_toc_*, _tos, _frs, m68k_op_move_32_fru, _tou
MoveToc == Ins("movetoc", W, DataReg \cup Readable, {0})
MoveTos == Ins("movetos", W, DataReg \cup Readable, {0})
MoveFrs == Ins("movefrs", W, DataReg \cup Memory, {0})
MoveFru == Ins("movefru", L, AddressReg, {0})
MoveTou == Ins("movetou", L, AddressReg, {0})

\* m68k_op_lea_*, pea, exg, swap, link, unlk
Lea32 == Ins("lea", L, Control \cup ProgramRelative, ARegs)
Pea32 == Ins("pea", L, Control \cup ProgramRelative, {0})
ExgDd == Ins("exg", L, DataReg, DRegs)
ExgAa == Ins("exg", L, AddressReg, ARegs)
ExgDa == Ins("exg", L, AddressReg, DRegs)
Swap32 == Ins("swap", L, DataReg, {0})
Link16 == Ins("link", L, {e \in AddressReg : e.reg # SP}, Displacements)
Link16A7 == Ins("linka7", L, {e \in AddressReg : e.reg = SP}, Displacements)
Unlk32 == Ins("unlk", L, {e \in AddressReg : e.reg # SP}, {0})
Unlk32A7 == Ins("unlka7", L, {e \in AddressReg : e.reg = SP}, {0})

MoveInstructions == UNION {
  Move8D, Move8Ai, Move8Pi, Move8Pd, Move8Di, Move8Ix, Move8Aw, Move8Al, Move16D, Move16Ai,
  Move16Pi, Move16Pd, Move16Di, Move16Ix, Move16Aw, Move16Al, Move32D, Move32Ai, Move32Pi,
  Move32Pd, Move32Di, Move32Ix, Move32Aw, Move32Al, Movea16, Movea32, Moveq32, Movem16Pd,
  Movem16Re, Movem16Er, Movep16Re, Movep16Er, Movem32Pd, Movem32Re, Movem32Er, Movep32Re,
  Movep32Er, MoveToc, MoveTos, MoveFrs, MoveFru, MoveTou, Lea32, Pea32, ExgDd, ExgAa, ExgDa,
  Swap32, Link16, Link16A7, Unlk32, Unlk32A7}

\* The handler an opcode of this family runs
MoveExecute(c, i) ==
  CASE i.op = "move" -> Move(c, i)
    [] i.op = "movea" -> Movea(c, i)
    [] i.op = "moveq" -> Moveq(c, i)
    [] i.op = "movempd" -> StoreDown(c, i)
    [] i.op = "movemre" -> MovemRe(c, i)
    [] i.op = "movemer" -> MovemEr(c, i)
    [] i.op = "movepre" -> MovepRe(c, i)
    [] i.op = "moveper" -> MovepEr(c, i)
    [] i.op = "movetoc" -> MoveToCcr(c, i)
    [] i.op = "movetos" -> MoveToSr(c, i)
    [] i.op = "movefrs" -> MoveFromSr(c, i)
    [] i.op = "movefru" -> MoveFromUsp(c, i)
    [] i.op = "movetou" -> MoveToUsp(c, i)
    [] i.op = "lea" -> Lea(c, i)
    [] i.op = "pea" -> Pea(c, i)
    [] i.op = "exg" -> Exg(c, i)
    [] i.op = "swap" -> Swap(c, i)
    [] i.op = "link" -> Link(c, i)
    [] i.op = "linka7" -> LinkA7(c, i)
    [] i.op = "unlk" -> Unlk(c, i)
    [] i.op = "unlka7" -> UnlkA7(c, i)
=============================================================================
