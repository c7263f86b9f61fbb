------------------------------- MODULE M68kStep -------------------------------
(***************************************************************************)
(* One instruction of the processor: what every handler of the jump table   *)
(* (m68kops.c) has in common.  A handler is an operator from the machine    *)
(* after the opcode fetch, and the instruction, to the machine it leaves.   *)
(* The modules that extend this one hold the handlers, a family of          *)
(* instructions each; M68kISA and M68kExecute run them.                     *)
(***************************************************************************)
EXTENDS M68k

CONSTANTS
  DRegs, ARegs,     \* the data and address registers instructions name
  Displacements,    \* 16-bit extension words used as displacements
  BranchOffsets,    \* offsets in the opcode of a branch
  ShortAddresses,   \* (xxx).W
  LongAddresses,    \* (xxx).L
  Indexes,          \* brief extension words: [index, long, ext]
  Immediates,       \* immediate operands, before they are cut to size
  QuickData,        \* the operands of ADDQ and SUBQ, out of 1 .. 8
  BitNumbers        \* the bit numbers in an extension word

ASSUME OperandAssumption ==
  /\ DRegs \subseteq Dn /\ ARegs \subseteq An
  /\ Indexes \subseteq [index : 0 .. 15, long : BOOLEAN, ext : Values(B)]
  /\ Displacements \cup ShortAddresses \subseteq Values(W)
  /\ BranchOffsets \subseteq Values(B)
  /\ QuickData \subseteq 1 .. 8 /\ BitNumbers \subseteq Values(B)
  /\ LongAddresses \cup Immediates \subseteq Values(L)

\* The instructions of one operation: an operand `ea` and a further field `arg`
Ins(op, size, eas, xs) == {[op |-> op, size |-> size, ea |-> e, arg |-> x] : e \in eas, x \in xs}

(***************************************************************************)
(* Effective addresses of a 68000, by the class of modes an opcode accepts. *)
(***************************************************************************)
DataReg == {[mode |-> "d", reg |-> r] : r \in DRegs}
AddressReg == {[mode |-> "a", reg |-> r] : r \in ARegs}
NoOperand == [mode |-> "none"]
Immediate == {[mode |-> "i", ext |-> v] : v \in Immediates}

Indirect == {[mode |-> "ai", reg |-> r] : r \in ARegs}
PostIncrement == {[mode |-> "pi", reg |-> r] : r \in ARegs}
PreDecrement == {[mode |-> "pd", reg |-> r] : r \in ARegs}
Displaced == {[mode |-> "di", reg |-> r, ext |-> d] : r \in ARegs, d \in Displacements}
IndexedBy(mode, regs) ==
  {[mode |-> mode, reg |-> r, index |-> k.index, long |-> k.long, ext |-> k.ext] :
     r \in regs, k \in Indexes}
Absolute == {[mode |-> "aw", reg |-> SP, ext |-> a] : a \in ShortAddresses} \cup
            {[mode |-> "al", reg |-> SP, ext |-> a] : a \in LongAddresses}
ProgramRelative == {[mode |-> "pcdi", reg |-> SP, ext |-> d] : d \in Displacements} \cup
                   IndexedBy("pcix", {SP})

\* Control, alterable and readable memory; memory with the PC-relative modes
Control == Indirect \cup Displaced \cup IndexedBy("ix", ARegs) \cup Absolute
Memory == Control \cup PostIncrement \cup PreDecrement
Readable == Memory \cup ProgramRelative \cup Immediate

(***************************************************************************)
(* The two orders in which a handler updates a register or memory operand.  *)
(***************************************************************************)
\* Flags, then the write: F(machine, old) is the machine with its flags and the result
Update(c, size, op, F(_, _)) ==
  LET Keep(k, v)  == SetD(k, size, op.reg, v)
      At(k, a)    == LET Store(j, v) == Write(j, size, a, v)
                     IN  With(With(Read(k, size, a), F), Store)
  IN  IF op.mode = "d" THEN With(F(c, Mask(size, c.da[op.reg])), Keep)
      ELSE With(Ea(c, size, op), At)

\* The write, then the flags: R(old) is the result, F(machine, result) sets the flags
Rewrite(c, size, op, R(_), F(_, _)) ==
  LET Result(old) == Mask(size, R(old))
      Keep(k, old) == F(SetD(k, size, op.reg, Result(old)), Result(old))
      At(k, a)     == LET Store(j, old) == F(Write(j, size, a, Result(old)), Result(old))
                      IN  With(Read(k, size, a), Store)
  IN  IF op.mode = "d" THEN Keep(c, Mask(size, c.da[op.reg])) ELSE With(Ea(c, size, op), At)

\* A result written without a read of the operand: V(machine) is the value
Assign(c, size, op, V(_)) ==
  LET At(k, a) == Write(k, size, a, V(k))
  IN  IF op.mode = "d" THEN SetD(c, size, op.reg, V(c)) ELSE With(Ea(c, size, op), At)

\* FLAG_N and FLAG_Z of a result, FLAG_V and FLAG_C clear
Logic(c, size, v) ==
  Go(c, [c EXCEPT !.n = NFlag(size, v), !.z = ZFlag(size, v), !.v = 0, !.c = 0])

\* COND_xx: the conditions of Bcc, DBcc and Scc, on the flags of a machine
Conditions == {"hi", "ls", "cc", "cs", "ne", "eq", "vc", "vs", "pl", "mi", "ge", "lt", "gt", "le"}
Holds(c, cc) ==
  CASE cc = "cs" -> c.c = 1              [] cc = "cc" -> c.c = 0
    [] cc = "vs" -> c.v = 1              [] cc = "vc" -> c.v = 0
    [] cc = "eq" -> c.z = 1              [] cc = "ne" -> c.z = 0
    [] cc = "mi" -> c.n = 1              [] cc = "pl" -> c.n = 0
    [] cc = "lt" -> c.n # c.v            [] cc = "ge" -> c.n = c.v
    [] cc = "hi" -> c.c = 0 /\ c.z = 0   [] cc = "ls" -> c.c = 1 \/ c.z = 1
    [] cc = "gt" -> c.n = c.v /\ c.z = 0 [] cc = "le" -> c.n # c.v \/ c.z = 1
=============================================================================
