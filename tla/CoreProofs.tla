------------------------------- MODULE CoreProofs -------------------------------
(*****************************************************************************)
(* M68kExecute: whatever is missing, taken out or raised, the program runs as*)
(* it does with everything in memory and no interrupts; the kernel's stack is*)
(* empty when it runs; and no fault is beyond the kernel's table.            *)
(*                                                                           *)
(* The invariant (IInv) says where the machine is: at a point of the         *)
(* undisturbed run (User), about to fetch an instruction that is in memory or*)
(* whose fault the kernel will be told the right thing of (Reaches); or in the*)
(* kernel, d exceptions deep (Kernel), with every frame of its stack in place*)
(* and the first of them leading back to a point of that run.                *)
(*                                                                           *)
(* The order of the proof: what the kernel's frames say; that a look at the  *)
(* line, the RTE and the handler of bus errors keep them; that an instruction*)
(* does the same on two machines which agree on the bytes it needs (Follows);*)
(* the three faults a program can meet, at a fetch after the kernel's return,*)
(* at the fetch of a gate's target, at a probe; the turn of the loop; and the*)
(* actions one by one.                                                       *)
(*****************************************************************************)
EXTENDS M68kProofs

\* The program's live memory is what the undisturbed run has after n instructions
Sees(c, n) == \A a \in Alive(Ideal[n]) : c.mem[a] = Ideal[n].mem[a]

\* What is out is whole segments, none of what the program probed for good
InSame(a, b) == \A g \in Segments : a \in g <=> b \in g
Whole(c) == \A a, b \in Mapped : InSame(a, b) => (a \in c.out <=> b \in c.out)
OutOK(c, n) == c.out \subseteq Start.out \cup UNION Swappable /\ Whole(c) /\ Probed(n) \cap c.out = {}

\* The forms of jump a segment is left by
Gates == DOMAIN Distance \ {"tst"}

\* The instruction before was a gate, and the frame of a fault now describes it
Rewinds(c, n) ==
  /\ n >= 1 /\ c.ir = InstructionOf(n - 1) /\ c.prev = Ideal[n - 1].pc
  /\ Form(c.ir) \in Gates /\ Sees(c, n - 1)

\* The machine is at the n-th point of the undisturbed run, in user mode
User(c, n) ==
  /\ c.s = 0 /\ c.base[1] = Top
  /\ c.da = Ideal[n].da /\ c.pc = Ideal[n].pc /\ Flags(c) = Flags(Ideal[n])
  /\ Sees(c, n) /\ OutOK(c, n)

\* Where the kernel's frames are: that of the j-th exception, of which the first is a bus
\* error not handled yet when e is 1; and where the kernel is in the j-th
Slot(e, j) == IF j = 1 THEN Top - 6 ELSE Top - 6 * j - 8 * e
Places(e, j) == IF e = 1 /\ j = 1 THEN {BusErrorEntry} ELSE {KernelReturn} \cup {InterruptEntry[l] : l \in Levels}

\* An exception over a bus error, or over another, is an interrupt of a higher level
Fits(d) == d \in 1 .. 7 /\ \E l \in Levels \cup {0} : d - 1 <= l

\* The frames above the first return to the kernel, the first one to the program
FrameOf(mem, e, j) ==
  /\ SrS(WordAt(mem, Slot(e, j))) = 1 /\ SrMask(WordAt(mem, Slot(e, j))) >= j - 2
  /\ LongIn(mem, Slot(e, j) + 2) \in Places(e, j - 1)
FramesOf(mem, d, e) == SrS(WordAt(mem, Top - 6)) = 0 /\ \A j \in 2 .. d : FrameOf(mem, e, j)

\* The machine is in the kernel, d exceptions deep
Nested(c, d, e) ==
  /\ Fits(d) /\ c.s = 1 /\ c.da[SP] = Top - 6 * d - 8 * e
  /\ c.pc \in Places(e, d) /\ c.mask >= d - 1 /\ FramesOf(c.mem, d, e)

\* What the kernel will make of the frame of a bus error
FormIn(mem) == FormOf(WordAt(mem, Top - 8))
UserPc(mem, e) ==
  IF e = 0 THEN LongIn(mem, Top - 4)
  ELSE IF FormIn(mem) = "rte" THEN LongIn(mem, Top - 12)
  ELSE Mask(L, LongIn(mem, Top - 4) - Distance[FormIn(mem)])
UserSp(c, e) == IF e = 1 /\ FormIn(c.mem) = "rts" THEN Mask(L, c.base[0] - 4) ELSE c.base[0]

\* The first frame has the status, the PC and, for a bus error, the form and an address in a
\* segment that lead back to the n-th point
Told(mem, n, e) ==
  /\ FlagsIn(WordAt(mem, Top - 6)) = Flags(Ideal[n]) /\ UserPc(mem, e) = Ideal[n].pc
  /\ e = 1 => FormIn(mem) \in DOMAIN Distance \cup {"rte"} /\ Holding(LongIn(mem, Top - 12)) # {}

\* So do the registers and the memory, which the kernel leaves as they were
Resumes(c, n, e) ==
  /\ Told(c.mem, n, e) /\ UserSp(c, e) = Ideal[n].da[SP]
  /\ \A r \in 0 .. 14 : c.da[r] = Ideal[n].da[r]
  /\ Sees(c, n) /\ OutOK(c, n)

\* The machine is in the kernel on its way back to the n-th point
Kernel(c, n, d, e) == Nested(c, d, e) /\ Resumes(c, n, e)

\* What holds everywhere between two turns of the loop
Common(c) ==
  /\ MachineType(c) /\ c.flt = NoFault /\ ~c.pending /\ ~c.nmi /\ c.stopped = {} /\ c.run # "wsf"
  /\ c.level \in Levels \cup {0}

(***************************************************************************)
(* The stack's extent.                                                     *)
(***************************************************************************)
\* However deep interrupts nest over a bus error, their frames fit the kernel's stack
LEMMA DepthIs ==
  ASSUME NEW d, Fits(d), NEW e \in {0, 1}
  PROVE  /\ d \in 1 .. 7 /\ Top - 6 * d - 8 * e \in Nat /\ Top - 6 * d - 8 * e \in Values(L)
         /\ Top - 6 * d - 8 * e .. Top - 1 \subseteq KernelStack /\ (Top - 6 * d - 8 * e) % 2 = 0
<1> DEFINE sp == Top - 6 * d - 8 * e
<1>1. PICK l \in Levels \cup {0} : d - 1 <= l
  BY DEF Fits
<1>2. l \in 0 .. 6 /\ Top \in Nat /\ d \in 1 .. 7 /\ Top % 2 = 0 /\ Top \in Values(L)
  BY StackFacts DEF Fits
<1>3. sp .. Top - 1 \subseteq Top - 14 - 6 * l .. Top - 1
  BY <1>1, <1>2
<1>4. sp .. Top - 1 \subseteq KernelStack
  BY <1>3, StackFacts
<1>5. sp \in KernelStack
  <2>1. sp \in sp .. Top - 1
    BY <1>2
  <2> QED BY <2>1, <1>4
<1>6. sp \in Nat
  BY <1>5, StackFacts, BusOfRam
<1>7. sp \in Values(L)
  BY <1>2, <1>6, Widths DEF Values
<1>8. sp % 2 = 0
  <2>1. \A x \in Nat : Top = x + 6 * d + 8 * e => x % 2 = 0
    BY <1>2
  <2>2. Top = sp + 6 * d + 8 * e
    BY <1>2
  <2> HIDE DEF sp
  <2> QED BY <1>6, <2>1, <2>2
<1> QED
  BY <1>2, <1>4, <1>6, <1>7, <1>8

\* What is out is pages, and the kernel's stack is in none
LEMMA StackIsNotOut ==
  ASSUME NEW c, NEW n, OutOK(c, n)
  PROVE  c.out \subseteq Paged /\ c.out \cap KernelStack = {}
<1>1. Start.out \subseteq Paged
  BY KernelAssumption DEF Paged
<1>2. UNION Swappable \subseteq Paged
  BY ExecuteAssumption DEF Paged
<1> QED
  BY <1>1, <1>2, StackFacts DEF OutOK

\* A frame pushed under the others leaves them, and the program's memory, as they are
Under(f, g, d, e) ==
  /\ FramesOf(f, d, e) => FramesOf(g, d, e)
  /\ \A n : Told(f, n, e) => Told(g, n, e)
  /\ FormIn(f) = FormIn(g) \/ e = 0
  /\ \A a \in Ram \ KernelStack : g[a] = f[a]

\* A frame pushed below the others leaves what they say
LEMMA PushedUnder ==
  ASSUME NEW f, NEW g, NEW d, Fits(d), NEW e \in {0, 1}, NEW lo \in Nat,
         lo .. Top - 1 \subseteq KernelStack, NEW hi, hi = Top - 6 * d - 8 * e - 1, SameOutside(f, g, lo, hi)
  PROVE  Under(f, g, d, e)
<1>1. d \in 1 .. 7 /\ Top \in Nat /\ hi + 1 \in Nat /\ hi + 1 .. Top - 1 \subseteq Ram /\ hi \in Int
  BY DepthIs, StackFacts
<1>2. ASSUME NEW a \in Nat, a > hi, a + 1 <= Top - 1
      PROVE  WordAt(g, a) = WordAt(f, a)
  <2>1. a .. a + 1 \subseteq hi + 1 .. Top - 1
    BY <1>1, <1>2
  <2>2. a .. a + 1 \subseteq Ram
    BY <1>1, <2>1
  <2> QED BY <1>1, <1>2, <2>2, WordKept
<1>3. ASSUME NEW a \in Nat, a > hi, a + 3 <= Top - 1
      PROVE  LongIn(g, a) = LongIn(f, a)
  <2>1. a .. a + 3 \subseteq hi + 1 .. Top - 1
    BY <1>1, <1>3
  <2>2. a .. a + 3 \subseteq Ram
    BY <1>1, <2>1
  <2> QED BY <1>1, <1>3, <2>2, LongKept
<1>4. WordAt(g, Top - 6) = WordAt(f, Top - 6) /\ LongIn(g, Top - 4) = LongIn(f, Top - 4)
  <2>1. Top - 6 \in Nat /\ Top - 4 \in Nat /\ Top - 6 > hi /\ Top - 4 > hi /\ Top - 6 + 1 <= Top - 1 /\ Top - 4 + 3 <= Top - 1
    BY <1>1
  <2> QED BY <1>2, <1>3, <2>1
<1>5. ASSUME e = 1
      PROVE  WordAt(g, Top - 8) = WordAt(f, Top - 8) /\ LongIn(g, Top - 12) = LongIn(f, Top - 12)
  <2>1. Top - 8 \in Nat /\ Top - 12 \in Nat /\ Top - 8 > hi /\ Top - 12 > hi /\ Top - 8 + 1 <= Top - 1 /\ Top - 12 + 3 <= Top - 1
    BY <1>1, <1>5
  <2> QED BY <1>2, <1>3, <2>1
<1>6. ASSUME NEW j \in 2 .. d
      PROVE  WordAt(g, Slot(e, j)) = WordAt(f, Slot(e, j)) /\ LongIn(g, Slot(e, j) + 2) = LongIn(f, Slot(e, j) + 2)
  <2> DEFINE a == Slot(e, j)
  <2>1. a = Top - 6 * j - 8 * e
    BY DEF Slot
  <2>2. a > hi /\ a \in Nat /\ a + 2 \in Nat /\ a + 2 > hi /\ a + 1 <= Top - 1 /\ a + 2 + 3 <= Top - 1
    BY <1>1, <2>1
  <2> HIDE DEF a
  <2> QED BY <1>2, <1>3, <2>2 DEF a
<1>7. FramesOf(f, d, e) => FramesOf(g, d, e)
  BY <1>4, <1>6 DEF FramesOf, FrameOf
<1>8. \A n : Told(f, n, e) => Told(g, n, e)
  <2> TAKE n
  <2>1. CASE e = 0
    BY <1>4, <2>1 DEF Told, UserPc
  <2>2. CASE e = 1
    BY <1>4, <1>5, <2>2 DEF Told, UserPc, FormIn
  <2> QED BY <2>1, <2>2
<1>9. FormIn(f) = FormIn(g) \/ e = 0
  BY <1>5 DEF FormIn
<1>10. \A a \in Ram \ KernelStack : g[a] = f[a]
  <2>1. lo .. hi \subseteq KernelStack
    BY <1>1
  <2> QED BY <2>1 DEF SameOutside
<1> QED
  BY <1>7, <1>8, <1>9, <1>10 DEF Under

\* The program's live bytes are not on the kernel's stack
LEMMA AliveIsApart ==
  ASSUME NEW n \in 0 .. Length
  PROVE  Alive(Ideal[n]) \subseteq Ram \ KernelStack
<1>1. Alive(Ideal[n]) \cap KernelStack = {}
  BY ProgramAssumption DEF TouchesItsOwn
<1>2. Alive(Ideal[n]) \subseteq Ram
  BY ExecuteAssumption DEF Alive
<1> QED
  BY <1>1, <1>2

\* so that the program does not see what is written there
LEMMA SeesStill ==
  ASSUME NEW n \in 0 .. Length, NEW c, NEW k, Sees(c, n), \A a \in Ram \ KernelStack : k.mem[a] = c.mem[a]
  PROVE  Sees(k, n)
  BY AliveIsApart DEF Sees

\* Where the kernel can be is an address
LEMMA PlacesAreTyped ==
  ASSUME NEW e \in {0, 1}, NEW j \in Nat
  PROVE  Places(e, j) \subseteq Values(L)
  BY EntryFacts DEF Places

\* The types of a machine's fields, one by one
Fields(c) ==
  /\ c.da \in [0 .. 15 -> Values(L)] /\ c.save \in [0 .. 15 -> Values(L)] /\ c.base \in [{0, 1} -> Values(L)]
  /\ c.pc \in Values(L) /\ c.ppc \in Values(L) /\ c.prev \in Values(L)
  /\ c.x \in Flag /\ c.n \in Flag /\ c.z \in Flag /\ c.v \in Flag /\ c.c \in Flag /\ c.s \in Flag /\ c.t \in Flag
  /\ c.mask \in 0 .. 7 /\ c.level \in 0 .. 7 /\ c.nmi \in BOOLEAN /\ c.stopped \in SUBSET {"stop", "halt"}
  /\ c.run \in {"normal", "berr", "wsf"} /\ c.instr \in {InstructionYes, InstructionNo}
  /\ c.fetching \in BOOLEAN /\ c.pending \in BOOLEAN /\ c.mem \in [Ram -> Values(B)]

\* The type of a machine, field by field
LEMMA TypeHasFields == ASSUME NEW c, MachineType(c) PROVE Shape(c) /\ Fields(c)
<1>1. Shape(c)
  BY TypeHasShape
<1>2. /\ c.da \in [0 .. 15 -> Values(L)] /\ c.save \in [0 .. 15 -> Values(L)] /\ c.base \in [{0, 1} -> Values(L)]
      /\ c.pc \in Values(L) /\ c.ppc \in Values(L) /\ c.prev \in Values(L)
      /\ c.x \in Flag /\ c.n \in Flag /\ c.z \in Flag /\ c.v \in Flag /\ c.c \in Flag /\ c.s \in Flag /\ c.t \in Flag
  BY DEF MachineType
<1>3. /\ c.mask \in 0 .. 7 /\ c.level \in 0 .. 7 /\ c.nmi \in BOOLEAN /\ c.stopped \in SUBSET {"stop", "halt"}
      /\ c.run \in {"normal", "berr", "wsf"} /\ c.instr \in {InstructionYes, InstructionNo}
      /\ c.fetching \in BOOLEAN /\ c.pending \in BOOLEAN /\ c.mem \in [Ram -> Values(B)]
  BY DEF MachineType
<1> QED
  BY <1>1, <1>2, <1>3 DEF Fields

\* and back
LEMMA FieldsMakeType == ASSUME NEW c, Shape(c), Fields(c) PROVE MachineType(c)
  BY DEF Shape, Fields, MachineType

\* A machine that has entered the handler
InHandler(k, c, level, sp, mem) ==
  /\ k.mem = mem /\ k.s = 1 /\ k.da[SP] = sp /\ k.mask = level /\ k.pc = InterruptEntry[level]
  /\ k.flt = c.flt /\ k.pending = FALSE /\ k.nmi = c.nmi /\ k.stopped = c.stopped /\ k.run = c.run /\ k.level = 0
  /\ k.out = c.out /\ k.base = [c.base EXCEPT ![c.s] = c.da[SP]] /\ \A r \in 0 .. 14 : k.da[r] = c.da[r]
  /\ k.ir = c.ir /\ k.prev = c.prev

\* An interrupt leaves a machine of the right type
LEMMA TypeAfterInterrupt ==
  ASSUME NEW c, MachineType(c), NEW level \in Levels, NEW mem \in [Ram -> Values(B)], NEW sp \in Values(L), NEW k,
         k = Entered(c, level, sp, mem)
  PROVE  MachineType(k) /\ InHandler(k, c, level, sp, mem)
<1> DEFINE base == [c.base EXCEPT ![c.s] = c.da[SP]]
           D == [c.da EXCEPT ![SP] = sp]
<1>1. level \in 0 .. 7 /\ InterruptEntry[level] \in Values(L)
  BY EntryFacts, ExecuteAssumption
<1>2. c.da \in [0 .. 15 -> Values(L)] /\ c.base \in [{0, 1} -> Values(L)] /\ c.s \in {0, 1} /\ Shape(c) /\ Fields(c)
  BY TypeHasFields DEF Fields, Flag
<1>3. base \in [{0, 1} -> Values(L)] /\ D \in [0 .. 15 -> Values(L)] /\ D[SP] = sp /\ \A r \in 0 .. 14 : D[r] = c.da[r]
  BY <1>2 DEF SP
<1> DEFINE to == InterruptEntry[level]
<1>4. k = [c EXCEPT !.instr = InstructionNo, !.t = 0, !.base = base, !.s = 1, !.da = D, !.mask = level,
                    !.pending = FALSE, !.mem = mem, !.pc = to, !.level = 0]
  BY DEF Entered
<1> HIDE DEF base, D, to
<1>5. /\ k.mem = mem /\ k.s = 1 /\ k.da = D /\ k.mask = level /\ k.pc = to
      /\ k.flt = c.flt /\ k.pending = FALSE /\ k.nmi = c.nmi /\ k.stopped = c.stopped /\ k.run = c.run /\ k.level = 0
      /\ k.out = c.out /\ k.base = base /\ k.ir = c.ir /\ k.prev = c.prev
  BY <1>2, <1>4 DEF Shape
<1>6. /\ k.save = c.save /\ k.ppc = c.ppc /\ k.x = c.x /\ k.n = c.n /\ k.z = c.z /\ k.v = c.v /\ k.c = c.c
      /\ k.t = 0 /\ k.instr = InstructionNo /\ k.fetching = c.fetching
  BY <1>2, <1>4 DEF Shape
<1>7. Shape(k)
  <2>1. D = [r \in 0 .. 15 |-> D[r]] /\ base = [s \in {0, 1} |-> base[s]] /\ mem = [a \in Ram |-> mem[a]]
    BY <1>3
  <2> QED BY <1>2, <1>4, <1>5, <2>1, ZenonT(40) DEF Shape
<1>8. Fields(k)
  <2>1. /\ k.da \in [0 .. 15 -> Values(L)] /\ k.save \in [0 .. 15 -> Values(L)] /\ k.base \in [{0, 1} -> Values(L)]
        /\ k.pc \in Values(L) /\ k.ppc \in Values(L) /\ k.prev \in Values(L) /\ k.mem \in [Ram -> Values(B)]
    BY <1>1, <1>2, <1>3, <1>5, <1>6 DEF Fields, to
  <2>2. /\ k.x \in Flag /\ k.n \in Flag /\ k.z \in Flag /\ k.v \in Flag /\ k.c \in Flag /\ k.s \in Flag /\ k.t \in Flag
        /\ k.mask \in 0 .. 7 /\ k.level \in 0 .. 7
    BY <1>1, <1>2, <1>5, <1>6 DEF Fields, Flag
  <2>3. /\ k.nmi \in BOOLEAN /\ k.stopped \in SUBSET {"stop", "halt"} /\ k.run \in {"normal", "berr", "wsf"}
        /\ k.instr \in {InstructionYes, InstructionNo} /\ k.fetching \in BOOLEAN /\ k.pending \in BOOLEAN
    BY <1>2, <1>5, <1>6 DEF Fields
  <2> QED BY <2>1, <2>2, <2>3 DEF Fields
<1> QED
  BY <1>3, <1>5, <1>7, <1>8, FieldsMakeType DEF base, to, InHandler

(***************************************************************************)
(* An interrupt of the program, and one of the kernel.                      *)
(***************************************************************************)
\* Interrupted, the program is below the kernel's first frame
LEMMA InterruptOfUser ==
  ASSUME NEW c, Common(c), NEW n \in 0 .. Length, User(c, n), NEW level \in Levels
  PROVE  Common(Interrupt(c, level)) /\ Kernel(Interrupt(c, level), n, 1, 0)
<1> DEFINE k == Interrupt(c, level)
<1>1. c.out \subseteq Paged /\ c.out \cap KernelStack = {}
  BY StackIsNotOut DEF User
<1>2. Bottom(c) = Top
  BY DEF Bottom, User
<1>3. Fits(1)
  <2>1. 1 \in 1 .. 7 /\ 1 - 1 <= 0 /\ 0 \in Levels \cup {0}
    OBVIOUS
  <2> QED BY <2>1 DEF Fits
<1>4. Top - 6 \in Nat /\ Top - 6 \in Values(L) /\ Top - 6 .. Top - 1 \subseteq KernelStack
  <2>1. Top - 6 * 1 - 8 * 0 = Top - 6
    BY StackFacts
  <2>2. 0 \in {0, 1}
    OBVIOUS
  <2>3. Top - 6 * 1 - 8 * 0 \in Nat /\ Top - 6 * 1 - 8 * 0 \in Values(L) /\ Top - 6 * 1 - 8 * 0 .. Top - 1 \subseteq KernelStack
    BY <1>3, <2>2, DepthIs
  <2> QED BY <2>1, <2>3
<1>5. Deep(c, 6)
  BY <1>1, <1>2, <1>4, StackFacts DEF Deep
<1>6. PICK mem \in [Ram -> Values(B)] :
        /\ k = Entered(c, level, Top - 6, mem)
        /\ SameOutside(c.mem, mem, Top - 6, Top - 1)
        /\ WordAt(mem, Top - 6) = Sr(c) /\ LongIn(mem, Top - 4) = c.pc
  BY <1>1, <1>2, <1>5, InterruptIs DEF Common
<1>7. MachineType(k) /\ InHandler(k, c, level, Top - 6, mem)
  <2> DEFINE low == Top - 6
  <2>1. low \in Values(L) /\ k = Entered(c, level, low, mem) /\ MachineType(c)
    BY <1>4, <1>6 DEF Common
  <2> HIDE DEF low, k
  <2> QED BY <2>1, TypeAfterInterrupt DEF low
<1> HIDE DEF k
<1>8. Common(k)
  BY <1>7 DEF Common, InHandler
<1>9. SrS(Sr(c)) = 0 /\ FlagsIn(Sr(c)) = Flags(c)
  BY TypeOf, SrRoundTrip DEF Common, User
<1>10. Nested(k, 1, 0)
  <2>1. Top - 6 * 1 - 8 * 0 = Top - 6 /\ 2 .. 1 = {} /\ level >= 1 - 1
    BY StackFacts, ExecuteAssumption
  <2>2. k.pc \in Places(0, 1)
    BY <1>7 DEF Places, InHandler
  <2> QED BY <1>3, <1>6, <1>7, <1>9, <2>1, <2>2 DEF Nested, FramesOf, InHandler
<1>11. Told(mem, n, 0)
  BY <1>6, <1>9 DEF Told, UserPc, User
<1>12. k.base[0] = Ideal[n].da[SP]
  <2>1. c.base \in [{0, 1} -> Values(L)] /\ c.s = 0 /\ c.da = Ideal[n].da
    BY TypeOf DEF Common, User
  <2> QED BY <1>7, <2>1 DEF InHandler
<1>13. Sees(k, n)
  <2>1. \A a \in Ram \ KernelStack : mem[a] = c.mem[a]
    BY <1>4, <1>6 DEF SameOutside
  <2>2. Sees(c, n)
    BY DEF User
  <2> QED BY <1>7, <2>1, <2>2, SeesStill DEF InHandler
<1>14. OutOK(k, n)
  BY <1>7 DEF User, OutOK, Whole, InHandler
<1> QED
  BY <1>7, <1>8, <1>10, <1>11, <1>12, <1>13, <1>14 DEF Kernel, Resumes, UserSp, User, k, InHandler

\* Interrupted, the kernel is one frame deeper: only a higher level gets through its mask
LEMMA InterruptOfKernel ==
  ASSUME NEW c, Common(c), NEW n \in 0 .. Length, NEW d, NEW e \in {0, 1}, Kernel(c, n, d, e),
         NEW level \in Levels, level > c.mask
  PROVE  Common(Interrupt(c, level)) /\ Kernel(Interrupt(c, level), n, d + 1, e) /\ d + 1 \in 1 .. 7
<1> DEFINE k == Interrupt(c, level)
           sp == Top - 6 * d - 8 * e
<1>1. c.out \subseteq Paged /\ c.out \cap KernelStack = {}
  BY StackIsNotOut DEF Kernel, Resumes
<1>2. Bottom(c) = sp /\ Fits(d) /\ d \in 1 .. 7 /\ c.mask >= d - 1 /\ c.s = 1 /\ c.mask \in 0 .. 7
  BY TypeOf DEF Bottom, Kernel, Nested, Fits, Common
<1>3. Fits(d + 1) /\ d + 1 \in 1 .. 7
  <2>1. level \in 1 .. 6
    BY ExecuteAssumption
  <2> DEFINE next == d + 1
  <2>2. next \in 1 .. 7 /\ next - 1 <= level
    BY <1>2, <2>1
  <2> HIDE DEF next
  <2>3. Fits(next)
    BY <2>2 DEF Fits
  <2> QED BY <2>2, <2>3 DEF next
<1>4. /\ sp \in Nat /\ sp \in Values(L) /\ sp % 2 = 0 /\ sp - 6 \in Nat /\ sp - 6 \in Values(L)
      /\ sp - 6 .. Top - 1 \subseteq KernelStack /\ sp - 6 = Top - 6 * (d + 1) - 8 * e
  <2>1. Top - 6 * (d + 1) - 8 * e = sp - 6
    BY <1>2, StackFacts
  <2> QED BY <1>2, <1>3, <2>1, DepthIs
<1>5. sp - 6 .. sp - 1 \subseteq KernelStack
  <2>1. sp - 6 .. sp - 1 \subseteq sp - 6 .. Top - 1
    BY <1>2, <1>4, StackFacts
  <2> QED BY <1>4, <2>1
<1>6. Deep(c, 6)
  <2> HIDE DEF sp
  <2> QED BY <1>1, <1>2, <1>4, <1>5, StackFacts DEF Deep
<1>7. PICK mem \in [Ram -> Values(B)] :
        /\ k = Entered(c, level, sp - 6, mem)
        /\ SameOutside(c.mem, mem, sp - 6, sp - 1)
        /\ WordAt(mem, sp - 6) = Sr(c) /\ LongIn(mem, sp - 4) = c.pc
  <2> HIDE DEF sp
  <2> QED BY <1>1, <1>2, <1>6, InterruptIs DEF Common
<1>8. MachineType(k) /\ InHandler(k, c, level, sp - 6, mem)
  <2> DEFINE low == sp - 6
  <2>1. low \in Values(L)
    BY <1>4
  <2>2. k = Entered(c, level, low, mem)
    BY <1>7
  <2> HIDE DEF low, k
  <2>3. MachineType(c)
    BY DEF Common
  <2> QED BY <2>1, <2>2, <2>3, TypeAfterInterrupt DEF low
<1> HIDE DEF k
<1>9. Common(k)
  BY <1>8 DEF Common, InHandler
<1>10. SrS(Sr(c)) = 1 /\ SrMask(Sr(c)) = c.mask
  BY <1>2, TypeOf, SrRoundTrip DEF Common
<1>11. Under(c.mem, mem, d, e)
  <2> DEFINE low == sp - 6
             hi == sp - 1
  <2>1. low \in Nat /\ low .. Top - 1 \subseteq KernelStack /\ SameOutside(c.mem, mem, low, hi) /\ hi = Top - 6 * d - 8 * e - 1
    BY <1>4, <1>7
  <2> HIDE DEF low, hi, sp
  <2> QED BY <1>2, <2>1, PushedUnder
<1>12. FrameOf(mem, e, d + 1)
  <2>1. Slot(e, d + 1) = sp - 6
    BY <1>2, <1>4 DEF Slot
  <2>2. sp - 6 + 2 = sp - 4 /\ d + 1 - 2 = d - 1 /\ d + 1 - 1 = d
    BY <1>2, <1>4
  <2>3. c.pc \in Places(e, d)
    BY DEF Kernel, Nested
  <2> HIDE DEF sp
  <2> QED BY <1>2, <1>7, <1>10, <2>1, <2>2, <2>3 DEF FrameOf
<1>13. FramesOf(mem, d + 1, e)
  <2>1. FramesOf(mem, d, e)
    BY <1>11 DEF Kernel, Nested, Under
  <2>2. \A j \in 2 .. d + 1 : j \in 2 .. d \/ j = d + 1
    BY <1>2
  <2> QED BY <1>12, <2>1, <2>2 DEF FramesOf
<1>14. Nested(k, d + 1, e)
  <2>1. level >= d + 1 - 1
    BY <1>2, ExecuteAssumption
  <2>2. k.pc \in Places(e, d + 1)
    <3>1. d + 1 # 1
      BY <1>2
    <3> QED BY <1>8, <3>1 DEF Places, InHandler
  <2>3. k.s = 1 /\ k.da[SP] = Top - 6 * (d + 1) - 8 * e /\ k.mask = level /\ k.mem = mem
    <3> HIDE DEF sp
    <3> QED BY <1>4, <1>8 DEF InHandler
  <2> DEFINE next == d + 1
  <2>4. /\ Fits(next) /\ k.s = 1 /\ k.da[SP] = Top - 6 * next - 8 * e /\ k.pc \in Places(e, next) /\ k.mask >= next - 1
        /\ FramesOf(k.mem, next, e)
    <3>1. next \in Int /\ k.mask >= next - 1
      BY <1>2, <2>1, <2>3
    <3>2. FramesOf(k.mem, next, e)
      BY <1>13, <2>3, Zenon
    <3>3. Fits(next) /\ k.s = 1 /\ k.da[SP] = Top - 6 * next - 8 * e /\ k.pc \in Places(e, next)
      BY <1>3, <2>2, <2>3, Zenon
    <3> QED BY <3>1, <3>2, <3>3
  <2> HIDE DEF next
  <2>5. Nested(k, next, e)
    BY <2>4 DEF Nested
  <2> QED BY <2>5 DEF next
<1>15. k.base[0] = c.base[0]
  <2>1. c.base \in [{0, 1} -> Values(L)]
    BY TypeOf DEF Common
  <2> QED BY <1>2, <1>8, <2>1 DEF InHandler
<1>16. Resumes(k, n, e)
  <2>1. Told(mem, n, e)
    BY <1>11 DEF Kernel, Resumes, Under
  <2>2. UserSp(k, e) = UserSp(c, e)
    BY <1>8, <1>11, <1>15 DEF UserSp, InHandler, Under
  <2>3. Sees(k, n)
    <3>1. Sees(c, n)
      BY DEF Kernel, Resumes
    <3> QED BY <1>8, <1>11, <3>1, SeesStill DEF InHandler, Under
  <2>4. OutOK(k, n)
    BY <1>8 DEF Kernel, Resumes, OutOK, Whole, InHandler
  <2> QED BY <1>8, <2>1, <2>2, <2>3, <2>4 DEF Kernel, Resumes, InHandler
<1> QED
  BY <1>3, <1>9, <1>14, <1>16 DEF Kernel, k

\* Either machine, but for what nothing here depends on
Alike(c, k) ==
  /\ k.da = c.da /\ k.base = c.base /\ k.pc = c.pc /\ k.s = c.s /\ k.mask = c.mask /\ k.mem = c.mem /\ k.out = c.out
  /\ Flags(k) = Flags(c)

\* What nothing depends on does not make a user machine another
LEMMA AlikeInUser == ASSUME NEW c, NEW k, NEW n, Alike(c, k), User(c, n) PROVE User(k, n)
  BY DEF Alike, User, Sees, OutOK, Whole

\* nor one in the kernel
LEMMA AlikeInKernel ==
  ASSUME NEW c, NEW k, NEW n, NEW d, NEW e, Alike(c, k), Kernel(c, n, d, e)
  PROVE  Kernel(k, n, d, e)
<1>1. Nested(k, d, e)
  BY DEF Alike, Kernel, Nested
<1>2. Resumes(k, n, e)
  <2>1. Told(k.mem, n, e) /\ UserSp(k, e) = UserSp(c, e)
    BY DEF Alike, Kernel, Resumes, UserSp
  <2>2. Sees(k, n) /\ OutOK(k, n)
    BY DEF Alike, Kernel, Resumes, Sees, OutOK, Whole
  <2> QED BY <2>1, <2>2 DEF Alike, Kernel, Resumes
<1> QED
  BY <1>1, <1>2 DEF Kernel

InKernelAt(c, n) == \E d \in 1 .. 7, e \in {0, 1} : Kernel(c, n, d, e)

\* Looking at the line takes an interrupt, from the program or from the kernel, or does nothing
LEMMA CheckKeeps ==
  ASSUME NEW c, Common(c), NEW n \in 0 .. Length, User(c, n) \/ InKernelAt(c, n)
  PROVE  /\ Common(CheckInterrupts(c))
         /\ CheckInterrupts(c) = c \/ InKernelAt(CheckInterrupts(c), n)
<1>1. c.flt = NoFault /\ c.nmi = FALSE /\ c.level \in Levels \cup {0} /\ c.mask \in 0 .. 7 /\ Shape(c)
  BY TypeOf DEF Common
<1>2. [c EXCEPT !.nmi = FALSE] = c
  BY <1>1 DEF Shape
<1>3. CASE ~(c.level > c.mask)
  <2>1. CheckInterrupts(c) = c
    BY <1>1, <1>3 DEF CheckInterrupts, Go
  <2> QED BY <2>1
<1>4. CASE c.level > c.mask
  <2>1. CheckInterrupts(c) = Interrupt(c, c.level)
    BY <1>1, <1>2, <1>4 DEF CheckInterrupts, Go
  <2>2. c.level \in Levels
    BY <1>1, <1>4
  <2>3. CASE User(c, n)
    <3>1. Common(Interrupt(c, c.level)) /\ Kernel(Interrupt(c, c.level), n, 1, 0)
      BY <2>2, <2>3, InterruptOfUser
    <3>2. 1 \in 1 .. 7 /\ 0 \in {0, 1}
      OBVIOUS
    <3> QED BY <2>1, <3>1, <3>2 DEF InKernelAt
  <2>4. CASE InKernelAt(c, n)
    <3>1. PICK d \in 1 .. 7, e \in {0, 1} : Kernel(c, n, d, e)
      BY <2>4 DEF InKernelAt
    <3> DEFINE next == d + 1
               k == Interrupt(c, c.level)
    <3>2. Common(k) /\ Kernel(k, n, next, e) /\ next \in 1 .. 7
      BY <1>4, <2>2, <3>1, InterruptOfKernel
    <3> HIDE DEF next, k
    <3>3. InKernelAt(k, n)
      BY <3>2 DEF InKernelAt
    <3> QED BY <2>1, <3>2, <3>3 DEF k
  <2> QED BY <2>3, <2>4
<1> QED
  BY <1>3, <1>4

(***************************************************************************)
(* The kernel's RTE.                                                        *)
(***************************************************************************)
\* Where the frames of a machine in the kernel are
LEMMA KernelStackOf ==
  ASSUME NEW c, NEW n, NEW d, NEW e \in {0, 1}, Kernel(c, n, d, e)
  PROVE  /\ c.da[SP] = Top - 6 * d - 8 * e /\ c.da[SP] \in Nat /\ c.da[SP] % 2 = 0
         /\ c.da[SP] .. Top - 1 \subseteq KernelStack /\ c.da[SP] .. Top - 1 \subseteq Ram \ c.out
         /\ c.out \subseteq Paged /\ d \in 1 .. 7 /\ Top \in Values(L)
<1>1. Fits(d) /\ c.da[SP] = Top - 6 * d - 8 * e /\ OutOK(c, n)
  BY DEF Kernel, Nested, Resumes
<1>2. c.out \subseteq Paged /\ c.out \cap KernelStack = {}
  BY <1>1, StackIsNotOut
<1> QED
  BY <1>1, <1>2, DepthIs, StackFacts

\* An RTE leaves a machine of the right type
LEMMA ReturnedType ==
  ASSUME NEW k, MachineType(k), k.flt = NoFault, k.s = 1, Filled(k, 6), SrS(WordAt(k.mem, k.da[SP])) \in {0, 1}
  PROVE  MachineType(Returned(k))
<1> DEFINE sp == k.da[SP]
           up == sp + 6
           v == WordAt(k.mem, sp)
           pc == LongIn(k.mem, sp + 2)
           t1 == Bit(v, W - 1)
           mask == SrMask(v)
           x1 == Bit(v, 4)
           n1 == Bit(v, 3)
           z1 == Bit(v, 2)
           v1 == Bit(v, 1)
           c1 == Bit(v, 0)
           s1 == SrS(v)
           base == [k.base EXCEPT ![1] = up]
           low == IF s1 = 1 THEN up ELSE k.base[0]
           D == [k.da EXCEPT ![SP] = low]
           r == Returned(k)
<1>1. Shape(k) /\ Fields(k)
  BY TypeHasFields
<1>2. sp \in Nat /\ up \in Values(L) /\ sp .. sp + 5 \subseteq Ram
  <2>1. sp + 6 - 1 = sp + 5
    BY DEF Filled
  <2> QED BY <2>1 DEF Filled
<1>3. v \in Values(W) /\ pc \in Values(L)
  <2>1. {sp, sp + 1, sp + 2, sp + 2 + 1, sp + 2 + 2, sp + 2 + 2 + 1} \subseteq sp .. sp + 5
    BY <1>2
  <2>2. {sp, sp + 1, sp + 2, sp + 2 + 1, sp + 2 + 2, sp + 2 + 2 + 1} \subseteq Ram
    BY <1>2, <2>1
  <2>3. \A a \in Ram : k.mem[a] \in Values(B)
    BY <1>1 DEF Fields
  <2>4. v \in Values(W) /\ WordAt(k.mem, sp + 2) \in Values(W) /\ WordAt(k.mem, sp + 2 + 2) \in Values(W)
    BY <2>2, <2>3, JoinedBytes DEF WordAt
  <2> HIDE DEF sp, v
  <2> QED BY <2>4, JoinedWords DEF LongIn, Values
<1>4. t1 \in Flag /\ x1 \in Flag /\ n1 \in Flag /\ z1 \in Flag /\ v1 \in Flag /\ c1 \in Flag /\ s1 \in Flag
  <2>1. v \in Nat
    BY <1>3, Widths DEF Values
  <2>2. W - 1 \in 0 .. L /\ 4 \in 0 .. L /\ 3 \in 0 .. L /\ 2 \in 0 .. L /\ 1 \in 0 .. L /\ 0 \in 0 .. L
    BY Widths
  <2> HIDE DEF v
  <2> QED BY <2>1, <2>2, BitsAre DEF Flag, v
<1>5. mask \in 0 .. 7
  <2>1. v \in Nat /\ 2^B \in Nat /\ 2^B >= 1
    BY <1>3, Widths DEF Values
  <2> HIDE DEF v
  <2> DEFINE p == 2^B
             q == v \div p
  <2>2. q \in Nat
    <3> HIDE DEF p
    <3>1. p \in Nat /\ p >= 1 /\ v \in Nat
      BY <2>1 DEF p
    <3> QED BY <3>1
  <2> HIDE DEF q
  <2>3. q % 8 \in 0 .. 7
    BY <2>2
  <2> QED BY <2>3 DEF SrMask, q, v
<1>6. base \in [{0, 1} -> Values(L)] /\ D \in [0 .. 15 -> Values(L)]
  <2> HIDE DEF up
  <2> QED BY <1>1, <1>2 DEF Fields, SP
<1>7. r = [k EXCEPT !.pending = FALSE, !.pc = pc, !.t = t1, !.mask = mask, !.x = x1, !.n = n1, !.z = z1, !.v = v1,
                    !.c = c1, !.base = base, !.s = s1, !.da = D]
  BY DEF Returned
<1> HIDE DEF r, pc, t1, mask, x1, n1, z1, v1, c1, base, s1, D
<1>8. /\ r.pending = FALSE /\ r.pc = pc /\ r.t = t1 /\ r.mask = mask /\ r.x = x1 /\ r.n = n1 /\ r.z = z1 /\ r.v = v1
      /\ r.c = c1 /\ r.base = base /\ r.s = s1 /\ r.da = D
      /\ r.save = k.save /\ r.ppc = k.ppc /\ r.prev = k.prev /\ r.level = k.level /\ r.nmi = k.nmi
      /\ r.stopped = k.stopped /\ r.run = k.run /\ r.instr = k.instr /\ r.fetching = k.fetching /\ r.mem = k.mem
  BY <1>1, <1>7 DEF Shape
<1>9. Shape(r)
  <2>1. D = [a \in 0 .. 15 |-> D[a]] /\ base = [s \in {0, 1} |-> base[s]]
    BY <1>6
  <2> QED BY <1>1, <1>7, <1>8, <2>1, ZenonT(40) DEF Shape
<1>10. Fields(r)
  <2>1. /\ r.da \in [0 .. 15 -> Values(L)] /\ r.save \in [0 .. 15 -> Values(L)] /\ r.base \in [{0, 1} -> Values(L)]
        /\ r.pc \in Values(L) /\ r.ppc \in Values(L) /\ r.prev \in Values(L) /\ r.mem \in [Ram -> Values(B)]
    BY <1>1, <1>3, <1>6, <1>8 DEF Fields
  <2>2. /\ r.x \in Flag /\ r.n \in Flag /\ r.z \in Flag /\ r.v \in Flag /\ r.c \in Flag /\ r.s \in Flag /\ r.t \in Flag
        /\ r.mask \in 0 .. 7 /\ r.level \in 0 .. 7
    BY <1>1, <1>4, <1>5, <1>8 DEF Fields
  <2>3. /\ r.nmi \in BOOLEAN /\ r.stopped \in SUBSET {"stop", "halt"} /\ r.run \in {"normal", "berr", "wsf"}
        /\ r.instr \in {InstructionYes, InstructionNo} /\ r.fetching \in BOOLEAN /\ r.pending \in BOOLEAN
    BY <1>1, <1>8 DEF Fields
  <2> QED BY <2>1, <2>2, <2>3 DEF Fields
<1> QED
  BY <1>9, <1>10, FieldsMakeType DEF r

\* What Returned leaves, field by field
ReturnsTo(k, r) ==
  LET sp == k.da[SP]
      v  == WordAt(k.mem, sp)
  IN  /\ r.pending = FALSE /\ r.pc = LongIn(k.mem, sp + 2) /\ r.mask = SrMask(v) /\ Flags(r) = FlagsIn(v) /\ r.s = SrS(v)
      /\ r.mem = k.mem /\ r.out = k.out /\ r.flt = k.flt /\ r.nmi = k.nmi /\ r.stopped = k.stopped /\ r.run = k.run
      /\ r.level = k.level /\ r.ir = k.ir /\ r.prev = k.prev
      /\ r.base[0] = k.base[0] /\ r.base[1] = sp + 6
      /\ r.da[SP] = (IF SrS(v) = 1 THEN sp + 6 ELSE k.base[0]) /\ \A a \in 0 .. 14 : r.da[a] = k.da[a]

\* and these fields
LEMMA ReturnedIs == ASSUME NEW k, Shape(k) PROVE ReturnsTo(k, Returned(k))
<1> DEFINE sp == k.da[SP]
           up == sp + 6
           v == WordAt(k.mem, sp)
           pc == LongIn(k.mem, sp + 2)
           t1 == Bit(v, W - 1)
           mask == SrMask(v)
           x1 == Bit(v, 4)
           n1 == Bit(v, 3)
           z1 == Bit(v, 2)
           v1 == Bit(v, 1)
           c1 == Bit(v, 0)
           s1 == SrS(v)
           base == [k.base EXCEPT ![1] = up]
           low == IF s1 = 1 THEN up ELSE k.base[0]
           D == [k.da EXCEPT ![SP] = low]
           r == Returned(k)
<1>1. r = [k EXCEPT !.pending = FALSE, !.pc = pc, !.t = t1, !.mask = mask, !.x = x1, !.n = n1, !.z = z1, !.v = v1,
                    !.c = c1, !.base = base, !.s = s1, !.da = D]
  BY DEF Returned
<1>2. base[0] = k.base[0] /\ base[1] = up /\ D[SP] = low /\ \A a \in 0 .. 14 : D[a] = k.da[a]
  <2> HIDE DEF up, low
  <2> QED BY DEF Shape, SP
<1> HIDE DEF r, pc, t1, mask, x1, n1, z1, v1, c1, base, s1, D, v
<1>3. /\ r.pending = FALSE /\ r.pc = pc /\ r.mask = mask /\ r.x = x1 /\ r.n = n1 /\ r.z = z1 /\ r.v = v1
      /\ r.c = c1 /\ r.base = base /\ r.s = s1 /\ r.da = D /\ r.mem = k.mem /\ r.out = k.out /\ r.flt = k.flt
      /\ r.nmi = k.nmi /\ r.stopped = k.stopped /\ r.run = k.run /\ r.level = k.level /\ r.ir = k.ir /\ r.prev = k.prev
  BY <1>1 DEF Shape
<1>4. Flags(r) = FlagsIn(v)
  BY <1>3 DEF Flags, FlagsIn, x1, n1, z1, v1, c1
<1> QED
  BY <1>2, <1>3, <1>4 DEF ReturnsTo, r, pc, mask, s1, v

\* A machine in the kernel at its RTE, ready to take the frame of the j-th exception off
LEMMA ReturnLeaves ==
  ASSUME NEW k, Common(k), NEW n \in 0 .. Length, NEW d, NEW e \in {0, 1}, Kernel(k, n, d, e), ~(d = 1 /\ e = 1)
  PROVE  /\ Filled(k, 6) /\ k.s = 1
         /\ Common(Returned(k)) /\ (User(Returned(k), n) \/ InKernelAt(Returned(k), n))
<1> DEFINE sp == k.da[SP]
           v == WordAt(k.mem, sp)
           r == Returned(k)
<1>1. /\ sp = Top - 6 * d - 8 * e /\ sp \in Nat /\ sp % 2 = 0
      /\ sp .. Top - 1 \subseteq KernelStack /\ sp .. Top - 1 \subseteq Ram \ k.out
      /\ k.out \subseteq Paged /\ d \in 1 .. 7 /\ Top \in Values(L)
  BY KernelStackOf
<1>2. Shape(k) /\ Fields(k) /\ k.flt = NoFault /\ k.s = 1
  BY TypeHasFields DEF Common, Kernel, Nested
<1>3. Filled(k, 6)
  <2>1. Top \in Nat /\ sp + 6 <= Top
    BY <1>1, StackFacts
  <2>2. sp + 6 \in Values(L)
    BY <1>1, <2>1, Widths DEF Values
  <2>3. sp .. sp + 6 - 1 \subseteq sp .. Top - 1
    BY <1>1, <2>1
  <2> HIDE DEF sp
  <2> QED BY <1>1, <1>2, <2>2, <2>3 DEF Filled, Fields, sp
<1>4. ReturnsTo(k, r)
  BY <1>2, ReturnedIs
<1>5. SrS(v) \in {0, 1}
  BY <1>2, <1>3, RteIs
<1>6. MachineType(r)
  BY <1>2, <1>3, <1>5, ReturnedType DEF Common
<1>7. Common(r)
  <2> HIDE DEF r
  <2> QED BY <1>4, <1>6 DEF Common, ReturnsTo
<1>8. Sees(r, n) /\ OutOK(r, n)
  <2> HIDE DEF r
  <2> QED BY <1>4 DEF ReturnsTo, Kernel, Resumes, Sees, OutOK, Whole
<1>9. CASE d = 1
  <2>1. e = 0 /\ sp = Top - 6 /\ sp + 2 = Top - 4 /\ sp + 6 = Top
    BY <1>1, <1>9, StackFacts
  <2>2. SrS(v) = 0
    BY <2>1 DEF Kernel, Nested, FramesOf
  <2>3. FlagsIn(v) = Flags(Ideal[n]) /\ LongIn(k.mem, sp + 2) = Ideal[n].pc
    BY <2>1 DEF Kernel, Resumes, Told, UserPc
  <2>4. k.base[0] = Ideal[n].da[SP]
    BY <2>1 DEF Kernel, Resumes, UserSp
  <2> HIDE DEF r, v, sp
  <2>5. r.da = Ideal[n].da
    <3>1. MachineType(Ideal[n])
      BY ProgramAssumption DEF RunsStraight
    <3>2. Ideal[n].da \in [0 .. 15 -> Values(L)] /\ r.da \in [0 .. 15 -> Values(L)]
      BY <1>6, <3>1, TypeOf
    <3>3. r.da[SP] = Ideal[n].da[SP]
      BY <1>4, <2>2, <2>4 DEF ReturnsTo, v, sp
    <3>4. \A a \in 0 .. 14 : r.da[a] = Ideal[n].da[a]
      BY <1>4 DEF ReturnsTo, Kernel, Resumes
    <3>5. \A a \in 0 .. 15 : r.da[a] = Ideal[n].da[a]
      BY <3>3, <3>4 DEF SP
    <3> QED BY <3>2, <3>5
  <2>6. r.s = 0 /\ r.base[1] = Top /\ r.pc = Ideal[n].pc /\ Flags(r) = Flags(Ideal[n])
    BY <1>4, <2>1, <2>2, <2>3 DEF ReturnsTo, v, sp
  <2>7. User(r, n)
    BY <1>8, <2>5, <2>6 DEF User
  <2> QED BY <1>2, <1>3, <1>7, <2>7 DEF r
<1>10. CASE d # 1
  <2> DEFINE p == d - 1
  <2>1. d \in 2 .. d /\ p \in 1 .. 7 /\ d - 2 = p - 1
    BY <1>1, <1>10
  <2>2. Slot(e, d) = sp
    BY <1>1, <1>10 DEF Slot
  <2>3. FrameOf(k.mem, e, d)
    BY <2>1 DEF Kernel, Nested, FramesOf
  <2>4. SrS(v) = 1 /\ SrMask(v) >= p - 1 /\ LongIn(k.mem, sp + 2) \in Places(e, p)
    BY <2>1, <2>2, <2>3 DEF FrameOf
  <2>5. sp + 6 = Top - 6 * p - 8 * e
    BY <1>1, StackFacts
  <2>6. Fits(p)
    <3>1. PICK l \in Levels \cup {0} : d - 1 <= l
      BY DEF Kernel, Nested, Fits
    <3>2. l \in Int /\ p - 1 <= l
      BY <1>1, <3>1, StackFacts
    <3> QED BY <2>1, <3>1, <3>2 DEF Fits
  <2>7. FramesOf(k.mem, p, e)
    <3>1. \A j \in 2 .. p : j \in 2 .. d
      BY <1>1
    <3> QED BY <3>1 DEF Kernel, Nested, FramesOf
  <2>8. Nested(r, p, e)
    <3> HIDE DEF r, p
    <3> QED BY <1>4, <2>4, <2>5, <2>6, <2>7 DEF ReturnsTo, Nested
  <2>9. Resumes(r, n, e)
    <3>1. r.mem = k.mem /\ r.base[0] = k.base[0] /\ \A a \in 0 .. 14 : r.da[a] = k.da[a]
      <4> HIDE DEF r
      <4> QED BY <1>4 DEF ReturnsTo
    <3>2. UserSp(r, e) = UserSp(k, e)
      <4> HIDE DEF r
      <4> QED BY <3>1 DEF UserSp
    <3> HIDE DEF r
    <3> QED BY <1>8, <3>1, <3>2 DEF Kernel, Resumes
  <2> HIDE DEF r, p
  <2>10. InKernelAt(r, n)
    BY <2>1, <2>8, <2>9 DEF InKernelAt, Kernel
  <2> QED BY <1>2, <1>3, <1>7, <2>10 DEF r
<1> QED
  BY <1>9, <1>10

\* k is c about to execute i
HasBegun(c, i, k) ==
  /\ MachineType(k) /\ k.pc = c.pc + 2 /\ k.ir = i /\ k.ppc = c.pc /\ k.save = c.da /\ k.prev = c.prev
  /\ k.da = c.da /\ k.base = c.base /\ k.s = c.s /\ k.mask = c.mask /\ k.mem = c.mem /\ k.out = c.out
  /\ Flags(k) = Flags(c) /\ k.flt = c.flt /\ k.nmi = c.nmi /\ k.stopped = c.stopped /\ k.run = c.run
  /\ k.level = c.level /\ k.pending = FALSE /\ k.fetching = FALSE /\ k.instr = c.instr /\ k.t = c.t

\* The top of the loop leaves a machine of the right type
LEMMA TypeAfterBegin ==
  ASSUME NEW c, MachineType(c), c.flt = NoFault, c.pc % 2 = 0, Translates(c, c.pc), c.pc + 2 \in Values(L), NEW i
  PROVE  HasBegun(c, i, Begin(c, i))
<1> DEFINE k == Begin(c, i)
           up == c.pc + 2
<1>1. Shape(c) /\ Fields(c)
  BY TypeHasFields
<1>2. k = [c EXCEPT !.ppc = c.pc, !.save = c.da, !.fetching = FALSE, !.pc = up, !.pending = FALSE, !.ir = i]
  BY <1>1, BeginIs, MaskIs
<1> HIDE DEF k, up
<1>3. /\ k.pc = up /\ k.ir = i /\ k.ppc = c.pc /\ k.save = c.da /\ k.prev = c.prev
      /\ k.da = c.da /\ k.base = c.base /\ k.s = c.s /\ k.mask = c.mask /\ k.mem = c.mem /\ k.out = c.out
      /\ k.x = c.x /\ k.n = c.n /\ k.z = c.z /\ k.v = c.v /\ k.c = c.c /\ k.flt = c.flt /\ k.nmi = c.nmi
      /\ k.stopped = c.stopped /\ k.run = c.run
      /\ k.level = c.level /\ k.pending = FALSE /\ k.fetching = FALSE /\ k.instr = c.instr /\ k.t = c.t
  BY <1>1, <1>2 DEF Shape
<1>4. Shape(k)
  BY <1>1, <1>2, <1>3 DEF Shape
<1>5. Fields(k)
  BY <1>1, <1>3 DEF Fields, up
<1> QED
  BY <1>3, <1>4, <1>5, FieldsMakeType DEF k, up, Flags, HasBegun

\* So does the end of an RTE
LEMMA TypeAtEnd ==
  ASSUME NEW c, MachineType(c), NEW p \in Values(L)
  PROVE  LET k == [c EXCEPT !.instr = InstructionYes, !.run = "normal", !.prev = p] IN
         MachineType(k) /\ Alike(c, k)
         /\ k.ir = c.ir /\ k.flt = c.flt /\ k.nmi = c.nmi /\ k.stopped = c.stopped /\ k.level = c.level /\ k.pending = c.pending
         /\ k.run = "normal"
<1> DEFINE k == [c EXCEPT !.instr = InstructionYes, !.run = "normal", !.prev = p]
<1>1. Shape(c) /\ Fields(c)
  BY TypeHasFields
<1>2. /\ k.pc = c.pc /\ k.ir = c.ir /\ k.ppc = c.ppc /\ k.save = c.save /\ k.prev = p
      /\ k.da = c.da /\ k.base = c.base /\ k.s = c.s /\ k.mask = c.mask /\ k.mem = c.mem /\ k.out = c.out
      /\ k.x = c.x /\ k.n = c.n /\ k.z = c.z /\ k.v = c.v /\ k.c = c.c /\ k.flt = c.flt /\ k.nmi = c.nmi
      /\ k.stopped = c.stopped /\ k.run = "normal"
      /\ k.level = c.level /\ k.pending = c.pending /\ k.fetching = c.fetching /\ k.instr = InstructionYes /\ k.t = c.t
  BY <1>1 DEF Shape
<1>3. Shape(k)
  BY <1>1, <1>2 DEF Shape
<1> HIDE DEF k
<1>4. Fields(k)
  BY <1>1, <1>2 DEF Fields
<1> QED
  BY <1>2, <1>3, <1>4, FieldsMakeType DEF Alike, Flags, k

\* A machine alike is where the machine was
LEMMA AliveAgain ==
  ASSUME NEW c, NEW k, NEW n, Alike(c, k), User(c, n) \/ InKernelAt(c, n)
  PROVE  (User(k, n) /\ User(c, n)) \/ InKernelAt(k, n)
  BY AlikeInUser, AlikeInKernel DEF InKernelAt

\* The kernel's RTE takes one frame off: it returns to the program, whose next fetch will see
\* that an RTE came before it, to a handler it preempted, or, with a line up, to the kernel again
LEMMA ReturnTurn ==
  ASSUME NEW c, Common(c), NEW n \in 0 .. Length, NEW d, NEW e \in {0, 1}, Kernel(c, n, d, e), c.pc = KernelReturn,
         ~(d = 1 /\ e = 1)
  PROVE  /\ Common(Turn(c))
         /\ (User(Turn(c), n) /\ Turn(c).ir = Bare("rte")) \/ InKernelAt(Turn(c), n)
<1> DEFINE i == Bare("rte")
           k == Begin(c, i)
           r == Returned(k)
           q == Returned(c)
           g == CheckInterrupts(r)
           t == [g EXCEPT !.instr = InstructionYes, !.run = "normal", !.prev = g.ppc]
<1>1. InstructionAt(c.pc) = i
  BY DEF InstructionAt
<1>2. Shape(c) /\ c.flt = NoFault /\ MachineType(c) /\ c.out \subseteq Paged /\ c.s = 1
  BY TypeOf, KernelStackOf DEF Common, Kernel, Nested
<1>3. c.pc % 2 = 0 /\ Translates(c, c.pc) /\ c.pc + 2 \in Values(L)
  BY <1>2, EntryFacts, KernelAssumption DEF Translates
<1>4. /\ MachineType(k) /\ k.ir = i /\ k.da = c.da /\ k.base = c.base /\ k.s = c.s /\ k.mem = c.mem /\ k.out = c.out
      /\ k.flt = c.flt /\ k.nmi = c.nmi /\ k.stopped = c.stopped /\ k.run = c.run /\ k.level = c.level
  <2>1. HasBegun(c, i, k)
    BY <1>2, <1>3, TypeAfterBegin
  <2> HIDE DEF i, k
  <2> QED BY <2>1 DEF HasBegun
<1> HIDE DEF k
<1>5. Filled(c, 6) /\ Common(q) /\ (User(q, n) \/ InKernelAt(q, n))
  BY ReturnLeaves
<1>6. Shape(k) /\ Filled(k, 6) /\ k.s = 1 /\ k.flt = NoFault
  <2>1. Shape(k) /\ k.mem \in [Ram -> Values(B)]
    BY <1>4, TypeOf
  <2> QED BY <1>2, <1>4, <1>5, <2>1 DEF Filled
<1>7. ReturnsTo(c, q) /\ ReturnsTo(k, r)
  BY <1>2, <1>6, ReturnedIs
<1>8. SrS(WordAt(k.mem, k.da[SP])) \in {0, 1} /\ Rte(k, i) = EndException(g)
  BY <1>6, RteIs
<1>9. MachineType(r)
  BY <1>4, <1>6, <1>8, ReturnedType
<1>10. Common(r)
  <2> HIDE DEF r
  <2> QED BY <1>4, <1>7, <1>9 DEF Common, ReturnsTo
<1>11. Alike(q, r)
  <2>1. q.da \in [0 .. 15 -> Values(L)] /\ r.da \in [0 .. 15 -> Values(L)] /\ q.base \in [{0, 1} -> Values(L)] /\ r.base \in [{0, 1} -> Values(L)]
    BY <1>5, <1>9, TypeOf DEF Common
  <2> HIDE DEF q, r
  <2>2. r.pc = q.pc /\ r.s = q.s /\ r.mask = q.mask /\ r.mem = q.mem /\ r.out = q.out /\ Flags(r) = Flags(q)
    BY <1>4, <1>7 DEF ReturnsTo
  <2>3. r.base[0] = q.base[0] /\ r.base[1] = q.base[1]
    BY <1>4, <1>7 DEF ReturnsTo
  <2>4. r.base = q.base
    BY <2>1, <2>3
  <2>5. r.da[SP] = q.da[SP] /\ \A a \in 0 .. 14 : r.da[a] = q.da[a]
    BY <1>4, <1>7 DEF ReturnsTo
  <2>6. r.da = q.da
    <3>1. \A a \in 0 .. 15 : r.da[a] = q.da[a]
      BY <2>5 DEF SP
    <3> QED BY <2>1, <3>1
  <2> QED BY <2>2, <2>4, <2>6 DEF Alike
<1>12. User(r, n) \/ InKernelAt(r, n)
  <2> HIDE DEF q, r
  <2> QED BY <1>5, <1>11, AliveAgain
<1>13. r.ir = i
  <2> HIDE DEF r, i
  <2> QED BY <1>4, <1>7 DEF ReturnsTo
<1> HIDE DEF r
<1>14. Common(g) /\ (g = r \/ InKernelAt(g, n))
  BY <1>10, <1>12, CheckKeeps
<1>15. Turn(c) = t
  <2>1. Execute(k, i) = Rte(k, i)
    BY DEF Execute, FlowExecute, Bare, LaterProcessors, Coprocessors
  <2>2. Turn(c) = Settle(Execute(k, i))
    BY <1>1 DEF Turn, k
  <2>3. g.flt = NoFault /\ Shape(g)
    BY <1>14, TypeOf DEF Common
  <2> HIDE DEF g, i
  <2>4. EndException(g) = [g EXCEPT !.instr = InstructionYes, !.run = "normal"]
    BY <2>3 DEF EndException, Go
  <2>5. Settle(EndException(g)) = t
    BY <2>3, <2>4 DEF Settle, Shape
  <2> QED BY <1>8, <2>1, <2>2, <2>5
<1>16. /\ MachineType(t) /\ Alike(g, t) /\ t.ir = g.ir /\ t.flt = g.flt /\ t.nmi = g.nmi /\ t.stopped = g.stopped
       /\ t.level = g.level /\ t.pending = g.pending /\ t.run = "normal"
  <2>1. MachineType(g) /\ g.ppc \in Values(L)
    BY <1>14, TypeOf DEF Common
  <2> HIDE DEF g
  <2> QED BY <2>1, TypeAtEnd
<1> HIDE DEF g, t
<1>17. Common(t)
  BY <1>14, <1>16 DEF Common
<1>18. User(g, n) \/ InKernelAt(g, n)
  BY <1>12, <1>14
<1>19. (User(t, n) /\ User(g, n)) \/ InKernelAt(t, n)
  BY <1>16, <1>18, AliveAgain
<1>20. (User(t, n) /\ t.ir = i) \/ InKernelAt(t, n)
  <2>1. CASE InKernelAt(g, n)
    <3>1. InKernelAt(t, n)
      BY <1>16, <2>1, AlikeInKernel DEF InKernelAt
    <3> QED BY <3>1
  <2>2. CASE ~InKernelAt(g, n)
    BY <1>13, <1>14, <1>16, <1>19, <2>2
  <2> QED BY <2>1, <2>2
<1> QED
  BY <1>15, <1>17, <1>20

\* The kernel writes a long
LEMMA StoredLongIs ==
  ASSUME NEW mem \in [Ram -> Values(B)], NEW a \in Nat, a .. a + 3 \subseteq Ram, NEW v \in Values(L)
  PROVE  /\ StoredLong(mem, a, v) \in [Ram -> Values(B)] /\ LongIn(StoredLong(mem, a, v), a) = v
         /\ SameOutside(mem, StoredLong(mem, a, v), a, a + 3)
<1> DEFINE high == v \div 2^W
           low == v % 2^W
           one == Stored(mem, a, 2, high)
           two == Stored(one, a + 2, 2, low)
<1>1. a \in Ram /\ a + 1 \in Ram /\ a + 2 \in Ram /\ a + 3 \in Ram /\ a + 2 + 1 = a + 3
  <2>1. {a, a + 1, a + 2, a + 3} \subseteq a .. a + 3
    OBVIOUS
  <2> QED BY <2>1
<1>2. high \in Values(W) /\ low \in Values(W) /\ high * 2^W + low = v
  <2> DEFINE p == 2^W
  <2>1. p \in Nat /\ p >= 1 /\ v \in 0 .. p * p - 1
    BY Widths DEF Values
  <2> HIDE DEF p
  <2>2. v \div p \in 0 .. p - 1 /\ v % p \in 0 .. p - 1 /\ (v \div p) * p + (v % p) = v
    BY <2>1, Splitting
  <2> QED BY <2>2 DEF p, Values
<1> HIDE DEF high, low
<1>3. one \in [Ram -> Values(B)] /\ WordAt(one, a) = high /\ \A b \in Ram \ (a .. a + 1) : one[b] = mem[b]
  <2>1. a .. a + 1 \subseteq Ram
    BY <1>1
  <2> QED BY <1>2, <2>1, WordIsWritten
<1> HIDE DEF one
<1>4. two \in [Ram -> Values(B)] /\ WordAt(two, a + 2) = low /\ \A b \in Ram \ (a + 2 .. a + 3) : two[b] = one[b]
  <2> DEFINE up == a + 2
  <2>1. up .. up + 1 \subseteq Ram /\ up \in Nat /\ up .. up + 1 = a + 2 .. a + 3
    BY <1>1
  <2> HIDE DEF up
  <2>2. Stored(one, up, 2, low) \in [Ram -> Values(B)] /\ WordAt(Stored(one, up, 2, low), up) = low
        /\ \A b \in Ram \ (up .. up + 1) : Stored(one, up, 2, low)[b] = one[b]
    BY <1>2, <1>3, <2>1, WordIsWritten
  <2> QED BY <2>1, <2>2 DEF up
<1> HIDE DEF two
<1>5. WordAt(two, a) = high
  <2>1. a \in Ram \ (a + 2 .. a + 3) /\ a + 1 \in Ram \ (a + 2 .. a + 3)
    BY <1>1
  <2>2. WordAt(two, a) = WordAt(one, a)
    BY <1>4, <2>1 DEF WordAt
  <2> QED BY <1>3, <2>2
<1>6. LongIn(two, a) = v
  BY <1>2, <1>4, <1>5 DEF LongIn
<1>7. SameOutside(mem, two, a, a + 3)
  <2>1. \A b \in Ram \ (a .. a + 3) : b \in Ram \ (a .. a + 1) /\ b \in Ram \ (a + 2 .. a + 3)
    OBVIOUS
  <2> QED BY <1>3, <1>4, <2>1 DEF SameOutside
<1>8. StoredLong(mem, a, v) = two
  BY <1>1, BusOfRam DEF StoredLong, two, one, high, low
<1> QED
  BY <1>4, <1>6, <1>7, <1>8

\* What the kernel reads in the frame is what the core put there
LEMMA FrameRead ==
  ASSUME NEW c, NEW n \in 0 .. Length, Kernel(c, n, 1, 1), Common(c)
  PROVE  /\ c.da[SP] = Top - 14 /\ Top - 14 \in Nat /\ Top - 14 .. Top - 1 \subseteq Ram \ c.out
         /\ Top - 14 .. Top - 1 \subseteq KernelStack /\ Top \in Values(L)
         /\ BadAddress(c) = LongIn(c.mem, Top - 12) /\ FormInFrame(c) = FormIn(c.mem)
         /\ LongAt(c, Top - 4) = LongIn(c.mem, Top - 4) /\ BusAddress(Top - 4) = Top - 4 /\ BusAddress(Top - 2) = Top - 2
<1> DEFINE sp == c.da[SP]
<1>1. /\ sp = Top - 14 /\ sp \in Nat /\ sp .. Top - 1 \subseteq Ram \ c.out /\ Top \in Values(L)
      /\ sp .. Top - 1 \subseteq KernelStack
  <2>1. 1 \in {0, 1}
    OBVIOUS
  <2>2. /\ sp = Top - 6 * 1 - 8 * 1 /\ sp \in Nat /\ sp .. Top - 1 \subseteq Ram \ c.out /\ Top \in Values(L)
        /\ sp .. Top - 1 \subseteq KernelStack
    BY <2>1, KernelStackOf
  <2>3. Top - 6 * 1 - 8 * 1 = Top - 14
    BY StackFacts
  <2> QED BY <2>2, <2>3
<1>2. Top \in Nat /\ Top - 12 \in Nat /\ Top - 8 \in Nat /\ Top - 4 \in Nat
  BY <1>1, StackFacts
<1>3. Top - 12 .. Top - 12 + 3 \subseteq Ram /\ Top - 4 .. Top - 4 + 3 \subseteq Ram /\ Top - 8 \in Ram /\ Top - 8 + 1 \in Ram
  <2>1. /\ Top - 12 .. Top - 12 + 3 \subseteq Top - 14 .. Top - 1 /\ Top - 4 .. Top - 4 + 3 \subseteq Top - 14 .. Top - 1
        /\ Top - 8 \in Top - 14 .. Top - 1 /\ Top - 8 + 1 \in Top - 14 .. Top - 1
    BY <1>1, <1>2
  <2> QED BY <1>1, <2>1
<1>4. BadAddress(c) = LongIn(c.mem, Top - 12)
  <2>1. sp + 2 = Top - 12
    BY <1>1, <1>2
  <2>2. LongAt(c, Top - 12) = LongIn(c.mem, Top - 12)
    BY <1>2, <1>3, LongInRam
  <2> QED BY <2>1, <2>2 DEF BadAddress
<1>5. FormInFrame(c) = FormIn(c.mem)
  <2>1. sp + 6 = Top - 8
    BY <1>1, <1>2
  <2>2. BusAddress(Top - 8) = Top - 8 /\ ValueAt(c, Top - 8, 2) = WordAt(c.mem, Top - 8)
    BY <1>3, BusOfRam, ValueIsWord
  <2> QED BY <2>1, <2>2 DEF FormInFrame, FormIn
<1>6. /\ LongAt(c, Top - 4) = LongIn(c.mem, Top - 4) /\ BusAddress(Top - 4) = Top - 4 /\ BusAddress(Top - 4 + 2) = Top - 4 + 2
  BY <1>2, <1>3, LongInRam
<1>7. Top - 4 + 2 = Top - 2
  BY <1>2
<1> QED
  BY <1>1, <1>4, <1>5, <1>6, <1>7

\* What the core pushed, the kernel can recover from
LEMMA BusErrorIsRecoverable ==
  ASSUME NEW c, NEW n \in 0 .. Length, Kernel(c, n, 1, 1), Common(c)
  PROVE  Recoverable(c)
<1>1. \A k \in 0 .. 13 : Translates(c, c.da[SP] + k)
  <2> TAKE k \in 0 .. 13
  <2>1. c.da[SP] + k \in Top - 14 .. Top - 1
    BY FrameRead, StackFacts
  <2> QED BY <2>1, FrameRead, RamTranslates
<1>2. FormInFrame(c) \in DOMAIN Distance \cup {"rte"} /\ Holding(BadAddress(c)) # {}
  BY FrameRead DEF Kernel, Resumes, Told
<1> QED
  BY <1>1, <1>2 DEF Recoverable

\* A segment in one of a set of whole segments
LEMMA WholeLess ==
  ASSUME NEW c, NEW k, NEW n, OutOK(c, n), NEW S, S \subseteq Segments, k.out = c.out \ UNION S
  PROVE  OutOK(k, n)
<1>1. Whole(k)
  <2> SUFFICES ASSUME NEW a \in Mapped, NEW b \in Mapped, InSame(a, b)
               PROVE  a \in k.out <=> b \in k.out
    BY DEF Whole
  <2>1. a \in c.out <=> b \in c.out
    BY DEF OutOK, Whole
  <2>2. a \in UNION S <=> b \in UNION S
    BY DEF InSame
  <2> QED BY <2>1, <2>2
<1> QED
  BY <1>1 DEF OutOK

\* A segment taken out leaves whole segments out, and nothing the program has probed for good
LEMMA WholeMore ==
  ASSUME NEW c, NEW k, NEW n, OutOK(c, n), NEW g \in Swappable, k.out = c.out \cup g
  PROVE  OutOK(k, n)
<1>1. Whole(k)
  <2> SUFFICES ASSUME NEW a \in Mapped, NEW b \in Mapped, InSame(a, b)
               PROVE  a \in k.out <=> b \in k.out
    BY DEF Whole
  <2>1. a \in c.out <=> b \in c.out
    BY DEF OutOK, Whole
  <2>2. a \in g <=> b \in g
    BY ExecuteAssumption DEF InSame
  <2> QED BY <2>1, <2>2
<1>2. k.out \subseteq Start.out \cup UNION Swappable
  BY DEF OutOK
<1>3. Probed(n) \cap k.out = {}
  <2>1. Probed(n) \cap UNION Swappable = {}
    BY DEF Probed
  <2> QED BY <2>1 DEF OutOK
<1> QED
  BY <1>1, <1>2, <1>3 DEF OutOK

\* The kernel's handler of bus errors leaves a frame that returns to the instruction it told:
\* PC backed up by the distance of its form, stack pointer un-popped, segment in memory
LEMMA RecoveredIs ==
  ASSUME NEW c, NEW n \in 0 .. Length, Kernel(c, n, 1, 1), Common(c)
  PROVE  Common(Recovered(c)) /\ Kernel(Recovered(c), n, 1, 0)
<1> DEFINE bad == LongIn(c.mem, Top - 12)
           form == FormIn(c.mem)
           pc == UserPc(c.mem, 1)
           low == UserSp(c, 1)
           out == c.out \ UNION Holding(bad)
           mem == StoredLong(c.mem, Top - 4, pc)
           sp == Top - 6
           D == [c.da EXCEPT ![SP] = sp]
           base == [c.base EXCEPT ![0] = low]
           here == KernelReturn
           back == KernelReturn - 2
           nop == [op |-> "nop"]
           k == Recovered(c)
<1>1. Shape(c) /\ Fields(c)
  BY TypeHasFields DEF Common
<1>2. /\ c.da[SP] = Top - 14 /\ Top - 14 \in Nat /\ Top \in Nat /\ Top - 14 .. Top - 1 \subseteq Ram \ c.out
      /\ Top - 14 .. Top - 1 \subseteq KernelStack /\ Top \in Values(L)
  BY FrameRead, StackFacts
<1>3. pc = Ideal[n].pc /\ low = Ideal[n].da[SP] /\ pc \in Values(L) /\ low \in Values(L)
  <2>1. MachineType(Ideal[n])
    BY ProgramAssumption DEF RunsStraight
  <2>2. Ideal[n].da \in [0 .. 15 -> Values(L)] /\ Ideal[n].pc \in Values(L)
    BY <2>1, TypeOf
  <2>3. SP \in 0 .. 15
    BY DEF SP
  <2> QED BY <2>2, <2>3 DEF Kernel, Resumes, Told
<1>4. mem \in [Ram -> Values(B)] /\ LongIn(mem, Top - 4) = pc /\ SameOutside(c.mem, mem, Top - 4, Top - 1)
  <2> DEFINE a == Top - 4
  <2>1. a \in Nat /\ a .. a + 3 \subseteq Top - 14 .. Top - 1 /\ a + 3 = Top - 1
    BY <1>2
  <2>2. a .. a + 3 \subseteq Ram
    BY <1>2, <2>1
  <2>3. c.mem \in [Ram -> Values(B)]
    BY <1>1 DEF Fields
  <2> HIDE DEF a, pc
  <2>4. StoredLong(c.mem, a, pc) \in [Ram -> Values(B)] /\ LongIn(StoredLong(c.mem, a, pc), a) = pc
        /\ SameOutside(c.mem, StoredLong(c.mem, a, pc), a, a + 3)
    BY <1>3, <2>1, <2>2, <2>3, StoredLongIs
  <2> QED BY <2>1, <2>4 DEF a
<1>5. k = [c EXCEPT !.out = out, !.mem = mem, !.da = D, !.base = base, !.pc = here, !.ppc = back, !.prev = back, !.ir = nop]
  <2>1. c.da[SP] + 10 = Top - 4 /\ c.da[SP] + 8 = sp
    BY <1>2
  <2> DEFINE pc1 == IF FormInFrame(c) = "rte" THEN BadAddress(c) ELSE Mask(L, LongAt(c, c.da[SP] + 10) - Distance[FormInFrame(c)])
             low1 == IF FormInFrame(c) = "rts" THEN Mask(L, c.base[0] - 4) ELSE c.base[0]
             j == [c EXCEPT !.out = @ \ UNION Holding(BadAddress(c)), !.mem = StoredLong(@, c.da[SP] + 10, pc1),
                            !.da[SP] = @ + 8, !.base[0] = low1]
  <2>2. pc1 = pc
    BY <2>1, FrameRead DEF UserPc
  <2>3. low1 = low
    BY FrameRead DEF UserSp
  <2>4. BadAddress(c) = bad
    BY FrameRead
  <2>5. k = AtReturn(j)
    BY DEF Recovered
  <2> HIDE DEF pc1, low1, pc, low, bad, sp
  <2>6. j = [c EXCEPT !.out = out, !.mem = mem, !.da = D, !.base = base]
    BY <2>1, <2>2, <2>3, <2>4
  <2> HIDE DEF j, out, mem, D, base, k
  <2> QED BY <1>1, <2>5, <2>6 DEF AtReturn, Shape
<1>6. D \in [0 .. 15 -> Values(L)] /\ base \in [{0, 1} -> Values(L)] /\ here \in Values(L) /\ back \in Values(L)
      /\ D[SP] = sp /\ base[0] = low /\ \A a \in 0 .. 14 : D[a] = c.da[a]
  <2>1. sp \in Values(L)
    BY <1>2, Widths DEF Values
  <2> HIDE DEF sp, low
  <2> QED BY <1>1, <1>3, <2>1, EntryFacts DEF Fields, SP
<1> HIDE DEF k, out, mem, D, base, here, back, nop
<1>7. /\ k.out = out /\ k.mem = mem /\ k.da = D /\ k.base = base /\ k.pc = here /\ k.ppc = back /\ k.prev = back
      /\ k.save = c.save /\ k.x = c.x /\ k.n = c.n /\ k.z = c.z /\ k.v = c.v /\ k.c = c.c /\ k.s = c.s /\ k.t = c.t
      /\ k.mask = c.mask /\ k.level = c.level /\ k.nmi = c.nmi /\ k.stopped = c.stopped /\ k.run = c.run
      /\ k.instr = c.instr /\ k.fetching = c.fetching /\ k.pending = c.pending /\ k.flt = c.flt
  BY <1>1, <1>5 DEF Shape
<1>8. Shape(k)
  <2>1. D = [a \in 0 .. 15 |-> D[a]] /\ base = [s \in {0, 1} |-> base[s]] /\ mem = [a \in Ram |-> mem[a]]
    BY <1>4, <1>6
  <2> QED BY <1>1, <1>5, <1>7, <2>1, ZenonT(40) DEF Shape
<1>9. Fields(k)
  <2>1. /\ k.da \in [0 .. 15 -> Values(L)] /\ k.save \in [0 .. 15 -> Values(L)] /\ k.base \in [{0, 1} -> Values(L)]
        /\ k.pc \in Values(L) /\ k.ppc \in Values(L) /\ k.prev \in Values(L) /\ k.mem \in [Ram -> Values(B)]
    BY <1>1, <1>4, <1>6, <1>7 DEF Fields
  <2>2. /\ k.x \in Flag /\ k.n \in Flag /\ k.z \in Flag /\ k.v \in Flag /\ k.c \in Flag /\ k.s \in Flag /\ k.t \in Flag
        /\ k.mask \in 0 .. 7 /\ k.level \in 0 .. 7
    BY <1>1, <1>7 DEF Fields
  <2>3. /\ k.nmi \in BOOLEAN /\ k.stopped \in SUBSET {"stop", "halt"} /\ k.run \in {"normal", "berr", "wsf"}
        /\ k.instr \in {InstructionYes, InstructionNo} /\ k.fetching \in BOOLEAN /\ k.pending \in BOOLEAN
    BY <1>1, <1>7 DEF Fields
  <2> QED BY <2>1, <2>2, <2>3 DEF Fields
<1>10. Common(k)
  BY <1>7, <1>8, <1>9, FieldsMakeType DEF Common
<1>11. Nested(k, 1, 0)
  <2>1. Fits(1) /\ c.s = 1
    BY DEF Kernel, Nested
  <2>2. WordAt(mem, Top - 6) = WordAt(c.mem, Top - 6)
    <3>1. Top - 6 \in Nat /\ Top - 6 .. Top - 6 + 1 \subseteq Top - 14 .. Top - 1 /\ Top - 6 + 1 < Top - 4
          /\ Top - 4 \in Int /\ Top - 1 \in Int
      BY <1>2
    <3>2. Top - 6 .. Top - 6 + 1 \subseteq Ram
      BY <1>2, <3>1
    <3> QED BY <1>4, <3>1, <3>2, WordKept
  <2>3. FramesOf(mem, 1, 0)
    <3>1. 2 .. 1 = {}
      OBVIOUS
    <3> QED BY <2>2, <3>1 DEF Kernel, Nested, FramesOf
  <2>4. Top - 6 * 1 - 8 * 0 = Top - 6 /\ c.mask >= 1 - 1
    BY <1>1, <1>2 DEF Fields
  <2>5. k.pc \in Places(0, 1)
    BY <1>7 DEF Places, here
  <2> QED BY <1>6, <1>7, <2>1, <2>3, <2>4, <2>5 DEF Nested
<1>12. Told(mem, n, 0)
  <2>1. WordAt(mem, Top - 6) = WordAt(c.mem, Top - 6)
    <3>1. Top - 6 \in Nat /\ Top - 6 .. Top - 6 + 1 \subseteq Top - 14 .. Top - 1 /\ Top - 6 + 1 < Top - 4
          /\ Top - 4 \in Int /\ Top - 1 \in Int
      BY <1>2
    <3>2. Top - 6 .. Top - 6 + 1 \subseteq Ram
      BY <1>2, <3>1
    <3> QED BY <1>4, <3>1, <3>2, WordKept
  <2> HIDE DEF pc
  <2> QED BY <1>3, <1>4, <2>1 DEF Kernel, Resumes, Told, UserPc
<1>13. Sees(k, n)
  <2>1. \A a \in Ram \ KernelStack : k.mem[a] = c.mem[a]
    <3>1. Top - 4 .. Top - 1 \subseteq Top - 14 .. Top - 1
      BY <1>2
    <3>2. Top - 4 .. Top - 1 \subseteq KernelStack
      BY <1>2, <3>1
    <3> QED BY <1>4, <1>7, <3>2 DEF SameOutside
  <2>2. Sees(c, n)
    BY DEF Kernel, Resumes
  <2> QED BY <2>1, <2>2, SeesStill
<1>14. OutOK(k, n)
  <2>1. Holding(bad) \subseteq Segments
    BY DEF Holding
  <2> HIDE DEF bad
  <2> QED BY <1>7, <2>1, WholeLess DEF out, Kernel, Resumes
<1>15. UserSp(k, 0) = Ideal[n].da[SP]
  BY <1>3, <1>6, <1>7 DEF UserSp
<1>16. Resumes(k, n, 0)
  <2>1. \A a \in 0 .. 14 : k.da[a] = Ideal[n].da[a]
    BY <1>6, <1>7 DEF Kernel, Resumes
  <2> QED BY <1>7, <1>12, <1>13, <1>14, <1>15, <2>1 DEF Resumes
<1> QED
  BY <1>10, <1>11, <1>16 DEF Kernel, k

(***************************************************************************)
(* Two runs of the program: b with everything in memory, and c on the       *)
(* machine o was.  They agree on the bytes A of memory; c has changed none  *)
(* but the bytes D.                                                        *)
(***************************************************************************)
Good(c) == Shape(c) /\ c.flt = NoFault /\ c.pending = FALSE

Rest(c, o) ==
  /\ c.save = o.save /\ c.base = o.base /\ c.ppc = o.ppc /\ c.prev = o.prev /\ c.ir = o.ir /\ c.mask = o.mask
  /\ c.level = o.level /\ c.nmi = o.nmi /\ c.stopped = o.stopped /\ c.run = o.run /\ c.instr = o.instr
  /\ c.fetching = o.fetching /\ c.t = o.t /\ c.out = o.out /\ c.s = o.s

SameFlags(b, c) == c.x = b.x /\ c.n = b.n /\ c.z = b.z /\ c.v = b.v /\ c.c = b.c
SameBytes(A, D, f, g, h) ==
  A \subseteq Ram /\ (\A a \in A : g[a] = f[a]) /\ (\A a \in Ram \ D : g[a] = h[a])

Follows(A, D, b, c, o) ==
  /\ Good(b) /\ Good(c) /\ b.out = {}
  /\ c.da = b.da /\ c.pc = b.pc /\ SameFlags(b, c) /\ Rest(c, o) /\ SameBytes(A, D, b.mem, c.mem, o.mem)

\* Two runs that agree still do when both set the PC
LEMMA FollowsPc ==
  ASSUME NEW A, NEW D, NEW b, NEW c, NEW o, Follows(A, D, b, c, o), NEW p,
         NEW x, x = [b EXCEPT !.pc = p], NEW y, y = [c EXCEPT !.pc = p]
  PROVE  Follows(A, D, x, y, o)
<1>1. Good(x) /\ Good(y) /\ x.out = {} /\ y.da = x.da /\ y.pc = x.pc
  BY DEF Follows, Good, Shape
<1>2. SameFlags(x, y)
  BY DEF Follows, Good, SameFlags, Shape
<1>3. Rest(y, o)
  BY DEF Follows, Good, Rest, Shape
<1>4. x.mem = b.mem /\ y.mem = c.mem
  BY DEF Follows, Good, Shape
<1> QED
  BY <1>1, <1>2, <1>3, <1>4, Zenon DEF Follows

\* A machine with other registers is a machine
LEMMA ShapeWithDa ==
  ASSUME NEW c, Shape(c), NEW D, D = [i \in 0 .. 15 |-> D[i]]
  PROVE  Shape([c EXCEPT !.da = D])
<1> DEFINE k == [c EXCEPT !.da = D]
<1>1. k.da = D /\ k.base = c.base /\ k.mem = c.mem
  BY DEF Shape
<1>2. k \in [da : {k.da}, save : {k.save}, base : {k.base}, pc : {k.pc}, ppc : {k.ppc}, prev : {k.prev},
              x : {k.x}, n : {k.n}, z : {k.z}, v : {k.v}, c : {k.c}, s : {k.s}, t : {k.t},
              mask : {k.mask}, level : {k.level}, nmi : {k.nmi}, stopped : {k.stopped}, run : {k.run},
              instr : {k.instr}, fetching : {k.fetching}, pending : {k.pending},
              ir : {k.ir}, flt : {k.flt}, out : {k.out}, mem : {k.mem}]
  BY DEF Shape
<1>3. k.base = [s \in {0, 1} |-> k.base[s]] /\ k.mem = [a \in Ram |-> k.mem[a]]
  BY <1>1 DEF Shape
<1> HIDE DEF k
<1> QED
  BY <1>1, <1>2, <1>3 DEF Shape, k

\* a register
LEMMA FollowsDa ==
  ASSUME NEW A, NEW D, NEW b, NEW c, NEW o, Follows(A, D, b, c, o), NEW r, NEW v,
         NEW x, x = [b EXCEPT !.da[r] = v], NEW y, y = [c EXCEPT !.da[r] = v]
  PROVE  Follows(A, D, x, y, o)
<1> DEFINE da == [b.da EXCEPT ![r] = v]
<1>1. c.da = b.da
  BY DEF Follows
<1>2. x = [b EXCEPT !.da = da] /\ y = [c EXCEPT !.da = da]
  BY <1>1
<1>3. da = [i \in 0 .. 15 |-> da[i]]
  BY DEF Follows, Good, Shape
<1> HIDE DEF da
<1>4. Good(x) /\ x.out = {} /\ x.pc = b.pc /\ x.mem = b.mem /\ x.da = da
  <2>1. /\ x.flt = NoFault /\ x.pending = FALSE /\ x.out = {} /\ x.pc = b.pc /\ x.mem = b.mem /\ x.da = da
        /\ x.base = b.base
    BY <1>2 DEF Follows, Good, Shape
  <2>2. Shape(x)
    BY <1>2, <1>3, ShapeWithDa DEF Follows, Good
  <2> QED BY <2>1, <2>2 DEF Good
<1>5. Good(y) /\ y.pc = c.pc /\ y.mem = c.mem /\ y.da = da
  <2>1. /\ y.flt = NoFault /\ y.pending = FALSE /\ y.pc = c.pc /\ y.mem = c.mem /\ y.da = da /\ y.base = c.base
    BY <1>2 DEF Follows, Good, Shape
  <2>2. Shape(y)
    BY <1>2, <1>3, ShapeWithDa DEF Follows, Good
  <2> QED BY <2>1, <2>2 DEF Good
<1>6. SameFlags(x, y)
  BY <1>2 DEF Follows, Good, SameFlags, Shape
<1>7. Rest(y, o)
  BY <1>2 DEF Follows, Good, Rest, Shape
<1>8. c.pc = b.pc
  BY DEF Follows
<1> QED
  BY <1>4, <1>5, <1>6, <1>7, <1>8, Zenon DEF Follows

\* memory
LEMMA FollowsMem ==
  ASSUME NEW A, NEW D, NEW b, NEW c, NEW o, Follows(A, D, b, c, o), NEW f, NEW g, NEW A2, NEW D2,
         f = [a \in Ram |-> f[a]], g = [a \in Ram |-> g[a]], SameBytes(A2, D2, f, g, o.mem),
         NEW x, x = [b EXCEPT !.mem = f], NEW y, y = [c EXCEPT !.mem = g]
  PROVE  Follows(A2, D2, x, y, o)
<1>4. Good(x) /\ x.out = {} /\ x.pc = b.pc /\ x.mem = f /\ x.da = b.da
  BY DEF Follows, Good, Shape
<1>5. Good(y) /\ y.pc = c.pc /\ y.mem = g /\ y.da = c.da
  BY DEF Follows, Good, Shape
<1>6. SameFlags(x, y)
  BY DEF Follows, Good, SameFlags, Shape
<1>7. Rest(y, o)
  BY DEF Follows, Good, Rest, Shape
<1>8. c.pc = b.pc /\ c.da = b.da
  BY DEF Follows
<1> QED
  BY <1>4, <1>5, <1>6, <1>7, <1>8, Zenon DEF Follows

\* the condition codes of a logical instruction
LEMMA FollowsFlags ==
  ASSUME NEW A, NEW D, NEW b, NEW c, NEW o, Follows(A, D, b, c, o), NEW nf, NEW zf, NEW vf, NEW cf,
         NEW x, x = [b EXCEPT !.n = nf, !.z = zf, !.v = vf, !.c = cf],
         NEW y, y = [c EXCEPT !.n = nf, !.z = zf, !.v = vf, !.c = cf]
  PROVE  Follows(A, D, x, y, o)
<1>4. Good(x) /\ x.out = {} /\ x.pc = b.pc /\ x.mem = b.mem /\ x.da = b.da
  BY DEF Follows, Good, Shape
<1>5. Good(y) /\ y.pc = c.pc /\ y.mem = c.mem /\ y.da = c.da
  BY DEF Follows, Good, Shape
<1>6. SameFlags(x, y)
  BY DEF Follows, Good, SameFlags, Shape
<1>7. Rest(y, o)
  BY DEF Follows, Good, Rest, Shape
<1>8. c.pc = b.pc /\ c.da = b.da
  BY DEF Follows
<1> QED
  BY <1>4, <1>5, <1>6, <1>7, <1>8, Zenon DEF Follows

\* or those of an addition
LEMMA FollowsAllFlags ==
  ASSUME NEW A, NEW D, NEW b, NEW c, NEW o, Follows(A, D, b, c, o), NEW nf, NEW zf, NEW vf, NEW cf,
         NEW x, x = [b EXCEPT !.n = nf, !.z = zf, !.c = cf, !.v = vf, !.x = cf],
         NEW y, y = [c EXCEPT !.n = nf, !.z = zf, !.c = cf, !.v = vf, !.x = cf]
  PROVE  Follows(A, D, x, y, o)
<1>4. Good(x) /\ x.out = {} /\ x.pc = b.pc /\ x.mem = b.mem /\ x.da = b.da
  BY DEF Follows, Good, Shape
<1>5. Good(y) /\ y.pc = c.pc /\ y.mem = c.mem /\ y.da = c.da
  BY DEF Follows, Good, Shape
<1>6. SameFlags(x, y)
  BY DEF Follows, Good, SameFlags, Shape
<1>7. Rest(y, o)
  BY DEF Follows, Good, Rest, Shape
<1>8. c.pc = b.pc /\ c.da = b.da
  BY DEF Follows
<1> QED
  BY <1>4, <1>5, <1>6, <1>7, <1>8, Zenon DEF Follows

(***************************************************************************)
(* The primitives on registers and flags.                                  *)
(***************************************************************************)
\* Jumps agree
LEMMA FollowsJump ==
  ASSUME NEW A, NEW D, NEW b, NEW c, NEW o, Follows(A, D, b, c, o), NEW a
  PROVE  Follows(A, D, Jump(b, a), Jump(c, a), o) /\ Jump(c, a) = [c EXCEPT !.pc = a]
<1>1. b.flt = NoFault /\ c.flt = NoFault
  BY DEF Follows, Good
<1>2. Jump(b, a) = [b EXCEPT !.pc = a] /\ Jump(c, a) = [c EXCEPT !.pc = a]
  BY <1>1 DEF Jump, Go
<1> QED
  BY <1>2, FollowsPc

\* writes of a register
LEMMA FollowsSetReg ==
  ASSUME NEW A, NEW D, NEW b, NEW c, NEW o, Follows(A, D, b, c, o), NEW r, NEW v
  PROVE  Follows(A, D, SetReg(b, r, v), SetReg(c, r, v), o)
<1>1. b.flt = NoFault /\ c.flt = NoFault
  BY DEF Follows, Good
<1> DEFINE w == Mask(L, v)
<1>2. SetReg(b, r, v) = [b EXCEPT !.da[r] = w] /\ SetReg(c, r, v) = [c EXCEPT !.da[r] = w]
  BY <1>1 DEF SetReg, Go
<1> HIDE DEF w
<1> QED
  BY <1>2, FollowsDa

\* of a part of it
LEMMA FollowsSetD ==
  ASSUME NEW A, NEW D, NEW b, NEW c, NEW o, Follows(A, D, b, c, o), NEW size, NEW r, NEW v
  PROVE  Follows(A, D, SetD(b, size, r, v), SetD(c, size, r, v), o)
<1>1. b.flt = NoFault /\ c.flt = NoFault /\ c.da = b.da
  BY DEF Follows, Good
<1> DEFINE w == Low(size, b.da[r], v)
<1>2. SetD(b, size, r, v) = [b EXCEPT !.da[r] = w]
  BY <1>1 DEF SetD, Go
<1>3. SetD(c, size, r, v) = [c EXCEPT !.da[r] = w]
  BY <1>1 DEF SetD, Go
<1> DEFINE x == SetD(b, size, r, v)
           y == SetD(c, size, r, v)
<1>4. x = [b EXCEPT !.da[r] = w] /\ y = [c EXCEPT !.da[r] = w]
  BY <1>2, <1>3
<1> HIDE DEF w, x, y
<1>5. Follows(A, D, x, y, o)
  BY <1>4, FollowsDa
<1> QED
  BY <1>5 DEF x, y

\* of the condition codes
LEMMA FollowsLogic ==
  ASSUME NEW A, NEW D, NEW b, NEW c, NEW o, Follows(A, D, b, c, o), NEW size, NEW v
  PROVE  Follows(A, D, Logic(b, size, v), Logic(c, size, v), o)
<1> DEFINE n == NFlag(size, v)
           z == ZFlag(size, v)
<1>1. b.flt = NoFault /\ c.flt = NoFault
  BY DEF Follows, Good
<1>2. Logic(b, size, v) = [b EXCEPT !.n = n, !.z = z, !.v = 0, !.c = 0] /\ Logic(c, size, v) = [c EXCEPT !.n = n, !.z = z, !.v = 0, !.c = 0]
  BY <1>1 DEF Logic, Go
<1> DEFINE x == Logic(b, size, v)
           y == Logic(c, size, v)
<1>4. x = [b EXCEPT !.n = n, !.z = z, !.v = 0, !.c = 0] /\ y = [c EXCEPT !.n = n, !.z = z, !.v = 0, !.c = 0]
  BY <1>2, SMTT(30)
<1> HIDE DEF n, z, x, y
<1>5. Follows(A, D, x, y, o)
  BY <1>4, FollowsFlags
<1> QED
  BY <1>5 DEF x, y

\* and additions
LEMMA FollowsAdding ==
  ASSUME NEW A, NEW D, NEW b, NEW c, NEW o, Follows(A, D, b, c, o), NEW size, NEW src, NEW dst
  PROVE  Follows(A, D, Adding(b, size, src, dst).m, Adding(c, size, src, dst).m, o)
         /\ Adding(b, size, src, dst).v = Adding(c, size, src, dst).v
<1> DEFINE res == dst + src
           carry == CarryAdd(size, src, dst, res)
           n == NFlag(size, res)
           z == ZFlag(size, res)
           v == OverflowAdd(size, src, dst, res)
<1>1. b.flt = NoFault /\ c.flt = NoFault
  BY DEF Follows, Good
<1>2. Adding(b, size, src, dst).m = [b EXCEPT !.n = n, !.z = z, !.c = carry, !.v = v, !.x = carry]
  BY <1>1 DEF Adding, Go
<1>3. Adding(c, size, src, dst).m = [c EXCEPT !.n = n, !.z = z, !.c = carry, !.v = v, !.x = carry]
  BY <1>1 DEF Adding, Go
<1>4. Adding(b, size, src, dst).v = Adding(c, size, src, dst).v
  BY DEF Adding
<1> DEFINE x == Adding(b, size, src, dst).m
           y == Adding(c, size, src, dst).m
<1>5. x = [b EXCEPT !.n = n, !.z = z, !.c = carry, !.v = v, !.x = carry]
      /\ y = [c EXCEPT !.n = n, !.z = z, !.c = carry, !.v = v, !.x = carry]
  BY <1>2, <1>3, SMTT(30)
<1> HIDE DEF n, z, v, carry, x, y
<1>6. Follows(A, D, x, y, o)
  BY <1>5, FollowsAllFlags
<1> QED
  BY <1>4, <1>6 DEF x, y

(***************************************************************************)
(* The primitives on memory, where nothing is missing.                     *)
(***************************************************************************)
\* With no fault pending there is none to forget
LEMMA NotPending == ASSUME NEW c, Good(c) PROVE [c EXCEPT !.pending = FALSE] = c
  BY DEF Good, Shape

\* A part of a value is read, and nothing changes
LEMMA PartRead ==
  ASSUME NEW c, Good(c), NEW a, Translates(c, a), NEW n \in {1, 2}, NEW x
  PROVE  ReadPart([m |-> c, v |-> x], a, n) = [m |-> c, v |-> x * 2^(B * n) + ValueAt(c, BusAddress(a), n)]
<1>1. c.flt = NoFault /\ n # 0
  BY DEF Good
<1>2. ReadPart([m |-> c, v |-> x], a, n)
        = [m |-> [c EXCEPT !.pending = FALSE], v |-> x * 2^(B * n) + ValueAt(c, BusAddress(a), n)]
  BY <1>1 DEF ReadPart
<1> QED
  BY <1>2, NotPending

\* or written
LEMMA PartWrite ==
  ASSUME NEW c, Good(c), NEW a, BusAddress(a) \in Ram \ c.out, NEW n \in {1, 2}, NEW v
  PROVE  WritePart(c, a, n, v) = [c EXCEPT !.mem = Stored(c.mem, BusAddress(a), n, v)]
<1>1. c.flt = NoFault /\ n # 0 /\ Translates(c, a)
  BY DEF Good, Translates, Mapped
<1>2. WritePart(c, a, n, v) = [c EXCEPT !.pending = FALSE, !.mem = Stored(c.mem, BusAddress(a), n, v)]
  BY <1>1 DEF WritePart
<1> QED
  BY <1>2, ZenonT(40) DEF Good, Shape

\* A read leaves the machine
LEMMA PartReadKeeps ==
  ASSUME NEW c, Good(c), NEW a, Translates(c, a), NEW r, r = [m |-> c, v |-> r.v]
  PROVE  ReadPart(r, a, 2) = [m |-> c, v |-> ReadPart(r, a, 2).v]
<1>1. ReadPart([m |-> c, v |-> r.v], a, 2) = [m |-> c, v |-> r.v * 2^(B * 2) + ValueAt(c, BusAddress(a), 2)]
  BY PartRead
<1> QED
  BY <1>1

\* The bytes of one access
PartBytes(a, n) == IF n = 0 THEN {} ELSE IF n = 1 THEN {BusAddress(a)} ELSE WordBytes(a)

\* The same value read in the two runs, which changed nothing
BothRead(b, c, q, r) == \E y : q = [m |-> b, v |-> y] /\ r = [m |-> c, v |-> y]

\* Both runs read the same of what they agree on
LEMMA FollowsPartRead ==
  ASSUME NEW A, NEW D, NEW b, NEW c, NEW o, Follows(A, D, b, c, o), NEW a, NEW n \in {0, 1, 2},
         PartBytes(a, n) \subseteq A \ o.out, NEW q, NEW r, BothRead(b, c, q, r)
  PROVE  BothRead(b, c, ReadPart(q, a, n), ReadPart(r, a, n))
<1>0. PICK x : q = [m |-> b, v |-> x] /\ r = [m |-> c, v |-> x]
  BY DEF BothRead
<1>1. CASE n = 0
  BY <1>1, NothingRead
<1>2. CASE n # 0
  <2>1. BusAddress(a) \in A \ o.out /\ (n = 2 => BusAddress(a) + 1 \in A)
    BY <1>2 DEF PartBytes, WordBytes
  <2>2. Good(b) /\ Good(c) /\ b.out = {} /\ c.out = o.out /\ A \subseteq Ram
    BY DEF Follows, Rest, SameBytes
  <2>3. Translates(b, a) /\ Translates(c, a)
    BY <2>1, <2>2 DEF Translates, Mapped
  <2>4. ByteAt(b, BusAddress(a)) = ByteAt(c, BusAddress(a)) /\ (n = 2 => ByteAt(b, BusAddress(a) + 1) = ByteAt(c, BusAddress(a) + 1))
    BY <2>1, <2>2 DEF ByteAt, Follows, SameBytes
  <2>5. ValueAt(b, BusAddress(a), n) = ValueAt(c, BusAddress(a), n)
    BY <1>2, <2>4 DEF ValueAt
  <2> DEFINE y == x * 2^(B * n) + ValueAt(b, BusAddress(a), n)
  <2>6. ReadPart([m |-> b, v |-> x], a, n) = [m |-> b, v |-> y]
    BY <1>2, <2>2, <2>3, PartRead
  <2>7. ReadPart([m |-> c, v |-> x], a, n) = [m |-> c, v |-> y]
    BY <1>2, <2>2, <2>3, <2>5, PartRead
  <2> HIDE DEF y
  <2> QED BY <1>0, <2>6, <2>7 DEF BothRead
<1> QED
  BY <1>1, <1>2

\* What both store, they agree on
LEMMA StoredAgree ==
  ASSUME NEW A, NEW D, NEW f, NEW g, NEW h, SameBytes(A, D, f, g, h), NEW a, NEW n \in {1, 2},
         f = [x \in Ram |-> f[x]], g = [x \in Ram |-> g[x]],
         NEW S, S = PartBytes(a, n), S \subseteq Ram, NEW v,
         NEW p, p = Stored(f, BusAddress(a), n, v), NEW q, q = Stored(g, BusAddress(a), n, v)
  PROVE  SameBytes(A \cup S, D \cup S, p, q, h) /\ p = [x \in Ram |-> p[x]] /\ q = [x \in Ram |-> q[x]]
<1> DEFINE w == BusAddress(a)
<1>1. CASE n = 1
  <2>1. p = [f EXCEPT ![w] = v % 2^B] /\ q = [g EXCEPT ![w] = v % 2^B] /\ S = {w}
    BY <1>1 DEF Stored, PartBytes
  <2> HIDE DEF w
  <2>2. p = [x \in Ram |-> p[x]] /\ q = [x \in Ram |-> q[x]] /\ w \in Ram
    BY <2>1
  <2>3. p[w] = q[w] /\ \A x \in Ram : x # w => p[x] = f[x] /\ q[x] = g[x]
    BY <2>1, <2>2
  <2>4. SameBytes(A \cup S, D \cup S, p, q, h)
    BY <2>1, <2>2, <2>3 DEF SameBytes
  <2> QED BY <2>2, <2>4
<1>2. CASE n = 2
  <2>1. S = {w, w + 1} /\ w \in Ram /\ w + 1 \in Ram
    BY <1>2 DEF PartBytes, WordBytes
  <2>2. /\ p = [x \in Ram |-> p[x]] /\ p[w] = (v \div 2^B) % 2^B /\ p[w + 1] = v % 2^B
        /\ \A x \in Ram : x # w /\ x # w + 1 => p[x] = f[x]
    BY <1>2, <2>1, StoredWord
  <2>3. /\ q = [x \in Ram |-> q[x]] /\ q[w] = (v \div 2^B) % 2^B /\ q[w + 1] = v % 2^B
        /\ \A x \in Ram : x # w /\ x # w + 1 => q[x] = g[x]
    BY <1>2, <2>1, StoredWord
  <2> HIDE DEF w
  <2>4. SameBytes(A \cup S, D \cup S, p, q, h)
    BY <2>1, <2>2, <2>3 DEF SameBytes
  <2> QED BY <2>2, <2>3, <2>4
<1> QED
  BY <1>1, <1>2

\* Both runs write the same
LEMMA FollowsPartWrite ==
  ASSUME NEW A, NEW D, NEW b, NEW c, NEW o, Follows(A, D, b, c, o), NEW a, NEW n \in {0, 1, 2},
         NEW S, S = PartBytes(a, n), S \subseteq Ram \ o.out, NEW v
  PROVE  Follows(A \cup S, D \cup S, WritePart(b, a, n, v), WritePart(c, a, n, v), o)
<1>1. CASE n = 0
  <2>1. A \cup S = A /\ D \cup S = D
    BY <1>1 DEF PartBytes
  <2> QED BY <1>1, <2>1, NothingWritten
<1>2. CASE n # 0
  <2> DEFINE f == Stored(b.mem, BusAddress(a), n, v)
             g == Stored(c.mem, BusAddress(a), n, v)
             x == WritePart(b, a, n, v)
             y == WritePart(c, a, n, v)
  <2>1. BusAddress(a) \in Ram \ o.out
    BY <1>2 DEF PartBytes, WordBytes
  <2>2. Good(b) /\ Good(c) /\ b.out = {} /\ c.out = o.out /\ SameBytes(A, D, b.mem, c.mem, o.mem)
    BY DEF Follows, Rest
  <2>3. x = [b EXCEPT !.mem = f] /\ y = [c EXCEPT !.mem = g]
    BY <1>2, <2>1, <2>2, PartWrite
  <2>4. SameBytes(A \cup S, D \cup S, f, g, o.mem) /\ f = [z \in Ram |-> f[z]] /\ g = [z \in Ram |-> g[z]]
    <3>1. b.mem = [z \in Ram |-> b.mem[z]] /\ c.mem = [z \in Ram |-> c.mem[z]] /\ S \subseteq Ram /\ n \in {1, 2}
      BY <1>2, <2>2 DEF Good, Shape
    <3>2. f = Stored(b.mem, BusAddress(a), n, v) /\ g = Stored(c.mem, BusAddress(a), n, v)
      OBVIOUS
    <3> HIDE DEF f, g
    <3> QED BY <2>2, <3>1, <3>2, StoredAgree, SMTT(30)
  <2> HIDE DEF f, g, x, y
  <2>5. Follows(A \cup S, D \cup S, x, y, o)
    BY <2>3, <2>4, FollowsMem
  <2> QED BY <2>5 DEF x, y
<1> QED
  BY <1>1, <1>2

(***************************************************************************)
(* Reads and writes of a size.                                             *)
(***************************************************************************)
\* The bytes of an access are those of its parts
LEMMA BytesAre ==
  ASSUME NEW a, NEW size \in Sizes, NEW r, r = [a |-> a, size |-> size]
  PROVE  /\ FirstPart(size) \in {1, 2} /\ SecondPart(size) \in {0, 2}
         /\ BytesOf(r) = PartBytes(a, FirstPart(size)) \cup PartBytes(a + 2, SecondPart(size))
  BY SizesOfParts DEF BytesOf, PartBytes, Sizes

\* Both runs read the same value of a size
LEMMA FollowsRead ==
  ASSUME NEW A, NEW D, NEW b, NEW c, NEW o, Follows(A, D, b, c, o), NEW a \in Int, NEW size \in Sizes,
         size # B => a % 2 = 0, NEW r, r = [a |-> a, size |-> size], BytesOf(r) \subseteq A \ o.out, NEW s, NEW t
  PROVE  BothRead(b, c, ReadIn(b, size, a, s), ReadIn(c, size, a, t))
<1> DEFINE n == FirstPart(size)
           k == SecondPart(size)
<1>1. n \in {0, 1, 2} /\ k \in {0, 1, 2} /\ PartBytes(a, n) \subseteq A \ o.out /\ PartBytes(a + 2, k) \subseteq A \ o.out
  BY BytesAre
<1>2. b.flt = NoFault /\ c.flt = NoFault /\ ~(size # B /\ a % 2 = 1)
  BY DEF Follows, Good
<1>3. ReadIn(b, size, a, s) = ReadPart(ReadPart([m |-> b, v |-> 0], a, n), a + 2, k)
  BY <1>2 DEF ReadIn
<1>4. ReadIn(c, size, a, t) = ReadPart(ReadPart([m |-> c, v |-> 0], a, n), a + 2, k)
  BY <1>2 DEF ReadIn
<1> HIDE DEF n, k
<1> DEFINE q == [m |-> b, v |-> 0]
           z == [m |-> c, v |-> 0]
<1>5. BothRead(b, c, q, z)
  BY DEF BothRead
<1>6. BothRead(b, c, ReadPart(q, a, n), ReadPart(z, a, n))
  <2> HIDE DEF q, z
  <2> QED BY <1>1, <1>5, FollowsPartRead
<1>7. BothRead(b, c, ReadPart(ReadPart(q, a, n), a + 2, k), ReadPart(ReadPart(z, a, n), a + 2, k))
  <2> HIDE DEF q, z
  <2> QED BY <1>1, <1>6, FollowsPartRead
<1> QED
  BY <1>3, <1>4, <1>7

\* and write it
LEMMA FollowsWrite ==
  ASSUME NEW A, NEW D, NEW b, NEW c, NEW o, Follows(A, D, b, c, o), NEW a \in Int, NEW size \in Sizes,
         size # B => a % 2 = 0, NEW r, r = [a |-> a, size |-> size], NEW S, S = BytesOf(r), S \subseteq Ram \ o.out, NEW v
  PROVE  Follows(A \cup S, D \cup S, Write(b, size, a, v), Write(c, size, a, v), o)
<1> DEFINE n == FirstPart(size)
           k == SecondPart(size)
           P == PartBytes(a, n)
           Q == PartBytes(a + 2, k)
           high == v \div 2^(B * k)
           x == WritePart(b, a, n, high)
           y == WritePart(c, a, n, high)
<1>1. n \in {0, 1, 2} /\ k \in {0, 1, 2} /\ S = P \cup Q /\ P \subseteq Ram \ o.out /\ Q \subseteq Ram \ o.out
  BY BytesAre
<1>2. b.flt = NoFault /\ c.flt = NoFault /\ ~(size # B /\ a % 2 = 1)
  BY DEF Follows, Good
<1>3. Write(b, size, a, v) = WritePart(x, a + 2, k, v) /\ Write(c, size, a, v) = WritePart(y, a + 2, k, v)
  BY <1>2 DEF Write
<1>4. Follows(A \cup P, D \cup P, x, y, o)
  <2> HIDE DEF n, k, high
  <2> QED BY <1>1, FollowsPartWrite
<1>5. Follows((A \cup P) \cup Q, (D \cup P) \cup Q, WritePart(x, a + 2, k, v), WritePart(y, a + 2, k, v), o)
  <2> HIDE DEF n, k, high, x, y, P
  <2> QED BY <1>1, <1>4, FollowsPartWrite
<1>6. (A \cup P) \cup Q = A \cup S /\ (D \cup P) \cup Q = D \cup S
  BY <1>1
<1> HIDE DEF x, y, P, Q, n, k
<1> QED
  BY <1>3, <1>5, <1>6

(***************************************************************************)
(* The words of the program.                                               *)
(***************************************************************************)
CodeAt(o, p, words) ==
  /\ p \in Nat /\ p % 2 = 0 /\ p + 2 * words < 2^L
  /\ \A w \in 0 .. words - 1 : Translates(o, p + 2 * w)

\* The words of an instruction are its first ones, and the others after them
LEMMA CodeSplits ==
  ASSUME NEW o, NEW p, NEW u \in Nat, NEW v \in Nat, CodeAt(o, p, u + v)
  PROVE  CodeAt(o, p, u) /\ CodeAt(o, p + 2 * u, v)
<1>1. p \in Nat /\ p % 2 = 0 /\ 2^L \in Nat /\ p + 2 * (u + v) < 2^L
  BY Widths DEF CodeAt
<1>2. p + 2 * u \in Nat /\ (p + 2 * u) % 2 = 0 /\ p + 2 * u < 2^L /\ p + 2 * u + 2 * v < 2^L
  BY <1>1
<1>3. \A w \in 0 .. u - 1 : Translates(o, p + 2 * w)
  <2>1. 0 .. u - 1 \subseteq 0 .. u + v - 1
    OBVIOUS
  <2> QED BY <2>1 DEF CodeAt
<1>4. \A w \in 0 .. v - 1 : Translates(o, p + 2 * u + 2 * w)
  <2> TAKE w \in 0 .. v - 1
  <2>1. u + w \in 0 .. u + v - 1 /\ p + 2 * (u + w) = p + 2 * u + 2 * w
    BY <1>1
  <2> QED BY <2>1 DEF CodeAt
<1> QED
  BY <1>1, <1>2, <1>3, <1>4 DEF CodeAt

\* Words that are in memory are fetched without a fault
LEMMA FetchIs ==
  ASSUME NEW c, Good(c), NEW words \in {0, 1, 2}, CodeAt(c, c.pc, words)
  PROVE  Fetch(c, words) = [c EXCEPT !.pc = c.pc + 2 * words]
<1>1. c.pc \in Nat /\ c.pc % 2 # 1 /\ c.pc + 2 * words \in Nat /\ c.flt = NoFault
  BY DEF CodeAt, Good
<1>2. CASE words = 0
  <2>1. Fetch(c, words) = c
    BY <1>2 DEF Fetch
  <2>2. c.pc + 2 * words = c.pc
    BY <1>1, <1>2
  <2>3. [c EXCEPT !.pc = c.pc] = c
    BY DEF Good, Shape
  <2> QED BY <2>1, <2>2, <2>3
<1>3. CASE words \in {1, 2}
  <2> DEFINE p == c.pc + 2 * words
             k == [c EXCEPT !.pc = p]
  <2>1. p \in Values(L)
    BY <1>1, Widths DEF CodeAt, Values
  <2>2. Mask(L, c.pc + 2 * words) = p
    BY <2>1, MaskIs
  <2> DEFINE z == [m |-> k, v |-> 0]
             q == ReadPart(z, c.pc, 2)
  <2>3. Fetch(c, words) = ReadPart(q, c.pc + 2, 2 * (words - 1)).m
    BY <1>1, <1>3, <2>2 DEF Fetch
  <2>4. Good(k) /\ k.out = c.out
    BY DEF Good, Shape
  <2>5. Translates(k, c.pc)
    <3>1. 0 \in 0 .. words - 1 /\ c.pc + 2 * 0 = c.pc
      BY <1>1, <1>3
    <3>2. Translates(c, c.pc)
      BY <3>1 DEF CodeAt
    <3> HIDE DEF k
    <3> QED BY <2>4, <3>2 DEF Translates
  <2> HIDE DEF k
  <2>6. q = [m |-> k, v |-> q.v]
    <3>1. z = [m |-> k, v |-> z.v]
      OBVIOUS
    <3> HIDE DEF z
    <3> QED BY <2>4, <2>5, <3>1, PartReadKeeps
  <2> HIDE DEF q
  <2>7. CASE words = 1
    <3>1. 2 * (words - 1) = 0
      BY <2>7
    <3>2. Fetch(c, words) = k
      BY <2>3, <2>6, <3>1, NothingRead
    <3> QED BY <3>2 DEF k
  <2>8. CASE words = 2
    <3>1. 2 * (words - 1) = 2 /\ 1 \in 0 .. words - 1 /\ c.pc + 2 * 1 = c.pc + 2
      BY <1>1, <2>8
    <3>2. Translates(k, c.pc + 2)
      <4>1. Translates(c, c.pc + 2)
        BY <3>1 DEF CodeAt
      <4> QED BY <2>4, <4>1 DEF Translates
    <3>3. ReadPart(q, c.pc + 2, 2) = [m |-> k, v |-> ReadPart(q, c.pc + 2, 2).v]
      BY <2>4, <2>6, <3>2, PartReadKeeps
    <3>4. Fetch(c, words) = k
      BY <2>3, <2>6, <3>1, <3>3
    <3> QED BY <3>4 DEF k
  <2> QED BY <1>3, <2>7, <2>8
<1> QED
  BY <1>2, <1>3

\* A step that moves the PC only
OnlyPc(c, k) == \E p : k = [c EXCEPT !.pc = p]

\* by both runs
LEMMA FollowsFetch ==
  ASSUME NEW A, NEW D, NEW b, NEW c, NEW o, Follows(A, D, b, c, o), NEW words \in {0, 1, 2}, CodeAt(o, c.pc, words)
  PROVE  /\ Follows(A, D, Fetch(b, words), Fetch(c, words), o)
         /\ OnlyPc(c, Fetch(c, words)) /\ OnlyPc(b, Fetch(b, words))
         /\ Fetch(c, words).pc = c.pc + 2 * words
<1> DEFINE p == c.pc + 2 * words
<1>1. Good(b) /\ Good(c) /\ b.out = {} /\ c.out = o.out /\ b.pc = c.pc
  BY DEF Follows, Rest
<1>2. CodeAt(c, c.pc, words) /\ CodeAt(b, b.pc, words)
  BY <1>1 DEF CodeAt, Translates
<1>3. Fetch(c, words) = [c EXCEPT !.pc = p]
  BY <1>1, <1>2, FetchIs
<1>4. Fetch(b, words) = [b EXCEPT !.pc = p]
  BY <1>1, <1>2, FetchIs
<1>5. [c EXCEPT !.pc = p].pc = p
  BY <1>1 DEF Good, Shape
<1> HIDE DEF p
<1>6. Follows(A, D, Fetch(b, words), Fetch(c, words), o)
  BY <1>3, <1>4, FollowsPc
<1>7. OnlyPc(c, Fetch(c, words)) /\ OnlyPc(b, Fetch(b, words))
  BY <1>3, <1>4 DEF OnlyPc
<1> QED
  BY <1>3, <1>5, <1>6, <1>7 DEF p

(***************************************************************************)
(* Operands.                                                               *)
(***************************************************************************)
\* An operand has two words at most
LEMMA ExtensionsAre == ASSUME NEW size, NEW op PROVE ExtensionWords(size, op) \in {0, 1, 2}
<1>1. CASE op.mode \in {"d", "a", "ai", "pi", "pd"}
  BY <1>1 DEF ExtensionWords
<1>2. CASE op.mode \notin {"d", "a", "ai", "pi", "pd"} /\ (op.mode = "al" \/ (op.mode = "i" /\ size = L))
  BY <1>2 DEF ExtensionWords
<1>3. CASE op.mode \notin {"d", "a", "ai", "pi", "pd"} /\ ~(op.mode = "al" \/ (op.mode = "i" /\ size = L))
  BY <1>3 DEF ExtensionWords
<1> QED
  BY <1>1, <1>2, <1>3

\* Addresses are computed of what both runs have the same
LEMMA SameAddress ==
  ASSUME NEW b, NEW c, c.da = b.da, c.pc = b.pc, NEW size, NEW op
  PROVE  Base(c, op) + OffsetOf(c, size, op) = Base(b, op) + OffsetOf(b, size, op)
<1>1. Base(c, op) = Base(b, op)
  BY DEF Base
<1>2. OffsetOf(c, size, op) = OffsetOf(b, size, op)
  BY DEF OffsetOf, IndexOf
<1> QED
  BY <1>1, <1>2

\* The operand of c is that of b, and the machines it leaves still agree
SameOperand(A, D, x, y, o, p) == Follows(A, D, x.m, y.m, o) /\ x.v = y.v /\ y.m.pc = p

\* Effective addresses agree, with what their modes do to a register
LEMMA FollowsEa ==
  ASSUME NEW A, NEW D, NEW b, NEW c, NEW o, Follows(A, D, b, c, o), NEW size, NEW op,
         NEW words, words = ExtensionWords(size, op), CodeAt(o, c.pc, words)
  PROVE  SameOperand(A, D, Ea(b, size, op), Ea(c, size, op), o, c.pc + 2 * words)
<1>1. c.da = b.da /\ c.pc = b.pc /\ c.pc \in Nat /\ words \in {0, 1, 2}
  BY ExtensionsAre DEF Follows, CodeAt
<1>2. Ea(b, size, op).v = Ea(c, size, op).v
  BY <1>1, SameAddress DEF Ea
<1>3. CASE op.mode \in {"pi", "pd"}
  <2> DEFINE v == IF op.mode = "pi" THEN b.da[op.reg] + Stride(size, op.reg) ELSE b.da[op.reg] - Stride(size, op.reg)
             x == SetReg(b, op.reg, v)
             y == SetReg(c, op.reg, v)
  <2>1. Ea(b, size, op).m = x /\ Ea(c, size, op).m = y
    BY <1>1, <1>3 DEF Ea
  <2>2. words = 0
    BY <1>3 DEF ExtensionWords
  <2> HIDE DEF v
  <2>3. Follows(A, D, x, y, o)
    BY FollowsSetReg
  <2>4. y.pc = c.pc
    BY DEF SetReg, Go, Follows, Good, Shape
  <2> HIDE DEF x, y
  <2>5. c.pc + 2 * words = c.pc
    BY <1>1, <2>2
  <2> QED BY <1>2, <2>1, <2>3, <2>4, <2>5 DEF SameOperand
<1>4. CASE op.mode \notin {"pi", "pd"}
  <2>1. Ea(b, size, op).m = Fetch(b, words) /\ Ea(c, size, op).m = Fetch(c, words)
    BY <1>4 DEF Ea, Extended
  <2>2. Follows(A, D, Fetch(b, words), Fetch(c, words), o) /\ Fetch(c, words).pc = c.pc + 2 * words
    BY <1>1, FollowsFetch
  <2> QED BY <1>2, <2>1, <2>2 DEF SameOperand
<1> QED
  BY <1>3, <1>4

\* An access is of a size, and aligned
Fine(r) == r.size \in Sizes /\ r.a \in Values(L) /\ (r.size # B => r.a % 2 = 0)

\* and operands, of memory both know
LEMMA FollowsOper ==
  ASSUME NEW A, NEW D, NEW b, NEW c, NEW o, Follows(A, D, b, c, o), NEW size, NEW op,
         NEW words, words = ExtensionWords(size, op), CodeAt(o, c.pc, words),
         \A r \in Pointed(b, size, op, {"d", "a", "i"}) : Fine(r) /\ BytesOf(r) \subseteq A \ o.out
  PROVE  SameOperand(A, D, Oper(b, size, op), Oper(c, size, op), o, c.pc + 2 * words)
<1>1. c.da = b.da /\ c.pc = b.pc /\ c.pc \in Nat /\ words \in {0, 1, 2}
  BY ExtensionsAre DEF Follows, CodeAt
<1>2. CASE op.mode \in {"d", "a"}
  <2>1. words = 0
    BY <1>2 DEF ExtensionWords
  <2>2. c.pc + 2 * words = c.pc
    BY <1>1, <2>1
  <2>3. Oper(b, size, op) = [m |-> b, v |-> Mask(size, b.da[op.reg])]
    BY <1>2 DEF Oper
  <2>4. Oper(c, size, op) = [m |-> c, v |-> Mask(size, b.da[op.reg])]
    BY <1>1, <1>2 DEF Oper
  <2> QED BY <2>2, <2>3, <2>4 DEF SameOperand
<1>3. CASE op.mode = "i"
  <2>1. Oper(b, size, op) = [m |-> Fetch(b, words), v |-> Mask(size, op.ext)]
    BY <1>3 DEF Oper, Extended
  <2>2. Oper(c, size, op) = [m |-> Fetch(c, words), v |-> Mask(size, op.ext)]
    BY <1>3 DEF Oper, Extended
  <2>3. Follows(A, D, Fetch(b, words), Fetch(c, words), o) /\ Fetch(c, words).pc = c.pc + 2 * words
    BY <1>1, FollowsFetch
  <2> QED BY <2>1, <2>2, <2>3 DEF SameOperand
<1>4. CASE op.mode \notin {"d", "a", "i"}
  <2> DEFINE x == Ea(b, size, op)
             y == Ea(c, size, op)
             s == SpaceOf(b, op)
             t == SpaceOf(c, op)
             r == [a |-> x.v, size |-> size]
  <2>1. Oper(b, size, op) = ReadIn(x.m, size, x.v, s)
    BY <1>4 DEF Oper, With
  <2>2. Oper(c, size, op) = ReadIn(y.m, size, y.v, t)
    BY <1>4 DEF Oper, With
  <2>3. SameOperand(A, D, x, y, o, c.pc + 2 * words)
    BY FollowsEa
  <2>4. r \in Pointed(b, size, op, {"d", "a", "i"})
    BY <1>4 DEF Pointed
  <2>5. Fine(r) /\ BytesOf(r) \subseteq A \ o.out /\ r.a = x.v /\ r.size = size
    BY <2>4
  <2>6. size \in Sizes /\ x.v \in Int /\ (size # B => x.v % 2 = 0)
    BY <2>5, Widths DEF Fine, Values
  <2>7. r = [a |-> x.v, size |-> size]
    OBVIOUS
  <2> HIDE DEF x, y, s, t, r
  <2>8. Follows(A, D, x.m, y.m, o) /\ x.v = y.v
    BY <2>3 DEF SameOperand
  <2>9. BothRead(x.m, y.m, ReadIn(x.m, size, x.v, s), ReadIn(y.m, size, x.v, t))
    BY <2>5, <2>6, <2>7, <2>8, FollowsRead
  <2>10. PICK v : Oper(b, size, op) = [m |-> x.m, v |-> v] /\ Oper(c, size, op) = [m |-> y.m, v |-> v]
    BY <2>1, <2>2, <2>8, <2>9 DEF BothRead
  <2> QED BY <2>3, <2>8, <2>10 DEF SameOperand
<1> QED
  BY <1>2, <1>3, <1>4

(***************************************************************************)
(* A long written low word first.                                          *)
(***************************************************************************)
\* Division with remainder
LEMMA DividedIs ==
  ASSUME NEW v \in Nat, NEW p \in Nat, p >= 1
  PROVE  v \div p \in Nat /\ v % p \in Nat /\ v = p * (v \div p) + (v % p)
<1>1. v = p * (v \div p) + (v % p) /\ v % p \in Nat /\ v \div p \in Int
  OBVIOUS
<1>2. v \div p >= 0
  OBVIOUS
<1> QED
  BY <1>1, <1>2

\* Masking twice is masking once
LEMMA ModOfMod ==
  ASSUME NEW p \in Nat, p >= 1, NEW q \in Nat, q >= 1, NEW v \in Nat
  PROVE  (v % (p * q)) % p = v % p
<1> DEFINE s == v % (p * q)
           k == v \div (p * q)
           j == s \div p
           t == s % p
<1>1. p * q \in Nat /\ p * q >= 1
  BY Z3
<1>2. k \in Nat /\ s \in Nat /\ v = (p * q) * k + s
  <2> DEFINE r == p * q
  <2>1. r \in Nat /\ r >= 1
    BY <1>1
  <2> HIDE DEF r
  <2>2. v \div r \in Nat /\ v % r \in Nat /\ v = r * (v \div r) + (v % r)
    BY <2>1, DividedIs
  <2> QED BY <2>2 DEF r
<1> HIDE DEF s, k
<1>3. j \in Nat /\ t \in 0 .. p - 1 /\ s = p * j + t
  BY <1>2
<1> HIDE DEF j, t
<1>4. v = p * (q * k + j) + t /\ q * k + j \in Nat
  BY <1>2, <1>3, Z3
<1> DEFINE u == q * k + j
<1>5. u \in Nat /\ v = p * u + t
  BY <1>4
<1> HIDE DEF u
<1>6. v % p = t
  BY <1>3, <1>5, Dividend
<1> QED
  BY <1>6 DEF t, s

\* The bus has no more bits than an address
LEMMA BusOfMask ==
  ASSUME NEW v \in Nat
  PROVE  BusAddress(Mask(L, v)) = BusAddress(v) /\ Mask(L, v) % 2 = v % 2
<1>1. AddressBits \in Nat /\ L - AddressBits \in Nat /\ L \in Nat /\ AddressBits + (L - AddressBits) = L
      /\ AddressBits \in 0 .. L /\ L - AddressBits \in 0 .. L
  BY AddressBitsAssumption, ByteBitsAssumption DEF L
<1> DEFINE j == AddressBits
           k == L - AddressBits
<1>2. 2^(j + k) = 2^j * 2^k
  BY <1>1, PowerSplits
<1>3. 2^L = 2^j * 2^k /\ 2^j \in Nat \ {0} /\ 2^k \in Nat \ {0}
  BY <1>1, <1>2, PowersAssumption
<1> DEFINE p == 2^j
           q == 2^k
<1>4. p \in Nat /\ p >= 1 /\ q \in Nat /\ q >= 1 /\ 2^L = p * q
  BY <1>3
<1>5. BusAddress(Mask(L, v)) = (v % (p * q)) % p /\ BusAddress(v) = v % p
  BY <1>4 DEF BusAddress, Mask
<1>6. L - 1 \in 0 .. L /\ L = (L - 1) + 1
  BY Widths
<1>7. PICK h \in Nat : h >= 1 /\ 2^L = 2 * h
  BY <1>6, PowersAssumption
<1>8. Mask(L, v) % 2 = (v % (2 * h)) % 2
  BY <1>7 DEF Mask
<1> HIDE DEF p, q
<1>9. (v % (p * q)) % p = v % p
  BY <1>4, ModOfMod
<1>10. (v % (2 * h)) % 2 = v % 2
  <2> DEFINE two == 2
  <2>1. two \in Nat /\ two >= 1
    OBVIOUS
  <2>2. two = 2
    OBVIOUS
  <2> HIDE DEF two
  <2>3. (v % (two * h)) % two = v % two
    BY <1>7, <2>1, ModOfMod
  <2> QED BY <2>2, <2>3
<1> QED
  BY <1>5, <1>8, <1>9, <1>10

\* A long written low word first is the same long (the predecrement of MOVE)
LEMMA FollowsWriteDown ==
  ASSUME NEW A, NEW D, NEW b, NEW c, NEW o, Follows(A, D, b, c, o), NEW a, NEW size,
         NEW r, r = [a |-> a, size |-> size], Fine(r), BytesOf(r) \subseteq A \ o.out, NEW v
  PROVE  Follows(A, D \cup BytesOf(r), WriteDown(b, size, a, v), WriteDown(c, size, a, v), o)
<1>1. a \in Nat /\ size \in Sizes /\ (size # B => a % 2 = 0) /\ A \subseteq Ram
  BY Widths DEF Fine, Values, Follows, SameBytes
<1>2. CASE size # L
  <2> DEFINE S == BytesOf(r)
  <2>1. S \subseteq Ram \ o.out /\ A \cup S = A
    BY <1>1
  <2> HIDE DEF S
  <2>2. Follows(A \cup S, D \cup S, Write(b, size, a, v), Write(c, size, a, v), o)
    BY <1>1, <2>1, FollowsWrite DEF S
  <2> QED BY <1>2, <2>1, <2>2 DEF WriteDown, S
<1>3. CASE size = L
  <2> DEFINE e == Mask(L, a + 2)
             P == WordBytes(e)
             Q == WordBytes(a)
             low == v % 2^W
             high == v \div 2^W
             rp == [a |-> e, size |-> W]
             rq == [a |-> a, size |-> W]
  <2>1. a % 2 = 0 /\ a + 2 \in Nat /\ (a + 2) % 2 = 0
    BY <1>1, <1>3, SizesOfParts
  <2>2. BusAddress(e) = BusAddress(a + 2) /\ e % 2 = 0 /\ e \in Int
    BY <2>1, BusOfMask, MasksAreTyped, Widths DEF Values
  <2>3. BytesOf(rp) = P /\ BytesOf(rq) = Q /\ BytesOf(r) = Q \cup P
    BY <1>3, <2>2, SizesOfParts DEF BytesOf, WordBytes
  <2>4. P \subseteq Ram \ o.out /\ Q \subseteq Ram \ o.out /\ (A \cup P) \cup Q = A /\ (D \cup P) \cup Q = D \cup BytesOf(r)
    BY <1>1, <2>3
  <2> DEFINE x == Write(b, W, e, low)
             y == Write(c, W, e, low)
  <2>5. WriteDown(b, size, a, v) = Write(x, W, a, high) /\ WriteDown(c, size, a, v) = Write(y, W, a, high)
    BY <1>3 DEF WriteDown
  <2>6. W \in Sizes /\ rp = [a |-> e, size |-> W] /\ rq = [a |-> a, size |-> W] /\ a \in Int
    BY <1>1 DEF Sizes
  <2> HIDE DEF e, rp, rq, low, high, P, Q
  <2>7. Follows(A \cup P, D \cup P, x, y, o)
    BY <2>2, <2>3, <2>4, <2>6, FollowsWrite
  <2> HIDE DEF x, y
  <2>8. Follows((A \cup P) \cup Q, (D \cup P) \cup Q, Write(x, W, a, high), Write(y, W, a, high), o)
    BY <2>1, <2>3, <2>4, <2>6, <2>7, FollowsWrite
  <2> QED BY <2>4, <2>5, <2>8
<1> QED
  BY <1>2, <1>3

(***************************************************************************)
(* The instructions of the program, where nothing is missing.              *)
(***************************************************************************)
\* The handler of each instruction of the program
LEMMA HandlerIs ==
  ASSUME NEW c, NEW i
  PROVE  /\ i.op = "tst" => Execute(c, i) = Tst(c, i)
         /\ i.op = "addq" => Execute(c, i) = Addq(c, i)
         /\ i.op = "move" => Execute(c, i) = Move(c, i)
         /\ i.op = "bra" => Execute(c, i) = Bra(c, i)
         /\ i.op = "jmp" => Execute(c, i) = JmpTo(c, i)
         /\ i.op = "jsr" => Execute(c, i) = Jsr(c, i)
         /\ i.op = "rts" => Execute(c, i) = Rts(c, i)
<1>1. i.op = "tst" => Execute(c, i) = Tst(c, i)
  BY DEF Execute, ArithExecute
<1>2. i.op = "addq" => Execute(c, i) = Addq(c, i)
  BY DEF Execute, ArithExecute
<1>3. i.op = "move" => Execute(c, i) = Move(c, i)
  BY DEF Execute, MoveExecute
<1>4. i.op = "bra" => Execute(c, i) = Bra(c, i)
  BY DEF Execute, FlowExecute, LaterProcessors, Coprocessors
<1>5. i.op = "jmp" => Execute(c, i) = JmpTo(c, i)
  BY DEF Execute, FlowExecute, LaterProcessors, Coprocessors
<1>6. i.op = "jsr" => Execute(c, i) = Jsr(c, i)
  BY DEF Execute, FlowExecute, LaterProcessors, Coprocessors
<1>7. i.op = "rts" => Execute(c, i) = Rts(c, i)
  BY DEF Execute, FlowExecute, LaterProcessors, Coprocessors
<1> QED
  BY <1>1, <1>2, <1>3, <1>4, <1>5, <1>6, <1>7

\* Having written less, a run has not written more
LEMMA FollowsMore ==
  ASSUME NEW A, NEW D, NEW b, NEW c, NEW o, Follows(A, D, b, c, o), NEW E, D \subseteq E
  PROVE  Follows(A, E, b, c, o)
<1>1. SameBytes(A, E, b.mem, c.mem, o.mem)
  BY DEF Follows, SameBytes
<1> QED
  BY <1>1 DEF Follows

\* What an instruction needs of the bus
Footing(A, b, c, o, i) ==
  /\ Follows(A, {}, b, c, o) /\ CodeAt(o, c.pc, Words(i) - 1)
  /\ \A r \in Accesses(b, i) : Fine(r) /\ BytesOf(r) \subseteq Ram \ o.out /\ (i.op # "jsr" => BytesOf(r) \subseteq A)
Footprint(b, i) == UNION {BytesOf(r) : r \in Accesses(b, i)}

\* TST does the same in both runs
LEMMA FollowsTst ==
  ASSUME NEW A, NEW b, NEW c, NEW o, NEW i, i.op = "tst", Footing(A, b, c, o, i)
  PROVE  Follows(A, {}, Execute(b, i), Execute(c, i), o)
<1> DEFINE x == Oper(b, i.size, i.ea)
           y == Oper(c, i.size, i.ea)
           words == ExtensionWords(i.size, i.ea)
<1>1. Execute(b, i) = Logic(x.m, i.size, x.v) /\ Execute(c, i) = Logic(y.m, i.size, y.v)
  BY HandlerIs DEF Tst, With
<1>2. Words(i) - 1 = words
  BY ExtensionsAre DEF Words
<1>3. CodeAt(o, c.pc, words) /\ Follows(A, {}, b, c, o)
  BY <1>2 DEF Footing
<1>4. \A r \in Pointed(b, i.size, i.ea, {"d", "a", "i"}) : Fine(r) /\ BytesOf(r) \subseteq A \ o.out
  BY DEF Footing, Accesses
<1>5. SameOperand(A, {}, x, y, o, c.pc + 2 * words)
  BY <1>3, <1>4, FollowsOper
<1> HIDE DEF x, y
<1>6. Follows(A, {}, Logic(x.m, i.size, x.v), Logic(y.m, i.size, x.v), o) /\ y.v = x.v
  BY <1>5, FollowsLogic DEF SameOperand
<1> QED
  BY <1>1, <1>6

\* JMP
LEMMA FollowsJmp ==
  ASSUME NEW A, NEW b, NEW c, NEW o, NEW i, i.op = "jmp", Footing(A, b, c, o, i)
  PROVE  Follows(A, {}, Execute(b, i), Execute(c, i), o)
<1> DEFINE x == Ea(b, L, i.ea)
           y == Ea(c, L, i.ea)
           words == ExtensionWords(L, i.ea)
<1>1. Execute(b, i) = Jump(x.m, x.v) /\ Execute(c, i) = Jump(y.m, y.v)
  BY HandlerIs DEF JmpTo, With
<1>2. Words(i) - 1 = words
  BY ExtensionsAre DEF Words
<1>3. CodeAt(o, c.pc, words) /\ Follows(A, {}, b, c, o)
  BY <1>2 DEF Footing
<1>5. SameOperand(A, {}, x, y, o, c.pc + 2 * words)
  BY <1>3, FollowsEa
<1> HIDE DEF x, y
<1>6. Follows(A, {}, Jump(x.m, x.v), Jump(y.m, x.v), o) /\ y.v = x.v
  BY <1>5, FollowsJump DEF SameOperand
<1> QED
  BY <1>1, <1>6

\* JSR, which both then agree has pushed
LEMMA FollowsJsr ==
  ASSUME NEW A, NEW b, NEW c, NEW o, NEW i, i.op = "jsr", Footing(A, b, c, o, i)
  PROVE  Follows(A \cup Footprint(b, i), Footprint(b, i), Execute(b, i), Execute(c, i), o)
<1> DEFINE x == Ea(b, L, i.ea)
           y == Ea(c, L, i.ea)
           words == ExtensionWords(L, i.ea)
           sp == x.m.da[SP] - 4
           a == Mask(L, sp)
           r == [a |-> a, size |-> L]
           S == BytesOf(r)
           X == SetReg(x.m, SP, sp)
           Y == SetReg(y.m, SP, sp)
           pc == c.pc + 2 * words
<1>2. Words(i) - 1 = words
  BY ExtensionsAre DEF Words
<1>3. CodeAt(o, c.pc, words) /\ Follows(A, {}, b, c, o)
  BY <1>2 DEF Footing
<1>5. SameOperand(A, {}, x, y, o, pc)
  BY <1>3, FollowsEa
<1>6. Follows(A, {}, x.m, y.m, o) /\ x.v = y.v /\ x.m.pc = pc /\ y.m.pc = pc /\ y.m.da = x.m.da
  BY <1>5 DEF SameOperand, Follows
<1>7. Execute(b, i) = Jump(Write(X, L, a, pc), x.v)
  <2>1. Execute(b, i) = Jump(Push(x.m, L, x.m.pc), x.v)
    BY HandlerIs DEF Jsr, With
  <2> HIDE DEF x
  <2>2. Push(x.m, L, pc) = Write(X, L, a, pc)
    BY SizesOfParts DEF Push
  <2> QED BY <1>6, <2>1, <2>2
<1>8. Execute(c, i) = Jump(Write(Y, L, a, pc), x.v)
  <2>1. Execute(c, i) = Jump(Push(y.m, L, y.m.pc), y.v)
    BY HandlerIs DEF Jsr, With
  <2> HIDE DEF x, y
  <2>2. Push(y.m, L, pc) = Write(Y, L, a, pc)
    BY <1>6, SizesOfParts DEF Push
  <2> QED BY <1>6, <2>1, <2>2
<1>9. Accesses(b, i) = {r} /\ Footprint(b, i) = S
  <2>1. Accesses(b, i) = {r}
    BY DEF Accesses
  <2> QED BY <2>1 DEF Footprint
<1>10. Fine(r) /\ S \subseteq Ram \ o.out /\ r.a = a /\ r.size = L
  BY <1>9 DEF Footing
<1>11. a \in Int /\ L \in Sizes /\ (L # B => a % 2 = 0) /\ r = [a |-> a, size |-> L] /\ S = BytesOf(r)
  BY <1>10, Widths DEF Fine, Values, Sizes
<1> HIDE DEF x, y
<1>12. Follows(A, {}, X, Y, o)
  <2> HIDE DEF sp
  <2> QED BY <1>6, FollowsSetReg
<1> HIDE DEF X, Y, a, r, S, pc
<1>13. Follows(A \cup S, {} \cup S, Write(X, L, a, pc), Write(Y, L, a, pc), o)
  BY <1>10, <1>11, <1>12, FollowsWrite
<1> DEFINE U == Write(X, L, a, pc)
           V == Write(Y, L, a, pc)
<1>14. {} \cup S = S
  OBVIOUS
<1> HIDE DEF U, V
<1>15. Follows(A \cup S, S, U, V, o)
  BY <1>13, <1>14 DEF U, V
<1>16. Follows(A \cup S, S, Jump(U, x.v), Jump(V, x.v), o)
  BY <1>15, FollowsJump
<1> QED
  BY <1>7, <1>8, <1>9, <1>16 DEF U, V

\* A step that pops a long into the PC
Popped(c, k) == \E p : k = [[c EXCEPT !.da[SP] = Mask(L, c.da[SP] + 4)] EXCEPT !.pc = p]

\* RTS
LEMMA FollowsRts ==
  ASSUME NEW A, NEW b, NEW c, NEW o, NEW i, i.op = "rts", Footing(A, b, c, o, i)
  PROVE  /\ Follows(A, {}, Execute(b, i), Execute(c, i), o)
         /\ Popped(c, Execute(c, i)) /\ Popped(b, Execute(b, i))
<1> DEFINE a == b.da[SP]
           r == [a |-> a, size |-> L]
           X == SetReg(b, SP, a + 4)
           Y == SetReg(c, SP, a + 4)
           q == ReadIn(X, L, a, DataSpace(X))
           z == ReadIn(Y, L, a, DataSpace(Y))
<1>1. Follows(A, {}, b, c, o) /\ c.da = b.da /\ b.flt = NoFault /\ c.flt = NoFault
  BY SMTT(30) DEF Footing, Follows, Good
<1>2. Execute(b, i) = Jump(q.m, q.v)
  BY HandlerIs, SizesOfParts, SMTT(30) DEF Rts, With, Pull, Read
<1>3. Execute(c, i) = Jump(z.m, z.v)
  BY <1>1, HandlerIs, SizesOfParts DEF Rts, With, Pull, Read
<1>4. Accesses(b, i) = {r}
  BY DEF Accesses
<1>5. Fine(r) /\ BytesOf(r) \subseteq A \ o.out /\ r.a = a /\ r.size = L
  BY <1>4 DEF Footing
<1>6. a \in Int /\ L \in Sizes /\ (L # B => a % 2 = 0) /\ r = [a |-> a, size |-> L]
  BY <1>5, Widths DEF Fine, Values, Sizes
<1>7. X = [b EXCEPT !.da[SP] = Mask(L, a + 4)] /\ Y = [c EXCEPT !.da[SP] = Mask(L, a + 4)]
  BY <1>1 DEF SetReg, Go
<1>8. Follows(A, {}, X, Y, o)
  <2> DEFINE v == a + 4
  <2> HIDE DEF v
  <2> QED BY <1>1, FollowsSetReg
<1> HIDE DEF X, Y, r, a
<1>9. BothRead(X, Y, q, z)
  BY <1>5, <1>6, <1>8, FollowsRead
<1>10. PICK v : q = [m |-> X, v |-> v] /\ z = [m |-> Y, v |-> v]
  BY <1>9 DEF BothRead
<1> HIDE DEF q, z
<1>11. Execute(b, i) = Jump(X, v) /\ Execute(c, i) = Jump(Y, v)
  BY <1>2, <1>3, <1>10
<1>12. Follows(A, {}, Jump(X, v), Jump(Y, v), o)
  BY <1>8, FollowsJump
<1>13. Jump(X, v) = [X EXCEPT !.pc = v] /\ Jump(Y, v) = [Y EXCEPT !.pc = v]
  BY <1>8 DEF Jump, Go, Follows, Good
<1>14. Y = [c EXCEPT !.da[SP] = Mask(L, c.da[SP] + 4)] /\ X = [b EXCEPT !.da[SP] = Mask(L, b.da[SP] + 4)]
  BY <1>1, <1>7 DEF a
<1>15. \E p : Execute(c, i) = [[c EXCEPT !.da[SP] = Mask(L, c.da[SP] + 4)] EXCEPT !.pc = p]
  BY <1>11, <1>13, <1>14
<1>16. \E p : Execute(b, i) = [[b EXCEPT !.da[SP] = Mask(L, b.da[SP] + 4)] EXCEPT !.pc = p]
  BY <1>11, <1>13, <1>14
<1> QED
  BY <1>11, <1>12, <1>15, <1>16 DEF Popped

\* Setting the PC again moves the PC only
LEMMA OnlyPcAgain ==
  ASSUME NEW c, Good(c), NEW k, OnlyPc(c, k), NEW p
  PROVE  OnlyPc(c, [k EXCEPT !.pc = p]) /\ Good(k)
<1>1. PICK q : k = [c EXCEPT !.pc = q]
  BY DEF OnlyPc
<1>2. [k EXCEPT !.pc = p] = [c EXCEPT !.pc = p]
  BY <1>1 DEF Good, Shape
<1>3. Good(k)
  BY <1>1 DEF Good, Shape
<1> QED
  BY <1>2, <1>3 DEF OnlyPc

\* BRA
LEMMA FollowsBra ==
  ASSUME NEW A, NEW b, NEW c, NEW o, NEW i, i.op = "bra", Footing(A, b, c, o, i)
  PROVE  Follows(A, {}, Execute(b, i), Execute(c, i), o) /\ OnlyPc(c, Execute(c, i))
<1>1. Follows(A, {}, b, c, o) /\ CodeAt(o, c.pc, Words(i) - 1) /\ Good(c)
  BY DEF Footing, Follows
<1>2. Execute(b, i) = Bra(b, i) /\ Execute(c, i) = Bra(c, i)
  BY HandlerIs
<1>3. CASE i.size # W
  <2> DEFINE p == Mask(L, c.pc + Extend(B, Offset(i)))
  <2>1. c.pc = b.pc
    BY <1>1 DEF Follows
  <2>2. Bra(c, i) = Jump(c, p) /\ Bra(b, i) = Jump(b, p)
    BY <1>3, <2>1 DEF Bra, Branch
  <2> HIDE DEF p
  <2>3. Follows(A, {}, Jump(b, p), Jump(c, p), o) /\ Jump(c, p) = [c EXCEPT !.pc = p]
    BY <1>1, FollowsJump
  <2> QED BY <1>2, <2>2, <2>3 DEF OnlyPc
<1>4. CASE i.size = W
  <2> DEFINE x == Fetch(b, 1)
             y == Fetch(c, 1)
             q == Mask(L, y.pc - 2)
             X == [x EXCEPT !.pc = q]
             Y == [y EXCEPT !.pc = q]
             t == Mask(L, q + Extend(W, Offset(i)))
  <2>1. Words(i) - 1 = 1
    BY <1>4 DEF Words
  <2>2. Follows(A, {}, x, y, o) /\ OnlyPc(c, y)
    <3> DEFINE one == 1
    <3>1. one \in {0, 1, 2} /\ CodeAt(o, c.pc, one) /\ one = 1
      BY <1>1, <2>1
    <3> HIDE DEF one
    <3>2. Follows(A, {}, Fetch(b, one), Fetch(c, one), o) /\ OnlyPc(c, Fetch(c, one))
      BY <1>1, <3>1, FollowsFetch
    <3> QED BY <3>1, <3>2
  <2>3. Bra(b, i) = Branch(Back(x), W, Offset(i)) /\ Bra(c, i) = Branch(Back(y), W, Offset(i))
    BY <1>4 DEF Bra, BranchWord
  <2> HIDE DEF x, y
  <2>4. Back(x) = X /\ Back(y) = Y /\ X.pc = q /\ Y.pc = q
    BY <2>2 DEF Back, Go, Follows, Good, Shape
  <2>5. Follows(A, {}, X, Y, o)
    <3> HIDE DEF q
    <3> QED BY <2>2, FollowsPc
  <2>7. OnlyPc(c, Y)
    <3> HIDE DEF q
    <3> QED BY <1>1, <2>2, OnlyPcAgain
  <2> HIDE DEF X, Y, q
  <2>8. Bra(b, i) = Jump(X, t) /\ Bra(c, i) = Jump(Y, t)
    BY <2>3, <2>4 DEF Branch
  <2> HIDE DEF t
  <2>9. Follows(A, {}, Jump(X, t), Jump(Y, t), o) /\ Jump(Y, t) = [Y EXCEPT !.pc = t]
    BY <2>5, FollowsJump
  <2>10. OnlyPc(c, [Y EXCEPT !.pc = t])
    BY <1>1, <2>7, OnlyPcAgain
  <2> QED BY <1>2, <2>8, <2>9, <2>10
<1> QED
  BY <1>3, <1>4

\* ADDQ
LEMMA FollowsAddq ==
  ASSUME NEW A, NEW b, NEW c, NEW o, NEW i, i.op = "addq", Footing(A, b, c, o, i)
  PROVE  Follows(A, Footprint(b, i), Execute(b, i), Execute(c, i), o)
<1>1. Follows(A, {}, b, c, o) /\ CodeAt(o, c.pc, Words(i) - 1) /\ c.da = b.da
  BY DEF Footing, Follows
<1>2. Execute(b, i) = Addq(b, i) /\ Execute(c, i) = Addq(c, i)
  BY HandlerIs
<1>3. CASE i.ea.mode = "a"
  <2> DEFINE v == b.da[i.ea.reg] + i.arg
  <2>1. Addq(b, i) = SetReg(b, i.ea.reg, v) /\ Addq(c, i) = SetReg(c, i.ea.reg, v)
    BY <1>1, <1>3 DEF Addq
  <2> HIDE DEF v
  <2>2. Follows(A, {}, SetReg(b, i.ea.reg, v), SetReg(c, i.ea.reg, v), o)
    BY <1>1, FollowsSetReg
  <2> QED BY <1>2, <2>1, <2>2, FollowsMore
<1>4. CASE i.ea.mode = "d"
  <2> DEFINE v == Mask(i.size, b.da[i.ea.reg])
             x == Adding(b, i.size, i.arg, v)
             y == Adding(c, i.size, i.arg, v)
  <2>1. Addq(b, i) = SetD(x.m, i.size, i.ea.reg, x.v)
    BY <1>4 DEF Addq, Quick, Update, With
  <2>2. Addq(c, i) = SetD(y.m, i.size, i.ea.reg, y.v)
    BY <1>1, <1>4 DEF Addq, Quick, Update, With
  <2>3. Follows(A, {}, x.m, y.m, o) /\ y.v = x.v
    <3> HIDE DEF v
    <3> QED BY <1>1, FollowsAdding
  <2> HIDE DEF x, y
  <2>4. Follows(A, {}, SetD(x.m, i.size, i.ea.reg, x.v), SetD(y.m, i.size, i.ea.reg, x.v), o)
    BY <2>3, FollowsSetD
  <2>5. Follows(A, {}, Addq(b, i), Addq(c, i), o)
    BY <2>1, <2>2, <2>3, <2>4
  <2> QED BY <1>2, <2>5, FollowsMore
<1>5. CASE i.ea.mode \notin {"a", "d"}
  <2> DEFINE x == Ea(b, i.size, i.ea)
             y == Ea(c, i.size, i.ea)
             q == ReadIn(x.m, i.size, x.v, DataSpace(x.m))
             z == ReadIn(y.m, i.size, y.v, DataSpace(y.m))
             X == Adding(q.m, i.size, i.arg, q.v)
             Y == Adding(z.m, i.size, i.arg, z.v)
             words == ExtensionWords(i.size, i.ea)
             r == [a |-> x.v, size |-> i.size]
             S == BytesOf(r)
  <2>1. Addq(b, i) = Write(X.m, i.size, x.v, X.v) /\ Addq(c, i) = Write(Y.m, i.size, y.v, Y.v)
    BY <1>5 DEF Addq, Quick, Update, With, Read
  <2>2. Words(i) - 1 = words
    BY ExtensionsAre DEF Words
  <2>3. SameOperand(A, {}, x, y, o, c.pc + 2 * words)
    BY <1>1, <2>2, FollowsEa
  <2>4. Accesses(b, i) = {r} /\ Footprint(b, i) = S
    <3>1. Accesses(b, i) = {r}
      BY <1>5 DEF Accesses, Pointed
    <3> QED BY <3>1 DEF Footprint
  <2>5. Fine(r) /\ S \subseteq A \ o.out /\ S \subseteq Ram \ o.out /\ r.a = x.v /\ r.size = i.size
    BY <2>4 DEF Footing
  <2>6. x.v \in Int /\ i.size \in Sizes /\ (i.size # B => x.v % 2 = 0) /\ r = [a |-> x.v, size |-> i.size] /\ S = BytesOf(r)
    BY <2>5, Widths DEF Fine, Values
  <2> HIDE DEF x, y, r, S
  <2>7. Follows(A, {}, x.m, y.m, o) /\ y.v = x.v
    BY <2>3 DEF SameOperand
  <2>8. BothRead(x.m, y.m, q, z)
    BY <2>5, <2>6, <2>7, FollowsRead DEF S
  <2>9. q.m = x.m /\ z.m = y.m /\ z.v = q.v
    <3> HIDE DEF q, z
    <3> QED BY <2>8 DEF BothRead
  <2> HIDE DEF q, z
  <2>10. Follows(A, {}, Adding(x.m, i.size, i.arg, q.v).m, Adding(y.m, i.size, i.arg, q.v).m, o)
         /\ Adding(x.m, i.size, i.arg, q.v).v = Adding(y.m, i.size, i.arg, q.v).v
    BY <2>7, FollowsAdding
  <2>11. Follows(A, {}, X.m, Y.m, o) /\ X.v = Y.v
    BY <2>9, <2>10
  <2> HIDE DEF X, Y
  <2>12. Follows(A \cup S, {} \cup S, Write(X.m, i.size, x.v, X.v), Write(Y.m, i.size, x.v, X.v), o)
    BY <2>5, <2>6, <2>11, FollowsWrite
  <2>13. A \cup S = A /\ {} \cup S = S
    BY <2>5
  <2> QED BY <1>2, <2>1, <2>4, <2>7, <2>11, <2>12, <2>13, SMTT(30)
<1> QED
  BY <1>3, <1>4, <1>5

\* and MOVE
LEMMA FollowsMove ==
  ASSUME NEW A, NEW b, NEW c, NEW o, NEW i, i.op = "move", Footing(A, b, c, o, i)
  PROVE  Follows(A, Footprint(b, i), Execute(b, i), Execute(c, i), o)
<1>1. Follows(A, {}, b, c, o) /\ CodeAt(o, c.pc, Words(i) - 1)
  BY DEF Footing
<1> DEFINE x == Oper(b, i.size, i.ea)
           y == Oper(c, i.size, i.ea)
           v == x.v
           words == ExtensionWords(i.size, i.ea)
           more == ExtensionWords(i.size, i.arg)
           pc == c.pc + 2 * words
<1>2. words \in Nat /\ more \in Nat /\ Words(i) - 1 = words + more
  <2>1. Words(i) = 1 + words + more
    BY DEF Words
  <2>2. words \in {0, 1, 2} /\ more \in {0, 1, 2}
    BY ExtensionsAre
  <2> HIDE DEF words, more
  <2> QED BY <2>1, <2>2
<1>3. CodeAt(o, c.pc, words) /\ CodeAt(o, pc, more)
  <2> HIDE DEF words, more
  <2> QED BY <1>1, <1>2, CodeSplits
<1>4. Accesses(b, i) = Pointed(b, i.size, i.ea, {"d", "a", "i"}) \cup Pointed(x.m, i.size, i.arg, {"d"})
  BY DEF Accesses
<1>5. \A r \in Pointed(b, i.size, i.ea, {"d", "a", "i"}) : Fine(r) /\ BytesOf(r) \subseteq A \ o.out
  BY <1>4 DEF Footing
<1>6. SameOperand(A, {}, x, y, o, pc)
  BY <1>1, <1>3, <1>5, FollowsOper
<1> HIDE DEF words
<1>7. Execute(b, i) = Move(b, i) /\ Execute(c, i) = Move(c, i)
  BY HandlerIs
<1>8. CASE i.arg.mode = "d"
  <2> DEFINE X == SetD(x.m, i.size, i.arg.reg, v)
             Y == SetD(y.m, i.size, i.arg.reg, v)
  <2>1. y.v = v /\ Follows(A, {}, x.m, y.m, o)
    BY <1>6 DEF SameOperand
  <2>2. Move(b, i) = Logic(X, i.size, v)
    BY <1>8 DEF Move, With
  <2>3. Move(c, i) = Logic(Y, i.size, v)
    BY <1>8, <2>1 DEF Move, With
  <2> HIDE DEF x, y
  <2>4. Follows(A, {}, X, Y, o)
    BY <2>1, FollowsSetD
  <2> HIDE DEF X, Y, v
  <2>5. Follows(A, {}, Logic(X, i.size, v), Logic(Y, i.size, v), o)
    BY <2>4, FollowsLogic
  <2>6. Follows(A, {}, Move(b, i), Move(c, i), o)
    BY <2>2, <2>3, <2>5
  <2> QED BY <1>7, <2>6, FollowsMore
<1>9. CASE i.arg.mode # "d"
  <2> DEFINE X == Ea(x.m, i.size, i.arg)
             Y == Ea(y.m, i.size, i.arg)
             a == X.v
             r == [a |-> a, size |-> i.size]
             S == BytesOf(r)
             P == IF i.arg.mode = "pd" THEN WriteDown(X.m, i.size, a, v) ELSE Write(X.m, i.size, a, v)
             Q == IF i.arg.mode = "pd" THEN WriteDown(Y.m, i.size, a, v) ELSE Write(Y.m, i.size, a, v)
  <2>1. y.v = v /\ Follows(A, {}, x.m, y.m, o) /\ y.m.pc = pc
    BY <1>6 DEF SameOperand
  <2>2. r \in Pointed(x.m, i.size, i.arg, {"d"})
    BY <1>9 DEF Pointed
  <2>3. r \in Accesses(b, i)
    BY <1>4, <2>2
  <2>4. Fine(r) /\ S \subseteq A \ o.out /\ S \subseteq Ram \ o.out /\ S \subseteq Footprint(b, i) /\ r.a = a /\ r.size = i.size
    BY <2>3 DEF Footing, Footprint
  <2>5. a \in Int /\ i.size \in Sizes /\ (i.size # B => a % 2 = 0) /\ r = [a |-> a, size |-> i.size] /\ S = BytesOf(r)
    BY <2>4, Widths DEF Fine, Values
  <2>6. SameOperand(A, {}, X, Y, o, pc + 2 * more)
    <3> HIDE DEF x, y, pc
    <3> QED BY <1>3, <2>1, FollowsEa
  <2>7. Follows(A, {}, X.m, Y.m, o) /\ Y.v = a
    BY <2>6 DEF SameOperand
  <2>8. Move(b, i) = Logic(P, i.size, v)
    BY <1>9 DEF Move, With
  <2>9. Move(c, i) = Logic(Q, i.size, v)
    BY <1>9, <2>1, <2>7 DEF Move, With
  <2> HIDE DEF X, Y, x, y, r, S, v, a
  <2>10. Follows(A, {} \cup S, P, Q, o)
    <3>1. CASE i.arg.mode = "pd"
      <4>1. Follows(A, {} \cup BytesOf(r), WriteDown(X.m, i.size, a, v), WriteDown(Y.m, i.size, a, v), o)
        BY <2>4, <2>5, <2>7, FollowsWriteDown
      <4> QED BY <2>5, <3>1, <4>1
    <3>2. CASE i.arg.mode # "pd"
      <4>1. Follows(A \cup S, {} \cup S, Write(X.m, i.size, a, v), Write(Y.m, i.size, a, v), o)
        BY <2>4, <2>5, <2>7, FollowsWrite
      <4>2. A \cup S = A
        BY <2>4
      <4> QED BY <3>2, <4>1, <4>2
    <3> QED BY <3>1, <3>2
  <2> HIDE DEF P, Q
  <2>11. Follows(A, {} \cup S, Logic(P, i.size, v), Logic(Q, i.size, v), o)
    BY <2>10, FollowsLogic
  <2>12. Follows(A, {} \cup S, Move(b, i), Move(c, i), o) /\ {} \cup S \subseteq Footprint(b, i)
    BY <2>4, <2>8, <2>9, <2>11
  <2> QED BY <1>7, <2>12, FollowsMore
<1> QED
  BY <1>8, <1>9

Instructions == {"tst", "addq", "move", "bra", "jmp", "jsr", "rts"}

\* The bytes the two runs agree on after an instruction, and those it may have written
Known(A, i, S) == IF i.op = "jsr" THEN A \cup S ELSE A
Changed(i, S) == IF i.op \in {"addq", "move", "jsr"} THEN S ELSE {}

\* Every instruction of the program does on a machine whose bytes, but for those it needs, are
\* missing or another's, what it does with everything in memory, and writes the same bytes
LEMMA FollowsExecute ==
  ASSUME NEW A, NEW b, NEW c, NEW o, NEW i, i.op \in Instructions, Footing(A, b, c, o, i)
  PROVE  Follows(Known(A, i, Footprint(b, i)), Changed(i, Footprint(b, i)), Execute(b, i), Execute(c, i), o)
<1>1. CASE i.op = "tst"
  BY <1>1, FollowsTst DEF Known, Changed
<1>2. CASE i.op = "addq"
  BY <1>2, FollowsAddq DEF Known, Changed
<1>3. CASE i.op = "move"
  BY <1>3, FollowsMove DEF Known, Changed
<1>4. CASE i.op = "bra"
  BY <1>4, FollowsBra DEF Known, Changed
<1>5. CASE i.op = "jmp"
  BY <1>5, FollowsJmp DEF Known, Changed
<1>6. CASE i.op = "jsr"
  BY <1>6, FollowsJsr DEF Known, Changed
<1>7. CASE i.op = "rts"
  BY <1>7, FollowsRts DEF Known, Changed
<1> QED
  BY <1>1, <1>2, <1>3, <1>4, <1>5, <1>6, <1>7 DEF Instructions

(***************************************************************************)
(* The gates.                                                              *)
(***************************************************************************)
\* The frame of a fault after a JSR undoes its push
Undoes(i) == (i.op = "jsr" => Rerun(i).undo = TRUE) /\ (i.op # "jsr" => Rerun(i).undo = FALSE)

\* The table of distances
LEMMA DistanceIs ==
  /\ DOMAIN Distance = {"jsrlong", "jsrdisp", "jsrind", "jump", "rts", "tst"}
  /\ Distance["jsrlong"] = 6 /\ Distance["jsrdisp"] = 4 /\ Distance["jsrind"] = 2
  /\ Distance["jump"] = 2 /\ Distance["rts"] = 2 /\ Distance["tst"] = 2
  BY DEF Distance

\* The table of m68ki_exception_bus_error for each form of gate is the kernel's
LEMMA GateForms ==
  ASSUME NEW i, Form(i) \in Gates
  PROVE  /\ \/ i.op = "jsr" /\ i.ea.mode \in {"al", "di", "ai"}
            \/ i.op = "jmp" /\ i.ea.mode \in {"al", "ai"}
            \/ i.op = "rts"
         /\ Rerun(i).adj = Distance[Form(i)] /\ Rerun(i).adj \in {2, 4, 6} /\ Undoes(i)
         /\ Form(i) = "rts" <=> i.op = "rts"
         /\ Form(i) \in DOMAIN Distance /\ Form(i) # "rte" /\ Form(i) # "other"
<1>1. Form(i) \in {"jsrlong", "jsrdisp", "jsrind", "jump", "rts"}
  BY DEF Gates, Distance
<1>2. CASE Form(i) = "jsrlong"
  <2>1. i.op = "jsr" /\ i.ea.mode = "al"
    BY <1>2 DEF Form
  <2>2. Rerun(i) = [adj |-> 6, undo |-> TRUE]
    BY <2>1 DEF Rerun
  <2>3. Rerun(i).adj = 6 /\ Undoes(i)
    BY <2>1, <2>2 DEF Undoes
  <2> QED BY <1>2, <2>1, <2>3, DistanceIs
<1>3. CASE Form(i) = "jsrdisp"
  <2>1. i.op = "jsr" /\ i.ea.mode = "di"
    BY <1>3 DEF Form
  <2>2. Rerun(i) = [adj |-> 4, undo |-> TRUE]
    BY <2>1 DEF Rerun
  <2>3. Rerun(i).adj = 4 /\ Undoes(i)
    BY <2>1, <2>2 DEF Undoes
  <2> QED BY <1>3, <2>1, <2>3, DistanceIs
<1>4. CASE Form(i) = "jsrind"
  <2>1. i.op = "jsr" /\ i.ea.mode = "ai"
    BY <1>4 DEF Form
  <2>2. Rerun(i) = [adj |-> 2, undo |-> TRUE]
    BY <2>1 DEF Rerun
  <2>3. Rerun(i).adj = 2 /\ Undoes(i)
    BY <2>1, <2>2 DEF Undoes
  <2> QED BY <1>4, <2>1, <2>3, DistanceIs
<1>5. CASE Form(i) = "jump"
  <2>1. i.op = "jmp" /\ i.ea.mode \in {"al", "ai"}
    BY <1>5 DEF Form
  <2>2. Rerun(i) = [adj |-> 2, undo |-> FALSE]
    BY <2>1 DEF Rerun
  <2>3. Rerun(i).adj = 2 /\ Undoes(i)
    BY <2>1, <2>2 DEF Undoes
  <2> QED BY <1>5, <2>1, <2>3, DistanceIs
<1>6. CASE Form(i) = "rts"
  <2>1. i.op = "rts"
    BY <1>6 DEF Form
  <2>2. Rerun(i) = [adj |-> 2, undo |-> FALSE]
    BY <2>1 DEF Rerun
  <2>3. Rerun(i).adj = 2 /\ Undoes(i)
    BY <2>1, <2>2 DEF Undoes
  <2> QED BY <1>6, <2>1, <2>3, DistanceIs
<1> QED
  BY <1>1, <1>2, <1>3, <1>4, <1>5, <1>6

\* A write changes memory only
LEMMA WriteIs ==
  ASSUME NEW c, Good(c), NEW a \in Int, NEW size \in Sizes, size # B => a % 2 = 0,
         NEW r, r = [a |-> a, size |-> size], BytesOf(r) \subseteq Ram \ c.out, NEW v
  PROVE  Write(c, size, a, v).da = c.da /\ SameFlags(c, Write(c, size, a, v)) /\ Write(c, size, a, v).flt = NoFault
<1> DEFINE n == FirstPart(size)
           k == SecondPart(size)
           high == v \div 2^(B * k)
           x == WritePart(c, a, n, high)
           f == Stored(c.mem, BusAddress(a), n, high)
<1>1. n \in {1, 2} /\ k \in {0, 2} /\ PartBytes(a, n) \subseteq Ram \ c.out /\ PartBytes(a + 2, k) \subseteq Ram \ c.out
  BY BytesAre
<1>2. Write(c, size, a, v) = WritePart(x, a + 2, k, v)
  BY DEF Write, Good
<1>3. BusAddress(a) \in Ram \ c.out
  BY <1>1 DEF PartBytes, WordBytes
<1>4. x = [c EXCEPT !.mem = f]
  <2> HIDE DEF n, high
  <2> QED BY <1>1, <1>3, PartWrite
<1>5. f = [z \in Ram |-> f[z]]
  BY DEF Stored, Good, Shape
<1> HIDE DEF f, x, n, high, k
<1>6. Good(x) /\ x.da = c.da /\ SameFlags(c, x) /\ x.flt = NoFault /\ x.out = c.out
  BY <1>4, <1>5 DEF Good, Shape, SameFlags
<1>7. CASE k = 0
  BY <1>2, <1>6, <1>7, NothingWritten
<1>8. CASE k = 2
  <2> DEFINE g == Stored(x.mem, BusAddress(a + 2), k, v)
             y == WritePart(x, a + 2, k, v)
  <2>1. BusAddress(a + 2) \in Ram \ c.out
    BY <1>1, <1>8 DEF PartBytes, WordBytes
  <2>2. y = [x EXCEPT !.mem = g]
    BY <1>6, <1>8, <2>1, PartWrite
  <2> HIDE DEF g, y
  <2>3. y.da = c.da /\ y.x = x.x /\ y.n = x.n /\ y.z = x.z /\ y.v = x.v /\ y.c = x.c /\ y.flt = NoFault
    BY <1>6, <2>2 DEF Good, Shape
  <2> QED BY <1>2, <1>6, <2>3 DEF SameFlags, y
<1> QED
  BY <1>1, <1>7, <1>8

\* The stack pointer after a gate
SpAfter(b, i) ==
  IF i.op = "jsr" THEN Mask(L, b.da[SP] - 4) ELSE IF i.op = "rts" THEN Mask(L, b.da[SP] + 4) ELSE b.da[SP]

GateMoves(b, i, k) == k.da = [b.da EXCEPT ![SP] = SpAfter(b, i)] /\ SameFlags(b, k)

\* A gate moves nothing but the PC and the stack pointer, which the frame of its fault moves back
LEMMA GateIs ==
  ASSUME NEW A, NEW b, NEW c, NEW o, NEW i, Form(i) \in Gates, Footing(A, b, c, o, i)
  PROVE  GateMoves(b, i, Execute(b, i))
<1>1. Follows(A, {}, b, c, o) /\ CodeAt(o, c.pc, Words(i) - 1) /\ Good(b) /\ Good(c) /\ b.out = {}
  BY DEF Footing, Follows
<1> DEFINE words == ExtensionWords(L, i.ea)
           f == Fetch(b, words)
<1>2. i.op \in {"jmp", "jsr"} => Words(i) - 1 = words /\ words \in {0, 1, 2}
  BY ExtensionsAre DEF Words
<1>3. i.op \in {"jmp", "jsr"} => OnlyPc(b, f)
  BY <1>1, <1>2, FollowsFetch
<1>4. i.op \in {"jmp", "jsr"} => Ea(b, L, i.ea).m = f
  BY GateForms DEF Ea, Extended
<1>5. CASE i.op = "rts"
  <2>1. PICK p : Execute(b, i) = [[b EXCEPT !.da[SP] = Mask(L, b.da[SP] + 4)] EXCEPT !.pc = p]
    <3>1. Popped(b, Execute(b, i))
      BY <1>5, FollowsRts
    <3> QED BY <3>1 DEF Popped
  <2> DEFINE v == Mask(L, b.da[SP] + 4)
             D == [b.da EXCEPT ![SP] = v]
  <2>2. Execute(b, i) = [[b EXCEPT !.da = D] EXCEPT !.pc = p]
    BY <2>1
  <2>3. SpAfter(b, i) = v
    BY <1>5 DEF SpAfter
  <2> DEFINE k == Execute(b, i)
  <2> HIDE DEF D, v, k
  <2>4. k = [[b EXCEPT !.da = D] EXCEPT !.pc = p]
    BY <2>2 DEF k
  <2>5. k.da = D /\ SameFlags(b, k)
    BY <1>1, <2>4 DEF Good, Shape, SameFlags
  <2> QED BY <2>3, <2>5 DEF GateMoves, D, k
<1>6. CASE i.op = "jmp"
  <2> DEFINE a == Ea(b, L, i.ea).v
             k == Execute(b, i)
  <2>1. k = Jump(f, a)
    BY <1>4, <1>6, HandlerIs DEF JmpTo, With
  <2> HIDE DEF f, a, k
  <2>2. Good(f) /\ OnlyPc(b, [f EXCEPT !.pc = a])
    BY <1>1, <1>3, <1>6, OnlyPcAgain
  <2>3. k = [f EXCEPT !.pc = a]
    BY <2>1, <2>2 DEF Jump, Go, Good
  <2>4. PICK p : k = [b EXCEPT !.pc = p]
    BY <2>2, <2>3 DEF OnlyPc
  <2>5. k.da = b.da /\ SameFlags(b, k)
    BY <1>1, <2>4 DEF Good, Shape, SameFlags
  <2>6. SpAfter(b, i) = b.da[SP] /\ [b.da EXCEPT ![SP] = b.da[SP]] = b.da
    BY <1>1, <1>6 DEF SpAfter, Good, Shape
  <2> QED BY <2>5, <2>6 DEF GateMoves, k
<1>7. CASE i.op = "jsr"
  <2> DEFINE a == Ea(b, L, i.ea).v
             k == Execute(b, i)
             sp == b.da[SP] - 4
             e == Mask(L, sp)
             r == [a |-> e, size |-> L]
             X == SetReg(f, SP, sp)
             Y == Write(X, L, e, f.pc)
             D == [b.da EXCEPT ![SP] = e]
  <2>1. k = Jump(Push(f, L, f.pc), a)
    BY <1>4, <1>7, HandlerIs DEF Jsr, With
  <2>2. Good(f) /\ f.da = b.da /\ SameFlags(b, f) /\ f.out = b.out
    <3> HIDE DEF f
    <3>1. PICK p : f = [b EXCEPT !.pc = p]
      BY <1>3, <1>7 DEF OnlyPc
    <3> QED BY <1>1, <3>1 DEF Good, Shape, SameFlags
  <2>3. Push(f, L, f.pc) = Y
    <3> HIDE DEF f
    <3> QED BY <2>2, SizesOfParts DEF Push
  <2>4. X = [f EXCEPT !.da = D]
    <3> HIDE DEF f
    <3> QED BY <2>2 DEF SetReg, Go, Good
  <2>5. D = [z \in 0 .. 15 |-> D[z]]
    BY <1>1 DEF Good, Shape
  <2>6. r \in Accesses(b, i)
    <3>1. Ea(b, L, i.ea).m.da[SP] = b.da[SP]
      BY <1>4, <1>7, <2>2
    <3> QED BY <1>7, <3>1 DEF Accesses
  <2>7. Fine(r) /\ BytesOf(r) \subseteq Ram /\ r.a = e /\ r.size = L
    BY <2>6 DEF Footing
  <2>8. e \in Int /\ L \in Sizes /\ (L # B => e % 2 = 0) /\ r = [a |-> e, size |-> L]
    BY <2>7, Widths DEF Fine, Values, Sizes
  <2> HIDE DEF D, f, r, e
  <2>9. Good(X) /\ X.da = D /\ SameFlags(f, X) /\ X.out = b.out
    <3> HIDE DEF X
    <3>1. X.flt = NoFault /\ X.pending = FALSE /\ X.da = D /\ SameFlags(f, X) /\ X.out = b.out /\ X.base = f.base /\ X.mem = f.mem
      BY <2>2, <2>4 DEF Good, Shape, SameFlags
    <3>2. Shape(X)
      BY <2>2, <2>4, <2>5, <3>1 DEF Good, Shape
    <3> QED BY <3>1, <3>2 DEF Good
  <2> HIDE DEF X
  <2>10. BytesOf(r) \subseteq Ram \ X.out
    BY <1>1, <2>7, <2>9
  <2>11. Y.da = X.da /\ SameFlags(X, Y) /\ Y.flt = NoFault
    BY <2>8, <2>9, <2>10, WriteIs
  <2> HIDE DEF Y, a
  <2>12. k = [Y EXCEPT !.pc = a]
    BY <2>1, <2>3, <2>11 DEF Jump, Go
  <2> HIDE DEF k
  <2>13. k.da = Y.da /\ SameFlags(Y, k)
    BY <2>12 DEF SameFlags
  <2>14. k.da = D /\ SameFlags(b, k)
    BY <2>2, <2>9, <2>11, <2>13 DEF SameFlags
  <2>15. SpAfter(b, i) = e
    BY <1>7 DEF SpAfter, e
  <2> QED BY <2>14, <2>15 DEF GateMoves, D, k
<1> QED
  BY <1>5, <1>6, <1>7, GateForms

(***************************************************************************)
(* Faults.                                                                 *)
(***************************************************************************)
\* A fault leaves the rest of the instruction undone
LEMMA OperStays ==
  ASSUME NEW c, c.flt # NoFault, NEW size, NEW op
  PROVE  Oper(c, size, op).m = c /\ Ea(c, size, op).m = c
<1>1. Extended(c, size, op) = c
  BY DEF Extended, Fetch
<1>2. Ea(c, size, op).m = c
  BY <1>1 DEF Ea, SetReg, Go
<1>3. CASE op.mode \in {"d", "a"}
  BY <1>2, <1>3 DEF Oper
<1>4. CASE op.mode = "i"
  BY <1>1, <1>2, <1>4 DEF Oper
<1>5. CASE op.mode \notin {"d", "a", "i"}
  <2> DEFINE x == Ea(c, size, op)
  <2>1. Oper(c, size, op) = ReadIn(x.m, size, x.v, SpaceOf(c, op))
    BY <1>5 DEF Oper, With
  <2> HIDE DEF x
  <2>2. x.m = c
    BY <1>2 DEF x
  <2>3. ReadIn(c, size, x.v, SpaceOf(c, op)).m = c
    BY DEF ReadIn
  <2> QED BY <1>2, <2>1, <2>2, <2>3
<1> QED
  BY <1>3, <1>4, <1>5

\* from which Execute does not move
LEMMA FaultStays ==
  ASSUME NEW c, c.flt # NoFault, NEW i, i.op \in Instructions
  PROVE  Execute(c, i) = c
<1>1. \A size, op : Oper(c, size, op).m = c /\ Ea(c, size, op).m = c
  BY OperStays
<1>2. \A size, v : Logic(c, size, v) = c
  BY DEF Logic, Go
<1>3. \A a : Jump(c, a) = c
  BY DEF Jump, Go
<1>4. \A size, a, v : Write(c, size, a, v) = c
  BY DEF Write
<1>5. \A x, v : SetReg(c, x, v) = c
  BY DEF SetReg, Go
<1>6. \A size, x, v : SetD(c, size, x, v) = c
  BY DEF SetD, Go
<1>7. CASE i.op = "tst"
  BY <1>1, <1>2, <1>7, HandlerIs DEF Tst, With
<1>8. CASE i.op = "addq"
  <2>1. \A src, dst : Adding(c, i.size, src, dst).m = c
    BY DEF Adding, Go
  <2>2. CASE i.ea.mode = "a"
    BY <1>5, <1>8, <2>2, HandlerIs DEF Addq
  <2>3. CASE i.ea.mode = "d"
    BY <1>6, <1>8, <2>1, <2>3, HandlerIs DEF Addq, Quick, Update, With
  <2>4. CASE i.ea.mode \notin {"a", "d"}
    <3> DEFINE x == Ea(c, i.size, i.ea)
               q == Read(x.m, i.size, x.v)
    <3>1. q.m = c
      BY <1>1 DEF Read, ReadIn
    <3>2. x.m = c
      BY <1>1
    <3> HIDE DEF x, q
    <3> DEFINE y == Adding(q.m, i.size, i.arg, q.v)
    <3>3. Execute(c, i) = Write(y.m, i.size, x.v, y.v)
      BY <1>8, <2>4, HandlerIs DEF Addq, Quick, Update, With, x, q
    <3>4. y.m = c
      BY <2>1, <3>1
    <3> HIDE DEF y
    <3> QED BY <1>4, <3>3, <3>4, SMTT(30)
  <2> QED BY <2>2, <2>3, <2>4
<1>9. CASE i.op = "move"
  <2> DEFINE x == Oper(c, i.size, i.ea)
             z == Ea(x.m, i.size, i.arg)
             y == IF i.arg.mode = "d" THEN SetD(x.m, i.size, i.arg.reg, x.v)
                  ELSE IF i.arg.mode = "pd" THEN WriteDown(z.m, i.size, z.v, x.v) ELSE Write(z.m, i.size, z.v, x.v)
  <2>1. Execute(c, i) = Logic(y, i.size, x.v)
    BY <1>9, HandlerIs DEF Move, With
  <2>2. x.m = c
    BY <1>1
  <2>3. z.m = c
    BY <1>1, <2>2
  <2> HIDE DEF x, z
  <2>4. WriteDown(z.m, i.size, z.v, x.v) = c
    BY <1>4, <2>3 DEF WriteDown
  <2>5. y = c
    BY <1>4, <1>6, <2>2, <2>3, <2>4
  <2> HIDE DEF y
  <2> QED BY <1>2, <2>1, <2>5
<1>10. CASE i.op = "bra"
  <2>1. Fetch(c, 1) = c
    BY DEF Fetch
  <2>2. Back(c) = c
    BY DEF Back, Go
  <2> QED BY <1>3, <1>10, <2>1, <2>2, HandlerIs DEF Bra, BranchWord, Branch
<1>11. CASE i.op = "jmp"
  BY <1>1, <1>3, <1>11, HandlerIs DEF JmpTo, With
<1>12. CASE i.op = "jsr"
  <2> DEFINE x == Ea(c, L, i.ea)
  <2>1. Execute(c, i) = Jump(Push(x.m, L, x.m.pc), x.v)
    BY <1>12, HandlerIs DEF Jsr, With
  <2>2. x.m = c
    BY <1>1
  <2> HIDE DEF x
  <2>3. Push(c, L, c.pc) = c
    BY <1>4, <1>5 DEF Push
  <2> QED BY <1>3, <2>1, <2>2, <2>3
<1>13. CASE i.op = "rts"
  <2>1. Pull(c, L).m = c
    BY <1>5 DEF Pull, Read, ReadIn
  <2> QED BY <1>3, <1>13, <2>1, HandlerIs, SMTT(30) DEF Rts, With
<1> QED
  BY <1>7, <1>8, <1>9, <1>10, <1>11, <1>12, <1>13 DEF Instructions

\* The fetch at the top of the loop, of a word that is not in memory
FetchFails(c, k) ==
  k = [c EXCEPT !.ppc = c.pc, !.save = c.da, !.fetching = TRUE, !.pc = Mask(L, c.pc + 2),
                !.flt = [kind |-> "bus", address |-> BusAddress(c.pc), mode |-> ModeRead, fc |-> DataSpace(c)],
                !.pending = TRUE]

\* It leaves the PC after the word, and marks that it was fetching
LEMMA FetchFault ==
  ASSUME NEW c, Shape(c), c.flt = NoFault, c.pending = FALSE, c.run # "wsf", c.pc % 2 = 0, ~Translates(c, c.pc), NEW i
  PROVE  FetchFails(c, Begin(c, i))
<1> DEFINE k == [c EXCEPT !.ppc = c.pc, !.save = c.da, !.fetching = TRUE]
           next == Mask(L, c.pc + 2)
           f == [k EXCEPT !.pc = next]
           g == PulseBusError(f, c.pc, ModeRead)
<1>1. k.pc = c.pc /\ k.flt = NoFault /\ Shape(k) /\ k.out = c.out /\ k.pending = FALSE /\ k.run = c.run /\ k.s = c.s
  BY DEF Shape
<1>2. f.pc = next /\ f.flt = NoFault /\ f.pending = FALSE /\ f.run # "wsf" /\ ~Translates(f, c.pc) /\ f.s = c.s /\ f.out = c.out
  <2> HIDE DEF k, next
  <2>1. f.pc = next /\ f.flt = k.flt /\ f.pending = k.pending /\ f.run = k.run /\ f.out = k.out /\ f.s = k.s
    BY <1>1 DEF Shape
  <2> QED BY <1>1, <2>1 DEF Translates
<1> DEFINE r == [m |-> f, v |-> 0]
<1>3. ReadPart(r, c.pc, 2).m = g
  <2> HIDE DEF f
  <2>1. r.m = f /\ BusFault(f, c.pc, ModeRead) = g
    BY <1>2 DEF BusFault
  <2> QED BY <1>2, <2>1 DEF ReadPart
<1>4. g.flt # NoFault
  <2>1. g.flt.kind = "bus"
    <3> HIDE DEF f
    <3>1. f.flt = NoFault /\ Shape(f)
      BY <1>1, <1>2, ZenonT(40) DEF Shape, f
    <3> QED BY <3>1 DEF PulseBusError, Shape
  <2> QED BY <2>1 DEF NoFault
<1>5. Fetch(k, 1) = ReadPart(ReadPart(r, c.pc, 2), c.pc + 2, 0).m
  <2> HIDE DEF k
  <2>1. k.pc % 2 # 1 /\ 2 * 1 = 2 /\ 2 * (1 - 1) = 0
    BY <1>1
  <2> QED BY <1>1, <2>1 DEF Fetch
<1>6. Fetch(k, 1) = g
  BY <1>3, <1>5, NothingRead
<1> HIDE DEF g
<1>7. Begin(c, i) = g
  BY <1>4, <1>6 DEF Begin, Decode, Go
<1>8. g = [f EXCEPT !.flt = [kind |-> "bus", address |-> BusAddress(c.pc), mode |-> ModeRead, fc |-> DataSpace(c)],
                    !.pending = TRUE]
  <2>1. DataSpace(f) = DataSpace(c)
    BY <1>2 DEF DataSpace
  <2> QED BY <2>1 DEF PulseBusError, g
<1> HIDE DEF next
<1>9. g = [c EXCEPT !.ppc = c.pc, !.save = c.da, !.fetching = TRUE, !.pc = next,
                !.flt = [kind |-> "bus", address |-> BusAddress(c.pc), mode |-> ModeRead, fc |-> DataSpace(c)],
                !.pending = TRUE]
  BY <1>8 DEF Shape
<1> QED
  BY <1>7, <1>9 DEF FetchFails, next

\* What the kernel is told of a fault
FrameTells(k, N, f) ==
  /\ f \in DOMAIN Distance \cup {"rte"} /\ Holding(FrameAddress(k)) # {}
  /\ (IF f = "rte" THEN FrameAddress(k) ELSE Mask(L, FramePc(k) - Distance[f])) = Ideal[N].pc
  /\ (IF f = "rts" THEN Mask(L, FrameUsp(k) - 4) ELSE FrameUsp(k)) = Ideal[N].da[SP]

\* k is at a fault of an access; c was the machine as the instruction began
AtFault(c, k) ==
  /\ MachineType(k) /\ k.s = 0 /\ k.base = c.base /\ k.out = c.out /\ k.mem = c.mem /\ k.nmi = c.nmi
  /\ k.stopped = c.stopped /\ k.level = c.level /\ k.save = c.da /\ Flags(k) = Flags(c)
  /\ k.flt.kind = "bus" /\ k.flt.address \in Values(L) /\ k.flt.mode \in {ModeRead, ModeWrite} /\ k.flt.fc = 1

\* A machine in the handler of bus errors
InBusError(k, c, mem) ==
  /\ k.mem = mem /\ k.s = 1 /\ k.da[SP] = Top - 14 /\ k.pc = BusErrorEntry /\ k.run = "berr"
  /\ k.flt = NoFault /\ k.pending = FALSE /\ k.nmi = c.nmi /\ k.stopped = c.stopped /\ k.level = c.level
  /\ k.out = c.out /\ k.base[0] = FrameUsp(c) /\ \A r \in 0 .. 14 : k.da[r] = c.save[r]

\* The machine of BusErrorIs
Landing(c, mem) ==
  [c EXCEPT !.flt = NoFault, !.run = "berr", !.da = [c.save EXCEPT ![SP] = Top - 14],
            !.base = [c.base EXCEPT ![0] = FrameUsp(c)], !.s = 1, !.t = 0, !.fetching = FALSE,
            !.pending = FALSE, !.mem = mem, !.pc = BusErrorEntry]

\* A bus error leaves a machine of the right type
LEMMA TypeAfterBusError ==
  ASSUME NEW c, MachineType(c), NEW mem \in [Ram -> Values(B)], Top - 14 \in Values(L), NEW k,
         k = Landing(c, mem)
  PROVE  MachineType(k) /\ InBusError(k, c, mem)
<1> DEFINE base == [c.base EXCEPT ![0] = FrameUsp(c)]
           D == [c.save EXCEPT ![SP] = Top - 14]
           to == BusErrorEntry
<1>1. Shape(c) /\ Fields(c) /\ to \in Values(L)
  BY TypeHasFields, EntryFacts
<1>2. FrameUsp(c) \in Values(L)
  <2>1. c.save[SP] \in Values(L)
    BY <1>1 DEF Fields, SP
  <2>2. c.save[SP] + 4 \in Int
    BY <2>1, Widths DEF Values
  <2>3. Mask(L, c.save[SP] + 4) \in Values(L)
    BY <2>2, MasksAreTyped
  <2> QED BY <2>1, <2>3 DEF FrameUsp
<1>3. base \in [{0, 1} -> Values(L)] /\ base[0] = FrameUsp(c) /\ D \in [0 .. 15 -> Values(L)] /\ D[SP] = Top - 14
      /\ \A r \in 0 .. 14 : D[r] = c.save[r]
  BY <1>1, <1>2 DEF Fields, SP
<1>4. k = [c EXCEPT !.flt = NoFault, !.run = "berr", !.da = D, !.base = base, !.s = 1, !.t = 0, !.fetching = FALSE,
                    !.pending = FALSE, !.mem = mem, !.pc = to]
  BY DEF Landing
<1> HIDE DEF base, D, to
<1>5. /\ k.mem = mem /\ k.s = 1 /\ k.da = D /\ k.mask = c.mask /\ k.pc = to /\ k.run = "berr"
      /\ k.flt = NoFault /\ k.pending = FALSE /\ k.nmi = c.nmi /\ k.stopped = c.stopped /\ k.level = c.level
      /\ k.out = c.out /\ k.base = base /\ k.ir = c.ir /\ k.prev = c.prev
  <2>1. k.mem = mem /\ k.s = 1 /\ k.da = D /\ k.mask = c.mask /\ k.pc = to /\ k.run = "berr"
    BY <1>1, <1>4 DEF Shape
  <2>2. k.flt = NoFault /\ k.pending = FALSE /\ k.nmi = c.nmi /\ k.stopped = c.stopped /\ k.level = c.level
    BY <1>1, <1>4 DEF Shape
  <2>3. k.out = c.out /\ k.base = base /\ k.ir = c.ir /\ k.prev = c.prev
    BY <1>1, <1>4 DEF Shape
  <2> QED BY <2>1, <2>2, <2>3
<1>6. /\ k.save = c.save /\ k.ppc = c.ppc /\ k.x = c.x /\ k.n = c.n /\ k.z = c.z /\ k.v = c.v /\ k.c = c.c
      /\ k.t = 0 /\ k.instr = c.instr /\ k.fetching = FALSE
  BY <1>1, <1>4 DEF Shape
<1>7. Shape(k)
  <2>1. D = [r \in 0 .. 15 |-> D[r]] /\ base = [s \in {0, 1} |-> base[s]] /\ mem = [a \in Ram |-> mem[a]]
    BY <1>3
  <2> QED BY <1>1, <1>4, <1>5, <2>1, ZenonT(40) DEF Shape
<1>8. Fields(k)
  <2>1. /\ k.da \in [0 .. 15 -> Values(L)] /\ k.save \in [0 .. 15 -> Values(L)] /\ k.base \in [{0, 1} -> Values(L)]
        /\ k.pc \in Values(L) /\ k.ppc \in Values(L) /\ k.prev \in Values(L) /\ k.mem \in [Ram -> Values(B)]
    BY <1>1, <1>3, <1>5, <1>6 DEF Fields
  <2>2. /\ k.x \in Flag /\ k.n \in Flag /\ k.z \in Flag /\ k.v \in Flag /\ k.c \in Flag /\ k.s \in Flag /\ k.t \in Flag
        /\ k.mask \in 0 .. 7 /\ k.level \in 0 .. 7
    BY <1>1, <1>5, <1>6 DEF Fields, Flag
  <2>3. /\ k.nmi \in BOOLEAN /\ k.stopped \in SUBSET {"stop", "halt"} /\ k.run \in {"normal", "berr", "wsf"}
        /\ k.instr \in {InstructionYes, InstructionNo} /\ k.fetching \in BOOLEAN /\ k.pending \in BOOLEAN
    BY <1>1, <1>5, <1>6 DEF Fields
  <2> QED BY <2>1, <2>2, <2>3 DEF Fields
<1> QED
  BY <1>3, <1>5, <1>7, <1>8, FieldsMakeType DEF to, InBusError

\* A fault the kernel is told the right thing of puts the machine in the handler of bus errors,
\* with the program to be resumed at its N-th instruction
LEMMA FaultLands ==
  ASSUME NEW c, Common(c), c.base[1] = Top, NEW N \in 0 .. Length, Sees(c, N), OutOK(c, N), NEW k, AtFault(c, k),
         Flags(c) = Flags(Ideal[N]), \A r \in 0 .. 14 : c.da[r] = Ideal[N].da[r],
         Encode(k.ir) \in Values(W), FrameTells(k, N, FormOf(Encode(k.ir)))
  PROVE  Common(Settle(k)) /\ Kernel(Settle(k), N, 1, 1)
<1> DEFINE h == Settle(k)
<1>1. c.out \subseteq Paged /\ c.out \cap KernelStack = {}
  BY StackIsNotOut
<1>2. MachineType(k) /\ k.s = 0 /\ k.base = c.base /\ k.out = c.out /\ k.mem = c.mem /\ Flags(k) = Flags(c) /\ k.save = c.da
  BY DEF AtFault
<1>3. Fits(1)
  <2>1. 1 \in 1 .. 7 /\ 1 - 1 <= 0 /\ 0 \in Levels \cup {0}
    OBVIOUS
  <2> QED BY <2>1 DEF Fits
<1>4. Top - 14 \in Nat /\ Top - 14 \in Values(L) /\ Top - 14 .. Top - 1 \subseteq KernelStack
  <2>1. Top - 6 * 1 - 8 * 1 = Top - 14
    BY StackFacts
  <2>2. 1 \in {0, 1}
    OBVIOUS
  <2>3. Top - 6 * 1 - 8 * 1 \in Nat /\ Top - 6 * 1 - 8 * 1 \in Values(L) /\ Top - 6 * 1 - 8 * 1 .. Top - 1 \subseteq KernelStack
    BY <1>3, <2>2, DepthIs, SMTT(30)
  <2> QED BY <2>1, <2>3
<1>5. PICK mem \in [Ram -> Values(B)] :
           /\ h = Landing(k, mem)
           /\ SameOutside(k.mem, mem, Top - 14, Top - 1)
           /\ WordAt(mem, Top - 6) = Sr(k) /\ LongIn(mem, Top - 4) = FramePc(k)
           /\ WordAt(mem, Top - 8) = Encode(k.ir) /\ LongIn(mem, Top - 12) = FrameAddress(k)
  <2>1. k.base[1] = Top /\ k.out \subseteq Paged
    BY <1>1, <1>2
  <2> QED BY <2>1, BusErrorIs DEF AtFault, Landing
<1>6. MachineType(h) /\ InBusError(h, k, mem)
  <2> HIDE DEF h
  <2> QED BY <1>2, <1>4, <1>5, TypeAfterBusError
<1> HIDE DEF h
<1>7. Common(h)
  BY <1>6 DEF Common, InBusError, AtFault
<1>8. SrS(Sr(k)) = 0 /\ FlagsIn(Sr(k)) = Flags(c)
  BY <1>2, TypeOf, SrRoundTrip
<1>9. Nested(h, 1, 1)
  <2>1. Top - 6 * 1 - 8 * 1 = Top - 14 /\ 2 .. 1 = {} /\ h.mask >= 1 - 1
    <3>1. h.mask \in 0 .. 7
      BY <1>6, TypeOf
    <3> QED BY <3>1, StackFacts
  <2>2. h.pc \in Places(1, 1)
    BY <1>6 DEF Places, InBusError
  <2>3. FramesOf(h.mem, 1, 1)
    BY <1>5, <1>6, <1>8, <2>1 DEF FramesOf, InBusError
  <2> QED BY <1>3, <1>6, <2>1, <2>2, <2>3 DEF Nested, InBusError
<1>10. FormIn(mem) = FormOf(Encode(k.ir))
  BY <1>5 DEF FormIn
<1>11. Told(mem, N, 1)
  BY <1>5, <1>8, <1>10 DEF Told, UserPc, FrameTells
<1>12. UserSp(h, 1) = Ideal[N].da[SP]
  BY <1>6, <1>10 DEF UserSp, FrameTells, InBusError
<1>13. Sees(h, N)
  <2>1. \A a \in Ram \ KernelStack : mem[a] = c.mem[a]
    BY <1>2, <1>4, <1>5 DEF SameOutside
  <2> QED BY <1>6, <2>1, SeesStill DEF InBusError
<1>14. OutOK(h, N)
  BY <1>2, <1>6 DEF OutOK, Whole, InBusError
<1>15. \A r \in 0 .. 14 : h.da[r] = Ideal[N].da[r]
  BY <1>2, <1>6 DEF InBusError
<1>16. Resumes(h, N, 1)
  BY <1>6, <1>11, <1>12, <1>13, <1>14, <1>15 DEF Resumes, InBusError
<1> QED
  BY <1>7, <1>9, <1>16 DEF Kernel, h

(***************************************************************************)
(* The undisturbed run.                                                    *)
(***************************************************************************)
First == [Start EXCEPT !.out = {}]
After(g, k) == IF k = 0 THEN First ELSE Turn(g[k - 1])
RunsTo(g, n) == g = [k \in 0 .. n |-> After(g, k)]

\* A function that runs the program for n turns exists, for every n
LEMMA RunsExist == ASSUME NEW n \in Nat PROVE \E g : RunsTo(g, n)
<1> DEFINE S == {j \in Nat : \E g : RunsTo(g, j)}
<1>1. 0 \in S
  <2> DEFINE g == [k \in 0 .. 0 |-> First]
  <2>1. \A k \in 0 .. 0 : After(g, k) = First
    BY DEF After
  <2>2. g = [k \in 0 .. 0 |-> After(g, k)]
    BY <2>1
  <2> HIDE DEF g
  <2>3. RunsTo(g, 0)
    BY <2>2 DEF RunsTo
  <2> QED BY <2>3
<1>2. ASSUME NEW j \in Nat, j \in S PROVE j + 1 \in S
  <2>1. PICK g : RunsTo(g, j)
    BY <1>2
  <2> DEFINE h == [k \in 0 .. j + 1 |-> IF k = j + 1 THEN Turn(g[j]) ELSE g[k]]
  <2>2. \A k \in 0 .. j : h[k] = g[k] /\ g[k] = After(g, k)
    <3>1. \A k \in 0 .. j : g[k] = After(g, k)
      BY <2>1 DEF RunsTo
    <3> QED BY <3>1
  <2>3. \A k \in 0 .. j + 1 : h[k] = After(h, k)
    <3> TAKE k \in 0 .. j + 1
    <3>1. CASE k = j + 1
      <4>1. k # 0 /\ k - 1 = j /\ j \in 0 .. j
        BY <3>1
      <4>2. h[j] = g[j] /\ h[k] = Turn(g[j])
        BY <2>2, <3>1, <4>1
      <4> HIDE DEF h
      <4> QED BY <4>1, <4>2 DEF After
    <3>2. CASE k # j + 1
      <4>1. k \in 0 .. j /\ (k = 0 \/ k - 1 \in 0 .. j)
        BY <3>2
      <4> HIDE DEF h
      <4> QED BY <2>2, <4>1 DEF After
    <3> QED BY <3>1, <3>2
  <2>4. h = [k \in 0 .. j + 1 |-> h[k]]
    OBVIOUS
  <2> HIDE DEF h
  <2>5. RunsTo(h, j + 1)
    BY <2>3, <2>4 DEF RunsTo
  <2> QED BY <2>5
<1> HIDE DEF S
<1>3. n \in S
  BY <1>1, <1>2, CountingInduction
<1> QED
  BY <1>3 DEF S

\* so that the recursive definition of Ideal has its value
LEMMA IdealIs ==
  /\ Ideal[0] = First
  /\ \A n \in 0 .. Length : n < Length => Ideal[n + 1] = Turn(Ideal[n])
<1>1. Length \in Nat
  BY ExecuteAssumption
<1>2. PICK g : RunsTo(g, Length)
  BY <1>1, RunsExist
<1>3. Ideal = CHOOSE f : f = [n \in 0 .. Length |-> IF n = 0 THEN [Start EXCEPT !.out = {}] ELSE Turn(f[n - 1])]
  BY DEF Ideal
<1>4. g = [n \in 0 .. Length |-> IF n = 0 THEN [Start EXCEPT !.out = {}] ELSE Turn(g[n - 1])]
  BY <1>2 DEF RunsTo, After, First
<1>5. Ideal = [n \in 0 .. Length |-> IF n = 0 THEN [Start EXCEPT !.out = {}] ELSE Turn(Ideal[n - 1])]
  BY <1>3, <1>4
<1>6. \A n \in 0 .. Length : Ideal[n] = IF n = 0 THEN [Start EXCEPT !.out = {}] ELSE Turn(Ideal[n - 1])
  BY <1>5
<1>7. Ideal[0] = First
  BY <1>1, <1>6 DEF First
<1>8. ASSUME NEW n \in 0 .. Length, n < Length PROVE Ideal[n + 1] = Turn(Ideal[n])
  <2>1. n + 1 \in 0 .. Length /\ n + 1 # 0 /\ (n + 1) - 1 = n
    BY <1>1, <1>8
  <2> QED BY <1>6, <2>1
<1> QED
  BY <1>7, <1>8

\* The program at its n-th instruction
LEMMA ProgramIs ==
  ASSUME NEW n \in 0 .. Length
  PROVE  /\ MachineType(Ideal[n]) /\ Ideal[n].s = 0 /\ Ideal[n].flt = NoFault /\ Ideal[n].out = {}
         /\ InstructionOf(n).op \in Instructions /\ BusAddress(Ideal[n].pc) \in DOMAIN Program
         /\ Ideal[n].pc \in Nat /\ Ideal[n].pc % 2 = 0 /\ Ideal[n].pc + 2 * Words(InstructionOf(n)) < 2^L
         /\ \A w \in 0 .. Words(InstructionOf(n)) - 1 :
              BusAddress(Ideal[n].pc + 2 * w) \in Mapped /\ Holding(Ideal[n].pc + 2 * w) = Holding(Ideal[n].pc)
         /\ \A r \in AccessesOf(n) : Fine(r)
         /\ Touched(n) \subseteq Ram /\ (InstructionOf(n).op # "jsr" => Touched(n) \subseteq Alive(Ideal[n]))
         /\ (InstructionOf(n).op = "jsr" => Touched(n) \cap Alive(Ideal[n]) = {})
         /\ Alive(Ideal[n]) \subseteq Ram
<1>1. RunsStraight(n) /\ TouchesItsOwn(n)
  BY ProgramAssumption
<1>2. Alive(Ideal[n]) \subseteq Ram
  BY AliveIsApart
<1>3. MachineType(Ideal[n]) /\ Ideal[n].s = 0 /\ Ideal[n].flt = NoFault /\ Ideal[n].out = {}
      /\ InstructionOf(n).op \in Instructions /\ BusAddress(Ideal[n].pc) \in DOMAIN Program
      /\ Ideal[n].pc % 2 = 0 /\ Ideal[n].pc + 2 * Words(InstructionOf(n)) < 2^L
  BY <1>1 DEF RunsStraight, Instructions
<1>4. \A w \in 0 .. Words(InstructionOf(n)) - 1 :
        BusAddress(Ideal[n].pc + 2 * w) \in Mapped /\ Holding(Ideal[n].pc + 2 * w) = Holding(Ideal[n].pc)
  BY <1>1 DEF RunsStraight
<1>5. Ideal[n].pc \in Nat
  BY <1>3, TypeOf, Widths DEF Values
<1>6. \A r \in AccessesOf(n) : Fine(r)
  BY <1>1 DEF TouchesItsOwn, Fine
<1>7. IF InstructionOf(n).op = "jsr" THEN Touched(n) \subseteq Ram \ Alive(Ideal[n]) ELSE Touched(n) \subseteq Alive(Ideal[n])
  BY <1>1 DEF TouchesItsOwn
<1> HIDE DEF AccessesOf, Touched
<1>8. Touched(n) \subseteq Ram /\ (InstructionOf(n).op # "jsr" => Touched(n) \subseteq Alive(Ideal[n]))
      /\ (InstructionOf(n).op = "jsr" => Touched(n) \cap Alive(Ideal[n]) = {})
  BY <1>2, <1>7
<1> QED
  BY <1>2, <1>3, <1>4, <1>5, <1>6, <1>8

\* An instruction has one to five words
LEMMA WordsAre == ASSUME NEW i PROVE Words(i) \in 1 .. 5
<1>1. \A size, op : ExtensionWords(size, op) \in {0, 1, 2}
  BY ExtensionsAre
<1>2. i.op = "move" => Words(i) \in 1 .. 5
  BY <1>1 DEF Words
<1>3. i.op = "bra" => Words(i) \in 1 .. 5
  BY DEF Words
<1>4. i.op \in {"tst", "addq"} => Words(i) \in 1 .. 5
  BY <1>1 DEF Words
<1>5. i.op \in {"jmp", "jsr"} => Words(i) \in 1 .. 5
  BY <1>1 DEF Words
<1>6. i.op \notin {"move", "bra", "tst", "addq", "jmp", "jsr"} => Words(i) \in 1 .. 5
  BY DEF Words
<1> QED
  BY <1>2, <1>3, <1>4, <1>5, <1>6

\* What is in memory of a word of an instruction's is in memory of all of them
LEMMA AllOrNothing ==
  ASSUME NEW n \in 0 .. Length, NEW c, Whole(c), NEW a, NEW b, BusAddress(a) \in Mapped, BusAddress(b) \in Mapped,
         Holding(a) = Holding(b)
  PROVE  BusAddress(a) \in c.out <=> BusAddress(b) \in c.out
<1>1. InSame(BusAddress(a), BusAddress(b))
  BY DEF InSame, Holding
<1> QED
  BY <1>1 DEF Whole

\* The program's instructions are in one segment each: where one word is in memory, all are
LEMMA CodeIsIn ==
  ASSUME NEW n \in 0 .. Length, NEW c, Whole(c), BusAddress(Ideal[n].pc) \notin c.out
  PROVE  CodeAt(c, Ideal[n].pc, Words(InstructionOf(n)))
<1> DEFINE words == Words(InstructionOf(n))
           pc == Ideal[n].pc
<1>1. words \in 1 .. 5 /\ pc \in Nat /\ pc % 2 = 0 /\ pc + 2 * words < 2^L
  BY WordsAre, ProgramIs
<1>2. \A w \in 0 .. words - 1 : BusAddress(pc + 2 * w) \in Mapped /\ Holding(pc + 2 * w) = Holding(pc)
  BY ProgramIs
<1>3. 0 \in 0 .. words - 1 /\ pc + 2 * 0 = pc
  BY <1>1
<1>4. \A w \in 0 .. words - 1 : Translates(c, pc + 2 * w)
  <2> TAKE w \in 0 .. words - 1
  <2>1. BusAddress(pc) \in Mapped
    BY <1>2, <1>3
  <2>2. BusAddress(pc + 2 * w) \in Mapped /\ Holding(pc + 2 * w) = Holding(pc)
    BY <1>2
  <2> DEFINE a == pc + 2 * w
  <2> HIDE DEF a, pc, words
  <2>3. BusAddress(a) \in c.out <=> BusAddress(pc) \in c.out
    BY <2>1, <2>2, AllOrNothing DEF a
  <2> QED BY <2>2, <2>3 DEF Translates, a, pc
<1> QED
  BY <1>1, <1>4 DEF CodeAt

\* Going back as far as forward is going nowhere, in 32 bits
LEMMA MaskBack ==
  ASSUME NEW v \in Values(L), NEW d \in 0 .. 6
  PROVE  Mask(L, Mask(L, v + d) - d) = v /\ Mask(L, Mask(L, v - d) + d) = v
<1> DEFINE p == 2^L
<1>1. p \in Nat /\ p >= 64 /\ v \in 0 .. p - 1
  <2>1. p = 2^W * 2^W /\ 2^W = 2^B * 2^B /\ 2^B \in Nat /\ 2^B >= 64
    BY Widths
  <2>2. \A x \in Nat : x >= 64 => x * x \in Nat /\ x * x >= 64
    OBVIOUS
  <2> QED BY <2>1, <2>2 DEF Values
<1> HIDE DEF p
<1>2. \A x \in 0 .. p - 1 : x % p = x
  BY <1>1
<1>3. \A x \in p .. p + p - 1 : x % p = x - p
  BY <1>1
<1>4. \A x \in Int : x < 0 /\ x >= -p => x % p = x + p
  BY <1>1
<1>5. (((v + d) % p) - d) % p = v
  <2>1. CASE v + d < p
    BY <1>1, <1>2, <2>1
  <2>2. CASE v + d >= p
    <3>1. (v + d) % p = v + d - p
      BY <1>1, <1>3, <2>2
    <3>2. v + d - p - d = v - p
      BY <1>1
    <3> QED BY <1>1, <1>4, <3>1, <3>2
  <2> QED BY <1>1, <2>1, <2>2
<1>6. (((v - d) % p) + d) % p = v
  <2>1. CASE v - d >= 0
    BY <1>1, <1>2, <2>1
  <2>2. CASE v - d < 0
    <3>1. (v - d) % p = v - d + p
      BY <1>1, <1>4, <2>2
    <3>2. v - d + p + d = v + p
      BY <1>1
    <3> QED BY <1>1, <1>3, <3>1, <3>2
  <2> QED BY <1>1, <2>1, <2>2
<1> QED
  BY <1>5, <1>6 DEF Mask, p

\* c is where the program is after n instructions, on a machine of its own
StandsAt(c, n) ==
  /\ MachineType(c) /\ c.flt = NoFault /\ c.da = Ideal[n].da /\ c.pc = Ideal[n].pc /\ SameFlags(Ideal[n], c)
  /\ Sees(c, n) /\ CodeAt(c, Ideal[n].pc, Words(InstructionOf(n)))

\* The undisturbed run stands where it is
LEMMA IdealStands == ASSUME NEW n \in 0 .. Length PROVE StandsAt(Ideal[n], n) /\ Touched(n) \cap Ideal[n].out = {}
<1>1. Whole(Ideal[n]) /\ BusAddress(Ideal[n].pc) \notin Ideal[n].out /\ Touched(n) \cap Ideal[n].out = {}
  <2>1. Ideal[n].out = {}
    BY ProgramIs
  <2> QED BY <2>1 DEF Whole
<1>2. CodeAt(Ideal[n], Ideal[n].pc, Words(InstructionOf(n)))
  BY <1>1, CodeIsIn
<1>3. MachineType(Ideal[n]) /\ Ideal[n].flt = NoFault
  BY ProgramIs
<1>4. SameFlags(Ideal[n], Ideal[n]) /\ Sees(Ideal[n], n)
  BY DEF SameFlags, Sees
<1> QED
  BY <1>1, <1>2, <1>3, <1>4 DEF StandsAt

\* A machine where the program is begins its instruction, every word of which is there
LEMMA BeginsAt ==
  ASSUME NEW n \in 0 .. Length, NEW c, StandsAt(c, n), NEW i, i = InstructionOf(n)
  PROVE  HasBegun(c, i, Begin(c, i)) /\ Good(Begin(c, i)) /\ CodeAt(c, c.pc + 2, Words(i) - 1)
<1> DEFINE words == Words(i)
           rest == words - 1
           pc == Ideal[n].pc
<1>1. words \in 1 .. 5 /\ pc \in Nat /\ pc % 2 = 0 /\ pc + 2 * words < 2^L /\ CodeAt(c, pc, words) /\ c.pc = pc /\ 2^L \in Nat
  BY WordsAre, ProgramIs, Widths DEF StandsAt
<1>2. MachineType(c) /\ c.flt = NoFault
  BY DEF StandsAt
<1>3. Translates(c, pc)
  <2>1. 0 \in 0 .. words - 1 /\ pc + 2 * 0 = pc
    BY <1>1
  <2> HIDE DEF words, pc
  <2>2. Translates(c, pc + 2 * 0)
    BY <1>1, <2>1 DEF CodeAt
  <2> QED BY <2>1, <2>2
<1>4. pc + 2 \in Values(L)
  <2> DEFINE p == 2^L
  <2>1. p \in Nat /\ pc + 2 * words < p
    BY <1>1
  <2> HIDE DEF p, pc, words
  <2>2. pc + 2 \in 0 .. p - 1
    BY <1>1, <2>1
  <2> QED BY <2>2 DEF Values, p
<1>5. HasBegun(c, i, Begin(c, i))
  <2> HIDE DEF pc
  <2> QED BY <1>1, <1>2, <1>3, <1>4, TypeAfterBegin
<1>6. CodeAt(c, pc + 2, rest)
  <2> DEFINE one == 1
  <2>1. rest \in Nat /\ one \in Nat /\ words = one + rest /\ pc + 2 * one = pc + 2
    BY <1>1
  <2> HIDE DEF rest, one, words, pc
  <2>2. CodeAt(c, pc, one + rest)
    BY <1>1, <2>1
  <2>3. CodeAt(c, pc + 2 * one, rest)
    BY <2>1, <2>2, CodeSplits
  <2> QED BY <2>1, <2>3
<1>7. Good(Begin(c, i))
  <2>1. Shape(Begin(c, i))
    BY <1>5, TypeHasShape DEF HasBegun
  <2> QED BY <1>2, <1>5, <2>1 DEF HasBegun, Good
<1> QED
  BY <1>1, <1>5, <1>6, <1>7

\* with what it needs, unless its operand is missing
LEMMA FootingHolds ==
  ASSUME NEW n \in 0 .. Length, NEW c, StandsAt(c, n), NEW i, i = InstructionOf(n), NEW b, b = Begin(Ideal[n], i),
         NEW k, k = Begin(c, i)
  PROVE  /\ Follows(Alive(Ideal[n]), {}, b, k, k) /\ CodeAt(k, k.pc, Words(i) - 1)
         /\ Touched(n) \cap c.out = {} => Footing(Alive(Ideal[n]), b, k, k, i)
         /\ Touched(n) = Footprint(b, i)
<1> DEFINE A == Alive(Ideal[n])
<1>1. StandsAt(Ideal[n], n) /\ Ideal[n].out = {} /\ A \subseteq Ram
  BY IdealStands, ProgramIs
<1>2. HasBegun(c, i, k) /\ Good(k) /\ CodeAt(c, c.pc + 2, Words(i) - 1)
  BY BeginsAt
<1>3. HasBegun(Ideal[n], i, b) /\ Good(b)
  BY <1>1, BeginsAt
<1>4. b.out = {} /\ k.da = b.da /\ k.pc = b.pc
  BY <1>1, <1>2, <1>3 DEF HasBegun, StandsAt
<1>5. SameFlags(b, k)
  <2>1. SameFlags(Ideal[n], b) /\ SameFlags(c, k) /\ SameFlags(Ideal[n], c)
    BY <1>2, <1>3 DEF HasBegun, Flags, SameFlags, StandsAt
  <2> QED BY <2>1 DEF SameFlags
<1>6. Rest(k, k)
  BY DEF Rest
<1>7. SameBytes(A, {}, b.mem, k.mem, k.mem)
  <2>1. k.mem = c.mem /\ b.mem = Ideal[n].mem
    BY <1>2, <1>3 DEF HasBegun
  <2> QED BY <1>1, <2>1 DEF SameBytes, StandsAt, Sees
<1>8. Follows(A, {}, b, k, k)
  BY <1>2, <1>3, <1>4, <1>5, <1>6, <1>7 DEF Follows
<1>9. CodeAt(k, k.pc, Words(i) - 1)
  <2>1. k.out = c.out /\ k.pc = c.pc + 2
    BY <1>2 DEF HasBegun
  <2> QED BY <1>2, <2>1 DEF CodeAt, Translates
<1>10. AccessesOf(n) = Accesses(b, i) /\ Touched(n) = Footprint(b, i)
  BY DEF AccessesOf, Touched, Footprint
<1>11. Touched(n) \cap c.out = {} => Footing(A, b, k, k, i)
  <2> SUFFICES ASSUME Touched(n) \cap c.out = {} PROVE Footing(A, b, k, k, i)
    OBVIOUS
  <2>1. \A r \in AccessesOf(n) : BytesOf(r) \subseteq Touched(n)
    BY DEF Touched
  <2>2. k.out = c.out
    BY <1>2 DEF HasBegun
  <2>3. /\ \A r \in AccessesOf(n) : Fine(r)
        /\ Touched(n) \subseteq Ram /\ (i.op # "jsr" => Touched(n) \subseteq A)
    BY ProgramIs
  <2> HIDE DEF A
  <2>4. \A r \in AccessesOf(n) : Fine(r) /\ BytesOf(r) \subseteq Ram \ k.out /\ (i.op # "jsr" => BytesOf(r) \subseteq A)
    BY <2>1, <2>2, <2>3
  <2> QED BY <1>8, <1>9, <1>10, <2>4 DEF Footing
<1> QED
  BY <1>8, <1>9, <1>10, <1>11

\* Flags compare one by one
LEMMA FlagsAreSame == ASSUME NEW b, NEW c PROVE Flags(c) = Flags(b) <=> SameFlags(b, c)
  BY DEF Flags, SameFlags

\* A user machine stands where the program does
LEMMA UserStands ==
  ASSUME NEW n \in 0 .. Length, NEW c, Common(c), User(c, n), BusAddress(c.pc) \notin c.out
  PROVE  StandsAt(c, n)
<1>1. Whole(c) /\ c.pc = Ideal[n].pc /\ c.da = Ideal[n].da /\ Sees(c, n) /\ SameFlags(Ideal[n], c)
  BY FlagsAreSame DEF User, OutOK
<1>2. CodeAt(c, Ideal[n].pc, Words(InstructionOf(n)))
  BY <1>1, CodeIsIn
<1> QED
  BY <1>1, <1>2 DEF StandsAt, Common

\* An instruction without a fault settles
LEMMA SettleOfGood == ASSUME NEW c, Good(c) PROVE Settle(c) = [c EXCEPT !.prev = c.ppc]
  BY DEF Settle, Good, NoFault

\* The next point of the undisturbed run
IsNext(n, x) ==
  /\ Good(x) /\ Good(Ideal[n + 1]) /\ Ideal[n + 1] = [x EXCEPT !.prev = x.ppc]
  /\ Ideal[n + 1].da = x.da /\ Ideal[n + 1].pc = x.pc /\ SameFlags(x, Ideal[n + 1]) /\ Ideal[n + 1].mem = x.mem

\* The undisturbed run does not fault: its next point is what the handler left
LEMMA NextIdeal ==
  ASSUME NEW n \in 0 .. Length, n < Length
  PROVE  IsNext(n, Execute(Begin(Ideal[n], InstructionOf(n)), InstructionOf(n)))
<1> DEFINE i == InstructionOf(n)
           b == Begin(Ideal[n], i)
           x == Execute(b, i)
           A == Alive(Ideal[n])
<1>1. Footing(A, b, b, b, i)
  BY IdealStands, FootingHolds
<1>2. i.op \in Instructions
  BY ProgramIs
<1>3. Follows(Known(A, i, Footprint(b, i)), Changed(i, Footprint(b, i)), x, x, b)
  BY <1>1, <1>2, FollowsExecute
<1>4. Good(x)
  BY <1>3 DEF Follows
<1>5. Ideal[n + 1] = Settle(x)
  <2>1. Ideal[n + 1] = Turn(Ideal[n])
    BY IdealIs
  <2> QED BY <2>1 DEF Turn, InstructionOf
<1> HIDE DEF x
<1>6. Settle(x) = [x EXCEPT !.prev = x.ppc]
  BY <1>4, SettleOfGood
<1> DEFINE y == Ideal[n + 1]
<1>7. y = [x EXCEPT !.prev = x.ppc]
  BY <1>5, <1>6
<1> HIDE DEF y
<1>8. y.da = x.da /\ y.pc = x.pc /\ SameFlags(x, y) /\ y.mem = x.mem /\ y.flt = NoFault /\ y.pending = FALSE
  BY <1>4, <1>7 DEF Good, Shape, SameFlags
<1>9. Shape(y)
  BY <1>4, <1>7, <1>8 DEF Good, Shape
<1> QED
  BY <1>4, <1>7, <1>8, <1>9 DEF Good, IsNext, x, y

(***************************************************************************)
(* The three faults a program can meet.                                    *)
(***************************************************************************)
\* What it takes to run the next instruction, or to fault recoverably
Reaches(c, n) == BusAddress(c.pc) \notin c.out \/ c.ir = Bare("rte") \/ Rewinds(c, n)

\* The bus has addresses of 32 bits at most
LEMMA BusIsTyped == ASSUME NEW a \in Int PROVE BusAddress(a) \in Values(L)
<1> DEFINE j == AddressBits
           k == L - AddressBits
           p == 2^j
           q == 2^k
<1>1. j \in 0 .. L /\ k \in 0 .. L /\ j + k = L /\ L \in Nat
  BY AddressBitsAssumption, ByteBitsAssumption, Widths DEF L
<1>2. p \in Nat \ {0} /\ q \in Nat \ {0}
  BY <1>1, PowersAssumption
<1>3. 2^L = p * q
  <2> HIDE DEF j, k
  <2>1. 2^(j + k) = 2^j * 2^k
    BY <1>1, PowerSplits
  <2> QED BY <1>1, <2>1
<1> HIDE DEF p, q
<1>4. a % p \in 0 .. p - 1
  BY <1>2
<1>5. p <= p * q /\ p * q \in Nat
  BY <1>2
<1>6. a % p \in 0 .. p * q - 1
  BY <1>2, <1>4, <1>5
<1> QED
  BY <1>3, <1>6 DEF BusAddress, Values, p, j

\* The machine a fetch fails on
LEMMA FetchFailsAt ==
  ASSUME NEW c, Common(c), c.s = 0, NEW k, FetchFails(c, k), BusAddress(c.pc) \in Values(L), c.pc + 2 \in Values(L)
  PROVE  /\ AtFault(c, k) /\ k.ir = c.ir /\ k.prev = c.prev /\ k.fetching = TRUE /\ k.pc = c.pc + 2
         /\ Mask(L, k.pc - 2) = c.pc /\ k.flt # NoFault
<1> DEFINE next == c.pc + 2
           flt == [kind |-> "bus", address |-> BusAddress(c.pc), mode |-> ModeRead, fc |-> DataSpace(c)]
<1>1. Shape(c) /\ Fields(c)
  BY TypeHasFields DEF Common
<1>2. Mask(L, c.pc + 2) = next
  BY MaskIs
<1>3. k = [c EXCEPT !.ppc = c.pc, !.save = c.da, !.fetching = TRUE, !.pc = next, !.flt = flt, !.pending = TRUE]
  BY <1>2 DEF FetchFails
<1>4. flt.kind = "bus" /\ flt.address \in Values(L) /\ flt.mode \in {ModeRead, ModeWrite} /\ flt.fc = 1
  BY DEF DataSpace
<1>5. flt # NoFault
  BY <1>4 DEF NoFault
<1> HIDE DEF next, flt
<1>6. /\ k.ppc = c.pc /\ k.save = c.da /\ k.fetching = TRUE /\ k.pc = next /\ k.flt = flt /\ k.pending = TRUE
      /\ k.da = c.da /\ k.base = c.base /\ k.prev = c.prev /\ k.x = c.x /\ k.n = c.n /\ k.z = c.z /\ k.v = c.v
  BY <1>1, <1>3 DEF Shape
<1>7. /\ k.c = c.c /\ k.s = c.s /\ k.t = c.t /\ k.mask = c.mask /\ k.level = c.level /\ k.nmi = c.nmi
      /\ k.stopped = c.stopped /\ k.run = c.run /\ k.instr = c.instr /\ k.mem = c.mem /\ k.ir = c.ir /\ k.out = c.out
  BY <1>1, <1>3 DEF Shape
<1>8. Shape(k)
  BY <1>1, <1>3, <1>6, <1>7, ZenonT(40) DEF Shape
<1>9. Fields(k)
  <2>1. /\ k.da \in [0 .. 15 -> Values(L)] /\ k.save \in [0 .. 15 -> Values(L)] /\ k.base \in [{0, 1} -> Values(L)]
        /\ k.pc \in Values(L) /\ k.ppc \in Values(L) /\ k.prev \in Values(L) /\ k.mem \in [Ram -> Values(B)]
    BY <1>1, <1>6, <1>7 DEF Fields, next
  <2>2. /\ k.x \in Flag /\ k.n \in Flag /\ k.z \in Flag /\ k.v \in Flag /\ k.c \in Flag /\ k.s \in Flag /\ k.t \in Flag
        /\ k.mask \in 0 .. 7 /\ k.level \in 0 .. 7
    BY <1>1, <1>6, <1>7 DEF Fields
  <2>3. /\ k.nmi \in BOOLEAN /\ k.stopped \in SUBSET {"stop", "halt"} /\ k.run \in {"normal", "berr", "wsf"}
        /\ k.instr \in {InstructionYes, InstructionNo} /\ k.fetching \in BOOLEAN /\ k.pending \in BOOLEAN
    BY <1>1, <1>6, <1>7 DEF Fields
  <2> QED BY <2>1, <2>2, <2>3 DEF Fields
<1>10. MachineType(k)
  BY <1>8, <1>9, FieldsMakeType
<1>11. AtFault(c, k)
  BY <1>4, <1>6, <1>7, <1>10 DEF AtFault, Flags
<1>12. Mask(L, k.pc - 2) = c.pc
  <2>1. c.pc \in Values(L) /\ c.pc \in Int
    BY <1>1, Widths DEF Fields, Values
  <2>2. next - 2 = c.pc
    BY <2>1 DEF next
  <2> QED BY <1>6, <2>1, <2>2, MaskIs
<1> QED
  BY <1>5, <1>6, <1>7, <1>11, <1>12 DEF next

\* The fetch of an instruction of the program
LEMMA FetchOfUser ==
  ASSUME NEW c, Common(c), NEW n \in 0 .. Length, User(c, n), BusAddress(c.pc) \in c.out
  PROVE  \E k : /\ Turn(c) = Settle(k)
                /\ AtFault(c, k) /\ k.ir = c.ir /\ k.prev = c.prev /\ k.fetching = TRUE
                /\ Mask(L, k.pc - 2) = c.pc /\ Holding(c.pc) # {}
<1> DEFINE i == InstructionOf(n)
           k == Begin(c, i)
<1>1. /\ c.pc = Ideal[n].pc /\ c.pc \in Nat /\ c.pc % 2 = 0 /\ i.op \in Instructions /\ c.s = 0
      /\ c.pc + 2 * Words(i) < 2^L /\ Words(i) \in 1 .. 5 /\ c.out \subseteq Paged
  BY ProgramIs, WordsAre, StackIsNotOut DEF User
<1>2. c.pc + 2 \in Values(L)
  <2> DEFINE p == 2^L
  <2>1. p \in Nat /\ c.pc + 2 * Words(i) < p
    BY <1>1, Widths
  <2> HIDE DEF p, i
  <2>2. c.pc + 2 \in 0 .. p - 1
    BY <1>1, <2>1
  <2> QED BY <2>2 DEF Values, p
<1>3. BusAddress(c.pc) \in Values(L)
  <2>1. c.pc \in Int
    BY <1>1
  <2> QED BY <2>1, BusIsTyped
<1>4. FetchFails(c, k)
  <2>1. Shape(c) /\ c.flt = NoFault /\ c.pending = FALSE /\ c.run # "wsf" /\ ~Translates(c, c.pc)
    BY TypeOf DEF Common, Translates
  <2> QED BY <1>1, <2>1, FetchFault
<1> HIDE DEF k, i
<1>5. /\ AtFault(c, k) /\ k.ir = c.ir /\ k.prev = c.prev /\ k.fetching = TRUE /\ Mask(L, k.pc - 2) = c.pc /\ k.flt # NoFault
  BY <1>1, <1>2, <1>3, <1>4, FetchFailsAt
<1>6. Turn(c) = Settle(k)
  <2>1. InstructionAt(c.pc) = i
    BY <1>1 DEF i, InstructionOf
  <2>2. Execute(k, i) = k
    BY <1>1, <1>5, FaultStays
  <2> QED BY <2>1, <2>2 DEF Turn, k
<1>7. Holding(c.pc) # {}
  BY <1>1 DEF Holding, Paged
<1> QED
  BY <1>5, <1>6, <1>7

\* The program's first fetch after the kernel has returned to it
LEMMA ReturnFaults ==
  ASSUME NEW c, Common(c), NEW n \in 0 .. Length, User(c, n), BusAddress(c.pc) \in c.out, c.ir = Bare("rte")
  PROVE  Common(Turn(c)) /\ Kernel(Turn(c), n, 1, 1)
<1>1. PICK k : /\ Turn(c) = Settle(k)
               /\ AtFault(c, k) /\ k.ir = c.ir /\ k.prev = c.prev /\ k.fetching = TRUE
               /\ Mask(L, k.pc - 2) = c.pc /\ Holding(c.pc) # {}
  BY FetchOfUser
<1>2. TellsForm(Bare("rte")) /\ Form(Bare("rte")) = "rte" /\ Rerun(k.ir) = [adj |-> 2, undo |-> FALSE]
  <2>1. TellsForm(Bare("rte"))
    BY KernelAssumption
  <2>2. Form(Bare("rte")) = "rte" /\ Rerun(Bare("rte")) = [adj |-> 2, undo |-> FALSE]
    BY DEF Form, Rerun, Bare
  <2> QED BY <1>1, <2>1, <2>2
<1>3. Encode(k.ir) \in Values(W) /\ FormOf(Encode(k.ir)) = "rte"
  BY <1>1, <1>2 DEF TellsForm
<1>4. Reruns(k) /\ FrameAddress(k) = c.pc /\ FrameUsp(k) = c.da[SP]
  BY <1>1, <1>2 DEF Reruns, FrameAddress, FrameUsp, AtFault
<1>5. FrameTells(k, n, "rte")
  BY <1>1, <1>4 DEF FrameTells, User
<1>6. c.base[1] = Top /\ Sees(c, n) /\ OutOK(c, n) /\ Flags(c) = Flags(Ideal[n]) /\ \A r \in 0 .. 14 : c.da[r] = Ideal[n].da[r]
  BY DEF User
<1>7. FrameTells(k, n, FormOf(Encode(k.ir)))
  BY <1>3, <1>5
<1> QED
  BY <1>1, <1>3, <1>6, <1>7, FaultLands

\* A gate's step undone: the stack pointer before it, from the one after it
LEMMA StackUndone ==
  ASSUME NEW n \in 0 .. Length, n < Length, NEW i, i = InstructionOf(n), Form(i) \in Gates
  PROVE  /\ SameFlags(Ideal[n], Ideal[n + 1]) /\ \A r \in 0 .. 14 : Ideal[n + 1].da[r] = Ideal[n].da[r]
         /\ i.op = "jsr" => Mask(L, Ideal[n + 1].da[SP] + 4) = Ideal[n].da[SP]
         /\ i.op = "rts" => Mask(L, Ideal[n + 1].da[SP] - 4) = Ideal[n].da[SP]
         /\ i.op = "jmp" => Ideal[n + 1].da[SP] = Ideal[n].da[SP]
<1> DEFINE b == Begin(Ideal[n], i)
           x == Execute(b, i)
           y == Ideal[n + 1]
           A == Alive(Ideal[n])
           D == Ideal[n].da
<1>1. Footing(A, b, b, b, i)
  BY IdealStands, FootingHolds
<1>2. GateMoves(b, i, x)
  BY <1>1, GateIs
<1>3. y.da = x.da /\ SameFlags(x, y)
  BY NextIdeal DEF IsNext
<1>4. b.da = D /\ SameFlags(Ideal[n], b)
  <2>1. HasBegun(Ideal[n], i, b)
    BY IdealStands, BeginsAt
  <2> QED BY <2>1 DEF HasBegun, SameFlags, Flags
<1>5. D \in [0 .. 15 -> Values(L)]
  BY ProgramIs, TypeOf
<1> HIDE DEF b, x, y, D
<1>6. SameFlags(Ideal[n], y)
  BY <1>2, <1>3, <1>4 DEF GateMoves, SameFlags
<1>7. y.da = [D EXCEPT ![SP] = SpAfter(b, i)]
  BY <1>2, <1>3, <1>4 DEF GateMoves
<1>8. y.da[SP] = SpAfter(b, i) /\ \A r \in 0 .. 14 : y.da[r] = D[r]
  BY <1>5, <1>7 DEF SP
<1>9. D[SP] \in Values(L) /\ 4 \in 0 .. 6
  BY <1>5 DEF SP
<1>10. i.op = "jsr" => Mask(L, y.da[SP] + 4) = D[SP]
  BY <1>4, <1>8, <1>9, MaskBack DEF SpAfter
<1>11. i.op = "rts" => Mask(L, y.da[SP] - 4) = D[SP]
  BY <1>4, <1>8, <1>9, MaskBack DEF SpAfter
<1>12. i.op = "jmp" => y.da[SP] = D[SP]
  BY <1>4, <1>8 DEF SpAfter
<1> QED
  BY <1>6, <1>8, <1>10, <1>11, <1>12 DEF y, D

\* The fetch of a gate's target fails: the kernel is told of the gate
LEMMA GateFaults ==
  ASSUME NEW c, Common(c), NEW n \in 0 .. Length, User(c, n), BusAddress(c.pc) \in c.out, Rewinds(c, n)
  PROVE  n - 1 \in 0 .. Length /\ Common(Turn(c)) /\ Kernel(Turn(c), n - 1, 1, 1)
<1> DEFINE p == n - 1
           i == InstructionOf(p)
           f == Form(i)
<1>1. p \in 0 .. Length /\ p < Length /\ p + 1 = n
  BY ExecuteAssumption DEF Rewinds
<1>2. c.ir = i /\ c.prev = Ideal[p].pc /\ f \in Gates /\ Sees(c, p)
  BY DEF Rewinds
<1>3. PICK k : /\ Turn(c) = Settle(k)
               /\ AtFault(c, k) /\ k.ir = c.ir /\ k.prev = c.prev /\ k.fetching = TRUE
               /\ Mask(L, k.pc - 2) = c.pc /\ Holding(c.pc) # {}
  BY FetchOfUser
<1> HIDE DEF i, p
<1>4. /\ SameFlags(Ideal[p], Ideal[n]) /\ \A r \in 0 .. 14 : Ideal[n].da[r] = Ideal[p].da[r]
      /\ i.op = "jsr" => Mask(L, Ideal[n].da[SP] + 4) = Ideal[p].da[SP]
      /\ i.op = "rts" => Mask(L, Ideal[n].da[SP] - 4) = Ideal[p].da[SP]
      /\ i.op = "jmp" => Ideal[n].da[SP] = Ideal[p].da[SP]
  BY <1>1, <1>2, StackUndone DEF i
<1>5. /\ i.op \in {"jsr", "jmp", "rts"} /\ Rerun(i).adj = Distance[f] /\ Rerun(i).adj \in {2, 4, 6} /\ Undoes(i)
      /\ (f = "rts" <=> i.op = "rts") /\ f \in DOMAIN Distance /\ f # "rte" /\ f # "other"
  BY <1>2, GateForms
<1>6. Encode(i) \in Values(W) /\ FormOf(Encode(i)) = f
  <2>1. BusAddress(Ideal[p].pc) \in DOMAIN Program
    BY <1>1, ProgramIs
  <2>2. i.op # "rte"
    BY <1>5
  <2>3. i \in {Program[a] : a \in DOMAIN Program}
    BY <2>1, <2>2 DEF i, InstructionOf, InstructionAt, Bare
  <2>4. TellsForm(i)
    BY <2>3, KernelAssumption
  <2> QED BY <1>5, <2>4 DEF TellsForm
<1>7. Reruns(k) /\ k.ir = i
  BY <1>2, <1>3, <1>5 DEF Reruns
<1>8. FrameAddress(k) = c.pc
  BY <1>3, <1>7 DEF FrameAddress
<1>9. Mask(L, FramePc(k) - Distance[f]) = Ideal[p].pc
  <2> DEFINE d == Rerun(i).adj
             v == Ideal[p].pc
  <2>1. d \in 0 .. 6 /\ v \in Values(L) /\ Distance[f] = d
    BY <1>1, <1>5, ProgramIs, TypeOf
  <2>2. FramePc(k) = Mask(L, v + d)
    BY <1>2, <1>3, <1>7 DEF FramePc
  <2> HIDE DEF d, v
  <2> QED BY <2>1, <2>2, MaskBack DEF v
<1>10. (IF f = "rts" THEN Mask(L, FrameUsp(k) - 4) ELSE FrameUsp(k)) = Ideal[p].da[SP]
  <2>1. k.save = Ideal[n].da
    BY <1>3 DEF AtFault, User
  <2>2. CASE i.op = "jsr"
    <3>1. FrameUsp(k) = Mask(L, Ideal[n].da[SP] + 4)
      BY <1>5, <1>7, <2>1, <2>2 DEF FrameUsp, Undoes
    <3> QED BY <1>4, <1>5, <2>2, <3>1
  <2>3. CASE i.op # "jsr"
    <3>1. FrameUsp(k) = Ideal[n].da[SP]
      BY <1>5, <1>7, <2>1, <2>3 DEF FrameUsp, Undoes
    <3> QED BY <1>4, <1>5, <2>3, <3>1
  <2> QED BY <2>2, <2>3
<1>11. FrameTells(k, p, f)
  BY <1>3, <1>5, <1>8, <1>9, <1>10 DEF FrameTells
<1>12. FrameTells(k, p, FormOf(Encode(k.ir))) /\ Encode(k.ir) \in Values(W)
  BY <1>6, <1>7, <1>11
<1>13. OutOK(c, p)
  <2>1. Probed(p) \subseteq Probed(n)
    <3>1. 0 .. p - 1 \subseteq 0 .. n - 1
      BY <1>1
    <3> QED BY <3>1 DEF Probed
  <2> QED BY <2>1 DEF User, OutOK
<1>14. Flags(c) = Flags(Ideal[p]) /\ \A r \in 0 .. 14 : c.da[r] = Ideal[p].da[r]
  BY <1>4, FlagsAreSame DEF User
<1>15. c.base[1] = Top
  BY DEF User
<1>16. Common(Settle(k)) /\ Kernel(Settle(k), p, 1, 1)
  BY <1>1, <1>2, <1>3, <1>12, <1>13, <1>14, <1>15, FaultLands
<1> QED
  BY <1>1, <1>3, <1>16 DEF p

(***************************************************************************)
(* A probe of what is missing.                                             *)
(***************************************************************************)
\* A register moves by a number of bytes
LEMMA StridesAre == ASSUME NEW size \in Sizes, NEW r PROVE Stride(size, r) \in Int
<1>1. size \in Nat
  BY Widths DEF Sizes
<1>2. Bytes(size) \in Int
  BY <1>1, ByteBitsAssumption DEF Bytes
<1> QED
  BY <1>2 DEF Stride

\* The machine an address leaves, typed
Stepped(c, k) == \E D \in [0 .. 15 -> Values(L)], p \in Values(L) : k = [c EXCEPT !.da = D, !.pc = p]

\* An effective address leaves a machine of the right type
LEMMA EaTyped ==
  ASSUME NEW c, MachineType(c), Good(c), NEW size \in Sizes, NEW op, CodeAt(c, c.pc, ExtensionWords(size, op))
  PROVE  Stepped(c, Ea(c, size, op).m)
<1>1. Shape(c) /\ c.da \in [0 .. 15 -> Values(L)] /\ c.pc \in Values(L)
  BY TypeOf
<1> DEFINE s == Stride(size, op.reg)
           words == ExtensionWords(size, op)
           up == Mask(L, c.da[op.reg] + s)
           down == Mask(L, c.da[op.reg] - s)
<1>2. c = [c EXCEPT !.da = c.da, !.pc = c.pc]
  BY <1>1 DEF Shape
<1>3. CASE op.mode = "pi"
  <2>1. Ea(c, size, op).m = [c EXCEPT !.da[op.reg] = up]
    BY <1>3 DEF Ea, SetReg, Go, Good
  <2> DEFINE D == [c.da EXCEPT ![op.reg] = up]
  <2>2. Ea(c, size, op).m = [c EXCEPT !.da = D]
    BY <2>1
  <2>3. op.reg \in 0 .. 15 => up \in Values(L)
    <3>1. op.reg \in 0 .. 15 => c.da[op.reg] + s \in Int
      <4>1. s \in Int
        BY StridesAre
      <4>2. op.reg \in 0 .. 15 => c.da[op.reg] \in Int
        BY <1>1, Widths DEF Values
      <4> HIDE DEF s
      <4> QED BY <4>1, <4>2
    <3> HIDE DEF s
    <3> QED BY <3>1, MasksAreTyped
  <2>4. D \in [0 .. 15 -> Values(L)]
    <3> HIDE DEF up
    <3> QED BY <1>1, <2>3
  <2> HIDE DEF D
  <2>5. [c EXCEPT !.da = D] = [c EXCEPT !.da = D, !.pc = c.pc]
    BY <1>1 DEF Shape
  <2> QED BY <1>1, <2>2, <2>4, <2>5 DEF Stepped
<1>4. CASE op.mode = "pd"
  <2>1. Ea(c, size, op).m = [c EXCEPT !.da[op.reg] = down]
    BY <1>4 DEF Ea, SetReg, Go, Good
  <2> DEFINE D == [c.da EXCEPT ![op.reg] = down]
  <2>2. Ea(c, size, op).m = [c EXCEPT !.da = D]
    BY <2>1
  <2>3. op.reg \in 0 .. 15 => down \in Values(L)
    <3>1. op.reg \in 0 .. 15 => c.da[op.reg] - s \in Int
      <4>1. s \in Int
        BY StridesAre
      <4>2. op.reg \in 0 .. 15 => c.da[op.reg] \in Int
        BY <1>1, Widths DEF Values
      <4> HIDE DEF s
      <4> QED BY <4>1, <4>2
    <3> HIDE DEF s
    <3> QED BY <3>1, MasksAreTyped
  <2>4. D \in [0 .. 15 -> Values(L)]
    <3> HIDE DEF down
    <3> QED BY <1>1, <2>3
  <2> HIDE DEF D
  <2>5. [c EXCEPT !.da = D] = [c EXCEPT !.da = D, !.pc = c.pc]
    BY <1>1 DEF Shape
  <2> QED BY <1>1, <2>2, <2>4, <2>5 DEF Stepped
<1>5. CASE op.mode \notin {"pi", "pd"}
  <2> DEFINE p == c.pc + 2 * words
  <2>1. Ea(c, size, op).m = Fetch(c, words)
    BY <1>5 DEF Ea, Extended
  <2>2. words \in {0, 1, 2}
    BY ExtensionsAre
  <2>3. Fetch(c, words) = [c EXCEPT !.pc = p]
    <3> HIDE DEF words
    <3> QED BY <2>2, FetchIs DEF words
  <2>4. p \in Values(L)
    <3> DEFINE q == 2^L
    <3>1. q \in Nat /\ c.pc \in Nat /\ p < q
      BY Widths DEF CodeAt
    <3> HIDE DEF q, words
    <3>2. p \in 0 .. q - 1
      BY <2>2, <3>1
    <3> QED BY <3>2 DEF Values, q
  <2> HIDE DEF p, words
  <2>5. [c EXCEPT !.pc = p] = [c EXCEPT !.da = c.da, !.pc = p]
    BY <1>1 DEF Shape
  <2> QED BY <1>1, <2>1, <2>3, <2>4, <2>5 DEF Stepped
<1> QED
  BY <1>3, <1>4, <1>5

\* What is out is of whole words
WordsOut(c) == \A a \in Mapped : a % 2 = 0 => (a \in c.out <=> a + 1 \in c.out)

\* The two bytes of a word are both out, or neither is
LEMMA WholeWords == ASSUME NEW c, Whole(c) PROVE WordsOut(c)
<1> SUFFICES ASSUME NEW a \in Mapped, a % 2 = 0 PROVE a \in c.out <=> a + 1 \in c.out
  BY DEF WordsOut
<1>1. InSame(a, a + 1)
  BY KernelAssumption DEF InSame
<1>2. a + 1 \in Mapped
  BY MemoryAssumption DEF Mapped
<1> QED
  BY <1>1, <1>2 DEF Whole

\* A pulse of the bus error line leaves the first fault
LEMMA PulsedIs ==
  ASSUME NEW c, Shape(c), NEW a, NEW mode
  PROVE  PulseBusError(c, a, mode).flt # NoFault
<1>1. PulseBusError(c, a, mode).flt.kind = "bus"
  BY DEF PulseBusError, Shape
<1> QED
  BY <1>1 DEF NoFault

\* A read of a missing operand faults at one of its bytes
LEMMA ProbeRead ==
  ASSUME NEW c, Good(c), c.run # "wsf", WordsOut(c), NEW a \in Int, NEW size \in Sizes, size # B => a % 2 = 0,
         NEW r, r = [a |-> a, size |-> size], BytesOf(r) \subseteq Ram, BytesOf(r) \cap c.out # {}, NEW s
  PROVE  \E e \in Int : BusAddress(e) \in BytesOf(r) \cap c.out /\ ReadIn(c, size, a, s).m = PulseBusError(c, e, ModeRead)
<1> DEFINE n == FirstPart(size)
           k == SecondPart(size)
           nothing == [m |-> c, v |-> 0]
           first == ReadPart(nothing, a, n)
           next == a + 2
<1>1. n \in {1, 2} /\ k \in {0, 2} /\ BytesOf(r) = PartBytes(a, n) \cup PartBytes(next, k)
  BY BytesAre
<1>2. k = 2 => size # B
  BY Widths DEF SecondPart, Sizes
<1>3. n = 2 => size # B
  BY Widths DEF FirstPart, Sizes
<1>4. ReadIn(c, size, a, s) = ReadPart(first, next, k)
  BY DEF ReadIn, Good
<1> HIDE DEF n, k
<1>5. BusAddress(a) \in BytesOf(r) /\ (k = 2 => BusAddress(next) \in BytesOf(r))
  BY <1>1 DEF PartBytes, WordBytes
<1>6. ASSUME NEW d, BusAddress(d) \in Ram
      PROVE  Translates(c, d) <=> BusAddress(d) \notin c.out
  BY <1>6 DEF Translates, Mapped
<1>7. ASSUME NEW q, q.m = c, NEW d, BusAddress(d) \in c.out, NEW j \in {1, 2}
      PROVE  ReadPart(q, d, j).m = PulseBusError(c, d, ModeRead)
  <2>1. ~Translates(c, d)
    BY <1>7 DEF Translates
  <2>2. BusFault(c, d, ModeRead) = PulseBusError(c, d, ModeRead)
    BY DEF BusFault, Good
  <2>3. q.m.flt = NoFault /\ j # 0
    BY <1>7 DEF Good
  <2> QED BY <1>7, <2>1, <2>2, <2>3 DEF ReadPart
<1>8. CASE BusAddress(a) \in c.out
  <2>1. first.m = PulseBusError(c, a, ModeRead)
    <3>1. nothing.m = c
      OBVIOUS
    <3> HIDE DEF nothing
    <3> QED BY <1>1, <1>7, <1>8, <3>1
  <2>2. first.m.flt # NoFault
    BY <2>1, PulsedIs DEF Good
  <2> HIDE DEF first
  <2>3. ReadPart(first, next, k) = first
    BY <2>2 DEF ReadPart
  <2> QED BY <1>4, <1>5, <1>8, <2>1, <2>3
<1>9. CASE BusAddress(a) \notin c.out
  <2>1. Translates(c, a)
    BY <1>5, <1>6, <1>9
  <2>2. first.m = c
    <3> DEFINE zero == 0
    <3> HIDE DEF zero
    <3>1. ReadPart([m |-> c, v |-> zero], a, n) = [m |-> c, v |-> zero * 2^(B * n) + ValueAt(c, BusAddress(a), n)]
      BY <1>1, <2>1, PartRead
    <3>2. ReadPart([m |-> c, v |-> zero], a, n).m = c
      BY <3>1
    <3> QED BY <3>2 DEF zero
  <2>3. PartBytes(a, n) \cap c.out = {}
    <3>1. CASE n = 1
      BY <1>9, <3>1 DEF PartBytes
    <3>2. CASE n = 2
      <4>1. a % 2 = 0
        BY <1>3, <3>2
      <4>2. BusAddress(a) % 2 = 0 /\ BusAddress(a) \in Mapped
        BY <1>5, <4>1, EvenOnBus DEF Mapped
      <4>3. BusAddress(a) + 1 \notin c.out
        BY <1>9, <4>2 DEF WordsOut
      <4> QED BY <1>9, <3>2, <4>3 DEF PartBytes, WordBytes
    <3> QED BY <1>1, <3>1, <3>2
  <2>4. k = 2
    BY <1>1, <2>3 DEF PartBytes
  <2>5. next % 2 = 0 /\ next \in Int
    BY <1>2, <2>4
  <2>6. BusAddress(next) % 2 = 0 /\ BusAddress(next) \in Mapped
    BY <1>5, <2>4, <2>5, EvenOnBus DEF Mapped
  <2>7. PartBytes(next, k) \cap c.out # {}
    BY <1>1, <2>3
  <2>8. BusAddress(next) \in c.out
    <3>1. BusAddress(next) \in c.out \/ BusAddress(next) + 1 \in c.out
      BY <2>4, <2>7 DEF PartBytes, WordBytes
    <3> QED BY <2>6, <3>1 DEF WordsOut
  <2> HIDE DEF first, next
  <2>9. ReadPart(first, next, k).m = PulseBusError(c, next, ModeRead)
    BY <1>7, <2>2, <2>4, <2>8
  <2> QED BY <1>4, <1>5, <2>4, <2>5, <2>8, <2>9
<1> QED
  BY <1>8, <1>9

\* The faulting machine is a machine
LEMMA ShapeOfFailed ==
  ASSUME NEW k, Shape(k), NEW D, D = [r \in 0 .. 15 |-> D[r]], NEW p, NEW flt, NEW z,
         z = [k EXCEPT !.da = D, !.pc = p, !.flt = flt, !.pending = TRUE]
  PROVE  Shape(z)
<1>1. z.da = D /\ z.base = k.base /\ z.mem = k.mem
  BY DEF Shape
<1> QED
  BY <1>1 DEF Shape

\* The machine a probe fails on
ProbeFailed(c, i, e, z) ==
  /\ AtFault(c, z) /\ z.ir = i /\ z.fetching = FALSE /\ z.ppc = c.pc /\ z.flt.address = BusAddress(e) /\ z.flt # NoFault

\* and of the right type
LEMMA ProbeFailsAt ==
  ASSUME NEW c, Common(c), c.s = 0, NEW i, NEW k, HasBegun(c, i, k), NEW D \in [0 .. 15 -> Values(L)], NEW p \in Values(L),
         NEW e \in Int, NEW y, y = [k EXCEPT !.da = D, !.pc = p], NEW z, z = PulseBusError(y, e, ModeRead)
  PROVE  ProbeFailed(c, i, e, z)
<1> DEFINE flt == [kind |-> "bus", address |-> BusAddress(e), mode |-> ModeRead, fc |-> DataSpace(y)]
<1>1. Shape(k) /\ Fields(k)
  BY TypeHasFields DEF HasBegun
<1>2. y.s = 0
  BY <1>1 DEF HasBegun, Shape
<1>3. z = [k EXCEPT !.da = D, !.pc = p, !.flt = flt, !.pending = TRUE]
  <2>1. z = [y EXCEPT !.flt = flt, !.pending = TRUE]
    BY DEF PulseBusError
  <2> HIDE DEF flt
  <2> QED BY <1>1, <2>1 DEF Shape
<1>4. flt.kind = "bus" /\ flt.address \in Values(L) /\ flt.mode \in {ModeRead, ModeWrite} /\ flt.fc = 1 /\ flt.address = BusAddress(e)
  <2>1. BusAddress(e) \in Values(L)
    BY BusIsTyped
  <2> QED BY <1>2, <2>1 DEF DataSpace
<1>5. flt # NoFault
  BY <1>4 DEF NoFault
<1> HIDE DEF flt
<1>6. /\ z.da = D /\ z.pc = p /\ z.flt = flt /\ z.pending = TRUE /\ z.ppc = k.ppc /\ z.save = k.save /\ z.fetching = k.fetching
      /\ z.base = k.base /\ z.prev = k.prev /\ z.x = k.x /\ z.n = k.n /\ z.z = k.z /\ z.v = k.v
  <2>1. z.da = D /\ z.pc = p /\ z.flt = flt /\ z.pending = TRUE
    BY <1>1, <1>3 DEF Shape
  <2>2. z.ppc = k.ppc /\ z.save = k.save /\ z.fetching = k.fetching /\ z.base = k.base /\ z.prev = k.prev
    BY <1>1, <1>3 DEF Shape
  <2>3. z.x = k.x /\ z.n = k.n /\ z.z = k.z /\ z.v = k.v
    BY <1>1, <1>3 DEF Shape
  <2> QED BY <2>1, <2>2, <2>3
<1>7. /\ z.c = k.c /\ z.s = k.s /\ z.t = k.t /\ z.mask = k.mask /\ z.level = k.level /\ z.nmi = k.nmi
      /\ z.stopped = k.stopped /\ z.run = k.run /\ z.instr = k.instr /\ z.mem = k.mem /\ z.ir = k.ir /\ z.out = k.out
  BY <1>1, <1>3, ZenonT(40) DEF Shape
<1>8. Shape(z)
  <2>1. D = [r \in 0 .. 15 |-> D[r]]
    OBVIOUS
  <2> QED BY <1>1, <1>3, <2>1, ShapeOfFailed
<1>9. Fields(z)
  <2>1. /\ z.da \in [0 .. 15 -> Values(L)] /\ z.save \in [0 .. 15 -> Values(L)] /\ z.base \in [{0, 1} -> Values(L)]
        /\ z.pc \in Values(L) /\ z.ppc \in Values(L) /\ z.prev \in Values(L) /\ z.mem \in [Ram -> Values(B)]
    BY <1>1, <1>6, <1>7 DEF Fields
  <2>2. /\ z.x \in Flag /\ z.n \in Flag /\ z.z \in Flag /\ z.v \in Flag /\ z.c \in Flag /\ z.s \in Flag /\ z.t \in Flag
        /\ z.mask \in 0 .. 7 /\ z.level \in 0 .. 7
    BY <1>1, <1>6, <1>7 DEF Fields
  <2>3. /\ z.nmi \in BOOLEAN /\ z.stopped \in SUBSET {"stop", "halt"} /\ z.run \in {"normal", "berr", "wsf"}
        /\ z.instr \in {InstructionYes, InstructionNo} /\ z.fetching \in BOOLEAN /\ z.pending \in BOOLEAN
    BY <1>1, <1>6, <1>7 DEF Fields
  <2> QED BY <2>1, <2>2, <2>3 DEF Fields
<1>10. MachineType(z)
  BY <1>8, <1>9, FieldsMakeType
<1>11. /\ k.s = 0 /\ k.base = c.base /\ k.out = c.out /\ k.mem = c.mem /\ k.nmi = c.nmi /\ k.stopped = c.stopped
       /\ k.level = c.level /\ k.save = c.da /\ k.ppc = c.pc /\ k.ir = i /\ k.fetching = FALSE /\ Flags(k) = Flags(c)
  BY DEF HasBegun
<1>12. Flags(z) = Flags(k)
  BY <1>6, <1>7 DEF Flags
<1>13. AtFault(c, z)
  BY <1>4, <1>6, <1>7, <1>10, <1>11, <1>12 DEF AtFault
<1> QED
  BY <1>4, <1>5, <1>6, <1>7, <1>11, <1>13 DEF ProbeFailed

\* A TST of what is missing is told as a TST, two bytes past its own
LEMMA ProbeFaults ==
  ASSUME NEW c, Common(c), NEW n \in 0 .. Length, User(c, n), BusAddress(c.pc) \notin c.out, InstructionOf(n).op = "tst",
         Touched(n) \cap c.out # {}
  PROVE  Common(Turn(c)) /\ Kernel(Turn(c), n, 1, 1)
<1> DEFINE i == InstructionOf(n)
           b == Begin(Ideal[n], i)
           k == Begin(c, i)
           A == Alive(Ideal[n])
           size == i.size
           op == i.ea
           words == ExtensionWords(size, op)
           x == Ea(b, size, op)
           y == Ea(k, size, op)
           a == x.v
           r == [a |-> a, size |-> size]
           s == SpaceOf(k, op)
           q == ReadIn(y.m, size, a, s)
<1>1. StandsAt(c, n) /\ i.op = "tst"
  BY UserStands
<1>2. HasBegun(c, i, k) /\ Good(k)
  BY <1>1, BeginsAt
<1>3. Follows(A, {}, b, k, k) /\ CodeAt(k, k.pc, Words(i) - 1) /\ Touched(n) = Footprint(b, i)
  BY <1>1, FootingHolds
<1>4. Words(i) - 1 = words /\ words \in {0, 1, 2}
  BY <1>1, ExtensionsAre DEF Words
<1>5. op.mode \notin {"d", "a", "i"} /\ Accesses(b, i) = {r}
  <2>1. Accesses(b, i) = Pointed(b, size, op, {"d", "a", "i"})
    BY <1>1 DEF Accesses
  <2>2. Accesses(b, i) # {}
    BY <1>3 DEF Footprint
  <2> QED BY <2>1, <2>2 DEF Pointed
<1>6. Fine(r) /\ BytesOf(r) = Touched(n) /\ BytesOf(r) \subseteq Ram
  <2>1. AccessesOf(n) = {r}
    BY <1>5 DEF AccessesOf
  <2>2. \A w \in AccessesOf(n) : Fine(w)
    BY ProgramIs
  <2>3. Touched(n) = BytesOf(r)
    BY <2>1 DEF Touched
  <2>4. Touched(n) \subseteq Ram
    BY ProgramIs
  <2> HIDE DEF r
  <2> QED BY <2>1, <2>2, <2>3, <2>4
<1>7. size \in Sizes /\ a \in Int /\ (size # B => a % 2 = 0)
  <2>1. r.a = a /\ r.size = size
    OBVIOUS
  <2> HIDE DEF r
  <2> QED BY <1>6, <2>1, Widths DEF Fine, Values
<1>8. Follows(A, {}, x.m, y.m, k) /\ y.v = a
  <2>1. CodeAt(k, k.pc, words)
    BY <1>3, <1>4
  <2>2. SameOperand(A, {}, x, y, k, k.pc + 2 * words)
    <3> HIDE DEF b, k, words, A
    <3> QED BY <1>3, <2>1, FollowsEa DEF words
  <2> QED BY <2>2 DEF SameOperand
<1>9. PICK D \in [0 .. 15 -> Values(L)], p \in Values(L) : y.m = [k EXCEPT !.da = D, !.pc = p]
  <2>1. CodeAt(k, k.pc, words) /\ MachineType(k)
    BY <1>2, <1>3, <1>4 DEF HasBegun
  <2>2. size \in Sizes /\ Good(k)
    BY <1>2, <1>7
  <2> HIDE DEF k, size, op
  <2>3. Stepped(k, Ea(k, size, op).m)
    BY <2>1, <2>2, EaTyped DEF words
  <2> QED BY <2>3 DEF Stepped
<1>10. Good(y.m) /\ y.m.out = c.out /\ y.m.run # "wsf"
  <2>1. Good(y.m) /\ y.m.out = k.out /\ y.m.run = k.run
    BY <1>8 DEF Follows, Rest
  <2>2. k.out = c.out /\ k.run = c.run
    BY <1>2 DEF HasBegun
  <2> HIDE DEF y, k
  <2> QED BY <2>1, <2>2 DEF Common
<1>11. WordsOut(y.m)
  <2>1. WordsOut(c)
    BY WholeWords DEF User, OutOK
  <2> HIDE DEF y
  <2> QED BY <1>10, <2>1 DEF WordsOut
<1>12. PICK e \in Int : BusAddress(e) \in BytesOf(r) \cap c.out /\ q.m = PulseBusError(y.m, e, ModeRead)
  <2> DEFINE f == y.m
  <2>1. Good(f) /\ f.run # "wsf" /\ WordsOut(f) /\ f.out = c.out
    BY <1>10, <1>11
  <2>2. BytesOf(r) \subseteq Ram /\ BytesOf(r) \cap f.out # {} /\ r = [a |-> a, size |-> size]
    BY <1>6, <2>1
  <2> HIDE DEF f, r, a, s, size
  <2>3. \E e \in Int : BusAddress(e) \in BytesOf(r) \cap f.out /\ ReadIn(f, size, a, s).m = PulseBusError(f, e, ModeRead)
    BY <1>7, <2>1, <2>2, ProbeRead
  <2> QED BY <2>1, <2>3 DEF f
<1> DEFINE z == PulseBusError(y.m, e, ModeRead)
<1>13. /\ AtFault(c, z) /\ z.ir = i /\ z.fetching = FALSE /\ z.ppc = c.pc /\ z.flt.address = BusAddress(e) /\ z.flt # NoFault
  <2> DEFINE f == y.m
  <2>1. f = [k EXCEPT !.da = D, !.pc = p] /\ c.s = 0 /\ D \in [0 .. 15 -> Values(L)] /\ p \in Values(L) /\ e \in Int
    BY <1>9, <1>12 DEF User
  <2>2. HasBegun(c, i, k) /\ z = PulseBusError(f, e, ModeRead)
    BY <1>2
  <2> HIDE DEF f, k, i, z
  <2>3. ProbeFailed(c, i, e, z)
    BY <2>1, <2>2, ProbeFailsAt
  <2> QED BY <2>3 DEF ProbeFailed
<1>14. Execute(k, i) = z
  <2>1. Execute(k, i) = Logic(Oper(k, size, op).m, size, Oper(k, size, op).v)
    BY <1>1, HandlerIs DEF Tst, With
  <2>2. Oper(k, size, op) = q
    <3>1. Oper(k, size, op) = ReadIn(y.m, size, y.v, s)
      <4> HIDE DEF k, size
      <4> QED BY <1>5 DEF Oper, With
    <3> HIDE DEF y, a
    <3> QED BY <1>8, <3>1
  <2> HIDE DEF q, k, z, i
  <2>3. Logic(q.m, size, q.v) = q.m
    BY <1>12, <1>13 DEF Logic, Go, z
  <2> QED BY <1>12, <2>1, <2>2, <2>3 DEF z
<1>15. Turn(c) = Settle(z)
  <2>1. InstructionAt(c.pc) = i
    BY DEF InstructionOf, User
  <2> HIDE DEF z, i
  <2> QED BY <1>14, <2>1 DEF Turn, k
<1> HIDE DEF z, k, q, y, x, r, s
<1>16. Form(i) = "tst" /\ Encode(i) \in Values(W) /\ FormOf(Encode(i)) = "tst"
  <2>1. BusAddress(Ideal[n].pc) \in DOMAIN Program
    BY ProgramIs
  <2>2. i \in {Program[v] : v \in DOMAIN Program}
    BY <1>1, <2>1 DEF InstructionOf, InstructionAt, Bare
  <2>3. TellsForm(i)
    BY <2>2, KernelAssumption
  <2>4. Form(i) = "tst"
    <3> HIDE DEF i
    <3> QED BY <1>1 DEF Form
  <2> QED BY <2>3, <2>4 DEF TellsForm
<1> HIDE DEF i
<1>17. FrameTells(z, n, "tst")
  <2>1. ~Reruns(z)
    BY <1>13 DEF Reruns
  <2>2. FrameAddress(z) = BusAddress(e) /\ FramePc(z) = Mask(L, c.pc + 2) /\ FrameUsp(z) = c.da[SP]
    BY <1>13, <2>1 DEF FrameAddress, FramePc, FrameUsp, AtFault
  <2>3. Holding(BusAddress(e)) # {}
    <3>1. BusAddress(e) \in Ram /\ BusAddress(e) \in c.out /\ c.out \subseteq Paged
      BY <1>6, <1>12, StackIsNotOut DEF User
    <3>2. BusAddress(BusAddress(e)) = BusAddress(e)
      BY <3>1, BusOfRam
    <3> QED BY <3>1, <3>2 DEF Holding, Paged
  <2>4. Mask(L, Mask(L, c.pc + 2) - Distance["tst"]) = c.pc
    <3> DEFINE two == 2
               v == c.pc
    <3>1. v \in Values(L) /\ two \in 0 .. 6 /\ Distance["tst"] = two
      BY TypeOf, DistanceIs DEF Common
    <3> HIDE DEF two, v
    <3>2. Mask(L, Mask(L, v + two) - two) = v
      BY <3>1, MaskBack
    <3> QED BY <3>1, <3>2 DEF two, v
  <2>5. "tst" \in DOMAIN Distance
    BY DistanceIs
  <2> QED BY <2>2, <2>3, <2>4, <2>5 DEF FrameTells, User
<1>18. FrameTells(z, n, FormOf(Encode(z.ir))) /\ Encode(z.ir) \in Values(W)
  BY <1>13, <1>16, <1>17
<1>19. c.base[1] = Top /\ Sees(c, n) /\ OutOK(c, n) /\ Flags(c) = Flags(Ideal[n]) /\ \A w \in 0 .. 14 : c.da[w] = Ideal[n].da[w]
  BY DEF User
<1>20. Common(Settle(z)) /\ Kernel(Settle(z), n, 1, 1)
  BY <1>13, <1>18, <1>19, FaultLands
<1> QED
  BY <1>15, <1>20

(***************************************************************************)
(* An instruction that does not fault.                                     *)
(***************************************************************************)
\* The memory of two runs that agree where either wrote
LEMMA BytesTyped ==
  ASSUME NEW K, NEW D, D \subseteq K, NEW f \in [Ram -> Values(B)], NEW g, g = [a \in Ram |-> g[a]], NEW h \in [Ram -> Values(B)],
         SameBytes(K, D, f, g, h)
  PROVE  g \in [Ram -> Values(B)]
<1>1. ASSUME NEW a \in Ram PROVE g[a] \in Values(B)
  <2>1. CASE a \in D
    BY <2>1 DEF SameBytes
  <2>2. CASE a \notin D
    BY <2>2 DEF SameBytes
  <2> QED BY <2>1, <2>2
<1> QED
  BY <1>1

\* The registers and flags of y are typed
Held(y) ==
  /\ y.da \in [0 .. 15 -> Values(L)] /\ y.pc \in Values(L) /\ y.mem \in [Ram -> Values(B)]
  /\ y.x \in Flag /\ y.n \in Flag /\ y.z \in Flag /\ y.v \in Flag /\ y.c \in Flag

\* z has run the instruction i, which left y, on the machine c
RanOn(c, i, y, z) ==
  /\ Common(z) /\ z.s = c.s /\ z.base = c.base /\ z.out = c.out /\ z.ir = i /\ z.prev = c.pc
  /\ z.da = y.da /\ z.pc = y.pc /\ z.mem = y.mem /\ Flags(z) = Flags(y)

\* An instruction leaves a machine of the right type
LEMMA TypeAfterStep ==
  ASSUME NEW c, Common(c), NEW i, NEW k, HasBegun(c, i, k), NEW y, Good(y), Rest(y, k), Held(y),
         NEW z, z = [y EXCEPT !.prev = y.ppc]
  PROVE  RanOn(c, i, y, z)
<1>1. Shape(y) /\ Shape(k) /\ Fields(k)
  BY TypeHasFields DEF Good, HasBegun
<1>2. /\ z.da = y.da /\ z.pc = y.pc /\ z.mem = y.mem /\ z.flt = NoFault /\ z.pending = FALSE /\ z.prev = k.ppc
      /\ z.x = y.x /\ z.n = y.n /\ z.z = y.z /\ z.v = y.v /\ z.c = y.c
  <2>1. z.da = y.da /\ z.pc = y.pc /\ z.mem = y.mem /\ z.flt = NoFault /\ z.pending = FALSE
    BY <1>1 DEF Shape, Good
  <2>2. z.x = y.x /\ z.n = y.n /\ z.z = y.z /\ z.v = y.v /\ z.c = y.c /\ z.prev = y.ppc
    BY <1>1 DEF Shape
  <2> QED BY <2>1, <2>2 DEF Rest
<1>3. /\ z.save = k.save /\ z.base = k.base /\ z.ppc = k.ppc /\ z.ir = k.ir /\ z.mask = k.mask /\ z.level = k.level
      /\ z.nmi = k.nmi
  <2>1. z.save = y.save /\ z.base = y.base /\ z.ppc = y.ppc /\ z.ir = y.ir /\ z.mask = y.mask /\ z.level = y.level /\ z.nmi = y.nmi
    BY <1>1 DEF Shape
  <2> QED BY <2>1 DEF Rest
<1>4. /\ z.stopped = k.stopped /\ z.run = k.run /\ z.instr = k.instr /\ z.fetching = k.fetching
      /\ z.t = k.t /\ z.out = k.out /\ z.s = k.s
  <2>1. /\ z.stopped = y.stopped /\ z.run = y.run /\ z.instr = y.instr /\ z.fetching = y.fetching
        /\ z.t = y.t /\ z.out = y.out /\ z.s = y.s
    BY <1>1 DEF Shape
  <2> QED BY <2>1 DEF Rest
<1>5. Shape(z)
  BY <1>1, <1>2, <1>3 DEF Shape
<1>6. Fields(z)
  <2>1. /\ z.da \in [0 .. 15 -> Values(L)] /\ z.save \in [0 .. 15 -> Values(L)] /\ z.base \in [{0, 1} -> Values(L)]
        /\ z.pc \in Values(L) /\ z.ppc \in Values(L) /\ z.prev \in Values(L) /\ z.mem \in [Ram -> Values(B)]
    BY <1>1, <1>2, <1>3 DEF Fields, Held
  <2>2. /\ z.x \in Flag /\ z.n \in Flag /\ z.z \in Flag /\ z.v \in Flag /\ z.c \in Flag /\ z.s \in Flag /\ z.t \in Flag
        /\ z.mask \in 0 .. 7 /\ z.level \in 0 .. 7
    BY <1>1, <1>2, <1>3, <1>4 DEF Fields, Held
  <2>3. /\ z.nmi \in BOOLEAN /\ z.stopped \in SUBSET {"stop", "halt"} /\ z.run \in {"normal", "berr", "wsf"}
        /\ z.instr \in {InstructionYes, InstructionNo} /\ z.fetching \in BOOLEAN /\ z.pending \in BOOLEAN
    BY <1>1, <1>2, <1>3, <1>4 DEF Fields
  <2> QED BY <2>1, <2>2, <2>3 DEF Fields
<1>7. MachineType(z)
  BY <1>5, <1>6, FieldsMakeType
<1>8. /\ k.s = c.s /\ k.base = c.base /\ k.out = c.out /\ k.nmi = c.nmi /\ k.stopped = c.stopped
      /\ k.level = c.level /\ k.ppc = c.pc /\ k.ir = i /\ k.run = c.run
  BY DEF HasBegun
<1>9. Common(z)
  BY <1>2, <1>3, <1>4, <1>7, <1>8 DEF Common
<1>10. Flags(z) = Flags(y)
  BY <1>2 DEF Flags
<1> QED
  BY <1>2, <1>3, <1>4, <1>8, <1>9, <1>10 DEF RanOn

\* The two runs after the instruction, and what the machine settles to
Runs(c, n, x, y) ==
  /\ Follows(Known(Alive(Ideal[n]), InstructionOf(n), Touched(n)), Changed(InstructionOf(n), Touched(n)), x, y, Begin(c, InstructionOf(n)))
  /\ x = Execute(Begin(Ideal[n], InstructionOf(n)), InstructionOf(n))
  /\ y = Execute(Begin(c, InstructionOf(n)), InstructionOf(n))
  /\ Turn(c) = [y EXCEPT !.prev = y.ppc]
  /\ HasBegun(c, InstructionOf(n), Begin(c, InstructionOf(n))) /\ Footing(Alive(Ideal[n]), Begin(Ideal[n], InstructionOf(n)), Begin(c, InstructionOf(n)), Begin(c, InstructionOf(n)), InstructionOf(n))

\* Where nothing is missing, the program's next instruction runs
LEMMA StepRuns ==
  ASSUME NEW c, NEW n \in 0 .. Length, StandsAt(c, n), Touched(n) \cap c.out = {}
  PROVE  \E x, y : Runs(c, n, x, y)
<1> DEFINE i == InstructionOf(n)
           b == Begin(Ideal[n], i)
           k == Begin(c, i)
           A == Alive(Ideal[n])
           x == Execute(b, i)
           y == Execute(k, i)
<1>1. HasBegun(c, i, k) /\ Footing(A, b, k, k, i) /\ Touched(n) = Footprint(b, i)
  BY BeginsAt, FootingHolds
<1>2. i.op \in Instructions
  BY ProgramIs
<1>3. Follows(Known(A, i, Touched(n)), Changed(i, Touched(n)), x, y, k)
  <2> HIDE DEF A, b, k, i
  <2> QED BY <1>1, <1>2, FollowsExecute
<1>4. InstructionAt(c.pc) = i
  BY DEF InstructionOf, StandsAt
<1>5. Turn(c) = Settle(y)
  BY <1>4 DEF Turn
<1>6. Good(y)
  BY <1>3 DEF Follows
<1> HIDE DEF y
<1>7. Turn(c) = [y EXCEPT !.prev = y.ppc]
  BY <1>5, <1>6, SettleOfGood
<1> QED
  BY <1>1, <1>3, <1>7 DEF Runs, y

\* A gate writes nothing the program has alive
LEMMA ChangedIsKnown ==
  ASSUME NEW n \in 0 .. Length
  PROVE  LET i == InstructionOf(n) A == Alive(Ideal[n]) S == Touched(n) IN
         /\ Changed(i, S) \subseteq Known(A, i, S) /\ A \subseteq Known(A, i, S) /\ A \cup S \subseteq Known(A, i, S)
         /\ Form(i) \in Gates => Changed(i, S) \cap A = {}
<1>1. /\ InstructionOf(n).op # "jsr" => Touched(n) \subseteq Alive(Ideal[n])
      /\ InstructionOf(n).op = "jsr" => Touched(n) \cap Alive(Ideal[n]) = {}
  BY ProgramIs
<1>2. Form(InstructionOf(n)) \in Gates => InstructionOf(n).op \in {"jsr", "jmp", "rts"}
  BY GateForms
<1> QED
  BY <1>1, <1>2 DEF Changed, Known

\* What the undisturbed run holds after a step, the machine does
LEMMA StepIsHeld ==
  ASSUME NEW c, Common(c), NEW n \in 0 .. Length, n < Length, NEW x, NEW y, Runs(c, n, x, y)
  PROVE  /\ Held(y) /\ y.da = Ideal[n + 1].da /\ y.pc = Ideal[n + 1].pc /\ Flags(y) = Flags(Ideal[n + 1])
         /\ \A a \in Alive(Ideal[n + 1]) : y.mem[a] = Ideal[n + 1].mem[a]
         /\ Form(InstructionOf(n)) \in Gates => \A a \in Alive(Ideal[n]) : y.mem[a] = c.mem[a]
<1> DEFINE i == InstructionOf(n)
           k == Begin(c, i)
           A == Alive(Ideal[n])
           S == Touched(n)
           K == Known(A, i, S)
           D == Changed(i, S)
           J == Ideal[n + 1]
<1>1. Follows(K, D, x, y, k) /\ HasBegun(c, i, k)
  BY DEF Runs
<1>2. J.da = x.da /\ J.pc = x.pc /\ SameFlags(x, J) /\ J.mem = x.mem
  <2>1. IsNext(n, x)
    BY NextIdeal DEF Runs
  <2> QED BY <2>1 DEF IsNext
<1>3. MachineType(J) /\ Shape(J) /\ Fields(J)
  <2>1. n + 1 \in 0 .. Length
    BY ExecuteAssumption
  <2>2. MachineType(J)
    BY <2>1, ProgramIs
  <2> QED BY <2>2, TypeHasFields
<1>4. D \subseteq K /\ A \cup S \subseteq K /\ (Form(i) \in Gates => D \cap A = {})
  BY ChangedIsKnown
<1>5. Alive(J) \subseteq A \cup S
  BY ProgramAssumption DEF UsesGates
<1>6. A \subseteq Ram
  BY ProgramIs
<1>7. Shape(k) /\ Fields(k) /\ k.mem = c.mem
  BY <1>1, TypeHasFields DEF HasBegun
<1> HIDE DEF i, k, A, S, K, D, J
<1>8. y.da = J.da /\ y.pc = J.pc /\ SameFlags(J, y) /\ Shape(y)
  BY <1>1, <1>2 DEF Follows, SameFlags, Good
<1>9. SameBytes(K, D, J.mem, y.mem, k.mem)
  BY <1>1, <1>2 DEF Follows
<1>10. y.mem \in [Ram -> Values(B)]
  <2> DEFINE f == J.mem
             g == y.mem
             h == k.mem
  <2>1. f \in [Ram -> Values(B)] /\ h \in [Ram -> Values(B)] /\ g = [a \in Ram |-> g[a]]
    BY <1>3, <1>7, <1>8 DEF Fields, Shape
  <2> HIDE DEF f, g, h
  <2>2. SameBytes(K, D, f, g, h)
    BY <1>9 DEF f, g, h
  <2>3. g \in [Ram -> Values(B)]
    BY <1>4, <2>1, <2>2, BytesTyped
  <2> QED BY <2>3 DEF g
<1>11. Held(y)
  BY <1>3, <1>8, <1>10 DEF Held, Fields, SameFlags
<1>12. \A a \in Alive(J) : y.mem[a] = J.mem[a]
  BY <1>4, <1>5, <1>9 DEF SameBytes
<1>13. Form(i) \in Gates => \A a \in A : y.mem[a] = c.mem[a]
  BY <1>4, <1>6, <1>7, <1>9 DEF SameBytes
<1>14. Flags(y) = Flags(J)
  BY <1>8, FlagsAreSame
<1> QED
  BY <1>8, <1>11, <1>12, <1>13, <1>14 DEF i, A, J

\* What is out still is whole segments, none of what was probed
LEMMA OutAfter ==
  ASSUME NEW c, NEW n \in 0 .. Length, OutOK(c, n), Touched(n) \cap c.out = {}, NEW z, z.out = c.out
  PROVE  OutOK(z, n + 1)
<1>1. Probed(n + 1) \subseteq Probed(n) \cup Touched(n)
  <2>1. ASSUME NEW a \in Probed(n + 1), a \notin Touched(n)
        PROVE  a \in Probed(n)
    <3>1. a \notin UNION Swappable
      BY <2>1 DEF Probed
    <3>2. PICK j \in {w \in 0 .. (n + 1) - 1 : InstructionOf(w).op = "tst"} : a \in Touched(j)
      BY <2>1 DEF Probed
    <3>3. j \in 0 .. n /\ j # n
      BY <2>1, <3>2
    <3>4. j \in {w \in 0 .. n - 1 : InstructionOf(w).op = "tst"}
      BY <3>2, <3>3
    <3> QED BY <3>1, <3>2, <3>4 DEF Probed
  <2> QED BY <2>1
<1> QED
  BY <1>1 DEF OutOK, Whole

\* An instruction of the program runs, or the last one does again
LEMMA UserSteps ==
  ASSUME NEW c, Common(c), NEW n \in 0 .. Length, n < Length, User(c, n), BusAddress(c.pc) \notin c.out,
         Touched(n) \cap c.out = {}
  PROVE  Common(Turn(c)) /\ User(Turn(c), n + 1) /\ Reaches(Turn(c), n + 1)
<1> DEFINE i == InstructionOf(n)
           z == Turn(c)
           J == Ideal[n + 1]
<1>1. StandsAt(c, n)
  BY UserStands
<1>2. PICK x, y : Runs(c, n, x, y)
  BY <1>1, StepRuns
<1>3. /\ Held(y) /\ y.da = J.da /\ y.pc = J.pc /\ Flags(y) = Flags(J)
      /\ \A a \in Alive(J) : y.mem[a] = J.mem[a]
      /\ Form(i) \in Gates => \A a \in Alive(Ideal[n]) : y.mem[a] = c.mem[a]
  BY <1>2, StepIsHeld
<1>4. Good(y) /\ Rest(y, Begin(c, i)) /\ HasBegun(c, i, Begin(c, i)) /\ z = [y EXCEPT !.prev = y.ppc]
  BY <1>2 DEF Runs, Follows
<1> HIDE DEF z, i
<1>5. RanOn(c, i, y, z)
  BY <1>3, <1>4, TypeAfterStep
<1>6. OutOK(z, n + 1)
  BY <1>5, OutAfter DEF RanOn, User
<1>7. Sees(z, n + 1)
  BY <1>3, <1>5 DEF RanOn, Sees
<1>8. User(z, n + 1)
  BY <1>3, <1>5, <1>6, <1>7 DEF RanOn, User
<1>9. CASE Holding(J.pc) = Holding(Ideal[n].pc)
  <2>1. n + 1 \in 0 .. Length
    BY ExecuteAssumption
  <2>2. BusAddress(J.pc) \in Mapped /\ BusAddress(Ideal[n].pc) \in Mapped
    <3> DEFINE p == n + 1
    <3>1. ASSUME NEW w \in 0 .. Length PROVE BusAddress(Ideal[w].pc) \in Mapped
      <4>1. Words(InstructionOf(w)) \in 1 .. 5 /\ Ideal[w].pc \in Nat
        BY ProgramIs, WordsAre
      <4>2. 0 \in 0 .. Words(InstructionOf(w)) - 1 /\ Ideal[w].pc + 2 * 0 = Ideal[w].pc
        BY <4>1
      <4>3. BusAddress(Ideal[w].pc + 2 * 0) \in Mapped
        BY <4>2, ProgramIs
      <4> QED BY <4>2, <4>3
    <3> QED BY <2>1, <3>1
  <2>3. BusAddress(Ideal[n].pc) \notin c.out /\ Whole(c)
    BY DEF User, OutOK
  <2> HIDE DEF J
  <2>4. BusAddress(J.pc) \notin c.out
    BY <1>9, <2>2, <2>3, AllOrNothing
  <2>5. Reaches(z, n + 1)
    BY <1>3, <1>5, <2>4 DEF Reaches, RanOn
  <2> QED BY <1>5, <1>8, <2>5 DEF RanOn, z
<1>10. CASE Form(i) \in Gates
  <2>1. Sees(z, n)
    BY <1>3, <1>5, <1>10 DEF RanOn, Sees, User
  <2>2. z.prev = Ideal[n].pc /\ z.ir = i
    BY <1>5 DEF RanOn, User
  <2>3. (n + 1) - 1 = n /\ n + 1 >= 1
    OBVIOUS
  <2>4. Rewinds(z, n + 1)
    BY <1>10, <2>1, <2>2, <2>3 DEF Rewinds, i
  <2> QED BY <1>5, <1>8, <2>4 DEF RanOn, Reaches, z
<1>11. Holding(J.pc) = Holding(Ideal[n].pc) \/ Form(i) \in Gates
  BY ProgramAssumption DEF UsesGates, Gates, i
<1> QED
  BY <1>9, <1>10, <1>11

\* The last instruction stays where it is
LEMMA LastGoesNowhere ==
  ASSUME NEW x, x = Execute(Begin(Ideal[Length], InstructionOf(Length)), InstructionOf(Length)), Good(x)
  PROVE  x.pc = Ideal[Length].pc
<1>1. Turn(Ideal[Length]) = Settle(x)
  BY DEF Turn, InstructionOf
<1>2. Settle(x) = [x EXCEPT !.prev = x.ppc]
  BY SettleOfGood
<1>3. Turn(Ideal[Length]).pc = Ideal[Length].pc
  BY ExecuteAssumption, ProgramAssumption DEF UsesGates
<1>4. [x EXCEPT !.prev = x.ppc].pc = x.pc
  BY DEF Good, Shape
<1> HIDE DEF Turn, Settle
<1> QED
  BY <1>1, <1>2, <1>3, <1>4

\* so that the program stays at its end
LEMMA LastRepeats ==
  ASSUME NEW c, Common(c), User(c, Length), BusAddress(c.pc) \notin c.out
  PROVE  Common(Turn(c)) /\ User(Turn(c), Length) /\ Reaches(Turn(c), Length)
<1> DEFINE i == InstructionOf(Length)
           k == Begin(c, i)
           b == Begin(Ideal[Length], i)
           A == Alive(Ideal[Length])
           z == Turn(c)
<1>1. Length \in 0 .. Length /\ i.op = "bra"
  BY ExecuteAssumption, ProgramAssumption DEF UsesGates
<1>2. Touched(Length) = {}
  <2>1. AccessesOf(Length) = {}
    BY <1>1 DEF AccessesOf, Accesses
  <2> QED BY <2>1 DEF Touched
<1>3. StandsAt(c, Length)
  BY <1>1, UserStands
<1>4. PICK x, y : Runs(c, Length, x, y)
  BY <1>1, <1>2, <1>3, StepRuns
<1>5. Footing(A, b, k, k, i) /\ HasBegun(c, i, k) /\ y = Execute(k, i) /\ z = [y EXCEPT !.prev = y.ppc]
  BY <1>4 DEF Runs
<1>6. x.pc = Ideal[Length].pc /\ y.pc = x.pc /\ Good(y) /\ Rest(y, k)
  <2>1. Good(x) /\ y.pc = x.pc /\ Good(y) /\ Rest(y, k)
    BY <1>4 DEF Runs, Follows
  <2>2. x = Execute(Begin(Ideal[Length], InstructionOf(Length)), InstructionOf(Length))
    BY <1>4 DEF Runs
  <2>3. x.pc = Ideal[Length].pc
    BY <2>1, <2>2, LastGoesNowhere
  <2> QED BY <2>1, <2>3
<1> HIDE DEF b, k, z, i, A
<1>7. OnlyPc(k, y)
  BY <1>1, <1>5, FollowsBra
<1>8. Shape(k) /\ Fields(k)
  BY <1>5, TypeHasFields DEF HasBegun
<1>9. y.da = k.da /\ y.mem = k.mem /\ y.x = k.x /\ y.n = k.n /\ y.z = k.z /\ y.v = k.v /\ y.c = k.c
  BY <1>7, <1>8 DEF OnlyPc, Shape
<1>10. y.pc = c.pc /\ c.pc \in Values(L)
  BY <1>6, TypeOf DEF User, Common
<1>11. Held(y)
  BY <1>8, <1>9, <1>10 DEF Held, Fields
<1>12. RanOn(c, i, y, z)
  BY <1>5, <1>6, <1>11, TypeAfterStep
<1>13. k.da = c.da /\ k.mem = c.mem /\ Flags(k) = Flags(c)
  BY <1>5 DEF HasBegun
<1>14. Flags(y) = Flags(k)
  BY <1>9 DEF Flags
<1>15. z.da = c.da /\ z.pc = c.pc /\ z.mem = c.mem /\ z.out = c.out /\ z.s = c.s /\ z.base = c.base /\ Flags(z) = Flags(c)
  BY <1>9, <1>10, <1>12, <1>13, <1>14 DEF RanOn
<1>16. User(z, Length)
  BY <1>15 DEF User, Sees, OutOK, Whole
<1> QED
  BY <1>12, <1>15, <1>16 DEF RanOn, Reaches, z

\* Whatever is missing, a turn of the loop takes the program on, or to the kernel
Reached(c, n) == User(c, n) /\ Reaches(c, n)
Somewhere(c) == Common(c) /\ \E n \in 0 .. Length : Reached(c, n) \/ InKernelAt(c, n)

\* A machine in the handler of bus errors is somewhere
LEMMA FaultedIsSomewhere ==
  ASSUME NEW c, Common(c), NEW n \in 0 .. Length, Kernel(c, n, 1, 1)
  PROVE  Somewhere(c)
  BY DEF Somewhere, InKernelAt

\* A turn of the loop in the program runs its next instruction as the undisturbed run does, or
\* enters the handler of bus errors with the instruction it is at, or the gate before it, told
LEMMA UserTurn ==
  ASSUME NEW c, Common(c), NEW n \in 0 .. Length, Reached(c, n)
  PROVE  Somewhere(Turn(c))
<1>1. User(c, n) /\ Reaches(c, n)
  BY DEF Reached
<1>2. CASE BusAddress(c.pc) \in c.out
  <2>1. CASE c.ir = Bare("rte")
    <3>1. Common(Turn(c)) /\ Kernel(Turn(c), n, 1, 1)
      BY <1>1, <1>2, <2>1, ReturnFaults
    <3> QED BY <3>1, FaultedIsSomewhere
  <2>2. CASE Rewinds(c, n)
    <3>1. n - 1 \in 0 .. Length /\ Common(Turn(c)) /\ Kernel(Turn(c), n - 1, 1, 1)
      BY <1>1, <1>2, <2>2, GateFaults
    <3> QED BY <3>1, FaultedIsSomewhere
  <2> QED BY <1>1, <1>2, <2>1, <2>2 DEF Reaches
<1>3. CASE BusAddress(c.pc) \notin c.out /\ Touched(n) \cap c.out # {}
  <2>1. InstructionOf(n).op = "tst"
    <3>1. InstructionOf(n).op # "tst" => Touched(n) \cap (Start.out \cup UNION Swappable) \subseteq Probed(n)
      BY ProgramAssumption DEF TouchesItsOwn
    <3>2. c.out \subseteq Start.out \cup UNION Swappable /\ Probed(n) \cap c.out = {}
      BY <1>1 DEF User, OutOK
    <3> QED BY <1>3, <3>1, <3>2
  <2>2. Common(Turn(c)) /\ Kernel(Turn(c), n, 1, 1)
    BY <1>1, <1>3, <2>1, ProbeFaults
  <2> QED BY <2>2, FaultedIsSomewhere
<1>4. CASE BusAddress(c.pc) \notin c.out /\ Touched(n) \cap c.out = {} /\ n < Length
  <2>1. Common(Turn(c)) /\ User(Turn(c), n + 1) /\ Reaches(Turn(c), n + 1)
    BY <1>1, <1>4, UserSteps
  <2>2. n + 1 \in 0 .. Length
    BY <1>4, ExecuteAssumption
  <2> QED BY <2>1, <2>2 DEF Somewhere, Reached
<1>5. CASE BusAddress(c.pc) \notin c.out /\ n = Length
  <2>1. Common(Turn(c)) /\ User(Turn(c), n) /\ Reaches(Turn(c), n)
    BY <1>1, <1>5, LastRepeats
  <2> QED BY <2>1 DEF Somewhere, Reached
<1> QED
  BY <1>2, <1>3, <1>4, <1>5, ExecuteAssumption

(***************************************************************************)
(* The steps of the specification.                                         *)
(***************************************************************************)
\* The program begins at its first instruction
LEMMA StartIsSomewhere == Somewhere(Start)
<1> DEFINE o == {}
<1>1. MachineType(Start) /\ Shape(Start) /\ Start.s = 0 /\ Start.stopped = {}
  BY ExecuteAssumption, TypeHasFields
<1>2. 0 \in 0 .. Length
  BY ExecuteAssumption
<1>3. Ideal[0] = [Start EXCEPT !.out = {}]
  BY IdealIs DEF First
<1> DEFINE z == Ideal[0]
<1>4. z.da = Start.da /\ z.pc = Start.pc /\ z.mem = Start.mem /\ Flags(z) = Flags(Start)
  <2> HIDE DEF z
  <2>1. z = [Start EXCEPT !.out = {}]
    BY <1>3 DEF z
  <2>2. z.x = Start.x /\ z.n = Start.n /\ z.z = Start.z /\ z.v = Start.v /\ z.c = Start.c
    BY <1>1, <2>1 DEF Shape
  <2>3. z.da = Start.da /\ z.pc = Start.pc /\ z.mem = Start.mem
    BY <1>1, <2>1 DEF Shape
  <2> QED BY <2>2, <2>3 DEF Flags
<1>5. Whole(Start)
  <2> SUFFICES ASSUME NEW a \in Mapped, NEW b \in Mapped, InSame(a, b)
               PROVE  a \in Start.out <=> b \in Start.out
    BY DEF Whole
  <2>1. Start.out = UNION {g \in Segments : g \subseteq Start.out}
    BY KernelAssumption
  <2> QED BY <2>1 DEF InSame
<1>6. Probed(0) = {}
  <2>1. {j \in 0 .. 0 - 1 : InstructionOf(j).op = "tst"} = {}
    OBVIOUS
  <2> QED BY <2>1 DEF Probed
<1>7. OutOK(Start, 0)
  BY <1>5, <1>6 DEF OutOK
<1>8. User(Start, 0)
  BY <1>1, <1>4, <1>7 DEF User, Sees, Top
<1>9. Reaches(Start, 0)
  BY KernelAssumption DEF Reaches
<1>10. Common(Start)
  BY <1>1, KernelAssumption DEF Common
<1> QED
  BY <1>2, <1>8, <1>9, <1>10 DEF Somewhere, Reached

\* At an address of the kernel's the program is not
LEMMA InKernelCode ==
  ASSUME NEW c, NEW n \in 0 .. Length, c.pc \in KernelCode, Reached(c, n) \/ InKernelAt(c, n)
  PROVE  InKernelAt(c, n)
<1>1. ~Reached(c, n)
  <2> SUFFICES ASSUME User(c, n) PROVE FALSE
    BY DEF Reached
  <2>1. BusAddress(c.pc) \in DOMAIN Program
    BY ProgramIs DEF User
  <2>2. BusAddress(c.pc) \in {BusAddress(e) : e \in KernelCode}
    OBVIOUS
  <2> QED BY <2>1, <2>2, KernelAssumption
<1> QED
  BY <1>1

\* Looking at the line leaves the machine somewhere, and never in a fault or halted
LEMMA LooksAgain ==
  ASSUME NEW c, Somewhere(c)
  PROVE  Somewhere(CheckInterrupts(c)) /\ CheckInterrupts(c).stopped = {} /\ CheckInterrupts(c).flt = NoFault
<1>1. PICK n \in 0 .. Length : Reached(c, n) \/ InKernelAt(c, n)
  BY DEF Somewhere
<1>2. Common(c) /\ (User(c, n) \/ InKernelAt(c, n))
  BY <1>1 DEF Somewhere, Reached
<1>3. Common(CheckInterrupts(c)) /\ (CheckInterrupts(c) = c \/ InKernelAt(CheckInterrupts(c), n))
  BY <1>2, CheckKeeps
<1> HIDE DEF CheckInterrupts
<1>4. Somewhere(CheckInterrupts(c))
  BY <1>3 DEF Somewhere
<1> QED
  BY <1>3, <1>4 DEF Common

\* So does a turn of the loop, in the program or at the kernel's RTE
LEMMA TurnsOn ==
  ASSUME NEW c, Somewhere(c), c.pc # BusErrorEntry, \A l \in Levels : c.pc # InterruptEntry[l]
  PROVE  Somewhere(Turn(c))
<1>1. PICK n \in 0 .. Length : Reached(c, n) \/ InKernelAt(c, n)
  BY DEF Somewhere
<1>2. Common(c)
  BY DEF Somewhere
<1>3. CASE Reached(c, n)
  BY <1>2, <1>3, UserTurn
<1>4. CASE InKernelAt(c, n)
  <2>1. PICK d \in 1 .. 7, e \in {0, 1} : Kernel(c, n, d, e)
    BY <1>4 DEF InKernelAt
  <2>2. c.pc \in Places(e, d)
    BY <2>1 DEF Kernel, Nested
  <2>3. ~(d = 1 /\ e = 1) /\ c.pc = KernelReturn
    BY <2>2 DEF Places
  <2>4. Common(Turn(c)) /\ ((User(Turn(c), n) /\ Turn(c).ir = Bare("rte")) \/ InKernelAt(Turn(c), n))
    BY <1>2, <2>1, <2>3, ReturnTurn
  <2> QED BY <2>4 DEF Somewhere, Reached, Reaches
<1> QED
  BY <1>1, <1>3, <1>4

\* a change of the line (m68k_set_irq)
LEMMA LineIsSet ==
  ASSUME NEW c, Somewhere(c), NEW level \in Levels \cup {0}
  PROVE  Somewhere(SetIrq(c, level))
<1> DEFINE z == SetIrq(c, level)
<1>1. PICK n \in 0 .. Length : Reached(c, n) \/ InKernelAt(c, n)
  BY DEF Somewhere
<1>2. Common(c) /\ Shape(c) /\ Fields(c)
  BY TypeHasFields DEF Somewhere, Common
<1>3. level \in 0 .. 6
  BY StackFacts
<1>4. z = [c EXCEPT !.level = level]
  <2>1. ~(c.nmi \/ (c.level # 7 /\ level = 7)) /\ c.nmi = FALSE
    BY <1>2, <1>3 DEF Common
  <2> QED BY <1>2, <2>1 DEF SetIrq, Shape
<1> HIDE DEF z
<1>5. /\ z.da = c.da /\ z.save = c.save /\ z.base = c.base /\ z.pc = c.pc /\ z.ppc = c.ppc /\ z.prev = c.prev
      /\ z.x = c.x /\ z.n = c.n /\ z.z = c.z /\ z.v = c.v /\ z.c = c.c /\ z.s = c.s /\ z.t = c.t
  BY <1>2, <1>4 DEF Shape
<1>6. /\ z.mask = c.mask /\ z.level = level /\ z.nmi = c.nmi /\ z.stopped = c.stopped /\ z.run = c.run
      /\ z.instr = c.instr /\ z.fetching = c.fetching /\ z.pending = c.pending /\ z.flt = c.flt /\ z.mem = c.mem
      /\ z.ir = c.ir /\ z.out = c.out
  BY <1>2, <1>4 DEF Shape
<1>7. Shape(z)
  BY <1>2, <1>4, <1>5, <1>6 DEF Shape
<1>8. Fields(z)
  <2>1. /\ z.da \in [0 .. 15 -> Values(L)] /\ z.save \in [0 .. 15 -> Values(L)] /\ z.base \in [{0, 1} -> Values(L)]
        /\ z.pc \in Values(L) /\ z.ppc \in Values(L) /\ z.prev \in Values(L) /\ z.mem \in [Ram -> Values(B)]
    BY <1>2, <1>5, <1>6 DEF Fields
  <2>2. /\ z.x \in Flag /\ z.n \in Flag /\ z.z \in Flag /\ z.v \in Flag /\ z.c \in Flag /\ z.s \in Flag /\ z.t \in Flag
        /\ z.mask \in 0 .. 7 /\ z.level \in 0 .. 7
    BY <1>2, <1>3, <1>5, <1>6 DEF Fields
  <2>3. /\ z.nmi \in BOOLEAN /\ z.stopped \in SUBSET {"stop", "halt"} /\ z.run \in {"normal", "berr", "wsf"}
        /\ z.instr \in {InstructionYes, InstructionNo} /\ z.fetching \in BOOLEAN /\ z.pending \in BOOLEAN
    BY <1>2, <1>6 DEF Fields
  <2> QED BY <2>1, <2>2, <2>3 DEF Fields
<1>9. Common(z)
  BY <1>2, <1>6, <1>7, <1>8, FieldsMakeType DEF Common
<1>10. Alike(c, z)
  BY <1>5, <1>6 DEF Alike, Flags
<1>11. Reached(c, n) => Reached(z, n)
  BY <1>5, <1>6, <1>10, AlikeInUser DEF Reached, Reaches, Rewinds, Sees
<1>12. InKernelAt(c, n) => InKernelAt(z, n)
  BY <1>10, AlikeInKernel DEF InKernelAt
<1> QED
  BY <1>1, <1>9, <1>11, <1>12 DEF Somewhere, z

\* The handler of an interrupt has nothing to do with the program
LEMMA HandlerReturns ==
  ASSUME NEW c, Somewhere(c), NEW l \in Levels, c.pc = InterruptEntry[l]
  PROVE  Somewhere(AtReturn(c))
<1> DEFINE here == KernelReturn
           back == KernelReturn - 2
           nop == [op |-> "nop"]
           z == AtReturn(c)
<1>1. PICK n \in 0 .. Length : Reached(c, n) \/ InKernelAt(c, n)
  BY DEF Somewhere
<1>2. InKernelAt(c, n)
  BY <1>1, InKernelCode DEF KernelCode
<1>3. PICK d \in 1 .. 7, e \in {0, 1} : Kernel(c, n, d, e)
  BY <1>2 DEF InKernelAt
<1>4. Common(c) /\ Shape(c) /\ Fields(c)
  BY TypeHasFields DEF Somewhere, Common
<1>5. here \in Values(L) /\ back \in Values(L)
  BY EntryFacts
<1>6. here \in Places(e, d)
  <2>1. c.pc \in Places(e, d) /\ c.pc # BusErrorEntry
    BY <1>3, EntryFacts DEF Kernel, Nested
  <2> QED BY <2>1 DEF Places
<1>7. z = [c EXCEPT !.pc = here, !.ppc = back, !.prev = back, !.ir = nop]
  BY DEF AtReturn
<1> HIDE DEF z, here, back, nop
<1>8. /\ z.da = c.da /\ z.save = c.save /\ z.base = c.base /\ z.pc = here /\ z.ppc = back /\ z.prev = back
      /\ z.x = c.x /\ z.n = c.n /\ z.z = c.z /\ z.v = c.v /\ z.c = c.c /\ z.s = c.s /\ z.t = c.t
  BY <1>4, <1>7 DEF Shape
<1>9. /\ z.mask = c.mask /\ z.level = c.level /\ z.nmi = c.nmi /\ z.stopped = c.stopped /\ z.run = c.run
      /\ z.instr = c.instr /\ z.fetching = c.fetching /\ z.pending = c.pending /\ z.flt = c.flt /\ z.mem = c.mem
      /\ z.out = c.out
  BY <1>4, <1>7 DEF Shape
<1>10. Shape(z)
  BY <1>4, <1>7, <1>8, <1>9 DEF Shape
<1>11. Fields(z)
  <2>1. /\ z.da \in [0 .. 15 -> Values(L)] /\ z.save \in [0 .. 15 -> Values(L)] /\ z.base \in [{0, 1} -> Values(L)]
        /\ z.pc \in Values(L) /\ z.ppc \in Values(L) /\ z.prev \in Values(L) /\ z.mem \in [Ram -> Values(B)]
    BY <1>4, <1>5, <1>8, <1>9 DEF Fields
  <2>2. /\ z.x \in Flag /\ z.n \in Flag /\ z.z \in Flag /\ z.v \in Flag /\ z.c \in Flag /\ z.s \in Flag /\ z.t \in Flag
        /\ z.mask \in 0 .. 7 /\ z.level \in 0 .. 7
    BY <1>4, <1>8, <1>9 DEF Fields
  <2>3. /\ z.nmi \in BOOLEAN /\ z.stopped \in SUBSET {"stop", "halt"} /\ z.run \in {"normal", "berr", "wsf"}
        /\ z.instr \in {InstructionYes, InstructionNo} /\ z.fetching \in BOOLEAN /\ z.pending \in BOOLEAN
    BY <1>4, <1>9 DEF Fields
  <2> QED BY <2>1, <2>2, <2>3 DEF Fields
<1>12. Common(z)
  BY <1>4, <1>9, <1>10, <1>11, FieldsMakeType DEF Common
<1>13. Nested(z, d, e)
  BY <1>3, <1>6, <1>8, <1>9 DEF Kernel, Nested
<1>14. Resumes(z, n, e)
  BY <1>3, <1>8, <1>9 DEF Kernel, Resumes, UserSp, Sees, OutOK, Whole
<1> QED
  BY <1>3, <1>12, <1>13, <1>14 DEF Somewhere, InKernelAt, Kernel, z

\* a segment taken out before the RTE
LEMMA TakenOut ==
  ASSUME NEW c, Somewhere(c), c.pc = KernelReturn, NEW g \in Swappable
  PROVE  Somewhere([c EXCEPT !.out = @ \cup g])
<1> DEFINE z == [c EXCEPT !.out = @ \cup g]
<1>1. PICK n \in 0 .. Length : Reached(c, n) \/ InKernelAt(c, n)
  BY DEF Somewhere
<1>2. InKernelAt(c, n)
  BY <1>1, InKernelCode DEF KernelCode
<1>3. PICK d \in 1 .. 7, e \in {0, 1} : Kernel(c, n, d, e)
  BY <1>2 DEF InKernelAt
<1>4. Common(c) /\ Shape(c) /\ Fields(c)
  BY TypeHasFields DEF Somewhere, Common
<1>5. /\ z.da = c.da /\ z.save = c.save /\ z.base = c.base /\ z.pc = c.pc /\ z.ppc = c.ppc /\ z.prev = c.prev
      /\ z.x = c.x /\ z.n = c.n /\ z.z = c.z /\ z.v = c.v /\ z.c = c.c /\ z.s = c.s /\ z.t = c.t
  BY <1>4 DEF Shape
<1>6. /\ z.mask = c.mask /\ z.level = c.level /\ z.nmi = c.nmi /\ z.stopped = c.stopped /\ z.run = c.run
      /\ z.instr = c.instr /\ z.fetching = c.fetching /\ z.pending = c.pending /\ z.flt = c.flt /\ z.mem = c.mem
      /\ z.out = c.out \cup g
  BY <1>4 DEF Shape
<1>7. Shape(z)
  BY <1>4, <1>5, <1>6 DEF Shape
<1> HIDE DEF z
<1>8. Fields(z)
  <2>1. /\ z.da \in [0 .. 15 -> Values(L)] /\ z.save \in [0 .. 15 -> Values(L)] /\ z.base \in [{0, 1} -> Values(L)]
        /\ z.pc \in Values(L) /\ z.ppc \in Values(L) /\ z.prev \in Values(L) /\ z.mem \in [Ram -> Values(B)]
    BY <1>4, <1>5, <1>6 DEF Fields
  <2>2. /\ z.x \in Flag /\ z.n \in Flag /\ z.z \in Flag /\ z.v \in Flag /\ z.c \in Flag /\ z.s \in Flag /\ z.t \in Flag
        /\ z.mask \in 0 .. 7 /\ z.level \in 0 .. 7
    BY <1>4, <1>5, <1>6 DEF Fields
  <2>3. /\ z.nmi \in BOOLEAN /\ z.stopped \in SUBSET {"stop", "halt"} /\ z.run \in {"normal", "berr", "wsf"}
        /\ z.instr \in {InstructionYes, InstructionNo} /\ z.fetching \in BOOLEAN /\ z.pending \in BOOLEAN
    BY <1>4, <1>6 DEF Fields
  <2> QED BY <2>1, <2>2, <2>3 DEF Fields
<1>9. Common(z)
  BY <1>4, <1>6, <1>7, <1>8, FieldsMakeType DEF Common
<1>10. Nested(z, d, e)
  BY <1>3, <1>5, <1>6 DEF Kernel, Nested
<1>11. OutOK(z, n)
  BY <1>3, <1>6, WholeMore DEF Kernel, Resumes
<1>12. Resumes(z, n, e)
  BY <1>3, <1>5, <1>6, <1>11 DEF Kernel, Resumes, UserSp, Sees
<1> QED
  BY <1>3, <1>9, <1>10, <1>12 DEF Somewhere, InKernelAt, Kernel, z

\* and the handler of bus errors, whose every fault is in the kernel's table
LEMMA BusErrorIsHandled ==
  ASSUME NEW c, Somewhere(c), c.pc = BusErrorEntry
  PROVE  Recoverable(c) /\ Somewhere(Recovered(c))
<1>1. PICK n \in 0 .. Length : Reached(c, n) \/ InKernelAt(c, n)
  BY DEF Somewhere
<1>2. InKernelAt(c, n)
  BY <1>1, InKernelCode DEF KernelCode
<1>3. PICK d \in 1 .. 7, e \in {0, 1} : Kernel(c, n, d, e)
  BY <1>2 DEF InKernelAt
<1>4. d = 1 /\ e = 1
  <2>1. c.pc \in Places(e, d)
    BY <1>3 DEF Kernel, Nested
  <2> QED BY <2>1, EntryFacts DEF Places
<1>5. Kernel(c, n, 1, 1) /\ Common(c)
  BY <1>3, <1>4 DEF Somewhere
<1>6. Recoverable(c)
  BY <1>5, BusErrorIsRecoverable
<1>7. Common(Recovered(c)) /\ Kernel(Recovered(c), n, 1, 0)
  BY <1>5, RecoveredIs
<1> HIDE DEF Recovered
<1> QED
  BY <1>6, <1>7 DEF Somewhere, InKernelAt

(***************************************************************************)
(* The inductive invariant.                                                *)
(***************************************************************************)
\* The machine is somewhere the program can go on from, in a burst or between two
IInv == Somewhere(m) /\ at \in {"idle", "loop", "done"} /\ lines \subseteq Levels

\* It holds of Start
THEOREM InvInit == Init => IInv
  BY StartIsSomewhere DEF Init, IInv

\* The start of a burst keeps it
LEMMA StartBurstKeeps == ASSUME IInv, StartBurst PROVE IInv'
<1> DEFINE c == CheckInterrupts(m)
<1>1. [m EXCEPT !.pending = FALSE] = m
  <2>1. Good(m)
    BY TypeOf DEF IInv, Somewhere, Common, Good
  <2> QED BY <2>1, NotPending
<1>2. Somewhere(c) /\ c.stopped = {} /\ c.flt = NoFault
  BY LooksAgain DEF IInv
<1> HIDE DEF c
<1>3. m' = Landed(c) /\ at' = "loop" /\ lines' = lines
  BY <1>1, <1>2 DEF StartBurst, others, c
<1>4. Landed(c) = c
  BY <1>2 DEF Landed
<1> QED
  BY <1>2, <1>3, <1>4 DEF IInv

\* an instruction
LEMMA InstructionKeeps == ASSUME IInv, Instruction PROVE IInv'
<1>1. m' = Turn(m) /\ at' \in {"loop", "done"} /\ lines' = lines
  BY DEF Instruction, others
<1>2. m.pc # BusErrorEntry /\ \A l \in Levels : m.pc # InterruptEntry[l]
  BY DEF Instruction, InKernel
<1>3. Somewhere(Turn(m))
  BY <1>2, TurnsOn DEF IInv
<1> HIDE DEF Turn
<1> QED
  BY <1>1, <1>3 DEF IInv

\* The highest line is a level the devices have
LEMMA HighestIs == ASSUME lines \subseteq Levels PROVE Highest \in Levels \cup {0}
<1>1. CASE lines = {}
  BY <1>1 DEF Highest
<1>2. CASE lines # {}
  <2>1. \E l \in lines : \A k \in lines : k <= l
    <3>1. lines \subseteq 1 .. 6
      BY ExecuteAssumption
    <3>2. PICK w \in lines : TRUE
      BY <1>2
    <3>3. w \in {1, 2, 3, 4, 5, 6}
      BY <3>1, <3>2
    <3>4. CASE 6 \in lines
      BY <3>1, <3>4
    <3>5. CASE 6 \notin lines /\ 5 \in lines
      BY <3>1, <3>5
    <3>6. CASE 6 \notin lines /\ 5 \notin lines /\ 4 \in lines
      BY <3>1, <3>6
    <3>7. CASE 6 \notin lines /\ 5 \notin lines /\ 4 \notin lines /\ 3 \in lines
      BY <3>1, <3>7
    <3>8. CASE lines \subseteq {1, 2}
      BY <3>1, <3>2, <3>8
    <3> QED BY <3>1, <3>4, <3>5, <3>6, <3>7, <3>8
  <2> QED BY <1>2, <2>1 DEF Highest
<1> QED
  BY <1>1, <1>2

\* the end of a burst
LEMMA EndBurstKeeps == ASSUME IInv, EndBurst PROVE IInv'
<1>1. m.stopped = {} /\ Somewhere(m) /\ lines \subseteq Levels
  BY DEF IInv, Somewhere, Common
<1>2. m' = SetIrq(m, Highest) /\ at' = "idle" /\ lines' = lines
  BY <1>1 DEF EndBurst, others
<1>3. Somewhere(SetIrq(m, Highest))
  BY <1>1, HighestIs, LineIsSet
<1> HIDE DEF SetIrq
<1> QED
  BY <1>1, <1>2, <1>3 DEF IInv

\* the kernel's handlers, and its memory manager
LEMMA KernelKeeps == ASSUME IInv, HandleBusError \/ HandleInterrupt \/ SwapOut PROVE IInv'
<1>1. CASE HandleBusError
  <2>1. Recoverable(m) /\ Somewhere(Recovered(m))
    BY <1>1, BusErrorIsHandled DEF HandleBusError, IInv
  <2>2. m' = Recovered(m) /\ at' \in {"loop", "done"} /\ lines' = lines
    BY <1>1, <2>1 DEF HandleBusError, others
  <2> QED BY <2>1, <2>2 DEF IInv
<1>2. CASE HandleInterrupt
  <2>1. PICK l \in Levels : m.pc = InterruptEntry[l] /\ lines' = lines \ {l}
    BY <1>2 DEF HandleInterrupt
  <2>2. Somewhere(AtReturn(m))
    BY <2>1, HandlerReturns DEF IInv
  <2>3. m' = AtReturn(m) /\ at' \in {"loop", "done"}
    BY <1>2 DEF HandleInterrupt
  <2> HIDE DEF AtReturn
  <2> QED BY <2>1, <2>2, <2>3 DEF IInv
<1>3. CASE SwapOut
  <2>1. PICK g \in Swappable : m' = [m EXCEPT !.out = @ \cup g]
    BY <1>3 DEF SwapOut
  <2>2. m.pc = KernelReturn /\ at' = at /\ lines' = lines
    BY <1>3 DEF SwapOut
  <2>3. Somewhere([m EXCEPT !.out = @ \cup g])
    BY <2>2, TakenOut DEF IInv
  <2> QED BY <2>1, <2>2, <2>3 DEF IInv
<1> QED
  BY <1>1, <1>2, <1>3

\* Every step keeps it
THEOREM InvStep == IInv /\ [Next]_vars => IInv'
<1> SUFFICES ASSUME IInv, [Next]_vars PROVE IInv'
  OBVIOUS
<1>1. CASE StartBurst
  BY <1>1, StartBurstKeeps
<1>2. CASE Instruction
  BY <1>2, InstructionKeeps
<1>3. CASE EndBurst
  BY <1>3, EndBurstKeeps
<1>4. CASE HandleBusError \/ HandleInterrupt \/ SwapOut
  BY <1>4, KernelKeeps
<1>5. CASE Raise
  <2>1. m' = m /\ at' = at /\ lines' \subseteq Levels
    BY <1>5 DEF Raise, IInv
  <2> QED BY <2>1 DEF IInv
<1>6. CASE UNCHANGED vars
  <2>1. m' = m /\ at' = at /\ lines' = lines
    BY <1>6 DEF vars
  <2> QED BY <2>1 DEF IInv
<1> QED
  BY <1>1, <1>2, <1>3, <1>4, <1>5, <1>6 DEF Next, Processor

\* In every behaviour the machine is at a point of the undisturbed run, or in the kernel with
\* every frame in place for the way back to one, and no fault is lost (m68k_execute)
THEOREM ProgramGoesOn == Spec => []IInv
  BY InvInit, InvStep, PTL DEF Spec

\* In user mode the machine is at a point of the undisturbed run
LEMMA InUserIsReached ==
  ASSUME IInv, m.s = 0
  PROVE  \E n \in 0 .. Length : User(m, n)
<1>1. PICK n \in 0 .. Length : Reached(m, n) \/ InKernelAt(m, n)
  BY DEF IInv, Somewhere
<1>2. ~InKernelAt(m, n)
  BY DEF InKernelAt, Kernel, Nested
<1> QED
  BY <1>1, <1>2 DEF Reached

\* where the program sees what it sees there
LEMMA ViewIs ==
  ASSUME NEW c, NEW n \in 0 .. Length, User(c, n)
  PROVE  View(c) = View(Ideal[n])
<1> DEFINE z == Ideal[n]
<1>1. c.da = z.da /\ c.pc = z.pc
  BY DEF User
<1>2. Alive(c) = Alive(z)
  BY <1>1 DEF Alive
<1>3. Ccr(c) = Ccr(z)
  <2>1. c.x = z.x /\ c.n = z.n /\ c.z = z.z /\ c.v = z.v /\ c.c = z.c
    BY DEF User, Flags
  <2> QED BY <2>1 DEF Ccr
<1>4. [a \in Alive(c) |-> c.mem[a]] = [a \in Alive(z) |-> z.mem[a]]
  BY <1>2 DEF User, Sees
<1> QED
  BY <1>1, <1>3, <1>4 DEF View

\* UserSeesItsProgram, for every program, kernel and set of segments of the assumptions: a gate
\* run again has pushed its return address once (m68ki_exception_bus_error)
THEOREM ProgramIsSeen == Spec => []UserSeesItsProgram
<1>1. IInv => UserSeesItsProgram
  <2> SUFFICES ASSUME IInv, m.s = 0 PROVE View(m) \in Views
    BY DEF UserSeesItsProgram, InUser
  <2>1. PICK n \in 0 .. Length : User(m, n)
    BY InUserIsReached
  <2>2. View(m) = View(Ideal[n])
    BY <2>1, ViewIs
  <2> QED BY <2>2 DEF Views
<1> QED
  BY <1>1, ProgramGoesOn, PTL

\* KernelStackIsEmpty, likewise: every frame pushed has been taken off when the program runs
\* (m68ki_exception_interrupt, m68k_op_rte_32)
THEOREM KernelStackIsEmptied == Spec => []KernelStackIsEmpty
<1>1. IInv => KernelStackIsEmpty
  BY InUserIsReached DEF KernelStackIsEmpty, InUser, User, Top
<1> QED
  BY <1>1, ProgramGoesOn, PTL

\* FaultsAreRecoverable, likewise: none is beyond the kernel's table, none halts the processor
THEOREM FaultsAreHandled == Spec => []FaultsAreRecoverable
<1>1. IInv => FaultsAreRecoverable
  BY DEF IInv, FaultsAreRecoverable
<1> QED
  BY <1>1, ProgramGoesOn, PTL
===============================================================================
