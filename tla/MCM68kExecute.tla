---------------------------- MODULE MCM68kExecute ----------------------------
(***************************************************************************)
(* A program that probes its stack and calls two procedures, one of which   *)
(* calls the other, through every form of gate, on a machine with 6-bit     *)
(* bytes.  The procedures, the thunk and the page the stack grows into are   *)
(* out at first; addresses carry a tag above the 12 bits of the bus.        *)
(***************************************************************************)
EXTENDS M68kExecute, TLC

Tag == 2^20
LongOf(a) == <<0, 0, a \div 64, a % 64>>

MCInterruptEntry == [l \in {1, 2} |-> 128 + 4 * l]
VectorTable(v) ==
  CASE v = BusErrorVector   -> 128
    [] v = AutoVector + 1   -> 132
    [] v = AutoVector + 2   -> 136
    [] OTHER                -> 140

\* Vectors and kernel code; then the user program's code
Main == 256 .. 291
Thunk == 320 .. 323
Inner == 384 .. 387
Outer == 448 .. 453
MCRom == [a \in 0 .. 151 \cup Main \cup Thunk \cup Inner \cup Outer |->
            IF a < 128 THEN LongOf(VectorTable(a \div 4))[(a % 4) + 1] ELSE 0]

KernelRam == 592 .. 647        \* the kernel's stack, and two words above where it begins
Growth == 656 .. 671
UserStack == 672 .. 703
MCRam == KernelRam \cup Growth \cup UserStack

At(mode, reg, ext) == [mode |-> mode, reg |-> reg, ext |-> ext]
Do(op, size, ea, arg) == [op |-> op, size |-> size, ea |-> ea, arg |-> arg]

\* -40(A7): in the page the stack grows into
Below == At("di", SP, 2^12 - 40)

MCProgram ==
  (256 :> Do("tst", W, Below, 0)) @@                            \* TST -40(A7)
  (260 :> Do("jsr", L, At("al", SP, Tag + 384), 0)) @@          \* JSR inner
  (266 :> Do("jsr", L, At("di", 10, 8), 0)) @@                  \* JSR 8(A2): outer
  (270 :> Do("jsr", L, At("ai", 11, 0), 0)) @@                  \* JSR (A3): inner
  (272 :> Do("move", W, At("d", 0, 0), Below)) @@               \* MOVE D0,-40(A7)
  (276 :> Do("jmp", L, At("al", SP, Tag + 320), 0)) @@          \* JMP thunk
  (284 :> Do("addq", L, At("d", 0, 0), 4)) @@
  (286 :> Do("bra", B, At("none", 0, 62), 0)) @@                \* BRA itself
  (320 :> Do("jmp", L, At("ai", 12, 0), 0)) @@                  \* JMP (A4): main
  (384 :> Do("addq", L, At("d", 0, 0), 1)) @@
  (386 :> Do("rts", L, NoOperand, 0)) @@
  (448 :> Do("jsr", L, At("ai", 11, 0), 0)) @@                  \* JSR (A3): inner
  (450 :> Do("addq", L, At("d", 0, 0), 2)) @@
  (452 :> Do("rts", L, NoOperand, 0))

\* The opcode words the OS tells apart, numbered
MCEncode(i) ==
  CASE i.op = "jsr" /\ i.ea.mode = "al" -> 1
    [] i.op = "jsr" /\ i.ea.mode = "di" -> 2
    [] i.op = "jsr" /\ i.ea.mode = "ai" -> 3
    [] i.op = "jmp"                     -> 4
    [] i.op = "rts"                     -> 5
    [] i.op = "rte"                     -> 6
    [] i.op = "tst"                     -> 7
    [] OTHER                            -> 0
Forms == <<"jsrlong", "jsrdisp", "jsrind", "jump", "rts", "rte", "tst">>
MCFormOf(w) == IF w \in DOMAIN Forms THEN Forms[w] ELSE "other"

Registers == (10 :> Tag + 440) @@ (11 :> Tag + 384) @@ (12 :> Tag + 284) @@ (SP :> 704)

MCSegments == {Main, Thunk, Inner, Outer, Growth}
MCSwappable == {Main, Thunk, Inner, Outer}

MCStart ==
  [da |-> [r \in 0 .. 15 |-> IF r \in DOMAIN Registers THEN Registers[r] ELSE 0],
   save |-> [r \in 0 .. 15 |-> 0], base |-> [s \in {0, 1} |-> IF s = 0 THEN 0 ELSE 640],
   pc |-> Tag + 256, ppc |-> 0, prev |-> 0, x |-> 0, n |-> 0, z |-> 0, v |-> 0, c |-> 0,
   s |-> 0, t |-> 0, mask |-> 0, level |-> 0, nmi |-> FALSE, stopped |-> {},
   run |-> "normal", instr |-> InstructionYes, fetching |-> FALSE, pending |-> FALSE,
   ir |-> [op |-> "rte"], flt |-> NoFault, out |-> UNION {Thunk, Inner, Outer, Growth},
   mem |-> [a \in MCRam |-> 0]]


=============================================================================
