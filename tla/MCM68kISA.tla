------------------------------ MODULE MCM68kISA ------------------------------
(***************************************************************************)
(* The instruction set on a machine with 6-bit bytes (12-bit words, 24-bit  *)
(* longs) and a 12-bit bus: every flag, carry and extension boundary of the *)
(* real widths has its counterpart, in integers TLC can hold.               *)
(***************************************************************************)
EXTENDS M68kISA

LongOf(a) == <<0, 0, a \div 64, a % 64>>

\* The exception vectors, and eight words of program
MCRom == [a \in 0 .. 191 \cup 256 .. 271 |->
            IF a < 192 THEN LongOf(512 + 4 * (a \div 4))[(a % 4) + 1] ELSE 0]

DataArea == 768 .. 783
SupervisorStack == 832 .. 859
UserStack == 896 .. 907
MCRam == DataArea \cup SupervisorStack \cup UserStack

MCEncode(i) == 0

\* Data registers on the boundaries of a byte, a word and a long
Data == <<0, 1, 2^24 - 1, 2^23, 2^23 - 1, 5 * 4096 + 2047, 9 * 4096 + 2048 + 32, 64 * 6 + 31>>

\* A0: data; A1: odd; A3: a long runs off the area; A4: nothing there.  The absolute
\* addresses are read-only memory, an odd one, and one wider than the bus.
Address == <<770, 773, 4, 782, 1024, 774, 776>>

\* The saved stack pointer of the mode the machine is in is an old one.
Machine0 ==
  [da |-> [r \in 0 .. 15 |-> IF r < 8 THEN Data[r + 1] ELSE IF r < 15 THEN Address[r - 7] ELSE 848],
   save |-> [r \in 0 .. 15 |-> 0], base |-> [s \in {0, 1} |-> IF s = 0 THEN 904 ELSE 832],
   pc |-> 256, ppc |-> 0, prev |-> 0, x |-> 0, n |-> 0, z |-> 1, v |-> 0, c |-> 0,
   s |-> 1, t |-> 0, mask |-> 7, level |-> 0, nmi |-> FALSE, stopped |-> {},
   run |-> "normal", instr |-> InstructionYes, fetching |-> FALSE, pending |-> FALSE,
   ir |-> [op |-> "none"], flt |-> NoFault, out |-> {},
   mem |-> [a \in MCRam |-> ((13 * a) + 7) % 64]]

\* The same in user mode, every flag the other way round
User0 ==
  [Machine0 EXCEPT !.s = 0, !.da[SP] = 904, !.base = [s \in {0, 1} |-> IF s = 0 THEN 896 ELSE 848],
                   !.x = 1, !.n = 1, !.z = 0, !.v = 1, !.c = 1, !.mask = 0]

\* Two decimal digits in every data register, and a carry
Decimals == <<0, 1, 5, 8, 13, 36, 40, 45>>
Digits0 == [Machine0 EXCEPT !.da = [r \in 0 .. 15 |-> IF r < 8 THEN Decimals[r + 1] ELSE Machine0.da[r]], !.x = 1]

\* Missing pages: a word of data, the top of the user's stack, or the second word of the program
Paged(c, missing) == [c EXCEPT !.out = missing]

MCStarts == {Machine0, User0, Digits0, Paged(User0, {772, 773, 902, 903}), Paged(User0, {258, 259})}

MCDisplacements == {2}
MCShort == {6, 773}
MCLong == {2^20 + 772}
MCIndexes == {[index |-> 1, long |-> FALSE, ext |-> 3], [index |-> 10, long |-> TRUE, ext |-> 62]}
MCLists == {{}, {0, 9}, {8, 1, 15}}
MCOffsets == {2, 63, 32}
MCImmediates == {0, 1, 32, 63, 2047, 2048, 2^23, 2^24 - 1}
=============================================================================
