-------------------------------- MODULE Words --------------------------------
(***************************************************************************)
(* The arithmetic of the processor core (Sources/CMusashi/m68kcpu.h): words *)
(* of a fixed width, sign extension, and the formulas that derive the       *)
(* condition flags.  A size is a number of bits.  ByteBits is 8 on the      *)
(* machine; every other width is derived from it, so that a model checker   *)
(* can use narrow words and a proof can leave the width open.  A flag is 0  *)
(* or 1: the C code keeps a flag as the bit, in place, of the value it came *)
(* from (bit 7 of FLAG_N, bit 8 of FLAG_C and FLAG_X, FLAG_Z non-zero when  *)
(* the result was), which the macros below normalise.                       *)
(***************************************************************************)
EXTENDS Integers

CONSTANT ByteBits        \* bits in a byte: 8 on the machine

ASSUME ByteBitsAssumption == ByteBits \in Nat /\ ByteBits >= 6 /\ ByteBits % 2 = 0

B == ByteBits
W == 2 * ByteBits
L == 4 * ByteBits

\* What the proofs need to know of the powers of two
ASSUME PowersAssumption == \A n \in 0 .. L : 2^n \in Nat \ {0} /\ 2^(n + 1) = 2 * 2^n

Sizes == {B, W, L}
Bytes(size) == size \div ByteBits

Values(size) == 0 .. (2^size - 1)
Flag == {0, 1}

AsFlag(holds) == IF holds THEN 1 ELSE 0

\* BIT_n(A), GET_MSB_8/16/32
Bit(x, n) == (x \div 2^n) % 2
Msb(size, x) == Bit(x, size - 1)

\* MASK_OUT_ABOVE_8/16/32
Mask(size, x) == x % 2^size

\* MAKE_INT_8/16/32: the two's-complement reading of the low bits
Signed(size, x) == LET u == Mask(size, x) IN IF u >= 2^(size - 1) THEN u - 2^size ELSE u

\* A sign-extended operand as the 32-bit register holds it
Extend(size, x) == Mask(L, Signed(size, x))

\* MASK_OUT_BELOW_8/16(old) | new: the low bits replaced, the others kept
Low(size, old, new) == old - Mask(size, old) + Mask(size, new)

(***************************************************************************)
(* Flags of a result.  `res` is the result before it is masked.  The byte   *)
(* and word carries are the bit just above the result; a long has no such   *)
(* bit in a 32-bit variable, so CFLAG_ADD_32 and CFLAG_SUB_32 recompute it  *)
(* from the three sign bits.                                                *)
(***************************************************************************)
NFlag(size, res) == Msb(size, Mask(size, res))
ZFlag(size, res) == AsFlag(Mask(size, res) = 0)

\* CFLAG_ADD_32 and CFLAG_SUB_32 on the sign bits of source, destination, result
CarryOfSigns(s, d, r) == (s = 1 /\ d = 1) \/ (r = 0 /\ (s = 1 \/ d = 1))
BorrowOfSigns(s, d, r) == (s = 1 /\ r = 1) \/ (d = 0 /\ (s = 1 \/ r = 1))

\* VFLAG_ADD_8/16/32 and VFLAG_SUB_8/16/32 on the same bits
OverflowOfSigns(s, d, r) == s # r /\ d # r
UnderflowOfSigns(s, d, r) == s # d /\ r # d

\* A mutated form: the carry of a long out of two set sign bits only.
CarryAddBothSigns(size, src, dst, res) ==
  IF size = L THEN AsFlag(Msb(L, src) = 1 /\ Msb(L, dst) = 1) ELSE Bit(res, size)

CarryAdd(size, src, dst, res) ==
  IF size = L
    THEN AsFlag(CarryOfSigns(Msb(L, src), Msb(L, dst), Msb(L, Mask(L, res))))
    ELSE Bit(res, size)

CarrySub(size, src, dst, res) ==
  IF size = L
    THEN AsFlag(BorrowOfSigns(Msb(L, src), Msb(L, dst), Msb(L, Mask(L, res))))
    ELSE Bit(res, size)

OverflowAdd(size, src, dst, res) ==
  AsFlag(OverflowOfSigns(Msb(size, src), Msb(size, dst), Msb(size, Mask(size, res))))

OverflowSub(size, src, dst, res) ==
  AsFlag(UnderflowOfSigns(Msb(size, src), Msb(size, dst), Msb(size, Mask(size, res))))

=============================================================================
