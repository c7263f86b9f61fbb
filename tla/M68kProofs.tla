------------------------------- MODULE M68kProofs -------------------------------
(*****************************************************************************)
(* The processor of the core, for words of any width and any map of the bus. *)
(*                                                                           *)
(* First the adders.  m68kcpu.h has two formulas for a carry (the bit above  *)
(* a byte's or a word's result; three sign bits for a long) and one for an   *)
(* overflow (the same three bits).  Here they are compared with what a       *)
(* programmer reads in them: the exact sum or difference does, or does not,  *)
(* fit the operand size; then with the handlers of M68kArith, and with a     *)
(* chain of ADD and ADDX over numbers of two words.  With h half the number  *)
(* of values, a sign bit says x >= h, and every formula becomes linear       *)
(* arithmetic about h.                                                       *)
(*                                                                           *)
(* Then what the proofs about M68kExecute (CoreProofs) need of exceptions:   *)
(* words and longs in memory, the stack, the two frames, the vectors, the    *)
(* status register, and what an interrupt, a bus error, the top of the loop  *)
(* and an RTE each do to a machine.                                          *)
(*****************************************************************************)
EXTENDS M68kExecute, WellFoundedInduction, TLAPS

Half(size) == 2^(size - 1)
SignedRange(size) == -Half(size) .. Half(size) - 1

(***************************************************************************)
(* Words and halves.                                                       *)
(***************************************************************************)
LEMMA SizeFacts ==
  ASSUME NEW size \in Sizes
  PROVE  /\ size \in Nat /\ size >= 1 /\ size <= L
         /\ Half(size) \in Nat /\ Half(size) >= 1
         /\ 2^size = 2 * Half(size)
         /\ Values(size) = 0 .. 2 * Half(size) - 1
<1>1. size \in Nat /\ size >= 1 /\ size <= L
  BY ByteBitsAssumption DEF Sizes, B, W, L
<1>2. size - 1 \in 0 .. L
  BY <1>1, ByteBitsAssumption DEF L
<1>3. 2^(size - 1) \in Nat \ {0} /\ 2^((size - 1) + 1) = 2 * 2^(size - 1)
  BY <1>2, PowersAssumption
<1>4. (size - 1) + 1 = size
  BY <1>1
<1> QED
  BY <1>1, <1>3, <1>4 DEF Half, Values

LEMMA WidthsDiffer == L # B /\ L # W /\ B \in Sizes /\ W \in Sizes /\ L \in Sizes
  BY ByteBitsAssumption DEF Sizes, B, W, L

\* Dividing by a positive number, on the ranges sums and differences stay in
LEMMA Dividing ==
  ASSUME NEW k \in Nat, k >= 1, NEW r \in Int
  PROVE  /\ (r >= 0 /\ r < k => r \div k = 0 /\ r % k = r)
         /\ (r >= k /\ r < 2 * k => r \div k = 1 /\ r % k = r - k)
         /\ (r < 0 /\ r >= -k => r \div k = -1 /\ r % k = r + k)
  OBVIOUS

LEMMA DividingSum ==
  ASSUME NEW k \in Nat, k >= 1, NEW r \in Int, r >= 0, r < 2 * k
  PROVE  r \div k = IF r >= k THEN 1 ELSE 0
  BY Dividing

LEMMA DividingDifference ==
  ASSUME NEW k \in Nat, k >= 1, NEW r \in Int, r >= -k, r < k
  PROVE  r \div k = IF r < 0 THEN -1 ELSE 0
  BY Dividing

LEMMA MsbOfWord ==
  ASSUME NEW size \in Sizes, NEW x \in Values(size)
  PROVE  Msb(size, x) = AsFlag(x >= Half(size))
<1> DEFINE h == Half(size)
<1>1. h \in Nat /\ h >= 1 /\ x \in Nat /\ x < 2 * h
  BY SizeFacts
<1>2. x \div h = IF x >= h THEN 1 ELSE 0
  BY <1>1, Dividing
<1>3. Msb(size, x) = (x \div h) % 2
  BY DEF Msb, Bit, Half
<1> QED
  BY <1>1, <1>2, <1>3 DEF AsFlag

LEMMA SignedOfWord ==
  ASSUME NEW size \in Sizes, NEW x \in Values(size)
  PROVE  /\ Mask(size, x) = x
         /\ Signed(size, x) = IF x >= Half(size) THEN x - 2 * Half(size) ELSE x
<1> DEFINE h == Half(size)
<1>1. h \in Nat /\ h >= 1 /\ x \in Nat /\ x < 2 * h /\ 2^size = 2 * h
  BY SizeFacts
<1>2. x % (2 * h) = x
  BY <1>1, Dividing
<1> QED
  BY <1>1, <1>2 DEF Mask, Signed, Half

LEMMA MaskOfSum ==
  ASSUME NEW size \in Sizes, NEW r \in -2 * Half(size) .. 4 * Half(size) - 1
  PROVE  /\ Mask(size, r) \in Values(size)
         /\ Mask(size, r) = IF r < 0 THEN r + 2 * Half(size)
                            ELSE IF r >= 2 * Half(size) THEN r - 2 * Half(size) ELSE r
<1> DEFINE k == 2 * Half(size)
<1>1. k \in Nat /\ k >= 1 /\ 2^size = k /\ Values(size) = 0 .. k - 1 /\ r \in Int
  BY SizeFacts
<1>2. r >= -k /\ r < 2 * k
  BY SizeFacts
<1>3. Mask(size, r) = r % k
  BY <1>1 DEF Mask
<1>4. r % k = IF r < 0 THEN r + k ELSE IF r >= k THEN r - k ELSE r
  <2> HIDE DEF k
  <2> QED BY <1>1, <1>2, Dividing
<1> QED
  BY <1>1, <1>2, <1>3, <1>4

(***************************************************************************)
(* The carry and the borrow.                                               *)
(***************************************************************************)
\* The carry of a sum, whichever formula its width uses, is set exactly when the sum of
\* the operands and of the X bit does not fit (CFLAG_8, CFLAG_16, CFLAG_ADD_32).
THEOREM CarryIsExact ==
  ASSUME NEW size \in Sizes, NEW src \in Values(size), NEW dst \in Values(size), NEW x \in Flag
  PROVE  CarryAdd(size, src, dst, dst + src + x) = AsFlag(dst + src + x \notin Values(size))
<1> DEFINE h == Half(size)
           r == dst + src + x
<1>1. /\ h \in Nat /\ h >= 1 /\ 2^size = 2 * h /\ Values(size) = 0 .. 2 * h - 1
      /\ src \in 0 .. 2 * h - 1 /\ dst \in 0 .. 2 * h - 1 /\ x \in {0, 1}
  BY SizeFacts DEF Flag
<1>2. r \in 0 .. 4 * h - 1 /\ r \in Int
  BY <1>1
<1>3. CASE size = L
  <2>1. /\ Mask(size, r) \in Values(size)
        /\ Mask(size, r) = IF r >= 2 * h THEN r - 2 * h ELSE r
    BY <1>1, <1>2, MaskOfSum
  <2>2. /\ Msb(size, src) = AsFlag(src >= h) /\ Msb(size, dst) = AsFlag(dst >= h)
        /\ Msb(size, Mask(size, r)) = AsFlag(Mask(size, r) >= h)
    BY <2>1, MsbOfWord
  <2>3. CarryOfSigns(Msb(L, src), Msb(L, dst), Msb(L, Mask(L, r))) <=> r >= 2 * h
    BY <1>1, <1>3, <2>1, <2>2 DEF CarryOfSigns, AsFlag
  <2> QED
    BY <1>1, <1>2, <1>3, <2>3 DEF CarryAdd, AsFlag
<1>4. CASE size # L
  <2> DEFINE k == 2 * h
  <2>a. k \in Nat /\ k >= 1 /\ r >= 0 /\ r < 2 * k
    BY <1>1, <1>2
  <2>1. r \div k = IF r >= k THEN 1 ELSE 0
    BY ONLY <1>2, <2>a, DividingSum
  <2>2. Bit(r, size) = AsFlag(r >= 2 * h)
    BY <1>1, <2>1 DEF Bit, AsFlag
  <2> QED
    BY <1>1, <1>2, <1>4, <2>2 DEF CarryAdd, AsFlag
<1> QED
  BY <1>3, <1>4

\* The same of a difference: the borrow (CFLAG_8, CFLAG_16, CFLAG_SUB_32).
THEOREM BorrowIsExact ==
  ASSUME NEW size \in Sizes, NEW src \in Values(size), NEW dst \in Values(size), NEW x \in Flag
  PROVE  CarrySub(size, src, dst, dst - src - x) = AsFlag(dst - src - x \notin Values(size))
<1> DEFINE h == Half(size)
           r == dst - src - x
<1>1. /\ h \in Nat /\ h >= 1 /\ 2^size = 2 * h /\ Values(size) = 0 .. 2 * h - 1
      /\ src \in 0 .. 2 * h - 1 /\ dst \in 0 .. 2 * h - 1 /\ x \in {0, 1}
  BY SizeFacts DEF Flag
<1>2. r \in -2 * h .. 4 * h - 1 /\ r < 2 * h /\ r \in Int
  BY <1>1
<1>3. CASE size = L
  <2>1. /\ Mask(size, r) \in Values(size)
        /\ Mask(size, r) = IF r < 0 THEN r + 2 * h ELSE r
    <3>1. /\ Mask(size, r) \in Values(size)
          /\ Mask(size, r) = IF r < 0 THEN r + 2 * h ELSE IF r >= 2 * h THEN r - 2 * h ELSE r
      BY <1>2, MaskOfSum
    <3> QED BY <1>1, <1>2, <3>1
  <2>2. /\ Msb(size, src) = AsFlag(src >= h) /\ Msb(size, dst) = AsFlag(dst >= h)
        /\ Msb(size, Mask(size, r)) = AsFlag(Mask(size, r) >= h)
    BY <2>1, MsbOfWord
  <2>3. BorrowOfSigns(Msb(L, src), Msb(L, dst), Msb(L, Mask(L, r))) <=> r < 0
    BY <1>1, <1>3, <2>1, <2>2 DEF BorrowOfSigns, AsFlag
  <2> QED
    BY <1>1, <1>2, <1>3, <2>3 DEF CarrySub, AsFlag
<1>4. CASE size # L
  <2> DEFINE k == 2 * h
  <2>a. k \in Nat /\ k >= 1 /\ r >= -k /\ r < k
    BY <1>1, <1>2
  <2>1. r \div k = IF r < 0 THEN -1 ELSE 0
    BY ONLY <1>2, <2>a, DividingDifference
  <2>2. Bit(r, size) = AsFlag(r < 0)
    BY <1>1, <2>1 DEF Bit, AsFlag
  <2> QED
    BY <1>1, <1>2, <1>4, <2>2 DEF CarrySub, AsFlag
<1> QED
  BY <1>3, <1>4

(***************************************************************************)
(* The overflow and the sign.                                              *)
(***************************************************************************)
\* V is set by a sum exactly when the sum of the operands read as signed numbers is out
\* of range (VFLAG_ADD_8, _16, _32).
THEOREM OverflowIsExact ==
  ASSUME NEW size \in Sizes, NEW src \in Values(size), NEW dst \in Values(size), NEW x \in Flag
  PROVE  OverflowAdd(size, src, dst, dst + src + x)
           = AsFlag(Signed(size, dst) + Signed(size, src) + x \notin SignedRange(size))
<1> DEFINE h == Half(size)
           r == dst + src + x
<1>1. /\ h \in Nat /\ h >= 1 /\ Values(size) = 0 .. 2 * h - 1
      /\ src \in 0 .. 2 * h - 1 /\ dst \in 0 .. 2 * h - 1 /\ x \in {0, 1}
  BY SizeFacts DEF Flag
<1>2. /\ Mask(size, r) \in Values(size)
      /\ Mask(size, r) = IF r >= 2 * h THEN r - 2 * h ELSE r
  BY <1>1, MaskOfSum, SMTT(30)
<1>3. /\ Msb(size, src) = AsFlag(src >= h) /\ Msb(size, dst) = AsFlag(dst >= h)
      /\ Msb(size, Mask(size, r)) = AsFlag(Mask(size, r) >= h)
  BY <1>2, MsbOfWord
<1>4. /\ Signed(size, src) = IF src >= h THEN src - 2 * h ELSE src
      /\ Signed(size, dst) = IF dst >= h THEN dst - 2 * h ELSE dst
  BY SignedOfWord
<1>5. OverflowOfSigns(Msb(size, src), Msb(size, dst), Msb(size, Mask(size, r)))
        <=> Signed(size, dst) + Signed(size, src) + x \notin -h .. h - 1
  <2> DEFINE u == Mask(size, r)
             S == src >= h
             D == dst >= h
             R == u >= h
  <2>1. OverflowOfSigns(Msb(size, src), Msb(size, dst), Msb(size, u)) <=> (S /\ D /\ ~R) \/ (~S /\ ~D /\ R)
    BY <1>3 DEF OverflowOfSigns, AsFlag
  <2>2. u = IF r >= 2 * h THEN r - 2 * h ELSE r
    BY <1>2
  <2>3. /\ Signed(size, src) = IF S THEN src - 2 * h ELSE src
        /\ Signed(size, dst) = IF D THEN dst - 2 * h ELSE dst
    BY <1>4
  <2>4. ((S /\ D /\ ~R) \/ (~S /\ ~D /\ R)) <=> Signed(size, dst) + Signed(size, src) + x \notin -h .. h - 1
    <3> HIDE DEF h, u
    <3> QED BY <1>1, <2>2, <2>3
  <2> QED BY <2>1, <2>4
<1> QED
  BY <1>5 DEF OverflowAdd, SignedRange, AsFlag

\* And by a difference or a comparison (VFLAG_SUB_8, _16, _32).
THEOREM UnderflowIsExact ==
  ASSUME NEW size \in Sizes, NEW src \in Values(size), NEW dst \in Values(size), NEW x \in Flag
  PROVE  OverflowSub(size, src, dst, dst - src - x)
           = AsFlag(Signed(size, dst) - Signed(size, src) - x \notin SignedRange(size))
<1> DEFINE h == Half(size)
           r == dst - src - x
<1>1. /\ h \in Nat /\ h >= 1 /\ Values(size) = 0 .. 2 * h - 1
      /\ src \in 0 .. 2 * h - 1 /\ dst \in 0 .. 2 * h - 1 /\ x \in {0, 1}
  BY SizeFacts DEF Flag
<1>2. /\ Mask(size, r) \in Values(size)
      /\ Mask(size, r) = IF r < 0 THEN r + 2 * h ELSE r
  <2>1. r \in -2 * h .. 4 * h - 1 /\ r < 2 * h /\ r \in Int
    BY <1>1
  <2>2. /\ Mask(size, r) \in Values(size)
        /\ Mask(size, r) = IF r < 0 THEN r + 2 * h ELSE IF r >= 2 * h THEN r - 2 * h ELSE r
    BY <2>1, MaskOfSum
  <2> QED BY <1>1, <2>1, <2>2
<1>3. /\ Msb(size, src) = AsFlag(src >= h) /\ Msb(size, dst) = AsFlag(dst >= h)
      /\ Msb(size, Mask(size, r)) = AsFlag(Mask(size, r) >= h)
  BY <1>2, MsbOfWord
<1>4. /\ Signed(size, src) = IF src >= h THEN src - 2 * h ELSE src
      /\ Signed(size, dst) = IF dst >= h THEN dst - 2 * h ELSE dst
  BY SignedOfWord
<1>5. UnderflowOfSigns(Msb(size, src), Msb(size, dst), Msb(size, Mask(size, r)))
        <=> Signed(size, dst) - Signed(size, src) - x \notin -h .. h - 1
  <2> DEFINE u == Mask(size, r)
             S == src >= h
             D == dst >= h
             R == u >= h
  <2>1. UnderflowOfSigns(Msb(size, src), Msb(size, dst), Msb(size, u)) <=> (S /\ ~D /\ R) \/ (~S /\ D /\ ~R)
    BY <1>3 DEF UnderflowOfSigns, AsFlag
  <2>2. u = IF r < 0 THEN r + 2 * h ELSE r
    BY <1>2
  <2>3. /\ Signed(size, src) = IF S THEN src - 2 * h ELSE src
        /\ Signed(size, dst) = IF D THEN dst - 2 * h ELSE dst
    BY <1>4
  <2>4. ((S /\ ~D /\ R) \/ (~S /\ D /\ ~R)) <=> Signed(size, dst) - Signed(size, src) - x \notin -h .. h - 1
    <3> HIDE DEF h, u
    <3> QED BY <1>1, <2>2, <2>3
  <2> QED BY <2>1, <2>4
<1> QED
  BY <1>5 DEF OverflowSub, SignedRange, AsFlag

LEMMA SignOfResult ==
  ASSUME NEW size \in Sizes, NEW r \in -2 * Half(size) .. 4 * Half(size) - 1
  PROVE  NFlag(size, r) = AsFlag(Signed(size, Mask(size, r)) < 0)
<1> DEFINE h == Half(size)
           u == Mask(size, r)
<1>1. u \in Values(size)
  BY MaskOfSum
<1>2. h \in Nat /\ h >= 1 /\ u \in 0 .. 2 * h - 1
  BY <1>1, SizeFacts
<1>3. Msb(size, u) = AsFlag(u >= h) /\ Signed(size, u) = IF u >= h THEN u - 2 * h ELSE u
  BY <1>1, MsbOfWord, SignedOfWord
<1> QED
  BY <1>2, <1>3 DEF NFlag, AsFlag

(***************************************************************************)
(* The handlers of M68kArith.                                              *)
(***************************************************************************)
\* A machine in the middle of an instruction that has not faulted
Sound(c) ==
  /\ {"x", "n", "z", "v", "c", "flt"} \subseteq DOMAIN c
  /\ c.flt = NoFault
  /\ c.x \in Flag /\ c.z \in Flag

\* What the flags of k say of a result v: `exact` unsigned, `signed` signed
Tells(k, size, v, exact, signed) ==
  /\ v = Mask(size, exact) /\ v \in Values(size)
  /\ k.c = AsFlag(exact \notin Values(size))
  /\ k.v = AsFlag(signed \notin SignedRange(size))
  /\ k.n = AsFlag(Signed(size, v) < 0)

LEMMA Ranges ==
  ASSUME NEW size \in Sizes, NEW src \in Values(size), NEW dst \in Values(size), NEW x \in Flag
  PROVE  /\ dst + src + x \in -2 * Half(size) .. 4 * Half(size) - 1
         /\ dst - src - x \in -2 * Half(size) .. 4 * Half(size) - 1
         /\ dst + src + x \in Int /\ dst - src - x \in Int
         /\ dst \in Int /\ src \in Int
         /\ dst + src + 0 = dst + src /\ dst - src - 0 = dst - src
<1> DEFINE h == Half(size)
<1>1. h \in Nat /\ h >= 1 /\ Values(size) = 0 .. 2 * h - 1
  BY SizeFacts
<1>2. src \in 0 .. 2 * h - 1 /\ dst \in 0 .. 2 * h - 1 /\ x \in {0, 1}
  BY <1>1 DEF Flag
<1> HIDE DEF h
<1>3. dst + src + x \in -2 * h .. 4 * h - 1 /\ dst - src - x \in -2 * h .. 4 * h - 1
  BY <1>1, <1>2
<1>4. dst + src + 0 = dst + src /\ dst - src - 0 = dst - src
  BY <1>1, <1>2
<1> USE DEF h
<1> QED
  BY <1>2, <1>3, <1>4

LEMMA SignedIsInt ==
  ASSUME NEW size \in Sizes, NEW v \in Values(size)
  PROVE  Signed(size, v) \in Int /\ Signed(size, v) + 0 = Signed(size, v)
  BY SizeFacts, SignedOfWord

LEMMA ZeroIsFlag == 0 \in Flag
  BY DEF Flag

\* ADD leaves the sum modulo the size; C and X say that it did not fit, V that the signed
\* sum did not, N and Z what it looks like (m68k_op_add_*, addi, addq).
THEOREM AdditionIsExact ==
  ASSUME NEW c, Sound(c), NEW size \in Sizes, NEW src \in Values(size), NEW dst \in Values(size)
  PROVE  LET r == Adding(c, size, src, dst) IN
         /\ Tells(r.m, size, r.v, dst + src, Signed(size, dst) + Signed(size, src))
         /\ r.m.x = r.m.c /\ r.m.z = AsFlag(r.v = 0)
<1> DEFINE r == Adding(c, size, src, dst)
           t == dst + src
<1>1. r.v = Mask(size, t)
  BY DEF Adding
<1>2. /\ r.m.n = NFlag(size, t) /\ r.m.z = ZFlag(size, t) /\ r.m.v = OverflowAdd(size, src, dst, t)
      /\ r.m.c = CarryAdd(size, src, dst, t) /\ r.m.x = CarryAdd(size, src, dst, t)
  BY DEF Adding, Sound, Go
<1>3. /\ t = dst + src + 0 /\ t \in -2 * Half(size) .. 4 * Half(size) - 1
      /\ Signed(size, dst) + Signed(size, src) + 0 = Signed(size, dst) + Signed(size, src)
  BY ZeroIsFlag, Ranges, SignedIsInt
<1>4. r.v \in Values(size) /\ NFlag(size, t) = AsFlag(Signed(size, Mask(size, t)) < 0)
  BY <1>1, <1>3, MaskOfSum, SignOfResult
<1>5. CarryAdd(size, src, dst, dst + src + 0) = AsFlag(dst + src + 0 \notin Values(size))
  BY ZeroIsFlag, CarryIsExact
<1>6. OverflowAdd(size, src, dst, dst + src + 0)
        = AsFlag(Signed(size, dst) + Signed(size, src) + 0 \notin SignedRange(size))
  BY ZeroIsFlag, OverflowIsExact
<1>7. Tells(r.m, size, r.v, t, Signed(size, dst) + Signed(size, src))
  BY <1>1, <1>2, <1>3, <1>4, <1>5, <1>6 DEF Tells
<1> QED
  BY <1>1, <1>2, <1>7 DEF ZFlag

\* SUB and CMP leave the difference, C says that it borrowed, V that the signed
\* difference is out of range (m68k_op_sub_*, subi, subq, cmp, cmpi, neg); a comparison
\* leaves X alone.
THEOREM SubtractionIsExact ==
  ASSUME NEW c, Sound(c), NEW size \in Sizes, NEW src \in Values(size), NEW dst \in Values(size)
  PROVE  LET k == Comparing(c, size, src, dst)
             r == Subtracting(c, size, src, dst)
         IN  /\ Tells(k, size, r.v, dst - src, Signed(size, dst) - Signed(size, src))
             /\ k.z = AsFlag(dst = src) /\ k.x = c.x
             /\ r.m = [k EXCEPT !.x = k.c]
<1> DEFINE k == Comparing(c, size, src, dst)
           r == Subtracting(c, size, src, dst)
           t == dst - src
<1>1. r.v = Mask(size, t) /\ r.m = Go(k, [k EXCEPT !.x = k.c])
  BY DEF Subtracting, WithX
<1>2. /\ k.n = NFlag(size, t) /\ k.z = ZFlag(size, t) /\ k.v = OverflowSub(size, src, dst, t)
      /\ k.c = CarrySub(size, src, dst, t) /\ k.x = c.x /\ k.flt = NoFault
  BY DEF Comparing, Sound, Go
<1>3. /\ t = dst - src - 0 /\ t \in -2 * Half(size) .. 4 * Half(size) - 1
      /\ Signed(size, dst) - Signed(size, src) - 0 = Signed(size, dst) - Signed(size, src)
  BY ZeroIsFlag, Ranges, SignedIsInt
<1>4. r.v \in Values(size) /\ NFlag(size, t) = AsFlag(Signed(size, Mask(size, t)) < 0)
  BY <1>1, <1>3, MaskOfSum, SignOfResult
<1>5. CarrySub(size, src, dst, dst - src - 0) = AsFlag(dst - src - 0 \notin Values(size))
  BY ZeroIsFlag, BorrowIsExact
<1>6. OverflowSub(size, src, dst, dst - src - 0)
        = AsFlag(Signed(size, dst) - Signed(size, src) - 0 \notin SignedRange(size))
  BY ZeroIsFlag, UnderflowIsExact
<1>7. Tells(k, size, r.v, t, Signed(size, dst) - Signed(size, src))
  BY <1>1, <1>2, <1>3, <1>4, <1>5, <1>6 DEF Tells
<1>8. Mask(size, t) = 0 <=> dst = src
  <2>1. /\ Half(size) \in Nat /\ Half(size) >= 1
        /\ src \in 0 .. 2 * Half(size) - 1 /\ dst \in 0 .. 2 * Half(size) - 1
    BY SizeFacts
  <2>2. Mask(size, t) = IF t < 0 THEN t + 2 * Half(size)
                        ELSE IF t >= 2 * Half(size) THEN t - 2 * Half(size) ELSE t
    BY <1>3, MaskOfSum
  <2> QED
    BY <2>1, <2>2
<1> QED
  BY <1>1, <1>2, <1>7, <1>8 DEF ZFlag, Go

\* ADDX adds the X bit too, and only ever clears Z (m68k_op_addx_*).
THEOREM ExtendedAdditionIsExact ==
  ASSUME NEW c, Sound(c), NEW size \in Sizes, NEW src \in Values(size), NEW dst \in Values(size)
  PROVE  LET r == AddingX(c, size, src, dst) IN
         /\ Tells(r.m, size, r.v, dst + src + c.x, Signed(size, dst) + Signed(size, src) + c.x)
         /\ r.m.x = r.m.c /\ r.m.z = AsFlag(r.v = 0 /\ c.z = 1)
<1> DEFINE r == AddingX(c, size, src, dst)
           t == dst + src + c.x
<1>1. r.v = Mask(size, t)
  BY DEF AddingX
<1>2. /\ r.m.n = NFlag(size, t) /\ r.m.v = OverflowAdd(size, src, dst, t)
      /\ r.m.z = IF Mask(size, t) = 0 THEN c.z ELSE 0
      /\ r.m.c = CarryAdd(size, src, dst, t) /\ r.m.x = CarryAdd(size, src, dst, t)
  BY DEF AddingX, Sound, Go
<1>3. c.x \in Flag /\ c.z \in {0, 1}
  BY DEF Sound, Flag
<1>4. t \in -2 * Half(size) .. 4 * Half(size) - 1
  BY <1>3, Ranges
<1>5. r.v \in Values(size) /\ NFlag(size, t) = AsFlag(Signed(size, Mask(size, t)) < 0)
  BY <1>1, <1>4, MaskOfSum, SignOfResult
<1>6. CarryAdd(size, src, dst, t) = AsFlag(t \notin Values(size))
  BY <1>3, CarryIsExact
<1>7. OverflowAdd(size, src, dst, t)
        = AsFlag(Signed(size, dst) + Signed(size, src) + c.x \notin SignedRange(size))
  BY <1>3, OverflowIsExact
<1>8. Tells(r.m, size, r.v, t, Signed(size, dst) + Signed(size, src) + c.x)
  BY <1>1, <1>2, <1>5, <1>6, <1>7 DEF Tells
<1>9. r.m.z = AsFlag(r.v = 0 /\ c.z = 1)
  BY <1>1, <1>2, <1>3 DEF AsFlag
<1> QED
  BY <1>2, <1>8, <1>9

\* SUBX, the same of a difference (m68k_op_subx_*, negx).
THEOREM ExtendedSubtractionIsExact ==
  ASSUME NEW c, Sound(c), NEW size \in Sizes, NEW src \in Values(size), NEW dst \in Values(size)
  PROVE  LET r == SubtractingX(c, size, src, dst) IN
         /\ Tells(r.m, size, r.v, dst - src - c.x, Signed(size, dst) - Signed(size, src) - c.x)
         /\ r.m.x = r.m.c /\ r.m.z = AsFlag(r.v = 0 /\ c.z = 1)
<1> DEFINE r == SubtractingX(c, size, src, dst)
           t == dst - src - c.x
<1>1. r.v = Mask(size, t)
  BY DEF SubtractingX
<1>2. /\ r.m.n = NFlag(size, t) /\ r.m.v = OverflowSub(size, src, dst, t)
      /\ r.m.z = IF Mask(size, t) = 0 THEN c.z ELSE 0
      /\ r.m.c = CarrySub(size, src, dst, t) /\ r.m.x = CarrySub(size, src, dst, t)
  BY DEF SubtractingX, Sound, Go
<1>3. c.x \in Flag /\ c.z \in {0, 1}
  BY DEF Sound, Flag
<1>4. t \in -2 * Half(size) .. 4 * Half(size) - 1
  BY <1>3, Ranges
<1>5. r.v \in Values(size) /\ NFlag(size, t) = AsFlag(Signed(size, Mask(size, t)) < 0)
  BY <1>1, <1>4, MaskOfSum, SignOfResult
<1>6. CarrySub(size, src, dst, t) = AsFlag(t \notin Values(size))
  BY <1>3, BorrowIsExact
<1>7. OverflowSub(size, src, dst, t)
        = AsFlag(Signed(size, dst) - Signed(size, src) - c.x \notin SignedRange(size))
  BY <1>3, UnderflowIsExact
<1>8. Tells(r.m, size, r.v, t, Signed(size, dst) - Signed(size, src) - c.x)
  BY <1>1, <1>2, <1>5, <1>6, <1>7 DEF Tells
<1>9. r.m.z = AsFlag(r.v = 0 /\ c.z = 1)
  BY <1>1, <1>2, <1>3 DEF AsFlag
<1> QED
  BY <1>2, <1>8, <1>9

(***************************************************************************)
(* Chains.                                                                 *)
(***************************************************************************)
\* What is lost from a sum comes back as its carry.
LEMMA SumSplits ==
  ASSUME NEW size \in Sizes, NEW src \in Values(size), NEW dst \in Values(size), NEW x \in Flag,
         NEW t, t = dst + src + x
  PROVE  /\ t = Mask(size, t) + 2^size * AsFlag(t \notin Values(size))
         /\ Mask(size, t) \in Values(size)
<1> DEFINE h == Half(size)
<1>1. h \in Nat /\ h >= 1 /\ Values(size) = 0 .. 2 * h - 1 /\ 2^size = 2 * h
  BY SizeFacts
<1>2. t \in -2 * h .. 4 * h - 1 /\ t \in Int /\ t >= 0
  <2>1. src >= 0 /\ dst >= 0 /\ x >= 0 /\ src \in Int /\ dst \in Int /\ x \in Int
    BY <1>1 DEF Flag
  <2>2. t \in -2 * h .. 4 * h - 1 /\ t \in Int
    BY Ranges
  <2> QED
    BY <2>1, <2>2
<1>3. /\ Mask(size, t) \in Values(size)
      /\ Mask(size, t) = IF t < 0 THEN t + 2 * h ELSE IF t >= 2 * h THEN t - 2 * h ELSE t
  BY <1>2, MaskOfSum
<1> HIDE DEF h
<1>4. CASE t \in Values(size)
  <2>1. AsFlag(t \notin Values(size)) = 0 /\ t < 2 * h
    BY <1>1, <1>4 DEF AsFlag
  <2>2. 2^size * AsFlag(t \notin Values(size)) = 0
    BY <1>1, <2>1
  <2> QED
    BY <1>1, <1>2, <1>3, <2>1, <2>2
<1>5. CASE t \notin Values(size)
  <2>1. t >= 2 * h
    BY <1>1, <1>2, <1>5
  <2>2. AsFlag(t \notin Values(size)) = 1
    BY <1>5 DEF AsFlag
  <2>3. 2^size * AsFlag(t \notin Values(size)) = 2 * h
    BY <1>1, <2>2
  <2> QED
    BY <1>1, <1>2, <1>3, <2>1, <2>3
<1> QED
  BY <1>4, <1>5

\* The arithmetic of two digits to the base M, with carries x and k.
LEMMA Digits ==
  ASSUME NEW M \in Nat, NEW a \in Nat, NEW b \in Nat, NEW p \in Nat, NEW q \in Nat,
         NEW u \in Nat, NEW v \in Nat, NEW x \in Nat, NEW k \in Nat,
         b + q = u + M * x, a + p + x = v + M * k
  PROVE  M * (M * k + v) + u = (M * a + b) + (M * p + q)
<1>1. M * (a + p + x) = M * a + M * p + M * x
  OBVIOUS
<1>2. M * (a + p + x) = M * (M * k + v)
  <2>1. a + p + x = M * k + v
    OBVIOUS
  <2> QED BY <2>1
<1> DEFINE Ma == M * a
           Mp == M * p
           Mx == M * x
           Mm == M * (M * k + v)
<1>3. Ma \in Int /\ Mp \in Int /\ Mx \in Int /\ Mm \in Int
  OBVIOUS
<1>4. Mm = Ma + Mp + Mx /\ b + q = u + Mx
  BY <1>1, <1>2
<1> HIDE DEF Ma, Mp, Mx, Mm
<1>5. Mm + u = (Ma + b) + (Mp + q)
  BY <1>3, <1>4
<1> QED
  BY <1>5 DEF Ma, Mp, Mx, Mm

\* A number of two words, added low word first with ADD and ADDX: the four flags and words
\* together are its exact sum, and Z is that of the whole number, which is why ADDX does
\* not set it.
THEOREM ChainIsExact ==
  ASSUME NEW c, Sound(c), NEW size \in Sizes,
         NEW srcLow \in Values(size), NEW srcHigh \in Values(size),
         NEW dstLow \in Values(size), NEW dstHigh \in Values(size)
  PROVE  LET low  == Adding(c, size, srcLow, dstLow)
             high == AddingX(low.m, size, srcHigh, dstHigh)
             M    == 2^size
         IN  /\ M * (M * high.m.c + high.v) + low.v
                   = (M * dstHigh + dstLow) + (M * srcHigh + srcLow)
             /\ high.m.z = AsFlag(high.v = 0 /\ low.v = 0)
<1> DEFINE low  == Adding(c, size, srcLow, dstLow)
           high == AddingX(low.m, size, srcHigh, dstHigh)
           M    == 2^size
           x    == low.m.x
<1>1. /\ low.v = Mask(size, dstLow + srcLow)
      /\ low.m.c = AsFlag(dstLow + srcLow \notin Values(size))
      /\ low.m.x = low.m.c /\ low.m.z = AsFlag(low.v = 0)
  BY AdditionIsExact DEF Tells
<1>2. Sound(low.m)
  <2>1. x \in Flag /\ low.m.z \in Flag
    BY <1>1 DEF Flag, AsFlag
  <2>2. DOMAIN low.m = DOMAIN c /\ low.m.flt = c.flt
    BY DEF Adding, Sound, Go
  <2> QED
    BY <2>1, <2>2 DEF Sound
<1>3. /\ high.v = Mask(size, dstHigh + srcHigh + x)
      /\ high.m.c = AsFlag(dstHigh + srcHigh + x \notin Values(size))
      /\ high.m.z = AsFlag(high.v = 0 /\ low.m.z = 1)
  <2> HIDE DEF low
  <2> QED BY <1>2, ExtendedAdditionIsExact DEF Tells
<1>4. x \in Flag
  BY <1>2 DEF Sound
<1>5. /\ dstLow + srcLow = low.v + M * x
      /\ low.v \in Values(size)
  <2> DEFINE t == dstLow + srcLow
  <2>1. t = dstLow + srcLow + 0
    BY ZeroIsFlag, Ranges
  <2>2. t = Mask(size, t) + M * AsFlag(t \notin Values(size)) /\ Mask(size, t) \in Values(size)
    <3>1. \A y \in Flag : \A u : u = dstLow + srcLow + y =>
            u = Mask(size, u) + M * AsFlag(u \notin Values(size)) /\ Mask(size, u) \in Values(size)
      BY ZenonT(60), SumSplits
    <3> HIDE DEF t, M
    <3> QED BY <2>1, <3>1, ZeroIsFlag
  <2> HIDE DEF low
  <2> QED
    BY <1>1, <2>2
<1>6. dstHigh + srcHigh + x = high.v + M * high.m.c /\ high.v \in Values(size)
  <2> HIDE DEF low, high, x
  <2> QED BY <1>3, <1>4, SumSplits
<1>7. /\ M \in Nat /\ dstLow \in Nat /\ srcLow \in Nat /\ dstHigh \in Nat /\ srcHigh \in Nat
      /\ low.v \in Nat /\ high.v \in Nat /\ x \in Nat
  <2>1. Values(size) \subseteq Nat /\ M \in Nat
    BY SMTT(30), SizeFacts
  <2>2. x \in Nat
    BY <1>4 DEF Flag
  <2> HIDE DEF M, low, high, x
  <2> QED
    BY <1>5, <1>6, <2>1, <2>2
<1>8. high.m.c \in Nat
  BY <1>3 DEF AsFlag
<1>9. M * (M * high.m.c + high.v) + low.v = (M * dstHigh + dstLow) + (M * srcHigh + srcLow)
  <2>1. ASSUME NEW y \in Nat, NEW k \in Nat, NEW u \in Nat, NEW v \in Nat,
               dstLow + srcLow = u + M * y, dstHigh + srcHigh + y = v + M * k
        PROVE  M * (M * k + v) + u = (M * dstHigh + dstLow) + (M * srcHigh + srcLow)
    <3> HIDE DEF M
    <3> QED BY ONLY <1>7, <2>1, Digits
  <2> HIDE DEF M, low, high, x
  <2> QED BY ONLY <1>5, <1>6, <1>7, <1>8, <2>1, SMTT(30)
<1>10. high.m.z = AsFlag(high.v = 0 /\ low.v = 0)
  BY <1>1, <1>3 DEF AsFlag
<1> QED
  BY <1>9, <1>10

(*****************************************************************************)
(* Numbers.                                                                  *)
(*****************************************************************************)
\* Some relation that holds wherever one number is less than another is well-founded
LEMMA NumbersAreWellFounded ==
  \E R : IsWellFoundedOn(R, Nat) /\ \A a, b \in Nat : a < b => <<a, b>> \in R
<1>1. \A a, b \in Nat : a < b => <<a, b>> \in OpToRel(<, Nat)
  BY DEF OpToRel
<1> QED
  BY ONLY <1>1, NatLessThanWellFounded

\* A set of numbers that is not empty has a least one
LEMMA LeastOf ==
  ASSUME NEW T, T \subseteq Nat, T # {}
  PROVE  \E x \in T : \A y \in T : x <= y
<1>1. PICK R : IsWellFoundedOn(R, Nat) /\ \A a, b \in Nat : a < b => <<a, b>> \in R
  BY NumbersAreWellFounded
<1>2. IsWellFoundedOn(R, Nat)
  BY <1>1
<1>3. PICK x \in T : \A y \in T : ~(<<y, x>> \in R)
  BY ONLY <1>2, T \subseteq Nat, T # {}, WFMin
<1>4. \A y \in T : ~(y < x)
  BY <1>1, <1>3
<1>5. \A y \in T : x \in Nat /\ y \in Nat
  OBVIOUS
<1> QED
  BY <1>4, <1>5

\* A set with 0, and with n + 1 whenever n is in it, has every number
LEMMA CountingInduction ==
  ASSUME NEW S, 0 \in S, \A n \in Nat : n \in S => n + 1 \in S
  PROVE  Nat \subseteq S
<1> SUFFICES ASSUME Nat \ S # {} PROVE FALSE
  OBVIOUS
<1>1. PICK k \in Nat \ S : \A y \in Nat \ S : k <= y
  BY LeastOf
<1>2. k # 0 /\ k - 1 \in Nat /\ ~(k <= k - 1) /\ (k - 1) + 1 = k
  BY <1>1
<1> QED
  BY <1>1, <1>2

\* 2^(j+k) is a product, for exponents a word can have
LEMMA PowerSplits ==
  ASSUME NEW j \in Nat, NEW k \in Nat, j + k <= L + 1
  PROVE  2^(j + k) = 2^j * 2^k
<1> DEFINE S == {i \in Nat : i <= k => 2^(j + i) = 2^j * 2^i}
<1>0. L \in Nat
  BY ByteBitsAssumption DEF L
<1>1. \A n \in 0 .. L : 2^n \in Nat \ {0} /\ 2^(n + 1) = 2 * 2^n
  BY PowersAssumption
<1>2. 2^0 = 1 /\ 2^1 = 2
  OBVIOUS
<1>3. \A n \in 0 .. L + 1 : 2^n \in Nat
  <2> TAKE n \in 0 .. L + 1
  <2>1. CASE n \in 0 .. L
    BY <2>1, <1>1
  <2>2. CASE n = L + 1
    <3>1. 2^L \in Nat /\ 2^(L + 1) = 2 * 2^L
      BY <1>0, <1>1
    <3> QED
      BY <2>2, <3>1
  <2> QED
    BY <2>1, <2>2, <1>0
<1>4. 0 \in S
  <2>1. j + 0 = j /\ j \in 0 .. L + 1
    BY <1>0
  <2>2. 2^j * 1 = 2^j
    BY <2>1, <1>3
  <2> QED
    BY <2>1, <2>2, <1>2
<1>5. ASSUME NEW n \in Nat, n \in S
      PROVE  n + 1 \in S
  <2> SUFFICES ASSUME n + 1 <= k PROVE 2^(j + (n + 1)) = 2^j * 2^(n + 1)
    OBVIOUS
  <2>1. n <= k /\ j + n \in 0 .. L /\ n \in 0 .. L /\ j \in 0 .. L + 1
    BY <1>0
  <2>2. 2^(j + n) = 2^j * 2^n
    BY <1>5, <2>1
  <2>3. 2^((j + n) + 1) = 2 * 2^(j + n) /\ 2^(n + 1) = 2 * 2^n
    BY <2>1, <1>1
  <2>4. (j + n) + 1 = j + (n + 1)
    OBVIOUS
  <2>5. 2^j \in Nat /\ 2^n \in Nat
    BY <2>1, <1>1, <1>3
  <2>6. 2 * (2^j * 2^n) = 2^j * (2 * 2^n)
    BY <2>5
  <2> QED
    BY <2>2, <2>3, <2>4, <2>6
<1>6. Nat \subseteq S
  <2> HIDE DEF S
  <2> QED BY <1>4, <1>5, CountingInduction
<1> QED
  BY <1>6

(***************************************************************************)
(* The core: powers of two, words and the bytes they are kept in.           *)
(***************************************************************************)
\* What is used of the widths: a word is two bytes, a long two words
LEMMA Widths ==
  /\ B \in Nat /\ B >= 6 /\ W = B + B /\ L = W + W /\ W \in Nat /\ L \in Nat
  /\ B * 1 = B /\ B * 2 = W
  /\ 2^B \in Nat /\ 2^W \in Nat /\ 2^L \in Nat
  /\ 2^W = 2^B * 2^B /\ 2^L = 2^W * 2^W /\ 2^B >= 64
  /\ \E h \in Nat : h >= 8 /\ h % 8 = 0 /\ 2^B = 8 * h /\ 2^(W - 3) = h * 2^B /\ 2^(W - 1) = 4 * (h * 2^B)
<1>1. B \in Nat /\ B >= 6 /\ W = B + B /\ L = W + W /\ W \in Nat /\ L \in Nat /\ B * 1 = B /\ B * 2 = W
  BY ByteBitsAssumption DEF B, W, L
<1>2. \A n \in 0 .. L : 2^n \in Nat \ {0}
  BY PowersAssumption
<1>3. 2^W = 2^B * 2^B
  BY <1>1, PowerSplits
<1>4. 2^L = 2^W * 2^W
  BY <1>1, PowerSplits
<1>5. 2^B \in Nat /\ 2^W \in Nat /\ 2^L \in Nat
  BY <1>1, <1>2
<1> DEFINE g == 2^(B - 6)
<1>6. g \in Nat /\ g >= 1
  <2>1. B - 6 \in 0 .. L
    BY <1>1
  <2> QED BY <2>1, <1>2
<1>7. 2^B = 64 * g
  <2>1. 6 \in Nat /\ B - 6 \in Nat /\ 6 + (B - 6) = B /\ B <= L + 1
    BY <1>1
  <2>2. 2^6 = 64
    OBVIOUS
  <2> QED BY <2>1, <2>2, PowerSplits
<1>8. 2^(W - 3) = (8 * g) * 2^B
  <2>1. 2^(B - 3) = 8 * g
    <3>1. 3 \in Nat /\ B - 6 \in Nat /\ 3 + (B - 6) = B - 3 /\ B - 3 <= L + 1
      BY <1>1
    <3>2. 2^3 = 8
      OBVIOUS
    <3> QED BY <3>1, <3>2, PowerSplits
  <2>2. B - 3 \in Nat /\ B \in Nat /\ (B - 3) + B = W - 3 /\ W - 3 <= L + 1
    BY <1>1
  <2> QED BY <2>1, <2>2, PowerSplits
<1>9. 2^(W - 1) = 4 * ((8 * g) * 2^B)
  <2>1. 2 \in Nat /\ W - 3 \in Nat /\ 2 + (W - 3) = W - 1 /\ W - 1 <= L + 1
    BY <1>1
  <2>2. 2^2 = 4
    OBVIOUS
  <2> QED BY <2>1, <2>2, <1>8, PowerSplits
<1>10. 8 * g \in Nat /\ 8 * g >= 8 /\ (8 * g) % 8 = 0 /\ 2^B = 8 * (8 * g) /\ 2^B >= 64
  BY <1>6, <1>7
<1> QED
  BY <1>1, <1>3, <1>4, <1>5, <1>8, <1>9, <1>10

(***************************************************************************)
(* A word in two bytes, a long in two words.                                *)
(***************************************************************************)
\* A number of two digits is its digits
LEMMA Splitting ==
  ASSUME NEW p \in Nat, p >= 1, NEW v \in 0 .. p * p - 1
  PROVE  /\ v \div p \in 0 .. p - 1 /\ v % p \in 0 .. p - 1
         /\ (v \div p) % p = v \div p
         /\ (v \div p) * p + (v % p) = v
<1>1. v = p * (v \div p) + (v % p) /\ v % p \in 0 .. p - 1 /\ v \div p \in Int
  OBVIOUS
<1>2. v \div p >= 0
  OBVIOUS
<1>3. v \div p < p
  <2> DEFINE q == v \div p
  <2> SUFFICES ASSUME q >= p PROVE FALSE
    BY <1>1
  <2>1. p * q >= p * p
    <3> HIDE DEF q
    <3>1. q \in Int BY <1>1 DEF q
    <3> QED BY <3>1
  <2> QED
    BY <2>1, <1>1
<1>4. \A q \in 0 .. p - 1 : q % p = q
  OBVIOUS
<1>5. (v \div p) * p = p * (v \div p)
  BY <1>1
<1> QED
  BY <1>1, <1>2, <1>3, <1>4, <1>5

\* The two low digits of a number are what is left of it below the third
LEMMA SplittingAny ==
  ASSUME NEW p \in Nat, p >= 1, NEW v \in Nat
  PROVE  /\ (v \div p) % p \in 0 .. p - 1 /\ v % p \in 0 .. p - 1
         /\ ((v \div p) % p) * p + (v % p) = v % (p * p)
<1> DEFINE q == v \div p
           r == v % p
           s == q \div p
           t == q % p
<1>1. q \in Nat /\ r \in 0 .. p - 1 /\ v = p * q + r
  OBVIOUS
<1>2. s \in Nat /\ t \in 0 .. p - 1 /\ q = p * s + t
  BY <1>1
<1>3. v = (p * p) * s + (t * p + r)
  <2> HIDE DEF q, r, s, t
  <2>1. v = p * (p * s + t) + r
    BY <1>1, <1>2
  <2>2. p * (p * s + t) = (p * p) * s + t * p
    BY <1>2
  <2>3. p \in Nat /\ r \in Int /\ (p * p) * s \in Int /\ t * p \in Int
    BY <1>1, <1>2
  <2> QED
    BY <2>1, <2>2, <2>3
<1>4. t * p + r \in 0 .. p * p - 1
  <2> HIDE DEF q, r, s, t
  <2>1. t * p <= (p - 1) * p /\ t * p \in Nat
    BY <1>2
  <2>2. (p - 1) * p = p * p - p
    OBVIOUS
  <2> QED
    BY <2>1, <2>2, <1>1
<1>5. p * p \in Nat /\ p * p >= 1
  OBVIOUS
<1>6. ASSUME NEW k \in Nat, k >= 1, NEW x \in Nat, NEW y \in 0 .. k - 1, v = k * x + y
      PROVE  v % k = y
  BY <1>6
<1>7. v % (p * p) = t * p + r
  <2> HIDE DEF q, r, s, t
  <2> QED BY <1>2, <1>3, <1>4, <1>5, <1>6
<1> QED
  BY <1>1, <1>2, <1>7

(***************************************************************************)
(* Memory.                                                                 *)
(***************************************************************************)
\* Addresses of RAM are those of the bus
LEMMA BusOfRam ==
  ASSUME NEW a \in Ram
  PROVE  a \in Nat /\ BusAddress(a) = a
<1>1. a \in 0 .. 2^AddressBits - 1
  BY MemoryAssumption
<1>2. AddressBits \in 0 .. L
  BY AddressBitsAssumption, ByteBitsAssumption DEF L
<1>3. 2^AddressBits \in Nat
  BY <1>2, PowersAssumption
<1> QED
  BY <1>1, <1>3 DEF BusAddress

\* A word is stored in its two bytes, and in no other
LEMMA StoredWord ==
  ASSUME NEW mem, mem = [b \in Ram |-> mem[b]], NEW a \in Ram, a + 1 \in Ram, NEW v
  PROVE  LET s == Stored(mem, a, 2, v)
         IN  /\ s = [b \in Ram |-> s[b]]
             /\ s[a] = (v \div 2^B) % 2^B /\ s[a + 1] = v % 2^B
             /\ \A b \in Ram : b # a /\ b # a + 1 => s[b] = mem[b]
<1> DEFINE x == (v \div 2^B) % 2^B
           y == v % 2^B
<1>1. a # a + 1
  BY BusOfRam
<1>2. Stored(mem, a, 2, v) = [mem EXCEPT ![a] = x, ![a + 1] = y]
  BY DEF Stored
<1> HIDE DEF x, y
<1>3. ASSUME NEW s, s = [mem EXCEPT ![a] = x, ![a + 1] = y]
      PROVE  /\ s = [b \in Ram |-> s[b]] /\ s[a] = x /\ s[a + 1] = y
             /\ \A b \in Ram : b # a /\ b # a + 1 => s[b] = mem[b]
  BY <1>1, <1>3
<1> QED
  BY <1>2, <1>3 DEF x, y

\* Stored bytes are bytes
LEMMA StoredTypes ==
  ASSUME NEW mem \in [Ram -> Values(B)], NEW a \in Ram, a + 1 \in Ram, NEW v \in Nat
  PROVE  Stored(mem, a, 2, v) \in [Ram -> Values(B)]
<1>1. (v \div 2^B) % 2^B \in Values(B) /\ v % 2^B \in Values(B)
  <2>1. 2^B \in Nat /\ 2^B >= 1
    BY Widths
  <2> QED
    BY <2>1, SplittingAny DEF Values
<1> QED
  BY <1>1 DEF Stored

\* The word at a
WordAt(mem, a) == mem[a] * 2^B + mem[a + 1]

\* The word stored is the word found
LEMMA WordIsStored ==
  ASSUME NEW mem, mem = [b \in Ram |-> mem[b]], NEW a \in Ram, a + 1 \in Ram, NEW v \in Nat
  PROVE  WordAt(Stored(mem, a, 2, v), a) = v % 2^W
<1>1. ((v \div 2^B) % 2^B) * 2^B + (v % 2^B) = v % (2^B * 2^B)
  BY Widths, SplittingAny
<1> QED
  BY <1>1, StoredWord, Widths DEF WordAt

\* A word stored elsewhere is kept
LEMMA WordIsKept ==
  ASSUME NEW mem, mem = [b \in Ram |-> mem[b]], NEW a \in Ram, a + 1 \in Ram, NEW v,
         NEW b \in Ram, b + 1 \in Ram, b >= a + 2 \/ b + 2 <= a
  PROVE  WordAt(Stored(mem, a, 2, v), b) = WordAt(mem, b)
<1>1. a \in Nat /\ b \in Nat
  BY BusOfRam
<1>2. b # a /\ b # a + 1 /\ b + 1 # a /\ b + 1 # a + 1
  BY <1>1
<1> QED
  BY <1>2, StoredWord DEF WordAt

\* The bus finds the high byte of a word of RAM in memory
LEMMA WordInRam ==
  ASSUME NEW c, NEW a \in Ram
  PROVE  ValueAt(c, a, 2) = c.mem[a] * 2^B + ByteAt(c, a + 1)
  BY DEF ValueAt, ByteAt

\* and its low byte too: what the bus reads in RAM is what memory holds
LEMMA ValueIsWord ==
  ASSUME NEW c, NEW a \in Ram, a + 1 \in Ram
  PROVE  ValueAt(c, a, 2) = WordAt(c.mem, a)
  BY DEF ValueAt, ByteAt, WordAt

\* A machine is a record with these fields, its registers and its memory are functions
Shape(c) ==
  /\ c \in [da : {c.da}, save : {c.save}, base : {c.base}, pc : {c.pc}, ppc : {c.ppc}, prev : {c.prev},
            x : {c.x}, n : {c.n}, z : {c.z}, v : {c.v}, c : {c.c}, s : {c.s}, t : {c.t},
            mask : {c.mask}, level : {c.level}, nmi : {c.nmi}, stopped : {c.stopped}, run : {c.run},
            instr : {c.instr}, fetching : {c.fetching}, pending : {c.pending},
            ir : {c.ir}, flt : {c.flt}, out : {c.out}, mem : {c.mem}]
  /\ c.da = [r \in 0 .. 15 |-> c.da[r]]
  /\ c.base = [s \in {0, 1} |-> c.base[s]]
  /\ c.mem = [a \in Ram |-> c.mem[a]]

\* A machine of the right type is such a record
LEMMA TypeHasShape == ASSUME NEW c, MachineType(c) PROVE Shape(c)
  BY DEF MachineType, Shape

\* Reading a word that translates forgets a pending fault, and nothing else (m68ki_read_16_fc)
LEMMA WordReadIs ==
  ASSUME NEW c, Shape(c), c.flt = NoFault, NEW a, Translates(c, a), NEW x
  PROVE  /\ ReadPart([m |-> c, v |-> x], a, 2).m = [c EXCEPT !.pending = FALSE]
         /\ ReadPart([m |-> c, v |-> x], a, 2).v = x * 2^(B * 2) + ValueAt(c, BusAddress(a), 2)
  BY DEF ReadPart

\* An access with no second part does not read again
LEMMA NothingRead ==
  ASSUME NEW r, NEW a PROVE ReadPart(r, a, 0) = r
  BY DEF ReadPart

\* or write
LEMMA NothingWritten ==
  ASSUME NEW c, NEW a, NEW v PROVE WritePart(c, a, 0, v) = c
  BY DEF WritePart

\* Writing a word that translates stores it (m68ki_write_16_fc)
LEMMA WordWriteIs ==
  ASSUME NEW c, Shape(c), c.flt = NoFault, NEW a, Translates(c, a), BusAddress(a) \in Ram, NEW v
  PROVE  WritePart(c, a, 2, v) = [c EXCEPT !.pending = FALSE, !.mem = Stored(@, BusAddress(a), 2, v)]
  BY DEF WritePart

\* Fetching a word that is there moves the PC on by two
LEMMA FetchWord ==
  ASSUME NEW c, Shape(c), c.flt = NoFault, c.pc % 2 = 0, Translates(c, c.pc)
  PROVE  Fetch(c, 1) = [c EXCEPT !.pc = Mask(L, @ + 2), !.pending = FALSE]
<1> DEFINE k == [c EXCEPT !.pc = Mask(L, @ + 2 * 1)]
<1>1. Shape(k) /\ k.flt = NoFault /\ Translates(k, c.pc)
  BY DEF Shape, Translates
<1>2. 2 * (1 - 1) = 0 /\ 2 * 1 = 2
  OBVIOUS
<1>3. Fetch(c, 1) = ReadPart(ReadPart([m |-> k, v |-> 0], c.pc, 2), c.pc + 2, 2 * (1 - 1)).m
  BY DEF Fetch
<1>4. ReadPart([m |-> k, v |-> 0], c.pc, 2).m = [k EXCEPT !.pending = FALSE]
  <2> HIDE DEF k
  <2> QED BY <1>1, WordReadIs, ZenonT(40)
<1>5. Fetch(c, 1) = [k EXCEPT !.pending = FALSE]
  BY <1>2, <1>3, <1>4, NothingRead
<1> QED
  BY <1>5 DEF Shape

\* An even address is that of a word's high byte on the bus
LEMMA EvenOnBus ==
  ASSUME NEW a \in Int, a % 2 = 0
  PROVE  BusAddress(a) % 2 = 0 /\ BusAddress(a) \in Nat
<1>1. AddressBits - 1 \in 0 .. L /\ AddressBits = (AddressBits - 1) + 1
  BY AddressBitsAssumption, ByteBitsAssumption DEF L
<1> DEFINE h == 2^(AddressBits - 1)
<1>2. h \in Nat /\ h >= 1 /\ 2^AddressBits = 2 * h
  BY <1>1, PowersAssumption
<1> HIDE DEF h
<1>3. a % (2 * h) \in Nat /\ (a % (2 * h)) % 2 = 0
  <2>1. a = (2 * h) * (a \div (2 * h)) + (a % (2 * h)) /\ a % (2 * h) \in Nat /\ a \div (2 * h) \in Int
    BY <1>2
  <2> DEFINE q == a \div (2 * h)
             r == a % (2 * h)
  <2>2. (2 * h) * q = 2 * (h * q) /\ h * q \in Int
    <3>1. h \in Int /\ q \in Int
      BY <1>2, <2>1
    <3> HIDE DEF q
    <3> QED BY <3>1
  <2> HIDE DEF q, r
  <2>3. a = 2 * (h * q) + r /\ r \in Nat
    BY <2>1, <2>2 DEF q, r
  <2>4. \A x \in Int : a = 2 * x + r => r % 2 = 0
    BY <2>3
  <2> QED
    BY <2>2, <2>3, <2>4 DEF r
<1> QED
  BY <1>2, <1>3 DEF BusAddress

\* A long in two words
LongIn(mem, a) == WordAt(mem, a) * 2^W + WordAt(mem, a + 2)
LongStored(mem, a, v) == Stored(Stored(mem, a, 2, v \div 2^W), a + 2, 2, v)

\* The n bytes below the stack pointer are there
Room(c, n) ==
  /\ c.da[SP] \in Values(L) /\ c.da[SP] % 2 = 0
  /\ c.da[SP] - n .. c.da[SP] - 1 \subseteq Ram \ c.out

\* A long is accessed in two words, the others at once
LEMMA SizesOfParts ==
  /\ FirstPart(W) = 2 /\ SecondPart(W) = 0 /\ FirstPart(L) = 2 /\ SecondPart(L) = 2
  /\ FirstPart(B) = 1 /\ SecondPart(B) = 0
  /\ Bytes(W) = 2 /\ Bytes(L) = 4 /\ Bytes(B) = 1 /\ W # B /\ L # B /\ W # L
  BY ByteBitsAssumption DEF FirstPart, SecondPart, Bytes, B, W, L

\* Masking leaves what fits
LEMMA MaskIs == ASSUME NEW v \in Values(L) PROVE Mask(L, v) = v
<1>1. 2^L \in Nat
  BY Widths
<1> QED
  BY <1>1 DEF Mask, Values

\* RAM that is not out translates, to itself
LEMMA RamTranslates ==
  ASSUME NEW c, NEW a \in Ram \ c.out
  PROVE  Translates(c, a) /\ BusAddress(a) = a
  BY BusOfRam DEF Translates, Mapped

\* A word is written to RAM
LEMMA RamWriteIs ==
  ASSUME NEW c, Shape(c), c.flt = NoFault, NEW a \in Ram \ c.out, NEW v
  PROVE  WritePart(c, a, 2, v) = [c EXCEPT !.pending = FALSE, !.mem = Stored(@, a, 2, v)]
<1>1. Translates(c, a) /\ BusAddress(a) = a
  BY RamTranslates
<1>2. WritePart(c, a, 2, v) = [c EXCEPT !.pending = FALSE, !.mem = Stored(@, BusAddress(a), 2, v)]
  BY <1>1, WordWriteIs
<1> QED
  BY <1>1, <1>2

\* A word is pushed below the stack pointer
LEMMA PushWordIs ==
  ASSUME NEW c, Shape(c), c.flt = NoFault, Room(c, 2), NEW v \in Nat
  PROVE  Push(c, W, v)
           = [c EXCEPT !.da[SP] = c.da[SP] - 2, !.pending = FALSE, !.mem = Stored(@, c.da[SP] - 2, 2, v)]
<1> DEFINE sp == c.da[SP]
           k == [c EXCEPT !.da[SP] = sp - 2]
<1>1. sp - 2 \in Ram \ c.out /\ sp \in Nat /\ sp - 2 \in Nat
  <2>1. sp \in Nat /\ sp - 2 \in sp - 2 .. sp - 1
    BY Widths DEF Room, Values
  <2> QED
    BY <2>1, BusOfRam DEF Room
<1>2. sp - 2 \in Values(L) /\ (sp - 2) % 2 = 0
  BY <1>1, Widths DEF Room, Values
<1>3. Shape(k) /\ k.flt = NoFault /\ k.out = c.out /\ k.mem = c.mem
  BY DEF Shape
<1>4. SetReg(c, SP, sp - Bytes(W)) = k /\ Mask(L, sp - Bytes(W)) = sp - 2
  BY <1>2, MaskIs, SizesOfParts DEF SetReg, Go
<1>5. Push(c, W, v) = Write(k, W, sp - 2, v)
  BY <1>4 DEF Push
<1>7. 2^(B * 0) = 1
  <2>1. B * 0 = 0
    BY Widths
  <2>2. 2^0 = 1
    OBVIOUS
  <2> QED BY <2>1, <2>2
<1>8. Write(k, W, sp - 2, v) = WritePart(WritePart(k, sp - 2, 2, v \div 2^(B * 0)), sp - 2 + 2, 0, v)
  <2> HIDE DEF k
  <2> QED BY <1>2, <1>3, SizesOfParts DEF Write
<1>9. WritePart(k, sp - 2, 2, v \div 2^(B * 0))
        = [k EXCEPT !.pending = FALSE, !.mem = Stored(@, sp - 2, 2, v \div 2^(B * 0))]
  <2> HIDE DEF k
  <2> QED BY <1>1, <1>3, RamWriteIs
<1>10. v \div 1 = v
  OBVIOUS
<1>11. Push(c, W, v) = [k EXCEPT !.pending = FALSE, !.mem = Stored(@, sp - 2, 2, v)]
  BY <1>5, <1>7, <1>8, <1>9, <1>10, NothingWritten, ZenonT(40)
<1> QED
  BY <1>11

\* and a long, high word first (m68ki_push_32)
LEMMA PushLongIs ==
  ASSUME NEW c, Shape(c), c.flt = NoFault, Room(c, 4), NEW v \in Nat
  PROVE  Push(c, L, v)
           = [c EXCEPT !.da[SP] = c.da[SP] - 4, !.pending = FALSE, !.mem = LongStored(@, c.da[SP] - 4, v)]
<1> DEFINE sp == c.da[SP]
           k == [c EXCEPT !.da[SP] = sp - 4]
           high == v \div 2^W
           j == [k EXCEPT !.pending = FALSE, !.mem = Stored(@, sp - 4, 2, high)]
<1>1. sp - 4 \in Ram \ c.out /\ sp - 2 \in Ram \ c.out /\ sp \in Nat /\ sp - 4 \in Nat /\ sp - 3 \in Ram
  <2>1. sp \in Nat /\ sp - 2 \in sp - 4 .. sp - 1 /\ sp - 4 \in sp - 4 .. sp - 1 /\ sp - 3 \in sp - 4 .. sp - 1
    BY Widths DEF Room, Values
  <2> QED
    BY <2>1, BusOfRam DEF Room
<1>2. sp - 4 \in Values(L) /\ (sp - 4) % 2 = 0
  BY <1>1, Widths DEF Room, Values
<1>3. Shape(k) /\ k.flt = NoFault /\ k.out = c.out /\ k.mem = c.mem
  BY DEF Shape
<1>4. SetReg(c, SP, sp - Bytes(L)) = k /\ Mask(L, sp - Bytes(L)) = sp - 4
  BY <1>2, MaskIs, SizesOfParts DEF SetReg, Go
<1>5. Push(c, L, v) = Write(k, L, sp - 4, v)
  BY <1>4 DEF Push
<1>6. 2^(B * 2) = 2^W /\ sp - 4 + 2 = sp - 2
  BY Widths, <1>1
<1>7. Write(k, L, sp - 4, v) = WritePart(WritePart(k, sp - 4, 2, high), sp - 2, 2, v)
  <2> HIDE DEF k
  <2> QED BY <1>2, <1>3, <1>6, SizesOfParts DEF Write
<1>8. WritePart(k, sp - 4, 2, high) = j
  <2> HIDE DEF k, high
  <2> QED BY <1>1, <1>3, RamWriteIs, ZenonT(40)
<1>9. Shape(j) /\ j.flt = NoFault /\ j.out = c.out /\ j.mem = Stored(c.mem, sp - 4, 2, high)
  <2>1. Stored(c.mem, sp - 4, 2, high) = [a \in Ram |-> Stored(c.mem, sp - 4, 2, high)[a]]
    <3> HIDE DEF high
    <3>1. sp - 4 + 1 = sp - 3
      BY <1>1
    <3> QED BY <1>1, <3>1, StoredWord DEF Shape
  <2> HIDE DEF high
  <2> QED BY <1>3, <2>1 DEF Shape
<1>10. WritePart(j, sp - 2, 2, v) = [j EXCEPT !.pending = FALSE, !.mem = Stored(@, sp - 2, 2, v)]
  <2> HIDE DEF j
  <2> QED BY <1>1, <1>9, RamWriteIs
<1>11. Push(c, L, v) = [j EXCEPT !.pending = FALSE, !.mem = Stored(@, sp - 2, 2, v)]
  BY <1>5, <1>7, <1>8, <1>10
<1> QED
  BY <1>6, <1>11 DEF LongStored

(***************************************************************************)
(* What a long written is afterwards.                                       *)
(***************************************************************************)
\* The long stored is the long found, and the other bytes are kept
LEMMA LongIsStored ==
  ASSUME NEW mem \in [Ram -> Values(B)], NEW a \in Nat, a .. a + 3 \subseteq Ram, NEW v \in Values(L)
  PROVE  /\ LongStored(mem, a, v) \in [Ram -> Values(B)]
         /\ LongIn(LongStored(mem, a, v), a) = v
         /\ \A b \in Ram \ (a .. a + 3) : LongStored(mem, a, v)[b] = mem[b]
<1> DEFINE high == v \div 2^W
           one == Stored(mem, a, 2, high)
           two == Stored(one, a + 2, 2, v)
<1>1. a \in Ram /\ a + 1 \in Ram /\ a + 2 \in Ram /\ a + 3 \in Ram /\ a + 2 + 1 = a + 3
  <2>1. {a, a + 1, a + 2, a + 3} \subseteq a .. a + 3
    OBVIOUS
  <2> QED BY <2>1
<1>2. high \in Nat /\ high % 2^W = high /\ high * 2^W + (v % 2^W) = v /\ v \in Nat
  <2>1. 2^W \in Nat /\ 2^W >= 1 /\ 2^L = 2^W * 2^W
    BY Widths, SizeFacts, WidthsDiffer DEF Half
  <2> DEFINE p == 2^W
  <2>2. p \in Nat /\ p >= 1 /\ v \in 0 .. p * p - 1
    BY <2>1 DEF Values
  <2> HIDE DEF p
  <2>3. v \div p \in 0 .. p - 1 /\ (v \div p) % p = v \div p /\ (v \div p) * p + (v % p) = v
    BY <2>2, Splitting
  <2>4. v \div p \in Nat /\ v \in Nat
    BY <2>2, <2>3
  <2> QED
    BY <2>3, <2>4 DEF p
<1> HIDE DEF high
<1>3. one \in [Ram -> Values(B)] /\ one = [b \in Ram |-> one[b]] /\ mem = [b \in Ram |-> mem[b]]
  BY <1>1, <1>2, StoredTypes
<1>4. WordAt(one, a) = high
  BY <1>1, <1>2, <1>3, WordIsStored
<1>5. \A b \in Ram : b # a /\ b # a + 1 => one[b] = mem[b]
  BY <1>1, <1>3, StoredWord
<1> HIDE DEF one
<1>6. two \in [Ram -> Values(B)]
  BY <1>1, <1>2, <1>3, StoredTypes
<1>7. WordAt(two, a + 2) = v % 2^W
  BY <1>1, <1>2, <1>3, WordIsStored
<1>8. WordAt(two, a) = WordAt(one, a)
  BY <1>1, <1>3, WordIsKept
<1>9. \A b \in Ram : b # a + 2 /\ b # a + 2 + 1 => two[b] = one[b]
  BY <1>1, <1>3, StoredWord
<1>10. LongStored(mem, a, v) = two
  BY DEF LongStored, one, high
<1> HIDE DEF two
<1>11. \A b \in Ram \ (a .. a + 3) : two[b] = mem[b]
  <2> TAKE b \in Ram \ (a .. a + 3)
  <2>1. b # a /\ b # a + 1 /\ b # a + 2 /\ b # a + 3
    OBVIOUS
  <2> QED BY <2>1, <1>1, <1>5, <1>9
<1> QED
  BY <1>2, <1>4, <1>6, <1>7, <1>8, <1>10, <1>11 DEF LongIn

\* The word stored is the word found, and the other bytes are kept
LEMMA WordIsWritten ==
  ASSUME NEW mem \in [Ram -> Values(B)], NEW a \in Nat, a .. a + 1 \subseteq Ram, NEW v \in Values(W)
  PROVE  /\ Stored(mem, a, 2, v) \in [Ram -> Values(B)]
         /\ WordAt(Stored(mem, a, 2, v), a) = v
         /\ \A b \in Ram \ (a .. a + 1) : Stored(mem, a, 2, v)[b] = mem[b]
<1>1. a \in Ram /\ a + 1 \in Ram
  <2>1. {a, a + 1} \subseteq a .. a + 1
    OBVIOUS
  <2> QED BY <2>1
<1>2. v \in Nat /\ v % 2^W = v
  BY Widths DEF Values
<1>3. mem = [b \in Ram |-> mem[b]]
  OBVIOUS
<1> QED
  BY <1>1, <1>2, <1>3, StoredTypes, StoredWord, WordIsStored

\* Words and longs are kept where no byte of theirs changes
SameOutside(f, g, lo, hi) == \A b \in Ram \ (lo .. hi) : g[b] = f[b]

\* A word outside what changed is kept
LEMMA WordKept ==
  ASSUME NEW f, NEW g, NEW lo \in Int, NEW hi \in Int, SameOutside(f, g, lo, hi),
         NEW a \in Nat, a .. a + 1 \subseteq Ram, a > hi \/ a + 1 < lo
  PROVE  WordAt(g, a) = WordAt(f, a)
<1>1. a \in a .. a + 1 /\ a + 1 \in a .. a + 1
  OBVIOUS
<1>2. a \in Ram \ (lo .. hi) /\ a + 1 \in Ram \ (lo .. hi)
  BY <1>1
<1> QED
  BY <1>2 DEF WordAt, SameOutside

\* and a long
LEMMA LongKept ==
  ASSUME NEW f, NEW g, NEW lo \in Int, NEW hi \in Int, SameOutside(f, g, lo, hi),
         NEW a \in Nat, a .. a + 3 \subseteq Ram, a > hi \/ a + 3 < lo
  PROVE  LongIn(g, a) = LongIn(f, a)
<1>1. a .. a + 1 \subseteq a .. a + 3 /\ a + 2 .. a + 2 + 1 \subseteq a .. a + 3
  OBVIOUS
<1>2. WordAt(g, a) = WordAt(f, a)
  <2>1. a > hi \/ a + 1 < lo
    OBVIOUS
  <2> QED BY <1>1, <2>1, WordKept
<1>3. WordAt(g, a + 2) = WordAt(f, a + 2)
  <2>1. a + 2 \in Nat /\ (a + 2 > hi \/ a + 2 + 1 < lo)
    OBVIOUS
  <2> QED BY <1>1, <2>1, WordKept
<1> QED
  BY <1>2, <1>3 DEF LongIn

\* A machine whose memory is of bytes and whose stack has room
Ready(c, n) == Shape(c) /\ c.flt = NoFault /\ c.mem \in [Ram -> Values(B)] /\ Room(c, n)

\* k is c with n bytes pushed, which are now those of mem
Pushed(k, c, n, mem) ==
  /\ k = [c EXCEPT !.da[SP] = c.da[SP] - n, !.pending = FALSE, !.mem = mem]
  /\ mem \in [Ram -> Values(B)]
  /\ \A b \in Ram \ (c.da[SP] - n .. c.da[SP] - 1) : mem[b] = c.mem[b]

\* Room on the stack is RAM that is not out
LEMMA RoomIs ==
  ASSUME NEW c, NEW n \in Nat, n >= 1, Room(c, n)
  PROVE  /\ c.da[SP] \in Nat /\ c.da[SP] - n \in Nat /\ c.da[SP] \in Values(L)
         /\ \A x \in c.da[SP] - n .. c.da[SP] - 1 : x \in Ram /\ x \in Nat /\ x \notin c.out
<1>1. c.da[SP] \in Nat
  BY Widths DEF Room, Values
<1>2. \A x \in c.da[SP] - n .. c.da[SP] - 1 : x \in Ram /\ x \in Nat /\ x \notin c.out
  BY BusOfRam DEF Room
<1>3. c.da[SP] - n \in c.da[SP] - n .. c.da[SP] - 1
  BY <1>1
<1> QED
  BY <1>1, <1>2, <1>3 DEF Room

\* After a push there is as much less room
LEMMA PushedIsReady ==
  ASSUME NEW c, NEW n \in Nat, NEW h \in Nat, h >= 1, n > h, h % 2 = 0, Ready(c, n),
         NEW k, NEW mem, Pushed(k, c, h, mem)
  PROVE  Ready(k, n - h) /\ k.mem = mem /\ k.da[SP] = c.da[SP] - h /\ k.out = c.out
<1> DEFINE sp == c.da[SP]
<1>1. sp \in Nat /\ sp - n \in Nat /\ sp \in Values(L) /\ sp % 2 = 0
  BY RoomIs DEF Ready, Room
<1>2. k.mem = mem /\ k.da[SP] = sp - h /\ k.out = c.out /\ k.flt = NoFault
  BY DEF Pushed, Ready, Shape, SP
<1>3. Shape(k)
  BY DEF Pushed, Ready, Shape, SP
<1>4. sp - h \in Values(L) /\ (sp - h) % 2 = 0
  <2>1. sp - h \in Values(L)
    BY <1>1, Widths DEF Values
  <2> HIDE DEF sp
  <2> QED BY <2>1, <1>1
<1>5. sp - h - (n - h) .. sp - h - 1 \subseteq sp - n .. sp - 1
  <2> HIDE DEF sp
  <2> QED BY <1>1
<1>6. Room(k, n - h)
  BY <1>2, <1>4, <1>5 DEF Room, Ready
<1> QED
  BY <1>2, <1>3, <1>6 DEF Ready, Pushed

\* What a push of a long leaves
LEMMA PushLong ==
  ASSUME NEW c, Ready(c, 4), NEW v \in Values(L)
  PROVE  \E mem : Pushed(Push(c, L, v), c, 4, mem) /\ LongIn(mem, c.da[SP] - 4) = v
<1> DEFINE sp == c.da[SP]
           mem == LongStored(c.mem, sp - 4, v)
<1>1. sp \in Nat /\ sp - 4 \in Nat /\ sp - 4 .. sp - 4 + 3 \subseteq Ram /\ sp - 4 + 3 = sp - 1
  BY RoomIs DEF Ready
<1>2. v \in Nat
  BY Widths DEF Values
<1>3. Push(c, L, v) = [c EXCEPT !.da[SP] = sp - 4, !.pending = FALSE, !.mem = mem]
  BY <1>2, PushLongIs DEF Ready
<1>4. mem \in [Ram -> Values(B)] /\ LongIn(mem, sp - 4) = v /\ \A b \in Ram \ (sp - 4 .. sp - 1) : mem[b] = c.mem[b]
  BY <1>1, LongIsStored DEF Ready
<1> HIDE DEF mem
<1> QED
  BY <1>3, <1>4 DEF Pushed

\* What a push of a word leaves
LEMMA PushWord ==
  ASSUME NEW c, Ready(c, 2), NEW v \in Values(W)
  PROVE  \E mem : Pushed(Push(c, W, v), c, 2, mem) /\ WordAt(mem, c.da[SP] - 2) = v
<1> DEFINE sp == c.da[SP]
           mem == Stored(c.mem, sp - 2, 2, v)
<1>1. sp \in Nat /\ sp - 2 \in Nat /\ sp - 2 .. sp - 2 + 1 \subseteq Ram /\ sp - 2 + 1 = sp - 1
  BY RoomIs DEF Ready
<1>2. v \in Nat
  BY Widths DEF Values
<1>3. Push(c, W, v) = [c EXCEPT !.da[SP] = sp - 2, !.pending = FALSE, !.mem = mem]
  BY <1>2, PushWordIs DEF Ready
<1>4. mem \in [Ram -> Values(B)] /\ WordAt(mem, sp - 2) = v /\ \A b \in Ram \ (sp - 2 .. sp - 1) : mem[b] = c.mem[b]
  BY <1>1, WordIsWritten DEF Ready
<1> HIDE DEF mem
<1> QED
  BY <1>3, <1>4 DEF Pushed

\* Two pushes, one after the other
LEMMA PushedTwice ==
  ASSUME NEW c, Shape(c), NEW g \in Nat, NEW h \in Nat, c.da[SP] \in Nat,
         NEW k, NEW one, Pushed(k, c, g, one), NEW j, NEW two, Pushed(j, k, h, two)
  PROVE  Pushed(j, c, g + h, two)
<1> DEFINE sp == c.da[SP]
<1>1. k.da[SP] = sp - g /\ k.mem = one
  BY DEF Pushed, Shape, SP
<1>2. j = [c EXCEPT !.da[SP] = sp - g - h, !.pending = FALSE, !.mem = two]
  <2> DEFINE x == sp - g
             y == sp - g - h
  <2>1. j = [k EXCEPT !.da[SP] = y, !.pending = FALSE, !.mem = two]
    BY <1>1 DEF Pushed
  <2>2. k = [c EXCEPT !.da[SP] = x, !.pending = FALSE, !.mem = one]
    BY DEF Pushed
  <2> HIDE DEF x, y
  <2>3. [[c.da EXCEPT ![SP] = x] EXCEPT ![SP] = y] = [c.da EXCEPT ![SP] = y]
    BY DEF Shape, SP
  <2> DEFINE E == [c.da EXCEPT ![SP] = x]
             D == [c.da EXCEPT ![SP] = y]
  <2>4. k = [c EXCEPT !.da = E, !.pending = FALSE, !.mem = one]
    BY <2>2
  <2>5. k.da = E
    BY <2>4 DEF Shape
  <2>6. j = [k EXCEPT !.da = D, !.pending = FALSE, !.mem = two]
    BY <2>1, <2>3, <2>5
  <2>7. j = [c EXCEPT !.da = D, !.pending = FALSE, !.mem = two]
    <3> HIDE DEF D, E
    <3> QED BY <2>4, <2>6 DEF Shape
  <2> QED
    BY <2>7 DEF x, y
<1>3. sp - g - h = sp - (g + h)
  OBVIOUS
<1>4. ASSUME NEW b \in Ram \ (sp - (g + h) .. sp - 1)
      PROVE  two[b] = c.mem[b]
  <2>1. b \in Nat
    BY BusOfRam
  <2>2. b \notin sp - g .. sp - 1 /\ b \notin sp - g - h .. sp - g - 1
    BY <2>1
  <2> QED
    BY <1>1, <2>2 DEF Pushed
<1> QED
  BY <1>2, <1>3, <1>4 DEF Pushed

(***************************************************************************)
(* The frame of an interrupt and that of a bus error.                       *)
(***************************************************************************)
\* The frame of three words: the status register, and the PC above it (m68ki_stack_frame_3word)
LEMMA Frame3Is ==
  ASSUME NEW c, Ready(c, 6), NEW pc \in Values(L), NEW sr \in Values(W)
  PROVE  \E mem : /\ Pushed(Frame3(c, pc, sr), c, 6, mem)
                  /\ WordAt(mem, c.da[SP] - 6) = sr /\ LongIn(mem, c.da[SP] - 4) = pc
<1> DEFINE sp == c.da[SP]
           k == Push(c, L, pc)
           j == Push(k, W, sr)
<1>1. sp \in Nat /\ sp - 6 \in Nat
  BY RoomIs DEF Ready
<1>2. sp - 6 .. sp - 1 \subseteq Ram
  BY RoomIs DEF Ready
<1>3. Ready(c, 4)
  <2>1. sp - 4 .. sp - 1 \subseteq sp - 6 .. sp - 1
    BY <1>1
  <2> QED BY <2>1 DEF Ready, Room
<1>4. PICK one : Pushed(k, c, 4, one) /\ LongIn(one, sp - 4) = pc
  BY <1>3, PushLong
<1> HIDE DEF k
<1>5. Ready(k, 2) /\ k.mem = one /\ k.da[SP] = sp - 4
  <2>1. 6 - 4 = 2 /\ 4 % 2 = 0
    OBVIOUS
  <2> QED BY <1>4, <2>1, PushedIsReady
<1>6. PICK two : Pushed(j, k, 2, two) /\ WordAt(two, sp - 4 - 2) = sr
  BY <1>5, PushWord
<1> HIDE DEF j
<1>7. Pushed(j, c, 6, two)
  <2>1. 4 + 2 = 6
    OBVIOUS
  <2> QED BY <1>1, <1>4, <1>6, <2>1, PushedTwice DEF Ready
<1>8. LongIn(two, sp - 4) = LongIn(one, sp - 4)
  <2>1. \A b \in Ram \ (sp - 6 .. sp - 5) : two[b] = one[b]
    <3>1. sp - 4 - 2 = sp - 6 /\ sp - 4 - 1 = sp - 5
      BY <1>1
    <3> QED BY <1>5, <1>6, <3>1 DEF Pushed
  <2>2. sp - 4 \in Nat /\ sp - 4 .. sp - 4 + 3 \subseteq Ram /\ sp - 4 > sp - 5 /\ sp - 6 \in Int /\ sp - 5 \in Int
    BY <1>1, <1>2
  <2> DEFINE a == sp - 4
             lo == sp - 6
             hi == sp - 5
  <2>3. lo \in Int /\ hi \in Int /\ a \in Nat /\ a > hi /\ a .. a + 3 \subseteq Ram
    BY <2>2
  <2>4. SameOutside(one, two, lo, hi)
    BY <2>1 DEF SameOutside
  <2> HIDE DEF a, lo, hi
  <2>5. LongIn(two, a) = LongIn(one, a)
    BY <2>3, <2>4, LongKept
  <2> QED BY <2>5 DEF a
<1>9. Frame3(c, pc, sr) = j /\ sp - 4 - 2 = sp - 6
  BY <1>1 DEF Frame3, j, k
<1> QED
  BY <1>4, <1>6, <1>7, <1>8, <1>9

\* Room for more is room for less
LEMMA LessRoom ==
  ASSUME NEW c, NEW n \in Nat, NEW h \in Nat, h >= 1, h <= n, Ready(c, n)
  PROVE  Ready(c, h)
<1>1. c.da[SP] - h .. c.da[SP] - 1 \subseteq c.da[SP] - n .. c.da[SP] - 1
  BY RoomIs DEF Ready
<1> QED
  BY <1>1 DEF Ready, Room

\* What was pushed before is kept by a push
LEMMA PushKeeps ==
  ASSUME NEW k, NEW h \in Nat, h >= 1, NEW j, NEW mem, Pushed(j, k, h, mem), Ready(k, h), NEW a \in Nat, a >= k.da[SP]
  PROVE  /\ a .. a + 1 \subseteq Ram => WordAt(mem, a) = WordAt(k.mem, a)
         /\ a .. a + 3 \subseteq Ram => LongIn(mem, a) = LongIn(k.mem, a)
<1> DEFINE lo == k.da[SP] - h
           hi == k.da[SP] - 1
<1>1. lo \in Int /\ hi \in Int /\ a > hi
  BY RoomIs DEF Ready
<1>2. SameOutside(k.mem, mem, lo, hi)
  BY DEF Pushed, SameOutside
<1> HIDE DEF lo, hi
<1>3. ASSUME a .. a + 1 \subseteq Ram PROVE WordAt(mem, a) = WordAt(k.mem, a)
  BY <1>1, <1>2, <1>3, WordKept
<1>4. ASSUME a .. a + 3 \subseteq Ram PROVE LongIn(mem, a) = LongIn(k.mem, a)
  BY <1>1, <1>2, <1>4, LongKept
<1> QED
  BY <1>3, <1>4

\* The frame of a bus error has seven words: access, address, instruction, status register
\* and PC, where the kernel looks for them (m68ki_stack_frame_buserr)
LEMMA FrameBusErrorIs ==
  ASSUME NEW c, Ready(c, 14), NEW sr \in Values(W), NEW pc \in Values(L), NEW address \in Values(L), NEW flt,
         Encode(c.ir) \in Values(W), flt.mode + c.instr + flt.fc \in Values(W)
  PROVE  \E mem : LET sp == c.da[SP] IN
           /\ Pushed(FrameBusError(c, sr, pc, address, flt), c, 14, mem)
           /\ WordAt(mem, sp - 6) = sr /\ LongIn(mem, sp - 4) = pc
           /\ WordAt(mem, sp - 8) = Encode(c.ir) /\ LongIn(mem, sp - 12) = address
<1> DEFINE sp == c.da[SP]
           status == flt.mode + c.instr + flt.fc
           c1 == Push(c, L, pc)
           c2 == Push(c1, W, sr)
           c3 == Push(c2, W, Encode(c.ir))
           c4 == Push(c3, L, address)
           c5 == Push(c4, W, status)
<1>1. sp \in Nat /\ sp - 14 \in Nat /\ sp - 14 .. sp - 1 \subseteq Ram
  BY RoomIs DEF Ready
<1>2. /\ 14 - 4 = 10 /\ 10 - 2 = 8 /\ 8 - 2 = 6 /\ 6 - 4 = 2 /\ 4 % 2 = 0 /\ 2 % 2 = 0
      /\ 4 + 2 = 6 /\ 6 + 2 = 8 /\ 8 + 4 = 12 /\ 12 + 2 = 14
  OBVIOUS
<1>3. PICK m1 : Pushed(c1, c, 4, m1) /\ LongIn(m1, sp - 4) = pc
  BY LessRoom, PushLong
<1> HIDE DEF c1
<1>4. Ready(c1, 10) /\ c1.mem = m1 /\ c1.da[SP] = sp - 4
  BY <1>2, <1>3, PushedIsReady
<1>5. PICK m2 : Pushed(c2, c1, 2, m2) /\ WordAt(m2, sp - 4 - 2) = sr
  BY <1>4, LessRoom, PushWord
<1> HIDE DEF c2
<1>6. Ready(c2, 8) /\ c2.mem = m2 /\ c2.da[SP] = sp - 4 - 2
  BY <1>2, <1>4, <1>5, PushedIsReady
<1>7. PICK m3 : Pushed(c3, c2, 2, m3) /\ WordAt(m3, sp - 4 - 2 - 2) = Encode(c.ir)
  BY <1>6, LessRoom, PushWord
<1> HIDE DEF c3
<1>8. Ready(c3, 6) /\ c3.mem = m3 /\ c3.da[SP] = sp - 4 - 2 - 2
  BY <1>2, <1>6, <1>7, PushedIsReady
<1>9. PICK m4 : Pushed(c4, c3, 4, m4) /\ LongIn(m4, sp - 4 - 2 - 2 - 4) = address
  BY <1>8, LessRoom, PushLong
<1> HIDE DEF c4
<1>10. Ready(c4, 2) /\ c4.mem = m4 /\ c4.da[SP] = sp - 4 - 2 - 2 - 4
  BY <1>2, <1>8, <1>9, PushedIsReady
<1>11. PICK m5 : Pushed(c5, c4, 2, m5)
  <2>1. status \in Values(W)
    OBVIOUS
  <2> HIDE DEF status
  <2> QED BY <1>10, <2>1, PushWord
<1> HIDE DEF c5
<1>12. FrameBusError(c, sr, pc, address, flt) = c5
  BY DEF FrameBusError, c5, c4, c3, c2, c1
<1>13. /\ sp - 4 - 2 = sp - 6 /\ sp - 4 - 2 - 2 = sp - 8 /\ sp - 4 - 2 - 2 - 4 = sp - 12
       /\ sp - 4 \in Nat /\ sp - 6 \in Nat /\ sp - 8 \in Nat /\ sp - 12 \in Nat
       /\ sp - 4 .. sp - 4 + 3 \subseteq Ram /\ sp - 6 .. sp - 6 + 1 \subseteq Ram
       /\ sp - 8 .. sp - 8 + 1 \subseteq Ram /\ sp - 12 .. sp - 12 + 3 \subseteq Ram
       /\ sp - 4 >= sp - 6 /\ sp - 4 >= sp - 8 /\ sp - 4 >= sp - 12 /\ sp - 6 >= sp - 8 /\ sp - 6 >= sp - 12
       /\ sp - 8 >= sp - 12
  <2> HIDE DEF sp
  <2> QED BY <1>1
<1>14. Pushed(c5, c, 14, m5)
  <2>1. Shape(c) /\ Pushed(c2, c, 6, m2)
    BY <1>1, <1>2, <1>3, <1>5, PushedTwice DEF Ready
  <2>2. Pushed(c3, c, 8, m3)
    BY <1>1, <1>2, <1>7, <2>1, PushedTwice
  <2>3. Pushed(c4, c, 12, m4)
    BY <1>1, <1>2, <1>9, <2>1, <2>2, PushedTwice
  <2> QED
    BY <1>1, <1>2, <1>11, <2>1, <2>3, PushedTwice
<1>15. LongIn(m5, sp - 4) = pc
  <2>1. LongIn(m2, sp - 4) = LongIn(m1, sp - 4)
    BY <1>4, <1>5, <1>13, LessRoom, PushKeeps
  <2>2. LongIn(m3, sp - 4) = LongIn(m2, sp - 4)
    BY <1>6, <1>7, <1>13, LessRoom, PushKeeps
  <2>3. LongIn(m4, sp - 4) = LongIn(m3, sp - 4)
    BY <1>8, <1>9, <1>13, LessRoom, PushKeeps
  <2>4. LongIn(m5, sp - 4) = LongIn(m4, sp - 4)
    BY <1>10, <1>11, <1>13, LessRoom, PushKeeps
  <2> QED BY <1>3, <2>1, <2>2, <2>3, <2>4
<1>16. WordAt(m5, sp - 6) = sr
  <2>1. WordAt(m3, sp - 6) = WordAt(m2, sp - 6)
    BY <1>6, <1>7, <1>13, LessRoom, PushKeeps
  <2>2. WordAt(m4, sp - 6) = WordAt(m3, sp - 6)
    BY <1>8, <1>9, <1>13, LessRoom, PushKeeps
  <2>3. WordAt(m5, sp - 6) = WordAt(m4, sp - 6)
    BY <1>10, <1>11, <1>13, LessRoom, PushKeeps
  <2> QED BY <1>5, <1>13, <2>1, <2>2, <2>3
<1>17. WordAt(m5, sp - 8) = Encode(c.ir)
  <2>1. WordAt(m4, sp - 8) = WordAt(m3, sp - 8)
    BY <1>8, <1>9, <1>13, LessRoom, PushKeeps
  <2>2. WordAt(m5, sp - 8) = WordAt(m4, sp - 8)
    BY <1>10, <1>11, <1>13, LessRoom, PushKeeps
  <2> QED BY <1>7, <1>13, <2>1, <2>2
<1>18. LongIn(m5, sp - 12) = address
  <2>1. LongIn(m5, sp - 12) = LongIn(m4, sp - 12)
    BY <1>10, <1>11, <1>13, LessRoom, PushKeeps
  <2> QED BY <1>9, <1>13, <2>1
<1> QED
  BY <1>12, <1>14, <1>15, <1>16, <1>17, <1>18

\* Two words make a long
LEMMA JoinedWords ==
  ASSUME NEW x \in 0 .. 2^W - 1, NEW y \in 0 .. 2^W - 1
  PROVE  x * 2^W + y \in Values(L)
<1> DEFINE p == 2^W
<1>1. p \in Nat /\ 2^L = p * p /\ x \in 0 .. p - 1 /\ y \in 0 .. p - 1
  BY Widths
<1> HIDE DEF p
<1>2. x * p <= (p - 1) * p /\ x * p \in Nat /\ (p - 1) * p = p * p - p /\ p * p \in Nat
  BY <1>1
<1>3. x * p + y \in 0 .. p * p - 1
  BY <1>1, <1>2
<1> QED
  BY <1>1, <1>3 DEF p, Values

\* Two bytes make a word
LEMMA JoinedBytes ==
  ASSUME NEW x \in Values(B), NEW y \in Values(B)
  PROVE  x * 2^B + y \in Values(W)
<1> DEFINE p == 2^B
<1>1. p \in Nat /\ 2^W = p * p /\ x \in 0 .. p - 1 /\ y \in 0 .. p - 1
  BY Widths DEF Values
<1> HIDE DEF p
<1>2. x * p <= (p - 1) * p /\ x * p \in Nat /\ (p - 1) * p = p * p - p /\ p * p \in Nat
  BY <1>1
<1>3. x * p + y \in 0 .. p * p - 1
  BY <1>1, <1>2
<1> QED
  BY <1>1, <1>3 DEF p, Values

\* What the bus reads is bytes
LEMMA BytesAreTyped ==
  ASSUME NEW c, c.mem \in [Ram -> Values(B)], NEW a \in Mapped
  PROVE  ByteAt(c, a) \in Values(B)
  BY MemoryAssumption DEF ByteAt, Mapped

\* words
LEMMA WordsAreTyped ==
  ASSUME NEW c, c.mem \in [Ram -> Values(B)], NEW a \in Int, a % 2 = 0, BusAddress(a) \in Mapped
  PROVE  ValueAt(c, BusAddress(a), 2) \in Values(W)
<1>1. BusAddress(a) + 1 \in Mapped
  BY EvenOnBus, MemoryAssumption DEF Mapped
<1>2. ByteAt(c, BusAddress(a)) \in Values(B) /\ ByteAt(c, BusAddress(a) + 1) \in Values(B)
  BY <1>1, BytesAreTyped
<1> QED
  BY <1>2, JoinedBytes DEF ValueAt

\* and longs
LEMMA LongsAreTyped ==
  ASSUME NEW c, c.mem \in [Ram -> Values(B)], NEW a \in Int, a % 2 = 0,
         BusAddress(a) \in Mapped, BusAddress(a + 2) \in Mapped
  PROVE  LongAt(c, a) \in Values(L)
<1>1. a + 2 \in Int /\ (a + 2) % 2 = 0
  OBVIOUS
<1>2. ValueAt(c, BusAddress(a), 2) \in Values(W) /\ ValueAt(c, BusAddress(a + 2), 2) \in Values(W)
  BY <1>1, WordsAreTyped
<1> QED
  BY <1>2, JoinedWords DEF LongAt, Values

(***************************************************************************)
(* Reads that do not fault.                                                 *)
(***************************************************************************)
\* Reading a long that translates returns its two words
LEMMA LongReadIs ==
  ASSUME NEW c, Shape(c), c.flt = NoFault, c.mem \in [Ram -> Values(B)], NEW a \in Int, a % 2 = 0,
         Translates(c, a), Translates(c, a + 2), NEW space
  PROVE  ReadIn(c, L, a, space).m = [c EXCEPT !.pending = FALSE] /\ ReadIn(c, L, a, space).v = LongAt(c, a)
<1> DEFINE w == ValueAt(c, BusAddress(a), 2)
           x == ValueAt(c, BusAddress(a + 2), 2)
           k == [c EXCEPT !.pending = FALSE]
           r == ReadPart([m |-> c, v |-> 0], a, 2)
           q == ReadPart(r, a + 2, 2)
<1>1. w \in Nat /\ x \in Nat
  <2>1. a + 2 \in Int /\ (a + 2) % 2 = 0
    OBVIOUS
  <2> QED
    BY <2>1, WordsAreTyped, Widths DEF Values, Translates
<1>2. ReadIn(c, L, a, space) = q
  BY SizesOfParts DEF ReadIn
<1>3. 2^(B * 2) = 2^W /\ 2^W \in Nat
  BY Widths
<1>4. r = [m |-> k, v |-> w]
  <2>1. r = [m |-> k, v |-> 0 * 2^(B * 2) + w]
    BY DEF ReadPart
  <2>2. 0 * 2^(B * 2) + w = w
    <3> HIDE DEF w
    <3> QED BY <1>1, <1>3
  <2> QED BY <2>1, <2>2
<1>5. Shape(k) /\ k.flt = NoFault /\ Translates(k, a + 2) /\ ValueAt(k, BusAddress(a + 2), 2) = x
  BY DEF Shape, Translates, ValueAt, ByteAt
<1>6. [k EXCEPT !.pending = FALSE] = k
  BY DEF Shape
<1>7. q.m = k /\ q.v = w * 2^W + x
  <2> HIDE DEF k, r, w, x
  <2>1. q = ReadPart([m |-> k, v |-> w], a + 2, 2)
    BY <1>4
  <2> QED BY <2>1, <1>3, <1>5, <1>6, WordReadIs
<1> QED
  BY <1>2, <1>7 DEF LongAt

\* and a word itself
LEMMA WordReadsIs ==
  ASSUME NEW c, Shape(c), c.flt = NoFault, c.mem \in [Ram -> Values(B)], NEW a \in Int, a % 2 = 0,
         Translates(c, a), NEW space
  PROVE  /\ ReadIn(c, W, a, space).m = [c EXCEPT !.pending = FALSE]
         /\ ReadIn(c, W, a, space).v = ValueAt(c, BusAddress(a), 2)
<1> DEFINE w == ValueAt(c, BusAddress(a), 2)
           r == ReadPart([m |-> c, v |-> 0], a, 2)
<1>1. w \in Nat
  BY WordsAreTyped, Widths DEF Values, Translates
<1>2. ReadIn(c, W, a, space) = ReadPart(r, a + 2, 0)
  BY SizesOfParts DEF ReadIn
<1>3. 2^(B * 2) = 2^W /\ 2^W \in Nat
  BY Widths
<1>4. r.m = [c EXCEPT !.pending = FALSE] /\ r.v = 0 * 2^(B * 2) + w
  BY DEF ReadPart
<1>5. 0 * 2^(B * 2) + w = w
  <2> HIDE DEF w
  <2> QED BY <1>1, <1>3
<1> HIDE DEF r
<1> QED
  BY <1>2, <1>4, <1>5, NothingRead

\* A long of RAM is read where memory holds it
LEMMA LongInRam ==
  ASSUME NEW c, NEW a \in Nat, a .. a + 3 \subseteq Ram
  PROVE  LongAt(c, a) = LongIn(c.mem, a) /\ BusAddress(a) = a /\ BusAddress(a + 2) = a + 2
<1>1. a \in Ram /\ a + 1 \in Ram /\ a + 2 \in Ram /\ a + 2 + 1 \in Ram
  <2>1. {a, a + 1, a + 2, a + 2 + 1} \subseteq a .. a + 3
    OBVIOUS
  <2> QED BY <2>1
<1>2. ValueAt(c, a, 2) = WordAt(c.mem, a) /\ ValueAt(c, a + 2, 2) = WordAt(c.mem, a + 2)
  BY <1>1, ValueIsWord
<1> QED
  BY <1>1, <1>2, BusOfRam DEF LongAt, LongIn

(***************************************************************************)
(* Pulls.                                                                  *)
(***************************************************************************)
\* n bytes above the stack pointer are there
Filled(c, n) ==
  /\ Shape(c) /\ c.flt = NoFault /\ c.mem \in [Ram -> Values(B)]
  /\ c.da[SP] \in Nat /\ c.da[SP] % 2 = 0 /\ c.da[SP] + n \in Values(L)
  /\ c.da[SP] .. c.da[SP] + n - 1 \subseteq Ram \ c.out

\* A long is pulled off the stack
LEMMA PullLongIs ==
  ASSUME NEW c, NEW n \in Nat, n >= 4, Filled(c, n)
  PROVE  /\ Pull(c, L).m = [c EXCEPT !.da[SP] = c.da[SP] + 4, !.pending = FALSE]
         /\ Pull(c, L).v = LongIn(c.mem, c.da[SP])
<1> DEFINE sp == c.da[SP]
           k == [c EXCEPT !.da[SP] = sp + 4]
<1>1. sp + 4 \in Values(L)
  BY Widths DEF Filled, Values
<1>2. SetReg(c, SP, sp + Bytes(L)) = k
  BY <1>1, MaskIs, SizesOfParts DEF SetReg, Go, Filled
<1>3. Shape(k) /\ k.flt = NoFault /\ k.mem = c.mem /\ k.out = c.out /\ k.mem \in [Ram -> Values(B)]
  BY DEF Filled, Shape
<1>4. sp \in Nat /\ sp % 2 = 0 /\ sp .. sp + 3 \subseteq Ram \ c.out
  <2>1. sp .. sp + 3 \subseteq sp .. sp + n - 1
    BY DEF Filled
  <2> QED BY <2>1 DEF Filled
<1>5. Translates(k, sp) /\ Translates(k, sp + 2)
  <2>1. sp \in sp .. sp + 3 /\ sp + 2 \in sp .. sp + 3
    BY <1>4
  <2> QED BY <2>1, <1>3, <1>4, RamTranslates
<1>6. LongAt(k, sp) = LongIn(c.mem, sp)
  <2>1. sp .. sp + 3 \subseteq Ram
    BY <1>4
  <2> HIDE DEF k
  <2> QED BY <2>1, <1>3, <1>4, LongInRam
<1>7. Pull(c, L) = ReadIn(k, L, sp, DataSpace(k))
  BY <1>2 DEF Pull, Read
<1>8. ReadIn(k, L, sp, DataSpace(k)).m = [k EXCEPT !.pending = FALSE] /\ ReadIn(k, L, sp, DataSpace(k)).v = LongAt(k, sp)
  <2> HIDE DEF k
  <2> QED BY <1>3, <1>4, <1>5, LongReadIs
<1> QED
  BY <1>6, <1>7, <1>8

\* and a word
LEMMA PullWordIs ==
  ASSUME NEW c, NEW n \in Nat, n >= 2, Filled(c, n)
  PROVE  /\ Pull(c, W).m = [c EXCEPT !.da[SP] = c.da[SP] + 2, !.pending = FALSE]
         /\ Pull(c, W).v = WordAt(c.mem, c.da[SP])
<1> DEFINE sp == c.da[SP]
           k == [c EXCEPT !.da[SP] = sp + 2]
<1>1. sp + 2 \in Values(L)
  BY Widths DEF Filled, Values
<1>2. SetReg(c, SP, sp + Bytes(W)) = k
  BY <1>1, MaskIs, SizesOfParts DEF SetReg, Go, Filled
<1>3. Shape(k) /\ k.flt = NoFault /\ k.mem = c.mem /\ k.out = c.out /\ k.mem \in [Ram -> Values(B)]
  BY DEF Filled, Shape
<1>4. sp \in Ram \ c.out /\ sp + 1 \in Ram /\ sp % 2 = 0 /\ sp \in Int
  <2>1. sp \in sp .. sp + n - 1 /\ sp + 1 \in sp .. sp + n - 1
    BY DEF Filled
  <2> QED BY <2>1 DEF Filled
<1>5. Translates(k, sp) /\ BusAddress(sp) = sp
  BY <1>3, <1>4, RamTranslates
<1>6. ValueAt(k, sp, 2) = WordAt(c.mem, sp)
  BY <1>3, <1>4, ValueIsWord
<1>7. Pull(c, W) = ReadIn(k, W, sp, DataSpace(k))
  BY <1>2 DEF Pull, Read
<1>8. ReadIn(k, W, sp, DataSpace(k)).m = [k EXCEPT !.pending = FALSE] /\ ReadIn(k, W, sp, DataSpace(k)).v = ValueAt(k, BusAddress(sp), 2)
  <2> HIDE DEF k
  <2> QED BY <1>3, <1>4, <1>5, WordReadsIs
<1> QED
  BY <1>5, <1>6, <1>7, <1>8

Flags(c) == <<c.x, c.n, c.z, c.v, c.c>>
FlagsIn(v) == <<Bit(v, 4), Bit(v, 3), Bit(v, 2), Bit(v, 1), Bit(v, 0)>>
SrMask(v) == (v \div 2^B) % 8
SrS(v) == Bit(v, W - 3)

\* Quotient and remainder of what is built of them
LEMMA Dividend ==
  ASSUME NEW k \in Nat, k >= 1, NEW q \in Nat, NEW r \in 0 .. k - 1
  PROVE  (k * q + r) \div k = q /\ (k * q + r) % k = r
<1> DEFINE v == k * q + r
           q1 == v \div k
           r1 == v % k
<1>1. k * q \in Nat /\ v \in Nat
  OBVIOUS
<1>2. v = k * q1 + r1 /\ r1 \in 0 .. k - 1 /\ q1 \in Nat
  <2> HIDE DEF v
  <2> QED BY <1>1
<1>3. v = k * q + r
  OBVIOUS
<1> HIDE DEF v, q1, r1
<1>4. ~(q1 >= q + 1)
  <2> SUFFICES ASSUME q1 >= q + 1 PROVE FALSE
    OBVIOUS
  <2>1. k * q1 >= k * (q + 1) /\ k * (q + 1) = k * q + k /\ k * q1 \in Nat /\ k * q \in Nat
    BY <1>2
  <2> QED BY <2>1, <1>2, <1>3
<1>5. ~(q >= q1 + 1)
  <2> SUFFICES ASSUME q >= q1 + 1 PROVE FALSE
    OBVIOUS
  <2>1. k * q >= k * (q1 + 1) /\ k * (q1 + 1) = k * q1 + k /\ k * q1 \in Nat /\ k * q \in Nat
    BY <1>2
  <2> QED BY <2>1, <1>2, <1>3
<1>6. q1 = q
  BY <1>2, <1>4, <1>5
<1>7. r1 = r
  <2>1. k * q1 = k * q /\ k * q \in Nat
    BY <1>6
  <2> QED BY <2>1, <1>2, <1>3
<1> QED
  BY <1>6, <1>7 DEF q1, r1, v

\* The condition codes are found in the byte they make
LEMMA FlagsOfByte ==
  ASSUME NEW q \in Nat, NEW x \in {0, 1}, NEW n \in {0, 1}, NEW z \in {0, 1}, NEW v \in {0, 1}, NEW c \in {0, 1},
         NEW u \in Nat, u = 32 * q + (16 * x + 8 * n + 4 * z + 2 * v + c)
  PROVE  FlagsIn(u) = <<x, n, z, v, c>>
<1>2. (u \div 16) % 2 = x /\ (u \div 8) % 2 = n /\ (u \div 4) % 2 = z /\ (u \div 2) % 2 = v /\ (u \div 1) % 2 = c
  <2>1. u \div 16 = 2 * q + x /\ u \div 8 = 4 * q + 2 * x + n /\ u \div 4 = 8 * q + 4 * x + 2 * n + z
        /\ u \div 2 = 16 * q + 8 * x + 4 * n + 2 * z + v /\ u \div 1 = u
    OBVIOUS
  <2> QED BY <2>1
<1>3. 2^4 = 16 /\ 2^3 = 8 /\ 2^2 = 4 /\ 2^1 = 2 /\ 2^0 = 1
  OBVIOUS
<1> QED
  BY <1>2, <1>3 DEF FlagsIn, Bit

\* The status register holds what it was made of
LEMMA SrRoundTrip ==
  ASSUME NEW c, {c.x, c.n, c.z, c.v, c.c, c.s, c.t} \subseteq Flag, c.mask \in 0 .. 7
  PROVE  /\ Sr(c) \in Values(W) /\ SrS(Sr(c)) = c.s /\ SrMask(Sr(c)) = c.mask
         /\ FlagsIn(Sr(c)) = Flags(c)
<1>1. PICK h \in Nat : h >= 8 /\ h % 8 = 0 /\ 2^B = 8 * h /\ 2^(W - 3) = h * 2^B /\ 2^(W - 1) = 4 * (h * 2^B)
  BY Widths
<1> DEFINE p == 2^B
           f == Ccr(c)
           s == c.s
           t == c.t
           k == c.mask
<1>2. s \in {0, 1} /\ t \in {0, 1} /\ k \in 0 .. 7 /\ f \in 0 .. 31
  BY DEF Flag, Ccr
<1>3. p \in Nat /\ p = 8 * h /\ 2^(W - 3) = h * p /\ 2^(W - 1) = 4 * (h * p) /\ 2^W = p * p
  BY <1>1, Widths
<1>4. Sr(c) = (4 * (h * p)) * t + (h * p) * s + p * k + f
  BY <1>3 DEF Sr
<1>5. f = 16 * c.x + 8 * c.n + 4 * c.z + 2 * c.v + c.c
  BY DEF Ccr
<1>6. h * p \in Nat /\ p * k \in Nat /\ p * k <= p * 7 /\ h * p >= 8 * p /\ p * p = 8 * (h * p) /\ p >= 64
  <2> HIDE DEF p, k
  <2>1. h \in Nat /\ p \in Nat /\ k \in Nat /\ h >= 8 /\ k <= 7 /\ p = 8 * h
    BY <1>1, <1>2, <1>3
  <2>2. h * p \in Nat /\ p * k \in Nat
    BY <2>1
  <2>3. p * k <= p * 7
    BY <2>1
  <2>4. h * p >= 8 * p
    BY <2>1
  <2>5. p * p = 8 * (h * p)
    BY <2>1
  <2> QED BY <2>1, <2>2, <2>3, <2>4, <2>5
<1> DEFINE H == h * p
<1>7. Sr(c) = H * (4 * t + s) + (p * k + f) /\ p * k + f \in 0 .. H - 1 /\ H >= 1 /\ H \in Nat
  <2> HIDE DEF p, k, f, s, t
  <2>1. (4 * H) * t = H * (4 * t)
    BY <1>2, <1>6
  <2>2. H * (4 * t) + H * s = H * (4 * t + s)
    <3> HIDE DEF H
    <3> QED BY <1>2, <1>6 DEF H
  <2>3. H * (4 * t) \in Nat /\ H * s \in Nat
    <3> HIDE DEF H
    <3> QED BY <1>2, <1>6 DEF H
  <2> HIDE DEF H
  <2>4. H \in Nat /\ H >= 8 * p /\ p >= 64 /\ p * k \in Nat /\ p * k <= p * 7 /\ p \in Nat
    BY <1>3, <1>6 DEF H
  <2>5. Sr(c) = (4 * H) * t + H * s + p * k + f
    BY <1>4 DEF H
  <2>6. p * k + f \in 0 .. H - 1
    BY <2>4, <1>2
  <2> QED BY <2>1, <2>2, <2>3, <2>4, <2>5, <2>6, <1>2
<1>8. SrS(Sr(c)) = s
  <2> HIDE DEF p, k, f, s, t
  <2>0. 4 * t + s \in Nat /\ (4 * t + s) % 2 = s
    BY <1>2
  <2>1. Sr(c) \div H = 4 * t + s
    <3> HIDE DEF H
    <3>1. (H * (4 * t + s) + (p * k + f)) \div H = 4 * t + s
      BY <1>7, <2>0, Dividend
    <3> QED BY <3>1, <1>7
  <2>2. 2^(W - 3) = H
    BY <1>3
  <2> QED BY <2>0, <2>1, <2>2 DEF SrS, Bit
<1> DEFINE q == h * (4 * t + s) + k
<1>9. Sr(c) = p * q + f /\ q \in Nat /\ f \in 0 .. p - 1
  <2> HIDE DEF p, k, f, s, t
  <2> DEFINE y == 4 * t + s
  <2>1. y \in Nat /\ h * y \in Nat
    <3>1. y \in Nat BY <1>2
    <3> HIDE DEF y
    <3> QED BY <3>1
  <2>2. (h * p) * y = p * (h * y) /\ p * (h * y + k) = p * (h * y) + p * k
    <3> HIDE DEF y
    <3> QED BY <2>1, <1>2, <1>3
  <2>3. p * (h * y) \in Nat /\ p * k \in Nat
    <3> HIDE DEF y
    <3> QED BY <2>1, <1>2, <1>3
  <2>4. Sr(c) = (h * p) * y + (p * k + f)
    BY <1>7
  <2> HIDE DEF y
  <2>5. Sr(c) = p * (h * y + k) + f
    BY <1>2, <2>2, <2>3, <2>4
  <2>6. h * y + k \in Nat
    BY <1>2, <2>1
  <2>7. f \in 0 .. p - 1
    <3>1. p \in Nat /\ p >= 64
      BY <1>3, <1>6
    <3> QED BY <3>1, <1>2
  <2> QED BY <2>5, <2>6, <2>7, Zenon DEF y
<1>10. SrMask(Sr(c)) = k
  <2> HIDE DEF p, k, f, s, t
  <2>1. (p * q + f) \div p = q
    <3> HIDE DEF q
    <3>1. p \in Nat /\ p >= 1 /\ q \in Nat /\ f \in 0 .. p - 1
      BY <1>3, <1>6, <1>9
    <3> QED BY <3>1, Dividend
  <2>2. Sr(c) \div p = q
    BY <2>1, <1>9
  <2>3. PICK g \in Nat : h = 8 * g
    BY <1>1
  <2>4. q = 8 * (g * (4 * t + s)) + k
    <3> DEFINE y == 4 * t + s
    <3>1. y \in Nat BY <1>2
    <3> HIDE DEF y
    <3>2. h * y = 8 * (g * y)
      BY <2>3, <3>1
    <3> QED BY <3>2 DEF y
  <2>5. g * (4 * t + s) \in Nat
    <3> DEFINE y == 4 * t + s
    <3>1. y \in Nat BY <1>2
    <3> HIDE DEF y
    <3> QED BY <3>1 DEF y
  <2> HIDE DEF q
  <2>6. q % 8 = k
    <3> DEFINE y == g * (4 * t + s)
    <3>1. y \in Nat /\ q = 8 * y + k BY <2>4, <2>5
    <3> HIDE DEF y
    <3> QED BY <3>1, <1>2
  <2> QED BY <2>2, <2>6 DEF SrMask, p
<1>11. FlagsIn(Sr(c)) = Flags(c)
  <2>1. PICK g \in Nat : p = 32 * g
    <3>1. PICK i \in Nat : h = 8 * i
      BY <1>1
    <3>2. p = 32 * (2 * i) /\ 2 * i \in Nat
      <4> HIDE DEF p
      <4> QED BY <1>3, <3>1
    <3> QED BY <3>2
  <2>2. Sr(c) = 32 * (g * q) + f /\ g * q \in Nat
    <3>1. p * q = 32 * (g * q) /\ g * q \in Nat
      <4> HIDE DEF p, q
      <4> QED BY <2>1, <1>9
    <3> QED BY <3>1, <1>9
  <2> HIDE DEF q
  <2>3. c.x \in Flag /\ c.n \in Flag /\ c.z \in Flag /\ c.v \in Flag /\ c.c \in Flag
    OBVIOUS
  <2>4. FlagsIn(Sr(c)) = <<c.x, c.n, c.z, c.v, c.c>>
    <3> DEFINE e == g * q
               u == Sr(c)
               fx == c.x
               fn == c.n
               fz == c.z
               fv == c.v
               fc == c.c
    <3>1. e \in Nat /\ u \in Nat
      BY <2>2, <1>2
    <3>2. u = 32 * e + (16 * fx + 8 * fn + 4 * fz + 2 * fv + fc)
      BY <1>5, <2>2
    <3>3. fx \in {0, 1} /\ fn \in {0, 1} /\ fz \in {0, 1} /\ fv \in {0, 1} /\ fc \in {0, 1}
      BY <2>3 DEF Flag
    <3> HIDE DEF e, f, u, fx, fn, fz, fv, fc
    <3>4. FlagsIn(u) = <<fx, fn, fz, fv, fc>>
      BY <3>1, <3>2, <3>3, FlagsOfByte
    <3> QED BY <3>4 DEF u, fx, fn, fz, fv, fc
  <2> QED BY <2>4 DEF Flags
<1>12. Sr(c) \in Values(W)
  <2> HIDE DEF p, k, f, s, t
  <2> DEFINE y == 4 * t + s
  <2>1. y \in 0 .. 5
    BY <1>2
  <2> HIDE DEF y
  <2>2. H * y <= H * 5 /\ H * y \in Nat
    <3> HIDE DEF H
    <3> QED BY <2>1, <1>7
  <2>3. Sr(c) = H * y + (p * k + f)
    BY <1>7 DEF y
  <2>4. 2^W = 8 * H
    BY <1>3, <1>6
  <2> HIDE DEF H
  <2>5. Sr(c) \in 0 .. 8 * H - 1
    BY <1>7, <2>2, <2>3
  <2> QED BY <2>4, <2>5 DEF Values
<1> QED
  BY <1>8, <1>10, <1>11, <1>12

Top == Start.base[1]

\* What is assumed of the kernel's stack: RAM, never out, none of the program's data
LEMMA StackFacts ==
  /\ Top \in Nat /\ Top \in Values(L) /\ Top % 2 = 0
  /\ KernelStack \subseteq Ram /\ KernelStack \cap Paged = {} /\ KernelStack \cap Watched = {}
  /\ \A l \in Levels \cup {0} : Top - 14 - 6 * l .. Top - 1 \subseteq KernelStack
  /\ \A l \in Levels \cup {0} : l \in 0 .. 6
<1>1. Top \in Values(L)
  <2>1. Start.base \in [{0, 1} -> Values(L)]
    BY ExecuteAssumption DEF MachineType
  <2> QED BY <2>1 DEF Top
<1>2. Top \in Nat
  BY <1>1, Widths DEF Values
<1>3. \A l \in Levels \cup {0} : Top - 14 - 6 * l .. Top - 1 \subseteq KernelStack
  BY DEF KernelStack, Top
<1> QED
  BY <1>1, <1>2, <1>3, KernelAssumption, ExecuteAssumption DEF Top

\* An even address of the bus keeps its word, and its long, inside what is mapped
LEMMA RomIs ==
  ASSUME NEW a \in DOMAIN Rom
  PROVE  a \in Nat /\ BusAddress(a) = a /\ a \notin Ram /\ a \in Mapped
<1>1. a \in 0 .. 2^AddressBits - 1
  BY MemoryAssumption
<1>2. AddressBits \in 0 .. L
  BY AddressBitsAssumption, ByteBitsAssumption DEF L
<1>3. 2^AddressBits \in Nat
  BY <1>2, PowersAssumption
<1> QED
  BY <1>1, <1>3, MemoryAssumption DEF BusAddress, Mapped

\* A vector is read from read-only bytes that are never out
LEMMA VectorIs ==
  ASSUME NEW v \in Nat, NEW entry, VectorTo(v, entry), NEW c, c.out \subseteq Paged
  PROVE  /\ 4 * v \in Nat /\ (4 * v) % 2 = 0 /\ Translates(c, 4 * v) /\ Translates(c, 4 * v + 2)
         /\ LongAt(c, 4 * v) = entry
<1>1. \A a \in 4 * v .. 4 * v + 3 : a \in DOMAIN Rom /\ a \notin Paged
  BY DEF VectorTo
<1>2. {4 * v, 4 * v + 1, 4 * v + 2, 4 * v + 2 + 1} \subseteq 4 * v .. 4 * v + 3
  OBVIOUS
<1>3. /\ BusAddress(4 * v) = 4 * v /\ BusAddress(4 * v + 2) = 4 * v + 2
      /\ 4 * v \notin Ram /\ 4 * v + 1 \notin Ram /\ 4 * v + 2 \notin Ram /\ 4 * v + 2 + 1 \notin Ram
      /\ 4 * v \in Mapped /\ 4 * v + 2 \in Mapped /\ 4 * v \notin c.out /\ 4 * v + 2 \notin c.out
  BY <1>1, <1>2, RomIs
<1>4. LongAt(c, 4 * v) = LongAt(Start, 4 * v)
  BY <1>3 DEF LongAt, ValueAt, ByteAt
<1> QED
  BY <1>3, <1>4 DEF Translates, VectorTo

\* What a vector holds is an address
LEMMA EntriesAreTyped ==
  ASSUME NEW v \in Nat, NEW entry, VectorTo(v, entry)
  PROVE  entry \in Values(L)
<1>1. Start.mem \in [Ram -> Values(B)]
  BY ExecuteAssumption DEF MachineType
<1>2. \A a \in 4 * v .. 4 * v + 3 : a \in DOMAIN Rom
  BY DEF VectorTo
<1>3. 4 * v \in 4 * v .. 4 * v + 3 /\ 4 * v + 2 \in 4 * v .. 4 * v + 3 /\ 4 * v \in Int /\ (4 * v) % 2 = 0
  OBVIOUS
<1>4. BusAddress(4 * v) \in Mapped /\ BusAddress(4 * v + 2) \in Mapped
  BY <1>2, <1>3, RomIs
<1>5. LongAt(Start, 4 * v) \in Values(L)
  BY <1>1, <1>3, <1>4, LongsAreTyped
<1> QED
  BY <1>5 DEF VectorTo

\* What is assumed of the kernel's entries
LEMMA EntryFacts ==
  /\ VectorTo(BusErrorVector, BusErrorEntry) /\ BusErrorVector = 2 /\ BusErrorEntry \in Values(L)
  /\ \A l \in Levels : /\ AutoVector + l \in Nat /\ VectorTo(AutoVector + l, InterruptEntry[l])
                       /\ InterruptEntry[l] \in Values(L) /\ InterruptEntry[l] # 0
                       /\ InterruptEntry[l] \notin {BusErrorEntry, KernelReturn}
  /\ BusErrorEntry # KernelReturn
  /\ KernelReturn \in Values(L) /\ KernelReturn + 2 \in Values(L) /\ KernelReturn - 2 \in Values(L)
  /\ KernelReturn % 2 = 0
<1>1. BusErrorVector = 2 /\ AutoVector = 24
  BY DEF BusErrorVector, AutoVector
<1>2. \A l \in Levels : AutoVector + l \in Nat
  BY <1>1, ExecuteAssumption
<1>3. BusErrorVector \in Nat
  BY <1>1
<1>4. KernelReturn \in Values(L) /\ KernelReturn + 2 \in Values(L) /\ KernelReturn - 2 \in Values(L)
  BY KernelAssumption, Widths DEF Values
<1> QED
  BY <1>1, <1>2, <1>3, <1>4, KernelAssumption, EntriesAreTyped

(***************************************************************************)
(* An interrupt enters the kernel.                                          *)
(***************************************************************************)
\* The stack an exception of c uses
Bottom(c) == IF c.s = 1 THEN c.da[SP] ELSE c.base[1]

\* Entering an exception changes to the supervisor's stack (m68ki_init_exception)
LEMMA InitExceptionIs ==
  ASSUME NEW c, Shape(c), c.s \in {0, 1}
  PROVE  InitException(c)
           = [c EXCEPT !.t = 0, !.base = [c.base EXCEPT ![c.s] = c.da[SP]], !.s = 1, !.da[SP] = Bottom(c)]
<1>1. [c.base EXCEPT ![c.s] = c.da[SP]][1] = Bottom(c)
  BY DEF Shape, Bottom
<1> QED
  BY <1>1 DEF InitException, SetS, Shape

\* The stack of c has room for n bytes, after it has been entered
Deep(c, n) ==
  /\ Bottom(c) \in Values(L) /\ Bottom(c) % 2 = 0
  /\ Bottom(c) - n .. Bottom(c) - 1 \subseteq Ram \ c.out

\* What the type of a machine says of its fields
LEMMA TypeOf ==
  ASSUME NEW c, MachineType(c)
  PROVE  /\ Shape(c) /\ c.mem \in [Ram -> Values(B)] /\ c.da \in [0 .. 15 -> Values(L)]
         /\ c.save \in [0 .. 15 -> Values(L)] /\ c.base \in [{0, 1} -> Values(L)]
         /\ c.pc \in Values(L) /\ c.ppc \in Values(L) /\ c.prev \in Values(L) /\ c.mask \in 0 .. 7 /\ c.s \in {0, 1}
         /\ {c.x, c.n, c.z, c.v, c.c, c.s, c.t} \subseteq Flag
         /\ c.instr \in {InstructionYes, InstructionNo} /\ Sr(c) \in Values(W)
<1>1. /\ Shape(c) /\ c.mem \in [Ram -> Values(B)] /\ c.da \in [0 .. 15 -> Values(L)]
      /\ c.save \in [0 .. 15 -> Values(L)] /\ c.base \in [{0, 1} -> Values(L)]
      /\ c.pc \in Values(L) /\ c.ppc \in Values(L) /\ c.prev \in Values(L) /\ c.mask \in 0 .. 7 /\ c.s \in Flag
      /\ c.x \in Flag /\ c.n \in Flag /\ c.z \in Flag /\ c.v \in Flag /\ c.c \in Flag /\ c.t \in Flag
      /\ c.instr \in {InstructionYes, InstructionNo}
  BY TypeHasShape DEF MachineType
<1> QED
  BY <1>1, SrRoundTrip DEF Flag

\* c in the handler of an interrupt, its frame at sp
Entered(c, level, sp, mem) ==
  [c EXCEPT !.instr = InstructionNo, !.t = 0, !.base = [c.base EXCEPT ![c.s] = c.da[SP]], !.s = 1,
            !.da[SP] = sp, !.mask = level, !.pending = FALSE, !.mem = mem,
            !.pc = InterruptEntry[level], !.level = 0]

\* An interrupt pushes status register and PC, raises the mask to its level, goes to its
\* vector and forgets the line (m68ki_exception_interrupt)
LEMMA InterruptIs ==
  ASSUME NEW c, MachineType(c), c.flt = NoFault, c.stopped = {}, c.out \subseteq Paged, Deep(c, 6),
         NEW level \in Levels, NEW sp, sp = Bottom(c)
  PROVE  \E mem \in [Ram -> Values(B)] :
           /\ Interrupt(c, level) = Entered(c, level, sp - 6, mem)
           /\ SameOutside(c.mem, mem, sp - 6, sp - 1)
           /\ WordAt(mem, sp - 6) = Sr(c) /\ LongIn(mem, sp - 4) = c.pc
<1> DEFINE base == [c.base EXCEPT ![c.s] = c.da[SP]]
           woken == [c EXCEPT !.instr = InstructionNo, !.stopped = @ \ {"stop"}]
           k == [c EXCEPT !.instr = InstructionNo, !.t = 0, !.base = base, !.s = 1, !.da[SP] = sp, !.mask = level]
           j == [k EXCEPT !.pending = FALSE]
           to == InterruptEntry[level]
           h == Frame3(j, c.pc, Sr(c))
<1>1. Shape(c) /\ c.s \in {0, 1} /\ c.mem \in [Ram -> Values(B)] /\ c.pc \in Values(L) /\ Sr(c) \in Values(W)
  BY TypeOf
<1>2. woken = [c EXCEPT !.instr = InstructionNo] /\ woken.stopped = {}
  BY <1>1 DEF Shape
<1>3. [InitException(woken) EXCEPT !.mask = level] = k
  <2>1. Shape(woken) /\ woken.s \in {0, 1} /\ Bottom(woken) = sp
    BY <1>1, <1>2 DEF Shape, Bottom
  <2>2. InitException(woken)
          = [woken EXCEPT !.t = 0, !.base = [woken.base EXCEPT ![woken.s] = woken.da[SP]], !.s = 1, !.da[SP] = sp]
    <3> HIDE DEF woken
    <3> QED BY <2>1, InitExceptionIs
  <2> QED BY <1>1, <1>2, <2>2 DEF Shape
<1>4. Shape(k) /\ k.flt = NoFault /\ k.mem = c.mem /\ k.out = c.out /\ k.da[SP] = sp
  <2> DEFINE D == [c.da EXCEPT ![SP] = sp]
  <2>1. D = [r \in 0 .. 15 |-> D[r]] /\ D[SP] = sp /\ base = [s \in {0, 1} |-> base[s]]
    <3> QED BY <1>1 DEF Shape, SP
  <2>2. k = [c EXCEPT !.instr = InstructionNo, !.t = 0, !.base = base, !.s = 1, !.da = D, !.mask = level]
    OBVIOUS
  <2> HIDE DEF D, k, base
  <2>3. /\ k.flt = NoFault /\ k.mem = c.mem /\ k.out = c.out /\ k.da = D /\ k.base = base
    BY <1>1, <2>2 DEF Shape
  <2>4. Shape(k)
    BY <1>1, <2>1, <2>2, <2>3 DEF Shape
  <2> QED BY <2>1, <2>3, <2>4
<1>5. VectorOf(k, level).m = j /\ VectorOf(k, level).v = to
  <2> DEFINE a == 4 * (AutoVector + level)
             r == Read(k, L, a)
  <2>1. a \in Nat /\ a % 2 = 0 /\ Translates(k, a) /\ Translates(k, a + 2) /\ LongAt(k, a) = to
    <3> HIDE DEF k
    <3> QED BY <1>4, EntryFacts, VectorIs
  <2>2. r.m = j /\ r.v = to
    <3> HIDE DEF k, a, to
    <3> QED BY <1>1, <1>4, <2>1, LongReadIs DEF Read
  <2>3. to # 0
    BY EntryFacts
  <2> HIDE DEF r, k, to
  <2>4. VectorOf(k, level) = [m |-> r.m, v |-> r.v]
    BY <2>2, <2>3 DEF VectorOf, With, r
  <2> QED BY <2>2, <2>4
<1>6. Shape(j) /\ j.flt = NoFault /\ j.mem = c.mem /\ j.out = c.out /\ j.da[SP] = sp
  <2> HIDE DEF k
  <2> QED BY <1>4 DEF Shape
<1>7. Ready(j, 6)
  <2> HIDE DEF j
  <2> QED BY <1>1, <1>6 DEF Ready, Room, Deep
<1>8. PICK mem : Pushed(h, j, 6, mem) /\ WordAt(mem, sp - 6) = Sr(c) /\ LongIn(mem, sp - 4) = c.pc
  <2> HIDE DEF j
  <2> QED BY <1>1, <1>6, <1>7, Frame3Is
<1>9. h = [j EXCEPT !.da[SP] = sp - 6, !.pending = FALSE, !.mem = mem] /\ mem \in [Ram -> Values(B)]
      /\ SameOutside(c.mem, mem, sp - 6, sp - 1)
  <2> HIDE DEF j, h
  <2> QED BY <1>6, <1>8 DEF Pushed, SameOutside
<1>10. Interrupt(c, level) = Served(Jump(h, to))
  <2>1. Interrupt(c, level) = With(VectorOf(k, level), LAMBDA x, y : Served(Jump(Frame3(x, c.pc, Sr(c)), y)))
    <3> HIDE DEF k, woken
    <3> QED BY <1>2, <1>3 DEF Interrupt, woken
  <2> HIDE DEF k, j
  <2> QED BY <2>1, <1>5 DEF With
<1>11. Served(Jump(h, to)) = [h EXCEPT !.pc = to, !.level = 0]
  <2>1. h.flt = NoFault /\ Shape(h)
    <3> HIDE DEF j, h
    <3> QED BY <1>6, <1>9 DEF Shape
  <2> HIDE DEF h
  <2> QED BY <2>1 DEF Served, Jump, Go, Shape
<1>12. h = [c EXCEPT !.instr = InstructionNo, !.t = 0, !.base = base, !.s = 1, !.da[SP] = sp - 6, !.mask = level,
                     !.pending = FALSE, !.mem = mem]
  <2> DEFINE low == sp - 6
  <2>1. h = [j EXCEPT !.da[SP] = low, !.pending = FALSE, !.mem = mem]
    BY <1>9
  <2> HIDE DEF low, h, base
  <2>2. [[c.da EXCEPT ![SP] = sp] EXCEPT ![SP] = low] = [c.da EXCEPT ![SP] = low]
    BY <1>1 DEF Shape, SP
  <2> DEFINE D == [c.da EXCEPT ![SP] = low]
             E == [c.da EXCEPT ![SP] = sp]
  <2>3. j.da = E
    BY <1>1 DEF Shape
  <2>4. h = [j EXCEPT !.da = D, !.pending = FALSE, !.mem = mem]
    <3> HIDE DEF j
    <3> QED BY <2>1, <2>2, <2>3
  <2>5. j = [c EXCEPT !.instr = InstructionNo, !.t = 0, !.base = base, !.s = 1, !.da = E, !.mask = level, !.pending = FALSE]
    <3> HIDE DEF E
    <3> QED BY <1>1 DEF Shape, E
  <2>6. h = [c EXCEPT !.instr = InstructionNo, !.t = 0, !.base = base, !.s = 1, !.da = D, !.mask = level,
                      !.pending = FALSE, !.mem = mem]
    <3> HIDE DEF D, E, j
    <3> QED BY <1>1, <2>4, <2>5 DEF Shape
  <2> QED BY <2>6 DEF low
<1>13. Interrupt(c, level)
         = [c EXCEPT !.instr = InstructionNo, !.t = 0, !.base = base, !.s = 1, !.da[SP] = sp - 6, !.mask = level,
                     !.pending = FALSE, !.mem = mem, !.pc = to, !.level = 0]
  <2> HIDE DEF base, to, h
  <2> QED BY <1>1, <1>10, <1>11, <1>12 DEF Shape
<1>14. Interrupt(c, level) = Entered(c, level, sp - 6, mem)
  BY <1>13 DEF Entered
<1> HIDE DEF h, j, k
<1> QED
  BY <1>8, <1>9, <1>14

\* What the frame of a bus error says of the jump it re-runs, or of the instruction
Reruns(c) == c.fetching /\ Rerun(c.ir).adj > 0
FramePc(c) ==
  IF Reruns(c) THEN Mask(L, c.prev + Rerun(c.ir).adj) ELSE IF c.fetching THEN c.pc ELSE Mask(L, c.ppc + 2)
FrameAddress(c) == IF Reruns(c) THEN Mask(L, c.pc - 2) ELSE c.flt.address
FrameUsp(c) == IF Reruns(c) /\ Rerun(c.ir).undo THEN Mask(L, c.save[SP] + 4) ELSE c.save[SP]

\* What is masked is typed
LEMMA MasksAreTyped == ASSUME NEW v \in Int PROVE Mask(L, v) \in Values(L)
<1>1. 2^L \in Nat /\ 2^L >= 1
  <2>1. L \in 0 .. L
    BY Widths
  <2> QED BY <2>1, PowersAssumption
<1> QED
  BY <1>1 DEF Mask, Values

\* How far a gate is before its target's fetch
LEMMA AdjIsInt == ASSUME NEW i PROVE Rerun(i).adj \in {0, 2, 4, 6}
  BY DEF Rerun

\* A jump through a vector goes to what it holds (m68ki_jump_vector)
LEMMA JumpVectorIs ==
  ASSUME NEW h, Shape(h), h.flt = NoFault, h.mem \in [Ram -> Values(B)], h.out \subseteq Paged,
         NEW v \in Nat, NEW entry, VectorTo(v, entry)
  PROVE  JumpVector(h, v) = [h EXCEPT !.pc = entry, !.pending = FALSE]
<1> DEFINE a == 4 * v
           k == [h EXCEPT !.pc = a]
           r == Read(k, L, a)
<1>1. Shape(k) /\ k.flt = NoFault /\ k.mem = h.mem /\ k.out = h.out
  BY DEF Shape
<1>2. a \in Nat /\ a % 2 = 0 /\ Translates(k, a) /\ Translates(k, a + 2) /\ LongAt(k, a) = entry
  <2> HIDE DEF k
  <2> QED BY <1>1, VectorIs
<1>3. r.m = [k EXCEPT !.pending = FALSE] /\ r.v = entry
  <2> HIDE DEF k, a
  <2> QED BY <1>1, <1>2, LongReadIs DEF Read
<1>4. JumpVector(h, v) = Jump(r.m, r.v)
  <2> HIDE DEF r
  <2> QED BY DEF JumpVector, Go, With, r, k
<1>5. r.m.flt = NoFault
  <2> HIDE DEF r
  <2> QED BY <1>1, <1>3 DEF Shape
<1>6. Jump(r.m, r.v) = [r.m EXCEPT !.pc = entry]
  <2> HIDE DEF r
  <2> QED BY <1>3, <1>5 DEF Jump, Go
<1>7. Jump(r.m, r.v) = [[k EXCEPT !.pending = FALSE] EXCEPT !.pc = entry]
  <2> HIDE DEF r, k
  <2> QED BY <1>3, <1>6
<1> HIDE DEF r
<1> QED
  BY <1>4, <1>7 DEF Shape

\* A bus error of the user takes back the registers, pushes the frame of seven words on the
\* supervisor's empty stack and goes to the handler; where a gate faulted, the frame describes
\* the gate, and the push of a JSR is undone (m68ki_exception_bus_error)
LEMMA BusErrorIs ==
  ASSUME NEW c, MachineType(c), c.s = 0, c.base[1] = Top, c.out \subseteq Paged, Encode(c.ir) \in Values(W),
         c.flt.kind = "bus", c.flt.address \in Values(L), c.flt.mode \in {ModeRead, ModeWrite}, c.flt.fc = 1
  PROVE  \E mem \in [Ram -> Values(B)] :
           /\ Settle(c)
                = [c EXCEPT !.flt = NoFault, !.run = "berr", !.da = [c.save EXCEPT ![SP] = Top - 14],
                            !.base = [c.base EXCEPT ![0] = FrameUsp(c)], !.s = 1, !.t = 0, !.fetching = FALSE,
                            !.pending = FALSE, !.mem = mem, !.pc = BusErrorEntry]
           /\ SameOutside(c.mem, mem, Top - 14, Top - 1)
           /\ WordAt(mem, Top - 6) = Sr(c) /\ LongIn(mem, Top - 4) = FramePc(c)
           /\ WordAt(mem, Top - 8) = Encode(c.ir) /\ LongIn(mem, Top - 12) = FrameAddress(c)
<1> DEFINE sr == Sr(c)
           d == [c EXCEPT !.flt = NoFault, !.run = "wsf", !.da = c.save]
           k == InitException(d)
           base == [c.base EXCEPT ![0] = c.save[SP]]
           base2 == [c.base EXCEPT ![0] = FrameUsp(c)]
           da == [c.save EXCEPT ![SP] = Top]
           u == IF Reruns(c) /\ Rerun(c.ir).undo THEN UndoPush(k, Bit(sr, W - 3)) ELSE k
           f == [u EXCEPT !.fetching = FALSE]
           pc == FramePc(c)
           address == FrameAddress(c)
           h == FrameBusError(f, sr, pc, address, c.flt)
<1>1. /\ Shape(c) /\ c.mem \in [Ram -> Values(B)] /\ c.save \in [0 .. 15 -> Values(L)] /\ c.base \in [{0, 1} -> Values(L)]
      /\ c.pc \in Values(L) /\ c.ppc \in Values(L) /\ c.prev \in Values(L) /\ sr \in Values(W)
      /\ c.instr \in {InstructionYes, InstructionNo} /\ {c.x, c.n, c.z, c.v, c.c, c.s, c.t} \subseteq Flag /\ c.mask \in 0 .. 7
  BY TypeOf
<1>2. c.flt # NoFault
  BY DEF NoFault
<1>3. Bit(sr, W - 3) = 0
  BY <1>1, SrRoundTrip DEF SrS
<1>4. k = [c EXCEPT !.flt = NoFault, !.run = "wsf", !.da = da, !.base = base, !.s = 1, !.t = 0]
  <2>1. Shape(d) /\ d.s = 0 /\ d.s \in {0, 1} /\ Bottom(d) = Top /\ d.da = c.save /\ d.base = c.base
    <3>1. c.save = [r \in 0 .. 15 |-> c.save[r]]
      BY <1>1
    <3>2. d.s = 0 /\ d.base = c.base /\ d.da = c.save /\ d.mem = c.mem
      BY <1>1 DEF Shape
    <3>3. Shape(d)
      BY <1>1, <3>1, <3>2 DEF Shape
    <3> QED BY <3>2, <3>3 DEF Bottom
  <2>2. k = [d EXCEPT !.t = 0, !.base = [d.base EXCEPT ![d.s] = d.da[SP]], !.s = 1, !.da[SP] = Bottom(d)]
    <3> HIDE DEF d
    <3> QED BY <2>1, InitExceptionIs
  <2>3. k = [d EXCEPT !.t = 0, !.base = base, !.s = 1, !.da = da]
    <3> HIDE DEF d
    <3> QED BY <2>1, <2>2
  <2> HIDE DEF base, da, k
  <2> QED BY <1>1, <2>3 DEF Shape
<1> HIDE DEF k
<1>5. u = [c EXCEPT !.flt = NoFault, !.run = "wsf", !.da = da, !.base = base2, !.s = 1, !.t = 0]
  <2>1. CASE Reruns(c) /\ Rerun(c.ir).undo
    <3>1. u = [k EXCEPT !.base[0] = Mask(L, @ + 4)]
      BY <1>3, <2>1 DEF UndoPush
    <3>2. k.base = base /\ base[0] = c.save[SP]
      <4> HIDE DEF da
      <4> QED BY <1>1, <1>4 DEF Shape
    <3>3. FrameUsp(c) = Mask(L, base[0] + 4)
      BY <2>1, <3>2 DEF FrameUsp
    <3>4. [base EXCEPT ![0] = FrameUsp(c)] = base2
      BY <1>1
    <3>5. u = [k EXCEPT !.base = base2]
      <4> HIDE DEF base, base2, u
      <4> QED BY <3>1, <3>2, <3>3, <3>4
    <3> HIDE DEF base, base2, u, da
    <3> QED BY <1>1, <1>4, <3>5 DEF Shape
  <2>2. CASE ~(Reruns(c) /\ Rerun(c.ir).undo)
    <3>1. u = k /\ base2 = base
      BY <2>2 DEF FrameUsp
    <3> HIDE DEF base, base2, u, da
    <3> QED BY <1>4, <3>1
  <2> QED BY <2>1, <2>2
<1>6. f = [c EXCEPT !.flt = NoFault, !.run = "wsf", !.da = da, !.base = base2, !.s = 1, !.t = 0, !.fetching = FALSE]
  <2> HIDE DEF da, base2, u
  <2> QED BY <1>1, <1>5 DEF Shape
<1> HIDE DEF u
<1>7. BusError(c) = h
  <2>1. BusError(c) = BusErrorFrame(k, sr, c.flt)
    BY DEF BusError, k
  <2>2. k.ir = c.ir /\ k.fetching = c.fetching /\ k.prev = c.prev /\ k.pc = c.pc /\ k.ppc = c.ppc
    <3> HIDE DEF da, base
    <3> QED BY <1>1, <1>4 DEF Shape
  <2>3. BusErrorFrame(k, sr, c.flt) = h
    BY <2>2 DEF BusErrorFrame, Reruns, FramePc, FrameAddress, u
  <2> QED BY <2>1, <2>3
<1>8. /\ Shape(f) /\ f.flt = NoFault /\ f.mem = c.mem /\ f.out = c.out /\ f.da[SP] = Top /\ f.ir = c.ir /\ f.instr = c.instr
  <2>1. da = [r \in 0 .. 15 |-> da[r]] /\ da[SP] = Top /\ base2 = [s \in {0, 1} |-> base2[s]]
    BY <1>1 DEF SP
  <2> HIDE DEF da, base2, f
  <2>2. /\ f.flt = NoFault /\ f.mem = c.mem /\ f.out = c.out /\ f.da = da /\ f.base = base2 /\ f.ir = c.ir /\ f.instr = c.instr
    BY <1>1, <1>6 DEF Shape
  <2>3. Shape(f)
    BY <1>1, <1>6, <2>1, <2>2 DEF Shape
  <2> QED BY <2>1, <2>2, <2>3
<1>9. Ready(f, 14)
  <2>1. Top - 14 .. Top - 1 \subseteq Ram \ c.out
    <3>1. Top - 14 - 6 * 0 = Top - 14 /\ 0 \in Levels \cup {0}
      BY StackFacts
    <3> QED BY <3>1, StackFacts
  <2> HIDE DEF f
  <2> QED BY <1>1, <1>8, <2>1, StackFacts DEF Ready, Room
<1>10. pc \in Values(L) /\ address \in Values(L)
  <2>1. c.pc \in Int /\ c.ppc \in Int /\ c.prev \in Int
    BY <1>1, Widths DEF Values
  <2>2. Rerun(c.ir).adj \in Int
    BY AdjIsInt
  <2>3. c.prev + Rerun(c.ir).adj \in Int /\ c.ppc + 2 \in Int /\ c.pc - 2 \in Int
    BY <2>1, <2>2
  <2> QED BY <1>1, <2>3, MasksAreTyped DEF FramePc, FrameAddress
<1>11. c.flt.mode + f.instr + c.flt.fc \in Values(W) /\ Encode(f.ir) \in Values(W)
  <2>1. c.flt.mode + c.instr + c.flt.fc \in 0 .. 25
    BY <1>1 DEF ModeRead, ModeWrite, InstructionYes, InstructionNo
  <2>2. 2^W \in Nat /\ 2^W >= 64
    <3>1. 2^B \in Nat /\ 2^B >= 64 /\ 2^W = 2^B * 2^B
      BY Widths
    <3>2. \A p \in Nat : p >= 64 => p * p >= 64 /\ p * p \in Nat
      OBVIOUS
    <3> QED BY <3>1, <3>2
  <2> QED BY <1>8, <2>1, <2>2 DEF Values
<1>12. PICK mem : /\ Pushed(h, f, 14, mem) /\ WordAt(mem, Top - 6) = sr /\ LongIn(mem, Top - 4) = pc
                  /\ WordAt(mem, Top - 8) = Encode(f.ir) /\ LongIn(mem, Top - 12) = address
  <2> HIDE DEF f, pc, address, sr
  <2> QED BY <1>1, <1>8, <1>9, <1>10, <1>11, FrameBusErrorIs, SMTT(30)
<1> HIDE DEF f, h
<1>13. /\ h = [f EXCEPT !.da[SP] = Top - 14, !.pending = FALSE, !.mem = mem] /\ mem \in [Ram -> Values(B)]
       /\ SameOutside(c.mem, mem, Top - 14, Top - 1)
  BY <1>8, <1>12 DEF Pushed, SameOutside
<1> DEFINE da2 == [c.save EXCEPT ![SP] = Top - 14]
<1>14. h = [c EXCEPT !.flt = NoFault, !.run = "wsf", !.da = da2, !.base = base2, !.s = 1, !.t = 0, !.fetching = FALSE,
                     !.pending = FALSE, !.mem = mem]
  <2>1. f.da = da
    <3> HIDE DEF da, base2
    <3> QED BY <1>1, <1>6 DEF Shape
  <2>2. [da EXCEPT ![SP] = Top - 14] = da2
    BY <1>1 DEF SP
  <2>3. h = [f EXCEPT !.da = da2, !.pending = FALSE, !.mem = mem]
    <3> HIDE DEF da, da2
    <3> QED BY <1>13, <2>1, <2>2
  <2> HIDE DEF da, da2, base2
  <2> QED BY <1>1, <1>6, <2>3 DEF Shape
<1>15. Shape(h) /\ h.flt = NoFault /\ h.mem = mem /\ h.out = c.out
  <2>1. da2 = [r \in 0 .. 15 |-> da2[r]] /\ base2 = [s \in {0, 1} |-> base2[s]] /\ mem = [a \in Ram |-> mem[a]]
    BY <1>1, <1>13 DEF SP
  <2> HIDE DEF da2, base2
  <2>2. h.flt = NoFault /\ h.mem = mem /\ h.out = c.out /\ h.da = da2 /\ h.base = base2
    BY <1>1, <1>14 DEF Shape
  <2> QED BY <1>1, <1>14, <2>1, <2>2 DEF Shape
<1>16. JumpVector(h, BusErrorVector) = [h EXCEPT !.pc = BusErrorEntry, !.pending = FALSE]
  <2>1. BusErrorVector \in Nat
    BY EntryFacts
  <2>2. VectorTo(BusErrorVector, BusErrorEntry) /\ h.mem \in [Ram -> Values(B)] /\ h.out \subseteq Paged
    BY <1>13, <1>15, EntryFacts
  <2> QED BY <1>15, <2>1, <2>2, JumpVectorIs
<1>17. Settle(c) = Framed(JumpVector(h, BusErrorVector))
  BY <1>2, <1>7 DEF Settle
<1>18. Settle(c) = [h EXCEPT !.pc = BusErrorEntry, !.pending = FALSE, !.run = "berr"]
  BY <1>15, <1>16, <1>17 DEF Framed, Shape
<1>19. Settle(c) = [c EXCEPT !.flt = NoFault, !.run = "berr", !.da = da2, !.base = base2, !.s = 1, !.t = 0,
                             !.fetching = FALSE, !.pending = FALSE, !.mem = mem, !.pc = BusErrorEntry]
  <2> HIDE DEF da2, base2
  <2> QED BY <1>1, <1>14, <1>18, ZenonT(40) DEF Shape
<1>20. Encode(f.ir) = Encode(c.ir)
  BY <1>8
<1> QED
  BY <1>12, <1>13, <1>19, <1>20

\* The top of the loop of m68k_execute, where the word is in memory
LEMMA BeginIs ==
  ASSUME NEW c, Shape(c), c.flt = NoFault, c.pc % 2 = 0, Translates(c, c.pc), NEW i
  PROVE  Begin(c, i) = [c EXCEPT !.ppc = c.pc, !.save = c.da, !.fetching = FALSE, !.pc = Mask(L, c.pc + 2),
                                 !.pending = FALSE, !.ir = i]
<1> DEFINE k == [c EXCEPT !.ppc = c.pc, !.save = c.da, !.fetching = TRUE]
           f == Fetch(k, 1)
<1>1. Shape(k) /\ k.flt = NoFault /\ k.pc = c.pc /\ k.out = c.out
  BY DEF Shape
<1>2. f = [k EXCEPT !.pc = Mask(L, c.pc + 2), !.pending = FALSE]
  <2> HIDE DEF k
  <2>1. Translates(k, k.pc)
    BY <1>1 DEF Translates
  <2> QED BY <1>1, <2>1, FetchWord
<1>3. f.flt = NoFault
  <2> HIDE DEF k, f
  <2> QED BY <1>1, <1>2 DEF Shape
<1>4. Begin(c, i) = [f EXCEPT !.ir = i, !.fetching = FALSE]
  <2> HIDE DEF f
  <2> QED BY <1>3 DEF Begin, Decode, Go, f, k
<1> HIDE DEF f
<1> QED
  BY <1>2, <1>4 DEF Shape

\* A supervisor that has loaded its status register
SrLoaded(c, v) ==
  [c EXCEPT !.t = Bit(v, W - 1), !.mask = SrMask(v), !.x = Bit(v, 4), !.n = Bit(v, 3), !.z = Bit(v, 2),
            !.v = Bit(v, 1), !.c = Bit(v, 0), !.base = [c.base EXCEPT ![1] = c.da[SP]], !.s = SrS(v),
            !.da[SP] = IF SrS(v) = 1 THEN c.da[SP] ELSE c.base[0]]

\* Loading the status register sets the flags and changes stacks (m68ki_set_sr_noint)
LEMMA SetSrNoIntIs ==
  ASSUME NEW c, Shape(c), c.flt = NoFault, c.s = 1, NEW v, SrS(v) \in {0, 1}
  PROVE  SetSrNoInt(c, v) = SrLoaded(c, v)
<1> DEFINE k == [c EXCEPT !.t = Bit(v, W - 1), !.mask = (v \div 2^B) % 8]
           j == SetCcr(k, v)
           base == [c.base EXCEPT ![1] = c.da[SP]]
<1>1. Shape(k) /\ k.flt = NoFault
  BY DEF Shape
<1>2. j = [k EXCEPT !.x = Bit(v, 4), !.n = Bit(v, 3), !.z = Bit(v, 2), !.v = Bit(v, 1), !.c = Bit(v, 0)]
  <2> HIDE DEF k
  <2> QED BY <1>1 DEF SetCcr, Go
<1> DEFINE t1 == Bit(v, W - 1)
           mask == SrMask(v)
           x1 == Bit(v, 4)
           n1 == Bit(v, 3)
           z1 == Bit(v, 2)
           v1 == Bit(v, 1)
           c1 == Bit(v, 0)
           s1 == SrS(v)
<1>3. j = [c EXCEPT !.t = t1, !.mask = mask, !.x = x1, !.n = n1, !.z = z1, !.v = v1, !.c = c1]
  <2>1. k = [c EXCEPT !.t = t1, !.mask = mask]
    BY DEF SrMask
  <2> HIDE DEF k, j, t1, mask, x1, n1, z1, v1, c1
  <2>2. j = [k EXCEPT !.x = x1, !.n = n1, !.z = z1, !.v = v1, !.c = c1]
    BY <1>2 DEF x1, n1, z1, v1, c1
  <2> QED BY <2>1, <2>2 DEF Shape
<1>4. SetSrNoInt(c, v) = SetS(j, s1)
  BY DEF SetSrNoInt, Go, SrS
<1> HIDE DEF j, t1, mask, x1, n1, z1, v1, c1
<1>5. j.base = c.base /\ j.s = 1 /\ j.da = c.da
  BY <1>3 DEF Shape
<1>6. base[s1] = IF s1 = 1 THEN c.da[SP] ELSE c.base[0]
  BY DEF Shape
<1> HIDE DEF s1, base
<1>7. SetS(j, s1) = [j EXCEPT !.base = base, !.s = s1, !.da[SP] = base[s1]]
  BY <1>5 DEF SetS, base
<1>8. SetS(j, s1) = [c EXCEPT !.t = t1, !.mask = mask, !.x = x1, !.n = n1, !.z = z1, !.v = v1, !.c = c1,
                              !.base = base, !.s = s1, !.da[SP] = base[s1]]
  BY <1>3, <1>7 DEF Shape
<1> QED
  BY <1>4, <1>6, <1>8 DEF SrLoaded, base, s1, t1, mask, x1, n1, z1, v1, c1

\* A machine whose RTE has taken the frame off, before it looks for interrupts
Returned(k) ==
  LET sp == k.da[SP]
      v  == WordAt(k.mem, sp)
  IN  [k EXCEPT !.pending = FALSE, !.pc = LongIn(k.mem, sp + 2), !.t = Bit(v, W - 1), !.mask = SrMask(v),
                !.x = Bit(v, 4), !.n = Bit(v, 3), !.z = Bit(v, 2), !.v = Bit(v, 1), !.c = Bit(v, 0),
                !.base = [k.base EXCEPT ![1] = sp + 6], !.s = SrS(v),
                !.da[SP] = IF SrS(v) = 1 THEN sp + 6 ELSE k.base[0]]

EndException(k) == Go(k, [k EXCEPT !.instr = InstructionYes, !.run = "normal"])

\* Bits are 0 or 1
LEMMA BitsAre == ASSUME NEW v \in Nat, NEW n \in 0 .. L PROVE Bit(v, n) \in {0, 1}
<1>1. 2^n \in Nat /\ 2^n >= 1
  BY PowersAssumption
<1> DEFINE p == 2^n
           q == v \div p
<1>2. q \in Nat
  <2> HIDE DEF p
  <2>1. p \in Nat /\ p >= 1
    BY <1>1 DEF p
  <2> QED BY <2>1
<1> HIDE DEF q
<1>3. q % 2 \in {0, 1}
  BY <1>2
<1> QED
  BY <1>3 DEF Bit, q

\* An RTE pulls the status register and the PC, changes stacks, and looks for interrupts
\* before it ends (m68k_op_rte_32)
LEMMA RteIs ==
  ASSUME NEW k, Filled(k, 6), k.s = 1, NEW i
  PROVE  Rte(k, i) = EndException(CheckInterrupts(Returned(k))) /\ SrS(WordAt(k.mem, k.da[SP])) \in {0, 1}
<1> DEFINE sp == k.da[SP]
           v == WordAt(k.mem, sp)
           pc == LongIn(k.mem, sp + 2)
           one == [k EXCEPT !.da[SP] = sp + 2, !.pending = FALSE]
           two == [k EXCEPT !.da[SP] = sp + 6, !.pending = FALSE]
           three == [two EXCEPT !.pc = pc]
<1>1. Pull(k, W).m = one /\ Pull(k, W).v = v
  <2>1. 6 \in Nat /\ 6 >= 2
    OBVIOUS
  <2> QED BY <2>1, PullWordIs
<1>2. Shape(k) /\ k.flt = NoFault /\ k.mem \in [Ram -> Values(B)] /\ sp \in Nat /\ sp % 2 = 0 /\ sp + 6 \in Values(L)
      /\ sp .. sp + 5 \subseteq Ram \ k.out
  <2>1. sp + 6 - 1 = sp + 5
    BY DEF Filled
  <2> QED BY <2>1 DEF Filled
<1>3. Filled(one, 4) /\ one.mem = k.mem /\ one.da[SP] = sp + 2
  <2>1. one.da[SP] = sp + 2 /\ one.mem = k.mem /\ one.out = k.out /\ one.flt = NoFault
    <3> HIDE DEF sp
    <3> QED BY <1>2 DEF Shape, SP
  <2>2. Shape(one)
    BY <1>2 DEF Shape
  <2>3. sp + 2 \in Nat /\ (sp + 2) % 2 = 0 /\ sp + 2 + 4 \in Values(L) /\ sp + 2 .. sp + 2 + 4 - 1 \subseteq Ram \ k.out
    <3>1. sp + 2 + 4 = sp + 6 /\ sp + 2 .. sp + 2 + 4 - 1 \subseteq sp .. sp + 5
      BY <1>2
    <3> QED BY <1>2, <3>1
  <2> HIDE DEF one, sp
  <2> QED BY <1>2, <2>1, <2>2, <2>3 DEF Filled
<1>4. Pull(one, L).m = two /\ Pull(one, L).v = pc
  <2>1. Pull(one, L).m = [one EXCEPT !.da[SP] = sp + 2 + 4, !.pending = FALSE] /\ Pull(one, L).v = pc
    <3> HIDE DEF one
    <3>1. 4 \in Nat /\ 4 >= 4
      OBVIOUS
    <3> QED BY <1>3, <3>1, PullLongIs
  <2>2. sp + 2 + 4 = sp + 6
    BY <1>2
  <2>3. [one EXCEPT !.da[SP] = sp + 6, !.pending = FALSE] = two
    <3> DEFINE y == sp + 6
               x == sp + 2
               D == [k.da EXCEPT ![SP] = y]
               E == [k.da EXCEPT ![SP] = x]
    <3> HIDE DEF x, y
    <3>1. [E EXCEPT ![SP] = y] = D
      BY <1>2 DEF Shape, SP
    <3>2. one = [k EXCEPT !.da = E, !.pending = FALSE]
      BY DEF x
    <3>3. one.da = E
      BY <1>2, <3>2 DEF Shape
    <3>4. [one EXCEPT !.da[SP] = y, !.pending = FALSE] = [one EXCEPT !.da = D, !.pending = FALSE]
      <4> HIDE DEF one, D, E
      <4> QED BY <3>1, <3>3
    <3>5. [one EXCEPT !.da = D, !.pending = FALSE] = [k EXCEPT !.da = D, !.pending = FALSE]
      <4> HIDE DEF one, D, E
      <4> QED BY <1>2, <3>2 DEF Shape
    <3> QED BY <3>4, <3>5 DEF y
  <2> QED BY <2>1, <2>2, <2>3
<1>5. Rte(k, i) = EndException(SetSr(Jump(two, pc), v))
  <2>1. Rte(k, i) = With(Pull(k, W), LAMBDA j, sr : EndException(With(Pull(j, L), LAMBDA h, a : SetSr(Jump(h, a), sr))))
    BY DEF Rte, EndException
  <2> HIDE DEF one, two, v, pc
  <2> QED BY <2>1, <1>1, <1>4 DEF With
<1>6. Shape(two) /\ two.flt = NoFault /\ two.s = 1 /\ two.mem = k.mem /\ two.base = k.base /\ two.da[SP] = sp + 6
  <2> DEFINE y == sp + 6
             D == [k.da EXCEPT ![SP] = y]
  <2>1. D = [r \in 0 .. 15 |-> D[r]] /\ D[SP] = y
    <3> HIDE DEF y
    <3> QED BY <1>2 DEF Shape, SP
  <2>2. two = [k EXCEPT !.da = D, !.pending = FALSE]
    OBVIOUS
  <2> HIDE DEF D, y, two
  <2>3. two.flt = NoFault /\ two.s = 1 /\ two.mem = k.mem /\ two.base = k.base /\ two.da = D
    BY <1>2, <2>2 DEF Shape
  <2>4. Shape(two)
    BY <1>2, <2>1, <2>2, <2>3 DEF Shape
  <2> QED BY <2>1, <2>3, <2>4 DEF y
<1>7. Jump(two, pc) = three
  BY <1>6 DEF Jump, Go
<1>8. Shape(three) /\ three.flt = NoFault /\ three.s = 1 /\ three.base = k.base /\ three.da[SP] = sp + 6
  <2> HIDE DEF two, pc
  <2> QED BY <1>6 DEF Shape
<1>9. v \in Nat /\ SrS(v) \in {0, 1}
  <2>1. sp \in Ram /\ sp + 1 \in Ram
    <3>1. sp \in sp .. sp + 5 /\ sp + 1 \in sp .. sp + 5
      BY <1>2
    <3> QED BY <3>1, <1>2
  <2>2. k.mem[sp] \in Values(B) /\ k.mem[sp + 1] \in Values(B)
    BY <1>2, <2>1
  <2>3. v \in Nat
    BY <2>2, JoinedBytes, Widths DEF WordAt, Values
  <2>4. W - 3 \in 0 .. L
    BY Widths
  <2> QED BY <2>3, <2>4, BitsAre DEF SrS
<1>10. SetSrNoInt(three, v) = Returned(k)
  <2> DEFINE R == SetSrNoInt(three, v)
             base == [k.base EXCEPT ![1] = sp + 6]
             low == IF SrS(v) = 1 THEN sp + 6 ELSE k.base[0]
             D == [k.da EXCEPT ![SP] = low]
  <2>1. R = [three EXCEPT !.t = Bit(v, W - 1), !.mask = SrMask(v), !.x = Bit(v, 4), !.n = Bit(v, 3), !.z = Bit(v, 2),
                       !.v = Bit(v, 1), !.c = Bit(v, 0), !.base = base, !.s = SrS(v), !.da[SP] = low]
    <3> HIDE DEF three, v
    <3>1. R = SrLoaded(three, v)
      BY <1>8, <1>9, SetSrNoIntIs
    <3>2. three.base = k.base /\ three.da[SP] = sp + 6
      BY <1>8
    <3> HIDE DEF R
    <3> QED BY <3>1, <3>2 DEF SrLoaded
  <2>2. three.da = [k.da EXCEPT ![SP] = sp + 6]
    BY <1>2 DEF Shape
  <2>3. [[k.da EXCEPT ![SP] = sp + 6] EXCEPT ![SP] = low] = D
    <3> HIDE DEF low
    <3> QED BY <1>2 DEF Shape, SP
  <2>4. R = [three EXCEPT !.t = Bit(v, W - 1), !.mask = SrMask(v), !.x = Bit(v, 4), !.n = Bit(v, 3), !.z = Bit(v, 2),
                       !.v = Bit(v, 1), !.c = Bit(v, 0), !.base = base, !.s = SrS(v), !.da = D]
    <3> HIDE DEF three, v, base, low, D, R
    <3> QED BY <2>1, <2>2, <2>3
  <2>5. R = [k EXCEPT !.pending = FALSE, !.pc = pc, !.t = Bit(v, W - 1), !.mask = SrMask(v), !.x = Bit(v, 4),
                      !.n = Bit(v, 3), !.z = Bit(v, 2), !.v = Bit(v, 1), !.c = Bit(v, 0), !.base = base,
                      !.s = SrS(v), !.da = D]
    <3> HIDE DEF v, base, low, D, R, sp, pc
    <3> QED BY <1>2, <2>4, ZenonT(40) DEF Shape
  <2> HIDE DEF R
  <2> QED BY <2>5 DEF Returned, R
<1> QED
  BY <1>5, <1>7, <1>9, <1>10 DEF SetSr
===============================================================================
