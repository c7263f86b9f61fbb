-------------------------------- MODULE ViaTimers --------------------------------
(***************************************************************************)
(* Timer 1 of a VIA (Sources/LisaCore/VIA6522.swift): a counter of two     *)
(* bytes, its latches, and the flag an underflow raises. A timer is a      *)
(* record, and each operator takes one and returns the next. Timer 2 is    *)
(* the same without the free-run mode and without a high latch.            *)
(***************************************************************************)
EXTENDS Integers

CONSTANT Radix   \* the values of a byte: 256

ASSUME RadixAssumption == Radix \in Nat \ {0}

Byte == 0 .. Radix - 1
Top  == Radix * Radix - 1

Timer == [counter : 0 .. Top, low : Byte, high : Byte,
          armed : BOOLEAN, free : BOOLEAN, flag : BOOLEAN]

Latch(t) == t.high * Radix + t.low

-----------------------------------------------------------------------------
(* What a register access of software does to the timer. Both a read of    *)
(* T1C-L and a write to IFR clear the flag.                                *)
Accesses == [reg : {"T1L-L", "T1L-H", "T1C-H"}, value : Byte]
              \cup [reg : {"ACR"}, value : {"one-shot", "free-run"}]
              \cup [reg : {"T1C-L", "IFR"}, value : {"clear"}]

access(t, a) ==
    CASE a.reg = "T1L-L" -> [t EXCEPT !.low = a.value]
      [] a.reg = "T1L-H" -> [t EXCEPT !.high = a.value, !.flag = FALSE]
      [] a.reg = "T1C-H" -> [t EXCEPT !.high = a.value, !.armed = TRUE, !.flag = FALSE,
                                      !.counter = a.value * Radix + t.low]
      [] a.reg = "ACR"   -> [t EXCEPT !.free = (a.value = "free-run")]
      [] OTHER           -> [t EXCEPT !.flag = FALSE]

(* The counter and the latches keep their contents.                        *)
resetTimer(t) == [t EXCEPT !.armed = FALSE, !.free = FALSE, !.flag = FALSE]

-----------------------------------------------------------------------------
(* A mutated form: a timer that has fired once fires at every wrap.        *)
underflowNotDisarmed(t) ==
    [t EXCEPT !.counter = IF t.free THEN Latch(t) ELSE Top, !.flag = t.flag \/ t.free \/ t.armed]

(* The counter has gone through zero: it is reloaded in free-run mode, and *)
(* wraps otherwise; a one-shot timer fires once for each load.             *)
underflow(t) ==
    [t EXCEPT !.counter = IF t.free THEN Latch(t) ELSE Top,
              !.flag    = t.flag \/ t.free \/ t.armed,
              !.armed   = t.armed /\ t.free]

(* advance: n clocks at once, an underflow after every counter + 1.        *)
advance[n \in Nat] ==
    [t \in Timer |-> IF n <= t.counter
                       THEN [t EXCEPT !.counter = t.counter - n]
                       ELSE advance[n - (t.counter + 1)][underflow(t)]]

-----------------------------------------------------------------------------
(* The timer clock by clock ("16-bit down-counters that decrement every     *)
(* VIA clock"): down to zero; the clock after that reloads it (free-run)   *)
(* or lets it wrap, and sets the flag unless it is a one-shot that fired.  *)
oneClock(t) ==
    IF t.counter > 0
      THEN [t EXCEPT !.counter = t.counter - 1]
      ELSE IF t.free
             THEN [t EXCEPT !.counter = Latch(t), !.flag = TRUE]
             ELSE [t EXCEPT !.counter = Top, !.armed = FALSE, !.flag = t.flag \/ t.armed]
=============================================================================
