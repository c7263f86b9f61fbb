------------------------------- MODULE COPSProofs ------------------------------
(*****************************************************************************)
(* COPS, for every set of keys, motions, commands and host clocks, every     *)
(* length of a clock and every bound; then COPSSender: its software is       *)
(* software, so that whatever it sends, and with resets, wiped flags and     *)
(* input at any moment, COPS behaves as the first half has it.  And the      *)
(* routine of the boot ROM, which waits for the line, has every command      *)
(* carried out once and in order.                                            *)
(*****************************************************************************)
EXTENDS COPSSender, SequenceTheorems, WellFoundedInduction, TLAPS

(* The inductive invariant. A byte may only go into flight when none is    *)
(* ready (NeverStalled), which keeps one flag enough for the port.         *)
IInv == TypeOK /\ FlagFollowsByte /\ NeverStalled /\ LowLineWillRise

USE COPSAssumption DEF ReadClock, NibbleBase, PowerOffClockOff,
    PowerOffClockOn, PowerOffReboot, EnableClock, PrepSetClock, Marker,
    KeyboardID, PowerButton, YearSelector, Floating, MouseMarker, Byte, Nibbles,
    ClockNibbles

-----------------------------------------------------------------------------
(* Sequences.                                                              *)
LEMMA HeadTail ==
  ASSUME NEW S, NEW s \in Seq(S), s # <<>>
  PROVE  Head(s) \in S /\ Tail(s) \in Seq(S) /\ Len(Tail(s)) = Len(s) - 1
  OBVIOUS

\* A byte as a sequence
LEMMA OneByte ==
  ASSUME NEW S, NEW b \in S
  PROVE  <<b>> \in Seq(S) /\ Len(<<b>>) = 1 /\ <<b>> # <<>>
  OBVIOUS

\* A sequence followed by one that is not empty
LEMMA ConcatType ==
  ASSUME NEW S, NEW s \in Seq(S), NEW t \in Seq(S), t # <<>>
  PROVE  s \o t \in Seq(S) /\ s \o t # <<>>
  OBVIOUS

\* A sequence that is not empty is its head and its tail
LEMMA HeadThenTail ==
  ASSUME NEW S, NEW s \in Seq(S), s # <<>>
  PROVE  s = <<Head(s)>> \o Tail(s)
<1>1. Len(s) \in Nat /\ 1 <= Len(s)
  OBVIOUS
<1>2. SubSeq(s, 1, Len(s)) = <<s[1]>> \o SubSeq(s, 2, Len(s))
  BY <1>1, SubSeqRecursiveFirst
<1>3. SubSeq(s, 1, Len(s)) = s /\ Tail(s) = SubSeq(s, 2, Len(s))
  BY SubSeqFull, TailIsSubSeq
<1> QED
  BY <1>2, <1>3

\* A pair is its two elements one after the other
LEMMA TwoElements ==
  ASSUME NEW S, NEW a \in S, NEW b \in S
  PROVE  <<a>> \o <<b>> = <<a, b>>
<1> DEFINE s == <<a>> \o <<b>>
           t == <<a, b>>
<1>1. <<a>> \in Seq(S) /\ <<b>> \in Seq(S) /\ t \in Seq(S)
  OBVIOUS
<1>2. s \in Seq(S) /\ Len(s) = 2 /\ s[1] = a /\ s[2] = b
  BY <1>1
<1>3. Len(t) = 2 /\ t[1] = a /\ t[2] = b
  OBVIOUS
<1> HIDE DEF s, t
<1>4. \A i \in 1 .. 2 : s[i] = t[i]
  <2>1. \A i \in 1 .. 2 : i = 1 \/ i = 2
    OBVIOUS
  <2> QED
    BY Zenon, <2>1, <1>2, <1>3
<1>5. s = t
  BY <1>1, <1>2, <1>3, <1>4, SeqEqual
<1> QED
  BY <1>5 DEF s, t

\* Of the numbers up to one only one is left
LEMMA NothingBelowOne ==
  ASSUME NEW n \in Nat, n # 0, n <= 1
  PROVE  n = 1
  OBVIOUS

\* A sequence of at most one element, and not none, is its head
LEMMA SingleElement ==
  ASSUME NEW S, NEW s \in Seq(S), s # <<>>, Len(s) <= 1
  PROVE  s = <<Head(s)>> /\ Head(s) \in S
<1>0. Len(s) = 1
  <2>1. Len(s) \in Nat /\ Len(s) # 0
    OBVIOUS
  <2> QED
    BY Zenon, <2>1, NothingBelowOne
<1>1. Len(Tail(s)) = 0 /\ Tail(s) \in Seq(S) /\ Head(s) \in S
  BY <1>0, HeadTail
<1>2. Tail(s) = <<>>
  BY <1>1
<1>3. <<Head(s)>> \o <<>> = <<Head(s)>>
  BY <1>1, ConcatEmptySeq
<1> QED
  BY <1>1, <1>2, <1>3, HeadThenTail

\* The two parts of a concatenation, by position
LEMMA ConcatParts ==
  ASSUME NEW S, NEW s \in Seq(S), NEW t \in Seq(S)
  PROVE  /\ SubSeq(s \o t, 1, Len(s)) = s
         /\ SubSeq(s \o t, Len(s) + 1, Len(s \o t)) = t
         /\ Len(s \o t) = Len(s) + Len(t)
<1>1. Len(s \o t) = Len(s) + Len(t) /\ Len(s) \in Nat /\ Len(t) \in Nat
  OBVIOUS
<1>2. SubSeq(s \o t, 1, Len(s)) = s
  <2>1. CASE Len(s) = 0
    BY <2>1, SubSeqEmpty
  <2>2. CASE Len(s) # 0
    BY <1>1, <2>2, SubSeqOfConcat1, SubSeqFull
  <2> QED
    BY <2>1, <2>2
<1>3. SubSeq(s \o t, Len(s) + 1, Len(s) + Len(t)) = t
  <2>1. CASE Len(t) = 0
    BY <1>1, <2>1, SubSeqEmpty
  <2>2. CASE Len(t) # 0
    BY <1>1, <2>2, SubSeqOfConcat2, SubSeqFull
  <2> QED
    BY <2>1, <2>2
<1> QED
  BY <1>1, <1>2, <1>3

\* A function on 1 .. n is a sequence
LEMMA FunctionIsSeq ==
  ASSUME NEW S, NEW n \in Nat, NEW f \in [1 .. n -> S]
  PROVE  f \in Seq(S) /\ Len(f) = n
<1>1. f \in Seq(S)
  BY SeqDef
<1> QED
  BY <1>1

(* Every packet is a non-empty sequence of bytes.                          *)
LEMMA ShellPacketBytes ==
  ASSUME NEW p \in ShellPackets
  PROVE  p \in Seq(Byte) /\ p # <<>>
<1>1. CASE \E k \in Keys : p = <<k>>
  BY <1>1
<1>2. CASE \E m \in Motions : p = <<0, m, m>>
  BY <1>2
<1>3. CASE p = <<128, 251>>
  BY <1>3
<1> QED
  BY <1>1, <1>2, <1>3 DEF ShellPackets, KeyPacket, MousePacket, ButtonPacket

\* Two nibbles make a byte
LEMMA PairIsByte ==
  ASSUME NEW a \in 0 .. 15, NEW b \in 0 .. 15
  PROVE  16 * a + b \in 0 .. 255
  OBVIOUS

\* Every nibble of a clock setting is one
LEMMA ClockNibble ==
  ASSUME NEW c \in Clocks, NEW n \in 1 .. 2 * ClockPairs + 1
  PROVE  c[n] \in 0 .. 15
  BY DEF Clocks

\* The reply to a clock read is a packet of bytes (sendClockResponse)
LEMMA ClockPacketBytes ==
  ASSUME NEW c \in Clocks
  PROVE  ClockPacket(c) \in Seq(Byte) /\ ClockPacket(c) # <<>>
<1> DEFINE rest == [n \in 1 .. ClockPairs |-> 16 * c[2 * n] + c[2 * n + 1]]
<1>2. ASSUME NEW n \in 1 .. ClockPairs
      PROVE  16 * c[2 * n] + c[2 * n + 1] \in Byte
  <2>1. 2 * n \in 1 .. 2 * ClockPairs + 1 /\ 2 * n + 1 \in 1 .. 2 * ClockPairs + 1
    OBVIOUS
  <2>2. c[2 * n] \in 0 .. 15 /\ c[2 * n + 1] \in 0 .. 15
    BY <2>1, ClockNibble
  <2> QED
    BY <2>2, PairIsByte
<1>3. ClockPairs \in Nat
  OBVIOUS
<1>4. rest \in Seq(Byte)
  <2>1. rest \in [1 .. ClockPairs -> Byte]
    BY <1>2
  <2> QED
    BY <2>1, <1>3, FunctionIsSeq
<1>5. c[1] \in 0 .. 15
  BY ClockNibble
<1>6. <<128, 224 + c[1]>> \in Seq(Byte)
  BY <1>5
<1>7. Len(<<128, 224 + c[1]>> \o rest) = 2 + Len(rest) /\ Len(rest) \in Nat
  BY <1>4, <1>6
<1> HIDE DEF rest
<1>8. <<128, 224 + c[1]>> \o rest \in Seq(Byte)
  BY <1>4, <1>6
<1>9. <<128, 224 + c[1]>> \o rest # <<>>
  BY <1>7
<1> QED
  BY <1>8, <1>9 DEF ClockPacket, rest

-----------------------------------------------------------------------------
(* The input path.                                                         *)
InputInv == InputOK /\ FlagFollowsByte /\ NeverStalled

\* What is on the port and what waits behind it are bytes
LEMMA WaitingIsASeq ==
  ASSUME InputOK
  PROVE  OnPort \in Seq(Byte) /\ BytesWaiting \in Seq(Byte)
<1>1. OnPort \in Seq(Byte)
  <2>1. <<pendingByte>> \in Seq(Byte)
    BY DEF InputOK
  <2>2. <<>> \in Seq(Byte)
    OBVIOUS
  <2> QED
    BY Zenon, <2>1, <2>2 DEF OnPort
<1>2. OnPort \o inFlight \in Seq(Byte)
  BY <1>1 DEF InputOK
<1>3. BytesWaiting \in Seq(Byte)
  BY <1>2 DEF InputOK, BytesWaiting
<1> QED
  BY <1>1, <1>3

(* A packet enqueued is appended to what waits, and one byte of the queue  *)
(* is on its way if any is left.                                           *)
LEMMA Enqueued ==
  ASSUME InputInv, NEW p \in Seq(Byte), p # <<>>, enqueue(p),
         UNCHANGED <<byteReady, pendingByte, timers, ifr, taken>>
  PROVE  InputInv' /\ BytesWaiting' = BytesWaiting \o p
<1> DEFINE q == inputQueue \o p
<1>1. q \in Seq(Byte) /\ q # <<>>
  BY DEF InputInv, InputOK
<1>2. Head(q) \in Byte /\ Tail(q) \in Seq(Byte) /\ q = <<Head(q)>> \o Tail(q)
  <2> HIDE DEF q
  <2>1. Head(q) \in Byte /\ Tail(q) \in Seq(Byte)
    BY ZenonT(60), <1>1, HeadTail
  <2>2. q = <<Head(q)>> \o Tail(q)
    BY Zenon, <1>1, HeadThenTail
  <2> QED
    BY <2>1, <2>2
<1>3. OnPort \in Seq(Byte) /\ OnPort' = OnPort
  BY WaitingIsASeq DEF InputInv, OnPort
<1>4. CASE byteReady \/ inFlight # <<>>
  <2>1. inputQueue' = q /\ inFlight' = inFlight
    BY Zenon, <1>4 DEF enqueue, scheduleDeliveryIfIdle
  <2>2. InputOK'
    BY <2>1, <1>1 DEF InputInv, InputOK
  <2>3. FlagFollowsByte' /\ NeverStalled'
    BY Zenon, <2>1, <1>4 DEF InputInv, FlagFollowsByte, NeverStalled
  <2>4. BytesWaiting' = (OnPort \o inFlight) \o (inputQueue \o p)
    BY <2>1, <1>3 DEF BytesWaiting
  <2>5. BytesWaiting' = BytesWaiting \o p
    <3>1. OnPort \o inFlight \in Seq(Byte)
      BY <1>3 DEF InputInv, InputOK
    <3>2. inputQueue \in Seq(Byte)
      BY DEF InputInv, InputOK
    <3>3. ((OnPort \o inFlight) \o inputQueue) \o p
             = (OnPort \o inFlight) \o (inputQueue \o p)
      BY SMTT(30), <3>1, <3>2, ConcatAssociative
    <3> QED
      BY <2>4, <3>3 DEF BytesWaiting
  <2> QED
    BY <2>2, <2>3, <2>5 DEF InputInv
<1>5. CASE ~byteReady /\ inFlight = <<>>
  <2>1. inputQueue' = Tail(q) /\ inFlight' = <<Head(q)>>
    BY Zenon, <1>5, <1>1 DEF enqueue, scheduleDeliveryIfIdle
  <2> HIDE DEF q
  <2>2. InputOK'
    BY <2>1, <1>2 DEF InputInv, InputOK
  <2>3. <<Head(q)>> # <<>>
    OBVIOUS
  <2>4. FlagFollowsByte' /\ NeverStalled'
    BY Zenon, <2>1, <2>3, <1>5 DEF InputInv, FlagFollowsByte, NeverStalled
  <2>5. OnPort = <<>>
    BY Zenon, <1>5 DEF OnPort
  <2>6. BytesWaiting' = <<Head(q)>> \o Tail(q)
    BY <2>1, <2>5, <1>3, <1>2 DEF BytesWaiting
  <2>7. BytesWaiting \o p = q
    BY <2>5, <1>5 DEF BytesWaiting, q, InputInv, InputOK
  <2> QED
    BY <2>2, <2>4, <2>6, <2>7, <1>2 DEF InputInv
<1> QED
  BY <1>4, <1>5

(* An element of a sequence.                                               *)
LEMMA ElementOf ==
  ASSUME NEW S, NEW s \in Seq(S), NEW n \in 1 .. Len(s)
  PROVE  s[n] \in S
  OBVIOUS

(* The packets the code posts are packets of the abstract stream.          *)
LEMMA ClockPacketIsPacket ==
  ASSUME NEW c \in Clocks
  PROVE  IsCOPSPacket(ClockPacket(c))
<1> DEFINE rest == [n \in 1 .. ClockPairs |-> 16 * c[2 * n] + c[2 * n + 1]]
           packet == <<128, 224 + c[1]>> \o rest
<1>1. c[1] \in 0 .. 15 /\ 224 + c[1] \in 224 .. 224 + 15
  BY ClockNibble
<1>2. packet = ClockPacket(c)
  BY DEF ClockPacket, rest
<1>3. packet \in Seq(Byte)
  BY <1>2, ClockPacketBytes
<1>4. Len(rest) = ClockPairs /\ rest \in Seq({rest[n] : n \in 1 .. ClockPairs})
  <2>1. ClockPairs \in Nat /\ rest \in [1 .. ClockPairs -> {rest[n] : n \in 1 .. ClockPairs}]
    OBVIOUS
  <2>2. rest \in Seq({rest[n] : n \in 1 .. ClockPairs})
    BY <2>1, FunctionIsSeq
  <2> QED
    BY <2>1, <2>2
<1> HIDE DEF rest
<1>5. /\ Len(packet) = ClockPairs + 2
      /\ packet[1] = 128
      /\ packet[2] = 224 + c[1]
  BY <1>1, <1>4
<1> HIDE DEF packet
<1>6. ASSUME NEW n \in 3 .. ClockPairs + 2
      PROVE  packet[n] \in Byte
  <2>1. n \in 1 .. Len(packet)
    BY <1>5
  <2> QED
    BY ONLY <1>3, <2>1, ElementOf
<1> QED
  BY <1>1, <1>2, <1>5, <1>6 DEF IsCOPSPacket, IsClockPacket

(* The steps of the input path keep its invariant, and are steps of the    *)
(* abstract stream.                                                        *)
LEMMA PostStep ==
  ASSUME InputInv, NEW p \in Seq(Byte), p # <<>>, IsCOPSPacket(p), enqueue(p),
         UNCHANGED <<byteReady, pendingByte, timers, ifr, taken>>
  PROVE  InputInv' /\ Stream!Post
<1>1. InputInv' /\ BytesWaiting' = BytesWaiting \o p
  BY Enqueued
<1>2. BytesWaiting \in Seq(Byte)
  BY WaitingIsASeq DEF InputInv
<1>5. LET w == BytesWaiting IN
      /\ SubSeq(w \o p, 1, Len(w)) = w
      /\ SubSeq(w \o p, Len(w) + 1, Len(w \o p)) = p
      /\ Len(w \o p) = Len(w) + Len(p)
  BY <1>2, ConcatParts
<1>3. /\ SubSeq(BytesWaiting', 1, Len(BytesWaiting)) = BytesWaiting
      /\ SubSeq(BytesWaiting', Len(BytesWaiting) + 1, Len(BytesWaiting')) = p
      /\ Len(BytesWaiting') = Len(BytesWaiting) + Len(p)
  BY Zenon, <1>1, <1>5
<1>4. Len(BytesWaiting') > Len(BytesWaiting)
  BY <1>2, <1>3
<1> QED
  BY <1>1, <1>3, <1>4 DEF Stream!Post

\* A delivery moves a byte to the port: what is still to be read is the same
LEMMA DeliverStep ==
  ASSUME InputInv, Deliver
  PROVE  InputInv' /\ UNCHANGED <<BytesWaiting, taken>>
<1>1. inFlight # <<>> /\ ~byteReady
  BY DEF InputInv, NeverStalled, Deliver
<1>2. inFlight = <<Head(inFlight)>> /\ Head(inFlight) \in Byte
  BY <1>1, SingleElement DEF InputInv, InputOK
<1>3. InputOK'
  BY <1>1, <1>2 DEF InputInv, InputOK, Deliver
<1>4. timers' > 0
  BY DEF InputInv, InputOK, Deliver
<1>5. byteReady' /\ inFlight' = <<>> /\ inputQueue' = inputQueue
  BY DEF Deliver
<1>6. FlagFollowsByte' /\ NeverStalled'
  BY Zenon, <1>4, <1>5 DEF FlagFollowsByte, NeverStalled
<1>7. OnPort = <<>> /\ OnPort' = <<Head(inFlight)>>
  BY <1>1, <1>5 DEF OnPort, Deliver
<1>8. BytesWaiting' = BytesWaiting
  <2>1. <<>> \o inFlight = inFlight /\ inFlight \o <<>> = inFlight
    BY ConcatEmptySeq DEF InputInv, InputOK
  <2>2. BytesWaiting = inFlight \o inputQueue
    BY Zenon, <1>7, <2>1 DEF BytesWaiting
  <2>3. BytesWaiting' = (inFlight \o <<>>) \o inputQueue
    BY Zenon, <1>2, <1>5, <1>7 DEF BytesWaiting
  <2> QED
    BY Zenon, <2>1, <2>2, <2>3
<1> QED
  BY <1>3, <1>6, <1>8 DEF InputInv, Deliver

\* So is it after a re-asserted flag, or one that software clears
LEMMA TimerStep ==
  ASSUME InputInv, Reassert \/ WipeFlag
  PROVE  InputInv' /\ UNCHANGED <<BytesWaiting, taken>>
<1>1. UNCHANGED <<inputQueue, inFlight, byteReady, pendingByte, taken>>
  BY DEF Reassert, WipeFlag
<1>2. \/ UNCHANGED timers /\ (byteReady \/ ~ifr')
      \/ timers > 0 /\ timers' = timers - 1 /\ ~byteReady /\ ifr' = ifr
  BY DEF Reassert, WipeFlag
<1>3. InputOK'
  BY <1>1, <1>2 DEF InputInv, InputOK
<1>4. FlagFollowsByte'
  <2>1. CASE UNCHANGED timers /\ (byteReady \/ ~ifr')
    BY <1>1, <2>1 DEF InputInv, FlagFollowsByte
  <2>2. CASE ~byteReady /\ ifr' = ifr
    BY Zenon, <1>1, <2>2 DEF InputInv, FlagFollowsByte
  <2> QED
    BY <1>2, <2>1, <2>2
<1>6. NeverStalled'
  BY Zenon, <1>1 DEF InputInv, NeverStalled
<1>5. BytesWaiting' = BytesWaiting
  BY <1>1 DEF BytesWaiting, OnPort
<1> QED
  BY <1>1, <1>3, <1>4, <1>5, <1>6 DEF InputInv

(* A handshake read takes the oldest byte; the next goes into flight.      *)
LEMMA ReadStep ==
  ASSUME InputInv, ReadPortA
  PROVE  InputInv' /\ Stream!Take
<1>1. /\ byteReady /\ taken' = <<pendingByte>> /\ ~byteReady' /\ ~ifr'
      /\ pendingByte' = 255 /\ timers' = timers
      /\ scheduleDeliveryIfIdle(FALSE, inputQueue)
  BY DEF ReadPortA
<1>2. inFlight = <<>>
  BY Zenon, <1>1 DEF InputInv, NeverStalled
<1>3. /\ <<pendingByte>> \in Seq(Byte) /\ Len(<<pendingByte>>) = 1
      /\ inputQueue \in Seq(Byte) /\ inFlight \in Seq(Byte)
  BY DEF InputInv, InputOK
<1>4. BytesWaiting = <<pendingByte>> \o inputQueue
  <2>1. <<pendingByte>> \o <<>> = <<pendingByte>>
    BY <1>3, ConcatEmptySeq
  <2> QED
    BY Zenon, <1>1, <1>2, <2>1 DEF BytesWaiting, OnPort
<1>5. /\ BytesWaiting # <<>>
      /\ Head(BytesWaiting) = pendingByte
      /\ Tail(BytesWaiting) = inputQueue
  BY <1>3, <1>4
<1>6. OnPort' = <<>>
  BY <1>1 DEF OnPort
<1>7. CASE inputQueue = <<>>
  <2>1. inputQueue' = <<>> /\ inFlight' = <<>>
    BY Zenon, <1>1, <1>2, <1>7 DEF scheduleDeliveryIfIdle
  <2>2. InputOK'
    BY <1>1, <1>3, <2>1 DEF InputInv, InputOK
  <2>3. FlagFollowsByte' /\ NeverStalled'
    BY Zenon, <1>1, <2>1 DEF FlagFollowsByte, NeverStalled
  <2>4. BytesWaiting' = inputQueue
    BY <1>6, <1>7, <2>1 DEF BytesWaiting
  <2> QED
    BY <1>1, <1>5, <2>2, <2>3, <2>4 DEF InputInv, Stream!Take
<1>8. CASE inputQueue # <<>>
  <2>1. inputQueue' = Tail(inputQueue) /\ inFlight' = <<Head(inputQueue)>>
    BY Zenon, <1>1, <1>2, <1>8 DEF scheduleDeliveryIfIdle
  <2>2. Head(inputQueue) \in Byte /\ Tail(inputQueue) \in Seq(Byte)
    BY Zenon, <1>3, <1>8, HeadTail
  <2>3. <<Head(inputQueue)>> \in Seq(Byte) /\ <<Head(inputQueue)>> # <<>>
           /\ Len(<<Head(inputQueue)>>) = 1
    BY <2>2
  <2>4. InputOK'
    BY <1>1, <1>3, <2>1, <2>2, <2>3 DEF InputInv, InputOK
  <2>5. FlagFollowsByte' /\ NeverStalled'
    BY Zenon, <1>1, <2>1, <2>3 DEF FlagFollowsByte, NeverStalled
  <2>6. <<>> \o <<Head(inputQueue)>> = <<Head(inputQueue)>>
    BY <2>3, ConcatEmptySeq
  <2>7. BytesWaiting' = <<Head(inputQueue)>> \o Tail(inputQueue)
    BY Zenon, <1>6, <2>1, <2>6 DEF BytesWaiting
  <2>8. BytesWaiting' = inputQueue
    BY <1>3, <1>8, <2>7, HeadThenTail
  <2> QED
    BY <1>1, <1>5, <2>4, <2>5, <2>8 DEF InputInv, Stream!Take
<1> QED
  BY <1>7, <1>8

\* A reset empties the stream
LEMMA ResetInputStep ==
  ASSUME resetInput
  PROVE  InputInv' /\ Stream!Reset
<1>1. /\ ~byteReady' /\ ~ifr' /\ inFlight' = <<128>> /\ inputQueue' = <<63>>
      /\ timers' = 0 /\ pendingByte' = 255 /\ taken' = <<>>
  BY DEF resetInput
<1>2. InputOK'
  BY <1>1 DEF InputOK
<1>3. <<128>> # <<>>
  OBVIOUS
<1>4. FlagFollowsByte' /\ NeverStalled'
  BY Zenon, <1>1, <1>3 DEF FlagFollowsByte, NeverStalled
<1>5. BytesWaiting' = <<128, 63>>
  <2>1. OnPort' = <<>>
    BY <1>1 DEF OnPort
  <2>2. (<<>> \o <<128>>) \o <<63>> = <<128, 63>>
    <3>1. <<128>> \in Seq(Byte)
      OBVIOUS
    <3>2. <<>> \o <<128>> = <<128>>
      BY <3>1, ConcatEmptySeq
    <3>3. <<128>> \o <<63>> = <<128, 63>>
      <4>1. 128 \in Byte /\ 63 \in Byte
        OBVIOUS
      <4> QED
        BY ZenonT(60), <4>1, TwoElements
    <3> QED
      BY Zenon, <3>2, <3>3
  <2> QED
    BY Zenon, <1>1, <2>1, <2>2 DEF BytesWaiting
<1> QED
  BY <1>1, <1>2, <1>4, <1>5 DEF InputInv, Stream!Reset, Announcement

\* Nothing is read where no variable of the input side changes
LEMMA InputStutter ==
  ASSUME InputInv, UNCHANGED inputVars
  PROVE  InputInv' /\ UNCHANGED <<BytesWaiting, taken>>
<1>1. InputOK'
  BY DEF InputInv, InputOK, inputVars
<1>2. FlagFollowsByte' /\ NeverStalled'
  BY Zenon DEF InputInv, FlagFollowsByte, NeverStalled, inputVars
<1>3. BytesWaiting' = BytesWaiting /\ taken' = taken
  BY DEF BytesWaiting, OnPort, inputVars
<1> QED
  BY <1>1, <1>2, <1>3 DEF InputInv

-----------------------------------------------------------------------------
(* The command port: each command keeps the clock's type, and only a reply *)
(* touches the input.                                                      *)
LEMMA KeepLastType ==
  ASSUME NEW S, NEW s \in Seq(S), NEW n \in Nat
  PROVE  KeepLast(s, n) \in Seq(S) /\ Len(KeepLast(s, n)) <= n
<1>1. Len(s) \in Nat
  OBVIOUS
<1>2. CASE Len(s) <= n
  BY <1>1, <1>2 DEF KeepLast
<1>3. CASE Len(s) > n
  <2>1. \A i \in Len(s) - n + 1 .. Len(s) : s[i] \in S
    BY <1>1, <1>3
  <2> DEFINE t == SubSeq(s, Len(s) - n + 1, Len(s))
  <2>2. t \in Seq(S) /\ Len(t) = IF Len(s) - n + 1 <= Len(s)
                                    THEN Len(s) - (Len(s) - n + 1) + 1 ELSE 0
    BY <1>1, <2>1, SubSeqProperties
  <2>3. KeepLast(s, n) = t
    BY <1>1, <1>3 DEF KeepLast
  <2> HIDE DEF t
  <2> QED
    BY <1>1, <1>3, <2>2, <2>3
<1> QED
  BY <1>1, <1>2, <1>3

CommandKeeps == FlagsOK' /\ InputInv' /\ [Stream!Next]_<<BytesWaiting, taken>>
ClockKeeps   == /\ setClockReply' \in Seq(Clocks) /\ Len(setClockReply') <= 1
                /\ setNibbles' \in Seq(Nibbles) /\ Len(setNibbles') <= ClockNibbles
                /\ power' \in {"on", "stopping", "off"}

\* A clock reply appends one packet and leaves the command side alone
LEMMA ReplyStep ==
  ASSUME IInv, ReplyClock, crdyHigh' = TRUE,
         UNCHANGED <<suppressDrop, byteReady, pendingByte, timers, ifr, taken>>
  PROVE  CommandKeeps /\ ClockKeeps
<1>1. PICK c \in ClockShown : enqueue(ClockPacket(c))
  BY DEF ReplyClock
<1>2. NotSet \in Clocks
  BY DEF NotSet, Clocks
<1>3. c \in Clocks
  <2>1. CASE setClockReply # <<>>
    BY <1>1, <1>2, <2>1 DEF ClockShown, IInv, TypeOK, ClockOK
  <2>2. CASE setClockReply = <<>>
    BY <1>1, <1>2, <2>2 DEF ClockShown
  <2> QED
    BY <2>1, <2>2
<1>4. InputInv
  BY DEF IInv, TypeOK, InputInv
<1>5. InputInv' /\ Stream!Post
  BY <1>1, <1>3, <1>4, ClockPacketBytes, ClockPacketIsPacket, PostStep
<1>6. FlagsOK'
  BY Zenon DEF IInv, TypeOK, FlagsOK, ReplyClock, clockVars
<1>7. ClockKeeps
  BY DEF IInv, TypeOK, ClockOK, ClockKeeps, ReplyClock, clockVars
<1> QED
  BY <1>5, <1>6, <1>7 DEF CommandKeeps, Stream!Next

(* Any other command leaves the input alone.                               *)
LEMMA OtherCommandStep ==
  ASSUME IInv, NEW c \in Commands, crdyHigh' = TRUE,
         UNCHANGED <<suppressDrop, byteReady, pendingByte, timers, ifr, taken>>,
         \/ c \in 16 .. 31 /\ StoreNibble(c)
         \/ OpenSet
         \/ CommitSet
         \/ PowerOff(c)
         \/ UNCHANGED <<inputQueue, inFlight, clockVars, power>>
  PROVE  CommandKeeps /\ ClockKeeps
<1>1. UNCHANGED inputVars
  BY DEF inputVars, StoreNibble, OpenSet, CommitSet, PowerOff
<1>2. InputInv' /\ UNCHANGED <<BytesWaiting, taken>>
  BY <1>1, InputStutter DEF IInv, TypeOK, InputInv
<1>3. CASE c \in 16 .. 31 /\ StoreNibble(c)
  <2>1. FlagsOK'
    BY Zenon, <1>3 DEF IInv, TypeOK, FlagsOK, StoreNibble
  <2>2. c - 16 \in Nibbles
    BY <1>3
  <2>3. setNibbles \in Seq(Nibbles)
    BY DEF IInv, TypeOK, ClockOK
  <2>4. Append(setNibbles, c - 16) \in Seq(Nibbles)
    BY <2>2, <2>3
  <2>5. /\ KeepLast(Append(setNibbles, c - 16), ClockNibbles) \in Seq(Nibbles)
        /\ Len(KeepLast(Append(setNibbles, c - 16), ClockNibbles)) <= ClockNibbles
    <3>1. ClockNibbles \in Nat
      OBVIOUS
    <3> HIDE DEF ClockNibbles
    <3> QED
      BY <2>4, <3>1, KeepLastType
  <2>6. \/ setNibbles' = setNibbles
        \/ setNibbles' = KeepLast(Append(setNibbles, c - 16), ClockNibbles)
    BY <1>3 DEF StoreNibble
  <2>7. setNibbles' \in Seq(Nibbles) /\ Len(setNibbles') <= ClockNibbles
    BY Zenon, <2>5, <2>6 DEF IInv, TypeOK, ClockOK
  <2>8. ClockKeeps
    BY <1>3, <2>7 DEF IInv, TypeOK, ClockOK, ClockKeeps, StoreNibble
  <2> QED
    BY <1>2, <2>1, <2>8 DEF CommandKeeps
<1>4. CASE OpenSet
  <2>1. FlagsOK'
    BY Zenon, <1>4 DEF IInv, TypeOK, FlagsOK, OpenSet
  <2>2. ClockKeeps
    BY <1>4 DEF IInv, TypeOK, ClockOK, ClockKeeps, OpenSet
  <2> QED
    BY <1>2, <2>1, <2>2 DEF CommandKeeps
<1>5. CASE CommitSet
  <2>1. FlagsOK'
    BY Zenon, <1>5 DEF IInv, TypeOK, FlagsOK, CommitSet
  <2>2. setNibbles \in Seq(Nibbles) /\ setNibbles \in [1 .. Len(setNibbles) -> Nibbles]
    BY LenProperties DEF IInv, TypeOK, ClockOK
  <2>3. Len(setNibbles) = ClockNibbles => setNibbles \in Clocks
    BY Zenon, <2>2 DEF Clocks
  <2>4. Len(setNibbles) = ClockNibbles
           => <<setNibbles>> \in Seq(Clocks) /\ Len(<<setNibbles>>) = 1
    BY <2>3, OneByte
  <2>6. \/ setClockReply' = setClockReply
        \/ Len(setNibbles) = ClockNibbles /\ setClockReply' = <<setNibbles>>
    BY <1>5 DEF CommitSet
  <2>7. Len(setClockReply) <= 1 /\ setClockReply \in Seq(Clocks)
    BY DEF IInv, TypeOK, ClockOK
  <2>8. 1 <= 1
    OBVIOUS
  <2>9. setClockReply' \in Seq(Clocks) /\ Len(setClockReply') <= 1
    BY Zenon, <2>4, <2>6, <2>7, <2>8
  <2>10. setNibbles' = <<>> /\ power' = power
    BY <1>5 DEF CommitSet
  <2>11. setNibbles' \in Seq(Nibbles) /\ Len(setNibbles') <= ClockNibbles
    BY <2>10
  <2>5. ClockKeeps
    BY Zenon, <2>9, <2>10, <2>11 DEF IInv, TypeOK, ClockOK, ClockKeeps
  <2> QED
    BY <1>2, <2>1, <2>5 DEF CommandKeeps
<1>6. CASE PowerOff(c)
  <2>1. FlagsOK'
    BY Zenon, <1>6 DEF IInv, TypeOK, FlagsOK, PowerOff
  <2>3. setClockReply' = setClockReply \/ setClockReply' = <<>>
    BY <1>6 DEF PowerOff
  <2>4. setNibbles' = setNibbles /\ power' = "stopping"
    BY <1>6 DEF PowerOff
  <2>5. <<>> \in Seq(Clocks) /\ Len(<<>>) <= 1
    OBVIOUS
  <2>6. setClockReply' \in Seq(Clocks) /\ Len(setClockReply') <= 1
    BY Zenon, <2>3, <2>5 DEF IInv, TypeOK, ClockOK
  <2>2. ClockKeeps
    BY Zenon, <2>4, <2>6 DEF IInv, TypeOK, ClockOK, ClockKeeps
  <2> QED
    BY <1>2, <2>1, <2>2 DEF CommandKeeps
<1>7. CASE UNCHANGED <<inputQueue, inFlight, clockVars, power>>
  <2>1. FlagsOK'
    BY Zenon, <1>7 DEF IInv, TypeOK, FlagsOK, clockVars
  <2>2. ClockKeeps
    BY <1>7 DEF IInv, TypeOK, ClockOK, ClockKeeps, clockVars
  <2> QED
    BY <1>2, <2>1, <2>2 DEF CommandKeeps
<1> QED
  BY <1>3, <1>4, <1>5, <1>6, <1>7

-----------------------------------------------------------------------------
(* Every step keeps the invariant and is a step of the abstract stream.    *)
StepKeeps == IInv' /\ [Stream!Next]_<<BytesWaiting, taken>>

\* Command 2 is the clock reply
LEMMA ReadClockReplies ==
  ASSUME processCommand(2)
  PROVE  ReplyClock
<1>1. ~(2 \in 16 .. 31) /\ ~(2 \in {32, 33, 35}) /\ 2 # 44 /\ 2 # 37
  OBVIOUS
<1> QED
  BY <1>1 DEF processCommand

\* An acknowledgement carries out its command
LEMMA AcknowledgeStep ==
  ASSUME IInv, Acknowledge
  PROVE  StepKeeps
<1>1. /\ acks # <<>> /\ acks' = Tail(acks) /\ crdyHigh' = TRUE
      /\ UNCHANGED <<suppressDrop, byteReady, pendingByte, timers, ifr, taken>>
      /\ processCommand(Head(acks))
  BY DEF Acknowledge
<1>2. acks \in Seq(Commands) /\ Len(acks) <= MaxAcks
  BY DEF IInv, TypeOK, ClockOK
<1>3. /\ Head(acks) \in Commands
      /\ acks' \in Seq(Commands) /\ Len(acks') <= MaxAcks
  BY <1>1, <1>2
<1>4. CommandKeeps /\ ClockKeeps
  <2> DEFINE c == Head(acks)
  <2>1. CASE c = 2
    <3>1. ReplyClock
      BY Zenon, <1>1, <2>1, ReadClockReplies
    <3> QED
      BY Zenon, <1>1, <3>1, ReplyStep
  <2>2. CASE c # 2
    <3>1. \/ c \in 16 .. 31 /\ StoreNibble(c)
          \/ OpenSet
          \/ CommitSet
          \/ PowerOff(c)
          \/ UNCHANGED <<inputQueue, inFlight, clockVars, power>>
      BY <1>1, <2>2 DEF processCommand
    <3> HIDE DEF c
    <3>2. c \in Commands
      BY <1>3 DEF c
    <3> QED
      BY <1>1, <3>1, <3>2, OtherCommandStep
  <2> QED
    BY <2>1, <2>2
<1>5. ClockOK'
  BY <1>3, <1>4 DEF ClockKeeps, ClockOK
<1>6. LowLineWillRise'
  BY <1>1 DEF LowLineWillRise
<1> QED
  BY Zenon, <1>4, <1>5, <1>6 DEF CommandKeeps, StepKeeps, IInv, TypeOK, InputInv

(* A step of the input alone.                                              *)
LEMMA InputStepKeeps ==
  ASSUME IInv, InputInv', UNCHANGED <<crdyVars, clockVars, power>>,
         byteReady' \in BOOLEAN, ifr' \in BOOLEAN
  PROVE  IInv'
<1>1. FlagsOK'
  BY Zenon DEF IInv, TypeOK, FlagsOK, crdyVars, clockVars
<1>2. ClockOK'
  BY DEF IInv, TypeOK, ClockOK, crdyVars, clockVars
<1>3. LowLineWillRise'
  BY Zenon DEF IInv, LowLineWillRise, crdyVars
<1> QED
  BY <1>1, <1>2, <1>3 DEF IInv, TypeOK, InputInv

(* A step of the command port alone.                                       *)
LEMMA PortStep ==
  ASSUME IInv, UNCHANGED <<inputVars, clockVars>>,
         crdyHigh' \in BOOLEAN, suppressDrop' \in BOOLEAN,
         acks' \in Seq(Commands), Len(acks') <= MaxAcks,
         power' \in {"on", "stopping", "off"}, LowLineWillRise'
  PROVE  StepKeeps
<1>1. FlagsOK'
  BY Zenon DEF IInv, TypeOK, FlagsOK, inputVars, clockVars
<1>2. ClockOK'
  BY DEF IInv, TypeOK, ClockOK, clockVars
<1>3. InputInv' /\ UNCHANGED <<BytesWaiting, taken>>
  BY InputStutter DEF IInv, TypeOK, InputInv
<1> QED
  BY <1>1, <1>2, <1>3 DEF StepKeeps, IInv, TypeOK, InputInv

\* A command written drops the line, or has it dropped by one that is pending
LEMMA WriteStep ==
  ASSUME IInv, NEW c \in Commands, WriteCommand(c)
  PROVE  StepKeeps
<1>1. acks' = Append(acks, c) /\ Len(acks) < MaxAcks /\ acks \in Seq(Commands)
  BY DEF WriteCommand, IInv, TypeOK, ClockOK
<1>2. acks' \in Seq(Commands) /\ acks' # <<>> /\ Len(acks') <= MaxAcks
  BY <1>1
<1>3. LowLineWillRise'
  BY <1>2 DEF LowLineWillRise
<1>4. crdyHigh' \in BOOLEAN /\ suppressDrop' \in BOOLEAN
  BY Zenon DEF WriteCommand, IInv, TypeOK, FlagsOK
<1>5. UNCHANGED <<inputVars, clockVars, power>>
  BY DEF WriteCommand
<1>6. power' \in {"on", "stopping", "off"}
  BY <1>5 DEF IInv, TypeOK, ClockOK
<1> QED
  BY <1>2, <1>3, <1>4, <1>5, <1>6, PortStep

\* The port reads and the end of the drain carry out nothing
LEMMA SameAcksStep ==
  ASSUME IInv, ReadPortB \/ DrainEnds \/ UNCHANGED copsVars
  PROVE  StepKeeps
<1>1. UNCHANGED <<inputVars, clockVars, crdyHigh, acks>>
  BY DEF ReadPortB, DrainEnds, copsVars, crdyVars, inputVars, clockVars
<1>2. suppressDrop' \in BOOLEAN /\ crdyHigh' \in BOOLEAN
  BY Zenon, <1>1 DEF ReadPortB, DrainEnds, copsVars, crdyVars, IInv, TypeOK, FlagsOK
<1>3. power' \in {"on", "stopping", "off"}
  BY DEF ReadPortB, DrainEnds, copsVars, IInv, TypeOK, ClockOK
<1>4. LowLineWillRise'
  BY Zenon, <1>1 DEF IInv, LowLineWillRise
<1>5. acks' \in Seq(Commands) /\ Len(acks') <= MaxAcks
  BY <1>1 DEF IInv, TypeOK, ClockOK
<1> QED
  BY <1>1, <1>2, <1>3, <1>4, <1>5, PortStep

\* A reset keeps the invariant
LEMMA ResetStep ==
  ASSUME Reset
  PROVE  StepKeeps
<1>1. InputInv' /\ Stream!Reset
  BY ResetInputStep DEF Reset
<1>2. FlagsOK'
  BY Zenon DEF Reset, resetInput, resetPort, FlagsOK
<1>3. ClockOK'
  BY DEF Reset, resetPort, ClockOK
<1>4. LowLineWillRise'
  BY DEF Reset, resetPort, LowLineWillRise
<1> QED
  BY Zenon, <1>1, <1>2, <1>3, <1>4 DEF StepKeeps, IInv, TypeOK, InputInv, Stream!Next

\* So does every step, and each is one of the stream or leaves it alone
LEMMA NextStep ==
  ASSUME IInv, [Next]_copsVars
  PROVE  StepKeeps
<1>0. InputInv
  BY DEF IInv, TypeOK, InputInv
<1>1. CASE Deliver
  <2>1. InputInv' /\ UNCHANGED <<BytesWaiting, taken>>
    BY <1>0, <1>1, DeliverStep
  <2>2. byteReady' \in BOOLEAN /\ ifr' \in BOOLEAN
    BY Zenon, <1>1 DEF Deliver
  <2>3. UNCHANGED <<crdyVars, clockVars, power>>
    BY <1>1 DEF Deliver
  <2> QED
    BY <2>1, <2>2, <2>3, InputStepKeeps DEF StepKeeps
<1>2. CASE Reassert \/ WipeFlag
  <2>1. InputInv' /\ UNCHANGED <<BytesWaiting, taken>>
    BY <1>0, <1>2, TimerStep
  <2>2. byteReady' \in BOOLEAN /\ ifr' \in BOOLEAN
    BY Zenon, <1>2 DEF Reassert, WipeFlag, IInv, TypeOK, FlagsOK
  <2>3. UNCHANGED <<crdyVars, clockVars, power>>
    BY <1>2 DEF Reassert, WipeFlag
  <2> QED
    BY <2>1, <2>2, <2>3, InputStepKeeps DEF StepKeeps
<1>3. CASE ReadPortA
  <2>1. InputInv' /\ Stream!Take
    BY <1>0, <1>3, ReadStep
  <2>2. byteReady' \in BOOLEAN /\ ifr' \in BOOLEAN
    BY Zenon, <1>3 DEF ReadPortA
  <2>3. UNCHANGED <<crdyVars, clockVars, power>>
    BY <1>3 DEF ReadPortA
  <2> QED
    BY <2>1, <2>2, <2>3, InputStepKeeps DEF StepKeeps, Stream!Next
<1>4. CASE \E p \in ShellPackets : PostInput(p)
  <2>1. PICK p \in ShellPackets : PostInput(p)
    BY <1>4
  <2>2. /\ enqueue(p)
        /\ UNCHANGED <<crdyVars, clockVars, byteReady, pendingByte, timers, ifr,
                       power, taken>>
    BY <2>1 DEF PostInput
  <2>3. InputInv' /\ Stream!Post
    BY <1>0, <2>2, ShellPacketBytes, PostStep DEF IsCOPSPacket
  <2>4. byteReady' \in BOOLEAN /\ ifr' \in BOOLEAN
    BY Zenon, <2>2 DEF IInv, TypeOK, FlagsOK
  <2> QED
    BY <2>2, <2>3, <2>4, InputStepKeeps DEF StepKeeps, Stream!Next
<1>5. CASE Acknowledge
  BY <1>5, AcknowledgeStep
<1>6. CASE \E c \in Commands : WriteCommand(c)
  BY <1>6, WriteStep
<1>7. CASE ReadPortB \/ DrainEnds \/ UNCHANGED copsVars
  BY <1>7, SameAcksStep
<1>8. CASE Reset
  BY <1>8, ResetStep
<1> QED
  BY Zenon, <1>1, <1>2, <1>3, <1>4, <1>5, <1>6, <1>7, <1>8
     DEF Next, Event, Software

\* The initial state of COPS is one of the stream
LEMMA InitInv == Init => IInv /\ Stream!Init
<1> SUFFICES ASSUME Init PROVE IInv /\ Stream!Init
  OBVIOUS
<1>1. FlagsOK
  BY Zenon DEF Init, FlagsOK
<1>2. InputOK
  BY DEF Init, InputOK
<1>3. ClockOK
  BY DEF Init, ClockOK
<1>4. FlagFollowsByte /\ NeverStalled /\ LowLineWillRise
  BY DEF Init, FlagFollowsByte, NeverStalled, LowLineWillRise
<1>5. BytesWaiting = <<>>
  BY DEF Init, BytesWaiting, OnPort
<1> QED
  BY <1>1, <1>2, <1>3, <1>4, <1>5 DEF IInv, TypeOK, Init, Stream!Init

(* The inductive invariant holds in every reachable state.                 *)
THEOREM Invariant == Spec => []IInv
<1>1. Init => IInv
  BY InitInv
<1>2. IInv /\ [Next]_copsVars => IInv'
  BY NextStep DEF StepKeeps
<1> QED
  BY <1>1, <1>2, PTL DEF Spec

(* Variables keep their types: at most one byte is in flight, a set clock  *)
(* has all its nibbles, and the bounds of the model are respected.         *)
THEOREM TypeCorrect == Spec => []TypeOK
<1>1. IInv => TypeOK
  BY DEF IInv
<1> QED
  BY <1>1, Invariant, PTL

(* VIA2's flag is never up without a byte on Port A, and a byte whose flag *)
(* was wiped always has a timer left to raise it again (armReassertTimer). *)
THEOREM FlagTellsTheTruth == Spec => []FlagFollowsByte
<1>1. IInv => FlagFollowsByte
  BY DEF IInv
<1> QED
  BY <1>1, Invariant, PTL

(* Bytes never wait in the queue without one being delivered or on the     *)
(* port (scheduleDeliveryIfIdle).                                          *)
THEOREM InputIsNeverStalled == Spec => []NeverStalled
<1>1. IInv => NeverStalled
  BY DEF IInv
<1> QED
  BY <1>1, Invariant, PTL

(* While the ready line is low an acknowledgement that raises it is due    *)
(* (handleCommandWrite).                                                   *)
THEOREM LineIsNeverStuckLow == Spec => []LowLineWillRise
<1>1. IInv => LowLineWillRise
  BY DEF IInv
<1> QED
  BY <1>1, Invariant, PTL

(* COPS implements its abstract stream: no byte is lost, duplicated or     *)
(* reordered between the packets posted and the bytes the Lisa takes.      *)
THEOREM InputIsAStream == Spec => ImplementsStream
<1>1. Init => Stream!Init
  BY InitInv
<1>2. IInv /\ [Next]_copsVars => [Stream!Next]_<<BytesWaiting, taken>>
  BY NextStep DEF StepKeeps
<1>4. IInv /\ [Next]_copsVars => [Stream!Next]_(Stream!vars)
  BY <1>2 DEF Stream!vars
<1> QED
  BY <1>1, <1>4, Invariant, PTL DEF Spec, ImplementsStream, Stream!Spec

HIDE COPSAssumption DEF ReadClock, NibbleBase, PowerOffClockOff,
    PowerOffClockOn, PowerOffReboot, EnableClock, PrepSetClock, Marker,
    KeyboardID, PowerButton, YearSelector, Floating, MouseMarker, Byte, Nibbles,
    ClockNibbles

(*****************************************************************************)
(* The software that sends commands.                                         *)
(*****************************************************************************)
(* The command being sent is one of the program.                           *)
Returned == {"done"}
SenderOK ==
    /\ sent \in Nat
    /\ phase \notin Returned => sent + 1 \in DOMAIN Program
    /\ sent <= Len(Program)

\* The program is a sequence of commands that is not empty
LEMMA ProgramFacts ==
    /\ Len(Program) \in Nat /\ Len(Program) >= 1 /\ DOMAIN Program = 1 .. Len(Program)
    /\ \A n \in 1 .. Len(Program) : Program[n] \in Commands
  BY SenderAssumption

\* The senders' types hold initially
LEMMA SenderInit == SystemInit => SenderOK
  BY ProgramFacts DEF SystemInit, SenderOK

\* A routine that has sent goes on to the next command, or returns
LEMMA SentKeepsSender ==
    ASSUME SenderOK, phase \notin Returned, Sent
    PROVE  SenderOK'
  <1>1. sent \in Nat /\ sent + 1 \in 1 .. Len(Program) /\ Len(Program) \in Nat
    BY ProgramFacts DEF SenderOK
  <1>2. sent' = sent + 1 /\ phase' = NextPhase
    BY DEF Sent
  <1>3. sent' \in Nat /\ sent' <= Len(Program)
    BY <1>1, <1>2
  <1>4. CASE sent + 1 = Len(Program)
    <2>1. phase' = "done"
      BY <1>2, <1>4 DEF NextPhase
    <2> QED
      BY <1>3, <2>1 DEF SenderOK, Returned
  <1>5. CASE sent + 1 # Len(Program)
    <2>1. sent' + 1 \in 1 .. Len(Program)
      BY <1>1, <1>2, <1>5
    <2> QED
      BY <1>3, <2>1, ProgramFacts DEF SenderOK
  <1> QED
    BY <1>4, <1>5

\* Every step keeps the senders' types
LEMMA SenderStep ==
    ASSUME SenderOK, [SystemNext]_vars
    PROVE  SenderOK'
  <1>1. ASSUME UNCHANGED sent, phase \notin Returned \/ phase' \in Returned \/ phase' = phase
        PROVE  SenderOK'
    BY <1>1 DEF SenderOK
  <1>2. ASSUME UNCHANGED senderVars PROVE SenderOK'
    BY <1>1, <1>2 DEF senderVars
  <1>3. CASE Send
    BY <1>1, <1>3 DEF Send, Returned
  <1>4. CASE PollLow \/ Test
    BY <1>1, <1>4 DEF PollLow, Test, Returned
  <1>5. CASE PollHigh
    BY <1>2, <1>5, SentKeepsSender DEF PollHigh, Returned
  <1>6. CASE Timeout
    BY <1>1, <1>6 DEF Timeout, Returned
  <1>7. CASE Check
    BY <1>1, <1>7, SentKeepsSender DEF Check, Returned
  <1>8. CASE Restart
    BY <1>8, ProgramFacts DEF Restart, SenderOK
  <1>9. CASE Handler \/ DriverStart \/ Carry \/ Delivery \/ Timer \/ Post
    BY <1>2, <1>9 DEF Handler, DriverStart, Carry, Delivery, Timer, Post
  <1>10. CASE UNCHANGED <<senderVars, historyVars>>
    BY <1>2, <1>10
  <1>11. CASE UNCHANGED vars
    BY <1>2, <1>11 DEF vars
  <1> QED
    BY <1>3, <1>4, <1>5, <1>6, <1>7, <1>8, <1>9, <1>10, <1>11 DEF SystemNext, Sender

(* Every step of the sender is a step of some software, or leaves COPS     *)
(* alone.                                                                  *)
LEMMA SenderIsSoftware ==
    ASSUME SenderOK, Sender
    PROVE  Software \/ UNCHANGED copsVars
  <1>1. CASE Send
    <2>1. Program[sent + 1] \in Commands
      BY <1>1, ProgramFacts DEF Send, SenderOK, Returned
    <2> QED
      BY <1>1, <2>1 DEF Sender, Send, Software
  <1>2. CASE PollLow \/ PollHigh \/ Test \/ Check
    BY <1>2 DEF Sender, PollLow, PollHigh, Test, Check, Software
  <1>3. CASE Timeout
    BY <1>3 DEF Timeout
  <1> QED
    BY <1>1, <1>2, <1>3 DEF Sender

\* Every step of the composition is one of COPS, or leaves COPS alone
LEMMA StepOfCOPS ==
    ASSUME SenderOK, [SystemNext]_vars
    PROVE  [Next]_copsVars
  <1>1. CASE Sender
    BY <1>1, SenderIsSoftware DEF Next
  <1>2. CASE Handler \/ DriverStart
    BY <1>2 DEF Handler, DriverStart, Software, Next
  <1>3. CASE Carry \/ Delivery \/ Timer
    BY <1>3 DEF Carry, Delivery, Timer, Event, Next
  <1>4. CASE Post
    BY <1>4 DEF Post, Next
  <1>5. CASE Restart
    BY <1>5 DEF Restart, Next
  <1>6. CASE DrainEnds
    BY <1>6 DEF Next
  <1>7. CASE UNCHANGED vars
    BY <1>7 DEF vars
  <1> QED
    BY <1>1, <1>2, <1>3, <1>4, <1>5, <1>6, <1>7 DEF SystemNext

(* COPS with the software of the ROM and of the Lisa OS is COPS: the       *)
(* routines write only commands, and only while the machine runs.          *)
THEOREM SenderImplementsCOPS == SystemSpec => Spec
  <1>1. SystemInit => Init
    BY DEF SystemInit
  <1>2. SenderOK /\ [SystemNext]_vars => SenderOK'
    BY SenderStep
  <1>3. SenderOK /\ [SystemNext]_vars => [Next]_copsVars
    BY StepOfCOPS
  <1> QED
    BY SenderInit, <1>1, <1>2, <1>3, PTL DEF SystemSpec, Spec

(* So with them too the input is a stream: whole packets in order, none    *)
(* lost or doubled, whatever flags the drivers wipe (COPS.swift).          *)
THEOREM SystemInputIsAStream == SystemSpec => ImplementsStream
  BY SenderImplementsCOPS, InputIsAStream

(* And it never stalls, and a low ready line has an acknowledgement        *)
(* pending, so that the ROM's polls for its rise end.                      *)
THEOREM SystemIsNeverStalled == SystemSpec => [](NeverStalled /\ LowLineWillRise)
  BY SenderImplementsCOPS, InputIsNeverStalled, LineIsNeverStuckLow, PTL

-----------------------------------------------------------------------------
(* The ROM. What was carried out and what waits to be is what was written. *)
RomPhases == {"write", "low", "high", "done", "failed"}

RomOK ==
    routine = "ROM" =>
       /\ phase \in RomPhases
       /\ acks \in Seq(Commands) /\ executed \in Seq(Commands)
       /\ CarriedOut = SentSoFar

\* Nothing has been sent at first
LEMMA RomInit == SystemInit => RomOK
  <1> SUFFICES ASSUME SystemInit PROVE RomOK
    OBVIOUS
  <1>1. acks = <<>> /\ executed = <<>> /\ sent = 0 /\ phase = "write"
    BY DEF SystemInit, Init
  <1>2. SentSoFar = <<>>
    BY <1>1, ProgramFacts, SenderAssumption DEF SentSoFar, Written
  <1>3. CarriedOut = <<>>
    BY <1>1 DEF CarriedOut
  <1> QED
    BY <1>1, <1>2, <1>3 DEF RomOK, RomPhases

\* One more command of a program
LEMMA NextOfProgram ==
    ASSUME NEW S, NEW p \in Seq(S), NEW n \in Nat, n + 1 \in DOMAIN p
    PROVE  SubSeq(p, 1, n + 1) = Append(SubSeq(p, 1, n), p[n + 1])
  OBVIOUS

\* A concatenation grows at its end
LEMMA AppendToConcatenation ==
    ASSUME NEW S, NEW p \in Seq(S), NEW q \in Seq(S), NEW e \in S
    PROVE  p \o Append(q, e) = Append(p \o q, e)
  OBVIOUS

\* Moving the head of a queue to what precedes it changes nothing of the whole
LEMMA MoveHead ==
    ASSUME NEW S, NEW p \in Seq(S), NEW q \in Seq(S), q # <<>>
    PROVE  /\ Append(p, Head(q)) \o Tail(q) = p \o q
           /\ Append(p, Head(q)) \in Seq(S) /\ Tail(q) \in Seq(S)
  OBVIOUS

\* The ROM's account is kept by a step that sends and carries out nothing
LEMMA RomKept ==
    ASSUME RomOK, UNCHANGED <<routine, acks, executed>>, Written' = Written,
           phase \in RomPhases => phase' \in RomPhases
    PROVE  RomOK'
  BY DEF RomOK, CarriedOut, SentSoFar

\* It sends only when nothing is pending, so that order and number are kept
LEMMA RomSends ==
    ASSUME RomOK, SenderOK, Send
    PROVE  RomOK'
  <1> SUFFICES ASSUME routine' = "ROM" PROVE RomOK'
    BY DEF RomOK
  <1>1. routine = "ROM" /\ phase = "write" /\ phase' = "low"
    BY DEF Send, RomOK, RomPhases
  <1>2. /\ acks' = Append(acks, Program[sent + 1])
        /\ UNCHANGED <<executed, sent>>
    BY DEF Send, WriteCommand, historyVars
  <1>3. sent \in Nat /\ sent + 1 \in DOMAIN Program /\ Program[sent + 1] \in Commands
    BY <1>1, ProgramFacts DEF SenderOK, Returned
  <1>4. Written = sent /\ Written' = sent + 1
    BY <1>1, <1>2 DEF Written
  <1>5. SentSoFar' = Append(SentSoFar, Program[sent + 1])
    BY <1>3, <1>4, NextOfProgram, SenderAssumption DEF SentSoFar
  <1>6. acks \in Seq(Commands) /\ executed \in Seq(Commands) /\ CarriedOut = SentSoFar
    BY <1>1 DEF RomOK
  <1>7. CarriedOut' = Append(CarriedOut, Program[sent + 1]) /\ acks' \in Seq(Commands)
    BY <1>2, <1>3, <1>6, AppendToConcatenation DEF CarriedOut
  <1> QED
    BY <1>1, <1>2, <1>5, <1>6, <1>7 DEF RomOK, RomPhases

\* What is carried out next is the one command it sent
LEMMA RomCarries ==
    ASSUME RomOK, Carry
    PROVE  RomOK'
  <1> SUFFICES ASSUME routine' = "ROM" PROVE RomOK'
    BY DEF RomOK
  <1>1. routine = "ROM" /\ UNCHANGED <<phase, sent>>
    BY DEF Carry, senderVars
  <1>2. acks # <<>> /\ acks' = Tail(acks) /\ executed' = Append(executed, Head(acks))
    BY <1>1 DEF Carry, Acknowledge
  <1>3. acks \in Seq(Commands) /\ executed \in Seq(Commands) /\ CarriedOut = SentSoFar
    BY <1>1 DEF RomOK
  <1>4. CarriedOut' = CarriedOut /\ executed' \in Seq(Commands) /\ acks' \in Seq(Commands)
    <2>1. /\ Append(executed, Head(acks)) \o Tail(acks) = executed \o acks
          /\ Append(executed, Head(acks)) \in Seq(Commands) /\ Tail(acks) \in Seq(Commands)
      BY <1>2, <1>3, MoveHead
    <2> QED
      BY <1>2, <2>1 DEF CarriedOut
  <1>5. SentSoFar' = SentSoFar
    BY <1>1 DEF SentSoFar, Written
  <1> QED
    BY <1>1, <1>3, <1>4, <1>5 DEF RomOK, RomPhases

\* Every step keeps the account of the ROM's routine
LEMMA RomStep ==
    ASSUME RomOK, SenderOK, [SystemNext]_vars
    PROVE  RomOK'
  <1>1. CASE Send
    BY <1>1, RomSends
  <1>2. CASE PollLow \/ Timeout
    <2>1. UNCHANGED <<routine, sent, acks, executed>>
      BY <1>2 DEF PollLow, Timeout, ReadPortB, historyVars, copsVars
    <2>2. phase = "low" /\ phase' \in {"low", "high", "failed"}
      BY <1>2 DEF PollLow, Timeout
    <2>3. Written' = Written
      BY <2>1, <2>2 DEF Written
    <2> QED
      BY <2>1, <2>2, <2>3, RomKept DEF RomPhases
  <1>3. CASE PollHigh
    <2>1. UNCHANGED <<routine, acks, executed>> /\ phase = "high"
      BY <1>3 DEF PollHigh, ReadPortB, historyVars, senderVars, Sent
    <2>2. CASE Sent
      <3>1. sent' = sent + 1 /\ phase' \in {"write", "done"}
        BY <2>2 DEF Sent, NextPhase
      <3>2. Written' = Written
        BY <2>1, <3>1 DEF Written
      <3> QED
        BY <2>1, <3>1, <3>2, RomKept DEF RomPhases
    <2>3. CASE UNCHANGED senderVars
      <3>1. Written' = Written /\ phase' = phase
        BY <2>3 DEF Written, senderVars
      <3> QED
        BY <2>1, <3>1, RomKept
    <2> QED
      BY <1>3, <2>2, <2>3 DEF PollHigh
  <1>4. CASE Test \/ Check
    <2>1. routine # "ROM" /\ routine' = routine
      BY <1>4 DEF Test, Check, Sent, RomOK, RomPhases
    <2> QED
      BY <2>1 DEF RomOK
  <1>5. CASE Carry
    BY <1>5, RomCarries
  <1>6. CASE Restart
    <2>1. acks' = <<>> /\ executed' = <<>> /\ sent' = 0 /\ phase' = "write"
      BY <1>6 DEF Restart, Reset, resetPort
    <2>2. SentSoFar' = <<>>
      BY <2>1, ProgramFacts, SenderAssumption DEF SentSoFar, Written
    <2>3. CarriedOut' = <<>>
      BY <2>1 DEF CarriedOut
    <2> QED
      BY <2>1, <2>2, <2>3 DEF RomOK, RomPhases
  <1>7. CASE Handler \/ DriverStart \/ Delivery \/ Timer \/ Post \/ (DrainEnds /\ UNCHANGED <<senderVars, historyVars>>)
    <2>1. UNCHANGED <<routine, sent, phase, acks, executed>>
      BY <1>7 DEF Handler, DriverStart, Delivery, Timer, Post, DrainEnds, ReadPortA, WipeFlag,
                  Deliver, Reassert, PostInput, crdyVars, senderVars, historyVars
    <2>2. Written' = Written
      BY <2>1 DEF Written
    <2> QED
      BY <2>1, <2>2, RomKept
  <1>8. CASE UNCHANGED vars
    <2>1. UNCHANGED <<routine, sent, phase, acks, executed>>
      BY <1>8 DEF vars, copsVars, senderVars, historyVars
    <2>2. Written' = Written
      BY <2>1 DEF Written
    <2> QED
      BY <2>1, <2>2, RomKept
  <1> QED
    BY <1>1, <1>2, <1>3, <1>4, <1>5, <1>6, <1>7, <1>8 DEF SystemNext, Sender

(* A command the boot ROM sends is carried out exactly once, and in the    *)
(* order sent, whatever the program, the length of the acknowledgements'   *)
(* queue and the resets.                                                   *)
THEOREM RomSendsEachOnce == SystemSpec => [](routine = "ROM" => CarriedOut = SentSoFar)
  <1>1. SenderOK /\ RomOK /\ [SystemNext]_vars => (SenderOK /\ RomOK)'
    BY SenderStep, RomStep
  <1>2. RomOK => (routine = "ROM" => CarriedOut = SentSoFar)
    BY DEF RomOK
  <1> QED
    BY SenderInit, RomInit, <1>1, <1>2, PTL DEF SystemSpec

-----------------------------------------------------------------------------
(* COPSCMD. Its rewrites repeat a command, so that what is carried out and *)
(* what was written agree step by step, each perhaps waiting for the other *)
(* at a repeat: an alignment, position by position.                        *)
LEMMA NumbersInduction ==
    ASSUME NEW S, 0 \in S, \A n \in Nat : n \in S => n + 1 \in S
    PROVE  Nat \subseteq S
  <1> SUFFICES ASSUME Nat \ S # {} PROVE FALSE
    OBVIOUS
  <1> DEFINE T == Nat \ S
  <1>1. PICK m \in T : \A y \in T : m <= y
    <2>1. IsWellFoundedOn(OpToRel(<, Nat), Nat)
      BY NatLessThanWellFounded
    <2>2. PICK x \in T : \A y \in T : ~(<<y, x>> \in OpToRel(<, Nat))
      BY ONLY <2>1, T # {}, T \subseteq Nat, WFMin
    <2>3. \A y \in T : ~(y < x)
      BY <2>2 DEF OpToRel
    <2> QED
      BY <2>3
  <1>2. m # 0 /\ m - 1 \in Nat /\ ~(m <= m - 1) /\ (m - 1) + 1 = m
    BY <1>1
  <1> QED
    BY <1>1, <1>2

MergeOf(f, s, i) == IF i = 0 THEN <<>>
                    ELSE IF i > 1 /\ s[i] = s[i - 1] THEN f[i - 1]
                    ELSE Append(f[i - 1], s[i])

MergesTo(f, s, n) == f = [i \in 0 .. n |-> MergeOf(f, s, i)]

\* The recursion of Merging has a solution up to every length
LEMMA MergingExists ==
    ASSUME NEW s, NEW n \in Nat
    PROVE  \E f : MergesTo(f, s, n)
  <1> DEFINE S == {k \in Nat : \E f : MergesTo(f, s, k)}
  <1>1. 0 \in S
    <2>1. MergesTo([i \in 0 .. 0 |-> <<>>], s, 0)
      BY DEF MergesTo, MergeOf
    <2> QED
      BY <2>1
  <1>2. ASSUME NEW k \in Nat, k \in S PROVE k + 1 \in S
    <2>1. PICK f : MergesTo(f, s, k)
      BY <1>2
    <2> DEFINE g == [i \in 0 .. k + 1 |-> IF i <= k THEN f[i] ELSE MergeOf(f, s, k + 1)]
    <2>2. ASSUME NEW i \in 0 .. k + 1 PROVE g[i] = MergeOf(g, s, i)
      <3>1. CASE i = 0
        BY <2>1, <3>1 DEF MergesTo, MergeOf
      <3>2. CASE i # 0
        <4>1. i - 1 \in 0 .. k /\ g[i - 1] = f[i - 1]
          BY <3>2
        <4>2. MergeOf(g, s, i) = MergeOf(f, s, i)
          BY <3>2, <4>1 DEF MergeOf
        <4>3. CASE i <= k
          BY <2>1, <4>2, <4>3 DEF MergesTo
        <4>4. CASE i = k + 1
          BY <4>2, <4>4
        <4> QED
          BY <4>3, <4>4
      <3> QED
        BY <3>1, <3>2
    <2>3. MergesTo(g, s, k + 1)
      BY <2>2 DEF MergesTo
    <2> HIDE DEF g
    <2> QED
      BY <2>3
  <1> HIDE DEF S
  <1>3. Nat \subseteq S
    BY <1>1, <1>2, NumbersInduction
  <1> QED
    BY <1>3 DEF S

\* so Merging is one
LEMMA MergingIs ==
    ASSUME NEW S, NEW s \in Seq(S)
    PROVE  MergesTo(Merging(s), s, Len(s))
  <1>1. Merging(s) = CHOOSE f : f = [i \in 0 .. Len(s) |-> IF i = 0 THEN <<>>
                    ELSE IF i > 1 /\ s[i] = s[i - 1] THEN f[i - 1]
                    ELSE Append(f[i - 1], s[i])]
    BY DEF Merging
  <1>2. Merging(s) = CHOOSE f : MergesTo(f, s, Len(s))
    BY <1>1 DEF MergesTo, MergeOf
  <1>3. Len(s) \in Nat
    OBVIOUS
  <1> QED
    BY <1>2, <1>3, MergingExists


Aligned(s, t, K, a, b) ==
    /\ K \in Nat /\ a \in [Nat -> Nat] /\ b \in [Nat -> Nat]
    /\ a[0] = 0 /\ b[0] = 0 /\ a[K] = Len(s) /\ b[K] = Len(t)
    /\ \A k \in Nat : k < K => /\ a[k + 1] \in {a[k], a[k] + 1}
                               /\ b[k + 1] \in {b[k], b[k] + 1}
    /\ \A k \in Nat : 1 <= k /\ k <= K =>
          /\ 1 <= a[k] /\ a[k] <= Len(s) /\ 1 <= b[k] /\ b[k] <= Len(t)
          /\ s[a[k]] = t[b[k]]

SameButRepeats(s, t) == \E K, a, b : Aligned(s, t, K, a, b)

(* Aligned sequences are the same when their repeats are merged.           *)
LEMMA AlignedMerge ==
    ASSUME NEW S, NEW s \in Seq(S), NEW t \in Seq(S), SameButRepeats(s, t)
    PROVE  Merged(s) = Merged(t)
  <1>1. PICK K, a, b : Aligned(s, t, K, a, b)
    BY DEF SameButRepeats
  <1> DEFINE f == Merging(s)
             g == Merging(t)
  <1>2. /\ \A i \in 0 .. Len(s) : f[i] = MergeOf(f, s, i)
        /\ \A i \in 0 .. Len(t) : g[i] = MergeOf(g, t, i)
    <2>1. MergesTo(f, s, Len(s)) /\ MergesTo(g, t, Len(t))
      BY MergingIs
    <2> HIDE DEF f, g
    <2> QED
      BY <2>1 DEF MergesTo
  <1> HIDE DEF f, g
  <1>3. Len(s) \in Nat /\ Len(t) \in Nat /\ K \in Nat
    BY <1>1 DEF Aligned
  <1> DEFINE T == {k \in Nat : k <= K => f[a[k]] = g[b[k]]}
  <1>4. 0 \in T
    <2>1. a[0] = 0 /\ b[0] = 0
      BY <1>1 DEF Aligned
    <2>2. f[0] = <<>> /\ g[0] = <<>>
      BY <1>2, <1>3 DEF MergeOf
    <2> QED
      BY <2>1, <2>2
  <1>5. ASSUME NEW k \in Nat, k \in T PROVE k + 1 \in T
    <2> SUFFICES ASSUME k + 1 <= K PROVE f[a[k + 1]] = g[b[k + 1]]
      OBVIOUS
    <2> DEFINE x == a[k + 1]
               y == b[k + 1]
    <2>0. k + 1 \in Nat /\ k < K /\ 1 <= k + 1 /\ (k # 0 => 1 <= k /\ k <= K)
      BY <1>3
    <2>1. /\ x \in Nat /\ y \in Nat /\ a[k] \in Nat /\ b[k] \in Nat
          /\ x \in {a[k], a[k] + 1} /\ y \in {b[k], b[k] + 1}
          /\ 1 <= x /\ x <= Len(s) /\ 1 <= y /\ y <= Len(t) /\ s[x] = t[y]
      <3>1. a \in [Nat -> Nat] /\ b \in [Nat -> Nat]
        BY <1>1 DEF Aligned
      <3>2. x \in {a[k], a[k] + 1} /\ y \in {b[k], b[k] + 1}
        BY <1>1, <2>0 DEF Aligned
      <3>3. 1 <= x /\ x <= Len(s) /\ 1 <= y /\ y <= Len(t) /\ s[x] = t[y]
        BY <1>1, <2>0 DEF Aligned
      <3> QED
        BY <2>0, <3>1, <3>2, <3>3
    <2>2. f[a[k]] = g[b[k]]
      BY <1>3, <1>5
    <2>3. f[x] = MergeOf(f, s, x) /\ g[y] = MergeOf(g, t, y)
      BY <1>2, <1>3, <2>1
    <2>4. k # 0 => /\ 1 <= a[k] /\ 1 <= b[k] /\ s[a[k]] = t[b[k]]
      BY <1>1, <2>0 DEF Aligned
    <2>5. k = 0 => a[k] = 0 /\ b[k] = 0
      BY <1>1 DEF Aligned
    <2> HIDE DEF x, y, T
    <2>6. CASE k = 0
      <3>1. x = 1 /\ y = 1
        BY <2>1, <2>5, <2>6
      <3>2. f[0] = g[0]
        BY <2>2, <2>5, <2>6
      <3> QED
        BY <2>1, <2>3, <3>1, <3>2 DEF MergeOf, x, y
    <2>7. CASE k # 0
      <3>1. CASE x = a[k] /\ y = b[k]
        BY <2>2, <3>1 DEF x, y
      <3>2. CASE x = a[k] + 1 /\ y = b[k]
        <4>1. x > 1 /\ x - 1 = a[k] /\ s[x] = s[x - 1]
          BY <2>1, <2>4, <2>7, <3>2
        <4>2. f[x] = f[a[k]]
          BY <2>3, <4>1 DEF MergeOf
        <4> QED
          BY <2>2, <3>2, <4>2 DEF x, y
      <3>3. CASE x = a[k] /\ y = b[k] + 1
        <4>1. y > 1 /\ y - 1 = b[k] /\ t[y] = t[y - 1]
          BY <2>1, <2>4, <2>7, <3>3
        <4>2. g[y] = g[b[k]]
          BY <2>3, <4>1 DEF MergeOf
        <4> QED
          BY <2>2, <3>3, <4>2 DEF x, y
      <3>4. CASE x = a[k] + 1 /\ y = b[k] + 1
        <4>1. x > 1 /\ x - 1 = a[k] /\ y > 1 /\ y - 1 = b[k]
          <5>1. 1 <= a[k] /\ 1 <= b[k] /\ a[k] \in Nat /\ b[k] \in Nat
            BY <2>1, <2>4, <2>7
          <5>2. \A m, n \in Nat : 1 <= n /\ m = n + 1 => m > 1 /\ m - 1 = n
            OBVIOUS
          <5> QED
            BY <2>1, <3>4, <5>1, <5>2
        <4>2. s[x] = t[y] /\ s[x - 1] = t[y - 1]
          BY <2>1, <2>4, <2>7, <4>1
        <4>3. f[x] = (IF s[x] = s[x - 1] THEN f[a[k]] ELSE Append(f[a[k]], s[x]))
          BY <2>1, <2>3, <4>1 DEF MergeOf
        <4>4. g[y] = (IF t[y] = t[y - 1] THEN g[b[k]] ELSE Append(g[b[k]], t[y]))
          BY <2>1, <2>3, <4>1 DEF MergeOf
        <4> QED
          BY <2>2, <4>2, <4>3, <4>4 DEF x, y
      <3> QED
        BY <2>1, <3>1, <3>2, <3>3, <3>4
    <2> QED
      BY <2>6, <2>7
  <1> HIDE DEF T
  <1>6. Nat \subseteq T
    BY <1>4, <1>5, NumbersInduction
  <1>7. f[a[K]] = g[b[K]]
    BY <1>3, <1>6 DEF T
  <1> QED
    BY <1>1, <1>7 DEF Aligned, Merged, f, g

\* A sequence is aligned with itself
LEMMA SameSame ==
    ASSUME NEW S, NEW s \in Seq(S)
    PROVE  SameButRepeats(s, s)
  <1> DEFINE a == [k \in Nat |-> k]
  <1>1. Len(s) \in Nat
    OBVIOUS
  <1>2. Aligned(s, s, Len(s), a, a)
    BY <1>1 DEF Aligned
  <1> QED
    BY <1>2 DEF SameButRepeats

\* A walk can be continued by staying at a place
LEMMA GoesOn ==
    ASSUME NEW f \in [Nat -> Nat], NEW K \in Nat, NEW n \in Nat
    PROVE  [k \in Nat |-> IF k <= K THEN f[k] ELSE n] \in [Nat -> Nat]
  <1>1. ASSUME NEW k \in Nat PROVE (IF k <= K THEN f[k] ELSE n) \in Nat
    <2>1. f[k] \in Nat
      OBVIOUS
    <2>2. CASE k <= K
      BY <2>1, <2>2
    <2>3. CASE ~(k <= K)
      BY <2>3
    <2> QED
      BY <2>2, <2>3
  <1> QED
    BY <1>1

\* Alignment is kept by the same byte at both ends
LEMMA AppendBoth ==
    ASSUME NEW S, NEW s \in Seq(S), NEW t \in Seq(S), NEW c \in S, SameButRepeats(s, t)
    PROVE  SameButRepeats(Append(s, c), Append(t, c))
  <1>1. PICK K, a, b : Aligned(s, t, K, a, b)
    BY DEF SameButRepeats
  <1> DEFINE u == Append(s, c)
             v == Append(t, c)
             x == [k \in Nat |-> IF k <= K THEN a[k] ELSE Len(s) + 1]
             y == [k \in Nat |-> IF k <= K THEN b[k] ELSE Len(t) + 1]
  <1>2. /\ Len(s) \in Nat /\ Len(u) = Len(s) + 1 /\ u[Len(s) + 1] = c
        /\ Len(t) \in Nat /\ Len(v) = Len(t) + 1 /\ v[Len(t) + 1] = c
        /\ \A i \in 1 .. Len(s) : u[i] = s[i]
        /\ \A i \in 1 .. Len(t) : v[i] = t[i]
    OBVIOUS
  <1> HIDE DEF u, v
  <1>3. K \in Nat /\ K + 1 \in Nat /\ x \in [Nat -> Nat] /\ y \in [Nat -> Nat]
    <2>1. K \in Nat /\ a \in [Nat -> Nat] /\ b \in [Nat -> Nat]
      BY <1>1 DEF Aligned
    <2>2. Len(s) + 1 \in Nat /\ Len(t) + 1 \in Nat
      BY <1>2
    <2>3. x \in [Nat -> Nat] /\ y \in [Nat -> Nat]
      BY ONLY <2>1, <2>2, GoesOn
    <2>4. K \in Nat /\ K + 1 \in Nat
      BY <2>1
    <2> QED
      BY Zenon, <2>3, <2>4
  <1>4. x[0] = 0 /\ y[0] = 0 /\ x[K + 1] = Len(u) /\ y[K + 1] = Len(v)
    BY <1>1, <1>2, <1>3 DEF Aligned
  <1>5. ASSUME NEW k \in Nat, k < K + 1
        PROVE  x[k + 1] \in {x[k], x[k] + 1} /\ y[k + 1] \in {y[k], y[k] + 1}
    <2>1. CASE k < K
      <3>1. k <= K /\ k + 1 <= K /\ k + 1 \in Nat
        BY <1>3, <2>1
      <3>2. x[k] = a[k] /\ x[k + 1] = a[k + 1] /\ y[k] = b[k] /\ y[k + 1] = b[k + 1]
        BY <3>1
      <3>3. a[k + 1] \in {a[k], a[k] + 1} /\ b[k + 1] \in {b[k], b[k] + 1}
        BY <1>1, <2>1 DEF Aligned
      <3> HIDE DEF x, y
      <3> QED
        BY <3>2, <3>3
    <2>2. CASE k = K
      <3>1. ~(k + 1 <= K) /\ k <= K /\ k + 1 \in Nat
        BY <1>3, <2>2
      <3>2. x[k] = a[k] /\ y[k] = b[k] /\ x[k + 1] = Len(s) + 1 /\ y[k + 1] = Len(t) + 1
        BY <3>1
      <3>3. a[k] = Len(s) /\ b[k] = Len(t)
        BY <1>1, <2>2 DEF Aligned
      <3> HIDE DEF x, y
      <3> QED
        BY <3>2, <3>3
    <2> QED
      BY <1>3, <1>5, <2>1, <2>2
  <1>6. ASSUME NEW k \in Nat, 1 <= k, k <= K + 1
        PROVE  /\ 1 <= x[k] /\ x[k] <= Len(u) /\ 1 <= y[k] /\ y[k] <= Len(v)
               /\ u[x[k]] = v[y[k]]
    <2>1. CASE k <= K
      <3>1. /\ 1 <= a[k] /\ a[k] <= Len(s) /\ 1 <= b[k] /\ b[k] <= Len(t)
            /\ s[a[k]] = t[b[k]] /\ a[k] \in Nat /\ b[k] \in Nat
        BY <1>1, <1>6, <2>1 DEF Aligned
      <3>2. u[a[k]] = s[a[k]] /\ v[b[k]] = t[b[k]]
        BY <1>2, <3>1
      <3>3. x[k] = a[k] /\ y[k] = b[k]
        BY <2>1
      <3> QED
        BY <1>2, <3>1, <3>2, <3>3
    <2>2. CASE k = K + 1
      BY <1>2, <1>3, <2>2
    <2> QED
      BY <1>3, <1>6, <2>1, <2>2
  <1> HIDE DEF x, y
  <1>7. Aligned(u, v, K + 1, x, y)
    BY <1>3, <1>4, <1>5, <1>6 DEF Aligned
  <1> QED
    BY <1>7 DEF SameButRepeats, u, v

\* and by a repetition of the last byte at one of them
LEMMA AppendRepeat ==
    ASSUME NEW S, NEW s \in Seq(S), NEW t \in Seq(S), t # <<>>, SameButRepeats(s, t)
    PROVE  SameButRepeats(Append(s, t[Len(t)]), t)
  <1>1. PICK K, a, b : Aligned(s, t, K, a, b)
    BY DEF SameButRepeats
  <1> DEFINE c == t[Len(t)]
             u == Append(s, c)
             x == [k \in Nat |-> IF k <= K THEN a[k] ELSE Len(s) + 1]
             y == [k \in Nat |-> IF k <= K THEN b[k] ELSE Len(t)]
  <1>2. /\ Len(s) \in Nat /\ Len(u) = Len(s) + 1 /\ u[Len(s) + 1] = c
        /\ Len(t) \in Nat /\ Len(t) >= 1 /\ t[Len(t)] = c
        /\ \A i \in 1 .. Len(s) : u[i] = s[i]
    OBVIOUS
  <1> HIDE DEF u, c
  <1>3. K \in Nat /\ K + 1 \in Nat /\ x \in [Nat -> Nat] /\ y \in [Nat -> Nat]
    <2>1. K \in Nat /\ a \in [Nat -> Nat] /\ b \in [Nat -> Nat]
      BY <1>1 DEF Aligned
    <2>2. Len(s) + 1 \in Nat /\ Len(t) \in Nat
      BY <1>2
    <2>3. x \in [Nat -> Nat] /\ y \in [Nat -> Nat]
      BY ONLY <2>1, <2>2, GoesOn
    <2>4. K \in Nat /\ K + 1 \in Nat
      BY <2>1
    <2> QED
      BY Zenon, <2>3, <2>4
  <1>4. x[0] = 0 /\ y[0] = 0 /\ x[K + 1] = Len(u) /\ y[K + 1] = Len(t)
    BY <1>1, <1>2, <1>3 DEF Aligned
  <1>5. ASSUME NEW k \in Nat, k < K + 1
        PROVE  x[k + 1] \in {x[k], x[k] + 1} /\ y[k + 1] \in {y[k], y[k] + 1}
    <2>1. CASE k < K
      <3>1. k <= K /\ k + 1 <= K /\ k + 1 \in Nat
        BY <1>3, <2>1
      <3>2. x[k] = a[k] /\ x[k + 1] = a[k + 1] /\ y[k] = b[k] /\ y[k + 1] = b[k + 1]
        BY <3>1
      <3>3. a[k + 1] \in {a[k], a[k] + 1} /\ b[k + 1] \in {b[k], b[k] + 1}
        BY <1>1, <2>1 DEF Aligned
      <3> HIDE DEF x, y
      <3> QED
        BY <3>2, <3>3
    <2>2. CASE k = K
      <3>1. ~(k + 1 <= K) /\ k <= K /\ k + 1 \in Nat
        BY <1>3, <2>2
      <3>2. x[k] = a[k] /\ y[k] = b[k] /\ x[k + 1] = Len(s) + 1 /\ y[k + 1] = Len(t)
        BY <3>1
      <3>3. a[k] = Len(s) /\ b[k] = Len(t)
        BY <1>1, <2>2 DEF Aligned
      <3> HIDE DEF x, y
      <3> QED
        BY <3>2, <3>3
    <2> QED
      BY <1>3, <1>5, <2>1, <2>2
  <1>6. ASSUME NEW k \in Nat, 1 <= k, k <= K + 1
        PROVE  /\ 1 <= x[k] /\ x[k] <= Len(u) /\ 1 <= y[k] /\ y[k] <= Len(t)
               /\ u[x[k]] = t[y[k]]
    <2>1. CASE k <= K
      <3>1. /\ 1 <= a[k] /\ a[k] <= Len(s) /\ 1 <= b[k] /\ b[k] <= Len(t)
            /\ s[a[k]] = t[b[k]] /\ a[k] \in Nat /\ b[k] \in Nat
        BY <1>1, <1>6, <2>1 DEF Aligned
      <3>2. u[a[k]] = s[a[k]]
        BY <1>2, <3>1
      <3>3. x[k] = a[k] /\ y[k] = b[k]
        BY <2>1
      <3> QED
        BY <1>2, <3>1, <3>2, <3>3
    <2>2. CASE k = K + 1
      BY <1>2, <1>3, <2>2
    <2> QED
      BY <1>3, <1>6, <2>1, <2>2
  <1> HIDE DEF x, y
  <1>7. Aligned(u, t, K + 1, x, y)
    BY <1>3, <1>4, <1>5, <1>6 DEF Aligned
  <1> QED
    BY <1>7 DEF SameButRepeats, u, c

(* A repeat is dropped from s.                                             *)
LEMMA DropRepeat ==
    ASSUME NEW S, NEW s \in Seq(S), NEW t \in Seq(S), NEW u \in Seq(S),
           NEW p \in Nat, 1 <= p, p < Len(s), s[p] = s[p + 1],
           Len(u) = Len(s) - 1,
           \A i \in 1 .. Len(u) : u[i] = IF i <= p THEN s[i] ELSE s[i + 1],
           SameButRepeats(s, t)
    PROVE  SameButRepeats(u, t)
  <1>1. PICK K, a, b : Aligned(s, t, K, a, b)
    BY DEF SameButRepeats
  <1> DEFINE x == [k \in Nat |-> IF a[k] <= p THEN a[k] ELSE a[k] - 1]
  <1>2. Len(s) \in Nat /\ Len(u) \in Nat /\ Len(t) \in Nat
    OBVIOUS
  <1>3. K \in Nat /\ a \in [Nat -> Nat] /\ x \in [Nat -> Nat] /\ b \in [Nat -> Nat]
    <2>1. K \in Nat /\ a \in [Nat -> Nat] /\ b \in [Nat -> Nat]
      BY <1>1 DEF Aligned
    <2>2. \A n \in Nat : (IF n <= p THEN n ELSE n - 1) \in Nat
      OBVIOUS
    <2>3. \A k \in Nat : (IF a[k] <= p THEN a[k] ELSE a[k] - 1) \in Nat
      BY <2>1, <2>2
    <2> QED
      BY <2>1, <2>3
  <1>4. x[0] = 0 /\ b[0] = 0 /\ x[K] = Len(u) /\ b[K] = Len(t)
    <2>1. a[0] = 0 /\ a[K] = Len(s) /\ b[0] = 0 /\ b[K] = Len(t)
      BY <1>1 DEF Aligned
    <2>2. ~(a[K] <= p) /\ a[0] <= p
      BY <1>2, <2>1
    <2>3. x[0] = a[0] /\ x[K] = a[K] - 1
      BY <1>3, <2>2
    <2> QED
      BY <2>1, <2>3
  <1>5. ASSUME NEW k \in Nat, k < K
        PROVE  x[k + 1] \in {x[k], x[k] + 1} /\ b[k + 1] \in {b[k], b[k] + 1}
    <2>1. a[k + 1] \in {a[k], a[k] + 1} /\ b[k + 1] \in {b[k], b[k] + 1} /\ a[k] \in Nat
      BY <1>1, <1>3, <1>5 DEF Aligned
    <2>2. /\ x[k] = IF a[k] <= p THEN a[k] ELSE a[k] - 1
          /\ x[k + 1] = IF a[k + 1] <= p THEN a[k + 1] ELSE a[k + 1] - 1
      OBVIOUS
    <2> HIDE DEF x
    <2> QED
      BY SMTT(30), <2>1, <2>2
  <1>6. ASSUME NEW k \in Nat, 1 <= k, k <= K
        PROVE  /\ 1 <= x[k] /\ x[k] <= Len(u) /\ 1 <= b[k] /\ b[k] <= Len(t)
               /\ u[x[k]] = t[b[k]]
    <2>1. /\ 1 <= a[k] /\ a[k] <= Len(s) /\ 1 <= b[k] /\ b[k] <= Len(t)
          /\ s[a[k]] = t[b[k]] /\ a[k] \in Nat
      BY <1>1, <1>3, <1>6 DEF Aligned
    <2>2. x[k] = IF a[k] <= p THEN a[k] ELSE a[k] - 1
      OBVIOUS
    <2> HIDE DEF x
    <2>3. 1 <= x[k] /\ x[k] <= Len(u) /\ x[k] \in Nat
      BY <1>2, <2>1, <2>2
    <2>4. u[x[k]] = IF x[k] <= p THEN s[x[k]] ELSE s[x[k] + 1]
      BY SMTT(30), <1>2, <2>3
    <2>5. u[x[k]] = s[a[k]]
      <3>1. CASE a[k] <= p
        BY <2>2, <2>4, <3>1
      <3>2. CASE a[k] = p + 1
        BY <2>2, <2>4, <3>2
      <3>3. CASE a[k] > p + 1
        <4>1. x[k] = a[k] - 1 /\ ~(x[k] <= p) /\ x[k] + 1 = a[k]
          BY <2>1, <2>2, <3>3
        <4> QED
          BY <2>4, <4>1
      <3> QED
        BY <2>1, <3>1, <3>2, <3>3
    <2> QED
      BY <2>1, <2>3, <2>5
  <1> HIDE DEF x
  <1>7. Aligned(u, t, K, x, b)
    BY <1>3, <1>4, <1>5, <1>6 DEF Aligned
  <1> QED
    BY <1>7 DEF SameButRepeats


CmdPhases == {"write", "test", "check", "rewrite", "done"}

CmdOK ==
    routine # "ROM" =>
       /\ routine = "COPSCMD"
       /\ phase \in CmdPhases
       /\ acks \in Seq(Commands) /\ executed \in Seq(Commands)
       /\ SameButRepeats(CarriedOut, SentSoFar)

\* What has been sent so far is a part of the program
LEMMA SentSoFarFacts ==
    ASSUME SenderOK
    PROVE  /\ SentSoFar \in Seq(Commands) /\ Written \in Nat /\ Len(SentSoFar) = Written
           /\ \A i \in 1 .. Written : SentSoFar[i] = Program[i]
  <1>1. Written \in Nat /\ Written <= Len(Program)
    BY ProgramFacts DEF SenderOK, Written, Returned
  <1>2. \A i \in 1 .. Written : Program[i] \in Commands
    BY <1>1, ProgramFacts
  <1> DEFINE n == Written
  <1> HIDE DEF n
  <1>3. n \in Nat /\ \A i \in 1 .. n : Program[i] \in Commands
    BY <1>1, <1>2 DEF n
  <1>4. /\ SubSeq(Program, 1, n) \in Seq(Commands) /\ Len(SubSeq(Program, 1, n)) = n
        /\ \A i \in 1 .. n : SubSeq(Program, 1, n)[i] = Program[i]
    BY <1>3
  <1> QED
    BY <1>1, <1>4 DEF SentSoFar, n

\* Nothing has been sent at first
LEMMA CmdInit == SystemInit => CmdOK
  <1> SUFFICES ASSUME SystemInit PROVE CmdOK
    OBVIOUS
  <1>1. acks = <<>> /\ executed = <<>> /\ sent = 0 /\ phase = "write" /\ routine \in {"ROM", "COPSCMD"}
    BY SenderAssumption DEF SystemInit, Init
  <1>2. SentSoFar = <<>>
    BY <1>1, ProgramFacts, SenderAssumption DEF SentSoFar, Written
  <1>3. CarriedOut = <<>>
    BY <1>1 DEF CarriedOut
  <1>4. <<>> \in Seq(Commands)
    OBVIOUS
  <1> QED
    BY <1>1, <1>2, <1>3, <1>4, SameSame DEF CmdOK, CmdPhases

\* COPSCMD's account is kept by a step that sends and carries out nothing
LEMMA CmdKept ==
    ASSUME CmdOK, UNCHANGED <<routine, acks, executed>>, Written' = Written,
           phase \in CmdPhases => phase' \in CmdPhases
    PROVE  CmdOK'
  BY DEF CmdOK, CarriedOut, SentSoFar

\* What COPSCMD writes is its command or a repetition of it
LEMMA CmdSends ==
    ASSUME CmdOK, SenderOK, Send
    PROVE  CmdOK'
  <1> SUFFICES ASSUME routine' # "ROM" PROVE CmdOK'
    BY DEF CmdOK
  <1>1. routine' = routine /\ routine = "COPSCMD" /\ phase \in {"write", "rewrite"} /\ phase' = "test"
    BY DEF Send, CmdOK
  <1> DEFINE c == Program[sent + 1]
  <1>2. acks' = Append(acks, c) /\ UNCHANGED <<executed, sent>>
    BY DEF Send, WriteCommand, historyVars
  <1>3. sent \in Nat /\ sent + 1 \in DOMAIN Program /\ c \in Commands
    BY <1>1, ProgramFacts DEF SenderOK, Returned
  <1>4. Written' = sent + 1
    BY <1>1, <1>2 DEF Written
  <1>5. /\ acks \in Seq(Commands) /\ executed \in Seq(Commands)
        /\ SameButRepeats(CarriedOut, SentSoFar)
    BY <1>1 DEF CmdOK
  <1>6. /\ CarriedOut' = Append(CarriedOut, c) /\ acks' \in Seq(Commands)
        /\ executed' \in Seq(Commands) /\ CarriedOut \in Seq(Commands)
    BY <1>2, <1>3, <1>5, AppendToConcatenation DEF CarriedOut
  <1>7. SentSoFar \in Seq(Commands) /\ Len(SentSoFar) = Written
        /\ \A i \in 1 .. Written : SentSoFar[i] = Program[i]
    BY SentSoFarFacts
  <1>8. SameButRepeats(CarriedOut', SentSoFar')
    <2>1. CASE phase = "write"
      <3>1. Written = sent
        BY <2>1 DEF Written
      <3>2. SentSoFar' = Append(SentSoFar, c)
        BY <1>3, <1>4, <3>1, NextOfProgram, SenderAssumption DEF SentSoFar
      <3> QED
        BY <1>3, <1>5, <1>6, <1>7, <3>2, AppendBoth
    <2>2. CASE phase = "rewrite"
      <3>1. Written = sent + 1 /\ SentSoFar' = SentSoFar
        BY <1>2, <1>4, <2>2 DEF Written, SentSoFar
      <3>2. SentSoFar # <<>> /\ SentSoFar[Len(SentSoFar)] = c
        BY <1>3, <1>7, <3>1
      <3> HIDE DEF c
      <3> QED
        BY <1>5, <1>6, <1>7, <3>1, <3>2, AppendRepeat
    <2> QED
      BY <1>1, <2>1, <2>2
  <1> QED
    BY <1>1, <1>6, <1>8 DEF CmdOK, CmdPhases

\* A pending repetition carried out is a repetition of what was carried out
LEMMA CarryRepeat ==
    ASSUME NEW S, NEW e \in Seq(S), NEW q \in Seq(S), q # <<>>, e # <<>>,
           e[Len(e)] = Head(q), NEW t \in Seq(S), SameButRepeats(e \o q, t)
    PROVE  SameButRepeats(e \o Tail(q), t)
  <1> DEFINE s == e \o q
             u == e \o Tail(q)
             p == Len(e)
  <1>1. /\ s \in Seq(S) /\ u \in Seq(S) /\ Tail(q) \in Seq(S) /\ p \in Nat /\ 1 <= p
        /\ Len(q) \in Nat /\ Len(q) >= 1 /\ Len(Tail(q)) = Len(q) - 1
        /\ \A i \in 1 .. Len(q) - 1 : Tail(q)[i] = q[i + 1]
    OBVIOUS
  <1>2. /\ Len(s) = p + Len(q) /\ Len(u) = p + Len(q) - 1
        /\ \A i \in 1 .. p : s[i] = e[i] /\ u[i] = e[i]
        /\ \A i \in p + 1 .. p + Len(q) : s[i] = q[i - p]
        /\ \A i \in p + 1 .. p + Len(q) - 1 : u[i] = Tail(q)[i - p]
    BY <1>1
  <1>3. s[p] = s[p + 1]
    <2>1. s[p] = e[p] /\ s[p + 1] = q[1] /\ Head(q) = q[1]
      BY <1>1, <1>2
    <2> QED
      BY <2>1
  <1> HIDE DEF s, u, p
  <1>4. ASSUME NEW i \in 1 .. Len(u) PROVE u[i] = IF i <= p THEN s[i] ELSE s[i + 1]
    <2>1. CASE i <= p
      BY <1>1, <1>2, <2>1
    <2>2. CASE ~(i <= p)
      <3>1. i \in p + 1 .. p + Len(q) - 1 /\ i + 1 \in p + 1 .. p + Len(q) /\ i - p \in 1 .. Len(q) - 1
            /\ (i + 1) - p = (i - p) + 1
        BY <1>1, <1>2, <2>2
      <3>2. u[i] = Tail(q)[i - p] /\ s[i + 1] = q[(i - p) + 1]
        BY <1>2, <3>1
      <3>3. Tail(q)[i - p] = q[(i - p) + 1]
        BY <1>1, <3>1
      <3> QED
        BY <2>2, <3>2, <3>3
    <2> QED
      BY <2>1, <2>2
  <1>5. p < Len(s) /\ Len(u) = Len(s) - 1
    BY <1>1, <1>2
  <1>6. SameButRepeats(s, t)
    BY DEF s
  <1>7. SameButRepeats(u, t)
    BY <1>1, <1>3, <1>4, <1>5, <1>6, DropRepeat
  <1> QED
    BY <1>7 DEF u

\* Carrying out a command moves it from what is pending to what is done
LEMMA CmdCarries ==
    ASSUME CmdOK, SenderOK, Carry
    PROVE  CmdOK'
  <1> SUFFICES ASSUME routine' # "ROM" PROVE CmdOK'
    BY DEF CmdOK
  <1>1. routine' = routine /\ routine = "COPSCMD" /\ UNCHANGED <<phase, sent>> /\ phase \in CmdPhases
    BY DEF Carry, senderVars, CmdOK
  <1>2. acks # <<>> /\ acks' = Tail(acks)
        /\ executed' = IF Repeats(Head(acks)) THEN executed ELSE Append(executed, Head(acks))
    BY <1>1 DEF Carry, Acknowledge
  <1>3. /\ acks \in Seq(Commands) /\ executed \in Seq(Commands)
        /\ SameButRepeats(CarriedOut, SentSoFar)
    BY <1>1 DEF CmdOK
  <1>4. SentSoFar \in Seq(Commands) /\ SentSoFar' = SentSoFar
    BY <1>1, SentSoFarFacts DEF SentSoFar, Written
  <1>5. /\ Append(executed, Head(acks)) \o Tail(acks) = executed \o acks
        /\ Append(executed, Head(acks)) \in Seq(Commands) /\ Tail(acks) \in Seq(Commands)
    BY <1>2, <1>3, MoveHead
  <1>6. executed' \in Seq(Commands) /\ acks' \in Seq(Commands)
    BY <1>2, <1>3, <1>5
  <1>7. SameButRepeats(CarriedOut', SentSoFar)
    <2>1. CASE Repeats(Head(acks))
      <3>1. executed # <<>> /\ executed[Len(executed)] = Head(acks)
        BY <2>1 DEF Repeats, Last
      <3>2. SameButRepeats(executed \o Tail(acks), SentSoFar)
        BY <1>2, <1>3, <1>4, <3>1, CarryRepeat DEF CarriedOut
      <3> QED
        BY <1>2, <2>1, <3>2 DEF CarriedOut
    <2>2. CASE ~Repeats(Head(acks))
      <3>1. CarriedOut' = CarriedOut
        BY <1>2, <1>5, <2>2 DEF CarriedOut
      <3> QED
        BY <1>3, <3>1
    <2> QED
      BY <2>1, <2>2
  <1> QED
    BY <1>1, <1>4, <1>6, <1>7 DEF CmdOK

\* Every step keeps the account of COPSCMD
LEMMA CmdStep ==
    ASSUME CmdOK, SenderOK, [SystemNext]_vars
    PROVE  CmdOK'
  <1>1. CASE Send
    BY <1>1, CmdSends
  <1>2. CASE PollLow \/ PollHigh \/ Timeout
    <2>1. phase \notin CmdPhases /\ routine' = routine
      BY <1>2 DEF PollLow, PollHigh, Timeout, CmdPhases, Sent, senderVars
    <2> QED
      BY <2>1 DEF CmdOK
  <1>3. CASE Test
    <2>1. UNCHANGED <<routine, sent, acks, executed>> /\ phase = "test" /\ phase' \in {"check", "rewrite"}
      BY <1>3 DEF Test, ReadPortB, historyVars
    <2>2. Written' = Written
      BY <2>1 DEF Written
    <2> QED
      BY <2>1, <2>2, CmdKept DEF CmdPhases
  <1>4. CASE Check
    <2>1. UNCHANGED <<routine, acks, executed>> /\ phase = "check"
      BY <1>4 DEF Check, ReadPortB, historyVars, Sent
    <2>2. CASE Sent
      <3>1. sent' = sent + 1 /\ phase' \in {"write", "done"}
        BY <2>2 DEF Sent, NextPhase
      <3>2. Written' = Written
        BY <2>1, <3>1 DEF Written
      <3> QED
        BY <2>1, <3>1, <3>2, CmdKept DEF CmdPhases
    <2>3. CASE sent' = sent /\ phase' \in {"check", "rewrite"}
      <3>1. Written' = Written
        BY <2>1, <2>3 DEF Written
      <3> QED
        BY <2>1, <2>3, <3>1, CmdKept DEF CmdPhases
    <2> QED
      BY <1>4, <2>1, <2>2, <2>3 DEF Check
  <1>5. CASE Carry
    BY <1>5, CmdCarries
  <1>6. CASE Restart
    <2>1. acks' = <<>> /\ executed' = <<>> /\ sent' = 0 /\ phase' = "write" /\ routine' \in {"ROM", "COPSCMD"}
      BY <1>6, SenderAssumption DEF Restart, Reset, resetPort
    <2>2. SentSoFar' = <<>>
      BY <2>1, ProgramFacts, SenderAssumption DEF SentSoFar, Written
    <2>3. CarriedOut' = <<>>
      BY <2>1 DEF CarriedOut
    <2>4. <<>> \in Seq(Commands)
      OBVIOUS
    <2> QED
      BY <2>1, <2>2, <2>3, <2>4, SameSame DEF CmdOK, CmdPhases
  <1>7. CASE Handler \/ DriverStart \/ Delivery \/ Timer \/ Post \/ (DrainEnds /\ UNCHANGED <<senderVars, historyVars>>)
    <2>1. UNCHANGED <<routine, sent, phase, acks, executed>>
      BY <1>7 DEF Handler, DriverStart, Delivery, Timer, Post, DrainEnds, ReadPortA, WipeFlag,
                  Deliver, Reassert, PostInput, crdyVars, senderVars, historyVars
    <2>2. Written' = Written
      BY <2>1 DEF Written
    <2> QED
      BY <2>1, <2>2, CmdKept
  <1>8. CASE UNCHANGED vars
    <2>1. UNCHANGED <<routine, sent, phase, acks, executed>>
      BY <1>8 DEF vars, copsVars, senderVars, historyVars
    <2>2. Written' = Written
      BY <2>1 DEF Written
    <2> QED
      BY <2>1, <2>2, CmdKept
  <1> QED
    BY <1>1, <1>2, <1>3, <1>4, <1>5, <1>6, <1>7, <1>8 DEF SystemNext, Sender

(* COPS carries out the commands of both routines in the order sent, for   *)
(* every program, however often COPSCMD repeats a write, whatever number   *)
(* of them waits for its acknowledgement, and through resets: the queue of *)
(* the acknowledgements loses none and leaves none over (COPS.swift).      *)
THEOREM CommandsExecuteInOrderHolds == SystemSpec => []CommandsExecuteInOrder
  <1>1. SenderOK /\ RomOK /\ CmdOK /\ [SystemNext]_vars => (SenderOK /\ RomOK /\ CmdOK)'
    BY SenderStep, RomStep, CmdStep
  <1>2. SenderOK /\ RomOK /\ CmdOK => CommandsExecuteInOrder
    <2> SUFFICES ASSUME SenderOK, RomOK, CmdOK PROVE CommandsExecuteInOrder
      OBVIOUS
    <2>1. CASE routine = "ROM"
      BY <2>1 DEF RomOK, CommandsExecuteInOrder
    <2>2. CASE routine # "ROM"
      <3>1. acks \in Seq(Commands) /\ executed \in Seq(Commands) /\ SameButRepeats(CarriedOut, SentSoFar)
        BY <2>2 DEF CmdOK
      <3>2. CarriedOut \in Seq(Commands)
        BY <3>1 DEF CarriedOut
      <3>3. Merged(CarriedOut) = Merged(SentSoFar)
        BY <3>1, <3>2, SentSoFarFacts, AlignedMerge
      <3> QED
        BY <2>2, <3>3 DEF CommandsExecuteInOrder
    <2> QED
      BY <2>1, <2>2
  <1> QED
    BY SenderInit, RomInit, CmdInit, <1>1, <1>2, PTL DEF SystemSpec


-----------------------------------------------------------------------------
(* The clock. The routine of the ROM carries out the program command by    *)
(* command, so how many it has carried out says what COPS has collected:   *)
(* from $2C on the last nibbles sent, from $25 on the clock they make.     *)
Nibble(n) == Program[n] - NibbleBase

SetFrom(s, e) ==
    /\ s \in DOMAIN Program /\ e \in DOMAIN Program
    /\ Program[s] = PrepSetClock /\ Program[e] = EnableClock
    /\ s + ClockNibbles < e
    /\ \A n \in s + 1 .. e - 1 : IsNibble(Program[n])
    /\ \A n \in DOMAIN Program \ {e} : Program[n] # EnableClock
    /\ \A n \in DOMAIN Program : n > e => Program[n] # PowerOffClockOff

Collected(s, n) == IF n - s <= ClockNibbles THEN n - s ELSE ClockNibbles

ClockAt(s, e, n) ==
    /\ s <= n /\ n < e =>
         /\ setActive = TRUE
         /\ setNibbles \in Seq(Int)
         /\ Len(setNibbles) = Collected(s, n)
         /\ \A i \in 1 .. Len(setNibbles) : setNibbles[i] = Nibble(n - Len(setNibbles) + i)
    /\ e <= n =>
         /\ setClockReply = <<[i \in 1 .. ClockNibbles |-> Nibble(e - ClockNibbles - 1 + i)]>>
         /\ clockRunning = TRUE

ClockOfRom(s, e) == routine = "ROM" => ClockAt(s, e, Len(executed))

\* The last n elements of a queue (the nibbles the set sequence keeps)
LEMMA KeptLast ==
    ASSUME NEW q \in Seq(Int), NEW n \in Nat,
           NEW k \in Nat, Len(q) <= n => k = Len(q), ~(Len(q) <= n) => k = n
    PROVE  /\ KeepLast(q, n) \in Seq(Int) /\ Len(KeepLast(q, n)) = k
           /\ \A i \in 1 .. k : KeepLast(q, n)[i] = q[Len(q) - k + i]
  <1>1. Len(q) \in Nat
    OBVIOUS
  <1>2. CASE Len(q) <= n
    BY <1>1, <1>2 DEF KeepLast
  <1>3. CASE ~(Len(q) <= n)
    <2> DEFINE m == Len(q) - n + 1
               t == SubSeq(q, m, Len(q))
    <2>1. m \in 1 .. Len(q) + 1 /\ KeepLast(q, n) = t /\ Len(q) - m + 1 = n
      BY <1>1, <1>3 DEF KeepLast
    <2>2. \A i \in m .. Len(q) : q[i] \in Int
      BY <1>1, <2>1
    <2>3. t \in Seq(Int) /\ Len(t) = n /\ \A i \in 1 .. n : t[i] = q[m + i - 1]
      <3>0. m \in Nat /\ m >= 1 /\ m <= Len(q) + 1
        BY <1>1, <2>1
      <3> HIDE DEF m
      <3>1. t \in Seq(Int) /\ Len(t) = IF m <= Len(q) THEN Len(q) - m + 1 ELSE 0
        BY <1>1, <2>2, <3>0, SubSeqProperties
      <3>2. Len(t) = n
        BY <1>1, <2>1, <3>0, <3>1
      <3>3. \A i \in 1 .. Len(q) - m + 1 : t[i] = q[m + i - 1]
        BY <1>1, <2>2, <3>0, SubSeqProperties
      <3> QED
        BY <2>1, <3>1, <3>2, <3>3
    <2>4. \A i \in 1 .. n : m + i - 1 = Len(q) - n + i
      BY <1>1
    <2> HIDE DEF t, m
    <2>5. k = n /\ KeepLast(q, n) = t
      BY <1>3, <2>1
    <2>6. \A i \in 1 .. n : t[i] = q[Len(q) - n + i]
      BY <2>3, <2>4, Zenon
    <2> QED
      BY <2>3, <2>5, <2>6, Zenon
  <1> QED
    BY <1>2, <1>3

\* the same after one more element
LEMMA KeptAppended ==
    ASSUME NEW p \in Seq(Int), NEW x \in Int, NEW n \in Nat,
           NEW k \in Nat, Len(p) + 1 <= n => k = Len(p) + 1, ~(Len(p) + 1 <= n) => k = n
    PROVE  /\ KeepLast(Append(p, x), n) \in Seq(Int)
           /\ Len(KeepLast(Append(p, x), n)) = k
           /\ \A i \in 1 .. k : KeepLast(Append(p, x), n)[i] = Append(p, x)[Len(p) + 1 - k + i]
  <1> DEFINE q == Append(p, x)
  <1>1. q \in Seq(Int) /\ Len(q) = Len(p) + 1
    OBVIOUS
  <1> HIDE DEF q
  <1>2. /\ Len(q) <= n => k = Len(q)
        /\ ~(Len(q) <= n) => k = n
    BY <1>1
  <1>3. /\ KeepLast(q, n) \in Seq(Int) /\ Len(KeepLast(q, n)) = k
        /\ \A i \in 1 .. k : KeepLast(q, n)[i] = q[Len(q) - k + i]
    BY <1>1, <1>2, KeptLast
  <1>4. /\ KeepLast(q, n) \in Seq(Int) /\ Len(KeepLast(q, n)) = k
        /\ \A i \in 1 .. k : KeepLast(q, n)[i] = q[Len(p) + 1 - k + i]
    <2>1. ASSUME NEW i \in 1 .. k PROVE KeepLast(q, n)[i] = q[Len(p) + 1 - k + i]
      <3>1. KeepLast(q, n)[i] = q[Len(q) - k + i]
        BY <1>3
      <3>2. Len(q) - k + i = Len(p) + 1 - k + i
        BY <1>1
      <3> QED
        BY <3>1, <3>2
    <2> QED
      BY <1>3, <2>1
  <1> QED
    BY <1>4 DEF q


\* A set sequence has the numbers its places suggest
LEMMA SetFacts ==
    ASSUME NEW s, NEW e, SetFrom(s, e)
    PROVE  /\ s \in Nat /\ e \in Nat /\ 1 <= s /\ s < e /\ ClockNibbles \in Nat /\ ClockNibbles >= 1
           /\ s + ClockNibbles <= e - 1
           /\ \A n \in Nat : s <= n /\ n < e => Collected(s, n) \in 0 .. ClockNibbles
           /\ Collected(s, e - 1) = ClockNibbles
  <1>1. s \in Nat /\ e \in Nat /\ 1 <= s /\ s + ClockNibbles < e
    BY ProgramFacts DEF SetFrom
  <1>2. ClockNibbles \in Nat /\ ClockNibbles >= 1
    BY COPSAssumption DEF ClockNibbles
  <1> QED
    BY <1>1, <1>2 DEF Collected

(* The command about to be carried out is the program's next.              *)
LEMMA NextCommand ==
    ASSUME RomOK, SenderOK, routine = "ROM", acks # <<>>
    PROVE  /\ Len(executed) \in Nat /\ Len(executed) + 1 \in DOMAIN Program
           /\ Head(acks) = Program[Len(executed) + 1]
           /\ Len(Append(executed, Head(acks))) = Len(executed) + 1
  <1>1. acks \in Seq(Commands) /\ executed \in Seq(Commands) /\ executed \o acks = SentSoFar
    BY DEF RomOK, CarriedOut
  <1>2. /\ Len(executed) \in Nat /\ Len(acks) \in Nat /\ Len(acks) >= 1
        /\ Len(executed \o acks) = Len(executed) + Len(acks)
        /\ (executed \o acks)[Len(executed) + 1] = Head(acks)
        /\ Len(Append(executed, Head(acks))) = Len(executed) + 1
    BY <1>1
  <1>3. /\ Len(SentSoFar) = Written /\ Written \in Nat
        /\ \A i \in 1 .. Written : SentSoFar[i] = Program[i]
    BY SentSoFarFacts
  <1>4. Written <= Len(Program)
    BY ProgramFacts DEF SenderOK, Written, Returned
  <1>5. Len(executed) + 1 \in 1 .. Written
    BY <1>1, <1>2, <1>3
  <1>6. Len(executed) + 1 \in DOMAIN Program
    BY <1>3, <1>4, <1>5, ProgramFacts
  <1>7. Head(acks) = SentSoFar[Len(executed) + 1]
    BY <1>1, <1>2
  <1> QED
    BY <1>2, <1>3, <1>5, <1>6, <1>7

\* Between the first and the last command of a set, each nibble is kept (StoreNibble)
LEMMA ClockCollects ==
    ASSUME NEW s, NEW e, SetFrom(s, e), NEW n \in Nat, s <= n, n + 1 < e, ClockAt(s, e, n),
           StoreNibble(Program[n + 1])
    PROVE  ClockAt(s, e, n + 1)'
  <1> DEFINE L == Len(setNibbles)
             x == Nibble(n + 1)
             q == Append(setNibbles, x)
  <1>1. n < e
    BY SetFacts
  <1>2. /\ setActive = TRUE /\ setNibbles \in Seq(Int) /\ L = Collected(s, n)
        /\ \A i \in 1 .. L : setNibbles[i] = Nibble(n - L + i)
    BY <1>1 DEF ClockAt
  <1>3. x \in Int
    <2>1. Program[n + 1] \in 16 .. 31
      BY <1>1, SetFacts DEF SetFrom, IsNibble, NibbleBase
    <2> QED
      BY <2>1 DEF Nibble, NibbleBase
  <1>4. setActive' = TRUE /\ setNibbles' = KeepLast(q, ClockNibbles)
    BY <1>2 DEF StoreNibble, Nibble
  <1>5. /\ L \in Nat /\ q \in Seq(Int) /\ Len(q) = L + 1 /\ q[L + 1] = x
        /\ \A i \in 1 .. L : q[i] = setNibbles[i]
    BY <1>2, <1>3
  <1> HIDE DEF q, x
  <1> DEFINE k == Collected(s, n + 1)
  <1>6. k = IF L + 1 <= ClockNibbles THEN L + 1 ELSE ClockNibbles
    BY <1>1, <1>2, SetFacts DEF Collected
  <1>7. k \in 0 .. ClockNibbles
    BY SetFacts
  <1> HIDE DEF k, L
  <1>8. /\ setNibbles' \in Seq(Int) /\ Len(setNibbles') = k
        /\ \A i \in 1 .. k : setNibbles'[i] = q[L + 1 - k + i]
    <2>1. ClockNibbles \in Nat
      BY SetFacts
    <2>2. k = IF Len(setNibbles) + 1 <= ClockNibbles THEN Len(setNibbles) + 1 ELSE ClockNibbles
      BY <1>6 DEF L
    <2> DEFINE N == ClockNibbles
    <2> HIDE DEF N
    <2>3. /\ N \in Nat /\ k \in Nat
          /\ Len(setNibbles) + 1 <= N => k = Len(setNibbles) + 1
          /\ ~(Len(setNibbles) + 1 <= N) => k = N
      BY <1>7, <2>1, <2>2 DEF N
    <2>4. /\ KeepLast(Append(setNibbles, x), N) \in Seq(Int) /\ Len(KeepLast(Append(setNibbles, x), N)) = k
          /\ \A i \in 1 .. k : KeepLast(Append(setNibbles, x), N)[i]
                                = Append(setNibbles, x)[Len(setNibbles) + 1 - k + i]
      <3>1. setNibbles \in Seq(Int)
        BY <1>2
      <3> QED
        BY ZenonT(60), <1>3, <2>3, <3>1, KeptAppended
    <2> QED
      BY Zenon, <1>4, <2>4 DEF N, q, L
  <1>9. ASSUME NEW i \in 1 .. k PROVE setNibbles'[i] = Nibble(n + 1 - k + i)
    <2>0. ClockNibbles \in Nat
      BY SetFacts
    <2>1. L + 1 - k + i \in 1 .. L + 1 /\ setNibbles'[i] = q[L + 1 - k + i] /\ ClockNibbles \in Nat
      <3>1. k \in Nat /\ k <= L + 1 /\ i \in Nat /\ 1 <= i /\ i <= k
        BY <1>5, <1>6, <1>7, <2>0
      <3>2. L + 1 - k + i \in 1 .. L + 1
        BY <1>5, <3>1
      <3> QED
        BY <1>8, <2>0, <3>2
    <2>2. CASE i = k
      <3>1. L + 1 - k + i = L + 1 /\ n + 1 - k + i = n + 1
        BY <1>5, <1>7, <2>1, <2>2
      <3> QED
        BY <1>5, <2>1, <3>1 DEF x
    <2>3. CASE i # k
      <3>1. L + 1 - k + i \in 1 .. L
        BY <1>5, <1>7, <2>1, <2>3
      <3>2. q[L + 1 - k + i] = Nibble(n - L + (L + 1 - k + i))
        BY <1>2, <1>5, <3>1 DEF L
      <3>3. n - L + (L + 1 - k + i) = n + 1 - k + i
        BY <1>5, <1>7, <2>1
      <3> QED
        BY <2>1, <3>2, <3>3
    <2> QED
      BY <2>2, <2>3
  <1>10. ~(e <= n + 1)
    BY SetFacts
  <1> QED
    BY <1>4, <1>8, <1>9, <1>10 DEF ClockAt, k, Nibble

\* and the last one commits them
LEMMA ClockCommits ==
    ASSUME NEW s, NEW e, SetFrom(s, e), ClockAt(s, e, e - 1), CommitSet
    PROVE  ClockAt(s, e, e)'
  <1>1. s <= e - 1 /\ e - 1 < e /\ e <= e /\ ~(e < e) /\ e - 1 \in Nat
    BY SetFacts
  <1>2. /\ setNibbles \in Seq(Int) /\ Len(setNibbles) = ClockNibbles
        /\ \A i \in 1 .. Len(setNibbles) : setNibbles[i] = Nibble(e - 1 - Len(setNibbles) + i)
    BY <1>1, SetFacts DEF ClockAt
  <1>3. setClockReply' = <<setNibbles>> /\ clockRunning' = TRUE
    BY <1>2 DEF CommitSet
  <1>4. \A i \in 1 .. ClockNibbles : e - 1 - ClockNibbles + i = e - ClockNibbles - 1 + i
    BY SetFacts
  <1>5. setNibbles = [i \in 1 .. ClockNibbles |-> Nibble(e - ClockNibbles - 1 + i)]
    BY <1>2, <1>4
  <1> QED
    BY <1>1, <1>3, <1>5 DEF ClockAt, Nibble

\* So the clock follows the number of commands carried out
LEMMA ClockCarries ==
    ASSUME NEW s, NEW e, SetFrom(s, e), RomOK, SenderOK, routine = "ROM",
           NEW n, n = Len(executed), ClockAt(s, e, n), Carry
    PROVE  Len(executed') = n + 1 /\ ClockAt(s, e, n + 1)'
  <1> DEFINE c == Program[n + 1]
  <1>1. acks # <<>> /\ processCommand(Head(acks)) /\ executed' = Append(executed, Head(acks))
    BY DEF Carry, Acknowledge
  <1>2. n \in Nat /\ n + 1 \in DOMAIN Program /\ c = Head(acks) /\ Len(executed') = n + 1
    BY <1>1, NextCommand
  <1>3. processCommand(c)
    BY <1>1, <1>2
  <1>4. s \in Nat /\ e \in Nat /\ 1 <= s /\ s < e
    BY SetFacts
  <1> HIDE DEF c
  <1> SUFFICES ClockAt(s, e, n + 1)'
    BY <1>2
  <1>6. CASE n + 1 < s
    BY <1>2, <1>4, <1>6 DEF ClockAt
  <1>7. CASE n + 1 = s
    <2>1. c = 44
      BY <1>7 DEF SetFrom, PrepSetClock, c
    <2>2. OpenSet
      BY <1>3, <2>1 DEF processCommand, ReadClock, NibbleBase, PrepSetClock, EnableClock,
         PowerOffClockOff, PowerOffClockOn, PowerOffReboot
    <2>3. setActive' = TRUE /\ setNibbles' = <<>>
      BY <2>2 DEF OpenSet
    <2>4. Collected(s, n + 1) = 0 /\ ~(e <= n + 1)
      BY <1>4, <1>7, SetFacts DEF Collected
    <2>5. <<>> \in Seq(Int) /\ Len(<<>>) = 0
      OBVIOUS
    <2> QED
      BY <2>3, <2>4, <2>5 DEF ClockAt
  <1>8. CASE s <= n /\ n + 1 < e
    <2>1. c \in 16 .. 31
      <3>1. n + 1 \in s + 1 .. e - 1
        BY <1>2, <1>4, <1>8
      <3>2. IsNibble(c)
        BY <3>1 DEF SetFrom, c
      <3> QED
        BY <3>2 DEF IsNibble, NibbleBase
    <2>2. StoreNibble(c)
      <3>1. c \in Int /\ c # 2 /\ c # 37 /\ c # 44 /\ c \notin {32, 33, 35} /\ c \in 16 .. 16 + 15
        BY <2>1
      <3> QED
        BY <1>3, <3>1 DEF processCommand, ReadClock, NibbleBase, PrepSetClock, EnableClock,
         PowerOffClockOff, PowerOffClockOn, PowerOffReboot
    <2> QED
      BY <1>2, <1>8, <2>2, ClockCollects DEF c
  <1>9. CASE n + 1 = e
    <2>1. c = 37
      BY <1>9 DEF SetFrom, EnableClock, c
    <2>2. CommitSet
      BY <1>3, <2>1 DEF processCommand, ReadClock, NibbleBase, PrepSetClock, EnableClock,
         PowerOffClockOff, PowerOffClockOn, PowerOffReboot
    <2>3. n = e - 1
      BY <1>2, <1>4, <1>9
    <2> QED
      BY <1>9, <2>2, <2>3, ClockCommits
  <1>10. CASE e <= n
    <2>1. c # 37 /\ c # 32
      <3>1. n + 1 > e /\ n + 1 # e
        BY <1>2, <1>4, <1>10
      <3> QED
        BY <1>2, <3>1 DEF SetFrom, EnableClock, PowerOffClockOff, c
    <2>2. UNCHANGED <<setClockReply, clockRunning>>
      BY <1>3, <2>1 DEF processCommand, ReadClock, NibbleBase, PrepSetClock, EnableClock,
         PowerOffClockOff, PowerOffClockOn, PowerOffReboot, ReplyClock, StoreNibble, OpenSet,
         CommitSet, PowerOff, clockVars
    <2>3. e <= n + 1 /\ ~(n + 1 < e)
      BY <1>2, <1>4, <1>10
    <2> QED
      BY <1>10, <2>2, <2>3 DEF ClockAt, Nibble
  <1> QED
    BY <1>2, <1>4, <1>6, <1>7, <1>8, <1>9, <1>10


\* A set that has not begun has kept nothing
LEMMA ClockInit ==
    ASSUME NEW s, NEW e, SetFrom(s, e)
    PROVE  SystemInit => ClockOfRom(s, e)
  <1> SUFFICES ASSUME SystemInit PROVE ClockOfRom(s, e)
    OBVIOUS
  <1>1. Len(executed) = 0
    BY DEF SystemInit
  <1>2. ~(s <= 0) /\ ~(e <= 0)
    BY SetFacts
  <1> QED
    BY <1>1, <1>2 DEF ClockOfRom, ClockAt

\* Every step keeps what the clock has, since the ROM has each command carried out once
LEMMA ClockStep ==
    ASSUME NEW s, NEW e, SetFrom(s, e), RomOK, SenderOK, ClockOfRom(s, e), [SystemNext]_vars
    PROVE  ClockOfRom(s, e)'
  <1>1. ASSUME UNCHANGED <<routine, executed, clockVars>> PROVE ClockOfRom(s, e)'
    BY <1>1 DEF ClockOfRom, ClockAt, clockVars, Nibble
  <1>2. CASE Sender
    BY <1>1, <1>2 DEF Sender, Send, PollLow, PollHigh, Timeout, Test, Check, Sent, WriteCommand, ReadPortB,
       clockVars, copsVars, senderVars, historyVars
  <1>3. CASE Handler \/ DriverStart \/ Delivery \/ Timer \/ Post \/ (DrainEnds /\ UNCHANGED <<senderVars, historyVars>>)
    BY <1>1, <1>3 DEF Handler, DriverStart, Delivery, Timer, Post, DrainEnds, ReadPortA, WipeFlag,
       Deliver, Reassert, PostInput, clockVars, senderVars, historyVars
  <1>4. CASE Carry
    <2>1. routine' = routine
      BY <1>4 DEF Carry, senderVars
    <2>2. CASE routine = "ROM"
      <3>1. PICK n : n = Len(executed)
        OBVIOUS
      <3>2. ClockAt(s, e, n)
        BY <2>2, <3>1 DEF ClockOfRom
      <3>3. Len(executed') = n + 1 /\ ClockAt(s, e, n + 1)'
        BY <1>4, <2>2, <3>1, <3>2, ClockCarries
      <3> QED
        BY <3>3 DEF ClockOfRom, ClockAt
    <2>3. CASE routine # "ROM"
      BY <2>1, <2>3 DEF ClockOfRom
    <2> QED
      BY <2>2, <2>3
  <1>5. CASE Restart
    <2>1. Len(executed') = 0
      BY <1>5 DEF Restart
    <2>2. ~(s <= 0) /\ ~(e <= 0)
      BY SetFacts
    <2> QED
      BY <2>1, <2>2 DEF ClockOfRom, ClockAt
  <1>6. CASE UNCHANGED vars
    BY <1>1, <1>6 DEF vars, copsVars, senderVars, historyVars, clockVars
  <1> QED
    BY <1>2, <1>3, <1>4, <1>5, <1>6 DEF SystemNext

(* What the ROM's routine sets is what is read back: for every program     *)
(* that sets the clock once and entirely, whatever fill precedes the       *)
(* nibbles, whatever follows but a $20, and however late the commands are  *)
(* acknowledged (finishSetSequence keeps the last nibbles).                *)
THEOREM PolledSetReadsBackHolds ==
    SetsTheClock => (SystemSpec => []PolledSetReadsBack)
  <1> SUFFICES ASSUME SetsTheClock PROVE SystemSpec => []PolledSetReadsBack
    OBVIOUS
  <1>1. PICK s, e \in DOMAIN Program : SetFrom(s, e)
    BY DEF SetsTheClock, SetFrom
  <1>2. SetEnd = e
    BY <1>1 DEF SetEnd, SetFrom
  <1>3. SenderOK /\ RomOK /\ ClockOfRom(s, e) /\ [SystemNext]_vars => (SenderOK /\ RomOK /\ ClockOfRom(s, e))'
    BY <1>1, SenderStep, RomStep, ClockStep
  <1>4. SenderOK /\ RomOK /\ ClockOfRom(s, e) => PolledSetReadsBack
    <2> SUFFICES ASSUME SenderOK, RomOK, ClockOfRom(s, e), routine = "ROM",
                        EnableClock \in ToSet(executed)
                 PROVE  ClockShown = {IntendedClock}
      BY DEF PolledSetReadsBack, SetClockReadsBack
    <2>1. PICK i \in DOMAIN executed : executed[i] = EnableClock
      BY DEF ToSet
    <2>2. acks \in Seq(Commands) /\ executed \in Seq(Commands) /\ executed \o acks = SentSoFar
      BY DEF RomOK, CarriedOut
    <2>3. /\ i \in 1 .. Len(executed) /\ Len(executed) \in Nat /\ Len(executed) <= Len(SentSoFar)
          /\ SentSoFar[i] = executed[i]
      BY <2>1, <2>2
    <2>4. i \in 1 .. Written /\ Written <= Len(Program) /\ SentSoFar[i] = Program[i]
      BY <2>3, SentSoFarFacts, ProgramFacts DEF SenderOK, Written, Returned
    <2>5. i = e
      <3>1. Written \in Nat
        BY SentSoFarFacts
      <3>2. i \in DOMAIN Program
        BY <2>4, <3>1, ProgramFacts
      <3>3. Program[i] = EnableClock
        BY <2>1, <2>3, <2>4
      <3> QED
        BY <1>1, <3>2, <3>3 DEF SetFrom
    <2>6. ClockAt(s, e, Len(executed)) /\ e <= Len(executed)
      BY <2>3, <2>5 DEF ClockOfRom
    <2>7. setClockReply = <<IntendedClock>> /\ clockRunning = TRUE
      BY <1>2, <2>6 DEF ClockAt, IntendedClock, Nibble
    <2> QED
      BY <2>7 DEF ClockShown
  <1> QED
    BY <1>1, <1>3, <1>4, SenderInit, RomInit, ClockInit, PTL DEF SystemSpec
===============================================================================
