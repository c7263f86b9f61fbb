----------------------------- MODULE MachineProofs -----------------------------
(***************************************************************************)
(* The run loop, for every quantum, delay, divisor and cost of an          *)
(* instruction: how late an interrupt and a frame can be, what a power-off *)
(* stops, in which order the commands of COPS are carried out, and that    *)
(* the timers of the VIAs lose no cycle.                                   *)
(***************************************************************************)
EXTENDS Machine, WellFoundedInduction, SequenceTheorems, TLAPS

-----------------------------------------------------------------------------
(* Induction over the naturals, as a fact about sets: the provers cannot   *)
(* instantiate a theorem that takes a predicate as a parameter, and can    *)
(* one that takes the set of the numbers the predicate holds of.           *)
LEMMA LessIsWellFounded ==
    \E R : /\ IsWellFoundedOn(R, Nat)
           /\ \A a, b \in Nat : a < b => <<a, b>> \in R
  <1>1. \A a, b \in Nat : a < b => <<a, b>> \in OpToRel(<, Nat)
    BY DEF OpToRel
  <1> QED
    BY <1>1, NatLessThanWellFounded

\* A set of numbers that is not empty has a least one
LEMMA LeastNumber ==
    ASSUME NEW T, T \subseteq Nat, T # {}
    PROVE  \E x \in T : \A y \in T : x <= y
  <1>1. PICK R : /\ IsWellFoundedOn(R, Nat)
                 /\ \A a, b \in Nat : a < b => <<a, b>> \in R
    BY LessIsWellFounded
  <1>2. IsWellFoundedOn(R, Nat)
    BY <1>1
  <1>3. PICK x \in T : \A y \in T : ~(<<y, x>> \in R)
    BY ONLY <1>2, T \subseteq Nat, T # {}, WFMin
  <1>4. \A y \in T : ~(y < x)
    BY <1>1, <1>3
  <1>5. \A y \in T : x \in Nat /\ y \in Nat
    OBVIOUS
  <1> QED
    BY <1>4, <1>5

\* Induction over the naturals, as a fact about a set
LEMMA Induction ==
    ASSUME NEW S, 0 \in S, \A n \in Nat : n \in S => n + 1 \in S
    PROVE  Nat \subseteq S
  <1> SUFFICES ASSUME Nat \ S # {} PROVE FALSE
    OBVIOUS
  <1>1. PICK m \in Nat \ S : \A y \in Nat \ S : m <= y
    BY LeastNumber
  <1>2. m # 0 /\ m - 1 \in Nat /\ ~(m <= m - 1) /\ (m - 1) + 1 = m
    BY <1>1
  <1> QED
    BY <1>1, <1>2

-----------------------------------------------------------------------------

(* The event queue. An event goes to one place, which keeps the queue in   *)
(* the order of its times and moves the later events by one.               *)
Events == [due : Int, kind : {"frame", "ack", "byte"}, command : Commands \cup {NoCommand}]

InOrder(q) == \A i, j \in DOMAIN q : i < j => q[i].due <= q[j].due

\* The place an event is inserted at (firstIndex in schedule)
LEMMA FirstIndex ==
    ASSUME NEW q \in Seq(Events), NEW due \in Int
    PROVE  /\ firstIndex(q, due) \in 1 .. Len(q) + 1
           /\ goesBefore(q, due, firstIndex(q, due))
  <1> DEFINE Later == {i \in 1 .. Len(q) + 1 : i <= Len(q) => q[i].due > due}
  <1>1. Len(q) \in Nat /\ \A i \in 1 .. Len(q) : q[i].due \in Int
    <2>1. \A i \in 1 .. Len(q) : q[i] \in Events
      BY ElementOfSeq
    <2> QED BY <2>1 DEF Events
  <1>2. Len(q) + 1 \in Later /\ Later \subseteq Nat
    BY <1>1
  <1>3. PICK p \in Later : \A y \in Later : p <= y
    <2> HIDE DEF Later
    <2> QED BY <1>2, LeastNumber
  <1>4. ASSUME NEW j \in 1 .. p - 1 PROVE q[j].due <= due
    <2>1. j \notin Later /\ j \in 1 .. Len(q)
      BY <1>1, <1>3
    <2> QED
      BY <1>1, <2>1
  <1>5. \E i \in 1 .. Len(q) + 1 : goesBefore(q, due, i)
    BY <1>3, <1>4 DEF goesBefore
  <1> QED
    BY <1>5 DEF firstIndex

\* Inserting moves the events behind the place by one
LEMMA Scheduling ==
    ASSUME NEW q \in Seq(Events), NEW e \in Events
    PROVE  \E p \in 1 .. Len(q) + 1 :
               /\ goesBefore(q, e.due, p)
               /\ scheduled(q, e) \in Seq(Events)
               /\ Len(scheduled(q, e)) = Len(q) + 1
               /\ \A j \in 1 .. Len(q) + 1 :
                      scheduled(q, e)[j] = IF j < p THEN q[j] ELSE IF j = p THEN e ELSE q[j - 1]
  <1> DEFINE p == firstIndex(q, e.due)
             before == SubSeq(q, 1, p - 1)
             after == SubSeq(q, p, Len(q))
  <1>1. e.due \in Int /\ p \in 1 .. Len(q) + 1 /\ goesBefore(q, e.due, p)
    BY FirstIndex DEF Events
  <1>2. p \in 1 .. Len(q) + 1 /\ Len(q) \in Nat
    BY <1>1
  <1> HIDE DEF p
  <1>3. /\ before \in Seq(Events) /\ Len(before) = p - 1
        /\ \A j \in 1 .. p - 1 : before[j] = q[j]
    BY <1>2, SubSeqProperties
  <1>4. /\ after \in Seq(Events) /\ Len(after) = Len(q) + 1 - p
        /\ \A j \in 1 .. Len(q) + 1 - p : after[j] = q[p + j - 1]
    BY <1>2, SubSeqProperties
  <1>5. scheduled(q, e) = before \o <<e>> \o after
    BY DEF scheduled, InsertAt, p
  <1> HIDE DEF before, after
  <1>6. /\ before \o <<e>> \in Seq(Events) /\ Len(before \o <<e>>) = p
        /\ \A j \in 1 .. p : (before \o <<e>>)[j] = IF j < p THEN q[j] ELSE e
    BY <1>2, <1>3
  <1>7. /\ scheduled(q, e) \in Seq(Events) /\ Len(scheduled(q, e)) = Len(q) + 1
        /\ \A j \in 1 .. Len(q) + 1 :
              scheduled(q, e)[j] = IF j <= p THEN (before \o <<e>>)[j] ELSE after[j - p]
    <2> DEFINE front == before \o <<e>>
    <2>1. scheduled(q, e) = front \o after
      BY <1>5
    <2>2. front \in Seq(Events) /\ Len(front) = p
      BY <1>6
    <2> HIDE DEF front
    <2>3. /\ front \o after \in Seq(Events) /\ Len(front \o after) = Len(q) + 1
          /\ \A j \in 1 .. Len(q) + 1 :
                (front \o after)[j] = IF j <= p THEN front[j] ELSE after[j - p]
      <3>1. Len(q) + 1 = Len(front) + Len(after)
        BY <1>2, <1>4, <2>2
      <3> QED
        BY <1>4, <2>2, <3>1, ConcatProperties
    <2> QED
      BY <2>1, <2>3 DEF front
  <1>8. \A j \in 1 .. Len(q) + 1 :
           scheduled(q, e)[j] = IF j < p THEN q[j] ELSE IF j = p THEN e ELSE q[j - 1]
    <2> TAKE j \in 1 .. Len(q) + 1
    <2>1. CASE j <= p
      BY <1>2, <1>6, <1>7, <2>1
    <2>2. CASE j > p
      <3>1. j - p \in 1 .. Len(q) + 1 - p /\ p + (j - p) - 1 = j - 1
        BY <1>2, <2>2
      <3> QED
        BY <1>2, <1>4, <1>7, <2>2, <3>1
    <2> QED
      BY <1>2, <2>1, <2>2
  <1> QED
    BY <1>1, <1>2, <1>7, <1>8

-----------------------------------------------------------------------------
(* What the properties say of a queue, and what an event does to it.       *)
OneFrame(q)     == \E i \in DOMAIN q : Positions(q, "frame") = {i}
DueFrom(q, d)   == \A i \in DOMAIN q : q[i].due >= d
FrameFrom(q, d) == \A i \in Positions(q, "frame") : q[i].due >= d
AcksBy(q, d)    == \A i \in Positions(q, "ack") : q[i].due <= d

\* A queue holds events with a time
LEMMA EventsOfQueue ==
    ASSUME NEW q \in Seq(Events)
    PROVE  /\ Len(q) \in Nat /\ DOMAIN q = 1 .. Len(q)
           /\ \A i \in DOMAIN q : q[i] \in Events /\ q[i].due \in Int
  <1>1. \A i \in 1 .. Len(q) : q[i] \in Events
    BY ElementOfSeq
  <1> QED
    BY <1>1 DEF Events

\* Inserting keeps the order, the bound on the times and the single frame
LEMMA SchedulingKeeps ==
    ASSUME NEW q \in Seq(Events), NEW e \in Events, InOrder(q)
    PROVE  /\ InOrder(scheduled(q, e))
           /\ \A d \in Int : DueFrom(q, d) /\ e.due >= d => DueFrom(scheduled(q, e), d)
           /\ e.kind # "frame" /\ OneFrame(q) => OneFrame(scheduled(q, e))
           /\ e.kind = "frame" /\ Positions(q, "frame") = {} => OneFrame(scheduled(q, e))
           /\ \A d \in Int : FrameFrom(q, d) /\ (e.kind = "frame" => e.due >= d)
                             => FrameFrom(scheduled(q, e), d)
           /\ \A d \in Int : AcksBy(q, d) /\ (e.kind = "ack" => e.due <= d)
                             => AcksBy(scheduled(q, e), d)
  <1> DEFINE s == scheduled(q, e)
  <1>1. PICK p \in 1 .. Len(q) + 1 :
            /\ goesBefore(q, e.due, p)
            /\ s \in Seq(Events) /\ Len(s) = Len(q) + 1
            /\ \A j \in 1 .. Len(q) + 1 :
                   s[j] = IF j < p THEN q[j] ELSE IF j = p THEN e ELSE q[j - 1]
    BY Scheduling
  <1> HIDE DEF s
  <1>2. /\ Len(q) \in Nat /\ DOMAIN q = 1 .. Len(q) /\ DOMAIN s = 1 .. Len(q) + 1
        /\ \A i \in 1 .. Len(q) : q[i].due \in Int
        /\ e.due \in Int
    BY <1>1, EventsOfQueue DEF Events
  <1>3. \A j \in DOMAIN s : j # p => \E k \in DOMAIN q : s[j] = q[k] /\ (k = j \/ k = j - 1)
    <2> SUFFICES ASSUME NEW j \in DOMAIN s, j # p
                 PROVE  \E k \in DOMAIN q : s[j] = q[k] /\ (k = j \/ k = j - 1)
      OBVIOUS
    <2>1. CASE j < p
      BY <1>1, <1>2, <2>1
    <2>2. CASE j > p
      <3>1. j - 1 \in DOMAIN q /\ s[j] = q[j - 1]
        BY <1>1, <1>2, <2>2
      <3> QED
        BY <3>1
    <2> QED
      BY <1>2, <2>1, <2>2
  <1>4. s[p] = e
    BY <1>1, <1>2
  <1>5. InOrder(s)
    <2> SUFFICES ASSUME NEW i \in DOMAIN s, NEW j \in DOMAIN s, i < j
                 PROVE  s[i].due <= s[j].due
      BY DEF InOrder
    <2>1. CASE j < p
      BY <1>1, <1>2, <2>1 DEF InOrder
    <2>2. CASE j = p
      BY <1>1, <1>2, <2>2 DEF goesBefore
    <2>3. CASE i = p
      <3>1. s[j] = q[j - 1] /\ j - 1 >= p /\ j - 1 \in 1 .. Len(q) /\ p \in 1 .. Len(q)
        BY <1>1, <1>2, <2>3
      <3>2. q[p].due <= q[j - 1].due
        BY SMTT(30), <1>2, <3>1 DEF InOrder
      <3> QED
        BY <1>1, <1>2, <1>4, <2>3, <3>1, <3>2 DEF goesBefore
    <2>4. CASE i # p /\ j > p
      <3>1. s[j] = q[j - 1] /\ j - 1 \in 1 .. Len(q)
        BY <1>1, <1>2, <2>4
      <3>2. PICK k \in 1 .. Len(q) : s[i] = q[k] /\ k <= j - 1
        <4>1. PICK k \in DOMAIN q : s[i] = q[k] /\ (k = i \/ k = i - 1)
          BY <1>3, <2>4
        <4> QED
          BY <1>1, <1>2, <2>4, <4>1
      <3>3. k < j - 1 => q[k].due <= q[j - 1].due
        BY <1>2, <3>1 DEF InOrder
      <3> QED
        BY <1>2, <3>1, <3>2, <3>3
    <2> QED
      BY <1>2, <2>1, <2>2, <2>3, <2>4
  <1>6. \A d \in Int : DueFrom(q, d) /\ e.due >= d => DueFrom(s, d)
    BY <1>3, <1>4 DEF DueFrom
  <1>7. ASSUME e.kind # "frame", OneFrame(q) PROVE OneFrame(s)
    <2>1. PICK i \in DOMAIN q : Positions(q, "frame") = {i}
      BY <1>7 DEF OneFrame
    <2> DEFINE m == IF i < p THEN i ELSE i + 1
    <2>2. m \in DOMAIN s /\ s[m] = q[i] /\ q[i].kind = "frame"
      BY <1>1, <1>2, <2>1 DEF Positions
    <2>3. ASSUME NEW j \in DOMAIN s, s[j].kind = "frame" PROVE j = m
      <3>1. j # p
        BY <1>4, <1>7, <2>3
      <3>2. CASE j < p
        <4>1. j \in Positions(q, "frame")
          BY <1>1, <1>2, <2>3, <3>2 DEF Positions
        <4> QED
          BY <2>1, <3>2, <4>1
      <3>3. CASE j > p
        <4>1. j - 1 \in Positions(q, "frame")
          BY <1>1, <1>2, <2>3, <3>3 DEF Positions
        <4> QED
          BY <1>2, <2>1, <3>3, <4>1
      <3> QED
        BY <1>2, <3>1, <3>2, <3>3
    <2> QED
      BY <2>2, <2>3 DEF OneFrame, Positions
  <1>8. ASSUME e.kind = "frame", Positions(q, "frame") = {} PROVE OneFrame(s)
    <2>1. p \in DOMAIN s
      BY <1>1, <1>2
    <2>2. Positions(s, "frame") = {p}
      BY <1>3, <1>4, <1>8, <2>1 DEF Positions
    <2> QED
      BY <2>1, <2>2 DEF OneFrame
  <1>9. \A d \in Int : FrameFrom(q, d) /\ (e.kind = "frame" => e.due >= d) => FrameFrom(s, d)
    BY <1>3, <1>4 DEF FrameFrom, Positions
  <1>10. \A d \in Int : AcksBy(q, d) /\ (e.kind = "ack" => e.due <= d) => AcksBy(s, d)
    BY <1>3, <1>4 DEF AcksBy, Positions
  <1> QED
    BY <1>5, <1>6, <1>7, <1>8, <1>9, <1>10 DEF s

(* The acknowledgements keep their order when another event comes in, and  *)
(* a new one goes behind them all.                                         *)
LEMMA SchedulingKeepsAcks ==
    ASSUME NEW q \in Seq(Events), NEW e \in Events, InOrder(q),
           NEW w \in Seq(Commands), AcksInOrder(q, w)
    PROVE  /\ e.kind # "ack" => AcksInOrder(scheduled(q, e), w)
           /\ e.kind = "ack" /\ AcksBy(q, e.due) /\ e.command \in Commands
                => AcksInOrder(scheduled(q, e), Append(w, e.command))
  <1> DEFINE s == scheduled(q, e)
             acks == Positions(q, "ack")
  <1>1. PICK p \in 1 .. Len(q) + 1 :
            /\ goesBefore(q, e.due, p)
            /\ s \in Seq(Events) /\ Len(s) = Len(q) + 1
            /\ \A j \in 1 .. Len(q) + 1 :
                   s[j] = IF j < p THEN q[j] ELSE IF j = p THEN e ELSE q[j - 1]
    BY Scheduling
  <1> HIDE DEF s
  <1>2. /\ Len(q) \in Nat /\ DOMAIN q = 1 .. Len(q) /\ DOMAIN s = 1 .. Len(q) + 1
        /\ \A i \in 1 .. Len(q) : q[i].due \in Int
        /\ e.due \in Int
    BY <1>1, EventsOfQueue DEF Events
  <1>3. Len(w) \in Nat /\ DOMAIN w = 1 .. Len(w)
    OBVIOUS
  <1>4. PICK at \in [DOMAIN w -> acks] :
            /\ \A i \in DOMAIN w : q[at[i]].command = w[i]
            /\ \A i, j \in DOMAIN w : i < j => at[i] < at[j]
            /\ acks = {at[i] : i \in DOMAIN w}
    BY DEF AcksInOrder
  <1>5. \A i \in DOMAIN w : at[i] \in acks /\ at[i] \in 1 .. Len(q) /\ q[at[i]].kind = "ack"
    BY <1>2, <1>4 DEF Positions
  <1> DEFINE moved(k) == IF k < p THEN k ELSE k + 1
  <1>6. \A k \in DOMAIN q : moved(k) \in DOMAIN s /\ s[moved(k)] = q[k] /\ moved(k) # p
    BY <1>1, <1>2
  <1>7. \A j \in DOMAIN s : j # p => \E k \in DOMAIN q : j = moved(k)
    <2> SUFFICES ASSUME NEW j \in DOMAIN s, j # p
                 PROVE  \E k \in DOMAIN q : j = moved(k)
      OBVIOUS
    <2>1. CASE j < p
      <3>1. j \in DOMAIN q /\ j = moved(j)
        BY <1>2, <2>1
      <3> QED
        BY <3>1
    <2>2. CASE j > p
      <3>1. j - 1 \in DOMAIN q /\ j = moved(j - 1)
        BY <1>2, <2>2
      <3> QED
        BY <3>1
    <2> QED
      BY <1>2, <2>1, <2>2
  <1>8. \A k, m \in DOMAIN q : k < m => moved(k) < moved(m)
    BY <1>2
  <1>9. s[p] = e /\ p \in DOMAIN s
    BY <1>1, <1>2
  <1> HIDE DEF moved
  <1>10. ASSUME e.kind # "ack" PROVE AcksInOrder(s, w)
    <2> DEFINE now == [i \in DOMAIN w |-> moved(at[i])]
    <2>1. Positions(s, "ack") = {moved(k) : k \in acks}
      BY <1>6, <1>7, <1>9, <1>10 DEF Positions
    <2>2. now \in [DOMAIN w -> Positions(s, "ack")]
      BY <1>5, <2>1
    <2>3. \A i \in DOMAIN w : s[now[i]].command = w[i]
      BY <1>2, <1>4, <1>5, <1>6
    <2>4. \A i, j \in DOMAIN w : i < j => now[i] < now[j]
      BY <1>2, <1>4, <1>5, <1>8
    <2>5. Positions(s, "ack") = {now[i] : i \in DOMAIN w}
      BY <1>4, <2>1
    <2> QED
      BY <2>2, <2>3, <2>4, <2>5 DEF AcksInOrder
  <1>11. ASSUME e.kind = "ack", AcksBy(q, e.due), e.command \in Commands
         PROVE  AcksInOrder(s, Append(w, e.command))
    <2> DEFINE v == Append(w, e.command)
               n == Len(w) + 1
               now == [i \in DOMAIN v |-> IF i = n THEN p ELSE at[i]]
    <2>1. DOMAIN v = 1 .. n /\ v[n] = e.command /\ \A i \in 1 .. Len(w) : v[i] = w[i]
      BY <1>3
    <2>2. \A k \in acks : k < p /\ moved(k) = k
      <3> SUFFICES ASSUME NEW k \in acks, k >= p PROVE FALSE
        BY <1>2 DEF Positions, moved
      <3>1. k \in 1 .. Len(q) /\ p \in 1 .. Len(q) /\ q[k].due <= e.due
        BY <1>2, <1>11 DEF Positions, AcksBy
      <3>2. q[p].due > e.due
        BY <1>1, <1>2, <3>1 DEF goesBefore
      <3>3. p < k => q[p].due <= q[k].due
        BY <1>2, <3>1 DEF InOrder
      <3> QED
        BY <1>2, <3>1, <3>2, <3>3
    <2>3. Positions(s, "ack") = acks \cup {p}
      <3>1. Positions(s, "ack") = {moved(k) : k \in acks} \cup {p}
        BY <1>6, <1>7, <1>9, <1>11 DEF Positions
      <3>2. {moved(k) : k \in acks} = acks
        BY <2>2
      <3> QED
        BY <3>1, <3>2
    <2>4. \A i \in DOMAIN v : i = n \/ i \in DOMAIN w
      BY <1>3, <2>1
    <2>5. now \in [DOMAIN v -> Positions(s, "ack")]
      BY <1>5, <2>3, <2>4
    <2>6. \A i \in DOMAIN w : s[at[i]] = q[at[i]]
      BY <1>5, <1>6, <2>2 DEF Positions
    <2>7. n \notin DOMAIN w /\ n \in DOMAIN v /\ DOMAIN w \subseteq DOMAIN v
      BY <1>3, <2>1
    <2>8. \A i \in DOMAIN v : s[now[i]].command = v[i]
      BY <1>3, <1>4, <1>9, <2>1, <2>4, <2>6, <2>7
    <2>9. \A i, j \in DOMAIN v : i < j => now[i] < now[j]
      <3> SUFFICES ASSUME NEW i \in DOMAIN v, NEW j \in DOMAIN v, i < j
                   PROVE  now[i] < now[j]
        OBVIOUS
      <3>1. i \in DOMAIN w
        BY <1>3, <2>1
      <3> QED
        BY <1>4, <1>5, <2>2, <2>4, <2>7, <3>1
    <2>10. Positions(s, "ack") = {now[i] : i \in DOMAIN v}
      <3>1. \A i \in DOMAIN w : now[i] = at[i]
        BY <2>7
      <3>2. now[n] = p
        BY <2>7
      <3> HIDE DEF now
      <3>3. {now[i] : i \in DOMAIN v} = {at[i] : i \in DOMAIN w} \cup {p}
        BY <2>4, <2>7, <3>1, <3>2
      <3> QED
        BY <1>4, <2>3, <3>3
    <2> QED
      BY <2>5, <2>8, <2>9, <2>10 DEF AcksInOrder
  <1> QED
    BY <1>10, <1>11 DEF s

(* The first event is taken off the queue.                                 *)
LEMMA TakingOff ==
    ASSUME NEW q \in Seq(Events), q # <<>>, InOrder(q)
    PROVE  /\ Tail(q) \in Seq(Events) /\ InOrder(Tail(q))
           /\ q[1] \in Events
           /\ q[1].kind # "frame" /\ OneFrame(q) => OneFrame(Tail(q))
           /\ q[1].kind = "frame" /\ OneFrame(q) => Positions(Tail(q), "frame") = {}
           /\ \A d \in Int : FrameFrom(q, d) => FrameFrom(Tail(q), d)
           /\ \A d \in Int : AcksBy(q, d) => AcksBy(Tail(q), d)
  <1> DEFINE t == Tail(q)
  <1>1. /\ t \in Seq(Events) /\ Len(t) = Len(q) - 1
        /\ \A i \in 1 .. Len(t) : t[i] = q[i + 1]
    BY HeadTailProperties
  <1> HIDE DEF t
  <1>2. /\ Len(q) \in Nat \ {0} /\ DOMAIN q = 1 .. Len(q) /\ DOMAIN t = 1 .. Len(q) - 1
        /\ \A i \in 1 .. Len(q) : q[i] \in Events /\ q[i].due \in Int
    BY <1>1, EmptySeq, EventsOfQueue
  <1>3. \A i \in DOMAIN t : i + 1 \in DOMAIN q /\ t[i] = q[i + 1]
    BY <1>1, <1>2
  <1>4. \A i \in DOMAIN q : i # 1 => i - 1 \in DOMAIN t /\ t[i - 1] = q[i] /\ i = (i - 1) + 1
    BY <1>2, <1>3
  <1>5. InOrder(t)
    <2> SUFFICES ASSUME NEW i \in DOMAIN t, NEW j \in DOMAIN t, i < j
                 PROVE  t[i].due <= t[j].due
      BY DEF InOrder
    <2>1. i + 1 \in DOMAIN q /\ j + 1 \in DOMAIN q /\ i + 1 < j + 1
      BY <1>2, <1>3
    <2>2. q[i + 1].due <= q[j + 1].due
      BY <2>1 DEF InOrder
    <2> QED
      BY <1>3, <2>2
  <1>6. ASSUME q[1].kind # "frame", OneFrame(q) PROVE OneFrame(t)
    <2>1. PICK i \in DOMAIN q : Positions(q, "frame") = {i}
      BY <1>6 DEF OneFrame
    <2>2. i - 1 \in DOMAIN t /\ t[i - 1].kind = "frame"
      BY <1>4, <1>6, <2>1 DEF Positions
    <2>3. ASSUME NEW j \in DOMAIN t, t[j].kind = "frame" PROVE j = i - 1
      <3>1. j + 1 \in Positions(q, "frame")
        BY <1>3, <2>3 DEF Positions
      <3> QED
        BY <1>2, <2>1, <3>1
    <2> QED
      BY <2>2, <2>3 DEF OneFrame, Positions
  <1>7. ASSUME q[1].kind = "frame", OneFrame(q) PROVE Positions(t, "frame") = {}
    <2>1. Positions(q, "frame") = {1}
      BY <1>2, <1>7 DEF OneFrame, Positions
    <2> SUFFICES ASSUME NEW j \in DOMAIN t, t[j].kind = "frame" PROVE FALSE
      BY DEF Positions
    <2>2. j + 1 \in Positions(q, "frame")
      BY <1>3 DEF Positions
    <2> QED
      BY <1>2, <2>1, <2>2
  <1>8. \A d \in Int : FrameFrom(q, d) => FrameFrom(t, d)
    BY <1>3 DEF FrameFrom, Positions
  <1>9. \A d \in Int : AcksBy(q, d) => AcksBy(t, d)
    BY <1>3 DEF AcksBy, Positions
  <1> QED
    BY <1>1, <1>2, <1>5, <1>6, <1>7, <1>8, <1>9 DEF t

\* Taking the first event off keeps the acknowledgements in the order of their writes
LEMMA TakingOffAcks ==
    ASSUME NEW q \in Seq(Events), q # <<>>, NEW w \in Seq(Commands), AcksInOrder(q, w)
    PROVE  /\ q[1].kind # "ack" => AcksInOrder(Tail(q), w)
           /\ q[1].kind = "ack" => /\ w # <<>> /\ q[1].command = w[1]
                                   /\ AcksInOrder(Tail(q), Tail(w))
  <1> DEFINE t == Tail(q)
             acks == Positions(q, "ack")
  <1>1. /\ t \in Seq(Events) /\ Len(t) = Len(q) - 1
        /\ \A i \in 1 .. Len(t) : t[i] = q[i + 1]
    BY HeadTailProperties
  <1> HIDE DEF t
  <1>2. /\ Len(q) \in Nat \ {0} /\ DOMAIN q = 1 .. Len(q) /\ DOMAIN t = 1 .. Len(q) - 1
        /\ Len(w) \in Nat /\ DOMAIN w = 1 .. Len(w)
    BY <1>1, EmptySeq, EventsOfQueue
  <1>3. PICK at \in [DOMAIN w -> acks] :
            /\ \A i \in DOMAIN w : q[at[i]].command = w[i]
            /\ \A i, j \in DOMAIN w : i < j => at[i] < at[j]
            /\ acks = {at[i] : i \in DOMAIN w}
    BY DEF AcksInOrder
  <1>4. \A i \in DOMAIN w : at[i] \in acks /\ at[i] \in 1 .. Len(q)
    BY <1>2, <1>3 DEF Positions
  <1>5. Positions(t, "ack") = {k - 1 : k \in acks \ {1}}
    <2>1. ASSUME NEW j \in Positions(t, "ack") PROVE j \in {k - 1 : k \in acks \ {1}}
      <3>1. j \in Int /\ j + 1 \in acks \ {1} /\ j = (j + 1) - 1
        BY <1>1, <1>2 DEF Positions
      <3> QED
        BY <3>1
    <2>2. ASSUME NEW k \in acks \ {1} PROVE k - 1 \in Positions(t, "ack")
      <3>1. k - 1 \in DOMAIN t /\ t[k - 1] = q[(k - 1) + 1] /\ (k - 1) + 1 = k
        BY <1>1, <1>2 DEF Positions
      <3> QED
        BY <3>1 DEF Positions
    <2> QED
      BY <2>1, <2>2
  <1>6. \A k \in acks \ {1} : t[k - 1] = q[k]
    BY <1>1, <1>2 DEF Positions
  <1>7. ASSUME q[1].kind # "ack" PROVE AcksInOrder(t, w)
    <2> DEFINE now == [i \in DOMAIN w |-> at[i] - 1]
    <2>1. acks \ {1} = acks
      BY <1>7 DEF Positions
    <2>2. now \in [DOMAIN w -> Positions(t, "ack")]
      BY <1>4, <1>5, <2>1
    <2>3. \A i \in DOMAIN w : t[now[i]].command = w[i]
      BY <1>3, <1>4, <1>6, <2>1
    <2>4. \A i, j \in DOMAIN w : i < j => now[i] < now[j]
      BY <1>3, <1>4
    <2>5. Positions(t, "ack") = {now[i] : i \in DOMAIN w}
      BY <1>3, <1>5, <2>1
    <2> QED
      BY <2>2, <2>3, <2>4, <2>5 DEF AcksInOrder
  <1>8. ASSUME q[1].kind = "ack"
        PROVE  w # <<>> /\ q[1].command = w[1] /\ AcksInOrder(t, Tail(w))
    <2> DEFINE v == Tail(w)
               now == [i \in DOMAIN v |-> at[i + 1] - 1]
    <2>1. PICK i \in DOMAIN w : at[i] = 1
      BY <1>2, <1>3, <1>8 DEF Positions
    <2>2. i = 1 /\ 1 \in DOMAIN w /\ w # <<>>
      BY <1>2, <1>3, <1>4, <2>1
    <2>3. v \in Seq(Commands) /\ Len(v) = Len(w) - 1 /\ \A j \in 1 .. Len(v) : v[j] = w[j + 1]
      BY <2>2, HeadTailProperties
    <2>4. /\ DOMAIN v = 1 .. Len(w) - 1
          /\ \A j \in DOMAIN v : v[j] = w[j + 1] /\ j + 1 \in DOMAIN w /\ 1 < j + 1
      BY <1>2, <2>3
    <2> HIDE DEF v
    <2>5. \A j \in DOMAIN v : at[j + 1] \in acks \ {1}
      BY <1>2, <1>3, <1>4, <2>1, <2>2, <2>4
    <2>6. now \in [DOMAIN v -> Positions(t, "ack")]
      BY <1>5, <2>5
    <2>7. \A j \in DOMAIN v : t[now[j]].command = v[j]
      BY <1>3, <1>6, <2>4, <2>5
    <2>8. \A j, m \in DOMAIN v : j < m => now[j] < now[m]
      <3> SUFFICES ASSUME NEW j \in DOMAIN v, NEW m \in DOMAIN v, j < m
                   PROVE  now[j] < now[m]
        OBVIOUS
      <3>1. j + 1 \in DOMAIN w /\ m + 1 \in DOMAIN w /\ j + 1 < m + 1
        BY <2>4
      <3>2. at[j + 1] < at[m + 1] /\ at[j + 1] \in Int /\ at[m + 1] \in Int
        BY <1>3, <1>4, <3>1
      <3> QED
        BY <3>2
    <2>9. Positions(t, "ack") = {now[j] : j \in DOMAIN v}
      <3>1. ASSUME NEW k \in acks \ {1} PROVE \E j \in DOMAIN v : k - 1 = now[j]
        <4>1. PICK m \in DOMAIN w : at[m] = k
          BY <1>3
        <4>2. m - 1 \in DOMAIN v /\ (m - 1) + 1 = m
          BY <1>2, <2>1, <2>2, <2>4, <4>1
        <4> QED
          BY <4>1, <4>2
      <3>2. \A j \in DOMAIN v : now[j] \in Positions(t, "ack")
        BY <2>6
      <3> HIDE DEF now
      <3> QED
        BY <1>5, <3>1, <3>2
    <2> QED
      BY <1>3, <2>1, <2>2, <2>6, <2>7, <2>8, <2>9 DEF v, AcksInOrder
  <1> QED
    BY <1>7, <1>8 DEF t

(* Time passes for every event alike.                                      *)
LEMMA Passing ==
    ASSUME NEW q \in Seq(Events), NEW n \in Nat
    PROVE  /\ Elapsed(q, n) \in Seq(Events)
           /\ InOrder(q) => InOrder(Elapsed(q, n))
           /\ OneFrame(q) => OneFrame(Elapsed(q, n))
           /\ \A d \in Int : FrameFrom(q, d) => FrameFrom(Elapsed(q, n), d - n)
           /\ \A d \in Int : AcksBy(q, d) => AcksBy(Elapsed(q, n), d)
           /\ \A w : AcksInOrder(q, w) => AcksInOrder(Elapsed(q, n), w)
  <1> DEFINE s == Elapsed(q, n)
  <1>1. /\ Len(q) \in Nat /\ DOMAIN q = 1 .. Len(q)
        /\ \A i \in DOMAIN q : q[i] \in Events /\ q[i].due \in Int
    BY EventsOfQueue
  <1>2. /\ DOMAIN s = DOMAIN q
        /\ \A i \in DOMAIN q : /\ s[i] \in Events
                                /\ s[i].due = q[i].due - n
                                /\ s[i].kind = q[i].kind /\ s[i].command = q[i].command
    BY <1>1 DEF Elapsed, Events
  <1>3. s \in Seq(Events)
    <2>1. s \in [1 .. Len(q) -> Events]
      BY <1>1, <1>2 DEF Elapsed
    <2> QED
      BY <1>1, <2>1, SeqDef
  <1> HIDE DEF s
  <1>4. InOrder(q) => InOrder(s)
    BY <1>1, <1>2 DEF InOrder
  <1>5. \A kind : Positions(s, kind) = Positions(q, kind)
    BY <1>2 DEF Positions
  <1>6. OneFrame(q) => OneFrame(s)
    BY <1>2, <1>5 DEF OneFrame
  <1>7. \A d \in Int : FrameFrom(q, d) => FrameFrom(s, d - n)
    BY <1>1, <1>2 DEF FrameFrom, Positions
  <1>8. \A d \in Int : AcksBy(q, d) => AcksBy(s, d)
    BY <1>1, <1>2 DEF AcksBy, Positions
  <1>9. ASSUME NEW w, AcksInOrder(q, w) PROVE AcksInOrder(s, w)
    <2>1. \A i \in Positions(q, "ack") : s[i].command = q[i].command
      BY <1>2 DEF Positions
    <2> QED
      BY <1>5, <1>9, <2>1 DEF AcksInOrder
  <1> QED
    BY <1>3, <1>4, <1>6, <1>7, <1>8, <1>9 DEF s

-----------------------------------------------------------------------------
(* The actions, by what they leave alone.                                  *)
LEMMA InstructionFrame ==
    ASSUME Instruction
    PROVE  /\ mode = "burst" /\ UNCHANGED <<mode, power>>
           /\ \/ UNCHANGED <<byteReady, unseen>>
              \/ unseen' = 0
  <1>1. PICK cost \in Costs :
            \/ Compute(cost) \/ TakeInterrupt(cost) \/ DoubleFault(cost)
            \/ VertReset(cost) \/ VertEnable(cost)
            \/ ReadPortA(cost) \/ ReadPortB(cost)
            \/ \E c \in Commands : WriteCommand(cost, c)
            \/ \E a \in Accesses : AccessTimer(cost, a)
    BY DEF Instruction
  <1>2. CASE Compute(cost) \/ TakeInterrupt(cost) \/ DoubleFault(cost)
               \/ VertReset(cost) \/ VertEnable(cost)
    BY <1>2 DEF Compute, TakeInterrupt, DoubleFault, VertReset, VertEnable,
                Drives, Executes, copsVars
  <1>3. CASE ReadPortA(cost)
    BY <1>3 DEF ReadPortA, Drives, Executes
  <1>4. CASE ReadPortB(cost) \/ \E c \in Commands : WriteCommand(cost, c)
    BY <1>4 DEF ReadPortB, WriteCommand, Drives, Executes
  <1>5. CASE \E a \in Accesses : AccessTimer(cost, a)
    BY <1>5 DEF AccessTimer, Executes, copsVars
  <1> QED
    BY <1>1, <1>2, <1>3, <1>4, <1>5

\* The events of the drain leave the interrupt level alone
LEMMA DrainFrame ==
    ASSUME fireVsync \/ Acknowledge \/ Deliver
    PROVE  /\ mode = "drain" /\ UNCHANGED <<mode, irqLine, unseen>>
           /\ byteReady => byteReady'
  <1>1. CASE fireVsync
    BY <1>1 DEF fireVsync, Fires, loopVars, cpuVars, copsVars
  <1>2. CASE Acknowledge
    BY <1>2 DEF Acknowledge, Fires, loopVars, cpuVars
  <1>3. CASE Deliver
    BY <1>3 DEF Deliver, Fires, loopVars, cpuVars
  <1> QED
    BY <1>1, <1>2, <1>3

-----------------------------------------------------------------------------
(* The machine is never in a burst with the power off: a burst begins only *)
(* with the power on, and the power goes off only between two bursts.      *)
(* (Machine.run(until:), handlePowerOff.)                                  *)
THEOREM PowerOffIsPromptHolds == Spec => []PowerOffIsPrompt
  <1>1. Init => PowerOffIsPrompt
    BY DEF Init, PowerOffIsPrompt
  <1>2. ASSUME PowerOffIsPrompt, [Next]_vars PROVE PowerOffIsPrompt'
    <2>1. CASE Run
      BY <2>1 DEF Run, loopGoesOn, PowerOffIsPrompt
    <2>2. CASE EndBurst
      BY <2>2 DEF EndBurst, PowerOffIsPrompt
    <2>3. CASE fireVsync \/ Acknowledge \/ Deliver
      BY <2>3, DrainFrame DEF PowerOffIsPrompt
    <2>4. CASE AfterDrain
      BY <2>4 DEF AfterDrain, loopGoesOn, beginBurst, PowerOffIsPrompt
    <2>5. CASE Instruction
      BY <1>2, <2>5, InstructionFrame DEF PowerOffIsPrompt
    <2>6. CASE PostInput \/ Reset
      BY <2>6 DEF PostInput, Reset, loopVars, PowerOffIsPrompt
    <2>7. CASE UNCHANGED vars
      BY <1>2, <2>7 DEF vars, loopVars, PowerOffIsPrompt
    <2> QED
      BY <1>2, <2>1, <2>2, <2>3, <2>4, <2>5, <2>6, <2>7 DEF Next, Loop
  <1> QED
    BY <1>1, <1>2, PTL DEF Spec

-----------------------------------------------------------------------------
(* A burst that began with a byte on the port and the line low leaves the  *)
(* line high, unless the byte is taken in it: so the next one does not.    *)
Seen ==
    /\ unseen \in {0, 1}
    /\ unseen = 1 => byteReady
    /\ unseen = 1 /\ mode # "burst" => irqLine = 2

\* A burst begins with the level set, so nothing pending is unseen
LEMMA BurstSeen ==
    ASSUME Seen, mode # "burst", NEW toGo, beginBurst(toGo), UNCHANGED byteReady
    PROVE  Seen'
  BY DEF Seen, beginBurst

(* A byte delivered after a burst raises the processor's line before the   *)
(* second burst that follows, or is taken: for every length of a burst and *)
(* every divisor of the VIAs' clock (tickVIAsAndUpdateIRQ).                *)
THEOREM InterruptIsVisibleHolds == Spec => []InterruptIsVisible
  <1>1. Init => Seen
    BY DEF Init, Seen
  <1>2. ASSUME Seen, [Next]_vars PROVE Seen'
    <2>1. CASE Run
      BY <1>2, <2>1, BurstSeen DEF Run, copsVars
    <2>2. CASE EndBurst
      <3>1. mode = "burst" /\ mode' = "drain" /\ UNCHANGED <<byteReady, unseen>>
        BY <2>2 DEF EndBurst, copsVars
      <3>2. byteReady => irqLine' = 2
        BY <2>2 DEF EndBurst, levelSeen
      <3> QED
        BY <1>2, <3>1, <3>2 DEF Seen
    <2>3. CASE fireVsync \/ Acknowledge \/ Deliver
      BY <1>2, <2>3, DrainFrame DEF Seen
    <2>4. CASE AfterDrain
      <3>1. mode = "drain" /\ UNCHANGED <<byteReady, irqLine>>
        BY <2>4 DEF AfterDrain, copsVars
      <3>2. beginBurst(left) \/ UNCHANGED unseen
        BY <2>4 DEF AfterDrain
      <3>3. CASE beginBurst(left)
        BY <1>2, <3>1, <3>3, BurstSeen
      <3>4. CASE UNCHANGED unseen
        BY <1>2, <3>1, <3>4 DEF Seen
      <3> QED
        BY <3>2, <3>3, <3>4
    <2>5. CASE Instruction
      BY <1>2, <2>5, InstructionFrame DEF Seen
    <2>6. CASE PostInput
      BY <1>2, <2>6 DEF PostInput, loopVars, cpuVars, copsVars, Seen
    <2>7. CASE Reset
      BY <2>7 DEF Reset, Seen
    <2>8. CASE UNCHANGED vars
      BY <1>2, <2>8 DEF vars, loopVars, cpuVars, copsVars, Seen
    <2> QED
      BY <1>2, <2>1, <2>2, <2>3, <2>4, <2>5, <2>6, <2>7, <2>8 DEF Next, Loop
  <1>3. Seen => InterruptIsVisible
    BY DEF Seen, InterruptIsVisible
  <1> QED
    BY <1>1, <1>2, <1>3, PTL DEF Spec

-----------------------------------------------------------------------------
(* The inductive invariant of the queue. A burst ends at the first event   *)
(* due when it begins, and an event its software causes comes later than   *)
(* the acknowledgements already on their way; between two calls nothing is *)
(* due.                                                                    *)
QueueWellFormed ==
    /\ queue \in Seq(Events) /\ written \in Seq(Commands)
    /\ InOrder(queue)
    /\ OneFrame(queue)
    /\ AcksBy(queue, AckDelay)
    /\ AcksInOrder(queue, written)

QueueInTime ==
    /\ left \in Int /\ slice \in Nat /\ ran \in Nat
    /\ mode = "stopped" => DueFrom(queue, 1)
    /\ mode = "burst" => slice > 0 /\ ran < slice + MaxCost /\ FrameFrom(queue, slice)
    /\ mode = "drain" => FrameFrom(queue, 1 - MaxCost)
    /\ mode \in {"stopped", "burst", "drain"}

Timely == QueueWellFormed /\ QueueInTime

\* The constants of time are positive
LEMMA Delays ==
    /\ \A d \in {AckDelay, DeliveryDelay, FramePeriod, Divisor, Quantum} : d \in Nat /\ d > 0
    /\ MaxCost \in Nat /\ MaxCost > 0 /\ \A c \in Costs : c \in Nat /\ c > 0 /\ c <= MaxCost
  <1>1. MaxCost \in Costs /\ \A c \in Costs : c <= MaxCost
    BY MachineAssumption DEF MaxCost
  <1> QED
    BY <1>1, MachineAssumption

\* An event has the fields it is made of
LEMMA NewEvents ==
    /\ \A d \in Int, kind \in {"frame", "ack", "byte"}, c \in Commands \cup {NoCommand} :
          /\ Event(d, kind, c) \in Events /\ Event(d, kind, c).due = d
          /\ Event(d, kind, c).kind = kind /\ Event(d, kind, c).command = c
    /\ NoCommand \notin Commands
  BY MachineAssumption DEF Event, Events

(* A byte on its way changes nothing of it.                                *)
LEMMA DeliveringKeeps ==
    ASSUME NEW q \in Seq(Events), NEW ready, InOrder(q)
    PROVE  /\ Delivering(q, ready) \in Seq(Events)
           /\ InOrder(Delivering(q, ready))
           /\ OneFrame(q) => OneFrame(Delivering(q, ready))
           /\ \A d \in Int : FrameFrom(q, d) => FrameFrom(Delivering(q, ready), d)
           /\ \A d \in Int : AcksBy(q, d) => AcksBy(Delivering(q, ready), d)
           /\ DueFrom(q, 1) => DueFrom(Delivering(q, ready), 1)
           /\ \A w \in Seq(Commands) : AcksInOrder(q, w) => AcksInOrder(Delivering(q, ready), w)
  <1> DEFINE e == Event(DeliveryDelay, "byte", NoCommand)
  <1>1. e \in Events /\ e.kind = "byte" /\ e.due >= 1
    BY Delays, NewEvents
  <1>2. Delivering(q, ready) = q \/ Delivering(q, ready) = scheduled(q, e)
    BY DEF Delivering
  <1> HIDE DEF e
  <1>3. CASE Delivering(q, ready) = q
    BY <1>3
  <1>4. CASE Delivering(q, ready) = scheduled(q, e)
    <2>1. scheduled(q, e) \in Seq(Events)
      BY <1>1, Scheduling
    <2>2. \A w \in Seq(Commands) : AcksInOrder(q, w) => AcksInOrder(scheduled(q, e), w)
      BY <1>1, SchedulingKeepsAcks
    <2> QED
      BY <1>1, <1>4, <2>1, <2>2, SchedulingKeeps
  <1> QED
    BY <1>2, <1>3, <1>4

\* What holds of an empty queue
LEMMA EmptyQueue ==
    /\ <<>> \in Seq(Events) /\ <<>> \in Seq(Commands) /\ InOrder(<<>>)
    /\ \A kind : Positions(<<>>, kind) = {}
    /\ \A d : AcksBy(<<>>, d) /\ DueFrom(<<>>, d) /\ FrameFrom(<<>>, d)
    /\ AcksInOrder(<<>>, <<>>)
  <1>1. \A kind : Positions(<<>>, kind) = {}
    BY DEF Positions
  <1>2. AcksInOrder(<<>>, <<>>)
    <2>1. DOMAIN <<>> = {}
      OBVIOUS
    <2>2. [i \in {} |-> i] \in [{} -> Positions(<<>>, "ack")] /\ {[i \in {} |-> i][j] : j \in {}} = {}
      OBVIOUS
    <2> QED
      BY <1>1, <2>1, <2>2 DEF AcksInOrder
  <1> QED
    BY <1>1, <1>2 DEF InOrder, AcksBy, DueFrom, FrameFrom

\* What holds of the queue after a reset, which has the frame only
LEMMA FreshIsTimely ==
    /\ FreshQueue \in Seq(Events) /\ InOrder(FreshQueue) /\ OneFrame(FreshQueue)
    /\ AcksBy(FreshQueue, AckDelay) /\ DueFrom(FreshQueue, 1)
    /\ AcksInOrder(FreshQueue, <<>>)
  <1> DEFINE b == Event(DeliveryDelay, "byte", NoCommand)
             z == <<>>
             q == scheduled(z, b)
  <1>0. /\ z \in Seq(Events) /\ z \in Seq(Commands) /\ InOrder(z) /\ Len(z) = 0
        /\ Positions(z, "frame") = {} /\ AcksBy(z, AckDelay) /\ DueFrom(z, 1)
        /\ AcksInOrder(z, z)
    BY EmptyQueue
  <1>1. /\ b \in Events /\ b.kind = "byte" /\ b.due >= 1
        /\ FirstFrame \in Events /\ FirstFrame.kind = "frame" /\ FirstFrame.due >= 1
        /\ AckDelay \in Int
    BY Delays, NewEvents DEF FirstFrame
  <1>2. FreshQueue = scheduled(q, FirstFrame)
    BY EmptyQueue DEF FreshQueue, Delivering
  <1> HIDE DEF z, b
  <1>3. PICK p \in 1 .. Len(z) + 1 :
            /\ goesBefore(z, b.due, p)
            /\ q \in Seq(Events) /\ Len(q) = Len(z) + 1
            /\ \A j \in 1 .. Len(z) + 1 :
                   q[j] = IF j < p THEN z[j] ELSE IF j = p THEN b ELSE z[j - 1]
    <2>1. z \in Seq(Events) /\ b \in Events
      BY <1>0, <1>1
    <2> QED
      BY <2>1, Scheduling
  <1>q. q = scheduled(z, b)
    OBVIOUS
  <1> HIDE DEF q
  <1>4. Positions(q, "frame") = {}
    <2>1. Len(q) = 1 /\ p = 1 /\ q[1] = b /\ DOMAIN q = {1}
      BY <1>0, <1>3
    <2> QED
      BY <1>1, <2>1 DEF Positions
  <1>5. InOrder(q) /\ DueFrom(q, 1) /\ AcksBy(q, AckDelay) /\ AcksInOrder(q, z)
    <2>1. InOrder(q) /\ AcksBy(q, AckDelay) /\ DueFrom(q, 1)
      <3>1. z \in Seq(Events) /\ b \in Events /\ InOrder(z) /\ 1 \in Int /\ AckDelay \in Int
        BY <1>0, <1>1
      <3>2. /\ InOrder(scheduled(z, b))
            /\ DueFrom(z, 1) /\ b.due >= 1 => DueFrom(scheduled(z, b), 1)
            /\ AcksBy(z, AckDelay) /\ (b.kind = "ack" => b.due <= AckDelay)
                 => AcksBy(scheduled(z, b), AckDelay)
        BY <3>1, SchedulingKeeps
      <3> QED
        BY <1>0, <1>1, <1>q, <3>2
    <2>2. AcksInOrder(q, z)
      BY <1>1, <1>0, <1>q, SchedulingKeepsAcks
    <2> QED
      BY <2>1, <2>2
  <1>6. FreshQueue \in Seq(Events)
    BY <1>1, <1>2, <1>3, Scheduling
  <1>7. AcksInOrder(FreshQueue, z)
    BY <1>1, <1>2, <1>3, <1>5, <1>0, SchedulingKeepsAcks
  <1>8. /\ InOrder(FreshQueue) /\ OneFrame(FreshQueue)
        /\ AcksBy(FreshQueue, AckDelay) /\ DueFrom(FreshQueue, 1)
    BY <1>1, <1>2, <1>3, <1>4, <1>5, SchedulingKeeps
  <1> QED
    BY <1>6, <1>7, <1>8 DEF z

(* What an instruction does to the queue.                                  *)
LEMMA InstructionQueue ==
    ASSUME Instruction
    PROVE  /\ mode = "burst" /\ UNCHANGED <<mode, left, slice>>
           /\ ran < slice /\ \E cost \in Costs : ran' = ran + cost
           /\ \/ UNCHANGED <<queue, written>>
              \/ queue' = Delivering(queue, FALSE) /\ UNCHANGED written
              \/ \E c \in Commands : /\ queue' = scheduled(queue, Event(AckDelay, "ack", c))
                                      /\ written' = Append(written, c)
  <1>1. PICK cost \in Costs :
            \/ Compute(cost) \/ TakeInterrupt(cost) \/ DoubleFault(cost)
            \/ VertReset(cost) \/ VertEnable(cost)
            \/ ReadPortA(cost) \/ ReadPortB(cost)
            \/ \E c \in Commands : WriteCommand(cost, c)
            \/ \E a \in Accesses : AccessTimer(cost, a)
    BY DEF Instruction
  <1>2. Executes(cost)
    BY <1>1 DEF Compute, TakeInterrupt, DoubleFault, VertReset, VertEnable, ReadPortA, ReadPortB,
                WriteCommand, AccessTimer, Drives
  <1>3. /\ mode = "burst" /\ UNCHANGED <<mode, left, slice>>
        /\ ran < slice /\ ran' = ran + cost
    BY <1>2 DEF Executes
  <1>4. CASE Compute(cost) \/ TakeInterrupt(cost) \/ DoubleFault(cost)
               \/ VertReset(cost) \/ VertEnable(cost) \/ ReadPortB(cost)
    <2>1. UNCHANGED <<queue, written>>
      BY <1>4 DEF Compute, TakeInterrupt, DoubleFault, VertReset, VertEnable, ReadPortB, copsVars
    <2> QED
      BY <1>3, <2>1
  <1>5. CASE ReadPortA(cost)
    <2>1. queue' \in {queue, Delivering(queue, FALSE)} /\ UNCHANGED written
      BY <1>5 DEF ReadPortA
    <2> QED
      BY <1>3, <2>1
  <1>6. CASE \E c \in Commands : WriteCommand(cost, c)
    <2>1. \E c \in Commands : /\ queue' = scheduled(queue, Event(AckDelay, "ack", c))
                              /\ written' = Append(written, c)
      BY <1>6 DEF WriteCommand
    <2> QED
      BY <1>3, <2>1
  <1>7. CASE \E a \in Accesses : AccessTimer(cost, a)
    <2>1. UNCHANGED <<queue, written>>
      BY <1>7 DEF AccessTimer, copsVars
    <2> QED
      BY <1>3, <2>1
  <1> QED
    BY <1>1, <1>4, <1>5, <1>6, <1>7

(* A burst begins when nothing is due, and is no longer than the time to   *)
(* the first event.                                                        *)
LEMMA BurstBounds ==
    ASSUME Timely, DueFrom(queue, 1), NEW toGo \in Int, toGo > 0, beginBurst(toGo),
           UNCHANGED <<queue, written>>
    PROVE  Timely'
  <1>1. /\ Len(queue) \in Nat /\ DOMAIN queue = 1 .. Len(queue)
        /\ \A i \in DOMAIN queue : queue[i].due \in Int
    BY EventsOfQueue DEF Timely, QueueWellFormed
  <1>2. PICK i \in DOMAIN queue : Positions(queue, "frame") = {i}
    BY DEF Timely, QueueWellFormed, OneFrame
  <1>3. 1 \in DOMAIN queue /\ queue # <<>> /\ queue[1].due >= 1
    BY <1>1, <1>2 DEF DueFrom
  <1>4. queue[1].due <= queue[i].due
    BY <1>1, <1>2, <1>3 DEF Timely, QueueWellFormed, InOrder
  <1>5. /\ slice' = Smaller(Smaller(toGo, queue[1].due), Quantum)
        /\ mode' = "burst" /\ ran' = 0
    BY <1>3 DEF beginBurst, boundedSlice
  <1>9. left' \in Int
    BY DEF beginBurst
  <1>6. slice' \in Nat /\ slice' >= 1 /\ slice' <= queue[1].due
    BY <1>1, <1>3, <1>5, Delays DEF Smaller
  <1>7. FrameFrom(queue', slice')
    BY <1>1, <1>2, <1>3, <1>4, <1>6 DEF FrameFrom
  <1>8. QueueInTime'
    BY <1>5, <1>6, <1>7, <1>9, Delays DEF QueueInTime
  <1> QED
    BY <1>8 DEF Timely, QueueWellFormed

\* A queue whose first event is in the future has none that is due
LEMMA NothingDue ==
    ASSUME QueueWellFormed, queue = <<>> \/ queue[1].due > 0
    PROVE  DueFrom(queue, 1)
  <1>1. /\ Len(queue) \in Nat /\ DOMAIN queue = 1 .. Len(queue)
        /\ \A i \in DOMAIN queue : queue[i].due \in Int
    BY EventsOfQueue DEF QueueWellFormed
  <1>2. PICK i \in DOMAIN queue : Positions(queue, "frame") = {i}
    BY DEF QueueWellFormed, OneFrame
  <1>3. 1 \in DOMAIN queue /\ queue # <<>>
    BY <1>1, <1>2
  <1> QED
    BY <1>1, <1>3 DEF QueueWellFormed, InOrder, DueFrom

\* The queue is in order and on time at first
LEMMA TimelyInit == Init => Timely
  <1> SUFFICES ASSUME Init PROVE Timely
    OBVIOUS
  <1>1. queue = FreshQueue /\ written = <<>> /\ mode = "stopped" /\ left = 0 /\ slice = 0 /\ ran = 0
    BY DEF Init
  <1> QED
    BY <1>1, FreshIsTimely, EmptyQueue DEF Timely, QueueWellFormed, QueueInTime

\* An instruction makes events late by less than itself
LEMMA TimelyInstruction ==
    ASSUME Timely, Instruction
    PROVE  Timely'
  <1>1. QueueInTime /\ QueueWellFormed
    BY DEF Timely
  <1>2. PICK cost \in Costs :
            /\ mode = "burst" /\ UNCHANGED <<mode, left, slice>>
            /\ ran < slice /\ ran' = ran + cost
    BY InstructionQueue
  <1>3. ran' \in Nat /\ ran' < slice + MaxCost
    BY <1>1, <1>2, Delays DEF QueueInTime
  <1>4. slice \in Int /\ AckDelay \in Int /\ FrameFrom(queue, slice) /\ slice > 0
    BY <1>1, <1>2, Delays DEF QueueInTime
  <1>5. QueueWellFormed' /\ FrameFrom(queue', slice)
    <2>1. CASE UNCHANGED <<queue, written>>
      BY <1>1, <1>4, <2>1 DEF QueueWellFormed
    <2>2. CASE queue' = Delivering(queue, FALSE) /\ UNCHANGED written
      <3>1. queue \in Seq(Events) /\ InOrder(queue) /\ written \in Seq(Commands)
        BY <1>1 DEF QueueWellFormed
      <3> QED
        BY <1>1, <1>4, <2>2, <3>1, DeliveringKeeps DEF QueueWellFormed
    <2>3. ASSUME NEW c \in Commands, queue' = scheduled(queue, Event(AckDelay, "ack", c)),
                 written' = Append(written, c)
          PROVE  QueueWellFormed' /\ FrameFrom(queue', slice)
      <3> DEFINE e == Event(AckDelay, "ack", c)
      <3>1. e \in Events /\ e.kind = "ack" /\ e.due = AckDelay /\ e.command = c
        BY <1>4, NewEvents
      <3>2. queue' = scheduled(queue, e)
        BY <2>3
      <3> HIDE DEF e
      <3>3. queue \in Seq(Events) /\ InOrder(queue) /\ written \in Seq(Commands)
        BY <1>1 DEF QueueWellFormed
      <3>4. queue' \in Seq(Events) /\ written' \in Seq(Commands)
        BY <2>3, <3>1, <3>2, <3>3, Scheduling
      <3>5. AcksInOrder(queue', written')
        BY <1>1, <2>3, <3>1, <3>2, <3>3, SchedulingKeepsAcks DEF QueueWellFormed
      <3>6. InOrder(queue') /\ OneFrame(queue') /\ FrameFrom(queue', slice) /\ AcksBy(queue', AckDelay)
        BY <1>1, <1>4, <3>1, <3>2, <3>3, SchedulingKeeps DEF QueueWellFormed
      <3> QED
        BY <3>4, <3>5, <3>6 DEF QueueWellFormed
    <2> QED
      BY <2>1, <2>2, <2>3, InstructionQueue
  <1>6. QueueInTime'
    BY <1>1, <1>2, <1>3, <1>4, <1>5 DEF QueueInTime
  <1> QED
    BY <1>5, <1>6 DEF Timely

\* The end of a burst leaves them as they are
LEMMA TimelyEndBurst ==
    ASSUME Timely, EndBurst
    PROVE  Timely'
  <1> DEFINE executed == IF ran = 0 THEN slice ELSE ran
  <1>1. QueueInTime /\ QueueWellFormed
    BY DEF Timely
  <1>2. /\ mode = "burst" /\ mode' = "drain" /\ ran' = 0 /\ slice' = 0
        /\ left' = left - executed /\ queue' = Elapsed(queue, executed) /\ UNCHANGED written
    BY DEF EndBurst, copsVars
  <1>3. executed \in Nat /\ executed < slice + MaxCost /\ slice \in Nat /\ left \in Int
    BY <1>1, <1>2, Delays DEF QueueInTime
  <1> HIDE DEF executed
  <1>4. queue \in Seq(Events) /\ AckDelay \in Int /\ slice \in Int /\ MaxCost \in Nat
    BY <1>1, <1>3, Delays DEF QueueWellFormed
  <1>5. QueueWellFormed'
    BY <1>1, <1>2, <1>3, <1>4, Passing DEF QueueWellFormed
  <1>6. FrameFrom(queue', slice - executed)
    BY <1>1, <1>2, <1>3, <1>4, Passing DEF QueueInTime
  <1>7. FrameFrom(queue', 1 - MaxCost)
    <2>1. /\ DOMAIN queue' = 1 .. Len(queue')
          /\ \A i \in DOMAIN queue' : queue'[i].due \in Int
      BY <1>5, EventsOfQueue DEF QueueWellFormed
    <2>2. \A i \in Positions(queue', "frame") : queue'[i].due \in Int /\ queue'[i].due >= slice - executed
      BY <1>6, <2>1 DEF FrameFrom, Positions
    <2> QED
      BY <1>3, <1>4, <2>2 DEF FrameFrom
  <1>8. QueueInTime'
    BY <1>2, <1>3, <1>7 DEF QueueInTime
  <1> QED
    BY <1>5, <1>8 DEF Timely

\* The drain runs what is due, in order
LEMMA TimelyDrain ==
    ASSUME Timely, fireVsync \/ Acknowledge \/ Deliver
    PROVE  Timely'
  <1>1. QueueInTime /\ QueueWellFormed
    BY DEF Timely
  <1>2. mode = "drain" /\ UNCHANGED loopVars /\ queue # <<>>
    BY DEF fireVsync, Acknowledge, Deliver, Fires
  <1>3. /\ queue \in Seq(Events) /\ written \in Seq(Commands) /\ InOrder(queue)
        /\ AckDelay \in Int /\ 1 - MaxCost \in Int
        /\ OneFrame(queue) /\ FrameFrom(queue, 1 - MaxCost) /\ AcksBy(queue, AckDelay)
        /\ AcksInOrder(queue, written)
    BY <1>1, <1>2, Delays DEF QueueWellFormed, QueueInTime
  <1> DEFINE t == Tail(queue)
  <1>4. /\ t \in Seq(Events) /\ InOrder(t) /\ FrameFrom(t, 1 - MaxCost) /\ AcksBy(t, AckDelay)
        /\ queue[1].kind # "frame" => OneFrame(t)
        /\ queue[1].kind = "frame" => Positions(t, "frame") = {}
    BY <1>2, <1>3, TakingOff
  <1>5. /\ queue[1].kind # "ack" => AcksInOrder(t, written)
        /\ queue[1].kind = "ack" => written # <<>> /\ AcksInOrder(t, Tail(written))
    BY <1>2, <1>3, TakingOffAcks
  <1>6. QueueWellFormed' /\ FrameFrom(queue', 1 - MaxCost)
    <2>1. CASE fireVsync
      <3>1. /\ queue[1].kind = "frame" /\ UNCHANGED written
            /\ queue' = scheduled(t, FirstFrame)
        BY <2>1 DEF fireVsync, Fires, FirstFrame, copsVars
      <3>2. FirstFrame \in Events /\ FirstFrame.kind = "frame" /\ FirstFrame.due >= 1 - MaxCost
        BY Delays, NewEvents DEF FirstFrame
      <3> HIDE DEF t
      <3>3. queue' \in Seq(Events)
        BY <1>4, <3>1, <3>2, Scheduling
      <3>4. AcksInOrder(queue', written')
        BY <1>3, <1>4, <1>5, <3>1, <3>2, SchedulingKeepsAcks
      <3>5. /\ InOrder(queue') /\ OneFrame(queue') /\ FrameFrom(queue', 1 - MaxCost)
            /\ AcksBy(queue', AckDelay)
        BY <1>3, <1>4, <3>1, <3>2, SchedulingKeeps
      <3> QED
        BY <1>3, <3>1, <3>3, <3>4, <3>5 DEF QueueWellFormed
    <2>2. CASE Acknowledge
      <3>1. /\ queue[1].kind = "ack" /\ written' = Tail(written)
            /\ queue' = t \/ queue' = Delivering(t, byteReady)
        BY <2>2 DEF Acknowledge, Fires
      <3>2. OneFrame(t) /\ AcksInOrder(t, written')
        BY <1>4, <1>5, <3>1
      <3>3. written' \in Seq(Commands)
        BY <1>3, <1>5, <3>1, HeadTailProperties
      <3> HIDE DEF t
      <3> QED
        BY <1>3, <1>4, <3>1, <3>2, <3>3, DeliveringKeeps DEF QueueWellFormed
    <2>3. CASE Deliver
      <3>1. queue[1].kind = "byte" /\ queue' = t /\ UNCHANGED written
        BY <2>3 DEF Deliver, Fires
      <3> QED
        BY <1>3, <1>4, <1>5, <3>1 DEF QueueWellFormed
    <2> QED
      BY <2>1, <2>2, <2>3
  <1>7. QueueInTime'
    BY <1>1, <1>2, <1>6 DEF QueueInTime, loopVars
  <1> QED
    BY <1>6, <1>7 DEF Timely

(* Every step of the machine keeps the invariant.                          *)
LEMMA TimelyStep == Timely /\ [Next]_vars => Timely'
  <1> SUFFICES ASSUME Timely, [Next]_vars PROVE Timely'
    OBVIOUS
  <1>0. QueueInTime /\ QueueWellFormed
    BY DEF Timely
  <1>1. CASE Run
    <2>1. /\ DueFrom(queue, 1) /\ UNCHANGED <<queue, written>>
          /\ \E span \in Spans : span \in Int /\ span > 0 /\ beginBurst(span)
      BY <1>0, <1>1, MachineAssumption DEF Run, QueueInTime, copsVars
    <2> QED
      BY <2>1, BurstBounds
  <1>2. CASE EndBurst
    BY <1>2, TimelyEndBurst
  <1>3. CASE fireVsync \/ Acknowledge \/ Deliver
    BY <1>3, TimelyDrain
  <1>4. CASE AfterDrain
    <2>1. DueFrom(queue, 1) /\ UNCHANGED <<queue, written>>
      BY <1>0, <1>4, NothingDue DEF AfterDrain, drained, copsVars
    <2>2. CASE loopGoesOn(left) /\ ~cpuHalted
      BY <1>0, <1>4, <2>1, <2>2, BurstBounds DEF AfterDrain, loopGoesOn, QueueInTime
    <2>3. CASE ~(loopGoesOn(left) /\ ~cpuHalted)
      <3>1. mode' = "stopped" /\ left' = 0 /\ UNCHANGED <<slice, ran>>
        BY <1>4, <2>3 DEF AfterDrain
      <3>2. QueueInTime'
        BY <1>0, <2>1, <3>1 DEF QueueInTime
      <3> QED
        BY <1>0, <2>1, <3>2 DEF Timely, QueueWellFormed
    <2> QED
      BY <2>2, <2>3
  <1>5. CASE Instruction
    BY <1>5, TimelyInstruction
  <1>6. CASE PostInput
    <2>1. /\ mode = "stopped" /\ UNCHANGED <<mode, left, slice, ran, written>>
          /\ queue' = Delivering(queue, byteReady)
      BY <1>6 DEF PostInput, loopVars, copsVars
    <2>2. queue \in Seq(Events) /\ InOrder(queue) /\ DueFrom(queue, 1) /\ written \in Seq(Commands)
      BY <1>0, <2>1 DEF QueueWellFormed, QueueInTime
    <2>3. QueueWellFormed' /\ DueFrom(queue', 1)
      BY <1>0, <2>1, <2>2, Delays, DeliveringKeeps DEF QueueWellFormed
    <2>4. QueueInTime'
      BY <1>0, <2>1, <2>3 DEF QueueInTime
    <2> QED
      BY <2>3, <2>4 DEF Timely
  <1>7. CASE Reset
    <2>1. /\ mode = "stopped" /\ UNCHANGED <<mode, left, slice, ran>>
          /\ queue' = FreshQueue /\ written' = <<>>
      BY <1>7 DEF Reset, loopVars
    <2>2. QueueWellFormed' /\ DueFrom(queue', 1)
      BY <2>1, FreshIsTimely, EmptyQueue DEF QueueWellFormed
    <2>3. QueueInTime'
      BY <1>0, <2>1, <2>2 DEF QueueInTime
    <2> QED
      BY <2>2, <2>3 DEF Timely
  <1>8. CASE UNCHANGED vars
    BY <1>0, <1>8 DEF vars, loopVars, copsVars, Timely, QueueWellFormed, QueueInTime
  <1> QED
    BY <1>1, <1>2, <1>3, <1>4, <1>5, <1>6, <1>7, <1>8 DEF Next, Loop

(* Commands are carried out in the order they were written: their          *)
(* acknowledgements are in the queue in that order, for every delay and    *)
(* every number of commands under way (handleCommandWrite, schedule).      *)
THEOREM AcksAreFIFOHolds == Spec => []AcksAreFIFO
  <1>1. Timely => AcksAreFIFO
    BY DEF Timely, QueueWellFormed, AcksAreFIFO
  <1> QED
    BY <1>1, TimelyInit, TimelyStep, PTL DEF Spec

(* There is always one frame timer, and a frame is late by less than the   *)
(* slowest instruction: for every quantum and every length of a frame      *)
(* (run(until:), boundedSlice, VideoTiming.fireVsync).                     *)
THEOREM FramesOnTimeHolds == Spec => []FramesOnTime
  <1>1. Timely => FramesOnTime
    <2> SUFFICES ASSUME Timely PROVE FramesOnTime
      OBVIOUS
    <2>1. PICK i \in DOMAIN queue : Positions(queue, "frame") = {i}
      BY DEF Timely, QueueWellFormed, OneFrame
    <2>2. queue[i].due \in Int
      BY <2>1, EventsOfQueue DEF Timely, QueueWellFormed
    <2>3. queue[i].due > -MaxCost
      <3>1. CASE mode = "stopped"
        BY <2>1, <2>2, <3>1, Delays DEF Timely, QueueInTime, DueFrom
      <3>2. CASE mode = "burst"
        BY <2>1, <2>2, <3>2, Delays DEF Timely, QueueInTime, FrameFrom
      <3>3. CASE mode = "drain"
        BY <2>1, <2>2, <3>3, Delays DEF Timely, QueueInTime, FrameFrom
      <3> QED
        BY <3>1, <3>2, <3>3 DEF Timely, QueueInTime
    <2> QED
      BY <2>1, <2>3 DEF FramesOnTime
  <1> QED
    BY <1>1, TimelyInit, TimelyStep, PTL DEF Spec

-----------------------------------------------------------------------------
(* The timers. First that advance is what its definition says: a function  *)
(* defined by recursion on the clocks exists, because there is one up to   *)
(* every number of clocks and any two agree where both are defined.        *)
LEMMA LatchesFit ==
    ASSUME NEW t \in Timer
    PROVE  Latch(t) \in 0 .. Top
  <1>1. /\ Radix \in Nat /\ Radix >= 1
        /\ t.low \in Nat /\ t.low <= Radix - 1
        /\ t.high \in Nat /\ t.high <= Radix - 1
    BY RadixAssumption DEF Timer, Byte
  <1>2. \A a, r \in Nat : a <= r - 1 => a * r <= (r - 1) * r
    OBVIOUS
  <1>3. t.high * Radix \in Nat /\ t.high * Radix <= (Radix - 1) * Radix
    BY <1>1, <1>2
  <1>4. (Radix - 1) * Radix = Radix * Radix - Radix /\ Radix * Radix \in Nat
    BY <1>1
  <1> QED
    BY <1>1, <1>3, <1>4 DEF Latch, Top

\* The top of a counter is a number
LEMMA TopIsANumber == Top \in Nat
  <1>1. Radix \in Nat /\ Radix >= 1
    BY RadixAssumption
  <1>2. Radix * Radix >= 1 /\ Radix * Radix \in Nat
    BY <1>1
  <1> QED
    BY <1>2 DEF Top

\* The fields of a timer, and what a clock does to them
LEMMA TimerFields ==
    ASSUME NEW t \in Timer
    PROVE  /\ t.counter \in Nat /\ t.counter <= Top
           /\ t.armed \in BOOLEAN /\ t.free \in BOOLEAN /\ t.flag \in BOOLEAN
           /\ \A c \in 0 .. Top : [t EXCEPT !.counter = c] \in Timer
           /\ underflow(t) \in Timer /\ oneClock(t) \in Timer
  <1>1. t.counter \in Nat /\ t.counter <= Top
    BY TopIsANumber DEF Timer
  <1>2. t.armed \in BOOLEAN /\ t.free \in BOOLEAN /\ t.flag \in BOOLEAN
    BY DEF Timer
  <1>3. \A c \in 0 .. Top : [t EXCEPT !.counter = c] \in Timer
    BY DEF Timer
  <1>4. Latch(t) \in 0 .. Top /\ Top \in 0 .. Top
    BY LatchesFit, TopIsANumber
  <1>5. underflow(t) \in Timer
    BY <1>2, <1>4 DEF underflow, Timer
  <1>6. oneClock(t) \in Timer
    <2>1. t.counter > 0 => t.counter - 1 \in 0 .. Top
      BY <1>1, TopIsANumber
    <2> QED
      BY <1>2, <1>4, <2>1 DEF oneClock, Timer
  <1> QED
    BY <1>1, <1>2, <1>3, <1>5, <1>6

Advanced(g, n, t) ==
    IF n <= t.counter
      THEN [t EXCEPT !.counter = t.counter - n]
      ELSE g[n - (t.counter + 1)][underflow(t)]

AdvanceUpTo(n) ==
    {g \in [0 .. n -> [Timer -> Timer]] : \A k \in 0 .. n, t \in Timer : g[k][t] = Advanced(g, k, t)}

\* Jumping from underflow to underflow leads to a timer
LEMMA AdvancedFits ==
    ASSUME NEW n \in Nat, NEW g, \A k \in 0 .. n - 1 : g[k] \in [Timer -> Timer], NEW t \in Timer
    PROVE  Advanced(g, n, t) \in Timer
  <1>1. CASE n <= t.counter
    <2>1. t.counter - n \in 0 .. Top
      BY <1>1, TimerFields, TopIsANumber
    <2> QED
      BY <1>1, <2>1, TimerFields DEF Advanced
  <1>2. CASE n > t.counter
    <2>1. n - (t.counter + 1) \in 0 .. n - 1 /\ underflow(t) \in Timer
      BY <1>2, TimerFields
    <2>2. ~(n <= t.counter)
      BY <1>2, TimerFields
    <2>3. g[n - (t.counter + 1)] \in [Timer -> Timer]
      BY <2>1
    <2> QED
      BY <2>1, <2>2, <2>3 DEF Advanced
  <1> QED
    BY <1>1, <1>2, TimerFields

\* and depends on shorter jumps only
LEMMA AdvancedAgree ==
    ASSUME NEW n \in Nat, NEW g, NEW h, \A k \in 0 .. n - 1 : g[k] = h[k], NEW t \in Timer
    PROVE  Advanced(g, n, t) = Advanced(h, n, t)
  <1>1. n > t.counter => n - (t.counter + 1) \in 0 .. n - 1
    BY TimerFields
  <1>2. t.counter \in Nat
    BY TimerFields
  <1> QED
    BY <1>1, <1>2 DEF Advanced

\* The recursion of advance has a solution up to every number of clocks
LEMMA AdvanceExists == \A n \in Nat : AdvanceUpTo(n) # {}
  <1> DEFINE S == {n \in Nat : AdvanceUpTo(n) # {}}
  <1>1. 0 \in S
    <2> DEFINE g == [k \in 0 .. 0 |-> [t \in Timer |-> Advanced(<<>>, k, t)]]
    <2>1. \A t \in Timer : Advanced(<<>>, 0, t) \in Timer
      BY AdvancedFits
    <2>2. \A t \in Timer : Advanced(<<>>, 0, t) = Advanced(g, 0, t)
      BY AdvancedAgree
    <2>3. g \in AdvanceUpTo(0)
      BY <2>1, <2>2 DEF AdvanceUpTo
    <2> QED
      BY <2>3
  <1>2. ASSUME NEW n \in Nat, n \in S PROVE n + 1 \in S
    <2>1. PICK g : g \in AdvanceUpTo(n)
      BY <1>2
    <2> DEFINE h == [k \in 0 .. n + 1 |-> IF k = n + 1 THEN [t \in Timer |-> Advanced(g, k, t)] ELSE g[k]]
    <2>2. \A k \in 0 .. n : g[k] \in [Timer -> Timer] /\ h[k] = g[k]
      BY <2>1 DEF AdvanceUpTo
    <2>3. \A t \in Timer : Advanced(g, n + 1, t) \in Timer
      <3>1. \A k \in 0 .. (n + 1) - 1 : g[k] \in [Timer -> Timer]
        <4>1. (n + 1) - 1 = n
          OBVIOUS
        <4> QED
          BY <2>2, <4>1
      <3>2. n + 1 \in Nat
        OBVIOUS
      <3> QED
        BY <3>1, <3>2, AdvancedFits
    <2>4. h \in [0 .. n + 1 -> [Timer -> Timer]]
      <3>1. h[n + 1] = [t \in Timer |-> Advanced(g, n + 1, t)]
        OBVIOUS
      <3>2. h[n + 1] \in [Timer -> Timer]
        BY <2>3, <3>1
      <3>3. \A k \in 0 .. n + 1 : k = n + 1 \/ k \in 0 .. n
        OBVIOUS
      <3>4. \A k \in 0 .. n + 1 : h[k] \in [Timer -> Timer]
        BY <2>2, <3>2, <3>3
      <3>5. h = [k \in 0 .. n + 1 |-> h[k]]
        OBVIOUS
      <3> HIDE DEF h
      <3> QED
        BY <3>4, <3>5
    <2>5. ASSUME NEW k \in 0 .. n + 1, NEW t \in Timer PROVE h[k][t] = Advanced(h, k, t)
      <3>1. \A i \in 0 .. k - 1 : g[i] = h[i]
        BY <2>2
      <3>2. Advanced(g, k, t) = Advanced(h, k, t)
        BY <3>1, AdvancedAgree
      <3>3. CASE k = n + 1
        BY <3>2, <3>3
      <3>4. CASE k # n + 1
        BY <2>1, <3>2, <3>4 DEF AdvanceUpTo
      <3> QED
        BY <3>3, <3>4
    <2> HIDE DEF h
    <2>6. h \in AdvanceUpTo(n + 1)
      BY <2>4, <2>5 DEF AdvanceUpTo
    <2> QED
      BY <2>6
  <1> HIDE DEF S
  <1>3. Nat \subseteq S
    BY <1>1, <1>2, Induction
  <1> QED
    BY <1>3 DEF S

\* only one
LEMMA AdvanceIsUnique ==
    ASSUME NEW n \in Nat, NEW m \in 0 .. n, NEW g \in AdvanceUpTo(n), NEW h \in AdvanceUpTo(m)
    PROVE  \A k \in 0 .. m : g[k] = h[k]
  <1> DEFINE U == {i \in Nat : \A k \in 0 .. i : k <= m => g[k] = h[k]}
  <1>0. ASSUME NEW k \in 0 .. m, \A i \in 0 .. k - 1 : g[i] = h[i] PROVE g[k] = h[k]
    <2>1. \A t \in Timer : g[k][t] = Advanced(g, k, t) /\ h[k][t] = Advanced(h, k, t)
      BY DEF AdvanceUpTo
    <2>2. \A t \in Timer : Advanced(g, k, t) = Advanced(h, k, t)
      BY <1>0, AdvancedAgree
    <2>3. g[k] \in [Timer -> Timer] /\ h[k] \in [Timer -> Timer]
      BY DEF AdvanceUpTo
    <2> QED
      BY <2>1, <2>2, <2>3
  <1>1. 0 \in U
    BY <1>0
  <1>2. ASSUME NEW i \in Nat, i \in U PROVE i + 1 \in U
    <2> SUFFICES ASSUME NEW k \in 0 .. i + 1, k <= m PROVE g[k] = h[k]
      OBVIOUS
    <2>1. \A j \in 0 .. k - 1 : j \in 0 .. i /\ j <= m
      OBVIOUS
    <2> QED
      BY <1>0, <1>2, <2>1
  <1>3. Nat \subseteq U
    <2> HIDE DEF U
    <2> QED
      BY <1>1, <1>2, Induction
  <1> QED
    BY <1>3

\* so advance is it
LEMMA AdvanceDef ==
    ASSUME NEW n \in Nat
    PROVE  /\ advance[n] \in [Timer -> Timer]
           /\ \A t \in Timer : advance[n][t] = Advanced(advance, n, t)
  <1> DEFINE some(i) == CHOOSE g : g \in AdvanceUpTo(i)
             f == [i \in Nat |-> some(i)[i]]
  <1>1. \A i \in Nat : some(i) \in AdvanceUpTo(i)
    BY AdvanceExists
  <1> HIDE DEF some
  <1>2. ASSUME NEW i \in Nat
        PROVE  f[i] \in [Timer -> Timer] /\ \A t \in Timer : f[i][t] = Advanced(f, i, t)
    <2>1. some(i)[i] \in [Timer -> Timer] /\ \A t \in Timer : some(i)[i][t] = Advanced(some(i), i, t)
      BY <1>1 DEF AdvanceUpTo
    <2>2. ASSUME NEW k \in 0 .. i - 1 PROVE some(i)[k] = f[k]
      <3>1. k \in 0 .. i /\ k \in Nat /\ k \in 0 .. k
        OBVIOUS
      <3>2. some(i)[k] = some(k)[k]
        BY <1>1, <3>1, AdvanceIsUnique
      <3> QED
        BY <3>1, <3>2
    <2>3. \A t \in Timer : Advanced(some(i), i, t) = Advanced(f, i, t)
      BY <2>2, AdvancedAgree
    <2> QED
      BY <2>1, <2>3
  <1>3. f = [i \in Nat |-> [t \in Timer |-> Advanced(f, i, t)]]
    <2> DEFINE body == [i \in Nat |-> [t \in Timer |-> Advanced(f, i, t)]]
    <2>1. \A i \in Nat : f[i] = [t \in Timer |-> Advanced(f, i, t)]
      BY <1>2
    <2> HIDE DEF f
    <2>2. \A i \in Nat : f[i] = body[i]
      BY <2>1
    <2>3. f = [i \in Nat |-> f[i]]
      BY DEF f
    <2> QED
      BY <2>1, <2>3
  <1> HIDE DEF f
  <1>4. advance = [i \in Nat |-> [t \in Timer |-> Advanced(advance, i, t)]]
    BY <1>3 DEF advance, Advanced
  <1>5. \A i \in Nat : advance[i] = [t \in Timer |-> Advanced(advance, i, t)]
    BY <1>4
  <1> DEFINE U == {i \in Nat : \A k \in 0 .. i : advance[k] \in [Timer -> Timer]}
  <1>6. ASSUME NEW i \in Nat, \A k \in 0 .. i - 1 : advance[k] \in [Timer -> Timer]
        PROVE  advance[i] \in [Timer -> Timer]
    <2>1. \A t \in Timer : Advanced(advance, i, t) \in Timer
      BY <1>6, AdvancedFits
    <2> QED
      BY <1>5, <2>1
  <1>7. 0 \in U
    BY <1>6
  <1>8. ASSUME NEW i \in Nat, i \in U PROVE i + 1 \in U
    <2>1. i + 1 \in Nat /\ \A k \in 0 .. (i + 1) - 1 : k \in 0 .. i
      OBVIOUS
    <2>2. advance[i + 1] \in [Timer -> Timer]
      BY <1>6, <1>8, <2>1
    <2>3. \A k \in 0 .. i + 1 : k = i + 1 \/ k \in 0 .. i
      OBVIOUS
    <2> QED
      BY <1>8, <2>2, <2>3
  <1>9. Nat \subseteq U
    <2> HIDE DEF U
    <2> QED
      BY <1>7, <1>8, Induction
  <1>10. advance[n] \in [Timer -> Timer]
    BY <1>9
  <1> QED
    BY <1>5, <1>10

(* One clock more is one clock more: an underflow in the middle of the     *)
(* clocks advanced at once is the underflow the timer has clock by clock.  *)
LEMMA OneMoreClock ==
    \A n \in Nat : \A t \in Timer : advance[n + 1][t] = oneClock(advance[n][t])
  <1> DEFINE More(n) == \A t \in Timer : advance[n + 1][t] = oneClock(advance[n][t])
             U == {i \in Nat : \A k \in 0 .. i : More(k)}
  <1>1. ASSUME NEW n \in Nat, \A k \in 0 .. n - 1 : More(k) PROVE More(n)
    <2> SUFFICES ASSUME NEW t \in Timer PROVE advance[n + 1][t] = oneClock(advance[n][t])
      OBVIOUS
    <2> DEFINE c == t.counter
               u == underflow(t)
    <2>1. /\ advance[n][t] = Advanced(advance, n, t) /\ n + 1 \in Nat
          /\ advance[n + 1][t] = Advanced(advance, n + 1, t)
      BY AdvanceDef
    <2>2. c \in Nat /\ u \in Timer /\ t.free \in BOOLEAN /\ t.flag \in BOOLEAN /\ t.armed \in BOOLEAN
      BY TimerFields
    <2>3. CASE n < c
      <3>1. /\ advance[n][t] = [t EXCEPT !.counter = c - n]
            /\ advance[n + 1][t] = [t EXCEPT !.counter = c - (n + 1)]
        BY <2>1, <2>2, <2>3 DEF Advanced
      <3>2. c - n > 0 /\ (c - n) - 1 = c - (n + 1)
        BY <2>2, <2>3
      <3> QED
        BY <3>1, <3>2 DEF oneClock, Timer
    <2>4. CASE n = c
      <3>1. advance[n][t] = [t EXCEPT !.counter = 0]
        BY <2>1, <2>2, <2>4 DEF Advanced
      <3>2. advance[n + 1][t] = advance[0][u]
        BY <2>1, <2>2, <2>4 DEF Advanced
      <3>3. u.counter \in Nat /\ advance[0][u] = Advanced(advance, 0, u)
        BY <2>2, TimerFields, AdvanceDef
      <3>4. advance[0][u] = [u EXCEPT !.counter = u.counter - 0]
        BY <3>3 DEF Advanced
      <3>5. u.counter - 0 = u.counter
        BY <3>3
      <3>6. advance[0][u] = u
        BY <2>2, <3>4, <3>5 DEF Timer
      <3>7. oneClock([t EXCEPT !.counter = 0]) = u
        <4> DEFINE v == [t EXCEPT !.counter = 0]
        <4>1. /\ v.counter = 0 /\ v.free = t.free /\ v.flag = t.flag /\ v.armed = t.armed
              /\ Latch(v) = Latch(t)
          BY DEF Timer, Latch
        <4>2. CASE t.free
          <5>1. oneClock(v) = [v EXCEPT !.counter = Latch(t), !.flag = TRUE]
            <6> HIDE DEF v
            <6>1. ~(v.counter > 0) /\ v.free
              BY <4>1, <4>2
            <6>2. oneClock(v) = [v EXCEPT !.counter = Latch(v), !.flag = TRUE]
              BY <6>1 DEF oneClock
            <6> QED
              BY <4>1, <6>2
          <5>2. u = [t EXCEPT !.counter = Latch(t), !.flag = TRUE, !.armed = t.armed]
            BY <2>2, <4>2 DEF underflow
          <5> QED
            BY <5>1, <5>2 DEF Timer
        <4>3. CASE ~t.free
          <5>1. oneClock(v) = [v EXCEPT !.counter = Top, !.armed = FALSE, !.flag = t.flag \/ t.armed]
            BY <4>1, <4>3 DEF oneClock
          <5>2. u = [t EXCEPT !.counter = Top, !.flag = t.flag \/ t.armed, !.armed = FALSE]
            BY <2>2, <4>3 DEF underflow
          <5> QED
            BY <5>1, <5>2 DEF Timer
        <4> QED
          BY <4>2, <4>3
      <3> QED
        BY <3>1, <3>2, <3>6, <3>7
    <2>5. CASE n > c
      <3> DEFINE m == n - (c + 1)
      <3>1. m \in 0 .. n - 1 /\ m + 1 = (n + 1) - (c + 1) /\ ~(n <= c) /\ ~(n + 1 <= c)
        BY <2>2, <2>5
      <3>2. advance[n][t] = advance[m][u] /\ advance[n + 1][t] = advance[m + 1][u]
        BY <2>1, <3>1 DEF Advanced
      <3> HIDE DEF m, u
      <3>3. advance[m + 1][u] = oneClock(advance[m][u])
        BY <1>1, <2>2, <3>1
      <3> QED
        BY <3>2, <3>3
    <2> QED
      BY <2>2, <2>3, <2>4, <2>5
  <1> HIDE DEF More
  <1>2. 0 \in U
    BY <1>1
  <1>3. ASSUME NEW i \in Nat, i \in U PROVE i + 1 \in U
    <2>1. i + 1 \in Nat /\ \A k \in 0 .. (i + 1) - 1 : k \in 0 .. i
      OBVIOUS
    <2>2. More(i + 1)
      BY <1>1, <1>3, <2>1
    <2>3. \A k \in 0 .. i + 1 : k = i + 1 \/ k \in 0 .. i
      OBVIOUS
    <2> QED
      BY <1>3, <2>2, <2>3
  <1>4. Nat \subseteq U
    <2> HIDE DEF U
    <2> QED
      BY <1>2, <1>3, Induction
  <1>5. \A n \in Nat : More(n)
    BY <1>4
  <1> QED
    BY <1>5 DEF More

\* Division with remainder
LEMMA Quotient ==
    ASSUME NEW d \in Nat, d >= 1, NEW q \in Int, NEW r \in Int, 0 <= r, r < d
    PROVE  (d * q + r) \div d = q /\ (d * q + r) % d = r
  <1> DEFINE m == d * q + r
             p == m \div d
             s == m % d
  <1>1. m = d * p + s /\ 0 <= s /\ s < d /\ p \in Int /\ s \in Int
    OBVIOUS
  <1>2. d * p + s = d * q + r
    BY <1>1
  <1> HIDE DEF p, s, m
  <1>3. ~(p < q)
    <2> SUFFICES ASSUME p < q PROVE FALSE
      OBVIOUS
    <2>1. p + 1 <= q
      BY <1>1
    <2>2. d * (p + 1) <= d * q /\ d * (p + 1) = d * p + d
      BY <1>1, <2>1
    <2>3. d * p \in Int /\ d * q \in Int
      BY <1>1
    <2> QED
      BY <1>1, <1>2, <2>2, <2>3
  <1>4. ~(p > q)
    <2> SUFFICES ASSUME p > q PROVE FALSE
      OBVIOUS
    <2>1. q + 1 <= p
      BY <1>1
    <2>2. d * (q + 1) <= d * p /\ d * (q + 1) = d * q + d
      BY <1>1, <2>1
    <2>3. d * p \in Int /\ d * q \in Int
      BY <1>1
    <2> QED
      BY <1>1, <1>2, <2>2, <2>3
  <1>5. p = q
    BY <1>1, <1>3, <1>4
  <1>6. s = r
    BY <1>1, <1>2, <1>5
  <1> QED
    BY <1>5, <1>6 DEF p, s, m

(* One cycle more carries into the quotient when the remainder wraps.      *)
LEMMA OneMoreCycle ==
    ASSUME NEW d \in Nat, d >= 1, NEW m \in Nat
    PROVE  /\ m % d \in 0 .. d - 1 /\ m \div d \in Nat
           /\ (m + 1) % d = ((m % d) + 1) % d
           /\ (m + 1) \div d = IF (m + 1) % d = 0 THEN m \div d + 1 ELSE m \div d
  <1> DEFINE q == m \div d
             r == m % d
  <1>1. m = d * q + r /\ 0 <= r /\ r < d /\ q \in Int /\ r \in Int
    OBVIOUS
  <1>2. q \in Nat
    <2> SUFFICES ASSUME q <= -1 PROVE FALSE
      BY <1>1
    <2> HIDE DEF q, r
    <2>1. d * q <= d * (-1)
      BY <1>1
    <2>2. d * q \in Int /\ d * (-1) = -d
      BY <1>1
    <2> QED
      BY <1>1, <2>1, <2>2
  <1> HIDE DEF q, r
  <1>3. CASE r + 1 < d
    <2>1. m + 1 = d * q + (r + 1) /\ r + 1 \in Int /\ 0 <= r + 1
      BY <1>1
    <2>2. (m + 1) \div d = q /\ (m + 1) % d = r + 1
      BY <1>1, <1>3, <2>1, Quotient
    <2>3. (r + 1) % d = r + 1
      <3>1. r + 1 = d * 0 + (r + 1)
        BY <1>1
      <3> QED
        BY <1>3, <2>1, <3>1, Quotient
    <2>4. r + 1 # 0
      BY <1>1
    <2> QED
      BY <1>1, <1>2, <2>2, <2>3, <2>4 DEF q, r
  <1>4. CASE r + 1 = d
    <2>1. m + 1 = d * (q + 1) + 0 /\ q + 1 \in Int
      BY <1>1, <1>4
    <2>2. (m + 1) \div d = q + 1 /\ (m + 1) % d = 0
      <3>1. 0 < d /\ 0 <= 0 /\ 0 \in Int
        OBVIOUS
      <3> QED
        BY <2>1, <3>1, Quotient
    <2>3. (r + 1) % d = 0
      BY <1>4
    <2> QED
      BY <1>1, <1>2, <2>2, <2>3 DEF q, r
  <1> QED
    BY <1>1, <1>3, <1>4

(* The timer that sees every clock is the timer advanced at once.          *)
AtOnce(n, c) == [timer |-> advance[(c.phase + n) \div Divisor][c.timer],
                 phase |-> (c.phase + n) % Divisor]

\* Cycles at once, defined from one cycle on
LEMMA AtOnceFits ==
    ASSUME NEW n \in Nat, NEW c \in Clocked
    PROVE  /\ AtOnce(n, c) \in Clocked
           /\ AtOnce(0, c) = c
           /\ AtOnce(n + 1, c) = oneCycle(AtOnce(n, c))
  <1>1. /\ Divisor \in Nat /\ Divisor >= 1 /\ c.timer \in Timer
        /\ c.phase \in Nat /\ c.phase < Divisor
    BY Delays DEF Clocked
  <1> DEFINE m == c.phase + n
             q == m \div Divisor
             r == m % Divisor
  <1>2. m \in Nat /\ c.phase + (n + 1) = m + 1
    BY <1>1
  <1> HIDE DEF m
  <1>3. /\ r \in 0 .. Divisor - 1 /\ q \in Nat
        /\ (m + 1) % Divisor = (r + 1) % Divisor
        /\ (m + 1) \div Divisor = IF (m + 1) % Divisor = 0 THEN q + 1 ELSE q
    BY <1>1, <1>2, OneMoreCycle
  <1>4. AtOnce(n, c) = [timer |-> advance[q][c.timer], phase |-> r]
    BY DEF AtOnce, m
  <1>5. AtOnce(n + 1, c) = [timer |-> advance[(m + 1) \div Divisor][c.timer],
                            phase |-> (m + 1) % Divisor]
    BY <1>2 DEF AtOnce
  <1> HIDE DEF q, r
  <1>6. /\ advance[q][c.timer] \in Timer
        /\ advance[q + 1][c.timer] = oneClock(advance[q][c.timer])
    BY <1>1, <1>3, AdvanceDef, OneMoreClock
  <1>7. oneCycle(AtOnce(n, c))
          = [timer |-> IF (r + 1) % Divisor = 0 THEN oneClock(advance[q][c.timer])
                                                ELSE advance[q][c.timer],
             phase |-> (r + 1) % Divisor]
    BY <1>4 DEF oneCycle
  <1>8. AtOnce(n + 1, c) = oneCycle(AtOnce(n, c))
    BY <1>3, <1>5, <1>6, <1>7
  <1>9. AtOnce(0, c) = c
    <2>1. c.phase + 0 = c.phase
      BY <1>1
    <2>2. c.phase = Divisor * 0 + c.phase
      BY <1>1
    <2>3. c.phase \div Divisor = 0 /\ c.phase % Divisor = c.phase
      BY <1>1, <2>2, Quotient
    <2>4. advance[0][c.timer] = c.timer
      <3>1. c.timer.counter \in Nat /\ advance[0][c.timer] = Advanced(advance, 0, c.timer)
        BY <1>1, TimerFields, AdvanceDef
      <3>2. advance[0][c.timer] = [c.timer EXCEPT !.counter = c.timer.counter - 0]
        BY <3>1 DEF Advanced
      <3>3. c.timer.counter - 0 = c.timer.counter
        BY <3>1
      <3> QED
        BY <1>1, <3>2, <3>3 DEF Timer
    <2>5. AtOnce(0, c) = [timer |-> c.timer, phase |-> c.phase]
      BY <2>1, <2>3, <2>4 DEF AtOnce
    <2> QED
      BY <2>5 DEF Clocked
  <1>10. AtOnce(n, c) \in Clocked
    BY <1>3, <1>4, <1>6 DEF Clocked
  <1> QED
    BY <1>8, <1>9, <1>10

\* The timer that sees each clock is the timer advanced by the quotient
LEMMA EachClockIsAtOnce ==
    ASSUME NEW n \in Nat, NEW c \in Clocked
    PROVE  EachClock[n][c] = AtOnce(n, c)
  <1> DEFINE body(g, i) == [k \in Clocked |-> IF i = 0 THEN k ELSE oneCycle(g[i - 1][k])]
             f == [i \in Nat |-> [k \in Clocked |-> AtOnce(i, k)]]
  <1>1. ASSUME NEW i \in Nat, NEW k \in Clocked
        PROVE  AtOnce(i, k) = IF i = 0 THEN k ELSE oneCycle(f[i - 1][k])
    <2>1. CASE i = 0
      BY <2>1, AtOnceFits
    <2>2. CASE i # 0
      <3>1. i - 1 \in Nat /\ (i - 1) + 1 = i
        BY <2>2
      <3>2. AtOnce((i - 1) + 1, k) = oneCycle(AtOnce(i - 1, k))
        BY <3>1, AtOnceFits
      <3>3. f[i - 1][k] = AtOnce(i - 1, k)
        BY <3>1
      <3> QED
        BY <2>2, <3>1, <3>2, <3>3
    <2> QED
      BY <2>1, <2>2
  <1>2. f = [i \in Nat |-> body(f, i)]
    <2>1. \A i \in Nat : f[i] = body(f, i)
      BY <1>1
    <2>2. f = [i \in Nat |-> f[i]]
      OBVIOUS
    <2> HIDE DEF f
    <2> QED
      BY <2>1, <2>2
  <1> HIDE DEF f
  <1>3. EachClock = [i \in Nat |-> body(EachClock, i)]
    BY <1>2 DEF EachClock
  <1>4. /\ \A k \in Clocked : EachClock[0][k] = k
        /\ \A i \in Nat, k \in Clocked : EachClock[i + 1][k] = oneCycle(EachClock[i][k])
    <2>1. \A i \in Nat : EachClock[i] = body(EachClock, i)
      BY <1>3
    <2>2. \A i \in Nat : i + 1 \in Nat /\ i + 1 # 0 /\ (i + 1) - 1 = i
      OBVIOUS
    <2>3. \A k \in Clocked : EachClock[0][k] = k
      BY <2>1
    <2>4. ASSUME NEW i \in Nat, NEW k \in Clocked
          PROVE  EachClock[i + 1][k] = oneCycle(EachClock[i][k])
      <3>1. EachClock[i + 1] = body(EachClock, i + 1)
        BY <2>1, <2>2
      <3>2. body(EachClock, i + 1)[k] = oneCycle(EachClock[(i + 1) - 1][k])
        BY <2>2
      <3> QED
        BY <2>2, <3>1, <3>2
    <2> QED
      BY <2>3, <2>4
  <1> DEFINE U == {i \in Nat : \A k \in Clocked : EachClock[i][k] = AtOnce(i, k)}
  <1>5. 0 \in U
    BY <1>4, AtOnceFits
  <1>6. ASSUME NEW i \in Nat, i \in U PROVE i + 1 \in U
    BY <1>4, <1>6, AtOnceFits
  <1>7. Nat \subseteq U
    <2> HIDE DEF U
    <2> QED
      BY <1>5, <1>6, Induction
  <1> QED
    BY <1>7

\* A register access leaves a timer
LEMMA AccessFits ==
    ASSUME NEW t \in Timer, NEW a \in Accesses
    PROVE  access(t, a) \in Timer
  <1>1. CASE a.reg = "T1C-H"
    <2>1. a.value \in Byte /\ t.low \in Byte
      BY <1>1 DEF Accesses, Timer
    <2> DEFINE v == [t EXCEPT !.high = a.value]
    <2>2. v \in Timer /\ Latch(v) = a.value * Radix + t.low
      BY <2>1 DEF Timer, Latch
    <2>3. a.value * Radix + t.low \in 0 .. Top
      BY <2>2, LatchesFit
    <2>4. access(t, a) = [t EXCEPT !.high = a.value, !.armed = TRUE, !.flag = FALSE,
                                   !.counter = a.value * Radix + t.low]
      BY <1>1 DEF access
    <2> QED
      BY <2>1, <2>3, <2>4 DEF Timer
  <1>2. CASE a.reg \in {"T1L-L", "T1L-H"}
    <2>1. a.value \in Byte
      BY <1>2 DEF Accesses
    <2> QED
      BY <1>2, <2>1 DEF access, Timer
  <1>3. CASE a.reg = "ACR"
    <2>1. access(t, a) = [t EXCEPT !.free = (a.value = "free-run")]
      BY <1>3 DEF access
    <2>2. (a.value = "free-run") \in BOOLEAN
      OBVIOUS
    <2> QED
      BY <2>1, <2>2 DEF Timer
  <1>4. CASE a.reg \notin {"T1C-H", "T1L-L", "T1L-H", "ACR"}
    BY <1>4 DEF access, Timer
  <1> QED
    BY <1>1, <1>2, <1>3, <1>4

\* So does a reset
LEMMA ResetFits == \A t \in Timer : resetTimer(t) \in Timer
  BY DEF resetTimer, Timer

(* The inductive invariant: the two timers and the two remainders agree.   *)
OnTheClock ==
    /\ t1 \in Timer /\ phi2 \in 0 .. Divisor - 1
    /\ clocked = [timer |-> t1, phase |-> phi2]

\* An instruction accesses both timers or none
LEMMA TimersOfInstruction ==
    ASSUME Instruction
    PROVE  /\ UNCHANGED phi2
           /\ \/ UNCHANGED <<t1, clocked>>
              \/ \E a \in Accesses : /\ t1' = access(t1, a)
                                     /\ clocked' = [clocked EXCEPT !.timer = access(@, a)]
  <1>1. PICK cost \in Costs :
            \/ Compute(cost) \/ TakeInterrupt(cost) \/ DoubleFault(cost)
            \/ VertReset(cost) \/ VertEnable(cost)
            \/ ReadPortA(cost) \/ ReadPortB(cost)
            \/ \E c \in Commands : WriteCommand(cost, c)
            \/ \E a \in Accesses : AccessTimer(cost, a)
    BY DEF Instruction
  <1>2. Executes(cost)
    BY <1>1 DEF Compute, TakeInterrupt, DoubleFault, VertReset, VertEnable, ReadPortA, ReadPortB,
                WriteCommand, AccessTimer, Drives
  <1>3. UNCHANGED phi2
    BY <1>2 DEF Executes
  <1>4. CASE \E a \in Accesses : AccessTimer(cost, a)
    <2>1. \E a \in Accesses : /\ t1' = access(t1, a)
                              /\ clocked' = [clocked EXCEPT !.timer = access(@, a)]
      BY <1>4 DEF AccessTimer
    <2> QED
      BY <1>3, <2>1
  <1>5. CASE \E c \in Commands : WriteCommand(cost, c)
    BY <1>3, <1>5 DEF WriteCommand, Drives
  <1>6. CASE \/ Compute(cost) \/ TakeInterrupt(cost) \/ DoubleFault(cost)
             \/ VertReset(cost) \/ VertEnable(cost) \/ ReadPortA(cost) \/ ReadPortB(cost)
    <2>1. UNCHANGED <<t1, clocked>>
      BY <1>6 DEF Compute, TakeInterrupt, DoubleFault, VertReset, VertEnable, ReadPortA, ReadPortB,
                  Drives
    <2> QED
      BY <1>3, <2>1
  <1> QED
    BY <1>1, <1>4, <1>5, <1>6

\* Every step keeps the two timers together
LEMMA TimersStep == OnTheClock /\ Timely /\ [Next]_vars => OnTheClock'
  <1> SUFFICES ASSUME OnTheClock, Timely, [Next]_vars PROVE OnTheClock'
    OBVIOUS
  <1>1. CASE Instruction
    <2>1. UNCHANGED phi2
      BY <1>1, TimersOfInstruction
    <2>2. CASE UNCHANGED <<t1, clocked>>
      BY <2>1, <2>2 DEF OnTheClock
    <2>3. ASSUME NEW a \in Accesses, t1' = access(t1, a),
                 clocked' = [clocked EXCEPT !.timer = access(@, a)]
          PROVE  OnTheClock'
      <3>1. t1' \in Timer
        BY <2>3, AccessFits DEF OnTheClock
      <3>2. clocked' = [timer |-> t1', phase |-> phi2]
        BY <2>3 DEF OnTheClock
      <3> QED
        BY <2>1, <3>1, <3>2 DEF OnTheClock
    <2> QED
      BY <1>1, <2>2, <2>3, TimersOfInstruction
  <1>2. CASE EndBurst
    <2> DEFINE executed == IF ran = 0 THEN slice ELSE ran
    <2>1. /\ t1' = advance[(phi2 + executed) \div Divisor][t1]
          /\ clocked' = EachClock[executed][clocked]
          /\ phi2' = (phi2 + executed) % Divisor
      BY <1>2 DEF EndBurst, phi2Remainder
    <2>2. executed \in Nat
      BY DEF Timely, QueueInTime
    <2> HIDE DEF executed
    <2>3. clocked \in Clocked /\ clocked.timer = t1 /\ clocked.phase = phi2
      BY DEF OnTheClock, Clocked
    <2>4. clocked' = AtOnce(executed, clocked) /\ clocked' \in Clocked
      BY <2>1, <2>2, <2>3, EachClockIsAtOnce, AtOnceFits
    <2>5. clocked' = [timer |-> t1', phase |-> phi2']
      BY <2>1, <2>3, <2>4 DEF AtOnce
    <2> QED
      BY <2>4, <2>5 DEF OnTheClock, Clocked
  <1>3. CASE Run
    BY <1>3 DEF Run, cpuVars, timerVars, OnTheClock
  <1>4. CASE fireVsync \/ Acknowledge \/ Deliver
    <2>1. UNCHANGED <<cpuVars, timerVars>>
      BY <1>4 DEF fireVsync, Acknowledge, Deliver, Fires
    <2> QED
      BY <2>1 DEF cpuVars, timerVars, OnTheClock
  <1>5. CASE AfterDrain
    BY <1>5 DEF AfterDrain, timerVars, OnTheClock
  <1>6. CASE PostInput
    BY <1>6 DEF PostInput, cpuVars, timerVars, OnTheClock
  <1>7. CASE Reset
    <2>1. t1' = resetTimer(t1) /\ clocked' = [timer |-> resetTimer(t1), phase |-> 0] /\ phi2' = 0
      BY <1>7 DEF Reset, OnTheClock
    <2> QED
      BY <2>1, ResetFits, Delays DEF OnTheClock
  <1>8. CASE UNCHANGED vars
    BY <1>8 DEF vars, cpuVars, timerVars, OnTheClock
  <1> QED
    BY <1>1, <1>2, <1>3, <1>4, <1>5, <1>6, <1>7, <1>8 DEF Next, Loop

(* A timer advanced at the end of each burst, by the whole clocks the      *)
(* bursts have made so far, is the timer that sees every clock: for every  *)
(* divisor, every width of the counter and every length of the bursts      *)
(* (tickVIAsAndUpdateIRQ, VIA6522.advance).                                *)
THEOREM TimersCountEveryCycleHolds == Spec => []TimersCountEveryCycle
  <1>1. Init => OnTheClock
    <2> SUFFICES ASSUME Init PROVE OnTheClock
      OBVIOUS
    <2>1. 0 \in 0 .. Divisor - 1 /\ 0 \in Byte /\ 0 \in 0 .. Top
      BY Delays, TopIsANumber, RadixAssumption DEF Byte
    <2>2. /\ t1 = [counter |-> 0, low |-> 0, high |-> 0, armed |-> FALSE, free |-> FALSE, flag |-> FALSE]
          /\ phi2 = 0 /\ clocked = [timer |-> t1, phase |-> 0]
      BY DEF Init
    <2> QED
      BY <2>1, <2>2 DEF OnTheClock, Timer
  <1>2. OnTheClock => TimersCountEveryCycle
    BY DEF OnTheClock, TimersCountEveryCycle
  <1> QED
    BY <1>1, <1>2, TimelyInit, TimelyStep, TimersStep, PTL DEF Spec

=============================================================================
