---------------------------------- MODULE COPS ----------------------------------
(***************************************************************************)
(* The keyboard, mouse, clock and soft-power processor of Sources/LisaCore/*)
(* COPS.swift behind VIA2: a command port with a ready line (CRDY), and an *)
(* input FIFO delivered byte by byte on Port A with an interrupt flag.     *)
(* What a scheduled event will do is state here: an acknowledgement per    *)
(* command write, the delivery of one byte, and the re-assert timers.      *)
(*                                                                         *)
(* Bytes keep their values, so that packets stay ambiguous (the marker $80 *)
(* is also a key code). A clock is a sequence of nibbles: the year, then   *)
(* ClockPairs pairs, each of which is one byte of the reply.               *)
(***************************************************************************)
EXTENDS Naturals, Sequences

CONSTANTS
    Keys,          \* bytes of the key events the shell may post
    Motions,       \* bytes of a mouse displacement
    Commands,      \* the bytes a sender may write to Port A
    HostClocks,    \* the times the host clock may show
    ClockPairs,    \* pairs of nibbles in a clock: 5 in the code
    MaxQueue,      \* bound: bytes waiting for delivery
    MaxAcks,       \* bound: command writes not yet acknowledged
    MaxTimers      \* bound: re-assert timers pending

ReadClock     == 2
NibbleBase    == 16     \* $10 .. $1F write a nibble
PowerOffClockOff  == 32
PowerOffClockOn   == 33
PowerOffReboot    == 35
EnableClock   == 37     \* $25
PrepSetClock  == 44     \* $2C
Marker        == 128    \* $80, "reset code follows"
KeyboardID    == 63
PowerButton   == 251
YearSelector  == 224    \* $E0 | year nibble
Floating      == 255
MouseMarker   == 0

Nibbles      == 0 .. 15
ClockNibbles == 2 * ClockPairs + 1
Clocks       == [1 .. ClockNibbles -> Nibbles]

ASSUME COPSAssumption ==
    /\ ClockPairs \in Nat
    /\ Keys \subseteq 0 .. 255
    /\ Motions \subseteq 0 .. 255
    /\ Commands \subseteq 0 .. 255
    /\ HostClocks \subseteq Clocks
    /\ MaxQueue \in Nat /\ MaxAcks \in Nat /\ MaxTimers \in Nat

VARIABLES
    crdyHigh,      \* the ready line of Port B
    suppressDrop,  \* suppressCRDYDropForNextRead
    acks,          \* commands written and not yet acknowledged, oldest first
    inputQueue,    \* bytes waiting for delivery
    inFlight,      \* the byte of a scheduled delivery: <<>> or <<byte>>
    byteReady,     \* a byte is presented on Port A
    pendingByte,   \* that byte, or Floating
    timers,        \* re-assert timers pending
    ifr,           \* VIA2 IFR bit 1, "COPS interrupt pending"
    clockRunning,  \* the clock holds a time
    setClockReply, \* the clock the OS set: <<>> (none) or <<clock>>
    setActive,     \* between $2C and $25
    setNibbles,    \* the nibbles of the set sequence, the last ClockNibbles
    power,         \* Machine.powerState; "stopping": off, in the last event drain
    taken          \* history: the last byte the Lisa took off Port A

crdyVars  == <<crdyHigh, suppressDrop, acks>>
inputVars == <<inputQueue, inFlight, byteReady, pendingByte, timers, ifr, taken>>
clockVars == <<clockRunning, setClockReply, setActive, setNibbles>>
copsVars  == <<crdyHigh, suppressDrop, acks, inputQueue, inFlight, byteReady,
               pendingByte, timers, ifr, clockRunning, setClockReply,
               setActive, setNibbles, power, taken>>

Announcement == <<Marker, KeyboardID>>

-----------------------------------------------------------------------------
(* The input FIFO.                                                         *)

(* A mutated form: a byte waiting on the port is not looked at.            *)
DeliverOverReady(ready, q) ==
    IF inFlight # <<>> \/ q = <<>>
      THEN inputQueue' = q /\ UNCHANGED inFlight
      ELSE inputQueue' = Tail(q) /\ inFlight' = <<Head(q)>>

(* A mutated form: the byte put in flight stays in the queue.              *)
DeliverKeeping(ready, q) ==
    /\ inputQueue' = q
    /\ IF ready \/ inFlight # <<>> \/ q = <<>>
         THEN UNCHANGED inFlight
         ELSE inFlight' = <<Head(q)>>

(* The queue is q: its first byte goes into flight unless one is already   *)
(* in flight or ready on the port.                                         *)
scheduleDeliveryIfIdle(ready, q) ==
    IF ready \/ inFlight # <<>> \/ q = <<>>
      THEN inputQueue' = q /\ UNCHANGED inFlight
      ELSE inputQueue' = Tail(q) /\ inFlight' = <<Head(q)>>

(* enqueue of all the bytes of a packet.                                   *)
enqueue(packet) == scheduleDeliveryIfIdle(byteReady, inputQueue \o packet)

(* A mutated form: no re-assert timer is armed.                            *)
DeliverOnce ==
    /\ inFlight # <<>>
    /\ pendingByte' = Head(inFlight)
    /\ inFlight' = <<>>
    /\ byteReady' = TRUE
    /\ ifr' = TRUE
    /\ UNCHANGED <<crdyVars, clockVars, inputQueue, timers, power, taken>>

(* The scheduled delivery: the byte appears on Port A, its flag is raised  *)
(* and a re-assert timer is armed.                                         *)
Deliver ==
    /\ inFlight # <<>>
    /\ timers < MaxTimers
    /\ pendingByte' = Head(inFlight)
    /\ inFlight' = <<>>
    /\ byteReady' = TRUE
    /\ ifr' = TRUE
    /\ timers' = timers + 1
    /\ UNCHANGED <<crdyVars, clockVars, inputQueue, power, taken>>

(* A re-assert timer fires: it re-arms itself while a byte waits, whichever*)
(* byte that is, and dies otherwise.                                       *)
Reassert ==
    /\ timers > 0
    /\ IF byteReady
         THEN ifr' = TRUE /\ UNCHANGED timers
         ELSE timers' = timers - 1 /\ UNCHANGED ifr
    /\ UNCHANGED <<crdyVars, clockVars, inputQueue, inFlight, byteReady,
                   pendingByte, power, taken>>

(* A handshake read of Port A (register 1) takes the byte on it; the next  *)
(* one of the queue goes into flight. Without a byte it has no effect.     *)
ReadPortA ==
    /\ byteReady
    /\ taken' = <<pendingByte>>
    /\ byteReady' = FALSE
    /\ pendingByte' = Floating
    /\ ifr' = FALSE
    /\ scheduleDeliveryIfIdle(FALSE, inputQueue)
    /\ UNCHANGED <<crdyVars, clockVars, timers, power>>

(* Software clears IFR2 by a route COPS does not see (a blanket IFR write).*)
WipeFlag ==
    /\ ifr' = FALSE
    /\ UNCHANGED <<crdyVars, clockVars, inputQueue, inFlight, byteReady,
                   pendingByte, timers, power, taken>>

(* What the shell posts, between two slices of the emulation.              *)
KeyPacket(k)   == <<k>>
MousePacket(m) == <<MouseMarker, m, m>>
ButtonPacket   == <<Marker, PowerButton>>

ShellPackets == {KeyPacket(k) : k \in Keys} \cup {MousePacket(m) : m \in Motions}
                  \cup {ButtonPacket}

PostInput(packet) ==
    /\ Len(inputQueue) + Len(packet) <= MaxQueue
    /\ enqueue(packet)
    /\ UNCHANGED <<crdyVars, clockVars, byteReady, pendingByte, timers, ifr,
                   power, taken>>

-----------------------------------------------------------------------------
(* The command port.                                                       *)

(* A byte written to Port A. A write while the line is low is not refused: *)
(* it is acknowledged, and carried out, like any other.                    *)
WriteCommand(c) ==
    /\ Len(acks) < MaxAcks
    /\ acks' = Append(acks, c)
    /\ IF crdyHigh
         THEN crdyHigh' = FALSE /\ suppressDrop' = TRUE
         ELSE UNCHANGED <<crdyHigh, suppressDrop>>
    /\ UNCHANGED <<inputVars, clockVars, power>>

(* Port B: the first read after a drop still shows the line as it was.     *)
ReadsReady == suppressDrop \/ crdyHigh

ReadPortB ==
    /\ suppressDrop' = FALSE
    /\ UNCHANGED <<crdyHigh, acks, inputVars, clockVars, power>>

(* The reply to $02: $80, then the clock.                                  *)
NotSet          == [n \in 1 .. ClockNibbles |-> 15]
ClockPacket(c)  == <<Marker, YearSelector + c[1]>>
                     \o [n \in 1 .. ClockPairs |-> 16 * c[2 * n] + c[2 * n + 1]]
ClockShown      == IF ~clockRunning THEN {NotSet}
                   ELSE IF setClockReply # <<>> THEN {Head(setClockReply)}
                   ELSE HostClocks

(* A mutated form: the first nibbles are kept, the fill included.          *)
KeepFirst(s, n) == IF Len(s) <= n THEN s ELSE SubSeq(s, 1, n)

KeepLast(s, n) == IF Len(s) <= n THEN s ELSE SubSeq(s, Len(s) - n + 1, Len(s))

ReplyClock ==
    /\ \E c \in ClockShown :
          /\ Len(inputQueue) + ClockPairs + 2 <= MaxQueue
          /\ enqueue(ClockPacket(c))
    /\ UNCHANGED <<clockVars, power>>

StoreNibble(c) ==
    /\ setNibbles' = IF setActive
                       THEN KeepLast(Append(setNibbles, c - NibbleBase),
                                     ClockNibbles)
                       ELSE setNibbles
    /\ UNCHANGED <<inputQueue, inFlight, clockRunning, setClockReply,
                   setActive, power>>

OpenSet ==
    /\ setActive' = TRUE
    /\ setNibbles' = <<>>
    /\ UNCHANGED <<inputQueue, inFlight, clockRunning, setClockReply, power>>

(* finishSetSequence: the last ClockNibbles nibbles, if there are as many. *)
CommitSet ==
    /\ setActive' = FALSE
    /\ setNibbles' = <<>>
    /\ IF Len(setNibbles) = ClockNibbles
         THEN setClockReply' = <<setNibbles>> /\ clockRunning' = TRUE
         ELSE UNCHANGED <<setClockReply, clockRunning>>
    /\ UNCHANGED <<inputQueue, inFlight, power>>

PowerOff(c) ==
    /\ power' = "stopping"
    /\ IF c = PowerOffClockOff
         THEN clockRunning' = FALSE /\ setClockReply' = <<>>
         ELSE UNCHANGED <<clockRunning, setClockReply>>
    /\ UNCHANGED <<inputQueue, inFlight, setActive, setNibbles>>

processCommand(c) ==
    CASE c = ReadClock -> ReplyClock
      [] c \in NibbleBase .. NibbleBase + 15 -> StoreNibble(c)
      [] c = PrepSetClock -> OpenSet
      [] c = EnableClock -> CommitSet
      [] c \in {PowerOffClockOff, PowerOffClockOn, PowerOffReboot} ->
           PowerOff(c)
      [] OTHER -> UNCHANGED <<inputQueue, inFlight, clockVars, power>>

(* The acknowledgement of the oldest write: its command is carried out and *)
(* the line rises, even when later writes are still to be acknowledged.    *)
Acknowledge ==
    /\ acks # <<>>
    /\ acks' = Tail(acks)
    /\ crdyHigh' = TRUE
    /\ processCommand(Head(acks))
    /\ UNCHANGED <<suppressDrop, byteReady, pendingByte, timers, ifr, taken>>

-----------------------------------------------------------------------------
(* Machine.reset empties the event queue before it resets COPS, whose      *)
(* power-on stream is then enqueued, its first byte into flight.           *)
resetInput ==
    /\ timers' = 0
    /\ byteReady' = FALSE
    /\ pendingByte' = Floating
    /\ ifr' = FALSE
    /\ inFlight' = <<Marker>>
    /\ inputQueue' = <<KeyboardID>>
    /\ taken' = <<>>

(* A mutated form: the acknowledgements are dropped, the line stays.       *)
resetPortKeepingLine ==
    /\ UNCHANGED <<crdyHigh, suppressDrop>>
    /\ acks' = <<>>

(* A mutated form: the acknowledgements survive the reset.                 *)
resetPortKeepingAcks ==
    /\ crdyHigh' = TRUE
    /\ suppressDrop' = FALSE
    /\ UNCHANGED acks

resetPort ==
    /\ crdyHigh' = TRUE
    /\ suppressDrop' = FALSE
    /\ acks' = <<>>

Reset ==
    /\ resetPort
    /\ resetInput
    /\ clockRunning' = TRUE
    /\ setClockReply' = <<>>
    /\ setActive' = FALSE
    /\ setNibbles' = <<>>
    /\ power' = "on"

(* A machine never reset yet: the shell resets it before it runs.          *)
Init ==
    /\ crdyHigh = TRUE
    /\ suppressDrop = FALSE
    /\ acks = <<>>
    /\ timers = 0
    /\ byteReady = FALSE
    /\ pendingByte = Floating
    /\ ifr = FALSE
    /\ inFlight = <<>>
    /\ inputQueue = <<>>
    /\ clockRunning = TRUE
    /\ setClockReply = <<>>
    /\ setActive = FALSE
    /\ setNibbles = <<>>
    /\ power = "on"
    /\ taken = <<>>

(* The scheduled events. A power-off lets the event drain it was decoded in*)
(* finish; then the machine runs nothing until it is reset.                *)
Event == power # "off" /\ (Deliver \/ Reassert \/ Acknowledge)

DrainEnds ==
    /\ power = "stopping"
    /\ power' = "off"
    /\ UNCHANGED <<crdyVars, inputVars, clockVars>>

(* Any software on the Lisa.                                               *)
Software ==
    /\ power = "on"
    /\ ReadPortA \/ ReadPortB \/ WipeFlag \/ \E c \in Commands : WriteCommand(c)

Next ==
    \/ Event
    \/ DrainEnds
    \/ Software
    \/ \E p \in ShellPackets : PostInput(p)
    \/ Reset

Spec == Init /\ [][Next]_copsVars

-----------------------------------------------------------------------------
Byte == 0 .. 255

(* The type invariant.                                                     *)
FlagsOK ==
    /\ crdyHigh \in BOOLEAN /\ suppressDrop \in BOOLEAN
    /\ byteReady \in BOOLEAN /\ ifr \in BOOLEAN
    /\ clockRunning \in BOOLEAN /\ setActive \in BOOLEAN

InputOK ==
    /\ inputQueue \in Seq(Byte)
    /\ inFlight \in Seq(Byte) /\ Len(inFlight) <= 1
    /\ pendingByte \in Byte
    /\ timers \in 0 .. MaxTimers
    /\ taken \in Seq(Byte) /\ Len(taken) <= 1

ClockOK ==
    /\ acks \in Seq(Commands) /\ Len(acks) <= MaxAcks
    /\ setClockReply \in Seq(Clocks) /\ Len(setClockReply) <= 1
    /\ setNibbles \in Seq(Nibbles) /\ Len(setNibbles) <= ClockNibbles
    /\ power \in {"on", "stopping", "off"}

TypeOK == FlagsOK /\ InputOK /\ ClockOK

(* The interrupt flag tells the truth: it is up only while a byte is on    *)
(* Port A (an old timer never raises it for a byte already taken), and a   *)
(* byte whose flag was wiped still has a timer to raise it again.          *)
FlagFollowsByte ==
    /\ ifr => byteReady
    /\ byteReady => timers > 0

(* The input path is never stalled: while bytes wait, one is on the port   *)
(* or in flight, never both (scheduleDeliveryIfIdle).                      *)
NeverStalled ==
    /\ ~(byteReady /\ inFlight # <<>>)
    /\ inputQueue # <<>> => byteReady \/ inFlight # <<>>

(* The ready line never stays low: while it is down a write is waiting for *)
(* its acknowledgement (handleCommandWrite), and no sender is left polling.*)
LowLineWillRise == ~crdyHigh => acks # <<>>

(* The FIFO, its delivery events and the handshake are together one stream *)
(* of whole packets: no byte is lost, duplicated, reordered or delivered   *)
(* inside another packet, whatever the interleaving of the events.         *)
IsClockPacket(p) ==
    /\ Len(p) = ClockPairs + 2
    /\ p[1] = Marker
    /\ p[2] \in YearSelector .. YearSelector + 15
    /\ \A n \in 3 .. ClockPairs + 2 : p[n] \in Byte

IsCOPSPacket(p) == IsClockPacket(p) \/ p \in ShellPackets

OnPort       == IF byteReady THEN <<pendingByte>> ELSE <<>>
BytesWaiting == OnPort \o inFlight \o inputQueue

Stream == INSTANCE InputStream WITH
    IsPacket     <- IsCOPSPacket,
    Announcement <- Announcement,
    queue        <- BytesWaiting,
    taken        <- taken

ImplementsStream == Stream!Spec
=============================================================================
