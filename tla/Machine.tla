--------------------------------- MODULE Machine ---------------------------------
(***************************************************************************)
(* The run loop of Sources/LisaCore/Machine.swift: the processor executes  *)
(* in bursts, the devices and the interrupt level are brought up to date   *)
(* between two bursts, and then the events that are due are run. During a  *)
(* burst Machine.cycles still shows its start, so an event the software    *)
(* causes is scheduled from there.                                         *)
(*                                                                         *)
(* All times are relative to Machine.cycles. The devices are those whose   *)
(* events meet in this queue: the frame timer (VideoTiming.swift) and the  *)
(* command port and byte delivery of COPS.swift. The bytes, and the timers *)
(* that raise a wiped flag again, are in COPS.tla: here a byte follows     *)
(* another or not. The interrupts of COPS (level 2) and of the frame timer *)
(* (level 1) are enabled; no other source asserts the line.                *)
(* Scaled down, the constants keep the order of the code's: a delivery     *)
(* (300) < an acknowledgement (400) < a burst (1024) < a frame.            *)
(*                                                                         *)
(* Timer 1 of a VIA counts the cycles of the bursts, divided down. Its     *)
(* interrupt is left disabled (IER): the software that uses it polls.      *)
(***************************************************************************)
EXTENDS SequencesExt, ViaTimers

CONSTANTS
    Quantum,       \* irqPollQuantum
    AckDelay,      \* commandAckDelayCycles
    DeliveryDelay, \* byteDeliveryDelayCycles
    FramePeriod,   \* cyclesPerVsync
    Divisor,       \* viaClockDivisor
    Costs,         \* cycles an instruction may take
    Spans,         \* cycles a call of run(until:) may ask for
    Commands,      \* the commands written to COPS
    MaxAcks,       \* bound: commands written and not yet acknowledged
    Uses           \* bound: what the software of a behaviour uses, "devices" or "timer"

(* A command of COPS that turns the power off, and one it replies to.      *)
PowerOff  == "off"
ReadClock == "clock"
NoCommand == "none"

ASSUME MachineAssumption ==
    /\ {Quantum, AckDelay, DeliveryDelay, FramePeriod, Divisor} \subseteq Nat \ {0}
    /\ Costs \subseteq Nat \ {0} /\ Spans \subseteq Nat \ {0}
    /\ \E c \in Costs : \A d \in Costs : d <= c
    /\ NoCommand \notin Commands
    /\ MaxAcks \in Nat
    /\ Uses \subseteq {"devices", "timer"}

VARIABLES
    mode,       \* "stopped" (no call of run), "burst" or "drain"
    left,       \* cycles to the target of the call, at the start of the burst
    slice,      \* cycles asked of the processor for the burst
    ran,        \* cycles it has executed of it
    queue,      \* the events [due, kind, command], in the order they will run
    phi2,       \* viaPhi2Remainder
    irqLine,    \* the interrupt level the processor sees
    cpuHalted,  \* it has double-faulted
    halted,     \* Machine.halted
    power,      \* Machine.powerState
    pending, armed, vsyncPending,    \* VideoTiming, and its line to Machine
    crdyHigh, suppressDrop,          \* the ready line of COPS
    byteReady,  \* a byte of COPS is on Port A and its flag up
    written,    \* history: the commands not yet carried out, as written
    unseen,     \* history: bursts begun with byteReady and irqLine below 2
    uses,       \* what the software uses
    t1,         \* the timer
    clocked     \* history: [timer, phase], the timer had it seen each clock, and the
                \*   cycles executed since the last clock

loopVars  == <<mode, left, slice, ran>>
cpuVars   == <<irqLine, cpuHalted, halted, phi2>>
frameVars == <<pending, armed, vsyncPending>>
copsVars  == <<crdyHigh, suppressDrop, byteReady, written>>
timerVars == <<uses, t1, clocked>>
vars      == <<loopVars, queue, cpuVars, power, frameVars, copsVars, unseen, timerVars>>

Smaller(a, b) == IF a < b THEN a ELSE b

-----------------------------------------------------------------------------
(* The event queue.                                                        *)
Event(delay, kind, command) == [due |-> delay, kind |-> kind, command |-> command]

(* A mutated form: an event goes before those due at the same cycle.       *)
goesBeforeEqual(q, due, i) ==
    /\ \A j \in 1 .. i - 1 : q[j].due < due
    /\ i <= Len(q) => q[i].due >= due

(* An event goes before the first that is due later, after those due at    *)
(* the same cycle.                                                         *)
goesBefore(q, due, i) ==
    /\ \A j \in 1 .. i - 1 : q[j].due <= due
    /\ i <= Len(q) => q[i].due > due

firstIndex(q, due) == CHOOSE i \in 1 .. Len(q) + 1 : goesBefore(q, due, i)

scheduled(q, e) == InsertAt(q, firstIndex(q, e.due), e)

Elapsed(q, n) == [i \in DOMAIN q |-> [q[i] EXCEPT !.due = @ - n]]

Positions(q, kind) == {i \in DOMAIN q : q[i].kind = kind}

FirstFrame == Event(FramePeriod, "frame", NoCommand)

(* scheduleDeliveryIfIdle: a byte of COPS goes on its way, when no other   *)
(* is on the port or on its way.                                           *)
Delivering(q, ready) ==
    IF ready \/ Positions(q, "byte") # {}
      THEN q
      ELSE scheduled(q, Event(DeliveryDelay, "byte", NoCommand))

-----------------------------------------------------------------------------
(* A call of run(until:).                                                  *)
(* A mutated form: the loop does not look at the power.                    *)
loopGoesOnUnpowered(toGo) == toGo > 0

loopGoesOn(toGo) == toGo > 0 /\ power = "on"

(* A mutated form: an event due during the burst does not end it.          *)
boundedByTarget(toGo) == Smaller(toGo, Quantum)

(* The burst ends at the target, at the next event or after the quantum.   *)
boundedSlice(toGo) ==
    LET event == IF queue = <<>> THEN toGo ELSE queue[1].due
    IN  Smaller(Smaller(toGo, event), Quantum)

beginBurst(toGo) ==
    /\ mode' = "burst"
    /\ left' = toGo
    /\ slice' = boundedSlice(toGo)
    /\ ran' = 0
    /\ unseen' = IF byteReady /\ irqLine < 2 THEN unseen + 1 ELSE 0

Run ==
    /\ mode = "stopped"
    /\ \E span \in Spans : loopGoesOn(span) /\ beginBurst(span)
    /\ UNCHANGED <<queue, cpuVars, power, frameVars, copsVars, timerVars>>

(* The shell posts a key, a mouse or a button packet between two calls.    *)
PostInput ==
    /\ mode = "stopped"
    /\ uses = "devices"
    /\ queue' = Delivering(queue, byteReady)
    /\ UNCHANGED <<loopVars, cpuVars, power, frameVars, copsVars, unseen, timerVars>>

(* One instruction, and what it does to the devices. The burst goes on     *)
(* until its slice is used up: a processor that was halted before it runs  *)
(* nothing, one that halts within it is not stopped by that.               *)
Executes(cost) ==
    /\ mode = "burst"
    /\ ran < slice
    /\ ~(cpuHalted /\ ran = 0)
    /\ ran' = ran + cost
    /\ UNCHANGED <<mode, left, slice, phi2, halted, power, uses>>

Compute(cost) ==
    /\ Executes(cost)
    /\ UNCHANGED <<queue, irqLine, cpuHalted, frameVars, copsVars, unseen, t1, clocked>>

(* An access to a device, or a fault.                                      *)
Drives(cost) ==
    /\ Executes(cost)
    /\ uses = "devices"
    /\ UNCHANGED <<t1, clocked>>

AccessTimer(cost, a) ==
    /\ Executes(cost)
    /\ uses = "timer"
    /\ t1' = access(t1, a)
    /\ clocked' = [clocked EXCEPT !.timer = access(@, a)]
    /\ UNCHANGED <<queue, irqLine, cpuHalted, frameVars, copsVars, unseen>>

(* The processor takes the interrupt, which clears the level it sees.      *)
TakeInterrupt(cost) ==
    /\ Executes(cost)
    /\ irqLine # 0
    /\ irqLine' = 0
    /\ UNCHANGED <<queue, cpuHalted, frameVars, copsVars, unseen, t1, clocked>>

DoubleFault(cost) ==
    /\ Drives(cost)
    /\ cpuHalted' = TRUE
    /\ UNCHANGED <<queue, irqLine, frameVars, copsVars, unseen>>

VertReset(cost) ==
    /\ Drives(cost)
    /\ armed' = FALSE /\ pending' = FALSE /\ vsyncPending' = FALSE
    /\ UNCHANGED <<queue, irqLine, cpuHalted, copsVars, unseen>>

VertEnable(cost) ==
    /\ Drives(cost)
    /\ armed' = TRUE
    /\ vsyncPending' = (vsyncPending \/ pending)
    /\ UNCHANGED <<queue, irqLine, cpuHalted, pending, copsVars, unseen>>

(* handleCommandWrite: the acknowledgement is due AckDelay after the start *)
(* of the burst.                                                           *)
WriteCommand(cost, c) ==
    /\ Drives(cost)
    /\ Len(written) < MaxAcks
    /\ queue' = scheduled(queue, Event(AckDelay, "ack", c))
    /\ written' = Append(written, c)
    /\ crdyHigh' = FALSE
    /\ suppressDrop' = (suppressDrop \/ crdyHigh)
    /\ UNCHANGED <<irqLine, cpuHalted, frameVars, byteReady, unseen>>

ReadPortB(cost) ==
    /\ Drives(cost)
    /\ suppressDrop' = FALSE
    /\ UNCHANGED <<queue, irqLine, cpuHalted, frameVars, crdyHigh, byteReady, written, unseen>>

(* The byte on the port is taken; another may be waiting behind it.        *)
ReadPortA(cost) ==
    /\ Drives(cost)
    /\ byteReady
    /\ byteReady' = FALSE
    /\ queue' \in {queue, Delivering(queue, FALSE)}
    /\ unseen' = 0
    /\ UNCHANGED <<irqLine, cpuHalted, frameVars, crdyHigh, suppressDrop, written>>

Instruction ==
    \E cost \in Costs :
        \/ Compute(cost) \/ TakeInterrupt(cost) \/ DoubleFault(cost)
        \/ VertReset(cost) \/ VertEnable(cost)
        \/ ReadPortA(cost) \/ ReadPortB(cost)
        \/ \E c \in Commands : WriteCommand(cost, c)
        \/ \E a \in Accesses : AccessTimer(cost, a)

(* A mutated form: the level is brought up to date when the VIAs tick.     *)
levelSeenOnTick(executed) ==
    IF phi2 + executed < Divisor
      THEN irqLine
      ELSE IF byteReady THEN 2 ELSE IF vsyncPending THEN 1 ELSE 0

(* The level after a burst: VIA2 before the sources of level 1.            *)
levelSeen(executed) ==
    IF byteReady THEN 2 ELSE IF vsyncPending THEN 1 ELSE 0

(* A mutated form: what a burst leaves of a clock is lost.                 *)
phi2RemainderLost(executed) == 0

(* What the ticks of the VIAs leave of the cycles executed.                *)
phi2Remainder(executed) == (phi2 + executed) % Divisor

(* The timer that sees every clock, one cycle and n cycles later.          *)
oneCycle(c) ==
    LET phase == (c.phase + 1) % Divisor
    IN  [timer |-> IF phase = 0 THEN oneClock(c.timer) ELSE c.timer, phase |-> phase]

Clocked == [timer : Timer, phase : 0 .. Divisor - 1]

EachClock[n \in Nat] ==
    [c \in Clocked |-> IF n = 0 THEN c ELSE oneCycle(EachClock[n - 1][c])]

(* The burst is over: cycles advances, the VIAs tick, the level is set. A  *)
(* halted processor is reported to have used its slice.                    *)
EndBurst ==
    /\ mode = "burst"
    /\ ran >= slice \/ (cpuHalted /\ ran = 0)
    /\ LET executed == IF ran = 0 THEN slice ELSE ran
       IN  /\ left' = left - executed
           /\ queue' = Elapsed(queue, executed)
           /\ phi2' = phi2Remainder(executed)
           /\ t1' = advance[(phi2 + executed) \div Divisor][t1]
           /\ clocked' = EachClock[executed][clocked]
           /\ irqLine' = levelSeen(executed)
    /\ mode' = "drain"
    /\ ran' = 0 /\ slice' = 0
    /\ UNCHANGED <<cpuHalted, halted, power, frameVars, copsVars, unseen, uses>>

-----------------------------------------------------------------------------
(* The events that are due are run, the ones they schedule included.       *)
Fires(kind) ==
    /\ mode = "drain"
    /\ queue # <<>> /\ queue[1].due <= 0 /\ queue[1].kind = kind
    /\ UNCHANGED <<loopVars, cpuVars, unseen, timerVars>>

fireVsync ==
    /\ Fires("frame")
    /\ pending' = TRUE
    /\ vsyncPending' = (vsyncPending \/ armed)
    /\ queue' = scheduled(Tail(queue), Event(FramePeriod, "frame", NoCommand))
    /\ UNCHANGED <<armed, power, copsVars>>

(* The command is carried out only now, and the ready line rises.          *)
Acknowledge ==
    /\ Fires("ack")
    /\ LET c == queue[1].command
       IN  /\ power' = IF c = PowerOff THEN "off" ELSE power
           /\ queue' = IF c = ReadClock THEN Delivering(Tail(queue), byteReady)
                                        ELSE Tail(queue)
    /\ crdyHigh' = TRUE
    /\ written' = Tail(written)
    /\ UNCHANGED <<suppressDrop, byteReady, frameVars>>

Deliver ==
    /\ Fires("byte")
    /\ byteReady' = TRUE
    /\ queue' = Tail(queue)
    /\ UNCHANGED <<power, crdyHigh, suppressDrop, written, frameVars>>

drained == queue = <<>> \/ queue[1].due > 0

(* The end of the drain: the call returns (powered off, halted or at its   *)
(* target), or the next burst begins.                                      *)
AfterDrain ==
    /\ mode = "drain"
    /\ drained
    /\ halted' = (halted \/ (power = "on" /\ cpuHalted))
    /\ IF loopGoesOn(left) /\ ~cpuHalted
         THEN beginBurst(left)
         ELSE mode' = "stopped" /\ left' = 0 /\ UNCHANGED <<slice, ran, unseen>>
    /\ UNCHANGED <<queue, irqLine, cpuHalted, phi2, power, frameVars, copsVars, timerVars>>

-----------------------------------------------------------------------------
(* The queue is emptied before COPS sends its first byte and the frame     *)
(* timer starts again.                                                     *)
FreshQueue == scheduled(Delivering(<<>>, FALSE), FirstFrame)

Reset ==
    /\ mode = "stopped"
    /\ queue' = FreshQueue
    /\ written' = <<>>
    /\ phi2' = 0
    /\ cpuHalted' = FALSE /\ halted' = FALSE /\ power' = "on"
    /\ pending' = FALSE /\ armed' = FALSE /\ vsyncPending' = FALSE
    /\ crdyHigh' = TRUE /\ suppressDrop' = FALSE /\ byteReady' = FALSE
    /\ unseen' = 0
    /\ irqLine' = 0
    /\ t1' = resetTimer(t1)
    /\ clocked' = [timer |-> resetTimer(clocked.timer), phase |-> 0]
    /\ UNCHANGED <<loopVars, uses>>

(* After the first reset.                                                  *)
Init ==
    /\ mode = "stopped" /\ left = 0 /\ slice = 0 /\ ran = 0
    /\ queue = FreshQueue /\ written = <<>>
    /\ phi2 = 0
    /\ irqLine = 0 /\ cpuHalted = FALSE /\ halted = FALSE /\ power = "on"
    /\ pending = FALSE /\ armed = FALSE /\ vsyncPending = FALSE
    /\ crdyHigh = TRUE /\ suppressDrop = FALSE /\ byteReady = FALSE
    /\ unseen = 0
    /\ uses \in Uses
    /\ t1 = [counter |-> 0, low |-> 0, high |-> 0, armed |-> FALSE, free |-> FALSE, flag |-> FALSE]
    /\ clocked = [timer |-> t1, phase |-> 0]

Loop == Run \/ EndBurst \/ fireVsync \/ Acknowledge \/ Deliver \/ AfterDrain

Next == Loop \/ Instruction \/ PostInput \/ Reset

Spec == Init /\ [][Next]_vars

-----------------------------------------------------------------------------
MaxCost == CHOOSE c \in Costs : \A d \in Costs : d <= c

(* The acknowledgements of q are those of the commands w, in this order.    *)
AcksInOrder(q, w) ==
    \E at \in [DOMAIN w -> Positions(q, "ack")] :
        /\ \A i \in DOMAIN w : q[at[i]].command = w[i]
        /\ \A i, j \in DOMAIN w : i < j => at[i] < at[j]
        /\ Positions(q, "ack") = {at[i] : i \in DOMAIN w}

(* Commands are carried out in the order they were written, although the   *)
(* acknowledgements of one burst are all due at the same cycle (schedule). *)
AcksAreFIFO == AcksInOrder(queue, written)

(* A timer advanced once for each burst, by as many clocks as the burst    *)
(* and what the bursts before it left make, is the timer advanced at every *)
(* clock: no cycle is lost at the end of a burst (viaPhi2Remainder), and   *)
(* no underflow within one, be it one-shot or free-run (advance).          *)
(* An access comes before all the cycles of its burst, in both.            *)
TimersCountEveryCycle == t1 = clocked.timer /\ phi2 = clocked.phase

(* There is one frame timer, through resets too, and a frame is late by    *)
(* less than one instruction: it ends the burst it falls in.               *)
FramesOnTime ==
    \E i \in DOMAIN queue : Positions(queue, "frame") = {i} /\ queue[i].due > -MaxCost

(* A byte delivered after a burst raises the processor's line before the   *)
(* second burst that follows ("visible within at most two bursts of        *)
(* latency", Machine.swift:202), unless the processor has taken it.        *)
InterruptIsVisible == unseen <= 1

(* No instruction is executed after the command that turns the power off   *)
(* was carried out ("without executing another burst", Machine.swift:225). *)
PowerOffIsPrompt == power = "off" => mode # "burst"
=============================================================================
