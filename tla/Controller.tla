------------------------------- MODULE Controller -------------------------------
(***************************************************************************)
(* The emulation thread of LisaShell/EmulationController.swift with the    *)
(* pacing of Governor.swift: it drains its mailbox between two slices of   *)
(* the machine, ticks the printer, paces throttled slices by the host's    *)
(* clock, and tells the main thread of status, frames and print jobs by    *)
(* blocks on the main queue (AppModel.wire). The machine is what the       *)
(* thread sees of it: a slice that runs to its target, or stops short      *)
(* because the guest halted or powered off.                                *)
(*                                                                         *)
(* A clock unit is worth one unit of emulated cycles at the nominal speed. *)
(* Times are kept as ages, up to the age at which nothing changes any      *)
(* more. Commands for a device (input, disks, boards, the power button,    *)
(* screenshots) act on the modules of the devices and are one command      *)
(* here; the alert of a disk that cannot be opened is left out.            *)
(***************************************************************************)
EXTENDS PrinterPath

CONSTANTS
    PublishInterval,  \* statusPublishInterval
    MaxCatchUp        \* Governor.defaultMaxCatchUpCycles

ASSUME ControllerAssumption ==
    /\ PublishInterval \in Nat \ {0}
    /\ MaxCatchUp \in Nat \ {0}

VARIABLES
    mailbox,            \* commands posted, oldest first
    throttledSnapshot,  \* Mailbox._throttled: set when posted, not when drained
    pc,                 \* where the thread is in its loop
    batch,              \* the commands of the last drain not yet carried out
    running,
    stopped,            \* machine.halted, powerState: "no", "halted" or "off"
    lag,                \* the cycles due by the anchor and not run or being run,
                        \*   at most MaxLag; NoAnchor without one
    due,                \* the cycles of the slice under way, or Unpaced
    haltedPublished,
    sincePublish,       \* the age of lastStatusPublish
    pendingFrame,       \* FrameCoalescer: a frame waits in the slot
    scheduled,          \* FrameCoalescer: an apply is scheduled
    mainQueue,          \* the blocks dispatched to the main queue
    sinceResumed        \* history: the time since pacing was last begun anew

threadVars == <<pc, batch>>
runState   == <<running, stopped>>
pacing     == <<lag, due, sinceResumed>>
publishing == <<haltedPublished, sincePublish>>
coalescer  == <<pendingFrame, scheduled>>
mailVars   == <<mailbox, throttledSnapshot>>
controllerVars == <<mailVars, threadVars, runState, pacing, publishing,
                    coalescer, mainQueue>>

NoAnchor == -1
Unpaced  == -1      \* due, of an unthrottled slice
MaxLag   == MaxCatchUp + 1

StatusBlock(s) == [kind |-> "status", stopped |-> s]
JobBlock       == [kind |-> "job", stopped |-> "no"]
ApplyBlock     == [kind |-> "frame", stopped |-> "no"]

Commands == {"start", "pause", "reset", "setThrottled", "device", "shutdown"}

-----------------------------------------------------------------------------
(* Any thread posts.                                                       *)
Posted(command) == mailbox' = Append(mailbox, command)

Post(command) == Posted(command) /\ UNCHANGED throttledSnapshot

PostThrottled(value) ==
    /\ Posted("setThrottled")
    /\ throttledSnapshot' = value

-----------------------------------------------------------------------------
(* The loop.                                                               *)
Drain ==
    /\ pc = "drain"
    /\ batch' = mailbox
    /\ mailbox' = <<>>
    /\ pc' = "commands"
    /\ UNCHANGED <<throttledSnapshot, runState, pacing, publishing, coalescer,
                   mainQueue, printerVars>>

Carry(command) ==
    /\ pc = "commands"
    /\ batch # <<>>
    /\ Head(batch) = command
    /\ batch' = Tail(batch)
    /\ UNCHANGED <<mailVars, due, sincePublish, coalescer>>

(* The next throttled slice takes a fresh anchor.                          *)
forgetAnchor == lag' = NoAnchor /\ sinceResumed' = 0

(* A mutated form: the anchor of before the pause is kept.                 *)
CarryStartKeepingAnchor ==
    /\ Carry("start")
    /\ running' = TRUE
    /\ sinceResumed' = 0
    /\ UNCHANGED <<pc, stopped, lag, haltedPublished, mainQueue, printerVars>>

CarryStart ==
    /\ Carry("start")
    /\ running' = TRUE
    /\ forgetAnchor
    /\ UNCHANGED <<pc, stopped, haltedPublished, mainQueue, printerVars>>

CarryPause ==
    /\ Carry("pause")
    /\ running' = FALSE
    /\ UNCHANGED <<pc, stopped, lag, sinceResumed, haltedPublished, mainQueue,
                   printerVars>>

(* Machine.reset: the printer stays connected, and keeps what it holds.    *)
CarryReset ==
    /\ Carry("reset")
    /\ stopped' = "no"
    /\ running' = FALSE
    /\ forgetAnchor
    /\ haltedPublished' = FALSE
    /\ UNCHANGED <<pc, mainQueue, printerVars>>

CarrySetThrottled ==
    /\ Carry("setThrottled")
    /\ forgetAnchor
    /\ UNCHANGED <<pc, runState, haltedPublished, mainQueue, printerVars>>

CarryDevice ==
    /\ Carry("device")
    /\ UNCHANGED <<pc, runState, lag, sinceResumed, haltedPublished, mainQueue,
                   printerVars>>

(* A closed job is handed to the main queue at once (onPrintJob).          *)
DispatchJobs ==
    mainQueue' = IF Len(jobs') > Len(jobs) THEN Append(mainQueue, JobBlock)
                 ELSE mainQueue

(* A mutated form: the loop goes on.                                       *)
CarryShutdownGoingOn ==
    /\ Carry("shutdown")
    /\ flush
    /\ DispatchJobs
    /\ UNCHANGED <<pc, runState, lag, sinceResumed, haltedPublished>>

(* The gate is signalled and the thread returns; what is behind it in the  *)
(* batch is never carried out.                                             *)
CarryShutdown ==
    /\ Carry("shutdown")
    /\ flush
    /\ DispatchJobs
    /\ pc' = "ended"
    /\ UNCHANGED <<runState, lag, sinceResumed, haltedPublished>>

(* The printer is ticked in every state of the machine.                    *)
TickPrinter ==
    /\ pc = "commands"
    /\ batch = <<>>
    /\ tick
    /\ DispatchJobs
    /\ pc' = IF running /\ stopped = "no" THEN "slice" ELSE "idle"
    /\ UNCHANGED <<mailVars, batch, runState, pacing, publishing, coalescer>>

(* A mutated form: only the running branch publishes.                      *)
haltedStatusPublishNever == FALSE

haltedStatusPublish ==
    /\ stopped # "no"
    /\ ~haltedPublished \/ sincePublish >= PublishInterval

publishStatus ==
    /\ sincePublish' = 0
    /\ mainQueue' = Append(mainQueue, StatusBlock(stopped))

Idle ==
    /\ pc = "idle"
    /\ IF haltedStatusPublish
         THEN publishStatus /\ haltedPublished' = TRUE
         ELSE UNCHANGED <<mainQueue, publishing>>
    /\ pc' = "drain"
    /\ UNCHANGED <<mailVars, batch, runState, pacing, coalescer, printerVars>>

(* Governor.clampedTargetCycles: a lag beyond the ceiling is forgotten.    *)
clamped(cycles) == IF cycles > MaxCatchUp THEN 0 ELSE cycles

BeginSlice ==
    /\ pc = "slice"
    /\ IF throttledSnapshot
         THEN LET cycles == clamped(IF lag = NoAnchor THEN 0 ELSE lag)
              IN  due' = cycles /\ lag' = 0
         ELSE due' = Unpaced /\ lag' = NoAnchor
    /\ pc' = "running"
    /\ UNCHANGED <<mailVars, batch, runState, sinceResumed, publishing,
                   coalescer, mainQueue, printerVars>>

(* FrameCoalescer.offer: the latest frame replaces the one in the slot.    *)
offer ==
    /\ pendingFrame' = TRUE
    /\ scheduled' = TRUE

(* The slice ends at its target, or short of it with the machine stopped.  *)
(* It may have published frames.                                           *)
EndSlice(stop, executed, frame) ==
    /\ pc = "running"
    /\ stopped' = stop
    /\ lag' = IF due = Unpaced THEN NoAnchor ELSE Least(lag + due - executed, MaxLag)
    /\ due' = 0
    /\ IF frame THEN offer ELSE UNCHANGED coalescer
    /\ pc' = IF frame /\ ~scheduled THEN "dispatch" ELSE "status"
    /\ UNCHANGED <<mailVars, batch, running, sinceResumed, publishing,
                   mainQueue, printerVars>>

SliceEnds(frame) ==
    \/ EndSlice("no", due, frame)
    \/ \E stop \in {"halted", "off"}, executed \in {due} \cup 0 .. due :
           EndSlice(stop, executed, frame)

DispatchApply ==
    /\ pc = "dispatch"
    /\ mainQueue' = Append(mainQueue, ApplyBlock)
    /\ pc' = "status"
    /\ UNCHANGED <<mailVars, batch, runState, pacing, publishing, coalescer,
                   printerVars>>

PublishStatus ==
    /\ pc = "status"
    /\ IF sincePublish >= PublishInterval
         THEN publishStatus
         ELSE UNCHANGED <<mainQueue, sincePublish>>
    /\ pc' = "drain"
    /\ UNCHANGED <<mailVars, batch, runState, pacing, haltedPublished,
                   coalescer, printerVars>>

LoopStep ==
    \/ Drain
    \/ CarryStart \/ CarryPause \/ CarryReset \/ CarrySetThrottled
    \/ CarryDevice \/ CarryShutdown
    \/ TickPrinter
    \/ Idle
    \/ BeginSlice \/ DispatchApply \/ PublishStatus

(* The guest writes a byte to the printer's port within a slice.           *)
GuestTransmits(b) ==
    /\ pc = "running"
    /\ transmit(b)
    /\ UNCHANGED controllerVars

(* The host's clock. The thread spends its time sleeping and in slices.    *)
Elapse ==
    /\ pc \in {"drain", "running"}
    /\ PrinterElapse
    /\ lag' = IF lag = NoAnchor THEN NoAnchor ELSE Least(lag + 1, MaxLag)
    /\ sinceResumed' = Least(sinceResumed + 1, MaxCatchUp)
    /\ sincePublish' = Least(sincePublish + 1, PublishInterval)
    /\ UNCHANGED <<mailVars, threadVars, runState, due, haltedPublished,
                   coalescer, mainQueue>>

-----------------------------------------------------------------------------
(* The type invariant.                                                     *)
Blocks == {StatusBlock(s) : s \in {"no", "halted", "off"}} \cup {JobBlock, ApplyBlock}

ControllerTypeOK ==
    /\ mailbox \in Seq(Commands) /\ batch \in Seq(Commands)
    /\ throttledSnapshot \in BOOLEAN
    /\ pc \in {"drain", "commands", "idle", "slice", "running", "dispatch",
               "status", "ended"}
    /\ running \in BOOLEAN /\ stopped \in {"no", "halted", "off"}
    /\ lag \in NoAnchor .. MaxLag /\ due \in Unpaced .. MaxCatchUp
    /\ sinceResumed \in 0 .. MaxCatchUp
    /\ haltedPublished \in BOOLEAN /\ sincePublish \in 0 .. PublishInterval
    /\ pendingFrame \in BOOLEAN /\ scheduled \in BOOLEAN
    /\ mainQueue \in Seq(Blocks)

(* A throttled slice never runs for longer than the host has, since the    *)
(* emulation was last started, reset or throttled, and never for longer    *)
(* than the ceiling: time spent paused or asleep is not caught up with,    *)
(* so a slice does not keep the mailbox waiting ("an unbounded catch-up    *)
(* slice after host suspend can hang quit", Governor.swift:47-51).         *)
PacedByTheClock ==
    pc = "running" /\ due # Unpaced => due <= sinceResumed /\ due <= MaxCatchUp

(* A job closes because the wire was silent for the idle window, counted   *)
(* from the last byte and not from the tick that noticed it, or because    *)
(* the thread shuts down; running, paused, halted or off (tick; .shutdown).*)
JobsEndInSilence ==
    [][Len(jobs') > Len(jobs) =>
          silence >= IdleWindow \/ pc' = "ended"]_<<jobs, pc>>
=============================================================================
