--------------------------------- MODULE Shell ---------------------------------
(***************************************************************************)
(* The application: the emulation thread of Controller.tla, the main       *)
(* thread with the menu actions of LisaApp/Sources/AppModel.swift and the  *)
(* blocks of its queue, and a guest that prints. The guest's driver        *)
(* (LibPr/CiDev of the Lisa OS) is not part of this repository: it sends   *)
(* whole commands of the format in docs/hardware-notes.md section 12, a    *)
(* byte at a time, and a reset of the machine cuts it off.                 *)
(*                                                                         *)
(* Whether a job taken off the queue is shown in a panel is the user's     *)
(* switch printerConnected, and the picture of a frame is layout: neither  *)
(* is modelled.                                                            *)
(***************************************************************************)
EXTENDS Controller, FiniteSetsExt

CONSTANTS
    Scenarios,   \* bound: records [user, may, frames, script]: the user gives at
                 \*   most user commands of the set may ("toggle", "reset",
                 \*   "throttle", "device", "quit"), at most frames slices publish
                 \*   frames, and the guest prints script, a sequence of bytes
    MaxBlocks    \* bound: blocks the main thread lags behind by the clock

ASSUME ShellAssumption ==
    \A s \in Scenarios : s.script \in Seq(Wire)

VARIABLES
    mainPc,          \* the main thread: "idle", "restarting", "joining", "exited"
    modelRunning,    \* AppModel.running
    modelThrottled,  \* AppModel.throttled
    shown,           \* AppModel.status, as far as it says that the machine stopped
    toSend,          \* what is left of the script the guest is printing
    budget           \* what is left of the scenario's commands and frames

modelVars == <<mainPc, modelRunning, modelThrottled, shown>>
vars      == <<printerVars, controllerVars, modelVars, toSend, budget>>

Quitting == mainPc \in {"joining", "exited"}

-----------------------------------------------------------------------------
(* Menu actions.                                                           *)
User(command) ==
    /\ mainPc = "idle"
    /\ command \in budget.may
    /\ budget.user > 0
    /\ budget' = [budget EXCEPT !.user = @ - 1]
    /\ UNCHANGED <<printerVars, threadVars, runState, pacing, publishing,
                   coalescer, mainQueue, shown, toSend>>

toggleRunning ==
    /\ User("toggle")
    /\ Post(IF modelRunning THEN "pause" ELSE "start")
    /\ modelRunning' = ~modelRunning
    /\ UNCHANGED <<mainPc, modelThrottled>>

(* Two commands: the emulation thread may drain the first one alone.       *)
reset ==
    /\ User("reset")
    /\ Post("reset")
    /\ modelRunning' = TRUE
    /\ mainPc' = "restarting"
    /\ UNCHANGED modelThrottled

(* A mutated form: the machine is left paused.                             *)
restartForgotten ==
    /\ mainPc = "restarting"
    /\ mainPc' = "idle"
    /\ UNCHANGED <<mailVars, printerVars, threadVars, runState, pacing, publishing,
                   coalescer, mainQueue, modelRunning, modelThrottled, shown,
                   toSend, budget>>

restart ==
    /\ mainPc = "restarting"
    /\ Post("start")
    /\ mainPc' = "idle"
    /\ UNCHANGED <<printerVars, threadVars, runState, pacing, publishing,
                   coalescer, mainQueue, modelRunning, modelThrottled, shown,
                   toSend, budget>>

toggleThrottled ==
    /\ User("throttle")
    /\ modelThrottled' = ~modelThrottled
    /\ PostThrottled(~modelThrottled)
    /\ UNCHANGED <<mainPc, modelRunning>>

useDevice ==
    /\ User("device")
    /\ Post("device")
    /\ UNCHANGED <<mainPc, modelRunning, modelThrottled>>

(* applicationWillTerminate: the main thread drops the controller, whose   *)
(* deinit posts the command and blocks until the gate is signalled.        *)
quit ==
    /\ User("quit")
    /\ Post("shutdown")
    /\ mainPc' = "joining"
    /\ UNCHANGED <<modelRunning, modelThrottled>>

joined ==
    /\ mainPc = "joining"
    /\ pc = "ended"
    /\ mainPc' = "exited"
    /\ UNCHANGED <<printerVars, controllerVars, modelRunning, modelThrottled,
                   shown, toSend, budget>>

-----------------------------------------------------------------------------
(* The blocks of the main queue.                                           *)
RunBlock(kind) ==
    /\ mainPc = "idle"
    /\ mainQueue # <<>>
    /\ Head(mainQueue).kind = kind
    /\ mainQueue' = Tail(mainQueue)
    /\ UNCHANGED <<mailVars, threadVars, runState, pacing, publishing, mainPc,
                   modelRunning, modelThrottled, toSend, budget>>

RunStatus ==
    /\ RunBlock("status")
    /\ shown' = Head(mainQueue).stopped
    /\ UNCHANGED <<coalescer, printerVars>>

RunJob ==
    /\ RunBlock("job")
    /\ TakeJob
    /\ UNCHANGED <<coalescer, shown>>

take == pendingFrame' = FALSE /\ scheduled' = FALSE

RunApply ==
    /\ RunBlock("frame")
    /\ take
    /\ UNCHANGED <<shown, printerVars>>

MainStep == RunStatus \/ RunJob \/ RunApply \/ restart \/ joined

-----------------------------------------------------------------------------
(* The guest prints.                                                       *)
SendByte ==
    /\ toSend # <<>>
    /\ GuestTransmits(Head(toSend))
    /\ toSend' = Tail(toSend)
    /\ UNCHANGED <<modelVars, budget>>

(* A step of the thread; a reset cuts the guest off.                       *)
Emulation ==
    /\ \/ LoopStep /\ UNCHANGED budget
       \/ SliceEnds(FALSE) /\ UNCHANGED budget
       \/ /\ budget.frames > 0
          /\ SliceEnds(TRUE)
          /\ budget' = [budget EXCEPT !.frames = @ - 1]
    /\ toSend' = IF pc = "commands" /\ batch # <<>> /\ Head(batch) = "reset"
                 THEN <<>> ELSE toSend
    /\ UNCHANGED modelVars

(* The clock waits for a main thread that is far behind (MaxBlocks).       *)
Clock ==
    /\ Len(mainQueue) < MaxBlocks
    /\ Elapse
    /\ UNCHANGED <<modelVars, toSend, budget>>

(* AppModel.init has posted its two commands.                              *)
Init ==
    /\ PrinterInit
    /\ mailbox = <<"setThrottled", "start">> /\ throttledSnapshot = TRUE
    /\ pc = "drain" /\ batch = <<>>
    /\ running = FALSE /\ stopped = "no"
    /\ lag = NoAnchor /\ due = 0 /\ sinceResumed = 0
    /\ haltedPublished = FALSE /\ sincePublish = 0
    /\ pendingFrame = FALSE /\ scheduled = FALSE
    /\ mainQueue = <<>>
    /\ mainPc = "idle" /\ modelRunning = TRUE /\ modelThrottled = TRUE
    /\ shown = "none"
    /\ \E s \in Scenarios :
          /\ toSend = s.script
          /\ budget = [user |-> s.user, may |-> s.may, frames |-> s.frames]

Next ==
    \/ toggleRunning \/ reset \/ toggleThrottled \/ useDevice \/ quit
    \/ MainStep
    \/ SendByte
    \/ Emulation
    \/ Clock

(* Fairness: both threads are scheduled. The clock goes on: strongly fair, *)
(* for it moves only where the thread spends time, and the thread goes     *)
(* from one such place to the next. The user and the guest need do nothing.*)
Spec == /\ Init /\ [][Next]_vars
        /\ WF_vars(Emulation) /\ WF_vars(MainStep) /\ SF_vars(Clock)

-----------------------------------------------------------------------------
TypeOK ==
    /\ PrinterTypeOK
    /\ ControllerTypeOK
    /\ mainPc \in {"idle", "restarting", "joining", "exited"}
    /\ modelRunning \in BOOLEAN /\ modelThrottled \in BOOLEAN
    /\ shown \in {"none", "no", "halted", "off"}

(* What is posted and not yet carried out, and which of it starts or stops.*)
ToCarry     == batch \o mailbox
RunCommands == {n \in DOMAIN ToCarry : ToCarry[n] \in {"start", "pause", "reset"}}

(* What the menu shows as running and throttled is what the emulation      *)
(* thread will be once it has carried out what was posted, however it      *)
(* drains the commands of the menu actions (toggleRunning, reset).         *)
MenuIsTrue ==
    mainPc # "restarting" =>
       /\ modelRunning = IF RunCommands = {} THEN running
                         ELSE ToCarry[Max(RunCommands)] = "start"
       /\ modelThrottled = throttledSnapshot

(* A machine that halted or powered off is shown so, whatever it was doing *)
(* when it stopped, unless the user resets it or quits first ("so the app  *)
(* reliably learns the transition", EmulationController.swift:614).        *)
StopIsShown ==
    /\ stopped = "halted" ~> shown = "halted" \/ stopped # "halted" \/ Quitting
    /\ stopped = "off" ~> shown = "off" \/ stopped # "off" \/ Quitting

(* What was printed reaches the sink, also when the machine is paused,     *)
(* halted, off or reset in the middle of the job.                          *)
EveryPrintIsHandedOver ==
    inked > 0 ~> handled = 1 .. inked \/ Quitting

(* The main thread, blocked in deinit, always comes back: no slice, no     *)
(* batch and no queue keeps the thread from its shutdown command.          *)
QuitIsJoined == mainPc = "joining" ~> mainPc = "exited"

(* A print is not lost by quitting ("so a print in flight at quit isn't    *)
(* silently lost", EmulationController.swift:597): the process ends with   *)
(* it handed over.                                                         *)
QuitKeepsThePrint == mainPc = "exited" => handled = 1 .. inked
=============================================================================
