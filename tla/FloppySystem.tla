------------------------------ MODULE FloppySystem ------------------------------
(***************************************************************************)
(* The controller of Floppy.tla with the Sony driver of the Lisa OS: a     *)
(* request is staged in the window and started with a go-byte, the driver  *)
(* waits for the interrupt, and its handler (DISK_INT) reads DISKSTAT,     *)
(* clears it and acts on it. The driver is 68000 code and not part of this *)
(* repository: it is modelled from docs/hardware-notes.md section 9, the   *)
(* comments of FloppyController.swift and the traced sequence in           *)
(* docs/macworks-plus-notes.md:214-222. Its handler interrupts it anywhere. *)
(***************************************************************************)
EXTENDS Floppy

CONSTANTS
    Requests,    \* [op, address, word], where op is "read", "write", "eject"
                 \*   or "format"
    NoRequest,   \* the request while the driver is free
    NoWord,      \* the word of an answer without one
    MaxHands,    \* bound: insertions and ejections by hand
    MaxResets    \* bound: resets of the machine

ASSUME FloppySystemAssumption ==
    /\ {ExCmd, ClrIStat, EnabStat} \subseteq GoBytes
    /\ Requests \subseteq [op : {"read", "write", "eject", "format"},
                            address : Address, word : Words]
    /\ NoRequest \notin Requests

VARIABLES
    pc,         \* where the driver is
    request,    \* the request it serves, or served last
    handler,    \* where its interrupt handler is, or "none"
    seen,       \* DISKSTAT as the handler read it
    present,    \* disk_present, what the driver believes
    answer,     \* the last answer: [ok, word]
    performed,  \* history: the request's go-byte was decoded
    hands,      \* history: how often a diskette was swapped by hand
    resets,     \* history: how often the machine was reset
    attention   \* history: a diskette was inserted since the last reset

driverVars  == <<pc, request, handler, seen, present, answer>>
historyVars == <<performed, hands, resets, attention>>
vars        == <<floppyVars, driverVars, historyVars>>

Failure == [ok |-> FALSE, word |-> NoWord]

SubCommand(op) == CASE op = "read" -> ReadDisk
                    [] op = "write" -> WriteDisk
                    [] op = "eject" -> Unclamp
                    [] op = "format" -> Format

-----------------------------------------------------------------------------
(* The request side; the handler runs before it goes on.                   *)
At(label)   == pc = label /\ handler = "none"
Goto(label) == pc' = label /\ UNCHANGED <<request, handler, seen, present, answer>>

(* The driver enables the drive and takes its only look at DISKIN.         *)
Initialise ==
    /\ At("init")
    /\ WriteDiskCmd(EnabStat)
    /\ pc' = "free"
    /\ present' = diskIn
    /\ UNCHANGED <<request, handler, seen, answer, historyVars>>

(* dskunclamp notes by itself that the diskette is gone.                   *)
Submit(r) ==
    /\ At("free")
    /\ present
    /\ pc' = "wait"
    /\ request' = r
    /\ present' = (r.op # "eject")
    /\ performed' = FALSE
    /\ UNCHANGED <<floppyVars, handler, seen, answer, hands, resets, attention>>

AwaitReady ==
    /\ At("wait")
    /\ diskCmd = Idle
    /\ Goto("parm")
    /\ UNCHANGED <<floppyVars, historyVars>>

StageParm ==
    /\ At("parm")
    /\ WriteParm(SubCommand(request.op))
    /\ Goto(IF request.op = "eject" THEN "go" ELSE "address")
    /\ UNCHANGED historyVars

StageAddress ==
    /\ At("address")
    /\ WriteAddress(request.address)
    /\ Goto(IF request.op = "write" THEN "buffer" ELSE "go")
    /\ UNCHANGED historyVars

StageBuffer ==
    /\ At("buffer")
    /\ WriteBuffer(request.word)
    /\ Goto("go")
    /\ UNCHANGED historyVars

Go ==
    /\ At("go")
    /\ WriteDiskCmd(ExCmd)
    /\ Goto("waiting")
    /\ UNCHANGED historyVars

RequestStep ==
    Initialise \/ AwaitReady \/ StageParm \/ StageAddress \/ StageBuffer \/ Go

-----------------------------------------------------------------------------
(* DISK_INT.                                                               *)
Handling(from, to) ==
    /\ handler = from
    /\ handler' = to

Interrupt ==
    /\ completionLine
    /\ Handling("none", "status")
    /\ UNCHANGED <<floppyVars, pc, request, seen, present, answer, historyVars>>

ReadStatus ==
    /\ Handling("status", "clear")
    /\ seen' = diskStat
    /\ UNCHANGED <<floppyVars, pc, request, present, answer, historyVars>>

ClearStatus ==
    /\ Handling("clear", "cleared")
    /\ diskCmd = Idle
    /\ WriteDiskCmd(ClrIStat)
    /\ UNCHANGED <<pc, request, seen, present, answer, historyVars>>

AwaitCleared ==
    /\ Handling("cleared", "act")
    /\ diskCmd = Idle
    /\ UNCHANGED <<floppyVars, pc, request, seen, present, answer, historyVars>>

(* What the request came to: DISKERR, and the buffer of a read.            *)
Outcome ==
    IF diskErr # NoError THEN Failure
    ELSE [ok |-> TRUE, word |-> IF request.op = "read" THEN buffer ELSE NoWord]

Act ==
    /\ Handling("act", "none")
    /\ present' = (present \/ "in" \in seen)
    /\ IF "done" \in seen /\ pc = "waiting"
         THEN /\ answer' = Outcome
              /\ pc' = "free"
              /\ performed' = FALSE
         ELSE UNCHANGED <<answer, pc, performed>>
    /\ UNCHANGED <<floppyVars, request, seen, hands, resets, attention>>

HandlerStep == Interrupt \/ ReadStatus \/ ClearStatus \/ AwaitCleared \/ Act

-----------------------------------------------------------------------------
Decode ==
    /\ processGoByte
    /\ performed' = (performed \/ Head(decodes) = ExCmd)
    /\ UNCHANGED <<driverVars, hands, resets, attention>>

Raise == RaiseInterrupt /\ UNCHANGED <<driverVars, historyVars>>

(* The user swaps diskettes and resets the machine.                        *)
InsertByHand ==
    /\ hands < MaxHands
    /\ \E d \in Disks : InsertWhileRunning(d)
    /\ hands' = hands + 1
    /\ attention' = TRUE
    /\ UNCHANGED <<driverVars, performed, resets>>

EjectByHand ==
    /\ hands < MaxHands
    /\ Eject
    /\ hands' = hands + 1
    /\ UNCHANGED <<driverVars, performed, resets, attention>>

MachineReset ==
    /\ resets < MaxResets
    /\ resets' = resets + 1
    /\ Reset
    /\ pc' = "init" /\ handler' = "none" /\ seen' = {} /\ present' = FALSE
    /\ performed' = FALSE /\ attention' = FALSE
    /\ UNCHANGED <<request, answer, hands>>

(* The machine is switched on with a diskette in the drive, or none.       *)
SystemInit ==
    /\ image \in Disks \cup {NoDisk} /\ sessionOverlay = EmptySession
    /\ diskIn = (image # NoDisk) /\ diskFlg = DoubleSidedFlag(image)
    /\ diskCmd = Idle /\ diskParm = 0 /\ address = NoAddress
    /\ buffer = Zero /\ diskAck = FALSE /\ diskErr = NoError
    /\ diskStat = {} /\ commandInFlight = FALSE /\ decodes = <<>>
    /\ raises = <<>> /\ completionLine = FALSE
    /\ pc = "init" /\ request = NoRequest /\ handler = "none" /\ seen = {}
    /\ present = FALSE /\ answer = Failure
    /\ performed = FALSE /\ hands = 0 /\ resets = 0 /\ attention = FALSE

SystemNext ==
    \/ \E r \in Requests : Submit(r)
    \/ RequestStep
    \/ HandlerStep
    \/ Decode
    \/ Raise
    \/ InsertByHand
    \/ EjectByHand
    \/ MachineReset

(* Fairness: the machine runs its due events, and the driver goes on.      *)
SystemSpec ==
    /\ SystemInit
    /\ [][SystemNext]_vars
    /\ WF_vars(RequestStep) /\ WF_vars(HandlerStep)
    /\ WF_vars(Decode) /\ WF_vars(Raise)

-----------------------------------------------------------------------------
(* The addresses requests name, and what a diskette holds at them.         *)
Addresses == {r.address : r \in Requests}

Contents(d, session) ==
    [a \in {x \in Addresses : blockNumber(x, IsDoubleSided(d)) \in Blocks(d)} |->
        Content(d, session, blockNumber(a, IsDoubleSided(d)))]

(* The window, the two delays and the handler together are a diskette      *)
(* drive: every request takes effect once, on the diskette in the drive at *)
(* that moment, and is answered with its effect, through swaps, resets and *)
(* attentions that interrupt the driver anywhere.                          *)
Drive == INSTANCE Diskette WITH
    Jobs   <- Requests,
    NoJob  <- NoRequest,
    Media  <- {Contents(d, EmptySession) : d \in Disks},
    medium <- IF image = NoDisk THEN [a \in {} |-> NoWord]
                                ELSE Contents(image, sessionOverlay),
    job    <- IF pc \in {"init", "free"} THEN NoRequest ELSE request,
    effect <- IF performed THEN <<Outcome>> ELSE <<>>

ImplementsDiskette == Drive!Spec

(* Every request is answered, unless a media-change attention came since   *)
(* the last reset: a clristat may then clear the completion as well, see   *)
(* InsertionIsNoticed.                                                     *)
EveryRequestIsAnswered == pc # "free" ~> pc = "free" \/ attention

(* A diskette inserted while the machine runs is noticed by the driver     *)
(* ("DISK_INT sees bot_in and sets disk_present := gooddisk + KEYPUSHED,   *)
(* which wakes an app blocked in a Mount retry loop",                      *)
(* FloppyController.swift:536-539).                                        *)
InsertionIsNoticed == diskIn /\ ~present ~> present \/ ~diskIn
=============================================================================
