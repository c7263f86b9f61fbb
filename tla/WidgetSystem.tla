------------------------------ MODULE WidgetSystem ------------------------------
(***************************************************************************)
(* The drive of WidgetDrive.tla with the software on the other end of the  *)
(* cable: the single-block path of the Lisa OS ProFile driver. The driver  *)
(* is 68000 code and not part of this repository; it is modelled from how  *)
(* WidgetDrive.swift expects to be driven (its header comment and          *)
(* docs/hardware-notes.md section 10) and how the test Harness of          *)
(* WidgetDriveTests.swift drives it. One driver action is one access to a  *)
(* VIA1 register, so the machine may be reset, or the disk attached or     *)
(* detached by the application, between any two of them.                   *)
(***************************************************************************)
EXTENDS WidgetDrive

CONSTANTS
    Requests,   \* [op : {"read", "write", "format"}, block, tag, data]
    NoRequest   \* the request shown while the driver is free

ASSUME SystemAssumption ==
    /\ {ReplyProceed, Zeros} \subseteq Replies
    /\ {ReadCommand, WriteCommand, 2} \subseteq Words
    /\ Requests \subseteq [op : {"read", "write", "format"},
                            block : Words, tag : Words, data : Words]
    /\ NoRequest \notin Requests

VARIABLES
    pc,        \* where the driver is
    request,   \* the request it is serving, or served last
    stage,     \* which of the handshakes it is in: 1, 2 or (writes) 3
    sent,      \* words of the command or of the write stream sent
    got,       \* words read off the stream
    answer,    \* the last answer: [ok, words]
    unplugged, \* history: attach or detach since the request was submitted
    refusals   \* history: requests failed in a row by a response it refused

driverVars == <<pc, request, stage, sent, got, answer, unplugged, refusals>>
vars       == <<driveVars, driverVars>>

CommandCode(op) == CASE op = "read"   -> ReadCommand
                     [] op = "write"  -> WriteCommand
                     [] op = "format" -> 2

Expected == CASE stage = 1 -> RespIdleReady
              [] stage = 2 -> IF request.op = "write" THEN RespWriteAccepted
                                                      ELSE RespReadAccepted
              [] stage = 3 -> RespPostWrite

CommandBlock == <<CommandCode(request.op), request.block, Zeros>>
WriteStream  == <<request.tag, request.data>>
Failure      == [ok |-> FALSE, words |-> <<>>]
Fatal(w)     == w >= FatalStatus    \* the mask $C140C000 sees bit 7 of byte 0

-----------------------------------------------------------------------------
Submit(r) ==
    /\ pc = "free"
    /\ pc' = "clear"
    /\ request' = r
    /\ stage' = 1
    /\ sent' = 0
    /\ got' = <<>>
    /\ unplugged' = FALSE
    /\ UNCHANGED <<driveVars, answer, refusals>>

Finish(a, refused) ==
    /\ pc' = "free"
    /\ answer' = a
    /\ refusals' = IF refused /\ ~unplugged THEN refusals + 1 ELSE 0
    /\ UNCHANGED <<request, stage, sent, got, unplugged>>

Goto(label) ==
    /\ pc' = label
    /\ UNCHANGED <<request, stage, sent, got, answer, unplugged, refusals>>

(* DOSHAKE: clear the flag, wait for BSY = 1, assert CMD, wait for BSY = 0,*)
(* read the response, reply, deassert CMD.                                 *)
ClearBusyFlag == pc = "clear" /\ ClearFlag /\ Goto("raise")

RaiseCMD == pc = "raise" /\ BSY /\ portBWrite(TRUE) /\ Goto("sense")

Sense ==
    /\ pc = "sense"
    /\ ~BSY
    /\ Goto(IF portAInput = Expected THEN "proceed" ELSE "refuse")
    /\ UNCHANGED driveVars

Proceed == pc = "proceed" /\ writePORTA(ReplyProceed) /\ Goto("drop")

Refuse == pc = "refuse" /\ writePORTA(Zeros) /\ Goto("dropRefused")

Drop ==
    /\ pc = "drop"
    /\ portBWrite(FALSE)
    /\ Goto(CASE stage = 1 -> "send"
              [] stage = 2 -> IF request.op = "write" THEN "fill" ELSE "park"
              [] stage = 3 -> "drain")

DropFailed ==
    /\ pc \in {"dropRefused", "dropLate"}
    /\ portBWrite(FALSE)
    /\ Finish(Failure, pc = "dropRefused")

NextStage(s) ==
    /\ pc' = "clear"
    /\ stage' = s
    /\ sent' = 0
    /\ UNCHANGED <<request, got, answer, unplugged, refusals>>

Send ==
    /\ pc = "send"
    /\ writeORA(CommandBlock[sent + 1])
    /\ IF sent + 1 = CommandWords
         THEN NextStage(2)
         ELSE /\ sent' = sent + 1
              /\ UNCHANGED <<pc, request, stage, got, answer, unplugged,
                             refusals>>

Fill ==
    /\ pc = "fill"
    /\ writeORA(WriteStream[sent + 1])
    /\ IF sent + 1 = WriteWords
         THEN Goto("park")
         ELSE /\ sent' = sent + 1
              /\ UNCHANGED <<pc, request, stage, got, answer, unplugged,
                             refusals>>

(* The driver parks until the level-1 interrupt.                           *)
Park ==
    /\ pc = "park"
    /\ ifrCA1
    /\ UNCHANGED driveVars
    /\ IF request.op = "write" THEN NextStage(3) ELSE Goto("drain")

(* A fatal status ends the request, the rest of its stream is left.        *)
Drain ==
    /\ pc = "drain"
    /\ readIRA
    /\ LET words == Append(got, portAInput)
       IN  IF Fatal(words[1])
             THEN Finish(Failure, FALSE)
             ELSE IF Len(words) = (IF request.op = "read" THEN 3 ELSE 1)
               THEN Finish([ok |-> TRUE, words |-> Tail(words)], FALSE)
               ELSE /\ got' = words
                    /\ UNCHANGED <<pc, request, stage, sent, answer,
                                   unplugged, refusals>>

(* The driver's timers, orders of magnitude longer than the drive's delays:*)
(* they expire only when nothing is coming any more.                       *)
TimeOut ==
    /\ \/ /\ pc = "sense" /\ BSY
          /\ Goto("dropLate")
       \/ /\ pc = "park" /\ ~ifrCA1 /\ completions = 0
          /\ Finish(Failure, FALSE)
    /\ UNCHANGED driveVars

DriverStep ==
    \/ ClearBusyFlag \/ RaiseCMD \/ Sense \/ Proceed \/ Refuse \/ Drop
    \/ DropFailed \/ Send \/ Fill \/ Park \/ Drain \/ TimeOut

-----------------------------------------------------------------------------
(* The application attaches and detaches disks, and resets the machine:    *)
(* the driver's software starts over with it.                              *)
Plug ==
    /\ (\E i \in Images : Attach(i)) \/ Detach
    /\ unplugged' = TRUE
    /\ refusals' = 0
    /\ UNCHANGED <<pc, request, stage, sent, got, answer>>

MachineReset ==
    /\ Reset
    /\ pc' = "free"
    /\ refusals' = 0
    /\ UNCHANGED <<request, stage, sent, got, answer, unplugged>>

SystemInit ==
    /\ Init
    /\ pc = "free"
    /\ request = NoRequest
    /\ stage = 1
    /\ sent = 0
    /\ got = <<>>
    /\ answer = Failure
    /\ unplugged = FALSE
    /\ refusals = 0

SystemNext ==
    \/ \E r \in Requests : Submit(r)
    \/ DriverStep
    \/ Completion /\ UNCHANGED driverVars
    \/ Plug
    \/ MachineReset

SystemSpec ==
    /\ SystemInit
    /\ [][SystemNext]_vars
    /\ WF_vars(DriverStep)
    /\ WF_vars(Completion /\ UNCHANGED driverVars)

-----------------------------------------------------------------------------
(* The handshakes, streams and interrupts of the drive and its driver      *)
(* together keep the promise of a block device, through resets of the      *)
(* machine, failing files and disks pulled in mid-transfer.                *)
Device == INSTANCE BlockDevice WITH
    Units    <- Images,
    NoUnit   <- NoImage,
    Size     <- BlockCount,
    Geometry <- DeviceInfoBlock,
    Jobs     <- Requests,
    NoJob    <- NoRequest,
    disk     <- store,
    unit     <- image,
    job      <- IF pc = "free" THEN NoRequest ELSE request,
    pulled   <- unplugged,
    answer   <- answer

ImplementsBlockDevice == Device!Spec

(* Every request is answered: no handshake waits for a level, an edge or a *)
(* completion that never comes, whatever state the drive was left in.      *)
EveryRequestIsAnswered == pc # "free" ~> pc = "free"

(* A drive left in the middle of a stream (its driver stops at a fatal     *)
(* status) costs at most the next request: its refusal rewinds the drive   *)
(* (handleReply), and the request after it finds the drive ready.          *)
OneRefusalResynchronises == refusals <= 1
=============================================================================
