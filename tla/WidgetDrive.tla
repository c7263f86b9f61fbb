------------------------------ MODULE WidgetDrive ------------------------------
(***************************************************************************)
(* The Widget/ProFile parallel hard disk of Sources/LisaCore/              *)
(* WidgetDrive.swift, with the block store of WidgetImage.swift, as the    *)
(* Lisa sees it through VIA1: a CMD strobe on Port B, response codes and   *)
(* replies on PORTA (register 15), a byte stream on ORA/IRA (register 1).  *)
(*                                                                         *)
(* A run of wire bytes of one role is one WORD, a natural number: the      *)
(* six-byte command is three words (command, block, retry parameters), a   *)
(* write stream two (tag, data), a read stream three (status, tag, data).  *)
(* Words of different roles share their values, as the bytes do, so a word *)
(* taken for one of another role is not noticed by its type.               *)
(***************************************************************************)
EXTENDS Naturals, Sequences

CONSTANTS
    Images,          \* the image files that can be attached
    NoImage,         \* the value of image while nothing is attached
    BlockCount,      \* BlockCount[i]: the number of blocks of image i
    DeviceInfoBlock, \* the block number ($FFFFFF) that reads the geometry
    Replies,         \* the values the host may write to PORTA
    Words,           \* the values the host may write to ORA
    MaxCompletions   \* bound: completion events that may be pending at once

(* The register values of the enums Code and Command, and the words a      *)
(* status, an idle Port A and a never-written block read as.               *)
RespIdleReady     == 1
RespReadAccepted  == 2
RespWriteAccepted == 3
RespPostWrite     == 6
ReplyProceed      == 85
ReadCommand       == 0
WriteCommand      == 1
OkStatus          == 0
FatalStatus       == 128
Floating          == 255
Zeros             == 0

CommandWords == 3    \* command, block, parameters: the 6-byte command block
WriteWords   == 2    \* tag, data: the 532-byte write stream

ASSUME WidgetAssumption ==
    /\ NoImage \notin Images
    /\ BlockCount \in [Images -> Nat]
    /\ DeviceInfoBlock \in Nat
    /\ \A i \in Images : BlockCount[i] <= DeviceInfoBlock
    /\ Replies \subseteq Nat
    /\ Words \subseteq Nat
    /\ MaxCompletions \in Nat \ {0}

VARIABLES
    image,         \* the attached image, or NoImage
    store,         \* store[i][b]: the tag and data of block b in image file i
    phase,         \* where the drive is in a command transaction
    cmdAsserted,   \* the last level of the CMD strobe (active: TRUE)
    presented,     \* the byte on Port A
    responseCode,  \* the code a handshake phase presents
    commandAccum,  \* the words of the command block received so far
    outStream,     \* the words a read or status phase streams out
    outIdx,        \* how many of them have been read
    writeAccum,    \* the words of the write stream received so far
    pendingBlock,  \* the block of the last decoded command
    rejectNext,    \* the last decoded command was not supported
    lastStatus,    \* the status of the last transfer
    completions,   \* scheduled completion events not yet fired
    ifrCA1         \* VIA1 IFR bit 1, the drive's interrupt flag

media     == <<image, store>>
handshake == <<phase, cmdAsserted, presented, responseCode>>
command   == <<commandAccum, pendingBlock, rejectNext>>
stream    == <<outStream, outIdx>>
events    == <<completions, ifrCA1>>

driveVars == <<image, store, phase, cmdAsserted, presented, responseCode,
               commandAccum, outStream, outIdx, writeAccum, pendingBlock,
               rejectNext, lastStatus, completions, ifrCA1>>

Phases == {"idle", "firstHS", "awaitCommand", "acceptHS", "readData",
           "writeData", "postWriteHS", "postWriteStat"}
Contents       == [tag : Words \cup {Zeros}, data : Words \cup {Zeros}]
ValidBlocks(i) == {b \in 0 .. BlockCount[i] : b < BlockCount[i]}
Blank          == [tag |-> Zeros, data |-> Zeros]

-----------------------------------------------------------------------------
(* Media and reset.                                                        *)

(* A mutated form: the rewind forgets the level of the strobe.             *)
ResetKeepsStrobe ==
    /\ phase' = "idle"
    /\ UNCHANGED cmdAsserted
    /\ presented' = Floating
    /\ responseCode' = RespIdleReady
    /\ commandAccum' = <<>>
    /\ outStream' = <<>>
    /\ outIdx' = 0
    /\ writeAccum' = <<>>

resetTransaction ==
    /\ phase' = "idle"
    /\ cmdAsserted' = FALSE
    /\ presented' = Floating
    /\ responseCode' = RespIdleReady
    /\ commandAccum' = <<>>
    /\ outStream' = <<>>
    /\ outIdx' = 0
    /\ writeAccum' = <<>>

Attach(i) ==
    /\ image' = i
    /\ resetTransaction
    /\ UNCHANGED <<store, pendingBlock, rejectNext, lastStatus, events>>

Detach ==
    /\ image' = NoImage
    /\ resetTransaction
    /\ UNCHANGED <<store, pendingBlock, rejectNext, lastStatus, events>>

(* Machine.reset empties the event queue before it resets the drive.       *)
Reset ==
    /\ resetTransaction
    /\ ifrCA1' = FALSE
    /\ completions' = 0
    /\ lastStatus' = OkStatus
    /\ UNCHANGED <<media, pendingBlock, rejectNext>>

-----------------------------------------------------------------------------
(* Port B: the CMD strobe.                                                 *)

StreamWord(s, i) == IF i < Len(s) THEN s[i + 1] ELSE Floating

cmdAssertEdge ==
    \/ /\ phase = "idle"
       /\ phase' = "firstHS"
       /\ responseCode' = RespIdleReady
       /\ presented' = RespIdleReady
    \/ /\ phase \in {"firstHS", "acceptHS", "postWriteHS"}
       /\ presented' = responseCode
       /\ UNCHANGED <<phase, responseCode>>
    \/ /\ phase \in {"readData", "postWriteStat"}
       /\ presented' = StreamWord(outStream, outIdx)
       /\ UNCHANGED <<phase, responseCode>>
    \/ /\ phase \in {"awaitCommand", "writeData"}
       /\ UNCHANGED <<phase, responseCode, presented>>

portBWrite(asserted) ==
    \/ /\ image = NoImage
       /\ UNCHANGED driveVars
    \/ /\ image # NoImage
       /\ cmdAsserted' = asserted
       /\ IF asserted /\ ~cmdAsserted
            THEN cmdAssertEdge
            ELSE UNCHANGED <<phase, responseCode, presented>>
       /\ ifrCA1' = (ifrCA1 \/ asserted # cmdAsserted)
       /\ UNCHANGED <<media, command, stream, writeAccum, lastStatus,
                      completions>>

(* BSY (Port B bit 1) and the byte of Port A, as the host reads them.      *)
BSY        == image = NoImage \/ ~cmdAsserted
portAInput == IF image # NoImage THEN presented ELSE Floating

-----------------------------------------------------------------------------
(* PORTA writes: the host's reply to a response code.                      *)

(* scheduleEvent(completionDelayCycles) { raiseInterrupt() }               *)
scheduleCompletion ==
    /\ completions < MaxCompletions
    /\ completions' = completions + 1

(* The words of the read of a block: status first, then tag and data. The  *)
(* geometry block carries the drive type and the disc size.                *)
readStatus(b) ==
    IF b = DeviceInfoBlock \/ b < BlockCount[image] THEN OkStatus
                                                    ELSE FatalStatus

(* A mutated form: the data comes before the tag.                          *)
DataFirstStream(b) ==
    IF b = DeviceInfoBlock
      THEN <<OkStatus, Zeros, BlockCount[image]>>
      ELSE IF b < BlockCount[image]
             THEN <<OkStatus, store[image][b].data, store[image][b].tag>>
             ELSE <<FatalStatus, Zeros, Zeros>>

readStream(b) ==
    IF b = DeviceInfoBlock
      THEN <<OkStatus, Zeros, BlockCount[image]>>
      ELSE IF b < BlockCount[image]
             THEN <<OkStatus, store[image][b].tag, store[image][b].data>>
             ELSE <<FatalStatus, Zeros, Zeros>>

RejectTransfer ==
    /\ rejectNext
    /\ rejectNext' = FALSE
    /\ lastStatus' = FatalStatus
    /\ outStream' = <<FatalStatus>>
    /\ outIdx' = 0
    /\ presented' = FatalStatus
    /\ phase' = "readData"
    /\ UNCHANGED <<media, cmdAsserted, responseCode, commandAccum,
                   pendingBlock, writeAccum, events>>

WriteTransfer ==
    /\ ~rejectNext
    /\ commandAccum[1] = WriteCommand
    /\ phase' = "writeData"
    /\ writeAccum' = <<>>
    /\ UNCHANGED <<media, cmdAsserted, presented, responseCode, command,
                   stream, lastStatus, events>>

ReadTransfer ==
    /\ ~rejectNext
    /\ commandAccum[1] # WriteCommand
    /\ lastStatus' = readStatus(pendingBlock)
    /\ outStream' = readStream(pendingBlock)
    /\ outIdx' = 0
    /\ presented' = readStatus(pendingBlock)
    /\ phase' = "readData"
    /\ scheduleCompletion
    /\ UNCHANGED <<media, cmdAsserted, responseCode, command, writeAccum,
                   ifrCA1>>

beginTransferAfterAccept == RejectTransfer \/ WriteTransfer \/ ReadTransfer

openCommand ==
    /\ phase = "firstHS"
    /\ phase' = "awaitCommand"
    /\ commandAccum' = <<>>
    /\ UNCHANGED <<media, cmdAsserted, presented, responseCode, pendingBlock,
                   rejectNext, stream, writeAccum, lastStatus, events>>

postWriteStatus ==
    /\ phase = "postWriteHS"
    /\ phase' = "postWriteStat"
    /\ outStream' = <<lastStatus>>
    /\ outIdx' = 0
    /\ presented' = lastStatus
    /\ UNCHANGED <<media, cmdAsserted, responseCode, command, writeAccum,
                   lastStatus, events>>

proceed ==
    \/ openCommand
    \/ /\ phase = "acceptHS"
       /\ beginTransferAfterAccept
    \/ postWriteStatus
    \/ /\ phase \notin {"firstHS", "acceptHS", "postWriteHS"}
       /\ UNCHANGED driveVars

(* A mutated form: a refusal does not abandon the transaction.             *)
RefusalIgnored(v) ==
    \/ /\ v = ReplyProceed
       /\ proceed
    \/ /\ v # ReplyProceed
       /\ UNCHANGED driveVars

handleReply(v) ==
    \/ /\ v = ReplyProceed
       /\ proceed
    \/ /\ v = RespIdleReady
       /\ UNCHANGED driveVars
    \/ /\ v \notin {ReplyProceed, RespIdleReady}
       /\ resetTransaction
       /\ UNCHANGED <<media, pendingBlock, rejectNext, lastStatus, events>>

writePORTA(v) ==
    \/ /\ image = NoImage
       /\ UNCHANGED driveVars
    \/ /\ image # NoImage
       /\ handleReply(v)

-----------------------------------------------------------------------------
(* ORA writes: command and write-data words.                               *)

(* The block is decoded with the last word of the command.                 *)
decodeCommand ==
    LET cmd == commandAccum[1]
    IN  /\ pendingBlock' = commandAccum[2]
        /\ phase' = "acceptHS"
        /\ responseCode' = IF cmd = WriteCommand THEN RespWriteAccepted
                                                 ELSE RespReadAccepted
        /\ rejectNext' = (rejectNext \/ cmd \notin {ReadCommand, WriteCommand})

CommandWord(v) ==
    /\ phase = "awaitCommand"
    /\ commandAccum' = Append(commandAccum, v)
    /\ IF Len(commandAccum') = CommandWords
         THEN decodeCommand
         ELSE UNCHANGED <<phase, responseCode, pendingBlock, rejectNext>>
    /\ UNCHANGED <<media, cmdAsserted, presented, stream, writeAccum,
                   lastStatus, events>>

(* WidgetImage.write then flush. The file holds the data before the tag,   *)
(* so a failed write leaves the block old, half written or fully written   *)
(* (the flush failed): every one of them is reported as fatal.             *)
Torn(old, new) == {old, [old EXCEPT !.data = new.data], new}

(* A mutated form: a failed write is not noticed.                          *)
UncheckedCommit(new) ==
    \/ /\ pendingBlock < BlockCount[image]
       /\ \E c \in Torn(store[image][pendingBlock], new) :
             store' = [store EXCEPT ![image][pendingBlock] = c]
       /\ lastStatus' = OkStatus
    \/ /\ pendingBlock >= BlockCount[image]
       /\ lastStatus' = FatalStatus
       /\ UNCHANGED store

commitWrite(new) ==
    \/ /\ pendingBlock < BlockCount[image]
       /\ store' = [store EXCEPT ![image][pendingBlock] = new]
       /\ lastStatus' = OkStatus
    \/ /\ pendingBlock < BlockCount[image]
       /\ \E c \in Torn(store[image][pendingBlock], new) :
             store' = [store EXCEPT ![image][pendingBlock] = c]
       /\ lastStatus' = FatalStatus
    \/ /\ pendingBlock >= BlockCount[image]
       /\ lastStatus' = FatalStatus
       /\ UNCHANGED store

Received == [tag |-> writeAccum'[1], data |-> writeAccum'[2]]

WriteWord(v) ==
    /\ phase = "writeData"
    /\ writeAccum' = Append(writeAccum, v)
    /\ IF Len(writeAccum') = WriteWords
         THEN /\ commitWrite(Received)
              /\ responseCode' = RespPostWrite
              /\ phase' = "postWriteHS"
              /\ scheduleCompletion
         ELSE UNCHANGED <<store, lastStatus, responseCode, phase, completions>>
    /\ UNCHANGED <<image, cmdAsserted, presented, command, stream, ifrCA1>>

writeORA(v) ==
    \/ /\ image = NoImage \/ phase \notin {"awaitCommand", "writeData"}
       /\ UNCHANGED driveVars
    \/ /\ image # NoImage
       /\ CommandWord(v) \/ WriteWord(v)

-----------------------------------------------------------------------------
(* IRA reads: the stream advances under the host's reads.                  *)

advanceDataStream ==
    /\ phase \in {"readData", "postWriteStat"}
    /\ outIdx' = outIdx + 1
    /\ presented' = StreamWord(outStream, outIdx + 1)
    /\ IF outIdx + 1 >= Len(outStream)
         THEN phase' = "idle" /\ scheduleCompletion       \* finishRead
         ELSE UNCHANGED <<phase, completions>>
    /\ UNCHANGED <<media, cmdAsserted, responseCode, command, outStream,
                   writeAccum, lastStatus, ifrCA1>>

readIRA ==
    \/ /\ image = NoImage \/ phase \notin {"readData", "postWriteStat"}
       /\ UNCHANGED driveVars
    \/ /\ image # NoImage
       /\ advanceDataStream

(* A scheduled completion fires: raiseInterrupt().                         *)
Completion ==
    /\ completions > 0
    /\ completions' = completions - 1
    /\ ifrCA1' = TRUE
    /\ UNCHANGED <<media, handshake, command, stream, writeAccum, lastStatus>>

(* The host clears the flag (a write of bit 1 to VIA1's IFR).              *)
ClearFlag ==
    /\ ifrCA1' = FALSE
    /\ UNCHANGED <<media, handshake, command, stream, writeAccum, lastStatus,
                   completions>>

-----------------------------------------------------------------------------
Init ==
    /\ image = NoImage
    /\ store = [i \in Images |-> [b \in ValidBlocks(i) |-> Blank]]
    /\ phase = "idle"
    /\ cmdAsserted = FALSE
    /\ presented = Floating
    /\ responseCode = RespIdleReady
    /\ commandAccum = <<>>
    /\ outStream = <<>>
    /\ outIdx = 0
    /\ writeAccum = <<>>
    /\ pendingBlock = 0
    /\ rejectNext = FALSE
    /\ lastStatus = OkStatus
    /\ completions = 0
    /\ ifrCA1 = FALSE

(* Any host: the registers may be driven in any order, by any software.    *)
Next ==
    \/ \E i \in Images : Attach(i)
    \/ Detach
    \/ Reset
    \/ \E asserted \in BOOLEAN : portBWrite(asserted)
    \/ \E v \in Replies : writePORTA(v)
    \/ \E v \in Words : writeORA(v)
    \/ readIRA
    \/ Completion
    \/ ClearFlag

Spec == Init /\ [][Next]_driveVars

-----------------------------------------------------------------------------
(* The type invariant of the drive: every variable of the class keeps the  *)
(* values its handlers assume, and the accumulators never overrun their    *)
(* stream (a command is decoded, a write committed, by its last word).     *)
FlagsOK ==
    /\ cmdAsserted \in BOOLEAN
    /\ rejectNext \in BOOLEAN
    /\ ifrCA1 \in BOOLEAN

DataOK ==
    /\ image \in Images \cup {NoImage}
    /\ DOMAIN store = Images
    /\ \A i \in Images : store[i] \in [ValidBlocks(i) -> Contents]
    /\ phase \in Phases
    /\ presented \in Nat
    /\ responseCode \in {RespIdleReady, RespReadAccepted, RespWriteAccepted,
                         RespPostWrite}
    /\ commandAccum \in Seq(Words) /\ Len(commandAccum) <= CommandWords
    /\ outStream \in Seq(Nat)
    /\ outIdx \in Nat
    /\ writeAccum \in Seq(Words) /\ Len(writeAccum) <= WriteWords
    /\ pendingBlock \in Nat
    /\ lastStatus \in {OkStatus, FatalStatus}
    /\ completions \in 0 .. MaxCompletions

TypeOK == FlagsOK /\ DataOK

(* The variables of a transaction agree with its phase (the cases of       *)
(* portAAccess and cmdAssertEdge): which response code is presented, which *)
(* command and block the transfer belongs to, and that the byte on Port A  *)
(* is the next one of the stream whatever the host strobes in between.     *)
PhaseAgreement ==
    /\ phase # "idle" => image # NoImage
    /\ phase = "firstHS" => responseCode = RespIdleReady
    /\ phase = "awaitCommand" => Len(commandAccum) < CommandWords
    /\ phase \in {"acceptHS", "readData", "writeData", "postWriteHS",
                  "postWriteStat"} =>
         /\ Len(commandAccum) = CommandWords
         /\ pendingBlock = commandAccum[2]
    /\ phase = "acceptHS" =>
         /\ responseCode = IF commandAccum[1] = WriteCommand
                             THEN RespWriteAccepted ELSE RespReadAccepted
         /\ commandAccum[1] \notin {ReadCommand, WriteCommand} => rejectNext
    /\ phase \in {"writeData", "postWriteHS", "postWriteStat"} =>
         commandAccum[1] = WriteCommand
    /\ phase = "writeData" => Len(writeAccum) < WriteWords
    /\ phase \in {"postWriteHS", "postWriteStat"} =>
         Len(writeAccum) = WriteWords
    /\ phase = "postWriteHS" => responseCode = RespPostWrite
    /\ phase = "postWriteStat" => outStream = <<lastStatus>>
    /\ phase \in {"readData", "postWriteStat"} =>
         /\ outIdx < Len(outStream)
         /\ presented = outStream[outIdx + 1]

(* An OK post-write status never lies: from the commit until its status    *)
(* has been read, through any strobes and replies, the attached image's    *)
(* block holds exactly the tag and data the host sent (commitWrite).       *)
StatusNeverLies ==
    phase \in {"postWriteHS", "postWriteStat"} /\ lastStatus = OkStatus =>
        /\ pendingBlock \in ValidBlocks(image)
        /\ store[image][pendingBlock] = [tag  |-> writeAccum[1],
                                         data |-> writeAccum[2]]

(* What a read streams under an OK status is the named block of the        *)
(* attached image, tag before data, as it is now; a command the drive does *)
(* not support streams a fatal status and nothing else (readStream,        *)
(* beginTransferAfterAccept).                                              *)
StreamTellsTruth ==
    phase = "readData" =>
        /\ commandAccum[1] # ReadCommand => outStream = <<FatalStatus>>
        /\ outStream[1] = OkStatus =>
             \/ /\ pendingBlock = DeviceInfoBlock
                /\ outStream = <<OkStatus, Zeros, BlockCount[image]>>
             \/ /\ pendingBlock \in ValidBlocks(image)
                /\ outStream = <<OkStatus, store[image][pendingBlock].tag,
                                 store[image][pendingBlock].data>>

(* The image files change only by the last word of a write command, only   *)
(* in the attached image, only in the block that command named, and only   *)
(* into a tag and data of the old block or of the words sent.              *)
NamedBlockChange ==
    store' # store =>
        /\ image # NoImage
        /\ phase = "writeData"
        /\ Len(commandAccum) = CommandWords
        /\ commandAccum[1] = WriteCommand
        /\ \A i \in Images : \A b \in ValidBlocks(i) :
             store'[i][b] # store[i][b] =>
                /\ i = image
                /\ b = commandAccum[2]
                /\ store'[i][b].tag \in {store[i][b].tag, writeAccum'[1]}
                /\ store'[i][b].data = writeAccum'[2]
OnlyTheNamedBlockChanges == [][NamedBlockChange]_driveVars

(* "Warm reset: drop any in-flight handshake" (WidgetDrive.swift:150): no  *)
(* trace of a dropped command reaches the next one, so the stream that     *)
(* refuses a command follows an unsupported command only.                  *)
OnlyUnsupportedRejected ==
    phase = "readData" /\ outStream = <<FatalStatus>> =>
        commandAccum[1] \notin {ReadCommand, WriteCommand}
=============================================================================
