--------------------------------- MODULE Floppy ---------------------------------
(***************************************************************************)
(* The diskette controller of Sources/LisaCore/FloppyController.swift: a   *)
(* window of shared RAM, a go-byte that is decoded some time after it was  *)
(* written, and a completion line (level-1 interrupt) raised some time     *)
(* after that. The bytes written to a diskette stay in a session overlay,  *)
(* its image is never changed.                                             *)
(*                                                                         *)
(* The data and tag buffers of the window are one word; the cells only     *)
(* the host looks at are left out, and so are the statistics. DISKERR,     *)
(* DISKSTAT, DISKIN and DISKFLG are the controller's: the code stores a    *)
(* host's write to them too, which no software is known to make.           *)
(***************************************************************************)
EXTENDS SonyGeometry, Sequences

CONSTANTS
    Disks,       \* the diskette images that can be inserted
    NoDisk,      \* the value of image while none is
    BlockCount,  \* BlockCount[d]: the number of blocks of image d
    Original,    \* Original[d][b]: what block b of image d holds
    Words,       \* what a block, or the buffer, may hold
    GoBytes,     \* the go-bytes the host may write
    MaxRaises    \* bound: interrupts scheduled and not yet raised

ExCmd    == 129
ClrIStat == 133
EnabStat == 134

ReadDisk  == 0
WriteDisk == 1
Unclamp   == 2
Format    == 3

NoError    == 0
NotIssued  == 9
ReadError  == 23
WriteError == 24

Idle == 0    \* DISKCMD when it is clear
Zero == 0    \* the cleared buffer

Blocks(d) == 0 .. BlockCount[d] - 1

ASSUME FloppyAssumption ==
    /\ NoDisk \notin Disks
    /\ BlockCount \in [Disks -> Nat]
    /\ \A d \in Disks : Original[d] \in [Blocks(d) -> Words]
    /\ Zero \in Words
    /\ GoBytes \subseteq 1 .. 255
    /\ MaxRaises \in Nat \ {0}

VARIABLES
    image,           \* the diskette in the drive, or NoDisk
    sessionOverlay,  \* the blocks written since it was inserted
    diskCmd,         \* the cells of the window: DISKCMD,
    diskParm,        \*   the sub-command,
    address,         \*   track, sector and side,
    buffer,          \*   data and tag,
    diskAck,         \*   $0D, set by the host only
    diskErr,         \*   DISKERR
    diskStat,        \*   DISKSTAT: a subset of {"int", "done", "in"}
    diskIn, diskFlg, \*   DISKIN and DISKFLG
    commandInFlight, \* a go-byte was accepted and not yet decoded
    decodes,         \* the scheduled decodings, oldest first
    raises,          \* the DISKSTAT bits of the scheduled interrupts
    completionLine   \* the line on VIA2 Port B, and the level-1 source

media      == <<image, sessionOverlay>>
presence   == <<diskIn, diskFlg>>
parameters == <<diskParm, address>>
result     == <<buffer, diskErr>>
command    == <<diskCmd, diskAck, commandInFlight, decodes>>
interrupt  == <<diskStat, raises, completionLine>>

floppyVars == <<image, sessionOverlay, diskCmd, diskParm, address, buffer,
                diskAck, diskErr, diskStat, diskIn, diskFlg, commandInFlight,
                decodes, raises, completionLine>>

IsDoubleSided(d)    == d # NoDisk /\ BlockCount[d] > BlocksPerSide
DoubleSidedFlag(d)  == IF IsDoubleSided(d) THEN 1 ELSE 0
EmptySession        == [b \in {} |-> Zero]

-----------------------------------------------------------------------------
(* Media.                                                                  *)

(* A mutated form: the session of the last diskette is kept.               *)
InsertDiskKeepingSession(d) ==
    /\ image' = d
    /\ UNCHANGED sessionOverlay
    /\ diskIn' = TRUE
    /\ diskFlg' = DoubleSidedFlag(d)

InsertDisk(d) ==
    /\ image' = d
    /\ sessionOverlay' = EmptySession
    /\ diskIn' = TRUE
    /\ diskFlg' = DoubleSidedFlag(d)

(* At power-on: no attention is raised.                                    *)
Insert(d) ==
    /\ InsertDisk(d)
    /\ UNCHANGED <<command, parameters, result, interrupt>>

(* With the machine running: a media-change attention follows.             *)
InsertWhileRunning(d) ==
    /\ Len(raises) < MaxRaises
    /\ InsertDisk(d)
    /\ raises' = Append(raises, {"int", "in"})
    /\ UNCHANGED <<command, parameters, result, diskStat, completionLine>>

RemoveDisk ==
    /\ image' = NoDisk
    /\ diskIn' = FALSE
    /\ diskFlg' = 0
    /\ UNCHANGED sessionOverlay

Eject ==
    /\ RemoveDisk
    /\ UNCHANGED <<command, parameters, result, interrupt>>

(* A caller gives the diskette in the drive the session it exported from   *)
(* it earlier.                                                             *)
ImportSession(session) ==
    /\ sessionOverlay' = session
    /\ UNCHANGED <<image, presence, command, parameters, result, interrupt>>

-----------------------------------------------------------------------------
(* The window.                                                             *)
WriteParm(sub) ==
    /\ diskParm' = sub
    /\ UNCHANGED <<media, presence, address, command, result, interrupt>>

WriteAddress(a) ==
    /\ address' = a
    /\ UNCHANGED <<media, presence, diskParm, command, result, interrupt>>

WriteBuffer(w) ==
    /\ buffer' = w
    /\ UNCHANGED <<media, presence, parameters, command, diskErr, interrupt>>

SetAck ==
    /\ diskAck' = TRUE
    /\ UNCHANGED <<media, presence, parameters, diskCmd, commandInFlight,
                   decodes, result, interrupt>>

(* A go-byte written while another is not yet decoded is dropped.          *)
WriteDiskCmd(v) ==
    /\ IF commandInFlight
         THEN UNCHANGED <<diskCmd, commandInFlight, decodes>>
         ELSE /\ diskCmd' = v
              /\ commandInFlight' = TRUE
              /\ decodes' = Append(decodes, v)
    /\ UNCHANGED <<media, presence, parameters, diskAck, result, interrupt>>

-----------------------------------------------------------------------------
(* The scheduled events.                                                   *)

(* A mutated form: the controller stays busy.                              *)
clearDiskCmdOnly ==
    /\ diskCmd' = Idle
    /\ diskAck' = FALSE
    /\ UNCHANGED commandInFlight

clearDiskCmd ==
    /\ diskCmd' = Idle
    /\ diskAck' = FALSE
    /\ commandInFlight' = FALSE

raiseCompletionLineAfterDelay ==
    /\ Len(raises) < MaxRaises
    /\ raises' = Append(raises, {"int", "done"})
    /\ UNCHANGED <<diskStat, completionLine>>

Block == blockNumber(address, IsDoubleSided(image))

OnDisk == image # NoDisk /\ Block # NoBlock /\ Block < BlockCount[image]

Content(d, session, b) == IF b \in DOMAIN session THEN session[b] ELSE Original[d][b]

Stored(session, b, w) ==
    [c \in DOMAIN session \cup {b} |-> IF c = b THEN w ELSE session[c]]

performRead ==
    /\ IF OnDisk
         THEN /\ buffer' = Content(image, sessionOverlay, Block)
              /\ diskErr' = NoError
         ELSE diskErr' = ReadError /\ UNCHANGED buffer
    /\ UNCHANGED <<media, presence>>

performWrite ==
    /\ IF OnDisk
         THEN /\ sessionOverlay' = Stored(sessionOverlay, Block, buffer)
              /\ diskErr' = NoError
         ELSE diskErr' = WriteError /\ UNCHANGED sessionOverlay
    /\ UNCHANGED <<image, presence, buffer>>

performUnclamp ==
    /\ RemoveDisk
    /\ diskErr' = NoError
    /\ UNCHANGED buffer

rejectSubCommand ==
    /\ diskErr' = NotIssued
    /\ UNCHANGED <<media, presence, buffer>>

(* The parameters are those in the window now, not when the go-byte came.  *)
performExCmd ==
    /\ \/ diskParm = ReadDisk /\ performRead
       \/ diskParm = WriteDisk /\ performWrite
       \/ diskParm = Unclamp /\ performUnclamp
       \/ diskParm \notin {ReadDisk, WriteDisk, Unclamp} /\ rejectSubCommand
    /\ raiseCompletionLineAfterDelay

clearInterrupts ==
    /\ diskStat' = {}
    /\ completionLine' = FALSE
    /\ UNCHANGED raises

processGoByte ==
    /\ decodes # <<>>
    /\ decodes' = Tail(decodes)
    /\ clearDiskCmd
    /\ \/ Head(decodes) = ExCmd /\ performExCmd
       \/ /\ Head(decodes) = ClrIStat
          /\ clearInterrupts
          /\ UNCHANGED <<media, presence, result>>
       \/ /\ Head(decodes) \notin {ExCmd, ClrIStat}
          /\ UNCHANGED <<media, presence, result, interrupt>>
    /\ UNCHANGED parameters

(* Interrupts that are not yet cleared coalesce.                           *)
RaiseInterrupt ==
    /\ raises # <<>>
    /\ raises' = Tail(raises)
    /\ diskStat' = diskStat \cup Head(raises)
    /\ completionLine' = TRUE
    /\ UNCHANGED <<media, presence, command, parameters, result>>

-----------------------------------------------------------------------------
resetPresence ==
    /\ diskIn' = (image # NoDisk)
    /\ diskFlg' = DoubleSidedFlag(image)

(* A mutated form: the command in flight is forgotten, the busy flag stays.*)
resetCommandBusy ==
    /\ diskCmd' = Idle /\ diskAck' = FALSE
    /\ decodes' = <<>>
    /\ UNCHANGED commandInFlight

resetCommand ==
    /\ diskCmd' = Idle /\ diskAck' = FALSE
    /\ decodes' = <<>>
    /\ commandInFlight' = FALSE

NoAddress == [track |-> 0, sector |-> 0, side |-> 0]

(* Machine.reset empties the event queue first; the diskette, and what was *)
(* written to it, stay.                                                    *)
Reset ==
    /\ resetCommand
    /\ diskParm' = 0 /\ address' = NoAddress
    /\ buffer' = Zero /\ diskErr' = NoError
    /\ diskStat' = {} /\ raises' = <<>> /\ completionLine' = FALSE
    /\ resetPresence
    /\ UNCHANGED media

Init ==
    /\ image = NoDisk /\ sessionOverlay = EmptySession
    /\ diskCmd = Idle /\ diskParm = 0 /\ address = NoAddress
    /\ buffer = Zero /\ diskAck = FALSE /\ diskErr = NoError
    /\ diskStat = {} /\ diskIn = FALSE /\ diskFlg = 0
    /\ commandInFlight = FALSE /\ decodes = <<>>
    /\ raises = <<>> /\ completionLine = FALSE

SessionsOf(d) == UNION {[B -> Words] : B \in SUBSET (IF d = NoDisk THEN {} ELSE Blocks(d))}

(* Any software that leaves the controller's cells alone, any user.        *)
Next ==
    \/ \E d \in Disks : Insert(d) \/ InsertWhileRunning(d)
    \/ Eject
    \/ \E session \in SessionsOf(image) : ImportSession(session)
    \/ \E sub \in 0 .. 255 : WriteParm(sub)
    \/ \E a \in Address : WriteAddress(a)
    \/ \E w \in Words : WriteBuffer(w)
    \/ SetAck
    \/ \E v \in GoBytes : WriteDiskCmd(v)
    \/ processGoByte
    \/ RaiseInterrupt
    \/ Reset

Spec == Init /\ [][Next]_floppyVars

-----------------------------------------------------------------------------
(* The type invariant. A session holds only blocks of its diskette.        *)
SessionOK ==
    /\ image \in Disks \cup {NoDisk}
    /\ sessionOverlay \in [DOMAIN sessionOverlay -> Words]
    /\ image # NoDisk => DOMAIN sessionOverlay \subseteq Blocks(image)

CellsOK ==
    /\ diskCmd \in GoBytes \cup {Idle}
    /\ diskParm \in 0 .. 255
    /\ address \in Address
    /\ buffer \in Words
    /\ diskErr \in {NoError, NotIssued, ReadError, WriteError}
    /\ diskStat \subseteq {"int", "done", "in"}
    /\ diskAck \in BOOLEAN /\ diskIn \in BOOLEAN /\ diskFlg \in {0, 1}

EventsOK ==
    /\ commandInFlight \in BOOLEAN
    /\ decodes \in Seq(GoBytes)
    /\ raises \in Seq({{"int", "done"}, {"int", "in"}}) /\ Len(raises) <= MaxRaises
    /\ completionLine \in BOOLEAN

TypeOK == SessionOK /\ CellsOK /\ EventsOK

(* The interrupt line and DISKSTAT agree: a handler entered by the line    *)
(* finds a cause in DISKSTAT, and a cause always has the line up, however  *)
(* completions, attentions, clristat and resets fall (raiseInterruptAfter- *)
(* Delay, dropCompletionLine).                                             *)
LineTellsStatus ==
    /\ completionLine <=> "int" \in diskStat
    /\ diskStat # {} => "int" \in diskStat

(* The controller is busy exactly while one go-byte waits to be decoded,   *)
(* and DISKCMD shows it: a host that waits for DISKCMD to clear never has  *)
(* its next command dropped (handleDiskCmdWrite, clearDiskCmd, reset).     *)
OneCommandAtATime ==
    /\ commandInFlight <=> decodes # <<>>
    /\ Len(decodes) <= 1
    /\ diskCmd = IF decodes = <<>> THEN Idle ELSE Head(decodes)

(* DISKIN and DISKFLG describe the diskette in the drive, also after a     *)
(* reset has cleared the window and after an unclamp command.              *)
CellsShowDisk ==
    /\ diskIn <=> image # NoDisk
    /\ diskFlg = DoubleSidedFlag(image)

(* The sectors of the diskette in the drive are its blocks, in the order   *)
(* they lie on it: the sector the window names and the one that follows it *)
(* have following numbers across tracks, zones and sides, so none is       *)
(* another's and none lies beyond the image (blockNumber; forwardConvert   *)
(* of FloppyControllerTests.swift is the same order for one side).         *)
SectorsInOrder ==
    LET doubleSided == IsDoubleSided(image)
    IN  OnSides(address, doubleSided) => NumberedInOrder(address, doubleSided)
=============================================================================
