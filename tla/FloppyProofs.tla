------------------------------ MODULE FloppyProofs ------------------------------
(***************************************************************************)
(* Theorems about the diskette controller of Floppy.tla, for any diskettes *)
(* and any software that writes its window; and about FloppySystem.tla,    *)
(* where that software is the Sony driver, for any requests: controller    *)
(* and driver together implement the diskette drive of Diskette.tla.       *)
(***************************************************************************)
EXTENDS FloppySystem, SequenceTheorems, TLAPS

\* Sectors per track, and before it, are numbers
LEMMA GeometryType ==
    ASSUME NEW track \in 0 .. 79
    PROVE  /\ SecPerTrack(track) \in 8 .. 12
           /\ Cumulative(track) \in Nat
BY SMT DEF SecPerTrack, Cumulative, Zone, Base, TracksPerZone

(* The sectors that precede a track are those of the tracks before it.     *)
LEMMA TrackFollows ==
    ASSUME NEW track \in 0 .. 78
    PROVE  Cumulative(track + 1) = Cumulative(track) + SecPerTrack(track)
BY SMT DEF SecPerTrack, Cumulative, Zone, Base, TracksPerZone

\* A block number is a number or none
LEMMA BlockNumberType ==
    ASSUME NEW a \in Address, NEW doubleSided \in BOOLEAN
    PROVE  blockNumber(a, doubleSided) \in Nat \cup {NoBlock}
<1>1. CASE ~IsSector(a)
  BY <1>1 DEF blockNumber
<1>2. CASE IsSector(a)
  <2>1. a.track \in 0 .. 79 /\ a.sector \in Nat /\ a.side \in {0, 1}
    BY <1>2 DEF IsSector, Address, Tracks
  <2>2. SecPerTrack(a.track) \in 8 .. 12 /\ Cumulative(a.track) \in Nat
    BY <2>1, GeometryType
  <2> QED
    BY <1>2, <2>1, <2>2 DEF blockNumber, BlocksPerSide
<1> QED
  BY <1>1, <1>2

(* Every sector of a disk of either kind is numbered one before the sector *)
(* that follows it.                                                        *)
LEMMA NumberedInOrderHolds ==
    ASSUME NEW a \in Address, NEW doubleSided \in BOOLEAN,
           OnSides(a, doubleSided)
    PROVE  NumberedInOrder(a, doubleSided)
<1> DEFINE n == SecPerTrack(a.track)
           c == Cumulative(a.track)
           b == NextSector(a, doubleSided)
<1>1. /\ IsSector(a)
      /\ a = [track |-> a.track, sector |-> a.sector, side |-> a.side]
      /\ a.track \in 0 .. 79 /\ a.side \in {0, 1}
      /\ a.sector \in 0 .. n - 1
      /\ ~doubleSided => a.side = 0
  BY GeometryType DEF OnSides, IsSector, Address, Tracks
<1>2. n \in 8 .. 12 /\ c \in Nat
  BY <1>1, GeometryType
<1> HIDE DEF n, c, b
<1>3. blockNumber(a, doubleSided) =
        IF doubleSided THEN 2 * c + a.side * n + a.sector ELSE c + a.sector
  BY <1>1, <1>2 DEF blockNumber, n, c, BlocksPerSide
<1>4. ASSUME a = FirstSector
      PROVE  blockNumber(a, doubleSided) = 0
  <2>1. a.track = 0 /\ a.sector = 0 /\ a.side = 0
    BY <1>4 DEF FirstSector
  <2>2. c = 0
    BY <2>1 DEF c, Cumulative, Zone, Base, TracksPerZone, SecPerTrack
  <2> QED
    BY <1>2, <1>3, <2>1, <2>2
<1>5. ASSUME a = LastSector(doubleSided)
      PROVE  blockNumber(a, doubleSided) =
               (IF doubleSided THEN 2 ELSE 1) * BlocksPerSide - 1
  <2>1. a.track = 79 /\ a.sector = 7 /\ a.side = IF doubleSided THEN 1 ELSE 0
    BY <1>5 DEF LastSector, Tracks
  <2>2. c = 792 /\ n = 8
    BY <2>1 DEF c, n, Cumulative, Zone, Base, TracksPerZone, SecPerTrack
  <2> QED
    BY <1>3, <2>1, <2>2 DEF BlocksPerSide
<1>6. ASSUME a # LastSector(doubleSided)
      PROVE  blockNumber(b, doubleSided) = blockNumber(a, doubleSided) + 1
  <2>1. CASE a.sector + 1 < n
    <3>1. b = [track |-> a.track, sector |-> a.sector + 1, side |-> a.side]
      BY <1>1, <2>1 DEF b, n, NextSector
    <3>2. IsSector(b)
      BY <1>1, <1>2, <2>1, <3>1 DEF IsSector, n, Tracks
    <3> QED
      BY <1>1, <1>2, <1>3, <3>1, <3>2 DEF blockNumber, n, c, BlocksPerSide
  <2>2. CASE a.sector + 1 >= n /\ doubleSided /\ a.side = 0
    <3>1. b = [track |-> a.track, sector |-> 0, side |-> 1]
      <4>1. ~(a.sector + 1 < SecPerTrack(a.track))
        BY <1>1, <1>2, <2>2 DEF n
      <4>2. b = [a EXCEPT !.sector = 0, !.side = 1]
        BY <2>2, <4>1 DEF b, NextSector
      <4> QED
        BY <1>1, <4>2
    <3>2. IsSector(b)
      BY <1>1, <1>2, <3>1 DEF IsSector, n, Tracks
    <3>3. a.sector = n - 1
      BY <1>1, <1>2, <2>2
    <3> QED
      BY <1>1, <1>2, <1>3, <2>2, <3>1, <3>2, <3>3 DEF blockNumber, n, c
  <2>3. CASE a.sector + 1 >= n /\ ~(doubleSided /\ a.side = 0)
    <3>1. b = [track |-> a.track + 1, sector |-> 0, side |-> 0]
      <4>1. ~(a.sector + 1 < SecPerTrack(a.track))
        BY <1>1, <1>2, <2>3 DEF n
      <4>2. b = [a EXCEPT !.sector = 0, !.side = 0, !.track = a.track + 1]
        BY <2>3, <4>1 DEF b, NextSector
      <4> QED
        BY <1>1, <4>2
    <3>2. a.sector = n - 1
      BY <1>1, <1>2, <2>3
    <3>3. a.track # 79
      <4>1. SUFFICES ASSUME a.track = 79
                     PROVE  FALSE
        OBVIOUS
      <4>2. n = 8
        BY <4>1 DEF n, SecPerTrack, Zone, TracksPerZone
      <4>3. a.sector = 7 /\ a.side = IF doubleSided THEN 1 ELSE 0
        BY <1>1, <2>3, <3>2, <4>2
      <4>4. a = LastSector(doubleSided)
        BY <1>1, <4>1, <4>3 DEF LastSector, Tracks
      <4> QED
        BY <1>6, <4>4
    <3>4. a.track + 1 \in 0 .. 79 /\ a.track \in 0 .. 78
      BY <1>1, <3>3
    <3>5. SecPerTrack(a.track + 1) \in 8 .. 12 /\ Cumulative(a.track + 1) = c + n
      BY <3>4, GeometryType, TrackFollows DEF c, n
    <3>6. IsSector(b)
      BY <3>1, <3>4, <3>5 DEF IsSector, Tracks
    <3>7. blockNumber(b, doubleSided) = IF doubleSided THEN 2 * (c + n) ELSE c + n
      BY <1>2, <3>1, <3>5, <3>6 DEF blockNumber, BlocksPerSide
    <3>8. blockNumber(a, doubleSided) = (IF doubleSided THEN 2 * (c + n) ELSE c + n) - 1
      BY <1>1, <1>2, <1>3, <2>3, <3>2
    <3> QED
      BY <1>2, <3>7, <3>8
  <2> QED
    BY <1>1, <1>2, <2>1, <2>2, <2>3
<1> QED
  BY <1>4, <1>5, <1>6 DEF NumberedInOrder, b

-----------------------------------------------------------------------------
(* Insertions and ejections.                                               *)
LEMMA FlagType ==
    ASSUME NEW d \in Disks \cup {NoDisk}
    PROVE  DoubleSidedFlag(d) \in {0, 1} /\ DoubleSidedFlag(NoDisk) = 0
BY DEF DoubleSidedFlag, IsDoubleSided

(* A command is carried out within the diskette's blocks.                  *)
LEMMA BlockOnDisk ==
    ASSUME TypeOK, OnDisk
    PROVE  image \in Disks /\ Block \in Blocks(image)
<1>1. image \in Disks /\ address \in Address
  BY DEF OnDisk, TypeOK, SessionOK, CellsOK
<1>2. BlockCount[image] \in Nat
  BY <1>1, FloppyAssumption
<1>3. Block \in Nat \cup {NoBlock}
  BY <1>1, BlockNumberType DEF Block, IsDoubleSided
<1> QED
  BY <1>1, <1>2, <1>3 DEF OnDisk, Blocks

(* Each kind of command leaves the cells and the session as they should be.*)
LEMMA ReadKeepsTypes ==
    ASSUME TypeOK, performRead
    PROVE  /\ SessionOK'
           /\ buffer' \in Words /\ diskErr' \in {NoError, ReadError}
<1>1. SessionOK'
  BY DEF TypeOK, SessionOK, performRead, media, Blocks
<1>2. CASE OnDisk
  <2>1. image \in Disks /\ Block \in Blocks(image)
    BY <1>2, BlockOnDisk
  <2>2. Original[image] \in [Blocks(image) -> Words]
    BY <2>1, FloppyAssumption
  <2>3. Content(image, sessionOverlay, Block) \in Words
    BY <2>1, <2>2 DEF Content, TypeOK, SessionOK
  <2> QED
    BY <1>1, <1>2, <2>3 DEF performRead
<1>3. CASE ~OnDisk
  BY <1>1, <1>3 DEF performRead, TypeOK, CellsOK
<1> QED
  BY <1>2, <1>3

\* A write that fails or not keeps the session's type (performWrite)
LEMMA WriteKeepsTypes ==
    ASSUME TypeOK, performWrite
    PROVE  /\ SessionOK'
           /\ buffer' \in Words /\ diskErr' \in {NoError, WriteError}
<1>1. buffer' \in Words
  BY DEF performWrite, TypeOK, CellsOK
<1>2. CASE OnDisk
  <2>1. image \in Disks /\ Block \in Blocks(image)
    BY <1>2, BlockOnDisk
  <2>2. /\ sessionOverlay' = Stored(sessionOverlay, Block, buffer)
        /\ image' = image /\ diskErr' = NoError
    BY <1>2 DEF performWrite
  <2>3. DOMAIN sessionOverlay' = DOMAIN sessionOverlay \cup {Block}
    BY <2>2 DEF Stored
  <2>4. sessionOverlay' \in [DOMAIN sessionOverlay' -> Words]
    BY <2>2, <2>3 DEF Stored, TypeOK, SessionOK, CellsOK
  <2>5. DOMAIN sessionOverlay' \subseteq Blocks(image)
    BY <2>1, <2>3, FloppyAssumption DEF TypeOK, SessionOK
  <2>6. SessionOK'
    BY <2>1, <2>2, <2>4, <2>5 DEF SessionOK, Blocks
  <2> QED
    BY <1>1, <2>2, <2>6
<1>3. CASE ~OnDisk
  BY <1>1, <1>3 DEF performWrite, TypeOK, SessionOK, Blocks
<1> QED
  BY <1>2, <1>3

(* A command leaves types, presence and the line as they should be.        *)
CommandOutcome ==
    /\ SessionOK'
    /\ buffer' \in Words /\ diskErr' \in {NoError, NotIssued, ReadError, WriteError}
    /\ diskIn' \in BOOLEAN /\ diskFlg' \in {0, 1}
    /\ CellsShowDisk => CellsShowDisk'

\* The cells that tell of the disk stay true where neither changes
LEMMA PresenceKept ==
    ASSUME CellsShowDisk, image' = image, UNCHANGED presence
    PROVE  CellsShowDisk'
BY DEF CellsShowDisk, presence, DoubleSidedFlag, IsDoubleSided

\* A subcommand leaves types and presence as they should be, whatever it is
LEMMA SubCommandOutcome ==
    ASSUME TypeOK,
           \/ performRead \/ performWrite \/ performUnclamp \/ rejectSubCommand
    PROVE  CommandOutcome
<1>1. CASE performRead
  <2>1. image' = image /\ UNCHANGED presence
    BY <1>1 DEF performRead, media
  <2> QED
    BY <1>1, <2>1, ReadKeepsTypes, PresenceKept
    DEF CommandOutcome, TypeOK, CellsOK, presence
<1>2. CASE performWrite
  <2>1. image' = image /\ UNCHANGED presence
    BY <1>2 DEF performWrite
  <2> QED
    BY <1>2, <2>1, WriteKeepsTypes, PresenceKept
    DEF CommandOutcome, TypeOK, CellsOK, presence
<1>3. CASE performUnclamp
  <2>1. /\ image' = NoDisk /\ diskIn' = FALSE /\ diskFlg' = 0
        /\ sessionOverlay' = sessionOverlay
        /\ diskErr' = NoError /\ buffer' = buffer
    BY <1>3 DEF performUnclamp, RemoveDisk
  <2>2. CellsShowDisk'
    BY <2>1 DEF CellsShowDisk, DoubleSidedFlag, IsDoubleSided
  <2> QED
    BY <2>1, <2>2 DEF CommandOutcome, TypeOK, SessionOK, CellsOK
<1>4. CASE rejectSubCommand
  <2>1. image' = image /\ UNCHANGED presence
    BY <1>4 DEF rejectSubCommand, media
  <2>2. SessionOK'
    BY <1>4 DEF rejectSubCommand, media, TypeOK, SessionOK, Blocks
  <2>3. diskErr' = NotIssued /\ buffer' = buffer
    BY <1>4 DEF rejectSubCommand
  <2> QED
    BY <2>1, <2>2, <2>3, PresenceKept
    DEF CommandOutcome, TypeOK, CellsOK, presence
<1> QED
  BY <1>1, <1>2, <1>3, <1>4

-----------------------------------------------------------------------------
(* The invariant: the three facts about events, line and presence hold     *)
(* together with the types.                                                *)
Inv == TypeOK /\ LineTellsStatus /\ OneCommandAtATime /\ CellsShowDisk

\* The invariant holds at first
LEMMA InitInv == Init => Inv
<1> SUFFICES ASSUME Init PROVE Inv
  OBVIOUS
<1>1. SessionOK
  BY DEF Init, SessionOK, EmptySession
<1>2. CellsOK
  <2>1. NoAddress \in Address
    BY DEF NoAddress, Address
  <2>2. Zero \in Words
    BY FloppyAssumption
  <2>3. diskStat \subseteq {"int", "done", "in"}
    BY DEF Init
  <2>4. /\ diskParm \in 0 .. 255 /\ diskFlg \in {0, 1}
        /\ diskAck \in BOOLEAN /\ diskIn \in BOOLEAN
    <3>1. diskParm = 0 /\ diskFlg = 0 /\ diskAck = FALSE /\ diskIn = FALSE
      BY DEF Init
    <3>2. diskParm \in 0 .. 255 /\ diskFlg \in {0, 1}
      BY <3>1
    <3>3. diskAck \in BOOLEAN
      BY <3>1
    <3>4. diskIn \in BOOLEAN
      BY <3>1
    <3> QED
      BY <3>2, <3>3, <3>4
  <2>5. diskErr \in {NoError, NotIssued, ReadError, WriteError}
    BY DEF Init
  <2> QED
    BY <2>1, <2>2, <2>3, <2>4, <2>5 DEF Init, CellsOK
<1>3. EventsOK
  <2>1. <<>> \in Seq(GoBytes) /\ <<>> \in Seq({{"int", "done"}, {"int", "in"}})
    OBVIOUS
  <2>2. Len(<<>>) <= MaxRaises
    BY FloppyAssumption
  <2> QED
    BY <2>1, <2>2 DEF Init, EventsOK
<1> QED
  BY <1>1, <1>2, <1>3
  DEF Init, Inv, TypeOK, LineTellsStatus, OneCommandAtATime, CellsShowDisk,
      DoubleSidedFlag, IsDoubleSided

(* Steps that only change the diskette in the drive.                       *)
LEMMA MediaStep ==
    ASSUME Inv,
           \/ \E d \in Disks : Insert(d) \/ InsertWhileRunning(d)
           \/ Eject
           \/ \E session \in SessionsOf(image) : ImportSession(session)
    PROVE  Inv'
<1>1. /\ UNCHANGED <<command, parameters, result>>
      /\ UNCHANGED <<diskStat, completionLine>>
  BY DEF Insert, InsertWhileRunning, Eject, ImportSession, interrupt
<1>2. \/ UNCHANGED raises
      \/ /\ Len(raises) < MaxRaises
         /\ raises' = Append(raises, {"int", "in"})
  BY DEF Insert, InsertWhileRunning, Eject, ImportSession, interrupt
<1>3. SessionOK' /\ CellsShowDisk' /\ diskIn' \in BOOLEAN /\ diskFlg' \in {0, 1}
  <2>1. ASSUME NEW d \in Disks, InsertDisk(d)
        PROVE  <1>3!:
    <3>1. /\ image' = d /\ diskIn' = TRUE /\ diskFlg' = DoubleSidedFlag(d)
          /\ sessionOverlay' = EmptySession
      BY <2>1 DEF InsertDisk
    <3>2. d # NoDisk
      BY FloppyAssumption
    <3>3. SessionOK'
      BY <3>1 DEF SessionOK, EmptySession
    <3>4. CellsShowDisk'
      BY <3>1, <3>2 DEF CellsShowDisk, DoubleSidedFlag, IsDoubleSided
    <3> QED
      BY <3>1, <3>3, <3>4, FlagType
  <2>2. CASE Eject
    BY <2>2
    DEF Eject, RemoveDisk, Inv, TypeOK, SessionOK, CellsShowDisk, DoubleSidedFlag,
        IsDoubleSided
  <2>3. ASSUME NEW session \in SessionsOf(image), ImportSession(session)
        PROVE  <1>3!:
    <3>1. image' = image /\ UNCHANGED presence
      BY <2>3 DEF ImportSession
    <3>2. CellsShowDisk'
      BY <3>1, PresenceKept DEF Inv
    <3>3. SessionOK'
      BY <2>3, <3>1
      DEF ImportSession, SessionsOf, Inv, TypeOK, SessionOK, Blocks
    <3> QED
      BY <3>1, <3>2, <3>3 DEF presence, Inv, TypeOK, CellsOK
  <2> QED
    BY <2>1, <2>2, <2>3 DEF Insert, InsertWhileRunning
<1>4. CellsOK'
  BY <1>1, <1>3 DEF Inv, TypeOK, CellsOK, command, parameters, result
<1>5. EventsOK'
  <2>1. raises' \in Seq({{"int", "done"}, {"int", "in"}}) /\ Len(raises') <= MaxRaises
    BY SMTT(30), <1>2, FloppyAssumption DEF Inv, TypeOK, EventsOK
  <2>2. /\ commandInFlight' = commandInFlight /\ decodes' = decodes
        /\ completionLine' = completionLine
    BY <1>1 DEF command
  <2> QED
    BY <2>1, <2>2 DEF Inv, TypeOK, EventsOK
<1> QED
  BY <1>1, <1>3, <1>4, <1>5
  DEF Inv, TypeOK, LineTellsStatus, OneCommandAtATime, command

(* Writes to the window.                                                   *)
LEMMA WindowStep ==
    ASSUME Inv,
           \/ \E sub \in 0 .. 255 : WriteParm(sub)
           \/ \E a \in Address : WriteAddress(a)
           \/ \E w \in Words : WriteBuffer(w)
           \/ SetAck
           \/ \E v \in GoBytes : WriteDiskCmd(v)
    PROVE  Inv'
<1>1. UNCHANGED <<media, presence, diskErr, interrupt>>
  BY DEF WriteParm, WriteAddress, WriteBuffer, SetAck, WriteDiskCmd, result
<1>2. SessionOK' /\ CellsShowDisk'
  BY <1>1
  DEF Inv, TypeOK, SessionOK, CellsShowDisk, media, presence, Blocks,
      DoubleSidedFlag, IsDoubleSided
<1>3. LineTellsStatus'
  BY <1>1 DEF Inv, LineTellsStatus, interrupt
<1>4. diskParm' \in 0 .. 255 /\ address' \in Address /\ buffer' \in Words
  BY DEF WriteParm, WriteAddress, WriteBuffer, SetAck, WriteDiskCmd, parameters,
         result, Inv, TypeOK, CellsOK
<1>5. /\ diskCmd' \in GoBytes \cup {Idle} /\ diskAck' \in BOOLEAN
      /\ commandInFlight' \in BOOLEAN /\ decodes' \in Seq(GoBytes)
      /\ OneCommandAtATime'
  <2>1. CASE UNCHANGED <<diskCmd, commandInFlight, decodes>> /\ diskAck' \in BOOLEAN
    BY <2>1 DEF Inv, TypeOK, CellsOK, EventsOK, OneCommandAtATime
  <2>2. ASSUME NEW v \in GoBytes, WriteDiskCmd(v)
        PROVE  <1>5!:
    <3>1. UNCHANGED diskAck /\ diskAck \in BOOLEAN
      BY <2>2 DEF WriteDiskCmd, Inv, TypeOK, CellsOK
    <3>2. CASE commandInFlight
      BY <2>1, <2>2, <3>1, <3>2 DEF WriteDiskCmd
    <3>3. CASE ~commandInFlight
      <4>1. decodes = <<>>
        BY <3>3 DEF Inv, OneCommandAtATime
      <4>2. decodes' = <<v>> /\ diskCmd' = v /\ commandInFlight' = TRUE
        BY <2>2, <3>3, <4>1 DEF WriteDiskCmd
      <4> QED
        BY <3>1, <4>2 DEF OneCommandAtATime
    <3> QED
      BY <3>2, <3>3
  <2> QED
    BY <2>1, <2>2
    DEF WriteParm, WriteAddress, WriteBuffer, SetAck, command, Inv, TypeOK, CellsOK
<1>6. CellsOK'
  BY <1>1, <1>4, <1>5 DEF Inv, TypeOK, CellsOK, presence, interrupt
<1>7. EventsOK'
  BY <1>1, <1>5 DEF Inv, TypeOK, EventsOK, interrupt
<1> QED
  BY <1>2, <1>3, <1>5, <1>6, <1>7 DEF Inv, TypeOK

-----------------------------------------------------------------------------
(* The scheduled decoding.                                                 *)
LEMMA DecodeStep ==
    ASSUME Inv, processGoByte
    PROVE  Inv'
<1>1. Len(decodes) = 1 /\ decodes \in Seq(GoBytes)
  <2>1. decodes \in Seq(GoBytes)
    BY DEF Inv, TypeOK, EventsOK
  <2>2. Len(decodes) # 0
    BY <2>1, EmptySeq DEF processGoByte
  <2>3. Len(decodes) <= 1
    BY DEF Inv, OneCommandAtATime
  <2>4. ASSUME NEW k \in Nat, k # 0, k <= 1
        PROVE  k = 1
    BY <2>4
  <2>5. Len(decodes) \in Nat
    BY <2>1
  <2> QED
    BY <2>1, <2>2, <2>3, <2>4, <2>5
<1>2. /\ decodes' = <<>> /\ diskCmd' = Idle
      /\ diskAck' = FALSE /\ commandInFlight' = FALSE
      /\ UNCHANGED parameters
  <2>1. decodes' = Tail(decodes)
    BY DEF processGoByte
  <2> QED
    BY <1>1, <2>1 DEF processGoByte, clearDiskCmd
<1>3. OneCommandAtATime'
  BY <1>2 DEF OneCommandAtATime
<1>4. /\ CommandOutcome
      /\ LineTellsStatus'
      /\ diskStat' \subseteq {"int", "done", "in"} /\ completionLine' \in BOOLEAN
      /\ raises' \in Seq({{"int", "done"}, {"int", "in"}}) /\ Len(raises') <= MaxRaises
  <2>1. CASE performExCmd
    <3>1. CommandOutcome
      BY <2>1, SubCommandOutcome DEF performExCmd, Inv
    <3>2. UNCHANGED <<diskStat, completionLine>>
      BY <2>1 DEF performExCmd, raiseCompletionLineAfterDelay
    <3>3. Len(raises) < MaxRaises /\ raises' = Append(raises, {"int", "done"})
      BY <2>1 DEF performExCmd, raiseCompletionLineAfterDelay
    <3>4. raises' \in Seq({{"int", "done"}, {"int", "in"}}) /\ Len(raises') <= MaxRaises
      BY <3>3, FloppyAssumption DEF Inv, TypeOK, EventsOK
    <3> QED
      BY <3>1, <3>2, <3>4 DEF Inv, TypeOK, CellsOK, EventsOK, LineTellsStatus
  <2>2. ASSUME UNCHANGED <<media, presence, result>>
        PROVE  CommandOutcome
    <3>1. image' = image /\ UNCHANGED presence
      BY <2>2 DEF media
    <3>2. SessionOK'
      BY <2>2 DEF Inv, TypeOK, SessionOK, media, Blocks
    <3> QED
      BY <2>2, <3>1, <3>2, PresenceKept
      DEF CommandOutcome, result, presence, Inv, TypeOK, CellsOK
  <2>3. CASE clearInterrupts /\ UNCHANGED <<media, presence, result>>
    <3>1. diskStat' = {} /\ completionLine' = FALSE /\ UNCHANGED raises
      BY <2>3 DEF clearInterrupts
    <3>2. LineTellsStatus' /\ diskStat' \subseteq {"int", "done", "in"}
      BY <3>1 DEF LineTellsStatus
    <3> QED
      BY <2>2, <2>3, <3>1, <3>2 DEF Inv, TypeOK, EventsOK
  <2>4. CASE UNCHANGED <<media, presence, result, interrupt>>
    <3>1. UNCHANGED <<diskStat, raises, completionLine>>
      BY <2>4 DEF interrupt
    <3> QED
      BY <2>2, <2>4, <3>1 DEF Inv, TypeOK, CellsOK, EventsOK, LineTellsStatus
  <2> QED
    BY <2>1, <2>3, <2>4 DEF processGoByte
<1>5. CellsOK'
  <2>1. diskParm' \in 0 .. 255 /\ address' \in Address
    BY <1>2 DEF parameters, Inv, TypeOK, CellsOK
  <2>2. diskCmd' \in GoBytes \cup {Idle} /\ diskAck' \in BOOLEAN
    BY <1>2
  <2> QED
    BY <1>4, <2>1, <2>2 DEF CellsOK, CommandOutcome
<1>6. EventsOK'
  <2>1. <<>> \in Seq(GoBytes)
    OBVIOUS
  <2>2. commandInFlight' \in BOOLEAN
    BY <1>2
  <2> QED
    BY <1>2, <1>4, <2>1, <2>2 DEF EventsOK
<1> QED
  BY <1>3, <1>4, <1>5, <1>6 DEF Inv, TypeOK, CommandOutcome

(* The scheduled interrupt: whatever is raised carries the interrupt bit.  *)
LEMMA RaiseStep ==
    ASSUME Inv, RaiseInterrupt
    PROVE  Inv'
<1>1. /\ raises \in Seq({{"int", "done"}, {"int", "in"}})
      /\ raises # <<>> /\ raises' = Tail(raises) /\ Len(raises) <= MaxRaises
  BY DEF RaiseInterrupt, Inv, TypeOK, EventsOK
<1>2. Head(raises) \in {{"int", "done"}, {"int", "in"}}
  BY <1>1
<1>3. /\ raises' \in Seq({{"int", "done"}, {"int", "in"}})
      /\ Len(raises') <= MaxRaises
  BY <1>1, FloppyAssumption
<1>4. diskStat' = diskStat \cup Head(raises) /\ completionLine' = TRUE
  BY DEF RaiseInterrupt
<1>5. /\ "int" \in diskStat' /\ diskStat' \subseteq {"int", "done", "in"}
  BY <1>2, <1>4 DEF Inv, TypeOK, CellsOK
<1>6. UNCHANGED <<media, presence, command, parameters, result>>
  BY DEF RaiseInterrupt
<1>7. SessionOK' /\ CellsShowDisk'
  BY <1>6
  DEF Inv, TypeOK, SessionOK, CellsShowDisk, media, presence, Blocks,
      DoubleSidedFlag, IsDoubleSided
<1>8. CellsOK'
  BY <1>5, <1>6 DEF Inv, TypeOK, CellsOK, presence, command, parameters, result
<1>9. EventsOK' /\ OneCommandAtATime' /\ LineTellsStatus'
  <2>1. EventsOK'
    BY <1>3, <1>4, <1>6 DEF Inv, TypeOK, EventsOK, command
  <2>2. OneCommandAtATime'
    BY <1>6 DEF Inv, OneCommandAtATime, command
  <2>3. LineTellsStatus'
    BY <1>4, <1>5 DEF LineTellsStatus
  <2> QED
    BY <2>1, <2>2, <2>3
<1> QED
  BY <1>7, <1>8, <1>9 DEF Inv, TypeOK

\* A reset keeps it
LEMMA ResetStep ==
    ASSUME Inv, Reset
    PROVE  Inv'
<1>1. /\ diskCmd' = Idle /\ diskAck' = FALSE /\ commandInFlight' = FALSE
      /\ decodes' = <<>> /\ raises' = <<>> /\ diskStat' = {}
      /\ completionLine' = FALSE
  BY DEF Reset, resetCommand
<1>2. /\ diskParm' = 0 /\ address' = NoAddress /\ buffer' = Zero
      /\ diskErr' = NoError
  BY DEF Reset
<1>3. /\ UNCHANGED media /\ diskIn' = (image # NoDisk)
      /\ diskFlg' = DoubleSidedFlag(image)
  BY DEF Reset, resetPresence
<1>4. SessionOK'
  BY <1>3 DEF Inv, TypeOK, SessionOK, media, Blocks
<1>5. CellsShowDisk' /\ diskIn' \in BOOLEAN /\ diskFlg' \in {0, 1}
  <2>1. image' = image /\ image \in Disks \cup {NoDisk}
    BY <1>3 DEF media, Inv, TypeOK, SessionOK
  <2> QED
    BY <1>3, <2>1, FlagType DEF CellsShowDisk, DoubleSidedFlag, IsDoubleSided
<1>6. LineTellsStatus' /\ OneCommandAtATime'
  BY <1>1 DEF LineTellsStatus, OneCommandAtATime
<1>7. CellsOK'
  <2>1. address' \in Address /\ buffer' \in Words
    BY <1>2, FloppyAssumption DEF NoAddress, Address
  <2>2. diskParm' \in 0 .. 255
    BY <1>2
  <2>3. diskErr' \in {NoError, NotIssued, ReadError, WriteError}
    BY <1>2
  <2>4. diskStat' \subseteq {"int", "done", "in"} /\ diskAck' \in BOOLEAN
    BY <1>1
  <2> QED
    BY <1>1, <1>5, <2>1, <2>2, <2>3, <2>4 DEF CellsOK
<1>8. EventsOK'
  <2>1. <<>> \in Seq(GoBytes) /\ <<>> \in Seq({{"int", "done"}, {"int", "in"}})
    OBVIOUS
  <2>2. Len(<<>>) <= MaxRaises
    BY FloppyAssumption
  <2> QED
    BY <1>1, <2>1, <2>2 DEF EventsOK
<1> QED
  BY <1>4, <1>5, <1>6, <1>7, <1>8 DEF Inv, TypeOK

\* So does a step that leaves the controller alone
LEMMA StutterStep ==
    ASSUME Inv, UNCHANGED floppyVars
    PROVE  Inv'
<1>1. SessionOK' /\ CellsShowDisk'
  BY DEF floppyVars, Inv, TypeOK, SessionOK, CellsShowDisk, Blocks, DoubleSidedFlag,
         IsDoubleSided
<1>2. CellsOK' /\ EventsOK'
  BY DEF floppyVars, Inv, TypeOK, CellsOK, EventsOK
<1>3. LineTellsStatus' /\ OneCommandAtATime'
  BY DEF floppyVars, Inv, LineTellsStatus, OneCommandAtATime
<1> QED
  BY <1>1, <1>2, <1>3 DEF Inv, TypeOK

\* and every step
LEMMA NextInv == Inv /\ [Next]_floppyVars => Inv'
<1> SUFFICES ASSUME Inv, [Next]_floppyVars PROVE Inv'
  OBVIOUS
<1> QED
  BY MediaStep, WindowStep, DecodeStep, RaiseStep, ResetStep, StutterStep DEF Next

\* so it holds always
LEMMA SpecInv == Spec => []Inv
  BY InitInv, NextInv, PTL DEF Spec

-----------------------------------------------------------------------------
(* The cells, the session and the scheduled events are always well-formed: *)
(* in particular the session never holds a block the diskette has not.     *)
THEOREM TypeCorrect == Spec => []TypeOK
<1>1. Inv => TypeOK
  BY DEF Inv
<1> QED
  BY <1>1, SpecInv, PTL

(* The interrupt line is up exactly while DISKSTAT names a cause.          *)
THEOREM LineTellsStatusHolds == Spec => []LineTellsStatus
<1>1. Inv => LineTellsStatus
  BY DEF Inv
<1> QED
  BY <1>1, SpecInv, PTL

(* Busy, DISKCMD and the pending decoding always agree, whatever the host  *)
(* writes and whenever the machine is reset.                               *)
THEOREM OneCommandAtATimeHolds == Spec => []OneCommandAtATime
<1>1. Inv => OneCommandAtATime
  BY DEF Inv
<1> QED
  BY <1>1, SpecInv, PTL

(* DISKIN and DISKFLG always describe the diskette in the drive.           *)
THEOREM CellsShowDiskHolds == Spec => []CellsShowDisk
<1>1. Inv => CellsShowDisk
  BY DEF Inv
<1> QED
  BY <1>1, SpecInv, PTL

(* Every sector of every track of both kinds of disk has its place in the  *)
(* image's order of blocks.                                                *)
THEOREM SectorsInOrderHolds == Spec => []SectorsInOrder
<1>1. TypeOK => SectorsInOrder
  <2> SUFFICES ASSUME TypeOK PROVE SectorsInOrder
    OBVIOUS
  <2>1. address \in Address /\ IsDoubleSided(image) \in BOOLEAN
    BY DEF TypeOK, CellsOK, IsDoubleSided
  <2> QED
    BY <2>1, NumberedInOrderHolds DEF SectorsInOrder
<1> QED
  BY <1>1, TypeCorrect, PTL

-----------------------------------------------------------------------------
(* The controller with the driver of FloppySystem.tla.                     *)

(* Where the driver and its handler can be.                                *)
Staging == {"parm", "address", "buffer", "go"}

DriverTypes ==
    /\ pc \in {"init", "free", "wait", "waiting"} \cup Staging
    /\ handler \in {"none", "status", "clear", "cleared", "act"}
    /\ pc \notin {"init", "free"} => request \in Requests
    /\ performed \in BOOLEAN

(* A request whose go-byte is written and not yet decoded.                 *)
Under == pc = "waiting" /\ ~performed

(* What the driver staged is in the window until the go-byte is decoded.   *)
Staged ==
    /\ (pc \in {"address", "buffer", "go"} \/ Under) =>
         diskParm = SubCommand(request.op)
    /\ pc = "address" => request.op # "eject"
    /\ pc = "buffer" => request.op = "write"
    /\ ((pc \in {"buffer", "go"} \/ Under) /\ request.op # "eject") =>
         address = request.address
    /\ ((pc = "go" \/ Under) /\ request.op = "write") => buffer = request.word

(* The driver and its handler take turns at DISKCMD: a go-byte that is on  *)
(* its way is the request's, or the handler's clristat, or the enable.     *)
InTurn ==
    /\ performed => pc = "waiting"
    /\ Under => decodes = <<ExCmd>>
    /\ Under => handler \in {"none", "status", "clear"}
    /\ ~Under => decodes \in {<<>>, <<EnabStat>>, <<ClrIStat>>}
    /\ pc \in Staging => decodes # <<EnabStat>>
    /\ handler = "cleared" => decodes \in {<<>>, <<ClrIStat>>}
    /\ handler = "act" => decodes = <<>>
    /\ handler # "cleared" => decodes # <<ClrIStat>>

Serv == DriverTypes /\ Staged /\ InTurn

\* What the driver stages for a request is of the types of the window
LEMMA RequestType ==
    ASSUME NEW r \in Requests
    PROVE  /\ r.op \in {"read", "write", "eject", "format"}
           /\ r.address \in Address /\ r.word \in Words
           /\ SubCommand(r.op) \in 0 .. 255
<1>1. r \in [op : {"read", "write", "eject", "format"}, address : Address,
             word : Words]
  BY FloppySystemAssumption
<1>2. /\ r.op \in {"read", "write", "eject", "format"}
      /\ r.address \in Address /\ r.word \in Words
  BY <1>1
<1>3. SubCommand(r.op) \in {ReadDisk, WriteDisk, Unclamp, Format}
  BY <1>2 DEF SubCommand
<1> QED
  BY <1>2, <1>3 DEF ReadDisk, WriteDisk, Unclamp, Format

(* Every step of the system is a step of the controller, or none.          *)
LEMMA SystemStepIsStep ==
    ASSUME DriverTypes, [SystemNext]_vars
    PROVE  [Next]_floppyVars
<1>1. ASSUME NEW r \in Requests, Submit(r)
      PROVE  UNCHANGED floppyVars
  BY <1>1 DEF Submit
<1>2. CASE RequestStep
  <2>1. ExCmd \in GoBytes /\ EnabStat \in GoBytes
    BY FloppySystemAssumption
  <2>2. CASE Initialise
    BY <2>1, <2>2 DEF Initialise, Next
  <2>3. CASE AwaitReady
    BY <2>3 DEF AwaitReady
  <2>4. CASE StageParm
    <3>1. request \in Requests
      BY <2>4 DEF StageParm, At, DriverTypes
    <3> QED
      BY <2>4, <3>1, RequestType DEF StageParm, Next
  <2>5. CASE StageAddress
    <3>1. request \in Requests
      BY <2>5 DEF StageAddress, At, DriverTypes
    <3> QED
      BY <2>5, <3>1, RequestType DEF StageAddress, Next
  <2>6. CASE StageBuffer
    <3>1. request \in Requests
      BY <2>6 DEF StageBuffer, At, DriverTypes
    <3> QED
      BY <2>6, <3>1, RequestType DEF StageBuffer, Next
  <2>7. CASE Go
    BY <2>1, <2>7 DEF Go, Next
  <2> QED
    BY <1>2, <2>2, <2>3, <2>4, <2>5, <2>6, <2>7 DEF RequestStep
<1>3. CASE HandlerStep
  <2>1. ClrIStat \in GoBytes
    BY FloppySystemAssumption
  <2>2. CASE ClearStatus
    BY <2>1, <2>2 DEF ClearStatus, Next
  <2>3. CASE Interrupt \/ ReadStatus \/ AwaitCleared \/ Act
    BY <2>3 DEF Interrupt, ReadStatus, AwaitCleared, Act
  <2> QED
    BY <1>3, <2>2, <2>3 DEF HandlerStep
<1>4. CASE Decode
  BY <1>4 DEF Decode, Next
<1>5. CASE Raise
  BY <1>5 DEF Raise, Next
<1>6. CASE InsertByHand
  BY <1>6 DEF InsertByHand, Next
<1>7. CASE EjectByHand
  BY <1>7 DEF EjectByHand, Next
<1>8. CASE MachineReset
  BY <1>8 DEF MachineReset, Next
<1>9. CASE UNCHANGED vars
  BY <1>9 DEF vars
<1> QED
  BY <1>1, <1>2, <1>3, <1>4, <1>5, <1>6, <1>7, <1>8, <1>9 DEF SystemNext

\* With the driver it holds at first
LEMMA SystemInitInv == SystemInit => Inv /\ Serv
<1> SUFFICES ASSUME SystemInit PROVE Inv /\ Serv
  OBVIOUS
<1>1. /\ image \in Disks \cup {NoDisk} /\ sessionOverlay = EmptySession
      /\ diskIn = (image # NoDisk) /\ diskFlg = DoubleSidedFlag(image)
      /\ diskCmd = Idle /\ diskParm = 0 /\ address = NoAddress
      /\ buffer = Zero /\ diskAck = FALSE /\ diskErr = NoError
      /\ diskStat = {} /\ commandInFlight = FALSE /\ decodes = <<>>
      /\ raises = <<>> /\ completionLine = FALSE
  BY DEF SystemInit
<1>2. SessionOK
  BY <1>1 DEF SessionOK, EmptySession
<1>3. CellsOK
  <2>1. address \in Address /\ buffer \in Words
    BY <1>1, FloppyAssumption DEF NoAddress, Address
  <2>2. diskStat \subseteq {"int", "done", "in"} /\ diskCmd \in GoBytes \cup {Idle}
    BY <1>1
  <2>3. diskFlg \in {0, 1}
    BY <1>1, FlagType
  <2>4. diskParm \in 0 .. 255
    BY <1>1
  <2>5. diskErr \in {NoError, NotIssued, ReadError, WriteError}
    BY <1>1
  <2>6. diskAck \in BOOLEAN
    BY <1>1
  <2>7. diskIn \in BOOLEAN
    BY <1>1
  <2> QED
    BY <2>1, <2>2, <2>3, <2>4, <2>5, <2>6, <2>7 DEF CellsOK
<1>4. EventsOK
  <2>1. <<>> \in Seq(GoBytes) /\ <<>> \in Seq({{"int", "done"}, {"int", "in"}})
    OBVIOUS
  <2>2. Len(<<>>) <= MaxRaises
    BY FloppyAssumption
  <2> QED
    BY <1>1, <2>1, <2>2 DEF EventsOK
<1>5. LineTellsStatus /\ OneCommandAtATime
  BY <1>1 DEF LineTellsStatus, OneCommandAtATime
<1>6. CellsShowDisk
  BY <1>1 DEF CellsShowDisk
<1>7. Serv
  <2>1. pc = "init" /\ handler = "none" /\ performed = FALSE /\ decodes = <<>>
    BY DEF SystemInit
  <2>2. DriverTypes /\ Staged
    BY <2>1 DEF DriverTypes, Staged, Under
  <2>3. InTurn
    BY <2>1 DEF InTurn, Under, Staging, ClrIStat
  <2> QED
    BY <2>2, <2>3 DEF Serv
<1> QED
  BY <1>2, <1>3, <1>4, <1>5, <1>6, <1>7 DEF Inv, TypeOK

-----------------------------------------------------------------------------
(* A go-byte that finds the controller idle is on its way alone.           *)
LEMMA IdleIsFree ==
    ASSUME Inv, Serv, diskCmd = Idle
    PROVE  decodes = <<>>
<1>1. decodes \in {<<>>, <<EnabStat>>, <<ClrIStat>>, <<ExCmd>>}
  BY DEF Serv, InTurn
<1>2. CASE decodes = <<EnabStat>>
  BY <1>2 DEF Inv, OneCommandAtATime, EnabStat, Idle
<1>3. CASE decodes = <<ClrIStat>>
  BY <1>3 DEF Inv, OneCommandAtATime, ClrIStat, Idle
<1>4. CASE decodes = <<ExCmd>>
  BY <1>4 DEF Inv, OneCommandAtATime, ExCmd, Idle
<1> QED
  BY <1>1, <1>2, <1>3, <1>4

\* A go-byte written while none is on its way is the only one
LEMMA FreeIsWritten ==
    ASSUME Inv, NEW v, WriteDiskCmd(v), decodes = <<>>
    PROVE  decodes' = <<v>>
BY DEF Inv, OneCommandAtATime, WriteDiskCmd

\* and none is left when it has been decoded
LEMMA DecodedAlone ==
    ASSUME Inv, processGoByte
    PROVE  decodes' = <<>>
<1>1. decodes \in Seq(GoBytes) /\ decodes # <<>> /\ decodes' = Tail(decodes)
  BY DEF Inv, TypeOK, EventsOK, processGoByte
<1>2. Len(decodes) <= 1
  BY DEF Inv, OneCommandAtATime
<1>3. Len(decodes) # 0 /\ Len(decodes) \in Nat
  BY <1>1, EmptySeq
<1>4. ASSUME NEW k \in Nat, k # 0, k <= 1
      PROVE  k = 1
  BY <1>4
<1>5. Len(decodes) = 1
  BY <1>2, <1>3, <1>4
<1> QED
  BY <1>1, <1>5

(* The three go-bytes are different, and none is on its way when none is.  *)
LEMMA GoBytesDiffer ==
    /\ <<ExCmd>> # <<EnabStat>> /\ <<ExCmd>> # <<ClrIStat>>
    /\ <<EnabStat>> # <<ClrIStat>>
    /\ <<>> # <<ExCmd>> /\ <<>> # <<EnabStat>> /\ <<>> # <<ClrIStat>>
BY DEF ExCmd, EnabStat, ClrIStat

(* The request side keeps the driver's invariant.                          *)
LEMMA RequestKeepsServ ==
    ASSUME Inv, Serv, RequestStep
    PROVE  Serv'
<1> USE GoBytesDiffer
<1>1. CASE Initialise
  <2>1. /\ pc' = "free" /\ handler' = "none" /\ request' = request
        /\ performed' = performed /\ handler = "none" /\ pc = "init"
        /\ WriteDiskCmd(EnabStat)
    BY <1>1 DEF Initialise, At, historyVars
  <2>2. ~performed
    BY <2>1 DEF Serv, InTurn
  <2>3. decodes \in {<<>>, <<EnabStat>>}
    BY <2>1 DEF Serv, InTurn, Under
  <2>4. decodes' \in {<<>>, <<EnabStat>>}
    <3>1. CASE decodes = <<>>
      <4>1. decodes' = <<EnabStat>>
        BY <2>1, <3>1, FreeIsWritten
      <4> QED
        BY <4>1
    <3>2. CASE decodes = <<EnabStat>>
      <4>1. commandInFlight
        BY <3>2 DEF Inv, OneCommandAtATime
      <4>2. decodes' = decodes
        BY <2>1, <4>1 DEF WriteDiskCmd
      <4> QED
        BY <3>2, <4>2
    <3> QED
      BY <2>3, <3>1, <3>2
  <2>5. DriverTypes'
    BY <2>1 DEF Serv, DriverTypes
  <2>6. Staged'
    BY <2>1 DEF Staged, Under
  <2>7. InTurn'
    BY <2>1, <2>2, <2>4 DEF InTurn, Under, Staging
  <2> QED
    BY <2>5, <2>6, <2>7 DEF Serv
<1>2. CASE AwaitReady
  <2>1. /\ pc' = "parm" /\ handler' = handler /\ request' = request
        /\ performed' = performed /\ handler = "none" /\ pc = "wait"
        /\ decodes' = decodes /\ diskCmd = Idle
    BY <1>2 DEF AwaitReady, At, Goto, historyVars, floppyVars
  <2>2. decodes' = <<>>
    BY <2>1, IdleIsFree
  <2>3. ~performed
    BY <2>1 DEF Serv, InTurn
  <2>5. DriverTypes'
    BY <2>1 DEF Serv, DriverTypes, Staging
  <2>6. Staged'
    BY <2>1 DEF Staged, Under
  <2>7. InTurn'
    BY <2>1, <2>2, <2>3 DEF InTurn, Under, Staging
  <2> QED
    BY <2>5, <2>6, <2>7 DEF Serv
<1>3. CASE StageParm
  <2>1. /\ pc' \in {"go", "address"} /\ handler' = handler /\ request' = request
        /\ pc' = IF request.op = "eject" THEN "go" ELSE "address"
        /\ performed' = performed /\ handler = "none" /\ pc = "parm"
        /\ decodes' = decodes /\ diskParm' = SubCommand(request.op)
    BY <1>3 DEF StageParm, At, Goto, historyVars, WriteParm, command
  <2>2. ~performed
    BY <2>1 DEF Serv, InTurn
  <2>5. DriverTypes'
    BY <2>1 DEF Serv, DriverTypes, Staging
  <2>6. Staged'
    BY <2>1 DEF Staged, Under
  <2>7. InTurn'
    <3>1. decodes' = <<>>
      BY <2>1 DEF Serv, InTurn, Under, Staging
    <3> QED
      BY <2>1, <2>2, <3>1 DEF InTurn, Under, Staging
  <2> QED
    BY <2>5, <2>6, <2>7 DEF Serv
<1>4. CASE StageAddress
  <2>1. /\ pc' \in {"go", "buffer"} /\ handler' = handler /\ request' = request
        /\ pc' = IF request.op = "write" THEN "buffer" ELSE "go"
        /\ performed' = performed /\ handler = "none" /\ pc = "address"
        /\ decodes' = decodes /\ diskParm' = diskParm
        /\ address' = request.address
    BY <1>4 DEF StageAddress, At, Goto, historyVars, WriteAddress, command
  <2>2. ~performed
    BY <2>1 DEF Serv, InTurn
  <2>3. diskParm = SubCommand(request.op)
    BY <2>1 DEF Serv, Staged
  <2>5. DriverTypes'
    BY <2>1 DEF Serv, DriverTypes, Staging
  <2>6. Staged'
    BY <2>1, <2>3 DEF Staged, Under
  <2>7. InTurn'
    <3>1. decodes' = <<>>
      BY <2>1 DEF Serv, InTurn, Under, Staging
    <3> QED
      BY <2>1, <2>2, <3>1 DEF InTurn, Under, Staging
  <2> QED
    BY <2>5, <2>6, <2>7 DEF Serv
<1>5. CASE StageBuffer
  <2>1. /\ pc' = "go" /\ handler' = handler /\ request' = request
        /\ performed' = performed /\ handler = "none" /\ pc = "buffer"
        /\ decodes' = decodes /\ diskParm' = diskParm /\ address' = address
        /\ buffer' = request.word
    BY <1>5 DEF StageBuffer, At, Goto, historyVars, WriteBuffer, command, parameters
  <2>2. ~performed
    BY <2>1 DEF Serv, InTurn
  <2>3. /\ diskParm = SubCommand(request.op)
        /\ request.op # "eject" => address = request.address
    BY <2>1 DEF Serv, Staged
  <2>5. DriverTypes'
    BY <2>1 DEF Serv, DriverTypes, Staging
  <2>6. Staged'
    BY <2>1, <2>3 DEF Staged, Under
  <2>7. InTurn'
    <3>1. decodes' = <<>>
      BY <2>1 DEF Serv, InTurn, Under, Staging
    <3> QED
      BY <2>1, <2>2, <3>1 DEF InTurn, Under, Staging
  <2> QED
    BY <2>5, <2>6, <2>7 DEF Serv
<1>6. CASE Go
  <2>1. /\ pc' = "waiting" /\ handler' = handler /\ request' = request
        /\ performed' = performed /\ handler = "none" /\ pc = "go"
        /\ WriteDiskCmd(ExCmd)
    BY <1>6 DEF Go, At, Goto, historyVars
  <2>2. ~performed
    BY <2>1 DEF Serv, InTurn
  <2>3. diskParm' = diskParm /\ address' = address /\ buffer' = buffer
    BY <2>1 DEF WriteDiskCmd, parameters, result
  <2>4. decodes' = <<ExCmd>>
    <3>1. decodes = <<>>
      BY <2>1 DEF Serv, InTurn, Under, Staging
    <3> QED
      BY <2>1, <3>1, FreeIsWritten
  <2>5. DriverTypes'
    BY <2>1 DEF Serv, DriverTypes, Staging
  <2>6. Staged'
    BY <2>1, <2>3 DEF Serv, Staged, Under
  <2>7. InTurn'
    BY <2>1, <2>2, <2>4 DEF InTurn, Under, Staging
  <2> QED
    BY <2>5, <2>6, <2>7 DEF Serv
<1> QED
  BY <1>1, <1>2, <1>3, <1>4, <1>5, <1>6 DEF RequestStep

(* The window and the request stay as they are while neither is written.   *)
LEMMA StagedKept ==
    ASSUME Staged, pc' = pc, request' = request, Under' => Under,
           diskParm' = diskParm, address' = address, buffer' = buffer
    PROVE  Staged'
BY DEF Staged

(* The interrupt handler keeps the driver's invariant.                     *)
LEMMA HandlerKeepsServ ==
    ASSUME Inv, Serv, HandlerStep
    PROVE  Serv'
<1> USE GoBytesDiffer
<1>1. CASE Interrupt
  <2>1. /\ pc' = pc /\ request' = request /\ performed' = performed
        /\ handler = "none" /\ handler' = "status" /\ decodes' = decodes
    BY <1>1 DEF Interrupt, Handling, historyVars, floppyVars
  <2>2. diskParm' = diskParm /\ address' = address /\ buffer' = buffer
    BY <1>1 DEF Interrupt, floppyVars
  <2>3. DriverTypes'
    BY <2>1 DEF Serv, DriverTypes
  <2>4. Staged'
    BY <2>1, <2>2, StagedKept DEF Serv, Under
  <2>5. InTurn'
    BY <2>1 DEF Serv, InTurn, Under
  <2> QED
    BY <2>3, <2>4, <2>5 DEF Serv
<1>2. CASE ReadStatus
  <2>1. /\ pc' = pc /\ request' = request /\ performed' = performed
        /\ handler = "status" /\ handler' = "clear" /\ decodes' = decodes
    BY <1>2 DEF ReadStatus, Handling, historyVars, floppyVars
  <2>2. diskParm' = diskParm /\ address' = address /\ buffer' = buffer
    BY <1>2 DEF ReadStatus, floppyVars
  <2>3. DriverTypes'
    BY <2>1 DEF Serv, DriverTypes
  <2>4. Staged'
    BY <2>1, <2>2, StagedKept DEF Serv, Under
  <2>5. InTurn'
    BY <2>1 DEF Serv, InTurn, Under
  <2> QED
    BY <2>3, <2>4, <2>5 DEF Serv
<1>3. CASE ClearStatus
  <2>1. /\ pc' = pc /\ request' = request /\ performed' = performed
        /\ handler = "clear" /\ handler' = "cleared" /\ diskCmd = Idle
        /\ WriteDiskCmd(ClrIStat)
    BY <1>3 DEF ClearStatus, Handling, historyVars
  <2>2. diskParm' = diskParm /\ address' = address /\ buffer' = buffer
    BY <2>1 DEF WriteDiskCmd, parameters, result
  <2>3. decodes = <<>> /\ decodes' = <<ClrIStat>>
    BY <2>1, IdleIsFree, FreeIsWritten
  <2>4. ~Under
    BY <2>3 DEF Serv, InTurn
  <2>5. ~Under'
    BY <2>1, <2>4 DEF Under
  <2>6. DriverTypes'
    BY <2>1 DEF Serv, DriverTypes
  <2>7. Staged'
    BY <2>1, <2>2, <2>5, StagedKept DEF Serv
  <2>8. performed' => pc' = "waiting"
    BY <2>1 DEF Serv, InTurn
  <2>9. InTurn'
    BY <2>1, <2>3, <2>5, <2>8 DEF InTurn
  <2> QED
    BY <2>6, <2>7, <2>9 DEF Serv
<1>4. CASE AwaitCleared
  <2>1. /\ pc' = pc /\ request' = request /\ performed' = performed
        /\ handler = "cleared" /\ handler' = "act" /\ diskCmd = Idle
        /\ decodes' = decodes
    BY <1>4 DEF AwaitCleared, Handling, historyVars, floppyVars
  <2>2. diskParm' = diskParm /\ address' = address /\ buffer' = buffer
    BY <1>4 DEF AwaitCleared, floppyVars
  <2>3. decodes = <<>>
    BY <2>1, IdleIsFree
  <2>4. ~Under /\ ~Under'
    BY <2>1, <2>3 DEF Serv, InTurn, Under
  <2>6. DriverTypes'
    BY <2>1 DEF Serv, DriverTypes
  <2>7. Staged'
    BY <2>1, <2>2, <2>4, StagedKept DEF Serv
  <2>8. performed' => pc' = "waiting"
    BY <2>1 DEF Serv, InTurn
  <2>9. InTurn'
    BY <2>1, <2>3, <2>4, <2>8 DEF InTurn
  <2> QED
    BY <2>6, <2>7, <2>9 DEF Serv
<1>5. CASE Act
  <2>1. /\ request' = request /\ handler = "act" /\ handler' = "none"
        /\ decodes' = decodes
    BY <1>5 DEF Act, Handling, floppyVars
  <2>2. diskParm' = diskParm /\ address' = address /\ buffer' = buffer
    BY <1>5 DEF Act, floppyVars
  <2>3. decodes = <<>>
    BY <2>1 DEF Serv, InTurn
  <2>4. ~Under
    BY <2>3 DEF Serv, InTurn
  <2>5. \/ pc' = "free" /\ performed' = FALSE
        \/ pc' = pc /\ performed' = performed
    BY <1>5 DEF Act
  <2>6. CASE pc' = "free" /\ performed' = FALSE
    <3>1. DriverTypes'
      BY <2>1, <2>6 DEF DriverTypes
    <3>2. Staged'
      BY <2>6 DEF Staged, Under
    <3>3. InTurn'
      BY <2>1, <2>3, <2>6 DEF InTurn, Under, Staging
    <3> QED
      BY <3>1, <3>2, <3>3 DEF Serv
  <2>7. CASE pc' = pc /\ performed' = performed
    <3>1. DriverTypes'
      BY <2>1, <2>7 DEF Serv, DriverTypes
    <3>2. ~Under'
      BY <2>4, <2>7 DEF Under
    <3>3. Staged'
      BY <2>1, <2>2, <2>7, <3>2, StagedKept DEF Serv
    <3>4. performed' => pc' = "waiting"
      BY <2>7 DEF Serv, InTurn
    <3>5. InTurn'
      BY <2>1, <2>3, <3>2, <3>4 DEF InTurn
    <3> QED
      BY <3>1, <3>3, <3>5 DEF Serv
  <2> QED
    BY <2>5, <2>6, <2>7
<1> QED
  BY <1>1, <1>2, <1>3, <1>4, <1>5 DEF HandlerStep

(* A decoding, a hand on the drive and the reset button.                   *)
LEMMA MachineKeepsServ ==
    ASSUME Inv, Serv,
           Decode \/ Raise \/ InsertByHand \/ EjectByHand \/ MachineReset
             \/ UNCHANGED vars
    PROVE  Serv'
<1> USE GoBytesDiffer
<1>1. CASE Decode
  <2>1. /\ pc' = pc /\ request' = request /\ handler' = handler
        /\ diskParm' = diskParm /\ address' = address
    BY <1>1 DEF Decode, driverVars, processGoByte, parameters
  <2>2. decodes' = <<>> /\ decodes # <<>>
    BY <1>1, DecodedAlone DEF Decode, processGoByte
  <2>3. CASE Under
    <3>1. decodes = <<ExCmd>> /\ pc = "waiting"
      BY <2>3 DEF Serv, InTurn, Under
    <3>2. performed'
      <4>1. Head(decodes) = ExCmd
        BY <3>1
      <4>2. performed' = (performed \/ Head(decodes) = ExCmd)
        BY <1>1 DEF Decode
      <4> QED
        BY <4>1, <4>2, Zenon
    <3>3. DriverTypes'
      <4>1. performed' \in BOOLEAN
        BY <1>1 DEF Decode
      <4> QED
      BY <2>1, <4>1 DEF Serv, DriverTypes
    <3>4. Staged'
      BY <2>1, <3>1, <3>2 DEF Staged, Under
    <3>5. InTurn'
      BY <2>1, <2>2, <3>1, <3>2 DEF InTurn, Under, Staging
    <3> QED
      BY <3>3, <3>4, <3>5 DEF Serv
  <2>4. CASE ~Under
    <3>1. decodes \in {<<EnabStat>>, <<ClrIStat>>}
      BY <2>2, <2>4 DEF Serv, InTurn
    <3>2. Head(decodes) # ExCmd
      BY <3>1 DEF EnabStat, ClrIStat, ExCmd
    <3>3. performed' <=> performed
      BY <1>1, <3>2 DEF Decode
    <3>4. performed' \in BOOLEAN
      BY <1>1, <3>2 DEF Decode
    <3>5. buffer' = buffer
      BY <1>1, <3>2 DEF Decode, processGoByte, result
    <3>6. DriverTypes'
      BY <2>1, <3>4 DEF Serv, DriverTypes
    <3>7. ~Under'
      BY <2>1, <2>4, <3>3 DEF Under
    <3>8. Staged'
      BY <2>1, <3>5, <3>7, StagedKept DEF Serv
    <3>9. performed' => pc' = "waiting"
      BY <2>1, <3>3 DEF Serv, InTurn
    <3>10. InTurn'
      BY <2>2, <3>7, <3>9 DEF InTurn
    <3> QED
      BY <3>6, <3>8, <3>10 DEF Serv
  <2> QED
    BY <2>3, <2>4
<1>2. CASE Raise \/ InsertByHand \/ EjectByHand \/ UNCHANGED vars
  <2>1. /\ pc' = pc /\ request' = request /\ handler' = handler
        /\ performed' = performed
    BY <1>2 DEF Raise, InsertByHand, EjectByHand, vars, driverVars, historyVars
  <2>2. /\ decodes' = decodes /\ diskParm' = diskParm /\ address' = address
        /\ buffer' = buffer
    BY <1>2 DEF Raise, RaiseInterrupt, InsertByHand, InsertWhileRunning, EjectByHand,
                Eject, vars, floppyVars, command, parameters, result
  <2>3. DriverTypes'
    BY <2>1 DEF Serv, DriverTypes
  <2>4. Staged'
    BY <2>1, <2>2, StagedKept DEF Serv, Under
  <2>5. InTurn'
    BY <2>1, <2>2 DEF Serv, InTurn, Under
  <2> QED
    BY <2>3, <2>4, <2>5 DEF Serv
<1>3. CASE MachineReset
  <2>1. /\ pc' = "init" /\ handler' = "none" /\ performed' = FALSE
        /\ decodes' = <<>>
    BY <1>3 DEF MachineReset, Reset, resetCommand
  <2>2. DriverTypes' /\ Staged'
    BY <2>1 DEF DriverTypes, Staged, Under
  <2>3. InTurn'
    BY <2>1 DEF InTurn, Under, Staging
  <2> QED
    BY <2>2, <2>3 DEF Serv
<1> QED
  BY <1>1, <1>2, <1>3

\* Every step keeps the account of who owns DISKCMD
LEMMA SystemStepServ ==
    ASSUME Inv, Serv, [SystemNext]_vars
    PROVE  Serv'
<1>1. ASSUME NEW r \in Requests, Submit(r)
      PROVE  Serv'
  <2>1. /\ pc' = "wait" /\ request' = r /\ performed' = FALSE
        /\ handler' = handler /\ handler = "none" /\ pc = "free"
        /\ decodes' = decodes
    BY <1>1 DEF Submit, At, floppyVars
  <2>2. DriverTypes'
    BY <2>1 DEF DriverTypes
  <2>3. Staged'
    BY <2>1 DEF Staged, Under
  <2>4. ~Under /\ ~Under'
    BY <2>1 DEF Under
  <2>5. InTurn'
    BY <2>1, <2>4 DEF Serv, InTurn, Staging
  <2> QED
    BY <2>2, <2>3, <2>5 DEF Serv
<1> QED
  BY <1>1, RequestKeepsServ, HandlerKeepsServ, MachineKeepsServ DEF SystemNext

\* so it holds always
LEMMA SystemInv == SystemSpec => [](Inv /\ Serv)
<1>1. Inv /\ Serv /\ [SystemNext]_vars => Inv' /\ Serv'
  BY SystemStepIsStep, NextInv, SystemStepServ DEF Serv
<1> QED
  BY <1>1, SystemInitInv, PTL DEF SystemSpec

-----------------------------------------------------------------------------
(* Different sectors have different numbers.                               *)
First(zone) == CASE zone = 0 -> 0 [] zone = 1 -> 192 [] zone = 2 -> 368
                 [] zone = 3 -> 528 [] OTHER -> 672

(* A track lies between the first block of its zone and that of the next.  *)
LEMMA TrackInZone ==
    ASSUME NEW t \in 0 .. 79
    PROVE  /\ Zone(t) \in 0 .. 4
           /\ First(Zone(t)) <= Cumulative(t)
           /\ Zone(t) < 4 => Cumulative(t) + SecPerTrack(t) <= First(Zone(t) + 1)
<1>1. Zone(t) \in 0 .. 4 /\ t % 16 \in 0 .. 15
  BY SMT DEF Zone, TracksPerZone
<1>2. Cumulative(t) = First(Zone(t)) + (t % 16) * SecPerTrack(t)
  BY DEF Cumulative, Base, First, TracksPerZone
<1>3. /\ Zone(t) = 0 => SecPerTrack(t) = 12
      /\ Zone(t) = 1 => SecPerTrack(t) = 11
      /\ Zone(t) = 2 => SecPerTrack(t) = 10
      /\ Zone(t) = 3 => SecPerTrack(t) = 9
      /\ Zone(t) = 4 => SecPerTrack(t) = 8
  BY DEF SecPerTrack
<1> DEFINE m == t % 16
<1> HIDE DEF m
<1>4. m \in 0 .. 15 /\ Cumulative(t) = First(Zone(t)) + m * SecPerTrack(t)
  BY <1>1, <1>2 DEF m
<1>5. CASE Zone(t) = 0
  BY <1>1, <1>3, <1>4, <1>5 DEF First
<1>6. CASE Zone(t) = 1
  BY <1>1, <1>3, <1>4, <1>6 DEF First
<1>7. CASE Zone(t) = 2
  BY <1>1, <1>3, <1>4, <1>7 DEF First
<1>8. CASE Zone(t) = 3
  BY <1>1, <1>3, <1>4, <1>8 DEF First
<1>9. CASE Zone(t) = 4
  BY <1>1, <1>3, <1>4, <1>9 DEF First
<1> QED
  BY <1>1, <1>5, <1>6, <1>7, <1>8, <1>9

\* The first sectors of the zones are in order
LEMMA FirstGrows ==
    ASSUME NEW y \in 0 .. 4, NEW z \in 0 .. 4, y <= z
    PROVE  First(y) <= First(z) /\ First(y) \in Nat
BY SMT DEF First

\* A track ends before the next begins
LEMMA TracksApart ==
    ASSUME NEW s \in 0 .. 79, NEW t \in 0 .. 79, s < t
    PROVE  Cumulative(s) + SecPerTrack(s) <= Cumulative(t)
<1>1. /\ Zone(s) \in 0 .. 4 /\ Zone(t) \in 0 .. 4
      /\ First(Zone(t)) <= Cumulative(t)
      /\ Zone(s) < 4 => Cumulative(s) + SecPerTrack(s) <= First(Zone(s) + 1)
  BY TrackInZone
<1>2. Zone(s) <= Zone(t)
  BY SMT DEF Zone, TracksPerZone
<1>3. /\ Cumulative(s) \in Nat /\ Cumulative(t) \in Nat
      /\ SecPerTrack(s) \in 8 .. 12 /\ SecPerTrack(t) \in 8 .. 12
  BY GeometryType
<1>4. CASE Zone(s) = Zone(t)
  <2>1. s % 16 < t % 16 /\ s % 16 \in 0 .. 15 /\ t % 16 \in 0 .. 15
    BY <1>4, SMT DEF Zone, TracksPerZone
  <2>2. Base(s) = Base(t) /\ SecPerTrack(s) = SecPerTrack(t) /\ Base(t) \in Nat
    BY <1>4 DEF Base, SecPerTrack
  <2>3. ASSUME NEW m \in 0 .. 15, NEW n \in 0 .. 15, m < n, NEW k \in 8 .. 12
        PROVE  m * k + k <= n * k
    <3>1. k \in {8, 9, 10, 11, 12}
      OBVIOUS
    <3>2. CASE k = 8
      BY <2>3, <3>2
    <3>3. CASE k = 9
      BY <2>3, <3>3
    <3>4. CASE k = 10
      BY <2>3, <3>4
    <3>5. CASE k = 11
      BY <2>3, <3>5
    <3>6. CASE k = 12
      BY <2>3, <3>6
    <3> QED
      BY <3>1, <3>2, <3>3, <3>4, <3>5, <3>6
  <2>4. (s % 16) * SecPerTrack(t) + SecPerTrack(t) <= (t % 16) * SecPerTrack(t)
    BY <1>3, <2>1, <2>3
  <2>5. /\ Cumulative(s) = Base(t) + (s % 16) * SecPerTrack(t)
        /\ Cumulative(t) = Base(t) + (t % 16) * SecPerTrack(t)
    BY <2>2 DEF Cumulative, TracksPerZone
  <2>6. /\ (s % 16) * SecPerTrack(t) \in Int /\ (t % 16) * SecPerTrack(t) \in Int
    BY <1>3, <2>1
  <2>7. ASSUME NEW x \in Int, NEW y \in Int, NEW k \in Int, NEW c \in Int,
               x + k <= y
        PROVE  (c + x) + k <= c + y
    BY <2>7
  <2> QED
    BY <1>3, <2>2, <2>4, <2>5, <2>6, <2>7
<1>5. CASE Zone(s) # Zone(t)
  <2>1. Zone(s) < 4 /\ Zone(s) + 1 \in 0 .. 4 /\ Zone(s) + 1 <= Zone(t)
    BY <1>1, <1>2, <1>5
  <2>2. /\ First(Zone(s) + 1) <= First(Zone(t)) /\ First(Zone(s) + 1) \in Nat
        /\ First(Zone(t)) \in Nat
    BY <1>1, <2>1, FirstGrows
  <2> QED
    BY <1>1, <1>3, <2>1, <2>2
<1> QED
  BY <1>4, <1>5

(* The blocks of a diskette of either kind.                                *)
LEMMA SectorsDiffer ==
    ASSUME NEW a \in Address, NEW b \in Address, NEW doubleSided \in BOOLEAN,
           blockNumber(a, doubleSided) = blockNumber(b, doubleSided),
           blockNumber(a, doubleSided) # NoBlock,
           ~doubleSided => blockNumber(a, doubleSided) < BlocksPerSide
    PROVE  a = b
<1>1. IsSector(a) /\ IsSector(b)
  <2>1. ASSUME NEW x \in Address, IsSector(x)
        PROVE  blockNumber(x, doubleSided) # NoBlock
    <3>1. x.track \in 0 .. 79 /\ x.sector \in Nat /\ x.side \in {0, 1}
      BY <2>1 DEF IsSector, Address, Tracks
    <3>2. SecPerTrack(x.track) \in 8 .. 12 /\ Cumulative(x.track) \in Nat
      BY <3>1, GeometryType
    <3> QED
      BY <2>1, <3>1, <3>2 DEF blockNumber, BlocksPerSide, NoBlock
  <2> QED
    BY <2>1 DEF blockNumber
<1> DEFINE ca == Cumulative(a.track)
           cb == Cumulative(b.track)
           na == SecPerTrack(a.track)
           nb == SecPerTrack(b.track)
<1>2. /\ a.track \in 0 .. 79 /\ a.side \in {0, 1} /\ a.sector \in 0 .. na - 1
      /\ b.track \in 0 .. 79 /\ b.side \in {0, 1} /\ b.sector \in 0 .. nb - 1
  BY <1>1, GeometryType DEF IsSector, Address, Tracks
<1>3. ca \in Nat /\ cb \in Nat /\ na \in 8 .. 12 /\ nb \in 8 .. 12
  BY <1>2, GeometryType
<1>0. PICK n : n = blockNumber(a, doubleSided)
  OBVIOUS
<1>4. /\ doubleSided => n = 2 * ca + a.side * na + a.sector
      /\ doubleSided => n = 2 * cb + b.side * nb + b.sector
      /\ ~doubleSided => n = ca + a.sector + a.side * 800
      /\ ~doubleSided => n = cb + b.sector + b.side * 800
      /\ ~doubleSided => n < 800
  <2>1. n = blockNumber(a, doubleSided) /\ n = blockNumber(b, doubleSided)
    BY <1>0
  <2> QED
    BY <1>1, <2>1 DEF blockNumber, BlocksPerSide
<1>5. /\ a.track < b.track => ca + na <= cb
      /\ b.track < a.track => cb + nb <= ca
  BY <1>2, TracksApart
<1>6. a.track = b.track => ca = cb /\ na = nb
  OBVIOUS
<1> HIDE DEF ca, cb, na, nb
<1>7. a.track = b.track /\ a.side = b.side /\ a.sector = b.sector
  <2>1. CASE ~doubleSided
    <3>0. ASSUME NEW c \in Nat, NEW x \in Nat, NEW y \in {0, 1}, c + x + y * 800 < 800
          PROVE  y = 0 /\ c + x + y * 800 = c + x
      <4>1. CASE y = 1
        BY <3>0, <4>1
      <4>2. CASE y = 0
        BY <4>2
      <4> QED
        BY <4>1, <4>2
    <3>0a. /\ ca + a.sector + a.side * 800 = cb + b.sector + b.side * 800
          /\ ca + a.sector + a.side * 800 < 800
      <4>1. n = ca + a.sector + a.side * 800
        BY <1>4, <2>1
      <4>2. n = cb + b.sector + b.side * 800
        BY <1>4, <2>1
      <4>3. n < 800
        BY <1>4, <2>1
      <4> QED
        BY <4>1, <4>2, <4>3
    <3>0b. a.sector \in Nat /\ b.sector \in Nat
      BY <1>2, <1>3
    <3>1. a.side = 0 /\ ca + a.sector + a.side * 800 = ca + a.sector
      BY <1>2, <1>3, <3>0, <3>0a, <3>0b
    <3>1b. b.side = 0 /\ cb + b.sector + b.side * 800 = cb + b.sector
      BY <1>2, <1>3, <3>0, <3>0a, <3>0b
    <3>2. ca + a.sector = cb + b.sector
      BY <3>1, <3>1b, <3>0a
    <3>3. a.track = b.track
      BY <1>2, <1>3, <1>5, <3>2
    <3> QED
      BY <1>2, <1>3, <1>6, <3>1, <3>1b, <3>2, <3>3
  <2>2. CASE doubleSided
    <3>1. 2 * ca + a.side * na + a.sector = 2 * cb + b.side * nb + b.sector
      BY <1>4, <2>2
    <3>2. a.track = b.track
      <4>1. a.side * na \in {0, na} /\ b.side * nb \in {0, nb}
        BY <1>2, <1>3
      <4> QED
        BY <1>2, <1>3, <1>5, <3>1, <4>1
    <3>3. a.side * na + a.sector = b.side * na + b.sector
      BY <1>2, <1>3, <1>6, <3>1, <3>2
    <3> QED
      BY <1>2, <1>3, <1>6, <3>2, <3>3
  <2> QED
    BY <2>1, <2>2
<1>8. /\ a = [track |-> a.track, sector |-> a.sector, side |-> a.side]
      /\ b = [track |-> b.track, sector |-> b.sector, side |-> b.side]
  BY DEF Address
<1> QED
  BY <1>7, <1>8

(* A write to a sector changes what the diskette holds there, and nothing  *)
(* else.                                                                   *)
LEMMA StoredContents ==
    ASSUME NEW d \in Disks, NEW session, NEW w, NEW a \in Addresses,
           blockNumber(a, IsDoubleSided(d)) \in Blocks(d)
    PROVE  Contents(d, Stored(session, blockNumber(a, IsDoubleSided(d)), w))
             = [Contents(d, session) EXCEPT ![a] = w]
<1> DEFINE side == IsDoubleSided(d)
           b    == blockNumber(a, side)
           S    == {x \in Addresses : blockNumber(x, side) \in Blocks(d)}
<1>1. side \in BOOLEAN /\ Addresses \subseteq Address
  BY FloppySystemAssumption DEF IsDoubleSided, Addresses
<1>2. ASSUME NEW x \in S, blockNumber(x, side) = b
      PROVE  x = a
  <2>1. BlockCount[d] \in Nat /\ NoBlock \notin Blocks(d)
    BY FloppyAssumption DEF Blocks, NoBlock
  <2>2. d # NoDisk
    BY FloppyAssumption
  <2>3. ~side => b < BlocksPerSide
    BY <2>1, <2>2 DEF IsDoubleSided, Blocks, BlocksPerSide
  <2>4. x \in Address /\ a \in Address
    BY <1>1
  <2> QED
    BY <1>1, <1>2, <2>1, <2>3, <2>4, SectorsDiffer
<1>3. ASSUME NEW c
      PROVE  Content(d, Stored(session, b, w), c) =
               IF c = b THEN w ELSE Content(d, session, c)
  BY DEF Content, Stored
<1>4. a \in S
  OBVIOUS
<1>5. Contents(d, session) = [x \in S |-> Content(d, session, blockNumber(x, side))]
  BY DEF Contents
<1>6. Contents(d, Stored(session, b, w)) =
        [x \in S |-> Content(d, Stored(session, b, w), blockNumber(x, side))]
  BY DEF Contents
<1> HIDE DEF S, b, side
<1>7. \A x \in S : Content(d, Stored(session, b, w), blockNumber(x, side)) =
                     IF x = a THEN w ELSE Content(d, session, blockNumber(x, side))
  <2> TAKE x \in S
  <2>1. blockNumber(x, side) = b => x = a
    BY <1>2
  <2>2. x = a => blockNumber(x, side) = b
    BY DEF b
  <2> QED
    BY <1>3, <2>1, <2>2
<1>8. Contents(d, Stored(session, b, w)) = [Contents(d, session) EXCEPT ![a] = w]
  BY <1>4, <1>5, <1>6, <1>7
<1> QED
  BY <1>8 DEF b, side

-----------------------------------------------------------------------------
(* The diskette drive of Diskette.tla, as FloppySystem.tla maps it.        *)
Medium == IF image = NoDisk THEN [a \in {} |-> NoWord]
                            ELSE Contents(image, sessionOverlay)
Job    == IF pc \in {"init", "free"} THEN NoRequest ELSE request
Effect == IF performed THEN <<Outcome>> ELSE <<>>

\* The initial states are those of a diskette drive
LEMMA DriveInit == SystemInit => Drive!Init
<1> SUFFICES ASSUME SystemInit PROVE Drive!Init
  OBVIOUS
<1>1. /\ image \in Disks \cup {NoDisk} /\ sessionOverlay = EmptySession
      /\ pc = "init" /\ performed = FALSE /\ hands = 0 /\ answer = Failure
  BY DEF SystemInit
<1>2. Medium \in {Contents(d, EmptySession) : d \in Disks} \cup {[a \in {} |-> NoWord]}
  BY <1>1 DEF Medium
<1> QED
  BY <1>1, <1>2 DEF Drive!Init, Drive!Empty, Drive!Failure, Failure, Medium

(* The sector a request names is on the diskette, or is not, for both.     *)
LEMMA Addressed ==
    ASSUME Inv, request \in Requests, address = request.address
    PROVE  /\ OnDisk <=> request.address \in DOMAIN Medium
           /\ OnDisk => /\ image \in Disks
                        /\ request.address \in Addresses
                        /\ Block = blockNumber(request.address, IsDoubleSided(image))
                        /\ Block \in Blocks(image)
                        /\ Medium = Contents(image, sessionOverlay)
                        /\ Medium[request.address] = Content(image, sessionOverlay, Block)
<1>1. Block = blockNumber(request.address, IsDoubleSided(image))
  BY DEF Block
<1>2. request.address \in Addresses
  BY DEF Addresses
<1>3. CASE image = NoDisk
  BY <1>3 DEF OnDisk, Medium
<1>4. CASE image # NoDisk
  <2>1. image \in Disks /\ Medium = Contents(image, sessionOverlay)
    BY <1>4 DEF Inv, TypeOK, SessionOK, Medium
  <2>2. request.address \in DOMAIN Medium <=> Block \in Blocks(image)
    BY <1>1, <1>2, <2>1 DEF Contents
  <2>3. OnDisk <=> Block \in Blocks(image)
    <3>1. OnDisk => Block \in Blocks(image)
      BY BlockOnDisk DEF Inv
    <3>2. Block \in Blocks(image) => OnDisk
      BY <1>4, <2>1, FloppyAssumption DEF Blocks, OnDisk, NoBlock
    <3> QED
      BY <3>1, <3>2
  <2>4. Block \in Blocks(image) =>
          Medium[request.address] = Content(image, sessionOverlay, Block)
    BY <1>1, <1>2, <2>1 DEF Contents
  <2> QED
    BY <1>1, <1>2, <2>1, <2>2, <2>3, <2>4
<1> QED
  BY <1>3, <1>4

(* The decoding of the request's go-byte is its effect.                    *)
LEMMA DecodePerforms ==
    ASSUME Inv, Serv, Under, Decode
    PROVE  Drive!Perform
<1>1. /\ pc = "waiting" /\ ~performed /\ request \in Requests
      /\ decodes = <<ExCmd>> /\ diskParm = SubCommand(request.op)
      /\ request.op # "eject" => address = request.address
      /\ request.op = "write" => buffer = request.word
  BY DEF Under, Serv, InTurn, Staged, DriverTypes
<1>2. /\ pc' = pc /\ request' = request /\ answer' = answer /\ hands' = hands
  BY DEF Decode, driverVars
<1>3. performed'
  <2>1. Head(decodes) = ExCmd
    BY <1>1
  <2>2. performed' = (performed \/ Head(decodes) = ExCmd)
    BY DEF Decode
  <2> QED
    BY <2>1, <2>2, Zenon
<1>4. performExCmd
  <2>1. Head(decodes) = ExCmd
    BY <1>1
  <2> QED
    BY <2>1 DEF Decode, processGoByte, ExCmd, ClrIStat
<1>5. request.op \in {"read", "write", "eject", "format"} /\ request # NoRequest
  BY <1>1, RequestType, FloppySystemAssumption
<1>6. Effect = <<>> /\ Job = request /\ Job' = request /\ Job # NoRequest
  BY <1>1, <1>2, <1>5 DEF Effect, Job
<1>7. Effect' = <<Outcome'>>
  BY <1>3 DEF Effect
<1>8. ASSUME image' = image, sessionOverlay' = sessionOverlay
      PROVE  Medium' = Medium
  BY <1>8 DEF Medium, Contents, Content, Blocks, IsDoubleSided
<1>9. ASSUME diskErr' # NoError
      PROVE  Effect' = <<Failure>>
  BY <1>7, <1>9 DEF Outcome
<1>10. ASSUME diskErr' = NoError, request.op # "read"
       PROVE  Effect' = <<[ok |-> TRUE, word |-> NoWord]>>
  BY <1>2, <1>7, <1>10 DEF Outcome
<1>11. CASE request.op = "read"
  <2>1. performRead
    BY <1>1, <1>4, <1>11 DEF SubCommand, performExCmd, ReadDisk, WriteDisk, Unclamp
  <2>2. Medium' = Medium
    BY <1>8, <2>1 DEF performRead, media
  <2>3. CASE OnDisk
    <3>1. /\ request.address \in DOMAIN Medium
          /\ Medium[request.address] = Content(image, sessionOverlay, Block)
      BY <1>1, <1>11, <2>3, Addressed
    <3>2. buffer' = Content(image, sessionOverlay, Block) /\ diskErr' = NoError
      BY <2>1, <2>3 DEF performRead
    <3>3. Effect' = <<[ok |-> TRUE, word |-> Medium[request.address]]>>
      BY <1>2, <1>7, <1>11, <3>1, <3>2 DEF Outcome
    <3> QED
      BY <1>2, <1>6, <1>11, <2>2, <3>1, <3>3
      DEF Drive!Perform, Drive!Done, Medium, Job, Effect
  <2>4. CASE ~OnDisk
    <3>1. request.address \notin DOMAIN Medium
      BY <1>1, <1>11, <2>4, Addressed
    <3>2. diskErr' # NoError
      BY <2>1, <2>4 DEF performRead, ReadError, NoError
    <3>3. Effect' = <<Failure>>
      BY <1>9, <3>2
    <3> QED
      BY <1>2, <1>6, <1>11, <2>2, <3>1, <3>3
      DEF Drive!Perform, Drive!Failure, Failure, Medium, Job, Effect
  <2> QED
    BY <2>3, <2>4
<1>12. CASE request.op = "write"
  <2>1. performWrite
    BY <1>1, <1>4, <1>12 DEF SubCommand, performExCmd, ReadDisk, WriteDisk, Unclamp
  <2>2. CASE OnDisk
    <3>1. /\ request.address \in DOMAIN Medium
          /\ image \in Disks /\ request.address \in Addresses
          /\ Block = blockNumber(request.address, IsDoubleSided(image))
          /\ Block \in Blocks(image)
          /\ Medium = Contents(image, sessionOverlay)
      BY <1>1, <1>12, <2>2, Addressed
    <3>2. /\ sessionOverlay' = Stored(sessionOverlay, Block, buffer)
          /\ image' = image /\ diskErr' = NoError
      BY <2>1, <2>2 DEF performWrite
    <3>3. image # NoDisk
      BY <2>2 DEF OnDisk
    <3>4. Medium' = Contents(image, Stored(sessionOverlay, Block, buffer))
      BY <3>2, <3>3 DEF Medium, Contents, Content, Blocks, IsDoubleSided
    <3>5. Medium' = [Medium EXCEPT ![request.address] = request.word]
      BY <1>1, <1>12, <3>1, <3>4, StoredContents
    <3>6. Effect' = <<[ok |-> TRUE, word |-> NoWord]>>
      BY <1>10, <1>12, <3>2
    <3> QED
      BY <1>2, <1>6, <1>12, <3>1, <3>5, <3>6
      DEF Drive!Perform, Drive!Done, Medium, Job, Effect
  <2>3. CASE ~OnDisk
    <3>1. request.address \notin DOMAIN Medium
      BY <1>1, <1>12, <2>3, Addressed
    <3>2. diskErr' # NoError /\ image' = image /\ sessionOverlay' = sessionOverlay
      BY <2>1, <2>3 DEF performWrite, WriteError, NoError
    <3>3. Effect' = <<Failure>> /\ Medium' = Medium
      BY <1>8, <1>9, <3>2
    <3> QED
      BY <1>2, <1>6, <1>12, <3>1, <3>3
      DEF Drive!Perform, Drive!Failure, Failure, Medium, Job, Effect
  <2> QED
    BY <2>2, <2>3
<1>13. CASE request.op = "eject"
  <2>1. performUnclamp
    BY <1>1, <1>4, <1>13 DEF SubCommand, performExCmd, ReadDisk, WriteDisk, Unclamp
  <2>2. image' = NoDisk /\ diskErr' = NoError
    BY <2>1 DEF performUnclamp, RemoveDisk
  <2>3. Medium' = [a \in {} |-> NoWord]
    BY <2>2 DEF Medium
  <2>4. Effect' = <<[ok |-> TRUE, word |-> NoWord]>>
    BY <1>10, <1>13, <2>2
  <2> QED
    BY <1>2, <1>6, <1>13, <2>3, <2>4
    DEF Drive!Perform, Drive!Done, Drive!Empty, Medium, Job, Effect
<1>14. CASE request.op = "format"
  <2>1. rejectSubCommand
    BY <1>1, <1>4, <1>14
    DEF SubCommand, performExCmd, ReadDisk, WriteDisk, Unclamp, Format
  <2>2. diskErr' # NoError /\ image' = image /\ sessionOverlay' = sessionOverlay
    BY <2>1 DEF rejectSubCommand, media, NotIssued, NoError
  <2>3. Effect' = <<Failure>> /\ Medium' = Medium
    BY <1>8, <1>9, <2>2
  <2> QED
    BY <1>2, <1>6, <1>14, <2>3
    DEF Drive!Perform, Drive!Failure, Failure, Medium, Job, Effect
<1> QED
  BY <1>5, <1>11, <1>12, <1>13, <1>14

-----------------------------------------------------------------------------
(* What the software above does not see.                                   *)
LEMMA DriveStutters ==
    ASSUME image' = image, sessionOverlay' = sessionOverlay, hands' = hands,
           answer' = answer, Job' = Job, performed' = performed,
           performed => request' = request /\ buffer' = buffer /\ diskErr' = diskErr
    PROVE  UNCHANGED Drive!vars
<1>1. Medium' = Medium
  BY DEF Medium, Contents, Content, Blocks, IsDoubleSided
<1>2. Effect' = Effect
  <2>1. CASE performed
    <3>1. Outcome' = Outcome
      BY <2>1 DEF Outcome
    <3> QED
      BY <3>1 DEF Effect
  <2>2. CASE ~performed
    BY <2>2 DEF Effect
  <2> QED
    BY <2>1, <2>2
<1> QED
  BY <1>1, <1>2 DEF Drive!vars, Medium, Job, Effect

\* Every step is one of a diskette drive or leaves it alone
LEMMA DriveStep ==
    ASSUME Inv, Serv, [SystemNext]_vars
    PROVE  [Drive!Next]_(Drive!vars)
<1>1. ASSUME NEW r \in Requests, Submit(r)
      PROVE  Drive!Submit
  <2>1. /\ pc = "free" /\ pc' = "wait" /\ request' = r /\ ~performed'
        /\ hands' = hands /\ answer' = answer
        /\ image' = image /\ sessionOverlay' = sessionOverlay
    BY <1>1 DEF Submit, At, floppyVars
  <2>2. Job = NoRequest /\ Job' = r
    BY <2>1 DEF Job
  <2>3. Effect' = <<>>
    BY <2>1 DEF Effect
  <2>4. Medium' = Medium
    BY <2>1 DEF Medium, Contents, Content, Blocks, IsDoubleSided
  <2> QED
    BY <2>1, <2>2, <2>3, <2>4 DEF Drive!Submit, Medium, Job, Effect
<1>2. CASE RequestStep
  <2>1. /\ image' = image /\ sessionOverlay' = sessionOverlay /\ hands' = hands
        /\ answer' = answer /\ performed' = performed /\ request' = request
        /\ diskErr' = diskErr
    BY <1>2 DEF RequestStep, Initialise, AwaitReady, StageParm, StageAddress, StageBuffer,
                Go, Goto, historyVars, floppyVars, WriteParm, WriteAddress,
                WriteBuffer, WriteDiskCmd, media, result
  <2>2. ~performed
    BY <1>2 DEF Serv, InTurn, RequestStep, Initialise, AwaitReady, StageParm,
                StageAddress, StageBuffer, Go, At
  <2>3. pc \in {"init", "free"} <=> pc' \in {"init", "free"}
    BY <1>2 DEF RequestStep, Initialise, AwaitReady, StageParm, StageAddress, StageBuffer,
                Go, Goto, At
  <2>4. Job' = Job
    BY <2>1, <2>3 DEF Job
  <2> QED
    BY <2>1, <2>2, <2>4, DriveStutters
<1>3. CASE HandlerStep
  <2>1. /\ image' = image /\ sessionOverlay' = sessionOverlay /\ hands' = hands
        /\ request' = request /\ diskErr' = diskErr /\ buffer' = buffer
    BY <1>3 DEF HandlerStep, Interrupt, ReadStatus, ClearStatus, AwaitCleared, Act,
                historyVars, floppyVars, WriteDiskCmd, media, result
  <2>2. ASSUME pc' = pc, answer' = answer, performed' = performed
        PROVE  UNCHANGED Drive!vars
    <3>1. Job' = Job
      BY <2>1, <2>2 DEF Job
    <3> QED
      BY <2>1, <2>2, <3>1, DriveStutters
  <2>3. ASSUME Act, "done" \in seen, pc = "waiting"
        PROVE  Drive!Answer
    <3>1. answer' = Outcome /\ pc' = "free" /\ ~performed'
      BY <2>3 DEF Act
    <3>2. handler = "act"
      BY <2>3 DEF Act, Handling
    <3>3. performed
      BY <2>3, <3>2 DEF Serv, InTurn, Under
    <3>4. Effect = <<Outcome>> /\ Effect' = <<>>
      BY <3>1, <3>3 DEF Effect
    <3>5. request \in Requests
      BY <2>3 DEF Serv, DriverTypes
    <3>6. Job # NoRequest /\ Job' = NoRequest
      BY <2>3, <3>1, <3>5, FloppySystemAssumption DEF Job
    <3>7. Medium' = Medium
      BY <2>1 DEF Medium, Contents, Content, Blocks, IsDoubleSided
    <3>8. Effect # <<>> /\ Effect[1] = Outcome
      BY <3>4
    <3> QED
      BY <2>1, <3>1, <3>4, <3>6, <3>7, <3>8
      DEF Drive!Answer, Medium, Job, Effect
  <2> QED
    BY <1>3, <2>2, <2>3
    DEF HandlerStep, Interrupt, ReadStatus, ClearStatus, AwaitCleared, Act,
        historyVars, Drive!Next
<1>4. CASE Decode
  <2>1. CASE Under
    BY <1>4, <2>1, DecodePerforms DEF Drive!Next
  <2>2. CASE ~Under
    <3>1. decodes # <<>> /\ processGoByte
      BY <1>4 DEF Decode, processGoByte
    <3>2. decodes \in {<<EnabStat>>, <<ClrIStat>>}
      BY <2>2, <3>1 DEF Serv, InTurn
    <3>3. Head(decodes) # ExCmd
      BY <3>2 DEF EnabStat, ClrIStat, ExCmd
    <3>4. UNCHANGED <<media, result>>
      BY <3>1, <3>3 DEF processGoByte
    <3>5. performed' = performed
      <4>1. performed' = (performed \/ Head(decodes) = ExCmd)
        BY <1>4 DEF Decode
      <4>2. performed \in BOOLEAN
        BY DEF Serv, DriverTypes
      <4> QED
        BY <3>3, <4>1, <4>2
    <3>6. /\ pc' = pc /\ request' = request /\ answer' = answer /\ hands' = hands
      BY <1>4 DEF Decode, driverVars
    <3>7. Job' = Job
      BY <3>6 DEF Job
    <3>8. UNCHANGED Drive!vars
      BY <3>4, <3>5, <3>6, <3>7, DriveStutters DEF media, result
    <3> QED
      BY <3>8
  <2> QED
    BY <2>1, <2>2
<1>5. CASE Raise \/ UNCHANGED vars
  <2>1. /\ pc' = pc /\ request' = request /\ answer' = answer /\ hands' = hands
        /\ performed' = performed /\ image' = image
        /\ sessionOverlay' = sessionOverlay /\ buffer' = buffer /\ diskErr' = diskErr
    BY <1>5 DEF Raise, RaiseInterrupt, vars, driverVars, historyVars, floppyVars, media,
                result
  <2>2. Job' = Job
    BY <2>1 DEF Job
  <2> QED
    BY <2>1, <2>2, DriveStutters
<1>6. CASE InsertByHand \/ EjectByHand
  <2>1. /\ pc' = pc /\ request' = request /\ answer' = answer
        /\ hands' = hands + 1
        /\ performed' = performed /\ buffer' = buffer /\ diskErr' = diskErr
    BY <1>6 DEF InsertByHand, EjectByHand, InsertWhileRunning, Eject, driverVars, result
  <2>2. Job' = Job
    BY <2>1 DEF Job
  <2>3. Effect' = Effect
    <3>1. Outcome' = Outcome
      BY <2>1 DEF Outcome
    <3> QED
      BY <2>1, <3>1 DEF Effect
  <2>4. Medium' \in {Contents(d, EmptySession) : d \in Disks} \cup {[a \in {} |-> NoWord]}
    <3>1. ASSUME NEW d \in Disks, InsertWhileRunning(d)
          PROVE  Medium' = Contents(d, EmptySession)
      <4>1. image' = d /\ sessionOverlay' = EmptySession /\ d # NoDisk
        BY <3>1, FloppyAssumption DEF InsertWhileRunning, InsertDisk
      <4> QED
        BY <4>1 DEF Medium, Contents, Content, Blocks, IsDoubleSided
    <3>2. ASSUME Eject
          PROVE  Medium' = [a \in {} |-> NoWord]
      BY <3>2 DEF Eject, RemoveDisk, Medium
    <3> QED
      BY <1>6, <3>1, <3>2 DEF InsertByHand, EjectByHand
  <2>5. Drive!Swap
    BY <2>1, <2>2, <2>3, <2>4 DEF Drive!Swap, Drive!Empty, Medium, Job, Effect
  <2> QED
    BY <2>5 DEF Drive!Next
<1>7. CASE MachineReset
  <2>1. /\ pc' = "init" /\ ~performed' /\ answer' = answer /\ hands' = hands
        /\ image' = image /\ sessionOverlay' = sessionOverlay
    BY <1>7 DEF MachineReset, Reset, media
  <2>2. Job' = NoRequest /\ Effect' = <<>>
    BY <2>1 DEF Job, Effect
  <2>3. Medium' = Medium
    BY <2>1 DEF Medium, Contents, Content, Blocks, IsDoubleSided
  <2>4. Drive!Restart
    BY <2>1, <2>2, <2>3 DEF Drive!Restart, Medium, Job, Effect
  <2> QED
    BY <2>4 DEF Drive!Next
<1>8. (\E r \in Requests : Submit(r)) => [Drive!Next]_(Drive!vars)
  BY <1>1 DEF Drive!Next
<1> QED
  BY <1>2, <1>3, <1>4, <1>5, <1>6, <1>7, <1>8 DEF SystemNext

(* What the driver and the controller do together is what a diskette drive *)
(* does: every request takes effect once, on the diskette in the drive at  *)
(* that moment, and its answer tells what it did.                          *)
THEOREM ImplementsDisketteHolds == SystemSpec => ImplementsDiskette
<1>1. Inv /\ Serv /\ [SystemNext]_vars => [Drive!Next]_(Drive!vars)
  BY DriveStep
<1> QED
  BY <1>1, SystemInv, DriveInit, PTL DEF SystemSpec, ImplementsDiskette, Drive!Spec

(* With the driver, too, no go-byte is ever dropped once DISKCMD has been  *)
(* seen clear: neither the request's nor the handler's clristat.           *)
THEOREM OneCommandInSystem == SystemSpec => []OneCommandAtATime
<1>1. Inv => OneCommandAtATime
  BY DEF Inv
<1> QED
  BY <1>1, SystemInv, PTL
=============================================================================
