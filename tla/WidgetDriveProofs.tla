--------------------------- MODULE WidgetDriveProofs ---------------------------
(* Proofs about WidgetDrive.tla for every set of images, every number of   *)
(* blocks and every host.                                                  *)
EXTENDS WidgetSystem, TLAPS

(* The inductive invariant: none of the properties is inductive alone. An  *)
(* OK status is true because the block written is the one the command      *)
(* named and the accumulator is kept, and a stream is a block because no   *)
(* write can happen in its phase: both are facts of PhaseAgreement.        *)
IInv == TypeOK /\ PhaseAgreement /\ StatusNeverLies /\ StreamTellsTruth

USE WidgetAssumption DEF RespIdleReady, RespReadAccepted, RespWriteAccepted,
    RespPostWrite, ReplyProceed, ReadCommand, WriteCommand, OkStatus,
    FatalStatus, Floating, Zeros, CommandWords, WriteWords

\* An element of a sequence of words is a word
LEMMA WordAt == ASSUME NEW s \in Seq(Words), NEW i \in 1 .. Len(s)
               PROVE  s[i] \in Words
  OBVIOUS

(* The words of a two-word accumulator are words, hence numbers.           *)
LEMMA AccumulatorWords ==
  ASSUME NEW s \in Seq(Words), Len(s) = 2
  PROVE  s[1] \in Words /\ s[2] \in Words /\ s[2] \in Nat
<1>0. 1 \in 1 .. 2 /\ 2 \in 1 .. 2
  OBVIOUS
<1>1. s[1] \in Words
  BY Zenon, <1>0, WordAt
<1>2. s[2] \in Words
  BY Zenon, <1>0, WordAt
<1>3. s[2] \in Nat
  BY <1>2
<1> QED
  BY <1>1, <1>2, <1>3

\* The index before the last of a stream of three
LEMMA OneBelowThree == ASSUME NEW n \in Nat, n + 1 = 3 PROVE n = 2
  OBVIOUS

-----------------------------------------------------------------------------
(* Initially.                                                              *)
LEMMA InitInv == Init => IInv
<1> SUFFICES ASSUME Init PROVE IInv
  OBVIOUS
<1>1. \A i \in Images : store[i] \in [ValidBlocks(i) -> Contents]
  BY DEF Init, Contents, Blank
<1>2. FlagsOK /\ DataOK
  <2>1. FlagsOK
    BY Zenon DEF Init, FlagsOK
  <2>2. DataOK
    BY <1>1 DEF Init, DataOK, Phases
  <2> QED
    BY <2>1, <2>2
<1>3. PhaseAgreement /\ StatusNeverLies /\ StreamTellsTruth
  BY DEF Init, PhaseAgreement, StatusNeverLies, StreamTellsTruth
<1> QED
  BY <1>2, <1>3 DEF IInv, TypeOK

(* A rewound transaction satisfies the invariant whatever came before it.  *)
LEMMA RewoundInv ==
  ASSUME IInv, resetTransaction,
         UNCHANGED <<store, pendingBlock, rejectNext>>,
         image' \in Images \cup {NoImage},
         lastStatus' \in {OkStatus, FatalStatus},
         completions' \in 0 .. MaxCompletions,
         ifrCA1' \in BOOLEAN
  PROVE  IInv'
<1>1. FlagsOK'
  BY Zenon DEF IInv, TypeOK, FlagsOK, resetTransaction
<1>3. DataOK'
  BY DEF IInv, TypeOK, DataOK, resetTransaction, Phases
<1>2. PhaseAgreement' /\ StatusNeverLies' /\ StreamTellsTruth'
  BY DEF resetTransaction, PhaseAgreement, StatusNeverLies, StreamTellsTruth
<1> QED
  BY <1>1, <1>2, <1>3 DEF IInv, TypeOK

(* A step that leaves every variable alone but the interrupt's.            *)
LEMMA EventInv ==
  ASSUME IInv, UNCHANGED <<media, handshake, command, stream, writeAccum,
                           lastStatus>>,
         completions' \in 0 .. MaxCompletions,
         ifrCA1' \in BOOLEAN
  PROVE  IInv'
<1> USE DEF media, handshake, command, stream
<1>1. FlagsOK'
  BY Zenon DEF IInv, TypeOK, FlagsOK
<1>2. DataOK'
  BY DEF IInv, TypeOK, DataOK
<1>3. PhaseAgreement' /\ StatusNeverLies' /\ StreamTellsTruth'
  BY DEF IInv, PhaseAgreement, StatusNeverLies, StreamTellsTruth
<1> QED
  BY <1>1, <1>2, <1>3 DEF IInv, TypeOK

\* A step that leaves the drive alone keeps the invariant
LEMMA StutterInv ==
  ASSUME IInv, UNCHANGED driveVars
  PROVE  IInv'
<1>1. /\ UNCHANGED <<media, handshake, command, stream, writeAccum, lastStatus>>
      /\ completions' = completions
      /\ ifrCA1' = ifrCA1
  BY DEF driveVars, media, handshake, command, stream
<1>2. completions' \in 0 .. MaxCompletions
  BY <1>1 DEF IInv, TypeOK, DataOK
<1>3. ifrCA1' \in BOOLEAN
  BY Zenon, <1>1 DEF IInv, TypeOK, FlagsOK
<1> QED
  BY <1>1, <1>2, <1>3, EventInv

-----------------------------------------------------------------------------
(* The CMD strobe.                                                         *)
LEMMA StrobeInv ==
  ASSUME IInv, NEW asserted \in BOOLEAN, portBWrite(asserted),
         image # NoImage
  PROVE  IInv'
<1> USE DEF media, command, stream
<1>0. /\ UNCHANGED <<media, command, stream, writeAccum, lastStatus,
                     completions>>
      /\ cmdAsserted' = asserted
      /\ ifrCA1' = (ifrCA1 \/ asserted # cmdAsserted)
      /\ \/ cmdAssertEdge
         \/ UNCHANGED <<phase, responseCode, presented>>
  BY DEF portBWrite
<1>1. FlagsOK'
  BY Zenon, <1>0 DEF IInv, TypeOK, FlagsOK
<1>2. CASE UNCHANGED <<phase, responseCode, presented>>
  <2>1. DataOK'
    BY <1>0, <1>2 DEF IInv, TypeOK, DataOK
  <2>2. PhaseAgreement' /\ StatusNeverLies' /\ StreamTellsTruth'
    BY <1>0, <1>2 DEF IInv, PhaseAgreement, StatusNeverLies,
       StreamTellsTruth
  <2> QED
    BY <1>1, <2>1, <2>2 DEF IInv, TypeOK
<1>3. CASE cmdAssertEdge
  <2>1. presented' \in Nat
    BY SMTT(30), <1>0, <1>3 DEF IInv, TypeOK, DataOK, PhaseAgreement, cmdAssertEdge,
       StreamWord
  <2>2. DataOK'
    BY <1>0, <1>3, <2>1 DEF IInv, TypeOK, DataOK, cmdAssertEdge, Phases
  <2>3. PhaseAgreement'
    BY <1>0, <1>3 DEF IInv, TypeOK, DataOK, PhaseAgreement, cmdAssertEdge,
       StreamWord
  <2>4. StatusNeverLies' /\ StreamTellsTruth'
    BY <1>0, <1>3 DEF IInv, StatusNeverLies, StreamTellsTruth, cmdAssertEdge
  <2> QED
    BY <1>1, <2>2, <2>3, <2>4 DEF IInv, TypeOK
<1> QED
  BY <1>0, <1>2, <1>3

-----------------------------------------------------------------------------
(* The replies.                                                            *)
LEMMA OpenCommandInv ==
  ASSUME IInv, openCommand, image # NoImage
  PROVE  IInv'
<1> USE DEF openCommand, media, stream, events
<1>1. FlagsOK'
  BY Zenon DEF IInv, TypeOK, FlagsOK
<1>2. DataOK'
  BY DEF IInv, TypeOK, DataOK, Phases
<1>3. PhaseAgreement' /\ StatusNeverLies' /\ StreamTellsTruth'
  BY DEF IInv, PhaseAgreement, StatusNeverLies, StreamTellsTruth
<1> QED
  BY <1>1, <1>2, <1>3 DEF IInv, TypeOK

\* So does putting up the post-write status (the end of commitWrite)
LEMMA PostWriteStatusInv ==
  ASSUME IInv, postWriteStatus
  PROVE  IInv'
<1> USE DEF postWriteStatus, media, command, events
<1>1. FlagsOK'
  BY Zenon DEF IInv, TypeOK, FlagsOK
<1>2. DataOK'
  BY DEF IInv, TypeOK, DataOK, Phases
<1>3. PhaseAgreement'
  BY DEF IInv, TypeOK, DataOK, PhaseAgreement
<1>4. StatusNeverLies' /\ StreamTellsTruth'
  BY DEF IInv, StatusNeverLies, StreamTellsTruth
<1> QED
  BY <1>1, <1>2, <1>3, <1>4 DEF IInv, TypeOK

\* The end of a refused handshake
LEMMA RejectTransferInv ==
  ASSUME IInv, phase = "acceptHS", RejectTransfer
  PROVE  IInv'
<1> USE DEF RejectTransfer, media, events
<1>1. FlagsOK'
  BY Zenon DEF IInv, TypeOK, FlagsOK
<1>2. DataOK'
  BY DEF IInv, TypeOK, DataOK, Phases
<1>3. PhaseAgreement'
  BY DEF IInv, TypeOK, DataOK, PhaseAgreement
<1>4. StatusNeverLies' /\ StreamTellsTruth'
  BY DEF IInv, StatusNeverLies, StreamTellsTruth
<1> QED
  BY <1>1, <1>2, <1>3, <1>4 DEF IInv, TypeOK

\* An accepted write command opens a stream of two words
LEMMA WriteTransferInv ==
  ASSUME IInv, phase = "acceptHS", WriteTransfer
  PROVE  IInv'
<1> USE DEF WriteTransfer, media, command, stream, events
<1>1. FlagsOK'
  BY Zenon DEF IInv, TypeOK, FlagsOK
<1>2. DataOK'
  BY DEF IInv, TypeOK, DataOK, Phases
<1>3. PhaseAgreement'
  BY DEF IInv, TypeOK, DataOK, PhaseAgreement
<1>4. StatusNeverLies' /\ StreamTellsTruth'
  BY DEF IInv, StatusNeverLies, StreamTellsTruth
<1> QED
  BY <1>1, <1>2, <1>3, <1>4 DEF IInv, TypeOK

(* What a read streams: a status and two words, the block's if it is OK.   *)
LEMMA ReadStreamShape ==
  ASSUME DataOK, image \in Images, NEW b \in Nat
  PROVE  /\ readStatus(b) \in {OkStatus, FatalStatus}
         /\ readStream(b) \in Seq(Nat)
         /\ Len(readStream(b)) = 3
         /\ readStream(b)[1] = readStatus(b)
         /\ b # DeviceInfoBlock /\ readStatus(b) = OkStatus =>
              /\ b \in ValidBlocks(image)
              /\ readStream(b) = <<OkStatus, store[image][b].tag,
                                   store[image][b].data>>
<1>1. BlockCount[image] \in Nat
  BY DEF DataOK
<1>2. b < BlockCount[image] => b \in ValidBlocks(image)
  BY <1>1 DEF ValidBlocks
<1>3. b \in ValidBlocks(image) => /\ store[image][b].tag \in Nat
                                 /\ store[image][b].data \in Nat
  <2>1. store[image] \in [ValidBlocks(image) -> Contents]
    BY DEF DataOK
  <2>2. \A c \in Contents : c.tag \in Nat /\ c.data \in Nat
    <3>1. \A w \in Words \cup {Zeros} : w \in Nat
      OBVIOUS
    <3> QED
      BY Zenon, <3>1 DEF Contents
  <2> QED
    BY <2>1, <2>2
<1> QED
  BY <1>1, <1>2, <1>3 DEF readStatus, readStream

\* An accepted read command presents its stream of three words
LEMMA ReadTransferInv ==
  ASSUME IInv, phase = "acceptHS", ReadTransfer
  PROVE  IInv'
<1> USE DEF ReadTransfer, media, command
<1>0. image \in Images /\ pendingBlock \in Nat
  BY DEF IInv, TypeOK, DataOK, PhaseAgreement
<1> DEFINE s == readStream(pendingBlock)
           st == readStatus(pendingBlock)
<1>s. /\ st \in {OkStatus, FatalStatus}
      /\ s \in Seq(Nat) /\ Len(s) = 3 /\ s[1] = st
      /\ pendingBlock # DeviceInfoBlock /\ st = OkStatus =>
           /\ pendingBlock \in ValidBlocks(image)
           /\ s = <<OkStatus, store[image][pendingBlock].tag,
                    store[image][pendingBlock].data>>
  BY <1>0, ReadStreamShape DEF IInv, TypeOK
<1>i. pendingBlock = DeviceInfoBlock =>
        s = <<OkStatus, Zeros, BlockCount[image]>>
  BY DEF readStream
<1>v. /\ lastStatus' = st /\ outStream' = s /\ outIdx' = 0
      /\ presented' = st /\ phase' = "readData"
      /\ completions' \in 0 .. MaxCompletions
  BY DEF scheduleCompletion, IInv, TypeOK, DataOK
<1>u. UNCHANGED <<image, store, cmdAsserted, responseCode, commandAccum,
                  pendingBlock, rejectNext, writeAccum, ifrCA1>>
  OBVIOUS
<1>k. commandAccum[1] = ReadCommand
  BY Zenon DEF IInv, PhaseAgreement
<1> HIDE DEF s, st, ReadTransfer
<1>1. FlagsOK'
  BY Zenon, <1>u DEF IInv, TypeOK, FlagsOK
<1>2. DataOK'
  BY <1>s, <1>v, <1>u DEF IInv, TypeOK, DataOK, Phases
<1>3. PhaseAgreement'
  <2>1. 0 < Len(s) /\ st = s[0 + 1]
    BY <1>s
  <2> QED
    BY <2>1, <1>0, <1>v, <1>u DEF IInv, PhaseAgreement
<1>4. StatusNeverLies'
  BY <1>v DEF StatusNeverLies
<1>5. StreamTellsTruth'
  BY <1>s, <1>i, <1>v, <1>u, <1>k DEF StreamTellsTruth
<1> QED
  BY <1>1, <1>2, <1>3, <1>4, <1>5 DEF IInv, TypeOK

\* The reply to the response code (writePORTA)
LEMMA ReplyInv ==
  ASSUME IInv, NEW v \in Replies, writePORTA(v)
  PROVE  IInv'
<1>1. CASE UNCHANGED driveVars
  BY <1>1, StutterInv
<1>2. CASE image # NoImage /\ openCommand
  BY <1>2, OpenCommandInv
<1>3. CASE phase = "acceptHS" /\ beginTransferAfterAccept
  BY <1>3, RejectTransferInv, WriteTransferInv, ReadTransferInv
     DEF beginTransferAfterAccept
<1>4. CASE postWriteStatus
  BY <1>4, PostWriteStatusInv
<1>5. CASE /\ resetTransaction
           /\ UNCHANGED <<media, pendingBlock, rejectNext, lastStatus, events>>
  <2>1. /\ UNCHANGED <<store, pendingBlock, rejectNext>>
        /\ image' \in Images \cup {NoImage}
        /\ lastStatus' \in {OkStatus, FatalStatus}
        /\ completions' \in 0 .. MaxCompletions
    BY <1>5 DEF media, events, IInv, TypeOK, DataOK
  <2>2. ifrCA1' \in BOOLEAN
    BY Zenon, <1>5 DEF events, IInv, TypeOK, FlagsOK
  <2> QED
    BY <1>5, <2>1, <2>2, RewoundInv
<1> QED
  BY <1>1, <1>2, <1>3, <1>4, <1>5 DEF writePORTA, handleReply, proceed

-----------------------------------------------------------------------------
(* The words written to ORA.                                               *)
LEMMA CommandWordInv ==
  ASSUME IInv, NEW v \in Words, CommandWord(v), image # NoImage
  PROVE  IInv'
<1> USE DEF media, stream, events
<1>a. /\ commandAccum' = Append(commandAccum, v)
      /\ phase = "awaitCommand"
      /\ UNCHANGED <<image, store, cmdAsserted, presented, outStream, outIdx,
                     writeAccum, lastStatus, completions, ifrCA1>>
  BY DEF CommandWord
<1>b. /\ commandAccum' \in Seq(Words)
      /\ Len(commandAccum') = Len(commandAccum) + 1
      /\ Len(commandAccum) < CommandWords
  BY <1>a DEF IInv, TypeOK, DataOK, PhaseAgreement
<1>1. CASE Len(commandAccum') # CommandWords
  <2>0. UNCHANGED <<phase, responseCode, pendingBlock, rejectNext>>
    BY <1>1 DEF CommandWord
  <2>1. FlagsOK'
    BY Zenon, <1>a, <2>0 DEF IInv, TypeOK, FlagsOK
  <2>2. DataOK'
    BY <1>a, <1>b, <2>0 DEF IInv, TypeOK, DataOK
  <2>3. PhaseAgreement' /\ StatusNeverLies' /\ StreamTellsTruth'
    BY <1>1, <1>a, <1>b, <2>0 DEF IInv, TypeOK, DataOK, PhaseAgreement,
       StatusNeverLies, StreamTellsTruth
  <2> QED
    BY <2>1, <2>2, <2>3 DEF IInv, TypeOK
<1>2. CASE Len(commandAccum') = CommandWords
  <2>0. decodeCommand
    BY <1>2 DEF CommandWord
  <2>a. /\ commandAccum'[1] = commandAccum[1]
        /\ commandAccum'[2] = commandAccum[2]
        /\ commandAccum[2] \in Nat
    <3>1. commandAccum \in Seq(Words) /\ Len(commandAccum) \in Nat
      BY DEF IInv, TypeOK, DataOK
    <3>2. Len(commandAccum) = 2
      BY Zenon, <1>b, <1>2, <3>1, OneBelowThree DEF CommandWords
    <3>3. commandAccum[2] \in Nat
      BY <3>1, <3>2, AccumulatorWords
    <3> QED
      BY <1>a, <3>1, <3>2, <3>3
  <2>b. /\ phase' = "acceptHS"
        /\ pendingBlock' = commandAccum'[2]
        /\ pendingBlock' \in Nat
        /\ responseCode' = IF commandAccum'[1] = WriteCommand
                             THEN RespWriteAccepted ELSE RespReadAccepted
    BY <1>a, <1>b, <1>2, <2>0, <2>a DEF decodeCommand
  <2>c. rejectNext' = (rejectNext
                         \/ commandAccum'[1] \notin {ReadCommand, WriteCommand})
    BY <1>a, <1>b, <1>2, <2>0, <2>a DEF decodeCommand
  <2>1. FlagsOK'
    BY Zenon, <1>a, <2>c DEF IInv, TypeOK, FlagsOK
  <2>2. DataOK'
    BY <1>a, <1>b, <1>2, <2>b DEF IInv, TypeOK, DataOK, Phases
  <2>3. PhaseAgreement' /\ StatusNeverLies' /\ StreamTellsTruth'
    BY <1>a, <1>2, <2>b, <2>c DEF PhaseAgreement, StatusNeverLies,
       StreamTellsTruth
  <2> QED
    BY <2>1, <2>2, <2>3 DEF IInv, TypeOK
<1> QED
  BY <1>1, <1>2

(* What a commit does to the store: the named block of the attached image  *)
(* at most, to contents of its type, and exactly the words under OK.       *)
LEMMA CommitShape ==
  ASSUME DataOK, image \in Images, NEW new \in Contents, commitWrite(new)
  PROVE  /\ DOMAIN store' = Images
         /\ \A i \in Images : store'[i] \in [ValidBlocks(i) -> Contents]
         /\ \A i \in Images : \A b \in ValidBlocks(i) :
              store'[i][b] # store[i][b] =>
                 /\ i = image
                 /\ b = pendingBlock
                 /\ store'[i][b].tag \in {store[i][b].tag, new.tag}
                 /\ store'[i][b].data = new.data
         /\ lastStatus' \in {OkStatus, FatalStatus}
         /\ lastStatus' = OkStatus =>
              /\ pendingBlock \in ValidBlocks(image)
              /\ store'[image][pendingBlock] = new
<1>1. pendingBlock \in Nat /\ BlockCount[image] \in Nat
  BY DEF DataOK
<1>2. CASE UNCHANGED store /\ lastStatus' = FatalStatus
  BY <1>2 DEF DataOK
<1>3. ASSUME pendingBlock < BlockCount[image],
             NEW c \in Torn(store[image][pendingBlock], new),
             store' = [store EXCEPT ![image][pendingBlock] = c]
      PROVE  /\ pendingBlock \in ValidBlocks(image)
             /\ store'[image][pendingBlock] = c
             /\ DOMAIN store' = Images
             /\ \A i \in Images : store'[i] \in [ValidBlocks(i) -> Contents]
             /\ \A i \in Images : \A b \in ValidBlocks(i) :
                  store'[i][b] # store[i][b] =>
                     /\ i = image
                     /\ b = pendingBlock
                     /\ store'[i][b].tag \in {store[i][b].tag, new.tag}
                     /\ store'[i][b].data = new.data
  <2>1. pendingBlock \in ValidBlocks(image)
    BY <1>1, <1>3 DEF ValidBlocks
  <2>2. store[image] \in [ValidBlocks(image) -> Contents]
    BY DEF DataOK
  <2>3. store[image][pendingBlock] \in Contents
    BY <2>1, <2>2
  <2>4. /\ c \in Contents
        /\ c # store[image][pendingBlock] =>
             /\ c.tag \in {store[image][pendingBlock].tag, new.tag}
             /\ c.data = new.data
    BY <1>3, <2>3 DEF Torn, Contents
  <2>5. /\ DOMAIN store' = Images
        /\ store'[image] = [store[image] EXCEPT ![pendingBlock] = c]
        /\ \A i \in Images : i # image => store'[i] = store[i]
    BY <1>3 DEF DataOK
  <2>6. /\ store'[image] \in [ValidBlocks(image) -> Contents]
        /\ store'[image][pendingBlock] = c
        /\ \A b \in ValidBlocks(image) :
             b # pendingBlock => store'[image][b] = store[image][b]
    BY <2>1, <2>2, <2>4, <2>5
  <2>7. \A i \in Images : store'[i] \in [ValidBlocks(i) -> Contents]
    BY <2>5, <2>6 DEF DataOK
  <2> QED
    BY <2>1, <2>4, <2>5, <2>6, <2>7
<1>4. new \in Torn(store[image][pendingBlock], new)
  BY DEF Torn
<1> QED
  BY <1>2, <1>3, <1>4 DEF commitWrite

\* A word of a write stream; the last one changes the named block only
LEMMA WriteWordInv ==
  ASSUME IInv, NEW v \in Words, WriteWord(v), image # NoImage
  PROVE  IInv' /\ NamedBlockChange
<1> USE DEF command, stream
<1>a. /\ writeAccum' = Append(writeAccum, v)
      /\ phase = "writeData"
      /\ UNCHANGED <<image, cmdAsserted, presented, commandAccum,
                     pendingBlock, rejectNext, outStream, outIdx, ifrCA1>>
  BY DEF WriteWord
<1>b. /\ writeAccum \in Seq(Words)
      /\ writeAccum' \in Seq(Words)
      /\ Len(writeAccum') = Len(writeAccum) + 1
      /\ Len(writeAccum) < WriteWords
  BY <1>a DEF IInv, TypeOK, DataOK, PhaseAgreement
<1>c. /\ image \in Images
      /\ Len(commandAccum) = CommandWords
      /\ pendingBlock = commandAccum[2]
      /\ commandAccum[1] = WriteCommand
  BY <1>a DEF IInv, TypeOK, DataOK, PhaseAgreement
<1>d. FlagsOK'
  BY Zenon, <1>a DEF IInv, TypeOK, FlagsOK
<1>1. CASE Len(writeAccum') # WriteWords
  <2>0. UNCHANGED <<store, lastStatus, responseCode, phase, completions>>
    BY <1>1 DEF WriteWord
  <2>1. DataOK'
    BY <1>a, <1>b, <2>0 DEF IInv, TypeOK, DataOK
  <2>2. PhaseAgreement' /\ StatusNeverLies' /\ StreamTellsTruth'
    BY <1>1, <1>a, <1>b, <2>0 DEF IInv, TypeOK, DataOK, PhaseAgreement,
       StatusNeverLies, StreamTellsTruth
  <2>3. NamedBlockChange
    BY <2>0 DEF NamedBlockChange
  <2> QED
    BY <1>d, <2>1, <2>2, <2>3 DEF IInv, TypeOK
<1>2. CASE Len(writeAccum') = WriteWords
  <2>0. /\ commitWrite(Received)
        /\ responseCode' = RespPostWrite
        /\ phase' = "postWriteHS"
        /\ completions' \in 0 .. MaxCompletions
    BY <1>2 DEF WriteWord, scheduleCompletion, IInv, TypeOK, DataOK
  <2>1. /\ Received \in Contents
        /\ Received.tag = writeAccum'[1]
        /\ Received.data = writeAccum'[2]
    <3>1. writeAccum'[1] \in Words /\ writeAccum'[2] \in Words
      BY <1>b, <1>2, AccumulatorWords
    <3> QED
      BY <3>1 DEF Received, Contents
  <2>2. /\ DOMAIN store' = Images
        /\ \A i \in Images : store'[i] \in [ValidBlocks(i) -> Contents]
        /\ \A i \in Images : \A b \in ValidBlocks(i) :
             store'[i][b] # store[i][b] =>
                /\ i = image
                /\ b = pendingBlock
                /\ store'[i][b].tag \in {store[i][b].tag, writeAccum'[1]}
                /\ store'[i][b].data = writeAccum'[2]
        /\ lastStatus' \in {OkStatus, FatalStatus}
        /\ lastStatus' = OkStatus =>
             /\ pendingBlock \in ValidBlocks(image)
             /\ store'[image][pendingBlock] = Received
    BY <1>c, <2>0, <2>1, CommitShape DEF IInv, TypeOK
  <2>3. DataOK'
    BY <1>a, <1>b, <1>2, <2>0, <2>2 DEF IInv, TypeOK, DataOK, Phases
  <2>4. PhaseAgreement'
    BY <1>a, <1>b, <1>c, <1>2, <2>0 DEF PhaseAgreement
  <2>5. StatusNeverLies' /\ StreamTellsTruth'
    BY <1>a, <1>2, <2>0, <2>2 DEF StatusNeverLies, StreamTellsTruth, Received
  <2>6. NamedBlockChange
    <3>1. /\ image # NoImage
          /\ phase = "writeData"
          /\ Len(commandAccum) = CommandWords
          /\ commandAccum[1] = WriteCommand
      BY <1>a, <1>c
    <3>2. ASSUME NEW i \in Images, NEW b \in ValidBlocks(i),
                 store'[i][b] # store[i][b]
          PROVE  /\ i = image
                 /\ b = commandAccum[2]
                 /\ store'[i][b].tag \in {store[i][b].tag, writeAccum'[1]}
                 /\ store'[i][b].data = writeAccum'[2]
      BY <1>c, <2>2, <3>2
    <3> QED
      BY Zenon, <3>1, <3>2 DEF NamedBlockChange
  <2> QED
    BY <1>d, <2>3, <2>4, <2>5, <2>6 DEF IInv, TypeOK
<1> QED
  BY <1>1, <1>2

-----------------------------------------------------------------------------
(* The words read from IRA, and the interrupt's own steps.                 *)
LEMMA AdvanceInv ==
  ASSUME IInv, advanceDataStream, image # NoImage
  PROVE  IInv'
<1> USE DEF media, command
<1>a. /\ phase \in {"readData", "postWriteStat"}
      /\ outIdx' = outIdx + 1
      /\ presented' = StreamWord(outStream, outIdx + 1)
      /\ UNCHANGED <<image, store, cmdAsserted, responseCode, commandAccum,
                     pendingBlock, rejectNext, outStream, writeAccum,
                     lastStatus, ifrCA1>>
  BY DEF advanceDataStream
<1>b. presented' \in Nat
  BY <1>a DEF StreamWord, IInv, TypeOK, DataOK
<1>1. FlagsOK'
  BY Zenon, <1>a DEF IInv, TypeOK, FlagsOK
<1>2. CASE outIdx + 1 >= Len(outStream)
  <2>0. phase' = "idle" /\ completions' \in 0 .. MaxCompletions
    BY <1>2 DEF advanceDataStream, scheduleCompletion, IInv, TypeOK, DataOK
  <2>1. DataOK'
    BY <1>a, <1>b, <2>0 DEF IInv, TypeOK, DataOK, Phases
  <2>2. PhaseAgreement' /\ StatusNeverLies' /\ StreamTellsTruth'
    BY <2>0 DEF PhaseAgreement, StatusNeverLies, StreamTellsTruth
  <2> QED
    BY <1>1, <2>1, <2>2 DEF IInv, TypeOK
<1>3. CASE ~(outIdx + 1 >= Len(outStream))
  <2>0. UNCHANGED <<phase, completions>>
    BY <1>3 DEF advanceDataStream
  <2>1. DataOK'
    BY <1>a, <1>b, <2>0 DEF IInv, TypeOK, DataOK
  <2>2. PhaseAgreement'
    BY <1>3, <1>a, <2>0 DEF IInv, TypeOK, DataOK, PhaseAgreement, StreamWord
  <2>3. StatusNeverLies' /\ StreamTellsTruth'
    BY <1>a, <2>0 DEF IInv, StatusNeverLies, StreamTellsTruth
  <2> QED
    BY <1>1, <2>1, <2>2, <2>3 DEF IInv, TypeOK
<1> QED
  BY <1>2, <1>3

(* Every step keeps the invariant, and changes at most the named block.    *)
LEMMA StepInv == IInv /\ [Next]_driveVars => IInv' /\ NamedBlockChange
<1> SUFFICES ASSUME IInv, [Next]_driveVars
             PROVE  IInv' /\ NamedBlockChange
  OBVIOUS
<1>t. FlagsOK /\ DataOK
  BY DEF IInv, TypeOK
<1>n. UNCHANGED store => NamedBlockChange
  BY DEF NamedBlockChange
<1>1. ASSUME NEW i \in Images, Attach(i)
      PROVE  IInv' /\ NamedBlockChange
  <2>1. ifrCA1' \in BOOLEAN
    BY Zenon, <1>1, <1>t DEF Attach, events, FlagsOK
  <2> QED
    BY <1>1, <1>t, <1>n, <2>1, RewoundInv DEF Attach, events, DataOK
<1>2. CASE Detach
  <2>1. ifrCA1' \in BOOLEAN
    BY Zenon, <1>2, <1>t DEF Detach, events, FlagsOK
  <2> QED
    BY <1>2, <1>t, <1>n, <2>1, RewoundInv DEF Detach, events, DataOK
<1>3. CASE Reset
  <2>1. ifrCA1' \in BOOLEAN
    BY Zenon, <1>3 DEF Reset
  <2> QED
    BY <1>3, <1>t, <1>n, <2>1, RewoundInv DEF Reset, media, DataOK
<1>4. ASSUME NEW asserted \in BOOLEAN, portBWrite(asserted)
      PROVE  IInv' /\ NamedBlockChange
  <2>1. UNCHANGED store
    BY <1>4 DEF portBWrite, driveVars, media
  <2>2. IInv'
    BY <1>4, StrobeInv, StutterInv DEF portBWrite
  <2> QED
    BY <1>n, <2>1, <2>2
<1>5. ASSUME NEW v \in Replies, writePORTA(v)
      PROVE  IInv' /\ NamedBlockChange
  <2>1. UNCHANGED store
    BY <1>5 DEF writePORTA, handleReply, proceed, openCommand,
       beginTransferAfterAccept, RejectTransfer, WriteTransfer, ReadTransfer,
       postWriteStatus, driveVars, media
  <2> QED
    BY <1>5, <1>n, <2>1, ReplyInv
<1>6. ASSUME NEW v \in Words, writeORA(v)
      PROVE  IInv' /\ NamedBlockChange
  <2>1. CASE UNCHANGED driveVars
    BY <2>1, <1>n, StutterInv DEF driveVars
  <2>2. CASE image # NoImage /\ CommandWord(v)
    BY <2>2, <1>n, CommandWordInv DEF CommandWord, media
  <2>3. CASE image # NoImage /\ WriteWord(v)
    BY <2>3, WriteWordInv
  <2> QED
    BY <1>6, <2>1, <2>2, <2>3 DEF writeORA
<1>7. CASE readIRA
  <2>1. CASE UNCHANGED driveVars
    BY <2>1, <1>n, StutterInv DEF driveVars
  <2>2. CASE image # NoImage /\ advanceDataStream
    BY <2>2, <1>n, AdvanceInv DEF advanceDataStream, media
  <2> QED
    BY <1>7, <2>1, <2>2 DEF readIRA
<1>8. CASE Completion
  <2>1. completions' \in 0 .. MaxCompletions
    BY <1>8, <1>t DEF Completion, DataOK
  <2>2. ifrCA1' \in BOOLEAN
    BY Zenon, <1>8 DEF Completion
  <2> QED
    BY <1>8, <1>n, <2>1, <2>2, EventInv DEF Completion, media
<1>9. CASE ClearFlag
  <2>1. completions' \in 0 .. MaxCompletions
    BY <1>9, <1>t DEF ClearFlag, DataOK
  <2>2. ifrCA1' \in BOOLEAN
    BY Zenon, <1>9 DEF ClearFlag
  <2> QED
    BY <1>9, <1>n, <2>1, <2>2, EventInv DEF ClearFlag, media
<1>10. CASE UNCHANGED driveVars
  BY <1>10, <1>n, StutterInv DEF driveVars
<1> QED
  BY <1>1, <1>2, <1>3, <1>4, <1>5, <1>6, <1>7, <1>8, <1>9, <1>10 DEF Next

-----------------------------------------------------------------------------
(* The drive's variables keep their types and its accumulators never       *)
(* overrun their stream, whatever a host writes to its registers.          *)
THEOREM TypeCorrect == Spec => []TypeOK
<1>1. IInv => TypeOK
  BY DEF IInv
<1> QED
  BY <1>1, InitInv, StepInv, PTL DEF Spec

(* The variables of a transaction agree with its phase in every state.     *)
THEOREM PhasesAgree == Spec => []PhaseAgreement
<1>1. IInv => PhaseAgreement
  BY DEF IInv
<1> QED
  BY <1>1, InitInv, StepInv, PTL DEF Spec

(* An OK post-write status means the block holds the words sent, for every *)
(* image, block and host, whichever way a write of the file may fail.      *)
THEOREM OkStatusIsTrue == Spec => []StatusNeverLies
<1>1. IInv => StatusNeverLies
  BY DEF IInv
<1> QED
  BY <1>1, InitInv, StepInv, PTL DEF Spec

(* A read streams the named block of the attached image, tag before data.  *)
THEOREM StreamIsTheBlock == Spec => []StreamTellsTruth
<1>1. IInv => StreamTellsTruth
  BY DEF IInv
<1> QED
  BY <1>1, InitInv, StepInv, PTL DEF Spec

(* No sequence of register accesses changes an image file but a complete   *)
(* write command, in the block that it names.                              *)
THEOREM WritesStayInTheirBlock == Spec => OnlyTheNamedBlockChanges
<1>1. IInv /\ [Next]_driveVars => [NamedBlockChange]_driveVars
  BY StepInv
<1> QED
  BY <1>1, InitInv, StepInv, PTL DEF Spec, OnlyTheNamedBlockChanges

-----------------------------------------------------------------------------
(* The drive and its driver. The phase of the drive says where the driver  *)
(* is: a disk that is plugged or a reset rewinds the drive to idle, never  *)
(* to the middle of something, so this holds whatever was unplugged.       *)
Raised == {"sense", "proceed", "refuse", "drop"}

CommandSent == Len(commandAccum) = 3 /\ \A i \in 1 .. 3 : commandAccum[i] = CommandBlock[i]
StreamSent  == Len(writeAccum) = 2 /\ \A i \in 1 .. 2 : writeAccum[i] = WriteStream[i]

DriverOK ==
    /\ pc \in {"free", "clear", "raise", "send", "fill", "park", "drain",
               "dropRefused", "dropLate"} \cup Raised
    /\ pc # "free" => request \in Requests
    /\ stage \in 1 .. 3 /\ sent \in 0 .. 2
    /\ pc \notin {"free", "drain"} => got = <<>>
    /\ pc \in {"clear", "raise", "sense", "proceed", "drop"} => sent = 0
    /\ pc = "send" => stage = 1
    /\ pc = "fill" => stage = 2 /\ request.op = "write" /\ sent < 2
    /\ pc = "park" => stage = 2
    /\ stage = 3 /\ pc # "free" => request.op = "write"
    /\ pc = "drain" => stage # 1 /\ (stage = 3 <=> request.op = "write")
    /\ pc = "drain" /\ request.op # "read" => got = <<>>

GotOK == /\ unplugged \in BOOLEAN
         /\ got \in Seq(Nat) /\ (got # <<>> => ~Fatal(got[1]))

AtIdle ==
    phase = "idle" =>
        /\ presented = Floating
        /\ ~unplugged => \/ pc \in {"free", "dropRefused", "dropLate"}
                         \/ stage = 1 /\ pc \in {"clear", "raise", "sense"}

AtFirst ==
    phase = "firstHS" =>
        /\ presented = RespIdleReady
        /\ \/ stage = 1 /\ pc \in {"sense", "proceed"}
           \/ unplugged /\ stage # 1 /\ pc \in {"sense", "refuse"}

AtCommand ==
    phase = "awaitCommand" =>
        /\ stage = 1 /\ pc \in {"drop", "send"}
        /\ Len(commandAccum) = sent
        /\ \A i \in 1 .. sent : commandAccum[i] = CommandBlock[i]

AtAccept ==
    phase = "acceptHS" =>
        /\ stage = 2 /\ pc \in {"clear", "raise", "sense", "proceed"}
        /\ CommandSent
        /\ pc \in Raised => presented = responseCode

AtWrite ==
    phase = "writeData" =>
        /\ stage = 2 /\ pc \in {"drop", "fill"} /\ request.op = "write"
        /\ CommandSent
        /\ Len(writeAccum) = sent
        /\ \A i \in 1 .. sent : writeAccum[i] = WriteStream[i]

AtPostWrite ==
    phase = "postWriteHS" =>
        /\ request.op = "write" /\ CommandSent /\ StreamSent
        /\ \/ stage = 2 /\ pc = "park"
           \/ stage = 3 /\ pc \in {"clear", "raise", "sense", "proceed"}
        /\ pc \in Raised => presented = responseCode

AtStatus ==
    phase = "postWriteStat" =>
        /\ stage = 3 /\ pc \in {"drop", "drain"}
        /\ request.op = "write" /\ CommandSent /\ StreamSent

(* A read under way; a write the drive has rejected, whose driver streams  *)
(* to nobody; and what a driver that met a fatal status has left unread.   *)
Serving ==
    /\ stage = 2 /\ pc \in {"drop", "park", "drain"} /\ request.op # "write"
    /\ CommandSent
    /\ Len(got) = outIdx
    /\ \A i \in 1 .. outIdx : got[i] = outStream[i]

RejectedWrite ==
    /\ request.op = "write" /\ outStream = <<FatalStatus>> /\ outIdx = 0
    /\ \/ stage = 2 /\ pc \in {"drop", "fill", "park"}
       \/ stage = 3 /\ pc \in {"clear", "raise", "sense", "refuse"}

Leftover ==
    /\ outStream = <<FatalStatus, Zeros, Zeros>> /\ outIdx = 1
    /\ \/ pc = "free"
       \/ stage = 1 /\ pc \in {"clear", "raise", "sense", "refuse"}

AtRead ==
    phase = "readData" =>
        /\ Serving \/ RejectedWrite \/ Leftover
        /\ outStream[1] \in {OkStatus, FatalStatus}
        /\ outStream[1] = FatalStatus =>
             outStream = <<FatalStatus>> \/ outStream = <<FatalStatus, Zeros, Zeros>>

(* The strobe is up where the driver has raised it, but for a rewind, and  *)
(* its edges have set the interrupt flag.                                  *)
Level        == cmdAsserted <=> phase # "idle" /\ pc \in Raised
Flagged      == phase # "idle" /\ pc \in Raised \cup {"send", "fill", "park"} => ifrCA1
RejectIsNear == rejectNext => phase \in {"idle", "firstHS", "awaitCommand", "acceptHS"}
Failing      == pc \in {"dropRefused", "dropLate"} => phase = "idle"

(* After a refusal the drive is where its driver expects it: the next      *)
(* request is not refused, and leaves no stream behind that could refuse.  *)
Refusing ==
    /\ refusals \in {0, 1}
    /\ ~unplugged /\ pc = "dropRefused" => ~rejectNext
    /\ refusals = 1 =>
         /\ ~unplugged
         /\ pc \notin {"refuse", "dropRefused"}
         /\ phase = "readData" => Serving
         /\ rejectNext => phase = "acceptHS" /\ request.op = "format"

InStep ==
    /\ AtIdle /\ AtFirst /\ AtCommand /\ AtAccept
    /\ AtWrite /\ AtPostWrite /\ AtStatus /\ AtRead
    /\ Level /\ Flagged /\ RejectIsNear /\ Failing

Together == IInv /\ DriverOK /\ GotOK /\ InStep /\ Refusing

-----------------------------------------------------------------------------
(* The software of the driver is software: its steps are the drive's.      *)
LEMMA RequestWords ==
  ASSUME DriverOK, pc # "free"
  PROVE  /\ request.op \in {"read", "write", "format"}
         /\ request.block \in Words /\ request.tag \in Words /\ request.data \in Words
         /\ CommandCode(request.op) \in Words
  BY SystemAssumption DEF DriverOK, CommandCode

\* What the driver sends are words
LEMMA SentAreWords ==
  ASSUME DriverOK, pc # "free"
  PROVE  /\ CommandBlock[sent + 1] \in Words
         /\ pc = "fill" => WriteStream[sent + 1] \in Words
<1>1. sent = 0 \/ sent = 1 \/ sent = 2
  BY DEF DriverOK
<1>2. pc = "fill" => sent = 0 \/ sent = 1
  BY <1>1 DEF DriverOK
<1>3. Zeros \in Words
  BY SystemAssumption
<1> QED
  BY <1>1, <1>2, <1>3, RequestWords DEF CommandBlock, WriteStream

\* The OS driver is one of the hosts the drive was specified for
LEMMA DriverIsHost ==
  ASSUME DriverOK, [SystemNext]_vars
  PROVE  [Next]_driveVars
<1>1. CASE UNCHANGED driveVars
  BY <1>1
<1>2. CASE ClearBusyFlag \/ MachineReset \/ Plug \/ (Completion /\ UNCHANGED driverVars)
  BY <1>2 DEF ClearBusyFlag, MachineReset, Plug, Next
<1>3. CASE RaiseCMD \/ Drop \/ DropFailed
  <2>1. TRUE \in BOOLEAN /\ FALSE \in BOOLEAN
    OBVIOUS
  <2> QED
    BY <1>3, <2>1 DEF RaiseCMD, Drop, DropFailed, Next
<1>4. CASE Proceed \/ Refuse
  BY <1>4, SystemAssumption DEF Proceed, Refuse, Next
<1>5. CASE Send
  BY <1>5, SentAreWords DEF Send, Next
<1>6. CASE Fill
  BY <1>6, SentAreWords DEF Fill, Next
<1>7. CASE Drain
  BY <1>7 DEF Drain, Next
<1>8. CASE (\E r \in Requests : Submit(r)) \/ Sense \/ Park \/ TimeOut
  BY <1>1, <1>8 DEF Submit, Sense, Park, TimeOut
<1>9. CASE UNCHANGED vars
  BY <1>1, <1>9 DEF vars
<1> QED
  BY <1>2, <1>3, <1>4, <1>5, <1>6, <1>7, <1>8, <1>9 DEF SystemNext, DriverStep

\* Driver and drive agree at first
LEMMA TogetherInit == SystemInit => Together
<1> SUFFICES ASSUME SystemInit PROVE Together
  OBVIOUS
<1>1. IInv
  BY InitInv DEF SystemInit
<1>2. DriverOK /\ GotOK
  <2>1. <<>> \in Seq(Nat)
    OBVIOUS
  <2>2. GotOK
    BY <2>1 DEF SystemInit, GotOK
  <2> QED
    BY <2>2 DEF SystemInit, DriverOK, Raised
<1>3. InStep
  BY DEF SystemInit, Init, InStep, AtIdle, AtFirst, AtCommand, AtAccept, AtWrite,
     AtPostWrite, AtStatus, AtRead, Level, Flagged, RejectIsNear, Failing, Raised
<1>4. Refusing
  BY DEF SystemInit, Init, Refusing
<1> QED
  BY <1>1, <1>2, <1>3, <1>4 DEF Together


\* A request is taken by a driver that is free
LEMMA SubmitTogether ==
  ASSUME Together, NEW r \in Requests, Submit(r)
  PROVE  DriverOK' /\ GotOK' /\ InStep' /\ Refusing'
<1> USE DEF Together, InStep, driveVars
<1>1. DriverOK' /\ GotOK'
  <2>1. <<>> \in Seq(Nat)
    OBVIOUS
  <2>2. GotOK'
    BY <2>1 DEF Submit, GotOK
  <2> QED
    BY <2>2 DEF Submit, DriverOK, Raised
<1>2. phase = "idle" \/ (phase = "readData" /\ Leftover)
  BY DEF Submit, AtIdle, AtFirst, AtCommand, AtAccept, AtWrite, AtPostWrite, AtStatus,
     AtRead, IInv, TypeOK, DataOK, Phases, Serving, RejectedWrite
<1>3. AtIdle' /\ AtFirst' /\ AtCommand' /\ AtAccept' /\ AtWrite' /\ AtPostWrite' /\ AtStatus'
  BY <1>2 DEF Submit, AtIdle, AtFirst, AtCommand, AtAccept, AtWrite, AtPostWrite, AtStatus
<1>4. AtRead'
  BY <1>2 DEF Submit, AtRead, Leftover
<1>5. Level' /\ Flagged' /\ RejectIsNear' /\ Failing'
  BY DEF Submit, Level, Flagged, RejectIsNear, Failing, Raised
<1>6. Refusing'
  BY <1>2 DEF Submit, Refusing, Serving
<1> QED
  BY <1>1, <1>3, <1>4, <1>5, <1>6

\* The response code is what the driver expects when both sides are in step
LEMMA SenseTogether ==
  ASSUME Together, Sense
  PROVE  DriverOK' /\ GotOK' /\ InStep' /\ Refusing'
<1> USE DEF Together, InStep, driveVars, Goto
<1>1. DriverOK' /\ GotOK'
  BY DEF Sense, DriverOK, Raised, GotOK
<1>2. /\ cmdAsserted /\ image # NoImage /\ portAInput = presented /\ pc = "sense"
      /\ phase # "idle"
  BY DEF Sense, BSY, portAInput, Level
<1>3. CASE phase = "firstHS"
  <2>1. portAInput = RespIdleReady /\ stage \in 1 .. 3
    BY <1>2, <1>3 DEF AtFirst, DriverOK
  <2>2. stage = 1 <=> portAInput = Expected
    BY <2>1 DEF Expected
  <2> QED
    BY <1>1, <1>2, <1>3, <2>2 DEF Sense, AtIdle, AtFirst, AtCommand, AtAccept, AtWrite,
     AtPostWrite, AtStatus, AtRead, Level, Flagged, RejectIsNear, Failing, Refusing, Raised
<1>4. CASE phase = "acceptHS"
  <2>1. portAInput = Expected
    BY <1>2, <1>4, RequestWords DEF Expected, AtAccept, Raised, CommandSent, CommandBlock,
       CommandCode, IInv, PhaseAgreement
  <2> QED
    BY <1>1, <1>2, <1>4, <2>1 DEF Sense, AtIdle, AtFirst, AtCommand, AtAccept, AtWrite,
     AtPostWrite, AtStatus, AtRead, Level, Flagged, RejectIsNear, Failing, Refusing, Raised,
     CommandSent, CommandBlock
<1>5. CASE phase = "postWriteHS"
  <2>1. portAInput = Expected
    BY <1>2, <1>5 DEF Expected, AtPostWrite, Raised, IInv, PhaseAgreement
  <2> QED
    BY <1>1, <1>2, <1>5, <2>1 DEF Sense, AtIdle, AtFirst, AtCommand, AtAccept, AtWrite,
     AtPostWrite, AtStatus, AtRead, Level, Flagged, RejectIsNear, Failing, Refusing, Raised,
     CommandSent, CommandBlock, StreamSent, WriteStream
<1>6. CASE phase = "readData"
  <2>1. portAInput # Expected /\ (RejectedWrite \/ Leftover)
    BY <1>2, <1>6 DEF Expected, AtRead, RejectedWrite, Leftover, Serving, IInv, PhaseAgreement
  <2> QED
    BY <1>1, <1>2, <1>6, <2>1 DEF Sense, AtIdle, AtFirst, AtCommand, AtAccept, AtWrite,
     AtPostWrite, AtStatus, AtRead, Level, Flagged, RejectIsNear, Failing, Refusing, Raised,
     Serving, RejectedWrite, Leftover
<1> QED
  BY <1>1, <1>2, <1>3, <1>4, <1>5, <1>6 DEF IInv, TypeOK, DataOK, Phases, AtCommand, AtWrite, AtStatus


\* A driver that gives up leaves the drive where it is
LEMMA TimeOutTogether ==
  ASSUME Together, TimeOut
  PROVE  DriverOK' /\ GotOK' /\ InStep' /\ Refusing'
<1> USE DEF Together, InStep, driveVars
<1>1. CASE pc = "sense" /\ BSY /\ Goto("dropLate")
  <2>1. phase = "idle"
    BY <1>1 DEF BSY, Level, Raised, IInv, PhaseAgreement
  <2>2. /\ pc = "sense" /\ pc' = "dropLate" /\ UNCHANGED driveVars
        /\ UNCHANGED <<request, stage, sent, got, answer, unplugged, refusals>>
    BY <1>1 DEF TimeOut, Goto
  <2> QED
    BY <2>1, <2>2 DEF DriverOK, GotOK, Raised, AtIdle, AtFirst, AtCommand, AtAccept, AtWrite,
       AtPostWrite, AtStatus, AtRead, Level, Flagged, RejectIsNear, Failing, Refusing
<1>2. CASE pc = "park" /\ ~ifrCA1 /\ Finish(Failure, FALSE)
  <2>1. /\ pc = "park" /\ pc' = "free" /\ UNCHANGED driveVars /\ refusals' = 0
        /\ UNCHANGED <<request, stage, sent, got, unplugged>>
    BY <1>2 DEF TimeOut, Finish
  <2>2. phase = "idle"
    BY <1>2 DEF Flagged
  <2> QED
    BY <2>1, <2>2 DEF DriverOK, GotOK, Raised, AtIdle, AtFirst, AtCommand, AtAccept, AtWrite,
       AtPostWrite, AtStatus, AtRead, Level, Flagged, RejectIsNear, Failing, Refusing
<1> QED
  BY <1>1, <1>2 DEF TimeOut


(* A rewound drive.                                                        *)
LEMMA RewoundInStep ==
  ASSUME phase' = "idle", cmdAsserted' = FALSE, presented' = Floating,
         ~unplugged' => pc' \in {"free", "dropRefused", "dropLate"}
  PROVE  InStep'
BY DEF InStep, AtIdle, AtFirst, AtCommand, AtAccept, AtWrite, AtPostWrite, AtStatus,
   AtRead, Level, Flagged, RejectIsNear, Failing

\* Another disk, or none, drops the drive's side
LEMMA PlugTogether ==
  ASSUME Together, Plug
  PROVE  DriverOK' /\ GotOK' /\ InStep' /\ Refusing'
<1>1. /\ phase' = "idle" /\ cmdAsserted' = FALSE /\ presented' = Floating
      /\ unplugged' = TRUE /\ refusals' = 0
      /\ UNCHANGED <<pc, request, stage, sent, got, answer>>
  BY DEF Plug, Attach, Detach, resetTransaction
<1>2. InStep'
  BY <1>1, RewoundInStep
<1>3. DriverOK' /\ GotOK'
  BY <1>1 DEF Together, DriverOK, GotOK, Raised
<1>4. Refusing'
  BY <1>1 DEF Refusing
<1> QED
  BY <1>2, <1>3, <1>4

\* A reset drops both sides
LEMMA MachineResetTogether ==
  ASSUME Together, MachineReset
  PROVE  DriverOK' /\ GotOK' /\ InStep' /\ Refusing'
<1>1. /\ phase' = "idle" /\ cmdAsserted' = FALSE /\ presented' = Floating
      /\ pc' = "free" /\ refusals' = 0
      /\ UNCHANGED <<request, stage, sent, got, answer, unplugged>>
  BY DEF MachineReset, Reset, resetTransaction
<1>2. InStep'
  BY <1>1, RewoundInStep
<1>3. DriverOK' /\ GotOK'
  BY <1>1 DEF Together, DriverOK, GotOK, Raised
<1>4. Refusing'
  BY <1>1 DEF Refusing
<1> QED
  BY <1>2, <1>3, <1>4

(* What a handshake leaves alone: all but the two event variables.         *)
LEMMA EventTogether ==
  ASSUME Together, UNCHANGED <<media, handshake, command, stream, writeAccum, lastStatus>>,
         UNCHANGED driverVars,
         ifrCA1' = TRUE \/ ifrCA1' = ifrCA1
  PROVE  DriverOK' /\ GotOK' /\ InStep' /\ Refusing'
<1> USE DEF Together, InStep, media, handshake, command, stream, driverVars
<1>1. DriverOK' /\ GotOK'
  BY DEF DriverOK, GotOK, Raised
<1>2. AtIdle' /\ AtFirst' /\ AtCommand' /\ AtAccept' /\ AtWrite' /\ AtPostWrite' /\ AtStatus'
  BY SMTT(30) DEF AtIdle, AtFirst, AtCommand, AtAccept, AtWrite, AtPostWrite, AtStatus,
     CommandSent, StreamSent, CommandBlock, WriteStream, Raised
<1>3. AtRead' /\ Refusing'
  BY DEF AtRead, Serving, RejectedWrite, Leftover, CommandSent, CommandBlock, Refusing
<1>4. Level' /\ Flagged' /\ RejectIsNear' /\ Failing'
  BY DEF Level, Flagged, RejectIsNear, Failing, Raised
<1> QED
  BY <1>1, <1>2, <1>3, <1>4

\* The flag of an earlier transfer is cleared before the next
LEMMA ClearFlagTogether ==
  ASSUME Together, ClearBusyFlag
  PROVE  DriverOK' /\ GotOK' /\ InStep' /\ Refusing'
<1> USE DEF Together, InStep, media, handshake, command, stream
<1>0. /\ UNCHANGED <<media, handshake, command, stream, writeAccum, lastStatus>>
      /\ UNCHANGED <<request, stage, sent, got, answer, unplugged, refusals>>
      /\ pc = "clear" /\ pc' = "raise"
  BY DEF ClearBusyFlag, ClearFlag, Goto
<1>1. DriverOK' /\ GotOK'
  BY <1>0 DEF DriverOK, GotOK, Raised
<1>2. AtIdle' /\ AtFirst' /\ AtCommand' /\ AtAccept' /\ AtWrite' /\ AtPostWrite' /\ AtStatus'
  BY <1>0 DEF AtIdle, AtFirst, AtCommand, AtAccept, AtWrite, AtPostWrite, AtStatus,
     CommandSent, StreamSent, CommandBlock, WriteStream, Raised
<1>3. AtRead' /\ Refusing'
  BY <1>0 DEF AtRead, Serving, RejectedWrite, Leftover, CommandSent, CommandBlock, Refusing
<1>4. Level' /\ Flagged' /\ RejectIsNear' /\ Failing'
  BY <1>0 DEF Level, Flagged, RejectIsNear, Failing, Raised
<1> QED
  BY <1>1, <1>2, <1>3, <1>4

(* The strobe goes up. A drive that is not attached hears nothing.         *)
LEMMA RaiseTogether ==
  ASSUME Together, RaiseCMD
  PROVE  DriverOK' /\ GotOK' /\ InStep' /\ Refusing'
<1> USE DEF Together, InStep
<1>0. /\ UNCHANGED <<request, stage, sent, got, answer, unplugged, refusals>>
      /\ pc = "raise" /\ pc' = "sense" /\ portBWrite(TRUE)
  BY DEF RaiseCMD, Goto
<1>1. DriverOK' /\ GotOK'
  BY <1>0 DEF DriverOK, GotOK, Raised
<1>2. CASE image = NoImage
  <2>1. phase = "idle" /\ UNCHANGED driveVars
    BY <1>0, <1>2 DEF portBWrite, IInv, PhaseAgreement
  <2> QED
    BY <1>0, <1>1, <2>1 DEF AtIdle, AtFirst, AtCommand, AtAccept, AtWrite, AtPostWrite, AtStatus,
       AtRead, Level, Flagged, RejectIsNear, Failing, Refusing, Raised, driveVars
<1>3. CASE image # NoImage
  <2>1. /\ ~cmdAsserted /\ cmdAsserted' = TRUE /\ cmdAssertEdge /\ ifrCA1' = TRUE
        /\ UNCHANGED <<media, command, stream, writeAccum, lastStatus, completions>>
    BY <1>0, <1>3 DEF portBWrite, Level, Raised
  <2>2. Level' /\ Flagged' /\ Failing'
    BY <1>0, <2>1 DEF Level, Flagged, Failing, Raised, cmdAssertEdge
  <2>3. CASE phase = "idle"
    <3>1. phase' = "firstHS" /\ presented' = RespIdleReady
      BY <2>1, <2>3 DEF cmdAssertEdge
    <3> QED
      BY <1>0, <1>1, <2>1, <2>2, <2>3, <3>1 DEF AtIdle, AtFirst, AtCommand, AtAccept, AtWrite,
         AtPostWrite, AtStatus, AtRead, RejectIsNear, Refusing, command, DriverOK
  <2>4. CASE phase # "idle"
    <3>1. /\ phase' = phase /\ responseCode' = responseCode
          /\ phase \in {"acceptHS", "postWriteHS"} => presented' = responseCode
          /\ phase \notin {"firstHS", "awaitCommand", "writeData", "postWriteStat"}
      BY <1>0, <2>1, <2>4 DEF cmdAssertEdge, AtFirst, AtCommand, AtWrite, AtStatus
    <3>2. AtRead' /\ Refusing'
      BY <1>0, <2>1, <2>4, <3>1 DEF AtRead, Serving, RejectedWrite, Leftover, Refusing, command, stream
    <3>3. AtAccept' /\ AtPostWrite'
      BY <1>0, <2>1, <2>4, <3>1 DEF AtAccept, AtPostWrite, CommandSent, StreamSent,
         CommandBlock, WriteStream, command, Raised
    <3>4. AtIdle' /\ AtFirst' /\ AtCommand' /\ AtWrite' /\ AtStatus' /\ RejectIsNear'
      BY <1>0, <2>1, <2>4, <3>1 DEF AtIdle, AtFirst, AtCommand, AtWrite, AtStatus,
         RejectIsNear, command
    <3> QED
      BY <1>1, <2>2, <3>2, <3>3, <3>4
  <2> QED
    BY <2>3, <2>4
<1> QED
  BY <1>2, <1>3

\* A refusal is a reply the drive goes back to idle from
LEMMA RefuseTogether ==
  ASSUME Together, Refuse
  PROVE  DriverOK' /\ GotOK' /\ InStep' /\ Refusing'
<1> USE DEF Together, InStep
<1>0. /\ UNCHANGED <<request, stage, sent, got, answer, unplugged, refusals>>
      /\ pc = "refuse" /\ pc' = "dropRefused" /\ writePORTA(Zeros)
  BY DEF Refuse, Goto
<1>1. DriverOK' /\ GotOK'
  BY <1>0 DEF DriverOK, GotOK, Raised
<1>2. /\ phase' = "idle" /\ cmdAsserted' = FALSE /\ presented' = Floating
      /\ rejectNext' = rejectNext
  <2>1. CASE image = NoImage
    <3>1. UNCHANGED driveVars /\ phase = "idle"
      BY <1>0, <2>1 DEF writePORTA, IInv, PhaseAgreement
    <3>2. cmdAsserted = FALSE /\ presented = Floating
      BY Zenon, <3>1 DEF Level, AtIdle, IInv, TypeOK, FlagsOK
    <3> QED
      BY <3>1, <3>2 DEF driveVars
  <2>2. CASE image # NoImage
    BY <1>0, <2>2 DEF writePORTA, handleReply, proceed, resetTransaction
  <2> QED
    BY <2>1, <2>2
<1>3. InStep'
  BY <1>0, <1>2, RewoundInStep
<1>4. Refusing'
  <2>1. refusals = 0
    BY <1>0 DEF Refusing
  <2>2. ~unplugged => phase = "readData"
    BY <1>0 DEF AtIdle, AtFirst, AtCommand, AtAccept, AtWrite, AtPostWrite, AtStatus,
       IInv, TypeOK, DataOK, Phases
  <2> QED
    BY <1>0, <1>2, <2>1, <2>2 DEF Refusing, RejectIsNear
<1> QED
  BY <1>1, <1>3, <1>4


(* The reply that lets a handshake go on.                                  *)
LEMMA ProceedTogether ==
  ASSUME Together, Proceed
  PROVE  DriverOK' /\ GotOK' /\ InStep' /\ Refusing'
<1> USE DEF Together, InStep
<1>0. /\ UNCHANGED <<request, stage, sent, got, answer, unplugged, refusals>>
      /\ pc = "proceed" /\ pc' = "drop" /\ writePORTA(ReplyProceed)
      /\ sent = 0 /\ got = <<>> /\ request.op \in {"read", "write", "format"}
  BY RequestWords DEF Proceed, Goto, DriverOK
<1>1. DriverOK' /\ GotOK'
  BY <1>0 DEF DriverOK, GotOK, Raised
<1>2. CASE phase = "idle"
  <2>1. UNCHANGED driveVars
    BY <1>0, <1>2 DEF writePORTA, handleReply, proceed, openCommand, postWriteStatus
  <2> QED
    BY <1>0, <1>1, <1>2, <2>1 DEF AtIdle, AtFirst, AtCommand, AtAccept, AtWrite, AtPostWrite, AtStatus,
       AtRead, Level, Flagged, RejectIsNear, Failing, Refusing, Raised, driveVars
<1>3. CASE phase # "idle"
  <2>1. image # NoImage /\ cmdAsserted = TRUE /\ ifrCA1 /\ proceed
    BY <1>0, <1>3 DEF Level, Flagged, Raised, IInv, TypeOK, FlagsOK, PhaseAgreement, writePORTA, handleReply
  <2>2. phase \in {"firstHS", "acceptHS", "postWriteHS"}
    BY <1>0, <1>3 DEF IInv, TypeOK, DataOK, Phases, AtCommand, AtWrite, AtStatus, AtRead,
       Serving, RejectedWrite, Leftover
  <2>3. UNCHANGED <<cmdAsserted, ifrCA1>> /\ phase' # "idle"
    BY <2>1, <2>2 DEF proceed, openCommand, beginTransferAfterAccept, RejectTransfer, WriteTransfer,
       ReadTransfer, postWriteStatus, events
  <2>4. Level' /\ Flagged' /\ Failing'
    BY <1>0, <2>1, <2>3 DEF Level, Flagged, Failing, Raised
  <2>5. CASE phase = "firstHS"
    <3>1. /\ phase' = "awaitCommand" /\ commandAccum' = <<>> /\ stage = 1
          /\ UNCHANGED rejectNext
      BY <1>0, <2>1, <2>5 DEF proceed, openCommand, postWriteStatus, AtFirst
    <3>2. AtCommand'
      BY <1>0, <3>1 DEF AtCommand
    <3> QED
      BY <1>0, <1>1, <2>4, <2>5, <3>1, <3>2 DEF AtIdle, AtFirst, AtAccept, AtWrite, AtPostWrite, AtStatus,
         AtRead, RejectIsNear, Refusing
  <2>6. CASE phase = "postWriteHS"
    <3>1. /\ phase' = "postWriteStat" /\ UNCHANGED <<commandAccum, writeAccum, rejectNext>>
      BY <2>1, <2>6 DEF proceed, openCommand, postWriteStatus, command
    <3>2. AtStatus'
      BY <1>0, <2>6, <3>1 DEF AtStatus, AtPostWrite, CommandSent, StreamSent, CommandBlock, WriteStream
    <3> QED
      BY <1>0, <1>1, <2>4, <2>6, <3>1, <3>2 DEF AtIdle, AtFirst, AtAccept, AtWrite, AtPostWrite, AtCommand,
         AtRead, RejectIsNear, Refusing
  <2>7. CASE phase = "acceptHS"
    <3>0. stage = 2 /\ CommandSent /\ commandAccum[1] = CommandCode(request.op)
      BY <2>7 DEF AtAccept, CommandSent, CommandBlock
    <3>1. UNCHANGED <<commandAccum>> /\ CommandSent'
      BY <1>0, <2>1, <2>7, <3>0 DEF proceed, beginTransferAfterAccept, RejectTransfer, WriteTransfer,
         ReadTransfer, openCommand, postWriteStatus, command, CommandSent, CommandBlock
    <3>2. CASE WriteTransfer
      <4>1. phase' = "writeData" /\ writeAccum' = <<>> /\ rejectNext' = FALSE /\ request.op = "write"
        BY <1>0, <3>0, <3>2 DEF WriteTransfer, command, CommandCode, IInv, TypeOK, FlagsOK
      <4>2. AtWrite'
        BY <1>0, <3>0, <3>1, <4>1 DEF AtWrite
      <4> QED
        BY <1>0, <1>1, <2>4, <2>7, <4>1, <4>2 DEF AtIdle, AtFirst, AtAccept, AtCommand, AtPostWrite, AtStatus,
           AtRead, RejectIsNear, Refusing
    <3>3. CASE RejectTransfer
      <4>1. /\ phase' = "readData" /\ outStream' = <<FatalStatus>> /\ outIdx' = 0 /\ rejectNext' = FALSE
            /\ rejectNext
        BY <3>3 DEF RejectTransfer
      <4>2. Serving' \/ RejectedWrite'
        BY <1>0, <3>0, <3>1, <4>1 DEF Serving, RejectedWrite
      <4>3. refusals = 1 => Serving'
        BY <1>0, <3>0, <3>1, <4>1 DEF Serving, Refusing
      <4>4. AtRead' /\ Refusing'
        BY <1>0, <4>1, <4>2, <4>3 DEF AtRead, Refusing
      <4> QED
        BY <1>0, <1>1, <2>4, <2>7, <4>1, <4>4 DEF AtIdle, AtFirst, AtAccept, AtCommand, AtWrite, AtPostWrite,
           AtStatus, RejectIsNear
    <3>4. CASE ReadTransfer
      <4>1. /\ phase' = "readData" /\ outStream' = readStream(pendingBlock) /\ outIdx' = 0
            /\ rejectNext' = FALSE /\ request.op # "write"
        BY <1>0, <3>0, <3>4 DEF ReadTransfer, command, CommandCode, IInv, TypeOK, FlagsOK
      <4>2. /\ outStream'[1] \in {OkStatus, FatalStatus}
            /\ outStream'[1] = FatalStatus => outStream' = <<FatalStatus, Zeros, Zeros>>
        BY <4>1 DEF readStream
      <4>3. Serving'
        BY <1>0, <3>0, <3>1, <4>1 DEF Serving
      <4>4. AtRead' /\ Refusing'
        BY <1>0, <4>1, <4>2, <4>3 DEF AtRead, Refusing
      <4> QED
        BY <1>0, <1>1, <2>4, <2>7, <4>1, <4>4 DEF AtIdle, AtFirst, AtAccept, AtCommand, AtWrite, AtPostWrite,
           AtStatus, RejectIsNear
    <3> QED
      BY <2>1, <2>7, <3>2, <3>3, <3>4 DEF proceed, beginTransferAfterAccept, openCommand, postWriteStatus
  <2> QED
    BY <2>2, <2>5, <2>6, <2>7
<1> QED
  BY <1>2, <1>3

(* The strobe goes down.                                                   *)
LEMMA DropStrobe ==
  ASSUME Together, portBWrite(FALSE)
  PROVE  /\ UNCHANGED <<image, store, phase, presented, responseCode, commandAccum, outStream,
                        outIdx, writeAccum, pendingBlock, rejectNext, lastStatus>>
         /\ cmdAsserted' = FALSE
         /\ phase # "idle" /\ pc = "drop" => ifrCA1'
<1>1. phase # "idle" => image # NoImage
  BY DEF Together, IInv, PhaseAgreement
<1>2. phase # "idle" /\ pc = "drop" => cmdAsserted
  BY DEF Together, InStep, Level, Raised
<1>3. CASE image = NoImage
  <2>1. cmdAsserted = FALSE
    BY Zenon, <1>1, <1>3 DEF Together, InStep, Level, IInv, TypeOK, FlagsOK
  <2> QED
    BY <1>1, <1>3, <2>1 DEF portBWrite, driveVars
<1>4. CASE image # NoImage
  BY <1>2, <1>4 DEF portBWrite, media, command, stream
<1> QED
  BY <1>3, <1>4

\* CMD is released after the reply
LEMMA DropTogether ==
  ASSUME Together, Drop
  PROVE  DriverOK' /\ GotOK' /\ InStep' /\ Refusing'
<1> USE DEF Together, InStep
<1>0. /\ UNCHANGED <<request, stage, sent, got, answer, unplugged, refusals>>
      /\ pc = "drop" /\ portBWrite(FALSE) /\ sent = 0 /\ got = <<>> /\ stage \in 1 .. 3
      /\ pc' = CASE stage = 1 -> "send"
                  [] stage = 2 -> IF request.op = "write" THEN "fill" ELSE "park"
                  [] stage = 3 -> "drain"
  BY DEF Drop, Goto, DriverOK
<1>d. /\ UNCHANGED <<image, store, phase, presented, responseCode, commandAccum, outStream,
                     outIdx, writeAccum, pendingBlock, rejectNext, lastStatus>>
      /\ cmdAsserted' = FALSE /\ (phase # "idle" => ifrCA1')
  BY <1>0, DropStrobe
<1>s. \/ stage = 1 /\ pc' = "send"
      \/ stage = 2 /\ request.op = "write" /\ pc' = "fill"
      \/ stage = 2 /\ request.op # "write" /\ pc' = "park"
      \/ stage = 3 /\ pc' = "drain"
  <2>1. stage = 1 \/ stage = 2 \/ stage = 3
    BY <1>0
  <2> QED
    BY <1>0, <2>1
<1>1. DriverOK' /\ GotOK'
  BY <1>0, <1>s DEF DriverOK, GotOK, Raised
<1>2. Level' /\ Flagged' /\ Failing'
    BY <1>0, <1>d, <1>s DEF Level, Flagged, Failing, Raised
<1>3. AtIdle' /\ AtFirst' /\ AtCommand' /\ AtAccept'
  BY <1>0, <1>d, <1>s DEF AtIdle, AtFirst, AtCommand, AtAccept, CommandBlock
<1>4. AtWrite' /\ AtPostWrite' /\ AtStatus'
  BY <1>0, <1>d, <1>s DEF AtWrite, AtPostWrite, AtStatus, CommandBlock, CommandSent, StreamSent, WriteStream
<1>5. AtRead' /\ Refusing'
  BY <1>0, <1>d, <1>s DEF AtRead, Refusing, CommandBlock, CommandSent, Serving, RejectedWrite, Leftover
<1>6. RejectIsNear'
  BY <1>d DEF RejectIsNear
<1> QED
  BY <1>1, <1>2, <1>3, <1>4, <1>5, <1>6

\* or after a refusal, which ends the request
LEMMA DropFailedTogether ==
  ASSUME Together, DropFailed
  PROVE  DriverOK' /\ GotOK' /\ InStep' /\ Refusing'
<1> USE DEF Together, InStep
<1>0. /\ UNCHANGED <<request, stage, sent, got, unplugged>>
      /\ pc \in {"dropRefused", "dropLate"} /\ pc' = "free" /\ portBWrite(FALSE)
      /\ refusals' = IF pc = "dropRefused" /\ ~unplugged THEN refusals + 1 ELSE 0
      /\ phase = "idle"
  BY DEF DropFailed, Finish, Failing
<1>1. DriverOK' /\ GotOK'
  BY <1>0 DEF DriverOK, GotOK, Raised
<1>2. /\ phase' = "idle" /\ presented' = Floating /\ cmdAsserted' = FALSE /\ rejectNext' = rejectNext
  BY <1>0, DropStrobe DEF AtIdle
<1>3. InStep'
  BY <1>0, <1>2, RewoundInStep
<1>4. Refusing'
  BY <1>0, <1>2 DEF Refusing
<1> QED
  BY <1>1, <1>3, <1>4


(* A word of the command or of the write stream.                           *)
LEMMA AppendedPrefix ==
  ASSUME NEW S, NEW s \in Seq(S), NEW block, NEW n \in Nat, block[n + 1] \in S, Len(s) = n,
         \A i \in 1 .. n : s[i] = block[i]
  PROVE  /\ Append(s, block[n + 1]) \in Seq(S) /\ Len(Append(s, block[n + 1])) = n + 1
         /\ \A i \in 1 .. n + 1 : Append(s, block[n + 1])[i] = block[i]
<1> DEFINE t == Append(s, block[n + 1])
<1>1. /\ t \in Seq(S) /\ Len(t) = n + 1 /\ t[n + 1] = block[n + 1]
      /\ \A i \in 1 .. n : t[i] = s[i]
  OBVIOUS
<1>2. ASSUME NEW i \in 1 .. n + 1, i # n + 1 PROVE i \in 1 .. n
  BY <1>2
<1> HIDE DEF t
<1>3. \A i \in 1 .. n + 1 : t[i] = block[i]
  BY <1>1, <1>2
<1> QED
  BY <1>1, <1>3 DEF t

\* A word of the command
LEMMA SendTogether ==
  ASSUME Together, Send
  PROVE  DriverOK' /\ GotOK' /\ InStep' /\ Refusing'
<1> USE DEF Together, InStep
<1>0. /\ UNCHANGED <<request, got, answer, unplugged, refusals>>
      /\ pc = "send" /\ writeORA(CommandBlock[sent + 1]) /\ stage = 1
      /\ got = <<>> /\ sent \in 0 .. 2 /\ request \in Requests
      /\ request.op \in {"read", "write", "format"}
      /\ IF sent + 1 = 3 THEN pc' = "clear" /\ stage' = 2 /\ sent' = 0
                         ELSE pc' = "send" /\ stage' = 1 /\ sent' = sent + 1
  BY RequestWords DEF Send, NextStage, DriverOK
<1>1. DriverOK' /\ GotOK'
  BY <1>0 DEF DriverOK, GotOK, Raised
<1>p. phase = "idle" \/ phase = "awaitCommand"
  BY <1>0 DEF IInv, TypeOK, DataOK, Phases, AtFirst, AtAccept, AtWrite, AtPostWrite, AtStatus,
     AtRead, Serving, RejectedWrite, Leftover
<1>2. CASE phase = "idle"
  <2>1. UNCHANGED driveVars
    BY <1>0, <1>2 DEF writeORA, CommandWord, WriteWord
  <2> QED
    BY <1>0, <1>1, <1>2, <2>1 DEF AtIdle, AtFirst, AtCommand, AtAccept, AtWrite, AtPostWrite, AtStatus,
       AtRead, Level, Flagged, RejectIsNear, Failing, Refusing, Raised, driveVars
<1>3. CASE phase = "awaitCommand"
  <2>1. /\ image # NoImage /\ CommandWord(CommandBlock[sent + 1]) /\ ~cmdAsserted /\ ifrCA1
        /\ Len(commandAccum) = sent /\ \A i \in 1 .. sent : commandAccum[i] = CommandBlock[i]
        /\ commandAccum \in Seq(Words)
    BY <1>0, <1>3 DEF IInv, TypeOK, DataOK, PhaseAgreement, writeORA, WriteWord, Level, Flagged, Raised, AtCommand
  <2>2. commandAccum' = Append(commandAccum, CommandBlock[sent + 1])
    BY <2>1 DEF CommandWord
  <2>3. /\ Len(commandAccum') = sent + 1
        /\ \A i \in 1 .. sent + 1 : commandAccum'[i] = CommandBlock[i]
    <3>1. CommandBlock[sent + 1] \in Words /\ sent \in Nat
      BY <1>0, SentAreWords
    <3> HIDE DEF Together, InStep
    <3> QED
      BY <2>1, <2>2, <3>1, AppendedPrefix
  <2>4. CommandBlock' = CommandBlock
    BY <1>0 DEF CommandBlock
  <2>5. UNCHANGED <<cmdAsserted, presented, ifrCA1>>
    BY <2>1 DEF CommandWord, events
  <2>6. CASE sent + 1 = 3
    <3>1. /\ phase' = "acceptHS"
          /\ rejectNext' = (rejectNext \/ commandAccum[1] \notin {ReadCommand, WriteCommand})
      BY <2>1, <2>3, <2>6 DEF CommandWord, decodeCommand
    <3>2. CommandSent'
      BY <2>3, <2>4, <2>6 DEF CommandSent
    <3>3. commandAccum[1] = CommandCode(request.op)
      BY <2>1, <2>6 DEF CommandBlock
    <3>4. AtAccept'
      BY <1>0, <2>6, <3>1, <3>2 DEF AtAccept, Raised
    <3>5. Refusing'
      BY <1>0, <1>3, <2>6, <3>1, <3>3 DEF Refusing, CommandCode
    <3> QED
      BY <1>0, <1>1, <2>1, <2>5, <2>6, <3>1, <3>4, <3>5 DEF AtIdle, AtFirst, AtCommand, AtWrite, AtPostWrite,
         AtStatus, AtRead, Level, Flagged, RejectIsNear, Failing, Raised
  <2>7. CASE sent + 1 # 3
    <3>1. phase' = phase /\ UNCHANGED rejectNext
      BY <2>1, <2>3, <2>7 DEF CommandWord
    <3>2. AtCommand'
      BY <1>0, <2>3, <2>4, <2>7 DEF AtCommand
    <3> QED
      BY <1>0, <1>1, <1>3, <2>1, <2>5, <2>7, <3>1, <3>2 DEF AtIdle, AtFirst, AtAccept, AtWrite, AtPostWrite,
         AtStatus, AtRead, Level, Flagged, RejectIsNear, Failing, Raised, Refusing
  <2> QED
    BY <2>6, <2>7
<1> QED
  BY <1>p, <1>2, <1>3

\* A word of the stream that is written
LEMMA FillTogether ==
  ASSUME Together, Fill
  PROVE  DriverOK' /\ GotOK' /\ InStep' /\ Refusing'
<1> USE DEF Together, InStep
<1>0. /\ UNCHANGED <<request, stage, got, answer, unplugged, refusals>>
      /\ pc = "fill" /\ writeORA(WriteStream[sent + 1]) /\ stage = 2
      /\ got = <<>> /\ sent \in 0 .. 1 /\ request.op = "write"
      /\ IF sent + 1 = 2 THEN pc' = "park" /\ sent' = sent
                         ELSE pc' = "fill" /\ sent' = sent + 1
  BY DEF Fill, Goto, DriverOK
<1>1. DriverOK' /\ GotOK'
  BY <1>0 DEF DriverOK, GotOK, Raised
<1>p. phase \in {"idle", "readData", "writeData"}
  BY <1>0 DEF IInv, TypeOK, DataOK, Phases, AtFirst, AtCommand, AtAccept, AtPostWrite, AtStatus
<1>2. CASE phase = "idle" \/ phase = "readData"
  <2>1. UNCHANGED driveVars
    BY <1>0, <1>2 DEF writeORA, CommandWord, WriteWord
  <2>2. UNCHANGED <<phase, cmdAsserted, presented, responseCode, commandAccum, writeAccum,
                    rejectNext, outStream, outIdx, ifrCA1>>
    BY <2>1 DEF driveVars
  <2>3. AtRead' /\ Refusing'
    BY <1>0, <1>2, <2>2 DEF AtRead, Refusing, Serving, RejectedWrite, Leftover
  <2> QED
    BY <1>0, <1>1, <1>2, <2>2, <2>3 DEF AtIdle, AtFirst, AtCommand, AtAccept, AtWrite, AtPostWrite, AtStatus,
       Level, Flagged, RejectIsNear, Failing, Raised
<1>3. CASE phase = "writeData"
  <2>1. /\ image # NoImage /\ WriteWord(WriteStream[sent + 1]) /\ ~cmdAsserted /\ ifrCA1
        /\ Len(writeAccum) = sent /\ \A i \in 1 .. sent : writeAccum[i] = WriteStream[i]
        /\ writeAccum \in Seq(Words) /\ CommandSent
    BY <1>0, <1>3 DEF IInv, TypeOK, DataOK, PhaseAgreement, writeORA, CommandWord, Level, Flagged, Raised, AtWrite
  <2>2. writeAccum' = Append(writeAccum, WriteStream[sent + 1])
    BY <2>1 DEF WriteWord
  <2>3. /\ Len(writeAccum') = sent + 1
        /\ \A i \in 1 .. sent + 1 : writeAccum'[i] = WriteStream[i]
    <3>1. WriteStream[sent + 1] \in Words /\ sent \in Nat
      BY <1>0, SentAreWords
    <3> HIDE DEF Together, InStep
    <3> QED
      BY <2>1, <2>2, <3>1, AppendedPrefix
  <2>4. WriteStream' = WriteStream /\ CommandBlock' = CommandBlock
    BY <1>0 DEF WriteStream, CommandBlock
  <2>5. UNCHANGED <<cmdAsserted, presented, ifrCA1, commandAccum, rejectNext>>
    BY <2>1 DEF WriteWord, command
  <2>c. CommandSent'
    BY <2>1, <2>4, <2>5 DEF CommandSent
  <2>r. ~rejectNext
    BY <1>3 DEF RejectIsNear
  <2>6. CASE sent + 1 = 2
    <3>1. phase' = "postWriteHS"
      BY <2>1, <2>3, <2>6 DEF WriteWord
    <3>2. StreamSent'
      BY <2>3, <2>4, <2>6 DEF StreamSent
    <3>4. AtPostWrite'
      BY <1>0, <2>6, <2>c, <3>1, <3>2 DEF AtPostWrite, Raised
    <3> QED
      BY <1>0, <1>1, <2>1, <2>5, <2>6, <2>r, <3>1, <3>4 DEF AtIdle, AtFirst, AtCommand, AtWrite, AtAccept,
         AtStatus, AtRead, Level, Flagged, RejectIsNear, Failing, Raised, Refusing
  <2>7. CASE sent + 1 # 2
    <3>1. phase' = phase
      BY <2>1, <2>3, <2>7 DEF WriteWord
    <3>2. AtWrite'
      BY <1>0, <2>3, <2>4, <2>c, <2>7 DEF AtWrite
    <3> QED
      BY <1>0, <1>1, <1>3, <2>1, <2>5, <2>7, <2>r, <3>1, <3>2 DEF AtIdle, AtFirst, AtAccept, AtCommand,
         AtPostWrite, AtStatus, AtRead, Level, Flagged, RejectIsNear, Failing, Raised, Refusing
  <2> QED
    BY <2>6, <2>7
<1> QED
  BY <1>p, <1>2, <1>3

\* The wait for the interrupt
LEMMA ParkTogether ==
  ASSUME Together, Park
  PROVE  DriverOK' /\ GotOK' /\ InStep' /\ Refusing'
<1> USE DEF Together, InStep
<1>0. /\ UNCHANGED <<request, got, answer, unplugged, refusals>>
      /\ pc = "park" /\ stage = 2 /\ got = <<>>
      /\ IF request.op = "write" THEN pc' = "clear" /\ stage' = 3 /\ sent' = 0
                                 ELSE pc' = "drain" /\ stage' = stage /\ sent' = sent
  BY DEF Park, NextStage, Goto, DriverOK
<1>1. DriverOK' /\ GotOK'
  BY <1>0 DEF DriverOK, GotOK, Raised
<1>2. UNCHANGED <<phase, cmdAsserted, presented, responseCode, commandAccum, writeAccum,
                  rejectNext, outStream, outIdx, ifrCA1>>
  BY DEF Park, driveVars
<1>3. AtIdle' /\ AtFirst' /\ AtCommand' /\ AtAccept' /\ AtWrite' /\ AtStatus'
  BY <1>0, <1>2 DEF AtIdle, AtFirst, AtCommand, AtAccept, AtWrite, AtStatus
<1>4. AtPostWrite'
  BY <1>0, <1>2 DEF AtPostWrite, CommandSent, StreamSent, CommandBlock, WriteStream, Raised
<1>5. AtRead' /\ Refusing'
  BY <1>0, <1>2 DEF AtRead, Refusing, Serving, RejectedWrite, Leftover, CommandSent, CommandBlock
<1>6. Level' /\ Flagged' /\ RejectIsNear' /\ Failing'
  BY <1>0, <1>2 DEF Level, Flagged, RejectIsNear, Failing, Raised
<1> QED
  BY <1>1, <1>3, <1>4, <1>5, <1>6


(* A word is drained. Where the drive is idle the driver reads the empty   *)
(* bus: the disk has been unplugged.                                       *)
LEMMA WordDrained ==
  ASSUME NEW q \in Seq(Nat), NEW w \in Nat
  PROVE  /\ Append(q, w) \in Seq(Nat) /\ Append(q, w) # <<>>
         /\ Len(Append(q, w)) = Len(q) + 1 /\ Append(q, w)[Len(q) + 1] = w
         /\ \A i \in 1 .. Len(q) : Append(q, w)[i] = q[i]
         /\ q # <<>> => Append(q, w)[1] = q[1]
         /\ Tail(Append(q, w)) \in Seq(Nat)
<1>1. Len(q) \in Nat /\ (q # <<>> => 1 \in 1 .. Len(q))
  OBVIOUS
<1>2. /\ Append(q, w) \in Seq(Nat) /\ Append(q, w) # <<>>
      /\ Len(Append(q, w)) = Len(q) + 1 /\ Append(q, w)[Len(q) + 1] = w
      /\ \A i \in 1 .. Len(q) : Append(q, w)[i] = q[i]
  OBVIOUS
<1> QED
  BY <1>1, <1>2

\* A word drained comes from a stream of a read, from a status, or from an unplugged bus
LEMMA DrainWhere ==
  ASSUME Together, Drain
  PROVE  /\ pc = "drain" /\ sent \in 0 .. 2 /\ got \in Seq(Nat) /\ request \in Requests
         /\ \/ phase = "idle" /\ unplugged /\ UNCHANGED driveVars /\ portAInput = Floating
            \/ /\ phase = "readData" /\ Serving /\ image # NoImage /\ advanceDataStream
               /\ portAInput = presented
            \/ /\ phase = "postWriteStat" /\ stage = 3 /\ image # NoImage /\ advanceDataStream
               /\ portAInput = presented /\ got = <<>>
<1> USE DEF Together, InStep
<1>1. pc = "drain" /\ readIRA /\ request \in Requests /\ sent \in 0 .. 2 /\ got \in Seq(Nat)
  BY DEF Drain, DriverOK, GotOK
<1>2. phase = "idle" \/ (phase = "readData" /\ Serving) \/ phase = "postWriteStat"
  BY <1>1 DEF IInv, TypeOK, DataOK, Phases, AtFirst, AtCommand, AtAccept, AtWrite, AtPostWrite,
     AtRead, RejectedWrite, Leftover
<1>3. CASE phase = "idle"
  <2>1. unplugged /\ presented = Floating
    BY <1>1, <1>3 DEF AtIdle
  <2> QED
    BY <1>1, <1>3, <2>1 DEF readIRA, portAInput, advanceDataStream
<1>4. CASE phase # "idle"
  <2>1. image # NoImage
    BY <1>4 DEF IInv, PhaseAgreement
  <2>2. advanceDataStream /\ portAInput = presented
    BY <1>1, <1>2, <1>4, <2>1 DEF readIRA, portAInput
  <2>3. phase = "postWriteStat" => stage = 3 /\ got = <<>>
    BY <1>1 DEF AtStatus, DriverOK
  <2> QED
    BY <1>1, <1>2, <1>4, <2>1, <2>2, <2>3
<1> QED
  BY <1>3, <1>4

(* What a driver that drains makes of the word.                            *)
DrainEnds(w) ==
    \/ Fatal(w[1]) /\ Finish(Failure, FALSE)
    \/ /\ ~Fatal(w[1]) /\ Len(w) = (IF request.op = "read" THEN 3 ELSE 1)
       /\ Finish([ok |-> TRUE, words |-> Tail(w)], FALSE)
    \/ /\ ~Fatal(w[1]) /\ Len(w) # (IF request.op = "read" THEN 3 ELSE 1)
       /\ got' = w /\ pc' = pc
       /\ UNCHANGED <<request, stage, sent, answer, unplugged, refusals>>

\* and is what the driver has got
LEMMA DrainDrains ==
  ASSUME Together, Drain
  PROVE  DrainEnds(Append(got, portAInput))
<1> DEFINE w == Append(got, portAInput)
           n == IF request.op = "read" THEN 3 ELSE 1
<1>1. IF Fatal(w[1]) THEN Finish(Failure, FALSE)
      ELSE IF Len(w) = n THEN Finish([ok |-> TRUE, words |-> Tail(w)], FALSE)
      ELSE got' = w /\ UNCHANGED <<pc, request, stage, sent, answer, unplugged, refusals>>
  BY DEF Drain
<1> HIDE DEF w, n
<1>2. CASE Fatal(w[1])
  BY <1>1, <1>2 DEF DrainEnds, w
<1>3. CASE ~Fatal(w[1]) /\ Len(w) = n
  BY <1>1, <1>3 DEF DrainEnds, w, n
<1>4. CASE ~Fatal(w[1]) /\ Len(w) # n
  BY <1>1, <1>4 DEF DrainEnds, w, n
<1> QED
  BY <1>2, <1>3, <1>4

(* Where it goes on.                                                       *)
LEMMA DrainGoesOn ==
  ASSUME Together, NEW w, DrainEnds(w)
  PROVE  /\ UNCHANGED <<request, stage, sent, unplugged>>
         /\ \/ pc' = "free" /\ refusals' = 0 /\ got' = got
            \/ /\ pc' = pc /\ refusals' = refusals /\ got' = w /\ ~Fatal(w[1])
               /\ Len(w) # (IF request.op = "read" THEN 3 ELSE 1)
BY DEF DrainEnds, Finish

\* A drain of an unplugged drive reads the floating bus
LEMMA DrainIdle ==
  ASSUME Together, Drain, phase = "idle"
  PROVE  DriverOK' /\ GotOK' /\ InStep' /\ Refusing'
<1> DEFINE w == Append(got, Floating)
<1>0. /\ pc = "drain" /\ unplugged /\ UNCHANGED driveVars /\ got \in Seq(Nat)
      /\ portAInput = Floating
  BY DrainWhere
<1>2. /\ w \in Seq(Nat) /\ w # <<>> /\ Len(w) = Len(got) + 1
      /\ got = <<>> => w[1] = Floating
  <2>1. got = <<>> => Len(got) = 0
    OBVIOUS
  <2> QED
    BY <1>0, <2>1, WordDrained
<1> HIDE DEF w
<1>1. DrainEnds(w)
  BY <1>0, DrainDrains DEF w
<1>3. /\ UNCHANGED <<request, stage, sent, unplugged>>
      /\ \/ pc' = "free" /\ refusals' = 0 /\ got' = got
         \/ /\ pc' = pc /\ refusals' = refusals /\ got' = w /\ ~Fatal(w[1])
            /\ Len(w) # (IF request.op = "read" THEN 3 ELSE 1)
  BY <1>1, DrainGoesOn
<1>4. pc' = pc => request.op = "read"
  <2>1. got = <<>> => Fatal(w[1])
    BY <1>2 DEF Fatal
  <2>2. got # <<>> => request.op = "read"
    BY <1>0 DEF Together, DriverOK
  <2> QED
    BY <1>0, <1>3, <2>1, <2>2
<1>5. DriverOK' /\ GotOK'
  BY <1>0, <1>2, <1>3, <1>4 DEF Together, DriverOK, GotOK, Raised
<1>6. UNCHANGED <<phase, cmdAsserted, presented, rejectNext>>
  BY <1>0 DEF driveVars
<1>7. InStep'
  BY <1>0, <1>3, <1>6 DEF Together, InStep, AtIdle, AtFirst, AtCommand, AtAccept, AtWrite, AtPostWrite,
     AtStatus, AtRead, Level, Flagged, RejectIsNear, Failing, Raised
<1>8. Refusing'
  BY <1>0, <1>3, <1>6 DEF Together, Refusing
<1> QED
  BY <1>5, <1>7, <1>8

(* The status of a write is the last of its words.                         *)
LEMMA DrainStatus ==
  ASSUME Together, Drain, phase = "postWriteStat"
  PROVE  /\ DriverOK' /\ GotOK' /\ InStep' /\ Refusing'
         /\ \/ Finish(Failure, FALSE)
            \/ lastStatus = OkStatus /\ Finish([ok |-> TRUE, words |-> <<>>], FALSE)
<1>0. /\ pc = "drain" /\ stage = 3 /\ image # NoImage /\ advanceDataStream
      /\ portAInput = presented /\ got = <<>> /\ request.op = "write"
  BY DrainWhere DEF Together, DriverOK
<1>1. /\ outStream = <<lastStatus>> /\ outIdx = 0 /\ presented = lastStatus
      /\ lastStatus \in {OkStatus, FatalStatus}
  <2>1. outStream = <<lastStatus>> /\ outIdx < Len(outStream) /\ outIdx \in Nat
        /\ presented = outStream[outIdx + 1] /\ lastStatus \in {OkStatus, FatalStatus}
    BY DEF Together, IInv, TypeOK, DataOK, PhaseAgreement
  <2> QED
    BY <2>1
<1>2. phase' = "idle" /\ presented' = Floating /\ UNCHANGED <<cmdAsserted, rejectNext>>
  BY <1>0, <1>1 DEF advanceDataStream, StreamWord, command
<1> DEFINE w == Append(got, presented)
<1>3. w = <<lastStatus>>
  BY <1>0, <1>1
<1>4. DrainEnds(w)
  BY <1>0, DrainDrains
<1>5. w[1] = lastStatus /\ Len(w) = 1 /\ Tail(w) = <<>>
  BY <1>3
<1> HIDE DEF w
<1>6. \/ Finish(Failure, FALSE)
      \/ ~Fatal(lastStatus) /\ Finish([ok |-> TRUE, words |-> <<>>], FALSE)
  BY <1>0, <1>4, <1>5 DEF DrainEnds
<1>7. ~Fatal(lastStatus) => lastStatus = OkStatus
  BY <1>1 DEF Fatal
<1>8. /\ pc' = "free" /\ refusals' = 0 /\ UNCHANGED <<request, stage, sent, got, unplugged>>
  BY <1>6 DEF Finish
<1>9. ~cmdAsserted
  BY <1>0 DEF Together, InStep, Level, Raised
<1>10. DriverOK' /\ GotOK'
  BY <1>8 DEF Together, DriverOK, GotOK, Raised
<1>11. InStep'
  BY <1>2, <1>8, <1>9 DEF Together, InStep, AtIdle, AtFirst, AtCommand, AtAccept, AtWrite, AtPostWrite,
     AtStatus, AtRead, Level, Flagged, RejectIsNear, Failing, Raised
<1>12. Refusing'
  BY <1>8 DEF Refusing
<1> QED
  BY <1>6, <1>7, <1>10, <1>11, <1>12


(* A read: the driver has read what the drive has streamed.                *)
LEMMA DrainRead ==
  ASSUME Together, Drain, phase = "readData"
  PROVE  /\ DriverOK' /\ GotOK' /\ InStep' /\ Refusing'
         /\ \/ Finish(Failure, FALSE)
            \/ UNCHANGED <<pc, answer, unplugged, request>>
            \/ /\ outStream[1] = OkStatus /\ request.op = "read"
               /\ Finish([ok |-> TRUE, words |-> Tail(outStream)], FALSE)
<1> DEFINE w == Append(got, presented)
<1>0. /\ pc = "drain" /\ Serving /\ image # NoImage /\ advanceDataStream
      /\ portAInput = presented /\ got \in Seq(Nat)
  BY DrainWhere
<1>1. /\ outStream \in Seq(Nat) /\ outIdx \in Nat /\ outIdx < Len(outStream)
      /\ presented = outStream[outIdx + 1] /\ presented \in Nat
      /\ outStream[1] \in {OkStatus, FatalStatus}
      /\ outStream[1] = FatalStatus =>
           outStream = <<FatalStatus>> \/ outStream = <<FatalStatus, Zeros, Zeros>>
  BY DEF Together, InStep, AtRead, IInv, TypeOK, DataOK, PhaseAgreement
<1>2. Len(got) = outIdx /\ \A i \in 1 .. outIdx : got[i] = outStream[i]
  BY <1>0 DEF Serving
<1>3. /\ w \in Seq(Nat) /\ w # <<>> /\ Len(w) = outIdx + 1
      /\ \A i \in 1 .. outIdx + 1 : w[i] = outStream[i]
  <2>1. /\ w \in Seq(Nat) /\ w # <<>> /\ Len(w) = outIdx + 1 /\ w[outIdx + 1] = presented
        /\ \A i \in 1 .. outIdx : w[i] = got[i]
    BY <1>0, <1>1, <1>2, WordDrained
  <2> HIDE DEF w
  <2>2. ASSUME NEW i \in 1 .. outIdx + 1 PROVE w[i] = outStream[i]
    <3>1. i = outIdx + 1 \/ i \in 1 .. outIdx
      BY <1>1
    <3> QED
      BY SMTT(30), <1>1, <1>2, <2>1, <3>1
  <2> QED
    BY <2>1, <2>2
<1>4. DrainEnds(w)
  BY <1>0, DrainDrains
<1> HIDE DEF w
<1>5. w[1] = outStream[1] /\ (Fatal(w[1]) <=> outStream[1] = FatalStatus)
  <2>1. 1 \in 1 .. outIdx + 1
    BY <1>1
  <2> QED
    BY <1>1, <1>3, <2>1 DEF Fatal
<1>6. ~cmdAsserted /\ ~rejectNext
  BY <1>0 DEF Together, InStep, Level, Raised, RejectIsNear
<1>7. /\ UNCHANGED <<cmdAsserted, rejectNext, outStream, commandAccum>> /\ outIdx' = outIdx + 1
      /\ IF outIdx + 1 >= Len(outStream) THEN phase' = "idle" /\ presented' = Floating
                                         ELSE phase' = "readData"
  BY <1>0, <1>1 DEF advanceDataStream, StreamWord, command
<1>8. CASE outStream[1] = FatalStatus
  <2>1. Finish(Failure, FALSE)
    BY <1>4, <1>5, <1>8 DEF DrainEnds
  <2>2. /\ pc' = "free" /\ refusals' = 0 /\ UNCHANGED <<request, stage, sent, got, unplugged>>
    BY <2>1 DEF Finish
  <2>3. outIdx = 0
    <3>1. CASE got = <<>>
      BY <1>2, <3>1
    <3>2. CASE got # <<>>
      <4>1. ~Fatal(got[1])
        BY <3>2 DEF Together, GotOK
      <4>2. 1 \in 1 .. outIdx
        BY <1>0, <1>1, <1>2, <3>2
      <4> QED
        BY <1>2, <1>8, <4>1, <4>2 DEF Fatal
    <3> QED
      BY <3>1, <3>2
  <2>4. DriverOK' /\ GotOK'
    BY <2>2 DEF Together, DriverOK, GotOK, Raised
  <2>5. CASE outStream = <<FatalStatus>>
    <3>1. phase' = "idle" /\ presented' = Floating
      BY <1>7, <2>3, <2>5
    <3>2. InStep'
      BY <1>6, <1>7, <2>2, <3>1 DEF Together, InStep, AtIdle, AtFirst, AtCommand, AtAccept, AtWrite, AtPostWrite,
         AtStatus, AtRead, Level, Flagged, RejectIsNear, Failing, Raised
    <3>9. Refusing'
      BY <2>2 DEF Refusing
    <3> QED
      BY Zenon, <2>1, <2>4, <3>2, <3>9
  <2>6. CASE outStream = <<FatalStatus, Zeros, Zeros>>
    <3>1. phase' = "readData" /\ outIdx' = 1 /\ outStream' = <<FatalStatus, Zeros, Zeros>>
      BY <1>7, <2>3, <2>6
    <3>2. AtRead'
      BY <2>2, <3>1 DEF AtRead, Leftover
    <3>3. InStep'
      BY <1>6, <1>7, <2>2, <3>1, <3>2 DEF Together, InStep, AtIdle, AtFirst, AtCommand, AtAccept, AtWrite, AtPostWrite,
         AtStatus, Level, Flagged, RejectIsNear, Failing, Raised
    <3>9. Refusing'
      BY <2>2 DEF Refusing
    <3> QED
      BY Zenon, <2>1, <2>4, <3>3, <3>9
  <2> QED
    BY <1>1, <1>8, <2>5, <2>6
<1>9. CASE outStream[1] = OkStatus
  <2>1. request.op = "read" /\ Len(outStream) = 3
    <3>1. commandAccum[1] = CommandCode(request.op) /\ request.op \in {"read", "write", "format"}
          /\ request.op # "write"
      BY <1>0, RequestWords DEF Together, Serving, CommandSent, CommandBlock
    <3>2. CommandCode("format") # ReadCommand
      BY DEF CommandCode
    <3>3. outStream # <<FatalStatus>>
      BY <1>9
    <3>4. commandAccum[1] = ReadCommand
      BY <3>3 DEF Together, IInv, StreamTellsTruth
    <3>5. Len(outStream) = 3
      BY <1>9 DEF Together, IInv, StreamTellsTruth
    <3> QED
      BY <3>1, <3>2, <3>4, <3>5
  <2>2. /\ UNCHANGED <<request, stage, sent, unplugged>>
        /\ \/ /\ pc' = "free" /\ refusals' = 0 /\ got' = got /\ Len(w) = 3
              /\ Finish([ok |-> TRUE, words |-> Tail(w)], FALSE)
           \/ /\ pc' = pc /\ refusals' = refusals /\ got' = w /\ ~Fatal(w[1])
              /\ Len(w) # 3 /\ answer' = answer
    BY <1>4, <1>5, <1>9, <2>1 DEF DrainEnds, Finish
  <2>3. CASE Len(w) = 3
    <3>1. w = outStream
      BY <1>1, <1>3, <2>1, <2>3
    <3>0. outIdx + 1 >= Len(outStream)
      <4>1. outIdx + 1 = 3
        BY <1>3, <2>3
      <4>2. Len(outStream) = 3
        BY <2>1
      <4> QED
        BY <4>1, <4>2
    <3>2. phase' = "idle" /\ presented' = Floating
      BY <1>7, <3>0
    <3>3. InStep'
      BY <1>6, <1>7, <2>2, <2>3, <3>2 DEF Together, InStep, AtIdle, AtFirst, AtCommand, AtAccept, AtWrite, AtPostWrite,
         AtStatus, AtRead, Level, Flagged, RejectIsNear, Failing, Raised
    <3>4. DriverOK' /\ GotOK'
      BY <2>2, <2>3 DEF Together, DriverOK, GotOK, Raised
    <3>5. Refusing'
      BY <2>2, <2>3 DEF Refusing
    <3>6. Finish([ok |-> TRUE, words |-> Tail(outStream)], FALSE)
      BY <2>2, <2>3, <3>1 DEF Finish
    <3> QED
      BY Zenon, <1>9, <2>1, <3>3, <3>4, <3>5, <3>6
  <2>4. CASE Len(w) # 3
    <3>1. phase' = "readData"
      BY <1>1, <1>3, <1>7, <2>1, <2>4
    <3>2. Serving'
      BY <1>0, <1>3, <1>7, <2>2, <2>4 DEF Serving, CommandSent, CommandBlock
    <3>3. AtRead'
      BY <1>1, <1>7, <1>9, <3>1, <3>2 DEF AtRead
    <3>4. InStep'
      BY <1>0, <1>6, <1>7, <2>2, <2>4, <3>1, <3>3 DEF Together, InStep, AtIdle, AtFirst, AtCommand, AtAccept, AtWrite, AtPostWrite,
         AtStatus, Level, Flagged, RejectIsNear, Failing, Raised
    <3>5. DriverOK' /\ GotOK'
      BY <1>0, <1>3, <2>1, <2>2, <2>4 DEF Together, DriverOK, GotOK, Raised
    <3>6. Refusing'
      BY <1>0, <1>6, <1>7, <2>2, <2>4, <3>2 DEF Together, Refusing
    <3> QED
      BY <2>2, <2>4, <3>4, <3>5, <3>6
  <2> QED
    BY <2>3, <2>4
<1> QED
  BY <1>1, <1>8, <1>9

\* Every step keeps the agreement
LEMMA TogetherStep ==
  ASSUME Together, [SystemNext]_vars
  PROVE  Together'
<1>1. IInv'
  <2>1. [Next]_driveVars
    BY DriverIsHost DEF Together
  <2> QED
    BY <2>1, StepInv DEF Together
<1>2. ASSUME NEW r \in Requests, Submit(r) PROVE DriverOK' /\ GotOK' /\ InStep' /\ Refusing'
  BY <1>2, SubmitTogether
<1>3. CASE ClearBusyFlag \/ RaiseCMD \/ Sense \/ Proceed \/ Refuse
  BY <1>1, <1>3, ClearFlagTogether, RaiseTogether, SenseTogether, ProceedTogether, RefuseTogether DEF Together
<1>4. CASE Drop \/ DropFailed \/ Send \/ Fill \/ Park \/ TimeOut
  BY <1>1, <1>4, DropTogether, DropFailedTogether, SendTogether, FillTogether, ParkTogether,
     TimeOutTogether DEF Together
<1>5. CASE Drain
  BY <1>1, <1>5, DrainWhere, DrainIdle, DrainStatus, DrainRead DEF Together
<1>6. CASE Completion /\ UNCHANGED driverVars
  BY <1>1, <1>6, EventTogether DEF Completion, Together
<1>7. CASE Plug \/ MachineReset
  BY <1>1, <1>7, PlugTogether, MachineResetTogether DEF Together
<1>8. CASE UNCHANGED vars
  <2>1. UNCHANGED <<media, handshake, command, stream, writeAccum, lastStatus>>
        /\ UNCHANGED driverVars /\ ifrCA1' = ifrCA1
    BY <1>8 DEF vars, driveVars, media, handshake, command, stream
  <2> QED
    BY <1>1, <2>1, EventTogether DEF Together
<1> QED
  BY <1>1, <1>2, <1>3, <1>4, <1>5, <1>6, <1>7, <1>8 DEF SystemNext, DriverStep, Together

(* The driver is software: with it at the other end of the cable the drive *)
(* is the drive, and all that is proved of it for any host holds.          *)
THEOREM SystemImplementsDrive == SystemSpec => Spec
<1>1. SystemInit => Init
  BY DEF SystemInit
<1>2. Together /\ [SystemNext]_vars => Together'
  BY TogetherStep
<1>3. Together /\ [SystemNext]_vars => [Next]_driveVars
  BY DriverIsHost DEF Together
<1> QED
  BY <1>1, <1>2, <1>3, TogetherInit, PTL DEF SystemSpec, Spec

(* A drive that was left in the middle of a stream, by a fatal status or   *)
(* by a reset of the machine with a rejected command, refuses one request  *)
(* and no second one (handleReply rewinds the drive).                      *)
THEOREM OneRefusalResynchronisesHolds == SystemSpec => []OneRefusalResynchronises
<1>1. Together => OneRefusalResynchronises
  BY DEF Together, Refusing, OneRefusalResynchronises
<1>2. Together /\ [SystemNext]_vars => Together'
  BY TogetherStep
<1> QED
  BY <1>1, <1>2, TogetherInit, PTL DEF SystemSpec


-----------------------------------------------------------------------------
(* The block device. The image files are functions, changed in one place.  *)
Files == store = [i \in Images |-> store[i]]

\* which no step changes in more places
LEMMA FilesStep ==
  ASSUME IInv, Files, [Next]_driveVars
  PROVE  Files'
<1>1. ASSUME UNCHANGED store PROVE Files'
  BY <1>1 DEF Files
<1>2. CASE Reset \/ Detach \/ ClearFlag \/ Completion \/ readIRA \/ \E i \in Images : Attach(i)
  BY <1>1, <1>2 DEF Reset, Detach, ClearFlag, Completion, readIRA, advanceDataStream, Attach, media, driveVars
<1>3. ASSUME NEW asserted \in BOOLEAN, portBWrite(asserted) PROVE Files'
  BY <1>1, <1>3 DEF portBWrite, media, driveVars
<1>4. ASSUME NEW v \in Replies, writePORTA(v) PROVE Files'
  BY <1>1, <1>4 DEF writePORTA, handleReply, proceed, openCommand, beginTransferAfterAccept, RejectTransfer,
     WriteTransfer, ReadTransfer, postWriteStatus, driveVars, media
<1>5. ASSUME NEW v \in Words, writeORA(v) PROVE Files'
  <2>1. CASE UNCHANGED driveVars
    BY <1>1, <2>1 DEF driveVars
  <2>2. CASE CommandWord(v)
    BY <1>1, <2>2 DEF CommandWord, media
  <2>3. CASE WriteWord(v)
    <3>1. UNCHANGED store \/ commitWrite(Received)
      BY <2>3 DEF WriteWord
    <3>2. UNCHANGED store \/ \E c : store' = [store EXCEPT ![image][pendingBlock] = c]
      BY <3>1 DEF commitWrite
    <3>3. DOMAIN store = Images
      BY DEF IInv, TypeOK, DataOK
    <3> QED
      BY <1>1, <3>2, <3>3 DEF Files
  <2> QED
    BY <1>5, <2>1, <2>2, <2>3 DEF writeORA
<1>6. CASE UNCHANGED driveVars
  BY <1>1, <1>6 DEF driveVars
<1> QED
  BY <1>2, <1>3, <1>4, <1>5, <1>6 DEF Next

(* What a commit makes of the files: a write of the request, perhaps half. *)
LEMMA CommitIsWrite ==
  ASSUME IInv, Files, image \in Images, NEW new \in Contents, commitWrite(new)
  PROVE  \/ UNCHANGED store
         \/ /\ pendingBlock \in ValidBlocks(image)
            /\ \E c \in {new, [store[image][pendingBlock] EXCEPT !.data = new.data]} :
                  store' = [store EXCEPT ![image][pendingBlock] = c]
<1>1. CASE pendingBlock < BlockCount[image]
  <2>1. pendingBlock \in ValidBlocks(image)
    BY <1>1 DEF IInv, TypeOK, DataOK, ValidBlocks
  <2>2. PICK c \in Torn(store[image][pendingBlock], new) :
           store' = [store EXCEPT ![image][pendingBlock] = c]
    <3>1. new \in Torn(store[image][pendingBlock], new)
      BY DEF Torn
    <3>2. \/ store' = [store EXCEPT ![image][pendingBlock] = new]
          \/ \E c \in Torn(store[image][pendingBlock], new) :
                store' = [store EXCEPT ![image][pendingBlock] = c]
      <4>1. pendingBlock \in Nat /\ BlockCount[image] \in Nat
        BY WidgetAssumption DEF IInv, TypeOK, DataOK
      <4>2. ~(pendingBlock >= BlockCount[image])
        BY <1>1, <4>1
      <4> QED
        BY <4>2 DEF commitWrite
    <3> QED
      BY Zenon, <3>1, <3>2
  <2>3. CASE c = store[image][pendingBlock]
    <3>1. store[image] \in [ValidBlocks(image) -> Contents] /\ DOMAIN store = Images
      BY DEF IInv, TypeOK, DataOK
    <3>2. [store[image] EXCEPT ![pendingBlock] = c] = store[image]
      BY <2>3, <3>1
    <3>3. store' = [store EXCEPT ![image] = store[image]]
      BY <2>2, <3>2
    <3> QED
      BY <3>1, <3>3 DEF Files
  <2> QED
    BY <2>1, <2>2, <2>3 DEF Torn
<1>2. CASE ~(pendingBlock < BlockCount[image])
  BY <1>2 DEF commitWrite
<1> QED
  BY <1>1, <1>2

\* The initial states are those of a block device
LEMMA DeviceInit == SystemInit => Device!Init
  BY DEF SystemInit, Init, Device!Init, Device!Blocks, Device!Failure, ValidBlocks, Blank, Failure

\* The last word of a stream is the write of a block device, the others nothing to it
LEMMA FillIsWrite ==
  ASSUME Together, Files, Fill
  PROVE  UNCHANGED Device!vars \/ Device!Write
<1> DEFINE v == WriteStream[sent + 1]
<1>1. /\ UNCHANGED <<request, answer, unplugged>> /\ pc = "fill" /\ pc' \in {"fill", "park"}
      /\ writeORA(v) /\ v \in Words
      /\ request.op = "write" /\ sent \in 0 .. 1 /\ request \in Requests
  BY SentAreWords DEF Fill, Goto, Together, DriverOK
<1>2. CASE UNCHANGED <<store, image>>
  BY <1>1, <1>2 DEF Device!vars
<1>3. CASE ~(UNCHANGED <<store, image>>)
  <2>1. /\ image # NoImage /\ WriteWord(v) /\ phase = "writeData"
    BY <1>1, <1>3 DEF writeORA, driveVars, CommandWord, WriteWord, media
  <2>2. /\ image \in Images /\ image' = image /\ writeAccum \in Seq(Words) /\ Len(writeAccum) = sent
        /\ \A i \in 1 .. sent : writeAccum[i] = WriteStream[i]
        /\ commandAccum[2] = request.block /\ pendingBlock = request.block
    BY <2>1 DEF WriteWord, Together, IInv, TypeOK, DataOK, PhaseAgreement, InStep, AtWrite, CommandSent, CommandBlock
  <2>3. /\ Len(writeAccum') = 2 /\ commitWrite(Received)
    BY <1>3, <2>1, <2>2 DEF WriteWord
  <2>4. /\ Len(writeAccum') = sent + 1
        /\ \A i \in 1 .. sent + 1 : writeAccum'[i] = WriteStream[i]
    <3>1. sent \in Nat /\ writeAccum' = Append(writeAccum, v)
      BY <1>1, <2>1 DEF WriteWord
    <3> QED
      BY <1>1, <2>2, <3>1, AppendedPrefix
  <2>5. writeAccum'[1] = request.tag /\ writeAccum'[2] = request.data
    BY <1>1, <2>3, <2>4 DEF WriteStream
  <2> DEFINE new == [tag |-> request.tag, data |-> request.data]
  <2>6. Received = new /\ new \in Contents
    BY <1>1, <2>5, RequestWords DEF Received, Contents, Together
  <2>7. commitWrite(new)
    BY <2>3, <2>6 DEF commitWrite
  <2> HIDE DEF new
  <2>8. \/ UNCHANGED store
        \/ /\ pendingBlock \in ValidBlocks(image)
           /\ \E c \in {new, [store[image][pendingBlock] EXCEPT !.data = new.data]} :
                 store' = [store EXCEPT ![image][pendingBlock] = c]
    BY <2>2, <2>6, <2>7, CommitIsWrite DEF Together
  <2>9. pc # "free" /\ pc' # "free" /\ request # NoRequest
    BY <1>1, SystemAssumption
  <2> QED
    BY <1>1, <1>3, <2>1, <2>2, <2>8, <2>9 DEF Device!Write, Device!Contents, Device!Blocks, ValidBlocks, new
<1> QED
  BY <1>2, <1>3

\* The last word drained is its answer
LEMMA DrainIsAnswer ==
  ASSUME Together, Drain
  PROVE  UNCHANGED Device!vars \/ Device!Fail \/ Device!Read \/ Device!Written \/ Device!ReadPulled
<1>0. pc = "drain" /\ request \in Requests /\ request # NoRequest /\ UNCHANGED <<store, image>>
  BY SystemAssumption, DrainWhere DEF Drain, readIRA, advanceDataStream, driveVars, media
<1>1. ASSUME Finish(Failure, FALSE) PROVE Device!Fail
  BY <1>0, <1>1 DEF Finish, Failure, Device!Fail, Device!Answer, Device!Failure
<1>2. CASE phase = "readData"
  <2>1. ASSUME UNCHANGED <<pc, answer, unplugged, request>> PROVE UNCHANGED Device!vars
    BY <1>0, <2>1 DEF Device!vars
  <2>2. ASSUME outStream[1] = OkStatus, request.op = "read",
               Finish([ok |-> TRUE, words |-> Tail(outStream)], FALSE)
        PROVE  Device!Read
    <3>1. image # NoImage /\ pendingBlock = request.block
      BY <1>0, <1>2, DrainWhere DEF Together, IInv, PhaseAgreement, Serving, CommandSent, CommandBlock
    <3>2. answer' = [ok |-> TRUE, words |-> Tail(outStream)] /\ pc' = "free" /\ unplugged' = unplugged
      BY <2>2 DEF Finish
    <3>3. CASE pendingBlock = DeviceInfoBlock /\ outStream = <<OkStatus, Zeros, BlockCount[image]>>
      <4>1. Tail(outStream) = <<0, BlockCount[image]>>
        BY <3>3
      <4> QED
        BY <1>0, <2>2, <3>1, <3>2, <3>3, <4>1 DEF Device!Read, Device!Answer
    <3>4. CASE /\ pendingBlock \in ValidBlocks(image)
               /\ outStream = <<OkStatus, store[image][pendingBlock].tag, store[image][pendingBlock].data>>
      <4>1. Tail(outStream) = <<store[image][pendingBlock].tag, store[image][pendingBlock].data>>
        BY <3>4
      <4> QED
        BY <1>0, <2>2, <3>1, <3>2, <3>4, <4>1 DEF Device!Read, Device!Answer, Device!Blocks, ValidBlocks
    <3> QED
      BY <1>2, <2>2, <3>3, <3>4 DEF Together, IInv, StreamTellsTruth
  <2> QED
    BY <1>1, <1>2, <2>1, <2>2, DrainRead
<1>3. CASE phase = "postWriteStat"
  <2>1. ASSUME lastStatus = OkStatus, Finish([ok |-> TRUE, words |-> <<>>], FALSE)
        PROVE  Device!Written
    <3>1. /\ image # NoImage /\ request.op = "write"
          /\ pendingBlock = request.block /\ writeAccum[1] = request.tag /\ writeAccum[2] = request.data
      BY <1>3 DEF Together, IInv, PhaseAgreement, InStep, AtStatus, CommandSent, CommandBlock,
         StreamSent, WriteStream
    <3>2. /\ pendingBlock \in ValidBlocks(image)
          /\ store[image][pendingBlock] = [tag |-> writeAccum[1], data |-> writeAccum[2]]
      BY <1>3, <2>1 DEF Together, IInv, StatusNeverLies
    <3>3. answer' = [ok |-> TRUE, words |-> <<>>] /\ pc' = "free" /\ unplugged' = unplugged
      BY <2>1 DEF Finish
    <3> QED
      BY <1>0, <3>1, <3>2, <3>3 DEF Device!Written, Device!Answer, Device!Contents, Device!Blocks, ValidBlocks
  <2> QED
    BY <1>1, <1>3, <2>1, DrainStatus
<1>4. CASE phase = "idle"
  <2> DEFINE w == Append(got, Floating)
  <2>0. unplugged /\ portAInput = Floating /\ got \in Seq(Nat)
    BY <1>4, DrainWhere
  <2>1. /\ w \in Seq(Nat) /\ Tail(w) \in Seq(Nat) /\ (got = <<>> => w[1] = Floating)
    <3>1. got = <<>> => Len(got) = 0
      OBVIOUS
    <3> QED
      BY <2>0, <3>1, WordDrained
  <2> HIDE DEF w
  <2>2. DrainEnds(w)
    BY <2>0, DrainDrains DEF w
  <2>3. ~Fatal(w[1]) => request.op = "read"
    <3>1. got = <<>> => Fatal(w[1])
      BY <2>1 DEF Fatal
    <3> QED
      BY <1>0, <3>1 DEF Together, DriverOK
  <2>4. CASE Fatal(w[1]) /\ Finish(Failure, FALSE)
    BY <1>1, <2>4
  <2>5. CASE ~Fatal(w[1]) /\ Finish([ok |-> TRUE, words |-> Tail(w)], FALSE)
    <3>1. answer' = [ok |-> TRUE, words |-> Tail(w)] /\ pc' = "free" /\ unplugged' = unplugged
      BY <2>5 DEF Finish
    <3>2. answer' \in [ok : {TRUE}, words : Seq(Nat)]
      BY <2>1, <3>1
    <3> QED
      BY <1>0, <2>0, <2>3, <2>5, <3>1, <3>2 DEF Device!ReadPulled
  <2>6. CASE UNCHANGED <<pc, answer, unplugged, request>>
    BY <1>0, <2>6 DEF Device!vars
  <2> QED
    BY <2>2, <2>4, <2>5, <2>6 DEF DrainEnds
<1> QED
  BY <1>2, <1>3, <1>4, DrainWhere

(* Between its answers and its writes the system does not disturb the      *)
(* device: no step of a handshake touches a block, the request or a disk.  *)
LEMMA SendKeepsFiles ==
  ASSUME Together, Send
  PROVE  UNCHANGED <<store, image>>
<1>1. pc = "send" /\ writeORA(CommandBlock[sent + 1])
  BY DEF Send
<1>2. phase # "writeData"
  BY <1>1 DEF Together, InStep, AtWrite
<1> QED
  BY <1>1, <1>2 DEF writeORA, CommandWord, WriteWord, driveVars, media

\* Every step is one of a block device or leaves it alone
LEMMA DeviceStep ==
  ASSUME Together, Files, [SystemNext]_vars
  PROVE  [Device!Next]_(Device!vars)
<1> USE DEF driveVars, media, Goto
<1>0. pc # "free" => request # NoRequest
  BY SystemAssumption DEF Together, DriverOK
<1>1. ASSUME UNCHANGED <<store, image, request, answer, unplugged>>, pc' = "free" <=> pc = "free"
      PROVE  UNCHANGED Device!vars
  BY <1>1 DEF Device!vars
<1>2. ASSUME pc # "free", UNCHANGED <<store, image>>, NEW b \in BOOLEAN, Finish(Failure, b)
      PROVE  Device!Fail
  BY <1>0, <1>2 DEF Finish, Failure, Device!Fail, Device!Answer, Device!Failure
<1>3. ASSUME NEW r \in Requests, Submit(r) PROVE Device!Submit(r)
  BY <1>3 DEF Submit, Device!Submit
<1>4. CASE ClearBusyFlag
  BY <1>1, <1>4 DEF ClearBusyFlag, ClearFlag
<1>5. CASE RaiseCMD
  BY <1>1, <1>5 DEF RaiseCMD, portBWrite
<1>6. CASE Sense
  BY <1>1, <1>6 DEF Sense
<1>7. CASE Proceed \/ Refuse
  <2>1. /\ UNCHANGED <<request, answer, unplugged>> /\ pc # "free" /\ pc' # "free"
        /\ \E v \in {ReplyProceed, Zeros} : writePORTA(v)
    BY <1>7 DEF Proceed, Refuse
  <2>2. UNCHANGED <<store, image>>
    BY <2>1 DEF writePORTA, handleReply, proceed, openCommand, beginTransferAfterAccept, RejectTransfer,
       WriteTransfer, ReadTransfer, postWriteStatus
  <2> QED
    BY <1>1, <2>1, <2>2
<1>8. CASE Drop
  <2>1. stage \in 1 .. 3
    BY <1>8 DEF Drop, Together, DriverOK
  <2>2. UNCHANGED <<store, image, request, answer, unplugged>> /\ pc = "drop"
    BY <1>8 DEF Drop, portBWrite
  <2>3. pc' \in {"send", "fill", "park", "drain"}
    BY <1>8, <2>1 DEF Drop
  <2> QED
    BY <1>1, <2>2, <2>3
<1>9. CASE DropFailed
  <2>1. pc # "free" /\ UNCHANGED <<store, image>> /\ Finish(Failure, pc = "dropRefused")
    BY <1>9 DEF DropFailed, portBWrite
  <2>2. Device!Fail
    <3>1. CASE pc = "dropRefused"
      BY <1>2, <2>1, <3>1
    <3>2. CASE pc # "dropRefused"
      BY <1>2, <2>1, <3>2
    <3> QED
      BY <3>1, <3>2
  <2> QED
    BY <2>2 DEF Device!Next
<1>10. CASE Send
  <2>1. UNCHANGED <<request, answer, unplugged>> /\ pc # "free" /\ pc' # "free"
    BY <1>10 DEF Send, NextStage
  <2> QED
    BY <1>1, <1>10, <2>1, SendKeepsFiles
<1>11. CASE Park
  BY <1>1, <1>11 DEF Park, NextStage
<1>12. CASE TimeOut
  <2>1. UNCHANGED <<store, image>> /\ pc # "free"
    BY <1>12 DEF TimeOut
  <2>2. (UNCHANGED <<request, answer, unplugged>> /\ pc' # "free") \/ Finish(Failure, FALSE)
    BY <1>12 DEF TimeOut
  <2>3. CASE Finish(Failure, FALSE)
    <3>1. Device!Fail
      BY <1>2, <2>1, <2>3
    <3> QED
      BY <3>1 DEF Device!Next
  <2>4. CASE UNCHANGED <<request, answer, unplugged>> /\ pc' # "free"
    BY <1>1, <2>1, <2>4
  <2> QED
    BY <2>2, <2>3, <2>4
<1>13. CASE Completion /\ UNCHANGED driverVars
  BY <1>1, <1>13 DEF Completion, driverVars
<1>14. CASE Plug
  <2>1. image' \in Images \cup {NoImage} /\ store' = store
    BY <1>14 DEF Plug, Attach, Detach
  <2>2. unplugged' = TRUE /\ UNCHANGED <<pc, request, answer>>
    BY <1>14 DEF Plug
  <2> QED
    BY <2>1, <2>2 DEF Device!Plug, Device!Next
<1>15. CASE MachineReset
  <2>1. UNCHANGED <<store, image>>
    BY <1>15 DEF MachineReset, Reset
  <2> QED
    BY <1>15, <2>1 DEF MachineReset, Device!Restart, Device!Next
<1>16. CASE UNCHANGED vars
  BY <1>1, <1>16 DEF vars, driverVars
<1>17. CASE Fill
  BY <1>17, FillIsWrite DEF Device!Next
<1>18. CASE Drain
  BY <1>18, DrainIsAnswer DEF Device!Next
<1> QED
  BY <1>3, <1>4, <1>5, <1>6, <1>7, <1>8, <1>9, <1>10, <1>11, <1>12, <1>13, <1>14, <1>15, <1>16, <1>17, <1>18
     DEF SystemNext, DriverStep, Device!Next

(* The drive behind its driver is a disk of blocks: what the requests see  *)
(* of the two of them, step by step, is what BlockDevice.tla promises.     *)
THEOREM ImplementsBlockDeviceHolds == SystemSpec => ImplementsBlockDevice
<1> DEFINE TInv == Together /\ Files
<1>1. SystemInit => TInv
  BY TogetherInit DEF SystemInit, Init, Files
<1>2. TInv /\ [SystemNext]_vars => TInv'
  <2> SUFFICES ASSUME TInv, [SystemNext]_vars PROVE TInv'
    OBVIOUS
  <2>1. [Next]_driveVars
    BY DriverIsHost DEF Together
  <2> QED
    BY <2>1, TogetherStep, FilesStep DEF Together
<1>3. TInv /\ [SystemNext]_vars => [Device!Next]_(Device!vars)
  BY DeviceStep
<1> QED
  BY <1>1, <1>2, <1>3, DeviceInit, PTL DEF SystemSpec, ImplementsBlockDevice, Device!Spec
=============================================================================
