------------------------------- MODULE COPSSender -------------------------------
(***************************************************************************)
(* COPS.tla with the software that talks to it. A sender sends the bytes   *)
(* of Program one after the other, by the routine of the boot ROM or by    *)
(* COPSCMD of the Lisa OS; an interrupt handler takes the input bytes.     *)
(* Both are 68000 code and not part of this repository: they are modelled  *)
(* from the disassembly in the header comment of COPS.swift, and           *)
(* osCOPSCMDRetryThenPollThenDropSequenceCompletes in COPSTests.swift.     *)
(***************************************************************************)
EXTENDS COPS, SequencesExt

CONSTANTS
    Program,    \* the bytes sent: a set sequence, $02 and $21 in the runs
    Routines,   \* the send routines: "ROM", "COPSCMD" or both
    Checks,     \* reads of the ready line in Phase B of COPSCMD: 14
    MaxPosts,   \* bound: packets posted by the shell since the reset
    MaxWipes,   \* bound: blanket IFR writes since the reset (driver start)
    MaxResets   \* bound: resets of the machine

ASSUME SenderAssumption ==
    /\ Program \in Seq(Commands) /\ Program # <<>>
    /\ Routines \subseteq {"ROM", "COPSCMD"}
    /\ Checks \in Nat \ {0}
    /\ MaxPosts \in Nat /\ MaxWipes \in Nat /\ MaxResets \in Nat

VARIABLES
    routine,  \* the routine of the running software
    sent,     \* commands whose send routine has returned
    phase,    \* what the routine does next
    checks,   \* reads made in Phase B
    executed, \* history: commands carried out since the reset
    posts, wipes, resets

senderVars  == <<routine, sent, phase, checks>>
historyVars == <<executed, posts, wipes, resets>>
vars        == <<copsVars, senderVars, historyVars>>

NextPhase == IF sent + 1 = Len(Program) THEN "done" ELSE "write"

Sent ==
    /\ sent' = sent + 1
    /\ phase' = NextPhase
    /\ checks' = 0
    /\ UNCHANGED routine

-----------------------------------------------------------------------------
(* Step 1 of both routines: the byte is written.                           *)
Send ==
    /\ phase \in {"write", "rewrite"}
    /\ WriteCommand(Program[sent + 1])
    /\ phase' = IF routine = "ROM" THEN "low" ELSE "test"
    /\ UNCHANGED <<routine, sent, checks, historyVars>>

(* Boot ROM: poll until the line is low, then until it is high again.      *)
PollLow ==
    /\ phase = "low"
    /\ ReadPortB
    /\ phase' = IF ReadsReady THEN "low" ELSE "high"
    /\ UNCHANGED <<routine, sent, checks, historyVars>>

PollHigh ==
    /\ phase = "high"
    /\ ReadPortB
    /\ IF ReadsReady THEN Sent ELSE UNCHANGED senderVars
    /\ UNCHANGED historyVars

(* Its polls run out when the drop was over before it was seen: the error  *)
(* return.                                                                 *)
Timeout ==
    /\ phase = "low"
    /\ ReadsReady /\ acks = <<>>
    /\ phase' = "failed"
    /\ UNCHANGED <<copsVars, routine, sent, checks, historyVars>>

(* COPSCMD, Phase A: the write is repeated until the line reads ready just *)
(* after it.                                                               *)
Test ==
    /\ phase = "test"
    /\ ReadPortB
    /\ phase' = IF ReadsReady THEN "check" ELSE "rewrite"
    /\ UNCHANGED <<routine, sent, checks, historyVars>>

(* COPSCMD, Phase B: the drop is awaited for some reads; then Phase A is   *)
(* entered again. The routine returns without waiting for the rise.        *)
Check ==
    /\ phase = "check"
    /\ ReadPortB
    /\ IF ~ReadsReady
         THEN Sent
         ELSE IF checks + 1 < Checks
                THEN checks' = checks + 1 /\ UNCHANGED <<routine, sent, phase>>
                ELSE checks' = 0 /\ phase' = "rewrite" /\ UNCHANGED <<routine, sent>>
    /\ UNCHANGED historyVars

Sender == power = "on" /\ (Send \/ PollLow \/ PollHigh \/ Timeout \/ Test \/ Check)

(* The interrupt handler: a handshake read while the flag is up.           *)
Handler ==
    /\ power = "on"
    /\ ifr
    /\ ReadPortA
    /\ UNCHANGED <<senderVars, historyVars>>

(* A driver clears all its flags while it starts.                          *)
DriverStart ==
    /\ power = "on"
    /\ wipes < MaxWipes
    /\ WipeFlag
    /\ wipes' = wipes + 1
    /\ UNCHANGED <<senderVars, executed, posts, resets>>

-----------------------------------------------------------------------------
(* The acknowledgement of a write. Its command is noted in the history,    *)
(* where the repeats COPSCMD asks for count once.                          *)
Repeats(c) == executed # <<>> /\ Last(executed) = c

Carry ==
    /\ power # "off"
    /\ Acknowledge
    /\ executed' = IF routine = "COPSCMD" /\ Repeats(Head(acks))
                     THEN executed
                     ELSE Append(executed, Head(acks))
    /\ UNCHANGED <<senderVars, posts, wipes, resets>>

Delivery == power # "off" /\ Deliver /\ UNCHANGED <<senderVars, historyVars>>

Timer == power # "off" /\ Reassert /\ UNCHANGED <<senderVars, historyVars>>

Post ==
    /\ posts < MaxPosts
    /\ \E p \in ShellPackets : PostInput(p)
    /\ posts' = posts + 1
    /\ UNCHANGED <<senderVars, executed, wipes, resets>>

(* A reset starts the software anew.                                       *)
Restart ==
    /\ resets < MaxResets
    /\ resets' = resets + 1
    /\ Reset
    /\ routine' \in Routines
    /\ sent' = 0 /\ phase' = "write" /\ checks' = 0
    /\ executed' = <<>> /\ posts' = 0 /\ wipes' = 0

SystemInit ==
    /\ Init
    /\ routine \in Routines
    /\ sent = 0 /\ phase = "write" /\ checks = 0
    /\ executed = <<>> /\ posts = 0 /\ wipes = 0 /\ resets = 0

SystemNext ==
    \/ Sender
    \/ Handler
    \/ DriverStart
    \/ Carry
    \/ Delivery
    \/ Timer
    \/ Post
    \/ Restart
    \/ DrainEnds /\ UNCHANGED <<senderVars, historyVars>>

(* Fairness: the machine runs its due events, and the software goes on.    *)
SystemSpec ==
    /\ SystemInit
    /\ [][SystemNext]_vars
    /\ WF_vars(Carry) /\ WF_vars(Delivery) /\ WF_vars(Timer)
    /\ WF_vars(Handler) /\ WF_vars(Sender)

-----------------------------------------------------------------------------
Written     == IF phase \in {"write", "done"} THEN sent ELSE sent + 1
SentSoFar   == SubSeq(Program, 1, Written)
CarriedOut  == executed \o acks    \* or about to be

(* Merging(s)[i] is the first i elements of s without immediate repeats.   *)
Merging(s) ==
    LET m[i \in 0 .. Len(s)] ==
          IF i = 0 THEN <<>>
          ELSE IF i > 1 /\ s[i] = s[i - 1] THEN m[i - 1]
          ELSE Append(m[i - 1], s[i])
    IN  m
Merged(s) == Merging(s)[Len(s)]

(* Every command sent is carried out, in the order sent, whichever routine *)
(* sends it: none is lost in the acknowledgements, repeated but by its own *)
(* rewrites, or left over from before a reset. The ROM, which waits for    *)
(* the line to rise, has each carried out exactly once.                    *)
CommandsExecuteInOrder ==
    /\ Merged(CarriedOut) = Merged(SentSoFar)
    /\ routine = "ROM" => CarriedOut = SentSoFar

(* The clock that was set is the clock that is read back: the last         *)
(* ClockNibbles nibbles between $2C and $25 ("Once set, every subsequent   *)
(* $02 read returns THIS value", COPS.swift:440).                          *)
IsNibble(c)   == c \in NibbleBase .. NibbleBase + 15
SetEnd        == CHOOSE e \in DOMAIN Program : Program[e] = EnableClock
IntendedClock == [n \in 1 .. ClockNibbles |->
                    Program[SetEnd - ClockNibbles - 1 + n] - NibbleBase]

(* A program that sets the clock, once, to all of its nibbles.             *)
SetsTheClock ==
    \E s, e \in DOMAIN Program :
       /\ Program[s] = PrepSetClock /\ Program[e] = EnableClock
       /\ s + ClockNibbles < e
       /\ \A n \in s + 1 .. e - 1 : IsNibble(Program[n])
       /\ \A n \in DOMAIN Program \ {e} : Program[n] # EnableClock
       /\ \A n \in DOMAIN Program : n > e => Program[n] # PowerOffClockOff

SetClockReadsBack ==
    EnableClock \in ToSet(executed) => ClockShown = {IntendedClock}

(* It is, when the ROM routine sets it: finishSetSequence keeps the right  *)
(* nibbles, and $21 keeps the clock.                                       *)
PolledSetReadsBack == routine = "ROM" => SetClockReadsBack

(* Every byte comes to the port and is taken from it, although its flag    *)
(* may be wiped at any moment: the re-assert timers raise it again.        *)
EveryByteArrives ==
    /\ inFlight # <<>> ~> byteReady \/ power # "on"
    /\ byteReady ~> ~byteReady \/ power # "on"
=============================================================================
