------------------------------ MODULE MCCOPSSender ------------------------------
(* An instance of COPSSender for TLC: a clock of three nibbles is set by a *)
(* sequence of four (the first is fill), read back, and kept by $21.       *)
EXTENDS COPSSender

MCKeys       == {Marker}
MCMotions    == {1}
MCProgram    == <<PrepSetClock, NibbleBase, NibbleBase + 1, NibbleBase + 2,
                  NibbleBase + 3, EnableClock, ReadClock, PowerOffClockOn>>
MCCommands   == {MCProgram[n] : n \in DOMAIN MCProgram}
MCHostClocks == {<<0, 7, 8>>}
MCRoutines   == {"ROM", "COPSCMD"}
MCOSRoutine  == {"COPSCMD"}

(* The program is one that the theorem about the clock speaks of.          *)
ASSUME ProgramSetsTheClock == SetsTheClock
=============================================================================
