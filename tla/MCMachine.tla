-------------------------------- MODULE MCMachine --------------------------------
(* An instance of Machine for TLC: instructions of one or two cycles,      *)
(* bursts of at most five.                                                 *)
EXTENDS Machine

MCCosts    == {1, 2}
MCSpans    == {6}
MCCommands == {ReadClock, PowerOff}
=============================================================================
