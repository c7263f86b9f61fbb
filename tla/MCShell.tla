-------------------------------- MODULE MCShell --------------------------------
(* An instance of Shell for TLC: any two commands of the user, and any     *)
(* command with two frames, without a print; a print that crosses a page   *)
(* (of less than a line feed) while the user pauses, resets or quits; and  *)
(* prints that reset the printer, go backwards, set it up, and send        *)
(* columns whose bytes are a character or a command in other places.       *)
EXTENDS Shell

TwoPages == <<65, LF, 66>>
Draft    == TwoPages \o <<ESC, ResetCmd>>
Backward == <<ESC, ReverseCmd, LF, 65>>
Graphics == <<ESC, GraphicsCmd, 48, 48, 48, 49, 65>>

Setup    == {<<ESC, 68, 0, 0, FF>>,
             <<ESC, LineHeightCmd, 48, 53, LF>>,
             <<ESC, ForwardCmd, ESC, TabCmd, LF, 13>>,
             <<ESC, FastGraphicsCmd, 48, 48, 48, ESC, 110>>}

Scenario(n, commands, f, s) == [user |-> n, may |-> commands, frames |-> f, script |-> s]

MCBytes     == {LF, FF, ESC, GraphicsCmd, FastGraphicsCmd, LineHeightCmd, TabCmd, ForwardCmd,
                ReverseCmd, ResetCmd, 0, 13, 48, 49, 50, 53, 65, 66, 68, 110}
MCScenarios ==
    {Scenario(2, {"toggle", "reset", "throttle", "quit"}, 0, <<>>),
     Scenario(1, {"toggle", "reset", "device", "quit"}, 2, <<>>),
     Scenario(1, {"toggle", "reset", "quit"}, 0, TwoPages)}
      \cup {Scenario(0, {}, 0, s) : s \in {Draft, Backward, Graphics} \cup Setup}
MCQuit      == {Scenario(1, {"quit"}, 0, TwoPages)}
=============================================================================
