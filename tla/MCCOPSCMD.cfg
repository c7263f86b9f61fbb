SPECIFICATION SystemSpec
CONSTANTS
    Keys <- MCKeys
    Motions <- MCMotions
    Commands <- MCCommands
    HostClocks <- MCHostClocks
    Program <- MCProgram
    Routines <- MCOSRoutine
    ClockPairs = 1
    Checks = 2
    MaxQueue = 6
    MaxAcks = 3
    MaxTimers = 2
    MaxPosts = 0
    MaxWipes = 2
    MaxResets = 2
CHECK_DEADLOCK FALSE
INVARIANT
    SetClockReadsBack
