SPECIFICATION SystemSpec
CONSTANTS
    Keys <- MCKeys
    Motions <- MCMotions
    Commands <- MCCommands
    HostClocks <- MCHostClocks
    Program <- MCProgram
    Routines <- MCRoutines
    ClockPairs = 1
    Checks = 2
    MaxQueue = 6
    MaxAcks = 2
    MaxTimers = 2
    MaxPosts = 1
    MaxWipes = 1
    MaxResets = 1
CHECK_DEADLOCK FALSE
INVARIANTS
    CommandsExecuteInOrder
    PolledSetReadsBack
    NeverStalled
    LowLineWillRise
PROPERTIES
    ImplementsStream
    EveryByteArrives
