SPECIFICATION Spec
CONSTANTS
    PageLength144 = 12
    IdleWindow = 1
    Wire <- MCBytes
    PublishInterval = 1
    MaxCatchUp = 1
    Scenarios <- MCScenarios
    MaxBlocks = 1
INVARIANTS
    NothingPrintedIsLost
    PacedByTheClock
    MenuIsTrue
PROPERTIES
    JobsEndInSilence
    StopIsShown
    EveryPrintIsHandedOver
    QuitIsJoined
CHECK_DEADLOCK FALSE
