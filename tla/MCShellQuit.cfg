SPECIFICATION Spec
CONSTANTS
    PageLength144 = 12
    IdleWindow = 1
    Wire <- MCBytes
    PublishInterval = 1
    MaxCatchUp = 1
    Scenarios <- MCQuit
    MaxBlocks = 1
INVARIANT
    QuitKeepsThePrint
CHECK_DEADLOCK FALSE
