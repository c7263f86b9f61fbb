SPECIFICATION Spec
CONSTANTS
    Costs <- MCCosts
    Spans <- MCSpans
    Commands <- MCCommands
    Quantum = 5
    AckDelay = 2
    DeliveryDelay = 1
    FramePeriod = 7
    Divisor = 2
    Radix = 2
    Uses = {"devices", "timer"}
    MaxAcks = 2
INVARIANTS
    TimersCountEveryCycle
    AcksAreFIFO
    FramesOnTime
    InterruptIsVisible
    PowerOffIsPrompt
