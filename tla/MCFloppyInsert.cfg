SPECIFICATION SystemSpec
CONSTANTS
    d1 = d1
    d2 = d2
    NoDisk = NoDisk
    NoRequest = NoRequest
    NoWord = NoWord
    Disks <- MCDisks
    BlockCount <- MCBlockCount
    Original <- MCOriginal
    Words <- MCWords
    GoBytes <- MCGoBytes
    Requests <- MCRequests
    MaxRaises = 2
    MaxHands = 2
    MaxResets = 1
PROPERTY
    InsertionIsNoticed
CHECK_DEADLOCK FALSE
