SPECIFICATION Spec
CONSTANTS
    i1 = i1
    i2 = i2
    NoImage = NoImage
    Images <- MCImages
    BlockCount <- MCBlockCount
    DeviceInfoBlock = 2
    Replies <- MCReplies
    Words <- MCWords
    MaxCompletions = 1
INVARIANT
    OnlyUnsupportedRejected
