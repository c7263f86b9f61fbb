SPECIFICATION SystemSpec
CONSTANTS
    i1 = i1
    NoImage = NoImage
    NoRequest = NoRequest
    Images <- MCImages
    BlockCount <- MCBlockCount
    DeviceInfoBlock = 2
    Replies <- MCReplies
    Words <- MCWords
    Requests <- MCRequests
    MaxCompletions = 2
INVARIANT
    OneRefusalResynchronises
    StatusNeverLies
    StreamTellsTruth
PROPERTIES
    ImplementsBlockDevice
    EveryRequestIsAnswered
