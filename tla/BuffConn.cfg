SPECIFICATION FairSpec
CONSTANTS
    MinimumMessageSize = 2
    writeBufferSize = 4
    readBufferSize = 6
    Compact = 3
    Size = {2, 3, 5}
    MaxMsgs = 4
INVARIANT TypeOK
PROPERTIES ImplementsChannel Delivered FlusherEnds
CHECK_DEADLOCK FALSE
