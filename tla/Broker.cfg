SPECIFICATION FairSpec
CONSTANTS
    r1 = r1
    r2 = r2
    none = none
    Req = {r1, r2}
    Op <- ProtectAndSet
    Timeout <- OneShorter
    MaxConn = 2
    MaxFree = 1
    ChannelSize = 2
INVARIANTS OwnResult ConnOpen WaiterKnown QueueSorted
PROPERTY RequestsEnd
CHECK_DEADLOCK FALSE
