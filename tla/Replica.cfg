\* Two servers; three writes, or two with a Get and a loss.  The first timestamp
\* is that of an empty value
SPECIFICATION FairSpec
CONSTANTS
    Replica = {a, b}
    Master = a
    Empty = {1}
    checksTillRepair = 2
    LastStamp = 3
    MaxGets = 1
    MaxLosses = 1
INVARIANTS FreshRead CASOnce
PROPERTY Converges
