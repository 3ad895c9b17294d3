SPECIFICATION HBFairSpec
CONSTANTS
    Server = {n, s1, s2}
    me = n
    Chunk = {c1}
    Checksum = {x1, x2}
    none = none
    MaxChanges = 2
    MaxLosses = 3
INVARIANTS HoldersMatch DeadHoldNothing SynchedIsAgreement CountIsCurrent
PROPERTIES RequestEnds ViewConverges
