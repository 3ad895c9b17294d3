\* Two servers; requests fail and servers seem dead
CONSTANTS
    Server = {s1, s2}
    Creator = s1
    Redundancy = 1
    Light = {s2}
    Heavy = {s1, s2}
    Lossy = TRUE
    MaxStale = 1
    MaxTransfers = 1
    none = none
SPECIFICATION Spec
PROPERTIES ReleaseLeavesCopy LossHasCause
