\* Two servers that both release; nothing is lost
CONSTANTS
    Server = {s1, s2}
    Creator = s1
    Redundancy = 1
    Light = {s2}
    Heavy = {s1, s2}
    Lossy = FALSE
    MaxStale = 1
    MaxTransfers = 1
    none = none
SPECIFICATION Spec
INVARIANT CopyRemains
