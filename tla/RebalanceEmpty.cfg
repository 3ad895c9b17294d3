\* Two servers; one gets the chunk, the other releases it
CONSTANTS
    Server = {s1, s2}
    Creator = s1
    Redundancy = 1
    Light = {s2}
    Heavy = {s1}
    Lossy = FALSE
    MaxStale = 1
    MaxTransfers = 1
    none = none
SPECIFICATION Spec
INVARIANT DataRemains
