\* A chunk of two keys, defragmented twice, under both iterations, and an empty
\* one that comes and goes, over restarts.  BackwardsIterate and the defragmenter
\* can block each other.
CONSTANTS
    NumChunks = 2
    Key = {k1, k2}
    ChunkOf <- FirstChunk
    BufferSize = 1
    MaxRev = 2
    Stamp = {}
    Goroutines = {"list", "transfer", "repair"}
    Restarts = TRUE
    nil = nil
SPECIFICATION Spec
SYMMETRY KeySymmetry
INVARIANTS KnownIsPresent ListIsSnapshot AckedReadable KillSafe TransferDelivers DefragSparesRepair
PROPERTIES OpenKeepsAcked
CHECK_DEADLOCK FALSE
