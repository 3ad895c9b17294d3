\* One chunk: a Delete, the channel and the defragmenter can each have one of
\* four defragmentations.  BackwardsIterate and the defragmenter can block each
\* other.
CONSTANTS
    NumChunks = 1
    Key = {k1}
    ChunkOf <- FirstChunk
    BufferSize = 1
    MaxRev = 4
    Stamp = {1, 2}
    Goroutines = {"repair"}
    Restarts = FALSE
    nil = nil
SPECIFICATION FairSpec
INVARIANT ProtectionHasTimer
PROPERTIES ProtectionEnds DeleteReturns
CHECK_DEADLOCK FALSE
