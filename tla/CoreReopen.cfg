\* One chunk, defragmented before and after a restart
CONSTANTS
    NumChunks = 1
    Key = {k1, k2}
    ChunkOf <- FirstChunk
    BufferSize = 1
    MaxRev = 1
    Stamp = {}
    Goroutines = {}
    Restarts = TRUE
    nil = nil
SPECIFICATION Spec
INVARIANT ReopenedReadable
