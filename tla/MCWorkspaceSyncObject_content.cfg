SPECIFICATION Spec
CONSTANTS
    d1 = d1
    d2 = d2
    g1 = g1
    g2 = g2
    k1 = k1
    k2 = k2
    Device = {d1}
    Digest = {g1, g2}
    Key = {}
    Operation <- ChunkOperations
    Checkpoint <- ChunkCheckpoints
    Compaction = {c1}
    Quota = 2
    MaxRequests = 2
    NoKey = NoKey
INVARIANT ReferencedIsStored
