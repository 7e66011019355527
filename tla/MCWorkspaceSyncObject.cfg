SPECIFICATION Spec
CONSTANTS
    d1 = d1
    d2 = d2
    g1 = g1
    g2 = g2
    k1 = k1
    k2 = k2
    Device = {d1, d2}
    Digest = {g1, g2}
    Key = {k1, k2}
    Operation <- AllOperations
    Checkpoint <- AllCheckpoints
    Compaction = {c1, c2}
    Quota = 2
    MaxRequests = 2
    NoKey = NoKey
SYMMETRY AnyCompaction
CONSTRAINT Scope
INVARIANT LogServesEveryDevice
INVARIANT DoomedIsUnreferenced
INVARIANT SealedSinceMarker
PROPERTY CompactionKeepsOrder
