------------------------ MODULE MCWorkspaceSyncObject ------------------------
(* Two devices, up to two chunks and two keys against one workspace object.  *)
(* The run service explores three instances of it, one after another in one  *)
(* state graph: each state lies within one of the three scopes below.        *)
EXTENDS WorkspaceSyncObject, TLC

CONSTANTS d1, d2, g1, g2, k1, k2

Op(d, n, g, seal) == [device |-> d, client |-> n, digest |-> g, seal |-> seal]
At(s, g, seal) == [seq |-> s, digest |-> g, seal |-> seal]

\* Retries, a lagging device and a log that is compacted more than once
LogOperations == {Op(d1, 1, g1, NoKey), Op(d1, 2, g1, NoKey),
                  Op(d2, 1, g1, NoKey)}
LogCheckpoints == {At(1, g1, NoKey), At(2, g1, NoKey), At(3, g1, NoKey)}

\* Chunks that operations and checkpoints share, reuse and let go
ChunkOperations == {Op(d1, 1, g1, NoKey), Op(d1, 2, g1, NoKey)}
ChunkCheckpoints == {At(1, g2, NoKey), At(2, g1, NoKey)}

\* Two devices enable encryption, a third kind of content stays plain
SealedOperations == {Op(d1, 1, g1, NoKey), Op(d1, 1, g1, k1),
                     Op(d2, 1, g1, k2), Op(d2, 2, g1, NoKey)}
SealedCheckpoints == {At(1, g1, NoKey), At(2, g1, k1)}

AllOperations == LogOperations \cup ChunkOperations \cup SealedOperations
AllCheckpoints == LogCheckpoints \cup ChunkCheckpoints \cup SealedCheckpoints

Within(devices, operations, records, digests, keys, compactions, requests) ==
    /\ \A d \in Device \ devices : cursors[d] = NoCursor
    /\ pushing \cup Range(accepted) \subseteq operations
    /\ publishing \cup checkpoints \subseteq records
    /\ \A g \in Digest \ digests :
         g \notin stored \cup sized /\ uploading[g] = "none"
    /\ marker.key \in keys \cup {NoKey}
    /\ Cardinality({k \in Compaction : pc[k] # "idle"}) <= compactions
    /\ InFlight <= requests

Scope ==
    \/ Within({d1, d2}, LogOperations, LogCheckpoints, {g1}, {}, 1, 1)
    \/ Within({d1}, ChunkOperations, ChunkCheckpoints, {g1, g2}, {}, 2, 2)
    \/ Within({d1, d2}, SealedOperations, SealedCheckpoints, {g1}, {k1, k2}, 1, 2)

\* The compactions of a run are alike
AnyCompaction == Permutations(Compaction)
=============================================================================
