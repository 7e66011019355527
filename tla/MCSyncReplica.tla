--------------------------- MODULE MCSyncReplica ---------------------------
(* Small instances of SyncReplica for TLC. *)
EXTENDS SyncReplica

Symmetry == Permutations(Device) \cup Permutations(Note)
                \cup Permutations(Body \ (Refused \cup Oversized)) \cup Permutations(Asset)
=============================================================================
