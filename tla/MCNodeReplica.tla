---------------------------- MODULE MCNodeReplica ----------------------------
(* Two devices, a folder in a folder, and a note not yet created.            *)
EXTENDS NodeReplica, TLC

CONSTANTS f, g

Nested == [m \in Node \ Fresh |-> IF m = g THEN f ELSE Root]

Symmetry == Permutations(Device) \cup Permutations(Title)
=============================================================================
