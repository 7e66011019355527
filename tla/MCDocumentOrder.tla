-------------------------- MODULE MCDocumentOrder --------------------------
(* A small instance of DocumentOrder for TLC. *)
EXTENDS DocumentOrder, TLC

Symmetry == Permutations(Device) \cup Permutations(Note) \cup Permutations(Body)
=============================================================================
