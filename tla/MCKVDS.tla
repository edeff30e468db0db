------------------------------- MODULE MCKVDS -------------------------------
(* KVDS with two keys and three values for TLC.                            *)
EXTENDS KVDS

CONSTANTS ka, kb, v1, v2, c1, c2

Digest == [v \in {v1, v2, Empty} |-> CASE v = v1 -> 1 [] v = v2 -> 2 [] OTHER -> 3]

Symmetry == Permutations(Clients)
=============================================================================
