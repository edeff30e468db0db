----------------------------- MODULE MCMetaStor -----------------------------
(* MetaStor with two keys, each in a slot of its own, for TLC.             *)
EXTENDS MetaStor

CONSTANTS ka, kb

OwnSlots == [k \in {ka, kb} |-> IF k = ka THEN 1 ELSE 2]

(* No crash: the store goes down by stopThds.                              *)
OnlyClosings ==
  phase' = "down" =>
    phase = "stopping" /\ merge = NoMerge /\ reapQ = <<>> /\ uncounted = 0

Symmetry == Permutations(Segs)
=============================================================================
