--------------------------- MODULE MCWritePipeline ---------------------------
(* WritePipeline with three requests for TLC.                              *)
EXTENDS WritePipeline, TLC

CONSTANTS r1, r2, r3, ka, sh1

(* All three write one key.                                                *)
OneKey == [r \in {r1, r2, r3} |-> ka]
OneShard == ka :> sh1

(* The segment writers are interchangeable.                                *)
Symmetry == Permutations(SegWriters)
=============================================================================
