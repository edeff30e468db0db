------------------------------ MODULE MCSegAlloc ------------------------------
(* SegAlloc on small volumes for TLC, which evaluates AllocScan's          *)
(* assumption about the scan too.                                          *)
EXTENDS SegAlloc, AllocScan, TLC

(* The writers are interchangeable.                                        *)
Symmetry == Permutations(Writers)
=============================================================================
