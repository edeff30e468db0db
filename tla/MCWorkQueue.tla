----------------------------- MODULE MCWorkQueue -----------------------------
(* WorkQueue with a few tasks and threads for TLC.                         *)
EXTENDS WorkQueue, TLC
=============================================================================
