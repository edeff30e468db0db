----------------------------- MODULE MCGcManager -----------------------------
(* GcManager with batches of two writes for TLC.                           *)
EXTENDS GcManager

CONSTANTS k1, k2, k3, k4, a1, a2, b1, b2, c1, c2, A, B, C

(* B deletes a key of A for good, or to no effect; C deletes another and   *)
(* rewrites the first, if it is not overtaken.  What A and B leave does    *)
(* not fit into one segment.                                               *)
Key == a1 :> k1 @@ a2 :> k2 @@ b1 :> k3 @@ b2 :> k1 @@ c1 :> k2 @@ c2 :> k1
Pairs == A :> <<a1, a2>> @@ B :> <<b1, b2>> @@ C :> <<c1, c2>>

(* All three write the same two keys, the first of which C deletes.        *)
SameKey == a1 :> k1 @@ a2 :> k2 @@ b1 :> k1 @@ b2 :> k2 @@ c1 :> k1 @@ c2 :> k2
=============================================================================
