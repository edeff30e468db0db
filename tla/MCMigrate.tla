------------------------------ MODULE MCMigrate ------------------------------
(* Migrate with two medium volumes for TLC.                                *)
EXTENDS Migrate

CONSTANTS k1, k2, a1, b1, c1, A, B, C

(* A and B write a key each, C deletes the one of A.                       *)
Key == a1 :> k1 @@ b1 :> k2 @@ c1 :> k1
Batch == A :> <<a1>> @@ B :> <<b1>> @@ C :> <<c1>>

(* Of the medium volumes the first has no segment to give, the second one. *)
Sizes == 0 :> 1 @@ 1 :> 2
=============================================================================
