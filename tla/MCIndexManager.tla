---------------------------- MODULE MCIndexManager ----------------------------
(* IndexManager and an iterator with a few updates for TLC.                *)
EXTENDS KvdbIter, TLC

CONSTANTS u1, u2, u3, u4, u5, u6, u7, ka, kb, kc, s1, s2, s3

(* Writes and deletes of three keys in three segments: one segment holds a *)
(* delete and an empty value of the same key, the next writes it again.    *)
MixKey == u1 :> ka @@ u2 :> ka @@ u3 :> ka @@ u4 :> kb @@ u5 :> kb @@ u6 :> kc @@ u7 :> ka
MixSeg == u1 :> s1 @@ u2 :> s2 @@ u3 :> s2 @@ u4 :> s2 @@ u5 :> s3 @@ u6 :> s3 @@ u7 :> s3
MixStamp == u1 :> 1 @@ u2 :> 21 @@ u3 :> 22 @@ u4 :> 23 @@ u5 :> 31 @@ u6 :> 32 @@ u7 :> 33
MixSize == u1 :> 2 @@ u2 :> 0 @@ u3 :> 0 @@ u4 :> 1 @@ u5 :> 0 @@ u6 :> 1 @@ u7 :> 3
TwoSlots == ka :> 0 @@ kb :> 1 @@ kc :> 0
=============================================================================
