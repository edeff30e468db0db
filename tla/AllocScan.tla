------------------------------ MODULE AllocScan ------------------------------
(***************************************************************************)
(* The loop of SegmentManager::AllocForGC as a function of the table: the  *)
(* caller holds mtx_ throughout, so nothing moves while it runs.  It       *)
(* justifies the one-step AllocForGC, AllocForGCFails and AllocForGCSpins  *)
(* of SegmentManager, which name the segment found without the scan.       *)
(***************************************************************************)
EXTENDS Integers

NoneFree == -1      (* AllocForGC returns false                            *)
Spins == -2         (* AllocForGC never returns                            *)

(* The index after "if (seg_index == segNum_) seg_index = 0".              *)
Wrapped(n, i) == IF i = n THEN 0 ELSE i

(* The loop, for n segments of which those in free are FREE, started at    *)
(* curSegId_ = cur with seg_index = i.  It has visited every index after   *)
(* 2 * n turns: one that is still running then runs for ever.              *)
ScanLoop(n, free, cur) ==
  LET from[i \in 0 .. n, turns \in 0 .. 2 * n] ==
        IF i = cur THEN NoneFree
        ELSE IF turns = 0 THEN Spins
        ELSE IF Wrapped(n, i) \in free THEN Wrapped(n, i)
        ELSE from[Wrapped(n, i) + 1, turns - 1]
  IN from

(* AllocForGC: the current segment "for first use", or else the loop.      *)
ScanResult(n, free, cur) ==
  IF cur \in free THEN cur ELSE ScanLoop(n, free, cur)[cur + 1, 2 * n]

(* The loop finds the first FREE segment at or after curSegId_ in cyclic   *)
(* order whenever there is one; with none it returns false, but for        *)
(* curSegId_ = 0, which the index, reset to 0 after the loop condition and *)
(* incremented before it, never equals.                                    *)
ASSUME ScanFindsFirstFree ==
  \A n \in 1 .. 6 : \A free \in SUBSET (0 .. n - 1) : \A cur \in 0 .. n - 1 :
    LET found == ScanResult(n, free, cur)
    IN IF free = {} THEN found = (IF cur = 0 THEN Spins ELSE NoneFree)
       ELSE /\ found \in free
            /\ \A s \in free : (found - cur) % n <= (s - cur) % n
=============================================================================
