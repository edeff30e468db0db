---------------------------- MODULE SegAllocProofs ----------------------------
(***************************************************************************)
(* What holds of SegAlloc for every number of segments, every reserve and  *)
(* every finite set of writers.                                            *)
(***************************************************************************)
EXTENDS SegAlloc, FiniteSetTheorems, TLAPS

(* The segments in a state are finitely many.                              *)
LEMMA StateSetsFinite ==
  /\ IsFiniteSet(Segs)
  /\ \A st : IsFiniteSet(InState(st)) /\ Cardinality(InState(st)) \in Nat
<1>1. IsFiniteSet(Segs)
  BY FS_Interval, SegmentManagerAssumption DEF Segs
<1>2. ASSUME NEW st PROVE IsFiniteSet(InState(st)) /\ Cardinality(InState(st)) \in Nat
  <2>1. InState(st) \in SUBSET Segs
    BY DEF InState
  <2> QED
    BY <1>1, <2>1, FS_Subset, FS_CardinalityType
<1> QED
  BY <1>1, <1>2

(* One segment leaves the set of a state and enters that of another.       *)
LEMMA MoveSegment ==
  ASSUME NEW from, NEW to, NEW s \in InState(from), s \notin InState(to)
  PROVE  /\ Cardinality(InState(from) \ {s}) = Cardinality(InState(from)) - 1
         /\ Cardinality(InState(to) \cup {s}) = Cardinality(InState(to)) + 1
<1>1. IsFiniteSet(InState(from)) /\ IsFiniteSet(InState(to))
  BY StateSetsFinite
<1>2. Cardinality(InState(from) \ {s}) = Cardinality(InState(from)) - 1
  BY <1>1, FS_RemoveElement
<1>3. Cardinality(InState(to) \cup {s}) = Cardinality(InState(to)) + 1
  BY <1>1, FS_AddElement
<1> QED
  BY <1>2, <1>3

(* What each operation of the segment table does to the three sets of      *)
(* segments, and that it keeps the counters right.                         *)
LEMMA AllocEffect ==
  ASSUME SegTypeOK, NEW s \in Segs, AllocForGC(s)
  PROVE  /\ SegTypeOK'
         /\ s \in InState("FREE")
         /\ InState("FREE")' = InState("FREE") \ {s}
         /\ InState("RESERVED")' = InState("RESERVED") \cup {s}
         /\ InState("USED")' = InState("USED")
         /\ CountersAgree => CountersAgree'
<1>1. /\ s \in InState("FREE")
      /\ segTable[s].state = "FREE"
  BY DEF AllocForGC, InState
<1>2. SegTypeOK'
  BY DEF SegTypeOK, AllocForGC, SegmentStat, SegUseStat
<1>3. \A t \in Segs : segTable'[t].state =
                        IF t = s THEN "RESERVED" ELSE segTable[t].state
  BY DEF SegTypeOK, AllocForGC, SegmentStat
<1>4. /\ InState("FREE")' = InState("FREE") \ {s}
      /\ InState("RESERVED")' = InState("RESERVED") \cup {s}
      /\ InState("USED")' = InState("USED")
      /\ s \notin InState("RESERVED")
  BY <1>1, <1>3 DEF InState
<1>5. /\ Cardinality(InState("FREE")') = Cardinality(InState("FREE")) - 1
      /\ Cardinality(InState("RESERVED")') = Cardinality(InState("RESERVED")) + 1
      /\ Cardinality(InState("USED")') = Cardinality(InState("USED"))
  <2>1. /\ Cardinality(InState("FREE") \ {s}) = Cardinality(InState("FREE")) - 1
        /\ Cardinality(InState("RESERVED") \cup {s}) = Cardinality(InState("RESERVED")) + 1
    BY <1>1, <1>4, MoveSegment
  <2> QED
    BY <2>1, <1>4
<1>6. CountersAgree => CountersAgree'
  BY <1>5, StateSetsFinite DEF CountersAgree, AllocForGC
<1> QED
  BY <1>1, <1>2, <1>4, <1>6

(* Use moves a RESERVED segment to USED.                                   *)
LEMMA UseEffect ==
  ASSUME SegTypeOK, NEW s \in InState("RESERVED"), NEW n \in Nat, Use(s, n)
  PROVE  /\ SegTypeOK'
         /\ InState("FREE")' = InState("FREE")
         /\ InState("RESERVED")' = InState("RESERVED") \ {s}
         /\ InState("USED")' = InState("USED") \cup {s}
         /\ CountersAgree => CountersAgree'
<1>1. s \in Segs /\ segTable[s].state = "RESERVED"
  BY DEF InState
<1>2. SegTypeOK'
  <2>1. segTable[s] \in SegmentStat
    BY <1>1 DEF SegTypeOK
  <2>2. [segTable[s] EXCEPT !.state = "USED", !.free_size = n] \in SegmentStat
    BY <2>1 DEF SegmentStat, SegUseStat
  <2>3. segTable' \in [Segs -> SegmentStat]
    BY <1>1, <2>2 DEF SegTypeOK, Use
  <2> QED
    BY <2>3 DEF SegTypeOK, Use
<1>3. \A t \in Segs : segTable'[t].state =
                        IF t = s THEN "USED" ELSE segTable[t].state
  BY <1>1 DEF SegTypeOK, Use, SegmentStat
<1>4. /\ InState("FREE")' = InState("FREE")
      /\ InState("RESERVED")' = InState("RESERVED") \ {s}
      /\ InState("USED")' = InState("USED") \cup {s}
      /\ s \notin InState("USED")
  BY <1>1, <1>3 DEF InState
<1>5. /\ Cardinality(InState("RESERVED")') = Cardinality(InState("RESERVED")) - 1
      /\ Cardinality(InState("USED")') = Cardinality(InState("USED")) + 1
      /\ Cardinality(InState("FREE")') = Cardinality(InState("FREE"))
  <2>1. /\ Cardinality(InState("RESERVED") \ {s}) = Cardinality(InState("RESERVED")) - 1
        /\ Cardinality(InState("USED") \cup {s}) = Cardinality(InState("USED")) + 1
    BY <1>1, <1>4, MoveSegment
  <2> QED
    BY <2>1, <1>4
<1>6. CountersAgree => CountersAgree'
  BY <1>5, StateSetsFinite DEF CountersAgree, Use
<1> QED
  BY <1>2, <1>4, <1>6

(* FreeForFailed moves a RESERVED segment back to FREE.                    *)
LEMMA FreeForFailedEffect ==
  ASSUME SegTypeOK, NEW s \in InState("RESERVED"), FreeForFailed(s)
  PROVE  /\ SegTypeOK'
         /\ InState("FREE")' = InState("FREE") \cup {s}
         /\ InState("RESERVED")' = InState("RESERVED") \ {s}
         /\ InState("USED")' = InState("USED")
         /\ CountersAgree => CountersAgree'
<1>1. s \in Segs /\ segTable[s].state = "RESERVED"
  BY DEF InState
<1>2. SegTypeOK'
  BY <1>1 DEF SegTypeOK, FreeForFailed, SegmentStat, SegUseStat, FreshStat
<1>3. \A t \in Segs : segTable'[t].state =
                        IF t = s THEN "FREE" ELSE segTable[t].state
  BY <1>1 DEF SegTypeOK, FreeForFailed, SegmentStat, FreshStat
<1>4. /\ InState("FREE")' = InState("FREE") \cup {s}
      /\ InState("RESERVED")' = InState("RESERVED") \ {s}
      /\ InState("USED")' = InState("USED")
      /\ s \notin InState("FREE")
  BY <1>1, <1>3 DEF InState
<1>5. /\ Cardinality(InState("RESERVED")') = Cardinality(InState("RESERVED")) - 1
      /\ Cardinality(InState("FREE")') = Cardinality(InState("FREE")) + 1
      /\ Cardinality(InState("USED")') = Cardinality(InState("USED"))
  <2>1. /\ Cardinality(InState("RESERVED") \ {s}) = Cardinality(InState("RESERVED")) - 1
        /\ Cardinality(InState("FREE") \cup {s}) = Cardinality(InState("FREE")) + 1
    BY <1>1, <1>4, MoveSegment
  <2> QED
    BY <2>1, <1>4
<1>6. CountersAgree => CountersAgree'
  BY <1>5, StateSetsFinite DEF CountersAgree, FreeForFailed
<1> QED
  BY <1>2, <1>4, <1>6

(* FreeForGC moves a USED segment to FREE.                                 *)
LEMMA FreeForGCEffect ==
  ASSUME SegTypeOK, NEW s \in InState("USED"), FreeForGC(s)
  PROVE  /\ SegTypeOK'
         /\ InState("FREE")' = InState("FREE") \cup {s}
         /\ InState("RESERVED")' = InState("RESERVED")
         /\ InState("USED")' = InState("USED") \ {s}
         /\ CountersAgree => CountersAgree'
<1>1. s \in Segs /\ segTable[s].state = "USED"
  BY DEF InState
<1>2. SegTypeOK'
  BY <1>1 DEF SegTypeOK, FreeForGC, SegmentStat, SegUseStat, FreshStat
<1>3. \A t \in Segs : segTable'[t].state =
                        IF t = s THEN "FREE" ELSE segTable[t].state
  BY <1>1 DEF SegTypeOK, FreeForGC, SegmentStat, FreshStat
<1>4. /\ InState("FREE")' = InState("FREE") \cup {s}
      /\ InState("RESERVED")' = InState("RESERVED")
      /\ InState("USED")' = InState("USED") \ {s}
      /\ s \notin InState("FREE")
  BY <1>1, <1>3 DEF InState
<1>5. /\ Cardinality(InState("USED")') = Cardinality(InState("USED")) - 1
      /\ Cardinality(InState("FREE")') = Cardinality(InState("FREE")) + 1
      /\ Cardinality(InState("RESERVED")') = Cardinality(InState("RESERVED"))
  <2>1. /\ Cardinality(InState("USED") \ {s}) = Cardinality(InState("USED")) - 1
        /\ Cardinality(InState("FREE") \cup {s}) = Cardinality(InState("FREE")) + 1
    BY <1>1, <1>4, MoveSegment
  <2> QED
    BY <2>1, <1>4
<1>6. CountersAgree => CountersAgree'
  BY <1>5, StateSetsFinite DEF CountersAgree, FreeForGC
<1> QED
  BY <1>2, <1>4, <1>6

-----------------------------------------------------------------------------
(* Control: where the threads are and what they hold.  Nothing here looks  *)
(* at the segment table.                                                   *)

(* At the start no thread holds anything.                                  *)
LEMMA ControlInit == Init => ControlInv
<1> SUFFICES ASSUME Init PROVE ControlInv
  OBVIOUS
<1>1. ControlTypeOK
  BY DEF Init, ControlTypeOK, WriterPcs
<1>2. OwnerShape /\ HeldShape /\ MergeShape
  BY SegAllocAssumption
     DEF Init, OwnerShape, HeldShape, MergeShape, MergeIsExclusive, Threads,
         MergePcs, StuckPcs
<1> QED
  BY <1>1, <1>2 DEF ControlInv

(* Every step of writers and merges keeps ControlInv.                      *)
LEMMA ControlStep == ControlInv /\ [Next]_vars => ControlInv'
<1> SUFFICES ASSUME ControlInv, [Next]_vars PROVE ControlInv'
  OBVIOUS
<1> USE SegAllocAssumption
    DEF ControlInv, ControlTypeOK, OwnerShape, HeldShape, MergeShape,
        MergeIsExclusive, Threads, WriterPcs, MergePcs, StuckPcs,
        Goto, mergeVars, segVars, mishaps
<1>1. ASSUME NEW w \in Writers, StartWrite(w) PROVE ControlInv'
  BY <1>1 DEF StartWrite
<1>2. ASSUME NEW w \in Writers, AllocCheck(w) PROVE ControlInv'
  BY <1>2 DEF AllocCheck
<1>3. ASSUME NEW w \in Writers, AllocScanStep(w) PROVE ControlInv'
  BY <1>3 DEF AllocScanStep, Scan
<1>4. ASSUME NEW w \in Writers, WriteDone(w) PROVE ControlInv'
  BY <1>4 DEF WriteDone
<1>5. ASSUME NEW w \in Writers, WriteFails(w) PROVE ControlInv'
  BY <1>5 DEF WriteFails
<1>6. ASSUME NEW w \in Writers, BatchTooLarge(w) PROVE ControlInv'
  BY <1>6 DEF BatchTooLarge
<1>7. ASSUME NEW w \in Writers, ForeGCNotNeeded(w) PROVE ControlInv'
  BY <1>7 DEF ForeGCNotNeeded
<1>8. ASSUME NEW w \in Writers, ForeGCEnter(w) PROVE ControlInv'
  BY <1>8 DEF ForeGCEnter
<1>9. CASE BackGCEnter
  BY <1>9 DEF BackGCEnter
<1>10. ASSUME NEW t \in Threads, SortFindsNone(t) PROVE ControlInv'
  BY <1>10 DEF SortFindsNone, Leave
<1>11. ASSUME NEW t \in Threads, SortFinds(t) PROVE ControlInv'
  <2>1. /\ pc[t] = "sort"
        /\ pc' = [pc EXCEPT ![t] = "alloc1"]
        /\ cands' \in SUBSET Segs
        /\ UNCHANGED <<held, gcOwner, toFree, totalFree, lastSeg, leaked, unread>>
    BY <1>11 DEF SortFinds, InState
  <2> QED
    BY <2>1
<1>12. ASSUME NEW t \in Threads, GcAllocFirst(t) PROVE ControlInv'
  <2>1. PICK F \in SUBSET cands :
          /\ unread' \in BOOLEAN
          /\ unread' \/ F # {}
          /\ toFree' = F
          /\ totalFree' = (Cardinality(F) - 1) % Word
          /\ lastSeg' \in SUBSET (cands \ F)
    BY <1>12 DEF GcAllocFirst
  <2>2. totalFree' \in Nat
    <3>1. IsFiniteSet(F)
      BY StateSetsFinite, FS_Subset
    <3>2. Cardinality(F) \in Nat
      BY <3>1, FS_CardinalityType
    <3> QED
      BY <2>1, <3>2, SegmentManagerAssumption
  <2>3. /\ pc[t] = "alloc1"
        /\ cands' = {}
        /\ gcOwner' = gcOwner
        /\ leaked' = leaked
        /\ \/ \E s \in Segs : /\ held' = [held EXCEPT ![t] = @ \cup {s}]
                              /\ pc' = [pc EXCEPT ![t] = "write1"]
           \/ held' = held /\ pc' = [pc EXCEPT ![t] = "wild"]
           \/ held' = held /\ pc' = [pc EXCEPT ![t] = "spin"]
    BY <1>12 DEF GcAllocFirst
  <2> QED
    BY <2>1, <2>2, <2>3
<1>13. ASSUME NEW t \in Threads, GcFirstWritten(t) PROVE ControlInv'
  BY <1>13 DEF GcFirstWritten
<1>14. ASSUME NEW t \in Threads, GcFirstFails(t) PROVE ControlInv'
  BY <1>14 DEF GcFirstFails, MergeReturns, Leave
<1>15. ASSUME NEW t \in Threads, GcFreeFirst(t) PROVE ControlInv'
  BY <1>15 DEF GcFreeFirst
<1>16. ASSUME NEW t \in Threads, GcFirstDone(t) PROVE ControlInv'
  BY <1>16 DEF GcFirstDone, MergeReturns, Leave
<1>17. ASSUME NEW t \in Threads, GcAllocSecond(t) PROVE ControlInv'
  BY <1>17 DEF GcAllocSecond, Scan
<1>18. ASSUME NEW t \in Threads, GcSecondWritten(t) PROVE ControlInv'
  BY <1>18 DEF GcSecondWritten
<1>19. ASSUME NEW t \in Threads, GcSecondFails(t) PROVE ControlInv'
  BY <1>19 DEF GcSecondFails, MergeReturns, Leave
<1>20. ASSUME NEW t \in Threads, GcFreeLast(t) PROVE ControlInv'
  BY <1>20 DEF GcFreeLast, MergeReturns, Leave
<1>21. CASE UNCHANGED vars
  BY <1>21 DEF vars
<1> QED
  BY <1>1, <1>2, <1>3, <1>4, <1>5, <1>6, <1>7, <1>8, <1>9, <1>10,
     <1>11, <1>12, <1>13, <1>14, <1>15, <1>16, <1>17, <1>18, <1>19, <1>20, <1>21
     DEF Next, WriterStep, MergeStep

(* At every moment at most one thread is in a merge and it holds gcMtx_, a *)
(* thread holds one segment exactly while it fills one, and the local      *)
(* variables of doMerge are set and cleared where the code does so.        *)
THEOREM ControlInvariant == Spec => []ControlInv
<1> QED
  BY ControlInit, ControlStep, PTL DEF Spec

-----------------------------------------------------------------------------
(* Space: the table, its counters and who owns which segment.              *)

(* A step that leaves the segment table alone keeps its invariants.        *)
LEMMA TableUnchanged ==
  ASSUME UNCHANGED segVars
  PROVE  /\ SegTypeOK => SegTypeOK'
         /\ CountersAgree => CountersAgree'
         /\ \A st : InState(st)' = InState(st)
BY DEF segVars, SegTypeOK, CountersAgree, InState

(* The fresh table: every segment FREE and freedCounter_ = segNum_.        *)
LEMMA SpaceInit == Init => SpaceInv
<1> SUFFICES ASSUME Init PROVE SpaceInv
  OBVIOUS
<1>1. SegTypeOK
  BY SegmentManagerAssumption
     DEF Init, SegInit, SegTypeOK, SegmentStat, SegUseStat, FreshStat, Segs
<1>2. InState("FREE") = Segs /\ InState("USED") = {} /\ InState("RESERVED") = {}
  BY DEF Init, SegInit, InState, FreshStat
<1>3. Cardinality(Segs) = SegNum
  BY FS_Interval, SegmentManagerAssumption DEF Segs
<1>4. CountersAgree
  BY <1>2, <1>3, FS_EmptySet DEF CountersAgree, Init, SegInit
<1>5. ReservedIsHeld /\ MergeOwnsCandidates
  BY <1>2 DEF Init, ReservedIsHeld, MergeOwnsCandidates
<1> QED
  BY <1>1, <1>4, <1>5 DEF SpaceInv

(* The ways in which the steps move segments between the threads.          *)
LEMMA TakeSegment ==
  ASSUME ControlInv, SpaceInv, NEW t \in Threads, held[t] = {},
         NEW s \in Segs, AllocForGC(s),
         held' = [held EXCEPT ![t] = @ \cup {s}],
         cands' = {} \/ cands' = cands,
         toFree' \cup lastSeg' \subseteq InState("USED"),
         toFree' \cap lastSeg' = {}, leaked' = leaked
  PROVE  SpaceInv'
<1>1. /\ SegTypeOK' /\ CountersAgree'
      /\ s \in InState("FREE")
      /\ InState("RESERVED")' = InState("RESERVED") \cup {s}
      /\ InState("USED")' = InState("USED")
  BY AllocEffect DEF SpaceInv
<1>2. s \notin InState("RESERVED")
  BY <1>1 DEF InState
<1>3. \A u \in Threads : held'[u] = IF u = t THEN {s} ELSE held[u]
  BY DEF ControlInv, ControlTypeOK
<1>4. ReservedIsHeld'
  BY <1>1, <1>2, <1>3 DEF SpaceInv, ReservedIsHeld
<1>5. MergeOwnsCandidates'
  BY <1>1 DEF SpaceInv, MergeOwnsCandidates
<1> QED
  BY <1>1, <1>4, <1>5 DEF SpaceInv

(* A thread that has written its segment uses it and holds no more.        *)
LEMMA UseSegment ==
  ASSUME ControlInv, SpaceInv, NEW t \in Threads,
         NEW s \in Segs, held[t] = {s}, Use(s, FreeSize),
         held' = [held EXCEPT ![t] = {}], UNCHANGED mergeVars,
         leaked' = leaked
  PROVE  SpaceInv'
<1>1. s \in InState("RESERVED")
  BY DEF SpaceInv, ReservedIsHeld
<1>2. /\ SegTypeOK' /\ CountersAgree'
      /\ InState("RESERVED")' = InState("RESERVED") \ {s}
      /\ InState("USED")' = InState("USED") \cup {s}
  BY <1>1, UseEffect DEF SpaceInv, FreeSize
<1>3. \A u \in Threads : held'[u] = IF u = t THEN {} ELSE held[u]
  BY DEF ControlInv, ControlTypeOK
<1>4. ReservedIsHeld'
  BY <1>2, <1>3 DEF SpaceInv, ReservedIsHeld
<1>5. MergeOwnsCandidates'
  BY <1>2 DEF SpaceInv, MergeOwnsCandidates, mergeVars
<1> QED
  BY <1>2, <1>4, <1>5 DEF SpaceInv

(* A thread whose write failed gives its segment back.                     *)
LEMMA ReturnSegment ==
  ASSUME ControlInv, SpaceInv, NEW t \in Threads,
         NEW s \in Segs, held[t] = {s}, FreeForFailed(s),
         held' = [held EXCEPT ![t] = {}], cands' = cands,
         toFree' \subseteq toFree, lastSeg' \subseteq lastSeg,
         leaked' = leaked
  PROVE  SpaceInv'
<1>1. s \in InState("RESERVED")
  BY DEF SpaceInv, ReservedIsHeld
<1>2. /\ SegTypeOK' /\ CountersAgree'
      /\ InState("RESERVED")' = InState("RESERVED") \ {s}
      /\ InState("USED")' = InState("USED")
  BY <1>1, FreeForFailedEffect DEF SpaceInv
<1>3. \A u \in Threads : held'[u] = IF u = t THEN {} ELSE held[u]
  BY DEF ControlInv, ControlTypeOK
<1>4. ReservedIsHeld'
  BY <1>2, <1>3 DEF SpaceInv, ReservedIsHeld
<1>5. MergeOwnsCandidates'
  BY <1>2 DEF SpaceInv, MergeOwnsCandidates
<1> QED
  BY <1>2, <1>4, <1>5 DEF SpaceInv

(* A merge frees one of its candidates.                                    *)
LEMMA ReclaimSegment ==
  ASSUME ControlInv, SpaceInv, NEW s \in InState("USED"), FreeForGC(s),
         held' = held, cands' = {}, leaked' = leaked,
         toFree' \cup lastSeg' \subseteq InState("USED") \ {s},
         toFree' \cap lastSeg' = {}
  PROVE  SpaceInv'
<1>1. /\ SegTypeOK' /\ CountersAgree'
      /\ InState("RESERVED")' = InState("RESERVED")
      /\ InState("USED")' = InState("USED") \ {s}
  BY FreeForGCEffect DEF SpaceInv
<1>2. ReservedIsHeld' /\ MergeOwnsCandidates'
  BY <1>1 DEF SpaceInv, ReservedIsHeld, MergeOwnsCandidates
<1> QED
  BY <1>1, <1>2 DEF SpaceInv

(* Every step of writers and merges keeps SpaceInv.                        *)
LEMMA SpaceStep == ControlInv /\ SpaceInv /\ [Next]_vars => SpaceInv'
<1> SUFFICES ASSUME ControlInv, SpaceInv, [Next]_vars PROVE SpaceInv'
  OBVIOUS
<1> DEFINE Still == UNCHANGED <<segVars, held, leaked>>
<1>1. ASSUME Still, cands' = {} \/ cands' = cands \/ cands' \subseteq InState("USED"),
             toFree' \subseteq toFree, lastSeg' \subseteq lastSeg
      PROVE  SpaceInv'
  BY <1>1, TableUnchanged DEF SpaceInv, ReservedIsHeld, MergeOwnsCandidates
<1>2. ASSUME NEW w \in Writers, WriterStep(w) PROVE SpaceInv'
  <2>1. w \in Threads /\ UNCHANGED cands
    BY <1>2 DEF Threads, WriterStep, StartWrite, AllocCheck, AllocScanStep, Scan,
                WriteDone, WriteFails, BatchTooLarge, ForeGCNotNeeded,
                ForeGCEnter, mergeVars
  <2>0. BatchTooLarge(w) \/ leaked' = leaked
    BY <1>2 DEF WriterStep, StartWrite, AllocCheck, AllocScanStep, Scan,
                WriteDone, WriteFails, ForeGCNotNeeded, ForeGCEnter, mishaps
  <2>2. CASE StartWrite(w) \/ AllocCheck(w) \/ ForeGCNotNeeded(w) \/ ForeGCEnter(w)
    BY <2>2, <1>1
       DEF StartWrite, AllocCheck, ForeGCNotNeeded, ForeGCEnter, mergeVars, mishaps
  <2>3. CASE AllocScanStep(w)
    <3>1. held[w] = {} /\ leaked' = leaked
      BY <2>1, <2>3 DEF AllocScanStep, Scan, ControlInv, HeldShape, mishaps
    <3>2. CASE Still
      BY <2>3, <3>2, <1>1 DEF AllocScanStep, Scan, mergeVars
    <3>3. ASSUME NEW s \in Segs, AllocForGC(s),
                 held' = [held EXCEPT ![w] = @ \cup {s}]
          PROVE  SpaceInv'
      BY <2>1, <2>3, <3>1, <3>3, TakeSegment
         DEF AllocScanStep, Scan, mergeVars, SpaceInv, MergeOwnsCandidates
    <3> QED
      BY <2>3, <3>1, <3>2, <3>3 DEF AllocScanStep, Scan
  <2>4. CASE WriteDone(w)
    <3>1. PICK s \in Segs : held[w] = {s}
      BY <2>1, <2>4 DEF WriteDone, ControlInv, HeldShape
    <3> QED
      BY <2>1, <2>4, <3>1, UseSegment DEF WriteDone, mishaps
  <2>5. CASE WriteFails(w)
    <3>1. PICK s \in Segs : held[w] = {s}
      BY <2>1, <2>5 DEF WriteFails, ControlInv, HeldShape
    <3> QED
      BY <2>1, <2>5, <3>1, ReturnSegment DEF WriteFails, mergeVars, mishaps
  <2>6. CASE BatchTooLarge(w)
    <3>1. \A u \in Threads : held'[u] = IF u = w THEN {} ELSE held[u]
      BY <2>1, <2>6 DEF BatchTooLarge, ControlInv, ControlTypeOK
    <3>2. leaked' = leaked \cup held[w] /\ UNCHANGED segVars /\ UNCHANGED mergeVars
      BY <2>6 DEF BatchTooLarge
    <3>3. ReservedIsHeld'
      BY <2>1, <3>1, <3>2, TableUnchanged DEF SpaceInv, ReservedIsHeld
    <3> QED
      BY <3>2, <3>3, TableUnchanged
         DEF SpaceInv, MergeOwnsCandidates, mergeVars
  <2> QED
    BY <1>2, <2>2, <2>3, <2>4, <2>5, <2>6 DEF WriterStep
<1>3. CASE BackGCEnter
  BY <1>3, <1>1 DEF BackGCEnter, mergeVars, mishaps
<1>4. ASSUME NEW t \in Threads, MergeStep(t) PROVE SpaceInv'
  <2>0. leaked' = leaked
    BY <1>4 DEF MergeStep, SortFindsNone, SortFinds, GcAllocFirst, GcFirstWritten,
         GcFirstFails, GcFreeFirst, GcFirstDone, GcAllocSecond, Scan,
         GcSecondWritten, GcSecondFails, GcFreeLast, mishaps
  <2>1. CASE SortFindsNone(t) \/ SortFinds(t)
    BY <2>0, <2>1, <1>1 DEF SortFindsNone, SortFinds, mergeVars
  <2>2. CASE GcAllocFirst(t)
    <3>1. /\ held[t] = {}
          /\ toFree' \cup lastSeg' \subseteq InState("USED")
          /\ toFree' \cap lastSeg' = {}
          /\ cands' = {}
      BY <2>2 DEF GcAllocFirst, ControlInv, HeldShape, SpaceInv, MergeOwnsCandidates
    <3>2. CASE Still
      BY <2>0, <3>1, <3>2, TableUnchanged DEF SpaceInv, ReservedIsHeld, MergeOwnsCandidates
    <3>3. ASSUME NEW s \in Segs, AllocForGC(s),
                 held' = [held EXCEPT ![t] = @ \cup {s}]
          PROVE  SpaceInv'
      BY <2>0, <3>1, <3>3, TakeSegment
    <3> QED
      BY <2>2, <3>2, <3>3 DEF GcAllocFirst
  <2>3. CASE GcFirstWritten(t) \/ GcSecondWritten(t)
    <3>1. PICK s \in Segs : held[t] = {s}
      BY <2>3 DEF GcFirstWritten, GcSecondWritten, ControlInv, HeldShape
    <3> QED
      BY <2>0, <2>3, <3>1, UseSegment DEF GcFirstWritten, GcSecondWritten
  <2>4. CASE GcFirstFails(t) \/ GcSecondFails(t)
    <3>1. PICK s \in Segs : held[t] = {s}
      BY <2>4 DEF GcFirstFails, GcSecondFails, ControlInv, HeldShape
    <3> QED
      BY <2>0, <2>4, <3>1, ReturnSegment DEF GcFirstFails, GcSecondFails, MergeReturns
  <2>5. CASE GcFreeFirst(t)
    <3>1. PICK s \in toFree : FreeForGC(s) /\ toFree' = toFree \ {s}
      BY <2>5 DEF GcFreeFirst
    <3>2. held' = held /\ cands' = cands /\ lastSeg' = lastSeg /\ cands = {}
      BY <2>5 DEF GcFreeFirst, ControlInv, OwnerShape, MergeShape, MergeIsExclusive, MergePcs
    <3> QED
      BY <2>0, <3>1, <3>2, ReclaimSegment DEF SpaceInv, MergeOwnsCandidates
  <2>6. CASE GcFirstDone(t)
    BY <2>0, <2>6, <1>1 DEF GcFirstDone, MergeReturns
  <2>7. CASE GcAllocSecond(t)
    <3>1. held[t] = {} /\ UNCHANGED mergeVars
      BY <2>7 DEF GcAllocSecond, Scan, ControlInv, HeldShape
    <3>2. CASE Still
      BY <2>0, <3>1, <3>2, <1>1 DEF mergeVars
    <3>3. ASSUME NEW s \in Segs, AllocForGC(s),
                 held' = [held EXCEPT ![t] = @ \cup {s}]
          PROVE  SpaceInv'
      BY <2>0, <3>1, <3>3, TakeSegment DEF mergeVars, SpaceInv, MergeOwnsCandidates
    <3> QED
      BY <2>0, <2>7, <3>2, <3>3 DEF GcAllocSecond, Scan
  <2>8. CASE GcFreeLast(t)
    <3>1. PICK s \in lastSeg : FreeForGC(s)
      BY <2>8 DEF GcFreeLast
    <3>2. held' = held /\ cands' = cands /\ cands = {} /\ toFree' = {} /\ lastSeg' = {}
      BY <2>8 DEF GcFreeLast, MergeReturns, ControlInv, OwnerShape, MergeShape,
                  MergeIsExclusive, MergePcs
    <3> QED
      BY <2>0, <3>1, <3>2, ReclaimSegment DEF SpaceInv, MergeOwnsCandidates
  <2> QED
    BY <1>4, <2>1, <2>2, <2>3, <2>4, <2>5, <2>6, <2>7, <2>8 DEF MergeStep
<1>5. CASE UNCHANGED vars
  BY <1>5, <1>1 DEF vars, segVars
<1> QED
  BY <1>2, <1>3, <1>4, <1>5 DEF Next

-----------------------------------------------------------------------------
(* The reserve.  A writer that passed Alloc's test did so when more than   *)
(* SEG_RESERVED_FOR_GC segments were FREE; those that passed after it      *)
(* number at most Cardinality(Writers) - 1.  A merge borrows one segment   *)
(* before it gives one back.                                               *)

(* Sets of writers are finite and no larger than Writers.                  *)
LEMMA CheckedBound ==
  /\ Cardinality(Writers) \in Nat
  /\ \A C \in SUBSET Writers : /\ IsFiniteSet(C)
                               /\ Cardinality(C) \in Nat
                               /\ Cardinality(C) <= Cardinality(Writers)
  /\ \A C \in SUBSET Writers : \A w \in C : Cardinality(C \ {w}) = Cardinality(C) - 1
BY SegAllocAssumption, FS_Subset, FS_CardinalityType, FS_RemoveElement

(* What a step that moves thread t to location l does to Checked.          *)
LEMMA CheckedAfter ==
  ASSUME ControlInv, NEW t \in Threads, NEW l, Goto(t, l)
  PROVE  /\ Checked \in SUBSET Writers /\ Checked' \in SUBSET Writers
         /\ l # "scan" => Checked' = Checked \ {t}
         /\ pc[t] = "scan" => t \in Checked
         /\ pc[t] # "scan" => t \notin Checked
BY SegAllocAssumption
   DEF Checked, ControlInv, ControlTypeOK, OwnerShape, Goto, Threads,
       MergePcs, StuckPcs

(* Debt is that of the holder of gcMtx_.                                   *)
LEMMA OwnerDebt ==
  ASSUME ControlInv, NEW t \in Threads, pc[t] \in MergePcs
  PROVE  Debt = IF \/ pc[t] \in {"write1", "write2", "free2"}
                   \/ pc[t] = "free1" /\ toFree # {}
                THEN 1 ELSE 0
<1>1. gcOwner = t
  BY DEF ControlInv, OwnerShape, MergeIsExclusive
<1>2. \A u \in Threads : pc[u] \in MergePcs => u = t
  BY <1>1 DEF ControlInv, OwnerShape, MergeIsExclusive
<1> QED
  BY <1>2 DEF Debt, MergePcs

(* Once unread, always unread.                                             *)
LEMMA UnreadStays == [Next]_vars /\ ~unread' => ~unread
<1> SUFFICES ASSUME [Next]_vars, unread PROVE unread'
  OBVIOUS
<1>1. ASSUME NEW w \in Writers, WriterStep(w) PROVE unread'
  BY <1>1 DEF WriterStep, StartWrite, AllocCheck, AllocScanStep, Scan, WriteDone,
         WriteFails, BatchTooLarge, ForeGCNotNeeded, ForeGCEnter, mishaps
<1>2. ASSUME NEW t \in Threads, MergeStep(t) PROVE unread'
  BY <1>2 DEF MergeStep, SortFindsNone, SortFinds, GcAllocFirst, GcFirstWritten,
         GcFirstFails, GcFreeFirst, GcFirstDone, GcAllocSecond, Scan,
         GcSecondWritten, GcSecondFails, GcFreeLast, mishaps
<1> QED
  BY <1>1, <1>2 DEF Next, BackGCEnter, mishaps, vars

(* The fresh table has SegNum free segments, more than the reserve.        *)
LEMMA ReserveInit == Init => ReserveInv
<1> SUFFICES ASSUME Init, SEG_RESERVED_FOR_GC < SegNum PROVE ReserveInv
  BY DEF ReserveInv
<1>1. Checked = {} /\ Debt = 0 /\ freedCounter = SegNum
  BY DEF Init, SegInit, Checked, Debt, Threads
<1>2. Cardinality(Checked) = 0
  BY <1>1, FS_EmptySet
<1>3. SegNum \in Nat /\ SEG_RESERVED_FOR_GC \in Nat /\ Cardinality(Writers) \in Nat
  BY CheckedBound, SegmentManagerAssumption
<1> QED
  BY <1>1, <1>2, <1>3 DEF ReserveInv

(* A writer's step keeps ReserveInv: it passes Alloc's test only above the *)
(* reserve, and takes a segment only having passed it.                     *)
LEMMA WriterKeepsReserve ==
  ASSUME ControlInv, SpaceInv, ReserveInv, NEW w \in Writers, WriterStep(w)
  PROVE  ReserveInv'
<1> SUFFICES ASSUME ~unread, SEG_RESERVED_FOR_GC < SegNum PROVE ReserveInv'
  BY UnreadStays DEF ReserveInv, Next
<1>1. w \in Threads /\ toFree' = toFree
  BY DEF Threads, WriterStep, StartWrite, AllocCheck, AllocScanStep, Scan,
         WriteDone, WriteFails, BatchTooLarge, ForeGCNotNeeded, ForeGCEnter,
         mergeVars
<1>2. PICK l \in WriterPcs \cup {"spin", "sort"} : Goto(w, l)
  BY DEF WriterStep, StartWrite, AllocCheck, AllocScanStep, Scan, WriteDone,
         WriteFails, BatchTooLarge, ForeGCNotNeeded, ForeGCEnter, WriterPcs
<1>3. pc[w] \in WriterPcs
  BY DEF WriterStep, StartWrite, AllocCheck, AllocScanStep, Scan, WriteDone,
         WriteFails, BatchTooLarge, ForeGCNotNeeded, ForeGCEnter, WriterPcs
<1>4. Debt' = Debt /\ Debt \in {0, 1}
  BY <1>1, <1>2, <1>3 DEF Debt, Goto, ControlInv, ControlTypeOK, WriterPcs
<1>5. /\ Checked \in SUBSET Writers /\ Checked' \in SUBSET Writers
      /\ l # "scan" => Checked' = Checked \ {w}
      /\ pc[w] = "scan" => w \in Checked
  BY <1>1, <1>2, CheckedAfter
<1>6. /\ Cardinality(Writers) \in Nat
      /\ Cardinality(Checked) \in Nat
      /\ Cardinality(Checked') \in Nat
      /\ Cardinality(Checked') <= Cardinality(Writers)
      /\ l # "scan" => Cardinality(Checked') <= Cardinality(Checked)
      /\ l # "scan" /\ pc[w] = "scan" =>
           Cardinality(Checked') = Cardinality(Checked) - 1
  BY <1>5, CheckedBound, FS_Subset
<1>7. \/ l = "scan" /\ freedCounter' = freedCounter
                    /\ freedCounter > SEG_RESERVED_FOR_GC
      \/ l # "scan" /\ freedCounter' \in {freedCounter, freedCounter + 1}
      \/ l # "scan" /\ pc[w] = "scan" /\ freedCounter' = freedCounter - 1
  <2>1. CASE AllocCheck(w)
    BY <2>1, <1>1, <1>2 DEF AllocCheck, AllocAllowed, Goto, segVars,
       ControlInv, ControlTypeOK
  <2>2. CASE AllocScanStep(w)
    BY <2>2, <1>1, <1>2 DEF AllocScanStep, Scan, AllocForGC, Goto, segVars,
       ControlInv, ControlTypeOK
  <2>3. CASE StartWrite(w) \/ BatchTooLarge(w) \/ ForeGCNotNeeded(w) \/ ForeGCEnter(w)
    BY <2>3, <1>1, <1>2 DEF StartWrite, BatchTooLarge, ForeGCNotNeeded,
       ForeGCEnter, Goto, segVars, ControlInv, ControlTypeOK
  <2>4. CASE WriteDone(w) \/ WriteFails(w)
    BY <2>4, <1>1, <1>2 DEF WriteDone, WriteFails, Use, FreeForFailed, Goto,
       ControlInv, ControlTypeOK
  <2> QED
    BY <2>1, <2>2, <2>3, <2>4 DEF WriterStep
<1> QED
  BY <1>4, <1>6, <1>7, SegmentManagerAssumption
     DEF ReserveInv, SpaceInv, SegTypeOK

(* A merge's step keeps ReserveInv: what it takes is its debt, and the     *)
(* first segment it frees pays it.                                         *)
LEMMA MergeKeepsReserve ==
  ASSUME ControlInv, ControlInv', SpaceInv, ReserveInv,
         NEW t \in Threads, MergeStep(t)
  PROVE  ReserveInv'
<1> SUFFICES ASSUME ~unread, ~unread', SEG_RESERVED_FOR_GC < SegNum PROVE ReserveInv'
  BY UnreadStays DEF ReserveInv, Next
<1>1. pc[t] \in MergePcs
  BY DEF MergeStep, SortFindsNone, SortFinds, GcAllocFirst, GcFirstWritten,
         GcFirstFails, GcFreeFirst, GcFirstDone, GcAllocSecond, Scan,
         GcSecondWritten, GcSecondFails, GcFreeLast, MergePcs
<1>2. \E l : l # "scan" /\ Goto(t, l)
  <2>1. pc' = pc => Goto(t, pc[t])
    BY DEF Goto, ControlInv, ControlTypeOK
  <2> QED
    BY <1>1, <2>1
       DEF MergeStep, SortFindsNone, SortFinds, GcAllocFirst, GcFirstWritten,
         GcFirstFails, GcFreeFirst, GcFirstDone, GcAllocSecond, Scan,
         GcSecondWritten, GcSecondFails, GcFreeLast, MergeReturns, Leave, MergePcs,
         Goto
<1>3. Checked' = Checked /\ Cardinality(Checked) \in Nat
  BY <1>1, <1>2, CheckedAfter, CheckedBound DEF MergePcs
<1>4. \A u \in Threads : u # t => pc'[u] = pc[u] /\ pc[u] \notin MergePcs
  BY <1>1, <1>2 DEF Goto, ControlInv, ControlTypeOK, OwnerShape, MergeIsExclusive
<1>5. /\ Debt = IF \/ pc[t] \in {"write1", "write2", "free2"}
                   \/ pc[t] = "free1" /\ toFree # {}
                THEN 1 ELSE 0
      /\ Debt' = IF \/ pc'[t] \in {"write1", "write2", "free2"}
                    \/ pc'[t] = "free1" /\ toFree' # {}
                 THEN 1 ELSE 0
  BY <1>1, <1>4, OwnerDebt DEF Debt, MergePcs
<1>6. freedCounter' + Debt' >= freedCounter + Debt
  <2> USE <1>5 DEF ControlInv, ControlTypeOK, MergeShape, Goto, SpaceInv, SegTypeOK
  <2>1. CASE SortFindsNone(t) \/ SortFinds(t)
    BY <2>1 DEF SortFindsNone, SortFinds, Leave, segVars
  <2>2. CASE GcAllocFirst(t)
    BY <2>2 DEF GcAllocFirst, AllocForGC, segVars
  <2>3. CASE GcFirstWritten(t) \/ GcSecondWritten(t)
    <3>1. freedCounter' = freedCounter /\ toFree' = toFree
      BY <2>3 DEF GcFirstWritten, GcSecondWritten, Use, mergeVars
    <3>2. \/ pc[t] = "write1" /\ pc'[t] = "free1"
          \/ pc[t] = "write2" /\ pc'[t] = "free2"
      BY <2>3 DEF GcFirstWritten, GcSecondWritten
    <3>3. pc[t] = "write1" => toFree # {}
      OBVIOUS
    <3> QED
      BY <3>1, <3>2, <3>3
  <2>4. CASE GcFirstFails(t) \/ GcSecondFails(t)
    BY <2>4 DEF GcFirstFails, GcSecondFails, FreeForFailed
  <2>5. CASE GcFreeFirst(t)
    BY <2>5 DEF GcFreeFirst, FreeForGC
  <2>6. CASE GcFirstDone(t)
    BY <2>6 DEF GcFirstDone, MergeReturns, Leave, segVars
  <2>7. CASE GcAllocSecond(t)
    BY <2>7 DEF GcAllocSecond, Scan, AllocForGC, segVars, mergeVars
  <2>8. CASE GcFreeLast(t)
    BY <2>8 DEF GcFreeLast, FreeForGC
  <2> QED
    BY <2>1, <2>2, <2>3, <2>4, <2>5, <2>6, <2>7, <2>8 DEF MergeStep
<1>7. freedCounter' \in Int /\ Debt \in Int /\ Debt' \in Int
  <2>1. freedCounter' \in {freedCounter - 1, freedCounter, freedCounter + 1}
    BY DEF MergeStep, SortFindsNone, SortFinds, GcAllocFirst, GcFirstWritten,
         GcFirstFails, GcFreeFirst, GcFirstDone, GcAllocSecond, Scan,
         GcSecondWritten, GcSecondFails, GcFreeLast, segVars, AllocForGC, Use,
         FreeForFailed, FreeForGC
  <2> QED
    BY <2>1, <1>5 DEF SpaceInv, SegTypeOK
<1>8. /\ Cardinality(Writers) \in Nat
      /\ SEG_RESERVED_FOR_GC \in Nat
      /\ freedCounter \in Int
  BY <1>3, CheckedBound, SegmentManagerAssumption DEF SpaceInv, SegTypeOK
<1>9. freedCounter + Debt >=
        Cardinality(Checked) + SEG_RESERVED_FOR_GC + 1 - Cardinality(Writers)
  BY DEF ReserveInv
<1>10. freedCounter' + Debt' >=
         Cardinality(Checked) + SEG_RESERVED_FOR_GC + 1 - Cardinality(Writers)
  <2> DEFINE c == Cardinality(Checked)
             n == Cardinality(Writers)
             before == freedCounter + Debt
             after == freedCounter' + Debt'
  <2>1. c \in Int /\ n \in Int /\ before \in Int /\ after \in Int
    BY <1>3, <1>7, <1>8
  <2>2. after >= before
    BY <1>6
  <2>3. before >= c + SEG_RESERVED_FOR_GC + 1 - n
    BY <1>9
  <2> HIDE DEF c, n, before, after
  <2>4. after >= c + SEG_RESERVED_FOR_GC + 1 - n
    BY <2>1, <2>2, <2>3, <1>8
  <2> QED
    BY <2>4 DEF c, n, after
<1> QED
  BY <1>3, <1>10 DEF ReserveInv

(* Every step keeps ReserveInv.                                            *)
LEMMA ReserveStep ==
  ControlInv /\ ControlInv' /\ SpaceInv /\ ReserveInv /\ [Next]_vars => ReserveInv'
<1> SUFFICES ASSUME ControlInv, ControlInv', SpaceInv, ReserveInv, [Next]_vars
             PROVE  ReserveInv'
  OBVIOUS
<1>1. CASE BackGCEnter
  <2>1. /\ Goto(BackThread, "sort") /\ BackThread \in Threads
        /\ pc[BackThread] = "idle" /\ freedCounter' = freedCounter
        /\ toFree' = toFree /\ unread' = unread
    BY <1>1 DEF BackGCEnter, segVars, mergeVars, mishaps, Threads
  <2>2. Checked' = Checked
    BY <2>1, CheckedAfter
  <2>3. Debt' = Debt
    BY <2>1 DEF Debt, Goto, ControlInv, ControlTypeOK
  <2> QED
    BY <2>1, <2>2, <2>3 DEF ReserveInv
<1>2. CASE UNCHANGED vars
  BY <1>2 DEF vars, ReserveInv, Debt, Checked
<1> QED
  BY <1>1, <1>2, WriterKeepsReserve, MergeKeepsReserve DEF Next

(* At every moment the table, its counters and the segments the threads    *)
(* hold agree, and the free segments are no fewer than the reserve less    *)
(* the writers that have overtaken each other in Alloc.                    *)
THEOREM SpaceInvariant == Spec => [](ControlInv /\ SpaceInv /\ ReserveInv)
<1>1. Init => ControlInv /\ SpaceInv /\ ReserveInv
  BY ControlInit, SpaceInit, ReserveInit
<1>2. ControlInv /\ SpaceInv /\ ReserveInv /\ [Next]_vars
        => (ControlInv /\ SpaceInv /\ ReserveInv)'
  BY ControlStep, SpaceStep, ReserveStep
<1> QED
  BY <1>1, <1>2, PTL DEF Spec

(* The counters of the segment manager count the segments in each state,   *)
(* whatever the writers, the error paths and garbage collection do.        *)
THEOREM CountersCorrect == Spec => []CountersAgree
<1>1. SpaceInv => CountersAgree
  BY DEF SpaceInv
<1> QED
  BY <1>1, SpaceInvariant, PTL

(* The reserve that is left for garbage collection between merges, for any *)
(* number of writers.                                                      *)
THEOREM ReserveBound == Spec => []ReserveShrinksByRaces
<1>1. ControlInv /\ SpaceInv /\ ReserveInv => ReserveShrinksByRaces
  <2> SUFFICES ASSUME ControlInv, SpaceInv, ReserveInv, gcOwner = NoThread,
                      ~unread, SEG_RESERVED_FOR_GC < SegNum
               PROVE  freedCounter >= SEG_RESERVED_FOR_GC + 1 - Cardinality(Writers)
    BY DEF ReserveShrinksByRaces
  <2>1. Debt = 0
    BY SegAllocAssumption
       DEF Debt, ControlInv, OwnerShape, MergeIsExclusive, MergePcs, Threads
  <2>2. Cardinality(Checked) \in Nat /\ Cardinality(Writers) \in Nat
    BY CheckedBound DEF Checked
  <2> DEFINE c == Cardinality(Checked)
             n == Cardinality(Writers)
  <2>3. freedCounter + 0 >= c + SEG_RESERVED_FOR_GC + 1 - n
    BY <2>1 DEF ReserveInv
  <2>4. freedCounter \in Int /\ SEG_RESERVED_FOR_GC \in Nat /\ c \in Nat /\ n \in Nat
    BY <2>2, SegmentManagerAssumption DEF SpaceInv, SegTypeOK
  <2> HIDE DEF c, n
  <2>5. freedCounter >= SEG_RESERVED_FOR_GC + 1 - n
    BY <2>3, <2>4
  <2> QED
    BY <2>5 DEF n
<1> QED
  BY <1>1, SpaceInvariant, PTL

(* When no more threads call Alloc than the reserve has segments, a thread *)
(* about to scan finds a FREE segment.                                     *)
LEMMA ScanFindsSegment ==
  ASSUME ControlInv, SpaceInv, ReserveInv, ~unread,
         SEG_RESERVED_FOR_GC < SegNum,
         Cardinality(Writers) <= SEG_RESERVED_FOR_GC,
         NEW t \in Threads, pc[t] \in {"scan", "alloc1", "alloc2"}
  PROVE  InState("FREE") # {}
<1> DEFINE c == Cardinality(Checked)
           n == Cardinality(Writers)
<1>1. c \in Nat /\ n \in Nat /\ freedCounter \in Int /\ SEG_RESERVED_FOR_GC \in Nat
  BY CheckedBound, SegmentManagerAssumption DEF Checked, SpaceInv, SegTypeOK
<1>2. freedCounter + Debt >= c + SEG_RESERVED_FOR_GC + 1 - n
  BY DEF ReserveInv
<1>3. n <= SEG_RESERVED_FOR_GC
  OBVIOUS
<1>4. Debt \in {0, 1}
  BY DEF Debt
<1>5. CASE pc[t] = "scan"
  <2>1. t \in Checked
    BY <1>5 DEF Checked, Threads, ControlInv, OwnerShape, MergePcs, StuckPcs
  <2>2. c # 0
    BY <2>1, CheckedBound, FS_EmptySet DEF Checked
  <2> HIDE DEF c, n
  <2>3. freedCounter >= 1
    BY <1>1, <1>2, <1>3, <1>4, <2>2
  <2> QED
    BY <2>3, FS_EmptySet DEF SpaceInv, CountersAgree
<1>6. CASE pc[t] \in {"alloc1", "alloc2"}
  <2>1. Debt = 0
    BY <1>6, OwnerDebt DEF MergePcs
  <2> HIDE DEF c, n
  <2>2. freedCounter >= 1
    BY <1>1, <1>2, <1>3, <2>1
  <2> QED
    BY <2>2, FS_EmptySet DEF SpaceInv, CountersAgree
<1> QED
  BY <1>5, <1>6

(* With at most SEG_RESERVED_FOR_GC threads that call Alloc, garbage       *)
(* collection always finds a segment to merge into and no thread spins in  *)
(* AllocForGC, on a volume of any size.                                    *)
THEOREM ReserveSufficient == Spec => []ReserveSuffices
<1>1. Init => ReserveSuffices
  BY DEF Init, ReserveSuffices, GcFindsSegment, NoThreadStuck, StuckPcs, Threads
<1>2. ControlInv /\ SpaceInv /\ ReserveInv /\ ReserveSuffices /\ [Next]_vars
        => ReserveSuffices'
  <2> SUFFICES ASSUME ControlInv, SpaceInv, ReserveInv, NoThreadStuck, [Next]_vars,
                      Cardinality(Writers) <= SEG_RESERVED_FOR_GC,
                      SEG_RESERVED_FOR_GC < SegNum, ~unread
               PROVE  NoThreadStuck'
    BY UnreadStays DEF ReserveSuffices, GcFindsSegment
  <2>1. ASSUME NEW t \in Threads, NEW l, Goto(t, l), l \notin StuckPcs
        PROVE  NoThreadStuck'
    BY <2>1 DEF Goto, NoThreadStuck, ControlInv, ControlTypeOK
  <2>2. ASSUME UNCHANGED pc PROVE NoThreadStuck'
    BY <2>2 DEF NoThreadStuck
  <2>3. ASSUME NEW t \in Threads, pc[t] \in {"scan", "alloc1", "alloc2"}
        PROVE  ~AllocForGCFails /\ ~AllocForGCSpins
    BY <2>3, ScanFindsSegment DEF AllocForGCFails, AllocForGCSpins
  <2>4. ASSUME NEW w \in Writers, WriterStep(w) PROVE NoThreadStuck'
    <3>1. w \in Threads
      BY DEF Threads
    <3>2. AllocScanStep(w) => Goto(w, "filling")
      BY <3>1, <2>3 DEF AllocScanStep, Scan
    <3> QED
      BY <2>4, <2>1, <3>1, <3>2
         DEF WriterStep, StartWrite, AllocCheck, WriteDone, WriteFails,
             BatchTooLarge, ForeGCNotNeeded, ForeGCEnter, StuckPcs
  <2>5. ASSUME NEW t \in Threads, MergeStep(t) PROVE NoThreadStuck'
    <3>1. GcAllocFirst(t) => Goto(t, "write1")
      BY <2>3 DEF GcAllocFirst
    <3>2. GcAllocSecond(t) => Goto(t, "write2")
      BY <2>3 DEF GcAllocSecond, Scan
    <3> QED
      BY <2>5, <2>1, <2>2, <3>1, <3>2
         DEF MergeStep, SortFindsNone, SortFinds, GcFirstWritten, GcFirstFails,
             GcFreeFirst, GcFirstDone, GcSecondWritten, GcSecondFails,
             GcFreeLast, MergeReturns, Leave, StuckPcs
  <2>6. BackGCEnter => NoThreadStuck'
    BY <2>1 DEF BackGCEnter, StuckPcs, Threads
  <2>7. UNCHANGED vars => NoThreadStuck'
    BY <2>2 DEF vars
  <2> QED
    BY <2>4, <2>5, <2>6, <2>7 DEF Next
<1> QED
  BY <1>1, <1>2, SpaceInvariant, PTL DEF Spec

(* No two threads fill the same segment, and a segment that is RESERVED    *)
(* has a thread that will use it or give it back.                          *)
THEOREM ReservedHasOwner == Spec => []ReservedIsHeld
<1>1. SpaceInv => ReservedIsHeld
  BY DEF SpaceInv
<1> QED
  BY <1>1, SpaceInvariant, PTL

(* The segments a merge has chosen stay USED until that merge frees them,  *)
(* whatever the writers do meanwhile, and it frees none of them twice.     *)
THEOREM CandidatesKept == Spec => []MergeOwnsCandidates
<1>1. SpaceInv => MergeOwnsCandidates
  BY DEF SpaceInv
<1> QED
  BY <1>1, SpaceInvariant, PTL

(* Every variable keeps its type.                                          *)
THEOREM TypeCorrect == Spec => []TypeOK
<1>1. ControlInv /\ SpaceInv => TypeOK
  BY DEF ControlInv, ControlTypeOK, SpaceInv, TypeOK
<1> QED
  BY <1>1, SpaceInvariant, PTL
=============================================================================
