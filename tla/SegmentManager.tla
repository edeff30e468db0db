--------------------------- MODULE SegmentManager ---------------------------
(***************************************************************************)
(* The segment table of one volume (src/src/SegmentManager.cc).  A volume  *)
(* is cut into segNum_ segments of equal size; every segment is FREE,      *)
(* RESERVED by the thread that will fill it, or USED.  All operations run  *)
(* under SegmentManager::mtx_, so each is one step here, except Alloc: it  *)
(* reads freedCounter_, drops the mutex and takes it again for the scan    *)
(* (AllocAllowed, then AllocForGC).                                        *)
(*                                                                         *)
(* This module holds the state and the operations.  Who calls them, and in *)
(* which order, is in SegAlloc (space only) and GcManager (space, index    *)
(* and data).  Sizes are counted in small units.                           *)
(***************************************************************************)
EXTENDS Integers, FiniteSets

CONSTANTS SegNum,              (* segNum_                                  *)
          SegSize,             (* segSize_, in units                       *)
          SegHeader,           (* SegBase::SizeOfSegOnDisk(), in units     *)
          SEG_RESERVED_FOR_GC, (* 2 in Db_Structure.h                      *)
          Word                 (* size of the range of a uint32_t          *)

ASSUME SegmentManagerAssumption ==
  /\ SegNum \in Nat \ {0}
  /\ SegSize \in Nat
  /\ SegHeader \in Nat
  /\ SegHeader < SegSize
  /\ SEG_RESERVED_FOR_GC \in Nat
  /\ Word \in Nat \ {0}

VARIABLES segTable,         (* segTable_: state, free_size, death_size     *)
          curSegId,         (* curSegId_                                   *)
          usedCounter,      (* usedCounter_                                *)
          freedCounter,     (* freedCounter_                               *)
          reservedCounter   (* reservedCounter_                            *)

counters == <<usedCounter, freedCounter, reservedCounter>>
segVars == <<segTable, curSegId, usedCounter, freedCounter, reservedCounter>>

Segs == 0 .. SegNum - 1
SegUseStat == {"FREE", "USED", "RESERVED"}
SegmentStat == [state : SegUseStat, free_size : Nat, death_size : Nat]

FreshStat == [state |-> "FREE", free_size |-> 0, death_size |-> 0]

InState(st) == {s \in Segs : segTable[s].state = st}

SegTypeOK ==
  /\ segTable \in [Segs -> SegmentStat]
  /\ curSegId \in Segs
  /\ usedCounter \in Int
  /\ freedCounter \in Int
  /\ reservedCounter \in Int

SegInit ==
  /\ segTable = [s \in Segs |-> FreshStat]
  /\ curSegId = 0
  /\ usedCounter = 0
  /\ freedCounter = SegNum
  /\ reservedCounter = 0

-----------------------------------------------------------------------------
(* Allocation. *)

(* The first half of Alloc: the test of freedCounter_ under the mutex.     *)
AllocAllowed == freedCounter > SEG_RESERVED_FOR_GC

(* Distance of a segment from curSegId_ in the order of the scan: the      *)
(* current one first, then upwards with wrap-around.                       *)
ScanDistance(s) == (s - curSegId) % SegNum

(* Mutant: the next search starts behind the segment found.                *)
MutAllocForGC(s) ==
  /\ s \in InState("FREE")
  /\ \A t \in InState("FREE") : ScanDistance(s) <= ScanDistance(t)
  /\ segTable' = [segTable EXCEPT ![s].state = "RESERVED"]
  /\ curSegId' = s + 1
  /\ reservedCounter' = reservedCounter + 1
  /\ freedCounter' = freedCounter - 1
  /\ UNCHANGED usedCounter

(* AllocForGC that finds the FREE segment s, the first in that order.      *)
(* AllocScan shows that the loop of the code, iteration by iteration, does *)
(* this.                                                                   *)
AllocForGC(s) ==
  /\ s \in InState("FREE")
  /\ \A t \in InState("FREE") : ScanDistance(s) <= ScanDistance(t)
  /\ segTable' = [segTable EXCEPT ![s].state = "RESERVED"]
  /\ curSegId' = s
  /\ reservedCounter' = reservedCounter + 1
  /\ freedCounter' = freedCounter - 1
  /\ UNCHANGED usedCounter

(* AllocForGC that returns false: the scan comes back to curSegId_.        *)
AllocForGCFails ==
  /\ InState("FREE") = {}
  /\ curSegId > 0

(* AllocForGC that never returns: with curSegId_ = 0 the index is reset to *)
(* 0 at the end of the table, tested, and incremented to 1 before the loop *)
(* condition looks at it.  The thread keeps mtx_.                          *)
AllocForGCSpins ==
  /\ InState("FREE") = {}
  /\ curSegId = 0

-----------------------------------------------------------------------------
(* Transitions of a segment. *)

Use(s, free_size) ==
  /\ segTable' = [segTable EXCEPT
                     ![s] = [@ EXCEPT !.state = "USED", !.free_size = free_size]]
  /\ reservedCounter' = reservedCounter - 1
  /\ usedCounter' = usedCounter + 1
  /\ UNCHANGED <<curSegId, freedCounter>>

(* Mutant: the counters of FreeForGC, for a segment that was RESERVED.     *)
MutFreeForFailed(s) ==
  /\ segTable' = [segTable EXCEPT ![s] = FreshStat]
  /\ usedCounter' = usedCounter - 1
  /\ freedCounter' = freedCounter + 1
  /\ UNCHANGED <<curSegId, reservedCounter>>

FreeForFailed(s) ==
  /\ segTable' = [segTable EXCEPT ![s] = FreshStat]
  /\ reservedCounter' = reservedCounter - 1
  /\ freedCounter' = freedCounter + 1
  /\ UNCHANGED <<curSegId, usedCounter>>

FreeForGC(s) ==
  /\ segTable' = [segTable EXCEPT ![s] = FreshStat]
  /\ usedCounter' = usedCounter - 1
  /\ freedCounter' = freedCounter + 1
  /\ UNCHANGED <<curSegId, reservedCounter>>

(* The table after death_size += n of AddDeathSize, whatever state the     *)
(* segment is in.                                                          *)
WithDeath(table, s, n) == [table EXCEPT ![s].death_size = @ + n]

-----------------------------------------------------------------------------
(* Candidates of garbage collection. *)

(* used_size of the sorts, a uint32_t: wraps when more bytes have died     *)
(* than the segment holds.                                                 *)
UsedSize(s) ==
  (SegSize - (segTable[s].free_size + segTable[s].death_size + SegHeader)) % Word

(* The keys of cand_map after SortSegsByUtils with the threshold thld.     *)
SegsByUtils(thld) == {s \in InState("USED") : UsedSize(s) < thld}

(* cand_map iterates by used_size, equal sizes in order of insertion, that *)
(* is of segment number.                                                   *)
SortsBefore(s, t) ==
  \/ UsedSize(s) < UsedSize(t)
  \/ UsedSize(s) = UsedSize(t) /\ s < t

(* What cand_map iterates over when it holds the segments of S: there is   *)
(* one order.                                                              *)
CandMap(S) ==
  {q \in [1 .. Cardinality(S) -> S] : \A i, j \in DOMAIN q : i < j => SortsBefore(q[i], q[j])}
=============================================================================
