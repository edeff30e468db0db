------------------------------- MODULE SegAlloc -------------------------------
(***************************************************************************)
(* The threads that compete for the segments of one volume.                *)
(*                                                                         *)
(* Writers are the threads that fill a segment with client data: the       *)
(* segment-write workers of DS_MultiVolume_Impl::SegWrite and the clients  *)
(* in writeDataImmediately and WriteBatchData.  Each loops                 *)
(*     while (!vol->Alloc(seg_id)) { if (!vol->ForeGC()) give up; }        *)
(* then writes the segment and calls Use or FreeForFailed.  BackThread is  *)
(* the thread that runs GcManager::BackGC or FullGC.  gcMtx_ admits one    *)
(* merge at a time.  What a merge copies is in GcManager; here a merge     *)
(* only takes and gives back segments.                                     *)
(*                                                                         *)
(* The two halves of Alloc are separate steps: between them any number of  *)
(* other threads may pass the same test.                                   *)
(***************************************************************************)
EXTENDS SegmentManager

CONSTANTS Writers,     (* threads that allocate through Alloc              *)
          BackThread,  (* the thread of BackGC and FullGC                  *)
          NoThread     (* gcMtx_ is free                                   *)

ASSUME SegAllocAssumption ==
  /\ IsFiniteSet(Writers)
  /\ BackThread \notin Writers
  /\ NoThread \notin Writers \cup {BackThread}

VARIABLES pc,       (* where each thread is                                *)
          held,     (* the set of segments a thread has reserved           *)
          gcOwner,  (* holder of gcMtx_                                    *)
          cands,    (* cand_map of the merge in progress                   *)
          toFree,   (* free_seg_vec, not yet freed                         *)
          totalFree,(* total_free of doMerge                               *)
          lastSeg,  (* {last_seg_id} when need_flag, else {}               *)
          leaked,   (* history: segments that oversized batches have left  *)
          unread    (* history: has a merge read none of its candidates?   *)

vars == <<segTable, curSegId, usedCounter, freedCounter, reservedCounter,
          pc, held, gcOwner, cands, toFree, totalFree, lastSeg, leaked, unread>>

Threads == Writers \cup {BackThread}
mergeVars == <<cands, toFree, totalFree, lastSeg>>
mishaps == <<leaked, unread>>

(* Every segment is written full: sizes do not matter here.                *)
FreeSize == 0

WriterPcs == {"idle", "alloc", "scan", "filling", "needGC"}
MergePcs == {"sort", "alloc1", "write1", "free1", "alloc2", "write2", "free2"}
StuckPcs == {"spin", "wild"}

Init ==
  /\ SegInit
  /\ pc = [t \in Threads |-> "idle"]
  /\ held = [t \in Threads |-> {}]
  /\ gcOwner = NoThread
  /\ cands = {}
  /\ toFree = {}
  /\ totalFree = 0
  /\ lastSeg = {}
  /\ leaked = {}
  /\ unread = FALSE

Goto(t, l) == pc' = [pc EXCEPT ![t] = l]

(* mtx_ is available: no thread is spinning in AllocForGC.                 *)
MtxFree == \A t \in Threads : pc[t] # "spin"

-----------------------------------------------------------------------------
(* A writer. *)

StartWrite(w) ==
  /\ pc[w] = "idle"
  /\ Goto(w, "alloc")
  /\ UNCHANGED <<segVars, held, gcOwner, mergeVars, mishaps>>

(* Mutant: the reserve is not respected when the volume is nearly full.    *)
MutAllocCheck(w) ==
  /\ pc[w] = "alloc"
  /\ MtxFree
  /\ IF freedCounter > 0 THEN Goto(w, "scan") ELSE Goto(w, "needGC")
  /\ UNCHANGED <<segVars, held, gcOwner, mergeVars, mishaps>>

AllocCheck(w) ==
  /\ pc[w] = "alloc"
  /\ MtxFree
  /\ IF AllocAllowed THEN Goto(w, "scan") ELSE Goto(w, "needGC")
  /\ UNCHANGED <<segVars, held, gcOwner, mergeVars, mishaps>>

(* The scan of thread t: it finds a segment and goes on at ok, or returns  *)
(* false and goes on at failed, or never returns.                          *)
Scan(t, ok, failed) ==
  /\ MtxFree
  /\ \/ \E s \in Segs :
          /\ AllocForGC(s)
          /\ held' = [held EXCEPT ![t] = @ \cup {s}]
          /\ Goto(t, ok)
     \/ AllocForGCFails /\ Goto(t, failed) /\ UNCHANGED <<segVars, held>>
     \/ AllocForGCSpins /\ Goto(t, "spin") /\ UNCHANGED <<segVars, held>>
  /\ UNCHANGED <<gcOwner, mergeVars, mishaps>>

AllocScanStep(w) ==
  /\ pc[w] = "scan"
  /\ Scan(w, "filling", "needGC")

(* WriteSegToDevice succeeds.                                              *)
WriteDone(w) ==
  /\ pc[w] = "filling"
  /\ MtxFree
  /\ \E s \in held[w] : Use(s, FreeSize)
  /\ held' = [held EXCEPT ![w] = {}]
  /\ Goto(w, "idle")
  /\ UNCHANGED <<gcOwner, mergeVars, mishaps>>

(* Mutant: the error path forgets to give the segment back.                *)
MutWriteFails(w) ==
  /\ pc[w] = "filling"
  /\ MtxFree
  /\ held' = [held EXCEPT ![w] = {}]
  /\ Goto(w, "idle")
  /\ UNCHANGED <<segVars, gcOwner, mergeVars, mishaps>>

(* WriteSegToDevice fails.                                                 *)
WriteFails(w) ==
  /\ pc[w] = "filling"
  /\ MtxFree
  /\ \E s \in held[w] : FreeForFailed(s)
  /\ held' = [held EXCEPT ![w] = {}]
  /\ Goto(w, "idle")
  /\ UNCHANGED <<gcOwner, mergeVars, mishaps>>

(* WriteBatchData: "The Batch is too large": returns Aborted and neither   *)
(* uses nor frees the segment.                                             *)
BatchTooLarge(w) ==
  /\ pc[w] = "filling"
  /\ held' = [held EXCEPT ![w] = {}]
  /\ leaked' = leaked \cup held[w]
  /\ Goto(w, "idle")
  /\ UNCHANGED <<segVars, gcOwner, mergeVars, unread>>

-----------------------------------------------------------------------------
(* Entering garbage collection. *)

(* ForeGC when another thread has already collected: return true.          *)
ForeGCNotNeeded(w) ==
  /\ pc[w] = "needGC"
  /\ gcOwner = NoThread
  /\ MtxFree
  /\ freedCounter > SEG_RESERVED_FOR_GC
  /\ Goto(w, "alloc")
  /\ UNCHANGED <<segVars, held, gcOwner, mergeVars, mishaps>>

ForeGCEnter(w) ==
  /\ pc[w] = "needGC"
  /\ gcOwner = NoThread
  /\ MtxFree
  /\ freedCounter <= SEG_RESERVED_FOR_GC
  /\ gcOwner' = w
  /\ Goto(w, "sort")
  /\ UNCHANGED <<segVars, held, mergeVars, mishaps>>

(* Mutant: the background merge does not take gcMtx_.                      *)
MutBackGCEnter ==
  /\ pc[BackThread] = "idle"
  /\ gcOwner' = BackThread
  /\ Goto(BackThread, "sort")
  /\ UNCHANGED <<segVars, held, mergeVars, mishaps>>

(* BackGC or FullGC takes gcMtx_ for one merge.  BackGC's water marks only *)
(* decide whether it comes here.                                           *)
BackGCEnter ==
  /\ pc[BackThread] = "idle"
  /\ gcOwner = NoThread
  /\ gcOwner' = BackThread
  /\ Goto(BackThread, "sort")
  /\ UNCHANGED <<segVars, held, mergeVars, mishaps>>

Leave(t, l) ==
  /\ gcOwner' = NoThread
  /\ Goto(t, l)

(* No candidate: ForeGC returns false and the writer gives up; BackGC and  *)
(* FullGC stop.                                                            *)
SortFindsNone(t) ==
  /\ pc[t] = "sort"
  /\ MtxFree
  /\ Leave(t, "idle")
  /\ UNCHANGED <<segVars, held, mergeVars, mishaps>>

(* The candidates are USED segments below the utilisation threshold: any   *)
(* set of them, since utilisation is not modelled.                         *)
SortFinds(t) ==
  /\ pc[t] = "sort"
  /\ MtxFree
  /\ \E C \in SUBSET InState("USED") \ {{}} : cands' = C
  /\ Goto(t, "alloc1")
  /\ UNCHANGED <<segVars, held, gcOwner, toFree, totalFree, lastSeg, mishaps>>

(* Loading the candidates and packing them into the first segment, then    *)
(* AllocForGC for it.  toFree are the candidates that were absorbed, at    *)
(* least one unless reading fails; lastSeg is the one that did not fit     *)
(* whole.  The result of AllocForGC is not tested: a failed scan leaves    *)
(* seg_first_id uninitialised and the merge goes on with it ("wild").      *)
GcAllocFirst(t) ==
  /\ pc[t] = "alloc1"
  /\ \E F \in SUBSET cands :
       /\ unread' = (unread \/ F = {})
       /\ toFree' = F
       /\ totalFree' = (Cardinality(F) - 1) % Word
       /\ \E L \in SUBSET (cands \ F) : Cardinality(L) <= 1 /\ lastSeg' = L
  /\ MtxFree
  /\ \/ \E s \in Segs :
          /\ AllocForGC(s)
          /\ held' = [held EXCEPT ![t] = @ \cup {s}]
          /\ Goto(t, "write1")
     \/ AllocForGCFails /\ Goto(t, "wild") /\ UNCHANGED <<segVars, held>>
     \/ AllocForGCSpins /\ Goto(t, "spin") /\ UNCHANGED <<segVars, held>>
  /\ cands' = {}
  /\ UNCHANGED <<gcOwner, leaked>>

(* Where a thread goes when doMerge returns n: ForeGC returns true when    *)
(* n # 0, and the writer tries Alloc again; otherwise it sorts again.  The *)
(* loops of BackGC and FullGC drop gcMtx_ between merges.                  *)
MergeReturns(t, n) ==
  /\ toFree' = {}
  /\ totalFree' = 0
  /\ lastSeg' = {}
  /\ \/ t = BackThread /\ Leave(t, "idle")
     \/ t # BackThread /\ n # 0 /\ Leave(t, "alloc")
     \/ t # BackThread /\ n = 0 /\ Goto(t, "sort") /\ UNCHANGED gcOwner

GcFirstWritten(t) ==
  /\ pc[t] = "write1"
  /\ MtxFree
  /\ \E s \in held[t] : Use(s, FreeSize)
  /\ held' = [held EXCEPT ![t] = {}]
  /\ Goto(t, "free1")
  /\ UNCHANGED <<gcOwner, mergeVars, mishaps>>

GcFirstFails(t) ==
  /\ pc[t] = "write1"
  /\ MtxFree
  /\ \E s \in held[t] : FreeForFailed(s)
  /\ held' = [held EXCEPT ![t] = {}]
  /\ MergeReturns(t, 0)
  /\ UNCHANGED <<cands, mishaps>>

(* One FreeForGC of the loop over free_seg_vec.                            *)
GcFreeFirst(t) ==
  /\ pc[t] = "free1"
  /\ MtxFree
  /\ \E s \in toFree :
       /\ FreeForGC(s)
       /\ toFree' = toFree \ {s}
  /\ UNCHANGED <<pc, held, gcOwner, cands, totalFree, lastSeg, mishaps>>

(* free_seg_vec is done: return, or go on with the second segment.         *)
GcFirstDone(t) ==
  /\ pc[t] = "free1"
  /\ toFree = {}
  /\ \/ /\ lastSeg = {}
        /\ MergeReturns(t, totalFree)
     \/ /\ lastSeg # {}
        /\ Goto(t, "alloc2")
        /\ UNCHANGED <<gcOwner, toFree, totalFree, lastSeg>>
  /\ UNCHANGED <<segVars, held, cands, mishaps>>

GcAllocSecond(t) ==
  /\ pc[t] = "alloc2"
  /\ Scan(t, "write2", "wild")

GcSecondWritten(t) ==
  /\ pc[t] = "write2"
  /\ MtxFree
  /\ \E s \in held[t] : Use(s, FreeSize)
  /\ held' = [held EXCEPT ![t] = {}]
  /\ Goto(t, "free2")
  /\ UNCHANGED <<gcOwner, mergeVars, mishaps>>

GcSecondFails(t) ==
  /\ pc[t] = "write2"
  /\ MtxFree
  /\ \E s \in held[t] : FreeForFailed(s)
  /\ held' = [held EXCEPT ![t] = {}]
  /\ MergeReturns(t, totalFree)
  /\ UNCHANGED <<cands, mishaps>>

GcFreeLast(t) ==
  /\ pc[t] = "free2"
  /\ MtxFree
  /\ \E s \in lastSeg : FreeForGC(s)
  /\ MergeReturns(t, totalFree)
  /\ UNCHANGED <<held, cands, mishaps>>

-----------------------------------------------------------------------------
WriterStep(w) ==
  \/ StartWrite(w) \/ AllocCheck(w) \/ AllocScanStep(w)
  \/ WriteDone(w) \/ WriteFails(w) \/ BatchTooLarge(w)
  \/ ForeGCNotNeeded(w) \/ ForeGCEnter(w)

MergeStep(t) ==
  \/ SortFindsNone(t) \/ SortFinds(t)
  \/ GcAllocFirst(t) \/ GcFirstWritten(t) \/ GcFirstFails(t)
  \/ GcFreeFirst(t) \/ GcFirstDone(t)
  \/ GcAllocSecond(t) \/ GcSecondWritten(t) \/ GcSecondFails(t) \/ GcFreeLast(t)

Next ==
  \/ \E w \in Writers : WriterStep(w)
  \/ BackGCEnter
  \/ \E t \in Threads : MergeStep(t)

Spec == Init /\ [][Next]_vars

-----------------------------------------------------------------------------
(* Properties. *)

TypeOK ==
  /\ SegTypeOK
  /\ pc \in [Threads -> WriterPcs \cup MergePcs \cup StuckPcs]
  /\ held \in [Threads -> SUBSET Segs]
  /\ gcOwner \in Threads \cup {NoThread}
  /\ cands \subseteq Segs
  /\ toFree \subseteq Segs
  /\ totalFree \in Nat
  /\ lastSeg \subseteq Segs
  /\ leaked \subseteq Segs
  /\ unread \in BOOLEAN

(* The three counters, kept by hand in six operations, are the numbers of  *)
(* segments in the three states: no path frees or uses a segment twice.    *)
CountersAgree ==
  /\ usedCounter = Cardinality(InState("USED"))
  /\ freedCounter = Cardinality(InState("FREE"))
  /\ reservedCounter = Cardinality(InState("RESERVED"))

(* A segment is RESERVED exactly while one thread holds it: two threads    *)
(* never fill the same segment, and the only ones that nobody will use or  *)
(* give back are those of batches that turned out too large.               *)
ReservedIsHeld ==
  /\ InState("RESERVED") = leaked \cup UNION {held[t] : t \in Threads}
  /\ \A t \in Threads : held[t] \cap leaked = {}
  /\ \A t, u \in Threads : t # u => held[t] \cap held[u] = {}

(* The segments a merge has chosen stay USED until the merge itself frees  *)
(* them, and the merge writes to none of them.                             *)
MergeOwnsCandidates ==
  /\ cands \cup toFree \cup lastSeg \subseteq InState("USED")
  /\ toFree \cap lastSeg = {}

(* One merge at a time, and only by the holder of gcMtx_.                  *)
MergeIsExclusive ==
  \A t \in Threads : pc[t] \in MergePcs => gcOwner = t

(* The reserve that Alloc keeps for garbage collection shrinks by at most  *)
(* one segment for each further thread that passes Alloc's test before the *)
(* first of them takes its segment.                                        *)
ReserveShrinksByRaces ==
  (gcOwner = NoThread /\ ~unread /\ SEG_RESERVED_FOR_GC < SegNum) =>
    freedCounter >= SEG_RESERVED_FOR_GC + 1 - Cardinality(Writers)

NoThreadStuck == \A t \in Threads : pc[t] \notin StuckPcs

(* No scan of AllocForGC comes back empty: garbage collection always has a *)
(* segment to merge into, and no thread spins with mtx_ held.  A merge     *)
(* that can read none of its candidates takes a segment and frees none:    *)
(* that is left aside.                                                     *)
GcFindsSegment == ~unread => NoThreadStuck

(* With at most SEG_RESERVED_FOR_GC threads that call Alloc, that is so.   *)
ReserveSuffices ==
  (Cardinality(Writers) <= SEG_RESERVED_FOR_GC /\ SEG_RESERVED_FOR_GC < SegNum) =>
    GcFindsSegment
-----------------------------------------------------------------------------
(* The inductive strengthening that the proofs use. *)

ControlTypeOK ==
  /\ pc \in [Threads -> WriterPcs \cup MergePcs \cup StuckPcs]
  /\ held \in [Threads -> SUBSET Segs]
  /\ gcOwner \in Threads \cup {NoThread}
  /\ cands \subseteq Segs
  /\ toFree \subseteq Segs
  /\ totalFree \in Nat
  /\ lastSeg \subseteq Segs
  /\ leaked \subseteq Segs
  /\ unread \in BOOLEAN

(* Only the holder of gcMtx_ is in a merge, and it is nowhere else.        *)
OwnerShape ==
  /\ MergeIsExclusive
  /\ \A t \in Threads : pc[t] = "wild" => gcOwner = t
  /\ \A t \in Threads : gcOwner = t => pc[t] \in MergePcs \cup StuckPcs
  /\ pc[BackThread] \in {"idle"} \cup MergePcs \cup StuckPcs

(* A thread has reserved one segment while it fills it, and none elsewhere.*)
HeldShape ==
  \A t \in Threads :
    IF pc[t] \in {"filling", "write1", "write2"}
    THEN \E s \in Segs : held[t] = {s}
    ELSE held[t] = {}

(* The local variables of the merge in progress, by where it is.           *)
MergeShape ==
  /\ gcOwner = NoThread => cands = {} /\ toFree = {} /\ lastSeg = {}
  /\ \A t \in Threads :
       /\ pc[t] = "sort" => cands = {} /\ toFree = {} /\ lastSeg = {}
       /\ pc[t] = "alloc1" => toFree = {} /\ lastSeg = {}
       /\ gcOwner = t /\ pc[t] # "alloc1" => cands = {}
       /\ pc[t] = "write1" => unread \/ toFree # {}
       /\ pc[t] \in {"alloc2", "write2", "free2"} => toFree = {} /\ lastSeg # {}

ControlInv == ControlTypeOK /\ OwnerShape /\ HeldShape /\ MergeShape

SpaceInv == SegTypeOK /\ CountersAgree /\ ReservedIsHeld /\ MergeOwnsCandidates

(* Writers that have passed Alloc's test and not yet taken a segment.      *)
Checked == {w \in Writers : pc[w] = "scan"}

(* A merge has taken a segment and not yet given one back.                 *)
Debt ==
  IF \E t \in Threads :
       \/ pc[t] \in {"write1", "write2", "free2"}
       \/ pc[t] = "free1" /\ toFree # {}
  THEN 1 ELSE 0

ReserveInv ==
  (~unread /\ SEG_RESERVED_FOR_GC < SegNum) =>
    freedCounter + Debt >=
      Cardinality(Checked) + SEG_RESERVED_FOR_GC + 1 - Cardinality(Writers)
=============================================================================
