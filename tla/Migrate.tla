------------------------------- MODULE Migrate -------------------------------
(***************************************************************************)
(* The two tiers of DS_MultiTier_Impl: clients write segments to the one   *)
(* volume of the fast tier (src/src/Tier.cc), and when it has no segment   *)
(* left the writer itself, under allocMtx_, moves live records to a volume *)
(* of the medium tier (src/src/Migrate.cc); the migration thread does so   *)
(* all the time.  Migrate::mtx_ admits one of them.                        *)
(*                                                                         *)
(* The segment table of SegmentManager is the fast volume's.  A medium     *)
(* volume is written by migrations alone here (its own garbage collection  *)
(* is GcManager's), so it is the sequence of its USED segments.  A record  *)
(* is the write that produced it and has size 1; stamps of segments differ.*)
(***************************************************************************)
EXTENDS SegmentManager, SequencesExt

CONSTANTS Keys, Writes, Batches,
          KeyOf,          (* the key of each write                         *)
          Deletes,        (* the writes without data                       *)
          Items,          (* the writes of each batch, in order            *)
          Together,       (* batches updated by UpdateIndexes, batch_mtx_  *)
          Reaped,         (* batches whose tombstones go to the reaper     *)
          volNum,         (* volNum_ of the medium tier                    *)
          MediumSegNum,   (* segments of each medium volume                *)
          MediumSegSize,  (* secondary_seg_size                            *)
          NoEntry,
          MaxFailures,    (* bound on the writes a device refuses          *)
          MaxBack         (* bound on the turns of the migration thread    *)

MediumVols == 0 .. volNum - 1
Fast == 100        (* FastTierVolId: a volume number like any other        *)
Other == -1

(* The write an entry was made for, the address of its record, its time.   *)
Entries ==
  [write : Writes, vol : MediumVols \cup {Fast}, seg : Nat, pos : Nat \ {0}, stamp : Nat]

(* A write belongs to one batch, and a batch fits into a segment of the    *)
(* fast tier: TryPut and PutNonCheck fill it that far.                     *)
ASSUME MigrateAssumption ==
  /\ KeyOf \in [Writes -> Keys]
  /\ Deletes \subseteq Writes
  /\ Items \in [Batches -> Seq(Writes)]
  /\ \A b \in Batches : Len(Items[b]) \in 1 .. SegSize - SegHeader
  /\ \A b, c \in Batches : \A m \in DOMAIN Items[b], n \in DOMAIN Items[c] :
       Items[b][m] = Items[c][n] => b = c /\ m = n
  /\ {Together, Reaped} \subseteq SUBSET Batches
  /\ NoEntry \notin Entries /\ "thread" \notin Batches
  /\ {MediumSegSize, MaxBack, MaxFailures} \subseteq Nat
  /\ volNum \in 1 .. 100
  /\ MediumSegNum \in [MediumVols -> Nat]

VARIABLES content,   (* the records of the fast volume, by segment         *)
          medium,    (* of each medium volume, its segments: records, death *)
          index,     (* the entry of each key: write, address and stamp    *)
          clock,     (* the time of the last segment written               *)
          batch,     (* where each batch is and its local variables        *)
          pickVolId, (* pickVolId_                                         *)
          failures,  (* writes refused by a device                         *)
          thread,    (* the migration thread: where it is, volume, turns   *)
          mig,       (* doMigrate: who runs it and its local variables     *)
          tried,     (* history: the volumes a batch tried, and Other if   *)
                     (* the thread moved pickVolId_ meanwhile              *)
          before,    (* history: the batches done when a batch began       *)
          slips      (* history: what the code does not guard against      *)

dataVars == <<segVars, content, medium, index, clock>>
history == <<tried, before, slips>>
vars == <<dataVars, batch, pickVolId, failures, thread, mig, history>>

NewBatch == [at |-> "new", seg |-> 0, stamp |-> 0, next |-> 1, left |-> 0, vol |-> 0]
NoMigration == [at |-> "idle", owner |-> NoEntry, vol |-> 0, cands |-> <<>>, pos |-> 1,
                loaded |-> <<>>, list |-> <<>>, frees |-> <<>>, stamp |-> 0]

Init ==
  /\ SegInit
  /\ content = [s \in Segs |-> <<>>]
  /\ medium = [v \in MediumVols |-> <<>>]
  /\ index = [k \in Keys |-> NoEntry]
  /\ clock = 0
  /\ batch = [b \in Batches |-> NewBatch]
  /\ pickVolId = -1
  /\ failures = 0
  /\ thread = [at |-> "idle", vol |-> 0, turns |-> 0]
  /\ mig = NoMigration
  /\ tried = [b \in Batches |-> {}]
  /\ before = [b \in Batches |-> {}]
  /\ slips = {}

Done == {b \in Batches : batch[b].at = "done"}

(* A write that fails, of a client or of a migration.                      *)
DeviceRefuses == failures < MaxFailures /\ failures' = failures + 1

-----------------------------------------------------------------------------
(* The index, and the deaths it charges to the segments of both tiers. *)

Entry(w, v, s, n, t) == [write |-> w, vol |-> v, seg |-> s, pos |-> n, stamp |-> t]

Tombstone(e) == e.write \in Deletes

(* Mutant: every entry is taken for one of the fast tier.                  *)
MutLocated(e) == Fast

(* locateTierFromEntry and getVolIdFromEntry.                              *)
Located(e) == e.vol

(* ModifyDeathEntry for each entry of es, at most one in a volume's segment. *)
ModifyDeathEntries(es) ==
  /\ segTable' = [s \in Segs |->
       IF \E e \in es : Located(e) = Fast /\ e.seg = s
       THEN WithDeath(segTable, s, 1)[s] ELSE segTable[s]]
  /\ medium' = [v \in MediumVols |-> [s \in DOMAIN medium[v] |->
       IF \E e \in es : Located(e) = v /\ e.seg = s
       THEN [medium[v][s] EXCEPT !.death = @ + 1] ELSE medium[v][s]]]
  /\ UNCHANGED <<curSegId, counters>>

BatchOf(w) == CHOOSE b \in Batches : \E n \in DOMAIN Items[b] : Items[b][n] = w

(* A write that the index drops as expired though it is the newer one: the *)
(* entry in memory is a copy, stamped when it was moved.                   *)
DropsNewer(e, inMem) ==
  /\ inMem # NoEntry
  /\ e.stamp < inMem.stamp
  /\ e.stamp > batch[BatchOf(inMem.write)].stamp

(* UpdateIndex of a client.                                                *)
UpdateIndex(e) ==
  LET k == KeyOf[e.write]
      inMem == index[k]
      nothing == inMem = NoEntry
      expired == ~nothing /\ e.stamp < inMem.stamp
  IN /\ index' = IF expired \/ (nothing /\ Tombstone(e)) THEN index
                 ELSE [index EXCEPT ![k] = e]
     /\ ModifyDeathEntries(IF expired \/ (nothing /\ Tombstone(e)) THEN {e}
                           ELSE IF nothing THEN {} ELSE {inMem})
     /\ slips' = IF DropsNewer(e, inMem) THEN slips \cup {"restamped"} ELSE slips

(* Mutant: every record of the key counts as the current one.              *)
MutIsSameInMem(e) == index[KeyOf[e.write]] # NoEntry

(* IsSameInMem compares addresses.                                         *)
IsSameInMem(e) ==
  LET inMem == index[KeyOf[e.write]]
  IN inMem # NoEntry /\ <<inMem.vol, inMem.seg, inMem.pos>> = <<e.vol, e.seg, e.pos>>

-----------------------------------------------------------------------------
(* allocSegment of the fast tier. *)

InAllocSegment(b) == batch[b].at \in {"try", "take", "migrate", "moving"}

(* Mutant: allocMtx_ is not taken.                                         *)
MutAllocMtxFree == TRUE

AllocMtxFree == \A b \in Batches : ~InAllocSegment(b)

AllocSegment(b) ==
  /\ batch[b].at = "new" /\ AllocMtxFree
  /\ batch' = [batch EXCEPT ![b] = [@ EXCEPT !.at = "try", !.left = volNum]]
  /\ before' = [before EXCEPT ![b] = Done]
  /\ UNCHANGED <<dataVars, pickVolId, thread, mig, failures, tried, slips>>

(* Alloc, first half: more than SEG_RESERVED_FOR_GC segments are free.     *)
TryAlloc(b) ==
  /\ batch[b].at = "try"
  /\ AllocAllowed
  /\ batch' = [batch EXCEPT ![b].at = "take"]
  /\ UNCHANGED <<dataVars, pickVolId, thread, mig, failures, history>>

TakeSegment(b) ==
  /\ batch[b].at = "take"
  /\ \E s \in Segs : AllocForGC(s) /\ batch' = [batch EXCEPT ![b].at = "write", ![b].seg = s]
  /\ UNCHANGED <<content, medium, index, clock, pickVolId, thread, mig, failures, history>>

(* "Can't allocate a Empty Segment."                                       *)
Refuse(b) ==
  /\ batch[b].at = "try"
  /\ ~AllocAllowed /\ batch[b].left = 0
  /\ batch' = [batch EXCEPT ![b].at = "refused"]
  /\ UNCHANGED <<dataVars, pickVolId, thread, mig, failures, history>>

(* Mutant: the first volume is picked again and again.                     *)
MutPicked == 0

(* PickVolForMigrate, under volIdMtx_.                                     *)
Picked == IF pickVolId = volNum - 1 THEN 0 ELSE pickVolId + 1

(* Mutant: mt_vol_num-- is forgotten.                                      *)
MutTriesLeft(b) == batch[b].left

TriesLeft(b) == batch[b].left - 1

PickForClient(b) ==
  /\ batch[b].at = "try"
  /\ ~AllocAllowed /\ batch[b].left > 0
  /\ pickVolId' = Picked
  /\ batch' = [batch EXCEPT ![b] =
                 [@ EXCEPT !.at = "migrate", !.vol = Picked, !.left = TriesLeft(b)]]
  /\ tried' = [tried EXCEPT ![b] = @ \cup {Picked}]
  /\ UNCHANGED <<dataVars, thread, mig, failures, before, slips>>

-----------------------------------------------------------------------------
(* Who migrates. *)

(* SortSegsByTS and the SegForMigrate; the bounds of both callers admit    *)
(* every USED segment.                                                     *)
StartMigration(owner, vol) ==
  \E q \in CandMap(InState("USED")) :
    mig' = [NoMigration EXCEPT !.at = "load", !.owner = owner, !.vol = vol, !.cands = q]

(* ForeMigrate, which does nothing if the fast tier has room by now.       *)
ForeMigrate(b) ==
  /\ batch[b].at = "migrate"
  /\ mig.at = "idle"
  /\ IF AllocAllowed
     THEN batch' = [batch EXCEPT ![b].at = "try"] /\ UNCHANGED mig
     ELSE batch' = [batch EXCEPT ![b].at = "moving"] /\ StartMigration(b, batch[b].vol)
  /\ UNCHANGED <<dataVars, pickVolId, thread, failures, history>>

(* The test of util_rate > 0.1 and the pick in MigrationThdEntry.          *)
ThreadPicks ==
  /\ thread.at = "idle" /\ thread.turns < MaxBack
  /\ 10 * (SegNum - freedCounter) > SegNum
  /\ pickVolId' = Picked
  /\ thread' = [at |-> "migrate", vol |-> Picked, turns |-> thread.turns + 1]
  /\ tried' = [b \in Batches |-> IF InAllocSegment(b) THEN tried[b] \cup {Other} ELSE tried[b]]
  /\ UNCHANGED <<dataVars, batch, mig, failures, before, slips>>

BackMigrate ==
  /\ thread.at = "migrate"
  /\ mig.at = "idle"
  /\ thread' = [thread EXCEPT !.at = "moving"]
  /\ StartMigration("thread", thread.vol)
  /\ UNCHANGED <<dataVars, batch, pickVolId, failures, history>>

(* doMigrate returns and mtx_ is released.                                 *)
EndMigration ==
  /\ mig' = NoMigration
  /\ IF mig.owner = "thread"
     THEN thread' = [thread EXCEPT !.at = "idle"] /\ UNCHANGED batch
     ELSE batch' = [batch EXCEPT ![mig.owner].at = "try"] /\ UNCHANGED thread

OthersKeep == UNCHANGED <<clock, batch, pickVolId, thread, tried, failures, before>>

-----------------------------------------------------------------------------
(* doMigrate. *)

(* The writer of record n of fast segment s has yet to index it.           *)
Unindexed(s, n) ==
  \E b \in Batches : batch[b].at = "update" /\ batch[b].seg = s /\ n >= batch[b].next

(* One turn of loadSegKV: a record is moved if the index points to it and  *)
(* it has data.                                                            *)
LoadEntry ==
  /\ mig.at = "load" /\ mig.cands # <<>>
  /\ LET s == Head(mig.cands)
         e == Entry(content[s][mig.pos], Fast, s, mig.pos, 0)
     IN /\ mig.pos \in DOMAIN content[s]
        /\ mig' = [mig EXCEPT !.pos = @ + 1,
                     !.loaded = IF IsSameInMem(e) /\ ~Tombstone(e) THEN Append(@, e) ELSE @]
        /\ slips' = slips
             \cup (IF IsSameInMem(e) /\ Tombstone(e) THEN {"tombstone"} ELSE {})
             \cup (IF Unindexed(s, mig.pos) THEN {"unindexed"} ELSE {})
  /\ UNCHANGED <<segVars, content, medium, index>> /\ OthersKeep

(* Mutant: a candidate that does not fit is freed all the same.            *)
MutAbsorbed(s, fits) == Append(mig.frees, s)

(* free_seg_vec after the candidate s.                                     *)
Absorbed(s, fits) == IF fits THEN Append(mig.frees, s) ELSE mig.frees

(* TryPutList of n records.                                                *)
TryPutList(n) == MediumSegSize - SegHeader - Len(mig.list) > n

(* The end of one candidate: all of it goes into the segment, or the loop  *)
(* over the candidates is left.                                            *)
PackCandidate ==
  /\ mig.at = "load" /\ mig.cands # <<>>
  /\ mig.pos \notin DOMAIN content[Head(mig.cands)]
  /\ LET s == Head(mig.cands)
         fits == TryPutList(Len(mig.loaded))
     IN mig' = [mig EXCEPT !.list = IF fits THEN @ \o mig.loaded ELSE @,
                           !.frees = Absorbed(s, fits),
                           !.loaded = <<>>, !.pos = 1,
                           !.cands = IF fits THEN Tail(@) ELSE <<>>]
  /\ UNCHANGED <<segVars, content, medium, index, slips>> /\ OthersKeep

(* mt_vol->Alloc: true while more than the reserve is free.                *)
MediumHasRoom(v) == MediumSegNum[v] - Len(medium[v]) > SEG_RESERVED_FOR_GC

(* "The Medium Tier Volume is Full", or the write fails and the segment is *)
(* given back.                                                             *)
MigrationFails ==
  /\ mig.at = "load" /\ mig.cands = <<>>
  /\ IF MediumHasRoom(mig.vol) THEN DeviceRefuses ELSE UNCHANGED failures
  /\ EndMigration
  /\ UNCHANGED <<dataVars, pickVolId, history>>

(* Alloc, WriteSegToDevice and Use, also when there is nothing to write;   *)
(* then UpdateToIndex waits for batch_mtx_.                                *)
WriteMigrated ==
  /\ mig.at = "load" /\ mig.cands = <<>>
  /\ MediumHasRoom(mig.vol)
  /\ clock' = clock + 1
  /\ medium' = [medium EXCEPT ![mig.vol] =
       Append(@, [records |-> [n \in DOMAIN mig.list |-> mig.list[n].write], death |-> 0])]
  /\ mig' = [mig EXCEPT !.at = "lock", !.stamp = clock']
  /\ UNCHANGED <<segVars, content, index, batch, pickVolId, thread, failures, history>>

(* Between two entries of its list a batch keeps batch_mtx_.               *)
BatchMtxFree ==
  /\ mig.at \notin {"test", "put"}
  /\ \A b \in Together : ~(batch[b].at = "update" /\ batch[b].next > 1)

LockBatchMtx ==
  /\ mig.at = "lock" /\ BatchMtxFree
  /\ mig' = [mig EXCEPT !.at = "test"]
  /\ UNCHANGED <<segVars, content, medium, index, slips>> /\ OthersKeep

(* The entry fillEntryToSlice made of the next record, and the one it had. *)
Moved == Entry(mig.list[mig.pos].write, mig.vol, Len(medium[mig.vol]), mig.pos, mig.stamp)
BeforeGC == mig.list[mig.pos]

(* UpdateIndex with gc_update: IsSameInMem, under the slot's mutex.        *)
TestSame ==
  /\ mig.at = "test" /\ mig.pos \in DOMAIN mig.list
  /\ IF IsSameInMem(BeforeGC)
     THEN mig' = [mig EXCEPT !.at = "put"]
          /\ UNCHANGED <<segTable, curSegId, counters, medium>>
     ELSE mig' = [mig EXCEPT !.pos = @ + 1] /\ ModifyDeathEntries({Moved})
  /\ UNCHANGED <<content, index, slips>> /\ OthersKeep

(* The put, with the mutex taken anew, whatever is in memory by now.       *)
PutMoved ==
  /\ mig.at = "put"
  /\ index' = [index EXCEPT ![KeyOf[Moved.write]] = Moved]
  /\ ModifyDeathEntries({BeforeGC})
  /\ slips' = IF IsSameInMem(BeforeGC) THEN slips ELSE slips \cup {"overtaken"}
  /\ mig' = [mig EXCEPT !.at = "test", !.pos = @ + 1]
  /\ UNCHANGED content /\ OthersKeep

IndexUpdated ==
  /\ mig.at = "test" /\ mig.pos \notin DOMAIN mig.list
  /\ mig' = [mig EXCEPT !.at = "free"]
  /\ UNCHANGED <<segVars, content, medium, index, slips>> /\ OthersKeep

FreeMigrated ==
  /\ mig.at = "free" /\ mig.frees # <<>>
  /\ FreeForGC(Head(mig.frees))
  /\ mig' = [mig EXCEPT !.frees = Tail(@)]
  /\ UNCHANGED <<content, medium, index, slips>> /\ OthersKeep

MigrationDone ==
  /\ mig.at = "free" /\ mig.frees = <<>>
  /\ EndMigration
  /\ UNCHANGED <<dataVars, pickVolId, failures, history>>

doMigrate ==
  \/ LoadEntry \/ PackCandidate \/ MigrationFails \/ WriteMigrated
  \/ LockBatchMtx \/ TestSame \/ PutMoved \/ IndexUpdated
  \/ FreeMigrated \/ MigrationDone

-----------------------------------------------------------------------------
(* The rest of a client's write, and the reaper. *)

(* WriteSegToDevice, which stamps the entries, and Use.                    *)
WriteSeg(b) ==
  /\ batch[b].at = "write"
  /\ clock' = clock + 1
  /\ content' = [content EXCEPT ![batch[b].seg] = Items[b]]
  /\ Use(batch[b].seg, SegSize - SegHeader - Len(Items[b]))
  /\ batch' = [batch EXCEPT ![b] = [@ EXCEPT !.at = "update", !.stamp = clock']]
  /\ UNCHANGED <<medium, index, pickVolId, thread, mig, failures, history>>

WriteSegFails(b) ==
  /\ batch[b].at = "write"
  /\ DeviceRefuses
  /\ FreeForFailed(batch[b].seg)
  /\ batch' = [batch EXCEPT ![b].at = "failed"]
  /\ UNCHANGED <<content, medium, index, clock, pickVolId, thread, mig, history>>

(* One entry of UpdateToIndex, or the UpdateIndex of one request.          *)
BatchUpdate(b) ==
  /\ batch[b].at = "update"
  /\ b \in Together /\ batch[b].next = 1 => BatchMtxFree
  /\ LET n == batch[b].next
         last == n = Len(Items[b])
     IN /\ UpdateIndex(Entry(Items[b][n], Fast, batch[b].seg, n, batch[b].stamp))
        /\ batch' = [batch EXCEPT ![b] =
             [@ EXCEPT !.at = IF ~last THEN "update" ELSE IF b \in Reaped THEN "reap" ELSE "done",
                       !.next = IF last THEN 1 ELSE n + 1]]
  /\ UNCHANGED <<content, clock, pickVolId, thread, mig, tried, failures, before>>

(* RemoveEntry for one write of the segment.                               *)
Reap(b) ==
  /\ batch[b].at = "reap"
  /\ LET n == batch[b].next
         w == Items[b][n]
         k == KeyOf[w]
         removed == /\ w \in Deletes
                    /\ index[k] # NoEntry
                    /\ index[k].stamp = batch[b].stamp
                    /\ Tombstone(index[k])
     IN /\ index' = IF removed THEN [index EXCEPT ![k] = NoEntry] ELSE index
        /\ ModifyDeathEntries(
             IF removed THEN {Entry(w, Fast, batch[b].seg, n, batch[b].stamp)} ELSE {})
        /\ batch' = [batch EXCEPT ![b] =
             [@ EXCEPT !.at = IF n = Len(Items[b]) THEN "done" ELSE "reap", !.next = n + 1]]
  /\ UNCHANGED <<content, clock, pickVolId, thread, mig, failures, history>>

Write(b) ==
  \/ AllocSegment(b) \/ TryAlloc(b) \/ TakeSegment(b) \/ Refuse(b)
  \/ PickForClient(b) \/ ForeMigrate(b)
  \/ WriteSeg(b) \/ WriteSegFails(b) \/ BatchUpdate(b) \/ Reap(b)

Next == (\E b \in Batches : Write(b)) \/ ThreadPicks \/ BackMigrate \/ doMigrate

Spec == Init /\ [][Next]_vars

(* The threads run on.                                                     *)
FairSpec ==
  Spec /\ WF_vars(\E b \in Batches : Write(b)) /\ WF_vars(BackMigrate) /\ WF_vars(doMigrate)

-----------------------------------------------------------------------------
(* Properties. *)

MaybeEntries == Entries \cup {NoEntry}

BatchAt == {"new", "try", "take", "migrate", "moving", "write", "update", "reap",
            "done", "refused", "failed"}
BatchRecord == [at : BatchAt, seg : Segs, stamp : Nat, next : Nat \ {0},
                left : 0 .. volNum, vol : MediumVols]

MigRecord == [at : {"idle", "load", "lock", "test", "put", "free"},
              owner : Batches \cup {"thread", NoEntry}, vol : MediumVols,
              cands : Seq(Segs), pos : Nat \ {0}, loaded : Seq(Entries),
              list : Seq(Entries), frees : Seq(Segs), stamp : Nat]

TypeOK ==
  /\ SegTypeOK
  /\ content \in [Segs -> Seq(Writes)]
  /\ medium \in [MediumVols -> Seq([records : Seq(Writes), death : Nat])]
  /\ index \in [Keys -> MaybeEntries]
  /\ clock \in Nat
  /\ batch \in [Batches -> BatchRecord]
  /\ pickVolId \in MediumVols \cup {-1}
  /\ failures \in 0 .. MaxFailures
  /\ thread \in [at : {"idle", "migrate", "moving"}, vol : MediumVols, turns : 0 .. MaxBack]
  /\ mig \in MigRecord
  /\ tried \in [Batches -> SUBSET (MediumVols \cup {Other})]
  /\ before \in [Batches -> SUBSET Batches]
  /\ slips \subseteq {"restamped", "tombstone", "unindexed", "overtaken"}

(* One writer is in allocSegment, and it is there that a migration finds   *)
(* it when it returns.                                                     *)
OneInAlloc ==
  /\ \A b, c \in Batches : InAllocSegment(b) /\ InAllocSegment(c) => b = c
  /\ mig.at # "idle" /\ mig.owner # "thread" =>
       mig.owner \in Batches /\ batch[mig.owner].at = "moving"

(* No medium volume gets more segments than it has.                        *)
MediumFits == \A v \in MediumVols : Len(medium[v]) <= MediumSegNum[v]

(* The writers of the fast tier never eat into the reserve: unlike on a    *)
(* plain volume, the test and the scan of Alloc are under one mutex.       *)
ReserveKept == SegNum > SEG_RESERVED_FOR_GC => freedCounter >= SEG_RESERVED_FOR_GC

(* The records of the address in e.                                        *)
RecordsAt(e) == IF e.vol = Fast THEN content[e.seg] ELSE medium[e.vol][e.seg].records

(* e leads to its record, and fast segments with records are USED.         *)
Housed(e) ==
  /\ IF e.vol = Fast THEN segTable[e.seg].state = "USED" ELSE e.seg \in DOMAIN medium[e.vol]
  /\ e.pos \in DOMAIN RecordsAt(e)
  /\ RecordsAt(e)[e.pos] = e.write

(* Every entry leads to its record in the tier it names, at every moment   *)
(* of a migration, unless one met a record not yet indexed or was          *)
(* overtaken between test and put; only tombstones are left behind.        *)
EntriesAreHoused ==
  slips \subseteq {"restamped", "tombstone"} =>
    \A k \in Keys : index[k] # NoEntry =>
      /\ KeyOf[index[k].write] = k
      /\ Housed(index[k]) \/ ("tombstone" \in slips /\ Tombstone(index[k]))

(* No batch that began after w's was done has written the key and is done. *)
NotOvertaken(w) ==
  \A d \in Done : (\E n \in DOMAIN Items[d] : KeyOf[Items[d][n]] = KeyOf[w]) =>
    BatchOf(w) \notin before[d]

AppliedDelete(w) == w \in Deletes /\ batch[BatchOf(w)].at \in {"update", "reap", "done"}

(* A read finds the last completed write of a key or one concurrent with   *)
(* it, in whichever tier, unless the new stamp of a migration drove out a  *)
(* newer write, it was overtaken, or it freed a record not yet indexed.    *)
LatestVisible ==
  slips \subseteq {"tombstone"} =>
    \A k \in Keys :
      IF index[k] # NoEntry
      THEN NotOvertaken(index[k].write)
      ELSE \/ \A d \in Done : \A n \in DOMAIN Items[d] :
                KeyOf[Items[d][n]] = k => Items[d][n] \in Deletes
           \/ \E w \in Writes : KeyOf[w] = k /\ AppliedDelete(w) /\ NotOvertaken(w)

(* Records of segment s of volume v that are neither indexed nor about to  *)
(* be.                                                                     *)
DeadRecords(v, s, records) ==
  {n \in DOMAIN records :
     /\ ~IsSameInMem(Entry(records[n], v, s, n, 0))
     /\ v = Fast => ~Unindexed(s, n)
     /\ ~(mig.at \in {"lock", "test", "put"} /\ mig.vol = v /\ s = Len(medium[v]) /\ n >= mig.pos)}

(* What both tiers count as dead is dead and nothing else, also while a    *)
(* migration that loses against a client gives up its copy.                *)
DeathIsExact ==
  slips \subseteq {"restamped"} =>
    /\ \A s \in InState("USED") :
         segTable[s].death_size = Cardinality(DeadRecords(Fast, s, content[s]))
    /\ \A v \in MediumVols : \A s \in DOMAIN medium[v] :
         medium[v][s].death = Cardinality(DeadRecords(v, s, medium[v][s].records))

(* A write is refused for want of space only after every medium volume has *)
(* been tried, if the migration thread has not moved the turn on meanwhile. *)
RefusedTriedAll ==
  \A b \in Batches : batch[b].at = "refused" => MediumVols \subseteq tried[b] \/ Other \in tried[b]

(* Types, who may allocate, and where the entries lie, at every step.      *)
Consistent == TypeOK /\ OneInAlloc /\ MediumFits /\ EntriesAreHoused

(* A writer that holds allocMtx_ gets a segment or gives up, also when the *)
(* medium tier is full: the others never wait for ever.                    *)
AllocReturns == []<>AllocMtxFree
=============================================================================
