------------------------------ MODULE GcManager ------------------------------
(***************************************************************************)
(* Space, index and data of one volume together: clients that write whole  *)
(* segments (WriteBatchData, writeDataImmediately, or a segment of the     *)
(* aggregated path whose requests are committed in order), the reaper,     *)
(* readers, and the merge of garbage collection (src/src/GcManager.cc).    *)
(* gcMtx_ admits one merge at a time, so there is one gc record.           *)
(*                                                                         *)
(* A record on the device is the write that produced it; a copy made by a  *)
(* merge is the same write at another place.  Every record has size 1.     *)
(* Alloc is one step here and nothing else takes segments, so AllocForGC   *)
(* finds one; what happens when it does not is in SegAlloc.                *)
(***************************************************************************)
EXTENDS SegmentManager, SequencesExt

CONSTANTS Keys, Writes, Batches,
          KeyOf,        (* the key of each write                           *)
          Deletes,      (* the writes without data                         *)
          Items,        (* the writes of each batch, in order              *)
          Reaped,       (* batches whose tombstones go to the reaper: those
                           of the aggregated path, no others               *)
          Readers,      (* reading clients, each reads once                *)
          NoEntry,
          Thld,         (* seg_full_rate * segSize_                        *)
          Overlap,      (* may others run while a merge does?              *)
          WriteMayFail, (* may the device refuse a write?                  *)
          MaxMerges     (* bound on the merges of a behaviour              *)

(* The write an entry was made for, the address of its record, its time.   *)
Entries == [write : Writes, seg : Segs, pos : Nat \ {0}, stamp : Nat]

ASSUME GcManagerAssumption ==
  /\ KeyOf \in [Writes -> Keys]
  /\ Deletes \subseteq Writes
  /\ Items \in [Batches -> Seq(Writes)]
  /\ \A b \in Batches : Len(Items[b]) \in 1 .. SegSize - SegHeader
  /\ \A b, c \in Batches : \A m \in DOMAIN Items[b], n \in DOMAIN Items[c] :
       Items[b][m] = Items[c][n] => b = c /\ m = n
  /\ Reaped \subseteq Batches
  /\ NoEntry \notin Writes \cup Entries
  /\ Thld \in Nat /\ MaxMerges \in Nat
  /\ SegSize < Word
  /\ {Overlap, WriteMayFail} \subseteq BOOLEAN

VARIABLES content, (* the records on the device, by segment                *)
          index,   (* the entry of each key: write, address and stamp      *)
          clock,   (* the time of the last segment written                 *)
          batch,   (* where each batch is, its segment, stamp and progress *)
          gc,      (* where the merge is and its local variables           *)
          merges,  (* merges begun                                         *)
          reader,  (* where each reader is, its entry and what it read     *)
          before,  (* history: the batches done when a batch began         *)
          dangling (* history: has a merge left an indexed tombstone behind? *)

history == <<before, dangling>>
vars == <<segVars, content, index, clock, batch, gc, merges, reader, history>>

NewBatch == [at |-> "new", seg |-> 0, stamp |-> 0, next |-> 1]
NoMerge == [at |-> "idle", cands |-> <<>>, pos |-> 1, list |-> <<>>, first |-> <<>>,
            frees |-> <<>>, last |-> {}, seg |-> 0, stamp |-> 0, freeAtStart |-> 0]

Init ==
  /\ SegInit
  /\ content = [s \in Segs |-> <<>>]
  /\ index = [k \in Keys |-> NoEntry]
  /\ clock = 0
  /\ batch = [b \in Batches |-> NewBatch]
  /\ gc = NoMerge
  /\ merges = 0
  /\ reader = [c \in Readers |-> [at |-> "new", entry |-> NoEntry, got |-> NoEntry]]
  /\ before = [b \in Batches |-> {}] /\ dangling = FALSE

(* GetFreeSize of a segment with n records, and TryPut of one more.        *)
FreeAfter(n) == SegSize - SegHeader - n
RoomAfter(n) == FreeAfter(n) > 1

Done == {b \in Batches : batch[b].at = "done"}
AtRest == \A b \in Batches : batch[b].at \notin {"update", "reap"}
NobodyReads == \A c \in Readers : reader[c].at # "found"

(* What this model assumes of the others when they may not overlap.        *)
MayRun == Overlap \/ gc.at = "idle"
MayMerge == Overlap \/ (AtRest /\ NobodyReads)

-----------------------------------------------------------------------------
(* The index. *)

Entry(w, s, n, t) == [write |-> w, seg |-> s, pos |-> n, stamp |-> t]

(* The segment in which UpdateIndex declares a record dead: the new one of *)
(* a delete of a missing key or of an expired update, else the old one.    *)
DeadSeg(e, inMem) ==
  IF inMem = NoEntry
  THEN IF e.write \in Deletes THEN {e.seg} ELSE {}
  ELSE IF e.stamp < inMem.stamp THEN {e.seg} ELSE {inMem.seg}

(* The entry that UpdateIndex leaves in memory.                            *)
Kept(e, inMem) ==
  IF inMem = NoEntry
  THEN IF e.write \in Deletes THEN NoEntry ELSE e
  ELSE IF e.stamp < inMem.stamp THEN inMem ELSE e

(* UpdateIndex of e with its ModifyDeathEntry, under the slot's mutex.     *)
UpdateIndex(e) ==
  LET k == KeyOf[e.write]
  IN /\ index' = [index EXCEPT ![k] = Kept(e, @)]
     /\ segTable' = [s \in Segs |->
                       IF s \in DeadSeg(e, index[k])
                       THEN WithDeath(segTable, s, 1)[s] ELSE segTable[s]]
     /\ UNCHANGED <<curSegId, counters>>

(* Mutant: every record of the key counts as the current one.              *)
MutIsSameInMem(w, s, n) == index[KeyOf[w]] # NoEntry

(* IsSameInMem compares addresses, not stamps.                             *)
IsSameInMem(w, s, n) ==
  LET inMem == index[KeyOf[w]]
  IN inMem # NoEntry /\ inMem.seg = s /\ inMem.pos = n

-----------------------------------------------------------------------------
(* Writing clients. *)

(* Alloc succeeds.                                                         *)
Allocate(b) ==
  /\ MayRun
  /\ batch[b].at = "new"
  /\ AllocAllowed
  /\ \E s \in Segs : /\ AllocForGC(s)
                     /\ batch' = [batch EXCEPT ![b].at = "write", ![b].seg = s]
  /\ before' = [before EXCEPT ![b] = Done]
  /\ UNCHANGED <<content, index, clock, gc, merges, reader, dangling>>

(* WriteSegToDevice, which stamps the entries first, and Use.              *)
WriteSeg(b) ==
  /\ MayRun
  /\ batch[b].at = "write"
  /\ clock' = clock + 1
  /\ content' = [content EXCEPT ![batch[b].seg] = Items[b]]
  /\ Use(batch[b].seg, FreeAfter(Len(Items[b])))
  /\ batch' = [batch EXCEPT ![b] = [@ EXCEPT !.at = "update", !.stamp = clock']]
  /\ UNCHANGED <<index, gc, merges, reader, history>>

WriteSegFails(b) ==
  /\ MayRun
  /\ WriteMayFail
  /\ batch[b].at = "write"
  /\ FreeForFailed(batch[b].seg)
  /\ batch' = [batch EXCEPT ![b].at = "failed"]
  /\ UNCHANGED <<content, index, clock, gc, merges, reader, history>>

(* One entry of UpdateToIndex.                                             *)
BatchUpdate(b) ==
  /\ MayRun
  /\ batch[b].at = "update"
  /\ LET n == batch[b].next
         last == n = Len(Items[b])
     IN /\ UpdateIndex(Entry(Items[b][n], batch[b].seg, n, batch[b].stamp))
        /\ batch' = [batch EXCEPT ![b] =
             [@ EXCEPT !.at = IF ~last THEN "update" ELSE IF b \in Reaped THEN "reap" ELSE "done",
                       !.next = IF last THEN 1 ELSE n + 1]]
  /\ UNCHANGED <<content, clock, gc, merges, reader, history>>

(* One RemoveEntry of the reaper.  The death is charged to the segment the *)
(* tombstone was written to, whatever that segment is by now.              *)
Reap(b) ==
  /\ MayRun
  /\ batch[b].at = "reap"
  /\ LET n == batch[b].next
         k == KeyOf[Items[b][n]]
         removed == /\ Items[b][n] \in Deletes
                    /\ index[k] # NoEntry
                    /\ index[k].stamp = batch[b].stamp
                    /\ index[k].write \in Deletes
     IN /\ index' = IF removed THEN [index EXCEPT ![k] = NoEntry] ELSE index
        /\ segTable' = IF removed THEN WithDeath(segTable, batch[b].seg, 1) ELSE segTable
        /\ batch' = [batch EXCEPT ![b] =
             [@ EXCEPT !.at = IF n = Len(Items[b]) THEN "done" ELSE "reap", !.next = n + 1]]
  /\ UNCHANGED <<curSegId, counters, content, clock, gc, merges, reader, history>>

-----------------------------------------------------------------------------
(* Reading clients: GetHashEntry, then the read of the device. *)

Find(c) ==
  /\ MayRun
  /\ reader[c].at = "new"
  /\ \E k \in Keys :
       /\ index[k] # NoEntry
       /\ index[k].write \notin Deletes
       /\ reader' = [reader EXCEPT ![c] = [@ EXCEPT !.at = "found", !.entry = index[k]]]
  /\ UNCHANGED <<segVars, content, index, clock, batch, gc, merges, history>>

ReadData(c) ==
  /\ MayRun
  /\ reader[c].at = "found"
  /\ LET e == reader[c].entry
         got == IF e.pos \in DOMAIN content[e.seg] THEN content[e.seg][e.pos] ELSE NoEntry
     IN reader' = [reader EXCEPT ![c] = [@ EXCEPT !.at = "read", !.got = got]]
  /\ UNCHANGED <<segVars, content, index, clock, batch, gc, merges, history>>

-----------------------------------------------------------------------------
(* The merge. *)

OthersKeep == UNCHANGED <<clock, batch, merges, reader, before>>

(* SortSegsByUtils under gcMtx_, for ForeGC, BackGC or FullGC.             *)
GcSort ==
  /\ MayMerge
  /\ gc.at = "idle"
  /\ merges < MaxMerges
  /\ SegsByUtils(Thld) # {}
  /\ \E q \in CandMap(SegsByUtils(Thld)) :
       gc' = [NoMerge EXCEPT !.at = "load", !.cands = q, !.freeAtStart = freedCounter]
  /\ merges' = merges + 1
  /\ UNCHANGED <<segVars, content, index, clock, batch, reader, history>>

(* One turn of the loop of loadSegKV: records that the index no longer     *)
(* points to are left behind, and so are tombstones.                       *)
GcLoadEntry ==
  /\ gc.at = "load"
  /\ LET s == Head(gc.cands)
     IN /\ gc.pos \in DOMAIN content[s]
        /\ LET w == content[s][gc.pos]
               same == IsSameInMem(w, s, gc.pos)
           IN /\ gc' = [gc EXCEPT !.pos = @ + 1,
                                  !.list = IF same /\ w \notin Deletes THEN Append(@, w) ELSE @]
              /\ dangling' = (dangling \/ (same /\ w \in Deletes))
  /\ UNCHANGED <<segVars, content, index>> /\ OthersKeep

(* How many of n more records go into the first segment by TryPut.         *)
Fitting(n) == Cardinality({i \in 0 .. n - 1 : RoomAfter(Len(gc.first) + i)})

(* Mutant: a candidate that does not fit whole is freed with the others.   *)
MutAbsorbed(s, whole) == Append(gc.frees, s)

(* free_seg_vec after the candidate s.                                     *)
Absorbed(s, whole) == IF whole THEN Append(gc.frees, s) ELSE gc.frees

(* The loop over slice_list for the candidate just loaded.                 *)
GcPack ==
  /\ gc.at = "load"
  /\ gc.pos \notin DOMAIN content[Head(gc.cands)]
  /\ LET s == Head(gc.cands)
         n == Fitting(Len(gc.list))
         whole == n = Len(gc.list)
     IN gc' = [gc EXCEPT
                 !.first = @ \o SubSeq(gc.list, 1, n),
                 !.list = SubSeq(@, n + 1, Len(@)),
                 !.frees = Absorbed(s, whole),
                 !.last = IF whole THEN {} ELSE {s},
                 !.cands = Tail(@),
                 !.pos = 1,
                 !.at = IF whole /\ Len(gc.cands) > 1 THEN "load" ELSE "alloc1"]
  /\ UNCHANGED <<segVars, content, index, dangling>> /\ OthersKeep

GcAlloc(from, to) ==
  /\ gc.at = from
  /\ \E s \in Segs : AllocForGC(s) /\ gc' = [gc EXCEPT !.seg = s, !.at = to]
  /\ UNCHANGED <<content, index, dangling>> /\ OthersKeep

(* WriteSegToDevice of the records rs, then Use.                           *)
GcWrite(from, rs, to) ==
  /\ gc.at = from
  /\ clock' = clock + 1
  /\ content' = [content EXCEPT ![gc.seg] = rs]
  /\ Use(gc.seg, FreeAfter(Len(rs)))
  /\ gc' = [gc EXCEPT !.at = to, !.stamp = clock', !.pos = 1]
  /\ UNCHANGED <<index, batch, merges, reader, history>>

GcWriteFails ==
  /\ WriteMayFail
  /\ gc.at \in {"write1", "write2"}
  /\ FreeForFailed(gc.seg)
  /\ gc' = NoMerge
  /\ UNCHANGED <<content, index, dangling>> /\ OthersKeep

(* The entry fillEntryToSlice gives to the next record.                    *)
Moved(w) == Entry(w, gc.seg, gc.pos, gc.stamp)

(* UpdateToIndex of SegForSlice: the ordinary UpdateIndex, with the time   *)
(* at which the copy was made.                                             *)
GcUpdate(at, rs) ==
  /\ gc.at = at
  /\ gc.pos \in DOMAIN rs
  /\ UpdateIndex(Moved(rs[gc.pos]))
  /\ gc' = [gc EXCEPT !.pos = @ + 1]
  /\ UNCHANGED <<content, dangling>> /\ OthersKeep

GcUpdated(from, rs, to) ==
  /\ gc.at = from
  /\ gc.pos \notin DOMAIN rs
  /\ gc' = [gc EXCEPT !.at = to]
  /\ UNCHANGED <<segVars, content, index, dangling>> /\ OthersKeep

GcFree ==
  /\ gc.at = "free1"
  /\ gc.frees # <<>>
  /\ FreeForGC(Head(gc.frees))
  /\ gc' = [gc EXCEPT !.frees = Tail(@)]
  /\ UNCHANGED <<content, index, dangling>> /\ OthersKeep

(* Everything went into one segment, or the rest needs a second one.       *)
GcFirstDone ==
  /\ gc.at = "free1"
  /\ gc.frees = <<>>
  /\ gc' = IF gc.last = {} THEN NoMerge ELSE [gc EXCEPT !.at = "alloc2"]
  /\ UNCHANGED <<segVars, content, index, dangling>> /\ OthersKeep

(* Mutant: the candidate that was split is not freed.                      *)
MutGcFreeLast ==
  /\ gc.at = "free2"
  /\ gc' = NoMerge
  /\ UNCHANGED <<segVars, content, index, dangling>> /\ OthersKeep

GcFreeLast ==
  /\ gc.at = "free2"
  /\ \E s \in gc.last : FreeForGC(s)
  /\ gc' = NoMerge
  /\ UNCHANGED <<content, index, dangling>> /\ OthersKeep

doMerge ==
  \/ GcLoadEntry \/ GcPack
  \/ GcAlloc("alloc1", "write1") \/ GcAlloc("alloc2", "write2")
  \/ GcWrite("write1", gc.first, "update1") \/ GcWrite("write2", gc.list, "update2")
  \/ GcWriteFails
  \/ GcUpdate("update1", gc.first) \/ GcUpdate("update2", gc.list)
  \/ GcUpdated("update1", gc.first, "free1") \/ GcUpdated("update2", gc.list, "free2")
  \/ GcFree \/ GcFirstDone \/ GcFreeLast

Next ==
  \/ \E b \in Batches :
       Allocate(b) \/ WriteSeg(b) \/ WriteSegFails(b) \/ BatchUpdate(b) \/ Reap(b)
  \/ \E c \in Readers : Find(c) \/ ReadData(c)
  \/ GcSort
  \/ doMerge

Spec == Init /\ [][Next]_vars
-----------------------------------------------------------------------------
(* Properties. *)

MaybeEntries == Entries \cup {NoEntry}

BatchRecord == [at : {"new", "write", "update", "reap", "done", "failed"},
                seg : Segs, stamp : Nat, next : Nat \ {0}]

GcRecord == [at : {"idle", "load", "alloc1", "write1", "update1", "free1",
                   "alloc2", "write2", "update2", "free2"},
             cands : Seq(Segs), pos : Nat \ {0}, list : Seq(Writes), first : Seq(Writes),
             frees : Seq(Segs), last : SUBSET Segs, seg : Segs, stamp : Nat, freeAtStart : Int]

ReaderRecord == [at : {"new", "found", "read"}, entry : MaybeEntries, got : Writes \cup {NoEntry}]

TypeOK ==
  /\ SegTypeOK
  /\ content \in [Segs -> Seq(Writes)]
  /\ index \in [Keys -> MaybeEntries]
  /\ clock \in Nat /\ merges \in 0 .. MaxMerges
  /\ batch \in [Batches -> BatchRecord]
  /\ gc \in GcRecord
  /\ FreeAfter(Len(gc.first)) >= 0 /\ FreeAfter(Len(gc.list)) >= 0
  /\ reader \in [Readers -> ReaderRecord]
  /\ before \in [Batches -> SUBSET Batches] /\ dangling \in BOOLEAN

(* The record e was made for is where e says, in a segment that is USED.   *)
Housed(e) ==
  /\ segTable[e.seg].state = "USED"
  /\ e.pos \in DOMAIN content[e.seg]
  /\ content[e.seg][e.pos] = e.write

(* Every entry of the index leads to the record it was made for: no merge  *)
(* frees a segment that is still needed, unless for a tombstone.           *)
EntriesPointToData ==
  \A k \in Keys : index[k] # NoEntry =>
    /\ KeyOf[index[k].write] = k
    /\ Housed(index[k]) \/ (dangling /\ index[k].write \in Deletes)

BatchOf(w) == CHOOSE b \in Batches : \E n \in DOMAIN Items[b] : Items[b][n] = w

(* No batch that began after w's was done has written the key and is done. *)
NotOvertaken(w) ==
  \A d \in Done : (\E n \in DOMAIN Items[d] : KeyOf[Items[d][n]] = KeyOf[w]) =>
    BatchOf(w) \notin before[d]

AppliedDelete(w) == w \in Deletes /\ batch[BatchOf(w)].at \in {"update", "reap", "done"}

(* What a read would find for a key is its last completed write or one     *)
(* concurrent with it, also after merges have moved the records about.     *)
LatestVisible ==
  \A k \in Keys :
    IF index[k] # NoEntry
    THEN NotOvertaken(index[k].write)
    ELSE \/ \A d \in Done : \A n \in DOMAIN Items[d] :
              KeyOf[Items[d][n]] = k => Items[d][n] \in Deletes
         \/ \E w \in Writes : KeyOf[w] = k /\ AppliedDelete(w) /\ NotOvertaken(w)

(* Records of segment s that their writer has yet to bring to the index.   *)
Pending(s) ==
  {n \in DOMAIN content[s] :
     \/ \E b \in Batches : batch[b].at = "update" /\ batch[b].seg = s /\ n >= batch[b].next
     \/ gc.at \in {"update1", "update2"} /\ gc.seg = s /\ n >= gc.pos}

Alive(s) == {n \in DOMAIN content[s] : IsSameInMem(content[s][n], s, n)}

(* death_size of a USED segment, on which the choice of candidates rests,  *)
(* counts exactly its records that nobody needs any more, until a          *)
(* tombstone dangles: its death will be charged to whatever lies there.    *)
DeathIsExact ==
  ~dangling => \A s \in InState("USED") :
    segTable[s].death_size = Cardinality(DOMAIN content[s] \ (Alive(s) \cup Pending(s)))

(* A merge ends with at least as many free segments as it began with, also *)
(* when it needs a second segment or a write fails half-way.               *)
MergeKeepsSpace ==
  [][~dangling /\ gc.at # "idle" /\ gc'.at = "idle" => freedCounter' >= gc.freeAtStart]_vars

(* A reader gets the value of the entry it has found.                      *)
ReadIsRight == \A c \in Readers : reader[c].at = "read" => reader[c].got = reader[c].entry.write

(* Types, entries, records and dead space agree at every step of a merge,  *)
(* of the clients and of the reaper.                                       *)
Consistent == TypeOK /\ EntriesPointToData /\ DeathIsExact /\ ReadIsRight
=============================================================================
