---------------------------- MODULE WritePipeline ----------------------------
(***************************************************************************)
(* The aggregated write path: a client hands a Request to the merge thread *)
(* of its shard and waits; the merge thread packs requests into the open   *)
(* segment of the shard; a full or expired segment goes to the segment     *)
(* writers, which write it and answer its requests; each client then       *)
(* updates the index itself and the last of them sends the segment to the  *)
(* reaper, which removes the tombstones and deletes the segment object.    *)
(*                                                                         *)
(* One module for both data stores: DS_MultiVolume_Impl (keepsTrying) and  *)
(* FastTier differ only in what SegWrite does when no segment of the       *)
(* device can be had.  The three queues are WorkQueues, of which one step  *)
(* here takes the oldest task.                                             *)
(***************************************************************************)
EXTENDS Integers, Sequences, FiniteSets

CONSTANTS Keys, Shards, Reqs,
          KeyOf,        (* the key each request writes                     *)
          ShardOf,      (* calcShardId of each key                         *)
          Deletes,      (* the requests without data                       *)
          SegWriters,   (* threads of segWteWQ_                            *)
          SegCap,       (* requests that fit in one segment                *)
          AllocMayFail, (* may Alloc and ForeGC find nothing?              *)
          WriteMayFail, (* may the device refuse a write?                  *)
          TableMayFill, (* may other keys fill the table of the index?     *)
          MaxNotifies,  (* bound on the calls of Notify                    *)
          NoReq

ASSUME WritePipelineAssumption ==
  /\ IsFiniteSet(Reqs) /\ IsFiniteSet(Shards) /\ NoReq \notin Reqs
  /\ KeyOf \in [Reqs -> Keys]
  /\ ShardOf \in [Keys -> Shards]
  /\ Deletes \subseteq Reqs
  /\ SegCap \in Nat \ {0}
  /\ {AllocMayFail, WriteMayFail, TableMayFill} \subseteq BOOLEAN
  /\ MaxNotifies \in Nat

VARIABLES client,   (* where each request's client is                      *)
          status,   (* stat_ of each request                               *)
          stamp,    (* LogicStamp of the entry of each request             *)
          reqWQ,    (* reqWQVec_: the queue of each shard                  *)
          segMap,   (* segMap_: the open segment of each shard             *)
          segs,     (* the SegForReq objects, in order of creation         *)
          segWteWQ, (* queue of segment numbers                            *)
          writer,   (* [at, seg, ok] for each segment writer               *)
          clock,    (* time of the last KVTime::Update in a Notify         *)
          index,    (* the request whose entry the index holds, by key     *)
          reaperWQ, (* segRprWQ_                                           *)
          reaping,  (* the entries SegReaper has yet to remove, and where  *)
          keepsTrying, (* the data store: DS_MultiVolume_Impl, or FastTier *)
          before,   (* history: the writes that had returned when a        *)
                    (* request was issued                                  *)
          refused   (* history: the writes for which the table had no room *)

pipeVars == <<reqWQ, segMap, segs, segWteWQ>>
indexVars == <<index, reaperWQ, reaping>>
frame == <<keepsTrying, before, refused>>
vars == <<client, status, stamp, reqWQ, segMap, segs, segWteWQ, writer, clock,
          index, reaperWQ, reaping, frame>>

(* reqList_ keeps its length here; answered counts the requests popped     *)
(* from its front.                                                         *)
NewSeg == [reqList |-> <<>>, answered |-> 0, reqCommited |-> 0,
           delReqList |-> <<>>, phase |-> "open"]

IdleWriter == [at |-> "idle", seg |-> 0, ok |-> TRUE]
NotReaping == [seg |-> 0, entries |-> <<>>]

(* One open segment per shard, as InitSegmentBuffer leaves it.             *)
Init ==
  /\ client = [r \in Reqs |-> "new"]
  /\ status = [r \in Reqs |-> "INIT"]
  /\ stamp = [r \in Reqs |-> <<0, 0>>]
  /\ reqWQ = [h \in Shards |-> <<>>]
  /\ segs = [i \in 1 .. Cardinality(Shards) |-> NewSeg]
  /\ segMap \in {m \in [Shards -> DOMAIN segs] :
                   \A h, g \in Shards : m[h] = m[g] => h = g}
  /\ segWteWQ = <<>>
  /\ writer = [w \in SegWriters |-> IdleWriter]
  /\ clock = 0
  /\ index = [k \in Keys |-> NoReq]
  /\ reaperWQ = <<>>
  /\ reaping = NotReaping
  /\ keepsTrying \in BOOLEAN
  /\ before = [r \in Reqs |-> {}]
  /\ refused = {}

Returned == {r \in Reqs : client[r] = "returned"}
Succeeded == {r \in Returned : status[r] = "SUCCESS"}

(* LogicStamp::operator<                                                   *)
Older(r, s) ==
  \/ stamp[r][1] < stamp[s][1]
  \/ stamp[r][1] = stamp[s][1] /\ stamp[r][2] < stamp[s][2]

-----------------------------------------------------------------------------
(* Clients and merge threads. *)

(* writeDataAggregate up to Wait.                                          *)
WriteData(r) ==
  /\ client[r] = "new"
  /\ client' = [client EXCEPT ![r] = "waiting"]
  /\ reqWQ' = [reqWQ EXCEPT ![ShardOf[KeyOf[r]]] = Append(@, r)]
  /\ before' = [before EXCEPT ![r] = Returned]
  /\ UNCHANGED <<status, stamp, segMap, segs, segWteWQ, writer, clock, indexVars, keepsTrying,
                 refused>>

Fits(i) == Len(segs[i].reqList) < SegCap

(* Mutant: hasReq_ is set by the second request.                           *)
MutHasReq(i) == Len(segs[i].reqList) > 1

(* hasReq_                                                                 *)
HasReq(i) == Len(segs[i].reqList) > 0

Opened(rs) == [NewSeg EXCEPT !.reqList = rs]

(* Completion of the open segment of shard h and its hand-over; the new    *)
(* open segment starts with the requests rs.                               *)
Replaced(h, rs) ==
  /\ segWteWQ' = Append(segWteWQ, segMap[h])
  /\ segs' = Append([segs EXCEPT ![segMap[h]].phase = "completed"],
                    Opened(rs))
  /\ segMap' = [segMap EXCEPT ![h] = Len(segs) + 1]

(* ReqMerge, all of it under the mutex of the shard's segment.             *)
ReqMerge(h) ==
  /\ reqWQ[h] # <<>>
  /\ reqWQ' = [reqWQ EXCEPT ![h] = Tail(@)]
  /\ \/ /\ Fits(segMap[h])
        /\ segs' = [segs EXCEPT ![segMap[h]].reqList = Append(@, Head(reqWQ[h]))]
        /\ UNCHANGED <<segMap, segWteWQ>>
     \/ ~Fits(segMap[h]) /\ Replaced(h, <<Head(reqWQ[h])>>)
  /\ UNCHANGED <<client, status, stamp, writer, clock, indexVars, frame>>

(* One shard of SegTimeoutThdEntry.  IsExpired is false before the first   *)
(* request and may be true at any time after it.                           *)
SegTimeout(h) ==
  /\ HasReq(segMap[h])
  /\ Replaced(h, <<>>)
  /\ UNCHANGED <<client, status, stamp, reqWQ, writer, clock, indexVars, frame>>

-----------------------------------------------------------------------------
(* Segment writers. *)

SegWriteStart(w) ==
  /\ writer[w].at = "idle"
  /\ segWteWQ # <<>>
  /\ writer' = [writer EXCEPT ![w] = [at |-> "alloc", seg |-> Head(segWteWQ), ok |-> TRUE]]
  /\ segWteWQ' = Tail(segWteWQ)
  /\ UNCHANGED <<client, status, stamp, reqWQ, segMap, segs, clock, indexVars, frame>>

Allocated(w) ==
  /\ writer[w].at = "alloc"
  /\ writer' = [writer EXCEPT ![w].at = "write"]
  /\ UNCHANGED <<client, status, stamp, pipeVars, clock, indexVars, frame>>

(* Alloc fails and so does ForeGC, or the migration of allocSegment.       *)
NotAllocated(w) ==
  /\ AllocMayFail
  /\ writer[w].at = "alloc"
  /\ writer' = [writer EXCEPT ![w] = [@ EXCEPT !.at = "notify", !.ok = FALSE]]
  /\ UNCHANGED <<client, status, stamp, pipeVars, clock, indexVars, frame>>

(* WriteSegToDevice, then Use or FreeForFailed.                            *)
Written(w, ok) ==
  /\ writer[w].at = "write"
  /\ ok \/ WriteMayFail
  /\ writer' = [writer EXCEPT ![w] = [@ EXCEPT !.at = "notifyWritten", !.ok = ok]]
  /\ UNCHANGED <<client, status, stamp, pipeVars, clock, indexVars, frame>>

Positions(s) == 1 .. Len(s)

(* The requests of a segment not yet popped from reqList_.                 *)
Unanswered(i) ==
  {segs[i].reqList[n] : n \in {m \in Positions(segs[i].reqList) : m > segs[i].answered}}

(* Mutant: the request that sends the segment to the reaper is the last    *)
(* but one.                                                                *)
MutCommitsToCome(i) == Len(segs[i].reqList) - 1

(* GetKeyNum, which is stored in reqCommited_.                             *)
CommitsToCome(i) == Len(segs[i].reqList)

(* The list after one turn of the loop that looks for deletes.             *)
Listed(list, r) == IF r \in Deletes THEN Append(list, r) ELSE list

(* The deletes among the first n requests of a list, in order.             *)
DeletesAmong(reqs, n) ==
  LET among[m \in 0 .. Len(reqs)] ==
        IF m = 0 THEN <<>> ELSE Listed(among[m - 1], reqs[m])
  IN among[n]

(* What Notify appends to delReqList_.                                     *)
Tombstones(i) ==
  LET left == SubSeq(segs[i].reqList, segs[i].answered + 1, Len(segs[i].reqList))
  IN DeletesAmong(left, Len(left))

(* The first half of Notify, under the segment's mtx_: the commit counter, *)
(* persistTime_, the stamps of the requests still in reqList_ and the list *)
(* of tombstones.                                                          *)
NotifyStart(w) ==
  /\ writer[w].at \in {"notify", "notifyWritten"}
  /\ clock < MaxNotifies
  /\ clock' = clock + 1
  /\ LET i == writer[w].seg
         reqs == segs[i].reqList
     IN /\ stamp' = [r \in Reqs |-> IF r \in Unanswered(i)
                                    THEN <<clock', CHOOSE n \in Positions(reqs) : reqs[n] = r>>
                                    ELSE stamp[r]]
        /\ segs' = [segs EXCEPT ![i].reqCommited = CommitsToCome(i),
                                ![i].delReqList = @ \o Tombstones(i)]
  /\ writer' = [writer EXCEPT ![w].at = IF @ = "notify" THEN "answer" ELSE "answerWritten"]
  /\ UNCHANGED <<client, status, reqWQ, segMap, segWteWQ, indexVars, frame>>

(* One turn of the loop of Notify: pop_front, SetWriteStat, Signal.        *)
Answer(w) ==
  /\ writer[w].at \in {"answer", "answerWritten"}
  /\ LET i == writer[w].seg
         n == segs[i].answered + 1
     IN /\ n \in Positions(segs[i].reqList)
        /\ segs' = [segs EXCEPT ![i].answered = n]
        /\ LET r == segs[i].reqList[n]
           IN /\ status' = [status EXCEPT ![r] = IF writer[w].ok THEN "SUCCESS" ELSE "FAIL"]
              /\ client' = [client EXCEPT ![r] = "answered"]
  /\ UNCHANGED <<stamp, reqWQ, segMap, segWteWQ, writer, clock, indexVars, frame>>

(* Mutant: SegWrite goes on after a failed allocation.                     *)
MutAfterNotify(w) ==
  IF writer[w].at = "answer" THEN [writer[w] EXCEPT !.at = "alloc"] ELSE IdleWriter

(* After a failed allocation FastTier::SegWrite returns, while the loop of *)
(* DS_MultiVolume_Impl::SegWrite calls Alloc again for the same segment.   *)
AfterNotify(w) ==
  IF writer[w].at = "answer" /\ keepsTrying
  THEN [writer[w] EXCEPT !.at = "alloc"] ELSE IdleWriter

(* Notify returns and gives the segment's mutex up.                        *)
NotifyEnd(w) ==
  /\ writer[w].at \in {"answer", "answerWritten"}
  /\ Unanswered(writer[w].seg) = {}
  /\ writer' = [writer EXCEPT ![w] = AfterNotify(w)]
  /\ UNCHANGED <<client, status, stamp, pipeVars, clock, indexVars, frame>>

-----------------------------------------------------------------------------
(* Clients after Wait, and the reaper. *)

(* updateMeta of a request that failed.                                    *)
ReturnFailure(r) ==
  /\ client[r] = "answered"
  /\ status[r] = "FAIL"
  /\ client' = [client EXCEPT ![r] = "returned"]
  /\ UNCHANGED <<status, stamp, pipeVars, writer, clock, indexVars, frame>>

(* What UpdateIndex leaves in the slot that held inMem: a delete of a      *)
(* missing key is dropped, an older entry too, anything else is put.       *)
Updated(r, inMem) ==
  IF inMem = NoReq
  THEN IF r \in Deletes THEN NoReq ELSE r
  ELSE IF Older(r, inMem) THEN inMem ELSE r

(* updateMeta: UpdateIndex under the mutex of the slot.                    *)
UpdateIndex(r) ==
  /\ client[r] = "answered"
  /\ status[r] = "SUCCESS"
  /\ index' = [index EXCEPT ![KeyOf[r]] = Updated(r, @)]
  /\ client' = [client EXCEPT ![r] = "commit"]
  /\ UNCHANGED <<status, stamp, pipeVars, writer, clock, reaperWQ, reaping, frame>>

(* An entry that is put in place of another one needs no room.             *)
NeedsPlace(r) == index[KeyOf[r]] = NoReq /\ r \notin Deletes

(* updateMeta does not look at what UpdateIndex returns: the client goes   *)
(* on, and is answered OK, also when the full table has refused its entry. *)
UpdateIndexRefused(r) ==
  /\ TableMayFill
  /\ client[r] = "answered"
  /\ status[r] = "SUCCESS"
  /\ NeedsPlace(r)
  /\ refused' = refused \cup {r}
  /\ client' = [client EXCEPT ![r] = "commit"]
  /\ UNCHANGED <<status, stamp, pipeVars, writer, clock, indexVars, keepsTrying, before>>

Holds(i, r) == \E n \in Positions(segs[i].reqList) : segs[i].reqList[n] = r

SegOf(r) == CHOOSE i \in DOMAIN segs : Holds(i, r)

(* updateMeta: CommitedAndGetNum, and AddToReaper by the last.             *)
Commit(r) ==
  /\ client[r] = "commit"
  /\ segs' = [segs EXCEPT ![SegOf(r)].reqCommited = @ - 1]
  /\ reaperWQ' = IF segs[SegOf(r)].reqCommited = 1
                 THEN Append(reaperWQ, SegOf(r)) ELSE reaperWQ
  /\ client' = [client EXCEPT ![r] = "returned"]
  /\ UNCHANGED <<status, stamp, reqWQ, segMap, segWteWQ, writer, clock, index,
                 reaping, frame>>

(* Is the segment's mtx_ held by Notify?                                   *)
Notifying(i) ==
  \E w \in SegWriters : writer[w].seg = i /\ writer[w].at \in {"answer", "answerWritten"}

(* SegReaper: CleanDeletedEntry gets the segment's mutex.                  *)
ReapStart ==
  /\ reaping.seg = 0
  /\ reaperWQ # <<>>
  /\ ~Notifying(Head(reaperWQ))
  /\ reaping' = [seg |-> Head(reaperWQ), entries |-> segs[Head(reaperWQ)].delReqList]
  /\ reaperWQ' = Tail(reaperWQ)
  /\ UNCHANGED <<client, status, stamp, pipeVars, writer, clock, index, frame>>

(* Mutant: the entry in memory is removed whoever wrote it.                *)
MutRemovable(r, inMem) == inMem # NoReq

(* RemoveEntry compares the segment times, not the whole stamps.           *)
Removable(r, inMem) ==
  /\ inMem # NoReq
  /\ stamp[inMem][1] = stamp[r][1]
  /\ inMem \in Deletes

ReapEntry ==
  /\ reaping.entries # <<>>
  /\ LET r == Head(reaping.entries)
     IN index' = [index EXCEPT ![KeyOf[r]] = IF Removable(r, @) THEN NoReq ELSE @]
  /\ reaping' = [reaping EXCEPT !.entries = Tail(@)]
  /\ UNCHANGED <<client, status, stamp, pipeVars, writer, clock, reaperWQ, frame>>

(* The end of SegReaper: delete seg.                                       *)
ReapEnd ==
  /\ reaping.seg # 0
  /\ reaping.entries = <<>>
  /\ segs' = [segs EXCEPT ![reaping.seg].phase = "deleted"]
  /\ reaping' = NotReaping
  /\ UNCHANGED <<client, status, stamp, reqWQ, segMap, segWteWQ, writer, clock,
                 index, reaperWQ, frame>>

-----------------------------------------------------------------------------
ClientGoesOn(r) ==
  ReturnFailure(r) \/ UpdateIndex(r) \/ UpdateIndexRefused(r) \/ Commit(r)

SegWrite(w) ==
  \/ SegWriteStart(w) \/ Allocated(w) \/ NotAllocated(w)
  \/ \E ok \in BOOLEAN : Written(w, ok)
  \/ NotifyStart(w) \/ Answer(w) \/ NotifyEnd(w)

SegReaper == ReapStart \/ ReapEntry \/ ReapEnd

Next ==
  \/ \E r \in Reqs : WriteData(r) \/ ClientGoesOn(r)
  \/ \E h \in Shards : ReqMerge(h) \/ SegTimeout(h)
  \/ \E w \in SegWriters : SegWrite(w)
  \/ SegReaper

Spec == Init /\ [][Next]_vars

-----------------------------------------------------------------------------
(* Properties. *)

SegForReq ==
  [reqList : Seq(Reqs), answered : 0 .. SegCap, reqCommited : 0 .. SegCap,
   delReqList : Seq(Reqs), phase : {"open", "completed", "deleted"}]

Writers ==
  [at : {"idle", "alloc", "write", "notify", "notifyWritten", "answer", "answerWritten"},
   seg : {0} \cup DOMAIN segs, ok : BOOLEAN]

TypeOK ==
  /\ client \in [Reqs -> {"new", "waiting", "answered", "commit", "returned"}]
  /\ status \in [Reqs -> {"INIT", "SUCCESS", "FAIL"}]
  /\ stamp \in [Reqs -> (0 .. MaxNotifies) \X (0 .. SegCap)]
  /\ reqWQ \in [Shards -> Seq(Reqs)]
  /\ segs \in Seq(SegForReq)
  /\ segMap \in [Shards -> DOMAIN segs]
  /\ segWteWQ \in Seq(DOMAIN segs)
  /\ writer \in [SegWriters -> Writers]
  /\ clock \in 0 .. MaxNotifies
  /\ index \in [Keys -> Reqs \cup {NoReq}]
  /\ reaperWQ \in Seq(DOMAIN segs)
  /\ reaping \in [seg : {0} \cup DOMAIN segs, entries : Seq(Reqs)]
  /\ before \in [Reqs -> SUBSET Reqs] /\ refused \subseteq Reqs \ Deletes

(* No later write of the same key has succeeded after r had returned and   *)
(* before anybody could look.                                              *)
NotOvertaken(r) == \A d \in Succeeded : KeyOf[d] = KeyOf[r] => r \notin before[d]

Applied(r) == status[r] = "SUCCESS" /\ client[r] \in {"commit", "returned"}

(* What a read finds is the last successful write of the key, or one that  *)
(* ran concurrently with it: neither the order in which the segments are   *)
(* written and the clients update the index nor the reaper can bring an    *)
(* overwritten value back or take an acknowledged one away.  Only a write  *)
(* that the full table refused is acknowledged and not there.              *)
LatestVisible ==
  \A k \in Keys :
    IF index[k] # NoReq
    THEN NotOvertaken(index[k])
    ELSE \/ \A d \in Succeeded : KeyOf[d] = k => d \in Deletes
         \/ \E r \in Deletes \cup refused : KeyOf[r] = k /\ Applied(r) /\ NotOvertaken(r)

(* A segment that is being allocated or written has clients waiting for    *)
(* all of its requests: their slices, which the write reads, are alive.    *)
(* The exception is DS_MultiVolume_Impl after it has reported a failure.   *)
WritesForWaiting ==
  \A w \in SegWriters :
    writer[w].at \in {"alloc", "write"} /\ (keepsTrying => writer[w].ok) =>
      LET reqs == segs[writer[w].seg].reqList
      IN \A n \in Positions(reqs) : client[reqs[n]] = "waiting"

(* A segment object that is deleted has no user left: every request in it  *)
(* has returned, no writer works on it and it is no longer open.           *)
DeletedUnused ==
  \A i \in DOMAIN segs : segs[i].phase = "deleted" =>
    /\ \A n \in Positions(segs[i].reqList) : client[segs[i].reqList[n]] = "returned"
    /\ \A w \in SegWriters : writer[w].seg # i
    /\ \A h \in Shards : segMap[h] # i
    /\ i \notin {reaperWQ[n] : n \in DOMAIN reaperWQ}

(* When the reaper is done with a segment no tombstone written in it is    *)
(* left in the index.                                                      *)
NoTombstoneLeft ==
  \A i \in DOMAIN segs : segs[i].phase = "deleted" =>
    \A n \in Positions(segs[i].reqList) :
      LET r == segs[i].reqList[n] IN r \in Deletes => index[KeyOf[r]] # r

(* The threads have nothing to do, and the timeout thread finds no segment *)
(* with a request.  Every step of this module uses something up, so every  *)
(* behaviour comes to such a state or to the bound on Notify.              *)
AtRest ==
  /\ \A h \in Shards : reqWQ[h] = <<>> /\ ~HasReq(segMap[h])
  /\ segWteWQ = <<>> /\ \A w \in SegWriters : writer[w] = IdleWriter
  /\ reaperWQ = <<>> /\ reaping = NotReaping
  /\ \A r \in Reqs : client[r] \notin {"answered", "commit"}

(* Nothing is forgotten on the way: at rest every write has returned, also *)
(* the last one of a shard, whose segment only the timeout thread          *)
(* completes, and every segment whose write succeeded has been reaped.     *)
RestMeansDone ==
  AtRest =>
    \A r \in Reqs :
      /\ client[r] # "waiting"
      /\ client[r] = "returned" /\ status[r] = "SUCCESS" => segs[SegOf(r)].phase = "deleted"

(* Types, and what must hold of deleted segment objects, at every step.    *)
Consistent == TypeOK /\ DeletedUnused /\ NoTombstoneLeft
-----------------------------------------------------------------------------
(* The inductive strengthening that the proofs use. *)

All(i) == Len(segs[i].reqList)
Answering == {"answer", "answerWritten"}

(* Where the requests are: a new one is nowhere, a waiting one in the queue*)
(* of its shard or in a segment, once, and one that was answered is among  *)
(* the first answered requests of its segment.                             *)
QueuedWait ==
  \A h \in Shards : \A n \in Positions(reqWQ[h]) :
    /\ ShardOf[KeyOf[reqWQ[h][n]]] = h
    /\ client[reqWQ[h][n]] = "waiting"
    /\ \A i \in DOMAIN segs : ~Holds(i, reqWQ[h][n])

QueuedOnce ==
  \A h \in Shards : \A n, m \in Positions(reqWQ[h]) : reqWQ[h][n] = reqWQ[h][m] => n = m

AnsweredInOrder ==
  \A i \in DOMAIN segs : \A n \in Positions(segs[i].reqList) :
    IF n > segs[i].answered
    THEN client[segs[i].reqList[n]] = "waiting"
    ELSE client[segs[i].reqList[n]] \in {"answered", "commit", "returned"}

HeldOnce ==
  \A i, j \in DOMAIN segs :
    \A n \in Positions(segs[i].reqList), m \in Positions(segs[j].reqList) :
      segs[i].reqList[n] = segs[j].reqList[m] => i = j /\ n = m

NoneLost ==
  \A r \in Reqs : client[r] # "new" =>
    \/ \E n \in Positions(reqWQ[ShardOf[KeyOf[r]]]) : reqWQ[ShardOf[KeyOf[r]]][n] = r
    \/ \E i \in DOMAIN segs : Holds(i, r)

Counted ==
  \A i \in DOMAIN segs : segs[i].answered <= All(i) /\ All(i) <= SegCap

RequestInv == Counted /\ QueuedWait /\ QueuedOnce /\ AnsweredInOrder /\ HeldOnce /\ NoneLost

(* Where the segments are: open in one shard, in the queue of the writers, *)
(* with one writer, or finished with.                                      *)
OpenShape ==
  /\ \A h, g \in Shards : segMap[h] = segMap[g] => h = g
  /\ \A h \in Shards : segs[segMap[h]].phase = "open"
  /\ \A i \in DOMAIN segs : segs[i].phase = "open" =>
       segs[i].answered = 0 /\ \E h \in Shards : segMap[h] = i

QueueShape ==
  /\ \A n, m \in Positions(segWteWQ) : segWteWQ[n] = segWteWQ[m] => n = m
  /\ \A n \in Positions(segWteWQ) :
       /\ segs[segWteWQ[n]].phase = "completed"
       /\ segs[segWteWQ[n]].answered = 0
       /\ \A w \in SegWriters : writer[w].seg # segWteWQ[n]

Busy(w) ==
  LET i == writer[w].seg
  IN /\ i # 0 /\ segs[i].phase = "completed"
     /\ \A v \in SegWriters : writer[v].seg = i => v = w
     /\ writer[w].at \in Answering \/ segs[i].answered \in {0, All(i)}
     /\ writer[w].at \in {"alloc", "write"} =>
          IF writer[w].ok THEN segs[i].answered = 0
          ELSE keepsTrying /\ segs[i].answered = All(i)
     /\ writer[w].at \in {"notify", "answer"} => ~writer[w].ok

WriterShape ==
  \A w \in SegWriters : IF writer[w].at = "idle" THEN writer[w] = IdleWriter ELSE Busy(w)

Finished ==
  \A i \in DOMAIN segs :
    /\ segs[i].phase = "deleted" => segs[i].answered = All(i)
    /\ segs[i].phase = "completed" =>
         \/ \E n \in Positions(segWteWQ) : segWteWQ[n] = i
         \/ \E w \in SegWriters : writer[w].seg = i
         \/ segs[i].answered = All(i)

SegmentInv == OpenShape /\ QueueShape /\ WriterShape /\ Finished

(* The requests of a segment are told the same: what its last write gave,  *)
(* unless they had been told of a failure before.                          *)
ToldAlike ==
  \A i \in DOMAIN segs : \A n, m \in 1 .. segs[i].answered :
    /\ status[segs[i].reqList[n]] = status[segs[i].reqList[m]]
    /\ status[segs[i].reqList[n]] # "INIT"

ToldBy(w) ==
  LET i == writer[w].seg
  IN \A n \in 1 .. segs[i].answered :
       /\ segs[i].answered < All(i) /\ writer[w].ok => status[segs[i].reqList[n]] = "SUCCESS"
       /\ writer[w].at # "answerWritten" \/ ~writer[w].ok => status[segs[i].reqList[n]] = "FAIL"

ToldTheSame == ToldAlike /\ \A w \in SegWriters : writer[w].at # "idle" => ToldBy(w)

Unreturned(i) == {n \in Positions(segs[i].reqList) : client[segs[i].reqList[n]] # "returned"}

(* Segments whose requests are, or are being, told of success.             *)
Telling(i) ==
  \E w \in SegWriters :
    /\ writer[w].at = "answerWritten" /\ writer[w].ok
    /\ writer[w].seg = i /\ segs[i].answered < All(i)
Good(i) == \E n \in 1 .. segs[i].answered : status[segs[i].reqList[n]] = "SUCCESS"

Among(r, seq) == \E n \in Positions(seq) : seq[n] = r

(* The commit counter is the number of clients to come, and the tombstones *)
(* of the segment are listed.                                              *)
Accounted ==
  \A i \in DOMAIN segs : Good(i) \/ Telling(i) =>
    /\ segs[i].reqCommited = Cardinality(Unreturned(i))
    /\ \A n \in Positions(segs[i].reqList) :
         segs[i].reqList[n] \in Deletes => Among(segs[i].reqList[n], segs[i].delReqList)

InReaper(i) == Among(i, reaperWQ) \/ reaping.seg = i \/ segs[i].phase = "deleted"

(* The last client, and nobody before, sends the segment to the reaper.    *)
ReaperShape ==
  /\ \A n, m \in Positions(reaperWQ) : reaperWQ[n] = reaperWQ[m] => n = m
  /\ \A n \in Positions(reaperWQ) :
       segs[reaperWQ[n]].phase = "completed" /\ reaperWQ[n] # reaping.seg
  /\ IF reaping.seg = 0 THEN reaping = NotReaping
     ELSE /\ segs[reaping.seg].phase = "completed"
          /\ \A w \in SegWriters : writer[w].seg # reaping.seg
  /\ \A i \in DOMAIN segs : InReaper(i) => Good(i)
  /\ \A i \in DOMAIN segs : Good(i) => (InReaper(i) <=> Unreturned(i) = {})

(* What the reaper has yet to remove it still has listed.                  *)
TombstonesLeft ==
  reaping.seg # 0 =>
    \A n \in Positions(segs[reaping.seg].reqList) :
      LET r == segs[reaping.seg].reqList[n]
      IN r \in Deletes /\ index[KeyOf[r]] = r => Among(r, reaping.entries)

ReapInv == ToldTheSame /\ Accounted /\ ReaperShape /\ TombstonesLeft /\ NoTombstoneLeft

(* Who was before whom has the older segment time.                         *)
Stamped ==
  /\ \A r \in Reqs : stamp[r][1] <= clock
  /\ \A r \in Reqs : client[r] = "new" => stamp[r][1] = 0
  /\ \A r \in Reqs : client[r] \in {"answered", "commit", "returned"} => stamp[r][1] > 0
  /\ \A w \in SegWriters : writer[w].at \in Answering =>
       \A n \in Positions(segs[writer[w].seg].reqList) :
         stamp[segs[writer[w].seg].reqList[n]][1] > 0

BeforeOlder ==
  \A d \in Reqs : \A e \in before[d] :
    /\ client[e] = "returned"
    /\ stamp[d][1] > 0 => stamp[e][1] < stamp[d][1]

Decided == \A r \in Reqs : client[r] = "commit" => status[r] = "SUCCESS"

(* No later write of the key has gone to the index.                        *)
Latest(r) == \A d \in Reqs : Applied(d) /\ KeyOf[d] = KeyOf[r] => r \notin before[d]

(* The entry x may be what the index has under k.                          *)
MayStand(x, k) ==
  IF x # NoReq
  THEN Applied(x) /\ KeyOf[x] = k /\ Latest(x)
  ELSE \/ \A d \in Reqs : Applied(d) => KeyOf[d] # k
       \/ \E r \in Deletes \cup refused : KeyOf[r] = k /\ Applied(r) /\ Latest(r)

IndexLatest == \A k \in Keys : MayStand(index[k], k)

VisibleInv == Stamped /\ BeforeOlder /\ Decided /\ IndexLatest

PipelineInv == TypeOK /\ RequestInv /\ SegmentInv /\ ReapInv /\ VisibleInv
=============================================================================
