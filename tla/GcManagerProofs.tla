--------------------------- MODULE GcManagerProofs ---------------------------
(***************************************************************************)
(* Merges that nobody overlaps keep the index, the records, the dead space *)
(* and the free space right, for any batches, segments and keys.           *)
(***************************************************************************)
EXTENDS GcManager, SequenceTheorems, FiniteSetTheorems, TLAPS

-----------------------------------------------------------------------------
(* Types. *)

(* Where the local variables of batches and of the merge stand.            *)
Progress ==
  /\ \A b \in Batches : batch[b].at \in {"update", "reap"} => batch[b].next \in DOMAIN Items[b]
  /\ \A b \in Batches : batch[b].at \in {"new", "write"} => batch[b].next = 1
  /\ \A s \in Segs : Len(content[s]) <= SegSize - SegHeader
  /\ gc.at = "load" => gc.cands # <<>> /\ Len(gc.list) < gc.pos
  /\ \A c \in Readers : reader[c].at = "found" => reader[c].entry # NoEntry

TypeInv == TypeOK /\ Progress

(* Segments are numbered.                                                  *)
LEMMA SegsAreNumbers == \A s \in Segs : s \in Nat
BY SegmentManagerAssumption DEF Segs

(* A batch has at least one item, and they fit into a segment.             *)
LEMMA ItemsTyped ==
  ASSUME NEW b \in Batches
  PROVE  /\ Items[b] \in Seq(Writes) /\ DOMAIN Items[b] = 1 .. Len(Items[b])
         /\ Len(Items[b]) \in Nat \ {0} /\ Len(Items[b]) <= SegSize - SegHeader
         /\ SegSize - SegHeader \in Nat /\ FreeAfter(Len(Items[b])) \in Nat
         /\ \A n \in DOMAIN Items[b] : Items[b][n] \in Writes /\ KeyOf[Items[b][n]] \in Keys
<1>1. Items[b] \in Seq(Writes) /\ Len(Items[b]) \in 1 .. SegSize - SegHeader
      /\ KeyOf \in [Writes -> Keys]
  BY GcManagerAssumption
<1>2. SegSize \in Nat /\ SegHeader \in Nat
  BY SegmentManagerAssumption
<1>3. \A n \in DOMAIN Items[b] : Items[b][n] \in Writes
  BY <1>1, ElementOfSeq
<1> QED
  BY <1>1, <1>2, <1>3 DEF FreeAfter

(* What the types say of the parts of the state.                           *)
LEMMA Types ==
  ASSUME TypeOK
  PROVE  /\ SegTypeOK /\ segTable \in [Segs -> SegmentStat] /\ freedCounter \in Int
         /\ content \in [Segs -> Seq(Writes)] /\ index \in [Keys -> MaybeEntries]
         /\ clock \in Nat /\ batch \in [Batches -> BatchRecord] /\ gc \in GcRecord
         /\ gc.cands \in Seq(Segs) /\ gc.pos \in Nat \ {0} /\ gc.list \in Seq(Writes)
         /\ gc.first \in Seq(Writes) /\ gc.frees \in Seq(Segs) /\ gc.last \in SUBSET Segs
         /\ gc.seg \in Segs /\ gc.stamp \in Nat /\ gc.freeAtStart \in Int
         /\ reader \in [Readers -> ReaderRecord]
         /\ before \in [Batches -> SUBSET Batches] /\ dangling \in BOOLEAN
         /\ \A b \in Batches : /\ batch[b] \in BatchRecord /\ batch[b].seg \in Segs
                               /\ batch[b].stamp \in Nat /\ batch[b].next \in Nat \ {0}
<1>1. /\ batch \in [Batches -> BatchRecord] /\ gc \in GcRecord
      /\ segTable \in [Segs -> SegmentStat] /\ freedCounter \in Int
  BY DEF TypeOK, SegTypeOK
<1>2. /\ gc.cands \in Seq(Segs) /\ gc.pos \in Nat \ {0} /\ gc.list \in Seq(Writes)
      /\ gc.first \in Seq(Writes) /\ gc.frees \in Seq(Segs) /\ gc.last \in SUBSET Segs
      /\ gc.seg \in Segs /\ gc.stamp \in Nat /\ gc.freeAtStart \in Int
  BY <1>1 DEF GcRecord
<1>3. \A b \in Batches : /\ batch[b] \in BatchRecord /\ batch[b].seg \in Segs
                         /\ batch[b].stamp \in Nat /\ batch[b].next \in Nat \ {0}
  BY <1>1 DEF BatchRecord
<1> QED
  BY <1>1, <1>2, <1>3 DEF TypeOK

(* What an entry is.                                                       *)
LEMMA EntryTypes ==
  ASSUME TypeOK, NEW k \in Keys, index[k] # NoEntry
  PROVE  /\ index[k] \in Entries /\ index[k].write \in Writes /\ index[k].seg \in Segs
         /\ index[k].pos \in Nat \ {0} /\ index[k].stamp \in Nat
<1>1. index[k] \in Entries
  BY DEF TypeOK, MaybeEntries
<1> QED
  BY <1>1 DEF Entries

(* The entry of a write at an address is an entry.                         *)
LEMMA EntriesTyped ==
  ASSUME NEW w \in Writes, NEW s \in Segs, NEW n \in Nat \ {0}, NEW t \in Nat
  PROVE  /\ Entry(w, s, n, t) \in Entries /\ Entry(w, s, n, t) # NoEntry
         /\ Entry(w, s, n, t).write = w /\ Entry(w, s, n, t).seg = s
         /\ Entry(w, s, n, t).pos = n /\ Entry(w, s, n, t).stamp = t
<1>1. Entry(w, s, n, t) \in Entries
  BY DEF Entry, Entries
<1>2. NoEntry \notin Entries
  BY GcManagerAssumption
<1> QED
  BY <1>1, <1>2 DEF Entry

(* What AllocForGC does to a segment.                                      *)
LEMMA ReserveTyped ==
  ASSUME SegTypeOK, NEW s \in Segs, AllocForGC(s)
  PROVE  /\ SegTypeOK' /\ freedCounter' = freedCounter - 1
         /\ segTable[s].state = "FREE" /\ segTable'[s].state = "RESERVED"
         /\ segTable'[s].death_size = segTable[s].death_size
         /\ \A t \in Segs : t # s => segTable'[t] = segTable[t]
<1> DEFINE st == segTable[s]
<1>1. segTable \in [Segs -> SegmentStat] /\ st \in SegmentStat
      /\ usedCounter \in Int /\ freedCounter \in Int /\ reservedCounter \in Int
      /\ curSegId \in Segs
  BY DEF SegTypeOK
<1>2. segTable' = [segTable EXCEPT ![s] = [st EXCEPT !.state = "RESERVED"]] /\ st.state = "FREE"
      /\ freedCounter' = freedCounter - 1 /\ reservedCounter' = reservedCounter + 1
      /\ usedCounter' = usedCounter /\ curSegId' = s
  BY DEF AllocForGC, InState
<1> HIDE DEF st
<1>3. LET r == [st EXCEPT !.state = "RESERVED"]
      IN r \in SegmentStat /\ r.state = "RESERVED" /\ r.death_size = st.death_size
  BY <1>1 DEF SegmentStat, SegUseStat
<1>4. /\ segTable' \in [Segs -> SegmentStat]
      /\ segTable'[s].state = "RESERVED" /\ segTable'[s].death_size = st.death_size
      /\ \A t \in Segs : t # s => segTable'[t] = segTable[t]
  BY <1>1, <1>2, <1>3
<1>5. SegTypeOK'
  BY <1>1, <1>2, <1>4 DEF SegTypeOK
<1> QED
  BY <1>2, <1>4, <1>5 DEF st

(* What Use does to a segment.                                             *)
LEMMA UseTyped ==
  ASSUME SegTypeOK, NEW s \in Segs, NEW n \in Nat, Use(s, n)
  PROVE  /\ SegTypeOK' /\ UNCHANGED freedCounter
         /\ segTable'[s].state = "USED" /\ segTable'[s].free_size = n
         /\ segTable'[s].death_size = segTable[s].death_size
         /\ \A t \in Segs : t # s => segTable'[t] = segTable[t]
<1> DEFINE st == segTable[s]
<1>1. segTable \in [Segs -> SegmentStat] /\ st \in SegmentStat
      /\ usedCounter \in Int /\ freedCounter \in Int /\ reservedCounter \in Int
      /\ curSegId \in Segs
  BY DEF SegTypeOK
<1>2. segTable' = [segTable EXCEPT ![s] = [st EXCEPT !.state = "USED", !.free_size = n]]
      /\ usedCounter' = usedCounter + 1 /\ reservedCounter' = reservedCounter - 1
      /\ UNCHANGED <<freedCounter, curSegId>>
  BY DEF Use
<1> HIDE DEF st
<1>3. LET r == [st EXCEPT !.state = "USED", !.free_size = n]
      IN /\ r \in SegmentStat /\ r.state = "USED" /\ r.free_size = n
         /\ r.death_size = st.death_size
  BY <1>1 DEF SegmentStat, SegUseStat
<1>4. /\ segTable' \in [Segs -> SegmentStat]
      /\ segTable'[s].state = "USED" /\ segTable'[s].free_size = n
      /\ segTable'[s].death_size = st.death_size
      /\ \A t \in Segs : t # s => segTable'[t] = segTable[t]
  BY <1>1, <1>2, <1>3
<1>5. SegTypeOK'
  BY <1>1, <1>2, <1>4 DEF SegTypeOK
<1> QED
  BY <1>2, <1>4, <1>5 DEF st

(* Freeing a segment resets it and leaves the others.                      *)
LEMMA FreeTyped ==
  ASSUME SegTypeOK, NEW s \in Segs, FreeForFailed(s) \/ FreeForGC(s)
  PROVE  /\ SegTypeOK' /\ freedCounter' = freedCounter + 1
         /\ segTable'[s].state = "FREE" /\ segTable'[s].death_size = 0
         /\ \A t \in Segs : t # s => segTable'[t] = segTable[t]
<1>1. FreshStat \in SegmentStat /\ FreshStat.state = "FREE" /\ FreshStat.death_size = 0
  BY DEF FreshStat, SegmentStat, SegUseStat
<1>2. segTable \in [Segs -> SegmentStat] /\ usedCounter \in Int /\ freedCounter \in Int
      /\ reservedCounter \in Int /\ curSegId \in Segs
  BY DEF SegTypeOK
<1>3. /\ segTable' = [segTable EXCEPT ![s] = FreshStat] /\ UNCHANGED curSegId
      /\ usedCounter' \in Int /\ freedCounter' = freedCounter + 1 /\ reservedCounter' \in Int
  BY <1>2 DEF FreeForFailed, FreeForGC
<1>4. segTable' \in [Segs -> SegmentStat]
  BY <1>1, <1>2, <1>3
<1>5. SegTypeOK'
  BY <1>2, <1>3, <1>4 DEF SegTypeOK
<1> QED
  BY <1>1, <1>2, <1>3, <1>5

(* One more record is dead in each segment of D.                           *)
Charged(D) ==
  /\ SegTypeOK' /\ UNCHANGED freedCounter
  /\ \A s \in Segs :
       /\ segTable'[s].state = segTable[s].state
       /\ segTable'[s].free_size = segTable[s].free_size
       /\ segTable'[s].death_size = segTable[s].death_size + (IF s \in D THEN 1 ELSE 0)

(* ModifyDeathEntry charges the segments it is called for.                 *)
LEMMA ChargedTyped ==
  ASSUME SegTypeOK, NEW D,
         segTable' = [s \in Segs |-> IF s \in D THEN WithDeath(segTable, s, 1)[s] ELSE segTable[s]],
         UNCHANGED <<curSegId, counters>>
  PROVE  Charged(D)
<1>1. segTable \in [Segs -> SegmentStat] /\ usedCounter \in Int /\ freedCounter \in Int
      /\ reservedCounter \in Int /\ curSegId \in Segs
      /\ UNCHANGED <<curSegId, usedCounter, freedCounter, reservedCounter>>
  BY DEF SegTypeOK, counters
<1>2. ASSUME NEW s \in Segs
      PROVE  /\ segTable'[s] \in SegmentStat
             /\ segTable'[s].state = segTable[s].state
             /\ segTable'[s].free_size = segTable[s].free_size
             /\ segTable'[s].death_size = segTable[s].death_size + (IF s \in D THEN 1 ELSE 0)
  <2> DEFINE st == segTable[s]
             d == st.death_size + 1
  <2>1. st \in SegmentStat
    BY <1>1
  <2>2. segTable'[s] = IF s \in D THEN [st EXCEPT !.death_size = d] ELSE st
    BY <1>1 DEF WithDeath
  <2>3. d \in Nat /\ d = st.death_size + 1 /\ st.death_size \in Nat
    BY <2>1 DEF SegmentStat
  <2> HIDE DEF st, d
  <2>4. LET r == [st EXCEPT !.death_size = d]
        IN r \in SegmentStat /\ r.state = st.state /\ r.free_size = st.free_size /\ r.death_size = d
    BY <2>1, <2>3 DEF SegmentStat
  <2>5. CASE s \in D
    <3>1. segTable'[s] = [st EXCEPT !.death_size = d]
      BY <2>2, <2>5
    <3> QED
      BY <2>3, <2>4, <2>5, <3>1 DEF st
  <2>6. CASE s \notin D
    <3>1. segTable'[s] = st
      BY <2>2, <2>6
    <3> QED
      BY <2>1, <2>3, <2>6, <3>1 DEF st
  <2> QED
    BY <2>5, <2>6
<1>3. segTable' = [s \in Segs |-> segTable'[s]]
  OBVIOUS
<1>4. segTable' \in [Segs -> SegmentStat]
  BY <1>2, <1>3
<1>5. SegTypeOK'
  BY <1>1, <1>4 DEF SegTypeOK
<1> QED
  BY <1>1, <1>2, <1>5 DEF Charged

(* What UpdateIndex of an entry does to the index and the dead space.      *)
LEMMA UpdateTyped ==
  ASSUME TypeOK, NEW e \in Entries, UpdateIndex(e)
  PROVE  /\ KeyOf[e.write] \in Keys /\ e.write \in Writes
         /\ index' \in [Keys -> MaybeEntries]
         /\ index'[KeyOf[e.write]] = Kept(e, index[KeyOf[e.write]])
         /\ \A k \in Keys : k # KeyOf[e.write] => index'[k] = index[k]
         /\ Charged(DeadSeg(e, index[KeyOf[e.write]]))
<1> DEFINE key == KeyOf[e.write]
<1>1. key \in Keys /\ e.write \in Writes
  BY GcManagerAssumption DEF Entries
<1>2. index \in [Keys -> MaybeEntries] /\ SegTypeOK
  BY DEF TypeOK
<1>3. index[key] \in MaybeEntries /\ e \in MaybeEntries /\ NoEntry \in MaybeEntries
  BY <1>1, <1>2 DEF MaybeEntries
<1>4. Kept(e, index[key]) \in MaybeEntries
  BY <1>3 DEF Kept
<1>5. /\ index' = [index EXCEPT ![key] = Kept(e, index[key])]
      /\ segTable' = [s \in Segs |-> IF s \in DeadSeg(e, index[key])
                                     THEN WithDeath(segTable, s, 1)[s] ELSE segTable[s]]
      /\ UNCHANGED <<curSegId, counters>>
  BY DEF UpdateIndex
<1> HIDE DEF key
<1>6. /\ index' \in [Keys -> MaybeEntries] /\ index'[key] = Kept(e, index[key])
      /\ \A k \in Keys : k # key => index'[k] = index[k]
  BY <1>1, <1>2, <1>4, <1>5
<1>7. Charged(DeadSeg(e, index[key]))
  BY <1>2, <1>5, ChargedTyped
<1> QED
  BY <1>1, <1>6, <1>7 DEF key
(* What an allocation does.                                                *)
LEMMA AllocateTyped ==
  ASSUME TypeInv, NEW b \in Batches, Allocate(b)
  PROVE  /\ TypeInv' /\ MayRun
         /\ batch[b].at = "new" /\ batch'[b].at = "write" /\ batch'[b].seg \in Segs
         /\ batch'[b].stamp = batch[b].stamp /\ batch'[b].next = 1
         /\ \A c \in Batches : c # b => batch'[c] = batch[c]
         /\ segTable[batch'[b].seg].state = "FREE" /\ segTable'[batch'[b].seg].state = "RESERVED"
         /\ segTable'[batch'[b].seg].death_size = segTable[batch'[b].seg].death_size
         /\ \A s \in Segs : s # batch'[b].seg => segTable'[s] = segTable[s]
         /\ before' = [before EXCEPT ![b] = Done]
         /\ UNCHANGED <<content, index, clock, gc, merges, reader, dangling>>
<1>1. TypeOK /\ Progress
  BY DEF TypeInv
<1>2. PICK s \in Segs : /\ AllocForGC(s)
                        /\ batch' = [batch EXCEPT ![b].at = "write", ![b].seg = s]
  BY DEF Allocate
<1>3. /\ MayRun /\ batch[b].at = "new" /\ before' = [before EXCEPT ![b] = Done]
      /\ UNCHANGED <<content, index, clock, gc, merges, reader, dangling>>
  BY DEF Allocate
<1>4. batch[b].next = 1
  BY <1>1, <1>3 DEF Progress
<1>5. /\ batch \in [Batches -> BatchRecord] /\ batch[b] \in BatchRecord
      /\ batch' = [batch EXCEPT ![b] = [batch[b] EXCEPT !.at = "write", !.seg = s]]
  <2>1. batch \in [Batches -> BatchRecord]
    BY <1>1, Types
  <2> QED
    BY <1>2, <2>1
<1>6. /\ batch' \in [Batches -> BatchRecord]
      /\ batch'[b].at = "write" /\ batch'[b].seg = s /\ batch'[b].stamp = batch[b].stamp
      /\ batch'[b].next = 1
      /\ \A c \in Batches : c # b => batch'[c] = batch[c]
  <2> DEFINE old == batch[b]
  <2>1. LET r == [old EXCEPT !.at = "write", !.seg = s]
        IN /\ r \in BatchRecord /\ r.at = "write" /\ r.seg = s /\ r.stamp = old.stamp
           /\ r.next = old.next
    <3>1. old \in BatchRecord
      BY <1>5
    <3> HIDE DEF old
    <3> QED
      BY <3>1 DEF BatchRecord
  <2> QED
    BY <1>4, <1>5, <2>1
<1>7. /\ SegTypeOK' /\ segTable[s].state = "FREE" /\ segTable'[s].state = "RESERVED"
      /\ segTable'[s].death_size = segTable[s].death_size
      /\ \A t \in Segs : t # s => segTable'[t] = segTable[t]
  BY <1>1, <1>2, ReserveTyped, Types
<1>8. before' \in [Batches -> SUBSET Batches]
  BY <1>1, <1>3, Types DEF Done
<1>9. TypeOK'
  BY <1>1, <1>3, <1>6, <1>7, <1>8 DEF TypeOK, MaybeEntries, FreeAfter
<1>10. Progress'
  BY <1>1, <1>3, <1>6 DEF Progress
<1> QED
  BY <1>3, <1>6, <1>7, <1>9, <1>10 DEF TypeInv

(* What the write of a batch's segment does.                               *)
LEMMA WriteTyped ==
  ASSUME TypeInv, NEW b \in Batches, WriteSeg(b)
  PROVE  /\ TypeInv' /\ MayRun
         /\ batch[b].at = "write" /\ batch'[b].at = "update" /\ batch[b].seg \in Segs
         /\ batch'[b].seg = batch[b].seg /\ batch'[b].stamp = clock' /\ batch'[b].next = 1
         /\ \A c \in Batches : c # b => batch'[c] = batch[c]
         /\ clock' = clock + 1
         /\ content'[batch[b].seg] = Items[b]
         /\ \A s \in Segs : s # batch[b].seg => content'[s] = content[s]
         /\ segTable'[batch[b].seg].state = "USED"
         /\ segTable'[batch[b].seg].free_size = FreeAfter(Len(Items[b]))
         /\ segTable'[batch[b].seg].death_size = segTable[batch[b].seg].death_size
         /\ \A s \in Segs : s # batch[b].seg => segTable'[s] = segTable[s]
         /\ UNCHANGED <<index, gc, merges, reader, before, dangling, freedCounter>>
<1> DEFINE seg == batch[b].seg
           free == FreeAfter(Len(Items[b]))
<1>1. /\ TypeOK /\ Progress /\ seg \in Segs /\ clock \in Nat /\ SegTypeOK
      /\ content \in [Segs -> Seq(Writes)]
  BY Types DEF TypeInv
<1>2. /\ MayRun /\ batch[b].at = "write" /\ clock' = clock + 1
      /\ content' = [content EXCEPT ![seg] = Items[b]]
      /\ Use(seg, free)
      /\ batch' = [batch EXCEPT ![b] = [@ EXCEPT !.at = "update", !.stamp = clock']]
      /\ UNCHANGED <<index, gc, merges, reader, before, dangling>>
  BY DEF WriteSeg, history
<1>3. batch[b].next = 1
  BY <1>1, <1>2 DEF Progress
<1>5. clock' \in Nat /\ Items[b] \in Seq(Writes) /\ free \in Nat
      /\ Len(Items[b]) <= SegSize - SegHeader /\ 1 \in DOMAIN Items[b]
  BY <1>1, <1>2, ItemsTyped
<1> HIDE DEF seg, free
<1>6. /\ batch' \in [Batches -> BatchRecord]
      /\ batch'[b].at = "update" /\ batch'[b].seg = seg /\ batch'[b].stamp = clock'
      /\ batch'[b].next = 1
      /\ \A c \in Batches : c # b => batch'[c] = batch[c]
  <2> DEFINE old == batch[b]
  <2>1. LET r == [old EXCEPT !.at = "update", !.stamp = clock']
        IN /\ r \in BatchRecord /\ r.at = "update" /\ r.seg = old.seg /\ r.stamp = clock'
           /\ r.next = old.next
    <3>1. old \in BatchRecord
      BY <1>1, Types
    <3> HIDE DEF old
    <3> QED
      BY <1>5, <3>1 DEF BatchRecord
  <2>2. batch \in [Batches -> BatchRecord]
    BY <1>1, Types
  <2> QED
    BY <1>2, <1>3, <2>1, <2>2 DEF seg
<1>7. /\ SegTypeOK' /\ segTable'[seg].state = "USED" /\ segTable'[seg].free_size = free
      /\ segTable'[seg].death_size = segTable[seg].death_size
      /\ \A t \in Segs : t # seg => segTable'[t] = segTable[t]
      /\ UNCHANGED freedCounter
  BY <1>1, <1>2, <1>5, UseTyped
<1>8. /\ content' \in [Segs -> Seq(Writes)] /\ content'[seg] = Items[b]
      /\ \A s \in Segs : s # seg => content'[s] = content[s]
  BY <1>1, <1>2, <1>5
<1>9. TypeOK'
  BY <1>1, <1>2, <1>5, <1>6, <1>7, <1>8 DEF TypeOK, MaybeEntries, FreeAfter
<1>10. Progress'
  BY <1>1, <1>2, <1>5, <1>6, <1>8 DEF Progress
<1> QED
  BY <1>2, <1>6, <1>7, <1>8, <1>9, <1>10, <1>1 DEF TypeInv, seg, free

(* What a failing write of a batch's segment does.                         *)
LEMMA WriteFailsTyped ==
  ASSUME TypeInv, NEW b \in Batches, WriteSegFails(b)
  PROVE  /\ TypeInv' /\ MayRun
         /\ batch[b].at = "write" /\ batch'[b].at = "failed" /\ batch[b].seg \in Segs
         /\ batch'[b].stamp = batch[b].stamp
         /\ \A c \in Batches : c # b => batch'[c] = batch[c]
         /\ segTable'[batch[b].seg].state = "FREE" /\ segTable'[batch[b].seg].death_size = 0
         /\ \A s \in Segs : s # batch[b].seg => segTable'[s] = segTable[s]
         /\ UNCHANGED <<content, index, clock, gc, merges, reader, before, dangling>>
<1>1. /\ TypeOK /\ Progress /\ batch[b].seg \in Segs /\ SegTypeOK
      /\ batch \in [Batches -> BatchRecord] /\ batch[b] \in BatchRecord
  BY Types DEF TypeInv
<1>2. /\ MayRun /\ batch[b].at = "write" /\ FreeForFailed(batch[b].seg)
      /\ batch' = [batch EXCEPT ![b] = [batch[b] EXCEPT !.at = "failed"]]
      /\ UNCHANGED <<content, index, clock, gc, merges, reader, before, dangling>>
  BY DEF WriteSegFails, history
<1>3. LET r == [batch[b] EXCEPT !.at = "failed"]
      IN r \in BatchRecord /\ r.at = "failed" /\ r.stamp = batch[b].stamp
  BY <1>1 DEF BatchRecord
<1>4. /\ batch' \in [Batches -> BatchRecord]
      /\ batch'[b].at = "failed" /\ batch'[b].stamp = batch[b].stamp
      /\ \A c \in Batches : c # b => batch'[c] = batch[c]
  BY <1>1, <1>2, <1>3
<1>5. /\ SegTypeOK' /\ segTable'[batch[b].seg].state = "FREE"
      /\ segTable'[batch[b].seg].death_size = 0
      /\ \A t \in Segs : t # batch[b].seg => segTable'[t] = segTable[t]
  BY <1>1, <1>2, FreeTyped
<1>6. TypeOK'
  BY <1>1, <1>2, <1>4, <1>5 DEF TypeOK, MaybeEntries, FreeAfter
<1>7. Progress'
  BY <1>1, <1>2, <1>4 DEF Progress
<1> QED
  BY <1>1, <1>2, <1>4, <1>5, <1>6, <1>7 DEF TypeInv

(* The entry of the item a batch is about to bring to the index.           *)
ItemEntry(b) == Entry(Items[b][batch[b].next], batch[b].seg, batch[b].next, batch[b].stamp)

(* The entry of a batch's next write is its address in the segment taken.  *)
LEMMA ItemTyped ==
  ASSUME TypeOK, NEW b \in Batches, batch[b].next \in DOMAIN Items[b]
  PROVE  /\ ItemEntry(b) \in Entries /\ ItemEntry(b) # NoEntry
         /\ KeyOf[Items[b][batch[b].next]] \in Keys /\ Items[b][batch[b].next] \in Writes
         /\ ItemEntry(b).write = Items[b][batch[b].next] /\ ItemEntry(b).seg = batch[b].seg
         /\ ItemEntry(b).pos = batch[b].next /\ ItemEntry(b).stamp = batch[b].stamp
<1>1. /\ Items[b][batch[b].next] \in Writes /\ KeyOf[Items[b][batch[b].next]] \in Keys
      /\ batch[b].seg \in Segs /\ batch[b].stamp \in Nat /\ batch[b].next \in Nat \ {0}
  BY ItemsTyped, Types
<1> QED
  BY <1>1, EntriesTyped DEF ItemEntry

(* What an index update of a batch does.                                   *)
LEMMA BatchUpdateTyped ==
  ASSUME TypeInv, NEW b \in Batches, BatchUpdate(b)
  PROVE  /\ TypeInv' /\ MayRun /\ UpdateIndex(ItemEntry(b))
         /\ batch[b].at = "update" /\ batch[b].next \in DOMAIN Items[b]
         /\ batch'[b].seg = batch[b].seg /\ batch'[b].stamp = batch[b].stamp
         /\ IF batch[b].next = Len(Items[b])
            THEN batch'[b].at \in {"reap", "done"} /\ batch'[b].next = 1
            ELSE batch'[b].at = "update" /\ batch'[b].next = batch[b].next + 1
         /\ \A c \in Batches : c # b => batch'[c] = batch[c]
         /\ UNCHANGED <<content, clock, gc, merges, reader, before, dangling>>
<1> DEFINE old == batch[b]
           last == old.next = Len(Items[b])
           to == IF ~last THEN "update" ELSE IF b \in Reaped THEN "reap" ELSE "done"
           next == IF last THEN 1 ELSE old.next + 1
<1>1. /\ batch \in [Batches -> BatchRecord] /\ old \in BatchRecord /\ TypeOK /\ Progress
  BY Types DEF TypeInv
<1>2. /\ MayRun /\ old.at = "update" /\ UpdateIndex(ItemEntry(b))
      /\ batch' = [batch EXCEPT ![b] = [old EXCEPT !.at = to, !.next = next]]
      /\ UNCHANGED <<content, clock, gc, merges, reader, before, dangling>>
  BY DEF BatchUpdate, ItemEntry, history
<1>3. old.next \in DOMAIN Items[b]
  BY <1>1, <1>2 DEF Progress
<1>4. ItemEntry(b) \in Entries
  BY <1>1, <1>3, ItemTyped
<1>5. /\ next \in Nat \ {0} /\ next \in DOMAIN Items[b]
  BY <1>3, ItemsTyped
<1>6. /\ index' \in [Keys -> MaybeEntries] /\ SegTypeOK'
  BY <1>1, <1>2, <1>4, UpdateTyped DEF Charged
<1>7. to \in {"update", "reap", "done"} /\ (IF last THEN to \in {"reap", "done"} ELSE to = "update")
  OBVIOUS
<1> HIDE DEF old, last, to, next
<1>8. LET r == [old EXCEPT !.at = to, !.next = next]
      IN r \in BatchRecord /\ r.at = to /\ r.next = next /\ r.seg = old.seg /\ r.stamp = old.stamp
  BY <1>1, <1>5, <1>7 DEF BatchRecord
<1>9. /\ batch' \in [Batches -> BatchRecord] /\ \A c \in Batches : c # b => batch'[c] = batch[c]
      /\ batch'[b].at = to /\ batch'[b].next = next
      /\ batch'[b].seg = old.seg /\ batch'[b].stamp = old.stamp
  BY <1>1, <1>2, <1>8
<1>10. TypeOK'
  BY <1>1, <1>2, <1>6, <1>9 DEF TypeOK, MaybeEntries, FreeAfter
<1>11. Progress'
  BY <1>1, <1>2, <1>5, <1>7, <1>9 DEF Progress
<1> QED
  BY <1>2, <1>3, <1>7, <1>9, <1>10, <1>11 DEF TypeInv, old, last, next

(* The key of the item that the reaper looks at, and whether it removes    *)
(* the entry of that key.                                                  *)
ReapedKey(b) == KeyOf[Items[b][batch[b].next]]
Removes(b) ==
  /\ Items[b][batch[b].next] \in Deletes
  /\ index[ReapedKey(b)] # NoEntry
  /\ index[ReapedKey(b)].stamp = batch[b].stamp
  /\ index[ReapedKey(b)].write \in Deletes

(* What a turn of the reaper does.                                         *)
LEMMA ReapTyped ==
  ASSUME TypeInv, NEW b \in Batches, Reap(b)
  PROVE  /\ TypeInv' /\ MayRun /\ ReapedKey(b) \in Keys
         /\ batch[b].at = "reap" /\ batch[b].next \in DOMAIN Items[b]
         /\ batch'[b].at \in {"reap", "done"}
         /\ batch'[b].seg = batch[b].seg /\ batch'[b].stamp = batch[b].stamp
         /\ \A c \in Batches : c # b => batch'[c] = batch[c]
         /\ \/ /\ Removes(b) /\ Charged({batch[b].seg})
               /\ index' = [index EXCEPT ![ReapedKey(b)] = NoEntry]
            \/ UNCHANGED <<index, segTable>>
         /\ UNCHANGED <<content, clock, gc, merges, reader, before, dangling, freedCounter>>
<1> DEFINE old == batch[b]
           to == IF old.next = Len(Items[b]) THEN "done" ELSE "reap"
           next == old.next + 1
<1>1. /\ batch \in [Batches -> BatchRecord] /\ old \in BatchRecord /\ TypeOK /\ Progress
      /\ index \in [Keys -> MaybeEntries] /\ SegTypeOK /\ old.seg \in Segs
  BY Types DEF TypeInv
<1>2. /\ MayRun /\ old.at = "reap"
      /\ batch' = [batch EXCEPT ![b] = [old EXCEPT !.at = to, !.next = next]]
      /\ index' = IF Removes(b) THEN [index EXCEPT ![ReapedKey(b)] = NoEntry] ELSE index
      /\ segTable' = IF Removes(b) THEN WithDeath(segTable, old.seg, 1) ELSE segTable
      /\ UNCHANGED <<curSegId, counters, content, clock, gc, merges, reader, before, dangling>>
  BY DEF Reap, Removes, ReapedKey, history
<1>3. old.next \in DOMAIN Items[b]
  BY <1>1, <1>2 DEF Progress
<1>4. ReapedKey(b) \in Keys /\ Len(Items[b]) \in Nat /\ DOMAIN Items[b] = 1 .. Len(Items[b])
  BY <1>3, ItemsTyped DEF ReapedKey
<1>5. next \in Nat \ {0} /\ (to = "reap" => next \in DOMAIN Items[b]) /\ to \in {"reap", "done"}
  BY <1>3, <1>4
<1>6. /\ index' \in [Keys -> MaybeEntries]
      /\ Removes(b) => index' = [index EXCEPT ![ReapedKey(b)] = NoEntry]
      /\ ~Removes(b) => index' = index /\ segTable' = segTable
  BY <1>1, <1>2, <1>4 DEF MaybeEntries
<1>7. Removes(b) => Charged({old.seg})
  <2> SUFFICES ASSUME Removes(b) PROVE Charged({old.seg})
    OBVIOUS
  <2>1. segTable' = WithDeath(segTable, old.seg, 1) /\ segTable \in [Segs -> SegmentStat]
    BY <1>1, <1>2, Types
  <2> HIDE DEF old
  <2>2. segTable' = [s \in Segs |-> IF s \in {old.seg}
                                    THEN WithDeath(segTable, s, 1)[s] ELSE segTable[s]]
    BY <1>1, <2>1 DEF WithDeath
  <2> QED
    BY <1>1, <1>2, <2>2, ChargedTyped
<1>8. SegTypeOK' /\ UNCHANGED freedCounter
  <2>1. CASE Removes(b)
    BY <1>7, <2>1 DEF Charged
  <2>2. CASE ~Removes(b)
    BY <1>1, <1>2, <1>6, <2>2 DEF SegTypeOK, counters
  <2> QED
    BY <2>1, <2>2
<1> HIDE DEF old, to, next
<1>9. LET r == [old EXCEPT !.at = to, !.next = next]
      IN r \in BatchRecord /\ r.at = to /\ r.next = next /\ r.seg = old.seg /\ r.stamp = old.stamp
  BY <1>1, <1>5 DEF BatchRecord
<1>10. /\ batch' \in [Batches -> BatchRecord] /\ \A c \in Batches : c # b => batch'[c] = batch[c]
       /\ batch'[b].at = to /\ batch'[b].next = next
       /\ batch'[b].seg = old.seg /\ batch'[b].stamp = old.stamp
  BY <1>1, <1>2, <1>9
<1>11. TypeOK'
  BY <1>1, <1>2, <1>6, <1>8, <1>10 DEF TypeOK, MaybeEntries, FreeAfter
<1>12. Progress'
  BY <1>1, <1>2, <1>5, <1>10 DEF Progress
<1> QED
  BY <1>2, <1>3, <1>4, <1>5, <1>6, <1>7, <1>8, <1>10, <1>11, <1>12 DEF TypeInv, old

(* What a step of a reader does.                                           *)
LEMMA ReaderTyped ==
  ASSUME TypeInv, NEW c \in Readers, Find(c) \/ ReadData(c)
  PROVE  /\ TypeInv' /\ MayRun
         /\ \/ /\ reader[c].at = "new" /\ reader'[c].at = "found"
               /\ \E k \in Keys : /\ index[k] # NoEntry /\ index[k].write \notin Deletes
                                  /\ reader'[c].entry = index[k]
            \/ /\ reader[c].at = "found" /\ reader'[c].at = "read"
               /\ reader'[c].entry = reader[c].entry
               /\ reader[c].entry.pos \in DOMAIN content[reader[c].entry.seg] =>
                    reader'[c].got = content[reader[c].entry.seg][reader[c].entry.pos]
         /\ \A d \in Readers : d # c => reader'[d] = reader[d]
         /\ UNCHANGED <<segVars, content, index, clock, batch, gc, merges, before, dangling>>
<1>1. TypeOK /\ Progress /\ reader \in [Readers -> ReaderRecord] /\ reader[c] \in ReaderRecord
      /\ content \in [Segs -> Seq(Writes)]
  BY Types DEF TypeInv
<1>2. MayRun /\ UNCHANGED <<segVars, content, index, clock, batch, gc, merges, before, dangling>>
  BY DEF Find, ReadData, history
<1>3. /\ reader' = [reader EXCEPT ![c] = reader'[c]] /\ reader'[c] \in ReaderRecord
      /\ \/ /\ reader[c].at = "new" /\ reader'[c].at = "found"
            /\ \E k \in Keys : /\ index[k] # NoEntry /\ index[k].write \notin Deletes
                               /\ reader'[c].entry = index[k]
         \/ /\ reader[c].at = "found" /\ reader'[c].at = "read"
            /\ reader'[c].entry = reader[c].entry
            /\ reader[c].entry.pos \in DOMAIN content[reader[c].entry.seg] =>
                 reader'[c].got = content[reader[c].entry.seg][reader[c].entry.pos]
  <2> DEFINE old == reader[c]
  <2>1. CASE Find(c)
    <3>1. PICK k \in Keys :
            /\ index[k] # NoEntry /\ index[k].write \notin Deletes
            /\ reader' = [reader EXCEPT ![c] = [old EXCEPT !.at = "found", !.entry = index[k]]]
      BY <2>1 DEF Find
    <3>2. old.at = "new" /\ index[k] \in MaybeEntries
      BY <1>1, <2>1, Types DEF Find
    <3> HIDE DEF old
    <3>3. LET r == [old EXCEPT !.at = "found", !.entry = index[k]]
          IN r \in ReaderRecord /\ r.at = "found" /\ r.entry = index[k]
      BY <1>1, <3>2 DEF ReaderRecord, old
    <3> QED
      BY <1>1, <3>1, <3>2, <3>3 DEF old
  <2>2. CASE ReadData(c)
    <3> DEFINE e == old.entry
               got == IF e.pos \in DOMAIN content[e.seg] THEN content[e.seg][e.pos] ELSE NoEntry
    <3>1. /\ reader' = [reader EXCEPT ![c] = [old EXCEPT !.at = "read", !.got = got]]
          /\ old.at = "found"
      BY <2>2 DEF ReadData
    <3>2. e \in Entries
      BY <1>1, <3>1 DEF ReaderRecord, MaybeEntries, Progress
    <3>3. got \in Writes \cup {NoEntry}
      <4>1. content[e.seg] \in Seq(Writes)
        BY <1>1, <3>2 DEF Entries
      <4>2. e.pos \in DOMAIN content[e.seg] => content[e.seg][e.pos] \in Writes
        BY <4>1, ElementOfSeq
      <4> QED
        BY <4>2
    <3>4. e.pos \in DOMAIN content[e.seg] => got = content[e.seg][e.pos]
      OBVIOUS
    <3>5. old.entry = e /\ old \in ReaderRecord
      BY <1>1
    <3> HIDE DEF old, e, got
    <3>6. LET r == [old EXCEPT !.at = "read", !.got = got]
          IN r \in ReaderRecord /\ r.at = "read" /\ r.got = got /\ r.entry = e
      BY <3>3, <3>5 DEF ReaderRecord
    <3>7. /\ reader' = [reader EXCEPT ![c] = reader'[c]] /\ reader'[c] \in ReaderRecord
          /\ reader'[c].at = "read" /\ reader'[c].entry = e /\ reader'[c].got = got
      BY <1>1, <3>1, <3>6
    <3> QED
      BY <3>1, <3>4, <3>5, <3>7 DEF old
  <2> QED
    BY <2>1, <2>2
<1>4. /\ reader' \in [Readers -> ReaderRecord]
      /\ \A d \in Readers : d # c => reader'[d] = reader[d]
  BY <1>1, <1>3
<1>5. TypeOK'
  BY <1>1, <1>2, <1>4 DEF TypeOK, SegTypeOK, segVars, MaybeEntries, FreeAfter
<1>6. Progress'
  BY <1>1, <1>2, <1>3, <1>4 DEF Progress
<1> QED
  BY <1>2, <1>3, <1>4, <1>5, <1>6 DEF TypeInv
(* Who writes, reads and has read do not take part in a merge's step.      *)
LEMMA OthersTyped ==
  ASSUME TypeInv, OthersKeep
  PROVE  /\ UNCHANGED <<clock, batch, merges, reader, before>>
         /\ clock' \in Nat /\ merges' \in 0 .. MaxMerges
         /\ batch' \in [Batches -> BatchRecord] /\ reader' \in [Readers -> ReaderRecord]
         /\ before' \in [Batches -> SUBSET Batches]
         /\ \A b \in Batches : batch'[b].at \in {"update", "reap"} => batch'[b].next \in DOMAIN Items[b]
         /\ \A b \in Batches : batch'[b].at \in {"new", "write"} => batch'[b].next = 1
         /\ \A c \in Readers : reader'[c].at = "found" => reader'[c].entry # NoEntry
<1>1. UNCHANGED <<clock, batch, merges, reader, before>>
  BY DEF OthersKeep
<1>2. TypeOK /\ Progress
  BY DEF TypeInv
<1> QED
  BY <1>1, <1>2 DEF TypeOK, Progress

(* Each sorted candidate list holds members of the set in the order of     *)
(* the multimap.                                                           *)
LEMMA CandMapTyped ==
  ASSUME NEW S \in SUBSET Segs, NEW q \in CandMap(S)
  PROVE  /\ q \in Seq(Segs) /\ DOMAIN q = 1 .. Len(q) /\ Len(q) = Cardinality(S)
         /\ IsFiniteSet(S)
         /\ \A i \in DOMAIN q : q[i] \in S
         /\ \A i, j \in DOMAIN q : i < j => SortsBefore(q[i], q[j])
<1>1. IsFiniteSet(S)
  <2>1. IsFiniteSet(Segs)
    BY SegmentManagerAssumption, FS_Interval DEF Segs
  <2> QED
    BY <2>1, FS_Subset
<1>2. Cardinality(S) \in Nat
  BY <1>1, FS_CardinalityType
<1> DEFINE n == Cardinality(S)
<1>3. q \in [1 .. n -> S] /\ \A i, j \in DOMAIN q : i < j => SortsBefore(q[i], q[j])
  BY DEF CandMap
<1>0. n = Cardinality(S)
  OBVIOUS
<1> HIDE DEF n
<1>4. n \in Nat
  BY <1>0, <1>2
<1>5. q \in Seq(S) /\ DOMAIN q = 1 .. n
  BY <1>3, <1>4, SeqDef
<1>6. q \in Seq(Segs) /\ Len(q) = n
  BY <1>3, <1>4, SeqDef
<1> QED
  BY <1>0, <1>1, <1>3, <1>5, <1>6

(* cand_map holds each segment once.                                       *)
LEMMA CandMapOnce ==
  ASSUME NEW S \in SUBSET Segs, NEW q \in CandMap(S), TypeOK
  PROVE  \A i, j \in DOMAIN q : q[i] = q[j] => i = j
<1>1. \A s \in Segs : ~SortsBefore(s, s)
  <2> SUFFICES ASSUME NEW s \in Segs PROVE ~SortsBefore(s, s)
    OBVIOUS
  <2>1. s \in Nat /\ segTable[s] \in SegmentStat
    BY SegsAreNumbers, SegmentManagerAssumption DEF TypeOK, SegTypeOK
  <2>2. UsedSize(s) \in Int
    <3>1. segTable[s].free_size \in Int /\ segTable[s].death_size \in Int
      BY <2>1 DEF SegmentStat
    <3>2. SegSize - (segTable[s].free_size + segTable[s].death_size + SegHeader) \in Int
      BY <3>1, SegmentManagerAssumption
    <3> QED
      BY <3>2, SegmentManagerAssumption DEF UsedSize
  <2> QED
    BY <2>1, <2>2 DEF SortsBefore
<1>2. /\ DOMAIN q = 1 .. Len(q) /\ Len(q) \in Nat
      /\ \A i \in DOMAIN q : q[i] \in S
      /\ \A i, j \in DOMAIN q : i < j => SortsBefore(q[i], q[j])
  BY CandMapTyped
<1> SUFFICES ASSUME NEW i \in DOMAIN q, NEW j \in DOMAIN q, q[i] = q[j], i # j
             PROVE  FALSE
  OBVIOUS
<1>3. i < j \/ j < i
  BY <1>2
<1>4. SortsBefore(q[i], q[i])
  BY <1>2, <1>3
<1> QED
  BY <1>1, <1>2, <1>4

(* A merge begins with nothing loaded.                                     *)
LEMMA SortTyped ==
  ASSUME TypeInv, GcSort
  PROVE  /\ TypeInv' /\ MayMerge
         /\ gc.at = "idle" /\ gc'.at = "load"
         /\ gc'.cands \in CandMap(SegsByUtils(Thld)) /\ gc'.cands # <<>>
         /\ gc'.pos = 1 /\ gc'.list = <<>> /\ gc'.first = <<>> /\ gc'.frees = <<>>
         /\ gc'.last = {} /\ gc'.stamp = 0 /\ gc'.freeAtStart = freedCounter
         /\ UNCHANGED <<segVars, content, index, clock, batch, reader, before, dangling>>
<1>1. TypeOK /\ Progress
  BY DEF TypeInv
<1>2. PICK q \in CandMap(SegsByUtils(Thld)) :
        gc' = [NoMerge EXCEPT !.at = "load", !.cands = q, !.freeAtStart = freedCounter]
  BY DEF GcSort
<1>3. /\ MayMerge /\ gc.at = "idle" /\ merges < MaxMerges /\ SegsByUtils(Thld) # {}
      /\ merges' = merges + 1
      /\ UNCHANGED <<segVars, content, index, clock, batch, reader, before, dangling>>
  BY DEF GcSort, history
<1>4. SegsByUtils(Thld) \in SUBSET Segs
  BY DEF SegsByUtils, InState
<1>5. q \in Seq(Segs) /\ q # <<>>
  <2>1. q \in Seq(Segs) /\ Len(q) = Cardinality(SegsByUtils(Thld)) /\ IsFiniteSet(SegsByUtils(Thld))
    BY <1>4, CandMapTyped
  <2>2. Len(q) # 0
    BY <1>3, <2>1, FS_EmptySet
  <2> QED
    BY <2>1, <2>2
<1> DEFINE none == <<>>
           free == freedCounter
           no == {}
<1>6. gc' = [at |-> "load", cands |-> q, pos |-> 1, list |-> none, first |-> none,
             frees |-> none, last |-> no, seg |-> 0, stamp |-> 0, freeAtStart |-> free]
  BY <1>2 DEF NoMerge
<1>7. none \in Seq(Writes) /\ none \in Seq(Segs) /\ no \in SUBSET Segs /\ 0 \in Segs
      /\ free \in Int /\ Len(none) = 0
  BY <1>1, Types, SegmentManagerAssumption DEF Segs
<1> HIDE DEF none, free, no
<1>8. /\ gc' \in GcRecord /\ gc'.at = "load" /\ gc'.cands = q /\ gc'.pos = 1 /\ gc'.list = none
      /\ gc'.first = none /\ gc'.frees = none /\ gc'.last = no /\ gc'.stamp = 0
      /\ gc'.freeAtStart = free
  BY <1>5, <1>6, <1>7 DEF GcRecord
<1>9. merges' \in 0 .. MaxMerges
  BY <1>1, <1>3, GcManagerAssumption DEF TypeOK
<1>10. FreeAfter(Len(none)) >= 0
  BY <1>7, SegmentManagerAssumption DEF FreeAfter
<1>11. TypeOK'
  <2>1. (FreeAfter(Len(gc.first)) >= 0 /\ FreeAfter(Len(gc.list)) >= 0)'
    BY <1>8, <1>10 DEF FreeAfter
  <2> QED
    BY <1>1, <1>3, <1>8, <1>9, <2>1 DEF TypeOK, SegTypeOK, segVars, MaybeEntries
<1>12. Progress'
  BY <1>1, <1>3, <1>5, <1>7, <1>8 DEF Progress
<1> QED
  BY <1>2, <1>3, <1>5, <1>8, <1>11, <1>12 DEF TypeInv, none, free, no

(* The record a merge looks at, and whether the index points to it.        *)
Looked == content[Head(gc.cands)][gc.pos]
Same == IsSameInMem(Looked, Head(gc.cands), gc.pos)

(* What the look at a record does.                                         *)
LEMMA LoadTyped ==
  ASSUME TypeInv, GcLoadEntry
  PROVE  /\ TypeInv'
         /\ gc.at = "load" /\ gc'.at = "load" /\ gc.cands # <<>> /\ Head(gc.cands) = gc.cands[1]
         /\ gc.cands[1] \in Segs /\ gc.pos \in DOMAIN content[gc.cands[1]] /\ Looked \in Writes
         /\ gc'.pos = gc.pos + 1
         /\ gc'.list = IF Same /\ Looked \notin Deletes THEN Append(gc.list, Looked) ELSE gc.list
         /\ UNCHANGED <<gc.cands, gc.first, gc.frees, gc.last, gc.seg, gc.stamp, gc.freeAtStart>>
         /\ dangling' = (dangling \/ (Same /\ Looked \in Deletes))
         /\ UNCHANGED <<segVars, content, index>> /\ OthersKeep
<1> DEFINE old == gc
           more == IF Same /\ Looked \notin Deletes THEN Append(gc.list, Looked) ELSE gc.list
           pos == gc.pos + 1
<1>1. TypeOK /\ Progress /\ old \in GcRecord /\ content \in [Segs -> Seq(Writes)]
      /\ gc.cands \in Seq(Segs) /\ gc.pos \in Nat \ {0} /\ gc.list \in Seq(Writes)
  BY Types DEF TypeInv
<1>2. gc.at = "load" /\ gc.cands # <<>> /\ Len(gc.list) < gc.pos
  BY <1>1 DEF GcLoadEntry, Progress
<1>3. Head(gc.cands) = gc.cands[1] /\ gc.cands[1] \in Segs
  BY <1>1, <1>2
<1>4. /\ gc.pos \in DOMAIN content[gc.cands[1]]
      /\ gc' = [old EXCEPT !.pos = pos, !.list = more]
      /\ dangling' = (dangling \/ (Same /\ Looked \in Deletes))
      /\ UNCHANGED <<segVars, content, index>> /\ OthersKeep
  BY <1>3 DEF GcLoadEntry, Looked, Same
<1>5. Looked \in Writes /\ gc.pos <= SegSize - SegHeader
  <2>1. content[gc.cands[1]] \in Seq(Writes) /\ Len(content[gc.cands[1]]) <= SegSize - SegHeader
    BY <1>1, <1>3 DEF Progress
  <2>2. content[gc.cands[1]][gc.pos] \in Writes
    BY <1>4, <2>1, ElementOfSeq
  <2>3. gc.pos \in 1 .. Len(content[gc.cands[1]]) /\ Len(content[gc.cands[1]]) \in Nat
    BY <1>4, <2>1
  <2> QED
    BY <1>3, <2>1, <2>2, <2>3, SegmentManagerAssumption DEF Looked
<1>6. more \in Seq(Writes) /\ pos \in Nat \ {0} /\ Len(more) <= gc.pos
  BY <1>1, <1>2, <1>5
<1>0. pos = gc.pos + 1
  OBVIOUS
<1> HIDE DEF old, more, pos
<1>7. LET r == [old EXCEPT !.pos = pos, !.list = more]
      IN /\ r \in GcRecord /\ r.pos = pos /\ r.list = more /\ r.at = old.at
         /\ r.cands = old.cands /\ r.first = old.first /\ r.frees = old.frees
         /\ r.last = old.last /\ r.seg = old.seg /\ r.stamp = old.stamp
         /\ r.freeAtStart = old.freeAtStart
  BY <1>1, <1>6 DEF GcRecord
<1>8. /\ gc' \in GcRecord /\ gc'.pos = pos /\ gc'.list = more /\ gc'.at = gc.at
      /\ UNCHANGED <<gc.cands, gc.first, gc.frees, gc.last, gc.seg, gc.stamp, gc.freeAtStart>>
  BY <1>4, <1>7 DEF old
<1>9. FreeAfter(Len(more)) >= 0
  <2>1. Len(more) \in Nat
    BY <1>6
  <2> QED
    BY <1>1, <1>5, <1>6, <2>1, SegmentManagerAssumption DEF FreeAfter
<1>10. TypeOK'
  <2>1. (FreeAfter(Len(gc.first)) >= 0 /\ FreeAfter(Len(gc.list)) >= 0)'
    BY <1>1, <1>8, <1>9 DEF TypeOK, FreeAfter
  <2>2. dangling' \in BOOLEAN
    BY <1>4
  <2> QED
    BY <1>1, <1>4, <1>8, <2>1, <2>2, OthersTyped DEF TypeOK, SegTypeOK, segVars, MaybeEntries
<1>11. Progress'
  BY <1>0, <1>1, <1>2, <1>4, <1>6, <1>8, OthersTyped DEF Progress
<1> QED
  BY <1>0, <1>2, <1>3, <1>4, <1>5, <1>8, <1>10, <1>11 DEF TypeInv, more
(* How many records fit behind those of the first segment.                 *)
LEMMA FittingCounts ==
  ASSUME TypeOK, NEW n \in Nat
  PROVE  /\ Fitting(n) \in 0 .. n
         /\ FreeAfter(Len(gc.first) + Fitting(n)) >= 0
         /\ n < FreeAfter(Len(gc.first)) => Fitting(n) = n
<1> DEFINE len == Len(gc.first)
           room == FreeAfter(len) - 1
<1>1. len \in Nat /\ FreeAfter(len) \in Nat /\ SegSize \in Nat /\ SegHeader \in Nat
      /\ FreeAfter(len) = SegSize - SegHeader - len
  <2>1. len \in Nat /\ FreeAfter(len) >= 0
    BY Types DEF TypeOK
  <2> QED
    BY <2>1, SegmentManagerAssumption DEF FreeAfter
<1> DEFINE S == {i \in 0 .. n - 1 : RoomAfter(len + i)}
<1>2. Fitting(n) = Cardinality(S)
  BY DEF Fitting
<1>3. len = Len(gc.first)
  OBVIOUS
<1> HIDE DEF len
<1>4. room \in Int /\ room = SegSize - SegHeader - len - 1
  BY <1>1
<1> HIDE DEF room
<1>5. \A i \in 0 .. n - 1 : RoomAfter(len + i) <=> i < room
  BY <1>1, <1>4 DEF RoomAfter, FreeAfter
<1>6. CASE n <= room
  <2>1. S = 0 .. n - 1
    BY <1>4, <1>5, <1>6
  <2>2. Cardinality(0 .. n - 1) = n
    BY FS_Interval
  <2>3. Fitting(n) = n
    BY <1>2, <2>1, <2>2
  <2>4. FreeAfter(len + n) >= 0
    BY <1>1, <1>4, <1>6 DEF FreeAfter
  <2> QED
    BY <1>3, <2>3, <2>4
<1>7. CASE n > room /\ room >= 0
  <2>1. S = 0 .. room - 1
    BY <1>4, <1>5, <1>7
  <2>2. Cardinality(0 .. room - 1) = room
    BY <1>4, <1>7, FS_Interval
  <2>3. Fitting(n) = room
    BY <1>2, <2>1, <2>2
  <2>4. FreeAfter(len + room) >= 0 /\ ~(n < FreeAfter(len)) /\ room \in 0 .. n
    BY <1>1, <1>4, <1>7 DEF FreeAfter
  <2> QED
    BY <1>3, <2>3, <2>4
<1>8. CASE room < 0
  <2>1. S = {}
    BY <1>4, <1>5, <1>8
  <2>2. Fitting(n) = 0
    BY <1>2, <2>1, FS_EmptySet
  <2>3. FreeAfter(len + 0) >= 0 /\ ~(n < FreeAfter(len)) /\ 0 \in 0 .. n
    BY <1>1, <1>4, <1>8 DEF FreeAfter
  <2> QED
    BY <1>3, <2>2, <2>3
<1> QED
  BY <1>4, <1>6, <1>7, <1>8

(* A write that is among those of a list.                                  *)
Among(w, q) == \E n \in DOMAIN q : q[n] = w

(* Does all that was loaded of a candidate go into the first segment?      *)
Whole == Fitting(Len(gc.list)) = Len(gc.list)

(* The first n of a list behind another list, and what is left of it.      *)
Packed(q, r, n) == q \o SubSeq(r, 1, n)
Rest(r, n) == SubSeq(r, n + 1, Len(r))

(* Together they hold what the two lists held.                             *)
LEMMA SplitList ==
  ASSUME NEW q \in Seq(Writes), NEW r \in Seq(Writes), NEW n \in 0 .. Len(r)
  PROVE  /\ Packed(q, r, n) \in Seq(Writes) /\ Rest(r, n) \in Seq(Writes)
         /\ Len(Packed(q, r, n)) = Len(q) + n /\ Len(Rest(r, n)) = Len(r) - n
         /\ n = Len(r) => Rest(r, n) = <<>>
         /\ \A w : /\ Among(w, q) => Among(w, Packed(q, r, n))
                   /\ Among(w, r) => Among(w, Packed(q, r, n)) \/ Among(w, Rest(r, n))
                   /\ Among(w, Packed(q, r, n)) => Among(w, q) \/ Among(w, r)
                   /\ Among(w, Rest(r, n)) => Among(w, r)
<1> DEFINE N == Len(r)
           left == SubSeq(r, 1, n)
           head == Packed(q, r, n)
           rest == Rest(r, n)
<1>1. N \in Nat /\ n \in Nat /\ n <= N /\ DOMAIN r = 1 .. N /\ \A i \in 1 .. N : r[i] \in Writes
  OBVIOUS
<1>2. left \in Seq(Writes) /\ Len(left) = n /\ \A i \in 1 .. n : left[i] = r[i]
  <2>1. \A i \in 1 .. n : r[i] \in Writes
    BY <1>1
  <2> QED
    BY <1>1, <2>1, SubSeqProperties
<1>3. rest \in Seq(Writes) /\ Len(rest) = N - n /\ \A i \in 1 .. N - n : rest[i] = r[n + i]
  <2>1. \A i \in n + 1 .. N : r[i] \in Writes
    BY <1>1
  <2>2. /\ rest \in Seq(Writes)
        /\ Len(rest) = IF n + 1 <= N THEN N - (n + 1) + 1 ELSE 0
        /\ \A i \in 1 .. N - (n + 1) + 1 : rest[i] = r[(n + 1) + i - 1]
    BY <1>1, <2>1, SubSeqProperties DEF Rest
  <2> HIDE DEF N, rest
  <2>3. N - (n + 1) + 1 = N - n /\ \A i \in 1 .. N - n : (n + 1) + i - 1 = n + i
    BY <1>1
  <2>4. Len(rest) = N - n
    BY <1>1, <2>2
  <2> QED
    BY <2>2, <2>3, <2>4
<1>0. head = q \o left
  BY DEF Packed
<1> HIDE DEF left, N, head, rest
<1>4. /\ head \in Seq(Writes) /\ Len(head) = Len(q) + n
      /\ \A i \in 1 .. Len(q) + n : head[i] = IF i <= Len(q) THEN q[i] ELSE left[i - Len(q)]
  <2>1. /\ q \o left \in Seq(Writes) /\ Len(q \o left) = Len(q) + Len(left)
        /\ \A i \in 1 .. Len(q) + Len(left) :
             (q \o left)[i] = IF i <= Len(q) THEN q[i] ELSE left[i - Len(q)]
    BY <1>2, ConcatProperties
  <2> QED
    BY <1>0, <1>2, <2>1
<1>5. Len(q) \in Nat /\ DOMAIN q = 1 .. Len(q) /\ DOMAIN head = 1 .. Len(q) + n
      /\ DOMAIN rest = 1 .. N - n
  <2>1. Len(q) \in Nat /\ DOMAIN q = 1 .. Len(q)
    OBVIOUS
  <2> QED
    BY <1>3, <1>4, <2>1
<1>6. ASSUME NEW w
      PROVE  /\ Among(w, q) => Among(w, head)
             /\ Among(w, r) => Among(w, head) \/ Among(w, rest)
             /\ Among(w, head) => Among(w, q) \/ Among(w, r)
             /\ Among(w, rest) => Among(w, r)
  <2>1. ASSUME NEW i \in DOMAIN q, q[i] = w PROVE Among(w, head)
    <3>1. i \in DOMAIN head /\ head[i] = w
      BY <1>1, <1>4, <1>5, <2>1
    <3> QED
      BY <3>1 DEF Among
  <2>2. ASSUME NEW i \in DOMAIN r, r[i] = w PROVE Among(w, head) \/ Among(w, rest)
    <3>1. CASE i <= n
      <4>1. i \in 1 .. n /\ Len(q) + i \in 1 .. Len(q) + n /\ ~(Len(q) + i <= Len(q))
            /\ (Len(q) + i) - Len(q) = i
        BY <1>1, <1>5, <3>1
      <4>2. head[Len(q) + i] = left[i] /\ left[i] = w
        BY <1>2, <1>4, <2>2, <4>1
      <4> QED
        BY <1>5, <4>1, <4>2 DEF Among
    <3>2. CASE i > n
      <4>0. i \in 1 .. N /\ i \in Nat
        BY <1>1
      <4>1. i - n \in 1 .. N - n /\ n + (i - n) = i
        BY <1>1, <3>2, <4>0
      <4>2. rest[i - n] = w
        BY <1>3, <2>2, <4>1
      <4> QED
        BY <1>5, <4>1, <4>2 DEF Among
    <3> QED
      BY <1>1, <3>1, <3>2
  <2>3. ASSUME NEW i \in DOMAIN head, head[i] = w PROVE Among(w, q) \/ Among(w, r)
    <3>1. CASE i <= Len(q)
      BY <1>4, <1>5, <2>3, <3>1 DEF Among
    <3>2. CASE ~(i <= Len(q))
      <4>1. i - Len(q) \in 1 .. n /\ i - Len(q) \in DOMAIN r
        BY <1>1, <1>5, <3>2
      <4>2. head[i] = left[i - Len(q)] /\ left[i - Len(q)] = r[i - Len(q)]
        BY <1>2, <1>4, <1>5, <3>2, <4>1
      <4> QED
        BY <2>3, <4>1, <4>2 DEF Among
    <3> QED
      BY <3>1, <3>2
  <2>4. ASSUME NEW i \in DOMAIN rest, rest[i] = w PROVE Among(w, r)
    <3>1. n + i \in DOMAIN r /\ rest[i] = r[n + i]
      BY <1>1, <1>3, <1>5
    <3> QED
      BY <2>4, <3>1 DEF Among
  <2> QED
    BY <2>1, <2>2, <2>3, <2>4 DEF Among
<1>7. n = N => rest = <<>>
  BY <1>1, <1>3
<1>8. Len(rest) = Len(r) - n /\ (n = Len(r) => rest = <<>>)
  BY <1>3, <1>7 DEF N
<1> QED
  BY <1>3, <1>4, <1>6, <1>8 DEF head, rest

(* What the end of a candidate does: what was loaded from it goes behind   *)
(* the records of the first segment, as far as it fits.                    *)
LEMMA PackTyped ==
  ASSUME TypeInv, GcPack
  PROVE  /\ TypeInv'
         /\ gc.at = "load" /\ gc.cands # <<>> /\ Head(gc.cands) = gc.cands[1]
         /\ gc.cands[1] \in Segs /\ gc.pos \notin DOMAIN content[gc.cands[1]]
         /\ gc'.at = IF Whole /\ Len(gc.cands) > 1 THEN "load" ELSE "alloc1"
         /\ gc'.frees = IF Whole THEN Append(gc.frees, gc.cands[1]) ELSE gc.frees
         /\ gc'.last = IF Whole THEN {} ELSE {gc.cands[1]}
         /\ gc'.cands = Tail(gc.cands) /\ gc'.pos = 1
         /\ Whole => gc'.list = <<>>
         /\ gc.first = <<>> /\ Len(gc.list) < SegSize - SegHeader => Whole
         /\ \A w : /\ Among(w, gc.first) => Among(w, gc'.first)
                   /\ Among(w, gc.list) => Among(w, gc'.first) \/ Among(w, gc'.list)
                   /\ Among(w, gc'.first) => Among(w, gc.first) \/ Among(w, gc.list)
                   /\ Among(w, gc'.list) => Among(w, gc.list)
         /\ UNCHANGED <<gc.seg, gc.stamp, gc.freeAtStart>>
         /\ UNCHANGED <<segVars, content, index, dangling>> /\ OthersKeep
<1> DEFINE old == gc
           n == Fitting(Len(gc.list))
           first == gc.first \o SubSeq(gc.list, 1, n)
           list == SubSeq(gc.list, n + 1, Len(gc.list))
           frees == IF Whole THEN Append(gc.frees, gc.cands[1]) ELSE gc.frees
           last == IF Whole THEN {} ELSE {gc.cands[1]}
           cands == Tail(gc.cands)
           at == IF Whole /\ Len(gc.cands) > 1 THEN "load" ELSE "alloc1"
<1>1. /\ TypeOK /\ Progress /\ old \in GcRecord
      /\ gc.cands \in Seq(Segs) /\ gc.pos \in Nat \ {0} /\ gc.list \in Seq(Writes)
      /\ gc.first \in Seq(Writes) /\ gc.frees \in Seq(Segs) /\ gc.last \in SUBSET Segs
  BY Types DEF TypeInv
<1>2. gc.at = "load" /\ gc.cands # <<>>
  BY <1>1 DEF GcPack, Progress
<1>3. Head(gc.cands) = gc.cands[1] /\ gc.cands[1] \in Segs /\ cands \in Seq(Segs)
      /\ (Len(gc.cands) > 1 => cands # <<>>)
  <2> DEFINE q == gc.cands
  <2>1. q \in Seq(Segs) /\ q # <<>> /\ cands = Tail(q)
    BY <1>1, <1>2
  <2> HIDE DEF q, cands
  <2>2. Head(q) = q[1] /\ q[1] \in Segs /\ cands \in Seq(Segs) /\ Len(cands) = Len(q) - 1
        /\ Len(q) \in Nat
    BY <2>1
  <2>3. Len(q) > 1 => cands # <<>>
    BY <2>2
  <2> QED
    BY <2>2, <2>3 DEF q
<1>4. /\ gc.pos \notin DOMAIN content[gc.cands[1]]
      /\ gc' = [old EXCEPT !.first = first, !.list = list, !.frees = frees, !.last = last,
                           !.cands = cands, !.pos = 1, !.at = at]
      /\ UNCHANGED <<segVars, content, index, dangling>> /\ OthersKeep
  BY <1>3 DEF GcPack, Absorbed, Whole
<1>5. n \in 0 .. Len(gc.list) /\ Len(gc.list) \in Nat /\ FreeAfter(Len(gc.first) + n) >= 0
      /\ (Len(gc.list) < FreeAfter(Len(gc.first)) => Whole)
  <2>1. Len(gc.list) \in Nat
    BY <1>1
  <2>2. \A m \in Nat : /\ Fitting(m) \in 0 .. m
                       /\ FreeAfter(Len(gc.first) + Fitting(m)) >= 0
                       /\ m < FreeAfter(Len(gc.first)) => Fitting(m) = m
    BY <1>1, FittingCounts
  <2> HIDE DEF Fitting
  <2> QED
    BY <2>1, <2>2 DEF Whole
<1>6. /\ first \in Seq(Writes) /\ list \in Seq(Writes)
      /\ Len(first) = Len(gc.first) + n /\ Len(list) = Len(gc.list) - n
      /\ Whole => list = <<>>
      /\ \A w : /\ Among(w, gc.first) => Among(w, first)
                /\ Among(w, gc.list) => Among(w, first) \/ Among(w, list)
                /\ Among(w, first) => Among(w, gc.first) \/ Among(w, gc.list)
                /\ Among(w, list) => Among(w, gc.list)
  <2>1. Whole => n = Len(gc.list)
    BY DEF Whole
  <2> DEFINE q == gc.first
             r == gc.list
  <2>2. q \in Seq(Writes) /\ r \in Seq(Writes) /\ n \in 0 .. Len(r)
        /\ first = Packed(q, r, n) /\ list = Rest(r, n)
    BY <1>1, <1>5 DEF Packed, Rest
  <2> HIDE DEF n, first, list, q, r
  <2>3. /\ first \in Seq(Writes) /\ list \in Seq(Writes)
        /\ Len(first) = Len(q) + n /\ Len(list) = Len(r) - n
        /\ n = Len(r) => list = <<>>
        /\ \A w : /\ Among(w, q) => Among(w, first)
                  /\ Among(w, r) => Among(w, first) \/ Among(w, list)
                  /\ Among(w, first) => Among(w, q) \/ Among(w, r)
                  /\ Among(w, list) => Among(w, r)
    BY <2>2, SplitList
  <2>4. /\ first \in Seq(Writes) /\ list \in Seq(Writes)
        /\ Len(first) = Len(gc.first) + n /\ Len(list) = Len(gc.list) - n
        /\ n = Len(gc.list) => list = <<>>
        /\ \A w : /\ Among(w, gc.first) => Among(w, first)
                  /\ Among(w, gc.list) => Among(w, first) \/ Among(w, list)
                  /\ Among(w, first) => Among(w, gc.first) \/ Among(w, gc.list)
                  /\ Among(w, list) => Among(w, gc.list)
    BY <2>3 DEF q, r
  <2> QED
    BY <2>1, <2>4
<1>7. frees \in Seq(Segs) /\ last \in SUBSET Segs /\ at \in {"load", "alloc1"}
  BY <1>1, <1>3
<1>8. at = "load" => cands # <<>> /\ list = <<>>
  BY <1>3, <1>6
<1>9. FreeAfter(Len(first)) >= 0 /\ FreeAfter(Len(list)) >= 0 /\ Len(first) \in Nat
  <2>1. FreeAfter(Len(gc.list)) >= 0 /\ Len(gc.first) \in Nat
    BY <1>1 DEF TypeOK
  <2> HIDE DEF n, first, list
  <2> QED
    BY <1>5, <1>6, <2>1, SegmentManagerAssumption DEF FreeAfter
<1> HIDE DEF old, n, first, list, frees, last, cands, at
<1>10. LET r == [old EXCEPT !.first = first, !.list = list, !.frees = frees, !.last = last,
                            !.cands = cands, !.pos = 1, !.at = at]
       IN /\ r \in GcRecord /\ r.first = first /\ r.list = list /\ r.frees = frees
          /\ r.last = last /\ r.cands = cands /\ r.pos = 1 /\ r.at = at
          /\ r.seg = old.seg /\ r.stamp = old.stamp /\ r.freeAtStart = old.freeAtStart
  <2> DEFINE r1 == [old EXCEPT !.first = first, !.list = list]
             r2 == [r1 EXCEPT !.frees = frees, !.last = last]
  <2>1. /\ r1 \in GcRecord /\ r1.first = first /\ r1.list = list
        /\ r1.seg = old.seg /\ r1.stamp = old.stamp /\ r1.freeAtStart = old.freeAtStart
    BY <1>1, <1>6 DEF GcRecord
  <2> HIDE DEF r1
  <2>2. /\ r2 \in GcRecord /\ r2.frees = frees /\ r2.last = last
        /\ r2.first = r1.first /\ r2.list = r1.list
        /\ r2.seg = r1.seg /\ r2.stamp = r1.stamp /\ r2.freeAtStart = r1.freeAtStart
    BY <1>7, <2>1 DEF GcRecord
  <2> HIDE DEF r2
  <2> DEFINE r4 == [r2 EXCEPT !.cands = cands, !.pos = 1]
  <2>3. /\ r4 \in GcRecord /\ r4.cands = cands /\ r4.pos = 1
        /\ r4.frees = r2.frees /\ r4.last = r2.last
        /\ r4.first = r2.first /\ r4.list = r2.list
        /\ r4.seg = r2.seg /\ r4.stamp = r2.stamp /\ r4.freeAtStart = r2.freeAtStart
    <3>1. 1 \in Nat \ {0} /\ cands \in Seq(Segs) /\ r2 \in GcRecord
      BY <1>3, <2>2
    <3> QED
      BY <3>1 DEF GcRecord
  <2> HIDE DEF r4
  <2>4. LET r5 == [r4 EXCEPT !.at = at]
        IN /\ r5 \in GcRecord /\ r5.cands = r4.cands /\ r5.pos = r4.pos /\ r5.at = at
           /\ r5.frees = r4.frees /\ r5.last = r4.last
           /\ r5.first = r4.first /\ r5.list = r4.list
           /\ r5.seg = r4.seg /\ r5.stamp = r4.stamp /\ r5.freeAtStart = r4.freeAtStart
    BY <1>7, <2>3 DEF GcRecord
  <2> QED
    BY <2>1, <2>2, <2>3, <2>4 DEF r1, r2, r4
<1>11. /\ gc' \in GcRecord /\ gc'.first = first /\ gc'.list = list /\ gc'.frees = frees
       /\ gc'.last = last /\ gc'.cands = cands /\ gc'.pos = 1 /\ gc'.at = at
       /\ UNCHANGED <<gc.seg, gc.stamp, gc.freeAtStart>>
  BY <1>4, <1>10 DEF old
<1>12. TypeOK'
  <2>1. (FreeAfter(Len(gc.first)) >= 0 /\ FreeAfter(Len(gc.list)) >= 0)'
    BY <1>9, <1>11 DEF FreeAfter
  <2> QED
    BY <1>1, <1>4, <1>11, <2>1, OthersTyped DEF TypeOK, SegTypeOK, segVars, MaybeEntries
<1>13. Progress'
  <2>1. (gc.at = "load" => gc.cands # <<>> /\ Len(gc.list) < gc.pos)'
    BY <1>8, <1>11
  <2> QED
    BY <1>1, <1>4, <2>1, OthersTyped DEF Progress
<1>14. gc.first = <<>> /\ Len(gc.list) < SegSize - SegHeader => Whole
  BY <1>5, SegmentManagerAssumption DEF FreeAfter
<1> QED
  BY <1>2, <1>3, <1>4, <1>6, <1>11, <1>12, <1>13, <1>14 DEF TypeInv, at, frees, last, cands
(* The part of the types that a merge's step leaves to others.             *)
LEMMA StepTyped ==
  ASSUME TypeInv, SegTypeOK', index' \in [Keys -> MaybeEntries], gc' \in GcRecord,
         UNCHANGED <<content, gc.first, gc.list, dangling>>, OthersKeep, gc'.at # "load"
  PROVE  TypeInv'
<1>1. TypeOK /\ Progress
  BY DEF TypeInv
<1>2. (FreeAfter(Len(gc.first)) >= 0 /\ FreeAfter(Len(gc.list)) >= 0)'
  BY <1>1 DEF TypeOK, FreeAfter
<1>3. TypeOK'
  BY <1>1, <1>2, OthersTyped DEF TypeOK, MaybeEntries
<1>4. Progress'
  BY <1>1, OthersTyped DEF Progress
<1> QED
  BY <1>3, <1>4 DEF TypeInv

(* What the allocation of a segment for copies does.                       *)
LEMMA AllocTyped ==
  ASSUME TypeInv, GcAlloc("alloc1", "write1") \/ GcAlloc("alloc2", "write2")
  PROVE  /\ TypeInv'
         /\ \/ gc.at = "alloc1" /\ gc'.at = "write1"
            \/ gc.at = "alloc2" /\ gc'.at = "write2"
         /\ gc'.seg \in Segs /\ freedCounter' = freedCounter - 1
         /\ segTable[gc'.seg].state = "FREE" /\ segTable'[gc'.seg].state = "RESERVED"
         /\ segTable'[gc'.seg].death_size = segTable[gc'.seg].death_size
         /\ \A s \in Segs : s # gc'.seg => segTable'[s] = segTable[s]
         /\ UNCHANGED <<gc.cands, gc.pos, gc.list, gc.first, gc.frees, gc.last, gc.stamp,
                        gc.freeAtStart>>
         /\ UNCHANGED <<content, index, dangling>> /\ OthersKeep
<1> DEFINE old == gc
<1>1. TypeOK /\ SegTypeOK /\ old \in GcRecord /\ index \in [Keys -> MaybeEntries]
  BY Types DEF TypeInv
<1>2. PICK s \in Segs, to \in {"write1", "write2"} :
        /\ \/ old.at = "alloc1" /\ to = "write1"
           \/ old.at = "alloc2" /\ to = "write2"
        /\ AllocForGC(s) /\ gc' = [old EXCEPT !.seg = s, !.at = to]
        /\ UNCHANGED <<content, index, dangling>> /\ OthersKeep
  BY DEF GcAlloc
<1> HIDE DEF old
<1>3. LET r == [old EXCEPT !.seg = s, !.at = to]
      IN /\ r \in GcRecord /\ r.seg = s /\ r.at = to
         /\ r.cands = old.cands /\ r.pos = old.pos /\ r.list = old.list /\ r.first = old.first
         /\ r.frees = old.frees /\ r.last = old.last /\ r.stamp = old.stamp
         /\ r.freeAtStart = old.freeAtStart
  BY <1>1 DEF GcRecord
<1>4. /\ gc' \in GcRecord /\ gc'.seg = s /\ gc'.at = to
      /\ UNCHANGED <<gc.cands, gc.pos, gc.list, gc.first, gc.frees, gc.last, gc.stamp,
                     gc.freeAtStart>>
  BY <1>2, <1>3 DEF old
<1>5. /\ SegTypeOK' /\ freedCounter' = freedCounter - 1
      /\ segTable[s].state = "FREE" /\ segTable'[s].state = "RESERVED"
      /\ segTable'[s].death_size = segTable[s].death_size
      /\ \A t \in Segs : t # s => segTable'[t] = segTable[t]
  BY <1>1, <1>2, ReserveTyped
<1>6. TypeInv'
  BY <1>1, <1>2, <1>4, <1>5, StepTyped
<1> QED
  BY <1>2, <1>4, <1>5, <1>6 DEF old

(* The records that a merge writes next, or brings to the index.           *)
Copies == IF gc.at \in {"write1", "update1"} THEN gc.first ELSE gc.list

(* What the write of copies does.                                          *)
LEMMA CopyTyped ==
  ASSUME TypeInv, GcWrite("write1", gc.first, "update1") \/ GcWrite("write2", gc.list, "update2")
  PROVE  /\ TypeInv'
         /\ \/ gc.at = "write1" /\ gc'.at = "update1"
            \/ gc.at = "write2" /\ gc'.at = "update2"
         /\ gc.seg \in Segs /\ gc'.pos = 1 /\ gc'.stamp = clock' /\ clock' = clock + 1
         /\ content'[gc.seg] = Copies
         /\ \A s \in Segs : s # gc.seg => content'[s] = content[s]
         /\ segTable'[gc.seg].state = "USED"
         /\ segTable'[gc.seg].free_size = FreeAfter(Len(Copies))
         /\ segTable'[gc.seg].death_size = segTable[gc.seg].death_size
         /\ \A s \in Segs : s # gc.seg => segTable'[s] = segTable[s]
         /\ UNCHANGED <<gc.cands, gc.list, gc.first, gc.frees, gc.last, gc.seg, gc.freeAtStart>>
         /\ UNCHANGED <<index, batch, merges, reader, before, dangling, freedCounter>>
<1> DEFINE old == gc
           q == Copies
<1>1. /\ TypeOK /\ Progress /\ SegTypeOK /\ old \in GcRecord /\ clock \in Nat /\ old.seg \in Segs
      /\ content \in [Segs -> Seq(Writes)]
      /\ gc.first \in Seq(Writes) /\ gc.list \in Seq(Writes)
      /\ FreeAfter(Len(gc.first)) >= 0 /\ FreeAfter(Len(gc.list)) >= 0
  BY Types DEF TypeInv, TypeOK
<1>2. PICK to \in {"update1", "update2"} :
        /\ \/ old.at = "write1" /\ to = "update1"
           \/ old.at = "write2" /\ to = "update2"
        /\ clock' = clock + 1 /\ content' = [content EXCEPT ![old.seg] = q]
        /\ Use(old.seg, FreeAfter(Len(q)))
        /\ gc' = [old EXCEPT !.at = to, !.stamp = clock', !.pos = 1]
        /\ UNCHANGED <<index, batch, merges, reader, before, dangling>>
  BY DEF GcWrite, Copies, history
<1>3. q \in Seq(Writes) /\ FreeAfter(Len(q)) \in Nat /\ clock' \in Nat
      /\ Len(q) <= SegSize - SegHeader
  <2>1. q \in Seq(Writes) /\ FreeAfter(Len(q)) >= 0
    BY <1>1 DEF Copies
  <2> HIDE DEF q
  <2> QED
    BY <1>1, <1>2, <2>1, SegmentManagerAssumption DEF FreeAfter
<1> HIDE DEF old, q
<1> DEFINE now == clock'
<1>10. now \in Nat /\ now = clock' /\ 1 \in Nat \ {0} /\ old \in GcRecord
       /\ gc' = [old EXCEPT !.at = to, !.stamp = now, !.pos = 1]
  BY <1>1, <1>2, <1>3
<1> HIDE DEF now
<1>4. LET r == [old EXCEPT !.at = to, !.stamp = now, !.pos = 1]
      IN /\ r \in GcRecord /\ r.at = to /\ r.stamp = now /\ r.pos = 1
         /\ r.cands = old.cands /\ r.list = old.list /\ r.first = old.first
         /\ r.frees = old.frees /\ r.last = old.last /\ r.seg = old.seg
         /\ r.freeAtStart = old.freeAtStart
  <2> DEFINE r1 == [old EXCEPT !.at = to, !.stamp = now]
  <2>1. /\ r1 \in GcRecord /\ r1.at = to /\ r1.stamp = now
        /\ r1.cands = old.cands /\ r1.list = old.list /\ r1.first = old.first
        /\ r1.frees = old.frees /\ r1.last = old.last /\ r1.seg = old.seg
        /\ r1.freeAtStart = old.freeAtStart
    BY <1>10 DEF GcRecord
  <2> HIDE DEF r1
  <2>2. LET r == [r1 EXCEPT !.pos = 1]
        IN /\ r \in GcRecord /\ r.at = r1.at /\ r.stamp = r1.stamp /\ r.pos = 1
           /\ r.cands = r1.cands /\ r.list = r1.list /\ r.first = r1.first
           /\ r.frees = r1.frees /\ r.last = r1.last /\ r.seg = r1.seg
           /\ r.freeAtStart = r1.freeAtStart
    BY <1>10, <2>1 DEF GcRecord
  <2> QED
    BY <2>1, <2>2 DEF r1
<1>5. /\ gc' \in GcRecord /\ gc'.at = to /\ gc'.stamp = clock' /\ gc'.pos = 1
      /\ UNCHANGED <<gc.cands, gc.list, gc.first, gc.frees, gc.last, gc.seg, gc.freeAtStart>>
  BY <1>4, <1>10 DEF old
<1>6. /\ SegTypeOK' /\ UNCHANGED freedCounter
      /\ segTable'[old.seg].state = "USED" /\ segTable'[old.seg].free_size = FreeAfter(Len(q))
      /\ segTable'[old.seg].death_size = segTable[old.seg].death_size
      /\ \A t \in Segs : t # old.seg => segTable'[t] = segTable[t]
  BY <1>1, <1>2, <1>3, UseTyped
<1>7. /\ content' \in [Segs -> Seq(Writes)] /\ content'[old.seg] = q
      /\ \A s \in Segs : s # old.seg => content'[s] = content[s]
  BY <1>1, <1>2, <1>3
<1>8. TypeOK'
  <2>1. (FreeAfter(Len(gc.first)) >= 0 /\ FreeAfter(Len(gc.list)) >= 0)'
    BY <1>1, <1>5 DEF FreeAfter
  <2> QED
    BY <1>1, <1>2, <1>3, <1>5, <1>6, <1>7, <2>1 DEF TypeOK, MaybeEntries
<1>9. Progress'
  BY <1>1, <1>2, <1>3, <1>5, <1>7 DEF Progress
<1> QED
  BY <1>1, <1>2, <1>5, <1>6, <1>7, <1>8, <1>9 DEF TypeInv, old, q

(* No merge is under way.                                                  *)
LEMMA IdleTyped ==
  ASSUME gc' = NoMerge
  PROVE  /\ gc' \in GcRecord /\ gc'.at = "idle" /\ gc'.cands = <<>> /\ gc'.list = <<>>
         /\ gc'.first = <<>> /\ gc'.frees = <<>> /\ gc'.last = {} /\ gc'.stamp = 0
         /\ FreeAfter(Len(gc'.first)) >= 0 /\ FreeAfter(Len(gc'.list)) >= 0
<1> DEFINE none == <<>>
           no == {}
<1>1. gc' = [at |-> "idle", cands |-> none, pos |-> 1, list |-> none, first |-> none,
             frees |-> none, last |-> no, seg |-> 0, stamp |-> 0, freeAtStart |-> 0]
  BY DEF NoMerge
<1>2. none \in Seq(Writes) /\ none \in Seq(Segs) /\ no \in SUBSET Segs /\ 0 \in Segs
      /\ Len(none) = 0
  BY SegmentManagerAssumption DEF Segs
<1> HIDE DEF none, no
<1>3. /\ gc' \in GcRecord /\ gc'.at = "idle" /\ gc'.cands = none /\ gc'.list = none
      /\ gc'.first = none /\ gc'.frees = none /\ gc'.last = no /\ gc'.stamp = 0
  BY <1>1, <1>2 DEF GcRecord
<1>4. FreeAfter(Len(none)) >= 0
  BY <1>2, SegmentManagerAssumption DEF FreeAfter
<1> QED
  BY <1>3, <1>4 DEF none, no

(* What the end of a merge does to the types.                              *)
LEMMA EndTyped ==
  ASSUME TypeInv, gc' = NoMerge, SegTypeOK', UNCHANGED <<content, index, dangling>>, OthersKeep
  PROVE  TypeInv'
<1>1. TypeOK /\ Progress
  BY DEF TypeInv
<1>2. TypeOK'
  BY <1>1, OthersTyped, IdleTyped DEF TypeOK, MaybeEntries, FreeAfter
<1>3. Progress'
  BY <1>1, OthersTyped, IdleTyped DEF Progress
<1> QED
  BY <1>2, <1>3 DEF TypeInv

(* What a failing write of copies does.                                    *)
LEMMA CopyFailsTyped ==
  ASSUME TypeInv, GcWriteFails
  PROVE  /\ TypeInv' /\ gc' = NoMerge /\ gc.at \in {"write1", "write2"} /\ gc.seg \in Segs
         /\ freedCounter' = freedCounter + 1
         /\ segTable'[gc.seg].state = "FREE" /\ segTable'[gc.seg].death_size = 0
         /\ \A s \in Segs : s # gc.seg => segTable'[s] = segTable[s]
         /\ UNCHANGED <<content, index, dangling>> /\ OthersKeep
<1>1. TypeOK /\ SegTypeOK /\ gc.seg \in Segs
  BY Types DEF TypeInv
<1>2. gc' = NoMerge /\ gc.at \in {"write1", "write2"} /\ FreeForFailed(gc.seg)
      /\ UNCHANGED <<content, index, dangling>> /\ OthersKeep
  BY DEF GcWriteFails
<1>3. /\ SegTypeOK' /\ freedCounter' = freedCounter + 1
      /\ segTable'[gc.seg].state = "FREE" /\ segTable'[gc.seg].death_size = 0
      /\ \A s \in Segs : s # gc.seg => segTable'[s] = segTable[s]
  BY <1>1, <1>2, FreeTyped
<1>4. TypeInv'
  BY <1>2, <1>3, EndTyped
<1> QED
  BY <1>1, <1>2, <1>3, <1>4

(* The entry of the copy that comes next.                                  *)
NextCopy == Moved(Copies[gc.pos])

(* What the index update of a copy does.                                   *)
LEMMA CopyUpdateTyped ==
  ASSUME TypeInv, GcUpdate("update1", gc.first) \/ GcUpdate("update2", gc.list)
  PROVE  /\ TypeInv' /\ UpdateIndex(NextCopy) /\ NextCopy \in Entries /\ NextCopy # NoEntry
         /\ gc.at \in {"update1", "update2"} /\ gc.pos \in DOMAIN Copies
         /\ NextCopy.write = Copies[gc.pos] /\ NextCopy.seg = gc.seg /\ gc.seg \in Segs
         /\ NextCopy.pos = gc.pos /\ NextCopy.stamp = gc.stamp
         /\ gc'.pos = gc.pos + 1
         /\ UNCHANGED <<gc.at, gc.cands, gc.list, gc.first, gc.frees, gc.last, gc.seg, gc.stamp,
                        gc.freeAtStart>>
         /\ UNCHANGED <<content, dangling>> /\ OthersKeep
<1> DEFINE old == gc
           n == gc.pos + 1
<1>1. /\ TypeOK /\ SegTypeOK /\ old \in GcRecord /\ gc.pos \in Nat \ {0} /\ gc.seg \in Segs
      /\ gc.stamp \in Nat /\ gc.first \in Seq(Writes) /\ gc.list \in Seq(Writes)
  BY Types DEF TypeInv
<1>2. /\ gc.at \in {"update1", "update2"} /\ gc.pos \in DOMAIN Copies /\ UpdateIndex(NextCopy)
      /\ gc' = [old EXCEPT !.pos = n]
      /\ UNCHANGED <<content, dangling>> /\ OthersKeep
  BY DEF GcUpdate, Copies, NextCopy
<1>3. Copies \in Seq(Writes)
  BY <1>1 DEF Copies
<1>4. Copies[gc.pos] \in Writes
  BY <1>2, <1>3, ElementOfSeq
<1>5. /\ NextCopy \in Entries /\ NextCopy # NoEntry
      /\ NextCopy.write = Copies[gc.pos] /\ NextCopy.seg = gc.seg
      /\ NextCopy.pos = gc.pos /\ NextCopy.stamp = gc.stamp
  BY <1>1, <1>4, EntriesTyped DEF NextCopy, Moved
<1>6. n \in Nat \ {0} /\ n = gc.pos + 1
  BY <1>1
<1> HIDE DEF old, n
<1>7. LET r == [old EXCEPT !.pos = n]
      IN /\ r \in GcRecord /\ r.pos = n /\ r.at = old.at
         /\ r.cands = old.cands /\ r.list = old.list /\ r.first = old.first
         /\ r.frees = old.frees /\ r.last = old.last /\ r.seg = old.seg /\ r.stamp = old.stamp
         /\ r.freeAtStart = old.freeAtStart
  BY <1>1, <1>6 DEF GcRecord
<1>8. /\ gc' \in GcRecord /\ gc'.pos = n
      /\ UNCHANGED <<gc.at, gc.cands, gc.list, gc.first, gc.frees, gc.last, gc.seg, gc.stamp,
                     gc.freeAtStart>>
  BY <1>2, <1>7 DEF old
<1>9. index' \in [Keys -> MaybeEntries] /\ SegTypeOK'
  BY <1>1, <1>2, <1>5, UpdateTyped DEF Charged
<1>10. TypeInv'
  BY <1>2, <1>8, <1>9, StepTyped
<1> QED
  BY <1>1, <1>2, <1>5, <1>6, <1>8, <1>10

(* What the end of the updates, or of the first part of a merge, does.     *)
LEMMA OnwardTyped ==
  ASSUME TypeInv,
         \/ GcUpdated("update1", gc.first, "free1") \/ GcUpdated("update2", gc.list, "free2")
         \/ GcFirstDone /\ gc.last # {}
  PROVE  /\ TypeInv'
         /\ \/ gc.at = "update1" /\ gc'.at = "free1" /\ gc.pos \notin DOMAIN Copies
            \/ gc.at = "update2" /\ gc'.at = "free2" /\ gc.pos \notin DOMAIN Copies
            \/ gc.at = "free1" /\ gc'.at = "alloc2" /\ gc.frees = <<>>
         /\ UNCHANGED <<gc.pos, gc.cands, gc.list, gc.first, gc.frees, gc.last, gc.seg, gc.stamp,
                        gc.freeAtStart>>
         /\ UNCHANGED <<segVars, content, index, dangling>> /\ OthersKeep
<1> DEFINE old == gc
<1>1. TypeOK /\ SegTypeOK /\ old \in GcRecord /\ index \in [Keys -> MaybeEntries]
  BY Types DEF TypeInv
<1>2. PICK to \in {"free1", "free2", "alloc2"} :
        /\ \/ old.at = "update1" /\ to = "free1" /\ gc.pos \notin DOMAIN Copies
           \/ old.at = "update2" /\ to = "free2" /\ gc.pos \notin DOMAIN Copies
           \/ old.at = "free1" /\ to = "alloc2" /\ gc.frees = <<>>
        /\ gc' = [old EXCEPT !.at = to]
        /\ UNCHANGED <<segVars, content, index, dangling>> /\ OthersKeep
  BY DEF GcUpdated, GcFirstDone, Copies
<1> HIDE DEF old
<1>3. LET r == [old EXCEPT !.at = to]
      IN /\ r \in GcRecord /\ r.at = to /\ r.pos = old.pos
         /\ r.cands = old.cands /\ r.list = old.list /\ r.first = old.first
         /\ r.frees = old.frees /\ r.last = old.last /\ r.seg = old.seg /\ r.stamp = old.stamp
         /\ r.freeAtStart = old.freeAtStart
  BY <1>1 DEF GcRecord
<1>4. /\ gc' \in GcRecord /\ gc'.at = to
      /\ UNCHANGED <<gc.pos, gc.cands, gc.list, gc.first, gc.frees, gc.last, gc.seg, gc.stamp,
                     gc.freeAtStart>>
  BY <1>2, <1>3 DEF old
<1>5. TypeInv'
  <2>1. SegTypeOK'
    BY <1>1, <1>2 DEF SegTypeOK, segVars
  <2> QED
    BY <1>1, <1>2, <1>4, <2>1, StepTyped DEF MaybeEntries
<1> QED
  BY <1>2, <1>4, <1>5 DEF old

(* What the free of a source that was packed whole does.                   *)
LEMMA FreeSourceTyped ==
  ASSUME TypeInv, GcFree
  PROVE  /\ TypeInv' /\ gc.at = "free1" /\ gc.frees # <<>>
         /\ gc.frees[1] \in Segs /\ gc'.frees = Tail(gc.frees) /\ gc.frees \in Seq(Segs)
         /\ freedCounter' = freedCounter + 1
         /\ segTable'[gc.frees[1]].state = "FREE" /\ segTable'[gc.frees[1]].death_size = 0
         /\ \A s \in Segs : s # gc.frees[1] => segTable'[s] = segTable[s]
         /\ UNCHANGED <<gc.at, gc.pos, gc.cands, gc.list, gc.first, gc.last, gc.seg, gc.stamp,
                        gc.freeAtStart>>
         /\ UNCHANGED <<content, index, dangling>> /\ OthersKeep
<1> DEFINE old == gc
           s == gc.frees[1]
           rest == Tail(gc.frees)
<1>1. /\ TypeOK /\ SegTypeOK /\ old \in GcRecord /\ index \in [Keys -> MaybeEntries]
      /\ gc.frees \in Seq(Segs)
  BY Types DEF TypeInv
<1>2. gc.at = "free1" /\ gc.frees # <<>>
      /\ UNCHANGED <<content, index, dangling>> /\ OthersKeep
      /\ gc' = [old EXCEPT !.frees = rest] /\ FreeForGC(Head(gc.frees))
  BY DEF GcFree
<1>3. s \in Segs /\ s = Head(gc.frees) /\ rest \in Seq(Segs)
  BY <1>1, <1>2
<1> HIDE DEF old, s, rest
<1>4. LET r == [old EXCEPT !.frees = rest]
      IN /\ r \in GcRecord /\ r.frees = rest /\ r.pos = old.pos /\ r.at = old.at
         /\ r.cands = old.cands /\ r.list = old.list /\ r.first = old.first
         /\ r.last = old.last /\ r.seg = old.seg /\ r.stamp = old.stamp
         /\ r.freeAtStart = old.freeAtStart
  BY <1>1, <1>3 DEF GcRecord
<1>5. /\ gc' \in GcRecord /\ gc'.frees = rest
      /\ UNCHANGED <<gc.at, gc.pos, gc.cands, gc.list, gc.first, gc.last, gc.seg, gc.stamp,
                     gc.freeAtStart>>
  BY <1>2, <1>4 DEF old
<1>6. /\ SegTypeOK' /\ freedCounter' = freedCounter + 1
      /\ segTable'[s].state = "FREE" /\ segTable'[s].death_size = 0
      /\ \A t \in Segs : t # s => segTable'[t] = segTable[t]
  BY <1>1, <1>2, <1>3, FreeTyped
<1>7. TypeInv'
  BY <1>1, <1>2, <1>5, <1>6, StepTyped
<1> QED
  BY <1>1, <1>2, <1>3, <1>5, <1>6, <1>7 DEF s, rest

(* What the end of a merge that needed one segment only does.              *)
LEMMA DoneTyped ==
  ASSUME TypeInv, GcFirstDone, gc.last = {}
  PROVE  /\ TypeInv' /\ gc' = NoMerge /\ gc.at = "free1" /\ gc.frees = <<>>
         /\ UNCHANGED <<segVars, content, index, dangling>> /\ OthersKeep
<1>1. SegTypeOK
  BY Types DEF TypeInv
<1>2. gc' = NoMerge /\ gc.at = "free1" /\ gc.frees = <<>>
      /\ UNCHANGED <<segVars, content, index, dangling>> /\ OthersKeep
  BY DEF GcFirstDone
<1>3. SegTypeOK'
  BY <1>1, <1>2 DEF SegTypeOK, segVars
<1> QED
  BY <1>2, <1>3, EndTyped

(* What the free of the source that was split does.                        *)
LEMMA FreeLastTyped ==
  ASSUME TypeInv, GcFreeLast
  PROVE  /\ TypeInv' /\ gc' = NoMerge /\ gc.at = "free2"
         /\ freedCounter' = freedCounter + 1
         /\ \E s \in gc.last :
              /\ s \in Segs
              /\ segTable'[s].state = "FREE" /\ segTable'[s].death_size = 0
              /\ \A t \in Segs : t # s => segTable'[t] = segTable[t]
         /\ UNCHANGED <<content, index, dangling>> /\ OthersKeep
<1>1. SegTypeOK /\ gc.last \in SUBSET Segs
  BY Types DEF TypeInv
<1>2. gc' = NoMerge /\ gc.at = "free2"
      /\ UNCHANGED <<content, index, dangling>> /\ OthersKeep
  BY DEF GcFreeLast
<1>3. PICK s \in gc.last : FreeForGC(s)
  BY DEF GcFreeLast
<1>4. /\ SegTypeOK' /\ freedCounter' = freedCounter + 1
      /\ segTable'[s].state = "FREE" /\ segTable'[s].death_size = 0
      /\ \A t \in Segs : t # s => segTable'[t] = segTable[t]
  BY <1>1, <1>3, FreeTyped
<1>5. TypeInv'
  BY <1>2, <1>4, EndTyped
<1> QED
  BY <1>1, <1>2, <1>4, <1>5

(* The types hold when the volume is created.                              *)
LEMMA TypeInit == Init => TypeInv
<1> SUFFICES ASSUME Init PROVE TypeInv
  OBVIOUS
<1>1. SegTypeOK
  <2>1. FreshStat \in SegmentStat /\ 0 \in Segs
    BY SegmentManagerAssumption DEF FreshStat, SegmentStat, SegUseStat, Segs
  <2> QED
    BY <2>1, SegmentManagerAssumption DEF Init, SegInit, SegTypeOK
<1>2. /\ content \in [Segs -> Seq(Writes)] /\ \A s \in Segs : Len(content[s]) <= SegSize - SegHeader
  BY SegmentManagerAssumption DEF Init
<1>3. batch \in [Batches -> BatchRecord] /\ \A b \in Batches : batch[b].at = "new" /\ batch[b].next = 1
  <2>1. NewBatch \in BatchRecord /\ NewBatch.at = "new" /\ NewBatch.next = 1
    BY SegmentManagerAssumption DEF NewBatch, BatchRecord, Segs
  <2> QED
    BY <2>1 DEF Init
<1>4. gc \in GcRecord /\ gc.at = "idle" /\ FreeAfter(Len(gc.first)) >= 0 /\ FreeAfter(Len(gc.list)) >= 0
  <2> DEFINE none == <<>>
             no == {}
  <2>1. gc = [at |-> "idle", cands |-> none, pos |-> 1, list |-> none, first |-> none,
              frees |-> none, last |-> no, seg |-> 0, stamp |-> 0, freeAtStart |-> 0]
    BY DEF Init, NoMerge
  <2>2. none \in Seq(Writes) /\ none \in Seq(Segs) /\ no \in SUBSET Segs /\ 0 \in Segs
        /\ Len(none) = 0
    BY SegmentManagerAssumption DEF Segs
  <2> HIDE DEF none, no
  <2>3. gc \in GcRecord /\ gc.at = "idle" /\ gc.first = none /\ gc.list = none
    BY <2>1, <2>2 DEF GcRecord
  <2> QED
    BY <2>2, <2>3, SegmentManagerAssumption DEF FreeAfter
<1>5. reader \in [Readers -> ReaderRecord] /\ \A c \in Readers : reader[c].at = "new"
  BY DEF Init, ReaderRecord, MaybeEntries
<1>6. TypeOK
  <2>1. index \in [Keys -> MaybeEntries] /\ clock \in Nat
    BY DEF Init, MaybeEntries
  <2>2. merges \in 0 .. MaxMerges
    BY GcManagerAssumption DEF Init
  <2>3. before \in [Batches -> SUBSET Batches] /\ dangling \in BOOLEAN
    BY DEF Init
  <2> QED
    BY <1>1, <1>2, <1>3, <1>4, <1>5, <2>1, <2>2, <2>3 DEF TypeOK
<1>7. Progress
  BY <1>2, <1>3, <1>4, <1>5 DEF Progress
<1> QED
  BY <1>6, <1>7 DEF TypeInv

(* Every step keeps the types.                                             *)
LEMMA TypeStep == TypeInv /\ [Next]_vars => TypeInv'
<1> SUFFICES ASSUME TypeInv, [Next]_vars PROVE TypeInv'
  OBVIOUS
<1>1. ASSUME NEW b \in Batches,
             Allocate(b) \/ WriteSeg(b) \/ WriteSegFails(b) \/ BatchUpdate(b) \/ Reap(b)
      PROVE  TypeInv'
  BY <1>1, AllocateTyped, WriteTyped, WriteFailsTyped, BatchUpdateTyped, ReapTyped
<1>2. ASSUME NEW c \in Readers, Find(c) \/ ReadData(c) PROVE TypeInv'
  BY <1>2, ReaderTyped
<1>3. CASE GcSort
  BY <1>3, SortTyped
<1>4. CASE doMerge
  <2>1. CASE GcLoadEntry \/ GcPack
    BY <2>1, LoadTyped, PackTyped
  <2>2. CASE GcAlloc("alloc1", "write1") \/ GcAlloc("alloc2", "write2")
    BY <2>2, AllocTyped
  <2>3. CASE GcWrite("write1", gc.first, "update1") \/ GcWrite("write2", gc.list, "update2")
    BY <2>3, CopyTyped
  <2>4. CASE GcWriteFails
    BY <2>4, CopyFailsTyped
  <2>5. CASE GcUpdate("update1", gc.first) \/ GcUpdate("update2", gc.list)
    BY <2>5, CopyUpdateTyped
  <2>6. CASE GcUpdated("update1", gc.first, "free1") \/ GcUpdated("update2", gc.list, "free2")
    BY <2>6, OnwardTyped
  <2>7. CASE GcFree \/ GcFreeLast
    BY <2>7, FreeSourceTyped, FreeLastTyped
  <2>8. CASE GcFirstDone
    BY <2>8, OnwardTyped, DoneTyped
  <2> QED
    BY <1>4, <2>1, <2>2, <2>3, <2>4, <2>5, <2>6, <2>7, <2>8 DEF doMerge
<1>5. CASE UNCHANGED vars
  BY <1>5 DEF vars, history, segVars, TypeInv, TypeOK, SegTypeOK, Progress, MaybeEntries, FreeAfter
<1> QED
  BY <1>1, <1>2, <1>3, <1>4, <1>5 DEF Next

(* The types hold whatever overlaps.                                       *)
THEOREM TypesKept == Spec => []TypeInv
BY TypeInit, TypeStep, PTL DEF Spec
-----------------------------------------------------------------------------
(* Segments: who holds which, when merges run alone. *)

(* While a merge is under way, no batch has part of its writes in the      *)
(* index only, and no reader holds an entry.                               *)
GcAlone == gc.at # "idle" => AtRest /\ NobodyReads

Used(s) == segTable[s].state = "USED"
Holds(b) == batch[b].at \in {"write", "update"}

(* Each batch on its way has a segment of its own; its records are there   *)
(* once they are written.                                                  *)
WriterSegs ==
  /\ \A b \in Batches : batch[b].at = "write" => segTable[batch[b].seg].state = "RESERVED"
  /\ \A b \in Batches : batch[b].at = "update" =>
       Used(batch[b].seg) /\ content[batch[b].seg] = Items[b]
  /\ \A b, c \in Batches : Holds(b) /\ Holds(c) /\ batch[b].seg = batch[c].seg => b = c

(* So has the merge, apart from those it will free.                        *)
CopySeg ==
  /\ gc.at \in {"write1", "write2"} =>
       /\ segTable[gc.seg].state = "RESERVED"
       /\ \A b \in Batches : batch[b].at = "write" => batch[b].seg # gc.seg
  /\ gc.at \in {"update1", "update2"} =>
       /\ Used(gc.seg) /\ content[gc.seg] = Copies
       /\ gc.seg \notin gc.last /\ \A i \in DOMAIN gc.frees : gc.frees[i] # gc.seg

Once(q) == \A i, j \in DOMAIN q : q[i] = q[j] => i = j

(* The segments that a merge still has to look at or to free are USED, and *)
(* each comes up once.                                                     *)
MergeSegs ==
  /\ \A i \in DOMAIN gc.cands : Used(gc.cands[i]) /\ gc.cands[i] \notin gc.last
  /\ \A i \in DOMAIN gc.frees : Used(gc.frees[i]) /\ gc.frees[i] \notin gc.last
  /\ \A s \in gc.last : Used(s) /\ \A t \in gc.last : s = t
  /\ Once(gc.cands) /\ Once(gc.frees)
  /\ \A i \in DOMAIN gc.cands, j \in DOMAIN gc.frees : gc.cands[i] # gc.frees[j]

Locals ==
  /\ gc.at = "idle" => gc = NoMerge
  /\ gc.at = "load" => gc.last = {}

SegInv == GcAlone /\ WriterSegs /\ CopySeg /\ MergeSegs /\ Locals

(* Without a merge there is nothing to say of one.                         *)
LEMMA NoMergeSegs ==
  ASSUME gc' = NoMerge
  PROVE  GcAlone' /\ CopySeg' /\ MergeSegs' /\ Locals'
<1> DEFINE q == gc'.cands
           r == gc'.frees
<1>1. gc'.at = "idle" /\ q = <<>> /\ r = <<>> /\ gc'.last = {}
  BY IdleTyped
<1>2. DOMAIN q = {} /\ DOMAIN r = {}
  BY <1>1
<1>3. MergeSegs'
  BY <1>1, <1>2 DEF MergeSegs, Once
<1> QED
  BY <1>1, <1>3 DEF GcAlone, CopySeg, Locals

(* Clients run while no merge does.                                        *)
LEMMA ClientAlone ==
  ASSUME ~Overlap, SegInv, MayRun
  PROVE  gc = NoMerge /\ gc.at = "idle"
BY DEF SegInv, Locals, MayRun

(* Merges run while no batch is half-way and no reader holds an entry.     *)
LEMMA MergeAlone ==
  ASSUME SegInv, gc.at # "idle"
  PROVE  /\ \A b \in Batches : batch[b].at \notin {"update", "reap"}
         /\ \A c \in Readers : reader[c].at # "found"
BY DEF SegInv, GcAlone, AtRest, NobodyReads

(* A step of a client that leaves the segments of the others alone.        *)
LEMMA ClientSegs ==
  ASSUME ~Overlap, SegInv, MayRun, UNCHANGED gc, WriterSegs'
  PROVE  SegInv'
<1>1. gc' = NoMerge
  BY ClientAlone
<1> QED
  BY <1>1, NoMergeSegs DEF SegInv

(* A step of a merge that leaves the segments of the writers alone.        *)
LEMMA MergeSegsAlone ==
  ASSUME SegInv, gc.at # "idle", OthersKeep \/ UNCHANGED <<batch, reader>>,
         \A b \in Batches : batch[b].at = "write" => segTable'[batch[b].seg].state = "RESERVED"
  PROVE  GcAlone' /\ WriterSegs'
<1>1. AtRest /\ NobodyReads /\ UNCHANGED <<batch, reader>>
  BY DEF SegInv, GcAlone, OthersKeep
<1>2. GcAlone'
  BY <1>1 DEF GcAlone, AtRest, NobodyReads
<1>3. WriterSegs'
  BY <1>1 DEF SegInv, WriterSegs, AtRest, Holds
<1> QED
  BY <1>2, <1>3

(* Steps of the clients.                                                   *)
LEMMA AllocateSegs ==
  ASSUME ~Overlap, TypeInv, SegInv, NEW b \in Batches, Allocate(b)
  PROVE  SegInv'
<1> DEFINE s == batch'[b].seg
<1>1. /\ MayRun /\ batch[b].at = "new" /\ batch'[b].at = "write" /\ s \in Segs
      /\ \A c \in Batches : c # b => batch'[c] = batch[c]
      /\ segTable[s].state = "FREE" /\ segTable'[s].state = "RESERVED"
      /\ \A t \in Segs : t # s => segTable'[t] = segTable[t]
      /\ UNCHANGED <<content, gc>>
  BY AllocateTyped
<1>2. WriterSegs /\ \A c \in Batches : batch[c].seg \in Segs
  BY Types DEF SegInv, TypeInv
<1>3. \A c \in Batches : Holds(c) => batch[c].seg # s
  BY <1>1, <1>2 DEF WriterSegs, Holds, Used
<1> HIDE DEF s
<1>4. \A c \in Batches : c # b => batch'[c] = batch[c] /\ (Holds(c)' <=> Holds(c))
  BY <1>1 DEF Holds
<1>5. batch'[b].seg = s
  BY DEF s
<1>6. WriterSegs'
  <2>1. ASSUME NEW c \in Batches, batch'[c].at = "write"
        PROVE  segTable'[batch'[c].seg].state = "RESERVED"
    <3>1. c # b => batch'[c].seg # s /\ batch'[c].seg \in Segs
                   /\ segTable[batch'[c].seg].state = "RESERVED"
      BY <1>2, <1>3, <1>4, <2>1 DEF WriterSegs, Holds
    <3> QED
      BY <1>1, <1>5, <3>1
  <2>2. ASSUME NEW c \in Batches, batch'[c].at = "update"
        PROVE  Used(batch[c].seg)' /\ content'[batch'[c].seg] = Items[c]
    <3>1. c # b /\ batch[c].at = "update" /\ batch'[c].seg = batch[c].seg
      BY <1>1, <1>4, <2>2
    <3>2. batch[c].seg # s /\ Used(batch[c].seg) /\ content[batch[c].seg] = Items[c]
      BY <1>2, <1>3, <3>1 DEF WriterSegs, Holds
    <3> QED
      BY <1>1, <1>2, <3>1, <3>2 DEF Used
  <2>3. ASSUME NEW c \in Batches, NEW d \in Batches, Holds(c)', Holds(d)',
               batch'[c].seg = batch'[d].seg
        PROVE  c = d
    BY <1>2, <1>3, <1>4, <1>5, <2>3 DEF WriterSegs
  <2> QED
    BY <2>1, <2>2, <2>3 DEF WriterSegs
<1> QED
  BY <1>1, <1>6, ClientSegs

(* The write of a segment keeps the segments of the writers apart.         *)
LEMMA WriteSegs ==
  ASSUME ~Overlap, TypeInv, SegInv, NEW b \in Batches, WriteSeg(b)
  PROVE  SegInv'
<1> DEFINE s == batch[b].seg
<1>1. /\ MayRun /\ batch[b].at = "write" /\ batch'[b].at = "update" /\ s \in Segs
      /\ batch'[b].seg = s
      /\ \A c \in Batches : c # b => batch'[c] = batch[c]
      /\ content'[s] = Items[b] /\ \A t \in Segs : t # s => content'[t] = content[t]
      /\ segTable'[s].state = "USED" /\ \A t \in Segs : t # s => segTable'[t] = segTable[t]
      /\ UNCHANGED gc
  BY WriteTyped
<1>2. WriterSegs /\ \A c \in Batches : batch[c].seg \in Segs
  BY Types DEF SegInv, TypeInv
<1>3. \A c \in Batches : Holds(c) /\ c # b => batch[c].seg # s
  BY <1>1, <1>2 DEF WriterSegs, Holds
<1> HIDE DEF s
<1>4. \A c \in Batches : (Holds(c)' <=> Holds(c)) /\ batch'[c].seg = batch[c].seg
  BY <1>1 DEF Holds, s
<1>5. WriterSegs'
  <2>1. ASSUME NEW c \in Batches, batch'[c].at = "write"
        PROVE  segTable'[batch'[c].seg].state = "RESERVED"
    <3>1. c # b /\ batch[c].at = "write" /\ batch'[c].seg = batch[c].seg
      BY <1>1, <2>1
    <3>2. batch[c].seg # s /\ segTable[batch[c].seg].state = "RESERVED"
      BY <1>2, <1>3, <3>1 DEF WriterSegs, Holds
    <3> QED
      BY <1>1, <1>2, <3>1, <3>2
  <2>2. ASSUME NEW c \in Batches, batch'[c].at = "update"
        PROVE  Used(batch[c].seg)' /\ content'[batch'[c].seg] = Items[c]
    <3>1. CASE c = b
      BY <1>1, <2>2, <3>1 DEF Used, s
    <3>2. CASE c # b
      <4>1. batch[c].at = "update" /\ batch'[c].seg = batch[c].seg
        BY <1>1, <2>2, <3>2
      <4>2. batch[c].seg # s /\ Used(batch[c].seg) /\ content[batch[c].seg] = Items[c]
        BY <1>2, <1>3, <3>2, <4>1 DEF WriterSegs, Holds
      <4> QED
        BY <1>1, <1>2, <4>1, <4>2 DEF Used
    <3> QED
      BY <3>1, <3>2
  <2>3. ASSUME NEW c \in Batches, NEW d \in Batches, Holds(c)', Holds(d)',
               batch'[c].seg = batch'[d].seg
        PROVE  c = d
    BY <1>2, <1>4, <2>3 DEF WriterSegs
  <2> QED
    BY <2>1, <2>2, <2>3 DEF WriterSegs
<1> QED
  BY <1>1, <1>5, ClientSegs

(* A segment whose write failed goes back to the free ones.                *)
LEMMA WriteFailsSegs ==
  ASSUME ~Overlap, TypeInv, SegInv, NEW b \in Batches, WriteSegFails(b)
  PROVE  SegInv'
<1> DEFINE s == batch[b].seg
<1>1. /\ MayRun /\ batch[b].at = "write" /\ batch'[b].at = "failed" /\ s \in Segs
      /\ \A c \in Batches : c # b => batch'[c] = batch[c]
      /\ \A t \in Segs : t # s => segTable'[t] = segTable[t]
      /\ UNCHANGED <<content, gc>>
  BY WriteFailsTyped
<1>2. WriterSegs /\ \A c \in Batches : batch[c].seg \in Segs
  BY Types DEF SegInv, TypeInv
<1>3. \A c \in Batches : Holds(c) /\ c # b => batch[c].seg # s
  BY <1>1, <1>2 DEF WriterSegs, Holds
<1> HIDE DEF s
<1>4. \A c \in Batches : Holds(c)' => c # b /\ batch'[c] = batch[c] /\ Holds(c)
  BY <1>1 DEF Holds
<1>5. WriterSegs'
  <2>1. ASSUME NEW c \in Batches, batch'[c].at = "write"
        PROVE  segTable'[batch'[c].seg].state = "RESERVED"
    <3>1. c # b /\ batch[c].at = "write" /\ batch'[c].seg = batch[c].seg
      BY <1>1, <2>1
    <3>2. batch[c].seg # s /\ segTable[batch[c].seg].state = "RESERVED"
      BY <1>2, <1>3, <3>1 DEF WriterSegs, Holds
    <3> QED
      BY <1>1, <1>2, <3>1, <3>2
  <2>2. ASSUME NEW c \in Batches, batch'[c].at = "update"
        PROVE  Used(batch[c].seg)' /\ content'[batch'[c].seg] = Items[c]
    <3>1. c # b /\ batch[c].at = "update" /\ batch'[c].seg = batch[c].seg
      BY <1>1, <2>2
    <3>2. batch[c].seg # s /\ Used(batch[c].seg) /\ content[batch[c].seg] = Items[c]
      BY <1>2, <1>3, <3>1 DEF WriterSegs, Holds
    <3> QED
      BY <1>1, <1>2, <3>1, <3>2 DEF Used
  <2>3. ASSUME NEW c \in Batches, NEW d \in Batches, Holds(c)', Holds(d)',
               batch'[c].seg = batch'[d].seg
        PROVE  c = d
    BY <1>2, <1>4, <2>3 DEF WriterSegs
  <2> QED
    BY <2>1, <2>2, <2>3 DEF WriterSegs
<1> QED
  BY <1>1, <1>5, ClientSegs

(* Steps that change no state of a segment, no record and no segment of a  *)
(* writer.                                                                 *)
LEMMA QuietSegs ==
  ASSUME ~Overlap, SegInv, MayRun, UNCHANGED <<gc, content>>,
         \A b \in Batches : batch[b].seg \in Segs /\ (Holds(b)' => Holds(b)),
         \A b \in Batches : Holds(b)' => batch'[b].seg = batch[b].seg /\ batch'[b].at = batch[b].at,
         \A s \in Segs : segTable'[s].state = segTable[s].state
  PROVE  SegInv'
<1>1. WriterSegs
  BY DEF SegInv
<1>2. WriterSegs'
  BY <1>1 DEF WriterSegs, Holds, Used
<1> QED
  BY <1>2, ClientSegs

(* Updates, the reaper and readers leave the segments where they are.      *)
LEMMA ClientSegsStep ==
  ASSUME ~Overlap, TypeInv, SegInv,
         \/ \E b \in Batches : BatchUpdate(b) \/ Reap(b)
         \/ \E c \in Readers : Find(c) \/ ReadData(c)
  PROVE  SegInv'
<1>1. \A b \in Batches : batch[b].seg \in Segs
  BY Types DEF TypeInv
<1>2. ASSUME NEW b \in Batches, BatchUpdate(b) PROVE SegInv'
  <2>1. /\ MayRun /\ UpdateIndex(ItemEntry(b)) /\ batch[b].at = "update"
        /\ batch[b].next \in DOMAIN Items[b]
        /\ batch'[b].seg = batch[b].seg /\ batch'[b].at \in {"update", "reap", "done"}
        /\ \A c \in Batches : c # b => batch'[c] = batch[c]
        /\ UNCHANGED <<content, gc>>
    BY <1>2, BatchUpdateTyped
  <2>2. \A s \in Segs : segTable'[s].state = segTable[s].state
    BY <2>1, ItemTyped, UpdateTyped DEF TypeInv, Charged
  <2>3. \A c \in Batches : Holds(c)' => Holds(c) /\ batch'[c].seg = batch[c].seg
                                        /\ batch'[c].at = batch[c].at
    BY <2>1 DEF Holds
  <2> QED
    BY <1>1, <2>1, <2>2, <2>3, QuietSegs
<1>3. ASSUME NEW b \in Batches, Reap(b) PROVE SegInv'
  <2>1. /\ MayRun /\ batch[b].at = "reap" /\ batch'[b].at \in {"reap", "done"}
        /\ \A c \in Batches : c # b => batch'[c] = batch[c]
        /\ Charged({batch[b].seg}) \/ UNCHANGED segTable
        /\ UNCHANGED <<content, gc>>
    BY <1>3, ReapTyped
  <2>2. \A s \in Segs : segTable'[s].state = segTable[s].state
    BY <2>1 DEF Charged
  <2>3. \A c \in Batches : Holds(c)' => Holds(c) /\ batch'[c].seg = batch[c].seg
                                        /\ batch'[c].at = batch[c].at
    BY <2>1 DEF Holds
  <2> QED
    BY <1>1, <2>1, <2>2, <2>3, QuietSegs
<1>4. ASSUME NEW c \in Readers, Find(c) \/ ReadData(c) PROVE SegInv'
  <2>1. MayRun /\ UNCHANGED <<content, gc, batch, segVars>>
    BY <1>4, ReaderTyped
  <2> QED
    BY <1>1, <2>1, QuietSegs DEF Holds, segVars
<1> QED
  BY <1>2, <1>3, <1>4

(* Steps of the merge: it begins with the candidates of the sort.          *)
LEMMA SortSegs ==
  ASSUME ~Overlap, TypeInv, SegInv, GcSort
  PROVE  SegInv'
<1>1. /\ MayMerge /\ gc'.at = "load" /\ gc'.cands \in CandMap(SegsByUtils(Thld))
      /\ gc'.frees = <<>> /\ gc'.last = {}
      /\ UNCHANGED <<segVars, content, batch, reader>>
  BY SortTyped
<1>2. AtRest /\ NobodyReads /\ TypeOK /\ WriterSegs
  BY <1>1 DEF MayMerge, TypeInv, SegInv
<1>3. GcAlone' /\ WriterSegs'
  BY <1>1, <1>2 DEF GcAlone, AtRest, NobodyReads, WriterSegs, Used, Holds, segVars
<1>4. CopySeg' /\ Locals'
  BY <1>1 DEF CopySeg, Locals
<1> DEFINE q == gc'.cands
           r == gc'.frees
<1>5. SegsByUtils(Thld) \in SUBSET Segs /\ \A s \in SegsByUtils(Thld) : Used(s)
  BY DEF SegsByUtils, InState, Used
<1>6. /\ \A i \in DOMAIN q : q[i] \in SegsByUtils(Thld)
      /\ \A i, j \in DOMAIN q : q[i] = q[j] => i = j
  BY <1>1, <1>2, <1>5, CandMapTyped, CandMapOnce
<1>7. DOMAIN r = {} /\ gc'.last = {} /\ UNCHANGED segTable
  BY <1>1 DEF segVars
<1>8. MergeSegs'
  BY <1>5, <1>6, <1>7 DEF MergeSegs, Once, Used
<1> QED
  BY <1>3, <1>4, <1>8 DEF SegInv

(* The state of the segments that a merge has noted stays as it is.        *)
LEMMA NotedKept ==
  ASSUME MergeSegs, UNCHANGED <<gc.cands, gc.frees, gc.last>>,
         gc.cands \in Seq(Segs), gc.frees \in Seq(Segs), gc.last \in SUBSET Segs,
         \A s \in Segs : Used(s) => segTable'[s].state = "USED"
  PROVE  MergeSegs'
<1> DEFINE q == gc.cands
           r == gc.frees
           l == gc.last
<1>1. /\ \A i \in DOMAIN q : q[i] \in Segs /\ Used(q[i]) /\ q[i] \notin l
      /\ \A i \in DOMAIN r : r[i] \in Segs /\ Used(r[i]) /\ r[i] \notin l
      /\ \A s \in l : s \in Segs /\ Used(s) /\ \A t \in l : s = t
      /\ Once(q) /\ Once(r)
      /\ \A i \in DOMAIN q, j \in DOMAIN r : q[i] # r[j]
  BY ElementOfSeq DEF MergeSegs
<1>2. gc'.cands = q /\ gc'.frees = r /\ gc'.last = l
  OBVIOUS
<1> HIDE DEF q, r, l
<1>3. /\ \A i \in DOMAIN q : segTable'[q[i]].state = "USED" /\ q[i] \notin l
      /\ \A i \in DOMAIN r : segTable'[r[i]].state = "USED" /\ r[i] \notin l
      /\ \A s \in l : segTable'[s].state = "USED" /\ \A t \in l : s = t
  BY <1>1
<1> QED
  BY <1>1, <1>2, <1>3 DEF MergeSegs, Once, Used

(* Loading a record changes no segment.                                    *)
LEMMA LoadSegs ==
  ASSUME TypeInv, SegInv, GcLoadEntry
  PROVE  SegInv'
<1>1. /\ gc.at = "load" /\ gc'.at = "load" /\ UNCHANGED <<gc.cands, gc.frees, gc.last>>
      /\ UNCHANGED <<segVars, content, index>> /\ OthersKeep
  BY LoadTyped
<1>2. /\ gc.cands \in Seq(Segs) /\ gc.frees \in Seq(Segs) /\ gc.last \in SUBSET Segs
      /\ UNCHANGED segTable /\ MergeSegs
  BY <1>1, Types DEF TypeInv, segVars, SegInv
<1>3. GcAlone' /\ WriterSegs'
  BY <1>1, <1>2, MergeSegsAlone DEF SegInv, WriterSegs
<1>4. MergeSegs'
  BY <1>1, <1>2, NotedKept DEF Used
<1>5. CopySeg' /\ Locals'
  BY <1>1 DEF CopySeg, Locals, SegInv
<1> QED
  BY <1>3, <1>4, <1>5 DEF SegInv

(* What is left of a list without its first element.                       *)
LEMMA TailList ==
  ASSUME NEW S, NEW q \in Seq(S), q # <<>>
  PROVE  /\ Tail(q) \in Seq(S) /\ Len(Tail(q)) = Len(q) - 1 /\ Len(q) \in Nat /\ Len(q) > 0
         /\ DOMAIN q = 1 .. Len(q) /\ DOMAIN Tail(q) = 1 .. Len(q) - 1
         /\ \A i \in DOMAIN Tail(q) : i + 1 \in DOMAIN q /\ Tail(q)[i] = q[i + 1]
         /\ 1 \in DOMAIN q /\ q[1] \in S
<1>1. Len(q) \in Nat /\ Len(q) > 0 /\ DOMAIN q = 1 .. Len(q) /\ \A i \in 1 .. Len(q) : q[i] \in S
  OBVIOUS
<1>2. /\ Tail(q) \in Seq(S) /\ Len(Tail(q)) = Len(q) - 1
      /\ \A i \in 1 .. Len(q) - 1 : Tail(q)[i] = q[i + 1]
  OBVIOUS
<1>3. DOMAIN Tail(q) = 1 .. Len(q) - 1
  BY <1>2
<1>4. \A i \in 1 .. Len(q) - 1 : i + 1 \in 1 .. Len(q)
  BY <1>1
<1> QED
  BY <1>1, <1>2, <1>3, <1>4

(* A list with one more element at its end.                                *)
LEMMA AppendList ==
  ASSUME NEW S, NEW q \in Seq(S), NEW x \in S
  PROVE  /\ Append(q, x) \in Seq(S) /\ Len(q) \in Nat /\ DOMAIN q = 1 .. Len(q)
         /\ Len(Append(q, x)) = Len(q) + 1
         /\ DOMAIN Append(q, x) = 1 .. Len(q) + 1
         /\ \A i \in DOMAIN q : i \in DOMAIN Append(q, x) /\ Append(q, x)[i] = q[i]
         /\ \A i \in DOMAIN Append(q, x) :
              \/ i \in DOMAIN q /\ Append(q, x)[i] = q[i]
              \/ i = Len(q) + 1 /\ i \notin DOMAIN q /\ Append(q, x)[i] = x
         /\ Append(q, x) # <<>>
<1>1. /\ Append(q, x) \in Seq(S) /\ Len(Append(q, x)) = Len(q) + 1 /\ Len(q) \in Nat
      /\ \A i \in 1 .. Len(q) : Append(q, x)[i] = q[i]
      /\ Append(q, x)[Len(q) + 1] = x
      /\ DOMAIN q = 1 .. Len(q)
  OBVIOUS
<1>2. DOMAIN Append(q, x) = 1 .. Len(q) + 1 /\ Append(q, x) # <<>>
  BY <1>1
<1>3. \A i \in 1 .. Len(q) + 1 : i \in 1 .. Len(q) \/ (i = Len(q) + 1 /\ i \notin 1 .. Len(q))
  BY <1>1
<1>4. \A i \in 1 .. Len(q) : i \in 1 .. Len(q) + 1
  BY <1>1
<1> QED
  BY <1>1, <1>2, <1>3, <1>4

(* A candidate that has been packed moves to the sources to be freed.      *)
LEMMA PackSegs ==
  ASSUME TypeInv, SegInv, GcPack
  PROVE  SegInv'
<1>1. /\ gc.at = "load" /\ gc'.at \in {"load", "alloc1"} /\ gc.cands # <<>> /\ gc.cands[1] \in Segs
      /\ gc'.at = IF Whole /\ Len(gc.cands) > 1 THEN "load" ELSE "alloc1"
      /\ gc'.frees = IF Whole THEN Append(gc.frees, gc.cands[1]) ELSE gc.frees
      /\ gc'.last = IF Whole THEN {} ELSE {gc.cands[1]}
      /\ gc'.cands = Tail(gc.cands)
      /\ UNCHANGED <<segVars, content, index>> /\ OthersKeep
  BY PackTyped
<1>2. /\ gc.cands \in Seq(Segs) /\ gc.frees \in Seq(Segs) /\ gc.last = {}
      /\ UNCHANGED segTable /\ MergeSegs
  BY <1>1, Types DEF TypeInv, segVars, SegInv, Locals
<1>3. GcAlone' /\ WriterSegs'
  BY <1>1, <1>2, MergeSegsAlone DEF SegInv, WriterSegs
<1>4. CopySeg' /\ Locals'
  BY <1>1 DEF CopySeg, Locals
<1> DEFINE q == gc.cands
           r == gc.frees
           qt == Tail(q)
           ra == Append(r, q[1])
<1>5. /\ \A i \in DOMAIN q : Used(q[i])
      /\ \A i \in DOMAIN r : Used(r[i])
      /\ \A i, j \in DOMAIN q : q[i] = q[j] => i = j
      /\ \A i, j \in DOMAIN r : r[i] = r[j] => i = j
      /\ \A i \in DOMAIN q, j \in DOMAIN r : q[i] # r[j]
  BY <1>2 DEF MergeSegs, Once
<1>6. /\ 1 \in DOMAIN q /\ Len(q) \in Nat /\ DOMAIN qt = 1 .. Len(q) - 1
      /\ \A i \in DOMAIN qt : i + 1 \in DOMAIN q /\ qt[i] = q[i + 1]
  BY <1>1, <1>2, TailList
<1>7. /\ \A i \in DOMAIN ra : \/ i \in DOMAIN r /\ ra[i] = r[i]
                              \/ i = Len(r) + 1 /\ ra[i] = q[1]
  BY <1>1, <1>2, AppendList
<1>8. gc'.cands = qt /\ (Whole => gc'.frees = ra /\ gc'.last = {})
      /\ (~Whole => gc'.frees = r /\ gc'.last = {q[1]})
  BY <1>1
<1> HIDE DEF q, r, qt, ra
<1>9. \A i \in DOMAIN qt : i \in Nat /\ i + 1 # 1
  BY <1>6
<1>10. /\ \A i \in DOMAIN qt : Used(qt[i]) /\ qt[i] # q[1] /\ \A j \in DOMAIN r : qt[i] # r[j]
       /\ \A i, j \in DOMAIN qt : qt[i] = qt[j] => i = j
  <2>1. \A i \in DOMAIN qt : Used(qt[i]) /\ qt[i] # q[1] /\ \A j \in DOMAIN r : qt[i] # r[j]
    BY <1>5, <1>6, <1>9
  <2>2. ASSUME NEW i \in DOMAIN qt, NEW j \in DOMAIN qt, qt[i] = qt[j] PROVE i = j
    <3>1. i + 1 = j + 1
      BY <1>5, <1>6, <2>2
    <3> QED
      BY <1>9, <3>1
  <2> QED
    BY <2>1, <2>2
<1>11. CASE Whole
  <2>1. /\ \A i \in DOMAIN ra : Used(ra[i])
        /\ \A i, j \in DOMAIN ra : ra[i] = ra[j] => i = j
        /\ \A i \in DOMAIN qt, j \in DOMAIN ra : qt[i] # ra[j]
    BY <1>5, <1>6, <1>7, <1>10
  <2> QED
    BY <1>2, <1>3, <1>4, <1>8, <1>10, <1>11, <2>1 DEF SegInv, MergeSegs, Once, Used
<1>12. CASE ~Whole
  <2>1. Used(q[1]) /\ \A i \in DOMAIN r : r[i] # q[1]
    BY <1>5, <1>6
  <2> QED
    BY <1>2, <1>3, <1>4, <1>5, <1>8, <1>10, <1>12, <2>1 DEF SegInv, MergeSegs, Once, Used
<1> QED
  BY <1>11, <1>12

(* The segment a merge takes is nobody else's.                             *)
LEMMA AllocSegs ==
  ASSUME TypeInv, SegInv, GcAlloc("alloc1", "write1") \/ GcAlloc("alloc2", "write2")
  PROVE  SegInv'
<1> DEFINE s == gc'.seg
<1>1. /\ gc.at \in {"alloc1", "alloc2"} /\ gc'.at \in {"write1", "write2"} /\ s \in Segs
      /\ segTable[s].state = "FREE" /\ segTable'[s].state = "RESERVED"
      /\ \A t \in Segs : t # s => segTable'[t] = segTable[t]
      /\ UNCHANGED <<gc.cands, gc.frees, gc.last>>
      /\ UNCHANGED <<content, index>> /\ OthersKeep
  BY AllocTyped
<1>2. /\ gc.cands \in Seq(Segs) /\ gc.frees \in Seq(Segs) /\ gc.last \in SUBSET Segs
      /\ MergeSegs /\ WriterSegs /\ \A b \in Batches : batch[b].seg \in Segs
      /\ UNCHANGED batch
  BY <1>1, Types DEF TypeInv, SegInv, OthersKeep
<1>3. \A b \in Batches : batch[b].at = "write" => batch[b].seg # s
  BY <1>1, <1>2 DEF WriterSegs
<1> HIDE DEF s
<1>4. GcAlone' /\ WriterSegs'
  BY <1>1, <1>2, <1>3, MergeSegsAlone DEF WriterSegs
<1>5. MergeSegs'
  BY <1>1, <1>2, NotedKept DEF Used
<1>6. CopySeg' /\ Locals'
  BY <1>1, <1>2, <1>3 DEF CopySeg, Locals, s
<1> QED
  BY <1>4, <1>5, <1>6 DEF SegInv

(* The segment a merge has written holds the copies.                       *)
LEMMA CopySegs ==
  ASSUME TypeInv, SegInv, GcWrite("write1", gc.first, "update1") \/ GcWrite("write2", gc.list, "update2")
  PROVE  SegInv'
<1> DEFINE s == gc.seg
<1>1. /\ \/ gc.at = "write1" /\ gc'.at = "update1"
         \/ gc.at = "write2" /\ gc'.at = "update2"
      /\ s \in Segs /\ content'[s] = Copies
      /\ segTable'[s].state = "USED"
      /\ \A t \in Segs : t # s => segTable'[t] = segTable[t]
      /\ UNCHANGED <<gc.cands, gc.list, gc.first, gc.frees, gc.last, gc.seg>>
      /\ UNCHANGED <<batch, reader>>
  BY CopyTyped
<1>2. /\ gc.cands \in Seq(Segs) /\ gc.frees \in Seq(Segs) /\ gc.last \in SUBSET Segs
      /\ MergeSegs /\ WriterSegs /\ \A b \in Batches : batch[b].seg \in Segs
  BY <1>1, Types DEF TypeInv, SegInv
<1>3. /\ segTable[s].state = "RESERVED"
      /\ \A b \in Batches : batch[b].at = "write" => batch[b].seg # s
  BY <1>1 DEF SegInv, CopySeg
<1> HIDE DEF s
<1>4. GcAlone' /\ WriterSegs'
  BY <1>1, <1>2, <1>3, MergeSegsAlone DEF WriterSegs
<1>5. MergeSegs'
  BY <1>1, <1>2, <1>3, NotedKept DEF Used
<1>6. gc.seg \notin gc.last /\ \A i \in DOMAIN gc.frees : gc.frees[i] # gc.seg
  BY <1>2, <1>3 DEF MergeSegs, Used, s
<1>7. CopySeg' /\ Locals'
  BY <1>1, <1>6 DEF CopySeg, Locals, Copies, Used, s
<1> QED
  BY <1>4, <1>5, <1>7 DEF SegInv

(* The updates of a merge leave its segments where they are.               *)
LEMMA CopyUpdateSegs ==
  ASSUME TypeInv, SegInv, GcUpdate("update1", gc.first) \/ GcUpdate("update2", gc.list)
  PROVE  SegInv'
<1>1. /\ UpdateIndex(NextCopy) /\ NextCopy \in Entries /\ gc.at \in {"update1", "update2"}
      /\ UNCHANGED <<gc.at, gc.cands, gc.list, gc.first, gc.frees, gc.last, gc.seg, content>>
      /\ OthersKeep /\ gc.seg \in Segs
  BY CopyUpdateTyped
<1>2. \A s \in Segs : segTable'[s].state = segTable[s].state
  BY <1>1, UpdateTyped DEF TypeInv, Charged
<1>3. /\ gc.cands \in Seq(Segs) /\ gc.frees \in Seq(Segs) /\ gc.last \in SUBSET Segs
      /\ MergeSegs /\ WriterSegs /\ \A b \in Batches : batch[b].seg \in Segs
  BY Types DEF TypeInv, SegInv
<1>4. GcAlone' /\ WriterSegs'
  BY <1>1, <1>2, <1>3, MergeSegsAlone DEF WriterSegs
<1>5. MergeSegs'
  BY <1>1, <1>2, <1>3, NotedKept DEF Used
<1>6. CopySeg' /\ Locals'
  BY <1>1, <1>2 DEF CopySeg, Locals, Copies, Used, SegInv
<1> QED
  BY <1>4, <1>5, <1>6 DEF SegInv

(* Going on after the updates leaves the segments where they are.          *)
LEMMA OnwardSegs ==
  ASSUME TypeInv, SegInv,
         \/ GcUpdated("update1", gc.first, "free1") \/ GcUpdated("update2", gc.list, "free2")
         \/ GcFirstDone /\ gc.last # {}
  PROVE  SegInv'
<1>1. /\ gc.at \in {"update1", "update2", "free1"} /\ gc'.at \in {"free1", "free2", "alloc2"}
      /\ UNCHANGED <<gc.cands, gc.frees, gc.last>>
      /\ UNCHANGED <<segVars, content, index>> /\ OthersKeep
  BY OnwardTyped
<1>2. /\ gc.cands \in Seq(Segs) /\ gc.frees \in Seq(Segs) /\ gc.last \in SUBSET Segs
      /\ UNCHANGED segTable /\ MergeSegs
  BY <1>1, Types DEF TypeInv, segVars, SegInv
<1>3. GcAlone' /\ WriterSegs'
  BY <1>1, <1>2, MergeSegsAlone DEF SegInv, WriterSegs
<1>4. MergeSegs'
  BY <1>1, <1>2, NotedKept DEF Used
<1>5. CopySeg' /\ Locals'
  BY <1>1 DEF CopySeg, Locals, SegInv
<1> QED
  BY <1>3, <1>4, <1>5 DEF SegInv

(* A source that is freed is not noted any more.                           *)
LEMMA FreeSourceSegs ==
  ASSUME TypeInv, SegInv, GcFree
  PROVE  SegInv'
<1> DEFINE s == gc.frees[1]
           q == gc.cands
           r == gc.frees
           rt == Tail(r)
           l == gc.last
<1>1. /\ gc.at = "free1" /\ gc'.at = "free1" /\ r # <<>> /\ s \in Segs /\ gc'.frees = rt
      /\ \A t \in Segs : t # s => segTable'[t] = segTable[t]
      /\ gc'.cands = q /\ gc'.last = l
      /\ UNCHANGED <<content, index>> /\ OthersKeep
  BY FreeSourceTyped
<1>2. /\ q \in Seq(Segs) /\ r \in Seq(Segs) /\ l \in SUBSET Segs
      /\ MergeSegs /\ WriterSegs /\ \A b \in Batches : batch[b].seg \in Segs
  BY Types DEF TypeInv, SegInv
<1>3. /\ \A i \in DOMAIN q : q[i] \in Segs /\ Used(q[i]) /\ q[i] \notin l
      /\ \A i \in DOMAIN r : r[i] \in Segs /\ Used(r[i]) /\ r[i] \notin l
      /\ \A t \in l : t \in Segs /\ Used(t) /\ \A u \in l : t = u
      /\ \A i, j \in DOMAIN q : q[i] = q[j] => i = j
      /\ \A i, j \in DOMAIN r : r[i] = r[j] => i = j
      /\ \A i \in DOMAIN q, j \in DOMAIN r : q[i] # r[j]
  BY <1>2, ElementOfSeq DEF MergeSegs, Once
<1>4. /\ 1 \in DOMAIN r /\ Len(r) \in Nat /\ DOMAIN rt = 1 .. Len(r) - 1
      /\ \A i \in DOMAIN rt : i + 1 \in DOMAIN r /\ rt[i] = r[i + 1]
  BY <1>1, <1>2, TailList
<1>5. s = r[1]
  OBVIOUS
<1> HIDE DEF s, q, r, rt, l
<1>6. \A b \in Batches : batch[b].at = "write" => batch[b].seg # s
  BY <1>2, <1>3, <1>4, <1>5 DEF WriterSegs, Used
<1>7. GcAlone' /\ WriterSegs'
  BY <1>1, <1>2, <1>6, MergeSegsAlone DEF WriterSegs
<1>8. \A i \in DOMAIN rt : i \in Nat /\ i + 1 # 1
  BY <1>4
<1>9. /\ \A i \in DOMAIN rt : rt[i] \in Segs /\ Used(rt[i]) /\ rt[i] # s /\ rt[i] \notin l
      /\ \A i \in DOMAIN q, j \in DOMAIN rt : q[i] # rt[j]
      /\ \A i \in DOMAIN q : q[i] # s
      /\ s \notin l
  BY <1>3, <1>4, <1>5, <1>8
<1>10. \A i, j \in DOMAIN rt : rt[i] = rt[j] => i = j
  <2> SUFFICES ASSUME NEW i \in DOMAIN rt, NEW j \in DOMAIN rt, rt[i] = rt[j] PROVE i = j
    OBVIOUS
  <2>1. i + 1 = j + 1
    BY <1>3, <1>4
  <2> QED
    BY <1>8, <2>1
<1>11. /\ \A i \in DOMAIN q : segTable'[q[i]].state = "USED"
       /\ \A i \in DOMAIN rt : segTable'[rt[i]].state = "USED"
       /\ \A t \in l : segTable'[t].state = "USED"
  BY <1>1, <1>3, <1>9 DEF Used
<1>12. MergeSegs'
  BY <1>1, <1>3, <1>9, <1>10, <1>11 DEF MergeSegs, Once, Used
<1>13. CopySeg' /\ Locals'
  BY <1>1 DEF CopySeg, Locals
<1> QED
  BY <1>7, <1>12, <1>13 DEF SegInv

(* A merge ends, its last segment freed or its own one given back.         *)
LEMMA EndSegs ==
  ASSUME TypeInv, SegInv,
         GcWriteFails \/ (GcFirstDone /\ gc.last = {}) \/ GcFreeLast
  PROVE  SegInv'
<1>1. WriterSegs /\ \A b \in Batches : batch[b].seg \in Segs
  BY Types DEF TypeInv, SegInv
<1>2. /\ gc' = NoMerge /\ gc.at # "idle" /\ OthersKeep
      /\ \A b \in Batches : batch[b].at = "write" => segTable'[batch[b].seg] = segTable[batch[b].seg]
  <2>1. CASE GcWriteFails
    <3>1. /\ gc' = NoMerge /\ gc.at \in {"write1", "write2"} /\ OthersKeep
          /\ \A t \in Segs : t # gc.seg => segTable'[t] = segTable[t]
      BY <2>1, CopyFailsTyped
    <3>2. \A b \in Batches : batch[b].at = "write" => batch[b].seg # gc.seg
      BY <3>1 DEF SegInv, CopySeg
    <3> QED
      BY <1>1, <3>1, <3>2
  <2>2. CASE GcFirstDone /\ gc.last = {}
    BY <2>2, DoneTyped DEF segVars
  <2>3. CASE GcFreeLast
    <3>1. PICK s \in gc.last : \A t \in Segs : t # s => segTable'[t] = segTable[t]
      BY <2>3, FreeLastTyped
    <3>2. Used(s)
      BY DEF SegInv, MergeSegs
    <3>3. \A b \in Batches : batch[b].at = "write" => batch[b].seg # s
      BY <1>1, <3>2 DEF WriterSegs, Used
    <3> QED
      BY <1>1, <2>3, <3>1, <3>3, FreeLastTyped
  <2> QED
    BY <2>1, <2>2, <2>3
<1>3. GcAlone' /\ WriterSegs'
  BY <1>1, <1>2, MergeSegsAlone DEF WriterSegs
<1> QED
  BY <1>2, <1>3, NoMergeSegs DEF SegInv

(* Clients and merges never get at each other's segments.                  *)
LEMMA SegInvStep ==
  ASSUME ~Overlap, TypeInv, SegInv, [Next]_vars
  PROVE  SegInv'
<1>1. ASSUME NEW b \in Batches,
             Allocate(b) \/ WriteSeg(b) \/ WriteSegFails(b) \/ BatchUpdate(b) \/ Reap(b)
      PROVE  SegInv'
  BY <1>1, AllocateSegs, WriteSegs, WriteFailsSegs, ClientSegsStep
<1>2. ASSUME NEW c \in Readers, Find(c) \/ ReadData(c) PROVE SegInv'
  BY <1>2, ClientSegsStep
<1>3. CASE GcSort
  BY <1>3, SortSegs
<1>4. CASE doMerge
  <2>1. CASE GcLoadEntry \/ GcPack
    BY <2>1, LoadSegs, PackSegs
  <2>2. CASE GcAlloc("alloc1", "write1") \/ GcAlloc("alloc2", "write2")
    BY <2>2, AllocSegs
  <2>3. CASE GcWrite("write1", gc.first, "update1") \/ GcWrite("write2", gc.list, "update2")
    BY <2>3, CopySegs
  <2>4. CASE GcWriteFails \/ GcFirstDone \/ GcFreeLast
    BY <2>4, EndSegs, OnwardSegs
  <2>5. CASE GcUpdate("update1", gc.first) \/ GcUpdate("update2", gc.list)
    BY <2>5, CopyUpdateSegs
  <2>6. CASE GcUpdated("update1", gc.first, "free1") \/ GcUpdated("update2", gc.list, "free2")
    BY <2>6, OnwardSegs
  <2>7. CASE GcFree
    BY <2>7, FreeSourceSegs
  <2> QED
    BY <1>4, <2>1, <2>2, <2>3, <2>4, <2>5, <2>6, <2>7 DEF doMerge
<1>5. CASE UNCHANGED vars
  BY <1>5 DEF vars, segVars, SegInv, GcAlone, AtRest, NobodyReads, WriterSegs, CopySeg,
              MergeSegs, Once, Locals, Copies, Used, Holds
<1> QED
  BY <1>1, <1>2, <1>3, <1>4, <1>5 DEF Next

(* No segment is held in the beginning.                                    *)
LEMMA SegInvInit == Init => SegInv
<1> SUFFICES ASSUME Init PROVE SegInv
  OBVIOUS
<1> DEFINE q == gc.cands
           r == gc.frees
<1>1. /\ gc.at = "idle" /\ gc = NoMerge /\ q = <<>> /\ r = <<>> /\ gc.last = {}
      /\ \A b \in Batches : batch[b].at = "new"
  BY DEF Init, NoMerge, NewBatch
<1>2. DOMAIN q = {} /\ DOMAIN r = {}
  BY <1>1
<1> QED
  BY <1>1, <1>2 DEF SegInv, GcAlone, WriterSegs, CopySeg, MergeSegs, Once, Locals, Holds
-----------------------------------------------------------------------------
(* Entries and records. *)

(* A tombstone that a merge may have left behind.                          *)
Excused(e) == dangling /\ e.write \in Deletes

(* The merge has w with it and has yet to point the index to the copy.     *)
FirstTodo(w) ==
  \/ gc.at \in {"load", "alloc1", "write1"} /\ Among(w, gc.first)
  \/ gc.at = "update1" /\ \E n \in DOMAIN gc.first : n >= gc.pos /\ gc.first[n] = w
ListTodo(w) ==
  \/ /\ gc.at \in {"load", "alloc1", "write1", "update1", "free1", "alloc2", "write2"}
     /\ Among(w, gc.list)
  \/ gc.at = "update2" /\ \E n \in DOMAIN gc.list : n >= gc.pos /\ gc.list[n] = w

(* An entry that leads to a segment which the merge will free belongs to a *)
(* write the merge has with it.                                            *)
Carried(e) ==
  \/ Excused(e)
  \/ /\ \A i \in DOMAIN gc.frees : e.seg = gc.frees[i] => FirstTodo(e.write)
     /\ e.seg \in gc.last => FirstTodo(e.write) \/ ListTodo(e.write)
     /\ gc.at = "load" /\ e.seg = gc.cands[1] /\ e.pos < gc.pos => ListTodo(e.write)

CurrentWrite(w) ==
  w \notin Deletes /\ index[KeyOf[w]] # NoEntry /\ index[KeyOf[w]].write = w

(* What a merge has with it is what the index holds.                       *)
Current == \A w \in Writes : Among(w, gc.first) \/ Among(w, gc.list) => CurrentWrite(w)

(* An entry whose place now has another record of the same key, which only *)
(* an entry left behind by a merge can be, until that record's writer has  *)
(* brought it to the index.                                                *)
Mistaken(e) ==
  /\ ~Housed(e) /\ Used(e.seg) /\ e.pos \in DOMAIN content[e.seg]
  /\ KeyOf[content[e.seg][e.pos]] = KeyOf[e.write]
Replacing(b, e) ==
  /\ batch[b].at = "update" /\ batch[b].seg = e.seg
  /\ batch[b].next <= e.pos /\ e.stamp < batch[b].stamp
Matched(e) == Mistaken(e) => \E b \in Batches : Replacing(b, e)

Placed(k) ==
  index[k] # NoEntry =>
    /\ KeyOf[index[k].write] = k
    /\ Housed(index[k]) \/ Excused(index[k])
    /\ Carried(index[k]) /\ Matched(index[k])

(* No stamp is ahead of the clock.                                         *)
Stamps ==
  /\ \A k \in Keys : index[k] # NoEntry => index[k].stamp <= clock
  /\ \A b \in Batches : batch[b].stamp <= clock
  /\ gc.stamp <= clock /\ (gc.at \in {"update1", "update2"} => gc.stamp = clock)

HouseInv == (\A k \in Keys : Placed(k)) /\ Current

(* UpdateIndex leaves the new entry or the old one.                        *)
LEMMA UpdateCases ==
  ASSUME TypeOK, NEW e \in Entries, UpdateIndex(e)
  PROVE  /\ KeyOf[e.write] \in Keys /\ e # NoEntry /\ index' \in [Keys -> MaybeEntries]
         /\ index'[KeyOf[e.write]] \in {e, index[KeyOf[e.write]]}
         /\ \A k \in Keys : k # KeyOf[e.write] => index'[k] = index[k]
         /\ \A s \in Segs : segTable'[s].state = segTable[s].state
<1>1. e # NoEntry
  BY GcManagerAssumption
<1>2. index'[KeyOf[e.write]] = Kept(e, index[KeyOf[e.write]])
  BY UpdateTyped
<1>3. index'[KeyOf[e.write]] \in {e, index[KeyOf[e.write]]}
  BY <1>2 DEF Kept
<1> QED
  BY <1>1, <1>3, UpdateTyped DEF Charged

(* Stamps of a step that changes no entry.                                 *)
LEMMA SameStamps ==
  ASSUME TypeOK, Stamps, index' = index, clock' \in Nat, clock' >= clock,
         \A b \in Batches : batch'[b].stamp = batch[b].stamp \/ batch'[b].stamp = clock',
         \/ gc'.stamp = clock'
         \/ gc'.stamp = gc.stamp /\ clock' = clock
              /\ (gc'.at \in {"update1", "update2"} => gc.at \in {"update1", "update2"})
         \/ gc'.stamp = 0 /\ gc'.at \notin {"update1", "update2"}
  PROVE  Stamps'
<1>1. clock \in Nat /\ gc.stamp \in Nat /\ \A b \in Batches : batch[b].stamp \in Nat
  BY Types
<1>2. \A k \in Keys : index[k] # NoEntry => index[k].stamp \in Nat
  BY EntryTypes
<1>3. \A k \in Keys : index'[k] # NoEntry => index'[k].stamp <= clock'
  BY <1>1, <1>2 DEF Stamps
<1>4. \A b \in Batches : batch'[b].stamp <= clock'
  BY <1>1 DEF Stamps
<1>5. gc'.stamp <= clock' /\ (gc'.at \in {"update1", "update2"} => gc'.stamp = clock')
  BY <1>1 DEF Stamps
<1> QED
  BY <1>3, <1>4, <1>5 DEF Stamps

(* No stamp is ahead of the clock, and a merge has the latest.             *)
LEMMA StampsStep ==
  ASSUME ~Overlap, TypeInv, SegInv, Stamps, [Next]_vars
  PROVE  Stamps'
<1>0. TypeOK /\ clock \in Nat
  BY Types DEF TypeInv
<1>1. ASSUME NEW b \in Batches, Allocate(b) PROVE Stamps'
  <2>1. /\ \A c \in Batches : batch'[c].stamp = batch[c].stamp
        /\ UNCHANGED <<index, clock, gc>>
    BY <1>1, AllocateTyped
  <2> QED
    BY <1>0, <2>1, SameStamps
<1>2. ASSUME NEW b \in Batches, WriteSeg(b) PROVE Stamps'
  <2>1. /\ \A c \in Batches : batch'[c].stamp = batch[c].stamp \/ batch'[c].stamp = clock'
        /\ UNCHANGED <<index, gc>> /\ clock' = clock + 1 /\ MayRun
    BY <1>2, WriteTyped
  <2>2. gc'.stamp = 0 /\ gc'.at = "idle"
    BY <2>1, ClientAlone DEF NoMerge
  <2> QED
    BY <1>0, <2>1, <2>2, SameStamps
<1>3. ASSUME NEW b \in Batches, WriteSegFails(b) PROVE Stamps'
  <2>1. /\ \A c \in Batches : batch'[c].stamp = batch[c].stamp
        /\ UNCHANGED <<index, clock, gc>>
    BY <1>3, WriteFailsTyped
  <2> QED
    BY <1>0, <2>1, SameStamps
<1>4. ASSUME NEW b \in Batches, BatchUpdate(b) PROVE Stamps'
  <2>1. /\ \A c \in Batches : batch'[c].stamp = batch[c].stamp
        /\ UNCHANGED <<clock, gc>> /\ UpdateIndex(ItemEntry(b)) /\ batch[b].next \in DOMAIN Items[b]
    BY <1>4, BatchUpdateTyped
  <2>2. ItemEntry(b) \in Entries /\ ItemEntry(b).stamp = batch[b].stamp
    BY <1>0, <2>1, ItemTyped
  <2>3. \A k \in Keys : index'[k] = index[k] \/ index'[k] = ItemEntry(b)
    BY <1>0, <2>1, <2>2, UpdateCases
  <2> QED
    BY <2>1, <2>2, <2>3 DEF Stamps
<1>5. ASSUME NEW b \in Batches, Reap(b) PROVE Stamps'
  <2>1. /\ \A c \in Batches : batch'[c].stamp = batch[c].stamp
        /\ UNCHANGED <<clock, gc>>
        /\ index' = [index EXCEPT ![ReapedKey(b)] = NoEntry] \/ UNCHANGED index
    BY <1>5, ReapTyped
  <2>2. \A k \in Keys : index'[k] = index[k] \/ index'[k] = NoEntry
    BY <1>0, <2>1, Types
  <2> QED
    BY <2>1, <2>2 DEF Stamps
<1>6. ASSUME NEW c \in Readers, Find(c) \/ ReadData(c) PROVE Stamps'
  BY <1>6, ReaderTyped DEF Stamps
<1>7. CASE GcSort
  <2>1. gc'.stamp = 0 /\ gc'.at = "load" /\ UNCHANGED <<index, clock, batch>>
    BY <1>7, SortTyped
  <2> QED
    BY <1>0, <2>1, SameStamps
<1>8. CASE doMerge
  <2>1. CASE GcLoadEntry
    <3>1. gc'.at = "load" /\ gc'.stamp = gc.stamp /\ UNCHANGED <<index, clock, batch>>
      BY <2>1, LoadTyped DEF OthersKeep
    <3> QED
      BY <1>0, <3>1, SameStamps
  <2>2. CASE GcPack
    <3>1. gc'.at \in {"load", "alloc1"} /\ gc'.stamp = gc.stamp /\ UNCHANGED <<index, clock, batch>>
      BY <2>2, PackTyped DEF OthersKeep
    <3> QED
      BY <1>0, <3>1, SameStamps
  <2>3. CASE GcAlloc("alloc1", "write1") \/ GcAlloc("alloc2", "write2")
    <3>1. gc'.at \in {"write1", "write2"} /\ gc'.stamp = gc.stamp
          /\ UNCHANGED <<index, clock, batch>>
      BY <2>3, AllocTyped DEF OthersKeep
    <3> QED
      BY <1>0, <3>1, SameStamps
  <2>4. CASE GcWrite("write1", gc.first, "update1") \/ GcWrite("write2", gc.list, "update2")
    <3>1. gc'.stamp = clock' /\ clock' = clock + 1 /\ UNCHANGED <<index, batch>>
      BY <2>4, CopyTyped
    <3> QED
      BY <1>0, <3>1, SameStamps
  <2>5. CASE GcWriteFails \/ (GcFirstDone /\ gc.last = {}) \/ GcFreeLast
    <3>1. gc' = NoMerge /\ UNCHANGED <<index, clock, batch>>
      BY <2>5, CopyFailsTyped, DoneTyped, FreeLastTyped DEF OthersKeep
    <3>2. gc'.stamp = 0 /\ gc'.at = "idle"
      BY <3>1 DEF NoMerge
    <3> QED
      BY <1>0, <3>1, <3>2, SameStamps
  <2>6. CASE GcUpdate("update1", gc.first) \/ GcUpdate("update2", gc.list)
    <3>1. /\ UpdateIndex(NextCopy) /\ NextCopy \in Entries /\ NextCopy.stamp = gc.stamp
          /\ UNCHANGED <<gc.at, gc.stamp, clock, batch>>
      BY <2>6, CopyUpdateTyped DEF OthersKeep
    <3>2. \A k \in Keys : index'[k] = index[k] \/ index'[k] = NextCopy
      BY <1>0, <3>1, UpdateCases
    <3> QED
      BY <3>1, <3>2 DEF Stamps
  <2>7. CASE \/ GcUpdated("update1", gc.first, "free1") \/ GcUpdated("update2", gc.list, "free2")
             \/ GcFirstDone /\ gc.last # {}
    <3>1. gc'.at \in {"free1", "free2", "alloc2"} /\ gc'.stamp = gc.stamp
          /\ UNCHANGED <<index, clock, batch>>
      BY <2>7, OnwardTyped DEF OthersKeep
    <3> QED
      BY <1>0, <3>1, SameStamps
  <2>8. CASE GcFree
    <3>1. gc'.at = gc.at /\ gc'.stamp = gc.stamp /\ UNCHANGED <<index, clock, batch>>
      BY <2>8, FreeSourceTyped DEF OthersKeep
    <3> QED
      BY <1>0, <3>1, SameStamps
  <2> QED
    BY <1>8, <2>1, <2>2, <2>3, <2>4, <2>5, <2>6, <2>7, <2>8 DEF doMerge
<1>9. CASE UNCHANGED vars
  BY <1>9 DEF vars, Stamps
<1> QED
  BY <1>1, <1>2, <1>3, <1>4, <1>5, <1>6, <1>7, <1>8, <1>9 DEF Next

(* Clients do not touch a USED segment's records, nor give it back.        *)
LEMMA ClientKeeps ==
  ASSUME TypeInv, SegInv,
         \/ \E b \in Batches :
              Allocate(b) \/ WriteSeg(b) \/ WriteSegFails(b) \/ BatchUpdate(b) \/ Reap(b)
         \/ \E c \in Readers : Find(c) \/ ReadData(c)
  PROVE  \A s \in Segs : Used(s) => segTable'[s].state = "USED" /\ content'[s] = content[s]
<1>1. ASSUME NEW b \in Batches, Allocate(b)
      PROVE  \A s \in Segs : Used(s) => segTable'[s].state = "USED" /\ content'[s] = content[s]
  BY <1>1, AllocateTyped DEF Used
<1>2. ASSUME NEW b \in Batches, WriteSeg(b) \/ WriteSegFails(b)
      PROVE  \A s \in Segs : Used(s) => segTable'[s].state = "USED" /\ content'[s] = content[s]
  <2>1. /\ batch[b].at = "write"
        /\ \A s \in Segs : s # batch[b].seg => segTable'[s] = segTable[s] /\ content'[s] = content[s]
    BY <1>2, WriteTyped, WriteFailsTyped
  <2>2. ~Used(batch[b].seg)
    BY <2>1 DEF SegInv, WriterSegs, Used
  <2> QED
    BY <2>1, <2>2 DEF Used
<1>3. ASSUME NEW b \in Batches, BatchUpdate(b)
      PROVE  \A s \in Segs : Used(s) => segTable'[s].state = "USED" /\ content'[s] = content[s]
  <2>1. /\ UpdateIndex(ItemEntry(b)) /\ batch[b].next \in DOMAIN Items[b] /\ UNCHANGED content
        /\ TypeOK
    BY <1>3, BatchUpdateTyped DEF TypeInv
  <2> QED
    BY <2>1, ItemTyped, UpdateCases DEF Used
<1>4. ASSUME NEW b \in Batches, Reap(b)
      PROVE  \A s \in Segs : Used(s) => segTable'[s].state = "USED" /\ content'[s] = content[s]
  <2>1. (Charged({batch[b].seg}) \/ UNCHANGED segTable) /\ UNCHANGED content
    BY <1>4, ReapTyped
  <2> QED
    BY <2>1 DEF Charged, Used
<1>5. ASSUME NEW c \in Readers, Find(c) \/ ReadData(c)
      PROVE  \A s \in Segs : Used(s) => segTable'[s].state = "USED" /\ content'[s] = content[s]
  BY <1>5, ReaderTyped DEF segVars, Used
<1> QED
  BY <1>1, <1>2, <1>3, <1>4, <1>5

(* An entry's record and place depend on its segment only.                 *)
LEMMA SameSeg ==
  ASSUME NEW e \in Entries, segTable'[e.seg].state = segTable[e.seg].state,
         content'[e.seg] = content[e.seg]
  PROVE  (Housed(e)' <=> Housed(e)) /\ (Mistaken(e)' <=> Mistaken(e))
BY DEF Housed, Mistaken, Used

(* What to show of a client's step: each entry it leaves has its record.   *)
LEMMA ClientHouse ==
  ASSUME ~Overlap, TypeInv', SegInv, MayRun, UNCHANGED <<gc, dangling>>,
         \A k \in Keys, e \in Entries : index'[k] = e =>
           KeyOf[e.write] = k /\ (Housed(e)' \/ Excused(e)) /\ Matched(e)'
  PROVE  HouseInv'
<1>1. gc' = NoMerge /\ gc' = gc /\ dangling' = dangling
  BY ClientAlone
<1> DEFINE r == gc'.frees
           f == gc'.first
           l == gc'.list
<1>2. gc'.at = "idle" /\ r = <<>> /\ f = <<>> /\ l = <<>> /\ gc'.last = {}
  BY <1>1, IdleTyped
<1>3. DOMAIN r = {} /\ DOMAIN f = {} /\ DOMAIN l = {}
  BY <1>2
<1>4. Current'
  BY <1>3 DEF Current, Among
<1>5. \A e \in Entries : Carried(e)'
  BY <1>2, <1>3 DEF Carried
<1>6. \A e \in Entries : Excused(e)' <=> Excused(e)
  BY <1>1 DEF Excused
<1>7. ASSUME NEW k \in Keys PROVE Placed(k)'
  <2> SUFFICES ASSUME index'[k] # NoEntry PROVE Placed(k)'
    BY DEF Placed
  <2>1. PICK e \in Entries : index'[k] = e
    BY DEF TypeInv, TypeOK, MaybeEntries
  <2>2. KeyOf[e.write] = k /\ (Housed(e) \/ Excused(e))' /\ Carried(e)' /\ Matched(e)'
    BY <1>5, <1>6, <2>1
  <2> QED
    BY <2>1, <2>2 DEF Placed
<1> QED
  BY <1>4, <1>7 DEF HouseInv

(* What Placed says of an entry.                                           *)
LEMMA PlacedEntry ==
  ASSUME TypeOK, HouseInv, NEW k \in Keys, NEW e \in Entries, index[k] = e
  PROVE  /\ KeyOf[e.write] = k /\ (Housed(e) \/ Excused(e)) /\ Carried(e) /\ Matched(e)
         /\ e.seg \in Segs /\ e.write \in Writes /\ e.pos \in Nat \ {0} /\ e.stamp \in Nat
<1>1. index[k] # NoEntry
  BY GcManagerAssumption
<1> QED
  BY <1>1 DEF HouseInv, Placed, Entries

(* A client's step that leaves the index alone, and every other batch in   *)
(* the middle of its updates as it is.                                     *)
LEMMA ClientSameIndex ==
  ASSUME ~Overlap, TypeInv, TypeInv', SegInv, HouseInv, MayRun,
         UNCHANGED <<gc, dangling, index>>,
         \A s \in Segs : Used(s) => segTable'[s].state = "USED" /\ content'[s] = content[s],
         \A b \in Batches : batch[b].at = "update" => batch'[b] = batch[b],
         \A s \in Segs : segTable'[s].state = "USED" =>
           \/ Used(s)
           \/ \E b \in Batches : /\ batch'[b].at = "update" /\ batch'[b].seg = s
                                 /\ batch'[b].next = 1
                                 /\ \A k \in Keys : index[k] # NoEntry =>
                                                      index[k].stamp < batch'[b].stamp
  PROVE  HouseInv'
<1>1. ASSUME NEW k \in Keys, NEW e \in Entries, index'[k] = e
      PROVE  KeyOf[e.write] = k /\ (Housed(e)' \/ Excused(e)) /\ Matched(e)'
  <2>1. /\ index[k] = e /\ KeyOf[e.write] = k /\ (Housed(e) \/ Excused(e)) /\ Matched(e)
        /\ e.seg \in Segs /\ e.pos \in Nat \ {0} /\ index[k] # NoEntry
    BY <1>1, PlacedEntry, GcManagerAssumption DEF TypeInv
  <2>2. Housed(e) => Housed(e)'
    BY <2>1 DEF Housed, Used
  <2>3. ASSUME Mistaken(e)' PROVE \E b \in Batches : Replacing(b, e)'
    <3>1. CASE Used(e.seg)
      <4>1. Mistaken(e)
        BY <2>1, <2>3, <3>1, SameSeg DEF Used
      <4>2. PICK b \in Batches : Replacing(b, e)
        BY <2>1, <4>1 DEF Matched
      <4> QED
        BY <4>2 DEF Replacing
    <3>2. CASE ~Used(e.seg)
      <4>1. segTable'[e.seg].state = "USED"
        BY <2>3 DEF Mistaken, Used
      <4>2. PICK b \in Batches : /\ batch'[b].at = "update" /\ batch'[b].seg = e.seg
                                 /\ batch'[b].next = 1 /\ e.stamp < batch'[b].stamp
        BY <2>1, <3>2, <4>1
      <4>3. 1 <= e.pos
        BY <2>1
      <4> QED
        BY <4>2, <4>3 DEF Replacing
    <3> QED
      BY <3>1, <3>2
  <2> QED
    BY <2>1, <2>2, <2>3 DEF Matched
<1> QED
  BY <1>1, ClientHouse

(* Taking and writing a segment moves no record that is in the index.      *)
LEMMA AllocateHouse ==
  ASSUME ~Overlap, TypeInv, SegInv, HouseInv, Stamps, NEW b \in Batches,
         Allocate(b) \/ WriteSeg(b) \/ WriteSegFails(b)
  PROVE  HouseInv'
<1>1. \A s \in Segs : Used(s) => segTable'[s].state = "USED" /\ content'[s] = content[s]
  BY ClientKeeps
<1>2. CASE Allocate(b)
  <2>1. /\ MayRun /\ batch[b].at = "new" /\ batch'[b].seg \in Segs
        /\ \A c \in Batches : c # b => batch'[c] = batch[c]
        /\ segTable'[batch'[b].seg].state = "RESERVED"
        /\ \A s \in Segs : s # batch'[b].seg => segTable'[s] = segTable[s]
        /\ UNCHANGED <<content, index, gc, dangling>> /\ TypeInv'
    BY <1>2, AllocateTyped
  <2>2. \A s \in Segs : segTable'[s].state = "USED" => Used(s)
    BY <2>1 DEF Used
  <2> QED
    BY <1>1, <2>1, <2>2, ClientSameIndex
<1>3. CASE WriteSeg(b)
  <2>1. /\ MayRun /\ batch[b].at = "write" /\ batch'[b].at = "update" /\ batch[b].seg \in Segs
        /\ batch'[b].seg = batch[b].seg /\ batch'[b].stamp = clock' /\ batch'[b].next = 1
        /\ \A c \in Batches : c # b => batch'[c] = batch[c]
        /\ clock' = clock + 1
        /\ \A s \in Segs : s # batch[b].seg => segTable'[s] = segTable[s]
        /\ UNCHANGED <<index, gc, dangling>> /\ TypeInv'
    BY <1>3, WriteTyped
  <2>2. \A k \in Keys : index[k] # NoEntry => index[k].stamp < batch'[b].stamp
    BY <2>1, EntryTypes, Types DEF Stamps, TypeInv
  <2>3. \A s \in Segs : segTable'[s].state = "USED" => Used(s) \/ s = batch'[b].seg
    BY <2>1 DEF Used
  <2> QED
    BY <1>1, <2>1, <2>2, <2>3, ClientSameIndex
<1>4. CASE WriteSegFails(b)
  <2>1. /\ MayRun /\ batch[b].at = "write"
        /\ \A c \in Batches : c # b => batch'[c] = batch[c]
        /\ segTable'[batch[b].seg].state = "FREE"
        /\ \A s \in Segs : s # batch[b].seg => segTable'[s] = segTable[s]
        /\ UNCHANGED <<content, index, gc, dangling>> /\ TypeInv'
    BY <1>4, WriteFailsTyped
  <2>2. \A s \in Segs : segTable'[s].state = "USED" => Used(s)
    BY <2>1 DEF Used
  <2> QED
    BY <1>1, <2>1, <2>2, ClientSameIndex
<1> QED
  BY <1>2, <1>3, <1>4

(* The reaper removes entries and moves no record.                         *)
LEMMA ReapHouse ==
  ASSUME ~Overlap, TypeInv, SegInv, HouseInv, NEW b \in Batches, Reap(b)
  PROVE  HouseInv'
<1>1. /\ MayRun /\ batch[b].at = "reap" /\ TypeInv' /\ ReapedKey(b) \in Keys
      /\ \A c \in Batches : c # b => batch'[c] = batch[c]
      /\ Charged({batch[b].seg}) \/ UNCHANGED segTable
      /\ index' = [index EXCEPT ![ReapedKey(b)] = NoEntry] \/ UNCHANGED index
      /\ UNCHANGED <<content, gc, dangling>>
  BY ReapTyped
<1>2. \A k \in Keys : index'[k] = index[k] \/ index'[k] = NoEntry
  BY <1>1, Types DEF TypeInv
<1>3. \A s \in Segs : segTable'[s].state = segTable[s].state
  BY <1>1 DEF Charged
<1>4. ASSUME NEW k \in Keys, NEW e \in Entries, index'[k] = e
      PROVE  KeyOf[e.write] = k /\ (Housed(e)' \/ Excused(e)) /\ Matched(e)'
  <2>1. index[k] = e
    BY <1>2, <1>4, GcManagerAssumption
  <2>2. /\ KeyOf[e.write] = k /\ (Housed(e) \/ Excused(e)) /\ Matched(e) /\ e.seg \in Segs
    BY <2>1, PlacedEntry DEF TypeInv
  <2>3. (Housed(e)' <=> Housed(e)) /\ (Mistaken(e)' <=> Mistaken(e))
    BY <1>1, <1>3, <2>2, SameSeg
  <2>4. \A c \in Batches : Replacing(c, e) => Replacing(c, e)'
    BY <1>1 DEF Replacing
  <2> QED
    BY <2>2, <2>3, <2>4 DEF Matched
<1> QED
  BY <1>1, <1>4, ClientHouse

(* A new entry leads to the record just written.                           *)
LEMMA BatchUpdateHouse ==
  ASSUME ~Overlap, TypeInv, SegInv, HouseInv, NEW b \in Batches, BatchUpdate(b)
  PROVE  HouseInv'
<1> DEFINE seg == batch[b].seg
           n == batch[b].next
           w == Items[b][n]
           key == KeyOf[w]
<1>1. /\ MayRun /\ UpdateIndex(ItemEntry(b)) /\ TypeInv' /\ TypeOK
      /\ batch[b].at = "update" /\ n \in DOMAIN Items[b]
      /\ batch'[b].seg = seg /\ batch'[b].stamp = batch[b].stamp
      /\ IF n = Len(Items[b])
         THEN batch'[b].at \in {"reap", "done"} /\ batch'[b].next = 1
         ELSE batch'[b].at = "update" /\ batch'[b].next = n + 1
      /\ \A c \in Batches : c # b => batch'[c] = batch[c]
      /\ UNCHANGED <<content, gc, dangling>>
  BY BatchUpdateTyped DEF TypeInv
<1>2. /\ ItemEntry(b) \in Entries /\ key \in Keys /\ ItemEntry(b).write = w
      /\ ItemEntry(b).seg = seg /\ ItemEntry(b).pos = n /\ ItemEntry(b).stamp = batch[b].stamp
  BY <1>1, ItemTyped
<1>3. /\ \A s \in Segs : segTable'[s].state = segTable[s].state
      /\ \A k \in Keys : k # key => index'[k] = index[k]
      /\ index'[key] = Kept(ItemEntry(b), index[key])
  <2> DEFINE e == ItemEntry(b)
  <2>1. e \in Entries /\ UpdateIndex(e) /\ KeyOf[e.write] = key
    BY <1>1, <1>2
  <2> HIDE DEF e, key
  <2>2. /\ \A s \in Segs : segTable'[s].state = segTable[s].state
        /\ \A k \in Keys : k # key => index'[k] = index[k]
    BY <1>1, <2>1, UpdateCases
  <2>3. index'[key] = Kept(e, index[key])
    BY <1>1, <2>1, UpdateTyped
  <2> QED
    BY <2>2, <2>3 DEF e
<1>4. Used(seg) /\ content[seg] = Items[b] /\ seg \in Segs
  BY <1>1, Types DEF SegInv, WriterSegs
<1>5. n \in Nat /\ Len(Items[b]) \in Nat /\ DOMAIN Items[b] = 1 .. Len(Items[b])
  BY <1>1, ItemsTyped
<1>6. ASSUME NEW k \in Keys, NEW e \in Entries, index'[k] = e
      PROVE  KeyOf[e.write] = k /\ (Housed(e)' \/ Excused(e)) /\ Matched(e)'
  <2>1. CASE k = key /\ e = ItemEntry(b)
    <3>1. e.write = w /\ e.seg = seg /\ e.pos = n
      BY <1>2, <2>1
    <3>2. Housed(e)
      BY <1>1, <1>4, <3>1 DEF Housed, Used
    <3>3. Housed(e)'
      BY <1>1, <1>3, <1>4, <3>1, <3>2, SameSeg
    <3> QED
      BY <2>1, <3>1, <3>3 DEF Matched, Mistaken
  <2>2. CASE k # key \/ e # ItemEntry(b)
    <3>1. index[k] = e /\ (k = key => e.stamp > batch[b].stamp)
      <4>1. CASE k # key
        BY <1>3, <1>6, <4>1
      <4>2. CASE k = key
        <5>1. e # NoEntry /\ e = Kept(ItemEntry(b), index[key]) /\ e # ItemEntry(b)
          BY <1>3, <1>6, <2>2, <4>2, GcManagerAssumption
        <5>2. e = index[key] /\ ItemEntry(b).stamp < index[key].stamp
          BY <5>1 DEF Kept
        <5>3. e.stamp \in Nat /\ batch[b].stamp \in Nat
          BY <1>1, Types DEF Entries
        <5> QED
          BY <1>2, <4>2, <5>2, <5>3
      <4> QED
        BY <4>1, <4>2
    <3>2. /\ KeyOf[e.write] = k /\ (Housed(e) \/ Excused(e)) /\ Matched(e) /\ e.seg \in Segs
          /\ e.pos \in Nat /\ e.stamp \in Nat /\ batch[b].stamp \in Nat
      BY <1>1, <3>1, PlacedEntry, Types
    <3>3. (Housed(e)' <=> Housed(e)) /\ (Mistaken(e)' <=> Mistaken(e))
      BY <1>1, <1>3, <3>2, SameSeg
    <3>4. ASSUME Mistaken(e), NEW c \in Batches, Replacing(c, e) PROVE Replacing(c, e)'
      <4>1. CASE c # b
        BY <1>1, <3>4, <4>1 DEF Replacing
      <4>2. CASE c = b
        <5>1. e.seg = seg /\ n <= e.pos /\ e.stamp < batch[b].stamp
          BY <3>4, <4>2 DEF Replacing
        <5>2. e.pos \in DOMAIN Items[b] /\ KeyOf[Items[b][e.pos]] = k
          BY <1>4, <3>2, <3>4, <5>1 DEF Mistaken
        <5>3. e.pos # n
          BY <3>1, <3>2, <5>1, <5>2
        <5>4. e.pos >= n + 1 /\ n # Len(Items[b])
          BY <1>5, <3>2, <5>1, <5>2, <5>3
        <5> QED
          BY <1>1, <4>2, <5>1, <5>4 DEF Replacing
      <4> QED
        BY <4>1, <4>2
    <3> QED
      BY <3>2, <3>3, <3>4 DEF Matched
  <2> QED
    BY <2>1, <2>2
<1> QED
  BY <1>1, <1>6, ClientHouse

(* Readers change nothing.                                                 *)
LEMMA ReaderHouse ==
  ASSUME ~Overlap, TypeInv, SegInv, HouseInv, NEW c \in Readers, Find(c) \/ ReadData(c)
  PROVE  HouseInv'
<1>1. /\ MayRun /\ TypeInv'
      /\ UNCHANGED <<segVars, content, index, clock, batch, gc, merges, before, dangling>>
  BY ReaderTyped
<1>2. UNCHANGED <<gc, dangling, index>> /\ UNCHANGED <<segTable, content, batch>>
  BY <1>1 DEF segVars
<1> QED
  BY <1>1, <1>2, ClientSameIndex DEF Used

(* Steps of the merge.  No batch is about to correct an entry then.        *)
LEMMA NotMistaken ==
  ASSUME SegInv, gc.at # "idle", NEW e, Matched(e)
  PROVE  ~Mistaken(e)
BY MergeAlone DEF Matched, Replacing

(* What to show of a merge's step that leaves the index alone.             *)
LEMMA MergeHouse ==
  ASSUME TypeInv, SegInv, HouseInv, UNCHANGED index,
         \A k \in Keys, e \in Entries : index[k] = e =>
           (Housed(e)' \/ Excused(e)') /\ Carried(e)' /\ ~Mistaken(e)',
         Current'
  PROVE  HouseInv'
<1>1. ASSUME NEW k \in Keys PROVE Placed(k)'
  <2> SUFFICES ASSUME index'[k] # NoEntry PROVE Placed(k)'
    BY DEF Placed
  <2>1. PICK e \in Entries : index'[k] = e /\ index[k] = e
    BY DEF TypeInv, TypeOK, MaybeEntries
  <2>2. KeyOf[e.write] = k /\ (Housed(e) \/ Excused(e))' /\ Carried(e)' /\ Matched(e)'
    BY <2>1, PlacedEntry DEF Matched, TypeInv
  <2> QED
    BY <2>1, <2>2 DEF Placed
<1> QED
  BY <1>1 DEF HouseInv

(* The lists of the merge stand for the same writes.                       *)
LEMMA SameCurrent ==
  ASSUME HouseInv, UNCHANGED index,
         \A w \in Writes : Among(w, gc.first)' \/ Among(w, gc.list)' =>
                             Among(w, gc.first) \/ Among(w, gc.list)
  PROVE  Current'
BY DEF HouseInv, Current, CurrentWrite

(* With no merge under way every entry is carried.                         *)
LEMMA NoMergeCarried ==
  ASSUME gc' = NoMerge
  PROVE  Current' /\ \A e \in Entries : Carried(e)'
<1> DEFINE r == gc'.frees
           f == gc'.first
           l == gc'.list
<1>1. gc'.at = "idle" /\ r = <<>> /\ f = <<>> /\ l = <<>> /\ gc'.last = {}
  BY IdleTyped
<1>2. DOMAIN r = {} /\ DOMAIN f = {} /\ DOMAIN l = {}
  BY <1>1
<1>3. Current'
  BY <1>2 DEF Current, Among
<1>4. \A e \in Entries : Carried(e)'
  BY <1>1, <1>2 DEF Carried
<1> QED
  BY <1>3, <1>4

(* A merge begins with nothing noted.                                      *)
LEMMA SortHouse ==
  ASSUME ~Overlap, TypeInv, SegInv, HouseInv, GcSort
  PROVE  HouseInv'
<1>1. /\ MayMerge /\ gc'.at = "load" /\ gc'.pos = 1 /\ gc'.list = <<>> /\ gc'.first = <<>>
      /\ gc'.frees = <<>> /\ gc'.last = {}
      /\ UNCHANGED <<segVars, content, index, dangling>>
  BY SortTyped
<1>2. UNCHANGED <<segTable, content, index, dangling>> /\ AtRest
  BY <1>1 DEF MayMerge, segVars
<1> DEFINE r == gc'.frees
           f == gc'.first
           l == gc'.list
<1>3. DOMAIN r = {} /\ DOMAIN f = {} /\ DOMAIN l = {}
  BY <1>1
<1>4. Current'
  BY <1>3 DEF Current, Among
<1>5. ASSUME NEW k \in Keys, NEW e \in Entries, index[k] = e
      PROVE  (Housed(e)' \/ Excused(e)') /\ Carried(e)' /\ ~Mistaken(e)'
  <2>1. (Housed(e) \/ Excused(e)) /\ Matched(e) /\ e.pos \in Nat \ {0}
    BY <1>5, PlacedEntry DEF TypeInv
  <2>2. (Housed(e)' <=> Housed(e)) /\ (Mistaken(e)' <=> Mistaken(e)) /\ (Excused(e)' <=> Excused(e))
    BY <1>2, SameSeg DEF Excused
  <2>3. ~Mistaken(e)
    BY <1>2, <2>1 DEF Matched, Replacing, AtRest
  <2>4. Carried(e)'
    <3>1. ~(e.pos < gc'.pos)
      BY <1>1, <2>1
    <3> QED
      BY <1>1, <1>3, <3>1 DEF Carried
  <2> QED
    BY <2>1, <2>2, <2>3, <2>4
<1> QED
  BY <1>2, <1>4, <1>5, MergeHouse

(* A record left behind is not in the index, or a tombstone.               *)
LEMMA LoadHouse ==
  ASSUME TypeInv, SegInv, HouseInv, GcLoadEntry
  PROVE  HouseInv'
<1>1. /\ gc.at = "load" /\ gc'.at = "load" /\ Head(gc.cands) = gc.cands[1] /\ gc.cands[1] \in Segs
      /\ gc.pos \in DOMAIN content[gc.cands[1]] /\ Looked \in Writes
      /\ gc'.pos = gc.pos + 1
      /\ gc'.list = IF Same /\ Looked \notin Deletes THEN Append(gc.list, Looked) ELSE gc.list
      /\ UNCHANGED <<gc.cands, gc.first, gc.frees, gc.last>>
      /\ dangling' = (dangling \/ (Same /\ Looked \in Deletes))
      /\ UNCHANGED <<segVars, content, index>> /\ TypeOK
  BY LoadTyped DEF TypeInv
<1>2. UNCHANGED segTable /\ gc.pos \in Nat /\ gc.list \in Seq(Writes)
  BY <1>1, Types DEF segVars
<1> DEFINE s == gc.cands[1]
           w == Looked
           l == gc.list
           ll == gc'.list
<1>3. Used(s) /\ w = content[s][gc.pos] /\ KeyOf[w] \in Keys
  <2>1. 1 \in DOMAIN gc.cands
    <3>1. gc.cands \in Seq(Segs) /\ gc.cands # <<>>
      BY <1>1, Types, LoadTyped
    <3> QED
      BY <3>1, TailList
  <2> QED
    BY <1>1, <2>1, GcManagerAssumption DEF SegInv, MergeSegs, Looked
<1>4. /\ \A x \in Writes : Among(x, l) => Among(x, ll)
      /\ \A x \in Writes : Among(x, ll) => Among(x, l) \/ (x = w /\ Same /\ w \notin Deletes)
      /\ Same /\ w \notin Deletes => Among(w, ll)
  <2>1. CASE Same /\ w \notin Deletes
    <3>1. ll = Append(l, w)
      BY <1>1, <2>1
    <3>2. l \in Seq(Writes) /\ w \in Writes
      BY <1>1, <1>2
    <3> HIDE DEF l, ll, w
    <3>3. /\ Len(l) \in Nat /\ DOMAIN ll = 1 .. Len(l) + 1
          /\ \A i \in DOMAIN l : i \in DOMAIN ll /\ ll[i] = l[i]
          /\ \A i \in DOMAIN ll : (i \in DOMAIN l /\ ll[i] = l[i]) \/ (i = Len(l) + 1 /\ ll[i] = w)
          /\ Len(l) + 1 \in DOMAIN ll /\ ll[Len(l) + 1] = w
      BY <3>1, <3>2, AppendList
    <3> QED
      BY <2>1, <3>3 DEF Among
  <2>2. CASE ~(Same /\ w \notin Deletes)
    BY <1>1, <2>2
  <2> QED
    BY <2>1, <2>2
<1>5. ASSUME Same, w \notin Deletes PROVE CurrentWrite(w)
  <2>1. /\ index[KeyOf[w]] # NoEntry /\ index[KeyOf[w]].seg = s /\ index[KeyOf[w]].pos = gc.pos
    BY <1>1, <1>5 DEF Same, IsSameInMem
  <2>2. PICK e \in Entries : index[KeyOf[w]] = e
    BY <1>1, <1>3, <2>1, EntryTypes
  <2>3. KeyOf[e.write] = KeyOf[w] /\ Matched(e)
    BY <1>1, <1>3, <2>2, PlacedEntry
  <2>4. ~Mistaken(e)
    BY <1>1, <2>3, NotMistaken
  <2>5. Housed(e)
    BY <1>1, <1>3, <2>1, <2>2, <2>3, <2>4 DEF Mistaken
  <2>6. e.write = w
    BY <1>3, <2>1, <2>2, <2>5 DEF Housed
  <2> QED
    BY <1>5, <2>1, <2>2, <2>6 DEF CurrentWrite
<1>6. Current'
  <2>1. ASSUME NEW x \in Writes, Among(x, gc.first)' \/ Among(x, gc.list)' PROVE CurrentWrite(x)
    <3>1. Among(x, gc.first) \/ Among(x, gc.list) \/ (x = w /\ Same /\ w \notin Deletes)
      BY <1>1, <1>4, <2>1 DEF Among
    <3> QED
      BY <1>5, <3>1 DEF HouseInv, Current
  <2> QED
    BY <1>1, <2>1 DEF Current, CurrentWrite
<1>7. ASSUME NEW k \in Keys, NEW e \in Entries, index[k] = e
      PROVE  (Housed(e)' \/ Excused(e)') /\ Carried(e)' /\ ~Mistaken(e)'
  <2>1. /\ (Housed(e) \/ Excused(e)) /\ Matched(e) /\ Carried(e) /\ e.pos \in Nat \ {0}
        /\ KeyOf[e.write] = k /\ e.write \in Writes /\ index[k] # NoEntry
    BY <1>1, <1>7, PlacedEntry, GcManagerAssumption
  <2>2. (Housed(e)' <=> Housed(e)) /\ (Mistaken(e)' <=> Mistaken(e)) /\ (Excused(e) => Excused(e)')
    BY <1>1, <1>2, SameSeg DEF Excused
  <2>3. ~Mistaken(e)
    BY <1>1, <2>1, NotMistaken
  <2>4. CASE Excused(e)
    BY <2>2, <2>3, <2>4 DEF Carried
  <2>5. CASE ~Excused(e)
    <3>1. Housed(e)
      BY <2>1, <2>5
    <3>2. /\ \A i \in DOMAIN gc.frees : e.seg = gc.frees[i] => Among(e.write, gc.first)
          /\ e.seg \in gc.last => Among(e.write, gc.first) \/ Among(e.write, l)
          /\ e.seg = s /\ e.pos < gc.pos => Among(e.write, l)
      BY <1>1, <2>1, <2>5 DEF Carried, FirstTodo, ListTodo
    <3>3. e.seg = s /\ e.pos = gc.pos => Among(e.write, ll) \/ (dangling' /\ e.write \in Deletes)
      <4> SUFFICES ASSUME e.seg = s, e.pos = gc.pos
                   PROVE  Among(e.write, ll) \/ (dangling' /\ e.write \in Deletes)
        OBVIOUS
      <4>1. w = e.write
        BY <1>3, <3>1 DEF Housed
      <4>2. Same
        BY <1>1, <1>7, <2>1, <4>1 DEF Same, IsSameInMem
      <4> QED
        BY <1>1, <1>4, <4>1, <4>2
    <3>4. e.seg = s /\ e.pos < gc.pos + 1 => Among(e.write, ll) \/ (dangling' /\ e.write \in Deletes)
      <4>1. e.pos < gc.pos + 1 => e.pos < gc.pos \/ e.pos = gc.pos
        BY <1>2, <2>1
      <4> QED
        BY <1>4, <2>1, <3>2, <3>3, <4>1
    <3>5. CASE dangling' /\ e.write \in Deletes
      BY <2>2, <2>3, <3>1, <3>5 DEF Carried, Excused
    <3>6. CASE ~(dangling' /\ e.write \in Deletes)
      <4>1. /\ \A i \in DOMAIN gc'.frees : e.seg = gc'.frees[i] => Among(e.write, gc'.first)
            /\ e.seg \in gc'.last => Among(e.write, gc'.first) \/ Among(e.write, ll)
            /\ e.seg = gc'.cands[1] /\ e.pos < gc'.pos => Among(e.write, ll)
        BY <1>1, <1>4, <2>1, <3>2, <3>4, <3>6
      <4>2. Carried(e)'
        BY <1>1, <4>1 DEF Carried, FirstTodo, ListTodo, Among
      <4> QED
        BY <2>2, <2>3, <3>1, <4>2
    <3> QED
      BY <3>5, <3>6
  <2> QED
    BY <2>4, <2>5
<1> QED
  BY <1>1, <1>6, <1>7, MergeHouse

(* Every record of a source to be freed is among the copies to come.       *)
LEMMA PackHouse ==
  ASSUME TypeInv, SegInv, HouseInv, GcPack
  PROVE  HouseInv'
<1> DEFINE s == gc.cands[1]
           r == gc.frees
           rr == gc'.frees
<1>1. /\ gc.at = "load" /\ gc'.at \in {"load", "alloc1"} /\ gc.cands # <<>>
      /\ s \in Segs /\ gc.pos \notin DOMAIN content[s]
      /\ rr = IF Whole THEN Append(r, s) ELSE r
      /\ gc'.last = IF Whole THEN {} ELSE {s}
      /\ gc'.pos = 1 /\ (Whole => gc'.list = <<>>)
      /\ \A w : /\ Among(w, gc.first) => Among(w, gc'.first)
                /\ Among(w, gc.list) => Among(w, gc'.first) \/ Among(w, gc'.list)
                /\ Among(w, gc'.first) => Among(w, gc.first) \/ Among(w, gc.list)
                /\ Among(w, gc'.list) => Among(w, gc.list)
      /\ UNCHANGED <<segVars, content, index, dangling>>
  BY PackTyped
<1>2. /\ UNCHANGED segTable /\ TypeOK /\ r \in Seq(Segs) /\ gc.pos \in Nat \ {0}
      /\ content[s] \in Seq(Writes)
  BY <1>1, Types DEF TypeInv, segVars
<1> HIDE DEF r, rr, s
<1>3. Current'
  BY <1>1, SameCurrent DEF Among
<1>4. Whole => ~\E w : Among(w, gc'.list)
  <2> DEFINE l == gc'.list
  <2>1. Whole => l = <<>>
    BY <1>1
  <2> HIDE DEF l
  <2>2. Whole => DOMAIN l = {}
    BY <2>1
  <2> QED
    BY <2>2 DEF Among, l
<1>5. ASSUME NEW k \in Keys, NEW e \in Entries, index[k] = e
      PROVE  (Housed(e)' \/ Excused(e)') /\ Carried(e)' /\ ~Mistaken(e)'
  <2>1. /\ (Housed(e) \/ Excused(e)) /\ Matched(e) /\ Carried(e) /\ e.pos \in Nat \ {0}
    BY <1>2, <1>5, PlacedEntry
  <2>2. (Housed(e)' <=> Housed(e)) /\ (Mistaken(e)' <=> Mistaken(e)) /\ (Excused(e) <=> Excused(e)')
    BY <1>1, <1>2, SameSeg DEF Excused
  <2>3. ~Mistaken(e)
    BY <1>1, <2>1, NotMistaken
  <2>4. CASE Excused(e)
    BY <2>2, <2>3, <2>4 DEF Carried
  <2>5. CASE ~Excused(e)
    <3>1. Housed(e)
      BY <2>1, <2>5
    <3>2. /\ \A i \in DOMAIN r : e.seg = r[i] => Among(e.write, gc.first)
          /\ e.seg = s /\ e.pos < gc.pos => Among(e.write, gc.list)
      BY <1>1, <2>1, <2>5 DEF Carried, FirstTodo, ListTodo, r, s
    <3>3. e.seg = s => e.pos < gc.pos
      <4>1. e.seg = s => e.pos \in DOMAIN content[s]
        BY <3>1 DEF Housed
      <4> QED
        BY <1>1, <1>2, <2>1, <4>1
    <3>4. e.seg = s => Among(e.write, gc'.first) \/ Among(e.write, gc'.list)
      BY <1>1, <3>2, <3>3
    <3>5. \A i \in DOMAIN rr : e.seg = rr[i] => Among(e.write, gc'.first)
      <4>1. CASE Whole
        <5>1. \A i \in DOMAIN rr : (i \in DOMAIN r /\ rr[i] = r[i]) \/ rr[i] = s
          BY <1>1, <1>2, <4>1, AppendList
        <5> QED
          BY <1>1, <1>4, <3>2, <3>4, <4>1, <5>1
      <4>2. CASE ~Whole
        BY <1>1, <3>2, <4>2
      <4> QED
        BY <4>1, <4>2
    <3>6. e.seg \in gc'.last => Among(e.write, gc'.first) \/ Among(e.write, gc'.list)
      BY <1>1, <3>4
    <3>7. ~(e.pos < gc'.pos)
      BY <1>1, <2>1
    <3>8. Carried(e)'
      BY <1>1, <3>5, <3>6, <3>7 DEF Carried, FirstTodo, ListTodo, Among, rr
    <3> QED
      BY <2>2, <2>3, <3>1, <3>8
  <2> QED
    BY <2>4, <2>5
<1> QED
  BY <1>1, <1>3, <1>5, MergeHouse

(* Taking a segment for the copies moves no record.                        *)
LEMMA AllocHouse ==
  ASSUME TypeInv, SegInv, HouseInv, GcAlloc("alloc1", "write1") \/ GcAlloc("alloc2", "write2")
  PROVE  HouseInv'
<1> DEFINE s == gc'.seg
<1>1. /\ \/ gc.at = "alloc1" /\ gc'.at = "write1"
         \/ gc.at = "alloc2" /\ gc'.at = "write2"
      /\ s \in Segs /\ segTable[s].state = "FREE" /\ segTable'[s].state = "RESERVED"
      /\ \A t \in Segs : t # s => segTable'[t] = segTable[t]
      /\ UNCHANGED <<gc.list, gc.first, gc.frees, gc.last>>
      /\ UNCHANGED <<content, index, dangling>> /\ TypeOK
  BY AllocTyped DEF TypeInv
<1> HIDE DEF s
<1>2. Current'
  BY <1>1, SameCurrent DEF Among
<1>3. ASSUME NEW k \in Keys, NEW e \in Entries, index[k] = e
      PROVE  (Housed(e)' \/ Excused(e)') /\ Carried(e)' /\ ~Mistaken(e)'
  <2>1. /\ (Housed(e) \/ Excused(e)) /\ Matched(e) /\ Carried(e) /\ e.seg \in Segs
    BY <1>1, <1>3, PlacedEntry
  <2>2. Excused(e) <=> Excused(e)'
    BY <1>1 DEF Excused
  <2>3. ~Mistaken(e)
    BY <1>1, <2>1, NotMistaken
  <2>4. (Housed(e) => Housed(e)') /\ ~Mistaken(e)'
    <3>1. CASE e.seg = s
      BY <1>1, <3>1 DEF Housed, Mistaken, Used
    <3>2. CASE e.seg # s
      BY <1>1, <2>1, <2>3, <3>2, SameSeg
    <3> QED
      BY <3>1, <3>2
  <2>5. Carried(e)'
    BY <1>1, <2>1, <2>2 DEF Carried, FirstTodo, ListTodo, Among
  <2> QED
    BY <2>1, <2>2, <2>4, <2>5
<1> QED
  BY <1>1, <1>2, <1>3, MergeHouse DEF TypeInv

(* Writing the copies overwrites no record that is in the index.           *)
LEMMA CopyHouse ==
  ASSUME TypeInv, SegInv, HouseInv,
         GcWrite("write1", gc.first, "update1") \/ GcWrite("write2", gc.list, "update2")
  PROVE  HouseInv'
<1> DEFINE s == gc.seg
<1>1. /\ \/ gc.at = "write1" /\ gc'.at = "update1"
         \/ gc.at = "write2" /\ gc'.at = "update2"
      /\ s \in Segs /\ gc'.pos = 1 /\ content'[s] = Copies
      /\ \A t \in Segs : t # s => content'[t] = content[t]
      /\ segTable'[s].state = "USED"
      /\ \A t \in Segs : t # s => segTable'[t] = segTable[t]
      /\ UNCHANGED <<gc.list, gc.first, gc.frees, gc.last, gc.seg>>
      /\ UNCHANGED <<index, dangling>> /\ TypeOK
  BY CopyTyped DEF TypeInv
<1>2. /\ segTable[s].state = "RESERVED" /\ Copies \in Seq(Writes)
      /\ gc.first \in Seq(Writes) /\ gc.list \in Seq(Writes)
      /\ DOMAIN gc.first \subseteq Nat \ {0} /\ DOMAIN gc.list \subseteq Nat \ {0}
  <2>1. gc.first \in Seq(Writes) /\ gc.list \in Seq(Writes)
    BY <1>1, Types
  <2> QED
    BY <1>1, <2>1 DEF SegInv, CopySeg, Copies
<1> HIDE DEF s
<1>3. Current'
  BY <1>1, SameCurrent DEF Among
<1>4. \A w : /\ FirstTodo(w) => FirstTodo(w)'
             /\ ListTodo(w) => ListTodo(w)'
  <2> SUFFICES ASSUME NEW w PROVE (FirstTodo(w) => FirstTodo(w)') /\ (ListTodo(w) => ListTodo(w)')
    OBVIOUS
  <2>1. \A q : (\A n \in DOMAIN q : n \in Nat \ {0}) /\ Among(w, q) =>
                 \E n \in DOMAIN q : n >= 1 /\ q[n] = w
    BY DEF Among
  <2>2. Among(w, gc.first) => \E n \in DOMAIN gc.first : n >= 1 /\ gc.first[n] = w
    BY <1>2, <2>1
  <2>3. Among(w, gc.list) => \E n \in DOMAIN gc.list : n >= 1 /\ gc.list[n] = w
    BY <1>2, <2>1
  <2> QED
    BY <1>1, <2>2, <2>3 DEF FirstTodo, ListTodo, Among
<1>5. ASSUME NEW k \in Keys, NEW e \in Entries, index[k] = e
      PROVE  (Housed(e)' \/ Excused(e)') /\ Carried(e)' /\ ~Mistaken(e)'
  <2>1. /\ (Housed(e) \/ Excused(e)) /\ Matched(e) /\ Carried(e) /\ e.seg \in Segs
        /\ KeyOf[e.write] = k
    BY <1>1, <1>5, PlacedEntry
  <2>2. Excused(e) <=> Excused(e)'
    BY <1>1 DEF Excused
  <2>3. ~Mistaken(e)
    BY <1>1, <2>1, NotMistaken
  <2>4. (Housed(e) => Housed(e)') /\ ~Mistaken(e)'
    <3>1. CASE e.seg = s
      <4>1. ~Housed(e)
        BY <1>2, <3>1 DEF Housed
      <4>2. ASSUME Mistaken(e)' PROVE FALSE
        <5>1. e.pos \in DOMAIN Copies /\ KeyOf[Copies[e.pos]] = k
          BY <1>1, <2>1, <3>1, <4>2 DEF Mistaken
        <5>2. Copies[e.pos] \in Writes
          BY <1>2, <5>1, ElementOfSeq
        <5>3. CurrentWrite(Copies[e.pos])
          BY <5>1, <5>2 DEF HouseInv, Current, Copies, Among
        <5>4. e.write = Copies[e.pos]
          BY <1>5, <5>1, <5>3 DEF CurrentWrite
        <5> QED
          BY <1>1, <3>1, <4>2, <5>1, <5>4 DEF Mistaken, Housed
      <4> QED
        BY <4>1, <4>2
    <3>2. CASE e.seg # s
      BY <1>1, <2>1, <2>3, <3>2, SameSeg
    <3> QED
      BY <3>1, <3>2
  <2>5. Carried(e)'
    <3>1. CASE Excused(e)
      BY <2>2, <3>1 DEF Carried
    <3>2. CASE ~Excused(e)
      <4>1. /\ \A i \in DOMAIN gc.frees : e.seg = gc.frees[i] => FirstTodo(e.write)
            /\ e.seg \in gc.last => FirstTodo(e.write) \/ ListTodo(e.write)
        BY <2>1, <3>2 DEF Carried
      <4>2. /\ \A i \in DOMAIN gc'.frees : e.seg = gc'.frees[i] => FirstTodo(e.write)'
            /\ e.seg \in gc'.last => FirstTodo(e.write)' \/ ListTodo(e.write)'
        BY <1>1, <1>4, <4>1
      <4> QED
        BY <1>1, <4>2 DEF Carried
    <3> QED
      BY <3>1, <3>2
  <2> QED
    BY <2>1, <2>2, <2>4, <2>5
<1> QED
  BY <1>1, <1>3, <1>5, MergeHouse DEF TypeInv

(* The index takes the copy, whose stamp nobody is ahead of.               *)
LEMMA CopyTaken ==
  ASSUME TypeInv, HouseInv, Stamps,
         GcUpdate("update1", gc.first) \/ GcUpdate("update2", gc.list)
  PROVE  /\ KeyOf[NextCopy.write] \in Keys /\ CurrentWrite(NextCopy.write)
         /\ index[KeyOf[NextCopy.write]] # NoEntry
         /\ index[KeyOf[NextCopy.write]].write = NextCopy.write
         /\ ~(NextCopy.stamp < index[KeyOf[NextCopy.write]].stamp)
         /\ index'[KeyOf[NextCopy.write]] = NextCopy
         /\ \A k \in Keys : k # KeyOf[NextCopy.write] => index'[k] = index[k]
         /\ Charged({index[KeyOf[NextCopy.write]].seg})
<1> DEFINE c == NextCopy
           k == KeyOf[c.write]
<1>1. /\ UpdateIndex(c) /\ c \in Entries /\ gc.at \in {"update1", "update2"}
      /\ gc.pos \in DOMAIN Copies /\ c.write = Copies[gc.pos] /\ c.stamp = gc.stamp
  BY CopyUpdateTyped
<1>2. TypeOK /\ c.write \in Writes /\ k \in Keys
  BY <1>1, UpdateTyped DEF TypeInv
<1>3. CurrentWrite(c.write)
  BY <1>1, <1>2 DEF HouseInv, Current, Copies, Among
<1>4. index[k] # NoEntry /\ index[k].write = c.write /\ c.stamp = clock /\ index[k].stamp <= clock
  BY <1>1, <1>2, <1>3 DEF CurrentWrite, Stamps
<1>5. ~(c.stamp < index[k].stamp)
  BY <1>2, <1>4, EntryTypes, Types
<1> HIDE DEF c
<1>6. Kept(c, index[k]) = c /\ DeadSeg(c, index[k]) = {index[k].seg}
  BY <1>4, <1>5 DEF Kept, DeadSeg
<1>7. /\ index'[k] = Kept(c, index[k])
      /\ \A h \in Keys : h # k => index'[h] = index[h]
      /\ Charged(DeadSeg(c, index[k]))
  BY <1>1, <1>2, UpdateTyped
<1> QED
  BY <1>2, <1>3, <1>4, <1>5, <1>6, <1>7 DEF c

(* The index takes every copy, and the copy is where the entry says.       *)
LEMMA CopyUpdateHouse ==
  ASSUME TypeInv, SegInv, HouseInv, Stamps,
         GcUpdate("update1", gc.first) \/ GcUpdate("update2", gc.list)
  PROVE  HouseInv'
<1>0. PICK c \in Entries : c = NextCopy
  BY CopyUpdateTyped
<1> DEFINE w == c.write
           key == KeyOf[w]
<1>1. /\ TypeInv' /\ TypeOK /\ c \in Entries /\ gc.at \in {"update1", "update2"}
      /\ gc.pos \in DOMAIN Copies /\ w = Copies[gc.pos] /\ c.seg = gc.seg /\ c.pos = gc.pos
      /\ gc.seg \in Segs /\ gc'.pos = gc.pos + 1
      /\ UNCHANGED <<gc.at, gc.cands, gc.list, gc.first, gc.frees, gc.last, gc.seg>>
      /\ UNCHANGED <<content, dangling>>
  BY <1>0, CopyUpdateTyped DEF TypeInv
<1>2. /\ key \in Keys /\ index[key].write = w /\ index'[key] = c /\ w \notin Deletes
      /\ \A k \in Keys : k # key => index'[k] = index[k]
      /\ \A s \in Segs : segTable'[s].state = segTable[s].state
  BY <1>0, CopyTaken DEF Charged, CurrentWrite
<1>3. /\ Used(gc.seg) /\ content[gc.seg] = Copies
      /\ gc.seg \notin gc.last /\ \A i \in DOMAIN gc.frees : gc.frees[i] # gc.seg
  BY <1>1 DEF SegInv, CopySeg
<1>4. Housed(c)'
  BY <1>1, <1>2, <1>3 DEF Housed, Used
<1>5. Carried(c)'
  BY <1>1, <1>3 DEF Carried
<1>6. Placed(key)'
  BY <1>2, <1>4, <1>5 DEF Placed, Matched, Mistaken
<1>7. gc.pos \in Nat /\ gc.first \in Seq(Writes) /\ gc.list \in Seq(Writes)
  BY <1>1, Types
<1>8. ASSUME NEW k \in Keys, k # key PROVE Placed(k)'
  <2> SUFFICES ASSUME index'[k] # NoEntry PROVE Placed(k)'
    BY DEF Placed
  <2>1. PICK e \in Entries : index'[k] = e /\ index[k] = e
    BY <1>1, <1>2, <1>8 DEF TypeInv, TypeOK, MaybeEntries
  <2>2. /\ KeyOf[e.write] = k /\ (Housed(e) \/ Excused(e)) /\ Matched(e) /\ Carried(e)
        /\ e.seg \in Segs
    BY <1>1, <2>1, PlacedEntry
  <2>3. (Housed(e)' <=> Housed(e)) /\ (Mistaken(e)' <=> Mistaken(e)) /\ (Excused(e) <=> Excused(e)')
    BY <1>1, <1>2, <2>2, SameSeg DEF Excused
  <2>4. ~Mistaken(e)
    BY <1>1, <2>2, NotMistaken
  <2>5. Matched(e)'
    BY <2>3, <2>4 DEF Matched
  <2>6. e.write # w
    BY <1>8, <2>2
  <2>7. (FirstTodo(e.write) => FirstTodo(e.write)') /\ (ListTodo(e.write) => ListTodo(e.write)')
    <3>1. ASSUME gc.at = "update1", NEW n \in DOMAIN gc.first, n >= gc.pos, gc.first[n] = e.write
          PROVE  n >= gc.pos + 1
      <4>1. n # gc.pos /\ n \in Nat
        BY <1>1, <1>7, <2>6, <3>1 DEF Copies
      <4> QED
        BY <1>7, <3>1, <4>1
    <3>2. ASSUME gc.at = "update2", NEW n \in DOMAIN gc.list, n >= gc.pos, gc.list[n] = e.write
          PROVE  n >= gc.pos + 1
      <4>1. n # gc.pos /\ n \in Nat
        BY <1>1, <1>7, <2>6, <3>2 DEF Copies
      <4> QED
        BY <1>7, <3>2, <4>1
    <3> QED
      BY <1>1, <3>1, <3>2 DEF FirstTodo, ListTodo, Among
  <2>8. Carried(e)'
    <3>1. CASE Excused(e)
      BY <2>3, <3>1 DEF Carried
    <3>2. CASE ~Excused(e)
      <4>1. /\ \A i \in DOMAIN gc.frees : e.seg = gc.frees[i] => FirstTodo(e.write)
            /\ e.seg \in gc.last => FirstTodo(e.write) \/ ListTodo(e.write)
        BY <2>2, <3>2 DEF Carried
      <4>2. /\ \A i \in DOMAIN gc'.frees : e.seg = gc'.frees[i] => FirstTodo(e.write)'
            /\ e.seg \in gc'.last => FirstTodo(e.write)' \/ ListTodo(e.write)'
        BY <1>1, <2>7, <4>1
      <4> QED
        BY <1>1, <4>2 DEF Carried
    <3> QED
      BY <3>1, <3>2
  <2>9. KeyOf[e.write] = k /\ (Housed(e) \/ Excused(e))' /\ Carried(e)' /\ Matched(e)'
    BY <2>2, <2>3, <2>5, <2>8
  <2> QED
    BY <2>1, <2>9 DEF Placed
<1>9. Current'
  <2>1. ASSUME NEW x \in Writes, Among(x, gc.first)' \/ Among(x, gc.list)'
        PROVE  x \notin Deletes /\ index'[KeyOf[x]] # NoEntry /\ index'[KeyOf[x]].write = x
    <3>1. CurrentWrite(x) /\ KeyOf[x] \in Keys
      BY <1>1, <2>1, GcManagerAssumption DEF HouseInv, Current, Among
    <3>2. CASE KeyOf[x] = key
      BY <1>1, <1>2, <3>1, <3>2, GcManagerAssumption DEF CurrentWrite
    <3>3. CASE KeyOf[x] # key
      BY <1>2, <3>1, <3>3 DEF CurrentWrite
    <3> QED
      BY <3>2, <3>3
  <2> QED
    BY <2>1 DEF Current, CurrentWrite
<1> QED
  BY <1>6, <1>8, <1>9 DEF HouseInv

(* After the updates the index has all copies.                             *)
LEMMA OnwardHouse ==
  ASSUME TypeInv, SegInv, HouseInv,
         \/ GcUpdated("update1", gc.first, "free1") \/ GcUpdated("update2", gc.list, "free2")
         \/ GcFirstDone /\ gc.last # {}
  PROVE  HouseInv'
<1>1. /\ \/ gc.at = "update1" /\ gc'.at = "free1" /\ gc.pos \notin DOMAIN Copies
         \/ gc.at = "update2" /\ gc'.at = "free2" /\ gc.pos \notin DOMAIN Copies
         \/ gc.at = "free1" /\ gc'.at = "alloc2"
      /\ UNCHANGED <<gc.pos, gc.list, gc.first, gc.frees, gc.last>>
      /\ UNCHANGED <<segVars, content, index, dangling>> /\ TypeOK
  BY OnwardTyped DEF TypeInv
<1>2. /\ UNCHANGED segTable /\ gc.pos \in Nat \ {0}
      /\ gc.first \in Seq(Writes) /\ gc.list \in Seq(Writes)
  BY <1>1, Types DEF segVars
<1>3. Current'
  BY <1>1, SameCurrent DEF Among
<1>4. /\ gc.at = "update1" => \A n \in DOMAIN gc.first : ~(n >= gc.pos)
      /\ gc.at = "update2" => \A n \in DOMAIN gc.list : ~(n >= gc.pos)
  BY <1>1, <1>2 DEF Copies
<1>5. \A w : (FirstTodo(w) => FirstTodo(w)') /\ (ListTodo(w) => ListTodo(w)')
  BY <1>1, <1>4 DEF FirstTodo, ListTodo, Among
<1>6. ASSUME NEW k \in Keys, NEW e \in Entries, index[k] = e
      PROVE  (Housed(e)' \/ Excused(e)') /\ Carried(e)' /\ ~Mistaken(e)'
  <2>1. /\ (Housed(e) \/ Excused(e)) /\ Matched(e) /\ Carried(e) /\ e.seg \in Segs
    BY <1>1, <1>6, PlacedEntry
  <2>2. (Housed(e)' <=> Housed(e)) /\ (Mistaken(e)' <=> Mistaken(e)) /\ (Excused(e) <=> Excused(e)')
    BY <1>1, <1>2, SameSeg DEF Excused
  <2>3. ~Mistaken(e)
    BY <1>1, <2>1, NotMistaken
  <2>4. Carried(e)'
    <3>1. CASE Excused(e)
      BY <2>2, <3>1 DEF Carried
    <3>2. CASE ~Excused(e)
      <4>1. /\ \A i \in DOMAIN gc.frees : e.seg = gc.frees[i] => FirstTodo(e.write)
            /\ e.seg \in gc.last => FirstTodo(e.write) \/ ListTodo(e.write)
        BY <2>1, <3>2 DEF Carried
      <4>2. /\ \A i \in DOMAIN gc'.frees : e.seg = gc'.frees[i] => FirstTodo(e.write)'
            /\ e.seg \in gc'.last => FirstTodo(e.write)' \/ ListTodo(e.write)'
        BY <1>1, <1>5, <4>1
      <4> QED
        BY <1>1, <4>2 DEF Carried
    <3> QED
      BY <3>1, <3>2
  <2> QED
    BY <2>1, <2>2, <2>3, <2>4
<1> QED
  BY <1>1, <1>3, <1>6, MergeHouse

(* Nothing needed is freed.                                                *)
LEMMA FreeSourceHouse ==
  ASSUME TypeInv, SegInv, HouseInv, GcFree
  PROVE  HouseInv'
<1> DEFINE r == gc.frees
           rt == Tail(r)
<1>1. /\ gc.at = "free1" /\ r # <<>> /\ r[1] \in Segs /\ gc'.frees = rt /\ r \in Seq(Segs)
      /\ segTable'[r[1]].state = "FREE"
      /\ \A t \in Segs : t # r[1] => segTable'[t] = segTable[t]
      /\ UNCHANGED <<gc.at, gc.list, gc.first, gc.last>>
      /\ UNCHANGED <<content, index, dangling>> /\ TypeOK
  BY FreeSourceTyped DEF TypeInv
<1>2. 1 \in DOMAIN r /\ \A i \in DOMAIN rt : i + 1 \in DOMAIN r /\ rt[i] = r[i + 1]
  BY <1>1, TailList
<1> HIDE DEF r, rt
<1>3. Current'
  BY <1>1, SameCurrent DEF Among
<1>4. ASSUME NEW k \in Keys, NEW e \in Entries, index[k] = e
      PROVE  (Housed(e)' \/ Excused(e)') /\ Carried(e)' /\ ~Mistaken(e)'
  <2>1. /\ (Housed(e) \/ Excused(e)) /\ Matched(e) /\ Carried(e) /\ e.seg \in Segs
    BY <1>1, <1>4, PlacedEntry
  <2>2. Excused(e) <=> Excused(e)'
    BY <1>1 DEF Excused
  <2>3. ~Mistaken(e)
    BY <1>1, <2>1, NotMistaken
  <2>4. ~Excused(e) => \A i \in DOMAIN r : e.seg # r[i]
    BY <1>1, <2>1 DEF Carried, FirstTodo, r
  <2>5. e.seg # r[1] => (Housed(e)' <=> Housed(e)) /\ (Mistaken(e)' <=> Mistaken(e))
    BY <1>1, <2>1, SameSeg
  <2>6. e.seg = r[1] => Excused(e) /\ ~Mistaken(e)'
    BY <1>1, <1>2, <2>4 DEF Mistaken, Used
  <2>7. Carried(e)'
    <3>1. CASE Excused(e)
      BY <2>2, <3>1 DEF Carried
    <3>2. CASE ~Excused(e)
      <4>1. e.seg \in gc.last => FirstTodo(e.write) \/ ListTodo(e.write)
        BY <2>1, <3>2 DEF Carried
      <4>2. \A i \in DOMAIN rt : e.seg # rt[i]
        BY <1>2, <2>4, <3>2
      <4>3. /\ \A i \in DOMAIN gc'.frees : e.seg = gc'.frees[i] => FirstTodo(e.write)'
            /\ e.seg \in gc'.last => FirstTodo(e.write)' \/ ListTodo(e.write)'
        BY <1>1, <4>1, <4>2 DEF FirstTodo, ListTodo, Among
      <4> QED
        BY <1>1, <4>3 DEF Carried
    <3> QED
      BY <3>1, <3>2
  <2> QED
    BY <2>1, <2>2, <2>3, <2>5, <2>6, <2>7
<1> QED
  BY <1>1, <1>3, <1>4, MergeHouse DEF TypeInv

(* What a merge frees last is in the index no more.                        *)
LEMMA EndHouse ==
  ASSUME TypeInv, SegInv, HouseInv,
         GcWriteFails \/ (GcFirstDone /\ gc.last = {}) \/ GcFreeLast
  PROVE  HouseInv'
<1>1. gc' = NoMerge /\ gc.at # "idle" /\ UNCHANGED <<content, index, dangling>> /\ TypeOK
  BY CopyFailsTyped, DoneTyped, FreeLastTyped DEF TypeInv
<1>2. Current' /\ \A e \in Entries : Carried(e)'
  BY <1>1, NoMergeCarried
<1>3. ASSUME NEW k \in Keys, NEW e \in Entries, index[k] = e
      PROVE  (Housed(e)' \/ Excused(e)') /\ Carried(e)' /\ ~Mistaken(e)'
  <2>1. /\ (Housed(e) \/ Excused(e)) /\ Matched(e) /\ Carried(e) /\ e.seg \in Segs
    BY <1>1, <1>3, PlacedEntry
  <2>2. Excused(e) <=> Excused(e)'
    BY <1>1 DEF Excused
  <2>3. ~Mistaken(e)
    BY <1>1, <2>1, NotMistaken
  <2>4. (Housed(e) => Housed(e)' \/ Excused(e)) /\ ~Mistaken(e)'
    <3>1. CASE GcWriteFails
      <4>1. /\ gc.at \in {"write1", "write2"} /\ segTable'[gc.seg].state = "FREE"
            /\ \A s \in Segs : s # gc.seg => segTable'[s] = segTable[s]
        BY <3>1, CopyFailsTyped
      <4>2. segTable[gc.seg].state = "RESERVED"
        BY <4>1 DEF SegInv, CopySeg
      <4>3. CASE e.seg = gc.seg
        BY <4>1, <4>2, <4>3 DEF Housed, Mistaken, Used
      <4>4. CASE e.seg # gc.seg
        BY <1>1, <2>1, <2>3, <4>1, <4>4, SameSeg
      <4> QED
        BY <4>3, <4>4
    <3>2. CASE GcFirstDone /\ gc.last = {}
      BY <1>1, <2>3, <3>2, SameSeg, DoneTyped DEF segVars
    <3>3. CASE GcFreeLast
      <4>1. gc.at = "free2"
        BY <3>3, FreeLastTyped
      <4>2. PICK s \in gc.last : /\ segTable'[s].state = "FREE"
                                 /\ \A t \in Segs : t # s => segTable'[t] = segTable[t]
        BY <3>3, FreeLastTyped
      <4>3. CASE e.seg = s
        BY <2>1, <4>1, <4>2, <4>3 DEF Carried, FirstTodo, ListTodo, Mistaken, Used
      <4>4. CASE e.seg # s
        BY <1>1, <2>1, <2>3, <4>2, <4>4, SameSeg
      <4> QED
        BY <4>3, <4>4
    <3> QED
      BY <3>1, <3>2, <3>3
  <2> QED
    BY <1>2, <2>1, <2>2, <2>4
<1> QED
  BY <1>1, <1>2, <1>3, MergeHouse DEF TypeInv

(* No step of anybody separates an entry from its record.                  *)
LEMMA HouseStep ==
  ASSUME ~Overlap, TypeInv, SegInv, HouseInv, Stamps, [Next]_vars
  PROVE  HouseInv'
<1>1. ASSUME NEW b \in Batches,
             Allocate(b) \/ WriteSeg(b) \/ WriteSegFails(b) \/ BatchUpdate(b) \/ Reap(b)
      PROVE  HouseInv'
  BY <1>1, AllocateHouse, BatchUpdateHouse, ReapHouse
<1>2. ASSUME NEW c \in Readers, Find(c) \/ ReadData(c) PROVE HouseInv'
  BY <1>2, ReaderHouse
<1>3. CASE GcSort
  BY <1>3, SortHouse
<1>4. CASE doMerge
  <2>1. CASE GcLoadEntry \/ GcPack
    BY <2>1, LoadHouse, PackHouse
  <2>2. CASE GcAlloc("alloc1", "write1") \/ GcAlloc("alloc2", "write2")
    BY <2>2, AllocHouse
  <2>3. CASE GcWrite("write1", gc.first, "update1") \/ GcWrite("write2", gc.list, "update2")
    BY <2>3, CopyHouse
  <2>4. CASE GcWriteFails \/ GcFirstDone \/ GcFreeLast
    BY <2>4, EndHouse, OnwardHouse
  <2>5. CASE GcUpdate("update1", gc.first) \/ GcUpdate("update2", gc.list)
    BY <2>5, CopyUpdateHouse
  <2>6. CASE GcUpdated("update1", gc.first, "free1") \/ GcUpdated("update2", gc.list, "free2")
    BY <2>6, OnwardHouse
  <2>7. CASE GcFree
    BY <2>7, FreeSourceHouse
  <2> QED
    BY <1>4, <2>1, <2>2, <2>3, <2>4, <2>5, <2>6, <2>7 DEF doMerge
<1>5. CASE UNCHANGED vars
  BY <1>5 DEF vars, history, segVars, HouseInv, Placed, Current, CurrentWrite, Housed, Excused,
              Carried, FirstTodo, ListTodo, Among, Matched, Mistaken, Replacing, Used
<1> QED
  BY <1>1, <1>2, <1>3, <1>4, <1>5 DEF Next

(* There are no entries in the beginning.                                  *)
LEMMA HouseInit == Init => HouseInv /\ Stamps
<1> SUFFICES ASSUME Init PROVE HouseInv /\ Stamps
  OBVIOUS
<1> DEFINE f == gc.first
           l == gc.list
<1>1. /\ gc.at = "idle" /\ gc.stamp = 0 /\ f = <<>> /\ l = <<>> /\ clock = 0
      /\ \A k \in Keys : index[k] = NoEntry
      /\ \A b \in Batches : batch[b].stamp = 0
  BY DEF Init, NoMerge, NewBatch
<1>2. DOMAIN f = {} /\ DOMAIN l = {}
  BY <1>1
<1>3. Current
  BY <1>2 DEF Current, Among
<1> QED
  BY <1>1, <1>3 DEF HouseInv, Placed, Stamps

(* The index leads to data at every step, for everything but tombstones    *)
(* left behind by a merge.                                                 *)
LEMMA HouseImplies ==
  ASSUME TypeOK, HouseInv
  PROVE  EntriesPointToData
BY DEF HouseInv, Placed, EntriesPointToData, Excused

-----------------------------------------------------------------------------
(* Readers. *)

(* A reader that holds an entry will find its record, and has read it when *)
(* it is done.                                                             *)
ReadInv ==
  \A c \in Readers : /\ reader[c].at = "found" => Housed(reader[c].entry)
                     /\ reader[c].at = "read" => reader[c].got = reader[c].entry.write

(* Nothing moves a record between the two steps of a reader.               *)
LEMMA ReadStep ==
  ASSUME ~Overlap, TypeInv, SegInv, HouseInv, ReadInv, [Next]_vars
  PROVE  ReadInv'
<1>1. \A c \in Readers : reader[c].at = "found" => reader[c].entry \in Entries
                                                   /\ reader[c].entry.seg \in Segs
  <2>1. \A c \in Readers : reader[c].at = "found" => reader[c].entry \in Entries
    BY DEF TypeInv, TypeOK, Progress, ReaderRecord, MaybeEntries
  <2> QED
    BY <2>1 DEF Entries
<1>2. ASSUME NEW b \in Batches,
             Allocate(b) \/ WriteSeg(b) \/ WriteSegFails(b) \/ BatchUpdate(b) \/ Reap(b)
      PROVE  ReadInv'
  <2>1. UNCHANGED reader
    BY <1>2, AllocateTyped, WriteTyped, WriteFailsTyped, BatchUpdateTyped, ReapTyped
  <2>2. \A s \in Segs : Used(s) => segTable'[s].state = "USED" /\ content'[s] = content[s]
    BY <1>2, ClientKeeps
  <2> QED
    BY <1>1, <2>1, <2>2 DEF ReadInv, Housed, Used
<1>3. ASSUME NEW c \in Readers, Find(c) \/ ReadData(c) PROVE ReadInv'
  <2>1. /\ \/ /\ reader[c].at = "new" /\ reader'[c].at = "found"
              /\ \E k \in Keys : /\ index[k] # NoEntry /\ index[k].write \notin Deletes
                                 /\ reader'[c].entry = index[k]
           \/ /\ reader[c].at = "found" /\ reader'[c].at = "read"
              /\ reader'[c].entry = reader[c].entry
              /\ reader[c].entry.pos \in DOMAIN content[reader[c].entry.seg] =>
                   reader'[c].got = content[reader[c].entry.seg][reader[c].entry.pos]
        /\ \A d \in Readers : d # c => reader'[d] = reader[d]
        /\ UNCHANGED <<segTable, content>>
    BY <1>3, ReaderTyped DEF segVars
  <2>2. reader'[c].at = "found" => segTable[reader'[c].entry.seg].state = "USED"
          /\ reader'[c].entry.pos \in DOMAIN content[reader'[c].entry.seg]
          /\ content[reader'[c].entry.seg][reader'[c].entry.pos] = reader'[c].entry.write
    BY <2>1 DEF HouseInv, Placed, Excused, Housed
  <2>3. reader'[c].at = "read" => reader'[c].got = reader'[c].entry.write
    BY <2>1 DEF ReadInv, Housed
  <2> QED
    BY <2>1, <2>2, <2>3 DEF ReadInv, Housed
<1>4. CASE GcSort
  BY <1>4, SortTyped DEF MayMerge, NobodyReads, ReadInv
<1>5. CASE doMerge
  <2>1. UNCHANGED reader /\ gc.at # "idle"
    BY <1>5 DEF doMerge, GcLoadEntry, GcPack, GcAlloc, GcWrite, GcWriteFails, GcUpdate,
                GcUpdated, GcFree, GcFirstDone, GcFreeLast, OthersKeep
  <2> QED
    BY <2>1, MergeAlone DEF ReadInv
<1>6. CASE UNCHANGED vars
  BY <1>6 DEF vars, segVars, ReadInv, Housed
<1> QED
  BY <1>2, <1>3, <1>4, <1>5, <1>6 DEF Next
-----------------------------------------------------------------------------
(* What a read would find. *)

(* The n-th write of batch b has been brought to the index.                *)
Applied(b, n) ==
  /\ n \in DOMAIN Items[b]
  /\ \/ batch[b].at \in {"reap", "done"}
     \/ batch[b].at = "update" /\ n < batch[b].next

Written(b) == batch[b].at \in {"update", "reap", "done"}

(* Batches that were done before another began have older stamps.          *)
Orders ==
  /\ \A d \in Batches : before[d] \subseteq Done
  /\ \A c, d \in Batches : c \in before[d] /\ Written(d) => batch[c].stamp < batch[d].stamp

(* An entry newer than a batch which is at its updates is not a copy made  *)
(* by a merge: it has the stamp of its own batch.                          *)
CopiesOlder ==
  \A b \in Batches, k \in Keys :
    batch[b].at = "update" /\ index[k] # NoEntry /\ index[k].stamp > batch[b].stamp =>
      index[k].stamp = batch[BatchOf(index[k].write)].stamp

(* Every entry comes from a write that was brought to the index.           *)
AppliedEntry ==
  \A k \in Keys : index[k] # NoEntry =>
    \E b \in Batches : \E n \in DOMAIN Items[b] : Items[b][n] = index[k].write /\ Applied(b, n)

(* No batch that began after c was done has brought a write of k yet.      *)
Spared(c, k) ==
  \A d \in Batches : \A n \in DOMAIN Items[d] :
    Applied(d, n) /\ KeyOf[Items[d][n]] = k => c \notin before[d]

Visible(k) ==
  IF index[k] # NoEntry
  THEN Spared(BatchOf(index[k].write), k)
  ELSE \/ \A d \in Batches : \A n \in DOMAIN Items[d] :
            Applied(d, n) /\ KeyOf[Items[d][n]] = k => Items[d][n] \in Deletes
       \/ \E c \in Batches : \E m \in DOMAIN Items[c] :
            /\ Applied(c, m) /\ KeyOf[Items[c][m]] = k /\ Items[c][m] \in Deletes
            /\ Spared(c, k)

VisibleInv == Orders /\ CopiesOlder /\ AppliedEntry /\ \A k \in Keys : Visible(k)

(* Each write belongs to one batch.                                        *)
LEMMA BatchOfItem ==
  ASSUME NEW b \in Batches, NEW n \in DOMAIN Items[b]
  PROVE  BatchOf(Items[b][n]) = b
<1>1. \A c \in Batches : (\E m \in DOMAIN Items[c] : Items[c][m] = Items[b][n]) => c = b
  BY GcManagerAssumption
<1>2. \E m \in DOMAIN Items[b] : Items[b][m] = Items[b][n]
  OBVIOUS
<1> QED
  BY <1>1, <1>2 DEF BatchOf

(* A step that lets no write be brought to the index, ends no batch, takes *)
(* no key out of the index or in, and keeps the writes the entries stand   *)
(* for.                                                                    *)
LEMMA SameVisible ==
  ASSUME VisibleInv, UNCHANGED before,
         \A b \in Batches : \A n \in DOMAIN Items[b] : Applied(b, n)' <=> Applied(b, n),
         \A b \in Batches : batch[b].at = "done" => batch'[b].at = "done",
         \A k \in Keys : /\ (index'[k] = NoEntry) <=> (index[k] = NoEntry)
                         /\ index[k] # NoEntry => index'[k].write = index[k].write
  PROVE  /\ \A d \in Batches : before'[d] \subseteq Done'
         /\ AppliedEntry' /\ \A k \in Keys : Visible(k)'
<1>1. \A d \in Batches : before'[d] \subseteq Done'
  BY DEF VisibleInv, Orders, Done
<1>2. AppliedEntry'
  BY DEF VisibleInv, AppliedEntry
<1>3. \A c, k : Spared(c, k) => Spared(c, k)'
  BY DEF Spared
<1>4. ASSUME NEW k \in Keys PROVE Visible(k)'
  <2>1. CASE index[k] # NoEntry
    <3>1. PICK c : c = BatchOf(index[k].write)
      OBVIOUS
    <3>2. Spared(c, k)
      BY <2>1, <3>1 DEF VisibleInv, Visible
    <3>3. Spared(c, k)'
      BY <1>3, <3>2
    <3>4. index'[k] # NoEntry /\ c = BatchOf(index'[k].write)
      BY <2>1, <3>1 
    <3> QED
      BY <3>3, <3>4 DEF Visible, BatchOf, Spared
  <2>2. CASE index[k] = NoEntry
    <3>1. \/ \A d \in Batches : \A n \in DOMAIN Items[d] :
               Applied(d, n) /\ KeyOf[Items[d][n]] = k => Items[d][n] \in Deletes
          \/ \E c \in Batches : \E m \in DOMAIN Items[c] :
               /\ Applied(c, m) /\ KeyOf[Items[c][m]] = k /\ Items[c][m] \in Deletes
               /\ Spared(c, k)
      BY <2>2 DEF VisibleInv, Visible
    <3> QED
      BY <1>3, <2>2, <3>1 DEF Visible
  <2> QED
    BY <2>1, <2>2
<1> QED
  BY <1>1, <1>2, <1>4

(* Merges keep the writes that the entries stand for.                      *)
LEMMA MergeVisible ==
  ASSUME TypeInv, SegInv, VisibleInv, gc.at # "idle", UNCHANGED <<batch, before>>,
         \A k \in Keys : /\ (index'[k] = NoEntry) <=> (index[k] = NoEntry)
                         /\ index[k] # NoEntry => index'[k].write = index[k].write
  PROVE  VisibleInv'
<1>1. /\ \A b \in Batches : \A n \in DOMAIN Items[b] : Applied(b, n)' <=> Applied(b, n)
      /\ \A b \in Batches : batch[b].at = "done" => batch'[b].at = "done"
  BY DEF Applied
<1>2. /\ \A d \in Batches : before'[d] \subseteq Done'
      /\ AppliedEntry' /\ \A k \in Keys : Visible(k)'
  BY <1>1, SameVisible
<1>3. Orders'
  BY <1>2 DEF VisibleInv, Orders, Written
<1>4. CopiesOlder'
  BY MergeAlone DEF CopiesOlder
<1> QED
  BY <1>2, <1>3, <1>4 DEF VisibleInv

(* An entry's batch.                                                       *)
LEMMA EntryBatch ==
  ASSUME VisibleInv, NEW k \in Keys, index[k] # NoEntry
  PROVE  /\ BatchOf(index[k].write) \in Batches
         /\ \E n \in DOMAIN Items[BatchOf(index[k].write)] :
              /\ Items[BatchOf(index[k].write)][n] = index[k].write
              /\ Applied(BatchOf(index[k].write), n)
         /\ Written(BatchOf(index[k].write))
<1>1. PICK b \in Batches : \E n \in DOMAIN Items[b] : Items[b][n] = index[k].write /\ Applied(b, n)
  BY DEF VisibleInv, AppliedEntry
<1>2. BatchOf(index[k].write) = b
  BY <1>1, BatchOfItem
<1> QED
  BY <1>1, <1>2 DEF Applied, Written

(* A batch that begins has all batches done before it.                     *)
LEMMA AllocateVisible ==
  ASSUME TypeInv, VisibleInv, NEW b \in Batches, Allocate(b)
  PROVE  VisibleInv'
<1>1. /\ batch[b].at = "new" /\ batch'[b].at = "write" /\ batch'[b].stamp = batch[b].stamp
      /\ \A c \in Batches : c # b => batch'[c] = batch[c]
      /\ before' = [before EXCEPT ![b] = Done] /\ UNCHANGED index
      /\ before \in [Batches -> SUBSET Batches]
  BY AllocateTyped, Types DEF TypeInv
<1>2. before'[b] = Done /\ \A d \in Batches : d # b => before'[d] = before[d]
  BY <1>1
<1>3. Done' = Done /\ b \notin Done
  BY <1>1 DEF Done
<1>4. \A c \in Batches : \A n \in DOMAIN Items[c] :
        (Applied(c, n)' <=> Applied(c, n)) /\ (Applied(c, n) => c # b)
  BY <1>1 DEF Applied
<1>5. Orders'
  <2>1. \A d \in Batches : before'[d] \subseteq Done'
    BY <1>2, <1>3 DEF VisibleInv, Orders
  <2>2. ASSUME NEW c \in Batches, NEW d \in Batches, c \in before'[d], Written(d)'
        PROVE  batch'[c].stamp < batch'[d].stamp
    BY <1>1, <1>2, <2>2 DEF VisibleInv, Orders, Written
  <2> QED
    BY <2>1, <2>2 DEF Orders
<1>6. CopiesOlder'
  <2>1. \A c \in Batches : batch'[c].at = "update" => batch[c].at = "update" /\ batch'[c] = batch[c]
    BY <1>1
  <2>2. ASSUME NEW c \in Batches, NEW k \in Keys, batch'[c].at = "update", index'[k] # NoEntry,
               index'[k].stamp > batch'[c].stamp
        PROVE  index'[k].stamp = batch'[BatchOf(index[k].write)].stamp
    <3>1. BatchOf(index[k].write) \in Batches
      BY <1>1, <2>2, EntryBatch
    <3>2. batch'[BatchOf(index[k].write)].stamp = batch[BatchOf(index[k].write)].stamp
      BY <1>1, <3>1
    <3> QED
      BY <1>1, <2>1, <2>2, <3>2 DEF VisibleInv, CopiesOlder
  <2> QED
    BY <1>1, <2>2 DEF CopiesOlder, BatchOf
<1>7. AppliedEntry'
  BY <1>1, <1>4 DEF VisibleInv, AppliedEntry
<1>8. \A c, k : Spared(c, k) => Spared(c, k)'
  BY <1>2, <1>4 DEF Spared
<1>9. ASSUME NEW k \in Keys PROVE Visible(k)'
  BY <1>1, <1>4, <1>8 DEF VisibleInv, Visible, BatchOf
<1> QED
  BY <1>5, <1>6, <1>7, <1>9 DEF VisibleInv

(* A written batch is newer than those done before it began.               *)
LEMMA WriteVisible ==
  ASSUME TypeInv, VisibleInv, Stamps, NEW b \in Batches, WriteSeg(b)
  PROVE  VisibleInv'
<1>1. /\ batch[b].at = "write" /\ batch'[b].at = "update"
      /\ batch'[b].stamp = clock' /\ batch'[b].next = 1 /\ clock' = clock + 1
      /\ \A c \in Batches : c # b => batch'[c] = batch[c]
      /\ UNCHANGED <<index, before>> /\ TypeOK
  BY WriteTyped DEF TypeInv
<1>2. clock \in Nat /\ \A c \in Batches : batch[c].stamp \in Nat /\ batch[c].stamp <= clock
  BY <1>1, Types DEF Stamps
<1>3. \A c \in Batches : DOMAIN Items[c] \subseteq Nat \ {0}
  BY ItemsTyped
<1>4. /\ \A c \in Batches : \A n \in DOMAIN Items[c] : Applied(c, n)' <=> Applied(c, n)
      /\ \A c \in Batches : batch[c].at = "done" => batch'[c].at = "done"
  <2>1. ASSUME NEW c \in Batches, NEW n \in DOMAIN Items[c] PROVE Applied(c, n)' <=> Applied(c, n)
    <3>1. n \in Nat \ {0}
      BY <1>3
    <3> QED
      BY <1>1, <3>1 DEF Applied
  <2> QED
    BY <1>1, <2>1
<1>5. /\ \A d \in Batches : before'[d] \subseteq Done'
      /\ AppliedEntry' /\ \A k \in Keys : Visible(k)'
  BY <1>1, <1>4, SameVisible
<1>6. Orders'
  <2>1. ASSUME NEW c \in Batches, NEW d \in Batches, c \in before'[d], Written(d)'
        PROVE  batch'[c].stamp < batch'[d].stamp
    <3>1. batch[c].at = "done" /\ c # b
      BY <1>1, <2>1 DEF VisibleInv, Orders, Done
    <3>2. CASE d = b
      BY <1>1, <1>2, <3>1, <3>2
    <3>3. CASE d # b
      BY <1>1, <2>1, <3>1, <3>3 DEF VisibleInv, Orders, Written
    <3> QED
      BY <3>2, <3>3
  <2> QED
    BY <1>5, <2>1 DEF Orders
<1>7. CopiesOlder'
  <2>1. ASSUME NEW c \in Batches, NEW k \in Keys, batch'[c].at = "update", index'[k] # NoEntry,
               index'[k].stamp > batch'[c].stamp
        PROVE  index'[k].stamp = batch'[BatchOf(index[k].write)].stamp
    <3>1. BatchOf(index[k].write) \in Batches /\ Written(BatchOf(index[k].write))
      BY <1>1, <2>1, EntryBatch
    <3>2. batch'[BatchOf(index[k].write)] = batch[BatchOf(index[k].write)]
      BY <1>1, <3>1 DEF Written
    <3>3. c # b
      BY <1>1, <1>2, <2>1, EntryTypes DEF Stamps
    <3> QED
      BY <1>1, <2>1, <3>2, <3>3 DEF VisibleInv, CopiesOlder
  <2> QED
    BY <1>1, <2>1 DEF CopiesOlder, BatchOf
<1> QED
  BY <1>5, <1>6, <1>7 DEF VisibleInv

(* A client's step that leaves the index and what was applied alone.       *)
LEMMA QuietVisible ==
  ASSUME VisibleInv, UNCHANGED <<index, before>>,
         \A c \in Batches : \/ batch'[c] = batch[c]
                            \/ /\ batch'[c].stamp = batch[c].stamp
                               /\ \/ batch[c].at = "write" /\ batch'[c].at = "failed"
                                  \/ batch[c].at = "reap" /\ batch'[c].at \in {"reap", "done"}
  PROVE  VisibleInv'
<1>1. /\ \A c \in Batches : \A n \in DOMAIN Items[c] : Applied(c, n)' <=> Applied(c, n)
      /\ \A c \in Batches : batch[c].at = "done" => batch'[c].at = "done"
      /\ \A c \in Batches : Written(c)' <=> Written(c)
      /\ \A c \in Batches : batch'[c].stamp = batch[c].stamp
      /\ \A c \in Batches : batch'[c].at = "update" => batch[c].at = "update"
  BY DEF Applied, Written
<1>2. /\ \A d \in Batches : before'[d] \subseteq Done'
      /\ AppliedEntry' /\ \A k \in Keys : Visible(k)'
  BY <1>1, SameVisible
<1>3. Orders'
  BY <1>1, <1>2 DEF VisibleInv, Orders
<1>4. CopiesOlder'
  <2>1. \A k \in Keys : index[k] # NoEntry => BatchOf(index[k].write) \in Batches
    BY EntryBatch
  <2> QED
    BY <1>1, <2>1 DEF VisibleInv, CopiesOlder, BatchOf
<1> QED
  BY <1>2, <1>3, <1>4 DEF VisibleInv

(* An update of a batch: the new entry is newer than all that was done     *)
(* when its batch began, and an entry that stays is newer than the batch.  *)
LEMMA BatchUpdateVisible ==
  ASSUME TypeInv, VisibleInv, NEW b \in Batches, BatchUpdate(b)
  PROVE  VisibleInv'
<1>0. /\ UpdateIndex(ItemEntry(b)) /\ batch[b].next \in DOMAIN Items[b] /\ TypeOK
  BY BatchUpdateTyped DEF TypeInv
<1>1. PICK e \in Entries, w \in Writes, n \in DOMAIN Items[b] :
        /\ e = ItemEntry(b) /\ n = batch[b].next /\ w = Items[b][n] /\ e.write = w
        /\ e.stamp = batch[b].stamp /\ KeyOf[w] \in Keys /\ e # NoEntry /\ UpdateIndex(e)
  BY <1>0, ItemTyped
<1> DEFINE key == KeyOf[w]
<1>2. /\ batch[b].at = "update" /\ batch'[b].stamp = batch[b].stamp
      /\ IF n = Len(Items[b])
         THEN batch'[b].at \in {"reap", "done"} /\ batch'[b].next = 1
         ELSE batch'[b].at = "update" /\ batch'[b].next = n + 1
      /\ \A c \in Batches : c # b => batch'[c] = batch[c]
      /\ UNCHANGED before
  BY <1>1, BatchUpdateTyped
<1>3. /\ index'[key] = Kept(e, index[key])
      /\ \A k \in Keys : k # key => index'[k] = index[k]
  BY <1>0, <1>1, UpdateTyped
<1>4. /\ n \in Nat /\ Len(Items[b]) \in Nat /\ DOMAIN Items[b] = 1 .. Len(Items[b])
      /\ \A c \in Batches : batch[c].stamp \in Nat
  BY <1>0, <1>1, ItemsTyped, Types
<1> HIDE DEF key
<1>5. \A c \in Batches : \A m \in DOMAIN Items[c] :
        Applied(c, m)' <=> Applied(c, m) \/ (c = b /\ m = n)
  <2>1. ASSUME NEW m \in DOMAIN Items[b] PROVE Applied(b, m)' <=> m < n \/ m = n
    <3>1. CASE n = Len(Items[b])
      BY <1>2, <1>4, <3>1 DEF Applied
    <3>2. CASE n # Len(Items[b])
      BY <1>2, <1>4, <3>2 DEF Applied
    <3> QED
      BY <3>1, <3>2
  <2>2. \A m \in DOMAIN Items[b] : Applied(b, m) <=> m < n
    BY <1>1, <1>2 DEF Applied
  <2>3. \A c \in Batches : c # b => \A m \in DOMAIN Items[c] : Applied(c, m)' <=> Applied(c, m)
    BY <1>2 DEF Applied
  <2> QED
    BY <2>1, <2>2, <2>3
<1>6. /\ \A c \in Batches : Written(c)' <=> Written(c)
      /\ \A c \in Batches : batch'[c].stamp = batch[c].stamp
      /\ \A c \in Batches : batch'[c].at = "update" => batch[c].at = "update"
      /\ Written(b)
  BY <1>2 DEF Written
<1>7. Orders'
  <2>1. \A d \in Batches : before'[d] \subseteq Done'
    <3>1. Done \subseteq Done'
      BY <1>2 DEF Done
    <3> QED
      BY <1>2, <3>1 DEF VisibleInv, Orders
  <2> QED
    BY <1>2, <1>6, <2>1 DEF VisibleInv, Orders
<1>8. b \notin Done /\ \A d \in Batches : b \notin before[d]
  BY <1>2 DEF Done, VisibleInv, Orders
<1>9. BatchOf(w) = b
  BY <1>1, BatchOfItem
<1>10. \A k \in Keys : index[k] # NoEntry => BatchOf(index[k].write) \in Batches
  BY EntryBatch
<1>11. \A k \in Keys : index'[k] = index[k] \/ (k = key /\ index'[k] = e)
  BY <1>3 DEF Kept
<1>12. CopiesOlder'
  <2>1. ASSUME NEW c \in Batches, NEW k \in Keys, NEW f, f = index'[k],
               batch'[c].at = "update", f # NoEntry, f.stamp > batch'[c].stamp
        PROVE  f.stamp = batch'[BatchOf(f.write)].stamp
    <3>1. CASE f = index[k]
      <4>1. f.stamp = batch[BatchOf(f.write)].stamp /\ BatchOf(f.write) \in Batches
        BY <1>6, <1>10, <2>1, <3>1 DEF VisibleInv, CopiesOlder
      <4> QED
        BY <1>6, <4>1
    <3>2. CASE f = e
      BY <1>1, <1>6, <1>9, <3>2
    <3> QED
      BY <1>11, <2>1, <3>1, <3>2
  <2> QED
    BY <2>1 DEF CopiesOlder, BatchOf
<1>13. AppliedEntry'
  <2>1. ASSUME NEW k \in Keys, NEW f, f = index'[k], f # NoEntry
        PROVE  \E c \in Batches : \E m \in DOMAIN Items[c] : Items[c][m] = f.write /\ Applied(c, m)'
    <3>1. CASE f = index[k]
      BY <1>5, <2>1, <3>1 DEF VisibleInv, AppliedEntry
    <3>2. CASE f = e
      BY <1>1, <1>5, <3>2
    <3> QED
      BY <1>11, <2>1, <3>1, <3>2
  <2> QED
    BY <2>1 DEF AppliedEntry
<1>14. ASSUME NEW k \in Keys, k # key PROVE Visible(k)'
  <2>1. \A c \in Batches : \A m \in DOMAIN Items[c] :
          KeyOf[Items[c][m]] = k => (Applied(c, m)' <=> Applied(c, m))
    BY <1>1, <1>5, <1>14 DEF key
  <2>2. \A c : Spared(c, k) => Spared(c, k)'
    BY <1>2, <2>1 DEF Spared
  <2>3. index'[k] = index[k] /\ Visible(k)
    BY <1>3, <1>14 DEF VisibleInv
  <2> QED
    BY <2>1, <2>2, <2>3 DEF Visible, BatchOf
<1>15. Spared(b, key)'
  BY <1>2, <1>8 DEF Spared
<1>16. Visible(key)
  BY <1>1 DEF VisibleInv, key
<1>17. Visible(key)'
  <2>1. CASE index'[key] = e
    BY <1>1, <1>9, <1>15, <2>1 DEF Visible, BatchOf
  <2>2. CASE index'[key] = NoEntry
    <3>1. w \in Deletes
      BY <1>1, <1>3, <2>2 DEF Kept
    <3>2. Applied(b, n)' /\ KeyOf[Items[b][n]] = key /\ Items[b][n] \in Deletes
      BY <1>1, <1>5, <3>1 DEF key
    <3> QED
      BY <1>15, <2>2, <3>2 DEF Visible
  <2>3. CASE index'[key] # e /\ index'[key] # NoEntry
    <3>1. PICK f : f = index[key]
      OBVIOUS
    <3>2. index'[key] = f /\ f # NoEntry /\ e.stamp < f.stamp
      BY <1>3, <2>3, <3>1 DEF Kept
    <3>3. PICK c \in Batches : c = BatchOf(f.write)
      BY <1>1, <1>10, <3>1, <3>2 DEF key
    <3>4. Spared(c, key)
      BY <1>16, <3>1, <3>2, <3>3 DEF Visible
    <3>5. c \notin before[b]
      <4> SUFFICES ASSUME c \in before[b] PROVE FALSE
        OBVIOUS
      <4>1. batch[c].stamp < batch[b].stamp
        BY <1>6 DEF VisibleInv, Orders
      <4>2. f.stamp \in Nat /\ f.stamp > batch[b].stamp
        <5>1. f.stamp \in Nat
          BY <1>0, <1>1, <3>1, <3>2, EntryTypes DEF key
        <5> QED
          BY <1>1, <1>4, <3>2, <5>1
      <4>3. f.stamp = batch[c].stamp
        BY <1>1, <1>2, <3>1, <3>2, <3>3, <4>2 DEF VisibleInv, CopiesOlder, key
      <4> QED
        BY <1>4, <4>1, <4>2, <4>3
    <3>6. Spared(c, key)'
      BY <1>2, <1>5, <3>4, <3>5 DEF Spared
    <3> QED
      BY <3>2, <3>3, <3>6 DEF Visible, BatchOf
  <2> QED
    BY <2>1, <2>2, <2>3
<1>18. \A k \in Keys : Visible(k)'
  BY <1>14, <1>17
<1> QED
  BY <1>7, <1>12, <1>13, <1>18 DEF VisibleInv

(* An entry that the reaper removes stands for a delete, which stays       *)
(* visible.                                                                *)
LEMMA ReapVisible ==
  ASSUME TypeInv, HouseInv, VisibleInv, NEW b \in Batches, Reap(b)
  PROVE  VisibleInv'
<1>1. /\ batch[b].at = "reap" /\ batch'[b].at \in {"reap", "done"}
      /\ batch'[b].stamp = batch[b].stamp
      /\ \A c \in Batches : c # b => batch'[c] = batch[c]
      /\ \/ Removes(b) /\ index' = [index EXCEPT ![ReapedKey(b)] = NoEntry]
         \/ UNCHANGED index
      /\ UNCHANGED before /\ ReapedKey(b) \in Keys /\ index \in [Keys -> MaybeEntries]
  BY ReapTyped, Types DEF TypeInv
<1>2. CASE UNCHANGED index
  BY <1>1, <1>2, QuietVisible
<1>3. CASE Removes(b) /\ index' = [index EXCEPT ![ReapedKey(b)] = NoEntry]
  <2>0. PICK key \in Keys : key = ReapedKey(b)
    BY <1>1
  <2>1. /\ key \in Keys /\ index'[key] = NoEntry
        /\ \A k \in Keys : k # key => index'[k] = index[k]
        /\ index[key] # NoEntry /\ index[key].write \in Deletes
    BY <1>1, <1>3, <2>0 DEF Removes
  <2>2. /\ \A c \in Batches : \A n \in DOMAIN Items[c] : Applied(c, n)' <=> Applied(c, n)
        /\ \A c \in Batches : batch[c].at = "done" => batch'[c].at = "done"
        /\ \A c \in Batches : Written(c)' <=> Written(c)
        /\ \A c \in Batches : batch'[c].stamp = batch[c].stamp
        /\ \A c \in Batches : batch'[c].at = "update" => batch[c].at = "update"
    BY <1>1 DEF Applied, Written
  <2>3. Orders'
    BY <1>1, <2>2 DEF VisibleInv, Orders, Done
  <2>4. CopiesOlder'
    <3>1. \A k \in Keys : index[k] # NoEntry => BatchOf(index[k].write) \in Batches
      BY EntryBatch
    <3>2. \A k \in Keys : index'[k] # NoEntry => index'[k] = index[k]
      BY <2>1
    <3> QED
      BY <2>2, <3>1, <3>2 DEF VisibleInv, CopiesOlder, BatchOf
  <2>5. AppliedEntry'
    <3>1. \A k \in Keys : index'[k] # NoEntry => index'[k] = index[k]
      BY <2>1
    <3> QED
      BY <2>2, <3>1 DEF VisibleInv, AppliedEntry
  <2>6. \A c, k : Spared(c, k) => Spared(c, k)'
    BY <1>1, <2>2 DEF Spared
  <2>7. ASSUME NEW k \in Keys, k # key PROVE Visible(k)'
    BY <2>1, <2>2, <2>6, <2>7 DEF VisibleInv, Visible, BatchOf
  <2>8. Visible(key)'
    <3>1. PICK c \in Batches : c = BatchOf(index[key].write)
      BY <2>1, EntryBatch
    <3>2. PICK m \in DOMAIN Items[c] : Items[c][m] = index[key].write /\ Applied(c, m)
      BY <2>1, <3>1, EntryBatch
    <3>3. Spared(c, key)
      BY <2>1, <3>1 DEF VisibleInv, Visible
    <3>4. /\ Applied(c, m)' /\ Items[c][m] \in Deletes
          /\ Spared(c, key)'
      BY <2>1, <2>2, <2>6, <3>2, <3>3
    <3>5. KeyOf[Items[c][m]] = key
      BY <2>1, <3>2 DEF HouseInv, Placed
    <3> QED
      BY <2>1, <3>4, <3>5 DEF Visible
  <2>9. \A k \in Keys : Visible(k)'
    BY <2>7, <2>8
  <2> QED
    BY <2>3, <2>4, <2>5, <2>9 DEF VisibleInv
<1> QED
  BY <1>1, <1>2, <1>3

(* No step hides a completed write behind an older one.                    *)
LEMMA VisibleStep ==
  ASSUME ~Overlap, TypeInv, SegInv, HouseInv, Stamps, VisibleInv, [Next]_vars
  PROVE  VisibleInv'
<1>1. ASSUME NEW b \in Batches,
             Allocate(b) \/ WriteSeg(b) \/ BatchUpdate(b) \/ Reap(b)
      PROVE  VisibleInv'
  BY <1>1, AllocateVisible, WriteVisible, BatchUpdateVisible, ReapVisible
<1>2. ASSUME NEW b \in Batches, WriteSegFails(b) PROVE VisibleInv'
  BY <1>2, WriteFailsTyped, QuietVisible
<1>3. ASSUME NEW c \in Readers, Find(c) \/ ReadData(c) PROVE VisibleInv'
  BY <1>3, ReaderTyped, QuietVisible
<1>4. CASE GcSort
  BY <1>4, SortTyped, QuietVisible
<1>5. CASE doMerge
  <2>1. gc.at # "idle" /\ UNCHANGED <<batch, before>>
    BY <1>5 DEF doMerge, GcLoadEntry, GcPack, GcAlloc, GcWrite, GcWriteFails, GcUpdate,
                GcUpdated, GcFree, GcFirstDone, GcFreeLast, OthersKeep, history
  <2>2. CASE UNCHANGED index
    BY <2>1, <2>2, MergeVisible
  <2>3. CASE GcUpdate("update1", gc.first) \/ GcUpdate("update2", gc.list)
    <3>1. PICK e \in Entries : e = NextCopy /\ e # NoEntry
      BY <2>3, CopyUpdateTyped
    <3>2. /\ index[KeyOf[e.write]] # NoEntry /\ index[KeyOf[e.write]].write = e.write
          /\ index'[KeyOf[e.write]] = e
          /\ \A k \in Keys : k # KeyOf[e.write] => index'[k] = index[k]
      BY <2>3, <3>1, CopyTaken
    <3>3. \A k \in Keys : /\ (index'[k] = NoEntry) <=> (index[k] = NoEntry)
                          /\ index[k] # NoEntry => index'[k].write = index[k].write
      BY <3>1, <3>2
    <3> QED
      BY <2>1, <3>3, MergeVisible
  <2> QED
    BY <1>5, <2>2, <2>3 DEF doMerge, GcLoadEntry, GcPack, GcAlloc, GcWrite, GcWriteFails,
                            GcUpdated, GcFree, GcFirstDone, GcFreeLast
<1>6. CASE UNCHANGED vars
  BY <1>6, QuietVisible DEF vars, history
<1> QED
  BY <1>1, <1>2, <1>3, <1>4, <1>5, <1>6 DEF Next

(* There is nothing to be seen in the beginning.                           *)
LEMMA VisibleInit == Init => VisibleInv
<1> SUFFICES ASSUME Init PROVE VisibleInv
  OBVIOUS
<1>1. /\ \A b \in Batches : batch[b].at = "new" /\ before[b] = {}
      /\ \A k \in Keys : index[k] = NoEntry
  BY DEF Init, NewBatch
<1>2. Orders
  BY <1>1 DEF Orders
<1>3. CopiesOlder /\ AppliedEntry
  BY <1>1 DEF CopiesOlder, AppliedEntry
<1>4. \A k \in Keys : Visible(k)
  BY <1>1 DEF Visible, Applied
<1> QED
  BY <1>2, <1>3, <1>4 DEF VisibleInv

(* What the invariant says of the index is what the property says.         *)
LEMMA VisibleImplies ==
  ASSUME HouseInv, VisibleInv
  PROVE  LatestVisible
<1>0. \A d \in Done : d \in Batches /\ \A n \in DOMAIN Items[d] : Applied(d, n)
  BY DEF Done, Applied
<1>1. ASSUME NEW k \in Keys, NEW w, KeyOf[w] = k, NEW c, c = BatchOf(w), Spared(c, k)
      PROVE  NotOvertaken(w)
  BY <1>0, <1>1 DEF Spared, NotOvertaken
<1>2. ASSUME NEW k \in Keys, index[k] # NoEntry PROVE NotOvertaken(index[k].write)
  <2>1. PICK w : w = index[k].write
    OBVIOUS
  <2>2. KeyOf[w] = k
    BY <1>2, <2>1 DEF HouseInv, Placed
  <2>3. PICK c : c = BatchOf(w)
    OBVIOUS
  <2>4. Spared(c, k)
    BY <1>2, <2>1, <2>3 DEF VisibleInv, Visible
  <2> QED
    BY <1>1, <2>1, <2>2, <2>3, <2>4
<1>3. ASSUME NEW k \in Keys, index[k] = NoEntry
      PROVE  \/ \A d \in Done : \A n \in DOMAIN Items[d] :
                  KeyOf[Items[d][n]] = k => Items[d][n] \in Deletes
             \/ \E w \in Writes : KeyOf[w] = k /\ AppliedDelete(w) /\ NotOvertaken(w)
  <2>1. CASE \A d \in Batches : \A n \in DOMAIN Items[d] :
               Applied(d, n) /\ KeyOf[Items[d][n]] = k => Items[d][n] \in Deletes
    BY <1>0, <2>1
  <2>2. ASSUME NEW c \in Batches, NEW m \in DOMAIN Items[c],
               Applied(c, m) /\ KeyOf[Items[c][m]] = k /\ Items[c][m] \in Deletes /\ Spared(c, k)
        PROVE  \E w \in Writes : KeyOf[w] = k /\ AppliedDelete(w) /\ NotOvertaken(w)
    <3>1. PICK w \in Writes : w = Items[c][m]
      BY ItemsTyped
    <3>2. BatchOf(w) = c
      BY <3>1, BatchOfItem
    <3>3. NotOvertaken(w)
      BY <1>1, <2>2, <3>1, <3>2
    <3>4. AppliedDelete(w)
      BY <2>2, <3>1, <3>2 DEF AppliedDelete, Applied
    <3> QED
      BY <2>2, <3>1, <3>3, <3>4
  <2>3. Visible(k)
    BY DEF VisibleInv
  <2> QED
    BY <1>3, <2>1, <2>2, <2>3 DEF Visible
<1> QED
  BY <1>2, <1>3 DEF LatestVisible

-----------------------------------------------------------------------------
(* Dead space. *)

(* Records of segment s that nobody needs any more.                        *)
Dead(s) == DOMAIN content[s] \ (Alive(s) \cup Pending(s))

DeathCounted ==
  \A s \in Segs : segTable[s].death_size = IF Used(s) THEN Cardinality(Dead(s)) ELSE 0

(* What is in the index needs no update any more.                          *)
NonePending == \A k \in Keys, e \in Entries : index[k] = e => e.pos \notin Pending(e.seg)

DeathInv == ~dangling => DeathCounted /\ NonePending

(* Written batches have stamps of their own, and until the reaper is done  *)
(* with a batch an entry with its stamp lies in its segment.               *)
OwnStamps ==
  \A b, c \in Batches : b # c /\ Written(b) /\ Written(c) => batch[b].stamp # batch[c].stamp

ReapSegs ==
  \A b \in Batches, k \in Keys, e \in Entries :
    batch[b].at \in {"update", "reap"} /\ index[k] = e /\ e.stamp = batch[b].stamp =>
      e.seg = batch[b].seg

ReapStamps == OwnStamps /\ ReapSegs

(* Only finitely many records are dead.                                    *)
LEMMA DeadFinite ==
  ASSUME TypeOK, NEW s \in Segs
  PROVE  IsFiniteSet(Dead(s)) /\ Cardinality(Dead(s)) \in Nat
<1>1. DOMAIN content[s] = 1 .. Len(content[s]) /\ Len(content[s]) \in Nat
  BY DEF TypeOK
<1>2. IsFiniteSet(DOMAIN content[s])
  BY <1>1, FS_Interval
<1>3. Dead(s) \subseteq DOMAIN content[s]
  BY DEF Dead
<1>4. IsFiniteSet(Dead(s))
  BY <1>2, <1>3, FS_Subset
<1> QED
  BY <1>4, FS_CardinalityType

(* The count follows when one record dies in each segment charged.         *)
LEMMA DeathCount ==
  ASSUME TypeOK, DeathCounted, NEW D \in SUBSET Segs, Charged(D), NEW m,
         \A s \in D : Used(s) /\ m \notin Dead(s),
         \A s \in Segs : Dead(s)' = Dead(s) \cup (IF s \in D THEN {m} ELSE {})
  PROVE  DeathCounted'
<1> SUFFICES ASSUME NEW s \in Segs
             PROVE  segTable'[s].death_size = IF Used(s)' THEN Cardinality(Dead(s)') ELSE 0
  BY DEF DeathCounted
<1>1. /\ Used(s)' <=> Used(s)
      /\ segTable'[s].death_size = segTable[s].death_size + (IF s \in D THEN 1 ELSE 0)
  BY DEF Charged, Used
<1>2. segTable[s].death_size \in Nat
  BY Types DEF SegmentStat
<1>3. CASE s \in D
  <2>1. Used(s) /\ m \notin Dead(s) /\ Dead(s)' = Dead(s) \cup {m}
    BY <1>3
  <2>2. Cardinality(Dead(s) \cup {m}) = Cardinality(Dead(s)) + 1
    BY <2>1, DeadFinite, FS_AddElement
  <2> QED
    BY <1>1, <1>3, <2>1, <2>2 DEF DeathCounted
<1>4. CASE s \notin D
  <2>1. Dead(s)' = Dead(s)
    BY <1>4
  <2> QED
    BY <1>1, <1>2, <1>4, <2>1 DEF DeathCounted
<1> QED
  BY <1>3, <1>4

(* An update of the index lets exactly one record die in the segment that  *)
(* it charges: the record it was made for or the one it replaces.          *)
LEMMA UpdateDeaths ==
  ASSUME TypeOK, HouseInv, ~dangling, DeathCounted, NonePending,
         NEW e \in Entries, UpdateIndex(e), UNCHANGED content, Housed(e),
         e.pos \in Pending(e.seg),
         \A s \in Segs : Pending(s)' = Pending(s) \ (IF s = e.seg THEN {e.pos} ELSE {})
  PROVE  DeathCounted' /\ NonePending'
<1> DEFINE key == KeyOf[e.write]
<1>1. key \in Keys /\ index \in [Keys -> MaybeEntries] /\ e # NoEntry /\ e.seg \in Segs
      /\ NoEntry \notin Entries
  <2>1. key \in Keys /\ e # NoEntry
    BY UpdateCases
  <2> QED
    BY <2>1, Types, GcManagerAssumption DEF Entries
<1>2. PICK old \in MaybeEntries : old = index[key]
  BY <1>1
<1>3. /\ index'[key] = Kept(e, old) /\ \A k \in Keys : k # key => index'[k] = index[k]
      /\ Charged(DeadSeg(e, old)) /\ index' \in [Keys -> MaybeEntries]
  BY <1>2, UpdateTyped
<1>4. ASSUME old # NoEntry
      PROVE  /\ old \in Entries /\ old.seg \in Segs /\ KeyOf[old.write] = key /\ Housed(old)
             /\ old.pos \notin Pending(old.seg)
  <2>1. old \in Entries
    BY <1>4 DEF MaybeEntries
  <2>2. KeyOf[old.write] = key /\ old.seg \in Segs /\ (Housed(old) \/ Excused(old))
    BY <1>1, <1>2, <2>1, PlacedEntry
  <2> QED
    BY <1>1, <1>2, <2>1, <2>2 DEF Excused, NonePending
<1> HIDE DEF key
<1>5. ASSUME NEW s \in Segs, NEW n \in DOMAIN content[s], KeyOf[content[s][n]] # key
      PROVE  n \in Alive(s)' <=> n \in Alive(s)
  <2>1. KeyOf[content[s][n]] \in Keys
    <3>1. content[s][n] \in Writes
      BY <1>5, Types, ElementOfSeq
    <3> QED
      BY <3>1, GcManagerAssumption
  <2>2. index'[KeyOf[content[s][n]]] = index[KeyOf[content[s][n]]]
    BY <1>3, <1>5, <2>1
  <2> QED
    BY <2>2 DEF Alive, IsSameInMem
<1>6. ASSUME NEW s \in Segs, NEW n \in DOMAIN content[s], KeyOf[content[s][n]] = key
      PROVE  /\ n \in Alive(s) <=> old # NoEntry /\ old.seg = s /\ old.pos = n
             /\ n \in Alive(s)' <=> LET new == Kept(e, old)
                                     IN new # NoEntry /\ new.seg = s /\ new.pos = n
  <2>1. index[KeyOf[content[s][n]]] = old /\ index'[KeyOf[content'[s][n]]] = Kept(e, old)
    BY <1>2, <1>3, <1>6
  <2> QED
    BY <2>1 DEF Alive, IsSameInMem
<1>7. e.pos \in DOMAIN content[e.seg] /\ KeyOf[content[e.seg][e.pos]] = key
  BY DEF Housed, key
<1>8. /\ old # NoEntry => ~(old.seg = e.seg /\ old.pos = e.pos)
      /\ e.pos \notin Alive(e.seg) /\ e.pos \notin Dead(e.seg) /\ Used(e.seg)
  BY <1>1, <1>4, <1>6, <1>7 DEF Dead, Housed, Used
<1>9. NonePending'
  <2> SUFFICES ASSUME NEW k \in Keys, NEW f \in Entries, index'[k] = f
               PROVE  f.pos \notin Pending(f.seg)'
    BY DEF NonePending
  <2>0. f.seg \in Segs
    BY DEF Entries
  <2>1. CASE f = e
    BY <2>0, <2>1
  <2>2. CASE f # e
    <3>1. index[k] = f
      BY <1>2, <1>3, <2>2 DEF Kept
    <3> QED
      BY <2>0, <3>1 DEF NonePending
  <2> QED
    BY <2>1, <2>2
<1>10. CASE Kept(e, old) = old
  <2>1. DeadSeg(e, old) = {e.seg}
    BY <1>1, <1>4, <1>8, <1>10 DEF Kept, DeadSeg
  <2>2. ASSUME NEW s \in Segs
        PROVE  Dead(s)' = Dead(s) \cup (IF s \in {e.seg} THEN {e.pos} ELSE {})
    <3>1. \A n \in DOMAIN content[s] : n \in Alive(s)' <=> n \in Alive(s)
      BY <1>5, <1>6, <1>10
    <3>2. CASE s = e.seg
      <4>1. Pending(s)' = Pending(s) \ {e.pos}
        BY <3>2
      <4> QED
        BY <1>7, <1>8, <3>1, <3>2, <4>1 DEF Dead
    <3>3. CASE s # e.seg
      <4>1. Pending(s)' = Pending(s)
        BY <3>3
      <4> QED
        BY <3>1, <3>3, <4>1 DEF Dead
    <3> QED
      BY <3>2, <3>3
  <2> QED
    BY <1>1, <1>3, <1>8, <1>9, <2>1, <2>2, DeathCount
<1>11. CASE Kept(e, old) = e /\ old = NoEntry
  <2>1. DeadSeg(e, old) = {}
    BY <1>1, <1>11 DEF Kept, DeadSeg
  <2>2. ASSUME NEW s \in Segs
        PROVE  Dead(s)' = Dead(s) \cup (IF s \in {} THEN {e.pos} ELSE {})
    <3>1. \A n \in DOMAIN content[s] :
            n \in Alive(s)' <=> n \in Alive(s) \/ (s = e.seg /\ n = e.pos)
      BY <1>1, <1>5, <1>6, <1>7, <1>11
    <3>2. CASE s = e.seg
      <4>1. Pending(s)' = Pending(s) \ {e.pos}
        BY <3>2
      <4> QED
        BY <1>7, <1>8, <3>1, <3>2, <4>1 DEF Dead
    <3>3. CASE s # e.seg
      <4>1. Pending(s)' = Pending(s)
        BY <3>3
      <4> QED
        BY <3>1, <3>3, <4>1 DEF Dead
    <3> QED
      BY <3>2, <3>3
  <2> QED
    BY <1>3, <1>9, <2>1, <2>2, DeathCount
<1>12. CASE Kept(e, old) = e /\ old # NoEntry /\ old # e
  <2>1. DeadSeg(e, old) = {old.seg}
    BY <1>12 DEF Kept, DeadSeg
  <2>2. old.pos \in DOMAIN content[old.seg] /\ KeyOf[content[old.seg][old.pos]] = key
        /\ Used(old.seg) /\ old.seg \in Segs
    BY <1>4, <1>12 DEF Housed, Used
  <2>3. ASSUME NEW s \in Segs
        PROVE  Dead(s)' = Dead(s) \cup (IF s \in {old.seg} THEN {old.pos} ELSE {})
    <3>1. \A n \in DOMAIN content[s] :
            n \in Alive(s)' <=> \/ s = e.seg /\ n = e.pos
                                \/ n \in Alive(s) /\ ~(s = old.seg /\ n = old.pos)
      BY <1>1, <1>5, <1>6, <1>7, <1>8, <1>12, <2>2
    <3>2. s = old.seg => old.pos \notin Pending(s) /\ old.pos \in Alive(s)
      BY <1>4, <1>6, <1>12, <2>2
    <3>3. e.pos \notin Dead(e.seg)
      BY <1>8
    <3>4. Pending(s)' = Pending(s) \ (IF s = e.seg THEN {e.pos} ELSE {})
      OBVIOUS
    <3>5. ASSUME NEW n \in DOMAIN content[s]
          PROVE  n \in Dead(s)' <=> n \in Dead(s) \/ (s = old.seg /\ n = old.pos)
      BY <1>8, <1>12, <3>1, <3>2, <3>3, <3>4 DEF Dead
    <3>6. s = old.seg => old.pos \in DOMAIN content[s]
      BY <2>2
    <3> QED
      BY <3>5, <3>6 DEF Dead
  <2>4. old.pos \notin Dead(old.seg)
    BY <1>6, <1>12, <2>2 DEF Dead
  <2> QED
    BY <1>3, <1>9, <2>1, <2>2, <2>3, <2>4, DeathCount
<1>13. Kept(e, old) \in {e, old}
  BY DEF Kept
<1> QED
  BY <1>8, <1>10, <1>11, <1>12, <1>13

(* Steps that leave the index alone keep the count when each segment keeps *)
(* what it holds, is no longer used, or has just been written.             *)
LEMMA DeathFrame ==
  ASSUME TypeOK, HouseInv, HouseInv', DeathInv, UNCHANGED index, ~dangling, ~dangling',
         \A s \in Segs :
           \/ /\ Used(s) /\ segTable'[s].state = "USED" /\ content'[s] = content[s]
              /\ segTable'[s].death_size = segTable[s].death_size
              /\ Pending(s)' = Pending(s)
           \/ segTable'[s].state # "USED" /\ segTable'[s].death_size = 0
           \/ /\ ~Used(s) /\ segTable'[s].state = "USED" /\ segTable'[s].death_size = 0
              /\ Pending(s)' = DOMAIN content'[s]
  PROVE  DeathInv'
<1>0. DeathCounted /\ NonePending
  BY DEF DeathInv
<1>1. DeathCounted'
  <2> SUFFICES ASSUME NEW s \in Segs
               PROVE  segTable'[s].death_size = IF Used(s)' THEN Cardinality(Dead(s)') ELSE 0
    BY DEF DeathCounted
  <2>1. CASE /\ Used(s) /\ segTable'[s].state = "USED" /\ content'[s] = content[s]
             /\ segTable'[s].death_size = segTable[s].death_size
             /\ Pending(s)' = Pending(s)
    <3>1. Alive(s)' = Alive(s)
      BY <2>1 DEF Alive, IsSameInMem
    <3>2. Dead(s)' = Dead(s)
      BY <2>1, <3>1 DEF Dead
    <3> QED
      BY <1>0, <2>1, <3>2 DEF DeathCounted, Used
  <2>2. CASE segTable'[s].state # "USED" /\ segTable'[s].death_size = 0
    BY <2>2 DEF Used
  <2>3. CASE /\ ~Used(s) /\ segTable'[s].state = "USED" /\ segTable'[s].death_size = 0
             /\ Pending(s)' = DOMAIN content'[s]
    <3>1. Dead(s)' = {}
      BY <2>3 DEF Dead
    <3> QED
      BY <2>3, <3>1, FS_EmptySet DEF Used
  <2> QED
    BY <2>1, <2>2, <2>3
<1>2. NonePending'
  <2> SUFFICES ASSUME NEW k \in Keys, NEW e \in Entries, index'[k] = e
               PROVE  e.pos \notin Pending(e.seg)'
    BY DEF NonePending
  <2>1. index[k] = e /\ e # NoEntry /\ e.seg \in Segs
    BY GcManagerAssumption DEF Entries
  <2>2. Housed(e) /\ Housed(e)'
    BY <2>1 DEF HouseInv, Placed, Excused
  <2>3. Pending(e.seg)' = Pending(e.seg)
    BY <2>1, <2>2 DEF Housed, Used
  <2> QED
    BY <1>0, <2>1, <2>3 DEF NonePending
<1> QED
  BY <1>1, <1>2 DEF DeathInv

(* While no merge runs, what is pending is what batches have to bring.     *)
LEMMA ClientPending ==
  ASSUME gc.at = "idle"
  PROVE  \A s : Pending(s) =
           {n \in DOMAIN content[s] :
              \E b \in Batches : batch[b].at = "update" /\ batch[b].seg = s /\ n >= batch[b].next}
BY DEF Pending

(* While a merge runs, what is pending is what it has to bring.            *)
LEMMA MergePending ==
  ASSUME SegInv, gc.at # "idle"
  PROVE  \A s : Pending(s) =
           {n \in DOMAIN content[s] :
              gc.at \in {"update1", "update2"} /\ gc.seg = s /\ n >= gc.pos}
BY MergeAlone DEF Pending

(* A batch that allocates, writes its segment or fails to.                 *)
LEMMA WriterDeaths ==
  ASSUME ~Overlap, TypeInv, TypeInv', SegInv, SegInv', HouseInv, HouseInv', DeathInv,
         NEW b \in Batches, Allocate(b) \/ WriteSeg(b) \/ WriteSegFails(b)
  PROVE  DeathInv'
<1>1. TypeOK /\ TypeOK'
  BY DEF TypeInv
<1>2. MayRun /\ UNCHANGED <<index, gc, dangling>> /\ batch[b].at \in {"new", "write"}
      /\ \A c \in Batches : c # b => batch'[c] = batch[c]
  BY AllocateTyped, WriteTyped, WriteFailsTyped
<1>3. gc.at = "idle" /\ gc'.at = "idle"
  BY <1>2, ClientAlone
<1>4. \A s \in Segs : Used(s) => segTable'[s].state = "USED" /\ content'[s] = content[s]
  BY ClientKeeps
<1> SUFFICES ASSUME ~dangling PROVE DeathInv'
  BY <1>2 DEF DeathInv
<1>5. DeathCounted
  BY DEF DeathInv
<1>6. \A s \in Segs : segTable[s].state # "USED" => segTable[s].death_size = 0
  BY <1>5 DEF DeathCounted, Used
<1>7. ASSUME NEW seg \in Segs,
             \A s \in Segs : s # seg => segTable'[s] = segTable[s] /\ content'[s] = content[s],
             segTable[seg].state # "USED",
             \/ segTable'[seg].state # "USED" /\ segTable'[seg].death_size = 0
             \/ /\ segTable'[seg].state = "USED" /\ segTable'[seg].death_size = 0
                /\ Pending(seg)' = DOMAIN content'[seg],
             batch'[b].at = "update" => batch'[b].seg = seg
      PROVE  DeathInv'
  <2>1. ASSUME NEW s \in Segs, s # seg PROVE Pending(s)' = Pending(s)
    BY <1>2, <1>3, <1>7, <2>1, ClientPending DEF Pending
  <2>2. \A s \in Segs :
          \/ /\ Used(s) /\ segTable'[s].state = "USED" /\ content'[s] = content[s]
             /\ segTable'[s].death_size = segTable[s].death_size
             /\ Pending(s)' = Pending(s)
          \/ segTable'[s].state # "USED" /\ segTable'[s].death_size = 0
          \/ /\ ~Used(s) /\ segTable'[s].state = "USED" /\ segTable'[s].death_size = 0
             /\ Pending(s)' = DOMAIN content'[s]
    BY <1>6, <1>7, <2>1 DEF Used
  <2> QED
    BY <1>1, <1>2, <2>2, DeathFrame
<1>8. CASE Allocate(b)
  <2>1. PICK seg \in Segs : seg = batch'[b].seg
    BY <1>8, AllocateTyped
  <2>2. /\ batch'[b].at = "write" /\ UNCHANGED content
        /\ segTable[seg].state = "FREE" /\ segTable'[seg].state = "RESERVED"
        /\ segTable'[seg].death_size = segTable[seg].death_size
        /\ \A s \in Segs : s # seg => segTable'[s] = segTable[s]
    BY <1>8, <2>1, AllocateTyped
  <2> QED
    BY <1>6, <1>7, <2>2
<1>9. CASE WriteSeg(b)
  <2>1. PICK seg \in Segs : seg = batch[b].seg
    BY <1>9, WriteTyped
  <2>2. /\ batch[b].at = "write" /\ batch'[b].at = "update" /\ batch'[b].seg = seg
        /\ batch'[b].next = 1
        /\ content'[seg] = Items[b] /\ \A s \in Segs : s # seg => content'[s] = content[s]
        /\ segTable'[seg].state = "USED"
        /\ segTable'[seg].death_size = segTable[seg].death_size
        /\ \A s \in Segs : s # seg => segTable'[s] = segTable[s]
    BY <1>9, <2>1, WriteTyped
  <2>3. segTable[seg].state = "RESERVED"
    BY <2>1, <2>2 DEF SegInv, WriterSegs
  <2>4. Pending(seg)' = DOMAIN content'[seg]
    <3>1. \A n \in DOMAIN content'[seg] : n >= 1
      BY <2>2, ItemsTyped
    <3> QED
      BY <2>2, <3>1 DEF Pending
  <2> QED
    BY <1>6, <1>7, <2>2, <2>3, <2>4
<1>10. CASE WriteSegFails(b)
  <2>1. PICK seg \in Segs : seg = batch[b].seg
    BY <1>10, WriteFailsTyped
  <2>2. /\ batch[b].at = "write" /\ batch'[b].at = "failed" /\ UNCHANGED content
        /\ segTable'[seg].state = "FREE" /\ segTable'[seg].death_size = 0
        /\ \A s \in Segs : s # seg => segTable'[s] = segTable[s]
    BY <1>10, <2>1, WriteFailsTyped
  <2>3. segTable[seg].state = "RESERVED"
    BY <2>1, <2>2 DEF SegInv, WriterSegs
  <2> QED
    BY <1>7, <2>2, <2>3
<1> QED
  BY <1>8, <1>9, <1>10

(* A batch that brings its next write to the index.                        *)
LEMMA BatchUpdateDeaths ==
  ASSUME ~Overlap, TypeInv, SegInv, HouseInv, DeathInv, NEW b \in Batches, BatchUpdate(b)
  PROVE  DeathInv'
<1>1. /\ MayRun /\ UpdateIndex(ItemEntry(b))
      /\ batch[b].at = "update" /\ batch[b].next \in DOMAIN Items[b]
      /\ batch'[b].seg = batch[b].seg
      /\ IF batch[b].next = Len(Items[b])
         THEN batch'[b].at \in {"reap", "done"} /\ batch'[b].next = 1
         ELSE batch'[b].at = "update" /\ batch'[b].next = batch[b].next + 1
      /\ \A c \in Batches : c # b => batch'[c] = batch[c]
      /\ UNCHANGED <<content, gc, dangling>>
  BY BatchUpdateTyped
<1>2. gc.at = "idle" /\ gc'.at = "idle" /\ TypeOK
  BY <1>1, ClientAlone DEF TypeInv
<1>3. PICK e \in Entries : e = ItemEntry(b)
  BY <1>1, <1>2, ItemTyped
<1>4. /\ e.write = Items[b][batch[b].next] /\ e.seg = batch[b].seg /\ e.pos = batch[b].next
      /\ UpdateIndex(e)
  BY <1>1, <1>2, <1>3, ItemTyped
<1>5. Used(e.seg) /\ content[e.seg] = Items[b]
      /\ \A c \in Batches : batch[c].at = "update" /\ batch[c].seg = e.seg => c = b
  BY <1>1, <1>4 DEF SegInv, WriterSegs, Holds
<1>6. Housed(e)
  BY <1>1, <1>4, <1>5 DEF Housed, Used
<1>7. DOMAIN Items[b] = 1 .. Len(Items[b]) /\ Len(Items[b]) \in Nat
  BY ItemsTyped
<1>8. e.pos \in Pending(e.seg)
  BY <1>1, <1>4, <1>5, <1>7 DEF Pending
<1>9. ASSUME NEW s \in Segs
      PROVE  Pending(s)' = Pending(s) \ (IF s = e.seg THEN {e.pos} ELSE {})
  <2>1. CASE s = e.seg
    <3>1. Pending(s) = {n \in 1 .. Len(Items[b]) : n >= e.pos}
      BY <1>1, <1>2, <1>4, <1>5, <1>7, <2>1, ClientPending
    <3>2. Pending(s)' = {n \in 1 .. Len(Items[b]) : n > e.pos}
      <4>1. Pending(s)' = {n \in 1 .. Len(Items[b]) :
               \E c \in Batches : batch'[c].at = "update" /\ batch'[c].seg = s /\ n >= batch'[c].next}
        BY <1>1, <1>2, <1>5, <1>7, <2>1 DEF Pending
      <4>2. \A c \in Batches : batch'[c].at = "update" /\ batch'[c].seg = s => c = b
        BY <1>1, <1>5, <2>1
      <4>3. CASE e.pos = Len(Items[b])
        BY <1>1, <1>4, <1>7, <2>1, <4>1, <4>2, <4>3
      <4>4. CASE e.pos # Len(Items[b])
        BY <1>1, <1>4, <1>7, <2>1, <4>1, <4>2, <4>4
      <4> QED
        BY <4>3, <4>4
    <3> QED
      BY <1>1, <1>4, <1>7, <2>1, <3>1, <3>2
  <2>2. CASE s # e.seg
    BY <1>1, <1>2, <1>4, <2>2 DEF Pending
  <2> QED
    BY <2>1, <2>2
<1>10. ASSUME ~dangling PROVE DeathCounted' /\ NonePending'
  <2>1. DeathCounted /\ NonePending
    BY <1>10 DEF DeathInv
  <2> QED
    BY <1>1, <1>2, <1>4, <1>6, <1>8, <1>9, <1>10, <2>1, UpdateDeaths
<1> QED
  BY <1>1, <1>10 DEF DeathInv

(* The reaper charges the segment in which the removed entry lies.         *)
LEMMA ReapDeaths ==
  ASSUME ~Overlap, TypeInv, SegInv, HouseInv, ReapStamps, DeathInv, NEW b \in Batches, Reap(b)
  PROVE  DeathInv'
<1>1. /\ MayRun /\ ReapedKey(b) \in Keys
      /\ batch[b].at = "reap" /\ batch'[b].at \in {"reap", "done"}
      /\ \A c \in Batches : c # b => batch'[c] = batch[c]
      /\ \/ /\ Removes(b) /\ Charged({batch[b].seg})
            /\ index' = [index EXCEPT ![ReapedKey(b)] = NoEntry]
         \/ UNCHANGED <<index, segTable>>
      /\ UNCHANGED <<content, gc, dangling>>
  BY ReapTyped
<1>2. gc.at = "idle" /\ gc'.at = "idle" /\ TypeOK
  BY <1>1, ClientAlone DEF TypeInv
<1>3. \A s : Pending(s)' = Pending(s)
  BY <1>1, <1>2 DEF Pending
<1> SUFFICES ASSUME ~dangling PROVE DeathCounted' /\ NonePending'
  BY <1>1 DEF DeathInv
<1>4. DeathCounted /\ NonePending
  BY DEF DeathInv
<1>5. CASE UNCHANGED <<index, segTable>>
  <2>1. NonePending'
    BY <1>3, <1>4, <1>5 DEF NonePending
  <2>2. \A s : Alive(s)' = Alive(s) /\ (Used(s)' <=> Used(s))
    BY <1>1, <1>5 DEF Alive, IsSameInMem, Used
  <2>3. \A s : Dead(s)' = Dead(s)
    BY <1>1, <1>3, <2>2 DEF Dead
  <2> QED
    BY <1>4, <1>5, <2>1, <2>2, <2>3 DEF DeathCounted
<1>6. CASE /\ Removes(b) /\ Charged({batch[b].seg})
           /\ index' = [index EXCEPT ![ReapedKey(b)] = NoEntry]
  <2>1. PICK key \in Keys : key = ReapedKey(b)
    BY <1>1
  <2>2. PICK old \in Entries : old = index[key]
    <3>1. index[key] # NoEntry
      BY <1>6, <2>1 DEF Removes
    <3> QED
      BY <1>2, <3>1, EntryTypes
  <2>3. /\ index'[key] = NoEntry /\ \A k \in Keys : k # key => index'[k] = index[k]
        /\ old.stamp = batch[b].stamp
    BY <1>2, <1>6, <2>1, <2>2, Types DEF Removes
  <2>4. old.seg = batch[b].seg
    BY <1>1, <2>2, <2>3 DEF ReapStamps, ReapSegs
  <2>5. KeyOf[old.write] = key /\ old.seg \in Segs /\ Housed(old)
        /\ old.pos \notin Pending(old.seg)
    BY <1>2, <1>4, <2>2, PlacedEntry DEF Excused, NonePending
  <2>6. ASSUME NEW s \in Segs, NEW n \in DOMAIN content[s]
        PROVE  n \in Alive(s)' <=> n \in Alive(s) /\ ~(s = old.seg /\ n = old.pos)
    <3>1. PICK k \in Keys : k = KeyOf[content[s][n]]
      <4>1. content[s][n] \in Writes
        BY <1>2, <2>6, Types, ElementOfSeq
      <4> QED
        BY <4>1, GcManagerAssumption
    <3>2. /\ n \in Alive(s) <=> index[k] # NoEntry /\ index[k].seg = s /\ index[k].pos = n
          /\ n \in Alive(s)' <=> index'[k] # NoEntry /\ index'[k].seg = s /\ index'[k].pos = n
      BY <1>1, <3>1 DEF Alive, IsSameInMem
    <3>3. CASE k = key
      BY <2>2, <2>3, <3>2, <3>3
    <3>4. CASE k # key
      <4>1. ~(s = old.seg /\ n = old.pos)
        BY <2>5, <3>1, <3>4 DEF Housed
      <4> QED
        BY <2>3, <3>2, <3>4, <4>1
    <3> QED
      BY <3>3, <3>4
  <2>7. old.pos \in DOMAIN content[old.seg] /\ old.pos \in Alive(old.seg) /\ Used(old.seg)
    <3>1. old # NoEntry
      BY GcManagerAssumption
    <3> QED
      BY <2>2, <2>5, <3>1 DEF Housed, Used, Alive, IsSameInMem
  <2>8. ASSUME NEW s \in Segs
        PROVE  Dead(s)' = Dead(s) \cup (IF s \in {old.seg} THEN {old.pos} ELSE {})
    <3>1. content'[s] = content[s] /\ Pending(s)' = Pending(s)
      BY <1>1, <1>3
    <3>2. ASSUME NEW n \in DOMAIN content[s]
          PROVE  n \in Dead(s)' <=> n \in Dead(s) \/ (s = old.seg /\ n = old.pos)
      BY <2>5, <2>6, <2>7, <3>1 DEF Dead
    <3> QED
      BY <2>7, <3>1, <3>2 DEF Dead
  <2>9. old.pos \notin Dead(old.seg)
    BY <2>7 DEF Dead
  <2>10. Charged({old.seg})
    BY <1>6, <2>4
  <2>11. DeathCounted'
    BY <1>2, <1>4, <2>5, <2>7, <2>8, <2>9, <2>10, DeathCount
  <2>12. NonePending'
    <3>1. ASSUME NEW k \in Keys, NEW f \in Entries, index'[k] = f PROVE index[k] = f
      BY <2>3, <3>1, GcManagerAssumption
    <3> QED
      BY <1>3, <1>4, <3>1 DEF NonePending
  <2> QED
    BY <2>11, <2>12
<1> QED
  BY <1>1, <1>5, <1>6

(* The copy a merge brings to the index.                                   *)
LEMMA CopyUpdateDeaths ==
  ASSUME TypeInv, SegInv, HouseInv, DeathInv,
         GcUpdate("update1", gc.first) \/ GcUpdate("update2", gc.list)
  PROVE  DeathInv'
<1>1. /\ UpdateIndex(NextCopy) /\ NextCopy \in Entries
      /\ gc.at \in {"update1", "update2"} /\ gc.pos \in DOMAIN Copies
      /\ NextCopy.write = Copies[gc.pos] /\ NextCopy.seg = gc.seg /\ gc.seg \in Segs
      /\ NextCopy.pos = gc.pos
      /\ gc'.pos = gc.pos + 1 /\ UNCHANGED <<gc.at, gc.seg, content, dangling, batch>>
      /\ TypeOK
  BY CopyUpdateTyped DEF TypeInv, OthersKeep
<1>2. PICK e \in Entries : e = NextCopy
  BY <1>1
<1>3. e.seg = gc.seg /\ e.pos = gc.pos /\ e.write = Copies[gc.pos] /\ UpdateIndex(e)
  BY <1>1, <1>2
<1>4. Used(e.seg) /\ content[e.seg] = Copies
  BY <1>1, <1>3 DEF SegInv, CopySeg
<1>5. Housed(e)
  BY <1>1, <1>3, <1>4 DEF Housed, Used
<1>6. DOMAIN content[e.seg] = 1 .. Len(content[e.seg]) /\ Len(content[e.seg]) \in Nat
      /\ e.pos \in Nat
  BY <1>1, <1>3, Types
<1>7. \A s : Pending(s) = {n \in DOMAIN content[s] : gc.seg = s /\ n >= gc.pos}
  BY <1>1, MergePending
<1>8. \A s : Pending(s)' = {n \in DOMAIN content[s] : gc.seg = s /\ n >= gc.pos + 1}
  <2>1. \A c \in Batches : batch'[c].at # "update"
    BY <1>1, MergeAlone
  <2> QED
    BY <1>1, <2>1 DEF Pending
<1>9. e.pos \in Pending(e.seg)
  BY <1>1, <1>3, <1>4, <1>6, <1>7
<1>10. ASSUME NEW s \in Segs
       PROVE  Pending(s)' = Pending(s) \ (IF s = e.seg THEN {e.pos} ELSE {})
  <2>1. CASE s = e.seg
    BY <1>3, <1>6, <1>7, <1>8, <2>1
  <2>2. CASE s # e.seg
    BY <1>3, <1>7, <1>8, <2>2
  <2> QED
    BY <2>1, <2>2
<1>11. ASSUME ~dangling PROVE DeathCounted' /\ NonePending'
  <2>1. DeathCounted /\ NonePending
    BY <1>11 DEF DeathInv
  <2> QED
    BY <1>1, <1>3, <1>5, <1>9, <1>10, <1>11, <2>1, UpdateDeaths
<1> QED
  BY <1>1, <1>11 DEF DeathInv

(* A merge step that leaves the index alone touches one segment at most.   *)
LEMMA MergeDeaths ==
  ASSUME TypeInv, HouseInv, HouseInv', DeathInv, UNCHANGED index, dangling => dangling',
         NEW seg \in Segs,
         \A s \in Segs : s # seg => /\ segTable'[s] = segTable[s] /\ content'[s] = content[s]
                                    /\ Pending(s)' = Pending(s),
         ~dangling =>
         \/ /\ segTable'[seg] = segTable[seg] /\ content'[seg] = content[seg]
            /\ Pending(seg)' = Pending(seg)
         \/ segTable'[seg].state # "USED" /\ segTable'[seg].death_size = 0
         \/ /\ ~Used(seg) /\ segTable'[seg].state = "USED" /\ segTable'[seg].death_size = 0
            /\ Pending(seg)' = DOMAIN content'[seg]
  PROVE  DeathInv'
<1>1. TypeOK
  BY DEF TypeInv
<1> SUFFICES ASSUME ~dangling', ~dangling PROVE DeathInv'
  BY DEF DeathInv
<1>2. \A s \in Segs : segTable[s].state # "USED" => segTable[s].death_size = 0
  BY DEF DeathInv, DeathCounted, Used
<1>3. \A s \in Segs :
        \/ /\ Used(s) /\ segTable'[s].state = "USED" /\ content'[s] = content[s]
           /\ segTable'[s].death_size = segTable[s].death_size
           /\ Pending(s)' = Pending(s)
        \/ segTable'[s].state # "USED" /\ segTable'[s].death_size = 0
        \/ /\ ~Used(s) /\ segTable'[s].state = "USED" /\ segTable'[s].death_size = 0
           /\ Pending(s)' = DOMAIN content'[s]
  BY <1>2 DEF Used
<1> QED
  BY <1>1, <1>3, DeathFrame

(* Nothing is pending before a merge writes and after its updates.         *)
LEMMA NothingPending ==
  ASSUME TypeInv, SegInv, gc.at # "idle",
         gc.at \notin {"update1", "update2"} \/ gc.pos \notin DOMAIN Copies
  PROVE  \A s \in Segs : Pending(s) = {}
<1>1. \A s : Pending(s) = {n \in DOMAIN content[s] :
                gc.at \in {"update1", "update2"} /\ gc.seg = s /\ n >= gc.pos}
  BY MergePending
<1>2. CASE gc.at \in {"update1", "update2"} /\ gc.pos \notin DOMAIN Copies
  <2>1. content[gc.seg] = Copies /\ content[gc.seg] \in Seq(Writes) /\ gc.pos \in Nat \ {0}
    BY <1>2, Types DEF TypeInv, SegInv, CopySeg
  <2>2. \A n \in DOMAIN content[gc.seg] : ~(n >= gc.pos)
    BY <1>2, <2>1
  <2> QED
    BY <1>1, <2>2
<1> QED
  BY <1>1, <1>2

(* After a step of a merge only its own copies can be pending.             *)
LEMMA MergePendingAfter ==
  ASSUME SegInv, gc.at # "idle", UNCHANGED batch
  PROVE  \A s : Pending(s)' =
           {n \in DOMAIN content'[s] :
              gc'.at \in {"update1", "update2"} /\ gc'.seg = s /\ n >= gc'.pos}
<1>1. \A c \in Batches : batch'[c].at # "update"
  BY MergeAlone
<1> QED
  BY <1>1 DEF Pending

(* A merge begins, loads, packs, or goes on after its updates.             *)
LEMMA QuietDeaths ==
  ASSUME ~Overlap, TypeInv, SegInv, HouseInv, HouseInv', DeathInv,
         \/ GcSort \/ GcLoadEntry \/ GcPack
         \/ GcUpdated("update1", gc.first, "free1") \/ GcUpdated("update2", gc.list, "free2")
         \/ GcFirstDone
  PROVE  DeathInv'
<1>1. PICK seg \in Segs : seg = gc.seg
  BY Types DEF TypeInv
<1>2. CASE GcSort
  <2>1. UNCHANGED <<segVars, content, index, batch, dangling>> /\ gc.at = "idle" /\ gc'.at = "load"
    BY <1>2, SortTyped
  <2>2. \A s : Pending(s)' = Pending(s)
    BY <2>1 DEF Pending
  <2>3. \A s \in Segs : /\ segTable'[s] = segTable[s] /\ content'[s] = content[s]
                        /\ Pending(s)' = Pending(s)
    BY <2>1, <2>2 DEF segVars
  <2> QED
    BY <1>1, <2>1, <2>3, MergeDeaths
<1>3. CASE \/ GcLoadEntry \/ GcPack
           \/ GcUpdated("update1", gc.first, "free1") \/ GcUpdated("update2", gc.list, "free2")
           \/ GcFirstDone
  <2>1. /\ UNCHANGED <<segVars, content, index, batch>> /\ (dangling => dangling')
        /\ gc.at # "idle" /\ gc'.at \notin {"update1", "update2"}
        /\ gc.at \notin {"update1", "update2"} \/ gc.pos \notin DOMAIN Copies
    <3>1. CASE GcLoadEntry
      BY <3>1, LoadTyped DEF OthersKeep
    <3>2. CASE GcPack
      BY <3>2, PackTyped DEF OthersKeep
    <3>3. CASE \/ GcUpdated("update1", gc.first, "free1")
               \/ GcUpdated("update2", gc.list, "free2")
               \/ GcFirstDone /\ gc.last # {}
      BY <3>3, OnwardTyped DEF OthersKeep
    <3>4. CASE GcFirstDone /\ gc.last = {}
      BY <3>4, DoneTyped, IdleTyped DEF OthersKeep
    <3> QED
      BY <1>3, <3>1, <3>2, <3>3, <3>4
  <2>2. \A s \in Segs : Pending(s)' = Pending(s)
    <3>1. \A s \in Segs : Pending(s) = {}
      BY <2>1, NothingPending
    <3>2. \A s \in Segs : Pending(s)' = {}
      BY <2>1, MergePendingAfter
    <3> QED
      BY <3>1, <3>2
  <2>3. \A s \in Segs : /\ segTable'[s] = segTable[s] /\ content'[s] = content[s]
                        /\ Pending(s)' = Pending(s)
    BY <2>1, <2>2 DEF segVars
  <2> QED
    BY <1>1, <2>1, <2>3, MergeDeaths
<1> QED
  BY <1>2, <1>3

(* A merge takes a segment, writes it, or frees one.                       *)
LEMMA SegmentDeaths ==
  ASSUME TypeInv, SegInv, HouseInv, HouseInv', DeathInv,
         \/ GcAlloc("alloc1", "write1") \/ GcAlloc("alloc2", "write2")
         \/ GcWrite("write1", gc.first, "update1") \/ GcWrite("write2", gc.list, "update2")
         \/ GcWriteFails \/ GcFree \/ GcFreeLast
  PROVE  DeathInv'
<1>1. ASSUME NEW s \in Segs, ~dangling, segTable[s].state # "USED"
      PROVE  segTable[s].death_size = 0
  BY <1>1 DEF DeathInv, DeathCounted, Used
<1>2. ASSUME gc.at \notin {"idle", "update1", "update2"}, gc'.at \notin {"update1", "update2"},
             UNCHANGED <<index, batch, dangling, content>>, NEW seg \in Segs,
             \A s \in Segs : s # seg => segTable'[s] = segTable[s],
             ~dangling => segTable'[seg].state # "USED" /\ segTable'[seg].death_size = 0
      PROVE  DeathInv'
  <2>1. \A s \in Segs : Pending(s) = {}
    BY <1>2, NothingPending
  <2>2. \A s \in Segs : Pending(s)' = {}
    BY <1>2, MergePendingAfter
  <2>3. \A s \in Segs : s # seg => /\ segTable'[s] = segTable[s] /\ content'[s] = content[s]
                                   /\ Pending(s)' = Pending(s)
    BY <1>2, <2>1, <2>2
  <2> QED
    BY <1>2, <2>3, MergeDeaths
<1>3. CASE GcAlloc("alloc1", "write1") \/ GcAlloc("alloc2", "write2")
  <2>1. PICK seg \in Segs : seg = gc'.seg
    BY <1>3, AllocTyped
  <2>2. /\ gc.at \in {"alloc1", "alloc2"} /\ gc'.at \in {"write1", "write2"}
        /\ UNCHANGED <<index, batch, dangling, content>>
        /\ segTable[seg].state = "FREE" /\ segTable'[seg].state = "RESERVED"
        /\ segTable'[seg].death_size = segTable[seg].death_size
        /\ \A s \in Segs : s # seg => segTable'[s] = segTable[s]
    BY <1>3, <2>1, AllocTyped DEF OthersKeep
  <2> QED
    BY <1>1, <1>2, <2>2
<1>4. CASE GcWrite("write1", gc.first, "update1") \/ GcWrite("write2", gc.list, "update2")
  <2>1. PICK seg \in Segs : seg = gc.seg
    BY <1>4, CopyTyped
  <2>2. /\ gc.at \in {"write1", "write2"} /\ gc'.at \in {"update1", "update2"}
        /\ gc'.pos = 1 /\ gc'.seg = seg
        /\ \A s \in Segs : s # seg => content'[s] = content[s]
        /\ segTable'[seg].state = "USED"
        /\ segTable'[seg].death_size = segTable[seg].death_size
        /\ \A s \in Segs : s # seg => segTable'[s] = segTable[s]
        /\ UNCHANGED <<index, batch, dangling>>
    BY <1>4, <2>1, CopyTyped
  <2>3. segTable[seg].state = "RESERVED"
    BY <2>1, <2>2 DEF SegInv, CopySeg
  <2>4. \A s \in Segs : Pending(s) = {}
    BY <2>2, NothingPending
  <2>5. \A s \in Segs : Pending(s)' = {n \in DOMAIN content'[s] : seg = s /\ n >= 1}
    BY <2>2, MergePendingAfter
  <2>6. Pending(seg)' = DOMAIN content'[seg]
    <3>1. \A n \in DOMAIN content'[seg] : n >= 1
      <4>1. TypeOK'
        BY <1>4, CopyTyped DEF TypeInv
      <4>2. content'[seg] \in Seq(Writes)
        BY <4>1 DEF TypeOK
      <4> QED
        BY <4>2
    <3> QED
      BY <2>5, <3>1
  <2>7. \A s \in Segs : s # seg => Pending(s)' = Pending(s)
    BY <2>4, <2>5
  <2>8. ~dangling => segTable'[seg].death_size = 0
    BY <1>1, <2>2, <2>3
  <2> QED
    BY <2>2, <2>3, <2>6, <2>7, <2>8, MergeDeaths DEF Used
<1>5. CASE GcWriteFails
  <2>1. PICK seg \in Segs : seg = gc.seg
    BY <1>5, CopyFailsTyped
  <2>2. /\ gc.at \in {"write1", "write2"} /\ gc'.at = "idle"
        /\ segTable'[seg].state = "FREE" /\ segTable'[seg].death_size = 0
        /\ \A s \in Segs : s # seg => segTable'[s] = segTable[s]
        /\ UNCHANGED <<content, index, dangling, batch>>
    BY <1>5, <2>1, CopyFailsTyped, IdleTyped DEF OthersKeep
  <2> QED
    BY <1>2, <2>2
<1>6. CASE GcFree
  <2>1. PICK seg \in Segs : seg = gc.frees[1]
    BY <1>6, FreeSourceTyped
  <2>2. /\ gc.at = "free1" /\ gc'.at = "free1"
        /\ segTable'[seg].state = "FREE" /\ segTable'[seg].death_size = 0
        /\ \A s \in Segs : s # seg => segTable'[s] = segTable[s]
        /\ UNCHANGED <<content, index, dangling, batch>>
    BY <1>6, <2>1, FreeSourceTyped DEF OthersKeep
  <2> QED
    BY <1>2, <2>2
<1>7. CASE GcFreeLast
  <2>1. PICK seg \in Segs :
          /\ segTable'[seg].state = "FREE" /\ segTable'[seg].death_size = 0
          /\ \A s \in Segs : s # seg => segTable'[s] = segTable[s]
    BY <1>7, FreeLastTyped
  <2>2. gc.at = "free2" /\ gc'.at = "idle" /\ UNCHANGED <<content, index, dangling, batch>>
    BY <1>7, FreeLastTyped, IdleTyped DEF OthersKeep
  <2> QED
    BY <1>2, <2>1, <2>2
<1> QED
  BY <1>3, <1>4, <1>5, <1>6, <1>7

(* ReapStamps in a state where batches and index are as before.            *)
LEMMA SameReapStamps ==
  ASSUME ReapStamps, UNCHANGED OwnStamps,
         \A c \in Batches : batch'[c].at \in {"update", "reap"} =>
           batch[c].at \in {"update", "reap"} /\ batch'[c].stamp = batch[c].stamp
             /\ batch'[c].seg = batch[c].seg,
         \A k \in Keys, e \in Entries : index'[k] = e => index[k] = e
  PROVE  ReapStamps'
BY DEF ReapStamps, ReapSegs

(* Entries that the reaper may remove are charged to the right segment.    *)
LEMMA ReapStampsStep ==
  ASSUME ~Overlap, TypeInv, SegInv, Stamps, ReapStamps, [Next]_vars
  PROVE  ReapStamps'
<1>0. TypeOK /\ NoEntry \notin Entries /\ clock \in Nat
      /\ \A b \in Batches : batch[b].stamp \in Nat
  BY Types, GcManagerAssumption DEF TypeInv
<1>1. ASSUME NEW b \in Batches, Allocate(b) \/ WriteSegFails(b) PROVE ReapStamps'
  <2>1. /\ batch[b].at \in {"new", "write"} /\ batch'[b].at \in {"write", "failed"}
        /\ \A c \in Batches : c # b => batch'[c] = batch[c]
        /\ UNCHANGED index
    BY <1>1, AllocateTyped, WriteFailsTyped
  <2>2. \A c \in Batches : /\ Written(c)' <=> Written(c)
                           /\ Written(c) => batch'[c].stamp = batch[c].stamp
    BY <2>1 DEF Written
  <2>3. UNCHANGED OwnStamps
    BY <2>2 DEF OwnStamps
  <2> QED
    BY <2>1, <2>3, SameReapStamps
<1>2. ASSUME NEW b \in Batches, WriteSeg(b) PROVE ReapStamps'
  <2>1. /\ batch[b].at = "write" /\ batch'[b].at = "update" /\ batch'[b].stamp = clock + 1
        /\ \A c \in Batches : c # b => batch'[c] = batch[c]
        /\ UNCHANGED index
    BY <1>2, WriteTyped
  <2>2. \A c \in Batches : batch[c].stamp < clock + 1
    BY <1>0 DEF Stamps
  <2>3. OwnStamps'
    BY <1>0, <2>1, <2>2 DEF ReapStamps, OwnStamps, Written
  <2>4. ASSUME NEW c \in Batches, NEW k \in Keys, NEW e \in Entries,
               batch'[c].at \in {"update", "reap"}, index'[k] = e, e.stamp = batch'[c].stamp
        PROVE  e.seg = batch'[c].seg
    <3>1. index[k] = e /\ e.stamp \in Nat
      BY <2>1, <2>4 DEF Entries
    <3>2. e.stamp < clock + 1
      BY <1>0, <2>4, <3>1 DEF Stamps
    <3>3. c # b
      BY <1>0, <2>1, <2>4, <3>1, <3>2
    <3> QED
      BY <2>1, <2>4, <3>1, <3>3 DEF ReapStamps, ReapSegs
  <2> QED
    BY <2>3, <2>4 DEF ReapStamps, ReapSegs
<1>3. ASSUME NEW b \in Batches, BatchUpdate(b) PROVE ReapStamps'
  <2>1. /\ UpdateIndex(ItemEntry(b))
        /\ batch[b].at = "update" /\ batch[b].next \in DOMAIN Items[b]
        /\ batch'[b].seg = batch[b].seg /\ batch'[b].stamp = batch[b].stamp
        /\ batch'[b].at \in {"update", "reap", "done"}
        /\ \A c \in Batches : c # b => batch'[c] = batch[c]
    BY <1>3, BatchUpdateTyped
  <2>2. PICK f \in Entries : f = ItemEntry(b)
    BY <1>0, <2>1, ItemTyped
  <2>3. f.seg = batch[b].seg /\ f.stamp = batch[b].stamp /\ UpdateIndex(f)
    BY <1>0, <2>1, <2>2, ItemTyped
  <2>4. \A k \in Keys : index'[k] \in {f, index[k]}
    BY <1>0, <2>3, UpdateCases
  <2>5. OwnStamps'
    BY <2>1 DEF ReapStamps, OwnStamps, Written
  <2>6. ASSUME NEW c \in Batches, NEW k \in Keys, NEW e \in Entries,
               batch'[c].at \in {"update", "reap"}, index'[k] = e, e.stamp = batch'[c].stamp
        PROVE  e.seg = batch'[c].seg
    <3>1. batch'[c].seg = batch[c].seg /\ batch'[c].stamp = batch[c].stamp
          /\ batch[c].at \in {"update", "reap"}
      BY <2>1, <2>6
    <3>2. CASE e = index[k]
      BY <2>6, <3>1, <3>2 DEF ReapStamps, ReapSegs
    <3>3. CASE e = f
      <4>1. c = b
        BY <2>1, <2>3, <2>6, <3>1, <3>3 DEF ReapStamps, OwnStamps, Written
      <4> QED
        BY <2>3, <3>1, <3>3, <4>1
    <3> QED
      BY <2>4, <2>6, <3>2, <3>3
  <2> QED
    BY <2>5, <2>6 DEF ReapStamps, ReapSegs
<1>4. ASSUME NEW b \in Batches, Reap(b) PROVE ReapStamps'
  <2>1. /\ batch[b].at = "reap" /\ batch'[b].at \in {"reap", "done"}
        /\ batch'[b].seg = batch[b].seg /\ batch'[b].stamp = batch[b].stamp
        /\ \A c \in Batches : c # b => batch'[c] = batch[c]
        /\ \/ index' = [index EXCEPT ![ReapedKey(b)] = NoEntry]
           \/ UNCHANGED index
    BY <1>4, ReapTyped
  <2>2. UNCHANGED OwnStamps
    BY <2>1 DEF OwnStamps, Written
  <2>3. \A k \in Keys, e \in Entries : index'[k] = e => index[k] = e
    BY <1>0, <2>1, Types
  <2> QED
    BY <2>1, <2>2, <2>3, SameReapStamps
<1>5. CASE \/ \E c \in Readers : Find(c) \/ ReadData(c)
           \/ GcSort \/ UNCHANGED vars
  <2>1. UNCHANGED <<index, batch>>
    BY <1>5, ReaderTyped, SortTyped DEF vars
  <2>2. UNCHANGED OwnStamps
    BY <2>1 DEF OwnStamps, Written
  <2> QED
    BY <2>1, <2>2, SameReapStamps
<1>6. CASE doMerge
  <2>1. gc.at # "idle" /\ UNCHANGED batch
    BY <1>6 DEF doMerge, GcLoadEntry, GcPack, GcAlloc, GcWrite, GcWriteFails, GcUpdate,
                GcUpdated, GcFree, GcFirstDone, GcFreeLast, OthersKeep
  <2>2. \A b \in Batches : batch'[b].at \notin {"update", "reap"}
    BY <2>1, MergeAlone
  <2>3. OwnStamps'
    BY <2>1 DEF ReapStamps, OwnStamps, Written
  <2> QED
    BY <2>2, <2>3 DEF ReapStamps, ReapSegs
<1> QED
  BY <1>1, <1>2, <1>3, <1>4, <1>5, <1>6 DEF Next

(* No step of clients, reaper or merge gets the dead space wrong.          *)
LEMMA DeathStep ==
  ASSUME ~Overlap, TypeInv, TypeInv', SegInv, SegInv', HouseInv, HouseInv', ReapStamps,
         DeathInv, [Next]_vars
  PROVE  DeathInv'
<1>1. ASSUME NEW b \in Batches,
             Allocate(b) \/ WriteSeg(b) \/ WriteSegFails(b) \/ BatchUpdate(b) \/ Reap(b)
      PROVE  DeathInv'
  BY <1>1, WriterDeaths, BatchUpdateDeaths, ReapDeaths
<1>2. CASE \/ \E c \in Readers : Find(c) \/ ReadData(c)
           \/ UNCHANGED vars
  <2>1. UNCHANGED <<segVars, content, index, batch, gc, dangling>>
    BY <1>2, ReaderTyped DEF vars, history
  <2>2. \A s : Dead(s)' = Dead(s) /\ Pending(s)' = Pending(s) /\ (Used(s)' <=> Used(s))
    BY <2>1 DEF Dead, Alive, IsSameInMem, Pending, Used, segVars
  <2>3. DeathCounted' <=> DeathCounted
    BY <2>1, <2>2 DEF DeathCounted, segVars
  <2>4. NonePending' <=> NonePending
    BY <2>1, <2>2 DEF NonePending
  <2> QED
    BY <2>1, <2>3, <2>4 DEF DeathInv
<1>3. CASE GcSort \/ doMerge
  BY <1>3, QuietDeaths, SegmentDeaths, CopyUpdateDeaths DEF doMerge
<1> QED
  BY <1>1, <1>2, <1>3 DEF Next

(* Nothing is dead in the beginning.                                       *)
LEMMA DeathInit == Init => DeathInv /\ ReapStamps
<1> SUFFICES ASSUME Init PROVE DeathInv /\ ReapStamps
  OBVIOUS
<1>1. /\ \A s \in Segs : segTable[s].state = "FREE" /\ segTable[s].death_size = 0
      /\ \A k \in Keys : index[k] = NoEntry
      /\ \A b \in Batches : batch[b].at = "new"
  BY DEF Init, SegInit, FreshStat, NewBatch
<1>2. DeathInv
  BY <1>1, GcManagerAssumption DEF DeathInv, DeathCounted, NonePending, Used
<1>3. ReapStamps
  BY <1>1 DEF ReapStamps, OwnStamps, ReapSegs, Written
<1> QED
  BY <1>2, <1>3

(* The count is the one the property speaks of.                            *)
LEMMA DeathImplies ==
  ASSUME DeathInv
  PROVE  DeathIsExact
BY DEF DeathInv, DeathCounted, DeathIsExact, Dead, Used, InState

-----------------------------------------------------------------------------
(* What merges, clients, reaper and readers keep. *)

ClientInv ==
  /\ TypeInv /\ SegInv /\ HouseInv /\ Stamps
  /\ ReadInv /\ VisibleInv /\ ReapStamps /\ DeathInv

(* Each part is kept with the help of the others.                          *)
LEMMA ClientInvStep == ~Overlap /\ ClientInv /\ [Next]_vars => ClientInv'
<1> SUFFICES ASSUME ~Overlap, ClientInv, [Next]_vars PROVE ClientInv'
  OBVIOUS
<1> USE DEF ClientInv
<1>1. TypeInv'
  BY TypeStep
<1>2. SegInv'
  BY SegInvStep
<1>3. HouseInv'
  BY HouseStep
<1>4. Stamps'
  BY StampsStep
<1>5. ReadInv'
  BY ReadStep
<1>6. VisibleInv'
  BY VisibleStep
<1>7. ReapStamps'
  BY ReapStampsStep
<1>8. DeathInv'
  BY <1>1, <1>2, <1>3, DeathStep
<1> QED
  BY <1>1, <1>2, <1>3, <1>4, <1>5, <1>6, <1>7, <1>8

(* All of it holds in the beginning.                                       *)
LEMMA ClientInvInit == Init => ClientInv
<1>1. Init => ReadInv
  BY DEF Init, ReadInv
<1> QED
  BY <1>1, TypeInit, SegInvInit, HouseInit, VisibleInit, DeathInit DEF ClientInv

(* All of it holds at every step when nothing overlaps a merge.            *)
LEMMA ClientInvKept == ~Overlap => (Spec => []ClientInv)
<1> SUFFICES ASSUME ~Overlap PROVE Spec => []ClientInv
  OBVIOUS
<1>1. ClientInv /\ [Next]_vars => ClientInv'
  BY ClientInvStep
<1> QED
  BY <1>1, ClientInvInit, PTL DEF Spec

(* Types, entries, records and dead space agree at every step of a merge,  *)
(* of the clients and of the reaper, when nothing overlaps a merge.        *)
THEOREM GcConsistent == ~Overlap => (Spec => []Consistent)
<1>1. ClientInv => Consistent
  BY HouseImplies, DeathImplies DEF ClientInv, TypeInv, Consistent, ReadInv, ReadIsRight
<1> QED
  BY <1>1, ClientInvKept, PTL

(* What a read would find is the last completed write or a concurrent one, *)
(* also after merges have moved the records about.                         *)
THEOREM GcLatestVisible == ~Overlap => (Spec => []LatestVisible)
<1>1. ClientInv => LatestVisible
  BY VisibleImplies DEF ClientInv
<1> QED
  BY <1>1, ClientInvKept, PTL

-----------------------------------------------------------------------------
(* Free space. *)

(* free_size of a USED segment is what its records leave.                  *)
FreeExact == \A s \in Segs : Used(s) => segTable[s].free_size = FreeAfter(Len(content[s]))

(* Records of a candidate that loadSegKV has seen and kept.                *)
Seen(s) == {n \in Alive(s) : n < gc.pos}

(* The first candidate is small enough to go whole into the first segment. *)
FirstLoad ==
  \A s \in Segs : gc.at = "load" /\ gc.frees = <<>> /\ gc.cands[1] = s =>
    gc.first = <<>> /\ UsedSize(s) < Thld /\ Len(gc.list) <= Cardinality(Seen(s))

(* What the merge has taken so far it gives back before it ends.           *)
Gains ==
  /\ gc.at \in {"load", "alloc1", "alloc2"} => freedCounter >= gc.freeAtStart
  /\ gc.at \in {"alloc1", "write1", "update1"} => gc.frees # <<>>
  /\ gc.at \in {"write1", "update1", "write2", "update2", "free2"} =>
       freedCounter >= gc.freeAtStart - 1
  /\ gc.at = "free1" => freedCounter + Len(gc.frees) >= gc.freeAtStart

SpaceInv == FreeExact /\ (~dangling => FirstLoad /\ Gains)

(* free_size stays exact when each segment keeps it or has been written.   *)
LEMMA FreeFrame ==
  ASSUME FreeExact,
         \A s \in Segs : segTable'[s].state = "USED" =>
           \/ /\ Used(s) /\ content'[s] = content[s]
              /\ segTable'[s].free_size = segTable[s].free_size
           \/ segTable'[s].free_size = FreeAfter(Len(content'[s]))
  PROVE  FreeExact'
<1> SUFFICES ASSUME NEW s \in Segs, segTable'[s].state = "USED"
             PROVE  segTable'[s].free_size = FreeAfter(Len(content'[s]))
  BY DEF FreeExact, Used, FreeAfter
<1> QED
  BY DEF FreeExact, Used

(* Clients and readers keep free_size exact.                               *)
LEMMA ClientFree ==
  ASSUME TypeInv, SegInv, FreeExact,
         \/ \E b \in Batches :
              Allocate(b) \/ WriteSeg(b) \/ WriteSegFails(b) \/ BatchUpdate(b) \/ Reap(b)
         \/ \E c \in Readers : Find(c) \/ ReadData(c)
  PROVE  FreeExact'
<1>1. ASSUME NEW b \in Batches, Allocate(b) PROVE FreeExact'
  <2>1. PICK seg \in Segs : seg = batch'[b].seg
    BY <1>1, AllocateTyped
  <2>2. /\ UNCHANGED content /\ segTable'[seg].state = "RESERVED"
        /\ \A s \in Segs : s # seg => segTable'[s] = segTable[s]
    BY <1>1, <2>1, AllocateTyped
  <2> QED
    BY <2>2, FreeFrame DEF Used
<1>2. ASSUME NEW b \in Batches, WriteSeg(b) PROVE FreeExact'
  <2>1. PICK seg \in Segs : seg = batch[b].seg
    BY <1>2, WriteTyped
  <2>2. /\ content'[seg] = Items[b] /\ \A s \in Segs : s # seg => content'[s] = content[s]
        /\ segTable'[seg].free_size = FreeAfter(Len(Items[b]))
        /\ \A s \in Segs : s # seg => segTable'[s] = segTable[s]
    BY <1>2, <2>1, WriteTyped
  <2> QED
    BY <2>2, FreeFrame DEF Used
<1>3. ASSUME NEW b \in Batches, WriteSegFails(b) PROVE FreeExact'
  <2>1. PICK seg \in Segs : seg = batch[b].seg
    BY <1>3, WriteFailsTyped
  <2>2. /\ UNCHANGED content /\ segTable'[seg].state = "FREE"
        /\ \A s \in Segs : s # seg => segTable'[s] = segTable[s]
    BY <1>3, <2>1, WriteFailsTyped
  <2> QED
    BY <2>2, FreeFrame DEF Used
<1>4. ASSUME NEW D, Charged(D) \/ UNCHANGED segTable, UNCHANGED content PROVE FreeExact'
  BY <1>4, FreeFrame DEF Charged, Used
<1>5. ASSUME NEW b \in Batches, BatchUpdate(b) PROVE FreeExact'
  <2>1. UpdateIndex(ItemEntry(b)) /\ batch[b].next \in DOMAIN Items[b] /\ UNCHANGED content
        /\ TypeOK
    BY <1>5, BatchUpdateTyped DEF TypeInv
  <2>2. PICK e \in Entries : e = ItemEntry(b)
    BY <2>1, ItemTyped
  <2>3. Charged(DeadSeg(e, index[KeyOf[e.write]]))
    BY <2>1, <2>2, UpdateTyped
  <2> QED
    BY <1>4, <2>1, <2>3
<1>6. ASSUME NEW b \in Batches, Reap(b) PROVE FreeExact'
  BY <1>4, <1>6, ReapTyped
<1>7. ASSUME NEW c \in Readers, Find(c) \/ ReadData(c) PROVE FreeExact'
  BY <1>4, <1>7, ReaderTyped DEF segVars
<1> QED
  BY <1>1, <1>2, <1>3, <1>5, <1>6, <1>7

(* So do merges.                                                           *)
LEMMA MergeFree ==
  ASSUME TypeInv, SegInv, FreeExact, GcSort \/ doMerge
  PROVE  FreeExact'
<1>1. ASSUME NEW seg \in Segs, UNCHANGED content, segTable'[seg].state # "USED",
             \A s \in Segs : s # seg => segTable'[s] = segTable[s]
      PROVE  FreeExact'
  BY <1>1, FreeFrame DEF Used
<1>2. CASE UNCHANGED <<segVars, content>>
  BY <1>2, FreeFrame DEF Used, segVars
<1>3. CASE GcAlloc("alloc1", "write1") \/ GcAlloc("alloc2", "write2")
  <2>1. PICK seg \in Segs : seg = gc'.seg
    BY <1>3, AllocTyped
  <2> QED
    BY <1>1, <1>3, <2>1, AllocTyped
<1>4. CASE GcWrite("write1", gc.first, "update1") \/ GcWrite("write2", gc.list, "update2")
  <2>1. PICK seg \in Segs : seg = gc.seg
    BY <1>4, CopyTyped
  <2>2. /\ content'[seg] = Copies /\ \A s \in Segs : s # seg => content'[s] = content[s]
        /\ segTable'[seg].free_size = FreeAfter(Len(Copies))
        /\ \A s \in Segs : s # seg => segTable'[s] = segTable[s]
    BY <1>4, <2>1, CopyTyped
  <2> QED
    BY <2>2, FreeFrame DEF Used
<1>5. CASE GcWriteFails
  <2>1. PICK seg \in Segs : seg = gc.seg
    BY <1>5, CopyFailsTyped
  <2> QED
    BY <1>1, <1>5, <2>1, CopyFailsTyped
<1>6. CASE GcUpdate("update1", gc.first) \/ GcUpdate("update2", gc.list)
  <2>1. PICK e \in Entries : e = NextCopy
    BY <1>6, CopyUpdateTyped
  <2>2. UpdateIndex(e) /\ UNCHANGED content /\ TypeOK
    BY <1>6, <2>1, CopyUpdateTyped DEF TypeInv
  <2>3. Charged(DeadSeg(e, index[KeyOf[e.write]]))
    BY <2>2, UpdateTyped
  <2> QED
    BY <2>2, <2>3, FreeFrame DEF Charged, Used
<1>7. CASE GcFree
  <2>1. PICK seg \in Segs : seg = gc.frees[1]
    BY <1>7, FreeSourceTyped
  <2> QED
    BY <1>1, <1>7, <2>1, FreeSourceTyped
<1>8. CASE GcFreeLast
  <2>1. PICK seg \in Segs :
          /\ segTable'[seg].state = "FREE"
          /\ \A s \in Segs : s # seg => segTable'[s] = segTable[s]
    BY <1>8, FreeLastTyped
  <2> QED
    BY <1>1, <1>8, <2>1, FreeLastTyped
<1> QED
  BY <1>2, <1>3, <1>4, <1>5, <1>6, <1>7, <1>8, SortTyped
     DEF doMerge, GcLoadEntry, GcPack, GcUpdated, GcFirstDone

(* used_size of a segment that nobody is filling is what lives in it.      *)
LEMMA UsedSizeIsAlive ==
  ASSUME TypeInv, FreeExact, DeathCounted, NEW s \in Segs, Used(s), Pending(s) = {}
  PROVE  UsedSize(s) = Cardinality(Alive(s)) /\ IsFiniteSet(Alive(s))
<1> DEFINE D == DOMAIN content[s]
<1>1. D = 1 .. Len(content[s]) /\ Len(content[s]) \in Nat
      /\ Len(content[s]) <= SegSize - SegHeader
  BY Types DEF TypeInv, Progress
<1>2. IsFiniteSet(D) /\ Cardinality(D) = Len(content[s])
  BY <1>1, FS_Interval
<1>3. Alive(s) \subseteq D
  BY DEF Alive
<1>4. Dead(s) = D \ Alive(s) /\ D \cap Alive(s) = Alive(s)
  BY <1>3 DEF Dead
<1> HIDE DEF D
<1>5. IsFiniteSet(Alive(s)) /\ Cardinality(Alive(s)) \in Nat
  BY <1>2, <1>3, FS_Subset, FS_CardinalityType
<1>6. Cardinality(Dead(s)) = Len(content[s]) - Cardinality(Alive(s))
  <2>1. Cardinality(D \ Alive(s)) = Cardinality(D) - Cardinality(D \cap Alive(s))
    BY <1>2, FS_Difference, Zenon
  <2> QED
    BY <1>2, <1>4, <2>1
<1>7. segTable[s].death_size = Len(content[s]) - Cardinality(Alive(s))
      /\ segTable[s].free_size = SegSize - SegHeader - Len(content[s])
  BY <1>6 DEF DeathCounted, FreeExact, FreeAfter
<1>8. SegSize \in Nat /\ SegHeader \in Nat /\ Word \in Nat /\ SegSize < Word
  BY SegmentManagerAssumption, GcManagerAssumption
<1>9. Cardinality(Alive(s)) <= Len(content[s])
  BY <1>2, <1>3, FS_Subset
<1>10. SegSize - (segTable[s].free_size + segTable[s].death_size + SegHeader)
         = Cardinality(Alive(s))
  BY <1>1, <1>5, <1>7, <1>8
<1>11. Cardinality(Alive(s)) \in 0 .. Word - 1
  BY <1>1, <1>5, <1>8, <1>9
<1>12. Cardinality(Alive(s)) % Word = Cardinality(Alive(s))
  BY <1>8, <1>11
<1> QED
  BY <1>5, <1>10, <1>12 DEF UsedSize

(* A merge begins with candidates that are small enough.                   *)
LEMMA SortSpace ==
  ASSUME ~Overlap, TypeInv, SegInv, GcSort
  PROVE  FirstLoad' /\ Gains'
<1>1. /\ gc'.at = "load" /\ gc'.cands \in CandMap(SegsByUtils(Thld)) /\ gc'.cands # <<>>
      /\ gc'.list = <<>> /\ gc'.first = <<>> /\ gc'.frees = <<>>
      /\ gc'.freeAtStart = freedCounter /\ UNCHANGED <<segVars, content>> /\ TypeInv'
  BY SortTyped
<1>2. freedCounter' = freedCounter /\ freedCounter \in Int /\ UNCHANGED segTable
  BY <1>1, Types DEF segVars, TypeInv
<1>3. Gains'
  BY <1>1, <1>2 DEF Gains
<1>4. ASSUME NEW s \in Segs, gc'.cands[1] = s
      PROVE  UsedSize(s)' < Thld /\ Len(gc'.list) <= Cardinality(Seen(s)')
  <2>1. PICK q \in CandMap(SegsByUtils(Thld)) : q = gc'.cands
    BY <1>1
  <2>2. SegsByUtils(Thld) \in SUBSET Segs
    BY DEF SegsByUtils, InState
  <2>3. 1 \in DOMAIN q /\ q[1] \in SegsByUtils(Thld)
    <3>1. q \in Seq(Segs) /\ DOMAIN q = 1 .. Len(q) /\ q # <<>>
          /\ \A i \in DOMAIN q : q[i] \in SegsByUtils(Thld)
      BY <1>1, <2>1, <2>2, CandMapTyped
    <3>2. 1 \in DOMAIN q
      BY <3>1
    <3> QED
      BY <3>1, <3>2
  <2>4. UsedSize(s) < Thld
    BY <1>4, <2>1, <2>3 DEF SegsByUtils
  <2>5. UsedSize(s)' = UsedSize(s)
    BY <1>2 DEF UsedSize
  <2>6. Len(gc'.list) = 0
    BY <1>1
  <2>7. Cardinality(Seen(s)') \in Nat
    <3>1. TypeOK'
      BY <1>1 DEF TypeInv
    <3>2. content'[s] \in Seq(Writes)
      BY <3>1 DEF TypeOK
    <3>3. IsFiniteSet(DOMAIN content'[s])
      BY <3>2, FS_Interval
    <3>4. Seen(s)' \subseteq DOMAIN content'[s]
      BY DEF Seen, Alive
    <3> QED
      BY <3>3, <3>4, FS_Subset, FS_CardinalityType
  <2> QED
    BY <2>4, <2>5, <2>6, <2>7
<1> QED
  BY <1>1, <1>3, <1>4 DEF FirstLoad

(* Only records that live are loaded.                                      *)
LEMMA LoadSpace ==
  ASSUME TypeInv, SegInv, FirstLoad, Gains, GcLoadEntry
  PROVE  FirstLoad' /\ Gains'
<1>1. /\ gc.at = "load" /\ gc'.at = "load"
      /\ gc.cands[1] \in Segs /\ gc.pos \in DOMAIN content[gc.cands[1]]
      /\ Head(gc.cands) = gc.cands[1]
      /\ gc'.pos = gc.pos + 1
      /\ gc'.list = IF Same /\ Looked \notin Deletes THEN Append(gc.list, Looked) ELSE gc.list
      /\ UNCHANGED <<gc.cands, gc.first, gc.frees, gc.freeAtStart>>
      /\ UNCHANGED <<segVars, content, index>> /\ Looked \in Writes
  BY LoadTyped
<1>2. freedCounter' = freedCounter /\ UNCHANGED segTable
  BY <1>1 DEF segVars
<1>3. Gains'
  BY <1>1, <1>2 DEF Gains
<1>4. gc.list \in Seq(Writes) /\ Len(gc.list) \in Nat /\ gc.pos \in Nat \ {0}
      /\ content \in [Segs -> Seq(Writes)]
  BY Types DEF TypeInv
<1>5. ASSUME NEW s \in Segs, gc.cands[1] = s, gc.frees = <<>>
      PROVE  gc.first = <<>> /\ UsedSize(s)' < Thld /\ Len(gc'.list) <= Cardinality(Seen(s)')
  <2>1. gc.first = <<>> /\ UsedSize(s) < Thld /\ Len(gc.list) <= Cardinality(Seen(s))
    BY <1>1, <1>5 DEF FirstLoad
  <2>2. UsedSize(s)' = UsedSize(s)
    BY <1>2 DEF UsedSize
  <2>3. Alive(s)' = Alive(s)
    BY <1>1 DEF Alive, IsSameInMem
  <2>4. Alive(s) \subseteq DOMAIN content[s] /\ DOMAIN content[s] = 1 .. Len(content[s])
        /\ Len(content[s]) \in Nat
    BY <1>4 DEF Alive
  <2>5. IsFiniteSet(Alive(s))
    <3>1. IsFiniteSet(DOMAIN content[s])
      BY <2>4, FS_Interval
    <3> QED
      BY <2>4, <3>1, FS_Subset
  <2>6. Seen(s) \subseteq Alive(s) /\ Seen(s)' \subseteq Alive(s)
    BY <2>3 DEF Seen
  <2>7. /\ IsFiniteSet(Seen(s)) /\ Cardinality(Seen(s)) \in Nat
        /\ IsFiniteSet(Seen(s)') /\ Cardinality(Seen(s)') \in Nat
    <3>1. IsFiniteSet(Seen(s)) /\ IsFiniteSet(Seen(s)')
      BY <2>5, <2>6, FS_Subset
    <3> QED
      BY <3>1, FS_CardinalityType
  <2>8. CASE Same /\ Looked \notin Deletes
    <3>1. gc.pos \in Alive(s)
      BY <1>1, <1>5, <2>8 DEF Same, Looked, Alive
    <3>2. Seen(s)' = Seen(s) \cup {gc.pos}
      BY <1>1, <1>4, <2>3, <2>4, <3>1 DEF Seen
    <3>3. gc.pos \notin Seen(s)
      BY <1>4 DEF Seen
    <3>4. Cardinality(Seen(s) \cup {gc.pos}) = Cardinality(Seen(s)) + 1
      BY <2>7, <3>3, FS_AddElement
    <3>5. Len(gc'.list) = Len(gc.list) + 1
      BY <1>1, <1>4, <2>8, AppendList
    <3> QED
      BY <1>4, <2>1, <2>2, <2>7, <3>2, <3>4, <3>5
  <2>9. CASE ~(Same /\ Looked \notin Deletes)
    <3>1. Seen(s) \subseteq Seen(s)'
      BY <1>1, <1>4, <2>3, <2>4 DEF Seen
    <3>2. Cardinality(Seen(s)) <= Cardinality(Seen(s)')
      BY <2>7, <3>1, FS_Subset
    <3>3. gc'.list = gc.list
      BY <1>1, <2>9
    <3> QED
      BY <1>4, <2>1, <2>2, <2>7, <3>2, <3>3
  <2> QED
    BY <2>8, <2>9
<1>6. FirstLoad'
  BY <1>1, <1>5 DEF FirstLoad
<1> QED
  BY <1>3, <1>6

(* The first candidate always goes whole, so the merge frees at least one. *)
LEMMA PackSpace ==
  ASSUME TypeInv, SegInv, FreeExact, DeathCounted, FirstLoad, Gains, GcPack,
         Thld <= SegSize - SegHeader
  PROVE  FirstLoad' /\ Gains'
<1>1. /\ gc.at = "load" /\ gc.cands # <<>> /\ Head(gc.cands) = gc.cands[1]
      /\ gc.cands[1] \in Segs /\ gc.pos \notin DOMAIN content[gc.cands[1]]
      /\ gc'.at \in {"load", "alloc1"}
      /\ gc'.frees = IF Whole THEN Append(gc.frees, gc.cands[1]) ELSE gc.frees
      /\ gc.first = <<>> /\ Len(gc.list) < SegSize - SegHeader => Whole
      /\ UNCHANGED gc.freeAtStart
      /\ UNCHANGED <<segVars, content, index>>
  BY PackTyped
<1>2. /\ gc.cands \in Seq(Segs) /\ gc.frees \in Seq(Segs) /\ gc.list \in Seq(Writes)
      /\ Len(gc.list) \in Nat /\ freedCounter \in Int
  BY Types DEF TypeInv
<1>3. PICK s \in Segs : s = gc.cands[1]
  BY <1>1
<1>4. Used(s) /\ Pending(s) = {}
  <2>1. 1 \in DOMAIN gc.cands
    BY <1>1, <1>2, TailList
  <2>2. Used(s)
    BY <1>3, <2>1 DEF SegInv, MergeSegs, Used
  <2> QED
    BY <1>1, <2>2, NothingPending
<1>5. gc.frees = <<>> => Whole
  <2> SUFFICES ASSUME gc.frees = <<>> PROVE Whole
    OBVIOUS
  <2>1. gc.first = <<>> /\ UsedSize(s) < Thld /\ Len(gc.list) <= Cardinality(Seen(s))
    BY <1>1, <1>3 DEF FirstLoad
  <2>2. UsedSize(s) = Cardinality(Alive(s)) /\ IsFiniteSet(Alive(s))
    BY <1>4, UsedSizeIsAlive
  <2>3. Seen(s) \subseteq Alive(s)
    BY DEF Seen
  <2>4. Cardinality(Seen(s)) <= Cardinality(Alive(s)) /\ Cardinality(Alive(s)) \in Nat
        /\ Cardinality(Seen(s)) \in Nat
    BY <2>2, <2>3, FS_Subset, FS_CardinalityType
  <2>5. Thld \in Nat /\ SegSize \in Nat /\ SegHeader \in Nat
    BY SegmentManagerAssumption, GcManagerAssumption
  <2>6. Len(gc.list) < SegSize - SegHeader
    BY <1>2, <2>1, <2>2, <2>4, <2>5
  <2> QED
    BY <1>1, <2>1, <2>6
<1>6. gc'.frees # <<>>
  <2>1. CASE Whole
    BY <1>1, <1>2, <2>1, AppendList
  <2>2. CASE ~Whole
    BY <1>1, <1>5, <2>2
  <2> QED
    BY <2>1, <2>2
<1>7. freedCounter' = freedCounter
  BY <1>1 DEF segVars
<1>8. Gains'
  BY <1>1, <1>6, <1>7 DEF Gains
<1> QED
  BY <1>6, <1>8 DEF FirstLoad

(* From the first allocation of a merge on, what it has taken is given     *)
(* back: a segment is freed for each one filled.                           *)
LEMMA LaterSpace ==
  ASSUME TypeInv, SegInv, Gains,
         \/ GcAlloc("alloc1", "write1") \/ GcAlloc("alloc2", "write2")
         \/ GcWrite("write1", gc.first, "update1") \/ GcWrite("write2", gc.list, "update2")
         \/ GcUpdate("update1", gc.first) \/ GcUpdate("update2", gc.list)
         \/ GcUpdated("update1", gc.first, "free1") \/ GcUpdated("update2", gc.list, "free2")
         \/ GcFirstDone /\ gc.last # {}
         \/ GcFree
  PROVE  FirstLoad' /\ Gains'
<1>1. /\ gc.frees \in Seq(Segs) /\ Len(gc.frees) \in Nat /\ freedCounter \in Int
      /\ gc.freeAtStart \in Int
  BY Types DEF TypeInv
<1>2. CASE GcAlloc("alloc1", "write1") \/ GcAlloc("alloc2", "write2")
  <2>1. /\ \/ gc.at = "alloc1" /\ gc'.at = "write1"
           \/ gc.at = "alloc2" /\ gc'.at = "write2"
        /\ freedCounter' = freedCounter - 1
        /\ UNCHANGED <<gc.frees, gc.freeAtStart>>
    BY <1>2, AllocTyped
  <2> QED
    BY <1>1, <2>1 DEF FirstLoad, Gains
<1>3. CASE GcWrite("write1", gc.first, "update1") \/ GcWrite("write2", gc.list, "update2")
  <2>1. /\ \/ gc.at = "write1" /\ gc'.at = "update1"
           \/ gc.at = "write2" /\ gc'.at = "update2"
        /\ UNCHANGED <<gc.frees, gc.freeAtStart, freedCounter>>
    BY <1>3, CopyTyped
  <2> QED
    BY <2>1 DEF FirstLoad, Gains
<1>4. CASE GcUpdate("update1", gc.first) \/ GcUpdate("update2", gc.list)
  <2>1. PICK e \in Entries : e = NextCopy
    BY <1>4, CopyUpdateTyped
  <2>2. UpdateIndex(e) /\ TypeOK /\ UNCHANGED <<gc.at, gc.frees, gc.freeAtStart>>
        /\ gc.at \in {"update1", "update2"}
    BY <1>4, <2>1, CopyUpdateTyped DEF TypeInv
  <2>3. UNCHANGED freedCounter
    BY <2>2, UpdateTyped DEF Charged
  <2> QED
    BY <2>2, <2>3 DEF FirstLoad, Gains
<1>5. CASE \/ GcUpdated("update1", gc.first, "free1") \/ GcUpdated("update2", gc.list, "free2")
           \/ GcFirstDone /\ gc.last # {}
  <2>1. /\ \/ gc.at = "update1" /\ gc'.at = "free1"
           \/ gc.at = "update2" /\ gc'.at = "free2"
           \/ gc.at = "free1" /\ gc'.at = "alloc2" /\ gc.frees = <<>>
        /\ UNCHANGED <<gc.frees, gc.freeAtStart, freedCounter>>
    BY <1>5, OnwardTyped DEF segVars
  <2>2. gc.frees # <<>> => Len(gc.frees) >= 1
    BY <1>1
  <2>3. gc.frees = <<>> => Len(gc.frees) = 0
    OBVIOUS
  <2> QED
    BY <1>1, <2>1, <2>2, <2>3 DEF FirstLoad, Gains
<1>6. CASE GcFree
  <2>1. /\ gc.at = "free1" /\ gc'.at = "free1" /\ gc.frees # <<>>
        /\ gc'.frees = Tail(gc.frees) /\ freedCounter' = freedCounter + 1
        /\ UNCHANGED gc.freeAtStart
    BY <1>6, FreeSourceTyped
  <2>2. Len(gc'.frees) = Len(gc.frees) - 1
    BY <1>1, <2>1, TailList
  <2>3. freedCounter' + Len(gc'.frees) = freedCounter + Len(gc.frees)
    <3>1. PICK n \in Nat : n = Len(gc.frees)
      BY <1>1
    <3>2. Len(gc'.frees) = n - 1
      BY <2>2, <3>1
    <3>3. freedCounter' + (n - 1) = freedCounter + n
      BY <1>1, <2>1
    <3> QED
      BY <3>1, <3>2, <3>3
  <2>4. freedCounter + Len(gc.frees) >= gc.freeAtStart
    BY <2>1 DEF Gains
  <2>5. FirstLoad'
    BY <2>1 DEF FirstLoad
  <2> QED
    BY <2>1, <2>3, <2>4, <2>5 DEF Gains
<1> QED
  BY <1>2, <1>3, <1>4, <1>5, <1>6

(* A merge that ends has given everything back.                            *)
LEMMA EndSpace ==
  ASSUME TypeInv, Gains, GcWriteFails \/ (GcFirstDone /\ gc.last = {}) \/ GcFreeLast
  PROVE  gc' = NoMerge /\ freedCounter' >= gc.freeAtStart /\ UNCHANGED dangling
<1>1. /\ gc.frees \in Seq(Segs) /\ Len(gc.frees) \in Nat /\ freedCounter \in Int
      /\ gc.freeAtStart \in Int
  BY Types DEF TypeInv
<1>2. CASE GcWriteFails
  <2>1. gc' = NoMerge /\ gc.at \in {"write1", "write2"} /\ freedCounter' = freedCounter + 1
        /\ UNCHANGED dangling
    BY <1>2, CopyFailsTyped
  <2> QED
    BY <1>1, <2>1 DEF Gains
<1>3. CASE GcFirstDone /\ gc.last = {}
  <2>1. gc' = NoMerge /\ gc.at = "free1" /\ gc.frees = <<>> /\ UNCHANGED <<freedCounter, dangling>>
    BY <1>3, DoneTyped DEF segVars
  <2>2. Len(gc.frees) = 0
    BY <2>1
  <2> QED
    BY <1>1, <2>1, <2>2 DEF Gains
<1>4. CASE GcFreeLast
  <2>1. gc' = NoMerge /\ gc.at = "free2" /\ freedCounter' = freedCounter + 1
        /\ UNCHANGED dangling
    BY <1>4, FreeLastTyped
  <2> QED
    BY <1>1, <2>1 DEF Gains
<1> QED
  BY <1>2, <1>3, <1>4

(* Nothing of this speaks of a volume on which no merge runs.              *)
LEMMA IdleSpace ==
  ASSUME gc'.at = "idle"
  PROVE  FirstLoad' /\ Gains'
BY DEF FirstLoad, Gains

(* No step loses free space for good.                                      *)
LEMMA SpaceStep ==
  ASSUME ~Overlap, Thld <= SegSize - SegHeader, TypeInv, SegInv, DeathInv, SpaceInv, [Next]_vars
  PROVE  SpaceInv'
<1>1. CASE \/ \E b \in Batches :
                Allocate(b) \/ WriteSeg(b) \/ WriteSegFails(b) \/ BatchUpdate(b) \/ Reap(b)
           \/ \E c \in Readers : Find(c) \/ ReadData(c)
  <2>1. FreeExact'
    BY <1>1, ClientFree DEF SpaceInv
  <2>2. MayRun /\ UNCHANGED gc
    BY <1>1 DEF Allocate, WriteSeg, WriteSegFails, BatchUpdate, Reap, Find, ReadData
  <2>3. gc'.at = "idle"
    BY <2>2, ClientAlone
  <2> QED
    BY <2>1, <2>3, IdleSpace DEF SpaceInv
<1>2. CASE GcSort
  <2>1. FreeExact'
    BY <1>2, MergeFree DEF SpaceInv
  <2> QED
    BY <1>2, <2>1, SortSpace DEF SpaceInv
<1>3. CASE doMerge
  <2>1. FreeExact'
    BY <1>3, MergeFree DEF SpaceInv
  <2>2. CASE dangling
    <3>1. dangling'
      BY <1>3, <2>2 DEF doMerge, GcLoadEntry, GcPack, GcAlloc, GcWrite, GcWriteFails, GcUpdate,
                        GcUpdated, GcFree, GcFirstDone, GcFreeLast, history
    <3> QED
      BY <2>1, <3>1 DEF SpaceInv
  <2>3. CASE ~dangling
    <3>1. FreeExact /\ DeathCounted /\ FirstLoad /\ Gains
      BY <2>3 DEF SpaceInv, DeathInv
    <3>2. CASE GcWriteFails \/ (GcFirstDone /\ gc.last = {}) \/ GcFreeLast
      BY <2>1, <3>1, <3>2, EndSpace, IdleTyped, IdleSpace DEF SpaceInv
    <3>3. CASE GcLoadEntry \/ GcPack
      BY <2>1, <3>1, <3>3, LoadSpace, PackSpace DEF SpaceInv
    <3>4. CASE ~(GcWriteFails \/ (GcFirstDone /\ gc.last = {}) \/ GcFreeLast)
                 /\ ~(GcLoadEntry \/ GcPack)
      BY <1>3, <2>1, <3>1, <3>4, LaterSpace DEF SpaceInv, doMerge
    <3> QED
      BY <3>2, <3>3, <3>4
  <2> QED
    BY <2>2, <2>3
<1>4. CASE UNCHANGED vars
  <2>1. UNCHANGED <<segTable, content, index, gc, freedCounter, dangling>>
    BY <1>4 DEF vars, segVars, history
  <2>2. FreeExact' <=> FreeExact
    BY <2>1 DEF FreeExact, Used, FreeAfter
  <2>3. Gains' <=> Gains
    BY <2>1 DEF Gains
  <2>4. \A s : UsedSize(s)' = UsedSize(s) /\ Seen(s)' = Seen(s)
    BY <2>1 DEF UsedSize, Seen, Alive, IsSameInMem
  <2>5. FirstLoad' <=> FirstLoad
    BY <2>1, <2>4 DEF FirstLoad
  <2> QED
    BY <2>1, <2>2, <2>3, <2>5 DEF SpaceInv
<1> QED
  BY <1>1, <1>2, <1>3, <1>4 DEF Next

(* No merge has begun in the beginning.                                    *)
LEMMA SpaceInit == Init => SpaceInv
<1> SUFFICES ASSUME Init PROVE SpaceInv
  OBVIOUS
<1>1. gc.at = "idle" /\ \A s \in Segs : segTable[s].state = "FREE"
  BY DEF Init, NoMerge, SegInit, FreshStat
<1> QED
  BY <1>1 DEF SpaceInv, FreeExact, Used, FirstLoad, Gains

(* A merge ends with at least as many free segments as it began with, also *)
(* when it needs a second segment or a write fails half-way, if the        *)
(* threshold leaves room for the header of a segment.                      *)
THEOREM MergesKeepSpace ==
  ~Overlap /\ Thld <= SegSize - SegHeader => (Spec => MergeKeepsSpace)
<1> SUFFICES ASSUME ~Overlap, Thld <= SegSize - SegHeader PROVE Spec => MergeKeepsSpace
  OBVIOUS
<1> DEFINE I == ClientInv /\ SpaceInv
           Ends == ~dangling /\ gc.at # "idle" /\ gc'.at = "idle" => freedCounter' >= gc.freeAtStart
<1>1. Init => I
  BY ClientInvInit, SpaceInit
<1>2. I /\ [Next]_vars => I'
  <2> SUFFICES ASSUME I, [Next]_vars PROVE I'
    OBVIOUS
  <2>1. ClientInv'
    BY ClientInvStep
  <2>2. SpaceInv'
    BY SpaceStep DEF ClientInv
  <2> QED
    BY <2>1, <2>2
<1>3. I /\ [Next]_vars => [Ends]_vars
  <2> SUFFICES ASSUME I, Next, ~dangling, gc.at # "idle", gc'.at = "idle"
               PROVE  freedCounter' >= gc.freeAtStart
    OBVIOUS
  <2>1. TypeInv /\ SegInv /\ Gains
    BY DEF ClientInv, SpaceInv
  <2>2. doMerge
    <3>1. ASSUME NEW b \in Batches,
                 Allocate(b) \/ WriteSeg(b) \/ WriteSegFails(b) \/ BatchUpdate(b) \/ Reap(b)
          PROVE  FALSE
      BY <3>1 DEF Allocate, WriteSeg, WriteSegFails, BatchUpdate, Reap
    <3>2. ASSUME NEW c \in Readers, Find(c) \/ ReadData(c) PROVE FALSE
      BY <3>2 DEF Find, ReadData
    <3>3. ~GcSort
      BY DEF GcSort
    <3> QED
      BY <3>1, <3>2, <3>3 DEF Next
  <2>3. CASE GcWriteFails \/ (GcFirstDone /\ gc.last = {}) \/ GcFreeLast
    BY <2>1, <2>3, EndSpace
  <2>4. CASE ~(GcWriteFails \/ (GcFirstDone /\ gc.last = {}) \/ GcFreeLast)
    <3>1. gc'.at # "idle"
      BY <2>1, <2>2, <2>4, LoadTyped, PackTyped, AllocTyped, CopyTyped, CopyUpdateTyped,
         OnwardTyped, FreeSourceTyped DEF doMerge
    <3> QED
      BY <3>1
  <2> QED
    BY <2>3, <2>4
<1> QED
  BY <1>1, <1>2, <1>3, PTL DEF Spec, MergeKeepsSpace
=============================================================================
