------------------------------ MODULE MetaStor ------------------------------
(***************************************************************************)
(* The life of a store: MetaStor creates, persists and loads the hash      *)
(* table of IndexManager, the segment tables and the super block; KVDS     *)
(* opens and closes, and may be killed at any time.  Writes are single     *)
(* steps here; what runs in the background until closeDB stops it, the     *)
(* reaper of tombstones and garbage collection, goes on step by step while *)
(* the metadata is written.                                                *)
(***************************************************************************)
EXTENDS Naturals, Sequences, FiniteSets, SequencesExt

CONSTANTS Keys,
          HtSize,  (* slots of the hash table                              *)
          SlotOf,  (* the slot of each key                                 *)
          Segs, SegCap,
          MaxVer   (* bound on the number of writes                        *)

ASSUME MetaStorAssumption ==
  /\ HtSize \in Nat \ {0} /\ SlotOf \in [Keys -> 1 .. HtSize]
  /\ IsFiniteSet(Segs) /\ SegCap \in Nat \ {0} /\ MaxVer \in Nat

VARIABLES phase,      (* where the life of the store is                    *)
          htab,       (* the list of entries of each slot                  *)
          keyCounter,
          table,      (* the state of each segment                         *)
          media,      (* the records on the device, by segment             *)
          snap,       (* the buffer PersistIndexToDevice fills             *)
          sbCount,    (* entry_count of the super block in memory          *)
          disk,       (* the metadata on the device                        *)
          merge,      (* the running merge                                 *)
          reapQ,      (* tombstones on their way to RemoveEntry            *)
          uncounted,  (* entries removed and not yet taken off keyCounter  *)
          ver,        (* history: the number of writes                     *)
          dirty,      (* history: would a crash damage the store?          *)
          hurt        (* history: what has damaged the store               *)

memory == <<htab, keyCounter, table>>
background == <<merge, reapQ, uncounted>>
history == <<ver, dirty, hurt>>
vars == <<phase, memory, media, snap, sbCount, disk, background, history>>

Slots == 1 .. HtSize
Entry(k, s, v, del) == [key |-> k, seg |-> s, ver |-> v, del |-> del]
NoMerge == [at |-> "idle", from |-> {}, to |-> 0, live |-> {}]
EmptyTable == [i \in Slots |-> <<>>]
EmptySnap == [counters |-> [i \in Slots |-> 0], stream |-> <<>>, slot |-> 1]
Zeroed == [valid |-> FALSE, count |-> 0, counters |-> [i \in Slots |-> 0],
           stream |-> <<>>, sst |-> [s \in Segs |-> "FREE"]]

Init ==
  /\ phase = "none"
  /\ htab = EmptyTable /\ keyCounter = 0 /\ table = [s \in Segs |-> "FREE"]
  /\ media = [s \in Segs |-> [k \in Keys |-> 0]]
  /\ snap = EmptySnap /\ sbCount = 0 /\ disk = Zeroed
  /\ merge = NoMerge /\ reapQ = <<>> /\ uncounted = 0
  /\ ver = 0 /\ dirty = FALSE /\ hurt = {}

-----------------------------------------------------------------------------
(* LinkedList, the list of a slot. *)

Position(list, k) == SelectInSeq(list, LAMBDA e : e.key = k)
PutEntry(list, e) ==
  IF Position(list, e.key) = 0 THEN Append(list, e)
  ELSE [list EXCEPT ![Position(list, e.key)] = e]
RemoveKey(list, k) == RemoveAt(list, Position(list, k))

InIndex(tab, k) == Position(tab[SlotOf[k]], k) # 0
EntryOf(tab, k) == tab[SlotOf[k]][Position(tab[SlotOf[k]], k)]

-----------------------------------------------------------------------------
(* The open store. *)

(* CreateMetaData and the start of the threads; the metadata region of the *)
(* device is zeroed and not written before the store is closed.            *)
CreateKVDS ==
  /\ phase = "none"
  /\ phase' = "open"
  /\ disk' = Zeroed
  /\ dirty' = TRUE
  /\ UNCHANGED <<memory, media, snap, sbCount, background, ver, hurt>>

(* Insert or Delete of k, in a segment of its own.  The merge is not       *)
(* running: how the two interfere is the matter of GcManager.              *)
Write(k, del, s) ==
  /\ phase = "open" /\ merge = NoMerge
  /\ ver < MaxVer
  /\ table[s] = "FREE"
  /\ ver' = ver + 1
  /\ table' = [table EXCEPT ![s] = "USED"]
  /\ media' = [media EXCEPT ![s] = [x \in Keys |-> IF x = k THEN ver' ELSE 0]]
  /\ LET e == Entry(k, s, ver', del)
         ignored == del /\ ~InIndex(htab, k)
     IN /\ htab' = IF ignored THEN htab
                   ELSE [htab EXCEPT ![SlotOf[k]] = PutEntry(@, e)]
        /\ keyCounter' = IF ignored \/ InIndex(htab, k) THEN keyCounter ELSE keyCounter + 1
        /\ reapQ' = IF del THEN Append(reapQ, e) ELSE reapQ
  /\ dirty' = TRUE
  /\ UNCHANGED <<phase, snap, sbCount, disk, merge, uncounted, hurt>>

Closing == phase \in {"counters", "entries", "meta", "ssts", "sb", "stopping"}

(* What damages a store that is being closed.                              *)
NotedIn(phases, what) == hurt' = IF phase \in phases THEN hurt \cup {what} ELSE hurt
CopyingIndex == {"counters", "entries", "meta"}

(* RemoveEntry: the tombstone is removed under the mutex of the slot ...   *)
ReapRemove ==
  /\ phase = "open" \/ Closing
  /\ reapQ # <<>> /\ uncounted = 0
  /\ LET e == Head(reapQ)
         there == InIndex(htab, e.key) /\ EntryOf(htab, e.key).ver = e.ver
     IN /\ htab' = IF there THEN [htab EXCEPT ![SlotOf[e.key]] = RemoveKey(@, e.key)]
                   ELSE htab
        /\ uncounted' = IF there THEN 1 ELSE 0
        /\ IF there THEN NotedIn(CopyingIndex, "reap") ELSE hurt' = hurt
  /\ reapQ' = Tail(reapQ)
  /\ UNCHANGED <<phase, keyCounter, table, media, snap, sbCount, disk, merge,
                 ver, dirty>>

(* ... and keyCounter_ reduced under mtx_ thereafter.                      *)
ReapCount ==
  /\ uncounted = 1
  /\ uncounted' = 0
  /\ keyCounter' = keyCounter - 1
  /\ UNCHANGED <<phase, htab, table, media, snap, sbCount, disk, merge, reapQ, history>>

-----------------------------------------------------------------------------
(* Garbage collection, until gcT_stop_ is set and its thread joined. *)

LiveIn(s) == {k \in Keys : InIndex(htab, k) /\ EntryOf(htab, k).seg = s
                           /\ ~EntryOf(htab, k).del}

(* doMerge takes candidates and a segment for their live records.          *)
MergeStart(from, t) ==
  /\ phase = "open" \/ Closing
  /\ merge = NoMerge
  /\ \A s \in from : table[s] = "USED"
  /\ table[t] = "FREE"
  /\ LET live == UNION {LiveIn(s) : s \in from}
     IN /\ Cardinality(live) <= SegCap
        /\ merge' = [at |-> "write", from |-> from, to |-> t, live |-> live]
  /\ table' = [table EXCEPT ![t] = "RESERVED"]
  /\ UNCHANGED <<phase, htab, keyCounter, media, snap, sbCount, disk, reapQ, uncounted, history>>

(* WriteSegToDevice and Use.                                               *)
MergeWrite ==
  /\ merge.at = "write"
  /\ media' = [media EXCEPT ![merge.to] =
                 [k \in Keys |-> IF k \in merge.live THEN EntryOf(htab, k).ver ELSE 0]]
  /\ table' = [table EXCEPT ![merge.to] = "USED"]
  /\ merge' = [merge EXCEPT !.at = "index"]
  /\ UNCHANGED <<phase, htab, keyCounter, snap, sbCount, disk, reapQ, uncounted, history>>

(* UpdateIndex of one record of the merged segment.                        *)
MergeIndex(k) ==
  /\ merge.at = "index"
  /\ k \in merge.live
  /\ htab' = [htab EXCEPT ![SlotOf[k]] =
                PutEntry(@, Entry(k, merge.to, EntryOf(htab, k).ver, FALSE))]
  /\ merge' = [merge EXCEPT !.live = @ \ {k}]
  /\ UNCHANGED <<phase, keyCounter, table, media, snap, sbCount, disk, reapQ, uncounted, history>>

(* FreeForGC of the candidates.                                            *)
MergeFree ==
  /\ merge.at = "index"
  /\ merge.live = {}
  /\ table' = [s \in Segs |-> IF s \in merge.from THEN "FREE" ELSE table[s]]
  /\ merge' = NoMerge
  /\ dirty' = TRUE
  /\ hurt' = IF Closing THEN hurt \cup {"merge"} ELSE hurt
  /\ UNCHANGED <<phase, htab, keyCounter, media, snap, sbCount, disk, reapQ, uncounted, ver>>

-----------------------------------------------------------------------------
(* closeDB: PersistMetaData, then the threads are stopped. *)

UnchangedByClose == UNCHANGED <<memory, media, background, ver>>

(* IndexManager::Get copies the size of every list ...                     *)
CopyCounters ==
  /\ phase = "open"
  /\ phase' = "counters"
  /\ snap' = [EmptySnap EXCEPT !.counters = [i \in Slots |-> Len(htab[i])]]
  /\ hurt' = IF uncounted = 0 THEN hurt ELSE hurt \cup {"reap"}
  /\ UNCHANGED <<sbCount, disk, dirty>> /\ UnchangedByClose

(* ... and then the lists, slot by slot and without their mutexes.         *)
CopySlot ==
  /\ phase = "counters"
  /\ snap' = [snap EXCEPT !.stream = @ \o htab[snap.slot], !.slot = @ + 1]
  /\ phase' = IF snap.slot = HtSize THEN "entries" ELSE "counters"
  /\ UNCHANGED <<sbCount, disk, hurt, dirty>> /\ UnchangedByClose

WriteIndex ==
  /\ phase = "entries"
  /\ phase' = "meta"
  /\ disk' = [disk EXCEPT !.counters = snap.counters, !.stream = snap.stream]
  /\ snap' = EmptySnap
  /\ dirty' = TRUE
  /\ UNCHANGED <<sbCount, hurt>> /\ UnchangedByClose

(* Mutant: the count of the super block is not brought up to date.         *)
MutSBCount == sbCount

SBCount == keyCounter

UpdateMetaToSB ==
  /\ phase = "meta"
  /\ phase' = "ssts"
  /\ sbCount' = SBCount
  /\ UNCHANGED <<snap, disk, hurt, dirty>> /\ UnchangedByClose

(* Mutant: the table is copied as it is.                                   *)
MutSstOnDisk(s) == table[s]

(* SegmentManager::Get leaves zeroes, that is FREE, for a RESERVED segment.*)
SstOnDisk(s) == IF table[s] = "RESERVED" THEN "FREE" ELSE table[s]

(* GetAllSSTs: the tables of all volumes, one after the other.             *)
AllSSTs == [s \in Segs |-> SstOnDisk(s)]

PersistSSTs ==
  /\ phase = "ssts"
  /\ phase' = "sb"
  /\ disk' = [disk EXCEPT !.sst = AllSSTs]
  /\ UNCHANGED <<snap, sbCount, hurt, dirty>> /\ UnchangedByClose

PersistSuperBlock ==
  /\ phase = "sb"
  /\ phase' = "stopping"
  /\ disk' = [disk EXCEPT !.valid = TRUE, !.count = sbCount]
  /\ dirty' = FALSE
  /\ UNCHANGED <<snap, sbCount, hurt>> /\ UnchangedByClose

(* The memory of a process that is gone.                                   *)
MemoryGone ==
  /\ htab' = EmptyTable /\ keyCounter' = 0 /\ table' = [s \in Segs |-> "FREE"]
  /\ snap' = EmptySnap /\ sbCount' = 0
  /\ merge' = NoMerge /\ reapQ' = <<>> /\ uncounted' = 0

(* stopThds joins the garbage collectors and drains the reaper's queue.    *)
StopThds ==
  /\ phase = "stopping"
  /\ merge = NoMerge /\ reapQ = <<>> /\ uncounted = 0
  /\ phase' = "down"
  /\ MemoryGone
  /\ UNCHANGED <<media, disk, history>>

(* The process is killed.                                                  *)
Crash ==
  /\ phase = "open" \/ Closing
  /\ phase' = "down"
  /\ MemoryGone
  /\ hurt' = IF dirty THEN hurt \cup {"crash"} ELSE hurt
  /\ UNCHANGED <<media, disk, ver, dirty>>

-----------------------------------------------------------------------------
(* openDB. *)

(* The sum of the first n counters: one place for every entry they count.  *)
Counted(counters, n) == Cardinality(UNION {{i} \X (1 .. counters[i]) : i \in 1 .. n})

(* The number of entries before those of slot i in the index on the device.*)
Before(i) == Counted(disk.counters, i - 1)

(* The n entries of the stream after the first m; where it has ended Set   *)
(* reads zeroes, which make entries of no key.                             *)
Stretch(m, n) == [j \in 1 .. Cardinality((m + 1 .. m + n) \cap DOMAIN disk.stream)
                  |-> disk.stream[m + j]]

(* Mutant: every slot is filled from the start of the entries.             *)
MutSlotLoaded(i) == Stretch(0, disk.counters[i])

(* IndexManager::Set believes the counters: slot i gets the entries that   *)
(* are next in the stream.                                                 *)
SlotLoaded(i) == Stretch(Before(i), disk.counters[i])

Loaded == [i \in Slots |-> SlotLoaded(i)]

(* "The Key Number is conflit between superblock and index".  A zeroed     *)
(* super block has no volumes and is refused by verifyTopology.            *)
Loadable == disk.valid /\ Counted(disk.counters, HtSize) = disk.count

loadSuperBlock == sbCount' = disk.count

(* InitMeta takes the number of entries from the super block, Set fills    *)
(* the table.                                                              *)
loadIndex == keyCounter' = sbCount' /\ htab' = Loaded

(* SetAllSSTs: every table gets the part of it that the device has.        *)
loadDataStor == table' = disk.sst

OpenKVDS ==
  /\ phase = "down"
  /\ Loadable
  /\ phase' = "open"
  /\ loadSuperBlock /\ loadIndex /\ loadDataStor
  /\ dirty' = FALSE
  /\ UNCHANGED <<media, snap, disk, background, ver, hurt>>

OpenRefused ==
  /\ phase = "down"
  /\ ~Loadable
  /\ phase' = "refused"
  /\ UNCHANGED <<memory, media, snap, sbCount, disk, background, history>>

Next ==
  \/ CreateKVDS \/ OpenKVDS \/ OpenRefused
  \/ \E k \in Keys, del \in BOOLEAN, s \in Segs : Write(k, del, s)
  \/ ReapRemove \/ ReapCount
  \/ \E from \in SUBSET Segs, t \in Segs : from # {} /\ MergeStart(from, t)
  \/ MergeWrite \/ (\E k \in Keys : MergeIndex(k)) \/ MergeFree
  \/ CopyCounters \/ CopySlot \/ WriteIndex \/ UpdateMetaToSB
  \/ PersistSSTs \/ PersistSuperBlock \/ StopThds \/ Crash

Spec == Init /\ [][Next]_vars
-----------------------------------------------------------------------------
States == {"FREE", "USED", "RESERVED"}
Entries == [key : Keys, seg : Segs, ver : 1 .. MaxVer, del : BOOLEAN]

TypeOK ==
  /\ phase \in {"none", "open", "counters", "entries", "meta", "ssts", "sb",
                "stopping", "down", "refused"}
  /\ htab \in [Slots -> Seq(Entries)]
  /\ keyCounter \in Nat
  /\ table \in [Segs -> States] /\ disk.sst \in [Segs -> {"FREE", "USED"}]
  /\ media \in [Segs -> [Keys -> 0 .. MaxVer]]
  /\ hurt \subseteq {"crash", "reap", "merge"}

(* What a read of k finds with the table tab.                              *)
VisibleIn(tab, k) ==
  IF InIndex(tab, k) /\ ~EntryOf(tab, k).del THEN media[EntryOf(tab, k).seg][k] ELSE 0

(* The map as it can be read, or as it will be when the store is opened.   *)
Visible ==
  [k \in Keys |-> IF phase = "down" /\ disk.valid
                  THEN VisibleIn(Loaded, k) ELSE VisibleIn(htab, k)]

(* In an open store the entries lie in segments that are USED, and the     *)
(* counter counts them: neither is made anew when it is opened.            *)
EntriesAreHoused ==
  phase = "open" /\ hurt = {} =>
    /\ \A k \in Keys : InIndex(htab, k) /\ ~EntryOf(htab, k).del =>
         table[EntryOf(htab, k).seg] = "USED"
    /\ keyCounter = Cardinality({k \in Keys : InIndex(htab, k)}) + uncounted

(* Only a reap during closing or a crash makes a store refuse to open.     *)
RefusedOnlyAfter == phase = "refused" => hurt \cap {"reap", "crash"} # {}

(* A store that was closed and not killed can be opened again.             *)
ClosedReopens == phase = "refused" => "crash" \in hurt

(* A store that was never closed under a merge or a reap, nor killed with  *)
(* changes that it had not persisted, is a map that only its writes        *)
(* change: through any number of closings, openings and merges it keeps    *)
(* the last write of every key.                                            *)
Abstract == INSTANCE DurableMap WITH
  kv <- IF hurt = {} THEN Visible ELSE [k \in Keys |-> 0],
  up <- phase = "open" \/ Closing,
  whole <- hurt = {}
IsDurableMap == Abstract!Spec

(* Types, and where the entries lie, at every step.                        *)
Consistent == TypeOK /\ EntriesAreHoused
=============================================================================
