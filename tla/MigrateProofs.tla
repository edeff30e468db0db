---------------------------- MODULE MigrateProofs ----------------------------
(***************************************************************************)
(* The reserve of the fast tier, for any batches, segments and volumes:    *)
(* unlike SegAlloc's writers, those of FastTier::allocSegment test and     *)
(* take a segment under one mutex.                                         *)
(***************************************************************************)
EXTENDS Migrate, SequenceTheorems, FiniteSetTheorems, TLAPS

(* The fields on which the control of writers and migrations rests.        *)
Shapes ==
  /\ freedCounter \in Int
  /\ DOMAIN batch = Batches
  /\ \A b \in Batches : "at" \in DOMAIN batch[b]
  /\ {"at", "owner"} \subseteq DOMAIN mig

(* Who has passed the test still has a segment to take.                    *)
TakerHasRoom ==
  \A b \in Batches : batch[b].at = "take" => freedCounter > SEG_RESERVED_FOR_GC

Control == Shapes /\ OneInAlloc /\ TakerHasRoom

(* Nobody is in allocSegment when the store is opened.                     *)
LEMMA ControlInit == Init => Control
<1> SUFFICES ASSUME Init PROVE Control
  OBVIOUS
<1> USE SegmentManagerAssumption
<1>1. Shapes
  BY DEF Init, SegInit, Shapes, NewBatch, NoMigration
<1>2. OneInAlloc /\ TakerHasRoom
  BY DEF Init, OneInAlloc, TakerHasRoom, InAllocSegment, NewBatch, NoMigration
<1> QED BY <1>1, <1>2 DEF Control

(* A step of a writer, in or out of allocSegment.                          *)
LEMMA WriterKeepsControl ==
  ASSUME Control, NEW b \in Batches, Write(b)
  PROVE  Control'
<1> USE SegmentManagerAssumption DEF Control, Shapes, OneInAlloc, TakerHasRoom, InAllocSegment
<1>1. CASE AllocSegment(b)
  BY <1>1 DEF AllocSegment, AllocMtxFree, dataVars, segVars
<1>2. CASE TryAlloc(b)
  BY <1>2 DEF TryAlloc, AllocAllowed, dataVars, segVars
<1>3. CASE TakeSegment(b)
  BY <1>3 DEF TakeSegment, AllocForGC
<1>4. CASE Refuse(b)
  BY <1>4 DEF Refuse, dataVars, segVars
<1>5. CASE PickForClient(b)
  BY <1>5 DEF PickForClient, dataVars, segVars
<1>6. CASE ForeMigrate(b)
  <2>1. CASE AllocAllowed
    BY <1>6, <2>1 DEF ForeMigrate, dataVars, segVars
  <2>2. CASE ~AllocAllowed
    <3>1. /\ batch' = [batch EXCEPT ![b].at = "moving"]
          /\ DOMAIN mig' = DOMAIN NoMigration
          /\ mig'.owner = b
      BY <1>6, <2>2 DEF ForeMigrate, StartMigration, NoMigration
    <3>2. {"at", "owner"} \subseteq DOMAIN mig'
      BY <3>1 DEF NoMigration
    <3>3. UNCHANGED freedCounter /\ InAllocSegment(b)
      BY <1>6 DEF ForeMigrate, dataVars, segVars
    <3> QED BY <3>1, <3>2, <3>3
  <2> QED BY <2>1, <2>2
<1>7. CASE WriteSeg(b)
  BY <1>7 DEF WriteSeg, Use
<1>8. CASE WriteSegFails(b)
  BY <1>8 DEF WriteSegFails, FreeForFailed
<1>9. CASE BatchUpdate(b)
  <2>1. UNCHANGED <<freedCounter, mig>> /\ batch[b].at = "update"
    BY <1>9 DEF BatchUpdate, UpdateIndex, ModifyDeathEntries, counters
  <2>2. /\ batch' = [batch EXCEPT ![b] = batch'[b]]
        /\ DOMAIN batch'[b] = DOMAIN batch[b]
        /\ batch'[b].at \in {"update", "reap", "done"}
    BY <1>9 DEF BatchUpdate
  <2> HIDE DEF InAllocSegment
  <2>3. \A c \in Batches : /\ batch'[c].at = batch[c].at \/ c = b
                           /\ InAllocSegment(c)' => InAllocSegment(c)
    BY <2>1, <2>2 DEF InAllocSegment
  <2> QED BY <2>1, <2>2, <2>3
<1>10. CASE Reap(b)
  <2>1. UNCHANGED <<freedCounter, mig>> /\ batch[b].at = "reap"
    BY <1>10 DEF Reap, ModifyDeathEntries, counters
  <2>2. /\ batch' = [batch EXCEPT ![b] = batch'[b]]
        /\ DOMAIN batch'[b] = DOMAIN batch[b]
        /\ batch'[b].at \in {"reap", "done"}
    BY <1>10 DEF Reap
  <2> HIDE DEF InAllocSegment
  <2>3. \A c \in Batches : /\ batch'[c].at = batch[c].at \/ c = b
                           /\ InAllocSegment(c)' => InAllocSegment(c)
    BY <2>1, <2>2 DEF InAllocSegment
  <2> QED BY <2>1, <2>2, <2>3
<1> QED BY <1>1, <1>2, <1>3, <1>4, <1>5, <1>6, <1>7, <1>8, <1>9, <1>10 DEF Write

(* The end of a migration lets its writer try again.                       *)
LEMMA EndKeepsControl ==
  ASSUME Control, mig.at # "idle", EndMigration, UNCHANGED freedCounter
  PROVE  Control'
<1> USE DEF Control, Shapes, OneInAlloc, TakerHasRoom, InAllocSegment
<1>1. CASE mig.owner = "thread"
  BY <1>1 DEF EndMigration, NoMigration
<1>2. CASE mig.owner # "thread"
  BY <1>2 DEF EndMigration, NoMigration
<1> QED BY <1>1, <1>2

(* A step within a migration.                                              *)
LEMMA MigrationKeepsControl == Control /\ doMigrate => Control'
<1> SUFFICES ASSUME Control, doMigrate PROVE Control'
  OBVIOUS
<1> USE DEF Control, Shapes, OneInAlloc, TakerHasRoom, InAllocSegment, OthersKeep
<1>1. CASE LoadEntry
  BY <1>1 DEF LoadEntry, segVars
<1>2. CASE PackCandidate
  BY <1>2 DEF PackCandidate, segVars
<1>3. CASE MigrationFails
  BY <1>3, EndKeepsControl DEF MigrationFails, dataVars, segVars
<1>4. CASE WriteMigrated
  BY <1>4 DEF WriteMigrated, segVars
<1>5. CASE LockBatchMtx
  BY <1>5 DEF LockBatchMtx, segVars
<1>6. CASE TestSame
  BY <1>6 DEF TestSame, ModifyDeathEntries, counters
<1>7. CASE PutMoved
  BY <1>7 DEF PutMoved, ModifyDeathEntries, counters
<1>8. CASE IndexUpdated
  BY <1>8 DEF IndexUpdated, segVars
<1>9. CASE FreeMigrated
  BY <1>9, SegmentManagerAssumption DEF FreeMigrated, FreeForGC
<1>10. CASE MigrationDone
  BY <1>10, EndKeepsControl DEF MigrationDone, dataVars, segVars
<1> QED BY <1>1, <1>2, <1>3, <1>4, <1>5, <1>6, <1>7, <1>8, <1>9, <1>10 DEF doMigrate

(* Every step leaves one thread at most in allocSegment, and what it       *)
(* takes is there.                                                         *)
LEMMA ControlStep == Control /\ [Next]_vars => Control'
<1> SUFFICES ASSUME Control, [Next]_vars PROVE Control'
  OBVIOUS
<1>1. CASE \E b \in Batches : Write(b)
  BY <1>1, WriterKeepsControl
<1>2. CASE ThreadPicks
  BY <1>2 DEF ThreadPicks, Control, Shapes, OneInAlloc, TakerHasRoom, InAllocSegment,
              dataVars, segVars
<1>3. CASE BackMigrate
  BY <1>3 DEF BackMigrate, StartMigration, NoMigration, Control, Shapes, OneInAlloc,
              TakerHasRoom, InAllocSegment, dataVars, segVars
<1>4. CASE doMigrate
  BY <1>4, MigrationKeepsControl
<1>5. CASE UNCHANGED vars
  BY <1>5 DEF vars, Control, Shapes, OneInAlloc, TakerHasRoom, InAllocSegment,
              dataVars, segVars
<1> QED BY <1>1, <1>2, <1>3, <1>4, <1>5 DEF Next

(* At most one writer is in allocSegment at any time, and the one that has *)
(* passed the test of Alloc finds more than the reserve still free.        *)
THEOREM AllocControlled == Spec => []Control
BY ControlInit, ControlStep, PTL DEF Spec

(* Only the taker of a segment makes freedCounter_ smaller.                *)
LEMMA ReserveStep == Control /\ ReserveKept /\ [Next]_vars => ReserveKept'
<1> SUFFICES ASSUME Control, ReserveKept, [Next]_vars PROVE ReserveKept'
  OBVIOUS
<1> USE SegmentManagerAssumption DEF ReserveKept, Control, Shapes, TakerHasRoom
<1>1. ASSUME NEW b \in Batches, Write(b) PROVE ReserveKept'
  <2>1. CASE TakeSegment(b)
    BY <2>1 DEF TakeSegment, AllocForGC
  <2>2. CASE WriteSegFails(b)
    BY <2>2 DEF WriteSegFails, FreeForFailed
  <2>3. CASE WriteSeg(b) \/ BatchUpdate(b) \/ Reap(b)
    BY <2>3 DEF WriteSeg, Use, BatchUpdate, UpdateIndex, Reap, ModifyDeathEntries, counters
  <2>4. CASE AllocSegment(b) \/ TryAlloc(b) \/ Refuse(b) \/ PickForClient(b) \/ ForeMigrate(b)
    BY <2>4 DEF AllocSegment, TryAlloc, Refuse, PickForClient, ForeMigrate, dataVars, segVars
  <2> QED BY <1>1, <2>1, <2>2, <2>3, <2>4 DEF Write
<1>2. CASE FreeMigrated
  BY <1>2 DEF FreeMigrated, FreeForGC
<1>3. CASE TestSame \/ PutMoved
  BY <1>3 DEF TestSame, PutMoved, ModifyDeathEntries, counters
<1>4. CASE LoadEntry \/ PackCandidate \/ MigrationFails \/ WriteMigrated
           \/ LockBatchMtx \/ IndexUpdated \/ MigrationDone
  BY <1>4 DEF LoadEntry, PackCandidate, MigrationFails, WriteMigrated, LockBatchMtx,
              IndexUpdated, MigrationDone, dataVars, segVars
<1>5. CASE ThreadPicks \/ BackMigrate \/ UNCHANGED vars
  BY <1>5 DEF ThreadPicks, BackMigrate, vars, dataVars, segVars
<1> QED BY <1>1, <1>2, <1>3, <1>4, <1>5 DEF Next, doMigrate

(* The writers of the fast tier leave the reserve of free segments alone,  *)
(* however many there are and whatever migrations do.                      *)
THEOREM FastTierKeepsReserve == Spec => []ReserveKept
<1>1. Init => ReserveKept
  BY SegmentManagerAssumption DEF Init, SegInit, ReserveKept
<1> QED BY <1>1, AllocControlled, ReserveStep, PTL DEF Spec

-----------------------------------------------------------------------------
(* Types. *)

(* Where the local variables of writers and migrations stand.              *)
Progress ==
  /\ \A b \in Batches : batch[b].at \in {"update", "reap"} => batch[b].next \in DOMAIN Items[b]
  /\ \A b \in Batches :
       batch[b].at \in {"new", "try", "take", "migrate", "moving", "write"} => batch[b].next = 1
  /\ mig.at = "put" => mig.pos \in DOMAIN mig.list

TypeInv == Control /\ TypeOK /\ MediumFits /\ Progress

(* The entry of a write at an address is an entry.                         *)
LEMMA EntriesTyped ==
  ASSUME NEW w \in Writes, NEW v \in MediumVols \cup {Fast}, NEW s \in Nat, NEW n \in Nat \ {0},
         NEW t \in Nat
  PROVE  Entry(w, v, s, n, t) \in Entries
BY DEF Entry, Entries

(* Segments are numbered.                                                  *)
LEMMA SegsAreNumbers == \A s \in Segs : s \in Nat
BY SegmentManagerAssumption DEF Segs

(* A charge for dead records changes death sizes alone.                    *)
LEMMA DeathsTyped ==
  ASSUME TypeOK, NEW es, ModifyDeathEntries(es)
  PROVE  /\ SegTypeOK'
         /\ medium' \in [MediumVols -> Seq([records : Seq(Writes), death : Nat])]
         /\ \A s \in Segs : segTable'[s].state = segTable[s].state
         /\ \A v \in MediumVols :
              /\ DOMAIN medium'[v] = DOMAIN medium[v]
              /\ Len(medium'[v]) = Len(medium[v])
              /\ \A s \in DOMAIN medium[v] : medium'[v][s].records = medium[v][s].records
         /\ UNCHANGED freedCounter
<1>1. /\ segTable \in [Segs -> SegmentStat] /\ curSegId \in Segs
      /\ usedCounter \in Int /\ freedCounter \in Int /\ reservedCounter \in Int
      /\ medium \in [MediumVols -> Seq([records : Seq(Writes), death : Nat])]
  BY DEF TypeOK, SegTypeOK
<1>2. /\ segTable' = [s \in Segs |->
           IF \E e \in es : Located(e) = Fast /\ e.seg = s
           THEN WithDeath(segTable, s, 1)[s] ELSE segTable[s]]
      /\ medium' = [v \in MediumVols |-> [s \in DOMAIN medium[v] |->
           IF \E e \in es : Located(e) = v /\ e.seg = s
           THEN [medium[v][s] EXCEPT !.death = @ + 1] ELSE medium[v][s]]]
      /\ UNCHANGED <<curSegId, usedCounter, freedCounter, reservedCounter>>
  BY DEF ModifyDeathEntries, counters
<1>3. \A s \in Segs : /\ segTable'[s] \in SegmentStat
                      /\ segTable'[s].state = segTable[s].state
  <2> SUFFICES ASSUME NEW s \in Segs
               PROVE  segTable'[s] \in SegmentStat /\ segTable'[s].state = segTable[s].state
    OBVIOUS
  <2> DEFINE old == segTable[s]
  <2>1. old \in SegmentStat
    BY <1>1
  <2>2. segTable'[s] = [old EXCEPT !.death_size = old.death_size + 1] \/ segTable'[s] = old
    BY <1>1, <1>2 DEF WithDeath
  <2> HIDE DEF old
  <2>3. segTable'[s] \in SegmentStat /\ segTable'[s].state = old.state
    BY <2>1, <2>2 DEF SegmentStat
  <2> QED
    BY <2>3 DEF old
<1>4. segTable' = [s \in Segs |-> segTable'[s]]
  BY <1>2
<1>5. SegTypeOK'
  <2>1. segTable' \in [Segs -> SegmentStat]
    BY <1>3, <1>4
  <2> QED
    BY <1>1, <1>2, <2>1 DEF SegTypeOK
<1>6. ASSUME NEW v \in MediumVols
      PROVE  /\ medium'[v] \in Seq([records : Seq(Writes), death : Nat])
             /\ DOMAIN medium'[v] = DOMAIN medium[v]
             /\ Len(medium'[v]) = Len(medium[v])
             /\ \A s \in DOMAIN medium[v] : medium'[v][s].records = medium[v][s].records
  <2> DEFINE D == [records : Seq(Writes), death : Nat]
             q == medium[v]
             r == medium'[v]
  <2>1. q \in Seq(D)
    BY <1>1
  <2>2. r = [s \in DOMAIN q |-> r[s]]
    BY <1>2
  <2>3. ASSUME NEW s \in DOMAIN q PROVE r[s] \in D /\ r[s].records = q[s].records
    <3>1. q[s] \in D
      <4> HIDE DEF q, D
      <4> QED
        BY <2>1, ElementOfSeq
    <3>2. r[s] = [q[s] EXCEPT !.death = q[s].death + 1] \/ r[s] = q[s]
      BY <1>2
    <3> HIDE DEF q, r
    <3> QED
      BY <3>1, <3>2
  <2> HIDE DEF q, r, D
  <2>4. DOMAIN q = 1 .. Len(q) /\ Len(q) \in Nat
    BY <2>1
  <2>5. r \in Seq(D) /\ DOMAIN r = DOMAIN q /\ Len(r) = Len(q)
    BY <2>2, <2>3, <2>4, SeqDef
  <2> QED
    BY <2>3, <2>5 DEF q, r, D
<1>7. medium' \in [MediumVols -> Seq([records : Seq(Writes), death : Nat])]
  BY <1>2, <1>6
<1> QED
  BY <1>2, <1>3, <1>5, <1>6, <1>7

(* What UpdateIndex of an entry may do to the index, the dead space and    *)
(* the slips.                                                              *)
LEMMA UpdateTyped ==
  ASSUME TypeOK, NEW e \in Entries, UpdateIndex(e)
  PROVE  /\ index' \in [Keys -> MaybeEntries]
         /\ \E es : ModifyDeathEntries(es)
         /\ slips' \subseteq {"restamped", "tombstone", "unindexed", "overtaken"}
<1>1. KeyOf[e.write] \in Keys
  BY MigrateAssumption DEF Entries
<1>2. index' = index \/ index' = [index EXCEPT ![KeyOf[e.write]] = e]
  BY DEF UpdateIndex
<1>3. \E es : ModifyDeathEntries(es)
  BY DEF UpdateIndex
<1>4. slips' = slips \/ slips' = slips \cup {"restamped"}
  BY DEF UpdateIndex
<1>5. index' \in [Keys -> MaybeEntries]
  <2>1. index \in [Keys -> MaybeEntries] /\ e \in MaybeEntries
    BY DEF TypeOK, MaybeEntries
  <2> QED
    BY <1>1, <1>2, <2>1
<1>6. slips' \subseteq {"restamped", "tombstone", "unindexed", "overtaken"}
  BY <1>4 DEF TypeOK
<1> QED
  BY <1>3, <1>5, <1>6

(* A writer's step within allocSegment, or its end.                        *)
LEMMA AllocTyped ==
  ASSUME TypeInv, NEW b \in Batches,
         AllocSegment(b) \/ TryAlloc(b) \/ Refuse(b) \/ PickForClient(b)
  PROVE  TypeOK' /\ MediumFits' /\ Progress'
<1> DEFINE old == batch[b]
<1>1. old \in BatchRecord /\ Picked \in MediumVols /\ volNum \in Nat
  <2>1. old \in BatchRecord /\ pickVolId \in MediumVols \cup {-1}
    BY DEF TypeInv, TypeOK
  <2> QED
    BY <2>1, MigrateAssumption DEF Picked, MediumVols
<1>2. UNCHANGED <<segVars, content, medium, index, clock, thread, mig, failures, slips>>
  BY DEF AllocSegment, TryAlloc, Refuse, PickForClient, dataVars, history
<1>3. /\ batch' = [batch EXCEPT ![b] = batch'[b]]
      /\ batch'[b] \in BatchRecord
      /\ batch'[b].at \notin {"update", "reap"}
      /\ old.at \in {"new", "try"} /\ batch'[b].next = old.next
      /\ pickVolId' \in MediumVols \cup {-1}
      /\ tried' \in [Batches -> SUBSET (MediumVols \cup {Other})]
      /\ before' \in [Batches -> SUBSET Batches]
  <2>0. /\ batch \in [Batches -> BatchRecord] /\ pickVolId \in MediumVols \cup {-1}
        /\ tried \in [Batches -> SUBSET (MediumVols \cup {Other})]
        /\ before \in [Batches -> SUBSET Batches]
    BY DEF TypeInv, TypeOK
  <2>1. CASE AllocSegment(b)
    <3>1. batch' = [batch EXCEPT ![b] = [old EXCEPT !.at = "try", !.left = volNum]]
          /\ old.at = "new"
      BY <2>1 DEF AllocSegment
    <3>2. UNCHANGED <<pickVolId, tried>> /\ before' \in [Batches -> SUBSET Batches]
      BY <2>0, <2>1 DEF AllocSegment, Done
    <3> HIDE DEF old
    <3>3. LET r == [old EXCEPT !.at = "try", !.left = volNum]
          IN r \in BatchRecord /\ r.at = "try" /\ r.next = old.next
      <4>1. volNum \in 0 .. volNum
        BY <1>1
      <4> QED
        BY <1>1, <4>1 DEF BatchRecord, BatchAt
    <3> QED
      BY <2>0, <3>1, <3>2, <3>3
  <2>2. CASE TryAlloc(b)
    <3>1. batch' = [batch EXCEPT ![b] = [old EXCEPT !.at = "take"]] /\ old.at = "try"
          /\ UNCHANGED <<pickVolId, tried, before>>
      BY <2>2 DEF TryAlloc, history
    <3> HIDE DEF old
    <3>3. LET r == [old EXCEPT !.at = "take"]
          IN r \in BatchRecord /\ r.at = "take" /\ r.next = old.next
      BY <1>1 DEF BatchRecord, BatchAt
    <3> QED
      BY <2>0, <3>1, <3>3
  <2>3. CASE Refuse(b)
    <3>1. batch' = [batch EXCEPT ![b] = [old EXCEPT !.at = "refused"]] /\ old.at = "try"
          /\ UNCHANGED <<pickVolId, tried, before>>
      BY <2>3 DEF Refuse, history
    <3> HIDE DEF old
    <3>3. LET r == [old EXCEPT !.at = "refused"]
          IN r \in BatchRecord /\ r.at = "refused" /\ r.next = old.next
      BY <1>1 DEF BatchRecord, BatchAt
    <3> QED
      BY <2>0, <3>1, <3>3
  <2>4. CASE PickForClient(b)
    <3>1. batch' = [batch EXCEPT ![b] =
                      [old EXCEPT !.at = "migrate", !.vol = Picked, !.left = old.left - 1]]
          /\ old.at = "try" /\ old.left > 0 /\ pickVolId' = Picked /\ UNCHANGED before
      BY <2>4 DEF PickForClient, TriesLeft
    <3>2. tried' \in [Batches -> SUBSET (MediumVols \cup {Other})]
      BY <1>1, <2>0, <2>4 DEF PickForClient
    <3> HIDE DEF old
    <3> DEFINE less == old.left - 1
    <3>3. less \in 0 .. volNum
      BY <1>1, <3>1 DEF BatchRecord
    <3> HIDE DEF less
    <3>4. LET r == [old EXCEPT !.at = "migrate", !.vol = Picked, !.left = less]
          IN r \in BatchRecord /\ r.at = "migrate" /\ r.next = old.next
      BY <1>1, <3>3 DEF BatchRecord, BatchAt
    <3>5. batch' = [batch EXCEPT ![b] = [old EXCEPT !.at = "migrate", !.vol = Picked, !.left = less]]
      BY <3>1 DEF less
    <3> QED
      BY <1>1, <2>0, <3>1, <3>2, <3>4, <3>5
  <2> QED
    BY <2>1, <2>2, <2>3, <2>4
<1> HIDE DEF old
<1>4. batch' \in [Batches -> BatchRecord] /\ \A c \in Batches : c # b => batch'[c] = batch[c]
  BY <1>3 DEF TypeInv, TypeOK
<1>5. TypeOK'
  BY <1>2, <1>3, <1>4 DEF TypeInv, TypeOK, SegTypeOK, segVars, MaybeEntries
<1>6. MediumFits'
  BY <1>2 DEF TypeInv, MediumFits
<1>7. Progress'
  BY <1>2, <1>3, <1>4 DEF TypeInv, Progress, old
<1> QED
  BY <1>5, <1>6, <1>7

(* Allocating a segment keeps the types.                                   *)
LEMMA TakeTyped ==
  ASSUME TypeInv, NEW b \in Batches, TakeSegment(b)
  PROVE  TypeOK' /\ MediumFits' /\ Progress'
<1> DEFINE old == batch[b]
<1>1. PICK s \in Segs : /\ AllocForGC(s)
                        /\ batch' = [batch EXCEPT ![b].at = "write", ![b].seg = s]
  BY DEF TakeSegment
<1>2. old.at = "take"
      /\ UNCHANGED <<content, medium, index, clock, thread, mig, failures, slips,
                     pickVolId, tried, before>>
  BY DEF TakeSegment, history
<1>3. SegTypeOK'
  <2> DEFINE st == segTable[s]
  <2>1. segTable \in [Segs -> SegmentStat] /\ st \in SegmentStat
        /\ usedCounter \in Int /\ freedCounter \in Int /\ reservedCounter \in Int
    BY DEF TypeInv, TypeOK, SegTypeOK
  <2>2. segTable' = [segTable EXCEPT ![s] = [st EXCEPT !.state = "RESERVED"]]
    BY <1>1 DEF AllocForGC
  <2> HIDE DEF st
  <2>3. [st EXCEPT !.state = "RESERVED"] \in SegmentStat
    BY <2>1 DEF SegmentStat, SegUseStat
  <2>4. segTable' \in [Segs -> SegmentStat]
    BY <2>1, <2>2, <2>3
  <2> QED
    BY <1>1, <2>1, <2>4 DEF AllocForGC, SegTypeOK
<1>4. batch \in [Batches -> BatchRecord] /\ old \in BatchRecord
  BY DEF TypeInv, TypeOK
<1>5. batch' = [batch EXCEPT ![b] = [old EXCEPT !.at = "write", !.seg = s]]
  BY <1>1, <1>4
<1> HIDE DEF old
<1>6. LET r == [old EXCEPT !.at = "write", !.seg = s]
      IN r \in BatchRecord /\ r.at = "write" /\ r.next = old.next
  BY <1>4 DEF BatchRecord, BatchAt
<1>7. /\ batch' \in [Batches -> BatchRecord] /\ \A c \in Batches : c # b => batch'[c] = batch[c]
      /\ batch'[b].at = "write" /\ batch'[b].next = old.next
  BY <1>4, <1>5, <1>6
<1>8. TypeOK'
  BY <1>2, <1>3, <1>7 DEF TypeInv, TypeOK, MaybeEntries
<1>9. MediumFits'
  BY <1>2 DEF TypeInv, MediumFits
<1>10. Progress'
  BY <1>2, <1>7 DEF TypeInv, Progress, old
<1> QED
  BY <1>8, <1>9, <1>10

(* Each sorted candidate list holds members of the set in the order of     *)
(* the multimap.                                                           *)
LEMMA CandMapTyped ==
  ASSUME NEW S \in SUBSET Segs, NEW q \in CandMap(S)
  PROVE  /\ q \in Seq(Segs) /\ DOMAIN q = 1 .. Len(q)
         /\ \A i \in DOMAIN q : q[i] \in S
         /\ \A i, j \in DOMAIN q : i < j => SortsBefore(q[i], q[j])
<1>1. IsFiniteSet(S)
  <2>1. IsFiniteSet(Segs)
    BY SegmentManagerAssumption, FS_Interval DEF Segs
  <2> QED
    BY <2>1, FS_Subset
<1>2. Cardinality(S) \in Nat
  BY <1>1, FS_CardinalityType
<1> DEFINE n == Cardinality(S)
<1>3. q \in [1 .. n -> S] /\ \A i, j \in DOMAIN q : i < j => SortsBefore(q[i], q[j])
  BY DEF CandMap
<1> HIDE DEF n
<1>4. n \in Nat
  BY <1>2 DEF n
<1>5. q \in Seq(S) /\ DOMAIN q = 1 .. n
  BY <1>3, <1>4, SeqDef
<1>6. q \in Seq(Segs)
  BY <1>3, <1>4, SeqDef
<1> QED
  BY <1>3, <1>5, <1>6

(* cand_map holds each segment once.                                       *)
LEMMA CandMapOnce ==
  ASSUME NEW S \in SUBSET Segs, NEW q \in CandMap(S), TypeOK
  PROVE  \A i, j \in DOMAIN q : q[i] = q[j] => i = j
<1>1. \A s \in Segs : ~SortsBefore(s, s)
  <2> SUFFICES ASSUME NEW s \in Segs PROVE ~SortsBefore(s, s)
    OBVIOUS
  <2>1. s \in Nat /\ segTable[s] \in SegmentStat
    BY SegsAreNumbers, SegmentManagerAssumption DEF TypeOK, SegTypeOK
  <2>2. UsedSize(s) \in Int
    <3>1. segTable[s].free_size \in Int /\ segTable[s].death_size \in Int
      BY <2>1 DEF SegmentStat
    <3>2. SegSize - (segTable[s].free_size + segTable[s].death_size + SegHeader) \in Int
      BY <3>1, SegmentManagerAssumption
    <3> QED
      BY <3>2, SegmentManagerAssumption DEF UsedSize
  <2> QED
    BY <2>1, <2>2 DEF SortsBefore
<1>2. /\ DOMAIN q = 1 .. Len(q) /\ Len(q) \in Nat
      /\ \A i \in DOMAIN q : q[i] \in S
      /\ \A i, j \in DOMAIN q : i < j => SortsBefore(q[i], q[j])
  BY CandMapTyped
<1> SUFFICES ASSUME NEW i \in DOMAIN q, NEW j \in DOMAIN q, q[i] = q[j], i # j
             PROVE  FALSE
  OBVIOUS
<1>3. i < j \/ j < i
  BY <1>2
<1>4. SortsBefore(q[i], q[i])
  BY <1>2, <1>3
<1> QED
  BY <1>1, <1>2, <1>4

(* A migration begins with nothing loaded.                                 *)
LEMMA StartTyped ==
  ASSUME NEW owner \in Batches \cup {"thread"}, NEW vol \in MediumVols,
         StartMigration(owner, vol)
  PROVE  /\ mig' \in MigRecord /\ mig'.at = "load" /\ mig'.owner = owner /\ mig'.vol = vol
         /\ mig'.cands \in CandMap(InState("USED")) /\ mig'.pos = 1
         /\ mig'.loaded = <<>> /\ mig'.list = <<>> /\ mig'.frees = <<>>
<1>1. PICK q \in CandMap(InState("USED")) :
        mig' = [NoMigration EXCEPT !.at = "load", !.owner = owner, !.vol = vol, !.cands = q]
  BY DEF StartMigration
<1>2. q \in Seq(Segs)
  BY CandMapTyped DEF InState
<1>3. /\ mig'.at = "load" /\ mig'.owner = owner /\ mig'.vol = vol /\ mig'.cands = q
      /\ mig'.pos = 1 /\ mig'.loaded = <<>> /\ mig'.list = <<>> /\ mig'.frees = <<>>
  BY <1>1 DEF NoMigration
<1>4. mig' \in MigRecord
  <2> DEFINE none == <<>>
  <2>1. mig' = [at |-> "load", owner |-> owner, vol |-> vol, cands |-> q, pos |-> 1,
                loaded |-> none, list |-> none, frees |-> none, stamp |-> 0]
    BY <1>1 DEF NoMigration
  <2>2. none \in Seq(Entries) /\ none \in Seq(Segs)
    OBVIOUS
  <2> HIDE DEF none
  <2> QED
    BY <1>2, <2>1, <2>2 DEF MigRecord
<1> QED
  BY <1>3, <1>4

(* ForeMigrate keeps the types.                                            *)
LEMMA ForeTyped ==
  ASSUME TypeInv, NEW b \in Batches, ForeMigrate(b)
  PROVE  TypeOK' /\ MediumFits' /\ Progress'
<1> DEFINE old == batch[b]
<1>1. /\ old.at = "migrate"
      /\ UNCHANGED <<segVars, content, medium, index, clock, pickVolId, thread, failures,
                     tried, before, slips>>
      /\ \/ batch' = [batch EXCEPT ![b] = [old EXCEPT !.at = "try"]] /\ UNCHANGED mig
         \/ batch' = [batch EXCEPT ![b] = [old EXCEPT !.at = "moving"]]
            /\ StartMigration(b, old.vol)
  BY DEF ForeMigrate, dataVars, history
<1>2. batch \in [Batches -> BatchRecord] /\ old \in BatchRecord /\ mig \in MigRecord
  BY DEF TypeInv, TypeOK
<1>3. old.vol \in MediumVols
  BY <1>2 DEF BatchRecord
<1>4. mig' \in MigRecord /\ (mig' = mig \/ mig'.at = "load")
  BY <1>1, <1>2, <1>3, StartTyped
<1> HIDE DEF old
<1>5. \A x \in {"try", "moving"} :
        LET r == [old EXCEPT !.at = x] IN r \in BatchRecord /\ r.at = x /\ r.next = old.next
  BY <1>2 DEF BatchRecord, BatchAt
<1>6. /\ batch' \in [Batches -> BatchRecord] /\ \A c \in Batches : c # b => batch'[c] = batch[c]
      /\ batch'[b].at \in {"try", "moving"} /\ batch'[b].next = old.next
  BY <1>1, <1>2, <1>5
<1>7. TypeOK'
  BY <1>1, <1>4, <1>6 DEF TypeInv, TypeOK, SegTypeOK, segVars, MaybeEntries
<1>8. MediumFits'
  BY <1>1 DEF TypeInv, MediumFits
<1>9. Progress'
  BY <1>1, <1>4, <1>6 DEF TypeInv, Progress, old
<1> QED
  BY <1>7, <1>8, <1>9

(* What Use and FreeForFailed do to a segment.                             *)
LEMMA UseTyped ==
  ASSUME TypeOK, NEW s \in Segs, NEW n \in Nat, Use(s, n)
  PROVE  /\ SegTypeOK' /\ UNCHANGED freedCounter
         /\ segTable'[s].state = "USED" /\ segTable'[s].death_size = segTable[s].death_size
         /\ \A t \in Segs : t # s => segTable'[t] = segTable[t]
<1> DEFINE st == segTable[s]
<1>1. segTable \in [Segs -> SegmentStat] /\ st \in SegmentStat
      /\ usedCounter \in Int /\ freedCounter \in Int /\ reservedCounter \in Int
      /\ curSegId \in Segs
  BY DEF TypeOK, SegTypeOK
<1>2. segTable' = [segTable EXCEPT ![s] = [st EXCEPT !.state = "USED", !.free_size = n]]
      /\ usedCounter' = usedCounter + 1 /\ reservedCounter' = reservedCounter - 1
      /\ UNCHANGED <<freedCounter, curSegId>>
  BY DEF Use
<1>3. LET r == [st EXCEPT !.state = "USED", !.free_size = n]
      IN r \in SegmentStat /\ r.state = "USED" /\ r.death_size = st.death_size
  <2> HIDE DEF st
  <2> QED
    BY <1>1 DEF SegmentStat, SegUseStat
<1>4. /\ segTable' \in [Segs -> SegmentStat]
      /\ segTable'[s].state = "USED" /\ segTable'[s].death_size = st.death_size
      /\ \A t \in Segs : t # s => segTable'[t] = segTable[t]
  BY <1>1, <1>2, <1>3
<1> QED
  BY <1>1, <1>2, <1>4 DEF SegTypeOK

(* Freeing a segment resets it and leaves the others.                      *)
LEMMA FreeTyped ==
  ASSUME TypeOK, NEW s \in Segs, FreeForFailed(s) \/ FreeForGC(s)
  PROVE  /\ SegTypeOK'
         /\ segTable'[s].state = "FREE" /\ segTable'[s].death_size = 0
         /\ \A t \in Segs : t # s => segTable'[t] = segTable[t]
<1>1. FreshStat \in SegmentStat /\ FreshStat.state = "FREE" /\ FreshStat.death_size = 0
  BY DEF FreshStat, SegmentStat, SegUseStat
<1>2. segTable \in [Segs -> SegmentStat] /\ usedCounter \in Int /\ freedCounter \in Int
      /\ reservedCounter \in Int /\ curSegId \in Segs
  BY DEF TypeOK, SegTypeOK
<1>3. /\ segTable' = [segTable EXCEPT ![s] = FreshStat] /\ UNCHANGED curSegId
      /\ usedCounter' \in Int /\ freedCounter' \in Int /\ reservedCounter' \in Int
  BY <1>2 DEF FreeForFailed, FreeForGC
<1>4. segTable' \in [Segs -> SegmentStat]
  BY <1>1, <1>2, <1>3
<1> QED
  BY <1>1, <1>2, <1>3, <1>4 DEF SegTypeOK

(* A write of a segment, or its failure, keeps the types.                  *)
LEMMA WriteTyped ==
  ASSUME TypeInv, NEW b \in Batches, WriteSeg(b) \/ WriteSegFails(b)
  PROVE  TypeOK' /\ MediumFits' /\ Progress'
<1> DEFINE old == batch[b]
<1>1. /\ batch \in [Batches -> BatchRecord] /\ old \in BatchRecord /\ clock \in Nat
      /\ content \in [Segs -> Seq(Writes)] /\ failures \in 0 .. MaxFailures
      /\ TypeOK
  BY DEF TypeInv, TypeOK
<1>2. old.at = "write" /\ UNCHANGED <<medium, index, pickVolId, thread, mig, tried, before, slips>>
  BY DEF WriteSeg, WriteSegFails, history
<1>3. old.seg \in Segs /\ old.next = 1
  BY <1>1, <1>2 DEF TypeInv, Progress, BatchRecord
<1>4. Items[b] \in Seq(Writes) /\ Len(Items[b]) \in 1 .. SegSize - SegHeader /\ 1 \in DOMAIN Items[b]
  BY MigrateAssumption, SegmentManagerAssumption
<1>5. /\ SegTypeOK' /\ content' \in [Segs -> Seq(Writes)] /\ clock' \in Nat
      /\ failures' \in 0 .. MaxFailures /\ batch'[b].next = old.next
      /\ batch' = [batch EXCEPT ![b] = batch'[b]]
      /\ batch'[b] \in BatchRecord /\ batch'[b].at \in {"update", "failed"}
  <2>1. CASE WriteSeg(b)
    <3> DEFINE room == SegSize - SegHeader - Len(Items[b])
    <3>1. /\ clock' = clock + 1 /\ content' = [content EXCEPT ![old.seg] = Items[b]]
          /\ Use(old.seg, room) /\ UNCHANGED failures
          /\ batch' = [batch EXCEPT ![b] = [old EXCEPT !.at = "update", !.stamp = clock']]
      BY <2>1 DEF WriteSeg
    <3>2. room \in Nat /\ clock' \in Nat
      BY <1>1, <1>4, <3>1, SegmentManagerAssumption
    <3> HIDE DEF old, room
    <3>3. SegTypeOK'
      BY <1>1, <1>3, <3>1, <3>2, UseTyped
    <3>4. content' \in [Segs -> Seq(Writes)]
      BY <1>1, <1>4, <3>1
    <3>5. LET r == [old EXCEPT !.at = "update", !.stamp = clock']
          IN r \in BatchRecord /\ r.at = "update" /\ r.next = old.next
      BY <1>1, <3>2 DEF BatchRecord, BatchAt
    <3> QED
      BY <1>1, <3>1, <3>2, <3>3, <3>4, <3>5
  <2>2. CASE WriteSegFails(b)
    <3>1. /\ FreeForFailed(old.seg) /\ UNCHANGED <<content, clock>>
          /\ batch' = [batch EXCEPT ![b] = [old EXCEPT !.at = "failed"]]
          /\ failures < MaxFailures /\ failures' = failures + 1
      BY <2>2 DEF WriteSegFails, DeviceRefuses
    <3>2. failures' \in 0 .. MaxFailures
      BY <1>1, <3>1, MigrateAssumption
    <3> HIDE DEF old
    <3>3. SegTypeOK'
      BY <1>1, <1>3, <3>1, FreeTyped
    <3>5. LET r == [old EXCEPT !.at = "failed"]
          IN r \in BatchRecord /\ r.at = "failed" /\ r.next = old.next
      BY <1>1 DEF BatchRecord, BatchAt
    <3> QED
      BY <1>1, <3>1, <3>2, <3>3, <3>5
  <2> QED
    BY <2>1, <2>2
<1> HIDE DEF old
<1>6. batch' \in [Batches -> BatchRecord] /\ \A c \in Batches : c # b => batch'[c] = batch[c]
  BY <1>1, <1>5
<1>7. TypeOK'
  BY <1>2, <1>5, <1>6 DEF TypeInv, TypeOK, MaybeEntries
<1>8. MediumFits'
  BY <1>2 DEF TypeInv, MediumFits
<1>9. Progress'
  BY <1>2, <1>3, <1>4, <1>5, <1>6 DEF TypeInv, Progress
<1> QED
  BY <1>7, <1>8, <1>9

(* A medium volume that gets no segment stays within its size.             *)
LEMMA FitsStays ==
  ASSUME MediumFits, \A v \in MediumVols : Len(medium'[v]) = Len(medium[v])
  PROVE  MediumFits'
BY DEF MediumFits

(* The item a batch is about to bring to the index, and its entry.         *)
ItemEntry(b) == Entry(Items[b][batch[b].next], Fast, batch[b].seg, batch[b].next, batch[b].stamp)

(* The entry of a batch's next write is its address in the segment taken.  *)
LEMMA ItemTyped ==
  ASSUME TypeOK, NEW b \in Batches, batch[b].next \in DOMAIN Items[b]
  PROVE  /\ ItemEntry(b) \in Entries /\ KeyOf[Items[b][batch[b].next]] \in Keys
         /\ ItemEntry(b).write = Items[b][batch[b].next] /\ ItemEntry(b).vol = Fast
         /\ ItemEntry(b).seg = batch[b].seg /\ ItemEntry(b).pos = batch[b].next
         /\ ItemEntry(b).stamp = batch[b].stamp
         /\ Items[b] \in Seq(Writes) /\ DOMAIN Items[b] = 1 .. Len(Items[b])
         /\ Items[b][batch[b].next] \in Writes /\ Len(Items[b]) \in Nat \ {0}
<1> DEFINE old == batch[b]
<1>1. old \in BatchRecord
  BY DEF TypeOK
<1>2. old.seg \in Nat /\ old.next \in Nat \ {0} /\ old.stamp \in Nat
  BY <1>1, SegsAreNumbers DEF BatchRecord
<1>3. Items[b] \in Seq(Writes) /\ Len(Items[b]) \in 1 .. SegSize - SegHeader
      /\ KeyOf \in [Writes -> Keys]
  BY MigrateAssumption
<1>4. Items[b][old.next] \in Writes /\ DOMAIN Items[b] = 1 .. Len(Items[b])
      /\ Len(Items[b]) \in Nat \ {0}
  BY <1>3, ElementOfSeq, SegmentManagerAssumption
<1>5. ItemEntry(b) \in Entries
  BY <1>2, <1>4, EntriesTyped DEF ItemEntry
<1> QED
  BY <1>3, <1>4, <1>5 DEF ItemEntry, Entry

(* An index update of a batch keeps the types and goes on to the next      *)
(* write.                                                                  *)
LEMMA BatchUpdateTyped ==
  ASSUME TypeInv, NEW b \in Batches, BatchUpdate(b)
  PROVE  /\ TypeOK' /\ MediumFits' /\ Progress'
         /\ UpdateIndex(ItemEntry(b))
         /\ batch[b].at = "update" /\ batch[b].next \in DOMAIN Items[b]
         /\ batch'[b].seg = batch[b].seg /\ batch'[b].stamp = batch[b].stamp
         /\ IF batch[b].next = Len(Items[b])
            THEN batch'[b].at \in {"reap", "done"} /\ batch'[b].next = 1
            ELSE batch'[b].at = "update" /\ batch'[b].next = batch[b].next + 1
         /\ \A c \in Batches : c # b => batch'[c] = batch[c]
         /\ UNCHANGED <<content, clock, pickVolId, thread, mig, tried, failures, before>>
<1> DEFINE old == batch[b]
           last == old.next = Len(Items[b])
           to == IF ~last THEN "update" ELSE IF b \in Reaped THEN "reap" ELSE "done"
           next == IF last THEN 1 ELSE old.next + 1
<1>1. /\ batch \in [Batches -> BatchRecord] /\ old \in BatchRecord /\ TypeOK
  BY DEF TypeInv, TypeOK
<1>2. /\ old.at = "update" /\ UpdateIndex(ItemEntry(b))
      /\ batch' = [batch EXCEPT ![b] = [old EXCEPT !.at = to, !.next = next]]
      /\ UNCHANGED <<content, clock, pickVolId, thread, mig, tried, failures, before>>
  BY DEF BatchUpdate, ItemEntry
<1>3. old.next \in DOMAIN Items[b]
  BY <1>2 DEF TypeInv, Progress
<1>4. /\ ItemEntry(b) \in Entries /\ DOMAIN Items[b] = 1 .. Len(Items[b])
      /\ Len(Items[b]) \in Nat \ {0}
  BY <1>1, <1>3, ItemTyped
<1>5. /\ next \in Nat \ {0} /\ next \in DOMAIN Items[b]
  BY <1>3, <1>4
<1>6. /\ index' \in [Keys -> MaybeEntries]
      /\ slips' \subseteq {"restamped", "tombstone", "unindexed", "overtaken"}
      /\ \E es : ModifyDeathEntries(es)
  BY <1>1, <1>2, <1>4, UpdateTyped
<1>7. /\ SegTypeOK'
      /\ medium' \in [MediumVols -> Seq([records : Seq(Writes), death : Nat])]
      /\ \A v \in MediumVols : Len(medium'[v]) = Len(medium[v])
  BY <1>1, <1>6, DeathsTyped
<1>8. to \in {"update", "reap", "done"} /\ (IF last THEN to \in {"reap", "done"} ELSE to = "update")
  OBVIOUS
<1> HIDE DEF old, last, to, next
<1>9. LET r == [old EXCEPT !.at = to, !.next = next]
      IN r \in BatchRecord /\ r.at = to /\ r.next = next /\ r.seg = old.seg /\ r.stamp = old.stamp
  BY <1>1, <1>5, <1>8 DEF BatchRecord, BatchAt
<1>10. /\ batch' \in [Batches -> BatchRecord] /\ \A c \in Batches : c # b => batch'[c] = batch[c]
       /\ batch'[b].at = to /\ batch'[b].next = next
       /\ batch'[b].seg = old.seg /\ batch'[b].stamp = old.stamp
  BY <1>1, <1>2, <1>9
<1>11. TypeOK'
  BY <1>2, <1>6, <1>7, <1>10 DEF TypeInv, TypeOK, MaybeEntries
<1>12. MediumFits'
  BY <1>7, FitsStays DEF TypeInv
<1>13. Progress'
  BY <1>2, <1>5, <1>8, <1>10 DEF TypeInv, Progress
<1> QED
  BY <1>2, <1>3, <1>8, <1>10, <1>11, <1>12, <1>13 DEF old, last, next

(* A turn of the reaper keeps the types and touches its batch only.        *)
LEMMA ReapTyped ==
  ASSUME TypeInv, NEW b \in Batches, Reap(b)
  PROVE  /\ TypeOK' /\ MediumFits' /\ Progress'
         /\ batch[b].at = "reap" /\ batch[b].next \in DOMAIN Items[b]
         /\ batch'[b].at \in {"reap", "done"}
         /\ batch'[b].seg = batch[b].seg /\ batch'[b].stamp = batch[b].stamp
         /\ \A c \in Batches : c # b => batch'[c] = batch[c]
         /\ UNCHANGED <<content, clock, pickVolId, thread, mig, failures, history>>
<1> DEFINE old == batch[b]
           to == IF old.next = Len(Items[b]) THEN "done" ELSE "reap"
           next == old.next + 1
<1>1. /\ batch \in [Batches -> BatchRecord] /\ old \in BatchRecord /\ TypeOK
      /\ index \in [Keys -> MaybeEntries]
  BY DEF TypeInv, TypeOK
<1>2. /\ old.at = "reap"
      /\ batch' = [batch EXCEPT ![b] = [old EXCEPT !.at = to, !.next = next]]
      /\ index' = index \/ index' = [index EXCEPT ![KeyOf[Items[b][old.next]]] = NoEntry]
      /\ \E es : ModifyDeathEntries(es)
      /\ UNCHANGED <<content, clock, pickVolId, thread, mig, failures, history>>
  BY DEF Reap
<1>3. old.next \in DOMAIN Items[b]
  BY <1>2 DEF TypeInv, Progress
<1>4. /\ KeyOf[Items[b][old.next]] \in Keys /\ DOMAIN Items[b] = 1 .. Len(Items[b])
      /\ Len(Items[b]) \in Nat \ {0}
  BY <1>1, <1>3, ItemTyped
<1>5. next \in Nat \ {0} /\ (to = "reap" => next \in DOMAIN Items[b]) /\ to \in {"reap", "done"}
  BY <1>3, <1>4
<1>6. index' \in [Keys -> MaybeEntries]
  BY <1>1, <1>2, <1>4 DEF MaybeEntries
<1>7. /\ SegTypeOK'
      /\ medium' \in [MediumVols -> Seq([records : Seq(Writes), death : Nat])]
      /\ \A v \in MediumVols : Len(medium'[v]) = Len(medium[v])
  BY <1>1, <1>2, DeathsTyped
<1> HIDE DEF old, to, next
<1>8. LET r == [old EXCEPT !.at = to, !.next = next]
      IN r \in BatchRecord /\ r.at = to /\ r.next = next /\ r.seg = old.seg /\ r.stamp = old.stamp
  BY <1>1, <1>5 DEF BatchRecord, BatchAt
<1>9. /\ batch' \in [Batches -> BatchRecord] /\ \A c \in Batches : c # b => batch'[c] = batch[c]
      /\ batch'[b].at = to /\ batch'[b].next = next
      /\ batch'[b].seg = old.seg /\ batch'[b].stamp = old.stamp
  BY <1>1, <1>2, <1>8
<1>10. TypeOK'
  BY <1>2, <1>6, <1>7, <1>9 DEF TypeInv, TypeOK, MaybeEntries, history
<1>11. MediumFits'
  BY <1>7, FitsStays DEF TypeInv
<1>12. Progress'
  BY <1>2, <1>5, <1>9 DEF TypeInv, Progress
<1> QED
  BY <1>2, <1>3, <1>5, <1>9, <1>10, <1>11, <1>12 DEF old

(* A pick of the migration thread keeps the types.                         *)
LEMMA ThreadTyped ==
  ASSUME TypeInv, ThreadPicks \/ BackMigrate
  PROVE  TypeOK' /\ MediumFits' /\ Progress'
<1>1. UNCHANGED <<segVars, content, medium, index, clock, batch, failures, before, slips>>
  BY DEF ThreadPicks, BackMigrate, dataVars, history
<1>2. thread \in [at : {"idle", "migrate", "moving"}, vol : MediumVols, turns : 0 .. MaxBack]
  BY DEF TypeInv, TypeOK
<1>3. CASE ThreadPicks
  <2>1. /\ thread.turns < MaxBack /\ pickVolId' = Picked /\ UNCHANGED mig
        /\ thread' = [at |-> "migrate", vol |-> Picked, turns |-> thread.turns + 1]
        /\ tried' = [b \in Batches |->
                       IF InAllocSegment(b) THEN tried[b] \cup {Other} ELSE tried[b]]
    BY <1>3 DEF ThreadPicks
  <2>2. Picked \in MediumVols
    BY MigrateAssumption DEF TypeInv, TypeOK, Picked, MediumVols
  <2>3. thread.turns + 1 \in 0 .. MaxBack
    BY <1>2, <2>1, MigrateAssumption
  <2>4. thread' \in [at : {"idle", "migrate", "moving"}, vol : MediumVols, turns : 0 .. MaxBack]
    BY <2>1, <2>2, <2>3
  <2>5. tried' \in [Batches -> SUBSET (MediumVols \cup {Other})]
    BY <2>1 DEF TypeInv, TypeOK
  <2>6. TypeOK'
    BY <1>1, <2>1, <2>2, <2>4, <2>5 DEF TypeInv, TypeOK, SegTypeOK, segVars, MaybeEntries
  <2> QED
    BY <1>1, <2>1, <2>6 DEF TypeInv, MediumFits, Progress
<1>4. CASE BackMigrate
  <2>1. /\ thread' = [thread EXCEPT !.at = "moving"] /\ UNCHANGED <<pickVolId, tried>>
        /\ StartMigration("thread", thread.vol)
    BY <1>4 DEF BackMigrate, history
  <2>2. mig' \in MigRecord /\ mig'.at = "load"
    BY <1>2, <2>1, StartTyped
  <2>3. thread' \in [at : {"idle", "migrate", "moving"}, vol : MediumVols, turns : 0 .. MaxBack]
    BY <1>2, <2>1
  <2>4. TypeOK'
    BY <1>1, <2>1, <2>2, <2>3 DEF TypeInv, TypeOK, SegTypeOK, segVars, MaybeEntries
  <2> QED
    BY <1>1, <2>2, <2>4 DEF TypeInv, MediumFits, Progress
<1> QED
  BY <1>3, <1>4

(* A migration returns to its writer or to the thread.                     *)
LEMMA EndTyped ==
  ASSUME TypeInv, MigrationFails \/ MigrationDone
  PROVE  /\ TypeOK' /\ MediumFits' /\ Progress'
         /\ mig' = NoMigration
         /\ \A b \in Batches : batch'[b] = batch[b]
              \/ /\ batch[b].at = "moving" /\ batch'[b].at = "try"
                 /\ \A f \in {"seg", "stamp", "next", "left", "vol"} : batch'[b][f] = batch[b][f]
         /\ UNCHANGED <<dataVars, pickVolId, history>>
<1> DEFINE o == mig.owner
           old == batch[o]
<1>1. /\ mig.at # "idle" /\ mig' = NoMigration
      /\ UNCHANGED <<dataVars, pickVolId, history>>
      /\ IF o = "thread" THEN thread' = [thread EXCEPT !.at = "idle"] /\ UNCHANGED batch
         ELSE batch' = [batch EXCEPT ![o] = [old EXCEPT !.at = "try"]] /\ UNCHANGED thread
  BY DEF MigrationFails, MigrationDone, EndMigration
<1>2. failures' \in 0 .. MaxFailures
  BY MigrateAssumption DEF MigrationFails, MigrationDone, DeviceRefuses, TypeInv, TypeOK
<1>3. /\ batch \in [Batches -> BatchRecord]
      /\ thread \in [at : {"idle", "migrate", "moving"}, vol : MediumVols, turns : 0 .. MaxBack]
  BY DEF TypeInv, TypeOK
<1>4. thread' \in [at : {"idle", "migrate", "moving"}, vol : MediumVols, turns : 0 .. MaxBack]
  BY <1>1, <1>3
<1>5. /\ batch' \in [Batches -> BatchRecord]
      /\ \A b \in Batches : batch'[b] = batch[b]
           \/ /\ batch[b].at = "moving" /\ batch'[b].at = "try"
              /\ \A f \in {"seg", "stamp", "next", "left", "vol"} : batch'[b][f] = batch[b][f]
  <2>1. CASE o = "thread"
    BY <1>1, <1>3, <2>1
  <2>2. CASE o # "thread"
    <3>1. o \in Batches /\ old.at = "moving" /\ old \in BatchRecord
      BY <1>1, <1>3, <2>2 DEF TypeInv, Control, OneInAlloc
    <3>2. batch' = [batch EXCEPT ![o] = [old EXCEPT !.at = "try"]]
      BY <1>1, <2>2
    <3> HIDE DEF old, o
    <3> DEFINE r == [old EXCEPT !.at = "try"]
    <3>3. /\ r \in BatchRecord /\ r.at = "try"
          /\ \A f \in {"seg", "stamp", "next", "left", "vol"} : r[f] = old[f]
      BY <3>1 DEF BatchRecord, BatchAt
    <3> HIDE DEF r
    <3>4. batch' = [batch EXCEPT ![o] = r]
      BY <3>2 DEF r
    <3> QED
      BY <1>3, <3>1, <3>3, <3>4 DEF old
  <2> QED
    BY <2>1, <2>2
<1>6. mig' \in MigRecord
  <2> DEFINE none == <<>>
  <2>1. mig' = [at |-> "idle", owner |-> NoEntry, vol |-> 0, cands |-> none, pos |-> 1,
                loaded |-> none, list |-> none, frees |-> none, stamp |-> 0]
    BY <1>1 DEF NoMigration
  <2>2. none \in Seq(Entries) /\ none \in Seq(Segs) /\ 0 \in MediumVols
    BY MigrateAssumption DEF MediumVols
  <2> HIDE DEF none
  <2> QED
    BY <2>1, <2>2 DEF MigRecord
<1> HIDE DEF o, old
<1>7. TypeOK'
  BY <1>1, <1>2, <1>4, <1>5, <1>6
     DEF TypeInv, TypeOK, SegTypeOK, dataVars, segVars, history, MaybeEntries
<1>8. MediumFits'
  BY <1>1 DEF TypeInv, MediumFits, dataVars
<1>9. Progress'
  <2>1. mig'.at = "idle"
    BY <1>1 DEF NoMigration
  <2> QED
    BY <1>5, <2>1 DEF TypeInv, Progress
<1> QED
  BY <1>1, <1>5, <1>7, <1>8, <1>9

(* The record loadSegKV looks at.                                          *)
Looked == Entry(content[mig.cands[1]][mig.pos], Fast, mig.cands[1], mig.pos, 0)

(* A look at a record loads it if its entry is in the index and is no      *)
(* tombstone.                                                              *)
LEMMA LoadTyped ==
  ASSUME TypeInv, LoadEntry
  PROVE  /\ TypeOK' /\ MediumFits' /\ Progress'
         /\ mig.at = "load" /\ mig.cands # <<>> /\ mig.cands[1] \in Segs
         /\ mig.pos \in DOMAIN content[mig.cands[1]]
         /\ Looked \in Entries
         /\ mig'.pos = mig.pos + 1
         /\ mig'.loaded = IF IsSameInMem(Looked) /\ ~Tombstone(Looked)
                          THEN Append(mig.loaded, Looked) ELSE mig.loaded
         /\ \A f \in {"at", "owner", "vol", "cands", "list", "frees", "stamp"} :
              mig'[f] = mig[f]
         /\ slips' = slips
              \cup (IF IsSameInMem(Looked) /\ Tombstone(Looked) THEN {"tombstone"} ELSE {})
              \cup (IF Unindexed(mig.cands[1], mig.pos) THEN {"unindexed"} ELSE {})
         /\ UNCHANGED <<segVars, content, medium, index>> /\ OthersKeep
<1> DEFINE old == mig
           more == IF IsSameInMem(Looked) /\ ~Tombstone(Looked)
                   THEN Append(mig.loaded, Looked) ELSE mig.loaded
           pos == mig.pos + 1
<1>1. old \in MigRecord /\ content \in [Segs -> Seq(Writes)]
  BY DEF TypeInv, TypeOK
<1>2. /\ mig.at = "load" /\ mig.cands # <<>>
      /\ mig.cands \in Seq(Segs) /\ mig.pos \in Nat \ {0} /\ mig.loaded \in Seq(Entries)
  BY <1>1 DEF LoadEntry, MigRecord
<1>3. Head(mig.cands) = mig.cands[1] /\ mig.cands[1] \in Segs
  BY <1>2
<1>4. /\ mig.pos \in DOMAIN content[mig.cands[1]]
      /\ mig' = [old EXCEPT !.pos = pos, !.loaded = more]
      /\ slips' = slips
           \cup (IF IsSameInMem(Looked) /\ Tombstone(Looked) THEN {"tombstone"} ELSE {})
           \cup (IF Unindexed(mig.cands[1], mig.pos) THEN {"unindexed"} ELSE {})
      /\ UNCHANGED <<segVars, content, medium, index>> /\ OthersKeep
  BY <1>3 DEF LoadEntry, Looked
<1>5. Looked \in Entries
  <2>1. content[mig.cands[1]] \in Seq(Writes)
    BY <1>1, <1>3
  <2>2. content[mig.cands[1]][mig.pos] \in Writes
    BY <1>4, <2>1, ElementOfSeq
  <2> QED
    BY <1>2, <1>3, <2>2, SegsAreNumbers, EntriesTyped DEF Looked
<1>6. more \in Seq(Entries) /\ pos \in Nat \ {0}
  BY <1>2, <1>5
<1> HIDE DEF old, more, pos
<1>7. LET r == [old EXCEPT !.pos = pos, !.loaded = more]
      IN /\ r \in MigRecord /\ r.pos = pos /\ r.loaded = more
         /\ \A f \in {"at", "owner", "vol", "cands", "list", "frees", "stamp"} : r[f] = old[f]
  BY <1>1, <1>6 DEF MigRecord
<1>8. /\ mig' \in MigRecord /\ mig'.pos = pos /\ mig'.loaded = more
      /\ \A f \in {"at", "owner", "vol", "cands", "list", "frees", "stamp"} : mig'[f] = mig[f]
  <2> HIDE DEF MigRecord
  <2> QED
    BY <1>4, <1>7 DEF old
<1>9. slips' \subseteq {"restamped", "tombstone", "unindexed", "overtaken"}
  BY <1>4 DEF TypeInv, TypeOK
<1>10. TypeOK'
  BY <1>4, <1>8, <1>9 DEF TypeInv, TypeOK, SegTypeOK, segVars, OthersKeep, MaybeEntries
<1>11. MediumFits'
  BY <1>4 DEF TypeInv, MediumFits
<1>12. Progress'
  BY <1>2, <1>4, <1>8 DEF TypeInv, Progress, OthersKeep
<1> QED
  BY <1>2, <1>3, <1>4, <1>5, <1>8, <1>10, <1>11, <1>12 DEF more, pos

(* The end of a candidate packs what was loaded from it, or, if that does  *)
(* not fit, ends the loading.                                              *)
LEMMA PackTyped ==
  ASSUME TypeInv, PackCandidate
  PROVE  /\ TypeOK' /\ MediumFits' /\ Progress'
         /\ mig.at = "load" /\ mig.cands # <<>> /\ mig.cands[1] \in Segs
         /\ mig.pos \notin DOMAIN content[mig.cands[1]]
         /\ mig'.loaded = <<>> /\ mig'.pos = 1
         /\ \A f \in {"at", "owner", "vol", "stamp"} : mig'[f] = mig[f]
         /\ \/ /\ mig'.list = mig.list \o mig.loaded
               /\ mig'.frees = Append(mig.frees, mig.cands[1])
               /\ mig'.cands = Tail(mig.cands)
            \/ mig'.list = mig.list /\ mig'.frees = mig.frees /\ mig'.cands = <<>>
         /\ UNCHANGED <<segVars, content, medium, index, slips>> /\ OthersKeep
<1> DEFINE old == mig
           fits == TryPutList(Len(mig.loaded))
           list == IF fits THEN mig.list \o mig.loaded ELSE mig.list
           frees == IF fits THEN Append(mig.frees, mig.cands[1]) ELSE mig.frees
           cands == IF fits THEN Tail(mig.cands) ELSE <<>>
           none == <<>>
<1>1. old \in MigRecord
  BY DEF TypeInv, TypeOK
<1>2. /\ mig.at = "load" /\ mig.cands # <<>>
      /\ mig.cands \in Seq(Segs) /\ mig.list \in Seq(Entries) /\ mig.loaded \in Seq(Entries)
      /\ mig.frees \in Seq(Segs)
  BY <1>1 DEF PackCandidate, MigRecord
<1>3. Head(mig.cands) = mig.cands[1] /\ mig.cands[1] \in Segs
  BY <1>2
<1>4. /\ mig.pos \notin DOMAIN content[mig.cands[1]]
      /\ mig' = [old EXCEPT !.list = list, !.frees = frees, !.loaded = none, !.pos = 1,
                            !.cands = cands]
      /\ UNCHANGED <<segVars, content, medium, index, slips>> /\ OthersKeep
  BY <1>3 DEF PackCandidate, Absorbed
<1>5. list \in Seq(Entries) /\ frees \in Seq(Segs) /\ cands \in Seq(Segs) /\ none \in Seq(Entries)
  <2> HIDE DEF fits
  <2> QED
    BY <1>2, <1>3
<1> HIDE DEF old, fits, list, frees, cands, none
<1>6. LET r == [old EXCEPT !.list = list, !.frees = frees, !.loaded = none, !.pos = 1,
                           !.cands = cands]
      IN /\ r \in MigRecord /\ r.list = list /\ r.frees = frees /\ r.loaded = none /\ r.pos = 1
         /\ r.cands = cands
         /\ \A f \in {"at", "owner", "vol", "stamp"} : r[f] = old[f]
  <2> DEFINE r1 == [old EXCEPT !.list = list, !.frees = frees]
             r2 == [r1 EXCEPT !.loaded = none, !.pos = 1]
             r3 == [r2 EXCEPT !.cands = cands]
  <2>1. /\ r1 \in MigRecord /\ r1.list = list /\ r1.frees = frees
        /\ \A f \in {"at", "owner", "vol", "stamp"} : r1[f] = old[f]
    BY <1>1, <1>5 DEF MigRecord
  <2> HIDE DEF r1
  <2>2. /\ r2 \in MigRecord /\ r2.list = list /\ r2.frees = frees /\ r2.loaded = none
        /\ r2.pos = 1
        /\ \A f \in {"at", "owner", "vol", "stamp"} : r2[f] = old[f]
    <3>0. none \in Seq(Entries) /\ 1 \in Nat \ {0} /\ r1 \in MigRecord
      BY <1>5, <2>1
    <3>1. r2 \in MigRecord
      BY <3>0 DEF MigRecord
    <3>2. r2.list = r1.list /\ r2.frees = r1.frees /\ r2.loaded = none /\ r2.pos = 1
      BY <2>1 DEF MigRecord
    <3>3. \A f \in {"at", "owner", "vol", "stamp"} : r2[f] = r1[f]
      BY <2>1 DEF MigRecord
    <3> QED
      BY <2>1, <3>1, <3>2, <3>3
  <2> HIDE DEF r2
  <2>3. /\ r3 \in MigRecord /\ r3.list = list /\ r3.frees = frees /\ r3.loaded = none
        /\ r3.pos = 1 /\ r3.cands = cands
        /\ \A f \in {"at", "owner", "vol", "stamp"} : r3[f] = old[f]
    BY <1>5, <2>2 DEF MigRecord
  <2> QED
    BY <2>3 DEF r1, r2
<1>7. /\ mig' \in MigRecord /\ mig'.list = list /\ mig'.frees = frees /\ mig'.loaded = none
      /\ mig'.pos = 1 /\ mig'.cands = cands
      /\ \A f \in {"at", "owner", "vol", "stamp"} : mig'[f] = mig[f]
  <2> HIDE DEF MigRecord
  <2> QED
    BY <1>4, <1>6 DEF old
<1>8. TypeOK'
  BY <1>4, <1>7 DEF TypeInv, TypeOK, SegTypeOK, segVars, OthersKeep, MaybeEntries
<1>9. MediumFits'
  BY <1>4 DEF TypeInv, MediumFits
<1>10. Progress'
  BY <1>2, <1>4, <1>7 DEF TypeInv, Progress, OthersKeep
<1> QED
  BY <1>2, <1>3, <1>4, <1>7, <1>8, <1>9, <1>10 DEF fits, list, frees, cands, none

(* The records of the segment a migration writes.                          *)
Copies == [n \in DOMAIN mig.list |-> mig.list[n].write]

(* The write to a medium volume adds a segment there at the clock's time.  *)
LEMMA WriteMigratedTyped ==
  ASSUME TypeInv, WriteMigrated
  PROVE  /\ TypeOK' /\ MediumFits' /\ Progress'
         /\ mig.at = "load" /\ mig.cands = <<>> /\ mig.vol \in MediumVols
         /\ mig'.at = "lock" /\ mig'.stamp = clock' /\ clock' = clock + 1
         /\ \A f \in {"owner", "vol", "cands", "pos", "loaded", "list", "frees"} :
              mig'[f] = mig[f]
         /\ medium'[mig.vol] = Append(medium[mig.vol], [records |-> Copies, death |-> 0])
         /\ \A v \in MediumVols : v # mig.vol => medium'[v] = medium[v]
         /\ Copies \in Seq(Writes)
         /\ UNCHANGED <<segVars, content, index, batch, pickVolId, thread, failures, history>>
<1> DEFINE old == mig
           seg == [records |-> Copies, death |-> 0]
           D == [records : Seq(Writes), death : Nat]
           vol == mig.vol
           now == clock + 1
<1>1. /\ old \in MigRecord /\ medium \in [MediumVols -> Seq(D)] /\ clock \in Nat
  BY DEF TypeInv, TypeOK
<1>2. mig.list \in Seq(Entries) /\ vol \in MediumVols
  BY <1>1 DEF MigRecord
<1>3. /\ mig.at = "load" /\ mig.cands = <<>> /\ MediumHasRoom(vol)
      /\ clock' = now /\ mig' = [old EXCEPT !.at = "lock", !.stamp = now]
      /\ medium' = [medium EXCEPT ![vol] = Append(medium[vol], seg)]
      /\ UNCHANGED <<segVars, content, index, batch, pickVolId, thread, failures, history>>
  BY DEF WriteMigrated, Copies
<1>4. Copies \in Seq(Writes)
  <2>1. \A n \in DOMAIN mig.list : mig.list[n] \in Entries
    BY <1>2, ElementOfSeq
  <2>2. \A n \in DOMAIN mig.list : mig.list[n].write \in Writes
    BY <2>1 DEF Entries
  <2>3. DOMAIN mig.list = 1 .. Len(mig.list) /\ Len(mig.list) \in Nat
    BY <1>2
  <2> QED
    BY <2>2, <2>3, SeqDef DEF Copies
<1>5. seg \in D
  BY <1>4
<1>6. /\ Append(medium[vol], seg) \in Seq(D) /\ medium[vol] \in Seq(D)
      /\ Len(Append(medium[vol], seg)) = Len(medium[vol]) + 1
  <2> HIDE DEF seg, D
  <2> QED
    BY <1>1, <1>2, <1>5
<1>7. Len(medium[vol]) + 1 <= MediumSegNum[vol]
  <2>1. MediumSegNum[vol] \in Nat /\ Len(medium[vol]) \in Nat /\ SEG_RESERVED_FOR_GC \in Nat
    BY <1>2, <1>6, MigrateAssumption, SegmentManagerAssumption
  <2> QED
    BY <1>3, <2>1 DEF MediumHasRoom
<1> HIDE DEF old, seg, D, vol, now
<1>8. now \in Nat
  BY <1>1 DEF now
<1>9. LET r == [old EXCEPT !.at = "lock", !.stamp = now]
      IN /\ r \in MigRecord /\ r.at = "lock" /\ r.stamp = now
         /\ \A f \in {"owner", "vol", "cands", "pos", "loaded", "list", "frees"} : r[f] = old[f]
  BY <1>1, <1>8 DEF MigRecord
<1>10. /\ mig' \in MigRecord /\ mig'.at = "lock" /\ mig'.stamp = now
       /\ \A f \in {"owner", "vol", "cands", "pos", "loaded", "list", "frees"} :
            mig'[f] = mig[f]
  <2> HIDE DEF MigRecord
  <2> QED
    BY <1>3, <1>9 DEF old
<1>11. /\ medium' \in [MediumVols -> Seq(D)] /\ medium'[vol] = Append(medium[vol], seg)
       /\ \A v \in MediumVols : v # vol => medium'[v] = medium[v]
  <2> DEFINE new == Append(medium[vol], seg)
  <2>1. new \in Seq(D) /\ medium' = [medium EXCEPT ![vol] = new]
    BY <1>3, <1>6
  <2> HIDE DEF new
  <2>2. /\ medium' \in [MediumVols -> Seq(D)] /\ medium'[vol] = new
        /\ \A v \in MediumVols : v # vol => medium'[v] = medium[v]
    BY <1>1, <1>2, <2>1
  <2> QED
    BY <2>2 DEF new
<1>12. TypeOK'
  <2>1. medium' \in [MediumVols -> Seq([records : Seq(Writes), death : Nat])]
    BY <1>11 DEF D
  <2> QED
    BY <1>3, <1>8, <1>10, <2>1
       DEF TypeInv, TypeOK, SegTypeOK, segVars, history, MaybeEntries
<1>13. MediumFits'
  BY <1>6, <1>7, <1>11 DEF TypeInv, MediumFits
<1>14. Progress'
  BY <1>3, <1>10 DEF TypeInv, Progress
<1> QED
  BY <1>2, <1>3, <1>4, <1>10, <1>11, <1>12, <1>13, <1>14 DEF seg, vol, now

(* A moved record is the loaded one at its new address.                    *)
LEMMA MovedTyped ==
  ASSUME TypeOK, mig.pos \in DOMAIN mig.list
  PROVE  /\ Moved \in Entries /\ BeforeGC \in Entries
         /\ Moved.write = BeforeGC.write /\ Moved.vol = mig.vol /\ mig.vol \in MediumVols
         /\ Moved.seg = Len(medium[mig.vol]) /\ Moved.pos = mig.pos /\ Moved.stamp = mig.stamp
         /\ KeyOf[Moved.write] \in Keys /\ Moved.write \in Writes
<1>1. mig \in MigRecord /\ medium \in [MediumVols -> Seq([records : Seq(Writes), death : Nat])]
  BY DEF TypeOK
<1>2. /\ mig.list \in Seq(Entries) /\ mig.vol \in MediumVols /\ mig.pos \in Nat \ {0}
      /\ mig.stamp \in Nat
  BY <1>1 DEF MigRecord
<1>3. mig.list[mig.pos] \in Entries
  BY <1>2, ElementOfSeq
<1>4. mig.list[mig.pos].write \in Writes /\ KeyOf[mig.list[mig.pos].write] \in Keys
  BY <1>3, MigrateAssumption DEF Entries
<1>5. Len(medium[mig.vol]) \in Nat
  BY <1>1, <1>2
<1>6. Moved \in Entries
  BY <1>2, <1>4, <1>5, EntriesTyped DEF Moved
<1> QED
  BY <1>2, <1>3, <1>4, <1>6 DEF Moved, BeforeGC, Entry

(* A migration goes on to another place of doMigrate.                      *)
LEMMA GoesOn ==
  ASSUME TypeOK, NEW to \in {"test", "put", "free"}, NEW n \in Nat \ {0},
         mig' = [mig EXCEPT !.at = to, !.pos = n]
  PROVE  /\ mig' \in MigRecord /\ mig'.at = to /\ mig'.pos = n
         /\ \A f \in {"owner", "vol", "cands", "loaded", "list", "frees", "stamp"} :
              mig'[f] = mig[f]
<1> DEFINE old == mig
<1>1. old \in MigRecord
  BY DEF TypeOK
<1>2. mig' = [old EXCEPT !.at = to, !.pos = n]
  OBVIOUS
<1> HIDE DEF old
<1>3. LET r == [old EXCEPT !.at = to, !.pos = n]
      IN /\ r \in MigRecord /\ r.at = to /\ r.pos = n
         /\ \A f \in {"owner", "vol", "cands", "loaded", "list", "frees", "stamp"} : r[f] = old[f]
  BY <1>1 DEF MigRecord
<1> QED
  <2> HIDE DEF MigRecord
  <2> QED
    BY <1>2, <1>3 DEF old

(* Taking the lock of batches, and the end of the index update, keep the   *)
(* types.                                                                  *)
LEMMA LockTyped ==
  ASSUME TypeInv, LockBatchMtx \/ IndexUpdated
  PROVE  /\ TypeOK' /\ MediumFits' /\ Progress'
         /\ \/ mig.at = "lock" /\ mig'.at = "test"
            \/ mig.at = "test" /\ mig'.at = "free" /\ mig.pos \notin DOMAIN mig.list
         /\ \A f \in {"owner", "vol", "cands", "pos", "loaded", "list", "frees", "stamp"} :
              mig'[f] = mig[f]
         /\ UNCHANGED <<segVars, content, medium, index, slips>> /\ OthersKeep
<1>1. mig \in MigRecord
  BY DEF TypeInv, TypeOK
<1>2. /\ \/ mig.at = "lock" /\ mig' = [mig EXCEPT !.at = "test"]
         \/ mig.at = "test" /\ mig' = [mig EXCEPT !.at = "free"] /\ mig.pos \notin DOMAIN mig.list
      /\ UNCHANGED <<segVars, content, medium, index, slips>> /\ OthersKeep
  BY DEF LockBatchMtx, IndexUpdated
<1> DEFINE to == mig'.at
           n == mig.pos
<1>3. to \in {"test", "free"} /\ n \in Nat \ {0} /\ mig' = [mig EXCEPT !.at = to, !.pos = n]
  BY <1>1, <1>2 DEF MigRecord
<1> HIDE DEF to, n
<1>4. /\ mig' \in MigRecord /\ mig'.at = to /\ mig'.pos = n
      /\ \A f \in {"owner", "vol", "cands", "loaded", "list", "frees", "stamp"} :
           mig'[f] = mig[f]
  BY <1>3, GoesOn DEF TypeInv
<1>5. TypeOK'
  BY <1>2, <1>4 DEF TypeInv, TypeOK, SegTypeOK, segVars, OthersKeep, MaybeEntries
<1>6. MediumFits'
  BY <1>2 DEF TypeInv, MediumFits
<1>7. Progress'
  BY <1>2, <1>3, <1>4 DEF TypeInv, Progress, OthersKeep
<1>8. (mig.at = "lock" /\ to = "test") \/ (mig.at = "test" /\ to = "free")
  BY <1>1, <1>2 DEF MigRecord, to
<1> QED
  BY <1>2, <1>4, <1>5, <1>6, <1>7, <1>8 DEF n, to

(* The test of a moved record: its entry is unchanged and is put, or the   *)
(* copy is dead.                                                           *)
LEMMA TestTyped ==
  ASSUME TypeInv, TestSame
  PROVE  /\ TypeOK' /\ MediumFits' /\ Progress'
         /\ mig.at = "test" /\ mig.pos \in DOMAIN mig.list
         /\ \A f \in {"owner", "vol", "cands", "loaded", "list", "frees", "stamp"} :
              mig'[f] = mig[f]
         /\ \/ /\ IsSameInMem(BeforeGC) /\ mig'.at = "put" /\ mig'.pos = mig.pos
               /\ UNCHANGED <<segTable, curSegId, counters, medium>>
            \/ /\ ~IsSameInMem(BeforeGC) /\ mig'.at = "test" /\ mig'.pos = mig.pos + 1
               /\ ModifyDeathEntries({Moved})
         /\ UNCHANGED <<content, index, slips>> /\ OthersKeep
<1>1. /\ mig.at = "test" /\ mig.pos \in DOMAIN mig.list /\ mig \in MigRecord
      /\ UNCHANGED <<content, index, slips>> /\ OthersKeep /\ TypeOK
  BY DEF TestSame, TypeInv, TypeOK
<1>2. mig.pos \in Nat \ {0} /\ mig.pos + 1 \in Nat \ {0}
  BY <1>1 DEF MigRecord
<1>3. CASE IsSameInMem(BeforeGC)
  <2>1. mig' = [mig EXCEPT !.at = "put"] /\ UNCHANGED <<segTable, curSegId, counters, medium>>
    BY <1>3 DEF TestSame
  <2>2. mig' = [mig EXCEPT !.at = "put", !.pos = mig.pos]
    BY <1>1, <2>1 DEF MigRecord
  <2>3. /\ mig' \in MigRecord /\ mig'.at = "put" /\ mig'.pos = mig.pos
        /\ \A f \in {"owner", "vol", "cands", "loaded", "list", "frees", "stamp"} :
             mig'[f] = mig[f]
    BY <1>1, <1>2, <2>2, GoesOn
  <2>4. TypeOK'
    BY <1>1, <2>1, <2>3 DEF TypeOK, SegTypeOK, counters, OthersKeep, MaybeEntries
  <2> QED
    BY <1>1, <1>3, <2>1, <2>3, <2>4 DEF TypeInv, MediumFits, Progress, OthersKeep
<1>4. CASE ~IsSameInMem(BeforeGC)
  <2>1. mig' = [mig EXCEPT !.pos = mig.pos + 1] /\ ModifyDeathEntries({Moved})
    BY <1>4 DEF TestSame
  <2> DEFINE n == mig.pos + 1
  <2>2. mig' = [mig EXCEPT !.at = "test", !.pos = n]
    BY <1>1, <2>1 DEF MigRecord
  <2>3. /\ mig' \in MigRecord /\ mig'.at = "test" /\ mig'.pos = n
        /\ \A f \in {"owner", "vol", "cands", "loaded", "list", "frees", "stamp"} :
             mig'[f] = mig[f]
    <3> HIDE DEF n
    <3> QED
      BY <1>1, <1>2, <2>2, GoesOn DEF n
  <2>4. /\ SegTypeOK'
        /\ medium' \in [MediumVols -> Seq([records : Seq(Writes), death : Nat])]
        /\ \A v \in MediumVols : Len(medium'[v]) = Len(medium[v])
    BY <1>1, <2>1, DeathsTyped
  <2>5. TypeOK'
    BY <1>1, <2>3, <2>4 DEF TypeOK, OthersKeep, MaybeEntries
  <2>6. MediumFits'
    BY <2>4, FitsStays DEF TypeInv
  <2> QED
    BY <1>1, <1>4, <2>1, <2>3, <2>5, <2>6 DEF TypeInv, Progress, OthersKeep
<1> QED
  BY <1>3, <1>4

(* The put of a moved record keeps the types and replaces the key's        *)
(* entry.                                                                  *)
LEMMA PutTyped ==
  ASSUME TypeInv, PutMoved
  PROVE  /\ TypeOK' /\ MediumFits' /\ Progress'
         /\ mig.at = "put" /\ mig.pos \in DOMAIN mig.list
         /\ mig'.at = "test" /\ mig'.pos = mig.pos + 1
         /\ \A f \in {"owner", "vol", "cands", "loaded", "list", "frees", "stamp"} :
              mig'[f] = mig[f]
         /\ index' = [index EXCEPT ![KeyOf[Moved.write]] = Moved]
         /\ ModifyDeathEntries({BeforeGC})
         /\ slips' = IF IsSameInMem(BeforeGC) THEN slips ELSE slips \cup {"overtaken"}
         /\ UNCHANGED content /\ OthersKeep
<1> DEFINE n == mig.pos + 1
<1>1. /\ mig.at = "put" /\ mig \in MigRecord /\ TypeOK
      /\ index' = [index EXCEPT ![KeyOf[Moved.write]] = Moved]
      /\ ModifyDeathEntries({BeforeGC})
      /\ slips' = IF IsSameInMem(BeforeGC) THEN slips ELSE slips \cup {"overtaken"}
      /\ mig' = [mig EXCEPT !.at = "test", !.pos = n]
      /\ UNCHANGED content /\ OthersKeep
  BY DEF PutMoved, TypeInv, TypeOK
<1>2. mig.pos \in DOMAIN mig.list /\ n \in Nat \ {0}
  BY <1>1 DEF TypeInv, Progress, MigRecord
<1>3. /\ mig' \in MigRecord /\ mig'.at = "test" /\ mig'.pos = n
      /\ \A f \in {"owner", "vol", "cands", "loaded", "list", "frees", "stamp"} :
           mig'[f] = mig[f]
  <2> HIDE DEF n
  <2> QED
    BY <1>1, <1>2, GoesOn
<1>4. Moved \in Entries /\ KeyOf[Moved.write] \in Keys
  BY <1>1, <1>2, MovedTyped
<1>5. index' \in [Keys -> MaybeEntries]
  <2>1. index \in [Keys -> MaybeEntries] /\ Moved \in MaybeEntries
    BY <1>1, <1>4 DEF TypeOK, MaybeEntries
  <2> QED
    BY <1>1, <1>4, <2>1
<1>6. /\ SegTypeOK'
      /\ medium' \in [MediumVols -> Seq([records : Seq(Writes), death : Nat])]
      /\ \A v \in MediumVols : Len(medium'[v]) = Len(medium[v])
  BY <1>1, DeathsTyped
<1>7. slips' \subseteq {"restamped", "tombstone", "unindexed", "overtaken"}
  BY <1>1 DEF TypeOK
<1>8. TypeOK'
  BY <1>1, <1>3, <1>5, <1>6, <1>7 DEF TypeOK, OthersKeep, MaybeEntries
<1>9. MediumFits'
  BY <1>6, FitsStays DEF TypeInv
<1>10. Progress'
  BY <1>1, <1>3 DEF TypeInv, Progress, OthersKeep
<1> QED
  BY <1>1, <1>2, <1>3, <1>8, <1>9, <1>10

(* Freeing a migrated segment keeps the types.                             *)
LEMMA FreeMigratedTyped ==
  ASSUME TypeInv, FreeMigrated
  PROVE  /\ TypeOK' /\ MediumFits' /\ Progress'
         /\ mig.at = "free" /\ mig.frees # <<>> /\ mig.frees[1] \in Segs
         /\ FreeForGC(mig.frees[1])
         /\ mig'.frees = Tail(mig.frees)
         /\ \A f \in {"at", "owner", "vol", "cands", "pos", "loaded", "list", "stamp"} :
              mig'[f] = mig[f]
         /\ UNCHANGED <<content, medium, index, slips>> /\ OthersKeep
<1> DEFINE old == mig
           rest == Tail(mig.frees)
<1>1. old \in MigRecord /\ TypeOK
  BY DEF TypeInv, TypeOK
<1>2. /\ mig.at = "free" /\ mig.frees # <<>> /\ mig.frees \in Seq(Segs)
      /\ mig' = [old EXCEPT !.frees = rest]
      /\ FreeForGC(Head(mig.frees))
      /\ UNCHANGED <<content, medium, index, slips>> /\ OthersKeep
  BY <1>1 DEF FreeMigrated, MigRecord
<1>3. Head(mig.frees) = mig.frees[1] /\ mig.frees[1] \in Segs /\ rest \in Seq(Segs)
  BY <1>2
<1> HIDE DEF old, rest
<1>4. LET r == [old EXCEPT !.frees = rest]
      IN /\ r \in MigRecord /\ r.frees = rest
         /\ \A f \in {"at", "owner", "vol", "cands", "pos", "loaded", "list", "stamp"} :
              r[f] = old[f]
  BY <1>1, <1>3 DEF MigRecord
<1>5. /\ mig' \in MigRecord /\ mig'.frees = rest
      /\ \A f \in {"at", "owner", "vol", "cands", "pos", "loaded", "list", "stamp"} :
           mig'[f] = mig[f]
  <2> HIDE DEF MigRecord
  <2> QED
    BY <1>2, <1>4 DEF old
<1>6. SegTypeOK'
  BY <1>1, <1>2, <1>3, FreeTyped
<1>7. TypeOK'
  BY <1>1, <1>2, <1>5, <1>6 DEF TypeOK, OthersKeep, MaybeEntries
<1> QED
  BY <1>2, <1>3, <1>5, <1>7 DEF TypeInv, MediumFits, Progress, OthersKeep, rest

(* The opened store is well typed.                                         *)
LEMMA TypeInit == Init => TypeInv
<1> SUFFICES ASSUME Init PROVE TypeInv
  OBVIOUS
<1> USE SegmentManagerAssumption, MigrateAssumption
<1>1. SegTypeOK
  BY DEF Init, SegInit, SegTypeOK, SegmentStat, FreshStat, SegUseStat, Segs
<1>2. NewBatch \in BatchRecord
  BY DEF NewBatch, BatchRecord, BatchAt, Segs, MediumVols
<1>3. NoMigration \in MigRecord
  <2> DEFINE none == <<>>
  <2>1. NoMigration = [at |-> "idle", owner |-> NoEntry, vol |-> 0, cands |-> none, pos |-> 1,
                       loaded |-> none, list |-> none, frees |-> none, stamp |-> 0]
    BY DEF NoMigration
  <2>2. none \in Seq(Entries) /\ none \in Seq(Segs) /\ 0 \in MediumVols
    BY DEF MediumVols
  <2> HIDE DEF none
  <2> QED
    BY <2>1, <2>2 DEF MigRecord
<1>4. TypeOK
  <2>1. 0 \in 0 .. MaxFailures /\ 0 \in 0 .. MaxBack /\ 0 \in MediumVols
    BY DEF MediumVols
  <2>2. /\ content \in [Segs -> Seq(Writes)]
        /\ medium \in [MediumVols -> Seq([records : Seq(Writes), death : Nat])]
        /\ index \in [Keys -> MaybeEntries]
        /\ batch \in [Batches -> BatchRecord]
        /\ tried \in [Batches -> SUBSET (MediumVols \cup {Other})]
        /\ before \in [Batches -> SUBSET Batches]
    BY <1>2 DEF Init, MaybeEntries
  <2>3. thread \in [at : {"idle", "migrate", "moving"}, vol : MediumVols, turns : 0 .. MaxBack]
    BY <2>1 DEF Init
  <2> QED
    BY <1>1, <1>3, <2>1, <2>2, <2>3 DEF Init, TypeOK
<1>5. MediumFits
  BY DEF Init, MediumFits
<1>6. Progress
  BY DEF Init, Progress, NewBatch, NoMigration
<1> QED
  BY <1>4, <1>5, <1>6, ControlInit DEF TypeInv

(* Every step keeps the types.                                             *)
LEMMA TypeStep == TypeInv /\ [Next]_vars => TypeInv'
<1> SUFFICES ASSUME TypeInv, [Next]_vars PROVE TypeOK' /\ MediumFits' /\ Progress'
  BY ControlStep DEF TypeInv
<1>1. ASSUME NEW b \in Batches, Write(b) PROVE TypeOK' /\ MediumFits' /\ Progress'
  BY <1>1, AllocTyped, TakeTyped, ForeTyped, WriteTyped, BatchUpdateTyped, ReapTyped DEF Write
<1>2. CASE ThreadPicks \/ BackMigrate
  BY <1>2, ThreadTyped
<1>3. CASE doMigrate
  BY <1>3, EndTyped, LoadTyped, PackTyped, WriteMigratedTyped, LockTyped, TestTyped, PutTyped,
     FreeMigratedTyped DEF doMigrate
<1>4. CASE UNCHANGED vars
  BY <1>4 DEF vars, dataVars, segVars, history, TypeInv, TypeOK, SegTypeOK, MaybeEntries,
              MediumFits, Progress
<1> QED
  BY <1>1, <1>2, <1>3, <1>4 DEF Next

(* Types, one writer in allocSegment, and room in the medium tier, for any *)
(* number of batches, segments and volumes.                                *)
THEOREM TypesKept == Spec => []TypeInv
BY TypeInit, TypeStep, PTL DEF Spec

-----------------------------------------------------------------------------
(* The turns of the medium volumes. *)

(* How many picks ago the turn was at the volume v, if picks go round.     *)
PicksAgo(v) == IF v <= pickVolId THEN pickVolId - v ELSE pickVolId + volNum - v

(* While nobody else picks, the picks a writer has used up were those of   *)
(* the volumes that had the turn last.                                     *)
PickedInTurn ==
  \A b \in Batches : InAllocSegment(b) /\ Other \notin tried[b] =>
    \A v \in MediumVols : PicksAgo(v) < volNum - batch[b].left => v \in tried[b]

TurnInv == TypeInv /\ PickedInTurn /\ RefusedTriedAll

(* A pick makes the volume of the turn the latest one, and every other one *)
(* a pick older.                                                           *)
LEMMA PickAges ==
  ASSUME pickVolId \in MediumVols \cup {-1}, pickVolId' = Picked
  PROVE  /\ Picked \in MediumVols
         /\ \A v \in MediumVols : v = Picked \/ PicksAgo(v)' = PicksAgo(v) + 1
BY MigrateAssumption DEF Picked, PicksAgo, MediumVols

(* A volume was picked less than a round ago.                              *)
LEMMA PicksAgoTyped ==
  ASSUME TypeOK
  PROVE  \A v \in MediumVols : PicksAgo(v) \in 0 .. volNum - 1
BY MigrateAssumption DEF TypeOK, PicksAgo, MediumVols

(* The volumes are in turn before the first pick.                          *)
LEMMA TurnInit == Init => TurnInv
<1> SUFFICES ASSUME Init PROVE TurnInv
  OBVIOUS
<1>1. \A b \in Batches : batch[b].at = "new"
  BY DEF Init, NewBatch
<1> QED
  BY <1>1, TypeInit DEF TurnInv, PickedInTurn, RefusedTriedAll, InAllocSegment

(* A step that leaves the turn and the tried volumes alone.                *)
LEMMA TurnStays ==
  ASSUME TurnInv, UNCHANGED <<pickVolId, tried>>,
         \A b \in Batches :
           /\ batch'[b].at = "refused" => batch[b].at = "refused"
           /\ batch'[b].at \in {"try", "take", "migrate", "moving"} =>
                InAllocSegment(b) /\ batch'[b].left = batch[b].left
  PROVE  PickedInTurn' /\ RefusedTriedAll'
<1>1. \A v \in MediumVols : PicksAgo(v)' = PicksAgo(v)
  BY DEF PicksAgo
<1>2. ASSUME NEW b \in Batches, InAllocSegment(b)'
      PROVE  InAllocSegment(b) /\ batch'[b].left = batch[b].left
  BY <1>2 DEF InAllocSegment
<1>3. PickedInTurn'
  BY <1>1, <1>2 DEF TurnInv, PickedInTurn
<1> QED
  BY <1>3 DEF TurnInv, RefusedTriedAll

(* A writer that asks for a volume, or starts to, or gives up.             *)
LEMMA TurnOfWriter ==
  ASSUME TurnInv, NEW b \in Batches, AllocSegment(b) \/ PickForClient(b) \/ Refuse(b)
  PROVE  PickedInTurn' /\ RefusedTriedAll'
<1>1. /\ batch \in [Batches -> BatchRecord] /\ volNum \in Nat \ {0} /\ TypeOK
      /\ tried \in [Batches -> SUBSET (MediumVols \cup {Other})]
      /\ pickVolId \in MediumVols \cup {-1} /\ batch[b].left \in 0 .. volNum
  <2>1. /\ batch \in [Batches -> BatchRecord] /\ TypeOK
        /\ tried \in [Batches -> SUBSET (MediumVols \cup {Other})]
        /\ pickVolId \in MediumVols \cup {-1}
    BY DEF TurnInv, TypeInv, TypeOK
  <2>2. batch[b].left \in 0 .. volNum
    BY <2>1 DEF BatchRecord
  <2> QED
    BY <2>1, <2>2, MigrateAssumption
<1>2. \A v \in MediumVols : PicksAgo(v) \in 0 .. volNum - 1
  BY <1>1, PicksAgoTyped
<1>3. CASE AllocSegment(b)
  <2>1. /\ batch[b].at = "new" /\ batch' = [batch EXCEPT ![b].at = "try", ![b].left = volNum]
        /\ \A c \in Batches : ~InAllocSegment(c)
        /\ UNCHANGED <<pickVolId, tried>>
    BY <1>3 DEF AllocSegment, AllocMtxFree
  <2>2. /\ \A c \in Batches : c # b => batch'[c] = batch[c]
        /\ batch'[b].at = "try" /\ batch'[b].left = volNum
    BY <1>1, <2>1 DEF BatchRecord
  <2>3. \A c \in Batches : InAllocSegment(c)' => c = b
    BY <2>1, <2>2 DEF InAllocSegment
  <2>4. \A v \in MediumVols : ~(PicksAgo(v)' < volNum - volNum)
    BY <1>1, <1>2, <2>1 DEF PicksAgo
  <2>5. PickedInTurn'
    BY <2>2, <2>3, <2>4 DEF PickedInTurn
  <2> QED
    BY <2>1, <2>2, <2>5 DEF TurnInv, RefusedTriedAll
<1>4. CASE PickForClient(b)
  <2>1. /\ batch[b].at = "try" /\ batch[b].left > 0 /\ pickVolId' = Picked
        /\ batch' = [batch EXCEPT ![b] =
                      [@ EXCEPT !.at = "migrate", !.vol = Picked, !.left = batch[b].left - 1]]
        /\ tried' = [tried EXCEPT ![b] = @ \cup {Picked}]
    BY <1>4 DEF PickForClient, TriesLeft
  <2>2. /\ \A c \in Batches : c # b => batch'[c] = batch[c] /\ tried'[c] = tried[c]
        /\ batch'[b].at = "migrate" /\ batch'[b].left = batch[b].left - 1
        /\ tried'[b] = tried[b] \cup {Picked}
    BY <1>1, <2>1 DEF BatchRecord
  <2>3. InAllocSegment(b) /\ \A c \in Batches : InAllocSegment(c)' => c = b
    BY <2>1, <2>2 DEF TurnInv, TypeInv, Control, OneInAlloc, InAllocSegment
  <2>4. ASSUME Other \notin tried'[b], NEW v \in MediumVols,
               PicksAgo(v)' < volNum - batch'[b].left
        PROVE  v \in tried'[b]
    <3>1. v = Picked \/ PicksAgo(v)' = PicksAgo(v) + 1
      BY <1>1, <2>1, PickAges
    <3>2. CASE PicksAgo(v)' = PicksAgo(v) + 1
      <4>1. PicksAgo(v) < volNum - batch[b].left
        BY <1>1, <1>2, <2>2, <2>4, <3>2
      <4> QED
        BY <2>2, <2>3, <2>4, <4>1 DEF TurnInv, PickedInTurn
    <3> QED
      BY <2>2, <3>1, <3>2
  <2>5. PickedInTurn'
    BY <2>3, <2>4 DEF PickedInTurn
  <2> QED
    BY <2>2, <2>5 DEF TurnInv, RefusedTriedAll
<1>5. CASE Refuse(b)
  <2>1. /\ batch[b].at = "try" /\ batch[b].left = 0 /\ UNCHANGED <<pickVolId, tried>>
        /\ batch' = [batch EXCEPT ![b].at = "refused"]
    BY <1>5 DEF Refuse, history
  <2>2. \A c \in Batches : c # b => batch'[c] = batch[c]
    BY <1>1, <2>1
  <2>3. batch'[b].at = "refused"
    BY <1>1, <2>1 DEF BatchRecord
  <2>4. \A c \in Batches : InAllocSegment(c)' => c # b /\ InAllocSegment(c)
    BY <2>2, <2>3 DEF InAllocSegment
  <2>5. Other \in tried[b] \/ MediumVols \subseteq tried[b]
    BY <1>1, <1>2, <2>1 DEF TurnInv, PickedInTurn, InAllocSegment
  <2>6. PickedInTurn'
    BY <2>1, <2>2, <2>4 DEF TurnInv, PickedInTurn, PicksAgo
  <2> QED
    BY <2>1, <2>2, <2>5, <2>6 DEF TurnInv, RefusedTriedAll
<1> QED
  BY <1>3, <1>4, <1>5

(* Every step keeps the turns of the volumes.                              *)
LEMMA TurnStep == TurnInv /\ [Next]_vars => TurnInv'
<1> SUFFICES ASSUME TurnInv, [Next]_vars PROVE PickedInTurn' /\ RefusedTriedAll'
  BY TypeStep DEF TurnInv
<1>0. batch \in [Batches -> BatchRecord] /\ TypeInv
  BY DEF TurnInv, TypeInv, TypeOK
<1>1. ASSUME NEW b \in Batches, Write(b) PROVE PickedInTurn' /\ RefusedTriedAll'
  <2>1. CASE AllocSegment(b) \/ PickForClient(b) \/ Refuse(b)
    BY <2>1, TurnOfWriter
  <2>2. CASE TryAlloc(b) \/ TakeSegment(b) \/ ForeMigrate(b)
    <3>1. /\ batch[b].at \in {"try", "take", "migrate"} /\ UNCHANGED <<pickVolId, tried>>
          /\ \A c \in Batches : c # b => batch'[c] = batch[c]
          /\ batch'[b].at # "refused" /\ batch'[b].left = batch[b].left
      BY <1>0, <2>2 DEF TryAlloc, TakeSegment, ForeMigrate, history, BatchRecord
    <3> QED
      BY <3>1, TurnStays DEF InAllocSegment
  <2>3. CASE WriteSeg(b) \/ WriteSegFails(b)
    <3>1. /\ UNCHANGED <<pickVolId, tried>>
          /\ \A c \in Batches : c # b => batch'[c] = batch[c]
          /\ batch'[b].at \in {"update", "failed"}
      BY <1>0, <2>3 DEF WriteSeg, WriteSegFails, history, BatchRecord
    <3> QED
      BY <3>1, TurnStays DEF InAllocSegment
  <2>4. CASE BatchUpdate(b)
    <3>1. /\ UNCHANGED <<pickVolId, tried>> /\ \A c \in Batches : c # b => batch'[c] = batch[c]
          /\ batch'[b].at \in {"update", "reap", "done"}
      BY <1>0, <2>4, BatchUpdateTyped
    <3> QED
      BY <3>1, TurnStays DEF InAllocSegment
  <2>5. CASE Reap(b)
    <3>1. /\ UNCHANGED <<pickVolId, tried>> /\ \A c \in Batches : c # b => batch'[c] = batch[c]
          /\ batch'[b].at \in {"reap", "done"}
      BY <1>0, <2>5, ReapTyped DEF history
    <3> QED
      BY <3>1, TurnStays DEF InAllocSegment
  <2> QED
    BY <1>1, <2>1, <2>2, <2>3, <2>4, <2>5 DEF Write
<1>2. CASE ThreadPicks
  <2>1. /\ UNCHANGED batch
        /\ tried' = [b \in Batches |->
                       IF InAllocSegment(b) THEN tried[b] \cup {Other} ELSE tried[b]]
    BY <1>2 DEF ThreadPicks
  <2>2. \A b \in Batches : InAllocSegment(b)' => Other \in tried'[b]
    BY <2>1 DEF InAllocSegment
  <2> QED
    BY <2>1, <2>2 DEF TurnInv, PickedInTurn, RefusedTriedAll
<1>3. CASE BackMigrate \/ UNCHANGED vars
  <2>1. UNCHANGED <<batch, pickVolId, tried>>
    BY <1>3 DEF BackMigrate, vars, history
  <2> QED
    BY <2>1, TurnStays DEF InAllocSegment
<1>4. CASE doMigrate
  <2>1. CASE MigrationFails \/ MigrationDone
    <3>1. /\ UNCHANGED <<pickVolId, tried>>
          /\ \A b \in Batches : batch'[b] = batch[b]
               \/ /\ batch[b].at = "moving" /\ batch'[b].at = "try"
                  /\ batch'[b].left = batch[b].left
      BY <1>0, <2>1, EndTyped DEF history
    <3> QED
      BY <3>1, TurnStays DEF InAllocSegment
  <2>2. CASE WriteMigrated
    BY <2>2, TurnStays DEF WriteMigrated, history, InAllocSegment
  <2>3. CASE ~(MigrationFails \/ MigrationDone \/ WriteMigrated)
    <3>1. UNCHANGED <<batch, pickVolId, tried>>
      BY <1>4, <2>3 DEF doMigrate, LoadEntry, PackCandidate, LockBatchMtx, TestSame, PutMoved,
                        IndexUpdated, FreeMigrated, OthersKeep
    <3> QED
      BY <3>1, TurnStays DEF InAllocSegment
  <2> QED
    BY <2>1, <2>2, <2>3
<1> QED
  BY <1>1, <1>2, <1>3, <1>4 DEF Next

(* A write is refused for want of space only after every medium volume has *)
(* been tried, unless the migration thread took a turn meanwhile: the tries *)
(* that allocSegment counts are as many as the volumes, and picks go round. *)
THEOREM RefusedAfterAll == Spec => []RefusedTriedAll
<1>1. TurnInv => RefusedTriedAll
  BY DEF TurnInv
<1> QED
  BY <1>1, TurnInit, TurnStep, PTL DEF Spec

-----------------------------------------------------------------------------
(* Whose segment is in which state. *)

(* Who is about to write has a RESERVED segment of its own.                *)
Reserved ==
  \A b \in Batches : batch[b].at = "write" =>
    /\ segTable[batch[b].seg].state = "RESERVED"
    /\ \A c \in Batches : batch[c].at = "write" /\ batch[c].seg = batch[b].seg => c = b

(* The segments a migration works on are USED, each met once.              *)
MigrationSegs ==
  /\ \A i \in DOMAIN mig.cands : segTable[mig.cands[i]].state = "USED"
  /\ \A i \in DOMAIN mig.frees : segTable[mig.frees[i]].state = "USED"
  /\ \A i, j \in DOMAIN mig.cands : mig.cands[i] = mig.cands[j] => i = j
  /\ \A i, j \in DOMAIN mig.frees : mig.frees[i] = mig.frees[j] => i = j
  /\ \A i \in DOMAIN mig.cands, j \in DOMAIN mig.frees : mig.cands[i] # mig.frees[j]

(* Nothing is stamped later than now; entries of the fast tier name one of *)
(* its segments.                                                           *)
Bounded ==
  /\ \A b \in Batches : batch[b].stamp <= clock
  /\ \A k \in Keys : index[k] # NoEntry =>
       index[k].stamp <= clock /\ (index[k].vol = Fast => index[k].seg \in Segs)
  /\ mig.stamp <= clock

SegInv == TypeInv /\ Reserved /\ MigrationSegs /\ Bounded

(* No segment is reserved in the opened store.                             *)
LEMMA SegmentsInit == Init => SegInv
<1> SUFFICES ASSUME Init PROVE SegInv
  OBVIOUS
<1>1. Reserved
  BY DEF Init, Reserved, NewBatch
<1>2. MigrationSegs
  BY DEF Init, MigrationSegs, NoMigration
<1>3. Bounded
  BY DEF Init, Bounded, NewBatch, NoMigration
<1> QED
  BY <1>1, <1>2, <1>3, TypeInit DEF SegInv

(* What a step without an effect on segments keeps.                        *)
LEMMA SegsStay ==
  ASSUME SegInv, \A s \in Segs : segTable'[s].state = segTable[s].state,
         \A b \in Batches : batch'[b].at = "write" =>
           batch[b].at = "write" /\ batch'[b].seg = batch[b].seg
  PROVE  /\ Reserved'
         /\ UNCHANGED <<mig.cands, mig.frees>> => MigrationSegs'
<1>1. /\ \A b \in Batches : batch[b].seg \in Segs
      /\ \A i \in DOMAIN mig.cands : mig.cands[i] \in Segs
      /\ \A i \in DOMAIN mig.frees : mig.frees[i] \in Segs
  <2>1. batch \in [Batches -> BatchRecord] /\ mig \in MigRecord
    BY DEF SegInv, TypeInv, TypeOK
  <2>2. mig.cands \in Seq(Segs) /\ mig.frees \in Seq(Segs)
    BY <2>1 DEF MigRecord
  <2>3. \A b \in Batches : batch[b].seg \in Segs
    BY <2>1 DEF BatchRecord
  <2> QED
    BY <2>2, <2>3, ElementOfSeq
<1>2. Reserved'
  BY <1>1 DEF SegInv, Reserved
<1>3. ASSUME UNCHANGED <<mig.cands, mig.frees>> PROVE MigrationSegs'
  BY <1>1, <1>3 DEF SegInv, MigrationSegs
<1> QED
  BY <1>2, <1>3

(* What the types say of the segments that batches and the migration       *)
(* name.                                                                   *)
LEMMA SegTypes ==
  ASSUME TypeOK
  PROVE  /\ \A b \in Batches : batch[b].seg \in Segs /\ batch[b].next \in Nat \ {0}
                                /\ batch[b].stamp \in Nat /\ batch[b].at \in BatchAt
         /\ mig.cands \in Seq(Segs) /\ mig.frees \in Seq(Segs)
         /\ mig.loaded \in Seq(Entries) /\ mig.list \in Seq(Entries)
         /\ mig.pos \in Nat \ {0} /\ mig.vol \in MediumVols /\ mig.stamp \in Nat
         /\ \A i \in DOMAIN mig.cands : mig.cands[i] \in Segs
         /\ \A i \in DOMAIN mig.frees : mig.frees[i] \in Segs
         /\ \A i \in DOMAIN mig.loaded : mig.loaded[i] \in Entries
         /\ \A i \in DOMAIN mig.list : mig.list[i] \in Entries
         /\ clock \in Nat
         /\ \A k \in Keys : index[k] # NoEntry => index[k] \in Entries
<1>1. batch \in [Batches -> BatchRecord] /\ mig \in MigRecord /\ clock \in Nat
      /\ index \in [Keys -> MaybeEntries]
  BY DEF TypeOK
<1>2. /\ mig.cands \in Seq(Segs) /\ mig.frees \in Seq(Segs)
      /\ mig.loaded \in Seq(Entries) /\ mig.list \in Seq(Entries)
      /\ mig.pos \in Nat \ {0} /\ mig.vol \in MediumVols /\ mig.stamp \in Nat
  BY <1>1 DEF MigRecord
<1>3. \A b \in Batches : batch[b].seg \in Segs /\ batch[b].next \in Nat \ {0}
                         /\ batch[b].stamp \in Nat /\ batch[b].at \in BatchAt
  BY <1>1 DEF BatchRecord
<1>4. \A k \in Keys : index[k] # NoEntry => index[k] \in Entries
  BY <1>1 DEF MaybeEntries
<1>5. /\ \A i \in DOMAIN mig.cands : mig.cands[i] \in Segs
      /\ \A i \in DOMAIN mig.frees : mig.frees[i] \in Segs
  BY <1>2, ElementOfSeq
<1>6. /\ \A i \in DOMAIN mig.loaded : mig.loaded[i] \in Entries
      /\ \A i \in DOMAIN mig.list : mig.list[i] \in Entries
  BY <1>2, ElementOfSeq
<1> QED
  BY <1>1, <1>2, <1>3, <1>4, <1>5, <1>6

(* A migration that begins or has ended.                                   *)
LEMMA MigrationSegsFresh ==
  ASSUME TypeOK, mig' = NoMigration \/ \E o, v : StartMigration(o, v), UNCHANGED segTable
  PROVE  MigrationSegs'
<1>1. CASE mig' = NoMigration
  BY <1>1 DEF MigrationSegs, NoMigration
<1>2. CASE \E o, v : StartMigration(o, v)
  <2>1. PICK q \in CandMap(InState("USED")) : mig'.cands = q /\ mig'.frees = <<>>
    BY <1>2 DEF StartMigration, NoMigration
  <2>2. InState("USED") \in SUBSET Segs
    BY DEF InState
  <2>3. \A i \in DOMAIN q : q[i] \in InState("USED")
    BY <2>2, CandMapTyped
  <2>4. \A i, j \in DOMAIN q : q[i] = q[j] => i = j
    BY <2>2, CandMapOnce
  <2>5. \A i \in DOMAIN q : segTable'[q[i]].state = "USED"
    BY <2>3 DEF InState
  <2>6. DOMAIN mig'.frees = {}
    BY <2>1
  <2> QED
    BY <2>1, <2>4, <2>5, <2>6 DEF MigrationSegs
<1> QED
  BY <1>1, <1>2

(* The effect of a step of each kind on batches and segments, types aside. *)
LEMMA AllocEffect ==
  ASSUME TypeInv, NEW b \in Batches,
         AllocSegment(b) \/ TryAlloc(b) \/ Refuse(b) \/ PickForClient(b)
  PROVE  /\ batch[b].at \in {"new", "try"} /\ batch'[b].at \notin {"write", "update", "reap", "done"}
         /\ batch'[b].stamp = batch[b].stamp
         /\ \A c \in Batches : c # b => batch'[c] = batch[c]
         /\ UNCHANGED <<segVars, content, medium, index, clock, mig, slips>>
<1>1. batch \in [Batches -> BatchRecord]
  BY DEF TypeInv, TypeOK
<1>2. UNCHANGED <<segVars, content, medium, index, clock, mig, slips>>
  BY DEF AllocSegment, TryAlloc, Refuse, PickForClient, dataVars, history
<1>3. CASE AllocSegment(b)
  BY <1>1, <1>2, <1>3 DEF AllocSegment, BatchRecord
<1>4. CASE TryAlloc(b)
  BY <1>1, <1>2, <1>4 DEF TryAlloc, BatchRecord
<1>5. CASE Refuse(b)
  BY <1>1, <1>2, <1>5 DEF Refuse, BatchRecord
<1>6. CASE PickForClient(b)
  BY <1>1, <1>2, <1>6 DEF PickForClient, BatchRecord
<1> QED
  BY <1>3, <1>4, <1>5, <1>6

(* A batch takes a free segment and reserves it.                           *)
LEMMA TakeEffect ==
  ASSUME TypeInv, NEW b \in Batches, TakeSegment(b)
  PROVE  /\ batch[b].at = "take" /\ batch'[b].at = "write" /\ batch'[b].stamp = batch[b].stamp
         /\ \A c \in Batches : c # b => batch'[c] = batch[c]
         /\ batch'[b].seg \in Segs /\ segTable[batch'[b].seg].state = "FREE"
         /\ segTable'[batch'[b].seg].state = "RESERVED"
         /\ segTable'[batch'[b].seg].death_size = segTable[batch'[b].seg].death_size
         /\ \A s \in Segs : s # batch'[b].seg => segTable'[s] = segTable[s]
         /\ UNCHANGED <<content, medium, index, clock, mig, slips>>
<1>1. batch \in [Batches -> BatchRecord] /\ segTable \in [Segs -> SegmentStat]
  BY DEF TypeInv, TypeOK, SegTypeOK
<1>2. PICK s \in Segs : /\ AllocForGC(s)
                        /\ batch' = [batch EXCEPT ![b].at = "write", ![b].seg = s]
  BY DEF TakeSegment
<1>3. /\ batch'[b].at = "write" /\ batch'[b].stamp = batch[b].stamp /\ batch'[b].seg = s
      /\ \A c \in Batches : c # b => batch'[c] = batch[c]
  BY <1>1, <1>2 DEF BatchRecord
<1>4. /\ segTable[s].state = "FREE" /\ segTable'[s].state = "RESERVED"
      /\ segTable'[s].death_size = segTable[s].death_size
      /\ \A t \in Segs : t # s => segTable'[t] = segTable[t]
  BY <1>1, <1>2 DEF AllocForGC, InState, SegmentStat
<1> QED
  BY <1>3, <1>4 DEF TakeSegment, history

(* ForeMigrate starts a migration, or leaves the batch to try again.       *)
LEMMA ForeEffect ==
  ASSUME TypeInv, NEW b \in Batches, ForeMigrate(b)
  PROVE  /\ batch[b].at = "migrate" /\ batch'[b].at \in {"try", "moving"}
         /\ batch'[b].stamp = batch[b].stamp
         /\ \A c \in Batches : c # b => batch'[c] = batch[c]
         /\ UNCHANGED mig \/ StartMigration(b, batch[b].vol)
         /\ UNCHANGED <<segVars, content, medium, index, clock, slips>>
<1>1. batch \in [Batches -> BatchRecord]
  BY DEF TypeInv, TypeOK
<1> QED
  BY <1>1 DEF ForeMigrate, dataVars, history, BatchRecord

(* A batch's write uses its segment at the clock's time.                   *)
LEMMA WriteEffect ==
  ASSUME TypeInv, NEW b \in Batches, WriteSeg(b)
  PROVE  /\ batch[b].at = "write" /\ batch'[b].at = "update" /\ batch'[b].stamp = clock'
         /\ batch'[b].seg = batch[b].seg /\ batch[b].seg \in Segs
         /\ batch'[b].next = batch[b].next /\ batch[b].next = 1
         /\ \A c \in Batches : c # b => batch'[c] = batch[c]
         /\ clock' = clock + 1
         /\ content'[batch[b].seg] = Items[b]
         /\ \A s \in Segs : s # batch[b].seg => content'[s] = content[s]
         /\ segTable'[batch[b].seg].state = "USED"
         /\ segTable'[batch[b].seg].death_size = segTable[batch[b].seg].death_size
         /\ \A s \in Segs : s # batch[b].seg => segTable'[s] = segTable[s]
         /\ UNCHANGED <<medium, index, mig, slips, before>>
<1>1. batch \in [Batches -> BatchRecord] /\ segTable \in [Segs -> SegmentStat]
      /\ content \in [Segs -> Seq(Writes)] /\ batch[b].seg \in Segs
  <2>1. batch \in [Batches -> BatchRecord] /\ segTable \in [Segs -> SegmentStat]
        /\ content \in [Segs -> Seq(Writes)]
    BY DEF TypeInv, TypeOK, SegTypeOK
  <2> QED
    BY <2>1 DEF BatchRecord
<1>2. /\ batch[b].at = "write" /\ batch[b].next = 1
      /\ batch' = [batch EXCEPT ![b] = [batch[b] EXCEPT !.at = "update", !.stamp = clock']]
      /\ content' = [content EXCEPT ![batch[b].seg] = Items[b]]
      /\ clock' = clock + 1
      /\ UNCHANGED <<medium, index, mig, slips, before>>
  BY DEF WriteSeg, TypeInv, Progress, history
<1>3. /\ batch'[b].at = "update" /\ batch'[b].stamp = clock' /\ batch'[b].seg = batch[b].seg
      /\ batch'[b].next = batch[b].next
      /\ \A c \in Batches : c # b => batch'[c] = batch[c]
  BY <1>1, <1>2 DEF BatchRecord
<1>4. /\ content'[batch[b].seg] = Items[b]
      /\ \A s \in Segs : s # batch[b].seg => content'[s] = content[s]
  BY <1>1, <1>2
<1>5. /\ segTable'[batch[b].seg].state = "USED"
      /\ segTable'[batch[b].seg].death_size = segTable[batch[b].seg].death_size
      /\ \A s \in Segs : s # batch[b].seg => segTable'[s] = segTable[s]
  BY <1>1 DEF WriteSeg, Use, SegmentStat
<1> QED
  BY <1>1, <1>2, <1>3, <1>4, <1>5

(* A failed write frees its segment.                                       *)
LEMMA WriteFailsEffect ==
  ASSUME TypeInv, NEW b \in Batches, WriteSegFails(b)
  PROVE  /\ batch[b].at = "write" /\ batch'[b].at = "failed" /\ batch'[b].stamp = batch[b].stamp
         /\ batch[b].seg \in Segs
         /\ \A c \in Batches : c # b => batch'[c] = batch[c]
         /\ segTable'[batch[b].seg].state = "FREE" /\ segTable'[batch[b].seg].death_size = 0
         /\ \A s \in Segs : s # batch[b].seg => segTable'[s] = segTable[s]
         /\ UNCHANGED <<content, medium, index, clock, mig, slips>>
<1>1. batch \in [Batches -> BatchRecord] /\ batch[b].seg \in Segs /\ TypeOK
  <2>1. batch \in [Batches -> BatchRecord]
    BY DEF TypeInv, TypeOK
  <2> QED
    BY <2>1 DEF BatchRecord, TypeInv
<1>2. /\ batch[b].at = "write" /\ batch' = [batch EXCEPT ![b].at = "failed"]
      /\ FreeForFailed(batch[b].seg)
      /\ UNCHANGED <<content, medium, index, clock, mig, slips>>
  BY DEF WriteSegFails, history
<1>3. /\ batch'[b].at = "failed" /\ batch'[b].stamp = batch[b].stamp
      /\ \A c \in Batches : c # b => batch'[c] = batch[c]
  BY <1>1, <1>2 DEF BatchRecord
<1>4. /\ segTable'[batch[b].seg].state = "FREE" /\ segTable'[batch[b].seg].death_size = 0
      /\ \A s \in Segs : s # batch[b].seg => segTable'[s] = segTable[s]
  BY <1>1, <1>2, FreeTyped
<1> QED
  BY <1>1, <1>2, <1>3, <1>4

(* UpdateIndex and the removal by the reaper, and what they charge.        *)
LEMMA UpdateEffect ==
  ASSUME TypeInv, NEW b \in Batches, BatchUpdate(b)
  PROVE  LET e == ItemEntry(b)
             k == KeyOf[e.write]
         IN /\ k \in Keys /\ e \in Entries
            /\ index' = index \/ index' = [index EXCEPT ![k] = e]
            /\ \A s \in Segs : segTable'[s].state = segTable[s].state
            /\ \A v \in MediumVols :
                 /\ DOMAIN medium'[v] = DOMAIN medium[v] /\ Len(medium'[v]) = Len(medium[v])
                 /\ \A s \in DOMAIN medium[v] : medium'[v][s].records = medium[v][s].records
            /\ slips' = slips \/ slips' = slips \cup {"restamped"}
<1>1. UpdateIndex(ItemEntry(b)) /\ batch[b].next \in DOMAIN Items[b] /\ TypeOK
  BY BatchUpdateTyped DEF TypeInv
<1>2. ItemEntry(b) \in Entries /\ KeyOf[ItemEntry(b).write] \in Keys
  BY <1>1, ItemTyped
<1>3. /\ index' = index \/ index' = [index EXCEPT ![KeyOf[ItemEntry(b).write]] = ItemEntry(b)]
      /\ slips' = slips \/ slips' = slips \cup {"restamped"}
      /\ \E es : ModifyDeathEntries(es)
  BY <1>1 DEF UpdateIndex
<1>4. /\ \A s \in Segs : segTable'[s].state = segTable[s].state
      /\ \A v \in MediumVols :
           /\ DOMAIN medium'[v] = DOMAIN medium[v] /\ Len(medium'[v]) = Len(medium[v])
           /\ \A s \in DOMAIN medium[v] : medium'[v][s].records = medium[v][s].records
  BY <1>1, <1>3, DeathsTyped
<1> QED
  BY <1>2, <1>3, <1>4

(* The reaper takes at most one entry from the index and moves no segment  *)
(* or record.                                                              *)
LEMMA ReapEffect ==
  ASSUME TypeInv, NEW b \in Batches, Reap(b)
  PROVE  /\ index' = index \/ \E k \in Keys : index' = [index EXCEPT ![k] = NoEntry]
         /\ \A s \in Segs : segTable'[s].state = segTable[s].state
         /\ \A v \in MediumVols :
              /\ DOMAIN medium'[v] = DOMAIN medium[v] /\ Len(medium'[v]) = Len(medium[v])
              /\ \A s \in DOMAIN medium[v] : medium'[v][s].records = medium[v][s].records
<1>1. /\ index' = index \/ index' = [index EXCEPT ![KeyOf[Items[b][batch[b].next]]] = NoEntry]
      /\ \E es : ModifyDeathEntries(es)
  BY DEF Reap
<1>2. KeyOf[Items[b][batch[b].next]] \in Keys
  BY ReapTyped, ItemTyped DEF TypeInv
<1> QED
  BY <1>1, <1>2, DeathsTyped DEF TypeInv

(* The update of the index by the migration charges dead space and moves   *)
(* no segment or record.                                                   *)
LEMMA DeathEffect ==
  ASSUME TypeInv, TestSame \/ PutMoved
  PROVE  /\ \A s \in Segs : segTable'[s].state = segTable[s].state
         /\ \A v \in MediumVols :
              /\ DOMAIN medium'[v] = DOMAIN medium[v] /\ Len(medium'[v]) = Len(medium[v])
              /\ \A s \in DOMAIN medium[v] : medium'[v][s].records = medium[v][s].records
<1>1. \/ \E es : ModifyDeathEntries(es)
      \/ UNCHANGED <<segTable, medium>>
  BY TestTyped, PutTyped
<1> QED
  BY <1>1, DeathsTyped DEF TypeInv

(* A step of a batch keeps what is known of the segments.                  *)
LEMMA WriterKeepsSegs ==
  ASSUME SegInv, NEW b \in Batches, Write(b)
  PROVE  Reserved' /\ MigrationSegs' /\ Bounded'
<1>1. TypeInv /\ TypeOK
  BY DEF SegInv, TypeInv
<1>2. /\ \A c \in Batches : batch[c].seg \in Segs /\ batch[c].stamp \in Nat
      /\ \A i \in DOMAIN mig.cands : mig.cands[i] \in Segs
      /\ \A i \in DOMAIN mig.frees : mig.frees[i] \in Segs
      /\ clock \in Nat
  BY <1>1, SegTypes
<1>3. CASE AllocSegment(b) \/ TryAlloc(b) \/ Refuse(b) \/ PickForClient(b)
  <2>1. /\ batch'[b].at # "write" /\ batch'[b].stamp = batch[b].stamp
        /\ \A c \in Batches : c # b => batch'[c] = batch[c]
        /\ UNCHANGED <<segTable, index, clock, mig>>
    BY <1>1, <1>3, AllocEffect DEF segVars
  <2> QED
    BY <2>1, SegsStay DEF SegInv, Bounded
<1>4. CASE TakeSegment(b)
  <2>1. /\ batch[b].at = "take" /\ batch'[b].at = "write" /\ batch'[b].stamp = batch[b].stamp
        /\ \A c \in Batches : c # b => batch'[c] = batch[c]
        /\ segTable[batch'[b].seg].state = "FREE"
        /\ segTable'[batch'[b].seg].state = "RESERVED"
        /\ \A s \in Segs : s # batch'[b].seg => segTable'[s] = segTable[s]
        /\ UNCHANGED <<index, clock, mig>>
    BY <1>1, <1>4, TakeEffect
  <2>2. Reserved'
    BY <1>2, <2>1 DEF SegInv, Reserved
  <2>3. MigrationSegs'
    BY <1>2, <2>1 DEF SegInv, MigrationSegs
  <2> QED
    BY <2>1, <2>2, <2>3 DEF SegInv, Bounded
<1>5. CASE ForeMigrate(b)
  <2>1. /\ batch'[b].at \in {"try", "moving"} /\ batch'[b].stamp = batch[b].stamp
        /\ \A c \in Batches : c # b => batch'[c] = batch[c]
        /\ UNCHANGED mig \/ StartMigration(b, batch[b].vol)
        /\ UNCHANGED <<segTable, index, clock>>
    BY <1>1, <1>5, ForeEffect DEF segVars
  <2>2. Reserved' /\ MigrationSegs'
    BY <1>1, <2>1, SegsStay, MigrationSegsFresh
  <2>3. mig'.stamp <= clock
    <3>1. CASE UNCHANGED mig
      BY <3>1 DEF SegInv, Bounded
    <3>2. CASE StartMigration(b, batch[b].vol)
      <4>1. mig'.stamp = 0
        BY <3>2 DEF StartMigration, NoMigration
      <4> QED
        BY <1>2, <4>1
    <3> QED
      BY <2>1, <3>1, <3>2
  <2> QED
    BY <2>1, <2>2, <2>3 DEF SegInv, Bounded
<1>6. CASE WriteSeg(b)
  <2>1. /\ batch[b].at = "write" /\ batch'[b].at = "update" /\ batch'[b].stamp = clock'
        /\ \A c \in Batches : c # b => batch'[c] = batch[c]
        /\ clock' = clock + 1
        /\ segTable'[batch[b].seg].state = "USED"
        /\ \A s \in Segs : s # batch[b].seg => segTable'[s] = segTable[s]
        /\ UNCHANGED <<index, mig>>
    BY <1>1, <1>6, WriteEffect
  <2>2. Reserved'
    BY <1>2, <2>1 DEF SegInv, Reserved
  <2>3. MigrationSegs'
    <3>1. \A s \in Segs : segTable[s].state = "USED" => segTable'[s].state = "USED"
      BY <2>1
    <3> QED
      BY <1>2, <2>1, <3>1 DEF SegInv, MigrationSegs
  <2>4. Bounded'
    <3>1. /\ \A k \in Keys : index[k] # NoEntry => index[k].stamp \in Nat
          /\ mig.stamp \in Nat
      BY <1>1, SegTypes DEF Entries
    <3> QED
      BY <1>2, <2>1, <3>1 DEF SegInv, Bounded
  <2> QED
    BY <2>2, <2>3, <2>4
<1>7. CASE WriteSegFails(b)
  <2>1. /\ batch[b].at = "write" /\ batch'[b].at = "failed" /\ batch'[b].stamp = batch[b].stamp
        /\ \A c \in Batches : c # b => batch'[c] = batch[c]
        /\ segTable[batch[b].seg].state = "RESERVED"
        /\ \A s \in Segs : s # batch[b].seg => segTable'[s] = segTable[s]
        /\ UNCHANGED <<index, clock, mig>>
    BY <1>1, <1>7, WriteFailsEffect DEF SegInv, Reserved
  <2>2. Reserved'
    BY <1>2, <2>1 DEF SegInv, Reserved
  <2>3. MigrationSegs'
    BY <1>2, <2>1 DEF SegInv, MigrationSegs
  <2> QED
    BY <2>1, <2>2, <2>3 DEF SegInv, Bounded
<1>8. CASE BatchUpdate(b)
  <2>1. /\ batch'[b].at # "write" /\ batch'[b].stamp = batch[b].stamp
        /\ batch'[b].seg = batch[b].seg /\ batch[b].next \in DOMAIN Items[b]
        /\ \A c \in Batches : c # b => batch'[c] = batch[c]
        /\ UNCHANGED <<clock, mig>>
    BY <1>1, <1>8, BatchUpdateTyped
  <2>2. \A s \in Segs : segTable'[s].state = segTable[s].state
    BY <1>1, <1>8, UpdateEffect
  <2>3. Reserved' /\ MigrationSegs'
    BY <2>1, <2>2, SegsStay
  <2>4. \A k \in Keys : index'[k] = index[k] \/ index'[k] = ItemEntry(b)
    <3>1. index \in [Keys -> MaybeEntries]
      BY <1>1 DEF TypeOK
    <3>2. index' = index
          \/ index' = [index EXCEPT ![KeyOf[ItemEntry(b).write]] = ItemEntry(b)]
      BY <1>1, <1>8, UpdateEffect
    <3> QED
      BY <3>1, <3>2
  <2>5. ItemEntry(b).seg \in Segs /\ ItemEntry(b).stamp = batch[b].stamp
    BY <1>1, <1>2, <2>1, ItemTyped
  <2>6. Bounded'
    BY <2>1, <2>4, <2>5 DEF SegInv, Bounded
  <2> QED
    BY <2>3, <2>6
<1>9. CASE Reap(b)
  <2>1. /\ batch'[b].at # "write" /\ batch'[b].stamp = batch[b].stamp
        /\ batch'[b].seg = batch[b].seg
        /\ \A c \in Batches : c # b => batch'[c] = batch[c]
        /\ UNCHANGED <<clock, mig>>
    BY <1>1, <1>9, ReapTyped
  <2>2. /\ \A s \in Segs : segTable'[s].state = segTable[s].state
        /\ index' = index \/ \E k \in Keys : index' = [index EXCEPT ![k] = NoEntry]
    BY <1>1, <1>9, ReapEffect
  <2>3. Reserved' /\ MigrationSegs'
    BY <2>1, <2>2, SegsStay
  <2>4. \A k \in Keys : index'[k] = index[k] \/ index'[k] = NoEntry
    <3>1. index \in [Keys -> MaybeEntries]
      BY <1>1 DEF TypeOK
    <3> QED
      BY <2>2, <3>1
  <2>5. Bounded'
    BY <2>1, <2>4 DEF SegInv, Bounded
  <2> QED
    BY <2>3, <2>5
<1> QED
  BY <1>3, <1>4, <1>5, <1>6, <1>7, <1>8, <1>9 DEF Write

(* A step of the migration keeps what is known of the segments.            *)
LEMMA MigrationKeepsSegs ==
  ASSUME SegInv, BackMigrate \/ doMigrate
  PROVE  Reserved' /\ MigrationSegs' /\ Bounded'
<1>1. TypeInv /\ TypeOK
  BY DEF SegInv, TypeInv
<1>2. /\ \A c \in Batches : batch[c].seg \in Segs /\ batch[c].stamp \in Nat
      /\ \A i \in DOMAIN mig.cands : mig.cands[i] \in Segs
      /\ \A i \in DOMAIN mig.frees : mig.frees[i] \in Segs
      /\ clock \in Nat /\ mig.cands \in Seq(Segs) /\ mig.frees \in Seq(Segs)
  BY <1>1, SegTypes
<1>3. CASE BackMigrate
  <2>1. /\ UNCHANGED <<segTable, index, clock, batch>> /\ StartMigration("thread", thread.vol)
    BY <1>3 DEF BackMigrate, dataVars, segVars
  <2>2. Reserved' /\ MigrationSegs'
    BY <1>1, <2>1, SegsStay, MigrationSegsFresh
  <2>3. mig'.stamp = 0
    BY <2>1 DEF StartMigration, NoMigration
  <2> QED
    BY <1>2, <2>1, <2>2, <2>3 DEF SegInv, Bounded
<1>4. CASE MigrationFails \/ MigrationDone
  <2>1. /\ mig' = NoMigration /\ UNCHANGED <<segTable, index, clock>>
        /\ \A b \in Batches : batch'[b] = batch[b]
             \/ (batch'[b].at = "try" /\ batch'[b].stamp = batch[b].stamp)
    BY <1>1, <1>4, EndTyped DEF dataVars, segVars
  <2>2. Reserved' /\ MigrationSegs'
    BY <1>1, <2>1, SegsStay, MigrationSegsFresh
  <2>3. mig'.stamp = 0
    BY <2>1 DEF NoMigration
  <2> QED
    BY <1>2, <2>1, <2>2, <2>3 DEF SegInv, Bounded
<1>5. CASE LoadEntry \/ LockBatchMtx \/ IndexUpdated
  <2>1. /\ mig'.cands = mig.cands /\ mig'.frees = mig.frees /\ mig'.stamp = mig.stamp
        /\ UNCHANGED <<segTable, index, clock, batch>>
    BY <1>1, <1>5, LoadTyped, LockTyped DEF segVars, OthersKeep
  <2>2. Reserved' /\ MigrationSegs'
    BY <2>1, SegsStay
  <2> QED
    BY <2>1, <2>2 DEF SegInv, Bounded
<1>6. CASE PackCandidate
  <2>1. /\ mig.cands # <<>> /\ mig'.stamp = mig.stamp
        /\ \/ /\ mig'.frees = Append(mig.frees, mig.cands[1])
              /\ mig'.cands = Tail(mig.cands)
           \/ mig'.frees = mig.frees /\ mig'.cands = <<>>
        /\ UNCHANGED <<segTable, index, clock, batch>>
    BY <1>1, <1>6, PackTyped DEF segVars, OthersKeep
  <2>2. Reserved'
    BY <2>1, SegsStay
  <2>3. MigrationSegs'
    <3> DEFINE c == mig.cands
               f == mig.frees
               st == segTable
    <3>1. /\ c \in Seq(Segs) /\ f \in Seq(Segs) /\ c # <<>>
          /\ \A i \in DOMAIN c : st[c[i]].state = "USED"
          /\ \A i \in DOMAIN f : st[f[i]].state = "USED"
          /\ \A i, j \in DOMAIN c : c[i] = c[j] => i = j
          /\ \A i, j \in DOMAIN f : f[i] = f[j] => i = j
          /\ \A i \in DOMAIN c, j \in DOMAIN f : c[i] # f[j]
      BY <1>2, <2>1 DEF SegInv, MigrationSegs
    <3>2. CASE mig'.frees = f /\ mig'.cands = <<>>
      <4>1. DOMAIN mig'.cands = {}
        BY <3>2
      <4> QED
        BY <2>1, <3>1, <3>2, <4>1 DEF MigrationSegs
    <3>3. CASE mig'.frees = Append(f, c[1]) /\ mig'.cands = Tail(c)
      <4> DEFINE d == Tail(c)
                 g == Append(f, c[1])
      <4> HIDE DEF c, f, st
      <4>1. /\ DOMAIN d = 1 .. Len(c) - 1 /\ DOMAIN c = 1 .. Len(c) /\ Len(c) \in Nat
            /\ \A i \in DOMAIN d : d[i] = c[i + 1]
        BY <3>1
      <4>2. /\ DOMAIN g = 1 .. Len(f) + 1 /\ DOMAIN f = 1 .. Len(f) /\ Len(f) \in Nat
            /\ \A i \in DOMAIN f : g[i] = f[i]
            /\ g[Len(f) + 1] = c[1]
        BY <3>1
      <4>3. 1 \in DOMAIN c
        BY <3>1, <4>1
      <4> HIDE DEF d, g
      <4>4. /\ \A i \in DOMAIN d : st[d[i]].state = "USED"
            /\ \A i, j \in DOMAIN d : d[i] = d[j] => i = j
        BY <3>1, <4>1
      <4>5. /\ \A i \in DOMAIN g : st[g[i]].state = "USED"
            /\ \A i, j \in DOMAIN g : g[i] = g[j] => i = j
        <5>1. \A i \in DOMAIN g : i \in DOMAIN f \/ (i = Len(f) + 1 /\ g[i] = c[1])
          BY <4>2
        <5>2. \A i \in DOMAIN f : g[i] = f[i] /\ f[i] # c[1] /\ st[f[i]].state = "USED"
          BY <3>1, <4>2, <4>3
        <5>3. st[c[1]].state = "USED"
          BY <3>1, <4>3
        <5>4. \A i, j \in DOMAIN f : f[i] = f[j] => i = j
          BY <3>1
        <5> HIDE <3>1, <4>1, <4>2
        <5> QED
          BY <5>1, <5>2, <5>3, <5>4
      <4>6. \A i \in DOMAIN d, j \in DOMAIN g : d[i] # g[j]
        <5> SUFFICES ASSUME NEW i \in DOMAIN d, NEW j \in DOMAIN g PROVE d[i] # g[j]
          OBVIOUS
        <5>1. i + 1 \in DOMAIN c /\ i + 1 # 1 /\ d[i] = c[i + 1]
          BY <4>1
        <5>2. g[j] = c[1] \/ (j \in DOMAIN f /\ g[j] = f[j])
          BY <4>2
        <5> QED
          BY <3>1, <4>3, <5>1, <5>2
      <4> QED
        BY <2>1, <3>3, <4>4, <4>5, <4>6 DEF MigrationSegs, d, g, st
    <3> QED
      BY <2>1, <3>2, <3>3
  <2> QED
    BY <2>1, <2>2, <2>3 DEF SegInv, Bounded
<1>7. CASE WriteMigrated
  <2>1. /\ mig'.cands = mig.cands /\ mig'.frees = mig.frees /\ mig'.stamp = clock'
        /\ clock' = clock + 1
        /\ UNCHANGED <<segTable, index, batch>>
    BY <1>1, <1>7, WriteMigratedTyped DEF segVars
  <2>2. Reserved' /\ MigrationSegs'
    BY <2>1, SegsStay
  <2>3. \A k \in Keys : index[k] # NoEntry => index[k].stamp \in Nat
    BY <1>1, SegTypes DEF Entries
  <2>4. Bounded'
    BY <1>2, <2>1, <2>3 DEF SegInv, Bounded
  <2> QED
    BY <2>2, <2>4
<1>8. CASE TestSame \/ PutMoved
  <2>1. /\ mig'.cands = mig.cands /\ mig'.frees = mig.frees /\ mig'.stamp = mig.stamp
        /\ mig.pos \in DOMAIN mig.list
        /\ UNCHANGED <<clock, batch>>
        /\ index' = index \/ index' = [index EXCEPT ![KeyOf[Moved.write]] = Moved]
    BY <1>1, <1>8, TestTyped, PutTyped DEF OthersKeep
  <2>2. \A s \in Segs : segTable'[s].state = segTable[s].state
    BY <1>1, <1>8, DeathEffect
  <2>3. Reserved' /\ MigrationSegs'
    BY <2>1, <2>2, SegsStay
  <2>4. Moved.vol # Fast /\ Moved.stamp = mig.stamp
    BY <1>1, <2>1, MovedTyped, MigrateAssumption DEF MediumVols, Fast
  <2>5. \A k \in Keys : index'[k] = index[k] \/ index'[k] = Moved
    <3>1. index \in [Keys -> MaybeEntries]
      BY <1>1 DEF TypeOK
    <3> QED
      BY <2>1, <3>1
  <2> QED
    BY <2>1, <2>3, <2>4, <2>5 DEF SegInv, Bounded
<1>9. CASE FreeMigrated
  <2>1. /\ mig.frees # <<>> /\ mig.frees[1] \in Segs /\ FreeForGC(mig.frees[1])
        /\ mig'.frees = Tail(mig.frees) /\ mig'.cands = mig.cands /\ mig'.stamp = mig.stamp
        /\ UNCHANGED <<index, clock, batch>>
    BY <1>1, <1>9, FreeMigratedTyped DEF OthersKeep
  <2> DEFINE s1 == mig.frees[1]
  <2>2. /\ segTable[s1].state = "USED"
        /\ \A s \in Segs : s # s1 => segTable'[s] = segTable[s]
    <3>1. 1 \in DOMAIN mig.frees
      BY <1>2, <2>1
    <3> QED
      BY <1>1, <2>1, <3>1, FreeTyped DEF SegInv, MigrationSegs
  <2>3. Reserved'
    BY <1>2, <2>1, <2>2 DEF SegInv, Reserved
  <2>4. MigrationSegs'
    <3> DEFINE c == mig.cands
               f == mig.frees
               g == Tail(f)
    <3>1. /\ c \in Seq(Segs) /\ f \in Seq(Segs) /\ f # <<>>
          /\ \A i \in DOMAIN c : segTable[c[i]].state = "USED" /\ c[i] \in Segs
          /\ \A i \in DOMAIN f : segTable[f[i]].state = "USED" /\ f[i] \in Segs
          /\ \A i, j \in DOMAIN c : c[i] = c[j] => i = j
          /\ \A i, j \in DOMAIN f : f[i] = f[j] => i = j
          /\ \A i \in DOMAIN c, j \in DOMAIN f : c[i] # f[j]
      BY <1>2, <2>1 DEF SegInv, MigrationSegs
    <3>2. mig'.frees = g /\ mig'.cands = c
      BY <2>1
    <3> HIDE DEF c, f
    <3>3. /\ DOMAIN g = 1 .. Len(f) - 1 /\ DOMAIN f = 1 .. Len(f) /\ Len(f) \in Nat
          /\ \A i \in DOMAIN g : g[i] = f[i + 1]
      BY <3>1
    <3>4. 1 \in DOMAIN f
      BY <3>1, <3>3
    <3> HIDE DEF g
    <3>5. \A i \in DOMAIN g : g[i] \in Segs /\ g[i] # f[1] /\ segTable[g[i]].state = "USED"
      <4> SUFFICES ASSUME NEW i \in DOMAIN g
                   PROVE  g[i] \in Segs /\ g[i] # f[1] /\ segTable[g[i]].state = "USED"
        OBVIOUS
      <4>1. i + 1 \in DOMAIN f /\ i + 1 # 1 /\ g[i] = f[i + 1]
        BY <3>3
      <4> QED
        BY <3>1, <3>4, <4>1
    <3>6. /\ \A i, j \in DOMAIN g : g[i] = g[j] => i = j
          /\ \A i \in DOMAIN c, j \in DOMAIN g : c[i] # g[j]
      <4>1. \A i \in DOMAIN g : i + 1 \in DOMAIN f /\ g[i] = f[i + 1] /\ i \in Nat
        BY <3>3
      <4>2. \A i, j \in DOMAIN g : g[i] = g[j] => i = j
        <5> SUFFICES ASSUME NEW i \in DOMAIN g, NEW j \in DOMAIN g, g[i] = g[j] PROVE i = j
          OBVIOUS
        <5>1. i + 1 = j + 1
          BY <3>1, <4>1
        <5> QED
          BY <4>1, <5>1
      <4>3. \A i \in DOMAIN c, j \in DOMAIN g : c[i] # g[j]
        BY <3>1, <4>1
      <4> QED
        BY <4>2, <4>3
    <3>7. \A i \in DOMAIN c : c[i] # f[1]
      BY <3>1, <3>4
    <3>8. s1 = f[1]
      BY DEF f
    <3> HIDE DEF s1
    <3> QED
      BY <2>2, <3>1, <3>2, <3>5, <3>6, <3>7, <3>8 DEF MigrationSegs
  <2> QED
    BY <2>1, <2>3, <2>4 DEF SegInv, Bounded
<1> QED
  BY <1>3, <1>4, <1>5, <1>6, <1>7, <1>8, <1>9 DEF doMigrate

(* Every step keeps what is known of the segments.                         *)
LEMMA SegStep == SegInv /\ [Next]_vars => SegInv'
<1> SUFFICES ASSUME SegInv, [Next]_vars PROVE Reserved' /\ MigrationSegs' /\ Bounded'
  BY TypeStep DEF SegInv
<1>1. CASE \E b \in Batches : Write(b)
  BY <1>1, WriterKeepsSegs
<1>2. CASE BackMigrate \/ doMigrate
  BY <1>2, MigrationKeepsSegs
<1>3. CASE ThreadPicks \/ UNCHANGED vars
  <2>1. UNCHANGED <<segTable, index, clock, batch, mig>>
    BY <1>3 DEF ThreadPicks, vars, dataVars, segVars
  <2> QED
    BY <2>1 DEF SegInv, Reserved, MigrationSegs, Bounded
<1> QED
  BY <1>1, <1>2, <1>3 DEF Next

-----------------------------------------------------------------------------
(* Where entries lead. *)

(* The record at position n of fast segment s has been scanned.            *)
Scanned(s, n) ==
  \/ \E i \in DOMAIN mig.frees : mig.frees[i] = s
  \/ mig.at = "load" /\ mig.cands # <<>> /\ s = mig.cands[1] /\ n < mig.pos

SameAddress(e, f) == e.vol = f.vol /\ e.seg = f.seg /\ e.pos = f.pos

(* What loadSegKV has made of the record is still to be brought to the     *)
(* index.                                                                  *)
Carried(e) ==
  \/ mig.at = "load" /\ \E i \in DOMAIN mig.loaded : SameAddress(mig.loaded[i], e)
  \/ /\ mig.at \in {"load", "lock", "test", "put"}
     /\ \E i \in DOMAIN mig.list :
          /\ mig.at \in {"test", "put"} => i >= mig.pos
          /\ SameAddress(mig.list[i], e)

(* A record loaded is one with data, of a scanned place; an entry of its   *)
(* key with its address was made for it.                                   *)
GoodLoad(f) ==
  /\ f.vol = Fast /\ f.seg \in Segs
  /\ f.pos \in DOMAIN content[f.seg] /\ content[f.seg][f.pos] = f.write
  /\ ~Tombstone(f)
  /\ IsSameInMem(f) => index[KeyOf[f.write]].write = f.write

Spoiled == slips \cap {"unindexed", "overtaken"} # {}

(* A tombstone that a migration left behind.                               *)
Excused(e) == "tombstone" \in slips /\ Tombstone(e)

(* A batch at work finds its records, none of them scanned before it was   *)
(* indexed.                                                                *)
WritersPlace ==
  \A b \in Batches : batch[b].at = "update" =>
    /\ content[batch[b].seg] = Items[b]
    /\ segTable[batch[b].seg].state = "USED"
    /\ \A n \in DOMAIN Items[b] : Scanned(batch[b].seg, n) => n < batch[b].next

(* Every entry is housed, or carried by the migration that scanned its     *)
(* place, but for tombstones.                                              *)
EntriesPlace ==
  \A k \in Keys : index[k] # NoEntry =>
    /\ KeyOf[index[k].write] = k
    /\ Housed(index[k]) \/ Excused(index[k])
    /\ index[k].vol = Fast /\ Scanned(index[k].seg, index[k].pos) =>
         Carried(index[k]) \/ Excused(index[k])

(* Where the place of an entry was written over, the new record of the key *)
(* is newer and yet to be indexed.                                         *)
OverwrittenPlace ==
  \A k \in Keys : index[k] # NoEntry /\ index[k].vol = Fast =>
    LET s == index[k].seg
        n == index[k].pos
    IN n \in DOMAIN content[s] /\ KeyOf[content[s][n]] = k /\ content[s][n] # index[k].write =>
         \E c \in Batches : /\ batch[c].at = "update" /\ batch[c].seg = s
                            /\ batch[c].next <= n /\ index[k].stamp < batch[c].stamp

LoadsAreGood ==
  /\ (mig.at = "load" /\ mig.cands = <<>>) \/ mig.at = "lock" => mig.pos = 1
  /\ mig.at = "load" => \A i \in DOMAIN mig.loaded :
       /\ GoodLoad(mig.loaded[i]) /\ mig.cands # <<>>
       /\ mig.loaded[i].seg = mig.cands[1] /\ mig.loaded[i].pos < mig.pos
  /\ mig.at \in {"load", "lock", "test", "put"} => \A i \in DOMAIN mig.list :
       GoodLoad(mig.list[i]) /\ \E j \in DOMAIN mig.frees : mig.frees[j] = mig.list[i].seg

(* The copies are in the last segment of the medium volume.                *)
CopiesAreThere ==
  mig.at \in {"lock", "test", "put"} =>
    /\ Len(medium[mig.vol]) > 0
    /\ medium[mig.vol][Len(medium[mig.vol])].records = Copies

HouseInv ==
  SegInv /\ (~Spoiled => /\ WritersPlace /\ EntriesPlace /\ OverwrittenPlace
                         /\ LoadsAreGood /\ CopiesAreThere)

(* IsSameInMem compares the address of the key's entry.                    *)
LEMMA SameInMem ==
  ASSUME NEW f
  PROVE  IsSameInMem(f) <=> /\ index[KeyOf[f.write]] # NoEntry
                            /\ SameAddress(index[KeyOf[f.write]], f)
BY DEF IsSameInMem, SameAddress

(* A loaded record is in a scanned place.                                  *)
LEMMA LoadsAreScanned ==
  ASSUME LoadsAreGood
  PROVE  /\ mig.at = "load" =>
              \A i \in DOMAIN mig.loaded : Scanned(mig.loaded[i].seg, mig.loaded[i].pos)
         /\ mig.at \in {"load", "lock", "test", "put"} =>
              \A i \in DOMAIN mig.list : Scanned(mig.list[i].seg, mig.list[i].pos)
BY DEF LoadsAreGood, Scanned

(* What is on the list stays as good as it was while no key is indexed anew. *)
LEMMA LoadsStay ==
  ASSUME UNCHANGED <<content, index>>, mig'.list = mig.list,
         \A i \in DOMAIN mig.list : GoodLoad(mig.list[i])
  PROVE  \A i \in DOMAIN mig.list : GoodLoad(mig.list[i])'
<1> SUFFICES ASSUME NEW i \in DOMAIN mig.list PROVE GoodLoad(mig.list[i])'
  OBVIOUS
<1>1. PICK f : f = mig.list[i] /\ f = mig'.list[i] /\ GoodLoad(f)
  OBVIOUS
<1>2. /\ f.vol = Fast /\ f.seg \in Segs
      /\ f.pos \in DOMAIN content'[f.seg] /\ content'[f.seg][f.pos] = f.write
      /\ ~Tombstone(f)
  BY <1>1 DEF GoodLoad
<1>3. IsSameInMem(f)' => index'[KeyOf[f.write]].write = f.write
  BY <1>1 DEF GoodLoad, IsSameInMem
<1> QED
  BY <1>1, <1>2, <1>3 DEF GoodLoad, IsSameInMem, Tombstone

(* The opened store has no entries to place.                               *)
LEMMA HouseInit == Init => HouseInv
<1> SUFFICES ASSUME Init PROVE HouseInv
  OBVIOUS
<1>1. /\ \A b \in Batches : batch[b].at = "new"
      /\ \A k \in Keys : index[k] = NoEntry
      /\ mig.at = "idle"
  BY DEF Init, NewBatch, NoMigration
<1> QED
  BY <1>1, SegmentsInit
     DEF HouseInv, WritersPlace, EntriesPlace, OverwrittenPlace, LoadsAreGood, CopiesAreThere

(* A step keeps an entry housed if it keeps records, and keeps segments    *)
(* USED.                                                                   *)
LEMMA HousedStays ==
  ASSUME SegInv, NEW e \in Entries, Housed(e), e.vol = Fast => e.seg \in Segs,
         e.vol = Fast =>
           /\ segTable[e.seg].state = "USED" => segTable'[e.seg].state = "USED"
           /\ content'[e.seg] = content[e.seg],
         e.vol # Fast /\ e.seg \in DOMAIN medium[e.vol] =>
           /\ e.seg \in DOMAIN medium'[e.vol]
           /\ medium'[e.vol][e.seg].records = medium[e.vol][e.seg].records
  PROVE  Housed(e)'
<1>1. RecordsAt(e)' = RecordsAt(e)
  BY DEF RecordsAt, Housed
<1> QED
  BY <1>1 DEF Housed

(* A step that leaves index, records and migration alone, and frees no     *)
(* USED segment.                                                           *)
LEMMA QuietHouse ==
  ASSUME HouseInv, SegInv', UNCHANGED <<content, medium, index, mig, slips>>,
         \A s \in Segs : segTable[s].state = "USED" => segTable'[s].state = "USED",
         \A b \in Batches : batch'[b].at = "update" \/ batch[b].at = "update" =>
           batch'[b] = batch[b]
  PROVE  HouseInv'
<1> SUFFICES ASSUME ~Spoiled'
             PROVE  /\ WritersPlace' /\ EntriesPlace' /\ OverwrittenPlace'
                    /\ LoadsAreGood' /\ CopiesAreThere'
  BY DEF HouseInv
<1>1. /\ WritersPlace /\ EntriesPlace /\ OverwrittenPlace /\ LoadsAreGood /\ CopiesAreThere
      /\ SegInv /\ TypeOK
  BY DEF HouseInv, Spoiled, SegInv, TypeInv
<1>2. \A b \in Batches : batch[b].seg \in Segs
  BY <1>1, SegTypes
<1>3. WritersPlace'
  BY <1>1, <1>2 DEF WritersPlace, Scanned
<1>4. \A e \in Entries : Housed(e) /\ (e.vol = Fast => e.seg \in Segs) => Housed(e)'
  BY <1>1, HousedStays
<1>5. EntriesPlace'
  <2>1. \A k \in Keys : index[k] # NoEntry =>
          index[k] \in Entries /\ (index[k].vol = Fast => index[k].seg \in Segs)
    BY <1>1, SegTypes DEF SegInv, Bounded
  <2>2. \A k \in Keys : index[k] # NoEntry => (Housed(index[k]) => Housed(index[k])')
    BY <1>4, <2>1
  <2> QED
    BY <1>1, <2>2 DEF EntriesPlace, Excused, Scanned, Carried
<1>6. OverwrittenPlace'
  BY <1>1 DEF OverwrittenPlace
<1>7. LoadsAreGood'
  BY <1>1 DEF LoadsAreGood, GoodLoad, IsSameInMem
<1>8. CopiesAreThere'
  BY <1>1 DEF CopiesAreThere, Copies
<1> QED
  BY <1>3, <1>5, <1>6, <1>7, <1>8

(* A migration that begins, or has ended.                                  *)
LEMMA FreshHouse ==
  ASSUME HouseInv, SegInv', UNCHANGED <<segTable, content, medium, index, slips>>,
         mig' = NoMigration \/ \E o, v : StartMigration(o, v),
         \A b \in Batches : batch'[b].at = "update" \/ batch[b].at = "update" =>
           batch'[b] = batch[b]
  PROVE  HouseInv'
<1> SUFFICES ASSUME ~Spoiled'
             PROVE  /\ WritersPlace' /\ EntriesPlace' /\ OverwrittenPlace'
                    /\ LoadsAreGood' /\ CopiesAreThere'
  BY DEF HouseInv
<1>1. /\ WritersPlace /\ EntriesPlace /\ OverwrittenPlace
      /\ SegInv /\ TypeOK
  BY DEF HouseInv, Spoiled, SegInv, TypeInv
<1>2. \A b \in Batches : batch[b].seg \in Segs
  BY <1>1, SegTypes
<1>3. /\ mig'.frees = <<>> /\ mig'.pos = 1 /\ mig'.loaded = <<>> /\ mig'.list = <<>>
      /\ mig'.at \in {"idle", "load"}
  <2>1. CASE mig' = NoMigration
    BY <2>1 DEF NoMigration
  <2>2. CASE \E o, v : StartMigration(o, v)
    BY <2>2 DEF StartMigration, NoMigration
  <2> QED
    BY <2>1, <2>2
<1>4. \A s : \A n \in Nat \ {0} : ~Scanned(s, n)'
  <2>1. DOMAIN mig'.frees = {} /\ \A n \in Nat \ {0} : ~(n < 1)
    BY <1>3
  <2> QED
    BY <1>3, <2>1 DEF Scanned
<1>5. WritersPlace'
  <2>1. \A b \in Batches : DOMAIN Items[b] \subseteq Nat \ {0}
    BY MigrateAssumption
  <2> QED
    BY <1>1, <1>2, <1>4, <2>1 DEF WritersPlace
<1>6. EntriesPlace'
  <2>1. \A k \in Keys : index[k] # NoEntry => index[k].pos \in Nat \ {0}
    BY <1>1, SegTypes DEF Entries
  <2>2. \A k \in Keys : index[k] # NoEntry => (Housed(index[k]) => Housed(index[k])')
    BY DEF Housed, RecordsAt
  <2> QED
    BY <1>1, <1>4, <2>1, <2>2 DEF EntriesPlace, Excused
<1>7. OverwrittenPlace'
  BY <1>1 DEF OverwrittenPlace
<1>8. LoadsAreGood' /\ CopiesAreThere'
  BY <1>3 DEF LoadsAreGood, CopiesAreThere
<1> QED
  BY <1>5, <1>6, <1>7, <1>8

Placed == WritersPlace /\ EntriesPlace /\ OverwrittenPlace /\ LoadsAreGood /\ CopiesAreThere

(* What the placement of entries is used for.                              *)
LEMMA HouseFacts ==
  ASSUME HouseInv
  PROVE  /\ SegInv /\ TypeInv /\ TypeOK
         /\ \A b \in Batches : batch[b].seg \in Segs
         /\ \A k \in Keys : index[k] # NoEntry =>
              index[k] \in Entries /\ (index[k].vol = Fast => index[k].seg \in Segs)
         /\ ~Spoiled => Placed
<1>1. SegInv /\ TypeInv /\ TypeOK
  BY DEF HouseInv, SegInv, TypeInv
<1> QED
  BY <1>1, SegTypes DEF HouseInv, SegInv, Bounded, Placed

(* Slips are never forgotten.                                              *)
LEMMA StillUnspoiled ==
  ASSUME ~Spoiled', slips \subseteq slips'
  PROVE  ~Spoiled
BY DEF Spoiled

(* A client's segment gets its records.                                    *)
LEMMA WriteHouse ==
  ASSUME HouseInv, ~Spoiled', NEW b \in Batches, WriteSeg(b)
  PROVE  Placed'
<1> DEFINE s0 == batch[b].seg
<1>1. /\ batch[b].at = "write" /\ batch'[b].at = "update" /\ batch'[b].stamp = clock'
      /\ batch'[b].seg = s0 /\ s0 \in Segs /\ batch'[b].next = 1
      /\ \A c \in Batches : c # b => batch'[c] = batch[c]
      /\ clock' = clock + 1
      /\ content'[s0] = Items[b]
      /\ \A s \in Segs : s # s0 => content'[s] = content[s]
      /\ segTable'[s0].state = "USED"
      /\ \A s \in Segs : s # s0 => segTable'[s] = segTable[s]
      /\ UNCHANGED <<medium, index, mig, slips>>
  BY HouseFacts, WriteEffect
<1>2. Placed
  BY <1>1, StillUnspoiled, HouseFacts
<1>3. segTable[s0].state = "RESERVED"
  BY <1>1, HouseFacts DEF SegInv, Reserved
<1>4. /\ \A i \in DOMAIN mig.cands : mig.cands[i] # s0
      /\ \A i \in DOMAIN mig.frees : mig.frees[i] # s0
      /\ \A c \in Batches : batch[c].at = "update" => batch[c].seg # s0
  <2>1. \A c \in Batches : batch[c].at = "update" => segTable[batch[c].seg].state = "USED"
    BY <1>2 DEF Placed, WritersPlace
  <2> QED
    BY <1>3, <2>1, HouseFacts DEF SegInv, MigrationSegs
<1>5. mig.cands # <<>> => 1 \in DOMAIN mig.cands
  BY HouseFacts, SegTypes
<1>6. \A n : ~Scanned(s0, n)
  BY <1>4, <1>5 DEF Scanned
<1> HIDE DEF s0
<1>7. WritersPlace'
  <2> SUFFICES ASSUME NEW c \in Batches, batch'[c].at = "update"
               PROVE  /\ content'[batch'[c].seg] = Items[c]
                      /\ segTable'[batch'[c].seg].state = "USED"
                      /\ \A n \in DOMAIN Items[c] :
                           Scanned(batch[c].seg, n)' => n < batch'[c].next
    BY DEF WritersPlace
  <2>1. \A s, n : Scanned(s, n)' <=> Scanned(s, n)
    BY <1>1 DEF Scanned
  <2>2. CASE c = b
    BY <1>1, <1>6, <2>1, <2>2 DEF Scanned
  <2>3. CASE c # b
    <3>1. batch'[c] = batch[c] /\ batch[c].at = "update" /\ batch[c].seg # s0
          /\ batch[c].seg \in Segs
      BY <1>1, <1>4, <2>3, HouseFacts
    <3>2. /\ content[batch[c].seg] = Items[c] /\ segTable[batch[c].seg].state = "USED"
          /\ \A n \in DOMAIN Items[c] : Scanned(batch[c].seg, n) => n < batch[c].next
      BY <1>2, <3>1 DEF Placed, WritersPlace
    <3> QED
      BY <1>1, <3>1, <3>2 DEF Scanned
  <2> QED
    BY <2>2, <2>3
<1>8. EntriesPlace'
  <2>1. \A e \in Entries : Housed(e) /\ (e.vol = Fast => e.seg \in Segs) => Housed(e)'
    <3> SUFFICES ASSUME NEW e \in Entries, Housed(e), e.vol = Fast => e.seg \in Segs
                 PROVE  Housed(e)'
      OBVIOUS
    <3>1. e.vol = Fast => e.seg # s0
      BY <1>3 DEF Housed
    <3> QED
      BY <1>1, <3>1, HouseFacts, HousedStays
  <2>2. \A k \in Keys : index[k] # NoEntry => (Housed(index[k]) => Housed(index[k])')
    BY <1>1, <2>1, HouseFacts
  <2> QED
    BY <1>1, <1>2, <2>2 DEF Placed, EntriesPlace, Excused, Scanned, Carried
<1>9. OverwrittenPlace'
  <2> SUFFICES ASSUME NEW k \in Keys, index[k] # NoEntry, index[k].vol = Fast,
                      NEW n, n = index[k].pos, NEW s \in Segs, s = index[k].seg,
                      n \in DOMAIN content'[s], KeyOf[content'[s][n]] = k,
                      content'[s][n] # index[k].write
               PROVE  \E c \in Batches : /\ batch'[c].at = "update" /\ batch'[c].seg = s
                                         /\ batch'[c].next <= n
                                         /\ index[k].stamp < batch'[c].stamp
    BY <1>1, HouseFacts DEF OverwrittenPlace
  <2>1. CASE s = s0
    <3>1. n \in Nat \ {0} /\ index[k].stamp \in Nat
      BY HouseFacts DEF Entries
    <3>2. index[k].stamp <= clock /\ clock \in Nat
      BY HouseFacts, SegTypes DEF SegInv, Bounded
    <3> QED
      BY <1>1, <2>1, <3>1, <3>2
  <2>2. CASE s # s0
    <3>1. PICK c \in Batches : /\ batch[c].at = "update" /\ batch[c].seg = s
                               /\ batch[c].next <= n /\ index[k].stamp < batch[c].stamp
      BY <1>1, <1>2, <2>2 DEF Placed, OverwrittenPlace
    <3> QED
      BY <1>1, <3>1
  <2> QED
    BY <2>1, <2>2
<1>10. LoadsAreGood'
  <2>1. \A f : GoodLoad(f) /\ f.seg # s0 => GoodLoad(f)'
    BY <1>1 DEF GoodLoad, IsSameInMem, Tombstone
  <2>2. /\ mig.at = "load" => \A i \in DOMAIN mig.loaded : mig.loaded[i].seg # s0
        /\ mig.at \in {"load", "lock", "test", "put"} =>
             \A i \in DOMAIN mig.list : mig.list[i].seg # s0
    BY <1>2, <1>4, <1>5 DEF Placed, LoadsAreGood
  <2> QED
    BY <1>1, <1>2, <2>1, <2>2 DEF Placed, LoadsAreGood
<1>11. CopiesAreThere'
  BY <1>1, <1>2 DEF Placed, CopiesAreThere, Copies
<1> QED
  BY <1>7, <1>8, <1>9, <1>10, <1>11 DEF Placed

(* An entry stays housed while no record is written and no segment freed.  *)
LEMMA AllHousedStay ==
  ASSUME HouseInv, UNCHANGED content,
         \A s \in Segs : segTable'[s].state = segTable[s].state,
         \A v \in MediumVols :
           /\ DOMAIN medium'[v] = DOMAIN medium[v]
           /\ \A s \in DOMAIN medium[v] : medium'[v][s].records = medium[v][s].records
  PROVE  \A e \in Entries : Housed(e) /\ (e.vol = Fast => e.seg \in Segs) => Housed(e)'
<1> SUFFICES ASSUME NEW e \in Entries, Housed(e), e.vol = Fast => e.seg \in Segs
             PROVE  Housed(e)'
  OBVIOUS
<1>1. e.vol # Fast => e.vol \in MediumVols
  BY DEF Entries
<1> QED
  BY <1>1, HouseFacts, HousedStays

(* The index takes one write of a batch, or drops it as expired.           *)
LEMMA UpdateHouse ==
  ASSUME HouseInv, ~Spoiled', NEW b \in Batches, BatchUpdate(b)
  PROVE  Placed'
<1> DEFINE e == ItemEntry(b)
           k0 == KeyOf[e.write]
           n0 == batch[b].next
<1>1. /\ UpdateIndex(e)
      /\ batch[b].at = "update" /\ n0 \in DOMAIN Items[b]
      /\ batch'[b].seg = batch[b].seg /\ batch'[b].stamp = batch[b].stamp
      /\ IF n0 = Len(Items[b])
         THEN batch'[b].at \in {"reap", "done"}
         ELSE batch'[b].at = "update" /\ batch'[b].next = n0 + 1
      /\ \A c \in Batches : c # b => batch'[c] = batch[c]
      /\ UNCHANGED <<content, mig>>
  BY HouseFacts, BatchUpdateTyped
<1>2. /\ k0 \in Keys /\ e \in Entries
      /\ index' = index \/ index' = [index EXCEPT ![k0] = e]
      /\ \A s \in Segs : segTable'[s].state = segTable[s].state
      /\ \A v \in MediumVols :
           /\ DOMAIN medium'[v] = DOMAIN medium[v] /\ Len(medium'[v]) = Len(medium[v])
           /\ \A s \in DOMAIN medium[v] : medium'[v][s].records = medium[v][s].records
      /\ slips' = slips \/ slips' = slips \cup {"restamped"}
  BY HouseFacts, UpdateEffect
<1>3. /\ e.write = Items[b][n0] /\ e.vol = Fast /\ e.seg = batch[b].seg /\ e.pos = n0
      /\ e.stamp = batch[b].stamp
      /\ Items[b] \in Seq(Writes) /\ DOMAIN Items[b] = 1 .. Len(Items[b])
      /\ Len(Items[b]) \in Nat
  BY <1>1, HouseFacts, ItemTyped
<1>4. /\ \A k \in Keys : index'[k] = index[k] \/ (k = k0 /\ index'[k] = e)
      /\ index[k0] # NoEntry /\ ~(e.stamp < index[k0].stamp) => index'[k0] = e
  <2>1. index \in [Keys -> MaybeEntries]
    BY HouseFacts DEF TypeOK
  <2>2. index[k0] # NoEntry /\ ~(e.stamp < index[k0].stamp) => index' = [index EXCEPT ![k0] = e]
    BY <1>1 DEF UpdateIndex
  <2> HIDE DEF e, k0
  <2> QED
    BY <1>2, <2>1, <2>2
<1>5. Placed /\ ("tombstone" \in slips' <=> "tombstone" \in slips)
  BY <1>2, StillUnspoiled, HouseFacts
<1>6. /\ content[batch[b].seg] = Items[b] /\ segTable[batch[b].seg].state = "USED"
      /\ \A n \in DOMAIN Items[b] : Scanned(batch[b].seg, n) => n < n0
  BY <1>1, <1>5 DEF Placed, WritersPlace
<1> HIDE DEF e, k0, n0
<1>7. n0 \in Nat /\ NoEntry # e
  BY <1>1, <1>2, <1>3, MigrateAssumption
<1>8. WritersPlace'
  <2> SUFFICES ASSUME NEW c \in Batches, batch'[c].at = "update"
               PROVE  /\ content'[batch'[c].seg] = Items[c]
                      /\ segTable'[batch'[c].seg].state = "USED"
                      /\ \A n \in DOMAIN Items[c] :
                           Scanned(batch[c].seg, n)' => n < batch'[c].next
    BY DEF WritersPlace
  <2>1. \A s, n : Scanned(s, n)' <=> Scanned(s, n)
    BY <1>1 DEF Scanned
  <2>2. CASE c = b
    <3>1. \A n \in DOMAIN Items[c] : Scanned(batch[c].seg, n)' => n < batch'[c].next
      BY <1>1, <1>3, <1>6, <1>7, <2>1, <2>2 DEF Scanned
    <3> QED
      BY <1>1, <1>2, <1>6, <2>2, <3>1, HouseFacts
  <2>3. CASE c # b
    BY <1>1, <1>2, <1>5, <2>1, <2>3, HouseFacts DEF Placed, WritersPlace, Scanned
  <2> QED
    BY <2>2, <2>3
<1>9. EntriesPlace'
  <2>1. \A f \in Entries : Housed(f) /\ (f.vol = Fast => f.seg \in Segs) => Housed(f)'
    BY <1>1, <1>2, AllHousedStay
  <2> SUFFICES ASSUME NEW k \in Keys, index'[k] # NoEntry
               PROVE  /\ KeyOf[index'[k].write] = k
                      /\ Housed(index[k])' \/ Excused(index[k])'
                      /\ index'[k].vol = Fast /\ Scanned(index[k].seg, index[k].pos)' =>
                           Carried(index[k])' \/ Excused(index[k])'
    BY DEF EntriesPlace
  <2>2. CASE index'[k] = index[k]
    <3>1. /\ KeyOf[index[k].write] = k
          /\ Housed(index[k]) \/ Excused(index[k])
          /\ index[k].vol = Fast /\ Scanned(index[k].seg, index[k].pos) =>
               Carried(index[k]) \/ Excused(index[k])
          /\ index[k] \in Entries /\ (index[k].vol = Fast => index[k].seg \in Segs)
      BY <1>5, <2>2, HouseFacts DEF Placed, EntriesPlace
    <3>2. Housed(index[k]) => Housed(index[k])'
      <4> DEFINE f == index[k]
      <4>1. PICK g \in Entries : g = f /\ g = f'
        BY <2>2, <3>1
      <4> QED
        BY <2>1, <3>1, <4>1 DEF Housed, RecordsAt
    <3>3. Excused(index[k]) => Excused(index[k])'
      BY <1>5, <2>2 DEF Excused, Tombstone
    <3>4. Scanned(index[k].seg, index[k].pos)' => Scanned(index[k].seg, index[k].pos)
      BY <1>1, <2>2 DEF Scanned
    <3>5. Carried(index[k]) => Carried(index[k])'
      BY <1>1, <2>2 DEF Carried, SameAddress
    <3> QED
      BY <2>2, <3>1, <3>2, <3>3, <3>4, <3>5
  <2>3. CASE k = k0 /\ index'[k] = e
    <3>1. KeyOf[e.write] = k0
      BY DEF k0
    <3>2. Housed(index[k])'
      BY <1>1, <1>2, <1>3, <1>6, <2>3, HouseFacts DEF Housed, RecordsAt
    <3>3. ~Scanned(index[k].seg, index[k].pos)'
      <4>1. ~Scanned(batch[b].seg, n0)
        BY <1>1, <1>6, <1>7
      <4> QED
        BY <1>1, <1>3, <2>3, <4>1 DEF Scanned
    <3> QED
      BY <2>3, <3>1, <3>2, <3>3
  <2> QED
    BY <1>4, <2>2, <2>3
<1>10. OverwrittenPlace'
  <2> SUFFICES ASSUME NEW k \in Keys, index'[k] # NoEntry, index'[k].vol = Fast,
                      NEW n, n = index'[k].pos, NEW s, s = index'[k].seg,
                      n \in DOMAIN content[s], KeyOf[content[s][n]] = k,
                      content[s][n] # index'[k].write
               PROVE  \E c \in Batches : /\ batch'[c].at = "update" /\ batch'[c].seg = s
                                         /\ batch'[c].next <= n
                                         /\ index'[k].stamp < batch'[c].stamp
    BY <1>1 DEF OverwrittenPlace
  <2>1. index'[k] # e
    BY <1>1, <1>3, <1>6
  <2>2. index'[k] = index[k]
    BY <1>4, <2>1
  <2>3. PICK c \in Batches : /\ batch[c].at = "update" /\ batch[c].seg = s
                             /\ batch[c].next <= n /\ index[k].stamp < batch[c].stamp
    BY <1>5, <2>2 DEF Placed, OverwrittenPlace
  <2>4. CASE c # b
    BY <1>1, <2>2, <2>3, <2>4
  <2>5. CASE c = b
    <3>1. n \in 1 .. Len(Items[b]) /\ n0 <= n
      BY <1>3, <1>6, <2>3, <2>5 DEF n0
    <3>2. n # n0
      <4> SUFFICES ASSUME n = n0 PROVE FALSE
        OBVIOUS
      <4>1. k = k0
        BY <1>3, <1>6, <2>3, <2>5 DEF k0
      <4>2. index[k].stamp \in Nat /\ batch[b].stamp \in Nat
        BY <2>2, HouseFacts, SegTypes DEF Entries
      <4> QED
        BY <1>3, <1>4, <2>1, <2>2, <2>3, <2>5, <4>1, <4>2
    <3>3. n0 # Len(Items[b]) /\ n0 + 1 <= n
      BY <1>3, <1>7, <3>1, <3>2
    <3> QED
      BY <1>1, <2>2, <2>3, <2>5, <3>3
  <2> QED
    BY <2>4, <2>5
<1>11. LoadsAreGood'
  <2>1. \A f : GoodLoad(f) => GoodLoad(f)'
    <3> SUFFICES ASSUME NEW f, GoodLoad(f), IsSameInMem(f)'
                 PROVE  index'[KeyOf[f.write]].write = f.write
      BY <1>1 DEF GoodLoad, Tombstone
    <3>1. CASE index'[KeyOf[f.write]] = e
      BY <1>3, <1>6, <3>1 DEF GoodLoad, IsSameInMem
    <3>2. CASE index'[KeyOf[f.write]] = index[KeyOf[f.write]]
      BY <3>2 DEF GoodLoad, IsSameInMem
    <3>3. KeyOf[f.write] \in Keys
      <4>1. f.write \in Writes
        <5>1. content \in [Segs -> Seq(Writes)]
          BY HouseFacts DEF TypeOK
        <5>2. content[f.seg] \in Seq(Writes)
          BY <5>1 DEF GoodLoad
        <5> QED
          BY <5>2, ElementOfSeq DEF GoodLoad
      <4> QED
        BY <4>1, MigrateAssumption
    <3> QED
      BY <1>4, <3>1, <3>2, <3>3
  <2> QED
    BY <1>1, <1>5, <2>1 DEF Placed, LoadsAreGood
<1>12. CopiesAreThere'
  <2>1. mig.vol \in MediumVols
    BY HouseFacts, SegTypes
  <2>2. medium \in [MediumVols -> Seq([records : Seq(Writes), death : Nat])]
    BY HouseFacts DEF TypeOK
  <2>3. Len(medium[mig.vol]) > 0 => Len(medium[mig.vol]) \in DOMAIN medium[mig.vol]
    BY <2>1, <2>2
  <2> QED
    BY <1>1, <1>2, <1>5, <2>1, <2>3 DEF Placed, CopiesAreThere, Copies
<1> QED
  BY <1>8, <1>9, <1>10, <1>11, <1>12 DEF Placed

(* The reaper takes a tombstone from the index.                            *)
LEMMA ReapHouse ==
  ASSUME HouseInv, ~Spoiled', NEW b \in Batches, Reap(b)
  PROVE  Placed'
<1>1. /\ batch[b].at = "reap" /\ batch'[b].at \in {"reap", "done"}
      /\ \A c \in Batches : c # b => batch'[c] = batch[c]
      /\ UNCHANGED <<content, mig, slips>>
  BY HouseFacts, ReapTyped DEF history
<1>2. /\ index' = index \/ \E k \in Keys : index' = [index EXCEPT ![k] = NoEntry]
      /\ \A s \in Segs : segTable'[s].state = segTable[s].state
      /\ \A v \in MediumVols :
           /\ DOMAIN medium'[v] = DOMAIN medium[v] /\ Len(medium'[v]) = Len(medium[v])
           /\ \A s \in DOMAIN medium[v] : medium'[v][s].records = medium[v][s].records
  BY HouseFacts, ReapEffect
<1>3. \A k \in Keys : index'[k] = index[k] \/ index'[k] = NoEntry
  <2>1. index \in [Keys -> MaybeEntries]
    BY HouseFacts DEF TypeOK
  <2> QED
    BY <1>2, <2>1
<1>4. Placed
  BY <1>1, StillUnspoiled, HouseFacts
<1>5. WritersPlace'
  BY <1>1, <1>2, <1>4, HouseFacts DEF Placed, WritersPlace, Scanned
<1>6. EntriesPlace'
  <2>1. \A f \in Entries : Housed(f) /\ (f.vol = Fast => f.seg \in Segs) => Housed(f)'
    BY <1>1, <1>2, AllHousedStay
  <2>2. \A f \in Entries : /\ Excused(f) <=> Excused(f)'
                           /\ Carried(f) <=> Carried(f)'
                           /\ Scanned(f.seg, f.pos) <=> Scanned(f.seg, f.pos)'
    BY <1>1 DEF Excused, Tombstone, Carried, SameAddress, Scanned
  <2> SUFFICES ASSUME NEW k \in Keys, index'[k] # NoEntry
               PROVE  /\ KeyOf[index'[k].write] = k
                      /\ Housed(index[k])' \/ Excused(index[k])'
                      /\ index'[k].vol = Fast /\ Scanned(index[k].seg, index[k].pos)' =>
                           Carried(index[k])' \/ Excused(index[k])'
    BY DEF EntriesPlace
  <2>3. PICK f \in Entries : f = index[k] /\ f = index'[k]
    BY <1>3, HouseFacts
  <2>4. /\ KeyOf[f.write] = k
        /\ Housed(f) \/ Excused(f)
        /\ f.vol = Fast /\ Scanned(f.seg, f.pos) => Carried(f) \/ Excused(f)
        /\ f.vol = Fast => f.seg \in Segs
    BY <1>3, <1>4, <2>3, HouseFacts DEF Placed, EntriesPlace
  <2>5. /\ Housed(f)' \/ Excused(f)'
        /\ f.vol = Fast /\ Scanned(f.seg, f.pos)' => Carried(f)' \/ Excused(f)'
    BY <2>1, <2>2, <2>4
  <2> QED
    BY <2>3, <2>4, <2>5
       DEF Housed, RecordsAt, Excused, Tombstone, Carried, SameAddress, Scanned
<1>7. OverwrittenPlace'
  <2>1. \A c \in Batches : batch[c].at = "update" => c # b
    BY <1>1
  <2> QED
    BY <1>1, <1>3, <1>4, <2>1 DEF Placed, OverwrittenPlace
<1>8. LoadsAreGood'
  <2>1. \A f : GoodLoad(f) => GoodLoad(f)'
    <3> SUFFICES ASSUME NEW f, GoodLoad(f), IsSameInMem(f)'
                 PROVE  index'[KeyOf[f.write]].write = f.write
      BY <1>1 DEF GoodLoad, Tombstone
    <3>1. KeyOf[f.write] \in Keys
      <4>1. content \in [Segs -> Seq(Writes)]
        BY HouseFacts DEF TypeOK
      <4>2. content[f.seg] \in Seq(Writes)
        BY <4>1 DEF GoodLoad
      <4> QED
        BY <4>2, ElementOfSeq, MigrateAssumption DEF GoodLoad
    <3>2. index'[KeyOf[f.write]] = index[KeyOf[f.write]]
      BY <1>3, <3>1 DEF IsSameInMem
    <3> QED
      BY <3>2 DEF GoodLoad, IsSameInMem
  <2> QED
    BY <1>1, <1>4, <2>1 DEF Placed, LoadsAreGood
<1>9. CopiesAreThere'
  <2>1. mig.vol \in MediumVols
    BY HouseFacts, SegTypes
  <2>2. medium \in [MediumVols -> Seq([records : Seq(Writes), death : Nat])]
    BY HouseFacts DEF TypeOK
  <2>3. Len(medium[mig.vol]) > 0 => Len(medium[mig.vol]) \in DOMAIN medium[mig.vol]
    BY <2>1, <2>2
  <2> QED
    BY <1>1, <1>2, <1>4, <2>1, <2>3 DEF Placed, CopiesAreThere, Copies
<1> QED
  BY <1>5, <1>6, <1>7, <1>8, <1>9 DEF Placed

(* An entry whose place was scanned keeps its record while the index does. *)
LEMMA AddressesAgree ==
  ASSUME HouseInv, Placed, NEW k \in Keys, index[k] # NoEntry, ~Excused(index[k]),
         NEW f, SameAddress(f, index[k]), f.vol = Fast,
         content[f.seg][f.pos] = f.write
  PROVE  index[k].write = f.write /\ KeyOf[f.write] = k /\ IsSameInMem(f)
<1>1. Housed(index[k]) /\ KeyOf[index[k].write] = k
  BY DEF Placed, EntriesPlace
<1>2. index[k].write = f.write
  BY <1>1 DEF Housed, RecordsAt, SameAddress
<1> QED
  BY <1>1, <1>2 DEF IsSameInMem, SameAddress

(* loadSegKV looks at a record.                                            *)
LEMMA LoadHouse ==
  ASSUME HouseInv, ~Spoiled', LoadEntry
  PROVE  Placed'
<1> DEFINE s1 == mig.cands[1]
           p == mig.pos
           l == mig.loaded
           m == mig'.loaded
<1>1. /\ mig.at = "load" /\ mig.cands # <<>> /\ s1 \in Segs /\ p \in DOMAIN content[s1]
      /\ mig'.pos = p + 1
      /\ mig'.at = mig.at /\ mig'.vol = mig.vol /\ mig'.cands = mig.cands
      /\ mig'.list = mig.list /\ mig'.frees = mig.frees
      /\ UNCHANGED <<segTable, content, medium, index, batch>>
  BY HouseFacts, LoadTyped DEF segVars, OthersKeep
<1>2. /\ m = IF IsSameInMem(Looked) /\ ~Tombstone(Looked) THEN Append(l, Looked) ELSE l
      /\ slips' = slips
              \cup (IF IsSameInMem(Looked) /\ Tombstone(Looked) THEN {"tombstone"} ELSE {})
              \cup (IF Unindexed(mig.cands[1], mig.pos) THEN {"unindexed"} ELSE {})
      /\ Looked \in Entries /\ l \in Seq(Entries)
  BY HouseFacts, LoadTyped, SegTypes
<1>3. Placed /\ ~Unindexed(s1, p)
  BY <1>2, StillUnspoiled, HouseFacts DEF Spoiled
<1>4. /\ slips \subseteq slips'
      /\ IsSameInMem(Looked) /\ Tombstone(Looked) => "tombstone" \in slips'
  BY <1>2
<1>5. /\ Looked.write = content[s1][p] /\ Looked.vol = Fast /\ Looked.seg = s1 /\ Looked.pos = p
      /\ p \in Nat
  BY HouseFacts, SegTypes DEF Looked, Entry
<1>6. /\ DOMAIN l \subseteq DOMAIN m /\ \A i \in DOMAIN l : m[i] = l[i]
      /\ IsSameInMem(Looked) /\ ~Tombstone(Looked) => \E i \in DOMAIN m : m[i] = Looked
      /\ \A i \in DOMAIN m : \/ i \in DOMAIN l /\ m[i] = l[i]
                             \/ m[i] = Looked /\ IsSameInMem(Looked) /\ ~Tombstone(Looked)
  <2> HIDE DEF l, m
  <2>1. CASE m = l /\ ~(IsSameInMem(Looked) /\ ~Tombstone(Looked))
    BY <2>1
  <2>2. CASE m = Append(l, Looked) /\ IsSameInMem(Looked) /\ ~Tombstone(Looked)
    <3>1. /\ DOMAIN l = 1 .. Len(l) /\ Len(l) \in Nat /\ DOMAIN m = 1 .. Len(l) + 1
          /\ m[Len(l) + 1] = Looked /\ \A i \in DOMAIN l : m[i] = l[i]
      BY <1>2, <2>2
    <3>2. Len(l) + 1 \in DOMAIN m
      BY <3>1
    <3>3. \A i \in DOMAIN m : i \in DOMAIN l \/ i = Len(l) + 1
      BY <3>1
    <3>4. DOMAIN l \subseteq DOMAIN m
      BY <3>1
    <3> QED
      BY <2>2, <3>1, <3>2, <3>3, <3>4
  <2> QED
    BY <1>2, <2>1, <2>2
<1>7. \A s, n : n \in Nat =>
        (Scanned(s, n)' <=> Scanned(s, n) \/ (s = s1 /\ n = p))
  BY <1>1, <1>5 DEF Scanned
<1> HIDE DEF l, m, s1, p
<1>8. WritersPlace'
  <2> SUFFICES ASSUME NEW c \in Batches, batch[c].at = "update"
               PROVE  \A n \in DOMAIN Items[c] : Scanned(batch[c].seg, n)' => n < batch[c].next
    BY <1>1, <1>3, HouseFacts DEF Placed, WritersPlace
  <2> SUFFICES ASSUME NEW n \in DOMAIN Items[c], Scanned(batch[c].seg, n)'
               PROVE  n < batch[c].next
    OBVIOUS
  <2>1. n \in Nat /\ batch[c].next \in Nat
    BY MigrateAssumption, HouseFacts, SegTypes
  <2>2. Scanned(batch[c].seg, n) \/ (batch[c].seg = s1 /\ n = p)
    <3>1. PICK s : s = batch[c].seg /\ s = batch'[c].seg
      BY <1>1
    <3>2. Scanned(s, n)'
      BY <3>1 DEF Scanned
    <3> QED
      BY <1>7, <2>1, <3>1, <3>2
  <2>3. CASE Scanned(batch[c].seg, n)
    BY <1>3, <2>3 DEF Placed, WritersPlace
  <2>4. CASE batch[c].seg = s1 /\ n = p
    BY <1>3, <2>1, <2>4 DEF Unindexed
  <2> QED
    BY <2>2, <2>3, <2>4
<1>9. EntriesPlace'
  <2> SUFFICES ASSUME NEW k \in Keys, index[k] # NoEntry
               PROVE  /\ KeyOf[index[k].write] = k
                      /\ Housed(index[k])' \/ Excused(index[k])'
                      /\ index[k].vol = Fast /\ Scanned(index[k].seg, index[k].pos)' =>
                           Carried(index[k])' \/ Excused(index[k])'
    BY <1>1 DEF EntriesPlace
  <2> DEFINE f == index[k]
  <2>1. /\ KeyOf[f.write] = k
        /\ Housed(f) \/ Excused(f)
        /\ f.vol = Fast /\ Scanned(f.seg, f.pos) => Carried(f) \/ Excused(f)
    BY <1>3 DEF Placed, EntriesPlace
  <2>2. (Housed(f) => Housed(f)') /\ (Excused(f) => Excused(f)')
    BY <1>1, <1>4 DEF Housed, RecordsAt, Excused, Tombstone
  <2>3. Carried(f) => Carried(f)'
    BY <1>1, <1>6 DEF Carried, SameAddress, l, m
  <2>4. f.pos \in Nat
    BY HouseFacts DEF Entries
  <2>5. ASSUME f.vol = Fast, f.seg = s1, f.pos = p
        PROVE  Carried(f)' \/ Excused(f)'
    <3>1. CASE Excused(f)
      BY <2>2, <3>1
    <3>2. CASE ~Excused(f)
      <4>1. SameAddress(Looked, f) /\ content[Looked.seg][Looked.pos] = Looked.write
        BY <1>5, <2>5 DEF SameAddress
      <4>2. IsSameInMem(Looked) /\ f.write = Looked.write
        BY <1>3, <1>5, <3>2, <4>1, AddressesAgree
      <4>3. CASE Tombstone(Looked)
        BY <1>1, <1>4, <4>2, <4>3 DEF Excused, Tombstone
      <4>4. CASE ~Tombstone(Looked)
        <5>1. PICK i \in DOMAIN m : m[i] = Looked
          BY <1>6, <4>2, <4>4
        <5> QED
          BY <1>1, <1>5, <2>5, <5>1 DEF Carried, SameAddress, m
      <4> QED
        BY <4>3, <4>4
    <3> QED
      BY <3>1, <3>2
  <2>6. Scanned(f.seg, f.pos)' => Scanned(f.seg, f.pos) \/ (f.seg = s1 /\ f.pos = p)
    <3>1. PICK s, n : s = f.seg /\ n = f.pos
      OBVIOUS
    <3>2. Scanned(f.seg, f.pos)' => Scanned(s, n)'
      BY <1>1, <3>1 DEF Scanned
    <3> QED
      BY <1>7, <2>4, <3>1, <3>2
  <2> HIDE DEF f
  <2>7. /\ Housed(f)' \/ Excused(f)'
        /\ f.vol = Fast /\ Scanned(f.seg, f.pos)' => Carried(f)' \/ Excused(f)'
    BY <2>1, <2>2, <2>3, <2>5, <2>6
  <2> QED
    BY <2>1, <2>7, <1>1 DEF f
<1>10. OverwrittenPlace'
  BY <1>1, <1>3 DEF Placed, OverwrittenPlace
<1>11. LoadsAreGood'
  <2>1. \A f : GoodLoad(f) => GoodLoad(f)'
    BY <1>1 DEF GoodLoad, IsSameInMem, Tombstone
  <2>2. ASSUME IsSameInMem(Looked), ~Tombstone(Looked)
        PROVE  GoodLoad(Looked)
    <3> DEFINE k == KeyOf[Looked.write]
    <3>1. /\ index[k] # NoEntry /\ index[k].vol = Fast /\ index[k].seg = s1 /\ index[k].pos = p
          /\ k \in Keys
      BY <1>2, <1>5, <2>2, MigrateAssumption DEF IsSameInMem, Entries
    <3>2. index[k].write = Looked.write
      <4> SUFFICES ASSUME index[k].write # Looked.write PROVE FALSE
        OBVIOUS
      <4>1. \E c \in Batches : batch[c].at = "update" /\ batch[c].seg = s1 /\ batch[c].next <= p
        BY <1>1, <1>3, <1>5, <3>1 DEF Placed, OverwrittenPlace
      <4> QED
        BY <1>3, <1>5, <4>1, HouseFacts, SegTypes DEF Unindexed
    <3> QED
      BY <1>1, <1>5, <2>2, <3>2 DEF GoodLoad
  <2>3. \A i \in DOMAIN m : GoodLoad(m[i]) /\ m[i].seg = s1 /\ m[i].pos < p + 1
    <3> SUFFICES ASSUME NEW i \in DOMAIN m
                 PROVE  GoodLoad(m[i]) /\ m[i].seg = s1 /\ m[i].pos < p + 1
      OBVIOUS
    <3>1. CASE i \in DOMAIN l /\ m[i] = l[i]
      <4>1. GoodLoad(l[i]) /\ l[i].seg = s1 /\ l[i].pos < p
        BY <1>1, <1>3, <3>1 DEF Placed, LoadsAreGood, l, s1, p
      <4>2. l[i].pos \in Nat
        <5>1. l[i] \in Entries
          BY <1>2, <3>1, ElementOfSeq
        <5> QED
          BY <5>1 DEF Entries
      <4> QED
        BY <1>5, <3>1, <4>1, <4>2
    <3>2. CASE m[i] = Looked /\ IsSameInMem(Looked) /\ ~Tombstone(Looked)
      BY <1>5, <2>2, <3>2
    <3> QED
      BY <1>6, <3>1, <3>2
  <2>4. \A i \in DOMAIN mig.list :
          GoodLoad(mig.list[i]) /\ \E j \in DOMAIN mig.frees : mig.frees[j] = mig.list[i].seg
    BY <1>1, <1>3 DEF Placed, LoadsAreGood
  <2>5. mig'.at = "load" => \A i \in DOMAIN mig'.loaded :
          /\ GoodLoad(mig.loaded[i])' /\ mig'.cands # <<>>
          /\ mig'.loaded[i].seg = mig'.cands[1] /\ mig'.loaded[i].pos < mig'.pos
    <3> SUFFICES ASSUME NEW i \in DOMAIN m
                 PROVE  /\ GoodLoad(mig.loaded[i])' /\ mig'.cands # <<>>
                        /\ mig'.loaded[i].seg = mig'.cands[1] /\ mig'.loaded[i].pos < mig'.pos
      BY DEF m
    <3>1. PICK f : f = m[i] /\ GoodLoad(f)
      BY <2>3
    <3>2. GoodLoad(f)'
      BY <2>1, <3>1
    <3>3. GoodLoad(mig.loaded[i])'
      BY <3>1, <3>2 DEF m, GoodLoad, IsSameInMem, Tombstone
    <3> QED
      BY <1>1, <2>3, <3>3 DEF m, s1
  <2>6. \A i \in DOMAIN mig'.list :
          /\ GoodLoad(mig.list[i])'
          /\ \E j \in DOMAIN mig'.frees : mig'.frees[j] = mig'.list[i].seg
    BY <1>1, <2>1, <2>4 DEF GoodLoad, IsSameInMem, Tombstone
  <2> QED
    BY <1>1, <2>5, <2>6 DEF LoadsAreGood
<1>12. CopiesAreThere'
  BY <1>1 DEF CopiesAreThere
<1> QED
  BY <1>8, <1>9, <1>10, <1>11, <1>12 DEF Placed

(* A step of a migration that leaves index, records and segments alone: it *)
(* must not lose what it carries.                                          *)
LEMMA CarriedHouse ==
  ASSUME HouseInv, Placed, UNCHANGED <<segTable, content, medium, index, batch, slips>>,
         \A s \in Segs : \A n \in DOMAIN content[s] : Scanned(s, n)' => Scanned(s, n),
         \A k \in Keys : index[k] # NoEntry /\ ~Excused(index[k]) /\ Carried(index[k])
           /\ index[k].vol = Fast /\ Scanned(index[k].seg, index[k].pos)' => Carried(index[k])'
  PROVE  WritersPlace' /\ EntriesPlace' /\ OverwrittenPlace'
<1>1. WritersPlace'
  <2> SUFFICES ASSUME NEW c \in Batches, batch[c].at = "update"
               PROVE  \A n \in DOMAIN Items[c] : Scanned(batch[c].seg, n)' => n < batch[c].next
    BY DEF Placed, WritersPlace
  <2>1. PICK s \in Segs : s = batch[c].seg /\ s = batch'[c].seg /\ content[s] = Items[c]
    BY HouseFacts DEF Placed, WritersPlace
  <2>2. \A n \in DOMAIN Items[c] : Scanned(s, n)' => n < batch[c].next
    BY <2>1 DEF Placed, WritersPlace
  <2> QED
    BY <2>1, <2>2 DEF Scanned
<1>2. EntriesPlace'
  <2> SUFFICES ASSUME NEW k \in Keys, index[k] # NoEntry
               PROVE  /\ KeyOf[index[k].write] = k
                      /\ Housed(index[k])' \/ Excused(index[k])'
                      /\ index[k].vol = Fast /\ Scanned(index[k].seg, index[k].pos)' =>
                           Carried(index[k])' \/ Excused(index[k])'
    BY DEF EntriesPlace
  <2>1. /\ KeyOf[index[k].write] = k
        /\ Housed(index[k]) \/ Excused(index[k])
        /\ index[k].vol = Fast /\ Scanned(index[k].seg, index[k].pos) =>
             Carried(index[k]) \/ Excused(index[k])
    BY DEF Placed, EntriesPlace
  <2>2. /\ Housed(index[k]) => Housed(index[k])'
        /\ Excused(index[k]) => Excused(index[k])'
    BY DEF Housed, RecordsAt, Excused, Tombstone
  <2>3. ASSUME index[k].vol = Fast, Scanned(index[k].seg, index[k].pos)', ~Excused(index[k])
        PROVE  Carried(index[k])'
    <3>1. index[k].pos \in DOMAIN content[index[k].seg] /\ index[k].seg \in Segs
      BY <2>1, <2>3, HouseFacts DEF Housed, RecordsAt
    <3>2. PICK s \in Segs : s = index[k].seg /\ s = index'[k].seg
      BY <3>1
    <3>3. PICK n : n = index[k].pos /\ n = index'[k].pos
      OBVIOUS
    <3>4. Scanned(s, n)'
      BY <2>3, <3>2, <3>3 DEF Scanned
    <3>5. Scanned(index[k].seg, index[k].pos)
      BY <3>1, <3>2, <3>3, <3>4
    <3> QED
      BY <2>1, <2>3, <3>5
  <2> QED
    BY <2>1, <2>2, <2>3
<1>3. OverwrittenPlace'
  BY DEF Placed, OverwrittenPlace
<1> QED
  BY <1>1, <1>2, <1>3

(* The end of a candidate.                                                 *)
LEMMA PackHouse ==
  ASSUME HouseInv, ~Spoiled', PackCandidate
  PROVE  Placed'
<1> DEFINE cs == mig.cands
           fs == mig.frees
           os == mig.loaded
           ls == mig.list
           p == mig.pos
<1>1. /\ mig.at = "load" /\ cs # <<>> /\ cs[1] \in Segs /\ p \notin DOMAIN content[cs[1]]
      /\ mig'.loaded = <<>> /\ mig'.pos = 1 /\ mig'.at = "load"
      /\ \/ mig'.list = ls \o os /\ mig'.frees = Append(fs, cs[1]) /\ mig'.cands = Tail(cs)
         \/ mig'.list = ls /\ mig'.frees = fs /\ mig'.cands = <<>>
      /\ UNCHANGED <<segTable, content, medium, index, batch, slips>>
  BY HouseFacts, PackTyped DEF segVars, OthersKeep
<1>2. Placed
  BY <1>1, StillUnspoiled, HouseFacts
<1>3. /\ cs \in Seq(Segs) /\ fs \in Seq(Segs) /\ os \in Seq(Entries) /\ ls \in Seq(Entries)
      /\ p \in Nat \ {0}
  BY HouseFacts, SegTypes
<1>4. \A n \in DOMAIN content[cs[1]] : n < p
  <2>1. content[cs[1]] \in Seq(Writes)
    <3>1. content \in [Segs -> Seq(Writes)]
      BY HouseFacts DEF TypeOK
    <3> QED
      BY <1>1, <3>1
  <2> QED
    BY <1>1, <1>3, <2>1
<1>5. /\ \A j \in DOMAIN fs : fs[j] # cs[1]
      /\ \A i \in DOMAIN os : GoodLoad(os[i]) /\ os[i].seg = cs[1]
      /\ \A i \in DOMAIN ls : GoodLoad(ls[i]) /\ \E j \in DOMAIN fs : fs[j] = ls[i].seg
  <2>1. 1 \in DOMAIN cs
    BY <1>1, <1>3
  <2> QED
    BY <1>1, <1>2, <2>1, HouseFacts DEF Placed, LoadsAreGood, SegInv, MigrationSegs
<1>6. \A f : GoodLoad(f) => GoodLoad(f)'
  BY <1>1 DEF GoodLoad, IsSameInMem, Tombstone
<1>7. CASE mig'.list = ls \o os /\ mig'.frees = Append(fs, cs[1]) /\ mig'.cands = Tail(cs)
  <2> DEFINE ln == mig'.list
             fn == mig'.frees
  <2>1. /\ DOMAIN fs \subseteq DOMAIN fn /\ \A j \in DOMAIN fs : fn[j] = fs[j]
        /\ \E j \in DOMAIN fn : fn[j] = cs[1]
        /\ \A j \in DOMAIN fn : (j \in DOMAIN fs /\ fn[j] = fs[j]) \/ fn[j] = cs[1]
    <3> HIDE DEF fs, fn, cs
    <3>1. fn = Append(fs, cs[1])
      BY <1>7 DEF fn
    <3>2. /\ DOMAIN fs = 1 .. Len(fs) /\ Len(fs) \in Nat /\ DOMAIN fn = 1 .. Len(fs) + 1
          /\ fn[Len(fs) + 1] = cs[1] /\ \A i \in DOMAIN fs : fn[i] = fs[i]
      BY <1>1, <1>3, <3>1
    <3>3. Len(fs) + 1 \in DOMAIN fn /\ DOMAIN fs \subseteq DOMAIN fn
      BY <3>2
    <3>4. \A i \in DOMAIN fn : i \in DOMAIN fs \/ i = Len(fs) + 1
      BY <3>2
    <3> QED
      BY <3>2, <3>3, <3>4
  <2>2. /\ \A i \in DOMAIN ls : \E j \in DOMAIN ln : ln[j] = ls[i]
        /\ \A i \in DOMAIN os : \E j \in DOMAIN ln : ln[j] = os[i]
        /\ \A j \in DOMAIN ln : \/ \E i \in DOMAIN ls : ln[j] = ls[i]
                                \/ \E i \in DOMAIN os : ln[j] = os[i]
    <3> HIDE DEF ls, os, ln
    <3>1. ln = ls \o os
      BY <1>7 DEF ln
    <3>2. /\ DOMAIN ls = 1 .. Len(ls) /\ Len(ls) \in Nat
          /\ DOMAIN os = 1 .. Len(os) /\ Len(os) \in Nat
          /\ DOMAIN ln = 1 .. Len(ls) + Len(os)
          /\ \A i \in DOMAIN ls : ln[i] = ls[i]
          /\ \A i \in DOMAIN os : ln[Len(ls) + i] = os[i]
      BY <1>3, <3>1
    <3> HIDE <1>7, <1>1, <3>1
    <3>3. \A i \in DOMAIN ls : i \in DOMAIN ln
      BY <3>2
    <3>4. \A i \in DOMAIN os : Len(ls) + i \in DOMAIN ln
      BY <3>2
    <3>5. ASSUME NEW j \in DOMAIN ln
          PROVE  \/ \E i \in DOMAIN ls : ln[j] = ls[i]
                 \/ \E i \in DOMAIN os : ln[j] = os[i]
      <4>1. CASE j <= Len(ls)
        BY <3>2, <4>1
      <4>2. CASE ~(j <= Len(ls))
        <5>1. j - Len(ls) \in DOMAIN os /\ Len(ls) + (j - Len(ls)) = j
          BY <3>2, <4>2
        <5> QED
          BY <3>2, <5>1
      <4> QED
        BY <4>1, <4>2
    <3> QED
      BY <3>2, <3>3, <3>4, <3>5
  <2>3. \A s \in Segs : \A n \in DOMAIN content[s] : Scanned(s, n)' => Scanned(s, n)
    <3> SUFFICES ASSUME NEW s \in Segs, NEW n \in DOMAIN content[s], Scanned(s, n)'
                 PROVE  Scanned(s, n)
      OBVIOUS
    <3>1. n \in Nat \ {0}
      <4>1. content \in [Segs -> Seq(Writes)]
        BY HouseFacts DEF TypeOK
      <4>2. content[s] \in Seq(Writes)
        BY <4>1
      <4> QED
        BY <4>2
    <3>2. \E j \in DOMAIN fn : fn[j] = s
      BY <1>1, <3>1 DEF Scanned, fn
    <3> QED
      BY <1>1, <1>4, <2>1, <3>2 DEF Scanned, cs, fs, p
  <2>4. \A k \in Keys : Carried(index[k]) => Carried(index[k])'
    <3> SUFFICES ASSUME NEW k \in Keys, Carried(index[k]) PROVE Carried(index[k])'
      OBVIOUS
    <3>1. \/ \E i \in DOMAIN os : SameAddress(os[i], index[k])
          \/ \E i \in DOMAIN ls : SameAddress(ls[i], index[k])
      BY <1>1 DEF Carried
    <3>2. \E j \in DOMAIN ln : SameAddress(ln[j], index[k])
      BY <2>2, <3>1
    <3> QED
      BY <1>1, <3>2 DEF Carried, SameAddress, ln
  <2>5. LoadsAreGood'
    <3>1. \A j \in DOMAIN ln : GoodLoad(ln[j]) /\ \E i \in DOMAIN fn : fn[i] = ln[j].seg
      BY <1>5, <2>1, <2>2
    <3>2. \A j \in DOMAIN ln : GoodLoad(mig.list[j])'
      <4> SUFFICES ASSUME NEW j \in DOMAIN ln PROVE GoodLoad(mig.list[j])'
        OBVIOUS
      <4>1. PICK f : f = ln[j] /\ GoodLoad(f)
        BY <3>1
      <4> QED
        BY <1>6, <4>1 DEF ln, GoodLoad, IsSameInMem, Tombstone
    <3>3. DOMAIN mig'.loaded = {}
      BY <1>1
    <3> QED
      BY <1>1, <3>1, <3>2, <3>3 DEF LoadsAreGood, ln, fn
  <2> QED
    BY <1>1, <1>2, <2>3, <2>4, <2>5, CarriedHouse DEF Placed, CopiesAreThere
<1>8. CASE mig'.list = ls /\ mig'.frees = fs /\ mig'.cands = <<>>
  <2>1. \A s, n : Scanned(s, n)' => \E j \in DOMAIN fs : fs[j] = s
    BY <1>8 DEF Scanned
  <2>2. \A k \in Keys : Carried(index[k]) /\ Scanned(index[k].seg, index[k].pos)'
          => Carried(index[k])'
    <3> SUFFICES ASSUME NEW k \in Keys, Carried(index[k]), Scanned(index[k].seg, index[k].pos)'
                 PROVE  Carried(index[k])'
      OBVIOUS
    <3>1. \E j \in DOMAIN fs : fs[j] = index[k].seg
      BY <1>1, <1>8 DEF Scanned
    <3>2. \A i \in DOMAIN os : ~SameAddress(os[i], index[k])
      BY <1>5, <3>1 DEF SameAddress
    <3>3. \E i \in DOMAIN ls : SameAddress(ls[i], index[k])
      BY <1>1, <3>2 DEF Carried
    <3> QED
      BY <1>1, <1>8, <3>3 DEF Carried, SameAddress
  <2>3. LoadsAreGood'
    <3>1. DOMAIN mig'.loaded = {}
      BY <1>1
    <3>2. \A j \in DOMAIN ls : GoodLoad(mig.list[j])'
      BY <1>1, <1>5, <1>8, LoadsStay
    <3> QED
      BY <1>1, <1>5, <1>8, <3>1, <3>2 DEF LoadsAreGood
  <2> QED
    BY <1>1, <1>2, <2>1, <2>2, <2>3, CarriedHouse DEF Placed, CopiesAreThere, Scanned
<1> QED
  BY <1>1, <1>7, <1>8

(* The copies are written to a new segment of the medium volume.           *)
LEMMA WriteMigratedHouse ==
  ASSUME HouseInv, ~Spoiled', WriteMigrated
  PROVE  Placed'
<1> DEFINE v0 == mig.vol
           m0 == medium[v0]
           m1 == medium'[v0]
<1>1. /\ mig.at = "load" /\ mig.cands = <<>> /\ v0 \in MediumVols
      /\ mig'.at = "lock" /\ mig'.vol = v0 /\ mig'.cands = <<>> /\ mig'.pos = mig.pos
      /\ mig'.loaded = mig.loaded /\ mig'.list = mig.list /\ mig'.frees = mig.frees
      /\ m1 = Append(m0, [records |-> Copies, death |-> 0])
      /\ \A v \in MediumVols : v # v0 => medium'[v] = medium[v]
      /\ UNCHANGED <<segTable, content, index, batch, slips>>
  BY HouseFacts, WriteMigratedTyped DEF segVars, history
<1>2. Placed
  BY <1>1, StillUnspoiled, HouseFacts
<1>3. /\ DOMAIN m0 \subseteq DOMAIN m1 /\ \A s \in DOMAIN m0 : m1[s] = m0[s]
      /\ Len(m1) > 0 /\ m1[Len(m1)].records = Copies
  <2>1. medium \in [MediumVols -> Seq([records : Seq(Writes), death : Nat])]
    BY HouseFacts DEF TypeOK
  <2>2. m0 \in Seq([records : Seq(Writes), death : Nat])
    BY <1>1, <2>1
  <2>3. Copies \in Seq(Writes)
    BY HouseFacts, WriteMigratedTyped
  <2> DEFINE x == [records |-> Copies, death |-> 0]
  <2>4. x \in [records : Seq(Writes), death : Nat] /\ x.records = Copies
    BY <2>3
  <2>5. m1 = Append(m0, x)
    BY <1>1
  <2> HIDE DEF m0, m1, x, Copies
  <2>6. /\ Len(m0) \in Nat /\ DOMAIN m0 = 1 .. Len(m0) /\ Len(m1) = Len(m0) + 1
        /\ DOMAIN m1 = 1 .. Len(m0) + 1
        /\ \A s \in DOMAIN m0 : m1[s] = m0[s]
        /\ m1[Len(m0) + 1] = x
    BY <2>2, <2>4, <2>5
  <2> QED
    BY <2>4, <2>6
<1>4. /\ mig.pos = 1 /\ DOMAIN mig.loaded = {}
      /\ \A i \in DOMAIN mig.list :
           GoodLoad(mig.list[i]) /\ \E j \in DOMAIN mig.frees : mig.frees[j] = mig.list[i].seg
  BY <1>1, <1>2 DEF Placed, LoadsAreGood
<1> HIDE DEF m0, m1
<1>5. WritersPlace'
  BY <1>1, <1>2, HouseFacts DEF Placed, WritersPlace, Scanned
<1>6. EntriesPlace'
  <2> SUFFICES ASSUME NEW k \in Keys, index[k] # NoEntry
               PROVE  /\ KeyOf[index[k].write] = k
                      /\ Housed(index[k])' \/ Excused(index[k])'
                      /\ index[k].vol = Fast /\ Scanned(index[k].seg, index[k].pos)' =>
                           Carried(index[k])' \/ Excused(index[k])'
    BY <1>1 DEF EntriesPlace
  <2>1. /\ KeyOf[index[k].write] = k
        /\ Housed(index[k]) \/ Excused(index[k])
        /\ index[k].vol = Fast /\ Scanned(index[k].seg, index[k].pos) =>
             Carried(index[k]) \/ Excused(index[k])
        /\ index[k] \in Entries /\ (index[k].vol = Fast => index[k].seg \in Segs)
    BY <1>2, HouseFacts DEF Placed, EntriesPlace
  <2>2. Housed(index[k]) => Housed(index[k])'
    <3>1. \A e \in Entries : Housed(e) /\ (e.vol = Fast => e.seg \in Segs) => Housed(e)'
      <4> SUFFICES ASSUME NEW e \in Entries, Housed(e), e.vol = Fast => e.seg \in Segs
                   PROVE  Housed(e)'
        OBVIOUS
      <4>1. e.vol # Fast => e.vol \in MediumVols
        BY DEF Entries
      <4>2. e.vol # Fast /\ e.seg \in DOMAIN medium[e.vol] =>
              /\ e.seg \in DOMAIN medium'[e.vol]
              /\ medium'[e.vol][e.seg] = medium[e.vol][e.seg]
        BY <1>1, <1>3, <4>1 DEF m0, m1
      <4> QED
        BY <1>1, <4>2, HouseFacts, HousedStays
    <3>2. PICK e \in Entries : e = index[k] /\ e = index'[k]
      BY <1>1, <2>1
    <3> QED
      BY <2>1, <3>1, <3>2 DEF Housed, RecordsAt
  <2>3. Excused(index[k]) => Excused(index[k])'
    BY <1>1 DEF Excused, Tombstone
  <2>4. Scanned(index[k].seg, index[k].pos)' => Scanned(index[k].seg, index[k].pos)
    BY <1>1 DEF Scanned
  <2>5. Carried(index[k]) => Carried(index[k])'
    BY <1>1, <1>4 DEF Carried, SameAddress
  <2> QED
    BY <2>1, <2>2, <2>3, <2>4, <2>5
<1>7. OverwrittenPlace'
  BY <1>1, <1>2 DEF Placed, OverwrittenPlace
<1>8. LoadsAreGood'
  <2>1. \A i \in DOMAIN mig.list : GoodLoad(mig.list[i])'
    BY <1>1, <1>4, LoadsStay
  <2> QED
    BY <1>1, <1>4, <2>1 DEF LoadsAreGood
<1>9. CopiesAreThere'
  BY <1>1, <1>3 DEF CopiesAreThere, Copies, m1
<1> QED
  BY <1>5, <1>6, <1>7, <1>8, <1>9 DEF Placed

(* The index is locked for the copies, and released when all are done.     *)
LEMMA LockHouse ==
  ASSUME HouseInv, ~Spoiled', LockBatchMtx \/ IndexUpdated
  PROVE  Placed'
<1>1. /\ \/ mig.at = "lock" /\ mig'.at = "test"
         \/ mig.at = "test" /\ mig'.at = "free" /\ mig.pos \notin DOMAIN mig.list
      /\ mig'.vol = mig.vol /\ mig'.cands = mig.cands /\ mig'.pos = mig.pos
      /\ mig'.loaded = mig.loaded /\ mig'.list = mig.list /\ mig'.frees = mig.frees
      /\ UNCHANGED <<segTable, content, medium, index, batch, slips>>
  BY HouseFacts, LockTyped DEF segVars, OthersKeep
<1>2. Placed
  BY <1>1, StillUnspoiled, HouseFacts
<1>3. \A s, n : Scanned(s, n)' => Scanned(s, n)
  BY <1>1 DEF Scanned
<1>4. DOMAIN mig.list = 1 .. Len(mig.list) /\ Len(mig.list) \in Nat /\ mig.pos \in Nat \ {0}
  BY HouseFacts, SegTypes
<1>5. \A k \in Keys : Carried(index[k]) => Carried(index[k])'
  <2>1. CASE mig.at = "lock" /\ mig'.at = "test"
    <3>1. \A i \in DOMAIN mig.list : i >= mig.pos
      BY <1>2, <1>4, <2>1 DEF Placed, LoadsAreGood
    <3> QED
      BY <1>1, <2>1, <3>1 DEF Carried, SameAddress
  <2>2. CASE mig.at = "test" /\ mig'.at = "free" /\ mig.pos \notin DOMAIN mig.list
    <3>1. \A i \in DOMAIN mig.list : ~(i >= mig.pos)
      BY <1>4, <2>2
    <3> QED
      BY <2>2, <3>1 DEF Carried
  <2> QED
    BY <1>1, <2>1, <2>2
<1>6. WritersPlace' /\ EntriesPlace' /\ OverwrittenPlace'
  BY <1>1, <1>2, <1>3, <1>5, CarriedHouse
<1>7. LoadsAreGood'
  <2>1. \A i \in DOMAIN mig.list :
          GoodLoad(mig.list[i]) /\ \E j \in DOMAIN mig.frees : mig.frees[j] = mig.list[i].seg
    BY <1>1, <1>2 DEF Placed, LoadsAreGood
  <2>2. \A i \in DOMAIN mig.list : GoodLoad(mig.list[i])'
    BY <1>1, <2>1, LoadsStay
  <2> QED
    BY <1>1, <2>1, <2>2 DEF LoadsAreGood
<1>8. CopiesAreThere'
  BY <1>1, <1>2 DEF Placed, CopiesAreThere, Copies
<1> QED
  BY <1>6, <1>7, <1>8 DEF Placed

(* A copy is tested, and taken or given up.                                *)
LEMMA TestHouse ==
  ASSUME HouseInv, ~Spoiled', TestSame
  PROVE  Placed'
<1>1. /\ mig.at = "test" /\ mig.pos \in DOMAIN mig.list
      /\ mig'.vol = mig.vol /\ mig'.cands = mig.cands
      /\ mig'.loaded = mig.loaded /\ mig'.list = mig.list /\ mig'.frees = mig.frees
      /\ \/ IsSameInMem(BeforeGC) /\ mig'.at = "put" /\ mig'.pos = mig.pos
         \/ ~IsSameInMem(BeforeGC) /\ mig'.at = "test" /\ mig'.pos = mig.pos + 1
      /\ UNCHANGED <<content, index, batch, slips>>
  BY HouseFacts, TestTyped DEF OthersKeep
<1>2. /\ \A s \in Segs : segTable'[s].state = segTable[s].state
      /\ \A v \in MediumVols :
           /\ DOMAIN medium'[v] = DOMAIN medium[v] /\ Len(medium'[v]) = Len(medium[v])
           /\ \A s \in DOMAIN medium[v] : medium'[v][s].records = medium[v][s].records
  BY HouseFacts, DeathEffect
<1>3. Placed
  BY <1>1, StillUnspoiled, HouseFacts
<1>4. /\ GoodLoad(BeforeGC) /\ mig.pos \in Nat /\ DOMAIN mig.list \subseteq Nat
  BY <1>1, <1>3, HouseFacts, SegTypes DEF Placed, LoadsAreGood, BeforeGC
<1>5. WritersPlace'
  BY <1>1, <1>2, <1>3, HouseFacts DEF Placed, WritersPlace, Scanned
<1>6. EntriesPlace'
  <2> SUFFICES ASSUME NEW k \in Keys, index[k] # NoEntry
               PROVE  /\ KeyOf[index[k].write] = k
                      /\ Housed(index[k])' \/ Excused(index[k])'
                      /\ index[k].vol = Fast /\ Scanned(index[k].seg, index[k].pos)' =>
                           Carried(index[k])' \/ Excused(index[k])'
    BY <1>1 DEF EntriesPlace
  <2>1. /\ KeyOf[index[k].write] = k
        /\ Housed(index[k]) \/ Excused(index[k])
        /\ index[k].vol = Fast /\ Scanned(index[k].seg, index[k].pos) =>
             Carried(index[k]) \/ Excused(index[k])
        /\ index[k] \in Entries /\ (index[k].vol = Fast => index[k].seg \in Segs)
    BY <1>3, HouseFacts DEF Placed, EntriesPlace
  <2>2. Housed(index[k]) => Housed(index[k])'
    <3>1. \A e \in Entries : Housed(e) /\ (e.vol = Fast => e.seg \in Segs) => Housed(e)'
      BY <1>1, <1>2, AllHousedStay
    <3>2. PICK e \in Entries : e = index[k] /\ e = index'[k]
      BY <1>1, <2>1
    <3> QED
      BY <2>1, <3>1, <3>2 DEF Housed, RecordsAt
  <2>3. Excused(index[k]) => Excused(index[k])'
    BY <1>1 DEF Excused, Tombstone
  <2>4. Scanned(index[k].seg, index[k].pos)' => Scanned(index[k].seg, index[k].pos)
    BY <1>1 DEF Scanned
  <2>5. ASSUME Carried(index[k]), ~Excused(index[k])
        PROVE  Carried(index[k])'
    <3>1. PICK i \in DOMAIN mig.list : i >= mig.pos /\ SameAddress(mig.list[i], index[k])
      BY <1>1, <2>5 DEF Carried
    <3>2. i = mig.pos => IsSameInMem(BeforeGC)
      <4> SUFFICES ASSUME i = mig.pos PROVE IsSameInMem(BeforeGC)
        OBVIOUS
      <4>1. SameAddress(BeforeGC, index[k])
        BY <3>1 DEF BeforeGC
      <4>2. BeforeGC.vol = Fast /\ content[BeforeGC.seg][BeforeGC.pos] = BeforeGC.write
        BY <1>4 DEF GoodLoad
      <4> QED
        BY <1>3, <2>5, <4>1, <4>2, AddressesAgree
    <3>3. mig'.at \in {"test", "put"} /\ i >= mig'.pos
      BY <1>1, <1>4, <3>1, <3>2
    <3> QED
      BY <1>1, <3>1, <3>3 DEF Carried, SameAddress
  <2> QED
    BY <2>1, <2>2, <2>3, <2>4, <2>5
<1>7. OverwrittenPlace'
  BY <1>1, <1>3 DEF Placed, OverwrittenPlace
<1>8. LoadsAreGood'
  <2>1. \A i \in DOMAIN mig.list :
          GoodLoad(mig.list[i]) /\ \E j \in DOMAIN mig.frees : mig.frees[j] = mig.list[i].seg
    BY <1>1, <1>3 DEF Placed, LoadsAreGood
  <2>2. \A i \in DOMAIN mig.list : GoodLoad(mig.list[i])'
    BY <1>1, <2>1 DEF GoodLoad, IsSameInMem, Tombstone
  <2> QED
    BY <1>1, <2>1, <2>2 DEF LoadsAreGood
<1>9. CopiesAreThere'
  <2>1. mig.vol \in MediumVols
    BY HouseFacts, SegTypes
  <2>2. medium \in [MediumVols -> Seq([records : Seq(Writes), death : Nat])]
    BY HouseFacts DEF TypeOK
  <2>3. Len(medium[mig.vol]) > 0 => Len(medium[mig.vol]) \in DOMAIN medium[mig.vol]
    BY <2>1, <2>2
  <2> QED
    BY <1>1, <1>2, <1>3, <2>1, <2>3 DEF Placed, CopiesAreThere, Copies
<1> QED
  BY <1>5, <1>6, <1>7, <1>8, <1>9 DEF Placed

(* The index takes a copy.                                                 *)
LEMMA PutHouse ==
  ASSUME HouseInv, ~Spoiled', PutMoved
  PROVE  Placed'
<1> DEFINE f == BeforeGC
           e == Moved
           k0 == KeyOf[e.write]
<1>1. /\ mig.at = "put" /\ mig.pos \in DOMAIN mig.list
      /\ mig'.at = "test" /\ mig'.pos = mig.pos + 1
      /\ mig'.vol = mig.vol /\ mig'.cands = mig.cands
      /\ mig'.loaded = mig.loaded /\ mig'.list = mig.list /\ mig'.frees = mig.frees
      /\ index' = [index EXCEPT ![k0] = e]
      /\ slips' = IF IsSameInMem(f) THEN slips ELSE slips \cup {"overtaken"}
      /\ UNCHANGED <<content, batch>>
  BY HouseFacts, PutTyped DEF OthersKeep
<1>2. IsSameInMem(f) /\ slips' = slips
  BY <1>1 DEF Spoiled
<1>3. /\ \A s \in Segs : segTable'[s].state = segTable[s].state
      /\ \A v \in MediumVols :
           /\ DOMAIN medium'[v] = DOMAIN medium[v] /\ Len(medium'[v]) = Len(medium[v])
           /\ \A s \in DOMAIN medium[v] : medium'[v][s].records = medium[v][s].records
  BY HouseFacts, DeathEffect
<1>4. Placed
  BY <1>2, StillUnspoiled, HouseFacts
<1>5. /\ e \in Entries /\ e.write = f.write /\ e.vol = mig.vol /\ e.vol \in MediumVols
      /\ e.seg = Len(medium[mig.vol]) /\ e.pos = mig.pos /\ k0 \in Keys
  BY <1>1, HouseFacts, MovedTyped
<1>6. GoodLoad(f) /\ mig.pos \in Nat /\ DOMAIN mig.list \subseteq Nat /\ e.vol # Fast
      /\ f = mig.list[mig.pos]
  <2>1. e.vol # Fast
    BY <1>5, MigrateAssumption DEF MediumVols, Fast
  <2>2. mig.pos \in Nat /\ DOMAIN mig.list \subseteq Nat
    BY HouseFacts, SegTypes
  <2>3. f = mig.list[mig.pos] /\ GoodLoad(f)
    BY <1>1, <1>4 DEF Placed, LoadsAreGood, BeforeGC
  <2> QED
    BY <2>1, <2>2, <2>3
<1>7. \A k \in Keys : index'[k] = IF k = k0 THEN e ELSE index[k]
  <2>1. index \in [Keys -> MaybeEntries]
    BY HouseFacts DEF TypeOK
  <2> HIDE DEF e, k0
  <2> QED
    BY <1>1, <2>1
<1>8. /\ e.seg \in DOMAIN medium[e.vol] /\ medium[e.vol][e.seg].records = Copies
  <2>1. medium \in [MediumVols -> Seq([records : Seq(Writes), death : Nat])]
    BY HouseFacts DEF TypeOK
  <2>2. Len(medium[mig.vol]) > 0 /\ medium[mig.vol][Len(medium[mig.vol])].records = Copies
    BY <1>1, <1>4 DEF Placed, CopiesAreThere
  <2> HIDE DEF e
  <2> QED
    BY <1>5, <2>1, <2>2
<1> HIDE DEF e, k0, f
<1>9. WritersPlace'
  BY <1>1, <1>3, <1>4, HouseFacts DEF Placed, WritersPlace, Scanned
<1>10. EntriesPlace'
  <2> SUFFICES ASSUME NEW k \in Keys, index'[k] # NoEntry
               PROVE  /\ KeyOf[index'[k].write] = k
                      /\ Housed(index[k])' \/ Excused(index[k])'
                      /\ index'[k].vol = Fast /\ Scanned(index[k].seg, index[k].pos)' =>
                           Carried(index[k])' \/ Excused(index[k])'
    BY DEF EntriesPlace
  <2>1. CASE k = k0
    <3>1. index'[k] = e /\ KeyOf[e.write] = k
      BY <1>7, <2>1 DEF k0
    <3>2. /\ e.seg \in DOMAIN medium'[e.vol] /\ medium'[e.vol][e.seg].records = Copies
      BY <1>3, <1>5, <1>8
    <3>3. e.pos \in DOMAIN Copies /\ Copies[e.pos] = e.write
      BY <1>1, <1>5, <1>6 DEF Copies
    <3>4. Housed(index[k])'
      BY <1>6, <3>1, <3>2, <3>3 DEF Housed, RecordsAt
    <3> QED
      BY <1>6, <3>1, <3>4
  <2>2. CASE k # k0
    <3>1. index'[k] = index[k]
      BY <1>7, <2>2
    <3>2. /\ KeyOf[index[k].write] = k
          /\ Housed(index[k]) \/ Excused(index[k])
          /\ index[k].vol = Fast /\ Scanned(index[k].seg, index[k].pos) =>
               Carried(index[k]) \/ Excused(index[k])
          /\ index[k] \in Entries /\ (index[k].vol = Fast => index[k].seg \in Segs)
      BY <1>4, <3>1, HouseFacts DEF Placed, EntriesPlace
    <3>3. Housed(index[k]) => Housed(index[k])'
      <4>1. \A g \in Entries : Housed(g) /\ (g.vol = Fast => g.seg \in Segs) => Housed(g)'
        BY <1>1, <1>3, AllHousedStay
      <4>2. PICK g \in Entries : g = index[k] /\ g = index'[k]
        BY <3>1, <3>2
      <4> QED
        BY <3>2, <4>1, <4>2 DEF Housed, RecordsAt
    <3>4. Excused(index[k]) => Excused(index[k])'
      BY <1>2, <3>1 DEF Excused, Tombstone
    <3>5. Scanned(index[k].seg, index[k].pos)' => Scanned(index[k].seg, index[k].pos)
      BY <1>1, <3>1 DEF Scanned
    <3>6. ASSUME Carried(index[k]), ~Excused(index[k])
          PROVE  Carried(index[k])'
      <4>1. PICK i \in DOMAIN mig.list : i >= mig.pos /\ SameAddress(mig.list[i], index[k])
        BY <1>1, <3>6 DEF Carried
      <4>2. i # mig.pos
        <5> SUFFICES ASSUME i = mig.pos PROVE FALSE
          OBVIOUS
        <5>1. SameAddress(f, index[k])
          BY <1>6, <4>1
        <5>2. f.vol = Fast /\ content[f.seg][f.pos] = f.write
          BY <1>6 DEF GoodLoad
        <5>3. KeyOf[f.write] = k
          BY <1>4, <3>1, <3>6, <5>1, <5>2, AddressesAgree
        <5> QED
          BY <1>5, <2>2, <5>3 DEF k0
      <4>3. i >= mig'.pos
        BY <1>1, <1>6, <4>1, <4>2
      <4> QED
        BY <1>1, <3>1, <4>1, <4>3 DEF Carried, SameAddress
    <3> QED
      BY <3>1, <3>2, <3>3, <3>4, <3>5, <3>6
  <2> QED
    BY <2>1, <2>2
<1>11. OverwrittenPlace'
  <2> SUFFICES ASSUME NEW k \in Keys, index'[k] # NoEntry, index'[k].vol = Fast
               PROVE  index'[k] = index[k]
    BY <1>1, <1>4 DEF Placed, OverwrittenPlace
  <2> QED
    BY <1>6, <1>7
<1>12. LoadsAreGood'
  <2>1. \A g : GoodLoad(g) => GoodLoad(g)'
    <3> SUFFICES ASSUME NEW g, GoodLoad(g), IsSameInMem(g)'
                 PROVE  index'[KeyOf[g.write]].write = g.write
      BY <1>1 DEF GoodLoad, Tombstone
    <3>1. KeyOf[g.write] \in Keys
      <4>1. content \in [Segs -> Seq(Writes)]
        BY HouseFacts DEF TypeOK
      <4>2. content[g.seg] \in Seq(Writes)
        BY <4>1 DEF GoodLoad
      <4> QED
        BY <4>2, ElementOfSeq, MigrateAssumption DEF GoodLoad
    <3>2. index'[KeyOf[g.write]] = index[KeyOf[g.write]]
      BY <1>6, <1>7, <3>1 DEF IsSameInMem, GoodLoad
    <3> QED
      BY <3>2 DEF GoodLoad, IsSameInMem
  <2>2. \A i \in DOMAIN mig.list :
          GoodLoad(mig.list[i]) /\ \E j \in DOMAIN mig.frees : mig.frees[j] = mig.list[i].seg
    BY <1>1, <1>4 DEF Placed, LoadsAreGood
  <2>3. \A i \in DOMAIN mig.list : GoodLoad(mig.list[i])'
    <3> SUFFICES ASSUME NEW i \in DOMAIN mig.list PROVE GoodLoad(mig.list[i])'
      OBVIOUS
    <3>1. PICK g : g = mig.list[i] /\ g = mig'.list[i]
      BY <1>1
    <3>2. GoodLoad(g)'
      BY <2>1, <2>2, <3>1
    <3> QED
      BY <3>1, <3>2 DEF GoodLoad, IsSameInMem, Tombstone
  <2> QED
    BY <1>1, <2>2, <2>3 DEF LoadsAreGood
<1>13. CopiesAreThere'
  <2>1. Len(medium[mig.vol]) > 0 /\ medium[mig.vol][Len(medium[mig.vol])].records = Copies
    BY <1>1, <1>4 DEF Placed, CopiesAreThere
  <2> QED
    BY <1>1, <1>3, <1>5, <1>8, <2>1 DEF CopiesAreThere, Copies
<1> QED
  BY <1>9, <1>10, <1>11, <1>12, <1>13 DEF Placed

(* A segment whose records have all been moved is given back.              *)
LEMMA FreeHouse ==
  ASSUME HouseInv, ~Spoiled', FreeMigrated
  PROVE  Placed'
<1> DEFINE s1 == mig.frees[1]
<1>1. /\ mig.at = "free" /\ mig.frees # <<>> /\ s1 \in Segs /\ FreeForGC(s1)
      /\ mig'.frees = Tail(mig.frees) /\ mig'.at = "free"
      /\ UNCHANGED <<content, medium, index, batch, slips>>
  BY HouseFacts, FreeMigratedTyped DEF OthersKeep
<1>2. Placed
  BY <1>1, StillUnspoiled, HouseFacts
<1>3. \A s \in Segs : s # s1 => segTable'[s] = segTable[s]
  BY <1>1, HouseFacts, FreeTyped
<1>4. /\ \A j \in DOMAIN mig'.frees : \E i \in DOMAIN mig.frees : mig.frees[i] = mig'.frees[j]
      /\ 1 \in DOMAIN mig.frees
  <2> DEFINE fs == mig.frees
             gs == mig'.frees
  <2>1. fs \in Seq(Segs) /\ fs # <<>> /\ gs = Tail(fs)
    BY <1>1, HouseFacts, SegTypes
  <2> HIDE DEF fs, gs
  <2>2. /\ DOMAIN fs = 1 .. Len(fs) /\ Len(fs) \in Nat /\ Len(fs) > 0
        /\ DOMAIN gs = 1 .. Len(fs) - 1 /\ \A j \in DOMAIN gs : gs[j] = fs[j + 1]
    BY <2>1
  <2>3. \A j \in DOMAIN gs : j + 1 \in DOMAIN fs
    BY <2>2
  <2> QED
    BY <2>2, <2>3 DEF fs, gs
<1>5. /\ \A s, n : Scanned(s, n)' => Scanned(s, n)
      /\ \A n : Scanned(s1, n)
  BY <1>1, <1>4 DEF Scanned
<1>6. \A f : ~Carried(f)
  BY <1>1 DEF Carried
<1> HIDE DEF s1
<1>7. \A c \in Batches : batch[c].at = "update" => batch[c].seg # s1
  <2> SUFFICES ASSUME NEW c \in Batches, batch[c].at = "update", batch[c].seg = s1 PROVE FALSE
    OBVIOUS
  <2>1. batch[c].next \in DOMAIN Items[c] /\ batch[c].next \in Nat
    BY HouseFacts, SegTypes DEF TypeInv, Progress
  <2>2. batch[c].next < batch[c].next
    BY <1>2, <1>5, <2>1 DEF Placed, WritersPlace
  <2> QED
    BY <2>1, <2>2
<1>8. WritersPlace'
  <2> SUFFICES ASSUME NEW c \in Batches, batch[c].at = "update"
               PROVE  /\ content[batch[c].seg] = Items[c]
                      /\ segTable'[batch[c].seg].state = "USED"
                      /\ \A n \in DOMAIN Items[c] :
                           Scanned(batch[c].seg, n)' => n < batch[c].next
    BY <1>1 DEF WritersPlace
  <2>1. /\ content[batch[c].seg] = Items[c] /\ segTable[batch[c].seg].state = "USED"
        /\ \A n \in DOMAIN Items[c] : Scanned(batch[c].seg, n) => n < batch[c].next
        /\ batch[c].seg \in Segs /\ batch[c].seg # s1
    BY <1>2, <1>7, HouseFacts DEF Placed, WritersPlace
  <2>2. \A n \in DOMAIN Items[c] : Scanned(batch[c].seg, n)' => Scanned(batch[c].seg, n)
    BY <1>1, <1>5 DEF Scanned
  <2> QED
    BY <1>3, <2>1, <2>2
<1>9. EntriesPlace'
  <2> SUFFICES ASSUME NEW k \in Keys, index[k] # NoEntry
               PROVE  /\ KeyOf[index[k].write] = k
                      /\ Housed(index[k])' \/ Excused(index[k])'
                      /\ index[k].vol = Fast /\ Scanned(index[k].seg, index[k].pos)' =>
                           Carried(index[k])' \/ Excused(index[k])'
    BY <1>1 DEF EntriesPlace
  <2>1. /\ KeyOf[index[k].write] = k
        /\ Housed(index[k]) \/ Excused(index[k])
        /\ index[k].vol = Fast /\ Scanned(index[k].seg, index[k].pos) => Excused(index[k])
        /\ index[k].vol = Fast => index[k].seg \in Segs
    BY <1>2, <1>6, HouseFacts DEF Placed, EntriesPlace
  <2>2. Excused(index[k]) => Excused(index[k])'
    BY <1>1 DEF Excused, Tombstone
  <2>3. index[k].vol = Fast /\ index[k].seg = s1 => Excused(index[k])
    BY <1>5, <2>1
  <2>4. Housed(index[k]) /\ ~(index[k].vol = Fast /\ index[k].seg = s1) => Housed(index[k])'
    BY <1>1, <1>3, <2>1 DEF Housed, RecordsAt
  <2>5. Scanned(index[k].seg, index[k].pos)' => Scanned(index[k].seg, index[k].pos)
    BY <1>1, <1>4 DEF Scanned
  <2> QED
    BY <2>1, <2>2, <2>3, <2>4, <2>5
<1>10. OverwrittenPlace'
  BY <1>1, <1>2 DEF Placed, OverwrittenPlace
<1>11. LoadsAreGood' /\ CopiesAreThere'
  BY <1>1 DEF LoadsAreGood, CopiesAreThere
<1> QED
  BY <1>8, <1>9, <1>10, <1>11 DEF Placed

(* Every step leaves each entry at a record of its write.                  *)
LEMMA HouseStep == HouseInv /\ [Next]_vars => HouseInv'
<1> SUFFICES ASSUME HouseInv, [Next]_vars PROVE HouseInv'
  OBVIOUS
<1>1. SegInv' /\ SegInv /\ TypeInv
  BY SegStep, HouseFacts
<1>2. (~Spoiled' => Placed') => HouseInv'
  BY <1>1 DEF HouseInv, Placed
<1>3. ASSUME NEW b \in Batches, Write(b) PROVE HouseInv'
  <2>1. CASE AllocSegment(b) \/ TryAlloc(b) \/ Refuse(b) \/ PickForClient(b)
    BY <1>1, <2>1, AllocEffect, QuietHouse DEF segVars
  <2>2. CASE TakeSegment(b)
    BY <1>1, <2>2, TakeEffect, QuietHouse
  <2>3. CASE ForeMigrate(b)
    BY <1>1, <2>3, ForeEffect, QuietHouse, FreshHouse DEF segVars
  <2>4. CASE WriteSegFails(b)
    <3>1. segTable[batch[b].seg].state = "RESERVED"
      BY <1>1, <2>4, WriteFailsEffect DEF SegInv, Reserved
    <3> QED
      BY <1>1, <2>4, <3>1, WriteFailsEffect, QuietHouse
  <2>5. CASE WriteSeg(b) \/ BatchUpdate(b) \/ Reap(b)
    BY <1>2, <2>5, WriteHouse, UpdateHouse, ReapHouse
  <2> QED
    BY <1>3, <2>1, <2>2, <2>3, <2>4, <2>5 DEF Write
<1>4. CASE ThreadPicks \/ UNCHANGED vars
  <2>1. UNCHANGED <<segTable, content, medium, index, mig, slips, batch>>
    BY <1>4 DEF ThreadPicks, vars, dataVars, segVars, history
  <2> QED
    BY <1>1, <2>1, QuietHouse
<1>5. CASE BackMigrate
  <2>1. /\ UNCHANGED <<segTable, content, medium, index, slips, batch>>
        /\ StartMigration("thread", thread.vol)
    BY <1>5 DEF BackMigrate, dataVars, segVars, history
  <2> QED
    BY <1>1, <2>1, FreshHouse
<1>6. CASE MigrationFails \/ MigrationDone
  <2>1. /\ mig' = NoMigration
        /\ \A b \in Batches : batch'[b] = batch[b]
             \/ (batch[b].at = "moving" /\ batch'[b].at = "try")
        /\ UNCHANGED <<segTable, content, medium, index, slips>>
    BY <1>1, <1>6, EndTyped DEF dataVars, segVars, history
  <2> QED
    BY <1>1, <2>1, FreshHouse
<1>7. CASE LoadEntry \/ PackCandidate \/ WriteMigrated \/ LockBatchMtx \/ IndexUpdated
           \/ TestSame \/ PutMoved \/ FreeMigrated
  BY <1>2, <1>7, LoadHouse, PackHouse, WriteMigratedHouse, LockHouse, TestHouse, PutHouse,
     FreeHouse
<1> QED
  BY <1>3, <1>4, <1>5, <1>6, <1>7 DEF Next, doMigrate

(* At every step the types are right, one writer allocates, no medium      *)
(* volume gets more segments than it has, and every entry leads to its     *)
(* record in the tier it names.                                            *)
THEOREM EntriesLeadHome == Spec => []Consistent
<1>1. HouseInv => Consistent
  <2> SUFFICES ASSUME HouseInv PROVE Consistent
    OBVIOUS
  <2>1. TypeOK /\ OneInAlloc /\ MediumFits
    BY HouseFacts DEF TypeInv, Control
  <2>2. EntriesAreHoused
    <3> SUFFICES ASSUME slips \subseteq {"restamped", "tombstone"}, NEW k \in Keys,
                        index[k] # NoEntry
                 PROVE  /\ KeyOf[index[k].write] = k
                        /\ Housed(index[k]) \/ ("tombstone" \in slips /\ Tombstone(index[k]))
      BY DEF EntriesAreHoused
    <3>1. EntriesPlace
      BY HouseFacts DEF Spoiled, Placed
    <3> QED
      BY <3>1 DEF EntriesPlace, Excused
  <2> QED
    BY <2>1, <2>2 DEF Consistent
<1> QED
  BY <1>1, HouseInit, HouseStep, PTL DEF Spec

-----------------------------------------------------------------------------
(* Which write of a key is the visible one. *)

Stamped(b) == batch[b].at \in {"update", "reap", "done"}

(* Item n of batch b has been brought to the index.                        *)
Applied(b, n) ==
  \/ batch[b].at \in {"reap", "done"}
  \/ batch[b].at = "update" /\ n < batch[b].next

IsApplied(w) == \E b \in Batches : \E n \in DOMAIN Items[b] : Items[b][n] = w /\ Applied(b, n)

(* No batch that brought a write of k to the index began after w's batch   *)
(* was done.                                                               *)
NoneAfter(k, w) ==
  \A d \in Batches : \A n \in DOMAIN Items[d] :
    Applied(d, n) /\ KeyOf[Items[d][n]] = k => BatchOf(w) \notin before[d]

(* What was done before a batch began has an earlier stamp.                *)
Orders ==
  \A d \in Batches : \A b \in before[d] :
    /\ b \in Batches /\ batch[b].at = "done" /\ b # d
    /\ Stamped(d) => batch[b].stamp < batch[d].stamp

Visible(k) ==
  IF index[k] # NoEntry
  THEN IsApplied(index[k].write) /\ NoneAfter(k, index[k].write)
  ELSE \/ \A d \in Batches : \A n \in DOMAIN Items[d] :
            Applied(d, n) /\ KeyOf[Items[d][n]] = k => Items[d][n] \in Deletes
       \/ \E w \in Deletes : KeyOf[w] = k /\ IsApplied(w) /\ NoneAfter(k, w)

VisibleInv ==
  HouseInv /\ Orders /\ (slips \subseteq {"tombstone"} => \A k \in Keys : Visible(k))

(* A write belongs to the batch that holds it.                             *)
LEMMA BatchOfItem ==
  ASSUME NEW b \in Batches, NEW n \in DOMAIN Items[b]
  PROVE  BatchOf(Items[b][n]) = b
<1> DEFINE w == Items[b][n]
<1>1. \E c \in Batches : \E m \in DOMAIN Items[c] : Items[c][m] = w
  OBVIOUS
<1>2. BatchOf(w) \in Batches /\ \E m \in DOMAIN Items[BatchOf(w)] : Items[BatchOf(w)][m] = w
  BY <1>1 DEF BatchOf
<1> QED
  BY <1>2, MigrateAssumption

(* Nothing is visible in the opened store.                                 *)
LEMMA VisibleInit == Init => VisibleInv
<1> SUFFICES ASSUME Init PROVE VisibleInv
  OBVIOUS
<1>1. /\ \A b \in Batches : batch[b].at = "new" /\ before[b] = {}
      /\ \A k \in Keys : index[k] = NoEntry
  BY DEF Init, NewBatch
<1>2. \A b \in Batches : \A n \in DOMAIN Items[b] : ~Applied(b, n)
  BY <1>1 DEF Applied
<1>3. Orders
  BY <1>1 DEF Orders
<1> QED
  BY <1>1, <1>2, <1>3, HouseInit DEF VisibleInv, Visible

(* The order of stamps, while no batch is stamped or begins.               *)
LEMMA OrdersStay ==
  ASSUME Orders, UNCHANGED before,
         \A c \in Batches :
           /\ batch[c].at = "done" => batch'[c] = batch[c]
           /\ Stamped(c)' => Stamped(c) /\ batch'[c].stamp = batch[c].stamp
  PROVE  Orders'
<1> SUFFICES ASSUME NEW d \in Batches, NEW b \in before[d]
             PROVE  /\ b \in Batches /\ batch'[b].at = "done" /\ b # d
                    /\ Stamped(d)' => batch'[b].stamp < batch'[d].stamp
  BY DEF Orders
<1>1. /\ b \in Batches /\ batch[b].at = "done" /\ b # d
      /\ Stamped(d) => batch[b].stamp < batch[d].stamp
  BY DEF Orders
<1> QED
  BY <1>1

(* A step that brings nothing to the index.                                *)
LEMMA VisibleStays ==
  ASSUME VisibleInv, slips \subseteq slips', UNCHANGED index,
         \A d \in Batches : \A n \in DOMAIN Items[d] : Applied(d, n)' <=> Applied(d, n),
         \A d \in Batches : \/ before'[d] = before[d]
                            \/ \A n \in DOMAIN Items[d] : ~Applied(d, n)
  PROVE  slips' \subseteq {"tombstone"} => \A k \in Keys : Visible(k)'
<1> SUFFICES ASSUME slips' \subseteq {"tombstone"}, NEW k \in Keys PROVE Visible(k)'
  OBVIOUS
<1>1. Visible(k)
  BY DEF VisibleInv
<1>2. \A w : /\ IsApplied(w) => IsApplied(w)'
             /\ NoneAfter(k, w) => NoneAfter(k, w)'
  <2>1. \A w : IsApplied(w) => IsApplied(w)'
    BY DEF IsApplied
  <2>2. \A w : NoneAfter(k, w) => NoneAfter(k, w)'
    BY DEF NoneAfter, BatchOf
  <2> QED
    BY <2>1, <2>2
<1>3. CASE index[k] # NoEntry
  <2>1. PICK w : w = index[k].write /\ IsApplied(w) /\ NoneAfter(k, w)
    BY <1>1, <1>3 DEF Visible
  <2>2. IsApplied(w)' /\ NoneAfter(k, w)'
    BY <1>2, <2>1
  <2>3. IsApplied(index[k].write)' /\ NoneAfter(k, index[k].write)'
    BY <2>1, <2>2 DEF IsApplied, NoneAfter, BatchOf
  <2> QED
    BY <1>3, <2>3 DEF Visible
<1>4. CASE index[k] = NoEntry
  <2>1. CASE \A d \in Batches : \A n \in DOMAIN Items[d] :
               Applied(d, n) /\ KeyOf[Items[d][n]] = k => Items[d][n] \in Deletes
    BY <1>4, <2>1 DEF Visible
  <2>2. CASE \E w \in Deletes : KeyOf[w] = k /\ IsApplied(w) /\ NoneAfter(k, w)
    <3>1. PICK w \in Deletes : KeyOf[w] = k /\ IsApplied(w) /\ NoneAfter(k, w)
      BY <2>2
    <3>2. IsApplied(w)' /\ NoneAfter(k, w)'
      BY <1>2, <3>1
    <3> QED
      BY <1>4, <3>1, <3>2 DEF Visible
  <2> QED
    BY <1>1, <1>4, <2>1, <2>2 DEF Visible
<1> QED
  BY <1>3, <1>4

(* An entry of the index was made for a write of its key.                  *)
LEMMA KeysAgree ==
  ASSUME HouseInv, slips \subseteq {"tombstone"}, NEW k \in Keys, index[k] # NoEntry
  PROVE  KeyOf[index[k].write] = k
BY HouseFacts DEF Spoiled, Placed, EntriesPlace

(* A write begins: nothing of its batch is in the index.                   *)
LEMMA AllocVisible ==
  ASSUME VisibleInv, HouseInv', NEW b \in Batches, AllocSegment(b)
  PROVE  VisibleInv'
<1>1. /\ batch[b].at = "new" /\ batch'[b].at = "try"
      /\ \A c \in Batches : c # b => batch'[c] = batch[c]
      /\ before' = [before EXCEPT ![b] = Done]
      /\ UNCHANGED <<index, slips>>
  <2>1. batch \in [Batches -> BatchRecord]
    BY HouseFacts DEF VisibleInv, TypeOK
  <2> QED
    BY <2>1 DEF AllocSegment, BatchRecord, dataVars
<1>2. /\ before'[b] = Done
      /\ \A d \in Batches : d # b => before'[d] = before[d]
  <2>1. before \in [Batches -> SUBSET Batches]
    BY HouseFacts DEF VisibleInv, TypeOK
  <2> QED
    BY <1>1, <2>1
<1>3. \A d \in Batches : \A n \in DOMAIN Items[d] :
        /\ Applied(d, n)' <=> Applied(d, n)
        /\ d = b => ~Applied(d, n)
  BY <1>1 DEF Applied
<1>4. Orders'
  <2> SUFFICES ASSUME NEW d \in Batches, NEW c \in before'[d]
               PROVE  /\ c \in Batches /\ batch'[c].at = "done" /\ c # d
                      /\ Stamped(d)' => batch'[c].stamp < batch'[d].stamp
    BY DEF Orders
  <2>1. CASE d = b
    BY <1>1, <1>2, <2>1 DEF Done, Stamped
  <2>2. CASE d # b
    BY <1>1, <1>2, <2>2 DEF VisibleInv, Orders, Stamped
  <2> QED
    BY <2>1, <2>2
<1>5. slips' \subseteq {"tombstone"} => \A k \in Keys : Visible(k)'
  BY <1>1, <1>2, <1>3, VisibleStays
<1> QED
  BY <1>4, <1>5 DEF VisibleInv

(* A segment is written: its stamp is later than all others.               *)
LEMMA WriteVisible ==
  ASSUME VisibleInv, HouseInv', NEW b \in Batches, WriteSeg(b)
  PROVE  VisibleInv'
<1>1. /\ batch[b].at = "write" /\ batch'[b].at = "update" /\ batch'[b].stamp = clock'
      /\ batch'[b].next = 1 /\ clock' = clock + 1
      /\ \A c \in Batches : c # b => batch'[c] = batch[c]
      /\ UNCHANGED <<index, slips, before>>
  BY HouseFacts, WriteEffect DEF VisibleInv
<1>2. \A d \in Batches : \A n \in DOMAIN Items[d] : Applied(d, n)' <=> Applied(d, n)
  <2> SUFFICES ASSUME NEW d \in Batches, NEW n \in DOMAIN Items[d]
               PROVE  Applied(d, n)' <=> Applied(d, n)
    OBVIOUS
  <2>1. n \in Nat \ {0}
    BY MigrateAssumption
  <2> QED
    BY <1>1, <2>1 DEF Applied
<1>3. Orders'
  <2> SUFFICES ASSUME NEW d \in Batches, NEW c \in before[d]
               PROVE  /\ c \in Batches /\ batch'[c].at = "done" /\ c # d
                      /\ Stamped(d)' => batch'[c].stamp < batch'[d].stamp
    BY <1>1 DEF Orders
  <2>1. /\ c \in Batches /\ batch[c].at = "done" /\ c # d
        /\ Stamped(d) => batch[c].stamp < batch[d].stamp
    BY DEF VisibleInv, Orders
  <2>2. batch[c].stamp <= clock /\ batch[c].stamp \in Nat /\ clock \in Nat
    BY <2>1, HouseFacts, SegTypes DEF VisibleInv, SegInv, Bounded
  <2>3. c # b /\ batch'[c] = batch[c]
    BY <1>1, <2>1
  <2>4. CASE d = b
    BY <1>1, <2>1, <2>2, <2>3, <2>4
  <2>5. CASE d # b
    BY <1>1, <2>1, <2>3, <2>5 DEF Stamped
  <2> QED
    BY <2>4, <2>5
<1>4. slips' \subseteq {"tombstone"} => \A k \in Keys : Visible(k)'
  BY <1>1, <1>2, VisibleStays
<1> QED
  BY <1>3, <1>4 DEF VisibleInv

(* A step of a batch without an effect on stamps and index.                *)
LEMMA QuietVisible ==
  ASSUME VisibleInv, HouseInv', UNCHANGED <<index, before>>, slips \subseteq slips',
         \A c \in Batches :
           batch'[c] = batch[c]
             \/ (~Stamped(c) /\ ~Stamped(c)' /\ batch'[c].stamp = batch[c].stamp)
  PROVE  VisibleInv'
<1>1. \A d \in Batches : \A n \in DOMAIN Items[d] : Applied(d, n)' <=> Applied(d, n)
  BY DEF Applied, Stamped
<1>2. Orders'
  <2>1. \A c \in Batches :
          /\ batch[c].at = "done" => batch'[c] = batch[c]
          /\ Stamped(c)' => Stamped(c) /\ batch'[c].stamp = batch[c].stamp
    BY DEF Stamped
  <2> QED
    BY <2>1, OrdersStay DEF VisibleInv
<1>3. slips' \subseteq {"tombstone"} => \A k \in Keys : Visible(k)'
  BY <1>1, VisibleStays
<1> QED
  BY <1>2, <1>3 DEF VisibleInv

(* The index takes a write, or has a newer one.                            *)
LEMMA UpdateVisible ==
  ASSUME VisibleInv, HouseInv', NEW b \in Batches, BatchUpdate(b)
  PROVE  VisibleInv'
<1> DEFINE e == ItemEntry(b)
           k0 == KeyOf[e.write]
           n0 == batch[b].next
           w0 == Items[b][n0]
<1>0. HouseInv /\ TypeInv /\ TypeOK
  BY HouseFacts DEF VisibleInv
<1>1. /\ UpdateIndex(e)
      /\ batch[b].at = "update" /\ n0 \in DOMAIN Items[b]
      /\ batch'[b].stamp = batch[b].stamp
      /\ IF n0 = Len(Items[b])
         THEN batch'[b].at \in {"reap", "done"}
         ELSE batch'[b].at = "update" /\ batch'[b].next = n0 + 1
      /\ \A c \in Batches : c # b => batch'[c] = batch[c]
      /\ UNCHANGED before
  BY <1>0, BatchUpdateTyped
<1>2. /\ e.write = w0 /\ e.stamp = batch[b].stamp /\ e \in Entries
      /\ Items[b] \in Seq(Writes) /\ DOMAIN Items[b] = 1 .. Len(Items[b])
      /\ Len(Items[b]) \in Nat /\ k0 \in Keys /\ w0 \in Writes
  BY <1>0, <1>1, ItemTyped
<1>3. \A d \in Batches : \A n \in DOMAIN Items[d] :
        Applied(d, n)' <=> Applied(d, n) \/ (d = b /\ n = n0)
  <2> HIDE DEF n0
  <2>1. n0 \in Nat
    BY <1>1, <1>2
  <2>2. \A n \in DOMAIN Items[b] : Applied(b, n)' <=> Applied(b, n) \/ n = n0
    BY <1>1, <1>2, <2>1 DEF Applied, n0
  <2>3. \A d \in Batches : d # b => \A n : Applied(d, n)' <=> Applied(d, n)
    BY <1>1 DEF Applied
  <2> QED
    BY <2>2, <2>3
<1>4. Orders'
  <2>1. \A c \in Batches :
          /\ batch[c].at = "done" => batch'[c] = batch[c]
          /\ Stamped(c)' => Stamped(c) /\ batch'[c].stamp = batch[c].stamp
    BY <1>1 DEF Stamped
  <2> QED
    BY <1>1, <2>1, OrdersStay DEF VisibleInv
<1>5. /\ \A k \in Keys : k # k0 => index'[k] = index[k]
      /\ LET nothing == index[k0] = NoEntry
             expired == ~nothing /\ e.stamp < index[k0].stamp
         IN index'[k0] = IF expired \/ (nothing /\ w0 \in Deletes) THEN index[k0] ELSE e
      /\ slips' = IF DropsNewer(e, index[k0]) THEN slips \cup {"restamped"} ELSE slips
  <2>1. index \in [Keys -> MaybeEntries]
    BY <1>0 DEF TypeOK
  <2>2. /\ LET nothing == index[k0] = NoEntry
               expired == ~nothing /\ e.stamp < index[k0].stamp
           IN index' = IF expired \/ (nothing /\ w0 \in Deletes) THEN index
                       ELSE [index EXCEPT ![k0] = e]
        /\ slips' = IF DropsNewer(e, index[k0]) THEN slips \cup {"restamped"} ELSE slips
    BY <1>1, <1>2 DEF UpdateIndex, Tombstone
  <2> HIDE DEF e, k0, w0
  <2> QED
    BY <1>2, <2>1, <2>2
<1>6. k0 = KeyOf[w0] /\ BatchOf(w0) = b /\ NoEntry # e
  BY <1>1, <1>2, BatchOfItem, MigrateAssumption
<1> HIDE DEF e, k0, n0, w0
<1>7. PICK w1 : w1 = w0
  OBVIOUS
<1>8. ASSUME slips' \subseteq {"tombstone"}, NEW k \in Keys PROVE Visible(k)'
  <2>1. slips' = slips /\ ~DropsNewer(e, index[k0]) /\ Visible(k)
    BY <1>5, <1>8 DEF VisibleInv
  <2>2. \A w : IsApplied(w) => IsApplied(w)'
    BY <1>3 DEF IsApplied
  <2>3. \A w : NoneAfter(k, w) /\ (k = k0 => BatchOf(w) \notin before[b]) => NoneAfter(k, w)'
    <3> SUFFICES ASSUME NEW w, NoneAfter(k, w), k = k0 => BatchOf(w) \notin before[b],
                        NEW d \in Batches, NEW n \in DOMAIN Items[d],
                        Applied(d, n)', KeyOf[Items[d][n]] = k
                 PROVE  BatchOf(w) \notin before[d]
      <4>1. before' = before
        BY <1>1
      <4> QED
        BY <4>1 DEF NoneAfter
    <3>1. CASE Applied(d, n)
      BY <3>1 DEF NoneAfter
    <3>2. CASE d = b /\ n = n0
      BY <1>6, <3>2 DEF w0
    <3> QED
      BY <1>3, <3>1, <3>2
  <2>4. /\ IsApplied(w1)'
        /\ \A d \in Batches : b \notin before[d]
        /\ NoneAfter(k, w1)'
    <3>1. IsApplied(w1)'
      BY <1>1, <1>3, <1>7 DEF IsApplied, w0
    <3>2. \A d \in Batches : b \notin before[d]
      BY <1>1 DEF VisibleInv, Orders
    <3>3. NoneAfter(k, w1)
      BY <1>6, <1>7, <3>2 DEF NoneAfter
    <3> QED
      BY <1>6, <1>7, <2>3, <3>1, <3>2, <3>3
  <2>5. CASE index'[k] = index[k] /\ index[k] # NoEntry
    <3>1. PICK w : w = index[k].write /\ w = index'[k].write
      BY <2>5
    <3>2. IsApplied(w) /\ NoneAfter(k, w)
      BY <2>1, <2>5, <3>1 DEF Visible
    <3>3. k = k0 => BatchOf(w) \notin before[b]
      <4> SUFFICES ASSUME k = k0, BatchOf(w) \in before[b] PROVE FALSE
        OBVIOUS
      <4>1. batch[BatchOf(w)].stamp < batch[b].stamp /\ BatchOf(w) \in Batches
        BY <1>1 DEF VisibleInv, Orders, Stamped
      <4>2. \/ e.stamp < index[k].stamp
            \/ index[k] = e
        BY <1>5, <2>5
      <4>3. CASE index[k] = e
        BY <1>2, <1>6, <3>1, <4>1, <4>3, <1>0, SegTypes
      <4>4. CASE e.stamp < index[k].stamp
        <5>1. ~(e.stamp > batch[BatchOf(w)].stamp)
          BY <2>1, <2>5, <3>1, <4>4 DEF DropsNewer
        <5>2. batch[BatchOf(w)].stamp \in Nat /\ batch[b].stamp \in Nat
          BY <1>0, <4>1, SegTypes
        <5> QED
          BY <1>2, <4>1, <5>1, <5>2
      <4> QED
        BY <4>2, <4>3, <4>4
    <3>4. IsApplied(w)' /\ NoneAfter(k, w)'
      BY <2>2, <2>3, <3>2, <3>3
    <3>5. IsApplied(index[k].write)' /\ NoneAfter(k, index[k].write)'
      BY <3>1, <3>4 DEF IsApplied, NoneAfter, BatchOf
    <3> QED
      BY <2>5, <3>5 DEF Visible
  <2>6. CASE index'[k] = index[k] /\ index[k] = NoEntry /\ k # k0
    <3>1. CASE \A d \in Batches : \A n \in DOMAIN Items[d] :
                 Applied(d, n) /\ KeyOf[Items[d][n]] = k => Items[d][n] \in Deletes
      <4>1. \A d \in Batches : \A n \in DOMAIN Items[d] :
              Applied(d, n)' /\ KeyOf[Items[d][n]] = k => Applied(d, n)
        BY <1>3, <1>6, <2>6 DEF w0
      <4> QED
        BY <2>6, <3>1, <4>1 DEF Visible
    <3>2. CASE \E w \in Deletes : KeyOf[w] = k /\ IsApplied(w) /\ NoneAfter(k, w)
      <4>1. PICK w \in Deletes : KeyOf[w] = k /\ IsApplied(w) /\ NoneAfter(k, w)
        BY <3>2
      <4>2. IsApplied(w)' /\ NoneAfter(k, w)'
        BY <2>2, <2>3, <2>6, <4>1
      <4> QED
        BY <2>6, <4>1, <4>2 DEF Visible
    <3> QED
      BY <2>1, <2>6, <3>1, <3>2 DEF Visible
  <2>7. CASE k = k0 /\ index'[k] = NoEntry
    <3>1. w1 \in Deletes /\ KeyOf[w1] = k
      BY <1>5, <1>6, <1>7, <2>7
    <3> QED
      BY <2>4, <2>7, <3>1 DEF Visible
  <2>8. CASE k = k0 /\ index'[k] = e
    <3>1. index'[k].write = w1 /\ index'[k] # NoEntry
      BY <1>2, <1>6, <1>7, <2>8
    <3>2. IsApplied(index[k].write)' /\ NoneAfter(k, index[k].write)'
      BY <2>4, <3>1 DEF IsApplied, NoneAfter, BatchOf
    <3> QED
      BY <3>1, <3>2 DEF Visible
  <2> QED
    BY <1>5, <2>5, <2>6, <2>7, <2>8
<1> QED
  BY <1>4, <1>8 DEF VisibleInv

(* The reaper takes a tombstone: the delete is still the last write.       *)
LEMMA ReapVisible ==
  ASSUME VisibleInv, HouseInv', NEW b \in Batches, Reap(b)
  PROVE  VisibleInv'
<1>0. HouseInv /\ TypeInv /\ TypeOK
  BY HouseFacts DEF VisibleInv
<1>1. /\ batch[b].at = "reap" /\ batch'[b].at \in {"reap", "done"}
      /\ batch'[b].stamp = batch[b].stamp
      /\ \A c \in Batches : c # b => batch'[c] = batch[c]
      /\ UNCHANGED <<before, slips>>
  BY <1>0, ReapTyped DEF history
<1>2. \A k \in Keys : \/ index'[k] = index[k]
                      \/ /\ index[k] # NoEntry /\ Tombstone(index[k]) /\ index'[k] = NoEntry
  <2>1. index \in [Keys -> MaybeEntries]
    BY <1>0 DEF TypeOK
  <2>2. \/ index' = index
        \/ \E k : index[k] # NoEntry /\ Tombstone(index[k]) /\ index' = [index EXCEPT ![k] = NoEntry]
    BY DEF Reap
  <2> QED
    BY <2>1, <2>2
<1>3. \A d \in Batches : \A n \in DOMAIN Items[d] : Applied(d, n)' <=> Applied(d, n)
  BY <1>1 DEF Applied
<1>4. Orders'
  <2>1. \A c \in Batches :
          /\ batch[c].at = "done" => batch'[c] = batch[c]
          /\ Stamped(c)' => Stamped(c) /\ batch'[c].stamp = batch[c].stamp
    BY <1>1 DEF Stamped
  <2> QED
    BY <1>1, <2>1, OrdersStay DEF VisibleInv
<1>5. \A k, w : /\ IsApplied(w) => IsApplied(w)'
                /\ NoneAfter(k, w) => NoneAfter(k, w)'
  <2>1. \A w : IsApplied(w) => IsApplied(w)'
    BY <1>3 DEF IsApplied
  <2>2. \A k, w : NoneAfter(k, w) => NoneAfter(k, w)'
    BY <1>1, <1>3 DEF NoneAfter, BatchOf
  <2> QED
    BY <2>1, <2>2
<1>6. ASSUME slips' \subseteq {"tombstone"}, NEW k \in Keys PROVE Visible(k)'
  <2>1. Visible(k) /\ slips \subseteq {"tombstone"}
    BY <1>1, <1>6 DEF VisibleInv
  <2>2. CASE index'[k] = index[k] /\ index[k] # NoEntry
    <3>1. PICK w : w = index[k].write /\ w = index'[k].write
      BY <2>2
    <3>2. IsApplied(w)' /\ NoneAfter(k, w)'
      BY <1>5, <2>1, <2>2, <3>1 DEF Visible
    <3>3. IsApplied(index[k].write)' /\ NoneAfter(k, index[k].write)'
      BY <3>1, <3>2 DEF IsApplied, NoneAfter, BatchOf
    <3> QED
      BY <2>2, <3>3 DEF Visible
  <2>3. CASE index'[k] = index[k] /\ index[k] = NoEntry
    <3>1. CASE \A d \in Batches : \A n \in DOMAIN Items[d] :
                 Applied(d, n) /\ KeyOf[Items[d][n]] = k => Items[d][n] \in Deletes
      BY <1>3, <2>3, <3>1 DEF Visible
    <3>2. CASE \E w \in Deletes : KeyOf[w] = k /\ IsApplied(w) /\ NoneAfter(k, w)
      <4>1. PICK w \in Deletes : KeyOf[w] = k /\ IsApplied(w) /\ NoneAfter(k, w)
        BY <3>2
      <4>2. IsApplied(w)' /\ NoneAfter(k, w)'
        BY <1>5, <4>1
      <4> QED
        BY <2>3, <4>1, <4>2 DEF Visible
    <3> QED
      BY <2>1, <2>3, <3>1, <3>2 DEF Visible
  <2>4. CASE index[k] # NoEntry /\ Tombstone(index[k]) /\ index'[k] = NoEntry
    <3>1. PICK w : w = index[k].write
      OBVIOUS
    <3>2. w \in Deletes /\ KeyOf[w] = k
      BY <1>0, <2>1, <2>4, <3>1, KeysAgree DEF Tombstone
    <3>3. IsApplied(w)' /\ NoneAfter(k, w)'
      BY <1>5, <2>1, <2>4, <3>1 DEF Visible
    <3> QED
      BY <2>4, <3>2, <3>3 DEF Visible
  <2> QED
    BY <1>2, <2>2, <2>3, <2>4
<1> QED
  BY <1>4, <1>6 DEF VisibleInv

(* A migration brings a copy of the same write.                            *)
LEMMA PutVisible ==
  ASSUME VisibleInv, HouseInv', PutMoved
  PROVE  VisibleInv'
<1> DEFINE f == BeforeGC
           e == Moved
           k0 == KeyOf[e.write]
<1>0. HouseInv /\ TypeInv /\ TypeOK
  BY HouseFacts DEF VisibleInv
<1>1. /\ mig.at = "put" /\ mig.pos \in DOMAIN mig.list
      /\ index' = [index EXCEPT ![k0] = e]
      /\ slips' = IF IsSameInMem(f) THEN slips ELSE slips \cup {"overtaken"}
      /\ UNCHANGED <<batch, before>>
  BY <1>0, PutTyped DEF OthersKeep
<1>2. /\ e \in Entries /\ e.write = f.write /\ k0 \in Keys /\ NoEntry # e
  BY <1>0, <1>1, MovedTyped, MigrateAssumption
<1>3. \A k \in Keys : index'[k] = IF k = k0 THEN e ELSE index[k]
  <2>1. index \in [Keys -> MaybeEntries]
    BY <1>0 DEF TypeOK
  <2> HIDE DEF e, k0
  <2> QED
    BY <1>1, <2>1
<1>4. \A d \in Batches : \A n \in DOMAIN Items[d] : Applied(d, n)' <=> Applied(d, n)
  BY <1>1 DEF Applied
<1>5. Orders'
  BY <1>1, OrdersStay DEF VisibleInv, Stamped
<1> HIDE DEF e, k0, f
<1>6. ASSUME slips' \subseteq {"tombstone"}, NEW k \in Keys PROVE Visible(k)'
  <2>1. Visible(k) /\ slips' = slips /\ IsSameInMem(f)
    BY <1>1, <1>6 DEF VisibleInv
  <2>2. \A w : /\ IsApplied(w) => IsApplied(w)'
               /\ NoneAfter(k, w) => NoneAfter(k, w)'
    <3>1. \A w : IsApplied(w) => IsApplied(w)'
      BY <1>4 DEF IsApplied
    <3>2. \A w : NoneAfter(k, w) => NoneAfter(k, w)'
      BY <1>1, <1>4 DEF NoneAfter, BatchOf
    <3> QED
      BY <3>1, <3>2
  <2>3. /\ index[k] # NoEntry <=> index'[k] # NoEntry
        /\ index[k] # NoEntry => index'[k].write = index[k].write
    <3>1. CASE k = k0
      <4>1. GoodLoad(f)
        <5>1. LoadsAreGood
          BY <1>0, <1>6, <2>1, HouseFacts DEF Spoiled, Placed
        <5> QED
          BY <1>1, <5>1 DEF LoadsAreGood, f, BeforeGC
      <4>2. index[k] # NoEntry /\ index[k].write = f.write
        BY <1>2, <2>1, <3>1, <4>1 DEF GoodLoad, IsSameInMem, k0
      <4> QED
        BY <1>2, <1>3, <3>1, <4>2
    <3>2. CASE k # k0
      BY <1>3, <3>2
    <3> QED
      BY <3>1, <3>2
  <2>4. CASE index[k] # NoEntry
    <3>1. PICK w : w = index[k].write /\ w = index'[k].write
      BY <2>3, <2>4
    <3>2. IsApplied(w)' /\ NoneAfter(k, w)'
      BY <2>1, <2>2, <2>4, <3>1 DEF Visible
    <3>3. IsApplied(index[k].write)' /\ NoneAfter(k, index[k].write)'
      BY <3>1, <3>2 DEF IsApplied, NoneAfter, BatchOf
    <3> QED
      BY <2>3, <2>4, <3>3 DEF Visible
  <2>5. CASE index[k] = NoEntry
    <3>1. CASE \A d \in Batches : \A n \in DOMAIN Items[d] :
                 Applied(d, n) /\ KeyOf[Items[d][n]] = k => Items[d][n] \in Deletes
      BY <1>4, <2>3, <2>5, <3>1 DEF Visible
    <3>2. CASE \E w \in Deletes : KeyOf[w] = k /\ IsApplied(w) /\ NoneAfter(k, w)
      <4>1. PICK w \in Deletes : KeyOf[w] = k /\ IsApplied(w) /\ NoneAfter(k, w)
        BY <3>2
      <4>2. IsApplied(w)' /\ NoneAfter(k, w)'
        BY <2>2, <4>1
      <4> QED
        BY <2>3, <2>5, <4>1, <4>2 DEF Visible
    <3> QED
      BY <2>1, <2>5, <3>1, <3>2 DEF Visible
  <2> QED
    BY <2>4, <2>5
<1> QED
  BY <1>5, <1>6 DEF VisibleInv

(* Every step keeps the order of the writes that are visible.              *)
LEMMA VisibleStep == VisibleInv /\ [Next]_vars => VisibleInv'
<1> SUFFICES ASSUME VisibleInv, [Next]_vars PROVE VisibleInv'
  OBVIOUS
<1>1. HouseInv /\ TypeInv /\ HouseInv'
  BY HouseStep, HouseFacts DEF VisibleInv
<1>2. ASSUME NEW b \in Batches, Write(b) PROVE VisibleInv'
  <2>1. CASE TryAlloc(b) \/ Refuse(b) \/ PickForClient(b)
    <3>1. /\ batch[b].at \in {"new", "try"}
          /\ batch'[b].at \notin {"write", "update", "reap", "done"}
          /\ batch'[b].stamp = batch[b].stamp
          /\ \A c \in Batches : c # b => batch'[c] = batch[c]
          /\ UNCHANGED <<index, slips>>
      BY <1>1, <2>1, AllocEffect
    <3>2. UNCHANGED before
      BY <2>1 DEF TryAlloc, Refuse, PickForClient, history
    <3> QED
      BY <1>1, <3>1, <3>2, QuietVisible DEF Stamped
  <2>2. CASE TakeSegment(b)
    <3>1. UNCHANGED before
      BY <2>2 DEF TakeSegment, history
    <3> QED
      BY <1>1, <2>2, <3>1, TakeEffect, QuietVisible DEF Stamped
  <2>3. CASE ForeMigrate(b)
    <3>1. UNCHANGED before
      BY <2>3 DEF ForeMigrate, history
    <3> QED
      BY <1>1, <2>3, <3>1, ForeEffect, QuietVisible DEF Stamped
  <2>4. CASE WriteSegFails(b)
    <3>1. UNCHANGED before
      BY <2>4 DEF WriteSegFails, history
    <3> QED
      BY <1>1, <2>4, <3>1, WriteFailsEffect, QuietVisible DEF Stamped
  <2>5. CASE AllocSegment(b) \/ WriteSeg(b) \/ BatchUpdate(b) \/ Reap(b)
    BY <1>1, <2>5, AllocVisible, WriteVisible, UpdateVisible, ReapVisible
  <2> QED
    BY <1>2, <2>1, <2>2, <2>3, <2>4, <2>5 DEF Write
<1>3. CASE MigrationFails \/ MigrationDone
  <2>1. /\ UNCHANGED <<index, slips, before>>
        /\ \A c \in Batches : batch'[c] = batch[c]
             \/ /\ batch[c].at = "moving" /\ batch'[c].at = "try"
                /\ batch'[c].stamp = batch[c].stamp
    BY <1>1, <1>3, EndTyped DEF dataVars, history
  <2> QED
    BY <1>1, <2>1, QuietVisible DEF Stamped
<1>4. CASE PutMoved
  BY <1>1, <1>4, PutVisible
<1>5. CASE \/ LoadEntry \/ PackCandidate \/ WriteMigrated \/ LockBatchMtx \/ IndexUpdated
           \/ TestSame \/ FreeMigrated \/ BackMigrate \/ ThreadPicks \/ UNCHANGED vars
  <2>1. UNCHANGED <<index, before, batch>> /\ slips \subseteq slips'
    <3>1. CASE LoadEntry
      BY <3>1 DEF LoadEntry, OthersKeep
    <3>2. CASE PackCandidate \/ LockBatchMtx \/ IndexUpdated \/ TestSame \/ FreeMigrated
      BY <3>2 DEF PackCandidate, LockBatchMtx, IndexUpdated, TestSame, FreeMigrated, OthersKeep
    <3>3. CASE WriteMigrated \/ BackMigrate \/ ThreadPicks \/ UNCHANGED vars
      BY <3>3 DEF WriteMigrated, BackMigrate, ThreadPicks, vars, dataVars, history
    <3> QED
      BY <1>5, <3>1, <3>2, <3>3
  <2> QED
    BY <1>1, <2>1, QuietVisible
<1> QED
  BY <1>2, <1>3, <1>4, <1>5 DEF Next, doMigrate

(* A read finds the last completed write of a key or one concurrent with   *)
(* it, in whichever tier, while no slip but a tombstone left behind        *)
(* happens.                                                                *)
THEOREM LatestAcrossTiers == Spec => []LatestVisible
<1>1. VisibleInv => LatestVisible
  <2> SUFFICES ASSUME VisibleInv, slips \subseteq {"tombstone"}, NEW k \in Keys
               PROVE  IF index[k] # NoEntry
                      THEN NotOvertaken(index[k].write)
                      ELSE \/ \A d \in Done : \A n \in DOMAIN Items[d] :
                                KeyOf[Items[d][n]] = k => Items[d][n] \in Deletes
                           \/ \E w \in Writes :
                                KeyOf[w] = k /\ AppliedDelete(w) /\ NotOvertaken(w)
    BY DEF LatestVisible
  <2>1. Visible(k) /\ HouseInv
    BY DEF VisibleInv
  <2>2. \A d \in Done : d \in Batches /\ \A n \in DOMAIN Items[d] : Applied(d, n)
    BY DEF Done, Applied
  <2>3. \A w : KeyOf[w] = k /\ NoneAfter(k, w) => NotOvertaken(w)
    BY <2>2 DEF NoneAfter, NotOvertaken
  <2>4. \A w : w \in Deletes /\ IsApplied(w) => w \in Writes /\ AppliedDelete(w)
    <3> SUFFICES ASSUME NEW b \in Batches, NEW n \in DOMAIN Items[b], Applied(b, n),
                        Items[b][n] \in Deletes
                 PROVE  Items[b][n] \in Writes /\ AppliedDelete(Items[b][n])
      BY DEF IsApplied
    <3> QED
      BY BatchOfItem, MigrateAssumption DEF AppliedDelete, Applied
  <2>5. CASE index[k] # NoEntry
    BY <2>1, <2>3, <2>5, KeysAgree DEF Visible
  <2>6. CASE index[k] = NoEntry
    BY <2>1, <2>2, <2>3, <2>4, <2>6 DEF Visible
  <2> QED
    BY <2>5, <2>6
<1> QED
  BY <1>1, VisibleInit, VisibleStep, PTL DEF Spec

-----------------------------------------------------------------------------
(* The count of dead records. *)

Vols == MediumVols \cup {Fast}

Records(v, s) == IF v = Fast THEN content[s] ELSE medium[v][s].records
DeathOf(v, s) == IF v = Fast THEN segTable[s].death_size ELSE medium[v][s].death

InUse(v, s) ==
  \/ v = Fast /\ s \in InState("USED")
  \/ v \in MediumVols /\ s \in DOMAIN medium[v]

Indexed(v, s, n) ==
  \E k \in Keys : index[k] # NoEntry /\ index[k].vol = v /\ index[k].seg = s /\ index[k].pos = n

(* A record that its writer, or a migration, has yet to bring to the index. *)
Waits(v, s, n) ==
  \/ v = Fast /\ Unindexed(s, n)
  \/ mig.at \in {"lock", "test", "put"} /\ mig.vol = v /\ s = Len(medium[v]) /\ n >= mig.pos

Dead(v, s, n) == ~Indexed(v, s, n) /\ ~Waits(v, s, n)

DeadAt(v, s) == {n \in DOMAIN Records(v, s) : Dead(v, s, n)}

Exact == \A v \in Vols : \A s \in Nat : InUse(v, s) => DeathOf(v, s) = Cardinality(DeadAt(v, s))

(* What is indexed waits no more; an entry of the fast tier lies where its *)
(* batch wrote, with its stamp; a tombstone is never moved.                *)
PlaceGood(k) ==
  /\ ~Waits(index[k].vol, index[k].seg, index[k].pos)
  /\ index[k].vol = Fast =>
       \E b \in Batches : /\ Stamped(b) /\ index[k].seg = batch[b].seg
                          /\ index[k].stamp = batch[b].stamp
  /\ index[k].vol # Fast => ~Tombstone(index[k])

(* ... and a segment has no deaths before it is written.                   *)
NoDeathsYet == \A s \in Segs : segTable[s].state # "USED" => segTable[s].death_size = 0

DeathPlaces ==
  /\ \A k \in Keys : index[k] # NoEntry => PlaceGood(k)
  /\ NoDeathsYet

StampsDiffer ==
  \A b, c \in Batches : Stamped(b) /\ Stamped(c) /\ batch[b].stamp = batch[c].stamp => b = c

DeathInv ==
  HouseInv /\ StampsDiffer /\ (slips \subseteq {"restamped"} => DeathPlaces /\ Exact)

(* Without slips every entry is housed, and no two share a place.          *)
LEMMA AllHoused ==
  ASSUME HouseInv, slips \subseteq {"restamped"}
  PROVE  /\ Placed
         /\ \A k \in Keys : index[k] # NoEntry =>
              /\ index[k] \in Entries /\ KeyOf[index[k].write] = k /\ Housed(index[k])
              /\ InUse(index[k].vol, index[k].seg) /\ index[k].seg \in Nat
              /\ index[k].vol \in Vols
              /\ index[k].pos \in DOMAIN Records(index[k].vol, index[k].seg)
              /\ Records(index[k].vol, index[k].seg)[index[k].pos] = index[k].write
<1>1. Placed
  BY HouseFacts DEF Spoiled
<1> SUFFICES ASSUME NEW k \in Keys, index[k] # NoEntry
             PROVE  /\ index[k] \in Entries /\ KeyOf[index[k].write] = k /\ Housed(index[k])
                    /\ InUse(index[k].vol, index[k].seg) /\ index[k].seg \in Nat
                    /\ index[k].vol \in Vols
                    /\ index[k].pos \in DOMAIN Records(index[k].vol, index[k].seg)
                    /\ Records(index[k].vol, index[k].seg)[index[k].pos] = index[k].write
  BY <1>1
<1>2. /\ index[k] \in Entries /\ KeyOf[index[k].write] = k /\ Housed(index[k])
      /\ index[k].vol = Fast => index[k].seg \in Segs
  BY <1>1, HouseFacts DEF Placed, EntriesPlace, Excused
<1>3. index[k].seg \in Nat /\ index[k].vol \in Vols
  BY <1>2 DEF Entries, Vols
<1>4. InUse(index[k].vol, index[k].seg)
  BY <1>2, <1>3 DEF Housed, InUse, InState, Vols
<1>5. Records(index[k].vol, index[k].seg) = RecordsAt(index[k])
  BY DEF Records, RecordsAt
<1> QED
  BY <1>2, <1>3, <1>4, <1>5 DEF Housed

(* The fast volume is not a medium volume.                                 *)
LEMMA FastIsApart == Fast \notin MediumVols
BY MigrateAssumption DEF MediumVols, Fast

(* Deaths of the records of a segment can be counted.                      *)
LEMMA DeadCount ==
  ASSUME TypeOK, NEW v \in Vols, NEW s, InUse(v, s)
  PROVE  /\ Records(v, s) \in Seq(Writes) /\ IsFiniteSet(DeadAt(v, s))
         /\ DOMAIN Records(v, s) = 1 .. Len(Records(v, s))
         /\ DeathOf(v, s) \in Nat
<1> DEFINE r == Records(v, s)
<1>1. content \in [Segs -> Seq(Writes)] /\ segTable \in [Segs -> SegmentStat]
      /\ medium \in [MediumVols -> Seq([records : Seq(Writes), death : Nat])]
  BY DEF TypeOK, SegTypeOK
<1>2. r \in Seq(Writes) /\ DeathOf(v, s) \in Nat
  <2>1. CASE v = Fast
    <3>1. s \in Segs
      BY <2>1, FastIsApart DEF InUse, InState
    <3> QED
      BY <1>1, <2>1, <3>1 DEF Records, DeathOf, SegmentStat
  <2>2. CASE v # Fast
    <3> DEFINE m == medium[v]
    <3>1. v \in MediumVols /\ s \in DOMAIN m
      BY <2>2 DEF InUse
    <3>2. m \in Seq([records : Seq(Writes), death : Nat])
      BY <1>1, <3>1
    <3> HIDE DEF m
    <3>3. m[s] \in [records : Seq(Writes), death : Nat]
      <4> DEFINE R == [records : Seq(Writes), death : Nat]
      <4> HIDE DEF R
      <4>1. m \in Seq(R)
        BY <3>2 DEF R
      <4>2. m[s] \in R
        BY <3>1, <4>1, ElementOfSeq
      <4> QED
        BY <4>2 DEF R
    <3> QED
      BY <2>2, <3>3 DEF Records, DeathOf, m
  <2> QED
    BY <2>1, <2>2
<1> HIDE DEF r
<1>3. DOMAIN r = 1 .. Len(r) /\ Len(r) \in Nat
  BY <1>2
<1>4. IsFiniteSet(1 .. Len(r))
  BY <1>3, FS_Interval
<1>5. DeadAt(v, s) \subseteq 1 .. Len(r)
  BY <1>3 DEF DeadAt, r
<1> QED
  BY <1>2, <1>3, <1>4, <1>5, FS_Subset DEF r

(* The dead records of a segment are those its places count as dead.       *)
LEMMA DeadAreDead ==
  ASSUME HouseInv, slips \subseteq {"restamped"}, NEW v \in Vols, NEW s, InUse(v, s)
  PROVE  DeadRecords(v, s, Records(v, s)) = DeadAt(v, s)
<1> DEFINE r == Records(v, s)
<1>1. \A n \in DOMAIN r : r[n] \in Writes
  <2>1. r \in Seq(Writes)
    BY HouseFacts, DeadCount
  <2> QED
    BY <2>1, ElementOfSeq
<1>2. ASSUME NEW n \in DOMAIN r
      PROVE  IsSameInMem(Entry(r[n], v, s, n, 0)) <=> Indexed(v, s, n)
  <2>1. IsSameInMem(Entry(r[n], v, s, n, 0)) <=>
          LET k == KeyOf[r[n]]
          IN index[k] # NoEntry /\ index[k].vol = v /\ index[k].seg = s /\ index[k].pos = n
    BY DEF IsSameInMem, Entry
  <2>2. KeyOf[r[n]] \in Keys
    BY <1>1, MigrateAssumption
  <2>3. ASSUME NEW k \in Keys, index[k] # NoEntry, index[k].vol = v, index[k].seg = s,
               index[k].pos = n
        PROVE  k = KeyOf[r[n]]
    BY <2>3, AllHoused
  <2> QED
    BY <2>1, <2>2, <2>3 DEF Indexed
<1>3. \A n \in DOMAIN r : Waits(v, s, n) <=>
        \/ ~(v = Fast => ~Unindexed(s, n))
        \/ mig.at \in {"lock", "test", "put"} /\ mig.vol = v /\ s = Len(medium[v]) /\ n >= mig.pos
  BY DEF Waits
<1> HIDE DEF r
<1>4. \A n \in DOMAIN r : n \in DeadRecords(v, s, r) <=> Dead(v, s, n)
  BY <1>2, <1>3 DEF DeadRecords, Dead
<1>5. DeadRecords(v, s, r) \subseteq DOMAIN r
  BY DEF DeadRecords
<1> QED
  BY <1>4, <1>5 DEF DeadAt, r

(* ModifyDeathEntries of at most one entry.                                *)
LEMMA Charged ==
  ASSUME TypeOK, NEW es, ModifyDeathEntries(es), UNCHANGED content
  PROVE  \A v \in Vols : \A s \in Nat :
           /\ InUse(v, s)' <=> InUse(v, s)
           /\ InUse(v, s) =>
                /\ Records(v, s)' = Records(v, s)
                /\ DeathOf(v, s)' =
                     DeathOf(v, s) + (IF \E e \in es : e.vol = v /\ e.seg = s THEN 1 ELSE 0)
<1>1. /\ \A s \in Segs : segTable'[s].state = segTable[s].state
      /\ \A v \in MediumVols :
           /\ DOMAIN medium'[v] = DOMAIN medium[v]
           /\ \A s \in DOMAIN medium[v] : medium'[v][s].records = medium[v][s].records
  BY DeathsTyped
<1>2. segTable \in [Segs -> SegmentStat]
      /\ medium \in [MediumVols -> Seq([records : Seq(Writes), death : Nat])]
  BY DEF TypeOK, SegTypeOK
<1>3. \A s \in Segs : segTable'[s].death_size =
        segTable[s].death_size + (IF \E e \in es : e.vol = Fast /\ e.seg = s THEN 1 ELSE 0)
  <2> SUFFICES ASSUME NEW s \in Segs
               PROVE  segTable'[s].death_size = segTable[s].death_size
                        + (IF \E e \in es : e.vol = Fast /\ e.seg = s THEN 1 ELSE 0)
    OBVIOUS
  <2>1. segTable'[s] = IF \E e \in es : e.vol = Fast /\ e.seg = s
                       THEN WithDeath(segTable, s, 1)[s] ELSE segTable[s]
    BY DEF ModifyDeathEntries, Located
  <2>2. WithDeath(segTable, s, 1)[s].death_size = segTable[s].death_size + 1
    BY <1>2 DEF WithDeath, SegmentStat
  <2>3. segTable[s].death_size \in Nat
    BY <1>2 DEF SegmentStat
  <2> QED
    BY <2>1, <2>2, <2>3
<1>4. \A v \in MediumVols : \A s \in DOMAIN medium[v] : medium'[v][s].death =
        medium[v][s].death + (IF \E e \in es : e.vol = v /\ e.seg = s THEN 1 ELSE 0)
  <2> SUFFICES ASSUME NEW v \in MediumVols, NEW s \in DOMAIN medium[v]
               PROVE  medium'[v][s].death = medium[v][s].death
                        + (IF \E e \in es : e.vol = v /\ e.seg = s THEN 1 ELSE 0)
    OBVIOUS
  <2>1. medium'[v][s] = IF \E e \in es : e.vol = v /\ e.seg = s
                        THEN [medium[v][s] EXCEPT !.death = @ + 1] ELSE medium[v][s]
    BY DEF ModifyDeathEntries, Located
  <2> DEFINE R == [records : Seq(Writes), death : Nat]
             x == medium[v][s]
  <2>2. x \in R
    <3> HIDE DEF R
    <3>1. medium[v] \in Seq(R)
      BY <1>2 DEF R
    <3> QED
      BY <3>1, ElementOfSeq
  <2>3. x.death \in Nat /\ [x EXCEPT !.death = @ + 1].death = x.death + 1
    <3> HIDE DEF x
    <3> QED
      BY <2>2
  <2> QED
    BY <2>1, <2>3
<1> SUFFICES ASSUME NEW v \in Vols, NEW s \in Nat
             PROVE  /\ InUse(v, s)' <=> InUse(v, s)
                    /\ InUse(v, s) =>
                         /\ Records(v, s)' = Records(v, s)
                         /\ DeathOf(v, s)' = DeathOf(v, s)
                              + (IF \E e \in es : e.vol = v /\ e.seg = s THEN 1 ELSE 0)
  OBVIOUS
<1>5. CASE v = Fast
  BY <1>1, <1>3, <1>5, FastIsApart DEF InUse, InState, Records, DeathOf
<1>6. CASE v # Fast
  BY <1>1, <1>4, <1>6 DEF InUse, Records, DeathOf, Vols
<1> QED
  BY <1>5, <1>6

(* A step that charges for the one record it makes dead.                   *)
LEMMA OneDies ==
  ASSUME TypeOK, TypeOK', DeathPlaces, Exact, NEW es, ModifyDeathEntries(es), UNCHANGED content,
         NEW v0, NEW s0, NEW n0,
         \A v \in Vols : \A s \in Nat : InUse(v, s) => \A n \in DOMAIN Records(v, s) :
           Dead(v, s, n)' <=> Dead(v, s, n) \/ (es # {} /\ v = v0 /\ s = s0 /\ n = n0),
         es = {} \/ \E e : /\ es = {e} /\ e.vol = v0 /\ e.seg = s0
                           /\ v0 \in Vols /\ s0 \in Nat /\ InUse(v0, s0)
                           /\ n0 \in DOMAIN Records(v0, s0) /\ ~Dead(v0, s0, n0)
  PROVE  Exact' /\ NoDeathsYet'
<1>1. Exact'
  <2> SUFFICES ASSUME NEW v \in Vols, NEW s \in Nat, InUse(v, s)'
               PROVE  DeathOf(v, s)' = Cardinality(DeadAt(v, s)')
    BY DEF Exact
  <2> DEFINE D == DeadAt(v, s)
             E == DeadAt(v, s)'
  <2>1. /\ InUse(v, s)
        /\ Records(v, s)' = Records(v, s)
        /\ DeathOf(v, s)' =
             DeathOf(v, s) + (IF \E e \in es : e.vol = v /\ e.seg = s THEN 1 ELSE 0)
    BY Charged
  <2>2. /\ IsFiniteSet(D) /\ DeathOf(v, s) = Cardinality(D) /\ DeathOf(v, s) \in Nat
    BY <2>1, DeadCount DEF Exact
  <2>3. CASE \E e \in es : e.vol = v /\ e.seg = s
    <3>1. v = v0 /\ s = s0 /\ n0 \in DOMAIN Records(v, s) /\ n0 \notin D /\ es # {}
      BY <2>3 DEF DeadAt
    <3>2. E = D \cup {n0}
      BY <2>1, <3>1 DEF DeadAt
    <3>3. Cardinality(E) = Cardinality(D) + 1
      <4> HIDE DEF D, E
      <4>1. Cardinality(D \cup {n0}) = Cardinality(D) + 1
        BY <2>2, <3>1, FS_AddElement
      <4> QED
        BY <3>2, <4>1
    <3> QED
      BY <2>1, <2>2, <2>3, <3>3
  <2>4. CASE ~\E e \in es : e.vol = v /\ e.seg = s
    <3>1. E = D
      BY <2>1, <2>4 DEF DeadAt
    <3> QED
      BY <2>1, <2>2, <2>4, <3>1
  <2> QED
    BY <2>3, <2>4
<1>2. ASSUME NEW s \in Segs, segTable'[s].state # "USED" PROVE segTable'[s].death_size = 0
  <2>1. segTable[s].state # "USED" /\ segTable[s].death_size = 0
    BY <1>2, DeathsTyped DEF DeathPlaces, NoDeathsYet
  <2>2. ~\E e \in es : e.vol = Fast /\ e.seg = s
    BY <2>1, FastIsApart DEF InUse, InState
  <2>3. segTable'[s] = segTable[s]
    BY <2>2 DEF ModifyDeathEntries, Located
  <2> QED
    BY <2>1, <2>3
<1> QED
  BY <1>1, <1>2 DEF NoDeathsYet

(* A step that charges nothing and makes no record dead.                   *)
LEMMA NoneDies ==
  ASSUME TypeOK, Exact,
         \A v \in Vols : \A s \in Nat : InUse(v, s)' =>
           \/ /\ InUse(v, s) /\ DeathOf(v, s)' = DeathOf(v, s)
              /\ Records(v, s)' = Records(v, s)
              /\ \A n \in DOMAIN Records(v, s) : Dead(v, s, n)' <=> Dead(v, s, n)
           \/ /\ DeathOf(v, s)' = 0
              /\ \A n \in DOMAIN Records(v, s)' : Waits(v, s, n)'
  PROVE  Exact'
<1> SUFFICES ASSUME NEW v \in Vols, NEW s \in Nat, InUse(v, s)'
             PROVE  DeathOf(v, s)' = Cardinality(DeadAt(v, s)')
  BY DEF Exact
<1>1. CASE /\ InUse(v, s) /\ DeathOf(v, s)' = DeathOf(v, s)
           /\ Records(v, s)' = Records(v, s)
           /\ \A n \in DOMAIN Records(v, s) : Dead(v, s, n)' <=> Dead(v, s, n)
  <2>1. DeadAt(v, s)' = DeadAt(v, s)
    BY <1>1 DEF DeadAt
  <2> QED
    BY <1>1, <2>1 DEF Exact
<1>2. CASE /\ DeathOf(v, s)' = 0
           /\ \A n \in DOMAIN Records(v, s)' : Waits(v, s, n)'
  <2>1. DeadAt(v, s)' = {}
    BY <1>2 DEF DeadAt, Dead
  <2> QED
    BY <1>2, <2>1, FS_EmptySet
<1> QED
  BY <1>1, <1>2

(* An entry the step leaves alone stays well placed.                       *)
LEMMA EntryStays ==
  ASSUME NEW k \in Keys, index[k] # NoEntry, index'[k] = index[k], PlaceGood(k),
         index[k].vol \in Vols, index[k].seg \in Nat, InUse(index[k].vol, index[k].seg),
         index[k].pos \in DOMAIN Records(index[k].vol, index[k].seg),
         \A c \in Batches : Stamped(c) =>
           Stamped(c)' /\ batch'[c].seg = batch[c].seg /\ batch'[c].stamp = batch[c].stamp,
         \A v \in Vols : \A s \in Nat : InUse(v, s) => \A n \in DOMAIN Records(v, s) :
           Waits(v, s, n)' => Waits(v, s, n)
  PROVE  PlaceGood(k)'
<1>1. PICK q : q = index[k] /\ q = index'[k]
  OBVIOUS
<1>2. ~Waits(q.vol, q.seg, q.pos) /\ ~Waits(q.vol, q.seg, q.pos)'
  BY <1>1 DEF PlaceGood
<1>3. ~Waits(index[k].vol, index[k].seg, index[k].pos)'
  BY <1>1, <1>2 DEF Waits, Unindexed
<1>4. index'[k].vol = Fast =>
        \E b \in Batches : /\ Stamped(b)' /\ index'[k].seg = batch'[b].seg
                           /\ index'[k].stamp = batch'[b].stamp
  BY DEF PlaceGood
<1>5. index'[k].vol # Fast => ~Tombstone(index[k])'
  BY DEF PlaceGood, Tombstone
<1> QED
  BY <1>3, <1>4, <1>5 DEF PlaceGood

(* One write of a batch is brought to the index.                           *)
LEMMA UpdateDies ==
  ASSUME DeathInv, TypeOK', slips' \subseteq {"restamped"}, NEW b \in Batches, BatchUpdate(b)
  PROVE  DeathPlaces' /\ Exact'
<1> DEFINE e == ItemEntry(b)
           k0 == KeyOf[e.write]
           n0 == batch[b].next
           sb == batch[b].seg
           inMem == index[k0]
           kept == (inMem # NoEntry /\ e.stamp < inMem.stamp) \/ (inMem = NoEntry /\ Tombstone(e))
           es == IF kept THEN {e} ELSE IF inMem = NoEntry THEN {} ELSE {inMem}
<1>0. HouseInv /\ TypeInv /\ TypeOK
  BY HouseFacts DEF DeathInv
<1>1. /\ batch[b].at = "update" /\ n0 \in DOMAIN Items[b]
      /\ batch'[b].seg = sb /\ batch'[b].stamp = batch[b].stamp
      /\ IF n0 = Len(Items[b])
         THEN batch'[b].at \in {"reap", "done"}
         ELSE batch'[b].at = "update" /\ batch'[b].next = n0 + 1
      /\ \A c \in Batches : c # b => batch'[c] = batch[c]
      /\ UNCHANGED <<content, mig>>
  BY <1>0, BatchUpdateTyped
<1>2. /\ e.write = Items[b][n0] /\ e.vol = Fast /\ e.seg = sb /\ e.pos = n0
      /\ e.stamp = batch[b].stamp /\ e \in Entries
      /\ DOMAIN Items[b] = 1 .. Len(Items[b]) /\ Len(Items[b]) \in Nat
      /\ k0 \in Keys /\ sb \in Nat /\ n0 \in Nat /\ NoEntry # e
  <2>1. /\ e.write = Items[b][n0] /\ e.vol = Fast /\ e.seg = sb /\ e.pos = n0
        /\ e.stamp = batch[b].stamp /\ e \in Entries
        /\ DOMAIN Items[b] = 1 .. Len(Items[b]) /\ Len(Items[b]) \in Nat
        /\ k0 \in Keys
    BY <1>0, <1>1, ItemTyped
  <2>2. sb \in Nat /\ n0 \in Nat
    BY <1>0, SegTypes, SegsAreNumbers
  <2> QED
    BY <2>1, <2>2, MigrateAssumption
<1>3. /\ ModifyDeathEntries(es) /\ slips \subseteq slips'
      /\ \A k \in Keys : index'[k] = IF k = k0 /\ ~kept THEN e ELSE index[k]
  <2>1. UpdateIndex(e)
    BY <1>0, BatchUpdateTyped
  <2>2. /\ ModifyDeathEntries(es)
        /\ index' = IF kept THEN index ELSE [index EXCEPT ![k0] = e]
        /\ slips' = IF DropsNewer(e, inMem) THEN slips \cup {"restamped"} ELSE slips
    BY <2>1 DEF UpdateIndex
  <2>3. index \in [Keys -> MaybeEntries]
    BY <1>0 DEF TypeOK
  <2> HIDE DEF e, k0, es, kept
  <2> QED
    BY <1>2, <2>2, <2>3
<1>4. DeathPlaces /\ Exact /\ slips \subseteq {"restamped"}
  BY <1>3 DEF DeathInv
<1> HIDE DEF e, k0, n0, sb, es, kept
<1>5. /\ Placed /\ content[sb] = Items[b] /\ sb \in Segs /\ InUse(Fast, sb)
      /\ Records(Fast, sb) = Items[b]
  <2>1. Placed
    BY <1>0, <1>4, AllHoused
  <2> QED
    BY <1>0, <1>1, <2>1, HouseFacts DEF Placed, WritersPlace, InUse, InState, Records, sb
<1>6. /\ \A v \in Vols : \A s \in Nat : InUse(v, s) =>
           /\ InUse(v, s)' /\ Records(v, s)' = Records(v, s)
           /\ \A n \in DOMAIN Records(v, s) :
                Waits(v, s, n)' <=> Waits(v, s, n) /\ ~(v = Fast /\ s = sb /\ n = n0)
      /\ Waits(Fast, sb, n0)
  <2>1. \A c \in Batches : batch[c].at = "update" /\ batch[c].seg = sb => c = b
    <3> SUFFICES ASSUME NEW c \in Batches, batch[c].at = "update", batch[c].seg = sb PROVE c = b
      OBVIOUS
    <3>1. Items[c] = Items[b]
      BY <1>5 DEF Placed, WritersPlace
    <3> QED
      BY <1>1, <3>1, MigrateAssumption
  <2>2. \A n \in DOMAIN Items[b] : Unindexed(sb, n)' <=> Unindexed(sb, n) /\ n # n0
    <3> SUFFICES ASSUME NEW n \in DOMAIN Items[b]
                 PROVE  Unindexed(sb, n)' <=> Unindexed(sb, n) /\ n # n0
      OBVIOUS
    <3>1. Unindexed(sb, n) <=> n >= n0
      BY <1>1, <2>1 DEF Unindexed, sb, n0
    <3>2. PICK x : x = sb /\ (\A c \in Batches : batch[c].at = "update" /\ batch[c].seg = x => c = b)
                   /\ batch[b].seg = x
      BY <2>1 DEF sb
    <3>3. Unindexed(x, n)' <=> batch'[b].at = "update" /\ n >= batch'[b].next
      BY <1>1, <3>2 DEF Unindexed
    <3>4. Unindexed(x, n)' <=> n >= n0 /\ n # n0
      BY <1>1, <1>2, <3>3
    <3> QED
      BY <1>1, <3>1, <3>2, <3>4 DEF Unindexed, sb
  <2>3. \A s, n : s # sb => (Unindexed(s, n)' <=> Unindexed(s, n))
    BY <1>1 DEF Unindexed, sb
  <2>4. mig.vol \in MediumVols /\ \A v \in MediumVols : Len(medium'[v]) = Len(medium[v])
    BY <1>0, <1>3, DeathsTyped, SegTypes
  <2>5. Waits(Fast, sb, n0)
    BY <1>1, <1>2 DEF Waits, Unindexed, sb, n0
  <2> SUFFICES ASSUME NEW v \in Vols, NEW s \in Nat, InUse(v, s)
               PROVE  /\ InUse(v, s)' /\ Records(v, s)' = Records(v, s)
                      /\ \A n \in DOMAIN Records(v, s) :
                           Waits(v, s, n)' <=> Waits(v, s, n) /\ ~(v = Fast /\ s = sb /\ n = n0)
    BY <2>5
  <2>6. InUse(v, s)' /\ Records(v, s)' = Records(v, s)
    BY <1>0, <1>1, <1>3, Charged
  <2>7. ASSUME NEW n \in DOMAIN Records(v, s)
        PROVE  Waits(v, s, n)' <=> Waits(v, s, n) /\ ~(v = Fast /\ s = sb /\ n = n0)
    <3>1. CASE v = Fast /\ s = sb
      <4>1. PICK x : x = sb /\ x = s
        BY <3>1
      <4>2. Unindexed(s, n)' <=> Unindexed(s, n) /\ n # n0
        BY <1>1, <1>5, <2>2, <2>7, <3>1 DEF Unindexed, sb
      <4>3. mig.vol # v /\ mig'.vol # v
        BY <1>1, <2>4, <3>1, FastIsApart
      <4> QED
        BY <3>1, <4>2, <4>3 DEF Waits
    <3>2. CASE v = Fast /\ s # sb
      <4>1. mig.vol # v /\ mig'.vol # v
        BY <1>1, <2>4, <3>2, FastIsApart
      <4> QED
        BY <2>3, <3>2, <4>1 DEF Waits
    <3>3. CASE v # Fast
      BY <1>1, <2>4, <3>3 DEF Waits
    <3> QED
      BY <3>1, <3>2, <3>3
  <2> QED
    BY <2>6, <2>7
<1>7. \A k \in Keys : index[k] # NoEntry =>
        /\ index[k].vol \in Vols /\ index[k].seg \in Nat /\ InUse(index[k].vol, index[k].seg)
        /\ index[k].pos \in DOMAIN Records(index[k].vol, index[k].seg)
        /\ Records(index[k].vol, index[k].seg)[index[k].pos] = index[k].write
        /\ KeyOf[index[k].write] = k
        /\ ~(index[k].vol = Fast /\ index[k].seg = sb /\ index[k].pos = n0)
  BY <1>0, <1>4, <1>6, AllHoused DEF DeathPlaces, PlaceGood
<1>8. PICK s0 \in Nat : s0 = sb /\ InUse(Fast, s0) /\ Records(Fast, s0) = Items[b]
  BY <1>2, <1>5
<1>9. PICK m0 \in Nat : m0 = n0
  BY <1>2
<1>10. ~kept /\ inMem # NoEntry =>
         \A k \in Keys : index[k] # NoEntry /\ index[k].vol = inMem.vol
           /\ index[k].seg = inMem.seg /\ index[k].pos = inMem.pos => k = k0
  BY <1>2, <1>7
<1>13. \A c \in Batches : Stamped(c) =>
         Stamped(c)' /\ batch'[c].seg = batch[c].seg /\ batch'[c].stamp = batch[c].stamp
  BY <1>1 DEF Stamped, sb
<1>14. \A k \in Keys : index[k] # NoEntry /\ index'[k] = index[k] => PlaceGood(k)'
  BY <1>4, <1>6, <1>7, <1>13, EntryStays DEF DeathPlaces
<1>11. CASE kept
  <2>1. \A v \in Vols : \A s \in Nat : InUse(v, s) => \A n \in DOMAIN Records(v, s) :
          Dead(v, s, n)' <=> Dead(v, s, n) \/ (es # {} /\ v = Fast /\ s = s0 /\ n = m0)
    <3>1. \A v, s, n : Indexed(v, s, n)' <=> Indexed(v, s, n)
      BY <1>3, <1>11 DEF Indexed
    <3>2. ~Indexed(Fast, s0, m0)
      BY <1>7, <1>8, <1>9 DEF Indexed
    <3> QED
      BY <1>6, <1>8, <1>9, <1>11, <3>1, <3>2 DEF Dead, es
  <2>2. es = {e} /\ e.vol = Fast /\ e.seg = s0 /\ m0 \in DOMAIN Records(Fast, s0)
        /\ ~Dead(Fast, s0, m0) /\ Fast \in Vols
    BY <1>1, <1>2, <1>6, <1>8, <1>9, <1>11 DEF Dead, es, Vols
  <2>3. /\ Exact'
           /\ NoDeathsYet'
    <3>1. UNCHANGED content
      BY <1>1
    <3> QED
      BY <1>0, <1>3, <1>4, <1>8, <2>1, <2>2, <3>1, OneDies
  <2>4. \A k \in Keys : index'[k] = index[k]
    BY <1>3, <1>11
  <2> QED
    BY <1>14, <2>3, <2>4 DEF DeathPlaces
<1>12. CASE ~kept
  <2>1. \A v, s, n : Indexed(v, s, n)' <=>
          \/ v = Fast /\ s = sb /\ n = n0
          \/ \E k \in Keys : /\ k # k0 /\ index[k] # NoEntry
                             /\ index[k].vol = v /\ index[k].seg = s /\ index[k].pos = n
    BY <1>2, <1>3, <1>12 DEF Indexed
  <2>2. Exact' /\ NoDeathsYet'
    <3>1. UNCHANGED content
      BY <1>1
    <3>2. CASE inMem = NoEntry
      <4>1. \A v \in Vols : \A s \in Nat : InUse(v, s) => \A n \in DOMAIN Records(v, s) :
              Dead(v, s, n)' <=> Dead(v, s, n)
        <5> SUFFICES ASSUME NEW v \in Vols, NEW s \in Nat, InUse(v, s),
                            NEW n \in DOMAIN Records(v, s)
                     PROVE  Dead(v, s, n)' <=> Dead(v, s, n)
          OBVIOUS
        <5>1. Indexed(v, s, n)' <=> (v = Fast /\ s = sb /\ n = n0) \/ Indexed(v, s, n)
          <6>1. index[k0] = NoEntry
            BY <3>2 DEF inMem
          <6>2. Indexed(v, s, n) <=>
                  \E k \in Keys : /\ k # k0 /\ index[k] # NoEntry
                                  /\ index[k].vol = v /\ index[k].seg = s /\ index[k].pos = n
            BY <6>1 DEF Indexed
          <6> QED
            BY <2>1, <6>2
        <5>2. Waits(v, s, n)' <=> Waits(v, s, n) /\ ~(v = Fast /\ s = sb /\ n = n0)
          BY <1>6
        <5> QED
          BY <1>6, <5>1, <5>2 DEF Dead
      <4>2. es = {}
        BY <1>12, <3>2 DEF es
      <4> QED
        BY <1>0, <1>3, <1>4, <3>1, <4>1, <4>2, OneDies
    <3>3. CASE inMem # NoEntry
      <4>1. PICK q : q = inMem
        OBVIOUS
      <4>2. /\ q.vol \in Vols /\ q.seg \in Nat /\ InUse(q.vol, q.seg)
            /\ q.pos \in DOMAIN Records(q.vol, q.seg)
            /\ ~(q.vol = Fast /\ q.seg = sb /\ q.pos = n0)
            /\ Indexed(q.vol, q.seg, q.pos) /\ ~Waits(q.vol, q.seg, q.pos)
        BY <1>2, <1>4, <1>7, <3>3, <4>1 DEF Indexed, DeathPlaces, PlaceGood
      <4>3. es = {q} /\ ~Dead(q.vol, q.seg, q.pos)
        BY <1>12, <3>3, <4>1, <4>2 DEF es, Dead
      <4>4. \A v \in Vols : \A s \in Nat : InUse(v, s) => \A n \in DOMAIN Records(v, s) :
              Dead(v, s, n)' <=> Dead(v, s, n) \/ (es # {} /\ v = q.vol /\ s = q.seg /\ n = q.pos)
        <5> SUFFICES ASSUME NEW v \in Vols, NEW s \in Nat, InUse(v, s),
                            NEW n \in DOMAIN Records(v, s)
                     PROVE  Dead(v, s, n)' <=>
                              Dead(v, s, n) \/ (v = q.vol /\ s = q.seg /\ n = q.pos)
          BY <4>3
        <5>1. Waits(v, s, n)' <=> Waits(v, s, n) /\ ~(v = Fast /\ s = sb /\ n = n0)
          BY <1>6
        <5>2. CASE v = Fast /\ s = sb /\ n = n0
          BY <1>6, <2>1, <4>2, <5>1, <5>2 DEF Dead
        <5>3. CASE v = q.vol /\ s = q.seg /\ n = q.pos
          <6>1. ~Indexed(v, s, n)'
            BY <1>10, <1>12, <2>1, <3>3, <4>1, <4>2, <5>3
          <6> QED
            BY <4>2, <5>1, <5>3, <6>1 DEF Dead
        <5>4. CASE /\ ~(v = Fast /\ s = sb /\ n = n0)
                   /\ ~(v = q.vol /\ s = q.seg /\ n = q.pos)
          <6>1. Indexed(v, s, n)' <=> Indexed(v, s, n)
            <7>1. index[k0] = q
              BY <4>1 DEF inMem
            <7>2. Indexed(v, s, n) <=>
                    \E k \in Keys : /\ k # k0 /\ index[k] # NoEntry
                                    /\ index[k].vol = v /\ index[k].seg = s /\ index[k].pos = n
              BY <5>4, <7>1 DEF Indexed
            <7> QED
              BY <2>1, <5>4, <7>2
          <6> QED
            BY <5>1, <5>4, <6>1 DEF Dead
        <5> QED
          BY <5>2, <5>3, <5>4
      <4> QED
        BY <1>0, <1>3, <1>4, <3>1, <4>2, <4>3, <4>4, OneDies
    <3> QED
      BY <3>2, <3>3
  <2> SUFFICES ASSUME NEW k \in Keys, index'[k] # NoEntry
               PROVE  PlaceGood(k)'
    BY <2>2 DEF DeathPlaces
  <2>3. CASE k # k0
    BY <1>3, <1>14, <2>3
  <2>4. CASE k = k0
    <3>1. index'[k] = e
      BY <1>3, <1>12, <2>4
    <3>2. ~Waits(Fast, s0, m0)'
      BY <1>1, <1>6, <1>8, <1>9 DEF Vols
    <3>3. ~Waits(index[k].vol, index[k].seg, index[k].pos)'
      BY <1>2, <1>8, <1>9, <3>1, <3>2 DEF Waits, Unindexed
    <3>4. Stamped(b)' /\ e.seg = batch'[b].seg /\ e.stamp = batch'[b].stamp
      BY <1>1, <1>2 DEF Stamped
    <3> QED
      BY <1>2, <3>1, <3>3, <3>4 DEF PlaceGood
  <2> QED
    BY <2>3, <2>4
<1> QED
  BY <1>11, <1>12

(* The reaper takes a tombstone out: it dies where it was indexed.         *)
LEMMA ReapDies ==
  ASSUME DeathInv, TypeOK', slips' \subseteq {"restamped"}, NEW b \in Batches, Reap(b)
  PROVE  DeathPlaces' /\ Exact'
<1>0. HouseInv /\ TypeInv /\ TypeOK
  BY HouseFacts DEF DeathInv
<1>1. /\ batch[b].at = "reap" /\ batch[b].next \in DOMAIN Items[b]
      /\ batch'[b].at \in {"reap", "done"}
      /\ batch'[b].seg = batch[b].seg /\ batch'[b].stamp = batch[b].stamp
      /\ \A c \in Batches : c # b => batch'[c] = batch[c]
      /\ UNCHANGED <<content, mig, slips>>
  BY <1>0, ReapTyped DEF history
<1>2. PICK w, k0, sb, n0, t0 : /\ w = Items[b][n0] /\ n0 = batch[b].next /\ k0 = KeyOf[w]
                               /\ sb = batch[b].seg /\ t0 = batch[b].stamp
  OBVIOUS
<1>3. k0 \in Keys
  BY <1>0, <1>1, <1>2, ItemTyped
<1>4. DeathPlaces /\ Exact /\ slips \subseteq {"restamped"}
  BY <1>1 DEF DeathInv
<1>5. PICK removed \in BOOLEAN :
        /\ removed <=> /\ w \in Deletes /\ index[k0] # NoEntry
                       /\ index[k0].stamp = t0 /\ Tombstone(index[k0])
        /\ index' = IF removed THEN [index EXCEPT ![k0] = NoEntry] ELSE index
        /\ ModifyDeathEntries(IF removed THEN {Entry(w, Fast, sb, n0, t0)} ELSE {})
  BY <1>2 DEF Reap
<1>6. \A k \in Keys : index'[k] = IF removed /\ k = k0 THEN NoEntry ELSE index[k]
  <2>1. index \in [Keys -> MaybeEntries]
    BY <1>0 DEF TypeOK
  <2> QED
    BY <1>5, <2>1
<1>7. \A v \in Vols : \A s \in Nat : InUse(v, s) => \A n \in DOMAIN Records(v, s) :
        Waits(v, s, n)' <=> Waits(v, s, n)
  <2>1. \A s, n : Unindexed(s, n)' <=> Unindexed(s, n)
    BY <1>1 DEF Unindexed
  <2>2. mig.vol \in MediumVols /\ \A v \in MediumVols : Len(medium'[v]) = Len(medium[v])
    BY <1>0, <1>5, DeathsTyped, SegTypes
  <2> QED
    BY <1>1, <2>1, <2>2 DEF Waits
<1>8. \A k \in Keys : index[k] # NoEntry =>
        /\ index[k].vol \in Vols /\ index[k].seg \in Nat /\ InUse(index[k].vol, index[k].seg)
        /\ index[k].pos \in DOMAIN Records(index[k].vol, index[k].seg)
        /\ Records(index[k].vol, index[k].seg)[index[k].pos] = index[k].write
        /\ KeyOf[index[k].write] = k
        /\ PlaceGood(k)
  BY <1>0, <1>4, AllHoused DEF DeathPlaces
<1>9. Exact' /\ NoDeathsYet'
  <2>1. CASE removed
    <3>1. PICK q : q = index[k0] /\ q # NoEntry
      BY <1>5, <2>1
    <3>2. q.vol = Fast /\ q.seg = sb
      <4>1. PlaceGood(k0) /\ Tombstone(q) /\ q.stamp = t0
        BY <1>3, <1>5, <1>8, <2>1, <3>1
      <4>2. PICK c \in Batches : Stamped(c) /\ q.seg = batch[c].seg /\ q.stamp = batch[c].stamp
        BY <3>1, <4>1 DEF PlaceGood
      <4>3. c = b
        <5>1. Stamped(b)
          BY <1>1 DEF Stamped
        <5>2. batch[b].stamp = batch[c].stamp
          BY <1>2, <4>1, <4>2
        <5> QED
          BY <4>2, <5>1, <5>2 DEF DeathInv, StampsDiffer
      <4> QED
        BY <1>2, <3>1, <4>1, <4>2, <4>3 DEF PlaceGood
    <3>3. PICK es : es = {Entry(w, Fast, sb, n0, t0)} /\ ModifyDeathEntries(es)
      BY <1>5, <2>1
    <3>4. /\ q.vol \in Vols /\ q.seg \in Nat /\ InUse(q.vol, q.seg)
          /\ q.pos \in DOMAIN Records(q.vol, q.seg)
          /\ Indexed(q.vol, q.seg, q.pos) /\ ~Waits(q.vol, q.seg, q.pos)
      BY <1>3, <1>8, <3>1 DEF Indexed, PlaceGood
    <3>5. \A v, s, n : Indexed(v, s, n)' <=>
            Indexed(v, s, n) /\ ~(v = q.vol /\ s = q.seg /\ n = q.pos)
      <4>1. \A k \in Keys : index[k] # NoEntry /\ index[k].vol = q.vol
              /\ index[k].seg = q.seg /\ index[k].pos = q.pos => k = k0
        BY <1>3, <1>8, <3>1
      <4> QED
        BY <1>3, <1>6, <2>1, <3>1, <4>1 DEF Indexed
    <3>6. \A v \in Vols : \A s \in Nat : InUse(v, s) => \A n \in DOMAIN Records(v, s) :
            Dead(v, s, n)' <=> Dead(v, s, n) \/ (es # {} /\ v = q.vol /\ s = q.seg /\ n = q.pos)
      BY <1>7, <3>3, <3>4, <3>5 DEF Dead
    <3>7. \E e : es = {e} /\ e.vol = q.vol /\ e.seg = q.seg
      <4>1. Entry(w, Fast, sb, n0, t0).vol = Fast /\ Entry(w, Fast, sb, n0, t0).seg = sb
        BY DEF Entry
      <4> QED
        BY <3>2, <3>3, <4>1
    <3>8. ~Dead(q.vol, q.seg, q.pos)
      BY <3>4 DEF Dead
    <3>9. UNCHANGED content
      BY <1>1
    <3> QED
      BY <1>0, <1>4, <3>3, <3>4, <3>6, <3>7, <3>8, <3>9, OneDies
  <2>2. CASE ~removed
    <3>1. \A v, s, n : Indexed(v, s, n)' <=> Indexed(v, s, n)
      BY <1>6, <2>2 DEF Indexed
    <3>2. \A v \in Vols : \A s \in Nat : InUse(v, s) => \A n \in DOMAIN Records(v, s) :
            Dead(v, s, n)' <=> Dead(v, s, n)
      BY <1>7, <3>1 DEF Dead
    <3>3. PICK es : es = {} /\ ModifyDeathEntries(es)
      BY <1>5, <2>2
    <3>4. UNCHANGED content
      BY <1>1
    <3> QED
      BY <1>0, <1>4, <3>2, <3>3, <3>4, OneDies
  <2> QED
    BY <2>1, <2>2
<1>10. \A k \in Keys : index'[k] # NoEntry => PlaceGood(k)'
  <2>1. \A c \in Batches : Stamped(c) =>
          Stamped(c)' /\ batch'[c].seg = batch[c].seg /\ batch'[c].stamp = batch[c].stamp
    BY <1>1 DEF Stamped
  <2> QED
    BY <1>6, <1>7, <1>8, <2>1, EntryStays
<1> QED
  BY <1>9, <1>10 DEF DeathPlaces

(* The copy a migration is about to test or put, and the next ones, wait.  *)
LEMMA CopyPlace ==
  ASSUME HouseInv, Placed, mig.at \in {"test", "put"}, mig.pos \in DOMAIN mig.list
  PROVE  /\ mig.vol \in MediumVols /\ mig.vol # Fast /\ mig.vol \in Vols
         /\ Len(medium[mig.vol]) \in Nat /\ mig.pos \in Nat
         /\ InUse(mig.vol, Len(medium[mig.vol]))
         /\ mig.pos \in DOMAIN Records(mig.vol, Len(medium[mig.vol]))
         /\ Waits(mig.vol, Len(medium[mig.vol]), mig.pos)
<1>1. mig.vol \in MediumVols /\ mig.vol # Fast /\ mig.vol \in Vols /\ mig.pos \in Nat
  BY HouseFacts, SegTypes, FastIsApart DEF Vols
<1>2. medium[mig.vol] \in Seq([records : Seq(Writes), death : Nat])
  BY <1>1, HouseFacts DEF TypeOK
<1>3. /\ Len(medium[mig.vol]) > 0
      /\ medium[mig.vol][Len(medium[mig.vol])].records = Copies
  BY DEF Placed, CopiesAreThere
<1>4. Len(medium[mig.vol]) \in Nat /\ Len(medium[mig.vol]) \in DOMAIN medium[mig.vol]
  <2> DEFINE m == medium[mig.vol]
             R == [records : Seq(Writes), death : Nat]
  <2> HIDE DEF m, R
  <2>1. m \in Seq(R) /\ Len(m) > 0
    BY <1>2, <1>3 DEF m, R
  <2>2. Len(m) \in Nat /\ Len(m) \in DOMAIN m
    BY <2>1
  <2> QED
    BY <2>2 DEF m
<1>5. Records(mig.vol, Len(medium[mig.vol])) = Copies
  BY <1>1, <1>3 DEF Records
<1>6. DOMAIN Copies = DOMAIN mig.list
  BY DEF Copies
<1> QED
  BY <1>1, <1>4, <1>5, <1>6 DEF InUse, Waits

(* ... and the one that is tested or put waits no longer.                  *)
LEMMA CopyGoesOn ==
  ASSUME HouseInv, mig.at \in {"test", "put"}, mig'.at = "test", mig'.pos = mig.pos + 1,
         mig'.vol = mig.vol, UNCHANGED batch,
         \A v \in MediumVols : Len(medium'[v]) = Len(medium[v])
  PROVE  \A v \in Vols : \A s \in Nat : InUse(v, s) => \A n \in DOMAIN Records(v, s) :
           Waits(v, s, n)' <=>
             Waits(v, s, n) /\ ~(v = mig.vol /\ s = Len(medium[mig.vol]) /\ n = mig.pos)
<1>1. mig.vol \in MediumVols /\ mig.vol # Fast /\ mig.pos \in Nat
  BY HouseFacts, SegTypes, FastIsApart
<1>2. \A s, n : Unindexed(s, n)' <=> Unindexed(s, n)
  BY DEF Unindexed
<1>3. Len(medium'[mig.vol]) = Len(medium[mig.vol])
  BY <1>1
<1> SUFFICES ASSUME NEW v \in Vols, NEW s \in Nat, InUse(v, s), NEW n \in DOMAIN Records(v, s)
             PROVE  Waits(v, s, n)' <=>
                      Waits(v, s, n) /\ ~(v = mig.vol /\ s = Len(medium[mig.vol]) /\ n = mig.pos)
  OBVIOUS
<1>4. n \in Nat
  <2>1. DOMAIN Records(v, s) = 1 .. Len(Records(v, s)) /\ Records(v, s) \in Seq(Writes)
    BY HouseFacts, DeadCount
  <2> QED
    BY <2>1
<1> QED
  BY <1>1, <1>2, <1>3, <1>4 DEF Waits

(* A copy that loses against a client is charged to the new segment.       *)
LEMMA TestDies ==
  ASSUME DeathInv, TypeOK', slips' \subseteq {"restamped"}, TestSame
  PROVE  DeathPlaces' /\ Exact'
<1>0. HouseInv /\ TypeInv /\ TypeOK
  BY HouseFacts DEF DeathInv
<1>1. /\ mig.at = "test" /\ mig.pos \in DOMAIN mig.list /\ mig'.vol = mig.vol
      /\ \/ /\ mig'.at = "put" /\ mig'.pos = mig.pos
            /\ UNCHANGED <<segTable, curSegId, counters, medium>>
         \/ /\ mig'.at = "test" /\ mig'.pos = mig.pos + 1
            /\ ModifyDeathEntries({Moved})
      /\ UNCHANGED <<content, index, slips, batch>>
  BY <1>0, TestTyped DEF OthersKeep
<1>2. DeathPlaces /\ Exact /\ slips \subseteq {"restamped"}
  BY <1>1 DEF DeathInv
<1>3. /\ Placed
      /\ \A k \in Keys : index[k] # NoEntry =>
           /\ index[k].vol \in Vols /\ index[k].seg \in Nat /\ InUse(index[k].vol, index[k].seg)
           /\ index[k].pos \in DOMAIN Records(index[k].vol, index[k].seg)
           /\ PlaceGood(k)
  BY <1>0, <1>2, AllHoused DEF DeathPlaces
<1>4. \A v, s, n : Indexed(v, s, n)' <=> Indexed(v, s, n)
  BY <1>1 DEF Indexed
<1>5. \A c \in Batches : Stamped(c) =>
        Stamped(c)' /\ batch'[c].seg = batch[c].seg /\ batch'[c].stamp = batch[c].stamp
  BY <1>1 DEF Stamped
<1>6. CASE /\ mig'.at = "put" /\ mig'.pos = mig.pos
           /\ UNCHANGED <<segTable, curSegId, counters, medium>>
  <2>1. \A v, s, n : Waits(v, s, n)' <=> Waits(v, s, n)
    BY <1>1, <1>6 DEF Waits, Unindexed
  <2>2. Exact'
    <3>1. \A v \in Vols : \A s \in Nat : InUse(v, s)' =>
            /\ InUse(v, s) /\ DeathOf(v, s)' = DeathOf(v, s)
            /\ Records(v, s)' = Records(v, s)
            /\ \A n \in DOMAIN Records(v, s) : Dead(v, s, n)' <=> Dead(v, s, n)
      BY <1>1, <1>4, <1>6, <2>1 DEF InUse, InState, DeathOf, Records, Dead
    <3> QED
      BY <1>0, <1>2, <3>1, NoneDies
  <2>3. NoDeathsYet'
    BY <1>2, <1>6 DEF DeathPlaces, NoDeathsYet
  <2>4. \A k \in Keys : index'[k] # NoEntry => PlaceGood(k)'
    BY <1>1, <1>3, <1>5, <2>1, EntryStays
  <2> QED
    BY <2>2, <2>3, <2>4 DEF DeathPlaces
<1>7. CASE /\ mig'.at = "test" /\ mig'.pos = mig.pos + 1
           /\ ModifyDeathEntries({Moved})
  <2>1. PICK v0, s0, n0 : v0 = mig.vol /\ s0 = Len(medium[mig.vol]) /\ n0 = mig.pos
    OBVIOUS
  <2>2. /\ v0 \in Vols /\ s0 \in Nat /\ InUse(v0, s0) /\ n0 \in DOMAIN Records(v0, s0)
        /\ Waits(v0, s0, n0)
    BY <1>0, <1>1, <1>3, <2>1, CopyPlace
  <2>3. \A v \in Vols : \A s \in Nat : InUse(v, s) => \A n \in DOMAIN Records(v, s) :
          Waits(v, s, n)' <=> Waits(v, s, n) /\ ~(v = v0 /\ s = s0 /\ n = n0)
    <3>1. \A v \in MediumVols : Len(medium'[v]) = Len(medium[v])
      BY <1>0, <1>7, DeathsTyped
    <3> QED
      BY <1>0, <1>1, <1>7, <2>1, <3>1, CopyGoesOn
  <2>4. ~Indexed(v0, s0, n0)
    BY <1>3, <2>2 DEF Indexed, PlaceGood
  <2>5. PICK es : es = {Moved} /\ ModifyDeathEntries(es)
    BY <1>7
  <2>6. \A v \in Vols : \A s \in Nat : InUse(v, s) => \A n \in DOMAIN Records(v, s) :
          Dead(v, s, n)' <=> Dead(v, s, n) \/ (es # {} /\ v = v0 /\ s = s0 /\ n = n0)
    BY <1>4, <2>3, <2>4, <2>5 DEF Dead
  <2>7. \E e : es = {e} /\ e.vol = v0 /\ e.seg = s0
    BY <1>0, <1>1, <2>1, <2>5, MovedTyped
  <2>8. ~Dead(v0, s0, n0)
    BY <2>2 DEF Dead
  <2>9. Exact' /\ NoDeathsYet'
    <3>1. UNCHANGED content
      BY <1>1
    <3> QED
      BY <1>0, <1>2, <2>2, <2>5, <2>6, <2>7, <2>8, <3>1, OneDies
  <2>10. \A k \in Keys : index'[k] # NoEntry => PlaceGood(k)'
    BY <1>1, <1>3, <1>5, <2>3, EntryStays
  <2> QED
    BY <2>9, <2>10 DEF DeathPlaces
<1> QED
  BY <1>1, <1>6, <1>7

(* A copy that is put makes the record it was made from die.               *)
LEMMA PutDies ==
  ASSUME DeathInv, TypeOK', slips' \subseteq {"restamped"}, PutMoved
  PROVE  DeathPlaces' /\ Exact'
<1>0. HouseInv /\ TypeInv /\ TypeOK
  BY HouseFacts DEF DeathInv
<1>1. /\ mig.at = "put" /\ mig.pos \in DOMAIN mig.list /\ mig'.vol = mig.vol
      /\ mig'.at = "test" /\ mig'.pos = mig.pos + 1
      /\ index' = [index EXCEPT ![KeyOf[Moved.write]] = Moved]
      /\ ModifyDeathEntries({BeforeGC})
      /\ slips' = IF IsSameInMem(BeforeGC) THEN slips ELSE slips \cup {"overtaken"}
      /\ UNCHANGED <<content, batch>>
  BY <1>0, PutTyped DEF OthersKeep
<1>2. DeathPlaces /\ Exact /\ slips \subseteq {"restamped"} /\ IsSameInMem(BeforeGC)
  BY <1>1 DEF DeathInv
<1>3. /\ Placed
      /\ \A k \in Keys : index[k] # NoEntry =>
           /\ index[k].vol \in Vols /\ index[k].seg \in Nat /\ InUse(index[k].vol, index[k].seg)
           /\ index[k].pos \in DOMAIN Records(index[k].vol, index[k].seg)
           /\ Records(index[k].vol, index[k].seg)[index[k].pos] = index[k].write
           /\ KeyOf[index[k].write] = k
           /\ PlaceGood(k)
  BY <1>0, <1>2, AllHoused DEF DeathPlaces
<1>4. PICK v0, s0, n0, q, e, k0 :
        /\ v0 = mig.vol /\ s0 = Len(medium[mig.vol]) /\ n0 = mig.pos
        /\ e = Moved /\ k0 = KeyOf[Moved.write] /\ q = index[k0]
  OBVIOUS
<1>5. /\ v0 \in Vols /\ v0 # Fast /\ s0 \in Nat /\ InUse(v0, s0)
      /\ n0 \in DOMAIN Records(v0, s0) /\ n0 \in Nat /\ Waits(v0, s0, n0)
  BY <1>0, <1>1, <1>3, <1>4, CopyPlace
<1>6. /\ k0 \in Keys /\ e.vol = v0 /\ e.seg = s0 /\ e.pos = n0 /\ e # NoEntry
      /\ e.write = BeforeGC.write
  <2>1. Moved \in Entries
    BY <1>0, <1>1, MovedTyped
  <2> QED
    BY <1>0, <1>1, <1>4, <2>1, MovedTyped, MigrateAssumption
<1>7. q # NoEntry /\ SameAddress(q, BeforeGC)
  BY <1>2, <1>4, <1>6, SameInMem
<1>8. BeforeGC.vol = Fast /\ ~Tombstone(BeforeGC)
  <2>1. GoodLoad(BeforeGC)
    BY <1>1, <1>3 DEF Placed, LoadsAreGood, BeforeGC
  <2> QED
    BY <2>1 DEF GoodLoad
<1>9. /\ q.vol = Fast /\ q.vol \in Vols /\ q.seg \in Nat /\ InUse(q.vol, q.seg)
      /\ q.pos \in DOMAIN Records(q.vol, q.seg)
      /\ Indexed(q.vol, q.seg, q.pos) /\ ~Waits(q.vol, q.seg, q.pos)
  BY <1>3, <1>4, <1>6, <1>7, <1>8 DEF SameAddress, Indexed, PlaceGood
<1>10. \A k \in Keys : index'[k] = IF k = k0 THEN e ELSE index[k]
  <2>1. index \in [Keys -> MaybeEntries]
    BY <1>0 DEF TypeOK
  <2> QED
    BY <1>1, <1>4, <2>1
<1>11. \A v, s, n : Indexed(v, s, n)' <=>
         \/ v = v0 /\ s = s0 /\ n = n0
         \/ Indexed(v, s, n) /\ ~(v = q.vol /\ s = q.seg /\ n = q.pos)
  <2>1. \A k \in Keys : index[k] # NoEntry /\ index[k].vol = q.vol
          /\ index[k].seg = q.seg /\ index[k].pos = q.pos => k = k0
    BY <1>3, <1>4, <1>6, <1>7
  <2> QED
    BY <1>4, <1>6, <1>7, <1>10, <2>1 DEF Indexed
<1>12. \A v \in Vols : \A s \in Nat : InUse(v, s) => \A n \in DOMAIN Records(v, s) :
         Waits(v, s, n)' <=> Waits(v, s, n) /\ ~(v = v0 /\ s = s0 /\ n = n0)
  <2>1. \A v \in MediumVols : Len(medium'[v]) = Len(medium[v])
    BY <1>0, <1>1, DeathsTyped
  <2> QED
    BY <1>0, <1>1, <1>4, <2>1, CopyGoesOn
<1>13. PICK es : es = {BeforeGC} /\ ModifyDeathEntries(es)
  BY <1>1
<1>14. Exact' /\ NoDeathsYet'
  <2>1. \A v \in Vols : \A s \in Nat : InUse(v, s) => \A n \in DOMAIN Records(v, s) :
          Dead(v, s, n)' <=> Dead(v, s, n) \/ (es # {} /\ v = q.vol /\ s = q.seg /\ n = q.pos)
    BY <1>5, <1>9, <1>11, <1>12, <1>13 DEF Dead
  <2>2. \E f : es = {f} /\ f.vol = q.vol /\ f.seg = q.seg
    BY <1>7, <1>13 DEF SameAddress
  <2>3. ~Dead(q.vol, q.seg, q.pos)
    BY <1>9 DEF Dead
  <2>4. UNCHANGED content
    BY <1>1
  <2> QED
    BY <1>0, <1>2, <1>9, <1>13, <2>1, <2>2, <2>3, <2>4, OneDies
<1>15. ASSUME NEW k \in Keys, index'[k] # NoEntry PROVE PlaceGood(k)'
  <2>1. CASE k = k0
    <3>1. index'[k] = e
      BY <1>10, <2>1
    <3>2. ~Waits(v0, s0, n0)'
      BY <1>5, <1>12
    <3>3. ~Waits(index[k].vol, index[k].seg, index[k].pos)'
      BY <1>6, <3>1, <3>2 DEF Waits, Unindexed
    <3>4. ~Tombstone(index[k])' /\ index'[k].vol # Fast
      BY <1>5, <1>6, <1>8, <3>1 DEF Tombstone
    <3> QED
      BY <3>3, <3>4 DEF PlaceGood
  <2>2. CASE k # k0
    <3>1. \A c \in Batches : Stamped(c) =>
            Stamped(c)' /\ batch'[c].seg = batch[c].seg /\ batch'[c].stamp = batch[c].stamp
      BY <1>1 DEF Stamped
    <3>2. index'[k] = index[k] /\ index[k] # NoEntry
      BY <1>10, <1>15, <2>2
    <3> QED
      BY <1>3, <1>12, <3>1, <3>2, EntryStays
  <2> QED
    BY <2>1, <2>2
<1> QED
  BY <1>14, <1>15 DEF DeathPlaces

(* A step that indexes nothing and writes nothing.                         *)
SegsQuiet ==
  \A s \in Segs :
    \/ /\ segTable'[s].state = segTable[s].state
       /\ segTable'[s].death_size = segTable[s].death_size
    \/ segTable'[s].state # "USED" /\ segTable'[s].death_size = 0

BatchesQuiet ==
  \A c \in Batches :
    batch'[c] = batch[c]
      \/ (batch[c].at \notin {"update", "reap", "done"} /\ batch'[c].at # "update")

Copying(v, s, n) ==
  mig.at \in {"lock", "test", "put"} /\ mig.vol = v /\ s = Len(medium[v]) /\ n >= mig.pos

CopiesQuiet ==
  \A v \in MediumVols : \A s \in DOMAIN medium[v] : \A n \in DOMAIN Records(v, s) :
    Copying(v, s, n)' <=> Copying(v, s, n)

(* A step that indexes and writes nothing keeps the dead space exact.      *)
LEMMA QuietDies ==
  ASSUME DeathInv, TypeOK', slips' \subseteq {"restamped"}, slips \subseteq slips',
         UNCHANGED <<content, medium, index>>, SegsQuiet, BatchesQuiet, CopiesQuiet
  PROVE  DeathPlaces' /\ Exact'
<1>1. HouseInv /\ TypeOK /\ DeathPlaces /\ Exact /\ slips \subseteq {"restamped"}
  BY HouseFacts DEF DeathInv
<1>2. mig.vol \in MediumVols /\ mig'.vol \in MediumVols
  BY <1>1 DEF TypeOK, MigRecord
<1>3. \A s, n : Unindexed(s, n)' <=> Unindexed(s, n)
  BY DEF Unindexed, BatchesQuiet
<1>4. \A v \in Vols : \A s \in Nat : InUse(v, s) => \A n \in DOMAIN Records(v, s) :
        Waits(v, s, n)' <=> Waits(v, s, n)
  <2> SUFFICES ASSUME NEW v \in Vols, NEW s \in Nat, InUse(v, s), NEW n \in DOMAIN Records(v, s)
               PROVE  Waits(v, s, n)' <=> Waits(v, s, n)
    OBVIOUS
  <2>1. CASE v = Fast
    BY <1>2, <1>3, <2>1, FastIsApart DEF Waits
  <2>2. CASE v # Fast
    BY <2>2 DEF Waits, InUse, Vols, CopiesQuiet, Copying
  <2> QED
    BY <2>1, <2>2
<1>5. \A v, s, n : Indexed(v, s, n)' <=> Indexed(v, s, n)
  BY DEF Indexed
<1>6. \A v \in Vols : \A s \in Nat : InUse(v, s)' =>
        /\ InUse(v, s) /\ DeathOf(v, s)' = DeathOf(v, s)
        /\ Records(v, s)' = Records(v, s)
  BY FastIsApart DEF InUse, InState, DeathOf, Records, SegsQuiet
<1>7. Exact'
  <2>1. \A v \in Vols : \A s \in Nat : InUse(v, s)' =>
          \A n \in DOMAIN Records(v, s) : Dead(v, s, n)' <=> Dead(v, s, n)
    BY <1>4, <1>5, <1>6 DEF Dead
  <2> QED
    BY <1>1, <1>6, <2>1, NoneDies
<1>8. NoDeathsYet'
  BY <1>1 DEF DeathPlaces, NoDeathsYet, SegsQuiet
<1>9. \A k \in Keys : index'[k] # NoEntry => PlaceGood(k)'
  <2>1. \A c \in Batches : Stamped(c) =>
          Stamped(c)' /\ batch'[c].seg = batch[c].seg /\ batch'[c].stamp = batch[c].stamp
    BY DEF Stamped, BatchesQuiet
  <2>2. \A k \in Keys : index[k] # NoEntry =>
          /\ index[k].vol \in Vols /\ index[k].seg \in Nat /\ InUse(index[k].vol, index[k].seg)
          /\ index[k].pos \in DOMAIN Records(index[k].vol, index[k].seg)
          /\ PlaceGood(k)
    BY <1>1, AllHoused DEF DeathPlaces
  <2> QED
    BY <1>4, <2>1, <2>2, EntryStays
<1> QED
  BY <1>7, <1>8, <1>9 DEF DeathPlaces

(* The records of a segment just written all wait to be indexed.           *)
LEMMA WriteDies ==
  ASSUME DeathInv, TypeOK', slips' \subseteq {"restamped"}, NEW b \in Batches, WriteSeg(b)
  PROVE  DeathPlaces' /\ Exact'
<1>0. HouseInv /\ TypeInv /\ TypeOK
  BY HouseFacts DEF DeathInv
<1>1. /\ batch[b].at = "write" /\ batch'[b].at = "update"
      /\ batch'[b].seg = batch[b].seg /\ batch[b].seg \in Segs
      /\ batch'[b].next = 1
      /\ \A c \in Batches : c # b => batch'[c] = batch[c]
      /\ content'[batch[b].seg] = Items[b]
      /\ \A s \in Segs : s # batch[b].seg => content'[s] = content[s]
      /\ segTable'[batch[b].seg].state = "USED"
      /\ segTable'[batch[b].seg].death_size = segTable[batch[b].seg].death_size
      /\ \A s \in Segs : s # batch[b].seg => segTable'[s] = segTable[s]
      /\ UNCHANGED <<medium, index, mig, slips>>
  BY <1>0, WriteEffect
<1>2. PICK sb : sb = batch[b].seg
  OBVIOUS
<1>3. segTable[sb].state = "RESERVED"
  BY <1>0, <1>1, <1>2, HouseFacts DEF SegInv, Reserved
<1>4. DeathPlaces /\ Exact /\ slips \subseteq {"restamped"}
  BY <1>1 DEF DeathInv
<1>5. /\ ~InUse(Fast, sb) /\ sb \in Segs
      /\ \A v \in Vols : \A s \in Nat : InUse(v, s)' <=> InUse(v, s) \/ (v = Fast /\ s = sb)
      /\ \A v \in Vols : \A s \in Nat : InUse(v, s) =>
           DeathOf(v, s)' = DeathOf(v, s) /\ Records(v, s)' = Records(v, s)
  BY <1>1, <1>2, <1>3, FastIsApart DEF InUse, InState, DeathOf, Records
<1>6. \A s, n : s # sb => (Unindexed(s, n)' <=> Unindexed(s, n))
  BY <1>1, <1>2 DEF Unindexed
<1>7. \A v \in Vols : \A s \in Nat : InUse(v, s) => \A n \in DOMAIN Records(v, s) :
        Waits(v, s, n)' <=> Waits(v, s, n)
  <2> SUFFICES ASSUME NEW v \in Vols, NEW s \in Nat, InUse(v, s), NEW n \in DOMAIN Records(v, s)
               PROVE  Waits(v, s, n)' <=> Waits(v, s, n)
    OBVIOUS
  <2>1. v = Fast => s # sb
    BY <1>5
  <2> QED
    BY <1>1, <1>6, <2>1 DEF Waits
<1>8. \A v, s, n : Indexed(v, s, n)' <=> Indexed(v, s, n)
  BY <1>1 DEF Indexed
<1>9. Exact'
  <2>1. \A v \in Vols : \A s \in Nat : InUse(v, s) =>
          \A n \in DOMAIN Records(v, s) : Dead(v, s, n)' <=> Dead(v, s, n)
    BY <1>5, <1>7, <1>8 DEF Dead
  <2>2. DeathOf(Fast, sb)' = 0
    BY <1>1, <1>2, <1>3, <1>4, <1>5 DEF DeathPlaces, NoDeathsYet, DeathOf
  <2>3. \A n \in DOMAIN Items[b] : Waits(Fast, sb, n)'
    <3>1. DOMAIN Items[b] \subseteq Nat \ {0}
      BY MigrateAssumption
    <3> QED
      BY <1>1, <1>2, <3>1 DEF Waits, Unindexed
  <2>4. Records(Fast, sb)' = Items[b]
    BY <1>1, <1>2 DEF Records
  <2>5. \A v \in Vols : \A s \in Nat : InUse(v, s)' =>
          \/ /\ InUse(v, s) /\ DeathOf(v, s)' = DeathOf(v, s)
             /\ Records(v, s)' = Records(v, s)
             /\ \A n \in DOMAIN Records(v, s) : Dead(v, s, n)' <=> Dead(v, s, n)
          \/ /\ DeathOf(v, s)' = 0
             /\ \A n \in DOMAIN Records(v, s)' : Waits(v, s, n)'
    BY <1>5, <2>1, <2>2, <2>3, <2>4
  <2> QED
    BY <1>0, <1>4, <2>5, NoneDies
<1>10. NoDeathsYet'
  BY <1>1, <1>4 DEF DeathPlaces, NoDeathsYet
<1>11. \A k \in Keys : index'[k] # NoEntry => PlaceGood(k)'
  <2>1. \A c \in Batches : Stamped(c) =>
          Stamped(c)' /\ batch'[c].seg = batch[c].seg /\ batch'[c].stamp = batch[c].stamp
    BY <1>1 DEF Stamped
  <2>2. \A k \in Keys : index[k] # NoEntry =>
          /\ index[k].vol \in Vols /\ index[k].seg \in Nat /\ InUse(index[k].vol, index[k].seg)
          /\ index[k].pos \in DOMAIN Records(index[k].vol, index[k].seg)
          /\ PlaceGood(k)
    BY <1>0, <1>4, AllHoused DEF DeathPlaces
  <2>3. UNCHANGED index
    BY <1>1
  <2> QED
    BY <1>7, <2>1, <2>2, <2>3, EntryStays
<1> QED
  BY <1>9, <1>10, <1>11 DEF DeathPlaces

(* ... and so do the copies of a migration.                                *)
LEMMA WriteMigratedDies ==
  ASSUME DeathInv, TypeOK', slips' \subseteq {"restamped"}, WriteMigrated
  PROVE  DeathPlaces' /\ Exact'
<1>0. HouseInv /\ TypeInv /\ TypeOK
  BY HouseFacts DEF DeathInv
<1>1. /\ mig.at = "load" /\ mig.cands = <<>> /\ mig.vol \in MediumVols
      /\ mig'.at = "lock" /\ mig'.vol = mig.vol /\ mig'.pos = mig.pos
      /\ medium'[mig.vol] = Append(medium[mig.vol], [records |-> Copies, death |-> 0])
      /\ \A v \in MediumVols : v # mig.vol => medium'[v] = medium[v]
      /\ UNCHANGED <<segTable, content, index, batch, slips>>
  BY <1>0, WriteMigratedTyped DEF segVars, history
<1>2. DeathPlaces /\ Exact /\ slips \subseteq {"restamped"}
  BY <1>1 DEF DeathInv
<1>3. PICK v0, s0 : v0 = mig.vol /\ s0 = Len(medium[v0]) + 1
  OBVIOUS
<1>4. /\ Len(medium'[v0]) = s0 /\ s0 \notin DOMAIN medium[v0]
      /\ DOMAIN medium'[v0] = DOMAIN medium[v0] \cup {s0}
      /\ \A s \in DOMAIN medium[v0] : medium'[v0][s] = medium[v0][s] /\ s # s0
      /\ medium'[v0][s0] = [records |-> Copies, death |-> 0]
  <2>1. medium[v0] \in Seq([records : Seq(Writes), death : Nat])
    BY <1>0, <1>1, <1>3 DEF TypeOK
  <2> DEFINE m == medium[v0]
             R == [records : Seq(Writes), death : Nat]
             x == [records |-> Copies, death |-> 0]
  <2>2. medium'[v0] = Append(m, x) /\ m \in Seq(R) /\ s0 = Len(m) + 1
    BY <1>1, <1>3, <2>1
  <2> HIDE DEF m, R, x
  <2>3. /\ Len(Append(m, x)) = s0 /\ s0 \notin DOMAIN m
        /\ DOMAIN Append(m, x) = DOMAIN m \cup {s0}
        /\ \A s \in DOMAIN m : Append(m, x)[s] = m[s] /\ s # s0
        /\ Append(m, x)[s0] = x
    BY <2>2
  <2> QED
    BY <2>2, <2>3 DEF m, x
<1>5. v0 \in MediumVols /\ v0 # Fast
  BY <1>1, <1>3, FastIsApart
<1>6. /\ \A v \in Vols : \A s \in Nat : InUse(v, s)' <=> InUse(v, s) \/ (v = v0 /\ s = s0)
      /\ \A v \in Vols : \A s \in Nat : InUse(v, s) =>
           DeathOf(v, s)' = DeathOf(v, s) /\ Records(v, s)' = Records(v, s)
                /\ ~(v = v0 /\ s = s0)
  BY <1>1, <1>3, <1>4, <1>5, FastIsApart DEF InUse, InState, DeathOf, Records, Vols
<1>7. \A s, n : Unindexed(s, n)' <=> Unindexed(s, n)
  BY <1>1 DEF Unindexed
<1>8. \A v \in Vols : \A s \in Nat : InUse(v, s) => \A n \in DOMAIN Records(v, s) :
        Waits(v, s, n)' <=> Waits(v, s, n)
  BY <1>1, <1>3, <1>4, <1>6, <1>7 DEF Waits
<1>9. \A v, s, n : Indexed(v, s, n)' <=> Indexed(v, s, n)
  BY <1>1 DEF Indexed
<1>10. Exact'
  <2>1. \A v \in Vols : \A s \in Nat : InUse(v, s) =>
          \A n \in DOMAIN Records(v, s) : Dead(v, s, n)' <=> Dead(v, s, n)
    BY <1>6, <1>8, <1>9 DEF Dead
  <2>2. DeathOf(v0, s0)' = 0 /\ Records(v0, s0)' = Copies
    BY <1>4, <1>5 DEF DeathOf, Records
  <2>3. \A n \in DOMAIN Copies : Waits(v0, s0, n)'
    <3>1. DOMAIN Copies \subseteq Nat \ {0}
      BY <1>0, SegTypes DEF Copies
    <3>2. mig'.pos = 1
      BY <1>0, <1>1, <1>2, AllHoused DEF Placed, LoadsAreGood
    <3> QED
      BY <1>1, <1>3, <1>4, <3>1, <3>2 DEF Waits
  <2>4. \A v \in Vols : \A s \in Nat : InUse(v, s)' =>
          \/ /\ InUse(v, s) /\ DeathOf(v, s)' = DeathOf(v, s)
             /\ Records(v, s)' = Records(v, s)
             /\ \A n \in DOMAIN Records(v, s) : Dead(v, s, n)' <=> Dead(v, s, n)
          \/ /\ DeathOf(v, s)' = 0
             /\ \A n \in DOMAIN Records(v, s)' : Waits(v, s, n)'
    BY <1>6, <2>1, <2>2, <2>3
  <2> QED
    BY <1>0, <1>2, <2>4, NoneDies
<1>11. NoDeathsYet'
  BY <1>1, <1>2 DEF DeathPlaces, NoDeathsYet
<1>12. \A k \in Keys : index'[k] # NoEntry => PlaceGood(k)'
  <2>1. \A c \in Batches : Stamped(c) =>
          Stamped(c)' /\ batch'[c].seg = batch[c].seg /\ batch'[c].stamp = batch[c].stamp
    BY <1>1 DEF Stamped
  <2>2. \A k \in Keys : index[k] # NoEntry =>
          /\ index[k].vol \in Vols /\ index[k].seg \in Nat /\ InUse(index[k].vol, index[k].seg)
          /\ index[k].pos \in DOMAIN Records(index[k].vol, index[k].seg)
          /\ PlaceGood(k)
    BY <1>0, <1>2, AllHoused DEF DeathPlaces
  <2>3. UNCHANGED index
    BY <1>1
  <2> QED
    BY <1>8, <2>1, <2>2, <2>3, EntryStays
<1> QED
  BY <1>10, <1>11, <1>12 DEF DeathPlaces

(* Every step keeps stamps of different batches apart.                     *)
LEMMA StampsStay ==
  ASSUME HouseInv, StampsDiffer, [Next]_vars
  PROVE  StampsDiffer'
<1>0. TypeInv /\ \A b \in Batches : batch[b].stamp <= clock /\ batch[b].stamp \in Nat
  BY HouseFacts, SegTypes DEF SegInv, Bounded
<1>1. ASSUME \A c \in Batches : Stamped(c)' => Stamped(c) /\ batch'[c].stamp = batch[c].stamp
      PROVE  StampsDiffer'
  BY <1>1 DEF StampsDiffer
<1>2. ASSUME NEW b \in Batches, Write(b) PROVE StampsDiffer'
  <2>1. CASE WriteSeg(b)
    <3>1. /\ clock \in Nat /\ batch'[b].stamp = clock + 1
          /\ \A c \in Batches : c # b => batch'[c] = batch[c]
      BY <1>0, <2>1, WriteEffect, HouseFacts, SegTypes
    <3> QED
      BY <1>0, <3>1 DEF StampsDiffer, Stamped
  <2>2. CASE AllocSegment(b) \/ TryAlloc(b) \/ Refuse(b) \/ PickForClient(b)
    BY <1>0, <1>1, <2>2, AllocEffect DEF Stamped
  <2>3. CASE TakeSegment(b) \/ ForeMigrate(b) \/ WriteSegFails(b)
    BY <1>0, <1>1, <2>3, TakeEffect, ForeEffect, WriteFailsEffect DEF Stamped
  <2>4. CASE BatchUpdate(b) \/ Reap(b)
    BY <1>0, <1>1, <2>4, BatchUpdateTyped, ReapTyped DEF Stamped
  <2> QED
    BY <1>2, <2>1, <2>2, <2>3, <2>4 DEF Write
<1>3. CASE MigrationFails \/ MigrationDone
  BY <1>0, <1>1, <1>3, EndTyped DEF Stamped
<1>4. CASE \/ LoadEntry \/ PackCandidate \/ WriteMigrated \/ LockBatchMtx \/ IndexUpdated
           \/ TestSame \/ PutMoved \/ FreeMigrated \/ BackMigrate \/ ThreadPicks \/ UNCHANGED vars
  <2>1. UNCHANGED batch
    BY <1>4 DEF LoadEntry, PackCandidate, WriteMigrated, LockBatchMtx, IndexUpdated, TestSame,
                PutMoved, FreeMigrated, BackMigrate, ThreadPicks, OthersKeep, vars
  <2> QED
    BY <1>1, <2>1 DEF Stamped
<1> QED
  BY <1>2, <1>3, <1>4 DEF Next, doMigrate

(* No dead space in the opened store.                                      *)
LEMMA DeathInit == Init => DeathInv
<1> SUFFICES ASSUME Init PROVE DeathInv
  OBVIOUS
<1>1. HouseInv
  BY HouseInit
<1>2. StampsDiffer
  BY DEF Init, StampsDiffer, Stamped, NewBatch
<1>3. DeathPlaces
  <2>1. \A s \in Segs : segTable[s].death_size = 0
    BY DEF Init, SegInit, FreshStat
  <2> QED
    BY <2>1 DEF Init, DeathPlaces, NoDeathsYet
<1>4. Exact
  <2>1. \A s \in Segs : segTable[s].state # "USED"
    BY DEF Init, SegInit, FreshStat
  <2>2. \A v \in MediumVols : DOMAIN medium[v] = {}
    BY DEF Init
  <2> QED
    BY <2>1, <2>2 DEF Exact, InUse, InState
<1> QED
  BY <1>1, <1>2, <1>3, <1>4 DEF DeathInv

(* Every step keeps the dead space exact.                                  *)
LEMMA DeathStep == DeathInv /\ [Next]_vars => DeathInv'
<1> SUFFICES ASSUME DeathInv, [Next]_vars PROVE DeathInv'
  OBVIOUS
<1>0. HouseInv /\ TypeInv /\ HouseInv' /\ TypeOK' /\ StampsDiffer'
  BY HouseStep, StampsStay, HouseFacts DEF DeathInv, HouseInv, SegInv, TypeInv
<1> SUFFICES ASSUME slips' \subseteq {"restamped"} PROVE DeathPlaces' /\ Exact'
  BY <1>0 DEF DeathInv
<1>9. CASE /\ SegsQuiet /\ BatchesQuiet /\ slips \subseteq slips'
           /\ mig.at \notin {"lock", "test", "put"} /\ mig'.at \notin {"lock", "test", "put"}
           /\ UNCHANGED <<content, medium, index>>
  <2>1. CopiesQuiet
    BY <1>9 DEF CopiesQuiet, Copying
  <2> QED
    BY <1>0, <1>9, <2>1, QuietDies
<1>10. CASE /\ SegsQuiet /\ BatchesQuiet /\ slips \subseteq slips'
            /\ UNCHANGED <<content, medium, index, mig>>
  <2>1. CopiesQuiet
    BY <1>10 DEF CopiesQuiet, Copying
  <2> QED
    BY <1>0, <1>10, <2>1, QuietDies
<1>11. UNCHANGED segTable => SegsQuiet
  BY DEF SegsQuiet
<1>12. UNCHANGED batch => BatchesQuiet
  BY DEF BatchesQuiet
<1>1. ASSUME NEW b \in Batches, Write(b) PROVE DeathPlaces' /\ Exact'
  <2>1. CASE AllocSegment(b) \/ TryAlloc(b) \/ Refuse(b) \/ PickForClient(b)
    <3>1. /\ batch[b].at \in {"new", "try"}
          /\ batch'[b].at \notin {"write", "update", "reap", "done"}
          /\ \A c \in Batches : c # b => batch'[c] = batch[c]
          /\ UNCHANGED <<segTable, content, medium, index, mig, slips>>
      BY <1>0, <2>1, AllocEffect DEF segVars
    <3>2. BatchesQuiet
      BY <3>1 DEF BatchesQuiet
    <3> QED
      BY <1>10, <1>11, <3>1, <3>2
  <2>2. CASE TakeSegment(b)
    <3>1. /\ batch[b].at = "take" /\ batch'[b].at = "write"
          /\ \A c \in Batches : c # b => batch'[c] = batch[c]
          /\ UNCHANGED <<content, medium, index, mig, slips>>
      BY <1>0, <2>2, TakeEffect
    <3>2. NoDeathsYet
      BY <3>1 DEF DeathInv, DeathPlaces
    <3>3. SegsQuiet
      BY <1>0, <2>2, <3>2, TakeEffect DEF NoDeathsYet, SegsQuiet
    <3>4. BatchesQuiet
      BY <3>1 DEF BatchesQuiet
    <3> QED
      BY <1>10, <3>1, <3>3, <3>4
  <2>3. CASE ForeMigrate(b)
    <3>1. /\ batch[b].at = "migrate" /\ batch'[b].at \in {"try", "moving"}
          /\ \A c \in Batches : c # b => batch'[c] = batch[c]
          /\ mig.at = "idle" /\ mig'.at \in {"idle", "load"}
          /\ UNCHANGED <<segTable, content, medium, index, slips>>
      BY <1>0, <2>3, ForeEffect DEF segVars, ForeMigrate, StartMigration, NoMigration
    <3>2. BatchesQuiet
      BY <3>1 DEF BatchesQuiet
    <3> QED
      BY <1>9, <1>11, <3>1, <3>2
  <2>4. CASE WriteSegFails(b)
    <3>1. /\ batch[b].at = "write" /\ batch'[b].at = "failed"
          /\ \A c \in Batches : c # b => batch'[c] = batch[c]
          /\ UNCHANGED <<content, medium, index, mig, slips>>
      BY <1>0, <2>4, WriteFailsEffect
    <3>2. SegsQuiet
      BY <1>0, <2>4, WriteFailsEffect DEF SegsQuiet
    <3>3. BatchesQuiet
      BY <3>1 DEF BatchesQuiet
    <3> QED
      BY <1>10, <3>1, <3>2, <3>3
  <2>5. CASE WriteSeg(b) \/ BatchUpdate(b) \/ Reap(b)
    BY <1>0, <2>5, WriteDies, UpdateDies, ReapDies
  <2> QED
    BY <1>1, <2>1, <2>2, <2>3, <2>4, <2>5 DEF Write
<1>2. CASE ThreadPicks \/ UNCHANGED vars
  <2>1. UNCHANGED <<segTable, content, medium, index, mig, slips, batch>>
    BY <1>2 DEF ThreadPicks, vars, dataVars, segVars, history
  <2> QED
    BY <1>10, <1>11, <1>12, <2>1
<1>3. CASE BackMigrate
  <2>1. /\ UNCHANGED <<segTable, content, medium, index, slips, batch>>
        /\ mig.at = "idle" /\ mig'.at = "load"
    BY <1>3 DEF BackMigrate, dataVars, segVars, history, StartMigration, NoMigration
  <2> QED
    BY <1>9, <1>11, <1>12, <2>1
<1>4. CASE MigrationFails \/ MigrationDone
  <2>1. /\ mig'.at = "idle" /\ mig.at \in {"load", "free"}
        /\ \A b \in Batches : batch'[b] = batch[b]
             \/ (batch[b].at = "moving" /\ batch'[b].at = "try")
        /\ UNCHANGED <<segTable, content, medium, index, slips>>
    BY <1>0, <1>4, EndTyped
       DEF dataVars, segVars, history, NoMigration, MigrationFails, MigrationDone
  <2>2. BatchesQuiet
    BY <2>1 DEF BatchesQuiet
  <2> QED
    BY <1>9, <1>11, <2>1, <2>2
<1>5. CASE LoadEntry \/ PackCandidate
  <2>1. /\ mig'.at = "load" /\ mig.at = "load" /\ slips \subseteq slips'
        /\ UNCHANGED <<segTable, content, medium, index, batch>>
    BY <1>0, <1>5, LoadTyped, PackTyped DEF segVars, OthersKeep
  <2> QED
    BY <1>9, <1>11, <1>12, <2>1
<1>6. CASE LockBatchMtx \/ IndexUpdated
  <2>1. /\ \/ mig.at = "lock" /\ mig'.at = "test"
           \/ mig.at = "test" /\ mig'.at = "free" /\ mig.pos \notin DOMAIN mig.list
        /\ mig'.vol = mig.vol /\ mig'.pos = mig.pos
        /\ UNCHANGED <<segTable, content, medium, index, batch, slips>>
    BY <1>0, <1>6, LockTyped DEF segVars, OthersKeep
  <2>2. CASE mig.at = "lock" /\ mig'.at = "test"
    <3>1. CopiesQuiet
      BY <2>1, <2>2 DEF CopiesQuiet, Copying
    <3> QED
      BY <1>0, <1>11, <1>12, <2>1, <3>1, QuietDies
  <2>3. CASE mig.at = "test" /\ mig'.at = "free" /\ mig.pos \notin DOMAIN mig.list
    <3>1. medium[mig.vol][Len(medium[mig.vol])].records = Copies
      BY <1>0, <2>1, <2>3, AllHoused DEF Placed, CopiesAreThere
    <3>2. mig.list \in Seq(Entries) /\ mig.pos \in Nat \ {0} /\ mig.vol # Fast
      BY <1>0, HouseFacts, SegTypes, FastIsApart
    <3>3. \A n \in DOMAIN Copies : ~(n >= mig.pos)
      BY <2>3, <3>2 DEF Copies
    <3>4. Records(mig.vol, Len(medium[mig.vol])) = Copies
      BY <3>1, <3>2 DEF Records
    <3>5. \A v \in MediumVols : \A s \in DOMAIN medium[v] : \A n \in DOMAIN Records(v, s) :
            ~(mig.vol = v /\ s = Len(medium[v]) /\ n >= mig.pos)
      BY <3>3, <3>4
    <3>6. CopiesQuiet
      BY <2>3, <3>5 DEF CopiesQuiet, Copying
    <3> QED
      BY <1>0, <1>11, <1>12, <2>1, <3>6, QuietDies
  <2> QED
    BY <2>1, <2>2, <2>3
<1>7. CASE FreeMigrated
  <2>1. /\ mig.at = "free" /\ mig'.at = "free" /\ mig.frees[1] \in Segs
        /\ FreeForGC(mig.frees[1])
        /\ UNCHANGED <<content, medium, index, slips, batch>>
    BY <1>0, <1>7, FreeMigratedTyped DEF OthersKeep
  <2>2. SegsQuiet
    BY <2>1, FreeTyped, HouseFacts, <1>0 DEF SegsQuiet
  <2> QED
    BY <1>9, <1>12, <2>1, <2>2
<1>8. CASE WriteMigrated \/ TestSame \/ PutMoved
  BY <1>0, <1>8, WriteMigratedDies, TestDies, PutDies
<1> QED
  BY <1>1, <1>2, <1>3, <1>4, <1>5, <1>6, <1>7, <1>8 DEF Next, doMigrate

(* What the segments of either tier count as dead is dead and nothing      *)
(* else, while no slip but an update dropped for its stamp happens.        *)
THEOREM DeathsAreExact == Spec => []DeathIsExact
<1>1. DeathInv => DeathIsExact
  <2> SUFFICES ASSUME DeathInv, slips \subseteq {"restamped"}
               PROVE  /\ \A s \in InState("USED") :
                           segTable[s].death_size = Cardinality(DeadRecords(Fast, s, content[s]))
                      /\ \A v \in MediumVols : \A s \in DOMAIN medium[v] :
                           medium[v][s].death =
                             Cardinality(DeadRecords(v, s, medium[v][s].records))
    BY DEF DeathIsExact
  <2>1. \A v \in Vols : \A s \in Nat : InUse(v, s) =>
          DeathOf(v, s) = Cardinality(DeadRecords(v, s, Records(v, s)))
    BY DeadAreDead DEF DeathInv, Exact
  <2>2. ASSUME NEW s \in InState("USED")
        PROVE  segTable[s].death_size = Cardinality(DeadRecords(Fast, s, content[s]))
    <3>1. s \in Nat /\ InUse(Fast, s) /\ Fast \in Vols
      BY <2>2, SegsAreNumbers DEF InUse, InState, Vols
    <3> QED
      BY <2>1, <3>1 DEF DeathOf, Records
  <2>3. ASSUME NEW v \in MediumVols, NEW s \in DOMAIN medium[v]
        PROVE  medium[v][s].death = Cardinality(DeadRecords(v, s, medium[v][s].records))
    <3>1. medium[v] \in Seq([records : Seq(Writes), death : Nat])
      BY HouseFacts DEF DeathInv, TypeOK
    <3>2. s \in Nat /\ InUse(v, s) /\ v \in Vols /\ v # Fast
      BY <3>1, FastIsApart DEF InUse, Vols
    <3> QED
      BY <2>1, <3>2 DEF DeathOf, Records
  <2> QED
    BY <2>2, <2>3
<1> QED
  BY <1>1, DeathInit, DeathStep, PTL DEF Spec
=============================================================================
