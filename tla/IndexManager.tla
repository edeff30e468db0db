---------------------------- MODULE IndexManager ----------------------------
(***************************************************************************)
(* The hash index (src/src/IndexManager.cc): the threads that update it at *)
(* the end of their writes, each under the mutex of one slot, and the      *)
(* reaper.  Here are the accounts that hang on an update: keyCounter_,     *)
(* dataTheorySize_ and, through ModifyDeathEntry, death_size of the        *)
(* segments.  The order of updates of one key is WritePipeline's subject.  *)
(*                                                                         *)
(* An update is the request it belongs to: its key, size, segment and      *)
(* stamp are constants.  mtx_ is taken twice by an insert, once to compare *)
(* keyCounter_ with htSize_ and once to increment it.                      *)
(***************************************************************************)
EXTENDS Integers, FiniteSets, FiniteSetsExt

CONSTANTS Keys, Segments, Updates, NoUpdate,
          KeyOf, SlotOf,  (* key of an update, slot of a key               *)
          SegOf, StampOf, (* segment and LogicStamp of an update's entry   *)
          SizeOf,         (* data_size, 0 for a delete or an empty value   *)
          Deletes,        (* updates without data                          *)
          Reaped,         (* deletes that come through a SegForReq         *)
          HeaderSize,     (* SizeOfDataHeader()                            *)
          htSize,         (* htSize_                                       *)
          Word            (* size of the range of dataTheorySize_          *)

ASSUME IndexManagerAssumption ==
  /\ IsFiniteSet(Updates) /\ IsFiniteSet(Keys) /\ NoUpdate \notin Updates
  /\ KeyOf \in [Updates -> Keys]
  /\ SegOf \in [Updates -> Segments]
  /\ StampOf \in [Updates -> Nat]
  /\ SizeOf \in [Updates -> Nat]
  /\ Deletes \subseteq Updates /\ Reaped \subseteq Deletes
  /\ \A r \in Deletes : SizeOf[r] = 0
  /\ {HeaderSize, htSize, Word} \subseteq Nat \ {0}

VARIABLES pc,             (* where each update is                          *)
          entries,        (* the hashtable: the entry of each key          *)
          keyCounter,     (* keyCounter_                                   *)
          dataTheorySize, (* dataTheorySize_                               *)
          death_size,     (* death_size of each segment                    *)
          slips           (* history: what the code does not guard against *)
                          (* and has happened: two inserts between test    *)
                          (* and increment at once ("raced"), a write over *)
                          (* a tombstone ("rewritten"), an empty value     *)
                          (* taken for a tombstone ("emptied")             *)

vars == <<pc, entries, keyCounter, dataTheorySize, death_size, slips>>

Init ==
  /\ pc = [r \in Updates |-> "start"]
  /\ entries = [k \in Keys |-> NoUpdate]
  /\ keyCounter = 0
  /\ dataTheorySize = 0
  /\ death_size = [g \in Segments |-> 0]
  /\ slips = {}

(* The bytes of an entry that Volume::ModifyDeathEntry counts.             *)
EntrySize(r) == HeaderSize + SizeOf[r]

(* slotMtx_ of the update's slot is free.                                  *)
SlotFree(r) ==
  \A u \in Updates : pc[u] = "insert" => SlotOf[KeyOf[u]] # SlotOf[KeyOf[r]]

InMem(r) == entries[KeyOf[r]]

ModifyDeathEntry(r) == death_size' = [death_size EXCEPT ![SegOf[r]] = @ + EntrySize(r)]

Done(r) == pc' = [pc EXCEPT ![r] = "done"]

(* A write with a pointer to no data: UpdateIndex takes it for a value     *)
(* while it looks at the pointer, for a delete when it looks at data_size. *)
EmptyValue(r) == SizeOf[r] = 0 /\ r \notin Deletes

-----------------------------------------------------------------------------
(* UpdateIndex, by its branches.  Every branch but the insert is one step  *)
(* under the slot's mutex.                                                 *)

(* Mutant: the test lets one entry too many in.                            *)
MutTableFull == keyCounter = htSize + 1

(* keyCounter_ == htSize_                                                  *)
TableFull == keyCounter = htSize

(* Inserts that have passed the test and not yet counted themselves.       *)
Inserting == {r \in Updates : pc[r] = "insert"}

(* A new key: the table has room, and the thread keeps the slot.           *)
InsertStarts(r) ==
  /\ pc[r] = "start" /\ SlotFree(r)
  /\ InMem(r) = NoUpdate /\ r \notin Deletes
  /\ ~TableFull
  /\ slips' = IF Inserting = {} THEN slips ELSE slips \cup {"raced"}
  /\ pc' = [pc EXCEPT ![r] = "insert"]
  /\ UNCHANGED <<entries, keyCounter, dataTheorySize, death_size>>

(* A new key in a full table: UpdateIndex returns false, which no caller   *)
(* looks at, and the bytes are not counted as dead.                        *)
InsertRefused(r) ==
  /\ pc[r] = "start" /\ SlotFree(r)
  /\ InMem(r) = NoUpdate /\ r \notin Deletes
  /\ TableFull
  /\ pc' = [pc EXCEPT ![r] = "refused"]
  /\ UNCHANGED <<entries, keyCounter, dataTheorySize, death_size, slips>>

(* The put and, under mtx_ again, the increments.  Nobody else sees the    *)
(* slot in between.                                                        *)
InsertEnds(r) ==
  /\ pc[r] = "insert"
  /\ entries' = [entries EXCEPT ![KeyOf[r]] = r]
  /\ keyCounter' = keyCounter + 1
  /\ dataTheorySize' = (dataTheorySize + EntrySize(r)) % Word
  /\ Done(r)
  /\ UNCHANGED <<death_size, slips>>

(* Mutant: the dropped delete is not counted as dead.                      *)
MutDeleteOfNothing(r) ==
  /\ pc[r] = "start" /\ SlotFree(r)
  /\ InMem(r) = NoUpdate /\ r \in Deletes
  /\ Done(r)
  /\ UNCHANGED <<entries, keyCounter, dataTheorySize, death_size, slips>>

(* "It's a invalid delete operation"                                       *)
DeleteOfNothing(r) ==
  /\ pc[r] = "start" /\ SlotFree(r)
  /\ InMem(r) = NoUpdate /\ r \in Deletes
  /\ ModifyDeathEntry(r)
  /\ Done(r)
  /\ UNCHANGED <<entries, keyCounter, dataTheorySize, slips>>

(* "request is expired!"                                                   *)
Expired(r) ==
  /\ pc[r] = "start" /\ SlotFree(r)
  /\ InMem(r) # NoUpdate /\ StampOf[r] < StampOf[InMem(r)]
  /\ ModifyDeathEntry(r)
  /\ Done(r)
  /\ UNCHANGED <<entries, keyCounter, dataTheorySize, slips>>

(* Mutant: a delete takes off the data and leaves the header.              *)
MutTheoryAfter(r) == (dataTheorySize + SizeOf[r] - SizeOf[InMem(r)]) % Word

(* dataTheorySize_ after r replaces the entry in memory.                   *)
TheoryAfter(r) ==
  IF SizeOf[r] = 0
  THEN (dataTheorySize - EntrySize(InMem(r))) % Word
  ELSE (dataTheorySize + SizeOf[r] - SizeOf[InMem(r)]) % Word

Replace(r) ==
  /\ pc[r] = "start" /\ SlotFree(r)
  /\ InMem(r) # NoUpdate /\ StampOf[r] >= StampOf[InMem(r)]
  /\ ModifyDeathEntry(InMem(r))
  /\ dataTheorySize' = TheoryAfter(r)
  /\ entries' = [entries EXCEPT ![KeyOf[r]] = r]
  /\ slips' = slips \cup (IF InMem(r) \in Deletes THEN {"rewritten"} ELSE {})
                    \cup (IF EmptyValue(r) THEN {"emptied"} ELSE {})
  /\ Done(r)
  /\ UNCHANGED keyCounter

UpdateIndex(r) ==
  \/ InsertStarts(r) \/ InsertRefused(r) \/ InsertEnds(r)
  \/ DeleteOfNothing(r) \/ Expired(r) \/ Replace(r)

-----------------------------------------------------------------------------
(* The reaper. *)

(* The reaper comes when all updates of the segment are over.              *)
SegmentCommitted(g) == \A r \in Updates : SegOf[r] = g => pc[r] \notin {"start", "insert"}

(* Mutant: the removed tombstone keeps its place in the count.             *)
MutCountAfterRemove == keyCounter

CountAfterRemove == keyCounter - 1

(* RemoveEntry for the delete r, which compares segment times; two updates *)
(* have the same segment time iff they are in the same segment.            *)
RemoveEntry(r) ==
  /\ r \in Reaped /\ pc[r] = "done"
  /\ SegmentCommitted(SegOf[r])
  /\ SlotFree(r)
  /\ pc' = [pc EXCEPT ![r] = "reaped"]
  /\ IF /\ InMem(r) # NoUpdate
        /\ SegOf[InMem(r)] = SegOf[r]
        /\ SizeOf[InMem(r)] = 0
     THEN /\ entries' = [entries EXCEPT ![KeyOf[r]] = NoUpdate]
          /\ ModifyDeathEntry(r)
          /\ keyCounter' = CountAfterRemove
          /\ slips' = IF EmptyValue(InMem(r)) THEN slips \cup {"emptied"} ELSE slips
     ELSE UNCHANGED <<entries, keyCounter, death_size, slips>>
  /\ UNCHANGED dataTheorySize

Next == \E r \in Updates : UpdateIndex(r) \/ RemoveEntry(r)

Spec == Init /\ [][Next]_vars

-----------------------------------------------------------------------------
(* Properties. *)

TypeOK ==
  /\ pc \in [Updates -> {"start", "insert", "done", "refused", "reaped"}]
  /\ entries \in [Keys -> Updates \cup {NoUpdate}]
  /\ keyCounter \in Nat
  /\ dataTheorySize \in 0 .. Word - 1
  /\ death_size \in [Segments -> Nat]
  /\ slips \subseteq {"raced", "rewritten", "emptied"}

Live == {k \in Keys : entries[k] # NoUpdate}
LiveIn(g) == {entries[k] : k \in {j \in Live : SegOf[entries[j]] = g}}

(* keyCounter_ is the number of entries, tombstones included: what the     *)
(* index on disk is checked against when the database is opened.           *)
CounterIsExact == keyCounter = Cardinality(Live)

(* The bytes of the entries of some updates.                               *)
TotalSize(S) == MapThenSumSet(EntrySize, S)

(* Of the bytes written to a segment, each is either live in the index or  *)
(* counted as dead, once: so used_size of the segment, by which GC chooses,*)
(* is what the segment really holds.  True once its updates are over and   *)
(* none was refused.                                                       *)
DeathIsExact ==
  \A g \in Segments :
    LET written == {r \in Updates : SegOf[r] = g}
    IN (SegmentCommitted(g) /\ \A r \in written : pc[r] # "refused") =>
         death_size[g] + TotalSize(LiveIn(g)) =
           TotalSize(written)

(* The entries of values.                                                 *)
Values == {entries[k] : k \in {j \in Live : entries[j] \notin Deletes}}

(* dataTheorySize_, by which BackGC decides whether to collect, is the size *)
(* of the live data, as long as no tombstone has been written over (the    *)
(* header that a delete took off is then taken off again or never put back)*)
(* and no empty value has replaced an entry or been reaped as a tombstone. *)
TheoryIsExact ==
  slips \subseteq {"raced"} =>
    dataTheorySize = TotalSize(Values) % Word

(* No more entries than the table, and the area for it on disk, were sized *)
(* for, as long as no two inserts are between the test of keyCounter_ and  *)
(* its increment at once; afterwards the test for equality is of no use.   *)
TableHoldsEntries == "raced" \notin slips => Cardinality(Live) <= htSize
=============================================================================
