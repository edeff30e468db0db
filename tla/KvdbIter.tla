------------------------------ MODULE KvdbIter ------------------------------
(***************************************************************************)
(* The iterator (src/src/KvdbIter.cc) over the chains of the hash table    *)
(* (src/src/include/LinkedList.h) while IndexManager changes them.  It     *)
(* remembers a slot, a number in the slot's list and a pointer to the      *)
(* entry, and takes no mutex: the size of a list is read in one step and   *)
(* the list walked in a later one.                                         *)
(*                                                                         *)
(* A list is the sequence of its keys; put replaces the data of a node in  *)
(* place, so only the first and the last entry of a key change it.  One    *)
(* iterator makes one pass here, forwards with Next or backwards with Prev.*)
(***************************************************************************)
EXTENDS IndexManager, SequencesExt

VARIABLES entryList, (* entryList_ of each slot                            *)
          iter       (* the iterator, and what it has shown so far         *)

iterVars == <<vars, entryList, iter>>

ASSUME SlotAssumption == SlotOf \in [Keys -> 0 .. htSize - 1]

Slots == 0 .. htSize - 1

KvdbIter ==
  [at |-> "unused",
   slot |-> 0,       (* hashTableCur_                                      *)
   no |-> 0,         (* entryListCur_                                      *)
   key |-> NoUpdate, (* hashEntry_, by the key of the entry it points to   *)
   dir |-> 1,        (* 1: goes on with Next, -1: with Prev                *)
   seen |-> {},      (* history: the keys it has stood on                  *)
   again |-> FALSE,  (* history: has it come to a key twice?               *)
   whole |-> {},     (* history: the keys a pass over all slots began with *)
   removed |-> FALSE (* history: has an entry left the table meanwhile?    *)
  ]

IterInit ==
  /\ Init
  /\ entryList = [s \in Slots |-> <<>>]
  /\ iter = KvdbIter

-----------------------------------------------------------------------------
(* The lists follow the index. *)

(* LinkedList::put of a new key: the new node goes to the end.             *)
Put(list, k) == Append(list, k)

(* LinkedList::remove: the first node of the key is unlinked.              *)
Unlink(list, k) ==
  IF \E n \in DOMAIN list : list[n] = k
  THEN RemoveAt(list, CHOOSE n \in DOMAIN list : list[n] = k)
  ELSE list

Gained == {k \in Keys : entries[k] = NoUpdate /\ entries'[k] # NoUpdate}
Lost == {k \in Keys : entries[k] # NoUpdate /\ entries'[k] = NoUpdate}

(* A step of IndexManager and what it does to the list of the slot.        *)
IndexStep ==
  /\ Next
  /\ entryList' = [s \in Slots |->
       LET new == {k \in Gained : SlotOf[k] = s}
           old == {k \in Lost : SlotOf[k] = s}
       IN IF new # {} THEN Put(entryList[s], CHOOSE k \in new : TRUE)
          ELSE IF old # {} THEN Unlink(entryList[s], CHOOSE k \in old : TRUE)
          ELSE entryList[s]]
  /\ iter' = [iter EXCEPT !.removed = iter.at # "unused" /\ (@ \/ Lost # {})]

-----------------------------------------------------------------------------
(* The iterator. *)

(* SeekToFirst and SeekToLast up to their loops over the slots.            *)
SeekToEnd(dir) ==
  /\ iter.at = "unused"
  /\ iter' = [iter EXCEPT !.at = "scan", !.dir = dir, !.whole = Live,
                          !.slot = IF dir = 1 THEN 0 ELSE htSize - 1]

(* Seek: getRef finds the key in its slot, or in none.                     *)
Seek(k, dir) ==
  /\ iter.at = "unused"
  /\ iter' = IF k \in Live
             THEN [iter EXCEPT !.at = "number", !.dir = dir, !.slot = SlotOf[k], !.key = k]
             ELSE [iter EXCEPT !.at = "invalid"]

(* searchNo, which starts from the head again: -1 if the node has gone.    *)
SeekNumber ==
  /\ iter.at = "number"
  /\ LET list == entryList[iter.slot]
         found == {n \in DOMAIN list : list[n] = iter.key}
     IN iter' = [iter EXCEPT !.at = "valid", !.seen = {iter.key},
                             !.no = IF found = {} THEN -1 ELSE (CHOOSE n \in found : TRUE) - 1]

(* One turn of the loops over the slots: get_size, and the slot is taken   *)
(* if it has entries.                                                      *)
ScanSlot ==
  /\ iter.at = "scan"
  /\ iter' =
       IF iter.slot \notin Slots THEN [iter EXCEPT !.at = "invalid"]
       ELSE LET size == Len(entryList[iter.slot])
            IN IF size = 0 THEN [iter EXCEPT !.slot = @ + iter.dir]
               ELSE [iter EXCEPT !.at = "get", !.no = IF iter.dir = 1 THEN 0 ELSE size - 1]

(* getByNo.  Its test lets no = size_ pass, and the address it then makes  *)
(* from the NULL at the end of the list is not NULL.                       *)
GetByNo ==
  /\ iter.at = "get"
  /\ LET list == entryList[iter.slot]
     IN iter' =
          IF iter.no > Len(list) THEN [iter EXCEPT !.at = "invalid"]
          ELSE IF iter.no = Len(list) THEN [iter EXCEPT !.at = "wild"]
          ELSE LET k == list[iter.no + 1]
               IN [iter EXCEPT !.at = "valid", !.key = k, !.seen = @ \cup {k},
                               !.again = @ \/ k \in iter.seen]

(* Mutant: the last entry of a list is left out.                           *)
MutMoreInSlot(size) == IF iter.dir = 1 THEN iter.no < size - 2 ELSE iter.no > 1

(* Is there another entry of the same slot in the direction?               *)
MoreInSlot(size) == IF iter.dir = 1 THEN iter.no < size - 1 ELSE iter.no > 0

(* Next or Prev up to the next look at a list.                             *)
Advance ==
  /\ iter.at = "valid"
  /\ iter' = IF MoreInSlot(Len(entryList[iter.slot]))
             THEN [iter EXCEPT !.at = "get", !.no = @ + iter.dir]
             ELSE [iter EXCEPT !.at = "scan", !.slot = @ + iter.dir]

IterStep ==
  \/ \E dir \in {1, -1} : SeekToEnd(dir) \/ \E k \in Keys : Seek(k, dir)
  \/ SeekNumber \/ ScanSlot \/ GetByNo \/ Advance

IterNext == IndexStep \/ (IterStep /\ UNCHANGED <<vars, entryList>>)

IterSpec == IterInit /\ [][IterNext]_iterVars

-----------------------------------------------------------------------------
(* Properties. *)

(* The list of a slot holds the keys of its entries, each once.            *)
ListsMatch ==
  \A s \in Slots :
    LET keys == {k \in Live : SlotOf[k] = s}
    IN /\ {entryList[s][n] : n \in DOMAIN entryList[s]} = keys
       /\ Len(entryList[s]) = Cardinality(keys)

(* Types, lists and dead space of the index agree, whatever the order of   *)
(* inserts, deletes, expired updates and removals.                         *)
Consistent == TypeOK /\ DeathIsExact /\ ListsMatch

(* As long as no entry leaves the table, a pass meets every key that was   *)
(* there when it began, and no key twice, whatever is inserted meanwhile;  *)
(* and a valid iterator points to an entry of the table.  (A removal moves *)
(* the rest of a list: the next key is skipped, or met again backwards, or *)
(* the pointer is wild.)                                                   *)
EveryKeyOnce ==
  ~iter.removed =>
    /\ ~iter.again
    /\ iter.at # "wild"
    /\ iter.at = "valid" => \E n \in DOMAIN entryList[iter.slot] :
                               entryList[iter.slot][n] = iter.key
    /\ iter.at = "invalid" => iter.whole \subseteq iter.seen
=============================================================================
