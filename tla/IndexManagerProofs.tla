-------------------------- MODULE IndexManagerProofs --------------------------
(***************************************************************************)
(* The index and its iterator, for any keys, slots, sizes and updates.     *)
(*                                                                         *)
(* keyCounter_ is exact although it is compared and incremented under mtx_ *)
(* and the entry put outside it: the slot's mutex keeps every other update *)
(* of the key out meanwhile.  Dead space and live size are sums of unsigned*)
(* sizes; each step moves one update from one sum to the other, or drops   *)
(* it.  An iterator has met what lies behind it in its slot and in the     *)
(* slots behind, and nothing else.                                         *)
(***************************************************************************)
EXTENDS KvdbIter, FiniteSetTheorems, SequenceTheorems,
        WellFoundedInduction, TLAPS

-----------------------------------------------------------------------------
(* Numbers: induction goes by the least one that fails, so that no lemma   *)
(* has an operator as its parameter.                                       *)

(* A set of natural numbers that is not empty has a least element.         *)
LEMMA LeastNatural ==
  ASSUME NEW T \in SUBSET Nat, T # {}
  PROVE  \E x \in T : \A y \in T : x <= y
<1> DEFINE R == {ss \in Nat \X Nat : ss[1] < ss[2]}
<1>1. IsWellFoundedOn(R, Nat)
  BY NatLessThanWellFounded DEF OpToRel
<1>2. \E x \in T : \A y \in T : ~(<<y, x>> \in R)
  <2> HIDE DEF R
  <2> QED
    BY <1>1, WFMin
<1>3. PICK x \in T : \A y \in T : ~(<<y, x>> \in R)
  BY <1>2
<1>4. \A y \in T : ~(y < x)
  <2> SUFFICES ASSUME NEW y \in T, y < x PROVE FALSE
    OBVIOUS
  <2>1. <<y, x>> \in R
    OBVIOUS
  <2> QED
    BY <1>3, <2>1
<1> QED
  BY <1>4

(* A list without its element at p: one shorter, the later elements one    *)
(* place earlier.                                                          *)
LEMMA CutOut ==
  ASSUME NEW S, NEW s \in Seq(S), NEW p \in DOMAIN s
  PROVE  \A cut : cut = SubSeq(s, 1, p - 1) \o SubSeq(s, p + 1, Len(s)) =>
           /\ cut \in Seq(S) /\ Len(cut) = Len(s) - 1
           /\ \A i \in 1 .. Len(s) - 1 : cut[i] = IF i < p THEN s[i] ELSE s[i + 1]
<1> DEFINE N == Len(s)
           left == SubSeq(s, 1, p - 1)
           right == SubSeq(s, p + 1, N)
           u == left \o right
<1>1. N \in Nat /\ p \in 1 .. N /\ \A i \in 1 .. N : s[i] \in S
  OBVIOUS
<1>2. /\ left \in Seq(S) /\ Len(left) = p - 1
      /\ \A i \in 1 .. p - 1 : left[i] = s[i]
  <2>1. \A i \in 1 .. p - 1 : s[i] \in S
    BY <1>1
  <2> QED
    BY <1>1, <2>1, SubSeqProperties
<1>3. /\ right \in Seq(S) /\ Len(right) = N - p
      /\ \A i \in 1 .. N - p : right[i] = s[p + i]
  <2>1. \A i \in p + 1 .. N : s[i] \in S
    BY <1>1
  <2> QED
    BY <1>1, <2>1, SubSeqProperties
<1> HIDE DEF left, right, N
<1>4. /\ u \in Seq(S) /\ Len(u) = Len(left) + Len(right)
      /\ \A i \in 1 .. Len(left) + Len(right) :
           u[i] = IF i <= Len(left) THEN left[i] ELSE right[i - Len(left)]
  BY <1>2, <1>3, ConcatProperties
<1>5. SubSeq(s, 1, p - 1) \o SubSeq(s, p + 1, Len(s)) = u
  BY DEF left, right, N
<1> HIDE DEF u
<1>6. ASSUME NEW i \in 1 .. N - 1 PROVE u[i] = IF i < p THEN s[i] ELSE s[i + 1]
  <2>0. i \in 1 .. (p - 1) + (N - p)
    BY <1>1
  <2>1. CASE i < p
    <3>1. u[i] = left[i] /\ i \in 1 .. p - 1
      BY <1>1, <1>2, <1>3, <1>4, <2>0, <2>1
    <3> QED
      BY <1>2, <2>1, <3>1
  <2>2. CASE ~(i < p)
    <3>1. i - (p - 1) \in 1 .. N - p /\ p + (i - (p - 1)) = i + 1 /\ ~(i <= p - 1)
      BY <1>1, <2>2
    <3>2. u[i] = right[i - (p - 1)]
      BY <1>2, <1>3, <1>4, <2>0, <3>1
    <3> QED
      BY <1>3, <2>2, <3>1, <3>2
  <2> QED
    BY <2>1, <2>2
<1>7. Len(u) = N - 1
  BY <1>1, <1>2, <1>3, <1>4
<1> QED
  BY <1>4, <1>5, <1>6, <1>7 DEF N


-----------------------------------------------------------------------------
(* The counter of keys. *)

(* A thread between the test of keyCounter_ and the increment is alone on  *)
(* its key, and the key has no entry yet.                                  *)
InsertIsAlone ==
  /\ \A r \in Updates : pc[r] = "insert" => entries[KeyOf[r]] = NoUpdate
  /\ \A r, u \in Updates :
       pc[r] = "insert" /\ pc[u] = "insert" /\ KeyOf[r] = KeyOf[u] => r = u

CountInv ==
  /\ pc \in [Updates -> {"start", "insert", "done", "refused", "reaped"}]
  /\ entries \in [Keys -> Updates \cup {NoUpdate}]
  /\ keyCounter \in Int
  /\ InsertIsAlone
  /\ CounterIsExact

(* The keys with an entry are finitely many, so they can be counted.       *)
LEMMA LiveFinite == IsFiniteSet(Live) /\ Cardinality(Live) \in Nat
  BY IndexManagerAssumption, FS_Subset, FS_CardinalityType DEF Live

(* The empty table of Init has no key and the counter 0.                   *)
LEMMA CountInit == Init => CountInv
<1> SUFFICES ASSUME Init PROVE CountInv
  OBVIOUS
<1>1. Live = {}
  BY DEF Init, Live
<1>2. Cardinality(Live) = 0
  BY <1>1, FS_EmptySet
<1> QED BY <1>2 DEF Init, CountInv, InsertIsAlone, CounterIsExact

(* What a step that gives key k the entry e does to the set of live keys.  *)
LEMMA LiveAfterPut ==
  ASSUME entries \in [Keys -> Updates \cup {NoUpdate}],
         NEW k \in Keys, NEW e \in Updates \cup {NoUpdate},
         entries' = [entries EXCEPT ![k] = e]
  PROVE  Live' = IF e = NoUpdate THEN Live \ {k} ELSE Live \cup {k}
  BY IndexManagerAssumption DEF Live

(* Every branch of UpdateIndex and RemoveEntry keeps the count; the insert *)
(* does because its slot is its own between the two acquisitions of mtx_.  *)
LEMMA CountStep == CountInv /\ [Next]_vars => CountInv'
<1> SUFFICES ASSUME CountInv, [Next]_vars PROVE CountInv'
  OBVIOUS
<1> USE IndexManagerAssumption DEF InMem
<1> USE DEF CountInv
<1>1. ASSUME NEW r \in Updates, InsertStarts(r) PROVE CountInv'
  <2>1. \A u \in Updates : pc[u] = "insert" => KeyOf[u] # KeyOf[r]
    BY <1>1 DEF InsertStarts, SlotFree
  <2>2. InsertIsAlone'
    BY <1>1, <2>1 DEF InsertStarts, InsertIsAlone
  <2>3. Live' = Live
    BY <1>1 DEF InsertStarts, Live
  <2> QED BY <1>1, <2>2, <2>3 DEF InsertStarts, CounterIsExact
<1>2. ASSUME NEW r \in Updates, InsertRefused(r) PROVE CountInv'
  <2>1. Live' = Live
    BY <1>2 DEF InsertRefused, Live
  <2> QED BY <1>2, <2>1 DEF InsertRefused, InsertIsAlone, CounterIsExact
<1>3. ASSUME NEW r \in Updates, InsertEnds(r) PROVE CountInv'
  <2>1. KeyOf[r] \in Keys /\ KeyOf[r] \notin Live
    BY <1>3 DEF InsertEnds, InsertIsAlone, Live
  <2>2. Live' = Live \cup {KeyOf[r]}
    BY <1>3, <2>1, LiveAfterPut DEF InsertEnds
  <2>3. Cardinality(Live') = Cardinality(Live) + 1
    BY <2>1, <2>2, LiveFinite, FS_AddElement
  <2>4. InsertIsAlone'
    BY <1>3 DEF InsertEnds, Done, InsertIsAlone
  <2>5. pc' \in [Updates -> {"start", "insert", "done", "refused", "reaped"}]
    BY <1>3 DEF InsertEnds, Done
  <2>6. entries' \in [Keys -> Updates \cup {NoUpdate}]
    BY <1>3 DEF InsertEnds
  <2> QED BY <1>3, <2>3, <2>4, <2>5, <2>6 DEF InsertEnds, CounterIsExact
<1>4. ASSUME NEW r \in Updates, DeleteOfNothing(r) \/ Expired(r) PROVE CountInv'
  <2>1. Live' = Live
    BY <1>4 DEF DeleteOfNothing, Expired, Live
  <2> QED
    BY <1>4, <2>1 DEF DeleteOfNothing, Expired, Done, InsertIsAlone, CounterIsExact
<1>5. ASSUME NEW r \in Updates, Replace(r) PROVE CountInv'
  <2>1. KeyOf[r] \in Live
    BY <1>5 DEF Replace, Live
  <2>2. KeyOf[r] \in Keys /\ Live' = Live \cup {KeyOf[r]}
    BY <1>5, <2>1, LiveAfterPut DEF Replace
  <2>3. Live' = Live
    BY <2>1, <2>2
  <2>4. InsertIsAlone'
    BY <1>5 DEF Replace, Done, InsertIsAlone
  <2>5. pc' \in [Updates -> {"start", "insert", "done", "refused", "reaped"}]
    BY <1>5 DEF Replace, Done
  <2>6. entries' \in [Keys -> Updates \cup {NoUpdate}]
    BY <1>5 DEF Replace
  <2> QED BY <1>5, <2>3, <2>4, <2>5, <2>6 DEF Replace, CounterIsExact
<1>6. ASSUME NEW r \in Updates, RemoveEntry(r) PROVE CountInv'
  <2>1. pc' \in [Updates -> {"start", "insert", "done", "refused", "reaped"}]
    BY <1>6 DEF RemoveEntry
  <2>2. KeyOf[r] \in Keys
    OBVIOUS
  <2>3. CASE entries' = entries /\ keyCounter' = keyCounter
    <3>1. Live' = Live
      BY <2>3 DEF Live
    <3> QED
      BY <1>6, <2>1, <2>3, <3>1 DEF RemoveEntry, InsertIsAlone, CounterIsExact
  <2>4. CASE /\ InMem(r) # NoUpdate
             /\ entries' = [entries EXCEPT ![KeyOf[r]] = NoUpdate]
             /\ keyCounter' = CountAfterRemove
    <3>1. KeyOf[r] \in Live
      BY <2>2, <2>4 DEF Live
    <3>2. Live' = Live \ {KeyOf[r]}
      BY <2>2, <2>4, LiveAfterPut
    <3>3. Cardinality(Live') = Cardinality(Live) - 1
      BY <3>1, <3>2, LiveFinite, FS_RemoveElement
    <3>4. InsertIsAlone'
      BY <1>6, <2>4 DEF RemoveEntry, InsertIsAlone
    <3>5. entries' \in [Keys -> Updates \cup {NoUpdate}]
      BY <2>4
    <3> QED BY <2>1, <2>4, <3>3, <3>4, <3>5 DEF CounterIsExact, CountAfterRemove
  <2> QED BY <1>6, <2>3, <2>4 DEF RemoveEntry
<1>7. CASE UNCHANGED vars
  <2>1. Live' = Live
    BY <1>7 DEF vars, Live
  <2> QED BY <1>7, <2>1 DEF vars, InsertIsAlone, CounterIsExact
<1> QED
  BY <1>1, <1>2, <1>3, <1>4, <1>5, <1>6, <1>7 DEF Next, UpdateIndex

(* keyCounter_ of IndexManager.cc is the number of entries in the table,   *)
(* whatever updates and removals of whatever slots run at the same time.   *)
THEOREM CounterCorrect == Spec => []CounterIsExact
<1>1. CountInv => CounterIsExact
  BY DEF CountInv
<1> QED BY <1>1, CountInit, CountStep, PTL DEF Spec
-----------------------------------------------------------------------------
(* Room for the inserts under way, while no two of them have overlapped.   *)
RoomInv ==
  "raced" \notin slips =>
    /\ \A r, u \in Inserting : r = u
    /\ keyCounter <= htSize
    /\ Inserting # {} => keyCounter < htSize

(* The empty table has room.                                               *)
LEMMA RoomInit == Init => RoomInv
  BY IndexManagerAssumption DEF Init, RoomInv, Inserting

(* An insert that passes the test alone finds a place, and no other takes  *)
(* it before the insert has counted itself.                                *)
LEMMA RoomStep == CountInv /\ RoomInv /\ [Next]_vars => RoomInv'
<1> SUFFICES ASSUME CountInv, RoomInv, [Next]_vars, "raced" \notin slips'
             PROVE  RoomInv'
  BY DEF RoomInv
<1> USE IndexManagerAssumption DEF RoomInv
<1> USE DEF CountInv
<1>1. ASSUME NEW r \in Updates, InsertStarts(r) PROVE RoomInv'
  <2>1. Inserting = {} /\ slips' = slips
    BY <1>1 DEF InsertStarts
  <2>2. Inserting' = {r}
    BY <1>1, <2>1 DEF InsertStarts, Inserting
  <2>3. keyCounter' = keyCounter /\ keyCounter # htSize
    BY <1>1 DEF InsertStarts, TableFull
  <2> QED BY <2>1, <2>2, <2>3
<1>2. ASSUME NEW r \in Updates, InsertEnds(r) PROVE RoomInv'
  <2>1. r \in Inserting /\ slips' = slips /\ keyCounter' = keyCounter + 1
    BY <1>2 DEF InsertEnds, Inserting
  <2>2. Inserting' = Inserting \ {r}
    BY <1>2 DEF InsertEnds, Done, Inserting
  <2>3. Inserting' = {}
    BY <2>1, <2>2
  <2> QED BY <2>1, <2>3
<1>3. ASSUME NEW r \in Updates,
             InsertRefused(r) \/ DeleteOfNothing(r) \/ Expired(r) \/ Replace(r)
      PROVE  RoomInv'
  <2>1. "raced" \notin slips /\ keyCounter' = keyCounter
    BY <1>3 DEF InsertRefused, DeleteOfNothing, Expired, Replace
  <2>2. Inserting' = Inserting
    BY <1>3 DEF InsertRefused, DeleteOfNothing, Expired, Replace, Done, Inserting
  <2> QED BY <2>1, <2>2
<1>4. ASSUME NEW r \in Updates, RemoveEntry(r) PROVE RoomInv'
  <2>1. "raced" \notin slips /\ keyCounter' \in {keyCounter, keyCounter - 1}
    BY <1>4 DEF RemoveEntry, CountAfterRemove
  <2>2. Inserting' = Inserting
    BY <1>4 DEF RemoveEntry, Inserting
  <2> QED BY <2>1, <2>2
<1>5. CASE UNCHANGED vars
  BY <1>5 DEF vars, Inserting
<1> QED BY <1>1, <1>2, <1>3, <1>4, <1>5 DEF Next, UpdateIndex

(* The table never holds more entries than htSize_, for any updates of any *)
(* slots, as long as no two inserts overlap between test and increment.    *)
THEOREM TableBounded == Spec => []TableHoldsEntries
<1>1. CountInv /\ RoomInv => TableHoldsEntries
  BY DEF CountInv, CounterIsExact, RoomInv, TableHoldsEntries
<1> QED BY <1>1, CountInit, CountStep, RoomInit, RoomStep, PTL DEF Spec
-----------------------------------------------------------------------------
(* Sums of sizes.  The bytes of a set of updates are the pairs of an       *)
(* update and a position below its size, and a sum is a number of bytes.   *)

Bytes(S) == UNION {{r} \X (1 .. EntrySize(r)) : r \in S}

(* The function by which MapThenSumSet adds the sizes up.                  *)
AddsUp(it, S) ==
  it = [s \in SUBSET S |->
          IF s = {} THEN 0
          ELSE EntrySize(CHOOSE x \in s : TRUE) + it[s \ {CHOOSE x \in s : TRUE}]]

(* The sum of sizes is the value at the set of the function                *)
(* MapThenFoldSet chooses.                                                 *)
LEMMA SumIsChosen ==
  ASSUME NEW S
  PROVE  TotalSize(S) = (CHOOSE it : AddsUp(it, S))[S]
  BY Zenon DEF TotalSize, MapThenSumSet, MapThenFoldSet, AddsUp

(* Sizes are positive numbers.                                             *)
LEMMA SizesPositive == \A r \in Updates : EntrySize(r) \in Nat /\ EntrySize(r) > 0
  BY IndexManagerAssumption DEF EntrySize

(* An update has as many bytes as its entry has.                           *)
LEMMA BytesOfOne ==
  ASSUME NEW r \in Updates
  PROVE  /\ IsFiniteSet({r} \X (1 .. EntrySize(r)))
         /\ Cardinality({r} \X (1 .. EntrySize(r))) = EntrySize(r)
<1>1. EntrySize(r) \in Nat
  BY SizesPositive
<1> HIDE DEF EntrySize
<1>2. IsFiniteSet(1 .. EntrySize(r)) /\ Cardinality(1 .. EntrySize(r)) = EntrySize(r)
  BY <1>1, FS_Interval
<1>3. IsFiniteSet({r}) /\ Cardinality({r}) = 1
  BY FS_Singleton
<1>4. /\ IsFiniteSet({r} \X (1 .. EntrySize(r)))
      /\ Cardinality({r} \X (1 .. EntrySize(r)))
           = Cardinality({r}) * Cardinality(1 .. EntrySize(r))
  BY <1>2, <1>3, FS_Product
<1> QED
  BY <1>1, <1>2, <1>3, <1>4

(* One update more adds the bytes of its entry.                            *)
LEMMA BytesAdd ==
  ASSUME NEW S \in SUBSET Updates, NEW r \in Updates, r \notin S,
         IsFiniteSet(Bytes(S))
  PROVE  /\ IsFiniteSet(Bytes(S \cup {r}))
         /\ Cardinality(Bytes(S \cup {r})) = Cardinality(Bytes(S)) + EntrySize(r)
<1> DEFINE One == {r} \X (1 .. EntrySize(r))
<1>1. Bytes(S \cup {r}) = Bytes(S) \cup One
  BY DEF Bytes
<1>2. Bytes(S) \cap One = {}
  BY DEF Bytes
<1>3. IsFiniteSet(One) /\ Cardinality(One) = EntrySize(r)
  BY BytesOfOne
<1>4. EntrySize(r) \in Nat /\ Cardinality(Bytes(S)) \in Nat
  BY SizesPositive, FS_CardinalityType
<1> HIDE DEF One
<1>5. Cardinality(Bytes(S) \cap One) = 0
  BY <1>2, FS_EmptySet
<1>6. /\ IsFiniteSet(Bytes(S) \cup One)
      /\ Cardinality(Bytes(S) \cup One)
           = Cardinality(Bytes(S)) + Cardinality(One) - Cardinality(Bytes(S) \cap One)
  BY <1>3, FS_Union
<1>7. PICK B : B = Bytes(S) \cup One
  OBVIOUS
<1>8. IsFiniteSet(B) /\ Cardinality(B) = Cardinality(Bytes(S)) + EntrySize(r)
  BY <1>3, <1>4, <1>5, <1>6, <1>7
<1>9. B = Bytes(S \cup {r})
  BY Zenon, <1>1, <1>7
<1> QED
  BY Zenon, <1>8, <1>9

(* Every set of updates has finitely many bytes.                           *)
LEMMA BytesFinite == \A S \in SUBSET Updates : IsFiniteSet(Bytes(S))
<1> SUFFICES ASSUME NEW S0 \in SUBSET Updates, ~IsFiniteSet(Bytes(S0)) PROVE FALSE
  OBVIOUS
<1> DEFINE Bad == {S \in SUBSET Updates : ~IsFiniteSet(Bytes(S))}
           T == {Cardinality(S) : S \in Bad}
<1>1. \A S \in SUBSET Updates : IsFiniteSet(S) /\ Cardinality(S) \in Nat
  BY IndexManagerAssumption, FS_Subset, FS_CardinalityType
<1>2. T \in SUBSET Nat /\ T # {}
  BY <1>1
<1>3. PICK n \in T : \A m \in T : n <= m
  <2> HIDE DEF T
  <2> QED
    BY <1>2, LeastNatural
<1>4. PICK S \in Bad : n = Cardinality(S)
  OBVIOUS
<1>5. S # {}
  <2> SUFFICES ASSUME S = {} PROVE FALSE
    OBVIOUS
  <2>1. Bytes({}) = {}
    BY DEF Bytes
  <2> QED
    BY <2>1, <1>4, FS_EmptySet
<1>6. PICK r \in S : TRUE
  BY <1>5
<1>7. /\ S \ {r} \in SUBSET Updates /\ r \in Updates
      /\ Cardinality(S \ {r}) < n
  <2>1. S \in SUBSET Updates
    OBVIOUS
  <2>2. S \ {r} \in SUBSET Updates /\ r \in Updates
    BY <2>1
  <2>3. IsFiniteSet(S) /\ Cardinality(S) \in Nat
    BY <1>1, <2>1
  <2>4. Cardinality(S \ {r}) = Cardinality(S) - 1
    BY <2>3, FS_RemoveElement
  <2> QED
    BY <1>4, <2>2, <2>3, <2>4
<1>8. IsFiniteSet(Bytes(S \ {r}))
  BY <1>1, <1>2, <1>3, <1>7
<1>9. (S \ {r}) \cup {r} = S
  OBVIOUS
<1>10. IsFiniteSet(Bytes((S \ {r}) \cup {r}))
  <2> HIDE DEF Bad, T
  <2> QED
    BY <1>7, <1>8, BytesAdd
<1> QED
  BY <1>4, <1>9, <1>10

(* MapThenSumSet counts bytes.                                             *)
LEMMA SumIsBytes ==
  ASSUME NEW S \in SUBSET Updates
  PROVE  TotalSize(S) = Cardinality(Bytes(S))
<1> DEFINE count == [s \in SUBSET S |-> Cardinality(Bytes(s))]
<1>1. \A s \in SUBSET S : IsFiniteSet(s) /\ Cardinality(s) \in Nat /\ s \in SUBSET Updates
  BY IndexManagerAssumption, FS_Subset, FS_CardinalityType
<1>2. ASSUME NEW s \in SUBSET S, NEW x \in s
      PROVE  Cardinality(Bytes(s)) = EntrySize(x) + Cardinality(Bytes(s \ {x}))
  <2>1. x \in Updates /\ s \ {x} \in SUBSET Updates /\ (s \ {x}) \cup {x} = s
    OBVIOUS
  <2>2. IsFiniteSet(Bytes(s \ {x}))
    BY <2>1, BytesFinite
  <2>3. Cardinality(Bytes((s \ {x}) \cup {x})) = Cardinality(Bytes(s \ {x})) + EntrySize(x)
    BY <2>1, <2>2, BytesAdd
  <2>4. EntrySize(x) \in Nat /\ Cardinality(Bytes(s \ {x})) \in Nat
    BY <2>1, <2>2, SizesPositive, FS_CardinalityType
  <2> HIDE DEF count
  <2>5. PICK t : t = (s \ {x}) \cup {x}
    OBVIOUS
  <2>6. t = s /\ Cardinality(Bytes(t)) = Cardinality(Bytes(s \ {x})) + EntrySize(x)
    BY Zenon, <2>1, <2>3, <2>5
  <2>7. Cardinality(Bytes(s)) = Cardinality(Bytes(s \ {x})) + EntrySize(x)
    BY Zenon, <2>6
  <2> QED
    BY <2>4, <2>7
<1>3. Cardinality(Bytes({})) = 0
  <2>1. Bytes({}) = {}
    BY DEF Bytes
  <2> QED
    BY <2>1, FS_EmptySet
<1>4. AddsUp(count, S)
  <2>1. ASSUME NEW s \in SUBSET S
        PROVE  count[s] = IF s = {} THEN 0
                          ELSE EntrySize(CHOOSE x \in s : TRUE)
                                 + count[s \ {CHOOSE x \in s : TRUE}]
    <3>1. CASE s = {}
      BY <3>1, <1>3
    <3>2. CASE s # {}
      <4>1. PICK x : x = CHOOSE y \in s : TRUE
        OBVIOUS
      <4>2. x \in s
        BY <3>2, <4>1
      <4>3. s \ {x} \in SUBSET S
        OBVIOUS
      <4>4. count[s] = EntrySize(x) + count[s \ {x}]
        BY <1>2, <4>2, <4>3
      <4> QED
        BY <3>2, <4>1, <4>4
    <3> QED
      BY <3>1, <3>2
  <2>2. count = [s \in SUBSET S |-> count[s]]
    OBVIOUS
  <2> HIDE DEF count
  <2> QED
    BY Zenon, <2>1, <2>2 DEF AddsUp
<1>5. ASSUME NEW it, AddsUp(it, S) PROVE it[S] = count[S]
  <2> SUFFICES ASSUME it[S] # count[S] PROVE FALSE
    OBVIOUS
  <2> DEFINE Bad == {s \in SUBSET S : it[s] # count[s]}
             T == {Cardinality(s) : s \in Bad}
  <2> HIDE DEF count
  <2>1. T \in SUBSET Nat /\ T # {}
    BY <1>1
  <2>2. PICK n \in T : \A m \in T : n <= m
    <3> HIDE DEF T
    <3> QED
      BY <2>1, LeastNatural
  <2>3. PICK s \in Bad : n = Cardinality(s)
    OBVIOUS
  <2>4. PICK x : x = CHOOSE y \in s : TRUE
    OBVIOUS
  <2>5. it[s] = IF s = {} THEN 0 ELSE EntrySize(x) + it[s \ {x}]
    BY Zenon, <1>5, <2>3, <2>4 DEF AddsUp
  <2>6. count[s] = IF s = {} THEN 0 ELSE EntrySize(x) + count[s \ {x}]
    BY Zenon, <1>4, <2>3, <2>4 DEF AddsUp
  <2>7. s # {}
    BY <2>3, <2>5, <2>6
  <2>8. x \in s
    BY <2>4, <2>7
  <2>9. s \ {x} \in SUBSET S /\ Cardinality(s \ {x}) < n
    BY <1>1, <2>3, <2>8, FS_RemoveElement
  <2>10. it[s \ {x}] = count[s \ {x}]
    BY <1>1, <2>1, <2>2, <2>9
  <2> QED
    BY <2>3, <2>5, <2>6, <2>10
<1>6. (CHOOSE it : AddsUp(it, S))[S] = count[S]
  <2> HIDE DEF count
  <2>1. AddsUp(CHOOSE it : AddsUp(it, S), S)
    BY Zenon, <1>4
  <2> QED
    BY Zenon, <2>1, <1>5
<1>7. count[S] = Cardinality(Bytes(S))
  OBVIOUS
<1> QED
  BY <1>6, <1>7, SumIsChosen

(* No update, no bytes.                                                    *)
LEMMA SumEmpty == TotalSize({}) = 0
<1>1. Bytes({}) = {}
  BY DEF Bytes
<1>2. TotalSize({}) = Cardinality(Bytes({}))
  BY SumIsBytes
<1> QED
  BY <1>1, <1>2, FS_EmptySet

(* An update more adds its size.                                           *)
LEMMA SumAdd ==
  ASSUME NEW S \in SUBSET Updates, NEW r \in Updates, r \notin S
  PROVE  /\ TotalSize(S) \in Nat
         /\ TotalSize(S \cup {r}) = TotalSize(S) + EntrySize(r)
<1>1. S \cup {r} \in SUBSET Updates
  OBVIOUS
<1>2. TotalSize(S) = Cardinality(Bytes(S))
  BY SumIsBytes
<1>3. TotalSize(S \cup {r}) = Cardinality(Bytes(S \cup {r}))
  BY <1>1, SumIsBytes
<1>4. IsFiniteSet(Bytes(S))
  BY BytesFinite
<1> QED
  BY <1>2, <1>3, <1>4, BytesAdd, FS_CardinalityType

(* An update less takes its size off.                                      *)
LEMMA SumRemove ==
  ASSUME NEW S \in SUBSET Updates, NEW r \in S
  PROVE  /\ TotalSize(S) \in Nat
         /\ TotalSize(S \ {r}) \in Nat
         /\ TotalSize(S \ {r}) = TotalSize(S) - EntrySize(r)
<1>1. S \ {r} \in SUBSET Updates /\ r \in Updates /\ r \notin S \ {r}
  OBVIOUS
<1>2. (S \ {r}) \cup {r} = S
  OBVIOUS
<1>3. PICK T : T = (S \ {r}) \cup {r}
  OBVIOUS
<1>4. /\ TotalSize(S \ {r}) \in Nat
      /\ TotalSize(T) = TotalSize(S \ {r}) + EntrySize(r)
  BY <1>1, <1>3, SumAdd
<1>5. T = S
  BY <1>2, <1>3
<1>6. TotalSize(S) = TotalSize(S \ {r}) + EntrySize(r)
  BY Zenon, <1>4, <1>5
<1>7. EntrySize(r) \in Nat
  BY SizesPositive
<1> QED
  BY <1>4, <1>6, <1>7

(* Every sum of sizes is a number.                                         *)
LEMMA SumNatural ==
  ASSUME NEW S \in SUBSET Updates
  PROVE  TotalSize(S) \in Nat
<1>1. TotalSize(S) = Cardinality(Bytes(S))
  BY SumIsBytes
<1> QED
  BY <1>1, BytesFinite, FS_CardinalityType

-----------------------------------------------------------------------------
(* Unsigned counters. *)

(* Remainder and quotient of the width of a counter.                       *)
LEMMA DivisionExact ==
  ASSUME NEW W \in Nat \ {0}, NEW x \in Int
  PROVE  x % W \in 0 .. W - 1 /\ (x % W) + W * (x \div W) = x
  OBVIOUS

(* A number in range is the remainder of its sums with multiples of the    *)
(* width.                                                                  *)
LEMMA RemainderUnique ==
  ASSUME NEW W \in Nat \ {0}, NEW q \in Int, NEW d \in 0 .. W - 1
  PROVE  (d + W * q) % W = d
  OBVIOUS

(* A counter that wraps may be changed before or after wrapping.           *)
LEMMA WrapLater ==
  ASSUME NEW W \in Nat \ {0}, NEW x \in Int, NEW y \in Int
  PROVE  ((x % W) + y) % W = (x + y) % W
<1> DEFINE d == ((x % W) + y) % W
           p == ((x % W) + y) \div W
           q == x \div W
<1>1. x % W \in Int /\ (x % W) + W * q = x /\ q \in Int
  BY DivisionExact
<1>2. d \in 0 .. W - 1 /\ d + W * p = (x % W) + y /\ p \in Int
  BY <1>1, DivisionExact
<1> HIDE DEF d, p, q
<1>3. x + y = d + W * p + W * q
  BY <1>1, <1>2
<1>4. W * p + W * q = W * (p + q)
  BY <1>1, <1>2
<1>5. W * p \in Int /\ W * q \in Int
  BY <1>1, <1>2
<1>6. x + y = d + W * (p + q)
  BY <1>2, <1>3, <1>4, <1>5
<1>7. p + q \in Int
  BY <1>1, <1>2
<1>8. (d + W * (p + q)) % W = d
  BY <1>2, <1>7, RemainderUnique
<1> QED
  BY <1>6, <1>8 DEF d

-----------------------------------------------------------------------------
(* Dead and live bytes. *)

(* An entry belongs to its key and to an update that is over: the set of   *)
(* live entries is a set of updates.  A delete never enters a new key.     *)
OwnInv ==
  /\ death_size \in [Segments -> Nat]
  /\ dataTheorySize \in 0 .. Word - 1
  /\ slips \subseteq {"raced", "rewritten", "emptied"}
  /\ \A k \in Keys :
       entries[k] # NoUpdate => KeyOf[entries[k]] = k /\ pc[entries[k]] \in {"done", "reaped"}
  /\ \A u \in Deletes : pc[u] # "insert"

(* Updates that have come to an end, and those with an entry in the table. *)
Settled(g) == {u \in Updates : SegOf[u] = g /\ pc[u] \in {"done", "reaped"}}
Entered(g) == {u \in Updates : SegOf[u] = g /\ entries[KeyOf[u]] = u}
Valued == {u \in Updates : u \notin Deletes /\ entries[KeyOf[u]] = u}

(* Every update that is over is live or dead, and never both: not only     *)
(* when all updates of the segment are over.                               *)
DeathInv ==
  \A g \in Segments : death_size[g] + TotalSize(Entered(g)) = TotalSize(Settled(g))

TheoryInv == slips \subseteq {"raced"} => dataTheorySize = TotalSize(Valued) % Word

IndexInv == CountInv /\ OwnInv /\ DeathInv /\ TheoryInv

(* The empty table owes nothing.                                           *)
LEMMA IndexStarts == Init => IndexInv
<1> SUFFICES ASSUME Init PROVE IndexInv
  OBVIOUS
<1> USE IndexManagerAssumption
<1>1. CountInv
  BY CountInit
<1>2. OwnInv
  BY DEF Init, OwnInv
<1>3. \A g \in Segments : Entered(g) = {} /\ Settled(g) = {}
  BY DEF Init, Entered, Settled
<1>4. Valued = {}
  BY DEF Init, Valued
<1>5. DeathInv
  BY <1>3, SumEmpty DEF Init, DeathInv
<1>6. TheoryInv
  <2>1. 0 % Word = 0
    BY RemainderUnique
  <2> QED
    BY <1>4, <2>1, SumEmpty DEF Init, TheoryInv
<1> QED
  BY <1>1, <1>2, <1>5, <1>6 DEF IndexInv

(* What the six ways of an update and the removal do to the table.         *)
Enters(r) ==
  /\ r \notin Deletes
  /\ pc[r] = "insert" /\ entries[KeyOf[r]] = NoUpdate
  /\ pc' = [pc EXCEPT ![r] = "done"]
  /\ entries' = [entries EXCEPT ![KeyOf[r]] = r]
  /\ death_size' = death_size
  /\ dataTheorySize' = (dataTheorySize + EntrySize(r)) % Word

DiesAtOnce(r) ==
  /\ pc[r] = "start"
  /\ pc' = [pc EXCEPT ![r] = "done"]
  /\ death_size' = [death_size EXCEPT ![SegOf[r]] = @ + EntrySize(r)]
  /\ UNCHANGED <<entries, dataTheorySize>>

Succeeds(r, e) ==
  /\ pc[r] = "start" /\ entries[KeyOf[r]] = e
  /\ pc' = [pc EXCEPT ![r] = "done"]
  /\ entries' = [entries EXCEPT ![KeyOf[r]] = r]
  /\ death_size' = [death_size EXCEPT ![SegOf[e]] = @ + EntrySize(e)]
  /\ dataTheorySize' =
       (IF SizeOf[r] = 0
        THEN (dataTheorySize - EntrySize(e)) % Word
        ELSE (dataTheorySize + SizeOf[r] - SizeOf[e]) % Word)
  /\ slips' = slips \cup (IF e \in Deletes THEN {"rewritten"} ELSE {})
                    \cup (IF EmptyValue(r) THEN {"emptied"} ELSE {})

Leaves(r, e) ==
  /\ pc[r] = "done" /\ entries[KeyOf[r]] = e
  /\ r \in Deletes /\ SegOf[e] = SegOf[r] /\ SizeOf[e] = 0
  /\ pc' = [pc EXCEPT ![r] = "reaped"]
  /\ entries' = [entries EXCEPT ![KeyOf[r]] = NoUpdate]
  /\ death_size' = [death_size EXCEPT ![SegOf[r]] = @ + EntrySize(r)]
  /\ dataTheorySize' = dataTheorySize
  /\ slips' = IF EmptyValue(e) THEN slips \cup {"emptied"} ELSE slips

TablesSame ==
  /\ pc' \in [Updates -> {"start", "insert", "done", "refused", "reaped"}]
  /\ \A u \in Updates : pc[u] \in {"done", "reaped"} <=> pc'[u] \in {"done", "reaped"}
  /\ \A u \in Deletes : pc'[u] # "insert"
  /\ UNCHANGED <<entries, death_size, dataTheorySize>>

IndexEffect ==
  \/ TablesSame
  \/ \E r \in Updates : Enters(r) \/ DiesAtOnce(r)
  \/ \E r \in Updates : \E e \in Updates : Succeeds(r, e) \/ Leaves(r, e)

(* No slip is forgotten.                                                   *)
LEMMA SlipsGrow ==
  ASSUME OwnInv, [Next]_vars
  PROVE  slips \subseteq slips' /\ slips' \subseteq {"raced", "rewritten", "emptied"}
<1> USE DEF OwnInv
<1>1. ASSUME NEW r \in Updates,
             InsertRefused(r) \/ InsertEnds(r) \/ DeleteOfNothing(r) \/ Expired(r)
      PROVE  slips' = slips
  BY <1>1 DEF InsertRefused, InsertEnds, DeleteOfNothing, Expired
<1>2. ASSUME NEW r \in Updates, InsertStarts(r)
      PROVE  slips \subseteq slips' /\ slips' \subseteq slips \cup {"raced"}
  BY <1>2 DEF InsertStarts
<1>3. ASSUME NEW r \in Updates, Replace(r)
      PROVE  slips \subseteq slips' /\ slips' \subseteq slips \cup {"rewritten", "emptied"}
  <2>1. slips' = slips \cup (IF InMem(r) \in Deletes THEN {"rewritten"} ELSE {})
                      \cup (IF EmptyValue(r) THEN {"emptied"} ELSE {})
    BY <1>3 DEF Replace
  <2> QED
    BY <2>1
<1>4. ASSUME NEW r \in Updates, RemoveEntry(r)
      PROVE  slips \subseteq slips' /\ slips' \subseteq slips \cup {"emptied"}
  BY <1>4 DEF RemoveEntry
<1>5. CASE UNCHANGED vars
  BY <1>5 DEF vars
<1> QED
  BY <1>1, <1>2, <1>3, <1>4, <1>5 DEF Next, UpdateIndex

(* Every step has one of the effects.                                      *)
LEMMA StepEffect ==
  ASSUME CountInv, OwnInv, [Next]_vars
  PROVE  /\ IndexEffect
         /\ slips \subseteq slips' /\ slips' \subseteq {"raced", "rewritten", "emptied"}
<1> USE IndexManagerAssumption DEF CountInv, OwnInv
<1>0. slips \subseteq slips' /\ slips' \subseteq {"raced", "rewritten", "emptied"}
  BY SlipsGrow
<1>1. ASSUME NEW r \in Updates, InsertStarts(r) PROVE IndexEffect
  BY <1>1 DEF InsertStarts, IndexEffect, TablesSame
<1>2. ASSUME NEW r \in Updates, InsertRefused(r) PROVE IndexEffect
  BY <1>2 DEF InsertRefused, IndexEffect, TablesSame
<1>3. ASSUME NEW r \in Updates, InsertEnds(r) PROVE IndexEffect
  <2>1. Enters(r)
    BY <1>3 DEF InsertEnds, InsertIsAlone, Enters, Done
  <2> QED
    BY <2>1 DEF IndexEffect
<1>4. ASSUME NEW r \in Updates, DeleteOfNothing(r) \/ Expired(r) PROVE IndexEffect
  <2>1. DiesAtOnce(r)
    BY <1>4 DEF DeleteOfNothing, Expired, DiesAtOnce, Done, ModifyDeathEntry
  <2> QED
    BY <2>1 DEF IndexEffect
<1>5. ASSUME NEW r \in Updates, Replace(r) PROVE IndexEffect
  <2>1. InMem(r) \in Updates
    BY <1>5 DEF Replace, InMem
  <2>2. Succeeds(r, InMem(r))
    BY <1>5 DEF Replace, Succeeds, Done, ModifyDeathEntry, InMem, TheoryAfter
  <2> QED
    BY <2>1, <2>2 DEF IndexEffect
<1>6. ASSUME NEW r \in Updates, RemoveEntry(r) PROVE IndexEffect
  <2>1. CASE InMem(r) # NoUpdate /\ SegOf[InMem(r)] = SegOf[r] /\ SizeOf[InMem(r)] = 0
    <3>1. InMem(r) \in Updates
      BY <2>1 DEF InMem
    <3>2. Leaves(r, InMem(r))
      BY <1>6, <2>1 DEF RemoveEntry, Leaves, ModifyDeathEntry, InMem
    <3> QED
      BY <3>1, <3>2 DEF IndexEffect
  <2>2. CASE ~(InMem(r) # NoUpdate /\ SegOf[InMem(r)] = SegOf[r] /\ SizeOf[InMem(r)] = 0)
    <3>1. TablesSame
      BY <1>6, <2>2 DEF RemoveEntry, TablesSame
    <3> QED
      BY <3>1 DEF IndexEffect
  <2> QED
    BY <2>1, <2>2
<1>7. CASE UNCHANGED vars
  BY <1>7 DEF vars, IndexEffect, TablesSame
<1> QED
  BY <1>0, <1>1, <1>2, <1>3, <1>4, <1>5, <1>6, <1>7 DEF Next, UpdateIndex

(* Entries stay with their keys.                                           *)
LEMMA OwnStep ==
  ASSUME CountInv, OwnInv, [Next]_vars
  PROVE  OwnInv'
<1> USE IndexManagerAssumption DEF CountInv, OwnInv
<1>1. /\ IndexEffect
      /\ slips' \subseteq {"raced", "rewritten", "emptied"}
  BY StepEffect
<1>2. \A r \in Updates : EntrySize(r) \in Nat
  BY SizesPositive
<1>3. Word \in Nat \ {0}
  OBVIOUS
<1>4. CASE TablesSame
  BY <1>1, <1>4 DEF TablesSame
<1>5. ASSUME NEW r \in Updates, Enters(r) PROVE OwnInv'
  <2>1. dataTheorySize + EntrySize(r) \in Int
    BY <1>2
  <2>2. dataTheorySize' \in 0 .. Word - 1
    BY <1>3, <1>5, <2>1, DivisionExact DEF Enters
  <2>3. \A k \in Keys :
          entries'[k] # NoUpdate => KeyOf[entries'[k]] = k /\ pc'[entries'[k]] \in {"done", "reaped"}
    BY <1>5 DEF Enters
  <2> QED
    BY <1>1, <1>5, <2>2, <2>3 DEF Enters
<1>6. ASSUME NEW r \in Updates, DiesAtOnce(r) PROVE OwnInv'
  <2>1. death_size' \in [Segments -> Nat]
    BY <1>2, <1>6 DEF DiesAtOnce
  <2>2. \A k \in Keys :
          entries'[k] # NoUpdate => KeyOf[entries'[k]] = k /\ pc'[entries'[k]] \in {"done", "reaped"}
    BY <1>6 DEF DiesAtOnce
  <2> QED
    BY <1>1, <1>6, <2>1, <2>2 DEF DiesAtOnce
<1>7. ASSUME NEW r \in Updates, NEW e \in Updates, Succeeds(r, e) PROVE OwnInv'
  <2>1. /\ dataTheorySize - EntrySize(e) \in Int
        /\ dataTheorySize + SizeOf[r] - SizeOf[e] \in Int
    BY <1>2
  <2>2. dataTheorySize' \in 0 .. Word - 1
    BY <1>3, <1>7, <2>1, DivisionExact DEF Succeeds
  <2>3. death_size' \in [Segments -> Nat]
    BY <1>2, <1>7 DEF Succeeds
  <2>4. \A k \in Keys :
          entries'[k] # NoUpdate => KeyOf[entries'[k]] = k /\ pc'[entries'[k]] \in {"done", "reaped"}
    BY <1>7 DEF Succeeds
  <2>5. \A u \in Deletes : pc'[u] # "insert"
    BY <1>7 DEF Succeeds
  <2> QED
    BY <1>1, <2>2, <2>3, <2>4, <2>5
<1>8. ASSUME NEW r \in Updates, NEW e \in Updates, Leaves(r, e) PROVE OwnInv'
  <2>1. death_size' \in [Segments -> Nat]
    BY <1>2, <1>8 DEF Leaves
  <2>2. \A k \in Keys :
          entries'[k] # NoUpdate => KeyOf[entries'[k]] = k /\ pc'[entries'[k]] \in {"done", "reaped"}
    BY <1>8 DEF Leaves
  <2> QED
    BY <1>1, <1>8, <2>1, <2>2 DEF Leaves
<1> QED
  BY <1>1, <1>4, <1>5, <1>6, <1>7, <1>8 DEF IndexEffect

(* The account of a segment under each effect.                             *)
LEMMA DeathStep ==
  ASSUME CountInv, OwnInv, DeathInv, IndexEffect
  PROVE  DeathInv'
<1>0. /\ DOMAIN pc = Updates
      /\ entries \in [Keys -> Updates \cup {NoUpdate}] /\ NoUpdate \notin Updates
      /\ KeyOf \in [Updates -> Keys] /\ SegOf \in [Updates -> Segments]
      /\ SizeOf \in [Updates -> Nat]
      /\ death_size \in [Segments -> Nat]
      /\ \A k \in Keys :
           entries[k] # NoUpdate => KeyOf[entries[k]] = k /\ pc[entries[k]] \in {"done", "reaped"}
  BY IndexManagerAssumption DEF CountInv, OwnInv
<1> SUFFICES ASSUME NEW g \in Segments
             PROVE  death_size'[g] + TotalSize(Entered(g)') = TotalSize(Settled(g)')
  BY DEF DeathInv
<1>1. death_size[g] + TotalSize(Entered(g)) = TotalSize(Settled(g))
  BY DEF DeathInv
<1>2. PICK d, L, S, d1, L1, S1 :
        /\ d = death_size[g] /\ L = Entered(g) /\ S = Settled(g)
        /\ d1 = death_size'[g] /\ L1 = Entered(g)' /\ S1 = Settled(g)'
  OBVIOUS
<1>3. /\ d \in Nat /\ L \in SUBSET Updates /\ S \in SUBSET Updates
      /\ \A u \in Updates : u \in L <=> SegOf[u] = g /\ entries[KeyOf[u]] = u
      /\ \A u \in Updates : u \in S <=> SegOf[u] = g /\ pc[u] \in {"done", "reaped"}
  BY <1>0, <1>2 DEF Entered, Settled
<1>4. /\ L1 \in SUBSET Updates /\ S1 \in SUBSET Updates
      /\ \A u \in Updates : u \in L1 <=> SegOf[u] = g /\ entries'[KeyOf[u]] = u
      /\ \A u \in Updates : u \in S1 <=> SegOf[u] = g /\ pc'[u] \in {"done", "reaped"}
  BY <1>0, <1>2 DEF Entered, Settled
<1>5. d + TotalSize(L) = TotalSize(S) /\ TotalSize(L) \in Nat /\ TotalSize(S) \in Nat
  <2>1. d + TotalSize(L) = TotalSize(S)
    BY Zenon, <1>1, <1>2
  <2> QED
    BY <2>1, <1>3, SumNatural
<1>6. \A u \in Updates : EntrySize(u) \in Nat
  BY SizesPositive
<1> SUFFICES d1 + TotalSize(L1) = TotalSize(S1)
  BY Zenon, <1>2
<1>7. CASE TablesSame
  <2>1. d1 = d /\ L1 = L /\ S1 = S
    BY <1>2, <1>3, <1>4, <1>7 DEF TablesSame
  <2> QED
    BY Zenon, <1>5, <2>1
<1>8. ASSUME NEW r \in Updates, Enters(r) PROVE d1 + TotalSize(L1) = TotalSize(S1)
  <2>1. d1 = d
    BY <1>2, <1>8 DEF Enters
  <2>2. /\ entries[KeyOf[r]] = NoUpdate /\ entries'[KeyOf[r]] = r
        /\ \A k \in Keys : k # KeyOf[r] => entries'[k] = entries[k]
    BY <1>0, <1>8 DEF Enters
  <2>3. pc[r] = "insert" /\ pc'[r] = "done" /\ \A u \in Updates \ {r} : pc'[u] = pc[u]
    BY <1>0, <1>8 DEF Enters
  <2>4. r \notin L /\ r \notin S
    BY <1>0, <1>3, <2>2, <2>3
  <2>5. CASE SegOf[r] = g
    <3>1. L1 = L \cup {r}
      BY <1>0, <1>3, <1>4, <2>2, <2>5
    <3>2. S1 = S \cup {r}
      BY <1>0, <1>3, <1>4, <2>3, <2>5
    <3>3. /\ TotalSize(L1) = TotalSize(L) + EntrySize(r)
          /\ TotalSize(S1) = TotalSize(S) + EntrySize(r)
      BY <1>3, <2>4, <3>1, <3>2, SumAdd
    <3> QED
      BY <1>3, <1>5, <1>6, <2>1, <3>3
  <2>6. CASE SegOf[r] # g
    <3>1. L1 = L
      <4>1. \A u \in Updates : u \in L1 <=> u \in L
        <5>1. \A u \in Updates : KeyOf[u] # KeyOf[r] => (u \in L1 <=> u \in L)
          BY <1>0, <1>3, <1>4, <2>2
        <5>2. \A u \in Updates : KeyOf[u] = KeyOf[r] => u \notin L
          BY <1>0, <1>3, <2>2
        <5>3. \A u \in Updates : KeyOf[u] = KeyOf[r] => u \notin L1
          BY <1>4, <2>2, <2>6
        <5> QED
          BY <5>1, <5>2, <5>3
      <4> QED
        BY <1>3, <1>4, <4>1
    <3>2. S1 = S
      <4>1. \A u \in Updates : u \in S1 <=> u \in S
        BY <1>3, <1>4, <2>3, <2>6
      <4> QED
        BY <1>3, <1>4, <4>1
    <3> QED
      BY Zenon, <1>5, <2>1, <3>1, <3>2
  <2> QED
    BY <2>5, <2>6
<1>9. ASSUME NEW r \in Updates, DiesAtOnce(r) PROVE d1 + TotalSize(L1) = TotalSize(S1)
  <2>1. pc[r] = "start" /\ pc'[r] = "done" /\ \A u \in Updates \ {r} : pc'[u] = pc[u]
    BY <1>0, <1>9 DEF DiesAtOnce
  <2>5. r \notin S
    BY <1>0, <1>3, <2>1
  <2>6. entries' = entries
    BY <1>9 DEF DiesAtOnce
  <2>2. L1 = L
    BY <1>3, <1>4, <2>6
  <2>3. CASE SegOf[r] = g
    <3>1. S1 = S \cup {r}
      BY <1>0, <1>3, <1>4, <2>1, <2>3
    <3>2. TotalSize(S1) = TotalSize(S) + EntrySize(r)
      BY <1>3, <2>5, <3>1, SumAdd
    <3>3. d1 = d + EntrySize(r)
      BY <1>0, <1>2, <1>9, <2>3 DEF DiesAtOnce
    <3>4. TotalSize(L1) = TotalSize(L)
      BY Zenon, <2>2
    <3> QED
      BY <1>3, <1>5, <1>6, <3>2, <3>3, <3>4
  <2>4. CASE SegOf[r] # g
    <3>1. S1 = S
      <4>1. \A u \in Updates : u \in S1 <=> u \in S
        BY <1>3, <1>4, <2>1, <2>4
      <4> QED
        BY <1>3, <1>4, <4>1
    <3>2. d1 = d
      BY <1>0, <1>2, <1>9, <2>4 DEF DiesAtOnce
    <3> QED
      BY Zenon, <1>5, <2>2, <3>1, <3>2
  <2> QED
    BY <2>3, <2>4
<1>10. ASSUME NEW r \in Updates, NEW e \in Updates, Succeeds(r, e)
       PROVE  d1 + TotalSize(L1) = TotalSize(S1)
  <2>1. /\ entries[KeyOf[r]] = e /\ entries'[KeyOf[r]] = r
        /\ \A k \in Keys : k # KeyOf[r] => entries'[k] = entries[k]
    BY <1>0, <1>10 DEF Succeeds
  <2>2. pc[r] = "start" /\ pc'[r] = "done" /\ \A u \in Updates \ {r} : pc'[u] = pc[u]
    BY <1>0, <1>10 DEF Succeeds
  <2>3. r \notin S
    BY <1>3, <2>2
  <2>4. KeyOf[e] = KeyOf[r] /\ e # r /\ pc[e] \in {"done", "reaped"}
    BY <1>0, <2>1, <2>2
  <2>5. r \notin L
    BY <1>0, <1>3, <2>1, <2>4
  <2>6. L1 = (L \ {e}) \cup (IF SegOf[r] = g THEN {r} ELSE {})
    <3>1. \A u \in Updates : KeyOf[u] # KeyOf[r] => (u \in L1 <=> u \in L)
      BY <1>0, <1>3, <1>4, <2>1
    <3>2. \A u \in Updates : KeyOf[u] = KeyOf[r] => (u \in L <=> SegOf[u] = g /\ u = e)
      BY <1>0, <1>3, <2>1
    <3>3. \A u \in Updates : KeyOf[u] = KeyOf[r] => (u \in L1 <=> SegOf[u] = g /\ u = r)
      BY <1>0, <1>4, <2>1
    <3> QED
      BY <1>3, <1>4, <2>4, <3>1, <3>2, <3>3
  <2>7. S1 = IF SegOf[r] = g THEN S \cup {r} ELSE S
    BY <1>0, <1>3, <1>4, <2>2
  <2>8. PICK M : M = L \ {e}
    OBVIOUS
  <2>9. M \in SUBSET Updates /\ r \notin M /\ TotalSize(M) \in Nat
    BY <1>3, <2>5, <2>8, SumNatural
  <2>10. d1 + TotalSize(M) = d + TotalSize(L)
    <3>1. CASE SegOf[e] = g
      <4>1. e \in L
        BY <1>0, <1>3, <2>1, <2>4, <3>1
      <4>2. TotalSize(M) = TotalSize(L) - EntrySize(e)
        BY <1>3, <2>8, <4>1, SumRemove
      <4>3. d1 = d + EntrySize(e)
        BY <1>0, <1>2, <1>10, <3>1 DEF Succeeds
      <4> QED
        BY <1>3, <1>5, <1>6, <4>2, <4>3
    <3>2. CASE SegOf[e] # g
      <4>1. M = L
        BY <1>3, <2>8, <3>2
      <4>2. d1 = d
        BY <1>0, <1>2, <1>10, <3>2 DEF Succeeds
      <4> QED
        BY Zenon, <4>1, <4>2
    <3> QED
      BY <3>1, <3>2
  <2>11. d1 \in Nat
    <3>1. death_size' \in [Segments -> Nat]
      BY <1>0, <1>6, <1>10 DEF Succeeds
    <3> QED
      BY <1>2, <3>1
  <2>12. CASE SegOf[r] = g
    <3>1. L1 = M \cup {r} /\ S1 = S \cup {r}
      BY <2>6, <2>7, <2>8, <2>12
    <3>2. /\ TotalSize(L1) = TotalSize(M) + EntrySize(r)
          /\ TotalSize(S1) = TotalSize(S) + EntrySize(r)
      BY <1>3, <2>3, <2>9, <3>1, SumAdd
    <3> QED
      BY <1>3, <1>5, <1>6, <2>9, <2>10, <2>11, <3>2
  <2>13. CASE SegOf[r] # g
    <3>1. L1 = M /\ S1 = S
      BY <2>6, <2>7, <2>8, <2>13
    <3> QED
      BY Zenon, <1>5, <2>10, <3>1
  <2> QED
    BY <2>12, <2>13
<1>11. ASSUME NEW r \in Updates, NEW e \in Updates, Leaves(r, e)
       PROVE  d1 + TotalSize(L1) = TotalSize(S1)
  <2>1. /\ entries[KeyOf[r]] = e /\ entries'[KeyOf[r]] = NoUpdate
        /\ \A k \in Keys : k # KeyOf[r] => entries'[k] = entries[k]
    BY <1>0, <1>11 DEF Leaves
  <2>2. pc[r] = "done" /\ pc'[r] = "reaped" /\ \A u \in Updates \ {r} : pc'[u] = pc[u]
    BY <1>0, <1>11 DEF Leaves
  <2>3. SegOf[e] = SegOf[r] /\ SizeOf[e] = 0 /\ SizeOf[r] = 0
    BY <1>11, IndexManagerAssumption DEF Leaves
  <2>4. KeyOf[e] = KeyOf[r]
    BY <1>0, <2>1
  <2>5. S1 = S
    <3>1. \A u \in Updates : pc'[u] \in {"done", "reaped"} <=> pc[u] \in {"done", "reaped"}
      BY <2>2
    <3>2. \A u \in Updates : u \in S1 <=> u \in S
      BY <1>3, <1>4, <3>1
    <3> QED
      BY <1>3, <1>4, <3>2
  <2>6. L1 = L \ {e}
    <3>1. \A u \in Updates : KeyOf[u] # KeyOf[r] => (u \in L1 <=> u \in L)
      BY <1>0, <1>3, <1>4, <2>1
    <3>2. \A u \in Updates : KeyOf[u] = KeyOf[r] => (u \in L <=> SegOf[u] = g /\ u = e)
      BY <1>0, <1>3, <2>1
    <3>3. \A u \in Updates : KeyOf[u] = KeyOf[r] => u \notin L1
      BY <1>0, <1>4, <2>1
    <3> QED
      BY <1>3, <1>4, <2>4, <3>1, <3>2, <3>3
  <2>7. EntrySize(e) = EntrySize(r)
    BY <2>3 DEF EntrySize
  <2>8. CASE SegOf[r] = g
    <3>1. e \in L
      BY <1>0, <1>3, <2>1, <2>3, <2>4, <2>8
    <3>2. TotalSize(L1) = TotalSize(L) - EntrySize(e)
      BY <1>3, <2>6, <3>1, SumRemove
    <3>3. d1 = d + EntrySize(r)
      BY <1>0, <1>2, <1>11, <2>8 DEF Leaves
    <3>4. TotalSize(S1) = TotalSize(S)
      BY Zenon, <2>5
    <3> QED
      BY <1>3, <1>5, <1>6, <2>7, <3>2, <3>3, <3>4
  <2>9. CASE SegOf[r] # g
    <3>1. L1 = L
      BY <1>3, <2>3, <2>6, <2>9
    <3>2. d1 = d
      BY <1>0, <1>2, <1>11, <2>9 DEF Leaves
    <3> QED
      BY Zenon, <1>5, <2>5, <3>1, <3>2
  <2> QED
    BY <2>8, <2>9
<1> QED
  BY <1>7, <1>8, <1>9, <1>10, <1>11 DEF IndexEffect

(* dataTheorySize_ under each effect.  The header that a delete takes off  *)
(* is the one that the entry it replaces had put there.                    *)
LEMMA TheoryStep ==
  ASSUME CountInv, OwnInv, TheoryInv, IndexEffect, slips \subseteq slips'
  PROVE  TheoryInv'
<1>0. /\ DOMAIN pc = Updates
      /\ entries \in [Keys -> Updates \cup {NoUpdate}] /\ NoUpdate \notin Updates
      /\ KeyOf \in [Updates -> Keys]
      /\ SizeOf \in [Updates -> Nat]
      /\ dataTheorySize \in 0 .. Word - 1
      /\ Deletes \subseteq Updates
      /\ \A k \in Keys :
           entries[k] # NoUpdate => KeyOf[entries[k]] = k /\ pc[entries[k]] \in {"done", "reaped"}
  BY IndexManagerAssumption DEF CountInv, OwnInv
<1> SUFFICES ASSUME slips' \subseteq {"raced"}
             PROVE  dataTheorySize' = TotalSize(Valued') % Word
  BY DEF TheoryInv
<1>1. dataTheorySize = TotalSize(Valued) % Word
  BY DEF TheoryInv
<1>2. PICK V, V1, d1 : V = Valued /\ V1 = Valued' /\ d1 = dataTheorySize'
  OBVIOUS
<1>3. /\ V \in SUBSET Updates
      /\ \A u \in Updates : u \in V <=> u \notin Deletes /\ entries[KeyOf[u]] = u
  BY <1>2 DEF Valued
<1>4. /\ V1 \in SUBSET Updates
      /\ \A u \in Updates : u \in V1 <=> u \notin Deletes /\ entries'[KeyOf[u]] = u
  BY <1>2 DEF Valued
<1>5. dataTheorySize = TotalSize(V) % Word /\ TotalSize(V) \in Nat
  <2>1. dataTheorySize = TotalSize(V) % Word
    BY Zenon, <1>1, <1>2
  <2> QED
    BY <1>3, <2>1, SumNatural
<1>6. \A u \in Updates : EntrySize(u) \in Nat /\ EntrySize(u) = HeaderSize + SizeOf[u]
  BY SizesPositive DEF EntrySize
<1>7. Word \in Nat \ {0} /\ HeaderSize \in Nat
  BY IndexManagerAssumption
<1> SUFFICES d1 = TotalSize(V1) % Word
  BY Zenon, <1>2
<1>8. CASE TablesSame
  <2>1. d1 = dataTheorySize
    BY <1>2, <1>8 DEF TablesSame
  <2>2. entries' = entries
    BY <1>8 DEF TablesSame
  <2>3. V1 = V
    BY <1>3, <1>4, <2>2
  <2> QED
    BY Zenon, <1>5, <2>1, <2>3
<1>9. ASSUME NEW r \in Updates, Enters(r) PROVE d1 = TotalSize(V1) % Word
  <2>1. /\ entries[KeyOf[r]] = NoUpdate /\ entries'[KeyOf[r]] = r
        /\ \A k \in Keys : k # KeyOf[r] => entries'[k] = entries[k]
    BY <1>0, <1>9 DEF Enters
  <2>2. r \notin Deletes
    BY <1>9 DEF Enters
  <2>3. r \notin V
    BY <1>0, <1>3, <2>1
  <2>4. V1 = V \cup {r}
    <3>1. \A u \in Updates : u # r => (u \in V1 <=> u \in V)
      BY <1>0, <1>3, <1>4, <2>1
    <3>2. r \in V1
      BY <1>4, <2>1, <2>2
    <3> QED
      BY <1>3, <1>4, <3>1, <3>2
  <2>5. TotalSize(V1) = TotalSize(V) + EntrySize(r)
    BY <1>3, <2>3, <2>4, SumAdd
  <2>6. d1 = (dataTheorySize + EntrySize(r)) % Word
    BY <1>2, <1>9 DEF Enters
  <2>7. ((TotalSize(V) % Word) + EntrySize(r)) % Word = (TotalSize(V) + EntrySize(r)) % Word
    BY <1>5, <1>6, <1>7, WrapLater
  <2> QED
    BY Zenon, <1>5, <2>5, <2>6, <2>7
<1>10. ASSUME NEW r \in Updates, DiesAtOnce(r) PROVE d1 = TotalSize(V1) % Word
  <2>1. d1 = dataTheorySize
    BY <1>2, <1>10 DEF DiesAtOnce
  <2>2. entries' = entries
    BY <1>10 DEF DiesAtOnce
  <2>3. V1 = V
    BY <1>3, <1>4, <2>2
  <2> QED
    BY Zenon, <1>5, <2>1, <2>3
<1>11. ASSUME NEW r \in Updates, NEW e \in Updates, Succeeds(r, e)
       PROVE  d1 = TotalSize(V1) % Word
  <2>1. /\ entries[KeyOf[r]] = e /\ entries'[KeyOf[r]] = r
        /\ \A k \in Keys : k # KeyOf[r] => entries'[k] = entries[k]
    BY <1>0, <1>11 DEF Succeeds
  <2>2. e \notin Deletes
    <3>1. "rewritten" \notin slips'
      OBVIOUS
    <3> QED
      BY <1>11, <3>1 DEF Succeeds
  <2>3. SizeOf[r] = 0 <=> r \in Deletes
    <3>1. "emptied" \notin slips'
      OBVIOUS
    <3>2. ~EmptyValue(r)
      BY <1>11, <3>1 DEF Succeeds
    <3> QED
      BY <3>2, IndexManagerAssumption DEF EmptyValue
  <2>4. KeyOf[e] = KeyOf[r] /\ e # r
    BY <1>0, <1>11, <2>1 DEF Succeeds
  <2>5. e \in V /\ r \notin V
    BY <1>0, <1>3, <2>1, <2>2, <2>4
  <2>6. PICK M : M = V \ {e}
    OBVIOUS
  <2>7. /\ M \in SUBSET Updates /\ r \notin M /\ TotalSize(M) \in Nat
        /\ TotalSize(M) = TotalSize(V) - EntrySize(e)
    BY <1>3, <2>5, <2>6, SumRemove
  <2>8. V1 = M \cup (IF r \in Deletes THEN {} ELSE {r})
    <3>1. \A u \in Updates : KeyOf[u] # KeyOf[r] => (u \in V1 <=> u \in V)
      BY <1>0, <1>3, <1>4, <2>1
    <3>2. \A u \in Updates : KeyOf[u] = KeyOf[r] => (u \in V <=> u = e)
      BY <1>0, <1>3, <2>1, <2>2
    <3>3. \A u \in Updates : KeyOf[u] = KeyOf[r] => (u \in V1 <=> u = r /\ r \notin Deletes)
      BY <1>0, <1>4, <2>1
    <3> QED
      BY <1>3, <1>4, <2>4, <2>6, <3>1, <3>2, <3>3
  <2>9. CASE r \in Deletes
    <3>1. V1 = M
      BY <2>8, <2>9
    <3>2. d1 = (dataTheorySize - EntrySize(e)) % Word
      BY <1>2, <1>11, <2>3, <2>9 DEF Succeeds
    <3>3. PICK y \in Int : y = 0 - EntrySize(e)
      BY <1>6
    <3>4. ((TotalSize(V) % Word) + y) % Word = (TotalSize(V) + y) % Word
      BY <1>5, <1>7, WrapLater
    <3>5. dataTheorySize - EntrySize(e) = (TotalSize(V) % Word) + y
      BY <1>0, <1>5, <1>6, <3>3
    <3>6. TotalSize(M) = TotalSize(V) + y
      BY <1>5, <1>6, <2>7, <3>3
    <3> QED
      BY Zenon, <3>1, <3>2, <3>4, <3>5, <3>6
  <2>10. CASE r \notin Deletes
    <3>1. V1 = M \cup {r}
      BY <2>8, <2>10
    <3>2. d1 = (dataTheorySize + SizeOf[r] - SizeOf[e]) % Word
      BY <1>2, <1>11, <2>3, <2>10 DEF Succeeds
    <3>3. PICK y \in Int : y = SizeOf[r] - SizeOf[e]
      BY <1>0
    <3>4. ((TotalSize(V) % Word) + y) % Word = (TotalSize(V) + y) % Word
      BY <1>5, <1>7, WrapLater
    <3>5. dataTheorySize + SizeOf[r] - SizeOf[e] = (TotalSize(V) % Word) + y
      BY <1>0, <1>5, <3>3
    <3>6. TotalSize(V1) = TotalSize(M) + EntrySize(r)
      BY <2>7, <3>1, SumAdd
    <3>7. TotalSize(V1) = TotalSize(V) + y
      BY <1>0, <1>5, <1>6, <1>7, <2>7, <3>3, <3>6
    <3> QED
      BY Zenon, <3>2, <3>4, <3>5, <3>7
  <2> QED
    BY <2>9, <2>10
<1>12. ASSUME NEW r \in Updates, NEW e \in Updates, Leaves(r, e)
       PROVE  d1 = TotalSize(V1) % Word
  <2>1. /\ entries[KeyOf[r]] = e /\ entries'[KeyOf[r]] = NoUpdate
        /\ \A k \in Keys : k # KeyOf[r] => entries'[k] = entries[k]
    BY <1>0, <1>12 DEF Leaves
  <2>2. e \in Deletes
    <3>1. "emptied" \notin slips'
      OBVIOUS
    <3>2. ~EmptyValue(e) /\ SizeOf[e] = 0
      BY <1>12, <3>1 DEF Leaves
    <3> QED
      BY <3>2 DEF EmptyValue
  <2>3. V1 = V
    <3>1. \A u \in Updates : KeyOf[u] # KeyOf[r] => (u \in V1 <=> u \in V)
      BY <1>0, <1>3, <1>4, <2>1
    <3>2. \A u \in Updates : KeyOf[u] = KeyOf[r] => u \notin V
      BY <1>0, <1>3, <2>1, <2>2
    <3>3. \A u \in Updates : KeyOf[u] = KeyOf[r] => u \notin V1
      BY <1>0, <1>4, <2>1
    <3> QED
      BY <1>3, <1>4, <3>1, <3>2, <3>3
  <2>4. d1 = dataTheorySize
    BY <1>2, <1>12 DEF Leaves
  <2> QED
    BY Zenon, <1>5, <2>3, <2>4
<1> QED
  BY <1>8, <1>9, <1>10, <1>11, <1>12 DEF IndexEffect

(* The four parts of the invariant are kept by every step.                 *)
LEMMA IndexGoesOn == IndexInv /\ [Next]_vars => IndexInv'
<1> SUFFICES ASSUME IndexInv, [Next]_vars PROVE IndexInv'
  OBVIOUS
<1>1. CountInv /\ OwnInv /\ DeathInv /\ TheoryInv
  BY DEF IndexInv
<1>2. IndexEffect /\ slips \subseteq slips'
  BY <1>1, StepEffect
<1>3. CountInv'
  BY <1>1, CountStep
<1>4. OwnInv'
  BY <1>1, OwnStep
<1>5. DeathInv'
  BY <1>1, <1>2, DeathStep
<1>6. TheoryInv'
  BY <1>1, <1>2, TheoryStep
<1> QED
  BY <1>3, <1>4, <1>5, <1>6 DEF IndexInv

(* The sets of the properties are those of the invariant.                  *)
LEMMA LiveAreEntered ==
  ASSUME CountInv, OwnInv
  PROVE  Values = Valued /\ \A g \in Segments : LiveIn(g) = Entered(g)
<1>1. /\ entries \in [Keys -> Updates \cup {NoUpdate}] /\ NoUpdate \notin Updates
      /\ KeyOf \in [Updates -> Keys]
      /\ \A k \in Keys : entries[k] # NoUpdate => KeyOf[entries[k]] = k
  BY IndexManagerAssumption DEF CountInv, OwnInv
<1>2. \A k \in Live : entries[k] \in Updates /\ entries[KeyOf[entries[k]]] = entries[k]
  BY <1>1 DEF Live
<1>3. \A u \in Updates : entries[KeyOf[u]] = u => KeyOf[u] \in Live
  BY <1>1 DEF Live
<1>4. Values = Valued
  <2>1. Values \subseteq Valued
    BY <1>2 DEF Values, Valued
  <2>2. Valued \subseteq Values
    BY <1>3 DEF Values, Valued
  <2> QED
    BY <2>1, <2>2
<1>5. ASSUME NEW g \in Segments PROVE LiveIn(g) = Entered(g)
  <2>1. LiveIn(g) \subseteq Entered(g)
    BY <1>2 DEF LiveIn, Entered
  <2>2. Entered(g) \subseteq LiveIn(g)
    BY <1>3 DEF LiveIn, Entered
  <2> QED
    BY <2>1, <2>2
<1> QED
  BY <1>4, <1>5

(* Types, once the counter is known to be a number of keys.                *)
LEMMA IndexTypes == IndexInv => TypeOK
<1> SUFFICES ASSUME IndexInv PROVE TypeOK
  OBVIOUS
<1>1. CountInv /\ OwnInv
  BY DEF IndexInv
<1>2. keyCounter \in Nat
  BY <1>1, LiveFinite DEF CountInv, CounterIsExact
<1> QED
  BY <1>1, <1>2 DEF CountInv, OwnInv, TypeOK

(* Once the updates of a segment are over, what was written to it is live  *)
(* or dead.                                                                *)
LEMMA DeathFollows == IndexInv => DeathIsExact
<1> SUFFICES ASSUME IndexInv PROVE DeathIsExact
  OBVIOUS
<1>1. CountInv /\ OwnInv /\ DeathInv
  BY DEF IndexInv
<1>2. ASSUME NEW g \in Segments, SegmentCommitted(g),
             \A r \in {u \in Updates : SegOf[u] = g} : pc[r] # "refused"
      PROVE  Settled(g) = {r \in Updates : SegOf[r] = g}
  <2>1. \A r \in Updates : SegOf[r] = g => pc[r] \in {"done", "reaped"}
    BY <1>1, <1>2 DEF CountInv, SegmentCommitted
  <2> QED
    BY <2>1 DEF Settled
<1>3. ASSUME NEW g \in Segments, SegmentCommitted(g),
             \A r \in {u \in Updates : SegOf[u] = g} : pc[r] # "refused"
      PROVE  death_size[g] + TotalSize(LiveIn(g)) = TotalSize({r \in Updates : SegOf[r] = g})
  <2>1. LiveIn(g) = Entered(g)
    BY <1>1, LiveAreEntered
  <2>2. Settled(g) = {r \in Updates : SegOf[r] = g}
    BY <1>2, <1>3
  <2>3. death_size[g] + TotalSize(Entered(g)) = TotalSize(Settled(g))
    BY <1>1 DEF DeathInv
  <2> QED
    BY Zenon, <2>1, <2>2, <2>3
<1> QED
  BY Zenon, <1>3 DEF DeathIsExact

(* The live size is the size of the values in the table.                   *)
LEMMA TheoryFollows == IndexInv => TheoryIsExact
<1> SUFFICES ASSUME IndexInv, slips \subseteq {"raced"}
             PROVE  dataTheorySize = TotalSize(Values) % Word
  BY DEF TheoryIsExact
<1>1. Values = Valued
  BY LiveAreEntered DEF IndexInv
<1>2. dataTheorySize = TotalSize(Valued) % Word
  BY DEF IndexInv, TheoryInv
<1> QED
  BY Zenon, <1>1, <1>2

(* dataTheorySize_, by which BackGC decides whether to collect, is the size *)
(* of the live values modulo its width, whatever updates of whatever sizes *)
(* come in whatever order, until a tombstone is written over or an empty   *)
(* value is taken for one.                                                 *)
THEOREM TheoryCorrect == Spec => []TheoryIsExact
<1> QED BY IndexStarts, IndexGoesOn, TheoryFollows, PTL DEF Spec

(* Every byte of a segment whose updates are over is live or dead, never   *)
(* both: dead space, by which GC chooses its candidates, is exact.         *)
THEOREM DeadSpaceCorrect == Spec => [](TypeOK /\ DeathIsExact)
<1>1. IndexInv => TypeOK /\ DeathIsExact
  BY IndexTypes, DeathFollows
<1> QED BY <1>1, IndexStarts, IndexGoesOn, PTL DEF Spec

-----------------------------------------------------------------------------
(* The lists of the slots. *)

Holds(list, k) == \E n \in DOMAIN list : list[n] = k
OnceEach(list) == \A i, j \in DOMAIN list : list[i] = list[j] => i = j

(* Each list holds the keys of its slot that have an entry, each once.     *)
ListInv ==
  /\ entryList \in [Slots -> Seq(Keys)]
  /\ \A s \in Slots : OnceEach(entryList[s])
  /\ \A s \in Slots : \A k \in Keys :
       Holds(entryList[s], k) <=> k \in Live /\ SlotOf[k] = s

(* A step leaves the set of entries alone, adds a key or removes one.      *)
LEMMA LiveChange ==
  ASSUME CountInv, OwnInv, [Next]_vars
  PROVE  \/ Gained = {} /\ Lost = {} /\ Live' = Live
         \/ \E k \in Keys : k \notin Live /\ Gained = {k} /\ Lost = {} /\ Live' = Live \cup {k}
         \/ \E k \in Keys : k \in Live /\ Gained = {} /\ Lost = {k} /\ Live' = Live \ {k}
<1>0. /\ entries \in [Keys -> Updates \cup {NoUpdate}] /\ NoUpdate \notin Updates
      /\ KeyOf \in [Updates -> Keys]
  BY IndexManagerAssumption DEF CountInv
<1>1. IndexEffect
  BY StepEffect
<1>2. ASSUME entries' = entries PROVE Gained = {} /\ Lost = {} /\ Live' = Live
  BY <1>2 DEF Gained, Lost, Live
<1>3. ASSUME NEW r \in Updates, Enters(r)
      PROVE  \E k \in Keys : k \notin Live /\ Gained = {k} /\ Lost = {} /\ Live' = Live \cup {k}
  <2>1. PICK k \in Keys : k = KeyOf[r]
    BY <1>0
  <2>2. /\ entries[k] = NoUpdate /\ entries'[k] # NoUpdate
        /\ \A j \in Keys : j # k => entries'[j] = entries[j]
    BY <1>0, <1>3, <2>1 DEF Enters
  <2>3. k \notin Live /\ Gained = {k} /\ Lost = {} /\ Live' = Live \cup {k}
    BY <2>2 DEF Gained, Lost, Live
  <2> QED
    BY <2>3
<1>4. ASSUME NEW r \in Updates, NEW e \in Updates, Succeeds(r, e)
      PROVE  Gained = {} /\ Lost = {} /\ Live' = Live
  <2>1. PICK k \in Keys : k = KeyOf[r]
    BY <1>0
  <2>2. /\ entries[k] # NoUpdate /\ entries'[k] # NoUpdate
        /\ \A j \in Keys : j # k => entries'[j] = entries[j]
    BY <1>0, <1>4, <2>1 DEF Succeeds
  <2> QED
    BY <2>2 DEF Gained, Lost, Live
<1>5. ASSUME NEW r \in Updates, NEW e \in Updates, Leaves(r, e)
      PROVE  \E k \in Keys : k \in Live /\ Gained = {} /\ Lost = {k} /\ Live' = Live \ {k}
  <2>1. PICK k \in Keys : k = KeyOf[r]
    BY <1>0
  <2>2. /\ entries[k] # NoUpdate /\ entries'[k] = NoUpdate
        /\ \A j \in Keys : j # k => entries'[j] = entries[j]
    BY <1>0, <1>5, <2>1 DEF Leaves
  <2>3. k \in Live /\ Gained = {} /\ Lost = {k} /\ Live' = Live \ {k}
    BY <2>2 DEF Gained, Lost, Live
  <2> QED
    BY <2>3
<1> QED
  BY <1>1, <1>2, <1>3, <1>4, <1>5 DEF IndexEffect, TablesSame, DiesAtOnce

(* The lists after a step.                                                 *)
Appended(k) ==
  /\ k \in Keys /\ k \notin Live /\ Live' = Live \cup {k} /\ Lost = {}
  /\ entryList' = [s \in Slots |-> IF s = SlotOf[k] THEN Append(entryList[s], k) ELSE entryList[s]]

Unlinked(k) ==
  /\ k \in Keys /\ k \in Live /\ Live' = Live \ {k} /\ Lost = {k}
  /\ entryList' = [s \in Slots |-> IF s = SlotOf[k] THEN Unlink(entryList[s], k) ELSE entryList[s]]

ListsSame == Live' = Live /\ Lost = {} /\ entryList' = entryList

ListEffect == ListsSame \/ \E k \in Keys : Appended(k) \/ Unlinked(k)

(* A step of the index leaves the lists alone, appends a new key to the    *)
(* list of its slot or unlinks a lost one from it.                         *)
LEMMA ListChange ==
  ASSUME CountInv, OwnInv, ListInv, IndexStep
  PROVE  ListEffect
<1>0. entryList = [s \in Slots |-> entryList[s]]
  BY DEF ListInv
<1>1. [Next]_vars
  BY DEF IndexStep
<1>2. entryList' = [s \in Slots |->
                      IF {k \in Gained : SlotOf[k] = s} # {}
                      THEN Put(entryList[s], CHOOSE k \in {k \in Gained : SlotOf[k] = s} : TRUE)
                      ELSE IF {k \in Lost : SlotOf[k] = s} # {}
                      THEN Unlink(entryList[s], CHOOSE k \in {k \in Lost : SlotOf[k] = s} : TRUE)
                      ELSE entryList[s]]
  BY DEF IndexStep
<1>3. CASE Gained = {} /\ Lost = {} /\ Live' = Live
  <2>1. entryList' = [s \in Slots |-> entryList[s]]
    BY <1>2, <1>3
  <2> QED
    BY Zenon, <1>0, <1>3, <2>1 DEF ListEffect, ListsSame
<1>4. ASSUME NEW k \in Keys, k \notin Live, Gained = {k}, Lost = {}, Live' = Live \cup {k}
      PROVE  ListEffect
  <2>1. \A s \in Slots : s = SlotOf[k] => {j \in Gained : SlotOf[j] = s} = {k}
    BY <1>4
  <2>2. \A s \in Slots : s # SlotOf[k] => {j \in Gained : SlotOf[j] = s} = {}
    BY <1>4
  <2>3. \A s \in Slots : {j \in Lost : SlotOf[j] = s} = {}
    BY <1>4
  <2>4. (CHOOSE j \in {k} : TRUE) = k
    OBVIOUS
  <2>5. ASSUME NEW s \in Slots
        PROVE  entryList'[s] = IF s = SlotOf[k] THEN Append(entryList[s], k) ELSE entryList[s]
    <3>1. CASE s = SlotOf[k]
      <4>1. PICK new : new = {j \in Gained : SlotOf[j] = s}
        OBVIOUS
      <4>2. new = {k} /\ new # {}
        BY <2>1, <3>1, <4>1
      <4>3. new # {} => entryList'[s] = Append(entryList[s], CHOOSE j \in new : TRUE)
        BY Zenon, <1>2, <4>1 DEF Put
      <4> QED
        BY Zenon, <2>4, <3>1, <4>2, <4>3
    <3>2. CASE s # SlotOf[k]
      <4>1. {j \in Gained : SlotOf[j] = s} = {} /\ {j \in Lost : SlotOf[j] = s} = {}
        BY <2>2, <2>3, <3>2
      <4> QED
        BY Zenon, <1>2, <3>2, <4>1
    <3> QED
      BY <3>1, <3>2
  <2>6. entryList' = [s \in Slots |-> entryList'[s]]
    BY <1>2
  <2>7. entryList' = [s \in Slots |->
                        IF s = SlotOf[k] THEN Append(entryList[s], k) ELSE entryList[s]]
    BY Zenon, <2>5, <2>6
  <2>8. Appended(k)
    BY Zenon, <1>4, <2>7 DEF Appended
  <2> QED
    BY <2>8 DEF ListEffect
<1>5. ASSUME NEW k \in Keys, k \in Live, Gained = {}, Lost = {k}, Live' = Live \ {k}
      PROVE  ListEffect
  <2>1. \A s \in Slots : s = SlotOf[k] => {j \in Lost : SlotOf[j] = s} = {k}
    BY <1>5
  <2>2. \A s \in Slots : s # SlotOf[k] => {j \in Lost : SlotOf[j] = s} = {}
    BY <1>5
  <2>3. \A s \in Slots : {j \in Gained : SlotOf[j] = s} = {}
    BY <1>5
  <2>4. (CHOOSE j \in {k} : TRUE) = k
    OBVIOUS
  <2>5. ASSUME NEW s \in Slots
        PROVE  entryList'[s] = IF s = SlotOf[k] THEN Unlink(entryList[s], k) ELSE entryList[s]
    <3>1. CASE s = SlotOf[k]
      <4>1. PICK new, old : /\ new = {j \in Gained : SlotOf[j] = s}
                            /\ old = {j \in Lost : SlotOf[j] = s}
        OBVIOUS
      <4>2. new = {} /\ old = {k} /\ old # {}
        BY <2>1, <2>3, <3>1, <4>1
      <4>3. new = {} /\ old # {} =>
              entryList'[s] = Unlink(entryList[s], CHOOSE j \in old : TRUE)
        BY Zenon, <1>2, <4>1
      <4> QED
        BY Zenon, <2>4, <3>1, <4>2, <4>3
    <3>2. CASE s # SlotOf[k]
      <4>1. {j \in Gained : SlotOf[j] = s} = {} /\ {j \in Lost : SlotOf[j] = s} = {}
        BY <2>2, <2>3, <3>2
      <4> QED
        BY Zenon, <1>2, <3>2, <4>1
    <3> QED
      BY <3>1, <3>2
  <2>6. entryList' = [s \in Slots |-> entryList'[s]]
    BY <1>2
  <2>7. entryList' = [s \in Slots |->
                        IF s = SlotOf[k] THEN Unlink(entryList[s], k) ELSE entryList[s]]
    BY Zenon, <2>5, <2>6
  <2>8. Unlinked(k)
    BY Zenon, <1>5, <2>7 DEF Unlinked
  <2> QED
    BY <2>8 DEF ListEffect
<1> QED
  BY <1>1, <1>3, <1>4, <1>5, LiveChange

(* A key put at the end of a list that does not hold it.                   *)
LEMMA AfterPut ==
  ASSUME NEW list \in Seq(Keys), NEW k \in Keys, ~Holds(list, k), OnceEach(list)
  PROVE  \A new : new = Append(list, k) =>
           /\ new \in Seq(Keys) /\ Len(new) = Len(list) + 1
           /\ \A i \in DOMAIN list : new[i] = list[i]
           /\ new[Len(list) + 1] = k
           /\ DOMAIN list = 1 .. Len(list) /\ DOMAIN new = 1 .. Len(list) + 1
           /\ OnceEach(new)
           /\ \A x \in Keys : Holds(new, x) <=> Holds(list, x) \/ x = k
<1> SUFFICES ASSUME NEW new, new = Append(list, k)
             PROVE  /\ new \in Seq(Keys) /\ Len(new) = Len(list) + 1
                    /\ \A i \in DOMAIN list : new[i] = list[i]
                    /\ new[Len(list) + 1] = k
                    /\ DOMAIN list = 1 .. Len(list) /\ DOMAIN new = 1 .. Len(list) + 1
                    /\ OnceEach(new)
                    /\ \A x \in Keys : Holds(new, x) <=> Holds(list, x) \/ x = k
  OBVIOUS
<1>0. \A i, j \in DOMAIN list : list[i] = list[j] => i = j
  BY DEF OnceEach
<1>1. /\ new \in Seq(Keys) /\ Len(new) = Len(list) + 1
      /\ \A i \in 1 .. Len(list) : new[i] = list[i]
      /\ new[Len(list) + 1] = k
  OBVIOUS
<1>2. DOMAIN list = 1 .. Len(list) /\ DOMAIN new = 1 .. Len(list) + 1 /\ Len(list) \in Nat
  BY <1>1
<1>3. \A i \in DOMAIN new : i \in DOMAIN list \/ i = Len(list) + 1
  BY <1>2
<1>4. \A i \in DOMAIN list : list[i] # k
  BY DEF Holds
<1>5. \A i, j \in DOMAIN new : new[i] = new[j] => i = j
  BY <1>0, <1>1, <1>2, <1>3, <1>4
<1>6. \A x \in Keys : Holds(new, x) <=> Holds(list, x) \/ x = k
  BY <1>1, <1>2, <1>3 DEF Holds
<1> QED
  BY <1>1, <1>2, <1>5, <1>6 DEF OnceEach

(* A key taken out of the list that holds it.                              *)
LEMMA AfterUnlink ==
  ASSUME NEW list \in Seq(Keys), NEW k \in Keys, Holds(list, k), OnceEach(list)
  PROVE  \A new : new = Unlink(list, k) =>
           /\ new \in Seq(Keys)
           /\ OnceEach(new)
           /\ \A x \in Keys : Holds(new, x) <=> Holds(list, x) /\ x # k
<1> SUFFICES ASSUME NEW new, new = Unlink(list, k)
             PROVE  /\ new \in Seq(Keys)
                    /\ OnceEach(new)
                    /\ \A x \in Keys : Holds(new, x) <=> Holds(list, x) /\ x # k
  OBVIOUS
<1>0. \A i, j \in DOMAIN list : list[i] = list[j] => i = j
  BY DEF OnceEach
<1>1. PICK p \in DOMAIN list : p = CHOOSE n \in DOMAIN list : list[n] = k
  BY DEF Holds
<1>2. list[p] = k
  BY <1>1 DEF Holds
<1>3. new = RemoveAt(list, p)
  BY Zenon, <1>1 DEF Unlink, Holds
<1>4. new = SubSeq(list, 1, p - 1) \o SubSeq(list, p + 1, Len(list))
  BY Zenon, <1>3 DEF RemoveAt
<1>5. /\ new \in Seq(Keys) /\ Len(new) = Len(list) - 1
      /\ \A i \in 1 .. Len(list) - 1 : new[i] = IF i < p THEN list[i] ELSE list[i + 1]
  <2>1. \A cut : cut = SubSeq(list, 1, p - 1) \o SubSeq(list, p + 1, Len(list)) =>
          /\ cut \in Seq(Keys) /\ Len(cut) = Len(list) - 1
          /\ \A i \in 1 .. Len(list) - 1 : cut[i] = IF i < p THEN list[i] ELSE list[i + 1]
    BY CutOut
  <2> QED
    BY Zenon, <1>4, <2>1
<1>6. /\ Len(list) \in Nat /\ p \in 1 .. Len(list) /\ DOMAIN list = 1 .. Len(list)
      /\ DOMAIN new = 1 .. Len(list) - 1
  BY <1>5
<1> HIDE DEF Unlink
<1>7. ASSUME NEW i \in DOMAIN new, NEW j \in DOMAIN new, new[i] = new[j] PROVE i = j
  <2>1. PICK a \in 1 .. Len(list) : a = IF i < p THEN i ELSE i + 1
    BY <1>6
  <2>2. PICK b \in 1 .. Len(list) : b = IF j < p THEN j ELSE j + 1
    BY <1>6
  <2>3. list[a] = new[i] /\ list[b] = new[j]
    BY <1>5, <1>6, <2>1, <2>2
  <2>4. a = b
    BY <1>0, <1>6, <1>7, <2>3
  <2> QED
    BY <1>6, <2>1, <2>2, <2>4
<1>8. ASSUME NEW x \in Keys, Holds(new, x) PROVE Holds(list, x) /\ x # k
  <2>1. PICK i \in DOMAIN new : new[i] = x
    BY <1>8 DEF Holds
  <2>2. PICK a \in 1 .. Len(list) : a = IF i < p THEN i ELSE i + 1
    BY <1>6
  <2>3. list[a] = x /\ a # p
    BY <1>5, <1>6, <2>1, <2>2
  <2> QED
    BY <1>0, <1>2, <1>6, <2>3 DEF Holds
<1>9. ASSUME NEW x \in Keys, Holds(list, x), x # k PROVE Holds(new, x)
  <2>1. PICK a \in DOMAIN list : list[a] = x
    BY <1>9 DEF Holds
  <2>2. a # p
    BY <1>2, <1>9, <2>1
  <2>3. PICK i \in 1 .. Len(list) - 1 : i = IF a < p THEN a ELSE a - 1
    BY <1>6, <2>1, <2>2
  <2>4. new[i] = x
    BY <1>5, <1>6, <2>1, <2>2, <2>3
  <2> QED
    BY <1>6, <2>3, <2>4 DEF Holds
<1> QED
  BY <1>5, <1>7, <1>8, <1>9 DEF OnceEach

(* An empty table has empty lists.                                         *)
LEMMA ListsStart == IterInit => ListInv
<1> SUFFICES ASSUME IterInit PROVE ListInv
  OBVIOUS
<1>1. entryList = [s \in Slots |-> <<>>]
  BY DEF IterInit
<1>2. Live = {}
  BY DEF IterInit, Init, Live
<1>3. \A s \in Slots : entryList[s] = <<>> /\ DOMAIN entryList[s] = {}
  BY <1>1
<1>4. entryList \in [Slots -> Seq(Keys)]
  BY <1>1
<1> QED
  BY <1>2, <1>3, <1>4 DEF ListInv, Holds, OnceEach

(* The lists follow the table.                                             *)
LEMMA ListsGoOn ==
  ASSUME ListInv, ListEffect
  PROVE  ListInv'
<1>0. /\ entryList \in [Slots -> Seq(Keys)]
      /\ SlotOf \in [Keys -> Slots]
      /\ \A s \in Slots : OnceEach(entryList[s])
      /\ \A s \in Slots : \A k \in Keys :
           Holds(entryList[s], k) <=> k \in Live /\ SlotOf[k] = s
  BY SlotAssumption DEF ListInv, Slots
<1>1. CASE ListsSame
  BY <1>0, <1>1 DEF ListInv, ListsSame
<1>2. ASSUME NEW k \in Keys, Appended(k) PROVE ListInv'
  <2>1. k \notin Live /\ Live' = Live \cup {k}
    BY <1>2 DEF Appended
  <2>2. \A s \in Slots : s # SlotOf[k] => entryList'[s] = entryList[s]
    BY <1>2 DEF Appended
  <2>3. PICK t \in Slots : t = SlotOf[k]
    BY <1>0
  <2>4. entryList'[t] = Append(entryList[t], k)
    BY <1>2, <2>3 DEF Appended
  <2>5. entryList[t] \in Seq(Keys) /\ ~Holds(entryList[t], k)
    BY <1>0, <2>1, <2>3
  <2>6. /\ entryList'[t] \in Seq(Keys)
        /\ OnceEach(entryList'[t])
        /\ \A x \in Keys : Holds(entryList'[t], x) <=> Holds(entryList[t], x) \/ x = k
    <3>1. PICK list, new : list = entryList[t] /\ new = entryList'[t]
      OBVIOUS
    <3>2. /\ list \in Seq(Keys) /\ ~Holds(list, k) /\ new = Append(list, k)
          /\ OnceEach(list)
      BY <1>0, <2>4, <2>5, <3>1
    <3>3. /\ new \in Seq(Keys)
          /\ OnceEach(new)
          /\ \A x \in Keys : Holds(new, x) <=> Holds(list, x) \/ x = k
      BY <3>2, AfterPut
    <3> QED
      BY Zenon, <3>1, <3>3
  <2>7. entryList' = [s \in Slots |-> entryList'[s]]
    BY <1>2 DEF Appended
  <2>8. \A s \in Slots : entryList'[s] \in Seq(Keys)
    BY <1>0, <2>2, <2>3, <2>6
  <2>9. entryList' \in [Slots -> Seq(Keys)]
    BY <2>7, <2>8
  <2>10. \A s \in Slots : OnceEach(entryList'[s])
    BY <1>0, <2>2, <2>3, <2>6
  <2>11. \A s \in Slots : \A x \in Keys :
           Holds(entryList'[s], x) <=> x \in Live' /\ SlotOf[x] = s
    BY <1>0, <2>1, <2>2, <2>3, <2>6
  <2> QED
    BY <2>9, <2>10, <2>11 DEF ListInv
<1>3. ASSUME NEW k \in Keys, Unlinked(k) PROVE ListInv'
  <2>1. k \in Live /\ Live' = Live \ {k}
    BY <1>3 DEF Unlinked
  <2>2. \A s \in Slots : s # SlotOf[k] => entryList'[s] = entryList[s]
    BY <1>3 DEF Unlinked
  <2>3. PICK t \in Slots : t = SlotOf[k]
    BY <1>0
  <2>4. entryList'[t] = Unlink(entryList[t], k)
    BY <1>3, <2>3 DEF Unlinked
  <2>5. entryList[t] \in Seq(Keys) /\ Holds(entryList[t], k)
    BY <1>0, <2>1, <2>3
  <2>6. /\ entryList'[t] \in Seq(Keys)
        /\ OnceEach(entryList'[t])
        /\ \A x \in Keys : Holds(entryList'[t], x) <=> Holds(entryList[t], x) /\ x # k
    <3>1. PICK list, new : list = entryList[t] /\ new = entryList'[t]
      OBVIOUS
    <3>2. /\ list \in Seq(Keys) /\ Holds(list, k) /\ new = Unlink(list, k)
          /\ OnceEach(list)
      BY <1>0, <2>4, <2>5, <3>1
    <3>3. /\ new \in Seq(Keys)
          /\ OnceEach(new)
          /\ \A x \in Keys : Holds(new, x) <=> Holds(list, x) /\ x # k
      BY <3>2, AfterUnlink
    <3> QED
      BY Zenon, <3>1, <3>3
  <2>7. entryList' = [s \in Slots |-> entryList'[s]]
    BY <1>3 DEF Unlinked
  <2>8. \A s \in Slots : entryList'[s] \in Seq(Keys)
    BY <1>0, <2>2, <2>3, <2>6
  <2>9. entryList' \in [Slots -> Seq(Keys)]
    BY <2>7, <2>8
  <2>10. \A s \in Slots : OnceEach(entryList'[s])
    BY <1>0, <2>2, <2>3, <2>6
  <2>11. \A s \in Slots : \A x \in Keys :
           Holds(entryList'[s], x) <=> x \in Live' /\ SlotOf[x] = s
    BY <1>0, <2>1, <2>2, <2>3, <2>6
  <2> QED
    BY <2>9, <2>10, <2>11 DEF ListInv
<1> QED
  BY <1>1, <1>2, <1>3 DEF ListEffect

(* A list without repetitions is as long as its set of keys is large.      *)
LEMMA ListsFollow == ListInv => ListsMatch
<1> SUFFICES ASSUME ListInv, NEW s \in Slots
             PROVE  LET keys == {k \in Live : SlotOf[k] = s}
                    IN /\ {entryList[s][n] : n \in DOMAIN entryList[s]} = keys
                       /\ Len(entryList[s]) = Cardinality(keys)
  BY DEF ListsMatch
<1> DEFINE keys == {k \in Live : SlotOf[k] = s}
<1>1. PICK list : list = entryList[s]
  OBVIOUS
<1>2. /\ list \in Seq(Keys) /\ OnceEach(list)
      /\ \A k \in Keys : Holds(list, k) <=> k \in Live /\ SlotOf[k] = s
  BY <1>1 DEF ListInv
<1>3. Live \subseteq Keys
  BY DEF Live
<1>4. DOMAIN list = 1 .. Len(list) /\ Len(list) \in Nat /\ \A n \in 1 .. Len(list) : list[n] \in Keys
  BY <1>2
<1>5. {list[n] : n \in DOMAIN list} = keys
  BY <1>2, <1>3, <1>4 DEF Holds
<1>6. Len(list) = Cardinality(keys)
  <2>1. IsFiniteSet(1 .. Len(list)) /\ Cardinality(1 .. Len(list)) = Len(list)
    BY <1>4, FS_Interval
  <2>2. list \in Bijection(1 .. Len(list), keys)
    <3>1. list \in [1 .. Len(list) -> keys]
      BY <1>2, <1>4, <1>5
    <3>2. \A a, b \in 1 .. Len(list) : list[a] = list[b] => a = b
      BY <1>2, <1>4 DEF OnceEach
    <3>3. \A k \in keys : \E a \in 1 .. Len(list) : list[a] = k
      BY <1>4, <1>5
    <3> QED
      BY <3>1, <3>2, <3>3 DEF Bijection, Injection, Surjection, IsInjective
  <2>3. ExistsBijection(1 .. Len(list), keys)
    BY <2>2 DEF ExistsBijection
  <2> HIDE DEF keys
  <2> QED
    BY <2>1, <2>3, FS_Bijection
<1> QED
  BY <1>1, <1>5, <1>6

-----------------------------------------------------------------------------
(* The iterator. *)

IterShape ==
  /\ iter \in [at : {"unused", "scan", "number", "get", "valid", "wild", "invalid"},
               slot : Int, no : Int, key : Keys \cup {NoUpdate}, dir : {1, -1},
               seen : SUBSET Keys, again : BOOLEAN, whole : SUBSET Keys, removed : BOOLEAN]
  /\ iter.at \in {"number", "get", "valid", "wild"} => iter.slot \in Slots
  /\ iter.at = "unused" => ~iter.removed
  /\ iter.at = "number" => iter.key \in Keys
  /\ iter.at = "scan" => iter.slot \in IF iter.dir = 1 THEN 0 .. htSize ELSE -1 .. htSize - 1
  /\ iter.at = "get" => iter.no >= 0
  /\ iter.at = "valid" => iter.no >= -1

(* A key in a slot, or in a place of the slot's list, that the iterator    *)
(* has left behind.                                                        *)
Behind(k) == IF iter.dir = 1 THEN SlotOf[k] < iter.slot ELSE SlotOf[k] > iter.slot
Passed(k) ==
  \E n \in DOMAIN entryList[iter.slot] :
    /\ entryList[iter.slot][n] = k
    /\ IF iter.dir = 1 THEN n - 1 < iter.no ELSE n - 1 > iter.no

(* Until an entry leaves the table, the keys seen are those behind, and of *)
(* the keys to be met those behind have been seen.                         *)
IterSeen ==
  /\ ~iter.again /\ iter.at # "wild"
  /\ iter.seen \subseteq Live /\ iter.whole \subseteq Live
  /\ iter.at = "unused" => iter.seen = {} /\ iter.whole = {}
  /\ iter.at = "number" =>
       /\ iter.seen = {} /\ iter.whole = {}
       /\ iter.key \in Live /\ SlotOf[iter.key] = iter.slot
  /\ iter.at = "scan" => \A k \in Keys :
       /\ k \in iter.seen => Behind(k)
       /\ k \in iter.whole /\ Behind(k) => k \in iter.seen
  /\ iter.at = "get" =>
       /\ iter.no < Len(entryList[iter.slot])
       /\ \A k \in Keys :
            /\ k \in iter.seen => Behind(k) \/ Passed(k)
            /\ k \in iter.whole /\ (Behind(k) \/ Passed(k)) => k \in iter.seen
  /\ iter.at = "valid" =>
       /\ iter.no \in 0 .. Len(entryList[iter.slot]) - 1
       /\ entryList[iter.slot][iter.no + 1] = iter.key
       /\ \A k \in Keys :
            /\ k \in iter.seen => Behind(k) \/ Passed(k) \/ k = iter.key
            /\ k \in iter.whole /\ (Behind(k) \/ Passed(k) \/ k = iter.key) => k \in iter.seen
  /\ iter.at = "invalid" => iter.whole \subseteq iter.seen

IterInv == IterShape /\ (~iter.removed => IterSeen)

(* A new iterator has seen nothing.                                        *)
LEMMA IterStarts == IterInit => IterInv
<1> SUFFICES ASSUME IterInit PROVE IterInv
  OBVIOUS
<1>1. /\ iter = KvdbIter
      /\ Live = {}
  BY DEF IterInit, Init, Live
<1>2. IterShape
  BY <1>1 DEF IterShape, KvdbIter
<1>3. IterSeen
  BY <1>1 DEF IterSeen, KvdbIter
<1> QED
  BY <1>2, <1>3 DEF IterInv

(* What an update of the index does to the iterator's record.              *)
LEMMA IterOfIndex ==
  ASSUME IterShape, IndexStep
  PROVE  /\ iter' = [iter EXCEPT !.removed = iter.at # "unused" /\ (iter.removed \/ Lost # {})]
         /\ IterShape'
<1>1. iter' = [iter EXCEPT !.removed = iter.at # "unused" /\ (iter.removed \/ Lost # {})]
  BY DEF IndexStep
<1> QED
  BY <1>1 DEF IterShape

(* A key more in the table, at the end of its list, changes nothing for    *)
(* the iterator.                                                           *)
LEMMA IterOfAppend ==
  ASSUME ListInv, ListInv', IterShape, IterSeen, NEW k0 \in Keys, Appended(k0),
         NEW b, iter' = [iter EXCEPT !.removed = b]
  PROVE  IterSeen'
<1>1. /\ iter'.at = iter.at /\ iter'.slot = iter.slot /\ iter'.no = iter.no
      /\ iter'.key = iter.key /\ iter'.dir = iter.dir /\ iter'.seen = iter.seen
      /\ iter'.again = iter.again /\ iter'.whole = iter.whole
  BY DEF IterShape
<1>2. k0 \notin Live /\ Live' = Live \cup {k0}
  BY DEF Appended
<1>3. \A k \in Keys : Behind(k)' <=> Behind(k)
  BY <1>1 DEF Behind
<1>4. CASE iter.at \in {"unused", "number", "scan", "wild", "invalid"}
  BY <1>1, <1>2, <1>3, <1>4 DEF IterSeen
<1>5. CASE iter.at \in {"get", "valid"}
  <2>1. PICK t \in Slots : t = iter.slot
    BY <1>5 DEF IterShape
  <2>2. PICK list, new : list = entryList[t] /\ new = entryList'[t]
    OBVIOUS
  <2>3. list \in Seq(Keys) /\ OnceEach(list) /\ (Holds(list, k0) <=> k0 \in Live /\ SlotOf[k0] = t)
    BY <2>2 DEF ListInv
  <2>4. /\ Len(list) \in Nat /\ DOMAIN list = 1 .. Len(list) /\ Len(new) >= Len(list)
        /\ DOMAIN list \subseteq DOMAIN new
        /\ \A i \in DOMAIN list : new[i] = list[i]
        /\ \A i \in DOMAIN new \ DOMAIN list : new[i] = k0
    <3>1. CASE t = SlotOf[k0]
      <4>1. new = Append(list, k0)
        BY <2>2, <3>1 DEF Appended
      <4>2. ~Holds(list, k0)
        BY <1>2, <2>3
      <4>3. /\ Len(new) = Len(list) + 1
            /\ \A i \in DOMAIN list : new[i] = list[i]
            /\ new[Len(list) + 1] = k0
            /\ DOMAIN list = 1 .. Len(list) /\ DOMAIN new = 1 .. Len(list) + 1
        BY <2>3, <4>1, <4>2, AfterPut
      <4> QED
        BY <2>3, <4>3
    <3>2. CASE t # SlotOf[k0]
      <4>1. new = list
        BY <2>2, <3>2 DEF Appended
      <4> QED
        BY <2>3, <4>1
    <3> QED
      BY <3>1, <3>2
  <2>5. \A k \in Keys : k # k0 => (Passed(k)' <=> Passed(k))
    <3>1. \A k : Passed(k) <=> \E n \in DOMAIN list : list[n] = k /\ IF iter.dir = 1 THEN n - 1 < iter.no ELSE n - 1 > iter.no
      BY <2>1, <2>2 DEF Passed
    <3>2. \A k : Passed(k)' <=> \E n \in DOMAIN new : new[n] = k /\ IF iter.dir = 1 THEN n - 1 < iter.no ELSE n - 1 > iter.no
      BY <1>1, <2>1, <2>2 DEF Passed
    <3> QED
      BY <2>4, <3>1, <3>2
  <2>6. k0 \notin iter.seen /\ k0 \notin iter.whole
    BY <1>2 DEF IterSeen
  <2>7. iter.no \in Int
    BY DEF IterShape
  <2>8. ~iter'.again /\ iter'.at # "wild" /\ iter'.seen \subseteq Live' /\ iter'.whole \subseteq Live'
    BY <1>1, <1>2 DEF IterSeen
  <2>9. CASE iter.at = "get"
    <3>1. iter.no < Len(new)
      <4>1. iter.no < Len(list)
        BY <2>1, <2>2, <2>9 DEF IterSeen
      <4>2. Len(new) \in Int
        <5>1. new \in Seq(Keys)
          BY <2>2 DEF ListInv
        <5> QED
          BY <5>1
      <4> QED
        BY <2>4, <2>7, <4>1, <4>2
    <3>2. \A k \in Keys :
            /\ k \in iter'.seen => Behind(k)' \/ Passed(k)'
            /\ k \in iter'.whole /\ (Behind(k)' \/ Passed(k)') => k \in iter'.seen
      BY <1>1, <1>3, <2>5, <2>6, <2>9 DEF IterSeen
    <3> QED
      BY <1>1, <2>1, <2>2, <2>8, <2>9, <3>1, <3>2 DEF IterSeen
  <2>10. CASE iter.at = "valid"
    <3>1. iter.no \in 0 .. Len(new) - 1 /\ new[iter.no + 1] = iter.key
      <4>1. iter.no \in 0 .. Len(list) - 1 /\ list[iter.no + 1] = iter.key
        BY <2>1, <2>2, <2>10 DEF IterSeen
      <4>2. Len(new) \in Int
        <5>1. new \in Seq(Keys)
          BY <2>2 DEF ListInv
        <5> QED
          BY <5>1
      <4> QED
        BY <2>4, <2>7, <4>1, <4>2
    <3>2. \A k \in Keys :
            /\ k \in iter'.seen => Behind(k)' \/ Passed(k)' \/ k = iter'.key
            /\ k \in iter'.whole /\ (Behind(k)' \/ Passed(k)' \/ k = iter'.key) => k \in iter'.seen
      BY <1>1, <1>3, <2>5, <2>6, <2>10 DEF IterSeen
    <3> QED
      BY <1>1, <2>1, <2>2, <2>8, <2>10, <3>1, <3>2 DEF IterSeen
  <2> QED
    BY <1>5, <2>9, <2>10
<1> QED
  BY <1>4, <1>5 DEF IterShape

(* Nothing in the table that the iterator reads has changed.               *)
LEMMA IterOfSame ==
  ASSUME IterShape, IterSeen, Live' = Live, entryList' = entryList,
         NEW b, iter' = [iter EXCEPT !.removed = b]
  PROVE  IterSeen'
<1>1. /\ iter'.at = iter.at /\ iter'.slot = iter.slot /\ iter'.no = iter.no
      /\ iter'.key = iter.key /\ iter'.dir = iter.dir /\ iter'.seen = iter.seen
      /\ iter'.again = iter.again /\ iter'.whole = iter.whole
  BY DEF IterShape
<1>2. \A k : Behind(k)' <=> Behind(k)
  BY <1>1 DEF Behind
<1>3. \A k : Passed(k)' <=> Passed(k)
  BY <1>1 DEF Passed
<1> QED
  BY <1>1, <1>2, <1>3 DEF IterSeen

(* The start of a pass at either end.                                      *)
LEMMA IterSeekToEnd ==
  ASSUME ListInv, IterInv, NEW dir \in {1, -1}, SeekToEnd(dir), UNCHANGED <<vars, entryList>>
  PROVE  IterInv'
<1> USE IndexManagerAssumption, SlotAssumption
<1>1. /\ iter.at = "unused"
      /\ iter' = [iter EXCEPT !.at = "scan", !.dir = dir, !.whole = Live,
                              !.slot = IF dir = 1 THEN 0 ELSE htSize - 1]
  BY DEF SeekToEnd
<1>2. IterShape /\ Live \in SUBSET Keys /\ htSize \in Nat \ {0}
  BY DEF IterInv, Live
<1>3. IterShape'
  <2>1. PICK t \in Int : t = IF dir = 1 THEN 0 ELSE htSize - 1
    BY <1>2
  <2>2. iter' = [iter EXCEPT !.at = "scan", !.dir = dir, !.whole = Live, !.slot = t]
    BY <1>1, <2>1
  <2>3. iter'.at = "scan" /\ iter'.dir = dir /\ iter'.slot = t
    BY <1>2, <2>2 DEF IterShape
  <2>4. t \in IF dir = 1 THEN 0 .. htSize ELSE -1 .. htSize - 1
    BY <1>2, <2>1
  <2>5. iter' \in [at : {"unused", "scan", "number", "get", "valid", "wild", "invalid"},
                   slot : Int, no : Int, key : Keys \cup {NoUpdate}, dir : {1, -1},
                   seen : SUBSET Keys, again : BOOLEAN, whole : SUBSET Keys, removed : BOOLEAN]
    BY <1>2, <2>1, <2>2 DEF IterShape
  <2> QED
    BY <2>3, <2>4, <2>5 DEF IterShape
<1>4. Live' = Live
  BY DEF vars, Live
<1>5. ASSUME IterSeen PROVE IterSeen'
  <2>1. iter.seen = {} /\ ~iter.again
    BY <1>1, <1>5 DEF IterSeen
  <2>2. /\ iter'.at = "scan" /\ iter'.seen = {} /\ ~iter'.again /\ iter'.whole = Live
        /\ iter'.dir = dir /\ iter'.slot = IF dir = 1 THEN 0 ELSE htSize - 1
    BY <1>1, <1>2, <2>1 DEF IterShape
  <2>3. \A k \in Keys : ~Behind(k)'
    <3>1. \A k \in Keys : SlotOf[k] \in 0 .. htSize - 1
      OBVIOUS
    <3> QED
      BY <1>2, <2>2, <3>1 DEF Behind
  <2> QED
    BY <1>4, <2>2, <2>3 DEF IterSeen
<1>6. iter'.removed = iter.removed
  BY <1>1, <1>2 DEF IterShape
<1> QED
  BY <1>3, <1>5, <1>6 DEF IterInv

(* The start at a key.                                                     *)
LEMMA IterSeek ==
  ASSUME ListInv, IterInv, NEW k \in Keys, NEW dir \in {1, -1}, Seek(k, dir),
         UNCHANGED <<vars, entryList>>
  PROVE  IterInv'
<1>1. /\ iter.at = "unused"
      /\ iter' = IF k \in Live
                 THEN [iter EXCEPT !.at = "number", !.dir = dir, !.slot = SlotOf[k], !.key = k]
                 ELSE [iter EXCEPT !.at = "invalid"]
  BY DEF Seek
<1>2. IterShape /\ SlotOf[k] \in Slots /\ SlotOf[k] \in Int
  BY SlotAssumption, IndexManagerAssumption DEF IterInv, Slots
<1>3. IterShape'
  <2>1. CASE k \in Live
    BY <1>1, <1>2, <2>1 DEF IterShape
  <2>2. CASE k \notin Live
    BY <1>1, <1>2, <2>2 DEF IterShape
  <2> QED
    BY <2>1, <2>2
<1>4. Live' = Live
  BY DEF vars, Live
<1>5. ASSUME IterSeen PROVE IterSeen'
  <2>1. iter.seen = {} /\ ~iter.again /\ iter.whole = {}
    BY <1>1, <1>5 DEF IterSeen
  <2>2. CASE k \in Live
    <3>1. /\ iter'.at = "number" /\ iter'.seen = {} /\ ~iter'.again /\ iter'.whole = {}
          /\ iter'.key = k /\ iter'.slot = SlotOf[k]
      BY <1>1, <1>2, <2>1, <2>2 DEF IterShape
    <3> QED
      BY <1>4, <2>2, <3>1 DEF IterSeen
  <2>3. CASE k \notin Live
    <3>1. iter'.at = "invalid" /\ iter'.seen = {} /\ ~iter'.again /\ iter'.whole = {}
      BY <1>1, <1>2, <2>1, <2>3 DEF IterShape
    <3> QED
      BY <1>4, <3>1 DEF IterSeen
  <2> QED
    BY <2>2, <2>3
<1>6. iter'.removed = iter.removed
  BY <1>1, <1>2 DEF IterShape
<1> QED
  BY <1>3, <1>5, <1>6 DEF IterInv

(* The number of a key that is still in its list.                          *)
LEMMA IterSeekNumber ==
  ASSUME ListInv, IterInv, SeekNumber, UNCHANGED <<vars, entryList>>
  PROVE  IterInv'
<1>1. PICK list, found :
        /\ list = entryList[iter.slot]
        /\ found = {n \in DOMAIN list : list[n] = iter.key}
  OBVIOUS
<1>2. PICK p : p = IF found = {} THEN -1 ELSE (CHOOSE n \in found : TRUE) - 1
  OBVIOUS
<1>3. /\ iter.at = "number"
      /\ iter' = [iter EXCEPT !.at = "valid", !.seen = {iter.key}, !.no = p]
  BY Zenon, <1>1, <1>2 DEF SeekNumber
<1>4. IterShape /\ iter.slot \in Slots
  BY <1>3 DEF IterInv, IterShape
<1>5. list \in Seq(Keys) /\ DOMAIN list = 1 .. Len(list) /\ Len(list) \in Nat
  BY <1>1, <1>4 DEF ListInv
<1>6. p \in Int /\ p >= -1 /\ (found # {} => p + 1 \in found)
  <2>1. CASE found = {}
    BY <1>2, <2>1
  <2>2. CASE found # {}
    <3>1. PICK n \in found : n = CHOOSE m \in found : TRUE
      BY <2>2
    <3>2. n \in 1 .. Len(list)
      BY <1>1, <1>5
    <3>3. p = n - 1
      BY <1>2, <2>2, <3>1
    <3> QED
      BY <1>5, <3>2, <3>3
  <2> QED
    BY <2>1, <2>2
<1>7. iter.key \in Keys
  BY <1>3, <1>4 DEF IterShape
<1>8. IterShape'
  BY <1>3, <1>4, <1>6, <1>7 DEF IterShape
<1>9. Live' = Live /\ entryList' = entryList
  BY DEF vars, Live
<1>10. ASSUME IterSeen PROVE IterSeen'
  <2>1. /\ iter.seen = {} /\ ~iter.again /\ iter.whole = {}
        /\ iter.key \in Live /\ SlotOf[iter.key] = iter.slot
    BY <1>3, <1>10 DEF IterSeen
  <2>2. /\ iter'.at = "valid" /\ iter'.seen = {iter.key} /\ ~iter'.again /\ iter'.whole = {}
        /\ iter'.key = iter.key /\ iter'.slot = iter.slot /\ iter'.no = p
    BY <1>3, <1>4, <2>1 DEF IterShape
  <2>3. Holds(list, iter.key)
    BY <1>1, <1>4, <1>7, <2>1 DEF ListInv
  <2>4. found # {}
    BY <1>1, <2>3 DEF Holds
  <2>5. p + 1 \in DOMAIN list /\ list[p + 1] = iter.key
    BY <1>1, <1>6, <2>4
  <2>6. p \in 0 .. Len(list) - 1
    BY <1>5, <1>6, <2>5
  <2> QED
    BY <1>1, <1>9, <2>1, <2>2, <2>5, <2>6 DEF IterSeen
<1>11. iter'.removed = iter.removed
  BY <1>3, <1>4 DEF IterShape
<1> QED
  BY <1>8, <1>10, <1>11 DEF IterInv

(* A turn of the loop over the slots.                                      *)
LEMMA IterScanSlot ==
  ASSUME ListInv, IterInv, ScanSlot, UNCHANGED <<vars, entryList>>
  PROVE  IterInv'
<1>0. /\ IterShape /\ htSize \in Nat \ {0} /\ SlotOf \in [Keys -> Slots]
      /\ Slots = 0 .. htSize - 1
  BY IndexManagerAssumption, SlotAssumption DEF IterInv, Slots
<1>1. Live' = Live /\ entryList' = entryList /\ Live \subseteq Keys
  BY DEF vars, Live
<1>2. /\ iter.at = "scan" /\ iter.slot \in Int /\ iter.dir \in {1, -1}
      /\ iter.slot \in IF iter.dir = 1 THEN 0 .. htSize ELSE -1 .. htSize - 1
  BY <1>0 DEF ScanSlot, IterShape
<1>3. ASSUME IterSeen
      PROVE  /\ ~iter.again /\ iter.seen \subseteq Live /\ iter.whole \subseteq Live
             /\ \A k \in Keys : /\ k \in iter.seen => Behind(k)
                                /\ k \in iter.whole /\ Behind(k) => k \in iter.seen
  BY <1>2, <1>3 DEF IterSeen
<1>4. CASE iter.slot \notin Slots
  <2>1. iter' = [iter EXCEPT !.at = "invalid"]
    BY <1>4 DEF ScanSlot
  <2>2. IterShape'
    BY <1>0, <2>1 DEF IterShape
  <2>3. /\ iter'.at = "invalid" /\ iter'.seen = iter.seen /\ iter'.again = iter.again
        /\ iter'.whole = iter.whole /\ iter'.removed = iter.removed
    BY <1>0, <2>1 DEF IterShape
  <2>4. \A k \in Keys : Behind(k)
    BY <1>0, <1>2, <1>4 DEF Behind
  <2>5. ASSUME IterSeen PROVE IterSeen'
    BY <1>1, <1>3, <2>3, <2>4, <2>5 DEF IterSeen
  <2> QED
    BY <2>2, <2>3, <2>5 DEF IterInv
<1>5. CASE iter.slot \in Slots /\ Len(entryList[iter.slot]) = 0
  <2>1. iter' = [iter EXCEPT !.slot = iter.slot + iter.dir]
    BY <1>5 DEF ScanSlot
  <2>2. IterShape'
    <3>1. iter'.at = "scan" /\ iter'.dir = iter.dir /\ iter'.slot = iter.slot + iter.dir
      BY <1>0, <1>2, <2>1 DEF IterShape
    <3>2. iter.slot + iter.dir \in IF iter.dir = 1 THEN 0 .. htSize ELSE -1 .. htSize - 1
      BY <1>0, <1>2, <1>5
    <3>3. iter' \in [at : {"unused", "scan", "number", "get", "valid", "wild", "invalid"},
                     slot : Int, no : Int, key : Keys \cup {NoUpdate}, dir : {1, -1},
                     seen : SUBSET Keys, again : BOOLEAN, whole : SUBSET Keys, removed : BOOLEAN]
      BY <1>0, <1>2, <2>1 DEF IterShape
    <3> QED
      BY <3>1, <3>2, <3>3 DEF IterShape
  <2>3. /\ iter'.at = "scan" /\ iter'.seen = iter.seen /\ iter'.again = iter.again
        /\ iter'.whole = iter.whole /\ iter'.removed = iter.removed
        /\ iter'.dir = iter.dir /\ iter'.slot = iter.slot + iter.dir
    BY <1>0, <1>2, <2>1 DEF IterShape
  <2>4. \A k \in Keys : Behind(k)' <=> Behind(k) \/ SlotOf[k] = iter.slot
    <3>1. \A k \in Keys : SlotOf[k] \in Int
      BY <1>0
    <3> QED
      BY <1>2, <2>3, <3>1 DEF Behind
  <2>5. \A k \in Live : SlotOf[k] # iter.slot
    <3>1. entryList[iter.slot] \in Seq(Keys) /\ DOMAIN entryList[iter.slot] = {}
      BY <1>5 DEF ListInv
    <3>2. \A k \in Keys : ~Holds(entryList[iter.slot], k)
      BY <3>1 DEF Holds
    <3> QED
      BY <1>1, <1>5, <3>2 DEF ListInv
  <2>6. ASSUME IterSeen PROVE IterSeen'
    <3>1. \A k \in Keys : /\ k \in iter'.seen => Behind(k)'
                          /\ k \in iter'.whole /\ Behind(k)' => k \in iter'.seen
      BY <1>3, <2>3, <2>4, <2>5, <2>6
    <3> QED
      BY <1>1, <1>3, <2>3, <2>6, <3>1 DEF IterSeen
  <2> QED
    BY <2>2, <2>3, <2>6 DEF IterInv
<1>6. CASE iter.slot \in Slots /\ Len(entryList[iter.slot]) # 0
  <2>1. PICK list : list = entryList[iter.slot]
    OBVIOUS
  <2>2. list \in Seq(Keys) /\ Len(list) \in Nat /\ DOMAIN list = 1 .. Len(list) /\ Len(list) # 0
    BY <1>6, <2>1 DEF ListInv
  <2>3. PICK p \in Int : p = IF iter.dir = 1 THEN 0 ELSE Len(list) - 1
    <3>1. (IF iter.dir = 1 THEN 0 ELSE Len(list) - 1) \in Int
      BY <2>2
    <3> QED
      BY <3>1
  <2>4. iter' = [iter EXCEPT !.at = "get", !.no = p]
    BY <1>6, <2>1, <2>3 DEF ScanSlot
  <2>5. p \in 0 .. Len(list) - 1
    <3>1. CASE iter.dir = 1
      BY <2>2, <2>3, <3>1
    <3>2. CASE iter.dir # 1
      BY <2>2, <2>3, <3>2
    <3> QED
      BY <3>1, <3>2
  <2>6. IterShape'
    <3>1. p \in Int /\ p >= 0
      BY <2>2, <2>5
    <3> QED
      BY <1>0, <1>6, <2>4, <3>1 DEF IterShape
  <2>7. /\ iter'.at = "get" /\ iter'.seen = iter.seen /\ iter'.again = iter.again
        /\ iter'.whole = iter.whole /\ iter'.removed = iter.removed
        /\ iter'.dir = iter.dir /\ iter'.slot = iter.slot /\ iter'.no = p
    BY <1>0, <2>4 DEF IterShape
  <2>8. \A k \in Keys : Behind(k)' <=> Behind(k)
    BY <2>7 DEF Behind
  <2>9. \A k \in Keys : ~Passed(k)'
    BY <1>1, <1>2, <2>1, <2>2, <2>3, <2>7 DEF Passed
  <2>10. ASSUME IterSeen PROVE IterSeen'
    <3>1. \A k \in Keys :
            /\ k \in iter'.seen => Behind(k)' \/ Passed(k)'
            /\ k \in iter'.whole /\ (Behind(k)' \/ Passed(k)') => k \in iter'.seen
      BY <1>3, <2>7, <2>8, <2>9, <2>10
    <3>2. p < Len(list)
      BY <2>2, <2>5
    <3> QED
      BY <1>1, <1>3, <2>1, <2>7, <2>10, <3>1, <3>2 DEF IterSeen
  <2> QED
    BY <2>6, <2>7, <2>10 DEF IterInv
<1> QED
  BY <1>4, <1>5, <1>6

(* getByNo: without removals there is an entry with the number.            *)
LEMMA IterGetByNo ==
  ASSUME ListInv, IterInv, GetByNo, UNCHANGED <<vars, entryList>>
  PROVE  IterInv'
<1>0. IterShape
  BY DEF IterInv
<1>1. Live' = Live /\ entryList' = entryList /\ Live \subseteq Keys
  BY DEF vars, Live
<1>2. /\ iter.at = "get" /\ iter.slot \in Slots /\ iter.no \in Int /\ iter.no >= 0
      /\ iter.dir \in {1, -1}
  BY <1>0 DEF GetByNo, IterShape
<1>3. PICK list : list = entryList[iter.slot]
  OBVIOUS
<1>4. /\ list \in Seq(Keys) /\ Len(list) \in Nat /\ DOMAIN list = 1 .. Len(list)
      /\ OnceEach(list)
      /\ \A k \in Keys : Holds(list, k) <=> k \in Live /\ SlotOf[k] = iter.slot
  <2>1. list \in Seq(Keys)
    BY <1>2, <1>3 DEF ListInv
  <2> QED
    BY <1>2, <1>3, <2>1 DEF ListInv
<1>5. ASSUME IterSeen
      PROVE  /\ ~iter.again /\ iter.seen \subseteq Live /\ iter.whole \subseteq Live
             /\ iter.no < Len(list)
             /\ \A k \in Keys :
                  /\ k \in iter.seen => Behind(k) \/ Passed(k)
                  /\ k \in iter.whole /\ (Behind(k) \/ Passed(k)) => k \in iter.seen
  BY <1>2, <1>3, <1>5 DEF IterSeen
<1>6. CASE iter.no > Len(list)
  <2>1. iter' = [iter EXCEPT !.at = "invalid"]
    BY <1>3, <1>6 DEF GetByNo
  <2>2. iter'.removed = iter.removed
    BY <1>0, <2>1 DEF IterShape
  <2>3. ~IterSeen
    BY <1>2, <1>4, <1>5, <1>6
  <2>4. IterShape'
    BY <1>0, <2>1 DEF IterShape
  <2> QED
    BY <2>2, <2>3, <2>4 DEF IterInv
<1>7. CASE iter.no = Len(list)
  <2>1. iter' = [iter EXCEPT !.at = "wild"]
    BY <1>2, <1>3, <1>4, <1>7 DEF GetByNo
  <2>2. iter'.removed = iter.removed
    BY <1>0, <2>1 DEF IterShape
  <2>3. ~IterSeen
    BY <1>2, <1>4, <1>5, <1>7
  <2>4. IterShape'
    BY <1>0, <1>2, <2>1 DEF IterShape
  <2> QED
    BY <2>2, <2>3, <2>4 DEF IterInv
<1>8. CASE iter.no < Len(list)
  <2>1. iter.no + 1 \in DOMAIN list
    BY <1>2, <1>4, <1>8
  <2>2. PICK k \in Keys : k = list[iter.no + 1]
    BY <1>4, <2>1
  <2>3. iter' = [iter EXCEPT !.at = "valid", !.key = k, !.seen = iter.seen \cup {k},
                             !.again = iter.again \/ k \in iter.seen]
    <3>1. ~(iter.no > Len(list)) /\ iter.no # Len(list)
      BY <1>2, <1>4, <1>8
    <3> QED
      BY Zenon, <1>3, <2>2, <3>1 DEF GetByNo
  <2>4. (iter.again \/ k \in iter.seen) \in BOOLEAN /\ iter.seen \cup {k} \in SUBSET Keys
    BY <1>0, <2>2 DEF IterShape
  <2>5. /\ iter'.at = "valid" /\ iter'.key = k /\ iter'.seen = iter.seen \cup {k}
        /\ (iter'.again <=> iter.again \/ k \in iter.seen)
        /\ iter'.whole = iter.whole /\ iter'.removed = iter.removed
        /\ iter'.dir = iter.dir /\ iter'.slot = iter.slot /\ iter'.no = iter.no
    BY <1>0, <2>3 DEF IterShape
  <2>6. IterShape'
    <3>1. iter' \in [at : {"unused", "scan", "number", "get", "valid", "wild", "invalid"},
                     slot : Int, no : Int, key : Keys \cup {NoUpdate}, dir : {1, -1},
                     seen : SUBSET Keys, again : BOOLEAN, whole : SUBSET Keys, removed : BOOLEAN]
      BY <1>0, <2>3, <2>4 DEF IterShape
    <3> QED
      BY <1>2, <2>5, <3>1 DEF IterShape
  <2>7. \A j \in Keys : (Behind(j)' <=> Behind(j)) /\ (Passed(j)' <=> Passed(j))
    <3>1. \A j : Behind(j)' <=> Behind(j)
      BY <2>5 DEF Behind
    <3>2. \A j : Passed(j)' <=> Passed(j)
      BY <1>1, <2>5 DEF Passed
    <3> QED
      BY <3>1, <3>2
  <2>8. k \in Live /\ SlotOf[k] = iter.slot
    BY <1>4, <2>1, <2>2 DEF Holds
  <2>9. ~Behind(k)
    <3>1. SlotOf[k] \in Int
      BY <1>2, <2>8 DEF Slots
    <3> QED
      BY <2>8, <3>1 DEF Behind
  <2>10. ~Passed(k)
    <3>1. \A n \in DOMAIN list : list[n] = k => n = iter.no + 1
      BY <1>4, <2>1, <2>2 DEF OnceEach
    <3> QED
      BY <1>2, <1>3, <3>1 DEF Passed
  <2>11. ASSUME IterSeen PROVE IterSeen'
    <3>1. k \notin iter.seen
      BY <1>5, <2>9, <2>10, <2>11
    <3>2. /\ ~iter'.again /\ iter'.at # "wild"
          /\ iter'.seen \subseteq Live' /\ iter'.whole \subseteq Live'
      BY <1>1, <1>5, <2>5, <2>8, <2>11, <3>1
    <3>3. \A j \in Keys :
            /\ j \in iter'.seen => Behind(j)' \/ Passed(j)' \/ j = iter'.key
            /\ j \in iter'.whole /\ (Behind(j)' \/ Passed(j)' \/ j = iter'.key) => j \in iter'.seen
      BY <1>5, <2>5, <2>7, <2>11
    <3>4. iter'.no \in 0 .. Len(list) - 1 /\ list[iter'.no + 1] = iter'.key
      BY <1>2, <1>4, <1>8, <2>2, <2>5
    <3> QED
      BY <1>1, <1>3, <2>5, <3>2, <3>3, <3>4 DEF IterSeen
  <2> QED
    BY <2>5, <2>6, <2>11 DEF IterInv
<1> QED
  BY <1>2, <1>4, <1>6, <1>7, <1>8

(* Next and Prev leave one entry of the list, or the list, behind.         *)
LEMMA IterAdvance ==
  ASSUME ListInv, IterInv, Advance, UNCHANGED <<vars, entryList>>
  PROVE  IterInv'
<1>0. /\ IterShape /\ htSize \in Nat \ {0} /\ SlotOf \in [Keys -> Slots]
      /\ Slots = 0 .. htSize - 1
  BY IndexManagerAssumption, SlotAssumption DEF IterInv, Slots
<1>1. Live' = Live /\ entryList' = entryList /\ Live \subseteq Keys
  BY DEF vars, Live
<1>2. /\ iter.at = "valid" /\ iter.slot \in Slots /\ iter.slot \in Int /\ iter.no \in Int
      /\ iter.no >= -1 /\ iter.dir \in {1, -1}
  BY <1>0 DEF Advance, IterShape
<1>3. PICK list : list = entryList[iter.slot]
  OBVIOUS
<1>4. /\ list \in Seq(Keys) /\ Len(list) \in Nat /\ DOMAIN list = 1 .. Len(list)
      /\ OnceEach(list)
      /\ \A k \in Keys : Holds(list, k) <=> k \in Live /\ SlotOf[k] = iter.slot
  <2>1. list \in Seq(Keys)
    BY <1>2, <1>3 DEF ListInv
  <2> QED
    BY <1>2, <1>3, <2>1 DEF ListInv
<1>5. ASSUME IterSeen
      PROVE  /\ ~iter.again /\ iter.seen \subseteq Live /\ iter.whole \subseteq Live
             /\ iter.no \in 0 .. Len(list) - 1 /\ list[iter.no + 1] = iter.key
             /\ \A k \in Keys :
                  /\ k \in iter.seen => Behind(k) \/ Passed(k) \/ k = iter.key
                  /\ k \in iter.whole /\ (Behind(k) \/ Passed(k) \/ k = iter.key) => k \in iter.seen
  BY <1>2, <1>3, <1>5 DEF IterSeen
<1>6. CASE MoreInSlot(Len(list))
  <2>1. iter' = [iter EXCEPT !.at = "get", !.no = iter.no + iter.dir]
    BY <1>3, <1>6 DEF Advance
  <2>2. iter.no + iter.dir \in Int /\ iter.no + iter.dir >= 0
    BY <1>2, <1>6 DEF MoreInSlot
  <2>3. /\ iter'.at = "get" /\ iter'.key = iter.key /\ iter'.seen = iter.seen
        /\ iter'.again = iter.again /\ iter'.whole = iter.whole /\ iter'.removed = iter.removed
        /\ iter'.dir = iter.dir /\ iter'.slot = iter.slot /\ iter'.no = iter.no + iter.dir
    BY <1>0, <1>2, <2>1 DEF IterShape
  <2>4. IterShape'
    <3>1. iter' \in [at : {"unused", "scan", "number", "get", "valid", "wild", "invalid"},
                     slot : Int, no : Int, key : Keys \cup {NoUpdate}, dir : {1, -1},
                     seen : SUBSET Keys, again : BOOLEAN, whole : SUBSET Keys, removed : BOOLEAN]
      BY <1>0, <2>1, <2>2 DEF IterShape
    <3> QED
      BY <1>2, <2>2, <2>3, <3>1 DEF IterShape
  <2>5. ASSUME IterSeen PROVE IterSeen'
    <3>0. /\ ~iter.again /\ iter.seen \subseteq Live /\ iter.whole \subseteq Live
          /\ iter.no \in 0 .. Len(list) - 1 /\ list[iter.no + 1] = iter.key
          /\ \A k \in Keys :
               /\ k \in iter.seen => Behind(k) \/ Passed(k) \/ k = iter.key
               /\ k \in iter.whole /\ (Behind(k) \/ Passed(k) \/ k = iter.key) => k \in iter.seen
      BY <1>5, <2>5
    <3>1. iter.no + iter.dir < Len(list)
      BY <1>2, <1>4, <1>6, <3>0 DEF MoreInSlot
    <3>2. \A k \in Keys : Behind(k)' <=> Behind(k)
      BY <2>3 DEF Behind
    <3>3. \A k \in Keys : Passed(k)' <=> Passed(k) \/ k = iter.key
      <4>1. \A k : Passed(k) <=> \E n \in DOMAIN list : list[n] = k /\ IF iter.dir = 1 THEN n - 1 < iter.no ELSE n - 1 > iter.no
        BY <1>3 DEF Passed
      <4>2. \A k : Passed(k)' <=> \E n \in DOMAIN list : list[n] = k /\ IF iter.dir = 1 THEN n - 1 < iter.no + iter.dir ELSE n - 1 > iter.no + iter.dir
        BY <1>1, <1>3, <2>3 DEF Passed
      <4>3. iter.no + 1 \in DOMAIN list
        BY <1>4, <3>0
      <4>4. \A n \in DOMAIN list :
              (IF iter.dir = 1 THEN n - 1 < iter.no + iter.dir ELSE n - 1 > iter.no + iter.dir)
              <=> (IF iter.dir = 1 THEN n - 1 < iter.no ELSE n - 1 > iter.no) \/ n = iter.no + 1
        BY <1>2, <1>4
      <4>5. \A k \in Keys : Passed(k)' => Passed(k) \/ k = iter.key
        BY <3>0, <4>1, <4>2, <4>4
      <4>6. \A k \in Keys : Passed(k) \/ k = iter.key => Passed(k)'
        BY <3>0, <4>1, <4>2, <4>3, <4>4
      <4> QED
        BY <4>5, <4>6
    <3>4. \A k \in Keys :
            /\ k \in iter'.seen => Behind(k)' \/ Passed(k)'
            /\ k \in iter'.whole /\ (Behind(k)' \/ Passed(k)') => k \in iter'.seen
      BY <2>3, <3>0, <3>2, <3>3
    <3> QED
      BY <1>1, <1>3, <2>3, <3>0, <3>1, <3>4 DEF IterSeen
  <2> QED
    BY <2>3, <2>4, <2>5 DEF IterInv
<1>7. CASE ~MoreInSlot(Len(list))
  <2>1. iter' = [iter EXCEPT !.at = "scan", !.slot = iter.slot + iter.dir]
    BY <1>3, <1>7 DEF Advance
  <2>2. iter.slot + iter.dir \in IF iter.dir = 1 THEN 0 .. htSize ELSE -1 .. htSize - 1
    BY <1>0, <1>2
  <2>3. /\ iter'.at = "scan" /\ iter'.key = iter.key /\ iter'.seen = iter.seen
        /\ iter'.again = iter.again /\ iter'.whole = iter.whole /\ iter'.removed = iter.removed
        /\ iter'.dir = iter.dir /\ iter'.slot = iter.slot + iter.dir /\ iter'.no = iter.no
    BY <1>0, <1>2, <2>1 DEF IterShape
  <2>4. IterShape'
    <3>1. iter' \in [at : {"unused", "scan", "number", "get", "valid", "wild", "invalid"},
                     slot : Int, no : Int, key : Keys \cup {NoUpdate}, dir : {1, -1},
                     seen : SUBSET Keys, again : BOOLEAN, whole : SUBSET Keys, removed : BOOLEAN]
      <4>1. PICK t \in Int : t = iter.slot + iter.dir
        BY <1>2
      <4>2. iter' = [iter EXCEPT !.at = "scan", !.slot = t]
        BY <2>1, <4>1
      <4> QED
        BY <1>0, <4>2 DEF IterShape
    <3> QED
      BY <2>2, <2>3, <3>1 DEF IterShape
  <2>5. ASSUME IterSeen PROVE IterSeen'
    <3>0. /\ ~iter.again /\ iter.seen \subseteq Live /\ iter.whole \subseteq Live
          /\ iter.no \in 0 .. Len(list) - 1 /\ list[iter.no + 1] = iter.key
          /\ \A k \in Keys :
               /\ k \in iter.seen => Behind(k) \/ Passed(k) \/ k = iter.key
               /\ k \in iter.whole /\ (Behind(k) \/ Passed(k) \/ k = iter.key) => k \in iter.seen
      BY <1>5, <2>5
    <3>1. \A k \in Keys : Behind(k)' <=> Behind(k) \/ SlotOf[k] = iter.slot
      <4>1. \A k \in Keys : SlotOf[k] \in Int
        BY <1>0
      <4> QED
        BY <1>2, <2>3, <4>1 DEF Behind
    <3>2. \A n \in DOMAIN list :
            (IF iter.dir = 1 THEN n - 1 < iter.no ELSE n - 1 > iter.no) \/ n = iter.no + 1
      BY <1>2, <1>4, <1>7, <3>0 DEF MoreInSlot
    <3>3. \A k \in Keys : Passed(k) \/ k = iter.key => SlotOf[k] = iter.slot
      <4>1. \A k \in Keys : Passed(k) => Holds(list, k)
        BY <1>3 DEF Passed, Holds
      <4>2. Holds(list, iter.key)
        BY <1>4, <3>0 DEF Holds
      <4> QED
        BY <1>4, <4>1, <4>2
    <3>4. \A k \in Live : SlotOf[k] = iter.slot => Passed(k) \/ k = iter.key
      <4>1. \A k \in Live : SlotOf[k] = iter.slot => \E n \in DOMAIN list : list[n] = k
        BY <1>1, <1>4 DEF Holds
      <4>2. \A k : (\E n \in DOMAIN list : list[n] = k /\ IF iter.dir = 1 THEN n - 1 < iter.no ELSE n - 1 > iter.no)
                   => Passed(k)
        BY <1>3 DEF Passed
      <4> QED
        BY <3>0, <3>2, <4>1, <4>2
    <3>5. \A k \in Keys :
            /\ k \in iter'.seen => Behind(k)'
            /\ k \in iter'.whole /\ Behind(k)' => k \in iter'.seen
      BY <2>3, <3>0, <3>1, <3>3, <3>4
    <3> QED
      BY <1>1, <2>3, <3>0, <3>5 DEF IterSeen
  <2> QED
    BY <2>3, <2>4, <2>5 DEF IterInv
<1> QED
  BY <1>6, <1>7

(* The table and its iterator together. *)
TableInv == IndexInv /\ ListInv /\ IterInv

(* A step of the index under an iterator that stands anywhere.             *)
LEMMA IterUnderIndex ==
  ASSUME TableInv, IndexStep
  PROVE  TableInv'
<1>1. IndexInv /\ ListInv /\ IterShape /\ CountInv /\ OwnInv
  BY DEF TableInv, IndexInv, IterInv
<1>2. IndexInv'
  BY <1>1, IndexGoesOn DEF IndexStep
<1>3. ListEffect
  BY <1>1, ListChange
<1>4. ListInv'
  BY <1>1, <1>3, ListsGoOn
<1>5. /\ iter' = [iter EXCEPT !.removed = iter.at # "unused" /\ (iter.removed \/ Lost # {})]
      /\ IterShape'
  BY <1>1, IterOfIndex
<1>6. PICK b \in BOOLEAN : b = (iter.at # "unused" /\ (iter.removed \/ Lost # {}))
  OBVIOUS
<1>7. /\ iter' = [iter EXCEPT !.removed = b]
      /\ iter'.removed = b /\ iter'.at = iter.at
      /\ iter'.seen = iter.seen /\ iter'.whole = iter.whole /\ iter'.again = iter.again
  BY <1>1, <1>5, <1>6 DEF IterShape
<1>8. ASSUME IterSeen, ListsSame PROVE IterSeen'
  BY <1>1, <1>7, <1>8, IterOfSame DEF ListsSame
<1>9. ASSUME IterSeen, NEW k \in Keys, Appended(k) PROVE IterSeen'
  BY <1>1, <1>4, <1>7, <1>9, IterOfAppend
<1>10. ASSUME NEW k \in Keys, Unlinked(k), IterSeen, iter.at = "unused" PROVE IterSeen'
  <2>1. iter.seen = {} /\ iter.whole = {} /\ ~iter.again
    BY <1>10 DEF IterSeen
  <2> QED
    BY <1>7, <1>10, <2>1 DEF IterSeen
<1>11. ASSUME ~b PROVE IterSeen'
  <2>1. IterSeen
    BY <1>1, <1>6, <1>11 DEF TableInv, IterInv, IterShape
  <2>2. ASSUME NEW k \in Keys, Unlinked(k) PROVE iter.at = "unused"
    BY <1>6, <1>11, <2>2 DEF Unlinked
  <2> QED
    BY <1>3, <1>8, <1>9, <1>10, <2>1, <2>2 DEF ListEffect
<1> QED
  BY <1>2, <1>4, <1>5, <1>7, <1>11 DEF TableInv, IterInv

(* The invariant is kept by every step of the index and of the iterator.   *)
LEMMA TableGoesOn == TableInv /\ [IterNext]_iterVars => TableInv'
<1> SUFFICES ASSUME TableInv, [IterNext]_iterVars PROVE TableInv'
  OBVIOUS
<1>1. ASSUME UNCHANGED <<vars, entryList>> PROVE IndexInv' /\ ListInv'
  <2>1. IndexInv'
    BY <1>1, IndexGoesOn DEF TableInv
  <2>2. Live' = Live /\ entryList' = entryList
    BY <1>1 DEF vars, Live
  <2> QED
    BY <2>1, <2>2 DEF TableInv, ListInv
<1>2. CASE IndexStep
  BY <1>2, IterUnderIndex
<1>3. CASE IterStep /\ UNCHANGED <<vars, entryList>>
  <2>1. ListInv /\ IterInv /\ UNCHANGED <<vars, entryList>>
    BY <1>3 DEF TableInv
  <2>2. ASSUME NEW dir \in {1, -1}, SeekToEnd(dir) PROVE IterInv'
    BY <2>1, <2>2, IterSeekToEnd
  <2>3. ASSUME NEW dir \in {1, -1}, NEW k \in Keys, Seek(k, dir) PROVE IterInv'
    BY <2>1, <2>3, IterSeek
  <2>4. ASSUME SeekNumber PROVE IterInv'
    BY <2>1, <2>4, IterSeekNumber
  <2>5. ASSUME ScanSlot PROVE IterInv'
    BY <2>1, <2>5, IterScanSlot
  <2>6. ASSUME GetByNo PROVE IterInv'
    BY <2>1, <2>6, IterGetByNo
  <2>7. ASSUME Advance PROVE IterInv'
    BY <2>1, <2>7, IterAdvance
  <2>8. IterInv'
    BY <1>3, <2>2, <2>3, <2>4, <2>5, <2>6, <2>7 DEF IterStep
  <2> QED
    BY <1>1, <1>3, <2>8 DEF TableInv
<1>4. CASE UNCHANGED iterVars
  <2>1. UNCHANGED <<vars, entryList>> /\ iter' = iter /\ Live' = Live /\ entryList' = entryList
    BY <1>4 DEF iterVars, vars, Live
  <2>2. IterShape'
    BY <2>1 DEF TableInv, IterInv, IterShape
  <2>3. \A k : (Behind(k)' <=> Behind(k)) /\ (Passed(k)' <=> Passed(k))
    BY <2>1 DEF Behind, Passed
  <2>4. IterSeen => IterSeen'
    BY <2>1, <2>3 DEF IterSeen
  <2> QED
    BY <1>1, <2>1, <2>2, <2>4 DEF TableInv, IterInv
<1> QED
  BY <1>2, <1>3, <1>4 DEF IterNext

(* The table and the iterator start in the invariant.                      *)
LEMMA TableStarts == IterInit => TableInv
<1> SUFFICES ASSUME IterInit PROVE TableInv
  OBVIOUS
<1>1. Init
  BY DEF IterInit
<1>2. IndexInv
  BY <1>1, IndexStarts
<1> QED
  BY <1>2, ListsStart, IterStarts DEF TableInv

(* What the invariant says of a pass.                                      *)
LEMMA PassFollows == TableInv => EveryKeyOnce
<1> SUFFICES ASSUME TableInv, ~iter.removed
             PROVE  /\ ~iter.again
                    /\ iter.at # "wild"
                    /\ iter.at = "valid" => \E n \in DOMAIN entryList[iter.slot] :
                                               entryList[iter.slot][n] = iter.key
                    /\ iter.at = "invalid" => iter.whole \subseteq iter.seen
  BY DEF EveryKeyOnce
<1>1. ListInv /\ IterShape /\ IterSeen
  BY DEF TableInv, IterInv
<1>2. CASE iter.at = "valid"
  <2>1. PICK list : list = entryList[iter.slot]
    OBVIOUS
  <2>2. list \in Seq(Keys)
    BY <1>1, <1>2, <2>1 DEF ListInv, IterShape
  <2>3. iter.no \in 0 .. Len(list) - 1 /\ list[iter.no + 1] = iter.key
    BY <1>1, <1>2, <2>1 DEF IterSeen
  <2>4. iter.no + 1 \in DOMAIN list
    BY <2>2, <2>3
  <2> QED
    BY <1>1, <1>2, <2>1, <2>3, <2>4 DEF IterSeen
<1>3. CASE iter.at # "valid"
  BY <1>1, <1>3 DEF IterSeen
<1> QED
  BY <1>2, <1>3

(* The list of a slot holds exactly the keys with an entry there, each once, *)
(* types are kept and dead space is exact, while updates and an iterator     *)
(* run.                                                                      *)
THEOREM TableConsistent == IterSpec => []Consistent
<1>1. TableInv => Consistent
  BY IndexTypes, DeathFollows, ListsFollow DEF TableInv, Consistent
<1> QED BY <1>1, TableStarts, TableGoesOn, PTL DEF IterSpec

(* A pass that no removal disturbs never comes to a key twice and stands     *)
(* only on entries of the table, on no wild pointer; begun at either end, it *)
(* meets every key that was in the table then.  So it is however many keys   *)
(* are put meanwhile, and for every number of slots.                         *)
THEOREM PassesComplete == IterSpec => []EveryKeyOnce
<1> QED BY TableStarts, TableGoesOn, PassFollows, PTL DEF IterSpec
=============================================================================
