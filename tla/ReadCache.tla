------------------------------ MODULE ReadCache ------------------------------
(***************************************************************************)
(* ReadCache and the maps below it.  Values are cached by their digest:    *)
(* dedup_map leads from a key to the digest of its value, refer_map back   *)
(* from a digest to its keys, and cache_map, an LRUMap or an SLRUMap, from *)
(* the digest to the value.  A list of nodes is a sequence, the node next  *)
(* to head first.  Every operation runs under myLock; Get holds it for     *)
(* reading only, although it moves nodes: Gets are taken one at a time.    *)
(***************************************************************************)
EXTENDS Naturals, Sequences, FiniteSets, SequencesExt

CONSTANTS Keys, Values,
          Footprint,     (* CalcDigest of each value                       *)
          CacheSize,     (* cache_size                                     *)
          Percent,       (* slru_partition: the percentage protected       *)
          DefaultSize,   (* 1024: the size of an LRUMap asked to have 0    *)
          Policies       (* a subset of {"LRU", "SLRU"}                    *)

ASSUME ReadCacheAssumption ==
  /\ Footprint \in [Values -> Nat]
  /\ \A v, w \in Values : Footprint[v] = Footprint[w] => v = w
  /\ CacheSize \in Nat /\ Percent \in 0 .. 100 /\ DefaultSize \in Nat \ {0}
  /\ Policies \subseteq {"LRU", "SLRU"}

VARIABLES policy,    (* the CachePolicy given to the constructor           *)
          protect,   (* SLRUMap::protect                                   *)
          probation, (* SLRUMap::probation, or the one list of an LRUMap   *)
          dedup,     (* dedup_map                                          *)
          refer      (* refer_map, a set of pairs <<footprint, key>>       *)

cacheVars == <<policy, protect, probation, dedup, refer>>

(* The sizes of CacheMap::create, as LRUMap::LRUMap changes them.          *)
Size(n) == IF n = 0 THEN DefaultSize ELSE n
ProbationSize ==
  IF policy = "LRU" THEN Size(CacheSize) ELSE Size((CacheSize * (100 - Percent)) \div 100)
ProtectSize == Size(CacheSize - (CacheSize * (100 - Percent)) \div 100)

CacheInit ==
  /\ policy \in Policies
  /\ protect = <<>> /\ probation = <<>>
  /\ dedup = [k \in {} |-> 0]
  /\ refer = {}

-----------------------------------------------------------------------------
(* LRUMap. *)

Holds(list, f) == \E i \in DOMAIN list : list[i].key = f
PositionOf(list, f) == CHOOSE i \in DOMAIN list : list[i].key = f
NodeOf(list, f) == list[PositionOf(list, f)]

(* detach of the node that cached_map has for f.                           *)
Without(list, f) == IF Holds(list, f) THEN RemoveAt(list, PositionOf(list, f)) ELSE list

(* LRUMap::Get: a node that is found moves to the front.                   *)
Touched(list, f) ==
  IF Holds(list, f) THEN <<NodeOf(list, f)>> \o Without(list, f) ELSE list

(* The node that LRUMap::Put takes from the tail for want of a free one.   *)
PoppedBy(list, size, f) ==
  IF ~Holds(list, f) /\ Len(list) >= size THEN {Last(list)} ELSE {}

(* LRUMap::Put; a key that is there keeps its data if same.                *)
PutNode(list, size, node, same) ==
  LET kept == IF PoppedBy(list, size, node.key) # {} THEN Front(list) ELSE list
  IN IF Holds(list, node.key) /\ same THEN Touched(list, node.key)
     ELSE <<node>> \o Without(kept, node.key)

-----------------------------------------------------------------------------
(* SLRUMap, and CacheMap over both policies. *)

Cached(f) == Holds(probation, f) \/ Holds(protect, f)
CachedValue(f) ==
  IF Holds(probation, f) THEN NodeOf(probation, f).data ELSE NodeOf(protect, f).data

(* The two lists after SLRUMap::Get: a node on probation becomes a         *)
(* protected one, and the one it displaces goes on probation.              *)
Promoted(f) ==
  LET node == NodeOf(probation, f)
      rest == Without(probation, f)
      out == PoppedBy(protect, ProtectSize, f)
  IN [protect |-> PutNode(protect, ProtectSize, node, FALSE),
      probation |-> IF out = {} THEN rest
                    ELSE PutNode(rest, ProbationSize, CHOOSE n \in out : TRUE, FALSE)]

AfterGet(f) ==
  IF policy = "LRU"
  THEN [protect |-> protect, probation |-> Touched(probation, f)]
  ELSE IF Holds(probation, f) THEN Promoted(f)
       ELSE [protect |-> Touched(protect, f), probation |-> probation]

(* CacheMap::Put: SLRUMap looks the key up first, which promotes it.       *)
CacheMapPut(f, v, same) ==
  LET node == [key |-> f, data |-> v]
      got == AfterGet(f)
  IN IF policy = "SLRU" /\ Cached(f)
     THEN /\ protect' = PutNode(got.protect, ProtectSize, node, same)
          /\ probation' = got.probation
     ELSE /\ probation' = PutNode(probation, ProbationSize, node, same)
          /\ UNCHANGED protect

(* What that Put reports as popped out.                                    *)
CacheMapPopped(f) == IF Cached(f) THEN {} ELSE PoppedBy(probation, ProbationSize, f)

-----------------------------------------------------------------------------
(* ReadCache. *)

(* Mutant: the reference under the old digest is left behind.              *)
MutReferRenewed(k, f) == refer \cup {<<f, k>>}

ReferRenewed(k, f) == (refer \ {<<dedup[k], k>>}) \cup {<<f, k>>}

(* Mutant: the digest of the old value stays with the key.                 *)
MutRenewedDedup(k, f) == dedup

RenewedDedup(k, f) == [dedup EXCEPT ![k] = f]

(* Put of a key that has another value.  A node that is popped out here is *)
(* not removed from dedup_map and refer_map.                               *)
RenewValue(k, v) ==
  /\ k \in DOMAIN dedup
  /\ dedup[k] # Footprint[v]
  /\ refer' = ReferRenewed(k, Footprint[v])
  /\ dedup' = RenewedDedup(k, Footprint[v])
  /\ CacheMapPut(Footprint[v], v, FALSE)

(* Put of the value the key has.                                           *)
SameValue(k, v) ==
  /\ k \in DOMAIN dedup
  /\ dedup[k] = Footprint[v]
  /\ CacheMapPut(Footprint[v], v, TRUE)
  /\ UNCHANGED <<dedup, refer>>

(* The keys that refer to one of the digests fs.                           *)
Forgotten(fs) == {p[2] : p \in {q \in refer : q[1] \in fs}}

(* Put of a new key: the keys of a value popped out are forgotten.         *)
NewKey(k, v) ==
  LET f == Footprint[v]
      out == {n.key : n \in CacheMapPopped(f)}
  IN /\ k \notin DOMAIN dedup
     /\ refer' = {p \in refer : p[1] \notin out} \cup {<<f, k>>}
     /\ dedup' = [x \in (DOMAIN dedup \ Forgotten(out)) \cup {k} |->
                    IF x = k THEN f ELSE dedup[x]]
     /\ CacheMapPut(f, v, FALSE)

CachePut(k, v) ==
  /\ RenewValue(k, v) \/ SameValue(k, v) \/ NewKey(k, v)
  /\ UNCHANGED policy

Hit(k) == k \in DOMAIN dedup /\ Cached(dedup[k])

(* Get, which moves the node of a value it finds.                          *)
CacheGet(k) ==
  /\ IF k \in DOMAIN dedup
     THEN LET got == AfterGet(dedup[k])
          IN protect' = got.protect /\ probation' = got.probation
     ELSE UNCHANGED <<protect, probation>>
  /\ UNCHANGED <<policy, dedup, refer>>

-----------------------------------------------------------------------------
Prints == {Footprint[v] : v \in Values}
Nodes == {[key |-> Footprint[v], data |-> v] : v \in Values}
KeysOf(list) == {list[i].key : i \in DOMAIN list}

(* Every node holds the value its key is the digest of.                    *)
CacheTypeOK ==
  /\ policy \in Policies
  /\ protect \in Seq(Nodes) /\ probation \in Seq(Nodes)
  /\ DOMAIN dedup \subseteq Keys /\ \A k \in DOMAIN dedup : dedup[k] \in Prints
  /\ refer \subseteq Prints \X Keys

(* refer_map is the inverse of dedup_map: the erase of the keys of a value *)
(* popped out never gets the end iterator of a find that failed.           *)
ReferIsInverse == refer = {<<dedup[k], k>> : k \in DOMAIN dedup}

Distinct(list) == \A i, j \in DOMAIN list : list[i].key = list[j].key => i = j

(* A value is in one list, once, and no list outgrows its entries.         *)
CachedOnce ==
  /\ Len(protect) <= ProtectSize /\ Len(probation) <= ProbationSize
  /\ Distinct(protect) /\ Distinct(probation)
  /\ KeysOf(protect) \cap KeysOf(probation) = {}

(* An LRUMap is one list.                                                  *)
OneList == policy = "LRU" => protect = <<>>
=============================================================================
