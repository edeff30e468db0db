-------------------------------- MODULE KVDS --------------------------------
(***************************************************************************)
(* The operations of KVDS over the read cache: Insert and Delete,          *)
(* InsertBatch, Get.  Index and data store below are one map here, which a *)
(* write changes at once; WritePipeline says in which sense they are one.  *)
(* A call goes in steps: what it does below, and every call of the cache.  *)
(***************************************************************************)
EXTENDS ReadCache

CONSTANTS Clients,
          Empty,      (* the value of length 0, which Delete writes        *)
          NotFound, NoResult,
          MaxWrites,  (* bound on the writes of one key                    *)
          MaxBatch    (* bound on the length of a batch                    *)

ASSUME KVDSAssumption ==
  /\ Empty \in Values /\ NotFound \notin Values /\ NoResult \notin Values \cup {NotFound}
  /\ MaxWrites \in Nat /\ MaxBatch \in Nat \ {0}

VARIABLES store,    (* the value of each key; Empty also when there is none*)
          client,   (* the call of each client                             *)
          writes,   (* history: the number of writes of each key           *)
          lastPut   (* history: the value each key was last Put with       *)

vars == <<cacheVars, store, client, writes, lastPut>>

Idle == [at |-> "idle", key |-> NoResult, puts |-> <<>>, result |-> NoResult, seen |-> {}]

Init ==
  /\ CacheInit
  /\ store = [k \in Keys |-> Empty]
  /\ client = [c \in Clients |-> Idle]
  /\ writes = [k \in Keys |-> 0]
  /\ lastPut = [k \in Keys |-> NoResult]

(* What a Get of a key with value v should return.                         *)
Answer(v) == IF v = Empty THEN NotFound ELSE v

IsEmpty(p) == p[2] = Empty

(* The list of Puts after one turn of the loop over a written batch:       *)
(* !GetDataLen().                                                          *)
Chosen(puts, p) == IF IsEmpty(p) THEN Append(puts, p) ELSE puts

(* The elements of the batch that go to the cache, in order.               *)
ToCache(batch) ==
  LET chosen[n \in 0 .. Len(batch)] ==
        IF n = 0 THEN <<>> ELSE Chosen(chosen[n - 1], batch[n])
  IN chosen[Len(batch)]

PlacesOf(batch, k) == {i \in DOMAIN batch : batch[i][1] = k}

(* The position of the last element of a batch for k.                      *)
LastOf(batch, k) == CHOOSE i \in PlacesOf(batch, k) : \A j \in PlacesOf(batch, k) : j <= i

CountOf(batch, k) == Cardinality(PlacesOf(batch, k))

(* The clients that are reading note what their key holds meanwhile.       *)
Watched(c, s) == IF client[c].key \in Keys
                 THEN [client[c] EXCEPT !.seen = @ \cup {Answer(s[client[c].key])}]
                 ELSE client[c]

(* Insert, Delete and InsertBatch up to the return of the data store with  *)
(* success; after a failure they return and nothing has changed.           *)
Write(c, batch) ==
  /\ client[c].at = "idle"
  /\ writes' = [k \in Keys |-> writes[k] + CountOf(batch, k)]
  /\ \A k \in Keys : writes'[k] <= MaxWrites
  /\ store' = [k \in Keys |-> IF PlacesOf(batch, k) = {} THEN store[k]
                              ELSE batch[LastOf(batch, k)][2]]
  /\ client' = [d \in Clients |->
       IF d # c THEN Watched(d, store')
       ELSE IF ToCache(batch) = <<>> THEN Idle
       ELSE [Idle EXCEPT !.at = "put", !.puts = ToCache(batch)]]
  /\ UNCHANGED <<cacheVars, lastPut>>

(* The call returns after the last Put.                                    *)
AfterPut(call) ==
  IF Len(call.puts) = 1 THEN Idle ELSE [call EXCEPT !.puts = Tail(@)]

(* rdCache_->Put                                                           *)
PutNext(c) ==
  /\ client[c].at = "put"
  /\ LET p == Head(client[c].puts)
     IN /\ CachePut(p[1], p[2])
        /\ lastPut' = [lastPut EXCEPT ![p[1]] = p[2]]
  /\ client' = [client EXCEPT ![c] = AfterPut(@)]
  /\ UNCHANGED <<store, writes>>

(* Get that finds the key in the cache, and is to Put it again.            *)
GetHit(c, k) ==
  /\ client[c].at = "idle"
  /\ Hit(k)
  /\ CacheGet(k)
  /\ LET v == CachedValue(dedup[k])
     IN client' = [client EXCEPT ![c] =
          [at |-> "put", key |-> k, puts |-> <<<<k, v>>>>, result |-> v,
           seen |-> {Answer(store[k])}]]
  /\ UNCHANGED <<store, writes, lastPut>>

GetMiss(c, k) ==
  /\ client[c].at = "idle"
  /\ ~Hit(k)
  /\ CacheGet(k)
  /\ client' = [client EXCEPT ![c] =
       [Idle EXCEPT !.at = "read", !.key = k, !.seen = {Answer(store[k])}]]
  /\ UNCHANGED <<store, writes, lastPut>>

(* Mutant: an empty result is cached and returned as well.                 *)
MutFound(v) == TRUE

Found(v) == v # Empty

(* GetHashEntry and ReadData: NotFound also for an entry of length 0.      *)
ReadStore(c) ==
  /\ client[c].at = "read"
  /\ LET k == client[c].key
         v == store[k]
     IN client' = [client EXCEPT ![c] =
          IF Found(v)
          THEN [@ EXCEPT !.at = "put", !.puts = <<<<k, v>>>>, !.result = v]
          ELSE [@ EXCEPT !.at = "return", !.result = NotFound]]
  /\ UNCHANGED <<cacheVars, store, writes, lastPut>>

Return(c) ==
  /\ client[c].at = "return"
  /\ client' = [client EXCEPT ![c] = Idle]
  /\ UNCHANGED <<cacheVars, store, writes, lastPut>>

Batches == UNION {[1 .. n -> Keys \X Values] : n \in 1 .. MaxBatch}

Next == \E c \in Clients :
  \/ \E batch \in Batches : Write(c, batch)
  \/ PutNext(c)
  \/ \E k \in Keys : GetHit(c, k) \/ GetMiss(c, k)
  \/ ReadStore(c) \/ Return(c)

Spec == Init /\ [][Next]_vars
-----------------------------------------------------------------------------
Calls ==
  [at : {"idle", "put", "read", "return"}, key : Keys \cup {NoResult},
   puts : Seq(Keys \X Values), result : Values \cup {NotFound, NoResult},
   seen : SUBSET (Values \cup {NotFound})]

TypeOK ==
  /\ CacheTypeOK
  /\ store \in [Keys -> Values]
  /\ client \in [Clients -> Calls]
  /\ writes \in [Keys -> 0 .. MaxWrites]
  /\ lastPut \in [Keys -> Values \cup {NoResult}]

(* A hit is the value its key was last Put with, whatever other keys share *)
(* the value and whatever was evicted and put back in between.             *)
HitIsLastPut == \A k \in Keys : Hit(k) => CachedValue(dedup[k]) = lastPut[k]

Answered(c) == client[c].result # NoResult

(* At most one write of the key so far, which was not a delete.            *)
WrittenOnce(k) == writes[k] = 0 \/ (writes[k] = 1 /\ store[k] # Empty)

(* A Get returns a value its key had during the call if the key has been   *)
(* written once only, and not deleted: what the cache promises all the     *)
(* same, also to Gets that fill it while the write goes on.                *)
WrittenOnceReadsRight ==
  \A c \in Clients : Answered(c) /\ WrittenOnce(client[c].key) =>
    client[c].result \in client[c].seen

(* Types, and the maps of the cache agree with each other, at every step.  *)
Consistent == TypeOK /\ CachedOnce /\ ReferIsInverse

(* A Get returns a value its key had at some time during the call.         *)
ReadsLatest ==
  \A c \in Clients : Answered(c) => client[c].result \in client[c].seen

-----------------------------------------------------------------------------
(* The inductive strengthening that the proofs use. *)

(* The digest of a key is that of its last Put.                            *)
DigestOfLast ==
  \A k \in DOMAIN dedup : lastPut[k] \in Values /\ dedup[k] = Footprint[lastPut[k]]

Reading(c) == client[c].at = "read" \/ Answered(c)

(* A reader has noted what its key holds.                                  *)
Noted ==
  \A c \in Clients :
    /\ client[c].at = "put" => client[c].puts # <<>>
    /\ Reading(c) => /\ client[c].key \in Keys
                     /\ Answer(store[client[c].key]) \in client[c].seen

(* What is cached, or on its way to the cache, for a key written once.     *)
OneValue ==
  \A k \in Keys : WrittenOnce(k) =>
    /\ writes[k] = 0 => store[k] = Empty
    /\ k \in DOMAIN dedup => store[k] # Empty /\ lastPut[k] = store[k]
    /\ \A c \in Clients : \A n \in DOMAIN client[c].puts :
         client[c].puts[n][1] = k => store[k] # Empty /\ client[c].puts[n][2] = store[k]

KVDSInv ==
  /\ Consistent /\ OneList /\ DigestOfLast
  /\ Noted /\ OneValue /\ WrittenOnceReadsRight

=============================================================================
