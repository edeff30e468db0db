# TLA+ verification of HLKVDS

HLKVDS is a log-structured key-value store for fast block devices: values are
packed into large segments that are written once, a hash table in memory maps
the digest of every key to the address of its record, and garbage collection
copies what is still alive out of half-dead segments. This directory models
the store in TLA+, model-checks it with TLC and proves with TLAPS the parts
that must hold for every number of threads, segments and requests.

Paths below are relative to the repository root (`src/src/...`).

## 1. The system

| Component | State | Operations | Talks to |
|---|---|---|---|
| `KVDS` (`Kvdb_Impl.cc`) | options, pointers to everything | Open, Create, Close, Insert, Delete, Get, InsertBatch, Do_GC, NewIterator | read cache, index, data store, `MetaStor` |
| `DS_MultiVolume_Impl` | shards with an open segment each, their queues and merge threads, segment writers, reaper, timeout thread, volumes | WriteData (aggregated or immediate), WriteBatchData, ReadData, ManualGC, start and stop of threads | `WorkQueue`, `Volume`, `IndexManager` |
| `DS_MultiTier_Impl` with `FastTier`, `MediumTier` (`Tier.cc`) | the same write path over one fast volume; medium volumes filled by migration | the same, allocSegment, migration thread | `Migrate`, `Volume` |
| `Request`, `SegForReq`, `SegForSlice`, `SegLatencyFriendly`, `SegForMigrate` (`Segment.cc`) | requests or slices of a segment, sizes, time stamp, commit counter | TryPut, Put, Completion, Notify, WriteSegToDevice, UpdateToIndex, CleanDeletedEntry | `Volume`, `IndexManager` |
| `WorkQueue` | queue, worker threads, stop flag | Add_task, Stop, the worker loop | its users' `_process` |
| `Volume` | one device | forwards; converts offsets and segment numbers; ModifyDeathEntry | `SegmentManager`, `GcManager`, `BlockDevice` |
| `SegmentManager` | the segment table, a scan position, three counters | Alloc, AllocForGC, Use, FreeForFailed, FreeForGC, AddDeathSize, SortSegsByUtils, SortSegsByTS, Get, Set | - |
| `GcManager` | `gcMtx_`, candidates | ForeGC, BackGC, FullGC, doMerge, loadKvList | `SegmentManager`, `IndexManager` |
| `Migrate` | migration mutex | ForeMigrate, doMigrate, loadSegKV | fast and medium volumes, index |
| `IndexManager` | hash table with a mutex per slot group, `keyCounter_`, `dataTheorySize_`, reaper queue | UpdateIndex, UpdateIndexes, UpdateIndexesForGC, RemoveEntry, GetHashEntry, IsSameInMem, AddToReaper, Get, Set | `Volume` (dead space) |
| `MetaStor`, `SuperBlockManager` | super block, layout of index and segment tables on the device | create, load, persist | all managers |
| `ReadCache`, `LRUMap`, `SLRUMap` | value cache by footprint, keys by footprint | Put, Get, Delete | - |
| `KvdbIter`, `LinkedList` | position in the hash table | Seek, Next, Prev, Key, Value | index |

What makes them correct, component by component:

* **SegmentManager**: state, counters and holders of segments agree; a segment
  has one owner; garbage collection always finds a segment to merge into.
* **GcManager**: a merge loses no live record, brings none back, moves no
  entry to the wrong place, and never costs space.
* **Write path**: an acknowledged write is found by later reads; every write is
  answered; objects shared by clients, writers and reaper are deleted once,
  after their last use.
* **WorkQueue**: nothing lost, nothing done twice, no wake-up lost, Stop
  returns and leaves nothing behind.
* **IndexManager**: entries only go forward in time; entry count, dead space
  and live size are exact, because garbage collection, the limits of the table
  and the consistency check at open depend on them.
* **Read cache**: the three maps agree; a hit is the value put last, and the
  current value of the key.
* **MetaStor**: what open finds is what close left; a store that was closed can
  be opened; the regions of a device do not overlap.
* **Segments**: what is read back from the bytes of a segment is what was put
  into it, and nothing is written beyond the segment.
* **Migration**: like garbage collection, across two volumes; a writer that
  waits for it gets a segment or an error.
* **Iterator**: shows every key once.

What is hard: clients, merge threads, segment writers, the timeout thread, the
reaper, the collecting threads and readers all run at once; the index is
updated by the *clients*, after their segment has been written, in any order;
segments become candidates for collection as soon as they are written; reads
take no claim on what they read; allocation tests and takes in two critical
sections; devices and allocations fail half-way. `PROJECT.json` lists every
such hazard at its line with the properties that cover it.

## 2. The modules

```
SegmentManager           the segment table: state and operations
 |- AllocScan            AllocForGC iteration by iteration
 |- SegAlloc             threads competing for segments    -- SegAllocProofs, MCSegAlloc
 |- GcManager            space + index + data + merge      -- GcManagerProofs, MCGcManager
 |- Migrate              two tiers: allocSegment, doMigrate -- MigrateProofs, MCMigrate
WorkQueue                the queue with its threads        -- WorkQueueProofs, MCWorkQueue
WritePipeline            the aggregated write path         -- WritePipelineProofs, MCWritePipeline
IndexManager             the accounts of the index
 |- KvdbIter             an iterator over the changing table -- IndexManagerProofs, MCIndexManager
ReadCache                the cache and its replacement lists
 |- KVDS                 the calls of a client over the cache -- KVDSProofs, MCKVDS
MetaStor                 create, close, crash and open     -- MetaStorProofs, MCMetaStor
 |- DurableMap           the abstract map that MetaStor implements
Segment                  the bytes of a segment
 |- DeviceLayout         the regions of the devices        -- MCDeviceLayout
```

`MC*` modules give names to the functions, constraints and symmetry sets that a
`.cfg` cannot write. Operators named `Mut...` are faulty variants of the
definition that follows them; no specification uses them. They are there so
that each property can be seen to fail when the code is wrong.

**SegmentManager** has `segTable`, `curSegId` and the three counters as
variables, and each operation of the class as an action on them (they run
under `mtx_`, so each is one step). `AllocForGC(s)` reserves the first FREE
segment in scan order; `AllocForGCFails` and `AllocForGCSpins` are its other
two outcomes: with a full table and `curSegId_ = 0` the loop never ends,
because the index is reset to 0 and incremented to 1 before the loop condition
sees it. **AllocScan** is that loop as a recursive function; its assumption
`ScanFindsFirstFree`, evaluated for every table of up to six segments and every
position, says that the three actions are exactly what the loop does.

**SegAlloc** composes the table with its users: writers (SegWrite,
writeDataImmediately, WriteBatchData), ForeGC in a writer, BackGC or FullGC in
a background thread. `Alloc` is two steps, because it drops `mtx_` between its
test and the scan. A merge is sort, allocate, write, free each candidate,
optionally a second segment; with every error return. What is copied is left
out: which candidates are absorbed and which one is split is any choice the
packing could make. The water marks of BackGC only decide whether a merge
starts and are a free choice. `leaked` and `unread` are histories of the two
error paths that lose space.

**GcManager** has the table again, and the records (`content`), the index and
a clock. Clients write whole segments, then bring the entries to the index one
by one (`BatchUpdate`); the reaper removes tombstones (`Reap`); readers look an
entry up and read later (`Find`, `ReadData`); a merge loads a candidate record
by record against the index, packs, writes, updates the index record by
record, frees. `Alloc` is one step here since SegAlloc deals with its race.
Records have size 1; the data size plays a part only in packing, and one
record more or less than fits is what packing distinguishes. `RoomAfter`
keeps the strict comparison of `TryPut`: the last unit of a segment stays
empty. `dangling` is a history: a merge never copies tombstones, so the entry of
one that no reaper removes (only the aggregated path sends tombstones to it) may
outlive its segment. From then on that entry leads anywhere and its death will be
charged to whatever segment has its number, so `EntriesPointToData` excuses
tombstones, and `DeathIsExact` and `MergeKeepsSpace` are stated until it happens.

**Migrate** is the counterpart over two tiers. The fast volume has the segment
table; a medium volume is the sequence of its segments. `allocSegment` is
followed through its loop under `allocMtx_` (test, take, pick a volume, migrate,
give up after as many tries as there are volumes), while the migration thread
takes turns of its own; `pickVolId_` is shared by both. `doMigrate` sorts by
time, loads, packs, writes to the medium volume, re-checks and puts each entry
in two steps (as `UpdateIndexesForGC` does) and frees the source. The index
charges deaths to either tier. `slips` records the four situations that the
code does not guard against: a client's update dropped because a move gave the
old record a newer stamp ("restamped"), a tombstone left behind in a freed
segment ("tombstone"), a segment migrated before its entries were indexed
("unindexed"), an update between test and put ("overtaken").

**WorkQueue** is the condition-variable protocol: what a worker does between two
acquisitions of the mutex is one step; a worker with a false predicate sleeps and gives the
mutex up at once; `notify_one` wakes one sleeper; a wait may time out; Stop is
store, notify, join, with the store outside the mutex and `stop_` outside the
predicate, as in the code.

**WritePipeline** follows a request: queue of its shard (`WriteData`), open
segment (`ReqMerge`, `SegTimeout`), queue of the segment writers, allocation,
write, `Notify` (stamps and counter first, then the requests one at a time,
during which answered clients already run on), the client's own update of the
index (which the full table may refuse without anybody noticing,
`UpdateIndexRefused`), the commit counter, the reaper (`ReapStart`, `ReapEntry`,
`ReapEnd`). `keepsTrying`, chosen in the initial state, is the one difference
between the two data stores: after a failed allocation `FastTier::SegWrite`
returns, while the loop of `DS_MultiVolume_Impl::SegWrite` notifies failure and
goes on.

**IndexManager** has each branch of `UpdateIndex` as an action, with the two
acquisitions of `mtx_` of an insert apart, and `RemoveEntry`. **KvdbIter** adds
the lists of the slots and an iterator that remembers a slot, a position and a
pointer and takes no mutex. `slips` has "raced" (two inserts between test and
count), "rewritten" (a tombstone written over) and "emptied" (an empty value
taken for a tombstone, because an insert looks at the pointer to the data and
everything else at its size).

**ReadCache** is `Put` and `Get` over `dedup_map`, `refer_map` and the list or
the two lists below them, each operation one step under `myLock`. **KVDS** runs
the calls of clients over it: a write changes the map below in one step and puts
what it puts afterwards; a Get looks up, reads, and puts.

**MetaStor** is the life of a store. A write, from queue to index, is one step,
but the reaper and a merge go on step by step while `closeDB` copies the index
(counters first, then slot by slot), writes it, brings the super block up to date,
writes the segment tables and the super block, and only then stops the threads. A crash
may come at any step. `IndexManager::Set` is taken at its word: it fills the
slots from the stream by the counters alone. `hurt` records what damages a
store: a crash with changes not persisted ("crash"), a reap while the index is
copied ("reap"), a merge that frees segments during closing ("merge").
**DurableMap** is the abstract specification: a map that opening and closing
leave alone. `IsDurableMap` is the refinement `MetaStor => DurableMap` under the
mapping `kv <- Visible`, where `Visible` is what reads find now or, of a closed
store, what they would find if it were opened.

**Segment** computes where header, key and data of each slice lie, for
`SegBase` (page-sized data at the end) and `SegLatencyFriendly` (all inline), and what
`loadSegKV` reads back. **DeviceLayout** computes the regions of the first device
and the segments of all of them for both stores, opens them again from the
super block, and fills a segment and places it.

## 3. The runs

| Run | Shows |
|---|---|
| `seg_alloc` | counters, ownership, candidates and the reserve; unreadable candidates, merges that get no segment, batches that leak theirs |
| `work_queue` | nothing lost or repeated, no wake-up lost, Stop drains and returns |
| `pipeline` | both stores: what a read finds, who is still waiting for a segment being written, when segment objects are deleted, nothing forgotten at rest |
| `index` | entry count, dead space, live size, capacity; an iterator meanwhile |
| `gc` | merges lose, resurrect and misplace nothing and cost no space |
| `kvds` | the maps of the cache agree, a hit is the value put last |
| `meta_stor` | the store implements `DurableMap`; opened tables fit together; what can make a store refuse to open |
| `layout` | regions apart, writes inside their segment, slices found again, the sizing loop ends |
| `migrate` | the same as `gc` over two tiers, the reserve, and a writer that waits gets a segment or an error |
| `gc_lost_update` | **violated**: a merge undoes an update |
| `kvds_stale` | **violated**: the cache outlives an update |
| `reopen_refused` | **violated**: a closed store cannot be opened |

Invariants called `Consistent` are conjunctions of named parts, one type
invariant and the parts that say how the pieces of state fit together.

**Bounds.**

* `seg_alloc`: 5 segments, 2 of them reserved, 2 writers and a background
  thread. Two writers reach every race of Alloc's two halves with a reserve of
  two; `ReserveShrinksByRaces` says what each further one costs.
* `work_queue`: 3 tasks, 2 workers; one worker busy, one asleep and one task
  more.
* `pipeline`: 3 writes of one key, the second a delete, 2 segment writers, 2
  requests to a segment. This gives a full segment, a replaced one and one that
  only the timeout completes, and the put - delete - put history that the reaper must survive. `MaxNotifies = 3` is one more
  than the two segments the three requests fill, so that the store that keeps
  trying notifies a segment twice.
* `index`: 7 updates of 3 keys in 3 segments and 2 slots, deletes, expired ones
  and an empty value among them, a table for 2 keys. `Word` (here 64, elsewhere 256) stands
  for the range of the unsigned counters, so large that no correct value wraps.
* `gc`: 3 batches of two records in 4 segments with room for three records, of which
  `TryPut` uses two; merging two candidates forces a split. Two batches delete, one
  of them without a reaper, so that tombstones dangle, too. `MaxMerges = 2` lets a
  merge work on what a merge wrote.
* `kvds`: 2 keys, 3 values (one empty), a cache of 2, both policies, 2 clients,
  2 writes per key, batches of up to 2. Two keys that share a value, an
  eviction and a second client between lookup and put all occur.
* `meta_stor`: 2 keys in slots of their own, 3 segments, 2 writes, any number
  of closings, crashes and openings, damaged stores included: the whole space.
* `layout`: lengths in quarters of a page, `Word = 64`, every combination of a
  few table and segment sizes with capacities from 3 to 63 quarter pages and up to
  two further devices. The capacities cover: too small for anything, for one
  segment, for several.
* `migrate`: fast tier of 3 segments, 1 reserved; medium volumes of 1 and 2
  segments; 3 batches, so that a migration has a choice and the medium tier
  fills up; one refused write; one turn of the migration thread.

`CHECK_DEADLOCK FALSE` is set where inputs are finite: the system ends when all
requests are served (in `seg_alloc` also when a thread spins holding `mtx_`, in
`meta_stor` when a store is refused). In `kvds` clients can always read, so
deadlock is checked. Symmetry is used for safety properties
only: over writers, clients, or segments of which no order matters.

**Fairness.** The threads of the program are never disabled for good: every
thread loops on a wait with a timeout, so weak fairness of each thread's step is
what a fair operating system gives. `WorkQueue` assumes it for workers and for a
Stop that has begun; `Migrate` for clients inside a call, the migration thread
and a running migration (its waits on `mtx_` and `allocMtx_` are waits of
enabled steps); `DeviceLayout` for the one thread that sizes the volume. Nobody
is obliged to write, to add a task or to stop. `WritePipeline` needs none: each
of its steps uses something up, so every behaviour comes to a state of rest, and
`RestMeansDone` says what such a state is.

**The `gc` run and its assumption.** With `Overlap = FALSE` clients do not step
while a merge runs and a merge does not start while a client is between its
write and its index updates or a reader between lookup and read. Under that
assumption the merge is right; section 5 lists what the code leaves open without
it, and `gc_lost_update` runs without it.

## 4. What is proved

Each theorem holds for all values of the constants that satisfy the named
assumptions in the modules, and rests on nothing else. The assumptions are what
the code guarantees (a batch fits into a segment, since `TryPut` and
`PutNonCheck` fill it that far, and is not empty; a write belongs to one batch; a
table has a slot) or finiteness. Two idealise: the
keys' and values' digests do not collide (`Footprint` of `KVDS` is injective),
and special values such as `NoEntry` are not values of the kind they stand
beside.

**`SegAllocProofs`**, any number of segments, any finite set of writers:

1. `TypeCorrect`, and `CountersCorrect`: the counters are the cardinalities of
   the three states. Neither this nor ownership is inductive alone: that Use
   and the two frees are only called in the right state rests on who holds
   what. The inductive invariant is `ControlInv /\ SpaceInv`: where each
   thread is determines what it holds (`HeldShape`), what the merge's local
   variables can be (`MergeShape`) and who has `gcMtx_` (`OwnerShape`).
   `ReservedHasOwner` follows from it, and `CandidatesKept`: a segment that a
   merge has yet to free stays USED, because only the merge leaves USED.
2. `ReserveBound` and `ReserveSufficient`: `ReserveInv` counts the free
   segments, the one a merge owes (`Debt`) and the writers that have passed
   Alloc's test (`Checked`). It gives the exact price of the race in Alloc:
   each further writer costs one reserved segment, so with at most
   `SEG_RESERVED_FOR_GC` of them no merge fails for want of a segment. The
   conditions (no merge that could read none of its candidates,
   `SEG_RESERVED_FOR_GC < SegNum`) are part of the properties; the code's
   default is 10 segment writers and a reserve of 2.

**`WorkQueueProofs`**, any tasks, any finite number of workers: types, every task
in exactly one place, no lost wake-up, Stop leaves nothing. The inductive
invariant adds which pcs hold a task and how far Stop has come. For the wake-up,
the workers awake at a push are counted through the mutex: a worker tests the
predicate and sleeps in one step.

**`WritePipelineProofs`**, any requests, shards, writers and capacities, both
stores. The inductive invariant `PipelineInv` has four layers, each resting on the
ones before:

* `RequestInv`: a request is in one place, a queue or one position of one
  segment, and its client is as far as that place says.
* `SegmentInv`: what the phase of a segment, the queue of the segment writers
  and the writers' own positions say of each other; in particular a segment is
  with one writer, and what it has answered is nothing or all whenever it
  allocates or writes.
* `ReapInv`: all requests of a segment are told the same (`ToldTheSame`), so the
  commit counter of a segment told of success is the number of its clients still
  to return; the last of them, and nobody before, sends the segment to the
  reaper, and its object is not deleted while a client will look at it.
* `VisibleInv`: of two calls that do not overlap the later has the later stamp,
  and what the index has for a key, an entry or nothing, was not preceded by any
  write that has been applied.

From it follow `PipelineConsistent`, `ReadsAreLatest`, `ClientsStillWait` and
`NothingForgotten`: at rest nobody is still waiting, and the segments of successful
writes have been reaped.

**`IndexManagerProofs`**, any updates of any sizes in any slots, together with an
iterator:

* `CounterCorrect` and `TableBounded`: while an insert is between its two
  acquisitions of `mtx_` its key has no entry and no other update of the slot
  runs; with `RoomInv`, which reserves a place for the one insert under way, the
  table holds at most `htSize_` entries until two inserts overlap.
* `DeadSpaceCorrect`: `DeathInv` strengthens `DeathIsExact` from segments at rest
  to every moment: the bytes of the updates that are over, in a segment, are
  those of its entries plus `death_size`. Each step moves one update from one
  side to the other.
* `TheoryCorrect`: `TheoryInv` says the same of the values and the unsigned
  `dataTheorySize_`; subtraction modulo the word is treated once, in
  `DivisionExact` and `RemainderUnique`. A sum over a set (`MapThenSumSet`) is
  shown to be the number of its bytes, a cardinality, about which the
  library has theorems.
* `TableConsistent` and `PassesComplete`: `ListInv` says that a list holds the
  keys of its slot that have entries, each once. `IterSeen` divides the table at
  the iterator: the keys seen are those behind it, in slots passed (`Behind`) or
  in places passed of the present list (`Passed`), and of the keys that were there
  at the start all those behind it have been seen. A put goes to the end of a
  list and moves nothing across that line; a removal may, and is where the
  property ends (`iter.removed`).

**`KVDSProofs`**, any keys, values, clients, batches, cache sizes, for LRU and
SLRU: `KVDSInv`. Its first part is about the cache (`CacheInvariant`): the
lists respect their sizes and hold each key once, a key is in one of the two lists
of an SLRU, `refer_map` is the inverse of `dedup_map`. That has to be shown
through every operation, eviction and promotion included, since the maps are
cleaned up by what a list pops. The rest relates the cache to
its history and to the store: the digest of a key is that of its last Put
(`DigestOfLast`, hence `HitsAreRight`); for a key written once, what is cached or
on its way to the cache is what is stored (`OneValue`), and a reader has noted
what its key holds (`Noted`), hence `GetsAreRight`.

**`MigrateProofs`**, any batches, segments and medium volumes. Six invariants:

* `Control`: at most one writer is in `allocSegment`, a migration started there
  finds that writer when it returns, and a writer that has passed the test has a
  segment to take. Hence `FastTierKeepsReserve`, the contrast to `SegAlloc`:
  test and take are under `allocMtx_`.
* `TypeInv`, with the local variables of a migration at each of its steps.
* `TurnInv`: the volumes of the turn picked since a writer began
  are those it has tried (`PickedInTurn`), so a refusal comes after a full round.
* `SegInv`: a RESERVED segment belongs to one writer; what a migration has
  loaded and will free are USED segments, each once.
* `HouseInv`: entries lead home. An entry must not lead to a segment about to be freed,
  so the invariant says of each entry in a place already scanned that the
  migration carries it (`EntriesPlace`), that what it carries was loaded from a
  segment to be freed (`LoadsAreGood`) and lies in the last segment of the volume
  (`CopiesAreThere`). An entry of a record that was written over in the meantime
  belongs to a batch about to index a newer one (`OverwrittenPlace`).
* `VisibleInv`, for `LatestAcrossTiers`: the order of stamps between original
  writes and copies.
* `DeathInv`, for `DeathsAreExact`: each charge of dead space goes with exactly
  one record that dies, because two entries never share a place (`PlaceGood`),
  stamps of two batches differ (`StampsDiffer`: the reaper, which compares stamps
  only, hits the entry it means), and tombstones never move.

The history `slips` delimits the theorems as it does the properties.

**`GcManagerProofs`**, any batches, segments, keys and readers, for merges that
nobody overlaps (`~Overlap`, as in the run; without it the results are false, as
`gc_lost_update` shows). The inductive invariant is `ClientInv`, for
`GcConsistent` and `GcLatestVisible`:

* `TypeInv` (`TypesKept`, which needs no `~Overlap`): with `TypeOK`, where each
  local variable stands; what is packed fits, because a candidate has no more
  records than a segment holds and `Fitting` adds no more than there is room for.
* `SegInv`: who holds which segment. Each candidate comes up once in what a merge
  has yet to load or to free, and the segment it writes is none of them.
* `HouseInv`: an entry leads to its record, or is that of a tombstone and dangles.
  No entry may lead to a segment about to be freed, so an entry in a place already
  scanned is carried by the merge (`Carried`), and what it carries is what the
  index holds (`Current`). Since `IsSameInMem` compares addresses only, a dangling
  entry could be taken for the record that has its place now, if that is of the
  same key; `Matched` says that this record is then part of a batch which has yet
  to bring it to the index, with a newer stamp, and no merge runs meanwhile.
* `Stamps`, `VisibleInv`: stamps follow the order of batches, and a copy never has
  a stamp above that of a batch at its updates (`CopiesOlder`).
* `ReapStamps`, `DeathInv`: each charge goes with one record that dies. The reaper
  compares stamps and charges the segment of its batch; `ReapSegs` says that
  an entry with that stamp lies there until the reaper is done.
* `ReadInv`: nothing frees a segment while a reader holds an entry of it.

`MergesKeepSpace` adds `SpaceInv`: the free size of a segment is exact, and the
first candidate always goes whole into the first segment, so that a merge has a
segment to free for each it took (`Gains`). That needs
`Thld <= SegSize - SegHeader`, and the code gives it: `SEG_FULL_RATE` is 0.9, so a
segment that qualifies has a tenth to spare and the header is some tens of bytes.
Of the dead space only the inequality matters, but it matters in this direction:
one death too many, which a dangling tombstone can cause, and a candidate may be
larger than it looks.

**`MetaStorProofs`**, any keys and slots, any segments and writes: `MetaStor`
implements `DurableMap` (`StoreIsDurableMap`, the property `IsDurableMap` of the run
as a theorem), with `StoreConsistent` and `SoundStoreReopens` on the way. What
`IndexManager::Set` reads for a slot depends on the counters of all slots before
it, so the first part of the module is about tables and streams:
`Counted(counters, n)` grows by `counters[n]` with each slot, and a table that was
copied slot by slot (`Copied`) is loaded again as one with the same keys, each
once in its slot (`Good`). The inductive invariant `IInv` has three layers, one
for each degree of damage, because less is true of a store that has more behind it:

* `Base`, of every store, whatever was loaded into it: types; a stopped store has
  nothing in memory; what a merge carries is in the index; `keyCounter` covers the
  entries (`CounterCovers`), though it need not count them any more; what the
  reaper holds was a Delete.
* `SoundInv`, of a store without a crash or a reap in its closing (`Sound`):
  every key is in its slot once and is counted; the copy of the index, as far as it
  has got, is one of the index as it still is (`CopySound`); the super block
  counts the entries of the index on the device (`DiskSound`). So `Set` does not
  refuse it.
* `WholeInv`, of an undamaged store: an entry leads to its record in a segment in
  use, in memory, in the copy, and on the device (`TableWhole`, `CopyWhole`,
  `DiskWhole`); a merge has every live record of its candidates (`MergeWhole`); and once
  the index has been written the device shows what memory shows (`SameSeen`). That
  is what makes the crash of a clean store, and its closing, a step that leaves
  the abstract map alone.

The refinement is then by steps: under `IInv` the abstract map is `Shown`, what the
index in memory shows or, of a store that is down, the index on the device
(`KvBarIs`); `Write` is the abstract write, creating, opening and stopping are
`OpenOrClose`, and every other step is a stutter.

Each of these modules proves for itself what it needs about lists and numbers:
the least element of a set of numbers, a sequence without one element (`CutOut`),
that a finite list of steps can be applied in order (`RecursionExists`). Induction
is done through the least number for which something fails, as the theorems of the
library that take a predicate as a parameter cannot be used by the installed provers.

Only model-checked: all liveness properties (`AllocReturns`, Stop's return, the
sizing loop), and the safety properties of `DeviceLayout`.
`DeviceLayout` computes with powers of two, logarithms and remainders, for
which the provers have no theory (`^` is a symbol without meaning to them), and the
places of slices are sums over lists whose lengths decide them (`Sum`). The sizes
it is evaluated for are enumerated instead.

## 5. What the checks found

Three runs expect a violation and are the `findings` of `PROJECT.json`:

1. `gc_lost_update`: a merge overwrites an update that completed after the
   merge had loaded the old record, because its copies carry the later stamp
   (`GcManager.cc:194`).
2. `kvds_stale`: with the cache on, Insert puts only empty values into it, so a
   cached value outlives an update or a Delete of the key (`Kvdb_Impl.cc:201`).
3. `reopen_refused`: `closeDB` persists before it stops the reaper; a tombstone
   reaped in between makes super block and index disagree and Set refuses them
   (`IndexManager.cc:237`).

The following came up while the models were made. They bound what the passing
properties state, through a history variable, a condition or an assumption.

* Allocation: `Alloc` tests and takes in two critical sections, so more writers
  than reserved segments use the reserve up (`SegmentManager.cc:47`); `doMerge` does
  not look at the result of `AllocForGC`, which may also never return; its
  `size - 1` wraps when it could read no candidate (`GcManager.cc:204`); a
  batch too large for a segment keeps the segment (`DS_MultiVolume_Impl.cc:136`).
* Garbage collection under `Overlap = TRUE`: a merge frees a segment whose
  entries are not yet in the index; a read may return another key's record from a
  segment that was reused.
* Write path: `DS_MultiVolume_Impl::SegWrite` goes on after it has told its
  clients that the write failed, and then reads their slices; the object of a
  segment that failed is never deleted (`DS_MultiVolume_Impl.cc:544`); a write that the
  full table refused is acknowledged with OK (`refused`).
* Index: two inserts into different slots can pass the test for the last place
  (`IndexManager.cc:279`), after which the test, for equality, never holds
  again; `dataTheorySize_` drifts when a tombstone is written over
  (`IndexManager.cc:318`), and when a value of length 0 replaces an entry
  (`IndexManager.cc:317`) or is reaped in the place of a delete of its segment
  (`IndexManager.cc:368`). The last two came up when the proof of `TheoryIsExact`
  failed for an update of size 0 that is not a delete.
* Iterator: after a removal it skips a key or stands on a freed node; `getByNo`
  tests `no > size_`.
* Migration: the four slips above; `LatestVisible` is stated without "unindexed",
  since with three batches of one key a record freed before it is indexed can
  bring an older write back, which two batches cannot show; a migration without candidates still writes an
  empty segment; the number of the fast tier, 100, is a volume number like any
  other; `MediumTier::ManualGC` does not advance its iterator.
* Layout: offsets are shifts by the logarithm of a segment size that need only
  be a multiple of a page; the sizing loop is unsigned and wraps on a device too
  small; `CalcHashSizeForPower2` wraps; the first slice of a segment is put
  without a test; `loadSegKV` looks for the key of a page-sized inline value in the
  wrong place.

## 6. Assumptions and what is left out

Assumed:

* The clock only grows: stamps come from `KVTime`, wall-clock time, and all
  order in the index rests on them (the models draw a new time for every segment).
* The device writes or refuses a segment as a whole, and reads what was written.
* Keys are digests; a collision is not distinguished from equality, as in the code.
* Nobody calls the store while it is being destroyed.
* Gets of the cache come one at a time. In the code they share the lock while
  they move nodes of the list, a data race on pointers, whose outcomes are not
  states of the list.

Not modelled: digest and hash functions and the devices (third-party code and
I/O), `Write_batch` (a list its caller builds), options, status, logging,
printing, tools and tests. `LRUMap::Delete` and `SLRUMap::Delete` have no
caller. Utilisation and water marks are a free choice in every module, so that termination of
ForeGC, which repeats a merge while it gains nothing, is not stated.

## 7. What could come next

1. `DeviceLayout` for every capacity: `PiecesApart` with the sums over prefixes of a
   list as a recursive function, `WritesStayInSegment` with the logarithm replaced
   by what the code needs of it.
2. ForeGC and BackGC with utilisation and water marks: when does the loop of
   ForeGC end?
