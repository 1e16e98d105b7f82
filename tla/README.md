# A verification project for CHT-bench

CHT-bench compares concurrent hash tables written in C and C++: the CLHT family
(cache-line hash tables, `src/clht`), hopscotch hashing, cuckoo hashing
(libcuckoo), an RCU table and drivers for Java and TBB tables. Their core logic
is what many threads do to one table without a common lock, and that is what
the modules here model.

Paths below are relative to the repository; the code is under `src/` of it
(`src/clht/src/clht_lb_res.c` is `src/src/clht/src/clht_lb_res.c` in `PROJECT.json`).

## 1. Inventory

| component | state | operations | how it is synchronised |
|---|---|---|---|
| **CLHT-LB-RESIZE** `clht_lb_res.c/.h` (default build) | `clht_t`: `ht`, `resize_lock`, `status_lock`; per table: `num_buckets`, `num_expands`, `table_new`, buckets of `lock`, `key[]`, `val[]`, `next` | `clht_put`, `clht_get`, `clht_remove`, `ht_status`, `ht_resize_pes`, `bucket_cpy` | gets: none; updates: lock of the head bucket; resize: every bucket marked `LOCK_RESIZE` for ever, then copy and swap |
| CLHT-LB-RESIZE-NO-NEXT | as above without `next` | the same; a full bucket makes the put resize and retry | the same |
| CLHT-LB `clht_lb.c` | fixed table of chained buckets | put, get, remove | head-bucket lock, lock-free get |
| CLHT-LB-PACKED | the same; the entries of a chain fill a prefix of it | remove moves the last entry into the hole | the same |
| CLHT-LB-LINKED | fixed table; overflow goes to neighbouring buckets (`tot_hops`) | put, get, remove | several bucket locks |
| CLHT-LB-LOCK-INS | fixed table | locked put, CAS remove (`KEY_BLCK`) | lock among puts only |
| **CLHT-LF** `clht_lf.c/.h` | bucket: 3 slots and one 64-bit word of slot states (`INVLD`, `VALID`, `INSRT`) and a version | put, get, remove | CAS on the word |
| CLHT-LF-RESIZE | CLHT-LF with table versions, a version per thread and `resize_lock` | put, get, remove, `ht_resize_pes`, `ht_status` | grace period by thread versions |
| CLHT-LF-ONLY-MAP-REM | as CLHT-LF | variant of remove | CAS on the word |
| `clht_gc.c` | list of thread versions, list of old tables | publish a version, collect, free | CAS on the list; TRYLOCK |
| ssmem (binary only) | per-thread free lists | alloc, free, collect | epochs |
| Hopscotch, Bitmap hopscotch | segments (lock, timestamp), buckets in delta-encoded lists or bitmaps | `containsKey`, `putIfAbsent`, `remove` | segment locks; reader checks the timestamp |
| RTM hopscotch `hopscotch.cpp` | buckets of hop bits, timestamp, lock | `contains`, `add`, `remove` | bucket locks or hardware transactions |
| Chained map | segments, linked lists | `containsKey`, `putIfAbsent`, `remove`, `resize` | segment locks |
| Cuckoo `cuckoohash_map.hh` | `hashpower`, slots, lock stripes | find, insert (path search and moves), erase, expansion | two or three bucket locks, all locks to expand |
| RCU table, TBB table, Java | tables of third-party libraries, or drivers of one | | |
| Locks, barrier, ssalloc | ticket/TAS locks; barrier counters; ring of 256 free objects | acquire/release; cross; alloc/free | |
| test programs | threads that call a table in a loop | | barrier at start and end |

How they interact: the test threads share one `clht_t` and call its functions;
`clht_lb_res` and `clht_lf_res` replace tables below running calls; the old
tables go to `clht_gc` and values and buckets to ssmem, both of which must not
reuse memory that a running call may read.

What is hard, and what correctness means:

* **lock-free readers** look at a slot (value, key, value again) while it is
  emptied, reused or moved, so a get must return a value its key had during the call;
* **updates that first look without a lock** must not insert a key twice and
  must not act on a table that has been replaced;
* **a resize below running calls** must lose no update, must be seen by all
  threads and must let those that wait go on;
* **a resize that is triggered, nested or given up** must always copy the table
  that is current;
* **version counters, rings and counts** at their limits.

All of them promise one thing to a caller: a map that changes atomically.
`hazards` in `PROJECT.json` lists the places where this can go wrong, by line.

## 2. Modules

| module | what it is |
|---|---|
| `KVMap` | the abstract specification: a map with put-if-absent, get, remove, in which every call takes effect or is justified at one instant between its call and its return |
| `ClhtLbRes` | CLHT-LB-RESIZE, one action per access to shared memory; its properties and inductive invariant |
| `ClhtLbRes_proofs` | theorems about `ClhtLbRes` and their proofs: who is where |
| `ClhtLbRes_map` | theorems about what the tables hold, and that `ClhtLbRes` implements `KVMap` |
| `MCClhtLbRes` | instances of `ClhtLbRes` for TLC |
| `ClhtLf` | CLHT-LF, one action per access to shared memory; its properties and inductive invariant |
| `ClhtLf_proofs` | theorems about `ClhtLf` and their proofs: slots and reservations, and that it implements `KVMap` |
| `MCClhtLf` | instances of `ClhtLf` for TLC |
| `ClhtLfRes`, `MCClhtLfRes` | CLHT-LF-RESIZE with the thread versions of `clht_gc.c`: resizes below lock-free updates |
| `ClhtLfRes_proofs` | theorems about `ClhtLfRes`: the wait for updates, the copies, and that it implements `KVMap` |
| `ClhtFixed`, `MCClhtFixed` | CLHT-LB, CLHT-LB-PACKED and CLHT-LB-LOCK-INS: one bin, with the variant as a parameter |
| `ClhtFixed_proofs` | theorems about `ClhtFixed` and their proofs: keys, slots and lock |
| `ClhtFixed_map` | the proof that the updates of `ClhtFixed`, and all answers but the excepted ones, are those of `KVMap` |
| `Hopscotch`, `MCHopscotch` | hopscotch hashing with lists, aligned to cache lines or not: one segment |
| `Hopscotch_proofs` | theorems about `Hopscotch`: types, lock and lists, and that it implements `KVMap` but for `Early` |
| `Cuckoo`, `MCCuckoo` | cuckoo hashing (libcuckoo): path search, moves, doubling, rehash |
| `Cuckoo_proofs` | theorems about `Cuckoo`: locks, places, doublings, and that it implements `KVMap` |

Each table's module composes with `KVMap`: `KV == INSTANCE KVMap WITH ...` is its
refinement mapping, and the property that uses it stands at the end of the module.

### KVMap

`map`, and for each thread its call and `stage` (idle, open, applied, done). A
successful put or remove is one `KVApply` step; a get, a refused put and a
failed remove answer from `seen`, the set of values the key had since the call
began. A call that changes nothing can always be put in the order at an instant
at which its answer was right, so `KVSpec` says exactly that the history is
linearizable, without guessing linearization points in advance.

### ClhtLbRes

| code | module |
|---|---|
| `clht_t`, `clht_hashtable_t` | `ht`, `resize_lock`, `status_lock`; functions from tables 1, 2, ... in the order of their creation |
| a chain of `bucket_t` | a sequence of keys and one of values for each head bucket; slots `1..Entries` are the head, the next `Entries` its `next`, and so on |
| `bucket->lock` of the head | `lock[t][b]`; chained buckets' locks are never used |
| local variables | `pc`, `tab` (`hashtable`), `ix` (the slot), `ret`, `resize`, `rs` (locals of `ht_resize_pes`), `nest` (frames of `ht_status`) |
| `clht_get` | `GetVal`, `GetKey`, `GetCheck`, `GetNext` |
| `bucket_exists` | `ExistsKey`, `ExistsNext` |
| `LOCK_ACQ` / `lock_acq_chk_resize` | `LockAcquire`, `LockResized`, `AwaitNewTable`, `Reread` |
| `clht_put` under the lock | `PutFound`, `PutVal` then `PutKey`, or `PutExpand` then `PutLink`; `Release` |
| `clht_remove` under the lock | `RemoveKey`, `RemoveMiss`; `Release` |
| `ht_status` | `StatusLock`, `Count`, `StatusUnlock` |
| `ht_resize_pes`, `bucket_cpy`, `clht_put_seq` | `ResizeOld`, `ResizeBusy`, `ResizeStart`, `MarkBucket`, `MarkedBefore`, `CopySlot`, `Swap`, `Publish`, `ResizeUnlock` |

What is merged: under a bucket lock a writer's search of the chain is one step
with its first write. Other writers are excluded by the lock (which
`UpdateExclusion` checks, without relying on it) and readers write nothing.
What is not merged: everything readers and resizers can interleave with, the
value and the key of a put, and the swap of `h->ht` and the store of `table_new`.

What is abstracted:

* keys are numbers, so that `key & hash` is computed and keys collide as in the code;
* a value is the number of the put that brought it. This is the assumption that
  ssmem does not hand out the memory of a removed value while a reader that saw
  it is still in its call; without it `val == val` in `clht_get` shows nothing;
* `ht_status` counts while others work: `Count` takes any number up to the slots of the table;
* memory is sequentially consistent. The code has no fences on x86 (they are
  for Tile), and relies on stores staying in order; the loads that could pass
  a store of the same thread follow an atomic instruction, or do not matter;
* `CLHT_HELP_RESIZE`, RTM and `CLHT_DO_CHECK_STATUS` are compiled out, and `CLHT_DO_GC` is 0.

### ClhtLf

| code | module |
|---|---|
| `bucket->snapshot` | `snapshot[b]`, a record of `version` and `map` |
| `bucket->key`, `bucket->val` | `key[b]`, `val[b]` |
| locals | `s`, `i`, `found` (`val` of the search, then its result; `removed` of a remove), `empty_index` (`None` for -1 and -2) |
| `clht_bucket_search`, which is also `clht_get` | `SearchVal`, `SearchState`, `SearchKey`, `SearchAgain`; `Searched` is what the caller does with the result |
| `clht_put` | `Snapshot`, the search, `PutFull`, `Reserve` / `ReserveFails`, `PutVal`, `PutKey`, `Publish` / `PublishFails`, `GiveBack` |
| `clht_remove` | `Snapshot`, `RemoveKey`, `RemoveVal`, `Remove` / `RemoveFails` |

No two accesses to shared memory are merged. What a compare-and-swap tells is
whether the whole word, states and version, is the one that was read
(`Swaps`, `SwapFails`). The store of `GiveBack` is a plain store of one byte of the
word, and is modelled as that. Values are fresh as in `ClhtLbRes`. Versions
are natural numbers: the 32 bits of the code would wrap after 2^32 inserts into one bucket.

### ClhtLfRes

| code | module |
|---|---|
| `clht_t`, `clht_hashtable_t` | `ht`, `resize_lock`, `status_lock`; `num_buckets`, `version` and `table` of each table |
| `ht_ts_t` of each thread | `ts`; `MAX_VERSION` stands for the -1 of `clht_gc_thread_version_max` |
| `CLHT_CHECK_RESIZE` | `CheckResize`, `PublishVersion` |
| `clht_get` | `ReadTable`, `GetVersion`, `Get` |
| `clht_put` | `PutFound`, `PutFull` (retries, then `ht_status`), `PutReserve`, `PutPublish`; `NoUpdate` at the end |
| `clht_remove` | `clht_remove`, `NoUpdate` |
| `ht_status` | `StatusLock`, `Count`, `StatusUnlock` |
| `ht_resize_pes` | `ResizeLock`, `Start`, `Grace` / `GraceOver` (`clht_gc_min_version_used`, one thread a step), `Copy` (`bucket_cpy`, `clht_put_seq`), `Copied`, `Swap`, `Release` |

A bucket operation is one step where `ClhtLf` has many: `ClhtLf` shows that a bucket is a
linearizable map in itself, whatever interleaves with it, so what is left to
look at is which table a step hits. The reservation and the publication of a put are
still two steps, because a copy can come between them. Table versions keep their
order only: a table has the one of its predecessor plus 2, a resize adds 1.

### ClhtFixed

| code | module |
|---|---|
| the chain of buckets of a bin | `linked`, `key`, `val`, `last` (packed), `lock` of the first bucket |
| locals | `b`, `j` (where it looks), `found` (`val` of a get), `bu_last`, `empty`, `stores` (what it still has to write) |
| `clht_get`, `bucket_exists` | `ReadLast`, `LookVal`, `LookKey`, `LookAgain` |
| `LOCK_ACQ`, `LOCK_RLS` | `Lock`, `Unlock` |
| `clht_put` under the lock | `SearchPut`, `SearchOn`, `SearchEnds`, then one `Store` for each store in the order of `PutStores` |
| `clht_remove` of lb and packed | `SearchRemove`, then the stores |
| `clht_remove` of lock_ins | `Block`, `Take`, `Free` |

The order of an update's stores is where the three differ, and what
lock-free readers see; it is data of the module. Bins share nothing. The memory of a
new bucket holds `Junk` until it is written: `memalign` does not clear it. Puts that
need a bucket beyond `MaxBuckets` wait; with three puts and one slot per
bucket none does.

### Hopscotch

| code | module |
|---|---|
| `_table` | `tbl`: first and next bucket, hash and key of each |
| `_lock`, `_timestamp` of the segment | `lock`; `stale`, for each reader whether the timestamp has changed since it read it |
| `containsKey` | `Stamp`, `ReadFirst`, `ReadHash`, `ReadKey`, `ReadNext`, `CheckStamp` |
| `putIfAbsent` | `putIfAbsent` (search and choice of the place under the lock), then `Store` by `Store`: `add_key_to_begining_of_list`, `add_key_to_end_of_list` |
| `remove` | `remove`, the stores of `remove_key`, `optimize_cacheline_use` |

One segment: lists that leave their segment are not modelled. Of the timestamp
only "changed" is kept, so its 2^32 wrap is out of sight. Deltas are shown as the bucket
they lead to. If there is no free bucket the program exits (`exit`), and so does the model.

### Cuckoo

| code | module |
|---|---|
| `buckets_`, `hashpower_`, `locks_`, `expansion_lock_` | `bucket`, `hashpower_`, `lock`, `expansion_lock_` |
| `snapshot_and_lock_two`, `lock_two`, `lock_three`, `snapshot_and_lock_all`, `check_hashpower` | `Snapshot`, then one `TakeLock` per lock; the check of the hashpower is with the first |
| `find`, `erase` | `find`, `erase` |
| `cuckoo_insert`, `run_cuckoo`, `slot_search`, `cuckoopath_search`, `cuckoopath_move` | actions of the same names, a bucket or a move a step; `PrepareMove`, `AddToFreed`, `Throws` |
| `cuckoo_fast_double`, `move_buckets` | `BeginDouble`, `Double`, `move_buckets` (one lock stripe a step, released at once) |
| `rehash`, `cuckoo_expand_simple` | `Snapshot`, `TakeLock`, `Rehash` |

Work done while all needed locks are held is one step with their release: nobody else can see
between. Hash and tag of each key are constants. The code only masks hashes, xors them
with tags and sets the bit a doubling adds; it never adds or compares them, except to
take locks in ascending order. So such a number is shown as the set of the bits that
are one in it: `x & hashmask` is `x \cap Bits(hp)`, `index ^ hash_of_tag` the symmetric
difference, the stripe `i % kNumLocks` is `i \cap Bits(LockBits)` (kNumLocks is a
power of two), and `Below` compares by the highest bit in which two numbers differ.
Not modelled: `update`, `update_fn`, `upsert`, `clear`, `reserve` and `locked_table`.

## 3. Properties and runs

`KVMap` has no property of its own: it is the property `Linearizable` of the tables,
and the one behind the properties of the other tables whose names begin with it.

Properties of `ClhtLbRes`:

* `Linearizable` - it implements `KVMap` under the refinement mapping at the
  end of the module: `map` is what a look-up in `h->ht` finds.
* `UniqueKeys` - no chain holds a key twice.
* `UpdateExclusion` - threads inside a bucket lock exclude each other, and a
  lock that says "update" has an owner.
* `UpdatesHitCurrentTable` - no thread writes to a table that has been replaced.
* `ResizesCurrentTable`, `ResizeKeepsContents` - a resize copies the current
  table, and all of it.
* `MarksStay` - a resize mark is never erased by the plain store of a release.
* `CallsReturn` - every call ends.
* `TypeOK`, `IndInv` and `MapInv`, the invariants of the proofs (see 5).

| run | instance | what it shows |
|---|---|---|
| `two` | 2 threads, all functions; 2 keys; 1 slot per bucket; 3 puts; tables of 1 and 2 buckets | everything interleaves with everything, with chains and resizes |
| `again` | 2 writers, 3 keys, tables of 1, 2 and 4 buckets; two resizes in a row, which two threads bring about | resizes that start while another ends, nested resizes, factors 2 and 4; two threads in `ht_status` at once |
| `wide` | 2 slots per bucket, start with one bucket, keys that collide modulo 2 or not | slots freed and reused in the middle of a bucket, copies that spread over buckets; checks `MapInv`, of which `UniqueKeys` is a part |
| `live` | writer, writer that removes, reader; 2 puts, fairness | every call returns; what a reader sees while two threads update and one of them resizes |
| `lf_two` | 2 threads, all functions; 2 keys in one bucket of 2 slots; 3 puts | all races of puts, gets and removes on the slots, two reservations for one key among them |
| `lf_live` | 2 writers, one of which removes; 3 puts; fairness | every call returns; `IndInv` |
| `lfres` | writer that reads, writer that removes; 2 keys, 1 slot per bucket, 3 puts, tables of 1, 2 and 4 buckets, one retry; fairness | two resizes below every kind of call |
| `lfres_lost` | 2 threads, all functions; 2 tables | **violated** `MaxMeansNoUpdate`, see 4 |
| `fixed` | 2 threads, all functions; all three variants; 2 keys, 1 slot per bucket, up to 3 buckets, 3 puts | all races of searches without the lock and updates, with chains |
| `hop` | a thread that calls everything, one that puts and removes; 3 keys, 6 buckets in lines of 2; aligned or not | lists rearranged below readers |
| `cuckoo` | 2 threads, 4 keys, 1 slot per bucket, tables of 2 and 4 buckets, 4 stripes, 4 puts; four workloads; fairness | paths found without locks against moves, removes, doublings, and rehashes that overtake no doubling |
| `cuckoo_rehash` | an insert of three keys, a rehash to 8 buckets | **violated** `InPlace`, see 4 |

Properties of `ClhtLf`: `Linearizable`, `UniqueKeys`, `CallsReturn` as above;
`ReservationsOwned` - a slot in state `INSRT` belongs to exactly one put;
`ValidSlotsStand` - a slot that stays valid keeps key and value;
`VersionTellsPuts` - no slot becomes valid under a version that stays.
Properties of `ClhtLfRes`:

* `GraceForVisible` - a thread that is in a table which is copied or replaced
  has the version "no update": the wait misses no thread whose version it can see.
* `ResizeKeepsContents` - the new table is a copy when it is swapped in, unless an update was
  overtaken. The copy puts entries into the free slots of a bucket and drops those that find none, as
  `clht_put_seq` does; with a hash that lets two buckets feed one (`HigherBits`) it overflows.
* `LinearizableUntilOvertaken` - every step is one of `KVMap`, until an update is in a table that
  is copied or replaced (`overtaken`). Such updates happen (see 4) and are the
  only source of wrong answers.
* `ResizeEnds` - a resize ends, unless an idle thread holds it up (`HeldUp`): one that has
  called nothing, or a get last. A get publishes the version of its table and never
  takes it back, so the resizer waits until that thread calls again.

Properties of `ClhtFixed`: `UniqueKeys`; `Packed` - a packed chain has no holes;
`UpdatesLinearizable` - every update and answer is one of `KVMap`, with two exceptions
(`MayBeWrong`): of packed, any answer given without the lock (see 4); of lb, a get that
read the value of a new bucket before it was written.

Properties of `Hopscotch`: `ListsSound` - when the lock is free, every entry is once
in the list of its home and in no other, and free buckets are in no list;
`LinearizableOrEarly` - as `Linearizable`, except that `containsKey` may answer "present"
while a put of the key is between filling its bucket and linking it (`Early`):
a reader that stands on a bucket that was taken out of its list sees it there.
"Absent" is never wrong, which is what the timestamp is for.

Properties of `Cuckoo`: `UniqueKeys`; `LinearizableOrThrows` - as `Linearizable`, and
an insert that throws (the table may not grow) has changed nothing;
`SoundWithoutRehash` - if the behaviour's
workload calls no rehash, the inductive invariant of the proofs holds (see 5), of which
`InPlace` is a part; `SomeCallReturns` - while calls are open, one of them returns.
`InPlace` - every entry is where a look-up of its key finds it, in the middle of a doubling
too - is what the comments on taking all the locks amount to. It fails when a rehash overtakes
a doubling, and then the map properties fail with it: `cuckoo` shows them
for sizes at which that does not happen, the theorems for workloads without rehash.

In the instances of `ClhtLf` a bucket has as many slots as there are keys. With
fewer, a put spins in a full bucket until a remove comes, which the header of
`clht_lf.c` says ("the operation might never complete"); so `CallsReturn` is
stated for this case. With it, the third put of `lf_live` shows that
reservations do not leak: if `GiveBack` forgot its slot, it would wait for ever.

Bounds, all CONSTANTS or named in a guard: `MaxPuts` (calls of put, and so
values), `MaxTables`, `MaxBuckets`, and `MaxFactor` = 256 (growth of one resize).
One slot per bucket and one bucket in the first table make the second put
create a chained bucket, which is the threshold of the code
(`CLHT_PERC_EXPANSIONS` * `num_buckets`), so that one resize and the triggering
of a second fit in three puts. The keys of `two` and `live` collide in
every table; those of `again` collide in all of them, so that a new table can
be full as soon as it is filled; those of `wide` separate. Symmetry is used
in `two`, `again`, `lf_two` and `fixed`, whose threads have the same functions, and with no liveness property. Two runs do
not check for deadlock: the threads of `again` only put, and stop when the puts are used up; in
`hop` the program exits when a put finds no place.
The bounds cut runs only before a thread takes a lock that others wait for
(`Count`, before the resize is begun) or, in `ResizeStart`, where the table
bound is reached; the instances of `live` reach neither with a thread waiting.

In `ClhtLfRes` one key alone fills a bucket of the first table, so the second put finds
it full, retries once and resizes; the keys part in the table of 2 buckets. `Count`
does not begin a resize in the last table. In `hop` the homes of the keys are in the middle one of three
lines, so that entries are placed in their line, ahead and behind, and a remove
finds one to bring back. In `cuckoo` all keys share both buckets of the first table,
and cycles of the second make paths of several moves. `Fill` inserts all keys while one is
removed or looked up, `Duel` lets both insert, `Stale` and `Resizes` change the size of the table below
searches and calls. A rehash asks for at most 4 buckets, which is what a doubling under way makes as well; in
`cuckoo_rehash` it asks for 8.

Fairness: `FairSpec` assumes weak fairness of each thread's steps while a call
is open: the operating system runs every thread. Nothing is assumed of the order
in which spinning threads get a lock. `CallsReturn` therefore would not hold in
an instance in which other threads can take a lock again and again; puts are
bounded, and gets take no lock. What it shows is that nobody is left behind by
a resize: no wait for a `table_new` that is never set, no lost lock.
`FairSpec` of `ClhtLfRes` and `Cuckoo` is the same assumption. The spinlocks of `Cuckoo`
are not fair either, and neither gets nor removes are bounded, so a given call can starve;
hence only "some call returns", which a deadlock of stripes, expansion lock and
path search would break.

Every property of every run has a mutant in `PROJECT.json`: a changed form of
one action, in the module next to the original, under which the property fails.

## 4. Where code and comments disagree

* **`lfres_lost`** - `clht_gc.c:71-75` says that the maximum version indicates "that there is no
  ongoing update operation". `CLHT_CHECK_RESIZE` (`clht_lf_res.h:171`) looks at `resize_lock` once and
  publishes a version only if it has to wait. A thread that finds it free goes into its update with
  the maximum of its last one. If a resize begins then, it does not wait for that thread; an
  update of a bucket that is copied already is lost. This run shows
  the overlap; `lfres` shows that without an overlap no answer is wrong.
* **`cuckoo_rehash`** - `cuckoohash_map.hh:881-883` says that "after taking all the locks, it is okay to
  change the buckets_ vector and the hashpower_", and `cuckoohash_map.hh:1754-1756` that it takes all
  locks "since no other operations can change the table during expansion". `cuckoo_fast_double` compares
  `hashpower_` with the size it starts from (line 1706), then takes all locks (line 1714), and sets `hashpower_` to
  that size plus one. `cuckoo_expand_simple` takes all locks, but not `expansion_lock_` (line 1764). In the trace an
  insert finds the table of 2 buckets full and passes line 1706; a rehash makes 8 buckets of it; the insert
  gets the locks, doubles the vector and sets `hashpower_` to 2. A key that the rehash
  put into one of the upper buckets is in neither of its homes of a table of 4, and nothing moves it there. The benchmark calls no rehash.

Met while modelling, and not counted as findings because no line of the repository
promises otherwise:

* a get of CLHT-LB-PACKED scans downwards from the `last` it has read, without the lock. After a remove has copied
  the last entry into the hole and lowered `last` (`clht_lb_packed.c:352`), such a get still finds
  the key in its old place, which a put may meanwhile fill for another key: value first, then key. If the put's value comes between the
  get's two looks at the value, the get returns 0 for a key that is there all the time; if it comes before the
  first one, the get returns that value, which is another key's. In a chain the last entry may
  come from a later bucket, into one that the get has left, and is missed. `MayBeWrong` admits these answers;
* a hopscotch reader may see a key early (`Early`), a get of CLHT-LB what was in the memory of a
  new bucket (`MayBeWrong`); both exceptions are exact in the properties;
* as read, not modelled: CLHT-LB-LINKED reads `tot_hops` before its locks and can insert a key
  twice; two hopscotch segments can take the same free bucket; `BitmapHopscotchHashMap` locks
  a second segment in no fixed order; `BUSY` of the RTM table equals an empty key. All are in `hazards`.

## 5. Theorems

`ClhtLbRes_proofs` proves, for every set of threads and keys, every number of
slots per bucket and every bound:

| theorem | statement |
|---|---|
| `Invariance` | `Spec => []IndInv` |
| `TypeCorrect` | `Spec => []TypeOK` |
| `Exclusion` | `Spec => []UpdateExclusion` |
| `NoUpdateOfOldTable` | `Spec => []UpdatesHitCurrentTable` |
| `NoResizeOfOldTable` | `Spec => []ResizesCurrentTable` |
| `MarksForEver` | `Spec => MarksStay` |

The assumptions are the four named ones of `ClhtLbRes` (keys are positive
numbers, at least one slot per bucket, bounds that admit the first table).

The argument. A thread may hold a bucket lock only in a bucket that is not
marked. If all buckets of all tables before `ht` are marked (`OldTablesMarked`),
updates can only be in the current table. The marks are complete at the swap
because one resizer marks bucket after bucket and nobody removes a mark
(`OneResizer`). That needs the resizer to work on the table that is current,
and this is the delicate point: `ht_resize_pes` reads `h->ht` *before* it takes
`resize_lock`, so a thread could read a table, another could finish a resize,
and the first could then get the lock and copy a dead table.
`resize_lock` does not prevent it. What does is `OneTrigger`: `num_expands` is
incremented atomically and compared with `==`, so that at most one thread is
ever on its way to resize the current table, from the creation of the chained
bucket that reaches the threshold until the swap (or, if the new table is
already full, on to the nested resize). The mutant `PutExpandFrom`, which
compares with `>=`, breaks `ResizesCurrentTable`, `IndInv` and `Linearizable`.

`IndInv` is the conjunction of `TypeOK`, `InRange` (cursors point into the
chains), `UpdateExclusion`, `OldTablesMarked`, `OneResizer` and `OneTrigger`. Each
part has its own lemma that steps preserve it, with a case per action; lemmas at
the beginning say what the actions do to chains and to lock words.

`ClhtLf_proofs` proves, for every set of threads and keys and every number of
slots and buckets:

| theorem | statement |
|---|---|
| `Invariance` | `Spec => []IndInv` |
| `TypeCorrect` | `Spec => []TypeOK` |
| `Reservations` | `Spec => []ReservationsOwned` |
| `NoDuplicates` | `Spec => []UniqueKeys` |
| `ValidForReaders` | `Spec => ValidSlotsStand` |
| `VersionsTell` | `Spec => VersionTellsPuts` |

The assumptions are the four named ones of `ClhtLf`. The argument for
`NoDuplicates`: a put publishes under the version of the snapshot it searched
with; as long as that version stands no slot has become valid, so what it did
not find is not there. That would be all if the search looked at every slot.
It does not: where the key of a slot is the one looked for, and its value is not the
one read first, `clht_bucket_search` returns 0 at once, although the slots that
follow may hold the key. `Knowledge` says why a put is not misled. Such a
slot was valid in the snapshot. If it still held the key it had then, the key
can be in no other slot. If it got the key since, its owner reserved it under
the same version, so after a search of its own that did not find the key. `IndInv`
adds to this `TypeOK`, `Phases` (which call is where), `ReservationsOwned` and
`Filled` (what reserved and valid slots hold). There is a lemma for what each
writing action does to the slots, and one for each part of the invariant.

### The table as a map: `ClhtLbRes_map`

| theorem | statement |
|---|---|
| `MapInvariance` | `Spec => []MapInv` |
| `NoDuplicates` | `Spec => []UniqueKeys` |
| `ResizesLoseNothing` | `Spec => []ResizeKeepsContents` |
| `IsAtomicMap` | `Spec => Linearizable` |

`MapInv` is `ContentsInv /\ AnswersInv`, inductive together with `IndInv`. `ContentsInv` says
what is in the tables: keys are in their buckets (`KeysInPlace`), tables not yet created are
empty (`FreshTables`), `UniqueKeys`, marks belong to the resizer or to a finished resize
(`MarksOfResizer`), what the resizer has passed is in the new table and nothing else
(`CopyFaithful`), and a put that is about to write has a key that is not in its chain
(`Phases`, `PutsReady`). `UniqueKeys` and the copy need each other: a copy of a chain
without duplicates has none, and a put checks only the chain of the table it is in, which
is why updates in a marked bucket must be impossible (`IndInv`).

`AnswersInv` is about the history: no value is seen before it was put (`FreshValues`), `seen`
holds what the map says now (`SeenNow`); a get that has passed the slot of its key, or is in a
table that was replaced, has seen that the key was absent, or had the value it read (`NotMissed`,
`ValueOfKey`), and a refused put or a failed remove has its reason in `seen` (`Refused`). Every
step is then a step of `KVMap` or a stutter: the put at `PutKey` or `PutLink`, the remove at
`RemoveKey`, all others leave the map alone, the swap of a resize because of `CopyFaithful`.

### The lock-free table as a map: second part of `ClhtLf_proofs`

| theorem | statement |
|---|---|
| `AnswersInvariance` | `Spec => []AnswersInv` |
| `IsAtomicMap` | `Spec => Linearizable` |

The delicate answer is "absent". A get that leaves a slot behind has seen it invalid, with
another key, or with a value that changed in between; in the last case the value it read was
valid in the snapshot and has been removed since, so the key was absent at some
instant of the call although a later put may have brought it back (`NotMissed`, `TakenSince`,
`Compared`). `Removes` and `Unanswered` say the same of removes, which clear only the slot that they found.

### `ClhtLfRes_proofs`

| theorem | statement |
|---|---|
| `Invariance` | `Spec => []IndInv` |
| `TypeInvariance` | `Spec => []TypeOK` |
| `GraceWorks` | `Spec => []GraceForVisible` |
| `ResizesLoseNothing` | `Spec => []ResizeKeepsContents` |
| `AnswersInvariance` | `Spec => []AnswersInv` |
| `IsAtomicMap` | `Spec => LinearizableUntilOvertaken` |

The grace period: a thread that can be in an update has published at most the version its table
was created with (`Base`), or still shows the maximum. A resizer adds 1 to the version of
the table before it waits. If it has seen a thread with a newer version, that thread has seen the
resize, and if it has seen the maximum, the thread was in no update then (or in one that
overtakes: it is in `overtaken` as soon as the table is copied). `Waited` and `Published` carry this
through the scan of the threads. Unless something is overtaken, no update is in a table that
is copied or replaced (`Watched`), so the copy stays one (`Copies`). No bucket
of the new table overflows: a key's bucket there, modulo the old size, is its old bucket (`ModTwice`), so it
is fed by that one only, and is free until then (`NotFed`); each key comes once (`KeysOnce`).
While nothing is overtaken, updates work in `ht`, and a table that was replaced is frozen with the
contents the map had at the swap. So a get in an old table answers what was right
at an instant of its call (`Answers`). `Reserved` says that a slot reserved by a put has a key no other slot gets.

### `ClhtFixed_proofs`

| theorem | statement |
|---|---|
| `Invariance` | `Spec => []IndInv` |
| `TypeInvariance` | `Spec => []TypeOK` |
| `NoDuplicates` | `Spec => []UniqueKeys` |
| `StaysPacked` | `Spec => []Packed` |

For the three variants at once, with the assumptions that keys are positive and 0 is no thread.
The stores of an update come one by one while others search, so the invariant says what is
true between any two of them. `OneCopy` allows a key two places while a packed remove, having copied the last
entry into the hole, has not yet lowered `last`; `NoHoles` allows a place without key
where a remove has cleared it and the last entry is not there yet. `Searching`
says that a search under the lock has not passed its key, `Storing` that the key a put writes is nowhere
and where its place is, `Filled` that a packed chain is full up to one bucket and empty after it,
`Fresh` that buckets not yet linked have no key.

### The tables of a fixed size as a map: `ClhtFixed_map`

| theorem | statement |
|---|---|
| `AnswersInvariance` | `Spec => []AnswersInv` |
| `IsAtomicMap` | `Spec => UpdatesLinearizable` |

`AnswersInv` is inductive together with `IndInv`. It has three parts.

* Values. What a put brings is not in memory before it is stored (`FreshValues`), so a get that reads the
  same value twice, before and after the key, has read the value of one entry; the `Junk` of
  a new bucket is the only other thing it can read. Every entry has its value, except
  that of a put which writes it after the key (`HeldValues`, `KeyFirst`: lb, in a new bucket).
* Writers. `Writes` says what is at the place an update works on between its stores: a remove of
  packed still has the value of the last entry in both places when it lowers
  `last`, which is why the map does not change while an entry moves. `Blocks` says that a place with
  `KEY_BLCK` belongs to one remove of lock_ins, although those take no lock and the puts do.
* Searches (`Looking`, not of packed): the key is at or after the place they look at, or was absent at some
  instant since the call began, and a get that has found it knows that its value was right at one. This
  is where entries that move would break it, so packed is excepted; a new bucket of lb
  linked before it is written is the other exception (`Misread`).

With these a put binds an absent key with its store of the key (in packed, of `last`), and a remove
unbinds a present one with its "clear" or its compare-and-swap and returns the value it had; every other step
leaves `AbsMap` alone. An answer is justified by `seen`, or is one of `MayBeWrong`.

### `Cuckoo_proofs`

| theorem | statement |
|---|---|
| `Invariance` | `Spec /\ OnlyMapCalls => []IndInv` |
| `WithoutRehash` | `Spec => []SoundWithoutRehash` |
| `TypeInvariance` | `Spec /\ OnlyMapCalls => []TypeOK` |
| `NoDuplicates` | `Spec /\ OnlyMapCalls => []UniqueKeys` |
| `StaysInPlace` | `Spec /\ OnlyMapCalls => []InPlace` |
| `AnswersInvariance` | `Spec /\ OnlyMapCalls => []AnswersInv` |
| `IsAtomicMap` | `Spec /\ OnlyMapCalls => LinearizableOrThrows` |

For any threads, keys, hashes, numbers of slots and stripes, limits of the search and sizes of the
table. `OnlyMapCalls` says that no thread of this behaviour has a rehash among its calls: with one they can be false (`cuckoo_rehash`),
and the benchmark calls none. The run `cuckoo` has such behaviours and others. Tables grow all the same, by doublings.

The argument. Whoever holds a lock works for the current `hashpower_` (`Locking`): it looked
after it took the first one, and a doubling has all locks when it changes it. So who has the locks
of the two homes of a key knows all places where it can be, and who has those of a bucket and of
the one its entry moves to (`Path`: each bucket of a path is the other home of the key noted before it)
leaves the entry in one of its homes. Paths may be as stale as they like; what is looked at under
the locks is enough (`CanMove`, and `Found` once more in `AddToFreed`).

The doubling is the delicate part, because it lets locks go before it is done. `Reachable` says where
keys are meanwhile: in their new homes, or in their old ones behind a lock of the doubling. An insert that
has the locks of the new homes of its key must not miss the key in an old one. A new home
that is not an old one is an old one with the new bit set, and its stripe is that
of the old one or has the new bit too (`LocksGrow`). In the first case the lock of the old home is held by
the insert, so that bucket is moved already; in the second the stripe is one that the doubling
keeps until all stripes of the old half are released (`Doubling`, `Releasable`). And
no entry is overwritten: a bucket of the new half is empty as long as the one it is filled from is locked,
and entries that leave the same bucket get slots by their rank (`Ranks`, `MigrateEntries`).

`AnswersInv` adds that `seen` holds what the map says now. The map is what the entries say
(`MapOfEntries`), moves and doublings only rearrange them (`MapStays`), so an insert binds, an erase unbinds and
all other steps leave the map alone.

### `Hopscotch_proofs`

| theorem | statement |
|---|---|
| `Invariance` | `Spec => []IndInv` |
| `TypeInvariance` | `Spec => []TypeOK` |
| `ListsStaySound` | `Spec => []ListsSound` |
| `AnswersInvariance` | `Spec => []AnswersInv` |
| `IsAtomicMapOrEarly` | `Spec => LinearizableOrEarly` |

For any threads, keys, homes, numbers of buckets and sizes of a cache line that divide them,
aligned or not; the assumptions are those of `Hopscotch`. 0 must be no thread, as it means "nobody".

Lists. What a bucket's links lead to is given by a recursive function (`Walk`), and `ListsSound` speaks of its
values. The proof describes a list from the other side: `Sound(T, pos)` says of a table `T` and an assignment
`pos` of numbers to entries that the entry in the first link of a bucket has position 1, and the one in the
`next` of another entry has its position plus 1. Then the walk meets exactly the entries of the home
bucket, in the order of `pos` (`WalkFinds`, `ListEntries`). That it meets all of them is an
induction on the position, made by the least counterexample (`Least`); that it does not run out of steps first is
the pigeonhole principle: no list has more entries than there are buckets (`PositionBound`).

Updates. `TypeOK` and `ListsSound` hold at every step only because a thread that holds the lock knows what it will
store. `Leads(t, S, T)` says that the stores `S` make `T` of the table `t`; `IndInv` says that the stores that are left to
the holder of the lock make a sound table of the one there is, and with no holder the table is sound itself (`SoundTable`,
`Updating`). So every `Store` takes the next one off the list, and the work is in the two places where stores are
planned: the search of a put or a remove, and the choice of the entry to move. There
`PutLeads`, `RemoveLeads` and `MoveLeads` show that what is planned adds, takes out or replaces one entry, with new positions.

Readers. They walk while stores are half done, when no list need be sound, so `AnswersInv` does not speak of lists.
`Meets(t, a, k)` says that every set of buckets that has `a` and is closed under `next` has an entry of `k`: who follows
the links from `a` comes across one, in whatever order the stores are. The map itself is read that way (`MapMeets`).
`AnswersInv` says of a reader that will not start over and has not seen its key absent that it meets its key
from where it is (`ReaderOK`); of the holder of the lock, how far its stores are and what the table looks like then (`WriterOK`:
`PutStage`, `RemoveStage`, `MoveStage`); of the table, that its entries are the map's keys, but for the one that a put
has not linked yet (`MapOfEntries`). The point of the order of the stores is `Kept`: a store keeps what a reader meets, unless
that reader stands on the bucket that is cleared or unlinked. A remove clears the hash while the links through the
bucket stay; a move links the copy before it clears the original; and both change the timestamp *before* they touch the `next` of a
bucket no link leads to any more, so that by then whoever still stands there starts over (`Left`). Without that store a reader
would take the end of the cut list for the end of its own. A put fills a bucket no link leads to. A reader may still
be on that bucket from earlier, and then it finds the key before it is linked: that is `Early`, and
`ReaderOK` says that nothing else makes a reader find a key that was never in the map.

`StoreEffect` sums up: the last store of a put binds its key, the first of a remove unbinds it, all others leave the map
alone. `QuietAnswers` does the same for the steps that store nothing. The refinement is then a case per action.

### Model-checked only

The rehash of `Cuckoo`; and `CallsReturn`, `ResizeEnds` and `SomeCallReturns`, since liveness under fairness is beyond the
prover, as is ENABLED.

## 6. What is not modelled

* drivers, statistics, printing, build files;
* TBB, Java, RCU and ssmem: third-party code, or not in the repository as source. What
  the models need of ssmem is stated above;
* `clht_size`, `clht_size_mem`, `clht_print`: they read without locks and change nothing;
* `clht_gc_collect`: `clht_gc.c` is compiled with the header of CLHT-LB-RESIZE, where `CLHT_DO_GC` is 0,
  so that it returns at once and no table is freed while threads run. Its thread versions are in `ClhtLfRes`;
* CLHT-LF-ONLY-MAP-REM and CLHT-LB-RESIZE-NO-NEXT: they differ from `ClhtLf` and
  `ClhtLbRes` in details of the same actions, and would need a second copy of each;
* CLHT-LB-LINKED, `BitmapHopscotchHashMap`, hopscotch lists over several segments, the
  chained map: several locks per update, with the weak points listed in 4 and in `hazards`;
* the RTM table: its interleavings are those of the processor's transactions;
* locks, barrier, `ssalloc`: a few instructions each, used by the test programs. The locks
  of the tables are part of their models;
* weaker memory models (Tile): the fences there are the code's own answer;
* wrap-around of 32-bit counters: `num_expands`, `num_buckets`, bucket
  versions and hopscotch timestamps would need 2^31 buckets or 2^32 updates.

The vendored code (TBB, cityhash, atomic operations, two copies of the hopscotch
framework and of libcuckoo) is most of the repository's lines.

## 7. Plan

What is left:

* the two variants of CLHT that 6 names, as parameters of `ClhtLf` and `ClhtLbRes`;
* hopscotch lists that leave their segment: `ListsSound` and `AnswersInv` would have to hold for
  several holders of locks at once, and with them the free bucket two of them may take (see 4).
