------------------------------- MODULE Cuckoo -------------------------------
(***************************************************************************)
(* The cuckoo hash table (src/cuckoo/src/cuckoohash_map.hh): a key is in   *)
(* one of two buckets, or nowhere.  An insert that finds both full looks,  *)
(* breadth first, for a path of entries that can each move to their other  *)
(* bucket, moves them from its end, and doubles the table if there is none.*)
(*                                                                         *)
(* Buckets are protected by striped spinlocks, always taken in ascending   *)
(* order.  The search and the moves hold locks for a step at a time only:  *)
(* what they saw may be gone.  A doubling takes all the locks, changes     *)
(* hashpower_ and lets each lock go as soon as its buckets are moved, so   *)
(* every lock that is taken is followed by a look at hashpower_.           *)
(*                                                                         *)
(* Hashes, buckets and locks are masked, xored and joined bit by bit, never*)
(* added: such a number is shown as the set of the bits that are one in it.*)
(*                                                                         *)
(* Taking a lock is a step; what is done while one holds all the locks it  *)
(* needs is one step with the release of those no longer needed.           *)
(***************************************************************************)
EXTENDS Integers, Sequences, FiniteSets

CONSTANTS
  Threads,           \* the threads, each with one call open at a time
  Workloads,         \* for each workload, the calls each thread makes
  Keys,
  Hash, Tag,         \* hashed_key; hash_of_tag of alt_index, which is odd
  LockBits,          \* the bits of kNumLocks - 1
  SLOT_PER_BUCKET,
  MAX_BFS_PATH_LEN,
  MAX_CUCKOO_COUNT,
  MinHashpower,      \* hashpower_ of the new table
  MaxHashpower,      \* maximum_hashpower_
  MaxPuts            \* bound: calls of insert

None == 0            \* no key, no value, no thread
Vals == 1..MaxPuts   \* the n-th call of insert brings value n

(* The bits of the numbers below 2^n, and those numbers; index ^ other.     *)
Bits(n)    == 0..(n - 1)
Numbers(n) == SUBSET Bits(n)
Xor(i, j)  == (i \ j) \cup (j \ i)

Slots == 1..SLOT_PER_BUCKET
Locks == Numbers(LockBits)                      \* 0..kNumLocks - 1
Empty == [key |-> None, val |-> None]
Entry == [key : Keys, val : Vals]

(* The functions called: find is get, insert put, erase remove.             *)
MapCalls == [op : {"put", "get", "remove"}, key : Keys, val : Vals \cup {None}]
Calls    == MapCalls \cup [op : {"rehash"}, key : {None}, val : Nat]
Idle     == [op |-> "idle", key |-> None, val |-> None]

Requests == [op : {"put", "get", "remove"}, key : Keys, val : {None}]
            \cup [op : {"rehash"}, key : {None}, val : Nat]

ASSUME ThreadsAssumption == None \notin Threads
ASSUME KeysAssumption ==
  /\ Keys \subseteq Nat \ {0} /\ IsFiniteSet(Keys)
  /\ Hash \in [Keys -> SUBSET Nat] /\ Tag \in [Keys -> {bits \in SUBSET Nat : 0 \in bits}]
ASSUME SizesAssumption ==
  /\ {SLOT_PER_BUCKET, MAX_BFS_PATH_LEN, MinHashpower, MaxHashpower} \subseteq Nat \ {0}
  /\ MaxHashpower >= MinHashpower /\ MaxPuts \in Nat
  /\ LockBits \in 0..16 /\ MAX_CUCKOO_COUNT \in Nat /\ MAX_CUCKOO_COUNT >= 4
ASSUME WorkloadsAssumption == Workloads \subseteq [Threads -> SUBSET Requests]
-----------------------------------------------------------------------------
(* Buckets and locks.                                                       *)
hashsize(hp) == 2 ^ hp
lock_ind(i)  == i \cap Bits(LockBits)

index_hash(hp, k)   == Hash[k] \cap Bits(hp)
alt_index(hp, k, i) == Xor(i, Tag[k]) \cap Bits(hp)

Homes(hp, k) == <<index_hash(hp, k), alt_index(hp, k, index_hash(hp, k))>>
HomeSet(hp, k) == {Homes(hp, k)[1], Homes(hp, k)[2]}

(* The locks of some buckets.                                              *)
LocksOf(is) == {lock_ind(i) : i \in is}
-----------------------------------------------------------------------------
VARIABLES
  work,        \* the workload
  (* the table *)
  bucket,      \* buckets_
  hashpower_,
  lock,        \* locks_: the thread that has it
  expansion_lock_,
  (* per thread: where it is and its local variables *)
  pc, call,
  hp,          \* the hashpower it works with
  want,        \* the locks it still has to take
  goal,        \* where it goes on once it has them
  q,           \* b_queue of slot_search, the b_slot it works on first
  tried,       \* the slots of that one it has looked at
  path,        \* CuckooRecords
  ret,
  (* history *)
  puts,
  seen         \* the values the key of the open call had since its start

table == <<bucket, hashpower_, lock, expansion_lock_>>
locals == <<hp, want, goal, q, tried, path, ret>>
state == <<table, pc, call, locals, puts>>
vars == <<work, state, seen>>

NoBuckets(n) == [i \in Numbers(n) |-> [s \in Slots |-> Empty]]

Init ==
  /\ work \in Workloads
  /\ bucket = NoBuckets(MinHashpower)
  /\ hashpower_ = MinHashpower
  /\ lock = [l \in Locks |-> None]
  /\ expansion_lock_ = None
  /\ pc = [p \in Threads |-> "idle"]
  /\ call = [p \in Threads |-> Idle]
  /\ hp = [p \in Threads |-> 0]
  /\ want = [p \in Threads |-> {}]
  /\ goal = [p \in Threads |-> "idle"]
  /\ q = [p \in Threads |-> << >>]
  /\ tried = [p \in Threads |-> 0]
  /\ path = [p \in Threads |-> << >>]
  /\ ret = [p \in Threads |-> None]
  /\ puts = 0
  /\ seen = [p \in Threads |-> {}]
-----------------------------------------------------------------------------
Goto(p, l) == pc' = [pc EXCEPT ![p] = l]
Held(p) == {l \in Locks : lock[l] = p}
ReleaseSome(p, ls) == lock' = [l \in Locks |-> IF lock[l] = p /\ l \in ls THEN None ELSE lock[l]]
\* Mutant: of two locks one is released.
ReleaseOne(p) == ReleaseSome(p, {CHOOSE l \in Held(p) : TRUE})

Release(p) == ReleaseSome(p, Locks)
Key(p) == call[p].key
B(p) == Homes(hp[p], Key(p))                    \* b.i of the call
Occupied(i, s) == bucket[i][s] # Empty

Places(i, k) == {<<i, s>> : s \in {t \in Slots : bucket[i][t].key = k}}
(* What try_read_from_bucket and the like find in the two buckets.          *)
Found(p) == Places(B(p)[1], Key(p)) \cup Places(B(p)[2], Key(p))
At(pl) == bucket[pl[1]][pl[2]]
Put(pl, e) == bucket' = [bucket EXCEPT ![pl[1]][pl[2]] = e]

(* lock_two, lock_three and snapshot_and_lock_all: go for the locks, then   *)
(* on to l.                                                                 *)
LockThen(p, locks, l) ==
  /\ want' = [want EXCEPT ![p] = locks]
  /\ goal' = [goal EXCEPT ![p] = l]
  /\ Goto(p, "lock")

(* Calls and returns.                                                       *)
Invoke(p) ==
  /\ pc[p] = "idle"
  /\ \E c \in work[p] :
       IF c.op = "put"
       THEN /\ puts < MaxPuts
            /\ puts' = puts + 1
            /\ call' = [call EXCEPT ![p] = [c EXCEPT !.val = puts + 1]]
       ELSE call' = [call EXCEPT ![p] = c] /\ UNCHANGED puts
  /\ Goto(p, "snapshot")
  /\ UNCHANGED <<table, locals>>

Return(p) ==
  /\ pc[p] = "done"
  /\ Goto(p, "idle")
  /\ call' = [call EXCEPT ![p] = Idle]
  /\ hp' = [hp EXCEPT ![p] = 0]
  /\ path' = [path EXCEPT ![p] = << >>]
  /\ ret' = [ret EXCEPT ![p] = None]
  /\ UNCHANGED <<table, want, goal, q, tried, puts>>
-----------------------------------------------------------------------------
(* snapshot_and_lock_two; a rehash goes for all the locks, unless the table *)
(* has the size it asks for or that size exceeds the maximum.               *)
Snapshot(p) ==
  /\ pc[p] = "snapshot"
  /\ hp' = [hp EXCEPT ![p] = hashpower_]
  /\ IF call[p].op # "rehash" THEN LockThen(p, LocksOf(HomeSet(hashpower_, Key(p))), call[p].op)
     ELSE IF call[p].val \in {hashpower_} \cup {n \in Nat : n > MaxHashpower}
          THEN Goto(p, "done") /\ UNCHANGED <<want, goal>>
          ELSE LockThen(p, Locks, "rehash")
  /\ UNCHANGED <<table, call, q, tried, path, ret, puts>>

(* What begins with the hashpower of the snapshot: everything but the two   *)
(* that take all the locks.                                                 *)
Checked(p) == goal[p] \notin {"rehash", "double"}

\* Mutant: an insert takes the lock of the bucket it prefers first.
HomeFirst(p, l) ==
  l \in want[p] /\ (call[p].op = "put" /\ lock_ind(B(p)[1]) \in want[p] => l = lock_ind(B(p)[1]))

(* Locks are taken in ascending order.                                      *)
Below(i, j) == \E n \in j \ i : \A m \in i \ j : m < n
NextLock(p, l) == l \in want[p] /\ \A other \in want[p] : ~Below(other, l)

\* Mutant: the hashpower is not looked at again.
TakeLockOnly(p) ==
  /\ pc[p] = "lock"
  /\ \E l \in want[p] :
       /\ NextLock(p, l) /\ lock[l] = None
       /\ lock' = [lock EXCEPT ![l] = p]
       /\ want' = [want EXCEPT ![p] = @ \ {l}]
       /\ IF want[p] = {l} THEN Goto(p, goal[p]) /\ goal' = [goal EXCEPT ![p] = "idle"]
                          ELSE UNCHANGED <<pc, goal>>
  /\ UNCHANGED <<bucket, hashpower_, expansion_lock_, call, hp, q, tried, path, ret, puts>>

(* The next lock.  After the first one check_hashpower: if it has changed,  *)
(* every function starts over.                                              *)
TakeLock(p) ==
  /\ pc[p] = "lock"
  /\ \E l \in want[p] :
       /\ NextLock(p, l) /\ lock[l] = None
       /\ IF Checked(p) /\ Held(p) = {} /\ hashpower_ # hp[p]
          THEN /\ want' = [want EXCEPT ![p] = {}]
               /\ goal' = [goal EXCEPT ![p] = "idle"]
               /\ Goto(p, "snapshot")
               /\ UNCHANGED lock
          ELSE /\ lock' = [lock EXCEPT ![l] = p]
               /\ want' = [want EXCEPT ![p] = @ \ {l}]
               /\ IF want[p] = {l}
                  THEN Goto(p, goal[p]) /\ goal' = [goal EXCEPT ![p] = "idle"]
                  ELSE UNCHANGED <<pc, goal>>
  /\ UNCHANGED <<bucket, hashpower_, expansion_lock_, call, hp, q, tried, path, ret, puts>>

find(p) ==
  /\ pc[p] = "get"
  /\ ret' = [ret EXCEPT ![p] = IF Found(p) = {} THEN None
                               ELSE At(CHOOSE pl \in Found(p) : TRUE).val]
  /\ Release(p)
  /\ Goto(p, "done")
  /\ UNCHANGED <<bucket, hashpower_, expansion_lock_, call, hp, want, goal, q, tried, path, puts>>

(* erase returns true: the value that was there stands for it.              *)
erase(p) ==
  /\ pc[p] = "remove"
  /\ IF Found(p) = {} THEN UNCHANGED <<bucket, ret>>
     ELSE LET pl == CHOOSE pl \in Found(p) : TRUE
          IN  Put(pl, Empty) /\ ret' = [ret EXCEPT ![p] = At(pl).val]
  /\ Release(p)
  /\ Goto(p, "done")
  /\ UNCHANGED <<hashpower_, expansion_lock_, call, hp, want, goal, q, tried, path, puts>>
-----------------------------------------------------------------------------
(* insert.                                                                  *)

(* The queue at the start of slot_search: the two buckets.  A b_slot has    *)
(* the bucket it is about, and for its pathcode the bucket of the two it    *)
(* started from and the slots on the way.                                   *)
Start(p) == <<[bucket |-> B(p)[1], from |-> 1, slots |-> << >>],
              [bucket |-> B(p)[2], from |-> 2, slots |-> << >>]>>

(* run_cuckoo, also when the path found did not hold.                       *)
Cuckoo(p) ==
  /\ q' = [q EXCEPT ![p] = Start(p)]
  /\ tried' = [tried EXCEPT ![p] = 0]
  /\ path' = [path EXCEPT ![p] = << >>]
  /\ Release(p)
  /\ Goto(p, "search")

AddTo(p, pl) ==
  /\ Put(pl, [key |-> Key(p), val |-> call[p].val])
  /\ ret' = [ret EXCEPT ![p] = call[p].val]

Free(p) == {pl \in {<<B(p)[n], s>> : n \in {1, 2}, s \in Slots} : At(pl) = Empty}
(* The first free slot of the first of the two buckets that has one.        *)
FirstFree(p, pl) ==
  pl \in Free(p) /\ \A other \in Free(p) :
    IF pl[1] = other[1] THEN pl[2] <= other[2] ELSE pl[1] = B(p)[1]

cuckoo_insert(p) ==
  /\ pc[p] = "put"
  /\ IF Found(p) = {} /\ Free(p) = {}
     THEN Cuckoo(p) /\ UNCHANGED <<bucket, ret>>
     ELSE /\ IF Found(p) = {} THEN \E pl \in Free(p) : FirstFree(p, pl) /\ AddTo(p, pl)
                              ELSE UNCHANGED <<bucket, ret>>
          /\ Release(p)
          /\ Goto(p, "done")
          /\ UNCHANGED <<q, tried, path>>
  /\ UNCHANGED <<hashpower_, expansion_lock_, call, hp, want, goal, puts>>

(* lock_one, for what a step does with one bucket.                          *)
CanLock(i) == lock[lock_ind(i)] = None
StartOver(p) == Goto(p, "snapshot")

(* slot_search looks at one slot.  If it is taken, the bucket its entry     *)
(* could move to goes on the queue; the search ends with a free slot or     *)
(* without one.  An entry of depth n is in the n-th bucket of a path.       *)
Here(p) == Head(q[p])
SlotOf(p) ==
  LET first == IF Here(p).slots = << >> THEN Here(p).from - 1 ELSE Here(p).slots[Len(Here(p).slots)] - 1
  IN  ((first + tried[p]) % SLOT_PER_BUCKET) + 1
Longer(p, s) ==
  [bucket |-> alt_index(hp[p], bucket[Here(p).bucket][s].key, Here(p).bucket),
   from   |-> Here(p).from,
   slots  |-> Append(Here(p).slots, s)]
NextQueue(p, s) ==
  IF Len(Here(p).slots) < MAX_BFS_PATH_LEN - 1 THEN Append(q[p], Longer(p, s)) ELSE q[p]

slot_search(p) ==
  /\ pc[p] = "search" /\ CanLock(Here(p).bucket)
  /\ LET s    == SlotOf(p)
         more == NextQueue(p, s)
         full == Len(more) = MAX_CUCKOO_COUNT
         last == tried[p] + 1 = SLOT_PER_BUCKET
     IN  IF hashpower_ # hp[p] THEN StartOver(p) /\ q' = [q EXCEPT ![p] = << >>]
                                    /\ tried' = [tried EXCEPT ![p] = 0]
         ELSE IF ~Occupied(Here(p).bucket, s)
         THEN /\ q' = [q EXCEPT ![p] = <<[Here(p) EXCEPT !.slots = Append(@, s)]>>]
              /\ tried' = [tried EXCEPT ![p] = 0]
              /\ Goto(p, "path")
         ELSE IF full \/ (last /\ Len(more) = 1)
         THEN /\ q' = [q EXCEPT ![p] = << >>]
              /\ tried' = [tried EXCEPT ![p] = 0]
              /\ Goto(p, "full")
         ELSE /\ q' = [q EXCEPT ![p] = IF last THEN Tail(more) ELSE more]
              /\ tried' = [tried EXCEPT ![p] = IF last THEN 0 ELSE @ + 1]
              /\ UNCHANGED pc
  /\ UNCHANGED <<table, call, hp, want, goal, path, ret, puts>>

(* cuckoopath_search goes along the path found, one bucket at a time, and   *)
(* notes the entries; it ends early where it meets a free slot.             *)
PathBucket(p) ==
  IF path[p] = << >> THEN B(p)[Here(p).from]
  ELSE LET prev == path[p][Len(path[p])] IN alt_index(hp[p], prev.key, prev.bucket)

cuckoopath_search(p) ==
  /\ pc[p] = "path" /\ CanLock(PathBucket(p))
  /\ LET n == Len(path[p]) + 1
         s == Here(p).slots[n]
         k == bucket[PathBucket(p)][s].key
     IN  IF hashpower_ # hp[p]
         THEN /\ StartOver(p)
              /\ path' = [path EXCEPT ![p] = << >>]
              /\ q' = [q EXCEPT ![p] = << >>]
         ELSE /\ path' = [path EXCEPT ![p] = Append(@, [bucket |-> PathBucket(p), slot |-> s, key |-> k])]
              /\ IF k = None \/ n = Len(Here(p).slots)
                 THEN Goto(p, "moves") /\ q' = [q EXCEPT ![p] = << >>]
                 ELSE UNCHANGED <<pc, q>>
  /\ UNCHANGED <<table, call, hp, want, goal, tried, ret, puts>>

(* cuckoopath_move goes back along the path.  For the last move, and if     *)
(* there is none, it needs the locks of the two buckets of the key, too.    *)
Last(p) == path[p][Len(path[p])]
MoveLocks(p) ==
  LocksOf(CASE Len(path[p]) = 1 -> HomeSet(hp[p], Key(p))
            [] Len(path[p]) = 2 -> HomeSet(hp[p], Key(p)) \cup {Last(p).bucket}
            [] OTHER -> {path[p][Len(path[p]) - 1].bucket, Last(p).bucket})

PrepareMove(p) ==
  /\ pc[p] = "moves"
  /\ LockThen(p, MoveLocks(p), IF Len(path[p]) = 1 THEN "add" ELSE "move")
  /\ UNCHANGED <<table, call, hp, q, tried, path, ret, puts>>

(* A move is made if the entry is the one of the path and its target free.  *)
CanMove(p) ==
  LET from == path[p][Len(path[p]) - 1]
  IN  bucket[from.bucket][from.slot].key = from.key /\ from.key # None
      /\ ~Occupied(Last(p).bucket, Last(p).slot)

cuckoopath_move(p) ==
  /\ pc[p] = "move"
  /\ IF ~CanMove(p) THEN Cuckoo(p) /\ UNCHANGED bucket
     ELSE LET from == path[p][Len(path[p]) - 1]
              to   == Last(p)
          IN  /\ bucket' = [bucket EXCEPT
                              ![from.bucket][from.slot] = Empty,
                              ![to.bucket][to.slot] = bucket[from.bucket][from.slot]]
              /\ path' = [path EXCEPT ![p] = SubSeq(@, 1, Len(@) - 1)]
              /\ IF Len(path[p]) = 2
                 THEN ReleaseSome(p, Locks \ LocksOf(HomeSet(hp[p], Key(p)))) /\ Goto(p, "add")
                 ELSE Release(p) /\ Goto(p, "moves")
              /\ UNCHANGED <<q, tried>>
  /\ UNCHANGED <<hashpower_, expansion_lock_, call, hp, want, goal, ret, puts>>

\* Mutant: the key is not looked for again.
AddFreed(p) ==
  /\ pc[p] = "add"
  /\ LET pl == <<path[p][1].bucket, path[p][1].slot>>
     IN  IF At(pl) # Empty THEN Cuckoo(p) /\ UNCHANGED <<bucket, ret>>
         ELSE /\ AddTo(p, pl)
              /\ Release(p)
              /\ Goto(p, "done")
              /\ UNCHANGED <<q, tried, path>>
  /\ UNCHANGED <<hashpower_, expansion_lock_, call, hp, want, goal, puts>>

(* cuckoo_insert once run_cuckoo has freed a slot: another insert may have  *)
(* brought the key meanwhile.  Where nothing was moved the slot may be gone.*)
AddToFreed(p) ==
  /\ pc[p] = "add"
  /\ LET pl == <<path[p][1].bucket, path[p][1].slot>>
     IN  IF At(pl) # Empty THEN Cuckoo(p) /\ UNCHANGED <<bucket, ret>>
         ELSE /\ IF Found(p) = {} THEN AddTo(p, pl) ELSE UNCHANGED <<bucket, ret>>
              /\ Release(p)
              /\ Goto(p, "done")
              /\ UNCHANGED <<q, tried, path>>
  /\ UNCHANGED <<hashpower_, expansion_lock_, call, hp, want, goal, puts>>
-----------------------------------------------------------------------------
(* Growing and shrinking.                                                   *)

(* cuckoo_insert_loop found the table full.  A table with a load below 0.05 *)
(* or of maximum_hashpower_ is not expanded: the insert throws.             *)
Entries == {pl \in (DOMAIN bucket) \X Slots : At(pl) # Empty}
TooEmpty(p) == 20 * Cardinality(Entries) < SLOT_PER_BUCKET * hashsize(hp[p])
Throws(p) ==
  /\ pc[p] = "full"
  /\ TooEmpty(p) \/ hp[p] = MaxHashpower
  /\ Goto(p, "done")
  /\ UNCHANGED <<table, call, locals, puts>>

(* cuckoo_fast_double: one at a time, and only if nobody was faster.        *)
BeginDouble(p) ==
  /\ pc[p] = "full" /\ ~TooEmpty(p) /\ hp[p] < MaxHashpower
  /\ expansion_lock_ = None
  /\ IF hashpower_ # hp[p] THEN StartOver(p) /\ UNCHANGED <<expansion_lock_, want, goal>>
     ELSE expansion_lock_' = p /\ LockThen(p, Locks, "double")
  /\ UNCHANGED <<bucket, hashpower_, lock, call, hp, q, tried, path, ret, puts>>

Double(p) ==
  /\ pc[p] = "double"
  /\ bucket' = [i \in Numbers(Cardinality(UNION DOMAIN bucket) + 1) |->
                  IF i \in DOMAIN bucket THEN bucket[i] ELSE [s \in Slots |-> Empty]]
  /\ hashpower_' = hp[p] + 1
  /\ Goto(p, "migrate")
  /\ UNCHANGED <<lock, expansion_lock_, call, locals, puts>>

(* move_buckets.  An entry of bucket i moves to the bucket with the new bit *)
(* set as well, if that is what became of i as its first or second home:    *)
(* the n-th that moves to slot n.                                           *)
New(p, i) == i \cup {hp[p]}
Moves(p, i, e) ==
  e # Empty /\ \E n \in {1, 2} : /\ Homes(hp[p], e.key)[n] = i
                                 /\ Homes(hp[p] + 1, e.key)[n] = New(p, i)
Moving(p, i) == {s \in Slots : Moves(p, i, bucket[i][s])}
Rank(ss, s) == Cardinality({t \in ss : t <= s})

(* The locks that can be released: those of the old table, then the others. *)
(* (The threads that do this, one per core, go through parts of them.)      *)
OldLocks(p) == {l \in Held(p) : l \subseteq Bits(hp[p])}

\* Mutant: the locks of the old table are not the first ones.
ReleaseInAnyOrder(p) == Held(p)

Releasable(p) == IF OldLocks(p) # {} THEN OldLocks(p) ELSE Held(p)

move_buckets(p) ==
  /\ pc[p] = "migrate"
  /\ \E l \in Releasable(p) :
       /\ LET moved == {i \in Numbers(hp[p]) : lock_ind(i) = l}
          IN  bucket' = [i \in DOMAIN bucket |-> [s \in Slots |->
                LET old == i \ {hp[p]}
                    from == {t \in Moving(p, old) : Rank(Moving(p, old), t) = s}
                IN  IF i \in moved /\ s \in Moving(p, i) THEN Empty
                    ELSE IF hp[p] \in i /\ old \in moved /\ from # {}
                         THEN bucket[old][CHOOSE t \in from : TRUE]
                    ELSE bucket[i][s]]]
       /\ ReleaseSome(p, {l})
       /\ IF Held(p) = {l} THEN StartOver(p) /\ expansion_lock_' = None
                          ELSE UNCHANGED <<pc, expansion_lock_>>
  /\ UNCHANGED <<hashpower_, call, locals, puts>>

(* cuckoo_expand_simple, with all the locks: if the table still is smaller, *)
(* or larger, than asked for, its entries are inserted into a new table,    *)
(* which grows until they all have a place, and that one is taken instead.  *)
Contents == {At(pl) : pl \in Entries}
Place(h, f, e) == <<Homes(h, e.key)[f[e][1]], f[e][2]>>
Layouts(h) ==
  {f \in [Contents -> {1, 2} \X Slots] :
     \A e, other \in Contents : e # other => Place(h, f, e) # Place(h, f, other)}
Fits(h) == Layouts(h) # {}

Rehash(p) ==
  /\ pc[p] = "rehash"
  /\ LET n == call[p].val
     IN  IF IF n > hp[p] THEN n <= hashpower_ ELSE n >= hashpower_
         THEN UNCHANGED <<bucket, hashpower_>>
         ELSE LET h == CHOOSE h \in n..(n + Cardinality(Contents)) :
                         Fits(h) /\ \A less \in n..(h - 1) : ~Fits(less)
              IN  /\ hashpower_' = h
                  /\ \E f \in Layouts(h) :
                       bucket' = [i \in Numbers(h) |-> [s \in Slots |->
                         LET here == {e \in Contents : Place(h, f, e) = <<i, s>>}
                         IN  IF here = {} THEN Empty ELSE CHOOSE e \in here : TRUE]]
  /\ Release(p)
  /\ Goto(p, "done")
  /\ UNCHANGED <<expansion_lock_, call, locals, puts>>
-----------------------------------------------------------------------------
insert(p) == \/ cuckoo_insert(p) \/ slot_search(p) \/ cuckoopath_search(p) \/ PrepareMove(p)
             \/ cuckoopath_move(p) \/ AddToFreed(p) \/ Throws(p)
cuckoo_fast_double(p) == BeginDouble(p) \/ Double(p) \/ move_buckets(p)

Work(p) == \/ Snapshot(p) \/ TakeLock(p) \/ find(p) \/ erase(p) \/ insert(p)
           \/ cuckoo_fast_double(p) \/ Rehash(p) \/ Return(p)

(* Where find looks for a key: in its homes, but as long as a doubling has  *)
(* the lock of a bucket only its thread looks, for the homes there were.    *)
Migrating == {p \in Threads : pc[p] = "migrate"}
Reachable(pl, k) ==
  \/ pl[1] \in HomeSet(hashpower_, k)
  \/ \E p \in Migrating : lock[lock_ind(pl[1])] = p /\ pl[1] \in HomeSet(hp[p], k)
Holding(k) == {pl \in Entries : At(pl).key = k /\ Reachable(pl, k)}
AbsMap == [k \in Keys |-> IF Holding(k) = {} THEN None
                          ELSE At(CHOOSE pl \in Holding(k) : TRUE).val]

OpenKey(p) == IF call[p].op \in {"put", "get", "remove"} THEN Key(p) ELSE None
Watch ==
  seen' = [p \in Threads |->
             IF OpenKey(p)' = None THEN {}
             ELSE IF OpenKey(p) = None THEN {AbsMap'[OpenKey(p)']}
             ELSE seen[p] \cup {AbsMap'[OpenKey(p)]}]

Next == /\ UNCHANGED work
        /\ \E p \in Threads : Invoke(p) \/ Work(p)
        /\ Watch

Spec == Init /\ [][Next]_vars
(* Threads are preemptive: none that can take a step stays behind.          *)
FairSpec == Spec /\ \A p \in Threads : WF_state(Work(p))
-----------------------------------------------------------------------------
(* Properties *)

Labels == {"idle", "snapshot", "lock", "get", "put", "remove", "rehash", "search", "path",
           "moves", "move", "add", "full", "double", "migrate", "done"}
Hashpowers == 1..(MaxHashpower + Cardinality(Keys))
BSlots == [bucket : SUBSET Nat, from : {1, 2}, slots : Seq(Slots)]
Records == [bucket : SUBSET Nat, slot : Slots, key : Keys \cup {None}]

VarsOK ==
  /\ work \in Workloads
  /\ \E n \in Hashpowers : bucket \in [Numbers(n) -> [Slots -> Entry \cup {Empty}]]
  /\ hashpower_ \in Hashpowers
  /\ lock \in [Locks -> Threads \cup {None}]
  /\ expansion_lock_ \in Threads \cup {None}
  /\ pc \in [Threads -> Labels]
  /\ call \in [Threads -> Calls \cup {Idle}]
  /\ hp \in [Threads -> Hashpowers \cup {0}]
  /\ want \in [Threads -> SUBSET Locks]
  /\ goal \in [Threads -> Labels]
  /\ q \in [Threads -> Seq(BSlots)]
  /\ tried \in [Threads -> 0..SLOT_PER_BUCKET]
  /\ path \in [Threads -> Seq(Records)]
  /\ ret \in [Threads -> Vals \cup {None}]
  /\ puts \in 0..MaxPuts

(* Types; who works on buckets has the locks it needs and wants no more.    *)
TypeOK ==
  /\ VarsOK
  /\ \A p \in Threads :
       /\ pc[p] = "lock" <=> want[p] # {}
       /\ Held(p) # {} => pc[p] \in {"lock", "get", "put", "remove", "rehash", "move", "add",
                                      "double", "migrate"}
       /\ expansion_lock_ = p <=> pc[p] \in {"double", "migrate"} \/ goal[p] = "double"

(* An insert lets the locks go to look for a path, and another one of the   *)
(* same key may go before it: still no key is in the table twice.  (Not so  *)
(* once a rehash has overtaken a doubling: see InPlace.)                    *)
UniqueKeys ==
  \A pl, other \in Entries : At(pl).key = At(other).key => pl = other

(* snapshot_and_lock_all says that after taking all the locks it is okay to *)
(* change the buckets_ vector and the hashpower_, and cuckoo_expand_simple  *)
(* that no other operations can change the table during expansion.  So      *)
(* whoever does either leaves every entry in one of the two buckets of its  *)
(* key, as moves along stale paths do; what a doubling has not moved yet is *)
(* behind its locks.  It does not hold: a doubling chooses the new hashpower*)
(* before it has the locks, and a rehash may have changed it by then.       *)
(* Without a rehash in the workload it holds, see SoundWithoutRehash.       *)
InPlace == \A pl \in Entries : Reachable(pl, At(pl).key)

(* The abstract map.  A call takes effect at the step that has the locks.   *)
Stage(p) == IF call[p].op = "rehash" THEN "idle"
            ELSE IF pc[p] \in {"idle", "done"} THEN pc[p] ELSE "open"
CallMap  == [p \in Threads |-> IF call[p].op = "rehash" THEN Idle ELSE call[p]]
StageMap == [p \in Threads |-> Stage(p)]
KV == INSTANCE KVMap WITH map <- AbsMap, call <- CallMap, stage <- StageMap, res <- ret

(* Every insert, find and erase is one of the map, except that an insert    *)
(* may give up on a table that cannot grow, and then has changed nothing.   *)
(* This, too, only if no rehash overtakes a doubling.                       *)
GivesUp(p) == /\ pc[p] = "full" /\ pc'[p] = "done"
              /\ UNCHANGED <<AbsMap, ret>>
LinearizableOrThrows ==
  KV!KVInit /\ [][KV!KVNext \/ UNCHANGED KV!kvVars \/ \E p \in Threads : GivesUp(p)]_vars

(* The threads never block each other, in locks, stale paths or doublings:  *)
(* while calls are open, one returns.  (A spinlock is not fair: a certain   *)
(* call may wait for ever while others come and go.)                        *)
SomeCallReturns == (\E p \in Threads : pc[p] # "idle") ~> (\E p \in Threads : pc[p] = "done")
-----------------------------------------------------------------------------
(* Why the table stays sound, as long as nobody calls rehash: a strengthening *)
(* of UniqueKeys and InPlace that every step preserves.                       *)
OnlyMapCalls == \A p \in Threads : \A c \in work[p] : c.op # "rehash"

(* What a thread does, or will do once it has the locks it waits for, and   *)
(* which locks those are.                                                   *)
Doing(p)  == IF pc[p] = "lock" THEN goal[p] ELSE pc[p]
WithLocks == {"get", "put", "remove", "move", "add", "double"}
Needs(p, l) == CASE l \in {"get", "put", "remove"} -> LocksOf(HomeSet(hp[p], Key(p)))
                 [] l \in {"move", "add"}          -> MoveLocks(p)
                 [] OTHER                          -> Locks

(* The table has hashpower_ and so does whoever has a lock of it.           *)
TableOK == /\ hashpower_ \in 1..MaxHashpower
           /\ bucket \in [Numbers(hashpower_) -> [Slots -> Entry \cup {Empty}]]
Calling(p) ==
  /\ call[p].op # "rehash" /\ pc[p] # "rehash"
  /\ pc[p] = "idle" <=> call[p] = Idle
  /\ Doing(p) \in {"get", "put", "remove"} => call[p].op = Doing(p)
  /\ Doing(p) \in {"search", "path", "moves", "move", "add", "full", "double", "migrate"} =>
       call[p].op = "put"
  /\ call[p].op = "put" => call[p].val \in Vals
  /\ pc[p] \notin {"idle", "snapshot"} => hp[p] \in 1..MaxHashpower
Locking(p) ==
  /\ pc[p] = "lock" => /\ goal[p] \in WithLocks /\ want[p] # {}
                       /\ Held(p) \cup want[p] = Needs(p, goal[p]) /\ Held(p) \cap want[p] = {}
  /\ pc[p] # "lock" => want[p] = {} /\ goal[p] = "idle"
  /\ pc[p] \in WithLocks => Held(p) = Needs(p, pc[p])
  /\ pc[p] \notin WithLocks \cup {"lock", "migrate"} => Held(p) = {}
  /\ Held(p) # {} /\ pc[p] # "migrate" => hp[p] = hashpower_

(* A path leads from a home of the key that is inserted from bucket to      *)
(* bucket, each the other home of the key noted before, all for one         *)
(* hashpower, which may be gone.                                            *)
Path(p) ==
  /\ \A n \in 1..Len(path[p]) : path[p][n].bucket \in Numbers(hp[p])
  /\ path[p] # << >> => path[p][1].bucket \in HomeSet(hp[p], Key(p))
  /\ \A n \in 1..(Len(path[p]) - 1) :
       /\ path[p][n].key \in Keys
       /\ path[p][n + 1].bucket = alt_index(hp[p], path[p][n].key, path[p][n].bucket)
Searching(p) ==
  /\ pc[p] = "search" => /\ q[p] # << >> /\ path[p] = << >> /\ tried[p] < SLOT_PER_BUCKET
                         /\ \A n \in 1..Len(q[p]) : q[p][n].bucket \in Numbers(hp[p])
  /\ pc[p] = "path" => /\ q[p] # << >> /\ Len(path[p]) < Len(Here(p).slots)
                       /\ \A n \in 1..Len(path[p]) : path[p][n].key \in Keys
  /\ Doing(p) \in {"path", "moves", "move", "add"} => Path(p)
  /\ Doing(p) \in {"moves", "move", "add"} => path[p] # << >>
  /\ Doing(p) = "move" => Len(path[p]) > 1
  /\ Doing(p) = "add" => Len(path[p]) = 1

(* Who doubles the table has expansion_lock_.  It keeps the locks of the    *)
(* new half until those of the old one are released, and a bucket of the    *)
(* new half is free as long as the one it is filled from is locked.         *)
Doubling(p) ==
  /\ expansion_lock_ = p <=> Doing(p) \in {"double", "migrate"}
  /\ Doing(p) = "double" => hp[p] = hashpower_ /\ hp[p] < MaxHashpower
  /\ pc[p] = "migrate" =>
       /\ hashpower_ = hp[p] + 1
       /\ OldLocks(p) # {} => \A l \in Locks : l \subseteq Bits(hp[p]) \/ lock[l] = p
       /\ \A i \in Numbers(hp[p]) : \A s \in Slots :
            lock[lock_ind(i)] = p => bucket[New(p, i)][s] = Empty

IndInv == /\ VarsOK /\ TableOK /\ UniqueKeys /\ InPlace
          /\ \A p \in Threads : Calling(p) /\ Locking(p) /\ Searching(p) /\ Doubling(p)

(* In a workload without rehash, whoever has a lock works for the current   *)
(* hashpower_, and the rest of the invariant holds.                         *)
SoundWithoutRehash == OnlyMapCalls => IndInv
=============================================================================
