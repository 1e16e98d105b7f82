----------------------------- MODULE ClhtLbRes -----------------------------
(***************************************************************************)
(* CLHT-LB-RESIZE (src/clht/src/clht_lb_res.c, include/clht_lb_res.h): the *)
(* lock-based cache-line hash table with resizing, the default build.      *)
(*                                                                         *)
(* Gets take no lock.  Puts and removes first look for the key without a   *)
(* lock, then lock the head bucket of its chain.  The put that creates the *)
(* chained bucket number num_expands_threshold resizes: it marks every     *)
(* bucket of the table LOCK_RESIZE for ever, copies its entries into a     *)
(* larger table that nobody sees yet, swaps h->ht and only then sets       *)
(* table_new, for which the threads that met a LOCK_RESIZE mark spin.      *)
(*                                                                         *)
(* Each action is one access to shared memory, except that what a thread   *)
(* reads under a bucket lock is one step with the first write that         *)
(* follows (the lock excludes other writers).  Memory is sequentially      *)
(* consistent: the code relies on the store and load order of x86.         *)
(***************************************************************************)
EXTENDS Naturals, Sequences

CONSTANTS
  Threads,                \* the threads, each with one call open at a time
  Ops,                    \* the functions each thread calls
  Keys,                   \* the keys, addresses other than 0
  Entries,                \* ENTRIES_PER_BUCKET
  InitBuckets,            \* num_buckets of clht_create
  MaxPuts,                \* bound: calls of clht_put
  MaxTables,              \* bound: tables ever created
  MaxBuckets              \* bound: num_buckets of the largest table

ASSUME OpsAssumption     == Ops \in [Threads -> SUBSET {"put", "get", "remove"}]
ASSUME KeysAssumption    == Keys \subseteq Nat \ {0}
ASSUME EntriesAssumption == Entries \in Nat \ {0}
ASSUME BoundsAssumption  == /\ MaxPuts \in Nat
                            /\ MaxTables \in Nat \ {0}
                            /\ MaxBuckets \in Nat \ {0}
                            /\ InitBuckets \in 1..MaxBuckets

LOCK_FREE   == 0
LOCK_UPDATE == 1
LOCK_RESIZE == 2

CLHT_PERC_EXPANSIONS == 1
CLHT_OCCUP_AFTER_RES == 40
CLHT_PERC_FULL_HALVE == 5

None    == 0              \* no key, no value, no table: NULL and 0 of the code
Vals    == 1..MaxPuts     \* the n-th call of clht_put brings value n
Tables  == 1..MaxTables   \* clht_hashtable_t's, in the order of their creation
Bins    == 0..(MaxBuckets - 1)
-----------------------------------------------------------------------------
VARIABLES
  (* clht_t *)
  ht,             \* the current table
  resize_lock,    \* held while a resize runs
  status_lock,    \* taken by ht_status
  (* clht_hashtable_t, per table *)
  ntables,        \* tables created so far
  num_buckets,
  num_expands,    \* chained buckets created
  table_new,      \* the table that replaced this one, None until it did
  (* the chain of each bucket: Entries slots per bucket_t *)
  lock,           \* the lock of the head bucket
  key,
  val,
  (* per thread: where it is and the local variables that matter *)
  pc,
  call,           \* the arguments of the open call
  tab,            \* hashtable
  ix,             \* the slot the thread looks at
  ret,            \* the value it read or is about to return
  resize,         \* clht_put's flag: this put must resize the table
  nest,           \* ht_status frames still open
  rs,             \* locals of ht_resize_pes
  (* history *)
  puts,           \* calls of clht_put so far
  seen            \* the values the key of the open call had since its start

shared == <<ht, resize_lock, status_lock, ntables, num_buckets, num_expands,
            table_new, lock, key, val>>
resizing == <<resize, nest, rs>>
vars == <<shared, pc, call, tab, ix, ret, resizing, puts, seen>>

Calls == [op : {"put", "get", "remove"}, key : Keys, val : Vals \cup {None}]
Idle  == [op |-> "idle", key |-> None, val |-> None]

(* The locals of ht_resize_pes and of ht_status while they do not run.      *)
NoResize == [old |-> 1, new |-> 1, bin |-> 0, by |-> 1, again |-> FALSE]

(* An empty table: what clht_hashtable_create leaves in fresh memory.       *)
EmptyChain == [i \in 1..Entries |-> None]

Init ==
  /\ ht = 1 /\ ntables = 1
  /\ resize_lock = LOCK_FREE /\ status_lock = LOCK_FREE
  /\ num_buckets = [t \in Tables |-> InitBuckets]
  /\ num_expands = [t \in Tables |-> 0]
  /\ table_new = [t \in Tables |-> None]
  /\ lock = [t \in Tables |-> [b \in Bins |-> LOCK_FREE]]
  /\ key = [t \in Tables |-> [b \in Bins |-> EmptyChain]]
  /\ val = [t \in Tables |-> [b \in Bins |-> EmptyChain]]
  /\ pc = [p \in Threads |-> "idle"]
  /\ call = [p \in Threads |-> Idle]
  /\ tab = [p \in Threads |-> 1]
  /\ ix = [p \in Threads |-> 1]
  /\ ret = [p \in Threads |-> None]
  /\ resize = [p \in Threads |-> FALSE]
  /\ nest = [p \in Threads |-> 0]
  /\ rs = [p \in Threads |-> NoResize]
  /\ puts = 0
  /\ seen = [p \in Threads |-> {}]
-----------------------------------------------------------------------------
(* key & hash, where hash = num_buckets - 1 and num_buckets a power of two. *)
clht_hash(t, k) == k % num_buckets[t]

(* The bucket of the thread's key in the table it uses.                     *)
Bin(p)     == clht_hash(tab[p], call[p].key)
KeyAt(p)   == key[tab[p]][Bin(p)][ix[p]]
ValAt(p)   == val[tab[p]][Bin(p)][ix[p]]
Chain(p)   == key[tab[p]][Bin(p)]
LockOf(p)  == lock[tab[p]][Bin(p)]

SlotsWith(chain, k) == {i \in 1..Len(chain) : chain[i] = k}

(* The map the table stands for.                                            *)
Lookup(t, k) ==
  LET b == clht_hash(t, k)
      S == SlotsWith(key[t][b], k)
  IN  IF S = {} THEN None ELSE val[t][b][CHOOSE i \in S : TRUE]
AbsMap == [k \in Keys |-> Lookup(ht, k)]

Goto(p, l) == pc' = [pc EXCEPT ![p] = l]

(* After slot ix: the next slot of the bucket, or bucket->next.             *)
Advance(p, slot, next) ==
  IF ix[p] % Entries # 0
  THEN Goto(p, slot) /\ ix' = [ix EXCEPT ![p] = @ + 1]
  ELSE Goto(p, next) /\ UNCHANGED ix

(* bucket = bucket->next: on to the chained bucket, or to the end.          *)
Follow(p, slot, end) ==
  IF ix[p] < Len(Chain(p))
  THEN Goto(p, slot) /\ ix' = [ix EXCEPT ![p] = @ + 1]
  ELSE Goto(p, end) /\ UNCHANGED ix
-----------------------------------------------------------------------------
(* Calls and returns.  The callers are the threads of test/test_mem.c:      *)
(* hashtable->ht or h->ht is read when the call starts.                     *)
Invoke(p) ==
  /\ pc[p] = "idle"
  /\ \E c \in Calls :
       /\ c.op \in Ops[p]
       /\ IF c.op = "put" THEN puts < MaxPuts /\ c.val = puts + 1 ELSE c.val = None
       /\ call' = [call EXCEPT ![p] = c]
       /\ puts' = IF c.op = "put" THEN puts + 1 ELSE puts
       /\ Goto(p, IF c.op = "get" THEN "get" ELSE "exists")
  /\ tab' = [tab EXCEPT ![p] = ht]
  /\ ix' = [ix EXCEPT ![p] = 1]
  /\ ret' = [ret EXCEPT ![p] = None]
  /\ UNCHANGED <<shared, resizing>>

Return(p) ==
  /\ pc[p] = "done"
  /\ Goto(p, "idle")
  /\ call' = [call EXCEPT ![p] = Idle]
  /\ ret' = [ret EXCEPT ![p] = None]
  /\ ix' = [ix EXCEPT ![p] = 1]
  /\ tab' = [tab EXCEPT ![p] = 1]
  /\ UNCHANGED <<shared, resizing, puts>>
-----------------------------------------------------------------------------
(* clht_get *)
GetVal(p) ==
  /\ pc[p] = "get"
  /\ ret' = [ret EXCEPT ![p] = ValAt(p)]
  /\ Goto(p, "getkey")
  /\ UNCHANGED <<shared, call, tab, ix, resizing, puts>>

GetKey(p) ==
  /\ pc[p] = "getkey"
  /\ IF KeyAt(p) = call[p].key
     THEN Goto(p, "getcheck") /\ UNCHANGED ix
     ELSE Advance(p, "get", "getnext")
  /\ ret' = [ret EXCEPT ![p] = IF KeyAt(p) = call[p].key THEN @ ELSE None]
  /\ UNCHANGED <<shared, call, tab, resizing, puts>>

(* Mutant: the value is returned without looking at the slot again.         *)
GetCheckOnce(p) ==
  /\ pc[p] = "getcheck"
  /\ Goto(p, "done")
  /\ UNCHANGED <<shared, call, tab, ix, ret, resizing, puts>>

(* The value is returned only if the slot still holds it.                   *)
GetCheck(p) ==
  /\ pc[p] = "getcheck"
  /\ ret' = [ret EXCEPT ![p] = IF ValAt(p) = @ THEN @ ELSE None]
  /\ Goto(p, "done")
  /\ UNCHANGED <<shared, call, tab, ix, resizing, puts>>

GetNext(p) ==
  /\ pc[p] = "getnext"
  /\ Follow(p, "get", "done")
  /\ UNCHANGED <<shared, call, tab, ret, resizing, puts>>
-----------------------------------------------------------------------------
(* bucket_exists, without the lock: a put of a key it finds and a remove of *)
(* a key it does not find fail at once (CLHT_READ_ONLY_FAIL).               *)
ExistsKey(p) ==
  /\ pc[p] = "exists"
  /\ IF KeyAt(p) = call[p].key
     THEN Goto(p, IF call[p].op = "put" THEN "done" ELSE "acq") /\ UNCHANGED ix
     ELSE Advance(p, "exists", "existsnext")
  /\ UNCHANGED <<shared, call, tab, ret, resizing, puts>>

ExistsNext(p) ==
  /\ pc[p] = "existsnext"
  /\ Follow(p, "exists", IF call[p].op = "put" THEN "acq" ELSE "done")
  /\ UNCHANGED <<shared, call, tab, ret, resizing, puts>>
-----------------------------------------------------------------------------
(* Mutant: test-and-set that does not wait for another update.              *)
LockAcquireBlind(p) ==
  /\ pc[p] = "acq"
  /\ LockOf(p) # LOCK_RESIZE
  /\ lock' = [lock EXCEPT ![tab[p]][Bin(p)] = LOCK_UPDATE]
  /\ ix' = [ix EXCEPT ![p] = 1]
  /\ Goto(p, "locked")
  /\ UNCHANGED <<ht, resize_lock, status_lock, ntables, num_buckets, num_expands,
                 table_new, key, val, call, tab, ret, resizing, puts>>

(* lock_acq_chk_resize: CAS the lock from free to update; spin while        *)
(* another update holds it; on a resize mark wait for the new table.        *)
LockAcquire(p) ==
  /\ pc[p] = "acq"
  /\ LockOf(p) = LOCK_FREE
  /\ lock' = [lock EXCEPT ![tab[p]][Bin(p)] = LOCK_UPDATE]
  /\ ix' = [ix EXCEPT ![p] = 1]
  /\ Goto(p, "locked")
  /\ UNCHANGED <<ht, resize_lock, status_lock, ntables, num_buckets, num_expands,
                 table_new, key, val, call, tab, ret, resizing, puts>>

\* Mutant: the mark is taken for an acquired lock.
LockResizedIgnored(p) ==
  /\ pc[p] = "acq"
  /\ LockOf(p) = LOCK_RESIZE
  /\ Goto(p, "locked")
  /\ UNCHANGED <<shared, call, tab, ix, ret, resizing, puts>>

LockResized(p) ==
  /\ pc[p] = "acq"
  /\ LockOf(p) = LOCK_RESIZE
  /\ Goto(p, "wait")
  /\ UNCHANGED <<shared, call, tab, ix, ret, resizing, puts>>

AwaitNewTable(p) ==
  /\ pc[p] = "wait"
  /\ table_new[tab[p]] # None
  /\ Goto(p, "reread")
  /\ UNCHANGED <<shared, call, tab, ix, ret, resizing, puts>>

(* hashtable = h->ht, and the bucket of the key in it.                      *)
Reread(p) ==
  /\ pc[p] = "reread"
  /\ tab' = [tab EXCEPT ![p] = ht]
  /\ Goto(p, "acq")
  /\ UNCHANGED <<shared, call, ix, ret, resizing, puts>>

(* LOCK_RLS: a plain store of 0.                                            *)
Release(p) ==
  /\ pc[p] = "release"
  /\ lock' = [lock EXCEPT ![tab[p]][Bin(p)] = LOCK_FREE]
  /\ ix' = [ix EXCEPT ![p] = 1]
  /\ Goto(p, IF resize[p] THEN "status" ELSE "done")
  /\ UNCHANGED <<ht, resize_lock, status_lock, ntables, num_buckets, num_expands,
                 table_new, key, val, call, tab, ret, resizing, puts>>
-----------------------------------------------------------------------------
(* clht_put under the lock: the key is there; or the first empty slot takes *)
(* the value, then the key; or a new bucket that already holds both is      *)
(* linked at the end of the chain.                                          *)
PutFound(p) ==
  /\ pc[p] = "locked" /\ call[p].op = "put"
  /\ SlotsWith(Chain(p), call[p].key) # {}
  /\ Goto(p, "release")
  /\ UNCHANGED <<shared, call, tab, ix, ret, resizing, puts>>

\* Mutant: what bucket_exists found without the lock is not checked again.
PutValUnchecked(p) ==
  /\ pc[p] = "locked" /\ call[p].op = "put"
  /\ \E i \in SlotsWith(Chain(p), None) :
       /\ \A j \in SlotsWith(Chain(p), None) : i <= j
       /\ ix' = [ix EXCEPT ![p] = i]
       /\ val' = [val EXCEPT ![tab[p]][Bin(p)][i] = call[p].val]
  /\ Goto(p, "putkey")
  /\ UNCHANGED <<ht, resize_lock, status_lock, ntables, num_buckets, num_expands,
                 table_new, lock, key, call, tab, ret, resizing, puts>>

PutVal(p) ==
  /\ pc[p] = "locked" /\ call[p].op = "put"
  /\ SlotsWith(Chain(p), call[p].key) = {}
  /\ \E i \in SlotsWith(Chain(p), None) :
       /\ \A j \in SlotsWith(Chain(p), None) : i <= j
       /\ ix' = [ix EXCEPT ![p] = i]
       /\ val' = [val EXCEPT ![tab[p]][Bin(p)][i] = call[p].val]
  /\ Goto(p, "putkey")
  /\ UNCHANGED <<ht, resize_lock, status_lock, ntables, num_buckets, num_expands,
                 table_new, lock, key, call, tab, ret, resizing, puts>>

PutKey(p) ==
  /\ pc[p] = "putkey"
  /\ key' = [key EXCEPT ![tab[p]][Bin(p)][ix[p]] = call[p].key]
  /\ ret' = [ret EXCEPT ![p] = call[p].val]
  /\ Goto(p, "release")
  /\ UNCHANGED <<ht, resize_lock, status_lock, ntables, num_buckets, num_expands,
                 table_new, lock, val, call, tab, ix, resizing, puts>>

(* num_expands_threshold of a table.                                        *)
Threshold(t) ==
  IF CLHT_PERC_EXPANSIONS * num_buckets[t] = 0 THEN 1
  ELSE CLHT_PERC_EXPANSIONS * num_buckets[t]

(* Mutant: every put from the threshold on asks for a resize.               *)
PutExpandFrom(p) ==
  /\ pc[p] = "locked" /\ call[p].op = "put"
  /\ SlotsWith(Chain(p), call[p].key) = {}
  /\ SlotsWith(Chain(p), None) = {}
  /\ num_expands' = [num_expands EXCEPT ![tab[p]] = @ + 1]
  /\ resize' = [resize EXCEPT ![p] = num_expands'[tab[p]] >= Threshold(tab[p])]
  /\ Goto(p, "putlink")
  /\ UNCHANGED <<ht, resize_lock, status_lock, ntables, num_buckets,
                 table_new, lock, key, val, call, tab, ix, ret, nest, rs, puts>>

(* clht_bucket_create_stats: IAF_U32 of num_expands returns the new value;  *)
(* the put that reaches the threshold exactly is the one that resizes.      *)
PutExpand(p) ==
  /\ pc[p] = "locked" /\ call[p].op = "put"
  /\ SlotsWith(Chain(p), call[p].key) = {}
  /\ SlotsWith(Chain(p), None) = {}
  /\ num_expands' = [num_expands EXCEPT ![tab[p]] = @ + 1]
  /\ resize' = [resize EXCEPT ![p] = num_expands'[tab[p]] = Threshold(tab[p])]
  /\ Goto(p, "putlink")
  /\ UNCHANGED <<ht, resize_lock, status_lock, ntables, num_buckets,
                 table_new, lock, key, val, call, tab, ix, ret, nest, rs, puts>>

(* A bucket whose first slot holds x and whose other slots are empty.       *)
NewBucket(x) == [i \in 1..Entries |-> IF i = 1 THEN x ELSE None]

PutLink(p) ==
  /\ pc[p] = "putlink"
  /\ key' = [key EXCEPT ![tab[p]][Bin(p)] = @ \o NewBucket(call[p].key)]
  /\ val' = [val EXCEPT ![tab[p]][Bin(p)] = @ \o NewBucket(call[p].val)]
  /\ ret' = [ret EXCEPT ![p] = call[p].val]
  /\ Goto(p, "release")
  /\ UNCHANGED <<ht, resize_lock, status_lock, ntables, num_buckets, num_expands,
                 table_new, lock, call, tab, ix, resizing, puts>>
-----------------------------------------------------------------------------
(* clht_remove under the lock: clear the key of its first slot.  The value  *)
(* stays in the slot.                                                       *)
RemoveKey(p) ==
  /\ pc[p] = "locked" /\ call[p].op = "remove"
  /\ \E i \in SlotsWith(Chain(p), call[p].key) :
       /\ \A j \in SlotsWith(Chain(p), call[p].key) : i <= j
       /\ key' = [key EXCEPT ![tab[p]][Bin(p)][i] = None]
       /\ ret' = [ret EXCEPT ![p] = val[tab[p]][Bin(p)][i]]
  /\ Goto(p, "release")
  /\ UNCHANGED <<ht, resize_lock, status_lock, ntables, num_buckets, num_expands,
                 table_new, lock, val, call, tab, ix, resizing, puts>>

RemoveMiss(p) ==
  /\ pc[p] = "locked" /\ call[p].op = "remove"
  /\ SlotsWith(Chain(p), call[p].key) = {}
  /\ Goto(p, "release")
  /\ UNCHANGED <<shared, call, tab, ix, ret, resizing, puts>>
-----------------------------------------------------------------------------
(* ht_status(h, 1, 0).  TAS of status_lock; with resize_increase the answer *)
(* is not looked at.                                                        *)
StatusLock(p) ==
  /\ pc[p] = "status"
  /\ status_lock' = LOCK_UPDATE
  /\ nest' = [nest EXCEPT ![p] = @ + 1]
  /\ Goto(p, "count")
  /\ UNCHANGED <<ht, resize_lock, ntables, num_buckets, num_expands, table_new,
                 lock, key, val, call, tab, ix, ret, resize, rs, puts>>

Capacity(t) == num_buckets[t] * Entries

(* pow2roundup, up to the bound MaxFactor.                                  *)
MaxFactor == 256
Pow2 == {1, 2, 4, 8, 16, 32, 64, 128, 256}
Pow2RoundUp(n) ==
  IF n = 0 THEN 1
  ELSE CHOOSE x \in Pow2 : x >= n /\ \A y \in Pow2 : y >= n => x <= y

(* How often n entries fit in CLHT_OCCUP_AFTER_RES per cent of the table.   *)
Ratio(t, n) == (100 * n) \div (Capacity(t) * CLHT_OCCUP_AFTER_RES)

(* Mutant: the ratio is used as it is.                                      *)
IncByRatio(t, n) == Ratio(t, n)

(* By how much ht_status grows a table in which it counted n entries.       *)
IncBy(t, n) ==
  LET by == Pow2RoundUp(Ratio(t, n))
  IN  IF by = 1 THEN 2 ELSE by

(* full_ratio > 0 && full_ratio < CLHT_PERC_FULL_HALVE: the resize is       *)
(* skipped.                                                                 *)
NearlyEmpty(t, n) == n > 0 /\ 100 * n < CLHT_PERC_FULL_HALVE * Capacity(t)

(* The entries are counted without locks while others put and remove, so    *)
(* any count up to the number of slots of the table can come out.  Factors  *)
(* that would exceed the bounds are left out.                               *)
Count(p) ==
  /\ pc[p] = "count"
  /\ \E n \in 0..(Capacity(ht) + num_expands[ht] * Entries) :
       IF NearlyEmpty(ht, n)
       THEN Goto(p, "unstatus") /\ UNCHANGED rs
       ELSE /\ Ratio(ht, n) <= MaxFactor                        \* bound
            /\ IncBy(ht, n) * num_buckets[ht] <= MaxBuckets     \* bound
            /\ rs' = [rs EXCEPT ![p].by = IncBy(ht, n)]
            /\ Goto(p, "resize")
  /\ UNCHANGED <<shared, call, tab, ix, ret, resize, nest, puts>>

StatusUnlock(p) ==
  /\ pc[p] = "unstatus"
  /\ status_lock' = LOCK_FREE
  /\ nest' = [nest EXCEPT ![p] = @ - 1]
  /\ IF nest[p] = 1
     THEN /\ Goto(p, "done")
          /\ resize' = [resize EXCEPT ![p] = FALSE]
          /\ rs' = [rs EXCEPT ![p] = NoResize]
     ELSE UNCHANGED <<pc, resize, rs>>
  /\ UNCHANGED <<ht, resize_lock, ntables, num_buckets, num_expands, table_new,
                 lock, key, val, call, tab, ix, ret, puts>>
-----------------------------------------------------------------------------
(* ht_resize_pes.  ht_old is read before resize_lock is taken.              *)
ResizeOld(p) ==
  /\ pc[p] = "resize"
  /\ rs' = [rs EXCEPT ![p].old = ht]
  /\ Goto(p, "tryresize")
  /\ UNCHANGED <<shared, call, tab, ix, ret, resize, nest, puts>>

(* TRYLOCK_ACQ fails: this resize is given up.                              *)
ResizeBusy(p) ==
  /\ pc[p] = "tryresize"
  /\ resize_lock # LOCK_FREE
  /\ Goto(p, "unstatus")
  /\ UNCHANGED <<shared, call, tab, ix, ret, resizing, puts>>

(* It succeeds: clht_hashtable_create of a table nobody else knows.         *)
ResizeStart(p) ==
  /\ pc[p] = "tryresize"
  /\ resize_lock = LOCK_FREE
  /\ ntables < MaxTables                                   \* bound
  /\ rs[p].by * num_buckets[rs[p].old] <= MaxBuckets       \* bound
  /\ resize_lock' = LOCK_UPDATE
  /\ ntables' = ntables + 1
  /\ num_buckets' = [num_buckets EXCEPT ![ntables + 1] =
                       rs[p].by * num_buckets[rs[p].old]]
  /\ rs' = [rs EXCEPT ![p].new = ntables + 1, ![p].bin = 0]
  /\ Goto(p, "marking")
  /\ UNCHANGED <<ht, status_lock, num_expands, table_new, lock, key, val,
                 call, tab, ix, ret, resize, nest, puts>>

(* The for loop over the buckets of ht_old goes on, or is done.             *)
NextBucket(p) ==
  IF rs[p].bin + 1 < num_buckets[rs[p].old]
  THEN Goto(p, "marking") /\ rs' = [rs EXCEPT ![p].bin = @ + 1]
  ELSE Goto(p, "swap") /\ UNCHANGED rs

(* Mutant: the mark is set over an update in progress.                      *)
MarkBucketOver(p) ==
  /\ pc[p] = "marking"
  /\ lock[rs[p].old][rs[p].bin] # LOCK_RESIZE
  /\ lock' = [lock EXCEPT ![rs[p].old][rs[p].bin] = LOCK_RESIZE]
  /\ ix' = [ix EXCEPT ![p] = 1]
  /\ Goto(p, "copy")
  /\ UNCHANGED <<ht, resize_lock, status_lock, ntables, num_buckets, num_expands,
                 table_new, key, val, call, tab, ret, resizing, puts>>

(* lock_acq_resize: waits for an update to release the bucket, marks it.    *)
MarkBucket(p) ==
  /\ pc[p] = "marking"
  /\ lock[rs[p].old][rs[p].bin] = LOCK_FREE
  /\ lock' = [lock EXCEPT ![rs[p].old][rs[p].bin] = LOCK_RESIZE]
  /\ ix' = [ix EXCEPT ![p] = 1]
  /\ Goto(p, "copy")
  /\ UNCHANGED <<ht, resize_lock, status_lock, ntables, num_buckets, num_expands,
                 table_new, key, val, call, tab, ret, resizing, puts>>

(* It was marked before: bucket_cpy leaves it alone.                        *)
MarkedBefore(p) ==
  /\ pc[p] = "marking"
  /\ lock[rs[p].old][rs[p].bin] = LOCK_RESIZE
  /\ NextBucket(p)
  /\ UNCHANGED <<shared, call, tab, ix, ret, resize, nest, puts>>

(* clht_put_seq into the private table: the first empty slot of the chain,  *)
(* or a new bucket, whose creation is counted but never triggers a resize.  *)
PutSeq(t, k, v) ==
  LET b == clht_hash(t, k)
      empty == SlotsWith(key[t][b], None)
  IN  IF empty = {}
      THEN /\ num_expands' = [num_expands EXCEPT ![t] = @ + 1]
           /\ key' = [key EXCEPT ![t][b] = @ \o NewBucket(k)]
           /\ val' = [val EXCEPT ![t][b] = @ \o NewBucket(v)]
      ELSE \E i \in empty :
             /\ \A j \in empty : i <= j
             /\ key' = [key EXCEPT ![t][b][i] = k]
             /\ val' = [val EXCEPT ![t][b][i] = v]
             /\ UNCHANGED num_expands

(* Mutant: only the head bucket of the chain is copied.                     *)
CopyHeadOnly(p) ==
  LET chain == key[rs[p].old][rs[p].bin]
      v     == val[rs[p].old][rs[p].bin][ix[p]]
  IN  /\ pc[p] = "copy"
      /\ IF chain[ix[p]] # None
         THEN PutSeq(rs[p].new, chain[ix[p]], v)
         ELSE UNCHANGED <<key, val, num_expands>>
      /\ IF ix[p] < Entries
         THEN ix' = [ix EXCEPT ![p] = @ + 1] /\ UNCHANGED <<pc, rs>>
         ELSE NextBucket(p) /\ UNCHANGED ix
      /\ UNCHANGED <<ht, resize_lock, status_lock, ntables, num_buckets,
                     table_new, lock, call, tab, ret, resize, nest, puts>>

(* bucket_cpy, one slot of the chain at a time.                             *)
CopySlot(p) ==
  LET chain == key[rs[p].old][rs[p].bin]
      v     == val[rs[p].old][rs[p].bin][ix[p]]
  IN  /\ pc[p] = "copy"
      /\ IF chain[ix[p]] # None
         THEN PutSeq(rs[p].new, chain[ix[p]], v)
         ELSE UNCHANGED <<key, val, num_expands>>
      /\ IF ix[p] < Len(chain)
         THEN ix' = [ix EXCEPT ![p] = @ + 1] /\ UNCHANGED <<pc, rs>>
         ELSE NextBucket(p) /\ UNCHANGED ix
      /\ UNCHANGED <<ht, resize_lock, status_lock, ntables, num_buckets,
                     table_new, lock, call, tab, ret, resize, nest, puts>>

(* ht_resize_again, then SWAP_U64 of h->ht.                                 *)
Swap(p) ==
  /\ pc[p] = "swap"
  /\ rs' = [rs EXCEPT ![p].again = num_expands[rs[p].new] >= Threshold(rs[p].new)]
  /\ ht' = rs[p].new
  /\ Goto(p, "publish")
  /\ UNCHANGED <<resize_lock, status_lock, ntables, num_buckets, num_expands,
                 table_new, lock, key, val, call, tab, ix, ret, resize, nest, puts>>

(* Mutant: table_new stays NULL.                                            *)
PublishNothing(p) ==
  /\ pc[p] = "publish"
  /\ Goto(p, "unresize")
  /\ UNCHANGED <<shared, call, tab, ix, ret, resizing, puts>>

(* ht_old->table_new = ht_new lets the waiting threads go on.               *)
Publish(p) ==
  /\ pc[p] = "publish"
  /\ table_new' = [table_new EXCEPT ![rs[p].old] = rs[p].new]
  /\ Goto(p, "unresize")
  /\ UNCHANGED <<ht, resize_lock, status_lock, ntables, num_buckets, num_expands,
                 lock, key, val, call, tab, ix, ret, resizing, puts>>

(* TRYLOCK_RLS(h->resize_lock); a new table that is full again is resized   *)
(* again, from within.                                                      *)
ResizeUnlock(p) ==
  /\ pc[p] = "unresize"
  /\ resize_lock' = LOCK_FREE
  /\ Goto(p, IF rs[p].again THEN "status" ELSE "unstatus")
  /\ UNCHANGED <<ht, status_lock, ntables, num_buckets, num_expands, table_new,
                 lock, key, val, call, tab, ix, ret, resizing, puts>>
-----------------------------------------------------------------------------
Get(p)    == GetVal(p) \/ GetKey(p) \/ GetCheck(p) \/ GetNext(p)
Exists(p) == ExistsKey(p) \/ ExistsNext(p)
Lock(p)   == LockAcquire(p) \/ LockResized(p) \/ AwaitNewTable(p) \/ Reread(p)
Put(p)    == PutFound(p) \/ PutVal(p) \/ PutKey(p) \/ PutExpand(p) \/ PutLink(p)
Remove(p) == RemoveKey(p) \/ RemoveMiss(p)
Status(p) == StatusLock(p) \/ Count(p) \/ StatusUnlock(p)
Resize(p) == \/ ResizeOld(p) \/ ResizeBusy(p) \/ ResizeStart(p)
             \/ MarkBucket(p) \/ MarkedBefore(p) \/ CopySlot(p)
             \/ Swap(p) \/ Publish(p) \/ ResizeUnlock(p)

(* What a thread does once its call is made.                                *)
Work(p) == Get(p) \/ Exists(p) \/ Lock(p) \/ Put(p) \/ Remove(p) \/ Release(p)
           \/ Status(p) \/ Resize(p) \/ Return(p)

(* The history of the key of every open call.                               *)
Watch ==
  seen' = [p \in Threads |->
             IF call'[p] = Idle THEN {}
             ELSE IF call[p] = Idle THEN {AbsMap'[call'[p].key]}
             ELSE seen[p] \cup {AbsMap'[call[p].key]}]

Next == (\E p \in Threads : Invoke(p) \/ Work(p)) /\ Watch

Spec == Init /\ [][Next]_vars

(* The scheduler runs every thread that has a call open.                    *)
FairSpec == Spec /\ \A p \in Threads : WF_vars(Work(p) /\ Watch)
-----------------------------------------------------------------------------
(* Properties *)

(* The threads inside a bucket lock.                                        *)
Updating == {"locked", "putkey", "putlink", "release"}
(* The thread that holds resize_lock, before and after the swap.            *)
Copying  == {"marking", "copy", "swap"}
Resizing == Copying \cup {"publish", "unresize"}
(* The threads inside ht_status.                                            *)
Sizing   == {"count", "resize", "tryresize", "unstatus"} \cup Resizing
(* The threads that look at a slot of the chain of their key.               *)
Scanning == {"get", "getkey", "getcheck", "getnext", "exists", "existsnext", "putkey"}
Labels   == {"idle", "done", "acq", "wait", "reread", "status"}
            \cup Scanning \cup Updating \cup Sizing

(* Types, and the shape of the chains: keys and values of a chain are       *)
(* parallel sequences of whole bucket_t's.                                  *)
TablesOK ==
  /\ ht \in Tables /\ ntables \in Tables /\ ht <= ntables
  /\ resize_lock \in {LOCK_FREE, LOCK_UPDATE}
  /\ status_lock \in {LOCK_FREE, LOCK_UPDATE}
  /\ num_buckets \in [Tables -> 1..MaxBuckets]
  /\ num_expands \in [Tables -> Nat]
  /\ table_new \in [Tables -> Tables \cup {None}]
  /\ lock \in [Tables -> [Bins -> {LOCK_FREE, LOCK_UPDATE, LOCK_RESIZE}]]
  /\ key \in [Tables -> [Bins -> Seq(Keys \cup {None})]]
  /\ val \in [Tables -> [Bins -> Seq(Vals \cup {None})]]
  /\ \A t \in Tables, b \in Bins : /\ Len(key[t][b]) = Len(val[t][b])
                                    /\ Len(key[t][b]) > 0
                                    /\ Len(key[t][b]) % Entries = 0

ResizeLocals == [old : Tables, new : Tables, bin : Bins, by : Nat \ {0}, again : BOOLEAN]

ThreadsOK ==
  /\ pc \in [Threads -> Labels]
  /\ call \in [Threads -> Calls \cup {Idle}]
  /\ tab \in [Threads -> Tables]
  /\ ix \in [Threads -> Nat \ {0}]
  /\ ret \in [Threads -> Vals \cup {None}]
  /\ resize \in [Threads -> BOOLEAN]
  /\ nest \in [Threads -> Nat]
  /\ rs \in [Threads -> ResizeLocals]

TypeOK ==
  /\ TablesOK
  /\ ThreadsOK
  /\ puts \in 0..MaxPuts
  /\ seen \in [Threads -> SUBSET (Vals \cup {None})]

(* No two threads are inside the lock of one bucket, and a lock that says   *)
(* update is held by a thread that will release it.                         *)
UpdateExclusion ==
  /\ \A p \in Threads : pc[p] \in Updating => LockOf(p) = LOCK_UPDATE
  /\ \A p, q \in Threads :
       /\ pc[p] \in Updating /\ pc[q] \in Updating
       /\ tab[p] = tab[q] /\ Bin(p) = Bin(q)
       => p = q
  /\ \A t \in Tables, b \in Bins : lock[t][b] = LOCK_UPDATE =>
       \E p \in Threads : pc[p] \in Updating /\ tab[p] = t /\ Bin(p) = b

(* A chain never holds a key twice, in any table that was ever current or   *)
(* is being filled: bucket_exists runs without the lock, and a put may find *)
(* that the table it looked at has been replaced in the meantime.           *)
UniqueKeys ==
  \A t \in Tables, b \in Bins : \A i, j \in 1..Len(key[t][b]) :
    key[t][b][i] = key[t][b][j] /\ key[t][b][i] # None => i = j

(* No thread updates a table that has been replaced: its writes would be    *)
(* lost.                                                                    *)
UpdatesHitCurrentTable == \A p \in Threads : pc[p] \in Updating => tab[p] = ht

(* ht_resize_pes reads h->ht before it has resize_lock.  If another resize  *)
(* replaced the table in between it would copy a dead table, and swap away  *)
(* everything stored since.                                                 *)
ResizesCurrentTable ==
  \A p \in Threads : pc[p] \in Copying => rs[p].old = ht /\ rs[p].new # ht

(* The size check that ht_resize_pes keeps commented out, on contents: when *)
(* the new table is swapped in it holds exactly what the old one holds.     *)
ResizeKeepsContents ==
  \A p \in Threads : pc[p] = "swap" =>
    \A k \in Keys : Lookup(rs[p].new, k) = Lookup(rs[p].old, k)

(* LOCK_RLS is a plain store of 0, so a release could erase a resize mark   *)
(* and let updates into a table that is already copied.  It never does.     *)
MarksStay ==
  [][\A t \in Tables, b \in Bins :
       lock[t][b] = LOCK_RESIZE => lock'[t][b] = LOCK_RESIZE]_vars

(* The inductive invariant behind the properties above, in parts.           *)

(* Cursors point into the chains, and only frames that exist are left.      *)
InRange ==
  \A p \in Threads :
    /\ pc[p] \in Scanning => ix[p] <= Len(Chain(p))
    /\ pc[p] = "copy" => ix[p] <= Len(key[rs[p].old][rs[p].bin])
    /\ pc[p] \in {"marking", "copy"} => rs[p].bin < num_buckets[rs[p].old]
    /\ pc[p] \in Sizing => nest[p] > 0

(* Threads use the current table or an older one, and every bucket of an    *)
(* older table carries the resize mark.                                     *)
OldTablesMarked ==
  /\ \A p \in Threads : tab[p] <= ht
  /\ \A t \in Tables : t < ht =>
       \A b \in 0..(num_buckets[t] - 1) : lock[t][b] = LOCK_RESIZE

(* One thread at most resizes, into a table that was created after the      *)
(* current one, and the buckets it is done with carry the mark.             *)
OneResizer ==
  /\ \A p \in Threads : pc[p] \in Resizing => resize_lock = LOCK_UPDATE
  /\ \A p, q \in Threads : pc[p] \in Resizing /\ pc[q] \in Resizing => p = q
  /\ (\A p \in Threads : pc[p] \notin Copying) => ntables = ht
  /\ \A p \in Threads : pc[p] \in Copying =>
       /\ rs[p].old = ht /\ rs[p].new = ht + 1 /\ ntables = ht + 1
       /\ \A b \in 0..(num_buckets[ht] - 1) :
            \/ b < rs[p].bin
            \/ pc[p] = "copy" /\ b = rs[p].bin
            \/ pc[p] = "swap"
            => lock[ht][b] = LOCK_RESIZE

(* A thread that is bound to resize the current table: because it created   *)
(* the chained bucket that reached the threshold, or because the table it   *)
(* has just swapped in reached it while it was filled.                      *)
Triggered(p) ==
  \/ pc[p] \in {"putlink", "release"} /\ resize[p]
  \/ pc[p] \in {"status", "count", "resize", "tryresize"} \cup Copying
  \/ pc[p] \in {"publish", "unresize"} /\ rs[p].again

(* There is at most one, because num_expands is incremented atomically and  *)
(* compared with == : a table is resized on account of one put only.  This  *)
(* is what makes it harmless that ht_old is read before resize_lock.        *)
OneTrigger ==
  /\ \A p, q \in Threads : Triggered(p) /\ Triggered(q) => p = q
  /\ \A p \in Threads :
       /\ Triggered(p) => num_expands[ht] >= Threshold(ht)
       /\ pc[p] = "tryresize" => rs[p].old = ht
       /\ resize[p] => pc[p] \in {"putlink", "release", "status"} \cup Sizing

IndInv == /\ TypeOK /\ InRange /\ UpdateExclusion
          /\ OldTablesMarked /\ OneResizer /\ OneTrigger

(* The invariant behind the contents of the tables and the answers of the   *)
(* calls, in parts.  It is inductive together with IndInv.                  *)

(* A key is in the bucket it hashes to, and has a value.                    *)
KeysInPlace ==
  \A t \in Tables, b \in Bins : \A i \in 1..Len(key[t][b]) :
    key[t][b][i] # None => clht_hash(t, key[t][b][i]) = b /\ val[t][b][i] # None

(* A table that does not exist yet is empty.                                *)
FreshTables ==
  \A t \in Tables, b \in Bins : t > ntables => key[t][b] = EmptyChain

(* A mark in the current table was set by the resize that runs, on a bucket *)
(* that it has copied or is copying: none is skipped as marked before.      *)
Passed(p, b) == b < rs[p].bin \/ (b = rs[p].bin /\ pc[p] # "marking")
MarksOfResizer ==
  \A t \in Tables, b \in Bins : lock[t][b] = LOCK_RESIZE =>
    t < ht \/ (t = ht /\ \E p \in Threads : pc[p] \in Copying /\ Passed(p, b))

(* The new table of a resize holds the entries of the slots that are        *)
(* already copied, and no others.                                           *)
Copied(p, b, i) ==
  b < rs[p].bin \/ (b = rs[p].bin /\ (pc[p] = "swap" \/ (pc[p] = "copy" /\ i < ix[p])))
CopiedKey(p, k) ==
  LET b == clht_hash(rs[p].old, k)
  IN  \E i \in SlotsWith(key[rs[p].old][b], k) : Copied(p, b, i)
CopyFaithful ==
  \A p \in Threads : pc[p] \in Copying =>
    /\ pc[p] = "swap" => rs[p].bin + 1 = num_buckets[rs[p].old]
    /\ \A k \in Keys :
         Lookup(rs[p].new, k) = IF CopiedKey(p, k) THEN Lookup(rs[p].old, k) ELSE None

(* What a call is, and has as its result, at each place of the code.        *)
Phases ==
  \A p \in Threads :
    /\ call[p] = Idle <=> pc[p] = "idle"
    /\ call[p].op = "put" => call[p].val # None
    /\ pc[p] \in {"get", "getkey", "getcheck", "getnext"} => call[p].op = "get"
    /\ pc[p] \in {"exists", "existsnext", "acq", "wait", "reread", "locked", "release"} =>
         call[p].op \in {"put", "remove"}
    /\ pc[p] \in {"putkey", "putlink", "status"} \cup Sizing \/ resize[p] =>
         call[p].op = "put"
    /\ pc[p] \in {"idle", "get", "getnext", "exists", "existsnext", "acq", "wait", "reread", "locked",
                  "putkey", "putlink"} => ret[p] = None
    /\ pc[p] \in {"status"} \cup Sizing \/ (pc[p] = "release" /\ resize[p]) => ret[p] # None

(* A put that is about to store its entry still finds the key nowhere in    *)
(* the chain, and its slot free.                                            *)
PutsReady ==
  \A p \in Threads :
    /\ pc[p] \in {"putkey", "putlink"} => SlotsWith(Chain(p), call[p].key) = {}
    /\ pc[p] = "putkey" => KeyAt(p) = None /\ ValAt(p) = call[p].val

(* The value of a put that has not stored it yet is nowhere to be seen.     *)
Pending(p) ==
  /\ call[p].op = "put"
  /\ pc[p] \in {"exists", "existsnext", "acq", "wait", "reread", "locked", "putlink"}
Comparing(p) == pc[p] \in {"getkey", "getcheck"}
FreshValues ==
  /\ \A t \in Tables, b \in Bins : \A i \in 1..Len(val[t][b]) :
       /\ val[t][b][i] <= puts
       /\ \A p \in Threads : Pending(p) => val[t][b][i] # call[p].val
  /\ \A p, q \in Threads :
       /\ call[q].val <= puts
       /\ Comparing(q) => ret[q] <= puts
       /\ Pending(p) /\ Comparing(q) => ret[q] # call[p].val
       /\ Pending(p) /\ call[q].op = "put" /\ p # q => call[q].val # call[p].val

(* What the key of an open call has now in the table, and in the replaced   *)
(* table the call may still be looking at, it had during the call.          *)
SeenNow ==
  \A p \in Threads :
    IF call[p] = Idle THEN seen[p] = {}
    ELSE AbsMap[call[p].key] \in seen[p] /\ Lookup(tab[p], call[p].key) \in seen[p]

(* A search that has passed its key by has seen it missing.                 *)
NotMissed ==
  \A p \in Threads :
    pc[p] \in {"get", "getkey", "getnext", "exists", "existsnext"} =>
      \/ None \in seen[p]
      \/ \E i \in SlotsWith(Chain(p), call[p].key) :
           ix[p] <= i /\ (pc[p] \in {"getnext", "existsnext"} => ix[p] < i)

(* A get that compares: the value it has read is the one of its key, or     *)
(* the slot has been emptied since.                                         *)
ValueOfKey ==
  \A p \in Threads :
    /\ pc[p] = "getkey" /\ KeyAt(p) = call[p].key /\ ValAt(p) # ret[p] => None \in seen[p]
    /\ pc[p] = "getcheck" /\ (KeyAt(p) # call[p].key \/ ValAt(p) # ret[p]) => None \in seen[p]
    /\ pc[p] = "getcheck" /\ ValAt(p) = ret[p] => ret[p] \in seen[p]

(* An update that is refused under the lock was right.                      *)
Refused ==
  \A p \in Threads : pc[p] = "release" /\ ret[p] = None =>
    /\ call[p].op = "put" => seen[p] \cap Vals # {}
    /\ call[p].op = "remove" => None \in seen[p]

ContentsInv == KeysInPlace /\ FreshTables /\ UniqueKeys /\ MarksOfResizer
               /\ CopyFaithful /\ Phases /\ PutsReady
AnswersInv  == FreshValues /\ SeenNow /\ NotMissed /\ ValueOfKey /\ Refused
MapInv      == ContentsInv /\ AnswersInv

(* Every answer of the table is one the abstract map could give: puts and   *)
(* removes take effect exactly once, whatever resizes run, and gets and     *)
(* refusals were right at some instant of the call.                         *)
Stage(p) ==
  IF pc[p] \in {"idle", "done"} THEN pc[p]
  ELSE IF call[p].op # "get" /\ ret[p] # None THEN "applied" ELSE "open"
KV == INSTANCE KVMap WITH
        map   <- AbsMap,
        stage <- [p \in Threads |-> Stage(p)],
        res   <- [p \in Threads |-> IF Stage(p) = "open" THEN None ELSE ret[p]]
Linearizable == KV!KVSpec

(* Every call comes to an end: nobody waits for ever for a bucket lock, for *)
(* table_new or for a resize.                                               *)
CallsReturn == \A p \in Threads : call[p] # Idle ~> call[p] = Idle
=============================================================================
