----------------------------- MODULE ClhtLfRes -----------------------------
(***************************************************************************)
(* CLHT-LF-RESIZE (src/clht/src/clht_lf_res.c, include/clht_lf_res.h) with *)
(* the thread versions of src/clht/src/clht_gc.c: the lock-free table that *)
(* a put replaces by a larger one when its bucket is full.                 *)
(*                                                                         *)
(* Updates wait for resize_lock to be free, but do not take it.  The       *)
(* resizer raises the version of the table, waits until every thread has   *)
(* published a newer one (or the maximum, for "no update"), and copies.    *)
(*                                                                         *)
(* ClhtLf shows that a bucket is a linearizable map in itself.  Here one   *)
(* step on a bucket is atomic: a put reserves a slot when its search finds *)
(* neither the key nor a full bucket, and publishes it in a second step;   *)
(* what a compare-and-swap validated in ClhtLf is in the guards.  All else *)
(* is one action per access to shared memory.                              *)
(***************************************************************************)
EXTENDS Naturals, FiniteSets

CONSTANTS
  Threads,       \* the threads, each with one call open at a time
  Ops,           \* the functions each thread calls
  Keys,          \* the keys, addresses other than 0
  KEY_BUCKT,     \* slots of a bucket
  InitBuckets,   \* num_buckets of clht_create, a power of two
  Retries,       \* CLHT_NO_EMPTY_SLOT_TRIES
  PercHalve,     \* CLHT_PERC_FULL_HALVE
  MaxPuts,       \* bound: calls of clht_put
  MaxTables      \* bound: tables, the first included

ASSUME OpsAssumption     == Ops \in [Threads -> SUBSET {"put", "get", "remove"}]
ASSUME KeysAssumption    == Keys \subseteq Nat \ {0}
ASSUME BucketsAssumption == /\ KEY_BUCKT \in Nat \ {0} /\ InitBuckets \in Nat \ {0}
                            /\ Retries \in Nat /\ PercHalve \in 0..100
ASSUME BoundsAssumption  == MaxPuts \in Nat /\ MaxTables \in Nat \ {0}

None   == 0
Vals   == 1..MaxPuts       \* the n-th call of clht_put brings value n
Slots  == 1..KEY_BUCKT
Tables == 1..MaxTables     \* in the order of their creation

(* Table versions grow by 2 with each table and by 1 when its resize        *)
(* begins; -1 of clht_gc_thread_version_max is the largest size_t.          *)
MAX_VERSION == 2 * MaxTables + 1

(* A slot of a bucket: INVLD, or INSRT or VALID with a key and a value.     *)
INVLD == [state |-> "INVLD", key |-> None, val |-> None]
NoEntries == [j \in Slots |-> INVLD]
-----------------------------------------------------------------------------
VARIABLES
  (* clht_t *)
  ht, resize_lock, status_lock,
  (* clht_hashtable_t, per table that was created *)
  num_buckets,    \* 0 for a table that does not exist yet
  version,
  table,          \* per bucket and slot, the entry
  (* ht_ts_t of each thread *)
  ts,
  (* per thread: where it is and its local variables *)
  pc, call,
  tab,            \* hashtable, or ht_old of a resize
  empty_index,    \* the slot this put has reserved, None if it has none
  empty_retries,
  left,           \* threads that this pass over version_list has still to see
  bin,            \* the next bucket the resizer copies
  ret,
  (* history *)
  puts,
  seen,           \* the values the key of the open call had since its start
  overtaken       \* has an update been in a table while it was copied or after

shared == <<ht, resize_lock, status_lock, num_buckets, version, table>>
locals == <<tab, empty_index, empty_retries, left, bin, ret>>
vars == <<shared, ts, pc, call, locals, puts, seen, overtaken>>

Calls == [op : {"put", "get", "remove"}, key : Keys, val : Vals \cup {None}]
Idle  == [op |-> "idle", key |-> None, val |-> None]

(* clht_create, and clht_gc_thread_init of every thread.  The version of    *)
(* the first table is whatever memalign returned; only its order with the   *)
(* later ones matters.                                                      *)
Init ==
  /\ ht = 1
  /\ resize_lock = FALSE
  /\ status_lock = FALSE
  /\ num_buckets = [t \in Tables |-> IF t = 1 THEN InitBuckets ELSE 0]
  /\ version = [t \in Tables |-> 0]
  /\ table = [t \in Tables |-> IF t = 1 THEN [b \in 0..InitBuckets - 1 |-> NoEntries]
                                        ELSE << >>]
  /\ ts = [p \in Threads |-> version[1]]
  /\ pc = [p \in Threads |-> "idle"]
  /\ call = [p \in Threads |-> Idle]
  /\ tab = [p \in Threads |-> 1]
  /\ empty_index = [p \in Threads |-> None]
  /\ empty_retries = [p \in Threads |-> 0]
  /\ left = [p \in Threads |-> {}]
  /\ bin = [p \in Threads |-> 0]
  /\ ret = [p \in Threads |-> None]
  /\ puts = 0
  /\ seen = [p \in Threads |-> {}]
  /\ overtaken = FALSE
-----------------------------------------------------------------------------
\* Mutant: the higher bits of the key, so that two buckets feed one.
HigherBits(n, k) == (k \div n) % n

(* key & hash of a table of n buckets.                                      *)
clht_hash(n, k) == k % n

Bin(p)    == clht_hash(num_buckets[tab[p]], call[p].key)
Bucket(p) == table[tab[p]][Bin(p)]

(* clht_bucket_search: the slots of a bucket that hold a key.               *)
Holding(bucket, k) == {j \in Slots : bucket[j].state = "VALID" /\ bucket[j].key = k}
Held(bucket, k) == IF Holding(bucket, k) = {} THEN None
                   ELSE bucket[CHOOSE j \in Holding(bucket, k) : TRUE].val

\* Mutant: a slot that is VALID will do.
IsNotReserved(bucket, j) == bucket[j].state # "INSRT"

(* snap_get_empty_index                                                     *)
IsEmptyIndex(bucket, j) ==
  /\ bucket[j] = INVLD
  /\ \A l \in 1..(j - 1) : bucket[l] # INVLD

Lookup(t, k) == Held(table[t][clht_hash(num_buckets[t], k)], k)
Contents(t)  == [k \in Keys |-> Lookup(t, k)]
AbsMap       == Contents(ht)

Goto(p, l) == pc' = [pc EXCEPT ![p] = l]
SetSlot(p, j, e) == table' = [table EXCEPT ![tab[p]][Bin(p)][j] = e]
-----------------------------------------------------------------------------
(* Calls and returns.  A get is given the table its caller read from h->ht. *)
Invoke(p) ==
  /\ pc[p] = "idle"
  /\ \E c \in Calls :
       /\ c.op \in Ops[p]
       /\ IF c.op = "put" THEN puts < MaxPuts /\ c.val = puts + 1 ELSE c.val = None
       /\ call' = [call EXCEPT ![p] = c]
       /\ puts' = IF c.op = "put" THEN puts + 1 ELSE puts
       /\ Goto(p, IF c.op = "get" THEN "table" ELSE "check")
  /\ UNCHANGED <<shared, ts, locals>>

Return(p) ==
  /\ pc[p] = "done"
  /\ Goto(p, "idle")
  /\ call' = [call EXCEPT ![p] = Idle]
  /\ tab' = [tab EXCEPT ![p] = 1]
  /\ empty_retries' = [empty_retries EXCEPT ![p] = 0]
  /\ ret' = [ret EXCEPT ![p] = None]
  /\ UNCHANGED <<shared, ts, empty_index, left, bin, puts>>

(* CLHT_CHECK_RESIZE: wait while a resize goes on, and publish the version  *)
(* of the table meanwhile.                                                  *)
CheckResize(p) ==
  /\ pc[p] = "check"
  /\ Goto(p, IF resize_lock THEN "await" ELSE "table")
  /\ UNCHANGED <<shared, ts, call, locals, puts>>

PublishVersion(p) ==
  /\ pc[p] = "await"
  /\ ts' = [ts EXCEPT ![p] = version[ht]]
  /\ Goto(p, "check")
  /\ UNCHANGED <<shared, call, locals, puts>>

ReadTable(p) ==
  /\ pc[p] = "table"
  /\ tab' = [tab EXCEPT ![p] = ht]
  /\ Goto(p, IF call[p].op = "get" THEN "used" ELSE call[p].op)
  /\ UNCHANGED <<shared, ts, call, empty_index, empty_retries, left, bin, ret, puts>>

(* clht_get: publish the version of the table, then search.  A get never    *)
(* takes the version back.                                                  *)
GetVersion(p) ==
  /\ pc[p] = "used"
  /\ ts' = [ts EXCEPT ![p] = version[tab[p]]]
  /\ Goto(p, "get")
  /\ UNCHANGED <<shared, call, locals, puts>>

Get(p) ==
  /\ pc[p] = "get"
  /\ ret' = [ret EXCEPT ![p] = Held(Bucket(p), call[p].key)]
  /\ Goto(p, "done")
  /\ UNCHANGED <<shared, ts, call, tab, empty_index, empty_retries, left, bin, puts>>

(* CLHT_NO_UPDATE at the end of every update.                               *)
NoUpdate(p) ==
  /\ pc[p] = "leave"
  /\ ts' = [ts EXCEPT ![p] = MAX_VERSION]
  /\ Goto(p, "done")
  /\ UNCHANGED <<shared, call, locals, puts>>
-----------------------------------------------------------------------------
(* clht_put, up to its first compare-and-swap: the key is there, or the     *)
(* bucket is full, or a slot is reserved.                                   *)
PutFound(p) ==
  /\ pc[p] = "put"
  /\ Held(Bucket(p), call[p].key) # None
  /\ Goto(p, "leave")
  /\ UNCHANGED <<shared, ts, call, locals, puts>>

PutFull(p) ==
  /\ pc[p] = "put"
  /\ Held(Bucket(p), call[p].key) = None
  /\ \A j \in Slots : Bucket(p)[j] # INVLD
  /\ IF empty_retries[p] >= Retries
     THEN Goto(p, "status") /\ empty_retries' = [empty_retries EXCEPT ![p] = 0]
     ELSE Goto(p, "check") /\ empty_retries' = [empty_retries EXCEPT ![p] = @ + 1]
  /\ UNCHANGED <<shared, ts, call, tab, empty_index, left, bin, ret, puts>>

PutReserve(p) ==
  /\ pc[p] = "put"
  /\ Held(Bucket(p), call[p].key) = None
  /\ \E j \in Slots :
       /\ IsEmptyIndex(Bucket(p), j)
       /\ SetSlot(p, j, [state |-> "INSRT", key |-> call[p].key, val |-> call[p].val])
       /\ empty_index' = [empty_index EXCEPT ![p] = j]
  /\ Goto(p, "publish")
  /\ UNCHANGED <<ht, resize_lock, status_lock, num_buckets, version, ts, call, tab,
                 empty_retries, left, bin, ret, puts>>

(* The second compare-and-swap, which only succeeds under the version of a  *)
(* search that did not find the key; otherwise the slot is given back.      *)
PutPublish(p) ==
  /\ pc[p] = "publish"
  /\ IF Held(Bucket(p), call[p].key) = None
     THEN /\ SetSlot(p, empty_index[p], [state |-> "VALID", key |-> call[p].key,
                                         val |-> call[p].val])
          /\ ret' = [ret EXCEPT ![p] = call[p].val]
     ELSE SetSlot(p, empty_index[p], INVLD) /\ UNCHANGED ret
  /\ empty_index' = [empty_index EXCEPT ![p] = None]
  /\ Goto(p, "leave")
  /\ UNCHANGED <<ht, resize_lock, status_lock, num_buckets, version, ts, call, tab,
                 empty_retries, left, bin, puts>>

clht_put(p) == PutFound(p) \/ PutFull(p) \/ PutReserve(p) \/ PutPublish(p)

clht_remove(p) ==
  /\ pc[p] = "remove"
  /\ LET slots == Holding(Bucket(p), call[p].key)
     IN  IF slots = {} THEN UNCHANGED <<table, ret>>
         ELSE \E j \in slots : /\ ret' = [ret EXCEPT ![p] = Bucket(p)[j].val]
                               /\ SetSlot(p, j, INVLD)
  /\ Goto(p, "leave")
  /\ UNCHANGED <<ht, resize_lock, status_lock, num_buckets, version, ts, call, tab,
                 empty_index, empty_retries, left, bin, puts>>
-----------------------------------------------------------------------------
(* ht_status(h, 0, 2, 0), called by a put whose bucket is full.             *)
StatusLock(p) ==
  /\ pc[p] = "status"
  /\ status_lock' = TRUE
  /\ Goto(p, IF status_lock THEN "check" ELSE "count")
  /\ UNCHANGED <<ht, resize_lock, num_buckets, version, table, ts, call, locals, puts>>

(* The entries of the table in percent of its slots.  Below PercHalve the   *)
(* table is left as it is, emergency or not; otherwise the factor is 2,     *)
(* since CLHT_OCCUP_AFTER_RES is 40.  MaxTables ends the growth.            *)
Entries(t) == {pl \in (DOMAIN table[t]) \X Slots : table[t][pl[1]][pl[2]].state = "VALID"}

Count(p) ==
  /\ pc[p] = "count"
  /\ tab' = [tab EXCEPT ![p] = ht]
  /\ LET size == 100 * Cardinality(Entries(ht))
         full == num_buckets[ht] * KEY_BUCKT
     IN  Goto(p, IF (size > 0 /\ size < PercHalve * full) \/ ht = MaxTables
                 THEN "unlock" ELSE "resize")
  /\ UNCHANGED <<shared, ts, call, empty_index, empty_retries, left, bin, ret, puts>>

StatusUnlock(p) ==
  /\ pc[p] = "unlock"
  /\ status_lock' = FALSE
  /\ Goto(p, "check")
  /\ UNCHANGED <<ht, resize_lock, num_buckets, version, table, ts, call, locals, puts>>
-----------------------------------------------------------------------------
(* ht_resize_pes(h, 1, 2).  The new table is the next one.                  *)
New(p) == tab[p] + 1
NewSize(p) == 2 * num_buckets[tab[p]]   \* of the new table

ResizeLock(p) ==
  /\ pc[p] = "resize"
  /\ resize_lock' = TRUE
  /\ Goto(p, IF resize_lock THEN "unlock" ELSE "start")
  /\ UNCHANGED <<ht, status_lock, num_buckets, version, table, ts, call, locals, puts>>

(* ht_old is read again under the lock.                                     *)
Start(p) ==
  /\ pc[p] = "start"
  /\ tab' = [tab EXCEPT ![p] = ht]
  /\ num_buckets' = [num_buckets EXCEPT ![ht + 1] = 2 * num_buckets[ht]]
  /\ table' = [table EXCEPT ![ht + 1] = [b \in 0..(2 * num_buckets[ht] - 1) |-> NoEntries]]
  /\ version' = [version EXCEPT ![ht] = @ + 1, ![ht + 1] = version[ht] + 2]
  /\ ts' = [ts EXCEPT ![p] = version[ht] + 1]
  /\ left' = [left EXCEPT ![p] = Threads]
  /\ Goto(p, "grace")
  /\ UNCHANGED <<ht, resize_lock, status_lock, call, empty_index, empty_retries, bin,
                 ret, puts>>

\* Mutant: the version of before the resize will do.
GraceTooShort(p) ==
  /\ pc[p] = "grace" /\ left[p] # {}
  /\ \E q \in left[p] :
       left' = [left EXCEPT ![p] = IF ts[q] >= version[tab[p]] - 1 THEN @ \ {q} ELSE Threads]
  /\ UNCHANGED <<shared, ts, pc, call, tab, empty_index, empty_retries, bin, ret, puts>>

(* clht_gc_min_version_used: a pass over the threads, in the order of their *)
(* list, that begins again as long as one has a version of before.          *)
Grace(p) ==
  /\ pc[p] = "grace" /\ left[p] # {}
  /\ \E q \in left[p] :
       left' = [left EXCEPT ![p] = IF ts[q] >= version[tab[p]] THEN @ \ {q} ELSE Threads]
  /\ UNCHANGED <<shared, ts, pc, call, tab, empty_index, empty_retries, bin, ret, puts>>

GraceOver(p) ==
  /\ pc[p] = "grace" /\ left[p] = {}
  /\ Goto(p, "copy")
  /\ UNCHANGED <<shared, ts, call, locals, puts>>

\* Mutant: an entry goes into both buckets.
MovingBoth(p, b) == {j \in Slots : table[tab[p]][bin[p]][j].state = "VALID"}

(* The valid entries of the bucket the resizer copies that go to bucket b   *)
(* of the new table.                                                        *)
Moving(p, b) == {j \in Slots : /\ table[tab[p]][bin[p]][j].state = "VALID"
                               /\ clht_hash(NewSize(p), table[tab[p]][bin[p]][j].key) = b}
Free(entries) == {j \in Slots : entries[j].key = None}
Rank(js, j)   == Cardinality({l \in js : l <= j})

(* bucket_cpy and clht_put_seq: what comes to a bucket, in its order, goes  *)
(* into the free slots there; what finds none is dropped.                   *)
clht_put_seq(p, b) ==
  LET entries == table[New(p)][b]
      Coming(j) == {l \in Moving(p, b) : Rank(Moving(p, b), l) = Rank(Free(entries), j)}
  IN  [j \in Slots |-> IF entries[j].key # None \/ Coming(j) = {} THEN entries[j]
                       ELSE table[tab[p]][bin[p]][CHOOSE l \in Coming(j) : TRUE]]

Copy(p) ==
  /\ pc[p] = "copy" /\ bin[p] < num_buckets[tab[p]]
  /\ table' = [table EXCEPT ![New(p)] = [b \in DOMAIN @ |-> clht_put_seq(p, b)]]
  /\ bin' = [bin EXCEPT ![p] = @ + 1]
  /\ UNCHANGED <<ht, resize_lock, status_lock, num_buckets, version, ts, pc, call, tab,
                 empty_index, empty_retries, left, ret, puts>>

Copied(p) ==
  /\ pc[p] = "copy" /\ bin[p] = num_buckets[tab[p]]
  /\ Goto(p, "swap")
  /\ UNCHANGED <<shared, ts, call, locals, puts>>

Swap(p) ==
  /\ pc[p] = "swap"
  /\ ht' = New(p)
  /\ bin' = [bin EXCEPT ![p] = 0]
  /\ Goto(p, "release")
  /\ UNCHANGED <<resize_lock, status_lock, num_buckets, version, table, ts, call, tab,
                 empty_index, empty_retries, left, ret, puts>>

\* Mutant: the lock is kept.
NoRelease(p) ==
  /\ pc[p] = "release"
  /\ Goto(p, "unlock")
  /\ UNCHANGED <<shared, ts, call, locals, puts>>

Release(p) ==
  /\ pc[p] = "release"
  /\ resize_lock' = FALSE
  /\ Goto(p, "unlock")
  /\ UNCHANGED <<ht, status_lock, num_buckets, version, table, ts, call, locals, puts>>

ht_resize_pes(p) == \/ ResizeLock(p) \/ Start(p) \/ Grace(p) \/ GraceOver(p)
                    \/ Copy(p) \/ Copied(p) \/ Swap(p) \/ Release(p)

ht_status(p) == StatusLock(p) \/ Count(p) \/ ht_resize_pes(p) \/ StatusUnlock(p)
-----------------------------------------------------------------------------
Work(p) == \/ CheckResize(p) \/ PublishVersion(p) \/ ReadTable(p)
           \/ GetVersion(p) \/ Get(p) \/ clht_put(p) \/ clht_remove(p)
           \/ NoUpdate(p) \/ ht_status(p) \/ Return(p)

(* A table that a resizer no longer waits for, and the updates in it.       *)
Settled(t) == t # ht \/ \E r \in Threads : pc[r] \in {"copy", "swap"} /\ tab[r] = t
Updating(p) == pc[p] \in {"put", "publish", "remove"}

Watch ==
  /\ seen' = [p \in Threads |->
                IF call'[p] = Idle THEN {}
                ELSE IF call[p] = Idle THEN {AbsMap'[call'[p].key]}
                ELSE seen[p] \cup {AbsMap'[call[p].key]}]
  /\ overtaken' = (overtaken \/ \E p \in Threads : (Updating(p) /\ Settled(tab[p]))')

Next == (\E p \in Threads : Invoke(p) \/ Work(p)) /\ Watch

Spec == Init /\ [][Next]_vars

(* The scheduler runs every thread that has a call open.                    *)
FairSpec == Spec /\ \A p \in Threads : WF_vars(Work(p) /\ Watch)
-----------------------------------------------------------------------------
(* Properties *)

Labels == {"idle", "done", "check", "await", "table", "used", "get", "put", "publish",
           "remove", "leave", "status", "count", "unlock", "resize", "start", "grace",
           "copy", "swap", "release"}

(* Types; a table has the buckets its size says, twice those of the table   *)
(* before it, and an entry is in the bucket of its key.                     *)
Entry == {INVLD} \cup [state : {"INSRT", "VALID"}, key : Keys, val : Vals]

TypeOK ==
  /\ ht \in Tables
  /\ resize_lock \in BOOLEAN /\ status_lock \in BOOLEAN
  /\ num_buckets \in [Tables -> Nat] /\ num_buckets[1] = InitBuckets
  /\ \A t \in Tables \ {1} : num_buckets[t] \in {0, 2 * num_buckets[t - 1]}
  /\ version \in [Tables -> 0..MAX_VERSION]
  /\ table = [t \in Tables |-> table[t]]
  /\ \A t \in Tables : /\ table[t] \in [0..(num_buckets[t] - 1) -> [Slots -> Entry]]
                       /\ \A b \in 0..(num_buckets[t] - 1) : \A j \in Slots :
                            table[t][b][j].state = "VALID" =>
                              clht_hash(num_buckets[t], table[t][b][j].key) = b
  /\ ts \in [Threads -> 0..MAX_VERSION]
  /\ pc \in [Threads -> Labels]
  /\ call \in [Threads -> Calls \cup {Idle}]
  /\ tab \in [Threads -> Tables]
  /\ empty_index \in [Threads -> Slots \cup {None}]
  /\ empty_retries \in [Threads -> 0..Retries]
  /\ left \in [Threads -> SUBSET Threads]
  /\ bin \in [Threads -> Nat]
  /\ ret \in [Threads -> Vals \cup {None}]
  /\ puts \in 0..MaxPuts
  /\ overtaken \in BOOLEAN

(* The grace period works for every thread whose version says it is in an   *)
(* update: only one with the maximum, "no update", can be in a table that   *)
(* is copied or replaced.  The wait is a pass over versions read one by     *)
(* one, while threads go on to publish theirs.                              *)
GraceForVisible ==
  \A p \in Threads : Updating(p) /\ Settled(tab[p]) => ts[p] = MAX_VERSION

(* The new table holds what the old one holds when it takes its place, if   *)
(* no update was in the old one since the copy began.  In particular no     *)
(* bucket of it is fed by two buckets of the old one, or twice by one: it   *)
(* could overflow, and clht_put_seq drops what finds no slot.               *)
ResizeKeepsContents ==
  \A p \in Threads : pc[p] = "swap" /\ ~overtaken => Contents(New(p)) = AbsMap

(* Why they hold.  The version of a table until its resize begins, and the  *)
(* steps under status_lock and resize_lock.                                 *)
Base(t) == 2 * (t - 1)
Copying  == {"grace", "copy", "swap"}
InStatus == {"count", "unlock", "resize", "start", "release"} \cup Copying

Phase(p) ==
  /\ pc[p] # "idle" => call[p] \in Calls
  /\ call[p].op = "put" => call[p].val \in Vals
  /\ pc[p] \in {"put", "publish"} => call[p].op = "put"
  /\ pc[p] = "remove" => call[p].op = "remove"
  /\ pc[p] = "publish" => empty_index[p] \in Slots

(* One thread at a time is in ht_status; the next table is twice the size   *)
(* of the one it copies, whose version it has raised, and its buckets are   *)
(* free until the one that feeds them is copied.                            *)
Locked ==
  /\ \A p, q \in Threads : pc[p] \in InStatus /\ pc[q] \in InStatus => p = q
  /\ \A p \in Threads : /\ pc[p] \in InStatus => status_lock
                        /\ pc[p] \in {"start", "release"} \cup Copying => resize_lock
NotFed(p) ==
  \A b \in 0..(num_buckets[ht + 1] - 1) :
    bin[p] <= b % num_buckets[ht] => table[ht + 1][b] = NoEntries
Resizes(p) ==
  /\ pc[p] \in {"resize", "start"} \cup Copying => ht < MaxTables
  /\ pc[p] \in Copying => /\ tab[p] = ht /\ num_buckets[ht + 1] = 2 * num_buckets[ht]
                          /\ version[ht + 1] = Base(ht + 1)
  /\ pc[p] \in Copying => NotFed(p)
  /\ bin[p] \in CASE pc[p] = "copy" -> 0..num_buckets[ht]
                   [] pc[p] = "swap" -> {num_buckets[ht]}
                   [] OTHER -> {0}
Versions ==
  /\ \A t \in 1..ht : num_buckets[t] > 0 /\ version[t] \in {Base(t), Base(t) + 1}
  /\ version[ht] = IF \E p \in Threads : pc[p] \in Copying THEN Base(ht) + 1 ELSE Base(ht)

(* A thread in an update has published no newer version than that of its    *)
(* table before its resize, unless the maximum; so a resizer that has seen  *)
(* a newer one has seen the maximum.                                        *)
Published(p) ==
  /\ tab[p] <= ht
  /\ ts[p] <= version[ht] \/ ts[p] = MAX_VERSION
  /\ pc[p] = "table" /\ call[p].op # "get" => ts[p] <= Base(ht) \/ ts[p] = MAX_VERSION
  /\ Updating(p) => ts[p] <= Base(tab[p]) \/ ts[p] = MAX_VERSION
  /\ Updating(p) /\ tab[p] # ht => ts[p] = MAX_VERSION
Waited(r) ==
  /\ pc[r] \in Copying => \A q \in Threads \ left[r] :
       (pc[q] = "table" /\ call[q].op # "get") \/ (Updating(q) /\ tab[q] = ht) =>
         ts[q] = MAX_VERSION
  /\ pc[r] \in {"copy", "swap"} => left[r] = {}

(* No key is twice in a bucket; what is copied so far is in the new table.  *)
KeysOnce ==
  \A t \in Tables : \A b \in 0..(num_buckets[t] - 1) : \A k \in Keys :
    \A i, j \in Holding(table[t][b], k) : i = j
Copies(p) ==
  pc[p] \in {"copy", "swap"} /\ ~overtaken => \A k \in Keys :
    clht_hash(num_buckets[ht], k) < bin[p] => Lookup(ht + 1, k) = Lookup(ht, k)
Watched == overtaken \/ \A p \in Threads : ~(Updating(p) /\ Settled(tab[p]))

IndInv == /\ TypeOK /\ Locked /\ Versions /\ KeysOnce /\ Watched
          /\ \A p \in Threads : Phase(p) /\ Resizes(p) /\ Published(p) /\ Waited(p) /\ Copies(p)

(* Why answers are right.  A reserved slot is its put's alone.  As long as   *)
(* no update is overtaken, an open call has seen what the map holds now,    *)
(* and a get what the table it was sent to holds, which may be replaced.    *)
Reserved ==
  /\ \A p \in Threads : pc[p] = "publish" =>
       Bucket(p)[empty_index[p]] = [state |-> "INSRT", key |-> call[p].key, val |-> call[p].val]
  /\ \A p, q \in Threads :
       pc[p] = "publish" /\ pc[q] = "publish" /\ tab[p] = tab[q] /\ Bin(p) = Bin(q)
         /\ empty_index[p] = empty_index[q] => p = q
Answers(p) ==
  /\ pc[p] = "idle" => call[p] = Idle /\ seen[p] = {}
  /\ pc[p] # "idle" => AbsMap[call[p].key] \in seen[p]
  /\ pc[p] \in {"used", "get"} => /\ call[p].op = "get"
                                 /\ Lookup(tab[p], call[p].key) \in seen[p]
  /\ pc[p] \notin {"leave", "done"} => ret[p] = None
AnswersInv == /\ seen \in [Threads -> SUBSET (Vals \cup {None})] /\ Reserved
              /\ ~overtaken => \A p \in Threads : Answers(p)

(* The comment at clht_gc_thread_version_max: a version at the maximum      *)
(* indicates that there is no ongoing update.  While a table is copied, no  *)
(* thread with that version is in an update of it.                          *)
MaxMeansNoUpdate ==
  \A p, r \in Threads : ts[p] = MAX_VERSION /\ pc[r] = "copy" =>
    ~(Updating(p) /\ tab[p] = tab[r])

(* As long as no update is overtaken by a copy, every answer is one the     *)
(* abstract map could give, in whatever table a get or update looks.        *)
Stage(p) == IF pc[p] = "idle" THEN "idle"
            ELSE IF pc[p] \in {"leave", "done"} THEN "done" ELSE "open"
KV == INSTANCE KVMap WITH
        map   <- AbsMap,
        stage <- [p \in Threads |-> Stage(p)],
        res   <- ret
LinearizableUntilOvertaken ==
  KV!KVInit /\ [][KV!KVNext \/ UNCHANGED KV!kvVars \/ overtaken']_vars

(* A resize ends unless a thread without a call holds it up, one whose      *)
(* version is of before: it has called nothing yet, or a get last.          *)
HeldUp == \E q \in Threads : call[q] = Idle /\ ts[q] < version[ht]
ResizeEnds == resize_lock ~> ~resize_lock \/ HeldUp
=============================================================================
