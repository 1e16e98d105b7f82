----------------------------- MODULE Hopscotch -----------------------------
(***************************************************************************)
(* Hopscotch hashing with a list per home bucket                           *)
(* (src/hopscotch/data_structures/HopscotchHashMap.h), aligned to cache    *)
(* lines (HOP_D) or not (HOP_ND).                                          *)
(*                                                                         *)
(* A bucket has an entry and, apart from that, the head of the list of the *)
(* entries whose home it is.  Updates lock the segment; containsKey takes  *)
(* no lock, walks the list and starts over if the segment's timestamp has  *)
(* changed.  The timestamp grows when an entry is removed or moved.        *)
(*                                                                         *)
(* One segment: as long as a list does not leave the buckets of its        *)
(* segment, segments share nothing.  The deltas between buckets are shown  *)
(* as the buckets they lead to, and of the timestamp only whether it has   *)
(* changed since a reader read it.  Each access to shared memory is a step;*)
(* what the holder of the lock reads does not change under it.             *)
(***************************************************************************)
EXTENDS Integers, Sequences

CONSTANTS
  Threads,        \* the threads, each with one call open at a time
  Ops,            \* the functions each thread calls
  Keys,           \* the keys, with different hashes
  Home,           \* start_bucket of each key
  NumBuckets,     \* buckets of the segment
  Line,           \* buckets of a cache line: _cache_mask + 1
  Alignments      \* the values of _is_cacheline_alignment looked at

None    == 0      \* no key, no value, no thread
Present == 1      \* the value of every entry: the data is not looked at
Vals    == {Present}
NoBucket == -1    \* _NULL_DELTA
Buckets == 0..(NumBuckets - 1)

ASSUME ThreadsAssumption == None \notin Threads
ASSUME KeysAssumption  == Keys \subseteq Nat \ {0} /\ Home \in [Keys -> Buckets]
ASSUME OpsAssumption   == Ops \in [Threads -> SUBSET {"put", "get", "remove"}]
ASSUME SizesAssumption == /\ NumBuckets \in Nat \ {0} /\ Line \in Nat \ {0}
                          /\ NumBuckets % Line = 0 /\ Alignments \subseteq BOOLEAN
-----------------------------------------------------------------------------
VARIABLES
  aligned,        \* _is_cacheline_alignment
  tbl,            \* _table: first and next bucket, _hash and _key of each
  lock,           \* the thread that has the segment
  (* per thread: where it is and its local variables *)
  pc, call,
  at,             \* curr_bucket and next_delta of containsKey
  stale,          \* the timestamp is no longer start_timestamp
  stores,         \* the stores an update still has to do, in order
  ret,
  (* history *)
  seen            \* the values the key of the open call had since its start

table  == <<tbl, lock>>
locals == <<at, stale, stores, ret>>
vars   == <<aligned, table, pc, call, locals, seen>>

Calls == [op : {"put", "get", "remove"}, key : Keys, val : Vals \cup {None}]
Idle  == [op |-> "idle", key |-> None, val |-> None]

Init ==
  /\ aligned \in Alignments
  /\ tbl = [x \in Buckets |-> [first |-> NoBucket, next |-> NoBucket, hash |-> None, key |-> None]]
  /\ lock = None
  /\ pc = [p \in Threads |-> "idle"]
  /\ call = [p \in Threads |-> Idle]
  /\ at = [p \in Threads |-> NoBucket]
  /\ stale = [p \in Threads |-> FALSE]
  /\ stores = [p \in Threads |-> << >>]
  /\ ret = [p \in Threads |-> None]
  /\ seen = [p \in Threads |-> {}]
-----------------------------------------------------------------------------
Goto(p, l) == pc' = [pc EXCEPT ![p] = l]
Key(p) == call[p].key

(* The list of a bucket: where its links lead to, one after the other.      *)
Walk(x) ==
  LET node[n \in 1..NumBuckets] ==
        IF n = 1 THEN tbl[x].first
        ELSE IF node[n - 1] = NoBucket THEN NoBucket ELSE tbl[node[n - 1]].next
  IN  node
List(x) == LET node == Walk(x)
           IN  [n \in {m \in 1..NumBuckets : node[m] # NoBucket} |-> node[n]]
Members(x) == {List(x)[n] : n \in 1..Len(List(x))}

AbsMap == [k \in Keys |->
  IF \E x \in Members(Home[k]) : tbl[x].hash = k THEN Present ELSE None]

Invoke(p) ==
  /\ pc[p] = "idle"
  /\ \E c \in Calls :
       /\ c.op \in Ops[p]
       /\ c.val = IF c.op = "put" THEN Present ELSE None
       /\ call' = [call EXCEPT ![p] = c]
       /\ Goto(p, IF c.op = "get" THEN "stamp" ELSE "lock")
  /\ UNCHANGED <<table, locals>>

Return(p) ==
  /\ pc[p] = "done"
  /\ Goto(p, "idle")
  /\ call' = [call EXCEPT ![p] = Idle]
  /\ at' = [at EXCEPT ![p] = NoBucket]
  /\ stale' = [stale EXCEPT ![p] = FALSE]
  /\ ret' = [ret EXCEPT ![p] = None]
  /\ UNCHANGED <<table, stores>>
-----------------------------------------------------------------------------
(* containsKey.                                                             *)
Stamp(p) ==
  /\ pc[p] = "stamp"
  /\ stale' = [stale EXCEPT ![p] = FALSE]
  /\ Goto(p, "first")
  /\ UNCHANGED <<table, call, at, stores, ret>>

(* On to the bucket next_delta leads to; at the end of the list it is over  *)
(* unless the timestamp has changed.                                        *)
GoOn(p, x) ==
  /\ at' = [at EXCEPT ![p] = x]
  /\ Goto(p, IF x # NoBucket THEN "hash" ELSE "check")

ReadFirst(p) ==
  /\ pc[p] = "first"
  /\ GoOn(p, tbl[Home[Key(p)]].first)
  /\ UNCHANGED <<table, call, stale, stores, ret>>

ReadHash(p) ==
  /\ pc[p] = "hash"
  /\ Goto(p, IF tbl[at[p]].hash = Key(p) THEN "key" ELSE "next")
  /\ UNCHANGED <<table, call, locals>>

ReadKey(p) ==
  /\ pc[p] = "key"
  /\ IF tbl[at[p]].key = Key(p)
     THEN ret' = [ret EXCEPT ![p] = Present] /\ Goto(p, "done")
     ELSE Goto(p, "next") /\ UNCHANGED ret
  /\ UNCHANGED <<table, call, at, stale, stores>>

ReadNext(p) ==
  /\ pc[p] = "next"
  /\ GoOn(p, tbl[at[p]].next)
  /\ UNCHANGED <<table, call, stale, stores, ret>>

CheckStamp(p) ==
  /\ pc[p] = "check"
  /\ Goto(p, IF stale[p] THEN "stamp" ELSE "done")
  /\ UNCHANGED <<table, call, locals>>

containsKey(p) == \/ Stamp(p) \/ ReadFirst(p) \/ ReadHash(p) \/ ReadKey(p)
                  \/ ReadNext(p) \/ CheckStamp(p)
-----------------------------------------------------------------------------
(* The stores of an update, in the order of the code.                       *)
Set(x, field, v) == [bucket |-> x, field |-> field, value |-> v]
StampStore == Set(NoBucket, "stamp", None)
Clear(x) == <<Set(x, "hash", None), Set(x, "key", None)>>
Fill(x, k) == <<Set(x, "key", k), Set(x, "hash", k)>>

(* What leads to the n-th entry of the list of x: the head of the list or   *)
(* the entry before.                                                        *)
LinkTo(x, n, v) == IF n = 1 THEN Set(x, "first", v) ELSE Set(List(x)[n - 1], "next", v)

remove_key(x, n) ==
  LET y == List(x)[n]
  IN  Clear(y) \o <<LinkTo(x, n, tbl[y].next), StampStore, Set(y, "next", NoBucket)>>

(* To the beginning of the list of x, after the entry in x itself if that   *)
(* is the first one.                                                        *)
add_key_to_begining_of_list(x, y, k) ==
  LET from == IF tbl[x].first = x THEN "next" ELSE "first"
  IN  Fill(y, k) \o <<Set(y, "next", tbl[x][from]), Set(x, from, y)>>

\* Mutant: the head of the list leads to the new entry only.
AddAsOnly(x, y, k) == Fill(y, k) \o <<Set(y, "next", NoBucket), Set(x, "first", y)>>

add_key_to_end_of_list(x, y, k) ==
  Fill(y, k) \o <<Set(y, "next", NoBucket), LinkTo(x, Len(List(x)) + 1, y)>>

(* The free buckets, in the order they are tried: those of the cache line   *)
(* of x, from x round; those a line or more ahead; those a line or more     *)
(* behind.                                                                  *)
LineStart(x) == x - (x % Line)
LineOf(x) == LineStart(x)..(LineStart(x) + Line - 1)
Free == {y \in Buckets : tbl[y].hash = None}
FreeInLine(x) == IF aligned THEN Free \cap LineOf(x) ELSE {}
Ahead(x)  == {y \in Free : y >= x + Line}
Behind(x) == {y \in Free : y <= x - Line}
Away(x, y) == IF y \in LineOf(x) THEN (y - x) % Line
              ELSE IF y > x THEN y - x ELSE x - y
First(s, x) == CHOOSE y \in s : \A z \in s : Away(x, y) <= Away(x, z)

Find(x, k) == {n \in 1..Len(List(x)) : tbl[List(x)[n]].hash = k}

PutStores(x, k) ==
  IF FreeInLine(x) # {}
  THEN add_key_to_begining_of_list(x, First(FreeInLine(x), x), k)
  ELSE add_key_to_end_of_list(x,
         IF Ahead(x) # {} THEN First(Ahead(x), x) ELSE First(Behind(x), x), k)

\* Mutant: updates do not wait for each other.
LockAnyway(p) == TRUE

CanLock(p) == lock = None

(* putIfAbsent: the lock, the search, and what is to be stored.  If there   *)
(* is no place the program ends.                                            *)
putIfAbsent(p) ==
  /\ pc[p] = "lock" /\ call[p].op = "put" /\ CanLock(p)
  /\ LET x == Home[Key(p)]
     IN  IF Find(x, Key(p)) # {} THEN Goto(p, "done") /\ UNCHANGED <<lock, stores>>
         ELSE /\ lock' = p
              /\ IF FreeInLine(x) \cup Ahead(x) \cup Behind(x) = {}
                 THEN Goto(p, "exit") /\ UNCHANGED stores
                 ELSE Goto(p, "store") /\ stores' = [stores EXCEPT ![p] = PutStores(x, Key(p))]
  /\ UNCHANGED <<tbl, call, at, stale, ret>>

remove(p) ==
  /\ pc[p] = "lock" /\ call[p].op = "remove" /\ CanLock(p)
  /\ LET x == Home[Key(p)]
     IN  IF Find(x, Key(p)) = {} THEN Goto(p, "done") /\ UNCHANGED <<lock, stores, at>>
         ELSE LET n == CHOOSE n \in Find(x, Key(p)) : TRUE
              IN  /\ lock' = p
                  /\ stores' = [stores EXCEPT ![p] = remove_key(x, n)]
                  /\ at' = [at EXCEPT ![p] = List(x)[n]]
                  /\ Goto(p, "store")
  /\ UNCHANGED <<tbl, call, stale, ret>>

(* The next store.  A put has its effect with the last one, which links the *)
(* entry, a remove with the first one.                                      *)
Effective(p) ==
  /\ pc[p] = "store"
  /\ IF call[p].op = "put" THEN Len(stores[p]) = 1 ELSE Head(stores[p]).field = "hash"

Store(p) ==
  /\ pc[p] \in {"store", "move"} /\ stores[p] # << >>
  /\ LET s == Head(stores[p])
     IN  IF s.field = "stamp" THEN stale' = [r \in Threads |-> pc[r] # "idle"] /\ UNCHANGED tbl
         ELSE tbl' = [tbl EXCEPT ![s.bucket][s.field] = s.value] /\ UNCHANGED stale
  /\ ret' = [ret EXCEPT ![p] = IF Effective(p) THEN Present ELSE @]
  /\ stores' = [stores EXCEPT ![p] = Tail(@)]
  /\ UNCHANGED <<lock, pc, call, at>>

(* After a remove, optimize_cacheline_use: the first entry of the first     *)
(* list of the cache line that is too far from its home moves to the bucket *)
(* that has become free.                                                    *)
TooFar(x, n) == List(x)[n] - x \notin 0..(Line - 1)
Movable(y) == {m \in LineOf(y) \X (1..NumBuckets) : m[2] <= Len(List(m[1])) /\ TooFar(m[1], m[2])}

\* Mutant: the entry is cleared before the list leads to its copy.
ClearFirst(y, x, n) ==
  LET z == List(x)[n]
  IN  Clear(z) \o Fill(y, tbl[z].hash)
      \o <<Set(y, "next", tbl[z].next), LinkTo(x, n, y), StampStore, Set(z, "next", NoBucket)>>

MoveStores(y, x, n) ==
  LET z == List(x)[n]
  IN  Fill(y, tbl[z].hash) \o <<Set(y, "next", tbl[z].next), LinkTo(x, n, y), StampStore>>
      \o Clear(z) \o <<Set(z, "next", NoBucket)>>

optimize_cacheline_use(p) ==
  /\ pc[p] = "store" /\ stores[p] = << >> /\ call[p].op = "remove" /\ aligned
  /\ Movable(at[p]) # {}
  /\ LET m == CHOOSE m \in Movable(at[p]) : \A o \in Movable(at[p]) :
                m[1] < o[1] \/ (m[1] = o[1] /\ m[2] <= o[2])
     IN  stores' = [stores EXCEPT ![p] = MoveStores(at[p], m[1], m[2])]
  /\ Goto(p, "move")
  /\ UNCHANGED <<table, call, at, stale, ret>>

Unlock(p) ==
  /\ pc[p] \in {"store", "move"} /\ stores[p] = << >>
  /\ pc[p] = "store" /\ call[p].op = "remove" /\ aligned => Movable(at[p]) = {}
  /\ lock' = None
  /\ Goto(p, "done")
  /\ UNCHANGED <<tbl, call, locals>>
-----------------------------------------------------------------------------
Work(p) == \/ containsKey(p) \/ putIfAbsent(p) \/ remove(p) \/ Store(p)
           \/ optimize_cacheline_use(p) \/ Unlock(p) \/ Return(p)

Watch ==
  seen' = [p \in Threads |->
             IF call'[p] = Idle THEN {}
             ELSE IF call[p] = Idle THEN {AbsMap'[call'[p].key]}
             ELSE seen[p] \cup {AbsMap'[call[p].key]}]

Running == \A p \in Threads : pc[p] # "exit"

Next == /\ UNCHANGED aligned
        /\ Running
        /\ \E p \in Threads : Invoke(p) \/ Work(p)
        /\ Watch

Spec == Init /\ [][Next]_vars
-----------------------------------------------------------------------------
(* Properties *)

Labels == {"idle", "stamp", "first", "hash", "key", "next", "check", "lock", "store", "move",
           "exit", "done"}
BucketOrNone == Buckets \cup {NoBucket}
Records == [first : BucketOrNone, next : BucketOrNone, hash : Keys \cup {None}, key : Keys \cup {None}]
Stores  == [bucket : BucketOrNone, field : {"first", "next", "hash", "key", "stamp"},
            value : Keys \cup BucketOrNone \cup {None}]

(* Types; the lock is held exactly by the thread that works under it.       *)
TypeOK ==
  /\ aligned \in Alignments
  /\ tbl \in [Buckets -> Records]
  /\ pc \in [Threads -> Labels]
  /\ call \in [Threads -> Calls \cup {Idle}]
  /\ at \in [Threads -> BucketOrNone]
  /\ stale \in [Threads -> BOOLEAN]
  /\ stores \in [Threads -> Seq(Stores)]
  /\ ret \in [Threads -> Vals \cup {None}]
  /\ \A p \in Threads : pc[p] \in {"store", "move", "exit"} <=> lock = p

(* Between updates the lists are sound: every entry is in exactly one list, *)
(* once, that of its home, no key has two entries, and free buckets are in  *)
(* no list and lead nowhere.                                                *)
Used == {x \in Buckets : tbl[x].hash # None}
ListsSound ==
  lock = None =>
    /\ \A x \in Used : tbl[x].key = tbl[x].hash /\ x \in Members(Home[tbl[x].hash])
    /\ \A x, y \in Used : tbl[x].hash = tbl[y].hash => x = y
    /\ \A x \in Buckets : \A y \in Members(x) : y \in Used /\ Home[tbl[y].hash] = x
    /\ \A x \in Buckets : tbl[x].next # NoBucket => x \in Used

(* The abstract map.                                                        *)
Stage(p) == CASE pc[p] \in {"idle", "done"} -> pc[p]
              [] pc[p] \in {"store", "move"} /\ ret[p] # None -> "applied"
              [] OTHER -> "open"
KV == INSTANCE KVMap WITH
        map   <- AbsMap,
        stage <- [p \in Threads |-> Stage(p)],
        res   <- ret

(* Updates are those of the abstract map.  A containsKey says that a key is *)
(* missing only if it was at some time, although entries are moved under    *)
(* it; that it is there, if it was or is about to be: a reader that stands  *)
(* on a bucket taken from a list sees the entry a put makes there before    *)
(* the put has linked it.                                                   *)
Early(p) ==
  /\ pc[p] = "key" /\ pc'[p] = "done"
  /\ \E w \in Threads : pc[w] = "store" /\ call[w].op = "put" /\ Key(w) = Key(p)
  /\ UNCHANGED AbsMap
LinearizableOrEarly ==
  KV!KVInit /\ [][KV!KVNext \/ UNCHANGED KV!kvVars \/ \E p \in Threads : Early(p)]_vars
=============================================================================
