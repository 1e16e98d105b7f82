----------------------------- MODULE ClhtFixed -----------------------------
(***************************************************************************)
(* The lock-based tables of a fixed size: CLHT-LB (src/clht/src/clht_lb.c),*)
(* CLHT-LB-PACKED (clht_lb_packed.c) and CLHT-LB-LOCK-INS                  *)
(* (clht_lb_lock_ins.c).                                                   *)
(*                                                                         *)
(* A bin is a chain of buckets with one lock; bins share nothing, so one   *)
(* is modelled.  The variants look for a key without the lock in much the  *)
(* same way, and differ in what an update does:                            *)
(*  - lb       puts and removes under the lock, the key of a removed entry *)
(*             becomes 0;                                                  *)
(*  - packed   keeps the entries in the first slots: a remove moves the    *)
(*             last entry of the chain into the hole;                      *)
(*  - lock_ins locks for puts only: a remove blocks the key by a           *)
(*             compare-and-swap.                                           *)
(*                                                                         *)
(* Each action is one access to shared memory.  Memory is sequentially     *)
(* consistent: the code relies on the store and load order of x86.         *)
(***************************************************************************)
EXTENDS Integers, Sequences

CONSTANTS
  Threads,             \* the threads, each with one call open at a time
  Ops,                 \* the functions each thread calls
  Keys,                \* the keys of the bin, addresses other than 0
  Variants,            \* the tables looked at
  ENTRIES_PER_BUCKET,
  MaxBuckets,          \* bound: buckets of the chain
  MaxPuts              \* bound: calls of clht_put

ASSUME ThreadsAssumption == 0 \notin Threads
ASSUME OpsAssumption  == Ops \in [Threads -> SUBSET {"put", "get", "remove"}]
ASSUME KeysAssumption == Keys \subseteq Nat \ {0}
ASSUME VariantsAssumption == Variants \subseteq {"lb", "packed", "lock_ins"}
ASSUME SizesAssumption == /\ ENTRIES_PER_BUCKET \in Nat \ {0}
                          /\ MaxBuckets \in Nat \ {0} /\ MaxPuts \in Nat

None     == 0            \* no key, no value, no thread
KEY_BLCK == -1
Vals     == 1..MaxPuts   \* the n-th call of clht_put brings value n
Junk     == MaxPuts + 1  \* what memalign left in a new bucket
Slots    == 1..ENTRIES_PER_BUCKET
Buckets  == 1..MaxBuckets
Places   == Buckets \X Slots
Nowhere  == <<0, 0>>
-----------------------------------------------------------------------------
VARIABLES
  variant,
  (* bucket_t, per bucket of the chain *)
  linked,      \* how many the chain has; next of the last one is NULL
  key, val,
  last,        \* packed only
  lock,        \* the thread that has it, of the first bucket
  (* per thread: where it is and its local variables *)
  pc, call,
  b, j,        \* bucket and slot it looks at
  found,       \* val of clht_get
  bu_last,     \* packed only
  empty,       \* the place for the entry
  stores,      \* the stores still to do under the lock, in order
  ret,
  (* history *)
  puts,
  seen         \* the values the key of the open call had since its start

table == <<linked, key, val, last, lock>>
locals == <<b, j, found, bu_last, empty, stores, ret>>
vars == <<variant, table, pc, call, locals, puts, seen>>

Calls == [op : {"put", "get", "remove"}, key : Keys, val : Vals \cup {None}]
Idle  == [op |-> "idle", key |-> None, val |-> None]

(* clht_hashtable_create.  The memory of the first bucket is zeroed.        *)
Init ==
  /\ variant \in Variants
  /\ linked = 1
  /\ key = [x \in Buckets |-> [y \in Slots |-> None]]
  /\ val = [x \in Buckets |-> [y \in Slots |-> IF x = 1 THEN None ELSE Junk]]
  /\ last = [x \in Buckets |-> 0]
  /\ lock = None
  /\ pc = [p \in Threads |-> "idle"]
  /\ call = [p \in Threads |-> Idle]
  /\ b = [p \in Threads |-> 1]
  /\ j = [p \in Threads |-> 1]
  /\ found = [p \in Threads |-> None]
  /\ bu_last = [p \in Threads |-> 0]
  /\ empty = [p \in Threads |-> Nowhere]
  /\ stores = [p \in Threads |-> << >>]
  /\ ret = [p \in Threads |-> None]
  /\ puts = 0
  /\ seen = [p \in Threads |-> {}]
-----------------------------------------------------------------------------
Goto(p, l) == pc' = [pc EXCEPT ![p] = l]
At(p, x, y) == b' = [b EXCEPT ![p] = x] /\ j' = [j EXCEPT ![p] = y]
KeyAt(p) == key[b[p]][j[p]]
ValAt(p) == val[b[p]][j[p]]

(* The places that count: in a packed chain those below last.               *)
Used(x, y) == x <= linked /\ (variant = "packed" => y <= last[x])
Holding(k) == {pl \in Places : Used(pl[1], pl[2]) /\ key[pl[1]][pl[2]] = k}

(* The value of an entry: lb writes it after the key in a new bucket.       *)
ValueAt(pl) ==
  LET writers == {p \in Threads : empty[p] = pl /\ stores[p] = <<"val">>}
  IN  IF writers = {} THEN val[pl[1]][pl[2]]
      ELSE call[CHOOSE p \in writers : TRUE].val

AbsMap == [k \in Keys |-> IF Holding(k) = {} THEN None
                          ELSE ValueAt(CHOOSE pl \in Holding(k) : TRUE)]

(* Calls and returns.                                                       *)
Begin == IF variant = "packed" THEN "last" ELSE "look"

Invoke(p) ==
  /\ pc[p] = "idle"
  /\ \E c \in Calls :
       /\ c.op \in Ops[p]
       /\ IF c.op = "put" THEN puts < MaxPuts /\ c.val = puts + 1 ELSE c.val = None
       /\ call' = [call EXCEPT ![p] = c]
       /\ puts' = IF c.op = "put" THEN puts + 1 ELSE puts
  /\ Goto(p, Begin)
  /\ UNCHANGED <<table, locals>>

Return(p) ==
  /\ pc[p] = "done"
  /\ Goto(p, "idle")
  /\ call' = [call EXCEPT ![p] = Idle]
  /\ At(p, 1, 1)
  /\ found' = [found EXCEPT ![p] = None]
  /\ bu_last' = [bu_last EXCEPT ![p] = 0]
  /\ empty' = [empty EXCEPT ![p] = Nowhere]
  /\ ret' = [ret EXCEPT ![p] = None]
  /\ UNCHANGED <<table, stores, puts>>
-----------------------------------------------------------------------------
(* The search without the lock: clht_get, bucket_exists of the updates, and *)
(* the whole search of a remove of lock_ins.                                *)

(* What follows where the key is not found, and where it is.                *)
Missing(p) ==
  Goto(p, IF call[p].op = "put" THEN "lock" ELSE "done") /\ UNCHANGED <<b, j>>

Found(p) ==
  Goto(p, CASE call[p].op = "get" -> "again"
            [] call[p].op = "put" -> "done"
            [] OTHER -> IF variant = "lock_ins" THEN "block" ELSE "lock")

(* The next slot: upwards, or in a packed bucket downwards from its last,   *)
(* and on to the next bucket unless there was room in this one.             *)
Advance(p) ==
  IF variant = "packed"
  THEN IF j[p] > 1 THEN At(p, b[p], j[p] - 1) /\ Goto(p, "look")
       ELSE IF bu_last[p] = ENTRIES_PER_BUCKET /\ b[p] < linked
            THEN At(p, b[p] + 1, 1) /\ Goto(p, "last")
            ELSE Missing(p)
  ELSE IF j[p] < ENTRIES_PER_BUCKET THEN At(p, b[p], j[p] + 1) /\ Goto(p, "look")
       ELSE IF b[p] < linked THEN At(p, b[p] + 1, 1) /\ Goto(p, "look")
            ELSE Missing(p)

ReadLast(p) ==
  /\ pc[p] = "last"
  /\ bu_last' = [bu_last EXCEPT ![p] = last[b[p]]]
  /\ IF last[b[p]] = 0 THEN Missing(p) ELSE At(p, b[p], last[b[p]]) /\ Goto(p, "look")
  /\ UNCHANGED <<table, call, found, empty, stores, ret, puts>>

(* A get reads the value before the key.                                    *)
LookVal(p) ==
  /\ pc[p] = "look" /\ call[p].op = "get"
  /\ found' = [found EXCEPT ![p] = ValAt(p)]
  /\ Goto(p, "key")
  /\ UNCHANGED <<table, call, b, j, bu_last, empty, stores, ret, puts>>

LookKey(p) ==
  /\ pc[p] = (IF call[p].op = "get" THEN "key" ELSE "look")
  /\ IF KeyAt(p) = call[p].key THEN Found(p) /\ UNCHANGED <<b, j>> ELSE Advance(p)
  /\ UNCHANGED <<table, call, found, bu_last, empty, stores, ret, puts>>

LookAgain(p) ==
  /\ pc[p] = "again"
  /\ ret' = [ret EXCEPT ![p] = IF ValAt(p) = found[p] THEN found[p] ELSE None]
  /\ Goto(p, "done")
  /\ UNCHANGED <<table, call, b, j, found, bu_last, empty, stores, puts>>

clht_get(p) == LookVal(p) \/ LookAgain(p)
bucket_exists(p) == ReadLast(p) \/ LookKey(p)
-----------------------------------------------------------------------------
\* Mutant: the search under the lock goes on where the other one stopped.
LockHere(p) ==
  /\ pc[p] = "lock" /\ lock = None
  /\ lock' = p
  /\ Goto(p, "search")
  /\ UNCHANGED <<linked, key, val, last, call, locals, puts>>

\* Mutant: nobody waits.
LockAnyway(p) ==
  /\ pc[p] = "lock"
  /\ lock' = p
  /\ At(p, 1, 1)
  /\ Goto(p, "search")
  /\ UNCHANGED <<linked, key, val, last, call, found, bu_last, empty, stores, ret, puts>>

(* LOCK_ACQ, then the search under the lock.                                *)
Lock(p) ==
  /\ pc[p] = "lock" /\ lock = None
  /\ lock' = p
  /\ At(p, 1, 1)
  /\ Goto(p, "search")
  /\ UNCHANGED <<linked, key, val, last, call, found, bu_last, empty, stores, ret, puts>>

Unlock(p) ==
  /\ pc[p] = "unlock"
  /\ lock' = None
  /\ Goto(p, "done")
  /\ UNCHANGED <<linked, key, val, last, call, locals, puts>>

(* The slots of a bucket the holder of the lock looks at.                   *)
Limit(p) == IF variant = "packed" THEN last[b[p]] ELSE ENTRIES_PER_BUCKET

(* A put remembers the first free slot it passes; a key it finds refuses    *)
(* it.                                                                      *)
SearchPut(p) ==
  /\ pc[p] = "search" /\ call[p].op = "put" /\ j[p] <= Limit(p)
  /\ IF KeyAt(p) = call[p].key
     THEN Goto(p, "unlock") /\ UNCHANGED <<j, empty>>
     ELSE /\ empty' = [empty EXCEPT ![p] = IF @ = Nowhere /\ KeyAt(p) = None
                                           THEN <<b[p], j[p]>> ELSE @]
          /\ j' = [j EXCEPT ![p] = @ + 1]
          /\ UNCHANGED pc
  /\ UNCHANGED <<table, call, b, found, bu_last, stores, ret, puts>>

(* At the end of a bucket: on to the next one, or the place of the entry.   *)
Full(p) == IF variant = "packed" THEN last[b[p]] = ENTRIES_PER_BUCKET ELSE TRUE
SearchOn(p) ==
  /\ pc[p] = "search" /\ j[p] > Limit(p)
  /\ Full(p) /\ b[p] < linked
  /\ At(p, b[p] + 1, 1)
  /\ UNCHANGED <<table, pc, call, found, bu_last, empty, stores, ret, puts>>

(* The stores of a put and their order.  In a new bucket only lock_ins      *)
(* writes the value first.                                                  *)
PutStores(extended) ==
  IF variant = "packed" THEN IF extended THEN <<"link", "key", "val", "last">>
                                         ELSE <<"val", "key", "last">>
  ELSE IF ~extended THEN <<"val", "key">>
  ELSE IF variant = "lock_ins" THEN <<"link", "val", "key">> ELSE <<"link", "key", "val">>

SearchEnds(p) ==
  /\ pc[p] = "search" /\ j[p] > Limit(p)
  /\ ~(Full(p) /\ b[p] < linked)
  /\ LET free == IF variant = "packed" /\ ~Full(p) THEN <<b[p], j[p]>> ELSE empty[p]
     IN  IF call[p].op = "remove"
         THEN Goto(p, "unlock") /\ UNCHANGED <<empty, stores>>
         ELSE /\ free = Nowhere => linked < MaxBuckets
              /\ empty' = [empty EXCEPT ![p] = IF free = Nowhere THEN <<linked + 1, 1>> ELSE free]
              /\ stores' = [stores EXCEPT ![p] = PutStores(free = Nowhere)]
              /\ Goto(p, "store")
  /\ UNCHANGED <<table, call, b, j, found, bu_last, ret, puts>>

SearchRemove(p) ==
  /\ pc[p] = "search" /\ call[p].op = "remove" /\ j[p] <= Limit(p)
  /\ IF KeyAt(p) = call[p].key
     THEN /\ ret' = [ret EXCEPT ![p] = ValAt(p)]
          /\ stores' = [stores EXCEPT ![p] =
               IF variant = "packed" THEN <<"clear", "moveval", "movekey", "unlast">>
                                     ELSE <<"clear">>]
          /\ empty' = [empty EXCEPT ![p] = <<b[p], j[p]>>]
          /\ Goto(p, "store") /\ UNCHANGED j
     ELSE j' = [j EXCEPT ![p] = @ + 1] /\ UNCHANGED <<pc, ret, stores, empty>>
  /\ UNCHANGED <<table, call, b, found, bu_last, puts>>
-----------------------------------------------------------------------------
\* Mutant: the last entry of the bucket the key is in.
LastBucketHere(p) == b[p]

(* blast of a packed remove: the last bucket that is not empty, or the one  *)
(* the key was found in.                                                    *)
LastBucket(p) == CHOOSE x \in b[p]..linked :
              /\ \A y \in (b[p] + 1)..x : last[y] # 0
              /\ x = linked \/ last[x + 1] = 0

KeyStored(p, store) ==
  CASE store = "key"     -> call[p].key
    [] store = "clear"   -> None
    [] store = "movekey" -> key[LastBucket(p)][last[LastBucket(p)]]
    [] OTHER             -> key[empty[p][1]][empty[p][2]]
ValStored(p, store) ==
  CASE store = "val"     -> call[p].val
    [] store = "moveval" -> val[LastBucket(p)][last[LastBucket(p)]]
    [] OTHER             -> val[empty[p][1]][empty[p][2]]

(* The next store of an update.                                             *)
Store(p) ==
  /\ pc[p] = "store"
  /\ LET store == Head(stores[p])
         x == empty[p][1]
         y == empty[p][2]
     IN  /\ linked' = IF store = "link" THEN linked + 1 ELSE linked
         /\ key' = [key EXCEPT ![x][y] = KeyStored(p, store)]
         /\ val' = [val EXCEPT ![x][y] = ValStored(p, store)]
         /\ last' = CASE store = "last"   -> [last EXCEPT ![x] = @ + 1]
                      [] store = "unlast" -> [last EXCEPT ![LastBucket(p)] = @ - 1]
                      [] OTHER            -> last
         /\ ret' = IF call[p].op = "put" /\ store = (IF variant = "packed" THEN "last" ELSE "key")
                   THEN [ret EXCEPT ![p] = call[p].val] ELSE ret
  /\ stores' = [stores EXCEPT ![p] = Tail(@)]
  /\ Goto(p, IF Len(stores[p]) = 1 THEN "unlock" ELSE "store")
  /\ UNCHANGED <<lock, call, b, j, found, bu_last, empty, puts>>

clht_put(p) == SearchPut(p) \/ SearchOn(p) \/ SearchEnds(p)

\* Mutant: the key is blocked by a plain store.
BlockBlind(p) ==
  /\ pc[p] = "block"
  /\ key' = [key EXCEPT ![b[p]][j[p]] = KEY_BLCK]
  /\ Goto(p, "take")
  /\ UNCHANGED <<linked, val, last, lock, call, locals, puts>>

(* clht_remove of lock_ins, once it has found the key: CAS, read the value, *)
(* free the slot.                                                           *)
Block(p) ==
  /\ pc[p] = "block"
  /\ IF KeyAt(p) = call[p].key
     THEN key' = [key EXCEPT ![b[p]][j[p]] = KEY_BLCK] /\ Goto(p, "take")
     ELSE Goto(p, "done") /\ UNCHANGED key
  /\ UNCHANGED <<linked, val, last, lock, call, locals, puts>>

Take(p) ==
  /\ pc[p] = "take"
  /\ ret' = [ret EXCEPT ![p] = ValAt(p)]
  /\ Goto(p, "free")
  /\ UNCHANGED <<table, call, b, j, found, bu_last, empty, stores, puts>>

Free(p) ==
  /\ pc[p] = "free"
  /\ key' = [key EXCEPT ![b[p]][j[p]] = None]
  /\ Goto(p, "done")
  /\ UNCHANGED <<linked, val, last, lock, call, locals, puts>>

clht_remove(p) == SearchRemove(p) \/ Block(p) \/ Take(p) \/ Free(p)
-----------------------------------------------------------------------------
Work(p) == \/ clht_get(p) \/ bucket_exists(p) \/ Lock(p) \/ Unlock(p)
           \/ clht_put(p) \/ Store(p) \/ clht_remove(p) \/ Return(p)

(* The history of the key of every open call.                               *)
Watch ==
  seen' = [p \in Threads |->
             IF call'[p] = Idle THEN {}
             ELSE IF call[p] = Idle THEN {AbsMap'[call'[p].key]}
             ELSE seen[p] \cup {AbsMap'[call[p].key]}]

Next == /\ UNCHANGED variant
        /\ \E p \in Threads : Invoke(p) \/ Work(p)
        /\ Watch

Spec == Init /\ [][Next]_vars
-----------------------------------------------------------------------------
(* Properties *)

Labels == {"idle", "done", "last", "look", "key", "again", "lock", "search", "store",
           "unlock", "block", "take", "free"}
StoreNames == {"link", "key", "val", "last", "clear", "moveval", "movekey", "unlast"}

(* Types; the lock is held exactly by the thread that works under it.       *)
TypeOK ==
  /\ variant \in Variants
  /\ linked \in Buckets
  /\ key \in [Buckets -> [Slots -> Keys \cup {None, KEY_BLCK}]]
  /\ val \in [Buckets -> [Slots -> 0..Junk]]
  /\ last \in [Buckets -> 0..ENTRIES_PER_BUCKET]
  /\ pc \in [Threads -> Labels]
  /\ call \in [Threads -> Calls \cup {Idle}]
  /\ b \in [Threads -> Buckets]
  /\ j \in [Threads -> 1..(ENTRIES_PER_BUCKET + 1)]
  /\ found \in [Threads -> 0..Junk]
  /\ bu_last \in [Threads -> 0..ENTRIES_PER_BUCKET]
  /\ empty \in [Threads -> Places \cup {Nowhere}]
  /\ stores \in [Threads -> Seq(StoreNames)]
  /\ ret \in [Threads -> 0..Junk]
  /\ puts \in 0..MaxPuts
  /\ \A p \in Threads : pc[p] \in {"search", "store", "unlock"} <=> lock = p

(* No key is in two places, although puts look for it and take a free slot  *)
(* in different steps, and removes of lock_ins free slots meanwhile.  Only  *)
(* while a packed remove moves an entry it is in its old and its new place. *)
Moving == \E p \in Threads : stores[p] = <<"unlast">>
UniqueKeys ==
  \A k \in Keys : \A pl, other \in Holding(k) : pl = other \/ Moving

(* A packed chain has no holes: a bucket that is not empty follows a full   *)
(* one, and every place below last is taken unless a remove is at it.       *)
Packed ==
  variant = "packed" =>
    /\ \A x \in 1..(linked - 1) : last[x + 1] > 0 => last[x] = ENTRIES_PER_BUCKET
    /\ lock = None => \A pl \in Places :
         pl[2] <= last[pl[1]] => key[pl[1]][pl[2]] \in Keys

(* Why they hold: what the thread that has the lock knows.  The stores an   *)
(* update may still have to do, and those of a put that has yet to write    *)
(* its key.                                                                 *)
KeyAhead  == {<<"link", "key", "val">>, <<"link", "val", "key">>, <<"key", "val">>,
              <<"val", "key">>, <<"key">>}
PutsAhead == {<<"link", "key", "val", "last">>, <<"key", "val", "last">>, <<"val", "last">>,
              <<"last">>, <<"val", "key", "last">>, <<"key", "last">>}
Removing  == {<<"clear", "moveval", "movekey", "unlast">>, <<"moveval", "movekey", "unlast">>,
              <<"movekey", "unlast">>, <<"unlast">>}
StoresLeft(p) ==
  IF call[p].op = "put" THEN IF variant = "packed" THEN PutsAhead ELSE KeyAhead \cup {<<"val">>}
                        ELSE IF variant = "packed" THEN Removing ELSE {<<"clear">>}

Phase(p) ==
  /\ pc[p] # "idle" => call[p] \in Calls
  /\ pc[p] \in {"lock", "search", "store"} => call[p].op \in {"put", "remove"}
  /\ pc[p] = "last" => variant = "packed"
  /\ pc[p] \in {"block", "take", "free"} => variant = "lock_ins"
  /\ pc[p] \in {"idle", "look", "key", "again", "block", "take", "free"} => j[p] \in Slots
  /\ stores[p] \in IF pc[p] = "store" THEN StoresLeft(p) ELSE {<< >>}
  /\ pc[p] \notin {"search", "store", "unlock", "done"} => empty[p] = Nowhere

(* Buckets not linked yet are as they were made.                            *)
Fresh == \A x \in (linked + 1)..MaxBuckets :
           last[x] = 0 /\ \A y \in Slots : key[x][y] = None

(* A packed chain is full up to a bucket and empty after it.                *)
FilledTo(e) == /\ \A x \in 1..(e - 1) : last[x] = ENTRIES_PER_BUCKET
               /\ \A x \in (e + 1)..MaxBuckets : last[x] = 0
Filled == variant = "packed" => \E e \in 1..linked : FilledTo(e) /\ (e > 1 => last[e] > 0)

(* A put has not passed its key; a packed chain is full as far as it went.  *)
Searching(p) ==
  pc[p] = "search" =>
    /\ b[p] <= linked
    /\ variant = "packed" => j[p] <= last[b[p]] + 1
    /\ variant = "packed" \/ call[p].op = "remove" => empty[p] = Nowhere
    /\ empty[p][1] <= linked
    /\ call[p].op = "put" =>
         /\ \A pl \in Holding(call[p].key) : pl[1] > b[p] \/ (pl[1] = b[p] /\ pl[2] >= j[p])
         /\ variant = "packed" => \A x \in 1..(b[p] - 1) : last[x] = ENTRIES_PER_BUCKET

(* The key a put is about to write is nowhere; a packed chain ends where it *)
(* puts the entry.  The place a remove frees is one that counts.            *)
Storing(p) ==
  pc[p] = "store" =>
    /\ empty[p] \in Places
    /\ IF Head(stores[p]) = "link" THEN empty[p] = <<linked + 1, 1>> ELSE empty[p][1] <= linked
    /\ call[p].op = "put" /\ stores[p] # <<"val">> => Holding(call[p].key) = {}
    /\ variant = "packed" /\ call[p].op = "put" =>
         /\ empty[p][2] = last[empty[p][1]] + 1 /\ FilledTo(empty[p][1])
         /\ stores[p] \in {<<"val", "last">>, <<"last">>} =>
              key[empty[p][1]][empty[p][2]] = call[p].key
    /\ variant = "packed" /\ call[p].op = "remove" =>
         empty[p] = <<b[p], j[p]>> /\ j[p] <= last[b[p]]

(* Only the place a remove frees, in the end the last one, has no key; only *)
(* the last entry is twice in the chain, when it has been moved.            *)
LastPlace(p) == <<LastBucket(p), last[LastBucket(p)]>>
Hole(pl) == \E p \in Threads :
              \/ stores[p] = <<"unlast">> /\ pl = LastPlace(p)
              \/ stores[p] \in {<<"moveval", "movekey", "unlast">>, <<"movekey", "unlast">>}
                 /\ pl = empty[p]
NoHoles == variant = "packed" =>
             \A pl \in Places : Used(pl[1], pl[2]) => key[pl[1]][pl[2]] \in Keys \/ Hole(pl)
OneCopy ==
  \A k \in Keys : \A pl, other \in Holding(k) :
    \/ pl = other
    \/ \E p \in Threads : stores[p] = <<"unlast">> /\ LastPlace(p) \in {pl, other}

IndInv == /\ TypeOK /\ Fresh /\ Filled /\ NoHoles /\ OneCopy
          /\ \A p \in Threads : Phase(p) /\ Searching(p) /\ Storing(p)

(* Why answers are right.  What a call has done so far, by its place in the *)
(* program: nothing is returned before it is found or stored, a refusal has *)
(* its reason in seen.                                                      *)
Outcome(p) ==
  /\ pc[p] = "idle" => call[p] = Idle /\ seen[p] = {}
  /\ pc[p] # "idle" => AbsMap[call[p].key] \in seen[p]
  /\ pc[p] \in {"key", "again"} => call[p].op = "get"
  /\ pc[p] \in {"block", "take", "free"} => call[p].op = "remove"
  /\ pc[p] = "unlock" => call[p].op # "get"
  /\ variant = "lock_ins" /\ call[p].op = "remove" => pc[p] \notin {"lock", "search", "store", "unlock"}
  /\ pc[p] \in {"idle", "last", "look", "key", "again", "lock", "search", "block", "take"} => ret[p] = None
  /\ pc[p] = "store" => IF call[p].op = "remove" THEN ret[p] \in Vals
                        ELSE ret[p] = IF stores[p] = <<"val">> THEN call[p].val ELSE None
  /\ pc[p] = "unlock" => \/ ret[p] # None
                         \/ call[p].op = "put" /\ seen[p] \cap Vals # {}
                         \/ call[p].op = "remove" /\ None \in seen[p]

(* The value of a put that has not stored it is nowhere to be seen; what    *)
(* the memory held before is never taken for it.                            *)
Written  == {<<"key">>, <<"last">>, <<"key", "last">>}
KeyFirst == {<<"link", "key", "val">>, <<"key", "val">>, <<"val">>}
Pending(p) == /\ call[p].op = "put" /\ pc[p] \in {"last", "look", "lock", "search", "store"}
              /\ stores[p] \notin Written
FreshValues ==
  /\ \A pl \in Places : val[pl[1]][pl[2]] \in 0..puts \cup {Junk}
  /\ \A p \in Threads : /\ found[p] \in 0..puts \cup {Junk}
                        /\ call[p].op = "put" => call[p].val \in 1..puts
  /\ \A x \in (linked + 1)..MaxBuckets, y \in Slots : val[x][y] = Junk
  /\ \A p \in Threads : Pending(p) =>
       /\ \A pl \in Places : val[pl[1]][pl[2]] # call[p].val
       /\ \A q \in Threads : /\ found[q] # call[p].val
                             /\ q # p /\ call[q].op = "put" => call[q].val # call[p].val

(* An entry has a value, unless its put is about to write it.               *)
HeldValues ==
  \A k \in Keys : \A pl \in Holding(k) :
    val[pl[1]][pl[2]] \in Vals \/ \E p \in Threads : empty[p] = pl /\ stores[p] = <<"val">>

(* What is at the place an update works on.                                 *)
KeyTo(p) == key[empty[p][1]][empty[p][2]]
ValTo(p) == val[empty[p][1]][empty[p][2]]
Writes(p) ==
  /\ pc[p] = "search" =>
       /\ variant # "packed" /\ empty[p] # Nowhere => KeyTo(p) = None
       /\ \A pl \in Holding(call[p].key) : pl[1] > b[p] \/ (pl[1] = b[p] /\ pl[2] >= j[p])
  /\ pc[p] = "store" /\ call[p].op = "put" =>
       /\ stores[p] \in Written => ValTo(p) = call[p].val
       /\ variant # "packed" => KeyTo(p) = IF stores[p] = <<"val">> THEN call[p].key ELSE None
       /\ stores[p] \in KeyFirst => variant = "lb" /\ ValTo(p) = Junk
  /\ pc[p] = "store" /\ call[p].op = "remove" =>
       /\ Head(stores[p]) = "clear" => KeyTo(p) = call[p].key /\ ValTo(p) = ret[p]
       /\ Head(stores[p]) \in {"moveval", "movekey"} => KeyTo(p) = None
       /\ Head(stores[p]) \in {"movekey", "unlast"} => ValTo(p) = val[LastPlace(p)[1]][LastPlace(p)[2]]
       /\ Head(stores[p]) = "unlast" =>
            /\ KeyTo(p) = key[LastPlace(p)[1]][LastPlace(p)[2]]
            /\ empty[p] = LastPlace(p) => KeyTo(p) = None

(* The removes of lock_ins: a blocked place belongs to one of them.         *)
Blocks(p) ==
  pc[p] \in {"take", "free"} =>
    /\ KeyAt(p) = KEY_BLCK
    /\ \A q \in Threads : pc[q] \in {"take", "free"} /\ b[q] = b[p] /\ j[q] = j[p] => q = p

(* A search without the lock, unless entries move: the key is ahead of it,  *)
(* or was absent since the call began, and a get that has found it has seen *)
(* its value.  (In a new bucket of lb there may be no value yet.)           *)
Misread(p) == variant = "lb" /\ found[p] = Junk
Ahead(p)   == \E pl \in Holding(call[p].key) : pl[1] > b[p] \/ (pl[1] = b[p] /\ pl[2] >= j[p])
Looking(p) ==
  /\ b[p] <= linked
  /\ pc[p] = "idle" => b[p] = 1 /\ j[p] = 1
  /\ variant # "packed" =>
       /\ pc[p] \in {"look", "key"} => None \in seen[p] \/ Ahead(p)
       /\ pc[p] = "key" /\ KeyAt(p) = call[p].key /\ ValAt(p) # found[p] =>
            None \in seen[p] \/ Misread(p)
       /\ pc[p] = "again" /\ (KeyAt(p) # call[p].key \/ ValAt(p) # found[p]) =>
            None \in seen[p] \/ Misread(p)
       /\ pc[p] = "again" /\ ValAt(p) = found[p] => found[p] \in seen[p] \/ Misread(p)
       /\ pc[p] = "block" /\ KeyAt(p) # call[p].key => None \in seen[p]

AnswersInv == /\ seen \in [Threads -> SUBSET (Vals \cup {None})]
              /\ FreshValues /\ HeldValues
              /\ \A p \in Threads : Outcome(p) /\ Writes(p) /\ Blocks(p) /\ Looking(p)

(* The abstract map.  A put takes effect with its key, in a packed chain    *)
(* with last, a remove when the key is cleared or blocked.                  *)
Applied(p) ==
  \/ call[p].op = "put" /\ ret[p] # None
  \/ call[p].op = "remove" /\ IF variant = "lock_ins" THEN pc[p] \in {"take", "free"}
                              ELSE ret[p] # None /\ ~(pc[p] = "store" /\ Head(stores[p]) = "clear")
Stage(p) == IF pc[p] \in {"idle", "done"} THEN pc[p]
            ELSE IF Applied(p) THEN "applied" ELSE "open"
Result(p) == IF pc[p] = "take" THEN ValAt(p)
             ELSE IF pc[p] = "done" \/ Applied(p) THEN ret[p] ELSE None
KV == INSTANCE KVMap WITH
        map   <- AbsMap,
        stage <- [p \in Threads |-> Stage(p)],
        res   <- [p \in Threads |-> Result(p)]

(* What holds of all three tables: updates are those of the abstract map,   *)
(* and so is every answer except                                            *)
(*  - of packed, one given without the lock: a key stays where last was     *)
(*    before, its value until a put takes that slot for another key, and an *)
(*    entry of a later bucket can be moved to one the search has left;      *)
(*  - of lb, a get that has seen the memory of a new bucket, linked before  *)
(*    its entry is written.                                                 *)
MayBeWrong(p) ==
  /\ pc[p] \in {"last", "look", "key", "again"} /\ pc'[p] = "done"
  /\ UNCHANGED AbsMap
  /\ variant = "packed" \/ (variant = "lb" /\ call[p].op = "get" /\ found[p] = Junk)
UpdatesLinearizable ==
  KV!KVInit /\ [][KV!KVNext \/ UNCHANGED KV!kvVars \/ \E p \in Threads : MayBeWrong(p)]_vars
=============================================================================
