------------------------------- MODULE ClhtLf -------------------------------
(***************************************************************************)
(* CLHT-LF (src/clht/src/clht_lf.c, include/clht_lf.h): the lock-free      *)
(* cache-line hash table of a fixed size.                                  *)
(*                                                                         *)
(* A bucket is one cache line: KEY_BUCKT keys and values and a 64-bit      *)
(* snapshot, a byte of state for each slot and a version.  A put reserves  *)
(* a slot (INSRT) by a compare-and-swap of the snapshot, writes value and  *)
(* key into it, and publishes it (VALID) by a second one, which changes    *)
(* the version; a remove only makes a slot INVLD.  Gets look at each slot  *)
(* without the snapshot.                                                   *)
(*                                                                         *)
(* Each action is one access to shared memory.  Memory is sequentially     *)
(* consistent: the code relies on the store and load order of x86.         *)
(***************************************************************************)
EXTENDS Naturals

CONSTANTS
  Threads,       \* the threads, each with one call open at a time
  Ops,           \* the functions each thread calls
  Keys,          \* the keys, addresses other than 0
  KEY_BUCKT,     \* slots of a bucket
  NumBuckets,    \* num_buckets of clht_create
  MaxPuts        \* bound: calls of clht_put

ASSUME OpsAssumption     == Ops \in [Threads -> SUBSET {"put", "get", "remove"}]
ASSUME KeysAssumption    == Keys \subseteq Nat \ {0}
ASSUME BucketsAssumption == KEY_BUCKT \in Nat \ {0} /\ NumBuckets \in Nat \ {0}
ASSUME BoundsAssumption  == MaxPuts \in Nat

MAP_INVLD == 0
MAP_VALID == 1
MAP_INSRT == 2

None  == 0                \* no key, no value: NULL and 0 of the code
Vals  == 1..MaxPuts       \* the n-th call of clht_put brings value n
Slots == 1..KEY_BUCKT
Bins  == 0..(NumBuckets - 1)

(* clht_snapshot_t.  A version is never larger than the puts that made it;  *)
(* the 32 bits it has in the code do not wrap within the bounds.            *)
Snapshots == [version : Nat, map : [Slots -> {MAP_INVLD, MAP_VALID, MAP_INSRT}]]
NoSnapshot == [version |-> 0, map |-> [i \in Slots |-> MAP_INVLD]]
-----------------------------------------------------------------------------
VARIABLES
  (* bucket_t, per bucket *)
  snapshot,       \* version and map[]
  key,
  val,
  (* per thread: where it is and its local variables *)
  pc,
  call,           \* the arguments of the open call
  s,              \* the snapshot the call works with
  i,              \* the slot it looks at
  found,          \* val of clht_bucket_search, then its result
  empty_index,    \* the slot reserved by this put, None if it has none
  ret,            \* what the call returns
  (* history *)
  puts,           \* calls of clht_put so far
  seen            \* the values the key of the open call had since its start

bucket == <<snapshot, key, val>>
vars == <<bucket, pc, call, s, i, found, empty_index, ret, puts, seen>>

Calls == [op : {"put", "get", "remove"}, key : Keys, val : Vals \cup {None}]
Idle  == [op |-> "idle", key |-> None, val |-> None]

Init ==
  /\ snapshot = [b \in Bins |-> NoSnapshot]
  /\ key = [b \in Bins |-> [j \in Slots |-> None]]
  /\ val = [b \in Bins |-> [j \in Slots |-> None]]
  /\ pc = [p \in Threads |-> "idle"]
  /\ call = [p \in Threads |-> Idle]
  /\ s = [p \in Threads |-> NoSnapshot]
  /\ i = [p \in Threads |-> 1]
  /\ found = [p \in Threads |-> None]
  /\ empty_index = [p \in Threads |-> None]
  /\ ret = [p \in Threads |-> None]
  /\ puts = 0
  /\ seen = [p \in Threads |-> {}]
-----------------------------------------------------------------------------
(* key & hash, where hash = num_buckets - 1 and num_buckets a power of two. *)
clht_hash(k) == k % NumBuckets

(* The bucket of the thread's key, and the slot the thread looks at.        *)
Bin(p)     == clht_hash(call[p].key)
StateAt(p) == snapshot[Bin(p)].map[i[p]]
KeyAt(p)   == key[Bin(p)][i[p]]
ValAt(p)   == val[Bin(p)][i[p]]

(* The map the table stands for.                                            *)
ValidSlots(k) == {j \in Slots : /\ snapshot[clht_hash(k)].map[j] = MAP_VALID
                                /\ key[clht_hash(k)][j] = k}
AbsMap == [k \in Keys |->
             IF ValidSlots(k) = {} THEN None
             ELSE val[clht_hash(k)][CHOOSE j \in ValidSlots(k) : TRUE]]

snap_set_map(snap, j, state) == [snap EXCEPT !.map[j] = state]

\* Mutant: the version stays.
SetMapOnly(snap, j, state) == [snap EXCEPT !.map[j] = state]

snap_set_map_and_inc_version(snap, j, state) ==
  [version |-> snap.version + 1, map |-> [snap.map EXCEPT ![j] = state]]

(* snap_get_empty_index: the first slot that is INVLD.                      *)
IsEmptyIndex(snap, j) ==
  /\ snap.map[j] = MAP_INVLD
  /\ \A l \in Slots : snap.map[l] = MAP_INVLD => j <= l

Goto(p, l) == pc' = [pc EXCEPT ![p] = l]
-----------------------------------------------------------------------------
(* Calls and returns.  The callers are the threads of test/test_mem.c.      *)
Invoke(p) ==
  /\ pc[p] = "idle"
  /\ \E c \in Calls :
       /\ c.op \in Ops[p]
       /\ IF c.op = "put" THEN puts < MaxPuts /\ c.val = puts + 1 ELSE c.val = None
       /\ call' = [call EXCEPT ![p] = c]
       /\ puts' = IF c.op = "put" THEN puts + 1 ELSE puts
       /\ Goto(p, IF c.op = "get" THEN "val" ELSE "snapshot")
  /\ i' = [i EXCEPT ![p] = 1]
  /\ UNCHANGED <<bucket, s, found, empty_index, ret>>

Return(p) ==
  /\ pc[p] = "done"
  /\ Goto(p, "idle")
  /\ call' = [call EXCEPT ![p] = Idle]
  /\ s' = [s EXCEPT ![p] = NoSnapshot]
  /\ i' = [i EXCEPT ![p] = 1]
  /\ found' = [found EXCEPT ![p] = None]
  /\ empty_index' = [empty_index EXCEPT ![p] = None]
  /\ ret' = [ret EXCEPT ![p] = None]
  /\ UNCHANGED <<bucket, puts>>
-----------------------------------------------------------------------------
(* clht_bucket_search: value, state and key of each slot in turn, and the   *)
(* value again where the key is found.                                      *)
SearchVal(p) ==
  /\ pc[p] = "val"
  /\ found' = [found EXCEPT ![p] = ValAt(p)]
  /\ Goto(p, "state")
  /\ UNCHANGED <<bucket, call, s, i, empty_index, ret, puts>>

(* What the caller does with the result: a get returns it, a put that finds *)
(* its key fails, and gives the slot back that it may have reserved.        *)
Searched(p, v) ==
  /\ found' = [found EXCEPT ![p] = v]
  /\ ret' = [ret EXCEPT ![p] = IF call[p].op = "get" THEN v ELSE None]
  /\ Goto(p, IF call[p].op = "get" THEN "done"
             ELSE IF v = None
                  THEN IF empty_index[p] = None THEN "reserve" ELSE "publish"
                  ELSE IF empty_index[p] = None THEN "done" ELSE "giveback")
  /\ UNCHANGED i

\* Mutant: one slot too many.
NextSlotPast(p) ==
  IF i[p] <= KEY_BUCKT
  THEN Goto(p, "val") /\ i' = [i EXCEPT ![p] = @ + 1] /\ UNCHANGED <<found, ret>>
  ELSE Searched(p, None)

NextSlot(p) ==
  IF i[p] < KEY_BUCKT
  THEN Goto(p, "val") /\ i' = [i EXCEPT ![p] = @ + 1] /\ UNCHANGED <<found, ret>>
  ELSE Searched(p, None)

SearchState(p) ==
  /\ pc[p] = "state"
  /\ IF StateAt(p) = MAP_VALID
     THEN Goto(p, "key") /\ UNCHANGED <<found, ret, i>>
     ELSE NextSlot(p)
  /\ UNCHANGED <<bucket, call, s, empty_index, puts>>

SearchKey(p) ==
  /\ pc[p] = "key"
  /\ IF KeyAt(p) = call[p].key
     THEN Goto(p, "again") /\ UNCHANGED <<found, ret, i>>
     ELSE NextSlot(p)
  /\ UNCHANGED <<bucket, call, s, empty_index, puts>>

\* Mutant: the value is returned as it was read.
SearchOnce(p) ==
  /\ pc[p] = "again"
  /\ Searched(p, found[p])
  /\ UNCHANGED <<bucket, call, s, empty_index, puts>>

SearchAgain(p) ==
  /\ pc[p] = "again"
  /\ Searched(p, IF ValAt(p) = found[p] THEN found[p] ELSE None)
  /\ UNCHANGED <<bucket, call, s, empty_index, puts>>
-----------------------------------------------------------------------------
(* retry: s = bucket->snapshot *)
Snapshot(p) ==
  /\ pc[p] = "snapshot"
  /\ s' = [s EXCEPT ![p] = snapshot[Bin(p)]]
  /\ i' = [i EXCEPT ![p] = 1]
  /\ Goto(p, IF call[p].op = "put" THEN "val" ELSE "rkey")
  /\ UNCHANGED <<bucket, call, found, empty_index, ret, puts>>

(* CAS_U64 of the snapshot of the thread's bucket.                          *)
Swaps(p, old, new) ==
  /\ snapshot[Bin(p)] = old
  /\ snapshot' = [snapshot EXCEPT ![Bin(p)] = new]
SwapFails(p, old) ==
  /\ snapshot[Bin(p)] # old
  /\ Goto(p, "snapshot")

(* clht_put: no slot of the snapshot is empty.  In this table it never      *)
(* grows, the put tries until a remove makes room.                          *)
PutFull(p) ==
  /\ pc[p] = "reserve"
  /\ \A j \in Slots : s[p].map[j] # MAP_INVLD
  /\ Goto(p, "snapshot")
  /\ UNCHANGED <<bucket, call, s, i, found, empty_index, ret, puts>>

\* Mutant: the reservation is a plain store.
ReserveBlind(p) ==
  /\ pc[p] = "reserve"
  /\ \E j \in Slots :
       /\ IsEmptyIndex(s[p], j)
       /\ snapshot' = [snapshot EXCEPT ![Bin(p)].map[j] = MAP_INSRT]
       /\ s' = [s EXCEPT ![p] = snapshot'[Bin(p)]]
       /\ empty_index' = [empty_index EXCEPT ![p] = j]
  /\ Goto(p, "putval")
  /\ UNCHANGED <<key, val, call, i, found, ret, puts>>

Reserve(p) ==
  /\ pc[p] = "reserve"
  /\ \E j \in Slots :
       LET s1 == snap_set_map(s[p], j, MAP_INSRT)
       IN  /\ IsEmptyIndex(s[p], j)
           /\ Swaps(p, s[p], s1)
           /\ s' = [s EXCEPT ![p] = s1]
           /\ empty_index' = [empty_index EXCEPT ![p] = j]
  /\ Goto(p, "putval")
  /\ UNCHANGED <<key, val, call, i, found, ret, puts>>

ReserveFails(p) ==
  /\ pc[p] = "reserve"
  /\ \E j \in Slots : IsEmptyIndex(s[p], j)
  /\ SwapFails(p, s[p])
  /\ UNCHANGED <<bucket, call, s, i, found, empty_index, ret, puts>>

PutVal(p) ==
  /\ pc[p] = "putval"
  /\ val' = [val EXCEPT ![Bin(p)][empty_index[p]] = call[p].val]
  /\ Goto(p, "putkey")
  /\ UNCHANGED <<snapshot, key, call, s, i, found, empty_index, ret, puts>>

PutKey(p) ==
  /\ pc[p] = "putkey"
  /\ key' = [key EXCEPT ![Bin(p)][empty_index[p]] = call[p].key]
  /\ Goto(p, "publish")
  /\ UNCHANGED <<snapshot, val, call, s, i, found, empty_index, ret, puts>>

(* s1 of the code: the snapshot with the put's own slot reserved.  After a  *)
(* retry it is the snapshot itself.                                         *)
Reserved(p) == snap_set_map(s[p], empty_index[p], MAP_INSRT)

Publish(p) ==
  /\ pc[p] = "publish"
  /\ Swaps(p, Reserved(p),
           snap_set_map_and_inc_version(Reserved(p), empty_index[p], MAP_VALID))
  /\ ret' = [ret EXCEPT ![p] = call[p].val]
  /\ empty_index' = [empty_index EXCEPT ![p] = None]
  /\ Goto(p, "done")
  /\ UNCHANGED <<key, val, call, s, i, found, puts>>

PublishFails(p) ==
  /\ pc[p] = "publish"
  /\ SwapFails(p, Reserved(p))
  /\ UNCHANGED <<bucket, call, s, i, found, empty_index, ret, puts>>

(* Mutant: the reservation is forgotten.                                    *)
GiveNothingBack(p) ==
  /\ pc[p] = "giveback"
  /\ empty_index' = [empty_index EXCEPT ![p] = None]
  /\ Goto(p, "done")
  /\ UNCHANGED <<bucket, call, s, i, found, ret, puts>>

(* bucket->map[empty_index] = MAP_INVLD, a plain store.                     *)
GiveBack(p) ==
  /\ pc[p] = "giveback"
  /\ snapshot' = [snapshot EXCEPT ![Bin(p)].map[empty_index[p]] = MAP_INVLD]
  /\ empty_index' = [empty_index EXCEPT ![p] = None]
  /\ Goto(p, "done")
  /\ UNCHANGED <<key, val, call, s, i, found, ret, puts>>
-----------------------------------------------------------------------------
(* clht_remove: a slot that holds the key now and was VALID in the          *)
(* snapshot; its value is read before the CAS that makes it INVLD.          *)
RemoveKey(p) ==
  /\ pc[p] = "rkey"
  /\ IF KeyAt(p) = call[p].key /\ s[p].map[i[p]] = MAP_VALID
     THEN Goto(p, "rval") /\ UNCHANGED i
     ELSE IF i[p] < KEY_BUCKT
          THEN i' = [i EXCEPT ![p] = @ + 1] /\ UNCHANGED pc
          ELSE Goto(p, "done") /\ UNCHANGED i
  /\ UNCHANGED <<bucket, call, s, found, empty_index, ret, puts>>

RemoveVal(p) ==
  /\ pc[p] = "rval"
  /\ found' = [found EXCEPT ![p] = ValAt(p)]
  /\ Goto(p, "rcas")
  /\ UNCHANGED <<bucket, call, s, i, empty_index, ret, puts>>

\* Mutant: the slot is made INVLD by a plain store.
RemoveBlind(p) ==
  /\ pc[p] = "rcas"
  /\ snapshot' = [snapshot EXCEPT ![Bin(p)].map[i[p]] = MAP_INVLD]
  /\ ret' = [ret EXCEPT ![p] = found[p]]
  /\ Goto(p, "done")
  /\ UNCHANGED <<key, val, call, s, i, found, empty_index, puts>>

Remove(p) ==
  /\ pc[p] = "rcas"
  /\ Swaps(p, s[p], snap_set_map(s[p], i[p], MAP_INVLD))
  /\ ret' = [ret EXCEPT ![p] = found[p]]
  /\ Goto(p, "done")
  /\ UNCHANGED <<key, val, call, s, i, found, empty_index, puts>>

RemoveFails(p) ==
  /\ pc[p] = "rcas"
  /\ SwapFails(p, s[p])
  /\ UNCHANGED <<bucket, call, s, i, found, empty_index, ret, puts>>
-----------------------------------------------------------------------------
clht_bucket_search(p) ==
  SearchVal(p) \/ SearchState(p) \/ SearchKey(p) \/ SearchAgain(p)

clht_put(p) == \/ PutFull(p) \/ Reserve(p) \/ ReserveFails(p)
               \/ PutVal(p) \/ PutKey(p)
               \/ Publish(p) \/ PublishFails(p) \/ GiveBack(p)

clht_remove(p) == RemoveKey(p) \/ RemoveVal(p) \/ Remove(p) \/ RemoveFails(p)

(* What a thread does once its call is made.                                *)
Work(p) == clht_bucket_search(p) \/ Snapshot(p) \/ clht_put(p) \/ clht_remove(p)
           \/ Return(p)

(* The history of the key of every open call.                               *)
Watch ==
  seen' = [p \in Threads |->
             IF call'[p] = Idle THEN {}
             ELSE IF call[p] = Idle THEN {AbsMap'[call'[p].key]}
             ELSE seen[p] \cup {AbsMap'[call[p].key]}]

Next == (\E p \in Threads : Invoke(p) \/ Work(p)) /\ Watch

Spec == Init /\ [][Next]_vars

(* The scheduler runs every thread that has a call open.                    *)
FairSpec == Spec /\ \A p \in Threads : WF_vars(Work(p) /\ Watch)
-----------------------------------------------------------------------------
(* Properties *)

Searching == {"val", "state", "key", "again"}
Removing  == {"rkey", "rval", "rcas"}
Labels    == {"idle", "done", "snapshot", "reserve", "putval", "putkey",
              "publish", "giveback"} \cup Searching \cup Removing

(* Types *)
TypeOK ==
  /\ snapshot \in [Bins -> Snapshots]
  /\ key \in [Bins -> [Slots -> Keys \cup {None}]]
  /\ val \in [Bins -> [Slots -> Vals \cup {None}]]
  /\ pc \in [Threads -> Labels]
  /\ call \in [Threads -> Calls \cup {Idle}]
  /\ s \in [Threads -> Snapshots]
  /\ i \in [Threads -> Slots]
  /\ found \in [Threads -> Vals \cup {None}]
  /\ empty_index \in [Threads -> Slots \cup {None}]
  /\ ret \in [Threads -> Vals \cup {None}]
  /\ puts \in 0..MaxPuts
  /\ seen \in [Threads -> SUBSET (Vals \cup {None})]

(* Every reserved slot belongs to exactly one put, which will publish it or *)
(* give it back: a put that gives up on a retry leaves nothing behind, and  *)
(* no CAS or plain store takes the slot of another.                         *)
ReservationsOwned ==
  /\ \A p \in Threads : empty_index[p] # None =>
       snapshot[Bin(p)].map[empty_index[p]] = MAP_INSRT
  /\ \A p, q \in Threads :
       /\ empty_index[p] # None /\ empty_index[p] = empty_index[q]
       /\ Bin(p) = Bin(q)
       => p = q
  /\ \A b \in Bins, j \in Slots : snapshot[b].map[j] = MAP_INSRT =>
       \E p \in Threads : empty_index[p] = j /\ Bin(p) = b

(* No key is valid in two slots, although two puts of it may both find it   *)
(* absent and both hold a reservation.                                      *)
UniqueKeys ==
  \A b \in Bins : \A j, l \in Slots :
    /\ snapshot[b].map[j] = MAP_VALID /\ snapshot[b].map[l] = MAP_VALID
    /\ key[b][j] = key[b][l]
    => j = l

(* A slot that stays VALID keeps its key and value: readers without a       *)
(* snapshot rely on it.                                                     *)
ValidSlotsStand ==
  [][\A b \in Bins, j \in Slots :
       snapshot[b].map[j] = MAP_VALID /\ snapshot'[b].map[j] = MAP_VALID =>
         key'[b][j] = key[b][j] /\ val'[b][j] = val[b][j]]_vars

(* While the version of a bucket stands its slots can only cease to be      *)
(* VALID.  So what a search did not find is not there as long as a CAS on   *)
(* the snapshot it began with succeeds.                                     *)
VersionTellsPuts ==
  [][\A b \in Bins : snapshot'[b].version = snapshot[b].version =>
       \A j \in Slots :
         snapshot'[b].map[j] = MAP_VALID => snapshot[b].map[j] = MAP_VALID]_vars

(* The inductive invariant behind the properties above, in parts.           *)

(* The puts that hold a slot, as long as they do not search again, and the  *)
(* calls that have taken a snapshot they still work with.                   *)
Holding == {"putval", "putkey", "publish", "giveback"}
Working == Searching \cup {"reserve", "putval", "putkey", "publish"}

(* Which call can be where, and what its locals mean there.                 *)
Phases ==
  \A p \in Threads :
    /\ pc[p] = "idle" <=> call[p] = Idle
    /\ pc[p] = "snapshot" => call[p].op # "get"
    /\ pc[p] \in Searching => call[p].op # "remove"
    /\ pc[p] \in Removing => call[p].op = "remove"
    /\ pc[p] \in {"reserve"} \cup Holding => call[p].op = "put"
    /\ call[p].op = "put" => call[p].val \in Vals
    /\ pc[p] \in Holding => empty_index[p] # None
    /\ empty_index[p] # None =>
         call[p].op = "put" /\ pc[p] \in {"snapshot"} \cup Searching \cup Holding
    /\ pc[p] \in {"rval", "rcas"} => s[p].map[i[p]] = MAP_VALID

(* A reserved slot holds the value and the key of its put once they are     *)
(* written, and a valid one holds both.                                     *)
Filled ==
  /\ \A p \in Threads : empty_index[p] # None =>
       /\ pc[p] # "putval" => val[Bin(p)][empty_index[p]] = call[p].val
       /\ pc[p] \notin {"putval", "putkey"} =>
            key[Bin(p)][empty_index[p]] = call[p].key
  /\ \A b \in Bins, j \in Slots : snapshot[b].map[j] = MAP_VALID =>
       val[b][j] # None

(* A put whose snapshot has the version the bucket has.                     *)
Current(p) == /\ call[p].op = "put" /\ pc[p] \in Working
              /\ s[p].version = snapshot[Bin(p)].version

Valid(p, j) == snapshot[Bin(p)].map[j] = MAP_VALID
Present(p, j) == Valid(p, j) /\ key[Bin(p)][j] = call[p].key

(* What a put knows while its snapshot is current.                          *)
(*  - Slots have only ceased to be valid.                                   *)
(*  - Its key is in no slot it has passed, and nowhere once it has          *)
(*    searched.  The search also ends, without a look at the slots that     *)
(*    follow, where key and value of a slot disagree: there the key is in   *)
(*    no other slot.                                                        *)
(*  - That is because a slot that was valid in the snapshot and holds the   *)
(*    key without being valid now either has just lost the key, or belongs  *)
(*    to a put that found the key absent under the same version.            *)
Knowledge(p) ==
  Current(p) =>
    /\ \A j \in Slots : Valid(p, j) => s[p].map[j] = MAP_VALID
    /\ \A j \in Slots : Present(p, j) => pc[p] \in Searching /\ j >= i[p]
    /\ pc[p] = "again" => \A j \in Slots : Present(p, j) => j = i[p]
    /\ pc[p] \in {"state", "key", "again"} /\ Valid(p, i[p]) =>
         ValAt(p) = found[p]
    /\ pc[p] \in {"key", "again"} => s[p].map[i[p]] = MAP_VALID
    /\ \A j \in Slots :
         /\ s[p].map[j] = MAP_VALID /\ ~Valid(p, j)
         /\ key[Bin(p)][j] = call[p].key
         => \A l \in Slots : ~Present(p, l)
    /\ \A q \in Threads :
         /\ empty_index[q] # None /\ Bin(q) = Bin(p)
         /\ pc[q] \in {"putval", "putkey"}
         /\ s[p].map[empty_index[q]] = MAP_VALID
         => s[q].version = s[p].version

Searches ==
  \A p \in Threads :
    /\ call[p].op = "put" /\ pc[p] \in Working =>
         s[p].version <= snapshot[Bin(p)].version
    /\ Knowledge(p)

IndInv == TypeOK /\ Phases /\ ReservationsOwned /\ Filled /\ UniqueKeys /\ Searches

(* The invariant behind the answers of the calls, in parts.  It is          *)
(* inductive together with IndInv.                                          *)

(* The value of a put that has not written it yet is nowhere to be seen.    *)
Pending(p) ==
  /\ call[p].op = "put"
  /\ pc[p] = "putval" \/ (empty_index[p] = None /\ pc[p] # "done")
FreshValues ==
  /\ \A b \in Bins, j \in Slots :
       /\ val[b][j] <= puts
       /\ \A p \in Threads : Pending(p) => val[b][j] # call[p].val
  /\ \A p, q \in Threads :
       /\ call[q].val <= puts /\ found[q] <= puts
       /\ Pending(p) => found[q] # call[p].val
       /\ Pending(p) /\ call[q].op = "put" /\ p # q => call[q].val # call[p].val

(* What the key of an open call has now it had during the call.             *)
SeenNow ==
  \A p \in Threads :
    IF call[p] = Idle THEN seen[p] = {} ELSE AbsMap[call[p].key] \in seen[p]

(* A search that has passed its key by has seen it missing.                 *)
NotMissed ==
  \A p \in Threads :
    /\ pc[p] \in {"val", "state", "key"} =>
         \/ None \in seen[p]
         \/ \E j \in Slots : i[p] <= j /\ Present(p, j)
    /\ pc[p] = "rkey" =>
         \/ None \in seen[p]
         \/ \E j \in Slots : i[p] <= j /\ Present(p, j) /\ s[p].map[j] = MAP_VALID

(* The puts that have taken the slot a search looks at, after it had found  *)
(* the slot valid: their values are new to it, and a put of the same key    *)
(* took the slot when the key was missing.                                  *)
TakenSince(p) ==
  \A q \in Threads :
    empty_index[q] # None /\ empty_index[q] = i[p] /\ Bin(q) = Bin(p) =>
      /\ call[q].val # found[p]
      /\ call[q].key = call[p].key => None \in seen[p]

(* The value that a search has read is the one its key had, unless the key  *)
(* has been missing during the call.                                        *)
Compared(p) ==
  /\ pc[p] = "state" /\ Present(p, i[p]) /\ ValAt(p) # found[p] => None \in seen[p]
  /\ pc[p] = "again" \/ (pc[p] = "key" /\ KeyAt(p) = call[p].key) =>
       /\ ~Present(p, i[p]) \/ ValAt(p) # found[p] => None \in seen[p]
       /\ ValAt(p) = found[p] => found[p] \in seen[p]
  /\ pc[p] \in {"key", "again"} => TakenSince(p)

(* A remove whose snapshot still has the version of the bucket, and whose   *)
(* slot is still valid, has looked at the entry that is there now.          *)
Removes(p) ==
  pc[p] \in Removing =>
    /\ s[p].version <= snapshot[Bin(p)].version
    /\ s[p].version = snapshot[Bin(p)].version /\ Valid(p, i[p]) =>
         /\ pc[p] \in {"rval", "rcas"} => KeyAt(p) = call[p].key
         /\ pc[p] = "rcas" => ValAt(p) = found[p]

(* A call that is not done has no result, and a put that gives its slot     *)
(* back has seen its key present.                                           *)
Unanswered(p) ==
  /\ pc[p] # "done" => ret[p] = None
  /\ pc[p] = "giveback" => seen[p] \cap Vals # {}

AnswersInv ==
  /\ FreshValues /\ SeenNow /\ NotMissed
  /\ \A p \in Threads : Compared(p) /\ Removes(p) /\ Unanswered(p)

(* Every answer of the table is one the abstract map could give.            *)
Stage(p) == IF pc[p] \in {"idle", "done"} THEN pc[p] ELSE "open"
KV == INSTANCE KVMap WITH
        map   <- AbsMap,
        stage <- [p \in Threads |-> Stage(p)],
        res   <- [p \in Threads |-> IF Stage(p) = "done" THEN ret[p] ELSE None]
Linearizable == KV!KVSpec

(* Every call returns, as long as a bucket has a slot for each of its keys: *)
(* retries end because each is due to a step another call made, and         *)
(* reservations are given back.                                             *)
CallsReturn == \A p \in Threads : call[p] # Idle ~> call[p] = Idle
=============================================================================
