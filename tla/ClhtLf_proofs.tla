--------------------------- MODULE ClhtLf_proofs ---------------------------
(***************************************************************************)
(* Proofs about ClhtLf, for every number of threads, keys, slots and       *)
(* buckets: reservations have one owner, no key is valid in two slots,     *)
(* valid slots do not change below a reader, and the version of a bucket   *)
(* tells every put.  All follow from IndInv.  The second part shows that   *)
(* the table is an atomic map.                                             *)
(***************************************************************************)
EXTENDS ClhtLf, TLAPS

(* A key has a bucket.                                                      *)
LEMMA HashType ==
  ASSUME NEW k \in Nat
  PROVE  clht_hash(k) \in Bins
<1>1. ASSUME NEW n \in Nat \ {0} PROVE k % n \in 0..(n - 1)
  OBVIOUS
<1> QED
  BY <1>1, BucketsAssumption DEF clht_hash, Bins

(* So does a thread.                                                        *)
LEMMA BinType ==
  ASSUME call \in [Threads -> Calls \cup {Idle}], NEW p \in Threads
  PROVE  call[p].key \in Keys \cup {None} /\ Bin(p) \in Bins
<1>1. call[p].key \in Keys \cup {None}
  <2>1. call[p] \in Calls \/ call[p] = Idle
    OBVIOUS
  <2>2. ASSUME call[p] \in Calls PROVE call[p].key \in Keys
    BY <2>2 DEF Calls
  <2>3. Idle.key = None
    BY DEF Idle
  <2> QED
    BY <2>1, <2>2, <2>3
<1>2. call[p].key \in Nat
  <2>1. CASE call[p].key \in Keys
    BY <2>1, KeysAssumption
  <2>2. CASE call[p].key = None
    BY <2>2 DEF None
  <2> QED
    BY <1>1, <2>1, <2>2
<1> QED
  BY <1>1, <1>2, HashType DEF Bin

(* Arguments of a call, and those of no call.                               *)
LEMMA CallType ==
  ASSUME call \in [Threads -> Calls \cup {Idle}], NEW p \in Threads
  PROVE  call[p].val \in Vals \cup {None}
BY DEF Calls, Idle, None

(* The abstract map is a map.                                               *)
LEMMA AbsMapType ==
  ASSUME val \in [Bins -> [Slots -> Vals \cup {None}]]
  PROVE  AbsMap \in [Keys -> Vals \cup {None}]
<1> SUFFICES ASSUME NEW k \in Keys, ValidSlots(k) # {}
             PROVE  val[clht_hash(k)][CHOOSE j \in ValidSlots(k) : TRUE]
                      \in Vals \cup {None}
  BY DEF AbsMap
<1>1. (CHOOSE j \in ValidSlots(k) : TRUE) \in Slots
  BY DEF ValidSlots
<1>2. clht_hash(k) \in Bins
  BY HashType, KeysAssumption
<1> QED
  BY <1>1, <1>2
-----------------------------------------------------------------------------
(* What a step does, in terms of slots.                                     *)

(* The state of slot j of bucket b is set, nothing else of the snapshots.   *)
Marks(b, j, state) ==
  \A c \in Bins :
    /\ snapshot'[c].version = snapshot[c].version
    /\ \A l \in Slots : snapshot'[c].map[l] =
                          IF c = b /\ l = j THEN state ELSE snapshot[c].map[l]

(* As Marks, for a new version of the bucket.                               *)
Publishes(b, j) ==
  \A c \in Bins :
    /\ snapshot'[c].version =
         IF c = b THEN snapshot[c].version + 1 ELSE snapshot[c].version
    /\ \A l \in Slots : snapshot'[c].map[l] =
                          IF c = b /\ l = j THEN MAP_VALID ELSE snapshot[c].map[l]

(* The actions that write to a bucket.                                      *)
Writes(p) == Reserve(p) \/ PutVal(p) \/ PutKey(p) \/ Publish(p) \/ GiveBack(p) \/ Remove(p)

(* What stays the same for a thread that does not move.                     *)
Stands(q) == /\ pc'[q] = pc[q] /\ call'[q] = call[q] /\ s'[q] = s[q]
             /\ i'[q] = i[q] /\ found'[q] = found[q]
             /\ empty_index'[q] = empty_index[q] /\ Bin(q)' = Bin(q)

(* A step of one thread leaves the locals of the others alone.              *)
LEMMA OthersStand ==
  ASSUME TypeOK, NEW p \in Threads, Invoke(p) \/ Work(p),
         NEW q \in Threads, q # p
  PROVE  Stands(q)
<1>1. pc'[q] = pc[q] /\ call'[q] = call[q] /\ s'[q] = s[q]
  BY DEF TypeOK, Goto, Invoke, Work, Return, clht_bucket_search, Snapshot, clht_put,
     clht_remove, SearchVal, SearchState, SearchKey, SearchAgain, Searched, NextSlot,
     PutFull, Reserve, ReserveFails, PutVal, PutKey, Publish, PublishFails, GiveBack,
     RemoveKey, RemoveVal, Remove, RemoveFails, SwapFails
<1>2. i'[q] = i[q] /\ found'[q] = found[q] /\ empty_index'[q] = empty_index[q]
  BY DEF TypeOK, Goto, Invoke, Work, Return, clht_bucket_search, Snapshot, clht_put,
     clht_remove, SearchVal, SearchState, SearchKey, SearchAgain, Searched, NextSlot,
     PutFull, Reserve, ReserveFails, PutVal, PutKey, Publish, PublishFails, GiveBack,
     RemoveKey, RemoveVal, Remove, RemoveFails, SwapFails
<1> QED
  BY <1>1, <1>2 DEF Stands, Bin, clht_hash

(* The other steps leave the buckets alone.                                 *)
LEMMA Quiet ==
  ASSUME NEW p \in Threads, Invoke(p) \/ Work(p), ~Writes(p)
  PROVE  snapshot' = snapshot /\ key' = key /\ val' = val
BY DEF bucket, Invoke, Work, Return, clht_bucket_search, Snapshot, clht_put,
     clht_remove, SearchVal, SearchState, SearchKey, SearchAgain, 
     PutFull, ReserveFails, PublishFails, RemoveKey, RemoveVal, RemoveFails, Writes

(* A call stays the same until it returns.                                  *)
LEMMA CallStands ==
  ASSUME NEW p \in Threads, Work(p), ~Return(p)
  PROVE  call' = call /\ \A q \in Threads : Bin(q)' = Bin(q)
<1>1. call' = call
  BY DEF Work, clht_bucket_search, Snapshot, clht_put,
     clht_remove, SearchVal, SearchState, SearchKey, SearchAgain, 
     PutFull, Reserve, ReserveFails, PutVal, PutKey, Publish, PublishFails, GiveBack,
     RemoveKey, RemoveVal, Remove, RemoveFails
<1> QED
  BY <1>1 DEF Bin, clht_hash

(* A put finds the slot it takes empty, and it takes the snapshot it leaves *)
(* behind for its own.                                                      *)
LEMMA ReserveEffect ==
  ASSUME TypeOK, NEW p \in Threads, Reserve(p)
  PROVE  /\ snapshot[Bin(p)] = s[p] /\ snapshot'[Bin(p)] = s'[p]
         /\ key' = key /\ val' = val /\ call' = call /\ pc'[p] = "putval"
         /\ empty_index'[p] \in Slots
         /\ empty_index' = [empty_index EXCEPT ![p] = empty_index'[p]]
         /\ snapshot[Bin(p)].map[empty_index'[p]] = MAP_INVLD
         /\ Marks(Bin(p), empty_index'[p], MAP_INSRT)
<1>1. PICK j \in Slots :
        LET s1 == snap_set_map(s[p], j, MAP_INSRT)
        IN  /\ IsEmptyIndex(s[p], j)
            /\ Swaps(p, s[p], s1)
            /\ s' = [s EXCEPT ![p] = s1]
            /\ empty_index' = [empty_index EXCEPT ![p] = j]
  BY DEF Reserve
<1>2. /\ empty_index'[p] = j /\ s[p].map[j] = MAP_INVLD
      /\ s'[p] = [s[p] EXCEPT !.map[j] = MAP_INSRT]
      /\ snapshot[Bin(p)] = s[p]
      /\ snapshot' = [snapshot EXCEPT ![Bin(p)] = [s[p] EXCEPT !.map[j] = MAP_INSRT]]
  BY <1>1 DEF TypeOK, IsEmptyIndex, Swaps, snap_set_map
<1>3. Bin(p) \in Bins
  BY BinType DEF TypeOK
<1>4. s[p] \in Snapshots
  BY DEF TypeOK
<1>5. Marks(Bin(p), j, MAP_INSRT)
  BY <1>2, <1>3, <1>4 DEF TypeOK, Snapshots, Marks
<1> QED
  BY <1>1, <1>2, <1>3, <1>5 DEF Reserve, Goto, TypeOK

(* A put publishes its slot only under the version it searched under.       *)
LEMMA PublishEffect ==
  ASSUME TypeOK, NEW p \in Threads, Publish(p), empty_index[p] # None
  PROVE  /\ snapshot[Bin(p)].version = s[p].version
         /\ snapshot[Bin(p)].map[empty_index[p]] = MAP_INSRT
         /\ key' = key /\ val' = val /\ call' = call /\ pc'[p] = "done"
         /\ empty_index' = [empty_index EXCEPT ![p] = None]
         /\ Publishes(Bin(p), empty_index[p])
<1> DEFINE j  == empty_index[p]
           s1 == [s[p] EXCEPT !.map[j] = MAP_INSRT]
<1>1. j \in Slots /\ Bin(p) \in Bins /\ s[p] \in Snapshots
  BY BinType DEF TypeOK
<1>2. /\ snapshot[Bin(p)] = s1
      /\ snapshot' = [snapshot EXCEPT ![Bin(p)] =
            [version |-> s1.version + 1, map |-> [s1.map EXCEPT ![j] = MAP_VALID]]]
  BY DEF Publish, Swaps, Reserved, snap_set_map, snap_set_map_and_inc_version
<1>3. s1.version = s[p].version /\ s1.map[j] = MAP_INSRT /\ DOMAIN s1.map = Slots
  BY <1>1 DEF Snapshots
<1>4. Publishes(Bin(p), j)
  <2>1. ASSUME NEW c \in Bins, c # Bin(p) PROVE snapshot'[c] = snapshot[c]
    BY <1>1, <1>2, <2>1 DEF TypeOK
  <2>2. /\ snapshot'[Bin(p)].version = snapshot[Bin(p)].version + 1
        /\ snapshot'[Bin(p)].map = [snapshot[Bin(p)].map EXCEPT ![j] = MAP_VALID]
    BY <1>1, <1>2 DEF TypeOK
  <2>3. snapshot[Bin(p)].map \in [Slots -> {MAP_INVLD, MAP_VALID, MAP_INSRT}]
    BY <1>1 DEF TypeOK, Snapshots
  <2> QED
    BY <1>1, <2>1, <2>2, <2>3 DEF Publishes
<1> QED
  BY <1>1, <1>2, <1>3, <1>4 DEF Publish, Goto, TypeOK

(* A put that gives up makes its slot empty again.                          *)
LEMMA GiveBackEffect ==
  ASSUME TypeOK, NEW p \in Threads, GiveBack(p), empty_index[p] # None
  PROVE  /\ key' = key /\ val' = val /\ call' = call /\ pc'[p] = "done"
         /\ empty_index' = [empty_index EXCEPT ![p] = None]
         /\ Marks(Bin(p), empty_index[p], MAP_INVLD)
<1>1. empty_index[p] \in Slots /\ Bin(p) \in Bins
  BY BinType DEF TypeOK
<1>2. Marks(Bin(p), empty_index[p], MAP_INVLD)
  BY <1>1 DEF GiveBack, TypeOK, Snapshots, Marks
<1> QED
  BY <1>2 DEF GiveBack, Goto, TypeOK

(* A remove makes a valid slot empty.                                       *)
LEMMA RemoveEffect ==
  ASSUME TypeOK, Phases, NEW p \in Threads, Remove(p)
  PROVE  /\ key' = key /\ val' = val /\ call' = call /\ pc'[p] = "done"
         /\ empty_index' = empty_index
         /\ snapshot[Bin(p)].map[i[p]] = MAP_VALID
         /\ Marks(Bin(p), i[p], MAP_INVLD)
<1>1. i[p] \in Slots /\ Bin(p) \in Bins /\ s[p] \in Snapshots
  BY BinType DEF TypeOK
<1>2. /\ snapshot[Bin(p)] = s[p]
      /\ snapshot' = [snapshot EXCEPT ![Bin(p)] = [s[p] EXCEPT !.map[i[p]] = MAP_INVLD]]
  BY DEF Remove, Swaps, snap_set_map
<1>3. s[p].map[i[p]] = MAP_VALID
  BY DEF Remove, Phases
<1>4. Marks(Bin(p), i[p], MAP_INVLD)
  BY <1>1, <1>2 DEF TypeOK, Snapshots, Marks
<1> QED
  BY <1>2, <1>3, <1>4 DEF Remove, Goto, TypeOK

(* A put writes value and key into the slot it holds.                       *)
LEMMA FillEffect ==
  ASSUME TypeOK, Phases, NEW p \in Threads, PutVal(p) \/ PutKey(p)
  PROVE  /\ snapshot' = snapshot /\ call' = call /\ empty_index' = empty_index
         /\ s' = s /\ empty_index[p] \in Slots /\ empty_index[p] # None
         /\ \A c \in Bins, l \in Slots :
              /\ val'[c][l] = IF PutVal(p) /\ c = Bin(p) /\ l = empty_index[p]
                              THEN call[p].val ELSE val[c][l]
              /\ key'[c][l] = IF PutKey(p) /\ c = Bin(p) /\ l = empty_index[p]
                              THEN call[p].key ELSE key[c][l]
<1>1. empty_index[p] # None /\ empty_index[p] \in Slots
  BY DEF Phases, Holding, PutVal, PutKey, TypeOK
<1>2. ~(PutVal(p) /\ PutKey(p))
  BY DEF PutVal, PutKey
<1>3. Bin(p) \in Bins
  BY BinType DEF TypeOK
<1>4. CASE PutVal(p)
  BY <1>1, <1>2, <1>3, <1>4 DEF PutVal, TypeOK
<1>5. CASE PutKey(p)
  BY <1>1, <1>2, <1>3, <1>5 DEF PutKey, TypeOK
<1> QED
  BY <1>4, <1>5
-----------------------------------------------------------------------------
(* Types. *)

(* TypeOK without the history.                                              *)
BucketsOK == /\ snapshot \in [Bins -> Snapshots]
             /\ key \in [Bins -> [Slots -> Keys \cup {None}]]
             /\ val \in [Bins -> [Slots -> Vals \cup {None}]]
LocalsOK == /\ pc \in [Threads -> Labels]
            /\ call \in [Threads -> Calls \cup {Idle}]
            /\ s \in [Threads -> Snapshots]
            /\ i \in [Threads -> Slots]
            /\ found \in [Threads -> Vals \cup {None}]
            /\ empty_index \in [Threads -> Slots \cup {None}]
            /\ ret \in [Threads -> Vals \cup {None}]

(* A step keeps the types of the buckets.                                   *)
LEMMA BucketsStep ==
  ASSUME TypeOK, Phases, NEW p \in Threads, Invoke(p) \/ Work(p)
  PROVE  BucketsOK'
<1> USE DEF BucketsOK
<1>1. Bin(p) \in Bins /\ s[p] \in Snapshots /\ i[p] \in Slots
      /\ empty_index[p] \in Slots \cup {None}
      /\ call[p].key \in Keys \cup {None} /\ call[p].val \in Vals \cup {None}
  BY BinType, CallType DEF TypeOK
<1>2. BucketsOK
  BY DEF TypeOK
<1>3. ASSUME NEW x \in Snapshots, NEW j \in Slots,
             NEW a \in {MAP_INVLD, MAP_VALID, MAP_INSRT}
      PROVE  /\ [x EXCEPT !.map[j] = a] \in Snapshots
             /\ [version |-> x.version + 1, map |-> [x.map EXCEPT ![j] = a]] \in Snapshots
  BY DEF Snapshots
<1>4. CASE Reserve(p)
  <2>1. PICK j \in Slots : snapshot' = [snapshot EXCEPT ![Bin(p)] =
                                         [s[p] EXCEPT !.map[j] = MAP_INSRT]]
    BY <1>4 DEF Reserve, Swaps, snap_set_map
  <2>2. [s[p] EXCEPT !.map[j] = MAP_INSRT] \in Snapshots
    BY <1>1, <1>3
  <2> HIDE DEF Snapshots
  <2>3. snapshot' \in [Bins -> Snapshots]
    BY <1>2, <2>1, <2>2
  <2> QED
    BY <1>2, <1>4, <2>3 DEF Reserve
<1>5. CASE PutVal(p) \/ PutKey(p)
  <2>1. empty_index[p] \in Slots
    BY <1>5, FillEffect
  <2>2. CASE PutVal(p)
    BY <1>1, <1>2, <2>1, <2>2 DEF PutVal
  <2>3. CASE PutKey(p)
    BY <1>1, <1>2, <2>1, <2>3 DEF PutKey
  <2> QED
    BY <1>5, <2>2, <2>3
<1>6. CASE Publish(p)
  <2> DEFINE s1 == [s[p] EXCEPT !.map[empty_index[p]] = MAP_INSRT]
             s2 == [version |-> s1.version + 1,
                    map |-> [s1.map EXCEPT ![empty_index[p]] = MAP_VALID]]
  <2>1. snapshot' = [snapshot EXCEPT ![Bin(p)] = s2]
    BY <1>6 DEF Publish, Swaps, Reserved, snap_set_map, snap_set_map_and_inc_version
  <2>2. empty_index[p] \in Slots
    BY <1>1, <1>6 DEF Publish, Phases, Holding
  <2>3. s1 \in Snapshots
    BY <1>1, <1>3, <2>2
  <2>4. s2 \in Snapshots
    BY <1>3, <2>2, <2>3
  <2>5. snapshot' \in [Bins -> Snapshots]
    BY <1>2, <2>1, <2>4
  <2> QED
    BY <1>2, <1>6, <2>5 DEF Publish
<1>7. CASE GiveBack(p)
  <2>1. empty_index[p] \in Slots
    BY <1>1, <1>7 DEF GiveBack, Phases, Holding
  <2>2. snapshot' = [snapshot EXCEPT ![Bin(p)] =
                       [snapshot[Bin(p)] EXCEPT !.map[empty_index[p]] = MAP_INVLD]]
    BY <1>7 DEF GiveBack
  <2>3. [snapshot[Bin(p)] EXCEPT !.map[empty_index[p]] = MAP_INVLD] \in Snapshots
    BY <1>1, <1>2, <1>3, <2>1
  <2>4. snapshot' \in [Bins -> Snapshots]
    BY <1>2, <2>2, <2>3
  <2> QED
    BY <1>2, <1>7, <2>4 DEF GiveBack
<1>8. CASE Remove(p)
  <2>1. snapshot' = [snapshot EXCEPT ![Bin(p)] = [s[p] EXCEPT !.map[i[p]] = MAP_INVLD]]
    BY <1>8 DEF Remove, Swaps, snap_set_map
  <2>2. [s[p] EXCEPT !.map[i[p]] = MAP_INVLD] \in Snapshots
    BY <1>1, <1>3
  <2>3. snapshot' \in [Bins -> Snapshots]
    BY <1>2, <2>1, <2>2
  <2> QED
    BY <1>2, <1>8, <2>3 DEF Remove
<1> QED
  BY <1>2, <1>4, <1>5, <1>6, <1>7, <1>8, Quiet DEF Writes

(* A step keeps the types of the locals.                                    *)
LEMMA LocalsStep ==
  ASSUME TypeOK, Phases, NEW p \in Threads, Invoke(p) \/ Work(p)
  PROVE  LocalsOK' /\ puts' \in 0..MaxPuts
<1> USE DEF LocalsOK, Labels, Searching, Removing, Goto
<1>1. /\ Bin(p) \in Bins /\ s[p] \in Snapshots /\ i[p] \in Slots
      /\ found[p] \in Vals \cup {None} /\ ret[p] \in Vals \cup {None}
      /\ call[p].val \in Vals \cup {None}
  BY BinType, CallType DEF TypeOK
<1>2. LocalsOK /\ BucketsOK /\ puts \in 0..MaxPuts
  BY DEF TypeOK, BucketsOK
<1>3. snapshot[Bin(p)] \in Snapshots /\ ValAt(p) \in Vals \cup {None}
  BY <1>1, <1>2 DEF BucketsOK, ValAt
<1>4. None \in Vals \cup {None} /\ None \in Slots \cup {None} /\ NoSnapshot \in Snapshots
      /\ 1 \in Slots
  BY BucketsAssumption DEF NoSnapshot, Snapshots, Slots
<1>5. ASSUME NEW v \in Vals \cup {None}, Searched(p, v)
      PROVE  /\ pc' \in [Threads -> Labels] /\ i' \in [Threads -> Slots]
             /\ found' \in [Threads -> Vals \cup {None}]
             /\ ret' \in [Threads -> Vals \cup {None}]
  BY <1>2, <1>5 DEF Searched
<1>6. ASSUME NextSlot(p)
      PROVE  /\ pc' \in [Threads -> Labels] /\ i' \in [Threads -> Slots]
             /\ found' \in [Threads -> Vals \cup {None}]
             /\ ret' \in [Threads -> Vals \cup {None}]
  <2>1. CASE i[p] < KEY_BUCKT
    <3>1. i[p] + 1 \in Slots
      BY <1>1, <2>1, BucketsAssumption DEF Slots
    <3> QED
      BY <1>2, <1>6, <2>1, <3>1 DEF NextSlot
  <2>2. CASE ~(i[p] < KEY_BUCKT)
    BY <1>4, <1>5, <1>6, <2>2 DEF NextSlot
  <2> QED
    BY <2>1, <2>2
<1>7. CASE Invoke(p)
  <2>1. PICK c \in Calls :
          /\ call' = [call EXCEPT ![p] = c]
          /\ IF c.op = "put" THEN puts < MaxPuts /\ c.val = puts + 1 ELSE c.val = None
          /\ puts' = IF c.op = "put" THEN puts + 1 ELSE puts
          /\ pc' = [pc EXCEPT ![p] = IF c.op = "get" THEN "val" ELSE "snapshot"]
    BY <1>7 DEF Invoke
  <2>2. puts' \in 0..MaxPuts
    BY <1>2, <2>1, BoundsAssumption
  <2> QED
    BY <1>2, <1>4, <1>7, <2>1, <2>2 DEF Invoke
<1>8. CASE Return(p)
  BY <1>2, <1>4, <1>8 DEF Return
<1>9. CASE clht_bucket_search(p)
  <2>1. CASE SearchVal(p)
    BY <1>2, <1>3, <2>1 DEF SearchVal
  <2>2. CASE SearchState(p)
    BY <1>2, <1>6, <2>2 DEF SearchState
  <2>3. CASE SearchKey(p)
    BY <1>2, <1>6, <2>3 DEF SearchKey
  <2>4. CASE SearchAgain(p)
    BY <1>1, <1>2, <1>4, <1>5, <2>4 DEF SearchAgain
  <2> QED
    BY <1>9, <2>1, <2>2, <2>3, <2>4 DEF clht_bucket_search
<1>10. CASE Snapshot(p)
  BY <1>2, <1>3, <1>4, <1>10 DEF Snapshot
<1>11. CASE Reserve(p)
  <2>1. s' = [s EXCEPT ![p] = snapshot'[Bin(p)]]
    BY <1>1, <1>2, <1>11 DEF Reserve, Swaps, BucketsOK
  <2>2. snapshot'[Bin(p)] \in Snapshots
    BY <1>1, <1>11, BucketsStep DEF BucketsOK, Work, clht_put
  <2>3. PICK j \in Slots : empty_index' = [empty_index EXCEPT ![p] = j]
    BY <1>11 DEF Reserve
  <2> QED
    BY <1>2, <1>11, <2>1, <2>2, <2>3 DEF Reserve
<1>12. CASE PutFull(p) \/ ReserveFails(p) \/ PutVal(p) \/ PutKey(p) \/ PublishFails(p)
  BY <1>2, <1>12 DEF PutFull, ReserveFails, PutVal, PutKey, PublishFails, SwapFails
<1>13. CASE Publish(p) \/ GiveBack(p)
  BY <1>1, <1>2, <1>4, <1>13 DEF Publish, GiveBack
<1>14. CASE RemoveKey(p)
  <2>1. i[p] < KEY_BUCKT => i[p] + 1 \in Slots
    BY <1>1, BucketsAssumption DEF Slots
  <2> QED
    BY <1>2, <1>14, <2>1 DEF RemoveKey
<1>15. CASE RemoveVal(p) \/ Remove(p) \/ RemoveFails(p)
  BY <1>1, <1>2, <1>3, <1>15 DEF RemoveVal, Remove, RemoveFails, SwapFails
<1> QED
  BY <1>7, <1>8, <1>9, <1>10, <1>11, <1>12, <1>13, <1>14, <1>15
  DEF Work, clht_put, clht_remove

(* Every step keeps the types.                                              *)
LEMMA TypeStep == IndInv /\ Next => TypeOK'
<1> SUFFICES ASSUME IndInv, Next PROVE TypeOK'
  OBVIOUS
<1>1. PICK p \in Threads : Invoke(p) \/ Work(p)
  BY DEF Next
<1>2. BucketsOK' /\ LocalsOK' /\ puts' \in 0..MaxPuts
  BY <1>1, BucketsStep, LocalsStep DEF IndInv
<1>3. AbsMap' \in [Keys -> Vals \cup {None}]
  <2>1. (val \in [Bins -> [Slots -> Vals \cup {None}]]
          => AbsMap \in [Keys -> Vals \cup {None}])'
    BY AbsMapType, PTL
  <2> QED
    BY <1>2, <2>1 DEF BucketsOK
<1>4. seen' \in [Threads -> SUBSET (Vals \cup {None})]
  <2>1. seen' = [q \in Threads |->
                   IF call'[q] = Idle THEN {}
                   ELSE IF call[q] = Idle THEN {AbsMap'[call'[q].key]}
                   ELSE seen[q] \cup {AbsMap'[call[q].key]}]
    BY DEF Next, Watch
  <2>2. ASSUME NEW q \in Threads, call'[q] # Idle
        PROVE  call'[q].key \in Keys
    BY <1>2, <2>2 DEF LocalsOK, Calls
  <2>3. ASSUME NEW q \in Threads, call[q] # Idle
        PROVE  call[q].key \in Keys
    BY <2>3 DEF IndInv, TypeOK, Calls
  <2>4. seen \in [Threads -> SUBSET (Vals \cup {None})]
    BY DEF IndInv, TypeOK
  <2> QED
    BY <1>3, <2>1, <2>2, <2>3, <2>4
<1> QED
  BY <1>2, <1>4 DEF TypeOK, BucketsOK, LocalsOK
-----------------------------------------------------------------------------
(* What Phases says of one thread.                                          *)
PhaseOf(p) ==
  /\ pc[p] = "idle" <=> call[p] = Idle
  /\ pc[p] = "snapshot" => call[p].op # "get"
  /\ pc[p] \in Searching => call[p].op # "remove"
  /\ pc[p] \in Removing => call[p].op = "remove"
  /\ pc[p] \in {"reserve"} \cup Holding => call[p].op = "put"
  /\ call[p].op = "put" => call[p].val \in Vals
  /\ pc[p] \in Holding => empty_index[p] # None
  /\ empty_index[p] # None =>
       call[p].op = "put" /\ pc[p] \in {"snapshot"} \cup Searching \cup Holding
  /\ pc[p] \in {"rval", "rcas"} => s[p].map[i[p]] = MAP_VALID

(* The thread that moves is where its call and its locals allow.            *)
LEMMA PhaseOwn ==
  ASSUME TypeOK, Phases, NEW p \in Threads, Invoke(p) \/ Work(p)
  PROVE  PhaseOf(p)'
<1> USE DEF PhaseOf, Searching, Removing, Holding, Goto
<1>1. PhaseOf(p)
  BY DEF Phases
<1>2. /\ pc \in [Threads -> Labels] /\ call \in [Threads -> Calls \cup {Idle}]
      /\ s \in [Threads -> Snapshots] /\ i \in [Threads -> Slots]
      /\ empty_index \in [Threads -> Slots \cup {None}]
  BY DEF TypeOK
<1>3. call[p] # Idle => call[p].op \in {"put", "get", "remove"}
  BY <1>2 DEF Calls
<1>4. CASE Invoke(p)
  <2>1. PICK c \in Calls :
          /\ call' = [call EXCEPT ![p] = c]
          /\ IF c.op = "put" THEN puts < MaxPuts /\ c.val = puts + 1 ELSE c.val = None
          /\ pc' = [pc EXCEPT ![p] = IF c.op = "get" THEN "val" ELSE "snapshot"]
    BY <1>4 DEF Invoke
  <2>2. c.op \in {"put", "get", "remove"} /\ c # Idle
    BY DEF Calls, Idle
  <2>3. c.op = "put" => c.val \in Vals
    BY <2>1, BoundsAssumption DEF TypeOK, Vals
  <2>4. empty_index'[p] = None
    BY <1>1, <1>4 DEF Invoke
  <2> QED
    BY <1>2, <2>1, <2>2, <2>3, <2>4
<1>5. CASE Return(p)
  BY <1>2, <1>5 DEF Return, Idle
<1>6. ASSUME NEW v, Searched(p, v), pc[p] \in Searching,
              call' = call, empty_index' = empty_index
      PROVE  PhaseOf(p)'
  <2>1. call[p].op \in {"put", "get"} /\ call[p] # Idle
    BY <1>1, <1>3, <1>6
  <2> QED
    BY <1>1, <1>2, <1>6, <2>1 DEF Searched
<1>7. ASSUME NextSlot(p), pc[p] \in Searching, call' = call, empty_index' = empty_index
      PROVE  PhaseOf(p)'
  BY <1>1, <1>2, <1>6, <1>7 DEF NextSlot
<1>8. CASE clht_bucket_search(p)
  <2>1. CASE SearchVal(p)
    BY <1>1, <1>2, <2>1 DEF SearchVal
  <2>2. CASE SearchState(p)
    BY <1>1, <1>2, <1>7, <2>2 DEF SearchState
  <2>3. CASE SearchKey(p)
    BY <1>1, <1>2, <1>7, <2>3 DEF SearchKey
  <2>4. CASE SearchAgain(p)
    BY <1>6, <2>4 DEF SearchAgain
  <2> QED
    BY <1>8, <2>1, <2>2, <2>3, <2>4 DEF clht_bucket_search
<1>9. CASE Snapshot(p)
  BY <1>1, <1>2, <1>3, <1>9 DEF Snapshot
<1>10. CASE clht_put(p)
  <2>1. CASE PutFull(p) \/ ReserveFails(p) \/ PublishFails(p)
    BY <1>1, <1>2, <2>1 DEF PutFull, ReserveFails, PublishFails, SwapFails
  <2>2. CASE Reserve(p)
    <3>1. empty_index'[p] # None
      BY <2>2, ReserveEffect DEF Slots, None
    <3> QED
      BY <1>1, <1>2, <2>2, <3>1 DEF Reserve
  <2>3. CASE PutVal(p) \/ PutKey(p)
    BY <1>1, <1>2, <2>3 DEF PutVal, PutKey
  <2>4. CASE Publish(p) \/ GiveBack(p)
    BY <1>1, <1>2, <2>4 DEF Publish, GiveBack
  <2> QED
    BY <1>10, <2>1, <2>2, <2>3, <2>4 DEF clht_put
<1>11. CASE clht_remove(p)
  BY <1>1, <1>2, <1>11 DEF clht_remove, RemoveKey, RemoveVal, Remove, RemoveFails, SwapFails
<1> QED
  BY <1>4, <1>5, <1>8, <1>9, <1>10, <1>11 DEF Work

(* Every thread is where its call and its locals allow.                     *)
LEMMA PhasesStep ==
  ASSUME TypeOK, Phases, NEW p \in Threads, Invoke(p) \/ Work(p)
  PROVE  Phases'
<1>1. ASSUME NEW q \in Threads, q # p PROVE PhaseOf(q)'
  <2>1. PhaseOf(q)
    BY DEF Phases, PhaseOf
  <2> QED
    BY <1>1, <2>1, OthersStand DEF Stands, PhaseOf
<1> QED
  BY <1>1, PhaseOwn DEF Phases, PhaseOf
-----------------------------------------------------------------------------
(* Reservations. *)

(* A thread takes a slot by Reserve, and parts with it by Publish and       *)
(* GiveBack only; while it has one its call stays the same.                 *)
LEMMA SlotsStand ==
  ASSUME TypeOK, Phases, NEW p \in Threads, Invoke(p) \/ Work(p),
         ~Reserve(p), ~Publish(p), ~GiveBack(p)
  PROVE  /\ empty_index' = empty_index
         /\ \A q \in Threads : empty_index[q] # None => call'[q] = call[q] /\ Bin(q)' = Bin(q)
<1>1. empty_index' = empty_index
  <2>1. CASE Return(p)
    <3>1. empty_index[p] = None
      BY <2>1 DEF Return, Phases, Searching, Holding
    <3> QED
      BY <2>1, <3>1 DEF Return, TypeOK
  <2>2. CASE ~Return(p)
    BY <2>2 DEF Invoke, Work, clht_bucket_search, Snapshot, clht_put, clht_remove, SearchVal,
       SearchState, SearchKey, SearchAgain, PutFull, ReserveFails, PutVal,
       PutKey, PublishFails, RemoveKey, RemoveVal, Remove, RemoveFails
  <2> QED
    BY <2>1, <2>2
<1>2. ASSUME NEW q \in Threads, empty_index[q] # None
      PROVE  call'[q] = call[q] /\ Bin(q)' = Bin(q)
  <2>1. CASE q # p
    BY <2>1, OthersStand DEF Stands
  <2>2. CASE q = p
    <3>1. ~Invoke(p) /\ ~Return(p)
      BY <1>2, <2>2 DEF Invoke, Return, Phases, Searching, Holding
    <3> QED
      BY <2>2, <3>1, CallStands
  <2> QED
    BY <2>1, <2>2
<1> QED
  BY <1>1, <1>2

(* Every step leaves every reservation with one owner.                      *)
LEMMA ReservationsStep ==
  ASSUME TypeOK, Phases, ReservationsOwned, NEW p \in Threads, Invoke(p) \/ Work(p)
  PROVE  ReservationsOwned'
<1> USE DEF MAP_INVLD, MAP_VALID, MAP_INSRT
<1>0. \A q \in Threads : /\ Bin(q) \in Bins /\ empty_index[q] \in Slots \cup {None}
                          /\ i[q] \in Slots
  BY BinType DEF TypeOK
<1>1. CASE Reserve(p)
  <2> DEFINE j == empty_index'[p]
  <2>1. /\ Marks(Bin(p), j, MAP_INSRT) /\ j \in Slots /\ j # None
        /\ empty_index' = [empty_index EXCEPT ![p] = j]
        /\ snapshot[Bin(p)].map[j] = MAP_INVLD
    BY <1>1, ReserveEffect DEF Slots, None
  <2>2. \A q \in Threads : Bin(q)' = Bin(q)
    BY <1>1, ReserveEffect DEF Bin, clht_hash
  <2>3. \A q \in Threads : empty_index'[q] = IF q = p THEN j ELSE empty_index[q]
    BY <2>1 DEF TypeOK
  <2>4. empty_index[p] = None
    BY <1>1 DEF Reserve, Phases, Searching, Holding
  <2>5. ASSUME NEW q \in Threads, q # p, Bin(q) = Bin(p) PROVE empty_index[q] # j
    BY <1>0, <2>1, <2>5 DEF ReservationsOwned
  <2> HIDE DEF j
  <2>6. ASSUME NEW q \in Threads, empty_index'[q] # None
        PROVE  snapshot'[Bin(q)].map[empty_index'[q]] = MAP_INSRT
    BY <1>0, <2>1, <2>3, <2>6 DEF ReservationsOwned, Marks
  <2>7. ASSUME NEW q \in Threads, NEW r \in Threads, empty_index'[q] # None,
               empty_index'[q] = empty_index'[r], Bin(q) = Bin(r)
        PROVE  q = r
    BY <2>3, <2>5, <2>7 DEF ReservationsOwned
  <2>8. ASSUME NEW b \in Bins, NEW l \in Slots, snapshot'[b].map[l] = MAP_INSRT
        PROVE  \E q \in Threads : empty_index'[q] = l /\ Bin(q) = b
    <3>1. CASE b = Bin(p) /\ l = j
      BY <2>3, <3>1
    <3>2. CASE ~(b = Bin(p) /\ l = j)
      <4>1. snapshot[b].map[l] = MAP_INSRT
        BY <2>1, <2>8, <3>2 DEF Marks
      <4>2. PICK q \in Threads : empty_index[q] = l /\ Bin(q) = b
        BY <4>1 DEF ReservationsOwned
      <4>3. q # p
        BY <2>4, <4>2 DEF Slots, None
      <4> QED
        BY <2>3, <4>2, <4>3
    <3> QED
      BY <3>1, <3>2
  <2> QED
    BY <2>2, <2>6, <2>7, <2>8 DEF ReservationsOwned
<1>2. CASE Publish(p)
  <2>1. empty_index[p] # None
    BY <1>2 DEF Publish, Phases, Holding
  <2>2. Publishes(Bin(p), empty_index[p])
    BY <1>2, <2>1, PublishEffect
  <2>3. \A q \in Threads : Bin(q)' = Bin(q)
    BY <1>2, <2>1, PublishEffect DEF Bin, clht_hash
  <2>4. \A q \in Threads : empty_index'[q] = IF q = p THEN None ELSE empty_index[q]
    BY <1>2 DEF Publish, TypeOK
  <2> QED
    BY <1>0, <2>1, <2>2, <2>3, <2>4 DEF ReservationsOwned, Publishes
<1>3. CASE GiveBack(p)
  <2>1. empty_index[p] # None
    BY <1>3 DEF GiveBack, Phases, Holding
  <2>2. Marks(Bin(p), empty_index[p], MAP_INVLD)
    BY <1>3, <2>1, GiveBackEffect
  <2>3. \A q \in Threads : Bin(q)' = Bin(q)
    BY <1>3, <2>1, GiveBackEffect DEF Bin, clht_hash
  <2>4. \A q \in Threads : empty_index'[q] = IF q = p THEN None ELSE empty_index[q]
    BY <1>3 DEF GiveBack, TypeOK
  <2> QED
    BY <1>0, <2>1, <2>2, <2>3, <2>4 DEF ReservationsOwned, Marks
<1>4. CASE ~Reserve(p) /\ ~Publish(p) /\ ~GiveBack(p)
  <2>1. /\ empty_index' = empty_index
        /\ \A q \in Threads : empty_index[q] # None => Bin(q)' = Bin(q)
    BY <1>4, SlotsStand
  <2>2. \A b \in Bins, j \in Slots :
          snapshot'[b].map[j] = MAP_INSRT <=> snapshot[b].map[j] = MAP_INSRT
    <3>1. CASE Remove(p)
      BY <1>0, <3>1, RemoveEffect DEF Marks
    <3>2. CASE ~Remove(p)
      <4>1. snapshot' = snapshot
        BY <1>4, <3>2, Quiet, FillEffect DEF Writes
      <4> QED
        BY <4>1
    <3> QED
      BY <3>1, <3>2
  <2>3. \A b \in Bins, j \in Slots : j # None
    BY DEF Slots, None
  <2> QED
    BY <1>0, <2>1, <2>2, <2>3 DEF ReservationsOwned
<1> QED
  BY <1>1, <1>2, <1>3, <1>4
-----------------------------------------------------------------------------
(* Contents of the slots. *)

(* Only a reserved slot is written to, by its owner.                        *)
LEMMA ContentsStand ==
  ASSUME TypeOK, Phases, ReservationsOwned, NEW p \in Threads, Invoke(p) \/ Work(p),
         NEW c \in Bins, NEW l \in Slots,
         ~(pc[p] \in {"putval", "putkey"} /\ empty_index[p] = l /\ Bin(p) = c)
  PROVE  key'[c][l] = key[c][l] /\ val'[c][l] = val[c][l]
<1>1. CASE PutVal(p) \/ PutKey(p)
  <2>1. pc[p] \in {"putval", "putkey"}
    BY <1>1 DEF PutVal, PutKey
  <2> QED
    BY <1>1, <2>1, FillEffect
<1>2. CASE Reserve(p) \/ Publish(p) \/ GiveBack(p) \/ Remove(p)
  BY <1>2 DEF Reserve, Publish, GiveBack, Remove
<1> QED
  BY <1>1, <1>2, Quiet DEF Writes

(* A slot that is valid now is not the one a put is writing to.             *)
LEMMA ValidStands ==
  ASSUME TypeOK, Phases, ReservationsOwned, NEW p \in Threads, Invoke(p) \/ Work(p),
         NEW c \in Bins, NEW l \in Slots, snapshot[c].map[l] = MAP_VALID
  PROVE  key'[c][l] = key[c][l] /\ val'[c][l] = val[c][l]
<1>1. ~(pc[p] \in {"putval", "putkey"} /\ empty_index[p] = l /\ Bin(p) = c)
  BY DEF ReservationsOwned, Phases, Holding, MAP_VALID, MAP_INSRT
<1> QED
  BY <1>1, ContentsStand

(* A slot becomes valid when its owner publishes it, and then only.         *)
LEMMA ValidComes ==
  ASSUME TypeOK, Phases, NEW p \in Threads, Invoke(p) \/ Work(p),
         NEW c \in Bins, NEW l \in Slots, snapshot'[c].map[l] = MAP_VALID
  PROVE  \/ snapshot[c].map[l] = MAP_VALID
         \/ Publish(p) /\ c = Bin(p) /\ l = empty_index[p] /\ empty_index[p] # None
<1> USE DEF MAP_INVLD, MAP_VALID, MAP_INSRT
<1>1. CASE Reserve(p)
  BY <1>1, ReserveEffect DEF Marks
<1>2. CASE Publish(p)
  <2>1. empty_index[p] # None
    BY <1>2 DEF Publish, Phases, Holding
  <2>2. Publishes(Bin(p), empty_index[p])
    BY <1>2, <2>1, PublishEffect
  <2> QED
    BY <1>2, <2>1, <2>2 DEF Publishes
<1>3. CASE GiveBack(p)
  <2>1. empty_index[p] # None
    BY <1>3 DEF GiveBack, Phases, Holding
  <2>2. Marks(Bin(p), empty_index[p], MAP_INVLD)
    BY <1>3, <2>1, GiveBackEffect
  <2> QED
    BY <2>2 DEF Marks
<1>4. CASE Remove(p)
  BY <1>4, RemoveEffect DEF Marks
<1>5. CASE PutVal(p) \/ PutKey(p)
  BY <1>5, FillEffect
<1> QED
  BY <1>1, <1>2, <1>3, <1>4, <1>5, Quiet DEF Writes

(* Slots hold what their puts wrote into them.                              *)
LEMMA FilledStep ==
  ASSUME TypeOK, Phases, ReservationsOwned, Filled,
         NEW p \in Threads, Invoke(p) \/ Work(p)
  PROVE  Filled'
<1>0. \A q \in Threads : Bin(q) \in Bins /\ empty_index[q] \in Slots \cup {None}
  BY BinType DEF TypeOK
<1>1. ASSUME NEW q \in Threads, q # p, empty_index'[q] # None
      PROVE  /\ pc'[q] # "putval" => val'[Bin(q)'][empty_index'[q]] = call'[q].val
             /\ pc'[q] \notin {"putval", "putkey"} =>
                  key'[Bin(q)'][empty_index'[q]] = call'[q].key
  <2>1. Stands(q)
    BY <1>1, OthersStand
  <2>2. ~(empty_index[p] = empty_index[q] /\ Bin(p) = Bin(q))
    BY <1>1, <2>1 DEF ReservationsOwned, Stands
  <2>3. /\ key'[Bin(q)][empty_index[q]] = key[Bin(q)][empty_index[q]]
        /\ val'[Bin(q)][empty_index[q]] = val[Bin(q)][empty_index[q]]
    BY <1>0, <1>1, <2>1, <2>2, ContentsStand DEF Stands
  <2> QED
    BY <1>1, <2>1, <2>3 DEF Stands, Filled
<1>2. ASSUME empty_index'[p] # None
      PROVE  /\ pc'[p] # "putval" => val'[Bin(p)'][empty_index'[p]] = call'[p].val
             /\ pc'[p] \notin {"putval", "putkey"} =>
                  key'[Bin(p)'][empty_index'[p]] = call'[p].key
  <2>1. CASE Reserve(p)
    BY <2>1, ReserveEffect
  <2>2. CASE PutVal(p) \/ PutKey(p)
    <3>1. /\ call' = call /\ empty_index' = empty_index /\ empty_index[p] \in Slots
          /\ Bin(p)' = Bin(p)
      BY <2>2, FillEffect DEF Bin, clht_hash
    <3>2. CASE PutVal(p)
      <4>1. pc'[p] = "putkey" /\ val'[Bin(p)][empty_index[p]] = call[p].val
        BY <1>0, <3>1, <3>2, FillEffect DEF PutVal, Goto, TypeOK
      <4> QED
        BY <3>1, <4>1
    <3>3. CASE PutKey(p)
      <4>1. /\ pc[p] = "putkey" /\ empty_index[p] # None /\ ~PutVal(p)
        BY <3>3, FillEffect DEF PutKey, PutVal
      <4>2. val[Bin(p)][empty_index[p]] = call[p].val
        BY <4>1 DEF Filled
      <4>3. /\ key'[Bin(p)][empty_index[p]] = call[p].key
            /\ val'[Bin(p)][empty_index[p]] = call[p].val
        BY <1>0, <3>1, <3>3, <4>1, <4>2, FillEffect
      <4> QED
        BY <3>1, <4>3
    <3> QED
      BY <2>2, <3>2, <3>3
  <2>3. CASE Publish(p) \/ GiveBack(p)
    BY <1>2, <2>3 DEF Publish, GiveBack, TypeOK
  <2>4. CASE ~(Reserve(p) \/ PutVal(p) \/ PutKey(p) \/ Publish(p) \/ GiveBack(p))
    <3>1. /\ empty_index' = empty_index /\ empty_index[p] # None
          /\ call'[p] = call[p] /\ Bin(p)' = Bin(p)
      BY <1>2, <2>4, SlotsStand
    <3>2. pc[p] \notin {"putval", "putkey"}
      <4>1. ~Invoke(p) /\ ~Return(p) /\ ~Remove(p)
        BY <3>1 DEF Invoke, Return, Phases, Searching, Holding, Remove
      <4> QED
        BY <2>4, <4>1 DEF Work, clht_bucket_search, Snapshot, clht_put, clht_remove,
           SearchVal, SearchState, SearchKey, SearchAgain, PutFull, ReserveFails,
           PublishFails, RemoveKey, RemoveVal, RemoveFails
    <3>3. /\ key[Bin(p)][empty_index[p]] = call[p].key
          /\ val[Bin(p)][empty_index[p]] = call[p].val
      BY <3>1, <3>2 DEF Filled
    <3>4. /\ key'[Bin(p)][empty_index[p]] = key[Bin(p)][empty_index[p]]
          /\ val'[Bin(p)][empty_index[p]] = val[Bin(p)][empty_index[p]]
      BY <1>0, <3>1, <3>2, ContentsStand
    <3> QED
      BY <3>1, <3>3, <3>4
  <2> QED
    BY <2>1, <2>2, <2>3, <2>4
<1>3. ASSUME NEW b \in Bins, NEW j \in Slots, snapshot'[b].map[j] = MAP_VALID
      PROVE  val'[b][j] # None
  <2>1. CASE snapshot[b].map[j] = MAP_VALID
    BY <2>1, ValidStands DEF Filled
  <2>2. CASE snapshot[b].map[j] # MAP_VALID
    <3>1. Publish(p) /\ b = Bin(p) /\ j = empty_index[p] /\ empty_index[p] # None
      BY <1>3, <2>2, ValidComes
    <3>2. val[b][j] = call[p].val /\ call[p].val \in Vals
      BY <3>1 DEF Filled, Phases, Publish, Holding
    <3>3. val' = val
      BY <3>1 DEF Publish
    <3> QED
      BY <3>2, <3>3 DEF Vals, None
  <2> QED
    BY <2>1, <2>2
<1> QED
  BY <1>1, <1>2, <1>3 DEF Filled

(* A put publishes a key that is nowhere else: the CAS succeeds only under  *)
(* the version of its search.                                               *)
LEMMA UniqueStep ==
  ASSUME TypeOK, Phases, ReservationsOwned, Filled, UniqueKeys, Searches,
         NEW p \in Threads, Invoke(p) \/ Work(p)
  PROVE  UniqueKeys'
<1>1. CASE ~Publish(p)
  <2>1. ASSUME NEW b \in Bins, NEW j \in Slots, snapshot'[b].map[j] = MAP_VALID
        PROVE  snapshot[b].map[j] = MAP_VALID /\ key'[b][j] = key[b][j]
    BY <1>1, <2>1, ValidComes, ValidStands
  <2> QED
    BY <2>1 DEF UniqueKeys
<1>2. CASE Publish(p)
  <2> DEFINE e == empty_index[p]
  <2>1. /\ e # None /\ e \in Slots /\ Bin(p) \in Bins /\ key' = key
        /\ call[p].op = "put" /\ pc[p] = "publish"
    BY <1>2, BinType DEF Publish, Phases, Holding, TypeOK
  <2>2. Current(p)
    BY <1>2, <2>1, PublishEffect DEF Current, Working
  <2>3. \A j \in Slots : ~Present(p, j)
    BY <2>1, <2>2 DEF Searches, Knowledge, Searching
  <2>4. key[Bin(p)][e] = call[p].key
    BY <2>1 DEF Filled
  <2>5. ASSUME NEW b \in Bins, NEW j \in Slots, snapshot'[b].map[j] = MAP_VALID,
               ~(b = Bin(p) /\ j = e)
        PROVE  snapshot[b].map[j] = MAP_VALID /\ (b = Bin(p) => key[b][j] # key[b][e])
    <3>1. snapshot[b].map[j] = MAP_VALID
      BY <2>5, ValidComes
    <3> QED
      BY <2>3, <2>4, <3>1 DEF Present, Valid
  <2> QED
    BY <2>1, <2>5 DEF UniqueKeys
<1> QED
  BY <1>1, <1>2
-----------------------------------------------------------------------------
(* What a put knows from its search. *)

(* Versions only grow, and a publication never leaves one unchanged.        *)
LEMMA VersionGrows ==
  ASSUME TypeOK, Phases, NEW p \in Threads, Invoke(p) \/ Work(p), NEW c \in Bins
  PROVE  /\ snapshot[c].version \in Nat /\ snapshot'[c].version \in Nat
         /\ snapshot[c].version <= snapshot'[c].version
         /\ snapshot'[c].version = snapshot[c].version => ~(Publish(p) /\ c = Bin(p))
<1>1. snapshot[c].version \in Nat
  BY DEF TypeOK, Snapshots
<1>2. CASE Publish(p)
  <2>1. empty_index[p] # None
    BY <1>2 DEF Publish, Phases, Holding
  <2>2. Publishes(Bin(p), empty_index[p])
    BY <1>2, <2>1, PublishEffect
  <2> QED
    BY <1>1, <2>2 DEF Publishes
<1>3. CASE ~Publish(p)
  <2>1. snapshot'[c].version = snapshot[c].version
    <3>1. CASE Reserve(p)
      BY <3>1, ReserveEffect DEF Marks
    <3>2. CASE GiveBack(p)
      <4>1. empty_index[p] # None
        BY <3>2 DEF GiveBack, Phases, Holding
      <4> QED
        BY <3>2, <4>1, GiveBackEffect DEF Marks
    <3>3. CASE Remove(p)
      BY <3>3, RemoveEffect DEF Marks
    <3>4. CASE PutVal(p) \/ PutKey(p)
      BY <3>4, FillEffect
    <3> QED
      BY <1>3, <3>1, <3>2, <3>3, <3>4, Quiet DEF Writes
  <2> QED
    BY <1>1, <1>3, <2>1
<1> QED
  BY <1>2, <1>3

(* The snapshot of a put is not newer than its bucket.                      *)
Bounded(q) == call[q].op = "put" /\ pc[q] \in Working =>
                s[q].version <= snapshot[Bin(q)].version

(* The two parts of Knowledge that speak of slots that were valid in the    *)
(* snapshot and are not any more.                                           *)
NotByStealth(q) ==
  \A j \in Slots :
    /\ s[q].map[j] = MAP_VALID /\ ~Valid(q, j)
    /\ key[Bin(q)][j] = call[q].key
    => \A l \in Slots : ~Present(q, l)
OwnersKnow(q) ==
  \A r \in Threads :
    /\ empty_index[r] # None /\ Bin(r) = Bin(q)
    /\ pc[r] \in {"putval", "putkey"}
    /\ s[q].map[empty_index[r]] = MAP_VALID
    => s[r].version = s[q].version

(* What a step leaves of what thread q knows, if q keeps its snapshot and   *)
(* it is current after the step: nothing has become valid, and the key has  *)
(* come to no slot by stealth.                                              *)
LEMMA KnowledgeStands ==
  ASSUME IndInv, NEW p \in Threads, Invoke(p) \/ Work(p),
         NEW q \in Threads, q # p \/ ~Reserve(p),
         s'[q] = s[q], call'[q] = call[q], Bin(q)' = Bin(q),
         pc[q] \in Working, Current(q)'
  PROVE  /\ Current(q)
         /\ \A j \in Slots : Valid(q, j)' => Valid(q, j)
         /\ \A j \in Slots : Present(q, j)' => Present(q, j)
         /\ NotByStealth(q)' /\ OwnersKnow(q)'
<1>0. TypeOK /\ Phases /\ ReservationsOwned /\ UniqueKeys /\ Knowledge(q) /\ Bounded(q)
  BY DEF IndInv, Searches, Bounded
<1>1. /\ Bin(q) \in Bins /\ Bin(p) \in Bins
      /\ \A r \in Threads : empty_index[r] \in Slots \cup {None}
  BY <1>0, BinType DEF TypeOK
<1>2. /\ snapshot'[Bin(q)].version = snapshot[Bin(q)].version
      /\ s[q].version = snapshot[Bin(q)].version
  <2>1. /\ s[q].version \in Nat /\ call[q].op = "put"
        /\ s[q].version = snapshot'[Bin(q)].version
    BY <1>0 DEF Current, TypeOK, Snapshots
  <2>2. s[q].version <= snapshot[Bin(q)].version
    BY <1>0, <2>1 DEF Bounded
  <2> QED
    BY <1>0, <1>1, <2>1, <2>2, VersionGrows
<1>3. Current(q)
  BY <1>2 DEF Current
<1>4. ASSUME NEW j \in Slots, Valid(q, j)'
      PROVE  /\ Valid(q, j)
             /\ key'[Bin(q)][j] = key[Bin(q)][j] /\ val'[Bin(q)][j] = val[Bin(q)][j]
  <2>1. snapshot'[Bin(q)].map[j] = MAP_VALID
    BY <1>4 DEF Valid
  <2>2. snapshot[Bin(q)].map[j] = MAP_VALID
    BY <1>0, <1>1, <1>2, <2>1, ValidComes, VersionGrows
  <2> QED
    BY <1>0, <1>1, <2>2, ValidStands DEF Valid
<1>5. ASSUME NEW j \in Slots, Present(q, j)' PROVE Present(q, j)
  BY <1>4, <1>5 DEF Present
<1>6. ASSUME NEW j \in Slots, s[q].map[j] = MAP_VALID, ~Valid(q, j)',
             key'[Bin(q)][j] = call[q].key, NEW l \in Slots, Present(q, l)'
      PROVE  FALSE
  <2>1. Present(q, l) /\ Valid(q, l)'
    BY <1>5, <1>6 DEF Present
  <2>2. CASE Valid(q, j)
    <3>1. key[Bin(q)][j] = call[q].key
      BY <1>0, <1>1, <1>6, <2>2, ValidStands DEF Valid
    <3>2. j = l
      BY <1>0, <1>1, <2>1, <2>2, <3>1 DEF UniqueKeys, Present, Valid
    <3> QED
      BY <1>6, <2>1, <3>2
  <2>3. CASE ~Valid(q, j) /\ key[Bin(q)][j] = call[q].key
    BY <1>0, <1>3, <1>6, <2>1, <2>3 DEF Knowledge
  <2>4. CASE key[Bin(q)][j] # call[q].key
    <3>1. /\ pc[p] \in {"putval", "putkey"} /\ empty_index[p] = j /\ Bin(p) = Bin(q)
      BY <1>0, <1>1, <1>6, <2>4, ContentsStand
    <3>2. empty_index[p] # None /\ call[p].op = "put"
      BY <1>0, <3>1 DEF Phases, Holding
    <3>3. PutKey(p)
      <4>1. key' # key
        BY <1>6, <2>4
      <4> QED
        BY <1>0, <4>1, Quiet DEF Writes, Reserve, PutVal, Publish, GiveBack, Remove
    <3>4. call[p].key = call[q].key /\ pc[p] = "putkey"
      <4>1. key'[Bin(p)][j] = call[p].key
        BY <1>0, <1>1, <3>1, <3>3, FillEffect
      <4>2. pc[p] = "putkey"
        BY <3>3 DEF PutKey
      <4> QED
        BY <1>6, <3>1, <4>1, <4>2
    <3>5. s[p].version = s[q].version
      BY <1>0, <1>3, <1>6, <3>1, <3>2 DEF Knowledge
    <3>6. Current(p)
      BY <1>2, <3>1, <3>2, <3>5 DEF Current, Working
    <3>7. ~Present(p, l)
      BY <3>4, <3>6 DEF IndInv, Searches, Knowledge, Searching
    <3> QED
      BY <2>1, <3>1, <3>4, <3>7 DEF Present, Valid
  <2> QED
    BY <2>2, <2>3, <2>4
<1>7. ASSUME NEW r \in Threads, empty_index'[r] # None, Bin(r)' = Bin(q)',
             pc'[r] \in {"putval", "putkey"}, s'[q].map[empty_index'[r]] = MAP_VALID
      PROVE  s'[r].version = s'[q].version
  <2>1. CASE r # p
    <3>1. Stands(r)
      BY <1>0, <2>1, OthersStand
    <3> QED
      BY <1>0, <1>3, <1>7, <3>1 DEF Stands, Knowledge
  <2>2. CASE r = p /\ q # p
    <3>1. Reserve(p) \/ PutVal(p)
      BY <1>0, <1>7, <2>2 DEF Goto, TypeOK, Labels, Invoke, Work, Return, clht_bucket_search,
         Snapshot, clht_put, clht_remove, SearchVal, SearchState, SearchKey, SearchAgain,
         Searched, NextSlot, PutFull, ReserveFails, PutKey, Publish, PublishFails,
         GiveBack, RemoveKey, RemoveVal, Remove, RemoveFails, SwapFails
    <3>2. CASE Reserve(p)
      <4>1. s'[p] = snapshot'[Bin(p)] /\ Bin(p)' = Bin(p)
        BY <1>0, <3>2, ReserveEffect DEF Bin, clht_hash
      <4> QED
        BY <1>2, <1>7, <2>2, <4>1
    <3>3. CASE PutVal(p)
      <4>1. /\ empty_index' = empty_index /\ s' = s /\ pc[p] = "putval" /\ Bin(p)' = Bin(p)
        BY <1>0, <3>3, FillEffect DEF PutVal, Bin, clht_hash
      <4> QED
        BY <1>0, <1>3, <1>7, <2>2, <4>1 DEF Knowledge
    <3> QED
      BY <3>1, <3>2, <3>3
  <2>3. CASE r = p /\ q = p
    BY <2>3
  <2> QED
    BY <2>1, <2>2, <2>3
<1>8. NotByStealth(q)'
  BY <1>6 DEF NotByStealth
<1>9. OwnersKnow(q)'
  BY <1>7 DEF OwnersKnow
<1> QED
  BY <1>3, <1>4, <1>5, <1>8, <1>9

(* The knowledge of a thread that does not move.                            *)
LEMMA KnowledgeOthers ==
  ASSUME IndInv, NEW p \in Threads, Invoke(p) \/ Work(p), NEW q \in Threads, q # p
  PROVE  Knowledge(q)' /\ Bounded(q)'
<1>1. TypeOK /\ Phases /\ ReservationsOwned /\ Knowledge(q) /\ Bounded(q) /\ Stands(q)
  BY OthersStand DEF IndInv, Searches, Bounded
<1>2. Bin(q) \in Bins /\ i[q] \in Slots
  BY <1>1, BinType DEF TypeOK
<1>3. Bounded(q)'
  <2>1. /\ snapshot[Bin(q)].version \in Nat /\ snapshot'[Bin(q)].version \in Nat
        /\ snapshot[Bin(q)].version <= snapshot'[Bin(q)].version
        /\ s[q].version \in Nat
    BY <1>1, <1>2, VersionGrows DEF TypeOK, Snapshots
  <2> QED
    BY <1>1, <2>1 DEF Bounded, Stands
<1>4. ASSUME Current(q)' PROVE Knowledge(q)'
  <2>0. s'[q] = s[q] /\ call'[q] = call[q] /\ Bin(q)' = Bin(q)
    BY <1>1 DEF Stands
  <2>1. pc[q] \in Working
    BY <1>1, <1>4 DEF Current, Stands
  <2>2. Current(q)
    BY <1>4, <2>0, <2>1, KnowledgeStands
  <2>3. \A j \in Slots : (Valid(q, j)' => Valid(q, j)) /\ (Present(q, j)' => Present(q, j))
    BY <1>4, <2>0, <2>1, KnowledgeStands
  <2>4. NotByStealth(q)' /\ OwnersKnow(q)'
    BY <1>4, <2>0, <2>1, KnowledgeStands
  <2>5. ASSUME Valid(q, i[q])'
        PROVE  Valid(q, i[q]) /\ val'[Bin(q)][i[q]] = val[Bin(q)][i[q]]
    <3>1. Valid(q, i[q])
      BY <1>1, <1>2, <2>3, <2>5 DEF Stands, Valid
    <3> QED
      BY <1>1, <1>2, <3>1, ValidStands DEF Valid
  <2> QED
    BY <1>1, <1>2, <2>2, <2>3, <2>4, <2>5
    DEF Knowledge, Stands, ValAt, NotByStealth, OwnersKnow
<1> QED
  BY <1>3, <1>4 DEF Knowledge

(* The parts of Knowledge that follow the search of thread p.               *)
SearchKnows(p) ==
  /\ \A j \in Slots : Present(p, j) => pc[p] \in Searching /\ j >= i[p]
  /\ pc[p] = "again" => \A j \in Slots : Present(p, j) => j = i[p]
  /\ pc[p] \in {"state", "key", "again"} /\ Valid(p, i[p]) => ValAt(p) = found[p]
  /\ pc[p] \in {"key", "again"} => s[p].map[i[p]] = MAP_VALID
StillValid(p) == \A j \in Slots : Valid(p, j) => s[p].map[j] = MAP_VALID

(* Knowledge is made of these parts.                                        *)
LEMMA KnowledgeParts ==
  ASSUME NEW p \in Threads
  PROVE  Knowledge(p) <=> (Current(p) => /\ StillValid(p) /\ SearchKnows(p)
                                         /\ NotByStealth(p) /\ OwnersKnow(p))
BY DEF Knowledge, StillValid, SearchKnows, NotByStealth, OwnersKnow

(* One step of the search of a put, under a snapshot that is current.       *)
LEMMA SearchOwn ==
  ASSUME IndInv, NEW p \in Threads, clht_bucket_search(p), call[p].op = "put",
         Current(p), Current(p)'
  PROVE  SearchKnows(p)'
<1> USE DEF Searching, Goto
<1>0. /\ TypeOK /\ Phases /\ Filled /\ UniqueKeys
      /\ StillValid(p) /\ SearchKnows(p) /\ NotByStealth(p)
  BY KnowledgeParts DEF IndInv, Searches
<1>1. /\ Bin(p) \in Bins /\ i[p] \in Slots /\ i[p] \in Nat
      /\ pc \in [Threads -> Labels] /\ i \in [Threads -> Slots]
      /\ found \in [Threads -> Vals \cup {None}]
  BY <1>0, BinType DEF TypeOK, Slots
<1>2. /\ snapshot' = snapshot /\ key' = key /\ val' = val /\ call' = call /\ s' = s
      /\ Bin(p)' = Bin(p)
  BY DEF clht_bucket_search, SearchVal, SearchState, SearchKey, SearchAgain, bucket,
     Bin, clht_hash
<1>3. \A j \in Slots : Present(p, j)' <=> Present(p, j)
  BY <1>2 DEF Present, Valid
<1>4. ASSUME NEW v, Searched(p, v), \A j \in Slots : ~Present(p, j)
      PROVE  SearchKnows(p)'
  <2>1. pc'[p] \notin Searching
    BY <1>1, <1>4 DEF Searched
  <2> QED
    BY <1>3, <1>4, <2>1 DEF SearchKnows
<1>5. ASSUME NextSlot(p), ~Present(p, i[p])
      PROVE  SearchKnows(p)'
  <2>1. \A j \in Slots : Present(p, j) => j >= i[p] /\ j # i[p]
    BY <1>0, <1>5 DEF SearchKnows
  <2>2. CASE i[p] < KEY_BUCKT
    <3>1. pc'[p] = "val" /\ i'[p] = i[p] + 1
      BY <1>1, <1>5, <2>2 DEF NextSlot
    <3>2. \A j \in Slots : Present(p, j) => j >= i[p] + 1
      BY <1>1, <2>1 DEF Slots
    <3> QED
      BY <1>3, <3>1, <3>2 DEF SearchKnows
  <2>3. CASE ~(i[p] < KEY_BUCKT)
    <3>1. \A j \in Slots : ~Present(p, j)
      BY <1>1, <2>1, <2>3, BucketsAssumption DEF Slots
    <3> QED
      BY <1>4, <1>5, <2>3, <3>1 DEF NextSlot
  <2> QED
    BY <2>2, <2>3
<1>6. CASE SearchVal(p)
  <2>1. pc'[p] = "state" /\ i' = i /\ found'[p] = ValAt(p) /\ pc[p] = "val"
    BY <1>1, <1>6 DEF SearchVal
  <2>2. ValAt(p)' = ValAt(p)
    BY <1>2, <2>1 DEF ValAt
  <2> QED
    BY <1>0, <1>3, <2>1, <2>2 DEF SearchKnows
<1>7. CASE SearchState(p)
  <2>1. CASE Valid(p, i[p])
    <3>1. pc'[p] = "key" /\ i' = i /\ found' = found /\ pc[p] = "state"
      BY <1>1, <1>7, <2>1 DEF SearchState, StateAt, Valid
    <3>2. ValAt(p)' = ValAt(p) /\ s[p].map[i[p]] = MAP_VALID
      BY <1>0, <1>1, <1>2, <2>1, <3>1 DEF ValAt, StillValid
    <3> QED
      BY <1>0, <1>2, <1>3, <2>1, <3>1, <3>2 DEF SearchKnows
  <2>2. CASE ~Valid(p, i[p])
    BY <1>5, <1>7, <2>2 DEF SearchState, StateAt, Valid, Present
  <2> QED
    BY <2>1, <2>2
<1>8. CASE SearchKey(p)
  <2>1. CASE KeyAt(p) = call[p].key
    <3>1. pc'[p] = "again" /\ i' = i /\ found' = found /\ pc[p] = "key"
      BY <1>1, <1>8, <2>1 DEF SearchKey
    <3>2. ValAt(p)' = ValAt(p) /\ (Valid(p, i[p]) <=> Valid(p, i[p])')
      BY <1>2, <3>1 DEF ValAt, Valid
    <3>3. ASSUME NEW j \in Slots, Present(p, j) PROVE j = i[p]
      <4>1. CASE Valid(p, i[p])
        BY <1>0, <1>1, <2>1, <3>3, <4>1 DEF UniqueKeys, Present, Valid, KeyAt
      <4>2. CASE ~Valid(p, i[p])
        BY <1>0, <1>1, <2>1, <3>1, <3>3, <4>2 DEF NotByStealth, SearchKnows, KeyAt
      <4> QED
        BY <4>1, <4>2
    <3> QED
      BY <1>0, <1>2, <1>3, <3>1, <3>2, <3>3 DEF SearchKnows
  <2>2. CASE KeyAt(p) # call[p].key
    BY <1>5, <1>8, <2>2 DEF SearchKey, KeyAt, Present
  <2> QED
    BY <2>1, <2>2
<1>9. CASE SearchAgain(p)
  <2>1. pc[p] = "again"
    BY <1>9 DEF SearchAgain
  <2>2. CASE Valid(p, i[p])
    <3>1. ValAt(p) = found[p] /\ found[p] # None
      BY <1>0, <1>1, <2>1, <2>2 DEF SearchKnows, Filled, ValAt, Valid
    <3>2. Searched(p, found[p])
      BY <1>9, <3>1 DEF SearchAgain
    <3>3. pc'[p] \in {"done", "giveback"}
      BY <1>1, <3>1, <3>2 DEF Searched
    <3> QED
      BY <3>3 DEF Current, Working
  <2>3. CASE ~Valid(p, i[p])
    <3>1. \A j \in Slots : ~Present(p, j)
      BY <1>0, <2>1, <2>3 DEF SearchKnows, Present
    <3> QED
      BY <1>4, <1>9, <3>1 DEF SearchAgain
  <2> QED
    BY <2>2, <2>3
<1> QED
  BY <1>6, <1>7, <1>8, <1>9 DEF clht_bucket_search

(* The knowledge of the thread that moves.                                  *)
LEMMA KnowledgeOwn ==
  ASSUME IndInv, NEW p \in Threads, Invoke(p) \/ Work(p)
  PROVE  Knowledge(p)' /\ Bounded(p)'
<1> USE DEF Goto
<1>0. /\ TypeOK /\ Phases /\ ReservationsOwned /\ Knowledge(p) /\ Bounded(p)
  BY DEF IndInv, Searches, Bounded
<1>1. /\ Bin(p) \in Bins /\ i[p] \in Slots
      /\ pc \in [Threads -> Labels] /\ i \in [Threads -> Slots]
      /\ s \in [Threads -> Snapshots]
      /\ \A q \in Threads : empty_index[q] \in Slots \cup {None} /\ Bin(q) \in Bins
  BY <1>0, BinType DEF TypeOK
<1>2. /\ snapshot[Bin(p)].version \in Nat /\ snapshot'[Bin(p)].version \in Nat
      /\ snapshot[Bin(p)].version <= snapshot'[Bin(p)].version
  BY <1>0, <1>1, VersionGrows
<1>3. ASSUME pc'[p] \notin Working PROVE Knowledge(p)' /\ Bounded(p)'
  BY <1>3 DEF Knowledge, Current, Bounded
<1>4. CASE Snapshot(p)
  <2>1. /\ s'[p] = snapshot[Bin(p)] /\ snapshot' = snapshot /\ call' = call
        /\ i'[p] = 1 /\ pc'[p] \in {"val", "rkey"} /\ Bin(p)' = Bin(p)
        /\ key' = key /\ empty_index' = empty_index
    BY <1>1, <1>4 DEF Snapshot, bucket, Bin, clht_hash
  <2>2. Bounded(p)'
    BY <1>2, <2>1 DEF Bounded
  <2>3. StillValid(p)' /\ NotByStealth(p)'
    BY <2>1 DEF StillValid, NotByStealth, Valid
  <2>4. pc'[p] = "val" => SearchKnows(p)'
    BY <2>1 DEF SearchKnows, Searching, Slots
  <2>5. OwnersKnow(p)'
    <3>1. ASSUME NEW r \in Threads, empty_index'[r] # None, Bin(r)' = Bin(p)'
          PROVE  s'[p].map[empty_index'[r]] # MAP_VALID
      <4>1. Bin(r)' = Bin(r)
        BY <2>1 DEF Bin, clht_hash
      <4>2. snapshot[Bin(r)].map[empty_index[r]] = MAP_INSRT
        BY <1>0, <2>1, <3>1 DEF ReservationsOwned
      <4> QED
        BY <2>1, <3>1, <4>1, <4>2 DEF MAP_INSRT, MAP_VALID
    <3> QED
      BY <3>1 DEF OwnersKnow
  <2>6. Current(p)' => pc'[p] = "val"
    BY <2>1 DEF Current, Working, Searching
  <2>7. Knowledge(p)'
    <3>1. (Knowledge(p) <=> (Current(p) => /\ StillValid(p) /\ SearchKnows(p)
                                           /\ NotByStealth(p) /\ OwnersKnow(p)))'
      BY KnowledgeParts, PTL
    <3> QED
      BY <2>3, <2>4, <2>5, <2>6, <3>1
  <2> QED
    BY <2>2, <2>7
<1>5. CASE Reserve(p)
  <2>1. /\ s'[p] = snapshot'[Bin(p)] /\ call' = call /\ pc'[p] = "putval"
        /\ Bin(p)' = Bin(p) /\ key' = key /\ snapshot[Bin(p)] = s[p]
    BY <1>5, ReserveEffect, <1>0 DEF Bin, clht_hash
  <2>2. Bounded(p)'
    BY <1>2, <2>1 DEF Bounded
  <2>3. StillValid(p)' /\ NotByStealth(p)'
    BY <2>1 DEF StillValid, NotByStealth, Valid
  <2>4. SearchKnows(p)'
    <3>1. Current(p)
      <4>1. pc[p] = "reserve"
        BY <1>5 DEF Reserve
      <4> QED
        BY <1>0, <2>1, <4>1 DEF Current, Working, Phases
    <3>2. \A j \in Slots : ~Present(p, j)
      BY <1>0, <1>5, <3>1 DEF Knowledge, Reserve, Searching
    <3>3. ASSUME NEW j \in Slots, Present(p, j)' PROVE FALSE
      <4>1. snapshot[Bin(p)].map[j] = MAP_VALID
        BY <1>0, <1>1, <1>5, <2>1, <3>3, ReserveEffect
        DEF Present, Valid, Marks, MAP_INSRT, MAP_VALID
      <4> QED
        BY <2>1, <3>2, <3>3, <4>1 DEF Present, Valid
    <3> QED
      BY <2>1, <3>3 DEF SearchKnows
  <2>5. OwnersKnow(p)'
    <3>1. ReservationsOwned'
      BY <1>0, ReservationsStep
    <3>2. ASSUME NEW r \in Threads, empty_index'[r] # None, Bin(r)' = Bin(p)'
          PROVE  s'[p].map[empty_index'[r]] # MAP_VALID
      BY <2>1, <3>1, <3>2 DEF ReservationsOwned, MAP_INSRT, MAP_VALID
    <3> QED
      BY <3>2 DEF OwnersKnow
  <2>6. Knowledge(p)'
    <3>1. (Knowledge(p) <=> (Current(p) => /\ StillValid(p) /\ SearchKnows(p)
                                           /\ NotByStealth(p) /\ OwnersKnow(p)))'
      BY KnowledgeParts, PTL
    <3> QED
      BY <2>3, <2>4, <2>5, <3>1
  <2> QED
    BY <2>2, <2>6
<1>6. CASE clht_bucket_search(p) \/ PutVal(p) \/ PutKey(p)
  <2>1. /\ pc[p] \in Working /\ s' = s /\ call' = call /\ Bin(p)' = Bin(p)
    BY <1>6 DEF clht_bucket_search, SearchVal, SearchState, SearchKey, SearchAgain,
       PutVal, PutKey, Working, Searching, Bin, clht_hash
  <2>2. Bounded(p)'
    <3>1. s[p].version \in Nat
      BY <1>1 DEF Snapshots
    <3> QED
      BY <1>0, <1>2, <2>1, <3>1 DEF Bounded
  <2>3. ASSUME Current(p)' PROVE Knowledge(p)'
    <3>0. ~Reserve(p)
      BY <1>6 DEF Reserve, clht_bucket_search, SearchVal, SearchState, SearchKey,
         SearchAgain, PutVal, PutKey
    <3>1. /\ Current(p) /\ NotByStealth(p)' /\ OwnersKnow(p)'
      BY <2>1, <2>3, <3>0, KnowledgeStands
    <3>2. \A j \in Slots : (Valid(p, j)' => Valid(p, j)) /\ (Present(p, j)' => Present(p, j))
      BY <2>1, <2>3, <3>0, KnowledgeStands
    <3>3. StillValid(p)'
      <4>1. StillValid(p)
        BY <1>0, <3>1 DEF Knowledge, StillValid
      <4> QED
        BY <2>1, <3>2, <4>1 DEF StillValid
    <3>4. SearchKnows(p)'
      <4>1. CASE clht_bucket_search(p)
        BY <3>1, <2>3, <4>1, SearchOwn DEF Current
      <4>2. CASE PutVal(p) \/ PutKey(p)
        <5>1. pc[p] \in {"putval", "putkey"} /\ pc'[p] \in {"putkey", "publish"}
          BY <1>1, <4>2 DEF PutVal, PutKey
        <5>2. \A j \in Slots : ~Present(p, j)
          BY <1>0, <3>1, <5>1 DEF Knowledge, Searching
        <5> QED
          BY <3>2, <5>1, <5>2 DEF SearchKnows
      <4> QED
        BY <1>6, <4>1, <4>2
    <3>5. (Knowledge(p) <=> (Current(p) => /\ StillValid(p) /\ SearchKnows(p)
                                           /\ NotByStealth(p) /\ OwnersKnow(p)))'
      BY KnowledgeParts, PTL
    <3> QED
      BY <3>1, <3>3, <3>4, <3>5
  <2> QED
    BY <2>2, <2>3 DEF Knowledge
<1>7. CASE ~(Snapshot(p) \/ Reserve(p) \/ clht_bucket_search(p) \/ PutVal(p) \/ PutKey(p))
  <2>1. call'[p].op = "put" => pc'[p] \notin Working
    <3>1. CASE Invoke(p)
      BY <1>0, <1>1, <3>1 DEF Invoke, Working, Searching, TypeOK
    <3>2. CASE Return(p) \/ clht_remove(p)
      BY <1>0, <1>1, <3>2 DEF Return, clht_remove, RemoveKey, RemoveVal, Remove,
         RemoveFails, SwapFails, Working, Searching
    <3>3. CASE PutFull(p) \/ ReserveFails(p) \/ Publish(p) \/ PublishFails(p) \/ GiveBack(p)
      BY <1>1, <3>3 DEF PutFull, ReserveFails, Publish, PublishFails, GiveBack, SwapFails,
         Working, Searching
    <3> QED
      BY <1>7, <3>1, <3>2, <3>3 DEF Work, clht_put
  <2> QED
    BY <2>1 DEF Knowledge, Current, Bounded
<1> QED
  BY <1>4, <1>5, <1>6, <1>7
-----------------------------------------------------------------------------
(* The invariant holds at first.                                            *)
LEMMA InitInv == Init => IndInv
<1> SUFFICES ASSUME Init PROVE IndInv
  OBVIOUS
<1> USE DEF Init
<1>1. TypeOK
  <2>1. 1 \in Slots /\ NoSnapshot \in Snapshots /\ Idle \in Calls \cup {Idle}
    BY BucketsAssumption DEF Slots, NoSnapshot, Snapshots
  <2> QED
    BY <2>1, BoundsAssumption DEF TypeOK, Labels
<1>2. Phases /\ Searches
  BY DEF Phases, Searches, Knowledge, Current, Searching, Removing, Holding, Working, Idle
<1>3. \A b \in Bins, j \in Slots : snapshot[b].map[j] = MAP_INVLD
  BY DEF NoSnapshot
<1>4. ReservationsOwned /\ Filled /\ UniqueKeys
  BY <1>3 DEF ReservationsOwned, Filled, UniqueKeys, MAP_INVLD, MAP_VALID, MAP_INSRT
<1> QED
  BY <1>1, <1>2, <1>4 DEF IndInv

(* Every step preserves it.                                                 *)
LEMMA StepInv == IndInv /\ [Next]_vars => IndInv'
<1>1. ASSUME IndInv, Next PROVE IndInv'
  <2>1. PICK p \in Threads : Invoke(p) \/ Work(p)
    BY <1>1 DEF Next
  <2>2. TypeOK'
    BY <1>1, TypeStep
  <2>3. Phases' /\ ReservationsOwned' /\ Filled' /\ UniqueKeys'
    BY <1>1, <2>1, PhasesStep, ReservationsStep, FilledStep, UniqueStep DEF IndInv
  <2>4. \A q \in Threads : Knowledge(q)' /\ Bounded(q)'
    BY <1>1, <2>1, KnowledgeOthers, KnowledgeOwn
  <2> QED
    BY <2>2, <2>3, <2>4 DEF IndInv, Searches, Bounded
<1>2. ASSUME IndInv, UNCHANGED vars PROVE IndInv'
  <2>1. TypeOK'
    BY <1>2 DEF vars, bucket, IndInv, TypeOK, Bin, clht_hash
  <2>2. Phases' /\ ReservationsOwned'
    BY <1>2 DEF vars, bucket, IndInv, Phases, ReservationsOwned, Bin, clht_hash
  <2>3. Filled' /\ UniqueKeys'
    BY <1>2 DEF vars, bucket, IndInv, Filled, UniqueKeys, Valid, Present, Bin, clht_hash
  <2>4. Searches'
    BY <1>2 DEF vars, bucket, IndInv, Searches, Knowledge, Current, Valid, Present, ValAt, Bin, clht_hash
  <2> QED
    BY <2>1, <2>2, <2>3, <2>4 DEF IndInv
<1> QED
  BY <1>1, <1>2

(* The invariant holds for ever.                                            *)
THEOREM Invariance == Spec => []IndInv
BY InitInv, StepInv, PTL DEF Spec

(* Every variable of CLHT-LF keeps its type.                                *)
THEOREM TypeCorrect == Spec => []TypeOK
<1>1. IndInv => TypeOK
  BY DEF IndInv
<1> QED
  BY <1>1, Invariance, PTL

(* A slot in state INSRT belongs to one put, which will publish it or give  *)
(* it back: reservations neither leak nor are taken by others.              *)
THEOREM Reservations == Spec => []ReservationsOwned
<1>1. IndInv => ReservationsOwned
  BY DEF IndInv
<1> QED
  BY <1>1, Invariance, PTL

(* A key is valid in one slot at most, although two puts of it may both     *)
(* hold reservations, and although a search may end before it has looked at *)
(* every slot.                                                              *)
THEOREM NoDuplicates == Spec => []UniqueKeys
<1>1. IndInv => UniqueKeys
  BY DEF IndInv
<1> QED
  BY <1>1, Invariance, PTL

(* A slot that stays valid keeps key and value, so that readers may look at *)
(* it without a snapshot.                                                   *)
THEOREM ValidForReaders == Spec => ValidSlotsStand
<1> DEFINE A == \A b \in Bins, j \in Slots :
                  snapshot[b].map[j] = MAP_VALID /\ snapshot'[b].map[j] = MAP_VALID =>
                    key'[b][j] = key[b][j] /\ val'[b][j] = val[b][j]
<1>1. IndInv /\ [Next]_vars => A
  <2>1. ASSUME IndInv, Next PROVE A
    BY <2>1, ValidStands DEF Next, IndInv
  <2>2. ASSUME UNCHANGED vars PROVE A
    BY <2>2 DEF vars, bucket
  <2> QED
    BY <2>1, <2>2
<1>2. IndInv /\ [Next]_vars => [A]_vars
  BY <1>1
<1> QED
  BY <1>2, Invariance, PTL DEF Spec, ValidSlotsStand

(* No slot becomes valid under a version that stays: a CAS under the        *)
(* version of a search confirms what the search did not find.               *)
THEOREM VersionsTell == Spec => VersionTellsPuts
<1> DEFINE A == \A b \in Bins : snapshot'[b].version = snapshot[b].version =>
                  \A j \in Slots :
                    snapshot'[b].map[j] = MAP_VALID => snapshot[b].map[j] = MAP_VALID
<1>1. IndInv /\ [Next]_vars => A
  <2>1. ASSUME IndInv, Next PROVE A
    BY <2>1, ValidComes, VersionGrows DEF Next, IndInv
  <2>2. ASSUME UNCHANGED vars PROVE A
    BY <2>2 DEF vars, bucket
  <2> QED
    BY <2>1, <2>2
<1>2. IndInv /\ [Next]_vars => [A]_vars
  BY <1>1
<1> QED
  BY <1>2, Invariance, PTL DEF Spec, VersionTellsPuts

-----------------------------------------------------------------------------
(* The table as an atomic map.  What a call may answer follows from        *)
(* AnswersInv, which is inductive together with IndInv; the map that it    *)
(* refines is KVMap.                                                       *)


(* No valid slot of a key, or the one that has its value.                   *)
LEMMA MapValue ==
  ASSUME Filled, UniqueKeys, NEW k \in Keys
  PROVE  /\ AbsMap[k] = None <=> ValidSlots(k) = {}
         /\ \A j \in ValidSlots(k) : ValidSlots(k) = {j} /\ AbsMap[k] = val[clht_hash(k)][j]
<1>1. clht_hash(k) \in Bins
  BY HashType, KeysAssumption
<1>2. ASSUME NEW j \in ValidSlots(k)
      PROVE  /\ ValidSlots(k) = {j} /\ val[clht_hash(k)][j] # None
             /\ (CHOOSE l \in ValidSlots(k) : TRUE) = j
  <2>1. ValidSlots(k) = {j}
    BY <1>1, <1>2 DEF UniqueKeys, ValidSlots
  <2>2. val[clht_hash(k)][j] # None
    BY <1>1, <1>2 DEF Filled, ValidSlots
  <2> QED
    BY <2>1, <2>2
<1> QED
  BY <1>2 DEF AbsMap

(* The slots a call finds its key in.                                       *)
LEMMA PresentSlots ==
  ASSUME NEW p \in Threads, NEW j \in Slots
  PROVE  Present(p, j) <=> j \in ValidSlots(call[p].key)
BY DEF Present, Valid, ValidSlots, Bin

(* A slot ceases to be valid when a remove takes it, and then only.         *)
LEMMA ValidGoes ==
  ASSUME IndInv, NEW p \in Threads, Invoke(p) \/ Work(p),
         NEW c \in Bins, NEW l \in Slots, snapshot[c].map[l] = MAP_VALID
  PROVE  \/ snapshot'[c].map[l] = MAP_VALID
         \/ Remove(p) /\ c = Bin(p) /\ l = i[p]
<1> USE DEF MAP_INVLD, MAP_VALID, MAP_INSRT
<1>0. TypeOK /\ Phases /\ ReservationsOwned
  BY DEF IndInv
<1>1. CASE Reserve(p)
  BY <1>0, <1>1, ReserveEffect DEF Marks
<1>2. CASE Publish(p)
  <2>1. empty_index[p] # None
    BY <1>0, <1>2 DEF Publish, Phases, Holding
  <2>2. Publishes(Bin(p), empty_index[p])
    BY <1>0, <1>2, <2>1, PublishEffect
  <2> QED
    BY <2>2 DEF Publishes
<1>3. CASE GiveBack(p)
  <2>1. empty_index[p] # None
    BY <1>0, <1>3 DEF GiveBack, Phases, Holding
  <2>2. Marks(Bin(p), empty_index[p], MAP_INVLD)
    BY <1>0, <1>3, <2>1, GiveBackEffect
  <2>3. snapshot[Bin(p)].map[empty_index[p]] = MAP_INSRT
    BY <1>0, <2>1 DEF ReservationsOwned
  <2> QED
    BY <2>2, <2>3 DEF Marks
<1>4. CASE Remove(p)
  BY <1>0, <1>4, RemoveEffect DEF Marks
<1>5. CASE PutVal(p) \/ PutKey(p)
  BY <1>0, <1>5, FillEffect
<1> QED
  BY <1>1, <1>2, <1>3, <1>4, <1>5, Quiet DEF Writes

(* A put that publishes knows that its key is nowhere.                      *)
LEMMA PublishFresh ==
  ASSUME IndInv, NEW p \in Threads, Publish(p)
  PROVE  /\ call[p].key \in Keys /\ call[p].op = "put" /\ call[p].val \in Vals
         /\ empty_index[p] \in Slots /\ empty_index[p] # None
         /\ \A j \in Slots : ~Present(p, j)
         /\ key[Bin(p)][empty_index[p]] = call[p].key
         /\ val[Bin(p)][empty_index[p]] = call[p].val
<1>1. /\ TypeOK /\ Phases /\ Filled /\ Knowledge(p) /\ pc[p] = "publish"
  BY DEF IndInv, Searches, Publish
<1>2. /\ empty_index[p] # None /\ empty_index[p] \in Slots
      /\ call[p].op = "put" /\ call[p].val \in Vals /\ call[p] # Idle
  BY <1>1 DEF Phases, Holding, TypeOK
<1>3. call[p].key \in Keys
  BY <1>1, <1>2 DEF TypeOK, Calls
<1>4. Current(p)
  BY <1>1, <1>2, PublishEffect DEF Current, Working
<1> QED
  BY <1>1, <1>2, <1>3, <1>4 DEF Knowledge, Searching, Filled

(* So does a put that reserves.                                             *)
LEMMA ReserveFresh ==
  ASSUME IndInv, NEW p \in Threads, Reserve(p)
  PROVE  /\ call[p].key \in Keys /\ call[p].op = "put" /\ empty_index[p] = None
         /\ \A j \in Slots : ~Present(p, j)
         /\ AbsMap[call[p].key] = None
<1>1. /\ TypeOK /\ Phases /\ Knowledge(p) /\ pc[p] = "reserve" /\ Filled /\ UniqueKeys
  BY DEF IndInv, Searches, Reserve
<1>2. call[p].op = "put" /\ call[p] # Idle /\ empty_index[p] = None
  BY <1>1 DEF Phases, Searching, Holding
<1>3. call[p].key \in Keys
  BY <1>1, <1>2 DEF TypeOK, Calls
<1>4. Current(p)
  <2>1. snapshot[Bin(p)] = s[p]
    BY <1>1, ReserveEffect
  <2> QED
    BY <1>1, <1>2, <2>1 DEF Current, Working
<1>5. \A j \in Slots : ~Present(p, j)
  BY <1>1, <1>4 DEF Knowledge, Searching
<1>6. ValidSlots(call[p].key) = {}
  BY <1>5, PresentSlots DEF ValidSlots
<1> QED
  BY <1>1, <1>2, <1>3, <1>5, <1>6, MapValue

(* A remove whose CAS succeeds has the value of its key.                    *)
LEMMA RemoveRight ==
  ASSUME IndInv, NEW p \in Threads, Removes(p), Remove(p)
  PROVE  /\ call[p].key \in Keys /\ call[p].op = "remove"
         /\ i[p] \in ValidSlots(call[p].key) /\ ValAt(p) = found[p]
<1>1. TypeOK /\ Phases /\ pc[p] = "rcas"
  BY DEF IndInv, Remove
<1>2. call[p].op = "remove" /\ call[p] # Idle
  BY <1>1 DEF Phases, Removing
<1>3. call[p].key \in Keys /\ i[p] \in Slots
  BY <1>1, <1>2 DEF TypeOK, Calls
<1>4. s[p] = snapshot[Bin(p)] /\ Valid(p, i[p])
  <2>1. s[p] = snapshot[Bin(p)]
    BY DEF Remove, Swaps
  <2> QED
    BY <1>1, <2>1, RemoveEffect DEF Valid
<1>5. KeyAt(p) = call[p].key /\ ValAt(p) = found[p]
  BY <1>1, <1>4 DEF Removes, Removing
<1> QED
  BY <1>2, <1>3, <1>4, <1>5 DEF ValidSlots, Valid, KeyAt, Bin

(* What a step does to the slots of a key.                                  *)
LEMMA SlotsStep ==
  ASSUME IndInv, NEW p \in Threads, Invoke(p) \/ Work(p), Removes(p), NEW k \in Keys
  PROVE  /\ ValidSlots(k)' = IF Publish(p) /\ k = call[p].key THEN {empty_index[p]}
                             ELSE IF Remove(p) /\ k = call[p].key THEN {}
                             ELSE ValidSlots(k)
         /\ \A j \in ValidSlots(k) : val'[clht_hash(k)][j] = val[clht_hash(k)][j]
<1>0. TypeOK /\ Phases /\ ReservationsOwned /\ Filled /\ UniqueKeys
  BY DEF IndInv
<1>1. clht_hash(k) \in Bins /\ clht_hash(k)' = clht_hash(k)
  BY HashType, KeysAssumption DEF clht_hash
<1>2. ASSUME NEW j \in Slots, j \in ValidSlots(k)
      PROVE  /\ key'[clht_hash(k)][j] = k /\ val'[clht_hash(k)][j] = val[clht_hash(k)][j]
             /\ j \in ValidSlots(k)' \/ (Remove(p) /\ clht_hash(k) = Bin(p) /\ j = i[p])
  <2>1. snapshot[clht_hash(k)].map[j] = MAP_VALID /\ key[clht_hash(k)][j] = k
    BY <1>2 DEF ValidSlots
  <2>2. key'[clht_hash(k)][j] = k /\ val'[clht_hash(k)][j] = val[clht_hash(k)][j]
    BY <1>0, <1>1, <2>1, ValidStands
  <2>3. \/ snapshot'[clht_hash(k)].map[j] = MAP_VALID
        \/ Remove(p) /\ clht_hash(k) = Bin(p) /\ j = i[p]
    BY <1>1, <2>1, ValidGoes
  <2> QED
    BY <1>1, <2>2, <2>3 DEF ValidSlots
<1>3. ASSUME NEW j \in Slots, j \in ValidSlots(k)'
      PROVE  \/ j \in ValidSlots(k)
             \/ Publish(p) /\ clht_hash(k) = Bin(p) /\ j = empty_index[p]
  <2>1. snapshot'[clht_hash(k)].map[j] = MAP_VALID /\ key'[clht_hash(k)][j] = k
    BY <1>1, <1>3 DEF ValidSlots
  <2>2. \/ snapshot[clht_hash(k)].map[j] = MAP_VALID
        \/ Publish(p) /\ clht_hash(k) = Bin(p) /\ j = empty_index[p]
    BY <1>0, <1>1, <2>1, ValidComes
  <2>3. snapshot[clht_hash(k)].map[j] = MAP_VALID => key[clht_hash(k)][j] = k
    BY <1>0, <1>1, <2>1, ValidStands
  <2> QED
    BY <2>1, <2>2, <2>3 DEF ValidSlots
<1>4. ValidSlots(k) \subseteq Slots /\ ValidSlots(k)' \subseteq Slots
  BY DEF ValidSlots
<1>5. CASE Publish(p)
  <2>1. /\ call[p].key \in Keys /\ empty_index[p] \in Slots /\ empty_index[p] # None
        /\ key[Bin(p)][empty_index[p]] = call[p].key
        /\ \A j \in Slots : ~Present(p, j)
    BY <1>5, PublishFresh
  <2>2. key' = key /\ Publishes(Bin(p), empty_index[p]) /\ ~Remove(p)
    BY <1>0, <1>5, <2>1, PublishEffect DEF Publish, Remove
  <2>3. Bin(p) \in Bins
    BY <1>0, BinType DEF TypeOK
  <2>4. CASE k = call[p].key
    <3>1. clht_hash(k) = Bin(p)
      BY <2>4 DEF Bin
    <3>2. ValidSlots(k) = {}
      BY <1>4, <2>1, <2>4, PresentSlots
    <3>3. empty_index[p] \in ValidSlots(k)'
      BY <1>1, <2>1, <2>2, <2>3, <2>4, <3>1 DEF ValidSlots, Publishes
    <3> QED
      BY <1>3, <1>4, <1>5, <2>4, <3>2, <3>3
  <2>5. CASE k # call[p].key
    <3>1. ASSUME NEW j \in Slots, j \in ValidSlots(k)' PROVE j \in ValidSlots(k)
      <4>1. key[clht_hash(k)][j] = k
        BY <1>1, <2>2, <3>1 DEF ValidSlots
      <4> QED
        BY <1>3, <2>1, <2>5, <3>1, <4>1
    <3> QED
      BY <1>2, <1>4, <2>2, <2>5, <3>1
  <2> QED
    BY <2>4, <2>5
<1>6. CASE Remove(p)
  <2>1. i[p] \in ValidSlots(call[p].key) /\ call[p].key \in Keys
    BY <1>6, RemoveRight
  <2>2. Marks(Bin(p), i[p], MAP_INVLD) /\ ~Publish(p)
    BY <1>0, <1>6, RemoveEffect DEF Publish, Remove
  <2>3. CASE k = call[p].key
    <3>1. ValidSlots(k) = {i[p]} /\ clht_hash(k) = Bin(p)
      BY <1>0, <2>1, <2>3, MapValue DEF Bin
    <3>2. i[p] \in Slots /\ i[p] \notin ValidSlots(k)'
      BY <1>1, <1>4, <2>2, <3>1 DEF ValidSlots, Marks, MAP_VALID, MAP_INVLD
    <3> QED
      BY <1>2, <1>3, <1>4, <1>6, <2>2, <2>3, <3>1, <3>2
  <2>4. CASE k # call[p].key
    <3>1. ASSUME clht_hash(k) = Bin(p) PROVE i[p] \notin ValidSlots(k)
      BY <2>1, <2>4, <3>1 DEF ValidSlots, Bin
    <3> QED
      BY <1>2, <1>3, <1>4, <2>2, <2>4, <3>1
  <2> QED
    BY <2>3, <2>4
<1>7. CASE ~Publish(p) /\ ~Remove(p)
  BY <1>2, <1>3, <1>4, <1>7
<1> QED
  BY <1>5, <1>6, <1>7

(* What a step does to the map.                                             *)
LEMMA AbsStep ==
  ASSUME IndInv, IndInv', NEW p \in Threads, Invoke(p) \/ Work(p), Removes(p)
  PROVE  /\ Publish(p) =>
              /\ AbsMap[call[p].key] = None
              /\ AbsMap' = [AbsMap EXCEPT ![call[p].key] = call[p].val]
         /\ Remove(p) =>
              /\ AbsMap[call[p].key] = found[p] /\ found[p] # None
              /\ AbsMap' = [AbsMap EXCEPT ![call[p].key] = None]
         /\ ~Publish(p) /\ ~Remove(p) => AbsMap' = AbsMap
<1>0. Filled /\ UniqueKeys /\ Filled' /\ UniqueKeys'
  BY DEF IndInv
<1>1. AbsMap = [k \in Keys |-> AbsMap[k]] /\ AbsMap' = [k \in Keys |-> AbsMap'[k]]
  BY DEF AbsMap
<1>2. ASSUME NEW k \in Keys
      PROVE  /\ (AbsMap[k] = None <=> ValidSlots(k) = {})
             /\ \A j \in ValidSlots(k) : ValidSlots(k) = {j} /\ AbsMap[k] = val[clht_hash(k)][j]
             /\ (AbsMap'[k] = None <=> ValidSlots(k)' = {})
             /\ \A j \in ValidSlots(k)' : AbsMap'[k] = val'[clht_hash(k)][j]
  <2>1. (Filled /\ UniqueKeys =>
           /\ AbsMap[k] = None <=> ValidSlots(k) = {}
           /\ \A j \in ValidSlots(k) :
                ValidSlots(k) = {j} /\ AbsMap[k] = val[clht_hash(k)][j])'
    BY MapValue, PTL
  <2>2. clht_hash(k)' = clht_hash(k)
    BY DEF clht_hash
  <2> QED
    BY <1>0, <2>1, <2>2, MapValue
<1>3. ASSUME NEW k \in Keys, ValidSlots(k)' = ValidSlots(k)
      PROVE  AbsMap'[k] = AbsMap[k]
  BY <1>2, <1>3, SlotsStep
<1>4. ASSUME Publish(p)
      PROVE  /\ AbsMap[call[p].key] = None
             /\ AbsMap' = [AbsMap EXCEPT ![call[p].key] = call[p].val]
  <2>1. /\ call[p].key \in Keys /\ \A j \in Slots : ~Present(p, j)
        /\ val[Bin(p)][empty_index[p]] = call[p].val
    BY <1>4, PublishFresh
  <2>2. val' = val /\ ~Remove(p)
    BY <1>4 DEF Publish, Remove
  <2>3. ValidSlots(call[p].key) = {}
    BY <2>1, PresentSlots DEF ValidSlots
  <2>4. PICK k \in Keys : k = call[p].key
    BY <2>1
  <2>5. ValidSlots(k)' = {empty_index[p]}
    BY <1>4, <2>4, SlotsStep
  <2>6. AbsMap'[k] = call[p].val
    BY <1>2, <2>1, <2>2, <2>4, <2>5 DEF Bin
  <2>7. \A x \in Keys : x # k => AbsMap'[x] = AbsMap[x]
    BY <1>3, <2>2, <2>4, SlotsStep
  <2> QED
    BY <1>1, <1>2, <2>3, <2>4, <2>6, <2>7
<1>5. ASSUME Remove(p)
      PROVE  /\ AbsMap[call[p].key] = found[p] /\ found[p] # None
             /\ AbsMap' = [AbsMap EXCEPT ![call[p].key] = None]
  <2>1. /\ call[p].key \in Keys /\ i[p] \in ValidSlots(call[p].key) /\ ValAt(p) = found[p]
    BY <1>5, RemoveRight
  <2>2. PICK k \in Keys : k = call[p].key
    BY <2>1
  <2>3. ~Publish(p)
    BY <1>5 DEF Publish, Remove
  <2>4. AbsMap[k] = found[p] /\ AbsMap[k] # None
    BY <1>2, <2>1, <2>2 DEF ValAt, Bin
  <2>5. AbsMap'[k] = None
    BY <1>2, <1>5, <2>2, <2>3, SlotsStep
  <2>6. \A x \in Keys : x # k => AbsMap'[x] = AbsMap[x]
    BY <1>3, <2>2, <2>3, SlotsStep
  <2> QED
    BY <1>1, <2>2, <2>4, <2>5, <2>6
<1>6. ASSUME ~Publish(p), ~Remove(p) PROVE AbsMap' = AbsMap
  BY <1>1, <1>3, <1>6, SlotsStep
<1> QED
  BY <1>4, <1>5, <1>6
-----------------------------------------------------------------------------
(* Locals of the calls. *)

(* A step of one thread leaves the results of the others alone.             *)
LEMMA OthersKeepRet ==
  ASSUME TypeOK, NEW p \in Threads, Invoke(p) \/ Work(p), NEW q \in Threads, q # p
  PROVE  ret'[q] = ret[q]
BY DEF TypeOK, Invoke, Work, Return, clht_bucket_search, Snapshot, clht_put,
     clht_remove, SearchVal, SearchState, SearchKey, SearchAgain, Searched, NextSlot,
     PutFull, Reserve, ReserveFails, PutVal, PutKey, Publish, PublishFails, GiveBack,
     RemoveKey, RemoveVal, Remove, RemoveFails

(* A thread has read its local found from the slot it looks at, or makes it *)
(* None.                                                                    *)
LEMMA FoundSteps ==
  ASSUME TypeOK, NEW p \in Threads, Invoke(p) \/ Work(p)
  PROVE  found'[p] \in {found[p], None, ValAt(p)}
<1> USE DEF TypeOK
<1>1. CASE Invoke(p) \/ Return(p) \/ Snapshot(p) \/ clht_put(p) \/ clht_remove(p)
  BY <1>1 DEF Invoke, Return, Snapshot, clht_put, clht_remove, PutFull, Reserve, ReserveFails,
     PutVal, PutKey, Publish, PublishFails, GiveBack, RemoveKey, RemoveVal, Remove, RemoveFails
<1>2. CASE clht_bucket_search(p)
  BY <1>2 DEF clht_bucket_search, SearchVal, SearchState, SearchKey, SearchAgain, Searched,
     NextSlot
<1> QED
  BY <1>1, <1>2 DEF Work

(* What Invoke does to the counter of puts.                                 *)
LEMMA InvokeCall ==
  ASSUME TypeOK, Phases, NEW p \in Threads, Invoke(p)
  PROVE  /\ call[p] = Idle /\ call'[p] \in Calls /\ call'[p] # Idle /\ i'[p] = 1
         /\ pc'[p] = IF call'[p].op = "get" THEN "val" ELSE "snapshot"
         /\ IF call'[p].op = "put" THEN call'[p].val = puts + 1 /\ puts' = puts + 1
            ELSE call'[p].val = None /\ puts' = puts
         /\ snapshot' = snapshot /\ key' = key /\ val' = val
         /\ found' = found /\ empty_index' = empty_index /\ ret' = ret
<1>1. PICK c \in Calls :
        /\ call' = [call EXCEPT ![p] = c]
        /\ IF c.op = "put" THEN puts < MaxPuts /\ c.val = puts + 1 ELSE c.val = None
        /\ puts' = IF c.op = "put" THEN puts + 1 ELSE puts
        /\ pc' = [pc EXCEPT ![p] = IF c.op = "get" THEN "val" ELSE "snapshot"]
  BY DEF Invoke, Goto
<1>2. call'[p] = c /\ c # Idle
  BY <1>1 DEF TypeOK, Calls, Idle
<1>3. call[p] = Idle
  BY DEF Invoke, Phases
<1>4. /\ snapshot' = snapshot /\ key' = key /\ val' = val /\ i'[p] = 1
      /\ found' = found /\ empty_index' = empty_index /\ ret' = ret
  BY DEF Invoke, bucket, TypeOK
<1> QED
  BY <1>1, <1>2, <1>3, <1>4 DEF TypeOK

(* A call that is not opened or closed by a step stays what it is.          *)
LEMMA CallStays ==
  ASSUME TypeOK, Phases, NEW p \in Threads, Invoke(p) \/ Work(p), NEW q \in Threads
  PROVE  \/ call'[q] = call[q] /\ Bin(q)' = Bin(q)
         \/ q = p /\ Invoke(p)
         \/ q = p /\ Return(p) /\ call'[q] = Idle
<1>1. CASE q # p
  BY <1>1, OthersStand DEF Stands
<1>2. CASE Return(p)
  BY <1>1, <1>2 DEF Return, TypeOK
<1> QED
  BY <1>1, <1>2, CallStands

(* A put that has yet to write its value had so before the step, unless its *)
(* call has just been made.                                                 *)
LEMMA PendingSteps ==
  ASSUME TypeOK, Phases, NEW p \in Threads, Invoke(p) \/ Work(p), ~Invoke(p),
         NEW q \in Threads, Pending(q)'
  PROVE  Pending(q) /\ call'[q] = call[q] /\ (q = p => ~PutVal(p))
<1>1. CASE q # p
  BY <1>1, OthersStand DEF Stands, Pending
<1>2. CASE q = p
  <2> USE DEF Pending, Goto, TypeOK
  <2>1. ~Return(p)
    BY <1>2 DEF Return, Idle
  <2>2. call' = call
    BY <2>1, CallStands
  <2>3. CASE Reserve(p)
    <3>1. empty_index[p] = None /\ pc[p] = "reserve"
      BY <2>3 DEF Reserve, Phases, Searching, Holding
    <3> QED
      BY <1>2, <2>2, <2>3, <3>1 DEF Reserve, PutVal
  <2>4. CASE PutVal(p) \/ PutKey(p)
    <3>1. empty_index[p] # None /\ empty_index' = empty_index /\ pc'[p] # "putval"
      BY <2>4 DEF PutVal, PutKey, Phases, Holding
    <3> QED
      BY <1>2, <3>1
  <2>5. CASE Publish(p) \/ GiveBack(p)
    BY <1>2, <2>5 DEF Publish, GiveBack
  <2>6. CASE Work(p) /\ ~Reserve(p) /\ ~Publish(p) /\ ~GiveBack(p) /\ ~PutVal(p) /\ ~PutKey(p)
    <3>1. empty_index' = empty_index
      BY <2>6, SlotsStand
    <3>2. pc'[p] # "putval" /\ pc[p] # "done"
      BY <2>1, <2>6 DEF Work, clht_bucket_search, Snapshot, clht_put,
         clht_remove, SearchVal, SearchState, SearchKey, SearchAgain, Searched, NextSlot,
         PutFull, ReserveFails, PublishFails, RemoveKey, RemoveVal, Remove, RemoveFails, SwapFails
    <3> QED
      BY <1>2, <2>2, <2>6, <3>1, <3>2
  <2> QED
    BY <2>3, <2>4, <2>5, <2>6
<1> QED
  BY <1>1, <1>2

(* The value of a put that has not written it yet is nowhere.               *)
LEMMA FreshValuesStep ==
  ASSUME TypeOK, Phases, FreshValues, NEW p \in Threads, Invoke(p) \/ Work(p)
  PROVE  FreshValues'
<1>1. /\ \A b \in Bins, j \in Slots : val[b][j] \in Vals \cup {None}
      /\ \A q \in Threads : /\ call[q].val \in Vals \cup {None} /\ found[q] \in Vals \cup {None}
                            /\ Bin(q) \in Bins /\ i[q] \in Slots
      /\ puts \in Nat
  BY BinType, CallType, BoundsAssumption DEF TypeOK
<1>2. puts' = puts \/ (Invoke(p) /\ puts' = puts + 1)
  <2>1. CASE Invoke(p)
    BY <2>1, InvokeCall
  <2>2. CASE ~Invoke(p)
    BY <2>2 DEF Work, Return, clht_bucket_search, Snapshot, clht_put,
       clht_remove, SearchVal, SearchState, SearchKey, SearchAgain, PutFull, Reserve,
       ReserveFails, PutVal, PutKey, Publish, PublishFails, GiveBack, RemoveKey, RemoveVal,
       Remove, RemoveFails
  <2> QED
    BY <2>1, <2>2
<1>3. ASSUME NEW b \in Bins, NEW j \in Slots
      PROVE  val'[b][j] = val[b][j] \/ (PutVal(p) /\ val'[b][j] = call[p].val)
  <2>1. CASE PutVal(p) \/ PutKey(p)
    BY <2>1, FillEffect
  <2>2. CASE Reserve(p) \/ Publish(p) \/ GiveBack(p) \/ Remove(p)
    BY <2>2 DEF Reserve, Publish, GiveBack, Remove
  <2> QED
    BY <2>1, <2>2, Quiet DEF Writes
<1>4. ASSUME NEW q \in Threads
      PROVE  \/ found'[q] \in {found[q], None}
             \/ \E b \in Bins, j \in Slots : found'[q] = val[b][j]
  <2>1. CASE q # p
    BY <2>1, OthersStand DEF Stands
  <2>2. CASE q = p
    BY <1>1, <2>2, FoundSteps DEF ValAt
  <2> QED
    BY <2>1, <2>2
<1>5. ASSUME NEW b \in Bins, NEW j \in Slots PROVE val'[b][j] <= puts'
  BY <1>1, <1>2, <1>3 DEF FreshValues, Vals, None
<1>6. ASSUME NEW q \in Threads PROVE found'[q] <= puts'
  BY <1>1, <1>2, <1>4 DEF FreshValues, Vals, None
<1>7. ASSUME NEW q \in Threads
      PROVE  \/ call'[q].val = call[q].val /\ (call'[q].op = "put" => call[q].op = "put")
             \/ call'[q].val = None /\ call'[q].op # "put"
             \/ q = p /\ Invoke(p) /\ call'[q].val = puts + 1 /\ puts' = puts + 1
  BY InvokeCall, CallStays DEF Idle
<1>8. ASSUME NEW q \in Threads PROVE call'[q].val <= puts'
  <2>1. call[q].val <= puts
    BY DEF FreshValues
  <2> QED
    BY <1>1, <1>2, <1>7, <2>1 DEF Vals, None
<1>9. ASSUME NEW q \in Threads, Pending(q)'
      PROVE  /\ call'[q].op = "put"
             /\ \/ Pending(q) /\ call'[q] = call[q] /\ (q = p => ~PutVal(p))
                \/ q = p /\ Invoke(p) /\ call'[q].val = puts + 1
  <2>1. call'[q].op = "put"
    BY <1>9 DEF Pending
  <2>2. CASE Invoke(p) /\ q = p
    BY <2>1, <2>2, InvokeCall
  <2>3. CASE Invoke(p) /\ q # p
    BY <1>9, <2>1, <2>3, OthersStand DEF Stands, Pending
  <2>4. CASE ~Invoke(p)
    BY <1>9, <2>1, <2>4, PendingSteps
  <2> QED
    BY <2>2, <2>3, <2>4
<1>10. ASSUME NEW q \in Threads, Pending(q) PROVE call[q].val \in Vals /\ call[q].val # None
  <2>1. call[q].val \in Vals
    BY <1>10 DEF Pending, Phases
  <2> QED
    BY <2>1 DEF Vals, None
<1>11. ASSUME NEW q \in Threads, Pending(q)', NEW b \in Bins, NEW j \in Slots
       PROVE  val'[b][j] # call'[q].val
  <2>1. CASE Pending(q) /\ call'[q] = call[q] /\ (q = p => ~PutVal(p))
    <3>1. val[b][j] # call[q].val
      BY <2>1 DEF FreshValues
    <3>2. PutVal(p) => call[p].op = "put"
      BY DEF PutVal, Phases, Holding
    <3>3. PutVal(p) => call[p].val # call[q].val
      BY <2>1, <3>2 DEF FreshValues
    <3> QED
      BY <1>3, <2>1, <3>1, <3>3
  <2>2. CASE Invoke(p) /\ call'[q].val = puts + 1
    <3>1. val'[b][j] = val[b][j] /\ val[b][j] <= puts
      BY <2>2, InvokeCall DEF FreshValues
    <3> QED
      BY <1>1, <2>2, <3>1 DEF Vals, None
  <2> QED
    BY <1>9, <1>11, <2>1, <2>2
<1>12. ASSUME NEW q \in Threads, NEW r \in Threads, Pending(q)' PROVE found'[r] # call'[q].val
  <2>1. CASE Pending(q) /\ call'[q] = call[q]
    BY <1>4, <1>10, <2>1 DEF FreshValues
  <2>2. CASE Invoke(p) /\ call'[q].val = puts + 1
    <3>1. found'[r] = found[r] /\ found[r] <= puts
      BY <2>2, InvokeCall DEF FreshValues
    <3> QED
      BY <1>1, <2>2, <3>1 DEF Vals, None
  <2> QED
    BY <1>9, <1>12, <2>1, <2>2
<1>13. ASSUME NEW q \in Threads, NEW r \in Threads, Pending(q)', call'[r].op = "put", q # r
       PROVE  call'[r].val # call'[q].val
  <2>1. /\ call[q].val <= puts /\ call[r].val <= puts
        /\ call[q].val \in Nat /\ call[r].val \in Nat
    BY <1>1 DEF FreshValues, Vals, None
  <2>2. CASE Pending(q) /\ call'[q] = call[q]
    <3>1. CASE r = p /\ Invoke(p) /\ call'[r].val = puts + 1
      BY <1>1, <2>1, <2>2, <3>1
    <3>2. CASE call'[r].val = call[r].val /\ call[r].op = "put"
      BY <1>13, <2>2, <3>2 DEF FreshValues
    <3> QED
      BY <1>7, <1>13, <3>1, <3>2
  <2>3. CASE q = p /\ Invoke(p) /\ call'[q].val = puts + 1
    <3>1. call'[r] = call[r]
      BY <1>13, <2>3, OthersStand DEF Stands
    <3> QED
      BY <1>1, <2>1, <2>3, <3>1
  <2> QED
    BY <1>9, <1>13, <2>2, <2>3
<1> QED
  BY <1>5, <1>6, <1>8, <1>11, <1>12, <1>13 DEF FreshValues
-----------------------------------------------------------------------------
(* What the open calls have seen of their key. *)

(* The call of thread q is open before and after the step.                  *)
Opened(q) == call[q] # Idle /\ call'[q] # Idle

(* An open call goes on with what it is about, and has seen its key before  *)
(* and after the step.                                                      *)
LEMMA StaysOpen ==
  ASSUME IndInv, SeenNow, NEW p \in Threads, Invoke(p) \/ Work(p), Watch,
         NEW q \in Threads, Opened(q)
  PROVE  /\ call'[q] = call[q] /\ Bin(q)' = Bin(q) /\ call[q].key \in Keys
         /\ seen[q] \subseteq seen'[q]
         /\ AbsMap[call[q].key] \in seen[q] /\ AbsMap'[call[q].key] \in seen'[q]
<1>1. call'[q] = call[q] /\ Bin(q)' = Bin(q)
  <2>1. q = p => ~Invoke(p)
    BY DEF Opened, Invoke, IndInv, Phases
  <2> QED
    BY <2>1, CallStays DEF Opened, IndInv
<1>2. call[q].key \in Keys
  BY DEF Opened, IndInv, TypeOK, Calls
<1>3. seen'[q] = seen[q] \cup {AbsMap'[call[q].key]}
  BY DEF Watch, Opened
<1>4. AbsMap[call[q].key] \in seen[q]
  BY DEF SeenNow, Opened
<1> QED
  BY <1>1, <1>2, <1>3, <1>4

(* An open call sees the slots of its key stay what they are, unless it     *)
(* sees the key go or come.                                                 *)
LEMMA OpenView ==
  ASSUME IndInv, IndInv', SeenNow, NEW p \in Threads, Invoke(p) \/ Work(p), Removes(p), Watch,
         NEW q \in Threads, Opened(q)
  PROVE  \/ None \in seen'[q]
         \/ \A j \in Slots : /\ Present(q, j)' <=> Present(q, j)
                             /\ Present(q, j) => val'[Bin(q)][j] = val[Bin(q)][j]
<1>1. /\ call'[q] = call[q] /\ Bin(q)' = Bin(q) /\ call[q].key \in Keys
      /\ seen[q] \subseteq seen'[q]
      /\ AbsMap[call[q].key] \in seen[q] /\ AbsMap'[call[q].key] \in seen'[q]
  BY StaysOpen
<1>2. PICK k \in Keys : k = call[q].key
  BY <1>1
<1>3. AbsMap \in [Keys -> Vals \cup {None}]
  BY AbsMapType DEF IndInv, TypeOK
<1>4. CASE (Publish(p) \/ Remove(p)) /\ call[p].key = k
  BY <1>1, <1>2, <1>3, <1>4, AbsStep
<1>5. CASE ~((Publish(p) \/ Remove(p)) /\ call[p].key = k)
  <2>1. /\ ValidSlots(k)' = ValidSlots(k)
        /\ \A j \in ValidSlots(k) : val'[clht_hash(k)][j] = val[clht_hash(k)][j]
    BY <1>5, SlotsStep
  <2>2. \A j \in Slots : Present(q, j) <=> j \in ValidSlots(k)
    BY <1>2, PresentSlots
  <2>3. \A j \in Slots : Present(q, j)' <=> j \in ValidSlots(k)'
    BY <1>1, <1>2 DEF Present, Valid, ValidSlots, Bin
  <2> QED
    BY <1>2, <2>1, <2>2, <2>3 DEF Bin
<1> QED
  BY <1>4, <1>5

(* Every step keeps what the calls have seen up to date.                    *)
LEMMA SeenNowStep ==
  ASSUME IndInv, SeenNow, NEW p \in Threads, Invoke(p) \/ Work(p), Watch
  PROVE  SeenNow'
<1>1. ASSUME NEW q \in Threads, call'[q] # Idle
      PROVE  AbsMap'[call'[q].key] \in seen'[q]
  <2>1. CASE call[q] = Idle
    BY <1>1, <2>1 DEF Watch
  <2>2. CASE call[q] # Idle
    BY <1>1, <2>2, StaysOpen DEF Opened
  <2> QED
    BY <2>1, <2>2
<1>2. ASSUME NEW q \in Threads, call'[q] = Idle PROVE seen'[q] = {}
  BY <1>2 DEF Watch
<1> QED
  BY <1>1, <1>2 DEF SeenNow

(* A call that begins to look at the slots has its key ahead, or missing.   *)
LEMMA BeginsAhead ==
  IndInv =>
    \A q \in Threads : call[q] # Idle /\ AbsMap[call[q].key] \in seen[q] =>
      None \in seen[q] \/ \E j \in Slots : 1 <= j /\ Present(q, j)
<1> SUFFICES ASSUME IndInv, NEW q \in Threads,
                    call[q] # Idle, AbsMap[call[q].key] \in seen[q]
             PROVE  None \in seen[q] \/ \E j \in Slots : 1 <= j /\ Present(q, j)
  OBVIOUS
<1>1. call[q].key \in Keys
  BY DEF IndInv, TypeOK, Calls
<1>2. ValidSlots(call[q].key) = {} => None \in seen[q]
  BY <1>1, MapValue DEF IndInv
<1>3. ASSUME NEW j \in ValidSlots(call[q].key) PROVE j \in Slots /\ 1 <= j /\ Present(q, j)
  BY <1>3, PresentSlots DEF ValidSlots, Slots
<1> QED
  BY <1>2, <1>3

(* How a search gets to a slot.                                             *)
LEMMA SearchSteps ==
  ASSUME IndInv, NEW p \in Threads, Work(p), pc'[p] \in {"val", "state", "key", "again"}
  PROVE  /\ call' = call /\ snapshot' = snapshot /\ key' = key /\ val' = val
         /\ \/ /\ Snapshot(p) /\ i'[p] = 1 /\ pc'[p] = "val"
            \/ /\ SearchVal(p) /\ i'[p] = i[p] /\ found'[p] = ValAt(p)
               /\ pc[p] = "val" /\ pc'[p] = "state"
            \/ /\ SearchState(p) /\ StateAt(p) = MAP_VALID /\ i'[p] = i[p] /\ found'[p] = found[p]
               /\ pc[p] = "state" /\ pc'[p] = "key"
            \/ /\ SearchKey(p) /\ KeyAt(p) = call[p].key /\ i'[p] = i[p] /\ found'[p] = found[p]
               /\ pc[p] = "key" /\ pc'[p] = "again"
            \/ /\ ~Present(p, i[p]) /\ i'[p] = i[p] + 1
               /\ pc[p] \in {"state", "key"} /\ pc'[p] = "val"
<1> USE DEF Goto
<1>1. /\ pc \in [Threads -> Labels] /\ i \in [Threads -> Slots]
      /\ found \in [Threads -> Vals \cup {None}]
  BY DEF IndInv, TypeOK
<1>2. CASE Return(p)
  BY <1>1, <1>2 DEF Return
<1>3. CASE Snapshot(p)
  BY <1>1, <1>3 DEF Snapshot, bucket
<1>4. CASE clht_put(p)
  BY <1>1, <1>4 DEF clht_put, PutFull, Reserve, ReserveFails, PutVal, PutKey, Publish,
     PublishFails, GiveBack, SwapFails
<1>5. CASE clht_remove(p)
  BY <1>1, <1>5 DEF clht_remove, RemoveKey, RemoveVal, Remove, RemoveFails, SwapFails
<1>6. ASSUME NEW v, Searched(p, v) PROVE FALSE
  BY <1>1, <1>6 DEF Searched
<1>7. ASSUME NextSlot(p) PROVE i'[p] = i[p] + 1 /\ pc'[p] = "val"
  BY <1>1, <1>6, <1>7 DEF NextSlot
<1>8. CASE SearchVal(p)
  BY <1>1, <1>8 DEF SearchVal, bucket
<1>9. CASE SearchState(p)
  BY <1>1, <1>7, <1>9 DEF SearchState, bucket, StateAt, Present, Valid
<1>10. CASE SearchKey(p)
  BY <1>1, <1>7, <1>10 DEF SearchKey, bucket, KeyAt, Present
<1>11. CASE SearchAgain(p)
  BY <1>6, <1>11 DEF SearchAgain
<1> QED
  BY <1>2, <1>3, <1>4, <1>5, <1>8, <1>9, <1>10, <1>11 DEF Work, clht_bucket_search

(* How a remove gets to a slot.                                             *)
LEMMA RemoveSteps ==
  ASSUME IndInv, NEW p \in Threads, Work(p), pc'[p] \in Removing
  PROVE  /\ call' = call /\ snapshot' = snapshot /\ key' = key /\ val' = val
         /\ \/ /\ Snapshot(p) /\ i'[p] = 1 /\ pc'[p] = "rkey" /\ s'[p] = snapshot[Bin(p)]
            \/ /\ s'[p] = s[p] /\ pc[p] = "rkey" /\ pc'[p] = "rval" /\ i'[p] = i[p]
               /\ KeyAt(p) = call[p].key
            \/ /\ s'[p] = s[p] /\ pc[p] = "rkey" /\ pc'[p] = "rkey" /\ i'[p] = i[p] + 1
               /\ KeyAt(p) # call[p].key \/ s[p].map[i[p]] # MAP_VALID
            \/ /\ s'[p] = s[p] /\ pc[p] = "rval" /\ pc'[p] = "rcas" /\ i'[p] = i[p]
               /\ found'[p] = ValAt(p)
<1> USE DEF Goto, Removing
<1>1. /\ pc \in [Threads -> Labels] /\ i \in [Threads -> Slots] /\ s \in [Threads -> Snapshots]
      /\ found \in [Threads -> Vals \cup {None}]
  BY DEF IndInv, TypeOK
<1>2. CASE Return(p)
  BY <1>1, <1>2 DEF Return
<1>3. CASE Snapshot(p)
  BY <1>1, <1>3 DEF Snapshot, bucket
<1>4. CASE clht_put(p)
  BY <1>1, <1>4 DEF clht_put, PutFull, Reserve, ReserveFails, PutVal, PutKey, Publish,
     PublishFails, GiveBack, SwapFails
<1>5. CASE RemoveKey(p)
  BY <1>1, <1>5 DEF RemoveKey, bucket
<1>6. CASE RemoveVal(p)
  BY <1>1, <1>6 DEF RemoveVal, bucket
<1>7. CASE Remove(p) \/ RemoveFails(p)
  BY <1>1, <1>7 DEF Remove, RemoveFails, SwapFails
<1>8. CASE clht_bucket_search(p)
  BY <1>1, <1>8 DEF clht_bucket_search, SearchVal, SearchState, SearchKey, SearchAgain, Searched,
     NextSlot
<1> QED
  BY <1>2, <1>3, <1>4, <1>5, <1>6, <1>7, <1>8 DEF Work, clht_remove

(* The two halves of NotMissed, for one thread.                             *)
Ahead(q) == \/ None \in seen[q]
            \/ \E j \in Slots : i[q] <= j /\ Present(q, j)
AheadThen(q) == \/ None \in seen[q]
                \/ \E j \in Slots : i[q] <= j /\ Present(q, j) /\ s[q].map[j] = MAP_VALID

(* A search passes a key by only if it sees it missing.                     *)
LEMMA NotMissedStep ==
  ASSUME IndInv, IndInv', SeenNow, SeenNow', NotMissed,
         NEW p \in Threads, Invoke(p) \/ Work(p), Removes(p), Watch
  PROVE  NotMissed'
<1>0. TypeOK /\ Phases
  BY DEF IndInv
<1>1. \A q \in Threads : i[q] \in Nat /\ (\A j \in Slots : j \in Nat)
  BY <1>0 DEF TypeOK, Slots
<1>2. ASSUME NEW q \in Threads, pc[q] \notin {"idle", "done"}, pc'[q] \notin {"idle", "done"}
      PROVE  Opened(q)
  BY <1>2 DEF Opened, IndInv, Phases
<1>3. ASSUME NEW q \in Threads, Opened(q), None \notin seen'[q]
      PROVE  /\ None \notin seen[q]
             /\ \A j \in Slots : Present(q, j)' <=> Present(q, j)
  BY <1>3, OpenView, StaysOpen
<1>4. ASSUME NEW q \in Threads, q # p
      PROVE  /\ pc'[q] \in {"val", "state", "key"} => Ahead(q)'
             /\ pc'[q] = "rkey" => AheadThen(q)'
  <2>1. Stands(q)
    BY <1>0, <1>4, OthersStand
  <2>2. pc[q] \in {"val", "state", "key", "rkey"} => Opened(q)
    BY <1>2, <2>1 DEF Stands
  <2>3. /\ pc[q] \in {"val", "state", "key"} => Ahead(q)
        /\ pc[q] = "rkey" => AheadThen(q)
    BY DEF NotMissed, Ahead, AheadThen
  <2> QED
    BY <1>3, <2>1, <2>2, <2>3 DEF Stands, Ahead, AheadThen
<1>5. ASSUME Invoke(p), pc'[p] \in {"val", "state", "key", "rkey"}
      PROVE  pc'[p] = "val" /\ Ahead(p)'
  <2>1. call'[p] # Idle /\ i'[p] = 1 /\ pc'[p] = "val"
    BY <1>0, <1>5, InvokeCall
  <2>2. (AbsMap[call[p].key] \in seen[p])'
    BY <2>1 DEF SeenNow
  <2>3. (IndInv =>
           \A q \in Threads : call[q] # Idle /\ AbsMap[call[q].key] \in seen[q] =>
             None \in seen[q] \/ \E j \in Slots : 1 <= j /\ Present(q, j))'
    BY BeginsAhead, PTL
  <2> QED
    BY <2>1, <2>2, <2>3 DEF Ahead
<1>6. ASSUME Snapshot(p)
      PROVE  /\ pc'[p] = "val" => Ahead(p)'
             /\ pc'[p] = "rkey" => AheadThen(p)'
             /\ pc'[p] \in {"val", "rkey"}
  <2>1. /\ i'[p] = 1 /\ s'[p] = snapshot[Bin(p)] /\ pc[p] = "snapshot" /\ pc'[p] \in {"val", "rkey"}
    BY <1>0, <1>6 DEF Snapshot, Goto, TypeOK
  <2>2. Opened(p)
    BY <1>2, <2>1
  <2>3. AbsMap[call[p].key] \in seen[p] /\ call[p] # Idle
    BY <2>2, StaysOpen DEF Opened
  <2>4. None \in seen[p] \/ \E j \in Slots : 1 <= j /\ Present(p, j)
    BY <2>3, BeginsAhead
  <2>5. \A j \in Slots : Present(p, j) => s'[p].map[j] = MAP_VALID
    BY <2>1 DEF Present, Valid
  <2> QED
    BY <1>3, <2>1, <2>2, <2>4, <2>5 DEF Ahead, AheadThen
<1>7. ASSUME Work(p), pc'[p] \in {"val", "state", "key"} PROVE Ahead(p)'
  <2>1. CASE Snapshot(p)
    BY <1>6, <1>7, <2>1
  <2>2. CASE ~Snapshot(p)
    <3>1. /\ pc[p] \in {"val", "state", "key"}
          /\ i'[p] = i[p] \/ (~Present(p, i[p]) /\ i'[p] = i[p] + 1)
      BY <1>7, <2>2, SearchSteps
    <3>2. Ahead(p) /\ Opened(p)
      BY <1>2, <1>7, <3>1 DEF NotMissed, Ahead
    <3>3. CASE None \in seen'[p]
      BY <3>3 DEF Ahead
    <3>4. CASE None \notin seen'[p]
      <4>1. PICK j \in Slots : i[p] <= j /\ Present(p, j)
        BY <1>3, <3>2, <3>4 DEF Ahead
      <4>2. i'[p] <= j
        BY <1>1, <3>1, <4>1
      <4>3. Present(p, j)'
        BY <1>3, <3>2, <3>4, <4>1
      <4> QED
        BY <4>2, <4>3 DEF Ahead
    <3> QED
      BY <3>3, <3>4
  <2> QED
    BY <2>1, <2>2
<1>8. ASSUME Work(p), pc'[p] = "rkey" PROVE AheadThen(p)'
  <2>1. CASE Snapshot(p)
    BY <1>6, <1>8, <2>1
  <2>2. CASE ~Snapshot(p)
    <3>1. /\ pc[p] = "rkey" /\ s'[p] = s[p] /\ i'[p] = i[p] + 1
          /\ KeyAt(p) # call[p].key \/ s[p].map[i[p]] # MAP_VALID
      BY <1>8, <2>2, RemoveSteps DEF Removing
    <3>2. AheadThen(p) /\ Opened(p)
      BY <1>2, <1>8, <3>1 DEF NotMissed, AheadThen
    <3>3. CASE None \in seen'[p]
      BY <3>3 DEF AheadThen
    <3>4. CASE None \notin seen'[p]
      <4>1. PICK j \in Slots : i[p] <= j /\ Present(p, j) /\ s[p].map[j] = MAP_VALID
        BY <1>3, <3>2, <3>4 DEF AheadThen
      <4>2. j # i[p]
        BY <3>1, <4>1 DEF Present, KeyAt
      <4>3. i'[p] <= j
        BY <1>1, <3>1, <4>1, <4>2
      <4>4. Present(p, j)'
        BY <1>3, <3>2, <3>4, <4>1
      <4> QED
        BY <3>1, <4>1, <4>3, <4>4 DEF AheadThen
    <3> QED
      BY <3>3, <3>4
  <2> QED
    BY <2>1, <2>2
<1>9. ASSUME NEW q \in Threads
      PROVE  /\ pc'[q] \in {"val", "state", "key"} => Ahead(q)'
             /\ pc'[q] = "rkey" => AheadThen(q)'
  BY <1>4, <1>5, <1>7, <1>8
<1> QED
  BY <1>9 DEF NotMissed, Ahead, AheadThen
-----------------------------------------------------------------------------
(* Values that searches and removes have read. *)

(* A put that holds a slot keeps it, and its call, or has just taken it.    *)
LEMMA OwnerSteps ==
  ASSUME TypeOK, Phases, NEW p \in Threads, Invoke(p) \/ Work(p),
         NEW r \in Threads, empty_index'[r] # None
  PROVE  /\ call'[r] = call[r] /\ Bin(r)' = Bin(r)
         /\ empty_index'[r] = empty_index[r] \/ (r = p /\ Reserve(p))
<1>1. CASE r # p
  BY <1>1, OthersStand DEF Stands
<1>2. CASE r = p /\ Reserve(p)
  BY <1>2, ReserveEffect DEF Bin, clht_hash
<1>3. CASE r = p /\ ~Reserve(p)
  <2>1. ~Publish(p) /\ ~GiveBack(p)
    BY <1>3 DEF Publish, GiveBack, TypeOK
  <2> QED
    BY <1>3, <2>1, SlotsStand
<1> QED
  BY <1>1, <1>2, <1>3

(* A put that takes a slot has a new value, and its key was missing.        *)
LEMMA TakenSinceStep ==
  ASSUME IndInv, FreshValues, SeenNow, NEW p \in Threads, Invoke(p) \/ Work(p), Watch,
         NEW q \in Threads, Opened(q), TakenSince(q), i'[q] = i[q], found'[q] = found[q],
         q # p \/ ~Reserve(p)
  PROVE  TakenSince(q)'
<1>1. /\ call'[q] = call[q] /\ Bin(q)' = Bin(q) /\ seen[q] \subseteq seen'[q]
      /\ AbsMap[call[q].key] \in seen[q]
  BY StaysOpen
<1>2. ASSUME NEW r \in Threads, empty_index'[r] # None, empty_index'[r] = i[q], Bin(r)' = Bin(q)
      PROVE  /\ call'[r] = call[r] /\ call[r].val # found[q]
             /\ call[r].key = call[q].key => None \in seen'[q]
  <2>1. /\ call'[r] = call[r] /\ Bin(r)' = Bin(r)
        /\ empty_index'[r] = empty_index[r] \/ (r = p /\ Reserve(p))
    BY <1>2, OwnerSteps DEF IndInv
  <2>2. CASE empty_index'[r] = empty_index[r]
    BY <1>1, <1>2, <2>1, <2>2 DEF TakenSince
  <2>3. CASE r = p /\ Reserve(p)
    <3>1. call[p].op = "put" /\ empty_index[p] = None /\ AbsMap[call[p].key] = None
      BY <2>3, ReserveFresh
    <3>2. Pending(p)
      BY <2>3, <3>1 DEF Pending, Reserve
    <3>3. call[r].val # found[q]
      BY <2>3, <3>2 DEF FreshValues
    <3> QED
      BY <1>1, <2>1, <2>3, <3>1, <3>3
  <2> QED
    BY <2>1, <2>2, <2>3
<1> QED
  BY <1>1, <1>2 DEF TakenSince

(* A write to a slot is that of its owner.                                  *)
LEMMA SlotChanges ==
  ASSUME IndInv, NEW p \in Threads, Invoke(p) \/ Work(p), NEW c \in Bins, NEW l \in Slots
  PROVE  \/ key'[c][l] = key[c][l] /\ val'[c][l] = val[c][l]
         \/ /\ empty_index[p] # None /\ empty_index[p] = l /\ Bin(p) = c /\ val'[c][l] = call[p].val
            /\ key'[c][l] = key[c][l] \/ (key'[c][l] = call[p].key /\ val[c][l] = call[p].val)
<1>0. TypeOK /\ Phases /\ ReservationsOwned /\ Filled
  BY DEF IndInv
<1>1. CASE ~(pc[p] \in {"putval", "putkey"} /\ empty_index[p] = l /\ Bin(p) = c)
  BY <1>0, <1>1, ContentsStand
<1>2. CASE pc[p] \in {"putval", "putkey"} /\ empty_index[p] = l /\ Bin(p) = c
  <2>1. empty_index[p] # None
    BY <1>0, <1>2 DEF Phases, Holding
  <2>2. CASE PutVal(p)
    BY <1>0, <1>2, <2>1, <2>2, FillEffect DEF PutVal, PutKey
  <2>3. CASE PutKey(p)
    <3>1. val[c][l] = call[p].val
      BY <1>0, <1>2, <2>1, <2>3 DEF Filled, PutKey
    <3> QED
      BY <1>0, <1>2, <2>1, <2>3, <3>1, FillEffect DEF PutVal, PutKey
  <2>4. CASE ~PutVal(p) /\ ~PutKey(p)
    <3>1. ~Reserve(p) /\ ~Publish(p) /\ ~GiveBack(p) /\ ~Remove(p)
      BY <1>2 DEF Reserve, Publish, GiveBack, Remove
    <3> QED
      BY <2>4, <3>1, Quiet DEF Writes
  <2> QED
    BY <2>2, <2>3, <2>4
<1> QED
  BY <1>1, <1>2

(* What a search knows that does not move.                                  *)
LEMMA ComparedStands ==
  ASSUME IndInv, IndInv', FreshValues, SeenNow, NEW p \in Threads, Invoke(p) \/ Work(p),
         Removes(p), Watch, NEW q \in Threads, q # p, Compared(q)
  PROVE  Compared(q)'
<1> SUFFICES ASSUME pc[q] \in {"state", "key", "again"} PROVE Compared(q)'
  BY OthersStand DEF Stands, Compared, IndInv
<1>1. Stands(q) /\ TypeOK /\ Phases
  BY OthersStand DEF IndInv
<1>2. Opened(q)
  BY <1>1 DEF Stands, Opened, Phases
<1>3. /\ Bin(q) \in Bins /\ i[q] \in Slots
      /\ seen[q] \subseteq seen'[q]
  BY <1>1, <1>2, BinType, StaysOpen DEF TypeOK
<1>4. /\ KeyAt(q)' = key'[Bin(q)][i[q]] /\ KeyAt(q) = key[Bin(q)][i[q]]
      /\ ValAt(q)' = val'[Bin(q)][i[q]] /\ ValAt(q) = val[Bin(q)][i[q]]
  BY <1>1 DEF Stands, KeyAt, ValAt
<1>5. ASSUME None \notin seen'[q]
      PROVE  /\ None \notin seen[q]
             /\ Present(q, i[q])' <=> Present(q, i[q])
             /\ Present(q, i[q]) => ValAt(q)' = ValAt(q)
  BY <1>1, <1>2, <1>3, <1>4, <1>5, OpenView DEF Stands, Present, Valid
<1>6. ASSUME pc[q] = "state", Present(q, i[q])', ValAt(q)' # found[q] PROVE None \in seen'[q]
  BY <1>5, <1>6 DEF Compared
<1>7. ASSUME pc[q] = "again" \/ (pc[q] = "key" /\ KeyAt(q)' = call[q].key)
      PROVE  /\ ~Present(q, i[q])' \/ ValAt(q)' # found[q] => None \in seen'[q]
             /\ ValAt(q)' = found[q] => found[q] \in seen'[q]
  <2>1. TakenSince(q)
    BY <1>7 DEF Compared
  <2>2. CASE KeyAt(q)' = KeyAt(q) /\ ValAt(q)' = ValAt(q)
    BY <1>3, <1>5, <1>7, <2>2 DEF Compared
  <2>3. CASE ~(KeyAt(q)' = KeyAt(q) /\ ValAt(q)' = ValAt(q))
    <3>1. /\ empty_index[p] # None /\ empty_index[p] = i[q] /\ Bin(p) = Bin(q)
          /\ ValAt(q)' = call[p].val
          /\ KeyAt(q)' = KeyAt(q) \/ (KeyAt(q)' = call[p].key /\ ValAt(q) = call[p].val)
      BY <1>3, <1>4, <2>3, SlotChanges
    <3>2. /\ call[p].val # found[q]
          /\ call[p].key = call[q].key => None \in seen[q]
      BY <2>1, <3>1 DEF TakenSince
    <3>3. ASSUME None \notin seen'[q] PROVE Present(q, i[q])' /\ ValAt(q)' = found[q]
      <4>1. None \notin seen[q] /\ KeyAt(q)' = KeyAt(q)
        <5>1. ASSUME KeyAt(q)' # KeyAt(q) PROVE FALSE
          <6>1. KeyAt(q)' = call[p].key /\ KeyAt(q)' # call[q].key
            BY <1>3, <3>1, <3>2, <3>3, <5>1
          <6>2. pc[q] = "again"
            BY <1>7, <6>1
          <6>3. Present(q, i[q])
            BY <1>3, <3>3, <6>2 DEF Compared
          <6>4. KeyAt(q) = call[q].key /\ Present(q, i[q])'
            BY <1>3, <1>4, <1>5, <3>3, <6>3 DEF Present
          <6> QED
            BY <1>1, <1>4, <6>1, <6>4 DEF Present, Stands
        <5> QED
          BY <1>5, <3>3, <5>1
      <4> QED
        BY <1>5, <1>7, <3>3, <4>1 DEF Compared
    <3> QED
      BY <3>1, <3>2, <3>3
  <2> QED
    BY <2>2, <2>3
<1>8. ASSUME pc[q] \in {"key", "again"} PROVE TakenSince(q)'
  BY <1>1, <1>2, <1>8, TakenSinceStep DEF Stands, Compared
<1> QED
  BY <1>1, <1>6, <1>7, <1>8 DEF Stands, Compared

(* What the search knows that moves.                                        *)
LEMMA ComparedMoves ==
  ASSUME IndInv, IndInv', FreshValues, SeenNow, NEW p \in Threads, Invoke(p) \/ Work(p),
         Removes(p), Watch, Compared(p)
  PROVE  Compared(p)'
<1> SUFFICES ASSUME pc'[p] \in {"state", "key", "again"} PROVE Compared(p)'
  BY DEF Compared
<1>0. TypeOK /\ Phases /\ ReservationsOwned /\ Filled /\ UniqueKeys
  BY DEF IndInv
<1>1. Work(p)
  BY <1>0, InvokeCall
<1>2. /\ call' = call /\ snapshot' = snapshot /\ key' = key /\ val' = val
      /\ \/ Snapshot(p) /\ i'[p] = 1 /\ pc'[p] = "val"
         \/ /\ SearchVal(p) /\ i'[p] = i[p] /\ found'[p] = ValAt(p)
            /\ pc[p] = "val" /\ pc'[p] = "state"
         \/ /\ SearchState(p) /\ StateAt(p) = MAP_VALID /\ i'[p] = i[p] /\ found'[p] = found[p]
            /\ pc[p] = "state" /\ pc'[p] = "key"
         \/ /\ SearchKey(p) /\ KeyAt(p) = call[p].key /\ i'[p] = i[p] /\ found'[p] = found[p]
            /\ pc[p] = "key" /\ pc'[p] = "again"
         \/ /\ ~Present(p, i[p]) /\ i'[p] = i[p] + 1
            /\ pc[p] \in {"state", "key"} /\ pc'[p] = "val"
  BY <1>1, SearchSteps
<1>3. Opened(p)
  BY <1>0, <1>2 DEF Opened, Phases, Snapshot
<1>4. /\ Bin(p) \in Bins /\ i[p] \in Slots /\ Bin(p)' = Bin(p)
      /\ seen[p] \subseteq seen'[p] /\ call[p].key \in Keys
      /\ AbsMap[call[p].key] \in seen[p]
  BY <1>0, <1>3, BinType, StaysOpen DEF TypeOK
<1>5. i'[p] = i[p] => /\ KeyAt(p)' = KeyAt(p) /\ ValAt(p)' = ValAt(p)
                      /\ Present(p, i[p])' <=> Present(p, i[p])
  BY <1>2, <1>4 DEF KeyAt, ValAt, Present, Valid
<1>6. CASE SearchVal(p)
  BY <1>2, <1>5, <1>6 DEF Compared, SearchVal
<1>7. CASE SearchState(p) /\ pc'[p] = "key" /\ StateAt(p) = MAP_VALID
  <2>1. /\ i'[p] = i[p] /\ found'[p] = found[p] /\ pc[p] = "state" /\ pc'[p] = "key"
    BY <1>2, <1>7 DEF SearchState
  <2>2. \A r \in Threads : ~(empty_index[r] # None /\ empty_index[r] = i[p] /\ Bin(r) = Bin(p))
    BY <1>7 DEF ReservationsOwned, IndInv, StateAt, MAP_VALID, MAP_INSRT
  <2>3. TakenSince(p)'
    <3>1. empty_index' = empty_index /\ \A r \in Threads : Bin(r)' = Bin(r)
      BY <1>2, <1>7 DEF SearchState, Bin, clht_hash
    <3> QED
      BY <2>1, <2>2, <3>1 DEF TakenSince
  <2>4. ASSUME KeyAt(p) = call[p].key
        PROVE  Present(p, i[p]) /\ (ValAt(p) = found[p] => found[p] \in seen[p])
    <3>1. Present(p, i[p])
      BY <1>7, <2>4 DEF Present, Valid, KeyAt, StateAt
    <3>2. i[p] \in ValidSlots(call[p].key)
      BY <1>4, <3>1, PresentSlots
    <3>3. AbsMap[call[p].key] = ValAt(p)
      BY <1>0, <1>4, <3>2, MapValue DEF ValAt, Bin
    <3> QED
      BY <1>4, <3>1, <3>3
  <2> QED
    BY <1>2, <1>4, <1>5, <2>1, <2>3, <2>4 DEF Compared
<1>8. CASE SearchKey(p) /\ pc'[p] = "again"
  <2>1. /\ i'[p] = i[p] /\ found'[p] = found[p] /\ pc[p] = "key" /\ KeyAt(p) = call[p].key
    BY <1>2, <1>8 DEF SearchKey
  <2>2. TakenSince(p)'
    <3>1. ~Reserve(p)
      BY <1>8 DEF SearchKey, Reserve
    <3> QED
      BY <1>3, <2>1, <3>1, TakenSinceStep DEF Compared
  <2> QED
    BY <1>4, <1>5, <1>8, <2>1, <2>2 DEF Compared
<1> QED
  BY <1>2, <1>6, <1>7, <1>8

(* A remove looks at the entry that is there under the version it knows.    *)
LEMMA RemovesStep ==
  ASSUME IndInv, NEW p \in Threads, Invoke(p) \/ Work(p), NEW q \in Threads, Removes(q)
  PROVE  Removes(q)'
<1> SUFFICES ASSUME pc'[q] \in Removing PROVE Removes(q)'
  BY DEF Removes
<1>0. TypeOK /\ Phases /\ ReservationsOwned
  BY DEF IndInv
<1>1. Bin(q) \in Bins /\ i[q] \in Slots /\ s[q].version \in Nat
  BY <1>0, BinType DEF TypeOK, Snapshots
<1>2. /\ snapshot[Bin(q)].version \in Nat /\ snapshot'[Bin(q)].version \in Nat
      /\ snapshot[Bin(q)].version <= snapshot'[Bin(q)].version
  BY <1>0, <1>1, VersionGrows
<1>3. CASE q # p
  <2>1. Stands(q)
    BY <1>0, <1>3, OthersStand
  <2>2. /\ pc[q] \in Removing /\ s[q].version <= snapshot[Bin(q)].version
        /\ s[q].version = snapshot[Bin(q)].version /\ Valid(q, i[q]) =>
             /\ pc[q] \in {"rval", "rcas"} => KeyAt(q) = call[q].key
             /\ pc[q] = "rcas" => ValAt(q) = found[q]
    BY <2>1 DEF Stands, Removes
  <2>3. s[q].version <= snapshot'[Bin(q)].version
    BY <1>1, <1>2, <2>2
  <2>4. ASSUME s[q].version = snapshot'[Bin(q)].version, Valid(q, i[q])'
        PROVE  /\ s[q].version = snapshot[Bin(q)].version /\ Valid(q, i[q])
               /\ KeyAt(q)' = KeyAt(q) /\ ValAt(q)' = ValAt(q)
    <3>1. s[q].version = snapshot[Bin(q)].version
      BY <1>1, <1>2, <2>2, <2>4
    <3>2. ~(Publish(p) /\ Bin(q) = Bin(p))
      BY <1>0, <1>1, <2>4, <3>1, VersionGrows
    <3>3. snapshot'[Bin(q)].map[i[q]] = MAP_VALID
      BY <2>1, <2>4 DEF Valid, Stands
    <3>4. snapshot[Bin(q)].map[i[q]] = MAP_VALID
      BY <1>0, <1>1, <3>2, <3>3, ValidComes
    <3>5. /\ key'[Bin(q)][i[q]] = key[Bin(q)][i[q]]
          /\ val'[Bin(q)][i[q]] = val[Bin(q)][i[q]]
      BY <1>0, <1>1, <3>4, ValidStands
    <3> QED
      BY <2>1, <3>1, <3>4, <3>5 DEF Valid, KeyAt, ValAt, Stands
  <2> QED
    BY <2>1, <2>2, <2>3, <2>4 DEF Removes, Stands, Valid
<1>4. CASE q = p
  <2>1. Work(p)
    BY <1>0, <1>4, InvokeCall DEF Removing
  <2>2. /\ call' = call /\ snapshot' = snapshot /\ key' = key /\ val' = val
        /\ \/ Snapshot(p) /\ i'[p] = 1 /\ pc'[p] = "rkey" /\ s'[p] = snapshot[Bin(p)]
           \/ /\ s'[p] = s[p] /\ pc[p] = "rkey" /\ pc'[p] = "rval" /\ i'[p] = i[p]
              /\ KeyAt(p) = call[p].key
           \/ /\ s'[p] = s[p] /\ pc[p] = "rkey" /\ pc'[p] = "rkey" /\ i'[p] = i[p] + 1
              /\ KeyAt(p) # call[p].key \/ s[p].map[i[p]] # MAP_VALID
           \/ /\ s'[p] = s[p] /\ pc[p] = "rval" /\ pc'[p] = "rcas" /\ i'[p] = i[p]
              /\ found'[p] = ValAt(p)
    BY <1>4, <2>1, RemoveSteps
  <2>3. Bin(p)' = Bin(p)
    BY <2>2 DEF Bin, clht_hash
  <2>4. i'[p] = i[p] => /\ KeyAt(p)' = KeyAt(p) /\ ValAt(p)' = ValAt(p)
                        /\ Valid(p, i[p])' <=> Valid(p, i[p])
    BY <2>2, <2>3 DEF KeyAt, ValAt, Valid
  <2>5. pc[p] \in {"rkey", "rval"} => s[p].version <= snapshot[Bin(p)].version
    BY <1>4 DEF Removes, Removing
  <2>6. s'[p].version <= snapshot'[Bin(p)].version
    BY <1>1, <1>2, <1>4, <2>2, <2>5
  <2>7. CASE pc'[p] = "rkey"
    BY <1>4, <2>3, <2>6, <2>7 DEF Removes
  <2>8. CASE pc'[p] = "rval"
    BY <1>4, <2>2, <2>3, <2>4, <2>6, <2>8 DEF Removes
  <2>9. CASE pc'[p] = "rcas"
    <3>1. /\ s'[p] = s[p] /\ pc[p] = "rval" /\ i'[p] = i[p] /\ found'[p] = ValAt(p)
      BY <2>2, <2>9
    <3>2. s[p].version = snapshot[Bin(p)].version /\ Valid(p, i[p]) => KeyAt(p) = call[p].key
      BY <1>4, <3>1 DEF Removes, Removing
    <3> QED
      BY <1>4, <2>2, <2>3, <2>4, <2>6, <2>9, <3>1, <3>2 DEF Removes
  <2> QED
    BY <1>4, <2>7, <2>8, <2>9 DEF Removing
<1> QED
  BY <1>3, <1>4

(* The value that a search ends with is one the key had.                    *)
LEMMA AgainFound ==
  ASSUME NEW p \in Threads, SearchAgain(p), Compared(p)
  PROVE  /\ ValAt(p) = found[p] => found[p] \in seen[p]
         /\ ValAt(p) # found[p] => None \in seen[p]
BY DEF SearchAgain, Compared

(* No result before the call is done; a put gives its slot back only if it  *)
(* has found its key.                                                       *)
LEMMA UnansweredStep ==
  ASSUME IndInv, SeenNow, NEW p \in Threads, Invoke(p) \/ Work(p), Watch,
         NEW q \in Threads, Compared(q), Unanswered(q)
  PROVE  Unanswered(q)'
<1>0. TypeOK /\ Phases
  BY DEF IndInv
<1>1. ASSUME pc'[q] = "giveback", pc[q] # "idle" PROVE seen[q] \subseteq seen'[q]
  <2>1. call[q] # Idle
    BY <1>0, <1>1 DEF Phases
  <2>2. call'[q] # Idle
    <3>1. ~(q = p /\ Return(p))
      BY <1>0, <1>1 DEF Return, Goto, TypeOK
    <3> QED
      BY <1>0, <2>1, <3>1, CallStays, InvokeCall
  <2> QED
    BY <2>1, <2>2, StaysOpen DEF Opened
<1>2. CASE q # p
  BY <1>0, <1>1, <1>2, OthersStand, OthersKeepRet DEF Stands, Unanswered
<1>3. CASE q = p
  <2> USE DEF Goto
  <2>1. pc \in [Threads -> Labels] /\ ret \in [Threads -> Vals \cup {None}]
    BY <1>0 DEF TypeOK
  <2>2. ASSUME pc'[p] = "giveback" PROVE seen[p] \cap Vals # {} /\ pc[p] # "idle"
    <3>1. SearchAgain(p) /\ ValAt(p) = found[p] /\ found[p] # None
      <4>1. CASE clht_bucket_search(p)
        BY <2>1, <2>2, <4>1 DEF clht_bucket_search, SearchVal, SearchState, SearchKey,
           SearchAgain, Searched, NextSlot
      <4>2. CASE clht_put(p)
        BY <2>1, <2>2, <4>2 DEF clht_put, PutFull, Reserve, ReserveFails, PutVal, PutKey,
           Publish, PublishFails, GiveBack, SwapFails
      <4>3. CASE Return(p) \/ Snapshot(p) \/ clht_remove(p)
        BY <2>1, <2>2, <4>3 DEF Return, Snapshot, clht_remove, RemoveKey, RemoveVal, Remove,
           RemoveFails, SwapFails
      <4>4. CASE Invoke(p)
        BY <1>0, <2>2, <4>4, InvokeCall
      <4> QED
        BY <4>1, <4>2, <4>3, <4>4 DEF Work
    <3>2. found[p] \in Vals /\ found[p] \in seen[p]
      BY <1>0, <1>3, <3>1, AgainFound DEF TypeOK
    <3> QED
      BY <3>1, <3>2 DEF SearchAgain
  <2>3. ASSUME pc'[p] # "done" PROVE ret'[p] = None
    <3>1. CASE clht_bucket_search(p)
      <4>1. pc[p] # "done"
        BY <3>1 DEF clht_bucket_search, SearchVal, SearchState, SearchKey, SearchAgain
      <4> QED
        BY <1>3, <2>1, <2>3, <3>1, <4>1 DEF clht_bucket_search, SearchVal, SearchState,
           SearchKey, SearchAgain, Searched, NextSlot, Unanswered
    <3>2. CASE clht_put(p)
      BY <1>3, <2>1, <2>3, <3>2 DEF clht_put, PutFull, Reserve, ReserveFails, PutVal, PutKey,
         Publish, PublishFails, GiveBack, SwapFails, Unanswered
    <3>3. CASE Snapshot(p) \/ clht_remove(p)
      BY <1>3, <2>1, <2>3, <3>3 DEF Snapshot, clht_remove, RemoveKey, RemoveVal, Remove,
         RemoveFails, SwapFails, Unanswered
    <3>4. CASE Return(p) \/ Invoke(p)
      BY <1>3, <2>1, <3>4 DEF Return, Invoke, Unanswered
    <3> QED
      BY <3>1, <3>2, <3>3, <3>4 DEF Work
  <2> QED
    BY <1>1, <1>3, <2>2, <2>3 DEF Unanswered
<1> QED
  BY <1>2, <1>3
-----------------------------------------------------------------------------
(* AnswersInv holds at first.                                               *)
LEMMA InitAnswers == Init => AnswersInv
<1> SUFFICES ASSUME Init PROVE AnswersInv
  OBVIOUS
<1>1. /\ \A p \in Threads : pc[p] = "idle" /\ call[p] = Idle /\ ret[p] = None /\ found[p] = 0
                            /\ call[p].val = 0 /\ seen[p] = {}
      /\ \A b \in Bins, j \in Slots : val[b][j] = 0
      /\ puts = 0
  BY DEF Init, Idle, None
<1>2. ASSUME NEW p \in Threads PROVE ~Pending(p)
  <2>1. Idle.op # "put"
    BY DEF Idle
  <2> QED
    BY <1>1, <2>1 DEF Pending
<1>3. FreshValues
  BY <1>1, <1>2 DEF FreshValues
<1>4. SeenNow /\ NotMissed
  BY <1>1 DEF SeenNow, NotMissed
<1>5. \A p \in Threads : Compared(p) /\ Removes(p) /\ Unanswered(p)
  BY <1>1 DEF Compared, Removes, Removing, Unanswered
<1> QED
  BY <1>3, <1>4, <1>5 DEF AnswersInv

(* It is inductive together with IndInv.                                    *)
LEMMA StepAnswers == IndInv /\ AnswersInv /\ [Next]_vars => AnswersInv'
<1> SUFFICES ASSUME IndInv, AnswersInv, [Next]_vars PROVE AnswersInv'
  OBVIOUS
<1>1. /\ IndInv' /\ TypeOK /\ Phases /\ FreshValues /\ SeenNow /\ NotMissed
      /\ \A q \in Threads : Compared(q) /\ Removes(q) /\ Unanswered(q)
  BY StepInv DEF IndInv, AnswersInv
<1>2. CASE Next
  <2>1. PICK p \in Threads : Invoke(p) \/ Work(p)
    BY <1>2 DEF Next
  <2>2. Watch
    BY <1>2 DEF Next
  <2>3. FreshValues'
    BY <1>1, <2>1, FreshValuesStep
  <2>4. SeenNow'
    BY <1>1, <2>1, <2>2, SeenNowStep
  <2>5. NotMissed'
    BY <1>1, <2>1, <2>2, <2>4, NotMissedStep
  <2>6. ASSUME NEW q \in Threads PROVE Compared(q)'
    BY <1>1, <2>1, <2>2, ComparedStands, ComparedMoves
  <2>7. ASSUME NEW q \in Threads PROVE Removes(q)' /\ Unanswered(q)'
    BY <1>1, <2>1, <2>2, RemovesStep, UnansweredStep
  <2> QED
    BY <2>3, <2>4, <2>5, <2>6, <2>7 DEF AnswersInv
<1>3. CASE UNCHANGED vars
  <2> USE <1>3 DEF vars, bucket
  <2>1. AbsMap' = AbsMap
    BY DEF AbsMap, ValidSlots, clht_hash
  <2>2. ASSUME NEW q \in Threads
        PROVE  /\ Bin(q)' = Bin(q) /\ KeyAt(q)' = KeyAt(q) /\ ValAt(q)' = ValAt(q)
               /\ Pending(q)' = Pending(q)
               /\ \A j : Present(q, j)' = Present(q, j) /\ Valid(q, j)' = Valid(q, j)
    BY DEF Bin, clht_hash, KeyAt, ValAt, Pending, Present, Valid
  <2>3. FreshValues' /\ SeenNow'
    BY <1>1, <2>1, <2>2 DEF FreshValues, SeenNow
  <2>4. NotMissed'
    BY <1>1, <2>2 DEF NotMissed
  <2>5. ASSUME NEW q \in Threads PROVE Compared(q)'
    <3>1. TakenSince(q)' = TakenSince(q)
      BY <2>2 DEF TakenSince
    <3> QED
      BY <1>1, <2>2, <3>1 DEF Compared
  <2>6. ASSUME NEW q \in Threads PROVE Removes(q)' /\ Unanswered(q)'
    BY <1>1, <2>2 DEF Removes, Unanswered
  <2> QED
    BY <2>3, <2>4, <2>5, <2>6 DEF AnswersInv
<1> QED
  BY <1>2, <1>3

(* What a call knows of its answer, in every reachable state: a search that *)
(* has passed its key by has seen it missing, a value read twice was the    *)
(* value of the key during the call, the value a remove returns is that of  *)
(* the slot its CAS takes.                                                  *)
THEOREM AnswersInvariance == Spec => []AnswersInv
<1>1. IndInv /\ AnswersInv /\ [Next]_vars => IndInv' /\ AnswersInv'
  BY StepInv, StepAnswers
<1> QED
  BY <1>1, InitInv, InitAnswers, PTL DEF Spec
-----------------------------------------------------------------------------
(* The refinement of the atomic map: its variables, as named functions.     *)
StageMap == [p \in Threads |-> Stage(p)]
ResMap   == [p \in Threads |-> IF Stage(p) = "done" THEN ret[p] ELSE None]

(* The steps that change the map.                                           *)
Applies(p) == Publish(p) \/ Remove(p)

(* A step of p changes what the map knows of p only.                        *)
LEMMA StageSteps ==
  ASSUME TypeOK, NEW p \in Threads, Invoke(p) \/ Work(p)
  PROVE  /\ StageMap' = [StageMap EXCEPT ![p] = Stage(p)']
         /\ ResMap' = [ResMap EXCEPT ![p] = IF Stage(p)' = "done" THEN ret'[p] ELSE None]
<1>1. StageMap'[p] = Stage(p)' /\ ResMap'[p] = IF Stage(p)' = "done" THEN ret'[p] ELSE None
  BY DEF StageMap, ResMap
<1>2. ASSUME NEW q \in Threads, q # p
      PROVE  StageMap'[q] = StageMap[q] /\ ResMap'[q] = ResMap[q]
  <2>1. Stands(q) /\ ret'[q] = ret[q]
    BY <1>2, OthersStand, OthersKeepRet
  <2>2. Stage(q)' = Stage(q)
    BY <2>1 DEF Stands, Stage
  <2> QED
    BY <2>1, <2>2 DEF StageMap, ResMap
<1>3. /\ StageMap = [q \in Threads |-> StageMap[q]] /\ StageMap' = [q \in Threads |-> StageMap'[q]]
      /\ ResMap = [q \in Threads |-> ResMap[q]] /\ ResMap' = [q \in Threads |-> ResMap'[q]]
  BY DEF StageMap, ResMap
<1> HIDE DEF StageMap, ResMap
<1> QED
  BY <1>1, <1>2, <1>3

(* A step that opens no call, closes none and is not one of Applies answers *)
(* the call, or leaves it open.                                             *)
LEMMA WorkOpen ==
  ASSUME TypeOK, Phases, NEW p \in Threads, Work(p), ~Return(p)
  PROVE  /\ pc[p] \notin {"idle", "done"} /\ pc'[p] # "idle" /\ call' = call
<1> USE DEF Goto
<1>1. pc \in [Threads -> Labels]
  BY DEF TypeOK
<1>2. CASE clht_bucket_search(p)
  BY <1>1, <1>2 DEF clht_bucket_search, SearchVal, SearchState, SearchKey, SearchAgain, Searched,
     NextSlot
<1>3. CASE clht_put(p)
  BY <1>1, <1>3 DEF clht_put, PutFull, Reserve, ReserveFails, PutVal, PutKey, Publish,
     PublishFails, GiveBack, SwapFails
<1>4. CASE Snapshot(p) \/ clht_remove(p)
  BY <1>1, <1>4 DEF Snapshot, clht_remove, RemoveKey, RemoveVal, Remove, RemoveFails, SwapFails
<1>5. call' = call
  BY CallStands
<1> QED
  BY <1>2, <1>3, <1>4, <1>5 DEF Work

(* The map watches its calls as the table does.                             *)
LEMMA KVWatch == Watch => KV!Watch
BY DEF Watch, KV!Watch, KV!Idle, Idle, KV!None, None

(* A step that leaves its call open is none of the map.                     *)
LEMMA WayStutters ==
  ASSUME IndInv, IndInv', AnswersInv, NEW p \in Threads, Work(p), ~Return(p), ~Applies(p), Watch,
         pc'[p] # "done"
  PROVE  UNCHANGED <<AbsMap, call, StageMap, ResMap, seen>>
<1>0. TypeOK /\ Phases /\ Removes(p)
  BY DEF IndInv, AnswersInv
<1>1. AbsMap' = AbsMap /\ call' = call
  BY <1>0, AbsStep, WorkOpen DEF Applies
<1>2. Stage(p) = "open" /\ Stage(p)' = "open"
  BY <1>0, WorkOpen DEF Stage
<1>3. StageMap' = [StageMap EXCEPT ![p] = "open"] /\ ResMap' = [ResMap EXCEPT ![p] = None]
  BY <1>0, <1>2, StageSteps
<1>4. StageMap' = StageMap /\ ResMap' = ResMap
  BY <1>2, <1>3 DEF StageMap, ResMap
<1>5. seen' = seen
  <2>1. ASSUME NEW q \in Threads PROVE seen'[q] = seen[q]
    BY <1>1 DEF Watch, AnswersInv, SeenNow
  <2>2. seen \in [Threads -> SUBSET (Vals \cup {None})] /\ DOMAIN seen' = Threads
    BY DEF IndInv, TypeOK
  <2>3. seen' = [q \in Threads |-> seen'[q]]
    BY DEF Watch
  <2> QED
    BY <2>1, <2>2, <2>3
<1> QED
  BY <1>1, <1>4, <1>5

(* A call opens.                                                            *)
LEMMA InvokeImplements ==
  ASSUME IndInv, IndInv', AnswersInv, NEW p \in Threads, Invoke(p)
  PROVE  KV!KVInvoke(p)
<1>0. TypeOK /\ Phases /\ Removes(p)
  BY DEF IndInv, AnswersInv
<1>1. PICK c \in Calls : call' = [call EXCEPT ![p] = c]
  BY DEF Invoke
<1>2. pc[p] = "idle" /\ pc'[p] \in {"val", "snapshot"}
  BY <1>0, InvokeCall DEF Invoke
<1>3. AbsMap' = AbsMap
  BY <1>0, <1>2, AbsStep DEF Publish, Remove
<1>4. Stage(p) = "idle" /\ Stage(p)' = "open"
  BY <1>2 DEF Stage
<1>5. /\ StageMap[p] = "idle" /\ StageMap' = [StageMap EXCEPT ![p] = "open"]
      /\ ResMap' = [ResMap EXCEPT ![p] = None]
  BY <1>0, <1>4, StageSteps DEF StageMap
<1>6. ResMap' = ResMap
  BY <1>4, <1>5 DEF ResMap
<1>7. c \in KV!Calls
  BY DEF Calls, KV!Calls, KV!None, None
<1> QED
  BY <1>1, <1>3, <1>5, <1>6, <1>7 DEF KV!KVInvoke, StageMap, ResMap

(* A call returns.                                                          *)
LEMMA ReturnImplements ==
  ASSUME IndInv, IndInv', AnswersInv, NEW p \in Threads, Return(p)
  PROVE  KV!KVReturn(p)
<1>0. TypeOK /\ Removes(p) /\ Work(p)
  BY DEF IndInv, AnswersInv, Work
<1>1. AbsMap' = AbsMap
  <2>1. ~Publish(p) /\ ~Remove(p)
    BY DEF Return, Publish, Remove
  <2> QED
    BY <1>0, <2>1, AbsStep
<1>2. Stage(p) = "done" /\ Stage(p)' = "idle"
  BY <1>0 DEF Return, Goto, Stage, TypeOK
<1>3. /\ StageMap[p] = "done" /\ StageMap' = [StageMap EXCEPT ![p] = "idle"]
      /\ ResMap' = [ResMap EXCEPT ![p] = None]
  BY <1>0, <1>2, StageSteps DEF StageMap
<1>4. call' = [call EXCEPT ![p] = KV!Idle]
  BY DEF Return, Idle, KV!Idle, KV!None, None
<1> QED
  BY <1>1, <1>3, <1>4 DEF KV!KVReturn, StageMap, ResMap, KV!None, None

(* A put or remove takes effect, and is done.                               *)
LEMMA ApplyImplements ==
  ASSUME IndInv, IndInv', AnswersInv, NEW p \in Threads, Applies(p)
  PROVE  KV!KVApply(p)
<1>0. TypeOK /\ Phases /\ Removes(p) /\ Work(p)
  BY DEF IndInv, AnswersInv, Applies, Work, clht_put, clht_remove
<1>1. pc[p] \in {"publish", "rcas"} /\ pc'[p] = "done" /\ call' = call
  BY <1>0 DEF Applies, Publish, Remove, Goto, TypeOK
<1>2. Stage(p) = "open" /\ Stage(p)' = "done"
  BY <1>1 DEF Stage
<1>3. /\ StageMap[p] = "open" /\ StageMap' = [StageMap EXCEPT ![p] = "done"]
      /\ ResMap' = [ResMap EXCEPT ![p] = ret'[p]]
  BY <1>0, <1>2, StageSteps DEF StageMap
<1>4. CASE Publish(p)
  <2>1. /\ call[p].op = "put" /\ AbsMap[call[p].key] = None
        /\ AbsMap' = [AbsMap EXCEPT ![call[p].key] = call[p].val]
    BY <1>0, <1>4, PublishFresh, AbsStep
  <2>2. ret'[p] = call[p].val
    BY <1>0, <1>4 DEF Publish, TypeOK
  <2> QED
    BY <1>1, <1>3, <2>1, <2>2 DEF KV!KVApply, StageMap, ResMap, KV!None, None
<1>5. CASE Remove(p)
  <2>1. /\ call[p].op = "remove" /\ AbsMap[call[p].key] = found[p] /\ found[p] # None
        /\ AbsMap' = [AbsMap EXCEPT ![call[p].key] = None]
    BY <1>0, <1>5, RemoveRight, AbsStep
  <2>2. ret'[p] = found[p]
    BY <1>0, <1>5 DEF Remove, TypeOK
  <2> QED
    BY <1>1, <1>3, <2>1, <2>2 DEF KV!KVApply, StageMap, ResMap, KV!None, None
<1> QED
  BY <1>4, <1>5 DEF Applies

(* The answer a call gives without a change is right by what it has seen.   *)
LEMMA AnswerRight ==
  ASSUME IndInv, AnswersInv, NEW p \in Threads, Work(p), ~Return(p), ~Applies(p), pc'[p] = "done"
  PROVE  KV!Justified(p, ret'[p])
<1> USE DEF KV!Justified, KV!None, None, Goto
<1>1. /\ pc \in [Threads -> Labels] /\ ret \in [Threads -> Vals \cup {None}]
      /\ i \in [Threads -> Slots] /\ found[p] \in Vals \cup {None}
      /\ pc[p] \in Searching => call[p].op \in {"get", "put"}
      /\ pc[p] \in Removing => call[p].op = "remove"
      /\ pc[p] = "giveback" => call[p].op = "put"
      /\ pc[p] # "done" => ret[p] = None
      /\ pc[p] = "giveback" => seen[p] \cap Vals # {}
      /\ Compared(p)
  <2>1. TypeOK /\ Phases /\ Compared(p) /\ Unanswered(p)
    BY DEF IndInv, AnswersInv
  <2>2. ASSUME pc[p] \in Searching PROVE call[p].op \in {"get", "put"}
    <3>1. call[p] # Idle /\ call[p].op # "remove"
      BY <2>1, <2>2 DEF Phases, Searching
    <3>2. call[p] \in Calls
      BY <2>1, <3>1 DEF TypeOK
    <3> QED
      BY <3>1, <3>2 DEF Calls
  <2>3. /\ pc[p] \in Removing => call[p].op = "remove"
        /\ pc[p] = "giveback" => call[p].op = "put"
    BY <2>1 DEF Phases, Holding
  <2> QED
    BY <2>1, <2>2, <2>3 DEF TypeOK, Unanswered
<1>2. ASSUME ~Present(p, i[p]), pc[p] \in {"state", "key"}, ~(i[p] < KEY_BUCKT)
      PROVE  None \in seen[p]
  <2>1. \A j \in Slots : i[p] <= j => j = i[p]
    BY <1>1, <1>2, BucketsAssumption DEF Slots
  <2> QED
    BY <1>2, <2>1 DEF AnswersInv, NotMissed
<1>3. ASSUME Searched(p, None), pc[p] \in Searching, None \in seen[p]
      PROVE  KV!Justified(p, ret'[p])
  <2>1. call[p].op = "get"
    BY <1>1, <1>3 DEF Searched
  <2> QED
    BY <1>1, <1>3, <2>1 DEF Searched
<1>4. ASSUME NextSlot(p), pc[p] \in {"state", "key"}, ~Present(p, i[p])
      PROVE  KV!Justified(p, ret'[p])
  <2>1. ~(i[p] < KEY_BUCKT) /\ Searched(p, None)
    BY <1>1, <1>4 DEF NextSlot
  <2> QED
    BY <1>2, <1>3, <1>4, <2>1 DEF Searching
<1>5. CASE SearchVal(p) \/ Snapshot(p)
  BY <1>1, <1>5 DEF SearchVal, Snapshot
<1>6. CASE SearchState(p)
  BY <1>1, <1>4, <1>6 DEF SearchState, StateAt, Present, Valid
<1>7. CASE SearchKey(p)
  BY <1>1, <1>4, <1>7 DEF SearchKey, KeyAt, Present
<1>8. CASE SearchAgain(p)
  <2>1. pc[p] \in Searching
    BY <1>8 DEF SearchAgain, Searching
  <2>2. CASE ValAt(p) # found[p]
    BY <1>1, <1>3, <1>8, <2>1, <2>2, AgainFound DEF SearchAgain
  <2>3. CASE ValAt(p) = found[p]
    <3>1. found[p] \in seen[p] /\ Searched(p, found[p])
      BY <1>1, <1>8, <2>3, AgainFound DEF SearchAgain
    <3>2. CASE call[p].op = "get"
      BY <1>1, <3>1, <3>2 DEF Searched
    <3>3. CASE call[p].op = "put"
      <4>1. found[p] # None /\ ret'[p] = None
        BY <1>1, <3>1, <3>3 DEF Searched
      <4> QED
        BY <1>1, <3>1, <3>3, <4>1
    <3> QED
      BY <1>1, <2>1, <3>2, <3>3
  <2> QED
    BY <2>2, <2>3
<1>9. CASE clht_put(p)
  <2>1. GiveBack(p)
    BY <1>1, <1>9 DEF clht_put, PutFull, Reserve, ReserveFails, PutVal, PutKey, Publish,
       PublishFails, SwapFails, Applies
  <2> QED
    BY <1>1, <2>1 DEF GiveBack
<1>10. CASE clht_remove(p)
  <2>1. RemoveKey(p) /\ ~(KeyAt(p) = call[p].key /\ s[p].map[i[p]] = MAP_VALID)
                     /\ ~(i[p] < KEY_BUCKT) /\ pc[p] = "rkey" /\ ret' = ret
    BY <1>1, <1>10 DEF clht_remove, RemoveKey, RemoveVal, Remove, RemoveFails, SwapFails, Applies
  <2>2. \A j \in Slots : i[p] <= j => j = i[p]
    BY <1>1, <2>1, BucketsAssumption DEF Slots
  <2>3. None \in seen[p]
    BY <2>1, <2>2 DEF AnswersInv, NotMissed, Present, KeyAt
  <2> QED
    BY <1>1, <2>1, <2>3 DEF Removing
<1> QED
  BY <1>5, <1>6, <1>7, <1>8, <1>9, <1>10 DEF Work, clht_bucket_search

(* A call is done without a change.                                         *)
LEMMA AnswerImplements ==
  ASSUME IndInv, IndInv', AnswersInv, NEW p \in Threads, Work(p), ~Return(p), ~Applies(p),
         pc'[p] = "done"
  PROVE  KV!KVAnswer(p)
<1>0. TypeOK /\ Phases /\ Removes(p)
  BY DEF IndInv, AnswersInv
<1>1. AbsMap' = AbsMap /\ call' = call
  BY <1>0, AbsStep, WorkOpen DEF Applies
<1>2. Stage(p) = "open" /\ Stage(p)' = "done"
  BY <1>0, WorkOpen DEF Stage
<1>3. /\ StageMap[p] = "open" /\ StageMap' = [StageMap EXCEPT ![p] = "done"]
      /\ ResMap' = [ResMap EXCEPT ![p] = ret'[p]]
  BY <1>0, <1>2, StageSteps DEF StageMap
<1>4. ret'[p] \in Vals \cup {KV!None} /\ KV!Justified(p, ret'[p])
  BY AnswerRight DEF IndInv, TypeOK, KV!None, None
<1> QED
  BY <1>1, <1>3, <1>4 DEF KV!KVAnswer, StageMap, ResMap

(* CLHT-LF is one atomic map: a put takes effect when it publishes its slot *)
(* and a remove with its CAS, and gets and refusals are right at some       *)
(* instant of their call, although searches look at the slots one by one    *)
(* and take no lock.                                                        *)
THEOREM IsAtomicMap == Spec => Linearizable
<1>1. Init => KV!KVInit
  <2> SUFFICES ASSUME Init PROVE KV!KVInit
    OBVIOUS
  <2>1. AbsMap = [k \in Keys |-> KV!None]
    <3>1. ASSUME NEW k \in Keys PROVE ValidSlots(k) = {}
      <4>1. clht_hash(k) \in Bins
        BY HashType, KeysAssumption
      <4> QED
        BY <4>1 DEF Init, ValidSlots, NoSnapshot, MAP_INVLD, MAP_VALID
    <3> QED
      BY <3>1 DEF AbsMap, KV!None, None
  <2>2. ASSUME NEW p \in Threads PROVE Stage(p) = "idle" /\ ret[p] = None
    <3>1. pc[p] = "idle" /\ ret[p] = None
      BY DEF Init
    <3> QED
      BY <3>1 DEF Stage
  <2>3. /\ StageMap = [p \in Threads |-> "idle"]
        /\ ResMap = [p \in Threads |-> KV!None]
    BY <2>2 DEF StageMap, ResMap, KV!None, None
  <2>4. /\ call = [p \in Threads |-> KV!Idle]
        /\ seen = [p \in Threads |-> {}]
    BY DEF Init, KV!Idle, KV!None, Idle, None
  <2> QED
    BY <2>1, <2>3, <2>4 DEF KV!KVInit, StageMap, ResMap
<1>2. ASSUME IndInv, IndInv', AnswersInv, [Next]_vars PROVE [KV!KVNext]_KV!kvVars
  <2>1. CASE UNCHANGED vars
    <3>1. AbsMap' = AbsMap /\ UNCHANGED <<call, seen>>
      BY <2>1 DEF vars, bucket, AbsMap, ValidSlots, clht_hash
    <3>2. UNCHANGED <<StageMap, ResMap>>
      BY <2>1 DEF vars, StageMap, ResMap, Stage
    <3> QED
      BY <3>1, <3>2 DEF KV!kvVars, StageMap, ResMap
  <2>2. CASE Next
    <3>1. PICK p \in Threads : Invoke(p) \/ Work(p)
      BY <2>2 DEF Next
    <3>2. Watch /\ KV!Watch
      BY <2>2, KVWatch DEF Next
    <3>3. CASE Invoke(p) \/ Return(p) \/ Applies(p) \/ (Work(p) /\ pc'[p] = "done")
      <4>1. KV!KVInvoke(p) \/ KV!KVApply(p) \/ KV!KVAnswer(p) \/ KV!KVReturn(p)
        BY <1>2, <3>3, InvokeImplements, ReturnImplements, ApplyImplements, AnswerImplements
      <4> QED
        BY <3>2, <4>1 DEF KV!KVNext
    <3>4. CASE Work(p) /\ ~Return(p) /\ ~Applies(p) /\ pc'[p] # "done"
      <4>1. UNCHANGED <<AbsMap, call, StageMap, ResMap, seen>>
        BY <1>2, <3>2, <3>4, WayStutters
      <4> QED
        BY <4>1 DEF KV!kvVars, StageMap, ResMap
    <3> QED
      BY <3>1, <3>3, <3>4
  <2> QED
    BY <1>2, <2>1, <2>2
<1> QED
  BY <1>1, <1>2, Invariance, AnswersInvariance, PTL DEF Spec, Linearizable, KV!KVSpec
=============================================================================
