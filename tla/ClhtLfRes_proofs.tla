------------------------- MODULE ClhtLfRes_proofs -------------------------
(***************************************************************************)
(* Proofs about ClhtLfRes, for every number of threads, keys, slots and     *)
(* tables: the types, that only a thread with the maximal version can be    *)
(* in a table that is copied or replaced, that the new table holds what the *)
(* old one holds, and that every answer is right, the last two unless an    *)
(* update was overtaken.  All follow from IndInv and AnswersInv.            *)
(***************************************************************************)
EXTENDS ClhtLfRes, FiniteSetTheorems, TLAPS

USE DEF None

(* A remainder by twice a size has the same remainder by the size.          *)
LEMMA ModTwice ==
  ASSUME NEW k \in Nat, NEW n \in Nat \ {0}
  PROVE  /\ k % n \in 0..(n - 1) /\ k % (2 * n) \in 0..((2 * n) - 1)
         /\ (k % (2 * n)) % n = k % n
<1> DEFINE q == k \div (2 * n)
           r == k % (2 * n)
<1>1. ASSUME NEW d \in Nat \ {0} PROVE k % d \in 0..(d - 1) /\ k = (k \div d) * d + (k % d)
                                       /\ k \div d \in Nat
  OBVIOUS
<1>2. 2 * n \in Nat \ {0}
  OBVIOUS
<1>3. q \in Nat /\ r \in 0..((2 * n) - 1) /\ k = q * (2 * n) + r
  BY <1>1, <1>2
<1>4. ASSUME NEW m \in Nat, NEW s \in 0..(n - 1) PROVE (m * n + s) % n = s
  OBVIOUS
<1> HIDE DEF q, r
<1>5. CASE r < n
  <2>1. r \in 0..(n - 1) /\ r % n = r
    BY <1>3, <1>5
  <2>2. k = (2 * q) * n + r /\ 2 * q \in Nat
    BY <1>3
  <2>3. k % n = r
    BY <1>4, <2>1, <2>2
  <2> QED
    BY <1>1, <1>3, <2>1, <2>3 DEF r
<1>6. CASE r >= n
  <2>1. r - n \in 0..(n - 1)
    BY <1>3, <1>6
  <2>2. r = 1 * n + (r - n) /\ r % n = r - n
    BY <1>4, <2>1, <1>3
  <2>3. k = (2 * q + 1) * n + (r - n) /\ 2 * q + 1 \in Nat
    BY <1>3
  <2>4. k % n = r - n
    BY <1>4, <2>1, <2>3
  <2> QED
    BY <1>1, <1>3, <2>2, <2>4 DEF r
<1> QED
  BY <1>3, <1>5, <1>6

(* Constants, and the first table.                                          *)
LEMMA Bounds ==
  /\ Slots \subseteq Nat /\ 0 \notin Slots /\ 0 \notin Keys /\ Keys \subseteq Nat
  /\ Tables \subseteq Nat /\ 1 \in Tables /\ MaxTables \in Tables
  /\ 0 \notin Vals /\ Vals \subseteq Nat
  /\ MAX_VERSION \in Nat
BY KeysAssumption, BucketsAssumption, BoundsAssumption DEF Slots, Tables, Vals, MAX_VERSION

(* The version of a table before its resize, and after, is below the        *)
(* maximum.                                                                 *)
LEMMA BaseBounds ==
  ASSUME NEW t \in Tables
  PROVE  /\ Base(t) \in Nat /\ Base(t) + 1 < MAX_VERSION /\ Base(t + 1) = Base(t) + 2
         /\ \A u \in 1..(t - 1) : Base(u) + 2 <= Base(t) /\ u \in Tables
BY BoundsAssumption DEF Base, Tables, MAX_VERSION

(* A call has a key, and a value or none.                                   *)
LEMMA CallTypes ==
  ASSUME NEW c \in Calls
  PROVE  c.key \in Keys /\ c.key \in Nat /\ c.val \in Vals \cup {0}
         /\ c.op \in {"put", "get", "remove"} /\ c # Idle
<1>1. Idle.op = "idle"
  BY DEF Idle
<1> QED
  BY <1>1, KeysAssumption DEF Calls

(* An entry in the bucket of its key has a key and a value.                 *)
LEMMA EntryTypes ==
  ASSUME NEW e \in Entry
  PROVE  /\ e.state \in {"INVLD", "INSRT", "VALID"}
         /\ e.state = "VALID" => e.key \in Keys /\ e.val \in Vals /\ e.val # 0
         /\ e = INVLD <=> e.state = "INVLD"
<1>1. INVLD.state = "INVLD" /\ INVLD \in Entry
  BY DEF INVLD, Entry
<1>2. CASE e = INVLD
  BY <1>1, <1>2
<1>3. CASE e \in [state : {"INSRT", "VALID"}, key : Keys, val : Vals]
  BY <1>1, <1>3, Bounds
<1> QED
  BY <1>2, <1>3 DEF Entry
-----------------------------------------------------------------------------
(* The tables of the type invariant.                                        *)
SizesOK ==
  /\ num_buckets \in [Tables -> Nat] /\ num_buckets[1] = InitBuckets
  /\ \A t \in Tables \ {1} : num_buckets[t] \in {0, 2 * num_buckets[t - 1]}
  /\ version \in [Tables -> 0..MAX_VERSION]
EntriesOK ==
  /\ table = [t \in Tables |-> table[t]]
  /\ \A t \in Tables : /\ table[t] \in [0..(num_buckets[t] - 1) -> [Slots -> Entry]]
                       /\ \A b \in 0..(num_buckets[t] - 1) : \A j \in Slots :
                            table[t][b][j].state = "VALID" =>
                              clht_hash(num_buckets[t], table[t][b][j].key) = b
LocalsOK ==
  /\ ts \in [Threads -> 0..MAX_VERSION]
  /\ pc \in [Threads -> Labels]
  /\ call \in [Threads -> Calls \cup {Idle}]
  /\ tab \in [Threads -> Tables]
  /\ empty_index \in [Threads -> Slots \cup {None}]
  /\ empty_retries \in [Threads -> 0..Retries]
  /\ left \in [Threads -> SUBSET Threads]
  /\ bin \in [Threads -> Nat]
  /\ ret \in [Threads -> Vals \cup {None}]
  /\ puts \in 0..MaxPuts

(* The type invariant in its parts.                                         *)
LEMMA TypeParts ==
  TypeOK <=> /\ ht \in Tables /\ resize_lock \in BOOLEAN /\ status_lock \in BOOLEAN
             /\ SizesOK /\ EntriesOK /\ LocalsOK /\ overtaken \in BOOLEAN
BY DEF TypeOK, SizesOK, EntriesOK, LocalsOK

(* Every table up to the current one has buckets.                           *)
LEMMA Sized ==
  ASSUME TypeOK, Versions
  PROVE  /\ ht \in Tables /\ ht \in 1..ht
         /\ \A t \in 1..ht : t \in Tables /\ num_buckets[t] \in Nat \ {0}
<1>1. ht \in Tables /\ SizesOK
  BY TypeParts
<1>2. 1..ht \subseteq Tables /\ ht \in 1..ht
  BY <1>1, BoundsAssumption DEF Tables
<1> QED
  BY <1>1, <1>2 DEF SizesOK, Versions

(* The bucket a call looks at is one of its table, which exists.            *)
LEMMA BucketExists ==
  ASSUME TypeOK, Versions, NEW p \in Threads, tab[p] <= ht, call[p] \in Calls
  PROVE  /\ tab[p] \in Tables /\ num_buckets[tab[p]] \in Nat \ {0}
         /\ Bin(p) \in 0..(num_buckets[tab[p]] - 1)
         /\ Bucket(p) \in [Slots -> Entry]
         /\ call[p].key \in Keys
<1>1. tab[p] \in Tables /\ tab[p] \in 1..ht
  <2>1. tab[p] \in Tables
    BY DEF TypeOK
  <2> QED
    BY <2>1, BoundsAssumption DEF TypeOK, Tables
<1>2. num_buckets[tab[p]] \in Nat \ {0}
  BY <1>1 DEF TypeOK, Versions
<1>3. call[p].key \in Keys /\ call[p].key \in Nat
  BY CallTypes
<1>4. Bin(p) \in 0..(num_buckets[tab[p]] - 1)
  BY <1>2, <1>3, ModTwice DEF Bin, clht_hash
<1>5. Bucket(p) \in [Slots -> Entry]
  BY <1>1, <1>4 DEF TypeOK, Bucket
<1> QED
  BY <1>1, <1>2, <1>3, <1>4, <1>5

(* What a search finds is a value, and nothing if the key is not there.     *)
LEMMA HeldTypes ==
  ASSUME NEW bucket \in [Slots -> Entry], NEW k \in Keys
  PROVE  /\ Held(bucket, k) \in Vals \cup {0}
         /\ Held(bucket, k) = 0 <=> Holding(bucket, k) = {}
<1>1. CASE Holding(bucket, k) = {}
  BY <1>1 DEF Held
<1>2. CASE Holding(bucket, k) # {}
  <2> DEFINE j == CHOOSE j \in Holding(bucket, k) : TRUE
  <2>1. j \in Holding(bucket, k)
    BY <1>2
  <2>2. j \in Slots /\ bucket[j].state = "VALID"
    BY <2>1 DEF Holding
  <2>3. bucket[j] \in Entry
    BY <2>2
  <2>4. bucket[j].val \in Vals /\ bucket[j].val # 0
    BY <2>2, <2>3, EntryTypes
  <2>5. Held(bucket, k) = bucket[j].val
    BY <1>2 DEF Held
  <2> QED
    BY <1>2, <2>4, <2>5
<1> QED
  BY <1>1, <1>2

(* Writing one slot with an entry of the right bucket keeps the types.      *)
LEMMA SlotTypes ==
  ASSUME TypeOK, Versions, NEW p \in Threads, tab[p] <= ht, call[p] \in Calls,
         NEW j \in Slots, NEW e \in Entry, SetSlot(p, j, e),
         e.state = "VALID" => e.key = call[p].key,
         UNCHANGED num_buckets
  PROVE  EntriesOK'
<1> DEFINE u == tab[p]
           h == Bin(p)
<1>1. u \in Tables /\ h \in 0..(num_buckets[u] - 1) /\ Bucket(p) \in [Slots -> Entry]
  BY BucketExists
<1>2. EntriesOK
  BY TypeParts
<1>3. e.state = "VALID" => clht_hash(num_buckets[u], e.key) = h
  BY DEF Bin
<1>4. table' = [table EXCEPT ![u][h][j] = e]
  BY DEF SetSlot
<1> HIDE DEF u, h
<1>5. table' = [t \in Tables |-> table'[t]]
  BY <1>2, <1>4 DEF EntriesOK
<1>6. \A t \in Tables : t # u => table'[t] = table[t]
  BY <1>2, <1>4 DEF EntriesOK
<1>7. table[u] \in [0..(num_buckets[u] - 1) -> [Slots -> Entry]]
  BY <1>1, <1>2 DEF EntriesOK
<1>8. table[u][h] \in [Slots -> Entry]
  BY <1>1, <1>7
<1>9. table'[u] = [table[u] EXCEPT ![h] = [table[u][h] EXCEPT ![j] = e]]
  <2>1. table' = [t \in Tables |-> IF t = u THEN [table[u] EXCEPT ![h] = [table[u][h] EXCEPT ![j] = e]]
                                            ELSE table[t]]
    BY <1>1, <1>2, <1>4 DEF EntriesOK
  <2> QED
    BY <1>1, <2>1
<1>10. [table[u][h] EXCEPT ![j] = e] \in [Slots -> Entry]
  BY <1>8
<1>11. table'[u] \in [0..(num_buckets[u] - 1) -> [Slots -> Entry]]
  BY <1>1, <1>7, <1>9, <1>10
<1>12. \A c \in 0..(num_buckets[u] - 1) : c # h => table'[u][c] = table[u][c]
  BY <1>1, <1>7, <1>9
<1>13. \A l \in Slots : table'[u][h][l] = IF l = j THEN e ELSE table[u][h][l]
  BY <1>1, <1>7, <1>8, <1>9
<1>14. ASSUME NEW c \in 0..(num_buckets[u] - 1), NEW l \in Slots, table'[u][c][l].state = "VALID"
       PROVE  clht_hash(num_buckets[u], table'[u][c][l].key) = c
  <2>1. table[u][c][l].state = "VALID" => clht_hash(num_buckets[u], table[u][c][l].key) = c
    BY <1>1, <1>2 DEF EntriesOK
  <2> QED
    BY <1>3, <1>12, <1>13, <1>14, <2>1
<1>15. ASSUME NEW t \in Tables
       PROVE  /\ table'[t] \in [0..(num_buckets[t] - 1) -> [Slots -> Entry]]
              /\ \A c \in 0..(num_buckets[t] - 1) : \A l \in Slots :
                   table'[t][c][l].state = "VALID" =>
                     clht_hash(num_buckets[t], table'[t][c][l].key) = c
  <2>1. CASE t = u
    BY <1>11, <1>14, <2>1
  <2>2. CASE t # u
    <3>1. table'[t] = table[t]
      BY <1>6, <2>2
    <3> QED
      BY <1>2, <3>1 DEF EntriesOK
  <2> QED
    BY <2>1, <2>2
<1>16. num_buckets' = num_buckets
  OBVIOUS
<1> QED
  BY <1>5, <1>15, <1>16 DEF EntriesOK
-----------------------------------------------------------------------------
(* A step of p leaves the other threads where they are, and keeps the types *)
(* of the locals.                                                           *)
SameAt(q) == /\ pc'[q] = pc[q] /\ call'[q] = call[q] /\ tab'[q] = tab[q] /\ ts'[q] = ts[q]
             /\ left'[q] = left[q] /\ bin'[q] = bin[q] /\ empty_index'[q] = empty_index[q]
Others(p) == \A q \in Threads \ {p} : SameAt(q)

(* Calls, returns and what a thread publishes.                              *)
LEMMA CallsStep ==
  ASSUME LocalsOK, ht \in Tables, SizesOK, NEW p \in Threads, Phase(p),
         Invoke(p) \/ Return(p) \/ CheckResize(p) \/ PublishVersion(p) \/ ReadTable(p)
         \/ GetVersion(p) \/ NoUpdate(p)
  PROVE  LocalsOK' /\ Others(p)
<1> USE DEF LocalsOK, SizesOK, Others, SameAt, Goto, Labels, locals, shared
<1>0. 1 \in Tables /\ MAX_VERSION \in 0..MAX_VERSION /\ puts \in Nat /\ MaxPuts \in Nat
  BY Bounds, BoundsAssumption
<1>1. CASE Invoke(p)
  <2>1. PICK c \in Calls : /\ call' = [call EXCEPT ![p] = c]
                           /\ IF c.op = "put" THEN puts < MaxPuts /\ puts' = puts + 1
                                              ELSE puts' = puts
    BY <1>1 DEF Invoke
  <2>2. pc' = [pc EXCEPT ![p] = "table"] \/ pc' = [pc EXCEPT ![p] = "check"]
    BY <1>1 DEF Invoke
  <2>3. UNCHANGED <<ts, locals>>
    BY <1>1 DEF Invoke
  <2>4. puts' \in 0..MaxPuts
    BY <1>0, <2>1
  <2> QED
    BY <2>1, <2>2, <2>3, <2>4
<1>2. CASE Return(p)
  <2>1. pc' = [pc EXCEPT ![p] = "idle"] /\ call' = [call EXCEPT ![p] = Idle]
        /\ tab' = [tab EXCEPT ![p] = 1] /\ empty_retries' = [empty_retries EXCEPT ![p] = 0]
        /\ ret' = [ret EXCEPT ![p] = 0]
    BY <1>2 DEF Return
  <2>2. UNCHANGED <<ts, empty_index, left, bin, puts>>
    BY <1>2 DEF Return
  <2>3. 0 \in 0..Retries
    BY BucketsAssumption
  <2> QED
    BY <1>0, <2>1, <2>2, <2>3
<1>3. CASE CheckResize(p)
  BY <1>3 DEF CheckResize
<1>4. CASE PublishVersion(p)
  BY <1>4 DEF PublishVersion
<1>5. CASE ReadTable(p)
  <2>1. pc' = [pc EXCEPT ![p] = IF call[p].op = "get" THEN "used" ELSE call[p].op]
    BY <1>5 DEF ReadTable
  <2>2. call[p].op \in {"put", "get", "remove"}
    BY <1>5, CallTypes DEF ReadTable, Phase
  <2>3. pc' \in [Threads -> Labels] /\ \A q \in Threads \ {p} : pc'[q] = pc[q]
    BY <2>1, <2>2
  <2>4. tab' = [tab EXCEPT ![p] = ht]
        /\ UNCHANGED <<shared, ts, call, empty_index, empty_retries, left, bin, ret, puts>>
    BY <1>5 DEF ReadTable
  <2> QED
    BY <2>3, <2>4
<1>6. CASE GetVersion(p)
  BY <1>6 DEF GetVersion
<1>7. CASE NoUpdate(p)
  BY <1>0, <1>7 DEF NoUpdate
<1> QED
  BY <1>1, <1>2, <1>3, <1>4, <1>5, <1>6, <1>7

(* The steps of a get, a put and a remove on a bucket.                      *)
LEMMA SearchStep ==
  ASSUME TypeOK, Versions, NEW p \in Threads, Phase(p), tab[p] <= ht,
         Get(p) \/ clht_put(p) \/ clht_remove(p)
  PROVE  LocalsOK' /\ Others(p)
<1> USE DEF LocalsOK, Others, SameAt, Goto, Labels, locals, shared
<1>0. LocalsOK
  BY TypeParts
<1>1. call[p] \in Calls /\ call[p].key \in Keys /\ Bucket(p) \in [Slots -> Entry]
  <2>1. pc[p] # "idle"
    BY DEF Get, clht_put, PutFound, PutFull, PutReserve, PutPublish, clht_remove
  <2> QED
    BY <2>1, BucketExists DEF Phase
<1>2. CASE Get(p)
  <2>1. Held(Bucket(p), call[p].key) \in Vals \cup {0}
    BY <1>1, HeldTypes
  <2> QED
    BY <1>0, <1>2, <2>1 DEF Get
<1>3. CASE PutFound(p)
  BY <1>0, <1>3 DEF PutFound
<1>4. CASE PutFull(p)
  <2>1. \/ pc' = [pc EXCEPT ![p] = "status"] /\ empty_retries' = [empty_retries EXCEPT ![p] = 0]
        \/ /\ pc' = [pc EXCEPT ![p] = "check"] /\ empty_retries[p] < Retries
           /\ empty_retries' = [empty_retries EXCEPT ![p] = empty_retries[p] + 1]
    BY <1>0, <1>4, BucketsAssumption DEF PutFull
  <2>2. UNCHANGED <<ts, call, tab, empty_index, left, bin, ret, puts>>
    BY <1>4 DEF PutFull
  <2>3. 0 \in 0..Retries /\ (empty_retries[p] < Retries => empty_retries[p] + 1 \in 0..Retries)
    BY <1>0, BucketsAssumption
  <2> QED
    BY <1>0, <2>1, <2>2, <2>3
<1>5. CASE PutReserve(p)
  <2>1. PICK j \in Slots : empty_index' = [empty_index EXCEPT ![p] = j]
    BY <1>5 DEF PutReserve
  <2> QED
    BY <1>0, <1>5, <2>1 DEF PutReserve
<1>6. CASE PutPublish(p)
  <2>1. call[p].val \in Vals
    BY <1>6 DEF PutPublish, Phase
  <2>2. ret' = ret \/ ret' = [ret EXCEPT ![p] = call[p].val]
    BY <1>6 DEF PutPublish
  <2>3. empty_index' = [empty_index EXCEPT ![p] = 0] /\ pc' = [pc EXCEPT ![p] = "leave"]
        /\ UNCHANGED <<ts, call, tab, empty_retries, left, bin, puts>>
    BY <1>6 DEF PutPublish
  <2> QED
    BY <1>0, <2>1, <2>2, <2>3
<1>7. CASE clht_remove(p)
  <2>1. ret' = ret \/ \E j \in Holding(Bucket(p), call[p].key) : ret' = [ret EXCEPT ![p] = Bucket(p)[j].val]
    BY <1>7 DEF clht_remove
  <2>2. \A j \in Holding(Bucket(p), call[p].key) : Bucket(p)[j].val \in Vals
    BY <1>1, EntryTypes DEF Holding
  <2>3. pc' = [pc EXCEPT ![p] = "leave"]
        /\ UNCHANGED <<ts, call, tab, empty_index, empty_retries, left, bin, puts>>
    BY <1>7 DEF clht_remove
  <2>4. ret' \in [Threads -> Vals \cup {0}]
    BY <1>0, <2>1, <2>2
  <2> QED
    BY <1>0, <2>3, <2>4
<1> QED
  BY <1>2, <1>3, <1>4, <1>5, <1>6, <1>7 DEF clht_put

(* The steps of ht_status and of a resize.                                  *)
LEMMA StatusStep ==
  ASSUME TypeOK, Versions, NEW p \in Threads, Resizes(p), ht_status(p)
  PROVE  LocalsOK' /\ Others(p)
<1> USE DEF LocalsOK, Others, SameAt, Goto, Labels, locals, shared
<1>0. LocalsOK /\ ht \in Tables
  BY TypeParts
<1>1. CASE StatusLock(p)
  BY <1>0, <1>1 DEF StatusLock
<1>2. CASE Count(p)
  <2>1. pc' = [pc EXCEPT ![p] = "unlock"] \/ pc' = [pc EXCEPT ![p] = "resize"]
    BY <1>2 DEF Count
  <2>2. tab' = [tab EXCEPT ![p] = ht]
        /\ UNCHANGED <<ts, call, empty_index, empty_retries, left, bin, ret, puts>>
    BY <1>2 DEF Count
  <2> QED
    BY <1>0, <2>1, <2>2
<1>3. CASE StatusUnlock(p)
  BY <1>0, <1>3 DEF StatusUnlock
<1>4. CASE ResizeLock(p)
  BY <1>0, <1>4 DEF ResizeLock
<1>5. CASE Start(p)
  <2>1. version[ht] + 1 \in 0..MAX_VERSION
    BY <1>0, BaseBounds, Bounds, BoundsAssumption DEF Versions, Tables
  <2>2. /\ tab' = [tab EXCEPT ![p] = ht] /\ ts' = [ts EXCEPT ![p] = version[ht] + 1]
        /\ left' = [left EXCEPT ![p] = Threads] /\ pc' = [pc EXCEPT ![p] = "grace"]
        /\ UNCHANGED <<call, empty_index, empty_retries, bin, ret, puts>>
    BY <1>5 DEF Start
  <2> QED
    BY <1>0, <2>1, <2>2
<1>6. CASE Grace(p)
  <2>1. PICK q \in left[p] :
          left' = [left EXCEPT ![p] = IF ts[q] >= version[tab[p]] THEN left[p] \ {q} ELSE Threads]
    BY <1>6 DEF Grace
  <2>2. UNCHANGED <<ts, pc, call, tab, empty_index, empty_retries, bin, ret, puts>>
    BY <1>6 DEF Grace
  <2> QED
    BY <1>0, <2>1, <2>2
<1>7. CASE GraceOver(p)
  BY <1>0, <1>7 DEF GraceOver
<1>8. CASE Copy(p)
  BY <1>0, <1>8 DEF Copy
<1>9. CASE Copied(p)
  BY <1>0, <1>9 DEF Copied
<1>10. CASE Swap(p)
  BY <1>0, <1>10 DEF Swap
<1>11. CASE Release(p)
  BY <1>0, <1>11 DEF Release
<1> QED
  BY <1>1, <1>2, <1>3, <1>4, <1>5, <1>6, <1>7, <1>8, <1>9, <1>10, <1>11
     DEF ht_status, ht_resize_pes

(* All steps together.                                                      *)
Step(p) == Invoke(p) \/ Work(p)

(* Every step leaves the other threads where they are.                      *)
LEMMA StepFrame ==
  ASSUME TypeOK, Versions, NEW p \in Threads, Phase(p), Resizes(p), tab[p] <= ht, Step(p)
  PROVE  LocalsOK' /\ Others(p)
<1>1. LocalsOK /\ ht \in Tables /\ SizesOK
  BY TypeParts
<1>2. \/ Invoke(p) \/ Return(p) \/ CheckResize(p) \/ PublishVersion(p) \/ ReadTable(p)
         \/ GetVersion(p) \/ NoUpdate(p)
      \/ Get(p) \/ clht_put(p) \/ clht_remove(p)
      \/ ht_status(p)
  BY DEF Step, Work
<1> QED
  BY <1>1, <1>2, CallsStep, SearchStep, StatusStep

-----------------------------------------------------------------------------
(* What a step changes of the shared state: nothing, a slot of the bucket   *)
(* of its call, a lock, the next table, or ht.                              *)
Still == UNCHANGED <<ht, num_buckets, version, table, bin>>
WritesSlot(p) == PutReserve(p) \/ PutPublish(p) \/ clht_remove(p)

(* Every step is one of these.                                              *)
LEMMA SharedStep ==
  ASSUME NEW p \in Threads, Step(p)
  PROVE  Still \/ WritesSlot(p) \/ Start(p) \/ Copy(p) \/ Swap(p)
<1> USE DEF Still, shared, locals
<1>1. CASE Invoke(p) \/ Return(p) \/ CheckResize(p) \/ PublishVersion(p) \/ ReadTable(p)
           \/ GetVersion(p) \/ NoUpdate(p) \/ Get(p) \/ PutFound(p) \/ PutFull(p)
  BY <1>1 DEF Invoke, Return, CheckResize, PublishVersion, ReadTable, GetVersion, NoUpdate, Get,
              PutFound, PutFull
<1>2. CASE StatusLock(p) \/ Count(p) \/ StatusUnlock(p) \/ ResizeLock(p) \/ Grace(p)
           \/ GraceOver(p) \/ Copied(p) \/ Release(p)
  BY <1>2 DEF StatusLock, Count, StatusUnlock, ResizeLock, Grace, GraceOver, Copied, Release
<1> QED
  BY <1>1, <1>2 DEF Step, Work, clht_put, WritesSlot, ht_status, ht_resize_pes

(* Where a step takes its thread, as far as the locks are concerned.        *)
Outside(p) == pc[p] \notin InStatus
LocksMoved(p) ==
  \/ Outside(p) /\ Outside(p)' /\ UNCHANGED <<resize_lock, status_lock>>
  \/ Outside(p) /\ status_lock /\ Outside(p)' /\ status_lock' = TRUE /\ UNCHANGED resize_lock
  \/ Outside(p) /\ ~status_lock /\ pc'[p] = "count" /\ status_lock' = TRUE /\ UNCHANGED resize_lock
  \/ pc[p] = "unlock" /\ Outside(p)' /\ status_lock' = FALSE /\ UNCHANGED resize_lock
  \/ pc[p] = "count" /\ pc'[p] \in {"unlock", "resize"} /\ UNCHANGED <<resize_lock, status_lock>>
     /\ (pc'[p] = "resize" => ht # MaxTables)
  \/ pc[p] = "resize" /\ resize_lock /\ pc'[p] = "unlock" /\ UNCHANGED <<resize_lock, status_lock>>
  \/ pc[p] = "resize" /\ ~resize_lock /\ pc'[p] = "start" /\ resize_lock' = TRUE /\ UNCHANGED status_lock
  \/ Start(p) /\ pc[p] = "start" /\ pc'[p] = "grace" /\ UNCHANGED <<resize_lock, status_lock>>
  \/ pc[p] \in Copying /\ pc'[p] \in Copying /\ UNCHANGED <<resize_lock, status_lock>>
  \/ /\ Swap(p) /\ pc[p] = "swap" /\ pc'[p] = "release"
     /\ UNCHANGED <<resize_lock, status_lock>>
  \/ pc[p] = "release" /\ pc'[p] = "unlock" /\ resize_lock' = FALSE /\ UNCHANGED status_lock

(* Every step moves its thread so.                                          *)
LEMMA LocksStep ==
  ASSUME LocalsOK, NEW p \in Threads, Phase(p), Step(p), resize_lock \in BOOLEAN,
         status_lock \in BOOLEAN
  PROVE  LocksMoved(p)
<1> USE DEF LocalsOK, LocksMoved, Outside, InStatus, Copying, Goto, shared
<1>1. CASE Invoke(p)
  BY <1>1 DEF Invoke
<1>2. CASE Return(p) \/ CheckResize(p) \/ PublishVersion(p) \/ GetVersion(p) \/ NoUpdate(p)
           \/ Get(p)
  BY <1>2 DEF Return, CheckResize, PublishVersion, GetVersion, NoUpdate, Get
<1>3. CASE ReadTable(p)
  <2>1. call[p].op \in {"put", "get", "remove"}
    BY <1>3, CallTypes DEF ReadTable, Phase
  <2>2. pc[p] = "table" /\ pc'[p] \in {"used", "put", "get", "remove"}
        /\ UNCHANGED <<resize_lock, status_lock>>
    BY <1>3, <2>1 DEF ReadTable
  <2> QED
    BY <2>2
<1>4. CASE PutFound(p) \/ PutFull(p)
  BY <1>4 DEF PutFound, PutFull
<1>5. CASE WritesSlot(p)
  BY <1>5 DEF WritesSlot, PutReserve, PutPublish, clht_remove
<1>6. CASE StatusLock(p)
  BY <1>6 DEF StatusLock
<1>7. CASE Count(p)
  BY <1>7 DEF Count
<1>8. CASE StatusUnlock(p) \/ Start(p) \/ Grace(p) \/ GraceOver(p) \/ Copy(p)
           \/ Copied(p) \/ Swap(p) \/ Release(p)
  BY <1>8 DEF StatusUnlock, Start, Grace, GraceOver, Copy, Copied, Swap, Release
<1>9. CASE ResizeLock(p)
  BY <1>9 DEF ResizeLock
<1> QED
  BY <1>1, <1>2, <1>3, <1>4, <1>5, <1>6, <1>7, <1>8, <1>9
     DEF Step, Work, clht_put, WritesSlot, ht_status, ht_resize_pes

-----------------------------------------------------------------------------
(* What the buckets of the new table are fed: they are free before, so the  *)
(* n-th entry that comes gets the n-th slot.                                *)
Fed(p, b) ==
  [j \in Slots |->
     LET from == {l \in Moving(p, b) : Rank(Moving(p, b), l) = j}
     IN  IF from = {} THEN INVLD ELSE table[tab[p]][bin[p]][CHOOSE l \in from : TRUE]]

(* Ranks are slots, and differ.                                             *)
LEMMA Ranks ==
  ASSUME NEW M \in SUBSET Slots
  PROVE  /\ \A l \in M : Rank(M, l) \in Slots
         /\ \A l, m \in M : Rank(M, l) = Rank(M, m) => l = m
<1>0. KEY_BUCKT \in Nat \ {0}
  BY BucketsAssumption
<1>1. IsFiniteSet(Slots) /\ Cardinality(Slots) = KEY_BUCKT
  BY <1>0, FS_Interval DEF Slots
<1>2. ASSUME NEW l \in M
      PROVE  IsFiniteSet({m \in M : m <= l}) /\ Rank(M, l) \in Slots
  <2>1. {m \in M : m <= l} \subseteq Slots
    OBVIOUS
  <2>2. IsFiniteSet({m \in M : m <= l}) /\ Rank(M, l) <= KEY_BUCKT
    BY <1>1, <2>1, FS_Subset DEF Rank
  <2>3. l \in {m \in M : m <= l}
    BY <1>0 DEF Slots
  <2>4. Rank(M, l) \in Nat /\ Rank(M, l) # 0
    BY <2>2, <2>3, FS_CardinalityType, FS_EmptySet DEF Rank
  <2> QED
    BY <1>0, <2>2, <2>4 DEF Slots
<1>3. ASSUME NEW l \in M, NEW m \in M, l < m
      PROVE  Rank(M, l) < Rank(M, m)
  <2> DEFINE L == {i \in M : i <= l}
             N == {i \in M : i <= m}
  <2>1. M \subseteq Nat
    BY Bounds
  <2>2. L \subseteq N /\ m \in N /\ m \notin L
    <3>1. l \in Nat /\ m \in Nat /\ m <= m /\ ~(m <= l)
      BY <2>1, <1>3
    <3>2. \A i \in M : i <= l => i <= m
      BY <2>1, <1>3, <3>1
    <3> QED
      BY <3>1, <3>2
  <2>3. IsFiniteSet(N)
    BY <1>2
  <2>4. Cardinality(L) \in Nat /\ Cardinality(N) \in Nat
    BY <1>2, FS_CardinalityType
  <2>5. Cardinality(L) <= Cardinality(N) /\ (Cardinality(L) = Cardinality(N) => L = N)
    BY <2>2, <2>3, FS_Subset
  <2> QED
    BY <2>2, <2>4, <2>5 DEF Rank
<1>4. ASSUME NEW l \in M, NEW m \in M, Rank(M, l) = Rank(M, m)
      PROVE  l = m
  <2>1. l \in Nat /\ m \in Nat
    BY Bounds
  <2>2. Rank(M, l) \in Nat /\ Rank(M, m) \in Nat
    BY <1>2, Bounds
  <2>3. ~(l < m) /\ ~(m < l)
    BY <1>3, <1>4, <2>2
  <2> QED
    BY <2>1, <2>3
<1> QED
  BY <1>2, <1>4

(* What a copy writes into a bucket: the entries that move there, each once,*)
(* and nothing else.                                                        *)
LEMMA SeqEntries ==
  ASSUME NEW p \in Threads, NEW b,
         \A j \in Slots : table[tab[p]][bin[p]][j] \in Entry
  PROVE  /\ Fed(p, b) \in [Slots -> Entry]
         /\ \A j \in Slots : Fed(p, b)[j].state = "VALID" =>
              \E l \in Moving(p, b) : /\ Rank(Moving(p, b), l) = j
                                      /\ Fed(p, b)[j] = table[tab[p]][bin[p]][l]
         /\ \A l \in Moving(p, b) : /\ Rank(Moving(p, b), l) \in Slots
                                    /\ Fed(p, b)[Rank(Moving(p, b), l)] = table[tab[p]][bin[p]][l]
<1> DEFINE M == Moving(p, b)
           old == table[tab[p]][bin[p]]
           From(j) == {l \in M : Rank(M, l) = j}
           Pick(j) == CHOOSE l \in From(j) : TRUE
<1>1. M \in SUBSET Slots
  BY DEF Moving
<1>2. Fed(p, b) = [j \in Slots |-> IF From(j) = {} THEN INVLD ELSE old[Pick(j)]]
  BY DEF Fed
<1>3. \A j \in Slots : From(j) # {} => Pick(j) \in M /\ Rank(M, Pick(j)) = j
  OBVIOUS
<1>4. INVLD \in Entry /\ INVLD.state = "INVLD"
  BY DEF INVLD, Entry
<1>5. \A l \in M : old[l] \in Entry
  BY <1>1
<1>6. \A l \in M : Rank(M, l) \in Slots /\ Pick(Rank(M, l)) = l
  <2>1. ASSUME NEW l \in M
        PROVE  Rank(M, l) \in Slots /\ Pick(Rank(M, l)) = l
    <3>1. Rank(M, l) \in Slots /\ l \in From(Rank(M, l))
      BY <1>1, Ranks
    <3>2. Pick(Rank(M, l)) \in M /\ Rank(M, Pick(Rank(M, l))) = Rank(M, l)
      BY <1>3, <3>1
    <3> QED
      BY <1>1, <3>1, <3>2, Ranks
  <2> QED
    BY <2>1
<1>7. \A l \in M : From(Rank(M, l)) # {}
  OBVIOUS
<1> HIDE DEF M, old, From, Pick
<1>8. Fed(p, b) \in [Slots -> Entry]
  BY <1>2, <1>3, <1>4, <1>5
<1>9. \A j \in Slots : Fed(p, b)[j].state = "VALID" =>
        \E l \in M : Rank(M, l) = j /\ Fed(p, b)[j] = old[l]
  BY <1>2, <1>3, <1>4
<1>10. \A l \in M : Rank(M, l) \in Slots /\ Fed(p, b)[Rank(M, l)] = old[l]
  BY <1>2, <1>6, <1>7
<1> QED
  BY <1>8, <1>9, <1>10 DEF M, old

(* An entry put into a free bucket gets the slot of its rank.               *)
LEMMA FeedsFree ==
  ASSUME NEW p \in Threads, NEW b, table[New(p)][b] = NoEntries
  PROVE  clht_put_seq(p, b) = Fed(p, b)
<1>1. \A j \in Slots : NoEntries[j] = INVLD /\ NoEntries[j].key = None
  BY DEF NoEntries, INVLD
<1>2. Free(NoEntries) = Slots
  BY <1>1 DEF Free
<1>3. ASSUME NEW j \in Slots PROVE Rank(Slots, j) = j
  <2>1. j \in Nat \ {0} /\ {l \in Slots : l <= j} = 1..j
    BY BucketsAssumption DEF Slots
  <2>2. Cardinality(1..j) = j
    BY <2>1, FS_Interval
  <2> QED
    BY <2>1, <2>2 DEF Rank
<1> DEFINE M == Moving(p, b)
           entries == table[New(p)][b]
           Coming(j) == {l \in M : Rank(M, l) = Rank(Free(entries), j)}
           From(j) == {l \in M : Rank(M, l) = j}
           old == table[tab[p]][bin[p]]
<1>4. \A j \in Slots : Coming(j) = From(j) /\ entries[j] = INVLD /\ entries[j].key = None
  BY <1>1, <1>2, <1>3
<1>5. clht_put_seq(p, b) = [j \in Slots |-> IF entries[j].key # None \/ Coming(j) = {}
                              THEN entries[j] ELSE old[CHOOSE l \in Coming(j) : TRUE]]
  BY DEF clht_put_seq
<1>6. Fed(p, b) = [j \in Slots |-> IF From(j) = {} THEN INVLD
                                    ELSE old[CHOOSE l \in From(j) : TRUE]]
  BY DEF Fed
<1> HIDE DEF M, entries, Coming, From, old
<1> QED
  BY <1>4, <1>5, <1>6

(* Of a bucket nothing goes into those it does not feed.                    *)
LEMMA FeedsOnly ==
  ASSUME NEW p \in Threads, NEW n \in Nat \ {0}, NewSize(p) = 2 * n, NEW c,
         \A j \in Slots : table[tab[p]][bin[p]][j] \in Entry,
         \A j \in Slots : table[tab[p]][bin[p]][j].state = "VALID" =>
           clht_hash(n, table[tab[p]][bin[p]][j].key) = bin[p],
         table[New(p)][c] \in [Slots -> Entry],
         c % n # bin[p]
  PROVE  clht_put_seq(p, c) = table[New(p)][c]
<1>1. Moving(p, c) = {}
  <2>1. ASSUME NEW j \in Moving(p, c) PROVE FALSE
    <3> DEFINE e == table[tab[p]][bin[p]][j]
    <3>1. j \in Slots /\ e.state = "VALID" /\ clht_hash(2 * n, e.key) = c
      BY <2>1 DEF Moving
    <3>2. e.key \in Nat /\ clht_hash(n, e.key) = bin[p]
      BY <3>1, EntryTypes, Bounds
    <3>3. (e.key % (2 * n)) % n = e.key % n
      BY <3>2, ModTwice
    <3> QED
      BY <3>1, <3>2, <3>3 DEF clht_hash
  <2> QED
    BY <2>1
<1>2. clht_put_seq(p, c) = [j \in Slots |-> table[New(p)][c][j]]
  BY <1>1 DEF clht_put_seq
<1> QED
  BY <1>2

-----------------------------------------------------------------------------
(* What the steps of a resize do to the tables.                             *)
LEMMA CopyEffect ==
  ASSUME TypeOK, Versions, NEW p \in Threads, Resizes(p), Copy(p)
  PROVE  /\ tab[p] = ht /\ ht + 1 \in Tables /\ NewSize(p) = num_buckets[ht + 1]
         /\ num_buckets[ht] \in Nat \ {0} /\ num_buckets[ht + 1] = 2 * num_buckets[ht]
         /\ bin[p] \in 0..(num_buckets[ht] - 1) /\ bin' = [bin EXCEPT ![p] = bin[p] + 1]
         /\ UNCHANGED <<ht, num_buckets, version, pc, tab>>
         /\ \A j \in Slots : table[tab[p]][bin[p]][j] \in Entry
         /\ table' = [t \in Tables |-> table'[t]]
         /\ \A t \in Tables \ {ht + 1} : table'[t] = table[t]
         /\ table'[ht + 1] = [b \in 0..(num_buckets[ht + 1] - 1) |->
                                IF b % num_buckets[ht] = bin[p] THEN Fed(p, b)
                                                                ELSE table[ht + 1][b]]
<1>1. pc[p] = "copy" /\ bin[p] < num_buckets[tab[p]] /\ bin' = [bin EXCEPT ![p] = bin[p] + 1]
      /\ UNCHANGED <<ht, num_buckets, version, pc, tab>>
  BY DEF Copy, TypeOK
<1>2. ht \in Tables /\ ht < MaxTables
  BY <1>1 DEF Resizes, Copying, TypeOK
<1>3. ht + 1 \in Tables
  BY <1>2, BoundsAssumption DEF Tables
<1>4. tab[p] = ht /\ num_buckets[ht + 1] = 2 * num_buckets[ht]
  BY <1>1 DEF Resizes, Copying
<1>5. num_buckets[ht] \in Nat \ {0}
  BY Sized
<1>6. bin[p] \in 0..(num_buckets[ht] - 1)
  <2>1. bin[p] \in Nat
    BY DEF TypeOK
  <2> QED
    BY <1>1, <1>4, <1>5, <2>1
<1>7. table[ht] \in [0..(num_buckets[ht] - 1) -> [Slots -> Entry]]
      /\ table[ht + 1] \in [0..(num_buckets[ht + 1] - 1) -> [Slots -> Entry]]
      /\ table = [t \in Tables |-> table[t]]
  BY <1>2, <1>3 DEF TypeOK
<1>8. table' = [table EXCEPT ![ht + 1] = [b \in DOMAIN table[ht + 1] |-> clht_put_seq(p, b)]]
  BY <1>3, <1>4, <1>7 DEF Copy, New
<1>9. /\ \A j \in Slots : table[tab[p]][bin[p]][j] \in Entry
      /\ \A j \in Slots : table[tab[p]][bin[p]][j].state = "VALID" =>
           clht_hash(num_buckets[ht], table[tab[p]][bin[p]][j].key) = bin[p]
  BY <1>2, <1>4, <1>6, <1>7 DEF TypeOK
<1>10. table' = [t \in Tables |-> IF t = ht + 1
                   THEN [b \in DOMAIN table[ht + 1] |-> clht_put_seq(p, b)] ELSE table[t]]
  BY <1>7, <1>8
<1>11. DOMAIN table[ht + 1] = 0..(num_buckets[ht + 1] - 1)
  BY <1>7
<1>12. NewSize(p) = num_buckets[ht + 1] /\ New(p) = ht + 1
  BY <1>4 DEF NewSize, New
<1>13. NotFed(p)
  BY <1>1 DEF Resizes, Copying
<1>14. ASSUME NEW b \in 0..(num_buckets[ht + 1] - 1)
       PROVE  clht_put_seq(p, b) = IF b % num_buckets[ht] = bin[p] THEN Fed(p, b)
                                                                   ELSE table[ht + 1][b]
  <2>1. CASE b % num_buckets[ht] = bin[p]
    <3>1. bin[p] <= b % num_buckets[ht]
      BY <1>6, <2>1
    <3>2. table[ht + 1][b] = NoEntries
      BY <1>13, <3>1 DEF NotFed
    <3> QED
      BY <1>12, <2>1, <3>2, FeedsFree
  <2>2. CASE b % num_buckets[ht] # bin[p]
    <3>1. table[New(p)][b] \in [Slots -> Entry] /\ NewSize(p) = 2 * num_buckets[ht]
      BY <1>4, <1>7, <1>12
    <3>2. clht_put_seq(p, b) = table[New(p)][b]
      BY <1>5, <1>9, <2>2, <3>1, FeedsOnly
    <3> QED
      BY <1>12, <2>2, <3>2
  <2> QED
    BY <2>1, <2>2
<1>15. table'[ht + 1] = [b \in 0..(num_buckets[ht + 1] - 1) |->
                           IF b % num_buckets[ht] = bin[p] THEN Fed(p, b) ELSE table[ht + 1][b]]
  BY <1>3, <1>10, <1>11, <1>14
<1>16. table' = [t \in Tables |-> table'[t]]
  BY <1>10
<1>17. \A t \in Tables \ {ht + 1} : table'[t] = table[t]
  BY <1>10
<1> QED
  BY <1>1, <1>3, <1>4, <1>5, <1>6, <1>12, <1>9, <1>15, <1>16, <1>17

(* The start of a resize adds an empty table of twice the size.             *)
LEMMA StartEffect ==
  ASSUME TypeOK, Versions, NEW p \in Threads, Resizes(p), Start(p)
  PROVE  /\ ht \in Tables /\ ht + 1 \in Tables /\ num_buckets[ht] \in Nat \ {0}
         /\ UNCHANGED ht /\ pc[p] = "start" /\ pc' = [pc EXCEPT ![p] = "grace"]
         /\ tab' = [tab EXCEPT ![p] = ht] /\ ts' = [ts EXCEPT ![p] = version[ht] + 1]
         /\ left' = [left EXCEPT ![p] = Threads] /\ bin' = bin
         /\ num_buckets' = [num_buckets EXCEPT ![ht + 1] = 2 * num_buckets[ht]]
         /\ version' = [version EXCEPT ![ht] = version[ht] + 1, ![ht + 1] = version[ht] + 2]
         /\ table' = [t \in Tables |-> table'[t]]
         /\ \A t \in Tables \ {ht + 1} : table'[t] = table[t]
         /\ table'[ht + 1] = [b \in 0..(2 * num_buckets[ht] - 1) |-> NoEntries]
<1>1. pc[p] = "start"
  BY DEF Start
<1>2. ht \in Tables /\ ht < MaxTables
  BY <1>1 DEF Resizes, TypeOK
<1>3. ht + 1 \in Tables
  BY <1>2, BoundsAssumption DEF Tables
<1>4. num_buckets[ht] \in Nat \ {0}
  BY Sized
<1>5. table = [t \in Tables |-> table[t]]
      /\ table' = [table EXCEPT ![ht + 1] = [b \in 0..(2 * num_buckets[ht] - 1) |-> NoEntries]]
  BY DEF TypeOK, Start
<1>6. table' = [t \in Tables |-> IF t = ht + 1
                   THEN [b \in 0..(2 * num_buckets[ht] - 1) |-> NoEntries] ELSE table[t]]
  BY <1>5
<1>7. version \in [Tables -> 0..MAX_VERSION]
  BY DEF TypeOK
<1>8. version' = [version EXCEPT ![ht] = version[ht] + 1, ![ht + 1] = version[ht] + 2]
  BY <1>2, <1>7 DEF Start
<1> QED
  BY <1>1, <1>2, <1>3, <1>4, <1>6, <1>8 DEF Start, Goto

(* The swap puts the next table in place.                                   *)
LEMMA SwapEffect ==
  ASSUME TypeOK, Versions, NEW p \in Threads, Resizes(p), Swap(p)
  PROVE  /\ ht \in Tables /\ ht + 1 \in Tables /\ tab[p] = ht /\ New(p) = ht + 1
         /\ ht' = ht + 1 /\ pc[p] = "swap" /\ pc' = [pc EXCEPT ![p] = "release"]
         /\ bin' = [bin EXCEPT ![p] = 0]
         /\ UNCHANGED <<num_buckets, version, table, tab, ts, left, call>>
<1>1. pc[p] = "swap"
  BY DEF Swap
<1>2. ht \in Tables /\ ht < MaxTables /\ tab[p] = ht
  BY <1>1 DEF Resizes, Copying, TypeOK
<1>3. ht + 1 \in Tables
  BY <1>2, BoundsAssumption DEF Tables
<1> QED
  BY <1>1, <1>2, <1>3 DEF Swap, Goto, New

(* A step on a slot writes an entry of the call's key, or empties the slot. *)
LEMMA WriteEffect ==
  ASSUME TypeOK, Versions, NEW p \in Threads, Phase(p), tab[p] <= ht, WritesSlot(p)
  PROVE  /\ Updating(p) /\ call[p] \in Calls /\ UNCHANGED <<ht, num_buckets, version, ts, call, tab, left, bin>>
         /\ \/ UNCHANGED table
            \/ \E j \in Slots, e \in Entry :
                 /\ SetSlot(p, j, e)
                 /\ e.state = "VALID" => /\ e.key = call[p].key
                                         /\ Held(Bucket(p), call[p].key) = None
<1>1. Updating(p) /\ pc[p] # "idle" /\ UNCHANGED <<ht, num_buckets, version, ts, call, tab, left, bin>>
  BY DEF WritesSlot, PutReserve, PutPublish, clht_remove, Updating
<1>2. call[p] \in Calls
  BY <1>1 DEF Phase
<1>3. call[p].key \in Keys /\ INVLD \in Entry /\ INVLD.state = "INVLD"
      /\ Bucket(p) \in [Slots -> Entry]
  BY <1>2, BucketExists DEF INVLD, Entry
<1>4. CASE PutReserve(p)
  <2> DEFINE e == [state |-> "INSRT", key |-> call[p].key, val |-> call[p].val]
  <2>1. call[p].val \in Vals
    BY <1>4 DEF PutReserve, Phase
  <2>2. e \in Entry /\ e.state = "INSRT"
    BY <1>3, <2>1 DEF Entry
  <2>3. \E j \in Slots : SetSlot(p, j, e)
    BY <1>4 DEF PutReserve
  <2> HIDE DEF e
  <2> QED
    BY <1>1, <1>2, <2>2, <2>3
<1>5. CASE PutPublish(p)
  <2> DEFINE e == [state |-> "VALID", key |-> call[p].key, val |-> call[p].val]
  <2>1. call[p].val \in Vals /\ empty_index[p] \in Slots
    BY <1>5 DEF PutPublish, Phase
  <2>2. e \in Entry /\ e.key = call[p].key
    BY <1>3, <2>1 DEF Entry
  <2>3. \/ Held(Bucket(p), call[p].key) = None /\ SetSlot(p, empty_index[p], e)
        \/ SetSlot(p, empty_index[p], INVLD)
    BY <1>5 DEF PutPublish
  <2> HIDE DEF e
  <2> QED
    BY <1>1, <1>2, <1>3, <2>1, <2>2, <2>3
<1>6. CASE clht_remove(p)
  <2>1. UNCHANGED table \/ \E j \in Holding(Bucket(p), call[p].key) : SetSlot(p, j, INVLD)
    BY <1>6 DEF clht_remove
  <2>2. Holding(Bucket(p), call[p].key) \subseteq Slots
    BY DEF Holding
  <2> QED
    BY <1>1, <1>2, <1>3, <2>1, <2>2
<1> QED
  BY <1>4, <1>5, <1>6 DEF WritesSlot

-----------------------------------------------------------------------------
(* The types are kept.                                                      *)
LEMMA TypeStep ==
  ASSUME TypeOK, Versions, NEW p \in Threads, Phase(p), Resizes(p), tab[p] <= ht, Step(p), Watch
  PROVE  TypeOK'
<1>0. ht \in Tables /\ SizesOK /\ EntriesOK /\ LocalsOK /\ resize_lock \in BOOLEAN
      /\ status_lock \in BOOLEAN /\ overtaken \in BOOLEAN
  BY TypeParts
<1>1. LocalsOK'
  BY StepFrame
<1>2. overtaken' \in BOOLEAN
  BY <1>0 DEF Watch
<1>3. resize_lock' \in BOOLEAN /\ status_lock' \in BOOLEAN
  <2>1. LocksMoved(p)
    BY <1>0, LocksStep
  <2> QED
    BY <1>0, <2>1 DEF LocksMoved
<1>4. SizesOK' /\ EntriesOK' /\ ht' \in Tables
  <2>1. CASE Still
    BY <1>0, <2>1 DEF Still, SizesOK, EntriesOK
  <2>2. CASE WritesSlot(p)
    <3>1. /\ call[p] \in Calls /\ UNCHANGED <<ht, num_buckets, version>>
          /\ \/ UNCHANGED table
             \/ \E j \in Slots, e \in Entry :
                  SetSlot(p, j, e) /\ (e.state = "VALID" => e.key = call[p].key)
      BY <2>2, WriteEffect
    <3>2. EntriesOK'
      <4>1. CASE UNCHANGED table
        BY <1>0, <3>1, <4>1 DEF EntriesOK
      <4>2. CASE ~ UNCHANGED table
        BY <3>1, <4>2, SlotTypes
      <4> QED
        BY <4>1, <4>2
    <3> QED
      BY <1>0, <3>1, <3>2 DEF SizesOK
  <2>3. CASE Start(p)
    <3>1. /\ ht \in Tables /\ ht + 1 \in Tables /\ num_buckets[ht] \in Nat \ {0}
          /\ UNCHANGED ht
          /\ num_buckets' = [num_buckets EXCEPT ![ht + 1] = 2 * num_buckets[ht]]
          /\ version' = [version EXCEPT ![ht] = version[ht] + 1, ![ht + 1] = version[ht] + 2]
          /\ table' = [t \in Tables |-> table'[t]]
          /\ \A t \in Tables \ {ht + 1} : table'[t] = table[t]
          /\ table'[ht + 1] = [b \in 0..(2 * num_buckets[ht] - 1) |-> NoEntries]
      BY <2>3, StartEffect
    <3>2. num_buckets' \in [Tables -> Nat] /\ num_buckets'[1] = InitBuckets
      BY <1>0, <3>1 DEF SizesOK, Tables
    <3>3. \A t \in Tables \ {1} : num_buckets'[t] \in {0, 2 * num_buckets'[t - 1]}
      <4> SUFFICES ASSUME NEW t \in Tables \ {1}
                   PROVE  num_buckets'[t] \in {0, 2 * num_buckets'[t - 1]}
        OBVIOUS
      <4>1. t - 1 \in Tables /\ t \in Nat
        BY BoundsAssumption DEF Tables
      <4>2. num_buckets[t] \in {0, 2 * num_buckets[t - 1]} /\ num_buckets[t - 1] \in Nat
        BY <1>0, <4>1 DEF SizesOK
      <4>3. CASE t = ht + 1
        <5>1. t - 1 = ht /\ ht # ht + 1
          BY <4>1, <4>3, <3>1, Bounds
        <5> QED
          BY <1>0, <3>1, <4>3, <5>1 DEF SizesOK
      <4>4. CASE t - 1 = ht + 1
        <5>1. t # ht + 1
          BY <4>1, <4>4
        <5>2. num_buckets'[t] = num_buckets[t] /\ num_buckets'[t - 1] = 2 * num_buckets[ht]
          BY <1>0, <3>1, <4>1, <4>4, <5>1 DEF SizesOK
        <5>3. num_buckets[ht + 1] \in {0, 2 * num_buckets[ht]}
          <6>1. ht + 1 # 1 /\ (ht + 1) - 1 = ht
            BY <3>1, BoundsAssumption DEF Tables
          <6> QED
            BY <1>0, <3>1, <6>1 DEF SizesOK
        <5> QED
          BY <4>2, <4>4, <5>2, <5>3
      <4>5. CASE t # ht + 1 /\ t - 1 # ht + 1
        <5>1. num_buckets'[t] = num_buckets[t] /\ num_buckets'[t - 1] = num_buckets[t - 1]
          BY <1>0, <3>1, <4>1, <4>5 DEF SizesOK
        <5> QED
          BY <4>2, <5>1
      <4> QED
        BY <4>3, <4>4, <4>5
    <3>4. version' \in [Tables -> 0..MAX_VERSION]
      <4>1. version[ht] \in {Base(ht), Base(ht) + 1} /\ Base(ht) \in Nat
            /\ Base(ht) + 3 <= MAX_VERSION
        <5>1. ht \in 1..ht
          BY <3>1, Bounds, Sized
        <5>2. Base(ht + 1) = Base(ht) + 2 /\ Base(ht + 1) + 1 < MAX_VERSION /\ Base(ht) \in Nat
          BY <3>1, BaseBounds
        <5>3. version[ht] \in {Base(ht), Base(ht) + 1}
          BY <5>1 DEF Versions
        <5>4. Base(ht) + 3 <= MAX_VERSION
          BY <5>2, Bounds
        <5> QED
          BY <5>2, <5>3, <5>4
      <4>2. version[ht] + 1 \in 0..MAX_VERSION /\ version[ht] + 2 \in 0..MAX_VERSION
        BY <4>1, Bounds
      <4> QED
        BY <1>0, <3>1, <4>2 DEF SizesOK
    <3>5. EntriesOK'
      <4>1. NoEntries \in [Slots -> Entry] /\ \A j \in Slots : NoEntries[j].state # "VALID"
        BY DEF NoEntries, INVLD, Entry
      <4>2. ASSUME NEW t \in Tables
            PROVE  /\ table'[t] \in [0..(num_buckets'[t] - 1) -> [Slots -> Entry]]
                   /\ \A b \in 0..(num_buckets'[t] - 1) : \A j \in Slots :
                        table'[t][b][j].state = "VALID" =>
                          clht_hash(num_buckets'[t], table'[t][b][j].key) = b
        <5>1. CASE t = ht + 1
          <6>1. num_buckets'[t] = 2 * num_buckets[ht]
            BY <1>0, <3>1, <5>1 DEF SizesOK
          <6> QED
            BY <3>1, <4>1, <5>1, <6>1
        <5>2. CASE t # ht + 1
          <6>1. num_buckets'[t] = num_buckets[t] /\ table'[t] = table[t]
            BY <1>0, <3>1, <5>2 DEF SizesOK
          <6> QED
            BY <1>0, <6>1 DEF EntriesOK
        <5> QED
          BY <5>1, <5>2
      <4> QED
        BY <3>1, <4>2 DEF EntriesOK
    <3> QED
      BY <3>1, <3>2, <3>3, <3>4, <3>5 DEF SizesOK
  <2>4. CASE Copy(p)
    <3> DEFINE n == num_buckets[ht]
               u == ht + 1
    <3>1. /\ u \in Tables /\ NewSize(p) = num_buckets[u]
          /\ UNCHANGED <<ht, num_buckets, version>>
          /\ \A j \in Slots : table[tab[p]][bin[p]][j] \in Entry
          /\ table' = [t \in Tables |-> table'[t]]
          /\ \A t \in Tables \ {u} : table'[t] = table[t]
          /\ table'[u] = [b \in 0..(num_buckets[u] - 1) |->
                                IF b % n = bin[p] THEN Fed(p, b) ELSE table[u][b]]
      BY <2>4, CopyEffect
    <3> HIDE DEF n, u
    <3>2. ASSUME NEW b \in 0..(num_buckets[u] - 1)
          PROVE  /\ table'[u][b] \in [Slots -> Entry]
                 /\ \A j \in Slots : table'[u][b][j].state = "VALID" =>
                      clht_hash(num_buckets[u], table'[u][b][j].key) = b
      <4>1. CASE b % n = bin[p]
        <5>1. table'[u][b] = Fed(p, b)
          BY <3>1, <4>1
        <5>2. ASSUME NEW j \in Slots, Fed(p, b)[j].state = "VALID"
              PROVE  clht_hash(num_buckets[u], Fed(p, b)[j].key) = b
          <6>1. PICK l \in Moving(p, b) : Fed(p, b)[j] = table[tab[p]][bin[p]][l]
            BY <3>1, <5>2, SeqEntries
          <6> QED
            BY <3>1, <6>1 DEF Moving
        <5>3. Fed(p, b) \in [Slots -> Entry]
          BY <3>1, SeqEntries
        <5> QED
          BY <5>1, <5>2, <5>3
      <4>2. CASE b % n # bin[p]
        <5>1. table'[u][b] = table[u][b]
          BY <3>1, <4>2
        <5>2. /\ table[u] \in [0..(num_buckets[u] - 1) -> [Slots -> Entry]]
              /\ \A j \in Slots : table[u][b][j].state = "VALID" =>
                   clht_hash(num_buckets[u], table[u][b][j].key) = b
          BY <1>0, <3>1 DEF EntriesOK
        <5> QED
          BY <5>1, <5>2
      <4> QED
        BY <4>1, <4>2
    <3>3. ASSUME NEW t \in Tables
          PROVE  /\ table'[t] \in [0..(num_buckets[t] - 1) -> [Slots -> Entry]]
                 /\ \A b \in 0..(num_buckets[t] - 1) : \A j \in Slots :
                      table'[t][b][j].state = "VALID" =>
                        clht_hash(num_buckets[t], table'[t][b][j].key) = b
      <4>1. CASE t = u
        BY <3>1, <3>2, <4>1
      <4>2. CASE t # u
        <5>1. table'[t] = table[t]
          BY <3>1, <4>2
        <5>2. /\ table[t] \in [0..(num_buckets[t] - 1) -> [Slots -> Entry]]
              /\ \A b \in 0..(num_buckets[t] - 1) : \A j \in Slots :
                   table[t][b][j].state = "VALID" =>
                     clht_hash(num_buckets[t], table[t][b][j].key) = b
          BY <1>0 DEF EntriesOK
        <5> QED
          BY <5>1, <5>2
      <4> QED
        BY <4>1, <4>2
    <3>4. EntriesOK'
      BY <3>1, <3>3 DEF EntriesOK
    <3> QED
      BY <1>0, <3>1, <3>4 DEF SizesOK
  <2>5. CASE Swap(p)
    BY <1>0, <2>5, SwapEffect DEF SizesOK, EntriesOK
  <2> QED
    BY <2>1, <2>2, <2>3, <2>4, <2>5, SharedStep
<1>5. (TypeOK <=> /\ ht \in Tables /\ resize_lock \in BOOLEAN /\ status_lock \in BOOLEAN
                  /\ SizesOK /\ EntriesOK /\ LocalsOK /\ overtaken \in BOOLEAN)'
  BY TypeParts, PTL
<1> QED
  BY <1>1, <1>2, <1>3, <1>4, <1>5

-----------------------------------------------------------------------------
(* Phase, for the thread that steps and for the others.                     *)
LEMMA PhaseStep ==
  ASSUME LocalsOK, NEW p \in Threads, Phase(p), Step(p), Others(p), NEW q \in Threads, Phase(q)
  PROVE  Phase(q)'
<1> USE DEF Phase, Goto, LocalsOK, locals, shared
<1>1. CASE q # p
  BY <1>1 DEF Others, SameAt
<1>2. CASE q = p
  <2>1. CASE Invoke(p)
    <3>1. PICK c \in Calls : /\ IF c.op = "put" THEN puts < MaxPuts /\ c.val = puts + 1 ELSE TRUE
                             /\ call' = [call EXCEPT ![p] = c]
                             /\ pc' = [pc EXCEPT ![p] = IF c.op = "get" THEN "table" ELSE "check"]
      BY <2>1 DEF Invoke
    <3>2. c.op = "put" => c.val \in Vals
      BY <3>1, BoundsAssumption DEF Vals
    <3>3. pc'[p] \in {"table", "check"} /\ call'[p] = c
      BY <3>1
    <3> QED
      BY <1>2, <3>2, <3>3
  <2>2. CASE Return(p)
    <3>1. pc'[p] = "idle" /\ call'[p] = Idle /\ Idle.op # "put"
      BY <2>2 DEF Return, Idle
    <3> QED
      BY <1>2, <3>1
  <2>3. CASE CheckResize(p) \/ PublishVersion(p) \/ GetVersion(p) \/ NoUpdate(p) \/ Get(p)
    BY <1>2, <2>3 DEF CheckResize, PublishVersion, GetVersion, NoUpdate, Get
  <2>4. CASE ReadTable(p)
    <3>1. call[p].op \in {"put", "get", "remove"}
      BY <2>4, CallTypes DEF ReadTable
    <3>2. UNCHANGED call /\ pc'[p] = IF call[p].op = "get" THEN "used" ELSE call[p].op
      BY <2>4 DEF ReadTable
    <3>3. pc[p] # "idle"
      BY <2>4 DEF ReadTable
    <3>4. pc'[p] \in {"put", "publish"} => call[p].op = "put"
      BY <3>1, <3>2
    <3>5. pc'[p] = "remove" => call[p].op = "remove"
      BY <3>1, <3>2
    <3>6. pc'[p] # "publish"
      BY <3>1, <3>2
    <3> QED
      BY <1>2, <3>2, <3>3, <3>4, <3>5, <3>6
  <2>5. CASE PutFound(p) \/ PutFull(p) \/ PutPublish(p) \/ clht_remove(p)
    BY <1>2, <2>5 DEF PutFound, PutFull, PutPublish, clht_remove
  <2>6. CASE PutReserve(p)
    BY <1>2, <2>6 DEF PutReserve
  <2>7. CASE StatusLock(p) \/ Count(p) \/ StatusUnlock(p) \/ ResizeLock(p) \/ Start(p) \/ Grace(p)
             \/ GraceOver(p) \/ Copy(p) \/ Copied(p) \/ Swap(p) \/ Release(p)
    BY <1>2, <2>7 DEF StatusLock, Count, StatusUnlock, ResizeLock, Start, Grace,
                      GraceOver, Copy, Copied, Swap, Release
  <2> QED
    BY <2>1, <2>2, <2>3, <2>4, <2>5, <2>6, <2>7
       DEF Step, Work, clht_put, ht_status, ht_resize_pes
<1> QED
  BY <1>1, <1>2

(* status_lock lets one thread at a time into ht_status.                    *)
LEMMA LockedStep ==
  ASSUME Locked, NEW p \in Threads, Others(p), LocksMoved(p)
  PROVE  Locked'
<1>1. \A q \in Threads \ {p} : pc'[q] = pc[q]
  BY DEF Others, SameAt
<1> DEFINE In(q) == pc[q] \in InStatus
           Res(q) == pc[q] \in {"start", "release"} \cup Copying
<1>2. /\ \A q, r \in Threads : In(q) /\ In(r) => q = r
      /\ \A q \in Threads : (In(q) => status_lock) /\ (Res(q) => resize_lock)
      /\ \A q \in Threads : Res(q) => In(q)
  BY DEF Locked, InStatus
<1>3. \A q \in Threads \ {p} : (In(q)' <=> In(q)) /\ (Res(q)' <=> Res(q))
  BY <1>1
<1>4. \/ ~In(p)' /\ ~Res(p)' /\ UNCHANGED <<resize_lock, status_lock>>
      \/ ~In(p)' /\ ~Res(p)' /\ status_lock' = TRUE /\ UNCHANGED resize_lock
      \/ ~In(p) /\ ~status_lock /\ In(p)' /\ ~Res(p)' /\ status_lock' = TRUE /\ UNCHANGED resize_lock
      \/ In(p) /\ ~In(p)' /\ ~Res(p)' /\ UNCHANGED resize_lock
      \/ In(p) /\ In(p)' /\ (Res(p)' => Res(p)) /\ UNCHANGED <<resize_lock, status_lock>>
      \/ In(p) /\ In(p)' /\ resize_lock' = TRUE /\ UNCHANGED status_lock
      \/ In(p) /\ In(p)' /\ ~Res(p)' /\ UNCHANGED status_lock
  BY DEF LocksMoved, Outside, InStatus, Copying
<1> HIDE DEF In, Res
<1>5. \A q, r \in Threads : In(q)' /\ In(r)' => q = r
  BY <1>2, <1>3, <1>4
<1>6. \A q \in Threads : In(q)' => status_lock'
  BY <1>2, <1>3, <1>4
<1>7. \A q \in Threads : Res(q)' => resize_lock'
  BY <1>2, <1>3, <1>4
<1> QED
  BY <1>5, <1>6, <1>7 DEF Locked, In, Res

-----------------------------------------------------------------------------
(* The bounds of a resize, in plain implications.                           *)
LEMMA ResizesMeans ==
  ASSUME NEW p \in Threads
  PROVE  Resizes(p) <=>
           /\ pc[p] \in {"resize", "start"} \cup Copying => ht < MaxTables
           /\ pc[p] \in Copying => /\ tab[p] = ht /\ num_buckets[ht + 1] = 2 * num_buckets[ht]
                                   /\ version[ht + 1] = Base(ht + 1)
           /\ pc[p] \in Copying => NotFed(p)
           /\ pc[p] = "copy" => bin[p] \in 0..num_buckets[ht]
           /\ pc[p] = "swap" => bin[p] = num_buckets[ht]
           /\ pc[p] \notin {"copy", "swap"} => bin[p] = 0
BY DEF Resizes

(* Who resizes keeps the others from it.                                    *)
LEMMA OneResizer ==
  ASSUME Locked, NEW p \in Threads, NEW q \in Threads \ {p}, pc[p] \in InStatus
  PROVE  pc[q] \notin InStatus
BY DEF Locked

(* Where a step takes a thread that resizes.                                *)
LEMMA CopyingMoves ==
  ASSUME LocalsOK, NEW p \in Threads, Step(p), pc[p] \in Copying
  PROVE  \/ Copy(p) \/ Swap(p)
         \/ Grace(p) /\ pc[p] = "grace" /\ pc'[p] = "grace" /\ UNCHANGED <<tab, ts, call>>
         \/ /\ GraceOver(p) /\ pc[p] = "grace" /\ pc'[p] = "copy" /\ left[p] = {}
            /\ UNCHANGED <<tab, ts, left, call>>
         \/ /\ pc[p] = "copy" /\ pc'[p] = "swap" /\ bin[p] = num_buckets[tab[p]]
            /\ UNCHANGED <<shared, tab, ts, left, call>>
<1> USE DEF Copying, Goto, LocalsOK, locals
<1>1. Copy(p) \/ Swap(p) \/ Grace(p) \/ GraceOver(p) \/ Copied(p)
  <2>1. ~Invoke(p) /\ ~Return(p) /\ ~CheckResize(p) /\ ~PublishVersion(p) /\ ~ReadTable(p)
        /\ ~GetVersion(p) /\ ~NoUpdate(p) /\ ~Get(p)
    BY DEF Invoke, Return, CheckResize, PublishVersion, ReadTable, GetVersion, NoUpdate, Get
  <2>2. ~clht_put(p) /\ ~clht_remove(p)
    BY DEF clht_put, PutFound, PutFull, PutReserve, PutPublish, clht_remove
  <2>3. ~StatusLock(p) /\ ~Count(p) /\ ~StatusUnlock(p) /\ ~ResizeLock(p) /\ ~Start(p) /\ ~Release(p)
    BY DEF StatusLock, Count, StatusUnlock, ResizeLock, Start, Release
  <2> QED
    BY <2>1, <2>2, <2>3 DEF Step, Work, ht_status, ht_resize_pes
<1>2. CASE Grace(p)
  BY <1>2 DEF Grace
<1>3. CASE GraceOver(p)
  BY <1>3 DEF GraceOver
<1>4. CASE Copied(p)
  BY <1>4 DEF Copied
<1> QED
  BY <1>1, <1>2, <1>3, <1>4

(* The buckets that are fed later stay free.  A write of an update is in a  *)
(* table up to ht.                                                          *)
LEMMA NotFedStep ==
  ASSUME TypeOK, Locked, Versions, NEW p \in Threads, Phase(p), Resizes(p), tab[p] <= ht, Step(p),
         Others(p), LocksMoved(p), NEW q \in Threads, Resizes(q), pc'[q] \in Copying
  PROVE  NotFed(q)'
<1> USE DEF Copying
<1>0. ht \in Tables /\ ht \in Nat /\ LocalsOK /\ num_buckets[ht] \in Nat \ {0} /\ SizesOK
  BY TypeParts, Sized, Bounds
<1>1. CASE Start(p)
  <2>1. /\ UNCHANGED ht /\ pc[p] = "start" /\ ht + 1 \in Tables
        /\ num_buckets' = [num_buckets EXCEPT ![ht + 1] = 2 * num_buckets[ht]]
        /\ table'[ht + 1] = [b \in 0..(2 * num_buckets[ht] - 1) |-> NoEntries]
    BY <1>1, StartEffect
  <2>2. num_buckets'[ht + 1] = 2 * num_buckets[ht]
    BY <1>0, <2>1 DEF SizesOK
  <2> QED
    BY <2>1, <2>2 DEF NotFed, NoEntries, INVLD
<1>2. ~Swap(p)
  <2>1. ASSUME Swap(p) PROVE FALSE
    <3>1. pc[p] = "swap" /\ pc'[p] = "release"
      BY <1>0, <2>1, SwapEffect DEF LocalsOK
    <3>2. q # p
      BY <3>1
    <3>3. pc[q] \in Copying
      BY <3>2 DEF Others, SameAt
    <3> QED
      BY <3>1, <3>2, <3>3, OneResizer DEF InStatus
  <2> QED
    BY <2>1
<1>3. CASE ~Start(p)
  <2>1. pc[q] \in Copying
    BY <1>3 DEF LocksMoved, Outside, InStatus, Others, SameAt
  <2>2. NotFed(q) /\ tab[q] = ht
    BY <2>1, ResizesMeans
  <2>3. CASE Copy(p)
    <3>1. q = p
      BY <2>1, <2>3, OneResizer DEF Copy, InStatus
    <3>2. /\ bin[p] \in 0..(num_buckets[ht] - 1) /\ bin' = [bin EXCEPT ![p] = bin[p] + 1]
          /\ UNCHANGED <<ht, num_buckets>>
          /\ table'[ht + 1] = [b \in 0..(num_buckets[ht + 1] - 1) |->
                                IF b % num_buckets[ht] = bin[p] THEN Fed(p, b) ELSE table[ht + 1][b]]
      BY <2>3, CopyEffect
    <3>3. bin'[p] = bin[p] + 1
      BY <1>0, <3>2 DEF LocalsOK
    <3>4. ASSUME NEW b \in 0..(num_buckets[ht + 1] - 1), bin'[p] <= b % num_buckets[ht]
          PROVE  table'[ht + 1][b] = NoEntries
      <4>1. b % num_buckets[ht] \in Nat
        <5>1. b \in Nat
          OBVIOUS
        <5> QED
          BY <1>0, <5>1, ModTwice
      <4>2. bin[p] <= b % num_buckets[ht] /\ b % num_buckets[ht] # bin[p]
        BY <3>2, <3>3, <3>4, <4>1
      <4> QED
        BY <2>2, <3>1, <3>2, <4>2 DEF NotFed
    <3> QED
      BY <3>1, <3>2, <3>4 DEF NotFed, NoEntries, INVLD
  <2>4. CASE ~Copy(p)
    <3>1. UNCHANGED <<ht, num_buckets, bin>> /\ (~WritesSlot(p) => UNCHANGED table)
      BY <1>2, <1>3, <2>4, SharedStep, WriteEffect DEF Still
    <3>2. WritesSlot(p) => table'[ht + 1] = table[ht + 1]
      <4>1. SUFFICES ASSUME WritesSlot(p), ~UNCHANGED table PROVE table'[ht + 1] = table[ht + 1]
        OBVIOUS
      <4>2. PICK j \in Slots, e \in Entry : SetSlot(p, j, e)
        BY <4>1, WriteEffect
      <4>3. tab[p] # ht + 1
        BY <1>0 DEF LocalsOK, Tables
      <4> QED
        BY <4>2, <4>3 DEF SetSlot
    <3>3. table'[ht + 1] = table[ht + 1]
      BY <3>1, <3>2
    <3> QED
      BY <2>2, <3>1, <3>3 DEF NotFed, NoEntries, INVLD
  <2> QED
    BY <2>3, <2>4
<1> QED
  BY <1>1, <1>3

(* Every step keeps the bounds of a resize.                                 *)
LEMMA ResizesStep ==
  ASSUME TypeOK, Locked, Versions, NEW p \in Threads, Phase(p), Resizes(p), tab[p] <= ht, Step(p),
         Others(p), LocksMoved(p), NEW q \in Threads, Resizes(q)
  PROVE  Resizes(q)'
<1> USE DEF Copying
<1>0. ht \in Tables /\ ht \in Nat /\ MaxTables \in Nat /\ SizesOK
      /\ LocalsOK /\ num_buckets[ht] \in Nat \ {0}
  BY TypeParts, Sized, Bounds, BoundsAssumption
<1>1. (Resizes(q) <=>
           /\ pc[q] \in {"resize", "start"} \cup Copying => ht < MaxTables
           /\ pc[q] \in Copying => /\ tab[q] = ht /\ num_buckets[ht + 1] = 2 * num_buckets[ht]
                                   /\ version[ht + 1] = Base(ht + 1)
           /\ pc[q] \in Copying => NotFed(q)
           /\ pc[q] = "copy" => bin[q] \in 0..num_buckets[ht]
           /\ pc[q] = "swap" => bin[q] = num_buckets[ht]
           /\ pc[q] \notin {"copy", "swap"} => bin[q] = 0)'
  BY DEF Resizes
<1>2. /\ pc[q] \in {"resize", "start"} \cup Copying => ht < MaxTables
      /\ pc[q] \in Copying => /\ tab[q] = ht /\ num_buckets[ht + 1] = 2 * num_buckets[ht]
                              /\ version[ht + 1] = Base(ht + 1)
      /\ pc[q] \in Copying => NotFed(q)
      /\ pc[q] = "copy" => bin[q] \in 0..num_buckets[ht]
      /\ pc[q] = "swap" => bin[q] = num_buckets[ht]
      /\ pc[q] \notin {"copy", "swap"} => bin[q] = 0
  BY ResizesMeans
<1>3. /\ Base(ht + 1)' = Base(ht + 1) \/ ht' # ht
      /\ pc'[q] \in Copying => NotFed(q)'
  BY NotFedStep DEF Base
<1>4. CASE q # p
  <2>1. SameAt(q)
    BY <1>4 DEF Others
  <2>2. CASE pc[q] \in {"resize", "start"} \cup Copying
    <3>1. pc[p] \notin InStatus
      BY <1>4, <2>2, OneResizer DEF InStatus
    <3>2. ~Start(p) /\ ~Copy(p) /\ ~Swap(p)
      BY <3>1 DEF InStatus, Start, Copy, Swap
    <3>3. UNCHANGED <<ht, num_buckets, version>>
      BY <3>2, SharedStep, WriteEffect DEF Still
    <3> QED
      BY <1>1, <1>2, <1>3, <2>1, <3>3 DEF SameAt
  <2>3. CASE pc[q] \notin {"resize", "start"} \cup Copying
    BY <1>1, <1>2, <2>1, <2>3 DEF SameAt
  <2> QED
    BY <2>2, <2>3
<1>5. CASE q = p
  <2>1. CASE Start(p)
    <3>1. /\ ht + 1 \in Tables /\ UNCHANGED ht /\ pc[p] = "start" /\ pc'[p] = "grace"
          /\ tab'[p] = ht /\ bin' = bin
          /\ num_buckets' = [num_buckets EXCEPT ![ht + 1] = 2 * num_buckets[ht]]
          /\ version' = [version EXCEPT ![ht] = version[ht] + 1, ![ht + 1] = version[ht] + 2]
      BY <1>0, <2>1, StartEffect DEF LocalsOK
    <3>2. ht # ht + 1
      BY <1>0
    <3>3. num_buckets'[ht + 1] = 2 * num_buckets[ht] /\ num_buckets'[ht] = num_buckets[ht]
          /\ version'[ht + 1] = version[ht] + 2
      BY <1>0, <3>1, <3>2 DEF SizesOK
    <3>4. ~ \E r \in Threads : pc[r] \in Copying
      BY <3>1, OneResizer DEF InStatus
    <3>5. version[ht] = Base(ht) /\ Base(ht + 1) = Base(ht) + 2
      BY <1>0, <3>4, BaseBounds DEF Versions
    <3> QED
      BY <1>1, <1>2, <1>3, <1>5, <3>1, <3>3, <3>5
  <2>2. CASE Copy(p)
    <3>1. /\ tab[p] = ht /\ bin[p] \in 0..(num_buckets[ht] - 1) /\ bin' = [bin EXCEPT ![p] = bin[p] + 1]
          /\ UNCHANGED <<ht, num_buckets, version, pc, tab>>
      BY <2>2, CopyEffect
    <3>2. bin'[p] \in 0..num_buckets[ht] /\ pc[p] = "copy"
      BY <1>0, <2>2, <3>1 DEF LocalsOK, Copy
    <3> QED
      BY <1>1, <1>2, <1>3, <1>5, <3>1, <3>2
  <2>3. CASE Swap(p)
    <3>1. pc'[p] = "release" /\ bin'[p] = 0
      BY <1>0, <2>3, SwapEffect DEF LocalsOK
    <3> QED
      BY <1>1, <1>5, <3>1
  <2>4. CASE ~Start(p) /\ ~Copy(p) /\ ~Swap(p)
    <3>1. UNCHANGED <<ht, num_buckets, version, bin>>
      BY <2>4, SharedStep, WriteEffect DEF Still
    <3>2. CASE pc'[p] \notin {"resize", "start"} \cup Copying
      <4>1. pc[p] \notin {"copy", "swap"}
        BY <2>4, <3>2 DEF LocksMoved, Outside, InStatus
      <4> QED
        BY <1>1, <1>2, <1>5, <3>1, <3>2, <4>1
    <3>3. CASE pc'[p] \in {"resize", "start"}
      <4>1. pc[p] \notin {"copy", "swap"} /\ (pc[p] = "resize" \/ ht # MaxTables)
        BY <3>3 DEF LocksMoved, Outside, InStatus
      <4>2. ht < MaxTables
        BY <1>0, <1>2, <1>5, <4>1 DEF Tables
      <4> QED
        BY <1>1, <1>2, <1>5, <3>1, <3>3, <4>1, <4>2
    <3>4. CASE pc'[p] \in Copying
      <4>1. pc[p] \in Copying
        BY <2>4, <3>4 DEF LocksMoved, Outside, InStatus
      <4>2. UNCHANGED tab /\ \/ pc'[p] = pc[p]
                             \/ pc[p] = "grace" /\ pc'[p] = "copy"
                             \/ pc[p] = "copy" /\ pc'[p] = "swap" /\ bin[p] = num_buckets[ht]
        BY <1>0, <1>2, <1>5, <2>4, <4>1, CopyingMoves
      <4>3. 0 \in 0..num_buckets[ht]
        BY <1>0
      <4> QED
        BY <1>1, <1>2, <1>3, <1>5, <3>1, <4>1, <4>2, <4>3
    <3> QED
      BY <3>2, <3>3, <3>4
  <2> QED
    BY <2>1, <2>2, <2>3, <2>4
<1> QED
  BY <1>4, <1>5

(* Every step keeps the versions of the tables.                             *)
LEMMA VersionsStep ==
  ASSUME TypeOK, Locked, Versions, NEW p \in Threads, Phase(p), Resizes(p), tab[p] <= ht, Step(p),
         Others(p), LocksMoved(p)
  PROVE  Versions'
<1>0. ht \in Tables /\ ht \in Nat /\ SizesOK /\ LocalsOK /\ num_buckets[ht] \in Nat \ {0}
  BY TypeParts, Sized, Bounds
<1>1. \A q \in Threads \ {p} : pc'[q] = pc[q]
  BY DEF Others, SameAt
<1>2. /\ \A t \in 1..ht : t \in Tables /\ num_buckets[t] \in Nat \ {0}
                          /\ version[t] \in {Base(t), Base(t) + 1}
      /\ version[ht] = IF \E q \in Threads : pc[q] \in Copying THEN Base(ht) + 1 ELSE Base(ht)
  BY Sized DEF Versions
<1>4. CASE Start(p)
  <2>1. /\ ht + 1 \in Tables /\ UNCHANGED ht /\ pc[p] = "start" /\ pc'[p] = "grace"
        /\ num_buckets' = [num_buckets EXCEPT ![ht + 1] = 2 * num_buckets[ht]]
        /\ version' = [version EXCEPT ![ht] = version[ht] + 1, ![ht + 1] = version[ht] + 2]
    BY <1>0, <1>4, StartEffect DEF LocalsOK
  <2>2. ~ \E q \in Threads : pc[q] \in Copying
    BY <2>1, OneResizer DEF InStatus, Copying
  <2>3. version[ht] = Base(ht)
    BY <1>2, <2>2
  <2>4. version'[ht] = Base(ht) + 1
    BY <1>0, <2>1, <2>3 DEF SizesOK
  <2>5. ASSUME NEW t \in 1..ht
        PROVE  num_buckets'[t] > 0 /\ version'[t] \in {Base(t), Base(t) + 1}
    <3>1. t \in Tables /\ t # ht + 1
      BY <1>0, <1>2
    <3>2. num_buckets'[t] = num_buckets[t] /\ (t # ht => version'[t] = version[t])
      BY <1>0, <2>1, <3>1 DEF SizesOK
    <3> QED
      BY <1>2, <2>4, <3>2
  <2>6. \E q \in Threads : pc'[q] \in Copying
    BY <2>1 DEF Copying
  <2> QED
    BY <2>1, <2>4, <2>5, <2>6 DEF Versions, Base, Copying
<1>5. CASE Swap(p)
  <2>1. /\ ht' = ht + 1 /\ pc[p] = "swap" /\ pc'[p] = "release"
        /\ UNCHANGED <<num_buckets, version>>
    BY <1>0, <1>5, SwapEffect DEF LocalsOK
  <2>2. ~ \E q \in Threads : pc'[q] \in Copying
    BY <1>1, <2>1, OneResizer DEF InStatus, Copying
  <2>3. num_buckets[ht + 1] = 2 * num_buckets[ht] /\ version[ht + 1] = Base(ht + 1)
    BY <2>1, ResizesMeans DEF Copying
  <2>4. \A t \in 1..(ht + 1) : t \in 1..ht \/ t = ht + 1
    BY <1>0
  <2>5. \A t \in 1..(ht + 1) : num_buckets[t] > 0 /\ version[t] \in {Base(t), Base(t) + 1}
    BY <1>0, <1>2, <2>3, <2>4
  <2> QED
    BY <2>1, <2>2, <2>3, <2>5 DEF Versions, Base, Copying
<1>6. CASE ~Start(p) /\ ~Swap(p)
  <2>1. UNCHANGED <<ht, num_buckets, version>>
    BY <1>6, SharedStep, WriteEffect, CopyEffect DEF Still
  <2>2. pc'[p] \in Copying <=> pc[p] \in Copying
    BY <1>6 DEF LocksMoved, Outside, InStatus, Copying
  <2>3. (\E q \in Threads : pc'[q] \in Copying) <=> \E q \in Threads : pc[q] \in Copying
    BY <1>1, <2>2
  <2> QED
    BY <1>2, <2>1, <2>3 DEF Versions, Base, Copying
<1> QED
  BY <1>4, <1>5, <1>6

-----------------------------------------------------------------------------
(* The table in use only grows, and so does its version.                    *)
LEMMA HtStep ==
  ASSUME TypeOK, Versions, Versions', NEW p \in Threads, Phase(p), Resizes(p), tab[p] <= ht, Step(p)
  PROVE  /\ ht \in Tables /\ ht' \in Nat /\ version[ht] \in Nat /\ version'[ht'] \in Nat
         /\ Base(ht) \in Nat /\ Base(ht') \in Nat /\ Base(ht) + 1 < MAX_VERSION
         /\ ht' # ht => Swap(p) /\ ht' = ht + 1
         /\ ht <= ht' /\ Base(ht) <= Base(ht') /\ version[ht] <= version'[ht']
<1>0. ht \in Tables /\ ht \in Nat /\ SizesOK /\ version[ht] \in {Base(ht), Base(ht) + 1}
      /\ version[ht] \in Nat /\ Base(ht) \in Nat /\ Base(ht) + 1 < MAX_VERSION
  BY TypeParts, Sized, Bounds, BaseBounds DEF Versions
<1>1. CASE Start(p)
  <2>1. /\ UNCHANGED ht /\ ht + 1 \in Tables
        /\ version' = [version EXCEPT ![ht] = version[ht] + 1, ![ht + 1] = version[ht] + 2]
    BY <1>1, StartEffect
  <2>2. ht # ht + 1
    BY <1>0
  <2>3. version'[ht] = version[ht] + 1
    BY <1>0, <2>1, <2>2 DEF SizesOK
  <2> QED
    BY <1>0, <2>1, <2>3
<1>2. CASE Swap(p)
  <2>1. ht' = ht + 1 /\ ht + 1 \in Tables /\ UNCHANGED version
    BY <1>2, SwapEffect
  <2>2. version'[ht'] \in {Base(ht'), Base(ht') + 1}
    <3>1. ht' \in 1..ht'
      BY <1>0, <2>1
    <3> QED
      BY <3>1 DEF Versions, Base
  <2>3. Base(ht') = Base(ht) + 2
    BY <1>0, <2>1, BaseBounds
  <2> QED
    BY <1>0, <1>2, <2>1, <2>2, <2>3
<1>3. CASE ~Start(p) /\ ~Swap(p)
  <2>1. UNCHANGED <<ht, version>>
    BY <1>3, SharedStep, WriteEffect, CopyEffect DEF Still
  <2> QED
    BY <1>0, <2>1
<1> QED
  BY <1>1, <1>2, <1>3

(* How a thread gets to read the table for an update, and into one; what it *)
(* publishes.                                                               *)
LEMMA UpdateMoves ==
  ASSUME LocalsOK, ht \in Tables, NEW p \in Threads, Phase(p), Step(p)
  PROVE  /\ pc'[p] = "table" /\ call'[p].op # "get" =>
              pc[p] = "check" /\ ~resize_lock /\ ts'[p] = ts[p] /\ tab'[p] = tab[p]
         /\ Updating(p)' => /\ ts'[p] = ts[p] /\ call'[p] = call[p]
                            /\ \/ pc[p] = "table" /\ call[p].op # "get" /\ tab'[p] = ht
                               \/ Updating(p) /\ tab'[p] = tab[p]
         /\ tab'[p] \in {tab[p], ht, 1}
         /\ \/ ts'[p] = ts[p]
            \/ ts'[p] \in {version[ht], version[tab[p]], MAX_VERSION}
            \/ Start(p) /\ ts'[p] = version[ht] + 1
<1> USE DEF Updating, Goto, LocalsOK, locals, shared
<1>1. CASE Invoke(p)
  <2>1. PICK c \in Calls : /\ call' = [call EXCEPT ![p] = c]
                           /\ pc' = [pc EXCEPT ![p] = IF c.op = "get" THEN "table" ELSE "check"]
                           /\ UNCHANGED <<ts, tab>>
    BY <1>1 DEF Invoke
  <2> QED
    BY <2>1
<1>2. CASE Return(p) \/ CheckResize(p) \/ PublishVersion(p) \/ GetVersion(p) \/ Get(p)
           \/ NoUpdate(p)
  BY <1>2 DEF Return, CheckResize, PublishVersion, GetVersion, Get, NoUpdate
<1>3. CASE ReadTable(p)
  <2>1. call[p].op \in {"put", "get", "remove"}
    BY <1>3, CallTypes DEF ReadTable, Phase
  <2>2. pc[p] = "table" /\ pc'[p] = (IF call[p].op = "get" THEN "used" ELSE call[p].op)
        /\ tab'[p] = ht /\ UNCHANGED <<ts, call>>
    BY <1>3 DEF ReadTable
  <2>3. pc'[p] # "table" /\ (pc'[p] \in {"put", "publish", "remove"} => call[p].op # "get")
    BY <2>1, <2>2
  <2> QED
    BY <2>2, <2>3
<1>4. CASE clht_put(p) \/ clht_remove(p)
  BY <1>4 DEF clht_put, PutFound, PutFull, PutReserve, PutPublish, clht_remove
<1>5. CASE StatusLock(p) \/ Count(p) \/ StatusUnlock(p) \/ ResizeLock(p) \/ Grace(p)
           \/ GraceOver(p) \/ Copy(p) \/ Copied(p) \/ Swap(p) \/ Release(p)
  BY <1>5 DEF StatusLock, Count, StatusUnlock, ResizeLock, Grace,
              GraceOver, Copy, Copied, Swap, Release
<1>6. CASE Start(p)
  BY <1>6 DEF Start
<1> QED
  BY <1>1, <1>2, <1>3, <1>4, <1>5, <1>6 DEF Step, Work, ht_status, ht_resize_pes

(* Every step keeps what is known of a published version, ...               *)
LEMMA PublishedStep ==
  ASSUME TypeOK, Locked, Versions, Versions', NEW p \in Threads, Phase(p), Resizes(p), Published(p),
         Waited(p), Step(p), Others(p), LocksMoved(p), NEW q \in Threads, Published(q)
  PROVE  Published(q)'
<1>0. tab[p] <= ht /\ LocalsOK /\ SizesOK
  BY TypeParts DEF Published
<1>1. /\ ht \in Tables /\ ht \in Nat /\ ht' \in Nat /\ version[ht] \in Nat /\ version'[ht'] \in Nat
      /\ Base(ht) \in Nat /\ Base(ht') \in Nat /\ Base(ht) + 1 < MAX_VERSION
      /\ ht' # ht => Swap(p) /\ ht' = ht + 1
      /\ ht <= ht' /\ Base(ht) <= Base(ht') /\ version[ht] <= version'[ht']
  BY <1>0, HtStep, Bounds
<1>2. ts[q] \in Nat /\ tab[q] \in Tables /\ tab[q] \in Nat /\ tab[q] <= ht
  <2>1. Tables \subseteq Nat
    BY Bounds
  <2>2. ts[q] \in Nat
    BY <1>0, Bounds DEF LocalsOK
  <2> QED
    BY <1>0, <2>1, <2>2 DEF LocalsOK, Published
<1>3. CASE q # p
  <2>1. SameAt(q)
    BY <1>3 DEF Others
  <2>2. tab'[q] <= ht' /\ (ts'[q] <= version'[ht'] \/ ts'[q] = MAX_VERSION)
    BY <1>1, <1>2, <2>1 DEF SameAt, Published
  <2>3. pc'[q] = "table" /\ call'[q].op # "get" => ts'[q] <= Base(ht') \/ ts'[q] = MAX_VERSION
    BY <1>1, <1>2, <2>1 DEF SameAt, Published
  <2>4. Updating(q)' => ts'[q] <= Base(tab'[q]) \/ ts'[q] = MAX_VERSION
    BY <2>1 DEF SameAt, Published, Updating
  <2>5. Updating(q)' /\ tab'[q] # ht' => ts'[q] = MAX_VERSION
    <3>1. CASE tab[q] # ht
      BY <2>1, <3>1 DEF SameAt, Published, Updating
    <3>2. CASE tab[q] = ht /\ ht' # ht /\ Updating(q)
      <4>1. pc[p] = "swap"
        BY <1>1, <3>2 DEF Swap
      <4> QED
        BY <2>1, <3>2, <4>1 DEF SameAt, Waited, Copying
    <3> QED
      BY <2>1, <3>1, <3>2 DEF SameAt, Updating
  <2> QED
    BY <2>2, <2>3, <2>4, <2>5 DEF Published, Base
<1>4. CASE q = p
  <2>1. /\ pc'[p] = "table" /\ call'[p].op # "get" =>
             pc[p] = "check" /\ ~resize_lock /\ ts'[p] = ts[p] /\ tab'[p] = tab[p]
        /\ Updating(p)' => /\ ts'[p] = ts[p]
                           /\ \/ pc[p] = "table" /\ call[p].op # "get" /\ tab'[p] = ht
                              \/ Updating(p) /\ tab'[p] = tab[p]
        /\ tab'[p] \in {tab[p], ht, 1}
        /\ \/ ts'[p] = ts[p]
           \/ ts'[p] \in {version[ht], version[tab[p]], MAX_VERSION}
           \/ Start(p) /\ ts'[p] = version[ht] + 1
    BY <1>0, <1>1, UpdateMoves
  <2>2. tab'[p] <= ht'
    BY <1>1, <1>2, <1>4, <2>1 DEF Tables
  <2>3. ts'[p] <= version'[ht'] \/ ts'[p] = MAX_VERSION
    <3>1. version[tab[p]] <= version[ht]
      <4>1. tab[p] \in 1..ht
        BY <1>1, <1>2, <1>4 DEF Tables
      <4>2. /\ version[tab[p]] \in {Base(tab[p]), Base(tab[p]) + 1}
            /\ version[ht] \in {Base(ht), Base(ht) + 1}
        BY <4>1, Sized DEF Versions
      <4>3. tab[p] = ht \/ tab[p] \in 1..(ht - 1)
        BY <1>1, <4>1
      <4>4. tab[p] = ht \/ Base(tab[p]) + 2 <= Base(ht)
        BY <1>1, <4>3, BaseBounds
      <4>5. Base(tab[p]) \in Nat
        BY <1>2, <1>4, BaseBounds
      <4> QED
        BY <1>1, <4>2, <4>4, <4>5
    <3>2. version[tab[p]] \in Nat
      BY <1>0, <1>2, <1>4, Bounds DEF SizesOK
    <3>3. CASE Start(p) /\ ts'[p] = version[ht] + 1
      <4>1. ht + 1 \in Tables /\ UNCHANGED ht /\ ht # ht + 1
            /\ version' = [version EXCEPT ![ht] = version[ht] + 1, ![ht + 1] = version[ht] + 2]
        BY <1>1, <3>3, StartEffect
      <4>2. version'[ht'] = version[ht] + 1
        BY <1>0, <1>1, <4>1 DEF SizesOK
      <4> QED
        BY <1>1, <3>3, <4>2
    <3>4. CASE ts'[p] = ts[p]
      BY <1>1, <1>2, <1>4, <3>4 DEF Published
    <3>5. CASE ts'[p] \in {version[ht], version[tab[p]], MAX_VERSION}
      BY <1>1, <3>1, <3>2, <3>5
    <3> QED
      BY <2>1, <3>3, <3>4, <3>5
  <2>4. pc'[p] = "table" /\ call'[p].op # "get" => ts'[p] <= Base(ht') \/ ts'[p] = MAX_VERSION
    <3>1. ~resize_lock => version[ht] = Base(ht)
      BY DEF Locked, Versions
    <3> QED
      BY <1>1, <1>2, <1>4, <2>1, <3>1 DEF Published
  <2>5. Updating(p)' => ht' = ht
    <3>1. Swap(p) => pc'[p] = "release"
      BY <1>0, SwapEffect DEF LocalsOK
    <3> QED
      BY <1>1, <3>1 DEF Updating
  <2>6. Updating(p)' => ts'[p] <= Base(tab'[p]) \/ ts'[p] = MAX_VERSION
    BY <1>4, <2>1 DEF Published, Updating
  <2>7. Updating(p)' /\ tab'[p] # ht' => ts'[p] = MAX_VERSION
    BY <1>4, <2>1, <2>5 DEF Published
  <2> QED
    BY <1>4, <2>2, <2>3, <2>4, <2>6, <2>7 DEF Published, Base
<1> QED
  BY <1>3, <1>4

(* A version that is new enough is the maximum for a thread in an update,   *)
(* and stays so until the copy is over.                                     *)
InUpdate(q) == (pc[q] = "table" /\ call[q].op # "get") \/ (Updating(q) /\ tab[q] = ht)

(* ... and what a resizer knows that has waited.                            *)
LEMMA WaitedStep ==
  ASSUME TypeOK, Locked, Versions, NEW p \in Threads, Phase(p), Resizes(p), Published(p), Step(p),
         Others(p), LocksMoved(p), NEW r \in Threads, Waited(r), Resizes(r),
         \A q \in Threads : Published(q)
  PROVE  Waited(r)'
<1> USE DEF Copying
<1>0. tab[p] <= ht /\ LocalsOK /\ SizesOK /\ ht \in Tables /\ ht \in Nat
  BY TypeParts, Bounds DEF Published
<1>1. CASE r # p
  <2>1. SameAt(r)
    BY <1>1 DEF Others
  <2>2. CASE pc[r] \in Copying
    <3>1. pc[p] \notin InStatus /\ resize_lock
      BY <1>1, <2>2, OneResizer DEF InStatus, Locked
    <3>2. UNCHANGED ht
      <4>1. ~Start(p) /\ ~Copy(p) /\ ~Swap(p)
        BY <3>1 DEF Start, Copy, Swap, InStatus
      <4> QED
        BY <1>0, <4>1, SharedStep, WriteEffect DEF Still
    <3>3. ASSUME NEW q \in Threads \ left[r], InUpdate(q)'
          PROVE  ts'[q] = MAX_VERSION
      <4>1. CASE q # p
        <5>1. SameAt(q)
          BY <4>1 DEF Others
        <5> QED
          BY <2>2, <3>2, <3>3, <5>1 DEF SameAt, InUpdate, Updating, Waited
      <4>2. CASE q = p
        <5>1. ts'[p] = ts[p] /\ InUpdate(p)
          BY <1>0, <3>1, <3>2, <3>3, <4>2, UpdateMoves DEF InUpdate
        <5> QED
          BY <2>2, <3>3, <4>2, <5>1 DEF InUpdate, Waited
      <4> QED
        BY <4>1, <4>2
    <3> QED
      BY <2>1, <2>2, <3>3 DEF SameAt, Waited, InUpdate
  <2>3. CASE pc[r] \notin Copying
    BY <2>1, <2>3 DEF SameAt, Waited
  <2> QED
    BY <2>2, <2>3
<1>2. CASE r = p
  <2>1. CASE pc[p] \notin Copying /\ pc'[p] \notin Copying
    BY <1>2, <2>1 DEF Waited
  <2>2. CASE pc[p] \notin Copying /\ pc'[p] \in Copying
    <3>1. Start(p)
      BY <2>2 DEF LocksMoved, Outside, InStatus
    <3>2. left'[p] = Threads /\ pc'[p] = "grace"
      BY <1>0, <3>1, StartEffect DEF LocalsOK
    <3> QED
      BY <1>2, <3>2 DEF Waited
  <2>3. CASE pc[p] \in Copying
    <3>1. ASSUME NEW q \in Threads, UNCHANGED <<ht, tab, ts, call>>, pc'[p] \in Copying
          PROVE  InUpdate(q)' <=> InUpdate(q)
      <4>1. q # p => pc'[q] = pc[q]
        BY DEF Others, SameAt
      <4>2. ~InUpdate(p) /\ ~InUpdate(p)'
        BY <2>3, <3>1 DEF InUpdate, Updating
      <4> QED
        BY <3>1, <4>1, <4>2 DEF InUpdate, Updating
    <3>2. /\ \A q \in Threads \ left[p] : InUpdate(q) => ts[q] = MAX_VERSION
          /\ pc[p] \in {"copy", "swap"} => left[p] = {}
      BY <1>2, <2>3 DEF Waited, InUpdate
    <3>3. CASE Copy(p)
      <4>1. UNCHANGED <<ht, tab, ts, call, pc, left>>
        BY <3>3, CopyEffect DEF Copy
      <4> QED
        BY <1>2, <2>3, <3>1, <3>2, <4>1 DEF Waited, InUpdate
    <3>4. CASE Swap(p)
      <4>1. pc'[p] = "release"
        BY <1>0, <3>4, SwapEffect DEF LocalsOK
      <4> QED
        BY <1>2, <4>1 DEF Waited
    <3>5. CASE Grace(p) /\ pc[p] = "grace" /\ pc'[p] = "grace" /\ UNCHANGED <<tab, ts, call>>
      <4>1. PICK s \in left[p] :
              left' = [left EXCEPT ![p] = IF ts[s] >= version[tab[p]] THEN left[p] \ {s} ELSE Threads]
        BY <3>5 DEF Grace
      <4>2. UNCHANGED ht
        BY <3>5 DEF Grace, shared
      <4>3. ASSUME NEW q \in Threads \ left'[p], InUpdate(q)'
            PROVE  ts'[q] = MAX_VERSION
        <5>1. InUpdate(q)
          BY <3>1, <3>5, <4>2, <4>3
        <5>2. q \notin left[p] \/ ts[q] >= version[tab[p]]
          <6>1. left'[p] = IF ts[s] >= version[tab[p]] THEN left[p] \ {s} ELSE Threads
            BY <1>0, <4>1 DEF LocalsOK
          <6>2. q \in Threads /\ q \notin left'[p]
            BY <4>3
          <6>3. ts[s] >= version[tab[p]]
            BY <6>1, <6>2, Zenon
          <6>4. left'[p] = left[p] \ {s}
            BY <6>1, <6>3, Zenon
          <6>5. CASE q = s
            BY <6>3, <6>5
          <6>6. CASE q # s
            BY <6>2, <6>4, <6>6
          <6> QED
            BY <6>5, <6>6
        <5>3. CASE q \notin left[p]
          BY <3>2, <3>5, <5>1, <5>3
        <5>4. CASE ts[q] >= version[tab[p]]
          <6>1. version[tab[p]] = Base(ht) + 1 /\ Base(ht) \in Nat
            BY <1>0, <1>2, <3>5, BaseBounds, ResizesMeans DEF Versions
          <6>2. ts[q] <= Base(ht) \/ ts[q] = MAX_VERSION
            BY <5>1 DEF InUpdate, Published
          <6>3. ts[q] \in Nat
            BY <1>0, Bounds DEF LocalsOK
          <6> QED
            BY <3>5, <5>4, <6>1, <6>2, <6>3
        <5> QED
          BY <5>2, <5>3, <5>4
      <4> QED
        BY <1>2, <3>5, <4>3 DEF Waited, InUpdate
    <3>6. CASE /\ GraceOver(p) /\ pc[p] = "grace" /\ pc'[p] = "copy" /\ left[p] = {}
               /\ UNCHANGED <<tab, ts, left, call>>
      <4>1. UNCHANGED ht
        BY <3>6 DEF GraceOver, shared
      <4> QED
        BY <1>2, <3>1, <3>2, <3>6, <4>1 DEF Waited, InUpdate
    <3>7. CASE /\ pc[p] = "copy" /\ pc'[p] = "swap" /\ bin[p] = num_buckets[tab[p]]
               /\ UNCHANGED <<shared, tab, ts, left, call>>
      <4>1. UNCHANGED ht
        BY <3>7 DEF shared
      <4> QED
        BY <1>2, <3>1, <3>2, <3>7, <4>1 DEF Waited, InUpdate
    <3> QED
      BY <1>0, <2>3, <3>3, <3>4, <3>5, <3>6, <3>7, CopyingMoves
  <2> QED
    BY <2>1, <2>2, <2>3
<1> QED
  BY <1>1, <1>2

-----------------------------------------------------------------------------
(* A step on a slot changes one bucket.                                     *)
LEMMA SlotEffect ==
  ASSUME TypeOK, Versions, NEW p \in Threads, tab[p] <= ht, call[p] \in Calls,
         NEW j \in Slots, NEW e \in Entry, SetSlot(p, j, e)
  PROVE  /\ \A t \in Tables : t # tab[p] => table'[t] = table[t]
         /\ \A b \in 0..(num_buckets[tab[p]] - 1) :
              b # Bin(p) => table'[tab[p]][b] = table[tab[p]][b]
         /\ table'[tab[p]][Bin(p)] = [Bucket(p) EXCEPT ![j] = e]
<1> DEFINE u == tab[p]
           h == Bin(p)
           old == Bucket(p)
<1>1. u \in Tables /\ h \in 0..(num_buckets[u] - 1) /\ old \in [Slots -> Entry]
      /\ old = table[u][h]
  BY BucketExists DEF Bucket
<1>2. table = [t \in Tables |-> table[t]]
      /\ table[u] \in [0..(num_buckets[u] - 1) -> [Slots -> Entry]]
  BY <1>1 DEF TypeOK
<1>3. table' = [table EXCEPT ![u][h][j] = e]
  BY DEF SetSlot
<1> HIDE DEF u, h, old
<1>4. table' = [t \in Tables |-> IF t = u THEN [table[u] EXCEPT ![h] = [table[u][h] EXCEPT ![j] = e]]
                                          ELSE table[t]]
  BY <1>1, <1>2, <1>3
<1>5. \A t \in Tables : t # u => table'[t] = table[t]
  BY <1>4
<1>6. table'[u] = [table[u] EXCEPT ![h] = [old EXCEPT ![j] = e]]
  BY <1>1, <1>4
<1>7. table'[u][h] = [old EXCEPT ![j] = e]
  BY <1>1, <1>2, <1>6
<1>8. \A b \in 0..(num_buckets[u] - 1) : b # h => table'[u][b] = table[u][b]
  BY <1>1, <1>2, <1>6
<1> QED
  BY <1>5, <1>7, <1>8 DEF u, h, old

(* No key twice in a bucket.                                                *)
Once(bucket) == \A k \in Keys : \A i, j \in Holding(bucket, k) : i = j

(* Every step keeps each key once in a bucket.                              *)
LEMMA OnceStep ==
  ASSUME TypeOK, Versions, NEW p \in Threads, Phase(p), Resizes(p), tab[p] <= ht, Step(p), KeysOnce
  PROVE  KeysOnce'
<1>0. SizesOK /\ ht \in Tables /\ ht \in 1..ht
  BY TypeParts, Sized
<1>1. \A t \in Tables : \A b \in 0..(num_buckets[t] - 1) : Once(table[t][b])
  BY DEF KeysOnce, Once
<1>2. SUFFICES ASSUME NEW t \in Tables, NEW b \in 0..(num_buckets'[t] - 1)
               PROVE  Once(table'[t][b])
  BY DEF KeysOnce, Once, Holding
<1>3. CASE num_buckets' = num_buckets /\ table'[t][b] = table[t][b]
  BY <1>1, <1>2, <1>3
<1>4. CASE WritesSlot(p)
  <2>1. /\ call[p] \in Calls /\ UNCHANGED num_buckets
        /\ \/ UNCHANGED table
           \/ \E j \in Slots, e \in Entry :
                /\ SetSlot(p, j, e)
                /\ e.state = "VALID" => /\ e.key = call[p].key
                                        /\ Held(Bucket(p), call[p].key) = 0
    BY <1>4, WriteEffect
  <2>2. CASE ~ UNCHANGED table /\ t = tab[p] /\ b = Bin(p)
    <3>1. PICK j \in Slots, e \in Entry :
                /\ SetSlot(p, j, e)
                /\ e.state = "VALID" => /\ e.key = call[p].key
                                        /\ Held(Bucket(p), call[p].key) = 0
      BY <2>1, <2>2
    <3>2. table'[t][b] = [Bucket(p) EXCEPT ![j] = e] /\ Bucket(p) = table[t][b]
      BY <2>1, <2>2, <3>1, SlotEffect DEF Bucket
    <3>3. Bucket(p) \in [Slots -> Entry] /\ call[p].key \in Keys
      BY <2>1, BucketExists
    <3>4. e.state = "VALID" => Holding(Bucket(p), call[p].key) = {}
      BY <3>1, <3>3, HeldTypes
    <3>5. Once(Bucket(p))
      BY <1>1, <1>2, <2>1, <3>2
    <3> DEFINE old == Bucket(p)
    <3> HIDE DEF old
    <3>6. ASSUME NEW k \in Keys, NEW l \in Holding([old EXCEPT ![j] = e], k), old \in [Slots -> Entry]
          PROVE  l \in Holding(old, k) \/ (l = j /\ e.state = "VALID" /\ e.key = k)
      <4>1. l \in Slots /\ [old EXCEPT ![j] = e][l].state = "VALID" /\ [old EXCEPT ![j] = e][l].key = k
        BY DEF Holding
      <4>2. [old EXCEPT ![j] = e][l] = IF l = j THEN e ELSE old[l]
        BY <3>6, <4>1
      <4>3. CASE l = j
        BY <4>1, <4>2, <4>3
      <4>4. CASE l # j
        BY <4>1, <4>2, <4>4 DEF Holding
      <4> QED
        BY <4>3, <4>4
    <3>7. ASSUME NEW k \in Keys, NEW l \in Holding([old EXCEPT ![j] = e], k),
                 NEW m \in Holding([old EXCEPT ![j] = e], k)
          PROVE  l = m
      <4>1. l \in Holding(old, k) \/ (l = j /\ e.state = "VALID" /\ e.key = k)
        BY <3>3, <3>6 DEF old
      <4>2. m \in Holding(old, k) \/ (m = j /\ e.state = "VALID" /\ e.key = k)
        BY <3>3, <3>6 DEF old
      <4>3. e.state = "VALID" /\ e.key = k => Holding(old, k) = {}
        BY <3>1, <3>4 DEF old
      <4>4. l \in Holding(old, k) /\ m \in Holding(old, k) => l = m
        BY <3>5 DEF old, Once
      <4> QED
        BY <4>1, <4>2, <4>3, <4>4
    <3> QED
      BY <3>2, <3>7 DEF old, Once
  <2>3. CASE UNCHANGED table \/ t # tab[p] \/ b # Bin(p)
    <3>1. ASSUME NEW j \in Slots, NEW e \in Entry, SetSlot(p, j, e), t # tab[p] \/ b # Bin(p)
          PROVE  table'[t][b] = table[t][b]
      <4>1. /\ \A u \in Tables : u # tab[p] => table'[u] = table[u]
            /\ \A c \in 0..(num_buckets[tab[p]] - 1) :
                 c # Bin(p) => table'[tab[p]][c] = table[tab[p]][c]
        BY <2>1, <3>1, SlotEffect
      <4> QED
        BY <1>2, <2>1, <3>1, <4>1
    <3>2. table'[t][b] = table[t][b]
      BY <2>1, <2>3, <3>1
    <3> QED
      BY <1>3, <2>1, <3>2
  <2> QED
    BY <2>2, <2>3
<1>5. CASE Start(p)
  <2>1. /\ ht + 1 \in Tables
        /\ num_buckets' = [num_buckets EXCEPT ![ht + 1] = 2 * num_buckets[ht]]
        /\ \A u \in Tables \ {ht + 1} : table'[u] = table[u]
        /\ table'[ht + 1] = [c \in 0..(2 * num_buckets[ht] - 1) |-> NoEntries]
    BY <1>5, StartEffect
  <2>2. CASE t = ht + 1
    <3>1. num_buckets'[t] = 2 * num_buckets[ht]
      BY <1>0, <2>1, <2>2 DEF SizesOK
    <3>2. table'[t][b] = NoEntries
      BY <1>2, <2>1, <2>2, <3>1
    <3> QED
      BY <3>2 DEF Once, Holding, NoEntries, INVLD
  <2>3. CASE t # ht + 1
    <3>1. num_buckets'[t] = num_buckets[t] /\ table'[t][b] = table[t][b]
      BY <1>0, <2>1, <2>3 DEF SizesOK
    <3> QED
      BY <1>1, <1>2, <3>1
  <2> QED
    BY <2>2, <2>3
<1>6. CASE Copy(p)
  <2>1. /\ tab[p] = ht /\ num_buckets[ht + 1] = 2 * num_buckets[ht] /\ UNCHANGED num_buckets
        /\ num_buckets[ht] \in Nat \ {0} /\ bin[p] \in 0..(num_buckets[ht] - 1)
        /\ \A j \in Slots : table[tab[p]][bin[p]][j] \in Entry
        /\ \A u \in Tables \ {ht + 1} : table'[u] = table[u]
        /\ table'[ht + 1] = [c \in 0..(num_buckets[ht + 1] - 1) |->
                                IF c % num_buckets[ht] = bin[p] THEN Fed(p, c)
                                                                ELSE table[ht + 1][c]]
    BY <1>6, CopyEffect
  <2>2. CASE t = ht + 1 /\ b % num_buckets[ht] = bin[p]
    <3>1. table'[t][b] = Fed(p, b)
      BY <1>2, <2>1, <2>2
    <3>2. Once(table[tab[p]][bin[p]])
      BY <1>0, <1>1, <2>1
    <3>3. ASSUME NEW k \in Keys, NEW i \in Holding(Fed(p, b), k),
                 NEW j \in Holding(Fed(p, b), k)
          PROVE  i = j
      <4>1. i \in Slots /\ Fed(p, b)[i].state = "VALID" /\ Fed(p, b)[i].key = k
            /\ j \in Slots /\ Fed(p, b)[j].state = "VALID" /\ Fed(p, b)[j].key = k
        BY DEF Holding
      <4>0. \A a \in Slots : Fed(p, b)[a].state = "VALID" =>
              \E l \in Moving(p, b) : /\ Rank(Moving(p, b), l) = a
                                      /\ Fed(p, b)[a] = table[tab[p]][bin[p]][l]
        <5>1. \A a \in Slots : table[tab[p]][bin[p]][a] \in Entry
          BY <2>1
        <5> QED
          BY <5>1, SeqEntries
      <4>2. PICK l \in Moving(p, b) : /\ Rank(Moving(p, b), l) = i
                                      /\ Fed(p, b)[i] = table[tab[p]][bin[p]][l]
        BY <4>0, <4>1
      <4>3. PICK m \in Moving(p, b) : /\ Rank(Moving(p, b), m) = j
                                      /\ Fed(p, b)[j] = table[tab[p]][bin[p]][m]
        BY <4>0, <4>1
      <4>4. l \in Slots /\ m \in Slots
        BY DEF Moving
      <4>5. l \in Holding(table[tab[p]][bin[p]], k) /\ m \in Holding(table[tab[p]][bin[p]], k)
        BY <4>1, <4>2, <4>3, <4>4 DEF Holding
      <4>6. l = m
        BY <3>2, <4>5 DEF Once
      <4> QED
        BY <4>2, <4>3, <4>6
    <3> QED
      BY <3>1, <3>3 DEF Once
  <2>3. CASE t = ht + 1 /\ b % num_buckets[ht] # bin[p]
    <3>1. table'[t][b] = table[t][b]
      BY <1>2, <2>1, <2>3
    <3> QED
      BY <1>3, <2>1, <3>1
  <2>4. CASE t # ht + 1
    BY <1>3, <2>1, <2>4
  <2> QED
    BY <2>2, <2>3, <2>4
<1>7. CASE Still \/ Swap(p)
  BY <1>3, <1>7, SwapEffect DEF Still
<1> QED
  BY <1>4, <1>5, <1>6, <1>7, SharedStep

-----------------------------------------------------------------------------
(* A search for a key finds in a copied bucket what it finds in the bucket  *)
(* it was copied from.                                                      *)
LEMMA CopyKeeps ==
  ASSUME NEW p \in Threads, NEW b, NEW k \in Keys, clht_hash(NewSize(p), k) = b,
         \A j \in Slots : table[tab[p]][bin[p]][j] \in Entry, Once(table[tab[p]][bin[p]])
  PROVE  Held(Fed(p, b), k) = Held(table[tab[p]][bin[p]], k)
<1> DEFINE old == table[tab[p]][bin[p]]
           new == Fed(p, b)
<1>1. /\ \A j \in Slots : new[j].state = "VALID" =>
           \E l \in Moving(p, b) : Rank(Moving(p, b), l) = j /\ new[j] = old[l]
      /\ \A l \in Moving(p, b) : /\ Rank(Moving(p, b), l) \in Slots
                                 /\ new[Rank(Moving(p, b), l)] = old[l]
  BY SeqEntries
<1>2. \A l \in Holding(old, k) : l \in Moving(p, b) /\ old[l].state = "VALID" /\ old[l].key = k
  BY DEF Holding, Moving
<1>3. \A l \in Moving(p, b) : l \in Slots /\ old[l].state = "VALID"
  BY DEF Moving
<1>4. Once(old)
  OBVIOUS
<1> HIDE DEF old, new
<1>5. ASSUME NEW i \in Holding(new, k)
      PROVE  \E l \in Holding(old, k) : new[i] = old[l]
  <2>1. i \in Slots /\ new[i].state = "VALID" /\ new[i].key = k
    BY DEF Holding
  <2>2. PICK l \in Moving(p, b) : new[i] = old[l]
    BY <1>1, <2>1
  <2>3. l \in Holding(old, k)
    BY <1>3, <2>1, <2>2 DEF Holding
  <2> QED
    BY <2>2, <2>3
<1>6. ASSUME NEW l \in Holding(old, k)
      PROVE  Holding(new, k) # {}
  <2>1. Rank(Moving(p, b), l) \in Slots /\ new[Rank(Moving(p, b), l)] = old[l]
    BY <1>1, <1>2
  <2>2. Rank(Moving(p, b), l) \in Holding(new, k)
    BY <1>2, <2>1 DEF Holding
  <2> QED
    BY <2>2
<1>7. CASE Holding(old, k) = {}
  <2>1. Holding(new, k) = {}
    BY <1>5, <1>7
  <2> QED
    BY <1>7, <2>1 DEF Held, old, new
<1>8. CASE Holding(old, k) # {}
  <2> DEFINE l == CHOOSE j \in Holding(old, k) : TRUE
             i == CHOOSE j \in Holding(new, k) : TRUE
  <2>1. l \in Holding(old, k) /\ Holding(new, k) # {}
    BY <1>6, <1>8
  <2>2. i \in Holding(new, k)
    BY <2>1
  <2>3. Held(old, k) = old[l].val /\ Held(new, k) = new[i].val
    BY <1>8, <2>1 DEF Held
  <2> HIDE DEF l, i
  <2>4. PICK m \in Holding(old, k) : new[i] = old[m]
    BY <1>5, <2>2
  <2>5. m = l
    BY <1>4, <2>1, <2>4 DEF Once
  <2> QED
    BY <2>3, <2>4, <2>5 DEF old, new
<1> QED
  BY <1>7, <1>8

(* The buckets copied so far hold what the old ones hold, unless an update  *)
(* was overtaken.                                                           *)
LEMMA CopiesStep ==
  ASSUME TypeOK, Locked, Versions, KeysOnce, Watched, NEW p \in Threads, Phase(p), Resizes(p),
         tab[p] <= ht, Step(p), Watch, Others(p), LocksMoved(p),
         NEW r \in Threads, Copies(r), Resizes(r)
  PROVE  Copies(r)'
<1> USE DEF Copying
<1>0. LocalsOK /\ SizesOK /\ EntriesOK /\ ht \in Tables /\ ht \in 1..ht /\ ht \in Nat
      /\ Keys \subseteq Nat /\ num_buckets[ht] \in Nat \ {0}
  BY TypeParts, Sized, Bounds
<1>1. SUFFICES ASSUME pc'[r] \in {"copy", "swap"}, ~overtaken', NEW k \in Keys,
                      clht_hash(num_buckets'[ht'], k) < bin'[r]
               PROVE  Lookup(ht + 1, k)' = Lookup(ht, k)'
  BY DEF Copies, clht_hash
<1>2. ~overtaken /\ \A q \in Threads : ~(Updating(q) /\ Settled(tab[q]))
  BY <1>1 DEF Watch, Watched
<1>3. CASE UNCHANGED <<ht, num_buckets, table>> /\ bin'[r] = bin[r] /\ pc[r] \in {"copy", "swap"}
  BY <1>1, <1>2, <1>3 DEF Copies, Lookup, clht_hash
<1>4. CASE r # p
  <2>1. SameAt(r)
    BY <1>4 DEF Others
  <2>2. pc[r] \in {"copy", "swap"} /\ bin'[r] = bin[r] /\ tab[r] = ht
    BY <1>1, <2>1, ResizesMeans DEF SameAt
  <2>3. pc[p] \notin InStatus
    BY <1>4, <2>2, OneResizer DEF InStatus
  <2>4. ~Start(p) /\ ~Copy(p) /\ ~Swap(p)
    BY <2>3 DEF Start, Copy, Swap, InStatus
  <2>5. ~WritesSlot(p)
    <3>1. Settled(tab[p])
      BY <2>2 DEF Settled
    <3> QED
      BY <1>2, <3>1, WriteEffect
  <2>6. Still
    BY <2>4, <2>5, SharedStep
  <2> QED
    BY <1>3, <2>2, <2>6 DEF Still
<1>5. CASE r = p
  <2>1. pc[p] \in Copying
    BY <1>1, <1>5 DEF LocksMoved, Outside, InStatus
  <2>2. ~Swap(p)
    BY <1>0, <1>1, <1>5, SwapEffect DEF LocalsOK
  <2>3. CASE Grace(p) /\ pc'[p] = "grace"
    BY <1>1, <1>5, <2>3
  <2>4. CASE GraceOver(p) /\ pc[p] = "grace"
    <3>1. bin'[p] = 0 /\ UNCHANGED <<ht, num_buckets>>
      BY <2>4, ResizesMeans DEF GraceOver, locals, shared
    <3>2. clht_hash(num_buckets[ht], k) \in Nat
      <4>1. k \in Nat /\ k % num_buckets[ht] \in 0..(num_buckets[ht] - 1)
        BY <1>0, ModTwice
      <4> QED
        BY <4>1 DEF clht_hash
    <3> QED
      BY <1>1, <1>5, <3>1, <3>2
  <2>5. CASE pc[p] = "copy" /\ pc'[p] = "swap"
    <3>1. ~Copy(p)
      BY <2>5, CopyEffect
    <3>2. UNCHANGED shared
      BY <1>0, <2>1, <2>2, <2>5, <3>1, CopyingMoves
    <3>3. UNCHANGED bin
      BY <2>2, <2>5, <3>1, SharedStep, WriteEffect, StartEffect DEF Still
    <3> QED
      BY <1>3, <1>5, <2>5, <3>2, <3>3 DEF shared
  <2>6. CASE Copy(p)
    <3> DEFINE n == num_buckets[ht]
               b == clht_hash(2 * n, k)
    <3>1. /\ tab[p] = ht /\ ht + 1 \in Tables /\ NewSize(p) = num_buckets[ht + 1]
          /\ num_buckets[ht + 1] = 2 * n
          /\ bin[p] \in 0..(n - 1) /\ bin'[p] = bin[p] + 1
          /\ UNCHANGED <<ht, num_buckets>>
          /\ \A j \in Slots : table[ht][bin[p]][j] \in Entry
          /\ table'[ht] = table[ht]
          /\ table'[ht + 1] = [c \in 0..(2 * n - 1) |->
                                IF c % n = bin[p] THEN Fed(p, c) ELSE table[ht + 1][c]]
      <4>1. ht # ht + 1
        BY <1>0
      <4>2. /\ tab[p] = ht /\ ht + 1 \in Tables /\ NewSize(p) = num_buckets[ht + 1]
            /\ num_buckets[ht + 1] = 2 * n
            /\ bin[p] \in 0..(n - 1) /\ bin' = [bin EXCEPT ![p] = bin[p] + 1]
            /\ UNCHANGED <<ht, num_buckets>>
            /\ \A j \in Slots : table[tab[p]][bin[p]][j] \in Entry
            /\ \A t \in Tables \ {ht + 1} : table'[t] = table[t]
            /\ table'[ht + 1] = [c \in 0..(num_buckets[ht + 1] - 1) |->
                                IF c % n = bin[p] THEN Fed(p, c) ELSE table[ht + 1][c]]
        BY <2>6, CopyEffect
      <4>3. bin'[p] = bin[p] + 1
        BY <1>0, <4>2 DEF LocalsOK
      <4>4. table'[ht] = table[ht]
        BY <1>0, <4>1, <4>2
      <4> HIDE DEF n
      <4> QED
        BY <4>2, <4>3, <4>4
    <3>2. b \in 0..(2 * n - 1) /\ clht_hash(n, k) \in 0..(n - 1) /\ b % n = clht_hash(n, k)
      BY <1>0, ModTwice DEF clht_hash
    <3>3. Lookup(ht + 1, k)' = Held(table'[ht + 1][b], k)
      <4>1. Lookup(ht + 1, k)' = Held(table'[ht' + 1][clht_hash(num_buckets'[ht' + 1], k)], k)
        BY DEF Lookup, clht_hash, Held, Holding
      <4> QED
        BY <3>1, <4>1
    <3>4. Lookup(ht, k)' = Held(table[ht][clht_hash(n, k)], k)
      BY <3>1 DEF Lookup, clht_hash, Held, Holding
    <3>5. pc[p] = "copy" /\ clht_hash(n, k) < bin[p] + 1
      BY <1>1, <1>5, <2>6, <3>1 DEF Copy
    <3>6. CASE clht_hash(n, k) = bin[p]
      <4>1. table'[ht + 1][b] = Fed(p, b)
        BY <3>1, <3>2, <3>6
      <4>2. Once(table[ht][bin[p]])
        BY <1>0, <3>1 DEF KeysOnce, Once
      <4>3. Held(Fed(p, b), k) = Held(table[ht][bin[p]], k)
        BY <3>1, <4>2, CopyKeeps
      <4> QED
        BY <3>3, <3>4, <3>6, <4>1, <4>3
    <3>7. CASE clht_hash(n, k) < bin[p]
      <4>1. table'[ht + 1][b] = table[ht + 1][b]
        BY <3>1, <3>2, <3>7
      <4>2. Lookup(ht + 1, k) = Held(table[ht + 1][b], k)
            /\ Lookup(ht, k) = Held(table[ht][clht_hash(n, k)], k)
        BY <3>1 DEF Lookup
      <4>3. Lookup(ht + 1, k) = Lookup(ht, k)
        BY <1>2, <1>5, <3>5, <3>7 DEF Copies
      <4> QED
        BY <3>3, <3>4, <4>1, <4>2, <4>3
    <3>8. clht_hash(n, k) = bin[p] \/ clht_hash(n, k) < bin[p]
      BY <3>1, <3>2, <3>5
    <3> QED
      BY <3>6, <3>7, <3>8
  <2> QED
    BY <1>0, <1>1, <1>5, <2>1, <2>2, <2>3, <2>4, <2>5, <2>6, CopyingMoves
<1> QED
  BY <1>4, <1>5

-----------------------------------------------------------------------------
(* The inductive invariant, at the start ...                                *)
LEMMA InitInv == Init => IndInv
<1> SUFFICES ASSUME Init PROVE IndInv
  OBVIOUS
<1> USE DEF Init
<1>0. InitBuckets \in Nat \ {0} /\ 1 \in Tables /\ MAX_VERSION \in Nat /\ Retries \in Nat /\ MaxPuts \in Nat
      /\ Tables \subseteq Nat
  BY Bounds, BucketsAssumption, BoundsAssumption
<1>1. NoEntries \in [Slots -> Entry] /\ \A j \in Slots : NoEntries[j].state # "VALID"
  BY DEF NoEntries, INVLD, Entry
<1>2. /\ \A t \in Tables : num_buckets[t] = IF t = 1 THEN InitBuckets ELSE 0
      /\ \A b \in 0..(InitBuckets - 1) : table[1][b] = NoEntries
      /\ \A t \in Tables \ {1} : table[t] = << >> /\ 0..(num_buckets[t] - 1) = {}
  BY <1>0
<1>3. SizesOK
  <2>1. \A t \in Tables \ {1} : num_buckets[t] = 0
    BY <1>2
  <2>2. num_buckets \in [Tables -> Nat] /\ version \in [Tables -> 0..MAX_VERSION]
    BY <1>0
  <2> QED
    BY <1>0, <1>2, <2>1, <2>2 DEF SizesOK
<1>4. EntriesOK
  <2>1. table = [t \in Tables |-> table[t]]
    OBVIOUS
  <2>2. ASSUME NEW t \in Tables
        PROVE  /\ table[t] \in [0..(num_buckets[t] - 1) -> [Slots -> Entry]]
               /\ \A b \in 0..(num_buckets[t] - 1) : \A j \in Slots :
                    table[t][b][j].state = "VALID" =>
                      clht_hash(num_buckets[t], table[t][b][j].key) = b
    <3>1. CASE t = 1
      <4>1. num_buckets[t] = InitBuckets /\ table[t] = [b \in 0..InitBuckets - 1 |-> NoEntries]
        BY <1>0, <3>1
      <4> QED
        BY <1>0, <1>1, <4>1
    <3>2. CASE t # 1
      <4>1. table[t] = << >> /\ 0..(num_buckets[t] - 1) = {}
        BY <1>2, <3>2
      <4>2. << >> \in [{} -> [Slots -> Entry]]
        OBVIOUS
      <4> QED
        BY <4>1, <4>2
    <3> QED
      BY <3>1, <3>2
  <2> QED
    BY <2>1, <2>2 DEF EntriesOK
<1>5. LocalsOK
  BY <1>0 DEF LocalsOK, Labels
<1>6. TypeOK
  BY <1>0, <1>3, <1>4, <1>5, TypeParts
<1>7. \A p \in Threads : pc[p] = "idle" /\ call[p] = Idle /\ tab[p] = 1 /\ ts[p] = 0 /\ bin[p] = 0
  BY <1>0
<1>8. Locked /\ Watched
  BY <1>7 DEF Locked, InStatus, Copying, Watched, Updating
<1>9. Versions
  <2>1. 1..ht = {1} /\ Base(1) = 0
    BY DEF Base
  <2>2. num_buckets[1] = InitBuckets /\ version[1] = 0
    BY <1>0
  <2> QED
    BY <1>0, <1>7, <2>1, <2>2 DEF Versions, Copying
<1>10. KeysOnce
  BY <1>1, <1>2 DEF KeysOnce, Holding
<1>11. ASSUME NEW p \in Threads
       PROVE  Phase(p) /\ Resizes(p) /\ Published(p) /\ Waited(p) /\ Copies(p)
  <2>1. Phase(p)
    BY <1>7 DEF Phase, Idle
  <2>2. Resizes(p)
    BY <1>7, ResizesMeans DEF Copying
  <2>3. Published(p)
    BY <1>0, <1>7 DEF Published, Updating
  <2>4. Waited(p) /\ Copies(p)
    BY <1>7 DEF Waited, Copies, Copying
  <2> QED
    BY <2>1, <2>2, <2>3, <2>4
<1> QED
  BY <1>6, <1>8, <1>9, <1>10, <1>11 DEF IndInv

(* What no step changes stays.                                              *)
LEMMA StutterInv == IndInv /\ UNCHANGED vars => IndInv'
<1> SUFFICES ASSUME IndInv, UNCHANGED vars PROVE IndInv'
  OBVIOUS
<1> USE DEF IndInv, vars, shared, locals
<1>1. TypeOK'
  BY DEF TypeOK
<1>2. Locked' /\ Watched'
  BY DEF Locked, Watched, Updating, Settled
<1>3. Versions'
  BY DEF Versions, Base
<1>4. KeysOnce'
  BY DEF KeysOnce, Holding
<1>5. ASSUME NEW p \in Threads
      PROVE  (Phase(p) /\ Resizes(p) /\ Published(p) /\ Waited(p) /\ Copies(p))'
  <2>1. Phase(p)'
    BY DEF Phase
  <2>2. Resizes(p)'
    BY DEF Resizes, Base, NotFed, NoEntries, INVLD
  <2>3. Published(p)'
    BY DEF Published, Updating, Base
  <2>4. Waited(p)'
    BY DEF Waited, Updating
  <2>5. Copies(p)'
    <3>1. \A k \in Keys : Lookup(ht, k)' = Lookup(ht, k) /\ Lookup(ht + 1, k)' = Lookup(ht + 1, k)
      BY DEF Lookup, Held, Holding, clht_hash
    <3> QED
      BY <3>1 DEF Copies, clht_hash
  <2> QED
    BY <2>1, <2>2, <2>3, <2>4, <2>5
<1> QED
  BY <1>1, <1>2, <1>3, <1>4, <1>5

(* ... and after every step.                                                *)
LEMMA StepInv == IndInv /\ Next => IndInv'
<1> SUFFICES ASSUME IndInv, Next PROVE IndInv'
  OBVIOUS
<1>1. PICK p \in Threads : Step(p)
  BY DEF Next, Step
<1>2. Watch
  BY DEF Next
<1>3. /\ TypeOK /\ Locked /\ Versions /\ KeysOnce /\ Watched
      /\ \A q \in Threads : Phase(q) /\ Resizes(q) /\ Published(q) /\ Waited(q) /\ Copies(q)
      /\ tab[p] <= ht
  BY DEF IndInv, Published
<1>4. LocalsOK /\ resize_lock \in BOOLEAN /\ status_lock \in BOOLEAN
  BY <1>3, TypeParts
<1>5. Others(p) /\ LocksMoved(p)
  BY <1>1, <1>3, <1>4, StepFrame, LocksStep
<1>6. TypeOK'
  BY <1>1, <1>2, <1>3, TypeStep
<1>7. Locked'
  BY <1>3, <1>5, LockedStep
<1>8. Versions'
  BY <1>1, <1>3, <1>5, VersionsStep
<1>9. KeysOnce'
  BY <1>1, <1>3, OnceStep
<1>10. Watched'
  BY <1>2 DEF Watch, Watched
<1>11. ASSUME NEW q \in Threads
       PROVE  (Phase(q) /\ Resizes(q) /\ Published(q) /\ Waited(q) /\ Copies(q))'
  <2>1. Phase(q)'
    BY <1>1, <1>3, <1>4, <1>5, PhaseStep
  <2>2. Resizes(q)'
    BY <1>1, <1>3, <1>5, ResizesStep
  <2>3. Published(q)'
    BY <1>1, <1>3, <1>5, <1>8, PublishedStep
  <2>4. Waited(q)'
    BY <1>1, <1>3, <1>5, WaitedStep
  <2>5. Copies(q)'
    BY <1>1, <1>2, <1>3, <1>5, CopiesStep
  <2> QED
    BY <2>1, <2>2, <2>3, <2>4, <2>5
<1> QED
  BY <1>6, <1>7, <1>8, <1>9, <1>10, <1>11 DEF IndInv

(* IndInv holds in every state.                                             *)
THEOREM Invariance == Spec => []IndInv
BY InitInv, StutterInv, StepInv, PTL DEF Spec

(* Every variable keeps its type: an entry is in the bucket of its key, and *)
(* each table has twice the buckets of the one before it.                   *)
THEOREM TypeInvariance == Spec => []TypeOK
<1>1. IndInv => TypeOK
  BY DEF IndInv
<1> QED
  BY <1>1, Invariance, PTL

(* Only a thread that has announced "no update" can be in an update of a    *)
(* table that is copied or was replaced: the grace period of ht_resize_pes, *)
(* a pass over versions that the threads go on to publish, waits for all    *)
(* others.                                                                  *)
THEOREM GraceWorks == Spec => []GraceForVisible
<1>1. IndInv => GraceForVisible
  <2> SUFFICES ASSUME IndInv, NEW p \in Threads, Updating(p), Settled(tab[p])
               PROVE  ts[p] = MAX_VERSION
    BY DEF GraceForVisible
  <2>1. Published(p)
    BY DEF IndInv
  <2>2. CASE tab[p] # ht
    BY <2>1, <2>2 DEF Published
  <2>3. CASE tab[p] = ht
    <3>1. PICK r \in Threads : pc[r] \in {"copy", "swap"}
      BY <2>3 DEF Settled
    <3>2. Waited(r)
      BY DEF IndInv
    <3> QED
      BY <2>3, <3>1, <3>2 DEF Waited, Copying
  <2> QED
    BY <2>2, <2>3
<1> QED
  BY <1>1, Invariance, PTL

(* When the new table takes its place it holds what the old one holds.      *)
LEMMA SwapKeeps ==
  ASSUME IndInv, ~overtaken, NEW p \in Threads, pc[p] = "swap"
  PROVE  Contents(New(p)) = AbsMap
<1>1. TypeOK /\ Versions /\ Resizes(p) /\ Copies(p)
  BY DEF IndInv
<1>2. tab[p] = ht /\ bin[p] = num_buckets[ht]
  BY <1>1, ResizesMeans DEF Copying
<1>3. ASSUME NEW k \in Keys PROVE Lookup(ht + 1, k) = Lookup(ht, k)
  <2>1. num_buckets[ht] \in Nat \ {0} /\ k \in Nat
    BY <1>1, Sized, Bounds
  <2>2. clht_hash(num_buckets[ht], k) < bin[p]
    BY <1>2, <2>1, ModTwice DEF clht_hash
  <2> QED
    BY <1>1, <2>2 DEF Copies
<1> QED
  BY <1>2, <1>3 DEF Contents, AbsMap, New

(* When the new table takes its place it holds what the old one holds, if   *)
(* no update was in the old one since the copy began: no bucket overflowed, *)
(* none was left out.                                                       *)
THEOREM ResizesLoseNothing == Spec => []ResizeKeepsContents
<1>1. IndInv => ResizeKeepsContents
  BY SwapKeeps DEF ResizeKeepsContents
<1> QED
  BY <1>1, Invariance, PTL

(* Writing one slot of a bucket changes what is found by the entries that   *)
(* come and go: a reservation shows nowhere, ...                            *)
LEMMA HeldSame ==
  ASSUME NEW old \in [Slots -> Entry], NEW j \in Slots, NEW e \in Entry, NEW k \in Keys,
         old[j].state = "VALID" => old[j].key # k, e.state = "VALID" => e.key # k
  PROVE  Held([old EXCEPT ![j] = e], k) = Held(old, k)
<1> DEFINE new == [old EXCEPT ![j] = e]
<1>1. \A l \in Slots : new[l] = IF l = j THEN e ELSE old[l]
  OBVIOUS
<1> HIDE DEF new
<1>2. \A l \in Slots : new[l].state = "VALID" /\ new[l].key = k <=> old[l].state = "VALID" /\ old[l].key = k
  BY <1>1
<1>3. Holding(new, k) = Holding(old, k)
  BY <1>2 DEF Holding
<1>4. CASE Holding(old, k) = {}
  BY <1>3, <1>4 DEF Held, new
<1>5. CASE Holding(old, k) # {}
  <2> DEFINE l == CHOOSE l \in Holding(old, k) : TRUE
  <2>1. l \in Holding(old, k)
    BY <1>5
  <2>2. l \in Slots /\ l # j
    BY <2>1 DEF Holding
  <2>3. new[l] = old[l]
    BY <1>1, <2>2
  <2>4. Held(old, k) = old[l].val
    BY <1>5 DEF Held
  <2>5. Held(new, k) = new[l].val
    BY <1>3, <1>5 DEF Held
  <2> QED
    BY <2>3, <2>4, <2>5 DEF new
<1> QED
  BY <1>4, <1>5

(* ... a published entry is found, ...                                      *)
LEMMA HeldNew ==
  ASSUME NEW old \in [Slots -> Entry], NEW j \in Slots, NEW e \in Entry, NEW k \in Keys,
         e.state = "VALID", e.key = k, Holding(old, k) = {}
  PROVE  Held([old EXCEPT ![j] = e], k) = e.val
<1> DEFINE new == [old EXCEPT ![j] = e]
<1>1. \A l \in Slots : new[l] = IF l = j THEN e ELSE old[l]
  OBVIOUS
<1> HIDE DEF new
<1>2. Holding(new, k) = {j}
  BY <1>1 DEF Holding
<1> QED
  BY <1>1, <1>2 DEF Held, new

(* ... and the only entry of a key that goes leaves none.                   *)
LEMMA HeldGone ==
  ASSUME NEW old \in [Slots -> Entry], NEW k \in Keys, NEW j \in Holding(old, k), Once(old)
  PROVE  /\ Held(old, k) = old[j].val
         /\ Held([old EXCEPT ![j] = INVLD], k) = 0
<1> DEFINE new == [old EXCEPT ![j] = INVLD]
<1>1. Holding(old, k) = {j} /\ j \in Slots
  BY DEF Once, Holding
<1>2. \A l \in Slots : new[l] = IF l = j THEN INVLD ELSE old[l]
  BY <1>1
<1>3. INVLD.state # "VALID"
  BY DEF INVLD
<1> HIDE DEF new
<1>4. Holding(new, k) = {}
  BY <1>1, <1>2, <1>3 DEF Holding
<1>5. Held(new, k) = 0
  BY <1>4 DEF Held
<1> QED
  BY <1>1, <1>5 DEF Held, new

(* As long as no update was overtaken they are in the current table.        *)
LEMMA UpdatesHere ==
  ASSUME IndInv, ~overtaken, NEW p \in Threads, Updating(p)
  PROVE  tab[p] = ht
BY DEF IndInv, Watched, Settled

(* A table that was in use stays as it is unless an update writes to it.    *)
LEMMA TableKept ==
  ASSUME IndInv, NEW p \in Threads, Step(p), NEW t \in 1..ht,
         WritesSlot(p) => tab[p] # t
  PROVE  num_buckets'[t] = num_buckets[t] /\ table'[t] = table[t]
<1>1. TypeOK /\ Versions /\ Phase(p) /\ Resizes(p) /\ tab[p] <= ht
  BY DEF IndInv, Published
<1>2. t \in Tables /\ t # ht + 1
  BY <1>1, Sized, Bounds
<1>3. CASE Still
  BY <1>3 DEF Still
<1>4. CASE WritesSlot(p)
  <2>1. call[p] \in Calls /\ num_buckets' = num_buckets
        /\ (UNCHANGED table \/ \E j \in Slots, e \in Entry : SetSlot(p, j, e))
    BY <1>1, <1>4, WriteEffect
  <2>2. ASSUME NEW j \in Slots, NEW e \in Entry, SetSlot(p, j, e) PROVE table'[t] = table[t]
    BY <1>1, <1>2, <1>4, <2>1, <2>2, SlotEffect
  <2> QED
    BY <2>1, <2>2
<1>5. CASE Start(p)
  <2>1. /\ num_buckets' = [num_buckets EXCEPT ![ht + 1] = 2 * num_buckets[ht]]
        /\ \A u \in Tables \ {ht + 1} : table'[u] = table[u]
    BY <1>1, <1>5, StartEffect
  <2>2. num_buckets \in [Tables -> Nat]
    BY <1>1 DEF TypeOK
  <2> QED
    BY <1>2, <2>1, <2>2
<1>6. CASE Copy(p)
  BY <1>1, <1>2, <1>6, CopyEffect
<1>7. CASE Swap(p)
  BY <1>1, <1>7, SwapEffect
<1> QED
  BY <1>3, <1>4, <1>5, <1>6, <1>7, SharedStep

(* ... and with it what is found in it.                                     *)
LEMMA LookupKept ==
  ASSUME IndInv, NEW p \in Threads, Step(p), NEW t \in 1..ht,
         WritesSlot(p) => tab[p] # t, NEW k \in Keys
  PROVE  Lookup(t, k)' = Lookup(t, k)
<1>1. num_buckets'[t] = num_buckets[t] /\ table'[t] = table[t]
  BY TableKept
<1> QED
  BY <1>1 DEF Lookup, Held, Holding

(* The map changes only by an update.                                       *)
LEMMA MapKept ==
  ASSUME IndInv, ~overtaken, NEW p \in Threads, Step(p), ~WritesSlot(p)
  PROVE  AbsMap' = AbsMap
<1>1. TypeOK /\ Versions /\ Phase(p) /\ Resizes(p) /\ tab[p] <= ht
  BY DEF IndInv, Published
<1>2. ht \in 1..ht
  BY <1>1, Sized
<1>3. CASE Swap(p)
  <2>1. ht' = ht + 1 /\ New(p) = ht + 1 /\ pc[p] = "swap" /\ UNCHANGED <<num_buckets, table>>
    BY <1>1, <1>3, SwapEffect
  <2>2. \A k \in Keys : Lookup(ht, k)' = Lookup(ht + 1, k)
    BY <2>1 DEF Lookup, Held, Holding
  <2>3. AbsMap' = Contents(ht + 1)
    BY <2>2 DEF AbsMap, Contents
  <2> QED
    BY <2>1, <2>3, SwapKeeps
<1>4. CASE ~Swap(p)
  <2>1. ht' = ht
    BY <1>1, <1>4, SharedStep, StartEffect, CopyEffect DEF Still
  <2>2. \A k \in Keys : Lookup(ht, k)' = Lookup(ht, k)
    <3>1. PICK t \in 1..ht : t = ht
      BY <1>2
    <3>2. \A k \in Keys : Lookup(t, k)' = Lookup(t, k)
      BY LookupKept
    <3> QED
      BY <2>1, <3>1, <3>2 DEF Lookup
  <2> QED
    BY <2>1, <2>2 DEF AbsMap, Contents
<1> QED
  BY <1>3, <1>4

(* Writing a slot of the current table changes the map at the key of the    *)
(* call only, to what the bucket then holds of it.                          *)
LEMMA MapWritten ==
  ASSUME IndInv, NEW p \in Threads, tab[p] = ht, call[p] \in Calls,
         NEW j \in Slots, NEW e \in Entry, SetSlot(p, j, e), UNCHANGED <<ht, num_buckets>>,
         Bucket(p)[j].state = "VALID" => Bucket(p)[j].key = call[p].key,
         e.state = "VALID" => e.key = call[p].key
  PROVE  /\ AbsMap[call[p].key] = Held(Bucket(p), call[p].key)
         /\ AbsMap' = [AbsMap EXCEPT ![call[p].key] =
                         Held([Bucket(p) EXCEPT ![j] = e], call[p].key)]
<1> DEFINE key == call[p].key
           new == [Bucket(p) EXCEPT ![j] = e]
<1>1. /\ TypeOK /\ Versions /\ tab[p] <= ht
      /\ ht \in Tables /\ num_buckets[ht] \in Nat \ {0}
      /\ key \in Keys /\ Bucket(p) \in [Slots -> Entry]
  BY BucketExists, Sized DEF IndInv, Published
<1>2. /\ \A b \in 0..(num_buckets[ht] - 1) : b # Bin(p) => table'[ht][b] = table[ht][b]
      /\ table'[ht][Bin(p)] = new
  <2>1. /\ \A b \in 0..(num_buckets[tab[p]] - 1) : b # Bin(p) => table'[tab[p]][b] = table[tab[p]][b]
        /\ table'[tab[p]][Bin(p)] = [Bucket(p) EXCEPT ![j] = e]
    <3>1. TypeOK /\ Versions /\ tab[p] <= ht
      BY <1>1
    <3> QED
      BY <3>1, SlotEffect
  <2> QED
    BY <2>1
<1> HIDE DEF new
<1>3. ASSUME NEW k \in Keys
      PROVE  Lookup(ht, k)' = IF k = key THEN Held(new, k) ELSE Lookup(ht, k)
  <2> DEFINE b == clht_hash(num_buckets[ht], k)
  <2>1. b \in 0..(num_buckets[ht] - 1)
    BY <1>1, Bounds, ModTwice DEF clht_hash
  <2>2. Lookup(ht, k)' = Held(table'[ht][b], k) /\ Lookup(ht, k) = Held(table[ht][b], k)
    BY DEF Lookup, Held, Holding
  <2>3. CASE b # Bin(p)
    <3>1. k # key
      BY <2>3 DEF Bin
    <3> QED
      BY <1>2, <2>1, <2>2, <2>3, <3>1
  <2>4. CASE b = Bin(p)
    <3>1. Lookup(ht, k)' = Held(new, k) /\ Lookup(ht, k) = Held(Bucket(p), k)
      BY <1>2, <2>2, <2>4 DEF Bucket
    <3>2. CASE k # key
      <4>1. Held(new, k) = Held(Bucket(p), k)
        BY <1>1, <3>2, HeldSame DEF new
      <4> QED
        BY <3>1, <3>2, <4>1
    <3> QED
      BY <3>1, <3>2
  <2> QED
    BY <2>3, <2>4
<1>4. AbsMap[key] = Held(Bucket(p), key)
  BY <1>1 DEF AbsMap, Contents, Lookup, Bucket, Bin
<1>5. AbsMap' = [k \in Keys |-> Lookup(ht, k)'] /\ AbsMap = [k \in Keys |-> Lookup(ht, k)]
  BY DEF AbsMap, Contents
<1>6. AbsMap' = [AbsMap EXCEPT ![key] = Held(new, key)]
  BY <1>1, <1>3, <1>5
<1> QED
  BY <1>4, <1>6 DEF new

(* A reservation shows nowhere in the map, ...                              *)
LEMMA ReserveSilent ==
  ASSUME IndInv, ~overtaken, NEW p \in Threads, PutReserve(p)
  PROVE  AbsMap' = AbsMap
<1>1. Updating(p) /\ Phase(p) /\ call[p] \in Calls /\ call[p].op = "put"
      /\ UNCHANGED <<ht, num_buckets>> /\ TypeOK /\ Versions /\ Published(p)
  BY DEF PutReserve, Updating, IndInv, Phase
<1>2. tab[p] = ht
  BY <1>1, UpdatesHere
<1> DEFINE e == [state |-> "INSRT", key |-> call[p].key, val |-> call[p].val]
<1>3. PICK j \in Slots : IsEmptyIndex(Bucket(p), j) /\ SetSlot(p, j, e)
  BY DEF PutReserve
<1>4. /\ Bucket(p) \in [Slots -> Entry] /\ call[p].key \in Keys
      /\ e \in Entry /\ e.state # "VALID" /\ Bucket(p)[j].state # "VALID"
  <2>1. Bucket(p) \in [Slots -> Entry] /\ call[p].key \in Keys
    BY <1>1, BucketExists DEF Published
  <2>2. call[p].val \in Vals
    BY <1>1 DEF Phase
  <2> QED
    BY <1>3, <2>1, <2>2 DEF Entry, IsEmptyIndex, INVLD
<1> HIDE DEF e
<1>5. /\ AbsMap[call[p].key] = Held(Bucket(p), call[p].key)
      /\ AbsMap' = [AbsMap EXCEPT ![call[p].key] =
                         Held([Bucket(p) EXCEPT ![j] = e], call[p].key)]
  BY <1>1, <1>2, <1>3, <1>4, MapWritten
<1>6. Held([Bucket(p) EXCEPT ![j] = e], call[p].key) = Held(Bucket(p), call[p].key)
  BY <1>4, HeldSame
<1> QED
  BY <1>4, <1>5, <1>6 DEF AbsMap, Contents

(* ... a publication stores its entry where the key has none, ...           *)
LEMMA PublishApplies ==
  ASSUME IndInv, Reserved, ~overtaken, NEW p \in Threads, PutPublish(p)
  PROVE  LET k == call[p].key
         IN  \/ /\ AbsMap[k] = 0 /\ ret' = [ret EXCEPT ![p] = call[p].val]
                /\ AbsMap' = [AbsMap EXCEPT ![k] = call[p].val]
             \/ AbsMap[k] # 0 /\ UNCHANGED <<AbsMap, ret>>
<1> DEFINE k == call[p].key
           e == [state |-> "VALID", key |-> call[p].key, val |-> call[p].val]
           j == empty_index[p]
<1>1. Updating(p) /\ Phase(p) /\ call[p] \in Calls /\ call[p].op = "put" /\ pc[p] = "publish"
      /\ UNCHANGED <<ht, num_buckets>> /\ TypeOK /\ Versions /\ Published(p)
  BY DEF PutPublish, Updating, IndInv, Phase
<1>2. tab[p] = ht
  BY <1>1, UpdatesHere
<1>3. j \in Slots /\ Bucket(p)[j].state = "INSRT" /\ call[p].val \in Vals
  <2>1. Bucket(p)[j] = [state |-> "INSRT", key |-> call[p].key, val |-> call[p].val]
    BY <1>1 DEF Reserved
  <2>2. j \in Slots /\ call[p].val \in Vals
    BY <1>1 DEF Phase
  <2> QED
    BY <2>1, <2>2
<1>4. Bucket(p) \in [Slots -> Entry] /\ k \in Keys
  BY <1>1, BucketExists DEF Published
<1>5. e \in Entry /\ e.state = "VALID" /\ e.key = k /\ e.val = call[p].val
      /\ INVLD \in Entry /\ INVLD.state # "VALID"
  BY <1>3, <1>4 DEF Entry, INVLD
<1>6. ASSUME NEW f \in Entry, SetSlot(p, j, f), f.state = "VALID" => f.key = k
      PROVE  /\ AbsMap[k] = Held(Bucket(p), k)
             /\ AbsMap' = [AbsMap EXCEPT ![k] = Held([Bucket(p) EXCEPT ![j] = f], k)]
  BY <1>1, <1>2, <1>3, <1>6, MapWritten
<1>7. CASE Held(Bucket(p), k) = 0
  <2>1. SetSlot(p, j, e) /\ ret' = [ret EXCEPT ![p] = call[p].val]
    BY <1>7 DEF PutPublish
  <2>2. Holding(Bucket(p), k) = {}
    BY <1>4, <1>7, HeldTypes
  <2> HIDE DEF e, j
  <2>3. Held([Bucket(p) EXCEPT ![j] = e], k) = call[p].val
    BY <1>3, <1>4, <1>5, <2>2, HeldNew
  <2> QED
    BY <1>5, <1>6, <1>7, <2>1, <2>3
<1>8. CASE Held(Bucket(p), k) # 0
  <2>1. SetSlot(p, j, INVLD) /\ ret' = ret
    BY <1>8 DEF PutPublish
  <2> HIDE DEF e, j
  <2>2. Held([Bucket(p) EXCEPT ![j] = INVLD], k) = Held(Bucket(p), k)
    BY <1>3, <1>4, <1>5, HeldSame
  <2>3. /\ AbsMap[k] = Held(Bucket(p), k)
        /\ AbsMap' = [AbsMap EXCEPT ![k] = Held([Bucket(p) EXCEPT ![j] = INVLD], k)]
    BY <1>5, <1>6, <2>1
  <2>4. AbsMap' = AbsMap
    BY <2>2, <2>3 DEF AbsMap, Contents
  <2> QED
    BY <1>8, <2>1, <2>3, <2>4
<1> QED
  BY <1>7, <1>8

(* ... and a remove takes the entry it answers with.                        *)
LEMMA RemoveApplies ==
  ASSUME IndInv, ~overtaken, NEW p \in Threads, clht_remove(p)
  PROVE  LET k == call[p].key
         IN  \/ /\ AbsMap[k] # 0 /\ ret' = [ret EXCEPT ![p] = AbsMap[k]]
                /\ AbsMap' = [AbsMap EXCEPT ![k] = 0]
             \/ AbsMap[k] = 0 /\ UNCHANGED <<AbsMap, ret>>
<1> DEFINE k == call[p].key
           bucket == Bucket(p)
<1>1. Updating(p) /\ Phase(p) /\ call[p] \in Calls /\ call[p].op = "remove" /\ pc[p] = "remove"
      /\ UNCHANGED <<ht, num_buckets>> /\ TypeOK /\ Versions /\ Published(p) /\ KeysOnce
  BY DEF clht_remove, Updating, IndInv, Phase
<1>2. tab[p] = ht /\ Bin(p) \in 0..(num_buckets[ht] - 1) /\ ht \in Tables
      /\ bucket \in [Slots -> Entry] /\ k \in Keys
  BY <1>1, UpdatesHere, BucketExists DEF Published
<1>3. Once(bucket)
  BY <1>1, <1>2 DEF KeysOnce, Once, Bucket
<1>4. INVLD \in Entry /\ INVLD.state # "VALID"
  BY DEF Entry, INVLD
<1>5. CASE Holding(bucket, k) = {}
  <2>1. UNCHANGED <<table, ret>>
    BY <1>5 DEF clht_remove
  <2>2. AbsMap' = AbsMap
    BY <1>1, <2>1 DEF AbsMap, Contents, Lookup, Held, Holding
  <2>3. AbsMap[k] = Held(bucket, k)
    BY <1>2 DEF AbsMap, Contents, Lookup, Bucket, Bin
  <2> QED
    BY <1>2, <1>5, <2>1, <2>2, <2>3, HeldTypes
<1>6. CASE Holding(bucket, k) # {}
  <2>1. PICK j \in Holding(bucket, k) :
               ret' = [ret EXCEPT ![p] = bucket[j].val] /\ SetSlot(p, j, INVLD)
    BY <1>6 DEF clht_remove
  <2>2. j \in Slots /\ bucket[j].key = k
    BY <2>1 DEF Holding
  <2> HIDE DEF bucket
  <2>3. Held(bucket, k) = bucket[j].val /\ Held([bucket EXCEPT ![j] = INVLD], k) = 0
    BY <1>2, <1>3, <2>1, HeldGone
  <2>4. Held(bucket, k) # 0
    BY <1>2, <1>6, HeldTypes
  <2>5. /\ AbsMap[k] = Held(bucket, k)
        /\ AbsMap' = [AbsMap EXCEPT ![k] = Held([bucket EXCEPT ![j] = INVLD], k)]
    BY <1>1, <1>2, <1>4, <2>1, <2>2, MapWritten DEF bucket
  <2> QED
    BY <2>1, <2>3, <2>4, <2>5
<1> QED
  BY <1>5, <1>6

(* Where a put reserves, and what the slots were that updates write.        *)
LEMMA WritesWhere ==
  ASSUME IndInv, Reserved, NEW p \in Threads, WritesSlot(p)
  PROVE  \/ UNCHANGED table
         \/ \E j \in Slots, e \in Entry :
              /\ SetSlot(p, j, e)
              /\ \/ Bucket(p)[j].state # "INSRT"
                 \/ pc[p] = "publish" /\ j = empty_index[p]
<1>1. Phase(p) /\ TypeOK /\ Versions /\ Published(p)
  BY DEF IndInv
<1>2. call[p] \in Calls
  BY <1>1 DEF Phase, WritesSlot, PutReserve, PutPublish, clht_remove
<1>3. call[p].key \in Keys /\ INVLD \in Entry
  BY <1>2, CallTypes DEF Entry
<1>4. CASE PutReserve(p)
  <2> DEFINE e == [state |-> "INSRT", key |-> call[p].key, val |-> call[p].val]
  <2>1. PICK j \in Slots : IsEmptyIndex(Bucket(p), j) /\ SetSlot(p, j, e)
    BY <1>4 DEF PutReserve
  <2>2. pc[p] = "put"
    BY <1>4 DEF PutReserve
  <2>3. call[p].val \in Vals
    BY <1>1, <2>2 DEF Phase
  <2>4. e \in Entry
    BY <1>3, <2>3 DEF Entry
  <2>5. Bucket(p)[j].state # "INSRT"
    BY <2>1 DEF IsEmptyIndex, INVLD
  <2> QED
    BY <2>1, <2>4, <2>5
<1>5. CASE PutPublish(p)
  <2> DEFINE e == [state |-> "VALID", key |-> call[p].key, val |-> call[p].val]
  <2>1. pc[p] = "publish" /\ (SetSlot(p, empty_index[p], e) \/ SetSlot(p, empty_index[p], INVLD))
    BY <1>5 DEF PutPublish
  <2>2. call[p].val \in Vals /\ empty_index[p] \in Slots
    BY <1>1, <2>1 DEF Phase
  <2>3. e \in Entry
    BY <1>3, <2>2 DEF Entry
  <2> QED
    BY <1>3, <2>1, <2>2, <2>3
<1>6. CASE clht_remove(p)
  <2>1. UNCHANGED table \/ \E j \in Holding(Bucket(p), call[p].key) : SetSlot(p, j, INVLD)
    BY <1>6 DEF clht_remove
  <2>2. \A j \in Holding(Bucket(p), call[p].key) : j \in Slots /\ Bucket(p)[j].state # "INSRT"
    BY DEF Holding
  <2> QED
    BY <1>3, <2>1, <2>2
<1> QED
  BY <1>4, <1>5, <1>6 DEF WritesSlot

(* Nobody writes to a slot that another has reserved.                       *)
LEMMA ReservedKept ==
  ASSUME IndInv, Reserved, NEW p \in Threads, Step(p), NEW q \in Threads \ {p}, pc[q] = "publish"
  PROVE  /\ num_buckets'[tab[q]] = num_buckets[tab[q]]
         /\ table'[tab[q]][Bin(q)][empty_index[q]] = Bucket(q)[empty_index[q]]
<1>1. /\ TypeOK /\ Versions /\ Phase(p) /\ Phase(q) /\ tab[p] <= ht /\ tab[q] <= ht
      /\ tab[p] \in Tables /\ tab[q] \in Tables /\ ht \in Tables
  BY Sized DEF IndInv, Published, TypeOK
<1>2. call[q] \in Calls /\ empty_index[q] \in Slots /\ Bin(q) \in 0..(num_buckets[tab[q]] - 1)
      /\ Bucket(q)[empty_index[q]].state = "INSRT" /\ Bucket(q) \in [Slots -> Entry]
  <2>1. call[q] \in Calls /\ empty_index[q] \in Slots
    BY <1>1 DEF Phase
  <2>2. Bucket(q)[empty_index[q]] = [state |-> "INSRT", key |-> call[q].key, val |-> call[q].val]
    BY DEF Reserved
  <2>3. Bucket(q)[empty_index[q]].state = "INSRT"
    BY <2>2
  <2> QED
    BY <1>1, <2>1, <2>3, BucketExists
<1>3. CASE ~WritesSlot(p) \/ tab[p] # tab[q]
  <2>1. tab[q] \in 1..ht
    BY <1>1, Bounds DEF Tables
  <2>2. num_buckets'[tab[q]] = num_buckets[tab[q]] /\ table'[tab[q]] = table[tab[q]]
    BY <1>3, <2>1, TableKept
  <2> QED
    BY <2>2 DEF Bucket
<1>4. CASE WritesSlot(p) /\ tab[p] = tab[q]
  <2>1. call[p] \in Calls /\ num_buckets' = num_buckets
    BY <1>1, <1>4, WriteEffect
  <2>2. CASE UNCHANGED table
    BY <2>1, <2>2 DEF Bucket
  <2>3. ASSUME NEW j \in Slots, NEW e \in Entry, SetSlot(p, j, e),
               Bucket(p)[j].state # "INSRT" \/ (pc[p] = "publish" /\ j = empty_index[p])
        PROVE  table'[tab[q]][Bin(q)][empty_index[q]] = Bucket(q)[empty_index[q]]
    <3>1. /\ \A b \in 0..(num_buckets[tab[p]] - 1) :
               b # Bin(p) => table'[tab[p]][b] = table[tab[p]][b]
          /\ table'[tab[p]][Bin(p)] = [Bucket(p) EXCEPT ![j] = e]
      BY <1>1, <2>1, <2>3, SlotEffect
    <3>2. CASE Bin(q) # Bin(p)
      BY <1>2, <1>4, <3>1, <3>2 DEF Bucket
    <3>3. CASE Bin(q) = Bin(p)
      <4>1. Bucket(q) = Bucket(p)
        BY <1>4, <3>3 DEF Bucket
      <4>2. j # empty_index[q]
        BY <1>2, <1>4, <2>3, <3>3, <4>1 DEF Reserved
      <4>3. table'[tab[q]][Bin(q)] = [Bucket(q) EXCEPT ![j] = e]
        BY <1>4, <3>1, <3>3, <4>1
      <4> QED
        BY <1>2, <4>2, <4>3
    <3> QED
      BY <3>2, <3>3
  <2> QED
    BY <1>4, <2>1, <2>2, <2>3, WritesWhere
<1> QED
  BY <1>3, <1>4

(* A reserved slot stays its put's alone.                                   *)
LEMMA ReservedStep ==
  ASSUME IndInv, Reserved, NEW p \in Threads, Step(p), Others(p)
  PROVE  Reserved'
<1>0. TypeOK /\ Versions /\ Phase(p) /\ Published(p)
  BY DEF IndInv
<1>1. ASSUME pc'[p] = "publish"
      PROVE  /\ PutReserve(p) /\ call' = call /\ tab' = tab /\ num_buckets' = num_buckets
             /\ \E j \in Slots :
                  /\ Bucket(p)[j].state = "INVLD"
                  /\ empty_index'[p] = j
                  /\ table'[tab[p]][Bin(p)][j] =
                       [state |-> "INSRT", key |-> call[p].key, val |-> call[p].val]
  <2>1. PutReserve(p)
    BY <1>0, <1>1 DEF TypeOK, Step, Work, Invoke, Return, CheckResize, PublishVersion, ReadTable,
       GetVersion, Get, clht_put, PutFound, PutFull, PutPublish, clht_remove, NoUpdate, ht_status,
       StatusLock, Count, StatusUnlock, ht_resize_pes, ResizeLock, Start, Grace, GraceOver, Copy,
       Copied, Swap, Release, Goto, Phase, Calls
  <2>2. call' = call /\ tab' = tab /\ num_buckets' = num_buckets /\ pc[p] = "put"
    BY <2>1 DEF PutReserve
  <2> DEFINE e == [state |-> "INSRT", key |-> call[p].key, val |-> call[p].val]
  <2>3. PICK j \in Slots : /\ IsEmptyIndex(Bucket(p), j) /\ SetSlot(p, j, e)
                           /\ empty_index' = [empty_index EXCEPT ![p] = j]
    BY <2>1 DEF PutReserve
  <2>4. call[p] \in Calls /\ e \in Entry
    <3>1. call[p] \in Calls /\ call[p].val \in Vals
      BY <1>0, <2>2 DEF Phase
    <3> QED
      BY <3>1, CallTypes DEF Entry
  <2> HIDE DEF e
  <2>5. table'[tab[p]][Bin(p)] = [Bucket(p) EXCEPT ![j] = e]
    BY <1>0, <2>3, <2>4, SlotEffect DEF Published
  <2>6. Bucket(p) \in [Slots -> Entry]
    BY <1>0, <2>4, BucketExists DEF Published
  <2>7. table'[tab[p]][Bin(p)][j] = e
    BY <2>5, <2>6
  <2>8. Bucket(p)[j].state = "INVLD" /\ empty_index'[p] = j
    BY <1>0, <2>3 DEF IsEmptyIndex, INVLD, TypeOK
  <2> QED
    BY <2>1, <2>2, <2>7, <2>8 DEF e
<1>2. ASSUME NEW q \in Threads, pc'[q] = "publish", q # p
      PROVE  /\ pc[q] = "publish" /\ empty_index'[q] = empty_index[q] /\ call'[q] = call[q]
             /\ tab'[q] = tab[q] /\ Bin(q)' = Bin(q)
             /\ Bucket(q)'[empty_index[q]] = Bucket(q)[empty_index[q]]
             /\ Bucket(q)[empty_index[q]].state = "INSRT"
  <2>1. SameAt(q) /\ pc[q] = "publish"
    BY <1>2 DEF Others, SameAt
  <2>2. /\ num_buckets'[tab[q]] = num_buckets[tab[q]]
        /\ table'[tab[q]][Bin(q)][empty_index[q]] = Bucket(q)[empty_index[q]]
    BY <1>2, <2>1, ReservedKept
  <2>3. Bin(q)' = Bin(q)
    BY <2>1, <2>2 DEF Bin, SameAt
  <2>4. Bucket(q)'[empty_index[q]] = Bucket(q)[empty_index[q]]
    BY <2>1, <2>2, <2>3 DEF SameAt, Bucket
  <2>5. Bucket(q)[empty_index[q]] = [state |-> "INSRT", key |-> call[q].key, val |-> call[q].val]
    BY <2>1 DEF Reserved
  <2>6. Bucket(q)[empty_index[q]].state = "INSRT"
    BY <2>5
  <2> QED
    BY <2>1, <2>3, <2>4, <2>6 DEF SameAt
<1>3. ASSUME NEW q \in Threads, pc'[q] = "publish"
      PROVE  Bucket(q)'[empty_index'[q]] =
               [state |-> "INSRT", key |-> call'[q].key, val |-> call'[q].val]
  <2>1. CASE q = p
    <3>1. Bin(p)' = Bin(p)
      BY <1>1, <1>3, <2>1 DEF Bin
    <3> QED
      BY <1>1, <1>3, <2>1, <3>1 DEF Bucket
  <2>2. CASE q # p
    BY <1>2, <1>3, <2>2 DEF Reserved
  <2> QED
    BY <2>1, <2>2
<1>4. ASSUME NEW q \in Threads, q # p, pc'[q] = "publish", pc'[p] = "publish",
             tab'[q] = tab'[p], Bin(q)' = Bin(p)'
      PROVE  empty_index'[q] # empty_index'[p]
  <2>1. Bin(p)' = Bin(p)
    BY <1>1, <1>4 DEF Bin
  <2>2. Bucket(q) = Bucket(p)
    BY <1>1, <1>2, <1>4, <2>1 DEF Bucket
  <2> QED
    BY <1>1, <1>2, <1>4, <2>2
<1>5. ASSUME NEW q \in Threads, NEW r \in Threads, pc'[q] = "publish", pc'[r] = "publish",
             tab'[q] = tab'[r], Bin(q)' = Bin(r)', empty_index'[q] = empty_index'[r]
      PROVE  q = r
  <2>1. CASE q = p \/ r = p
    BY <1>4, <1>5, <2>1
  <2>2. CASE q # p /\ r # p
    BY <1>2, <1>5, <2>2 DEF Reserved
  <2> QED
    BY <2>1, <2>2
<1> QED
  BY <1>3, <1>5 DEF Reserved

(* What a step does to the call and the result of its thread.               *)
LEMMA AnswerMoves ==
  ASSUME TypeOK, NEW p \in Threads, Step(p), Phase(p)
  PROVE  /\ \A q \in Threads \ {p} : ret'[q] = ret[q]
         /\ pc'[p] \notin {"leave", "done"} =>
              ret'[p] = 0 \/ (ret'[p] = ret[p] /\ pc[p] \notin {"leave", "done"})
         /\ pc'[p] \in {"used", "get"} =>
              \/ pc[p] = "table" /\ call[p].op = "get" /\ call' = call /\ tab'[p] = ht /\ ht' = ht
              \/ pc[p] = "used" /\ call' = call /\ tab'[p] = tab[p]
         /\ Invoke(p) \/ Return(p) \/ (pc[p] # "idle" /\ pc'[p] # "idle" /\ call' = call)
<1>1. LocalsOK /\ ht \in Tables
  BY TypeParts
<1> USE <1>1 DEF LocalsOK, Goto
<1>2. CASE Invoke(p)
  BY <1>2 DEF Invoke, shared, locals
<1>3. CASE Return(p)
  BY <1>3 DEF Return, shared
<1>4. CASE CheckResize(p) \/ PublishVersion(p) \/ GetVersion(p) \/ NoUpdate(p)
  BY <1>4 DEF CheckResize, PublishVersion, GetVersion, NoUpdate, shared, locals
<1>5. CASE ReadTable(p)
  <2>1. pc[p] = "table" /\ call[p] \in Calls
    BY <1>5 DEF ReadTable, Phase
  <2>2. call[p].op \in {"put", "get", "remove"}
    BY <2>1, CallTypes
  <2> QED
    BY <1>5, <2>1, <2>2 DEF ReadTable, shared
<1>6. CASE Get(p)
  BY <1>6 DEF Get, shared
<1>7. CASE PutFound(p) \/ PutFull(p)
  BY <1>7 DEF PutFound, PutFull, shared, locals
<1>8. CASE PutReserve(p) \/ clht_remove(p)
  BY <1>8 DEF PutReserve, clht_remove
<1>9. CASE PutPublish(p)
  BY <1>9 DEF PutPublish
<1>10. CASE StatusLock(p) \/ Count(p) \/ StatusUnlock(p)
  BY <1>10 DEF StatusLock, Count, StatusUnlock, shared, locals
<1>11. CASE ResizeLock(p) \/ Start(p) \/ Grace(p) \/ GraceOver(p)
  BY <1>11 DEF ResizeLock, Start, Grace, GraceOver, shared, locals
<1>12. CASE Copy(p) \/ Copied(p) \/ Swap(p) \/ Release(p)
  BY <1>12 DEF Copy, Copied, Swap, Release, shared, locals
<1> QED
  BY <1>2, <1>3, <1>4, <1>5, <1>6, <1>7, <1>8, <1>9, <1>10, <1>11, <1>12
  DEF Step, Work, clht_put, ht_status, ht_resize_pes

(* What a look-up finds is a value or none.                                 *)
LEMMA MapTyped == TypeOK /\ Versions => AbsMap \in [Keys -> Vals \cup {None}]
<1> SUFFICES ASSUME TypeOK, Versions, NEW k \in Keys PROVE Lookup(ht, k) \in Vals \cup {0}
  BY DEF AbsMap, Contents
<1>1. ht \in Tables /\ num_buckets[ht] \in Nat \ {0} /\ k \in Nat
  BY Sized, Bounds
<1>2. clht_hash(num_buckets[ht], k) \in 0..(num_buckets[ht] - 1)
  BY <1>1, ModTwice DEF clht_hash
<1>3. table[ht][clht_hash(num_buckets[ht], k)] \in [Slots -> Entry]
  BY <1>1, <1>2 DEF TypeOK
<1> QED
  BY <1>3, HeldTypes DEF Lookup

(* The history of a call: while it is open it gains what the map holds.     *)
LEMMA SeenStep ==
  ASSUME Watch, NEW q \in Threads, call'[q] \in Calls, call[q] = Idle \/ call[q] = call'[q]
  PROVE  /\ AbsMap'[call'[q].key] \in seen'[q]
         /\ call[q] = call'[q] => seen[q] \subseteq seen'[q]
<1>1. call'[q] # Idle
  BY CallTypes
<1> QED
  BY <1>1 DEF Watch

(* ... and only values or none.                                             *)
LEMMA SeenTyped ==
  ASSUME TypeOK, TypeOK', Versions', Watch, seen \in [Threads -> SUBSET (Vals \cup {None})]
  PROVE  seen' \in [Threads -> SUBSET (Vals \cup {None})]
<1>1. (TypeOK /\ Versions => AbsMap \in [Keys -> Vals \cup {None}])'
  BY MapTyped, PTL
<1>2. ASSUME NEW c \in Calls PROVE AbsMap'[c.key] \in Vals \cup {None}
  <2>1. c.key \in Keys
    BY CallTypes
  <2> QED
    BY <1>1, <2>1
<1>3. \A q \in Threads : call[q] \in Calls \cup {Idle} /\ call'[q] \in Calls \cup {Idle}
  BY DEF TypeOK
<1> QED
  BY <1>2, <1>3 DEF Watch

(* Answers(q) survives a step.                                              *)
LEMMA AnswersStep ==
  ASSUME IndInv, IndInv', NEW p \in Threads, Step(p), Others(p), Watch, ~overtaken',
         NEW q \in Threads, Answers(q), seen \in [Threads -> SUBSET (Vals \cup {None})]
  PROVE  Answers(q)'
<1>0. /\ TypeOK /\ Versions /\ Phase(p) /\ Phase(q) /\ Phase(q)' /\ Published(q) /\ ~overtaken
      /\ ht' \in Tables /\ ht \in Tables /\ Resizes(p)
  <2>1. TypeOK' /\ TypeOK /\ Phase(q)'
    BY DEF IndInv
  <2> QED
    BY <2>1 DEF IndInv, Watch, TypeOK
<1>1. /\ \A r \in Threads \ {p} : ret'[r] = ret[r]
      /\ pc'[p] \notin {"leave", "done"} =>
           ret'[p] = 0 \/ (ret'[p] = ret[p] /\ pc[p] \notin {"leave", "done"})
      /\ pc'[p] \in {"used", "get"} =>
           \/ pc[p] = "table" /\ call[p].op = "get" /\ call' = call /\ tab'[p] = ht /\ ht' = ht
           \/ pc[p] = "used" /\ call' = call /\ tab'[p] = tab[p]
      /\ Invoke(p) \/ Return(p) \/ (pc[p] # "idle" /\ pc'[p] # "idle" /\ call' = call)
  BY <1>0, AnswerMoves
<1>2. q # p => SameAt(q)
  BY DEF Others
<1>3. pc'[q] = "idle" => call'[q] = Idle /\ seen'[q] = {}
  <2>1. pc'[q] = "idle" => call'[q] = Idle
    <3>1. CASE q # p
      BY <1>2, <3>1 DEF SameAt, Answers
    <3>2. CASE q = p
      BY <1>0, <1>1, <3>2 DEF Invoke, Return, Goto, TypeOK
    <3> QED
      BY <3>1, <3>2
  <2> QED
    BY <2>1 DEF Watch
<1>4. pc'[q] # "idle" => /\ call'[q] \in Calls
                         /\ AbsMap'[call'[q].key] \in seen'[q]
                         /\ call[q] = call'[q] => seen[q] \subseteq seen'[q]
  <2>1. pc'[q] # "idle" => call'[q] \in Calls
    BY <1>0 DEF Phase
  <2>2. pc'[q] # "idle" => call[q] = Idle \/ call[q] = call'[q]
    <3>1. CASE q # p
      BY <1>2, <3>1 DEF SameAt
    <3>2. CASE q = p
      BY <1>0, <1>1, <3>2 DEF Invoke, Return, Goto, TypeOK, Answers
    <3> QED
      BY <3>1, <3>2
  <2> QED
    BY <2>1, <2>2, SeenStep
<1>5. ASSUME pc'[q] \in {"used", "get"}
      PROVE  call'[q].op = "get" /\ Lookup(tab[q], call[q].key)' \in seen'[q]
  <2>1. /\ call'[q] = call[q] /\ call[q].op = "get"
        /\ tab'[q] = ht' \/ (tab'[q] = tab[q] /\ pc[q] \in {"used", "get"})
    <3>1. CASE q # p
      BY <1>2, <1>5, <3>1 DEF SameAt, Answers
    <3>2. CASE q = p
      BY <1>1, <1>5, <3>2 DEF Answers
    <3> QED
      BY <3>1, <3>2
  <2>2. call'[q].key \in Keys /\ AbsMap'[call'[q].key] \in seen'[q] /\ seen[q] \subseteq seen'[q]
    BY <1>4, <1>5, <2>1, CallTypes
  <2>3. CASE tab'[q] = ht'
    <3>1. AbsMap'[call'[q].key] = Lookup(ht, call[q].key)'
      BY <2>2 DEF AbsMap, Contents
    <3>2. Lookup(ht, call[q].key)' = Lookup(tab[q], call[q].key)'
      BY <2>3 DEF Lookup
    <3> QED
      BY <2>1, <2>2, <3>1, <3>2
  <2>4. CASE tab'[q] # ht' /\ tab'[q] = tab[q] /\ pc[q] \in {"used", "get"}
    <3>1. Lookup(tab[q], call[q].key) \in seen[q]
      BY <2>4 DEF Answers
    <3>2. CASE tab[q] = ht /\ WritesSlot(p)
      BY <1>0, <2>4, <3>2, WriteEffect DEF IndInv, Published
    <3>3. CASE tab[q] # ht \/ ~WritesSlot(p)
      <4>1. PICK t \in 1..ht : t = tab[q]
        BY <1>0, Bounds DEF Published, TypeOK, Tables
      <4>2. WritesSlot(p) => tab[p] # t
        <5> SUFFICES ASSUME WritesSlot(p) PROVE tab[p] = ht
          BY <3>3, <4>1
        <5>1. Updating(p)
          BY DEF WritesSlot, PutReserve, PutPublish, clht_remove, Updating
        <5> QED
          BY <1>0, <5>1, UpdatesHere
      <4>3. PICK k \in Keys : k = call[q].key
        BY <2>1, <2>2
      <4>4. Lookup(t, k)' = Lookup(t, k)
        BY <4>2, LookupKept
      <4>5. Lookup(t, k)' = Lookup(tab[q], call[q].key)'
        BY <2>1, <2>4, <4>1, <4>3 DEF Lookup
      <4> QED
        BY <2>1, <2>2, <3>1, <4>1, <4>3, <4>4, <4>5
    <3> QED
      BY <3>2, <3>3
  <2> QED
    BY <2>1, <2>3, <2>4
<1>6. pc'[q] \notin {"leave", "done"} => ret'[q] = 0
  BY <1>1, <1>2 DEF SameAt, Answers
<1> QED
  BY <1>3, <1>4, <1>5, <1>6 DEF Answers

(* AnswersInv holds in every state.                                         *)
THEOREM AnswersInvariance == Spec => []AnswersInv
<1>1. Init => AnswersInv
  <2> SUFFICES ASSUME Init PROVE AnswersInv
    OBVIOUS
  <2>1. \A p \in Threads : /\ pc[p] = "idle" /\ call[p] = Idle /\ seen[p] = {} /\ ret[p] = None
    BY DEF Init
  <2>2. seen \in [Threads -> SUBSET (Vals \cup {None})]
    BY DEF Init
  <2> QED
    BY <2>1, <2>2 DEF AnswersInv, Reserved, Answers
<1>2. IndInv /\ IndInv' /\ AnswersInv /\ [Next]_vars => AnswersInv'
  <2> SUFFICES ASSUME IndInv, IndInv', AnswersInv, [Next]_vars PROVE AnswersInv'
    OBVIOUS
  <2>1. CASE UNCHANGED vars
    <3> USE <2>1 DEF vars, shared, locals
    <3>1. Reserved'
      <4>1. Reserved
        BY DEF AnswersInv
      <4> QED
        BY <4>1 DEF Reserved, Bucket, Bin
    <3>2. ASSUME NEW p \in Threads, Answers(p) PROVE Answers(p)'
      <4>1. /\ AbsMap' = AbsMap
            /\ Lookup(tab[p], call[p].key)' = Lookup(tab[p], call[p].key)
        BY DEF AbsMap, Contents, Lookup, Held, Holding, clht_hash
      <4> QED
        BY <3>2, <4>1 DEF Answers
    <3> QED
      BY <3>1, <3>2 DEF AnswersInv
  <2>2. CASE Next
    <3>1. PICK p \in Threads : Step(p)
      BY <2>2 DEF Next, Step
    <3>2. Watch /\ TypeOK /\ TypeOK' /\ Versions' /\ Others(p)
          /\ Reserved /\ seen \in [Threads -> SUBSET (Vals \cup {None})]
      <4>1. TypeOK /\ Versions /\ Phase(p) /\ Resizes(p) /\ Published(p)
        BY DEF IndInv
      <4>2. Others(p)
        BY <3>1, <4>1, StepFrame DEF Published
      <4> QED
        BY <2>2, <4>1, <4>2 DEF Next, IndInv, AnswersInv
    <3>3. Reserved' /\ seen' \in [Threads -> SUBSET (Vals \cup {None})]
      BY <3>1, <3>2, ReservedStep, SeenTyped
    <3>4. ASSUME ~overtaken', NEW q \in Threads PROVE Answers(q)'
      <4>1. ~overtaken
        BY <3>2, <3>4 DEF Watch
      <4>2. Answers(q)
        BY <4>1 DEF AnswersInv
      <4> QED
        BY <3>1, <3>2, <3>4, <4>2, AnswersStep
    <3> QED
      BY <3>3, <3>4 DEF AnswersInv
  <2> QED
    BY <2>1, <2>2
<1> QED
  BY <1>1, <1>2, Invariance, PTL DEF Spec

(* Where the calls are, for the abstract map.                               *)
Stages == [p \in Threads |-> Stage(p)]

(* The steps that show nowhere in the map, ...                              *)
Quiet(p) == \/ CheckResize(p) \/ PublishVersion(p) \/ ReadTable(p) \/ GetVersion(p)
            \/ NoUpdate(p) \/ PutFull(p) \/ PutReserve(p) \/ ht_status(p)

(* A step moves its thread's call only.                                     *)
LEMMA StagesMove ==
  ASSUME NEW p \in Threads, Others(p)
  PROVE  Stages' = [Stages EXCEPT ![p] = Stage(p)']
<1>1. \A q \in Threads \ {p} : Stage(q)' = Stage(q)
  BY DEF Others, SameAt, Stage
<1> QED
  BY <1>1 DEF Stages

(* ... and change nothing of it.                                            *)
LEMMA QuietStep ==
  ASSUME IndInv, ~overtaken, NEW p \in Threads, Quiet(p)
  PROVE  Stage(p)' = Stage(p) /\ UNCHANGED <<AbsMap, call, ret>>
<1>1. TypeOK /\ Step(p)
  BY DEF IndInv, Quiet, Step, Work, clht_put
<1>2. pc \in [Threads -> Labels]
  BY <1>1 DEF TypeOK
<1>3. Stage(p)' = Stage(p) /\ UNCHANGED <<call, ret>>
  <2> USE <1>2 DEF Goto, Stage
  <2>1. CASE CheckResize(p) \/ PublishVersion(p) \/ GetVersion(p) \/ NoUpdate(p) \/ PutFull(p)
    BY <2>1 DEF CheckResize, PublishVersion, GetVersion, NoUpdate, PutFull, shared, locals
  <2>2. CASE ReadTable(p)
    <3>1. Phase(p)
      BY DEF IndInv
    <3>2. call[p] \in Calls
      BY <2>2, <3>1 DEF Phase, ReadTable
    <3>3. call[p].op \in {"put", "get", "remove"}
      BY <3>2, CallTypes
    <3> QED
      BY <2>2, <3>3 DEF ReadTable
  <2>3. CASE PutReserve(p)
    BY <2>3 DEF PutReserve
  <2>4. CASE StatusLock(p) \/ Count(p) \/ StatusUnlock(p)
    BY <2>4 DEF StatusLock, Count, StatusUnlock, locals
  <2>5. CASE ResizeLock(p) \/ Start(p) \/ Grace(p) \/ GraceOver(p)
    BY <2>5 DEF ResizeLock, Start, Grace, GraceOver, shared, locals
  <2>6. CASE Copy(p) \/ Copied(p) \/ Swap(p) \/ Release(p)
    BY <2>6 DEF Copy, Copied, Swap, Release, shared, locals
  <2> QED
    BY <2>1, <2>2, <2>3, <2>4, <2>5, <2>6 DEF Quiet, ht_status, ht_resize_pes
<1>4. AbsMap' = AbsMap
  <2>1. CASE PutReserve(p)
    BY <2>1, ReserveSilent
  <2>2. CASE ~PutReserve(p)
    <3>1. ~WritesSlot(p)
      <4>1. ~PutPublish(p) /\ ~clht_remove(p)
        BY <2>2 DEF PutPublish, clht_remove, Quiet, CheckResize, PublishVersion, ReadTable,
           GetVersion, NoUpdate, PutFull, ht_status, StatusLock, Count, StatusUnlock,
           ht_resize_pes, ResizeLock, Start, Grace, GraceOver, Copy, Copied, Swap, Release
      <4> QED
        BY <2>2, <4>1 DEF WritesSlot
    <3> QED
      BY <1>1, <3>1, MapKept
  <2> QED
    BY <2>1, <2>2
<1> QED
  BY <1>3, <1>4

(* A call that goes on unseen has nothing new to see.                       *)
LEMMA QuietSeen ==
  ASSUME IndInv, AnswersInv, ~overtaken, Watch, UNCHANGED <<AbsMap, call>>
  PROVE  seen' = seen
<1>1. seen = [q \in Threads |-> seen[q]]
  BY DEF AnswersInv
<1>2. ASSUME NEW q \in Threads PROVE seen'[q] = seen[q]
  <2>1. Answers(q) /\ Phase(q)
    BY DEF AnswersInv, IndInv
  <2>2. CASE pc[q] = "idle"
    BY <2>1, <2>2 DEF Answers, Watch
  <2>3. CASE pc[q] # "idle"
    <3>1. call[q] # Idle
      BY <2>1, <2>3, CallTypes DEF Phase
    <3>2. seen'[q] = seen[q] \cup {AbsMap[call[q].key]}
      BY <3>1 DEF Watch
    <3> QED
      BY <2>1, <2>3, <3>2 DEF Answers
  <2> QED
    BY <2>2, <2>3
<1>3. seen' = [q \in Threads |-> seen'[q]]
  BY DEF Watch
<1> QED
  BY <1>1, <1>2, <1>3

(* A call opens and returns.                                                *)
LEMMA CallsImplement ==
  ASSUME IndInv, AnswersInv, ~overtaken, NEW p \in Threads, Others(p), Invoke(p) \/ Return(p)
  PROVE  KV!KVInvoke(p) \/ KV!KVReturn(p)
<1>0. TypeOK /\ Step(p) /\ ~WritesSlot(p) /\ pc \in [Threads -> Labels]
      /\ call \in [Threads -> Calls \cup {Idle}]
  <2>1. TypeOK /\ Step(p)
    BY DEF IndInv, Step, Work
  <2>2. ~WritesSlot(p)
    BY DEF Invoke, Return, WritesSlot, PutReserve, PutPublish, clht_remove
  <2> QED
    BY <2>1, <2>2 DEF TypeOK
<1>1. AbsMap' = AbsMap
  BY <1>0, MapKept
<1>2. Stages' = [Stages EXCEPT ![p] = Stage(p)'] /\ Stages[p] = Stage(p)
  BY StagesMove DEF Stages
<1>3. CASE Invoke(p)
  <2>1. PICK c \in Calls : call' = [call EXCEPT ![p] = c]
    BY <1>3 DEF Invoke
  <2>2. Stage(p) = "idle" /\ Stage(p)' = "open" /\ ret' = ret
    BY <1>0, <1>3 DEF Invoke, Goto, Stage, locals
  <2>3. c \in KV!Calls
    BY DEF Calls, KV!Calls, KV!None, None
  <2> QED
    BY <1>1, <1>2, <2>1, <2>2, <2>3 DEF KV!KVInvoke, Stages
<1>4. CASE Return(p)
  <2>1. Stage(p) = "done" /\ Stage(p)' = "idle"
    BY <1>0, <1>4 DEF Return, Goto, Stage
  <2>2. call' = [call EXCEPT ![p] = KV!Idle] /\ ret' = [ret EXCEPT ![p] = KV!None]
    BY <1>4 DEF Return, Idle, KV!Idle, KV!None, None
  <2> QED
    BY <1>1, <1>2, <2>1, <2>2 DEF KV!KVReturn, Stages
<1> QED
  BY <1>3, <1>4

(* An update takes effect, or answers with what it has seen.                *)
LEMMA UpdatesImplement ==
  ASSUME IndInv, AnswersInv, ~overtaken, NEW p \in Threads, Others(p),
         PutPublish(p) \/ clht_remove(p) \/ PutFound(p)
  PROVE  KV!KVApply(p) \/ KV!KVAnswer(p)
<1> DEFINE k == call[p].key
<1>0. TypeOK /\ Phase(p) /\ Answers(p) /\ Reserved /\ Step(p) /\ Versions /\ Published(p)
      /\ pc \in [Threads -> Labels] /\ ret \in [Threads -> Vals \cup {None}]
  <2>1. TypeOK
    BY DEF IndInv
  <2> QED
    BY <2>1 DEF IndInv, AnswersInv, Step, Work, clht_put, TypeOK
<1>1. /\ pc[p] \in {"put", "publish", "remove"} /\ pc'[p] = "leave" /\ call' = call
      /\ call[p].op = IF pc[p] = "remove" THEN "remove" ELSE "put"
  BY <1>0 DEF PutPublish, clht_remove, PutFound, Goto, Phase
<1>2. /\ Stages[p] = "open" /\ Stages' = [Stages EXCEPT ![p] = "done"]
  BY <1>1, StagesMove DEF Stages, Stage
<1>3. k \in Keys /\ AbsMap[k] \in seen[p] /\ ret[p] = None /\ call[p] \in Calls
      /\ AbsMap[k] \in Vals \cup {0}
  <2>1. call[p] \in Calls
    BY <1>0, <1>1 DEF Phase
  <2> QED
    BY <1>0, <1>1, <2>1, CallTypes, MapTyped DEF Answers
<1>4. ASSUME AbsMap[k] # 0, call[p].op = "put", UNCHANGED <<AbsMap, ret>>
      PROVE  KV!KVAnswer(p)
  <2>1. KV!Justified(p, KV!None)
    BY <1>3, <1>4 DEF KV!Justified, KV!None
  <2>2. ret' = [ret EXCEPT ![p] = KV!None]
    BY <1>0, <1>3, <1>4 DEF KV!None, None
  <2> QED
    BY <1>1, <1>2, <1>4, <2>1, <2>2 DEF KV!KVAnswer, Stages, KV!None
<1>5. CASE PutPublish(p)
  <2>1. CASE AbsMap[k] = 0 /\ ret' = [ret EXCEPT ![p] = call[p].val]
             /\ AbsMap' = [AbsMap EXCEPT ![k] = call[p].val]
    <3>1. call[p].op = "put"
      BY <1>1, <1>5 DEF PutPublish
    <3> QED
      BY <1>1, <1>2, <2>1, <3>1 DEF KV!KVApply, Stages, KV!None
  <2>2. CASE AbsMap[k] # 0 /\ UNCHANGED <<AbsMap, ret>>
    BY <1>1, <1>4, <1>5, <2>2 DEF PutPublish
  <2> QED
    BY <1>0, <1>5, <2>1, <2>2, PublishApplies
<1>6. CASE clht_remove(p)
  <2>0. call[p].op = "remove"
    BY <1>1, <1>6 DEF clht_remove
  <2>1. CASE AbsMap[k] # 0 /\ ret' = [ret EXCEPT ![p] = AbsMap[k]]
             /\ AbsMap' = [AbsMap EXCEPT ![k] = 0]
    BY <1>1, <1>2, <2>0, <2>1 DEF KV!KVApply, Stages, KV!None
  <2>2. CASE AbsMap[k] = 0 /\ UNCHANGED <<AbsMap, ret>>
    <3>1. KV!Justified(p, KV!None)
      BY <1>3, <2>0, <2>2 DEF KV!Justified, KV!None
    <3>2. ret' = [ret EXCEPT ![p] = KV!None]
      BY <1>0, <1>3, <2>2 DEF KV!None, None
    <3> QED
      BY <1>1, <1>2, <2>2, <3>1, <3>2 DEF KV!KVAnswer, Stages, KV!None
  <2> QED
    BY <1>6, <2>1, <2>2, RemoveApplies
<1>7. CASE PutFound(p)
  <2>1. Updating(p) /\ pc[p] = "put" /\ ~WritesSlot(p) /\ ret' = ret
    BY <1>7 DEF PutFound, Updating, WritesSlot, PutReserve, PutPublish, clht_remove, locals
  <2>2. tab[p] = ht
    BY <2>1, UpdatesHere
  <2>3. AbsMap[k] = Held(Bucket(p), k)
    BY <1>3, <2>2 DEF AbsMap, Contents, Lookup, Bucket, Bin
  <2>4. Held(Bucket(p), k) # 0
    BY <1>7 DEF PutFound
  <2>5. AbsMap' = AbsMap
    BY <1>0, <2>1, MapKept
  <2> QED
    BY <1>1, <1>4, <2>1, <2>3, <2>4, <2>5
<1> QED
  BY <1>5, <1>6, <1>7

(* A get answers with what it has seen, from whatever table it was sent to. *)
LEMMA GetImplements ==
  ASSUME IndInv, AnswersInv, ~overtaken, NEW p \in Threads, Others(p), Get(p)
  PROVE  KV!KVAnswer(p)
<1>0. TypeOK /\ Phase(p) /\ Answers(p) /\ Step(p) /\ Versions /\ Published(p) /\ ~WritesSlot(p)
      /\ pc[p] = "get" /\ pc \in [Threads -> Labels] /\ ret \in [Threads -> Vals \cup {None}]
  <2>1. TypeOK
    BY DEF IndInv
  <2>2. ~WritesSlot(p) /\ pc[p] = "get"
    BY DEF Get, WritesSlot, PutReserve, PutPublish, clht_remove
  <2> QED
    BY <2>1, <2>2 DEF IndInv, AnswersInv, Step, Work, TypeOK
<1>1. AbsMap' = AbsMap /\ call' = call
  BY <1>0, MapKept DEF Get
<1>2. Stages[p] = "open" /\ Stages' = [Stages EXCEPT ![p] = "done"]
  BY <1>0, StagesMove DEF Stages, Stage, Get, Goto
<1> DEFINE r == Held(Bucket(p), call[p].key)
<1>3. call[p].op = "get" /\ r \in seen[p]
  BY <1>0 DEF Answers, Lookup, Bucket, Bin
<1>4. r \in Vals \cup {0}
  <2>1. call[p] \in Calls
    BY <1>0 DEF Phase
  <2> QED
    BY <1>0, <2>1, BucketExists, HeldTypes DEF Published
<1>5. ret' = [ret EXCEPT ![p] = r]
  BY DEF Get
<1>6. KV!Justified(p, r)
  BY <1>3 DEF KV!Justified
<1> HIDE DEF r
<1> QED
  BY <1>1, <1>2, <1>4, <1>5, <1>6 DEF KV!KVAnswer, Stages, KV!None

(* As long as no update is in a table that is copied or was replaced, the   *)
(* table is one atomic map: a put takes effect when it publishes its slot,  *)
(* a remove with its compare-and-swap, and a get answers right although it  *)
(* may look in a table that was replaced.                                   *)
THEOREM IsAtomicMap == Spec => LinearizableUntilOvertaken
<1>1. Init => KV!KVInit
  <2> SUFFICES ASSUME Init PROVE KV!KVInit
    OBVIOUS
  <2>1. AbsMap = [k \in Keys |-> KV!None]
    <3>1. ASSUME NEW k \in Keys PROVE Lookup(ht, k) = 0
      <4>1. clht_hash(InitBuckets, k) \in 0..(InitBuckets - 1)
        BY ModTwice, Bounds, BucketsAssumption DEF clht_hash
      <4>2. ht = 1 /\ 1 \in Tables
        BY Bounds DEF Init
      <4>3. table[ht][clht_hash(num_buckets[ht], k)] = NoEntries
        BY <4>1, <4>2 DEF Init
      <4>4. Holding(NoEntries, k) = {}
        BY DEF Holding, NoEntries, INVLD
      <4> QED
        BY <4>3, <4>4 DEF Lookup, Held
    <3> QED
      BY <3>1 DEF AbsMap, Contents, KV!None
  <2>2. ASSUME NEW p \in Threads PROVE Stage(p) = "idle"
    BY DEF Init, Stage
  <2>3. /\ call = [p \in Threads |-> KV!Idle] /\ ret = [p \in Threads |-> KV!None]
        /\ seen = [p \in Threads |-> {}]
    BY DEF Init, KV!Idle, KV!None, Idle, None
  <2> QED
    BY <2>1, <2>2, <2>3 DEF KV!KVInit
<1>2. ASSUME IndInv, AnswersInv, [Next]_vars
      PROVE  [KV!KVNext \/ UNCHANGED KV!kvVars \/ overtaken']_vars
  <2> SUFFICES ASSUME Next, ~overtaken' PROVE KV!KVNext \/ UNCHANGED KV!kvVars
    BY <1>2
  <2>1. PICK p \in Threads : Step(p)
    BY DEF Next, Step
  <2>2. Watch /\ ~overtaken
    BY DEF Next, Watch
  <2>3. KV!Watch
    BY <2>2 DEF Watch, KV!Watch, KV!Idle, Idle, KV!None, None
  <2>4. Others(p)
    <3>1. TypeOK /\ Versions /\ Phase(p) /\ Resizes(p) /\ Published(p)
      BY <1>2 DEF IndInv
    <3> QED
      BY <2>1, <3>1, StepFrame DEF Published
  <2>5. CASE Quiet(p)
    <3>1. Stage(p)' = Stage(p) /\ UNCHANGED <<AbsMap, call, ret>>
      BY <1>2, <2>2, <2>5, QuietStep
    <3>2. Stages' = Stages
      BY <2>4, <3>1, StagesMove DEF Stages
    <3>3. seen' = seen
      BY <1>2, <2>2, <3>1, QuietSeen
    <3> QED
      BY <3>1, <3>2, <3>3 DEF KV!kvVars, Stages
  <2>6. CASE ~Quiet(p)
    <3>1. Invoke(p) \/ Return(p) \/ Get(p) \/ PutPublish(p) \/ clht_remove(p) \/ PutFound(p)
      BY <2>1, <2>6 DEF Step, Work, Quiet, clht_put
    <3>2. KV!KVInvoke(p) \/ KV!KVApply(p) \/ KV!KVAnswer(p) \/ KV!KVReturn(p)
      BY <1>2, <2>2, <2>4, <3>1, CallsImplement, UpdatesImplement, GetImplements
    <3> QED
      BY <2>3, <3>2 DEF KV!KVNext
  <2> QED
    BY <2>5, <2>6
<1> QED
  BY <1>1, <1>2, Invariance, AnswersInvariance, PTL DEF Spec, LinearizableUntilOvertaken
=============================================================================
