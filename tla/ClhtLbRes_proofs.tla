-------------------------- MODULE ClhtLbRes_proofs --------------------------
(***************************************************************************)
(* Proofs about ClhtLbRes, for every number of threads, keys, entries per  *)
(* bucket and for every value of the bounds: the types, the mutual         *)
(* exclusion of updates, and that the resize protocol never lets an update *)
(* go to a table that has been replaced.  All follow from IndInv.          *)
(***************************************************************************)
EXTENDS ClhtLbRes, TLAPS

(* Division with remainder.                                                 *)
LEMMA DivMod ==
  ASSUME NEW n \in Nat, NEW e \in Nat \ {0}
  PROVE  n \div e \in Nat /\ n = (n \div e) * e + (n % e)
  OBVIOUS

(* A multiple of e leaves no remainder.                                     *)
LEMMA MultipleMod ==
  ASSUME NEW q \in Nat, NEW e \in Nat \ {0}
  PROVE  (q * e) % e = 0
<1>1. ASSUME NEW r \in 0..(e - 1) PROVE (q * e + r) % e = r
  OBVIOUS
<1>2. q * e + 0 = q * e /\ 0 \in 0..(e - 1)
  OBVIOUS
<1> QED
  BY <1>1, <1>2

(* Appending a bucket to a chain of whole buckets leaves whole buckets.     *)
LEMMA WholeBuckets ==
  ASSUME NEW n \in Nat, NEW e \in Nat \ {0}, n % e = 0
  PROVE  (n + e) % e = 0
<1> DEFINE q == n \div e
<1>1. q \in Nat /\ n = q * e
  BY DivMod
<1>2. n + e = (q + 1) * e
  BY <1>1, Z3
<1>3. ((q + 1) * e) % e = 0
  BY MultipleMod, <1>1
<1> QED
  BY <1>2, <1>3

USE DEF None

(* key & hash is a bucket of the table.                                     *)
LEMMA HashInRange ==
  ASSUME TablesOK, NEW t \in Tables, NEW k \in Nat
  PROVE  clht_hash(t, k) \in 0..(num_buckets[t] - 1) /\ clht_hash(t, k) \in Bins
<1>1. num_buckets[t] \in Nat \ {0} /\ num_buckets[t] <= MaxBuckets
  BY DEF TablesOK
<1>2. ASSUME NEW n \in Nat \ {0} PROVE k % n \in 0..(n - 1)
  OBVIOUS
<1>3. clht_hash(t, k) \in 0..(num_buckets[t] - 1)
  BY <1>1, <1>2 DEF clht_hash
<1> QED
  BY <1>1, <1>3, BoundsAssumption DEF Bins

(* The bucket a thread works on is one of its table.                        *)
LEMMA BinInRange ==
  ASSUME TypeOK, NEW p \in Threads
  PROVE  /\ call[p].key \in Nat
         /\ Bin(p) \in 0..(num_buckets[tab[p]] - 1)
         /\ Bin(p) \in Bins
<1>1. call[p].key \in Nat
  <2>1. call[p] \in Calls \/ call[p] = Idle
    BY DEF TypeOK, ThreadsOK
  <2>2. ASSUME call[p] \in Calls PROVE call[p].key \in Nat
    BY <2>2, KeysAssumption DEF Calls
  <2>3. Idle.key \in Nat
    BY DEF Idle
  <2> QED
    BY <2>1, <2>2, <2>3
<1>2. QED
  BY <1>1, HashInRange DEF TypeOK, ThreadsOK, Bin

(* The length of a chain of whole buckets, at least the head bucket.        *)
Whole(n) == n \in Nat /\ n > 0 /\ n % Entries = 0

(* Appending a new bucket adds Entries slots of the same kind.              *)
LEMMA NewBucketShape ==
  ASSUME NEW S, None \in S, NEW x \in S, NEW c \in Seq(S)
  PROVE  /\ c \o NewBucket(x) \in Seq(S)
         /\ Len(c \o NewBucket(x)) = Len(c) + Entries
<1>1. NewBucket(x) \in Seq(S) /\ Len(NewBucket(x)) = Entries
  BY EntriesAssumption DEF NewBucket
<1> QED
  BY <1>1

(* Whole buckets and one more are whole buckets.                            *)
LEMMA WholeMore == ASSUME NEW n, Whole(n) PROVE Whole(n + Entries)
<1>1. n + Entries \in Nat /\ n + Entries > 0
  BY EntriesAssumption DEF Whole
<1>2. (n + Entries) % Entries = 0
  BY EntriesAssumption, WholeBuckets DEF Whole
<1> QED
  BY <1>1, <1>2 DEF Whole

(* The abstract map is a map.                                               *)
LEMMA AbsMapType == TablesOK => AbsMap \in [Keys -> Vals \cup {None}]
<1> SUFFICES ASSUME TablesOK, NEW k \in Keys
             PROVE  Lookup(ht, k) \in Vals \cup {None}
  BY DEF AbsMap
<1> DEFINE b == clht_hash(ht, k)
           S == SlotsWith(key[ht][b], k)
<1>1. ht \in Tables /\ b \in Bins
  BY HashInRange, KeysAssumption DEF TablesOK
<1>2. CASE S = {}
  BY <1>2 DEF Lookup
<1>3. CASE S # {}
  <2> DEFINE i == CHOOSE i \in S : TRUE
  <2>1. i \in S
    BY <1>3
  <2>2. i \in 1..Len(val[ht][b])
    BY <2>1, <1>1 DEF SlotsWith, TablesOK
  <2>3. val[ht][b] \in Seq(Vals \cup {None})
    BY <1>1 DEF TablesOK
  <2>4. val[ht][b][i] \in Vals \cup {None}
    BY <2>2, <2>3
  <2> QED
    BY <2>4, <1>3 DEF Lookup
<1> QED
  BY <1>2, <1>3
-----------------------------------------------------------------------------
(* The part of TablesOK about chains, and what a step does to them: they    *)
(* keep their shape and never get shorter.                                  *)
ChainsOK ==
  /\ key \in [Tables -> [Bins -> Seq(Keys \cup {None})]]
  /\ val \in [Tables -> [Bins -> Seq(Vals \cup {None})]]
  /\ \A t \in Tables, b \in Bins : /\ Len(key[t][b]) = Len(val[t][b])
                                    /\ Whole(Len(key[t][b]))

ChainsGrow == \A t \in Tables, b \in Bins : Len(key[t][b]) <= Len(key'[t][b])

(* The type invariant says that every chain is well formed.                 *)
LEMMA ChainsFromTables == TablesOK => ChainsOK
<1> SUFFICES ASSUME TablesOK PROVE ChainsOK
  OBVIOUS
<1>1. ASSUME NEW t \in Tables, NEW b \in Bins
      PROVE  Len(key[t][b]) = Len(val[t][b]) /\ Whole(Len(key[t][b]))
  <2>1. key[t][b] \in Seq(Keys \cup {None})
    BY DEF TablesOK
  <2>2. Len(key[t][b]) \in Nat
    BY <2>1
  <2> QED
    BY <2>2 DEF TablesOK, Whole
<1> QED
  BY <1>1 DEF TablesOK, ChainsOK

(* Well-formed chains have a positive length.                               *)
LEMMA LenType ==
  ASSUME ChainsOK, NEW t \in Tables, NEW b \in Bins
  PROVE  Len(key[t][b]) \in Nat \ {0} /\ Len(val[t][b]) = Len(key[t][b])
<1>1. Whole(Len(key[t][b])) /\ Len(val[t][b]) = Len(key[t][b])
  BY DEF ChainsOK
<1>2. Len(key[t][b]) \in Nat \ {0}
  BY <1>1 DEF Whole
<1> QED
  BY <1>1, <1>2

(* A step that touches neither keys nor values keeps the chains as they are. *)
LEMMA ChainsSame ==
  ASSUME ChainsOK, UNCHANGED <<key, val>>
  PROVE  ChainsOK' /\ ChainsGrow
<1>1. ChainsOK'
  BY DEF ChainsOK
<1>2. ChainsGrow
  BY LenType DEF ChainsGrow
<1> QED
  BY <1>1, <1>2

(* Writes to slots of a chain keep it well formed and no shorter.           *)
LEMMA ChainsWrite ==
  ASSUME ChainsOK, NEW t \in Tables, NEW b \in Bins, NEW i \in 1..Len(key[t][b]),
         NEW k \in Keys \cup {None}, NEW v \in Vals \cup {None},
         key' \in {key, [key EXCEPT ![t][b][i] = k]},
         val' \in {val, [val EXCEPT ![t][b][i] = v]}
  PROVE  ChainsOK' /\ ChainsGrow
<1>1. i \in 1..Len(val[t][b])
  BY LenType
<1>2. key \in [Tables -> [Bins -> Seq(Keys \cup {None})]]
  BY DEF ChainsOK
<1>3. val \in [Tables -> [Bins -> Seq(Vals \cup {None})]]
  BY DEF ChainsOK
<1>4. /\ key' \in [Tables -> [Bins -> Seq(Keys \cup {None})]]
      /\ \A u \in Tables, c \in Bins : Len(key'[u][c]) = Len(key[u][c])
  <2> DEFINE g == [key EXCEPT ![t][b][i] = k]
  <2>1. /\ g \in [Tables -> [Bins -> Seq(Keys \cup {None})]]
        /\ \A u \in Tables, c \in Bins : Len(g[u][c]) = Len(key[u][c])
    BY <1>2
  <2> HIDE DEF g
  <2>2. key' = key \/ key' = g
    BY DEF g
  <2> QED
    BY <1>2, <2>1, <2>2
<1>5. /\ val' \in [Tables -> [Bins -> Seq(Vals \cup {None})]]
      /\ \A u \in Tables, c \in Bins : Len(val'[u][c]) = Len(val[u][c])
  <2> DEFINE g == [val EXCEPT ![t][b][i] = v]
  <2>1. /\ g \in [Tables -> [Bins -> Seq(Vals \cup {None})]]
        /\ \A u \in Tables, c \in Bins : Len(g[u][c]) = Len(val[u][c])
    BY <1>1, <1>3
  <2> HIDE DEF g
  <2>2. val' = val \/ val' = g
    BY DEF g
  <2> QED
    BY <1>3, <2>1, <2>2
<1>6. ChainsOK'
  BY <1>4, <1>5 DEF ChainsOK
<1>7. ChainsGrow
  BY <1>4, LenType DEF ChainsGrow
<1> QED
  BY <1>6, <1>7

(* Linking a new bucket at the end of a chain keeps it well formed.         *)
LEMMA ChainsAppend ==
  ASSUME ChainsOK, NEW t \in Tables, NEW b \in Bins,
         NEW k \in Keys \cup {None}, NEW v \in Vals \cup {None},
         key' = [key EXCEPT ![t][b] = @ \o NewBucket(k)],
         val' = [val EXCEPT ![t][b] = @ \o NewBucket(v)]
  PROVE  ChainsOK' /\ ChainsGrow
<1>1. key \in [Tables -> [Bins -> Seq(Keys \cup {None})]]
  BY DEF ChainsOK
<1>2. val \in [Tables -> [Bins -> Seq(Vals \cup {None})]]
  BY DEF ChainsOK
<1>3. /\ key' \in [Tables -> [Bins -> Seq(Keys \cup {None})]]
      /\ \A u \in Tables, c \in Bins :
           Len(key'[u][c]) = IF u = t /\ c = b THEN Len(key[u][c]) + Entries
                             ELSE Len(key[u][c])
  <2> DEFINE s == key[t][b] \o NewBucket(k)
  <2>1. s \in Seq(Keys \cup {None}) /\ Len(s) = Len(key[t][b]) + Entries
    <3>1. key[t][b] \in Seq(Keys \cup {None})
      BY <1>1
    <3> QED
      BY <3>1, NewBucketShape
  <2>2. key' = [key EXCEPT ![t][b] = s]
    OBVIOUS
  <2>3. /\ key' \in [Tables -> [Bins -> Seq(Keys \cup {None})]]
        /\ \A u \in Tables, c \in Bins :
             key'[u][c] = IF u = t /\ c = b THEN s ELSE key[u][c]
    BY <1>1, <2>1, <2>2
  <2> QED
    BY <2>1, <2>3
<1>4. /\ val' \in [Tables -> [Bins -> Seq(Vals \cup {None})]]
      /\ \A u \in Tables, c \in Bins :
           Len(val'[u][c]) = IF u = t /\ c = b THEN Len(val[u][c]) + Entries
                             ELSE Len(val[u][c])
  <2> DEFINE s == val[t][b] \o NewBucket(v)
  <2>1. s \in Seq(Vals \cup {None}) /\ Len(s) = Len(val[t][b]) + Entries
    <3>1. val[t][b] \in Seq(Vals \cup {None})
      BY <1>2
    <3> QED
      BY <3>1, NewBucketShape
  <2>2. val' = [val EXCEPT ![t][b] = s]
    OBVIOUS
  <2>3. /\ val' \in [Tables -> [Bins -> Seq(Vals \cup {None})]]
        /\ \A u \in Tables, c \in Bins :
             val'[u][c] = IF u = t /\ c = b THEN s ELSE val[u][c]
    BY <1>2, <2>1, <2>2
  <2> QED
    BY <2>1, <2>3
<1>5. ASSUME NEW u \in Tables, NEW c \in Bins
      PROVE  Len(key'[u][c]) = Len(val'[u][c]) /\ Whole(Len(key'[u][c]))
  BY <1>3, <1>4, WholeMore DEF ChainsOK
<1>6. ChainsOK'
  BY <1>3, <1>4, <1>5 DEF ChainsOK
<1>7. ChainsGrow
  BY <1>3, LenType DEF ChainsGrow
<1> QED
  BY <1>6, <1>7

(* The step of a copy: what clht_put_seq does to the chains.                *)
LEMMA ChainsPutSeq ==
  ASSUME TablesOK, NEW t \in Tables, NEW k \in Keys, NEW v \in Vals \cup {None},
         PutSeq(t, k, v)
  PROVE  ChainsOK' /\ ChainsGrow
<1> DEFINE b == clht_hash(t, k)
<1>1. b \in Bins /\ ChainsOK
  BY HashInRange, KeysAssumption, ChainsFromTables
<1>2. CASE SlotsWith(key[t][b], None) = {}
  <2>1. /\ key' = [key EXCEPT ![t][b] = @ \o NewBucket(k)]
        /\ val' = [val EXCEPT ![t][b] = @ \o NewBucket(v)]
    BY <1>2 DEF PutSeq
  <2> QED
    BY <1>1, <2>1, ChainsAppend
<1>3. CASE SlotsWith(key[t][b], None) # {}
  <2>1. PICK i \in SlotsWith(key[t][b], None) :
          /\ key' = [key EXCEPT ![t][b][i] = k]
          /\ val' = [val EXCEPT ![t][b][i] = v]
    BY <1>3 DEF PutSeq
  <2>2. i \in 1..Len(key[t][b])
    BY DEF SlotsWith
  <2> QED
    BY <1>1, <2>1, <2>2, ChainsWrite
<1> QED
  BY <1>2, <1>3
-----------------------------------------------------------------------------
(* What the invariant says of one thread, its key and its bucket.           *)
LEMMA Thread ==
  ASSUME TypeOK, NEW p \in Threads
  PROVE  /\ tab[p] \in Tables /\ Bin(p) \in Bins
         /\ Bin(p) \in 0..(num_buckets[tab[p]] - 1)
         /\ call[p].key \in Keys \cup {None} /\ call[p].val \in Vals \cup {None}
         /\ ix[p] \in Nat \ {0} /\ ChainsOK
<1>1. call[p] \in Calls \/ call[p] = Idle
  BY DEF TypeOK, ThreadsOK
<1>2. call[p].key \in Keys \cup {None} /\ call[p].val \in Vals \cup {None}
  BY <1>1 DEF Calls, Idle
<1>3. tab[p] \in Tables /\ ix[p] \in Nat \ {0} /\ ChainsOK
  BY ChainsFromTables DEF TypeOK, ThreadsOK
<1> QED
  BY <1>2, <1>3, BinInRange

(* The thread that resizes and the bucket it is at.                         *)
LEMMA Resizer ==
  ASSUME IndInv, NEW p \in Threads, pc[p] \in Copying
  PROVE  /\ rs[p].old = ht /\ rs[p].new = ht + 1 /\ ntables = ht + 1
         /\ rs[p].old \in Tables /\ rs[p].new \in Tables
         /\ rs[p].bin \in Bins /\ rs[p].by \in Nat \ {0} /\ rs[p].again \in BOOLEAN
         /\ num_buckets[ht] \in Nat \ {0}
<1>1. rs[p] \in ResizeLocals
  BY DEF IndInv, TypeOK, ThreadsOK
<1>2. num_buckets[ht] \in Nat \ {0}
  BY DEF IndInv, TypeOK, TablesOK
<1> QED
  BY <1>1, <1>2 DEF IndInv, OneResizer, ResizeLocals

(* No step leaves the chains broken or makes one shorter.                   *)
LEMMA ChainsStep ==
  ASSUME IndInv, NEW p \in Threads, Invoke(p) \/ Work(p)
  PROVE  ChainsOK' /\ ChainsGrow
<1>1. TypeOK /\ InRange /\ TablesOK /\ ChainsOK
  BY ChainsFromTables DEF IndInv, TypeOK
<1>2. /\ tab[p] \in Tables /\ Bin(p) \in Bins
      /\ call[p].key \in Keys \cup {None} /\ call[p].val \in Vals \cup {None}
  BY <1>1, Thread
<1>3. CASE PutVal(p)
  <2>1. PICK i \in SlotsWith(Chain(p), None) :
          val' = [val EXCEPT ![tab[p]][Bin(p)][i] = call[p].val]
    BY <1>3 DEF PutVal
  <2>2. i \in 1..Len(key[tab[p]][Bin(p)]) /\ key' = key
    BY <1>3 DEF PutVal, SlotsWith, Chain
  <2> QED
    BY <1>1, <1>2, <2>1, <2>2, ChainsWrite
<1>4. CASE PutKey(p)
  <2>1. ix[p] \in 1..Len(key[tab[p]][Bin(p)])
    BY <1>1, <1>2, <1>4, LenType, Thread DEF PutKey, InRange, Scanning, Chain
  <2>2. key' = [key EXCEPT ![tab[p]][Bin(p)][ix[p]] = call[p].key] /\ val' = val
    BY <1>4 DEF PutKey
  <2> QED
    BY <1>1, <1>2, <2>1, <2>2, ChainsWrite
<1>5. CASE PutLink(p)
  BY <1>1, <1>2, <1>5, ChainsAppend DEF PutLink
<1>6. CASE RemoveKey(p)
  <2>1. PICK i \in SlotsWith(Chain(p), call[p].key) :
          key' = [key EXCEPT ![tab[p]][Bin(p)][i] = None]
    BY <1>6 DEF RemoveKey
  <2>2. i \in 1..Len(key[tab[p]][Bin(p)]) /\ val' = val
    BY <1>6 DEF RemoveKey, SlotsWith, Chain
  <2> QED
    BY <1>1, <1>2, <2>1, <2>2, ChainsWrite
<1>7. CASE CopySlot(p)
  <2> DEFINE t == rs[p].old
             b == rs[p].bin
             k == key[t][b][ix[p]]
             v == val[t][b][ix[p]]
  <2>1. pc[p] = "copy" /\ t \in Tables /\ b \in Bins /\ rs[p].new \in Tables
    BY <1>7, Resizer DEF CopySlot, Copying
  <2>2. ix[p] \in 1..Len(key[t][b]) /\ ix[p] \in 1..Len(val[t][b])
    BY <1>1, <2>1, LenType, Thread DEF InRange
  <2>3. key[t][b] \in Seq(Keys \cup {None}) /\ val[t][b] \in Seq(Vals \cup {None})
    BY <1>1, <2>1 DEF ChainsOK
  <2>4. k \in Keys \cup {None} /\ v \in Vals \cup {None}
    BY <2>2, <2>3
  <2>5. CASE k = None
    BY <1>1, <1>7, <2>5, ChainsSame DEF CopySlot
  <2>6. CASE k # None
    BY <1>1, <1>7, <2>1, <2>4, <2>6, ChainsPutSeq DEF CopySlot
  <2> QED
    BY <2>5, <2>6
<1>8. ASSUME ~PutVal(p), ~PutKey(p), ~PutLink(p), ~RemoveKey(p), ~CopySlot(p)
      PROVE  UNCHANGED <<key, val>>
  BY <1>8 DEF Invoke, Work, Get, Exists, Lock, Put, Remove, Release, Status, Resize,
     Return, shared, GetVal, GetKey, GetCheck, GetNext, ExistsKey, ExistsNext,
     LockAcquire, LockResized, AwaitNewTable, Reread, PutFound, PutExpand, RemoveMiss,
     StatusLock, Count, StatusUnlock, ResizeOld, ResizeBusy, ResizeStart, MarkBucket,
     MarkedBefore, Swap, Publish, ResizeUnlock
<1> QED
  BY <1>1, <1>3, <1>4, <1>5, <1>6, <1>7, <1>8, ChainsSame
-----------------------------------------------------------------------------
(* Types.                                                                   *)
ScalarsOK ==
  /\ ht \in Tables /\ ntables \in Tables /\ ht <= ntables
  /\ resize_lock \in {LOCK_FREE, LOCK_UPDATE}
  /\ status_lock \in {LOCK_FREE, LOCK_UPDATE}
  /\ num_buckets \in [Tables -> 1..MaxBuckets]
  /\ num_expands \in [Tables -> Nat]
  /\ table_new \in [Tables -> Tables \cup {None}]
  /\ lock \in [Tables -> [Bins -> {LOCK_FREE, LOCK_UPDATE, LOCK_RESIZE}]]

(* The type of the tables is that of their scalars and that of their chains. *)
LEMMA TablesParts == TablesOK <=> ScalarsOK /\ ChainsOK
<1>1. TablesOK => ScalarsOK /\ ChainsOK
  BY ChainsFromTables DEF TablesOK, ScalarsOK
<1>2. ScalarsOK /\ ChainsOK => TablesOK
  BY DEF TablesOK, ScalarsOK, ChainsOK, Whole
<1> QED
  BY <1>1, <1>2

(* Every step keeps the types of the scalar fields of the tables.           *)
LEMMA ScalarsStep ==
  ASSUME IndInv, NEW p \in Threads, Invoke(p) \/ Work(p)
  PROVE  ScalarsOK'
<1>1. TypeOK /\ ScalarsOK
  BY TablesParts DEF IndInv, TypeOK
<1>2. tab[p] \in Tables /\ Bin(p) \in Bins
  BY <1>1, Thread
<1>3. CASE LockAcquire(p)
  BY <1>1, <1>2, <1>3 DEF LockAcquire, ScalarsOK
<1>4. CASE Release(p)
  BY <1>1, <1>2, <1>4 DEF Release, ScalarsOK
<1>5. CASE MarkBucket(p)
  <2>1. rs[p].old \in Tables /\ rs[p].bin \in Bins
    BY <1>5, Resizer DEF MarkBucket, Copying
  <2> QED
    BY <1>1, <1>5, <2>1 DEF MarkBucket, ScalarsOK
<1>6. CASE PutExpand(p)
  BY <1>1, <1>2, <1>6 DEF PutExpand, ScalarsOK
<1>7. CASE CopySlot(p)
  <2>1. rs[p].new \in Tables
    BY <1>7, Resizer DEF CopySlot, Copying
  <2>2. UNCHANGED <<ht, resize_lock, status_lock, ntables, num_buckets, table_new, lock>>
    BY <1>7 DEF CopySlot
  <2>3. num_expands' \in {num_expands, [num_expands EXCEPT ![rs[p].new] = @ + 1]}
    BY <1>7 DEF CopySlot, PutSeq
  <2> QED
    BY <1>1, <2>1, <2>2, <2>3 DEF ScalarsOK
<1>8. CASE ResizeStart(p)
  <2>1. rs[p] \in ResizeLocals
    BY <1>1 DEF TypeOK, ThreadsOK
  <2>2. rs[p].by \in Nat \ {0} /\ num_buckets[rs[p].old] \in Nat \ {0}
    BY <1>1, <2>1 DEF ResizeLocals, ScalarsOK
  <2>3. rs[p].by * num_buckets[rs[p].old] \in Nat \ {0}
    <3>1. ASSUME NEW x \in Nat \ {0}, NEW y \in Nat \ {0} PROVE x * y \in Nat \ {0}
      OBVIOUS
    <3> QED
      BY <2>2, <3>1
  <2>4. rs[p].by * num_buckets[rs[p].old] \in 1..MaxBuckets
    BY <1>8, <2>3, BoundsAssumption DEF ResizeStart
  <2>5. ntables + 1 \in Tables /\ ht <= ntables + 1
    BY <1>1, <1>8, BoundsAssumption DEF ResizeStart, ScalarsOK, Tables
  <2>6. num_buckets' \in [Tables -> 1..MaxBuckets]
    BY <1>1, <1>8, <2>4 DEF ResizeStart, ScalarsOK
  <2> QED
    BY <1>1, <1>8, <2>5, <2>6 DEF ResizeStart, ScalarsOK
<1>9. CASE Swap(p)
  <2>1. rs[p].new \in Tables /\ rs[p].new = ntables
    BY <1>9, Resizer DEF Swap, Copying
  <2> QED
    BY <1>1, <1>9, <2>1 DEF Swap, ScalarsOK, Tables
<1>10. CASE Publish(p)
  <2>1. rs[p] \in ResizeLocals
    BY <1>1 DEF TypeOK, ThreadsOK
  <2> QED
    BY <1>1, <1>10, <2>1 DEF Publish, ScalarsOK, ResizeLocals
<1>11. CASE ResizeUnlock(p) \/ StatusLock(p) \/ StatusUnlock(p)
  BY <1>1, <1>11 DEF ResizeUnlock, StatusLock, StatusUnlock, ScalarsOK
<1>12. ASSUME ~LockAcquire(p), ~Release(p), ~MarkBucket(p), ~PutExpand(p), ~CopySlot(p),
              ~ResizeStart(p), ~Swap(p), ~Publish(p), ~ResizeUnlock(p), ~StatusLock(p),
              ~StatusUnlock(p)
       PROVE  UNCHANGED <<ht, resize_lock, status_lock, ntables, num_buckets,
                          num_expands, table_new, lock>>
  BY <1>12 DEF Invoke, Work, Get, Exists, Lock, Put, Remove, Status, Resize,
     Return, shared, GetVal, GetKey, GetCheck, GetNext, ExistsKey, ExistsNext,
     LockResized, AwaitNewTable, Reread, PutFound, PutVal, PutKey, PutLink,
     RemoveKey, RemoveMiss, Count, ResizeOld, ResizeBusy, MarkedBefore
<1>13. UNCHANGED <<ht, resize_lock, status_lock, ntables, num_buckets, num_expands,
                   table_new, lock>> => ScalarsOK'
  BY <1>1 DEF ScalarsOK
<1> QED
  BY <1>3, <1>4, <1>5, <1>6, <1>7, <1>8, <1>9, <1>10, <1>11, <1>12, <1>13

(* Every step keeps the types of the tables.                                *)
LEMMA TablesStep ==
  ASSUME IndInv, NEW p \in Threads, Invoke(p) \/ Work(p)
  PROVE  TablesOK'
<1>1. ScalarsOK' /\ ChainsOK'
  BY ScalarsStep, ChainsStep
<1>2. (TablesOK <=> ScalarsOK /\ ChainsOK)'
  BY TablesParts, PTL
<1> QED
  BY <1>1, <1>2
(* The factor by which ht_status grows a table is at least 1.               *)
LEMMA Factor ==
  ASSUME NEW t, NEW n, Ratio(t, n) \in 0..MaxFactor
  PROVE  IncBy(t, n) \in Nat \ {0}
<1> DEFINE r == Ratio(t, n)
<1>1. ASSUME r # 0
      PROVE  \E x \in Pow2 : x >= r /\ \A y \in Pow2 : y >= r => x <= y
  BY <1>1 DEF Pow2, MaxFactor
<1>2. Pow2RoundUp(r) \in Pow2
  BY <1>1 DEF Pow2RoundUp, Pow2
<1> QED
  BY <1>2 DEF IncBy, Pow2

(* The factor that ht_status computes is a positive number.                 *)
LEMMA CountRange ==
  ASSUME TypeOK, NEW n \in Nat, NEW t \in Tables
  PROVE  Ratio(t, n) \in Nat
<1>1. num_buckets[t] \in Nat \ {0}
  BY DEF TypeOK, TablesOK
<1>2. ASSUME NEW x \in Nat \ {0}, NEW y \in Nat \ {0} PROVE x * y \in Nat \ {0}
  OBVIOUS
<1>3. Capacity(t) * CLHT_OCCUP_AFTER_RES \in Nat \ {0}
  BY <1>1, <1>2, EntriesAssumption DEF Capacity, CLHT_OCCUP_AFTER_RES
<1>4. 100 * n \in Nat
  OBVIOUS
<1> QED
  BY <1>3, <1>4, DivMod DEF Ratio

(* Every step keeps the types of the variables of the threads.              *)
LEMMA ThreadsStep ==
  ASSUME IndInv, NEW p \in Threads, Invoke(p) \/ Work(p)
  PROVE  ThreadsOK' /\ puts' \in 0..MaxPuts
<1> USE DEF ThreadsOK, Labels, Scanning, Updating, Sizing, Resizing, Copying, Goto
<1>1. TypeOK /\ ThreadsOK /\ ScalarsOK /\ ChainsOK /\ puts \in 0..MaxPuts
  BY TablesParts DEF IndInv, TypeOK
<1>2. /\ tab[p] \in Tables /\ Bin(p) \in Bins /\ ix[p] \in Nat \ {0}
      /\ call[p].val \in Vals \cup {None} /\ rs[p] \in ResizeLocals /\ nest[p] \in Nat
      /\ ht \in Tables
  BY <1>1, Thread DEF ScalarsOK
<1>0. ASSUME NEW a \in Labels, NEW b \in Labels,
              Advance(p, a, b) \/ Follow(p, a, b)
      PROVE  pc' \in [Threads -> Labels] /\ ix' \in [Threads -> Nat \ {0}]
  <2> USE <1>0
  <2>1. pc' = [pc EXCEPT ![p] = a] \/ pc' = [pc EXCEPT ![p] = b]
    BY DEF Advance, Follow
  <2>2. ix' = [ix EXCEPT ![p] = @ + 1] \/ ix' = ix
    BY DEF Advance, Follow
  <2> HIDE DEF Labels
  <2>3. pc' \in [Threads -> Labels]
    BY <1>1, <2>1
  <2>4. ix' \in [Threads -> Nat \ {0}]
    BY <1>1, <1>2, <2>2
  <2> QED
    BY <2>3, <2>4
<1>3. CASE Invoke(p)
  <2>1. PICK c \in Calls :
          /\ call' = [call EXCEPT ![p] = c]
          /\ IF c.op = "put" THEN puts < MaxPuts /\ c.val = puts + 1 ELSE c.val = None
          /\ puts' = IF c.op = "put" THEN puts + 1 ELSE puts
          /\ pc' = [pc EXCEPT ![p] = IF c.op = "get" THEN "get" ELSE "exists"]
    BY <1>3 DEF Invoke
  <2>2. puts' \in 0..MaxPuts
    BY <1>1, <2>1, BoundsAssumption
  <2> QED
    BY <1>1, <1>2, <1>3, <2>1, <2>2 DEF Invoke, shared, resizing
<1>4. CASE Return(p)
  BY <1>1, <1>4, BoundsAssumption DEF Return, resizing, Tables
<1>5. CASE Get(p)
  <2>1. CASE GetVal(p)
    <3>1. ix[p] \in 1..Len(val[tab[p]][Bin(p)])
      <4>1. ix[p] <= Len(key[tab[p]][Bin(p)])
        BY <2>1 DEF GetVal, IndInv, InRange, Chain
      <4>2. /\ Len(key[tab[p]][Bin(p)]) \in Nat
            /\ Len(val[tab[p]][Bin(p)]) = Len(key[tab[p]][Bin(p)])
        BY <1>1, <1>2, LenType
      <4> QED
        BY <1>2, <4>1, <4>2
    <3>2. val[tab[p]][Bin(p)] \in Seq(Vals \cup {None})
      BY <1>1, <1>2 DEF ChainsOK
    <3>3. ValAt(p) \in Vals \cup {None}
      BY <3>1, <3>2 DEF ValAt
    <3> QED
      BY <1>1, <2>1, <3>3 DEF GetVal, resizing
  <2>2. CASE GetKey(p)
    <3>1. CASE KeyAt(p) = call[p].key
      BY <1>1, <2>2, <3>1 DEF GetKey, resizing
    <3>2. CASE KeyAt(p) # call[p].key
      <4>1. Advance(p, "get", "getnext")
        BY <2>2, <3>2 DEF GetKey
      <4> QED
        BY <1>0, <1>1, <2>2, <3>2, <4>1 DEF GetKey, resizing
    <3> QED
      BY <3>1, <3>2
  <2>3. CASE GetCheck(p)
    BY <1>1, <1>2, <2>3 DEF GetCheck, resizing
  <2>4. CASE GetNext(p)
    BY <1>0, <1>1, <2>4 DEF GetNext, resizing
  <2> QED
    BY <1>5, <2>1, <2>2, <2>3, <2>4 DEF Get
<1>6. CASE Exists(p)
  <2>1. CASE ExistsKey(p)
    <3>1. CASE KeyAt(p) = call[p].key
      BY <1>1, <2>1, <3>1 DEF ExistsKey, resizing
    <3>2. CASE KeyAt(p) # call[p].key
      <4>1. Advance(p, "exists", "existsnext")
        BY <2>1, <3>2 DEF ExistsKey
      <4> QED
        BY <1>0, <1>1, <2>1, <4>1 DEF ExistsKey, resizing
    <3> QED
      BY <3>1, <3>2
  <2>2. CASE ExistsNext(p)
    <3>1. Follow(p, "exists", "acq") \/ Follow(p, "exists", "done")
      BY <2>2 DEF ExistsNext
    <3> QED
      BY <1>0, <1>1, <2>2, <3>1 DEF ExistsNext, resizing
  <2> QED
    BY <1>6, <2>1, <2>2 DEF Exists
<1>7. CASE Lock(p)
  BY <1>1, <1>2, <1>7
  DEF Lock, LockAcquire, LockResized, AwaitNewTable, Reread, resizing
<1>8. CASE Put(p)
  <2>1. CASE PutFound(p)
    BY <1>1, <2>1 DEF PutFound, resizing
  <2>2. CASE PutVal(p)
    <3>1. PICK i \in SlotsWith(Chain(p), None) : ix' = [ix EXCEPT ![p] = i]
      BY <2>2 DEF PutVal
    <3>2. i \in Nat \ {0}
      BY DEF SlotsWith
    <3> QED
      BY <1>1, <2>2, <3>1, <3>2 DEF PutVal, resizing
  <2>3. CASE PutKey(p)
    BY <1>1, <1>2, <2>3 DEF PutKey, resizing
  <2>4. CASE PutExpand(p)
    BY <1>1, <2>4 DEF PutExpand
  <2>5. CASE PutLink(p)
    BY <1>1, <1>2, <2>5 DEF PutLink, resizing
  <2> QED
    BY <1>8, <2>1, <2>2, <2>3, <2>4, <2>5 DEF Put
<1>9. CASE Remove(p)
  <2>1. CASE RemoveKey(p)
    <3>1. PICK i \in SlotsWith(Chain(p), call[p].key) :
            ret' = [ret EXCEPT ![p] = val[tab[p]][Bin(p)][i]]
      BY <2>1 DEF RemoveKey
    <3>2. i \in 1..Len(val[tab[p]][Bin(p)])
      BY <1>1, <1>2, LenType DEF SlotsWith, Chain
    <3>3. val[tab[p]][Bin(p)] \in Seq(Vals \cup {None})
      BY <1>1, <1>2 DEF ChainsOK
    <3>4. val[tab[p]][Bin(p)][i] \in Vals \cup {None}
      BY <3>2, <3>3
    <3> QED
      BY <1>1, <2>1, <3>1, <3>4 DEF RemoveKey, resizing
  <2>2. CASE RemoveMiss(p)
    BY <1>1, <2>2 DEF RemoveMiss, resizing
  <2> QED
    BY <1>9, <2>1, <2>2 DEF Remove
<1>10. CASE Release(p)
  BY <1>1, <1>2, <1>10 DEF Release, resizing
<1>11. CASE Status(p)
  <2>1. CASE StatusLock(p)
    BY <1>1, <1>2, <2>1 DEF StatusLock
  <2>2. CASE Count(p)
    <3>1. PICK n \in 0..(Capacity(ht) + num_expands[ht] * Entries) :
            IF NearlyEmpty(ht, n)
            THEN pc' = [pc EXCEPT ![p] = "unstatus"] /\ UNCHANGED rs
            ELSE /\ Ratio(ht, n) <= MaxFactor
                 /\ rs' = [rs EXCEPT ![p].by = IncBy(ht, n)]
                 /\ pc' = [pc EXCEPT ![p] = "resize"]
      BY <2>2 DEF Count
    <3>2. n \in Nat
      BY DEF Capacity
    <3>3. CASE NearlyEmpty(ht, n)
      BY <1>1, <2>2, <3>1, <3>3 DEF Count
    <3>4. CASE ~NearlyEmpty(ht, n)
      <4>1. IncBy(ht, n) \in Nat \ {0}
        <5>1. Ratio(ht, n) \in Nat
          BY <1>1, <1>2, <3>2, CountRange
        <5>2. Ratio(ht, n) \in 0..MaxFactor
          BY <3>1, <3>4, <5>1 DEF MaxFactor
        <5> QED
          BY <5>2, Factor
      <4>2. rs' \in [Threads -> ResizeLocals]
        BY <1>1, <3>1, <3>4, <4>1 DEF ResizeLocals
      <4> QED
        BY <1>1, <2>2, <3>1, <3>4, <4>2 DEF Count
    <3> QED
      BY <3>3, <3>4
  <2>3. CASE StatusUnlock(p)
    <3>1. nest[p] > 0
      BY <2>3 DEF StatusUnlock, IndInv, InRange
    <3>2. NoResize \in ResizeLocals
      BY BoundsAssumption DEF NoResize, ResizeLocals, Tables, Bins
    <3>3. nest' \in [Threads -> Nat]
      BY <1>1, <1>2, <2>3, <3>1 DEF StatusUnlock
    <3>4. /\ rs' = rs \/ rs' = [rs EXCEPT ![p] = NoResize]
          /\ resize' = resize \/ resize' = [resize EXCEPT ![p] = FALSE]
          /\ pc' = pc \/ pc' = [pc EXCEPT ![p] = "done"]
          /\ UNCHANGED <<call, tab, ix, ret, puts>>
      BY <2>3 DEF StatusUnlock
    <3>5. /\ rs' \in [Threads -> ResizeLocals]
          /\ resize' \in [Threads -> BOOLEAN]
      BY <1>1, <3>2, <3>4
    <3>6. pc' \in [Threads -> Labels]
      BY <1>1, <3>4
    <3> QED
      BY <1>1, <3>3, <3>4, <3>5, <3>6
  <2> QED
    BY <1>11, <2>1, <2>2, <2>3 DEF Status
<1>12. CASE Resize(p)
  <2>1. CASE ResizeOld(p)
    <3>1. rs' \in [Threads -> ResizeLocals]
      BY <1>1, <1>2, <2>1 DEF ResizeOld, ResizeLocals
    <3> QED
      BY <1>1, <2>1, <3>1 DEF ResizeOld
  <2>2. CASE ResizeBusy(p)
    BY <1>1, <2>2 DEF ResizeBusy, resizing
  <2>3. CASE ResizeStart(p)
    <3>1. ntables + 1 \in Tables /\ 0 \in Bins
      <4>1. ntables < MaxTables /\ ntables \in Tables
        BY <1>1, <2>3 DEF ResizeStart, ScalarsOK
      <4> QED
        BY <4>1, BoundsAssumption DEF Tables, Bins
    <3>2. rs' \in [Threads -> ResizeLocals]
      <4> DEFINE r == [rs[p] EXCEPT !.new = ntables + 1, !.bin = 0]
      <4>1. r \in ResizeLocals
        BY <1>2, <3>1 DEF ResizeLocals
      <4>2. rs' = [rs EXCEPT ![p] = r]
        BY <2>3 DEF ResizeStart
      <4> QED
        BY <1>1, <4>1, <4>2
    <3> QED
      BY <1>1, <2>3, <3>2 DEF ResizeStart
  <2>4. ASSUME pc[p] \in {"marking", "copy"}, NextBucket(p)
        PROVE  /\ rs' \in [Threads -> ResizeLocals]
               /\ pc' \in [Threads -> Labels]
    <3>1. num_buckets[rs[p].old] \in 1..MaxBuckets
      BY <1>1, <1>2 DEF ScalarsOK, ResizeLocals
    <3>2. CASE rs[p].bin + 1 < num_buckets[rs[p].old]
      <4>1. rs[p].bin + 1 \in Bins
        BY <1>2, <3>1, <3>2, BoundsAssumption DEF Bins, ResizeLocals
      <4>2. /\ rs' = [rs EXCEPT ![p].bin = rs[p].bin + 1]
            /\ pc' = [pc EXCEPT ![p] = "marking"]
        BY <2>4, <3>2 DEF NextBucket
      <4>3. rs' \in [Threads -> ResizeLocals]
        BY <1>1, <4>1, <4>2 DEF ResizeLocals
      <4> QED
        BY <1>1, <4>2, <4>3
    <3>3. CASE ~(rs[p].bin + 1 < num_buckets[rs[p].old])
      BY <1>1, <2>4, <3>3 DEF NextBucket
    <3> QED
      BY <3>2, <3>3
  <2>5. CASE MarkBucket(p)
    BY <1>1, <1>2, <2>5 DEF MarkBucket, resizing
  <2>6. CASE MarkedBefore(p)
    BY <1>1, <2>4, <2>6 DEF MarkedBefore
  <2>7. CASE CopySlot(p)
    <3>1. ix' \in [Threads -> Nat \ {0}]
      <4>1. ix' = [ix EXCEPT ![p] = @ + 1] \/ ix' = ix
        BY <2>7 DEF CopySlot
      <4> QED
        BY <1>1, <1>2, <4>1
    <3>2. rs' \in [Threads -> ResizeLocals] /\ pc' \in [Threads -> Labels]
      BY <1>1, <2>4, <2>7 DEF CopySlot
    <3> QED
      BY <1>1, <2>7, <3>1, <3>2 DEF CopySlot
  <2>8. CASE Swap(p)
    <3>1. rs' \in [Threads -> ResizeLocals]
      <4> DEFINE a == num_expands[rs[p].new] >= Threshold(rs[p].new)
      <4>1. rs' = [rs EXCEPT ![p].again = a]
        BY <2>8 DEF Swap
      <4>2. a \in BOOLEAN
        OBVIOUS
      <4>3. \A b \in BOOLEAN : [rs EXCEPT ![p].again = b] \in [Threads -> ResizeLocals]
        BY <1>1 DEF ResizeLocals
      <4> QED
        BY <4>1, <4>2, <4>3, Zenon
    <3> QED
      BY <1>1, <2>8, <3>1 DEF Swap
  <2>9. CASE Publish(p)
    BY <1>1, <2>9 DEF Publish, resizing
  <2>10. CASE ResizeUnlock(p)
    BY <1>1, <2>10 DEF ResizeUnlock, resizing
  <2> QED
    BY <1>12, <2>1, <2>2, <2>3, <2>5, <2>6, <2>7, <2>8, <2>9, <2>10 DEF Resize
<1> QED
  BY <1>3, <1>4, <1>5, <1>6, <1>7, <1>8, <1>9, <1>10, <1>11, <1>12 DEF Work

(* Every step of the system keeps the type invariant.                       *)
LEMMA TypeStep == IndInv /\ Next => TypeOK'
<1> SUFFICES ASSUME IndInv, Next PROVE TypeOK'
  OBVIOUS
<1>1. PICK p \in Threads : Invoke(p) \/ Work(p)
  BY DEF Next
<1>2. TablesOK' /\ ThreadsOK' /\ puts' \in 0..MaxPuts
  BY <1>1, TablesStep, ThreadsStep
<1>3. (AbsMap \in [Keys -> Vals \cup {None}])'
  <2>1. (TablesOK => AbsMap \in [Keys -> Vals \cup {None}])'
    BY AbsMapType, PTL
  <2> QED
    BY <1>2, <2>1
<1>4. seen' \in [Threads -> SUBSET (Vals \cup {None})]
  <2>1. seen \in [Threads -> SUBSET (Vals \cup {None})] /\ call \in [Threads -> Calls \cup {Idle}]
    BY DEF IndInv, TypeOK, ThreadsOK
  <2>2. call' \in [Threads -> Calls \cup {Idle}]
    BY <1>2 DEF ThreadsOK
  <2>3. ASSUME NEW c \in Calls PROVE AbsMap'[c.key] \in Vals \cup {None}
    BY <1>3 DEF Calls
  <2> QED
    BY <2>1, <2>2, <2>3 DEF Next, Watch
<1> QED
  BY <1>2, <1>4 DEF TypeOK
-----------------------------------------------------------------------------
(* What stays the same for a thread that does not move: its place, its key, *)
(* its table and with them its bucket.                                      *)
Stands(q) == /\ pc'[q] = pc[q] /\ call'[q] = call[q] /\ tab'[q] = tab[q]
             /\ ix'[q] = ix[q] /\ resize'[q] = resize[q] /\ nest'[q] = nest[q]
             /\ rs'[q] = rs[q]

(* A step of one thread leaves the variables of the others alone.           *)
LEMMA OthersStand ==
  ASSUME TypeOK, NEW p \in Threads, Invoke(p) \/ Work(p),
         NEW q \in Threads, q # p
  PROVE  Stands(q)
<1> USE DEF Stands, TypeOK, ThreadsOK, Goto
<1>1. CASE Invoke(p) \/ Return(p)
  BY <1>1 DEF Invoke, Return, resizing
<1>2. CASE Get(p) \/ Exists(p)
  BY <1>2 DEF Get, GetVal, GetKey, GetCheck, GetNext, Exists, ExistsKey, ExistsNext,
              Advance, Follow, resizing
<1>3. CASE Lock(p) \/ Release(p)
  BY <1>3 DEF Lock, LockAcquire, LockResized, AwaitNewTable, Reread, Release, resizing
<1>4. CASE Put(p) \/ Remove(p)
  BY <1>4 DEF Put, PutFound, PutVal, PutKey, PutExpand, PutLink,
              Remove, RemoveKey, RemoveMiss, resizing
<1>5. CASE Status(p)
  BY <1>5 DEF Status, StatusLock, Count, StatusUnlock
<1>6. CASE Resize(p)
  BY <1>6 DEF Resize, ResizeOld, ResizeBusy, ResizeStart, MarkBucket, MarkedBefore,
              CopySlot, NextBucket, Swap, Publish, ResizeUnlock, resizing
<1> QED
  BY <1>1, <1>2, <1>3, <1>4, <1>5, <1>6 DEF Work
(* Tables that exist keep their size, and the current table only gets newer. *)
LEMMA SizesStay ==
  ASSUME IndInv, NEW p \in Threads, Invoke(p) \/ Work(p)
  PROVE  /\ \A t \in Tables : t <= ht => num_buckets'[t] = num_buckets[t]
         /\ ht' = ht \/ (Swap(p) /\ ht' = ht + 1)
<1>1. TypeOK /\ ScalarsOK
  BY TablesParts DEF IndInv, TypeOK
<1>2. CASE ResizeStart(p)
  <2>1. ht' = ht /\ ntables \in Nat /\ ht \in Nat /\ ht <= ntables
    BY <1>1, <1>2 DEF ResizeStart, ScalarsOK, Tables
  <2>2. ASSUME NEW t \in Tables, t <= ht PROVE num_buckets'[t] = num_buckets[t]
    <3>1. t # ntables + 1
      BY <2>1, <2>2 DEF Tables
    <3> QED
      BY <1>1, <1>2, <3>1 DEF ResizeStart, ScalarsOK
  <2> QED
    BY <2>1, <2>2
<1>3. CASE Swap(p)
  <2>1. rs[p].new = ht + 1
    BY <1>3, Resizer DEF Swap, Copying
  <2> QED
    BY <1>3, <2>1 DEF Swap
<1>4. ASSUME ~ResizeStart(p), ~Swap(p) PROVE UNCHANGED <<num_buckets, ht>>
  BY <1>4 DEF Invoke, Work, Get, Exists, Lock, Put, Remove, Release, Status, Resize,
     Return, shared, GetVal, GetKey, GetCheck, GetNext, ExistsKey, ExistsNext,
     LockAcquire, LockResized, AwaitNewTable, Reread, PutFound, PutVal, PutKey,
     PutExpand, PutLink, RemoveKey, RemoveMiss, StatusLock, Count, StatusUnlock,
     ResizeOld, ResizeBusy, MarkBucket, MarkedBefore, CopySlot, Publish, ResizeUnlock
<1> QED
  BY <1>2, <1>3, <1>4

(* A thread whose table and call stay the same keeps its bucket.            *)
LEMMA BinStays ==
  ASSUME IndInv, NEW p \in Threads, Invoke(p) \/ Work(p),
         NEW q \in Threads, tab'[q] = tab[q], call'[q] = call[q]
  PROVE  Bin(q)' = Bin(q)
<1>1. tab[q] \in Tables /\ tab[q] <= ht
  BY DEF IndInv, TypeOK, ThreadsOK, OldTablesMarked
<1>2. num_buckets'[tab[q]] = num_buckets[tab[q]]
  BY <1>1, SizesStay
<1> QED
  BY <1>2 DEF Bin, clht_hash

(* Only three actions touch bucket locks.  In any other one the threads     *)
(* that are inside a lock are the same and at the same bucket.              *)
LEMMA LocksStand ==
  ASSUME IndInv, NEW p \in Threads, Invoke(p) \/ Work(p),
         ~LockAcquire(p), ~Release(p), ~MarkBucket(p)
  PROVE  /\ lock' = lock
         /\ pc'[p] \in Updating <=> pc[p] \in Updating
         /\ pc[p] \in Updating => tab'[p] = tab[p] /\ call'[p] = call[p]
<1> USE DEF Updating, Goto, shared
<1>1. pc \in [Threads -> Labels]
  BY DEF IndInv, TypeOK, ThreadsOK
<1>2. CASE Invoke(p) \/ Return(p)
  BY <1>1, <1>2 DEF Invoke, Return
<1>3. CASE Get(p) \/ Exists(p)
  BY <1>1, <1>3 DEF Get, GetVal, GetKey, GetCheck, GetNext, Exists, ExistsKey, ExistsNext,
                    Advance, Follow
<1>4. CASE Lock(p)
  BY <1>1, <1>4 DEF Lock, LockResized, AwaitNewTable, Reread
<1>5. CASE Put(p) \/ Remove(p)
  BY <1>1, <1>5 DEF Put, PutFound, PutVal, PutKey, PutExpand, PutLink,
                    Remove, RemoveKey, RemoveMiss
<1>6. CASE Status(p)
  BY <1>1, <1>6 DEF Status, StatusLock, Count, StatusUnlock
<1>7. CASE Resize(p)
  BY <1>1, <1>7 DEF Resize, ResizeOld, ResizeBusy, ResizeStart, MarkedBefore,
                    CopySlot, NextBucket, Swap, Publish, ResizeUnlock
<1> QED
  BY <1>2, <1>3, <1>4, <1>5, <1>6, <1>7 DEF Work
-----------------------------------------------------------------------------
(* The mutual exclusion of updates.                                         *)
LEMMA ExclusionStep ==
  ASSUME IndInv, NEW p \in Threads, Invoke(p) \/ Work(p)
  PROVE  UpdateExclusion'
<1>1. TypeOK /\ UpdateExclusion /\ ScalarsOK
  BY TablesParts DEF IndInv, TypeOK
<1>2. ASSUME NEW q \in Threads, q # p PROVE Stands(q) /\ Bin(q)' = Bin(q)
  BY <1>1, <1>2, OthersStand, BinStays DEF Stands
<1>3. tab[p] \in Tables /\ Bin(p) \in Bins
  BY <1>1, Thread
<1>4. ASSUME ~LockAcquire(p), ~Release(p), ~MarkBucket(p) PROVE UpdateExclusion'
  <2>1. /\ lock' = lock
        /\ \A q \in Threads : pc'[q] \in Updating <=> pc[q] \in Updating
        /\ \A q \in Threads : pc[q] \in Updating => tab'[q] = tab[q] /\ Bin(q)' = Bin(q)
    BY <1>2, <1>4, LocksStand, BinStays DEF Stands
  <2> QED
    BY <1>1, <2>1 DEF UpdateExclusion, LockOf
<1>5. CASE LockAcquire(p)
  <2>1. /\ pc'[p] \in Updating /\ tab'[p] = tab[p] /\ Bin(p)' = Bin(p)
        /\ pc[p] \notin Updating /\ lock[tab[p]][Bin(p)] = LOCK_FREE
    <3>1. tab'[p] = tab[p] /\ call'[p] = call[p]
      BY <1>5 DEF LockAcquire
    <3> QED
      BY <1>1, <1>5, <3>1, BinStays
      DEF LockAcquire, Goto, Updating, TypeOK, ThreadsOK, LockOf
  <2>2. ASSUME NEW q \in Threads, q # p, pc[q] \in Updating
        PROVE  ~(tab[q] = tab[p] /\ Bin(q) = Bin(p))
    BY <1>1, <2>1, <2>2 DEF UpdateExclusion, LockOf, LOCK_FREE, LOCK_UPDATE
  <2>3. ASSUME NEW t \in Tables, NEW b \in Bins
        PROVE  lock'[t][b] = IF t = tab[p] /\ b = Bin(p) THEN LOCK_UPDATE ELSE lock[t][b]
    BY <1>1, <1>3, <1>5 DEF LockAcquire, ScalarsOK
  <2>4. ASSUME NEW q \in Threads PROVE tab[q] \in Tables /\ Bin(q) \in Bins
    BY <1>1, Thread
  <2> QED
    BY <1>1, <1>2, <2>1, <2>2, <2>3, <2>4 DEF UpdateExclusion, LockOf, Stands
<1>6. CASE Release(p)
  <2>1. /\ pc'[p] \notin Updating /\ pc[p] \in Updating
    BY <1>1, <1>6 DEF Release, Goto, Updating, TypeOK, ThreadsOK
  <2>2. ASSUME NEW q \in Threads, q # p, pc[q] \in Updating
        PROVE  ~(tab[q] = tab[p] /\ Bin(q) = Bin(p))
    BY <1>1, <2>1, <2>2 DEF UpdateExclusion
  <2>3. ASSUME NEW t \in Tables, NEW b \in Bins
        PROVE  lock'[t][b] = IF t = tab[p] /\ b = Bin(p) THEN LOCK_FREE ELSE lock[t][b]
    BY <1>1, <1>3, <1>6 DEF Release, ScalarsOK
  <2>4. ASSUME NEW q \in Threads PROVE tab[q] \in Tables /\ Bin(q) \in Bins
    BY <1>1, Thread
  <2> QED
    BY <1>1, <1>2, <2>1, <2>2, <2>3, <2>4
    DEF UpdateExclusion, LockOf, Stands, LOCK_FREE, LOCK_UPDATE
<1>7. CASE MarkBucket(p)
  <2> DEFINE u == rs[p].old
             c == rs[p].bin
  <2>1. /\ pc'[p] \notin Updating /\ pc[p] \notin Updating
        /\ u \in Tables /\ c \in Bins /\ lock[u][c] = LOCK_FREE
    BY <1>1, <1>7, Resizer DEF MarkBucket, Goto, Updating, Copying, TypeOK, ThreadsOK
  <2>2. ASSUME NEW t \in Tables, NEW b \in Bins
        PROVE  lock'[t][b] = IF t = u /\ b = c THEN LOCK_RESIZE ELSE lock[t][b]
    BY <1>1, <1>7, <2>1 DEF MarkBucket, ScalarsOK
  <2>3. ASSUME NEW q \in Threads PROVE tab[q] \in Tables /\ Bin(q) \in Bins
    BY <1>1, Thread
  <2> QED
    BY <1>1, <1>2, <2>1, <2>2, <2>3
    DEF UpdateExclusion, LockOf, Stands, LOCK_FREE, LOCK_UPDATE, LOCK_RESIZE
<1> QED
  BY <1>4, <1>5, <1>6, <1>7
-----------------------------------------------------------------------------
(* Resize marks.                                                            *)
MarksKept == \A t \in Tables, b \in Bins :
               lock[t][b] = LOCK_RESIZE => lock'[t][b] = LOCK_RESIZE

(* No step takes a resize mark away.                                        *)
LEMMA MarksStep ==
  ASSUME IndInv, NEW p \in Threads, Invoke(p) \/ Work(p)
  PROVE  MarksKept
<1> USE DEF MarksKept, LOCK_FREE, LOCK_UPDATE, LOCK_RESIZE
<1>1. TypeOK /\ UpdateExclusion /\ ScalarsOK
  BY TablesParts DEF IndInv, TypeOK
<1>2. tab[p] \in Tables /\ Bin(p) \in Bins
  BY <1>1, Thread
<1>3. CASE LockAcquire(p)
  BY <1>1, <1>2, <1>3 DEF LockAcquire, ScalarsOK, LockOf
<1>4. CASE Release(p)
  <2>1. lock[tab[p]][Bin(p)] = LOCK_UPDATE
    BY <1>1, <1>4 DEF Release, UpdateExclusion, Updating, LockOf
  <2> QED
    BY <1>1, <1>2, <1>4, <2>1 DEF Release, ScalarsOK
<1>5. CASE MarkBucket(p)
  <2>1. rs[p].old \in Tables /\ rs[p].bin \in Bins
    BY <1>5, Resizer DEF MarkBucket, Copying
  <2> QED
    BY <1>1, <1>5, <2>1 DEF MarkBucket, ScalarsOK
<1> QED
  BY <1>3, <1>4, <1>5, LocksStand

(* Nobody is inside the lock of a table that has been replaced.             *)
LEMMA OnCurrent ==
  ASSUME TypeOK, UpdateExclusion, OldTablesMarked
  PROVE  UpdatesHitCurrentTable
<1> SUFFICES ASSUME NEW p \in Threads, pc[p] \in Updating
             PROVE  tab[p] = ht
  BY DEF UpdatesHitCurrentTable
<1>1. lock[tab[p]][Bin(p)] = LOCK_UPDATE
  BY DEF UpdateExclusion, LockOf
<1>2. tab[p] \in Tables /\ Bin(p) \in 0..(num_buckets[tab[p]] - 1)
  BY Thread
<1>3. ~(tab[p] < ht)
  BY <1>1, <1>2 DEF OldTablesMarked, LOCK_UPDATE, LOCK_RESIZE
<1>4. tab[p] <= ht /\ ht \in Nat /\ tab[p] \in Nat
  BY <1>2 DEF OldTablesMarked, TypeOK, TablesOK, Tables
<1> QED
  BY <1>3, <1>4

(* Every step leaves tables that have been replaced marked throughout.      *)
LEMMA OldTablesStep ==
  ASSUME IndInv, NEW p \in Threads, Invoke(p) \/ Work(p)
  PROVE  OldTablesMarked'
<1>1. TypeOK /\ ScalarsOK /\ OldTablesMarked /\ ThreadsOK
  BY TablesParts DEF IndInv, TypeOK
<1>2. /\ \A t \in Tables : t <= ht => num_buckets'[t] = num_buckets[t]
      /\ ht' = ht \/ (Swap(p) /\ ht' = ht + 1)
  BY SizesStay
<1>3. ht \in Nat \ {0} /\ ht \in Tables /\ ht' \in Nat /\ ht' >= ht
  BY <1>1, <1>2 DEF ScalarsOK, Tables
<1>4. ASSUME NEW q \in Threads PROVE tab'[q] <= ht'
  <2>1. CASE q # p
    <3>1. tab[q] \in Tables /\ tab[q] <= ht /\ tab'[q] = tab[q]
      BY <1>1, <2>1, OthersStand DEF OldTablesMarked, ThreadsOK, Stands
    <3> QED
      BY <1>3, <3>1 DEF Tables
  <2>2. CASE q = p
    <3>1. tab' \in {tab, [tab EXCEPT ![p] = ht], [tab EXCEPT ![p] = 1]}
      BY DEF Invoke, Work, Get, Exists, Lock, Put, Remove, Release, Status, Resize,
         Return, shared, GetVal, GetKey, GetCheck, GetNext, ExistsKey, ExistsNext,
         LockAcquire, LockResized, AwaitNewTable, Reread, PutFound, PutVal, PutKey,
         PutExpand, PutLink, RemoveKey, RemoveMiss, StatusLock, Count, StatusUnlock,
         ResizeOld, ResizeBusy, ResizeStart, MarkBucket, MarkedBefore, CopySlot,
         Swap, Publish, ResizeUnlock
    <3>2. tab'[p] = tab[p] \/ tab'[p] = ht \/ tab'[p] = 1
      BY <1>1, <3>1 DEF ThreadsOK
    <3>3. tab[p] \in Tables /\ tab[p] <= ht
      BY <1>1 DEF OldTablesMarked, ThreadsOK
    <3> QED
      BY <1>3, <2>2, <3>2, <3>3 DEF Tables
  <2> QED
    BY <2>1, <2>2
<1>5. ASSUME NEW t \in Tables, t < ht', NEW b \in 0..(num_buckets'[t] - 1)
      PROVE  lock'[t][b] = LOCK_RESIZE
  <2>1. t <= ht /\ num_buckets'[t] = num_buckets[t]
    BY <1>2, <1>3, <1>5 DEF Tables
  <2>2. b \in Bins
    BY <1>1, <1>5, <2>1, BoundsAssumption DEF ScalarsOK, Bins
  <2>3. lock[t][b] = LOCK_RESIZE
    <3>1. CASE t < ht
      BY <1>1, <1>5, <2>1, <3>1 DEF OldTablesMarked
    <3>2. CASE t = ht
      <4>1. Swap(p)
        BY <1>2, <1>3, <1>5, <3>2
      <4>2. pc[p] = "swap" /\ pc[p] \in Copying
        BY <4>1 DEF Swap, Copying
      <4> QED
        BY <1>5, <2>1, <3>2, <4>2 DEF IndInv, OneResizer
    <3> QED
      BY <1>3, <2>1, <3>1, <3>2 DEF Tables
  <2> QED
    BY <2>2, <2>3, MarksStep DEF MarksKept
<1> QED
  BY <1>4, <1>5 DEF OldTablesMarked
-----------------------------------------------------------------------------
(* One thread resizes at a time.                                            *)

(* The actions of a resize; in any other one the threads that resize are    *)
(* the same, and so are their locals and what they rely on.                 *)
LEMMA ResizeStands ==
  ASSUME IndInv, NEW p \in Threads, Invoke(p) \/ Work(p),
         ~ResizeStart(p), ~MarkBucket(p), ~MarkedBefore(p), ~CopySlot(p), ~Swap(p),
         ~Publish(p), ~ResizeUnlock(p)
  PROVE  /\ UNCHANGED <<ht, resize_lock, ntables, num_buckets>>
         /\ pc[p] \notin Resizing /\ pc'[p] \notin Resizing
<1> USE DEF Resizing, Copying, Goto, shared
<1>1. pc \in [Threads -> Labels]
  BY DEF IndInv, TypeOK, ThreadsOK
<1>2. CASE Invoke(p) \/ Return(p)
  BY <1>1, <1>2 DEF Invoke, Return
<1>3. CASE Get(p) \/ Exists(p)
  BY <1>1, <1>3 DEF Get, GetVal, GetKey, GetCheck, GetNext, Exists, ExistsKey, ExistsNext,
                    Advance, Follow
<1>4. CASE Lock(p) \/ Release(p)
  BY <1>1, <1>4 DEF Lock, LockAcquire, LockResized, AwaitNewTable, Reread, Release
<1>5. CASE Put(p) \/ Remove(p)
  BY <1>1, <1>5 DEF Put, PutFound, PutVal, PutKey, PutExpand, PutLink,
                    Remove, RemoveKey, RemoveMiss
<1>6. CASE Status(p)
  BY <1>1, <1>6 DEF Status, StatusLock, Count, StatusUnlock
<1>7. CASE ResizeOld(p) \/ ResizeBusy(p)
  BY <1>1, <1>7 DEF ResizeOld, ResizeBusy
<1> QED
  BY <1>2, <1>3, <1>4, <1>5, <1>6, <1>7 DEF Work, Resize

(* Every step keeps the resizer alone and its marks in place.               *)
LEMMA ResizerStep ==
  ASSUME IndInv, NEW p \in Threads, Invoke(p) \/ Work(p)
  PROVE  OneResizer'
<1>1. TypeOK /\ ScalarsOK /\ ThreadsOK /\ OneResizer /\ OneTrigger
  BY TablesParts DEF IndInv, TypeOK
<1>2. ASSUME NEW q \in Threads, q # p PROVE pc'[q] = pc[q] /\ rs'[q] = rs[q]
  BY <1>1, <1>2, OthersStand DEF Stands
<1>3. /\ MarksKept
      /\ \A t \in Tables : t <= ht => num_buckets'[t] = num_buckets[t]
      /\ ht \in Tables /\ ht \in Nat /\ num_buckets[ht] \in 1..MaxBuckets
      /\ \A b \in 0..(num_buckets[ht] - 1) : b \in Bins
  BY <1>1, MarksStep, SizesStay, BoundsAssumption DEF ScalarsOK, Tables, Bins
<1>4. num_buckets'[ht] = num_buckets[ht]
  BY <1>3
<1>5. ASSUME ~ResizeStart(p), ~MarkBucket(p), ~MarkedBefore(p), ~CopySlot(p), ~Swap(p),
             ~Publish(p), ~ResizeUnlock(p)
      PROVE  OneResizer'
  <2>1. /\ UNCHANGED <<ht, resize_lock, ntables>>
        /\ pc[p] \notin Resizing /\ pc'[p] \notin Resizing
    BY <1>5, ResizeStands
  <2>2. pc[p] \notin Copying /\ pc'[p] \notin Copying
    BY <2>1 DEF Resizing
  <2> QED
    BY <1>1, <1>2, <1>3, <1>4, <2>1, <2>2 DEF OneResizer, MarksKept
<1>6. ASSUME NEW l, pc[p] \in Copying, pc'[p] = l, l \in Copying,
             UNCHANGED <<ht, resize_lock, ntables>>,
             rs'[p].old = rs[p].old, rs'[p].new = rs[p].new,
             \A b \in 0..(num_buckets[ht] - 1) :
               \/ b < rs'[p].bin
               \/ l = "copy" /\ b = rs'[p].bin
               \/ l = "swap"
               => lock'[ht][b] = LOCK_RESIZE
      PROVE  OneResizer'
  <2>1. ASSUME NEW q \in Threads, q # p PROVE pc'[q] \notin Resizing /\ pc'[q] \notin Copying
    BY <1>1, <1>2, <1>6, <2>1 DEF OneResizer, Resizing
  <2>2. /\ \A q \in Threads : pc'[q] \in Resizing => resize_lock' = LOCK_UPDATE
        /\ \A q, r \in Threads : pc'[q] \in Resizing /\ pc'[r] \in Resizing => q = r
        /\ ~ \A q \in Threads : pc'[q] \notin Copying
    BY <1>1, <1>6, <2>1 DEF OneResizer, Resizing
  <2>3. ASSUME NEW q \in Threads, pc'[q] \in Copying
        PROVE  /\ rs'[q].old = ht' /\ rs'[q].new = ht' + 1 /\ ntables' = ht' + 1
               /\ \A b \in 0..(num_buckets'[ht'] - 1) :
                    \/ b < rs'[q].bin
                    \/ pc'[q] = "copy" /\ b = rs'[q].bin
                    \/ pc'[q] = "swap"
                    => lock'[ht'][b] = LOCK_RESIZE
    <3>1. q = p
      BY <2>1, <2>3
    <3> QED
      BY <1>1, <1>4, <1>6, <3>1 DEF OneResizer
  <2> QED
    BY <2>2, <2>3 DEF OneResizer
<1>7. CASE ResizeStart(p)
  <2>1. /\ pc[p] = "tryresize" /\ pc'[p] = "marking" /\ ht' = ht
        /\ resize_lock = LOCK_FREE /\ resize_lock' = LOCK_UPDATE
        /\ ntables' = ntables + 1
        /\ rs'[p].old = rs[p].old /\ rs'[p].new = ntables + 1 /\ rs'[p].bin = 0
    BY <1>1, <1>7 DEF ResizeStart, Goto, ThreadsOK, ResizeLocals
  <2>2. \A q \in Threads : pc[q] \notin Resizing /\ pc[q] \notin Copying
    BY <1>1, <2>1 DEF OneResizer, LOCK_FREE, LOCK_UPDATE, Resizing
  <2>3. ntables = ht /\ rs[p].old = ht
    BY <1>1, <2>1, <2>2 DEF OneResizer, OneTrigger
  <2>4. \A q \in Threads : q # p => pc'[q] \notin Resizing /\ pc'[q] \notin Copying
    BY <1>2, <2>2
  <2>5. \A b \in 0..(num_buckets'[ht] - 1) : ~(b < rs'[p].bin)
    BY <1>3, <1>4, <2>1
  <2> QED
    BY <2>1, <2>3, <2>4, <2>5 DEF OneResizer, Copying
<1>8. ASSUME pc[p] \in {"marking", "copy"}, NextBucket(p),
             UNCHANGED <<ht, resize_lock, ntables>>,
             lock'[ht][rs[p].bin] = LOCK_RESIZE
      PROVE  OneResizer'
  <2>1. pc[p] \in Copying /\ pc[p] # "swap"
    BY <1>8 DEF Copying
  <2>2. /\ rs[p].bin \in Nat /\ rs[p].old = ht
        /\ \A b \in 0..(num_buckets[ht] - 1) : b <= rs[p].bin => lock'[ht][b] = LOCK_RESIZE
    BY <1>1, <1>3, <1>8, <2>1, Resizer DEF OneResizer, MarksKept, Bins
  <2>3. CASE rs[p].bin + 1 < num_buckets[ht]
    <3>1. /\ pc'[p] = "marking" /\ rs'[p].bin = rs[p].bin + 1
          /\ rs'[p].old = rs[p].old /\ rs'[p].new = rs[p].new
      BY <1>1, <1>8, <2>2, <2>3 DEF NextBucket, Goto, ThreadsOK, ResizeLocals
    <3>2. \A b \in 0..(num_buckets[ht] - 1) : b < rs'[p].bin => lock'[ht][b] = LOCK_RESIZE
      BY <2>2, <3>1
    <3> QED
      BY <1>6, <1>8, <2>1, <3>1, <3>2 DEF Copying
  <2>4. CASE ~(rs[p].bin + 1 < num_buckets[ht])
    <3>1. pc'[p] = "swap" /\ rs' = rs
      BY <1>1, <1>8, <2>2, <2>4 DEF NextBucket, Goto, ThreadsOK
    <3>2. \A b \in 0..(num_buckets[ht] - 1) : lock'[ht][b] = LOCK_RESIZE
      BY <1>3, <2>2, <2>4
    <3> QED
      BY <1>6, <1>8, <2>1, <3>1, <3>2 DEF Copying
  <2> QED
    BY <2>3, <2>4
<1>9. CASE MarkBucket(p)
  <2>1. /\ pc[p] = "marking" /\ pc'[p] = "copy" /\ rs' = rs
        /\ UNCHANGED <<ht, resize_lock, ntables>>
    BY <1>1, <1>9 DEF MarkBucket, Goto, ThreadsOK, resizing
  <2>2. rs[p].old = ht /\ rs[p].bin \in Bins
    BY <2>1, Resizer DEF Copying
  <2>3. lock'[ht][rs[p].bin] = LOCK_RESIZE
    BY <1>1, <1>3, <1>9, <2>2 DEF MarkBucket, ScalarsOK
  <2>4. \A b \in 0..(num_buckets[ht] - 1) :
          b < rs[p].bin \/ b = rs[p].bin => lock'[ht][b] = LOCK_RESIZE
    BY <1>1, <1>3, <2>1, <2>3 DEF OneResizer, MarksKept, Copying
  <2> QED
    BY <1>6, <2>1, <2>4 DEF Copying
<1>10. CASE MarkedBefore(p)
  <2>1. pc[p] = "marking" /\ UNCHANGED <<ht, resize_lock, ntables, lock>> /\ NextBucket(p)
    BY <1>10 DEF MarkedBefore, shared
  <2>2. rs[p].old = ht
    BY <2>1, Resizer DEF Copying
  <2> QED
    BY <1>8, <1>10, <2>1, <2>2 DEF MarkedBefore
<1>11. CASE CopySlot(p)
  <2>1. /\ pc[p] = "copy" /\ UNCHANGED <<ht, resize_lock, ntables, lock>>
        /\ (UNCHANGED <<pc, rs>>) \/ NextBucket(p)
    BY <1>11 DEF CopySlot
  <2>2. rs[p].old = ht /\ rs[p].bin < num_buckets[ht] /\ rs[p].bin \in Nat
    BY <2>1, Resizer DEF IndInv, InRange, Copying, Bins
  <2>3. lock'[ht][rs[p].bin] = LOCK_RESIZE
    BY <1>1, <1>3, <2>1, <2>2 DEF OneResizer, Copying
  <2>4. CASE UNCHANGED <<pc, rs>>
    BY <1>1, <1>6, <2>1, <2>4 DEF OneResizer, Copying
  <2> QED
    BY <1>8, <2>1, <2>3, <2>4
<1>12. CASE Swap(p)
  <2>1. /\ pc[p] = "swap" /\ pc'[p] = "publish" /\ UNCHANGED <<resize_lock, ntables>>
        /\ ht' = rs[p].new
    BY <1>1, <1>12 DEF Swap, Goto, ThreadsOK
  <2>2. ht' = ntables' /\ resize_lock' = LOCK_UPDATE
    BY <1>1, <2>1 DEF OneResizer, Copying, Resizing
  <2>3. \A q \in Threads : q # p => pc'[q] \notin Resizing
    BY <1>1, <1>2, <2>1 DEF OneResizer, Copying, Resizing
  <2> QED
    BY <2>1, <2>2, <2>3 DEF OneResizer, Resizing, Copying
<1>13. CASE Publish(p) \/ ResizeUnlock(p)
  <2>1. /\ pc[p] \in {"publish", "unresize"}
        /\ pc'[p] = "unresize" \/ pc'[p] \notin Resizing
        /\ UNCHANGED <<ht, ntables>>
        /\ pc'[p] = "unresize" => resize_lock' = resize_lock
    BY <1>1, <1>13 DEF Publish, ResizeUnlock, Goto, ThreadsOK, Resizing, Copying
  <2>2. \A q \in Threads : q # p => pc'[q] \notin Resizing
    BY <1>1, <1>2, <2>1 DEF OneResizer, Copying, Resizing
  <2>3. \A q \in Threads : pc[q] \notin Copying
    BY <1>1, <2>1 DEF OneResizer, Copying, Resizing
  <2> QED
    BY <1>1, <2>1, <2>2, <2>3 DEF OneResizer, Resizing, Copying
<1> QED
  BY <1>5, <1>7, <1>9, <1>10, <1>11, <1>12, <1>13
-----------------------------------------------------------------------------
(* One thread at most is bound to resize.                                   *)
AfterTrigger == {"putlink", "release", "status"} \cup Sizing

(* Steps outside the life of a trigger leave the bound threads as they are. *)
LEMMA TriggerStands ==
  ASSUME IndInv, NEW p \in Threads, Invoke(p) \/ Work(p), ~PutExpand(p), ~Swap(p)
  PROVE  /\ Triggered(p)' => Triggered(p)
         /\ pc'[p] = "tryresize" => rs'[p].old = ht
         /\ resize'[p] => pc'[p] \in AfterTrigger
         /\ num_expands'[ht] >= num_expands[ht]
<1> USE DEF Triggered, AfterTrigger, Sizing, Resizing, Copying, Goto
<1>1. /\ ThreadsOK /\ ScalarsOK /\ OneTrigger
      /\ ht \in Tables /\ num_expands[ht] \in Nat
  BY TablesParts DEF IndInv, TypeOK, ScalarsOK
<1>2. /\ pc \in [Threads -> Labels] /\ resize \in [Threads -> BOOLEAN]
      /\ rs \in [Threads -> ResizeLocals] /\ rs[p].again \in BOOLEAN
      /\ resize[p] \in BOOLEAN
      /\ resize[p] => pc[p] \in {"putlink", "release", "status"} \cup Sizing
  BY <1>1 DEF ThreadsOK, OneTrigger, ResizeLocals
<1>3. CASE Invoke(p) \/ Return(p)
  BY <1>1, <1>2, <1>3 DEF Invoke, Return, shared, resizing
<1>4. CASE Get(p) \/ Exists(p)
  BY <1>1, <1>2, <1>4 DEF Get, GetVal, GetKey, GetCheck, GetNext, Exists, ExistsKey,
                          ExistsNext, Advance, Follow, shared, resizing
<1>5. CASE Lock(p) \/ Release(p)
  BY <1>1, <1>2, <1>5 DEF Lock, LockAcquire, LockResized, AwaitNewTable, Reread, Release,
                          shared, resizing
<1>6. CASE Put(p) \/ Remove(p)
  BY <1>1, <1>2, <1>6 DEF Put, PutFound, PutVal, PutKey, PutLink,
                          Remove, RemoveKey, RemoveMiss, shared, resizing
<1>7. CASE Status(p)
  <2>1. CASE StatusLock(p)
    BY <1>1, <1>2, <2>1 DEF StatusLock
  <2>2. CASE Count(p)
    <3>1. /\ pc[p] = "count" /\ pc'[p] \in {"unstatus", "resize"}
          /\ UNCHANGED <<num_expands, resize>>
      BY <1>2, <2>2 DEF Count, shared
    <3> QED
      BY <1>1, <1>2, <3>1
  <2>3. CASE StatusUnlock(p)
    BY <1>1, <1>2, <2>3 DEF StatusUnlock
  <2> QED
    BY <1>7, <2>1, <2>2, <2>3 DEF Status
<1>8. CASE ResizeOld(p)
  <2>1. /\ pc[p] = "resize" /\ pc'[p] = "tryresize" /\ rs'[p].old = ht
        /\ UNCHANGED <<num_expands, resize>>
    BY <1>1, <1>2, <1>8 DEF ResizeOld, shared, ResizeLocals
  <2> QED
    BY <1>1, <1>2, <2>1
<1>9. CASE ResizeStart(p)
  <2>1. /\ pc[p] = "tryresize" /\ pc'[p] = "marking"
        /\ UNCHANGED <<num_expands, resize>>
    BY <1>1, <1>2, <1>9 DEF ResizeStart
  <2> QED
    BY <1>1, <1>2, <2>1
<1>10. CASE ResizeBusy(p) \/ MarkBucket(p) \/ Publish(p) \/ ResizeUnlock(p)
  BY <1>1, <1>2, <1>10 DEF ResizeBusy, MarkBucket, Publish, ResizeUnlock, shared, resizing
<1>11. CASE MarkedBefore(p) \/ CopySlot(p)
  <2>1. /\ pc[p] \in {"marking", "copy"} /\ pc'[p] \in {"marking", "copy", "swap"}
        /\ resize' = resize
    BY <1>2, <1>11 DEF MarkedBefore, CopySlot, NextBucket
  <2>2. num_expands' \in {num_expands, [num_expands EXCEPT ![rs[p].new] = @ + 1]}
    BY <1>11 DEF MarkedBefore, CopySlot, PutSeq, shared
  <2>3. rs[p].new \in Tables
    BY <1>2 DEF ResizeLocals
  <2>4. num_expands'[ht] >= num_expands[ht]
    BY <1>1, <2>2, <2>3 DEF ScalarsOK
  <2> QED
    BY <1>2, <2>1, <2>4
<1> QED
  BY <1>3, <1>4, <1>5, <1>6, <1>7, <1>8, <1>9, <1>10, <1>11 DEF Work, Resize

(* Every step keeps at most one thread bound to resize the current table.   *)
LEMMA TriggerStep ==
  ASSUME IndInv, NEW p \in Threads, Invoke(p) \/ Work(p)
  PROVE  OneTrigger'
<1> USE DEF AfterTrigger
<1>1. TypeOK /\ ThreadsOK /\ ScalarsOK /\ OneTrigger
  BY TablesParts DEF IndInv, TypeOK
<1>2. ASSUME NEW q \in Threads, q # p
      PROVE  /\ Triggered(q)' <=> Triggered(q)
             /\ pc'[q] = pc[q] /\ resize'[q] = resize[q] /\ rs'[q] = rs[q]
  BY <1>1, <1>2, OthersStand DEF Stands, Triggered
<1>3. /\ \A t \in Tables : t <= ht => num_buckets'[t] = num_buckets[t]
      /\ ht \in Tables /\ ht \in Nat /\ num_buckets[ht] \in Nat /\ num_expands[ht] \in Nat
  BY <1>1, SizesStay DEF ScalarsOK, Tables
<1>4. Threshold(ht) \in Nat
  BY <1>3 DEF Threshold, CLHT_PERC_EXPANSIONS
<1>5. ASSUME ~PutExpand(p), ~Swap(p) PROVE OneTrigger'
  <2>1. /\ Triggered(p)' => Triggered(p)
        /\ pc'[p] = "tryresize" => rs'[p].old = ht
        /\ resize'[p] => pc'[p] \in AfterTrigger
        /\ num_expands'[ht] >= num_expands[ht]
    BY <1>5, TriggerStands
  <2>2. ht' = ht /\ num_buckets'[ht] = num_buckets[ht]
    BY <1>3, <1>5, SizesStay
  <2>3. Threshold(ht)' = Threshold(ht)
    BY <2>2 DEF Threshold
  <2>4. num_expands'[ht] \in Nat
    BY <1>1, <2>2, ScalarsStep DEF ScalarsOK
  <2>5. \A q, r \in Threads : Triggered(q)' /\ Triggered(r)' => q = r
    BY <1>1, <1>2, <2>1 DEF OneTrigger
  <2>6. ASSUME NEW q \in Threads, Triggered(q)' PROVE num_expands'[ht'] >= Threshold(ht)'
    <3>1. num_expands[ht] >= Threshold(ht)
      BY <1>1, <1>2, <2>1, <2>6 DEF OneTrigger
    <3> QED
      BY <1>3, <1>4, <2>1, <2>2, <2>3, <2>4, <3>1
  <2>7. ASSUME NEW q \in Threads
        PROVE  /\ pc'[q] = "tryresize" => rs'[q].old = ht'
               /\ resize'[q] => pc'[q] \in AfterTrigger
    BY <1>1, <1>2, <2>1, <2>2 DEF OneTrigger
  <2> QED
    BY <2>2, <2>5, <2>6, <2>7 DEF OneTrigger, Threshold
<1>6. CASE PutExpand(p)
  <2>1. /\ pc[p] = "locked" /\ pc'[p] = "putlink" /\ UNCHANGED <<ht, rs, num_buckets>>
        /\ num_expands' = [num_expands EXCEPT ![tab[p]] = @ + 1]
        /\ resize'[p] = (num_expands'[tab[p]] = Threshold(tab[p]))
    BY <1>1, <1>6 DEF PutExpand, Goto, ThreadsOK
  <2>2. tab[p] = ht
    BY <1>1, <2>1, OnCurrent DEF UpdatesHitCurrentTable, Updating, IndInv
  <2>3. num_expands'[ht] = num_expands[ht] + 1
    BY <1>1, <1>3, <2>1, <2>2 DEF ScalarsOK
  <2>4. ~Triggered(p)
    BY <2>1 DEF Triggered, Copying
  <2>5. Triggered(p)' => num_expands'[ht] = Threshold(ht)
    BY <2>1, <2>2 DEF Triggered, Copying
  <2>6. \A q \in Threads : Triggered(q) => num_expands[ht] >= Threshold(ht)
    BY <1>1 DEF OneTrigger
  <2>7. Triggered(p)' => \A q \in Threads : ~Triggered(q)
    BY <1>3, <1>4, <2>3, <2>5, <2>6
  <2>8. \A q, r \in Threads : Triggered(q)' /\ Triggered(r)' => q = r
    BY <1>1, <1>2, <2>4, <2>7 DEF OneTrigger
  <2>9. ASSUME NEW q \in Threads, Triggered(q)' PROVE num_expands'[ht] >= Threshold(ht)
    <3>1. CASE q = p
      BY <1>4, <2>5, <2>9, <3>1
    <3>2. CASE q # p
      <4>1. num_expands[ht] >= Threshold(ht)
        BY <1>2, <2>6, <2>9, <3>2
      <4> QED
        BY <1>3, <1>4, <2>3, <4>1
    <3> QED
      BY <3>1, <3>2
  <2>10. ASSUME NEW q \in Threads
         PROVE  /\ pc'[q] = "tryresize" => rs'[q].old = ht'
                /\ resize'[q] => pc'[q] \in AfterTrigger
    BY <1>1, <1>2, <2>1 DEF OneTrigger
  <2> QED
    BY <2>1, <2>8, <2>9, <2>10 DEF OneTrigger, Threshold
<1>7. CASE Swap(p)
  <2>1. /\ pc[p] = "swap" /\ pc'[p] = "publish" /\ ht' = rs[p].new
        /\ UNCHANGED <<num_expands, num_buckets, resize>>
        /\ rs'[p].again = (num_expands[ht'] >= Threshold(ht'))
    BY <1>1, <1>7 DEF Swap, Goto, ThreadsOK, ResizeLocals
  <2>2. Triggered(p)
    BY <2>1 DEF Triggered, Copying
  <2>3. \A q \in Threads : q # p => ~Triggered(q)
    BY <1>1, <2>2 DEF OneTrigger
  <2>4. \A q \in Threads : Triggered(q)' => q = p
    BY <1>2, <2>3
  <2>5. Triggered(p)' => num_expands[ht'] >= Threshold(ht')
    BY <2>1 DEF Triggered, Copying
  <2>6. \A q \in Threads : pc'[q] # "tryresize"
    BY <1>2, <2>1, <2>3 DEF Triggered
  <2>7. \A q \in Threads : resize'[q] => pc'[q] \in AfterTrigger
    BY <1>1, <1>2, <2>1 DEF OneTrigger, Sizing, Resizing
  <2> QED
    BY <2>1, <2>4, <2>5, <2>6, <2>7 DEF OneTrigger, Threshold
<1> QED
  BY <1>5, <1>6, <1>7
-----------------------------------------------------------------------------
(* Cursors stay inside their chains.                                        *)

(* A thread that does not move keeps its cursor, and its chain only grows.  *)
LEMMA RangeStands ==
  ASSUME IndInv, NEW p \in Threads, Invoke(p) \/ Work(p), NEW q \in Threads, q # p
  PROVE  /\ pc'[q] \in Scanning => ix'[q] <= Len(Chain(q))'
         /\ pc'[q] = "copy" => ix'[q] <= Len(key'[rs'[q].old][rs'[q].bin])
         /\ pc'[q] \in {"marking", "copy"} => rs'[q].bin < num_buckets'[rs'[q].old]
         /\ pc'[q] \in Sizing => nest'[q] > 0
<1>1. TypeOK /\ InRange /\ ChainsOK /\ Stands(q) /\ ChainsOK' /\ ChainsGrow
  BY OthersStand, ChainsStep, Thread DEF IndInv
<1>2. tab[q] \in Tables /\ Bin(q) \in Bins /\ Bin(q)' = Bin(q) /\ ix[q] \in Nat
  BY <1>1, Thread, BinStays DEF Stands
<1>3. ASSUME pc'[q] \in Scanning PROVE ix'[q] <= Len(Chain(q))'
  <2>1. ix[q] <= Len(key[tab[q]][Bin(q)])
    BY <1>1, <1>3 DEF InRange, Stands, Chain
  <2>2. Len(key[tab[q]][Bin(q)]) <= Len(key'[tab[q]][Bin(q)])
    BY <1>1, <1>2 DEF ChainsGrow
  <2>3. Len(key[tab[q]][Bin(q)]) \in Nat /\ Len(key'[tab[q]][Bin(q)]) \in Nat
    BY <1>1, <1>2 DEF ChainsOK, Whole
  <2>4. Len(Chain(q))' = Len(key'[tab[q]][Bin(q)])
    BY <1>1, <1>2 DEF Chain, Stands
  <2> QED
    BY <1>1, <1>2, <2>1, <2>2, <2>3, <2>4 DEF Stands
<1>4. ASSUME pc'[q] = "copy" PROVE ix'[q] <= Len(key'[rs'[q].old][rs'[q].bin])
  <2> DEFINE t == rs[q].old
             b == rs[q].bin
  <2>1. pc[q] = "copy" /\ t \in Tables /\ b \in Bins
    BY <1>1, <1>4, Resizer DEF Stands, Copying
  <2>4. ix'[q] = ix[q] /\ rs'[q].old = t /\ rs'[q].bin = b
    BY <1>1 DEF Stands
  <2>2. ix[q] <= Len(key[t][b])
    BY <1>1, <2>1 DEF InRange
  <2>3. Len(key[t][b]) \in Nat /\ Len(key'[t][b]) \in Nat /\ Len(key[t][b]) <= Len(key'[t][b])
    BY <1>1, <2>1 DEF ChainsOK, Whole, ChainsGrow
  <2> QED
    BY <1>2, <2>2, <2>3, <2>4
<1>5. ASSUME pc'[q] \in {"marking", "copy"} PROVE rs'[q].bin < num_buckets'[rs'[q].old]
  <2>1. pc[q] \in {"marking", "copy"} /\ rs[q].old = ht /\ ht \in Tables /\ ht <= ht
    BY <1>1, <1>5, Resizer DEF Stands, Copying, TypeOK, TablesOK, Tables
  <2>2. num_buckets'[ht] = num_buckets[ht]
    BY <2>1, SizesStay
  <2> QED
    BY <1>1, <2>1, <2>2 DEF InRange, Stands
<1>6. pc'[q] \in Sizing => nest'[q] > 0
  BY <1>1 DEF InRange, Stands
<1> QED
  BY <1>3, <1>4, <1>5, <1>6

ChainsThere == \A p \in Threads : /\ tab[p] \in Tables /\ Bin(p) \in Bins
                                  /\ Len(Chain(p)) \in Nat \ {0}

(* The bucket of a thread exists and its chain has at least one slot.       *)
LEMMA ChainNonEmpty == TablesOK /\ ThreadsOK => ChainsThere
<1> SUFFICES ASSUME TablesOK, ThreadsOK, NEW p \in Threads
             PROVE  /\ tab[p] \in Tables /\ Bin(p) \in Bins
                    /\ Len(Chain(p)) \in Nat \ {0}
  BY DEF ChainsThere
<1>1. call[p].key \in Nat
  <2>1. call[p] \in Calls \/ call[p] = Idle
    BY DEF ThreadsOK
  <2>2. ASSUME call[p] \in Calls PROVE call[p].key \in Nat
    BY <2>2, KeysAssumption DEF Calls
  <2>3. Idle.key \in Nat
    BY DEF Idle
  <2> QED
    BY <2>1, <2>2, <2>3
<1>2. tab[p] \in Tables /\ Bin(p) \in Bins
  BY <1>1, HashInRange DEF ThreadsOK, Bin
<1> QED
  BY <1>2, LenType, ChainsFromTables DEF Chain

(* The step of the thread itself.                                           *)
LEMMA RangeOwn ==
  ASSUME IndInv, NEW p \in Threads, Invoke(p) \/ Work(p)
  PROVE  /\ pc'[p] \in Scanning => ix'[p] <= Len(Chain(p))'
         /\ pc'[p] = "copy" => ix'[p] <= Len(key'[rs'[p].old][rs'[p].bin])
         /\ pc'[p] \in {"marking", "copy"} => rs'[p].bin < num_buckets'[rs'[p].old]
         /\ pc'[p] \in Sizing => nest'[p] > 0
<1> DEFINE Goal == /\ pc'[p] \in Scanning => ix'[p] <= Len(Chain(p))'
                   /\ pc'[p] = "copy" => ix'[p] <= Len(key'[rs'[p].old][rs'[p].bin])
                   /\ pc'[p] \in {"marking", "copy"} => rs'[p].bin < num_buckets'[rs'[p].old]
                   /\ pc'[p] \in Sizing => nest'[p] > 0
<1> USE DEF Scanning, Sizing, Resizing, Copying, Goto
<1>1. TypeOK /\ InRange /\ ThreadsOK /\ ChainsOK /\ ChainsGrow /\ ChainsOK'
  BY ChainsStep, Thread DEF IndInv, TypeOK
<1>2. /\ tab[p] \in Tables /\ Bin(p) \in Bins /\ ix[p] \in Nat \ {0} /\ nest[p] \in Nat
      /\ pc \in [Threads -> Labels] /\ ix \in [Threads -> Nat \ {0}]
      /\ nest \in [Threads -> Nat] /\ rs \in [Threads -> ResizeLocals]
  BY <1>1, Thread DEF ThreadsOK
<1>3. Len(Chain(p))' \in Nat \ {0}
  <2>1. TablesOK' /\ ThreadsOK'
    BY TablesStep, ThreadsStep
  <2>2. (TablesOK /\ ThreadsOK => ChainsThere)'
    BY ChainNonEmpty, PTL
  <2> QED
    BY <2>1, <2>2 DEF ChainsThere
<1>4. Whole(Len(Chain(p))) /\ Len(Chain(p)) \in Nat \ {0}
  BY <1>1, <1>2 DEF ChainsOK, Whole, Chain
<1>5. ASSUME tab'[p] = tab[p], call'[p] = call[p] PROVE Len(Chain(p)) <= Len(Chain(p))'
  <2>1. Bin(p)' = Bin(p)
    BY <1>5, BinStays
  <2> QED
    BY <1>1, <1>2, <1>5, <2>1 DEF ChainsGrow, Chain
<1>6. ASSUME ix'[p] <= Len(Chain(p)), tab'[p] = tab[p], call'[p] = call[p], ix'[p] \in Nat
      PROVE  ix'[p] <= Len(Chain(p))'
  BY <1>3, <1>4, <1>5, <1>6
<1>7. ASSUME pc'[p] \in Labels \ (Scanning \cup Sizing) PROVE Goal
  BY <1>7
<1>8. CASE Invoke(p)
  <2>1. ix'[p] = 1 /\ pc'[p] \in {"get", "exists"}
    BY <1>2, <1>8 DEF Invoke
  <2> QED
    BY <1>3, <2>1
<1>9. ASSUME NEW a, NEW b, Advance(p, a, b), pc[p] \in Scanning
      PROVE  /\ pc'[p] \in {a, b} /\ ix'[p] <= Len(Chain(p)) /\ ix'[p] \in Nat
  <2>1. ix[p] <= Len(Chain(p))
    BY <1>1, <1>9 DEF InRange
  <2>2. CASE ix[p] % Entries # 0
    <3>1. ix[p] # Len(Chain(p))
      BY <1>4, <2>2 DEF Whole
    <3>2. pc'[p] = a /\ ix'[p] = ix[p] + 1
      BY <1>2, <1>9, <2>2 DEF Advance
    <3> QED
      BY <1>2, <1>4, <2>1, <3>1, <3>2
  <2>3. CASE ix[p] % Entries = 0
    BY <1>2, <1>9, <2>1, <2>3 DEF Advance
  <2> QED
    BY <2>2, <2>3
<1>10. ASSUME NEW a, NEW b, Follow(p, a, b), pc[p] \in Scanning
       PROVE  /\ pc'[p] \in {a, b} /\ ix'[p] <= Len(Chain(p)) /\ ix'[p] \in Nat
  <2>1. ix[p] <= Len(Chain(p))
    BY <1>1, <1>10 DEF InRange
  <2>2. CASE ix[p] < Len(Chain(p))
    BY <1>2, <1>4, <1>10, <2>2 DEF Follow
  <2>3. CASE ~(ix[p] < Len(Chain(p)))
    BY <1>2, <1>10, <2>1, <2>3 DEF Follow
  <2> QED
    BY <2>2, <2>3
<1>11. CASE Get(p) \/ Exists(p)
  <2>1. /\ pc[p] \in Scanning /\ tab'[p] = tab[p] /\ call'[p] = call[p]
    BY <1>11 DEF Get, GetVal, GetKey, GetCheck, GetNext, Exists, ExistsKey, ExistsNext
  <2>2. ix[p] <= Len(Chain(p))
    BY <1>1, <2>1 DEF InRange
  <2>3. \/ ix' = ix /\ pc'[p] \in {"getkey", "getcheck", "done", "acq"}
        \/ \E a \in {"get", "exists"}, b \in {"getnext", "existsnext"} : Advance(p, a, b)
        \/ \E a \in {"get", "exists"}, b \in {"acq", "done"} : Follow(p, a, b)
    BY <1>2, <1>11 DEF Get, GetVal, GetKey, GetCheck, GetNext, Exists, ExistsKey, ExistsNext
  <2>4. /\ ix'[p] <= Len(Chain(p)) /\ ix'[p] \in Nat
        /\ pc'[p] \in Scanning \cup {"done", "acq"}
    BY <1>2, <1>9, <1>10, <2>1, <2>2, <2>3
  <2>5. ix'[p] <= Len(Chain(p))'
    BY <1>6, <2>1, <2>4
  <2> QED
    BY <2>4, <2>5
<1>12. CASE PutVal(p)
  <2>1. PICK i \in SlotsWith(Chain(p), None) : ix' = [ix EXCEPT ![p] = i]
    BY <1>12 DEF PutVal
  <2>2. ix'[p] <= Len(Chain(p)) /\ ix'[p] \in Nat
    BY <1>2, <1>4, <2>1 DEF SlotsWith
  <2>3. ix'[p] <= Len(Chain(p))'
    BY <1>6, <1>12, <2>2 DEF PutVal
  <2> QED
    BY <1>2, <1>12, <2>3 DEF PutVal
<1>13. CASE Return(p) \/ Lock(p) \/ Release(p) \/ Remove(p)
            \/ PutFound(p) \/ PutKey(p) \/ PutExpand(p) \/ PutLink(p)
  <2>1. pc'[p] \in {"idle", "locked", "wait", "reread", "acq", "status", "done",
                    "release", "putlink"}
    BY <1>2, <1>13
    DEF Return, Lock, LockAcquire, LockResized, AwaitNewTable, Reread, Release, Remove,
        RemoveKey, RemoveMiss, PutFound, PutKey, PutExpand, PutLink
  <2> QED
    BY <2>1
<1>14. CASE Status(p)
  <2>1. CASE StatusLock(p)
    BY <1>2, <2>1 DEF StatusLock
  <2>2. CASE Count(p)
    <3>1. pc[p] = "count" /\ pc'[p] \in {"unstatus", "resize"} /\ nest' = nest
      BY <1>2, <2>2 DEF Count
    <3> QED
      BY <1>1, <3>1 DEF InRange
  <2>3. CASE StatusUnlock(p)
    <3>1. pc[p] = "unstatus" /\ nest[p] > 0
      BY <1>1, <2>3 DEF StatusUnlock, InRange
    <3>2. CASE nest[p] = 1
      BY <1>2, <2>3, <3>2 DEF StatusUnlock
    <3>3. CASE nest[p] # 1
      <4>1. pc'[p] = "unstatus" /\ nest'[p] = nest[p] - 1
        BY <1>2, <2>3, <3>1, <3>3 DEF StatusUnlock
      <4> QED
        BY <1>2, <3>1, <3>3, <4>1
    <3> QED
      BY <3>2, <3>3
  <2> QED
    BY <1>14, <2>1, <2>2, <2>3 DEF Status
<1>15. CASE ResizeOld(p) \/ ResizeBusy(p) \/ Swap(p) \/ Publish(p) \/ ResizeUnlock(p)
  <2>1. /\ pc[p] \in Sizing /\ nest' = nest
        /\ pc'[p] \in {"tryresize", "unstatus", "publish", "unresize", "status"}
    BY <1>2, <1>15 DEF ResizeOld, ResizeBusy, Swap, Publish, ResizeUnlock, resizing
  <2> QED
    BY <1>1, <2>1 DEF InRange
<1>16. CASE ResizeStart(p)
  <2>1. /\ pc[p] = "tryresize" /\ pc'[p] = "marking" /\ nest' = nest
        /\ rs'[p].bin = 0 /\ rs'[p].old = rs[p].old /\ rs[p].old \in Tables
    BY <1>2, <1>16 DEF ResizeStart, ResizeLocals
  <2>2. num_buckets'[rs[p].old] > 0
    BY <2>1, TablesStep DEF TablesOK
  <2> QED
    BY <1>1, <2>1, <2>2 DEF InRange
<1>17. CASE MarkBucket(p) \/ MarkedBefore(p) \/ CopySlot(p)
  <2> DEFINE t == rs[p].old
             b == rs[p].bin
  <2>1. /\ pc[p] \in {"marking", "copy"} /\ nest' = nest
        /\ t = ht /\ t \in Tables /\ b \in Bins /\ num_buckets[t] \in Nat \ {0}
    BY <1>17, Resizer DEF MarkBucket, MarkedBefore, CopySlot, resizing
  <2>2. nest'[p] > 0 /\ b < num_buckets[t] /\ b \in Nat
    BY <1>1, <2>1 DEF InRange, Bins
  <2>3. num_buckets'[t] = num_buckets[t]
    <3>1. t <= ht
      BY <2>1 DEF Tables
    <3> QED
      BY <2>1, <3>1, SizesStay
  <2>4. /\ Len(key[t][b]) \in Nat \ {0} /\ Len(key'[t][b]) \in Nat \ {0}
        /\ Len(key[t][b]) <= Len(key'[t][b])
    BY <1>1, <2>1 DEF ChainsOK, Whole, ChainsGrow
  <2>5. CASE MarkBucket(p)
    <3>1. pc'[p] = "copy" /\ ix'[p] = 1 /\ rs' = rs
      BY <1>2, <2>5 DEF MarkBucket, resizing
    <3> QED
      BY <2>2, <2>3, <2>4, <3>1
  <2>6. ASSUME NextBucket(p) PROVE Goal
    <3>1. CASE b + 1 < num_buckets[t]
      <4>1. pc'[p] = "marking" /\ rs'[p].bin = b + 1 /\ rs'[p].old = t
        BY <1>2, <2>6, <3>1 DEF NextBucket, ResizeLocals
      <4> QED
        BY <2>2, <2>3, <3>1, <4>1
    <3>2. CASE ~(b + 1 < num_buckets[t])
      BY <1>2, <2>2, <2>6, <3>2 DEF NextBucket
    <3> QED
      BY <3>1, <3>2
  <2>7. CASE MarkedBefore(p)
    BY <2>6, <2>7 DEF MarkedBefore
  <2>8. CASE CopySlot(p)
    <3>1. CASE ix[p] < Len(key[t][b])
      <4>1. pc[p] = "copy" /\ pc' = pc /\ rs' = rs /\ ix'[p] = ix[p] + 1
        BY <1>2, <2>8, <3>1 DEF CopySlot
      <4>2. ix'[p] \in Nat /\ ix'[p] <= Len(key'[t][b])
        BY <1>2, <2>2, <2>4, <3>1, <4>1
      <4> QED
        BY <1>2, <2>2, <2>3, <2>4, <3>1, <4>1, <4>2
    <3>2. CASE ~(ix[p] < Len(key[t][b]))
      BY <2>6, <2>8, <3>2 DEF CopySlot
    <3> QED
      BY <3>1, <3>2
  <2> QED
    BY <1>17, <2>5, <2>7, <2>8
<1> QED
  BY <1>8, <1>11, <1>12, <1>13, <1>14, <1>15, <1>16, <1>17 DEF Work, Put, Resize

(* Every step keeps the cursors in range.                                   *)
LEMMA RangeStep ==
  ASSUME IndInv, NEW p \in Threads, Invoke(p) \/ Work(p)
  PROVE  InRange'
  BY RangeStands, RangeOwn DEF InRange
-----------------------------------------------------------------------------
(* The invariant.                                                           *)
LEMMA InitInv == Init => IndInv
<1> SUFFICES ASSUME Init PROVE IndInv
  OBVIOUS
<1>1. /\ 1 \in Tables /\ 1 \in Nat /\ InitBuckets \in 1..MaxBuckets
      /\ NoResize \in ResizeLocals
  BY BoundsAssumption DEF Tables, NoResize, ResizeLocals, Bins
<1>2. ScalarsOK
  BY <1>1 DEF Init, ScalarsOK
<1>3. ChainsOK
  <2>1. /\ EmptyChain \in Seq(Keys \cup {None}) /\ EmptyChain \in Seq(Vals \cup {None})
        /\ Len(EmptyChain) = Entries
    BY EntriesAssumption DEF EmptyChain
  <2>2. Entries % Entries = 0
    BY EntriesAssumption, MultipleMod, 1 * Entries = Entries
  <2>3. Whole(Len(EmptyChain))
    BY <2>1, <2>2, EntriesAssumption DEF Whole
  <2> QED
    BY <2>1, <2>3 DEF Init, ChainsOK
<1>4. ThreadsOK
  BY <1>1 DEF Init, ThreadsOK, Labels
<1>5. TypeOK
  BY <1>2, <1>3, <1>4, TablesParts, BoundsAssumption DEF TypeOK, Init
<1>6. \A p \in Threads : pc[p] = "idle"
  BY DEF Init
<1>7. InRange
  BY <1>6 DEF InRange, Scanning, Sizing, Resizing, Copying
<1>8. UpdateExclusion
  <2>1. \A t \in Tables, b \in Bins : lock[t][b] # LOCK_UPDATE
    BY DEF Init, LOCK_FREE, LOCK_UPDATE
  <2> QED
    BY <1>6, <2>1 DEF UpdateExclusion, Updating
<1>9. OldTablesMarked
  <2>1. /\ ht = 1 /\ \A p \in Threads : tab[p] = 1
        /\ \A t \in Tables : ~(t < 1)
    BY DEF Init, Tables
  <2> QED
    BY <2>1 DEF OldTablesMarked
<1>10. OneResizer
  BY <1>6 DEF OneResizer, Init, Resizing, Copying
<1>11. OneTrigger
  BY <1>6 DEF OneTrigger, Triggered, Init, Copying
<1> QED
  BY <1>5, <1>7, <1>8, <1>9, <1>10, <1>11 DEF IndInv

(* The invariant is inductive: every step, and stuttering, keeps it.        *)
LEMMA StepInv == IndInv /\ [Next]_vars => IndInv'
<1> SUFFICES ASSUME IndInv, [Next]_vars PROVE IndInv'
  OBVIOUS
<1>1. CASE Next
  <2>1. PICK p \in Threads : Invoke(p) \/ Work(p)
    BY <1>1 DEF Next
  <2> QED
    BY <1>1, <2>1, TypeStep, RangeStep, ExclusionStep, OldTablesStep, ResizerStep,
       TriggerStep DEF IndInv
<1>2. CASE UNCHANGED vars
  BY <1>2
  DEF vars, shared, resizing, IndInv, TypeOK, TablesOK, ThreadsOK, InRange, UpdateExclusion,
      OldTablesMarked, OneResizer, OneTrigger, Triggered, LockOf, Chain, Bin, clht_hash,
      Threshold
<1> QED
  BY <1>1, <1>2

(* IndInv holds in every reachable state, for all constants.                *)
THEOREM Invariance == Spec => []IndInv
  BY InitInv, StepInv, PTL DEF Spec

(* Every variable of the table and of its threads keeps its type, and       *)
(* chains remain sequences of whole buckets, whatever resizes run.          *)
THEOREM TypeCorrect == Spec => []TypeOK
<1>1. IndInv => TypeOK
  BY DEF IndInv
<1> QED
  BY <1>1, Invariance, PTL

(* No two threads are ever inside the lock of one bucket.                   *)
THEOREM Exclusion == Spec => []UpdateExclusion
<1>1. IndInv => UpdateExclusion
  BY DEF IndInv
<1> QED
  BY <1>1, Invariance, PTL

(* A put or remove never changes a table that has been replaced.            *)
THEOREM NoUpdateOfOldTable == Spec => []UpdatesHitCurrentTable
<1>1. IndInv => UpdatesHitCurrentTable
  BY OnCurrent DEF IndInv
<1> QED
  BY <1>1, Invariance, PTL

(* A resize always copies the current table, although ht_resize_pes reads   *)
(* h->ht before it takes resize_lock.                                       *)
THEOREM NoResizeOfOldTable == Spec => []ResizesCurrentTable
<1>1. IndInv => ResizesCurrentTable
  <2> SUFFICES ASSUME IndInv, NEW p \in Threads, pc[p] \in Copying
               PROVE  rs[p].old = ht /\ rs[p].new # ht
    BY DEF ResizesCurrentTable
  <2>1. ht \in Nat
    BY DEF IndInv, TypeOK, TablesOK, Tables
  <2> QED
    BY <2>1, Resizer
<1> QED
  BY <1>1, Invariance, PTL

(* A bucket that is marked for a resize stays marked, although locks are    *)
(* released with a plain store.                                             *)
THEOREM MarksForEver == Spec => MarksStay
<1>1. IndInv /\ [Next]_vars =>
        [\A t \in Tables, b \in Bins :
           lock[t][b] = LOCK_RESIZE => lock'[t][b] = LOCK_RESIZE]_vars
  <2> SUFFICES ASSUME IndInv, Next
               PROVE  \A t \in Tables, b \in Bins :
                        lock[t][b] = LOCK_RESIZE => lock'[t][b] = LOCK_RESIZE
    OBVIOUS
  <2>1. PICK p \in Threads : Invoke(p) \/ Work(p)
    BY DEF Next
  <2> QED
    BY <2>1, MarksStep DEF MarksKept
<1> QED
  BY <1>1, Invariance, PTL DEF Spec, MarksStay
=============================================================================
